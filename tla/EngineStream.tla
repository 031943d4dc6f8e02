---------------------------- MODULE EngineStream ----------------------------
(***************************************************************************)
(* One C engine subprocess shared by the HTTP request threads of the       *)
(* dashboard: CTracedSubprocess.stream and what it calls                   *)
(* (veritate_mri/inference/backends/c_engine.py), with the engine's        *)
(* chat_traced_loop (veritate_engine/v1/src/main.c) at the other end of    *)
(* the pipe.                                                               *)
(*                                                                         *)
(* Each request is a thread that calls stream() once.  Its generator may be*)
(* closed at a yield (the client went away) or stay parked there for ever  *)
(* (nothing closes it); the engine may die; a thread that waits too long   *)
(* for the lock may reclaim the backend.  One action is one stretch of     *)
(* Python between two points where another thread's writes matter.  A      *)
(* frame is one token of the pipe, tagged with the request it answers.     *)
(***************************************************************************)
EXTENDS Naturals, Sequences, FiniteSets

CONSTANTS
  Requests,     \* the request threads
  Fast,         \* those with do_trace off: they are sent FFRM frames
  Silent,       \* those whose prompt is empty: the engine never answers
  None,
  MaxFrames,    \* bound: frames of one answer
  PipeCap,      \* bound: tokens the stdout pipe holds before the engine blocks
  MaxFaults,    \* bound: engine deaths and failed spawns
  MayStall      \* whether 30 s may pass without a frame

ASSUME StreamAssumption ==
  /\ Fast \subseteq Requests /\ Silent \subseteq Requests
  /\ IsFiniteSet(Requests) /\ None \notin Requests \cup Nat
  /\ MaxFrames \in Nat /\ PipeCap \in Nat \ {0} /\ MaxFaults \in Nat
  /\ MayStall \in BOOLEAN

VARIABLES
  lock,        \* self.lock: the identity of the current lock object
  owner,       \* who holds each lock object
  reclaimer,   \* who holds _reclaim_lock
  epoch,       \* _epoch
  stale,       \* monotonic() - _last_frame_time >= STREAM_LOCK_TIMEOUT_S
  lastClean,   \* _last_clean
  proc,        \* self.proc: a process, or None
  alive,       \* which processes run
  inq,         \* requests in each engine's stdin
  work,        \* the request each engine is answering
  left,        \* and the frames it may still send
  out,         \* tokens in each engine's stdout
  pc,          \* where each thread is in stream()
  me,          \* its local variables
  faults       \* faults so far

pyvars  == <<lock, owner, reclaimer, epoch, stale, lastClean, proc>>
engvars == <<inq, work, left, out>>
vars    == <<lock, owner, reclaimer, epoch, stale, lastClean, proc, alive, inq,
             work, left, out, pc, me, faults>>

\* A thread reclaims at most once, and a reclaim makes one lock object.
Locks == 0 .. Cardinality(Requests)
\* A thread refers to at most one process and self.proc to one more: a spawn
\* always finds an identity nothing refers to (whose pipes are closed by then).
Procs == 0 .. Cardinality(Requests) + 1
\* What the pipe holds: a frame, a TEND, or the rest of a fast frame whose
\* marker alone was read.
Token == [req : Requests, kind : {"frame", "end", "rest"}]

Init ==
  /\ lock = 0
  /\ owner = [l \in Locks |-> None]
  /\ reclaimer = None
  /\ epoch = 0
  /\ stale = TRUE
  /\ lastClean = TRUE
  /\ proc = 0
  /\ alive = [p \in Procs |-> p = 0]
  /\ inq = [p \in Procs |-> <<>>]
  /\ work = [p \in Procs |-> None]
  /\ left = [p \in Procs |-> 0]
  /\ out = [p \in Procs |-> <<>>]
  /\ pc = [c \in Requests |-> "idle"]
  /\ me = [c \in Requests |-> [lock |-> 0, epoch |-> 0, proc |-> None,
                               tend |-> FALSE, respawned |-> FALSE,
                               next |-> None, got |-> None]]
  /\ faults = 0

-----------------------------------------------------------------------------
(* The engine: chat_traced_loop.                                           *)

\* Reads the next request; on an empty prompt it reads on without an answer.
EngineTake(p) ==
  /\ alive[p] /\ work[p] = None /\ inq[p] # <<>>
  /\ inq' = [inq EXCEPT ![p] = Tail(@)]
  /\ work' = [work EXCEPT ![p] = IF Head(inq[p]) \in Silent
                                  THEN None ELSE Head(inq[p])]
  /\ left' = [left EXCEPT ![p] = MaxFrames]
  /\ UNCHANGED <<pyvars, alive, out, pc, me, faults>>

EngineFrame(p) ==
  /\ alive[p] /\ work[p] # None /\ left[p] > 0
  /\ Len(out[p]) < PipeCap
  /\ out' = [out EXCEPT ![p] = Append(@, [req |-> work[p], kind |-> "frame"])]
  /\ left' = [left EXCEPT ![p] = @ - 1]
  /\ UNCHANGED <<pyvars, alive, inq, work, pc, me, faults>>

\* The budget is used up, or a NUL byte was sampled before that: TEND.
EngineEnd(p) ==
  /\ alive[p] /\ work[p] # None
  /\ Len(out[p]) < PipeCap
  /\ out' = [out EXCEPT ![p] = Append(@, [req |-> work[p], kind |-> "end"])]
  /\ work' = [work EXCEPT ![p] = None]
  /\ UNCHANGED <<pyvars, alive, inq, left, pc, me, faults>>

\* The process dies; what it wrote stays readable.
EngineDie(p) ==
  /\ alive[p] /\ faults < MaxFaults
  /\ alive' = [alive EXCEPT ![p] = FALSE]
  /\ faults' = faults + 1
  /\ UNCHANGED <<pyvars, engvars, pc, me>>

Engine(p) == EngineTake(p) \/ EngineFrame(p) \/ EngineEnd(p)

-----------------------------------------------------------------------------
(* Taking the lock: the head of stream().                                  *)

Goto(c, from, to) == pc[c] = from /\ pc' = [pc EXCEPT ![c] = to]
Kept == UNCHANGED <<alive, engvars, faults>>

\* The call evaluates self.lock and blocks on that lock object.
Request(c) ==
  /\ Goto(c, "idle", "acquire")
  /\ me' = [me EXCEPT ![c].lock = lock]
  /\ Kept /\ UNCHANGED pyvars

Acquire(c) ==
  /\ Goto(c, "acquire", "bind")
  /\ owner[me[c].lock] = None
  /\ owner' = [owner EXCEPT ![me[c].lock] = c]
  /\ Kept /\ UNCHANGED <<lock, reclaimer, epoch, stale, lastClean, proc, me>>

\* RECLAIM_POLL_S is up: queue for _reclaim_lock.  Two seconds are longer than
\* a new holder needs to reach its first heartbeat.
AcquireTimeout(c) ==
  /\ Goto(c, "acquire", "reclaim")
  /\ owner[me[c].lock] # None
  /\ pc[owner[me[c].lock]] # "bind"
  /\ Kept /\ UNCHANGED <<pyvars, me>>

EnterReclaim(c) ==
  /\ Goto(c, "reclaim", "try")
  /\ reclaimer = None
  /\ reclaimer' = c
  /\ Kept /\ UNCHANGED <<lock, owner, epoch, stale, lastClean, proc, me>>

\* lock.acquire(timeout=0) succeeds under _reclaim_lock.
TryTakes(c) ==
  /\ Goto(c, "try", "bind")
  /\ owner[lock] = None
  /\ owner' = [owner EXCEPT ![lock] = c]
  /\ reclaimer' = None
  /\ Kept /\ UNCHANGED <<lock, epoch, stale, lastClean, proc, me>>

\* Mutant: _reclaim_lock is not given back.
TryWaitsKeeping(c) ==
  /\ Goto(c, "try", "acquire")
  /\ owner[lock] # None /\ ~stale
  /\ me' = [me EXCEPT ![c].lock = lock]
  /\ Kept /\ UNCHANGED <<lock, owner, reclaimer, epoch, stale, lastClean, proc>>

\* The holder has sent a frame lately: wait for it again.
TryWaits(c) ==
  /\ Goto(c, "try", "acquire")
  /\ owner[lock] # None /\ ~stale
  /\ reclaimer' = None
  /\ me' = [me EXCEPT ![c].lock = lock]
  /\ Kept /\ UNCHANGED <<lock, owner, epoch, stale, lastClean, proc>>

Killed(p) == IF p = None THEN alive ELSE [alive EXCEPT ![p] = FALSE]

\* The holder is stale: kill its process,
ReclaimKill(c) ==
  /\ Goto(c, "try", "bump")
  /\ owner[lock] # None /\ stale
  /\ alive' = Killed(proc)
  /\ UNCHANGED <<pyvars, engvars, me, faults>>

\* Mutant: the epoch stays.
ReclaimKeepsEpoch(c) ==
  /\ Goto(c, "bump", "take")
  /\ lock' = epoch + 1
  /\ Kept /\ UNCHANGED <<owner, reclaimer, epoch, stale, lastClean, proc, me>>

\* move the epoch and install a fresh lock object,
ReclaimBump(c) ==
  /\ Goto(c, "bump", "take")
  /\ epoch' = epoch + 1
  /\ lock' = epoch + 1
  /\ Kept /\ UNCHANGED <<owner, reclaimer, stale, lastClean, proc, me>>

\* acquire it, which blocks if another thread was quicker, and forget the
\* process.
ReclaimTake(c) ==
  /\ Goto(c, "take", "bind")
  /\ owner[lock] = None
  /\ owner' = [owner EXCEPT ![lock] = c]
  /\ proc' = None
  /\ reclaimer' = None
  /\ Kept /\ UNCHANGED <<lock, epoch, stale, lastClean, me>>

\* my_lock = self.lock; my_epoch = self._epoch; the first heartbeat.
Bind(c) ==
  /\ Goto(c, "bind", "ensure")
  /\ me' = [me EXCEPT ![c].lock = lock, ![c].epoch = epoch]
  /\ stale' = FALSE
  /\ Kept /\ UNCHANGED <<lock, owner, reclaimer, epoch, lastClean, proc>>

-----------------------------------------------------------------------------
(* A live, clean process: _ensure_alive, _kill_and_respawn, _spawn.        *)

\* Enter _spawn, or _kill_and_respawn and then _spawn; go to next afterwards.
SpawnThen(c, from, next)   == /\ Goto(c, from, "spawn")
                              /\ me' = [me EXCEPT ![c].next = next]
RespawnThen(c, from, next) == /\ Goto(c, from, "kill")
                              /\ me' = [me EXCEPT ![c].next = next]

Gone(p) == p # None => ~alive[p]

EnsureAlive(c) ==
  /\ IF Gone(proc)
     THEN SpawnThen(c, "ensure", "clean")
     ELSE Goto(c, "ensure", "clean") /\ UNCHANGED me
  /\ Kept /\ UNCHANGED pyvars

\* Mutant: a process that runs is good enough.
CheckCleanSkipped(c) ==
  /\ Goto(c, "clean", "send")
  /\ Kept /\ UNCHANGED <<pyvars, me>>

\* The last request did not end on its TEND: the pipe may hold anything.
CheckClean(c) ==
  /\ IF lastClean THEN Goto(c, "clean", "send") /\ UNCHANGED me
                  ELSE RespawnThen(c, "clean", "send")
  /\ Kept /\ UNCHANGED pyvars

Kill(c) ==
  /\ Goto(c, "kill", "spawn")
  /\ alive' = Killed(proc)
  /\ proc' = None
  /\ UNCHANGED <<lock, owner, reclaimer, epoch, stale, lastClean, engvars, me,
                 faults>>

\* Popen: self.proc names the new process before it is ready.
Spawn(c) ==
  LET referred == {proc} \cup {me[d].proc : d \in Requests}
  IN \E p \in Procs \ referred :
       /\ \A q \in Procs \ referred : p <= q
       /\ Goto(c, "spawn", "booting")
       /\ proc' = p
       /\ me' = [me EXCEPT ![c].proc = p]
       /\ alive' = [q \in Procs |-> q = p \/ (alive[q] /\ q \in referred)]
       /\ inq' = [inq EXCEPT ![p] = <<>>]
       /\ work' = [work EXCEPT ![p] = None]
       /\ left' = [left EXCEPT ![p] = 0]
       /\ out' = [out EXCEPT ![p] = <<>>]
       /\ UNCHANGED <<lock, owner, reclaimer, epoch, stale, lastClean, faults>>

\* "ready" arrived.
Ready(c) ==
  /\ Goto(c, "booting", me[c].next)
  /\ alive[me[c].proc]
  /\ lastClean' = TRUE
  /\ me' = [me EXCEPT ![c].proc = None, ![c].next = None,
                      ![c].respawned = me[c].next = "cleanup"]
  /\ Kept /\ UNCHANGED <<lock, owner, reclaimer, epoch, stale, proc>>

\* stderr closed before "ready": kill whatever self.proc names now, and raise.
BootFails(c) ==
  /\ Goto(c, "booting", IF me[c].next = "cleanup" THEN "cleanup" ELSE "release")
  /\ ~alive[me[c].proc]
  /\ alive' = Killed(proc)
  /\ me' = [me EXCEPT ![c].proc = None, ![c].next = None]
  /\ UNCHANGED <<pyvars, engvars, faults>>

-----------------------------------------------------------------------------
(* The request itself.                                                     *)

\* Both lines reach the engine behind self.proc.
Write(c) ==
  /\ ~Gone(proc)
  /\ inq' = [inq EXCEPT ![proc] = Append(@, c)]
  /\ UNCHANGED <<alive, work, left, out, me, faults>>

\* _last_clean = False, then the header and the prompt.
Send(c) ==
  /\ lastClean' = FALSE
  /\ UNCHANGED <<lock, owner, reclaimer, epoch, stale, proc>>
  /\ \/ Goto(c, "send", "sent") /\ Write(c)
     \/ proc = None /\ Goto(c, "send", "release") /\ Kept /\ UNCHANGED me
     \/ /\ proc # None /\ Gone(proc)
        /\ SpawnThen(c, "send", "resend") /\ Kept

\* The one retry on the process just spawned.
Resend(c) ==
  /\ UNCHANGED pyvars
  /\ \/ Goto(c, "resend", "sent") /\ Write(c)
     \/ /\ Gone(proc)
        /\ Goto(c, "resend", "release") /\ Kept /\ UNCHANGED me

\* my_proc = self.proc.
BindProc(c) ==
  /\ Goto(c, "sent", "loop")
  /\ me' = [me EXCEPT ![c].proc = proc]
  /\ Kept /\ UNCHANGED pyvars

\* Mutant: every read is from self.proc, whatever the epoch.
LoopOnSelfProc(c) ==
  /\ Goto(c, "loop", IF proc = None THEN "cleanup" ELSE "read")
  /\ me' = [me EXCEPT ![c].proc = proc]
  /\ Kept /\ UNCHANGED pyvars

Loop(c) ==
  /\ Goto(c, "loop", IF me[c].epoch # epoch \/ me[c].proc = None
                     THEN "cleanup" ELSE "read")
  /\ Kept /\ UNCHANGED <<pyvars, me>>

Pop(p) ==
  /\ out' = [out EXCEPT ![p] = Tail(@)]
  /\ UNCHANGED <<alive, inq, work, left, faults>>
Closed(p) == ~alive[p] /\ out[p] = <<>>

\* A frame: heartbeat, then the generator is suspended at its yield.
ReadFrame(c) ==
  LET p == me[c].proc IN
  /\ Goto(c, "read", "yield")
  /\ out[p] # <<>> /\ Head(out[p]).kind = "frame"
  /\ Pop(p)
  /\ me' = [me EXCEPT ![c].got = Head(out[p]).req]
  /\ stale' = FALSE
  /\ UNCHANGED <<lock, owner, reclaimer, epoch, lastClean, proc>>

ReadEnd(c) ==
  LET p == me[c].proc IN
  /\ Goto(c, "read", "cleanup")
  /\ out[p] # <<>> /\ Head(out[p]).kind = "end"
  /\ Pop(p)
  /\ me' = [me EXCEPT ![c].got = Head(out[p]).req, ![c].tend = TRUE]
  /\ lastClean' = TRUE
  /\ UNCHANGED <<lock, owner, reclaimer, epoch, stale, proc>>

\* A bad frame marker: the pipe is desynchronised.  Respawn, then raise.
ReadGarbage(c) ==
  LET p == me[c].proc IN
  /\ RespawnThen(c, "read", "cleanup")
  /\ out[p] # <<>> /\ Head(out[p]).kind = "rest"
  /\ Kept /\ UNCHANGED pyvars

ReadEof(c) ==
  /\ Goto(c, "read", "eof")
  /\ Closed(me[c].proc)
  /\ Kept /\ UNCHANGED <<pyvars, me>>

\* Killed by a reclaim: stop.  Died by itself: respawn, then raise.
Eof(c) ==
  /\ IF me[c].epoch # epoch THEN Goto(c, "eof", "cleanup") /\ UNCHANGED me
                            ELSE RespawnThen(c, "eof", "cleanup")
  /\ Kept /\ UNCHANGED pyvars

\* The consumer asks for the next frame.
Resume(c) == Goto(c, "yield", "loop") /\ Kept /\ UNCHANGED <<pyvars, me>>

\* The consumer closes the generator.
Close(c) == Goto(c, "yield", "cleanup") /\ Kept /\ UNCHANGED <<pyvars, me>>

-----------------------------------------------------------------------------
(* The end: the finally clauses of stream() and _drain_to_tend.            *)

Cleanup(c) ==
  /\ Goto(c, "cleanup", IF me[c].epoch = epoch /\ ~me[c].tend /\ ~me[c].respawned
                        THEN "drain" ELSE "release")
  /\ Kept /\ UNCHANGED <<pyvars, me>>

\* The next marker is read from whatever self.proc is by now.
Drain(c) ==
  /\ IF proc = None THEN Goto(c, "drain", "release") /\ UNCHANGED me
     ELSE /\ Goto(c, "drain", "drainread")
          /\ me' = [me EXCEPT ![c].proc = proc]
  /\ Kept /\ UNCHANGED pyvars

\* DRAIN_WALL_S or DRAIN_MAX_FRAMES is exceeded.
DrainTimeout(c) ==
  /\ RespawnThen(c, "drain", "release")
  /\ Kept /\ UNCHANGED pyvars

\* Mutant: one frame is taken for the whole answer.
DrainOneFrame(c) ==
  LET p == me[c].proc IN
  /\ Goto(c, "drainread", "release")
  /\ out[p] # <<>>
  /\ out' = [out EXCEPT ![p] = Tail(@)]
  /\ lastClean' = TRUE
  /\ UNCHANGED <<lock, owner, reclaimer, epoch, stale, proc, alive, inq, work, left,
                 me, faults>>

\* A TFRM or TFRC frame is skipped; TEND ends the drain cleanly; any other
\* marker, FFRM included, ends it there, with the rest of the frame unread.
DrainRead(c) ==
  LET p == me[c].proc
      tok == Head(out[p])
      skipped == tok.kind = "frame" /\ tok.req \notin Fast
      ended == tok.kind = "end"
  IN /\ pc[c] = "drainread" /\ out[p] # <<>>
     /\ Goto(c, "drainread", IF skipped THEN "drain" ELSE "release")
     /\ out' = [out EXCEPT ![p] =
                  IF skipped \/ ended THEN Tail(@)
                  ELSE [@ EXCEPT ![1].kind = "rest"]]
     /\ lastClean' = (lastClean \/ ended)
     /\ UNCHANGED <<lock, owner, reclaimer, epoch, stale, proc, alive, inq, work,
                    left, me, faults>>

DrainEof(c) ==
  /\ Goto(c, "drainread", "release")
  /\ Closed(me[c].proc)
  /\ Kept /\ UNCHANGED <<pyvars, me>>

\* my_lock.release(): nothing asks who acquired that lock object.
Release(c) ==
  /\ Goto(c, "release", "done")
  /\ owner' = [owner EXCEPT ![me[c].lock] = None]
  /\ me' = [me EXCEPT ![c].proc = None]
  /\ Kept /\ UNCHANGED <<lock, reclaimer, epoch, stale, lastClean, proc>>

-----------------------------------------------------------------------------

\* Half a minute passes without a frame: every thread is waiting for something.
Waiting(c) ==
  \/ pc[c] \in {"idle", "done", "yield", "reclaim"}
  \/ pc[c] \in {"booting", "read", "drainread"}
     /\ alive[me[c].proc] /\ out[me[c].proc] = <<>>
  \/ pc[c] = "acquire" /\ owner[me[c].lock] # None
  \/ pc[c] = "take" /\ owner[lock] # None

Stall ==
  /\ MayStall /\ ~stale
  /\ \E c \in Requests : pc[c] \notin {"idle", "done"}
  /\ \A c \in Requests : Waiting(c)
  /\ stale' = TRUE
  /\ Kept /\ UNCHANGED <<lock, owner, reclaimer, epoch, lastClean, proc, pc, me>>

\* What a thread does once it is in stream(), its consumer's choices apart.
Step(c) ==
  \/ Acquire(c) \/ AcquireTimeout(c) \/ EnterReclaim(c) \/ TryTakes(c)
  \/ TryWaits(c) \/ ReclaimKill(c) \/ ReclaimBump(c) \/ ReclaimTake(c)
  \/ Bind(c) \/ EnsureAlive(c) \/ CheckClean(c) \/ Kill(c) \/ Spawn(c)
  \/ Ready(c) \/ BootFails(c) \/ Send(c) \/ Resend(c) \/ BindProc(c) \/ Loop(c)
  \/ ReadFrame(c) \/ ReadEnd(c) \/ ReadGarbage(c) \/ ReadEof(c) \/ Eof(c)
  \/ Cleanup(c) \/ Drain(c) \/ DrainTimeout(c) \/ DrainRead(c) \/ DrainEof(c) \/ Release(c)

Next ==
  \/ \E p \in Procs : Engine(p) \/ EngineDie(p)
  \/ \E c \in Requests : Request(c) \/ Step(c) \/ Resume(c) \/ Close(c)
  \/ Stall

Spec == Init /\ [][Next]_vars

\* Every thread and the engine keep running, and time passes.  A consumer need
\* never touch its generator again.
Fairness ==
  /\ \A c \in Requests : WF_vars(Step(c))
  /\ \A p \in Procs : WF_vars(Engine(p))
  /\ SF_vars(Stall)

FairSpec == Spec /\ Fairness

-----------------------------------------------------------------------------
(* Properties.                                                             *)

Pcs == {"idle", "acquire", "reclaim", "try", "bump", "take", "bind", "ensure",
        "clean", "kill", "spawn", "booting", "send", "resend", "sent", "loop",
        "read", "eof", "yield", "cleanup", "drain", "drainread", "release",
        "done"}

Locals == [lock : Locks, epoch : Locks, proc : Procs \cup {None}, tend : BOOLEAN,
           respawned : BOOLEAN, next : Pcs \cup {None}, got : Requests \cup {None}]

TypeOK ==
  /\ lock \in Locks /\ owner \in [Locks -> Requests \cup {None}]
  /\ reclaimer \in Requests \cup {None}
  /\ epoch \in Locks /\ stale \in BOOLEAN /\ lastClean \in BOOLEAN
  /\ proc \in Procs \cup {None} /\ alive \in [Procs -> BOOLEAN]
  /\ inq \in [Procs -> Seq(Requests)]
  /\ work \in [Procs -> Requests \cup {None}] /\ left \in [Procs -> 0 .. MaxFrames]
  /\ out \in [Procs -> Seq(Token)]
  /\ pc \in [Requests -> Pcs]
  /\ me \in [Requests -> Locals]
  /\ faults \in 0 .. MaxFaults

\* A request is only ever shown the engine's answer to itself.
OwnFrames == \A c \in Requests : me[c].got \in {c, None}

\* Where a thread uses the subprocess as its own.
Inside == {"ensure", "clean", "kill", "spawn", "booting", "send", "resend",
           "sent", "loop", "read", "eof", "yield", "cleanup", "drain",
           "drainread"}

\* One generation at a time: a thread whose epoch is current is alone.
Current(c) == pc[c] \in Inside /\ me[c].epoch = epoch
OneGeneration == \A c, d \in Requests : Current(c) /\ Current(d) => c = d

\* The state is well formed, the generation in it single: the invariant of the driver (c_engine.py).
StreamInv == TypeOK /\ OneGeneration

\* Two generations come of two races only: a waiter gets a lock object that was replaced,
\* or a holder has not read lock and epoch when a reclaimer that timed out earlier moves them.
Orderly ==
  \A c \in Requests :
    /\ pc[c] = "acquire" /\ me[c].lock # lock => owner[me[c].lock] # None
    /\ pc[c] = "bind" => \A d \in Requests : pc[d] # "bump"

\* Why: a lock object for each epoch, and who is of the current one holds the current lock.
GenerationInv ==
  /\ lock = epoch /\ \A l \in Locks : l > epoch => owner[l] = None
  /\ \A c \in Requests :
       /\ me[c].lock <= epoch /\ me[c].epoch <= epoch
       /\ pc[c] \in Inside \cup {"release"} => me[c].lock = me[c].epoch
       /\ pc[c] = "bind" \/ (pc[c] \in Inside \cup {"release"} /\ me[c].epoch = epoch)
            => owner[lock] = c

-----------------------------------------------------------------------------
(* Why each is shown its own answer, as long as nobody is silent for 30 s  *)
(* and so no generation is ever reclaimed.                                 *)

\* The engine has nothing of any request, or of c's alone, its TEND at the end.
Pure(p) == inq[p] = <<>> /\ work[p] = None /\ out[p] = <<>>
Answers(p, c) ==
  /\ inq[p] \in {<<>>, <<c>>} /\ work[p] \in {None, c}
  /\ inq[p] # <<>> => work[p] = None /\ out[p] = <<>>
  /\ \A i \in DOMAIN out[p] :
       /\ out[p][i].req = c /\ out[p][i].kind \in {"frame", "end"}
       /\ out[p][i].kind = "end" => i = Len(out[p]) /\ work[p] = None /\ inq[p] = <<>>

\* The pipe begins in the middle of a frame, where every reader stops.
Blocked(p) == out[p] # <<>> /\ Head(out[p]).kind = "rest"

\* The lock serialises, and no generation but the first exists.
SerialLock ==
  /\ lock = 0 /\ epoch = 0
  /\ \A c \in Requests :
       /\ me[c].lock = 0 /\ me[c].epoch = 0
       /\ pc[c] \notin {"bump", "take"}
       /\ pc[c] \in Inside \cup {"bind", "release"} <=> owner[0] = c
       /\ stale => pc[c] \in {"idle", "acquire", "bind"}

\* What the thread inside knows of the process and what is in its pipes.
SerialPipe(c) ==
  /\ pc[c] \in {"booting", "loop", "read", "eof", "yield", "drainread"} =>
       proc # None /\ me[c].proc = proc
  /\ pc[c] \in {"kill", "spawn", "booting"} =>
       me[c].next \in {"clean", "send", "resend", "cleanup", "release"}
  /\ pc[c] \notin {"cleanup", "release", "done"} => ~me[c].tend /\ ~me[c].respawned
  /\ pc[c] = "booting" => Pure(proc)
  /\ pc[c] = "resend" /\ ~Gone(proc) /\ proc # None => Pure(proc)
  /\ pc[c] = "send" /\ proc # None /\ alive[proc] => Pure(proc) \/ Blocked(proc)
  /\ pc[c] = "sent" => proc # None
  /\ pc[c] \in {"sent", "loop", "read", "eof", "yield", "cleanup", "drain", "drainread"}
       /\ proc # None => Answers(proc, c) \/ Blocked(proc)
  /\ pc[c] = "cleanup" /\ proc # None /\ (me[c].tend \/ me[c].respawned) => Pure(proc)
  /\ pc[c] \in {"bind", "ensure", "clean", "release"} /\ lastClean /\ proc # None /\ alive[proc] =>
       Pure(proc) \/ Blocked(proc)

\* Who leaves the process to the next leaves it clean, blocked or marked.
SerialRest ==
  owner[0] = None /\ lastClean /\ proc # None /\ alive[proc] => Pure(proc) \/ Blocked(proc)

SerialInv ==
  TypeOK /\ SerialLock /\ (\A c \in Requests : SerialPipe(c)) /\ SerialRest /\ OwnFrames

\* A request is written to an engine that has nothing left of an earlier one.
CleanPipe ==
  [][\A p \in Procs : Len(inq'[p]) > Len(inq[p]) =>
       inq[p] = <<>> /\ work[p] = None /\ out[p] = <<>>]_vars

\* It is so as long as nobody is silent for 30 s and no write is retried, or all requests
\* are traced: the pipe is marked unclean from the write until its answer has ended, and
\* when it begins in the middle of a frame.
NoRetry == Fast = {} \/ \A c \in Requests : me[c].next # "resend"

Marked(c) ==
  /\ pc[c] \in {"sent", "loop", "read", "eof", "yield", "drain", "drainread"} => ~lastClean
  /\ pc[c] \in {"kill", "spawn", "booting"} /\ me[c].next = "cleanup" => ~lastClean
  /\ pc[c] = "cleanup" => me[c].tend \/ me[c].respawned \/ ~lastClean
  /\ pc[c] = "send" /\ proc # None => ~Blocked(proc)
  /\ pc[c] # "resend"
MarkedInv ==
  /\ \A c \in Requests : Marked(c)
  /\ proc # None /\ Blocked(proc) => ~lastClean
NoRests == \A p \in Procs : \A i \in DOMAIN out[p] : out[p][i].kind # "rest"

\* A thread is reclaimed from only after it has had its first heartbeat: of the
\* waiters that time out together, one reclaims and the others wait for it.
ReclaimsOnce == [][\A c \in Requests : ReclaimKill(c) => pc[owner[lock]] # "bind"]_vars

\* A thread whose epoch has passed reads nothing from the process that replaced its own,
\* neither in its loop nor in its drain.  Until the reclaiming thread is out of "take",
\* where self.proc becomes None, self.proc still is the process of the generation before.
StaleReads(s) == \E c \in Requests : /\ pc[c] = s
                                     /\ me[c].epoch # epoch
                                     /\ me[c].proc = proc /\ alive[proc]
Dropped == \A d \in Requests : pc[d] # "take"
NeverReadsSuccessor  == Dropped => ~StaleReads("read")
NeverDrainsSuccessor == Dropped => ~StaleReads("drainread")

\* Why: a thread that reads, or waits for a process, has one; it knows where to go from
\* there; a thread reclaims once, so there is an epoch for each that still may; and those
\* on their way to it are one at a time.
Bound ==
  \A c \in Requests :
    /\ pc[c] \in {"booting", "read", "drainread"} => me[c].proc # None
    /\ pc[c] \in {"kill", "spawn", "booting"} =>
         me[c].next \in {"clean", "send", "resend", "cleanup", "release"}
MayReclaim == {c \in Requests : pc[c] \in {"idle", "acquire", "reclaim", "try", "bump"}}
EpochsLeft == epoch + Cardinality(MayReclaim) <= Cardinality(Requests)
OneReclaims == \A c \in Requests : pc[c] \in {"try", "bump", "take"} <=> reclaimer = c

ReclaimInv == TypeOK /\ Bound /\ EpochsLeft /\ OneReclaims /\ NeverReadsSuccessor

\* Whatever becomes of the thread inside, one that waits for the engine gets it.
NeverWedged ==
  \A c \in Requests : pc[c] = "acquire" ~> pc[c] \in Inside \cup {"release", "done"}
=============================================================================
