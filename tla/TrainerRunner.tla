---------------------------- MODULE TrainerRunner ----------------------------
(***************************************************************************)
(* The dashboard's trainer subprocess manager,                             *)
(* veritate_mri/training/trainer_runner.py: start() claims the one slot and*)
(* hands the run to a thread of its own, which spawns the trainer, writes  *)
(* the pid file, waits and reports; stop() signals whichever process it    *)
(* finds; a restarted server reads the pid file and watches the process it *)
(* names.  A trainer outlives the server that spawned it.                  *)
(*                                                                         *)
(* One action is one critical section of _LOCK, one system call or one     *)
(* write of the pid file.  A process is named by the start() call it comes *)
(* from: the pid and command marker of the pid file identify it.           *)
(***************************************************************************)
EXTENDS Naturals, FiniteSets

CONSTANTS
  Runs,         \* calls of start()
  Stops,        \* calls of stop()
  None,
  MaxRestarts,  \* bound: restarts and crashes of the server
  Unrecorded,   \* whether a trainer may be left out of the pid file: a restart
                \* falls between Popen and the file, or writing it fails
  MayRaise      \* whether saving the trainer's defaults may raise

ASSUME RunnerAssumption ==
  /\ None \notin Runs /\ Runs \cap Stops = {}
  /\ MaxRestarts \in Nat /\ Unrecorded \in BOOLEAN /\ MayRaise \in BOOLEAN

VARIABLES
  status,     \* _STATE["status"]
  PROC,       \* _PROC: the run whose Popen handle it is
  RECOVERED,  \* _RECOVERED_PID
  pidfile,    \* the run the pid file names
  proc,       \* the process of each run: none, alive, or its exit
  rpc,        \* where each start() call and its run thread is
  spc,        \* where each stop() call is
  target,     \* the process it read
  watched,    \* the process _watch_recovered polls
  wpc,        \* and where it is
  signalled,  \* history: the processes sent SIGTERM
  restarts    \* restarts so far

state == <<status, PROC, RECOVERED, pidfile>>
watch == <<watched, wpc>>
stops == <<spc, target>>
vars  == <<status, PROC, RECOVERED, pidfile, proc, rpc, spc, target, watched, wpc,
           signalled, restarts>>

Init ==
  /\ status = "idle"
  /\ PROC = None /\ RECOVERED = None /\ pidfile = None
  /\ proc = [r \in Runs |-> "none"]
  /\ rpc = [r \in Runs |-> "new"]
  /\ spc = [s \in Stops |-> "new"] /\ target = [s \in Stops |-> None]
  /\ watched = None /\ wpc = "off"
  /\ signalled = {}
  /\ restarts = 0

Alive(p)  == p # None /\ proc[p] = "alive"
Exited(p) == p # None /\ proc[p] \in {"ok", "failed"}

-----------------------------------------------------------------------------
(* start() and the run thread _run.                                        *)

Goto(r, from, to) == rpc[r] = from /\ rpc' = [rpc EXCEPT ![r] = to]
Report(st) == status' = st /\ UNCHANGED <<PROC, RECOVERED, pidfile>>
RunOnly == UNCHANGED <<stops, watch, signalled, restarts>>

\* Mutant: the slot is claimed without a look at it.
ClaimUnchecked(r) ==
  /\ Goto(r, "new", "claimed")
  /\ Report("running")
  /\ RunOnly /\ UNCHANGED proc

\* The atomic claim.
Claim(r) ==
  /\ Goto(r, "new", "claimed")
  /\ status # "running"
  /\ Report("running")
  /\ RunOnly /\ UNCHANGED proc

Refuse(r) ==
  /\ Goto(r, "new", "done")
  /\ status = "running"
  /\ RunOnly /\ UNCHANGED <<state, proc>>

\* No such trainer, or it has no bench mode: give the slot back.
NotFound(r) ==
  /\ Goto(r, "claimed", "done")
  /\ Report("idle")
  /\ RunOnly /\ UNCHANGED proc

\* Saving the defaults raises: the request fails, the slot stays claimed.
Raise(r) ==
  /\ MayRaise
  /\ Goto(r, "claimed", "done")
  /\ RunOnly /\ UNCHANGED <<state, proc>>

\* The run thread starts.
Launch(r) ==
  /\ Goto(r, "claimed", "begin")
  /\ RunOnly /\ UNCHANGED <<state, proc>>

Begin(r) ==
  /\ Goto(r, "begin", "spawn")
  /\ Report("running")
  /\ RunOnly /\ UNCHANGED proc

\* The log cannot be opened or Popen raises.
SpawnFails(r) ==
  /\ Goto(r, "spawn", "done")
  /\ Report("failed")
  /\ RunOnly /\ UNCHANGED proc

Popen(r) ==
  /\ Goto(r, "spawn", "publish")
  /\ proc' = [proc EXCEPT ![r] = "alive"]
  /\ RunOnly /\ UNCHANGED state

Publish(r) ==
  /\ Goto(r, "publish", "write")
  /\ PROC' = r
  /\ RunOnly /\ UNCHANGED <<status, RECOVERED, pidfile, proc>>

\* Mutant: the pid file is never written.
WritePidSkipped(r) ==
  /\ Goto(r, "write", "wait")
  /\ RunOnly /\ UNCHANGED <<state, proc>>

WritePid(r) ==
  /\ Goto(r, "write", "wait")
  /\ pidfile' = r
  /\ RunOnly /\ UNCHANGED <<status, PROC, RECOVERED, proc>>

\* The write fails, which is logged.
WritePidFails(r) ==
  /\ Unrecorded
  /\ Goto(r, "write", "wait")
  /\ RunOnly /\ UNCHANGED <<state, proc>>

\* Mutant: the handle is dropped as soon as the trainer runs.
ReapEarly(r) ==
  /\ Goto(r, "wait", "clear")
  /\ PROC' = None
  /\ RunOnly /\ UNCHANGED <<status, RECOVERED, pidfile, proc>>

\* proc.wait() returns; _PROC is cleared, whosever it is by now,
Reap(r) ==
  /\ Goto(r, "wait", "clear")
  /\ Exited(r)
  /\ PROC' = None
  /\ RunOnly /\ UNCHANGED <<status, RECOVERED, pidfile, proc>>

\* and so is the pid file.
ClearPid(r) ==
  /\ Goto(r, "clear", "finish")
  /\ pidfile' = None
  /\ RunOnly /\ UNCHANGED <<status, PROC, RECOVERED, proc>>

Finish(r) ==
  /\ Goto(r, "finish", "done")
  /\ Report(proc[r])
  /\ RunOnly /\ UNCHANGED proc

Thread(r) ==
  \/ NotFound(r) \/ Raise(r) \/ Launch(r) \/ Begin(r) \/ SpawnFails(r)
  \/ Popen(r) \/ Publish(r) \/ WritePid(r) \/ WritePidFails(r) \/ Reap(r)
  \/ ClearPid(r) \/ Finish(r)

\* The trainer ends, by itself or because it was told to.
Exit(r) ==
  /\ proc[r] = "alive"
  /\ \E code \in {"ok", "failed"} : proc' = [proc EXCEPT ![r] = code]
  /\ RunOnly /\ UNCHANGED <<state, rpc>>

-----------------------------------------------------------------------------
(* stop().                                                                 *)

SGoto(s, from, to) == spc[s] = from /\ spc' = [spc EXCEPT ![s] = to]
StopOnly == UNCHANGED <<proc, rpc, watch, restarts>>

\* Read the handle, or else the recovered pid; with neither, nothing runs.
StopRead(s) ==
  /\ SGoto(s, "new", IF PROC # None THEN "term"
                     ELSE IF RECOVERED # None THEN "kill" ELSE "done")
  /\ target' = [target EXCEPT ![s] = IF PROC # None THEN PROC ELSE RECOVERED]
  /\ StopOnly /\ UNCHANGED <<state, signalled>>

\* proc.terminate(), which does not fail on a child of one's own, or the
\* operating system's kill of the recovered pid.
StopSignal(s) ==
  /\ \/ SGoto(s, "term", "mark")
     \/ SGoto(s, "kill", "unlink")
  /\ signalled' = signalled \cup {target[s]}
  /\ StopOnly /\ UNCHANGED <<state, target>>

StopUnlink(s) ==
  /\ SGoto(s, "unlink", "mark")
  /\ pidfile' = None
  /\ StopOnly /\ UNCHANGED <<status, PROC, RECOVERED, target, signalled>>

StopMark(s) ==
  /\ SGoto(s, "mark", "done")
  /\ Report("stopped")
  /\ StopOnly /\ UNCHANGED <<target, signalled>>

Stopping(s) == StopSignal(s) \/ StopUnlink(s) \/ StopMark(s)

-----------------------------------------------------------------------------
(* A restart of the server, and the watcher of a recovered run.            *)

\* Every thread is gone with the old server; the new one recovers from disk.
Restart ==
  /\ restarts < MaxRestarts /\ restarts' = restarts + 1
  /\ Unrecorded \/ \A r \in Runs : rpc[r] \notin {"publish", "write"}
  /\ rpc' = [r \in Runs |-> IF rpc[r] = "new" THEN "new" ELSE "done"]
  /\ spc' = [s \in Stops |-> IF spc[s] = "new" THEN "new" ELSE "done"]
  /\ PROC' = None
  /\ \/ /\ Alive(pidfile)
        /\ RECOVERED' = pidfile /\ status' = "running"
        /\ watched' = pidfile /\ wpc' = "watch"
        /\ UNCHANGED pidfile
     \/ /\ ~Alive(pidfile)
        /\ RECOVERED' = None /\ status' = "idle" /\ pidfile' = None
        /\ watched' = None /\ wpc' = "off"
  /\ UNCHANGED <<proc, target, signalled>>

WatchDead ==
  /\ wpc = "watch" /\ wpc' = "finish"
  /\ Exited(watched)
  /\ pidfile' = None
  /\ UNCHANGED <<status, PROC, RECOVERED, proc, rpc, stops, watched, signalled,
                 restarts>>

\* Mutant: the watcher leaves the status to others.
WatchFinishSilent ==
  /\ wpc = "finish" /\ wpc' = "off"
  /\ RECOVERED' = None
  /\ UNCHANGED <<status, PROC, pidfile, proc, rpc, stops, watched, signalled, restarts>>

WatchFinish ==
  /\ wpc = "finish" /\ wpc' = "off"
  /\ status' = IF status = "running" THEN "ok" ELSE status
  /\ RECOVERED' = None
  /\ UNCHANGED <<PROC, pidfile, proc, rpc, stops, watched, signalled, restarts>>

-----------------------------------------------------------------------------

Next ==
  \/ \E r \in Runs : Claim(r) \/ Refuse(r) \/ Thread(r) \/ Exit(r)
  \/ \E s \in Stops : StopRead(s) \/ Stopping(s)
  \/ WatchDead \/ WatchFinish
  \/ Restart

Spec == Init /\ [][Next]_vars

\* Threads run on, and every trainer ends some day.
Fairness ==
  /\ \A r \in Runs : WF_vars(Thread(r)) /\ WF_vars(Exit(r))
  /\ \A s \in Stops : WF_vars(Stopping(s))
  /\ WF_vars(WatchDead) /\ WF_vars(WatchFinish)

FairSpec == Spec /\ Fairness

-----------------------------------------------------------------------------
(* Properties.                                                             *)

Statuses == {"idle", "running", "ok", "failed", "stopped"}

TypeOK ==
  /\ status \in Statuses
  /\ PROC \in Runs \cup {None} /\ RECOVERED \in Runs \cup {None}
  /\ pidfile \in Runs \cup {None}
  /\ proc \in [Runs -> {"none", "alive", "ok", "failed"}]
  /\ rpc \in [Runs -> {"new", "claimed", "begin", "spawn", "publish", "write",
                       "wait", "clear", "finish", "done"}]
  /\ spc \in [Stops -> {"new", "term", "kill", "unlink", "mark", "done"}]
  /\ target \in [Stops -> Runs \cup {None}]
  /\ watched \in Runs \cup {None} /\ wpc \in {"off", "watch", "finish"}
  /\ signalled \in SUBSET Runs /\ restarts \in 0 .. MaxRestarts

Trainers == {r \in Runs : proc[r] = "alive"}

\* One trainer runs at a time, globally.
OneTrainer == \A p, q \in Trainers : p = q

\* Stop can reach the trainer that runs and that none has stopped yet, once its
\* thread has published it or the server that spawned it is gone.
AlwaysStoppable ==
  \A r \in Trainers \ signalled :
    rpc[r] \in {"write", "wait", "done"} => r \in {PROC, RECOVERED}

\* While a trainer nobody has stopped runs, the dashboard says so: the slot is
\* not given away.
RunningIsReported == Trainers \ signalled # {} => status = "running"

\* A restarted server discovers the run in flight, if it was not told to end.
RestartFindsRun ==
  [][Restart /\ Trainers \ signalled # {} =>
       status' = "running" /\ RECOVERED' \in Trainers]_vars

\* Once a run thread or a watcher is at work for the slot, one of them gives it
\* back in the end (370-376); a start() that raised before has left nobody to.
NeverStuck ==
  /\ status = "running" /\ RECOVERED # None ~> status # "running"
  /\ \A r \in Runs : status = "running" /\ rpc[r] \in {"begin", "spawn", "publish"}
                      ~> status # "running"
-----------------------------------------------------------------------------
(* What no lock of the code ensures, and the properties above rest on.     *)

\* A start() call that has claimed the slot, or whose trainer runs.
InThread == {"claimed", "begin", "spawn", "publish", "write", "wait", "clear",
             "finish"}
Busy(r) == rpc[r] \in InThread \/ proc[r] = "alive"

\* No stop() is under way, and what was stopped has ended, with its thread or watcher.
Settled ==
  /\ \A s \in Stops : spc[s] \in {"new", "done"}
  /\ \A r \in signalled : ~Busy(r)
  /\ wpc # "off" => watched \notin signalled

\* No start() takes the slot between a stop() and the end of what it stopped.
StartsSettled == \A r \in Runs : Claim(r) => Settled

\* The server does not end between Popen and the pid file, and the file is written.
PidsWritten ==
  /\ Restart => \A r \in Runs : rpc[r] \notin {"publish", "write"}
  /\ \A r \in Runs : ~WritePidFails(r)

-----------------------------------------------------------------------------
(* The inductive invariant behind the safety properties, where             *)
(* StartsSettled and PidsWritten hold of every step.                       *)

\* One at a time, and the status says so until it is stopped.
SlotInv ==
  /\ \A p, q \in Runs : Busy(p) /\ Busy(q) => p = q
  /\ \A r \in Runs \ signalled : Busy(r) => status = "running"

\* Where the trainer of a run is to be found.
TraceInv ==
  /\ PROC # None => rpc[PROC] \in {"write", "wait"}
  /\ \A r \in Runs :
       /\ proc[r] = "alive" => rpc[r] \in {"publish", "write", "wait", "done"}
       /\ rpc[r] \in {"publish", "write", "wait"} => proc[r] # "none"
       /\ rpc[r] \in {"clear", "finish"} => proc[r] \in {"ok", "failed"}
       /\ rpc[r] \in {"write", "wait"} => PROC = r
       /\ rpc[r] = "wait" => pidfile = r
       /\ rpc[r] = "done" /\ proc[r] = "alive" /\ r \notin signalled =>
            wpc = "watch" /\ watched = r /\ pidfile = r

\* The watcher and a run thread are never at work together.
WatchInv ==
  /\ wpc # "off" => /\ watched # None /\ RECOVERED = watched
                    /\ \A r \in Runs : rpc[r] \notin InThread /\ (Busy(r) => r = watched)
                    /\ watched \notin signalled => status = "running"
  /\ wpc = "finish" => \A r \in Runs : ~Busy(r)
  /\ wpc = "off" => RECOVERED = None

\* A stop() is about the one trainer there is.
StopInv ==
  \A s \in Stops :
    spc[s] \notin {"new", "done"} =>
      /\ target[s] # None /\ \A r \in Runs : Busy(r) => r = target[s]
      /\ wpc # "off" => watched = target[s]
      /\ spc[s] \in {"kill", "unlink"} => \A r \in Runs : rpc[r] \notin InThread
      /\ spc[s] \in {"unlink", "mark"} => target[s] \in signalled

IInv == TypeOK /\ SlotInv /\ TraceInv /\ WatchInv /\ StopInv
=============================================================================
