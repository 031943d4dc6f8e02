------------------------- MODULE EngineStream_proofs -------------------------
(***************************************************************************)
(* Proofs about EngineStream: every request is shown only its own answer   *)
(* as long as no thread is silent for 30 s, whatever consumers close or    *)
(* leave, whenever the engine dies and however its answers are cut.        *)
(*                                                                         *)
(* SerialInv is inductive then.  The lock serialises the threads, so what  *)
(* SerialPipe says is vacuous of all but the holder: most steps are the    *)
(* holder's, and HolderKeeps says once for all of them what is left to     *)
(* show.  The engine's steps keep what SerialPipe tells apart of a pipe.   *)
(*                                                                         *)
(* ReclaimInv is inductive whoever stalls.  Moved says what a thread's step*)
(* may do to what it speaks of; the rest follows from Moved alone.         *)
(***************************************************************************)
EXTENDS EngineStream, TLAPS, FiniteSetTheorems, SequenceTheorems

\* The identities of the first lock object and of the first process exist (c_engine.py 151-173).
LEMMA Zero == 0 \in Locks /\ 0 \in Procs
  BY StreamAssumption, FS_CardinalityType DEF Locks, Procs

\* The initial state: nothing has been asked (c_engine.py 151-189).
LEMMA InitSerial == Init => SerialInv
<1> SUFFICES ASSUME Init PROVE SerialInv
  OBVIOUS
<1> USE DEF Init
<1>1. TypeOK
  BY Zero, StreamAssumption DEF TypeOK, Locals, Pcs
<1>2. Pure(0)
  BY Zero DEF Pure
<1>3. SerialLock
  BY Zero, StreamAssumption DEF SerialLock, Inside
<1>4. \A c \in Requests : SerialPipe(c)
  BY <1>2 DEF SerialPipe
<1>5. SerialRest /\ OwnFrames
  BY <1>2 DEF SerialRest, OwnFrames
<1> QED
  BY <1>1, <1>3, <1>4, <1>5 DEF SerialInv

-----------------------------------------------------------------------------
(* Types.                                                                  *)

\* A thread's local variables keep their types when one is set to a value of its type
\* (c_engine.py 333-335, 386-397).
LEMMA Typed ==
  ASSUME TypeOK, NEW c \in Requests
  PROVE  /\ \A l \in Locks : [me EXCEPT ![c].lock = l] \in [Requests -> Locals]
         /\ \A l, e \in Locks : [me EXCEPT ![c].lock = l, ![c].epoch = e] \in [Requests -> Locals]
         /\ \A p \in Procs \cup {None} : [me EXCEPT ![c].proc = p] \in [Requests -> Locals]
         /\ \A s \in Pcs \cup {None} : [me EXCEPT ![c].next = s] \in [Requests -> Locals]
         /\ \A r \in Requests \cup {None} : [me EXCEPT ![c].got = r] \in [Requests -> Locals]
         /\ \A r \in Requests \cup {None} : \A b \in BOOLEAN :
              [me EXCEPT ![c].got = r, ![c].tend = b] \in [Requests -> Locals]
         /\ \A p \in Procs \cup {None} : \A s \in Pcs \cup {None} :
              [me EXCEPT ![c].proc = p, ![c].next = s] \in [Requests -> Locals]
         /\ \A p \in Procs \cup {None} : \A s \in Pcs \cup {None} : \A b \in BOOLEAN :
              [me EXCEPT ![c].proc = p, ![c].next = s, ![c].respawned = b] \in [Requests -> Locals]
<1> USE DEF TypeOK, Locals
<1>1. \A l \in Locks : [me EXCEPT ![c].lock = l] \in [Requests -> Locals]
  OBVIOUS
<1>2. \A l, e \in Locks : [me EXCEPT ![c].lock = l, ![c].epoch = e] \in [Requests -> Locals]
  <2> TAKE l, e \in Locks
  <2>1. [me[c] EXCEPT !.lock = l, !.epoch = e] \in Locals
    OBVIOUS
  <2>2. [me EXCEPT ![c].lock = l, ![c].epoch = e]
          = [me EXCEPT ![c] = [me[c] EXCEPT !.lock = l, !.epoch = e]]
    BY ZenonT(30)
  <2> QED
    BY <2>1, <2>2
<1>3. \A p \in Procs \cup {None} : [me EXCEPT ![c].proc = p] \in [Requests -> Locals]
  OBVIOUS
<1>4. \A s \in Pcs \cup {None} : [me EXCEPT ![c].next = s] \in [Requests -> Locals]
  OBVIOUS
<1>5. \A r \in Requests \cup {None} : [me EXCEPT ![c].got = r] \in [Requests -> Locals]
  OBVIOUS
<1>6. \A r \in Requests \cup {None} : \A b \in BOOLEAN :
        [me EXCEPT ![c].got = r, ![c].tend = b] \in [Requests -> Locals]
  <2> TAKE r \in Requests \cup {None}
  <2> TAKE b \in BOOLEAN
  <2>1. [me[c] EXCEPT !.got = r, !.tend = b] \in Locals
    OBVIOUS
  <2>2. [me EXCEPT ![c].got = r, ![c].tend = b]
          = [me EXCEPT ![c] = [me[c] EXCEPT !.got = r, !.tend = b]]
    BY ZenonT(30)
  <2> QED
    BY <2>1, <2>2
<1>7. \A p \in Procs \cup {None} : \A s \in Pcs \cup {None} :
        [me EXCEPT ![c].proc = p, ![c].next = s] \in [Requests -> Locals]
  <2> TAKE p \in Procs \cup {None}
  <2> TAKE s \in Pcs \cup {None}
  <2>1. [me[c] EXCEPT !.proc = p, !.next = s] \in Locals
    OBVIOUS
  <2>2. [me EXCEPT ![c].proc = p, ![c].next = s]
          = [me EXCEPT ![c] = [me[c] EXCEPT !.proc = p, !.next = s]]
    BY ZenonT(30)
  <2> QED
    BY <2>1, <2>2
<1>8. \A p \in Procs \cup {None} : \A s \in Pcs \cup {None} : \A b \in BOOLEAN :
        [me EXCEPT ![c].proc = p, ![c].next = s, ![c].respawned = b] \in [Requests -> Locals]
  <2> TAKE p \in Procs \cup {None}
  <2> TAKE s \in Pcs \cup {None}
  <2> TAKE b \in BOOLEAN
  <2>1. [me[c] EXCEPT !.proc = p, !.next = s, !.respawned = b] \in Locals
    OBVIOUS
  <2>2. [me EXCEPT ![c].proc = p, ![c].next = s, ![c].respawned = b]
          = [me EXCEPT ![c] = [me[c] EXCEPT !.proc = p, !.next = s, !.respawned = b]]
    BY ZenonT(30)
  <2> QED
    BY <2>1, <2>2
<1> QED
  BY <1>1, <1>2, <1>3, <1>4, <1>5, <1>6, <1>7, <1>8

\* What goes in and out of a pipe (c_engine.py 373-408, main.c 444-496).
LEMMA Pipe ==
  ASSUME NEW S, NEW s \in Seq(S)
  PROVE  /\ \A e \in S : Append(s, e) \in Seq(S) /\ Len(Append(s, e)) = Len(s) + 1
         /\ s # <<>> => /\ Head(s) \in S /\ Tail(s) \in Seq(S) /\ Head(s) = s[1]
                       /\ 1 \in DOMAIN s /\ Len(Tail(s)) = Len(s) - 1
                       /\ (Len(s) = 1 => Tail(s) = <<>>)
<1>1. \A e \in S : Append(s, e) \in Seq(S) /\ Len(Append(s, e)) = Len(s) + 1
  OBVIOUS
<1>2. ASSUME s # <<>>
      PROVE  /\ Head(s) \in S /\ Tail(s) \in Seq(S) /\ Head(s) = s[1]
             /\ 1 \in DOMAIN s /\ Len(Tail(s)) = Len(s) - 1
  BY <1>2
<1>3. ASSUME s # <<>>, Len(s) = 1
      PROVE  Tail(s) = <<>>
  <2>1. Tail(s) \in Seq(S) /\ Len(Tail(s)) = 0
    BY <1>2, <1>3
  <2> QED
    BY <2>1, EmptySeq
<1> QED
  BY <1>1, <1>2, <1>3

\* What is appended to a pipe that is not empty is not its head (main.c 444-496).
LEMMA HeadStays ==
  ASSUME NEW S, NEW s \in Seq(S), s # <<>>, NEW e
  PROVE  Head(Append(s, e)) = Head(s) /\ Append(s, e) # <<>>
  OBVIOUS

\* Every step keeps the types, if an epoch is left for who may reclaim; a thread leaves
\* "booting" for where Bound says (c_engine.py 229-335).
LEMMA TypeOKNext ==
  ASSUME TypeOK, Bound, [Next]_vars,
         (\E c \in Requests : pc[c] = "bump") => epoch + 1 \in Locks
  PROVE  TypeOK'
<1> USE StreamAssumption
<1>0. /\ me \in [Requests -> Locals] /\ lock \in Locks /\ epoch \in Locks
      /\ proc \in Procs \cup {None} /\ pc \in [Requests -> Pcs]
      /\ {"clean", "send", "resend", "cleanup", "release"} \subseteq Pcs /\ TypeOK
  BY DEF TypeOK, Pcs
<1>1. ASSUME NEW p \in Procs, EngineTake(p) PROVE TypeOK'
  <2>1. inq[p] \in Seq(Requests) /\ inq[p] # <<>>
    BY <1>1 DEF TypeOK, EngineTake
  <2>2. Tail(inq[p]) \in Seq(Requests) /\ Head(inq[p]) \in Requests
    BY <2>1
  <2>3. MaxFrames \in 0 .. MaxFrames
    OBVIOUS
  <2> QED
    BY <1>1, <2>2, <2>3 DEF TypeOK, EngineTake, pyvars
<1>2. ASSUME NEW p \in Procs, EngineFrame(p) PROVE TypeOK'
  <2>1. left[p] - 1 \in 0 .. MaxFrames
    BY <1>2 DEF TypeOK, EngineFrame
  <2>2. Append(out[p], [req |-> work[p], kind |-> "frame"]) \in Seq(Token)
    <3>1. [req |-> work[p], kind |-> "frame"] \in Token
      BY <1>2 DEF TypeOK, EngineFrame, Token
    <3> QED
      BY <3>1, Pipe DEF TypeOK
  <2> QED
    BY <1>2, <2>1, <2>2 DEF TypeOK, EngineFrame, pyvars
<1>3. ASSUME NEW p \in Procs, EngineEnd(p) PROVE TypeOK'
  <2>1. Append(out[p], [req |-> work[p], kind |-> "end"]) \in Seq(Token)
    <3>1. [req |-> work[p], kind |-> "end"] \in Token
      BY <1>3 DEF TypeOK, EngineEnd, Token
    <3> QED
      BY <3>1, Pipe DEF TypeOK
  <2> QED
    BY <1>3, <2>1 DEF TypeOK, EngineEnd, pyvars
<1>4. ASSUME NEW p \in Procs, EngineDie(p) PROVE TypeOK'
  <2>1. faults' \in 0 .. MaxFaults
    BY <1>4 DEF TypeOK, EngineDie
  <2> QED
    BY <1>4, <2>1 DEF TypeOK, EngineDie, pyvars, engvars
<1>5. ASSUME NEW c \in Requests, Request(c) PROVE TypeOK'
  <2>1. pc' \in [Requests -> Pcs]
    BY <1>5 DEF TypeOK, Pcs, Request, Goto
  <2>2. me' \in [Requests -> Locals]
    BY <1>5, <1>0, Typed DEF Request, Goto, Kept
  <2> QED
    BY <1>5, <2>1, <2>2 DEF TypeOK, Request, Goto, Kept, pyvars, engvars
<1>6. ASSUME NEW c \in Requests, Acquire(c) PROVE TypeOK'
  BY <1>6 DEF TypeOK, Pcs, Acquire, Goto, Kept, pyvars, engvars
<1>7. ASSUME NEW c \in Requests, AcquireTimeout(c) PROVE TypeOK'
  BY <1>7 DEF TypeOK, Pcs, AcquireTimeout, Goto, Kept, pyvars, engvars
<1>8. ASSUME NEW c \in Requests, EnterReclaim(c) PROVE TypeOK'
  BY <1>8 DEF TypeOK, Pcs, EnterReclaim, Goto, Kept, pyvars, engvars
<1>9. ASSUME NEW c \in Requests, TryTakes(c) PROVE TypeOK'
  BY <1>9 DEF TypeOK, Pcs, TryTakes, Goto, Kept, pyvars, engvars
<1>10. ASSUME NEW c \in Requests, TryWaits(c) PROVE TypeOK'
  <2>1. pc' \in [Requests -> Pcs]
    BY <1>10 DEF TypeOK, Pcs, TryWaits, Goto
  <2>2. me' \in [Requests -> Locals]
    BY <1>10, <1>0, Typed DEF TryWaits, Goto, Kept
  <2> QED
    BY <1>10, <2>1, <2>2 DEF TypeOK, TryWaits, Goto, Kept, pyvars, engvars
<1>11. ASSUME NEW c \in Requests, ReclaimKill(c) PROVE TypeOK'
  BY <1>11 DEF TypeOK, Pcs, ReclaimKill, Killed, Goto, pyvars, engvars
<1>12. ASSUME NEW c \in Requests, ReclaimBump(c) PROVE TypeOK'
  BY <1>12 DEF TypeOK, Pcs, ReclaimBump, Goto, Kept, engvars
<1>13. ASSUME NEW c \in Requests, ReclaimTake(c) PROVE TypeOK'
  BY <1>13 DEF TypeOK, Pcs, ReclaimTake, Goto, Kept, engvars
<1>14. ASSUME NEW c \in Requests, Bind(c) PROVE TypeOK'
  <2>1. pc' \in [Requests -> Pcs]
    BY <1>14 DEF TypeOK, Pcs, Bind, Goto
  <2>2. me' \in [Requests -> Locals]
    BY <1>14, <1>0, Typed DEF Bind, Goto, Kept
  <2> QED
    BY <1>14, <2>1, <2>2 DEF TypeOK, Bind, Goto, Kept, pyvars, engvars
<1>15. ASSUME NEW c \in Requests, EnsureAlive(c) PROVE TypeOK'
  <2>1. pc' \in [Requests -> Pcs]
    <3>1. CASE pc' = [pc EXCEPT ![c] = "clean"]
      BY <3>1 DEF TypeOK, Pcs
    <3>2. CASE pc' = [pc EXCEPT ![c] = "spawn"]
      BY <3>2 DEF TypeOK, Pcs
    <3> QED
      BY <1>15, <3>1, <3>2 DEF EnsureAlive, SpawnThen, Goto
  <2>2. me' \in [Requests -> Locals]
    <3>1. me' = me \/ \E s \in Pcs : me' = [me EXCEPT ![c].next = s]
      BY <1>15, <1>0 DEF EnsureAlive, SpawnThen
    <3>2. CASE me' = me
      BY <3>2, <1>0
    <3>3. ASSUME NEW s \in Pcs, me' = [me EXCEPT ![c].next = s] PROVE me' \in [Requests -> Locals]
      BY <3>3, <1>0, Typed
    <3> QED
      BY <3>1, <3>2, <3>3
  <2> QED
    BY <1>15, <2>1, <2>2 DEF TypeOK, EnsureAlive, SpawnThen, Goto, Kept, pyvars, engvars
<1>16. ASSUME NEW c \in Requests, CheckClean(c) PROVE TypeOK'
  <2>1. pc' \in [Requests -> Pcs]
    <3>1. CASE pc' = [pc EXCEPT ![c] = "send"]
      BY <3>1 DEF TypeOK, Pcs
    <3>2. CASE pc' = [pc EXCEPT ![c] = "kill"]
      BY <3>2 DEF TypeOK, Pcs
    <3> QED
      BY <1>16, <3>1, <3>2 DEF CheckClean, RespawnThen, Goto
  <2>2. me' \in [Requests -> Locals]
    <3>1. me' = me \/ \E s \in Pcs : me' = [me EXCEPT ![c].next = s]
      BY <1>16, <1>0 DEF CheckClean, RespawnThen
    <3>2. CASE me' = me
      BY <3>2, <1>0
    <3>3. ASSUME NEW s \in Pcs, me' = [me EXCEPT ![c].next = s] PROVE me' \in [Requests -> Locals]
      BY <3>3, <1>0, Typed
    <3> QED
      BY <3>1, <3>2, <3>3
  <2> QED
    BY <1>16, <2>1, <2>2 DEF TypeOK, CheckClean, RespawnThen, Goto, Kept, pyvars, engvars
<1>17. ASSUME NEW c \in Requests, Kill(c) PROVE TypeOK'
  BY <1>17 DEF TypeOK, Pcs, Kill, Killed, Goto, Kept, pyvars, engvars
<1>18. ASSUME NEW c \in Requests, Spawn(c) PROVE TypeOK'
  <2> PICK p \in Procs : /\ Goto(c, "spawn", "booting")
                          /\ proc' = p
                          /\ me' = [me EXCEPT ![c].proc = p]
                          /\ alive' = [q \in Procs |-> q = p \/ (alive[q] /\ q \in {proc} \cup
                                                          {me[d].proc : d \in Requests})]
                          /\ inq' = [inq EXCEPT ![p] = <<>>]
                          /\ work' = [work EXCEPT ![p] = None]
                          /\ left' = [left EXCEPT ![p] = 0]
                          /\ out' = [out EXCEPT ![p] = <<>>]
                          /\ UNCHANGED <<lock, owner, reclaimer, epoch, stale, lastClean, faults>>
    BY <1>18 DEF Spawn
  <2>1. pc' \in [Requests -> Pcs]
    BY DEF TypeOK, Goto, Pcs
  <2>2. alive' \in [Procs -> BOOLEAN]
    OBVIOUS
  <2>3. 0 \in 0 .. MaxFrames /\ <<>> \in Seq(Requests) /\ <<>> \in Seq(Token)
    OBVIOUS
  <2>4. me' \in [Requests -> Locals]
    BY <1>0, Typed
  <2>5. /\ inq' \in [Procs -> Seq(Requests)] /\ out' \in [Procs -> Seq(Token)]
        /\ work' \in [Procs -> Requests \cup {None}] /\ left' \in [Procs -> 0 .. MaxFrames]
    BY <2>3 DEF TypeOK
  <2> QED
    BY <2>1, <2>2, <2>4, <2>5 DEF TypeOK
<1>19. ASSUME NEW c \in Requests, Ready(c) PROVE TypeOK'
  <2>1. me[c].next \in Pcs
    BY <1>19 DEF Bound, Ready, Goto, Pcs
  <2>2. pc' \in [Requests -> Pcs]
    BY <1>19, <1>0, <2>1 DEF Ready, Goto
  <2>3. me' \in [Requests -> Locals]
    BY <1>19, <1>0, <2>1, Typed DEF Ready
  <2> QED
    BY <1>19, <2>2, <2>3 DEF TypeOK, Ready, Kept, engvars
<1>20. ASSUME NEW c \in Requests, BootFails(c) PROVE TypeOK'
  <2>1. pc' \in [Requests -> Pcs]
    BY <1>20 DEF TypeOK, Pcs, BootFails, Killed, Goto
  <2>2. me' \in [Requests -> Locals]
    BY <1>20, <1>0, Typed DEF BootFails, Killed, Goto, Kept
  <2> QED
    BY <1>20, <2>1, <2>2 DEF TypeOK, BootFails, Killed, Goto, Kept, pyvars, engvars
<1>21. ASSUME NEW c \in Requests, Send(c) PROVE TypeOK'
  <2>1. pc' \in [Requests -> Pcs]
    BY <1>21 DEF TypeOK, Pcs, Send, SpawnThen, Write, Goto
  <2>2. me' \in [Requests -> Locals]
    <3>1. me' = me \/ \E s \in Pcs : me' = [me EXCEPT ![c].next = s]
      BY <1>21, <1>0 DEF Send, SpawnThen, Write
    <3>2. CASE me' = me
      BY <3>2, <1>0
    <3>3. ASSUME NEW s \in Pcs, me' = [me EXCEPT ![c].next = s] PROVE me' \in [Requests -> Locals]
      BY <3>3, <1>0, Typed
    <3> QED
      BY <3>1, <3>2, <3>3
  <2>3. inq' \in [Procs -> Seq(Requests)]
    <3>1. CASE ~Gone(proc) /\ Write(c)
      <4>1. proc \in Procs /\ inq[proc] \in Seq(Requests)
        BY <3>1 DEF TypeOK, Gone
      <4>2. Append(inq[proc], c) \in Seq(Requests)
        BY <4>1, Pipe
      <4> QED
        BY <3>1, <4>2 DEF TypeOK, Write
    <3> QED
      BY <1>21, <3>1 DEF TypeOK, Send, Write, Kept, engvars
  <2> QED
    BY <1>21, <2>1, <2>2, <2>3 DEF TypeOK, Send, SpawnThen, Write, Goto, Kept, pyvars, engvars
<1>22. ASSUME NEW c \in Requests, Resend(c) PROVE TypeOK'
  <2>1. pc' \in [Requests -> Pcs]
    BY <1>22 DEF TypeOK, Pcs, Resend, Write, Goto
  <2>2. me' \in [Requests -> Locals]
    BY <1>22, <1>0, Typed DEF Resend, Write, Goto, Kept
  <2>3. inq' \in [Procs -> Seq(Requests)]
    <3>1. CASE ~Gone(proc) /\ Write(c)
      <4>1. proc \in Procs /\ inq[proc] \in Seq(Requests)
        BY <3>1 DEF TypeOK, Gone
      <4>2. Append(inq[proc], c) \in Seq(Requests)
        BY <4>1, Pipe
      <4> QED
        BY <3>1, <4>2 DEF TypeOK, Write
    <3> QED
      BY <1>22, <3>1 DEF TypeOK, Resend, Write, Kept, engvars
  <2> QED
    BY <1>22, <2>1, <2>2, <2>3 DEF TypeOK, Resend, Write, Goto, Kept, pyvars, engvars
<1>23. ASSUME NEW c \in Requests, BindProc(c) PROVE TypeOK'
  <2>1. pc' \in [Requests -> Pcs]
    BY <1>23 DEF TypeOK, Pcs, BindProc, Goto
  <2>2. me' \in [Requests -> Locals]
    BY <1>23, <1>0, Typed DEF BindProc, Goto, Kept
  <2> QED
    BY <1>23, <2>1, <2>2 DEF TypeOK, BindProc, Goto, Kept, pyvars, engvars
<1>24. ASSUME NEW c \in Requests, Loop(c) PROVE TypeOK'
  BY <1>24 DEF TypeOK, Pcs, Loop, Goto, Kept, pyvars, engvars
<1>25. ASSUME NEW c \in Requests, ReadFrame(c) PROVE TypeOK'
  <2>0. LET p == me[c].proc IN
        /\ p \in Procs /\ out[p] \in Seq(Token) /\ out[p] # <<>>
        /\ Head(out[p]) \in Token /\ Head(out[p]).req \in Requests /\ Tail(out[p]) \in Seq(Token)
    <3>1. me[c].proc \in Procs
      <4>1. me[c].proc \in Procs \cup {None}
        BY <1>0 DEF Locals
      <4>2. me[c].proc # None
        BY <1>25 DEF Bound, ReadFrame, Goto
      <4> QED
        BY <4>1, <4>2
    <3>2. out[me[c].proc] \in Seq(Token) /\ out[me[c].proc] # <<>>
      BY <1>25, <3>1 DEF TypeOK, ReadFrame
    <3>3. Head(out[me[c].proc]) \in Token /\ Tail(out[me[c].proc]) \in Seq(Token)
      BY <3>2, Pipe
    <3> QED
      BY <3>1, <3>2, <3>3 DEF Token
  <2>1. pc' \in [Requests -> Pcs]
    BY <1>25 DEF TypeOK, Pcs, ReadFrame, Pop, Goto
  <2>2. me' \in [Requests -> Locals]
    BY <1>25, <1>0, <2>0, Typed DEF ReadFrame, Pop, Goto, Kept
  <2>3. out' \in [Procs -> Seq(Token)]
    BY <1>25, <2>0 DEF TypeOK, ReadFrame, Pop, Token
  <2> QED
    BY <1>25, <2>1, <2>2, <2>3 DEF TypeOK, ReadFrame, Pop, Goto, Kept, pyvars, engvars
<1>26. ASSUME NEW c \in Requests, ReadEnd(c) PROVE TypeOK'
  <2>0. LET p == me[c].proc IN
        /\ p \in Procs /\ out[p] \in Seq(Token) /\ out[p] # <<>>
        /\ Head(out[p]) \in Token /\ Head(out[p]).req \in Requests /\ Tail(out[p]) \in Seq(Token)
    <3>1. me[c].proc \in Procs
      <4>1. me[c].proc \in Procs \cup {None}
        BY <1>0 DEF Locals
      <4>2. me[c].proc # None
        BY <1>26 DEF Bound, ReadEnd, Goto
      <4> QED
        BY <4>1, <4>2
    <3>2. out[me[c].proc] \in Seq(Token) /\ out[me[c].proc] # <<>>
      BY <1>26, <3>1 DEF TypeOK, ReadEnd
    <3>3. Head(out[me[c].proc]) \in Token /\ Tail(out[me[c].proc]) \in Seq(Token)
      BY <3>2, Pipe
    <3> QED
      BY <3>1, <3>2, <3>3 DEF Token
  <2>1. pc' \in [Requests -> Pcs]
    BY <1>26 DEF TypeOK, Pcs, ReadEnd, Pop, Goto
  <2>2. me' \in [Requests -> Locals]
    BY <1>26, <1>0, <2>0, Typed DEF ReadEnd, Pop, Goto, Kept
  <2>3. out' \in [Procs -> Seq(Token)]
    BY <1>26, <2>0 DEF TypeOK, ReadEnd, Pop, Token
  <2> QED
    BY <1>26, <2>1, <2>2, <2>3 DEF TypeOK, ReadEnd, Pop, Goto, Kept, pyvars, engvars
<1>27. ASSUME NEW c \in Requests, ReadGarbage(c) PROVE TypeOK'
  <2>1. pc' \in [Requests -> Pcs]
    BY <1>27 DEF TypeOK, Pcs, ReadGarbage, RespawnThen, Goto
  <2>2. me' \in [Requests -> Locals]
    BY <1>27, <1>0, Typed DEF ReadGarbage, RespawnThen, Goto, Kept
  <2> QED
    BY <1>27, <2>1, <2>2 DEF TypeOK, ReadGarbage, RespawnThen, Goto, Kept, pyvars, engvars
<1>28. ASSUME NEW c \in Requests, ReadEof(c) PROVE TypeOK'
  BY <1>28 DEF TypeOK, Pcs, ReadEof, Goto, Kept, pyvars, engvars
<1>29. ASSUME NEW c \in Requests, Eof(c) PROVE TypeOK'
  <2>1. pc' \in [Requests -> Pcs]
    <3>1. CASE pc' = [pc EXCEPT ![c] = "cleanup"]
      BY <3>1 DEF TypeOK, Pcs
    <3>2. CASE pc' = [pc EXCEPT ![c] = "kill"]
      BY <3>2 DEF TypeOK, Pcs
    <3> QED
      BY <1>29, <3>1, <3>2 DEF Eof, RespawnThen, Goto
  <2>2. me' \in [Requests -> Locals]
    <3>1. me' = me \/ \E s \in Pcs : me' = [me EXCEPT ![c].next = s]
      BY <1>29, <1>0 DEF Eof, RespawnThen
    <3>2. CASE me' = me
      BY <3>2, <1>0
    <3>3. ASSUME NEW s \in Pcs, me' = [me EXCEPT ![c].next = s] PROVE me' \in [Requests -> Locals]
      BY <3>3, <1>0, Typed
    <3> QED
      BY <3>1, <3>2, <3>3
  <2> QED
    BY <1>29, <2>1, <2>2 DEF TypeOK, Eof, RespawnThen, Goto, Kept, pyvars, engvars
<1>30. ASSUME NEW c \in Requests, Cleanup(c) PROVE TypeOK'
  BY <1>30 DEF TypeOK, Pcs, Cleanup, Goto, Kept, pyvars, engvars
<1>31. ASSUME NEW c \in Requests, Drain(c) PROVE TypeOK'
  <2>1. pc' \in [Requests -> Pcs]
    BY <1>31 DEF TypeOK, Pcs, Drain, Goto
  <2>2. me' \in [Requests -> Locals]
    <3>1. me' = me \/ me' = [me EXCEPT ![c].proc = proc]
      BY <1>31, <1>0 DEF Drain
    <3>2. CASE me' = me
      BY <3>2, <1>0
    <3>3. CASE me' = [me EXCEPT ![c].proc = proc]
      BY <3>3, <1>0, Typed
    <3> QED
      BY <3>1, <3>2, <3>3
  <2> QED
    BY <1>31, <2>1, <2>2 DEF TypeOK, Drain, Goto, Kept, pyvars, engvars
<1>32. ASSUME NEW c \in Requests, DrainTimeout(c) PROVE TypeOK'
  <2>1. pc' \in [Requests -> Pcs]
    BY <1>32 DEF TypeOK, Pcs, DrainTimeout, RespawnThen, Goto
  <2>2. me' \in [Requests -> Locals]
    BY <1>32, <1>0, Typed DEF DrainTimeout, RespawnThen, Goto, Kept
  <2> QED
    BY <1>32, <2>1, <2>2 DEF TypeOK, DrainTimeout, RespawnThen, Goto, Kept, pyvars, engvars
<1>33. ASSUME NEW c \in Requests, DrainRead(c) PROVE TypeOK'
  <2>0. LET p == me[c].proc IN
        /\ p \in Procs /\ out[p] \in Seq(Token) /\ out[p] # <<>>
        /\ Head(out[p]) \in Token /\ Head(out[p]).req \in Requests /\ Tail(out[p]) \in Seq(Token)
    <3>1. me[c].proc \in Procs
      <4>1. me[c].proc \in Procs \cup {None}
        BY <1>0 DEF Locals
      <4>2. me[c].proc # None
        BY <1>33 DEF Bound, DrainRead, Goto
      <4> QED
        BY <4>1, <4>2
    <3>2. out[me[c].proc] \in Seq(Token) /\ out[me[c].proc] # <<>>
      BY <1>33, <3>1 DEF TypeOK, DrainRead
    <3>3. Head(out[me[c].proc]) \in Token /\ Tail(out[me[c].proc]) \in Seq(Token)
      BY <3>2, Pipe
    <3> QED
      BY <3>1, <3>2, <3>3 DEF Token
  <2>1. pc' \in [Requests -> Pcs]
    BY <1>33 DEF TypeOK, Pcs, DrainRead, Goto
  <2>2. me' \in [Requests -> Locals]
    BY <1>33, <1>0, <2>0, Typed DEF DrainRead, Goto, Kept
  <2>3. out' \in [Procs -> Seq(Token)]
    <3> DEFINE p == me[c].proc
    <3>1. [out[p] EXCEPT ![1].kind = "rest"] \in Seq(Token)
      <4>1. out[p] \in Seq(Token) /\ 1 \in DOMAIN out[p] /\ out[p][1] \in Token
        BY <2>0, Pipe
      <4>2. [out[p][1] EXCEPT !.kind = "rest"] \in Token
        BY <4>1 DEF Token
      <4> QED
        BY <4>1, <4>2
    <3>2. \E s \in Seq(Token) : out' = [out EXCEPT ![p] = s]
      BY <1>33, <2>0, <3>1 DEF DrainRead
    <3> QED
      BY <3>2 DEF TypeOK
  <2> QED
    BY <1>33, <2>1, <2>2, <2>3 DEF TypeOK, DrainRead, Goto, Kept, pyvars, engvars
<1>34. ASSUME NEW c \in Requests, DrainEof(c) PROVE TypeOK'
  BY <1>34 DEF TypeOK, Pcs, DrainEof, Goto, Kept, pyvars, engvars
<1>35. ASSUME NEW c \in Requests, Release(c) PROVE TypeOK'
  <2>1. pc' \in [Requests -> Pcs]
    BY <1>35 DEF TypeOK, Pcs, Release, Goto
  <2>2. me' \in [Requests -> Locals]
    BY <1>35, <1>0, Typed DEF Release, Goto, Kept
  <2> QED
    BY <1>35, <2>1, <2>2 DEF TypeOK, Release, Goto, Kept, pyvars, engvars
<1>36. ASSUME NEW c \in Requests, Resume(c) PROVE TypeOK'
  BY <1>36 DEF TypeOK, Pcs, Resume, Goto, Kept, pyvars, engvars
<1>37. ASSUME NEW c \in Requests, Close(c) PROVE TypeOK'
  BY <1>37 DEF TypeOK, Pcs, Close, Goto, Kept, pyvars, engvars
<1>38. CASE Stall
  BY <1>38 DEF TypeOK, Stall, Kept, engvars
<1>39. CASE UNCHANGED vars
  BY <1>39 DEF TypeOK, vars
<1> QED
  BY <1>1, <1>2, <1>3, <1>4, <1>5, <1>6, <1>7, <1>8, <1>9, <1>10, <1>11, <1>12, <1>13,
     <1>14, <1>15, <1>16, <1>17, <1>18, <1>19, <1>20, <1>21, <1>22, <1>23, <1>24, <1>25,
     <1>26, <1>27, <1>28, <1>29, <1>30, <1>31, <1>32, <1>33, <1>34, <1>35, <1>36, <1>37,
     <1>38, <1>39 DEF Next, Engine, Step

-----------------------------------------------------------------------------
(* The thread inside.                                                      *)

\* What SerialPipe tells apart is what it was when the pipes and self.proc are (c_engine.py 390).
LEMMA SamePipes ==
  ASSUME UNCHANGED <<proc, inq, work, out>>
  PROVE  /\ Pure(proc) <=> Pure(proc)'
         /\ Blocked(proc) <=> Blocked(proc)'
         /\ \A c \in Requests : Answers(proc, c) <=> Answers(proc, c)'
  BY DEF Pure, Blocked, Answers

\* A thread that goes from s to t moves nobody else (c_engine.py 300-505).
LEMMA Went ==
  ASSUME TypeOK, NEW c \in Requests, NEW s, NEW t, Goto(c, s, t)
  PROVE  pc[c] = s /\ pc'[c] = t /\ \A d \in Requests \ {c} : pc'[d] = pc[d]
  BY DEF Goto, TypeOK

\* Whom the step of the lock's holder leaves alone (c_engine.py 311-335).
LEMMA OthersKeep ==
  ASSUME NEW d \in Requests, SerialPipe(d),
         pc[d] \notin Inside \cup {"bind", "release"}, pc'[d] = pc[d], me'[d] = me[d]
  PROVE  SerialPipe(d)'
  BY DEF SerialPipe, Inside

\* What a step of the thread that holds the lock, and keeps it, may do to the lock.
HolderStep(c) ==
  /\ pc[c] \in Inside \cup {"bind"} /\ pc'[c] \in Inside \cup {"release"}
  /\ UNCHANGED <<lock, epoch, owner>> /\ ~stale'
  /\ \A d \in Requests \ {c} : pc'[d] = pc[d] /\ me'[d] = me[d]
  /\ me'[c].lock = 0 /\ me'[c].epoch = 0

\* The holder's step keeps the invariant if it keeps the holder's part of it
\* (c_engine.py 336-505).
LEMMA HolderKeeps ==
  ASSUME SerialInv, TypeOK', NEW c \in Requests, HolderStep(c), SerialPipe(c)',
         me'[c].got \in {c, None}
  PROVE  SerialInv'
<1> USE DEF SerialInv, HolderStep
<1>1. owner[0] = c /\ c # None
  BY StreamAssumption DEF SerialLock
<1>2. \A d \in Requests \ {c} : pc[d] \notin Inside \cup {"bind", "release"}
  BY <1>1 DEF SerialLock
<1>3. SerialLock'
  <2>1. pc'[c] \notin {"bump", "take"} /\ pc'[c] \in Inside \cup {"bind", "release"}
    BY DEF Inside
  <2> SUFFICES ASSUME NEW d \in Requests
               PROVE  /\ me'[d].lock = 0 /\ me'[d].epoch = 0
                      /\ pc'[d] \notin {"bump", "take"}
                      /\ pc'[d] \in Inside \cup {"bind", "release"} <=> owner'[0] = d
                      /\ stale' => pc'[d] \in {"idle", "acquire", "bind"}
    BY DEF SerialLock
  <2>2. CASE d = c
    BY <1>1, <2>1, <2>2
  <2>3. CASE d # c
    BY <1>1, <1>2, <2>3 DEF SerialLock
  <2> QED
    BY <2>2, <2>3
<1>4. \A d \in Requests : SerialPipe(d)'
  BY <1>2, OthersKeep
<1>5. SerialRest'
  BY <1>1 DEF SerialRest
<1>6. OwnFrames'
  BY DEF OwnFrames
<1> QED
  BY <1>3, <1>4, <1>5, <1>6

\* The engine's step keeps it if it keeps what SerialPipe tells apart of the pipe
\* (main.c 444-827).
LEMMA EngineKeeps ==
  ASSUME SerialInv, TypeOK', UNCHANGED <<pyvars, pc, me>>,
         proc # None => /\ alive'[proc] => alive[proc]
                        /\ Pure(proc) => Pure(proc)'
                        /\ Blocked(proc) => Blocked(proc)'
                        /\ \A c \in Requests : Answers(proc, c) => Answers(proc, c)'
  PROVE  SerialInv'
<1> USE DEF SerialInv, pyvars
<1>1. SerialLock'
  BY DEF SerialLock
<1>2. \A c \in Requests : SerialPipe(c)'
  BY DEF SerialPipe, Gone
<1>3. SerialRest' /\ OwnFrames'
  BY DEF SerialRest, OwnFrames
<1> QED
  BY <1>1, <1>2, <1>3

-----------------------------------------------------------------------------
(* The steps.                                                              *)

\* The engine answers what is in its stdin (main.c 444-827).
LEMMA EngineSteps ==
  ASSUME SerialInv, TypeOK', NEW p \in Procs, Engine(p) \/ EngineDie(p)
  PROVE  SerialInv'
<1> USE StreamAssumption
<1>0. TypeOK
  BY DEF SerialInv
<1>1. CASE EngineTake(p)
  <2>1. CASE p # proc
    <3>1. proc # None => inq'[proc] = inq[proc] /\ work'[proc] = work[proc] /\ out' = out
      BY <1>0, <1>1, <2>1 DEF TypeOK, EngineTake
    <3>2. UNCHANGED <<pyvars, pc, me, alive>>
      BY <1>1 DEF EngineTake
    <3> QED
      BY <3>1, <3>2, EngineKeeps DEF pyvars, Pure, Blocked, Answers
  <2>2. CASE p = proc
    <3>1. ~Pure(proc) /\ proc' = proc
      BY <1>1, <2>2 DEF EngineTake, Pure, pyvars
    <3>2. Blocked(proc) => Blocked(proc)'
      BY <1>1, <2>2 DEF EngineTake, Blocked, pyvars
    <3>3. ASSUME NEW c \in Requests, Answers(proc, c) PROVE Answers(proc, c)'
      <4>1. inq[p] = <<c>> /\ out[p] = <<>>
        BY <1>1, <2>2, <3>3 DEF EngineTake, Answers
      <4>2. inq'[p] = <<>> /\ work'[p] \in {None, c} /\ out' = out
        BY <1>0, <1>1, <4>1 DEF EngineTake, TypeOK
      <4> QED
        BY <4>1, <4>2, <2>2, <3>1 DEF Answers
    <3>4. UNCHANGED <<pyvars, pc, me, alive>>
      BY <1>1 DEF EngineTake
    <3> QED
      BY <3>1, <3>2, <3>3, <3>4, EngineKeeps
  <2> QED
    BY <2>1, <2>2
<1>2. CASE EngineFrame(p)
  <2>1. CASE p # proc
    <3>1. proc # None => inq' = inq /\ work'[proc] = work[proc] /\ out'[proc] = out[proc]
      BY <1>0, <1>2, <2>1 DEF TypeOK, EngineFrame
    <3>2. UNCHANGED <<pyvars, pc, me, alive>>
      BY <1>2 DEF EngineFrame
    <3> QED
      BY <3>1, <3>2, EngineKeeps DEF pyvars, Pure, Blocked, Answers
  <2>2. CASE p = proc
    <3> DEFINE e == [req |-> work[p], kind |-> "frame"]
    <3>1. ~Pure(proc) /\ proc' = proc /\ out'[p] = Append(out[p], e) /\ out[p] \in Seq(Token)
      BY <1>0, <1>2, <2>2 DEF TypeOK, EngineFrame, Pure, pyvars
    <3>2. Blocked(proc) => Blocked(proc)'
      <4> HIDE DEF e
      <4>1. out[p] # <<>> => Head(Append(out[p], e)) = Head(out[p]) /\ Append(out[p], e) # <<>>
        BY <3>1, HeadStays
      <4> QED
        BY <3>1, <4>1, <2>2 DEF Blocked
    <3>3. ASSUME NEW c \in Requests, Answers(proc, c) PROVE Answers(proc, c)'
      <4>1. inq[p] = <<>> /\ work[p] = c /\ inq'[p] = <<>> /\ work'[p] = c
        BY <1>0, <1>2, <2>2, <3>3 DEF EngineFrame, Answers, TypeOK
      <4>2. e.req = c /\ e.kind = "frame"
        BY <4>1
      <4>3. \A i \in DOMAIN out[p] : out[p][i].req = c /\ out[p][i].kind = "frame"
        BY <4>1, <2>2, <3>3 DEF Answers
      <4>4. \A i \in DOMAIN out'[p] : \/ i \in DOMAIN out[p] /\ out'[p][i] = out[p][i]
                                      \/ i = Len(out'[p]) /\ out'[p][i] = e
        <5> HIDE DEF e
        <5> QED
          BY <3>1
      <4> QED
        BY <4>1, <4>2, <4>3, <4>4, <2>2, <3>1 DEF Answers
    <3>4. UNCHANGED <<pyvars, pc, me, alive>>
      BY <1>2 DEF EngineFrame
    <3> QED
      BY <3>1, <3>2, <3>3, <3>4, EngineKeeps
  <2> QED
    BY <2>1, <2>2
<1>3. CASE EngineEnd(p)
  <2>1. CASE p # proc
    <3>1. proc # None => inq' = inq /\ work'[proc] = work[proc] /\ out'[proc] = out[proc]
      BY <1>0, <1>3, <2>1 DEF TypeOK, EngineEnd
    <3>2. UNCHANGED <<pyvars, pc, me, alive>>
      BY <1>3 DEF EngineEnd
    <3> QED
      BY <3>1, <3>2, EngineKeeps DEF pyvars, Pure, Blocked, Answers
  <2>2. CASE p = proc
    <3> DEFINE e == [req |-> work[p], kind |-> "end"]
    <3>1. ~Pure(proc) /\ proc' = proc /\ out'[p] = Append(out[p], e) /\ out[p] \in Seq(Token)
      BY <1>0, <1>3, <2>2 DEF TypeOK, EngineEnd, Pure, pyvars
    <3>2. Blocked(proc) => Blocked(proc)'
      <4> HIDE DEF e
      <4>1. out[p] # <<>> => Head(Append(out[p], e)) = Head(out[p]) /\ Append(out[p], e) # <<>>
        BY <3>1, HeadStays
      <4> QED
        BY <3>1, <4>1, <2>2 DEF Blocked
    <3>3. ASSUME NEW c \in Requests, Answers(proc, c) PROVE Answers(proc, c)'
      <4>1. inq[p] = <<>> /\ work[p] = c /\ inq'[p] = <<>> /\ work'[p] = None
        BY <1>0, <1>3, <2>2, <3>3 DEF EngineEnd, Answers, TypeOK
      <4>2. e.req = c /\ e.kind = "end"
        BY <4>1
      <4>3. \A i \in DOMAIN out[p] : out[p][i].req = c /\ out[p][i].kind = "frame"
        BY <4>1, <2>2, <3>3 DEF Answers
      <4>4. \A i \in DOMAIN out'[p] : \/ i \in DOMAIN out[p] /\ out'[p][i] = out[p][i]
                                      \/ i = Len(out'[p]) /\ out'[p][i] = e
        <5> HIDE DEF e
        <5> QED
          BY <3>1
      <4> QED
        BY <4>1, <4>2, <4>3, <4>4, <2>2, <3>1 DEF Answers
    <3>4. UNCHANGED <<pyvars, pc, me, alive>>
      BY <1>3 DEF EngineEnd
    <3> QED
      BY <3>1, <3>2, <3>3, <3>4, EngineKeeps
  <2> QED
    BY <2>1, <2>2
<1>4. CASE EngineDie(p)
  <2>1. UNCHANGED <<pyvars, pc, me>> /\ UNCHANGED <<proc, inq, work, out>>
    BY <1>4 DEF EngineDie, engvars, pyvars
  <2>2. proc # None /\ alive'[proc] => alive[proc]
    BY <1>0, <1>4 DEF EngineDie, TypeOK
  <2> QED
    BY <2>1, <2>2, SamePipes, EngineKeeps
<1> QED
  BY <1>1, <1>2, <1>3, <1>4 DEF Engine

\* The thread inside does what it does (c_engine.py 336-550).
LEMMA HolderSteps ==
  ASSUME SerialInv, TypeOK', NEW c \in Requests,
         \/ Bind(c) \/ EnsureAlive(c) \/ CheckClean(c) \/ Kill(c) \/ Spawn(c) \/ Ready(c)
         \/ BootFails(c) \/ Send(c) \/ Resend(c) \/ BindProc(c) \/ Loop(c)
         \/ ReadFrame(c) \/ ReadEnd(c) \/ ReadGarbage(c) \/ ReadEof(c) \/ Eof(c)
         \/ Cleanup(c) \/ Drain(c) \/ DrainTimeout(c) \/ DrainRead(c) \/ DrainEof(c)
         \/ Resume(c) \/ Close(c)
  PROVE  SerialInv'
<1> USE StreamAssumption
<1>0. /\ TypeOK /\ SerialPipe(c) /\ me \in [Requests -> Locals] /\ me[c] \in Locals
      /\ lock = 0 /\ epoch = 0 /\ me[c].lock = 0 /\ me[c].epoch = 0
      /\ stale => pc[c] \in {"idle", "acquire", "bind"}
      /\ proc # None => proc \in Procs
      /\ me[c].got \in {c, None}
  BY DEF SerialInv, SerialLock, TypeOK, OwnFrames
<1> USE <1>0
<1>1. CASE Bind(c)
  <2>1. HolderStep(c) /\ me'[c].got = me[c].got
    BY <1>1 DEF HolderStep, Inside, TypeOK, Locals, Bind, Goto, Kept, pyvars
  <2>2. SerialPipe(c)'
    BY <1>1, SamePipes DEF SerialPipe, TypeOK, Locals, Bind, Goto, Kept, pyvars, engvars, Gone
  <2> QED
    BY <2>1, <2>2, HolderKeeps
<1>2. CASE EnsureAlive(c)
  <2>1. HolderStep(c) /\ me'[c].got = me[c].got
    BY <1>2 DEF HolderStep, Inside, TypeOK, Locals, EnsureAlive, SpawnThen, Goto, Kept, pyvars
  <2>2. SerialPipe(c)'
    BY <1>2, SamePipes DEF SerialPipe, TypeOK, Locals, EnsureAlive, SpawnThen, Goto, Kept,
       pyvars, engvars, Gone
  <2> QED
    BY <2>1, <2>2, HolderKeeps
<1>3. CASE CheckClean(c)
  <2>1. HolderStep(c) /\ me'[c].got = me[c].got
    BY <1>3 DEF HolderStep, Inside, TypeOK, Locals, CheckClean, RespawnThen, Goto, Kept, pyvars
  <2>2. SerialPipe(c)'
    BY <1>3, SamePipes DEF SerialPipe, TypeOK, Locals, CheckClean, RespawnThen, Goto, Kept,
       pyvars, engvars, Gone
  <2> QED
    BY <2>1, <2>2, HolderKeeps
<1>4. CASE Kill(c)
  <2>1. HolderStep(c) /\ me'[c].got = me[c].got
    BY <1>4 DEF HolderStep, Inside, TypeOK, Locals, Kill, Goto, Kept, pyvars
  <2>2. SerialPipe(c)'
    BY <1>4, SamePipes DEF SerialPipe, TypeOK, Locals, Kill, Goto, Kept, pyvars, engvars, Gone
  <2> QED
    BY <2>1, <2>2, HolderKeeps
<1>5. CASE Spawn(c)
  <2>1. HolderStep(c) /\ me'[c].got = me[c].got
    BY <1>5 DEF HolderStep, Inside, TypeOK, Locals, Spawn, Goto, Kept, pyvars
  <2>2. SerialPipe(c)'
    <3>1. /\ pc[c] = "spawn" /\ pc'[c] = "booting" /\ proc' # None /\ me'[c].proc = proc'
          /\ me'[c].next = me[c].next /\ ~me'[c].tend /\ ~me'[c].respawned
      <4>1. PICK p \in Procs : proc' = p /\ me' = [me EXCEPT ![c].proc = p]
        BY <1>5 DEF Spawn
      <4>2. p # None
        BY StreamAssumption DEF Procs
      <4>3. pc[c] = "spawn" /\ pc'[c] = "booting"
        BY <1>5 DEF Spawn, Goto, TypeOK
      <4> QED
        BY <4>1, <4>2, <4>3 DEF Locals, SerialPipe
    <3>2. Pure(proc)'
      BY <1>5 DEF Spawn, TypeOK, Pure
    <3> QED
      BY <3>1, <3>2 DEF SerialPipe
  <2> QED
    BY <2>1, <2>2, HolderKeeps
<1>6. CASE Ready(c)
  <2>0. /\ pc[c] = "booting" /\ pc'[c] = me[c].next /\ alive' = alive /\ proc # None
        /\ me[c].next \in {"clean", "send", "resend", "cleanup", "release"}
        /\ Pure(proc) /\ ~me[c].tend /\ ~me[c].respawned /\ UNCHANGED <<proc, inq, work, out>>
    BY <1>6 DEF Ready, Goto, TypeOK, SerialPipe, Kept, engvars
  <2>3. /\ me'[c].lock = me[c].lock /\ me'[c].epoch = me[c].epoch /\ me'[c].got = me[c].got
        /\ me'[c].tend = me[c].tend /\ me'[c].respawned = (me[c].next = "cleanup")
        /\ \A d \in Requests \ {c} : me'[d] = me[d]
    BY <1>6 DEF Ready, Locals
  <2>1. HolderStep(c)
    <3>1. \A d \in Requests \ {c} : pc'[d] = pc[d]
      BY <1>6 DEF Ready, Goto, TypeOK
    <3>2. UNCHANGED <<lock, epoch, owner, stale>> /\ ~stale
      BY <1>6, <2>0 DEF Ready
    <3> QED
      BY <2>0, <2>3, <3>1, <3>2 DEF HolderStep, Inside
  <2>2. SerialPipe(c)'
    <3>1. Pure(proc)' /\ Answers(proc, c)'
      BY <2>0 DEF Pure, Answers
    <3> QED
      BY <2>0, <2>3, <3>1 DEF SerialPipe
  <2> QED
    BY <2>1, <2>2, <2>3, HolderKeeps
<1>7. CASE BootFails(c)
  <2>1. HolderStep(c) /\ me'[c].got = me[c].got
    BY <1>7 DEF HolderStep, Inside, TypeOK, Locals, BootFails, Goto, Kept, pyvars
  <2>2. SerialPipe(c)'
    <3>1. /\ pc[c] = "booting" /\ pc'[c] \in {"cleanup", "release"} /\ UNCHANGED <<proc, inq, work, out>>
          /\ proc # None /\ Pure(proc) /\ ~alive'[proc]
          /\ me'[c].tend = me[c].tend /\ me'[c].respawned = me[c].respawned
          /\ ~me[c].tend /\ ~me[c].respawned
      BY <1>7 DEF BootFails, Goto, TypeOK, Locals, SerialPipe, pyvars, engvars, Killed
    <3>2. Pure(proc)' /\ Answers(proc, c)'
      BY <3>1 DEF Pure, Answers
    <3> QED
      BY <3>1, <3>2 DEF SerialPipe
  <2> QED
    BY <2>1, <2>2, HolderKeeps
<1>8. CASE Send(c)
  <2>0. \/ Goto(c, "send", "sent") /\ Write(c)
        \/ proc = None /\ Goto(c, "send", "release") /\ Kept /\ me' = me
        \/ proc # None /\ SpawnThen(c, "send", "resend") /\ Kept
    BY <1>8 DEF Send
  <2>4. pc[c] = "send" /\ lastClean' = FALSE /\ UNCHANGED <<lock, owner, epoch, stale, proc>>
    BY <1>8 DEF Send, Goto, SpawnThen
  <2>1. HolderStep(c) /\ me'[c].got = me[c].got
    <3>1. /\ me'[c].lock = me[c].lock /\ me'[c].epoch = me[c].epoch /\ me'[c].got = me[c].got
          /\ \A d \in Requests \ {c} : me'[d] = me[d]
      BY <2>0 DEF SpawnThen, Write, Locals
    <3>2. pc'[c] \in {"sent", "release", "spawn"} /\ \A d \in Requests \ {c} : pc'[d] = pc[d]
      BY <2>0 DEF SpawnThen, Goto, TypeOK
    <3> QED
      BY <2>4, <3>1, <3>2 DEF HolderStep, Inside
  <2>2. SerialPipe(c)'
    <3>1. CASE Goto(c, "send", "sent") /\ Write(c)
      <4>1. /\ pc'[c] = "sent" /\ proc' = proc /\ proc # None /\ alive[proc] /\ me' = me
            /\ inq'[proc] = Append(inq[proc], c) /\ work' = work /\ out' = out
            /\ ~me[c].tend /\ ~me[c].respawned
        BY <1>8, <3>1 DEF Send, Goto, TypeOK, SerialPipe, Write, Gone, pyvars
      <4>2. Pure(proc) => Answers(proc, c)'
        BY <4>1 DEF Pure, Answers
      <4>3. Blocked(proc) => Blocked(proc)'
        BY <4>1 DEF Blocked
      <4> QED
        BY <3>1, <4>1, <4>2, <4>3 DEF SerialPipe, Goto, Gone
    <3>2. CASE proc = None /\ Goto(c, "send", "release") /\ Kept /\ me' = me
      BY <2>4, <3>2 DEF SerialPipe, Goto, TypeOK
    <3>3. CASE proc # None /\ SpawnThen(c, "send", "resend") /\ Kept
      BY <2>4, <3>3 DEF SerialPipe, SpawnThen, Goto, TypeOK, Locals
    <3> QED
      BY <2>0, <3>1, <3>2, <3>3
  <2> QED
    BY <2>1, <2>2, HolderKeeps
<1>9. CASE Resend(c)
  <2>1. HolderStep(c) /\ me'[c].got = me[c].got
    <3>1. /\ UNCHANGED <<lock, epoch, owner, stale, me>>
          /\ pc[c] = "resend" /\ pc'[c] \in {"sent", "release"}
          /\ \A d \in Requests \ {c} : pc'[d] = pc[d]
      BY <1>9 DEF Resend, Write, Goto, Kept, pyvars, TypeOK
    <3> QED
      BY <3>1 DEF HolderStep, Inside
  <2>2. SerialPipe(c)'
    <3>1. CASE ~Gone(proc) /\ Goto(c, "resend", "sent") /\ Write(c)
      <4>1. /\ pc'[c] = "sent" /\ proc' = proc /\ proc # None /\ alive[proc] /\ me' = me
            /\ inq'[proc] = Append(inq[proc], c) /\ work' = work /\ out' = out
            /\ ~me[c].tend /\ ~me[c].respawned
        BY <1>9, <3>1 DEF Resend, Goto, TypeOK, SerialPipe, Write, Gone, pyvars
      <4>2. Pure(proc) => Answers(proc, c)'
        BY <4>1 DEF Pure, Answers
      <4>3. Blocked(proc) => Blocked(proc)'
        BY <4>1 DEF Blocked
      <4> QED
        BY <3>1, <4>1, <4>2, <4>3 DEF SerialPipe, Goto, Gone
    <3>2. CASE Gone(proc) /\ Goto(c, "resend", "release") /\ Kept /\ UNCHANGED me
      BY <1>9, <3>2 DEF Resend, SerialPipe, Gone, Goto, TypeOK, Kept, pyvars
    <3> QED
      BY <1>9, <3>1, <3>2 DEF Resend, Write
  <2> QED
    BY <2>1, <2>2, HolderKeeps
<1>10. CASE BindProc(c)
  <2>1. HolderStep(c) /\ me'[c].got = me[c].got
    BY <1>10 DEF HolderStep, Inside, TypeOK, Locals, BindProc, Goto, Kept, pyvars
  <2>2. SerialPipe(c)'
    BY <1>10, SamePipes DEF SerialPipe, TypeOK, Locals, BindProc, Goto, Kept, pyvars,
       engvars, Gone
  <2> QED
    BY <2>1, <2>2, HolderKeeps
<1>11. CASE Loop(c)
  <2>1. HolderStep(c) /\ me'[c].got = me[c].got
    BY <1>11 DEF HolderStep, Inside, TypeOK, Locals, Loop, Goto, Kept, pyvars
  <2>2. SerialPipe(c)'
    BY <1>11, SamePipes DEF SerialPipe, TypeOK, Locals, Loop, Goto, Kept, pyvars, engvars, Gone
  <2> QED
    BY <2>1, <2>2, HolderKeeps
<1>12. CASE ReadFrame(c)
  <2>0. /\ pc[c] = "read" /\ proc \in Procs /\ me[c].proc = proc /\ proc' = proc
        /\ out[proc] \in Seq(Token) /\ out[proc] # <<>> /\ Head(out[proc]) = out[proc][1]
        /\ 1 \in DOMAIN out[proc] /\ UNCHANGED <<inq, work, alive, owner, lock, epoch>>
        /\ \A d \in Requests \ {c} : pc'[d] = pc[d]
    <3>1. pc[c] = "read" /\ proc # None /\ me[c].proc = proc /\ out[proc] # <<>>
      BY <1>12 DEF ReadFrame, Goto, SerialPipe
    <3>2. out[proc] \in Seq(Token)
      BY <3>1 DEF TypeOK
    <3>3. Head(out[proc]) = out[proc][1] /\ 1 \in DOMAIN out[proc]
      BY <3>1, <3>2, Pipe
    <3>4. proc' = proc /\ UNCHANGED <<inq, work, alive, owner, lock, epoch>>
      BY <1>12 DEF ReadFrame, Pop
    <3>5. \A d \in Requests \ {c} : pc'[d] = pc[d]
      BY <1>12 DEF ReadFrame, Goto, TypeOK
    <3> QED
      BY <3>1, <3>2, <3>3, <3>4, <3>5
  <2>3. Answers(proc, c) /\ Head(out[proc]).kind = "frame"
    BY <1>12, <2>0 DEF ReadFrame, SerialPipe, Blocked
  <2>4. /\ pc'[c] = "yield" /\ stale' = FALSE /\ out'[proc] = Tail(out[proc])
        /\ me'[c].got = out[proc][1].req /\ me'[c].proc = me[c].proc
        /\ me'[c].tend = me[c].tend /\ me'[c].respawned = me[c].respawned
        /\ me'[c].lock = me[c].lock /\ me'[c].epoch = me[c].epoch
        /\ \A d \in Requests \ {c} : me'[d] = me[d]
    BY <1>12, <2>0 DEF ReadFrame, Pop, Goto, TypeOK, Locals
  <2>1. HolderStep(c) /\ me'[c].got = c
    BY <2>0, <2>3, <2>4 DEF HolderStep, Inside, Answers
  <2>2. SerialPipe(c)'
    <3>1. Answers(proc, c)'
      <4>1. Len(out'[proc]) = Len(out[proc]) - 1
            /\ \A i \in DOMAIN out'[proc] : i + 1 \in DOMAIN out[proc] /\ out'[proc][i] = out[proc][i + 1]
        BY <2>0, <2>4
      <4>2. inq[proc] = <<>>
        BY <2>0, <2>3 DEF Answers
      <4> QED
        BY <2>0, <2>3, <4>1, <4>2 DEF Answers
    <3> QED
      BY <2>0, <2>4, <3>1 DEF SerialPipe
  <2> QED
    BY <2>1, <2>2, HolderKeeps
<1>13. CASE ReadEnd(c)
  <2>0. /\ pc[c] = "read" /\ proc \in Procs /\ me[c].proc = proc /\ proc' = proc
        /\ out[proc] \in Seq(Token) /\ out[proc] # <<>> /\ Head(out[proc]) = out[proc][1]
        /\ 1 \in DOMAIN out[proc] /\ UNCHANGED <<inq, work, alive, owner, lock, epoch>>
        /\ \A d \in Requests \ {c} : pc'[d] = pc[d]
    <3>1. pc[c] = "read" /\ proc # None /\ me[c].proc = proc /\ out[proc] # <<>>
      BY <1>13 DEF ReadEnd, Goto, SerialPipe
    <3>2. out[proc] \in Seq(Token)
      BY <3>1 DEF TypeOK
    <3>3. Head(out[proc]) = out[proc][1] /\ 1 \in DOMAIN out[proc]
      BY <3>1, <3>2, Pipe
    <3>4. proc' = proc /\ UNCHANGED <<inq, work, alive, owner, lock, epoch>>
      BY <1>13 DEF ReadEnd, Pop
    <3>5. \A d \in Requests \ {c} : pc'[d] = pc[d]
      BY <1>13 DEF ReadEnd, Goto, TypeOK
    <3> QED
      BY <3>1, <3>2, <3>3, <3>4, <3>5
  <2>3. Answers(proc, c) /\ out[proc][1].kind = "end"
    BY <1>13, <2>0 DEF ReadEnd, SerialPipe, Blocked
  <2>4. /\ pc'[c] = "cleanup" /\ stale' = stale /\ out'[proc] = Tail(out[proc])
        /\ me'[c].got = out[proc][1].req
        /\ me'[c].lock = me[c].lock /\ me'[c].epoch = me[c].epoch
        /\ \A d \in Requests \ {c} : me'[d] = me[d]
    BY <1>13, <2>0 DEF ReadEnd, Pop, Goto, TypeOK, Locals
  <2>1. HolderStep(c) /\ me'[c].got = c
    BY <2>0, <2>3, <2>4 DEF HolderStep, Inside, Answers
  <2>2. SerialPipe(c)'
    <3>1. Len(out[proc]) = 1 /\ work[proc] = None /\ inq[proc] = <<>>
      BY <2>0, <2>3 DEF Answers
    <3>2. Pure(proc)' /\ Answers(proc, c)'
      <4>1. out'[proc] = <<>>
        BY <2>0, <2>4, <3>1, Pipe
      <4> QED
        BY <2>0, <3>1, <4>1 DEF Pure, Answers
    <3> QED
      BY <2>0, <2>4, <3>2 DEF SerialPipe
  <2> QED
    BY <2>1, <2>2, HolderKeeps
<1>14. CASE ReadGarbage(c)
  <2>1. HolderStep(c) /\ me'[c].got = me[c].got
    BY <1>14 DEF HolderStep, Inside, TypeOK, Locals, ReadGarbage, RespawnThen, Goto, Kept,
       pyvars
  <2>2. SerialPipe(c)'
    BY <1>14, SamePipes DEF SerialPipe, TypeOK, Locals, ReadGarbage, RespawnThen, Goto,
       Kept, pyvars, engvars, Gone
  <2> QED
    BY <2>1, <2>2, HolderKeeps
<1>15. CASE ReadEof(c)
  <2>1. HolderStep(c) /\ me'[c].got = me[c].got
    BY <1>15 DEF HolderStep, Inside, TypeOK, Locals, ReadEof, Goto, Kept, pyvars
  <2>2. SerialPipe(c)'
    BY <1>15, SamePipes DEF SerialPipe, TypeOK, Locals, ReadEof, Goto, Kept, pyvars,
       engvars, Gone
  <2> QED
    BY <2>1, <2>2, HolderKeeps
<1>16. CASE Eof(c)
  <2>1. HolderStep(c) /\ me'[c].got = me[c].got
    BY <1>16 DEF HolderStep, Inside, TypeOK, Locals, Eof, RespawnThen, Goto, Kept, pyvars
  <2>2. SerialPipe(c)'
    BY <1>16, SamePipes DEF SerialPipe, TypeOK, Locals, Eof, RespawnThen, Goto, Kept,
       pyvars, engvars, Gone
  <2> QED
    BY <2>1, <2>2, HolderKeeps
<1>17. CASE Cleanup(c)
  <2>1. HolderStep(c) /\ me'[c].got = me[c].got
    BY <1>17 DEF HolderStep, Inside, TypeOK, Locals, Cleanup, Goto, Kept, pyvars
  <2>2. SerialPipe(c)'
    BY <1>17, SamePipes DEF SerialPipe, TypeOK, Locals, Cleanup, Goto, Kept, pyvars,
       engvars, Gone
  <2> QED
    BY <2>1, <2>2, HolderKeeps
<1>18. CASE Drain(c)
  <2>1. HolderStep(c) /\ me'[c].got = me[c].got
    BY <1>18 DEF HolderStep, Inside, TypeOK, Locals, Drain, Goto, Kept, pyvars
  <2>2. SerialPipe(c)'
    BY <1>18, SamePipes DEF SerialPipe, TypeOK, Locals, Drain, Goto, Kept, pyvars, engvars, Gone
  <2> QED
    BY <2>1, <2>2, HolderKeeps
<1>19. CASE DrainTimeout(c)
  <2>1. HolderStep(c) /\ me'[c].got = me[c].got
    BY <1>19 DEF HolderStep, Inside, TypeOK, Locals, DrainTimeout, RespawnThen, Goto, Kept,
       pyvars
  <2>2. SerialPipe(c)'
    BY <1>19, SamePipes DEF SerialPipe, TypeOK, Locals, DrainTimeout, RespawnThen, Goto,
       Kept, pyvars, engvars, Gone
  <2> QED
    BY <2>1, <2>2, HolderKeeps
<1>20. CASE DrainRead(c)
  <2>0. /\ pc[c] = "drainread" /\ proc \in Procs /\ me[c].proc = proc /\ proc' = proc
        /\ out[proc] \in Seq(Token) /\ out[proc] # <<>> /\ Head(out[proc]) = out[proc][1]
        /\ 1 \in DOMAIN out[proc] /\ UNCHANGED <<inq, work, alive, owner, lock, epoch>>
        /\ \A d \in Requests \ {c} : pc'[d] = pc[d]
    <3>1. pc[c] = "drainread" /\ proc # None /\ me[c].proc = proc /\ out[proc] # <<>>
      BY <1>20 DEF DrainRead, Goto, SerialPipe
    <3>2. out[proc] \in Seq(Token)
      BY <3>1 DEF TypeOK
    <3>3. Head(out[proc]) = out[proc][1] /\ 1 \in DOMAIN out[proc]
      BY <3>1, <3>2, Pipe
    <3>4. proc' = proc /\ UNCHANGED <<inq, work, alive, owner, lock, epoch>>
      BY <1>20 DEF DrainRead, Pop
    <3>5. \A d \in Requests \ {c} : pc'[d] = pc[d]
      BY <1>20 DEF DrainRead, Goto, TypeOK
    <3> QED
      BY <3>1, <3>2, <3>3, <3>4, <3>5
  <2> DEFINE tok == out[proc][1]
             skipped == tok.kind = "frame" /\ tok.req \notin Fast
             ended == tok.kind = "end"
  <2>3. /\ Answers(proc, c) \/ Blocked(proc)
        /\ ~me[c].tend /\ ~me[c].respawned /\ me' = me /\ stale' = stale
        /\ pc'[c] = IF skipped THEN "drain" ELSE "release"
        /\ out'[proc] = IF skipped \/ ended THEN Tail(out[proc])
                        ELSE [out[proc] EXCEPT ![1].kind = "rest"]
        /\ lastClean' = (lastClean \/ ended)
    BY <1>20, <2>0 DEF DrainRead, SerialPipe, Goto, TypeOK
  <2>1. HolderStep(c) /\ me'[c].got = me[c].got
    BY <2>0, <2>3 DEF HolderStep, Inside
  <2>2. SerialPipe(c)'
    <3>1. CASE skipped
      <4>1. Answers(proc, c)
        BY <2>0, <2>3, <3>1 DEF Blocked
      <4>2. Len(out'[proc]) = Len(out[proc]) - 1
            /\ \A i \in DOMAIN out'[proc] : i + 1 \in DOMAIN out[proc] /\ out'[proc][i] = out[proc][i + 1]
        BY <2>0, <2>3, <3>1
      <4>3. inq[proc] = <<>>
        BY <2>0, <4>1 DEF Answers
      <4>4. Answers(proc, c)'
        BY <2>0, <4>1, <4>2, <4>3, SMTT(30) DEF Answers
      <4> QED
        BY <2>0, <2>3, <3>1, <4>4 DEF SerialPipe
    <3>2. CASE ended
      <4>1. Answers(proc, c)
        BY <2>0, <2>3, <3>2 DEF Blocked
      <4>2. Len(out[proc]) = 1 /\ work[proc] = None /\ inq[proc] = <<>>
        BY <2>0, <3>2, <4>1 DEF Answers
      <4>3. out'[proc] = <<>>
        BY <2>0, <2>3, <3>2, <4>2, Pipe
      <4>4. Pure(proc)'
        BY <2>0, <4>2, <4>3 DEF Pure
      <4> QED
        BY <2>0, <2>3, <3>2, <4>4 DEF SerialPipe
    <3>3. CASE ~skipped /\ ~ended
      <4>1. out'[proc] = [out[proc] EXCEPT ![1].kind = "rest"] /\ out'[proc] \in Seq(Token)
        BY <2>0, <2>3, <3>3 DEF TypeOK
      <4>2. out'[proc] # <<>> /\ Head(out'[proc]).kind = "rest"
        <5>1. out[proc][1] \in Token
          BY <2>0
        <5>2. 1 \in DOMAIN out'[proc] /\ out'[proc][1] = [out[proc][1] EXCEPT !.kind = "rest"]
          BY <2>0, <4>1
        <5>3. out'[proc][1].kind = "rest"
          BY <5>1, <5>2 DEF Token
        <5>4. out'[proc] # <<>>
          BY <5>2
        <5> QED
          BY <4>1, <5>3, <5>4, Pipe
      <4>3. Blocked(proc)'
        BY <2>0, <4>2 DEF Blocked
      <4> QED
        BY <2>0, <2>3, <3>3, <4>3 DEF SerialPipe
    <3> QED
      BY <3>1, <3>2, <3>3
  <2> QED
    BY <2>1, <2>2, HolderKeeps
<1>21. CASE DrainEof(c)
  <2>1. HolderStep(c) /\ me'[c].got = me[c].got
    BY <1>21 DEF HolderStep, Inside, TypeOK, Locals, DrainEof, Goto, Kept, pyvars
  <2>2. SerialPipe(c)'
    BY <1>21 DEF DrainEof, Closed, SerialPipe, Goto, Kept, TypeOK, pyvars
  <2> QED
    BY <2>1, <2>2, HolderKeeps
<1>22. CASE Resume(c)
  <2>1. HolderStep(c) /\ me'[c].got = me[c].got
    BY <1>22 DEF HolderStep, Inside, TypeOK, Locals, Resume, Goto, Kept, pyvars
  <2>2. SerialPipe(c)'
    BY <1>22, SamePipes DEF SerialPipe, TypeOK, Locals, Resume, Goto, Kept, pyvars, engvars,
       Gone
  <2> QED
    BY <2>1, <2>2, HolderKeeps
<1>23. CASE Close(c)
  <2>1. HolderStep(c) /\ me'[c].got = me[c].got
    BY <1>23 DEF HolderStep, Inside, TypeOK, Locals, Close, Goto, Kept, pyvars
  <2>2. SerialPipe(c)'
    BY <1>23, SamePipes DEF SerialPipe, TypeOK, Locals, Close, Goto, Kept, pyvars, engvars, Gone
  <2> QED
    BY <2>1, <2>2, HolderKeeps
<1> QED
  BY <1>1, <1>2, <1>3, <1>4, <1>5, <1>6, <1>7, <1>8, <1>9, <1>10, <1>11, <1>12, <1>13,
     <1>14, <1>15, <1>16, <1>17, <1>18, <1>19, <1>20, <1>21, <1>22, <1>23

\* The steps of a thread outside: it waits, takes the lock or gives it back
\* (c_engine.py 311-335, 504-505).
LEMMA LockSteps ==
  ASSUME ~MayStall, SerialInv, TypeOK', NEW c \in Requests,
         \/ Request(c) \/ Acquire(c) \/ AcquireTimeout(c) \/ EnterReclaim(c) \/ TryTakes(c)
         \/ TryWaits(c) \/ ReclaimKill(c) \/ ReclaimBump(c) \/ ReclaimTake(c) \/ Release(c)
  PROVE  SerialInv'
<1> USE StreamAssumption
<1>0. /\ TypeOK /\ SerialLock /\ SerialPipe(c) /\ me[c] \in Locals /\ me \in [Requests -> Locals]
      /\ lock = 0 /\ epoch = 0 /\ me[c].lock = 0 /\ me[c].epoch = 0
      /\ stale => pc[c] \in {"idle", "acquire", "bind"}
  BY DEF SerialInv, SerialLock, TypeOK
<1> USE <1>0
<1>1. ASSUME pc[c] \in {"idle", "acquire", "reclaim", "try"},
             pc'[c] \in {"acquire", "reclaim", "try"}, stale => pc'[c] = "acquire",
             UNCHANGED <<lock, owner, epoch, stale, lastClean, proc, alive, inq, work, out>>,
             \A d \in Requests \ {c} : pc'[d] = pc[d] /\ me'[d] = me[d],
             me'[c].lock = 0, me'[c].epoch = me[c].epoch, me'[c].tend = me[c].tend,
             me'[c].respawned = me[c].respawned, me'[c].got = me[c].got
      PROVE  SerialInv'
  <2>1. SerialLock'
    <3> SUFFICES ASSUME NEW d \in Requests
                 PROVE  /\ me'[d].lock = 0 /\ me'[d].epoch = 0
                        /\ pc'[d] \notin {"bump", "take"}
                        /\ pc'[d] \in Inside \cup {"bind", "release"} <=> owner'[0] = d
                        /\ stale' => pc'[d] \in {"idle", "acquire", "bind"}
      BY <1>1 DEF SerialLock
    <3>1. CASE d = c
      BY <1>1, <3>1 DEF SerialLock, Inside
    <3>2. CASE d # c
      BY <1>1, <3>2 DEF SerialLock
    <3> QED
      BY <3>1, <3>2
  <2>2. SerialPipe(c)'
    BY <1>1 DEF SerialPipe
  <2>3. ASSUME NEW d \in Requests \ {c} PROVE SerialPipe(d)'
    <3>1. SerialPipe(d) /\ pc'[d] = pc[d] /\ me'[d] = me[d]
      BY <1>1 DEF SerialInv
    <3> QED
      BY <1>1, <3>1, SamePipes DEF SerialPipe, Gone
  <2>4. SerialRest'
    BY <1>1, SamePipes DEF SerialInv, SerialRest
  <2>5. OwnFrames'
    BY <1>1 DEF SerialInv, OwnFrames
  <2> QED
    BY <2>1, <2>2, <2>3, <2>4, <2>5 DEF SerialInv
<1>2. ASSUME pc[c] \in {"acquire", "try"}, pc'[c] = "bind", owner[0] = None,
             owner' = [owner EXCEPT ![0] = c], stale => pc[c] = "acquire",
             UNCHANGED <<lock, epoch, stale, lastClean, proc, alive, inq, work, out, me>>,
             \A d \in Requests \ {c} : pc'[d] = pc[d]
      PROVE  SerialInv'
  <2>0. owner'[0] = c /\ c # None
    BY <1>2, Zero DEF TypeOK
  <2>1. SerialLock'
    <3> SUFFICES ASSUME NEW d \in Requests
                 PROVE  /\ me'[d].lock = 0 /\ me'[d].epoch = 0
                        /\ pc'[d] \notin {"bump", "take"}
                        /\ pc'[d] \in Inside \cup {"bind", "release"} <=> owner'[0] = d
                        /\ stale' => pc'[d] \in {"idle", "acquire", "bind"}
      BY <1>2 DEF SerialLock
    <3>1. CASE d = c
      BY <1>2, <2>0, <3>1 DEF SerialLock
    <3>2. CASE d # c
      BY <1>2, <2>0, <3>2 DEF SerialLock
    <3> QED
      BY <3>1, <3>2
  <2>2. SerialPipe(c)'
    BY <1>2, SamePipes DEF SerialInv, SerialRest, SerialPipe
  <2>3. ASSUME NEW d \in Requests \ {c} PROVE SerialPipe(d)'
    <3>1. SerialPipe(d) /\ pc'[d] = pc[d] /\ me'[d] = me[d]
      BY <1>2 DEF SerialInv
    <3>2. pc[d] \notin Inside \cup {"bind", "release"}
      BY <1>2 DEF SerialLock
    <3> QED
      BY <3>1, <3>2, OthersKeep
  <2>4. SerialRest' /\ OwnFrames'
    BY <1>2, <2>0 DEF SerialInv, SerialRest, OwnFrames
  <2> QED
    BY <2>1, <2>2, <2>3, <2>4 DEF SerialInv
<1>3. CASE Request(c)
  <2>1. pc[c] = "idle" /\ pc'[c] = "acquire" /\ \A d \in Requests \ {c} : pc'[d] = pc[d]
    BY <1>3, Went DEF Request
  <2>2. /\ me'[c].lock = 0 /\ me'[c].epoch = me[c].epoch /\ me'[c].tend = me[c].tend
        /\ me'[c].respawned = me[c].respawned /\ me'[c].got = me[c].got
        /\ \A d \in Requests \ {c} : me'[d] = me[d]
    BY <1>3 DEF Request, Locals
  <2>4. UNCHANGED <<lock, owner, epoch, stale, lastClean, proc, alive, inq, work, out>>
    BY <1>3 DEF Request, Kept, pyvars, engvars
  <2> QED
    BY <1>1, <2>1, <2>2, <2>4
<1>4. CASE Acquire(c)
  <2>1. pc[c] = "acquire" /\ pc'[c] = "bind" /\ \A d \in Requests \ {c} : pc'[d] = pc[d]
    BY <1>4, Went DEF Acquire
  <2>2. /\ owner[0] = None /\ owner' = [owner EXCEPT ![0] = c]
        /\ UNCHANGED <<lock, epoch, stale, lastClean, proc, alive, inq, work, out, me>>
    BY <1>4 DEF Acquire, Kept, engvars
  <2> QED
    BY <1>2, <2>1, <2>2
<1>5. CASE AcquireTimeout(c)
  <2>1. pc[c] = "acquire" /\ pc'[c] = "reclaim" /\ \A d \in Requests \ {c} : pc'[d] = pc[d]
    BY <1>5, Went DEF AcquireTimeout
  <2>2. /\ me'[c].lock = 0 /\ me'[c].epoch = me[c].epoch /\ me'[c].tend = me[c].tend
        /\ me'[c].respawned = me[c].respawned /\ me'[c].got = me[c].got
        /\ \A d \in Requests \ {c} : me'[d] = me[d]
    BY <1>5 DEF AcquireTimeout
  <2>3. ~stale
    <3>1. owner[0] # None /\ pc[owner[0]] # "bind" /\ owner[0] \in Requests
      BY <1>5, Zero DEF AcquireTimeout, TypeOK
    <3>2. pc[owner[0]] \in Inside \cup {"bind", "release"}
      BY <3>1 DEF SerialLock
    <3> QED
      BY <3>1, <3>2 DEF SerialLock, Inside
  <2>4. UNCHANGED <<lock, owner, epoch, stale, lastClean, proc, alive, inq, work, out>>
    BY <1>5 DEF AcquireTimeout, Kept, pyvars, engvars
  <2> QED
    BY <1>1, <2>1, <2>2, <2>3, <2>4
<1>6. CASE EnterReclaim(c)
  <2>1. pc[c] = "reclaim" /\ pc'[c] = "try" /\ \A d \in Requests \ {c} : pc'[d] = pc[d]
    BY <1>6, Went DEF EnterReclaim
  <2>2. /\ me'[c].lock = 0 /\ me'[c].epoch = me[c].epoch /\ me'[c].tend = me[c].tend
        /\ me'[c].respawned = me[c].respawned /\ me'[c].got = me[c].got
        /\ \A d \in Requests \ {c} : me'[d] = me[d]
    BY <1>6 DEF EnterReclaim
  <2>4. UNCHANGED <<lock, owner, epoch, stale, lastClean, proc, alive, inq, work, out>>
    BY <1>6 DEF EnterReclaim, Kept, pyvars, engvars
  <2> QED
    BY <1>1, <2>1, <2>2, <2>4
<1>7. CASE TryTakes(c)
  <2>1. pc[c] = "try" /\ pc'[c] = "bind" /\ \A d \in Requests \ {c} : pc'[d] = pc[d]
    BY <1>7, Went DEF TryTakes
  <2>2. /\ owner[0] = None /\ owner' = [owner EXCEPT ![0] = c]
        /\ UNCHANGED <<lock, epoch, stale, lastClean, proc, alive, inq, work, out, me>>
    BY <1>7 DEF TryTakes, Kept, engvars
  <2> QED
    BY <1>2, <2>1, <2>2
<1>8. CASE TryWaits(c)
  <2>1. pc[c] = "try" /\ pc'[c] = "acquire" /\ \A d \in Requests \ {c} : pc'[d] = pc[d]
    BY <1>8, Went DEF TryWaits
  <2>2. /\ me'[c].lock = 0 /\ me'[c].epoch = me[c].epoch /\ me'[c].tend = me[c].tend
        /\ me'[c].respawned = me[c].respawned /\ me'[c].got = me[c].got
        /\ \A d \in Requests \ {c} : me'[d] = me[d]
    BY <1>8 DEF TryWaits, Locals
  <2>4. UNCHANGED <<lock, owner, epoch, stale, lastClean, proc, alive, inq, work, out>>
    BY <1>8 DEF TryWaits, Kept, pyvars, engvars
  <2> QED
    BY <1>1, <2>1, <2>2, <2>4
<1>9. CASE ReclaimKill(c)
  BY <1>9 DEF ReclaimKill, Goto
<1>10. CASE ReclaimBump(c) \/ ReclaimTake(c)
  BY <1>10 DEF ReclaimBump, ReclaimTake, Goto, SerialLock
<1>11. CASE Release(c)
  <2>0. /\ pc[c] = "release" /\ pc'[c] = "done" /\ owner[0] = c /\ owner'[0] = None /\ c # None
        /\ UNCHANGED <<lock, epoch, stale, lastClean, proc, alive, inq, work, out>>
        /\ \A d \in Requests \ {c} : pc'[d] = pc[d] /\ me'[d] = me[d]
    BY <1>11, Zero DEF Release, Goto, TypeOK, SerialLock, Kept, engvars
  <2>1. me'[c].lock = 0 /\ me'[c].epoch = 0 /\ me'[c].got = me[c].got
    BY <1>11, <1>0 DEF Release, Locals
  <2>2. \A d \in Requests \ {c} : pc[d] \notin Inside \cup {"bind", "release"}
    BY <2>0 DEF SerialLock
  <2>3. SerialLock'
    <3> SUFFICES ASSUME NEW d \in Requests
                 PROVE  /\ me'[d].lock = 0 /\ me'[d].epoch = 0
                        /\ pc'[d] \notin {"bump", "take"}
                        /\ pc'[d] \in Inside \cup {"bind", "release"} <=> owner'[0] = d
                        /\ stale' => pc'[d] \in {"idle", "acquire", "bind"}
      BY <2>0 DEF SerialLock
    <3>1. CASE d = c
      BY <2>0, <2>1, <3>1 DEF Inside
    <3>2. CASE d # c
      BY <2>0, <2>2, <3>2 DEF SerialLock
    <3> QED
      BY <3>1, <3>2
  <2>4. SerialPipe(c)'
    BY <2>0 DEF SerialPipe
  <2>5. ASSUME NEW d \in Requests \ {c} PROVE SerialPipe(d)'
    BY <2>0, <2>2, OthersKeep DEF SerialInv
  <2>6. SerialRest'
    BY <2>0, SamePipes DEF SerialRest, SerialPipe
  <2>7. OwnFrames'
    BY <2>0, <2>1 DEF SerialInv, OwnFrames
  <2> QED
    BY <2>3, <2>4, <2>5, <2>6, <2>7 DEF SerialInv
<1> QED
  BY <1>3, <1>4, <1>5, <1>6, <1>7, <1>8, <1>9, <1>10, <1>11

\* Every step keeps it (c_engine.py 300-550).
LEMMA NextSerial ==
  ASSUME ~MayStall, SerialInv, [Next]_vars
  PROVE  SerialInv'
<1>1. TypeOK'
  <2>1. Bound
    BY DEF SerialInv, SerialLock, SerialPipe, Bound
  <2>2. \A c \in Requests : pc[c] # "bump"
    BY DEF SerialInv, SerialLock
  <2>3. TypeOK
    BY DEF SerialInv
  <2> QED
    BY <2>1, <2>2, <2>3, TypeOKNext
<1>2. CASE UNCHANGED vars
  <2>1. UNCHANGED <<pyvars, pc, me, alive, inq, work, out>>
    BY <1>2 DEF vars, pyvars
  <2>2. UNCHANGED <<proc, inq, work, out>>
    BY <2>1 DEF pyvars
  <2> QED
    BY <1>1, <2>1, <2>2, SamePipes, EngineKeeps
<1>3. ASSUME NEW p \in Procs, Engine(p) \/ EngineDie(p) PROVE SerialInv'
  BY <1>1, <1>3, EngineSteps
<1>4. ASSUME NEW c \in Requests, Request(c) \/ Step(c) \/ Resume(c) \/ Close(c) PROVE SerialInv'
  BY <1>1, <1>4, LockSteps, HolderSteps DEF Step
<1> QED
  BY <1>2, <1>3, <1>4 DEF Next, Stall

-----------------------------------------------------------------------------
(* The pipe a request is written to.                                       *)

\* With all requests traced no reader leaves the rest of a frame (c_engine.py 525-548).
LEMMA NoRestsNext ==
  ASSUME TypeOK, Bound, Fast = {}, NoRests, [Next]_vars
  PROVE  NoRests'
<1> SUFFICES ASSUME NEW q \in Procs, NEW i \in DOMAIN out'[q] PROVE out'[q][i].kind # "rest"
  BY DEF NoRests
<1>0. /\ out \in [Procs -> Seq(Token)] /\ me \in [Requests -> Locals]
      /\ \A p \in Procs : \A k \in DOMAIN out[p] : out[p][k].kind # "rest"
  BY DEF TypeOK, NoRests
<1>1. CASE out' = out
  BY <1>0, <1>1
<1>2. ASSUME NEW p \in Procs, NEW r, NEW k, k # "rest",
             out' = [out EXCEPT ![p] = Append(@, [req |-> r, kind |-> k])]
      PROVE  out'[q][i].kind # "rest"
  <2>1. CASE q = p
    <3>1. out'[q] = Append(out[q], [req |-> r, kind |-> k]) /\ out[q] \in Seq(Token)
      BY <1>0, <1>2, <2>1
    <3>2. \/ i \in DOMAIN out[q] /\ out'[q][i] = out[q][i]
          \/ out'[q][i] = [req |-> r, kind |-> k]
      BY <3>1
    <3> QED
      BY <1>0, <1>2, <3>2
  <2>2. CASE q # p
    BY <1>0, <1>2, <2>2
  <2> QED
    BY <2>1, <2>2
<1>3. ASSUME NEW p \in Procs, out[p] # <<>>, out' = [out EXCEPT ![p] = Tail(@)]
      PROVE  out'[q][i].kind # "rest"
  <2>1. CASE q = p
    <3>1. out'[q] = Tail(out[q]) /\ out[q] \in Seq(Token) /\ out[q] # <<>>
      BY <1>0, <1>3, <2>1
    <3>2. i + 1 \in DOMAIN out[q] /\ out'[q][i] = out[q][i + 1]
      BY <3>1
    <3> QED
      BY <1>0, <3>2
  <2>2. CASE q # p
    BY <1>0, <1>3, <2>2
  <2> QED
    BY <2>1, <2>2
<1>4. ASSUME NEW p \in Procs, out' = [out EXCEPT ![p] = <<>>]
      PROVE  out'[q][i].kind # "rest"
  <2>1. CASE q = p
    BY <1>0, <1>4, <2>1
  <2>2. CASE q # p
    BY <1>0, <1>4, <2>2
  <2> QED
    BY <2>1, <2>2
<1>5. ASSUME NEW c \in Requests, pc[c] \in {"read", "drainread"} PROVE me[c].proc \in Procs
  <2>1. me[c].proc \in Procs \cup {None}
    BY <1>0 DEF Locals
  <2> QED
    BY <1>5, <2>1 DEF Bound
<1>6. ASSUME NEW p \in Procs, Engine(p) \/ EngineDie(p) PROVE out'[q][i].kind # "rest"
  <2>1. CASE EngineTake(p) \/ EngineDie(p)
    BY <1>1, <2>1 DEF EngineTake, EngineDie, engvars
  <2>2. CASE EngineFrame(p)
    <3>1. out' = [out EXCEPT ![p] = Append(@, [req |-> work[p], kind |-> "frame"])]
      BY <2>2 DEF EngineFrame
    <3>2. "frame" # "rest"
      OBVIOUS
    <3> QED
      BY <1>2, <3>1, <3>2
  <2>3. CASE EngineEnd(p)
    <3>1. out' = [out EXCEPT ![p] = Append(@, [req |-> work[p], kind |-> "end"])]
      BY <2>3 DEF EngineEnd
    <3>2. "end" # "rest"
      OBVIOUS
    <3> QED
      BY <1>2, <3>1, <3>2
  <2> QED
    BY <1>6, <2>1, <2>2, <2>3 DEF Engine
<1>7. ASSUME NEW c \in Requests, ReadFrame(c) \/ ReadEnd(c)
      PROVE  out'[q][i].kind # "rest"
  <2>1. /\ me[c].proc \in Procs /\ out[me[c].proc] # <<>>
        /\ out' = [out EXCEPT ![me[c].proc] = Tail(@)]
    BY <1>5, <1>7 DEF ReadFrame, ReadEnd, Pop, Goto
  <2> QED
    BY <1>3, <2>1
<1>8. ASSUME NEW c \in Requests, DrainRead(c) PROVE out'[q][i].kind # "rest"
  <2>1. me[c].proc \in Procs /\ out[me[c].proc] # <<>>
    BY <1>5, <1>8 DEF DrainRead
  <2>2. Head(out[me[c].proc]) \in Token /\ Head(out[me[c].proc]).kind # "rest"
    <3>1. out[me[c].proc] \in Seq(Token)
      BY <1>0, <2>1
    <3>2. /\ Head(out[me[c].proc]) \in Token /\ Head(out[me[c].proc]) = out[me[c].proc][1]
          /\ 1 \in DOMAIN out[me[c].proc]
      BY <2>1, <3>1, Pipe
    <3> QED
      BY <1>0, <2>1, <3>2
  <2>3. Head(out[me[c].proc]).kind \in {"frame", "end"}
    BY <2>2 DEF Token
  <2>4. out' = [out EXCEPT ![me[c].proc] = Tail(@)]
    BY <1>8, <2>3 DEF DrainRead
  <2> QED
    BY <1>3, <2>1, <2>4
<1>9. ASSUME NEW c \in Requests, Spawn(c) PROVE out'[q][i].kind # "rest"
  BY <1>4, <1>9 DEF Spawn
<1>10. ASSUME NEW c \in Requests, Request(c) \/ Step(c) \/ Resume(c) \/ Close(c),
              ~ReadFrame(c), ~ReadEnd(c), ~DrainRead(c), ~Spawn(c)
       PROVE  out' = out
  BY <1>10 DEF Step, Request, Acquire, AcquireTimeout, EnterReclaim, TryTakes, TryWaits,
    ReclaimKill, ReclaimBump, ReclaimTake, Bind, EnsureAlive, CheckClean, Kill, Ready,
    BootFails, Send, Resend, Write, BindProc, Loop, ReadGarbage, ReadEof, Eof, Cleanup,
    Drain, DrainTimeout, DrainEof, Release, Resume, Close, Kept, engvars
<1>11. CASE Stall \/ UNCHANGED vars
  BY <1>1, <1>11 DEF Stall, Kept, engvars, vars
<1> QED
  BY <1>1, <1>6, <1>7, <1>8, <1>9, <1>10, <1>11 DEF Next

-----------------------------------------------------------------------------
(* Reclaims.                                                               *)

\* What a step of thread c may do to what ReclaimInv speaks of.
Moved(c) ==
  /\ \A d \in Requests \ {c} : pc'[d] = pc[d] /\ me'[d] = me[d]
  /\ pc'[c] \in {"idle", "acquire", "reclaim", "try", "bump"} =>
       pc[c] \in {"idle", "acquire", "reclaim", "try", "bump"}
  /\ pc'[c] \in {"try", "bump", "take"} <=> reclaimer' = c
  /\ reclaimer' = reclaimer \/ {reclaimer, reclaimer'} = {c, None}
  /\ \/ epoch' = epoch
     \/ pc[c] = "bump" /\ pc'[c] = "take" /\ epoch' = epoch + 1
  /\ pc[c] = "take" => proc' = None
  /\ \/ proc' = None
     \/ proc' = proc /\ \A p \in Procs : alive'[p] => alive[p]
     \/ pc'[c] = "booting" /\ \A d \in Requests : me[d].proc # proc'
  /\ pc'[c] = "read" => me'[c].epoch = epoch'
  /\ pc'[c] \in {"booting", "read", "drainread"} => me'[c].proc # None
  /\ pc'[c] \in {"kill", "spawn", "booting"} =>
       me'[c].next \in {"clean", "send", "resend", "cleanup", "release"}

\* Every step of a thread is such a step (c_engine.py 229-255, 300-550).
LEMMA ThreadMoves ==
  ASSUME TypeOK, Bound, OneReclaims, NEW c \in Requests,
         Request(c) \/ Step(c) \/ Resume(c) \/ Close(c)
  PROVE  Moved(c)
<1>0. /\ me \in [Requests -> Locals] /\ pc \in [Requests -> Pcs] /\ c # None
      /\ proc \in Procs \cup {None} /\ alive \in [Procs -> BOOLEAN]
      /\ (pc[c] \in {"try", "bump", "take"} <=> reclaimer = c)
      /\ pc[c] \in {"booting", "read", "drainread"} => me[c].proc # None
      /\ pc[c] \in {"kill", "spawn", "booting"} =>
           me[c].next \in {"clean", "send", "resend", "cleanup", "release"}
      /\ None \notin Procs
  BY StreamAssumption DEF TypeOK, OneReclaims, Bound, Procs
<1>1. ASSUME Request(c) PROVE Moved(c)
  BY <1>0, <1>1 DEF Moved, Request, Goto, Kept, pyvars, engvars, Locals
<1>2. ASSUME Acquire(c) PROVE Moved(c)
  BY <1>0, <1>2 DEF Moved, Acquire, Goto, Kept, pyvars, engvars, Locals
<1>3. ASSUME AcquireTimeout(c) PROVE Moved(c)
  BY <1>0, <1>3 DEF Moved, AcquireTimeout, Goto, Kept, pyvars, engvars, Locals
<1>4. ASSUME EnterReclaim(c) PROVE Moved(c)
  BY <1>0, <1>4 DEF Moved, EnterReclaim, Goto, Kept, pyvars, engvars, Locals
<1>5. ASSUME TryTakes(c) PROVE Moved(c)
  BY <1>0, <1>5 DEF Moved, TryTakes, Goto, Kept, pyvars, engvars, Locals
<1>6. ASSUME TryWaits(c) PROVE Moved(c)
  BY <1>0, <1>6 DEF Moved, TryWaits, Goto, Kept, pyvars, engvars, Locals
<1>7. ASSUME ReclaimKill(c) PROVE Moved(c)
  BY <1>0, <1>7 DEF Moved, ReclaimKill, Killed, Goto, Kept, pyvars, engvars, Locals
<1>8. ASSUME ReclaimBump(c) PROVE Moved(c)
  BY <1>0, <1>8 DEF Moved, ReclaimBump, Goto, Kept, pyvars, engvars, Locals
<1>9. ASSUME ReclaimTake(c) PROVE Moved(c)
  BY <1>0, <1>9 DEF Moved, ReclaimTake, Goto, Kept, pyvars, engvars, Locals
<1>10. ASSUME Bind(c) PROVE Moved(c)
  BY <1>0, <1>10 DEF Moved, Bind, Goto, Kept, pyvars, engvars, Locals
<1>11. ASSUME EnsureAlive(c) PROVE Moved(c)
  BY <1>0, <1>11 DEF Moved, EnsureAlive, SpawnThen, Goto, Kept, pyvars, engvars, Locals
<1>12. ASSUME CheckClean(c) PROVE Moved(c)
  BY <1>0, <1>12 DEF Moved, CheckClean, RespawnThen, Goto, Kept, pyvars, engvars, Locals
<1>13. ASSUME Kill(c) PROVE Moved(c)
  BY <1>0, <1>13 DEF Moved, Kill, Killed, Goto, Kept, pyvars, engvars, Locals
<1>14. ASSUME Spawn(c) PROVE Moved(c)
  BY <1>0, <1>14 DEF Moved, Spawn, Goto, Kept, pyvars, engvars, Locals
<1>15. ASSUME Ready(c) PROVE Moved(c)
  BY <1>0, <1>15 DEF Moved, Ready, Goto, Kept, pyvars, engvars, Locals
<1>16. ASSUME BootFails(c) PROVE Moved(c)
  BY <1>0, <1>16 DEF Moved, BootFails, Killed, Goto, Kept, pyvars, engvars, Locals
<1>17. ASSUME Send(c) PROVE Moved(c)
  BY <1>0, <1>17 DEF Moved, Send, SpawnThen, Write, Goto, Kept, pyvars, engvars, Locals
<1>18. ASSUME Resend(c) PROVE Moved(c)
  BY <1>0, <1>18 DEF Moved, Resend, Write, Goto, Kept, pyvars, engvars, Locals
<1>19. ASSUME BindProc(c) PROVE Moved(c)
  BY <1>0, <1>19 DEF Moved, BindProc, Goto, Kept, pyvars, engvars, Locals
<1>20. ASSUME Loop(c) PROVE Moved(c)
  BY <1>0, <1>20 DEF Moved, Loop, Goto, Kept, pyvars, engvars, Locals
<1>21. ASSUME ReadFrame(c) PROVE Moved(c)
  BY <1>0, <1>21 DEF Moved, ReadFrame, Pop, Goto, Kept, pyvars, engvars, Locals
<1>22. ASSUME ReadEnd(c) PROVE Moved(c)
  BY <1>0, <1>22 DEF Moved, ReadEnd, Pop, Goto, Kept, pyvars, engvars, Locals
<1>23. ASSUME ReadGarbage(c) PROVE Moved(c)
  BY <1>0, <1>23 DEF Moved, ReadGarbage, RespawnThen, Goto, Kept, pyvars, engvars, Locals
<1>24. ASSUME ReadEof(c) PROVE Moved(c)
  BY <1>0, <1>24 DEF Moved, ReadEof, Goto, Kept, pyvars, engvars, Locals
<1>25. ASSUME Eof(c) PROVE Moved(c)
  BY <1>0, <1>25 DEF Moved, Eof, RespawnThen, Goto, Kept, pyvars, engvars, Locals
<1>26. ASSUME Cleanup(c) PROVE Moved(c)
  BY <1>0, <1>26 DEF Moved, Cleanup, Goto, Kept, pyvars, engvars, Locals
<1>27. ASSUME Drain(c) PROVE Moved(c)
  BY <1>0, <1>27 DEF Moved, Drain, Goto, Kept, pyvars, engvars, Locals
<1>28. ASSUME DrainTimeout(c) PROVE Moved(c)
  BY <1>0, <1>28 DEF Moved, DrainTimeout, RespawnThen, Goto, Kept, pyvars, engvars, Locals
<1>29. ASSUME DrainRead(c) PROVE Moved(c)
  BY <1>0, <1>29 DEF Moved, DrainRead, Goto, Kept, pyvars, engvars, Locals
<1>30. ASSUME DrainEof(c) PROVE Moved(c)
  BY <1>0, <1>30 DEF Moved, DrainEof, Goto, Kept, pyvars, engvars, Locals
<1>31. ASSUME Release(c) PROVE Moved(c)
  BY <1>0, <1>31 DEF Moved, Release, Goto, Kept, pyvars, engvars, Locals
<1>32. ASSUME Resume(c) PROVE Moved(c)
  BY <1>0, <1>32 DEF Moved, Resume, Goto, Kept, pyvars, engvars, Locals
<1>33. ASSUME Close(c) PROVE Moved(c)
  BY <1>0, <1>33 DEF Moved, Close, Goto, Kept, pyvars, engvars, Locals
<1> QED
  BY <1>1, <1>2, <1>3, <1>4, <1>5, <1>6, <1>7, <1>8, <1>9, <1>10, <1>11, <1>12, <1>13,
     <1>14, <1>15, <1>16, <1>17, <1>18, <1>19, <1>20, <1>21, <1>22, <1>23, <1>24, <1>25,
     <1>26, <1>27, <1>28, <1>29, <1>30, <1>31, <1>32, <1>33 DEF Step

\* The engine's own steps and a lull of 30 s concern none of it (main.c 444-827).
LEMMA OthersQuiet ==
  ASSUME TypeOK, (\E p \in Procs : Engine(p) \/ EngineDie(p)) \/ Stall \/ UNCHANGED vars
  PROVE  /\ UNCHANGED <<pc, me, epoch, reclaimer, proc>>
         /\ \A p \in Procs : alive'[p] => alive[p]
<1>1. CASE Stall \/ UNCHANGED vars
  BY <1>1 DEF Stall, Kept, vars
<1>2. ASSUME NEW p \in Procs, Engine(p) PROVE UNCHANGED <<pc, me, epoch, reclaimer, proc, alive>>
  BY <1>2 DEF Engine, EngineTake, EngineFrame, EngineEnd, pyvars
<1>3. ASSUME NEW p \in Procs, EngineDie(p)
      PROVE  /\ UNCHANGED <<pc, me, epoch, reclaimer, proc>>
             /\ \A q \in Procs : alive'[q] => alive[q]
  BY <1>3 DEF EngineDie, pyvars, TypeOK
<1> QED
  BY <1>1, <1>2, <1>3

\* No step leaves a thread that reads without a process, or one that spawns without an aim.
LEMMA BoundNext ==
  ASSUME Bound, NEW c \in Requests, Moved(c)
  PROVE  Bound'
<1> SUFFICES ASSUME NEW d \in Requests
             PROVE  /\ pc'[d] \in {"booting", "read", "drainread"} => me'[d].proc # None
                    /\ pc'[d] \in {"kill", "spawn", "booting"} =>
                         me'[d].next \in {"clean", "send", "resend", "cleanup", "release"}
  BY DEF Bound
<1>1. CASE d = c
  BY <1>1 DEF Moved
<1>2. CASE d # c
  BY <1>2 DEF Moved, Bound
<1> QED
  BY <1>1, <1>2

\* One thread at a time is on its way to a reclaim: _reclaim_lock is not given back before
\* and nobody else takes it (c_engine.py 313-330).
LEMMA OneReclaimsNext ==
  ASSUME OneReclaims, NEW c \in Requests, Moved(c)
  PROVE  OneReclaims'
<1> SUFFICES ASSUME NEW d \in Requests
             PROVE  pc'[d] \in {"try", "bump", "take"} <=> reclaimer' = d
  BY DEF OneReclaims
<1>1. CASE d = c
  BY <1>1 DEF Moved
<1>2. CASE d # c
  <2>1. pc'[d] = pc[d] /\ (pc[d] \in {"try", "bump", "take"} <=> reclaimer = d)
    BY <1>2 DEF Moved, OneReclaims
  <2>2. reclaimer' = d <=> reclaimer = d
    BY <1>2, StreamAssumption DEF Moved
  <2> QED
    BY <2>1, <2>2
<1> QED
  BY <1>1, <1>2

\* An epoch is spent by a thread that will spend no other (c_engine.py 326).
LEMMA EpochsNext ==
  ASSUME EpochsLeft, epoch \in Nat, NEW c \in Requests, Moved(c)
  PROVE  EpochsLeft'
<1> DEFINE N == Cardinality(Requests)
<1>1. MayReclaim' \subseteq MayReclaim
  BY DEF Moved, MayReclaim
<1>2. IsFiniteSet(MayReclaim) /\ IsFiniteSet(Requests)
  BY StreamAssumption, FS_Subset DEF MayReclaim
<1>3. /\ Cardinality(MayReclaim) \in Nat /\ Cardinality(MayReclaim') \in Nat /\ N \in Nat
      /\ Cardinality(MayReclaim') <= Cardinality(MayReclaim)
  BY <1>1, <1>2, FS_Subset, FS_CardinalityType
<1>4. CASE epoch' = epoch
  BY <1>3, <1>4 DEF EpochsLeft
<1>5. CASE pc[c] = "bump" /\ pc'[c] = "take" /\ epoch' = epoch + 1
  <2>1. c \in MayReclaim /\ c \notin MayReclaim'
    BY <1>5 DEF MayReclaim
  <2>2. /\ IsFiniteSet(MayReclaim \ {c})
        /\ Cardinality(MayReclaim \ {c}) = Cardinality(MayReclaim) - 1
    BY <1>2, <2>1, FS_RemoveElement
  <2>3. MayReclaim' \subseteq MayReclaim \ {c}
    BY <1>1, <2>1
  <2>4. Cardinality(MayReclaim') <= Cardinality(MayReclaim \ {c})
    BY <2>2, <2>3, FS_Subset
  <2> QED
    BY <1>3, <1>5, <2>2, <2>4 DEF EpochsLeft
<1> QED
  BY <1>4, <1>5 DEF Moved

\* What a thread of an old epoch reads is not self.proc, once the reclaimer has dropped that:
\* what self.proc becomes is None or a process that no thread has (c_engine.py 229-255, 329, 507-517).
LEMMA ReadersNext ==
  ASSUME TypeOK, TypeOK', Bound, NeverReadsSuccessor, NEW c \in Requests, Moved(c)
  PROVE  NeverReadsSuccessor'
<1> SUFFICES ASSUME \A d \in Requests : pc'[d] # "take",
                    NEW e \in Requests, pc'[e] = "read", me'[e].epoch # epoch',
                    me'[e].proc = proc', alive'[proc']
             PROVE  FALSE
  BY DEF NeverReadsSuccessor, Dropped, StaleReads
<1>1. e # c
  BY DEF Moved
<1>2. pc[e] = "read" /\ me[e] = me'[e]
  BY <1>1 DEF Moved
<1>3. epoch' = epoch
  BY DEF Moved
<1>4. me[e].proc # None
  BY <1>2 DEF Bound
<1>5. proc' # None
  BY <1>2, <1>4
<1>6. \A d \in Requests : pc[d] # "take"
  BY <1>5 DEF Moved
<1>7. proc' = proc /\ \A p \in Procs : alive'[p] => alive[p]
  BY <1>2, <1>5 DEF Moved
<1>8. proc \in Procs
  BY <1>5, <1>7 DEF TypeOK
<1> QED
  BY <1>2, <1>3, <1>6, <1>7, <1>8 DEF NeverReadsSuccessor, Dropped, StaleReads

\* A step of thread c that leaves the process, its output and the mark alone is c's affair
\* (c_engine.py 300-505).
LEMMA MarksKept ==
  ASSUME MarkedInv, UNCHANGED <<lastClean, proc, out>>, NEW c \in Requests, Marked(c)',
         \A d \in Requests \ {c} : pc'[d] = pc[d] /\ me'[d] = me[d]
  PROVE  MarkedInv'
<1>1. \A p : Blocked(p)' <=> Blocked(p)
  BY DEF Blocked
<1> SUFFICES ASSUME NEW d \in Requests, d # c PROVE Marked(d)'
  BY <1>1 DEF MarkedInv
<1>2. Marked(d) /\ pc'[d] = pc[d] /\ me'[d] = me[d]
  BY DEF MarkedInv
<1> QED
  BY <1>1, <1>2 DEF Marked

\* A step of the thread inside is its affair too: the others are outside (c_engine.py 311-335).
LEMMA MarksInside ==
  ASSUME SerialInv', NEW c \in Requests, pc'[c] \in Inside \cup {"release"}, Marked(c)',
         proc' # None /\ Blocked(proc)' => ~lastClean'
  PROVE  MarkedInv'
<1> SUFFICES ASSUME NEW d \in Requests, d # c PROVE Marked(d)'
  BY DEF MarkedInv
<1>1. owner'[0] = c
  BY DEF SerialInv, SerialLock
<1>2. pc'[d] \notin Inside
  BY <1>1 DEF SerialInv, SerialLock
<1> QED
  BY <1>2 DEF Marked, Inside

\* What the engine adds is no rest of a frame (main.c 444-827).
LEMMA MarksEngine ==
  ASSUME TypeOK, MarkedInv, NEW p \in Procs, Engine(p) \/ EngineDie(p)
  PROVE  MarkedInv'
<1>1. UNCHANGED <<pc, me, lastClean, proc>>
  BY DEF Engine, EngineTake, EngineFrame, EngineEnd, EngineDie, pyvars
<1>2. \A q \in Procs : Blocked(q)' => Blocked(q)
  <2> SUFFICES ASSUME NEW q \in Procs, Blocked(q)' PROVE Blocked(q)
    OBVIOUS
  <2>1. CASE out' = out
    BY <2>1 DEF Blocked
  <2>2. ASSUME NEW k \in {"frame", "end"},
               out' = [out EXCEPT ![p] = Append(@, [req |-> work[p], kind |-> k])]
        PROVE  Blocked(q)
    <3>1. out[p] \in Seq(Token) /\ out \in [Procs -> Seq(Token)]
      BY DEF TypeOK
    <3>2. CASE q = p /\ out[q] = <<>>
      <4>1. Head(out'[q]) = [req |-> work[p], kind |-> k]
        BY <2>2, <3>1, <3>2
      <4> QED
        BY <4>1 DEF Blocked
    <3>3. CASE q = p /\ out[q] # <<>>
      <4>1. Head(out'[q]) = Head(out[q])
        BY <2>2, <3>1, <3>3
      <4> QED
        BY <3>3, <4>1 DEF Blocked
    <3>4. CASE q # p
      BY <2>2, <3>1, <3>4 DEF Blocked
    <3> QED
      BY <3>2, <3>3, <3>4
  <2>3. CASE EngineTake(p) \/ EngineDie(p)
    BY <2>1, <2>3 DEF EngineTake, EngineDie, engvars
  <2>4. CASE EngineFrame(p)
    BY <2>2, <2>4 DEF EngineFrame
  <2>5. CASE EngineEnd(p)
    BY <2>2, <2>5 DEF EngineEnd
  <2> QED
    BY <2>3, <2>4, <2>5 DEF Engine
<1>3. proc \in Procs \cup {None}
  BY DEF TypeOK
<1> QED
  BY <1>1, <1>2, <1>3 DEF MarkedInv, Marked

\* As long as no write is retried the mark is false when it has to be (c_engine.py 340-341,
\* 373-379, 413-415, 495-498, 525-548).
LEMMA MarkedNext ==
  ASSUME ReclaimInv, SerialInv, SerialInv', MarkedInv, NEW c \in Requests,
         Request(c) \/ Step(c) \/ Resume(c) \/ Close(c),
         \A d \in Requests : me[d].next # "resend" /\ me'[d].next # "resend"
  PROVE  MarkedInv'
<1>0. /\ me \in [Requests -> Locals] /\ pc \in [Requests -> Pcs] /\ Marked(c)
      /\ me[c].next # "resend" /\ me'[c].next # "resend"
      /\ (proc # None /\ Blocked(proc) => ~lastClean)
  BY DEF SerialInv, TypeOK, MarkedInv
<1>a. \A d \in Requests \ {c} : pc'[d] = pc[d] /\ me'[d] = me[d]
  BY ThreadMoves DEF ReclaimInv, Moved
<1> DEFINE Calm == UNCHANGED <<lastClean, proc, out>> /\ Marked(c)'
<1>1. ASSUME Request(c) PROVE Calm
  BY <1>0, <1>1 DEF Marked, Request, Goto, Kept, pyvars, engvars, Locals
<1>2. ASSUME Acquire(c) PROVE Calm
  BY <1>0, <1>2 DEF Marked, Acquire, Goto, Kept, pyvars, engvars, Locals
<1>3. ASSUME AcquireTimeout(c) PROVE Calm
  BY <1>0, <1>3 DEF Marked, AcquireTimeout, Goto, Kept, pyvars, engvars, Locals
<1>4. ASSUME EnterReclaim(c) PROVE Calm
  BY <1>0, <1>4 DEF Marked, EnterReclaim, Goto, Kept, pyvars, engvars, Locals
<1>5. ASSUME TryTakes(c) PROVE Calm
  BY <1>0, <1>5 DEF Marked, TryTakes, Goto, Kept, pyvars, engvars, Locals
<1>6. ASSUME TryWaits(c) PROVE Calm
  BY <1>0, <1>6 DEF Marked, TryWaits, Goto, Kept, pyvars, engvars, Locals
<1>7. ASSUME Bind(c) PROVE Calm
  BY <1>0, <1>7 DEF Marked, Bind, Goto, Kept, pyvars, engvars, Locals
<1>8. ASSUME EnsureAlive(c) PROVE Calm
  BY <1>0, <1>8 DEF Marked, EnsureAlive, SpawnThen, Goto, Kept, pyvars, engvars, Locals
<1>9. ASSUME CheckClean(c) PROVE Calm
  <2>1. UNCHANGED <<lastClean, proc, out>>
    BY <1>9 DEF CheckClean, Kept, pyvars, engvars
  <2>2. CASE lastClean
    <3>1. pc'[c] = "send" /\ (proc # None => ~Blocked(proc))
      BY <1>0, <1>9, <2>2 DEF CheckClean, Goto
    <3> QED
      BY <2>1, <3>1 DEF Marked, Blocked
  <2>3. CASE ~lastClean
    <3>1. pc'[c] = "kill" /\ me'[c].next = "send"
      BY <1>0, <1>9, <2>3 DEF CheckClean, RespawnThen, Goto, Locals
    <3> QED
      BY <2>1, <3>1 DEF Marked
  <2> QED
    BY <2>2, <2>3
<1>10. ASSUME BootFails(c) PROVE Calm
  BY <1>0, <1>10 DEF Marked, BootFails, Goto, Kept, pyvars, engvars, Locals
<1>11. ASSUME BindProc(c) PROVE Calm
  BY <1>0, <1>11 DEF Marked, BindProc, Goto, Kept, pyvars, engvars, Locals
<1>12. ASSUME Loop(c) PROVE Calm
  BY <1>0, <1>12 DEF Marked, Loop, Goto, Kept, pyvars, engvars, Locals
<1>13. ASSUME ReadGarbage(c) PROVE Calm
  BY <1>0, <1>13 DEF Marked, ReadGarbage, RespawnThen, Goto, Kept, pyvars, engvars, Locals
<1>14. ASSUME ReadEof(c) PROVE Calm
  BY <1>0, <1>14 DEF Marked, ReadEof, Goto, Kept, pyvars, engvars, Locals
<1>15. ASSUME Eof(c) PROVE Calm
  BY <1>0, <1>15 DEF Marked, Eof, RespawnThen, Goto, Kept, pyvars, engvars, Locals
<1>16. ASSUME Cleanup(c) PROVE Calm
  BY <1>0, <1>16 DEF Marked, Cleanup, Goto, Kept, pyvars, engvars, Locals
<1>17. ASSUME Drain(c) PROVE Calm
  BY <1>0, <1>17 DEF Marked, Drain, Goto, Kept, pyvars, engvars, Locals
<1>18. ASSUME DrainTimeout(c) PROVE Calm
  BY <1>0, <1>18 DEF Marked, DrainTimeout, RespawnThen, Goto, Kept, pyvars, engvars, Locals
<1>19. ASSUME DrainEof(c) PROVE Calm
  BY <1>0, <1>19 DEF Marked, DrainEof, Goto, Kept, pyvars, engvars, Locals
<1>20. ASSUME Release(c) PROVE Calm
  BY <1>0, <1>20 DEF Marked, Release, Goto, Kept, pyvars, engvars, Locals
<1>21. ASSUME Resume(c) PROVE Calm
  BY <1>0, <1>21 DEF Marked, Resume, Goto, Kept, pyvars, engvars, Locals
<1>22. ASSUME Close(c) PROVE Calm
  BY <1>0, <1>22 DEF Marked, Close, Goto, Kept, pyvars, engvars, Locals
<1>b. Calm => MarkedInv'
  BY <1>a, MarksKept
<1>30. ASSUME Kill(c) PROVE MarkedInv'
  <2>1. pc'[c] = "spawn" /\ pc[c] = "kill" /\ proc' = None /\ UNCHANGED <<lastClean, me>>
    BY <1>0, <1>30 DEF Kill, Goto
  <2>2. Marked(c)'
    BY <1>0, <2>1 DEF Marked
  <2> QED
    BY <2>1, <2>2, MarksInside DEF Inside
<1>31. ASSUME Spawn(c) PROVE MarkedInv'
  <2>1. /\ pc'[c] = "booting" /\ pc[c] = "spawn" /\ lastClean' = lastClean
        /\ out'[proc'] = <<>> /\ me'[c].next = me[c].next
    BY <1>0, <1>31 DEF Spawn, Goto, Locals, SerialInv, TypeOK
  <2>2. Marked(c)' /\ ~Blocked(proc)'
    BY <1>0, <2>1 DEF Marked, Blocked
  <2> QED
    BY <2>1, <2>2, MarksInside DEF Inside
<1>32. ASSUME Ready(c) PROVE MarkedInv'
  <2>1. /\ pc[c] = "booting" /\ pc'[c] = me[c].next /\ UNCHANGED <<proc, out>>
        /\ me'[c].respawned = (me[c].next = "cleanup")
    BY <1>0, <1>32 DEF Ready, Goto, Kept, engvars, Locals
  <2>2. Pure(proc) /\ me[c].next \in {"clean", "send", "resend", "cleanup", "release"}
    BY <2>1 DEF SerialInv, SerialPipe
  <2>3. ~Blocked(proc)'
    BY <2>1, <2>2 DEF Pure, Blocked
  <2>4. pc'[c] \in {"clean", "send", "cleanup", "release"}
    BY <1>0, <2>1, <2>2
  <2>5. pc'[c] = "cleanup" => me'[c].respawned
    BY <2>1
  <2>6. Marked(c)'
    BY <2>3, <2>4, <2>5 DEF Marked
  <2> QED
    BY <2>3, <2>4, <2>6, MarksInside DEF Inside
<1>33. ASSUME Send(c) PROVE MarkedInv'
  <2>1. lastClean' = FALSE /\ pc'[c] \in {"sent", "release", "spawn"}
    BY <1>0, <1>33 DEF Send, Goto, SpawnThen
  <2>2. Marked(c)'
    BY <2>1 DEF Marked
  <2> QED
    BY <2>1, <2>2, MarksInside DEF Inside
<1>34. ASSUME Resend(c) PROVE MarkedInv'
  BY <1>0, <1>34 DEF Resend, Goto, Marked
<1>35. ASSUME ReadFrame(c) PROVE MarkedInv'
  <2>1. pc'[c] = "yield" /\ pc[c] = "read" /\ lastClean' = lastClean
    BY <1>0, <1>35 DEF ReadFrame, Goto
  <2>2. Marked(c)' /\ ~lastClean'
    BY <1>0, <2>1 DEF Marked
  <2> QED
    BY <2>1, <2>2, MarksInside DEF Inside
<1>36. ASSUME ReadEnd(c) PROVE MarkedInv'
  <2>1. pc'[c] = "cleanup" /\ me'[c].tend
    BY <1>0, <1>36 DEF ReadEnd, Goto, Locals
  <2>2. proc' # None => Pure(proc)'
    BY <2>1 DEF SerialInv, SerialPipe
  <2>3. Marked(c)' /\ (proc' # None => ~Blocked(proc)')
    BY <2>1, <2>2 DEF Marked, Pure, Blocked
  <2> QED
    BY <2>1, <2>3, MarksInside DEF Inside
<1>37. ASSUME DrainRead(c) PROVE MarkedInv'
  <2>0. /\ pc[c] = "drainread" /\ pc'[c] \in {"drain", "release"} /\ ~lastClean
        /\ out[proc] # <<>> /\ me[c].proc = proc /\ proc # None /\ proc' = proc
        /\ (Answers(proc, c) \/ Blocked(proc))
    <3>1. pc[c] = "drainread" /\ pc'[c] \in {"drain", "release"} /\ proc' = proc
      BY <1>0, <1>37 DEF DrainRead, Goto
    <3>2. /\ me[c].proc = proc /\ proc # None
          /\ (Answers(proc, c) \/ Blocked(proc))
      BY <3>1 DEF SerialInv, SerialPipe
    <3> QED
      BY <1>0, <1>37, <3>1, <3>2 DEF DrainRead, Marked
  <2>1. CASE Head(out[proc]).kind = "end"
    <3>1. out[proc] \in Seq(Token) /\ out[proc] # <<>> /\ Answers(proc, c)
      BY <2>0, <2>1 DEF SerialInv, TypeOK, Blocked
    <3>2. 1 \in DOMAIN out[proc] /\ out[proc][1].kind = "end"
      BY <2>1, <3>1, Pipe
    <3>3. Len(out[proc]) = 1
      BY <3>1, <3>2 DEF Answers
    <3>4. Tail(out[proc]) = <<>>
      BY <3>1, <3>3, Pipe
    <3>5. out'[proc] = <<>> /\ pc'[c] = "release"
      BY <1>0, <1>37, <2>0, <2>1, <3>4 DEF DrainRead, Goto, SerialInv, TypeOK
    <3>6. Marked(c)' /\ ~Blocked(proc)'
      BY <2>0, <3>5 DEF Marked, Blocked
    <3> QED
      BY <2>0, <3>5, <3>6, MarksInside DEF Inside
  <2>2. CASE Head(out[proc]).kind # "end"
    <3>1. lastClean' = lastClean
      BY <1>37, <2>0, <2>2 DEF DrainRead, SerialInv, TypeOK
    <3>2. Marked(c)' /\ ~lastClean'
      BY <2>0, <3>1 DEF Marked
    <3> QED
      BY <2>0, <3>2, MarksInside DEF Inside
  <2> QED
    BY <2>1, <2>2
<1>38. ~ReclaimKill(c) /\ ~ReclaimBump(c) /\ ~ReclaimTake(c)
  BY DEF SerialInv, SerialLock, ReclaimKill, ReclaimBump, ReclaimTake, Goto
<1> QED
  BY <1>1, <1>2, <1>3, <1>4, <1>5, <1>6, <1>7, <1>8, <1>9, <1>10, <1>11, <1>12, <1>13,
     <1>14, <1>15, <1>16, <1>17, <1>18, <1>19, <1>20, <1>21, <1>22, <1>30, <1>31, <1>32,
     <1>33, <1>34, <1>35, <1>36, <1>37, <1>38, <1>b DEF Step

\* The initial state: nobody reclaims, every thread still may (c_engine.py 151-189).
LEMMA InitReclaim == Init => ReclaimInv
<1> SUFFICES ASSUME Init PROVE ReclaimInv
  OBVIOUS
<1>1. TypeOK
  BY InitSerial DEF SerialInv
<1>2. Bound /\ OneReclaims /\ NeverReadsSuccessor
  BY StreamAssumption DEF Init, Bound, OneReclaims, NeverReadsSuccessor, StaleReads
<1>3. MayReclaim = Requests /\ epoch = 0
  BY DEF Init, MayReclaim
<1>4. EpochsLeft
  BY <1>3, StreamAssumption, FS_CardinalityType DEF EpochsLeft
<1> QED
  BY <1>1, <1>2, <1>4 DEF ReclaimInv

\* Every step keeps what ReclaimInv says (c_engine.py 300-550).
LEMMA NextReclaim ==
  ASSUME ReclaimInv, [Next]_vars
  PROVE  ReclaimInv'
<1> USE DEF ReclaimInv
<1>1. epoch \in Nat
  BY DEF TypeOK, Locks
<1>2. TypeOK'
  <2>1. ASSUME NEW c \in Requests, pc[c] = "bump" PROVE epoch + 1 \in Locks
    <3>1. c \in MayReclaim /\ MayReclaim \subseteq Requests
      BY <2>1 DEF MayReclaim
    <3>2. IsFiniteSet(MayReclaim)
      BY <3>1, StreamAssumption, FS_Subset
    <3>3. /\ Cardinality(MayReclaim) \in Nat /\ Cardinality(MayReclaim) # 0
          /\ Cardinality(Requests) \in Nat
      BY <3>1, <3>2, StreamAssumption, FS_CardinalityType, FS_EmptySet
    <3> QED
      BY <1>1, <3>3 DEF EpochsLeft, Locks
  <2> QED
    BY <2>1, TypeOKNext
<1>3. CASE \/ \E p \in Procs : Engine(p) \/ EngineDie(p)
           \/ Stall \/ UNCHANGED vars
  <2>1. /\ UNCHANGED <<pc, me, epoch, reclaimer, proc>>
        /\ \A p \in Procs : alive'[p] => alive[p]
    BY <1>3, OthersQuiet
  <2>2. Bound' /\ OneReclaims' /\ EpochsLeft'
    BY <2>1 DEF Bound, OneReclaims, EpochsLeft, MayReclaim
  <2>3. NeverReadsSuccessor'
    <3>1. ASSUME NEW d \in Requests, pc[d] = "read", me[d].proc = proc PROVE proc \in Procs
      BY <3>1 DEF Bound, TypeOK
    <3> QED
      BY <2>1, <3>1 DEF NeverReadsSuccessor, Dropped, StaleReads
  <2> QED
    BY <1>2, <2>2, <2>3
<1>4. ASSUME NEW c \in Requests, Request(c) \/ Step(c) \/ Resume(c) \/ Close(c)
      PROVE  ReclaimInv'
  <2>1. Moved(c)
    BY <1>4, ThreadMoves
  <2> QED
    BY <1>1, <1>2, <2>1, BoundNext, OneReclaimsNext, EpochsNext, ReadersNext
<1> QED
  BY <1>3, <1>4 DEF Next

\* A step that takes, moves and gives back no lock, and binds none.
Aside(c) ==
  /\ UNCHANGED <<lock, epoch, owner>>
  /\ me'[c].lock = me[c].lock /\ me'[c].epoch = me[c].epoch
  /\ pc'[c] # "bind"
  /\ pc'[c] \in Inside \cup {"release"} => pc[c] \in Inside \cup {"release"}

\* Most steps of a thread are such steps (c_engine.py 311-320, 336-505).
LEMMA AsideSteps ==
  ASSUME TypeOK, Bound, NEW c \in Requests,
         \/ AcquireTimeout(c) \/ EnterReclaim(c) \/ ReclaimKill(c) \/ EnsureAlive(c)
         \/ CheckClean(c) \/ Kill(c) \/ Spawn(c) \/ Ready(c) \/ BootFails(c) \/ Send(c)
         \/ Resend(c) \/ BindProc(c) \/ Loop(c) \/ ReadFrame(c) \/ ReadEnd(c)
         \/ ReadGarbage(c) \/ ReadEof(c) \/ Eof(c) \/ Cleanup(c) \/ Drain(c) \/ DrainTimeout(c)
         \/ DrainRead(c) \/ DrainEof(c) \/ Resume(c) \/ Close(c)
  PROVE  Aside(c)
<1>0. /\ me \in [Requests -> Locals] /\ pc \in [Requests -> Pcs]
      /\ pc[c] \in {"kill", "spawn", "booting"} =>
           me[c].next \in {"clean", "send", "resend", "cleanup", "release"}
  BY DEF TypeOK, Bound
<1>1. ASSUME AcquireTimeout(c) PROVE Aside(c)
  BY <1>0, <1>1 DEF Aside, Inside, AcquireTimeout, Goto, Kept, pyvars, Locals
<1>2. ASSUME EnterReclaim(c) PROVE Aside(c)
  BY <1>0, <1>2 DEF Aside, Inside, EnterReclaim, Goto, Kept, pyvars, Locals
<1>3. ASSUME ReclaimKill(c) PROVE Aside(c)
  BY <1>0, <1>3 DEF Aside, Inside, ReclaimKill, Goto, Kept, pyvars, Locals
<1>4. ASSUME EnsureAlive(c) PROVE Aside(c)
  BY <1>0, <1>4 DEF Aside, Inside, EnsureAlive, SpawnThen, Goto, Kept, pyvars, Locals
<1>5. ASSUME CheckClean(c) PROVE Aside(c)
  BY <1>0, <1>5 DEF Aside, Inside, CheckClean, RespawnThen, Goto, Kept, pyvars, Locals
<1>6. ASSUME Kill(c) PROVE Aside(c)
  BY <1>0, <1>6 DEF Aside, Inside, Kill, Goto, Kept, pyvars, Locals
<1>7. ASSUME Spawn(c) PROVE Aside(c)
  BY <1>0, <1>7 DEF Aside, Inside, Spawn, Goto, Kept, pyvars, Locals
<1>8. ASSUME Ready(c) PROVE Aside(c)
  BY <1>0, <1>8 DEF Aside, Inside, Ready, Goto, Kept, pyvars, Locals
<1>9. ASSUME BootFails(c) PROVE Aside(c)
  BY <1>0, <1>9 DEF Aside, Inside, BootFails, Goto, Kept, pyvars, Locals
<1>10. ASSUME Send(c) PROVE Aside(c)
  BY <1>0, <1>10 DEF Aside, Inside, Send, SpawnThen, Write, Goto, Kept, pyvars, Locals
<1>11. ASSUME Resend(c) PROVE Aside(c)
  BY <1>0, <1>11 DEF Aside, Inside, Resend, Write, Goto, Kept, pyvars, Locals
<1>12. ASSUME BindProc(c) PROVE Aside(c)
  BY <1>0, <1>12 DEF Aside, Inside, BindProc, Goto, Kept, pyvars, Locals
<1>13. ASSUME Loop(c) PROVE Aside(c)
  BY <1>0, <1>13 DEF Aside, Inside, Loop, Goto, Kept, pyvars, Locals
<1>14. ASSUME ReadFrame(c) PROVE Aside(c)
  BY <1>0, <1>14 DEF Aside, Inside, ReadFrame, Pop, Goto, Kept, pyvars, Locals
<1>15. ASSUME ReadEnd(c) PROVE Aside(c)
  BY <1>0, <1>15 DEF Aside, Inside, ReadEnd, Pop, Goto, Kept, pyvars, Locals
<1>16. ASSUME ReadGarbage(c) PROVE Aside(c)
  BY <1>0, <1>16 DEF Aside, Inside, ReadGarbage, RespawnThen, Goto, Kept, pyvars, Locals
<1>17. ASSUME ReadEof(c) PROVE Aside(c)
  BY <1>0, <1>17 DEF Aside, Inside, ReadEof, Goto, Kept, pyvars, Locals
<1>18. ASSUME Eof(c) PROVE Aside(c)
  BY <1>0, <1>18 DEF Aside, Inside, Eof, RespawnThen, Goto, Kept, pyvars, Locals
<1>19. ASSUME Cleanup(c) PROVE Aside(c)
  BY <1>0, <1>19 DEF Aside, Inside, Cleanup, Goto, Kept, pyvars, Locals
<1>20. ASSUME Drain(c) PROVE Aside(c)
  BY <1>0, <1>20 DEF Aside, Inside, Drain, Goto, Kept, pyvars, Locals
<1>21. ASSUME DrainTimeout(c) PROVE Aside(c)
  BY <1>0, <1>21 DEF Aside, Inside, DrainTimeout, RespawnThen, Goto, Kept, pyvars, Locals
<1>22. ASSUME DrainRead(c) PROVE Aside(c)
  BY <1>0, <1>22 DEF Aside, Inside, DrainRead, Goto, Kept, pyvars, Locals
<1>23. ASSUME DrainEof(c) PROVE Aside(c)
  BY <1>0, <1>23 DEF Aside, Inside, DrainEof, Goto, Kept, pyvars, Locals
<1>24. ASSUME Resume(c) PROVE Aside(c)
  BY <1>0, <1>24 DEF Aside, Inside, Resume, Goto, Kept, pyvars, Locals
<1>25. ASSUME Close(c) PROVE Aside(c)
  BY <1>0, <1>25 DEF Aside, Inside, Close, Goto, Kept, pyvars, Locals
<1> QED
  BY <1>1, <1>2, <1>3, <1>4, <1>5, <1>6, <1>7, <1>8, <1>9, <1>10, <1>11, <1>12, <1>13,
     <1>14, <1>15, <1>16, <1>17, <1>18, <1>19, <1>20, <1>21, <1>22, <1>23, <1>24, <1>25

\* Who is of the current epoch holds the current lock, whatever a thread does, as long as
\* the two races do not happen (c_engine.py 311-335, 504-505).
LEMMA GenerationNext ==
  ASSUME ReclaimInv, ReclaimInv', Orderly, GenerationInv, NEW c \in Requests,
         Request(c) \/ Step(c) \/ Resume(c) \/ Close(c)
  PROVE  GenerationInv'
<1>0. /\ TypeOK /\ TypeOK' /\ Bound /\ lock = epoch /\ epoch \in Locks /\ epoch' \in Locks
      /\ \A d \in Requests : me[d].lock \in Locks /\ me[d].epoch \in Locks
      /\ me \in [Requests -> Locals] /\ pc \in [Requests -> Pcs]
      /\ owner \in [Locks -> Requests \cup {None}] /\ c # None
  BY StreamAssumption DEF ReclaimInv, TypeOK, GenerationInv, Locals
<1>1. \A d \in Requests \ {c} : pc'[d] = pc[d] /\ me'[d] = me[d]
  BY ThreadMoves DEF ReclaimInv, Moved
<1>2. \A k \in Locks : k \in Nat
  BY DEF Locks
<1> DEFINE Own(d) ==
      /\ me[d].lock <= epoch /\ me[d].epoch <= epoch
      /\ pc[d] \in Inside \cup {"release"} => me[d].lock = me[d].epoch
      /\ pc[d] = "bind" \/ (pc[d] \in Inside \cup {"release"} /\ me[d].epoch = epoch)
           => owner[lock] = d
<1>3. /\ \A d \in Requests : Own(d)
      /\ \A l \in Locks : l > epoch => owner[l] = None
  BY DEF GenerationInv
<1>4. ASSUME Aside(c) PROVE GenerationInv'
  <2> SUFFICES ASSUME NEW d \in Requests PROVE Own(d)'
    BY <1>0, <1>3, <1>4 DEF GenerationInv, Aside
  <2>1. CASE d = c
    BY <1>3, <1>4, <2>1 DEF Aside
  <2>2. CASE d # c
    BY <1>1, <1>3, <1>4, <2>2 DEF Aside
  <2> QED
    BY <2>1, <2>2
<1>5. ASSUME Request(c) \/ TryWaits(c) PROVE GenerationInv'
  <2>1. /\ UNCHANGED <<lock, epoch, owner>> /\ pc'[c] = "acquire"
        /\ me'[c].lock = lock /\ me'[c].epoch = me[c].epoch
    BY <1>0, <1>5 DEF Request, TryWaits, Goto, pyvars, Locals
  <2> SUFFICES ASSUME NEW d \in Requests PROVE Own(d)'
    BY <1>0, <1>3, <2>1 DEF GenerationInv
  <2>2. CASE d = c
    <3>1. lock <= epoch
      BY <1>0, <1>2
    <3> QED
      BY <1>3, <2>1, <2>2, <3>1 DEF Inside
  <2>3. CASE d # c
    BY <1>1, <1>3, <2>1, <2>3
  <2> QED
    BY <2>2, <2>3
<1>6. ASSUME Acquire(c) \/ TryTakes(c) \/ ReclaimTake(c) PROVE GenerationInv'
  <2>1. /\ UNCHANGED <<lock, epoch, me>> /\ pc'[c] = "bind"
        /\ owner[lock] = None /\ owner' = [owner EXCEPT ![lock] = c]
    <3>1. CASE Acquire(c)
      <4>1. me[c].lock = lock
        BY <3>1 DEF Acquire, Goto, Orderly
      <4> QED
        BY <1>0, <3>1, <4>1 DEF Acquire, Goto
    <3>2. CASE TryTakes(c) \/ ReclaimTake(c)
      BY <1>0, <3>2 DEF TryTakes, ReclaimTake, Goto
    <3> QED
      BY <1>6, <3>1, <3>2
  <2>2. owner'[lock] = c /\ \A l \in Locks : l > epoch => owner'[l] = None
    BY <1>0, <1>2, <1>3, <2>1
  <2> SUFFICES ASSUME NEW d \in Requests PROVE Own(d)'
    BY <1>0, <2>1, <2>2 DEF GenerationInv
  <2>3. CASE d = c
    BY <1>3, <2>1, <2>2, <2>3 DEF Inside
  <2>4. CASE d # c
    <3>1. d # None
      BY StreamAssumption
    <3> QED
      BY <1>1, <1>3, <2>1, <2>4, <3>1
  <2> QED
    BY <2>3, <2>4
<1>7. ASSUME ReclaimBump(c) PROVE GenerationInv'
  <2>1. /\ epoch' = epoch + 1 /\ lock' = epoch + 1 /\ UNCHANGED <<owner, me>>
        /\ pc[c] = "bump" /\ pc'[c] = "take"
    BY <1>0, <1>7 DEF ReclaimBump, Goto
  <2>2. \A d \in Requests : me'[d].lock <= epoch' /\ me'[d].epoch < epoch'
    <3> SUFFICES ASSUME NEW d \in Requests PROVE me[d].lock <= epoch + 1 /\ me[d].epoch < epoch + 1
      BY <2>1
    <3>1. me[d].lock \in Nat /\ me[d].epoch \in Nat /\ epoch \in Nat
      BY <1>0, <1>2
    <3>2. me[d].lock <= epoch /\ me[d].epoch <= epoch
      BY <1>3
    <3> QED
      BY <3>1, <3>2
  <2>3. \A l \in Locks : l > epoch' => owner'[l] = None
    BY <1>0, <1>2, <1>3, <2>1
  <2>4. \A d \in Requests : pc'[d] # "bind"
    BY <1>1, <2>1 DEF Orderly
  <2> SUFFICES ASSUME NEW d \in Requests PROVE Own(d)'
    BY <2>1, <2>3 DEF GenerationInv
  <2>5. me'[d].epoch # epoch' /\ me'[d].epoch <= epoch' /\ me'[d].lock <= epoch'
    <3>1. me'[d].epoch \in Nat /\ epoch' \in Nat
      BY <1>0, <1>2, <2>1
    <3> QED
      BY <2>2, <3>1
  <2>6. pc'[d] \in Inside \cup {"release"} => pc[d] = pc'[d]
    BY <1>1, <2>1 DEF Inside
  <2> QED
    BY <1>3, <2>1, <2>4, <2>5, <2>6
<1>8. ASSUME Bind(c) PROVE GenerationInv'
  <2>1. /\ UNCHANGED <<lock, epoch, owner>> /\ pc[c] = "bind" /\ pc'[c] = "ensure"
        /\ me'[c].lock = lock /\ me'[c].epoch = epoch
    BY <1>0, <1>8 DEF Bind, Goto, Locals
  <2> SUFFICES ASSUME NEW d \in Requests PROVE Own(d)'
    BY <1>0, <1>3, <2>1 DEF GenerationInv
  <2>2. CASE d = c
    <3>1. lock <= epoch /\ epoch <= epoch
      BY <1>0, <1>2
    <3>2. owner[lock] = c
      BY <1>3, <2>1
    <3> QED
      BY <1>0, <2>1, <2>2, <3>1, <3>2
  <2>3. CASE d # c
    BY <1>1, <1>3, <2>1, <2>3
  <2> QED
    BY <2>2, <2>3
<1>9. ASSUME Release(c) PROVE GenerationInv'
  <2>1. /\ UNCHANGED <<lock, epoch>> /\ pc[c] = "release" /\ pc'[c] = "done"
        /\ owner' = [owner EXCEPT ![me[c].lock] = None]
        /\ me'[c].lock = me[c].lock /\ me'[c].epoch = me[c].epoch
    BY <1>0, <1>9 DEF Release, Goto, Locals
  <2>2. \A l \in Locks : l > epoch => owner'[l] = None
    BY <1>0, <1>3, <2>1
  <2> SUFFICES ASSUME NEW d \in Requests PROVE Own(d)'
    BY <1>0, <2>1, <2>2 DEF GenerationInv
  <2>3. CASE d = c
    BY <1>3, <2>1, <2>3 DEF Inside
  <2>4. CASE d # c
    <3>1. pc'[d] = pc[d] /\ me'[d] = me[d] /\ Own(d) /\ Own(c)
      BY <1>1, <1>3, <2>4
    <3>2. CASE me[c].lock = lock
      <4>1. owner[lock] = c
        BY <1>0, <2>1, <3>1, <3>2
      <4> QED
        BY <2>1, <2>4, <3>1, <4>1
    <3>3. CASE me[c].lock # lock
      <4>1. owner'[lock] = owner[lock]
        BY <1>0, <2>1, <3>3
      <4> QED
        BY <2>1, <3>1, <4>1
    <3> QED
      BY <3>2, <3>3
  <2> QED
    BY <2>3, <2>4
<1> QED
  BY <1>0, <1>4, <1>5, <1>6, <1>7, <1>8, <1>9, AsideSteps DEF Step

-----------------------------------------------------------------------------

\* While nobody is silent for 30 s, a request is only ever shown the engine's answer to
\* itself, however many requests and frames there are, wherever generators are closed and
\* whenever the engine dies (c_engine.py 300-550).
THEOREM SerialOwnFrames ==
  ASSUME ~MayStall
  PROVE  Spec => []OwnFrames
<1>1. SerialInv => OwnFrames
  BY DEF SerialInv
<1> QED
  BY <1>1, InitSerial, NextSerial, PTL DEF Spec

\* And a thread whose generation is current is alone in the driver (c_engine.py 311-335).
THEOREM SerialOneGeneration ==
  ASSUME ~MayStall
  PROVE  Spec => []StreamInv
<1>1. SerialInv => StreamInv
  BY DEF SerialInv, SerialLock, StreamInv, OneGeneration, Current
<1> QED
  BY <1>1, InitSerial, NextSerial, PTL DEF Spec

\* Whoever stalls, reclaims, dies or closes: the types, one thread at a time on its way to a
\* reclaim, and an epoch left for each that may yet reclaim (c_engine.py 311-330).
THEOREM ReclaimInvariance == Spec => []ReclaimInv
  BY InitReclaim, NextReclaim, PTL DEF Spec

\* So a thread that a reclaim has passed over does not read from the process that replaced
\* its own, once the reclaimer has dropped that one (c_engine.py 387-390, 397-420).
THEOREM ReclaimedReadNothing == Spec => []NeverReadsSuccessor
<1>1. ReclaimInv => NeverReadsSuccessor
  BY DEF ReclaimInv
<1> QED
  BY <1>1, ReclaimInvariance, PTL

\* With reclaims too a thread whose generation is current is alone in the driver, as long as
\* no waiter gets a lock object that was replaced, and no reclaim falls between a holder's
\* acquire and its reading of lock and epoch (c_engine.py 311-335).
THEOREM OrderlyOneGeneration == Spec /\ []Orderly => []StreamInv
<1> DEFINE I == ReclaimInv /\ GenerationInv
<1>1. Init => I
  <2> SUFFICES ASSUME Init PROVE GenerationInv
    BY InitReclaim
  <2> QED
    BY Zero DEF Init, GenerationInv, Inside
<1>2. I /\ Orderly /\ [Next]_vars => I'
  <2> SUFFICES ASSUME I, Orderly, [Next]_vars PROVE I'
    OBVIOUS
  <2>1. ReclaimInv'
    BY NextReclaim
  <2>2. CASE \/ \E p \in Procs : Engine(p) \/ EngineDie(p)
             \/ Stall \/ UNCHANGED vars
    <3>1. UNCHANGED <<pc, me, lock, epoch, owner>>
      BY <2>2 DEF Engine, EngineTake, EngineFrame, EngineEnd, EngineDie, Stall, Kept, pyvars, vars
    <3> QED
      BY <2>1, <3>1 DEF GenerationInv
  <2>3. ASSUME NEW c \in Requests, Request(c) \/ Step(c) \/ Resume(c) \/ Close(c)
        PROVE  GenerationInv'
    BY <2>1, <2>3, GenerationNext
  <2> QED
    BY <2>1, <2>2, <2>3 DEF Next
<1>3. I => StreamInv
  <2> SUFFICES ASSUME I, NEW c \in Requests, NEW d \in Requests, Current(c), Current(d)
               PROVE  c = d
    BY DEF StreamInv, OneGeneration, ReclaimInv
  <2> QED
    BY DEF Current, GenerationInv
<1> QED
  BY <1>1, <1>2, <1>3, PTL DEF Spec

\* And every request is written to an engine that has nothing left of an earlier one, as long
\* as all requests are traced or no write is retried: a retry marks the pipe clean while the
\* request is in flight (c_engine.py 294, 340-341, 373-385, 525-548).
THEOREM SerialCleanPipe ==
  ASSUME ~MayStall
  PROVE  Spec /\ []NoRetry => CleanPipe
<1> DEFINE I == ReclaimInv /\ SerialInv /\ (Fast = {} => NoRests) /\ (Fast # {} => MarkedInv)
<1>1. Init => I
  <2> SUFFICES ASSUME Init PROVE NoRests /\ MarkedInv
    BY InitSerial, InitReclaim
  <2>1. NoRests
    BY DEF Init, NoRests
  <2>2. MarkedInv
    BY Zero DEF Init, MarkedInv, Marked, Blocked
  <2> QED
    BY <2>1, <2>2
<1>2. I /\ NoRetry /\ NoRetry' /\ [Next]_vars => I'
  <2> SUFFICES ASSUME I, NoRetry, NoRetry', [Next]_vars PROVE I'
    OBVIOUS
  <2>1. ReclaimInv' /\ SerialInv'
    BY NextSerial, NextReclaim
  <2>2. CASE Fast = {}
    BY <2>1, <2>2, NoRestsNext DEF ReclaimInv
  <2>3. CASE Fast # {}
    <3>1. \A d \in Requests : me[d].next # "resend" /\ me'[d].next # "resend"
      BY <2>3 DEF NoRetry
    <3>2. CASE UNCHANGED vars
      BY <2>1, <2>3, <3>2 DEF vars, MarkedInv, Marked, Blocked
    <3>3. ASSUME NEW p \in Procs, Engine(p) \/ EngineDie(p) PROVE MarkedInv'
      BY <2>3, <3>3, MarksEngine DEF ReclaimInv
    <3>4. ASSUME NEW c \in Requests, Request(c) \/ Step(c) \/ Resume(c) \/ Close(c)
          PROVE  MarkedInv'
      BY <2>1, <2>3, <3>1, <3>4, MarkedNext
    <3> QED
      BY <2>1, <2>3, <3>2, <3>3, <3>4 DEF Next, Stall
  <2> QED
    BY <2>2, <2>3
<1>3. I /\ [Next]_vars
        => [\A p \in Procs : Len(inq'[p]) > Len(inq[p]) =>
              inq[p] = <<>> /\ work[p] = None /\ out[p] = <<>>]_vars
  <2> SUFFICES ASSUME I, Next, NEW p \in Procs, Len(inq'[p]) > Len(inq[p])
               PROVE  Pure(p)
    BY DEF Pure
  <2>1. inq[p] \in Seq(Requests) /\ inq \in [Procs -> Seq(Requests)]
    BY DEF SerialInv, TypeOK
  <2>2. PICK c \in Requests : Send(c) \/ Resend(c)
    <3>1. inq' # inq
      BY <2>1
    <3>2. ASSUME NEW q \in Procs, EngineTake(q) PROVE FALSE
      <4>1. CASE q = p
        <5>1. inq[p] # <<>> /\ inq'[p] = Tail(inq[p])
          BY <2>1, <3>2, <4>1 DEF EngineTake
        <5> QED
          BY <2>1, <5>1
      <4>2. CASE q # p
        BY <2>1, <3>2, <4>2 DEF EngineTake
      <4> QED
        BY <4>1, <4>2
    <3>3. ASSUME NEW d \in Requests, Spawn(d) PROVE FALSE
      <4>1. inq'[p] = <<>> \/ inq'[p] = inq[p]
        BY <2>1, <3>3 DEF Spawn
      <4> QED
        BY <2>1, <4>1
    <3>4. ASSUME NEW q \in Procs, Engine(q) \/ EngineDie(q) PROVE FALSE
      BY <3>1, <3>2, <3>4 DEF Engine, EngineFrame, EngineEnd, EngineDie, engvars
    <3>5. ~Stall
      BY <3>1 DEF Stall, Kept, engvars
    <3>6. ASSUME NEW d \in Requests, Request(d) \/ Step(d) \/ Resume(d) \/ Close(d),
                 ~Send(d), ~Resend(d)
          PROVE  FALSE
      BY <3>1, <3>3, <3>6 DEF Step, Request, Acquire, AcquireTimeout, EnterReclaim, TryTakes,
        TryWaits, ReclaimKill, ReclaimBump, ReclaimTake, Bind, EnsureAlive, CheckClean, Kill,
        Ready, BootFails, BindProc, Loop, ReadFrame, ReadEnd, Pop, ReadGarbage, ReadEof, Eof,
        Cleanup, Drain, DrainTimeout, DrainRead, DrainEof, Release, Resume, Close, Kept, engvars
    <3> QED
      BY <3>4, <3>5, <3>6 DEF Next
  <2>3. /\ pc[c] \in {"send", "resend"} /\ p = proc /\ ~Gone(proc) /\ proc # None
        /\ alive[proc]
    <3>1. inq' # inq
      BY <2>1
    <3>2. pc[c] \in {"send", "resend"} /\ Write(c)
      BY <2>2, <3>1 DEF Send, Resend, Kept, engvars, Goto
    <3>3. p = proc
      BY <2>1, <3>2 DEF Write
    <3> QED
      BY <3>2, <3>3 DEF Write, Gone
  <2>4. pc[c] = "send" => Pure(p) \/ Blocked(p)
    BY <2>3 DEF SerialInv, SerialPipe
  <2>5. pc[c] = "resend" => Pure(p)
    BY <2>3 DEF SerialInv, SerialPipe
  <2>6. pc[c] = "send" => ~Blocked(p)
    <3>1. CASE Fast = {}
      <4>1. out[p] \in Seq(Token)
        BY DEF SerialInv, TypeOK
      <4>2. out[p] # <<>> => Head(out[p]) = out[p][1] /\ 1 \in DOMAIN out[p]
        BY <4>1, Pipe
      <4> QED
        BY <3>1, <4>2 DEF NoRests, Blocked
    <3>2. CASE Fast # {}
      BY <2>3, <3>2 DEF MarkedInv, Marked
    <3> QED
      BY <3>1, <3>2
  <2> QED
    BY <2>3, <2>4, <2>5, <2>6
<1> QED
  BY <1>1, <1>2, <1>3, PTL DEF Spec, CleanPipe
=============================================================================
