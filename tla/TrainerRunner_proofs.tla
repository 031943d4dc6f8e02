------------------------- MODULE TrainerRunner_proofs -------------------------
(***************************************************************************)
(* TLAPS proofs about TrainerRunner, for any number of start() and stop()  *)
(* calls and restarts.  Two things no lock of the code ensures are the     *)
(* theorems' hypotheses: no start() takes the slot before what a stop()    *)
(* ended is through (StartsSettled), and the server does not end between   *)
(* Popen and the pid file (PidsWritten).  Without either, the runs exhibit *)
(* counterexamples.                                                        *)
(***************************************************************************)
EXTENDS TrainerRunner, TLAPS

USE RunnerAssumption DEF state, watch, stops

(* The initial states satisfy the invariant.                               *)
LEMMA InitIInv == Init => IInv
  BY DEF Init, IInv, TypeOK, Statuses, SlotInv, TraceInv, WatchInv, StopInv, Busy, InThread

(* A step of start(), of its thread or of its trainer preserves it.        *)
LEMMA RunPreserves ==
  ASSUME IInv, StartsSettled, PidsWritten, NEW r \in Runs,
         Claim(r) \/ Refuse(r) \/ Thread(r) \/ Exit(r)
  PROVE  IInv'
<1>1. CASE Claim(r)
  <2>1. TypeOK'
    BY <1>1 DEF IInv, Claim, Goto, RunOnly, Report, TypeOK, Statuses, TraceInv
  <2>2. SlotInv'
    BY <1>1 DEF IInv, Claim, Goto, RunOnly, Report, TypeOK, SlotInv, TraceInv, WatchInv, StopInv,
       Busy, InThread, StartsSettled, Settled
  <2>3. TraceInv'
    BY <1>1 DEF IInv, Claim, Goto, RunOnly, Report, TypeOK, SlotInv, TraceInv, WatchInv, StopInv,
       Busy, InThread, StartsSettled, Settled
  <2>4. WatchInv'
    BY <1>1 DEF IInv, Claim, Goto, RunOnly, Report, TypeOK, SlotInv, TraceInv, WatchInv, StopInv,
       Busy, InThread, StartsSettled, Settled
  <2>5. StopInv'
    BY <1>1 DEF IInv, Claim, Goto, RunOnly, Report, TypeOK, SlotInv, TraceInv, WatchInv, StopInv,
       Busy, InThread, StartsSettled, Settled
  <2>6. QED BY <2>1, <2>2, <2>3, <2>4, <2>5 DEF IInv
<1>2. CASE Refuse(r)
  <2>1. TypeOK'
    BY <1>2 DEF IInv, Refuse, Goto, RunOnly, TypeOK, Statuses, TraceInv
  <2>2. SlotInv'
    BY <1>2 DEF IInv, Refuse, Goto, RunOnly, TypeOK, SlotInv, TraceInv, WatchInv, StopInv,
       Busy, InThread
  <2>3. TraceInv'
    BY <1>2 DEF IInv, Refuse, Goto, RunOnly, TypeOK, SlotInv, TraceInv, WatchInv, StopInv,
       Busy, InThread
  <2>4. WatchInv'
    BY <1>2 DEF IInv, Refuse, Goto, RunOnly, TypeOK, SlotInv, TraceInv, WatchInv, StopInv,
       Busy, InThread
  <2>5. StopInv'
    BY <1>2 DEF IInv, Refuse, Goto, RunOnly, TypeOK, SlotInv, TraceInv, WatchInv, StopInv,
       Busy, InThread
  <2>6. QED BY <2>1, <2>2, <2>3, <2>4, <2>5 DEF IInv
<1>3. CASE NotFound(r)
  <2>1. TypeOK'
    BY <1>3 DEF IInv, NotFound, Goto, RunOnly, Report, TypeOK, Statuses, TraceInv
  <2>2. SlotInv'
    BY <1>3 DEF IInv, NotFound, Goto, RunOnly, Report, TypeOK, SlotInv, TraceInv, WatchInv, StopInv,
       Busy, InThread
  <2>3. TraceInv'
    BY <1>3 DEF IInv, NotFound, Goto, RunOnly, Report, TypeOK, SlotInv, TraceInv, WatchInv, StopInv,
       Busy, InThread
  <2>4. WatchInv'
    BY <1>3 DEF IInv, NotFound, Goto, RunOnly, Report, TypeOK, SlotInv, TraceInv, WatchInv, StopInv,
       Busy, InThread
  <2>5. StopInv'
    BY <1>3 DEF IInv, NotFound, Goto, RunOnly, Report, TypeOK, SlotInv, TraceInv, WatchInv, StopInv,
       Busy, InThread
  <2>6. QED BY <2>1, <2>2, <2>3, <2>4, <2>5 DEF IInv
<1>4. CASE Raise(r)
  <2>1. TypeOK'
    BY <1>4 DEF IInv, Raise, Goto, RunOnly, TypeOK, Statuses, TraceInv
  <2>2. SlotInv'
    BY <1>4 DEF IInv, Raise, Goto, RunOnly, TypeOK, SlotInv, TraceInv, WatchInv, StopInv,
       Busy, InThread
  <2>3. TraceInv'
    BY <1>4 DEF IInv, Raise, Goto, RunOnly, TypeOK, SlotInv, TraceInv, WatchInv, StopInv,
       Busy, InThread
  <2>4. WatchInv'
    BY <1>4 DEF IInv, Raise, Goto, RunOnly, TypeOK, SlotInv, TraceInv, WatchInv, StopInv,
       Busy, InThread
  <2>5. StopInv'
    BY <1>4 DEF IInv, Raise, Goto, RunOnly, TypeOK, SlotInv, TraceInv, WatchInv, StopInv,
       Busy, InThread
  <2>6. QED BY <2>1, <2>2, <2>3, <2>4, <2>5 DEF IInv
<1>5. CASE Launch(r)
  <2>1. TypeOK'
    BY <1>5 DEF IInv, Launch, Goto, RunOnly, TypeOK, Statuses, TraceInv
  <2>2. SlotInv'
    BY <1>5 DEF IInv, Launch, Goto, RunOnly, TypeOK, SlotInv, TraceInv, WatchInv, StopInv,
       Busy, InThread
  <2>3. TraceInv'
    BY <1>5 DEF IInv, Launch, Goto, RunOnly, TypeOK, SlotInv, TraceInv, WatchInv, StopInv,
       Busy, InThread
  <2>4. WatchInv'
    BY <1>5 DEF IInv, Launch, Goto, RunOnly, TypeOK, SlotInv, TraceInv, WatchInv, StopInv,
       Busy, InThread
  <2>5. StopInv'
    BY <1>5 DEF IInv, Launch, Goto, RunOnly, TypeOK, SlotInv, TraceInv, WatchInv, StopInv,
       Busy, InThread
  <2>6. QED BY <2>1, <2>2, <2>3, <2>4, <2>5 DEF IInv
<1>6. CASE Begin(r)
  <2>1. TypeOK'
    BY <1>6 DEF IInv, Begin, Goto, RunOnly, Report, TypeOK, Statuses, TraceInv
  <2>2. SlotInv'
    BY <1>6 DEF IInv, Begin, Goto, RunOnly, Report, TypeOK, SlotInv, TraceInv, WatchInv, StopInv,
       Busy, InThread
  <2>3. TraceInv'
    BY <1>6 DEF IInv, Begin, Goto, RunOnly, Report, TypeOK, SlotInv, TraceInv, WatchInv, StopInv,
       Busy, InThread
  <2>4. WatchInv'
    BY <1>6 DEF IInv, Begin, Goto, RunOnly, Report, TypeOK, SlotInv, TraceInv, WatchInv, StopInv,
       Busy, InThread
  <2>5. StopInv'
    BY <1>6 DEF IInv, Begin, Goto, RunOnly, Report, TypeOK, SlotInv, TraceInv, WatchInv, StopInv,
       Busy, InThread
  <2>6. QED BY <2>1, <2>2, <2>3, <2>4, <2>5 DEF IInv
<1>7. CASE SpawnFails(r)
  <2>1. TypeOK'
    BY <1>7 DEF IInv, SpawnFails, Goto, RunOnly, Report, TypeOK, Statuses, TraceInv
  <2>2. SlotInv'
    BY <1>7 DEF IInv, SpawnFails, Goto, RunOnly, Report, TypeOK, SlotInv, TraceInv, WatchInv, StopInv,
       Busy, InThread
  <2>3. TraceInv'
    BY <1>7 DEF IInv, SpawnFails, Goto, RunOnly, Report, TypeOK, SlotInv, TraceInv, WatchInv, StopInv,
       Busy, InThread
  <2>4. WatchInv'
    BY <1>7 DEF IInv, SpawnFails, Goto, RunOnly, Report, TypeOK, SlotInv, TraceInv, WatchInv, StopInv,
       Busy, InThread
  <2>5. StopInv'
    BY <1>7 DEF IInv, SpawnFails, Goto, RunOnly, Report, TypeOK, SlotInv, TraceInv, WatchInv, StopInv,
       Busy, InThread
  <2>6. QED BY <2>1, <2>2, <2>3, <2>4, <2>5 DEF IInv
<1>8. CASE Popen(r)
  <2>1. TypeOK'
    BY <1>8 DEF IInv, Popen, Goto, RunOnly, TypeOK, Statuses, TraceInv
  <2>2. SlotInv'
    BY <1>8 DEF IInv, Popen, Goto, RunOnly, TypeOK, SlotInv, TraceInv, WatchInv, StopInv,
       Busy, InThread
  <2>3. TraceInv'
    BY <1>8 DEF IInv, Popen, Goto, RunOnly, TypeOK, SlotInv, TraceInv, WatchInv, StopInv,
       Busy, InThread
  <2>4. WatchInv'
    BY <1>8 DEF IInv, Popen, Goto, RunOnly, TypeOK, SlotInv, TraceInv, WatchInv, StopInv,
       Busy, InThread
  <2>5. StopInv'
    BY <1>8 DEF IInv, Popen, Goto, RunOnly, TypeOK, SlotInv, TraceInv, WatchInv, StopInv,
       Busy, InThread
  <2>6. QED BY <2>1, <2>2, <2>3, <2>4, <2>5 DEF IInv
<1>9. CASE Publish(r)
  <2>1. TypeOK'
    BY <1>9 DEF IInv, Publish, Goto, RunOnly, TypeOK, Statuses, TraceInv
  <2>2. SlotInv'
    BY <1>9 DEF IInv, Publish, Goto, RunOnly, TypeOK, SlotInv, TraceInv, WatchInv, StopInv,
       Busy, InThread
  <2>3. TraceInv'
    BY <1>9 DEF IInv, Publish, Goto, RunOnly, TypeOK, SlotInv, TraceInv, WatchInv, StopInv,
       Busy, InThread
  <2>4. WatchInv'
    BY <1>9 DEF IInv, Publish, Goto, RunOnly, TypeOK, SlotInv, TraceInv, WatchInv, StopInv,
       Busy, InThread
  <2>5. StopInv'
    BY <1>9 DEF IInv, Publish, Goto, RunOnly, TypeOK, SlotInv, TraceInv, WatchInv, StopInv,
       Busy, InThread
  <2>6. QED BY <2>1, <2>2, <2>3, <2>4, <2>5 DEF IInv
<1>10. CASE WritePid(r)
  <2>1. TypeOK'
    BY <1>10 DEF IInv, WritePid, Goto, RunOnly, TypeOK, Statuses, TraceInv
  <2>2. SlotInv'
    BY <1>10 DEF IInv, WritePid, Goto, RunOnly, TypeOK, SlotInv, TraceInv, WatchInv, StopInv,
       Busy, InThread
  <2>3. TraceInv'
    BY <1>10 DEF IInv, WritePid, Goto, RunOnly, TypeOK, SlotInv, TraceInv, WatchInv, StopInv,
       Busy, InThread
  <2>4. WatchInv'
    BY <1>10 DEF IInv, WritePid, Goto, RunOnly, TypeOK, SlotInv, TraceInv, WatchInv, StopInv,
       Busy, InThread
  <2>5. StopInv'
    BY <1>10 DEF IInv, WritePid, Goto, RunOnly, TypeOK, SlotInv, TraceInv, WatchInv, StopInv,
       Busy, InThread
  <2>6. QED BY <2>1, <2>2, <2>3, <2>4, <2>5 DEF IInv
<1>11. CASE Reap(r)
  <2>1. TypeOK'
    BY <1>11 DEF IInv, Reap, Goto, RunOnly, Exited, TypeOK, Statuses, TraceInv
  <2>2. SlotInv'
    BY <1>11 DEF IInv, Reap, Goto, RunOnly, Exited, TypeOK, SlotInv, TraceInv, WatchInv, StopInv,
       Busy, InThread
  <2>3. TraceInv'
    BY <1>11 DEF IInv, Reap, Goto, RunOnly, Exited, TypeOK, SlotInv, TraceInv, WatchInv, StopInv,
       Busy, InThread
  <2>4. WatchInv'
    BY <1>11 DEF IInv, Reap, Goto, RunOnly, Exited, TypeOK, SlotInv, TraceInv, WatchInv, StopInv,
       Busy, InThread
  <2>5. StopInv'
    BY <1>11 DEF IInv, Reap, Goto, RunOnly, Exited, TypeOK, SlotInv, TraceInv, WatchInv, StopInv,
       Busy, InThread
  <2>6. QED BY <2>1, <2>2, <2>3, <2>4, <2>5 DEF IInv
<1>12. CASE ClearPid(r)
  <2>1. TypeOK'
    BY <1>12 DEF IInv, ClearPid, Goto, RunOnly, TypeOK, Statuses, TraceInv
  <2>2. SlotInv'
    BY <1>12 DEF IInv, ClearPid, Goto, RunOnly, TypeOK, SlotInv, TraceInv, WatchInv, StopInv,
       Busy, InThread
  <2>3. TraceInv'
    BY <1>12 DEF IInv, ClearPid, Goto, RunOnly, TypeOK, SlotInv, TraceInv, WatchInv, StopInv,
       Busy, InThread
  <2>4. WatchInv'
    BY <1>12 DEF IInv, ClearPid, Goto, RunOnly, TypeOK, SlotInv, TraceInv, WatchInv, StopInv,
       Busy, InThread
  <2>5. StopInv'
    BY <1>12 DEF IInv, ClearPid, Goto, RunOnly, TypeOK, SlotInv, TraceInv, WatchInv, StopInv,
       Busy, InThread
  <2>6. QED BY <2>1, <2>2, <2>3, <2>4, <2>5 DEF IInv
<1>13. CASE Finish(r)
  <2>1. TypeOK'
    BY <1>13 DEF IInv, Finish, Goto, RunOnly, Report, TypeOK, Statuses, TraceInv
  <2>2. SlotInv'
    BY <1>13 DEF IInv, Finish, Goto, RunOnly, Report, TypeOK, SlotInv, TraceInv, WatchInv, StopInv,
       Busy, InThread
  <2>3. TraceInv'
    BY <1>13 DEF IInv, Finish, Goto, RunOnly, Report, TypeOK, SlotInv, TraceInv, WatchInv, StopInv,
       Busy, InThread
  <2>4. WatchInv'
    BY <1>13 DEF IInv, Finish, Goto, RunOnly, Report, TypeOK, SlotInv, TraceInv, WatchInv, StopInv,
       Busy, InThread
  <2>5. StopInv'
    BY <1>13 DEF IInv, Finish, Goto, RunOnly, Report, TypeOK, SlotInv, TraceInv, WatchInv, StopInv,
       Busy, InThread
  <2>6. QED BY <2>1, <2>2, <2>3, <2>4, <2>5 DEF IInv
<1>14. CASE Exit(r)
  <2>1. TypeOK'
    BY <1>14 DEF IInv, Exit, RunOnly, TypeOK, Statuses, TraceInv
  <2>2. SlotInv'
    BY <1>14 DEF IInv, Exit, RunOnly, TypeOK, SlotInv, TraceInv, WatchInv, StopInv,
       Busy, InThread
  <2>3. TraceInv'
    BY <1>14 DEF IInv, Exit, RunOnly, TypeOK, SlotInv, TraceInv, WatchInv, StopInv,
       Busy, InThread
  <2>4. WatchInv'
    BY <1>14 DEF IInv, Exit, RunOnly, TypeOK, SlotInv, TraceInv, WatchInv, StopInv,
       Busy, InThread
  <2>5. StopInv'
    BY <1>14 DEF IInv, Exit, RunOnly, TypeOK, SlotInv, TraceInv, WatchInv, StopInv,
       Busy, InThread
  <2>6. QED BY <2>1, <2>2, <2>3, <2>4, <2>5 DEF IInv
<1>15. CASE WritePidFails(r)
  BY <1>15 DEF PidsWritten
<1>16. QED
  BY <1>1, <1>2, <1>3, <1>4, <1>5, <1>6, <1>7, <1>8, <1>9, <1>10, <1>11, <1>12, <1>13, <1>14, <1>15 DEF Thread

(* A step of stop() preserves it.                                          *)
LEMMA StopPreserves ==
  ASSUME IInv, NEW s \in Stops, StopRead(s) \/ Stopping(s)
  PROVE  IInv'
<1>1. CASE StopRead(s)
  <2>1. TypeOK'
    BY <1>1 DEF IInv, StopRead, SGoto, StopOnly, TypeOK
  <2>2. SlotInv' /\ TraceInv' /\ WatchInv'
    BY <1>1 DEF IInv, StopRead, StopOnly, SlotInv, TraceInv, WatchInv, Busy
  <2>3. StopInv'
    BY <1>1 DEF IInv, StopRead, SGoto, StopOnly, TypeOK, SlotInv, TraceInv, WatchInv,
       StopInv, Busy, InThread
  <2>4. QED BY <2>1, <2>2, <2>3 DEF IInv
<1>2. CASE StopSignal(s)
  <2>1. /\ spc[s] \in {"term", "kill"} /\ target[s] \in Runs
        /\ signalled' = signalled \cup {target[s]}
        /\ UNCHANGED <<state, proc, rpc, watch, restarts, target>>
    BY <1>2 DEF StopSignal, SGoto, StopOnly, IInv, TypeOK, StopInv
  <2>2. TypeOK'
    BY <1>2, <2>1 DEF IInv, StopSignal, SGoto, TypeOK
  <2>3. SlotInv' /\ TraceInv' /\ WatchInv'
    BY <2>1 DEF IInv, SlotInv, TraceInv, WatchInv, Busy
  <2>4. StopInv'
    BY <1>2, <2>1 DEF IInv, StopSignal, SGoto, TypeOK, StopInv, Busy
  <2>5. QED BY <2>2, <2>3, <2>4 DEF IInv
<1>3. CASE StopUnlink(s)
  <2>1. /\ spc[s] = "unlink" /\ spc' = [spc EXCEPT ![s] = "mark"] /\ pidfile' = None
        /\ UNCHANGED <<status, PROC, RECOVERED, proc, rpc, watch, restarts, target, signalled>>
    BY <1>3 DEF StopUnlink, SGoto, StopOnly
  <2>2. TypeOK'
    BY <2>1 DEF IInv, TypeOK
  <2>3. SlotInv' /\ WatchInv'
    BY <2>1 DEF IInv, SlotInv, WatchInv, Busy
  <2>4. TraceInv'
    BY <2>1 DEF IInv, TypeOK, TraceInv, StopInv, Busy, InThread
  <2>5. StopInv'
    BY <2>1 DEF IInv, TypeOK, StopInv, Busy
  <2>6. QED BY <2>2, <2>3, <2>4, <2>5 DEF IInv
<1>4. CASE StopMark(s)
  <2>1. /\ spc[s] = "mark" /\ spc' = [spc EXCEPT ![s] = "done"] /\ status' = "stopped"
        /\ UNCHANGED <<PROC, RECOVERED, pidfile, proc, rpc, watch, restarts, target, signalled>>
    BY <1>4 DEF StopMark, SGoto, StopOnly, Report
  <2>2. target[s] \in signalled /\ \A r \in Runs : Busy(r) => r = target[s]
    BY <2>1 DEF IInv, StopInv
  <2>3. wpc # "off" => watched = target[s]
    BY <2>1 DEF IInv, StopInv
  <2>4. TypeOK'
    BY <2>1 DEF IInv, TypeOK, Statuses
  <2>5. SlotInv' /\ TraceInv' /\ WatchInv'
    BY <2>1, <2>2, <2>3 DEF IInv, SlotInv, TraceInv, WatchInv, Busy
  <2>6. StopInv'
    BY <2>1 DEF IInv, TypeOK, StopInv, Busy
  <2>7. QED BY <2>4, <2>5, <2>6 DEF IInv
<1>5. QED BY <1>1, <1>2, <1>3, <1>4 DEF Stopping

(* A restart finds the trainer that runs, if one does that was not stopped,*)
(* and preserves the invariant.                                            *)
LEMMA RestartFinds ==
  ASSUME IInv, PidsWritten, Restart
  PROVE  \A r \in Trainers \ signalled : pidfile = r /\ Alive(pidfile)
  BY DEF IInv, PidsWritten, Trainers, TraceInv, Alive, TypeOK

LEMMA RestartPreserves ==
  ASSUME IInv, PidsWritten, Restart
  PROVE  IInv'
<1>1. \A r \in Runs : rpc'[r] \in {"new", "done"} /\ (rpc'[r] = "new" => rpc[r] = "new")
  BY DEF Restart
<1>2. \A r \in Runs : proc[r] = "alive" => rpc'[r] = "done" /\ (r \notin signalled => pidfile = r)
  BY RestartFinds DEF IInv, TraceInv, Trainers, Restart
<1>3. \A r \in Runs : proc[r] = "alive" /\ Alive(pidfile) => r = pidfile
  BY DEF IInv, TypeOK, SlotInv, Busy, Alive
<1>4. \A s \in Stops : spc'[s] \in {"new", "done"}
  BY DEF Restart
<1>5. TypeOK'
  BY DEF IInv, Restart, TypeOK, Statuses, Alive
<1>6. SlotInv' BY <1>1, <1>2 DEF IInv, Restart, SlotInv, Busy, InThread, Alive
<1>7. TraceInv' BY <1>1, <1>2 DEF IInv, Restart, TraceInv, Alive
<1>8. WatchInv' BY <1>1, <1>3 DEF Restart, WatchInv, Busy, InThread, Alive
<1>9. StopInv' BY <1>4 DEF StopInv
<1>10. QED BY <1>5, <1>6, <1>7, <1>8, <1>9 DEF IInv

(* The watcher preserves the invariant.                                    *)
LEMMA WatchPreserves ==
  ASSUME IInv, WatchDead \/ WatchFinish
  PROVE  IInv'
<1>1. CASE WatchDead
  <2>1. \A r \in Runs : ~Busy(r)
    BY <1>1 DEF IInv, WatchDead, TraceInv, WatchInv, Busy, InThread, Exited
  <2>2. QED
    BY <1>1, <2>1 DEF IInv, WatchDead, TypeOK, SlotInv, TraceInv, WatchInv, StopInv, Busy,
       InThread
<1>2. CASE WatchFinish
  BY <1>2 DEF IInv, WatchFinish, TypeOK, Statuses, SlotInv, TraceInv, WatchInv, StopInv,
     Busy, InThread
<1>3. QED BY <1>1, <1>2

(* Every step preserves the invariant.                                     *)
LEMMA NextIInv ==
  ASSUME IInv, [Next]_vars, [StartsSettled /\ PidsWritten]_vars
  PROVE  IInv'
<1>1. CASE UNCHANGED vars
  BY <1>1 DEF IInv, vars, TypeOK, SlotInv, TraceInv, WatchInv, StopInv, Busy
<1>2. ASSUME StartsSettled, PidsWritten,
             NEW r \in Runs, Claim(r) \/ Refuse(r) \/ Thread(r) \/ Exit(r)
      PROVE  IInv'
  BY <1>2, RunPreserves
<1>3. ASSUME NEW s \in Stops, StopRead(s) \/ Stopping(s) PROVE IInv'
  BY <1>3, StopPreserves
<1>4. CASE WatchDead \/ WatchFinish BY <1>4, WatchPreserves
<1>5. ASSUME PidsWritten, Restart PROVE IInv' BY <1>5, RestartPreserves
<1>6. QED BY <1>1, <1>2, <1>3, <1>4, <1>5 DEF Next

(* The inductive invariant holds in every reachable state of a runner, as  *)
(* long as no start() comes before what was stopped is through and no end  *)
(* of the server comes before the pid is written.                          *)
THEOREM Invariance == Spec /\ [][StartsSettled /\ PidsWritten]_vars => []IInv
<1>1. Init => IInv BY InitIInv
<1>2. IInv /\ [Next]_vars /\ [StartsSettled /\ PidsWritten]_vars => IInv' BY NextIInv
<1>3. QED BY <1>1, <1>2, PTL DEF Spec

(* Under the same two hypotheses, two start() calls never have a trainer   *)
(* each, across any number of stops and restarts.                          *)
THEOREM OneAtATime == Spec /\ [][StartsSettled /\ PidsWritten]_vars => []OneTrainer
<1>1. IInv => OneTrainer BY DEF IInv, SlotInv, Busy, OneTrainer, Trainers
<1>2. QED BY <1>1, Invariance, PTL

(* Under the same two hypotheses, the trainer that runs and was not stopped*)
(* is always within the reach of stop(), and reported as running.          *)
THEOREM NeverOutOfReach ==
  Spec /\ [][StartsSettled /\ PidsWritten]_vars => [](AlwaysStoppable /\ RunningIsReported)
<1>1. IInv => AlwaysStoppable
  BY DEF IInv, TraceInv, WatchInv, AlwaysStoppable, Trainers
<1>2. IInv => RunningIsReported
  BY DEF IInv, SlotInv, Busy, RunningIsReported, Trainers
<1>3. QED BY <1>1, <1>2, Invariance, PTL

(* Under the same two hypotheses, a restarted server discovers the trainer *)
(* in flight, unless it was told to end.                                   *)
THEOREM RestartsRecover ==
  Spec /\ [][StartsSettled /\ PidsWritten]_vars => RestartFindsRun
<1> DEFINE Finds == Restart /\ Trainers \ signalled # {} =>
                      status' = "running" /\ RECOVERED' \in Trainers
<1>1. IInv /\ [StartsSettled /\ PidsWritten]_vars => [Finds]_vars
  <2> SUFFICES ASSUME IInv, PidsWritten, Restart, Trainers \ signalled # {}
               PROVE  status' = "running" /\ RECOVERED' \in Trainers
    OBVIOUS
  <2>1. Alive(pidfile) /\ pidfile \in Trainers BY RestartFinds
  <2>2. QED BY <2>1 DEF Restart
<1>2. QED BY <1>1, Invariance, PTL DEF Spec, RestartFindsRun
=============================================================================
