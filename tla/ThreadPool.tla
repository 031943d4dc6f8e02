----------------------------- MODULE ThreadPool -----------------------------
(***************************************************************************)
(* The engine's persistent worker pool, veritate_engine/v1/src/threadpool.c*)
(* One driver thread dispatches work with veritate_pool_run; each worker   *)
(* spins on its wake_flag and then parks on a condition variable, and the  *)
(* driver spins on pool_done_count and then parks too.  One action is one  *)
(* atomic operation another thread can observe.  A lock and the first      *)
(* store under it, and a lock-signal-unlock sequence, are single actions:  *)
(* no other thread can see inside them.  A check of a flag and the wait    *)
(* that follows it are two, since the other side stores without the lock.  *)
(***************************************************************************)
EXTENDS Naturals, Sequences, FiniteSets

CONSTANTS
  PoolN,   \* pool_n
  Fns,     \* work functions the driver dispatches
  None,    \* no call, no job
  Free,    \* a mutex nobody holds
  Driver   \* the thread that calls veritate_pool_run

Tasks == 0 .. PoolN - 1

ASSUME PoolAssumption ==
  /\ PoolN \in Nat \ {0}
  /\ Driver \notin Tasks
  /\ Free \notin Tasks \cup {Driver}
  /\ None \notin [fn : Fns, n : 1 .. PoolN]

VARIABLES
  wpc,           \* program counter of each worker
  flag,          \* wake_flag
  parked,        \* parked
  job,           \* the fn and arg fields
  wake_mu,       \* owner of each worker's mutex
  done_count,    \* pool_done_count
  main_waiting,  \* pool_main_waiting
  done_mu,       \* owner of pool_done_mu
  dpc,           \* program counter of the driver
  cur,           \* loop index t of pool_run
  call,          \* arguments of the call in progress
  ran            \* history: the fns applied to args[t] since the call began

wvars == <<wpc, flag, parked, job, wake_mu>>
dvars == <<dpc, cur, call>>
jvars == <<done_count, main_waiting, done_mu>>
vars  == <<wpc, flag, parked, job, wake_mu, done_count, main_waiting, done_mu,
           dpc, cur, call, ran>>

WorkerPC == {"spin", "lock", "check", "wait", "waiting", "relock", "unpark",
             "clear", "exec", "count", "peek", "signal"}
DriverPC == {"idle", "fill", "wake", "peek", "signal", "spin", "lock",
             "check", "wait", "waiting", "relock", "clear"}
Calls    == [fn : Fns, n : 1 .. PoolN]
Jobs     == [fn : Fns, arg : Tasks]

\* The pool as pool_init_once leaves it: every thread started, nobody parked.
Init ==
  /\ wpc = [t \in Tasks |-> "spin"]
  /\ flag = [t \in Tasks |-> FALSE]
  /\ parked = [t \in Tasks |-> FALSE]
  /\ job = [t \in Tasks |-> None]
  /\ wake_mu = [t \in Tasks |-> Free]
  /\ done_count = 0
  /\ main_waiting = FALSE
  /\ done_mu = Free
  /\ dpc = "idle"
  /\ cur = 0
  /\ call = None
  /\ ran = [t \in Tasks |-> <<>>]

-----------------------------------------------------------------------------
(* Workers: worker_loop.                                                   *)

Goto(t, from, to) == wpc[t] = from /\ wpc' = [wpc EXCEPT ![t] = to]

\* The spin loop reads wake_flag set.
SpinHit(t) ==
  /\ Goto(t, "spin", "clear")
  /\ flag[t]
  /\ UNCHANGED <<flag, parked, job, wake_mu, jvars, dvars, ran>>

\* pool_spin reads are used up (pool_spin may be 0: nothing is read at all).
SpinExpire(t) ==
  /\ Goto(t, "spin", "lock")
  /\ UNCHANGED <<flag, parked, job, wake_mu, jvars, dvars, ran>>

Park(t) ==
  /\ Goto(t, "lock", "check")
  /\ wake_mu[t] = Free
  /\ wake_mu' = [wake_mu EXCEPT ![t] = t]
  /\ parked' = [parked EXCEPT ![t] = TRUE]
  /\ UNCHANGED <<flag, job, jvars, dvars, ran>>

CheckWake(t) ==
  /\ Goto(t, "check", IF flag[t] THEN "unpark" ELSE "wait")
  /\ UNCHANGED <<flag, parked, job, wake_mu, jvars, dvars, ran>>

\* POOL_CV_WAIT: joins the wait set and releases the mutex in one step.
Sleep(t) ==
  /\ Goto(t, "wait", "waiting")
  /\ wake_mu' = [wake_mu EXCEPT ![t] = Free]
  /\ UNCHANGED <<flag, parked, job, jvars, dvars, ran>>

\* A condition variable may wake its waiter unsignalled.
SpuriousWake(t) ==
  /\ Goto(t, "waiting", "relock")
  /\ UNCHANGED <<flag, parked, job, wake_mu, jvars, dvars, ran>>

Relock(t) ==
  /\ Goto(t, "relock", "check")
  /\ wake_mu[t] = Free
  /\ wake_mu' = [wake_mu EXCEPT ![t] = t]
  /\ UNCHANGED <<flag, parked, job, jvars, dvars, ran>>

\* Mutant: parked stays up after the wait.
UnparkLeavesParked(t) ==
  /\ Goto(t, "unpark", "clear")
  /\ wake_mu' = [wake_mu EXCEPT ![t] = Free]
  /\ UNCHANGED <<flag, parked, job, jvars, dvars, ran>>

Unpark(t) ==
  /\ Goto(t, "unpark", "clear")
  /\ parked' = [parked EXCEPT ![t] = FALSE]
  /\ wake_mu' = [wake_mu EXCEPT ![t] = Free]
  /\ UNCHANGED <<flag, job, jvars, dvars, ran>>

\* Mutant: the flag is never reset.
ClearWakeForgets(t) ==
  /\ Goto(t, "clear", "exec")
  /\ UNCHANGED <<flag, parked, job, wake_mu, jvars, dvars, ran>>

ClearWake(t) ==
  /\ Goto(t, "clear", "exec")
  /\ flag' = [flag EXCEPT ![t] = FALSE]
  /\ UNCHANGED <<parked, job, wake_mu, jvars, dvars, ran>>

\* w->fn(w->arg, ...): whatever the two fields hold now.
Exec(t) ==
  /\ Goto(t, "exec", "count")
  /\ ran' = [ran EXCEPT ![job[t].arg] = Append(@, job[t].fn)]
  /\ UNCHANGED <<flag, parked, job, wake_mu, jvars, dvars>>

Count(t) ==
  /\ Goto(t, "count", "peek")
  /\ done_count' = done_count + 1
  /\ UNCHANGED <<flag, parked, job, wake_mu, main_waiting, done_mu, dvars, ran>>

PeekWaiting(t) ==
  /\ Goto(t, "peek", IF main_waiting THEN "signal" ELSE "spin")
  /\ UNCHANGED <<flag, parked, job, wake_mu, jvars, dvars, ran>>

\* Lock, signal pool_done_cv, unlock.
SignalDone(t) ==
  /\ Goto(t, "signal", "spin")
  /\ done_mu = Free
  /\ dpc' = IF dpc = "waiting" THEN "relock" ELSE dpc
  /\ UNCHANGED <<flag, parked, job, wake_mu, jvars, cur, call, ran>>

WorkerStep(t) ==
  \/ SpinHit(t) \/ SpinExpire(t) \/ Park(t) \/ CheckWake(t) \/ Sleep(t)
  \/ Relock(t) \/ Unpark(t) \/ ClearWake(t) \/ Exec(t) \/ Count(t)
  \/ PeekWaiting(t) \/ SignalDone(t)

-----------------------------------------------------------------------------
(* The driver: veritate_pool_run.                                          *)

DGoto(from, to) == dpc = from /\ dpc' = to

Enough == done_count >= call.n

\* Mutant: the count of the last call is not reset.
CallKeepsCount ==
  /\ DGoto("idle", "fill")
  /\ call' \in Calls
  /\ cur' = 0
  /\ ran' = [t \in Tasks |-> <<>>]
  /\ UNCHANGED <<wvars, done_count, main_waiting, done_mu>>

\* Entry: a requested count of 0 returns at once (a stutter, left out) and a
\* larger one than the pool is clamped, so the call runs 1 .. pool_n items.
Call ==
  /\ DGoto("idle", "fill")
  /\ call' \in Calls
  /\ cur' = 0
  /\ done_count' = 0
  /\ ran' = [t \in Tasks |-> <<>>]
  /\ UNCHANGED <<wvars, main_waiting, done_mu>>

Fill ==
  /\ DGoto("fill", "wake")
  /\ job' = [job EXCEPT ![cur] = [fn |-> call.fn, arg |-> cur]]
  /\ UNCHANGED <<wpc, flag, parked, wake_mu, jvars, cur, call, ran>>

SetWake ==
  /\ DGoto("wake", "peek")
  /\ flag' = [flag EXCEPT ![cur] = TRUE]
  /\ UNCHANGED <<wpc, parked, job, wake_mu, jvars, cur, call, ran>>

\* The end of the loop body: the next worker, or the wait for all of them.
NextWorker ==
  IF cur + 1 < call.n
  THEN dpc' = "fill" /\ cur' = cur + 1
  ELSE dpc' = "spin" /\ cur' = cur

SkipSignal ==
  /\ dpc = "peek"
  /\ ~parked[cur]
  /\ NextWorker
  /\ UNCHANGED <<wvars, jvars, call, ran>>

SeeParked ==
  /\ DGoto("peek", "signal")
  /\ parked[cur]
  /\ UNCHANGED <<wvars, jvars, cur, call, ran>>

\* Mutant: the worker is signalled without its mutex.
SignalWorkerUnlocked ==
  /\ dpc = "signal"
  /\ wpc' = [wpc EXCEPT ![cur] = IF @ = "waiting" THEN "relock" ELSE @]
  /\ NextWorker
  /\ UNCHANGED <<flag, parked, job, wake_mu, jvars, call, ran>>

\* Lock, signal wake_cv, unlock.
SignalWorker ==
  /\ dpc = "signal"
  /\ wake_mu[cur] = Free
  /\ wpc' = [wpc EXCEPT ![cur] = IF @ = "waiting" THEN "relock" ELSE @]
  /\ NextWorker
  /\ UNCHANGED <<flag, parked, job, wake_mu, jvars, call, ran>>

\* The spin loop reads enough completions, and pool_run returns.
DriverSpinHit ==
  /\ DGoto("spin", "idle")
  /\ Enough
  /\ call' = None
  /\ UNCHANGED <<wvars, jvars, cur, ran>>

DriverSpinExpire ==
  /\ DGoto("spin", "lock")
  /\ UNCHANGED <<wvars, jvars, cur, call, ran>>

DriverPark ==
  /\ DGoto("lock", "check")
  /\ done_mu = Free
  /\ done_mu' = Driver
  /\ main_waiting' = TRUE
  /\ UNCHANGED <<wvars, done_count, cur, call, ran>>

DriverCheck ==
  /\ DGoto("check", IF Enough THEN "clear" ELSE "wait")
  /\ UNCHANGED <<wvars, jvars, cur, call, ran>>

DriverSleep ==
  /\ DGoto("wait", "waiting")
  /\ done_mu' = Free
  /\ UNCHANGED <<wvars, done_count, main_waiting, cur, call, ran>>

DriverSpuriousWake ==
  /\ DGoto("waiting", "relock")
  /\ UNCHANGED <<wvars, jvars, cur, call, ran>>

DriverRelock ==
  /\ DGoto("relock", "check")
  /\ done_mu = Free
  /\ done_mu' = Driver
  /\ UNCHANGED <<wvars, done_count, main_waiting, cur, call, ran>>

\* pool_main_waiting = 0, unlock, return.
DriverReturn ==
  /\ DGoto("clear", "idle")
  /\ main_waiting' = FALSE
  /\ done_mu' = Free
  /\ call' = None
  /\ UNCHANGED <<wvars, done_count, cur, ran>>

DriverStep ==
  \/ Fill \/ SetWake \/ SkipSignal \/ SeeParked \/ SignalWorker
  \/ DriverSpinHit \/ DriverSpinExpire \/ DriverPark \/ DriverCheck
  \/ DriverSleep \/ DriverRelock \/ DriverReturn

-----------------------------------------------------------------------------

Next ==
  \/ Call
  \/ DriverStep
  \/ DriverSpuriousWake
  \/ \E t \in Tasks : WorkerStep(t) \/ SpuriousWake(t)

Spec == Init /\ [][Next]_vars

\* The operating system keeps running every thread that can run, and a thread
\* that waits for a mutex which is released again and again gets it in the end
\* (else a thread that wakes spuriously for ever could keep its waker out).  It
\* is not obliged to wake a condition variable unsignalled, nor is the caller
\* obliged to call.
Fairness ==
  /\ WF_vars(DriverStep)
  /\ SF_vars(SignalWorker)
  /\ \A t \in Tasks : WF_vars(WorkerStep(t)) /\ SF_vars(SignalDone(t))

FairSpec == Spec /\ Fairness

-----------------------------------------------------------------------------
(* Properties.                                                             *)

TypeOK ==
  /\ wpc \in [Tasks -> WorkerPC]
  /\ flag \in [Tasks -> BOOLEAN]
  /\ parked \in [Tasks -> BOOLEAN]
  /\ job \in [Tasks -> Jobs \cup {None}]
  /\ wake_mu \in [Tasks -> Tasks \cup {Free}]
  /\ done_count \in 0 .. PoolN
  /\ main_waiting \in BOOLEAN
  /\ done_mu \in {Free, Driver}
  /\ dpc \in DriverPC
  /\ cur \in Tasks
  /\ call \in Calls \cup {None}
  /\ ran \in [Tasks -> {<<>>} \cup {<<f>> : f \in Fns}]

\* The args of a call are arrays on the caller's stack (hybrid.c:284-324): a
\* worker holds a dispatched item only while that very call is in progress.
NoUseAfterReturn ==
  \A t \in Tasks : flag[t] \/ wpc[t] \in {"clear", "exec", "count"} =>
    /\ call # None
    /\ t < call.n
    /\ job[t] = [fn |-> call.fn, arg |-> t]

\* A worker asleep on wake_cv with its flag set still has its signal coming.
NoLostWake ==
  \A t \in Tasks : flag[t] /\ wpc[t] \in {"wait", "waiting"} =>
    dpc \in {"peek", "signal"} /\ cur = t /\ parked[t]

\* A driver asleep on pool_done_cv with nothing left to wait for still has a
\* worker about to signal it.
NoLostCompletion ==
  dpc \in {"wait", "waiting"} /\ Enough =>
    main_waiting /\ \E t \in Tasks : wpc[t] \in {"peek", "signal"}

\* Every item of a call runs exactly once, on that call's function, before the
\* call returns: the pool implements ForkJoin.
FJ == INSTANCE ForkJoin
ImplementsForkJoin == FJ!Spec

\* A call of pool_run returns, however often the threads fall asleep.
CallReturns == call # None ~> call = None
-----------------------------------------------------------------------------
(* The inductive invariant behind them.                                    *)

\* Mutexes are held exactly in their critical sections, and the two "I am
\* going to sleep" marks are up exactly while their owner may be asleep.
LockInv ==
  /\ \A t \in Tasks :
       /\ wake_mu[t] = IF wpc[t] \in {"check", "wait", "unpark"} THEN t ELSE Free
       /\ parked[t] <=>
            wpc[t] \in {"check", "wait", "waiting", "relock", "unpark"}
  /\ done_mu = IF dpc \in {"check", "wait", "clear"} THEN Driver ELSE Free
  /\ main_waiting <=> dpc \in {"check", "wait", "waiting", "relock", "clear"}

\* The call is in progress while the driver is inside pool_run, and the loop
\* index stays below the count.
CallInv ==
  /\ (call = None) <=> (dpc = "idle")
  /\ dpc \in {"fill", "wake", "peek", "signal"} => cur < call.n

\* The loop of pool_run has set the flag of worker t in this call.
Posted(t) ==
  /\ call # None
  /\ t < call.n
  /\ dpc \in {"fill", "wake"} => t < cur
  /\ dpc \in {"peek", "signal"} => t <= cur

\* Worker t still owes the call its run of fn, or its count.
Owes(t) == flag[t] \/ wpc[t] \in {"exec", "count"}

\* A worker runs when and only when it has been posted, once.
WorkInv ==
  /\ \A t \in Tasks :
       /\ flag[t] => wpc[t] \notin {"exec", "count"}
       /\ wpc[t] \in {"clear", "unpark"} => flag[t]
       /\ Owes(t) => Posted(t) /\ job[t] = [fn |-> call.fn, arg |-> t]
       /\ call # None => ran[t] = IF Posted(t) /\ ~flag[t] /\ wpc[t] # "exec"
                                  THEN <<call.fn>> ELSE <<>>
  /\ dpc = "wake" => job[cur] = [fn |-> call.fn, arg |-> cur]

\* pool_done_count counts the workers that have finished in this call.
Finished == {t \in Tasks : Posted(t) /\ ~Owes(t)}
CountInv ==
  /\ call # None => done_count = Cardinality(Finished)
  /\ dpc = "clear" => Enough

\* What every step preserves; the safety properties above follow from it.
IInv ==
  /\ TypeOK
  /\ LockInv
  /\ CallInv
  /\ WorkInv
  /\ CountInv
  /\ NoLostWake
  /\ NoLostCompletion
=============================================================================
