-------------------------- MODULE ThreadPool_proofs --------------------------
(***************************************************************************)
(* TLAPS proofs about ThreadPool, for every size of the pool and every set *)
(* of work functions: IInv is inductive, the safety properties the runs    *)
(* check follow from it, and ThreadPool implements ForkJoin.               *)
(***************************************************************************)
EXTENDS ThreadPool, FiniteSetTheorems, TLAPS

USE PoolAssumption

(* Appending to an empty history leaves one entry.                         *)
LEMMA AppendFirst == \A f : Append(<<>>, f) = <<f>>
  BY SMT

(* The first n indices are n in number.                                    *)
LEMMA UptoCard ==
  ASSUME NEW n \in Nat
  PROVE  IsFiniteSet(0 .. n - 1) /\ Cardinality(0 .. n - 1) = n
<1>1. 0 \in Int /\ n - 1 \in Int OBVIOUS
<1>2. /\ IsFiniteSet(0 .. n - 1)
      /\ Cardinality(0 .. n - 1) = IF 0 > n - 1 THEN 0 ELSE (n - 1) - 0 + 1
  BY <1>1, FS_Interval
<1>3. QED BY <1>2

(* The pool is a finite set, and a set of workers is never larger than it. *)
LEMMA TasksFinite ==
  /\ IsFiniteSet(Tasks)
  /\ \A S \in SUBSET Tasks : IsFiniteSet(S) /\ Cardinality(S) \in 0 .. PoolN
<1>1. IsFiniteSet(Tasks) /\ Cardinality(Tasks) = PoolN
  BY UptoCard DEF Tasks
<1>2. ASSUME NEW S \in SUBSET Tasks
      PROVE  IsFiniteSet(S) /\ Cardinality(S) \in 0 .. PoolN
  <2>1. IsFiniteSet(S) /\ Cardinality(S) <= Cardinality(Tasks)
    BY <1>1, FS_Subset
  <2>2. Cardinality(S) \in Nat BY <2>1, FS_CardinalityType
  <2>3. QED BY <2>1, <2>2, <1>1
<1>3. QED BY <1>1, <1>2

(* When the count has reached n, every worker of the call has finished.    *)
LEMMA EnoughMeansAll ==
  ASSUME IInv, call # None, Enough
  PROVE  \A t \in 0 .. call.n - 1 : t \in Tasks /\ Posted(t) /\ ~Owes(t)
<1>1. call \in Calls /\ call.n \in Nat /\ call.n <= PoolN
  BY DEF IInv, TypeOK, Calls
<1>2. 0 .. call.n - 1 \subseteq Tasks BY <1>1 DEF Tasks
<1>3. Finished \subseteq 0 .. call.n - 1
  BY <1>1 DEF Finished, Posted, Tasks
<1>4. IsFiniteSet(0 .. call.n - 1) /\ Cardinality(0 .. call.n - 1) = call.n
  BY <1>1, UptoCard
<1>5. Cardinality(Finished) >= call.n BY DEF IInv, CountInv, Enough
<1>6. Finished = 0 .. call.n - 1
  <2>1. Cardinality(Finished) <= Cardinality(0 .. call.n - 1)
        /\ (Cardinality(Finished) = Cardinality(0 .. call.n - 1)
              => Finished = 0 .. call.n - 1)
    BY <1>3, <1>4, FS_Subset
  <2>2. IsFiniteSet(Finished) BY <1>3, <1>4, FS_Subset
  <2>3. Cardinality(Finished) \in Nat BY <2>2, FS_CardinalityType
  <2>4. QED BY <2>1, <2>3, <1>1, <1>4, <1>5
<1>7. QED BY <1>6, <1>2 DEF Finished

(* The initial states satisfy the invariant.                               *)
LEMMA InitIInv == Init => IInv
<1> SUFFICES ASSUME Init PROVE IInv OBVIOUS
<1>1. 0 \in Tasks /\ 0 \in 0 .. PoolN BY DEF Tasks, PoolAssumption
<1>2. TypeOK BY <1>1 DEF Init, TypeOK, WorkerPC, DriverPC
<1>3. LockInv /\ CallInv /\ WorkInv /\ CountInv
  BY DEF Init, LockInv, CallInv, WorkInv, CountInv, Owes, Posted
<1>4. NoLostWake /\ NoLostCompletion BY DEF Init, NoLostWake, NoLostCompletion
<1>5. QED BY <1>2, <1>3, <1>4 DEF IInv

(* A worker that runs fn applies this call's function to its own item, and *)
(* is the first to do so.                                                  *)
LEMMA ExecAppends ==
  ASSUME IInv, NEW t \in Tasks, Exec(t)
  PROVE  /\ Posted(t) /\ call # None /\ job[t] = [fn |-> call.fn, arg |-> t]
         /\ ran[t] = <<>> /\ ran' = [ran EXCEPT ![t] = <<call.fn>>]
<1>1. Posted(t) /\ job[t] = [fn |-> call.fn, arg |-> t] /\ ran[t] = <<>>
  BY DEF IInv, Exec, Goto, TypeOK, WorkInv, Owes, Posted
<1>2. job[t].arg = t /\ job[t].fn = call.fn BY <1>1
<1>3. ran' = [ran EXCEPT ![t] = Append(ran[t], call.fn)]
  BY <1>2 DEF IInv, TypeOK, Exec
<1>4. Append(ran[t], call.fn) = <<call.fn>> BY <1>1, AppendFirst
<1>5. QED BY <1>1, <1>3, <1>4 DEF Posted

(* A step of a worker, or its spurious wake-up, preserves the invariant.   *)
LEMMA WorkerPreserves ==
  ASSUME IInv, NEW t \in Tasks, WorkerStep(t) \/ SpuriousWake(t)
  PROVE  IInv'
<1>1. CASE SpinHit(t)
  <2>1. TypeOK'
    BY <1>1 DEF IInv, SpinHit, Goto, TypeOK, WorkerPC, Tasks, wvars, dvars,
       jvars
  <2>2. LockInv' /\ CallInv'
    BY <1>1 DEF IInv, SpinHit, Goto, TypeOK, LockInv, CallInv, Tasks, wvars,
       dvars, jvars
  <2>3. WorkInv'
    BY <1>1 DEF IInv, SpinHit, Goto, TypeOK, WorkInv, Owes, Posted, Tasks,
       wvars, dvars, jvars
  <2>4. CountInv'
    <3>1. Finished' = Finished
      BY <1>1 DEF IInv, SpinHit, Goto, TypeOK, WorkInv, Finished, Owes, Posted,
         Tasks, wvars, dvars, jvars
    <3>2. QED BY <1>1, <3>1 DEF IInv, SpinHit, Goto, CountInv, CallInv, Enough,
       wvars, dvars, jvars
  <2>5. NoLostWake' /\ NoLostCompletion'
    BY <1>1 DEF IInv, SpinHit, Goto, TypeOK, LockInv, CallInv, WorkInv, Owes,
       Posted, NoLostWake, NoLostCompletion, Enough, Tasks, wvars, dvars,
       jvars
  <2>6. QED BY <2>1, <2>2, <2>3, <2>4, <2>5 DEF IInv
<1>2. CASE SpinExpire(t)
  <2>1. TypeOK'
    BY <1>2 DEF IInv, SpinExpire, Goto, TypeOK, WorkerPC, Tasks, wvars, dvars,
       jvars
  <2>2. LockInv' /\ CallInv'
    BY <1>2 DEF IInv, SpinExpire, Goto, TypeOK, LockInv, CallInv, Tasks, wvars,
       dvars, jvars
  <2>3. WorkInv'
    BY <1>2 DEF IInv, SpinExpire, Goto, TypeOK, WorkInv, Owes, Posted, Tasks,
       wvars, dvars, jvars
  <2>4. CountInv'
    <3>1. Finished' = Finished
      BY <1>2 DEF IInv, SpinExpire, Goto, TypeOK, WorkInv, Finished, Owes,
         Posted, Tasks, wvars, dvars, jvars
    <3>2. QED BY <1>2, <3>1 DEF IInv, SpinExpire, Goto, CountInv, CallInv,
       Enough, wvars, dvars, jvars
  <2>5. NoLostWake' /\ NoLostCompletion'
    BY <1>2 DEF IInv, SpinExpire, Goto, TypeOK, LockInv, CallInv, WorkInv,
       Owes, Posted, NoLostWake, NoLostCompletion, Enough, Tasks, wvars, dvars,
       jvars
  <2>6. QED BY <2>1, <2>2, <2>3, <2>4, <2>5 DEF IInv
<1>3. CASE Park(t)
  <2>1. TypeOK'
    BY <1>3 DEF IInv, Park, Goto, TypeOK, WorkerPC, Tasks, wvars, dvars, jvars
  <2>2. LockInv' /\ CallInv'
    BY <1>3 DEF IInv, Park, Goto, TypeOK, LockInv, CallInv, Tasks, wvars,
       dvars, jvars
  <2>3. WorkInv'
    BY <1>3 DEF IInv, Park, Goto, TypeOK, WorkInv, Owes, Posted, Tasks, wvars,
       dvars, jvars
  <2>4. CountInv'
    <3>1. Finished' = Finished
      BY <1>3 DEF IInv, Park, Goto, TypeOK, WorkInv, Finished, Owes, Posted,
         Tasks, wvars, dvars, jvars
    <3>2. QED BY <1>3, <3>1 DEF IInv, Park, Goto, CountInv, CallInv, Enough,
       wvars, dvars, jvars
  <2>5. NoLostWake' /\ NoLostCompletion'
    BY <1>3 DEF IInv, Park, Goto, TypeOK, LockInv, CallInv, WorkInv, Owes,
       Posted, NoLostWake, NoLostCompletion, Enough, Tasks, wvars, dvars,
       jvars
  <2>6. QED BY <2>1, <2>2, <2>3, <2>4, <2>5 DEF IInv
<1>4. CASE CheckWake(t)
  <2>1. TypeOK'
    BY <1>4 DEF IInv, CheckWake, Goto, TypeOK, WorkerPC, Tasks, wvars, dvars,
       jvars
  <2>2. LockInv' /\ CallInv'
    BY <1>4 DEF IInv, CheckWake, Goto, TypeOK, LockInv, CallInv, Tasks, wvars,
       dvars, jvars
  <2>3. WorkInv'
    BY <1>4 DEF IInv, CheckWake, Goto, TypeOK, WorkInv, Owes, Posted, Tasks,
       wvars, dvars, jvars
  <2>4. CountInv'
    <3>1. Finished' = Finished
      BY <1>4 DEF IInv, CheckWake, Goto, TypeOK, WorkInv, Finished, Owes,
         Posted, Tasks, wvars, dvars, jvars
    <3>2. QED BY <1>4, <3>1 DEF IInv, CheckWake, Goto, CountInv, CallInv,
       Enough, wvars, dvars, jvars
  <2>5. NoLostWake' /\ NoLostCompletion'
    BY <1>4 DEF IInv, CheckWake, Goto, TypeOK, LockInv, CallInv, WorkInv, Owes,
       Posted, NoLostWake, NoLostCompletion, Enough, Tasks, wvars, dvars,
       jvars
  <2>6. QED BY <2>1, <2>2, <2>3, <2>4, <2>5 DEF IInv
<1>5. CASE Sleep(t)
  <2>1. TypeOK'
    BY <1>5 DEF IInv, Sleep, Goto, TypeOK, WorkerPC, Tasks, wvars, dvars, jvars
  <2>2. LockInv' /\ CallInv'
    BY <1>5 DEF IInv, Sleep, Goto, TypeOK, LockInv, CallInv, Tasks, wvars,
       dvars, jvars
  <2>3. WorkInv'
    BY <1>5 DEF IInv, Sleep, Goto, TypeOK, WorkInv, Owes, Posted, Tasks, wvars,
       dvars, jvars
  <2>4. CountInv'
    <3>1. Finished' = Finished
      BY <1>5 DEF IInv, Sleep, Goto, TypeOK, WorkInv, Finished, Owes, Posted,
         Tasks, wvars, dvars, jvars
    <3>2. QED BY <1>5, <3>1 DEF IInv, Sleep, Goto, CountInv, CallInv, Enough,
       wvars, dvars, jvars
  <2>5. NoLostWake' /\ NoLostCompletion'
    BY <1>5 DEF IInv, Sleep, Goto, TypeOK, LockInv, CallInv, WorkInv, Owes,
       Posted, NoLostWake, NoLostCompletion, Enough, Tasks, wvars, dvars,
       jvars
  <2>6. QED BY <2>1, <2>2, <2>3, <2>4, <2>5 DEF IInv
<1>6. CASE SpuriousWake(t)
  <2>1. TypeOK'
    BY <1>6 DEF IInv, SpuriousWake, Goto, TypeOK, WorkerPC, Tasks, wvars,
       dvars, jvars
  <2>2. LockInv' /\ CallInv'
    BY <1>6 DEF IInv, SpuriousWake, Goto, TypeOK, LockInv, CallInv, Tasks,
       wvars, dvars, jvars
  <2>3. WorkInv'
    BY <1>6 DEF IInv, SpuriousWake, Goto, TypeOK, WorkInv, Owes, Posted, Tasks,
       wvars, dvars, jvars
  <2>4. CountInv'
    <3>1. Finished' = Finished
      BY <1>6 DEF IInv, SpuriousWake, Goto, TypeOK, WorkInv, Finished, Owes,
         Posted, Tasks, wvars, dvars, jvars
    <3>2. QED BY <1>6, <3>1 DEF IInv, SpuriousWake, Goto, CountInv, CallInv,
       Enough, wvars, dvars, jvars
  <2>5. NoLostWake' /\ NoLostCompletion'
    BY <1>6 DEF IInv, SpuriousWake, Goto, TypeOK, LockInv, CallInv, WorkInv,
       Owes, Posted, NoLostWake, NoLostCompletion, Enough, Tasks, wvars, dvars,
       jvars
  <2>6. QED BY <2>1, <2>2, <2>3, <2>4, <2>5 DEF IInv
<1>7. CASE Relock(t)
  <2>1. TypeOK'
    BY <1>7 DEF IInv, Relock, Goto, TypeOK, WorkerPC, Tasks, wvars, dvars,
       jvars
  <2>2. LockInv' /\ CallInv'
    BY <1>7 DEF IInv, Relock, Goto, TypeOK, LockInv, CallInv, Tasks, wvars,
       dvars, jvars
  <2>3. WorkInv'
    BY <1>7 DEF IInv, Relock, Goto, TypeOK, WorkInv, Owes, Posted, Tasks,
       wvars, dvars, jvars
  <2>4. CountInv'
    <3>1. Finished' = Finished
      BY <1>7 DEF IInv, Relock, Goto, TypeOK, WorkInv, Finished, Owes, Posted,
         Tasks, wvars, dvars, jvars
    <3>2. QED BY <1>7, <3>1 DEF IInv, Relock, Goto, CountInv, CallInv, Enough,
       wvars, dvars, jvars
  <2>5. NoLostWake' /\ NoLostCompletion'
    BY <1>7 DEF IInv, Relock, Goto, TypeOK, LockInv, CallInv, WorkInv, Owes,
       Posted, NoLostWake, NoLostCompletion, Enough, Tasks, wvars, dvars,
       jvars
  <2>6. QED BY <2>1, <2>2, <2>3, <2>4, <2>5 DEF IInv
<1>8. CASE Unpark(t)
  <2>1. TypeOK'
    BY <1>8 DEF IInv, Unpark, Goto, TypeOK, WorkerPC, Tasks, wvars, dvars,
       jvars
  <2>2. LockInv' /\ CallInv'
    BY <1>8 DEF IInv, Unpark, Goto, TypeOK, LockInv, CallInv, Tasks, wvars,
       dvars, jvars
  <2>3. WorkInv'
    BY <1>8 DEF IInv, Unpark, Goto, TypeOK, WorkInv, Owes, Posted, Tasks,
       wvars, dvars, jvars
  <2>4. CountInv'
    <3>1. Finished' = Finished
      BY <1>8 DEF IInv, Unpark, Goto, TypeOK, WorkInv, Finished, Owes, Posted,
         Tasks, wvars, dvars, jvars
    <3>2. QED BY <1>8, <3>1 DEF IInv, Unpark, Goto, CountInv, CallInv, Enough,
       wvars, dvars, jvars
  <2>5. NoLostWake' /\ NoLostCompletion'
    BY <1>8 DEF IInv, Unpark, Goto, TypeOK, LockInv, CallInv, WorkInv, Owes,
       Posted, NoLostWake, NoLostCompletion, Enough, Tasks, wvars, dvars,
       jvars
  <2>6. QED BY <2>1, <2>2, <2>3, <2>4, <2>5 DEF IInv
<1>9. CASE ClearWake(t)
  <2>1. TypeOK'
    BY <1>9 DEF IInv, ClearWake, Goto, TypeOK, WorkerPC, Tasks, wvars, dvars,
       jvars
  <2>2. LockInv' /\ CallInv'
    BY <1>9 DEF IInv, ClearWake, Goto, TypeOK, LockInv, CallInv, Tasks, wvars,
       dvars, jvars
  <2>3. WorkInv'
    BY <1>9 DEF IInv, ClearWake, Goto, TypeOK, WorkInv, Owes, Posted, Tasks,
       wvars, dvars, jvars
  <2>4. CountInv'
    <3>1. Finished' = Finished
      BY <1>9 DEF IInv, ClearWake, Goto, TypeOK, WorkInv, Finished, Owes,
         Posted, Tasks, wvars, dvars, jvars
    <3>2. QED BY <1>9, <3>1 DEF IInv, ClearWake, Goto, CountInv, CallInv,
       Enough, wvars, dvars, jvars
  <2>5. NoLostWake' /\ NoLostCompletion'
    BY <1>9 DEF IInv, ClearWake, Goto, TypeOK, LockInv, CallInv, WorkInv, Owes,
       Posted, NoLostWake, NoLostCompletion, Enough, Tasks, wvars, dvars,
       jvars
  <2>6. QED BY <2>1, <2>2, <2>3, <2>4, <2>5 DEF IInv
<1>10. CASE Exec(t)
  <2>0. /\ Posted(t) /\ call # None /\ job[t] = [fn |-> call.fn, arg |-> t]
        /\ ran' = [ran EXCEPT ![t] = <<call.fn>>]
    BY <1>10, ExecAppends
  <2>00. /\ wpc[t] = "exec" /\ wpc' = [wpc EXCEPT ![t] = "count"]
        /\ UNCHANGED <<flag, parked, job, wake_mu, jvars, dvars>>
    BY <1>10 DEF Exec, Goto
  <2>1. TypeOK'
    BY <2>0, <2>00 DEF IInv, TypeOK, WorkerPC, Calls, Tasks, wvars, dvars,
       jvars
  <2>2. LockInv' /\ CallInv'
    BY <2>0, <2>00 DEF IInv, TypeOK, LockInv, CallInv, Tasks, wvars, dvars,
       jvars
  <2>3. WorkInv'
    BY <2>0, <2>00 DEF IInv, TypeOK, WorkInv, Owes, Posted, Tasks, wvars,
       dvars, jvars
  <2>4. CountInv'
    <3>1. Finished' = Finished
      BY <2>0, <2>00 DEF IInv, TypeOK, WorkInv, Finished, Owes, Posted, Tasks,
         wvars, dvars, jvars
    <3>2. QED BY <2>0, <2>00, <3>1 DEF IInv, CountInv, CallInv, Enough, wvars,
       dvars, jvars
  <2>5. NoLostWake' /\ NoLostCompletion'
    BY <2>0, <2>00 DEF IInv, NoLostWake, TypeOK, LockInv, CallInv, WorkInv,
       Owes, Posted, NoLostCompletion, Enough, Tasks, wvars, dvars, jvars
  <2>6. QED BY <2>1, <2>2, <2>3, <2>4, <2>5 DEF IInv
<1>11. CASE Count(t)
  <2>0. /\ t \notin Finished /\ Finished' = Finished \cup {t} /\ call # None
        /\ done_count' = Cardinality(Finished') /\ done_count' \in 0 .. PoolN
    <3>1. Posted(t) /\ call # None /\ wpc[t] = "count" /\ ~flag[t]
      BY <1>11 DEF IInv, Count, Goto, WorkInv, Owes, Posted
    <3>2. t \notin Finished BY <3>1 DEF Finished, Owes
    <3>3. Finished' = Finished \cup {t}
      BY <1>11, <3>1 DEF IInv, Count, Goto, TypeOK, Finished, Owes, Posted,
         wvars, dvars, jvars
    <3>4. IsFiniteSet(Finished) /\ Cardinality(Finished) \in Nat
      BY TasksFinite DEF Finished
    <3>5. Cardinality(Finished') = Cardinality(Finished) + 1
      BY <3>2, <3>3, <3>4, FS_AddElement
    <3>6. Cardinality(Finished') \in 0 .. PoolN
      <4>1. Finished' \in SUBSET Tasks BY <3>3 DEF Finished
      <4>2. QED BY <4>1, TasksFinite
    <3>7. done_count' = Cardinality(Finished')
      BY <1>11, <3>1, <3>5 DEF IInv, Count, CountInv
    <3>8. QED BY <3>1, <3>2, <3>3, <3>6, <3>7
  <2>1. TypeOK'
    BY <1>11, <2>0 DEF IInv, Count, Goto, TypeOK, WorkerPC, Tasks, wvars,
       dvars, jvars
  <2>2. LockInv' /\ CallInv'
    BY <1>11, <2>0 DEF IInv, Count, Goto, TypeOK, LockInv, CallInv, Tasks,
       wvars, dvars, jvars
  <2>3. WorkInv'
    BY <1>11, <2>0 DEF IInv, Count, Goto, TypeOK, WorkInv, Owes, Posted, Tasks,
       wvars, dvars, jvars
  <2>4. CountInv'
    BY <1>11, <2>0 DEF IInv, Count, Goto, TypeOK, CountInv, CallInv, Enough,
       Calls, wvars, dvars, jvars
  <2>5. NoLostWake' /\ NoLostCompletion'
    BY <1>11, <2>0 DEF IInv, Count, Goto, TypeOK, LockInv, CallInv, WorkInv,
       Owes, Posted, NoLostWake, NoLostCompletion, Enough, Tasks, wvars, dvars,
       jvars
  <2>6. QED BY <2>1, <2>2, <2>3, <2>4, <2>5 DEF IInv
<1>12. CASE PeekWaiting(t)
  <2>1. TypeOK'
    BY <1>12 DEF IInv, PeekWaiting, Goto, TypeOK, WorkerPC, Tasks, wvars,
       dvars, jvars
  <2>2. LockInv' /\ CallInv'
    BY <1>12 DEF IInv, PeekWaiting, Goto, TypeOK, LockInv, CallInv, Tasks,
       wvars, dvars, jvars
  <2>3. WorkInv'
    BY <1>12 DEF IInv, PeekWaiting, Goto, TypeOK, WorkInv, Owes, Posted, Tasks,
       wvars, dvars, jvars
  <2>4. CountInv'
    <3>1. Finished' = Finished
      BY <1>12 DEF IInv, PeekWaiting, Goto, TypeOK, WorkInv, Finished, Owes,
         Posted, Tasks, wvars, dvars, jvars
    <3>2. QED BY <1>12, <3>1 DEF IInv, PeekWaiting, Goto, CountInv, CallInv,
       Enough, wvars, dvars, jvars
  <2>5. NoLostWake' /\ NoLostCompletion'
    BY <1>12 DEF IInv, PeekWaiting, Goto, TypeOK, LockInv, CallInv, WorkInv,
       Owes, Posted, NoLostWake, NoLostCompletion, Enough, Tasks, wvars, dvars,
       jvars
  <2>6. QED BY <2>1, <2>2, <2>3, <2>4, <2>5 DEF IInv
<1>13. CASE SignalDone(t)
  <2>1. TypeOK'
    BY <1>13 DEF IInv, SignalDone, Goto, TypeOK, WorkerPC, DriverPC, Tasks,
       wvars, dvars, jvars
  <2>2. LockInv' /\ CallInv'
    BY <1>13 DEF IInv, SignalDone, Goto, TypeOK, LockInv, CallInv, Tasks,
       wvars, dvars, jvars
  <2>3. WorkInv'
    BY <1>13 DEF IInv, SignalDone, Goto, TypeOK, WorkInv, Owes, Posted, Tasks,
       wvars, dvars, jvars
  <2>4. CountInv'
    <3>1. Finished' = Finished
      BY <1>13 DEF IInv, SignalDone, Goto, TypeOK, WorkInv, Finished, Owes,
         Posted, Tasks, wvars, dvars, jvars
    <3>2. QED BY <1>13, <3>1 DEF IInv, SignalDone, Goto, CountInv, CallInv,
       Enough, wvars, dvars, jvars
  <2>5. NoLostWake' /\ NoLostCompletion'
    BY <1>13 DEF IInv, SignalDone, Goto, TypeOK, LockInv, CallInv, WorkInv,
       Owes, Posted, NoLostWake, NoLostCompletion, Enough, Tasks, wvars, dvars,
       jvars
  <2>6. QED BY <2>1, <2>2, <2>3, <2>4, <2>5 DEF IInv
<1>14. QED BY <1>1, <1>2, <1>3, <1>4, <1>5, <1>6, <1>7, <1>8,
  <1>9, <1>10, <1>11, <1>12, <1>13 DEF WorkerStep

(* A step of the driver preserves the invariant.                           *)
LEMMA DriverPreserves ==
  ASSUME IInv, Call \/ DriverStep \/ DriverSpuriousWake
  PROVE  IInv'
<1>1. CASE Call
  <2>1. TypeOK'
    BY <1>1 DEF IInv, Call, DGoto, TypeOK, DriverPC, Calls, Tasks, wvars,
       dvars, jvars
  <2>2. LockInv' /\ CallInv'
    BY <1>1 DEF IInv, Call, DGoto, TypeOK, LockInv, CallInv, Calls, Tasks,
       wvars, dvars, jvars
  <2>3. WorkInv'
    BY <1>1 DEF IInv, Call, DGoto, TypeOK, CallInv, WorkInv, Owes, Posted,
       Calls, Tasks, wvars, dvars, jvars
  <2>4. CountInv'
    <3>1. Finished' = {}
      BY <1>1 DEF IInv, Call, DGoto, TypeOK, CallInv, Finished, Owes, Posted,
         Calls, Tasks, wvars, dvars, jvars
    <3>2. QED BY <1>1, <3>1, FS_EmptySet DEF IInv, Call, DGoto, CountInv,
       wvars, dvars, jvars
  <2>5. NoLostWake' /\ NoLostCompletion'
    BY <1>1 DEF IInv, Call, DGoto, TypeOK, LockInv, CallInv, WorkInv, Owes,
       Posted, NoLostWake, NoLostCompletion, Enough, Calls, Tasks, wvars,
       dvars, jvars
  <2>6. QED BY <2>1, <2>2, <2>3, <2>4, <2>5 DEF IInv
<1>2. CASE Fill
  <2>1. TypeOK'
    BY <1>2 DEF IInv, Fill, DGoto, TypeOK, DriverPC, Calls, Jobs, Tasks,
       CallInv, wvars, dvars, jvars
  <2>2. LockInv' /\ CallInv'
    BY <1>2 DEF IInv, Fill, DGoto, TypeOK, LockInv, CallInv, Tasks, wvars,
       dvars, jvars
  <2>3. WorkInv'
    BY <1>2 DEF IInv, Fill, DGoto, TypeOK, CallInv, WorkInv, Owes, Posted,
       Calls, Tasks, wvars, dvars, jvars
  <2>4. CountInv'
    <3>1. Finished' = Finished
      BY <1>2 DEF IInv, Fill, DGoto, TypeOK, CallInv, WorkInv, Finished, Owes,
         Posted, Calls, Tasks, wvars, dvars, jvars
    <3>2. QED BY <1>2, <3>1 DEF IInv, Fill, DGoto, CountInv, CallInv, Enough,
       wvars, dvars, jvars
  <2>5. NoLostWake' /\ NoLostCompletion'
    BY <1>2 DEF IInv, Fill, DGoto, TypeOK, LockInv, CallInv, WorkInv, Owes,
       Posted, NoLostWake, NoLostCompletion, Enough, Calls, Tasks, wvars,
       dvars, jvars
  <2>6. QED BY <2>1, <2>2, <2>3, <2>4, <2>5 DEF IInv
<1>3. CASE SetWake
  <2>1. TypeOK'
    BY <1>3 DEF IInv, SetWake, DGoto, TypeOK, DriverPC, Calls, Tasks, wvars,
       dvars, jvars
  <2>2. LockInv' /\ CallInv'
    BY <1>3 DEF IInv, SetWake, DGoto, TypeOK, LockInv, CallInv, Tasks, wvars,
       dvars, jvars
  <2>3. WorkInv'
    BY <1>3 DEF IInv, SetWake, DGoto, TypeOK, CallInv, WorkInv, Owes, Posted,
       Calls, Tasks, wvars, dvars, jvars
  <2>4. CountInv'
    <3>1. Finished' = Finished
      BY <1>3 DEF IInv, SetWake, DGoto, TypeOK, CallInv, WorkInv, Finished,
         Owes, Posted, Calls, Tasks, wvars, dvars, jvars
    <3>2. QED BY <1>3, <3>1 DEF IInv, SetWake, DGoto, CountInv, CallInv,
       Enough, wvars, dvars, jvars
  <2>5. NoLostWake' /\ NoLostCompletion'
    BY <1>3 DEF IInv, SetWake, DGoto, TypeOK, LockInv, CallInv, WorkInv, Owes,
       Posted, NoLostWake, NoLostCompletion, Enough, Calls, Tasks, wvars,
       dvars, jvars
  <2>6. QED BY <2>1, <2>2, <2>3, <2>4, <2>5 DEF IInv
<1>4. CASE SkipSignal
  <2>1. TypeOK'
    BY <1>4 DEF IInv, SkipSignal, DGoto, NextWorker, TypeOK, DriverPC, Calls,
       Tasks, wvars, dvars, jvars, CallInv
  <2>2. LockInv' /\ CallInv'
    BY <1>4 DEF IInv, SkipSignal, DGoto, NextWorker, TypeOK, LockInv, CallInv,
       Calls, Tasks, wvars, dvars, jvars
  <2>3. WorkInv'
    BY <1>4 DEF IInv, SkipSignal, DGoto, NextWorker, TypeOK, CallInv, WorkInv,
       Owes, Posted, Calls, Tasks, wvars, dvars, jvars
  <2>4. CountInv'
    <3>1. Finished' = Finished
      BY <1>4 DEF IInv, SkipSignal, DGoto, NextWorker, TypeOK, CallInv,
         WorkInv, Finished, Owes, Posted, Calls, Tasks, wvars, dvars, jvars
    <3>2. QED BY <1>4, <3>1 DEF IInv, SkipSignal, DGoto, NextWorker, CountInv,
       CallInv, Enough, wvars, dvars, jvars
  <2>5. NoLostWake' /\ NoLostCompletion'
    BY <1>4 DEF IInv, SkipSignal, DGoto, NextWorker, TypeOK, LockInv, CallInv,
       WorkInv, Owes, Posted, NoLostWake, NoLostCompletion, Enough, Calls,
       Tasks, wvars, dvars, jvars
  <2>6. QED BY <2>1, <2>2, <2>3, <2>4, <2>5 DEF IInv
<1>5. CASE SeeParked
  <2>1. TypeOK'
    BY <1>5 DEF IInv, SeeParked, DGoto, TypeOK, DriverPC, Calls, Tasks, wvars,
       dvars, jvars
  <2>2. LockInv' /\ CallInv'
    BY <1>5 DEF IInv, SeeParked, DGoto, TypeOK, LockInv, CallInv, Tasks, wvars,
       dvars, jvars
  <2>3. WorkInv'
    BY <1>5 DEF IInv, SeeParked, DGoto, TypeOK, CallInv, WorkInv, Owes, Posted,
       Calls, Tasks, wvars, dvars, jvars
  <2>4. CountInv'
    <3>1. Finished' = Finished
      BY <1>5 DEF IInv, SeeParked, DGoto, TypeOK, CallInv, WorkInv, Finished,
         Owes, Posted, Calls, Tasks, wvars, dvars, jvars
    <3>2. QED BY <1>5, <3>1 DEF IInv, SeeParked, DGoto, CountInv, CallInv,
       Enough, wvars, dvars, jvars
  <2>5. NoLostWake' /\ NoLostCompletion'
    BY <1>5 DEF IInv, SeeParked, DGoto, TypeOK, LockInv, CallInv, WorkInv,
       Owes, Posted, NoLostWake, NoLostCompletion, Enough, Calls, Tasks, wvars,
       dvars, jvars
  <2>6. QED BY <2>1, <2>2, <2>3, <2>4, <2>5 DEF IInv
<1>6. CASE SignalWorker
  <2>1. TypeOK'
    BY <1>6 DEF IInv, SignalWorker, DGoto, NextWorker, TypeOK, WorkerPC,
       DriverPC, Calls, Tasks, wvars, dvars, jvars, CallInv
  <2>2. LockInv' /\ CallInv'
    BY <1>6 DEF IInv, SignalWorker, DGoto, NextWorker, TypeOK, LockInv,
       CallInv, Calls, Tasks, wvars, dvars, jvars
  <2>3. WorkInv'
    BY <1>6 DEF IInv, SignalWorker, DGoto, NextWorker, TypeOK, CallInv,
       WorkInv, Owes, Posted, Calls, Tasks, wvars, dvars, jvars
  <2>4. CountInv'
    <3>1. Finished' = Finished
      BY <1>6 DEF IInv, SignalWorker, DGoto, NextWorker, TypeOK, CallInv,
         WorkInv, Finished, Owes, Posted, Calls, Tasks, wvars, dvars, jvars
    <3>2. QED BY <1>6, <3>1 DEF IInv, SignalWorker, DGoto, NextWorker,
       CountInv, CallInv, Enough, wvars, dvars, jvars
  <2>5. NoLostWake' /\ NoLostCompletion'
    BY <1>6 DEF IInv, SignalWorker, DGoto, NextWorker, TypeOK, LockInv,
       CallInv, WorkInv, Owes, Posted, NoLostWake, NoLostCompletion, Enough,
       Calls, Tasks, wvars, dvars, jvars
  <2>6. QED BY <2>1, <2>2, <2>3, <2>4, <2>5 DEF IInv
<1>7. CASE DriverSpinHit
  <2>0. \A u \in Tasks : ~Owes(u)
    <3>1. call # None /\ Enough
      BY <1>7 DEF IInv, DriverSpinHit, DGoto, CallInv, CountInv
    <3>2. \A u \in 0 .. call.n - 1 : ~Owes(u) BY <3>1, EnoughMeansAll
    <3>3. call.n \in Nat BY <3>1 DEF IInv, TypeOK, Calls
    <3>4. \A u \in Tasks : Owes(u) => u \in 0 .. call.n - 1
      <4>1. ASSUME NEW u \in Tasks, Owes(u) PROVE u < call.n
        BY <4>1 DEF IInv, WorkInv, Posted
      <4>2. QED BY <3>3, <4>1 DEF Tasks
    <3>5. QED BY <3>2, <3>4 DEF Owes
  <2>1. TypeOK'
    BY <1>7, <2>0 DEF IInv, DriverSpinHit, DGoto, TypeOK, DriverPC, Calls,
       Tasks, wvars, dvars, jvars
  <2>2. LockInv' /\ CallInv'
    BY <1>7, <2>0 DEF IInv, DriverSpinHit, DGoto, TypeOK, LockInv, CallInv,
       Tasks, wvars, dvars, jvars
  <2>3. WorkInv'
    BY <1>7, <2>0 DEF IInv, DriverSpinHit, DGoto, TypeOK, LockInv, CallInv,
       WorkInv, Owes, Posted, Calls, Tasks, wvars, dvars, jvars
  <2>4. CountInv'
    BY <1>7 DEF DriverSpinHit, DGoto, CountInv
  <2>5. NoLostWake' /\ NoLostCompletion'
    BY <1>7, <2>0 DEF IInv, DriverSpinHit, DGoto, TypeOK, LockInv, CallInv,
       WorkInv, Owes, Posted, NoLostWake, NoLostCompletion, Enough, Calls,
       Tasks, wvars, dvars, jvars
  <2>6. QED BY <2>1, <2>2, <2>3, <2>4, <2>5 DEF IInv
<1>8. CASE DriverSpinExpire
  <2>1. TypeOK'
    BY <1>8 DEF IInv, DriverSpinExpire, DGoto, TypeOK, DriverPC, Calls, Tasks,
       wvars, dvars, jvars
  <2>2. LockInv' /\ CallInv'
    BY <1>8 DEF IInv, DriverSpinExpire, DGoto, TypeOK, LockInv, CallInv, Tasks,
       wvars, dvars, jvars
  <2>3. WorkInv'
    BY <1>8 DEF IInv, DriverSpinExpire, DGoto, TypeOK, CallInv, WorkInv, Owes,
       Posted, Calls, Tasks, wvars, dvars, jvars
  <2>4. CountInv'
    <3>1. Finished' = Finished
      BY <1>8 DEF IInv, DriverSpinExpire, DGoto, TypeOK, CallInv, WorkInv,
         Finished, Owes, Posted, Calls, Tasks, wvars, dvars, jvars
    <3>2. QED BY <1>8, <3>1 DEF IInv, DriverSpinExpire, DGoto, CountInv,
       CallInv, Enough, wvars, dvars, jvars
  <2>5. NoLostWake' /\ NoLostCompletion'
    BY <1>8 DEF IInv, DriverSpinExpire, DGoto, TypeOK, LockInv, CallInv,
       WorkInv, Owes, Posted, NoLostWake, NoLostCompletion, Enough, Calls,
       Tasks, wvars, dvars, jvars
  <2>6. QED BY <2>1, <2>2, <2>3, <2>4, <2>5 DEF IInv
<1>9. CASE DriverPark
  <2>1. TypeOK'
    BY <1>9 DEF IInv, DriverPark, DGoto, TypeOK, DriverPC, Calls, Tasks, wvars,
       dvars, jvars
  <2>2. LockInv' /\ CallInv'
    BY <1>9 DEF IInv, DriverPark, DGoto, TypeOK, LockInv, CallInv, Tasks,
       wvars, dvars, jvars
  <2>3. WorkInv'
    BY <1>9 DEF IInv, DriverPark, DGoto, TypeOK, CallInv, WorkInv, Owes,
       Posted, Calls, Tasks, wvars, dvars, jvars
  <2>4. CountInv'
    <3>1. Finished' = Finished
      BY <1>9 DEF IInv, DriverPark, DGoto, TypeOK, CallInv, WorkInv, Finished,
         Owes, Posted, Calls, Tasks, wvars, dvars, jvars
    <3>2. QED BY <1>9, <3>1 DEF IInv, DriverPark, DGoto, CountInv, CallInv,
       Enough, wvars, dvars, jvars
  <2>5. NoLostWake' /\ NoLostCompletion'
    BY <1>9 DEF IInv, DriverPark, DGoto, TypeOK, LockInv, CallInv, WorkInv,
       Owes, Posted, NoLostWake, NoLostCompletion, Enough, Calls, Tasks, wvars,
       dvars, jvars
  <2>6. QED BY <2>1, <2>2, <2>3, <2>4, <2>5 DEF IInv
<1>10. CASE DriverCheck
  <2>1. TypeOK'
    BY <1>10 DEF IInv, DriverCheck, DGoto, TypeOK, DriverPC, Calls, Tasks,
       wvars, dvars, jvars
  <2>2. LockInv' /\ CallInv'
    BY <1>10 DEF IInv, DriverCheck, DGoto, TypeOK, LockInv, CallInv, Tasks,
       wvars, dvars, jvars
  <2>3. WorkInv'
    BY <1>10 DEF IInv, DriverCheck, DGoto, TypeOK, CallInv, WorkInv, Owes,
       Posted, Calls, Tasks, wvars, dvars, jvars
  <2>4. CountInv'
    <3>1. Finished' = Finished
      BY <1>10 DEF IInv, DriverCheck, DGoto, TypeOK, CallInv, WorkInv,
         Finished, Owes, Posted, Calls, Tasks, wvars, dvars, jvars
    <3>2. QED BY <1>10, <3>1 DEF IInv, DriverCheck, DGoto, CountInv, CallInv,
       Enough, wvars, dvars, jvars
  <2>5. NoLostWake' /\ NoLostCompletion'
    BY <1>10 DEF IInv, DriverCheck, DGoto, TypeOK, LockInv, CallInv, WorkInv,
       Owes, Posted, NoLostWake, NoLostCompletion, Enough, Calls, Tasks, wvars,
       dvars, jvars
  <2>6. QED BY <2>1, <2>2, <2>3, <2>4, <2>5 DEF IInv
<1>11. CASE DriverSleep
  <2>1. TypeOK'
    BY <1>11 DEF IInv, DriverSleep, DGoto, TypeOK, DriverPC, Calls, Tasks,
       wvars, dvars, jvars
  <2>2. LockInv' /\ CallInv'
    BY <1>11 DEF IInv, DriverSleep, DGoto, TypeOK, LockInv, CallInv, Tasks,
       wvars, dvars, jvars
  <2>3. WorkInv'
    BY <1>11 DEF IInv, DriverSleep, DGoto, TypeOK, CallInv, WorkInv, Owes,
       Posted, Calls, Tasks, wvars, dvars, jvars
  <2>4. CountInv'
    <3>1. Finished' = Finished
      BY <1>11 DEF IInv, DriverSleep, DGoto, TypeOK, CallInv, WorkInv,
         Finished, Owes, Posted, Calls, Tasks, wvars, dvars, jvars
    <3>2. QED BY <1>11, <3>1 DEF IInv, DriverSleep, DGoto, CountInv, CallInv,
       Enough, wvars, dvars, jvars
  <2>5. NoLostWake' /\ NoLostCompletion'
    BY <1>11 DEF IInv, DriverSleep, DGoto, TypeOK, LockInv, CallInv, WorkInv,
       Owes, Posted, NoLostWake, NoLostCompletion, Enough, Calls, Tasks, wvars,
       dvars, jvars
  <2>6. QED BY <2>1, <2>2, <2>3, <2>4, <2>5 DEF IInv
<1>12. CASE DriverSpuriousWake
  <2>1. TypeOK'
    BY <1>12 DEF IInv, DriverSpuriousWake, DGoto, TypeOK, DriverPC, Calls,
       Tasks, wvars, dvars, jvars
  <2>2. LockInv' /\ CallInv'
    BY <1>12 DEF IInv, DriverSpuriousWake, DGoto, TypeOK, LockInv, CallInv,
       Tasks, wvars, dvars, jvars
  <2>3. WorkInv'
    BY <1>12 DEF IInv, DriverSpuriousWake, DGoto, TypeOK, CallInv, WorkInv,
       Owes, Posted, Calls, Tasks, wvars, dvars, jvars
  <2>4. CountInv'
    <3>1. Finished' = Finished
      BY <1>12 DEF IInv, DriverSpuriousWake, DGoto, TypeOK, CallInv, WorkInv,
         Finished, Owes, Posted, Calls, Tasks, wvars, dvars, jvars
    <3>2. QED BY <1>12, <3>1 DEF IInv, DriverSpuriousWake, DGoto, CountInv,
       CallInv, Enough, wvars, dvars, jvars
  <2>5. NoLostWake' /\ NoLostCompletion'
    BY <1>12 DEF IInv, DriverSpuriousWake, DGoto, TypeOK, LockInv, CallInv,
       WorkInv, Owes, Posted, NoLostWake, NoLostCompletion, Enough, Calls,
       Tasks, wvars, dvars, jvars
  <2>6. QED BY <2>1, <2>2, <2>3, <2>4, <2>5 DEF IInv
<1>13. CASE DriverRelock
  <2>1. TypeOK'
    BY <1>13 DEF IInv, DriverRelock, DGoto, TypeOK, DriverPC, Calls, Tasks,
       wvars, dvars, jvars
  <2>2. LockInv' /\ CallInv'
    BY <1>13 DEF IInv, DriverRelock, DGoto, TypeOK, LockInv, CallInv, Tasks,
       wvars, dvars, jvars
  <2>3. WorkInv'
    BY <1>13 DEF IInv, DriverRelock, DGoto, TypeOK, CallInv, WorkInv, Owes,
       Posted, Calls, Tasks, wvars, dvars, jvars
  <2>4. CountInv'
    <3>1. Finished' = Finished
      BY <1>13 DEF IInv, DriverRelock, DGoto, TypeOK, CallInv, WorkInv,
         Finished, Owes, Posted, Calls, Tasks, wvars, dvars, jvars
    <3>2. QED BY <1>13, <3>1 DEF IInv, DriverRelock, DGoto, CountInv, CallInv,
       Enough, wvars, dvars, jvars
  <2>5. NoLostWake' /\ NoLostCompletion'
    BY <1>13 DEF IInv, DriverRelock, DGoto, TypeOK, LockInv, CallInv, WorkInv,
       Owes, Posted, NoLostWake, NoLostCompletion, Enough, Calls, Tasks, wvars,
       dvars, jvars
  <2>6. QED BY <2>1, <2>2, <2>3, <2>4, <2>5 DEF IInv
<1>14. CASE DriverReturn
  <2>0. \A u \in Tasks : ~Owes(u)
    <3>1. call # None /\ Enough
      BY <1>14 DEF IInv, DriverReturn, DGoto, CallInv, CountInv
    <3>2. \A u \in 0 .. call.n - 1 : ~Owes(u) BY <3>1, EnoughMeansAll
    <3>3. call.n \in Nat BY <3>1 DEF IInv, TypeOK, Calls
    <3>4. \A u \in Tasks : Owes(u) => u \in 0 .. call.n - 1
      <4>1. ASSUME NEW u \in Tasks, Owes(u) PROVE u < call.n
        BY <4>1 DEF IInv, WorkInv, Posted
      <4>2. QED BY <3>3, <4>1 DEF Tasks
    <3>5. QED BY <3>2, <3>4 DEF Owes
  <2>1. TypeOK'
    BY <1>14, <2>0 DEF IInv, DriverReturn, DGoto, TypeOK, DriverPC, Calls,
       Tasks, wvars, dvars, jvars
  <2>2. LockInv' /\ CallInv'
    BY <1>14, <2>0 DEF IInv, DriverReturn, DGoto, TypeOK, LockInv, CallInv,
       Tasks, wvars, dvars, jvars
  <2>3. WorkInv'
    BY <1>14, <2>0 DEF IInv, DriverReturn, DGoto, TypeOK, LockInv, CallInv,
       WorkInv, Owes, Posted, Calls, Tasks, wvars, dvars, jvars
  <2>4. CountInv'
    BY <1>14 DEF DriverReturn, DGoto, CountInv
  <2>5. NoLostWake' /\ NoLostCompletion'
    BY <1>14, <2>0 DEF IInv, DriverReturn, DGoto, TypeOK, LockInv, CallInv,
       WorkInv, Owes, Posted, NoLostWake, NoLostCompletion, Enough, Calls,
       Tasks, wvars, dvars, jvars
  <2>6. QED BY <2>1, <2>2, <2>3, <2>4, <2>5 DEF IInv
<1>15. QED BY <1>1, <1>2, <1>3, <1>4, <1>5, <1>6, <1>7, <1>8,
  <1>9, <1>10, <1>11, <1>12, <1>13, <1>14 DEF DriverStep

(* Every step of the pool preserves the invariant, so it always holds.     *)
LEMMA NextIInv == IInv /\ [Next]_vars => IInv'
<1> SUFFICES ASSUME IInv, [Next]_vars PROVE IInv' OBVIOUS
<1>1. CASE Call \/ DriverStep \/ DriverSpuriousWake BY <1>1, DriverPreserves
<1>2. ASSUME NEW t \in Tasks, WorkerStep(t) \/ SpuriousWake(t) PROVE IInv'
  BY <1>2, WorkerPreserves
<1>3. CASE UNCHANGED vars
  BY <1>3 DEF IInv, vars, TypeOK, LockInv, CallInv, WorkInv, CountInv, Finished,
     Owes, Posted, Enough, NoLostWake, NoLostCompletion
<1>4. QED BY <1>1, <1>2, <1>3 DEF Next

(* The inductive invariant holds in every reachable state of the pool.      *)
THEOREM Invariance == Spec => []IInv
<1>1. Init => IInv BY InitIInv
<1>2. IInv /\ [Next]_vars => IInv' BY NextIInv
<1>3. QED BY <1>1, <1>2, PTL DEF Spec

(* Every variable of worker_loop and pool_run keeps its type: the count of *)
(* completions never exceeds pool_n, and no item runs twice in a call.     *)
THEOREM TypeCorrect == Spec => []TypeOK
<1>1. IInv => TypeOK BY DEF IInv
<1>2. QED BY <1>1, Invariance, PTL

(* No wake-up is lost, neither a worker's nor the driver's: whoever sleeps *)
(* although what it waits for has happened still has its signal coming.    *)
THEOREM WakeupsArrive == Spec => [](NoLostWake /\ NoLostCompletion)
<1>1. IInv => NoLostWake /\ NoLostCompletion BY DEF IInv
<1>2. QED BY <1>1, Invariance, PTL

(* No worker touches the arguments of a call after pool_run has returned.  *)
THEOREM ArgsOutliveWork == Spec => []NoUseAfterReturn
<1>1. IInv => NoUseAfterReturn
  BY DEF IInv, WorkInv, Owes, Posted, NoUseAfterReturn
<1>2. QED BY <1>1, Invariance, PTL

-----------------------------------------------------------------------------
(* The pool implements ForkJoin: entering, running an item and returning   *)
(* are its three actions and every other step is a stutter.                *)

(* Nothing runs at first, in either specification.                         *)
LEMMA InitRefines == Init => FJ!Init
  BY DEF Init, FJ!Init, Tasks, FJ!Tasks

(* Entering pool_run begins a call.                                        *)
LEMMA CallRefines == ASSUME IInv, Call PROVE FJ!Begin
  BY DEF IInv, CallInv, Call, DGoto, FJ!Begin, Calls, FJ!Calls, Tasks, FJ!Tasks

(* A worker that runs fn executes an item for the first time.              *)
LEMMA ExecRefines == ASSUME IInv, NEW t \in Tasks, Exec(t) PROVE FJ!Exec(t)
  BY ExecAppends DEF FJ!Exec, Exec, Posted, dvars

(* pool_run returns, from its spin or from its wait, with every item run.  *)
LEMMA ReturnRefines ==
  ASSUME IInv, DriverSpinHit \/ DriverReturn PROVE FJ!Return
<1>1. call # None /\ Enough
  BY DEF IInv, DriverSpinHit, DriverReturn, DGoto, CallInv, CountInv
<1>2. \A t \in 0 .. call.n - 1 : ran[t] = <<call.fn>>
  BY <1>1, EnoughMeansAll DEF IInv, WorkInv, Owes
<1>3. QED BY <1>1, <1>2 DEF FJ!Return, DriverSpinHit, DriverReturn

(* Every step is one of ForkJoin's or leaves call and ran alone.           *)
LEMMA StepRefines == IInv /\ [Next]_vars => [FJ!Next]_FJ!vars
<1> SUFFICES ASSUME IInv, [Next]_vars PROVE [FJ!Next]_FJ!vars OBVIOUS
<1>1. CASE Call BY <1>1, CallRefines DEF FJ!Next
<1>2. CASE DriverSpinHit \/ DriverReturn BY <1>2, ReturnRefines DEF FJ!Next
<1>3. ASSUME NEW t \in Tasks, Exec(t) PROVE FJ!Next
  BY <1>3, ExecRefines DEF FJ!Next, Tasks, FJ!Tasks
<1>4. CASE DriverSpuriousWake \/ (DriverStep /\ ~DriverSpinHit /\ ~DriverReturn)
  BY <1>4 DEF DriverStep, Fill, SetWake, SkipSignal, SeeParked, SignalWorker,
     DriverSpinExpire, DriverPark, DriverCheck, DriverSleep, DriverRelock,
     DriverSpuriousWake, FJ!vars
<1>5. ASSUME NEW t \in Tasks, SpuriousWake(t) \/ (WorkerStep(t) /\ ~Exec(t))
      PROVE  UNCHANGED FJ!vars
  BY <1>5 DEF WorkerStep, SpinHit, SpinExpire, Park, CheckWake, Sleep, Relock,
     Unpark, ClearWake, Count, PeekWaiting, SignalDone, SpuriousWake, dvars,
     FJ!vars
<1>6. CASE UNCHANGED vars BY <1>6 DEF vars, FJ!vars
<1>7. QED BY <1>1, <1>2, <1>3, <1>4, <1>5, <1>6 DEF Next

(* What pool_run promises its callers: every item of a call runs exactly   *)
(* once, on that call's function, before the call returns.                 *)
THEOREM PoolRefinesForkJoin == Spec => ImplementsForkJoin
<1>1. Init => FJ!Init BY InitRefines
<1>2. IInv /\ [Next]_vars => [FJ!Next]_FJ!vars BY StepRefines
<1>3. QED BY <1>1, <1>2, Invariance, PTL DEF Spec, ImplementsForkJoin, FJ!Spec
=============================================================================
