------------------------------ MODULE ForkJoin ------------------------------
(***************************************************************************)
(* What veritate_pool_run promises its callers (portability.h:40-41): it   *)
(* hands one work item to each of n workers and returns only when all of   *)
(* them have run.  Nothing is said here of flags, mutexes or condition     *)
(* variables: ThreadPool shows that they keep this promise.                *)
(***************************************************************************)
EXTENDS Naturals, Sequences

CONSTANTS
  PoolN,   \* number of pool workers, pool_n
  Fns,     \* the work functions a caller may dispatch
  None     \* "no call in progress"

Tasks == 0 .. PoolN - 1

VARIABLES
  call,    \* None, or the arguments of the pool_run call in progress
  ran      \* ran[t]: the work functions applied to args[t] in this call

vars == <<call, ran>>

Calls == [fn : Fns, n : 1 .. PoolN]

Init == call = None /\ ran = [t \in Tasks |-> <<>>]

\* A caller enters pool_run.
Begin == /\ call = None
         /\ call' \in Calls
         /\ ran' = [t \in Tasks |-> <<>>]

\* The work function runs on args[t]: once, for a t the caller asked for.
Exec(t) == /\ call # None
           /\ t < call.n
           /\ ran[t] = <<>>
           /\ ran' = [ran EXCEPT ![t] = <<call.fn>>]
           /\ call' = call

\* pool_run returns, with nothing left to run.
Return == /\ call # None
          /\ \A t \in 0 .. call.n - 1 : ran[t] = <<call.fn>>
          /\ call' = None
          /\ ran' = ran

Next == Begin \/ (\E t \in Tasks : Exec(t)) \/ Return

Spec == Init /\ [][Next]_vars
=============================================================================
