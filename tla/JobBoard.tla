------------------------------ MODULE JobBoard ------------------------------
(***************************************************************************)
(* What the mesh hub (veritate_mesh/hub.py, registry.py) promises while    *)
(* only nodes and the hub itself fail: a job is taken by one node at a     *)
(* time, and its one result is that of the node that has it.               *)
(***************************************************************************)
CONSTANTS Nodes, Jobs, None

VARIABLES
  phase,  \* of each job: new, posted, taken, finished, or lost with the hub
  owner,  \* the node that has it, or had it last
  result  \* the node whose result it has

Init ==
  /\ phase = [j \in Jobs |-> "new"]
  /\ owner = [j \in Jobs |-> None]
  /\ result = [j \in Jobs |-> None]

Post(j) ==
  /\ phase[j] = "new" /\ phase' = [phase EXCEPT ![j] = "posted"]
  /\ UNCHANGED <<owner, result>>

Take(j, n) ==
  /\ phase[j] = "posted" /\ phase' = [phase EXCEPT ![j] = "taken"]
  /\ owner' = [owner EXCEPT ![j] = n]
  /\ UNCHANGED result

GiveBack(S) ==
  /\ \A j \in S : phase[j] = "taken"
  /\ phase' = [j \in Jobs |-> IF j \in S THEN "posted" ELSE phase[j]]
  /\ owner' = [j \in Jobs |-> IF j \in S THEN None ELSE owner[j]]
  /\ UNCHANGED result

Finish(j) ==
  /\ phase[j] = "taken" /\ phase' = [phase EXCEPT ![j] = "finished"]
  /\ result' = [result EXCEPT ![j] = owner[j]]
  /\ UNCHANGED owner

\* Nothing is persisted.
Vanish ==
  /\ phase' = [j \in Jobs |-> IF phase[j] = "new" THEN "new" ELSE "lost"]
  /\ owner' = [j \in Jobs |-> None]
  /\ result' = [j \in Jobs |-> None]

Next ==
  \/ \E j \in Jobs : Post(j) \/ Finish(j) \/ \E n \in Nodes : Take(j, n)
  \/ \E S \in SUBSET Jobs : GiveBack(S)
  \/ Vanish

Spec == Init /\ [][Next]_<<phase, owner, result>>
=============================================================================
