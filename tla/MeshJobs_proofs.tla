-------------------------- MODULE MeshJobs_proofs --------------------------
(***************************************************************************)
(* Proofs about MeshJobs: why two nodes work on one job only if the hub    *)
(* has given up one of them, whatever calls are lost, and that without     *)
(* lost calls the hub implements JobBoard, and that a fault costs one job. *)
(*                                                                         *)
(* MeshInv is inductive as long as no node registers between the sweeper's *)
(* list and its requeue.  Most steps give no job to anybody, which Mild    *)
(* says once for all of them; the claims, the submission, the restart of   *)
(* the hub and the sweeper are taken one by one.                           *)
(***************************************************************************)
EXTENDS MeshJobs, TLAPS, FiniteSetTheorems, WellFoundedInduction

\* The job a node claims is one that waits in the queue (registry.py 113-123).
LEMMA OldestPending ==
  ASSUME NEW n \in Nodes, queue \in Seq(Jobs), Claimable(n) # {}
  PROVE  Oldest(n) \in Jobs /\ status[Oldest(n)] = "pending"
<1>1. Claimable(n) \subseteq Nat
  BY DEF Claimable
<1>2. PICK i \in Claimable(n) : \A k \in Claimable(n) : <<k, i>> \notin OpToRel(<, Nat)
  BY <1>1, NatLessThanWellFounded, WFMin
<1>3. \A k \in Claimable(n) : i <= k
  <2> TAKE k \in Claimable(n)
  <2>1. k \in Nat /\ i \in Nat
    BY <1>1
  <2>2. ~(k < i)
    BY <1>2, <2>1 DEF OpToRel
  <2> QED
    BY <2>1, <2>2
<1>4. (CHOOSE j \in Claimable(n) : \A k \in Claimable(n) : j <= k) \in Claimable(n)
  BY <1>3
<1> QED
  BY <1>4 DEF Oldest, Claimable

-----------------------------------------------------------------------------
(* Most steps give no job to anybody: what they may do is stated once.      *)

\* The hub may still claim a job for the node.
Gives(n) == npc[n] = "poll" \/ ghost[n]

\* What a step that gives no job to anybody may do.
Mild ==
  /\ UNCHANGED <<queue, assigned_to, dropped>>
  /\ nodes \subseteq nodes'
  /\ sweep' = "requeue" => known' = nodes'
  /\ \A j \in Jobs : status'[j] = status[j]
                     \/ (Known(j) /\ status'[j] \in {"running", "done", "failed"})
  /\ \A n \in Nodes : Gives(n)' => n \in nodes' \cup dropped
  /\ \A n \in Nodes : current'[n] \in {current[n], None}

\* A step that gives no job away keeps who works on what.
LEMMA MildKeeps ==
  ASSUME MeshInv, Mild, TypeOK'
  PROVE  MeshInv'
<1> USE DEF MeshInv, Mild
<1>1. QueueOnce'
  <2>1. \A i \in DOMAIN queue : queue[i] \in Jobs
    BY DEF TypeOK
  <2> QED
    BY <2>1 DEF QueueOnce, Known
<1>2. ClaimersKnown'
  BY DEF ClaimersKnown, Gives
<1>3. HoldsItsOwn'
  <2> SUFFICES ASSUME NEW n \in Nodes \ dropped, current'[n] # None,
                      status'[current'[n]] # "lost"
               PROVE  /\ status'[current'[n]] \notin {"new", "pending"}
                      /\ assigned_to[current'[n]] = n /\ n \in nodes'
    BY DEF HoldsItsOwn
  <2>1. current'[n] = current[n] /\ current[n] \in Jobs
    BY DEF TypeOK
  <2>2. status[current[n]] # "lost"
    BY <2>1 DEF Known
  <2> QED
    BY <2>1, <2>2 DEF HoldsItsOwn
<1>4. SweepsTheKnown'
  BY DEF SweepsTheKnown
<1>5. ExclusiveJob'
  BY DEF ExclusiveJob
<1> QED
  BY <1>1, <1>2, <1>3, <1>4, <1>5

\* So does the claim of a job that waits (registry.py 113-123).
LEMMA ClaimKeeps ==
  ASSUME MeshInv, TypeOK', NEW n \in Nodes, n \in nodes \cup dropped, ClaimFor(n),
         UNCHANGED <<reg, swp>>,
         \A m \in Nodes : Gives(m)' => Gives(m),
         \A m \in Nodes : current'[m] = current[m] \/ (m = n /\ current'[m] = Oldest(n))
  PROVE  MeshInv'
<1> DEFINE o == Oldest(n)
<1> USE DEF MeshInv, reg, swp
<1>1. o \in Jobs /\ status[o] = "pending"
  BY OldestPending DEF TypeOK, ClaimFor
<1>2. /\ status' = [status EXCEPT ![o] = "assigned"] /\ queue' = queue
      /\ assigned_to' = [assigned_to EXCEPT ![o] = n]
  BY DEF ClaimFor
<1> HIDE DEF o
<1>3. QueueOnce'
  <2>1. \A i \in DOMAIN queue : queue[i] \in Jobs
    BY DEF TypeOK
  <2> QED
    BY <1>1, <1>2, <2>1 DEF QueueOnce, Known, TypeOK
<1>4. ClaimersKnown'
  BY DEF ClaimersKnown, Gives
<1>5. \A m \in Nodes \ dropped : current[m] # o
  BY <1>1, MeshAssumption DEF HoldsItsOwn
<1>6. HoldsItsOwn'
  <2> SUFFICES ASSUME NEW m \in Nodes \ dropped, current'[m] # None,
                      status'[current'[m]] # "lost"
               PROVE  /\ status'[current'[m]] \notin {"new", "pending"}
                      /\ assigned_to'[current'[m]] = m /\ m \in nodes'
    BY DEF HoldsItsOwn
  <2>1. CASE current'[m] = current[m]
    <3>1. current[m] \in Jobs /\ current[m] # o
      BY <1>5, <2>1 DEF TypeOK
    <3> QED
      BY <1>1, <1>2, <2>1, <3>1 DEF HoldsItsOwn, TypeOK
  <2>2. CASE m = n /\ current'[m] = o
    BY <1>1, <1>2, <2>2 DEF TypeOK
  <2> QED
    BY <2>1, <2>2 DEF o
<1>7. SweepsTheKnown'
  BY DEF SweepsTheKnown
<1>8. ExclusiveJob'
  <2> SUFFICES ASSUME NEW a \in Nodes, NEW b \in Nodes, a # b, current'[a] = current'[b],
                      current'[a] # None
               PROVE  {a, b} \cap dropped # {}
    BY DEF ExclusiveJob
  <2>1. CASE current'[a] = current[a] /\ current'[b] = current[b]
    BY <2>1 DEF ExclusiveJob
  <2>2. CASE a = n /\ current'[a] = o
    BY <1>5, <2>2 DEF o
  <2>3. CASE b = n /\ current'[b] = o
    BY <1>5, <2>3 DEF o
  <2> QED
    BY <2>1, <2>2, <2>3 DEF o
<1> QED
  BY <1>3, <1>4, <1>6, <1>7, <1>8

-----------------------------------------------------------------------------
(* The actions, one after the other.                                       *)

\* What Next may do for one node.
NodeActs(n) == Worker(n) \/ Ghost(n) \/ Progress(n) \/ Lost(n) \/ Death(n) \/ Return(n)

\* The hub's tables and the nodes' variables keep their types (registry.py, node.py).
LEMMA StepType ==
  ASSUME TypeOK, Next
  PROVE  TypeOK'
<1> USE MeshAssumption DEF TypeOK, Statuses, reg, jobs, swp, node
<1>0. faults' \in 0 .. MaxFaults
  BY DEF Next, Worker, Ghost, Lost, Sweep, Register, RegisterLost, Heartbeat, HeartbeatUnknown,
    HeartbeatLost, Poll, PollUnknown, Claim, PollEmpty, PollLost, GhostClaim, GhostEnds, Deliver,
    ReplyLost, Work, Progress, Report, ReportLost, ReportCut, ReportFailure, Death, Return,
    HubRestart, Submit, ExpireStale, ListAll, RequeueOrphaned, Fault
<1>1. ASSUME NEW n \in Nodes, NodeActs(n)
      PROVE  TypeOK'
  <2>1. CASE Register(n)
    BY <1>0, <2>1 DEF Register, NodeRegistered, Goto
  <2>2. CASE RegisterLost(n)
    BY <1>0, <2>2 DEF RegisterLost, NodeRegistered, Goto
  <2>3. CASE Heartbeat(n)
    BY <1>0, <2>3 DEF Heartbeat
  <2>4. CASE HeartbeatUnknown(n)
    BY <1>0, <2>4 DEF HeartbeatUnknown
  <2>5. CASE HeartbeatLost(n)
    BY <1>0, <2>5 DEF HeartbeatLost
  <2>6. CASE Poll(n)
    BY <1>0, <2>6 DEF Poll
  <2>7. CASE PollUnknown(n)
    BY <1>0, <2>7 DEF PollUnknown
  <2>8. CASE GhostEnds(n)
    BY <1>0, <2>8 DEF GhostEnds
  <2>9. CASE Death(n)
    BY <1>0, <2>9 DEF Death
  <2>10. CASE Progress(n)
    BY <1>0, <2>10 DEF Progress
  <2>11. CASE PollEmpty(n)
    BY <1>0, <2>11 DEF PollEmpty, Goto
  <2>12. CASE PollLost(n)
    BY <1>0, <2>12 DEF PollLost, Goto
  <2>13. CASE Deliver(n)
    BY <1>0, <2>13 DEF Deliver, Goto
  <2>14. CASE ReplyLost(n)
    BY <1>0, <2>14 DEF ReplyLost, Goto
  <2>15. CASE Work(n)
    BY <1>0, <2>15 DEF Work, Goto
  <2>16. CASE ReportLost(n)
    BY <1>0, <2>16 DEF ReportLost, Goto
  <2>17. CASE Return(n)
    BY <1>0, <2>17 DEF Return, Goto
  <2>18. CASE ReportFailure(n)
    BY <1>0, <2>18 DEF ReportFailure, Goto
  <2>19. CASE Claim(n)
    <3>1. Oldest(n) \in Jobs
      BY <2>19, OldestPending DEF Claim, ClaimFor
    <3> QED
      BY <1>0, <2>19, <3>1 DEF Claim, ClaimFor, Goto
  <2>20. CASE GhostClaim(n)
    <3>1. Oldest(n) \in Jobs
      BY <2>20, OldestPending DEF GhostClaim, ClaimFor
    <3> QED
      BY <1>0, <2>20, <3>1 DEF GhostClaim, ClaimFor, Goto
  <2>21. CASE Report(n)
    <3>1. status' \in [Jobs -> Statuses] /\ result' \in [Jobs -> Nodes \cup {None}]
      BY <2>21 DEF Report, MarkDone
    <3>2. UNCHANGED <<queue, assigned_to>>
      BY <2>21 DEF Report, MarkDone
    <3> QED
      BY <1>0, <2>21, <3>1, <3>2 DEF Report, Goto
  <2>22. CASE ReportCut(n)
    <3>1. status' \in [Jobs -> Statuses] /\ result' \in [Jobs -> Nodes \cup {None}]
      BY <2>22 DEF ReportCut, MarkDone
    <3>2. UNCHANGED <<queue, assigned_to>>
      BY <2>22 DEF ReportCut, MarkDone
    <3> QED
      BY <1>0, <2>22, <3>1, <3>2 DEF ReportCut, Goto
  <2> QED
    BY <1>1, <2>1, <2>2, <2>3, <2>4, <2>5, <2>6, <2>7, <2>8, <2>9, <2>10, <2>11, <2>12,
      <2>13, <2>14, <2>15, <2>16, <2>17, <2>18, <2>19, <2>20, <2>21, <2>22
    DEF NodeActs, Worker, Ghost, Lost
<1>2. ASSUME NEW j \in Jobs, Submit(j)
      PROVE  TypeOK'
  BY <1>2 DEF Submit
<1>3. CASE HubRestart
  BY <1>0, <1>3 DEF HubRestart
<1>4. CASE ExpireStale
  BY <1>4 DEF ExpireStale, Stale
<1>5. CASE ListAll
  BY <1>5 DEF ListAll
<1>6. CASE RequeueOrphaned
  BY <1>6 DEF RequeueOrphaned
<1> QED
  BY <1>1, <1>2, <1>3, <1>4, <1>5, <1>6 DEF Next, NodeActs, Sweep

\* The steps of nodes but the claim are mild, and so are some of the others.
LEMMA NodeStepMild ==
  ASSUME MeshInv, ~MidSweep, NEW n \in Nodes, NodeActs(n), ~Claim(n), ~GhostClaim(n)
  PROVE  Mild
<1> USE DEF Mild, Gives, MeshInv, TypeOK, ClaimersKnown, SweepsTheKnown, reg, jobs, swp, node
<1>1. CASE Register(n)
  BY <1>1 DEF Register, NodeRegistered, Goto
<1>2. CASE RegisterLost(n)
  BY <1>2 DEF RegisterLost, NodeRegistered, Goto
<1>3. CASE Heartbeat(n)
  BY <1>3 DEF Heartbeat
<1>4. CASE HeartbeatUnknown(n)
  BY <1>4 DEF HeartbeatUnknown
<1>5. CASE HeartbeatLost(n)
  BY <1>5 DEF HeartbeatLost
<1>6. CASE Poll(n)
  BY <1>6 DEF Poll
<1>7. CASE PollUnknown(n)
  BY <1>7 DEF PollUnknown
<1>8. CASE GhostEnds(n)
  BY <1>8 DEF GhostEnds
<1>9. CASE Death(n)
  BY <1>9 DEF Death
<1>10. CASE Progress(n)
  BY <1>10 DEF Progress
<1>11. CASE PollEmpty(n)
  BY <1>11 DEF PollEmpty, Goto
<1>12. CASE PollLost(n)
  BY <1>12 DEF PollLost, Goto
<1>13. CASE Deliver(n)
  BY <1>13 DEF Deliver, Goto
<1>14. CASE ReplyLost(n)
  BY <1>14 DEF ReplyLost, Goto
<1>15. CASE Work(n)
  BY <1>15 DEF Work, Goto
<1>16. CASE ReportLost(n)
  BY <1>16 DEF ReportLost, Goto
<1>17. CASE Return(n)
  BY <1>17 DEF Return, Goto
<1>18. CASE ReportFailure(n)
  BY <1>18 DEF ReportFailure, Goto
<1>19. CASE Report(n)
  BY <1>19 DEF Report, Goto, MarkDone
<1>20. CASE ReportCut(n)
  BY <1>20 DEF ReportCut, Goto, MarkDone
<1> QED
  BY <1>1, <1>2, <1>3, <1>4, <1>5, <1>6, <1>7, <1>8, <1>9, <1>10, <1>11, <1>12, <1>13, <1>14,
    <1>15, <1>16, <1>17, <1>18, <1>19, <1>20
  DEF NodeActs, Worker, Ghost, Lost

\* Nothing but a claim lets two nodes work on one job (registry.py 113-123, hub.py 152-174).
LEMMA StepKeeps ==
  ASSUME MeshInv, ~MidSweep, Next
  PROVE  MeshInv'
<1>0. TypeOK'
  BY StepType DEF MeshInv
<1>1. ASSUME NEW n \in Nodes, Claim(n)
      PROVE  MeshInv'
  <2>1. n \in nodes \cup dropped
    BY <1>1 DEF Claim, Goto, MeshInv, ClaimersKnown
  <2>2. \A m \in Nodes : Gives(m)' => Gives(m)
    BY <1>1 DEF Claim, Goto, Gives, MeshInv, TypeOK
  <2>3. \A m \in Nodes : current'[m] = current[m] \/ (m = n /\ current'[m] = Oldest(n))
    BY <1>1 DEF Claim, MeshInv, TypeOK
  <2> QED
    BY <1>0, <1>1, <2>1, <2>2, <2>3, ClaimKeeps DEF Claim
<1>2. ASSUME NEW n \in Nodes, GhostClaim(n)
      PROVE  MeshInv'
  <2>1. n \in nodes \cup dropped
    BY <1>2 DEF GhostClaim, MeshInv, ClaimersKnown
  <2>2. \A m \in Nodes : Gives(m)' => Gives(m)
    BY <1>2 DEF GhostClaim, Gives, MeshInv, TypeOK
  <2> QED
    BY <1>0, <1>2, <2>1, <2>2, ClaimKeeps DEF GhostClaim
<1>3. ASSUME NEW n \in Nodes, NodeActs(n), ~Claim(n), ~GhostClaim(n)
      PROVE  MeshInv'
  BY <1>0, <1>3, NodeStepMild, MildKeeps
<1>4. CASE ListAll
  <2>1. Mild
    BY <1>4 DEF ListAll, Mild, Gives, MeshInv, ClaimersKnown, reg, jobs, node
  <2> QED
    BY <1>0, <2>1, MildKeeps
<1>5. ASSUME NEW j \in Jobs, Submit(j)
      PROVE  MeshInv'
  <2> USE <1>5 DEF Submit, MeshInv, TypeOK, reg, swp, node
  <2>1. QueueOnce'
    <3>1. queue' \in Seq(Jobs) /\ Len(queue') = Len(queue) + 1
          /\ queue'[Len(queue) + 1] = j
          /\ \A i \in 1 .. Len(queue) : queue'[i] = queue[i]
      OBVIOUS
    <3>2. \A i \in 1 .. Len(queue) : queue[i] \in Jobs /\ queue[i] # j
      BY DEF QueueOnce, Known
    <3>3. DOMAIN queue = 1 .. Len(queue) /\ DOMAIN queue' = 1 .. (Len(queue) + 1)
      BY <3>1
    <3>4. \A i \in DOMAIN queue' : status'[queue'[i]] \notin {"new", "lost"}
      <4> SUFFICES ASSUME NEW i \in 1 .. (Len(queue) + 1)
                   PROVE  status'[queue'[i]] \notin {"new", "lost"}
        BY <3>3
      <4>1. CASE i = Len(queue) + 1
        BY <3>1, <4>1
      <4>2. CASE i \in 1 .. Len(queue)
        <5>1. status[queue[i]] \notin {"new", "lost"}
          BY <3>3, <4>2 DEF QueueOnce, Known
        <5> QED
          BY <3>1, <3>2, <4>2, <5>1
      <4> QED
        BY <3>1, <4>1, <4>2
    <3>5. \A i, k \in DOMAIN queue' : queue'[i] = queue'[k] => i = k
      <4> SUFFICES ASSUME NEW i \in 1 .. (Len(queue) + 1), NEW k \in 1 .. (Len(queue) + 1),
                          queue'[i] = queue'[k]
                   PROVE  i = k
        BY <3>3
      <4>1. Len(queue) \in Nat
        OBVIOUS
      <4>2. CASE i \in 1 .. Len(queue) /\ k \in 1 .. Len(queue)
        BY <3>1, <3>3, <4>2 DEF QueueOnce
      <4>3. CASE i = Len(queue) + 1 \/ k = Len(queue) + 1
        BY <3>1, <3>2, <4>1, <4>3
      <4> QED
        BY <4>1, <4>2, <4>3
    <3> QED
      BY <3>4, <3>5 DEF QueueOnce, Known
  <2>2. HoldsItsOwn'
    BY MeshAssumption DEF HoldsItsOwn
  <2> QED
    BY <1>0, <2>1, <2>2 DEF ClaimersKnown, SweepsTheKnown, ExclusiveJob
<1>6. CASE HubRestart
  <2> USE <1>6 DEF HubRestart, MeshInv, TypeOK
  <2>1. QueueOnce'
    BY DEF QueueOnce
  <2>2. ClaimersKnown'
    BY DEF ClaimersKnown
  <2>3. HoldsItsOwn'
    BY MeshAssumption DEF HoldsItsOwn
  <2>4. ExclusiveJob'
    BY DEF ExclusiveJob
  <2> QED
    BY <1>0, <2>1, <2>2, <2>3, <2>4 DEF SweepsTheKnown
<1>7. CASE ExpireStale
  <2> USE <1>7 DEF ExpireStale, MeshInv, jobs, node
  <2>1. QueueOnce'
    BY DEF QueueOnce, Known
  <2>2. ClaimersKnown'
    BY DEF ClaimersKnown
  <2>3. HoldsItsOwn'
    BY DEF HoldsItsOwn
  <2>4. ExclusiveJob'
    BY DEF ExclusiveJob
  <2> QED
    BY <1>0, <2>1, <2>2, <2>3, <2>4 DEF SweepsTheKnown
<1>8. CASE RequeueOrphaned
  <2> USE <1>8 DEF RequeueOrphaned, MeshInv, TypeOK, reg, node
  <2>1. QueueOnce'
    <3>1. \A i \in DOMAIN queue : queue[i] \in Jobs
      OBVIOUS
    <3> QED
      BY <3>1 DEF QueueOnce, Known
  <2>2. HoldsItsOwn'
    <3> SUFFICES ASSUME NEW n \in Nodes \ dropped, current[n] # None,
                        status'[current[n]] # "lost"
                 PROVE  /\ status'[current[n]] \notin {"new", "pending"}
                        /\ assigned_to'[current[n]] = n /\ n \in nodes
      BY DEF HoldsItsOwn
    <3>1. current[n] \in Jobs
      OBVIOUS
    <3>2. status[current[n]] # "lost"
      BY <3>1 DEF Orphans, ACTIVE_JOB_STATUSES
    <3>3. current[n] \notin Orphans
      BY <3>1, <3>2 DEF HoldsItsOwn, Orphans, SweepsTheKnown
    <3> QED
      BY <3>1, <3>2, <3>3 DEF HoldsItsOwn
  <2> QED
    BY <1>0, <2>1, <2>2 DEF ClaimersKnown, ExclusiveJob, SweepsTheKnown
<1> QED
  BY <1>1, <1>2, <1>3, <1>4, <1>5, <1>6, <1>7, <1>8 DEF Next, NodeActs, Sweep

\* At the start nobody is registered and no job is known.
LEMMA InitHolds == Init => MeshInv
<1> SUFFICES ASSUME Init
             PROVE  MeshInv
  OBVIOUS
<1>1. TypeOK
  BY MeshAssumption DEF Init, TypeOK, Statuses
<1>2. QueueOnce
  BY DEF Init, QueueOnce
<1> QED
  BY <1>1, <1>2 DEF Init, MeshInv, ClaimersKnown, HoldsItsOwn, SweepsTheKnown, ExclusiveJob

\* Where no node registers between the sweeper's list and its requeue, the tables of the hub
\* agree with what its nodes do, whatever calls are lost and whoever dies or returns.
THEOREM HubAndNodesAgree ==
  ASSUME ~MidSweep
  PROVE  Spec => []MeshInv
<1>1. MeshInv /\ [Next]_vars => MeshInv'
  <2> SUFFICES ASSUME MeshInv, [Next]_vars
               PROVE  MeshInv'
    OBVIOUS
  <2>1. CASE Next
    BY <2>1, StepKeeps
  <2>2. CASE UNCHANGED vars
    BY <2>2 DEF vars, reg, jobs, swp, node, MeshInv, TypeOK, QueueOnce, Known, ClaimersKnown,
      HoldsItsOwn, SweepsTheKnown, ExclusiveJob
  <2> QED
    BY <2>1, <2>2
<1> QED
  BY <1>1, InitHolds, PTL DEF Spec

\* Two nodes work on one job only if the hub has given up one of them (registry.py 113-123,
\* 177-190): for any number of nodes, jobs and faults.
THEOREM OneNodeAtAJob ==
  ASSUME ~MidSweep
  PROVE  Spec => []ExclusiveJob
<1>1. MeshInv => ExclusiveJob
  BY DEF MeshInv
<1> QED
  BY <1>1, HubAndNodesAgree, PTL

\* A job is taken back only from a node that has vanished from the registry
\* (registry.py 177-190), whatever calls are lost and whoever returns.
THEOREM TakesBackFromVanished ==
  ASSUME ~MidSweep
  PROVE  Spec => RequeuesVanished
<1> DEFINE TakesBack(j) == status[j] \in ACTIVE_JOB_STATUSES /\ status'[j] = "pending"
<1>1. ASSUME MeshInv, [Next]_vars, NEW j \in Jobs, TakesBack(j)
      PROVE  assigned_to[j] \notin nodes
  <2> USE DEF ACTIVE_JOB_STATUSES
  <2>0. TypeOK
    BY <1>1 DEF MeshInv
  <2>1. ASSUME NEW n \in Nodes, Claim(n) \/ GhostClaim(n)
        PROVE  FALSE
    <3>1. status' = [status EXCEPT ![Oldest(n)] = "assigned"]
      BY <2>1 DEF Claim, GhostClaim, ClaimFor
    <3> QED
      BY <1>1, <2>0, <3>1 DEF TypeOK
  <2>2. ASSUME NEW n \in Nodes, NodeActs(n), ~Claim(n), ~GhostClaim(n)
        PROVE  FALSE
    BY <1>1, <2>2, NodeStepMild DEF Mild
  <2>3. ASSUME NEW i \in Jobs, Submit(i)
        PROVE  FALSE
    BY <1>1, <2>0, <2>3 DEF Submit, TypeOK
  <2>4. ~HubRestart
    BY <1>1 DEF HubRestart
  <2>5. ~ExpireStale /\ ~ListAll /\ ~(UNCHANGED vars)
    BY <1>1 DEF ExpireStale, ListAll, vars, jobs
  <2>6. CASE RequeueOrphaned
    BY <1>1, <2>6 DEF RequeueOrphaned, Orphans, MeshInv, SweepsTheKnown
  <2> QED
    BY <1>1, <2>1, <2>2, <2>3, <2>4, <2>5, <2>6 DEF Next, NodeActs, Sweep
<1>2. MeshInv /\ [Next]_vars
        => [\A j \in Jobs : status[j] \in ACTIVE_JOB_STATUSES /\ status'[j] = "pending"
                              => assigned_to[j] \notin nodes]_vars
  BY <1>1
<1> QED
  BY <1>2, HubAndNodesAgree, PTL DEF Spec, RequeuesVanished

-----------------------------------------------------------------------------
(* The hub implements the board, when only nodes and the hub itself fail.  *)

\* Nothing but nodes and the hub fails, and nobody registers in the middle of a sweep.
Failstop == Kinds \subseteq {"death", "hub"} /\ ~MidSweep

\* Then whoever the hub drops has ended, and nobody works on a job that has (hub.py 261-272).
LEMMA StepBoard ==
  ASSUME Failstop, MeshInv, BoardInv, MeshInv', Next
  PROVE  BoardInv'
<1> USE MeshAssumption DEF Failstop, Fault, ACTIVE_JOB_STATUSES
<1> USE DEF BoardInv, reg, jobs, swp, node
<1>0. TypeOK
  BY DEF MeshInv
<1>1. ASSUME NEW n \in Nodes, NodeActs(n)
      PROVE  BoardInv'
  <2>1. CASE Register(n)
    BY <1>0, <2>1 DEF TypeOK, Register, NodeRegistered, Goto
  <2>2. CASE Heartbeat(n)
    BY <1>0, <2>2 DEF TypeOK, Heartbeat, Due
  <2>3. CASE HeartbeatUnknown(n)
    BY <1>0, <2>3 DEF TypeOK, HeartbeatUnknown, Due
  <2>4. CASE Poll(n)
    BY <1>0, <2>4 DEF TypeOK, Poll, Polls
  <2>5. CASE PollUnknown(n)
    BY <1>0, <2>5 DEF TypeOK, PollUnknown, Polls
  <2>6. CASE GhostEnds(n)
    BY <1>0, <2>6 DEF TypeOK, GhostEnds
  <2>7. CASE Death(n)
    BY <1>0, <2>7 DEF TypeOK, Death
  <2>8. CASE PollEmpty(n)
    BY <1>0, <2>8 DEF TypeOK, PollEmpty, Goto
  <2>9. CASE Deliver(n)
    BY <1>0, <2>9 DEF TypeOK, Deliver, Goto
  <2>10. CASE Work(n)
    BY <1>0, <2>10 DEF TypeOK, Work, Goto
  <2>11. CASE Return(n)
    BY <1>0, <2>11 DEF TypeOK, Return, Goto
  <2>12. CASE ReportFailure(n)
    BY <1>0, <2>12 DEF TypeOK, ReportFailure, Goto
  <2>13. CASE Claim(n)
    <3>1. Oldest(n) \in Jobs /\ status[Oldest(n)] = "pending"
      BY <1>0, <2>13, OldestPending DEF TypeOK, Claim, ClaimFor
    <3> QED
      BY <1>0, <2>13, <3>1 DEF TypeOK, Claim, ClaimFor, Goto
  <2>14. CASE GhostClaim(n)
    <3>1. Oldest(n) \in Jobs /\ status[Oldest(n)] = "pending"
      BY <1>0, <2>14, OldestPending DEF TypeOK, GhostClaim, ClaimFor
    <3> QED
      BY <1>0, <2>14, <3>1 DEF TypeOK, GhostClaim, ClaimFor, Goto
  <2>15. CASE Progress(n)
    BY <1>0, <2>15 DEF TypeOK, Progress, Known
  <2>16. CASE Report(n)
    <3>1. current[n] \in Jobs /\ n \notin dropped
      BY <1>0, <2>16 DEF TypeOK, Report, Goto
    <3>2. \A m \in Nodes : m # n /\ current[m] = current[n] => m \in dropped
      BY <3>1 DEF MeshInv, ExclusiveJob
    <3>3. \A m \in Nodes : m # n => current[m] # current[n]
      BY <3>1, <3>2
    <3> QED
      BY <1>0, <2>16, <3>1, <3>3 DEF TypeOK, Report, MarkDone, Goto, Known
  <2>17. ~Lost(n)
    BY DEF Lost, RegisterLost, HeartbeatLost, PollLost, ReplyLost, ReportLost, ReportCut
  <2> QED
    BY <1>1, <2>1, <2>2, <2>3, <2>4, <2>5, <2>6, <2>7, <2>8, <2>9, <2>10, <2>11, <2>12,
      <2>13, <2>14, <2>15, <2>16, <2>17
    DEF NodeActs, Worker, Ghost
<1>2. ASSUME NEW j \in Jobs, Submit(j)
      PROVE  BoardInv'
  BY <1>0, <1>2 DEF TypeOK, Submit
<1>3. CASE HubRestart
  BY <1>0, <1>3 DEF TypeOK, HubRestart
<1>4. CASE ExpireStale
  BY <1>0, <1>4 DEF TypeOK, ExpireStale, Stale
<1>5. CASE ListAll
  BY <1>5 DEF ListAll
<1>6. CASE RequeueOrphaned
  <2>1. \A n \in Nodes : current[n] # None => n \notin dropped
    OBVIOUS
  <2>2. \A n \in Nodes : current[n] # None => current[n] \notin Orphans
    BY <1>6, <2>1 DEF RequeueOrphaned, MeshInv, HoldsItsOwn, SweepsTheKnown, Orphans
  <2> QED
    BY <1>0, <1>6, <2>2 DEF TypeOK, RequeueOrphaned
<1> QED
  BY <1>1, <1>2, <1>3, <1>4, <1>5, <1>6 DEF Next, NodeActs, Sweep

\* Nobody has a job at the start, and none is on the board.
LEMMA InitBoard == Init => BoardInv /\ Board!Init
<1> SUFFICES ASSUME Init
             PROVE  BoardInv /\ Board!Init
  OBVIOUS
<1>1. BoardInv
  BY MeshAssumption DEF Init, BoardInv
<1>2. [j \in Jobs |-> Phase(status[j])] = [j \in Jobs |-> "new"]
  BY DEF Init, Phase, ACTIVE_JOB_STATUSES
<1> QED
  BY <1>1, <1>2 DEF Init, Board!Init

\* The claim of a job that waits takes it from the board.
LEMMA ClaimTakes ==
  ASSUME MeshInv, NEW n \in Nodes, ClaimFor(n)
  PROVE  Board!Next
<1> DEFINE o == Oldest(n)
<1>1. o \in Jobs /\ status[o] = "pending"
  BY OldestPending DEF MeshInv, TypeOK, ClaimFor
<1>2. /\ status' = [status EXCEPT ![o] = "assigned"] /\ result' = result
      /\ assigned_to' = [assigned_to EXCEPT ![o] = n]
  BY DEF ClaimFor
<1> HIDE DEF o
<1>3. Phase(status[o]) = "posted" /\ Phase(status'[o]) = "taken"
  BY <1>1, <1>2 DEF Phase, ACTIVE_JOB_STATUSES, MeshInv, TypeOK
<1>4. \A j \in Jobs : j # o => status'[j] = status[j]
  BY <1>2 DEF MeshInv, TypeOK
<1>5. [j \in Jobs |-> Phase(status'[j])]
        = [[j \in Jobs |-> Phase(status[j])] EXCEPT ![o] = "taken"]
  BY <1>1, <1>3, <1>4
<1>6. Board!Take(o, n)
  BY <1>1, <1>2, <1>3, <1>5 DEF Board!Take
<1> QED
  BY <1>1, <1>6 DEF Board!Next

\* The result of a job the hub knows finishes it, as the one its owner has.
LEMMA ReportFinishes ==
  ASSUME Failstop, MeshInv, BoardInv, NEW n \in Nodes, Report(n)
  PROVE  [Board!Next]_<<[j \in Jobs |-> Phase(status[j])], assigned_to, result>>
<1> DEFINE c == current[n]
<1>1. c \in Jobs /\ n \notin dropped /\ c # None
  BY MeshAssumption DEF BoardInv, Report, Goto, MeshInv, TypeOK
<1>2. CASE ~Known(c)
  BY <1>2 DEF Report, MarkDone
<1>3. CASE Known(c)
  <2>1. status[c] \in ACTIVE_JOB_STATUSES /\ assigned_to[c] = n
    BY <1>1, <1>3 DEF BoardInv, Known, MeshInv, HoldsItsOwn
  <2>2. /\ status' = [status EXCEPT ![c] = "done"] /\ assigned_to' = assigned_to
        /\ result' = [result EXCEPT ![c] = n]
    BY <1>3 DEF Report, MarkDone
  <2> HIDE DEF c
  <2>3. Phase(status[c]) = "taken" /\ Phase(status'[c]) = "finished"
    BY <1>1, <2>1, <2>2 DEF Phase, ACTIVE_JOB_STATUSES, MeshInv, TypeOK
  <2>4. \A j \in Jobs : j # c => status'[j] = status[j]
    BY <2>2 DEF MeshInv, TypeOK
  <2>5. [j \in Jobs |-> Phase(status'[j])]
          = [[j \in Jobs |-> Phase(status[j])] EXCEPT ![c] = "finished"]
    BY <1>1, <2>3, <2>4
  <2>6. Board!Finish(c)
    BY <1>1, <2>1, <2>2, <2>3, <2>5 DEF Board!Finish
  <2> QED
    BY <1>1, <2>6 DEF Board!Next
<1> QED
  BY <1>2, <1>3

\* The jobs of nodes that vanished go back to the board.
LEMMA RequeueGivesBack ==
  ASSUME MeshInv, RequeueOrphaned
  PROVE  Board!Next
<1>1. Orphans \subseteq Jobs /\ \A j \in Orphans : Phase(status[j]) = "taken"
  BY DEF Orphans, Phase, ACTIVE_JOB_STATUSES
<1>2. \A j \in Jobs : Phase(status'[j]) = IF j \in Orphans THEN "posted" ELSE Phase(status[j])
  BY DEF RequeueOrphaned, Phase, ACTIVE_JOB_STATUSES
<1>3. [j \in Jobs |-> Phase(status'[j])]
        = [j \in Jobs |-> IF j \in Orphans THEN "posted" ELSE Phase(status[j])]
  BY <1>2
<1>4. [j \in Jobs |-> IF j \in Orphans THEN "posted" ELSE Phase(status[j])]
        = [j \in Jobs |-> IF j \in Orphans THEN "posted"
                          ELSE [i \in Jobs |-> Phase(status[i])][j]]
  OBVIOUS
<1>5. Board!GiveBack(Orphans)
  BY <1>1, <1>3, <1>4 DEF Board!GiveBack, RequeueOrphaned
<1> QED
  BY <1>1, <1>5 DEF Board!Next

\* A hub that restarts loses every job it knew.
LEMMA RestartVanishes ==
  ASSUME MeshInv, HubRestart
  PROVE  Board!Next
<1>1. \A j \in Jobs : Phase(status'[j]) = IF Phase(status[j]) = "new" THEN "new" ELSE "lost"
  BY DEF HubRestart, Phase, ACTIVE_JOB_STATUSES, MeshInv, TypeOK, Statuses
<1>2. [j \in Jobs |-> Phase(status'[j])]
        = [j \in Jobs |-> IF [i \in Jobs |-> Phase(status[i])][j] = "new" THEN "new" ELSE "lost"]
  BY <1>1
<1>3. Board!Vanish
  BY <1>2 DEF Board!Vanish, HubRestart
<1> QED
  BY <1>3 DEF Board!Next

\* A submitted job is posted.
LEMMA SubmitPosts ==
  ASSUME MeshInv, NEW j \in Jobs, Submit(j)
  PROVE  Board!Next
<1>1. Phase(status[j]) = "new" /\ Phase(status'[j]) = "posted"
  BY DEF Submit, Phase, ACTIVE_JOB_STATUSES, MeshInv, TypeOK
<1>2. \A i \in Jobs : i # j => status'[i] = status[i]
  BY DEF Submit, MeshInv, TypeOK
<1>3. [i \in Jobs |-> Phase(status'[i])]
        = [[i \in Jobs |-> Phase(status[i])] EXCEPT ![j] = "posted"]
  BY <1>1, <1>2
<1>4. Board!Post(j)
  BY <1>1, <1>3 DEF Board!Post, Submit
<1> QED
  BY <1>4 DEF Board!Next

\* Progress changes nothing the board can see.
LEMMA ProgressHidden ==
  ASSUME BoardInv, MeshInv, NEW n \in Nodes, Progress(n)
  PROVE  UNCHANGED <<[j \in Jobs |-> Phase(status[j])], assigned_to, result>>
<1>1. current[n] \in Jobs /\ current[n] # None
  BY MeshAssumption DEF BoardInv, Progress, MeshInv, TypeOK
<1>2. status[current[n]] \in ACTIVE_JOB_STATUSES
  BY <1>1 DEF BoardInv, Progress, Known
<1>3. \A j \in Jobs : Phase(status'[j]) = Phase(status[j])
  BY <1>1, <1>2 DEF Progress, Phase, ACTIVE_JOB_STATUSES, MeshInv, TypeOK
<1>4. [j \in Jobs |-> Phase(status'[j])] = [j \in Jobs |-> Phase(status[j])]
  BY <1>3
<1> QED
  BY <1>4 DEF Progress

\* Every step is one of the board's or leaves it alone.
LEMMA StepRefines ==
  ASSUME Failstop, MeshInv, BoardInv, Next
  PROVE  [Board!Next]_<<[j \in Jobs |-> Phase(status[j])], assigned_to, result>>
<1>1. ASSUME NEW n \in Nodes, Claim(n) \/ GhostClaim(n)
      PROVE  Board!Next
  BY <1>1, ClaimTakes DEF Claim, GhostClaim
<1>2. ASSUME NEW n \in Nodes, NodeActs(n), ~Claim(n), ~GhostClaim(n), ~Report(n), ~Progress(n)
      PROVE  UNCHANGED <<status, assigned_to, result>>
  BY <1>2 DEF NodeActs, Worker, Ghost, Lost, Register, RegisterLost, Heartbeat,
    HeartbeatUnknown,
    HeartbeatLost, Poll, PollUnknown, PollEmpty, PollLost, GhostEnds, Deliver, ReplyLost, Work,
    ReportLost, ReportCut, ReportFailure, Death, Return, Fault, Failstop, BoardInv, Goto, jobs
<1>3. CASE ExpireStale \/ ListAll
  BY <1>3 DEF ExpireStale, ListAll, jobs
<1> QED
  BY <1>1, <1>2, <1>3, ReportFinishes, ProgressHidden, RequeueGivesBack, RestartVanishes,
    SubmitPosts
  DEF Next, NodeActs, Sweep

\* What the hub promises of each job, for any number of nodes and jobs, as long as nothing but
\* nodes and the hub itself fails: one node at a time has it, and its one result is that node's
\* (registry.py 107-190).
THEOREM HubKeepsTheBoard ==
  ASSUME Failstop
  PROVE  Spec => ImplementsBoard
<1>1. Init => MeshInv /\ BoardInv /\ Board!Init
  BY InitHolds, InitBoard
<1>2. MeshInv /\ BoardInv /\ [Next]_vars => MeshInv' /\ BoardInv'
  <2> SUFFICES ASSUME MeshInv, BoardInv, [Next]_vars
               PROVE  MeshInv' /\ BoardInv'
    OBVIOUS
  <2>1. CASE Next
    BY <2>1, StepKeeps, StepBoard DEF Failstop
  <2>2. CASE UNCHANGED vars
    BY <2>2 DEF vars, reg, jobs, swp, node, MeshInv, TypeOK, QueueOnce, Known, ClaimersKnown,
      HoldsItsOwn, SweepsTheKnown, ExclusiveJob, BoardInv
  <2> QED
    BY <2>1, <2>2
<1>3. MeshInv /\ BoardInv /\ [Next]_vars
        => [Board!Next]_<<[j \in Jobs |-> Phase(status[j])], assigned_to, result>>
  BY StepRefines DEF vars, jobs
<1> QED
  BY <1>1, <1>2, <1>3, PTL DEF Spec, ImplementsBoard, Board!Spec

-----------------------------------------------------------------------------
(* What faults cost: at most a job each.                                   *)

\* What is counted of two sets, when nothing joins them, or one element joins one of
\* them at the price of one more, or of one that leaves the other.
LEMMA Counted ==
  ASSUME NEW A, NEW B, IsFiniteSet(A), IsFiniteSet(B), NEW f \in Nat, NEW g \in Nat,
         Cardinality(A) + Cardinality(B) <= f, NEW X, NEW Y, NEW a,
         \/ X \subseteq A /\ Y \subseteq B /\ f <= g
         \/ X \subseteq A \cup {a} /\ Y \subseteq B /\ f + 1 <= g
         \/ X \subseteq A /\ Y \subseteq B \cup {a} /\ f + 1 <= g
         \/ X \subseteq A \cup {a} /\ (\E b \in B : Y \subseteq B \ {b}) /\ f <= g
  PROVE  IsFiniteSet(X) /\ IsFiniteSet(Y) /\ Cardinality(X) + Cardinality(Y) <= g
<1>1. Cardinality(A) \in Nat /\ Cardinality(B) \in Nat
  BY FS_CardinalityType
<1>2. ASSUME NEW S, IsFiniteSet(S), NEW T, T \subseteq S
      PROVE  IsFiniteSet(T) /\ Cardinality(T) \in Nat /\ Cardinality(T) <= Cardinality(S)
  BY <1>2, FS_Subset, FS_CardinalityType
<1>3. ASSUME NEW S, IsFiniteSet(S), Cardinality(S) \in Nat
      PROVE  IsFiniteSet(S \cup {a}) /\ Cardinality(S \cup {a}) <= Cardinality(S) + 1
  <2>1. /\ IsFiniteSet(S \cup {a})
        /\ Cardinality(S \cup {a}) = IF a \in S THEN Cardinality(S) ELSE Cardinality(S) + 1
    BY <1>3, FS_AddElement
  <2> QED
    BY <1>3, <2>1
<1>4. CASE X \subseteq A /\ Y \subseteq B /\ f <= g
  <2>1. /\ IsFiniteSet(X) /\ Cardinality(X) \in Nat /\ Cardinality(X) <= Cardinality(A)
        /\ IsFiniteSet(Y) /\ Cardinality(Y) \in Nat /\ Cardinality(Y) <= Cardinality(B)
    BY <1>2, <1>4
  <2> QED
    BY <1>1, <1>4, <2>1
<1>5. CASE X \subseteq A \cup {a} /\ Y \subseteq B /\ f + 1 <= g
  <2>1. IsFiniteSet(A \cup {a}) /\ Cardinality(A \cup {a}) <= Cardinality(A) + 1
    BY <1>1, <1>3
  <2>2. /\ IsFiniteSet(X) /\ Cardinality(X) \in Nat /\ Cardinality(X) <= Cardinality(A \cup {a})
        /\ IsFiniteSet(Y) /\ Cardinality(Y) \in Nat /\ Cardinality(Y) <= Cardinality(B)
        /\ Cardinality(A \cup {a}) \in Nat
    BY <1>2, <1>5, <2>1, FS_CardinalityType
  <2> QED
    BY <1>1, <1>5, <2>1, <2>2
<1>6. CASE X \subseteq A /\ Y \subseteq B \cup {a} /\ f + 1 <= g
  <2>1. IsFiniteSet(B \cup {a}) /\ Cardinality(B \cup {a}) <= Cardinality(B) + 1
    BY <1>1, <1>3
  <2>2. /\ IsFiniteSet(X) /\ Cardinality(X) \in Nat /\ Cardinality(X) <= Cardinality(A)
        /\ IsFiniteSet(Y) /\ Cardinality(Y) \in Nat /\ Cardinality(Y) <= Cardinality(B \cup {a})
        /\ Cardinality(B \cup {a}) \in Nat
    BY <1>2, <1>6, <2>1, FS_CardinalityType
  <2> QED
    BY <1>1, <1>6, <2>1, <2>2
<1>7. CASE X \subseteq A \cup {a} /\ (\E b \in B : Y \subseteq B \ {b}) /\ f <= g
  <2>1. IsFiniteSet(A \cup {a}) /\ Cardinality(A \cup {a}) <= Cardinality(A) + 1
    BY <1>1, <1>3
  <2>2. PICK b \in B : Y \subseteq B \ {b}
    BY <1>7
  <2>3. IsFiniteSet(B \ {b}) /\ Cardinality(B \ {b}) = Cardinality(B) - 1
    BY FS_RemoveElement
  <2>4. /\ IsFiniteSet(X) /\ Cardinality(X) \in Nat /\ Cardinality(X) <= Cardinality(A \cup {a})
        /\ IsFiniteSet(Y) /\ Cardinality(Y) \in Nat /\ Cardinality(Y) <= Cardinality(B \ {b})
        /\ Cardinality(A \cup {a}) \in Nat
    BY <1>2, <1>7, <2>1, <2>2, <2>3, FS_CardinalityType
  <2> QED
    BY <1>1, <1>7, <2>1, <2>3, <2>4
<1> QED
  BY <1>4, <1>5, <1>6, <1>7

\* A node has a job just while it is at one, whatever it or the hub does.
LEMMA StepAtWork ==
  ASSUME TypeOK, AtWork, Next
  PROVE  AtWork'
<1> USE MeshAssumption DEF TypeOK, AtWork, reg, jobs, swp, node
<1>1. ASSUME NEW n \in Nodes, NodeActs(n)
      PROVE  AtWork'
  <2>1. CASE Register(n)
    BY <2>1 DEF Register, Goto
  <2>2. CASE RegisterLost(n)
    BY <2>2 DEF RegisterLost
  <2>3. CASE Heartbeat(n)
    BY <2>3 DEF Heartbeat, Due
  <2>4. CASE HeartbeatUnknown(n)
    BY <2>4 DEF HeartbeatUnknown, Due
  <2>5. CASE HeartbeatLost(n)
    BY <2>5 DEF HeartbeatLost, Due
  <2>6. CASE Poll(n)
    BY <2>6 DEF Poll, Polls
  <2>7. CASE PollUnknown(n)
    BY <2>7 DEF PollUnknown, Polls
  <2>8. CASE GhostEnds(n)
    BY <2>8 DEF GhostEnds
  <2>9. CASE Death(n)
    BY <2>9 DEF Death
  <2>10. CASE Progress(n)
    BY <2>10 DEF Progress
  <2>11. CASE PollEmpty(n)
    BY <2>11 DEF PollEmpty, Goto
  <2>12. CASE PollLost(n)
    BY <2>12 DEF PollLost, Goto
  <2>13. CASE Deliver(n)
    BY <2>13 DEF Deliver, Goto
  <2>14. CASE ReplyLost(n)
    BY <2>14 DEF ReplyLost, Goto
  <2>15. CASE Work(n)
    BY <2>15 DEF Work, Goto
  <2>16. CASE ReportLost(n)
    BY <2>16 DEF ReportLost, Goto
  <2>17. CASE Return(n)
    BY <2>17 DEF Return, Goto
  <2>18. CASE ReportFailure(n)
    BY <2>18 DEF ReportFailure, Goto
  <2>19. CASE Claim(n)
    <3>1. Oldest(n) \in Jobs
      BY <2>19, OldestPending DEF Claim, ClaimFor
    <3> QED
      BY <2>19, <3>1 DEF Claim, Goto
  <2>20. CASE GhostClaim(n)
    BY <2>20 DEF GhostClaim
  <2>21. CASE Report(n)
    BY <2>21 DEF Report, Goto
  <2>22. CASE ReportCut(n)
    BY <2>22 DEF ReportCut, Goto
  <2> QED
    BY <1>1, <2>1, <2>2, <2>3, <2>4, <2>5, <2>6, <2>7, <2>8, <2>9, <2>10, <2>11, <2>12,
      <2>13, <2>14, <2>15, <2>16, <2>17, <2>18, <2>19, <2>20, <2>21, <2>22
    DEF NodeActs, Worker, Ghost, Lost
<1>2. CASE \E j \in Jobs : Submit(j)
  BY <1>2 DEF Submit
<1>3. CASE HubRestart
  BY <1>3 DEF HubRestart
<1>4. CASE Sweep
  BY <1>4 DEF Sweep, ExpireStale, ListAll, RequeueOrphaned
<1> QED
  BY <1>1, <1>2, <1>3, <1>4 DEF Next, NodeActs

\* The sets counted are finite, though there may be any number of jobs and nodes.
Countable == IsFiniteSet(Stranded) /\ IsFiniteSet(Ghosts)

\* Each step keeps the count: what leaves a job with nobody at it, or an open poll with
\* nobody waiting, is a fault, or the claim that ends such a poll.
LEMMA StepStrands ==
  ASSUME StrandInv, Countable, Next
  PROVE  StrandInv' /\ Countable'
<1> DEFINE Active(st) == st \in ACTIVE_JOB_STATUSES
<1>0. /\ TypeOK /\ AtWork /\ faults \in Nat /\ faults' \in Nat
      /\ Cardinality(Stranded) + Cardinality(Ghosts) <= faults /\ TypeOK' /\ AtWork'
  <2>1. TypeOK /\ AtWork /\ TypeOK' /\ AtWork'
    BY StepType, StepAtWork DEF StrandInv
  <2>2. faults \in Nat /\ faults' \in Nat
    BY <2>1, MeshAssumption DEF TypeOK
  <2> QED
    BY <2>1, <2>2 DEF StrandInv, FaultStrandsOne
<1>1. ASSUME NEW a,
             \/ Stranded' \subseteq Stranded /\ Ghosts' \subseteq Ghosts /\ faults <= faults'
             \/ Stranded' \subseteq Stranded \cup {a} /\ Ghosts' \subseteq Ghosts /\ faults + 1 <= faults'
             \/ Stranded' \subseteq Stranded /\ Ghosts' \subseteq Ghosts \cup {a} /\ faults + 1 <= faults'
             \/ /\ Stranded' \subseteq Stranded \cup {a} /\ faults <= faults'
                /\ \E b \in Ghosts : Ghosts' \subseteq Ghosts \ {b}
      PROVE  StrandInv' /\ Countable'
  <2>1. /\ IsFiniteSet(Stranded') /\ IsFiniteSet(Ghosts')
        /\ Cardinality(Stranded') + Cardinality(Ghosts') <= faults'
    <3> DEFINE A == Stranded
               B == Ghosts
               X == Stranded'
               Y == Ghosts'
               f == faults
               g == faults'
    <3>1. \/ X \subseteq A /\ Y \subseteq B /\ f <= g
          \/ X \subseteq A \cup {a} /\ Y \subseteq B /\ f + 1 <= g
          \/ X \subseteq A /\ Y \subseteq B \cup {a} /\ f + 1 <= g
          \/ X \subseteq A \cup {a} /\ (\E b \in B : Y \subseteq B \ {b}) /\ f <= g
      BY <1>1
    <3>2. f \in Nat /\ g \in Nat /\ Cardinality(A) + Cardinality(B) <= f
      BY <1>0
    <3>3. IsFiniteSet(A) /\ IsFiniteSet(B)
      BY DEF Countable
    <3> HIDE DEF A, B, X, Y, f, g
    <3>4. IsFiniteSet(X) /\ IsFiniteSet(Y) /\ Cardinality(X) + Cardinality(Y) <= g
      BY Zenon, <3>1, <3>2, <3>3, Counted
    <3> QED
      BY <3>4 DEF X, Y, g
  <2> QED
    BY <1>0, <2>1 DEF StrandInv, FaultStrandsOne, Countable
\* Nothing but the calls and the places of the nodes changes.
<1>2. ASSUME UNCHANGED <<status, current>>, \A n \in Nodes : ghost'[n] => ghost[n], faults <= faults'
      PROVE  StrandInv' /\ Countable'
  BY <1>1, <1>2 DEF Stranded, Ghosts
<1>3. ASSUME NEW n \in Nodes, NodeActs(n)
      PROVE  StrandInv' /\ Countable'
  <2>1. CASE \/ Register(n) \/ Heartbeat(n) \/ HeartbeatUnknown(n) \/ Poll(n) \/ PollUnknown(n)
             \/ PollEmpty(n) \/ Deliver(n) \/ Work(n) \/ Return(n)
    <3>1. UNCHANGED <<status, current, ghost, faults>>
      BY <2>1 DEF Register, Heartbeat, HeartbeatUnknown, Poll, PollUnknown, PollEmpty, Deliver,
        Work,
        Return, reg, jobs, swp, node
    <3> QED
      BY <1>0, <1>2, <3>1
  <2>2. CASE RegisterLost(n) \/ HeartbeatLost(n)
    <3>1. UNCHANGED <<status, current, ghost>> /\ faults' = faults + 1
      BY <2>2 DEF RegisterLost, HeartbeatLost, Fault, reg, jobs, swp, node
    <3> QED
      BY <1>0, <1>2, <3>1
  <2>3. CASE GhostEnds(n)
    <3>1. UNCHANGED <<status, current, faults>> /\ ghost' = [ghost EXCEPT ![n] = FALSE]
      BY <2>3 DEF GhostEnds, reg, jobs, swp
    <3>2. \A m \in Nodes : ghost'[m] => ghost[m]
      BY <1>0, <3>1 DEF TypeOK
    <3> QED
      BY <1>0, <1>2, <3>1, <3>2
  <2>4. CASE PollLost(n)
    <3>1. UNCHANGED <<status, current>> /\ faults' = faults + 1 /\ ghost' = [ghost EXCEPT ![n] = TRUE]
      BY <2>4 DEF PollLost, Fault, reg, jobs, swp
    <3>2. Stranded' \subseteq Stranded
      BY <3>1 DEF Stranded
    <3>3. Ghosts' \subseteq Ghosts \cup {n}
      BY <1>0, <3>1 DEF Ghosts, TypeOK
    <3> QED
      BY <1>0, <1>1, <3>1, <3>2, <3>3
  <2>5. CASE Death(n)
    <3>1. /\ UNCHANGED status /\ faults' = faults + 1
          /\ ghost' = [ghost EXCEPT ![n] = ghost[n] \/ npc[n] = "poll"]
          /\ current' = [current EXCEPT ![n] = None]
      BY <2>5 DEF Death, Fault, reg, jobs, swp
    <3>2. CASE npc[n] = "poll"
      <4>1. Stranded' \subseteq Stranded
        BY <1>0, <3>1, <3>2 DEF Stranded, TypeOK, AtWork
      <4>2. Ghosts' \subseteq Ghosts \cup {n}
        BY <1>0, <3>1 DEF Ghosts, TypeOK
      <4> QED
        BY <1>0, <1>1, <3>1, <4>1, <4>2
    <3>3. CASE npc[n] # "poll"
      <4>1. Stranded' \subseteq Stranded \cup {current[n]}
        BY <1>0, <3>1 DEF Stranded, TypeOK
      <4>2. Ghosts' \subseteq Ghosts
        BY <1>0, <3>1, <3>3 DEF Ghosts, TypeOK
      <4> QED
        BY <1>0, <1>1, <3>1, <4>1, <4>2
    <3> QED
      BY <3>2, <3>3
  <2>6. CASE ReplyLost(n) \/ ReportLost(n)
    <3>1. UNCHANGED <<status, ghost>> /\ faults' = faults + 1 /\ current' = [current EXCEPT ![n] = None]
      BY <2>6 DEF ReplyLost, ReportLost, Fault, reg, jobs, swp
    <3>2. Stranded' \subseteq Stranded \cup {current[n]}
      BY <1>0, <3>1 DEF Stranded, TypeOK
    <3>3. Ghosts' \subseteq Ghosts
      BY <3>1 DEF Ghosts
    <3> QED
      BY <1>0, <1>1, <3>1, <3>2, <3>3
  <2>7. CASE Progress(n)
    <3>1. /\ UNCHANGED <<current, ghost, faults>> /\ npc[n] = "work"
          /\ status' = [status EXCEPT ![current[n]] = "running"]
      BY <2>7 DEF Progress, reg, node
    <3>2. Stranded' \subseteq Stranded
      BY <1>0, <3>1 DEF Stranded, TypeOK
    <3>3. Ghosts' \subseteq Ghosts
      BY <3>1 DEF Ghosts
    <3> QED
      BY <1>0, <1>1, <3>1, <3>2, <3>3
  <2>8. CASE Claim(n)
    <3> DEFINE o == Oldest(n)
    <3>1. o \in Jobs /\ status[o] = "pending"
      BY <1>0, <2>8, OldestPending DEF Claim, ClaimFor, TypeOK
    <3>2. /\ UNCHANGED <<ghost, faults>> /\ npc[n] = "poll" /\ current' = [current EXCEPT ![n] = o]
          /\ status' = [status EXCEPT ![o] = "assigned"]
      BY <2>8 DEF Claim, ClaimFor, Goto, reg, swp
    <3> HIDE DEF o
    <3>3. current[n] = None /\ current'[n] = o /\ \A m \in Nodes : m # n => current'[m] = current[m]
      BY <1>0, <3>2 DEF TypeOK, AtWork
    <3>4. Stranded' \subseteq Stranded
      <4> SUFFICES ASSUME NEW j \in Jobs, Active(status'[j]), \A m \in Nodes : current'[m] # j
                   PROVE  Active(status[j]) /\ \A m \in Nodes : current[m] # j
        BY DEF Stranded
      <4>1. j # o /\ status'[j] = status[j] /\ j # None
        BY <1>0, <3>2, <3>3, MeshAssumption DEF TypeOK
      <4> QED
        BY <3>3, <4>1
    <3>5. Ghosts' \subseteq Ghosts
      BY <3>2 DEF Ghosts
    <3> QED
      BY <1>0, <1>1, <3>2, <3>4, <3>5
  <2>9. CASE GhostClaim(n)
    <3> DEFINE o == Oldest(n)
    <3>1. o \in Jobs
      BY <1>0, <2>9, OldestPending DEF GhostClaim, ClaimFor, TypeOK
    <3>2. /\ UNCHANGED <<current, faults>> /\ ghost[n] /\ ghost' = [ghost EXCEPT ![n] = FALSE]
          /\ status' = [status EXCEPT ![o] = "assigned"]
      BY <2>9 DEF GhostClaim, ClaimFor, reg, swp
    <3> HIDE DEF o
    <3>3. Stranded' \subseteq Stranded \cup {o}
      BY <1>0, <3>1, <3>2 DEF Stranded, TypeOK
    <3>4. n \in Ghosts /\ Ghosts' \subseteq Ghosts \ {n}
      BY <1>0, <3>2 DEF Ghosts, TypeOK
    <3> QED
      BY <1>0, <1>1, <3>2, <3>3, <3>4
  <2>10. CASE Report(n) \/ ReportCut(n) \/ ReportFailure(n)
    <3> DEFINE c == current[n]
    <3>1. /\ UNCHANGED ghost /\ faults <= faults' /\ npc[n] \in {"report", "fail"}
          /\ current' \in {current, [current EXCEPT ![n] = None]}
      BY <1>0, <2>10 DEF Report, ReportCut, ReportFailure, Goto, Fault, reg, swp
    <3>2. status' = status \/ status' = [status EXCEPT ![c] = "done"] \/ status' = [status EXCEPT ![c] = "failed"]
      BY <2>10 DEF Report, ReportCut, ReportFailure, MarkDone
    <3>3. c \in Jobs
      BY <1>0, <3>1 DEF TypeOK, AtWork
    <3>4. ~Active(status'[c])
      BY <1>0, <2>10, <3>3 DEF Report, ReportCut, ReportFailure, MarkDone, Known, TypeOK,
        Statuses, ACTIVE_JOB_STATUSES
    <3>5. \A j \in Jobs : j # c => status'[j] = status[j]
      BY <1>0, <3>2, <3>3 DEF TypeOK
    <3>6. \A m \in Nodes : m # n => current'[m] = current[m]
      BY <1>0, <3>1 DEF TypeOK
    <3> HIDE DEF c
    <3>7. Stranded' \subseteq Stranded
      <4> SUFFICES ASSUME NEW j \in Jobs, Active(status'[j]), \A m \in Nodes : current'[m] # j
                   PROVE  Active(status[j]) /\ \A m \in Nodes : current[m] # j
        BY DEF Stranded
      <4>1. j # c /\ status'[j] = status[j]
        BY <3>4, <3>5
      <4> QED
        BY <3>6, <4>1 DEF c
    <3>8. Ghosts' \subseteq Ghosts
      BY <3>1 DEF Ghosts
    <3> QED
      BY <1>0, <1>1, <3>1, <3>7, <3>8
  <2> QED
    BY <1>3, <2>1, <2>2, <2>3, <2>4, <2>5, <2>6, <2>7, <2>8, <2>9, <2>10
    DEF NodeActs, Worker, Ghost, Lost
<1>4. CASE \E j \in Jobs : Submit(j)
  <2>1. PICK j \in Jobs : Submit(j)
    BY <1>4
  <2>2. UNCHANGED <<current, ghost, faults>> /\ status' = [status EXCEPT ![j] = "pending"]
    BY <2>1 DEF Submit, reg, swp, node
  <2>3. Stranded' \subseteq Stranded
    BY <1>0, <2>2 DEF Stranded, TypeOK, ACTIVE_JOB_STATUSES
  <2>4. Ghosts' \subseteq Ghosts
    BY <2>2 DEF Ghosts
  <2> QED
    BY <1>0, <1>1, <2>2, <2>3, <2>4
<1>5. CASE HubRestart
  <2>1. faults' = faults + 1 /\ Ghosts' = {}
    BY <1>5 DEF HubRestart, Fault, Ghosts
  <2>2. Stranded' = {}
    BY <1>5 DEF HubRestart, Stranded, ACTIVE_JOB_STATUSES
  <2> QED
    BY <1>0, <1>1, <2>1, <2>2
<1>6. CASE ExpireStale \/ ListAll
  <2>1. UNCHANGED <<status, current, ghost, faults>>
    BY <1>6 DEF ExpireStale, ListAll, reg, jobs, swp, node
  <2> QED
    BY <1>0, <1>2, <2>1
<1>7. CASE RequeueOrphaned
  <2>1. /\ UNCHANGED <<current, ghost, faults>>
        /\ \A j \in Jobs : status'[j] = "pending" \/ status'[j] = status[j]
    BY <1>7 DEF RequeueOrphaned, reg, node
  <2>2. Stranded' \subseteq Stranded
    BY <2>1 DEF Stranded, ACTIVE_JOB_STATUSES
  <2>3. Ghosts' \subseteq Ghosts
    BY <2>1 DEF Ghosts
  <2> QED
    BY <1>0, <1>1, <2>1, <2>2, <2>3
<1> QED
  BY <1>3, <1>4, <1>5, <1>6, <1>7 DEF Next, NodeActs, Sweep

\* FaultStrandsOne, for any number of nodes, jobs and faults, whenever nodes register:
\* the jobs nobody is at, and the polls that may yet leave one so, are no more than the
\* faults there were (registry.py 113-123, hub.py 152-173).
THEOREM FaultsStrandOneEach == Spec => []FaultStrandsOne
<1> DEFINE I == StrandInv /\ Countable
<1>1. Init => I
  <2> SUFFICES ASSUME Init PROVE I
    OBVIOUS
  <2>1. Stranded = {} /\ Ghosts = {}
    BY DEF Init, Stranded, Ghosts, ACTIVE_JOB_STATUSES
  <2>2. TypeOK
    BY InitHolds DEF MeshInv
  <2>3. AtWork
    BY DEF Init, AtWork
  <2>4. faults = 0
    BY DEF Init
  <2> QED
    BY <2>1, <2>2, <2>3, <2>4, FS_EmptySet DEF StrandInv, Countable, FaultStrandsOne
<1>2. I /\ [Next]_vars => I'
  <2>1. I /\ UNCHANGED vars => I'
    BY DEF StrandInv, Countable, FaultStrandsOne, Stranded, Ghosts, AtWork, TypeOK, vars, reg,
      jobs, swp, node
  <2> QED
    BY <2>1, StepStrands
<1>3. I => FaultStrandsOne
  BY DEF StrandInv
<1> QED
  BY <1>1, <1>2, <1>3, PTL DEF Spec
=============================================================================
