------------------------------ MODULE MeshJobs ------------------------------
(***************************************************************************)
(* The mesh of dashboards, veritate_mesh/: the hub's registry and queue    *)
(* (registry.py), its routes and sweeper (hub.py), and the worker of each  *)
(* node (node.py, client.py), one HTTP call at a time.                     *)
(*                                                                         *)
(* An action is one critical section of the hub, with the request that led *)
(* to it or the reply that follows from it where nothing can come between. *)
(* A long poll is open in the hub while its node waits; the hub does not   *)
(* notice when the node no longer does, and may still claim a job for it.  *)
(* Time is left out: a node is stale when a heartbeat of its was missed.   *)
(***************************************************************************)
EXTENDS Naturals, Sequences, FiniteSets

CONSTANTS
  Nodes, Jobs, None,
  Suits,      \* capabilities_satisfy: the nodes fit for each job
  Kinds,      \* the faults that happen, of lost, cut, death, return, hub
  MaxFaults,  \* bound: faults
  Reporting,  \* whether a job reports progress; the stub job does not
  MidSweep    \* whether a node may register between the sweeper's list of the
              \* nodes and its requeue of the jobs of the others

ASSUME MeshAssumption ==
  /\ None \notin Nodes /\ None \notin Jobs /\ Suits \in [Jobs -> SUBSET Nodes]
  /\ Kinds \subseteq {"lost", "cut", "death", "return", "hub"}
  /\ MaxFaults \in Nat /\ Reporting \in BOOLEAN /\ MidSweep \in BOOLEAN

VARIABLES
  nodes,       \* NodeRegistry._nodes
  fresh,       \* no heartbeat of the node is missing
  queue,       \* JobQueue._jobs, by created_at
  status,      \* Job.status, "new" before it is submitted
  assigned_to, \* Job.assigned_to
  result,      \* Job.result: the node it comes from
  sweep,       \* where the sweeper is
  known,       \* the nodes it has listed
  npc,         \* where the worker of each node is
  registered,  \* its _STATE["registered"]
  current,     \* its _STATE["current_job"], or the job on its way to it
  ghost,       \* a long poll its node waits for no more is open in the hub
  dropped,     \* history: nodes the hub has dropped
  faults       \* faults so far

reg   == <<nodes, fresh>>
jobs  == <<queue, status, assigned_to, result>>
swp   == <<sweep, known, dropped>>
node  == <<npc, registered, current, ghost>>
vars  == <<reg, jobs, swp, node, faults>>

Init ==
  /\ nodes = {} /\ fresh = [n \in Nodes |-> FALSE]
  /\ queue = <<>>
  /\ status = [j \in Jobs |-> "new"]
  /\ assigned_to = [j \in Jobs |-> None] /\ result = [j \in Jobs |-> None]
  /\ sweep = "sleep" /\ known = {} /\ dropped = {}
  /\ npc = [n \in Nodes |-> "top"]
  /\ registered = [n \in Nodes |-> FALSE]
  /\ current = [n \in Nodes |-> None]
  /\ ghost = [n \in Nodes |-> FALSE]
  /\ faults = 0

Fault(kind) == kind \in Kinds /\ faults < MaxFaults /\ faults' = faults + 1

ACTIVE_JOB_STATUSES == {"assigned", "running"}

\* The job is in the hub's queue.
Known(j) == status[j] \notin {"new", "lost"}

-----------------------------------------------------------------------------
(* The worker loop of a node, and the routes it calls.                     *)

Goto(n, from, to) == npc[n] = from /\ npc' = [npc EXCEPT ![n] = to]

NodeRegistered(n) ==
  /\ nodes' = nodes \cup {n}
  /\ fresh' = [fresh EXCEPT ![n] = TRUE]

Register(n) ==
  /\ Goto(n, "top", "beat") /\ ~registered[n]
  /\ MidSweep \/ sweep # "requeue"
  /\ NodeRegistered(n)
  /\ registered' = [registered EXCEPT ![n] = TRUE]
  /\ UNCHANGED <<jobs, swp, current, ghost, faults>>

\* The hub registers the node, which does not hear of it.
RegisterLost(n) ==
  /\ Fault("lost")
  /\ npc[n] = "top" /\ ~registered[n]
  /\ MidSweep \/ sweep # "requeue"
  /\ NodeRegistered(n)
  /\ UNCHANGED <<jobs, swp, node>>

\* The heartbeat is due, as it is after registration.
Due(n) == npc[n] = "beat" \/ (npc[n] = "top" /\ registered[n])

Heartbeat(n) ==
  /\ Due(n) /\ n \in nodes
  /\ fresh' = [fresh EXCEPT ![n] = TRUE]
  /\ npc' = [npc EXCEPT ![n] = "ready"]
  /\ UNCHANGED <<nodes, jobs, swp, registered, current, ghost, faults>>

\* The hub does not know the node: it registers again.
HeartbeatUnknown(n) ==
  /\ Due(n) /\ n \notin nodes
  /\ registered' = [registered EXCEPT ![n] = FALSE]
  /\ npc' = [npc EXCEPT ![n] = "top"]
  /\ UNCHANGED <<reg, jobs, swp, current, ghost, faults>>

HeartbeatLost(n) ==
  /\ Fault("lost")
  /\ Due(n)
  /\ fresh' = [fresh EXCEPT ![n] = FALSE]
  /\ npc' = [npc EXCEPT ![n] = "ready"]
  /\ UNCHANGED <<nodes, jobs, swp, registered, current, ghost>>

Polls(n) == npc[n] = "ready" \/ (npc[n] = "top" /\ registered[n])

Poll(n) ==
  /\ Polls(n) /\ n \in nodes
  /\ npc' = [npc EXCEPT ![n] = "poll"]
  /\ UNCHANGED <<reg, jobs, swp, registered, current, ghost, faults>>

PollUnknown(n) ==
  /\ Polls(n) /\ n \notin nodes
  /\ npc' = [npc EXCEPT ![n] = "top"]
  /\ UNCHANGED <<reg, jobs, swp, registered, current, ghost, faults>>

\* The pending jobs the node is fit for, and the oldest of them.
Claimable(n) == {i \in DOMAIN queue : status[queue[i]] = "pending" /\ n \in Suits[queue[i]]}
Oldest(n) == queue[CHOOSE i \in Claimable(n) : \A k \in Claimable(n) : i <= k]

\* Mutant: the claim does not mark the job.
ClaimForUnmarked(n) ==
  /\ Claimable(n) # {}
  /\ assigned_to' = [assigned_to EXCEPT ![Oldest(n)] = n]
  /\ UNCHANGED <<queue, status, result>>

ClaimFor(n) ==
  /\ Claimable(n) # {}
  /\ status' = [status EXCEPT ![Oldest(n)] = "assigned"]
  /\ assigned_to' = [assigned_to EXCEPT ![Oldest(n)] = n]
  /\ UNCHANGED <<queue, result>>

Claim(n) ==
  /\ Goto(n, "poll", "reply")
  /\ ClaimFor(n)
  /\ current' = [current EXCEPT ![n] = Oldest(n)]
  /\ UNCHANGED <<reg, swp, registered, ghost, faults>>

\* The deadline of the poll, at which there still is no job.
PollEmpty(n) ==
  /\ Goto(n, "poll", "top")
  /\ Claimable(n) = {}
  /\ UNCHANGED <<reg, jobs, swp, registered, current, ghost, faults>>

\* The connection breaks while the node waits.
PollLost(n) ==
  /\ Fault("lost")
  /\ Goto(n, "poll", "top") /\ ~ghost[n]
  /\ ghost' = [ghost EXCEPT ![n] = TRUE]
  /\ UNCHANGED <<reg, jobs, swp, registered, current>>

GhostClaim(n) ==
  /\ ghost[n] /\ ghost' = [ghost EXCEPT ![n] = FALSE]
  /\ ClaimFor(n)
  /\ UNCHANGED <<reg, swp, npc, registered, current, faults>>

GhostEnds(n) ==
  /\ ghost[n] /\ ghost' = [ghost EXCEPT ![n] = FALSE]
  /\ Claimable(n) = {}
  /\ UNCHANGED <<reg, jobs, swp, npc, registered, current, faults>>

Deliver(n) ==
  /\ Goto(n, "reply", "work")
  /\ UNCHANGED <<reg, jobs, swp, registered, current, ghost, faults>>

ReplyLost(n) ==
  /\ Fault("lost")
  /\ Goto(n, "reply", "top")
  /\ current' = [current EXCEPT ![n] = None]
  /\ UNCHANGED <<reg, jobs, swp, registered, ghost>>

Work(n) ==
  /\ Goto(n, "work", "report")
  /\ UNCHANGED <<reg, jobs, swp, registered, current, ghost, faults>>

\* mark_running, whatever the job is by then.
Progress(n) ==
  /\ Reporting
  /\ npc[n] = "work" /\ Known(current[n])
  /\ status' = [status EXCEPT ![current[n]] = "running"]
  /\ UNCHANGED <<reg, queue, assigned_to, result, swp, node, faults>>

\* Mutant: only a job that has reported progress can be done.
MarkDoneRunning(n) ==
  /\ status' = IF status[current[n]] = "running"
               THEN [status EXCEPT ![current[n]] = "done"] ELSE status
  /\ result' = IF status[current[n]] = "running"
               THEN [result EXCEPT ![current[n]] = n] ELSE result
  /\ UNCHANGED <<queue, assigned_to>>

\* mark_done, if the hub knows the job.
MarkDone(n) ==
  /\ status' = IF Known(current[n]) THEN [status EXCEPT ![current[n]] = "done"]
               ELSE status
  /\ result' = IF Known(current[n]) THEN [result EXCEPT ![current[n]] = n]
               ELSE result
  /\ UNCHANGED <<queue, assigned_to>>

Report(n) ==
  /\ Goto(n, "report", "top")
  /\ MarkDone(n)
  /\ current' = [current EXCEPT ![n] = None]
  /\ UNCHANGED <<reg, swp, registered, ghost, faults>>

\* The result does not reach the hub; it is not sent again.
ReportLost(n) ==
  /\ Fault("lost")
  /\ Goto(n, "report", "top")
  /\ current' = [current EXCEPT ![n] = None]
  /\ UNCHANGED <<reg, jobs, swp, registered, ghost>>

\* It does, but the reply is cut short: the worker takes that for a failure
\* of the job
ReportCut(n) ==
  /\ Fault("cut")
  /\ Goto(n, "report", "fail")
  /\ MarkDone(n)
  /\ UNCHANGED <<reg, swp, registered, current, ghost>>

\* and reports it.
ReportFailure(n) ==
  /\ Goto(n, "fail", "top")
  /\ status' = IF Known(current[n]) THEN [status EXCEPT ![current[n]] = "failed"]
               ELSE status
  /\ current' = [current EXCEPT ![n] = None]
  /\ UNCHANGED <<reg, queue, assigned_to, result, swp, registered, ghost, faults>>

-----------------------------------------------------------------------------
(* The ends of processes.                                                  *)

\* A node's process ends, or it leaves the network for good.
Death(n) ==
  /\ Fault("death")
  /\ npc[n] # "down" /\ npc' = [npc EXCEPT ![n] = "down"]
  /\ ghost' = [ghost EXCEPT ![n] = ghost[n] \/ npc[n] = "poll"]
  /\ registered' = [registered EXCEPT ![n] = FALSE]
  /\ current' = [current EXCEPT ![n] = None]
  /\ fresh' = [fresh EXCEPT ![n] = FALSE]
  /\ UNCHANGED <<nodes, jobs, swp>>

\* It is started again, with the same node_id.
Return(n) ==
  /\ "return" \in Kinds
  /\ Goto(n, "down", "top")
  /\ UNCHANGED <<reg, jobs, swp, registered, current, ghost, faults>>

\* The hub restarts with an empty registry and queue; open polls fail.
HubRestart ==
  /\ Fault("hub")
  /\ nodes' = {} /\ queue' = <<>>
  /\ status' = [j \in Jobs |-> IF status[j] = "new" THEN "new" ELSE "lost"]
  /\ assigned_to' = [j \in Jobs |-> None] /\ result' = [j \in Jobs |-> None]
  /\ sweep' = "sleep" /\ known' = {}
  /\ npc' = [n \in Nodes |-> IF npc[n] \in {"poll", "reply"} THEN "top" ELSE npc[n]]
  /\ current' = [n \in Nodes |-> IF npc[n] = "reply" THEN None ELSE current[n]]
  /\ ghost' = [n \in Nodes |-> FALSE]
  /\ UNCHANGED <<fresh, registered, dropped>>

-----------------------------------------------------------------------------
(* Submission, and the sweeper.                                            *)

Submit(j) ==
  /\ status[j] = "new" /\ status' = [status EXCEPT ![j] = "pending"]
  /\ queue' = Append(queue, j)
  /\ UNCHANGED <<reg, assigned_to, result, swp, node, faults>>

\* Nodes with a heartbeat older than NODE_STALE_TTL.  The last long poll of a
\* node that is down has ended by then.
Stale == {n \in nodes : ~fresh[n] /\ ~(npc[n] = "down" /\ ghost[n])}

ExpireStale ==
  /\ sweep = "sleep" /\ sweep' = "list"
  /\ \E S \in SUBSET Stale \ {{}} :
       nodes' = nodes \ S /\ dropped' = dropped \cup S
  /\ UNCHANGED <<fresh, jobs, known, node, faults>>

ListAll ==
  /\ sweep = "list" /\ sweep' = "requeue"
  /\ known' = nodes
  /\ UNCHANGED <<reg, jobs, dropped, node, faults>>

\* Mutant: finished jobs are requeued too.
OrphansFinished == {j \in Jobs : Known(j) /\ assigned_to[j] \notin known}

\* Mutant: a job whose node is known is requeued.
OrphansAll == {j \in Jobs : status[j] \in ACTIVE_JOB_STATUSES}

\* Mutant: only jobs that have reported progress are requeued.
OrphansRunning == {j \in Jobs : status[j] = "running" /\ assigned_to[j] \notin known}

Orphans == {j \in Jobs : status[j] \in ACTIVE_JOB_STATUSES /\ assigned_to[j] \notin known}

RequeueOrphaned ==
  /\ sweep = "requeue" /\ sweep' = "sleep"
  /\ status' = [j \in Jobs |-> IF j \in Orphans THEN "pending" ELSE status[j]]
  /\ assigned_to' = [j \in Jobs |-> IF j \in Orphans THEN None ELSE assigned_to[j]]
  /\ known' = {}
  /\ UNCHANGED <<reg, queue, result, dropped, node, faults>>

Sweep == ExpireStale \/ ListAll \/ RequeueOrphaned

-----------------------------------------------------------------------------

Worker(n) ==
  \/ Register(n) \/ Heartbeat(n) \/ HeartbeatUnknown(n) \/ Poll(n) \/ PollUnknown(n)
  \/ Claim(n) \/ PollEmpty(n) \/ Deliver(n) \/ Work(n) \/ Report(n)
  \/ ReportFailure(n)

Ghost(n) == GhostClaim(n) \/ GhostEnds(n)

Lost(n) ==
  \/ RegisterLost(n) \/ HeartbeatLost(n) \/ PollLost(n) \/ ReplyLost(n)
  \/ ReportLost(n) \/ ReportCut(n)

Next ==
  \/ \E n \in Nodes :
       Worker(n) \/ Ghost(n) \/ Progress(n) \/ Lost(n) \/ Death(n) \/ Return(n)
  \/ \E j \in Jobs : Submit(j)
  \/ HubRestart \/ Sweep

Spec == Init /\ [][Next]_vars

\* Worker threads, request threads and the sweeper run on; a heartbeat is due
\* every 30 seconds however often the node polls.
Fairness ==
  /\ \A n \in Nodes :
       /\ WF_vars(Worker(n)) /\ WF_vars(Ghost(n))
       /\ SF_vars(Heartbeat(n)) /\ SF_vars(HeartbeatUnknown(n))
  /\ WF_vars(Sweep)

FairSpec == Spec /\ Fairness

-----------------------------------------------------------------------------
(* Properties.                                                             *)

Statuses == {"new", "pending", "assigned", "running", "done", "failed", "lost"}

TypeOK ==
  /\ nodes \subseteq Nodes /\ fresh \in [Nodes -> BOOLEAN]
  /\ queue \in Seq(Jobs)
  /\ status \in [Jobs -> Statuses]
  /\ assigned_to \in [Jobs -> Nodes \cup {None}]
  /\ result \in [Jobs -> Nodes \cup {None}]
  /\ sweep \in {"sleep", "list", "requeue"} /\ known \subseteq Nodes
  /\ npc \in [Nodes -> {"top", "beat", "ready", "poll", "reply", "work", "report",
                        "fail", "down"}]
  /\ registered \in [Nodes -> BOOLEAN] /\ ghost \in [Nodes -> BOOLEAN]
  /\ current \in [Nodes -> Jobs \cup {None}]
  /\ dropped \subseteq Nodes /\ faults \in 0 .. MaxFaults

Phase(st) ==
  CASE st = "pending" -> "posted"
    [] st \in ACTIVE_JOB_STATUSES -> "taken"
    [] st \in {"done", "failed"} -> "finished"
    [] OTHER -> st

Board == INSTANCE JobBoard WITH phase <- [j \in Jobs |-> Phase(status[j])],
                                owner <- assigned_to, result <- result

\* While messages are not lost, the hub keeps what it promises of each job.
ImplementsBoard == Board!Spec

\* Two nodes are at the same job only if the hub had given one of them up.
ExclusiveJob ==
  \A n, m \in Nodes :
    n # m /\ current[n] = current[m] /\ current[n] # None => {n, m} \cap dropped # {}

\* The queue has a job the hub knows once, and no other.
QueueOnce ==
  /\ \A i \in DOMAIN queue : Known(queue[i])
  /\ \A i, k \in DOMAIN queue : queue[i] = queue[k] => i = k

\* Who can still claim a job is in the registry, or has been dropped from it.
ClaimersKnown == \A n \in Nodes : npc[n] = "poll" \/ ghost[n] => n \in nodes \cup dropped

\* A node that was never dropped works on what the hub has assigned to it, unless the
\* hub has forgotten the job.
HoldsItsOwn ==
  \A n \in Nodes \ dropped :
    current[n] # None /\ status[current[n]] # "lost" =>
      /\ status[current[n]] \notin {"new", "pending"}
      /\ assigned_to[current[n]] = n /\ n \in nodes

\* Where nobody registers between them, the sweeper requeues by the nodes it listed.
SweepsTheKnown == sweep = "requeue" => known = nodes

\* Why a job is worked on once: the hub's tables are well formed, and agree with what
\* the nodes it has not given up are doing (registry.py 113-190, hub.py 152-205).
MeshInv == TypeOK /\ QueueOnce /\ ClaimersKnown /\ HoldsItsOwn /\ SweepsTheKnown /\ ExclusiveJob

\* Without lost calls, cut replies and returns, moreover: who is dropped has ended,
\* and a job someone works on has not ended.
BoardInv ==
  /\ \A n \in Nodes : current[n] # None <=> npc[n] \in {"reply", "work", "report"}
  /\ \A n \in Nodes : npc[n] # "fail"
  /\ \A n \in dropped : npc[n] = "down" /\ ~ghost[n]
  /\ \A n \in nodes : fresh[n] \/ npc[n] = "down"
  /\ \A n \in Nodes : current[n] # None => status[current[n]] \in ACTIVE_JOB_STATUSES \cup {"lost"}

\* A job is taken back only from a node that vanished.
RequeuesVanished ==
  [][\A j \in Jobs : status[j] \in ACTIVE_JOB_STATUSES /\ status'[j] = "pending"
                       => assigned_to[j] \notin nodes]_vars

\* A fault costs one job at most: the hub has it assigned and nobody is at it, or will
\* claim it for a poll that nobody waits for (registry.py 113-123, hub.py 160-175).
Stranded == {j \in Jobs : status[j] \in ACTIVE_JOB_STATUSES /\ \A n \in Nodes : current[n] # j}
Ghosts   == {n \in Nodes : ghost[n]}
FaultStrandsOne == Cardinality(Stranded) + Cardinality(Ghosts) <= faults

\* Why: a node has a job just while it is at one, so no step but its last drops it.
AtWork == \A n \in Nodes : current[n] # None <=> npc[n] \in {"reply", "work", "report", "fail"}

StrandInv == TypeOK /\ AtWork /\ FaultStrandsOne

\* A job whose node vanished does not stay assigned to it.
Orphaned(j) == status[j] \in ACTIVE_JOB_STATUSES /\ assigned_to[j] \notin nodes
OrphansRequeued == \A j \in Jobs : Orphaned(j) ~> ~Orphaned(j)

\* A submitted job comes to an end, or is lost with the hub.
JobsFinish == \A j \in Jobs : status[j] = "pending" ~> status[j] \in {"done", "failed", "lost"}
=============================================================================
