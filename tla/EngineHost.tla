----------------------------- MODULE EngineHost -----------------------------
(***************************************************************************)
(* The engine builder, training/build_runner.py, and the one slot of the   *)
(* engine process, routes/backends_routes.py: requests and the threads     *)
(* they leave behind meet in the build status, the process that builds,    *)
(* C_SUBPROCESS and C_PENDING.                                             *)
(***************************************************************************)
EXTENDS Naturals, FiniteSets

CONSTANTS
  Callers,        \* request threads
  HostSessions,   \* the sets of requests to check together
  OverlapStarts,  \* may a start() come between the two halves of another
  MaxBuilds, MaxLoads, MaxSpawns, MaxSources  \* bounds

Builders == {"builder"} \X (1 .. MaxBuilds)
Loaders == {"loader"} \X (1 .. MaxLoads)
Engs == 1 .. MaxSpawns  \* the engine processes started; 0 is none

ASSUME HostAssumption ==
  /\ \A S \in HostSessions :
       S \subseteq {"build", "rebuild", "stop", "load", "unload", "config", "chat"}
  /\ OverlapStarts \in BOOLEAN /\ {MaxBuilds, MaxLoads, MaxSpawns, MaxSources} \subseteq Nat
  /\ MaxSources > 0 /\ Callers \cap (Builders \cup Loaders) = {}

VARIABLES
  buildStatus,     \* _STATE["status"]
  procSlot,        \* the builder whose process is in _PROC
  binary, source,  \* which sources the binary is of, 0 for no binary; the newest sources
  slot, pending,   \* C_SUBPROCESS, C_PENDING
  alive, spawned,  \* the engine processes that run; how many were started
  oldest,          \* the sources of the binary each engine was started from
  ops,             \* the requests this behaviour makes
  at,              \* where each request, builder and loader is
  held             \* the engine it has read or started

hostVars == <<buildStatus, procSlot, binary, source, slot, pending,
              alive, spawned, oldest, ops, at, held>>
buildVars == <<buildStatus, procSlot, binary, source>>
procVars == <<alive, spawned, oldest, ops>>
slotVars == <<slot, pending>>

Threads == Callers \cup Builders \cup Loaders
NoBuilder == <<"builder", 0>>
Idle(S) == {t \in S : at[t] = "idle"}
Moves(t, pc) == at' = [at EXCEPT ![t] = pc]

HostInit ==
  /\ buildStatus = "idle" /\ procSlot = NoBuilder
  /\ source = 1 /\ binary \in {0, 1}
  /\ slot = 0 /\ pending = FALSE /\ ops \in HostSessions
  /\ alive = {} /\ spawned = 0 /\ oldest = [e \in Engs |-> 0]
  /\ at = [t \in Threads |-> "idle"] /\ held = [t \in Threads |-> 0]

Request(t, op) == at[t] = "idle" /\ op \in ops

----------------------------------------------------------------------------
(* The builder.  start() looks at the status under _LOCK, and claims the   *)
(* build under _LOCK again: start holds first "start", then "claim".       *)

Starting == {t \in Threads : at[t] \in {"claim", "claimForced"}}
After(t) == IF t \in Loaders THEN "poll" ELSE "idle"

BuildRequest(t) ==
  /\ \/ Request(t, "build") /\ Moves(t, "start")
     \/ Request(t, "rebuild") /\ Moves(t, "startForced")
  /\ UNCHANGED <<buildVars, procVars, slotVars, held>>

StartLooks(t) ==
  /\ at[t] \in {"start", "startForced"}
  /\ OverlapStarts \/ Starting = {}
  /\ Moves(t, IF buildStatus = "building" THEN After(t)
              ELSE IF at[t] = "start" THEN "claim" ELSE "claimForced")
  /\ UNCHANGED <<buildVars, procVars, slotVars, held>>

\* A binary as new as its sources is taken as it is, unless forced.
StartSkips(t) ==
  /\ at[t] = "claim" /\ binary = source
  /\ buildStatus' = "ok" /\ Moves(t, After(t))
  /\ UNCHANGED <<procSlot, binary, source, procVars, slotVars, held>>

\* Mutant: the status is left to the builder to set, once it has a process.
StartClaimsQuietly(t) ==
  /\ \/ at[t] = "claimForced"
     \/ at[t] = "claim" /\ binary # source
  /\ \E b \in Idle(Builders) : at' = [at EXCEPT ![t] = After(t), ![b] = "hook"]
  /\ UNCHANGED <<buildVars, procVars, slotVars, held>>

StartClaims(t) ==
  /\ \/ at[t] = "claimForced"
     \/ at[t] = "claim" /\ binary # source
  /\ buildStatus' = "building"
  /\ \E b \in Idle(Builders) : at' = [at EXCEPT ![t] = After(t), ![b] = "hook"]
  /\ UNCHANGED <<procSlot, binary, source, procVars, slotVars, held>>

\* There is no script to build with.
BuildHasNoScript(b) ==
  /\ at[b] = "hook" /\ buildStatus' = "failed" /\ Moves(b, "done")
  /\ UNCHANGED <<procSlot, binary, source, procVars, slotVars, held>>

\* The hook of app.py: the engine in the slot is closed, then the slot emptied.
BuildHook(b) ==
  /\ at[b] = "hook"
  /\ alive' = alive \ {slot}
  /\ Moves(b, IF slot = 0 THEN "compile" ELSE "clear")
  /\ UNCHANGED <<buildVars, spawned, oldest, ops, slotVars, held>>

BuildHookClears(b) ==
  /\ at[b] = "clear"
  /\ slot' = 0 /\ Moves(b, "compile")
  /\ UNCHANGED <<buildVars, procVars, pending, held>>

\* Without its process the build has failed.
BuildStarts(b) ==
  /\ at[b] = "compile"
  /\ \/ buildStatus' = "building" /\ procSlot' = b /\ Moves(b, "link")
     \/ buildStatus' = "failed" /\ Moves(b, "done") /\ UNCHANGED procSlot
  /\ UNCHANGED <<binary, source, procVars, slotVars, held>>

\* The script ends, well or not; or the server kills it.
BuildEnds(b) ==
  /\ at[b] = "link" /\ procSlot' = NoBuilder
  /\ \/ binary' = source /\ Moves(b, "good")
     \/ binary' = binary /\ Moves(b, "bad")
  /\ UNCHANGED <<buildStatus, source, procVars, slotVars, held>>

BuildSettles(b) ==
  /\ at[b] \in {"good", "bad"}
  /\ buildStatus' = IF at[b] = "good" THEN "ok" ELSE "failed"
  /\ Moves(b, "done")
  /\ UNCHANGED <<procSlot, binary, source, procVars, slotVars, held>>

\* stop() kills the process it finds in _PROC; its builder sees the pipe close.
StopBuild(t) ==
  /\ Request(t, "stop") /\ procSlot # NoBuilder
  /\ Moves(procSlot, "bad") /\ procSlot' = NoBuilder
  /\ UNCHANGED <<buildStatus, binary, source, procVars, slotVars, held>>

SourcesChange ==
  /\ source < MaxSources /\ source' = source + 1
  /\ UNCHANGED <<buildStatus, procSlot, binary, procVars, slotVars, at, held>>

----------------------------------------------------------------------------
(* The slot.                                                               *)

\* Loaded or being loaded: nothing to do.
LoadRequest(t) ==
  /\ Request(t, "load") /\ slot = 0 /\ ~pending
  /\ Moves(t, "load")
  /\ UNCHANGED <<buildVars, procVars, slotVars, held>>

EnsureLoaded(t) ==
  /\ at[t] = "load" /\ pending' = TRUE
  /\ \E l \in Idle(Loaders) : at' = [at EXCEPT ![t] = "idle", ![l] = "look"]
  /\ UNCHANGED <<buildVars, procVars, slot, held>>

LoaderLooks(l) ==
  /\ at[l] = "look" /\ Moves(l, IF binary = 0 THEN "start" ELSE "poll")
  /\ UNCHANGED <<buildVars, procVars, slotVars, held>>

\* A build in progress is waited for.
LoaderPolls(l) ==
  /\ at[l] = "poll" /\ buildStatus \notin {"building", "failed"} /\ binary # 0
  /\ Moves(l, "spawn")
  /\ UNCHANGED <<buildVars, procVars, slotVars, held>>

\* Mutant: the flag is left up.
LoaderGivesUpSilently(l) ==
  /\ at[l] = "poll" /\ Moves(l, "done")
  /\ UNCHANGED <<buildVars, procVars, slotVars, held>>

\* Ten minutes have passed, the build has failed, there is no binary or no model.
LoaderGivesUp(l) ==
  /\ at[l] = "poll" /\ pending' = FALSE /\ Moves(l, "done")
  /\ UNCHANGED <<buildVars, procVars, slot, held>>

\* c-config, and a chat that wants another model, close what they find.
ReplaceEngine(t) ==
  /\ \/ Request(t, "config") /\ Moves(t, "spawnConfig")
     \/ Request(t, "chat") /\ binary # 0 /\ Moves(t, "spawn")
  /\ binary # 0
  /\ alive' = alive \ {slot}
  /\ UNCHANGED <<buildVars, spawned, oldest, ops, slotVars, held>>

Spawn(t) ==
  /\ at[t] \in {"spawn", "spawnConfig"} /\ spawned < MaxSpawns
  /\ spawned' = spawned + 1 /\ alive' = alive \cup {spawned'}
  /\ oldest' = [oldest EXCEPT ![spawned'] = binary]
  /\ held' = [held EXCEPT ![t] = spawned']
  /\ Moves(t, IF at[t] = "spawn" THEN "publish" ELSE "publishConfig")
  /\ UNCHANGED <<buildVars, ops, slotVars>>

\* The process does not come up: only c-config empties the slot.
EngineFails(t) ==
  /\ at[t] \in {"spawn", "spawnConfig"}
  /\ IF at[t] = "spawn" THEN pending' = FALSE /\ UNCHANGED slot
                        ELSE slot' = 0 /\ UNCHANGED pending
  /\ Moves(t, IF t \in Loaders THEN "done" ELSE "idle")
  /\ UNCHANGED <<buildVars, procVars, held>>

PublishEngine(t) ==
  /\ at[t] \in {"publish", "publishConfig"}
  /\ slot' = held[t] /\ held' = [held EXCEPT ![t] = 0]
  /\ pending' = IF at[t] = "publish" THEN FALSE ELSE pending
  /\ Moves(t, IF t \in Loaders THEN "done" ELSE "idle")
  /\ UNCHANGED <<buildVars, procVars>>

Unload(t) ==
  /\ Request(t, "unload") /\ slot # 0
  /\ alive' = alive \ {slot} /\ Moves(t, "unload")
  /\ UNCHANGED <<buildVars, spawned, oldest, ops, slotVars, held>>

UnloadClears(t) ==
  /\ at[t] = "unload"
  /\ slot' = 0 /\ Moves(t, "idle")
  /\ UNCHANGED <<buildVars, procVars, pending, held>>

HostNext ==
  \/ \E t \in Callers : \/ BuildRequest(t) \/ StopBuild(t) \/ LoadRequest(t) \/ EnsureLoaded(t)
                        \/ ReplaceEngine(t) \/ Unload(t) \/ UnloadClears(t)
  \/ \E t \in Callers \cup Loaders : \/ StartLooks(t) \/ StartSkips(t) \/ StartClaims(t)
                                     \/ Spawn(t) \/ EngineFails(t) \/ PublishEngine(t)
  \/ \E b \in Builders : \/ BuildHasNoScript(b) \/ BuildHook(b) \/ BuildHookClears(b)
                         \/ BuildStarts(b) \/ BuildEnds(b) \/ BuildSettles(b)
  \/ \E l \in Loaders : LoaderLooks(l) \/ LoaderPolls(l) \/ LoaderGivesUp(l)
  \/ SourcesChange

HostSpec == HostInit /\ [][HostNext]_hostVars

----------------------------------------------------------------------------
Building == {b \in Builders : at[b] \notin {"idle", "done"}}

\* The state is well formed, and _PROC holds the process of a build that has
\* not ended (build_runner.py 201-217).
HostTypeOK ==
  /\ buildStatus \in {"idle", "building", "ok", "failed"}
  /\ procSlot \in {NoBuilder} \cup {b \in Builders : at[b] = "link"}
  /\ source \in 1 .. MaxSources /\ binary \in 0 .. source
  /\ slot \in 0 .. spawned /\ pending \in BOOLEAN
  /\ alive \subseteq 1 .. spawned /\ spawned \in 0 .. MaxSpawns
  /\ oldest \in [Engs -> 0 .. source]
  /\ DOMAIN at = Threads /\ held \in [Threads -> 0 .. spawned]

\* A start() while a build runs is a no-op: two builds never run together
\* (build_runner.py 256-267).
OneBuild == Cardinality(Building) <= 1

\* Who polls /engine/status sees "building" exactly while a build runs, from
\* the POST that starts it to its end (build_runner.py 261-263): a load never
\* takes a build in progress for settled, nor waits for one that is gone.
BuildIsReported == buildStatus = "building" <=> Building # {}

\* A load that is shown as pending is under way: whatever requests meet, and whichever
\* of its checks a load fails, the flag that turns every later load away comes down with
\* it (backends_routes.py 388-442, 664).
PendingIsUnderWay == pending => \E l \in Loaders : at[l] \notin {"idle", "done"}

\* Every engine process that runs can be found: it is the one in the slot, or
\* the thread that started it is about to put it there.
NoLeakedEngine ==
  \A e \in alive : slot = e \/ \E t \in Threads : held[t] = e /\ at[t] \in {"publish", "publishConfig"}

\* What the slot holds runs, unless someone is about to empty or replace it: a
\* request that finds the engine "loaded" can use it (backends_routes.py 662).
SlotIsAlive ==
  slot # 0 /\ (\A t \in Threads : at[t] \in {"idle", "done"}) => slot \in alive

\* The hook closes the engine so that the linker can replace its binary: no
\* engine runs under a build (app.py 201-211).
NoEngineUnderBuild == \A b \in Builders : at[b] = "link" => alive = {}
----------------------------------------------------------------------------
(* What the properties rest on.  No lock guards the slot or spans start(): *)
(* two races are named here, and the theorems say which they exclude.      *)

Loading == {l \in Loaders : at[l] \notin {"idle", "done"}}

\* Who has looked at the slot, or emptied it, and is yet to write it.
AtSlot ==
  Loading \cup {b \in Builders : at[b] = "clear"}
    \cup {t \in Callers : at[t] \in {"load", "spawn", "spawnConfig", "publish", "publishConfig", "unload"}}

OneStart == \A t, u \in Starting : t = u
OneAtSlot == \A t, u \in AtSlot : t = u

\* Where each kind of thread can be, and who holds an engine.
HostPlaces ==
  /\ at \in [Threads -> {"idle", "start", "startForced", "claim", "claimForced", "load", "look", "poll",
                         "spawn", "spawnConfig", "publish", "publishConfig", "unload", "hook",
                         "clear", "compile", "link", "good", "bad", "done"}]
  /\ \A t \in Callers : at[t] \notin {"look", "poll", "hook", "clear", "compile", "link", "good", "bad", "done"}
  /\ \A b \in Builders : at[b] \in {"idle", "hook", "clear", "compile", "link", "good", "bad", "done"}
  /\ \A l \in Loaders : at[l] \in {"idle", "look", "start", "claim", "poll", "spawn", "publish", "done"}
  /\ \A t \in Threads : held[t] # 0 <=> at[t] \in {"publish", "publishConfig"}

HostInv == HostTypeOK /\ HostPlaces /\ PendingIsUnderWay

\* No build runs under a start() between its two looks; a build is reported, and alone.
BuildInv ==
  /\ \A b, c \in Building : b = c
  /\ Starting # {} => Building = {}
  /\ BuildIsReported

\* A load has found the slot empty; and who is about to write the slot has left no
\* engine in it.
EngineSlotInv ==
  /\ Loading # {} => slot = 0
  /\ \A t \in Callers : at[t] = "load" => slot = 0
  /\ AtSlot # {} => slot \notin alive
  /\ NoLeakedEngine
=============================================================================
