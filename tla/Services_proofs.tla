--------------------------- MODULE Services_proofs ----------------------------
(***************************************************************************)
(* Proofs about the services of the dashboard that have no module of proofs *)
(* of their own: the build of the engine and its process (EngineHost), the *)
(* slot of the PyTorch model (BrainHost), the heartbeat's queue (Heartbeat), *)
(* the synthesis job (SynthJob) and what a training run leaves behind      *)
(* (TrainRun).  Each holds for any number of threads, requests, prompts,   *)
(* steps and faults.                                                       *)
(*                                                                         *)
(* Some of what these modules promise no lock of the code ensures.  Where a *)
(* race breaks it, the theorem names the race as a hypothesis about the    *)
(* behaviour, that no state has two threads in the window of it: OneStart, *)
(* OneAtSlot, OneWriting, OneBetween and OneCall.  The other theorems have *)
(* none.                                                                   *)
(***************************************************************************)
EXTENDS EngineHost, BrainHost, Heartbeat, SynthJob, TrainRun, TLAPS,
        FiniteSetTheorems, SequenceTheorems

-----------------------------------------------------------------------------
(* EngineHost: what is pending is under way, whatever requests meet.  One  *)
(* build, reported while it runs, and no engine left behind, unless the    *)
(* races for the build slot or the engine slot are run.                    *)

\* Who asks, who builds and who loads are different threads, and none is the
\* placeholder for nobody.
LEMMA ThreadsApart ==
  /\ Callers \cap Builders = {} /\ Callers \cap Loaders = {} /\ Builders \cap Loaders = {}
  /\ Callers \subseteq Threads /\ Builders \subseteq Threads /\ Loaders \subseteq Threads
  /\ NoBuilder \notin Builders
  BY HostAssumption DEF Threads, Builders, Loaders, NoBuilder

\* At the start nothing is built, asked or running.
LEMMA HostInitInv == HostInit => HostInv
<1> SUFFICES ASSUME HostInit PROVE HostInv
  OBVIOUS
<1> USE HostAssumption, ThreadsApart DEF HostInit
<1>1. HostTypeOK
  <2>1. source \in 1 .. MaxSources /\ binary \in 0 .. source /\ slot \in 0 .. spawned
    OBVIOUS
  <2>2. alive \subseteq 1 .. spawned /\ spawned \in 0 .. MaxSpawns
    OBVIOUS
  <2>3. oldest \in [Engs -> 0 .. source] /\ held \in [Threads -> 0 .. spawned]
    OBVIOUS
  <2> QED
    BY <2>1, <2>2, <2>3 DEF HostTypeOK
<1>2. HostPlaces /\ PendingIsUnderWay
  BY DEF HostPlaces, PendingIsUnderWay
<1> QED
  BY <1>1, <1>2 DEF HostInv


\* Every statement of a request, a build or a load keeps the types, the places of the
\* threads and that what is pending is under way.
LEMMA HostStep ==
  ASSUME HostInv, [HostNext]_hostVars
  PROVE  HostInv'
<1> USE HostAssumption, ThreadsApart DEF HostInv, hostVars, buildVars, procVars, slotVars
<1>1. ASSUME NEW t \in Callers, BuildRequest(t) PROVE HostInv'
  <2>0. PICK s \in {"start", "startForced"} : at[t] = "idle" /\ at' = [at EXCEPT ![t] = s]
    BY <1>1 DEF BuildRequest, Request, Moves
  <2>1. HostTypeOK'
    BY <1>1, <2>0 DEF HostTypeOK, Engs, BuildRequest, Request, Moves
  <2>2. HostPlaces'
    BY <1>1, <2>0 DEF HostPlaces, BuildRequest, Request, Moves
  <2>3. PendingIsUnderWay'
    BY <1>1, <2>0 DEF PendingIsUnderWay, HostPlaces, BuildRequest, Request, Moves
  <2> QED
    BY <2>1, <2>2, <2>3
<1>2. ASSUME NEW t \in Callers, StopBuild(t) PROVE HostInv'
  <2>1. HostTypeOK'
    BY <1>2 DEF HostTypeOK, Engs, StopBuild, Request, Moves
  <2>2. HostPlaces'
    BY <1>2 DEF HostTypeOK, HostPlaces, StopBuild, Request, Moves
  <2>3. PendingIsUnderWay'
    BY <1>2 DEF PendingIsUnderWay, HostPlaces, StopBuild, Request, Moves
  <2> QED
    BY <2>1, <2>2, <2>3
<1>3. ASSUME NEW t \in Callers, LoadRequest(t) PROVE HostInv'
  <2>1. HostTypeOK'
    BY <1>3 DEF HostTypeOK, Engs, LoadRequest, Request, Moves
  <2>2. HostPlaces'
    BY <1>3 DEF HostPlaces, LoadRequest, Request, Moves
  <2>3. PendingIsUnderWay'
    BY <1>3 DEF PendingIsUnderWay, HostPlaces, LoadRequest, Request, Moves
  <2> QED
    BY <2>1, <2>2, <2>3
<1>4. ASSUME NEW t \in Callers, EnsureLoaded(t) PROVE HostInv'
  <2>0. PICK l \in Loaders : at[l] = "idle" /\ at' = [at EXCEPT ![t] = "idle", ![l] = "look"]
    BY <1>4 DEF EnsureLoaded, Idle
  <2>1. HostTypeOK'
    BY <1>4, <2>0 DEF HostTypeOK, Engs, EnsureLoaded, Idle
  <2>2. HostPlaces'
    BY <1>4, <2>0 DEF HostPlaces, EnsureLoaded, Idle
  <2>3. PendingIsUnderWay'
    BY <1>4, <2>0 DEF PendingIsUnderWay, HostPlaces, EnsureLoaded, Idle
  <2> QED
    BY <2>1, <2>2, <2>3
<1>5. ASSUME NEW t \in Callers, ReplaceEngine(t) PROVE HostInv'
  <2>0. PICK s \in {"spawn", "spawnConfig"} : at[t] = "idle" /\ at' = [at EXCEPT ![t] = s]
    BY <1>5 DEF ReplaceEngine, Request, Moves
  <2>1. HostTypeOK'
    BY <1>5, <2>0 DEF HostTypeOK, Engs, ReplaceEngine, Request, Moves
  <2>2. HostPlaces'
    BY <1>5, <2>0 DEF HostPlaces, ReplaceEngine, Request, Moves
  <2>3. PendingIsUnderWay'
    BY <1>5, <2>0 DEF PendingIsUnderWay, HostPlaces, ReplaceEngine, Request, Moves
  <2> QED
    BY <2>1, <2>2, <2>3
<1>6. ASSUME NEW t \in Callers, Unload(t) PROVE HostInv'
  <2>1. HostTypeOK'
    BY <1>6 DEF HostTypeOK, Engs, Unload, Request, Moves
  <2>2. HostPlaces'
    BY <1>6 DEF HostPlaces, Unload, Request, Moves
  <2>3. PendingIsUnderWay'
    BY <1>6 DEF PendingIsUnderWay, HostPlaces, Unload, Request, Moves
  <2> QED
    BY <2>1, <2>2, <2>3
<1>7. ASSUME NEW t \in Callers, UnloadClears(t) PROVE HostInv'
  <2>1. HostTypeOK'
    BY <1>7 DEF HostTypeOK, Engs, UnloadClears, Moves
  <2>2. HostPlaces'
    BY <1>7 DEF HostPlaces, UnloadClears, Moves
  <2>3. PendingIsUnderWay'
    BY <1>7 DEF PendingIsUnderWay, HostPlaces, UnloadClears, Moves
  <2> QED
    BY <2>1, <2>2, <2>3
<1>8. ASSUME NEW t \in Callers \cup Loaders, StartLooks(t) PROVE HostInv'
  <2>1. HostTypeOK'
    BY <1>8 DEF HostTypeOK, Engs, StartLooks, Moves, After
  <2>2. HostPlaces'
    BY <1>8 DEF HostPlaces, StartLooks, Moves, After
  <2>3. PendingIsUnderWay'
    BY <1>8 DEF PendingIsUnderWay, HostPlaces, StartLooks, Moves, After
  <2> QED
    BY <2>1, <2>2, <2>3
<1>9. ASSUME NEW t \in Callers \cup Loaders, StartSkips(t) PROVE HostInv'
  <2>1. HostTypeOK'
    BY <1>9 DEF HostTypeOK, Engs, StartSkips, Moves, After
  <2>2. HostPlaces'
    BY <1>9 DEF HostPlaces, StartSkips, Moves, After
  <2>3. PendingIsUnderWay'
    BY <1>9 DEF PendingIsUnderWay, HostPlaces, StartSkips, Moves, After
  <2> QED
    BY <2>1, <2>2, <2>3
<1>10. ASSUME NEW t \in Callers \cup Loaders, StartClaims(t) PROVE HostInv'
  <2>0. PICK b \in Builders : at[b] = "idle" /\ at' = [at EXCEPT ![t] = After(t), ![b] = "hook"]
    BY <1>10 DEF StartClaims, Idle
  <2>1. HostTypeOK'
    BY <1>10, <2>0 DEF HostTypeOK, Engs, StartClaims, Idle, After
  <2>2. HostPlaces'
    BY <1>10, <2>0 DEF HostPlaces, StartClaims, Idle, After
  <2>3. PendingIsUnderWay'
    BY <1>10, <2>0 DEF PendingIsUnderWay, HostPlaces, StartClaims, Idle, After
  <2> QED
    BY <2>1, <2>2, <2>3
<1>11. ASSUME NEW t \in Callers \cup Loaders, Spawn(t) PROVE HostInv'
  <2>1. HostTypeOK'
    BY <1>11 DEF HostTypeOK, Engs, Spawn, Moves
  <2>2. HostPlaces'
    <3>1. spawned + 1 # 0
      BY DEF HostTypeOK
    <3> QED
      BY <1>11, <3>1 DEF HostTypeOK, HostPlaces, Spawn, Moves
  <2>3. PendingIsUnderWay'
    BY <1>11 DEF PendingIsUnderWay, HostPlaces, Spawn, Moves
  <2> QED
    BY <2>1, <2>2, <2>3
<1>12. ASSUME NEW t \in Callers \cup Loaders, EngineFails(t) PROVE HostInv'
  <2>1. HostTypeOK'
    <3>1. slot' \in 0 .. spawned /\ pending' \in BOOLEAN /\ DOMAIN at' = Threads
      <4>1. slot' \in {0, slot} /\ pending' \in {FALSE, pending}
        BY <1>12 DEF EngineFails
      <4>2. 0 \in 0 .. spawned
        BY DEF HostTypeOK
      <4> QED
        BY <1>12, <4>1, <4>2 DEF HostTypeOK, EngineFails, Moves
    <3>2. \A b \in Builders : at[b] = "link" => at'[b] = "link"
      BY <1>12 DEF HostTypeOK, EngineFails, Moves
    <3> QED
      BY <1>12, <3>1, <3>2 DEF HostTypeOK, EngineFails
  <2>2. HostPlaces'
    BY <1>12 DEF HostPlaces, EngineFails, Moves
  <2>3. PendingIsUnderWay'
    BY <1>12 DEF PendingIsUnderWay, HostPlaces, EngineFails, Moves
  <2> QED
    BY <2>1, <2>2, <2>3
<1>13. ASSUME NEW t \in Callers \cup Loaders, PublishEngine(t) PROVE HostInv'
  <2>1. HostTypeOK'
    <3>1. slot' \in 0 .. spawned /\ pending' \in BOOLEAN /\ DOMAIN at' = Threads
      BY <1>13 DEF HostTypeOK, PublishEngine, Moves
    <3>2. \A b \in Builders : at[b] = "link" => at'[b] = "link"
      BY <1>13 DEF HostTypeOK, PublishEngine, Moves
    <3>3. held' \in [Threads -> 0 .. spawned]
      BY <1>13 DEF HostTypeOK, PublishEngine
    <3> QED
      BY <1>13, <3>1, <3>2, <3>3 DEF HostTypeOK, PublishEngine
  <2>2. HostPlaces'
    <3>1. /\ at'[t] = IF t \in Loaders THEN "done" ELSE "idle"
          /\ held'[t] = 0 /\ at[t] \in {"publish", "publishConfig"}
          /\ \A u \in Threads \ {t} : at'[u] = at[u] /\ held'[u] = held[u]
      BY <1>13 DEF HostTypeOK, HostPlaces, PublishEngine, Moves
    <3>2. at' \in [Threads -> {"idle", "start", "startForced", "claim", "claimForced", "load", "look",
                               "poll", "spawn", "spawnConfig", "publish", "publishConfig", "unload",
                               "hook", "clear", "compile", "link", "good", "bad", "done"}]
      BY <1>13 DEF HostPlaces, PublishEngine, Moves
    <3> QED
      BY <3>1, <3>2 DEF HostPlaces
  <2>3. PendingIsUnderWay'
    BY <1>13 DEF PendingIsUnderWay, HostPlaces, PublishEngine, Moves
  <2> QED
    BY <2>1, <2>2, <2>3
<1>14. ASSUME NEW b \in Builders, BuildHasNoScript(b) PROVE HostInv'
  <2>1. HostTypeOK'
    BY <1>14 DEF HostTypeOK, Engs, BuildHasNoScript, Moves
  <2>2. HostPlaces'
    BY <1>14 DEF HostPlaces, BuildHasNoScript, Moves
  <2>3. PendingIsUnderWay'
    BY <1>14 DEF PendingIsUnderWay, HostPlaces, BuildHasNoScript, Moves
  <2> QED
    BY <2>1, <2>2, <2>3
<1>15. ASSUME NEW b \in Builders, BuildHook(b) PROVE HostInv'
  <2>1. HostTypeOK'
    BY <1>15 DEF HostTypeOK, Engs, BuildHook, Moves
  <2>2. HostPlaces'
    BY <1>15 DEF HostPlaces, BuildHook, Moves
  <2>3. PendingIsUnderWay'
    BY <1>15 DEF PendingIsUnderWay, HostPlaces, BuildHook, Moves
  <2> QED
    BY <2>1, <2>2, <2>3
<1>16. ASSUME NEW b \in Builders, BuildHookClears(b) PROVE HostInv'
  <2>1. HostTypeOK'
    BY <1>16 DEF HostTypeOK, Engs, BuildHookClears, Moves
  <2>2. HostPlaces'
    BY <1>16 DEF HostPlaces, BuildHookClears, Moves
  <2>3. PendingIsUnderWay'
    BY <1>16 DEF PendingIsUnderWay, HostPlaces, BuildHookClears, Moves
  <2> QED
    BY <2>1, <2>2, <2>3
<1>17. ASSUME NEW b \in Builders, BuildStarts(b) PROVE HostInv'
  <2>0. PICK s \in {"link", "done"} : at' = [at EXCEPT ![b] = s]
    BY <1>17 DEF BuildStarts, Moves
  <2>1. HostTypeOK'
    BY <1>17, <2>0 DEF HostTypeOK, Engs, BuildStarts, Moves
  <2>2. HostPlaces'
    BY <1>17, <2>0 DEF HostPlaces, BuildStarts, Moves
  <2>3. PendingIsUnderWay'
    BY <1>17, <2>0 DEF PendingIsUnderWay, HostPlaces, BuildStarts, Moves
  <2> QED
    BY <2>1, <2>2, <2>3
<1>18. ASSUME NEW b \in Builders, BuildEnds(b) PROVE HostInv'
  <2>0. PICK s \in {"good", "bad"} : at' = [at EXCEPT ![b] = s]
    BY <1>18 DEF BuildEnds, Moves
  <2>1. HostTypeOK'
    BY <1>18, <2>0 DEF HostTypeOK, Engs, BuildEnds, Moves
  <2>2. HostPlaces'
    BY <1>18, <2>0 DEF HostPlaces, BuildEnds, Moves
  <2>3. PendingIsUnderWay'
    BY <1>18, <2>0 DEF PendingIsUnderWay, HostPlaces, BuildEnds, Moves
  <2> QED
    BY <2>1, <2>2, <2>3
<1>19. ASSUME NEW b \in Builders, BuildSettles(b) PROVE HostInv'
  <2>1. HostTypeOK'
    BY <1>19 DEF HostTypeOK, Engs, BuildSettles, Moves
  <2>2. HostPlaces'
    BY <1>19 DEF HostPlaces, BuildSettles, Moves
  <2>3. PendingIsUnderWay'
    BY <1>19 DEF PendingIsUnderWay, HostPlaces, BuildSettles, Moves
  <2> QED
    BY <2>1, <2>2, <2>3
<1>20. ASSUME NEW l \in Loaders, LoaderLooks(l) PROVE HostInv'
  <2>1. HostTypeOK'
    BY <1>20 DEF HostTypeOK, Engs, LoaderLooks, Moves
  <2>2. HostPlaces'
    BY <1>20 DEF HostPlaces, LoaderLooks, Moves
  <2>3. PendingIsUnderWay'
    BY <1>20 DEF PendingIsUnderWay, HostPlaces, LoaderLooks, Moves
  <2> QED
    BY <2>1, <2>2, <2>3
<1>21. ASSUME NEW l \in Loaders, LoaderPolls(l) PROVE HostInv'
  <2>1. HostTypeOK'
    BY <1>21 DEF HostTypeOK, Engs, LoaderPolls, Moves
  <2>2. HostPlaces'
    BY <1>21 DEF HostPlaces, LoaderPolls, Moves
  <2>3. PendingIsUnderWay'
    BY <1>21 DEF PendingIsUnderWay, HostPlaces, LoaderPolls, Moves
  <2> QED
    BY <2>1, <2>2, <2>3
<1>22. ASSUME NEW l \in Loaders, LoaderGivesUp(l) PROVE HostInv'
  <2>1. HostTypeOK'
    BY <1>22 DEF HostTypeOK, Engs, LoaderGivesUp, Moves
  <2>2. HostPlaces'
    BY <1>22 DEF HostPlaces, LoaderGivesUp, Moves
  <2>3. PendingIsUnderWay'
    BY <1>22 DEF PendingIsUnderWay, HostPlaces, LoaderGivesUp, Moves
  <2> QED
    BY <2>1, <2>2, <2>3
<1>23. CASE SourcesChange
  BY <1>23 DEF SourcesChange, HostTypeOK, HostPlaces, PendingIsUnderWay
<1>24. CASE UNCHANGED hostVars
  BY <1>24 DEF HostTypeOK, HostPlaces, PendingIsUnderWay
<1> QED
  BY <1>1, <1>2, <1>3, <1>4, <1>5, <1>6, <1>7, <1>8, <1>9, <1>10, <1>11, <1>12, <1>13, <1>14,
     <1>15, <1>16, <1>17, <1>18, <1>19, <1>20, <1>21, <1>22, <1>23, <1>24 DEF HostNext

\* At the start no build runs, none is asked for, and no engine either.
LEMMA BuildSlotInit == HostInit => BuildInv /\ EngineSlotInv
<1> SUFFICES ASSUME HostInit PROVE BuildInv /\ EngineSlotInv
  OBVIOUS
<1> USE HostAssumption, ThreadsApart DEF HostInit
<1>1. \A t \in Threads : at[t] = "idle"
  OBVIOUS
<1>2. BuildInv
  BY <1>1 DEF BuildInv, BuildIsReported, Building, Starting
<1>3. EngineSlotInv
  BY <1>1 DEF EngineSlotInv, NoLeakedEngine, AtSlot, Loading
<1> QED
  BY <1>2, <1>3


\* Every step keeps what is known of builds, as long as one start() at a time is
\* between its two looks at the build slot.
LEMMA BuildStep ==
  ASSUME HostInv, HostInv', OneStart, OneStart', BuildInv, [HostNext]_hostVars
  PROVE  BuildInv'
<1> USE HostAssumption, ThreadsApart DEF HostInv, HostPlaces, hostVars, buildVars, procVars, slotVars
<1>1. ASSUME NEW t \in Callers, BuildRequest(t) PROVE BuildInv'
  BY <1>1 DEF BuildInv, BuildIsReported, Building, Starting, BuildRequest, Request, Moves
<1>2. ASSUME NEW t \in Callers, StopBuild(t) PROVE BuildInv'
  BY <1>2 DEF HostTypeOK, BuildInv, BuildIsReported, Building, Starting, StopBuild, Request, Moves
<1>3. ASSUME NEW t \in Callers, LoadRequest(t) PROVE BuildInv'
  BY <1>3 DEF BuildInv, BuildIsReported, Building, Starting, LoadRequest, Request, Moves
<1>4. ASSUME NEW t \in Callers, EnsureLoaded(t) PROVE BuildInv'
  BY <1>4 DEF BuildInv, BuildIsReported, Building, Starting, EnsureLoaded, Idle
<1>5. ASSUME NEW t \in Callers, ReplaceEngine(t) PROVE BuildInv'
  BY <1>5 DEF BuildInv, BuildIsReported, Building, Starting, ReplaceEngine, Request, Moves
<1>6. ASSUME NEW t \in Callers, Unload(t) PROVE BuildInv'
  BY <1>6 DEF BuildInv, BuildIsReported, Building, Starting, Unload, Request, Moves
<1>7. ASSUME NEW t \in Callers, UnloadClears(t) PROVE BuildInv'
  BY <1>7 DEF BuildInv, BuildIsReported, Building, Starting, UnloadClears, Moves
<1>8. ASSUME NEW t \in Callers \cup Loaders, StartLooks(t) PROVE BuildInv'
  BY <1>8 DEF BuildInv, BuildIsReported, Building, Starting, StartLooks, Moves, After
<1>9. ASSUME NEW t \in Callers \cup Loaders, StartSkips(t) PROVE BuildInv'
  BY <1>9 DEF BuildInv, BuildIsReported, Building, Starting, StartSkips, Moves, After
<1>10. ASSUME NEW t \in Callers \cup Loaders, StartClaims(t) PROVE BuildInv'
  <2>0. PICK b \in Builders : at[b] = "idle" /\ at' = [at EXCEPT ![t] = After(t), ![b] = "hook"]
    BY <1>10 DEF StartClaims, Idle
  <2>1. /\ at'[t] = After(t) /\ at'[b] = "hook" /\ t # b
        /\ \A u \in Threads \ {t, b} : at'[u] = at[u]
    BY <1>10, <2>0 DEF StartClaims
  <2>2. at'[t] = IF t \in Loaders THEN "poll" ELSE "idle"
    BY <2>1 DEF After
  <2>3. t \in Starting /\ buildStatus' = "building"
    BY <1>10 DEF StartClaims, Starting
  <2>4. Starting = {t} /\ Building = {}
    BY <2>3 DEF OneStart, BuildInv
  <2>5. Starting' = {} /\ Building' = {b}
    BY <2>1, <2>2, <2>4 DEF Starting, Building
  <2> QED
    BY <2>3, <2>5 DEF BuildInv, BuildIsReported
<1>11. ASSUME NEW t \in Callers \cup Loaders, Spawn(t) PROVE BuildInv'
  BY <1>11 DEF BuildInv, BuildIsReported, Building, Starting, Spawn, Moves
<1>12. ASSUME NEW t \in Callers \cup Loaders, EngineFails(t) PROVE BuildInv'
  BY <1>12 DEF BuildInv, BuildIsReported, Building, Starting, EngineFails, Moves
<1>13. ASSUME NEW t \in Callers \cup Loaders, PublishEngine(t) PROVE BuildInv'
  BY <1>13 DEF BuildInv, BuildIsReported, Building, Starting, PublishEngine, Moves
<1>14. ASSUME NEW b \in Builders, BuildHasNoScript(b) PROVE BuildInv'
  BY <1>14 DEF BuildInv, BuildIsReported, Building, Starting, BuildHasNoScript, Moves
<1>15. ASSUME NEW b \in Builders, BuildHook(b) PROVE BuildInv'
  BY <1>15 DEF BuildInv, BuildIsReported, Building, Starting, BuildHook, Moves
<1>16. ASSUME NEW b \in Builders, BuildHookClears(b) PROVE BuildInv'
  BY <1>16 DEF BuildInv, BuildIsReported, Building, Starting, BuildHookClears, Moves
<1>17. ASSUME NEW b \in Builders, BuildStarts(b) PROVE BuildInv'
  BY <1>17 DEF BuildInv, BuildIsReported, Building, Starting, BuildStarts, Moves
<1>18. ASSUME NEW b \in Builders, BuildEnds(b) PROVE BuildInv'
  BY <1>18 DEF BuildInv, BuildIsReported, Building, Starting, BuildEnds, Moves
<1>19. ASSUME NEW b \in Builders, BuildSettles(b) PROVE BuildInv'
  BY <1>19 DEF BuildInv, BuildIsReported, Building, Starting, BuildSettles, Moves
<1>20. ASSUME NEW l \in Loaders, LoaderLooks(l) PROVE BuildInv'
  BY <1>20 DEF BuildInv, BuildIsReported, Building, Starting, LoaderLooks, Moves
<1>21. ASSUME NEW l \in Loaders, LoaderPolls(l) PROVE BuildInv'
  BY <1>21 DEF BuildInv, BuildIsReported, Building, Starting, LoaderPolls, Moves
<1>22. ASSUME NEW l \in Loaders, LoaderGivesUp(l) PROVE BuildInv'
  BY <1>22 DEF BuildInv, BuildIsReported, Building, Starting, LoaderGivesUp, Moves
<1>23. CASE SourcesChange
  BY <1>23 DEF SourcesChange, BuildInv, BuildIsReported, Building, Starting
<1>24. CASE UNCHANGED hostVars
  BY <1>24 DEF BuildInv, BuildIsReported, Building, Starting
<1> QED
  BY <1>1, <1>2, <1>3, <1>4, <1>5, <1>6, <1>7, <1>8, <1>9, <1>10, <1>11, <1>12, <1>13, <1>14,
     <1>15, <1>16, <1>17, <1>18, <1>19, <1>20, <1>21, <1>22, <1>23, <1>24 DEF HostNext

\* Every step keeps what is known of the engine slot, as long as one thread at a time
\* is between its look at the slot and its write.
LEMMA SlotStep ==
  ASSUME HostInv, HostInv', OneAtSlot, OneAtSlot', EngineSlotInv, [HostNext]_hostVars
  PROVE  EngineSlotInv'
<1> USE HostAssumption, ThreadsApart DEF HostInv, hostVars, buildVars, procVars, slotVars
<1>1. ASSUME NEW t \in Callers, BuildRequest(t) PROVE EngineSlotInv'
  BY <1>1 DEF EngineSlotInv, NoLeakedEngine, AtSlot, Loading, HostPlaces, BuildRequest, Request,
     Moves
<1>2. ASSUME NEW t \in Callers, StopBuild(t) PROVE EngineSlotInv'
  BY <1>2 DEF EngineSlotInv, NoLeakedEngine, AtSlot, Loading, HostPlaces, StopBuild, Request, Moves
<1>3. ASSUME NEW t \in Callers, LoadRequest(t) PROVE EngineSlotInv'
  BY <1>3 DEF HostTypeOK, EngineSlotInv, NoLeakedEngine, AtSlot, Loading, HostPlaces, LoadRequest,
     Request, Moves
<1>4. ASSUME NEW t \in Callers, EnsureLoaded(t) PROVE EngineSlotInv'
  BY <1>4 DEF EngineSlotInv, NoLeakedEngine, AtSlot, Loading, HostPlaces, EnsureLoaded, Idle
<1>5. ASSUME NEW t \in Callers, ReplaceEngine(t) PROVE EngineSlotInv'
  BY <1>5 DEF EngineSlotInv, NoLeakedEngine, AtSlot, Loading, HostPlaces, ReplaceEngine, Request,
     Moves
<1>6. ASSUME NEW t \in Callers, Unload(t) PROVE EngineSlotInv'
  BY <1>6 DEF EngineSlotInv, NoLeakedEngine, AtSlot, Loading, HostPlaces, Unload, Request, Moves
<1>7. ASSUME NEW t \in Callers, UnloadClears(t) PROVE EngineSlotInv'
  BY <1>7 DEF EngineSlotInv, NoLeakedEngine, AtSlot, Loading, HostPlaces, UnloadClears, Moves
<1>8. ASSUME NEW t \in Callers \cup Loaders, StartLooks(t) PROVE EngineSlotInv'
  BY <1>8 DEF EngineSlotInv, NoLeakedEngine, AtSlot, Loading, HostPlaces, StartLooks, Moves, After
<1>9. ASSUME NEW t \in Callers \cup Loaders, StartSkips(t) PROVE EngineSlotInv'
  BY <1>9 DEF EngineSlotInv, NoLeakedEngine, AtSlot, Loading, HostPlaces, StartSkips, Moves, After
<1>10. ASSUME NEW t \in Callers \cup Loaders, StartClaims(t) PROVE EngineSlotInv'
  BY <1>10 DEF EngineSlotInv, NoLeakedEngine, AtSlot, Loading, HostPlaces, StartClaims, Idle, After
<1>11. ASSUME NEW t \in Callers \cup Loaders, Spawn(t) PROVE EngineSlotInv'
  <2>1. /\ spawned' = spawned + 1 /\ alive' = alive \cup {spawned'} /\ slot' = slot
        /\ held'[t] = spawned' /\ at'[t] \in {"publish", "publishConfig"}
        /\ at[t] \in {"spawn", "spawnConfig"} /\ held[t] = 0
        /\ \A u \in Threads \ {t} : at'[u] = at[u] /\ held'[u] = held[u]
    BY <1>11 DEF HostTypeOK, HostPlaces, Spawn, Moves
  <2>2. slot # spawned + 1
    BY DEF HostTypeOK
  <2>3. t \in AtSlot
    BY <2>1 DEF AtSlot, Loading, HostPlaces
  <2>4. slot \notin alive /\ slot' \notin alive'
    BY <2>1, <2>2, <2>3 DEF EngineSlotInv
  <2>5. NoLeakedEngine'
    <3> SUFFICES ASSUME NEW e \in alive'
                 PROVE  \E u \in Threads : held'[u] = e /\ at'[u] \in {"publish", "publishConfig"}
      BY DEF NoLeakedEngine
    <3>1. CASE e = spawned'
      BY <2>1, <3>1
    <3>2. CASE e \in alive
      <4>1. PICK u \in Threads : held[u] = e /\ at[u] \in {"publish", "publishConfig"}
        BY <2>4, <3>2 DEF EngineSlotInv, NoLeakedEngine
      <4>2. u # t
        BY <2>1, <4>1
      <4> QED
        BY <2>1, <4>1, <4>2
    <3> QED
      BY <2>1, <3>1, <3>2
  <2>6. Loading' = Loading
    BY <2>1 DEF Loading
  <2>7. \A u \in Callers : at'[u] = "load" => at[u] = "load"
    BY <2>1
  <2> QED
    BY <2>1, <2>4, <2>5, <2>6, <2>7 DEF EngineSlotInv
<1>12. ASSUME NEW t \in Callers \cup Loaders, EngineFails(t) PROVE EngineSlotInv'
  BY <1>12 DEF EngineSlotInv, NoLeakedEngine, AtSlot, Loading, HostPlaces, EngineFails, Moves
<1>13. ASSUME NEW t \in Callers \cup Loaders, PublishEngine(t) PROVE EngineSlotInv'
  <2>1. /\ at[t] \in {"publish", "publishConfig"} /\ slot' = held[t] /\ alive' = alive
        /\ \A u \in Threads \ {t} : at'[u] = at[u]
        /\ at'[t] = IF t \in Loaders THEN "done" ELSE "idle"
    BY <1>13 DEF PublishEngine, Moves, HostPlaces
  <2>2. t \in AtSlot
    BY <2>1 DEF AtSlot, Loading, HostPlaces
  <2>3. \A u \in AtSlot : u = t
    BY <2>2 DEF OneAtSlot
  <2>4. Loading' = {} /\ \A u \in Callers : at'[u] # "load"
    BY <2>1, <2>3 DEF AtSlot, Loading
  <2>5. AtSlot' = {}
    BY <2>1, <2>3 DEF AtSlot, Loading
  <2>6. NoLeakedEngine'
    <3> SUFFICES ASSUME NEW e \in alive PROVE slot' = e
      BY <2>1 DEF NoLeakedEngine
    <3>1. PICK u \in Threads : held[u] = e /\ at[u] \in {"publish", "publishConfig"}
      BY <2>2 DEF EngineSlotInv, NoLeakedEngine
    <3>2. u \in AtSlot
      BY <3>1 DEF AtSlot, Loading, HostPlaces, Threads
    <3> QED
      BY <2>1, <2>3, <3>1, <3>2
  <2> QED
    BY <2>4, <2>5, <2>6 DEF EngineSlotInv
<1>14. ASSUME NEW b \in Builders, BuildHasNoScript(b) PROVE EngineSlotInv'
  BY <1>14 DEF EngineSlotInv, NoLeakedEngine, AtSlot, Loading, HostPlaces, BuildHasNoScript, Moves
<1>15. ASSUME NEW b \in Builders, BuildHook(b) PROVE EngineSlotInv'
  BY <1>15 DEF EngineSlotInv, NoLeakedEngine, AtSlot, Loading, HostPlaces, BuildHook, Moves
<1>16. ASSUME NEW b \in Builders, BuildHookClears(b) PROVE EngineSlotInv'
  BY <1>16 DEF EngineSlotInv, NoLeakedEngine, AtSlot, Loading, HostPlaces, BuildHookClears, Moves
<1>17. ASSUME NEW b \in Builders, BuildStarts(b) PROVE EngineSlotInv'
  BY <1>17 DEF EngineSlotInv, NoLeakedEngine, AtSlot, Loading, HostPlaces, BuildStarts, Moves
<1>18. ASSUME NEW b \in Builders, BuildEnds(b) PROVE EngineSlotInv'
  BY <1>18 DEF EngineSlotInv, NoLeakedEngine, AtSlot, Loading, HostPlaces, BuildEnds, Moves
<1>19. ASSUME NEW b \in Builders, BuildSettles(b) PROVE EngineSlotInv'
  BY <1>19 DEF EngineSlotInv, NoLeakedEngine, AtSlot, Loading, HostPlaces, BuildSettles, Moves
<1>20. ASSUME NEW l \in Loaders, LoaderLooks(l) PROVE EngineSlotInv'
  BY <1>20 DEF EngineSlotInv, NoLeakedEngine, AtSlot, Loading, HostPlaces, LoaderLooks, Moves
<1>21. ASSUME NEW l \in Loaders, LoaderPolls(l) PROVE EngineSlotInv'
  BY <1>21 DEF EngineSlotInv, NoLeakedEngine, AtSlot, Loading, HostPlaces, LoaderPolls, Moves
<1>22. ASSUME NEW l \in Loaders, LoaderGivesUp(l) PROVE EngineSlotInv'
  BY <1>22 DEF EngineSlotInv, NoLeakedEngine, AtSlot, Loading, HostPlaces, LoaderGivesUp, Moves
<1>23. CASE SourcesChange
  BY <1>23 DEF SourcesChange, EngineSlotInv, NoLeakedEngine, AtSlot, Loading
<1>24. CASE UNCHANGED hostVars
  BY <1>24 DEF EngineSlotInv, NoLeakedEngine, AtSlot, Loading
<1> QED
  BY <1>1, <1>2, <1>3, <1>4, <1>5, <1>6, <1>7, <1>8, <1>9, <1>10, <1>11, <1>12, <1>13, <1>14,
     <1>15, <1>16, <1>17, <1>18, <1>19, <1>20, <1>21, <1>22, <1>23, <1>24 DEF HostNext

\* Builds that are all one are at most one.
LEMMA OneBuildLemma == BuildInv => OneBuild
<1> SUFFICES ASSUME BuildInv PROVE OneBuild
  OBVIOUS
<1>1. CASE Building = {}
  BY <1>1, FS_EmptySet DEF OneBuild
<1>2. ASSUME NEW b \in Building PROVE OneBuild
  <2>1. Building = {b}
    BY DEF BuildInv
  <2>2. Cardinality({b}) = 1
    BY FS_Singleton
  <2> QED
    BY <2>1, <2>2 DEF OneBuild
<1> QED
  BY <1>1, <1>2

\* HostInvariance: types and places of the threads, and PendingIsUnderWay, for any
\* requests, builds and loads, whatever races they run.
THEOREM HostInvariance == HostSpec => []HostInv
BY HostInitInv, HostStep, PTL DEF HostSpec

\* LoadsAreUnderWay: the flag that turns a load away is up only while a load is under
\* way (backends_routes.py 388-442, 664), whatever requests meet.
THEOREM LoadsAreUnderWay == HostSpec => []PendingIsUnderWay
<1>1. HostInv => PendingIsUnderWay
  BY DEF HostInv
<1> QED
  BY <1>1, HostInvariance, PTL

\* BuildsAreReported: as long as no start() comes between the two looks of another
\* (OneStart, which no lock ensures: build_runner.py 264, 276), the status is "building"
\* exactly while a build runs, and no second build runs beside it.
THEOREM BuildsAreReported == HostSpec /\ []OneStart => [](BuildIsReported /\ OneBuild)
<1>1. BuildInv => BuildIsReported /\ OneBuild
  BY OneBuildLemma DEF BuildInv
<1>2. HostInit => BuildInv
  BY BuildSlotInit
<1> QED
  BY <1>1, <1>2, BuildStep, HostInvariance, PTL DEF HostSpec

\* EnginesAreFound: as long as one request, load or hook at a time is between its look
\* at the slot and its write (OneAtSlot, which no lock ensures: backends_routes.py 649),
\* no engine process runs that the slot does not hold or is about to.
THEOREM EnginesAreFound == HostSpec /\ []OneAtSlot => []NoLeakedEngine
<1>1. EngineSlotInv => NoLeakedEngine
  BY DEF EngineSlotInv
<1>2. HostInit => EngineSlotInv
  BY BuildSlotInit
<1> QED
  BY <1>1, <1>2, SlotStep, HostInvariance, PTL DEF HostSpec

-----------------------------------------------------------------------------
(* BrainHost: a generation is ablated as it asked to be, and a lookup sees *)
(* no ablation, whether or not writers of the slot overlap.  OwnAblation   *)
(* alone does not last: a lock must have one holder, and a brain must be   *)
(* whole when it is free.                                                  *)

\* Nothing is loaded, held or ablated at first.
LEMMA BrainInitInv == BrainInit => BrainInv
<1> SUFFICES ASSUME BrainInit PROVE BrainInv
  OBVIOUS
<1>0. brain \in 0 .. loaded /\ loaded \in 0 .. MaxBrains /\ mine \in [BrainUsers -> 0 .. loaded]
  BY BrainAssumption DEF BrainInit
<1>1. BrainTypeOK
  BY <1>0, BrainAssumption DEF BrainInit, BrainTypeOK, Brains
<1>2. LockOfBrain /\ OwnAblation
  BY DEF BrainInit, LockOfBrain, OwnAblation
<1>3. WholeWhenFree
  BY DEF BrainInit, WholeWhenFree
<1>4. QED
  BY <1>1, <1>2, <1>3 DEF BrainInv

\* Each statement of a request keeps the invariant; those that matter take a lock
\* (TakesBrain) or give it back (Ends).
LEMMA BrainStepInv == BrainInv /\ [BrainNext]_brainVars => BrainInv'
<1> SUFFICES ASSUME BrainInv, [BrainNext]_brainVars PROVE BrainInv'
  OBVIOUS
<1> USE BrainAssumption DEF BrainInv, BrainTypeOK, LockOfBrain, WholeWhenFree, OwnAblation,
        slotB, heapB, lockB, At, Goes, New, Brains
<1>1. ASSUME NEW t \in BrainUsers, LoadBrain(t) PROVE BrainInv'
  BY <1>1 DEF LoadBrain
<1>2. ASSUME NEW t \in BrainUsers, SwapClears(t) PROVE BrainInv'
  BY <1>2 DEF SwapClears
<1>3. ASSUME NEW t \in BrainUsers, SetsBrain(t, "load", "name") PROVE BrainInv'
  <2>1. loaded' \in Brains /\ loaded \in 0 .. loaded' /\ mine \in [BrainUsers -> 0 .. loaded']
    BY <1>3 DEF SetsBrain
  <2>2. BrainTypeOK'
    BY <1>3, <2>1 DEF SetsBrain
  <2>3. LockOfBrain' /\ WholeWhenFree' /\ OwnAblation'
    BY <1>3 DEF SetsBrain
  <2>4. QED
    BY <2>2, <2>3
<1>4. ASSUME NEW t \in BrainUsers, SetsModel(t) PROVE BrainInv'
  BY <1>4 DEF SetsModel
<1>5. ASSUME NEW t \in BrainUsers, LoadFails(t) PROVE BrainInv'
  BY <1>5 DEF LoadFails
<1>6. ASSUME NEW t \in BrainUsers, Unloads(t) PROVE BrainInv'
  BY <1>6 DEF Unloads
<1>7. ASSUME NEW t \in BrainUsers, WatcherLooks(t) PROVE BrainInv'
  BY <1>7 DEF WatcherLooks
<1>8. ASSUME NEW t \in BrainUsers, WatcherUnloads(t) PROVE BrainInv'
  BY <1>8 DEF WatcherUnloads
<1>9. ASSUME NEW t \in BrainUsers, DropsModel(t) PROVE BrainInv'
  BY <1>9 DEF DropsModel
<1>10. ASSUME NEW t \in BrainUsers, ReadsBrain(t) PROVE BrainInv'
  <2>1. brain \in Brains
    BY <1>10 DEF ReadsBrain
  <2>2. BrainTypeOK'
    BY <1>10, <2>1 DEF ReadsBrain
  <2>3. LockOfBrain'
    BY <1>10, <2>1 DEF ReadsBrain
  <2>4. WholeWhenFree' /\ OwnAblation'
    BY <1>10 DEF ReadsBrain
  <2>5. QED
    BY <2>2, <2>3, <2>4
<1>11. ASSUME NEW t \in BrainUsers, TakesBrain(t) PROVE BrainInv'
  BY <1>11 DEF TakesBrain
<1>12. ASSUME NEW t \in BrainUsers, Ends(t) PROVE BrainInv'
  BY <1>12 DEF Ends
<1>13. ASSUME NEW t \in BrainUsers, EnsuresBrain(t) PROVE BrainInv'
  BY <1>13 DEF EnsuresBrain
<1>14. ASSUME NEW t \in BrainUsers, SetsBrain(t, "ensure", "ensureName") PROVE BrainInv'
  <2>1. loaded' \in Brains /\ loaded \in 0 .. loaded' /\ mine \in [BrainUsers -> 0 .. loaded']
    BY <1>14 DEF SetsBrain
  <2>2. BrainTypeOK'
    BY <1>14, <2>1 DEF SetsBrain
  <2>3. LockOfBrain' /\ WholeWhenFree' /\ OwnAblation'
    BY <1>14 DEF SetsBrain
  <2>4. QED
    BY <2>2, <2>3
<1>15. ASSUME NEW t \in BrainUsers, EnsuresModel(t) PROVE BrainInv'
  BY <1>15 DEF EnsuresModel
<1>16. ASSUME NEW t \in BrainUsers, TakesForChat(t) PROVE BrainInv'
  BY <1>16 DEF TakesForChat
<1>17. ASSUME NEW t \in BrainUsers, ChatEnds(t) PROVE BrainInv'
  BY <1>17 DEF ChatEnds
<1>18. CASE UseExpires
  BY <1>18 DEF UseExpires
<1>19. CASE UNCHANGED brainVars
  BY <1>19 DEF brainVars
<1>20. QED
  BY <1>1, <1>2, <1>3, <1>4, <1>5, <1>6, <1>7, <1>8, <1>9, <1>10, <1>11, <1>12, <1>13, <1>14,
     <1>15, <1>16, <1>17, <1>18, <1>19 DEF BrainNext

\* BrainInv holds in every reachable state.
THEOREM BrainInvariance == BrainSpec => []BrainInv
BY BrainInitInv, BrainStepInv, PTL DEF BrainSpec

\* OwnAblation: a generation is ablated as it asked to be from its first byte to its
\* last, and what only reads sees no ablation.
THEOREM GenerationsKeepApart == BrainSpec => []OwnAblation
<1>1. BrainInv => OwnAblation
  BY DEF BrainInv
<1>2. QED
  BY <1>1, BrainInvariance, PTL

\* Which part of a change of the slot its writer is in.
LEMMA NameStep ==
  ASSUME OneWriting, OneWriting', BrainTypeOK, LockOfBrain, SlotBetween, [BrainNext]_brainVars
  PROVE  SlotBetween'
<1> DEFINE Writing == {"swap", "load", "name", "ensure", "ensureName", "drop"}
           Named == brain # 0 => brainModel \in {modelOf[brain], NoModel}
<1>0. /\ DOMAIN bpc = BrainUsers /\ DOMAIN asked = BrainUsers /\ Writers = {t \in BrainUsers : bpc[t] \in Writing}
      /\ Writers' = {t \in BrainUsers : bpc'[t] \in Writing}
      /\ loaded \in Nat /\ 0 .. loaded \subseteq Nat /\ brain \in 0 .. loaded
      /\ modelOf \in [Brains -> Models \cup {NoModel}] /\ loaded <= MaxBrains /\ MaxBrains \in Nat
  BY BrainAssumption DEF BrainTypeOK, LockOfBrain, Writers
<1>1. ASSUME NEW t \in BrainUsers, NEW pc \in Writing, Goes(t, pc), bpc[t] \notin Writing
      PROVE  Writers = {} /\ (\A u \in BrainUsers : bpc[u] \notin Writing) /\ Named
  <2>1. \A u \in BrainUsers : bpc'[u] = IF u = t THEN pc ELSE bpc[u]
    BY <1>0, <1>1 DEF Goes
  <2>2. t \in Writers' /\ \A u \in Writers : u \in Writers' /\ u # t
    BY <1>0, <1>1, <2>1
  <2>3. Writers = {}
    BY <2>2 DEF OneWriting
  <2> QED
    BY <1>0, <2>3 DEF SlotBetween
<1>2. ASSUME NEW t \in BrainUsers, bpc[t] \in Writing
      PROVE  \A u \in BrainUsers : bpc[u] \in Writing => u = t
  BY <1>0, <1>2 DEF OneWriting
<1> HIDE DEF Named
\* A step of a thread outside the writers that stays outside.
<1>3. ASSUME NEW t \in BrainUsers, NEW pc, Goes(t, pc), bpc[t] \notin Writing, pc \notin Writing,
             UNCHANGED <<brain, brainModel, modelOf>>, \A u \in BrainUsers : u # t => asked'[u] = asked[u]
      PROVE  SlotBetween'
  <2>1. \A u \in BrainUsers : bpc'[u] = IF u = t THEN pc ELSE bpc[u]
    BY <1>0, <1>3 DEF Goes
  <2>2. Writers' = Writers /\ \A u \in Writers : u # t /\ bpc'[u] = bpc[u] /\ asked'[u] = asked[u]
    BY <1>0, <1>3, <2>1
  <2> QED
    BY <1>0, <1>3, <2>1, <2>2 DEF SlotBetween
\* A writer begins.
<1>4. ASSUME NEW t \in BrainUsers, NEW pc \in Writing, Goes(t, pc), bpc[t] \notin Writing,
             \/ pc \in {"swap", "load", "drop"} /\ brain' = 0
             \/ pc = "ensure" /\ UNCHANGED <<brain, brainModel, modelOf>>
      PROVE  SlotBetween'
  <2>1. \A u \in BrainUsers : bpc'[u] = IF u = t THEN pc ELSE bpc[u]
    BY <1>0, <1>4 DEF Goes
  <2>2. Writers' = {t} /\ \A u \in BrainUsers : u # t => bpc'[u] \notin Writing
    BY <1>0, <1>1, <1>4, <2>1
  <2>3. CASE pc \in {"swap", "load", "drop"} /\ brain' = 0
    BY <2>1, <2>2, <2>3 DEF SlotBetween
  <2>4. CASE pc = "ensure" /\ UNCHANGED <<brain, brainModel, modelOf>>
    BY <1>1, <1>4, <2>1, <2>2, <2>4 DEF SlotBetween, Named
  <2> QED
    BY <1>4, <2>3, <2>4
\* The writer goes on or is done.
<1>5. ASSUME NEW t \in BrainUsers, NEW pc, bpc[t] \in Writing, Goes(t, pc), UNCHANGED asked,
             \/ pc = "load" /\ brain' = 0
             \/ pc \in {"name", "ensureName"} /\ brain' # 0 /\ modelOf'[brain'] = asked[t]
             \/ pc \notin Writing /\ Named'
      PROVE  SlotBetween'
  <2>1. \A u \in BrainUsers : bpc'[u] = IF u = t THEN pc ELSE bpc[u]
    BY <1>0, <1>5 DEF Goes
  <2>2. /\ \A u \in BrainUsers : u # t => bpc'[u] \notin Writing
        /\ \A u \in Writers' : u = t
    BY <1>0, <1>2, <1>5, <2>1
  <2>3. CASE pc = "load" /\ brain' = 0
    BY <1>0, <1>5, <2>1, <2>2, <2>3 DEF SlotBetween
  <2>4. CASE pc \in {"name", "ensureName"} /\ brain' # 0 /\ modelOf'[brain'] = asked[t]
    <3>1. t \in Writers' /\ bpc'[t] = pc /\ asked'[t] = asked[t]
      BY <1>0, <1>5, <2>1, <2>4
    <3> QED
      BY <2>1, <2>2, <2>4, <3>1 DEF SlotBetween
  <2>5. CASE pc \notin Writing /\ Named'
    BY <2>1, <2>2, <2>5 DEF SlotBetween, Named
  <2> QED
    BY <1>5, <2>3, <2>4, <2>5
<1> HIDE DEF Writing
<1>6. /\ {"swap", "load", "name", "ensure", "ensureName", "drop"} \subseteq Writing
      /\ \A x \in {"idle", "stale", "wait", "waitRead", "stream", "read", "take", "chat"} : x \notin Writing
  BY DEF Writing
<1>7. ASSUME NEW t \in BrainUsers, LoadBrain(t)
      PROVE  SlotBetween'
  BY <1>4, <1>6, <1>7 DEF LoadBrain, New, At
<1>8. ASSUME NEW t \in BrainUsers, Unloads(t) \/ WatcherUnloads(t)
      PROVE  SlotBetween'
  BY <1>4, <1>6, <1>8 DEF Unloads, WatcherUnloads, New, At
<1>9. ASSUME NEW t \in BrainUsers, EnsuresBrain(t)
      PROVE  SlotBetween'
  <2>1. PICK pc \in {"take", "ensure"} : Goes(t, pc)
    BY <1>9 DEF EnsuresBrain
  <2>2. bpc[t] = "idle" /\ UNCHANGED <<brain, brainModel, modelOf>>
    BY <1>9 DEF EnsuresBrain, New, At, slotB, heapB
  <2>3. \A u \in BrainUsers : u # t => asked'[u] = asked[u]
    BY <1>0, <1>9 DEF EnsuresBrain
  <2>4. CASE pc = "take"
    BY <1>3, <1>6, <2>1, <2>2, <2>3, <2>4
  <2>5. CASE pc = "ensure"
    BY <1>4, <1>6, <2>1, <2>2, <2>5
  <2> QED
    BY <2>4, <2>5
<1>10. ASSUME NEW t \in BrainUsers, SwapClears(t)
       PROVE  SlotBetween'
  <2>1. bpc[t] = "swap" /\ Goes(t, "load") /\ brain' = brain /\ brain = 0 /\ UNCHANGED asked
    BY <1>10 DEF SwapClears, At, SlotBetween
  <2> QED
    BY <1>5, <1>6, <2>1
<1>11. ASSUME NEW t \in BrainUsers, NEW from \in {"load", "ensure"},
              NEW to \in {"name", "ensureName"}, SetsBrain(t, from, to)
       PROVE  SlotBetween'
  <2>1. /\ bpc[t] = from /\ Goes(t, to) /\ UNCHANGED asked /\ loaded < MaxBrains
        /\ loaded' = loaded + 1 /\ modelOf' = [modelOf EXCEPT ![loaded'] = asked[t]] /\ brain' = loaded'
    BY <1>11 DEF SetsBrain, At
  <2>2. brain' \in Brains /\ brain' # 0
    BY <1>0, <2>1 DEF Brains
  <2>3. modelOf'[brain'] = asked[t]
    BY <1>0, <2>1, <2>2
  <2> QED
    BY <1>5, <1>6, <1>11, <2>1, <2>2, <2>3
<1>12. ASSUME NEW t \in BrainUsers, SetsModel(t) \/ EnsuresModel(t)
       PROVE  SlotBetween'
  <2>1. /\ bpc[t] \in {"name", "ensureName"} /\ brainModel' = asked[t] /\ UNCHANGED <<brain, modelOf, asked>>
        /\ (Goes(t, "idle") \/ Goes(t, "take"))
    BY <1>12 DEF SetsModel, EnsuresModel, At, heapB
  <2>2. Named'
    BY <2>1 DEF SlotBetween, Named
  <2> QED
    BY <1>5, <1>6, <2>1, <2>2
<1>13. ASSUME NEW t \in BrainUsers, LoadFails(t)
       PROVE  SlotBetween'
  <2>1. bpc[t] \in {"load", "ensure"} /\ Goes(t, "idle") /\ UNCHANGED <<brain, brainModel, modelOf, asked>>
    BY <1>13 DEF LoadFails, slotB, heapB
  <2>2. Named
    <3>1. CASE bpc[t] = "load"
      BY <3>1 DEF SlotBetween, Named
    <3>2. CASE bpc[t] = "ensure"
      <4>1. \A u \in Writers : bpc[u] = "ensure"
        BY <1>0, <1>2, <1>6, <3>2
      <4> QED
        BY <4>1 DEF SlotBetween, Named
    <3> QED
      BY <2>1, <3>1, <3>2
  <2>3. Named'
    BY <2>1, <2>2 DEF Named
  <2> QED
    BY <1>5, <1>6, <2>1, <2>3
<1>14. ASSUME NEW t \in BrainUsers, DropsModel(t)
       PROVE  SlotBetween'
  <2>1. bpc[t] = "drop" /\ Goes(t, "idle") /\ UNCHANGED <<brain, asked>> /\ brain = 0
    BY <1>14 DEF DropsModel, At, SlotBetween
  <2>2. Named'
    BY <2>1 DEF Named
  <2> QED
    BY <1>5, <1>6, <2>1, <2>2
<1>15. ASSUME NEW t \in BrainUsers, WatcherLooks(t) \/ TakesBrain(t) \/ Ends(t) \/ TakesForChat(t) \/ ChatEnds(t)
       PROVE  SlotBetween'
  <2>1. PICK pc \in {"idle", "stale", "stream", "read", "chat"} : Goes(t, pc)
    BY <1>15 DEF WatcherLooks, TakesBrain, Ends, TakesForChat, ChatEnds
  <2>2. /\ bpc[t] \in {"idle", "wait", "waitRead", "stream", "read", "take", "chat"}
        /\ UNCHANGED <<brain, brainModel, modelOf, asked>>
    BY <1>15 DEF WatcherLooks, TakesBrain, Ends, TakesForChat, ChatEnds, New, At, slotB, heapB
  <2> QED
    BY <1>3, <1>6, <2>1, <2>2
<1>16. ASSUME NEW t \in BrainUsers, ReadsBrain(t)
       PROVE  SlotBetween'
  <2>1. PICK pc \in {"wait", "waitRead"} : Goes(t, pc)
    BY <1>16 DEF ReadsBrain
  <2>2. /\ bpc[t] = "idle" /\ UNCHANGED <<brain, brainModel, modelOf>>
        /\ \A u \in BrainUsers : u # t => asked'[u] = asked[u]
    BY <1>0, <1>16 DEF ReadsBrain, New, At, slotB, heapB
  <2> QED
    BY <1>3, <1>6, <2>1, <2>2
<1>17. ASSUME UseExpires \/ UNCHANGED brainVars
       PROVE  SlotBetween'
  BY <1>17 DEF UseExpires, brainVars, slotB, heapB, SlotBetween, Writers
<1> QED
  BY <1>7, <1>8, <1>9, <1>10, <1>11, <1>12, <1>13, <1>14, <1>15, <1>16, <1>17 DEF BrainNext

\* The slot is empty and nobody writes it.
LEMMA NameInit == BrainInit => SlotBetween
BY DEF BrainInit, SlotBetween, Writers

\* SlotNamesBrain: the loaded model is the one its name says, in every behaviour in
\* which no two threads are between the statements that write BRAIN and BRAIN_MODEL at
\* once: nothing but such a meeting, which no lock keeps out, gives one model the name
\* of another (backends_routes.py 589-637, hybrid_routes.py 261-276).
THEOREM TheNameIsTheBrains == BrainSpec /\ []OneWriting => []SlotNamesBrain
<1>1. SlotBetween => SlotNamesBrain
  BY DEF SlotBetween, SlotNamesBrain
<1>2. BrainInv /\ SlotBetween /\ OneWriting /\ OneWriting' /\ [BrainNext]_brainVars => SlotBetween'
  BY NameStep DEF BrainInv
<1> QED
  BY <1>1, <1>2, NameInit, BrainInvariance, PTL DEF BrainSpec

-----------------------------------------------------------------------------
(* Heartbeat: no training start is lost and no error invented, unless a    *)
(* write of the file comes between another thread's read and write.        *)

\* What is left of a queue when its first events go.
LEMMA RestIs ==
  ASSUME NEW s \in Seq(Nat), NEW n \in 0 .. Len(s)
  PROVE  /\ Rest(s, n) \in Seq(Nat) /\ Len(Rest(s, n)) = Len(s) - n
         /\ \A i \in 1 .. Len(s) - n : Rest(s, n)[i] = s[n + i]
<1> DEFINE l == Len(s)
           m == n + 1
<1>1. l \in Nat /\ n \in Nat /\ m \in Int /\ l \in Int /\ \A i \in m .. l : s[i] \in Nat
  OBVIOUS
<1>2. /\ SubSeq(s, m, l) \in Seq(Nat)
      /\ Len(SubSeq(s, m, l)) = IF m <= l THEN l - m + 1 ELSE 0
      /\ \A i \in 1 .. l - m + 1 : SubSeq(s, m, l)[i] = s[m + i - 1]
  <2> HIDE DEF l, m
  <2> QED
    BY <1>1, SubSeqProperties
<1>3. Rest(s, n) = SubSeq(s, m, l)
  BY DEF Rest
<1>4. l - m + 1 = l - n /\ (~(m <= l) => l - n = 0)
  BY <1>1
<1>5. PICK r : r = SubSeq(s, m, l)
  OBVIOUS
<1>6. \A i \in 1 .. l - n : r[i] = s[n + i]
  <2> SUFFICES ASSUME NEW i \in 1 .. l - n
               PROVE  r[i] = s[n + i]
    OBVIOUS
  <2>1. i \in 1 .. l - m + 1
    BY <1>4
  <2>2. i \in Nat /\ m + i - 1 = n + i
    BY <1>1
  <2> QED
    BY <1>2, <1>5, <2>1, <2>2
<1> QED
  BY <1>2, <1>3, <1>4, <1>5, <1>6

\* The front of a queue is as long as it is asked to be, or as the queue is.
LEMMA FrontIs ==
  ASSUME NEW s \in Seq(Nat), NEW n \in Nat
  PROVE  /\ Front(s, n) \in Seq(Nat) /\ Len(Front(s, n)) <= n /\ Len(Front(s, n)) <= Len(s)
         /\ \A i \in 1 .. Len(Front(s, n)) : Front(s, n)[i] = s[i]
<1> DEFINE k == IF n < Len(s) THEN n ELSE Len(s)
<1>1. k \in Nat /\ k <= n /\ k <= Len(s) /\ \A i \in 1 .. k : s[i] \in Nat
  OBVIOUS
<1>2. Front(s, n) = SubSeq(s, 1, k)
  BY DEF Front
<1> HIDE DEF k
<1>3. /\ SubSeq(s, 1, k) \in Seq(Nat)
      /\ Len(SubSeq(s, 1, k)) = IF 1 <= k THEN k - 1 + 1 ELSE 0
      /\ \A i \in 1 .. k - 1 + 1 : SubSeq(s, 1, k)[i] = s[1 + i - 1]
  BY <1>1, SubSeqProperties
<1>4. PICK r : r = SubSeq(s, 1, k)
  OBVIOUS
<1>5. Len(r) = k
  BY <1>1, <1>3, <1>4
<1>6. \A i \in 1 .. k : r[i] = s[i]
  <2> SUFFICES ASSUME NEW i \in 1 .. k
               PROVE  r[i] = s[i]
    OBVIOUS
  <2>1. i \in 1 .. k - 1 + 1 /\ 1 + i - 1 = i
    BY <1>1
  <2> QED
    BY <1>3, <1>4, <2>1
<1> QED
  BY <1>1, <1>2, <1>3, <1>4, <1>5, <1>6

\* A new object leaves the others as they are.
LEMMA HeapIs ==
  ASSUME NEW h \in Seq(Seq(Nat)), NEW s \in Seq(Nat)
  PROVE  /\ Append(h, s) \in Seq(Seq(Nat)) /\ Len(Append(h, s)) = Len(h) + 1
         /\ Append(h, s)[Len(h) + 1] = s /\ \A o \in 1 .. Len(h) : Append(h, s)[o] = h[o]
         /\ 1 .. Len(h) \subseteq 1 .. Len(h) + 1 /\ Len(h) + 1 \in 1 .. Len(h) + 1
BY AppendProperties

\* A queue of events in the order they came, none later than the last.
Queue(s, last) ==
  /\ s \in Seq(Nat) /\ Len(s) <= 4 * PerPing
  /\ \A i, j \in 1 .. Len(s) : i < j => s[i] + (j - i) <= s[j]
  /\ \A i \in 1 .. Len(s) : s[i] \in 0 .. last

\* An event at the end of a queue: a full one loses its first.
LEMMA QueueTakes ==
  ASSUME NEW s, NEW last \in Nat, Queue(s, last), \A i \in 1 .. Len(s) : s[i] < last
  PROVE  /\ Queue(Tail4(Append(s, last)), last)
         /\ IF Len(s) < 4 * PerPing
            THEN /\ Len(Tail4(Append(s, last))) = Len(s) + 1
                 /\ \A i \in 1 .. Len(s) : Tail4(Append(s, last))[i] = s[i]
            ELSE Len(Tail4(Append(s, last))) = 4 * PerPing
         /\ last \in Occurs(Tail4(Append(s, last)))
         /\ \A e \in Occurs(s) : e \in Occurs(Tail4(Append(s, last))) \/ e + 3 * PerPing <= last
<1>1. s \in Seq(Nat) /\ PerPing \in Nat /\ PerPing > 0
  BY BeatAssumption DEF Queue
<1>2. PICK a \in Seq(Nat) : a = Append(s, last)
  BY <1>1, AppendProperties
<1>3. Len(a) = Len(s) + 1 /\ a[Len(s) + 1] = last /\ \A i \in 1 .. Len(s) : a[i] = s[i]
  BY <1>1, <1>2, AppendProperties
<1>4. PICK n \in Nat : n = Len(s)
  BY <1>1
<1>5. PICK N \in Nat : N = 4 * PerPing /\ N > 0
  BY <1>1
<1>6. \A i, j \in 1 .. n + 1 : i < j => a[i] + (j - i) <= a[j]
  <2> SUFFICES ASSUME NEW i \in 1 .. n + 1, NEW j \in 1 .. n + 1, i < j
               PROVE  a[i] + (j - i) <= a[j]
    OBVIOUS
  <2>0. i \in 1 .. n /\ a[i] = s[i] /\ s[i] \in Nat
    BY <1>1, <1>3, <1>4
  <2>1. CASE j \in 1 .. n
    BY <1>3, <1>4, <2>0, <2>1 DEF Queue
  <2>2. CASE j = n + 1
    <3>1. n \in 1 .. n /\ s[n] < last /\ s[n] \in Nat
      BY <1>1, <1>4, <2>0
    <3>2. s[i] + (n - i) <= s[n]
      <4>1. CASE i = n
        BY <2>0, <4>1
      <4>2. CASE i < n
        BY <1>4, <2>0, <3>1, <4>2 DEF Queue
      <4> QED
        BY <2>0, <4>1, <4>2
    <3>3. a[j] = last
      BY <1>3, <1>4, <2>2
    <3> QED
      BY <2>0, <2>2, <3>1, <3>2, <3>3
  <2> QED
    BY <2>1, <2>2
<1>7. \A i \in 1 .. n + 1 : a[i] \in 0 .. last
  <2> SUFFICES ASSUME NEW i \in 1 .. n + 1
               PROVE  a[i] \in 0 .. last
    OBVIOUS
  <2>1. CASE i \in 1 .. n
    BY <1>3, <1>4, <2>1 DEF Queue
  <2>2. CASE i = n + 1
    BY <1>3, <1>4, <2>2
  <2> QED
    BY <2>1, <2>2
<1>8. n <= N
  BY <1>4, <1>5 DEF Queue
<1>9. CASE n < N
  <2>1. Tail4(a) = a
    BY <1>3, <1>4, <1>5, <1>9 DEF Tail4
  <2>2. Queue(a, last)
    BY <1>3, <1>4, <1>5, <1>6, <1>7, <1>9 DEF Queue
  <2>3. last \in Occurs(a)
    BY <1>3, <1>4 DEF Occurs
  <2>4. \A e \in Occurs(s) : e \in Occurs(a)
    BY <1>3, <1>4 DEF Occurs
  <2> QED
    BY <1>2, <1>3, <1>4, <1>5, <1>9, <2>1, <2>2, <2>3, <2>4
<1>10. CASE n = N
  <2>1. Tail4(a) = Rest(a, 1)
    <3>1. Len(a) > 4 * PerPing /\ Len(a) - 4 * PerPing = 1
      BY <1>3, <1>4, <1>5, <1>10
    <3> QED
      BY <3>1 DEF Tail4
  <2>2. PICK r \in Seq(Nat) : r = Rest(a, 1)
    BY <1>3, <1>4, RestIs
  <2>3. Len(r) = n /\ \A i \in 1 .. n : r[i] = a[1 + i]
    <3>1. 1 \in 0 .. Len(a) /\ Len(a) - 1 = n
      BY <1>3, <1>4
    <3>2. /\ Len(Rest(a, 1)) = Len(a) - 1
          /\ \A i \in 1 .. Len(a) - 1 : Rest(a, 1)[i] = a[1 + i]
      BY <3>1, RestIs
    <3> QED
      BY <2>2, <3>1, <3>2
  <2>4. Queue(r, last)
    <3>1. \A i, j \in 1 .. n : i < j => r[i] + (j - i) <= r[j]
      <4> SUFFICES ASSUME NEW i \in 1 .. n, NEW j \in 1 .. n, i < j
                   PROVE  r[i] + (j - i) <= r[j]
        OBVIOUS
      <4>1. 1 + i \in 1 .. n + 1 /\ 1 + j \in 1 .. n + 1 /\ 1 + i < 1 + j /\ (1 + j) - (1 + i) = j - i
        OBVIOUS
      <4>2. a[1 + i] + ((1 + j) - (1 + i)) <= a[1 + j]
        BY <1>6, <4>1
      <4> QED
        BY <2>3, <4>1, <4>2
    <3>2. \A i \in 1 .. n : r[i] \in 0 .. last
      <4> SUFFICES ASSUME NEW i \in 1 .. n
                   PROVE  r[i] \in 0 .. last
        OBVIOUS
      <4>1. 1 + i \in 1 .. n + 1
        OBVIOUS
      <4> QED
        BY <1>7, <2>3, <4>1
    <3> QED
      BY <1>5, <1>10, <2>2, <2>3, <3>1, <3>2 DEF Queue
  <2>5. last \in Occurs(r)
    <3>1. n \in 1 .. n /\ 1 + n = n + 1
      BY <1>5, <1>10
    <3>2. r[n] = last
      BY <1>3, <1>4, <2>3, <3>1
    <3> QED
      BY <2>3, <3>1, <3>2 DEF Occurs
  <2>6. \A e \in Occurs(s) : e \in Occurs(r) \/ e + 3 * PerPing <= last
    <3> SUFFICES ASSUME NEW i \in 1 .. n
                 PROVE  s[i] \in Occurs(r) \/ s[i] + 3 * PerPing <= last
      BY <1>4 DEF Occurs
    <3>1. CASE i = 1
      <4>1. n + 1 \in 1 .. n + 1 /\ 1 \in 1 .. n + 1 /\ 1 < n + 1
        BY <1>5, <1>10
      <4>2. a[1] + (n + 1 - 1) <= a[n + 1]
        BY <1>6, <4>1
      <4>3. a[1] = s[1] /\ a[n + 1] = last /\ s[1] \in Nat
        BY <1>1, <1>3, <1>4, <1>5, <1>10
      <4> QED
        BY <1>1, <1>5, <1>10, <3>1, <4>2, <4>3
    <3>2. CASE i > 1
      <4>1. i - 1 \in 1 .. n /\ 1 + (i - 1) = i
        BY <3>2
      <4>2. r[i - 1] = a[i] /\ a[i] = s[i]
        BY <1>3, <1>4, <2>3, <4>1
      <4> QED
        BY <2>3, <4>1, <4>2 DEF Occurs
    <3> QED
      BY <3>1, <3>2
  <2> QED
    BY <1>2, <1>4, <1>5, <1>10, <2>1, <2>2, <2>3, <2>4, <2>5, <2>6
<1> QED
  BY <1>8, <1>9, <1>10

\* The answer to a ping: a queue without its first events is one.
LEMMA QueueDrops ==
  ASSUME NEW s, NEW last \in Nat, Queue(s, last), NEW n \in 0 .. Len(s)
  PROVE  /\ Queue(Rest(s, n), last)
         /\ \A i \in 1 .. Len(s) : i <= n \/ s[i] \in Occurs(Rest(s, n))
<1>1. s \in Seq(Nat) /\ Len(s) \in Nat /\ n \in Nat /\ 4 * PerPing \in Nat
  BY BeatAssumption DEF Queue
<1>2. PICK r \in Seq(Nat) : r = Rest(s, n)
  BY <1>1, RestIs
<1>3. Len(r) = Len(s) - n /\ \A i \in 1 .. Len(s) - n : r[i] = s[n + i]
  BY <1>1, <1>2, RestIs
<1>4. \A i \in 1 .. Len(s) - n : n + i \in 1 .. Len(s)
  BY <1>1
<1>5. \A i, j \in 1 .. Len(r) : i < j => r[i] + (j - i) <= r[j]
  <2> SUFFICES ASSUME NEW i \in 1 .. Len(s) - n, NEW j \in 1 .. Len(s) - n, i < j
               PROVE  r[i] + (j - i) <= r[j]
    BY <1>3
  <2>1. n + i \in 1 .. Len(s) /\ n + j \in 1 .. Len(s) /\ n + i < n + j /\ (n + j) - (n + i) = j - i
    BY <1>1, <1>4
  <2>2. s[n + i] + ((n + j) - (n + i)) <= s[n + j]
    BY <2>1 DEF Queue
  <2> QED
    BY <1>3, <2>1, <2>2
<1>6. \A i \in 1 .. Len(r) : r[i] \in 0 .. last
  BY <1>3, <1>4 DEF Queue
<1>7. Len(r) <= 4 * PerPing
  BY <1>1, <1>3 DEF Queue
<1>8. \A i \in 1 .. Len(s) : i <= n \/ s[i] \in Occurs(r)
  <2> SUFFICES ASSUME NEW i \in 1 .. Len(s), ~(i <= n)
               PROVE  s[i] \in Occurs(r)
    OBVIOUS
  <2>1. i - n \in 1 .. Len(s) - n /\ n + (i - n) = i
    BY <1>1
  <2>2. r[i - n] = s[i]
    BY <1>3, <2>1
  <2> QED
    BY <1>3, <2>1, <2>2 DEF Occurs
<1> QED
  BY <1>2, <1>5, <1>6, <1>7, <1>8 DEF Queue

\* The threads of the heartbeat.
BeatThreads == Recorders \cup {Pinger}

\* Where a thread is between its read and its write.
Writing == {"training", "error", "drain", "drop"}

\* While one thread is between its read and its write, no other is.
LEMMA NoneBeside ==
  ASSUME OneBetween, NEW t \in BeatThreads, hpc[t] \in Writing
  PROVE  \A u \in BeatThreads : u # t => hpc[u] \notin Writing
BY DEF OneBetween, Between, BeatThreads, Writing

\* A read begins with none between, and a write ends it.
LEMMA OneBetweenStep ==
  ASSUME BeatTypeOK, OneBetween, NEW t \in BeatThreads, NEW pc, hpc' = [hpc EXCEPT ![t] = pc],
         Between = {} \/ hpc[t] \in Writing \/ pc \notin Writing
  PROVE  OneBetween'
<1>1. \A u \in BeatThreads : hpc'[u] = IF u = t THEN pc ELSE hpc[u]
  BY DEF BeatTypeOK, BeatThreads
<1>2. Between' = {u \in BeatThreads : hpc'[u] \in Writing} /\ Between = {u \in BeatThreads : hpc[u] \in Writing}
  BY DEF Between, BeatThreads, Writing
<1>3. CASE Between = {}
  BY <1>1, <1>2, <1>3 DEF OneBetween
<1>4. CASE hpc[t] \in Writing
  BY <1>1, <1>2, <1>4 DEF OneBetween
<1>5. CASE pc \notin Writing
  BY <1>1, <1>2, <1>5 DEF OneBetween
<1> QED
  BY <1>3, <1>4, <1>5

\* At the start nothing is recorded.
LEMMA BeatInitInv ==
  BeatInit => BeatInv
<1> SUFFICES ASSUME BeatInit
             PROVE  BeatInv
  OBVIOUS
<1> USE BeatAssumption
<1>1. << <<>> >> \in Seq(Seq(Nat)) /\ Len(<< <<>> >>) = 1 /\ << <<>> >>[1] = <<>> /\ <<>> \in Seq(Nat)
  OBVIOUS
<1>2. BeatTypeOK
  <2>1. payload \in [events : Seq(Nat), errors : Nat, hw : 0 .. specs] /\ Len(payload.events) <= PerPing
    BY <1>1 DEF BeatInit
  <2>2. heap \in Seq(Seq(Nat)) /\ Len(heap) = 1 /\ queue \in 1 .. 1 /\ queueOnDisk \in Seq(Nat)
    BY <1>1 DEF BeatInit
  <2>3. list \in [Recorders \cup {Pinger} -> 1 .. 1] /\ count \in [Recorders \cup {Pinger} -> Nat]
    BY DEF BeatInit
  <2>4. specs \in 1 .. MaxRearms + 1 /\ ticks \in 0 .. MaxErrors /\ done \subseteq 0 .. events
    BY DEF BeatInit
  <2> QED
    BY <2>1, <2>2, <2>3, <2>4 DEF BeatInit, BeatTypeOK
<1>3. OneBetween /\ Between = {}
  BY DEF BeatInit, OneBetween, Between
<1>4. \A t \in Recorders : hpc[t] = "idle"
  BY DEF BeatInit
<1>5. hpc[Pinger] = "idle"
  BY DEF BeatInit
<1>6. QueueGrows /\ TrainingsKept
  BY DEF BeatInit, QueueGrows, TrainingsKept
<1>7. HeldIsQueue /\ SentIsFront
  BY <1>1, <1>4, <1>5 DEF BeatInit, HeldIsQueue, SentIsFront
<1>8. ErrorsAccounted
  BY <1>4, <1>5 DEF BeatInit, ErrorsAccounted, ErrorsSent, ErrorsHeld
<1> QED
  BY <1>2, <1>3, <1>6, <1>7, <1>8 DEF BeatInv

----------------------------------------------------------------------------
\* The types.
LEMMA BeatTypeStep ==
  ASSUME BeatInv, BeatNext
  PROVE  BeatTypeOK'
<1> USE BeatAssumption
<1>0. BeatTypeOK /\ ErrorsAccounted /\ HeldIsQueue /\ Pinger \in BeatThreads /\ QueueGrows
  BY DEF BeatInv, BeatThreads
<1>1. PICK n \in Nat : n = Len(heap)
  BY <1>0 DEF BeatTypeOK
<1>2. n + 1 \in 1 .. n + 1 /\ 1 .. n \subseteq 1 .. n + 1 /\ 1 \in 1 .. n
  <2>1. queue \in 1 .. n
    BY <1>0, <1>1 DEF BeatTypeOK
  <2>2. n \in Nat
    BY <1>1
  <2> QED
    BY <2>1, <2>2
<1>3. ASSUME NEW s \in Seq(Nat)
      PROVE  Append(heap, s) \in Seq(Seq(Nat)) /\ Len(Append(heap, s)) = n + 1
  BY <1>0, <1>1, HeapIs DEF BeatTypeOK
<1>4. queueOnDisk \in Seq(Nat) /\ heap \in Seq(Seq(Nat)) /\ \A o \in 1 .. n : heap[o] \in Seq(Nat)
  BY <1>0, <1>1 DEF BeatTypeOK
<1>5. ASSUME Reread
      PROVE  /\ heap' \in Seq(Seq(Nat)) /\ Len(heap') = n + 1 /\ queue' \in 1 .. n + 1
             /\ queueOnDisk' = queueOnDisk
  BY <1>1, <1>2, <1>3, <1>4, <1>5 DEF Reread, Made, Fresh
<1>6. ASSUME NEW f \in [BeatThreads -> 1 .. n]
      PROVE  f \in [BeatThreads -> 1 .. n + 1]
  BY <1>2
<1>7. list \in [BeatThreads -> 1 .. n]
  BY <1>0, <1>1 DEF BeatTypeOK, BeatThreads
<1>8. ASSUME NEW t \in Recorders, RecordTraining(t)
      PROVE  BeatTypeOK'
  <2>1. PICK old \in Seq(Nat) : old = heap[queue]
    BY <1>0, <1>1, <1>4 DEF BeatTypeOK
  <2>2. PICK longer \in Seq(Nat) : longer = Append(old, events + 1) /\ Len(longer) = Len(old) + 1
    <3>1. events + 1 \in Nat
      <4>1. events \in Nat
        BY <1>0 DEF BeatTypeOK
      <4> QED
        BY <4>1
    <3>2. Append(old, events + 1) \in Seq(Nat) /\ Len(Append(old, events + 1)) = Len(old) + 1
      <4>1. PICK e \in Nat : e = events + 1
        BY <3>1
      <4>2. Append(old, e) \in Seq(Nat) /\ Len(Append(old, e)) = Len(old) + 1
        BY AppendProperties
      <4> QED
        BY <4>1, <4>2
    <3> QED
      BY <3>2
  <2>3. Tail4(longer) \in Seq(Nat)
    <3>1. CASE Len(longer) > 4 * PerPing
      <4>1. PICK k \in 0 .. Len(longer) : k = Len(longer) - 4 * PerPing
        <5>1. Len(longer) \in Nat /\ 4 * PerPing \in Nat
          BY <2>2
        <5> QED
          BY <3>1, <5>1
      <4>2. Rest(longer, k) \in Seq(Nat)
        BY RestIs
      <4> QED
        BY <3>1, <4>1, <4>2 DEF Tail4
    <3>2. CASE ~(Len(longer) > 4 * PerPing)
      BY <3>2 DEF Tail4
    <3> QED
      BY <3>1, <3>2
  <2>4. PICK h \in Seq(Seq(Nat)) : h = [heap EXCEPT ![queue] = longer] /\ Len(h) = n
    <3>1. queue \in 1 .. Len(heap)
      BY <1>0 DEF BeatTypeOK
    <3>2. [heap EXCEPT ![queue] = longer] \in Seq(Seq(Nat)) /\ Len([heap EXCEPT ![queue] = longer]) = Len(heap)
      BY <1>4, <3>1, ExceptSeq
    <3> QED
      BY <1>1, <3>2
  <2>5. /\ heap' \in Seq(Seq(Nat)) /\ Len(heap') \in {n, n + 1} /\ list' \in [BeatThreads -> 1 .. Len(heap')]
    <3>1. CASE heap' = Append(heap, longer) /\ list' = [list EXCEPT ![t] = n + 1]
      BY <1>2, <1>3, <1>6, <1>7, <3>1 DEF BeatThreads
    <3>2. CASE heap' = h /\ list' = [list EXCEPT ![t] = queue]
      BY <1>0, <1>1, <1>7, <2>4, <3>2 DEF BeatThreads, BeatTypeOK
    <3>3. CASE heap' = Append(h, Tail4(longer)) /\ list' = [list EXCEPT ![t] = n + 1]
      <4>1. heap' \in Seq(Seq(Nat)) /\ Len(heap') = n + 1
        BY <2>3, <2>4, <3>3, HeapIs
      <4> QED
        BY <1>2, <1>6, <1>7, <3>3, <4>1 DEF BeatThreads
    <3> QED
      BY <1>1, <1>8, <2>1, <2>2, <2>4, <3>1, <3>2, <3>3 DEF RecordTraining, Made, Fresh
  <2>6. /\ queue' = queue /\ queueOnDisk' = queueOnDisk
        /\ UNCHANGED <<stateVars, payload, serverVars, done, ticks, specs>>
        /\ hpc' = [hpc EXCEPT ![t] = "training"] /\ count' = [count EXCEPT ![t] = events + 1] /\ events' = events + 1
    BY <1>8 DEF RecordTraining, To
  <2>7. queue' \in 1 .. Len(heap')
    BY <1>0, <1>1, <1>2, <2>5, <2>6 DEF BeatTypeOK
  <2>8. events' \in Nat /\ done' \subseteq 0 .. events' /\ count' \in [BeatThreads -> Nat]
    <3>0. events \in Nat /\ done \subseteq 0 .. events
      BY <1>0 DEF BeatTypeOK
    <3>1. events + 1 \in Nat /\ 0 .. events \subseteq 0 .. events + 1
      BY <3>0
    <3>2. count \in [BeatThreads -> Nat]
      BY <1>0 DEF BeatTypeOK, BeatThreads
    <3> QED
      BY <2>6, <3>0, <3>1, <3>2
  <2> QED
    BY <1>0, <2>5, <2>6, <2>7, <2>8 DEF BeatTypeOK, BeatThreads, stateVars, serverVars
<1>9. ASSUME NEW t \in Recorders, WriteTraining(t)
      PROVE  BeatTypeOK'
  <2>1. list[t] \in 1 .. n /\ count[t] \in 0 .. events
    <3>1. hpc[t] = "training"
      BY <1>9 DEF WriteTraining
    <3>2. count[t] = events /\ events \in Nat
      BY <1>0, <3>1 DEF HeldIsQueue, BeatTypeOK
    <3> QED
      BY <1>7, <3>2 DEF BeatThreads
  <2>2. /\ UNCHANGED <<heap, stateVars, payload, serverVars, events, ticks, specs>>
        /\ queue' = list[t] /\ queueOnDisk' = heap[list[t]] /\ done' = done \cup {count[t]}
        /\ hpc' = [hpc EXCEPT ![t] = "idle"] /\ list' = [list EXCEPT ![t] = 1] /\ count' = [count EXCEPT ![t] = 0]
    BY <1>9 DEF WriteTraining, To, Forgets
  <2>3. queueOnDisk' \in Seq(Nat) /\ queue' \in 1 .. Len(heap') /\ list' \in [BeatThreads -> 1 .. Len(heap')]
    BY <1>1, <1>2, <1>4, <1>7, <2>1, <2>2
  <2>4. done' \subseteq 0 .. events
    BY <1>0, <2>1, <2>2 DEF BeatTypeOK
  <2> QED
    BY <1>0, <2>2, <2>3, <2>4 DEF BeatTypeOK, BeatThreads, stateVars, serverVars
<1>10. ASSUME NEW t \in Recorders, RecordError(t)
       PROVE  BeatTypeOK'
  <2>1. ticks' \in 0 .. MaxErrors /\ errors + 1 \in Nat
    <3>1. ticks \in 0 .. MaxErrors /\ ticks < MaxErrors /\ ticks' = ticks + 1 /\ errors \in Nat
      BY <1>0, <1>10 DEF RecordError, BeatTypeOK
    <3>2. MaxErrors \in Nat
      OBVIOUS
    <3> QED
      BY <3>1, <3>2
  <2> QED
    BY <1>0, <1>10, <2>1 DEF RecordError, To, BeatTypeOK, queueVars, stateVars, serverVars
<1>11. ASSUME NEW t \in Recorders, WriteError(t)
       PROVE  BeatTypeOK'
  <2>1. /\ UNCHANGED <<hwSent, payload, serverVars, tallies>> /\ Reread /\ errors' = count[t]
        /\ hpc' = [hpc EXCEPT ![t] = "idle"] /\ list' = [list EXCEPT ![t] = 1] /\ count' = [count EXCEPT ![t] = 0]
    BY <1>11 DEF WriteError, To, Forgets
  <2>2. errors' \in Nat /\ list' \in [BeatThreads -> 1 .. n]
    BY <1>0, <1>2, <1>7, <2>1 DEF BeatTypeOK, BeatThreads
  <2>3. list' \in [BeatThreads -> 1 .. n + 1]
    BY <1>6, <2>2
  <2> QED
    BY <1>0, <1>5, <2>1, <2>2, <2>3 DEF BeatTypeOK, BeatThreads, serverVars, tallies
<1>12. ASSUME RearmHw
       PROVE  BeatTypeOK'
  <2>1. /\ UNCHANGED <<errors, hpc, list, count, payload, serverVars, events, done, ticks>> /\ Reread
        /\ hwSent' = FALSE /\ specs' = specs + 1 /\ specs < MaxRearms + 1
    BY <1>12 DEF RearmHw
  <2>2. specs' \in 1 .. MaxRearms + 1 /\ 0 .. specs \subseteq 0 .. specs'
    BY SMTT(30), <1>0, <2>1 DEF BeatTypeOK
  <2>3. list' \in [BeatThreads -> 1 .. n + 1]
    BY <1>6, <1>7, <2>1
  <2> QED
    BY <1>0, <1>5, <2>1, <2>2, <2>3 DEF BeatTypeOK, BeatThreads, serverVars
<1>13. ASSUME SendReads
       PROVE  BeatTypeOK'
  <2>1. PICK p \in [events : Seq(Nat), errors : Nat, hw : 0 .. specs] :
          /\ p = [events |-> <<>>, errors |-> errors, hw |-> IF hwSent THEN 0 ELSE specs]
          /\ Len(p.events) <= PerPing
    <3>1. errors \in Nat /\ (IF hwSent THEN 0 ELSE specs) \in 0 .. specs /\ <<>> \in Seq(Nat) /\ Len(<<>>) = 0
      BY <1>0 DEF BeatTypeOK
    <3>2. PerPing \in Nat
      OBVIOUS
    <3>3. PICK p : p = [events |-> <<>>, errors |-> errors, hw |-> IF hwSent THEN 0 ELSE specs]
      OBVIOUS
    <3>4. p.events = <<>>
      BY <3>3
    <3>5. Len(p.events) <= PerPing
      BY <3>1, <3>2, <3>4
    <3>6. p \in [events : Seq(Nat), errors : Nat, hw : 0 .. specs]
      BY <3>1, <3>3
    <3> QED
      BY <3>3, <3>5, <3>6
  <2>2. /\ payload' = p /\ UNCHANGED <<queueVars, stateVars, count, serverVars, events, done, ticks, specs>>
        /\ hpc' = [hpc EXCEPT ![Pinger] = "drain"]
    BY <1>13, <2>1 DEF SendReads, To
  <2>5. payload' \in [events : Seq(Nat), errors : Nat, hw : 0 .. specs'] /\ Len(payload'.events) <= PerPing
    BY <2>1, <2>2
  <2>3. list' = [list EXCEPT ![Pinger] = queue] /\ queue \in 1 .. n
    BY <1>0, <1>1, <1>13 DEF SendReads, BeatTypeOK
  <2>4. list' \in [BeatThreads -> 1 .. n]
    BY <1>7, <2>3
  <2> QED
    BY <1>0, <1>1, <2>2, <2>4, <2>5
    DEF BeatTypeOK, queueVars, stateVars, serverVars, BeatThreads
<1>14. ASSUME SendDrains
       PROVE  BeatTypeOK'
  <2>1. PICK s \in Seq(Nat) : s = heap[list[Pinger]]
    BY <1>0, <1>4, <1>7
  <2>2. PICK f \in Seq(Nat) : f = Front(s, PerPing) /\ Len(f) <= PerPing
    BY FrontIs
  <2>3. payload' = [payload EXCEPT !.events = f]
    BY <1>14, <2>1, <2>2 DEF SendDrains
  <2>4. payload' \in [events : Seq(Nat), errors : Nat, hw : 0 .. specs] /\ payload'.events = f
    BY <1>0, <2>3 DEF BeatTypeOK
  <2>5. /\ heap' \in Seq(Seq(Nat)) /\ Len(heap') \in {n, n + 1} /\ queue' \in 1 .. Len(heap')
        /\ queueOnDisk' = queueOnDisk /\ errors' \in Nat
    <3>1. CASE payload.errors = 0
      BY <1>0, <1>1, <1>14, <3>1 DEF SendDrains, BeatTypeOK, queueVars
    <3>2. CASE payload.errors # 0
      BY <1>5, <1>14, <3>2 DEF SendDrains
    <3> QED
      BY <3>1, <3>2
  <2>6. list' \in [BeatThreads -> 1 .. Len(heap')]
    BY <1>6, <1>7, <1>14, <2>5 DEF SendDrains
  <2> QED
    BY <1>0, <1>14, <2>2, <2>4, <2>5, <2>6 DEF SendDrains, To, BeatTypeOK, serverVars, tallies,
       BeatThreads
<1>15. ASSUME Arrives
       PROVE  gotEvents' \subseteq Nat /\ gotErrors' \in Nat
  <2>1. PICK s \in Seq(Nat) : s = payload.events
    BY <1>0 DEF BeatTypeOK
  <2>2. Occurs(s) \subseteq Nat
    BY DEF Occurs
  <2>3. gotEvents \subseteq Nat /\ gotErrors \in Nat /\ payload.errors \in Nat
    BY <1>0 DEF BeatTypeOK
  <2>4. gotEvents' = gotEvents \cup Occurs(s) /\ gotErrors' = gotErrors + payload.errors
    BY <1>15, <2>1 DEF Arrives
  <2>5. gotErrors' \in Nat
    BY <2>3, <2>4
  <2> QED
    BY <2>2, <2>3, <2>4, <2>5
<1>16. ASSUME PostAnswered
       PROVE  BeatTypeOK'
  <2>1. /\ heap' \in Seq(Seq(Nat)) /\ Len(heap') \in {n, n + 1} /\ list' \in [BeatThreads -> 1 .. Len(heap')]
    <3>1. CASE payload.events = <<>>
      BY <1>0, <1>1, <1>7, <1>16, <3>1 DEF PostAnswered, BeatTypeOK
    <3>2. CASE payload.events # <<>>
      <4>1. PICK r : r = Rest(heap[queue], Len(payload.events))
        OBVIOUS
      <4>2. heap' = Append(heap, r) /\ list' = [list EXCEPT ![Pinger] = n + 1]
        BY <1>1, <1>16, <3>2, <4>1 DEF PostAnswered, Made, Fresh
      <4>3. r \in Seq(Nat)
        <5>1. PICK s \in Seq(Nat) : s = heap[queue]
          BY <1>0, <1>1, <1>4 DEF BeatTypeOK
        <5>2. PICK k \in Nat : k = Len(payload.events)
          <6>1. PICK e \in Seq(Nat) : e = payload.events
            BY <1>0 DEF BeatTypeOK
          <6> QED
            BY <6>1
        <5>3. CASE k <= Len(s)
          BY <4>1, <5>1, <5>2, <5>3, RestIs
        <5>4. CASE k > Len(s)
          BY <4>1, <5>1, <5>2, <5>4, SubSeqEmpty DEF Rest
        <5> QED
          BY <5>1, <5>2, <5>3, <5>4
      <4>4. heap' \in Seq(Seq(Nat)) /\ Len(heap') = n + 1
        BY <1>3, <4>2, <4>3
      <4> QED
        BY <1>2, <1>6, <1>7, <4>2, <4>4
    <3> QED
      BY <3>1, <3>2
  <2>2. queue' \in 1 .. Len(heap')
    BY <1>0, <1>1, <1>2, <1>16, <2>1 DEF PostAnswered, BeatTypeOK
  <2>3. gotEvents' \subseteq Nat /\ gotErrors' \in Nat
    BY <1>15, <1>16 DEF PostAnswered
  <2> QED
    BY <1>0, <1>16, <2>1, <2>2, <2>3 DEF PostAnswered, To, BeatTypeOK, stateVars, tallies,
       BeatThreads
<1>17. PICK none : none = [events |-> <<>>, errors |-> 0, hw |-> 0]
  OBVIOUS
<1>18. none \in [events : Seq(Nat), errors : Nat, hw : 0 .. specs] /\ Len(none.events) <= PerPing
  BY <1>0, <1>17 DEF BeatTypeOK
<1>22. ASSUME payload' = none, specs' = specs
       PROVE  payload' \in [events : Seq(Nat), errors : Nat, hw : 0 .. specs'] /\ Len(payload'.events) <= PerPing
  BY <1>18, <1>22
<1>19. ASSUME SendRecords
       PROVE  BeatTypeOK'
  <2>1. /\ hwSent' \in BOOLEAN /\ payload' = none /\ hpc' = [hpc EXCEPT ![Pinger] = "idle"]
        /\ UNCHANGED <<errors, list, count, serverVars, tallies>>
    <3>1. /\ payload' = none /\ hpc' = [hpc EXCEPT ![Pinger] = "idle"]
          /\ UNCHANGED <<errors, list, count, serverVars, tallies>>
      BY <1>17, <1>19 DEF SendRecords, To
    <3>2. hwSent' \in BOOLEAN
      BY <1>19 DEF SendRecords
    <3> QED
      BY <3>1, <3>2
  <2>2. /\ heap' \in Seq(Seq(Nat)) /\ Len(heap') \in {n, n + 1} /\ queue' \in 1 .. Len(heap')
        /\ queueOnDisk' \in Seq(Nat)
    <3>1. CASE payload.events = <<>>
      BY <1>4, <1>5, <1>19, <3>1 DEF SendRecords
    <3>2. CASE payload.events # <<>>
      BY <1>1, <1>4, <1>7, <1>19, <3>2 DEF SendRecords, BeatThreads
    <3> QED
      BY <3>1, <3>2
  <2>3. list' \in [BeatThreads -> 1 .. Len(heap')]
    BY <1>6, <1>7, <2>1, <2>2
  <2> QED
    BY <1>0, <1>22, <2>1, <2>2, <2>3 DEF BeatTypeOK, serverVars, tallies, BeatThreads
<1>20. ASSUME PostFails
       PROVE  BeatTypeOK'
  <2>1. /\ payload' = none /\ hpc' = [hpc EXCEPT ![Pinger] = "idle"] /\ Reread
        /\ UNCHANGED <<stateVars, list, count, events, done, ticks, specs>>
    BY <1>17, <1>20 DEF PostFails, To
  <2>2. gotEvents' \subseteq Nat /\ gotErrors' \in Nat
    <3>1. CASE Arrives
      BY <1>15, <3>1
    <3>2. CASE UNCHANGED serverVars
      BY <1>0, <3>2 DEF BeatTypeOK, serverVars
    <3> QED
      BY <1>20, <3>1, <3>2 DEF PostFails
  <2>3. list' \in [BeatThreads -> 1 .. n + 1]
    BY <1>6, <1>7, <2>1
  <2> QED
    BY <1>0, <1>5, <1>22, <2>1, <2>2, <2>3 DEF BeatTypeOK, stateVars, BeatThreads
<1>21. ASSUME BeatCrash
       PROVE  BeatTypeOK'
  <2>1. heap' \in Seq(Seq(Nat)) /\ Len(heap') = n + 1 /\ queue' = n + 1 /\ queueOnDisk' = queueOnDisk
    BY <1>1, <1>3, <1>4, <1>21 DEF BeatCrash, Made, Fresh
  <2>2. list' \in [BeatThreads -> 1 .. n + 1]
    BY <1>6, <1>7, <1>21 DEF BeatCrash
  <2>3. payload' = none
    BY <1>17, <1>21 DEF BeatCrash
  <2> QED
    BY <1>0, <1>2, <1>22, <1>21, <2>1, <2>2, <2>3 DEF BeatCrash, BeatTypeOK, stateVars,
       serverVars, BeatThreads
<1> QED
  BY <1>8, <1>9, <1>10, <1>11, <1>12, <1>13, <1>14, <1>16, <1>19, <1>20, <1>21 DEF BeatNext

----------------------------------------------------------------------------
\* A write that says nothing of the queue leaves what is held, and caches the file's.
LEMMA RereadIs ==
  ASSUME BeatTypeOK, heap' = Append(heap, queueOnDisk), queue' = Len(heap) + 1
  PROVE  /\ heap'[queue'] = queueOnDisk /\ \A o \in 1 .. Len(heap) : heap'[o] = heap[o]
BY HeapIs DEF BeatTypeOK

\* Steps that neither record, write nor drop events.
LEMMA QueueFrame ==
  ASSUME BeatInv, UNCHANGED <<queueOnDisk, done>>, events' \in Nat, events <= events',
         gotEvents \subseteq gotEvents'
  PROVE  QueueGrows' /\ TrainingsKept'
<1>1. QueueGrows /\ TrainingsKept /\ events \in Nat /\ done \subseteq 0 .. events /\ PerPing \in Nat
  BY BeatAssumption DEF BeatInv, BeatTypeOK
<1>2. QueueGrows'
  BY <1>1 DEF QueueGrows
<1>3. \A e \in done : TooOld(e) => TooOld(e)'
  BY <1>1 DEF TooOld
<1>4. TrainingsKept'
  BY <1>1, <1>3 DEF TrainingsKept
<1> QED
  BY <1>2, <1>4

\* Every statement of a recorder, the pinger and a crash keeps the invariant.
LEMMA BeatStep ==
  ASSUME BeatInv, OneBetween', BeatNext
  PROVE  BeatInv'
<1> USE BeatAssumption
<1>0. /\ BeatTypeOK /\ OneBetween /\ QueueGrows /\ HeldIsQueue /\ SentIsFront
      /\ ErrorsAccounted /\ TrainingsKept
  BY DEF BeatInv
<1>1. BeatTypeOK'
  BY BeatTypeStep
<1>2. /\ Pinger \in BeatThreads /\ Pinger \notin Recorders /\ \A t \in Recorders : t \in BeatThreads /\ t # Pinger
  BY DEF BeatThreads
<1>3. /\ events \in Nat /\ queueOnDisk \in Seq(Nat) /\ heap \in Seq(Seq(Nat)) /\ queue \in 1 .. Len(heap)
      /\ gotErrors \in Nat /\ errors \in Nat /\ ticks \in Nat /\ payload.errors \in Nat
      /\ \A t \in BeatThreads : list[t] \in 1 .. Len(heap)
  BY SMTT(30), <1>0 DEF BeatTypeOK, BeatThreads
<1>3n. gotErrors \in Nat /\ errors \in Nat /\ ticks \in Nat /\ payload.errors \in Nat /\ events \in Nat
  BY <1>3
<1>4. Queue(queueOnDisk, events)
  BY <1>0, <1>3 DEF Queue, QueueGrows
<1>5. ASSUME NEW t \in BeatThreads, hpc[t] \notin Writing, NEW pc \in Writing,
             hpc' = [hpc EXCEPT ![t] = pc]
      PROVE  Between = {} /\ \A u \in BeatThreads : hpc[u] \notin Writing
  <2>1. \A u \in BeatThreads : hpc'[u] = IF u = t THEN pc ELSE hpc[u]
    BY <1>0, <1>5 DEF BeatTypeOK, BeatThreads
  <2>2. Between = {u \in BeatThreads : hpc[u] \in Writing} /\ Between' = {u \in BeatThreads : hpc'[u] \in Writing}
    BY DEF Between, BeatThreads, Writing
  <2>3. \A u \in Between : u = t
    BY <1>5, <2>1, <2>2 DEF OneBetween
  <2> QED
    BY <1>5, <2>2, <2>3
<1>6. ErrorsSent \in Nat /\ ErrorsHeld \in {0, 1} /\ gotErrors + errors + ErrorsSent + ErrorsHeld <= ticks
  BY <1>0, <1>3 DEF ErrorsSent, ErrorsHeld, ErrorsAccounted
<1>7. ASSUME NEW t \in BeatThreads, NEW pc, hpc' = [hpc EXCEPT ![t] = pc]
      PROVE  \A u \in BeatThreads : hpc'[u] = IF u = t THEN pc ELSE hpc[u]
  BY <1>0, <1>7 DEF BeatTypeOK, BeatThreads
<1>8. ASSUME NEW t \in Recorders, RecordTraining(t)
      PROVE  BeatInv'
  <2>1. hpc[t] = "idle" /\ hpc' = [hpc EXCEPT ![t] = "training"]
    BY <1>8 DEF RecordTraining, To
  <2>2. /\ UNCHANGED <<queue, queueOnDisk, stateVars, payload, serverVars, done, ticks, specs>>
        /\ events' = events + 1 /\ count' = [count EXCEPT ![t] = events + 1]
    BY <1>8 DEF RecordTraining
  <2>3. Between = {} /\ \A u \in BeatThreads : hpc[u] \notin Writing
    BY <1>2, <1>5, <2>1 DEF Writing
  <2>4. \A u \in BeatThreads : hpc'[u] = IF u = t THEN "training" ELSE hpc[u]
    BY <1>2, <1>7, <2>1
  <2>5. OneBetween'
    BY <1>0, <1>2, <2>1, <2>3, OneBetweenStep
  <2>6. QueueGrows' /\ TrainingsKept'
    BY <1>3, <2>2, QueueFrame DEF serverVars
  <2>7. heap[queue] = queueOnDisk
    BY <1>0, <1>2, <2>3 DEF HeldIsQueue, Writing
  <2>8. heap'[list'[t]] = Tail4(Append(queueOnDisk, events + 1))
    <3>1. PICK longer \in Seq(Nat) : longer = Append(queueOnDisk, events + 1) /\ Len(longer) = Len(queueOnDisk) + 1
      <4>1. PICK e \in Nat : e = events + 1
        BY <1>3
      <4> QED
        BY <1>3, <4>1, AppendProperties
    <3>2. \A h : list' = [list EXCEPT ![t] = h] => list'[t] = h
      BY <1>0, <1>2 DEF BeatTypeOK
    <3>3. PICK n \in Nat : n = Len(heap)
      <4>1. Len(heap) \in Nat
        BY <1>3
      <4> QED
        BY <4>1
    <3>4. CASE /\ Len(longer) <= 4 * PerPing
               /\ \/ heap' = Append(heap, longer) /\ list' = [list EXCEPT ![t] = n + 1]
                  \/ heap' = [heap EXCEPT ![queue] = longer] /\ list' = [list EXCEPT ![t] = queue]
      <4>1. heap'[list'[t]] = longer
        <5>1. CASE heap' = Append(heap, longer) /\ list' = [list EXCEPT ![t] = n + 1]
          <6>1. list'[t] = n + 1
            BY <3>2, <5>1
          <6>2. Append(heap, longer)[n + 1] = longer
            BY <1>3, <3>1, <3>3, HeapIs
          <6> QED
            BY <5>1, <6>1, <6>2
        <5>2. CASE heap' = [heap EXCEPT ![queue] = longer] /\ list' = [list EXCEPT ![t] = queue]
          <6>1. list'[t] = queue
            BY <3>2, <5>2
          <6>2. [heap EXCEPT ![queue] = longer][queue] = longer
            BY <1>3, <3>1
          <6> QED
            BY <5>2, <6>1, <6>2
        <5> QED
          BY <3>4, <5>1, <5>2
      <4>2. Tail4(longer) = longer
        <5>1. ~(Len(longer) > 4 * PerPing)
          BY <3>4
        <5> QED
          BY <5>1 DEF Tail4
      <4> QED
        BY <3>1, <4>1, <4>2
    <3>5. CASE heap' = Append([heap EXCEPT ![queue] = longer], Tail4(longer)) /\ list' = [list EXCEPT ![t] = n + 1]
      <4>1. PICK h \in Seq(Seq(Nat)) : h = [heap EXCEPT ![queue] = longer] /\ Len(h) = n
        <5>1. [heap EXCEPT ![queue] = longer] \in Seq(Seq(Nat)) /\ Len([heap EXCEPT ![queue] = longer]) = Len(heap)
          BY <1>3, <3>1, ExceptSeq
        <5> QED
          BY <3>3, <5>1
      <4>2. heap' \in Seq(Seq(Nat)) /\ heap' = Append(h, Tail4(longer)) /\ list'[t] = n + 1
        BY <1>1, <3>2, <3>5, <4>1 DEF BeatTypeOK
      <4>3. Append(h, Tail4(longer))[Len(h) + 1] = Tail4(longer)
        BY <4>1
      <4> QED
        BY <3>1, <4>1, <4>2, <4>3
    <3>6. queueOnDisk = <<>> => Len(longer) <= 4 * PerPing
      BY <3>1
    <3>7. \/ /\ queueOnDisk = <<>> /\ heap' = Append(heap, longer) /\ list' = [list EXCEPT ![t] = n + 1]
          \/ /\ Len(longer) <= 4 * PerPing
             /\ heap' = [heap EXCEPT ![queue] = longer] /\ list' = [list EXCEPT ![t] = queue]
          \/ /\ heap' = Append([heap EXCEPT ![queue] = longer], Tail4(longer))
             /\ list' = [list EXCEPT ![t] = n + 1]
      <4>1. PICK old : old = heap[queue]
        OBVIOUS
      <4>2. longer = Append(old, events + 1) /\ old = queueOnDisk
        BY <2>7, <3>1, <4>1
      <4> QED
        BY <1>8, <3>3, <4>1, <4>2 DEF RecordTraining, Made, Fresh
    <3>8. CASE /\ queueOnDisk = <<>> /\ heap' = Append(heap, longer) /\ list' = [list EXCEPT ![t] = n + 1]
      <4>1. Len(longer) <= 4 * PerPing
        BY <3>6, <3>8
      <4>2. \/ heap' = Append(heap, longer) /\ list' = [list EXCEPT ![t] = n + 1]
            \/ heap' = [heap EXCEPT ![queue] = longer] /\ list' = [list EXCEPT ![t] = queue]
        BY <3>8, Zenon
      <4> QED
        BY <3>4, <4>1, <4>2, Zenon
    <3>9. CASE /\ Len(longer) <= 4 * PerPing
               /\ heap' = [heap EXCEPT ![queue] = longer] /\ list' = [list EXCEPT ![t] = queue]
      BY <3>4, <3>9
    <3> QED
      BY <3>5, <3>7, <3>8, <3>9
  <2>9. count'[t] = events' /\ \A i \in 1 .. Len(queueOnDisk) : queueOnDisk[i] < events'
    <3>1. count'[t] = events'
      BY <1>0, <1>2, <2>2 DEF BeatTypeOK
    <3>2. \A i \in 1 .. Len(queueOnDisk) : queueOnDisk[i] < events + 1
      <4>1. \A i \in 1 .. Len(queueOnDisk) : queueOnDisk[i] \in 0 .. events
        BY <1>4 DEF Queue
      <4> QED
        BY <1>3n, <4>1
    <3> QED
      BY <2>2, <3>1, <3>2
  <2>10. HeldIsQueue'
    <3>1. \A u \in Recorders : hpc'[u] = "training" => u = t
      BY <1>2, <2>3, <2>4 DEF Writing
    <3>2. hpc'[t] = "training" /\ hpc'[Pinger] # "drain"
      BY <1>2, <2>3, <2>4 DEF Writing
    <3> QED
      BY <2>2, <2>8, <2>9, <3>1, <3>2 DEF HeldIsQueue
  <2>11. SentIsFront'
    <3>1. hpc'[Pinger] = hpc[Pinger] /\ hpc[Pinger] # "drop"
      BY <1>2, <2>3, <2>4 DEF Writing
    <3> QED
      BY <1>0, <2>2, <3>1 DEF SentIsFront
  <2>12. ErrorsAccounted'
    <3>1. \A u \in Recorders : hpc'[u] # "error"
      BY <1>2, <2>3, <2>4 DEF Writing
    <3>2. hpc'[Pinger] = hpc[Pinger] /\ hpc[Pinger] # "drain"
      BY <1>2, <2>3, <2>4 DEF Writing
    <3>3. ErrorsHeld' = 0
      BY <3>1 DEF ErrorsHeld
    <3>4. ErrorsSent' = ErrorsSent
      BY <2>2, <3>2 DEF ErrorsSent
    <3>5. gotErrors' = gotErrors /\ errors' = errors /\ ticks' = ticks
      BY <2>2 DEF stateVars, serverVars
    <3>6. gotErrors' + errors' + ErrorsSent' + ErrorsHeld' <= ticks'
      BY <1>3n, <1>6, <3>3, <3>4, <3>5
    <3> QED
      BY <3>1, <3>2, <3>6 DEF ErrorsAccounted
  <2> QED
    BY <1>1, <2>5, <2>6, <2>10, <2>11, <2>12 DEF BeatInv
<1>9. ASSUME NEW t \in Recorders, WriteTraining(t)
      PROVE  BeatInv'
  <2>1. hpc[t] = "training" /\ hpc' = [hpc EXCEPT ![t] = "idle"]
    BY <1>9 DEF WriteTraining, To
  <2>2. /\ UNCHANGED <<heap, stateVars, payload, serverVars, events, ticks, specs>>
        /\ queue' = list[t] /\ queueOnDisk' = heap[list[t]] /\ done' = done \cup {count[t]}
    BY <1>9 DEF WriteTraining
  <2>3. \A u \in BeatThreads : u # t => hpc[u] \notin Writing
    BY <1>0, <1>2, <2>1, NoneBeside DEF Writing
  <2>4. \A u \in BeatThreads : hpc'[u] = IF u = t THEN "idle" ELSE hpc[u]
    BY <1>2, <1>7, <2>1
  <2>5. OneBetween'
    BY <1>0, <1>2, <2>1, OneBetweenStep DEF Writing
  <2>6. /\ queueOnDisk' = Tail4(Append(queueOnDisk, events)) /\ count[t] = events
        /\ \A i \in 1 .. Len(queueOnDisk) : queueOnDisk[i] < events
    BY <1>0, <2>1, <2>2 DEF HeldIsQueue
  <2>7. PICK D : D = queueOnDisk'
    OBVIOUS
  <2>8. /\ Queue(D, events) /\ events \in Occurs(D)
        /\ IF Len(queueOnDisk) < 4 * PerPing
           THEN /\ Len(D) = Len(queueOnDisk) + 1
                /\ \A i \in 1 .. Len(queueOnDisk) : D[i] = queueOnDisk[i]
           ELSE Len(D) = 4 * PerPing
        /\ \A e \in Occurs(queueOnDisk) : e \in Occurs(D) \/ e + 3 * PerPing <= events
    BY <1>3, <1>4, <2>6, <2>7, QueueTakes
  <2>9. QueueGrows'
    BY <2>2, <2>7, <2>8 DEF QueueGrows, Queue
  <2>10. TrainingsKept'
    <3>1. \A e \in done \cup {events} : e \in gotEvents \cup Occurs(D) \/ e + 3 * PerPing <= events
      BY <1>0, <2>8 DEF TrainingsKept, TooOld
    <3> QED
      BY <2>2, <2>6, <2>7, <3>1 DEF TrainingsKept, TooOld, serverVars
  <2>11. HeldIsQueue'
    <3>1. \A u \in Recorders : hpc'[u] # "training"
      BY <1>2, <2>3, <2>4 DEF Writing
    <3>2. hpc'[Pinger] # "drain"
      BY <1>2, <2>3, <2>4 DEF Writing
    <3> QED
      BY <2>2, <3>1, <3>2 DEF HeldIsQueue
  <2>12. SentIsFront'
    <3>1. hpc'[Pinger] = hpc[Pinger] /\ hpc[Pinger] # "drop"
      BY <1>2, <2>3, <2>4 DEF Writing
    <3>2. ASSUME hpc[Pinger] = "post"
          PROVE  \/ Len(D) = 4 * PerPing
                 \/ /\ Len(payload.events) <= Len(D)
                    /\ \A i \in 1 .. Len(payload.events) : payload.events[i] = D[i]
      <4>1. PICK s \in Seq(Nat) : s = payload.events
        BY <1>0 DEF BeatTypeOK
      <4>2. CASE Len(queueOnDisk) < 4 * PerPing
        <5>1. Len(s) <= Len(queueOnDisk) /\ \A i \in 1 .. Len(s) : s[i] = queueOnDisk[i]
          BY <1>0, <1>3, <3>2, <4>1, <4>2 DEF SentIsFront
        <5>2. Len(D) = Len(queueOnDisk) + 1 /\ \A i \in 1 .. Len(queueOnDisk) : D[i] = queueOnDisk[i]
          BY <2>8, <4>2
        <5>3. PICK k \in Nat : k = Len(s)
          BY <4>1
        <5>6. PICK m \in Nat : m = Len(queueOnDisk)
          BY <1>3
        <5>4. k <= m + 1 /\ \A i \in 1 .. k : i \in 1 .. m
          BY <5>1, <5>3, <5>6
        <5>5. \A i \in 1 .. k : s[i] = D[i]
          BY <5>1, <5>2, <5>3, <5>4, <5>6
        <5> QED
          BY <4>1, <5>2, <5>3, <5>4, <5>5, <5>6
      <4>3. CASE ~(Len(queueOnDisk) < 4 * PerPing)
        BY <2>8, <4>3
      <4> QED
        BY <4>2, <4>3
    <3> QED
      BY <2>2, <2>7, <3>1, <3>2 DEF SentIsFront
  <2>13. ErrorsAccounted'
    <3>1. \A u \in Recorders : hpc'[u] # "error"
      BY <1>2, <2>3, <2>4 DEF Writing
    <3>2. hpc'[Pinger] = hpc[Pinger] /\ hpc[Pinger] # "drain"
      BY <1>2, <2>3, <2>4 DEF Writing
    <3>3. ErrorsHeld' = 0
      BY <3>1 DEF ErrorsHeld
    <3>4. ErrorsSent' = ErrorsSent
      BY <2>2, <3>2 DEF ErrorsSent
    <3>5. gotErrors' = gotErrors /\ errors' = errors /\ ticks' = ticks
      BY <2>2 DEF stateVars, serverVars
    <3>6. gotErrors' + errors' + ErrorsSent' + ErrorsHeld' <= ticks'
      BY <1>3n, <1>6, <3>3, <3>4, <3>5
    <3> QED
      BY <3>1, <3>2, <3>6 DEF ErrorsAccounted
  <2> QED
    BY <1>1, <2>5, <2>9, <2>10, <2>11, <2>12, <2>13 DEF BeatInv
<1>10. ASSUME NEW t \in Recorders, RecordError(t)
       PROVE  BeatInv'
  <2>1. hpc[t] = "idle" /\ hpc' = [hpc EXCEPT ![t] = "error"]
    BY <1>10 DEF RecordError, To
  <2>2. /\ UNCHANGED <<heap, queue, queueOnDisk, errors, payload, gotEvents, gotErrors, events, done>>
        /\ count' = [count EXCEPT ![t] = errors + 1] /\ ticks' = ticks + 1
    BY <1>10 DEF RecordError, queueVars, stateVars, serverVars
  <2>3. \A u \in BeatThreads : hpc[u] \notin Writing
    BY <1>2, <1>5, <2>1 DEF Writing
  <2>4. \A u \in BeatThreads : hpc'[u] = IF u = t THEN "error" ELSE hpc[u]
    BY <1>2, <1>7, <2>1
  <2>5. OneBetween'
    OBVIOUS
  <2>6. QueueGrows' /\ TrainingsKept'
    BY <1>3, <2>2, QueueFrame
  <2>7. /\ \A u \in Recorders : hpc[u] # "training" /\ hpc'[u] # "training" /\ hpc[u] # "error"
        /\ hpc'[Pinger] = hpc[Pinger] /\ hpc[Pinger] # "drain" /\ hpc[Pinger] # "drop"
    BY <1>2, <2>3, <2>4 DEF Writing
  <2>8. HeldIsQueue' /\ SentIsFront'
    BY <1>0, <2>2, <2>7 DEF HeldIsQueue, SentIsFront
  <2>9. ErrorsHeld = 0 /\ ErrorsHeld' = 1 /\ ErrorsSent' = ErrorsSent
    BY <1>2, <2>2, <2>4, <2>7 DEF ErrorsHeld, ErrorsSent
  <2>10. gotErrors' + errors' + ErrorsSent' + ErrorsHeld' <= ticks'
    BY <1>3n, <1>6, <2>2, <2>9
  <2>11. \A u \in Recorders : hpc'[u] = "error" => count'[u] = errors' + 1
    <3>1. \A u \in Recorders : hpc'[u] = "error" => u = t
      BY <1>2, <2>4, <2>7
    <3>2. count'[t] = errors + 1
      BY <1>0, <2>2 DEF BeatTypeOK
    <3> QED
      BY <2>2, <3>1, <3>2
  <2>12. ErrorsAccounted'
    BY <2>7, <2>10, <2>11 DEF ErrorsAccounted
  <2> QED
    BY <1>1, <2>5, <2>6, <2>8, <2>12 DEF BeatInv
<1>11. ASSUME NEW t \in Recorders, WriteError(t)
       PROVE  BeatInv'
  <2>1. hpc[t] = "error" /\ hpc' = [hpc EXCEPT ![t] = "idle"]
    BY <1>11 DEF WriteError, To
  <2>2. /\ UNCHANGED <<queueOnDisk, payload, gotEvents, gotErrors, events, done, ticks>>
        /\ heap' = Append(heap, queueOnDisk) /\ queue' = Len(heap) + 1 /\ errors' = count[t]
    BY <1>11 DEF WriteError, Reread, Made, Fresh, serverVars, tallies
  <2>3. \A u \in BeatThreads : u # t => hpc[u] \notin Writing
    BY <1>0, <1>2, <2>1, NoneBeside DEF Writing
  <2>4. \A u \in BeatThreads : hpc'[u] = IF u = t THEN "idle" ELSE hpc[u]
    BY <1>2, <1>7, <2>1
  <2>5. OneBetween'
    BY <1>0, <1>2, <2>1, OneBetweenStep DEF Writing
  <2>6. QueueGrows' /\ TrainingsKept'
    BY <1>3, <2>2, QueueFrame
  <2>7. /\ \A u \in Recorders : hpc'[u] # "training" /\ hpc'[u] # "error"
        /\ hpc'[Pinger] = hpc[Pinger] /\ hpc[Pinger] # "drain" /\ hpc[Pinger] # "drop"
    BY <1>2, <2>3, <2>4 DEF Writing
  <2>8. heap'[queue'] = queueOnDisk'
    BY <1>0, <2>2, RereadIs
  <2>9. HeldIsQueue' /\ SentIsFront'
    BY <1>0, <2>2, <2>7, <2>8 DEF HeldIsQueue, SentIsFront
  <2>10. ErrorsHeld = 1 /\ ErrorsHeld' = 0 /\ ErrorsSent' = ErrorsSent
    BY <2>1, <2>2, <2>7 DEF ErrorsHeld, ErrorsSent
  <2>11. count[t] = errors + 1
    BY <1>0, <2>1 DEF ErrorsAccounted
  <2>12. gotErrors' + errors' + ErrorsSent' + ErrorsHeld' <= ticks'
    BY <1>3n, <1>6, <2>2, <2>10, <2>11
  <2>13. ErrorsAccounted'
    BY <2>7, <2>12 DEF ErrorsAccounted
  <2> QED
    BY <1>1, <2>5, <2>6, <2>9, <2>13 DEF BeatInv
<1>12. ASSUME RearmHw
       PROVE  BeatInv'
  <2>1. /\ UNCHANGED <<queueOnDisk, errors, hpc, list, count, payload, gotEvents, gotErrors, events, done, ticks>>
        /\ heap' = Append(heap, queueOnDisk) /\ queue' = Len(heap) + 1
    BY <1>12 DEF RearmHw, Reread, Made, Fresh, serverVars
  <2>2. heap'[queue'] = queueOnDisk /\ \A u \in BeatThreads : heap'[list[u]] = heap[list[u]]
    BY <1>0, <1>3, <2>1, RereadIs
  <2>3. OneBetween'
    BY <1>0, <2>1 DEF OneBetween, Between
  <2>4. QueueGrows' /\ TrainingsKept'
    BY <1>3, <2>1, QueueFrame
  <2>5. HeldIsQueue'
    BY <1>0, <1>2, <2>1, <2>2 DEF HeldIsQueue
  <2>6. SentIsFront'
    BY <1>0, <1>2, <2>1, <2>2 DEF SentIsFront, TooOld
  <2>7. ErrorsAccounted'
    BY <1>0, <2>1 DEF ErrorsAccounted, ErrorsSent, ErrorsHeld
  <2> QED
    BY <1>1, <2>3, <2>4, <2>5, <2>6, <2>7 DEF BeatInv
<1>13. ASSUME SendReads
       PROVE  BeatInv'
  <2>1. hpc[Pinger] = "idle" /\ hpc' = [hpc EXCEPT ![Pinger] = "drain"]
    BY <1>13 DEF SendReads, To
  <2>2. /\ UNCHANGED <<heap, queue, queueOnDisk, errors, count, gotEvents, gotErrors, events, done, ticks>>
        /\ list' = [list EXCEPT ![Pinger] = queue] /\ payload'.errors = errors
    BY <1>13 DEF SendReads, queueVars, stateVars, serverVars
  <2>3. \A u \in BeatThreads : hpc[u] \notin Writing
    BY <1>2, <1>5, <2>1 DEF Writing
  <2>4. \A u \in BeatThreads : hpc'[u] = IF u = Pinger THEN "drain" ELSE hpc[u]
    BY <1>2, <1>7, <2>1
  <2>5. OneBetween'
    OBVIOUS
  <2>6. QueueGrows' /\ TrainingsKept'
    BY <1>3, <2>2, QueueFrame
  <2>7. /\ \A u \in Recorders : hpc[u] \notin Writing /\ hpc'[u] = hpc[u]
        /\ hpc'[Pinger] = "drain"
    BY <1>2, <2>3, <2>4
  <2>8. list'[Pinger] = queue
    BY <1>0, <1>2, <2>2 DEF BeatTypeOK
  <2>9. HeldIsQueue' /\ SentIsFront'
    BY <1>0, <2>2, <2>7, <2>8 DEF HeldIsQueue, SentIsFront, Writing
  <2>10. ErrorsHeld' = ErrorsHeld /\ ErrorsSent' = 0 /\ ErrorsSent = 0
    BY <2>1, <2>7 DEF ErrorsHeld, ErrorsSent
  <2>11. gotErrors' + errors' + ErrorsSent' + ErrorsHeld' <= ticks'
    BY <1>3n, <1>6, <2>2, <2>10
  <2>12. ErrorsAccounted'
    BY <2>2, <2>7, <2>11 DEF ErrorsAccounted, Writing
  <2> QED
    BY <1>1, <2>5, <2>6, <2>9, <2>12 DEF BeatInv
<1>14. ASSUME SendDrains
       PROVE  BeatInv'
  <2>1. hpc[Pinger] = "drain" /\ hpc' = [hpc EXCEPT ![Pinger] = "post"]
    BY <1>14 DEF SendDrains, To
  <2>2. /\ UNCHANGED <<queueOnDisk, list, count, gotEvents, gotErrors, events, done, ticks>>
        /\ payload' = [payload EXCEPT !.events = Front(heap[list[Pinger]], PerPing)]
        /\ IF payload.errors = 0 THEN UNCHANGED <<heap, queue, errors>>
           ELSE errors' = 0 /\ heap' = Append(heap, queueOnDisk) /\ queue' = Len(heap) + 1
    BY <1>14 DEF SendDrains, serverVars, tallies, queueVars, Reread, Made, Fresh
  <2>3. \A u \in BeatThreads : u # Pinger => hpc[u] \notin Writing
    BY <1>0, <1>2, <2>1, NoneBeside DEF Writing
  <2>4. \A u \in BeatThreads : hpc'[u] = IF u = Pinger THEN "post" ELSE hpc[u]
    BY <1>2, <1>7, <2>1
  <2>5. OneBetween'
    BY <1>0, <1>2, <2>1, OneBetweenStep DEF Writing
  <2>6. QueueGrows' /\ TrainingsKept'
    BY <1>3, <2>2, QueueFrame
  <2>7. /\ \A u \in Recorders : hpc[u] \notin Writing /\ hpc'[u] = hpc[u]
        /\ hpc'[Pinger] = "post"
    BY <1>2, <2>3, <2>4
  <2>8. heap[queue] = queueOnDisk /\ heap[list[Pinger]] = queueOnDisk /\ payload.errors = errors
    BY <1>0, <2>1, <2>7 DEF HeldIsQueue, ErrorsAccounted, Writing
  <2>9. heap'[queue'] = queueOnDisk'
    BY <1>0, <2>2, <2>8, RereadIs
  <2>10. HeldIsQueue'
    BY <2>7, <2>9 DEF HeldIsQueue, Writing
  <2>11. payload'.events = Front(queueOnDisk, PerPing) /\ payload'.errors = errors
    BY <1>0, <2>2, <2>8 DEF BeatTypeOK
  <2>12. /\ Len(Front(queueOnDisk, PerPing)) <= Len(queueOnDisk)
         /\ \A i \in 1 .. Len(Front(queueOnDisk, PerPing)) : Front(queueOnDisk, PerPing)[i] = queueOnDisk[i]
    BY <1>3, FrontIs
  <2>13. SentIsFront'
    BY <2>2, <2>7, <2>11, <2>12 DEF SentIsFront
  <2>14. ErrorsHeld' = ErrorsHeld /\ ErrorsSent' = errors /\ ErrorsSent = 0 /\ errors' = 0
    <3>1. ErrorsHeld' = ErrorsHeld
      BY <2>7 DEF ErrorsHeld
    <3>2. ErrorsSent' = errors /\ ErrorsSent = 0
      BY <2>1, <2>7, <2>11 DEF ErrorsSent
    <3>3. errors' = 0
      BY <2>2, <2>8
    <3> QED
      BY <3>1, <3>2, <3>3
  <2>15. gotErrors' + errors' + ErrorsSent' + ErrorsHeld' <= ticks'
    BY <1>3n, <1>6, <2>2, <2>14
  <2>16. ErrorsAccounted'
    BY <2>7, <2>15 DEF ErrorsAccounted, Writing
  <2> QED
    BY <1>1, <2>5, <2>6, <2>10, <2>13, <2>16 DEF BeatInv
<1>15. ASSUME PostAnswered
       PROVE  BeatInv'
  <2>1. hpc[Pinger] = "post" /\ hpc' = [hpc EXCEPT ![Pinger] = "drop"]
    BY <1>15 DEF PostAnswered, To
  <2>2. /\ UNCHANGED <<queue, queueOnDisk, errors, count, payload, events, done, ticks>>
        /\ gotEvents' = gotEvents \cup Occurs(payload.events) /\ gotErrors' = gotErrors + payload.errors
    BY <1>15 DEF PostAnswered, Arrives, stateVars, tallies
  <2>3. \A u \in BeatThreads : hpc[u] \notin Writing
    BY <1>2, <1>5, <2>1 DEF Writing
  <2>4. \A u \in BeatThreads : hpc'[u] = IF u = Pinger THEN "drop" ELSE hpc[u]
    BY <1>2, <1>7, <2>1
  <2>5. OneBetween'
    OBVIOUS
  <2>6. QueueGrows' /\ TrainingsKept'
    BY <1>3, <2>2, QueueFrame
  <2>7. /\ \A u \in Recorders : hpc[u] \notin Writing /\ hpc'[u] = hpc[u]
        /\ hpc'[Pinger] = "drop"
    BY <1>2, <2>3, <2>4
  <2>8. heap[queue] = queueOnDisk
    BY <1>0, <2>7 DEF HeldIsQueue, Writing
  <2>9. PICK s \in Seq(Nat) : s = payload.events
    BY <1>0 DEF BeatTypeOK
  <2>10. PICK k \in Nat : k = Len(s)
    BY <2>9
  <2>11. PICK m \in Nat : m = Len(queueOnDisk)
    BY <1>3
  <2>12. k <= PerPing
    BY <1>0, <2>9, <2>10 DEF BeatTypeOK
  <2>13. k <= m /\ \A i \in 1 .. k : queueOnDisk[i] \in gotEvents' \/ TooOld(queueOnDisk[i])'
    <3>1. CASE m = 4 * PerPing
      <4>1. k <= m
        BY <2>12, <3>1
      <4>2. ASSUME NEW i \in 1 .. k
            PROVE  queueOnDisk[i] + 3 * PerPing <= events
        <5>1. i \in 1 .. m /\ m \in 1 .. m /\ i < m /\ m - i >= 3 * PerPing
          BY <2>12, <3>1
        <5>2. /\ queueOnDisk[i] + (m - i) <= queueOnDisk[m]
              /\ queueOnDisk[m] \in 0 .. events /\ queueOnDisk[i] \in 0 .. events
          BY <1>4, <2>11, <5>1 DEF Queue
        <5>3. PICK x \in Nat : x = queueOnDisk[i]
          BY <5>2
        <5>4. PICK y \in 0 .. events : y = queueOnDisk[m]
          BY <5>2
        <5>5. PICK d \in Nat : d = m - i
          BY <5>1
        <5>6. PICK w \in Nat : w = 3 * PerPing
          OBVIOUS
        <5>7. x + d <= y /\ d >= w
          BY <5>1, <5>2, <5>3, <5>4, <5>5, <5>6
        <5>8. x + w <= events
          BY <1>3, <5>7
        <5> QED
          BY <5>3, <5>6, <5>8
      <4> QED
        BY <2>2, <4>1, <4>2 DEF TooOld
    <3>2. CASE m # 4 * PerPing
      <4>1. k <= m /\ \A i \in 1 .. k : s[i] = queueOnDisk[i]
        BY <1>0, <2>1, <2>9, <2>10, <2>11, <3>2 DEF SentIsFront
      <4>2. \A i \in 1 .. k : s[i] \in gotEvents'
        BY <2>2, <2>9, <2>10 DEF Occurs
      <4> QED
        BY <4>1, <4>2
    <3> QED
      BY <3>1, <3>2
  <2>14. heap'[queue] = queueOnDisk /\ (s # <<>> => heap'[list'[Pinger]] = Rest(queueOnDisk, k))
    <3>1. CASE s = <<>>
      BY <1>15, <2>8, <2>9, <3>1 DEF PostAnswered
    <3>2. CASE s # <<>>
      <4>1. heap' = Append(heap, Rest(queueOnDisk, k)) /\ list' = [list EXCEPT ![Pinger] = Len(heap) + 1]
        BY <1>15, <2>8, <2>9, <2>10, <3>2 DEF PostAnswered, Made, Fresh
      <4>2. list'[Pinger] = Len(heap) + 1
        BY <1>0, <1>2, <4>1 DEF BeatTypeOK
      <4>3. Rest(queueOnDisk, k) \in Seq(Nat)
        <5>1. k \in 0 .. Len(queueOnDisk)
          BY <2>11, <2>13
        <5> QED
          BY <1>3, <5>1, RestIs
      <4>4. /\ Append(heap, Rest(queueOnDisk, k))[Len(heap) + 1] = Rest(queueOnDisk, k)
            /\ Append(heap, Rest(queueOnDisk, k))[queue] = heap[queue]
        BY <1>3, <4>3, HeapIs
      <4> QED
        BY <2>8, <4>1, <4>2, <4>4
    <3> QED
      BY <3>1, <3>2
  <2>15. HeldIsQueue'
    BY <2>2, <2>7, <2>14 DEF HeldIsQueue, Writing
  <2>16. SentIsFront'
    BY <2>2, <2>7, <2>9, <2>10, <2>11, <2>13, <2>14 DEF SentIsFront
  <2>17. ErrorsHeld' = ErrorsHeld /\ ErrorsSent' = 0 /\ ErrorsSent = payload.errors
    BY <2>1, <2>7 DEF ErrorsHeld, ErrorsSent
  <2>18. gotErrors' + errors' + ErrorsSent' + ErrorsHeld' <= ticks'
    <3>1. gotErrors' = gotErrors + ErrorsSent /\ errors' = errors /\ ticks' = ticks
      BY <2>2, <2>17
    <3> QED
      BY <1>3n, <1>6, <2>17, <3>1
  <2>19. ErrorsAccounted'
    BY <2>7, <2>18 DEF ErrorsAccounted, Writing
  <2> QED
    BY <1>1, <2>5, <2>6, <2>15, <2>16, <2>19 DEF BeatInv
<1>16. ASSUME SendRecords
       PROVE  BeatInv'
  <2>1. hpc[Pinger] = "drop" /\ hpc' = [hpc EXCEPT ![Pinger] = "idle"]
    BY <1>16 DEF SendRecords, To
  <2>2. /\ UNCHANGED <<errors, list, count, gotEvents, gotErrors, events, done, ticks>>
        /\ \/ /\ payload.events = <<>> /\ UNCHANGED queueOnDisk
              /\ heap' = Append(heap, queueOnDisk) /\ queue' = Len(heap) + 1
           \/ /\ payload.events # <<>> /\ UNCHANGED heap
              /\ queue' = list[Pinger] /\ queueOnDisk' = heap[list[Pinger]]
    BY <1>16 DEF SendRecords, Reread, Made, Fresh, serverVars, tallies
  <2>3. \A u \in BeatThreads : u # Pinger => hpc[u] \notin Writing
    BY <1>0, <1>2, <2>1, NoneBeside DEF Writing
  <2>4. \A u \in BeatThreads : hpc'[u] = IF u = Pinger THEN "idle" ELSE hpc[u]
    BY <1>2, <1>7, <2>1
  <2>5. OneBetween'
    BY <1>0, <1>2, <2>1, OneBetweenStep DEF Writing
  <2>6. /\ \A u \in Recorders : hpc[u] \notin Writing /\ hpc'[u] = hpc[u]
        /\ hpc'[Pinger] = "idle"
    BY <1>2, <2>3, <2>4
  <2>7. QueueGrows' /\ TrainingsKept' /\ heap'[queue'] = queueOnDisk'
    <3>1. CASE payload.events = <<>>
      BY <1>0, <1>3, <2>2, <3>1, QueueFrame, RereadIs
    <3>2. CASE payload.events # <<>>
      <4>1. PICK s \in Seq(Nat) : s = payload.events
        BY <1>0 DEF BeatTypeOK
      <4>2. PICK k \in Nat : k = Len(s)
        BY <4>1
      <4>3. /\ k <= Len(queueOnDisk) /\ queueOnDisk' = Rest(queueOnDisk, k)
            /\ \A i \in 1 .. k : queueOnDisk[i] \in gotEvents \/ TooOld(queueOnDisk[i])
        BY <1>0, <2>1, <2>2, <3>2, <4>1, <4>2 DEF SentIsFront
      <4>4. k \in 0 .. Len(queueOnDisk)
        BY <1>3, <4>3
      <4>5. PICK D : D = queueOnDisk'
        OBVIOUS
      <4>6. Queue(D, events) /\ \A i \in 1 .. Len(queueOnDisk) : i <= k \/ queueOnDisk[i] \in Occurs(D)
        BY <1>3, <1>4, <4>3, <4>4, <4>5, QueueDrops
      <4>7. QueueGrows'
        BY <2>2, <4>5, <4>6 DEF QueueGrows, Queue
      <4>8. \A i \in 1 .. Len(queueOnDisk) : queueOnDisk[i] \in gotEvents \cup Occurs(D) \/ TooOld(queueOnDisk[i])
        <5> SUFFICES ASSUME NEW i \in 1 .. Len(queueOnDisk)
                     PROVE  queueOnDisk[i] \in gotEvents \cup Occurs(D) \/ TooOld(queueOnDisk[i])
          OBVIOUS
        <5>1. CASE i <= k
          <6>1. i \in 1 .. k
            BY <1>3, <5>1
          <6> QED
            BY <4>3, <6>1
        <5>2. CASE ~(i <= k)
          BY <4>6, <5>2
        <5> QED
          BY <5>1, <5>2
      <4>9. \A e \in done : e \in gotEvents \cup Occurs(D) \/ TooOld(e)
        BY <1>0, <4>8 DEF TrainingsKept, Occurs
      <4>10. TrainingsKept'
        BY <2>2, <4>5, <4>9 DEF TrainingsKept, TooOld
      <4> QED
        BY <2>2, <3>2, <4>7, <4>10
    <3> QED
      BY <3>1, <3>2
  <2>8. HeldIsQueue' /\ SentIsFront'
    BY <2>6, <2>7 DEF HeldIsQueue, SentIsFront, Writing
  <2>9. ErrorsHeld' = ErrorsHeld /\ ErrorsSent' = 0 /\ ErrorsSent = 0
    BY <2>1, <2>6 DEF ErrorsHeld, ErrorsSent
  <2>10. gotErrors' + errors' + ErrorsSent' + ErrorsHeld' <= ticks'
    BY <1>3n, <1>6, <2>2, <2>9
  <2>11. ErrorsAccounted'
    BY <2>6, <2>10 DEF ErrorsAccounted, Writing
  <2> QED
    BY <1>1, <2>5, <2>7, <2>8, <2>11 DEF BeatInv
<1>17. ASSUME PostFails
       PROVE  BeatInv'
  <2>1. hpc[Pinger] = "post" /\ hpc' = [hpc EXCEPT ![Pinger] = "idle"]
    BY <1>17 DEF PostFails, To
  <2>2. /\ UNCHANGED <<queueOnDisk, errors, list, count, events, done, ticks>>
        /\ heap' = Append(heap, queueOnDisk) /\ queue' = Len(heap) + 1
    BY <1>17 DEF PostFails, Reread, Made, Fresh, stateVars
  <2>3. gotEvents \subseteq gotEvents' /\ gotErrors' \in {gotErrors, gotErrors + payload.errors}
    BY <1>17 DEF PostFails, Arrives, serverVars
  <2>4. \A u \in BeatThreads : hpc'[u] = IF u = Pinger THEN "idle" ELSE hpc[u]
    BY <1>2, <1>7, <2>1
  <2>5. OneBetween'
    BY <1>0, <1>2, <2>1, OneBetweenStep DEF Writing
  <2>6. QueueGrows' /\ TrainingsKept'
    BY <1>3, <2>2, <2>3, QueueFrame
  <2>7. heap'[queue'] = queueOnDisk /\ \A u \in BeatThreads : heap'[list[u]] = heap[list[u]]
    BY <1>0, <1>3, <2>2, RereadIs
  <2>8. (\A u \in Recorders : hpc'[u] = hpc[u]) /\ hpc'[Pinger] = "idle"
    BY <1>2, <2>4
  <2>9. HeldIsQueue' /\ SentIsFront'
    BY <1>0, <1>2, <2>2, <2>7, <2>8 DEF HeldIsQueue, SentIsFront
  <2>10. ErrorsHeld' = ErrorsHeld /\ ErrorsSent' = 0 /\ ErrorsSent = payload.errors
    BY <2>1, <2>8 DEF ErrorsHeld, ErrorsSent
  <2>11. gotErrors' + errors' + ErrorsSent' + ErrorsHeld' <= ticks'
    <3>1. CASE gotErrors' = gotErrors
      <4>1. gotErrors' = gotErrors /\ errors' = errors /\ ticks' = ticks
        BY <2>2, <3>1
      <4> QED
        BY <1>3n, <1>6, <2>10, <4>1
    <3>2. CASE gotErrors' = gotErrors + payload.errors
      <4>1. gotErrors' = gotErrors + ErrorsSent /\ errors' = errors /\ ticks' = ticks
        BY <2>2, <2>10, <3>2
      <4> QED
        BY <1>3n, <1>6, <2>10, <4>1
    <3> QED
      BY <2>3, <3>1, <3>2
  <2>12. ErrorsAccounted'
    BY <1>0, <2>2, <2>8, <2>11 DEF ErrorsAccounted
  <2> QED
    BY <1>1, <2>5, <2>6, <2>9, <2>12 DEF BeatInv
<1>18. ASSUME BeatCrash
       PROVE  BeatInv'
  <2>1. \A u \in BeatThreads : hpc'[u] = "idle"
    BY <1>18 DEF BeatCrash, BeatThreads
  <2>2. /\ UNCHANGED <<queueOnDisk, errors, list, count, gotEvents, gotErrors, events, done, ticks>>
        /\ heap' = Append(heap, queueOnDisk) /\ queue' = Len(heap) + 1
    BY <1>18 DEF BeatCrash, Made, Fresh, stateVars, serverVars
  <2>3. OneBetween'
    BY <2>1 DEF OneBetween, Between, BeatThreads
  <2>4. QueueGrows' /\ TrainingsKept'
    BY <1>3, <2>2, QueueFrame
  <2>5. heap'[queue'] = queueOnDisk
    BY <1>0, <2>2, RereadIs
  <2>6. HeldIsQueue' /\ SentIsFront'
    BY <1>2, <2>1, <2>2, <2>5 DEF HeldIsQueue, SentIsFront
  <2>7. ErrorsHeld' = 0 /\ ErrorsSent' = 0
    BY <1>2, <2>1 DEF ErrorsHeld, ErrorsSent
  <2>8. gotErrors' + errors' + ErrorsSent' + ErrorsHeld' <= ticks'
    <3>1. gotErrors' = gotErrors /\ errors' = errors /\ ticks' = ticks
      BY <2>2
    <3> QED
      BY <1>3n, <1>6, <2>7, <3>1
  <2>9. ErrorsAccounted'
    BY <1>2, <2>1, <2>8 DEF ErrorsAccounted
  <2> QED
    BY <1>1, <2>3, <2>4, <2>6, <2>9 DEF BeatInv
<1> QED
  BY <1>8, <1>9, <1>10, <1>11, <1>12, <1>13, <1>14, <1>15, <1>16, <1>17, <1>18 DEF BeatNext

----------------------------------------------------------------------------
\* So does a step that changes nothing.
LEMMA BeatStepInv ==
  BeatInv /\ OneBetween' /\ [BeatNext]_beatVars => BeatInv'
<1>1. BeatInv /\ UNCHANGED beatVars => BeatInv'
  <2> SUFFICES ASSUME BeatInv, UNCHANGED beatVars PROVE BeatInv'
    OBVIOUS
  <2> USE DEF beatVars, queueVars, stateVars, serverVars, tallies
  <2>1. BeatTypeOK'
    BY DEF BeatInv, BeatTypeOK
  <2>2. OneBetween' /\ QueueGrows' /\ TrainingsKept'
    BY DEF BeatInv, OneBetween, Between, QueueGrows, TrainingsKept, TooOld, Occurs
  <2>3. HeldIsQueue'
    BY DEF BeatInv, HeldIsQueue
  <2>5. SentIsFront'
    <3>1. SentIsFront
      BY DEF BeatInv
    <3>2. /\ hpc' = hpc /\ payload' = payload /\ queueOnDisk' = queueOnDisk /\ heap' = heap
          /\ list' = list /\ gotEvents' = gotEvents /\ events' = events
      OBVIOUS
    <3> QED
      BY Zenon, <3>1, <3>2 DEF SentIsFront, TooOld
  <2>4. ErrorsAccounted'
    BY DEF BeatInv, ErrorsAccounted, ErrorsSent, ErrorsHeld
  <2> QED
    BY <2>1, <2>2, <2>3, <2>4, <2>5 DEF BeatInv
<1> QED
  BY <1>1, BeatStep

\* The inductive invariant of the heartbeat, as long as one thread at a time is between
\* its read and its write: what every thread holds of the queue is the file's queue, or
\* that and the event it records; what a ping sent is the front of the queue or the queue
\* is full; every error is counted once.
LEMMA BeatInvariance ==
  BeatSpec /\ []OneBetween => []BeatInv
BY BeatStepInv, BeatInitInv, PTL DEF BeatSpec

\* TrainingsKept, in the behaviours in which no thread reads the state between another's
\* read and write (OneBetween, which the lock of heartbeat.py 232 does not enforce): a
\* training start that has been recorded reaches the server or waits in the file, or three
\* pings' worth have come since, for any number of events, sends and faults.
THEOREM TrainingsAreKept ==
  BeatSpec /\ []OneBetween => []TrainingsKept
<1>1. BeatInv => TrainingsKept
  BY DEF BeatInv
<1> QED
  BY <1>1, BeatInvariance, PTL

\* The errors a ping took out of the count are in it, or with the server.
LEMMA ErrorsAreCounted == BeatInv => ErrorsNotInvented
<1> SUFFICES ASSUME BeatInv
             PROVE  ErrorsNotInvented
  OBVIOUS
<1>1. /\ gotErrors \in Nat /\ errors \in Nat /\ ticks \in Nat /\ payload.errors \in Nat
      /\ gotErrors + errors + ErrorsSent + ErrorsHeld <= ticks
  BY DEF BeatInv, BeatTypeOK, ErrorsAccounted
<1>2. ErrorsSent \in Nat /\ ErrorsHeld \in Nat
  BY <1>1 DEF ErrorsSent, ErrorsHeld
<1> QED
  BY <1>1, <1>2 DEF ErrorsNotInvented

\* ErrorsNotInvented, in the same behaviours: the server is told of no more errors than
\* there were.  An error recorded while a ping takes the count away would be told twice.
THEOREM ErrorsAreReal ==
  BeatSpec /\ []OneBetween => []ErrorsNotInvented
BY ErrorsAreCounted, BeatInvariance, PTL

-----------------------------------------------------------------------------
(* SynthJob: a dead teacher given up; and no prompt twice, none forgotten, *)
(* unless resumes overlap.                                                 *)

\* The prompts asked are finitely many, and a count of them goes up or down by one.
LEMMA AskedCard ==
  ASSUME NEW S \in SUBSET Asked
  PROVE  /\ Cardinality(S) \in Nat
         /\ \A p \in Asked \ S : Cardinality(S \cup {p}) = Cardinality(S) + 1
         /\ \A p \in S : Cardinality(S \ {p}) = Cardinality(S) - 1
  BY SynthAssumption, FS_Subset, FS_CardinalityType, FS_AddElement, FS_RemoveElement

\* No run has been started, no row written.
LEMMA SynthInitInv == SynthInit => SynthInv
<1> SUFFICES ASSUME SynthInit PROVE SynthInv
  OBVIOUS
<1> USE SynthAssumption DEF SynthInit
<1>0. \A r \in JobRuns : InFlight(r) = {}
  BY DEF InFlight
<1>00. \A r \in JobRuns : Cardinality(InFlight(r)) = 0
  BY <1>0, FS_EmptySet
<1>1. SynthTypeOK
  <2>0. Workers \in Nat
    OBVIOUS
  <2>1. \A r \in JobRuns : Cardinality(InFlight(r)) <= Workers /\ batch[r] \subseteq InFlight(r)
    <3>1. \A r \in JobRuns : batch[r] \subseteq InFlight(r)
      OBVIOUS
    <3> QED
      BY <1>0, <1>00, <2>0, <3>1, FS_EmptySet
  <2>2. job \in 0 .. runs /\ runs \in 0 .. MaxResumes
    OBVIOUS
  <2> QED
    BY <2>1, <2>2 DEF SynthTypeOK
<1>2. OneWriter
  BY DEF OneWriter, JobRuns
<1>3. \A r \in JobRuns : Phases(r) /\ StillToDo(r) /\ StreakEnds(r)
  <2>1. \A r \in JobRuns : StillToDo(r) /\ StreakEnds(r)
    BY <1>0, <1>00 DEF StillToDo, StreakEnds
  <2>2. \A r \in JobRuns : r > 0
    BY DEF JobRuns
  <2> QED
    BY <1>0, <2>1, <2>2 DEF Phases
<1>4. OneRowPerPrompt /\ NothingForgotten
  BY DEF OneRowPerPrompt, NothingForgotten
<1> QED
  BY <1>1, <1>2, <1>3, <1>4 DEF SynthInv, TeacherInv

\* Every statement of a run, a worker or the user keeps the types, the phases and the
\* bound on the streak, whether or not resumes overlap.
LEMMA TeacherStep ==
  ASSUME TeacherInv, [SynthNext]_synthVars
  PROVE  TeacherInv'
<1> USE DEF TeacherInv, synthVars, diskS, runS
<1>0. \A q \in JobRuns : InFlight(q) \in SUBSET Asked /\ Cardinality(InFlight(q)) \in Nat
  BY AskedCard DEF InFlight
<1>00. /\ Workers \in Nat /\ Streak \in Nat /\ MaxResumes \in Nat
       /\ Workers > 0 /\ Streak > 0 /\ NoAnswer \notin Answers
       /\ {"no", "call", "bad"} \cap Answers = {}
  BY SynthAssumption
<1>1. ASSUME NEW t \in Posters, ResumeLooks(t) PROVE TeacherInv'
  <2>0. \A q \in JobRuns : InFlight(q)' = InFlight(q)
    BY <1>1 DEF ResumeLooks, InFlight
  <2>1. SynthTypeOK'
    BY <1>1, <1>0, <1>00, <2>0 DEF SynthTypeOK, ResumeLooks, MayCall, Step, RunAlive
  <2>3. (\A q \in JobRuns : Phases(q))'
    BY <1>1, <1>0, <1>00, <2>0 DEF Phases, SynthTypeOK, ResumeLooks, MayCall, Step, RunAlive
  <2>5. (\A q \in JobRuns : StreakEnds(q))'
    BY <1>1, <1>0, <1>00, <2>0 DEF StreakEnds, SynthTypeOK, ResumeLooks, MayCall, Step, RunAlive
  <2> QED
    BY <2>1, <2>3, <2>5
<1>2. ASSUME NEW t \in Posters, ResumeRegisters(t) PROVE TeacherInv'
  <2>0. \A q \in JobRuns : InFlight(q)' = InFlight(q)
    BY <1>2 DEF ResumeRegisters, InFlight
  <2>1. SynthTypeOK'
    <3>1. runs \in Nat /\ runs' = runs + 1 /\ runs' \in JobRuns /\ runs' \in 0 .. MaxResumes /\ job' \in 0 .. runs'
        BY <1>00, <1>2 DEF ResumeRegisters, SynthTypeOK, JobRuns
      <3> QED
        BY <1>0, <1>2, <2>0, <3>1 DEF ResumeRegisters, Step, SynthTypeOK
  <2>3. (\A q \in JobRuns : Phases(q))'
    <3>0. PICK n \in JobRuns : n = runs'
      BY <1>00, <1>2 DEF ResumeRegisters, SynthTypeOK, JobRuns
    <3>1. /\ runs \in Nat /\ runs' = n /\ n = runs + 1 /\ runPc' = [runPc EXCEPT ![n] = "open"]
          /\ UNCHANGED <<kept, failed, streak, batch, queueOf>>
      BY <1>00, <1>2, <3>0 DEF ResumeRegisters, SynthTypeOK, JobRuns
    <3>2. \A q \in JobRuns : q \in Int /\ (q > n <=> q > runs /\ q # n)
      BY <3>1 DEF JobRuns
    <3>3. n > runs
      BY <3>1
    <3>4. \A q \in JobRuns : runPc'[q] = IF q = n THEN "open" ELSE runPc[q]
      BY <3>1 DEF SynthTypeOK
    <3>5. runPc[n] = "off"
      BY <3>0, <3>1, <3>3 DEF Phases
    <3>6. Phases(n)'
      BY <2>0, <3>0, <3>1, <3>2, <3>4, <3>5 DEF Phases
    <3>7. \A q \in JobRuns \ {n} : Phases(q)'
      BY <2>0, <3>1, <3>2, <3>4 DEF Phases
    <3> QED
      BY <3>6, <3>7
  <2>5. (\A q \in JobRuns : StreakEnds(q))'
    BY <1>2, <1>0, <1>00, <2>0 DEF StreakEnds, SynthTypeOK, ResumeRegisters, Step
  <2> QED
    BY <2>1, <2>3, <2>5
<1>3. ASSUME NEW t \in Posters, StopJob(t) PROVE TeacherInv'
  <2>0. \A q \in JobRuns : InFlight(q)' = InFlight(q)
    BY <1>3 DEF StopJob, InFlight
  <2>1. SynthTypeOK'
    <3>1. stopped' \in [JobRuns -> BOOLEAN]
        BY <1>3 DEF StopJob, SynthTypeOK
      <3> QED
        BY <1>0, <1>3, <2>0, <3>1 DEF StopJob, SynthTypeOK
  <2>3. (\A q \in JobRuns : Phases(q))'
    BY <1>3, <1>0, <1>00, <2>0 DEF Phases, SynthTypeOK, StopJob, MayCall
  <2>5. (\A q \in JobRuns : StreakEnds(q))'
    BY <1>3, <1>0, <1>00, <2>0 DEF StreakEnds, SynthTypeOK, StopJob, MayCall
  <2> QED
    BY <2>1, <2>3, <2>5
<1>4. ASSUME NEW t \in Posters, DeleteLooks(t) PROVE TeacherInv'
  <2>0. \A q \in JobRuns : InFlight(q)' = InFlight(q)
    BY <1>4 DEF DeleteLooks, InFlight
  <2>1. SynthTypeOK'
    BY <1>4, <1>0, <1>00, <2>0 DEF SynthTypeOK, DeleteLooks, MayCall, Step, RunAlive
  <2>3. (\A q \in JobRuns : Phases(q))'
    BY <1>4, <1>0, <1>00, <2>0 DEF Phases, SynthTypeOK, DeleteLooks, MayCall, Step, RunAlive
  <2>5. (\A q \in JobRuns : StreakEnds(q))'
    BY <1>4, <1>0, <1>00, <2>0 DEF StreakEnds, SynthTypeOK, DeleteLooks, MayCall, Step, RunAlive
  <2> QED
    BY <2>1, <2>3, <2>5
<1>5. ASSUME NEW t \in Posters, DeleteRemoves(t) PROVE TeacherInv'
  <2>0. \A q \in JobRuns : InFlight(q)' = InFlight(q)
    BY <1>5 DEF DeleteRemoves, InFlight
  <2>1. SynthTypeOK'
    BY <1>5, <1>0, <1>00, <2>0 DEF SynthTypeOK, DeleteRemoves, Step
  <2>3. (\A q \in JobRuns : Phases(q))'
    BY <1>5, <1>0, <1>00, <2>0 DEF Phases, SynthTypeOK, DeleteRemoves, Step
  <2>5. (\A q \in JobRuns : StreakEnds(q))'
    BY <1>5, <1>0, <1>00, <2>0 DEF StreakEnds, SynthTypeOK, DeleteRemoves, Step
  <2> QED
    BY <2>1, <2>3, <2>5
<1>6. ASSUME NEW t \in Posters, DeleteForgets(t) PROVE TeacherInv'
  <2>0. \A q \in JobRuns : InFlight(q)' = InFlight(q)
    BY <1>6 DEF DeleteForgets, InFlight
  <2>1. SynthTypeOK'
    BY <1>6, <1>0, <1>00, <2>0 DEF SynthTypeOK, DeleteForgets, Step
  <2>3. (\A q \in JobRuns : Phases(q))'
    BY <1>6, <1>0, <1>00, <2>0 DEF Phases, SynthTypeOK, DeleteForgets, Step
  <2>5. (\A q \in JobRuns : StreakEnds(q))'
    BY <1>6, <1>0, <1>00, <2>0 DEF StreakEnds, SynthTypeOK, DeleteForgets, Step
  <2> QED
    BY <2>1, <2>3, <2>5
<1>7. ASSUME NEW r \in JobRuns, Opens(r) PROVE TeacherInv'
  <2>0. \A q \in JobRuns : InFlight(q)' = InFlight(q)
    BY <1>7 DEF Opens, InFlight
  <2>1. SynthTypeOK'
    BY <1>7, <1>0, <1>00, <2>0 DEF SynthTypeOK, Opens
  <2>3. (\A q \in JobRuns : Phases(q))'
    BY <1>7, <1>0, <1>00, <2>0 DEF Phases, SynthTypeOK, Opens
  <2>5. (\A q \in JobRuns : StreakEnds(q))'
    BY <1>7, <1>0, <1>00, <2>0 DEF StreakEnds, SynthTypeOK, Opens
  <2> QED
    BY <2>1, <2>3, <2>5
<1>8. ASSUME NEW r \in JobRuns, Waits(r) PROVE TeacherInv'
  <2>0. \A q \in JobRuns : InFlight(q)' = InFlight(q)
    BY <1>8 DEF Waits, InFlight
  <2>1. SynthTypeOK'
    <3>1. batch' \in [JobRuns -> SUBSET Asked]
      BY <1>8 DEF Waits, SynthTypeOK
    <3>2. \A q \in JobRuns : batch'[q] \subseteq InFlight(q)
      BY <1>8, <1>00 DEF Waits, SynthTypeOK, InFlight
    <3> QED
      BY <1>8, <2>0, <3>1, <3>2 DEF Waits, SynthTypeOK
  <2>3. (\A q \in JobRuns : Phases(q))'
    BY <1>8, <1>0, <1>00, <2>0 DEF Phases, SynthTypeOK, Waits, Full
  <2>5. (\A q \in JobRuns : StreakEnds(q))'
    BY <1>8, <1>0, <1>00, <2>0 DEF StreakEnds, SynthTypeOK, Waits, Full
  <2> QED
    BY <2>1, <2>3, <2>5
<1>9. ASSUME NEW r \in JobRuns, Finishes(r) PROVE TeacherInv'
  <2>0. \A q \in JobRuns : InFlight(q)' = InFlight(q)
    BY <1>9 DEF Finishes, InFlight
  <2>1. SynthTypeOK'
    BY <1>9, <1>0, <1>00, <2>0 DEF SynthTypeOK, Finishes, Full
  <2>3. (\A q \in JobRuns : Phases(q))'
    BY <1>9, <1>0, <1>00, <2>0 DEF Phases, SynthTypeOK, Finishes, Full
  <2>5. (\A q \in JobRuns : StreakEnds(q))'
    BY <1>9, <1>0, <1>00, <2>0 DEF StreakEnds, SynthTypeOK, Finishes, Full
  <2> QED
    BY <2>1, <2>3, <2>5
<1>10. ASSUME NEW r \in JobRuns, Closes(r) PROVE TeacherInv'
  <2>1a. /\ InFlight(r)' = {} /\ \A q \in JobRuns \ {r} : InFlight(q)' = InFlight(q)
    BY <1>10 DEF Closes, InFlight, SynthTypeOK
  <2>0. /\ InFlight(r)' = {} /\ Cardinality(InFlight(r))' = 0
        /\ \A q \in JobRuns \ {r} : /\ InFlight(q)' = InFlight(q)
                                   /\ Cardinality(InFlight(q))' = Cardinality(InFlight(q))
    BY <2>1a, FS_EmptySet
  <2>1. SynthTypeOK'
    <3>1. \A q \in JobRuns : Cardinality(InFlight(q))' <= Workers /\ batch'[q] \subseteq InFlight(q)'
        <4>0. batch'[r] = {}
          BY <1>10 DEF Closes, Phases
        <4>1. Cardinality(InFlight(r))' <= Workers /\ batch'[r] \subseteq InFlight(r)'
          BY <1>00, <2>0, <4>0
        <4>2. \A q \in JobRuns \ {r} : Cardinality(InFlight(q))' <= Workers /\ batch'[q] \subseteq InFlight(q)'
          BY <1>10, <2>0 DEF Closes, Phases, SynthTypeOK
        <4> QED
          BY <4>1, <4>2
      <3>2. flight' \in [JobRuns -> [Asked -> Answers \cup {"no", "call", "bad"}]]
        BY <1>10 DEF Closes, SynthTypeOK
      <3> QED
        BY <1>10, <3>1, <3>2 DEF Closes, SynthTypeOK
  <2>3. (\A q \in JobRuns : Phases(q))'
    BY <1>10, <1>0, <1>00, <2>0 DEF Phases, SynthTypeOK, Closes
  <2>5. (\A q \in JobRuns : StreakEnds(q))'
    <3>1. UNCHANGED <<streak, stopped>>
        BY <1>10 DEF Closes
      <3>2. StreakEnds(r)'
        BY <1>0, <1>00, <2>0, <3>1 DEF StreakEnds, SynthTypeOK
      <3>3. \A q \in JobRuns \ {r} : StreakEnds(q)'
        BY <2>0, <3>1 DEF StreakEnds
      <3> QED
        BY <3>2, <3>3
  <2> QED
    BY <2>1, <2>3, <2>5
<1>11. ASSUME NEW r \in JobRuns, NEW p \in Asked, Submits(r, p) PROVE TeacherInv'
  <2>00. /\ InFlight(r)' = InFlight(r) \cup {p} /\ p \in Asked \ InFlight(r)
         /\ \A q \in JobRuns \ {r} : InFlight(q)' = InFlight(q)
    <3>1. p \notin InFlight(r)
      BY <1>11 DEF Submits, Phases
    <3>2. PICK a : a # "no" /\ flight' = [flight EXCEPT ![r][p] = a]
      <4>1. CASE cached[p] = NoAnswer
        BY <1>11, <4>1 DEF Submits
      <4>2. CASE cached[p] # NoAnswer
        <5>1. cached[p] \in Answers
          BY <4>2 DEF SynthTypeOK
        <5> QED
          BY <1>00, <1>11, <4>2, <5>1 DEF Submits
      <4> QED
        BY <4>1, <4>2
    <3>3. \A q \in JobRuns, o \in Asked : flight'[q][o] = IF q = r /\ o = p THEN a ELSE flight[q][o]
      BY <3>2 DEF SynthTypeOK
    <3> QED
      BY <3>1, <3>2, <3>3 DEF InFlight
  <2>0. /\ InFlight(r)' = InFlight(r) \cup {p} /\ p \in Asked \ InFlight(r)
        /\ \A q \in JobRuns \ {r} : InFlight(q)' = InFlight(q)
        /\ Cardinality(InFlight(r))' = Cardinality(InFlight(r)) + 1
    BY <1>0, <2>00, AskedCard
  <2>1. SynthTypeOK'
    <3>1. \A q \in JobRuns : Cardinality(InFlight(q))' <= Workers /\ batch'[q] \subseteq InFlight(q)'
        <4>1. Cardinality(InFlight(r))' <= Workers /\ batch'[r] \subseteq InFlight(r)'
          BY <1>0, <1>00, <1>11, <2>0 DEF Submits, SynthTypeOK
        <4>2. \A q \in JobRuns \ {r} : Cardinality(InFlight(q))' <= Workers /\ batch'[q] \subseteq InFlight(q)'
          BY <1>11, <2>0 DEF Submits, SynthTypeOK
        <4> QED
          BY <4>1, <4>2
      <3>2. flight' \in [JobRuns -> [Asked -> Answers \cup {"no", "call", "bad"}]]
        BY <1>11 DEF Submits, SynthTypeOK
      <3> QED
        BY <1>11, <3>1, <3>2 DEF Submits, SynthTypeOK
  <2>3. (\A q \in JobRuns : Phases(q))'
    BY <1>11, <1>0, <1>00, <2>0 DEF Phases, SynthTypeOK, Submits
  <2>5. (\A q \in JobRuns : StreakEnds(q))'
    <3>1. UNCHANGED <<streak, stopped>> /\ ~stopped[r]
        BY <1>11 DEF Submits
      <3>2. StreakEnds(r)'
        BY <1>0, <1>00, <2>0, <3>1 DEF StreakEnds, SynthTypeOK
      <3>3. \A q \in JobRuns \ {r} : StreakEnds(q)'
        BY <2>0, <3>1 DEF StreakEnds
      <3> QED
        BY <3>2, <3>3
  <2> QED
    BY <2>1, <2>3, <2>5
<1>12. ASSUME NEW r \in JobRuns, NEW p \in Asked, Answered(r, p) PROVE TeacherInv'
  <2>0. \A q \in JobRuns : InFlight(q)' = InFlight(q)
    <3>1. PICK a \in Answers : flight' = [flight EXCEPT ![r][p] = a]
      BY <1>12 DEF Answered
    <3>2. \A q \in JobRuns, o \in Asked : flight'[q][o] = IF q = r /\ o = p THEN a ELSE flight[q][o]
      BY <3>1 DEF SynthTypeOK
    <3>3. flight[r][p] = "call" /\ a # "no"
      BY <1>00, <1>12 DEF Answered
    <3> QED
      BY <3>2, <3>3 DEF InFlight
  <2>1. SynthTypeOK'
    BY <1>12, <1>0, <1>00, <2>0 DEF SynthTypeOK, Answered
  <2>3. (\A q \in JobRuns : Phases(q))'
    BY <1>12, <1>0, <1>00, <2>0 DEF Phases, SynthTypeOK, Answered
  <2>5. (\A q \in JobRuns : StreakEnds(q))'
    BY <1>12, <1>0, <1>00, <2>0 DEF StreakEnds, SynthTypeOK, Answered
  <2> QED
    BY <2>1, <2>3, <2>5
<1>13. ASSUME NEW r \in JobRuns, NEW p \in Asked, Refused(r, p) PROVE TeacherInv'
  <2>0. \A q \in JobRuns : InFlight(q)' = InFlight(q)
    BY <1>13 DEF Refused, InFlight, SynthTypeOK
  <2>1. SynthTypeOK'
    BY <1>13, <1>0, <1>00, <2>0 DEF SynthTypeOK, Refused
  <2>3. (\A q \in JobRuns : Phases(q))'
    BY <1>13, <1>0, <1>00, <2>0 DEF Phases, SynthTypeOK, Refused
  <2>5. (\A q \in JobRuns : StreakEnds(q))'
    BY <1>13, <1>0, <1>00, <2>0 DEF StreakEnds, SynthTypeOK, Refused
  <2> QED
    BY <2>1, <2>3, <2>5
<1>14. ASSUME NEW r \in JobRuns, NEW p \in Asked, Keeps(r, p) PROVE TeacherInv'
  <2>000. p \in batch[r] /\ batch[r] \subseteq InFlight(r) /\ flight' = [flight EXCEPT ![r][p] = "no"]
    BY <1>14 DEF Keeps, Handled, SynthTypeOK
  <2>00. /\ InFlight(r)' = InFlight(r) \ {p} /\ p \in InFlight(r)
         /\ \A q \in JobRuns \ {r} : InFlight(q)' = InFlight(q)
    BY <2>000 DEF InFlight, SynthTypeOK
  <2>0. /\ InFlight(r)' = InFlight(r) \ {p} /\ p \in InFlight(r)
        /\ \A q \in JobRuns \ {r} : InFlight(q)' = InFlight(q)
        /\ Cardinality(InFlight(r))' = Cardinality(InFlight(r)) - 1
    BY <1>0, <2>00, AskedCard
  <2>01. runPc[r] = "run" /\ UNCHANGED <<cached, runPc, queueOf, failed>> /\ flight[r][p] \in Answers
    BY <1>14 DEF Keeps, Handled, SynthTypeOK, Phases
  <2>03. \/ flight[r][p] \in kept[r] /\ samples' = samples /\ kept' = kept
         \/ /\ samples' = Append(samples, [id |-> p, answer |-> flight[r][p]])
            /\ kept' = [kept EXCEPT ![r] = @ \cup {flight[r][p]}]
    BY <1>14 DEF Keeps
  <2>1. SynthTypeOK'
    <3>1. \A q \in JobRuns : Cardinality(InFlight(q))' <= Workers /\ batch'[q] \subseteq InFlight(q)'
        <4>1. Cardinality(InFlight(r))' <= Workers /\ batch'[r] \subseteq InFlight(r)'
          BY <1>0, <1>00, <1>14, <2>0 DEF Keeps, Handled, SynthTypeOK
        <4>2. \A q \in JobRuns \ {r} : Cardinality(InFlight(q))' <= Workers /\ batch'[q] \subseteq InFlight(q)'
          BY <1>14, <2>0 DEF Keeps, Handled, SynthTypeOK
        <4> QED
          BY <4>1, <4>2
      <3>2. flight' \in [JobRuns -> [Asked -> Answers \cup {"no", "call", "bad"}]]
        BY <1>14 DEF Keeps, Handled, SynthTypeOK
      <3>3. samples' \in Seq([id : Asked, answer : Answers]) /\ kept' \in [JobRuns -> SUBSET Answers]
        <4>1. /\ samples \in Seq([id : Asked, answer : Answers])
              /\ [id |-> p, answer |-> flight[r][p]] \in [id : Asked, answer : Answers]
          BY <2>01 DEF SynthTypeOK
        <4>2. samples' \in Seq([id : Asked, answer : Answers])
          <5>1. Append(samples, [id |-> p, answer |-> flight[r][p]]) \in Seq([id : Asked, answer : Answers])
            BY <4>1
          <5> QED
            BY <2>03, <4>1, <5>1
        <4>3. kept' \in [JobRuns -> SUBSET Answers]
          <5>1. [kept EXCEPT ![r] = @ \cup {flight[r][p]}] \in [JobRuns -> SUBSET Answers]
            BY <2>01 DEF SynthTypeOK
          <5> QED
            BY <2>03, <5>1 DEF SynthTypeOK
        <4> QED
          BY <4>2, <4>3
      <3>4. leftOnDisk' \subseteq Asked /\ remaining' \in [JobRuns -> SUBSET Asked]
        BY <1>14 DEF Keeps, Handled, SynthTypeOK
      <3>5. batch' \in [JobRuns -> SUBSET Asked] /\ streak' \in [JobRuns -> Nat] /\ processed' \in [JobRuns -> Nat]
        BY <1>14 DEF Keeps, Handled, SynthTypeOK
      <3>6. UNCHANGED <<cached, job, runPc, queueOf, callPc, runs>> /\ UNCHANGED <<failed, stopped>>
        BY <1>14 DEF Keeps, Handled
      <3> QED
        BY <3>1, <3>2, <3>3, <3>4, <3>5, <3>6 DEF SynthTypeOK
  <2>3. (\A q \in JobRuns : Phases(q))'
    BY <1>14, <1>0, <1>00, <2>0 DEF Phases, SynthTypeOK, Keeps, Handled
  <2>5. (\A q \in JobRuns : StreakEnds(q))'
    BY <1>14, <1>0, <1>00, <2>0 DEF StreakEnds, SynthTypeOK, Keeps, Handled
  <2> QED
    BY <2>1, <2>3, <2>5
<1>15. ASSUME NEW r \in JobRuns, NEW p \in Asked, Fails(r, p) PROVE TeacherInv'
  <2>000. p \in batch[r] /\ batch[r] \subseteq InFlight(r) /\ flight' = [flight EXCEPT ![r][p] = "no"]
    BY <1>15 DEF Fails, Handled, SynthTypeOK
  <2>00. /\ InFlight(r)' = InFlight(r) \ {p} /\ p \in InFlight(r)
         /\ \A q \in JobRuns \ {r} : InFlight(q)' = InFlight(q)
    BY <2>000 DEF InFlight, SynthTypeOK
  <2>0. /\ InFlight(r)' = InFlight(r) \ {p} /\ p \in InFlight(r)
        /\ \A q \in JobRuns \ {r} : InFlight(q)' = InFlight(q)
        /\ Cardinality(InFlight(r))' = Cardinality(InFlight(r)) - 1
    BY <1>0, <2>00, AskedCard
  <2>1. SynthTypeOK'
    <3>1. \A q \in JobRuns : Cardinality(InFlight(q))' <= Workers /\ batch'[q] \subseteq InFlight(q)'
        <4>1. Cardinality(InFlight(r))' <= Workers /\ batch'[r] \subseteq InFlight(r)'
          BY <1>0, <1>00, <1>15, <2>0 DEF Fails, Handled, SynthTypeOK
        <4>2. \A q \in JobRuns \ {r} : Cardinality(InFlight(q))' <= Workers /\ batch'[q] \subseteq InFlight(q)'
          BY <1>15, <2>0 DEF Fails, Handled, SynthTypeOK
        <4> QED
          BY <4>1, <4>2
      <3>2. flight' \in [JobRuns -> [Asked -> Answers \cup {"no", "call", "bad"}]]
        BY <1>15 DEF Fails, Handled, SynthTypeOK
      <3>3. stopped' \in [JobRuns -> BOOLEAN]
        BY <1>15, Zenon DEF Fails, SynthTypeOK
      <3>4. remaining' \in [JobRuns -> SUBSET Asked] /\ failed' \in [JobRuns -> SUBSET Asked]
        BY <1>15 DEF Fails, Handled, SynthTypeOK
      <3>5. batch' \in [JobRuns -> SUBSET Asked] /\ streak' \in [JobRuns -> Nat] /\ processed' \in [JobRuns -> Nat]
        BY <1>15 DEF Fails, Handled, SynthTypeOK
      <3>6. UNCHANGED <<cached, job, runPc, queueOf, callPc, runs>> /\ UNCHANGED <<samples, leftOnDisk, kept>>
        BY <1>15 DEF Fails, Handled
      <3> QED
        BY <3>1, <3>2, <3>3, <3>4, <3>5, <3>6 DEF SynthTypeOK
  <2>3. (\A q \in JobRuns : Phases(q))'
    BY <1>15, <1>0, <1>00, <2>0 DEF Phases, SynthTypeOK, Fails, Handled
  <2>5. (\A q \in JobRuns : StreakEnds(q))'
    <3>1. /\ streak'[r] = streak[r] + 1 /\ streak[r] \in Nat
            /\ stopped'[r] = (stopped[r] \/ TooMany(streak[r] + 1, Cardinality(failed'[r]), processed[r] + 1))
        BY <1>15 DEF Fails, SynthTypeOK
      <3>2. \A q \in JobRuns \ {r} : streak'[q] = streak[q] /\ stopped'[q] = stopped[q]
        BY <1>15 DEF Fails, SynthTypeOK
      <3>3. ~stopped'[r] => streak'[r] < Streak
        <4>1. ~stopped'[r] => ~ (streak[r] + 1 >= Streak)
          BY <3>1, Zenon DEF TooMany
        <4> QED
          BY <1>00, <3>1, <4>1
      <3>4. Cardinality(InFlight(r)) \in Nat /\ Cardinality(InFlight(r)) <= Workers
        BY <1>0 DEF SynthTypeOK
      <3>5. streak'[r] >= Streak => streak'[r] + Cardinality(InFlight(r))' < Streak + Workers
        BY <1>00, <2>0, <3>1, <3>4 DEF StreakEnds
      <3> QED
        BY <2>0, <3>2, <3>3, <3>5 DEF StreakEnds
  <2> QED
    BY <2>1, <2>3, <2>5
<1>16. CASE SynthCrash
  <2>00. \A q \in JobRuns : InFlight(q)' = {}
    BY <1>16 DEF SynthCrash, InFlight
  <2>0. \A q \in JobRuns : InFlight(q)' = {} /\ Cardinality(InFlight(q))' = 0
    BY <2>00, FS_EmptySet
  <2>1. SynthTypeOK'
    <3>1. \A q \in JobRuns : Cardinality(InFlight(q))' <= Workers /\ batch'[q] \subseteq InFlight(q)'
        BY <1>00, <1>16, <2>0 DEF SynthCrash
      <3>2. runPc' \in [JobRuns -> {"off", "open", "run", "closing", "end"}] /\ job' \in 0 .. runs'
        BY <1>16 DEF SynthCrash, SynthTypeOK
      <3> QED
        BY <1>16, <3>1, <3>2 DEF SynthCrash, SynthTypeOK
  <2>3. (\A q \in JobRuns : Phases(q))'
    BY <1>16, <1>0, <1>00, <2>0 DEF Phases, SynthTypeOK, SynthCrash
  <2>5. (\A q \in JobRuns : StreakEnds(q))'
    BY <1>16, <1>0, <1>00, <2>0 DEF StreakEnds, Phases, SynthTypeOK, JobRuns, SynthCrash
  <2> QED
    BY <2>1, <2>3, <2>5
<1>17. CASE UNCHANGED synthVars
  <2>0. \A q \in JobRuns : InFlight(q)' = InFlight(q)
    BY <1>17 DEF InFlight
  <2> QED
    BY <1>17, <2>0 DEF SynthTypeOK, Phases, StreakEnds
<1> QED
  BY <1>1, <1>2, <1>3, <1>4, <1>5, <1>6, <1>7, <1>8, <1>9, <1>10, <1>11, <1>12, <1>13, <1>14,
     <1>15, <1>16, <1>17 DEF SynthNext

\* Every statement keeps that one run writes and what it has still to do, as long as no
\* two requests to resume are at work together.
LEMMA SynthStep ==
  ASSUME SynthInv, OneCall, OneCall', TeacherInv', [SynthNext]_synthVars
  PROVE  SynthInv'
<1> USE DEF SynthInv, TeacherInv, synthVars, diskS, runS
<1>0. \A q \in JobRuns : InFlight(q) \in SUBSET Asked /\ Cardinality(InFlight(q)) \in Nat
  BY AskedCard DEF InFlight
<1>00. /\ Workers \in Nat /\ Streak \in Nat /\ MaxResumes \in Nat
       /\ Workers > 0 /\ Streak > 0 /\ NoAnswer \notin Answers
       /\ {"no", "call", "bad"} \cap Answers = {}
  BY SynthAssumption
<1>1. ASSUME NEW t \in Posters, ResumeLooks(t) PROVE SynthInv'
  <2>0. \A q \in JobRuns : InFlight(q)' = InFlight(q)
    BY <1>1 DEF ResumeLooks, InFlight
  <2>2. OneWriter'
    BY <1>1, <1>0, <1>00, <2>0 DEF OneWriter, SynthTypeOK, RunAlive, JobRuns, ResumeLooks,
       MayCall, Step
  <2>4. (\A q \in JobRuns : StillToDo(q))'
    BY <1>1, <1>0, <1>00, <2>0 DEF StillToDo, SynthTypeOK, OneWriter, Done, RowAnswers,
       ResumeLooks, MayCall, Step, RunAlive
  <2>6. OneRowPerPrompt'
    BY <1>1, <1>0, <1>00, <2>0 DEF OneRowPerPrompt, ResumeLooks, MayCall, Step, RunAlive
  <2>7. NothingForgotten'
    BY <1>1, <1>0, <1>00, <2>0 DEF NothingForgotten, Done, RowAnswers, ResumeLooks, MayCall, Step,
       RunAlive
  <2> HIDE DEF SynthInv, TeacherInv
  <2> QED
    BY <2>2, <2>4, <2>6, <2>7 DEF SynthInv
<1>2. ASSUME NEW t \in Posters, ResumeRegisters(t) PROVE SynthInv'
  <2>0. \A q \in JobRuns : InFlight(q)' = InFlight(q)
    BY <1>2 DEF ResumeRegisters, InFlight
  <2>2. OneWriter'
    <3>1. runs \in Nat /\ runs' = runs + 1 /\ runs' \in JobRuns /\ job' = runs'
      BY <1>00, <1>2 DEF ResumeRegisters, SynthTypeOK, JobRuns
    <3>2. \A q \in JobRuns : runPc[q] \notin {"open", "run", "closing"}
      BY <1>2 DEF ResumeRegisters, OneWriter
    <3>3. \A q \in JobRuns : runPc'[q] = IF q = runs' THEN "open" ELSE runPc[q]
      BY <1>2 DEF ResumeRegisters, SynthTypeOK
    <3>4. \A u \in Posters : callPc'[u] = "idle"
      <4>1. callPc[t] = "register" /\ \A u \in Posters : callPc'[u] = IF u = t THEN "idle" ELSE callPc[u]
        BY <1>2 DEF ResumeRegisters, Step, SynthTypeOK
      <4> QED
        BY <4>1 DEF OneCall
    <3> QED
      BY <3>1, <3>2, <3>3, <3>4 DEF OneWriter
  <2>4. (\A q \in JobRuns : StillToDo(q))'
    BY <1>2, <1>0, <1>00, <2>0 DEF StillToDo, SynthTypeOK, OneWriter, Done, RowAnswers,
       ResumeRegisters, Step
  <2>6. OneRowPerPrompt'
    BY <1>2, <1>0, <1>00, <2>0 DEF OneRowPerPrompt, ResumeRegisters, Step
  <2>7. NothingForgotten'
    BY <1>2, <1>0, <1>00, <2>0 DEF NothingForgotten, Done, RowAnswers, ResumeRegisters, Step
  <2> HIDE DEF SynthInv, TeacherInv
  <2> QED
    BY <2>2, <2>4, <2>6, <2>7 DEF SynthInv
<1>3. ASSUME NEW t \in Posters, StopJob(t) PROVE SynthInv'
  <2>0. \A q \in JobRuns : InFlight(q)' = InFlight(q)
    BY <1>3 DEF StopJob, InFlight
  <2>2. OneWriter'
    BY <1>3, <1>0, <1>00, <2>0 DEF OneWriter, SynthTypeOK, StopJob, MayCall
  <2>4. (\A q \in JobRuns : StillToDo(q))'
    BY <1>3, <1>0, <1>00, <2>0 DEF StillToDo, SynthTypeOK, OneWriter, Done, RowAnswers, StopJob,
       MayCall
  <2>6. OneRowPerPrompt'
    BY <1>3, <1>0, <1>00, <2>0 DEF OneRowPerPrompt, StopJob, MayCall
  <2>7. NothingForgotten'
    BY <1>3, <1>0, <1>00, <2>0 DEF NothingForgotten, Done, RowAnswers, StopJob, MayCall
  <2> HIDE DEF SynthInv, TeacherInv
  <2> QED
    BY <2>2, <2>4, <2>6, <2>7 DEF SynthInv
<1>4. ASSUME NEW t \in Posters, DeleteLooks(t) PROVE SynthInv'
  <2>0. \A q \in JobRuns : InFlight(q)' = InFlight(q)
    BY <1>4 DEF DeleteLooks, InFlight
  <2>1. \A q \in JobRuns : runPc[q] \notin {"open", "run", "closing"}
    <3>1. ~RunAlive(job) /\ \A q \in JobRuns : q # 0
      BY <1>4 DEF DeleteLooks, JobRuns
    <3> QED
      BY <3>1 DEF OneWriter, RunAlive
  <2>2. OneWriter'
    BY <1>4, <2>1 DEF OneWriter, DeleteLooks
  <2>4. (\A q \in JobRuns : StillToDo(q))'
    BY <1>4, <1>0, <1>00, <2>0 DEF StillToDo, SynthTypeOK, OneWriter, Done, RowAnswers,
       DeleteLooks, MayCall, Step, RunAlive
  <2>6. OneRowPerPrompt'
    BY <1>4, <1>0, <1>00, <2>0 DEF OneRowPerPrompt, DeleteLooks, MayCall, Step, RunAlive
  <2>7. NothingForgotten'
    BY <1>4, <1>0, <1>00, <2>0 DEF NothingForgotten, Done, RowAnswers, DeleteLooks, MayCall, Step,
       RunAlive
  <2> HIDE DEF SynthInv, TeacherInv
  <2> QED
    BY <2>2, <2>4, <2>6, <2>7 DEF SynthInv
<1>5. ASSUME NEW t \in Posters, DeleteRemoves(t) PROVE SynthInv'
  <2>0. \A q \in JobRuns : InFlight(q)' = InFlight(q)
    BY <1>5 DEF DeleteRemoves, InFlight
  <2>2. OneWriter'
    BY <1>5, <1>0, <1>00, <2>0 DEF OneWriter, SynthTypeOK, DeleteRemoves, Step
  <2>4. (\A q \in JobRuns : StillToDo(q))'
    <3>1. \A q \in JobRuns : runPc[q] \notin {"run", "closing"} /\ InFlight(q) = {}
      BY <1>5 DEF DeleteRemoves, OneWriter, Phases
    <3>2. \A q \in JobRuns, p \in Asked : flight[q][p] = "no"
      BY <3>1 DEF InFlight
    <3> QED
      BY <1>00, <1>5, <2>0, <3>1, <3>2 DEF DeleteRemoves, StillToDo
  <2>6. OneRowPerPrompt'
    BY <1>5, <1>0, <1>00, <2>0 DEF OneRowPerPrompt, DeleteRemoves, Step
  <2>7. NothingForgotten'
    BY <1>5, <1>0, <1>00, <2>0 DEF NothingForgotten, Done, RowAnswers, SynthTypeOK, OneWriter,
       Phases, StillToDo, DeleteRemoves, Step
  <2> HIDE DEF SynthInv, TeacherInv
  <2> QED
    BY <2>2, <2>4, <2>6, <2>7 DEF SynthInv
<1>6. ASSUME NEW t \in Posters, DeleteForgets(t) PROVE SynthInv'
  <2>0. \A q \in JobRuns : InFlight(q)' = InFlight(q)
    BY <1>6 DEF DeleteForgets, InFlight
  <2>2. OneWriter'
    BY <1>6, <1>0, <1>00, <2>0 DEF OneWriter, SynthTypeOK, DeleteForgets, Step
  <2>4. (\A q \in JobRuns : StillToDo(q))'
    BY <1>6, <1>0, <1>00, <2>0 DEF StillToDo, SynthTypeOK, OneWriter, Done, RowAnswers,
       DeleteForgets, Step
  <2>6. OneRowPerPrompt'
    BY <1>6, <1>0, <1>00, <2>0 DEF OneRowPerPrompt, DeleteForgets, Step
  <2>7. NothingForgotten'
    BY <1>6, <1>0, <1>00, <2>0 DEF NothingForgotten, Done, RowAnswers, DeleteForgets, Step
  <2> HIDE DEF SynthInv, TeacherInv
  <2> QED
    BY <2>2, <2>4, <2>6, <2>7 DEF SynthInv
<1>7. ASSUME NEW r \in JobRuns, Opens(r) PROVE SynthInv'
  <2>0. \A q \in JobRuns : InFlight(q)' = InFlight(q)
    BY <1>7 DEF Opens, InFlight
  <2>2. OneWriter'
    BY <1>7, <1>0, <1>00, <2>0 DEF OneWriter, SynthTypeOK, Opens
  <2>4. (\A q \in JobRuns : StillToDo(q))'
    <3>1. InFlight(r) = {} /\ kept[r] = {} /\ runPc[r] = "open"
        BY <1>7 DEF Opens, Phases
      <3>2. \A q \in JobRuns \ {r} : queueOf'[q] = queueOf[q] /\ remaining'[q] = remaining[q] /\ runPc'[q] = runPc[q]
        BY <1>7 DEF Opens, SynthTypeOK
      <3>3. queueOf'[r] = Asked \ Done /\ remaining'[r] = Asked \ Done
        BY <1>7 DEF Opens, SynthTypeOK
      <3>4. Done' = Done /\ RowAnswers' = RowAnswers /\ UNCHANGED <<kept, flight, cached>>
        BY <1>7 DEF Opens, Done, RowAnswers
      <3> QED
        BY <2>0, <3>1, <3>2, <3>3, <3>4 DEF StillToDo
  <2>6. OneRowPerPrompt'
    BY <1>7, <1>0, <1>00, <2>0 DEF OneRowPerPrompt, Opens
  <2>7. NothingForgotten'
    BY <1>7, <1>0, <1>00, <2>0 DEF NothingForgotten, Done, RowAnswers, SynthTypeOK, OneWriter,
       Phases, StillToDo, Opens
  <2> HIDE DEF SynthInv, TeacherInv
  <2> QED
    BY <2>2, <2>4, <2>6, <2>7 DEF SynthInv
<1>8. ASSUME NEW r \in JobRuns, Waits(r) PROVE SynthInv'
  <2>0. \A q \in JobRuns : InFlight(q)' = InFlight(q)
    BY <1>8 DEF Waits, InFlight
  <2>2. OneWriter'
    BY <1>8, <1>0, <1>00, <2>0 DEF OneWriter, SynthTypeOK, Waits, Full
  <2>4. (\A q \in JobRuns : StillToDo(q))'
    BY <1>8, <1>0, <1>00, <2>0 DEF StillToDo, SynthTypeOK, OneWriter, Done, RowAnswers, Waits, Full
  <2>6. OneRowPerPrompt'
    BY <1>8, <1>0, <1>00, <2>0 DEF OneRowPerPrompt, Waits, Full
  <2>7. NothingForgotten'
    BY <1>8, <1>0, <1>00, <2>0 DEF NothingForgotten, Done, RowAnswers, Waits, Full
  <2> HIDE DEF SynthInv, TeacherInv
  <2> QED
    BY <2>2, <2>4, <2>6, <2>7 DEF SynthInv
<1>9. ASSUME NEW r \in JobRuns, Finishes(r) PROVE SynthInv'
  <2>0. \A q \in JobRuns : InFlight(q)' = InFlight(q)
    BY <1>9 DEF Finishes, InFlight
  <2>2. OneWriter'
    BY <1>9, <1>0, <1>00, <2>0 DEF OneWriter, SynthTypeOK, Finishes, Full
  <2>4. (\A q \in JobRuns : StillToDo(q))'
    BY <1>9, <1>0, <1>00, <2>0 DEF StillToDo, SynthTypeOK, OneWriter, Done, RowAnswers, Finishes,
       Full
  <2>6. OneRowPerPrompt'
    BY <1>9, <1>0, <1>00, <2>0 DEF OneRowPerPrompt, Finishes, Full
  <2>7. NothingForgotten'
    BY <1>9, <1>0, <1>00, <2>0 DEF NothingForgotten, Done, RowAnswers, Finishes, Full
  <2> HIDE DEF SynthInv, TeacherInv
  <2> QED
    BY <2>2, <2>4, <2>6, <2>7 DEF SynthInv
<1>10. ASSUME NEW r \in JobRuns, Closes(r) PROVE SynthInv'
  <2>1a. /\ InFlight(r)' = {} /\ \A q \in JobRuns \ {r} : InFlight(q)' = InFlight(q)
    BY <1>10 DEF Closes, InFlight, SynthTypeOK
  <2>0. /\ InFlight(r)' = {} /\ Cardinality(InFlight(r))' = 0
        /\ \A q \in JobRuns \ {r} : /\ InFlight(q)' = InFlight(q)
                                   /\ Cardinality(InFlight(q))' = Cardinality(InFlight(q))
    BY <2>1a, FS_EmptySet
  <2>2. OneWriter'
    BY <1>10, <1>0, <1>00, <2>0 DEF OneWriter, SynthTypeOK, Closes
  <2>4. (\A q \in JobRuns : StillToDo(q))'
    BY <1>10, <1>0, <1>00, <2>0 DEF StillToDo, SynthTypeOK, OneWriter, Done, RowAnswers, Closes
  <2>6. OneRowPerPrompt'
    BY <1>10, <1>0, <1>00, <2>0 DEF OneRowPerPrompt, Closes
  <2>7. NothingForgotten'
    BY <1>10, <1>0, <1>00, <2>0 DEF NothingForgotten, Done, RowAnswers, Closes
  <2> HIDE DEF SynthInv, TeacherInv
  <2> QED
    BY <2>2, <2>4, <2>6, <2>7 DEF SynthInv
<1>11. ASSUME NEW r \in JobRuns, NEW p \in Asked, Submits(r, p) PROVE SynthInv'
  <2>00. /\ InFlight(r)' = InFlight(r) \cup {p} /\ p \in Asked \ InFlight(r)
         /\ \A q \in JobRuns \ {r} : InFlight(q)' = InFlight(q)
    <3>1. p \notin InFlight(r)
      BY <1>11 DEF Submits, Phases
    <3>2. PICK a : a # "no" /\ flight' = [flight EXCEPT ![r][p] = a]
      <4>1. CASE cached[p] = NoAnswer
        BY <1>11, <4>1 DEF Submits
      <4>2. CASE cached[p] # NoAnswer
        <5>1. cached[p] \in Answers
          BY <4>2 DEF SynthTypeOK
        <5> QED
          BY <1>00, <1>11, <4>2, <5>1 DEF Submits
      <4> QED
        BY <4>1, <4>2
    <3>3. \A q \in JobRuns, o \in Asked : flight'[q][o] = IF q = r /\ o = p THEN a ELSE flight[q][o]
      BY <3>2 DEF SynthTypeOK
    <3> QED
      BY <3>1, <3>2, <3>3 DEF InFlight
  <2>0. /\ InFlight(r)' = InFlight(r) \cup {p} /\ p \in Asked \ InFlight(r)
        /\ \A q \in JobRuns \ {r} : InFlight(q)' = InFlight(q)
        /\ Cardinality(InFlight(r))' = Cardinality(InFlight(r)) + 1
    BY <1>0, <2>00, AskedCard
  <2>2. OneWriter'
    BY <1>11, <1>0, <1>00, <2>0 DEF OneWriter, SynthTypeOK, Submits
  <2>4. (\A q \in JobRuns : StillToDo(q))'
    BY <1>11, <1>0, <1>00, <2>0 DEF StillToDo, SynthTypeOK, OneWriter, Done, RowAnswers, Submits
  <2>6. OneRowPerPrompt'
    BY <1>11, <1>0, <1>00, <2>0 DEF OneRowPerPrompt, Submits
  <2>7. NothingForgotten'
    BY <1>11, <1>0, <1>00, <2>0 DEF NothingForgotten, Done, RowAnswers, Submits
  <2> HIDE DEF SynthInv, TeacherInv
  <2> QED
    BY <2>2, <2>4, <2>6, <2>7 DEF SynthInv
<1>12. ASSUME NEW r \in JobRuns, NEW p \in Asked, Answered(r, p) PROVE SynthInv'
  <2>0. \A q \in JobRuns : InFlight(q)' = InFlight(q)
    <3>1. PICK a \in Answers : flight' = [flight EXCEPT ![r][p] = a]
      BY <1>12 DEF Answered
    <3>2. \A q \in JobRuns, o \in Asked : flight'[q][o] = IF q = r /\ o = p THEN a ELSE flight[q][o]
      BY <3>1 DEF SynthTypeOK
    <3>3. flight[r][p] = "call" /\ a # "no"
      BY <1>00, <1>12 DEF Answered
    <3> QED
      BY <3>2, <3>3 DEF InFlight
  <2>2. OneWriter'
    BY <1>12, <1>0, <1>00, <2>0 DEF OneWriter, SynthTypeOK, Answered
  <2>4. (\A q \in JobRuns : StillToDo(q))'
    <3>1. /\ runPc[r] \in {"run", "closing"} /\ flight[r][p] = "call" /\ cached'[p] = flight'[r][p]
          /\ \A o \in Asked \ {p} : cached'[o] = cached[o] /\ flight'[r][o] = flight[r][o]
          /\ \A q \in JobRuns \ {r} : flight'[q] = flight[q]
          /\ UNCHANGED <<samples, runPc, queueOf, remaining, kept>>
      BY <1>12 DEF Answered, SynthTypeOK
    <3>2. \A q \in JobRuns \ {r} : InFlight(q) = {}
      BY <3>1 DEF OneWriter, Phases
    <3>3. Done' = Done /\ RowAnswers' = RowAnswers
      BY <3>1 DEF Done, RowAnswers
    <3>4. \A q \in JobRuns, o \in Asked : flight'[q][o] \in Answers => cached'[o] = flight'[q][o]
      <4>1. \A q \in JobRuns \ {r}, o \in Asked : flight[q][o] = "no"
        BY <3>2 DEF InFlight
      <4>2. \A o \in Asked \ {p} : flight[r][o] \in Answers => cached[o] = flight[r][o]
        BY DEF StillToDo
      <4> QED
        BY <1>00, <3>1, <4>1, <4>2
    <3>5. \A q \in JobRuns : runPc'[q] = runPc[q] /\ queueOf'[q] = queueOf[q] /\ remaining'[q] = remaining[q] /\ kept'[q] = kept[q]
      BY <3>1
    <3> QED
      BY <2>0, <3>3, <3>4, <3>5 DEF StillToDo
  <2>6. OneRowPerPrompt'
    BY <1>12, <1>0, <1>00, <2>0 DEF OneRowPerPrompt, Answered
  <2>7. NothingForgotten'
    <3>1. runPc[r] \in {"run", "closing"} /\ p \in remaining[r] /\ UNCHANGED <<samples, remaining, failed, runPc>>
        BY <1>12 DEF Answered, StillToDo, InFlight
      <3>2. \A q \in JobRuns : runPc[q] \in {"run", "closing"} => q = r
        BY <3>1 DEF OneWriter
      <3>3. \A o \in Asked \ {p} : cached'[o] = cached[o]
        BY <1>12 DEF Answered, SynthTypeOK
      <3>4. Done' = Done /\ RowAnswers' = RowAnswers
        BY <3>1 DEF Done, RowAnswers
      <3> QED
        BY <3>1, <3>2, <3>3, <3>4 DEF NothingForgotten
  <2> HIDE DEF SynthInv, TeacherInv
  <2> QED
    BY <2>2, <2>4, <2>6, <2>7 DEF SynthInv
<1>13. ASSUME NEW r \in JobRuns, NEW p \in Asked, Refused(r, p) PROVE SynthInv'
  <2>0. \A q \in JobRuns : InFlight(q)' = InFlight(q)
    BY <1>13 DEF Refused, InFlight, SynthTypeOK
  <2>2. OneWriter'
    BY <1>13, <1>0, <1>00, <2>0 DEF OneWriter, SynthTypeOK, Refused
  <2>4. (\A q \in JobRuns : StillToDo(q))'
    BY <1>13, <1>0, <1>00, <2>0 DEF StillToDo, SynthTypeOK, OneWriter, Done, RowAnswers, Refused
  <2>6. OneRowPerPrompt'
    BY <1>13, <1>0, <1>00, <2>0 DEF OneRowPerPrompt, Refused
  <2>7. NothingForgotten'
    BY <1>13, <1>0, <1>00, <2>0 DEF NothingForgotten, Done, RowAnswers, Refused
  <2> HIDE DEF SynthInv, TeacherInv
  <2> QED
    BY <2>2, <2>4, <2>6, <2>7 DEF SynthInv
<1>14. ASSUME NEW r \in JobRuns, NEW p \in Asked, Keeps(r, p) PROVE SynthInv'
  <2>000. p \in batch[r] /\ batch[r] \subseteq InFlight(r) /\ flight' = [flight EXCEPT ![r][p] = "no"]
    BY <1>14 DEF Keeps, Handled, SynthTypeOK
  <2>00. /\ InFlight(r)' = InFlight(r) \ {p} /\ p \in InFlight(r)
         /\ \A q \in JobRuns \ {r} : InFlight(q)' = InFlight(q)
    BY <2>000 DEF InFlight, SynthTypeOK
  <2>0. /\ InFlight(r)' = InFlight(r) \ {p} /\ p \in InFlight(r)
        /\ \A q \in JobRuns \ {r} : InFlight(q)' = InFlight(q)
        /\ Cardinality(InFlight(r))' = Cardinality(InFlight(r)) - 1
    BY <1>0, <2>00, AskedCard
  <2>01. /\ runPc[r] = "run" /\ UNCHANGED <<cached, runPc, queueOf, failed>>
         /\ cached[p] = flight[r][p] /\ flight[r][p] \in Answers
         /\ remaining' = [remaining EXCEPT ![r] = @ \ {p}]
    BY <1>14 DEF Keeps, Handled, SynthTypeOK, Phases, StillToDo
  <2>02. p \notin Done /\ p \notin queueOf[r] /\ kept[r] \subseteq RowAnswers
    BY <2>0, <2>01 DEF StillToDo, Phases
  <2>03. \/ flight[r][p] \in kept[r] /\ samples' = samples /\ kept' = kept
         \/ /\ samples' = Append(samples, [id |-> p, answer |-> flight[r][p]])
            /\ kept' = [kept EXCEPT ![r] = @ \cup {flight[r][p]}]
    BY <1>14 DEF Keeps
  <2>04. \/ samples' = samples /\ Done' = Done /\ RowAnswers' = RowAnswers
         \/ Done' = Done \cup {p} /\ RowAnswers' = RowAnswers \cup {flight[r][p]}
    <3>1. CASE samples' = samples
      BY <3>1 DEF Done, RowAnswers
    <3>2. CASE samples' = Append(samples, [id |-> p, answer |-> flight[r][p]])
      <4>1. samples \in Seq([id : Asked, answer : Answers])
        BY DEF SynthTypeOK
      <4>2. /\ Len(samples') = Len(samples) + 1 /\ Len(samples) \in Nat
            /\ samples'[Len(samples) + 1] = [id |-> p, answer |-> flight[r][p]]
            /\ \A i \in 1 .. Len(samples) : samples'[i] = samples[i]
        BY <3>2, <4>1
      <4>3. 1 .. Len(samples') = (1 .. Len(samples)) \cup {Len(samples) + 1}
        BY <4>2
      <4> QED
        BY <4>2, <4>3 DEF Done, RowAnswers
    <3> QED
      BY <2>03, <3>1, <3>2
  <2>05. flight[r][p] \in RowAnswers'
    BY <2>02, <2>03, <2>04
  <2>06. \A q \in JobRuns \ {r} : runPc[q] \notin {"run", "closing"}
    BY <2>01 DEF OneWriter
  <2>2. OneWriter'
    BY <1>14, <1>0, <1>00, <2>0 DEF OneWriter, SynthTypeOK, Keeps, Handled
  <2>4. (\A q \in JobRuns : StillToDo(q))'
    <3>1. \A q \in JobRuns, o \in Asked : flight'[q][o] \in Answers => flight'[q][o] = flight[q][o]
      <4>1. flight' = [flight EXCEPT ![r][p] = "no"]
        BY <1>14 DEF Keeps, Handled
      <4>2. \A q \in JobRuns, o \in Asked : flight'[q][o] = IF q = r /\ o = p THEN "no" ELSE flight[q][o]
        BY <4>1 DEF SynthTypeOK
      <4> QED
        BY <1>00, <4>2
    <3>2. remaining'[r] = remaining[r] \ {p} /\ \A q \in JobRuns \ {r} : remaining'[q] = remaining[q]
      BY <2>01 DEF SynthTypeOK
    <3>3. kept'[r] \subseteq kept[r] \cup {flight[r][p]}
      BY <2>03 DEF SynthTypeOK
    <3>4. RowAnswers \subseteq RowAnswers' /\ Done' \subseteq Done \cup {p}
      BY <2>04
    <3>5. StillToDo(r)'
      BY <2>0, <2>01, <2>02, <2>05, <3>1, <3>2, <3>3, <3>4 DEF StillToDo
    <3>6. \A q \in JobRuns \ {r} : StillToDo(q)'
      BY <2>0, <2>01, <2>06, <3>1, <3>2 DEF StillToDo
    <3> QED
      BY <3>5, <3>6
  <2>6. OneRowPerPrompt'
    <3>1. CASE samples' = samples
        BY <3>1 DEF OneRowPerPrompt
      <3>2. CASE samples' = Append(samples, [id |-> p, answer |-> flight[r][p]])
        <4>1. samples \in Seq([id : Asked, answer : Answers])
          BY DEF SynthTypeOK
        <4>2. /\ Len(samples') = Len(samples) + 1 /\ Len(samples) \in Nat
              /\ samples'[Len(samples) + 1].id = p
              /\ \A i \in 1 .. Len(samples) : samples'[i] = samples[i]
          BY <3>2, <4>1
        <4>3. \A i \in 1 .. Len(samples) : samples[i].id # p
          BY <2>02 DEF Done
        <4> QED
          BY <4>2, <4>3 DEF OneRowPerPrompt
      <3> QED
        BY <2>03, <3>1, <3>2
  <2>7. NothingForgotten'
    <3>1. Done \subseteq Done' /\ RowAnswers \subseteq RowAnswers'
      BY <2>04
    <3>2. remaining[r] \ {p} \subseteq remaining'[r]
      BY <2>01 DEF SynthTypeOK
    <3>3. cached'[p] \in RowAnswers' /\ UNCHANGED <<cached, runPc, failed>>
      BY <2>01, <2>05
    <3> QED
      BY <2>01, <2>06, <3>1, <3>2, <3>3 DEF NothingForgotten
  <2> HIDE DEF SynthInv, TeacherInv
  <2> QED
    BY <2>2, <2>4, <2>6, <2>7 DEF SynthInv
<1>15. ASSUME NEW r \in JobRuns, NEW p \in Asked, Fails(r, p) PROVE SynthInv'
  <2>000. p \in batch[r] /\ batch[r] \subseteq InFlight(r) /\ flight' = [flight EXCEPT ![r][p] = "no"]
    BY <1>15 DEF Fails, Handled, SynthTypeOK
  <2>00. /\ InFlight(r)' = InFlight(r) \ {p} /\ p \in InFlight(r)
         /\ \A q \in JobRuns \ {r} : InFlight(q)' = InFlight(q)
    BY <2>000 DEF InFlight, SynthTypeOK
  <2>0. /\ InFlight(r)' = InFlight(r) \ {p} /\ p \in InFlight(r)
        /\ \A q \in JobRuns \ {r} : InFlight(q)' = InFlight(q)
        /\ Cardinality(InFlight(r))' = Cardinality(InFlight(r)) - 1
    BY <1>0, <2>00, AskedCard
  <2>2. OneWriter'
    BY <1>15, <1>0, <1>00, <2>0 DEF OneWriter, SynthTypeOK, Fails, Handled
  <2>4. (\A q \in JobRuns : StillToDo(q))'
    <3>1. UNCHANGED <<samples, cached, runPc, queueOf, kept>> /\ remaining' = [remaining EXCEPT ![r] = @ \ {p}]
      BY <1>15 DEF Fails, Handled
    <3>2. Done' = Done /\ RowAnswers' = RowAnswers
      BY <3>1 DEF Done, RowAnswers
    <3>3. \A q \in JobRuns, o \in Asked : flight'[q][o] \in Answers => flight'[q][o] = flight[q][o]
      <4>1. flight' = [flight EXCEPT ![r][p] = "no"]
        BY <1>15 DEF Fails, Handled
      <4>2. \A q \in JobRuns, o \in Asked : flight'[q][o] = IF q = r /\ o = p THEN "no" ELSE flight[q][o]
        BY <4>1 DEF SynthTypeOK
      <4> QED
        BY <1>00, <4>2
    <3>4. runPc[r] = "run" => p \notin queueOf[r]
      BY <2>0 DEF Phases
    <3>5. remaining'[r] = remaining[r] \ {p} /\ \A q \in JobRuns \ {r} : remaining'[q] = remaining[q]
      BY <3>1 DEF SynthTypeOK
    <3>6. StillToDo(r)'
      BY <2>0, <3>1, <3>2, <3>3, <3>4, <3>5 DEF StillToDo
    <3>7. \A q \in JobRuns \ {r} : StillToDo(q)'
      BY <2>0, <3>1, <3>2, <3>3, <3>5 DEF StillToDo
    <3> QED
      BY <3>6, <3>7
  <2>6. OneRowPerPrompt'
    BY <1>15, <1>0, <1>00, <2>0 DEF OneRowPerPrompt, Fails, Handled
  <2>7. NothingForgotten'
    <3>1. runPc[r] = "run" /\ UNCHANGED <<samples, cached, runPc>> /\ p \in failed'[r]
        BY <1>15 DEF Fails, Handled, SynthTypeOK, Phases
      <3>2. \A q \in JobRuns \ {r} : runPc[q] \notin {"run", "closing"}
        BY <3>1 DEF OneWriter
      <3>3. Done' = Done /\ RowAnswers' = RowAnswers
        BY <3>1 DEF Done, RowAnswers
      <3>4. remaining[r] \ {p} \subseteq remaining'[r] /\ failed[r] \subseteq failed'[r]
        BY <1>15 DEF Fails, Handled, SynthTypeOK
      <3> QED
        BY <3>1, <3>2, <3>3, <3>4 DEF NothingForgotten
  <2> HIDE DEF SynthInv, TeacherInv
  <2> QED
    BY <2>2, <2>4, <2>6, <2>7 DEF SynthInv
<1>16. CASE SynthCrash
  <2>00. \A q \in JobRuns : InFlight(q)' = {}
    BY <1>16 DEF SynthCrash, InFlight
  <2>0. \A q \in JobRuns : InFlight(q)' = {} /\ Cardinality(InFlight(q))' = 0
    BY <2>00, FS_EmptySet
  <2>2. OneWriter'
    BY <1>16, <1>0, <1>00, <2>0 DEF OneWriter, SynthTypeOK, SynthCrash
  <2>4. (\A q \in JobRuns : StillToDo(q))'
    BY <1>16, <1>0, <1>00, <2>0 DEF StillToDo, SynthTypeOK, OneWriter, Done, RowAnswers, SynthCrash
  <2>6. OneRowPerPrompt'
    BY <1>16, <1>0, <1>00, <2>0 DEF OneRowPerPrompt, SynthCrash
  <2>7. NothingForgotten'
    BY <1>16, <1>0, <1>00, <2>0 DEF NothingForgotten, Done, RowAnswers, SynthCrash
  <2> HIDE DEF SynthInv, TeacherInv
  <2> QED
    BY <2>2, <2>4, <2>6, <2>7 DEF SynthInv
<1>17. CASE UNCHANGED synthVars
  <2>0. \A q \in JobRuns : InFlight(q)' = InFlight(q)
    BY <1>17 DEF InFlight
  <2> QED
    BY <1>17, <2>0 DEF OneWriter, StillToDo, OneRowPerPrompt, NothingForgotten, Done, RowAnswers
<1> HIDE DEF SynthInv, TeacherInv
<1> QED
  BY <1>1, <1>2, <1>3, <1>4, <1>5, <1>6, <1>7, <1>8, <1>9, <1>10, <1>11, <1>12, <1>13, <1>14,
     <1>15, <1>16, <1>17 DEF SynthNext

\* The streak is bounded by what was out when it could have ended the run.
LEMMA StreakIsShort == TeacherInv => GivesUp
<1> SUFFICES ASSUME TeacherInv, NEW r \in JobRuns PROVE streak[r] < Streak + Workers
  BY DEF GivesUp
<1>1. Streak \in Nat /\ Workers \in Nat /\ Workers > 0
  BY SynthAssumption
<1>2. streak[r] \in Nat
  BY DEF TeacherInv, SynthTypeOK
<1>3. Cardinality(InFlight(r)) \in Nat
  BY AskedCard DEF InFlight
<1> QED
  BY <1>1, <1>2, <1>3 DEF TeacherInv, StreakEnds

\* TeacherIsGivenUp: no run counts more failures in a row than the streak that ends it
\* and the calls that were out then (synth.py 247-274), whatever resumes overlap.
THEOREM TeacherIsGivenUp == SynthSpec => []GivesUp
<1>1. TeacherInv => GivesUp
  BY StreakIsShort
<1>2. SynthInit => TeacherInv
  BY SynthInitInv DEF SynthInv
<1>3. TeacherInv /\ [SynthNext]_synthVars => TeacherInv'
  BY TeacherStep
<1> QED
  BY <1>1, <1>2, <1>3, PTL DEF SynthSpec

\* The invariant of the job, as long as no two requests to resume overlap (OneCall): one
\* run writes, and what it has still to do is what it was asked less what has a row.
LEMMA SynthInvariance == SynthSpec /\ []OneCall => []SynthInv
<1>1. SynthInv /\ OneCall /\ OneCall' /\ [SynthNext]_synthVars => SynthInv'
  BY SynthStep, TeacherStep DEF SynthInv
<1> QED
  BY <1>1, SynthInitInv, PTL DEF SynthSpec

\* RowsAreUnique: as long as no two requests to resume are between their look and their
\* registration together (OneCall, which no lock ensures: teacher_routes.py 341-365), a
\* prompt has at most one row, through stops, kills and resumes.
THEOREM RowsAreUnique == SynthSpec /\ []OneCall => []OneRowPerPrompt
<1>1. SynthInv => OneRowPerPrompt
  BY DEF SynthInv
<1> QED
  BY <1>1, SynthInvariance, PTL

\* PromptsAreKept: under the same hypothesis, a run loses no prompt it took on.
THEOREM PromptsAreKept == SynthSpec /\ []OneCall => []NothingForgotten
<1>1. SynthInv => NothingForgotten
  BY DEF SynthInv
<1> QED
  BY <1>1, SynthInvariance, PTL

-----------------------------------------------------------------------------
(* TrainRun: what a run leaves behind, for any interval, kills and runs    *)
(* from scratch.                                                           *)

\* The first part of a row is its step.
LEMMA RowParts ==
  \A row \in Rows : row[1] \in Steps /\ row[2] \in {"train", "val"} /\ row = <<row[1], row[2]>>
BY DEF Rows

\* Nothing there is: RunInv holds at the start.
LEMMA RunInitInv == RunInit => RunInv
<1> SUFFICES ASSUME RunInit PROVE RunInv
  OBVIOUS
<1>1. RunTypeOK
  BY RunAssumption DEF RunInit, RunTypeOK, Files, Blank, NoRows, Dirs
<1>2. /\ CheckpointsWhole /\ Ahead /\ WrittenFirst /\ ForkInv /\ ForkHasItsRow
      /\ LoggedFirst
  BY DEF RunInit, Blank, CheckpointsWhole, Ahead, Training, WrittenFirst, LoggedFirst, ForkInv,
         ForkHasItsRow, Saved, Dirs
<1> QED
  BY <1>1, <1>2 DEF RunInv

\* Every step of the trainer and of the fork keeps RunInv.
LEMMA RunStepInv ==
  ASSUME RunInv, [RunNext]_runVars
  PROVE  RunInv'
<1> USE DEF RunInv, runVars, dirVars, trainer, forkVars
<1>0. /\ Total \in Nat \ {0} /\ MaxKills \in Nat /\ MaxNaNs \in Nat /\ MaxScratches \in Nat
      /\ 1 \in Steps /\ \A row \in Rows : row[1] \in Steps
  BY RunAssumption, RowParts DEF Steps
<1>1. CASE UNCHANGED runVars
  BY <1>1 DEF RunTypeOK, Files, CheckpointsWhole, Ahead, Training, PutBeside, WrittenFirst,
     LoggedFirst,
              Logged, ForkInv, ForkHasItsRow, Saved
<1>2. ASSUME NEW d \in Dirs, StartScratch(d) PROVE RunInv'
  <2>1. RunTypeOK'
    BY <1>2, <1>0 DEF RunTypeOK, Files, Blank, NoRows, Steps, Dirs, StartScratch
  <2>2. CheckpointsWhole'
    BY <1>2, <1>0 DEF CheckpointsWhole, RunTypeOK, Files, Blank, WrittenFirst, StartScratch
  <2>3. Ahead'
    BY <1>2, <1>0 DEF Ahead, Training, PutBeside, Saved, ForkInv, RunTypeOK, Files, Blank, Steps,
       Dirs, StartScratch
  <2>4. WrittenFirst'
    BY <1>2, <1>0 DEF WrittenFirst, RunTypeOK, Files, Ahead, Training, Blank, Steps, Dirs,
       StartScratch
  <2>5. LoggedFirst'
    BY <1>2, <1>0 DEF LoggedFirst, Logged, Saved, RunTypeOK, Files, Ahead, Training, Dirs,
       StartScratch
  <2>6. ForkInv'
    BY <1>2, <1>0 DEF ForkInv, Saved, RunTypeOK, Files, Blank, Ahead, Training, Steps, Dirs,
       StartScratch
  <2>7. ForkHasItsRow'
    BY <1>2, <1>0 DEF ForkHasItsRow, Logged, StartScratch
  <2> QED
    BY <2>1, <2>2, <2>3, <2>4, <2>5, <2>6, <2>7
<1>3. ASSUME NEW d \in Dirs, Resume(d) PROVE RunInv'
  <2>1. RunTypeOK'
    BY <1>3, <1>0 DEF RunTypeOK, Files, Blank, NoRows, Steps, Dirs, Resume, Newest
  <2>2. CheckpointsWhole'
    BY <1>3, <1>0 DEF CheckpointsWhole, RunTypeOK, Files, Blank, WrittenFirst, Resume, Newest
  <2>3. Ahead'
    BY <1>3, <1>0 DEF Ahead, Training, PutBeside, Saved, ForkInv, RunTypeOK, Files, Blank, Steps,
       Dirs, Resume, Newest
  <2>4. WrittenFirst'
    BY <1>3, <1>0 DEF WrittenFirst, RunTypeOK, Files, Ahead, Training, Blank, Steps, Dirs, Resume,
       Newest
  <2>5. LoggedFirst'
    BY <1>3, <1>0 DEF LoggedFirst, Logged, Saved, RunTypeOK, Files, Ahead, Training, Dirs, Resume,
       Newest
  <2>6. ForkInv'
    BY <1>3, <1>0 DEF ForkInv, Saved, RunTypeOK, Files, Blank, Ahead, Training, Steps, Dirs,
       Resume, Newest
  <2>7. ForkHasItsRow'
    BY <1>3, <1>0 DEF ForkHasItsRow, Logged, Resume, Newest
  <2> QED
    BY <2>1, <2>2, <2>3, <2>4, <2>5, <2>6, <2>7
<1>4. CASE Trains
  <2>1. RunTypeOK'
    BY <1>4, <1>0 DEF RunTypeOK, Files, Blank, NoRows, Steps, Dirs, Trains, Then
  <2>2. CheckpointsWhole'
    BY <1>4, <1>0 DEF CheckpointsWhole, RunTypeOK, Files, Blank, WrittenFirst, Trains, Then
  <2>3. Ahead'
    BY <1>4, <1>0 DEF Ahead, Training, PutBeside, Saved, ForkInv, RunTypeOK, Files, Blank, Steps,
       Dirs, Trains, Then
  <2>4. WrittenFirst'
    BY <1>4, <1>0 DEF WrittenFirst, RunTypeOK, Files, Ahead, Training, Blank, Steps, Dirs, Trains,
       Then
  <2>5. LoggedFirst'
    BY <1>4, <1>0 DEF LoggedFirst, Logged, Saved, RunTypeOK, Files, Ahead, Training, Dirs, Trains,
       Then
  <2>6. ForkInv'
    BY <1>4, <1>0 DEF ForkInv, Saved, RunTypeOK, Files, Blank, Ahead, Training, Steps, Dirs,
       Trains, Then
  <2>7. ForkHasItsRow'
    BY <1>4, <1>0 DEF ForkHasItsRow, Logged, Trains, Then
  <2> QED
    BY <2>1, <2>2, <2>3, <2>4, <2>5, <2>6, <2>7
<1>5. CASE SkipsNaN
  <2>1. RunTypeOK'
    BY <1>5, <1>0 DEF RunTypeOK, Files, Blank, NoRows, Steps, Dirs, SkipsNaN, NextStep
  <2>2. CheckpointsWhole'
    BY <1>5, <1>0 DEF CheckpointsWhole, RunTypeOK, Files, Blank, WrittenFirst, SkipsNaN, NextStep
  <2>3. Ahead'
    BY <1>5, <1>0 DEF Ahead, Training, PutBeside, Saved, ForkInv, RunTypeOK, Files, Blank, Steps,
       Dirs, SkipsNaN, NextStep
  <2>4. WrittenFirst'
    BY <1>5, <1>0 DEF WrittenFirst, RunTypeOK, Files, Ahead, Training, Blank, Steps, Dirs,
       SkipsNaN, NextStep
  <2>5. LoggedFirst'
    BY <1>5, <1>0 DEF LoggedFirst, Logged, Saved, RunTypeOK, Files, Ahead, Training, Dirs,
       SkipsNaN, NextStep
  <2>6. ForkInv'
    BY <1>5, <1>0 DEF ForkInv, Saved, RunTypeOK, Files, Blank, Ahead, Training, Steps, Dirs,
       SkipsNaN, NextStep
  <2>7. ForkHasItsRow'
    BY <1>5, <1>0 DEF ForkHasItsRow, Logged, SkipsNaN, NextStep
  <2> QED
    BY <2>1, <2>2, <2>3, <2>4, <2>5, <2>6, <2>7
<1>6. CASE TrainRow
  <2>0. /\ tstep \in Steps /\ tdir \in Dirs /\ csv' \in [Dirs -> [Rows -> Nat]]
        /\ \A e \in Dirs, row \in Rows : csv'[e][row] >= csv[e][row] /\ csv[e][row] \in Nat
        /\ csv' = csv \/ csv'[tdir][<<tstep, "train">>] > 0
    <3>1. csv \in [Dirs -> [Rows -> Nat]] /\ tdir \in Dirs /\ <<tstep, "train">> \in Rows /\ tstep \in Steps
      BY <1>6 DEF TrainRow, RunTypeOK, Ahead, Training, Rows
    <3>2. /\ [csv[tdir] EXCEPT ![<<tstep, "train">>] = @ + 1] \in [Rows -> Nat]
          /\ csv[tdir][<<tstep, "train">>] + 1 > 0
          /\ csv[tdir][<<tstep, "train">>] + 1 >= csv[tdir][<<tstep, "train">>]
      BY <3>1
    <3>3. csv' = csv \/ csv' = [csv EXCEPT ![tdir] = [csv[tdir] EXCEPT ![<<tstep, "train">>] = @ + 1]]
      BY <1>6 DEF TrainRow, Logs
    <3>4. CASE csv' = csv
      BY <3>1, <3>4
    <3>5. CASE csv' = [csv EXCEPT ![tdir] = [csv[tdir] EXCEPT ![<<tstep, "train">>] = @ + 1]]
      <4>1. PICK n \in Nat : n = csv[tdir][<<tstep, "train">>]
        BY <3>1
      <4>2. csv' = [csv EXCEPT ![tdir] = [csv[tdir] EXCEPT ![<<tstep, "train">>] = n + 1]]
        BY <3>5, <4>1
      <4>3. n + 1 \in Nat /\ n + 1 > 0 /\ n + 1 >= n
        BY <4>1
      <4>4. csv' \in [Dirs -> [Rows -> Nat]] /\ csv'[tdir][<<tstep, "train">>] = n + 1
        BY <3>1, <4>2, <4>3
      <4>5. \A e \in Dirs, row \in Rows :
              \/ csv'[e][row] = csv[e][row]
              \/ csv[e][row] = n /\ csv'[e][row] = n + 1
        BY <3>1, <4>1, <4>2
      <4>6. \A e \in Dirs, row \in Rows : csv[e][row] \in Nat /\ csv[e][row] >= csv[e][row]
        <5>1. \A e \in Dirs, row \in Rows : csv[e][row] \in Nat
          BY <3>1
        <5> QED
          BY <5>1
      <4> QED
        BY <3>1, <4>3, <4>4, <4>5, <4>6
    <3> QED
      BY <3>3, <3>4, <3>5
  <2>1. RunTypeOK'
    BY <1>6, <2>0 DEF RunTypeOK, TrainRow, Then
  <2>2. CheckpointsWhole'
    BY <1>6, <1>0 DEF CheckpointsWhole, RunTypeOK, Files, Blank, WrittenFirst, TrainRow, Then, Logs
  <2>3. Ahead'
    BY <1>6, <1>0 DEF Ahead, Training, PutBeside, Saved, ForkInv, RunTypeOK, Files, Blank, Steps,
       Dirs, TrainRow, Then, Logs
  <2>4. WrittenFirst'
    BY <1>6, <1>0 DEF WrittenFirst, RunTypeOK, Files, Ahead, Training, Blank, Steps, Dirs,
       TrainRow, Then, Logs
  <2>5. LoggedFirst'
    <3>1. \A s \in Steps : Logged("first", s) => Logged("first", s)'
      <4> SUFFICES ASSUME NEW s \in Steps, Logged("first", s) PROVE Logged("first", s)'
        OBVIOUS
      <4>1. \A split \in {"train", "val"} : csv["first"][<<s, split>>] > 0 => csv'["first"][<<s, split>>] > 0
        <5> SUFFICES ASSUME NEW split \in {"train", "val"}, csv["first"][<<s, split>>] > 0
                     PROVE  csv'["first"][<<s, split>>] > 0
          OBVIOUS
        <5>1. /\ csv["first"][<<s, split>>] \in Nat /\ csv'["first"][<<s, split>>] \in Nat
              /\ csv'["first"][<<s, split>>] >= csv["first"][<<s, split>>]
          BY <2>0 DEF Rows, Dirs
        <5> QED
          BY <5>1
      <4> QED
        BY <4>1 DEF Logged
    <3>2. UNCHANGED <<ckpt, tdir, tstep>> /\ tpc' = "val" /\ tpc = "row"
      BY <1>6 DEF TrainRow, Then
    <3>3. tdir = "first" /\ Due(tstep, LogEvery) => csv'["first"][<<tstep, "train">>] > 0
      <4>1. ASSUME tdir = "first", Due(tstep, LogEvery) PROVE csv'["first"][<<tstep, "train">>] > 0
        <5>1. csv' = [csv EXCEPT ![tdir][<<tstep, "train">>] = @ + 1]
          BY <1>6, <4>1 DEF TrainRow, Logs
        <5>2. csv' # csv
          <6>1. csv \in [Dirs -> [Rows -> Nat]] /\ <<tstep, "train">> \in Rows
            BY <2>0 DEF RunTypeOK, Rows
          <6>2. PICK n \in Nat : n = csv[tdir][<<tstep, "train">>]
            BY <2>0, <6>1
          <6>3. csv'[tdir][<<tstep, "train">>] = n + 1
            BY <2>0, <5>1, <6>1, <6>2
          <6> QED
            BY <6>2, <6>3
        <5> QED
          BY <2>0, <4>1, <5>2
      <4> QED
        BY <4>1
    <3> QED
      BY <3>1, <3>2, <3>3 DEF LoggedFirst, Saved
  <2>6. ForkInv'
    BY <1>6, <1>0 DEF ForkInv, Saved, RunTypeOK, Files, Blank, Ahead, Training, Steps, Dirs,
       TrainRow, Then, Logs
  <2>7. ForkHasItsRow'
    <3>1. fstep \in Steps \/ fpc \notin {"config", "forked"}
      BY DEF ForkInv, Saved
    <3>2. UNCHANGED <<fpc, fstep>>
      BY <1>6 DEF TrainRow
    <3>3. ASSUME NEW split \in {"train", "val"}, fstep \in Steps, csv["fork"][<<fstep, split>>] > 0
          PROVE  csv'["fork"][<<fstep, split>>] > 0
      <4>1. /\ csv["fork"][<<fstep, split>>] \in Nat /\ csv'["fork"][<<fstep, split>>] \in Nat
            /\ csv'["fork"][<<fstep, split>>] >= csv["fork"][<<fstep, split>>]
        BY <2>0, <3>3 DEF Rows, Dirs
      <4> QED
        BY <3>3, <4>1
    <3> QED
      BY <3>1, <3>2, <3>3 DEF ForkHasItsRow, Logged
  <2> QED
    BY <2>1, <2>2, <2>3, <2>4, <2>5, <2>6, <2>7
<1>7. CASE ValRow
  <2>0. /\ tstep \in Steps /\ tdir \in Dirs /\ csv' \in [Dirs -> [Rows -> Nat]]
        /\ \A e \in Dirs, row \in Rows : csv'[e][row] >= csv[e][row] /\ csv[e][row] \in Nat
        /\ csv' = csv \/ csv'[tdir][<<tstep, "val">>] > 0
    <3>1. csv \in [Dirs -> [Rows -> Nat]] /\ tdir \in Dirs /\ <<tstep, "val">> \in Rows /\ tstep \in Steps
      BY <1>7 DEF ValRow, RunTypeOK, Ahead, Training, Rows
    <3>2. /\ [csv[tdir] EXCEPT ![<<tstep, "val">>] = @ + 1] \in [Rows -> Nat]
          /\ csv[tdir][<<tstep, "val">>] + 1 > 0
          /\ csv[tdir][<<tstep, "val">>] + 1 >= csv[tdir][<<tstep, "val">>]
      BY <3>1
    <3>3. csv' = csv \/ csv' = [csv EXCEPT ![tdir] = [csv[tdir] EXCEPT ![<<tstep, "val">>] = @ + 1]]
      BY <1>7 DEF ValRow, Logs
    <3>4. CASE csv' = csv
      BY <3>1, <3>4
    <3>5. CASE csv' = [csv EXCEPT ![tdir] = [csv[tdir] EXCEPT ![<<tstep, "val">>] = @ + 1]]
      <4>1. PICK n \in Nat : n = csv[tdir][<<tstep, "val">>]
        BY <3>1
      <4>2. csv' = [csv EXCEPT ![tdir] = [csv[tdir] EXCEPT ![<<tstep, "val">>] = n + 1]]
        BY <3>5, <4>1
      <4>3. n + 1 \in Nat /\ n + 1 > 0 /\ n + 1 >= n
        BY <4>1
      <4>4. csv' \in [Dirs -> [Rows -> Nat]] /\ csv'[tdir][<<tstep, "val">>] = n + 1
        BY <3>1, <4>2, <4>3
      <4>5. \A e \in Dirs, row \in Rows :
              \/ csv'[e][row] = csv[e][row]
              \/ csv[e][row] = n /\ csv'[e][row] = n + 1
        BY <3>1, <4>1, <4>2
      <4>6. \A e \in Dirs, row \in Rows : csv[e][row] \in Nat /\ csv[e][row] >= csv[e][row]
        <5>1. \A e \in Dirs, row \in Rows : csv[e][row] \in Nat
          BY <3>1
        <5> QED
          BY <5>1
      <4> QED
        BY <3>1, <4>3, <4>4, <4>5, <4>6
    <3> QED
      BY <3>3, <3>4, <3>5
  <2>1. RunTypeOK'
    BY <1>7, <2>0 DEF RunTypeOK, ValRow, Then
  <2>2. CheckpointsWhole'
    BY <1>7, <1>0 DEF CheckpointsWhole, RunTypeOK, Files, Blank, WrittenFirst, ValRow, Then, Logs
  <2>3. Ahead'
    BY <1>7, <1>0 DEF Ahead, Training, PutBeside, Saved, ForkInv, RunTypeOK, Files, Blank, Steps,
       Dirs, ValRow, Then, Logs
  <2>4. WrittenFirst'
    BY <1>7, <1>0 DEF WrittenFirst, RunTypeOK, Files, Ahead, Training, Blank, Steps, Dirs, ValRow,
       Then, Logs
  <2>5. LoggedFirst'
    <3>1. \A s \in Steps : Logged("first", s) => Logged("first", s)'
      <4> SUFFICES ASSUME NEW s \in Steps, Logged("first", s) PROVE Logged("first", s)'
        OBVIOUS
      <4>1. \A split \in {"train", "val"} : csv["first"][<<s, split>>] > 0 => csv'["first"][<<s, split>>] > 0
        <5> SUFFICES ASSUME NEW split \in {"train", "val"}, csv["first"][<<s, split>>] > 0
                     PROVE  csv'["first"][<<s, split>>] > 0
          OBVIOUS
        <5>1. /\ csv["first"][<<s, split>>] \in Nat /\ csv'["first"][<<s, split>>] \in Nat
              /\ csv'["first"][<<s, split>>] >= csv["first"][<<s, split>>]
          BY <2>0 DEF Rows, Dirs
        <5> QED
          BY <5>1
      <4> QED
        BY <4>1 DEF Logged
    <3>2. UNCHANGED <<ckpt, tdir, tstep>> /\ tpc' = "save" /\ tpc = "val"
      BY <1>7 DEF ValRow, Then
    <3>3. tdir = "first" => Logged("first", tstep)'
      <4> SUFFICES ASSUME tdir = "first" PROVE Logged("first", tstep)'
        OBVIOUS
      <4>1. Due(tstep, LogEvery) => csv'["first"][<<tstep, "train">>] > 0
        <5>1. /\ csv["first"][<<tstep, "train">>] \in Nat /\ csv'["first"][<<tstep, "train">>] \in Nat
              /\ csv'["first"][<<tstep, "train">>] >= csv["first"][<<tstep, "train">>]
          BY <2>0 DEF Rows, Dirs
        <5>2. Due(tstep, LogEvery) => csv["first"][<<tstep, "train">>] > 0
          BY <3>2 DEF LoggedFirst
        <5> QED
          BY <5>1, <5>2
      <4>2. Due(tstep, EvalEvery) \/ tstep = Total => csv'["first"][<<tstep, "val">>] > 0
        <5>1. ASSUME Due(tstep, EvalEvery) \/ tstep = Total PROVE csv'["first"][<<tstep, "val">>] > 0
          <6>0. csv' = [csv EXCEPT ![tdir][<<tstep, "val">>] = @ + 1]
            BY <1>7, <5>1 DEF ValRow, Logs
          <6>1. csv \in [Dirs -> [Rows -> Nat]] /\ <<tstep, "val">> \in Rows
            BY <2>0 DEF RunTypeOK, Rows
          <6>2. PICK n \in Nat : n = csv[tdir][<<tstep, "val">>]
            BY <2>0, <6>1
          <6>3. csv'[tdir][<<tstep, "val">>] = n + 1
            BY <2>0, <6>0, <6>1, <6>2
          <6> QED
            BY <6>2, <6>3
        <5> QED
          BY <5>1
      <4>3. tstep' = tstep
        BY <3>2
      <4> QED
        BY <4>1, <4>2, <4>3 DEF Logged
    <3> QED
      BY <3>1, <3>2, <3>3 DEF LoggedFirst, Saved
  <2>6. ForkInv'
    BY <1>7, <1>0 DEF ForkInv, Saved, RunTypeOK, Files, Blank, Ahead, Training, Steps, Dirs,
       ValRow, Then, Logs
  <2>7. ForkHasItsRow'
    <3>1. fstep \in Steps \/ fpc \notin {"config", "forked"}
      BY DEF ForkInv, Saved
    <3>2. UNCHANGED <<fpc, fstep>>
      BY <1>7 DEF ValRow
    <3>3. ASSUME NEW split \in {"train", "val"}, fstep \in Steps, csv["fork"][<<fstep, split>>] > 0
          PROVE  csv'["fork"][<<fstep, split>>] > 0
      <4>1. /\ csv["fork"][<<fstep, split>>] \in Nat /\ csv'["fork"][<<fstep, split>>] \in Nat
            /\ csv'["fork"][<<fstep, split>>] >= csv["fork"][<<fstep, split>>]
        BY <2>0, <3>3 DEF Rows, Dirs
      <4> QED
        BY <3>3, <4>1
    <3> QED
      BY <3>1, <3>2, <3>3 DEF ForkHasItsRow, Logged
  <2> QED
    BY <2>1, <2>2, <2>3, <2>4, <2>5, <2>6, <2>7
<1>8. CASE NotDue
  <2>1. RunTypeOK'
    BY <1>8, <1>0 DEF RunTypeOK, Files, Blank, NoRows, Steps, Dirs, NotDue, NextStep
  <2>2. CheckpointsWhole'
    BY <1>8, <1>0 DEF CheckpointsWhole, RunTypeOK, Files, Blank, WrittenFirst, NotDue, NextStep
  <2>3. Ahead'
    BY <1>8, <1>0 DEF Ahead, Training, PutBeside, Saved, ForkInv, RunTypeOK, Files, Blank, Steps,
       Dirs, NotDue, NextStep
  <2>4. WrittenFirst'
    BY <1>8, <1>0 DEF WrittenFirst, RunTypeOK, Files, Ahead, Training, Blank, Steps, Dirs, NotDue,
       NextStep
  <2>5. LoggedFirst'
    BY <1>8, <1>0 DEF LoggedFirst, Logged, Saved, RunTypeOK, Files, Ahead, Training, Dirs, NotDue,
       NextStep
  <2>6. ForkInv'
    BY <1>8, <1>0 DEF ForkInv, Saved, RunTypeOK, Files, Blank, Ahead, Training, Steps, Dirs,
       NotDue, NextStep
  <2>7. ForkHasItsRow'
    BY <1>8, <1>0 DEF ForkHasItsRow, Logged, NotDue, NextStep
  <2> QED
    BY <2>1, <2>2, <2>3, <2>4, <2>5, <2>6, <2>7
<1>9. CASE SaveOpensConfig
  <2>1. RunTypeOK'
    BY <1>9, <1>0 DEF RunTypeOK, Files, Blank, NoRows, Steps, Dirs, SaveOpensConfig, Then
  <2>2. CheckpointsWhole'
    BY <1>9, <1>0 DEF CheckpointsWhole, RunTypeOK, Files, Blank, WrittenFirst, SaveOpensConfig, Then
  <2>3. Ahead'
    BY <1>9, <1>0 DEF Ahead, Training, PutBeside, Saved, ForkInv, RunTypeOK, Files, Blank, Steps,
       Dirs, SaveOpensConfig, Then
  <2>4. WrittenFirst'
    BY <1>9, <1>0 DEF WrittenFirst, RunTypeOK, Files, Ahead, Training, Blank, Steps, Dirs,
       SaveOpensConfig, Then
  <2>5. LoggedFirst'
    BY <1>9, <1>0 DEF LoggedFirst, Logged, Saved, RunTypeOK, Files, Ahead, Training, Dirs,
       SaveOpensConfig, Then
  <2>6. ForkInv'
    BY <1>9, <1>0 DEF ForkInv, Saved, RunTypeOK, Files, Blank, Ahead, Training, Steps, Dirs,
       SaveOpensConfig, Then
  <2>7. ForkHasItsRow'
    BY <1>9, <1>0 DEF ForkHasItsRow, Logged, SaveOpensConfig, Then
  <2> QED
    BY <2>1, <2>2, <2>3, <2>4, <2>5, <2>6, <2>7
<1>10. CASE SaveWritesConfig
  <2>1. RunTypeOK'
    BY <1>10, <1>0 DEF RunTypeOK, Files, Blank, NoRows, Steps, Dirs, SaveWritesConfig, Then
  <2>2. CheckpointsWhole'
    BY <1>10, <1>0 DEF CheckpointsWhole, RunTypeOK, Files, Blank, WrittenFirst, SaveWritesConfig,
       Then
  <2>3. Ahead'
    BY <1>10, <1>0 DEF Ahead, Training, PutBeside, Saved, ForkInv, RunTypeOK, Files, Blank, Steps,
       Dirs, SaveWritesConfig, Then
  <2>4. WrittenFirst'
    BY <1>10, <1>0 DEF WrittenFirst, RunTypeOK, Files, Ahead, Training, Blank, Steps, Dirs,
       SaveWritesConfig, Then
  <2>5. LoggedFirst'
    BY <1>10, <1>0 DEF LoggedFirst, Logged, Saved, RunTypeOK, Files, Ahead, Training, Dirs,
       SaveWritesConfig, Then
  <2>6. ForkInv'
    BY <1>10, <1>0 DEF ForkInv, Saved, RunTypeOK, Files, Blank, Ahead, Training, Steps, Dirs,
       SaveWritesConfig, Then
  <2>7. ForkHasItsRow'
    BY <1>10, <1>0 DEF ForkHasItsRow, Logged, SaveWritesConfig, Then
  <2> QED
    BY <2>1, <2>2, <2>3, <2>4, <2>5, <2>6, <2>7
<1>11. CASE SaveOpensTmp
  <2>1. RunTypeOK'
    BY <1>11, <1>0 DEF RunTypeOK, Files, Blank, NoRows, Steps, Dirs, SaveOpensTmp, Then
  <2>2. CheckpointsWhole'
    BY <1>11, <1>0 DEF CheckpointsWhole, RunTypeOK, Files, Blank, WrittenFirst, SaveOpensTmp, Then
  <2>3. Ahead'
    BY <1>11, <1>0 DEF Ahead, Training, PutBeside, Saved, ForkInv, RunTypeOK, Files, Blank, Steps,
       Dirs, SaveOpensTmp, Then
  <2>4. WrittenFirst'
    BY <1>11, <1>0 DEF WrittenFirst, RunTypeOK, Files, Ahead, Training, Blank, Steps, Dirs,
       SaveOpensTmp, Then
  <2>5. LoggedFirst'
    BY <1>11, <1>0 DEF LoggedFirst, Logged, Saved, RunTypeOK, Files, Ahead, Training, Dirs,
       SaveOpensTmp, Then
  <2>6. ForkInv'
    BY <1>11, <1>0 DEF ForkInv, Saved, RunTypeOK, Files, Blank, Ahead, Training, Steps, Dirs,
       SaveOpensTmp, Then
  <2>7. ForkHasItsRow'
    BY <1>11, <1>0 DEF ForkHasItsRow, Logged, SaveOpensTmp, Then
  <2> QED
    BY <2>1, <2>2, <2>3, <2>4, <2>5, <2>6, <2>7
<1>12. CASE SaveWritesTmp
  <2>1. RunTypeOK'
    BY <1>12, <1>0 DEF RunTypeOK, Files, Blank, NoRows, Steps, Dirs, SaveWritesTmp, Then
  <2>2. CheckpointsWhole'
    BY <1>12, <1>0 DEF CheckpointsWhole, RunTypeOK, Files, Blank, WrittenFirst, SaveWritesTmp, Then
  <2>3. Ahead'
    BY <1>12, <1>0 DEF Ahead, Training, PutBeside, Saved, ForkInv, RunTypeOK, Files, Blank, Steps,
       Dirs, SaveWritesTmp, Then
  <2>4. WrittenFirst'
    BY <1>12, <1>0 DEF WrittenFirst, RunTypeOK, Files, Ahead, Training, Blank, Steps, Dirs,
       SaveWritesTmp, Then
  <2>5. LoggedFirst'
    BY <1>12, <1>0 DEF LoggedFirst, Logged, Saved, RunTypeOK, Files, Ahead, Training, Dirs,
       SaveWritesTmp, Then
  <2>6. ForkInv'
    BY <1>12, <1>0 DEF ForkInv, Saved, RunTypeOK, Files, Blank, Ahead, Training, Steps, Dirs,
       SaveWritesTmp, Then
  <2>7. ForkHasItsRow'
    BY <1>12, <1>0 DEF ForkHasItsRow, Logged, SaveWritesTmp, Then
  <2> QED
    BY <2>1, <2>2, <2>3, <2>4, <2>5, <2>6, <2>7
<1>13. CASE SaveReplaces
  <2>1. RunTypeOK'
    <3>1. tstep \in Steps /\ tdir \in Dirs /\ ckpt \in Files /\ tmp \in Files
      BY <1>13 DEF SaveReplaces, RunTypeOK, Ahead, Training
    <3>2. ckpt' \in Files /\ tmp' \in Files
      BY <1>13, <3>1 DEF SaveReplaces, Files
    <3>3. tstep' \in 0 .. Total /\ tpc' \in {"step", "done"} /\ UNCHANGED <<tdir, tstart>>
      BY <1>13, <3>1, <1>0 DEF SaveReplaces, NextStep, Steps
    <3> QED
      BY <1>13, <3>2, <3>3 DEF SaveReplaces, RunTypeOK
  <2>2. CheckpointsWhole'
    BY <1>13, <1>0 DEF CheckpointsWhole, RunTypeOK, Files, Blank, WrittenFirst, SaveReplaces,
       NextStep
  <2>3. Ahead'
    BY <1>13, <1>0 DEF Ahead, Training, PutBeside, Saved, ForkInv, RunTypeOK, Files, Blank, Steps,
       Dirs, SaveReplaces, NextStep
  <2>4. WrittenFirst'
    BY <1>13, <1>0 DEF WrittenFirst, RunTypeOK, Files, Ahead, Training, Blank, Steps, Dirs,
       SaveReplaces, NextStep
  <2>5. LoggedFirst'
    BY <1>13, <1>0 DEF LoggedFirst, Logged, Saved, RunTypeOK, Files, Ahead, Training, Dirs,
       SaveReplaces, NextStep
  <2>6. ForkInv'
    <3>1. \A d \in Dirs : Saved(d) \subseteq Saved(d)' /\ (d # tdir => Saved(d)' = Saved(d))
      <4>1. ckpt \in Files /\ tmp \in Files /\ tdir \in Dirs /\ tmp[tdir][tstep] # "none"
        BY <1>13 DEF SaveReplaces, RunTypeOK
      <4> QED
        BY <1>13, <4>1 DEF SaveReplaces, Saved, Files
    <3>2. /\ UNCHANGED <<exists, fpc, fstep>> /\ tdir \in exists
          /\ ckpt' = [ckpt EXCEPT ![tdir][tstep] = tmp[tdir][tstep]] /\ ckpt \in Files
          /\ tmp' = [tmp EXCEPT ![tdir][tstep] = "none"] /\ tmp \in Files
      BY <1>13 DEF SaveReplaces, ForkInv, RunTypeOK, Ahead, Training
    <3>3. \A d \in Dirs \ {tdir} : ckpt'[d] = ckpt[d] /\ tmp'[d] = tmp[d]
      BY <3>2 DEF Files
    <3>4. \A d \in Dirs \ exists', s \in Steps : ckpt'[d][s] = "none" /\ tmp'[d][s] = "none"
      BY <3>2, <3>3 DEF ForkInv
    <3>5. "first" \in Dirs
      BY DEF Dirs
    <3> QED
      BY <3>1, <3>2, <3>4, <3>5 DEF ForkInv
  <2>7. ForkHasItsRow'
    BY <1>13, <1>0 DEF ForkHasItsRow, Logged, SaveReplaces, NextStep
  <2> QED
    BY <2>1, <2>2, <2>3, <2>4, <2>5, <2>6, <2>7
<1>14. CASE SaveRaises
  <2>1. RunTypeOK'
    BY <1>14, <1>0 DEF RunTypeOK, Files, Blank, NoRows, Steps, Dirs, SaveRaises, Then
  <2>2. CheckpointsWhole'
    BY <1>14, <1>0 DEF CheckpointsWhole, RunTypeOK, Files, Blank, WrittenFirst, SaveRaises, Then
  <2>3. Ahead'
    BY <1>14, <1>0 DEF Ahead, Training, PutBeside, Saved, ForkInv, RunTypeOK, Files, Blank, Steps,
       Dirs, SaveRaises, Then
  <2>4. WrittenFirst'
    BY <1>14, <1>0 DEF WrittenFirst, RunTypeOK, Files, Ahead, Training, Blank, Steps, Dirs,
       SaveRaises, Then
  <2>5. LoggedFirst'
    BY <1>14, <1>0 DEF LoggedFirst, Logged, Saved, RunTypeOK, Files, Ahead, Training, Dirs,
       SaveRaises, Then
  <2>6. ForkInv'
    BY <1>14, <1>0 DEF ForkInv, Saved, RunTypeOK, Files, Blank, Ahead, Training, Steps, Dirs,
       SaveRaises, Then
  <2>7. ForkHasItsRow'
    BY <1>14, <1>0 DEF ForkHasItsRow, Logged, SaveRaises, Then
  <2> QED
    BY <2>1, <2>2, <2>3, <2>4, <2>5, <2>6, <2>7
<1>15. CASE TrainerKilled
  <2>1. RunTypeOK'
    BY <1>15, <1>0 DEF RunTypeOK, Files, Blank, NoRows, Steps, Dirs, TrainerKilled, Then
  <2>2. CheckpointsWhole'
    BY <1>15, <1>0 DEF CheckpointsWhole, RunTypeOK, Files, Blank, WrittenFirst, TrainerKilled, Then
  <2>3. Ahead'
    BY <1>15, <1>0 DEF Ahead, Training, PutBeside, Saved, ForkInv, RunTypeOK, Files, Blank, Steps,
       Dirs, TrainerKilled, Then
  <2>4. WrittenFirst'
    BY <1>15, <1>0 DEF WrittenFirst, RunTypeOK, Files, Ahead, Training, Blank, Steps, Dirs,
       TrainerKilled, Then
  <2>5. LoggedFirst'
    BY <1>15, <1>0 DEF LoggedFirst, Logged, Saved, RunTypeOK, Files, Ahead, Training, Dirs,
       TrainerKilled, Then
  <2>6. ForkInv'
    BY <1>15, <1>0 DEF ForkInv, Saved, RunTypeOK, Files, Blank, Ahead, Training, Steps, Dirs,
       TrainerKilled, Then
  <2>7. ForkHasItsRow'
    BY <1>15, <1>0 DEF ForkHasItsRow, Logged, TrainerKilled, Then
  <2> QED
    BY <2>1, <2>2, <2>3, <2>4, <2>5, <2>6, <2>7
<1>16. CASE ForkStart
  <2>1. RunTypeOK'
    BY <1>16, <1>0 DEF RunTypeOK, Files, Blank, NoRows, Steps, Dirs, ForkStart
  <2>2. CheckpointsWhole'
    BY <1>16, <1>0 DEF CheckpointsWhole, RunTypeOK, Files, Blank, WrittenFirst, ForkStart
  <2>3. Ahead'
    <3>0. /\ UNCHANGED <<ckpt, tpc, tdir, tstep, tstart>> /\ "fork" \in Dirs \ exists
      BY <1>16 DEF ForkStart, Dirs
    <3>1. Saved("fork") = {}
      BY <3>0 DEF ForkInv, Saved
    <3>2. \A d \in Dirs : \A s \in Saved(d) : PutBeside(d, s) => d = "fork"
      BY DEF PutBeside
    <3> QED
      BY <3>0, <3>1, <3>2 DEF Ahead, Training, Saved, PutBeside
  <2>4. WrittenFirst'
    BY <1>16, <1>0 DEF WrittenFirst, RunTypeOK, Files, Ahead, Training, Blank, Steps, Dirs,
       ForkStart
  <2>5. LoggedFirst'
    BY <1>16, <1>0 DEF LoggedFirst, Logged, Saved, RunTypeOK, Files, Ahead, Training, Dirs,
       ForkStart
  <2>6. ForkInv'
    <3>1. /\ UNCHANGED <<ckpt, tmp>> /\ fstep' \in Saved("first") /\ exists' = exists \cup {"fork"}
      BY <1>16 DEF ForkStart, Newest
    <3> QED
      BY <3>1 DEF ForkInv, Saved
  <2>7. ForkHasItsRow'
    BY <1>16, <1>0 DEF ForkHasItsRow, Logged, ForkStart
  <2> QED
    BY <2>1, <2>2, <2>3, <2>4, <2>5, <2>6, <2>7
<1>17. CASE ForkCheckpoint
  <2>1. RunTypeOK'
    BY <1>17, <1>0 DEF RunTypeOK, Files, Blank, NoRows, Steps, Dirs, ForkCheckpoint
  <2>2. CheckpointsWhole'
    <3>1. fstep \in Steps /\ ckpt \in Files
      BY <1>17 DEF ForkCheckpoint, ForkInv, Saved, RunTypeOK
    <3>2. \A d \in Dirs, s \in Steps : ckpt'[d][s] \in {ckpt[d][s], ckpt["first"][fstep]}
      BY <1>17, <3>1 DEF ForkCheckpoint, Files, Dirs
    <3> QED
      BY <3>1, <3>2 DEF CheckpointsWhole, Dirs
  <2>3. Ahead'
    BY <1>17, <1>0 DEF Ahead, Training, PutBeside, Saved, ForkInv, RunTypeOK, Files, Blank, Steps,
       Dirs, ForkCheckpoint
  <2>4. WrittenFirst'
    BY <1>17, <1>0 DEF WrittenFirst, RunTypeOK, Files, Ahead, Training, Blank, Steps, Dirs,
       ForkCheckpoint
  <2>5. LoggedFirst'
    BY <1>17, <1>0 DEF LoggedFirst, Logged, Saved, RunTypeOK, Files, Ahead, Training, Dirs,
       ForkCheckpoint
  <2>6. ForkInv'
    <3>1. /\ fpc' = "csv" /\ fpc = "ckpt" /\ UNCHANGED <<exists, fstep>>
          /\ ckpt' = [ckpt EXCEPT !["fork"][fstep] = ckpt["first"][fstep]]
          /\ ckpt \in Files
      BY <1>17 DEF ForkCheckpoint, RunTypeOK
    <3>2. ckpt'["first"] = ckpt["first"] /\ Saved("first")' = Saved("first")
      BY <3>1 DEF Saved, Files, Dirs
    <3>3. "fork" \in exists
      BY <3>1 DEF ForkInv
    <3>4. UNCHANGED tmp /\ \A d \in Dirs \ {"fork"} : ckpt'[d] = ckpt[d]
      BY <1>17, <3>1 DEF ForkCheckpoint, Files
    <3> QED
      BY <3>1, <3>2, <3>3, <3>4 DEF ForkInv
  <2>7. ForkHasItsRow'
    BY <1>17, <1>0 DEF ForkHasItsRow, Logged, ForkCheckpoint
  <2> QED
    BY <2>1, <2>2, <2>3, <2>4, <2>5, <2>6, <2>7
<1>18. CASE ForkCurve
  <2>1. RunTypeOK'
    BY <1>18, <1>0 DEF RunTypeOK, Files, Blank, NoRows, Steps, Dirs, ForkCurve, CopiesRows
  <2>2. CheckpointsWhole'
    BY <1>18, <1>0 DEF CheckpointsWhole, RunTypeOK, Files, Blank, WrittenFirst, ForkCurve,
       CopiesRows
  <2>3. Ahead'
    BY <1>18, <1>0 DEF Ahead, Training, PutBeside, Saved, ForkInv, RunTypeOK, Files, Blank, Steps,
       Dirs, ForkCurve, CopiesRows
  <2>4. WrittenFirst'
    BY <1>18, <1>0 DEF WrittenFirst, RunTypeOK, Files, Ahead, Training, Blank, Steps, Dirs,
       ForkCurve, CopiesRows
  <2>5. LoggedFirst'
    BY <1>18, <1>0 DEF LoggedFirst, Logged, Saved, RunTypeOK, Files, Ahead, Training, Dirs,
       ForkCurve, CopiesRows
  <2>6. ForkInv'
    BY <1>18, <1>0 DEF ForkInv, Saved, RunTypeOK, Files, Blank, Ahead, Training, Steps, Dirs,
       ForkCurve, CopiesRows
  <2>7. ForkHasItsRow'
    <3>1. /\ fstep \in Steps /\ Logged("first", fstep) /\ UNCHANGED fstep
          /\ csv \in [Dirs -> [Rows -> Nat]]
      BY <1>18 DEF ForkCurve, CopiesRows, ForkInv, LoggedFirst, RunTypeOK, Saved
    <3>2. ASSUME NEW split \in {"train", "val"}, csv["first"][<<fstep, split>>] > 0
          PROVE  csv'["fork"][<<fstep, split>>] = csv["first"][<<fstep, split>>]
      <4>1. <<fstep, split>> \in Rows
        BY <3>1 DEF Rows
      <4>2. csv["first"] # NoRows
        BY <3>2, <4>1 DEF NoRows
      <4>3. csv' = [csv EXCEPT !["fork"] = [row \in Rows |-> IF row[1] \in {fstep} THEN csv["first"][row] ELSE 0]]
        BY <1>18, <4>2 DEF ForkCurve, CopiesRows
      <4> QED
        BY <3>1, <4>1, <4>3 DEF Dirs
    <3> QED
      BY <3>1, <3>2 DEF ForkHasItsRow, Logged
  <2> QED
    BY <2>1, <2>2, <2>3, <2>4, <2>5, <2>6, <2>7
<1>19. CASE ForkConfig
  <2>1. RunTypeOK'
    BY <1>19, <1>0 DEF RunTypeOK, Files, Blank, NoRows, Steps, Dirs, ForkConfig
  <2>2. CheckpointsWhole'
    BY <1>19, <1>0 DEF CheckpointsWhole, RunTypeOK, Files, Blank, WrittenFirst, ForkConfig
  <2>3. Ahead'
    BY <1>19, <1>0 DEF Ahead, Training, PutBeside, Saved, ForkInv, RunTypeOK, Files, Blank, Steps,
       Dirs, ForkConfig
  <2>4. WrittenFirst'
    BY <1>19, <1>0 DEF WrittenFirst, RunTypeOK, Files, Ahead, Training, Blank, Steps, Dirs,
       ForkConfig
  <2>5. LoggedFirst'
    BY <1>19, <1>0 DEF LoggedFirst, Logged, Saved, RunTypeOK, Files, Ahead, Training, Dirs,
       ForkConfig
  <2>6. ForkInv'
    BY <1>19, <1>0 DEF ForkInv, Saved, RunTypeOK, Files, Blank, Ahead, Training, Steps, Dirs,
       ForkConfig
  <2>7. ForkHasItsRow'
    BY <1>19, <1>0 DEF ForkHasItsRow, Logged, ForkConfig
  <2> QED
    BY <2>1, <2>2, <2>3, <2>4, <2>5, <2>6, <2>7
<1>20. CASE ForkFails
  <2>1. RunTypeOK'
    <3>1. ckpt' \in Files /\ tmp' \in Files
      BY <1>20 DEF ForkFails, RunTypeOK, Files, Blank
    <3>2. csv' \in [Dirs -> [Rows -> Nat]] /\ config' \in [Dirs -> {"none", "torn", "ok"}]
      BY <1>20 DEF ForkFails, RunTypeOK, NoRows
    <3> QED
      BY <1>20, <1>0, <3>1, <3>2 DEF ForkFails, RunTypeOK
  <2>2. CheckpointsWhole'
    BY <1>20, <1>0 DEF CheckpointsWhole, RunTypeOK, Files, Blank, WrittenFirst, ForkFails
  <2>3. Ahead'
    BY <1>20, <1>0 DEF Ahead, Training, PutBeside, Saved, ForkInv, RunTypeOK, Files, Blank, Steps,
       Dirs, ForkFails
  <2>4. WrittenFirst'
    BY <1>20, <1>0 DEF WrittenFirst, RunTypeOK, Files, Ahead, Training, Blank, Steps, Dirs,
       ForkFails
  <2>5. LoggedFirst'
    BY <1>20, <1>0 DEF LoggedFirst, Logged, Saved, RunTypeOK, Files, Ahead, Training, Dirs,
       ForkFails
  <2>6. ForkInv'
    BY <1>20, <1>0 DEF ForkInv, Saved, RunTypeOK, Files, Blank, Ahead, Training, Steps, Dirs,
       ForkFails
  <2>7. ForkHasItsRow'
    BY <1>20, <1>0 DEF ForkHasItsRow, Logged, ForkFails
  <2> QED
    BY <2>1, <2>2, <2>3, <2>4, <2>5, <2>6, <2>7
<1>21. CASE ForkKilled
  <2>1. RunTypeOK'
    BY <1>21, <1>0 DEF RunTypeOK, Files, Blank, NoRows, Steps, Dirs, ForkKilled
  <2>2. CheckpointsWhole'
    BY <1>21, <1>0 DEF CheckpointsWhole, RunTypeOK, Files, Blank, WrittenFirst, ForkKilled
  <2>3. Ahead'
    BY <1>21, <1>0 DEF Ahead, Training, PutBeside, Saved, ForkInv, RunTypeOK, Files, Blank, Steps,
       Dirs, ForkKilled
  <2>4. WrittenFirst'
    BY <1>21, <1>0 DEF WrittenFirst, RunTypeOK, Files, Ahead, Training, Blank, Steps, Dirs,
       ForkKilled
  <2>5. LoggedFirst'
    BY <1>21, <1>0 DEF LoggedFirst, Logged, Saved, RunTypeOK, Files, Ahead, Training, Dirs,
       ForkKilled
  <2>6. ForkInv'
    BY <1>21, <1>0 DEF ForkInv, Saved, RunTypeOK, Files, Blank, Ahead, Training, Steps, Dirs,
       ForkKilled
  <2>7. ForkHasItsRow'
    BY <1>21, <1>0 DEF ForkHasItsRow, Logged, ForkKilled
  <2> QED
    BY <2>1, <2>2, <2>3, <2>4, <2>5, <2>6, <2>7
<1> QED
  BY <1>1, <1>2, <1>3, <1>4, <1>5, <1>6, <1>7, <1>8, <1>9, <1>10, <1>11, <1>12, <1>13, <1>14,
     <1>15, <1>16, <1>17, <1>18, <1>19, <1>20, <1>21 DEF RunNext

\* RunInvariance: the inductive invariant of a training run, its resumes and a fork,
\* whatever directory a run from scratch is started in.
THEOREM RunInvariance == RunSpec => []RunInv
<1>1. RunInit => RunInv
  BY RunInitInv
<1>2. RunInv /\ [RunNext]_runVars => RunInv'
  BY RunStepInv
<1> QED
  BY <1>1, <1>2, PTL DEF RunSpec

\* RunTypeCorrect: every variable has its type (RunTypeOK).
THEOREM RunTypeCorrect == RunSpec => []RunTypeOK
<1>1. RunInv => RunTypeOK
  BY DEF RunInv
<1> QED
  BY <1>1, RunInvariance, PTL

\* OnlyWholeCheckpoints: no reader ever sees part of a checkpoint, wherever the
\* trainer or the fork is killed (save.py 514-522, fork.py 105-109).
THEOREM OnlyWholeCheckpoints == RunSpec => []CheckpointsWhole
<1>1. RunInv => CheckpointsWhole
  BY DEF RunInv
<1> QED
  BY <1>1, RunInvariance, PTL

\* ForksKeepTheRow: the rows that are due at the step it forked are in the fork's curve,
\* wherever the source was killed and whatever it logs meanwhile (fork.py 130-149).
THEOREM ForksKeepTheRow == RunSpec => []ForkHasItsRow
<1>1. RunInv => ForkHasItsRow
  BY DEF RunInv
<1> QED
  BY <1>1, RunInvariance, PTL

\* One step logs only beyond what is saved.
LEMMA RunLogsBeyond ==
  ASSUME RunInv, [RunNext]_runVars
  PROVE  [RowBeyond]_runVars
<1>0. csv \in [Dirs -> [Rows -> Nat]] /\ tdir \in Dirs
  BY DEF RunInv, RunTypeOK
<1>1. CASE UNCHANGED csv
  BY <1>0, <1>1 DEF RowBeyond
<1>2. ASSUME NEW split \in {"train", "val"}, Training, Logs(split)
      PROVE  RowBeyond
  <2>1. /\ tstep \in Steps /\ <<tstep, split>> \in Rows
        /\ tstart > 0 => \A s \in Saved(tdir) : s < tstep \/ PutBeside(tdir, s)
    BY <1>2 DEF RunInv, Ahead, Rows
  <2> SUFFICES ASSUME NEW d \in Dirs, NEW row \in Rows, csv'[d][row] > csv[d][row], tstart > 0
               PROVE  \A s \in Saved(d) : row[1] > s \/ PutBeside(d, s)
    BY DEF RowBeyond
  <2>2. d = tdir /\ row = <<tstep, split>>
    BY <1>0, <1>2, <2>1 DEF Logs
  <2>3. \A s \in Saved(d) : s < row[1] \/ PutBeside(d, s)
    BY <2>1, <2>2
  <2>4. \A s \in Saved(d) : s \in Nat /\ row[1] \in Nat
    BY <2>1, <2>2, RunAssumption DEF Steps, Saved
  <2> QED
    BY <2>3, <2>4
<1>3. CASE TrainRow
  BY <1>1, <1>2, <1>3 DEF TrainRow, Training
<1>4. CASE ValRow
  BY <1>1, <1>2, <1>4 DEF ValRow, Training
<1>5. CASE ForkCurve
  <2>1. fpc' # fpc
    BY <1>5 DEF ForkCurve, CopiesRows
  <2> QED
    BY <2>1 DEF RowBeyond
<1>6. CASE ForkFails
  BY <1>0, <1>6 DEF ForkFails, RowBeyond, NoRows, Dirs
<1>7. CASE /\ RunNext
           /\ ~TrainRow /\ ~ValRow /\ ~ForkCurve /\ ~ForkFails
  <2>1. UNCHANGED csv
    BY <1>7 DEF RunNext, StartScratch, Resume, Trains, SkipsNaN, NotDue, SaveOpensConfig,
       SaveWritesConfig,
                SaveOpensTmp, SaveWritesTmp, SaveReplaces, SaveRaises, TrainerKilled, ForkStart,
                ForkCheckpoint, ForkConfig, ForkKilled, dirVars
  <2> QED
    BY <1>1, <2>1
<1> QED
  BY <1>1, <1>3, <1>4, <1>5, <1>6, <1>7 DEF runVars, dirVars

\* NeverRewritesTheCurve: what the curve says of a saved step, no resumed run changes
\* (native_trainer.py 203-215, 374-437).  A run from scratch may: it is not stated of it.
THEOREM NeverRewritesTheCurve == RunSpec => RowsBeyondCheckpoints
<1>1. RunInv /\ [RunNext]_runVars => [RowBeyond]_runVars
  BY RunLogsBeyond
<1> QED
  BY <1>1, RunInvariance, PTL DEF RunSpec, RowsBeyondCheckpoints
=============================================================================
