---------------------------- MODULE Install_proofs ----------------------------
(***************************************************************************)
(* Proofs about what installs files on the user's machine: FileSync (models *)
(* and trainers), AppSync (the sources of the dashboard) and CorpusSync (the *)
(* training data), for any set of files, any number of edits, releases, pulls *)
(* and faults; and about the three together (MCInstall).                   *)
(***************************************************************************)
EXTENDS MCInstall, TLAPS

-----------------------------------------------------------------------------
(* FileSync. The argument rests on what a sync may still rely on.          *)

\* A row not yet handled is the classification of what was on disk, and that is on
\* disk still, but for a file the sync has opened.
InFlight ==
  syncPc # "idle" =>
    \A f \in todo :
      /\ rows[f] = Classify(shas[f], tree[f], tracked[f])
      /\ EditsDuring = FALSE \/ f \notin touched =>
           IF f = syncPc THEN local[f] = Torn ELSE local[f] = shas[f]

\* UntouchedIsClean, carried through a sync by the entries it will save.
SyncClean ==
  syncFaults = 0 =>
    \A f \in SyncFiles \ touched :
      IF syncPc = "idle" THEN local[f] # Gone => tracked[f] = local[f]
      ELSE f # syncPc /\ local[f] # Gone => entries[f] = local[f]

\* A row is one of the states a file can be in.
LEMMA ClassifyType ==
  ASSUME NEW l, NEW u, NEW t PROVE Classify(l, u, t) \in States
  BY DEF Classify, States

\* Nothing is in flight at the start, and every file is as it was installed.
LEMMA SyncInitHolds == SyncInit => SyncTypeOK /\ InFlight /\ SyncClean
  BY FileSyncAssumption DEF SyncInit, SyncTypeOK, InFlight, SyncClean, Published, Contents, Acts,
     States

\* What the sync will write is what the remote has or had.
LEMMA SyncTypeStep == SyncTypeOK /\ [SyncNext]_syncVars => SyncTypeOK'
<1> SUFFICES ASSUME SyncTypeOK, [SyncNext]_syncVars PROVE SyncTypeOK'
  OBVIOUS
<1> USE FileSyncAssumption DEF SyncTypeOK, remoteVars, userVars, callVars, Contents, Published
<1>1. CASE SyncStart
  BY <1>1, ClassifyType DEF SyncStart, Listed, Acts
<1>2. CASE SyncEnd
  BY <1>2 DEF SyncEnd, Acts
<1>3. CASE SyncCrash
  BY <1>3 DEF SyncCrash, Acts
<1>4. CASE SyncRelease
  BY <1>4 DEF SyncRelease, Acts
<1>5. CASE UserChanges
  BY <1>5 DEF UserChanges, Acts
<1>6. ASSUME NEW f \in SyncFiles, SyncWrite(f) PROVE SyncTypeOK'
  BY <1>6 DEF SyncWrite, Acts
<1>7. ASSUME NEW f \in SyncFiles, SyncWriteFails(f) PROVE SyncTypeOK'
  BY <1>7 DEF SyncWriteFails, Acts
<1>8. ASSUME NEW f \in SyncFiles, NEW w \in Acts \cup {Unset}, SyncSkip(f, w) PROVE SyncTypeOK'
  BY <1>8 DEF SyncSkip, Acts
<1>9. ASSUME NEW f \in SyncFiles, NEW w \in Acts \cup {Unset}, SyncAdopt(f, w) PROVE SyncTypeOK'
  BY <1>9 DEF SyncAdopt, Acts
<1>10. ASSUME NEW f \in SyncFiles, NEW w \in Acts \cup {Unset}, SyncDelete(f, w) PROVE SyncTypeOK'
  BY <1>10 DEF SyncDelete, Acts
<1>11. ASSUME NEW f \in SyncFiles, NEW w \in Acts \cup {Unset}, SyncOpen(f, w) PROVE SyncTypeOK'
  BY <1>11 DEF SyncOpen, Acts, Writes
<1>12. ASSUME NEW f \in SyncFiles, NEW w \in Acts \cup {Unset}, SyncStream(f, w) PROVE SyncTypeOK'
  BY <1>12 DEF SyncStream, Acts, Writes
<1>13. CASE UNCHANGED syncVars
  BY <1>13 DEF syncVars, remoteVars, userVars, callVars, Acts
<1>14. QED
  BY <1>1, <1>2, <1>3, <1>4, <1>5, <1>6, <1>7, <1>8, <1>9, <1>10, <1>11, <1>12, <1>13 DEF SyncNext

\* What a sync in progress relies on lasts, for the user changes only what is touched.
LEMMA InFlightStep == SyncTypeOK /\ InFlight /\ [SyncNext]_syncVars => InFlight'
<1> SUFFICES ASSUME SyncTypeOK, InFlight, [SyncNext]_syncVars PROVE InFlight'
  OBVIOUS
<1> USE FileSyncAssumption DEF SyncTypeOK, InFlight, remoteVars, userVars, callVars
<1>1. CASE SyncStart
  BY <1>1 DEF SyncStart, Listed
<1>2. CASE SyncEnd
  BY <1>2 DEF SyncEnd
<1>3. CASE SyncCrash
  BY <1>3 DEF SyncCrash
<1>4. CASE SyncRelease
  BY <1>4 DEF SyncRelease
<1>5. CASE UserChanges
  BY <1>5 DEF UserChanges
<1>6. ASSUME NEW f \in SyncFiles, SyncWrite(f) PROVE InFlight'
  BY <1>6 DEF SyncWrite
<1>7. ASSUME NEW f \in SyncFiles, SyncWriteFails(f) PROVE InFlight'
  BY <1>7 DEF SyncWriteFails
<1>8. ASSUME NEW f \in SyncFiles, NEW w \in Acts \cup {Unset}, SyncSkip(f, w) PROVE InFlight'
  BY <1>8 DEF SyncSkip
<1>9. ASSUME NEW f \in SyncFiles, NEW w \in Acts \cup {Unset}, SyncAdopt(f, w) PROVE InFlight'
  BY <1>9 DEF SyncAdopt
<1>10. ASSUME NEW f \in SyncFiles, NEW w \in Acts \cup {Unset}, SyncDelete(f, w) PROVE InFlight'
  BY <1>10 DEF SyncDelete
<1>11. ASSUME NEW f \in SyncFiles, NEW w \in Acts \cup {Unset}, SyncOpen(f, w) PROVE InFlight'
  BY <1>11 DEF SyncOpen, Writes
<1>12. ASSUME NEW f \in SyncFiles, NEW w \in Acts \cup {Unset}, SyncStream(f, w) PROVE InFlight'
  BY <1>12 DEF SyncStream, Writes
<1>13. CASE UNCHANGED syncVars
  BY <1>13 DEF syncVars, remoteVars, userVars, callVars
<1>14. QED
  BY <1>1, <1>2, <1>3, <1>4, <1>5, <1>6, <1>7, <1>8, <1>9, <1>10, <1>11, <1>12, <1>13 DEF SyncNext

\* A file nobody touched is as its entry says, or will say once the sync saves.
LEMMA SyncCleanStep == SyncTypeOK /\ InFlight /\ SyncClean /\ [SyncNext]_syncVars => SyncClean'
<1> SUFFICES ASSUME SyncTypeOK, InFlight, SyncClean, [SyncNext]_syncVars PROVE SyncClean'
  OBVIOUS
<1> USE FileSyncAssumption DEF SyncTypeOK, InFlight, SyncClean, remoteVars, userVars, callVars
<1>1. CASE SyncStart
  BY <1>1 DEF SyncStart
<1>2. CASE SyncEnd
  BY <1>2 DEF SyncEnd
<1>3. CASE SyncCrash
  BY <1>3 DEF SyncCrash
<1>4. CASE SyncRelease
  BY <1>4 DEF SyncRelease
<1>5. CASE UserChanges
  BY <1>5 DEF UserChanges
<1>6. ASSUME NEW f \in SyncFiles, SyncWrite(f) PROVE SyncClean'
  BY <1>6 DEF SyncWrite
<1>7. ASSUME NEW f \in SyncFiles, SyncWriteFails(f) PROVE SyncClean'
  BY <1>7 DEF SyncWriteFails
<1>8. ASSUME NEW f \in SyncFiles, NEW w \in Acts \cup {Unset}, SyncSkip(f, w) PROVE SyncClean'
  BY <1>8 DEF SyncSkip
<1>9. ASSUME NEW f \in SyncFiles, NEW w \in Acts \cup {Unset}, SyncAdopt(f, w) PROVE SyncClean'
  BY <1>9 DEF SyncAdopt
<1>10. ASSUME NEW f \in SyncFiles, NEW w \in Acts \cup {Unset}, SyncDelete(f, w) PROVE SyncClean'
  BY <1>10 DEF SyncDelete
<1>11. ASSUME NEW f \in SyncFiles, NEW w \in Acts \cup {Unset}, SyncOpen(f, w) PROVE SyncClean'
  BY <1>11 DEF SyncOpen, Writes
<1>12. ASSUME NEW f \in SyncFiles, NEW w \in Acts \cup {Unset}, SyncStream(f, w) PROVE SyncClean'
  BY <1>12 DEF SyncStream, Writes
<1>13. CASE UNCHANGED syncVars
  BY <1>13 DEF syncVars, remoteVars, userVars, callVars
<1>14. QED
  BY <1>1, <1>2, <1>3, <1>4, <1>5, <1>6, <1>7, <1>8, <1>9, <1>10, <1>11, <1>12, <1>13 DEF SyncNext

\* The step a user would notice: only the two that write can be Unasked, and the row
\* of a file that still has an edit lets them only where it was adopted.
LEMMA UnaskedStep ==
  ASSUME EditsDuring = FALSE, SyncTypeOK, InFlight, [SyncNext]_syncVars,
         NEW f \in SyncFiles, Unasked(f)
  PROVE  tracked[f] = local[f]
<1> USE FileSyncAssumption DEF SyncTypeOK, InFlight, Unasked, remoteVars, userVars, callVars, Published, Contents
<1>1. CASE SyncStart
  BY <1>1 DEF SyncStart
<1>2. CASE SyncEnd
  BY <1>2 DEF SyncEnd
<1>3. CASE SyncCrash
  BY <1>3 DEF SyncCrash
<1>4. CASE SyncRelease
  BY <1>4 DEF SyncRelease
<1>5. CASE UserChanges
  BY <1>5 DEF UserChanges
<1>6. ASSUME NEW g \in SyncFiles, SyncWrite(g) PROVE tracked[f] = local[f]
  BY <1>6 DEF SyncWrite
<1>7. ASSUME NEW g \in SyncFiles, SyncWriteFails(g) PROVE tracked[f] = local[f]
  BY <1>7 DEF SyncWriteFails
<1>8. ASSUME NEW g \in SyncFiles, NEW w \in Acts \cup {Unset}, SyncSkip(g, w) PROVE tracked[f] = local[f]
  BY <1>8 DEF SyncSkip
<1>9. ASSUME NEW g \in SyncFiles, NEW w \in Acts \cup {Unset}, SyncAdopt(g, w) PROVE tracked[f] = local[f]
  BY <1>9 DEF SyncAdopt
<1>10. ASSUME NEW g \in SyncFiles, NEW w \in Acts \cup {Unset}, SyncDelete(g, w) PROVE tracked[f] = local[f]
  BY <1>10 DEF SyncDelete, Resolved
<1>11. ASSUME NEW g \in SyncFiles, NEW w \in Acts \cup {Unset}, SyncOpen(g, w) PROVE tracked[f] = local[f]
  BY <1>11 DEF SyncOpen, Writes, Resolved, Classify
<1>12. ASSUME NEW g \in SyncFiles, NEW w \in Acts \cup {Unset}, SyncStream(g, w) PROVE tracked[f] = local[f]
  BY <1>12 DEF SyncStream, Writes, Resolved, Classify
<1>13. CASE UNCHANGED syncVars
  BY <1>13 DEF syncVars, remoteVars, userVars, callVars
<1>14. QED
  BY <1>1, <1>2, <1>3, <1>4, <1>5, <1>6, <1>7, <1>8, <1>9, <1>10, <1>11, <1>12, <1>13 DEF SyncNext

\* SyncTypeOK holds in every reachable state.
THEOREM SyncTypeCorrect == SyncSpec => []SyncTypeOK
BY SyncInitHolds, SyncTypeStep, PTL DEF SyncSpec

\* UntouchedIsClean: between syncs, with no fault so far, the state file knows the
\* content of every file the user has left alone.
THEOREM UntouchedStaysClean == SyncSpec => []UntouchedIsClean
<1>1. SyncClean => UntouchedIsClean
  BY DEF SyncClean, UntouchedIsClean
<1>2. QED
  BY <1>1, SyncInitHolds, SyncTypeStep, InFlightStep, SyncCleanStep, PTL DEF SyncSpec

\* NeverOverwritesUnadopted: if the user leaves the files alone while a sync runs, it
\* overwrites without being asked only what he had it record as the baseline.
THEOREM OverwritesOnlyAdopted ==
  ASSUME EditsDuring = FALSE PROVE SyncSpec => NeverOverwritesUnadopted
<1>1. SyncTypeOK /\ InFlight /\ [SyncNext]_syncVars
        => [\A f \in SyncFiles : Unasked(f) => tracked[f] = local[f]]_syncVars
  BY UnaskedStep
<1>2. QED
  BY <1>1, SyncInitHolds, SyncTypeStep, InFlightStep, PTL DEF SyncSpec, NeverOverwritesUnadopted

-----------------------------------------------------------------------------
(* AppSync. A pull knows what it was started over; an ETag, what it is of. *)

\* The versions are numbers, and nobody's edit is one.
LEMMA VersionIs ==
  /\ 1 \in Versions /\ MaxVersions \in Nat /\ \A v \in Versions : v \in Nat /\ v # 0
  /\ Missing \notin Versions /\ Edited \notin Versions /\ NoTag \notin Versions
  BY AppSyncAssumption DEF Versions

\* A fresh installation, or one that was pulled, is in the invariant.
LEMMA AppInitInv == AppInit => AppInv
<1> SUFFICES ASSUME AppInit PROVE AppInv
  OBVIOUS
<1> USE VersionIs DEF AppInit
<1>1. AppTypeOK
  <2>1. Idle \in Pull /\ NoCheck \in Check
    BY DEF Idle, Pull, NoCheck, Check
  <2>2. /\ pulls \in [Pullers -> Pull] /\ poll \in Check
        /\ \A p \in Pullers : pulls[p] = Idle /\ pulls[p].pc = "idle"
    BY <2>1 DEF Idle
  <2>3. disk \in [AppFiles -> Versions \cup {Missing, Edited}]
    OBVIOUS
  <2>4. baseline \in [AppFiles -> Versions \cup {NoTag}] /\ etag \in Versions \cup {NoTag}
        /\ etagOf \in Branches \cup {NoTag}
    OBVIOUS
  <2>5. \A b \in Branches : head[b] <= versions
    OBVIOUS
  <2>6. /\ head \in [Branches -> Versions] /\ versions \in Versions /\ channel \in Branches
        /\ git \in BOOLEAN
    OBVIOUS
  <2>7. avail = FALSE /\ training = FALSE /\ crossed = FALSE /\ checked = FALSE
    OBVIOUS
  <2> QED
    BY <2>2, <2>3, <2>4, <2>5, <2>6, <2>7 DEF AppTypeOK
<1>2. \A p \in Pullers : pulls[p].pc = "idle" /\ pulls[p].mine = {}
  BY DEF Idle
<1>3. GateHeld /\ PullsKnow
  BY <1>2 DEF GateHeld, PullsKnow
<1>4. TagKnows
  <2>1. CASE etag = NoTag
    BY <2>1 DEF TagKnows
  <2>2. CASE etag = 1 /\ etagOf = channel
    <3>1. \A f \in Ships(1) : f \in AppFiles /\ disk[f] = 1
      BY DEF Ships
    <3> QED
      BY <2>2, <3>1 DEF TagKnows
  <2> QED
    BY <2>1, <2>2
<1>5. ChecksKnow
  <2>1. poll.fresh = FALSE /\ checked = FALSE
    BY DEF NoCheck
  <2> QED
    BY <2>1 DEF ChecksKnow
<1> QED
  BY <1>1, <1>3, <1>4, <1>5 DEF AppInv

-----------------------------------------------------------------------------
\* A gate that lets a pull through over a baseline protects no file the user has edited.
LEMMA GateProtects ==
  ASSUME AppTypeOK, ~LocalEdits
  PROVE  {f \in AppFiles : disk[f] = Edited} \cap Guarded = {}
<1> SUFFICES ASSUME NEW f \in AppFiles, disk[f] = Edited, f \in Guarded PROVE FALSE
  OBVIOUS
<1>1. Cardinality({g \in Tracked : disk[g] = Missing}) < StaleAt /\ f \in Tracked
  BY DEF Guarded
<1>2. disk[f] # baseline[f]
  BY VersionIs, <1>1 DEF AppTypeOK, Tracked
<1> QED
  BY <1>1, <1>2 DEF LocalEdits

\* Every step keeps the types.
LEMMA AppTypeStep == AppTypeOK /\ [AppNext]_appVars => AppTypeOK'
<1> SUFFICES ASSUME AppTypeOK, [AppNext]_appVars PROVE AppTypeOK'
  OBVIOUS
<1>0. \A v \in Versions : Ships(v) \subseteq AppFiles
  BY DEF Ships
<1>1. ASSUME NEW p \in Pullers, NEW force \in BOOLEAN, NEW ignoreTraining \in BOOLEAN,
             PullStart(p, force, ignoreTraining)
      PROVE  AppTypeOK'
  <2>1. Guarded \subseteq AppFiles
    BY DEF Guarded, Tracked
  <2> DEFINE m == [Idle EXCEPT !.pc = "get", !.branch = channel, !.force = force, !.guarded = Guarded,
                               !.mine = {f \in AppFiles : disk[f] = Edited}]
  <2>2. m \in Pull /\ m.pc = "get" /\ m.branch = channel
    BY <2>1 DEF Idle, Pull, AppTypeOK
  <2>3. pulls' = [pulls EXCEPT ![p] = m] /\ UNCHANGED <<heads, disk, baseline, state, here>>
    BY <1>1 DEF PullStart
  <2> HIDE DEF m
  <2>4. pulls' \in [Pullers -> Pull] /\ pulls'[p] = m /\ \A q \in Pullers \ {p} : pulls'[q] = pulls[q]
    BY <2>2, <2>3 DEF AppTypeOK
  <2>5. poll' \in Check /\ checked' \in BOOLEAN
    BY <1>1 DEF PullStart, Outdated, AppTypeOK, Check
  <2>6. crossed' \in BOOLEAN
    BY <1>1 DEF PullStart, AppTypeOK
  <2> QED
    BY <2>2, <2>3, <2>4, <2>5, <2>6 DEF AppTypeOK, heads, state, here
<1>2. ASSUME NEW p \in Pullers, PullGet(p) \/ PullHead(p) \/ PullBaseline(p) \/ PullRecord(p) \/ PullRaises(p)
      PROVE  AppTypeOK'
  <2>0. Idle \in Pull /\ Idle.pc = "idle"
    BY DEF Idle, Pull
  <2>1. CASE PullGet(p)
    BY <2>0, <2>1 DEF PullGet, AppTypeOK, Pull, heads, state, here, quota
  <2>2. CASE PullHead(p)
    <3>1. PICK tag \in {head[pulls[p].branch], NoTag} :
            pulls' = [pulls EXCEPT ![p].pc = "copy", ![p].tag = tag, ![p].left = Ships(pulls[p].got)]
      BY <2>2 DEF PullHead
    <3>2. tag \in Versions \cup {NoTag} /\ Ships(pulls[p].got) \in SUBSET AppFiles /\ pulls[p].got \in Versions
      BY <1>0, <2>2 DEF PullHead, AppTypeOK
    <3> DEFINE m == [pulls[p] EXCEPT !.pc = "copy", !.tag = tag, !.left = Ships(pulls[p].got)]
    <3>a. pulls[p] \in Pull /\ pulls[p].branch \in Branches
      BY <2>2 DEF PullHead, AppTypeOK
    <3>b. m \in Pull /\ m.pc = "copy" /\ m.got = pulls[p].got /\ m.branch = pulls[p].branch
      BY <3>2, <3>a DEF Pull
    <3>3. /\ m \in Pull /\ m.pc = "copy" /\ m.got \in Versions /\ m.branch \in Branches
          /\ pulls' = [pulls EXCEPT ![p] = m]
      BY <3>1, <3>2, <3>a, <3>b
    <3> HIDE DEF m
    <3> QED
      BY <2>2, <3>3 DEF PullHead, AppTypeOK, heads, state, here, quota
  <2>3. CASE PullBaseline(p)
    <3>1. pulls' \in [Pullers -> Pull]
      BY <2>3 DEF PullBaseline, AppTypeOK, Pull
    <3>2. baseline' \in [AppFiles -> Versions \cup {NoTag}]
      BY <2>3 DEF PullBaseline, AppTypeOK
    <3> QED
      BY <2>3, <3>1, <3>2 DEF PullBaseline, AppTypeOK, Pull, heads, state, here
  <2>4. CASE PullRecord(p)
    <3>1. pulls[p] \in Pull /\ pulls[p].tag \in Versions \cup {NoTag} /\ pulls[p].branch \in Branches
      BY <2>4 DEF PullRecord, AppTypeOK, Pull
    <3> QED
      BY <2>0, <2>4, <3>1 DEF PullRecord, AppTypeOK, heads, here, quota
  <2>5. CASE PullRaises(p)
    BY <2>0, <2>5 DEF PullRaises, AppTypeOK, heads, state, here
  <2> QED
    BY <1>2, <2>1, <2>2, <2>3, <2>4, <2>5
<1>3. ASSUME NEW p \in Pullers, NEW f \in AppFiles, PullCopy(p, f) PROVE AppTypeOK'
  <2>1. pulls' \in [Pullers -> Pull]
    BY <1>3 DEF PullCopy, AppTypeOK, Pull
  <2>2. disk' \in [AppFiles -> Versions \cup {Missing, Edited}]
    BY <1>3 DEF PullCopy, AppTypeOK
  <2> QED
    BY <1>3, <2>1, <2>2 DEF PullCopy, AppTypeOK, Pull, heads, state, here, quota
<1>4. CASE AppCrash
  <2>0. Idle \in Pull /\ Idle.pc = "idle" /\ NoCheck \in Check
    BY DEF Idle, Pull, NoCheck, Check
  <2> QED
    BY <1>4, <2>0 DEF AppCrash, AppTypeOK, heads, state, here
<1>5. CASE CheckHead
  <2>1. Resting \in BOOLEAN
    BY DEF Resting
  <2>2. poll' \in Check
    BY <1>5, <2>1 DEF CheckHead, AppTypeOK, Check
  <2> QED
    BY <1>5, <2>2 DEF CheckHead, AppTypeOK, heads, state, here, quota
<1>6. CASE CheckDecide
  <2>1. /\ NoCheck \in Check /\ poll.tag \in Versions \cup {NoTag}
        /\ poll.branch \in Branches \cup {NoTag} /\ poll.fresh \in BOOLEAN
    BY DEF AppTypeOK, NoCheck, Check
  <2>2. etag' \in Versions \cup {NoTag} /\ etagOf' \in Branches \cup {NoTag}
    BY <1>6, <2>1 DEF CheckDecide, AppTypeOK
  <2>3. avail' \in BOOLEAN
    <3>1. (head[poll.branch] > commit) \in BOOLEAN /\ (poll.tag # Prior) \in BOOLEAN
      OBVIOUS
    <3> QED
      BY <1>6, <3>1, Zenon DEF CheckDecide
  <2>4. checked' \in BOOLEAN /\ poll' \in Check
    BY <1>6, <2>1 DEF CheckDecide
  <2> QED
    BY <1>6, <2>2, <2>3, <2>4 DEF CheckDecide, AppTypeOK, heads, here, quota
<1>7. CASE SwitchChannel
  <2>1. poll' \in Check /\ checked' \in BOOLEAN
    BY <1>7 DEF SwitchChannel, Outdated, AppTypeOK, Check
  <2> QED
    BY <1>7, <2>1 DEF SwitchChannel, AppTypeOK, heads
<1>8. CASE GitPull
  <2>1. disk' \in [AppFiles -> Versions \cup {Missing, Edited}]
    BY <1>8 DEF GitPull, AppTypeOK
  <2> QED
    BY <1>8, <2>1 DEF GitPull, AppTypeOK, heads, state
<1>9. CASE TrainerToggles
  <2>1. training' \in BOOLEAN
    BY <1>9 DEF TrainerToggles, AppTypeOK
  <2> QED
    BY <1>9, <2>1 DEF TrainerToggles, AppTypeOK, heads, state
<1>10. ASSUME NEW b \in Branches, AppRelease(b) PROVE AppTypeOK'
  <2>1. /\ versions + 1 \in Versions /\ versions \in Nat
        /\ versions' = versions + 1 /\ head' = [head EXCEPT ![b] = versions + 1]
    BY <1>10, VersionIs DEF AppRelease, AppTypeOK, Versions
  <2>2. head' \in [Branches -> Versions] /\ \A c \in Branches : head'[c] <= versions'
    <3>1. \A c \in Branches : head[c] \in Nat /\ head[c] <= versions
      BY VersionIs DEF AppTypeOK
    <3> QED
      BY <2>1, <3>1 DEF AppTypeOK
  <2>3. poll' \in Check /\ checked' \in BOOLEAN
    BY <1>10 DEF AppRelease, Outdated, AppTypeOK, Check
  <2>4. crossed' \in BOOLEAN
    BY <1>10 DEF AppRelease, AppTypeOK
  <2> QED
    BY <1>10, <2>1, <2>2, <2>3, <2>4 DEF AppRelease, AppTypeOK, state, here, quota
<1>11. ASSUME NEW f \in AppFiles, AppEdit(f) PROVE AppTypeOK'
  <2>1. disk' \in [AppFiles -> Versions \cup {Missing, Edited}]
    BY <1>11 DEF AppEdit, AppTypeOK
  <2> QED
    BY <1>11, <2>1 DEF AppEdit, AppTypeOK, heads, state, here
<1>12. CASE UNCHANGED appVars
  BY <1>12 DEF appVars, AppTypeOK, heads, state, here, quota
<1> QED
  BY <1>1, <1>2, <1>3, <1>4, <1>5, <1>6, <1>7, <1>8, <1>9, <1>10, <1>11, <1>12 DEF AppNext

\* Every step keeps what a pull that was not forced was started over.
LEMMA GateStep == AppTypeOK /\ GateHeld /\ [AppNext]_appVars => GateHeld'
<1> SUFFICES ASSUME AppTypeOK, GateHeld, [AppNext]_appVars PROVE GateHeld'
  OBVIOUS
<1>1. ASSUME NEW p \in Pullers, NEW force \in BOOLEAN, NEW ignoreTraining \in BOOLEAN,
             PullStart(p, force, ignoreTraining)
      PROVE  GateHeld'
  <2> DEFINE mine == {f \in AppFiles : disk[f] = Edited}
             m == [Idle EXCEPT !.pc = "get", !.branch = channel, !.force = force, !.guarded = Guarded, !.mine = mine]
  <2>1. m.force = force /\ m.mine = mine /\ m.guarded = Guarded
    BY DEF Idle
  <2>2. force \/ mine \cap Guarded = {}
    BY <1>1, GateProtects DEF PullStart
  <2>3. pulls' = [pulls EXCEPT ![p] = m]
    BY <1>1 DEF PullStart
  <2> HIDE DEF m, mine
  <2> QED
    BY <2>1, <2>2, <2>3 DEF GateHeld, AppTypeOK
<1>2. ASSUME \A p \in Pullers : \/ pulls'[p] = Idle
                                \/ /\ pulls'[p].force = pulls[p].force /\ pulls'[p].mine = pulls[p].mine
                                   /\ pulls'[p].guarded = pulls[p].guarded
      PROVE  GateHeld'
  <2>1. Idle.mine = {}
    BY DEF Idle
  <2> QED
    BY <1>2, <2>1 DEF GateHeld
<1>3. ASSUME NEW p \in Pullers,
             PullGet(p) \/ PullHead(p) \/ PullBaseline(p) \/ PullRecord(p) \/ PullRaises(p)
               \/ \E f \in AppFiles : PullCopy(p, f)
      PROVE  GateHeld'
  <2>1. CASE PullGet(p) \/ PullBaseline(p) \/ PullRecord(p) \/ PullRaises(p) \/ \E f \in AppFiles : PullCopy(p, f)
    BY <1>2, <2>1 DEF PullGet, PullBaseline, PullRecord, PullRaises, PullCopy, AppTypeOK, Pull
  <2>2. CASE PullHead(p)
    <3>1. PICK tag \in {head[pulls[p].branch], NoTag} :
            pulls' = [pulls EXCEPT ![p].pc = "copy", ![p].tag = tag, ![p].left = Ships(pulls[p].got)]
      BY <2>2 DEF PullHead
    <3>2. \A q \in Pullers : /\ pulls'[q].force = pulls[q].force /\ pulls'[q].mine = pulls[q].mine
                             /\ pulls'[q].guarded = pulls[q].guarded
      BY <3>1 DEF AppTypeOK, Pull
    <3> QED
      BY <1>2, <3>2
  <2> QED
    BY <1>3, <2>1, <2>2
<1>4. CASE AppCrash
  BY <1>2, <1>4 DEF AppCrash
<1>5. CASE UNCHANGED pulls
  BY <1>5 DEF GateHeld
<1> QED
  BY <1>1, <1>3, <1>4, <1>5
     DEF AppNext, CheckHead, CheckDecide, SwitchChannel, GitPull, TrainerToggles, AppRelease, AppEdit, appVars

-----------------------------------------------------------------------------
\* What is known as long as nothing has come between a download and its ETag.
Knows == PullsKnow /\ TagKnows /\ ChecksKnow

\* The version on a branch's way: what it has is a version, and none is above it.
LEMMA HeadIs == ASSUME AppTypeOK, NEW b \in Branches PROVE head[b] \in Versions /\ head[b] \in Nat
  BY VersionIs DEF AppTypeOK

\* A pull starts in a resting installation, and any check in progress is outdated.
LEMMA StartKnows ==
  ASSUME AppTypeOK, Knows, NEW p \in Pullers, NEW force, NEW ignoreTraining,
         PullStart(p, force, ignoreTraining), ~crossed'
  PROVE  Knows'
<1> DEFINE m == [Idle EXCEPT !.pc = "get", !.branch = channel, !.force = force, !.guarded = Guarded,
                             !.mine = {f \in AppFiles : disk[f] = Edited}]
<1>1. /\ pulls' = [pulls EXCEPT ![p] = m] /\ Resting /\ poll' = [poll EXCEPT !.fresh = FALSE] /\ checked' = FALSE
      /\ UNCHANGED <<head, versions, disk, baseline, etag, etagOf, avail, git, commit, channel, training>>
  BY DEF PullStart, Outdated, heads, state, here
<1>2. m.pc = "get" /\ m.branch = channel
  BY DEF Idle
<1> HIDE DEF m
<1>3. pulls'[p] = m /\ \A q \in Pullers \ {p} : pulls'[q] = Idle
  BY <1>1 DEF AppTypeOK, Resting
<1>4. Idle.pc = "idle"
  BY DEF Idle
<1>5. PullsKnow'
  BY <1>1, <1>2, <1>3, <1>4 DEF PullsKnow
<1>6. TagKnows'
  BY <1>1 DEF Knows, TagKnows
<1>7. ChecksKnow'
  <2>1. poll'.fresh = FALSE
    BY <1>1 DEF AppTypeOK, Check
  <2> QED
    BY <1>1, <2>1 DEF ChecksKnow
<1> QED
  BY <1>5, <1>6, <1>7 DEF Knows

\* A pull that goes on, is cut off or ends: while there is one nothing is resting,
\* so no check is fresh.
LEMMA PullKnows ==
  ASSUME AppTypeOK, Knows, NEW p \in Pullers,
         PullGet(p) \/ PullHead(p) \/ PullBaseline(p) \/ PullRecord(p) \/ PullRaises(p)
           \/ \E f \in AppFiles : PullCopy(p, f)
  PROVE  Knows'
<1> USE VersionIs
<1>0. Idle.pc = "idle"
  BY DEF Idle
<1>1. pulls[p].pc # "idle" /\ pulls[p] # Idle /\ pulls[p] \in Pull /\ pulls[p].branch \in Branches
  BY <1>0 DEF PullGet, PullHead, PullBaseline, PullRecord, PullRaises, PullCopy, AppTypeOK
<1>2. /\ UNCHANGED <<head, versions, git, commit, channel, training, poll, checked, crossed>>
      /\ \A q \in Pullers \ {p} : pulls[q].pc = "idle" /\ pulls'[q] = pulls[q]
  <2>1. \A q \in Pullers \ {p} : pulls[q].pc = "idle"
    BY <1>1 DEF Knows, PullsKnow
  <2>2. \A q \in Pullers \ {p} : pulls'[q] = pulls[q]
    BY DEF PullGet, PullHead, PullBaseline, PullRecord, PullRaises, PullCopy, AppTypeOK
  <2>3. UNCHANGED <<head, versions, git, commit, channel, training, poll, checked, crossed>>
    BY DEF PullGet, PullHead, PullBaseline, PullRecord, PullRaises, PullCopy, heads, here, quota
  <2> QED
    BY <2>1, <2>2, <2>3
<1>3. poll.fresh = FALSE /\ checked = FALSE
  <2>1. ~Resting
    BY <1>1 DEF Resting
  <2>2. poll.fresh \in BOOLEAN /\ checked \in BOOLEAN
    BY DEF AppTypeOK, Check
  <2> QED
    BY <2>1, <2>2 DEF Knows, ChecksKnow
\* Other pulls are idle, so what is left to show of the pulls is about this one.
<1>4. ASSUME pulls'[p].pc = "idle" \/ pulls'[p].branch = pulls[p].branch,
             pulls'[p].pc # "idle" => UNCHANGED <<etag, etagOf>>,
             pulls'[p].pc = "head" => pulls'[p].got = head[pulls[p].branch],
             pulls'[p].pc \in {"copy", "record"} =>
               /\ pulls'[p].got <= head[pulls[p].branch] /\ pulls'[p].tag \in {pulls'[p].got, NoTag}
               /\ \A f \in Ships(pulls'[p].got) \ pulls'[p].left : disk'[f] \in {pulls'[p].got, Edited, Missing}
               /\ etag # NoTag /\ etagOf = channel => etag <= pulls'[p].got
      PROVE  PullsKnow'
  <2>1. \A q, r \in Pullers : pulls'[q].pc # "idle" /\ pulls'[r].pc # "idle" => q = r
    BY <1>2
  <2>2. pulls'[p].pc # "idle" /\ pulls'[p].branch # channel => etag' = NoTag
    BY <1>1, <1>4 DEF Knows, PullsKnow
  <2> QED
    BY <1>2, <1>4, <2>1, <2>2 DEF PullsKnow
<1>5. CASE PullGet(p)
  <2>1. /\ UNCHANGED <<disk, baseline, etag, etagOf, avail>>
        /\ \/ pulls'[p] = Idle
           \/ /\ pulls'[p].pc = "head" /\ pulls'[p].got = head[pulls[p].branch]
              /\ pulls'[p].branch = pulls[p].branch
    BY <1>5 DEF PullGet, state, AppTypeOK, Pull
  <2>2. PullsKnow'
    BY <1>0, <1>4, <2>1
  <2>3. TagKnows' /\ ChecksKnow'
    BY <1>2, <1>3, <2>1 DEF Knows, TagKnows, ChecksKnow
  <2> QED
    BY <2>2, <2>3 DEF Knows
<1>6. CASE PullHead(p)
  <2>1. PICK tag \in {head[pulls[p].branch], NoTag} :
          pulls' = [pulls EXCEPT ![p].pc = "copy", ![p].tag = tag, ![p].left = Ships(pulls[p].got)]
    BY <1>6 DEF PullHead
  <2>2. /\ pulls'[p].pc = "copy" /\ pulls'[p].tag = tag /\ pulls'[p].left = Ships(pulls[p].got)
        /\ pulls'[p].got = pulls[p].got /\ pulls'[p].branch = pulls[p].branch
    BY <2>1 DEF AppTypeOK, Pull
  <2>3. /\ pulls[p].pc = "head" /\ pulls[p].got = head[pulls[p].branch]
        /\ UNCHANGED <<disk, baseline, etag, etagOf, avail>>
    BY <1>6 DEF PullHead, state, Knows, PullsKnow
  <2>4. head[pulls[p].branch] \in Nat
    BY <1>1, HeadIs
  <2>5. etag # NoTag /\ etagOf = channel => etag <= pulls[p].got
    BY <2>3 DEF Knows, PullsKnow, TagKnows
  <2>6. PullsKnow'
    BY <1>4, <2>2, <2>3, <2>4, <2>5
  <2>7. TagKnows' /\ ChecksKnow'
    BY <1>2, <1>3, <2>3 DEF Knows, TagKnows, ChecksKnow
  <2> QED
    BY <2>6, <2>7 DEF Knows
<1>7. CASE PullBaseline(p)
  <2>1. /\ pulls[p].pc = "copy" /\ pulls[p].left = {} /\ pulls'[p].pc = "record" /\ pulls'[p].left = {}
        /\ pulls'[p].got = pulls[p].got /\ pulls'[p].branch = pulls[p].branch /\ pulls'[p].tag = pulls[p].tag
        /\ UNCHANGED <<disk, etag, etagOf, avail>>
    BY <1>7 DEF PullBaseline, state, AppTypeOK, Pull
  <2>2. PullsKnow'
    BY <1>4, <2>1 DEF Knows, PullsKnow
  <2>3. TagKnows' /\ ChecksKnow'
    BY <1>2, <1>3, <2>1 DEF Knows, TagKnows, ChecksKnow
  <2> QED
    BY <2>2, <2>3 DEF Knows
<1>8. CASE PullRecord(p)
  <2>1. /\ pulls[p].pc = "record" /\ pulls'[p] = Idle /\ etag' = pulls[p].tag /\ etagOf' = pulls[p].branch
        /\ pulls[p].left = {} /\ pulls[p].got \in Versions /\ UNCHANGED disk
    BY <1>8 DEF PullRecord, AppTypeOK
  <2>2. /\ pulls[p].got <= head[pulls[p].branch] /\ pulls[p].tag \in {pulls[p].got, NoTag}
        /\ \A f \in Ships(pulls[p].got) : disk[f] \in {pulls[p].got, Edited, Missing}
    BY <2>1 DEF Knows, PullsKnow
  <2>3. PullsKnow'
    BY <1>0, <1>4, <2>1
  <2>4. TagKnows'
    BY <1>1, <1>2, <2>1, <2>2 DEF TagKnows
  <2>5. ChecksKnow'
    BY <1>2, <1>3 DEF ChecksKnow
  <2> QED
    BY <2>3, <2>4, <2>5 DEF Knows
<1>9. CASE PullRaises(p)
  <2>1. pulls'[p] = Idle /\ UNCHANGED <<disk, baseline, etag, etagOf, avail>>
    BY <1>9 DEF PullRaises, state, AppTypeOK
  <2>2. PullsKnow'
    BY <1>0, <1>4, <2>1
  <2>3. TagKnows' /\ ChecksKnow'
    BY <1>2, <1>3, <2>1 DEF Knows, TagKnows, ChecksKnow
  <2> QED
    BY <2>2, <2>3 DEF Knows
<1>10. ASSUME NEW f \in AppFiles, PullCopy(p, f) PROVE Knows'
  <2>1. /\ pulls[p].pc = "copy" /\ f \in pulls[p].left /\ pulls'[p].pc = "copy" /\ pulls'[p].left = pulls[p].left \ {f}
        /\ pulls'[p].got = pulls[p].got /\ pulls'[p].branch = pulls[p].branch /\ pulls'[p].tag = pulls[p].tag
        /\ disk' = [disk EXCEPT ![f] = pulls[p].got] /\ UNCHANGED <<etag, etagOf, avail>>
    BY <1>10 DEF PullCopy, state, AppTypeOK, Pull
  <2>2. disk'[f] = pulls[p].got /\ (\A g \in AppFiles \ {f} : disk'[g] = disk[g]) /\ pulls[p].got \in Versions
    BY <2>1 DEF AppTypeOK
  <2>3. \A v \in Versions : Ships(v) \subseteq AppFiles
    BY DEF Ships
  <2>4. /\ pulls[p].got <= head[pulls[p].branch] /\ pulls[p].tag \in {pulls[p].got, NoTag}
        /\ \A g \in Ships(pulls[p].got) \ pulls[p].left : disk[g] \in {pulls[p].got, Edited, Missing}
        /\ etag # NoTag /\ etagOf = channel => etag <= pulls[p].got
        /\ pulls[p].branch # channel => etag = NoTag
    BY <2>1 DEF Knows, PullsKnow
  <2>5. \A g \in Ships(pulls[p].got) \ pulls'[p].left : disk'[g] \in {pulls[p].got, Edited, Missing}
    BY <2>1, <2>2, <2>3, <2>4
  <2>6. PullsKnow'
    BY <1>4, <2>1, <2>4, <2>5
  <2>7. TagKnows'
    <3>1. SUFFICES ASSUME etag # NoTag, etagOf = channel, NEW g \in Ships(etag)
                   PROVE  \/ disk'[g] \in {etag, Edited, Missing}
                          \/ disk'[g] \in Versions /\ etag < disk'[g] /\ disk'[g] <= head[channel]
      BY <1>2, <2>1 DEF Knows, TagKnows
    <3>2. etag \in Versions /\ pulls[p].branch = channel /\ g \in AppFiles
      BY <2>3, <2>4, <3>1 DEF AppTypeOK
    <3>3. CASE g = f
      <4>1. etag \in Nat /\ pulls[p].got \in Nat /\ etag <= pulls[p].got /\ pulls[p].got <= head[channel]
        BY <2>2, <2>4, <3>1, <3>2
      <4> QED
        BY <2>2, <3>3, <4>1
    <3>4. CASE g # f
      BY <2>2, <3>1, <3>2, <3>4 DEF Knows, TagKnows
    <3> QED
      BY <3>3, <3>4
  <2>8. ChecksKnow'
    BY <1>2, <1>3, <2>1 DEF ChecksKnow
  <2> QED
    BY <2>6, <2>7, <2>8 DEF Knows
<1> QED
  BY <1>5, <1>6, <1>7, <1>8, <1>9, <1>10

\* The server ends: nothing was resting, so nothing is known of a check.
LEMMA CrashKnows == ASSUME AppTypeOK, Knows, AppCrash PROVE Knows'
<1>1. /\ \A p \in Pullers : pulls'[p] = Idle
      /\ poll' = NoCheck /\ checked' = checked /\ ~Resting
      /\ UNCHANGED <<head, disk, etag, etagOf, avail, channel>>
  BY DEF AppCrash, heads, state, here
<1>2. PullsKnow'
  BY <1>1 DEF Idle, PullsKnow
<1>3. TagKnows'
  BY <1>1 DEF Knows, TagKnows
<1>4. ChecksKnow'
  <2>1. poll'.fresh = FALSE
    BY <1>1 DEF NoCheck
  <2>2. checked = FALSE
    BY <1>1 DEF Knows, ChecksKnow, AppTypeOK
  <2> QED
    BY <1>1, <2>1, <2>2 DEF ChecksKnow
<1> QED
  BY <1>2, <1>3, <1>4 DEF Knows

\* A check is fresh when nothing is under way as it asks.
LEMMA HeadKnows == ASSUME AppTypeOK, Knows, CheckHead PROVE Knows'
<1>1. /\ poll' = [branch |-> channel, tag |-> head[channel], fresh |-> Resting]
      /\ UNCHANGED <<head, disk, etag, etagOf, avail, channel, pulls, checked>>
  BY DEF CheckHead, heads, state, here
<1>2. PullsKnow' /\ TagKnows'
  BY <1>1 DEF Knows, PullsKnow, TagKnows
<1>3. ChecksKnow'
  <2>1. poll'.branch = channel /\ poll'.tag = head[channel] /\ (poll'.fresh => Resting)
    BY <1>1
  <2>2. Resting' = Resting
    BY <1>1 DEF Resting
  <2> QED
    BY <1>1, <2>1, <2>2 DEF Knows, ChecksKnow
<1> QED
  BY <1>2, <1>3 DEF Knows

\* Without git the tags decide: no banner means that the tag recorded is the branch's.
LEMMA DecideKnows == ASSUME AppTypeOK, Knows, ~git, CheckDecide PROVE Knows'
<1>1. /\ poll' = NoCheck /\ checked' = poll.fresh
      /\ UNCHANGED <<head, disk, etag, etagOf, channel, pulls>>
      /\ \/ Prior # NoTag /\ avail' = (poll.tag # Prior)
         \/ Prior = NoTag /\ avail' = TRUE
  BY DEF CheckDecide, heads, here
<1>2. PullsKnow' /\ TagKnows'
  BY <1>1 DEF Knows, PullsKnow, TagKnows
<1>3. ChecksKnow'
  <2>1. poll'.fresh = FALSE
    BY <1>1 DEF NoCheck
  <2>2. Resting' = Resting
    BY <1>1 DEF Resting
  <2>3. ASSUME poll.fresh, ~avail' PROVE etag = head[channel] /\ etagOf = channel
    <3>1. Prior # NoTag /\ poll.tag = Prior
      BY <1>1, <2>3
    <3>2. etag = Prior /\ ~(etagOf # NoTag /\ etagOf # poll.branch)
      BY <3>1 DEF Prior
    <3>3. etagOf \in Branches
      BY <3>1, <3>2 DEF Knows, TagKnows
    <3>4. NoTag \notin Branches
      BY AppSyncAssumption
    <3> QED
      BY <2>3, <3>1, <3>2, <3>3, <3>4 DEF Knows, ChecksKnow
  <2>4. poll.fresh => Resting
    BY DEF Knows, ChecksKnow
  <2> QED
    BY <1>1, <2>1, <2>2, <2>3, <2>4 DEF ChecksKnow
<1> QED
  BY <1>2, <1>3 DEF Knows

\* Another branch: nothing is recorded of it.
LEMMA SwitchKnows == ASSUME AppTypeOK, Knows, SwitchChannel PROVE Knows'
<1>1. /\ etag' = NoTag /\ poll'.fresh = FALSE /\ checked' = FALSE /\ UNCHANGED <<head, disk, pulls>>
  BY DEF SwitchChannel, Outdated, heads, AppTypeOK, Check
<1> QED
  BY <1>1 DEF Knows, PullsKnow, TagKnows, ChecksKnow

\* A release only adds: a branch's version grows, and what was below it stays below.
LEMMA ReleaseKnows ==
  ASSUME AppTypeOK, Knows, NEW b \in Branches, AppRelease(b), ~crossed'
  PROVE  Knows'
<1>1. /\ versions' = versions + 1 /\ head' = [head EXCEPT ![b] = versions + 1]
      /\ poll'.fresh = FALSE /\ checked' = FALSE
      /\ UNCHANGED <<disk, etag, etagOf, channel, pulls>>
      /\ \A p \in Pullers : ~(pulls[p].pc = "head" /\ pulls[p].branch = b)
  BY DEF AppRelease, Outdated, state, here, AppTypeOK, Check
<1>2. \A c \in Branches : /\ head[c] \in Nat /\ head'[c] \in Nat /\ head[c] <= head'[c]
                          /\ c # b => head'[c] = head[c]
  <2>1. \A c \in Branches : head[c] \in Nat /\ head[c] <= versions /\ versions \in Nat
    BY VersionIs DEF AppTypeOK
  <2> QED
    BY <1>1, <2>1 DEF AppTypeOK
<1>3. PullsKnow'
  <2>1. \A p, q \in Pullers : pulls[p].pc # "idle" /\ pulls[q].pc # "idle" => p = q
    BY DEF Knows, PullsKnow
  <2>2. ASSUME NEW p \in Pullers
        PROVE  /\ pulls[p].pc # "idle" /\ pulls[p].branch # channel => etag = NoTag
               /\ pulls[p].pc = "head" => pulls[p].got = head'[pulls[p].branch]
               /\ pulls[p].pc \in {"copy", "record"} =>
                    /\ pulls[p].got <= head'[pulls[p].branch] /\ pulls[p].tag \in {pulls[p].got, NoTag}
                    /\ \A f \in Ships(pulls[p].got) \ pulls[p].left : disk[f] \in {pulls[p].got, Edited, Missing}
               /\ pulls[p].pc \in {"copy", "record"} /\ etag # NoTag /\ etagOf = channel => etag <= pulls[p].got
    <3>1. pulls[p].pc # "idle" => pulls[p].branch \in Branches
      BY DEF AppTypeOK
    <3>2. pulls[p].pc \in {"copy", "record"} => pulls[p].got \in Nat
      BY VersionIs DEF AppTypeOK
    <3>3. pulls[p].pc = "head" => pulls[p].got = head'[pulls[p].branch]
      BY <1>1, <1>2, <3>1 DEF Knows, PullsKnow
    <3>4. pulls[p].pc \in {"copy", "record"} => pulls[p].got <= head'[pulls[p].branch]
      <4>1. SUFFICES ASSUME pulls[p].pc \in {"copy", "record"} PROVE pulls[p].got <= head'[pulls[p].branch]
        OBVIOUS
      <4>2. pulls[p].got <= head[pulls[p].branch]
        BY <4>1 DEF Knows, PullsKnow
      <4> DEFINE c == pulls[p].branch
      <4>3. c \in Branches
        BY <3>1, <4>1
      <4>4. head[c] \in Nat /\ head'[c] \in Nat /\ head[c] <= head'[c]
        BY <1>2, <4>3
      <4> QED
        BY <3>2, <4>1, <4>2, <4>4
    <3> QED
      BY <3>3, <3>4 DEF Knows, PullsKnow
  <2> QED
    BY <1>1, <2>1, <2>2 DEF PullsKnow
<1>4. TagKnows'
  <2>1. etag # NoTag => etagOf \in Branches /\ etag <= head'[etagOf]
    <3>1. SUFFICES ASSUME etag # NoTag PROVE etagOf \in Branches /\ etag <= head'[etagOf]
      OBVIOUS
    <3>2. etagOf \in Branches /\ etag <= head[etagOf] /\ etag \in Nat
      BY <3>1, VersionIs DEF AppTypeOK, Knows, TagKnows
    <3>3. head[etagOf] \in Nat /\ head'[etagOf] \in Nat /\ head[etagOf] <= head'[etagOf]
      BY <1>2, <3>2
    <3> QED
      BY <3>2, <3>3
  <2>2. ASSUME etag # NoTag, etagOf = channel, NEW f \in Ships(etag)
        PROVE  \/ disk[f] \in {etag, Edited, Missing}
               \/ disk[f] \in Versions /\ etag < disk[f] /\ disk[f] <= head'[channel]
    <3>1. \/ disk[f] \in {etag, Edited, Missing}
          \/ disk[f] \in Versions /\ etag < disk[f] /\ disk[f] <= head[channel]
      BY <2>2 DEF Knows, TagKnows
    <3>2. head[channel] \in Nat /\ head'[channel] \in Nat /\ head[channel] <= head'[channel]
      BY <1>2 DEF AppTypeOK
    <3>3. disk[f] \in Versions => disk[f] \in Nat
      BY VersionIs
    <3> QED
      BY <3>1, <3>2, <3>3
  <2> QED
    BY <1>1, <2>1, <2>2 DEF TagKnows
<1>5. ChecksKnow'
  BY <1>1 DEF ChecksKnow
<1> QED
  BY <1>3, <1>4, <1>5 DEF Knows

\* What the user writes or removes is his own.
LEMMA EditKnows == ASSUME AppTypeOK, Knows, NEW f \in AppFiles, AppEdit(f) PROVE Knows'
<1>1. /\ disk'[f] \in {Edited, Missing} /\ \A g \in AppFiles \ {f} : disk'[g] = disk[g]
      /\ UNCHANGED <<head, etag, etagOf, avail, channel, pulls, poll, checked>>
  BY DEF AppEdit, heads, state, here, AppTypeOK
<1>2. \A v : Ships(v) \subseteq AppFiles
  BY DEF Ships
<1>3. PullsKnow' /\ TagKnows'
  BY <1>1, <1>2 DEF Knows, PullsKnow, TagKnows
<1>4. ChecksKnow'
  BY <1>1 DEF Knows, ChecksKnow, Resting
<1> QED
  BY <1>3, <1>4 DEF Knows

\* Steps that change nothing of this.
LEMMA StillKnows ==
  ASSUME Knows, UNCHANGED <<head, disk, etag, etagOf, avail, channel, pulls, poll, checked>>
  PROVE  Knows'
<1>1. PullsKnow' /\ TagKnows'
  BY DEF Knows, PullsKnow, TagKnows
<1>2. ChecksKnow'
  BY DEF Knows, ChecksKnow, Resting
<1> QED
  BY <1>1, <1>2 DEF Knows

\* Every step keeps the invariant.
LEMMA AppStep == AppInv /\ [AppNext]_appVars => AppInv'
<1> SUFFICES ASSUME AppInv, [AppNext]_appVars PROVE AppInv'
  OBVIOUS
<1>1. AppTypeOK /\ GateHeld /\ AppTypeOK' /\ GateHeld'
  BY AppTypeStep, GateStep DEF AppInv
<1>2. git' = git /\ (crossed => crossed')
  BY <1>1 DEF AppNext, PullStart, PullGet, PullHead, PullCopy, PullBaseline, PullRecord,
     PullRaises, AppCrash,
              CheckHead, CheckDecide, SwitchChannel, GitPull, TrainerToggles, AppRelease,
              AppEdit, appVars, here, AppTypeOK
<1>3. SUFFICES ASSUME ~git, ~crossed, ~crossed', Knows PROVE Knows'
  BY <1>1, <1>2 DEF AppInv, Knows
<1>4. ASSUME NEW p \in Pullers, NEW force \in BOOLEAN, NEW ignoreTraining \in BOOLEAN,
             PullStart(p, force, ignoreTraining)
      PROVE  Knows'
  BY <1>1, <1>3, <1>4, StartKnows
<1>5. ASSUME NEW p \in Pullers,
             PullGet(p) \/ PullHead(p) \/ PullBaseline(p) \/ PullRecord(p) \/ PullRaises(p)
               \/ \E f \in AppFiles : PullCopy(p, f)
      PROVE  Knows'
  BY <1>1, <1>3, <1>5, PullKnows
<1>6. CASE AppCrash
  BY <1>1, <1>3, <1>6, CrashKnows
<1>7. CASE CheckHead
  BY <1>1, <1>3, <1>7, HeadKnows
<1>8. CASE CheckDecide
  BY <1>1, <1>3, <1>8, DecideKnows
<1>9. CASE SwitchChannel
  BY <1>1, <1>3, <1>9, SwitchKnows
<1>10. CASE GitPull
  BY <1>3, <1>10 DEF GitPull
<1>11. CASE TrainerToggles
  BY <1>3, <1>11, StillKnows DEF TrainerToggles, heads, state
<1>12. ASSUME NEW b \in Branches, AppRelease(b) PROVE Knows'
  BY <1>1, <1>3, <1>12, ReleaseKnows
<1>13. ASSUME NEW f \in AppFiles, AppEdit(f) PROVE Knows'
  BY <1>1, <1>3, <1>13, EditKnows
<1>14. CASE UNCHANGED appVars
  BY <1>3, <1>14, StillKnows DEF appVars, heads, state, here
<1> QED
  BY <1>4, <1>5, <1>6, <1>7, <1>8, <1>9, <1>10, <1>11, <1>12, <1>13, <1>14 DEF AppNext

\* The invariant the two theorems below rest on holds in every installation, with
\* or without git: what each pull was started over, and, as long as nothing has come
\* between a download and its ETag, what the ETag says of the sources.
THEOREM AppInvariance == AppSpec => []AppInv
  BY AppInitInv, AppStep, PTL DEF AppSpec

\* EditsSurvive: no pull that was not told to force copies a file over an edit it found
\* there when it began, where the baseline it went by had that file.
THEOREM EditsAreKept == AppSpec => []EditsSurvive
<1>1. AppInv => EditsSurvive
  BY DEF AppInv, GateHeld, EditsSurvive, Clobbers
<1> QED
  BY <1>1, AppInvariance, PTL

\* NoMissedUpdate: a check that finds nothing to update, with nothing come between,
\* leaves only the branch's latest sources and the user's own.
THEOREM UpdatesAreSeen == AppSpec => []NoMissedUpdate
<1>1. AppInv => NoMissedUpdate
  <2> SUFFICES ASSUME AppInv, checked, ~avail, ~git, ~crossed, NEW f \in Ships(head[channel])
               PROVE  disk[f] \in {head[channel], Edited, Missing}
    BY DEF NoMissedUpdate
  <2>1. channel \in Branches /\ head[channel] \in Nat /\ head[channel] # NoTag
    BY HeadIs, VersionIs DEF AppInv, AppTypeOK
  <2>2. etag = head[channel] /\ etagOf = channel
    BY DEF AppInv, ChecksKnow
  <2>3. \/ disk[f] \in {etag, Edited, Missing}
        \/ disk[f] \in Versions /\ etag < disk[f] /\ disk[f] <= head[channel]
    BY <2>1, <2>2 DEF AppInv, TagKnows
  <2>4. disk[f] \in Versions => disk[f] \in Nat
    BY VersionIs
  <2> QED
    BY <2>1, <2>2, <2>3, <2>4
<1> QED
  BY <1>1, AppInvariance, PTL

-----------------------------------------------------------------------------
(* CorpusSync. In the middle of an install the files are not disjoint.     *)

\* As long as no fault has come, a training file and its validation file are disjoint
\* and a hashed one is whole, whatever a removal does during an install.  In the middle
\* of an install neither holds: a fresh training file stands beside the validation file
\* of the last split.  CorpusInv says what brings them apart again: which steps an entry
\* of its kind can be at, and that a split has put aside exactly what it will cut off.

\* An entry starts with no file.
LEMMA CorpusInitInv == CorpusInit => CorpusInv
BY DEF CorpusInit, CorpusInv, Route, Pieces, Stages, Verified, Fresh

\* A fault ends what CorpusInv says; every other step keeps it.
LEMMA CorpusStepInv == CorpusInv /\ [CorpusNext]_corpusVars => CorpusInv'
<1> SUFFICES ASSUME CorpusInv, [CorpusNext]_corpusVars PROVE CorpusInv'
  OBVIOUS
<1>1. CASE CorpusFault \/ CorpusCrash
  BY <1>1, CorpusSyncAssumption DEF CorpusFault, CorpusCrash, CorpusInv
<1>2. CASE ~(CorpusFault \/ CorpusCrash)
  <2>1. UNCHANGED corpusFaults
    BY <1>2 DEF CorpusNext, corpusVars, Only, CorpusStart, GetTrain, ExtractLargest, ExtractTrain,
       ExtractVal, VerifyTrain, GetVal, VerifyVal, StreamTrain, StreamVal, CopyTrain, CopyVal,
       SplitRead, SplitWrite, SplitTruncate, RemoveTrain, RemoveVal
  <2>2. SUFFICES ASSUME Route, Pieces, Stages PROVE Route' /\ Pieces' /\ Stages'
    BY <2>1 DEF CorpusInv
  <2>pieces. /\ Zip \subseteq 0 .. 4 /\ Whole \subseteq 0 .. 4 /\ 1 .. 2 \subseteq 0 .. 4
             /\ Whole \subseteq 1 .. 4 /\ 1 .. 2 \subseteq 1 .. 4
             /\ Own \subseteq 1 .. 6 /\ Own \cap (0 .. 4) = {} /\ Zip \cap (1 .. 6) = {}
             /\ OwnShort \subseteq 1 .. 6 /\ OwnShort \cap (0 .. 4) = {}
    BY DEF Zip, Whole, Own, OwnShort
  <2> USE DEF Go, Only, entryVars
  <2>3. CASE CorpusStart
    BY <2>2, <2>3 DEF CorpusStart, Route, Pieces, Stages, Verified, Fresh, ValStep, Zip, Whole,
       Own, OwnShort
  <2>4. CASE GetTrain
    <3>1. Route'
      BY <2>2, <2>4 DEF GetTrain, Route, Pieces, Stages, Verified, Fresh, ValStep
    <3>2. Pieces'
      BY <2>2, <2>4, <2>pieces DEF GetTrain, Route, Pieces, Stages, Verified, Fresh, ValStep
    <3>3. Stages'
      BY <2>2, <2>4, <2>pieces DEF GetTrain, Route, Pieces, Stages, Verified, Fresh, ValStep
    <3>4. QED
      BY <3>1, <3>2, <3>3
  <2>5. CASE ExtractLargest
    <3>1. Route'
      BY <2>2, <2>5 DEF ExtractLargest, Route, Pieces, Stages, Verified, Fresh, ValStep
    <3>2. Pieces'
      BY <2>2, <2>5, <2>pieces DEF ExtractLargest, Route, Pieces, Stages, Verified, Fresh, ValStep
    <3>3. Stages'
      BY <2>2, <2>5, <2>pieces DEF ExtractLargest, Route, Pieces, Stages, Verified, Fresh, ValStep
    <3>4. QED
      BY <3>1, <3>2, <3>3
  <2>6. CASE ExtractTrain
    <3>1. Route'
      BY <2>2, <2>6 DEF ExtractTrain, Route, Pieces, Stages, Verified, Fresh, ValStep
    <3>2. Pieces'
      BY <2>2, <2>6, <2>pieces DEF ExtractTrain, Route, Pieces, Stages, Verified, Fresh, ValStep
    <3>3. Stages'
      BY <2>2, <2>6, <2>pieces DEF ExtractTrain, Route, Pieces, Stages, Verified, Fresh, ValStep
    <3>4. QED
      BY <3>1, <3>2, <3>3
  <2>7. CASE ExtractVal
    <3>1. Route'
      BY <2>2, <2>7 DEF ExtractVal, Route, Pieces, Stages, Verified, Fresh, ValStep
    <3>2. Pieces'
      BY <2>2, <2>7, <2>pieces DEF ExtractVal, Route, Pieces, Stages, Verified, Fresh, ValStep
    <3>3. Stages'
      BY <2>2, <2>7, <2>pieces DEF ExtractVal, Route, Pieces, Stages, Verified, Fresh, ValStep
    <3>4. QED
      BY <3>1, <3>2, <3>3
  <2>8. CASE VerifyTrain
    <3>1. Route'
      BY <2>2, <2>8 DEF VerifyTrain, Route, Pieces, Stages, Verified, Fresh, ValStep
    <3>2. Pieces'
      BY <2>2, <2>8, <2>pieces DEF VerifyTrain, Route, Pieces, Stages, Verified, Fresh, ValStep
    <3>3. Stages'
      BY <2>2, <2>8, <2>pieces DEF VerifyTrain, Route, Pieces, Stages, Verified, Fresh, ValStep
    <3>4. QED
      BY <3>1, <3>2, <3>3
  <2>9. CASE GetVal
    <3>1. Route'
      BY <2>2, <2>9 DEF GetVal, Route
    <3>2. Pieces'
      BY <2>2, <2>9, <2>pieces DEF GetVal, Pieces, Route
    <3>3. Stages'
      BY <2>2, <2>9, <2>pieces DEF GetVal, Route, Pieces, Stages, Verified, Fresh
    <3>4. QED
      BY <3>1, <3>2, <3>3
  <2>10. CASE VerifyVal
    BY <2>2, <2>10 DEF VerifyVal, Route, Pieces, Stages, Verified, Fresh, ValStep, Zip, Whole,
       Own, OwnShort
  <2>11. CASE StreamTrain
    BY <2>2, <2>11 DEF StreamTrain, Route, Pieces, Stages, Verified, Fresh, ValStep, Zip, Whole,
       Own, OwnShort
  <2>12. CASE StreamVal
    BY <2>2, <2>12 DEF StreamVal, Route, Pieces, Stages, Verified, Fresh, ValStep, Zip, Whole,
       Own, OwnShort
  <2>13. CASE CopyTrain
    BY <2>2, <2>13 DEF CopyTrain, Route, Pieces, Stages, Verified, Fresh, ValStep, Zip, Whole,
       Own, OwnShort
  <2>14. CASE CopyVal
    BY <2>2, <2>14 DEF CopyVal, Route, Pieces, Stages, Verified, Fresh, ValStep, Zip, Whole, Own,
       OwnShort
  <2>15. CASE SplitRead
    <3>1. Route'
      BY <2>2, <2>15 DEF SplitRead, Route, Pieces, Stages, Verified, Fresh, ValStep
    <3>2. Pieces'
      BY <2>2, <2>15, <2>pieces DEF SplitRead, Route, Pieces, Stages, Verified, Fresh, ValStep
    <3>3. {p \in Whole : \A q \in Whole : q <= p} = {4}
      BY DEF Whole
    <3>4. Stages'
      BY <2>2, <2>15, <3>3 DEF SplitRead, Route, Pieces, Stages, Verified, Fresh
    <3>5. QED
      BY <3>1, <3>2, <3>4
  <2>16. CASE SplitWrite
    BY <2>2, <2>16 DEF SplitWrite, Route, Pieces, Stages, Verified, Fresh, ValStep, Zip, Whole,
       Own, OwnShort
  <2>17. CASE SplitTruncate
    BY <2>2, <2>17 DEF SplitTruncate, Route, Pieces, Stages, Verified, Fresh, ValStep, Zip, Whole,
       Own, OwnShort
  <2>18. CASE RemoveTrain
    BY <2>2, <2>18 DEF RemoveTrain, Route, Pieces, Stages, Verified, Fresh, ValStep, Zip, Whole,
       Own, OwnShort
  <2>19. CASE RemoveVal
    BY <2>2, <2>19 DEF RemoveVal, Route, Pieces, Stages, Verified, Fresh, ValStep, Zip, Whole,
       Own, OwnShort
  <2>20. CASE UNCHANGED corpusVars
    BY <2>2, <2>20 DEF corpusVars, Route, Pieces, Stages, Verified, Fresh
  <2>21. QED
    BY <1>2, <2>3, <2>4, <2>5, <2>6, <2>7, <2>8, <2>9, <2>10, <2>11, <2>12, <2>13, <2>14, <2>15,
       <2>16, <2>17, <2>18, <2>19, <2>20 DEF CorpusNext
<1>3. QED
  BY <1>1, <1>2

\* CorpusInv holds in every reachable state.
THEOREM CorpusInvariance == CorpusSpec => []CorpusInv
BY CorpusInitInv, CorpusStepInv, PTL DEF CorpusSpec

\* TrainValDisjoint: as long as no install was cut off, no byte a model is trained on
\* between installs is also one it is validated on.
THEOREM SplitsStayDisjoint == CorpusSpec => []TrainValDisjoint
<1>1. CorpusInv => TrainValDisjoint
  BY DEF CorpusInv, Stages, TrainValDisjoint
<1>2. QED
  BY <1>1, CorpusInvariance, PTL

\* HashedIsVerified: and a corpus with a hash is then the one hashed, or what the
\* split left of it.
THEOREM HashesStayVerified == CorpusSpec => []HashedIsVerified
<1>1. CorpusInv => HashedIsVerified
  BY DEF CorpusInv, Stages, Verified, Fresh, HashedIsVerified
<1>2. QED
  BY <1>1, CorpusInvariance, PTL

\* What an install has in hand and what the files may hold keep each other: train.bin
\* is what a step left of what the one before had.
LEMMA CorpusTypeStep ==
  CorpusTypeOK /\ InHand /\ [CorpusNext]_corpusVars => CorpusTypeOK' /\ InHand'
<1> SUFFICES ASSUME CorpusTypeOK, InHand, [CorpusNext]_corpusVars PROVE CorpusTypeOK' /\ InHand'
  OBVIOUS
<1>0. /\ Whole = 1 .. 4 /\ Zip = {0} /\ Own = {5} /\ OwnShort = {6}
      /\ Whole \ {4} = 1 .. 3 /\ (1 .. 2) \ {2} = {1} /\ {} \ tail = {}
      /\ {q \in Whole : \A r \in Whole : r <= q} = {4}
      /\ {q \in 1 .. 2 : \A r \in 1 .. 2 : r <= q} = {2}
  BY DEF Whole, Zip, Own, OwnShort
<1> DEFINE Trains == {{}, Zip, Whole, 1 .. 3, 1 .. 2, {1}}
           Vals == {{}, Own, OwnShort, {4}, {2}, {3}}
           Tails == {{}, {2}, {3}, {4}}
<1>1. /\ train \in Trains /\ val \in Vals /\ tail \in Tails
      /\ corpusFaults \in 0 .. MaxCorpusFaults /\ ucp \in {"idle", "val"}
  BY DEF CorpusTypeOK
<1>2. ASSUME train' \in Trains, val' \in Vals, tail' \in Tails,
             UNCHANGED <<corpusFaults, ucp>>
      PROVE  CorpusTypeOK'
  BY <1>1, <1>2 DEF CorpusTypeOK
<1> HIDE DEF Trains, Vals, Tails
<1>3. /\ {{}, Zip, Whole, 1 .. 3, 1 .. 2, {1}} = Trains /\ {{}, Own, OwnShort, {4}, {2}, {3}} = Vals
      /\ {{}, {2}, {3}, {4}} = Tails
  BY DEF Trains, Vals, Tails
<1>4. ASSUME icp' \notin {"bundleVal", "sha", "read", "write", "truncate"}
      PROVE  InHand'
  BY <1>4 DEF InHand
<1>5. ASSUME icp' \in {"bundleVal", "sha", "read"}, train' \in {{}, Whole, 1 .. 2}
      PROVE  InHand'
  BY <1>5 DEF InHand
<1>6. ASSUME UNCHANGED <<icp, tail>>, train' \in {{}, train}
      PROVE  InHand'
  BY <1>6 DEF InHand
<1>7. ValStep \in {"val", "read", "idle"}
  BY DEF ValStep
<1> USE DEF Go, Only
<1>8. CASE CorpusStart \/ GetVal \/ VerifyVal \/ StreamVal \/ CopyTrain \/ CopyVal
  <2>1. icp' \notin {"bundleVal", "sha", "read", "write", "truncate"}
    BY <1>8 DEF CorpusStart, GetVal, VerifyVal, StreamVal, CopyTrain, CopyVal
  <2>2. train' \in {train, Whole} /\ val' \in {val, {}, Own, OwnShort} /\ UNCHANGED <<tail, corpusFaults, ucp>>
    BY <1>8 DEF CorpusStart, GetVal, VerifyVal, StreamVal, CopyTrain, CopyVal
  <2> QED
    BY <1>1, <1>2, <1>3, <1>4, <2>1, <2>2
<1>9. CASE GetTrain
  <2>1. /\ train' \in {train, Whole, 1 .. 2, Zip} /\ UNCHANGED <<val, tail, corpusFaults, ucp>>
        /\ icp' \in {"idle", "sha", "extract", "bundle"} /\ (icp' = "sha" => train' \in {Whole, 1 .. 2})
    BY <1>9 DEF GetTrain
  <2> QED
    BY <1>1, <1>2, <1>3, <1>4, <1>5, <2>1
<1>10. CASE ExtractLargest \/ ExtractTrain \/ ExtractVal
  <2>1. /\ train' \in {train, Whole} /\ val' \in {val, Own} /\ UNCHANGED <<tail, corpusFaults, ucp>>
        /\ icp' \in {"idle", "sha", "bundleVal"}
    BY <1>10 DEF ExtractLargest, ExtractTrain, ExtractVal
  <2>2. icp' \in {"sha", "bundleVal"} => train' \in {{}, Whole, 1 .. 2}
    BY <1>10 DEF ExtractLargest, ExtractTrain, ExtractVal, InHand
  <2> QED
    BY <1>1, <1>2, <1>3, <1>4, <1>5, <2>1, <2>2
<1>11. CASE VerifyTrain
  <2>1. /\ train' \in {train, {}} /\ UNCHANGED <<val, tail, corpusFaults, ucp>> /\ icp = "sha"
        /\ icp' \in {"idle", "val", "read"}
    BY <1>7, <1>11 DEF VerifyTrain
  <2>2. train' \in {{}, Whole, 1 .. 2}
    BY <2>1 DEF InHand
  <2> QED
    BY <1>1, <1>2, <1>3, <1>4, <1>5, <2>1, <2>2
<1>12. CASE StreamTrain
  <2>1. /\ train' \in {train, Whole} /\ UNCHANGED <<val, tail, corpusFaults, ucp>>
        /\ icp' \in {"idle", "val", "read"} /\ (icp' = "read" => train' = Whole)
    BY <1>7, <1>12 DEF StreamTrain
  <2> QED
    BY <1>1, <1>2, <1>3, <1>4, <1>5, <2>1
<1>13. CASE SplitRead
  <2>1. train \in {{}, Whole, 1 .. 2} /\ UNCHANGED <<train, val, corpusFaults, ucp>>
    BY <1>13 DEF SplitRead, InHand
  <2>2. CASE train = {}
    <3>1. icp' = "idle" /\ tail' = tail
      BY <1>13, <2>2 DEF SplitRead
    <3> QED
      BY <1>1, <1>2, <1>4, <2>1, <3>1
  <2>3. CASE train # {}
    <3>1. icp' = "write" /\ tail' = {q \in train : \A r \in train : r <= q}
      BY <1>13, <2>3 DEF SplitRead
    <3>2. (train = Whole /\ tail' = {4}) \/ (train = 1 .. 2 /\ tail' = {2})
      <4>1. CASE train = Whole
        <5>1. tail' = {q \in Whole : \A r \in Whole : r <= q}
          BY <3>1, <4>1
        <5> QED
          BY <1>0, <4>1, <5>1
      <4>2. CASE train = 1 .. 2
        <5>1. tail' = {q \in 1 .. 2 : \A r \in 1 .. 2 : r <= q}
          BY <3>1, <4>2
        <5> QED
          BY <1>0, <4>2, <5>1
      <4> QED
        BY <2>1, <2>3, <4>1, <4>2
    <3>3. InHand'
      BY <2>1, <3>1, <3>2 DEF InHand
    <3> QED
      BY <1>1, <1>2, <1>3, <2>1, <3>2, <3>3
  <2> QED
    BY <2>2, <2>3
<1>14. CASE SplitWrite
  <2>1. icp = "write" /\ icp' = "truncate" /\ val' = tail /\ UNCHANGED <<train, tail, corpusFaults, ucp>>
    BY <1>14 DEF SplitWrite
  <2>2. InHand'
    BY <2>1 DEF InHand
  <2>3. val' \in Vals
    BY <1>1, <1>3, <2>1
  <2> QED
    BY <1>1, <1>2, <2>1, <2>2, <2>3
<1>15. CASE SplitTruncate
  <2>1. icp = "truncate" /\ icp' = "idle" /\ train' = train \ tail /\ UNCHANGED <<val, tail, corpusFaults, ucp>>
    BY <1>15 DEF SplitTruncate
  <2>2. train' \in {{}, 1 .. 3, {1}}
    BY <1>0, <2>1 DEF InHand
  <2> QED
    BY <1>1, <1>2, <1>3, <1>4, <2>1, <2>2
<1>16. CASE RemoveTrain \/ RemoveVal
  <2>1. /\ UNCHANGED <<icp, tail, corpusFaults>> /\ train' \in {{}, train} /\ val' \in {{}, val}
        /\ ucp' \in {"idle", "val"}
    BY <1>16 DEF RemoveTrain, RemoveVal
  <2>2. train' \in Trains /\ val' \in Vals /\ tail' \in Tails
    BY <1>1, <1>3, <2>1
  <2> QED
    BY <1>1, <1>3, <1>6, <2>1, <2>2 DEF CorpusTypeOK
<1>17. CASE CorpusFault \/ CorpusCrash
  <2>1. /\ icp' = "idle" /\ UNCHANGED <<train, val, tail>> /\ ucp' \in {ucp, "idle"}
        /\ corpusFaults < MaxCorpusFaults /\ corpusFaults' = corpusFaults + 1
    BY <1>17 DEF CorpusFault, CorpusCrash
  <2>2. corpusFaults' \in 0 .. MaxCorpusFaults
    BY <1>1, <2>1, CorpusSyncAssumption
  <2> QED
    BY <1>1, <1>3, <1>4, <2>1, <2>2 DEF CorpusTypeOK
<1>18. CASE UNCHANGED corpusVars
  BY <1>18 DEF corpusVars, CorpusTypeOK, InHand
<1> QED
  BY <1>8, <1>9, <1>10, <1>11, <1>12, <1>13, <1>14, <1>15, <1>16, <1>17, <1>18 DEF CorpusNext

\* No corpus, and no install.
LEMMA CorpusTypeInit == CorpusInit => CorpusTypeOK /\ InHand
BY CorpusSyncAssumption DEF CorpusInit, CorpusTypeOK, InHand

-----------------------------------------------------------------------------
(* The server has the three at once.                                       *)

\* InstallInv: what the three installers' properties rest on holds of the server that
\* has all three, as a step of one leaves the others' files and locks alone.
THEOREM InstallInvariance == Spec => []InstallInv
<1> DEFINE I == InstallInv /\ InHand
<1>1. Init => I
  <2>1. Init => SyncInit /\ AppInit /\ CorpusInit
    BY DEF Init
  <2> QED
    BY <2>1, SyncInitHolds, AppInitInv, CorpusInitInv, CorpusTypeInit DEF InstallInv
<1>2. I /\ [Next]_vars => I'
  <2> SUFFICES ASSUME I, [Next]_vars
               PROVE  I'
    OBVIOUS
  <2>1. [SyncNext]_syncVars /\ [AppNext]_appVars /\ [CorpusNext]_corpusVars
    BY DEF Next, vars
  <2>2. SyncTypeOK /\ AppInv /\ CorpusTypeOK /\ CorpusInv /\ InHand
    BY DEF InstallInv
  <2>3. SyncTypeOK'
    BY <2>1, <2>2, SyncTypeStep
  <2>4. AppInv'
    BY <2>1, <2>2, AppStep
  <2>5. CorpusTypeOK' /\ InHand'
    BY <2>1, <2>2, CorpusTypeStep
  <2>6. CorpusInv'
    BY <2>1, <2>2, CorpusStepInv
  <2> QED
    BY <2>3, <2>4, <2>5, <2>6 DEF InstallInv
<1>3. I => InstallInv
  OBVIOUS
<1> QED
  BY <1>1, <1>2, <1>3, PTL DEF Spec
=============================================================================
