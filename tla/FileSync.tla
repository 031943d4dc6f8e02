------------------------------ MODULE FileSync ------------------------------
(***************************************************************************)
(* The three-state file sync of the dashboard: trainers_sync.py and        *)
(* models_sync.py over sync_common.py.  Each compares, for every file, what*)
(* is on disk, what the last sync recorded and what the remote has, and    *)
(* acts on the difference.  The user edits files meanwhile, the remote     *)
(* moves, and the server may end at any point.                             *)
(***************************************************************************)
EXTENDS Naturals, FiniteSets

CONSTANTS
  SyncFiles, Edits,      \* paths, and contents only a user writes
  Gone, Torn, Unset,     \* no file; a part of one; no entry, no action given
  EditsDuring,           \* may the user change a file while a sync runs
  MaxReleases, MaxEdits, MaxSyncFaults  \* bounds

ASSUME FileSyncAssumption ==
  /\ MaxReleases \in Nat /\ MaxEdits \in Nat /\ MaxSyncFaults \in Nat
  /\ MaxReleases > 0 /\ SyncFiles \cap {"idle", "sync"} = {}
  /\ Edits \cap (1 .. MaxReleases) = {} /\ Gone \notin Edits /\ Torn \notin Edits

VARIABLES
  kind,      \* "trainers" or "models"
  upstream,  \* what the remote has of each file
  local,     \* what the disk has
  tracked,   \* the state file
  syncPc,    \* "idle", "sync", or the file a trainers' sync has opened
  tree, rows, shas, entries, todo,  \* locals of sync(): see SyncStart
  wanted,    \* the action asked for the last row handled
  releases, edited, touched, syncFaults     \* counters, and files the user has changed

remoteVars == <<upstream, releases>>
userVars   == <<edited, touched>>
callVars   == <<tree, rows, shas>>
syncVars   == <<kind, upstream, local, tracked, syncPc, tree, wanted, rows, shas,
                entries, todo, releases, edited, touched, syncFaults>>

Published == 1 .. MaxReleases
Contents  == Published \cup Edits \cup {Torn, Gone}
States    == {"missing", "current", "update_available", "modified", "conflict", "orphan"}
Acts      == {"install", "update", "force", "adopt", "delete", "skip"}

SyncInit ==
  /\ kind \in {"trainers", "models"}
  /\ upstream = [f \in SyncFiles |-> 1] /\ releases = 1
  /\ local = [f \in SyncFiles |-> Gone] /\ tracked = [f \in SyncFiles |-> Unset]
  /\ syncPc = "idle" /\ todo = {} /\ entries = tracked
  /\ tree = local /\ shas = local /\ wanted = Unset /\ rows = [f \in SyncFiles |-> "orphan"]
  /\ edited = 0 /\ touched = {} /\ syncFaults = 0

-----------------------------------------------------------------------------
(* sync_common.py                                                          *)

\* classify_one of a file with l on disk, u in the remote and t recorded.
Classify(l, u, t) ==
  IF u = Gone THEN "orphan" ELSE IF l = Gone THEN "missing"
  ELSE IF l = u THEN "current"
  ELSE IF t = Unset THEN "modified"
  ELSE IF l = t THEN "update_available"
  ELSE IF u = t THEN "modified" ELSE "conflict"

\* classify_set has rows for these.
Listed == {f \in SyncFiles : upstream[f] # Gone \/ tracked[f] # Unset}

\* default_action_for_state where no action was asked for; a file that is not
\* missing is not installed but updated.
Resolved(f, w) ==
  LET a == IF w # Unset THEN w
           ELSE CASE rows[f] = "missing" -> "install"
                  [] rows[f] = "update_available" -> "update"
                  [] OTHER -> "skip"
  IN  IF a = "install" /\ rows[f] # "missing" THEN "update" ELSE a

-----------------------------------------------------------------------------
(* sync                                                                    *)

\* The remote is fetched, the state loaded and every file classified.  One sync
\* runs at a time: the trainers' holds its lock, the models' a flag.
SyncStart ==
  /\ syncPc = "idle" /\ syncPc' = "sync"
  /\ wanted' = Unset
  /\ tree' = upstream /\ shas' = local
  /\ rows' = [f \in SyncFiles |-> Classify(local[f], upstream[f], tracked[f])]
  /\ entries' = tracked /\ todo' = Listed
  /\ UNCHANGED <<kind, remoteVars, local, tracked, userVars, syncFaults>>

SyncSkip(f, w) ==
  /\ syncPc = "sync" /\ f \in todo
  /\ \/ Resolved(f, w) = "skip"
     \/ Resolved(f, w) = "delete" /\ (kind = "models" \/ rows[f] # "orphan")
     \/ Resolved(f, w) = "adopt" /\ shas[f] = Gone /\ local[f] = Gone
     \/ Resolved(f, w) \in {"install", "update", "force"} /\ tree[f] = Gone
     \/ Resolved(f, w) \in {"install", "update"} /\ rows[f] \in {"modified", "conflict"}
  /\ wanted' = w /\ todo' = todo \ {f}
  /\ UNCHANGED <<kind, remoteVars, local, tracked, syncPc, callVars, entries, userVars, syncFaults>>

SyncAdopt(f, w) ==
  /\ syncPc = "sync" /\ f \in todo /\ Resolved(f, w) = "adopt"
  /\ \/ shas[f] # Gone /\ entries' = [entries EXCEPT ![f] = shas[f]]
     \/ shas[f] = Gone /\ local[f] # Gone /\ entries' = [entries EXCEPT ![f] = local[f]]
  /\ wanted' = w /\ todo' = todo \ {f}
  /\ UNCHANGED <<kind, remoteVars, local, tracked, syncPc, callVars, userVars, syncFaults>>

SyncDelete(f, w) ==
  /\ syncPc = "sync" /\ f \in todo
  /\ kind = "trainers" /\ Resolved(f, w) = "delete" /\ rows[f] = "orphan"
  /\ local' = [local EXCEPT ![f] = Gone]
  /\ entries' = [entries EXCEPT ![f] = Unset] /\ wanted' = w /\ todo' = todo \ {f}
  /\ UNCHANGED <<kind, remoteVars, tracked, syncPc, callVars, userVars, syncFaults>>

\* Mutant: a changed file is overwritten without being told to.
WritesAny(f, w) ==
  f \in todo /\ Resolved(f, w) \in {"install", "update", "force"} /\ tree[f] # Gone

\* The remote's content is to be written over the file.
Writes(f, w) ==
  /\ f \in todo /\ tree[f] # Gone
  /\ \/ Resolved(f, w) = "force"
     \/ Resolved(f, w) \in {"install", "update"} /\ rows[f] \notin {"modified", "conflict"}

\* A trainer comes out of the tarball in memory; opening the file empties it.
SyncOpen(f, w) ==
  /\ syncPc = "sync" /\ kind = "trainers" /\ Writes(f, w)
  /\ local' = [local EXCEPT ![f] = Torn] /\ syncPc' = f /\ wanted' = w
  /\ UNCHANGED <<kind, remoteVars, tracked, callVars, entries, todo, userVars, syncFaults>>

\* Mutant: the state is saved before the last file is done.
SyncEndEarly ==
  /\ syncPc = "sync"
  /\ syncPc' = "idle" /\ tracked' = entries /\ wanted' = Unset
  /\ UNCHANGED <<kind, remoteVars, local, callVars, entries, todo, userVars, syncFaults>>

\* Mutant: the file is written but not recorded.
SyncWriteUnrecorded(f) ==
  /\ syncPc = f
  /\ local' = [local EXCEPT ![f] = tree[f]] /\ syncPc' = "sync"
  /\ todo' = todo \ {f}
  /\ UNCHANGED <<wanted, kind, remoteVars, tracked, callVars, entries, userVars, syncFaults>>

SyncWrite(f) ==
  /\ syncPc = f
  /\ local' = [local EXCEPT ![f] = tree[f]] /\ syncPc' = "sync"
  /\ entries' = [entries EXCEPT ![f] = tree[f]] /\ todo' = todo \ {f}
  /\ UNCHANGED <<wanted, kind, remoteVars, tracked, callVars, userVars, syncFaults>>

\* The write raises: what it left stays, unrecorded.
SyncWriteFails(f) ==
  /\ syncPc = f /\ syncFaults < MaxSyncFaults
  /\ syncFaults' = syncFaults + 1
  /\ syncPc' = "sync" /\ todo' = todo \ {f}
  /\ UNCHANGED <<kind, remoteVars, local, tracked, callVars, wanted, entries, userVars>>

\* A model file is streamed from the branch as it is by now, perhaps cut short,
\* and renamed into place; a failed download leaves everything.
SyncStream(f, w) ==
  /\ syncPc = "sync" /\ kind = "models" /\ Writes(f, w)
  /\ wanted' = w /\ todo' = todo \ {f}
  /\ \/ UNCHANGED <<local, entries>>
     \/ /\ upstream[f] # Gone
        /\ \E c \in {upstream[f], Torn} :
             /\ local' = [local EXCEPT ![f] = c] /\ entries' = [entries EXCEPT ![f] = c]
  /\ UNCHANGED <<kind, remoteVars, tracked, syncPc, callVars, userVars, syncFaults>>

\* save_state, once, at the end.
SyncEnd ==
  /\ syncPc = "sync" /\ todo = {}
  /\ syncPc' = "idle" /\ tracked' = entries /\ wanted' = Unset
  /\ UNCHANGED <<kind, remoteVars, local, callVars, entries, todo, userVars, syncFaults>>

SyncCrash ==
  /\ syncPc # "idle" /\ syncFaults < MaxSyncFaults
  /\ syncFaults' = syncFaults + 1
  /\ syncPc' = "idle" /\ todo' = {} /\ wanted' = Unset
  /\ UNCHANGED <<kind, remoteVars, local, tracked, callVars, entries, userVars>>

-----------------------------------------------------------------------------
(* The remote and the user                                                 *)

SyncRelease ==
  /\ releases < MaxReleases /\ releases' = releases + 1
  /\ \E f \in SyncFiles : \E c \in {releases + 1, Gone} : upstream' = [upstream EXCEPT ![f] = c]
  /\ UNCHANGED <<wanted, kind, local, tracked, syncPc, callVars, entries, todo, userVars, syncFaults>>

UserChanges ==
  /\ edited < MaxEdits /\ edited' = edited + 1
  /\ EditsDuring \/ syncPc = "idle"
  /\ \E f \in SyncFiles : \E c \in Edits \cup {Gone} :
       /\ local' = [local EXCEPT ![f] = c] /\ touched' = touched \cup {f}
  /\ UNCHANGED <<wanted, kind, remoteVars, tracked, syncPc, callVars, entries, todo, syncFaults>>

SyncNext ==
  \/ SyncStart \/ SyncEnd \/ SyncCrash \/ SyncRelease \/ UserChanges
  \/ \E f \in SyncFiles :
       \/ SyncWrite(f) \/ SyncWriteFails(f)
       \/ \E w \in Acts \cup {Unset} :
            SyncSkip(f, w) \/ SyncAdopt(f, w) \/ SyncDelete(f, w) \/ SyncOpen(f, w) \/ SyncStream(f, w)

SyncSpec == SyncInit /\ [][SyncNext]_syncVars

-----------------------------------------------------------------------------
(* Properties                                                              *)

\* SyncTypeOK: every variable has its type, and only a sync in progress has files to do.
SyncTypeOK ==
  /\ kind \in {"trainers", "models"} /\ syncPc \in {"idle", "sync"} \cup SyncFiles
  /\ upstream \in [SyncFiles -> Published \cup {Gone}] /\ tree \in [SyncFiles -> Published \cup {Gone}]
  /\ local \in [SyncFiles -> Contents]
  /\ tracked \in [SyncFiles -> Contents \cup {Unset}] /\ entries \in [SyncFiles -> Contents \cup {Unset}]
  /\ wanted \in Acts \cup {Unset}
  /\ shas \in [SyncFiles -> Contents] /\ rows \in [SyncFiles -> States]
  /\ releases \in Published /\ syncFaults \in Nat /\ touched \subseteq SyncFiles
  /\ todo \subseteq SyncFiles /\ (syncPc = "idle" => todo = {})
  /\ \A f \in SyncFiles : syncPc = f => f \in todo /\ kind = "trainers"

\* A step of a sync changes what the user wrote into f, though he did not ask this
\* sync to force or to delete f.
Unasked(f) ==
  /\ local[f] \in Edits /\ local'[f] # local[f] /\ edited' = edited
  /\ wanted' \notin {"force", "delete"}

\* NeverOverwritesUnadopted: a sync does so only to a content the user had it record
\* as the baseline, whatever the remote did and whichever syncs were cut short
\* (trainers_sync.py:357-363, models_sync.py:389-394).
NeverOverwritesUnadopted ==
  [][\A f \in SyncFiles : Unasked(f) => tracked[f] = local[f]]_syncVars

\* NeverOverwritesSilently: a sync never does so (sync_common.py:11).
NeverOverwritesSilently == [][\A f \in SyncFiles : ~Unasked(f)]_syncVars

\* UntouchedIsClean: between syncs, with no fault so far, a file the user has left alone
\* is what the state file says, so that the next sync brings it up to date
\* (sync_common.py:197-199).
UntouchedIsClean ==
  syncPc = "idle" /\ syncFaults = 0 =>
    \A f \in SyncFiles \ touched : local[f] # Gone => tracked[f] = local[f]
=============================================================================
