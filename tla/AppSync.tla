------------------------------- MODULE AppSync -------------------------------
(***************************************************************************)
(* The dashboard's updater, app_sync.py: a pull downloads the tarball of   *)
(* the branch followed and copies it over the sources, unless the user has *)
(* edited them; a poll compares the ETag of the last pull, or in a git     *)
(* checkout the commit, with the branch's.  The updater has no lock of its *)
(* own over a pull: the poll, releases, edits and other pulls come between *)
(* its steps, and the server may end at any of them.                       *)
(***************************************************************************)
EXTENDS Naturals, FiniteSets

CONSTANTS
  AppFiles, NewFiles,  \* the sources; those no version before the second has
  Branches, Pullers,   \* branches, the first tracked being any; requests that pull
  Missing, Edited, NoTag,     \* no file; the user's content; no ETag, no baseline
  StaleAt,             \* so many tracked files missing make the baseline obsolete
  MaxVersions, MaxPulls, MaxUserSteps, MaxAppFaults  \* bounds

ASSUME AppSyncAssumption ==
  /\ NewFiles \subseteq AppFiles /\ MaxVersions \in Nat \ {0} /\ StaleAt \in Nat
  /\ {Missing, Edited, NoTag} \cap (1 .. MaxVersions) = {} /\ NoTag \notin Branches

VARIABLES
  head, versions,  \* the version each branch has; how many there are
  disk, baseline,  \* the sources; what the last pull recorded of them
  git, commit,     \* is this a git checkout, and of which version
  channel, etag, etagOf, avail,  \* the branch chosen; pulled_etag, pulled_branch, the banner
  training,        \* does a trainer run
  pulls,           \* one record for each puller
  poll,            \* the check in progress
  pullsLeft, userLeft, appFaults,  \* bounds
  crossed, checked \* has a release or a pull come between a pull and what it records;
                   \* is the banner the answer of a check nothing came between

heads == <<head, versions>>
state == <<etag, etagOf, avail>>
here  == <<git, commit, channel, training>>
quota == <<pullsLeft, userLeft, appFaults>>
appVars == <<heads, disk, baseline, state, here, pulls, poll, quota, crossed, checked>>

Versions == 1 .. MaxVersions
Ships(v) == IF v = 1 THEN AppFiles \ NewFiles ELSE AppFiles
Idle     == [pc |-> "idle", branch |-> NoTag, force |-> FALSE, got |-> NoTag, tag |-> NoTag,
             left |-> {}, mine |-> {}, guarded |-> {}]
Resting  == \A p \in Pullers : pulls[p] = Idle
NoCheck  == [branch |-> NoTag, tag |-> NoTag, fresh |-> FALSE]

\* A check in progress, or done, no longer tells how things are.
Outdated == poll' = [poll EXCEPT !.fresh = FALSE] /\ checked' = FALSE

\* Nothing recorded, or what a pull of the first version has recorded.
AppInit ==
  /\ head = [b \in Branches |-> 1] /\ versions = 1
  /\ disk = [f \in AppFiles |-> IF f \in Ships(1) THEN 1 ELSE Missing]
  /\ git \in BOOLEAN /\ commit = 1 /\ training = FALSE
  /\ channel \in Branches /\ avail = FALSE
  /\ \/ baseline = [f \in AppFiles |-> NoTag] /\ etag = NoTag /\ etagOf = NoTag
     \/ baseline = [f \in AppFiles |-> IF f \in Ships(1) THEN 1 ELSE NoTag]
        /\ etag = 1 /\ etagOf = channel
  /\ pulls = [p \in Pullers |-> Idle] /\ poll = NoCheck
  /\ pullsLeft = MaxPulls /\ userLeft = MaxUserSteps /\ appFaults = 0 /\ crossed = FALSE /\ checked = FALSE

-----------------------------------------------------------------------------
(* pull_update                                                             *)

Tracked == {f \in AppFiles : baseline[f] # NoTag}

\* Mutant: edits are seen only where every file of the baseline has one.
LocalEditsAll ==
  /\ Tracked # {}
  /\ Cardinality({f \in Tracked : disk[f] = Missing}) < StaleAt
  /\ \A f \in Tracked : disk[f] # baseline[f]

\* local_edits, as the gate uses it: no baseline, or one that barely matches the disk,
\* protects nothing; files it does not have are left out.
LocalEdits ==
  /\ Tracked # {}
  /\ Cardinality({f \in Tracked : disk[f] = Missing}) < StaleAt
  /\ \E f \in Tracked : disk[f] # baseline[f]

\* What the gate of a pull lets through is what it protects: see EditsSurvive.
Guarded ==
  IF Cardinality({f \in Tracked : disk[f] = Missing}) < StaleAt THEN Tracked ELSE {}

\* The gates, and the branch of the tarball; a git checkout's own branch wins.
PullStart(p, force, ignoreTraining) ==
  /\ pulls[p] = Idle /\ pullsLeft > 0 /\ pullsLeft' = pullsLeft - 1
  /\ ignoreTraining \/ ~training
  /\ force \/ ~LocalEdits
  /\ pulls' = [pulls EXCEPT ![p] = [Idle EXCEPT !.pc = "get", !.branch = channel,
                 !.force = force, !.guarded = Guarded,
                 !.mine = {f \in AppFiles : disk[f] = Edited}]]
  /\ crossed' = (crossed \/ ~Resting) /\ Outdated
  /\ UNCHANGED <<heads, disk, baseline, state, here, userLeft, appFaults>>

\* A download that fails leaves everything.
PullGet(p) ==
  /\ pulls[p].pc = "get"
  /\ \/ pulls' = [pulls EXCEPT ![p] = Idle]
     \/ pulls' = [pulls EXCEPT ![p].pc = "head", ![p].got = head[pulls[p].branch]]
  /\ UNCHANGED <<heads, disk, baseline, state, here, poll, quota, crossed, checked>>

\* The tarball's ETag is asked for after it has been downloaded, and may not come.
PullHead(p) ==
  /\ pulls[p].pc = "head"
  /\ \E tag \in {head[pulls[p].branch], NoTag} :
       pulls' = [pulls EXCEPT ![p].pc = "copy", ![p].tag = tag, ![p].left = Ships(pulls[p].got)]
  /\ UNCHANGED <<heads, disk, baseline, state, here, poll, quota, crossed, checked>>

\* _extract_and_copy, one file; its hash is taken as soon as it is there.
PullCopy(p, f) ==
  /\ pulls[p].pc = "copy" /\ f \in pulls[p].left
  /\ disk' = [disk EXCEPT ![f] = pulls[p].got]
  /\ pulls' = [pulls EXCEPT ![p].left = @ \ {f}]
  /\ UNCHANGED <<heads, baseline, state, here, poll, quota, crossed, checked>>

\* Mutant: the files that cannot be written are left out, and the pull goes on.
PullRaisesGoesOn(p) ==
  /\ pulls[p].pc = "copy" /\ appFaults < MaxAppFaults /\ appFaults' = appFaults + 1
  /\ pulls' = [pulls EXCEPT ![p].left = {}]
  /\ UNCHANGED <<heads, disk, baseline, state, here, poll, pullsLeft, userLeft, crossed, checked>>

\* A file that cannot be written ends the pull with nothing recorded.
PullRaises(p) ==
  /\ pulls[p].pc = "copy" /\ appFaults < MaxAppFaults /\ appFaults' = appFaults + 1
  /\ pulls' = [pulls EXCEPT ![p] = Idle]
  /\ UNCHANGED <<heads, disk, baseline, state, here, poll, pullsLeft, userLeft, crossed, checked>>

\* _write_baseline; failing to is not fatal.
PullBaseline(p) ==
  /\ pulls[p].pc = "copy" /\ pulls[p].left = {}
  /\ pulls' = [pulls EXCEPT ![p].pc = "record"]
  /\ \/ /\ baseline' = [f \in AppFiles |-> IF f \in Ships(pulls[p].got) THEN pulls[p].got ELSE NoTag]
        /\ appFaults' = appFaults
     \/ appFaults < MaxAppFaults /\ appFaults' = appFaults + 1 /\ UNCHANGED baseline
  /\ UNCHANGED <<heads, disk, state, here, poll, pullsLeft, userLeft, crossed, checked>>

PullRecord(p) ==
  /\ pulls[p].pc = "record"
  /\ etag' = pulls[p].tag /\ etagOf' = pulls[p].branch /\ avail' = FALSE
  /\ pulls' = [pulls EXCEPT ![p] = Idle]
  /\ UNCHANGED <<heads, disk, baseline, here, poll, quota, crossed, checked>>

\* The server ends: every pull and check with it.  What it wrote stays.
AppCrash ==
  /\ ~Resting /\ appFaults < MaxAppFaults /\ appFaults' = appFaults + 1
  /\ pulls' = [p \in Pullers |-> Idle] /\ poll' = NoCheck
  /\ UNCHANGED <<heads, disk, baseline, state, here, pullsLeft, userLeft, crossed, checked>>

-----------------------------------------------------------------------------
(* check_update and switch_channel                                         *)

\* HEAD of the tarball; a network error changes nothing.
CheckHead ==
  /\ poll = NoCheck
  /\ poll' = [branch |-> channel, tag |-> head[channel], fresh |-> Resting]
  /\ UNCHANGED <<heads, disk, baseline, state, here, pulls, quota, crossed, checked>>

\* A tag of another branch says nothing of this one.
Prior == IF etagOf # NoTag /\ etagOf # poll.branch THEN NoTag ELSE etag

\* With an answer of the compare API the commit decides, otherwise the tags.  A git
\* checkout that has no tag yet takes the remote's.
CheckDecide ==
  /\ poll # NoCheck /\ poll' = NoCheck /\ checked' = poll.fresh
  /\ \/ /\ git /\ avail' = (head[poll.branch] > commit)
        /\ IF avail' THEN UNCHANGED <<etag, etagOf>>
           ELSE etag' = poll.tag /\ etagOf' = poll.branch
     \/ Prior # NoTag /\ avail' = (poll.tag # Prior) /\ UNCHANGED <<etag, etagOf>>
     \/ Prior = NoTag /\ git /\ avail' = FALSE /\ etag' = poll.tag /\ etagOf' = poll.branch
     \/ Prior = NoTag /\ ~git /\ avail' = TRUE /\ UNCHANGED <<etag, etagOf>>
  /\ UNCHANGED <<heads, disk, baseline, here, pulls, quota, crossed>>

\* In a git checkout the branch stays git's (app_sync.py 865-869); what was recorded is
\* cleared all the same.
SwitchChannel ==
  /\ userLeft > 0 /\ userLeft' = userLeft - 1
  /\ channel' \in IF git THEN {channel} ELSE Branches
  /\ etag' = NoTag /\ etagOf' = NoTag /\ avail' = TRUE /\ Outdated
  /\ UNCHANGED <<heads, disk, baseline, git, commit, training, pulls, pullsLeft, appFaults, crossed>>

-----------------------------------------------------------------------------
(* The remote, the user and the trainers                                   *)

AppRelease(b) ==
  /\ versions < MaxVersions /\ versions' = versions + 1
  /\ head' = [head EXCEPT ![b] = versions + 1]
  /\ crossed' = (crossed \/ \E p \in Pullers : pulls[p].pc = "head" /\ pulls[p].branch = b)
  /\ Outdated
  /\ UNCHANGED <<disk, baseline, state, here, pulls, quota>>

\* The user edits, writes or removes a file.
AppEdit(f) ==
  /\ userLeft > 0 /\ userLeft' = userLeft - 1
  /\ \E c \in {Edited, Missing} : disk' = [disk EXCEPT ![f] = c]
  /\ UNCHANGED <<heads, baseline, state, here, pulls, poll, pullsLeft, appFaults, crossed, checked>>

\* In a git checkout he may also use git.
GitPull ==
  /\ git /\ userLeft > 0 /\ userLeft' = userLeft - 1
  /\ commit' = head[channel]
  /\ disk' = [f \in AppFiles |-> IF f \in Ships(commit') THEN commit' ELSE Missing]
  /\ UNCHANGED <<heads, baseline, state, git, channel, training, pulls, poll, pullsLeft, appFaults, crossed, checked>>

TrainerToggles ==
  /\ userLeft > 0 /\ userLeft' = userLeft - 1 /\ training' = ~training
  /\ UNCHANGED <<heads, disk, baseline, state, git, commit, channel, pulls, poll, pullsLeft, appFaults, crossed, checked>>

AppNext ==
  \/ \E p \in Pullers :
       \/ \E force, ignoreTraining \in BOOLEAN : PullStart(p, force, ignoreTraining)
       \/ PullGet(p) \/ PullHead(p) \/ PullBaseline(p) \/ PullRecord(p) \/ PullRaises(p)
       \/ \E f \in AppFiles : PullCopy(p, f)
  \/ AppCrash \/ CheckHead \/ CheckDecide \/ SwitchChannel \/ GitPull \/ TrainerToggles
  \/ \E b \in Branches : AppRelease(b)
  \/ \E f \in AppFiles : AppEdit(f)

AppSpec == AppInit /\ [][AppNext]_appVars

-----------------------------------------------------------------------------
(* Properties                                                              *)

Pull == [pc : {"idle", "get", "head", "copy", "record"}, branch : Branches \cup {NoTag},
         force : BOOLEAN, got : Versions \cup {NoTag}, tag : Versions \cup {NoTag},
         left : SUBSET AppFiles, mine : SUBSET AppFiles, guarded : SUBSET AppFiles]
Check == [branch : Branches \cup {NoTag}, tag : Versions \cup {NoTag}, fresh : BOOLEAN]

\* AppTypeOK: every variable has its type; a pull that copies has a version to copy.
AppTypeOK ==
  /\ head \in [Branches -> Versions] /\ versions \in Versions
  /\ disk \in [AppFiles -> Versions \cup {Missing, Edited}]
  /\ baseline \in [AppFiles -> Versions \cup {NoTag}]
  /\ channel \in Branches /\ etag \in Versions \cup {NoTag} /\ etagOf \in Branches \cup {NoTag}
  /\ git \in BOOLEAN /\ avail \in BOOLEAN /\ training \in BOOLEAN
  /\ crossed \in BOOLEAN /\ checked \in BOOLEAN
  /\ pulls \in [Pullers -> Pull] /\ poll \in Check
  /\ \A p \in Pullers :
       /\ pulls[p].pc = "idle" => pulls[p] = Idle
       /\ pulls[p].pc # "idle" => pulls[p].branch \in Branches
       /\ pulls[p].pc \in {"head", "copy", "record"} => pulls[p].got \in Versions
       /\ pulls[p].pc = "record" => pulls[p].left = {}
  /\ \A b \in Branches : head[b] <= versions

\* A pull that was not told to force is about to copy f over what the user has
\* written or removed, and had before the pull began.
Clobbers(p, f) ==
  /\ pulls[p].pc = "copy" /\ f \in pulls[p].left /\ ~pulls[p].force
  /\ disk[f] = Edited /\ f \in pulls[p].mine

\* EditsSurvive: it never does so to a file the baseline had, though other pulls write
\* files and baselines meanwhile and any of them may have been cut off
\* (app_sync.py:739-758).
EditsSurvive == \A p \in Pullers, f \in AppFiles : Clobbers(p, f) => f \notin pulls[p].guarded

\* AddedNeverTouched: where there is a baseline, it never does so to a file the user
\* has added, "added" files being never touched by the updater (app_sync.py:742-744).
AddedNeverTouched ==
  \A p \in Pullers, f \in AppFiles :
    Clobbers(p, f) /\ pulls[p].guarded # {} => f \in pulls[p].guarded

\* NoMissedUpdate: in an installation that is not a git checkout, when a check says that
\* there is no update and nothing has come between, every source is the branch's latest
\* or the user's own; if no release and no second pull ever came between a download and
\* the ETag recorded for it (app_sync.py:657-703, 776, 797-805).
NoMissedUpdate ==
  checked /\ ~avail /\ ~git /\ ~crossed =>
    \A f \in Ships(head[channel]) : disk[f] \in {head[channel], Edited, Missing}

-----------------------------------------------------------------------------
(* Why.                                                                    *)

\* What a pull was started over that was not told to force was nobody's edit.
GateHeld == \A p \in Pullers : pulls[p].force \/ pulls[p].mine \cap pulls[p].guarded = {}

\* The pull in progress is the only one; it records the version it copies, and
\* nothing is recorded of the branch chosen while it copies another's.
PullsKnow ==
  /\ \A p, q \in Pullers : pulls[p].pc # "idle" /\ pulls[q].pc # "idle" => p = q
  /\ \A p \in Pullers : LET m == pulls[p] IN
       /\ m.pc # "idle" /\ m.branch # channel => etag = NoTag
       /\ m.pc = "head" => m.got = head[m.branch]
       /\ m.pc \in {"copy", "record"} =>
            /\ m.got <= head[m.branch] /\ m.tag \in {m.got, NoTag}
            /\ \A f \in Ships(m.got) \ m.left : disk[f] \in {m.got, Edited, Missing}
       /\ m.pc \in {"copy", "record"} /\ etag # NoTag /\ etagOf = channel => etag <= m.got

\* The ETag is that of the sources, unless a later version has been copied over them.
TagKnows ==
  /\ etag # NoTag => etagOf \in Branches /\ etag <= head[etagOf]
  /\ etag # NoTag /\ etagOf = channel =>
       \A f \in Ships(etag) :
         \/ disk[f] \in {etag, Edited, Missing}
         \/ disk[f] \in Versions /\ etag < disk[f] /\ disk[f] <= head[channel]

\* A check that nothing has come between tells how things are.
ChecksKnow ==
  /\ poll.fresh => Resting /\ poll.branch = channel /\ poll.tag = head[channel]
  /\ checked => Resting
  /\ checked /\ ~avail => etag = head[channel] /\ etagOf = channel

AppInv ==
  /\ AppTypeOK /\ GateHeld
  /\ ~git /\ ~crossed => PullsKnow /\ TagKnows /\ ChecksKnow
=============================================================================
