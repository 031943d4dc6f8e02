------------------------------ MODULE MCInstall ------------------------------
(***************************************************************************)
(* The three installers under training/sync.  They keep their files and    *)
(* their locks apart and share no variable, so each is checked by itself:  *)
(* focus names the one that moves.                                         *)
(***************************************************************************)
EXTENDS FileSync, AppSync, CorpusSync, TLC

CONSTANT Focus  \* the installers to check

VARIABLE focus

vars == <<syncVars, appVars, corpusVars, focus>>

\* The two that do not move start in one of their initial states.
Init ==
  /\ focus \in Focus
  /\ SyncInit /\ (focus # "files" => kind = "models")
  /\ AppInit /\ (focus # "app" => ~git /\ etag = NoTag /\ channel = CHOOSE b \in Branches : TRUE)
  /\ CorpusInit /\ (focus # "corpus" => fmt = "native" /\ valFrom = "none")

Next ==
  \/ focus = "files" /\ SyncNext /\ UNCHANGED <<appVars, corpusVars, focus>>
  \/ focus = "app" /\ AppNext /\ UNCHANGED <<syncVars, corpusVars, focus>>
  \/ focus = "corpus" /\ CorpusNext /\ UNCHANGED <<syncVars, appVars, focus>>

Spec == Init /\ [][Next]_vars

Perms == Permutations(Pullers)

\* What the three installers' other properties rest on: their states are well formed;
\* a pull of the app knows what it was started over, and an ETag what it is of; and in
\* the middle of a corpus install the split has put aside what it will cut off.
InstallInv == SyncTypeOK /\ AppInv /\ CorpusTypeOK /\ CorpusInv
=============================================================================
