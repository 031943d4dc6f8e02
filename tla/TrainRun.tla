------------------------------ MODULE TrainRun ------------------------------
(***************************************************************************)
(* What a training run leaves in models/<name>/: the config, the step_*.pt *)
(* checkpoints and the curve in train.csv (training/save.py), as the loop  *)
(* of training/native_trainer.py writes them, may be killed at any point   *)
(* and is resumed; and training/fork.py, which makes a model of another's  *)
(* newest checkpoint while that one may be training.                       *)
(***************************************************************************)
EXTENDS Naturals

CONSTANTS
  Total,                            \* total_steps
  LogEvery, EvalEvery, CkptEvery,
  MaxKills, MaxNaNs, MaxScratches   \* bounds

Dirs == {"first", "fork"}
Steps == 1 .. Total
Rows == Steps \X {"train", "val"}

ASSUME RunAssumption ==
  /\ {Total, LogEvery, EvalEvery, CkptEvery} \subseteq Nat \ {0} /\ {MaxKills, MaxNaNs, MaxScratches} \subseteq Nat

VARIABLES
  exists,     \* the models that have a directory checkpoints/
  config,     \* config.json: "none", "torn" or "ok"
  ckpt, tmp,  \* each step_N.pt, and each step_N.pt.tmp or .part: "none", "torn" or "ok"
  csv,        \* how many rows of a step and split train.csv has
  tpc, tdir, tstep,  \* the trainer: where it is, in which model and at which step
  tstart,     \* the step it started from
  fpc, fstep, \* the fork, and the step it copies
  kills, nans, scratches

dirVars == <<exists, config, ckpt, tmp, csv>>
trainer == <<tpc, tdir, tstep, tstart>>
forkVars == <<fpc, fstep>>
runVars == <<dirVars, trainer, forkVars, kills, nans, scratches>>

Saved(d) == {s \in Steps : ckpt[d][s] # "none"}
Newest(s, d) == s \in Saved(d) /\ \A s2 \in Saved(d) : s2 <= s
Blank == [s \in Steps |-> "none"]
NoRows == [row \in Rows |-> 0]

RunInit ==
  /\ exists = {} /\ config = [d \in Dirs |-> "none"]
  /\ ckpt = [d \in Dirs |-> Blank] /\ tmp = [d \in Dirs |-> Blank]
  /\ csv = [d \in Dirs |-> NoRows]
  /\ tpc = "off" /\ tdir = "first" /\ tstep = 0 /\ tstart = 0
  /\ fpc = "off" /\ fstep = 0 /\ kills = 0 /\ nans = 0 /\ scratches = 0

Due(s, every) == s % every = 0
Then(pc) == tpc' = pc /\ UNCHANGED <<tdir, tstep, tstart>>

----------------------------------------------------------------------------
(* The trainer.                                                            *)

\* The route refuses a name that exists only if it is given a size, and then looks
\* for another name than the one trained (compose_name): any directory will do.
StartScratch(d) ==
  /\ tpc \in {"off", "done"} /\ scratches < MaxScratches /\ scratches' = scratches + 1
  /\ tpc' = "step" /\ tdir' = d /\ tstep' = 1 /\ tstart' = 0
  /\ UNCHANGED <<dirVars, forkVars, kills, nans>>

\* Mutant: the directory is listed in the wrong order.
ResumeOldest(d) ==
  /\ tpc \in {"off", "done"}
  /\ \E s \in Saved(d) : /\ \A s2 \in Saved(d) : s <= s2
                        /\ s < Total /\ tstart' = s /\ tstep' = s + 1
  /\ tdir' = d /\ tpc' = "step"
  /\ UNCHANGED <<dirVars, forkVars, kills, nans, scratches>>

\* _maybe_resume: from the newest step there is; at total_steps, nothing to do.
Resume(d) ==
  /\ tpc \in {"off", "done"}
  /\ \E s \in Steps : Newest(s, d) /\ s < Total /\ tstart' = s /\ tstep' = s + 1
  /\ tdir' = d /\ tpc' = "step"
  /\ UNCHANGED <<dirVars, forkVars, kills, nans, scratches>>

NextStep ==
  /\ tpc' = IF tstep = Total THEN "done" ELSE "step"
  /\ tstep' = IF tstep = Total THEN Total ELSE tstep + 1
  /\ UNCHANGED <<tdir, tstart>>

Trains ==
  /\ tpc = "step" /\ Then("row")
  /\ UNCHANGED <<dirVars, forkVars, kills, nans, scratches>>

\* A loss that is NaN skips the step with its rows and its checkpoint.
SkipsNaN ==
  /\ tpc = "step" /\ nans < MaxNaNs /\ nans' = nans + 1 /\ NextStep
  /\ UNCHANGED <<dirVars, forkVars, kills, scratches>>

Logs(split) == csv' = [csv EXCEPT ![tdir][<<tstep, split>>] = @ + 1]

TrainRow ==
  /\ tpc = "row" /\ Then("val")
  /\ IF Due(tstep, LogEvery) THEN Logs("train") ELSE UNCHANGED csv
  /\ UNCHANGED <<exists, config, ckpt, tmp, forkVars, kills, nans, scratches>>

ValRow ==
  /\ tpc = "val" /\ Then("save")
  /\ IF Due(tstep, EvalEvery) \/ tstep = Total THEN Logs("val") ELSE UNCHANGED csv
  /\ UNCHANGED <<exists, config, ckpt, tmp, forkVars, kills, nans, scratches>>

NotDue ==
  /\ tpc = "save" /\ ~Due(tstep, CkptEvery) /\ tstep # Total /\ NextStep
  /\ UNCHANGED <<dirVars, forkVars, kills, nans, scratches>>

\* save(): a config that is there is kept, or changed through a .tmp; else it is
\* written in place.
SaveOpensConfig ==
  /\ tpc = "save" /\ (Due(tstep, CkptEvery) \/ tstep = Total)
  /\ IF config[tdir] = "none"
     THEN config' = [config EXCEPT ![tdir] = "torn"] /\ Then("config")
     ELSE UNCHANGED config /\ Then("pt")
  /\ UNCHANGED <<exists, ckpt, tmp, csv, forkVars, kills, nans, scratches>>

SaveWritesConfig ==
  /\ tpc = "config" /\ Then("pt")
  /\ config' = IF config[tdir] = "none" THEN config ELSE [config EXCEPT ![tdir] = "ok"]
  /\ UNCHANGED <<exists, ckpt, tmp, csv, forkVars, kills, nans, scratches>>

\* Mutant: the checkpoint is written under its own name.
SaveOpensInPlace ==
  /\ tpc = "pt" /\ Then("tmp") /\ exists' = exists \cup {tdir}
  /\ tmp' = [tmp EXCEPT ![tdir][tstep] = "torn"]
  /\ ckpt' = [ckpt EXCEPT ![tdir][tstep] = "torn"]
  /\ UNCHANGED <<config, csv, forkVars, kills, nans, scratches>>

\* The checkpoint goes to a .tmp, whole, and only then under its name.
SaveOpensTmp ==
  /\ tpc = "pt" /\ Then("tmp") /\ exists' = exists \cup {tdir}
  /\ tmp' = [tmp EXCEPT ![tdir][tstep] = "torn"]
  /\ UNCHANGED <<config, ckpt, csv, forkVars, kills, nans, scratches>>

SaveWritesTmp ==
  /\ tpc = "tmp" /\ Then("replace")
  /\ tmp' = IF tmp[tdir][tstep] = "none" THEN tmp ELSE [tmp EXCEPT ![tdir][tstep] = "ok"]
  /\ UNCHANGED <<exists, config, ckpt, csv, forkVars, kills, nans, scratches>>

SaveReplaces ==
  /\ tpc = "replace" /\ tmp[tdir][tstep] # "none" /\ NextStep
  /\ ckpt' = [ckpt EXCEPT ![tdir][tstep] = tmp[tdir][tstep]]
  /\ tmp' = [tmp EXCEPT ![tdir][tstep] = "none"]
  /\ UNCHANGED <<exists, config, csv, forkVars, kills, nans, scratches>>

\* A fork that failed has taken the .tmp away: os.replace raises.
SaveRaises ==
  /\ tpc = "replace" /\ tmp[tdir][tstep] = "none" /\ Then("off")
  /\ UNCHANGED <<dirVars, forkVars, kills, nans, scratches>>

\* A stop, a crash, the power: the files stay as they are.
TrainerKilled ==
  /\ tpc \notin {"off", "done"} /\ kills < MaxKills /\ kills' = kills + 1
  /\ Then("off")
  /\ UNCHANGED <<dirVars, forkVars, nans, scratches>>

----------------------------------------------------------------------------
(* The fork.  It reads the source as it is at each step.                   *)

ForkStart ==
  /\ fpc = "off" /\ config["first"] = "ok" /\ config["fork"] = "none" /\ "fork" \notin exists
  /\ exists' = exists \cup {"fork"} /\ fpc' = "ckpt"
  /\ \E s \in Steps : Newest(s, "first") /\ fstep' = s
  /\ UNCHANGED <<config, ckpt, tmp, csv, trainer, kills, nans, scratches>>

ForkCheckpoint ==
  /\ fpc = "ckpt" /\ ckpt' = [ckpt EXCEPT !["fork"][fstep] = ckpt["first"][fstep]] /\ fpc' = "csv"
  /\ UNCHANGED <<exists, config, tmp, csv, trainer, fstep, kills, nans, scratches>>

\* The rows of the step it forked, if there is a curve.
CopiesRows(which) ==
  /\ fpc = "csv" /\ fpc' = "config"
  /\ csv' = IF csv["first"] = NoRows THEN csv ELSE
              [csv EXCEPT !["fork"] = [row \in Rows |-> IF row[1] \in which THEN csv["first"][row] ELSE 0]]
  /\ UNCHANGED <<exists, config, ckpt, tmp, trainer, fstep, kills, nans, scratches>>

\* Mutant: the rows before the forked step, not its own.
ForkCurveBefore == CopiesRows({s \in Steps : s < fstep})
ForkCurve == CopiesRows({fstep})

ForkConfig ==
  /\ fpc = "config" /\ config' = [config EXCEPT !["fork"] = "ok"] /\ fpc' = "forked"
  /\ UNCHANGED <<exists, ckpt, tmp, csv, trainer, fstep, kills, nans, scratches>>

\* An error of the file system takes all of it away; the server's end does not.
ForkFails ==
  /\ fpc \in {"ckpt", "csv", "config"} /\ kills < MaxKills /\ kills' = kills + 1
  /\ fpc' = "off" /\ exists' = exists \ {"fork"}
  /\ config' = [config EXCEPT !["fork"] = "none"] /\ csv' = [csv EXCEPT !["fork"] = NoRows]
  /\ ckpt' = [ckpt EXCEPT !["fork"] = Blank] /\ tmp' = [tmp EXCEPT !["fork"] = Blank]
  /\ UNCHANGED <<trainer, fstep, nans, scratches>>

ForkKilled ==
  /\ fpc \in {"ckpt", "csv", "config"} /\ kills < MaxKills /\ kills' = kills + 1
  /\ fpc' = "killed"
  /\ UNCHANGED <<dirVars, trainer, fstep, nans, scratches>>

RunNext ==
  \/ (\E d \in Dirs : StartScratch(d) \/ Resume(d)) \/ Trains \/ SkipsNaN \/ TrainRow \/ ValRow
  \/ NotDue \/ SaveOpensConfig \/ SaveWritesConfig \/ SaveOpensTmp \/ SaveWritesTmp
  \/ SaveReplaces \/ SaveRaises \/ TrainerKilled
  \/ ForkStart \/ ForkCheckpoint \/ ForkCurve \/ ForkConfig \/ ForkFails \/ ForkKilled

RunSpec == RunInit /\ [][RunNext]_runVars

----------------------------------------------------------------------------
Files == [Dirs -> [Steps -> {"none", "torn", "ok"}]]

RunTypeOK ==
  /\ exists \subseteq Dirs /\ config \in [Dirs -> {"none", "torn", "ok"}]
  /\ ckpt \in Files /\ tmp \in Files
  /\ csv \in [Dirs -> [Rows -> Nat]]
  /\ tpc \in {"off", "step", "row", "val", "save", "config", "pt", "tmp", "replace", "done"}
  /\ tdir \in Dirs /\ tstep \in 0 .. Total /\ tstart \in 0 .. Total
  /\ fpc \in {"off", "ckpt", "csv", "config", "forked", "killed"} /\ fstep \in 0 .. Total
  /\ kills \in 0 .. MaxKills /\ nans \in 0 .. MaxNaNs
  /\ scratches \in 0 .. MaxScratches

\* Every step_*.pt a reader or a resume can see is whole, wherever the trainer
\* or the fork was killed (save.py 514-522, fork.py 105-109).
CheckpointsWhole == \A d \in Dirs, s \in Steps : ckpt[d][s] # "torn"

\* The checkpoint a fork has put into a directory that was trained in meanwhile.
PutBeside(d, s) == d = "fork" /\ s = fstep /\ tstart < fstep

\* A resumed run logs only beyond every checkpoint of its model: what the curve
\* says of a saved step no resume changes (native_trainer.py 203-215, 374-437).
RowBeyond ==
  \A d \in Dirs, row \in Rows :
    csv'[d][row] > csv[d][row] /\ fpc' = fpc /\ tstart > 0 =>
      \A s \in Saved(d) : row[1] > s \/ PutBeside(d, s)
RowsBeyondCheckpoints == [][RowBeyond]_runVars

\* "model already exists. pick a different name or use Continue Training"
\* (trainers_routes.py 51-52): no run at all logs below a checkpoint.
NewNamesAreNew ==
  [][\A row \in Rows : csv'["first"][row] > csv["first"][row] =>
       \A s \in Saved("first") : row[1] > s]_runVars

\* The rows that are due at a step are in the curve.
Logged(d, s) ==
  /\ Due(s, LogEvery) => csv[d][<<s, "train">>] > 0
  /\ Due(s, EvalEvery) \/ s = Total => csv[d][<<s, "val">>] > 0

\* A fork shows where its model is: it has the rows of the step it forked, though the
\* source may have been killed at any point before, and train while it is copied
\* (fork.py 130-149): a step is logged before it is saved, and stays in the curve.
ForkHasItsRow == fpc \in {"config", "forked"} => Logged("fork", fstep)

\* "Leaving them in place creates duplicate step numbers" (save.py 384): the
\* curve has no two rows of one step and split.
NoDuplicateRows == \A d \in Dirs, row \in Rows : csv[d][row] <= 1

\* A run that ends by itself has saved its last step (native_trainer.py 434).
FinishedIsSaved == tpc = "done" => ckpt[tdir][Total] = "ok"

\* "a partial fork doesn't leave a half-built model behind" (fork.py 93).
NoHalfFork == fpc = "killed" => "fork" \notin exists

----------------------------------------------------------------------------
(* The inductive invariant.                                                *)

Training == tpc \notin {"off", "done"}

\* What is resumed is trained beyond what is saved.
Ahead ==
  Training => /\ tstep \in Steps /\ tstart < tstep
              /\ tstart > 0 => \A s \in Saved(tdir) : s < tstep \/ PutBeside(tdir, s)

\* A .tmp is whole before it gets the checkpoint's name.
WrittenFirst == tpc = "replace" => tmp[tdir][tstep] # "torn"

\* What a model has saved it has logged.
LoggedFirst ==
  /\ \A s \in Saved("first") : Logged("first", s)
  /\ tdir = "first" /\ tpc = "val" => (Due(tstep, LogEvery) => csv["first"][<<tstep, "train">>] > 0)
  /\ tdir = "first" /\ tpc \in {"save", "config", "pt", "tmp", "replace"} => Logged("first", tstep)

\* What a fork copies is there, and so is where it copies to.
ForkInv ==
  /\ fpc \in {"ckpt", "csv", "config", "forked"} => fstep \in Saved("first") /\ "fork" \in exists
  /\ \A d \in Dirs \ exists, s \in Steps : ckpt[d][s] = "none" /\ tmp[d][s] = "none"

\* Why a run resumes from whole files, and logs only what it has not saved.
RunInv ==
  /\ RunTypeOK /\ CheckpointsWhole /\ Ahead /\ WrittenFirst
  /\ LoggedFirst /\ ForkInv /\ ForkHasItsRow
=============================================================================
