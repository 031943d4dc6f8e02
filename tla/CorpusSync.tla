----------------------------- MODULE CorpusSync -----------------------------
(***************************************************************************)
(* Installing and removing one corpus, corpus_sync.py.  A file is the set  *)
(* of its pieces: a training file is Whole, or what a split has left of    *)
(* it; a download that ends early lacks its end; an archive is Zip.  The   *)
(* files' names are what trainers read, whether or not the install that    *)
(* writes them is through.  One install runs at a time; a removal does not *)
(* wait for it, and the server may end at any point.                       *)
(***************************************************************************)
EXTENDS Naturals

CONSTANT MaxCorpusFaults  \* crashes, and writes that fail

ASSUME CorpusSyncAssumption == MaxCorpusFaults \in Nat

VARIABLES
  fmt, sha, valFrom,  \* the entry: its format, has it hashes, where val comes from
  train, val,         \* the two files; {} is no file
  icp,                \* where the install is
  zipOk, tail,        \* is the archive sound; what the split has read
  ucp,                \* where the removal is
  corpusFaults

entryVars  == <<fmt, sha, valFrom>>
corpusVars == <<entryVars, train, val, icp, zipOk, tail, ucp, corpusFaults>>

Whole == 1 .. 4
Zip == {0}
Own == {5}
OwnShort == {6}

CorpusInit ==
  /\ fmt \in {"raw_bytes", "raw_bytes_zip", "zip_bundle", "hf_dataset", "native"}
  /\ sha \in BOOLEAN /\ (sha => fmt \notin {"hf_dataset", "native"})
  /\ valFrom \in {"url", "split", "none"} /\ (fmt = "zip_bundle" => valFrom = "none")
  /\ train = {} /\ val = {} /\ tail = {} /\ zipOk = TRUE
  /\ icp = "idle" /\ ucp = "idle" /\ corpusFaults = 0

Go(pc) == icp' = pc
Only(vars) == UNCHANGED <<entryVars, ucp, corpusFaults, vars>>

\* Where the rest of an install continues once train.bin is accepted.
ValStep == CASE valFrom = "url" -> "val" [] valFrom = "split" -> "read" [] OTHER -> "idle"

-----------------------------------------------------------------------------
(* install                                                                 *)

CorpusStart == icp = "idle" /\ Go("train") /\ Only(<<train, val, zipOk, tail>>)

\* _download: the file is renamed into place however short the server cut it; an
\* archive goes under its own name or, raw_bytes_zip, under train.bin's.
GetTrain ==
  /\ icp = "train" /\ fmt \in {"raw_bytes", "raw_bytes_zip", "zip_bundle"}
  /\ \/ Go("idle") /\ UNCHANGED <<train, zipOk>>
     \/ fmt = "raw_bytes" /\ Go("sha") /\ train' \in {Whole, 1 .. 2} /\ UNCHANGED zipOk
     \/ fmt = "raw_bytes_zip" /\ Go("extract") /\ train' = Zip /\ zipOk' \in BOOLEAN
     \/ fmt = "zip_bundle" /\ Go("bundle") /\ zipOk' \in BOOLEAN /\ UNCHANGED train
  /\ Only(<<val, tail>>)

\* _extract_zip_largest_member
ExtractLargest ==
  /\ icp = "extract"
  /\ IF zipOk /\ train = Zip THEN train' = Whole /\ Go("sha") ELSE Go("idle") /\ UNCHANGED train
  /\ Only(<<val, zipOk, tail>>)

\* _extract_zip_bundle: each member replaces its file; val's may be absent or bad.
ExtractTrain ==
  /\ icp = "bundle"
  /\ IF zipOk THEN train' = Whole /\ Go("bundleVal") ELSE Go("idle") /\ UNCHANGED train
  /\ Only(<<val, zipOk, tail>>)

ExtractVal ==
  /\ icp = "bundleVal"
  /\ \/ val' \in {val, Own} /\ Go("sha")
     \/ Go("idle") /\ UNCHANGED val
  /\ Only(<<train, zipOk, tail>>)

\* Mutant: a mismatch is reported and the file kept.
VerifyTrainKeeps ==
  /\ icp = "sha" /\ Go(IF sha /\ train # Whole THEN "idle" ELSE ValStep)
  /\ Only(<<train, val, zipOk, tail>>)

\* A file that does not have the entry's hash is removed and the install over; so it
\* is where the file has gone, for the message cannot be made.
VerifyTrain ==
  /\ icp = "sha"
  /\ IF sha /\ train # Whole THEN train' = {} /\ Go("idle") ELSE Go(ValStep) /\ UNCHANGED train
  /\ Only(<<val, zipOk, tail>>)

GetVal ==
  /\ icp = "val" /\ fmt # "hf_dataset"
  /\ \/ Go("idle") /\ UNCHANGED val
     \/ Go("valSha") /\ val' \in {Own, OwnShort}
  /\ Only(<<train, zipOk, tail>>)

VerifyVal ==
  /\ icp = "valSha" /\ Go("idle")
  /\ val' = IF sha /\ val # Own THEN {} ELSE val
  /\ Only(<<train, zipOk, tail>>)

\* _install_hf_dataset: rows are streamed into a file of their own and renamed.
StreamTrain ==
  /\ icp = "train" /\ fmt = "hf_dataset"
  /\ \/ Go("idle") /\ UNCHANGED train
     \/ Go(ValStep) /\ train' = Whole
  /\ Only(<<val, zipOk, tail>>)

StreamVal ==
  /\ icp = "val" /\ fmt = "hf_dataset" /\ Go("idle")
  /\ val' \in {val, Own}
  /\ Only(<<train, zipOk, tail>>)

\* _install_native: two copies.
CopyTrain ==
  /\ icp = "train" /\ fmt = "native" /\ train' = Whole /\ Go("copyVal") /\ Only(<<val, zipOk, tail>>)

CopyVal ==
  /\ icp = "copyVal" /\ val' = Own /\ Go("idle") /\ Only(<<train, zipOk, tail>>)

-----------------------------------------------------------------------------
(* _split_val_from_train                                                   *)

SplitRead ==
  /\ icp = "read"
  /\ IF train = {} THEN Go("idle") /\ UNCHANGED tail
     ELSE tail' = {p \in train : \A q \in train : q <= p} /\ Go("write")
  /\ Only(<<train, val, zipOk>>)

SplitWrite == icp = "write" /\ val' = tail /\ Go("truncate") /\ Only(<<train, zipOk, tail>>)

\* Mutant: the training file is left as it was.
SplitKeeps == icp = "truncate" /\ Go("idle") /\ Only(<<train, val, zipOk, tail>>)

\* A training file that has gone cannot be opened.
SplitTruncate ==
  /\ icp = "truncate" /\ Go("idle") /\ train' = train \ tail /\ Only(<<val, zipOk, tail>>)

-----------------------------------------------------------------------------
(* uninstall, and failures                                                 *)

RemoveTrain ==
  /\ ucp = "idle" /\ (train # {} \/ val # {}) /\ train' = {} /\ ucp' = "val"
  /\ UNCHANGED <<entryVars, val, icp, zipOk, tail, corpusFaults>>

RemoveVal ==
  /\ ucp = "val" /\ val' = {} /\ ucp' = "idle"
  /\ UNCHANGED <<entryVars, train, icp, zipOk, tail, corpusFaults>>

\* A write fails: the install ends with what it has.
CorpusFault ==
  /\ icp # "idle" /\ Go("idle") /\ corpusFaults < MaxCorpusFaults
  /\ corpusFaults' = corpusFaults + 1
  /\ UNCHANGED <<entryVars, train, val, zipOk, tail, ucp>>

\* The server ends.
CorpusCrash ==
  /\ icp # "idle" \/ ucp # "idle"
  /\ corpusFaults < MaxCorpusFaults /\ corpusFaults' = corpusFaults + 1
  /\ Go("idle") /\ ucp' = "idle"
  /\ UNCHANGED <<entryVars, train, val, zipOk, tail>>

CorpusNext ==
  \/ CorpusStart \/ GetTrain \/ ExtractLargest \/ ExtractTrain \/ ExtractVal \/ VerifyTrain
  \/ GetVal \/ VerifyVal \/ StreamTrain \/ StreamVal \/ CopyTrain \/ CopyVal
  \/ SplitRead \/ SplitWrite \/ SplitTruncate
  \/ RemoveTrain \/ RemoveVal \/ CorpusFault \/ CorpusCrash

CorpusSpec == CorpusInit /\ [][CorpusNext]_corpusVars

-----------------------------------------------------------------------------
(* Properties                                                              *)

\* CorpusTypeOK: the files hold what their names may hold.
CorpusTypeOK ==
  /\ train \in {{}, Zip, Whole, 1 .. 3, 1 .. 2, {1}}
  /\ val \in {{}, Own, OwnShort, {4}, {2}, {3}} /\ tail \in {{}, {2}, {3}, {4}}
  /\ corpusFaults \in 0 .. MaxCorpusFaults /\ ucp \in {"idle", "val"}

\* TrainValDisjoint: between installs no byte a model is trained on is also one it is
\* validated on, whatever a removal does meanwhile and however often the corpus is
\* installed anew; if no install was cut off (corpus_sync.py:763-772).
TrainValDisjoint == icp = "idle" /\ corpusFaults = 0 => train \cap val = {}

\* NeverOverlaps: so it is after any fault ("Shrink train file so train and val don't
\* overlap.", corpus_sync.py:770).
NeverOverlaps == icp = "idle" => train \cap val = {}

\* HashedIsVerified: between installs a corpus with a hash is the one hashed, or what
\* the split left of it, if no install was cut off and it is not a raw archive, which
\* stays under train.bin's name when it cannot be extracted (corpus_sync.py:877-885).
HashedIsVerified ==
  icp = "idle" /\ sha /\ corpusFaults = 0 /\ fmt # "raw_bytes_zip" =>
    train \in {{}, Whole, 1 .. 3}

-----------------------------------------------------------------------------
(* Why, step by step: the invariant of an install, as long as no fault came.  *)

\* Fresh, in the middle of an install: all of the corpus, or removed meanwhile.
Fresh == train = {} \/ train = Whole

\* A corpus between installs with a hash: verified, perhaps split.
Verified == sha /\ fmt # "raw_bytes_zip" => Fresh \/ train = 1 .. 3

\* The entry decides which steps an install takes.
Route ==
  /\ icp \in {"read", "write", "truncate"} => valFrom = "split"
  /\ icp \in {"val", "valSha"} => valFrom = "url"
  /\ icp \in {"bundle", "bundleVal"} => fmt = "zip_bundle"
  /\ icp = "extract" => fmt = "raw_bytes_zip"
  /\ icp = "copyVal" => fmt = "native"
  /\ sha => fmt \notin {"hf_dataset", "native"}
  /\ fmt = "zip_bundle" => valFrom = "none"

\* Only a split puts bytes of the training file into the validation file.
Pieces ==
  /\ train \subseteq 0 .. 4 /\ val \subseteq 1 .. 6 /\ tail \subseteq 1 .. 4
  /\ valFrom # "split" => val \cap (0 .. 4) = {}

\* Before anything is written, after a fresh file, and within a split.
Stages ==
  /\ icp \in {"idle", "train", "bundle"} => train \cap val = {} /\ Verified
  /\ icp = "extract" => train \subseteq Zip
  /\ icp \in {"bundleVal", "sha", "read", "write", "truncate"} => train \subseteq 1 .. 4
  /\ icp \in {"bundleVal", "val", "valSha", "read", "write", "truncate"} =>
       (sha /\ fmt # "raw_bytes_zip" => Fresh)
  /\ icp \in {"write", "truncate"} /\ sha /\ fmt # "raw_bytes_zip" => tail = {4}
  /\ icp = "truncate" => val \subseteq tail

\* What an install has in hand, faults or not: a file just written, or removed since;
\* within a split the bytes put aside are its last.
InHand ==
  /\ icp \in {"bundleVal", "sha", "read"} => train \in {{}, Whole, 1 .. 2}
  /\ icp \in {"write", "truncate"} =>
       train = {} \/ (train = Whole /\ tail = {4}) \/ (train = 1 .. 2 /\ tail = {2})

\* A fault may leave anything; without one an install passes through these states.
CorpusInv == corpusFaults \in Nat /\ (corpusFaults = 0 => Route /\ Pieces /\ Stages)
=============================================================================
