----------------------------- MODULE StateCache -----------------------------
(***************************************************************************)
(* The engine's prompt cache on disk, veritate_engine/v1/src/state_cache.c,*)
(* as the prefill of model.c uses it: restore the longest stored prefix of *)
(* the prompt, step over the rest, store the whole.  Engine processes that *)
(* share the directory may end anywhere, the disk may be full, and the     *)
(* model file may be exported anew.                                        *)
(*                                                                         *)
(* One action is one call of the file system or one computation in memory. *)
(* What matters of a piece of hybrid state is which weights computed it    *)
(* over which prefix: its tag.                                             *)
(***************************************************************************)
EXTENDS Naturals, Sequences, FiniteSets

CONSTANTS
  Engines,
  Token, Prompts,  \* the byte values, the prompts
  SeqLen,      \* V_SEQ, the rows of a model's context
  Name,        \* the rolling hash that names a file, of a model_id and a prefix
  MinPrefix,   \* SC_MIN_PREFIX
  Cap,         \* the byte cap, in rows
  DiskFull,    \* whether writes may fail
  MaxCalls, MaxCrashes, MaxExports,  \* bounds
  MidLoad,     \* whether an export may fall within the load of a model
  None

Upto(p, k) == SubSeq(p, 1, k)
Prefixes == UNION {{Upto(p, k) : k \in 1 .. Len(p)} : p \in Prompts}
Versions == 0 .. MaxExports
Tags == Versions \X Prefixes
Keys == Versions \X Prefixes  \* model_id and prefix, in the header

ASSUME CacheAssumption ==
  /\ \A p \in Prompts : p \in Seq(Token) /\ Len(p) \in 1 .. SeqLen
  /\ DOMAIN Name = Keys /\ MinPrefix \in Nat \ {0} /\ Cap \in Nat /\ SeqLen \in Nat
  /\ MaxCalls \in Nat /\ MaxCrashes \in Nat /\ MaxExports \in Nat
  /\ DiskFull \in BOOLEAN /\ MidLoad \in BOOLEAN /\ None \notin Tags

VARIABLES
  dir,      \* the regular files of the directory, oldest mtime first
  bin,      \* the version of the model file on disk
  weights,  \* the version each engine has loaded
  bin_id,   \* and the one its model_id was computed from
  pc,       \* where each engine is
  mem,      \* its hybrid state: the tags of the kv rows and of the rest
  prompt,   \* the prompt it prefills
  L,        \* the prefix length it looks at, or has restored
  list,     \* the directory as it last listed it
  total,    \* the sum of sizes it has left there
  born,     \* the crashes there had been when it started
  calls, crashes  \* prefills and crashes so far

files == <<dir, bin>>
model == <<weights, bin_id, born>>
local == <<mem, prompt, L, list, total>>
vars  == <<dir, bin, weights, bin_id, pc, mem, prompt, L, list, total,
          born, calls, crashes>>

Init ==
  /\ dir = <<>> /\ bin = 0
  /\ weights = [e \in Engines |-> 0] /\ bin_id = [e \in Engines |-> 0]
  /\ pc = [e \in Engines |-> "idle"]
  /\ mem = [e \in Engines |-> [rows |-> [i \in 1 .. SeqLen |-> None], rec |-> None]]
  /\ prompt = [e \in Engines |-> <<>>] /\ L = [e \in Engines |-> 0]
  /\ list = [e \in Engines |-> <<>>] /\ total = [e \in Engines |-> 0]
  /\ born = [e \in Engines |-> 0] /\ calls = 0 /\ crashes = 0

Goto(e, from, to) == pc[e] = from /\ pc' = [pc EXCEPT ![e] = to]

\* What is local to a call is gone when it returns.
Ends(e) ==
  /\ prompt' = [prompt EXCEPT ![e] = <<>>] /\ L' = [L EXCEPT ![e] = 0]
  /\ list' = [list EXCEPT ![e] = <<>>] /\ total' = [total EXCEPT ![e] = 0]

-----------------------------------------------------------------------------
(* Files: a path, the header's key, the state, and how much of it is there.*)

Key(e, k)  == <<bin_id[e], Upto(prompt[e], k)>>
Path(e, k) == <<"key", Name[Key(e, k)]>>
Tmp(e)     == <<"tmp", e, born[e]>>  \* a name of its own
Size(f)    == IF f.kept = "none" THEN 0 ELSE Len(f.key[2])

Has(path)  == \E i \in DOMAIN dir : dir[i].path = path
Place(path) == CHOOSE i \in DOMAIN dir : dir[i].path = path
At(path)   == dir[Place(path)]
Without(path) ==
  IF Has(path) THEN [i \in 1 .. Len(dir) - 1 |-> IF i < Place(path) THEN dir[i] ELSE dir[i + 1]]
  ELSE dir
\* The sizes of the files of a list add up to this.
SumSizes(fs) ==
  LET sum[i \in 0 .. Len(fs)] == IF i = 0 THEN 0 ELSE sum[i - 1] + Size(fs[i])
  IN  sum[Len(fs)]

\* A file can be cut short in the header, behind the rows, or near its end.
Kept == {"none", "rows", "most", "full"}

-----------------------------------------------------------------------------
(* state_cache_try_restore                                                 *)

\* A prefill begins; a traced one does not use the last position.
Prefill(e) ==
  /\ Goto(e, "idle", "list")
  /\ calls < MaxCalls /\ calls' = calls + 1
  /\ \E p \in Prompts : \E k \in {Len(p), Len(p) - 1} :
       prompt' = [prompt EXCEPT ![e] = p] /\ L' = [L EXCEPT ![e] = k]
  /\ UNCHANGED <<files, model, mem, list, total, crashes>>

DirList(e) ==
  /\ Goto(e, "list", "scan")
  /\ list' = [list EXCEPT ![e] = dir]
  /\ UNCHANGED <<files, model, mem, prompt, L, total, calls, crashes>>

\* The lengths still to be looked at whose file was listed.
Present(e) ==
  {k \in MinPrefix .. L[e] : \E i \in DOMAIN list[e] : list[e][i].path = Path(e, k)}
Longest(e) == CHOOSE k \in Present(e) : \A l \in Present(e) : l <= k

\* What reading a file leaves in memory: the rows of the prefix, then the rest.
Loaded(e, f) ==
  [rows |-> [i \in 1 .. SeqLen |-> IF f.kept # "none" /\ i <= Len(f.key[2])
                                   THEN f.rows[i] ELSE mem[e].rows[i]],
   rec |-> IF f.kept \in {"most", "full"} THEN f.rec ELSE mem[e].rec]

\* Mutant: the header's hash is not compared.
MatchesAny(e, k) == Has(Path(e, k)) /\ Len(At(Path(e, k)).key[2]) = k

\* The file is there, and its header is that of this model and prefix.
Matches(e, k) == Has(Path(e, k)) /\ At(Path(e, k)).key = Key(e, k)

Hit(e) ==
  /\ Goto(e, "scan", "touch")
  /\ Present(e) # {} /\ Matches(e, Longest(e))
  /\ At(Path(e, Longest(e))).kept = "full"
  /\ mem' = [mem EXCEPT ![e] = Loaded(e, At(Path(e, Longest(e))))]
  /\ L' = [L EXCEPT ![e] = Longest(e)]
  /\ list' = [list EXCEPT ![e] = <<>>]
  /\ UNCHANGED <<files, model, prompt, total, calls, crashes>>

\* Gone since, another prefix with the same hash, or cut short: go on below.
Pass(e) ==
  /\ pc[e] = "scan" /\ UNCHANGED pc
  /\ Present(e) # {}
  /\ \/ /\ ~Matches(e, Longest(e))
        /\ UNCHANGED mem
     \/ /\ Matches(e, Longest(e)) /\ At(Path(e, Longest(e))).kept # "full"
        /\ mem' = [mem EXCEPT ![e] = Loaded(e, At(Path(e, Longest(e))))]
  /\ L' = [L EXCEPT ![e] = Longest(e) - 1]
  /\ UNCHANGED <<files, model, prompt, list, total, calls, crashes>>

\* hybrid_reset, which leaves the rows.
Miss(e) ==
  /\ Goto(e, "scan", "step")
  /\ Present(e) = {}
  /\ L' = [L EXCEPT ![e] = 0]
  /\ mem' = [mem EXCEPT ![e].rec = None]
  /\ list' = [list EXCEPT ![e] = <<>>]
  /\ UNCHANGED <<files, model, prompt, total, calls, crashes>>

\* The file becomes the newest, if it is still there.
Touch(e) ==
  /\ Goto(e, "touch", "step")
  /\ dir' = IF Has(Path(e, L[e])) THEN Append(Without(Path(e, L[e])), At(Path(e, L[e])))
            ELSE dir
  /\ UNCHANGED <<bin, model, local, calls, crashes>>

-----------------------------------------------------------------------------
(* The steps over the rest of the prompt                                   *)

Tag(e, k) == <<weights[e], Upto(prompt[e], k)>>

\* What a cold prefill of the first k tokens of p leaves in memory under weights v.
Made(m, v, p, k) ==
  /\ m.rec = IF k = 0 THEN None ELSE <<v, Upto(p, k)>>
  /\ \A i \in 1 .. k : m.rows[i] = <<v, Upto(p, i)>>

Cold(e, k) == Made(mem[e], weights[e], prompt[e], k)

\* From the right state each step makes the right one.
Step(e) ==
  /\ Goto(e, "step", "store")
  /\ LET n == Len(prompt[e]) IN
       mem' = [mem EXCEPT ![e] =
         [rows |-> [i \in 1 .. SeqLen |->
            IF i \in L[e] + 1 .. n THEN IF Cold(e, L[e]) THEN Tag(e, i) ELSE None
            ELSE mem[e].rows[i]],
          rec |-> IF L[e] = n THEN mem[e].rec
                  ELSE IF Cold(e, L[e]) THEN Tag(e, n) ELSE None]]
  /\ UNCHANGED <<files, model, prompt, L, list, total, calls, crashes>>

-----------------------------------------------------------------------------
(* state_cache_store and sc_evict                                          *)

Whole(e) == Len(prompt[e])

\* Too short, or there is such a file already.
StoreSkips(e) ==
  /\ Goto(e, "store", "idle")
  /\ Whole(e) < MinPrefix \/ Has(Path(e, Whole(e)))
  /\ Ends(e) /\ UNCHANGED <<files, model, mem, calls, crashes>>

OpenTmp(e) ==
  /\ Goto(e, "store", "write")
  /\ Whole(e) >= MinPrefix /\ ~Has(Path(e, Whole(e)))
  /\ dir' = Append(dir, [path |-> Tmp(e), key |-> Key(e, Whole(e)), rows |-> mem[e].rows,
                         rec |-> mem[e].rec, kept |-> "none"])
  /\ UNCHANGED <<bin, model, local, calls, crashes>>

\* The file as it is closed: whole, or, since what fclose returns is not looked
\* at, short of what it could not write.  It may have been evicted meanwhile.
Close(e) ==
  /\ Goto(e, "write", "rename")
  /\ \E kept \in IF DiskFull THEN Kept ELSE {"full"} :
       dir' = IF Has(Tmp(e)) THEN Append(Without(Tmp(e)), [At(Tmp(e)) EXCEPT !.kept = kept])
              ELSE dir
  /\ UNCHANGED <<bin, model, local, calls, crashes>>

\* fwrite fails, or there is no file to rename: remove it.
StoreFails(e) ==
  /\ \/ DiskFull /\ Goto(e, "write", "idle")
     \/ ~Has(Tmp(e)) /\ Goto(e, "rename", "idle")
  /\ dir' = Without(Tmp(e))
  /\ Ends(e) /\ UNCHANGED <<bin, model, mem, calls, crashes>>

Rename(e) ==
  /\ Goto(e, "rename", "evictlist")
  /\ Has(Tmp(e))
  /\ dir' = [i \in DOMAIN Without(Path(e, Whole(e))) |->
               LET f == Without(Path(e, Whole(e)))[i] IN
               IF f.path = Tmp(e) THEN [f EXCEPT !.path = Path(e, Whole(e))] ELSE f]
  /\ UNCHANGED <<bin, model, local, calls, crashes>>

EvictList(e) ==
  /\ Goto(e, "evictlist", "evict")
  /\ list' = [list EXCEPT ![e] = dir]
  /\ total' = [total EXCEPT ![e] = SumSizes(dir)]
  /\ UNCHANGED <<files, model, mem, prompt, L, calls, crashes>>

\* Mutant: a directory just above the cap is left as it is.
OverLate(e) == total[e] > Cap + 1

\* More is left than the cap allows.
Over(e) == total[e] > Cap

\* Remove the oldest of the list, by path: what has that path by now.
EvictOne(e) ==
  /\ pc[e] = "evict" /\ UNCHANGED pc
  /\ Over(e) /\ list[e] # <<>>
  /\ LET f == Head(list[e]) IN
       /\ dir' = Without(f.path)
       /\ total' = [total EXCEPT ![e] = IF Has(f.path) THEN @ - Size(f) ELSE @]
  /\ list' = [list EXCEPT ![e] = Tail(@)]
  /\ UNCHANGED <<bin, model, mem, prompt, L, calls, crashes>>

EvictEnds(e) ==
  /\ Goto(e, "evict", "idle")
  /\ ~Over(e) \/ list[e] = <<>>
  /\ Ends(e) /\ UNCHANGED <<files, model, mem, calls, crashes>>

-----------------------------------------------------------------------------
(* Processes and the model file                                            *)

\* A process ends, a file it writes stays as it is; another one reads the
\* weights,
Crash(e) ==
  /\ crashes < MaxCrashes /\ crashes' = crashes + 1
  /\ pc' = [pc EXCEPT ![e] = "load"]
  /\ weights' = [weights EXCEPT ![e] = bin]
  /\ mem' = [mem EXCEPT ![e] = [rows |-> [i \in 1 .. SeqLen |-> None], rec |-> None]]
  /\ born' = [born EXCEPT ![e] = crashes']
  /\ Ends(e) /\ UNCHANGED <<files, bin_id, calls>>

\* Mutant: the model_id is that of the path alone.
LoadIdPath(e) ==
  /\ Goto(e, "load", "idle")
  /\ UNCHANGED <<files, model, local, calls, crashes>>

\* and then computes the model_id from what stat says of the path.
LoadId(e) ==
  /\ Goto(e, "load", "idle")
  /\ bin_id' = [bin_id EXCEPT ![e] = bin]
  /\ UNCHANGED <<files, weights, born, local, calls, crashes>>

Export ==
  /\ bin < MaxExports /\ bin' = bin + 1
  /\ MidLoad \/ \A e \in Engines : pc[e] # "load"
  /\ UNCHANGED <<dir, model, pc, local, calls, crashes>>

-----------------------------------------------------------------------------

Engine(e) ==
  \/ Prefill(e) \/ DirList(e) \/ Hit(e) \/ Pass(e) \/ Miss(e) \/ Touch(e) \/ Step(e)
  \/ StoreSkips(e) \/ OpenTmp(e) \/ Close(e) \/ StoreFails(e) \/ Rename(e)
  \/ EvictList(e) \/ EvictOne(e) \/ EvictEnds(e) \/ Crash(e) \/ LoadId(e)

Next == (\E e \in Engines : Engine(e)) \/ Export

Spec == Init /\ [][Next]_vars

-----------------------------------------------------------------------------
(* Properties.                                                             *)

\* The files a store may leave, and what an engine may have in memory.
Tagged == Tags \cup {None}
Paths == ({"key"} \X {Name[k] : k \in Keys}) \cup ({"tmp"} \X Engines \X (0 .. MaxCrashes))
File == [path : Paths, key : Keys, rows : [1 .. SeqLen -> Tagged], rec : Tagged, kept : Kept]
Memory == [rows : [1 .. SeqLen -> Tagged], rec : Tagged]

\* No two files of a directory have one path.
OwnPaths(d) == \A i, j \in DOMAIN d : d[i].path = d[j].path => i = j

\* TypeOK: every file is one that a store wrote, at a path of its own; the counters
\* stay in their bounds and the sum of sizes never goes below zero.
TypeOK ==
  /\ dir \in Seq(File) /\ OwnPaths(dir)
  /\ bin \in Versions /\ weights \in [Engines -> Versions] /\ bin_id \in [Engines -> Versions]
  /\ pc \in [Engines -> {"idle", "list", "scan", "touch", "step", "store", "write",
                         "rename", "evictlist", "evict", "load"}]
  /\ mem \in [Engines -> Memory] /\ prompt \in [Engines -> Prompts \cup {<<>>}]
  /\ L \in [Engines -> 0 .. SeqLen] /\ list \in [Engines -> Seq(File)] /\ total \in [Engines -> Nat]
  /\ calls \in 0 .. MaxCalls /\ crashes \in 0 .. MaxCrashes /\ born \in [Engines -> 0 .. crashes]

\* WarmIsCold: after a prefill the state is that of a cold one under the weights
\* loaded, whatever was restored, was cut short, shared its hash or was evicted and
\* stored again by another engine meanwhile (model.c:743-757).
WarmIsCold == \A e \in Engines : pc[e] = "store" => Cold(e, Whole(e))

\* UnderCap: with no store in progress and none cut off, the directory is within its
\* cap, however the engines' lists and removals interleave (state_cache.c:305-314).
UnderCap ==
  crashes = 0 /\ (\A e \in Engines : pc[e] \notin {"write", "rename", "evictlist", "evict"})
    => SumSizes(dir) <= Cap

\* The state a file was written from is the one its header names.
Right(f) ==
  /\ f.rec = f.key
  /\ \A k \in 1 .. Len(f.key[2]) : f.rows[k] = <<f.key[1], Upto(f.key[2], k)>>

\* StoreKeepsOwn: while no other engine is at work, a store does not remove the file
\* it has just added, even one larger than the cap (state_cache.c:309).
StoreKeepsOwn ==
  [][\A e \in Engines :
       EvictOne(e) /\ (\A d \in Engines \ {e} : pc[d] = "idle")
         => Head(list[e]).path # Path(e, Whole(e))]_vars

-----------------------------------------------------------------------------
(* Why, when no export falls within the load of a model.                   *)

\* The model_id is that of the weights, once it has been computed.
Identified ==
  \A e \in Engines : weights[e] = IF pc[e] = "load" THEN bin ELSE bin_id[e]

\* In a call there is a prompt, and what was restored is a prefix of it.
InCall ==
  \A e \in Engines : pc[e] \notin {"idle", "load"} => prompt[e] \in Prompts /\ L[e] <= Whole(e)

\* What has been restored is what a cold prefill had made.
Restored == \A e \in Engines : pc[e] \in {"touch", "step"} => Cold(e, L[e])

\* An engine's temporary file is there only while it writes it.
OwnTmp ==
  \A i \in DOMAIN dir, e \in Engines, n \in 0 .. MaxCrashes :
    dir[i].path = <<"tmp", e, n>> =>
      n <= born[e] /\ (n = born[e] => pc[e] \in {"write", "rename"})

\* An eviction knows of at least as much as it has left to remove.
Counted == \A e \in Engines : pc[e] = "evict" => SumSizes(list[e]) <= total[e]

\* The engines' and the directory's part.
IInv ==
  /\ TypeOK /\ Identified /\ InCall /\ Restored /\ WarmIsCold /\ OwnTmp /\ Counted
  /\ \A i \in DOMAIN dir : Right(dir[i])

\* The files of one kind, stored or temporary; the others do not count.
OfKind(kind, fs) ==
  [i \in DOMAIN fs |-> IF fs[i].path[1] = kind THEN fs[i] ELSE [fs[i] EXCEPT !.kept = "none"]]
Stored(fs)    == SumSizes(OfKind("key", fs))
Temporary(fs) == SumSizes(OfKind("tmp", fs))

\* An eviction has all stored files there are in what is left of its list, and has
\* counted them, and what it still takes for temporary files.
SeesAll(e) ==
  /\ pc[e] = "evict" /\ OwnPaths(list[e])
  /\ \A i \in DOMAIN dir : dir[i].path[1] = "key" => \E j \in DOMAIN list[e] : list[e][j] = dir[i]
  /\ Stored(dir) + Temporary(list[e]) <= total[e]

\* As long as no engine was cut off, what is above the cap is somebody's to remove:
\* the last that lists the directory after a store sees all there is.
Looked ==
  crashes = 0 =>
    \/ Stored(dir) <= Cap
    \/ \E e \in Engines : pc[e] = "evictlist" \/ SeesAll(e)

\* CacheInv: the files are well formed and say what they are, so that any engine may
\* restore what any other stored, across exports, restarts and files cut short; and
\* what is above the cap is being removed (state_cache.c:299-354).
CacheInv == IInv /\ Looked
=============================================================================
