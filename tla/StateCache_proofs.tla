-------------------------- MODULE StateCache_proofs ---------------------------
(***************************************************************************)
(* Proofs about StateCache, for any engines, prompts, hash, cap and number *)
(* of prefills, crashes and exports: no prefill ends in a state a cold one *)
(* would not have, whatever was restored; no file in the directory holds   *)
(* what its header does not name; and once every engine is done storing,   *)
(* what is stored fits the cap.                                            *)
(*                                                                         *)
(* They assume ~MidLoad: with an export between the reading of the weights *)
(* and the hash of the model file the first two fail, as a run shows.  The *)
(* invariant says what every engine relies on between two calls of the file *)
(* system: its temporary name is its own, what it has restored is what a   *)
(* cold prefill leaves, and the total it evicts by is the sum of what it has *)
(* listed.  The cap rests on Looked: of the engines still evicting, the one *)
(* that listed the directory last has seen every file stored since.        *)
(***************************************************************************)
EXTENDS StateCache, TLAPS, SequenceTheorems, WellFoundedInduction

\* Every set of numbers that has a member has a least one.
LEMMA LeastOf ==
  ASSUME NEW T \in SUBSET Nat, T # {}
  PROVE  \E n \in T : \A m \in T : n <= m
<1> DEFINE R == OpToRel(<, Nat)
<1>1. IsWellFoundedOn(R, Nat)
  BY NatLessThanWellFounded
<1>2. \A x, y \in Nat : <<y, x>> \in R <=> y < x
  BY DEF OpToRel
<1> HIDE DEF R
<1>3. PICK x \in T : \A y \in T : ~ (<<y, x>> \in R)
  BY <1>1, WFMin
<1>4. \A y \in T : ~(y < x)
  BY <1>2, <1>3
<1> QED
  BY <1>4

\* And every bounded one a greatest.
LEMMA GreatestOf ==
  ASSUME NEW n \in Nat, NEW T \in SUBSET (1 .. n), T # {}
  PROVE  \E k \in T : \A m \in T : m <= k
<1> DEFINE U == {n - k : k \in T}
<1>1. U # {}
  OBVIOUS
<1>2. \A u \in U : u \in Nat
  OBVIOUS
<1>3. \E u \in U : \A m \in U : u <= m
  <2> HIDE DEF U
  <2> QED BY <1>1, <1>2, LeastOf
<1>4. PICK k \in T : \A m \in T : n - k <= n - m
  BY <1>3
<1> QED
  BY <1>4

\* A context has a natural number of rows, and no prompt has more bytes.
LEMMA LengthIs ==
  /\ SeqLen \in Nat /\ 0 \in 0 .. SeqLen
  /\ \A p \in Prompts : Len(p) \in 1 .. SeqLen /\ Len(p) \in Nat
  BY CacheAssumption

\* A prefix of a prompt is a sequence of its length, and its prefixes are the prompt's.
LEMMA UptoIs ==
  ASSUME NEW p \in Prompts, NEW k \in 1 .. Len(p)
  PROVE  /\ Upto(p, k) \in Prefixes /\ Len(Upto(p, k)) = k /\ k \in 1 .. SeqLen
         /\ \A i \in 1 .. k : Upto(Upto(p, k), i) = Upto(p, i)
<1>1. p \in Seq(Token) /\ Len(p) \in 1 .. SeqLen
  BY CacheAssumption
<1>2. Upto(p, k) \in Prefixes
  BY DEF Prefixes
<1>3. ASSUME NEW s \in Seq(Token), NEW n \in 1 .. Len(s)
      PROVE  /\ Upto(s, n) \in Seq(Token) /\ Len(Upto(s, n)) = n
             /\ \A j \in 1 .. n : Upto(s, n)[j] = s[j]
  <2>1. \A j \in 1 .. n : s[j] \in Token
    BY <1>3
  <2> QED
    BY <1>3, <2>1, SubSeqProperties DEF Upto
<1>4. /\ Upto(p, k) \in Seq(Token) /\ Len(Upto(p, k)) = k
      /\ \A j \in 1 .. k : Upto(p, k)[j] = p[j]
  BY <1>1, <1>3
<1>5. ASSUME NEW i \in 1 .. k PROVE Upto(Upto(p, k), i) = Upto(p, i)
  <2>1. i \in 1 .. Len(p) /\ i \in 1 .. Len(Upto(p, k)) /\ \A j \in 1 .. i : j \in 1 .. k
    BY <1>1, <1>4
  <2>2. /\ Upto(p, i) \in Seq(Token) /\ Len(Upto(p, i)) = i
        /\ \A j \in 1 .. i : Upto(p, i)[j] = p[j]
    BY <1>1, <1>3, <2>1
  <2>3. PICK q \in Seq(Token) : q = Upto(p, k)
    BY <1>4
  <2>4. /\ Upto(q, i) \in Seq(Token) /\ Len(Upto(q, i)) = i
        /\ \A j \in 1 .. i : Upto(q, i)[j] = q[j]
    BY <1>3, <2>1, <2>3
  <2>5. \A j \in 1 .. i : Upto(q, i)[j] = Upto(p, i)[j]
    BY <1>4, <2>1, <2>2, <2>3, <2>4
  <2> QED
    BY <2>2, <2>3, <2>4, <2>5, SeqEqual
<1> QED
  BY LengthIs, <1>1, <1>2, <1>4, <1>5

\* A file has a size.
LEMMA SizeIs == ASSUME NEW f \in File PROVE Size(f) \in Nat
<1>1. PICK p \in Prompts : \E k \in 1 .. Len(p) : f.key[2] = Upto(p, k)
  BY DEF File, Keys, Prefixes
<1> QED
  BY <1>1, UptoIs DEF Size

\* Removing a path leaves the other files of the directory.
LEMMA WithoutIs ==
  ASSUME dir \in Seq(File), OwnPaths(dir), NEW q
  PROVE  /\ Without(q) \in Seq(File) /\ OwnPaths(Without(q))
         /\ \A i \in DOMAIN Without(q) :
              Without(q)[i].path # q /\ \E j \in DOMAIN dir : Without(q)[i] = dir[j]
<1>1. CASE ~Has(q)
  BY <1>1 DEF Without, Has
<1>2. CASE Has(q)
  <2> DEFINE k == Place(q)
             w == Without(q)
  <2>1. k \in 1 .. Len(dir) /\ dir[k].path = q /\ Len(dir) \in Nat
    BY <1>2 DEF Has, Place
  <2>2. w = [i \in 1 .. Len(dir) - 1 |-> IF i < k THEN dir[i] ELSE dir[i + 1]]
    BY <1>2 DEF Without
  <2> HIDE DEF k, w
  <2>3. w \in Seq(File) /\ DOMAIN w = 1 .. Len(dir) - 1
    <3>1. \A i \in 1 .. Len(dir) - 1 : (IF i < k THEN dir[i] ELSE dir[i + 1]) \in File
      BY <2>1
    <3>2. w \in [1 .. Len(dir) - 1 -> File]
      BY <2>2, <3>1
    <3>3. Len(dir) - 1 \in Nat
      BY <2>1
    <3> QED
      BY <3>2, <3>3
  <2>4. ASSUME NEW i \in 1 .. Len(dir) - 1
        PROVE  \E j \in 1 .. Len(dir) : j # k /\ w[i] = dir[j] /\ j = IF i < k THEN i ELSE i + 1
    BY <2>1, <2>2
  <2>5. OwnPaths(w)
    <3> SUFFICES ASSUME NEW i \in 1 .. Len(dir) - 1, NEW j \in 1 .. Len(dir) - 1, w[i].path = w[j].path
                 PROVE  i = j
      BY <2>3 DEF OwnPaths
    <3>1. PICK a \in 1 .. Len(dir) : w[i] = dir[a] /\ a = IF i < k THEN i ELSE i + 1
      BY <2>4
    <3>2. PICK b \in 1 .. Len(dir) : w[j] = dir[b] /\ b = IF j < k THEN j ELSE j + 1
      BY <2>4
    <3>3. a = b
      BY <3>1, <3>2 DEF OwnPaths
    <3> QED
      BY <2>1, <3>1, <3>2, <3>3
  <2>6. \A i \in DOMAIN w : w[i].path # q /\ \E j \in DOMAIN dir : w[i] = dir[j]
    BY <2>1, <2>3, <2>4 DEF OwnPaths
  <2> QED
    BY <2>3, <2>5, <2>6 DEF w
<1> QED
  BY <1>1, <1>2

\* Adding a file of a new path leaves each path to one file.
LEMMA AppendIs ==
  ASSUME NEW d \in Seq(File), OwnPaths(d), NEW f \in File, \A i \in DOMAIN d : d[i].path # f.path
  PROVE  /\ Append(d, f) \in Seq(File) /\ OwnPaths(Append(d, f))
         /\ \A i \in DOMAIN Append(d, f) : Append(d, f)[i] = f \/ \E j \in DOMAIN d : Append(d, f)[i] = d[j]
<1> DEFINE a == Append(d, f)
<1>1. /\ a \in Seq(File) /\ Len(a) = Len(d) + 1 /\ a[Len(d) + 1] = f /\ Len(d) \in Nat
      /\ \A i \in 1 .. Len(d) : a[i] = d[i]
  BY AppendProperties
<1> HIDE DEF a
<1>2. DOMAIN a = 1 .. Len(d) + 1 /\ DOMAIN d = 1 .. Len(d)
  BY <1>1
<1>3. \A i \in DOMAIN a : i \in DOMAIN d \/ i = Len(d) + 1
  BY <1>1, <1>2
<1>4. OwnPaths(a)
  BY <1>1, <1>2, <1>3 DEF OwnPaths
<1> QED
  BY <1>1, <1>2, <1>3, <1>4 DEF a

\* The file at a path there is, is one of the directory's.
LEMMA AtIs ==
  ASSUME dir \in Seq(File), NEW q, Has(q)
  PROVE  At(q) \in File /\ At(q).path = q /\ \E j \in DOMAIN dir : At(q) = dir[j]
<1>1. Place(q) \in DOMAIN dir /\ dir[Place(q)].path = q
  BY DEF Has, Place
<1>2. dir[Place(q)] \in File
  BY <1>1
<1> QED
  BY <1>1, <1>2 DEF At

-----------------------------------------------------------------------------
\* The recurrence of SumSizes, up to n.
Adds(fs, n, f) == f = [i \in 0 .. n |-> IF i = 0 THEN 0 ELSE f[i - 1] + Size(fs[i])]

\* A sum of sizes can be made from any list of files: at the least number of files
\* for which it could not, the sum for one fewer and a size would make it.
LEMMA AddsExist ==
  ASSUME NEW fs \in Seq(File)
  PROVE  \A n \in 0 .. Len(fs) : \E f : Adds(fs, n, f)
<1> DEFINE T == {n \in 0 .. Len(fs) : ~ \E f : Adds(fs, n, f)}
<1> SUFFICES ASSUME T # {} PROVE FALSE
  OBVIOUS
<1>1. T \in SUBSET Nat
  OBVIOUS
<1>2. PICK n \in T : \A m \in T : n <= m
  <2> HIDE DEF T
  <2> QED BY <1>1, LeastOf
<1>3. n # 0
  <2> DEFINE z == [i \in 0 .. 0 |-> 0]
  <2>1. Adds(fs, 0, z)
    BY DEF Adds
  <2> QED
    BY <1>2, <2>1
<1>4. n - 1 \in 0 .. Len(fs) /\ n \in Nat /\ n - 1 \notin T
  BY <1>2, <1>3
<1>5. PICK f : Adds(fs, n - 1, f)
  BY <1>4
<1> DEFINE g == [i \in 0 .. n |-> IF i = n THEN f[n - 1] + Size(fs[n]) ELSE f[i]]
<1>6. Adds(fs, n, g)
  <2>1. \A i \in 0 .. n - 1 : f[i] = IF i = 0 THEN 0 ELSE f[i - 1] + Size(fs[i])
    BY <1>4, <1>5 DEF Adds
  <2>2. ASSUME NEW i \in 0 .. n PROVE g[i] = IF i = 0 THEN 0 ELSE g[i - 1] + Size(fs[i])
    <3>1. CASE i = n
      BY <1>3, <1>4, <3>1
    <3>2. CASE i # n
      <4>1. i \in 0 .. n - 1 /\ i \in Nat
        BY <1>4, <3>2
      <4>2. i # 0 => i - 1 \in 0 .. n /\ i - 1 # n
        BY <1>4, <4>1
      <4> QED
        BY <2>1, <3>2, <4>1, <4>2
    <3> QED
      BY <3>1, <3>2
  <2>3. g = [i \in 0 .. n |-> g[i]]
    OBVIOUS
  <2> HIDE DEF g
  <2> QED
    BY <2>2, <2>3 DEF Adds
<1> QED
  BY <1>2, <1>6

\* SumSizes is such a sum.
LEMMA SumIs ==
  ASSUME NEW fs \in Seq(File)
  PROVE  \E f : Adds(fs, Len(fs), f) /\ SumSizes(fs) = f[Len(fs)]
<1>1. Len(fs) \in 0 .. Len(fs)
  OBVIOUS
<1>2. \E f : Adds(fs, Len(fs), f)
  BY <1>1, AddsExist
<1> DEFINE sum == CHOOSE f : Adds(fs, Len(fs), f)
<1>3. Adds(fs, Len(fs), sum)
  BY <1>2
<1>4. SumSizes(fs) = sum[Len(fs)]
  BY DEF SumSizes, Adds
<1> QED
  BY <1>3, <1>4

\* Sums of sizes are numbers.
LEMMA SumNat ==
  ASSUME NEW fs \in Seq(File)
  PROVE  SumSizes(fs) \in Nat
<1>1. PICK f : Adds(fs, Len(fs), f) /\ SumSizes(fs) = f[Len(fs)]
  BY SumIs
<1> DEFINE T == {n \in 0 .. Len(fs) : f[n] \notin Nat}
<1> SUFFICES ASSUME T # {} PROVE FALSE
  BY <1>1
<1>2. T \in SUBSET Nat
  OBVIOUS
<1>3. PICK n \in T : \A m \in T : n <= m
  <2> HIDE DEF T
  <2> QED BY <1>2, LeastOf
<1>4. f[n] = IF n = 0 THEN 0 ELSE f[n - 1] + Size(fs[n])
  BY <1>1, <1>3 DEF Adds
<1>5. n # 0
  BY <1>3, <1>4
<1>6. n - 1 \in 0 .. Len(fs) /\ n - 1 \notin T /\ n \in 1 .. Len(fs)
  BY <1>3, <1>5
<1>7. Size(fs[n]) \in Nat
  BY <1>6, SizeIs
<1> QED
  BY <1>3, <1>4, <1>5, <1>6, <1>7

\* What is left of a sum when the first file goes.
LEMMA SumTail ==
  ASSUME NEW fs \in Seq(File), fs # <<>>
  PROVE  SumSizes(fs) = Size(Head(fs)) + SumSizes(Tail(fs))
<1>1. /\ Len(fs) \in Nat \ {0} /\ Head(fs) = fs[1] /\ fs[1] \in File /\ Tail(fs) \in Seq(File)
      /\ Len(Tail(fs)) = Len(fs) - 1
      /\ \A i \in 1 .. Len(fs) - 1 : Tail(fs)[i] = fs[i + 1]
  BY EmptySeq, HeadTailProperties
<1>2. PICK f : Adds(fs, Len(fs), f) /\ SumSizes(fs) = f[Len(fs)]
  BY SumIs
<1>3. PICK g : Adds(Tail(fs), Len(fs) - 1, g) /\ SumSizes(Tail(fs)) = g[Len(fs) - 1]
  BY <1>1, SumIs
<1> DEFINE a == Size(fs[1])
           T == {n \in 0 .. Len(fs) - 1 : ~(g[n] \in Int /\ f[n + 1] = a + g[n])}
<1>4. a \in Nat
  BY <1>1, SizeIs
<1>5. T = {}
  <2> SUFFICES ASSUME T # {} PROVE FALSE
    OBVIOUS
  <2>1. T \in SUBSET Nat
    BY <1>1
  <2>2. PICK n \in T : \A m \in T : n <= m
    <3> HIDE DEF T
    <3> QED BY <2>1, LeastOf
  <2>3. n \in 0 .. Len(fs) - 1 /\ n + 1 \in 0 .. Len(fs) /\ n + 1 # 0 /\ (n + 1) - 1 = n
    BY <1>1, <2>2
  <2>4. f[n + 1] = f[n] + Size(fs[n + 1])
    BY <1>2, <2>3 DEF Adds
  <2>5. g[n] = IF n = 0 THEN 0 ELSE g[n - 1] + Size(Tail(fs)[n])
    BY <1>3, <2>3 DEF Adds
  <2>6. n # 0
    <3>1. f[0] = 0
      BY <1>1, <1>2 DEF Adds
    <3> HIDE DEF a
    <3>2. n = 0 => g[n] = 0 /\ f[n + 1] = 0 + Size(fs[1])
      BY <2>4, <2>5, <3>1
    <3> QED
      BY <1>4, <2>2, <3>2 DEF a
  <2>7. n - 1 \in 0 .. Len(fs) - 1 /\ n - 1 \notin T /\ (n - 1) + 1 = n /\ n \in 1 .. Len(fs) - 1
    BY <1>1, <2>2, <2>3, <2>6
  <2>8. g[n - 1] \in Int /\ f[n] = a + g[n - 1]
    BY <2>7
  <2>9. Size(fs[n + 1]) \in Nat /\ Tail(fs)[n] = fs[n + 1]
    BY <1>1, <2>7, SizeIs
  <2> HIDE DEF a
  <2>10. g[n] = g[n - 1] + Size(fs[n + 1])
    BY <2>5, <2>6, <2>9
  <2> QED
    BY <1>4, <2>2, <2>4, <2>8, <2>9, <2>10
<1>6. Len(fs) - 1 \in 0 .. Len(fs) - 1 /\ (Len(fs) - 1) + 1 = Len(fs)
  BY <1>1
<1> QED
  BY <1>1, <1>2, <1>3, <1>5, <1>6

-----------------------------------------------------------------------------
\* Every engine starts idle, and the directory empty.
LEMMA InitInv == Init => IInv
<1> SUFFICES ASSUME Init PROVE IInv
  OBVIOUS
<1>1. dir \in Seq(File) /\ DOMAIN dir = {}
  BY DEF Init
<1>2. TypeOK
  <2>1. \A e \in Engines : mem[e] \in Memory
    BY DEF Init, Memory, Tagged
  <2>2. mem \in [Engines -> Memory]
    BY <2>1 DEF Init
  <2>3. \A e \in Engines : list[e] \in Seq(File)
    BY DEF Init
  <2>4. {MaxCalls, MaxCrashes, MaxExports} \subseteq Nat
    BY CacheAssumption
  <2>5. bin \in Versions /\ calls \in 0 .. MaxCalls /\ crashes \in 0 .. MaxCrashes
    BY <2>4 DEF Init, Versions
  <2>6. list \in [Engines -> Seq(File)]
    BY <2>3 DEF Init
  <2>7. /\ weights \in [Engines -> Versions] /\ bin_id \in [Engines -> Versions]
        /\ born \in [Engines -> 0 .. crashes]
    BY <2>5 DEF Init
  <2>8. /\ prompt \in [Engines -> Prompts \cup {<<>>}] /\ L \in [Engines -> 0 .. SeqLen] /\ total \in [Engines -> Nat]
        /\ pc \in [Engines -> {"idle"}]
    BY LengthIs DEF Init
  <2> QED
    BY <1>1, <2>2, <2>5, <2>6, <2>7, <2>8 DEF TypeOK, OwnPaths
<1> QED
  BY <1>1, <1>2, CacheAssumption DEF Init, IInv, Identified, InCall, Restored, WarmIsCold, OwnTmp,
     Counted

\* What is in memory of a prefix of the prompt is well typed.
LEMMA TagIs ==
  ASSUME TypeOK, NEW e \in Engines, prompt[e] \in Prompts, NEW k \in 1 .. Whole(e)
  PROVE  /\ Key(e, k) \in Keys /\ Tag(e, k) \in Tagged /\ k \in 1 .. SeqLen
         /\ Path(e, k) \in Paths /\ Tmp(e) \in Paths
<1>1. Upto(prompt[e], k) \in Prefixes /\ k \in 1 .. SeqLen
  BY UptoIs DEF Whole
<1>2. weights[e] \in Versions /\ bin_id[e] \in Versions
  BY DEF TypeOK
<1>3. born[e] \in 0 .. MaxCrashes
  BY CacheAssumption DEF TypeOK
<1> QED
  BY <1>1, <1>2, <1>3 DEF Key, Keys, Tag, Tags, Tagged, Path, Paths, Tmp

\* Where a prefix of the prompt is listed there is a longest one.
LEMMA LongestIs ==
  ASSUME TypeOK, NEW e \in Engines, Present(e) # {}
  PROVE  Longest(e) \in Present(e) /\ Longest(e) \in 1 .. L[e]
<1>1. /\ MinPrefix \in Nat \ {0} /\ L[e] \in Nat
      /\ \A k \in Present(e) : k \in 1 .. L[e]
  <2>0. L[e] \in 0 .. SeqLen
    BY DEF TypeOK
  <2>1. MinPrefix \in Nat \ {0} /\ L[e] \in Nat
    BY <2>0, CacheAssumption
  <2>2. \A k \in Present(e) : k \in MinPrefix .. L[e]
    BY DEF Present
  <2> QED
    BY <2>1, <2>2
<1>2. \E k \in Present(e) : \A l \in Present(e) : l <= k
  BY <1>1, GreatestOf
<1> QED
  BY <1>1, <1>2 DEF Longest

\* A directory from which files are gone, and nothing else, is as good as before.
LEMMA FewerFiles ==
  ASSUME IInv, dir' \in Seq(File), OwnPaths(dir'), UNCHANGED born,
         \A i \in DOMAIN dir' : \E j \in DOMAIN dir : dir'[i] = dir[j],
         \A d \in Engines : pc[d] \in {"write", "rename"} =>
           pc'[d] \in {"write", "rename"} \/ \A i \in DOMAIN dir' : dir'[i].path # Tmp(d)
  PROVE  OwnTmp' /\ \A i \in DOMAIN dir' : Right(dir'[i])
<1>1. \A i \in DOMAIN dir' : Right(dir'[i])
  BY DEF IInv
<1>2. OwnTmp'
  <2> SUFFICES ASSUME NEW i \in DOMAIN dir', NEW d \in Engines, NEW n \in 0 .. MaxCrashes,
                      dir'[i].path = <<"tmp", d, n>>
               PROVE  n <= born[d] /\ (n = born[d] => pc'[d] \in {"write", "rename"})
    BY DEF OwnTmp
  <2>1. PICK j \in DOMAIN dir : dir'[i] = dir[j]
    OBVIOUS
  <2>2. n <= born[d] /\ (n = born[d] => pc[d] \in {"write", "rename"})
    BY <2>1 DEF IInv, OwnTmp
  <2>3. n = born[d] => dir'[i].path = Tmp(d)
    BY DEF Tmp
  <2> QED
    BY <2>2, <2>3
<1> QED
  BY <1>1, <1>2

\* Files that are as good as before keep the invariant, if what the engine has in
\* memory is what the place it is at asks for.
LEMMA EngineStep ==
  ASSUME IInv, NEW e \in Engines, UNCHANGED <<bin, weights, bin_id, born, crashes>>, TypeOK',
         OwnTmp', \A i \in DOMAIN dir' : Right(dir'[i]),
         \A d \in Engines \ {e} : /\ pc'[d] = pc[d] /\ mem'[d] = mem[d] /\ prompt'[d] = prompt[d]
                                  /\ L'[d] = L[d] /\ list'[d] = list[d] /\ total'[d] = total[d],
         pc[e] # "load", pc'[e] # "load",
         pc'[e] # "idle" => prompt'[e] \in Prompts /\ L'[e] <= Len(prompt'[e]),
         pc'[e] \in {"touch", "step"} => Made(mem'[e], weights[e], prompt'[e], L'[e]),
         pc'[e] = "store" => Made(mem'[e], weights[e], prompt'[e], Len(prompt'[e])),
         pc'[e] = "evict" => SumSizes(list'[e]) <= total'[e]
  PROVE  IInv'
<1>1. Identified'
  BY DEF IInv, Identified
<1>2. InCall'
  BY DEF IInv, InCall, Whole
<1>3. Restored' /\ WarmIsCold'
  BY DEF IInv, Restored, WarmIsCold, Cold, Whole
<1>4. Counted'
  BY DEF IInv, Counted
<1> QED
  BY <1>1, <1>2, <1>3, <1>4 DEF IInv

\* The same where the directory is left alone.
LEMMA QuietStep ==
  ASSUME IInv, NEW e \in Engines, UNCHANGED <<dir, bin, weights, bin_id, born, crashes>>, TypeOK',
         \A d \in Engines \ {e} : /\ pc'[d] = pc[d] /\ mem'[d] = mem[d] /\ prompt'[d] = prompt[d]
                                  /\ L'[d] = L[d] /\ list'[d] = list[d] /\ total'[d] = total[d],
         pc[e] \notin {"load", "write", "rename"}, pc'[e] # "load",
         pc'[e] # "idle" => prompt'[e] \in Prompts /\ L'[e] <= Len(prompt'[e]),
         pc'[e] \in {"touch", "step"} => Made(mem'[e], weights[e], prompt'[e], L'[e]),
         pc'[e] = "store" => Made(mem'[e], weights[e], prompt'[e], Len(prompt'[e])),
         pc'[e] = "evict" => SumSizes(list'[e]) <= total'[e]
  PROVE  IInv'
<1>1. OwnTmp' /\ \A i \in DOMAIN dir' : Right(dir'[i])
  BY FewerFiles DEF IInv, TypeOK
<1> QED
  BY <1>1, EngineStep

\* A prefill and the listing of the directory: nothing is in memory yet.
LEMMA PrefillStep == ASSUME IInv, NEW e \in Engines, Prefill(e) \/ DirList(e) PROVE IInv'
<1>1. CASE Prefill(e)
  <2>0. PICK p \in Prompts : \E k \in {Len(p), Len(p) - 1} :
          prompt' = [prompt EXCEPT ![e] = p] /\ L' = [L EXCEPT ![e] = k]
    BY <1>1 DEF Prefill
  <2>1. PICK k \in {Len(p), Len(p) - 1} :
          prompt' = [prompt EXCEPT ![e] = p] /\ L' = [L EXCEPT ![e] = k]
    BY <2>0
  <2>2. Len(p) \in 1 .. SeqLen /\ k \in 0 .. SeqLen /\ k <= Len(p)
    <3>1. Len(p) \in 1 .. SeqLen
      BY CacheAssumption
    <3>2. \A a \in 1 .. SeqLen : \A b \in {a, a - 1} : b \in 0 .. SeqLen /\ b <= a
      BY LengthIs
    <3>3. k \in {Len(p), Len(p) - 1}
      OBVIOUS
    <3> QED
      BY <3>1, <3>2, <3>3
  <2>3. L'[e] <= Len(p) /\ L'[e] \in 0 .. SeqLen
    BY <2>1, <2>2 DEF IInv, TypeOK
  <2>4. TypeOK'
    <3>1. L' \in [Engines -> 0 .. SeqLen] /\ prompt' \in [Engines -> Prompts \cup {<<>>}]
      BY <2>1, <2>3 DEF IInv, TypeOK
    <3>2. pc' \in [Engines -> {"idle", "list", "scan", "touch", "step", "store", "write",
                               "rename", "evictlist", "evict", "load"}]
      BY <1>1 DEF Prefill, Goto, IInv, TypeOK
    <3>3. calls' \in 0 .. MaxCalls
      BY <1>1, CacheAssumption DEF Prefill, IInv, TypeOK
    <3> QED
      BY <1>1, <3>1, <3>2, <3>3 DEF Prefill, Goto, IInv, TypeOK, files, model
  <2>5. pc[e] = "idle" /\ pc'[e] = "list"
    BY <1>1 DEF Prefill, Goto, IInv, TypeOK
  <2>6. prompt'[e] = p
    BY <2>1 DEF IInv, TypeOK
  <2>7. \A d \in Engines \ {e} : /\ pc'[d] = pc[d] /\ mem'[d] = mem[d] /\ prompt'[d] = prompt[d]
                                 /\ L'[d] = L[d] /\ list'[d] = list[d] /\ total'[d] = total[d]
    BY <1>1, <2>1 DEF Prefill, Goto, IInv, TypeOK
  <2>8. UNCHANGED <<dir, bin, weights, bin_id, born, crashes>>
    BY <1>1 DEF Prefill, files, model
  <2> QED
    BY <2>3, <2>4, <2>5, <2>6, <2>7, <2>8, QuietStep
<1>2. CASE DirList(e)
  <2>1. /\ pc[e] = "list" /\ pc' = [pc EXCEPT ![e] = "scan"] /\ list' = [list EXCEPT ![e] = dir]
        /\ UNCHANGED <<dir, bin, weights, bin_id, born, mem, prompt, L, total, calls, crashes>>
    BY <1>2 DEF DirList, Goto, files, model
  <2>2. TypeOK'
    BY <2>1 DEF IInv, TypeOK, OwnPaths
  <2>3. pc'[e] = "scan" /\ prompt'[e] \in Prompts /\ L'[e] <= Len(prompt'[e])
    BY <2>1 DEF IInv, TypeOK, InCall, Whole
  <2>4. \A d \in Engines \ {e} : pc'[d] = pc[d] /\ list'[d] = list[d]
    BY <2>1 DEF IInv, TypeOK
  <2> QED
    BY <2>1, <2>2, <2>3, <2>4, QuietStep
<1> QED
  BY <1>1, <1>2

\* What a file leaves in memory is well typed, whole or not.
LEMMA LoadedIs ==
  ASSUME TypeOK, NEW e \in Engines, NEW f \in File
  PROVE  Loaded(e, f) \in Memory
<1>1. mem[e].rec \in Tagged /\ mem[e].rows \in [1 .. SeqLen -> Tagged]
  BY DEF TypeOK, Memory
<1>2. f.rec \in Tagged /\ f.rows \in [1 .. SeqLen -> Tagged]
  BY DEF File
<1>3. \A i \in 1 .. SeqLen : (IF f.kept # "none" /\ i <= Len(f.key[2]) THEN f.rows[i] ELSE mem[e].rows[i]) \in Tagged
  BY <1>1, <1>2
<1> QED
  BY <1>1, <1>2, <1>3 DEF Loaded, Memory

\* A whole file whose header names the engine's model and a prefix of its prompt
\* leaves what a cold prefill of that prefix would.
LEMMA HitStep == ASSUME IInv, NEW e \in Engines, Hit(e) PROVE IInv'
<1> DEFINE k == Longest(e)
           f == At(Path(e, k))
<1>1. /\ pc[e] = "scan" /\ pc' = [pc EXCEPT ![e] = "touch"] /\ Present(e) # {}
      /\ Matches(e, k) /\ f.kept = "full" /\ mem' = [mem EXCEPT ![e] = Loaded(e, f)]
      /\ L' = [L EXCEPT ![e] = k] /\ list' = [list EXCEPT ![e] = <<>>]
      /\ UNCHANGED <<dir, bin, weights, bin_id, born, prompt, total, calls, crashes>>
  BY DEF Hit, Goto, files, model
<1>2. /\ prompt[e] \in Prompts /\ L[e] \in 0 .. SeqLen /\ L[e] <= Len(prompt[e]) /\ Len(prompt[e]) \in 1 .. SeqLen
      /\ weights[e] = bin_id[e]
  BY <1>1, CacheAssumption DEF IInv, TypeOK, InCall, Whole, Identified
<1>3. k \in 1 .. L[e] /\ k \in 1 .. Len(prompt[e]) /\ k \in 0 .. SeqLen
  BY LengthIs, <1>1, <1>2, LongestIs DEF IInv
<1>4. f \in File /\ Right(f) /\ f.key = Key(e, k)
  <2>1. Has(Path(e, k)) /\ f.key = Key(e, k)
    BY <1>1 DEF Matches
  <2>2. f \in File /\ \E j \in DOMAIN dir : f = dir[j]
    BY <2>1, AtIs DEF IInv, TypeOK
  <2> QED
    BY <2>1, <2>2 DEF IInv
<1> HIDE DEF k, f
<1>5. f.key = <<weights[e], Upto(prompt[e], k)>>
  BY <1>2, <1>4 DEF Key
<1>6. Len(Upto(prompt[e], k)) = k /\ \A i \in 1 .. k : Upto(Upto(prompt[e], k), i) = Upto(prompt[e], i)
  BY <1>2, <1>3, UptoIs
<1>7. Made(Loaded(e, f), weights[e], prompt[e], k)
  <2>1. f.rec = <<weights[e], Upto(prompt[e], k)>>
    BY <1>4, <1>5 DEF Right
  <2>2. \A i \in 1 .. k : f.rows[i] = <<weights[e], Upto(prompt[e], i)>>
    BY <1>4, <1>5, <1>6 DEF Right
  <2>3. Loaded(e, f).rec = f.rec /\ \A i \in 1 .. k : Loaded(e, f).rows[i] = f.rows[i]
    <3>1. \A i \in 1 .. k : i \in 1 .. SeqLen /\ i <= Len(f.key[2])
      BY LengthIs, <1>3, <1>5, <1>6
    <3> QED
      BY <1>1, <3>1 DEF Loaded
  <2>4. k # 0
    BY <1>3
  <2> QED
    BY <2>1, <2>2, <2>3, <2>4 DEF Made
<1>8. TypeOK'
  <2>1. Loaded(e, f) \in Memory
    BY <1>4, LoadedIs DEF IInv
  <2>2. mem' \in [Engines -> Memory]
    BY <1>1, <2>1 DEF IInv, TypeOK
  <2>3. <<>> \in Seq(File)
    OBVIOUS
  <2> QED
    BY <1>1, <1>3, <2>2, <2>3 DEF IInv, TypeOK, OwnPaths
<1>9. /\ pc'[e] = "touch" /\ L'[e] = k /\ mem'[e] = Loaded(e, f) /\ prompt'[e] = prompt[e]
      /\ L'[e] <= Len(prompt'[e])
      /\ \A d \in Engines \ {e} : /\ pc'[d] = pc[d] /\ mem'[d] = mem[d] /\ prompt'[d] = prompt[d]
                                  /\ L'[d] = L[d] /\ list'[d] = list[d] /\ total'[d] = total[d]
  BY <1>1, <1>3 DEF IInv, TypeOK
<1> QED
  BY <1>1, <1>2, <1>7, <1>8, <1>9, QuietStep

\* A file that is gone, is another's or is cut short: what it leaves is not looked at.
LEMMA PassStep == ASSUME IInv, NEW e \in Engines, Pass(e) PROVE IInv'
<1> DEFINE k == Longest(e)
           f == At(Path(e, k))
<1>1. /\ pc[e] = "scan" /\ pc' = pc /\ Present(e) # {} /\ L' = [L EXCEPT ![e] = k - 1]
      /\ mem' = mem \/ (Matches(e, k) /\ mem' = [mem EXCEPT ![e] = Loaded(e, f)])
      /\ UNCHANGED <<dir, bin, weights, bin_id, born, prompt, list, total, calls, crashes>>
  <2>1. mem' = mem \/ (Matches(e, k) /\ mem' = [mem EXCEPT ![e] = Loaded(e, f)])
    BY DEF Pass
  <2> QED
    BY <2>1 DEF Pass, files, model
<1>2. prompt[e] \in Prompts /\ L[e] \in 0 .. SeqLen /\ L[e] <= Len(prompt[e]) /\ Len(prompt[e]) \in 1 .. SeqLen
  BY <1>1, CacheAssumption DEF IInv, TypeOK, InCall, Whole
<1>3. k - 1 \in 0 .. SeqLen /\ k - 1 <= Len(prompt[e])
  <2>1. k \in 1 .. L[e]
    BY <1>1, LongestIs DEF IInv
  <2> HIDE DEF k
  <2> QED
    BY LengthIs, <1>2, <2>1
<1>4. mem' \in [Engines -> Memory] /\ \A d \in Engines \ {e} : mem'[d] = mem[d]
  <2>1. CASE mem' = mem
    BY <2>1 DEF IInv, TypeOK
  <2>2. CASE Matches(e, k) /\ mem' = [mem EXCEPT ![e] = Loaded(e, f)]
    <3>1. f \in File
      BY <2>2, AtIs DEF Matches, IInv, TypeOK
    <3>2. Loaded(e, f) \in Memory
      BY <3>1, LoadedIs DEF IInv
    <3> HIDE DEF k, f
    <3> QED
      BY <2>2, <3>2 DEF IInv, TypeOK
  <2> QED
    BY <1>1, <2>1, <2>2
<1> HIDE DEF k, f
<1>5. TypeOK'
  BY <1>1, <1>3, <1>4 DEF IInv, TypeOK, OwnPaths
<1>6. L'[e] = k - 1 /\ \A d \in Engines \ {e} : L'[d] = L[d]
  BY <1>1 DEF IInv, TypeOK
<1> QED
  BY <1>1, <1>2, <1>3, <1>4, <1>5, <1>6, QuietStep

\* A miss resets what is not rows: the state of no token at all.
LEMMA MissStep == ASSUME IInv, NEW e \in Engines, Miss(e) PROVE IInv'
<1>1. /\ pc[e] = "scan" /\ pc' = [pc EXCEPT ![e] = "step"] /\ L' = [L EXCEPT ![e] = 0]
      /\ mem' = [mem EXCEPT ![e].rec = None] /\ list' = [list EXCEPT ![e] = <<>>]
      /\ UNCHANGED <<dir, bin, weights, bin_id, born, prompt, total, calls, crashes>>
  BY DEF Miss, Goto, files, model
<1>2. prompt[e] \in Prompts /\ Len(prompt[e]) \in 1 .. SeqLen
  BY <1>1, CacheAssumption DEF IInv, InCall
<1>3. mem'[e] = [mem[e] EXCEPT !.rec = None] /\ mem'[e] \in Memory /\ mem'[e].rec = None
  BY <1>1 DEF IInv, TypeOK, Memory, Tagged
<1>4. mem' \in [Engines -> Memory]
  BY <1>1, <1>3 DEF IInv, TypeOK
<1>5. TypeOK'
  <2>1. <<>> \in Seq(File)
    OBVIOUS
  <2> QED
    BY LengthIs, <1>1, <1>4, <2>1 DEF IInv, TypeOK, OwnPaths
<1>6. Made(mem'[e], weights[e], prompt[e], 0)
  BY <1>3 DEF Made
<1>7. /\ pc'[e] = "step" /\ L'[e] = 0
      /\ \A d \in Engines \ {e} : /\ pc'[d] = pc[d] /\ mem'[d] = mem[d] /\ L'[d] = L[d] /\ list'[d] = list[d]
  BY <1>1 DEF IInv, TypeOK
<1> QED
  BY <1>1, <1>2, <1>5, <1>6, <1>7, QuietStep

\* From the state of what was restored the steps make that of the whole prompt.
LEMMA StepStep == ASSUME IInv, NEW e \in Engines, Step(e) PROVE IInv'
<1> DEFINE n == Len(prompt[e])
           m == [rows |-> [i \in 1 .. SeqLen |->
                   IF i \in L[e] + 1 .. n THEN IF Cold(e, L[e]) THEN Tag(e, i) ELSE None
                   ELSE mem[e].rows[i]],
                 rec |-> IF L[e] = n THEN mem[e].rec
                         ELSE IF Cold(e, L[e]) THEN Tag(e, n) ELSE None]
<1>1. /\ pc[e] = "step" /\ pc' = [pc EXCEPT ![e] = "store"] /\ mem' = [mem EXCEPT ![e] = m]
      /\ UNCHANGED <<dir, bin, weights, bin_id, born, prompt, L, list, total, calls, crashes>>
  BY DEF Step, Goto, files, model
<1>2. /\ prompt[e] \in Prompts /\ L[e] \in 0 .. SeqLen /\ L[e] <= n /\ n \in 1 .. SeqLen /\ Cold(e, L[e])
      /\ mem[e].rec \in Tagged /\ mem[e].rows \in [1 .. SeqLen -> Tagged]
  BY <1>1, CacheAssumption DEF IInv, TypeOK, InCall, Restored, Memory, Whole
<1>3. \A i \in 1 .. n : Tag(e, i) \in Tagged /\ Tag(e, i) = <<weights[e], Upto(prompt[e], i)>>
  BY <1>2, TagIs DEF IInv, Whole, Tag
<1>4. m.rec = (IF L[e] = n THEN mem[e].rec ELSE Tag(e, n)) /\ m.rec \in Tagged
  BY <1>2, <1>3
<1>5. \A i \in 1 .. SeqLen : m.rows[i] = IF i \in L[e] + 1 .. n THEN Tag(e, i) ELSE mem[e].rows[i]
  BY <1>2
<1>6. m \in Memory
  <2>1. \A i \in L[e] + 1 .. n : i \in 1 .. n
    BY <1>2
  <2>2. \A i \in 1 .. SeqLen : m.rows[i] \in Tagged
    BY <1>2, <1>3, <1>5, <2>1
  <2>3. m.rows \in [1 .. SeqLen -> Tagged]
    BY <2>2
  <2>4. m = [rows |-> m.rows, rec |-> m.rec]
    OBVIOUS
  <2> HIDE DEF m
  <2> QED
    BY <1>4, <2>3, <2>4 DEF Memory
<1> HIDE DEF m
<1>7. Made(m, weights[e], prompt[e], n)
  <2>1. /\ mem[e].rec = IF L[e] = 0 THEN None ELSE <<weights[e], Upto(prompt[e], L[e])>>
        /\ \A i \in 1 .. L[e] : mem[e].rows[i] = <<weights[e], Upto(prompt[e], i)>>
    BY <1>2 DEF Cold, Made
  <2> HIDE DEF n
  <2>0. n \in 1 .. n /\ n # 0 /\ n \in Nat
    BY <1>2
  <2>2. m.rec = <<weights[e], Upto(prompt[e], n)>>
    BY <1>3, <1>4, <2>0, <2>1
  <2>3. \A i \in 1 .. n : m.rows[i] = <<weights[e], Upto(prompt[e], i)>>
    <3> TAKE i \in 1 .. n
    <3>1. i \in 1 .. SeqLen /\ (i \notin L[e] + 1 .. n => i \in 1 .. L[e])
      BY LengthIs, <1>2
    <3> QED
      BY <1>3, <1>5, <2>1, <3>1
  <2> QED
    BY <2>0, <2>2, <2>3 DEF Made
<1>8. TypeOK'
  <2>1. mem' \in [Engines -> Memory]
    BY <1>1, <1>6 DEF IInv, TypeOK
  <2> QED
    BY <1>1, <2>1 DEF IInv, TypeOK, OwnPaths
<1>9. /\ pc'[e] = "store" /\ mem'[e] = m
      /\ \A d \in Engines \ {e} : pc'[d] = pc[d] /\ mem'[d] = mem[d]
  BY <1>1 DEF IInv, TypeOK
<1> QED
  BY <1>1, <1>2, <1>7, <1>8, <1>9, QuietStep

\* A call that returns forgets what was its own.
LEMMA EndStep == ASSUME IInv, NEW e \in Engines, StoreSkips(e) \/ EvictEnds(e) PROVE IInv'
<1>1. /\ pc[e] \in {"store", "evict"} /\ pc' = [pc EXCEPT ![e] = "idle"] /\ prompt' = [prompt EXCEPT ![e] = <<>>]
      /\ L' = [L EXCEPT ![e] = 0] /\ list' = [list EXCEPT ![e] = <<>>] /\ total' = [total EXCEPT ![e] = 0]
      /\ UNCHANGED <<dir, bin, weights, bin_id, born, mem, calls, crashes>>
  BY DEF StoreSkips, EvictEnds, Goto, Ends, files, model
<1>2. TypeOK'
  <2>1. <<>> \in Seq(File)
    OBVIOUS
  <2> QED
    BY LengthIs, <1>1, <2>1 DEF IInv, TypeOK, OwnPaths
<1>3. /\ pc'[e] = "idle"
      /\ \A d \in Engines \ {e} : /\ pc'[d] = pc[d] /\ prompt'[d] = prompt[d]
                                  /\ L'[d] = L[d] /\ list'[d] = list[d] /\ total'[d] = total[d]
  BY <1>1 DEF IInv, TypeOK
<1> QED
  BY <1>1, <1>2, <1>3, QuietStep

\* The sum of sizes starts as that of the files listed.
LEMMA EvictListStep == ASSUME IInv, NEW e \in Engines, EvictList(e) PROVE IInv'
<1>1. /\ pc[e] = "evictlist" /\ pc' = [pc EXCEPT ![e] = "evict"] /\ list' = [list EXCEPT ![e] = dir]
      /\ total' = [total EXCEPT ![e] = SumSizes(dir)]
      /\ UNCHANGED <<dir, bin, weights, bin_id, born, mem, prompt, L, calls, crashes>>
  BY DEF EvictList, Goto, files, model
<1>2. SumSizes(dir) \in Nat
  BY SumNat DEF IInv, TypeOK
<1>3. TypeOK'
  BY <1>1, <1>2 DEF IInv, TypeOK, OwnPaths
<1>4. /\ pc'[e] = "evict" /\ list'[e] = dir /\ total'[e] = SumSizes(dir)
      /\ \A d \in Engines \ {e} : pc'[d] = pc[d] /\ list'[d] = list[d] /\ total'[d] = total[d]
  BY <1>1 DEF IInv, TypeOK
<1>5. prompt[e] \in Prompts /\ L[e] <= Len(prompt[e])
  BY <1>1 DEF IInv, InCall, Whole
<1> QED
  BY <1>1, <1>2, <1>3, <1>4, <1>5, QuietStep



\* The file restored becomes the newest: the same files in another order.
LEMMA TouchStep == ASSUME IInv, NEW e \in Engines, Touch(e) PROVE IInv'
<1> DEFINE q == Path(e, L[e])
<1>1. /\ pc[e] = "touch" /\ pc' = [pc EXCEPT ![e] = "step"]
      /\ dir' = IF Has(q) THEN Append(Without(q), At(q)) ELSE dir
      /\ UNCHANGED <<bin, weights, bin_id, born, mem, prompt, L, list, total, calls, crashes>>
  BY DEF Touch, Goto, model, local
<1> HIDE DEF q
<1>2. /\ dir' \in Seq(File) /\ OwnPaths(dir')
      /\ \A i \in DOMAIN dir' : \E j \in DOMAIN dir : dir'[i] = dir[j]
  <2>1. CASE ~Has(q)
    BY <1>1, <2>1 DEF IInv, TypeOK
  <2>2. CASE Has(q)
    <3>1. At(q) \in File /\ At(q).path = q /\ \E j \in DOMAIN dir : At(q) = dir[j]
      BY <2>2, AtIs DEF IInv, TypeOK
    <3>2. PICK w : /\ w = Without(q) /\ w \in Seq(File) /\ OwnPaths(w)
                   /\ \A i \in DOMAIN w : w[i].path # q /\ \E j \in DOMAIN dir : w[i] = dir[j]
      BY WithoutIs DEF IInv, TypeOK
    <3>3. PICK f \in File : f = At(q)
      BY <3>1
    <3>4. dir' = Append(w, f) /\ \A i \in DOMAIN w : w[i].path # f.path
      BY <1>1, <2>2, <3>1, <3>2, <3>3
    <3>5. /\ Append(w, f) \in Seq(File) /\ OwnPaths(Append(w, f))
          /\ \A i \in DOMAIN Append(w, f) : Append(w, f)[i] = f \/ \E j \in DOMAIN w : Append(w, f)[i] = w[j]
      BY <3>2, <3>4, AppendIs
    <3> QED
      BY <3>1, <3>2, <3>3, <3>4, <3>5
  <2> QED
    BY <2>1, <2>2
<1>3. pc'[e] = "step" /\ \A d \in Engines \ {e} : pc'[d] = pc[d]
  BY <1>1 DEF IInv, TypeOK
<1>4. OwnTmp' /\ \A i \in DOMAIN dir' : Right(dir'[i])
  BY <1>1, <1>2, <1>3, FewerFiles
<1>5. TypeOK'
  BY <1>1, <1>2 DEF IInv, TypeOK
<1>6. prompt[e] \in Prompts /\ L[e] <= Len(prompt[e]) /\ Made(mem[e], weights[e], prompt[e], L[e])
  BY <1>1 DEF IInv, InCall, Restored, Cold, Whole
<1> QED
  BY <1>1, <1>3, <1>4, <1>5, <1>6, EngineStep

\* A temporary file is written from the state of its header, under a name no file has.
LEMMA OpenTmpStep == ASSUME IInv, NEW e \in Engines, OpenTmp(e) PROVE IInv'
<1> DEFINE f == [path |-> Tmp(e), key |-> Key(e, Whole(e)), rows |-> mem[e].rows,
                 rec |-> mem[e].rec, kept |-> "none"]
<1>1. /\ pc[e] = "store" /\ pc' = [pc EXCEPT ![e] = "write"] /\ dir' = Append(dir, f)
      /\ UNCHANGED <<bin, weights, bin_id, born, mem, prompt, L, list, total, calls, crashes>>
  BY DEF OpenTmp, Goto, model, local
<1>2. /\ prompt[e] \in Prompts /\ Whole(e) \in 1 .. SeqLen /\ Whole(e) \in 1 .. Whole(e) /\ Whole(e) = Len(prompt[e])
      /\ L[e] <= Len(prompt[e]) /\ weights[e] = bin_id[e]
      /\ Made(mem[e], weights[e], prompt[e], Whole(e))
  <2>1. prompt[e] \in Prompts /\ L[e] <= Len(prompt[e]) /\ weights[e] = bin_id[e]
    BY <1>1 DEF IInv, InCall, Identified, Whole
  <2>2. Len(prompt[e]) \in 1 .. SeqLen
    BY <2>1, CacheAssumption
  <2>3. Made(mem[e], weights[e], prompt[e], Whole(e))
    BY <1>1 DEF IInv, WarmIsCold, Cold
  <2>4. Whole(e) = Len(prompt[e]) /\ \A n \in 1 .. SeqLen : n \in 1 .. n
    BY DEF Whole
  <2> QED
    BY <2>1, <2>2, <2>3, <2>4
<1>3. f \in File
  <2>1. Key(e, Whole(e)) \in Keys /\ Tmp(e) \in Paths
    BY <1>2, TagIs DEF IInv
  <2>2. mem[e].rows \in [1 .. SeqLen -> Tagged] /\ mem[e].rec \in Tagged
    BY DEF IInv, TypeOK, Memory
  <2> QED
    BY <2>1, <2>2 DEF File, Kept
<1>4. Right(f)
  <2>1. f.key = <<weights[e], Upto(prompt[e], Whole(e))>>
    BY <1>2 DEF Key
  <2>2. /\ Len(Upto(prompt[e], Whole(e))) = Whole(e)
        /\ \A i \in 1 .. Whole(e) : Upto(Upto(prompt[e], Whole(e)), i) = Upto(prompt[e], i)
    BY <1>2, UptoIs
  <2>3. /\ f.rec = <<weights[e], Upto(prompt[e], Whole(e))>>
        /\ \A i \in 1 .. Whole(e) : f.rows[i] = <<weights[e], Upto(prompt[e], i)>>
    BY <1>2 DEF Made
  <2> HIDE DEF f
  <2> QED
    BY <2>1, <2>2, <2>3 DEF Right
<1>5. f.path = <<"tmp", e, born[e]>>
  BY DEF Tmp
<1> HIDE DEF f
<1>6. born[e] \in 0 .. MaxCrashes
  BY CacheAssumption DEF IInv, TypeOK
<1>7. \A i \in DOMAIN dir : dir[i].path # f.path
  BY <1>1, <1>5, <1>6 DEF IInv, OwnTmp
<1>8. /\ dir' \in Seq(File) /\ OwnPaths(dir')
      /\ \A i \in DOMAIN dir' : dir'[i] = f \/ \E j \in DOMAIN dir : dir'[i] = dir[j]
  BY <1>1, <1>3, <1>7, AppendIs DEF IInv, TypeOK
<1>9. pc'[e] = "write" /\ \A d \in Engines \ {e} : pc'[d] = pc[d]
  BY <1>1 DEF IInv, TypeOK
<1>10. \A i \in DOMAIN dir' : Right(dir'[i])
  BY <1>4, <1>8 DEF IInv
<1>11. OwnTmp'
  <2> SUFFICES ASSUME NEW i \in DOMAIN dir', NEW d \in Engines, NEW n \in 0 .. MaxCrashes,
                      dir'[i].path = <<"tmp", d, n>>
               PROVE  n <= born[d] /\ (n = born[d] => pc'[d] \in {"write", "rename"})
    BY <1>1 DEF OwnTmp
  <2>1. CASE dir'[i] = f
    <3>1. d = e /\ n = born[e]
      BY <1>5, <2>1
    <3> QED
      BY <1>6, <1>9, <3>1
  <2>2. ASSUME NEW j \in DOMAIN dir, dir'[i] = dir[j]
        PROVE  n <= born[d] /\ (n = born[d] => pc'[d] \in {"write", "rename"})
    BY <1>1, <1>9, <2>2 DEF IInv, OwnTmp
  <2> QED
    BY <1>8, <2>1, <2>2
<1>12. TypeOK'
  BY <1>1, <1>8 DEF IInv, TypeOK
<1> QED
  BY <1>1, <1>2, <1>9, <1>10, <1>11, <1>12, EngineStep

\* The file closed is the one opened, but for how much of it there is.
LEMMA CloseStep == ASSUME IInv, NEW e \in Engines, Close(e) PROVE IInv'
<1> DEFINE q == Tmp(e)
<1>1. PICK kept \in Kept : dir' = IF Has(q) THEN Append(Without(q), [At(q) EXCEPT !.kept = kept]) ELSE dir
  BY DEF Close, Kept
<1>2. /\ pc[e] = "write" /\ pc' = [pc EXCEPT ![e] = "rename"]
      /\ UNCHANGED <<bin, weights, bin_id, born, mem, prompt, L, list, total, calls, crashes>>
  BY DEF Close, Goto, model, local
<1> HIDE DEF q
<1>3. /\ dir' \in Seq(File) /\ OwnPaths(dir')
      /\ \A i \in DOMAIN dir' : \E j \in DOMAIN dir :
           /\ dir'[i].path = dir[j].path /\ dir'[i].key = dir[j].key
           /\ dir'[i].rows = dir[j].rows /\ dir'[i].rec = dir[j].rec
  <2>1. CASE ~Has(q)
    BY <1>1, <2>1 DEF IInv, TypeOK
  <2>2. CASE Has(q)
    <3>1. At(q) \in File /\ At(q).path = q /\ \E j \in DOMAIN dir : At(q) = dir[j]
      BY <2>2, AtIs DEF IInv, TypeOK
    <3>2. PICK w : /\ w = Without(q) /\ w \in Seq(File) /\ OwnPaths(w)
                   /\ \A i \in DOMAIN w : w[i].path # q /\ \E j \in DOMAIN dir : w[i] = dir[j]
      BY WithoutIs DEF IInv, TypeOK
    <3>3. PICK f \in File : f = [At(q) EXCEPT !.kept = kept]
      BY <3>1 DEF File
    <3>0. f.path = q /\ f.key = At(q).key /\ f.rows = At(q).rows /\ f.rec = At(q).rec
      BY <3>1, <3>3 DEF File
    <3>4. dir' = Append(w, f) /\ \A i \in DOMAIN w : w[i].path # f.path
      BY <1>1, <2>2, <3>0, <3>2, <3>3
    <3>5. /\ Append(w, f) \in Seq(File) /\ OwnPaths(Append(w, f))
          /\ \A i \in DOMAIN Append(w, f) : Append(w, f)[i] = f \/ \E j \in DOMAIN w : Append(w, f)[i] = w[j]
      BY <3>2, <3>4, AppendIs
    <3> QED
      BY <3>0, <3>1, <3>2, <3>4, <3>5
  <2> QED
    BY <2>1, <2>2
<1>4. pc'[e] = "rename" /\ \A d \in Engines \ {e} : pc'[d] = pc[d]
  BY <1>2 DEF IInv, TypeOK
<1>5. OwnTmp' /\ \A i \in DOMAIN dir' : Right(dir'[i])
  <2>1. \A i \in DOMAIN dir' : Right(dir'[i])
    BY <1>3 DEF IInv, Right
  <2>2. OwnTmp'
    BY <1>2, <1>3, <1>4 DEF IInv, OwnTmp
  <2> QED
    BY <2>1, <2>2
<1>6. TypeOK'
  BY <1>2, <1>3 DEF IInv, TypeOK
<1>7. prompt[e] \in Prompts /\ L[e] <= Len(prompt[e])
  BY <1>2 DEF IInv, InCall, Whole
<1> QED
  BY <1>2, <1>4, <1>5, <1>6, <1>7, EngineStep

\* A store that fails takes its file away.
LEMMA StoreFailsStep == ASSUME IInv, NEW e \in Engines, StoreFails(e) PROVE IInv'
<1>1. /\ pc[e] \in {"write", "rename"} /\ pc' = [pc EXCEPT ![e] = "idle"] /\ prompt' = [prompt EXCEPT ![e] = <<>>]
      /\ L' = [L EXCEPT ![e] = 0] /\ list' = [list EXCEPT ![e] = <<>>] /\ total' = [total EXCEPT ![e] = 0]
      /\ dir' = Without(Tmp(e))
      /\ UNCHANGED <<bin, weights, bin_id, born, mem, calls, crashes>>
  BY DEF StoreFails, Goto, Ends, model
<1>2. /\ dir' \in Seq(File) /\ OwnPaths(dir')
      /\ \A i \in DOMAIN dir' : dir'[i].path # Tmp(e) /\ \E j \in DOMAIN dir : dir'[i] = dir[j]
  BY <1>1, WithoutIs DEF IInv, TypeOK
<1>3. /\ pc'[e] = "idle"
      /\ \A d \in Engines \ {e} : /\ pc'[d] = pc[d] /\ prompt'[d] = prompt[d]
                                  /\ L'[d] = L[d] /\ list'[d] = list[d] /\ total'[d] = total[d]
  BY <1>1 DEF IInv, TypeOK
<1>4. OwnTmp' /\ \A i \in DOMAIN dir' : Right(dir'[i])
  BY <1>1, <1>2, <1>3, FewerFiles
<1>5. TypeOK'
  <2>1. <<>> \in Seq(File)
    OBVIOUS
  <2> QED
    BY LengthIs, <1>1, <1>2, <2>1 DEF IInv, TypeOK
<1> QED
  BY <1>1, <1>3, <1>4, <1>5, EngineStep

\* A whole file takes its place, and whatever had it is gone.
LEMMA RenameStep == ASSUME IInv, NEW e \in Engines, Rename(e) PROVE IInv'
<1> DEFINE q == Path(e, Whole(e))
           g == Without(q)
<1>1. /\ pc[e] = "rename" /\ pc' = [pc EXCEPT ![e] = "evictlist"]
      /\ dir' = [i \in DOMAIN g |-> IF g[i].path = Tmp(e) THEN [g[i] EXCEPT !.path = q] ELSE g[i]]
      /\ UNCHANGED <<bin, weights, bin_id, born, mem, prompt, L, list, total, calls, crashes>>
  BY DEF Rename, Goto, model, local
<1>2. prompt[e] \in Prompts /\ L[e] <= Len(prompt[e]) /\ q \in Paths /\ q # Tmp(e) /\ q[1] = "key"
  <2>1. prompt[e] \in Prompts /\ L[e] <= Len(prompt[e])
    BY <1>1 DEF IInv, InCall, Whole
  <2>2. Whole(e) \in 1 .. Whole(e)
    BY <2>1, CacheAssumption DEF Whole
  <2>3. q \in Paths
    BY <2>1, <2>2, TagIs DEF IInv
  <2>4. q[1] = "key" /\ Tmp(e)[1] = "tmp"
    BY DEF Path, Tmp
  <2> HIDE DEF q
  <2> QED
    BY <2>1, <2>3, <2>4
<1> HIDE DEF q
<1>3. /\ g \in Seq(File) /\ OwnPaths(g)
      /\ \A i \in DOMAIN g : g[i].path # q /\ \E j \in DOMAIN dir : g[i] = dir[j]
  BY WithoutIs DEF IInv, TypeOK
<1> HIDE DEF g
<1>4. DOMAIN dir' = DOMAIN g /\ dir' \in Seq(File)
  <2>1. \A i \in DOMAIN g : g[i] \in File
    BY <1>3
  <2>2. \A i \in DOMAIN g : (IF g[i].path = Tmp(e) THEN [g[i] EXCEPT !.path = q] ELSE g[i]) \in File
    BY <1>2, <2>1 DEF File
  <2>3. Len(g) \in Nat /\ DOMAIN g = 1 .. Len(g)
    BY <1>3
  <2>4. dir' \in [1 .. Len(g) -> File]
    BY <1>1, <2>2, <2>3
  <2> QED
    BY <1>1, <2>3, <2>4
<1>5. ASSUME NEW i \in DOMAIN g
      PROVE  /\ dir'[i].path = IF g[i].path = Tmp(e) THEN q ELSE g[i].path
             /\ dir'[i].key = g[i].key /\ dir'[i].rows = g[i].rows /\ dir'[i].rec = g[i].rec
  <2>1. g[i] \in File
    BY <1>3
  <2>2. dir'[i] = IF g[i].path = Tmp(e) THEN [g[i] EXCEPT !.path = q] ELSE g[i]
    BY <1>1
  <2> QED
    BY <2>1, <2>2 DEF File
<1>6. OwnPaths(dir')
  <2> SUFFICES ASSUME NEW i \in DOMAIN g, NEW j \in DOMAIN g, dir'[i].path = dir'[j].path
               PROVE  g[i].path = g[j].path
    BY <1>3, <1>4 DEF OwnPaths
  <2> QED
    BY <1>3, <1>5
<1>7. pc'[e] = "evictlist" /\ \A d \in Engines \ {e} : pc'[d] = pc[d]
  BY <1>1 DEF IInv, TypeOK
<1>8. \A i \in DOMAIN dir' : Right(dir'[i])
  BY <1>3, <1>4, <1>5 DEF IInv, Right
<1>9. OwnTmp'
  <2> SUFFICES ASSUME NEW i \in DOMAIN g, NEW d \in Engines, NEW n \in 0 .. MaxCrashes,
                      dir'[i].path = <<"tmp", d, n>>
               PROVE  n <= born[d] /\ (n = born[d] => pc'[d] \in {"write", "rename"})
    BY <1>1, <1>4 DEF OwnTmp
  <2>1. dir'[i].path # q
    BY <1>2
  <2>2. g[i].path = <<"tmp", d, n>> /\ <<"tmp", d, n>> # Tmp(e)
    BY <1>5, <2>1
  <2>3. ~(d = e /\ n = born[e])
    BY <2>2 DEF Tmp
  <2>4. n <= born[d] /\ (n = born[d] => pc[d] \in {"write", "rename"})
    BY <1>3, <2>2 DEF IInv, OwnTmp
  <2> QED
    BY <1>7, <2>3, <2>4
<1>10. TypeOK'
  BY <1>1, <1>4, <1>6 DEF IInv, TypeOK
<1> QED
  BY <1>1, <1>2, <1>7, <1>8, <1>9, <1>10, EngineStep

\* An eviction removes one file of its list, and subtracts no more than that one's share.
LEMMA EvictOneStep == ASSUME IInv, NEW e \in Engines, EvictOne(e) PROVE IInv'
<1> DEFINE f == Head(list[e])
<1>1. /\ pc[e] = "evict" /\ pc' = pc /\ list[e] # <<>> /\ list' = [list EXCEPT ![e] = Tail(list[e])]
      /\ dir' = Without(f.path)
      /\ total' = [total EXCEPT ![e] = IF Has(f.path) THEN total[e] - Size(f) ELSE total[e]]
      /\ UNCHANGED <<bin, weights, bin_id, born, mem, prompt, L, calls, crashes>>
  BY DEF EvictOne, model
<1>2. list[e] \in Seq(File) /\ total[e] \in Nat /\ SumSizes(list[e]) <= total[e]
  BY <1>1 DEF IInv, TypeOK, Counted
<1>3. f \in File /\ Tail(list[e]) \in Seq(File)
  BY <1>1, <1>2, HeadTailProperties
<1>4. Size(f) \in Nat /\ SumSizes(Tail(list[e])) \in Nat /\ SumSizes(list[e]) = Size(f) + SumSizes(Tail(list[e]))
  BY <1>1, <1>2, <1>3, SizeIs, SumNat, SumTail
<1> HIDE DEF f
<1>5. total'[e] \in Nat /\ SumSizes(Tail(list[e])) <= total'[e]
  <2>1. total'[e] = IF Has(f.path) THEN total[e] - Size(f) ELSE total[e]
    BY <1>1 DEF IInv, TypeOK
  <2> QED
    BY <1>2, <1>4, <2>1
<1>6. /\ dir' \in Seq(File) /\ OwnPaths(dir')
      /\ \A i \in DOMAIN dir' : \E j \in DOMAIN dir : dir'[i] = dir[j]
  BY <1>1, WithoutIs DEF IInv, TypeOK
<1>7. OwnTmp' /\ \A i \in DOMAIN dir' : Right(dir'[i])
  BY <1>1, <1>6, FewerFiles
<1>8. total' \in [Engines -> Nat]
  BY <1>1, <1>2, <1>5 DEF IInv, TypeOK
<1>9. TypeOK'
  BY <1>1, <1>3, <1>6, <1>8 DEF IInv, TypeOK
<1>10. /\ list'[e] = Tail(list[e])
       /\ \A d \in Engines \ {e} : list'[d] = list[d] /\ total'[d] = total[d]
  BY <1>1 DEF IInv, TypeOK
<1>11. prompt[e] \in Prompts /\ L[e] <= Len(prompt[e])
  BY <1>1 DEF IInv, InCall, Whole
<1> QED
  BY <1>1, <1>5, <1>7, <1>9, <1>10, <1>11, EngineStep

\* A new process has no temporary file, and computes its model_id from the file
\* its weights were read from, if none was exported in between.
LEMMA ProcessStep ==
  ASSUME IInv, ~MidLoad, (\E e \in Engines : Crash(e) \/ LoadId(e)) \/ Export
  PROVE  IInv'
<1>1. ASSUME NEW e \in Engines, Crash(e) PROVE IInv'
  <2> DEFINE none == [rows |-> [i \in 1 .. SeqLen |-> None], rec |-> None]
  <2>1. /\ crashes < MaxCrashes /\ crashes' = crashes + 1 /\ pc' = [pc EXCEPT ![e] = "load"]
        /\ weights' = [weights EXCEPT ![e] = bin] /\ mem' = [mem EXCEPT ![e] = none]
        /\ born' = [born EXCEPT ![e] = crashes'] /\ prompt' = [prompt EXCEPT ![e] = <<>>]
        /\ L' = [L EXCEPT ![e] = 0] /\ list' = [list EXCEPT ![e] = <<>>] /\ total' = [total EXCEPT ![e] = 0]
        /\ UNCHANGED <<dir, bin, bin_id, calls>>
    BY <1>1 DEF Crash, Ends, files
  <2>2. none \in Memory /\ <<>> \in Seq(File)
    BY DEF Memory, Tagged
  <2> HIDE DEF none
  <2>3. crashes \in Nat /\ MaxCrashes \in Nat /\ born \in [Engines -> 0 .. crashes]
    BY CacheAssumption DEF IInv, TypeOK
  <2>4. crashes' \in 0 .. MaxCrashes /\ born' \in [Engines -> 0 .. crashes']
    <3>1. crashes' \in 0 .. MaxCrashes /\ crashes' \in 0 .. crashes' /\ \A x \in 0 .. crashes : x \in 0 .. crashes'
      BY <2>1, <2>3
    <3> QED
      BY <2>1, <2>3, <3>1
  <2>5. TypeOK'
    BY LengthIs, <2>1, <2>2, <2>4 DEF IInv, TypeOK, OwnPaths
  <2>6. /\ pc'[e] = "load" /\ weights'[e] = bin /\ born'[e] = crashes + 1 /\ born[e] <= crashes /\ born[e] \in Nat
        /\ \A d \in Engines \ {e} : /\ pc'[d] = pc[d] /\ weights'[d] = weights[d] /\ mem'[d] = mem[d]
                                    /\ born'[d] = born[d] /\ prompt'[d] = prompt[d] /\ L'[d] = L[d]
                                    /\ list'[d] = list[d] /\ total'[d] = total[d]
    BY <2>1, <2>3 DEF IInv, TypeOK
  <2>7. Identified' /\ InCall'
    BY <2>1, <2>6 DEF IInv, Identified, InCall, Whole
  <2>8. Restored' /\ WarmIsCold'
    BY <2>1, <2>6 DEF IInv, Restored, WarmIsCold, Cold, Whole
  <2>9. Counted' /\ \A i \in DOMAIN dir' : Right(dir'[i])
    BY <2>1, <2>6 DEF IInv, Counted
  <2>10. OwnTmp'
    <3> SUFFICES ASSUME NEW i \in DOMAIN dir, NEW d \in Engines, NEW n \in 0 .. MaxCrashes,
                        dir[i].path = <<"tmp", d, n>>
                 PROVE  n <= born'[d] /\ (n = born'[d] => pc'[d] \in {"write", "rename"})
      BY <2>1 DEF OwnTmp
    <3>1. n <= born[d] /\ (n = born[d] => pc[d] \in {"write", "rename"}) /\ n \in Nat
      BY <2>3 DEF IInv, OwnTmp
    <3>2. CASE d = e
      BY <2>3, <2>6, <3>1, <3>2
    <3>3. CASE d # e
      BY <2>6, <3>1, <3>3
    <3> QED
      BY <3>2, <3>3
  <2> QED
    BY <2>5, <2>7, <2>8, <2>9, <2>10 DEF IInv
<1>2. ASSUME NEW e \in Engines, LoadId(e) PROVE IInv'
  <2>1. /\ pc[e] = "load" /\ pc' = [pc EXCEPT ![e] = "idle"] /\ bin_id' = [bin_id EXCEPT ![e] = bin]
        /\ UNCHANGED <<dir, bin, weights, born, mem, prompt, L, list, total, calls, crashes>>
    BY <1>2 DEF LoadId, Goto, files, local
  <2>2. TypeOK'
    BY <2>1 DEF IInv, TypeOK, OwnPaths
  <2>3. /\ pc'[e] = "idle" /\ bin_id'[e] = bin
        /\ \A d \in Engines \ {e} : pc'[d] = pc[d] /\ bin_id'[d] = bin_id[d]
    BY <2>1 DEF IInv, TypeOK
  <2>4. Identified' /\ InCall' /\ Counted'
    BY <2>1, <2>3 DEF IInv, Identified, InCall, Counted, Whole
  <2>5. Restored' /\ WarmIsCold'
    BY <2>1, <2>3 DEF IInv, Restored, WarmIsCold, Cold, Whole
  <2>6. OwnTmp' /\ \A i \in DOMAIN dir' : Right(dir'[i])
    BY <2>1, <2>2, <2>3, FewerFiles DEF TypeOK
  <2> QED
    BY <2>2, <2>4, <2>5, <2>6 DEF IInv
<1>3. CASE Export
  <2>1. /\ bin < MaxExports /\ bin' = bin + 1 /\ \A e \in Engines : pc[e] # "load"
        /\ UNCHANGED <<dir, weights, bin_id, born, pc, mem, prompt, L, list, total, calls, crashes>>
    BY <1>3 DEF Export, model, local
  <2>2. bin' \in Versions
    BY <2>1, CacheAssumption DEF IInv, TypeOK, Versions
  <2>3. TypeOK'
    BY <2>1, <2>2 DEF IInv, TypeOK, OwnPaths
  <2>4. Identified' /\ InCall' /\ Counted'
    BY <2>1 DEF IInv, Identified, InCall, Counted, Whole
  <2>5. Restored' /\ WarmIsCold'
    BY <2>1 DEF IInv, Restored, WarmIsCold, Cold, Whole
  <2>6. OwnTmp' /\ \A i \in DOMAIN dir' : Right(dir'[i])
    BY <2>1 DEF IInv, OwnTmp
  <2> QED
    BY <2>3, <2>4, <2>5, <2>6 DEF IInv
<1> QED
  BY <1>1, <1>2, <1>3

\* Every step keeps the invariant, if no export falls within a load.
LEMMA CacheStep == ASSUME ~MidLoad PROVE IInv /\ [Next]_vars => IInv'
<1> SUFFICES ASSUME IInv, [Next]_vars PROVE IInv'
  OBVIOUS
<1>1. ASSUME NEW e \in Engines, Engine(e) PROVE IInv'
  BY <1>1, PrefillStep, HitStep, PassStep, MissStep, TouchStep, StepStep, EndStep, OpenTmpStep,
     CloseStep, StoreFailsStep, RenameStep, EvictListStep, EvictOneStep, ProcessStep DEF Engine
<1>2. CASE Export
  BY <1>2, ProcessStep
<1>3. CASE UNCHANGED vars
  <2>1. UNCHANGED <<dir, bin, weights, bin_id, pc, mem, prompt, L, list, total, born, calls, crashes>>
    BY <1>3 DEF vars
  <2>2. TypeOK' /\ Identified' /\ InCall' /\ Counted'
    BY <2>1 DEF IInv, TypeOK, OwnPaths, Identified, InCall, Counted, Whole
  <2>3. Restored' /\ WarmIsCold' /\ OwnTmp' /\ \A i \in DOMAIN dir' : Right(dir'[i])
    BY <2>1 DEF IInv, Restored, WarmIsCold, Cold, Whole, OwnTmp
  <2> QED
    BY <2>2, <2>3 DEF IInv
<1> QED
  BY <1>1, <1>2, <1>3 DEF Next

\* A prefill leaves the state of a cold one, whatever was restored, was cut short,
\* shared its hash or was evicted and stored again by other engines meanwhile.
THEOREM WarmPrefillIsCold == ASSUME ~MidLoad PROVE Spec => []WarmIsCold
<1>1. IInv => WarmIsCold
  BY DEF IInv
<1>2. IInv /\ [Next]_vars => IInv'
  BY CacheStep
<1> QED
  BY <1>1, <1>2, InitInv, PTL DEF Spec

-----------------------------------------------------------------------------
(* Sums of the sizes of the files of one kind.                             *)

\* What a file counts for among those of a kind.
Weight(kind, f) == IF f.path[1] = kind THEN Size(f) ELSE 0

\* A sum of sizes that starts at zero and adds up is the sum.
LEMMA SumUnique ==
  ASSUME NEW fs \in Seq(File), NEW g, g[0] = 0, \A i \in 1 .. Len(fs) : g[i] = g[i - 1] + Size(fs[i])
  PROVE  SumSizes(fs) = g[Len(fs)]
<1>1. PICK f : Adds(fs, Len(fs), f) /\ SumSizes(fs) = f[Len(fs)]
  BY SumIs
<1> DEFINE T == {n \in 0 .. Len(fs) : f[n] # g[n]}
<1> SUFFICES ASSUME T # {} PROVE FALSE
  BY <1>1
<1>2. PICK n \in T : \A m \in T : n <= m
  <2>1. T \in SUBSET Nat
    OBVIOUS
  <2> HIDE DEF T
  <2> QED BY <2>1, LeastOf
<1>3. n \in 0 .. Len(fs) /\ f[n] = IF n = 0 THEN 0 ELSE f[n - 1] + Size(fs[n])
  BY <1>1, <1>2 DEF Adds
<1>4. n # 0
  BY <1>2, <1>3
<1>5. n - 1 \in 0 .. Len(fs) /\ n - 1 \notin T /\ n \in 1 .. Len(fs)
  BY <1>2, <1>3, <1>4
<1>6. f[n - 1] = g[n - 1] /\ g[n] = g[n - 1] + Size(fs[n])
  BY <1>5
<1> QED
  BY <1>2, <1>3, <1>4, <1>6

\* The sum, as it grows along the list.
LEMMA SumGrows ==
  ASSUME NEW fs \in Seq(File)
  PROVE  \E f : /\ f[0] = 0 /\ SumSizes(fs) = f[Len(fs)]
                /\ \A i \in 1 .. Len(fs) : f[i] = f[i - 1] + Size(fs[i])
                /\ \A i \in 0 .. Len(fs) : f[i] \in Nat
<1>1. PICK f : Adds(fs, Len(fs), f) /\ SumSizes(fs) = f[Len(fs)]
  BY SumIs
<1>2. \A i \in 0 .. Len(fs) : f[i] = IF i = 0 THEN 0 ELSE f[i - 1] + Size(fs[i])
  BY <1>1 DEF Adds
<1>3. \A i \in 1 .. Len(fs) : i \in 0 .. Len(fs) /\ i # 0
  OBVIOUS
<1>4. f[0] = 0 /\ \A i \in 1 .. Len(fs) : f[i] = f[i - 1] + Size(fs[i])
  BY <1>2, <1>3
<1> DEFINE T == {n \in 0 .. Len(fs) : f[n] \notin Nat}
<1>5. T = {}
  <2> SUFFICES ASSUME T # {} PROVE FALSE
    OBVIOUS
  <2>1. PICK n \in T : \A m \in T : n <= m
    <3>1. T \in SUBSET Nat
      OBVIOUS
    <3> HIDE DEF T
    <3> QED BY <3>1, LeastOf
  <2>2. n # 0
    BY <1>4, <2>1
  <2>3. n - 1 \in 0 .. Len(fs) /\ n - 1 \notin T /\ n \in 1 .. Len(fs)
    BY <2>1, <2>2
  <2>4. Size(fs[n]) \in Nat
    BY <2>3, SizeIs
  <2> QED
    BY <1>4, <2>1, <2>3, <2>4
<1> QED
  BY <1>1, <1>4, <1>5

\* A list of one kind counts that kind's files, and the others for nothing.
LEMMA KindIs ==
  ASSUME NEW kind, NEW fs \in Seq(File)
  PROVE  /\ OfKind(kind, fs) \in Seq(File) /\ Len(OfKind(kind, fs)) = Len(fs)
         /\ \A i \in 1 .. Len(fs) : Size(OfKind(kind, fs)[i]) = Weight(kind, fs[i]) /\ Weight(kind, fs[i]) \in Nat
<1> DEFINE g == OfKind(kind, fs)
<1>1. Len(fs) \in Nat /\ DOMAIN fs = 1 .. Len(fs) /\ \A i \in 1 .. Len(fs) : fs[i] \in File
  OBVIOUS
<1>2. \A i \in 1 .. Len(fs) : g[i] = IF fs[i].path[1] = kind THEN fs[i] ELSE [fs[i] EXCEPT !.kept = "none"]
  BY <1>1 DEF OfKind
<1>3. ASSUME NEW x \in File PROVE [x EXCEPT !.kept = "none"] \in File /\ [x EXCEPT !.kept = "none"].kept = "none"
  BY DEF File, Kept
<1>4. g \in [1 .. Len(fs) -> File]
  <2>1. \A i \in 1 .. Len(fs) : g[i] \in File
    BY <1>1, <1>2, <1>3
  <2>2. g = [i \in 1 .. Len(fs) |-> g[i]]
    BY <1>1 DEF OfKind
  <2> HIDE DEF g
  <2> QED
    BY <2>1, <2>2
<1>5. g \in Seq(File) /\ Len(g) = Len(fs)
  <2> HIDE DEF g
  <2> QED
    BY <1>1, <1>4
<1>6. ASSUME NEW i \in 1 .. Len(fs) PROVE Size(g[i]) = Weight(kind, fs[i]) /\ Weight(kind, fs[i]) \in Nat
  <2>1. Size(fs[i]) \in Nat
    BY <1>1, SizeIs
  <2>2. g[i] = IF fs[i].path[1] = kind THEN fs[i] ELSE [fs[i] EXCEPT !.kept = "none"]
    BY <1>2
  <2> HIDE DEF g
  <2>3. CASE fs[i].path[1] = kind
    BY <2>1, <2>2, <2>3 DEF Weight
  <2>4. CASE fs[i].path[1] # kind
    <3>1. g[i].kept = "none"
      BY <1>1, <1>3, <2>2, <2>4
    <3> QED
      BY <2>4, <3>1 DEF Weight, Size
  <2> QED
    BY <2>3, <2>4
<1> QED
  BY <1>5, <1>6

\* Sums of one kind: a function that adds up its weights ends in it, and there is one.
LEMMA KindSum ==
  ASSUME NEW kind, NEW fs \in Seq(File)
  PROVE  /\ \A g : g[0] = 0 /\ (\A i \in 1 .. Len(fs) : g[i] = g[i - 1] + Weight(kind, fs[i]))
                     => SumSizes(OfKind(kind, fs)) = g[Len(fs)]
         /\ \E g : /\ g[0] = 0 /\ SumSizes(OfKind(kind, fs)) = g[Len(fs)]
                   /\ \A i \in 1 .. Len(fs) : g[i] = g[i - 1] + Weight(kind, fs[i])
                   /\ \A i \in 0 .. Len(fs) : g[i] \in Nat
         /\ SumSizes(OfKind(kind, fs)) \in Nat
<1>1. PICK w \in Seq(File) : w = OfKind(kind, fs)
  BY KindIs
<1>2. Len(w) = Len(fs) /\ \A i \in 1 .. Len(fs) : Size(w[i]) = Weight(kind, fs[i])
  BY <1>1, KindIs
<1>3. ASSUME NEW g, g[0] = 0, \A i \in 1 .. Len(fs) : g[i] = g[i - 1] + Weight(kind, fs[i])
      PROVE  SumSizes(w) = g[Len(fs)]
  BY <1>2, <1>3, SumUnique
<1>4. PICK f : /\ f[0] = 0 /\ SumSizes(w) = f[Len(w)]
               /\ \A i \in 1 .. Len(w) : f[i] = f[i - 1] + Size(w[i])
               /\ \A i \in 0 .. Len(w) : f[i] \in Nat
  BY SumGrows
<1>5. SumSizes(w) \in Nat
  BY SumNat
<1> QED
  BY <1>1, <1>2, <1>3, <1>4, <1>5

\* The sum of all is the stored ones' and the temporary ones'.
LEMMA SumOfKinds ==
  ASSUME NEW fs \in Seq(File)
  PROVE  SumSizes(fs) = Stored(fs) + Temporary(fs)
<1>1. PICK f : /\ f[0] = 0 /\ SumSizes(OfKind("key", fs)) = f[Len(fs)]
               /\ \A i \in 1 .. Len(fs) : f[i] = f[i - 1] + Weight("key", fs[i])
               /\ \A i \in 0 .. Len(fs) : f[i] \in Nat
  BY KindSum
<1>2. PICK g : /\ g[0] = 0 /\ SumSizes(OfKind("tmp", fs)) = g[Len(fs)]
               /\ \A i \in 1 .. Len(fs) : g[i] = g[i - 1] + Weight("tmp", fs[i])
               /\ \A i \in 0 .. Len(fs) : g[i] \in Nat
  BY KindSum
<1> DEFINE h == [i \in 0 .. Len(fs) |-> f[i] + g[i]]
<1>3. ASSUME NEW i \in 1 .. Len(fs) PROVE h[i] = h[i - 1] + Size(fs[i])
  <2>1. i \in 0 .. Len(fs) /\ i - 1 \in 0 .. Len(fs)
    OBVIOUS
  <2>2. h[i] = f[i] + g[i] /\ h[i - 1] = f[i - 1] + g[i - 1]
    BY <2>1
  <2>3. fs[i] \in File /\ Size(fs[i]) \in Nat
    BY SizeIs
  <2>4. /\ Weight("key", fs[i]) + Weight("tmp", fs[i]) = Size(fs[i])
        /\ Weight("key", fs[i]) \in Nat /\ Weight("tmp", fs[i]) \in Nat
    <3>1. fs[i].path \in Paths
      BY <2>3 DEF File
    <3>2. fs[i].path[1] = "key" \/ fs[i].path[1] = "tmp"
      BY <3>1 DEF Paths
    <3> QED
      BY <2>3, <3>2 DEF Weight
  <2>5. f[i - 1] \in Nat /\ g[i - 1] \in Nat
    BY <1>1, <1>2, <2>1
  <2>6. f[i] = f[i - 1] + Weight("key", fs[i]) /\ g[i] = g[i - 1] + Weight("tmp", fs[i])
    BY <1>1, <1>2
  <2> HIDE DEF h
  <2> QED
    BY <2>2, <2>3, <2>4, <2>5, <2>6
<1>4. h[0] = 0 /\ h[Len(fs)] = f[Len(fs)] + g[Len(fs)]
  BY <1>1, <1>2
<1> HIDE DEF h
<1>5. SumSizes(fs) = h[Len(fs)]
  BY <1>3, <1>4, SumUnique
<1> QED
  BY <1>1, <1>2, <1>4, <1>5 DEF Stored, Temporary

\* One file more, one file less.
LEMMA KindAppend ==
  ASSUME NEW kind, NEW fs \in Seq(File), NEW x \in File
  PROVE  SumSizes(OfKind(kind, Append(fs, x))) = SumSizes(OfKind(kind, fs)) + Weight(kind, x)
<1> DEFINE n == Len(fs)
<1>1. PICK a \in Seq(File) : a = Append(fs, x)
  BY AppendProperties
<1>2. Len(a) = n + 1 /\ a[n + 1] = x /\ (\A i \in 1 .. n : a[i] = fs[i]) /\ n \in Nat
  BY <1>1
<1>3. PICK f : /\ f[0] = 0 /\ SumSizes(OfKind(kind, a)) = f[Len(a)]
               /\ \A i \in 1 .. Len(a) : f[i] = f[i - 1] + Weight(kind, a[i])
  BY KindSum
<1>4. \A i \in 1 .. n : f[i] = f[i - 1] + Weight(kind, fs[i])
  BY <1>2, <1>3
<1>5. SumSizes(OfKind(kind, fs)) = f[n]
  BY <1>3, <1>4, KindSum
<1>6. f[n + 1] = f[n] + Weight(kind, x)
  <2>1. n + 1 \in 1 .. Len(a) /\ (n + 1) - 1 = n
    BY <1>2
  <2> QED
    BY <1>2, <1>3, <2>1
<1> QED
  BY <1>1, <1>2, <1>3, <1>5, <1>6

\* The sum over the files of a kind when one of the files goes.
LEMMA KindRemove ==
  ASSUME NEW kind, NEW fs \in Seq(File), NEW w \in Seq(File), NEW k \in 1 .. Len(fs),
         Len(w) = Len(fs) - 1, \A i \in 1 .. Len(fs) - 1 : w[i] = IF i < k THEN fs[i] ELSE fs[i + 1]
  PROVE  SumSizes(OfKind(kind, fs)) = SumSizes(OfKind(kind, w)) + Weight(kind, fs[k])
<1>0. ASSUME NEW s \in Seq(File)
      PROVE  \E f : /\ f[0] = 0 /\ SumSizes(OfKind(kind, s)) = f[Len(s)]
                    /\ \A i \in 1 .. Len(s) : f[i] = f[i - 1] + Weight(kind, s[i])
                    /\ \A i \in 0 .. Len(s) : f[i] \in Nat
  BY KindSum
<1>1. PICK f : /\ f[0] = 0 /\ SumSizes(OfKind(kind, w)) = f[Len(w)]
               /\ \A i \in 1 .. Len(w) : f[i] = f[i - 1] + Weight(kind, w[i])
               /\ \A i \in 0 .. Len(w) : f[i] \in Nat
  BY <1>0, Zenon
<1> DEFINE n == Len(fs)
           a == Weight(kind, fs[k])
           g == [i \in 0 .. n |-> IF i < k THEN f[i] ELSE f[i - 1] + a]
<1>2. n \in Nat /\ k \in 1 .. n /\ a \in Nat /\ \A i \in 1 .. n : Weight(kind, fs[i]) \in Nat
  <2>1. \A i \in 1 .. Len(fs) : Weight(kind, fs[i]) \in Nat
    BY KindIs
  <2> QED
    BY <2>1
<1> HIDE DEF a, n
<1>3. g[0] = 0 /\ g[n] = f[n - 1] + a
  BY <1>1, <1>2
<1>4. ASSUME NEW i \in 1 .. n PROVE g[i] = g[i - 1] + Weight(kind, fs[i])
  <2>1. i \in 0 .. n /\ i - 1 \in 0 .. n /\ i \in Nat
    BY <1>2
  <2>2. /\ g[i] = IF i < k THEN f[i] ELSE f[i - 1] + a
        /\ g[i - 1] = IF i - 1 < k THEN f[i - 1] ELSE f[(i - 1) - 1] + a
    BY <2>1
  <2> HIDE DEF g
  <2>3. CASE i < k
    <3>1. i \in 1 .. n - 1 /\ i - 1 < k
      BY <1>2, <2>1, <2>3
    <3>2. f[i] = f[i - 1] + Weight(kind, fs[i])
      BY <1>1, <2>3, <3>1 DEF n
    <3> QED
      BY <2>2, <2>3, <3>1, <3>2
  <2>4. CASE i = k
    <3>1. i - 1 < k /\ ~(i < k)
      BY <1>2, <2>4
    <3> QED
      BY <2>2, <2>4, <3>1 DEF a
  <2>5. CASE i > k
    <3>1. i - 1 \in 1 .. n - 1 /\ ~(i - 1 < k) /\ ~(i < k) /\ (i - 1) + 1 = i /\ (i - 1) - 1 \in 0 .. n - 1
      BY <1>2, <2>1, <2>5
    <3>2. w[i - 1] = fs[i]
      BY <3>1 DEF n
    <3>3. f[i - 1] = f[(i - 1) - 1] + Weight(kind, fs[i]) /\ f[(i - 1) - 1] \in Nat
      BY <1>1, <3>1, <3>2 DEF n
    <3>4. Weight(kind, fs[i]) \in Nat
      BY <1>2
    <3> QED
      BY <1>2, <2>2, <3>1, <3>3, <3>4
  <2> QED
    BY <1>2, <2>1, <2>3, <2>4, <2>5
<1> HIDE DEF g
<1>5. SumSizes(OfKind(kind, fs)) = g[n]
  BY <1>3, <1>4, KindSum DEF n
<1> QED
  BY <1>1, <1>3, <1>5 DEF n, a

\* Without files of the kind there is nothing to add up.
LEMMA KindNone ==
  ASSUME NEW kind, NEW fs \in Seq(File), \A i \in 1 .. Len(fs) : fs[i].path[1] # kind
  PROVE  SumSizes(OfKind(kind, fs)) = 0
<1> DEFINE g == [i \in 0 .. Len(fs) |-> 0]
<1>1. g[0] = 0 /\ g[Len(fs)] = 0 /\ \A i \in 1 .. Len(fs) : g[i] = g[i - 1] + Weight(kind, fs[i])
  BY DEF Weight
<1> HIDE DEF g
<1> QED
  BY <1>1, KindSum

-----------------------------------------------------------------------------
(* The directory within its cap.                                           *)

\* The lengths of the directory's and the lists' sums are numbers.
LEMMA CountsAreNat ==
  ASSUME NEW fs \in Seq(File) PROVE Stored(fs) \in Nat /\ Temporary(fs) \in Nat
  BY KindSum DEF Stored, Temporary

\* A path removed is one file's less of its kind.
LEMMA KindWithout ==
  ASSUME IInv, NEW kind, NEW q, Has(q)
  PROVE  SumSizes(OfKind(kind, dir)) = SumSizes(OfKind(kind, Without(q))) + Weight(kind, At(q))
<1>1. dir \in Seq(File) /\ OwnPaths(dir)
  BY DEF IInv, TypeOK
<1>2. PICK w \in Seq(File) : w = Without(q)
  BY <1>1, WithoutIs
<1>3. PICK k \in 1 .. Len(dir) : k = Place(q)
  BY <1>1 DEF Has, Place
<1>4. w = [i \in 1 .. Len(dir) - 1 |-> IF i < k THEN dir[i] ELSE dir[i + 1]]
  BY <1>2, <1>3 DEF Without
<1>5. Len(w) = Len(dir) - 1 /\ \A i \in 1 .. Len(dir) - 1 : w[i] = IF i < k THEN dir[i] ELSE dir[i + 1]
  <2>1. DOMAIN w = 1 .. Len(dir) - 1
    BY <1>4
  <2>2. Len(dir) - 1 \in Nat
    BY <1>1, <1>3
  <2>3. Len(w) = Len(dir) - 1
    BY <2>1, <2>2
  <2> QED
    BY <1>4, <2>3
<1>6. SumSizes(OfKind(kind, dir)) = SumSizes(OfKind(kind, w)) + Weight(kind, dir[k])
  BY <1>1, <1>5, KindRemove
<1> QED
  BY <1>2, <1>3, <1>6 DEF At

\* Removing a file leaves at most as much of either kind.
LEMMA LessStored ==
  ASSUME IInv, NEW q
  PROVE  Stored(Without(q)) \in Nat /\ Stored(Without(q)) <= Stored(dir)
<1>1. dir \in Seq(File) /\ OwnPaths(dir) /\ Without(q) \in Seq(File)
  BY WithoutIs DEF IInv, TypeOK
<1>2. Stored(dir) \in Nat /\ Stored(Without(q)) \in Nat
  BY <1>1, CountsAreNat
<1>3. CASE Has(q)
  <2>1. At(q) \in File
    BY <1>1, <1>3, AtIs
  <2>2. Weight("key", At(q)) \in Nat
    BY <2>1, SizeIs DEF Weight
  <2>3. Stored(dir) = Stored(Without(q)) + Weight("key", At(q))
    BY <1>3, KindWithout DEF Stored
  <2> QED
    BY <1>2, <2>2, <2>3
<1>4. CASE ~Has(q)
  BY <1>2, <1>4 DEF Without
<1> QED
  BY <1>3, <1>4

\* What neither stores nor goes on with an eviction leaves what is being removed.
LEMMA StillLooked ==
  ASSUME IInv, Looked, crashes' # 0 \/ crashes' = crashes, dir' \in Seq(File),
         \A i \in DOMAIN dir' : dir'[i].path[1] = "key" => \E j \in DOMAIN dir : dir'[i] = dir[j],
         Stored(dir') <= Stored(dir),
         \A e \in Engines : pc[e] = "evictlist" => pc'[e] = "evictlist",
         \A e \in Engines : pc[e] = "evict" => pc'[e] = "evict" /\ list'[e] = list[e] /\ total'[e] = total[e]
  PROVE  Looked'
<1> SUFFICES ASSUME crashes = 0 PROVE Looked'
  BY DEF Looked
<1>1. Stored(dir) \in Nat /\ Stored(dir') \in Nat /\ Cap \in Nat
  BY CountsAreNat, CacheAssumption DEF IInv, TypeOK
<1>2. CASE Stored(dir) <= Cap
  BY <1>1, <1>2 DEF Looked
<1>3. ASSUME NEW e \in Engines, pc[e] = "evictlist" PROVE Looked'
  BY <1>3 DEF Looked
<1>4. ASSUME NEW e \in Engines, SeesAll(e) PROVE Looked'
  <2>1. pc[e] = "evict" /\ pc'[e] = "evict" /\ list'[e] = list[e] /\ total'[e] = total[e]
    BY <1>4 DEF SeesAll
  <2>2. list[e] \in Seq(File) /\ total[e] \in Nat
    BY DEF IInv, TypeOK
  <2>3. Temporary(list[e]) \in Nat /\ Stored(dir) + Temporary(list[e]) <= total[e]
    BY <1>4, <2>2, CountsAreNat DEF SeesAll
  <2>4. Stored(dir') + Temporary(list[e]) <= total[e]
    BY <1>1, <2>2, <2>3
  <2>5. \A i \in DOMAIN dir' : dir'[i].path[1] = "key" => \E j \in DOMAIN list[e] : list[e][j] = dir'[i]
    BY <1>4 DEF SeesAll
  <2>6. SeesAll(e)'
    BY <1>4, <2>1, <2>4, <2>5 DEF SeesAll
  <2> QED
    BY <2>6 DEF Looked
<1> QED
  BY <1>2, <1>3, <1>4 DEF Looked

\* The temporary file of an engine is no stored one.
LEMMA TmpIsTmp == \A e \in Engines : Tmp(e)[1] = "tmp"
  BY DEF Tmp

\* The actions that leave the directory, or change only what is no stored file.
LEMMA QuietLooked ==
  ASSUME IInv, Looked, NEW e \in Engines,
         \/ Prefill(e) \/ DirList(e) \/ Hit(e) \/ Pass(e) \/ Miss(e) \/ Step(e)
         \/ StoreSkips(e) \/ Crash(e) \/ LoadId(e)
  PROVE  Looked'
<1>1. UNCHANGED dir /\ dir \in Seq(File)
  BY DEF Prefill, DirList, Hit, Pass, Miss, Step, StoreSkips, Crash, LoadId, files, IInv, TypeOK
<1>2. crashes' # 0 \/ crashes' = crashes
  <2>1. crashes \in Nat
    BY CacheAssumption DEF IInv, TypeOK
  <2> QED
    BY <2>1 DEF Prefill, DirList, Hit, Pass, Miss, Step, StoreSkips, Crash, LoadId
<1>3. CASE Crash(e)
  <2>1. crashes \in Nat /\ crashes' = crashes + 1
    BY <1>3, CacheAssumption DEF Crash, IInv, TypeOK
  <2> QED
    BY <2>1 DEF Looked
<1>4. CASE ~Crash(e)
  <2>1. pc[e] \in {"idle", "list", "scan", "step", "store", "load"}
    BY <1>4 DEF Prefill, DirList, Hit, Pass, Miss, Step, StoreSkips, LoadId, Goto
  <2>2. \A d \in Engines \ {e} : pc'[d] = pc[d] /\ list'[d] = list[d] /\ total'[d] = total[d]
    BY <1>4 DEF Prefill, DirList, Hit, Pass, Miss, Step, StoreSkips, LoadId, Goto, Ends, local,
       IInv, TypeOK
  <2>3. \A i \in DOMAIN dir' : dir'[i].path[1] = "key" => \E j \in DOMAIN dir : dir'[i] = dir[j]
    BY <1>1
  <2>4. Stored(dir') <= Stored(dir)
    BY <1>1, CountsAreNat
  <2>5. /\ \A d \in Engines : pc[d] = "evictlist" => pc'[d] = "evictlist"
        /\ \A d \in Engines : pc[d] = "evict" => pc'[d] = "evict" /\ list'[d] = list[d] /\ total'[d] = total[d]
    BY <2>1, <2>2
  <2> QED
    BY <1>1, <1>2, <2>3, <2>4, <2>5, StillLooked
<1> QED
  BY <1>3, <1>4

\* A temporary file comes, is closed or goes; a stored one is touched.
LEMMA FilesLooked ==
  ASSUME IInv, Looked, NEW e \in Engines, Touch(e) \/ OpenTmp(e) \/ Close(e) \/ StoreFails(e),
         dir' \in Seq(File)
  PROVE  Looked'
<1>0. dir \in Seq(File) /\ OwnPaths(dir)
  BY DEF IInv, TypeOK
<1>1. /\ crashes' = crashes
      /\ \A d \in Engines : pc[d] = "evictlist" => pc'[d] = "evictlist"
      /\ \A d \in Engines : pc[d] = "evict" => pc'[d] = "evict" /\ list'[d] = list[d] /\ total'[d] = total[d]
  <2>1. pc[e] \in {"touch", "store", "write", "rename"} /\ crashes' = crashes
    BY DEF Touch, OpenTmp, Close, StoreFails, Goto
  <2>2. \A d \in Engines \ {e} : pc'[d] = pc[d] /\ list'[d] = list[d] /\ total'[d] = total[d]
    BY DEF Touch, OpenTmp, Close, StoreFails, Goto, Ends, local, IInv, TypeOK
  <2> QED
    BY <2>1, <2>2
<1>2. SUFFICES /\ \A i \in DOMAIN dir' : dir'[i].path[1] = "key" => \E j \in DOMAIN dir : dir'[i] = dir[j]
               /\ Stored(dir') <= Stored(dir)
  BY <1>1, StillLooked
<1>3. Stored(dir) \in Nat
  BY <1>0, CountsAreNat
\* A file that comes last after another of its path has gone.
<1>4. ASSUME NEW q, NEW f \in File, dir' = Append(Without(q), f), Has(q),
             f.path[1] = "key" => f = At(q)
      PROVE  /\ \A i \in DOMAIN dir' : dir'[i].path[1] = "key" => \E j \in DOMAIN dir : dir'[i] = dir[j]
             /\ Stored(dir') <= Stored(dir)
  <2>1. PICK w \in Seq(File) : w = Without(q) /\ \A i \in DOMAIN w : \E j \in DOMAIN dir : w[i] = dir[j]
    BY <1>0, WithoutIs
  <2>2. At(q) \in File /\ \E j \in DOMAIN dir : At(q) = dir[j]
    BY <1>0, <1>4, AtIs
  <2>3. \A i \in DOMAIN dir' : dir'[i] = f \/ \E j \in DOMAIN dir : dir'[i] = dir[j]
    <3>1. DOMAIN dir' = 1 .. Len(w) + 1 /\ dir'[Len(w) + 1] = f /\ \A i \in 1 .. Len(w) : dir'[i] = w[i]
      BY <1>4, <2>1
    <3> QED
      BY <2>1, <3>1
  <2>4. Stored(dir') = Stored(w) + Weight("key", f) /\ Stored(dir) = Stored(w) + Weight("key", At(q))
    BY <1>4, <2>1, KindAppend, KindWithout DEF Stored
  <2>5. Weight("key", f) <= Weight("key", At(q)) /\ Weight("key", f) \in Nat /\ Weight("key", At(q)) \in Nat
    <3>1. Size(f) \in Nat /\ Size(At(q)) \in Nat
      BY <2>2, SizeIs
    <3>2. CASE f.path[1] = "key"
      BY <1>4, <3>1, <3>2 DEF Weight
    <3>3. CASE f.path[1] # "key"
      BY <3>1, <3>3 DEF Weight
    <3> QED
      BY <3>2, <3>3
  <2>6. Stored(w) \in Nat
    BY <2>1, CountsAreNat
  <2> QED
    BY <1>4, <2>2, <2>3, <2>4, <2>5, <2>6
<1>5. CASE Touch(e)
  <2> DEFINE q == Path(e, L[e])
  <2>1. CASE Has(q)
    <3>1. At(q) \in File
      BY <1>0, <2>1, AtIs
    <3>2. dir' = Append(Without(q), At(q))
      BY <1>5, <2>1 DEF Touch
    <3> QED
      BY <1>4, <2>1, <3>1, <3>2
  <2>2. CASE ~Has(q)
    BY <1>3, <1>5, <2>2 DEF Touch
  <2> QED
    BY <2>1, <2>2
<1>6. CASE OpenTmp(e)
  <2>1. PICK f : dir' = Append(dir, f) /\ f.path = Tmp(e)
    BY <1>6 DEF OpenTmp
  <2>2. Len(dir) \in Nat /\ DOMAIN dir' = 1 .. Len(dir) + 1 /\ dir'[Len(dir) + 1] = f
        /\ \A i \in 1 .. Len(dir) : dir'[i] = dir[i]
    BY <1>0, <2>1
  <2>3. f \in File /\ Weight("key", f) = 0
    <3>1. Len(dir) + 1 \in DOMAIN dir'
      BY <2>2
    <3>2. f \in File
      BY <2>2, <3>1
    <3> QED
      BY <2>1, <3>2, TmpIsTmp DEF Weight
  <2>4. Stored(dir') = Stored(dir) + 0
    BY <1>0, <2>1, <2>3, KindAppend DEF Stored
  <2>5. \A i \in DOMAIN dir' : dir'[i].path[1] = "key" => \E j \in DOMAIN dir : dir'[i] = dir[j]
    BY <1>0, <2>1, <2>2, TmpIsTmp
  <2> QED
    BY <1>3, <2>4, <2>5
<1>7. CASE Close(e)
  <2>1. CASE Has(Tmp(e))
    <3>1. PICK kept : dir' = Append(Without(Tmp(e)), [At(Tmp(e)) EXCEPT !.kept = kept]) /\ kept \in Kept
      BY <1>7, <2>1 DEF Close, Kept
    <3>2. At(Tmp(e)) \in File /\ At(Tmp(e)).path = Tmp(e)
      BY <1>0, <2>1, AtIs
    <3>3. PICK f \in File : f = [At(Tmp(e)) EXCEPT !.kept = kept] /\ f.path = Tmp(e)
      BY <3>1, <3>2 DEF File
    <3>4. f.path[1] # "key"
      BY <3>3, TmpIsTmp
    <3> QED
      BY <1>4, <2>1, <3>1, <3>3, <3>4
  <2>2. CASE ~Has(Tmp(e))
    BY <1>3, <1>7, <2>2 DEF Close
  <2> QED
    BY <2>1, <2>2
<1>8. CASE StoreFails(e)
  <2>1. dir' = Without(Tmp(e))
    BY <1>8 DEF StoreFails
  <2>2. \A i \in DOMAIN dir' : \E j \in DOMAIN dir : dir'[i] = dir[j]
    BY <1>0, <2>1, WithoutIs
  <2> QED
    BY <2>1, <2>2, LessStored
<1> QED
  BY <1>5, <1>6, <1>7, <1>8

\* Whoever has stored a file looks at the directory next.
LEMMA RenameLooked == ASSUME IInv, NEW e \in Engines, Rename(e) PROVE Looked'
<1>1. pc'[e] = "evictlist"
  BY DEF Rename, Goto, IInv, TypeOK
<1> QED
  BY <1>1 DEF Looked

\* and then sees all there is.
LEMMA EvictListLooked == ASSUME IInv, NEW e \in Engines, EvictList(e) PROVE Looked'
<1>1. pc'[e] = "evict" /\ list'[e] = dir /\ total'[e] = SumSizes(dir) /\ dir' = dir
  BY DEF EvictList, Goto, files, IInv, TypeOK
<1>2. dir \in Seq(File) /\ OwnPaths(dir)
  BY DEF IInv, TypeOK
<1>3. Stored(dir) \in Nat /\ Temporary(dir) \in Nat /\ SumSizes(dir) = Stored(dir) + Temporary(dir)
  BY <1>2, CountsAreNat, SumOfKinds
<1>4. SeesAll(e)'
  BY <1>1, <1>2, <1>3 DEF SeesAll
<1> QED
  BY <1>4 DEF Looked

\* An eviction that sees all still does when it has removed the oldest it knows; one
\* that does not only removes.
LEMMA EvictOneLooked == ASSUME IInv, Looked, NEW e \in Engines, EvictOne(e) PROVE Looked'
<1> SUFFICES ASSUME crashes = 0 PROVE Looked'
  BY DEF Looked, EvictOne
<1>0. dir \in Seq(File) /\ OwnPaths(dir) /\ list[e] \in Seq(File) /\ total[e] \in Nat /\ Cap \in Nat
  BY CacheAssumption DEF IInv, TypeOK
<1>1. /\ pc[e] = "evict" /\ pc' = pc /\ list[e] # <<>> /\ list' = [list EXCEPT ![e] = Tail(list[e])]
      /\ dir' = Without(Head(list[e]).path) /\ UNCHANGED crashes
      /\ total' = [total EXCEPT ![e] = IF Has(Head(list[e]).path) THEN total[e] - Size(Head(list[e])) ELSE total[e]]
  BY DEF EvictOne
<1>2. PICK f \in File : f = Head(list[e])
  BY <1>0, <1>1, HeadTailProperties
<1>3. PICK t \in Seq(File) :
        /\ t = Tail(list[e]) /\ Len(list[e]) \in Nat \ {0} /\ Len(t) = Len(list[e]) - 1 /\ list[e][1] = f
        /\ \A i \in 1 .. Len(list[e]) - 1 : t[i] = list[e][i + 1]
  <2>1. PICK s \in Seq(File) : s = list[e]
    BY <1>0
  <2>2. s # <<>> /\ Len(s) \in Nat /\ f = Head(s)
    BY <1>1, <1>2, <2>1
  <2>3. /\ Len(s) # 0 /\ Tail(s) \in Seq(File) /\ Len(Tail(s)) = Len(s) - 1 /\ s[1] = f
        /\ \A i \in 1 .. Len(s) - 1 : Tail(s)[i] = s[i + 1]
    BY <2>1, <2>2, HeadTailProperties, EmptySeq
  <2> QED
    BY <2>1, <2>2, <2>3
<1>4. /\ list'[e] = t /\ total'[e] = IF Has(f.path) THEN total[e] - Size(f) ELSE total[e]
      /\ dir' = Without(f.path)
      /\ \A d \in Engines \ {e} : list'[d] = list[d] /\ total'[d] = total[d]
  BY <1>1, <1>2, <1>3 DEF IInv, TypeOK
<1>5. /\ dir' \in Seq(File)
      /\ \A i \in DOMAIN dir' : dir'[i].path # f.path /\ \E j \in DOMAIN dir : dir'[i] = dir[j]
  BY <1>0, <1>4, WithoutIs
<1>6. Stored(dir) \in Nat /\ Stored(dir') \in Nat /\ Stored(dir') <= Stored(dir)
  BY <1>0, <1>4, CountsAreNat, LessStored
<1>7. CASE Stored(dir) <= Cap
  BY <1>0, <1>6, <1>7 DEF Looked
<1>8. ASSUME NEW d \in Engines, pc[d] = "evictlist" PROVE Looked'
  BY <1>1, <1>8 DEF Looked
<1>9. ASSUME NEW d \in Engines \ {e}, SeesAll(d) PROVE Looked'
  <2>1. list[d] \in Seq(File) /\ total[d] \in Nat
    BY DEF IInv, TypeOK
  <2>2. Temporary(list[d]) \in Nat /\ Stored(dir) + Temporary(list[d]) <= total[d]
    BY <1>9, <2>1, CountsAreNat DEF SeesAll
  <2>3. Stored(dir') + Temporary(list[d]) <= total[d]
    BY <1>6, <2>1, <2>2
  <2>4. \A i \in DOMAIN dir' : dir'[i].path[1] = "key" => \E j \in DOMAIN list[d] : list[d][j] = dir'[i]
    BY <1>5, <1>9 DEF SeesAll
  <2>5. SeesAll(d)'
    BY <1>1, <1>4, <1>9, <2>3, <2>4 DEF SeesAll
  <2> QED
    BY <2>5 DEF Looked
<1>10. CASE SeesAll(e)
  <2>1. OwnPaths(list[e]) /\ Stored(dir) + Temporary(list[e]) <= total[e]
    BY <1>10 DEF SeesAll
  <2>2. Temporary(list[e]) = Temporary(t) + Weight("tmp", f) /\ Temporary(t) \in Nat
    <3>1. /\ 1 \in 1 .. Len(list[e])
          /\ \A i \in 1 .. Len(list[e]) - 1 : t[i] = IF i < 1 THEN list[e][i] ELSE list[e][i + 1]
      BY <1>3
    <3>2. Temporary(list[e]) = Temporary(t) + Weight("tmp", list[e][1])
      BY <1>0, <1>3, <3>1, KindRemove DEF Temporary
    <3> QED
      BY <1>3, <3>2, CountsAreNat
  <2>3. ASSUME NEW i \in DOMAIN dir', dir'[i].path[1] = "key"
        PROVE  \E j \in DOMAIN t : t[j] = dir'[i]
    <3>1. PICK j \in 1 .. Len(list[e]) : list[e][j] = dir'[i]
      BY <1>0, <1>5, <1>10, <2>3 DEF SeesAll
    <3>2. j # 1
      BY <1>3, <1>5, <2>3, <3>1
    <3>3. j - 1 \in 1 .. Len(list[e]) - 1 /\ (j - 1) + 1 = j
      BY <1>3, <3>1, <3>2
    <3>4. j - 1 \in DOMAIN t /\ t[j - 1] = list[e][j]
      BY <1>3, <3>3
    <3> QED
      BY <3>1, <3>4
  <2>4. OwnPaths(t)
    <3> SUFFICES ASSUME NEW i \in 1 .. Len(list[e]) - 1, NEW j \in 1 .. Len(list[e]) - 1, t[i].path = t[j].path
                 PROVE  i = j
      <4>1. DOMAIN t = 1 .. Len(list[e]) - 1
        BY <1>3
      <4> QED
        BY <4>1 DEF OwnPaths
    <3>1. i + 1 \in DOMAIN list[e] /\ j + 1 \in DOMAIN list[e]
      BY <1>0, <1>3
    <3>2. list[e][i + 1].path = list[e][j + 1].path
      BY <1>3
    <3>3. i + 1 = j + 1
      BY <2>1, <3>1, <3>2 DEF OwnPaths
    <3> QED
      BY <1>3, <3>3
  <2>5. Size(f) \in Nat /\ f.path[1] \in {"key", "tmp"}
    BY SizeIs DEF File, Paths
  <2>6. Stored(dir') + Temporary(t) <= total'[e]
    <3>1. CASE Has(f.path) /\ f.path[1] = "key"
      <4>1. At(f.path) = f
        <5>1. PICK k \in DOMAIN dir : At(f.path) = dir[k] /\ dir[k].path = f.path
          BY <1>0, <3>1, AtIs
        <5>2. PICK j \in DOMAIN list[e] : list[e][j] = dir[k]
          BY <1>10, <3>1, <5>1 DEF SeesAll
        <5>3. 1 \in DOMAIN list[e] /\ list[e][j].path = list[e][1].path
          BY <1>0, <1>3, <5>1, <5>2
        <5>4. j = 1
          BY <2>1, <5>2, <5>3 DEF OwnPaths
        <5> QED
          BY <1>3, <5>1, <5>2, <5>4
      <4>2. Stored(dir) = Stored(dir') + Size(f)
        BY <1>4, <3>1, <4>1, KindWithout DEF Stored, Weight
      <4>3. Weight("tmp", f) = 0 /\ total'[e] = total[e] - Size(f)
        BY <1>4, <3>1 DEF Weight
      <4> QED
        BY <1>0, <1>6, <2>1, <2>2, <2>5, <4>2, <4>3
    <3>2. CASE Has(f.path) /\ f.path[1] = "tmp"
      <4>1. Weight("tmp", f) = Size(f) /\ total'[e] = total[e] - Size(f)
        BY <1>4, <3>2 DEF Weight
      <4> QED
        BY <1>0, <1>6, <2>1, <2>2, <2>5, <4>1
    <3>3. CASE ~Has(f.path)
      <4>1. Weight("tmp", f) \in Nat /\ total'[e] = total[e]
        BY <1>4, <2>5, <3>3 DEF Weight
      <4> QED
        BY <1>0, <1>6, <2>1, <2>2, <4>1
    <3> QED
      BY <2>5, <3>1, <3>2, <3>3
  <2>7. SeesAll(e)'
    BY <1>1, <1>4, <2>3, <2>4, <2>6 DEF SeesAll
  <2> QED
    BY <2>7 DEF Looked
<1> QED
  BY <1>7, <1>8, <1>9, <1>10 DEF Looked

\* An eviction that sees all ends under the cap.
LEMMA EvictEndsLooked == ASSUME IInv, Looked, NEW e \in Engines, EvictEnds(e) PROVE Looked'
<1> SUFFICES ASSUME crashes = 0 PROVE Looked'
  BY DEF Looked, EvictEnds
<1>0. dir \in Seq(File) /\ list[e] \in Seq(File) /\ total[e] \in Nat /\ Cap \in Nat
  BY CacheAssumption DEF IInv, TypeOK
<1>1. /\ pc[e] = "evict" /\ dir' = dir /\ (~Over(e) \/ list[e] = <<>>)
      /\ \A d \in Engines \ {e} : pc'[d] = pc[d] /\ list'[d] = list[d] /\ total'[d] = total[d]
  BY DEF EvictEnds, Goto, Ends, files, IInv, TypeOK
<1>2. Stored(dir) \in Nat /\ Temporary(list[e]) \in Nat
  BY <1>0, CountsAreNat
<1>3. CASE Stored(dir) <= Cap
  BY <1>1, <1>3 DEF Looked
<1>4. ASSUME NEW d \in Engines, pc[d] = "evictlist" PROVE Looked'
  BY <1>1, <1>4 DEF Looked
<1>5. ASSUME NEW d \in Engines \ {e}, SeesAll(d) PROVE Looked'
  <2>1. SeesAll(d)'
    BY <1>1, <1>5 DEF SeesAll
  <2> QED
    BY <2>1 DEF Looked
<1>6. CASE SeesAll(e)
  <2>1. Stored(dir) + Temporary(list[e]) <= total[e]
    BY <1>6 DEF SeesAll
  <2>2. CASE ~Over(e)
    <3>1. Stored(dir) <= Cap
      BY <1>0, <1>2, <2>1, <2>2 DEF Over
    <3> QED
      BY <1>1, <3>1 DEF Looked
  <2>3. CASE list[e] = <<>>
    <3>1. \A i \in 1 .. Len(dir) : dir[i].path[1] # "key"
      BY <1>0, <1>6, <2>3 DEF SeesAll
    <3>2. Stored(dir) = 0
      BY <1>0, <3>1, KindNone DEF Stored
    <3> QED
      BY <1>0, <1>1, <3>2 DEF Looked
  <2> QED
    BY <1>1, <2>2, <2>3
<1> QED
  BY <1>3, <1>4, <1>5, <1>6 DEF Looked

\* Every step leaves what is above the cap to somebody.
LEMMA LookedStep == ASSUME ~MidLoad PROVE CacheInv /\ [Next]_vars => CacheInv'
<1> SUFFICES ASSUME CacheInv, [Next]_vars PROVE CacheInv'
  OBVIOUS
<1>1. IInv /\ Looked /\ IInv'
  BY CacheStep DEF CacheInv
<1>2. dir' \in Seq(File)
  BY <1>1 DEF IInv, TypeOK
<1>3. ASSUME NEW e \in Engines, Engine(e) PROVE Looked'
  BY <1>1, <1>2, <1>3, QuietLooked, FilesLooked, RenameLooked, EvictListLooked, EvictOneLooked,
     EvictEndsLooked
     DEF Engine
<1>4. ASSUME Export \/ UNCHANGED vars PROVE Looked'
  <2>1. UNCHANGED <<dir, pc, list, total, crashes>>
    BY <1>4 DEF Export, vars, local
  <2> QED
    BY <1>1, <2>1 DEF Looked, SeesAll
<1> QED
  BY <1>1, <1>3, <1>4 DEF Next, CacheInv

\* CacheInv: every file has a path of its own and holds what its header names, however
\* engines that share the directory restore, store, evict, end and start; and what is
\* above the cap is being removed, while no engine was cut off.
THEOREM FilesAreWellFormed == ASSUME ~MidLoad PROVE Spec => []CacheInv
<1>1. Init => CacheInv
  <2> SUFFICES ASSUME Init PROVE CacheInv
    OBVIOUS
  <2>1. IInv
    BY InitInv
  <2>2. Stored(dir) = 0
    <3>1. dir \in Seq(File) /\ \A i \in 1 .. Len(dir) : dir[i].path[1] # "key"
      BY DEF Init
    <3> QED
      BY <3>1, KindNone DEF Stored
  <2> QED
    BY <2>1, <2>2, CacheAssumption DEF CacheInv, Looked
<1>2. CacheInv /\ [Next]_vars => CacheInv'
  BY LookedStep
<1> QED
  BY <1>1, <1>2, PTL DEF Spec

\* UnderCap: once the stores have ended and none was cut off, the directory is within
\* its cap, though engines list and remove at the same time.
THEOREM CapIsKept == ASSUME ~MidLoad PROVE Spec => []UnderCap
<1>1. CacheInv => UnderCap
  <2> SUFFICES ASSUME CacheInv, crashes = 0, \A e \in Engines : pc[e] \notin {"write", "rename", "evictlist", "evict"}
               PROVE  SumSizes(dir) <= Cap
    BY DEF UnderCap
  <2>1. dir \in Seq(File) /\ born \in [Engines -> 0 .. 0]
    BY DEF CacheInv, IInv, TypeOK
  <2>2. Stored(dir) <= Cap
    BY DEF CacheInv, Looked, SeesAll
  <2>3. ASSUME NEW i \in 1 .. Len(dir) PROVE dir[i].path[1] # "tmp"
    <3>0. dir[i] \in File
      BY <2>1
    <3>1. dir[i].path \in Paths
      BY <3>0 DEF File
    <3>2. ASSUME NEW e \in Engines, NEW n \in 0 .. MaxCrashes, dir[i].path = <<"tmp", e, n>> PROVE FALSE
      <4>1. n <= born[e] /\ (n = born[e] => pc[e] \in {"write", "rename"})
        BY <2>1, <3>2 DEF CacheInv, IInv, OwnTmp
      <4>2. born[e] = 0 /\ n \in Nat
        BY <2>1
      <4> QED
        BY <4>1, <4>2
    <3> QED
      BY <3>1, <3>2 DEF Paths
  <2>4. Temporary(dir) = 0
    BY <2>1, <2>3, KindNone DEF Temporary
  <2>5. SumSizes(dir) = Stored(dir) + 0 /\ Stored(dir) \in Nat
    BY <2>1, <2>4, SumOfKinds, CountsAreNat
  <2> QED
    BY <2>2, <2>5
<1> QED
  BY <1>1, FilesAreWellFormed, PTL
=============================================================================
