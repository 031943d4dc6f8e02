-------------------------- MODULE FastDecode_proofs ---------------------------
(***************************************************************************)
(* Proofs about FastDecode, for any model, grammar, draft and length: the  *)
(* constraint is in lock step with what is emitted, only legal bytes are   *)
(* chosen, and where the text fits the context every fast mode implements  *)
(* decoding one byte at a time (CanonicalDecode).                          *)
(*                                                                         *)
(* The refinement is proved step by step: a forward pass stutters, as it only *)
(* chooses ahead, and each byte yielded is the canonical choice, because the *)
(* invariant says so of all that has been chosen and is not yet emitted.   *)
(***************************************************************************)
EXTENDS FastDecode, TLAPS, SequenceTheorems, WellFoundedInduction

\* Every set of numbers that has a member has a least one.
LEMMA LeastOf ==
  ASSUME NEW T \in SUBSET Nat, T # {}
  PROVE  \E n \in T : \A m \in T : n <= m
<1> DEFINE R == OpToRel(<, Nat)
<1>1. IsWellFoundedOn(R, Nat)
  BY NatLessThanWellFounded
<1>2. \A x, y \in Nat : <<y, x>> \in R <=> y < x
  BY DEF OpToRel
<1> HIDE DEF R
<1>3. PICK x \in T : \A y \in T : ~ (<<y, x>> \in R)
  BY <1>1, WFMin
<1>4. \A y \in T : ~(y < x)
  BY <1>2, <1>3
<1> QED
  BY <1>4

\* And every bounded one a greatest.
LEMMA GreatestOf ==
  ASSUME NEW n \in Nat, NEW T \in SUBSET (1 .. n), T # {}
  PROVE  \E k \in T : \A m \in T : m <= k
<1> DEFINE U == {n - k : k \in T}
<1>1. U # {}
  OBVIOUS
<1>2. \A u \in U : u \in Nat
  OBVIOUS
<1>3. \E u \in U : \A m \in U : u <= m
  <2> HIDE DEF U
  <2> QED BY <1>1, <1>2, LeastOf
<1>4. PICK k \in T : \A m \in T : n - k <= n - m
  BY <1>3
<1> QED
  BY <1>4

\* The first bytes of a sequence are a sequence of them.
LEMMA FirstIs ==
  ASSUME NEW s \in Seq(Byte), NEW i \in 0 .. Len(s)
  PROVE  /\ First(s, i) \in Seq(Byte) /\ Len(First(s, i)) = i
         /\ \A k \in 1 .. i : First(s, i)[k] = s[k]
<1>1. \A k \in 1 .. i : s[k] \in Byte
  OBVIOUS
<1> QED
  BY <1>1, SubSeqProperties DEF First

\* So are the last ones; the whole where it has no more.
LEMMA LastIs ==
  ASSUME NEW s \in Seq(Byte), NEW n \in Nat
  PROVE  /\ Last(s, n) \in Seq(Byte)
         /\ Len(Last(s, n)) = IF Len(s) <= n THEN Len(s) ELSE n
         /\ Len(s) <= n => Last(s, n) = s
<1>1. CASE Len(s) <= n
  BY <1>1 DEF Last
<1>2. CASE ~(Len(s) <= n)
  <2>1. \A k \in Len(s) - n + 1 .. Len(s) : s[k] \in Byte
    BY <1>2
  <2>2. Last(s, n) = SubSeq(s, Len(s) - n + 1, Len(s))
    BY <1>2 DEF Last
  <2>3. Len(s) - n + 1 \in Int /\ Len(s) \in Int
    OBVIOUS
  <2> QED
    BY <1>2, <2>1, <2>2, <2>3, SubSeqProperties
<1> QED
  BY <1>1, <1>2

\* A short sequence is one of the sequences up to a length.
LEMMA InUpTo ==
  ASSUME NEW n \in Nat, NEW s \in Seq(Byte), Len(s) <= n
  PROVE  s \in UpTo(n)
<1>1. s \in [1 .. Len(s) -> Byte] /\ Len(s) \in 0 .. n
  OBVIOUS
<1> QED
  BY <1>1 DEF UpTo

\* A prefix of the tail is the prefix one longer without its head.
LEMMA TailFirst ==
  ASSUME NEW s \in Seq(Byte), s # <<>>, NEW i \in 0 .. Len(s) - 1
  PROVE  /\ First(Tail(s), i) \in Seq(Byte) /\ Len(First(Tail(s), i)) = i
         /\ \A k \in 1 .. i : First(Tail(s), i)[k] = s[k + 1]
<1>1. Len(s) \in Nat \ {0}
  BY EmptySeq
<1>2. PICK t \in Seq(Byte) : t = Tail(s) /\ Len(t) = Len(s) - 1 /\ \A k \in 1 .. Len(t) : t[k] = s[k + 1]
  BY HeadTailProperties
<1>3. i \in 0 .. Len(t)
  BY <1>1, <1>2
<1>4. First(t, i) \in Seq(Byte) /\ Len(First(t, i)) = i /\ \A k \in 1 .. i : First(t, i)[k] = t[k]
  BY <1>3, FirstIs
<1> QED
  BY <1>1, <1>2, <1>3, <1>4

\* The sequence o, then the first byte of s, then i of the rest: o and i + 1 of s.
LEMMA NextFirst ==
  ASSUME NEW o \in Seq(Byte), NEW s \in Seq(Byte), s # <<>>, NEW i \in 0 .. Len(s) - 1
  PROVE  Append(o, Head(s)) \o First(Tail(s), i) = o \o First(s, i + 1)
<1>1. Len(s) \in Nat \ {0} /\ i \in Nat /\ i + 1 \in 0 .. Len(s)
  BY EmptySeq
<1>2. Head(s) = s[1] /\ s[1] \in Byte
  BY <1>1
<1>3. PICK t \in Seq(Byte) : t = First(Tail(s), i) /\ Len(t) = i /\ \A k \in 1 .. i : t[k] = s[k + 1]
  BY TailFirst
<1>4. PICK u \in Seq(Byte) : u = First(s, i + 1) /\ Len(u) = i + 1 /\ \A k \in 1 .. i + 1 : u[k] = s[k]
  BY <1>1, FirstIs
<1>5. PICK h \in Seq(Byte) : /\ h = Append(o, Head(s)) /\ Len(h) = Len(o) + 1
                             /\ h[Len(o) + 1] = s[1] /\ \A k \in 1 .. Len(o) : h[k] = o[k]
  <2>1. Append(o, s[1]) \in Seq(Byte)
    BY <1>2
  <2>2. Len(Append(o, s[1])) = Len(o) + 1 /\ Append(o, s[1])[Len(o) + 1] = s[1]
    BY <1>2, AppendProperties
  <2>3. \A k \in 1 .. Len(o) : Append(o, s[1])[k] = o[k]
    BY <1>2, AppendProperties
  <2> QED
    BY <1>2, <2>1, <2>2, <2>3
<1>6. /\ Len(h) = Len(o) + 1 /\ Len(u) = Len(t) + 1 /\ h[Len(o) + 1] = u[1]
      /\ \A k \in 1 .. Len(o) : h[k] = o[k]
      /\ \A k \in 1 .. Len(t) : t[k] = u[k + 1]
  BY <1>1, <1>3, <1>4, <1>5
<1>7. h \o t = o \o u
  <2>1. Len(o) \in Nat /\ Len(t) \in Nat
    OBVIOUS
  <2>2. h \o t \in Seq(Byte) /\ o \o u \in Seq(Byte)
    BY ConcatProperties
  <2>3. Len(h \o t) = Len(o) + 1 + Len(t) /\ Len(o \o u) = Len(o) + Len(t) + 1
    <3>1. Len(h \o t) = Len(h) + Len(t) /\ Len(o \o u) = Len(o) + Len(u)
      BY ConcatProperties
    <3> QED
      BY <1>6, <2>1, <3>1
  <2>4. ASSUME NEW k \in 1 .. Len(o) + Len(t) + 1 PROVE (h \o t)[k] = (o \o u)[k]
    <3>1. (h \o t)[k] = IF k <= Len(o) + 1 THEN h[k] ELSE t[k - (Len(o) + 1)]
      BY <1>6, <2>1, ConcatProperties
    <3>2. (o \o u)[k] = IF k <= Len(o) THEN o[k] ELSE u[k - Len(o)]
      BY <1>6, <2>1, ConcatProperties
    <3>3. CASE k <= Len(o)
      BY <1>6, <2>1, <3>1, <3>2, <3>3
    <3>4. CASE k = Len(o) + 1
      BY <1>6, <2>1, <3>1, <3>2, <3>4
    <3>5. CASE k > Len(o) + 1
      <4>1. k - (Len(o) + 1) \in 1 .. Len(t) /\ k - Len(o) = (k - (Len(o) + 1)) + 1
        BY <1>6, <2>1, <3>5
      <4>2. (h \o t)[k] = t[k - (Len(o) + 1)] /\ (o \o u)[k] = u[k - Len(o)]
        BY <1>6, <2>1, <3>1, <3>2, <3>5
      <4> QED
        BY <1>6, <4>1, <4>2
    <3> QED
      BY <1>6, <2>1, <3>3, <3>4, <3>5
  <2>5. Len(h \o t) = Len(o \o u) /\ \A k \in 1 .. Len(h \o t) : (h \o t)[k] = (o \o u)[k]
    BY <1>6, <2>1, <2>3, <2>4
  <2> QED
    BY <2>2, <2>5, SeqEqual
<1> QED
  BY <1>3, <1>4, <1>5, <1>7

\* The text of a request is cut to what leaves room for a byte.
LEMMA TextIs ==
  ASSUME req \in Requests
  PROVE  /\ Text \in Seq(Byte) /\ Len(Text) \in 1 .. SeqMax - 1
         /\ req.mode \in Modes /\ req.model \in Model
<1>1. /\ req.mode \in Modes /\ req.model \in Model /\ req.prompt \in Seq(Byte) /\ req.prompt # <<>>
      /\ SeqMax \in Nat /\ SeqMax - 1 \in Nat \ {0}
  BY DecodeAssumption
<1>2. Len(req.prompt) \in Nat \ {0}
  BY <1>1, EmptySeq
<1>3. Text = Last(req.prompt, SeqMax - 1)
  BY DEF Text
<1>4. /\ Text \in Seq(Byte)
      /\ Len(Text) = IF Len(req.prompt) <= SeqMax - 1 THEN Len(req.prompt) ELSE SeqMax - 1
  BY <1>1, <1>3, LastIs
<1> QED
  BY <1>1, <1>2, <1>4

\* What a forward can see is a window that Best is asked about.
LEMMA ContextIs ==
  ASSUME req \in Requests, out \in Seq(Byte)
  PROVE  /\ Context \in Seq(Byte) /\ Len(Context) = Len(Text) + Len(out) /\ Len(Context) \in Nat \ {0}
         /\ Width \in {SeqMax - 1, SeqMax} /\ Width \in Nat \ {0}
         /\ Window \in Seq(Byte) /\ Len(Window) = IF Len(Context) <= Width THEN Len(Context) ELSE Width
         /\ Len(Context) <= Width => Window = Context
<1>1. Text \in Seq(Byte) /\ Len(Text) \in Nat \ {0} /\ SeqMax \in Nat /\ SeqMax > 1
  BY TextIs, DecodeAssumption
<1>2. Context \in Seq(Byte) /\ Len(Context) = Len(Text) + Len(out)
  BY <1>1, ConcatProperties DEF Context
<1>3. Len(Context) \in Nat \ {0}
  BY <1>1, <1>2
<1>4. Width \in {SeqMax - 1, SeqMax} /\ Width \in Nat \ {0}
  BY <1>1 DEF Width
<1> QED
  BY <1>2, <1>3, <1>4, LastIs DEF Window

\* A draft is short enough for the context and for what may still be emitted.
LEMMA DraftIs ==
  ASSUME req \in Requests, out \in Seq(Byte), Len(out) < MaxNew, req.mode # "verify"
  PROVE  /\ Draft \in Seq(Byte) /\ Len(Draft) + Len(out) + 1 <= MaxNew
         /\ Len(Window) + Len(Draft) <= SeqMax
<1> DEFINE cap == Least(DraftMax, MaxNew - Len(out) - 1)
           ctx == Context
           d == NgramDraft(ctx, cap)
           n == Least(Len(d), SeqMax - Len(Window))
<1>1. /\ cap \in Nat /\ cap + Len(out) + 1 <= MaxNew /\ Len(out) \in Nat
      /\ NgramLen \in Nat \ {0} /\ MaxNew \in Nat
  BY FastAssumption, DecodeAssumption DEF Least
<1>2. /\ ctx \in Seq(Byte) /\ Len(ctx) \in Nat
      /\ Len(Window) \in Nat /\ Len(Window) <= SeqMax - 1 /\ SeqMax \in Nat
  BY ContextIs, DecodeAssumption DEF Width
<1>3. d \in Seq(Byte) /\ Len(d) <= cap
  <2>1. CASE cap <= 0 \/ Places(ctx) = {}
    <3>1. d = <<>>
      BY <2>1 DEF NgramDraft
    <3> HIDE DEF d, cap
    <3>2. d \in Seq(Byte) /\ Len(d) = 0
      BY <3>1, EmptySeq
    <3> QED
      BY <1>1, <3>2
  <2>2. CASE ~(cap <= 0 \/ Places(ctx) = {})
    <3>1. \A p \in Places(ctx) : p \in 1 .. Len(ctx) - NgramLen
      BY DEF Places
    <3>2. Places(ctx) \in SUBSET (1 .. Len(ctx)) /\ Places(ctx) # {}
      BY <1>1, <1>2, <2>2, <3>1
    <3>3. \E p \in Places(ctx) : \A q \in Places(ctx) : q <= p
      BY <1>2, <3>2, GreatestOf
    <3> DEFINE j == CHOOSE p \in Places(ctx) : \A q \in Places(ctx) : q <= p
               from == j + NgramLen
               to == Least(from + cap - 1, Len(ctx))
    <3>4. j \in 1 .. Len(ctx) - NgramLen
      BY <3>1, <3>3
    <3>5. d = SubSeq(ctx, from, to)
      BY <2>2 DEF NgramDraft
    <3> HIDE DEF j
    <3>6. from \in 1 .. Len(ctx) /\ to \in Int /\ to <= Len(ctx) /\ to - from + 1 <= cap /\ from <= to
      BY <1>1, <1>2, <2>2, <3>4 DEF Least
    <3> HIDE DEF from, to, ctx, d
    <3>7. \A i \in from .. to : ctx[i] \in Byte
      BY <1>2, <3>6
    <3>8. d \in Seq(Byte) /\ Len(d) = to - from + 1
      BY <3>5, <3>6, <3>7, SubSeqProperties
    <3> QED
      BY <3>6, <3>8
  <2> QED
    BY <2>1, <2>2
<1>4. Draft = First(d, n)
  BY DEF Draft
<1> HIDE DEF d, cap
<1>5. n \in 0 .. Len(d) /\ n <= SeqMax - Len(Window) /\ n <= cap
  BY <1>1, <1>2, <1>3 DEF Least
<1>6. Draft \in Seq(Byte) /\ Len(Draft) = n
  BY <1>3, <1>4, <1>5, FirstIs
<1> HIDE DEF n
<1> QED
  BY <1>1, <1>2, <1>5, <1>6

\* A sequence each byte of which the grammar allows after those before it.
Legal(s) == \A i \in 1 .. Len(s) : s[i] \in May(First(s, i - 1))

\* The prefixes of no length, and of all.
LEMMA NoneFirst ==
  ASSUME NEW s \in Seq(Byte) PROVE First(s, 0) = <<>> /\ First(s, Len(s)) = s
  BY SubSeqFull, SubSeqEmpty DEF First

\* The prefixes of a concatenation.
LEMMA FirstConcat ==
  ASSUME NEW s \in Seq(Byte), NEW a \in Seq(Byte)
  PROVE  /\ \A i \in 0 .. Len(s) : First(s \o a, i) = First(s, i)
         /\ \A i \in 0 .. Len(a) : First(s \o a, Len(s) + i) = s \o First(a, i)
<1>1. Len(s) \in Nat /\ Len(a) \in Nat
  OBVIOUS
<1> DEFINE c == s \o a
<1>2. /\ c \in Seq(Byte) /\ Len(c) = Len(s) + Len(a)
      /\ \A k \in 1 .. Len(s) : c[k] = s[k]
      /\ \A k \in 1 .. Len(a) : c[Len(s) + k] = a[k]
  <2>1. /\ c \in Seq(Byte) /\ Len(c) = Len(s) + Len(a)
        /\ \A k \in 1 .. Len(s) + Len(a) : c[k] = IF k <= Len(s) THEN s[k] ELSE a[k - Len(s)]
    BY ConcatProperties
  <2> HIDE DEF c
  <2>2. \A k \in 1 .. Len(s) : c[k] = s[k]
    BY <1>1, <2>1
  <2>3. \A k \in 1 .. Len(a) : c[Len(s) + k] = a[k]
    <3> TAKE k \in 1 .. Len(a)
    <3>1. Len(s) + k \in 1 .. Len(s) + Len(a) /\ ~(Len(s) + k <= Len(s)) /\ Len(s) + k - Len(s) = k
      BY <1>1
    <3> QED
      BY <2>1, <3>1
  <2> QED
    BY <2>1, <2>2, <2>3
<1> HIDE DEF c
<1>3. ASSUME NEW i \in 0 .. Len(s) PROVE First(c, i) = First(s, i)
  <2>1. /\ First(s, i) \in Seq(Byte) /\ Len(First(s, i)) = i
        /\ \A k \in 1 .. i : First(s, i)[k] = s[k]
    BY FirstIs
  <2>0. i \in 0 .. Len(c)
    BY <1>1, <1>2
  <2>2. /\ First(c, i) \in Seq(Byte) /\ Len(First(c, i)) = i
        /\ \A k \in 1 .. i : First(c, i)[k] = c[k]
    BY <1>2, <2>0, FirstIs
  <2>3. \A k \in 1 .. i : First(c, i)[k] = First(s, i)[k]
    BY <1>1, <1>2, <2>1, <2>2
  <2> QED
    BY <2>1, <2>2, <2>3, SeqEqual
<1>4. ASSUME NEW i \in 0 .. Len(a) PROVE First(c, Len(s) + i) = s \o First(a, i)
  <2>1. PICK t \in Seq(Byte) : t = First(a, i) /\ Len(t) = i /\ \A k \in 1 .. i : t[k] = a[k]
    BY FirstIs
  <2>0. Len(s) + i \in 0 .. Len(c) /\ i \in Nat
    BY <1>1, <1>2
  <2>2. PICK b \in Seq(Byte) : b = First(c, Len(s) + i) /\ Len(b) = Len(s) + i /\ \A k \in 1 .. Len(s) + i : b[k] = c[k]
    BY <1>2, <2>0, FirstIs
  <2>3. /\ s \o t \in Seq(Byte) /\ Len(s \o t) = Len(s) + Len(t)
        /\ \A k \in 1 .. Len(s) + Len(t) : (s \o t)[k] = IF k <= Len(s) THEN s[k] ELSE t[k - Len(s)]
    BY ConcatProperties
  <2>4. ASSUME NEW k \in 1 .. Len(s) + i PROVE b[k] = (s \o t)[k]
    <3>1. CASE k \in 1 .. Len(s)
      BY <1>1, <1>2, <2>0, <2>1, <2>2, <2>3, <3>1
    <3>2. CASE k \notin 1 .. Len(s)
      <4> DEFINE m == k - Len(s)
      <4>1. m \in 1 .. i /\ k = Len(s) + m /\ ~(k <= Len(s)) /\ m \in 1 .. Len(a)
        BY <1>1, <2>0, <3>2
      <4>2. b[k] = a[m]
        BY <1>2, <2>2, <4>1
      <4>3. (s \o t)[k] = t[m]
        BY <2>1, <2>3, <4>1
      <4> QED
        BY <2>1, <4>1, <4>2, <4>3
    <3> QED
      BY <3>1, <3>2
  <2>5. b = s \o t
    BY <2>1, <2>2, <2>3, <2>4, SeqEqual
  <2> QED
    BY <2>1, <2>2, <2>5
<1> QED
  BY <1>3, <1>4 DEF c

\* Legal bytes after a legal text are a legal text.
LEMMA LegalConcat ==
  ASSUME NEW s \in Seq(Byte), NEW a \in Seq(Byte), Legal(s),
         \A k \in 1 .. Len(a) : a[k] \in May(s \o First(a, k - 1))
  PROVE  Legal(s \o a)
<1>1. Len(s) \in Nat /\ Len(a) \in Nat
  OBVIOUS
<1>2. /\ Len(s \o a) = Len(s) + Len(a)
      /\ \A k \in 1 .. Len(s) + Len(a) : (s \o a)[k] = IF k <= Len(s) THEN s[k] ELSE a[k - Len(s)]
  BY ConcatProperties
<1> SUFFICES ASSUME NEW i \in 1 .. Len(s) + Len(a) PROVE (s \o a)[i] \in May(First(s \o a, i - 1))
  BY <1>2 DEF Legal
<1>3. CASE i <= Len(s)
  <2>1. (s \o a)[i] = s[i] /\ i - 1 \in 0 .. Len(s) /\ i \in 1 .. Len(s)
    BY <1>1, <1>2, <1>3
  <2>2. First(s \o a, i - 1) = First(s, i - 1)
    BY <2>1, FirstConcat
  <2> QED
    BY <2>1, <2>2 DEF Legal
<1>4. CASE i > Len(s)
  <2> DEFINE k == i - Len(s)
  <2>1. k \in 1 .. Len(a) /\ k - 1 \in 0 .. Len(a) /\ i - 1 = Len(s) + (k - 1)
    BY <1>1, <1>4
  <2>2. (s \o a)[i] = a[k]
    BY <1>1, <1>2, <1>4
  <2>3. First(s \o a, i - 1) = s \o First(a, k - 1)
    BY <2>1, FirstConcat
  <2> QED
    BY <2>1, <2>2, <2>3
<1> QED
  BY <1>1, <1>3, <1>4

\* The choices of one forward over the draft d.
LEMMA RefLegal ==
  ASSUME req \in Requests, out \in Seq(Byte), NEW d \in Seq(Byte), Len(Window) + Len(d) <= SeqMax,
         NEW i \in 0 .. Len(d), May1(d, i)
  PROVE  Ref(d, i) \in May(seen \o First(d, i)) /\ Ref(d, i) \in Byte
<1>1. First(d, i) \in Seq(Byte) /\ Len(First(d, i)) = i /\ i \in Nat /\ Len(d) \in Nat
  BY FirstIs
<1>2. Window \in Seq(Byte) /\ Len(Window) \in Nat /\ SeqMax \in Nat
  BY ContextIs, DecodeAssumption
<1> DEFINE w == Window \o First(d, i)
           A == May(seen \o First(d, i))
<1>3. w \in Seq(Byte) /\ Len(w) = Len(Window) + i
  BY <1>1, <1>2, ConcatProperties
<1>4. A \in SUBSET Byte /\ A # {}
  BY DEF May, May1
<1>5. Ref(d, i) = Best(req.model, w, A)
  BY DEF Ref
<1> HIDE DEF w, A
<1>6. w \in UpTo(SeqMax)
  BY <1>1, <1>2, <1>3, InUpTo
<1>7. req.model \in Model
  BY DecodeAssumption
<1>8. Best(req.model, w, A) \in A
  BY <1>4, <1>6, <1>7, ChoiceAssumption
<1> QED
  BY <1>4, <1>5, <1>8 DEF A

\* What the constraint and the emitted bytes are at a forward.
LEMMA AtForward ==
  ASSUME DecodeInv, NEW mode, Ready(mode)
  PROVE  /\ req \in Requests /\ req.mode = mode /\ out \in Seq(Byte) /\ seen = out
         /\ Len(out) \in Nat /\ Len(out) < MaxNew /\ MaxNew \in Nat
         /\ mode # "verify" => Legal(out)
  BY ConcatEmptySeq, DecodeAssumption
     DEF DecodeInv, DecodeTypeOK, Ready, LockStep, EndsLast, OnlyLegal, Legal

\* Where nothing slides, what comes after the context is seen behind all of it.
LEMMA WindowHolds ==
  ASSUME req \in Requests, out \in Seq(Byte), NEW t \in Seq(Byte),
         Len(Context) + Len(t) <= Width
  PROVE  /\ Window = Context
         /\ Last(Text \o (out \o t), Width) = Context \o t
<1>1. Len(Context) \in Nat /\ Width \in Nat /\ Len(t) \in Nat /\ Context \in Seq(Byte) /\ Text \in Seq(Byte)
  BY ContextIs, TextIs
<1>2. Window = Context
  BY <1>1, ContextIs
<1>3. Text \o (out \o t) = Context \o t
  BY <1>1, ConcatAssociative DEF Context
<1>4. Context \o t \in Seq(Byte) /\ Len(Context \o t) = Len(Context) + Len(t)
  BY <1>1, ConcatProperties
<1>5. Last(Context \o t, Width) = Context \o t
  BY <1>1, <1>4, LastIs
<1> QED
  BY <1>2, <1>3, <1>5

\* A forward emits nothing: what it chose is foreseen if it is as things are.
LEMMA ForeseenThen ==
  ASSUME UNCHANGED canonVars,
         \A j \in 0 .. Len(ahead') - 1 :
           /\ May(out \o First(ahead', j)) # {}
           /\ ahead'[j + 1] = Best(req.model, Last(Text \o (out \o First(ahead', j)), Width),
                                   May(out \o First(ahead', j)))
  PROVE  Foreseen'
  BY DEF Foreseen, May, Text, Width, canonVars

\* A forward of the kv mode, which chooses one byte, keeps the invariant.
LEMMA KvStep == DecodeInv /\ KvForward => DecodeInv'
<1> SUFFICES ASSUME DecodeInv, KvForward PROVE DecodeInv'
  OBVIOUS
<1> DEFINE b == Best(req.model, Context, May(seen))
<1>1. /\ req \in Requests /\ req.mode = "kv" /\ out \in Seq(Byte) /\ seen = out
      /\ Len(out) \in Nat /\ Len(out) < MaxNew /\ MaxNew \in Nat /\ Legal(out)
  BY AtForward DEF KvForward
<1>2. /\ Len(Context) < SeqMax /\ May(out) # {} /\ ~ended
      /\ ahead' = <<b>> /\ seen' = Append(out, b) /\ UNCHANGED <<req, out, ended>>
  BY <1>1 DEF KvForward, Ready, canonVars
<1>3. /\ SeqMax \in Nat /\ Context \in Seq(Byte) /\ Len(Context) \in Nat /\ Width = SeqMax - 1
  BY <1>1, ContextIs, DecodeAssumption DEF Width
<1>4. b \in May(out) /\ b \in Byte
  <2>1. Context \in UpTo(SeqMax)
    BY <1>2, <1>3, InUpTo
  <2>2. May(out) \in SUBSET Byte /\ req.model \in Model
    BY <1>1, DecodeAssumption DEF May
  <2>3. b \in May(out)
    BY <1>1, <1>2, <2>1, <2>2, ChoiceAssumption
  <2> QED
    BY <2>2, <2>3
<1> HIDE DEF b
<1>5. Len(ahead') = 1 /\ ahead' \in Seq(Byte) /\ ahead'[1] = b
  BY <1>2, <1>4
<1>6. seen' = out \o ahead' /\ seen' \in Seq(Byte)
  BY <1>1, <1>2, <1>4, AppendIsConcat, AppendProperties
<1>7. DecodeTypeOK' /\ LockStep'
  BY <1>1, <1>2, <1>5, <1>6 DEF DecodeInv, DecodeTypeOK, LockStep
<1>8. OnlyLegal'
  <2>1. First(ahead', 0) = <<>> /\ out \o <<>> = out
    BY <1>1, <1>5, NoneFirst, ConcatEmptySeq
  <2>2. \A k \in 1 .. Len(ahead') : ahead'[k] \in May(out \o First(ahead', k - 1))
    <3>1. \A k \in 1 .. Len(ahead') : k = 1 /\ k - 1 = 0
      BY <1>5
    <3> QED
      BY <1>4, <1>5, <2>1, <3>1
  <2>3. Legal(seen')
    BY <1>1, <1>5, <1>6, <2>2, LegalConcat
  <2>4. \A x : May(x)' = May(x)
    BY <1>2 DEF May
  <2> QED
    BY <2>3, <2>4 DEF OnlyLegal, Legal
<1>9. EndsLast'
  BY <1>1, <1>2, <1>5 DEF EndsLast
<1>10. Foreseen'
  <2>1. First(ahead', 0) = <<>> /\ out \o <<>> = out
    BY <1>1, <1>5, NoneFirst, ConcatEmptySeq
  <2>2. Window = Context
    BY <1>1, <1>2, <1>3, ContextIs
  <2>3. b = Best(req.model, Context, May(out))
    BY <1>1 DEF b
  <2>5. Context = Last(Text \o out, Width)
    BY <2>2 DEF Window, Context
  <2>4. \A j \in 0 .. Len(ahead') - 1 : j = 0
    BY <1>5
  <2> QED
    <3>1. UNCHANGED canonVars
      BY <1>2 DEF canonVars
    <3>2. ASSUME NEW j \in 0 .. Len(ahead') - 1
          PROVE  /\ May(out \o First(ahead', j)) # {}
                 /\ ahead'[j + 1] = Best(req.model, Last(Text \o (out \o First(ahead', j)), Width),
                                         May(out \o First(ahead', j)))
      <4>1. j = 0 /\ First(ahead', j) = <<>> /\ j + 1 = 1
        BY <2>1, <2>4
      <4> QED
        BY <1>2, <1>5, <2>1, <2>3, <2>5, <4>1
    <3> QED
      BY <3>1, <3>2, ForeseenThen
<1> QED
  BY <1>7, <1>8, <1>9, <1>10 DEF DecodeInv

\* What one lookahead forward chooses: the draft as far as it was right, and one byte more.
LEMMA LookChooses ==
  ASSUME DecodeInv, LookForward
  PROVE  \E d \in Seq(Byte), n \in Nat \ {0} :
           /\ Len(d) + Len(out) + 1 <= MaxNew /\ Len(Window) + Len(d) <= SeqMax
           /\ n <= Len(d) + 1
           /\ ahead' \in Seq(Byte) /\ Len(ahead') = n /\ seen' = out \o ahead'
           /\ \A j \in 0 .. n - 1 :
                /\ j \in 0 .. Len(d) /\ First(ahead', j) = First(d, j)
                /\ May1(d, j) /\ ahead'[j + 1] = Ref(d, j)
           /\ \A j \in 1 .. n - 1 : ~Complete(req.grammar, out \o First(d, j))
<1>1. /\ req \in Requests /\ req.mode = "lookahead" /\ out \in Seq(Byte) /\ seen = out
      /\ Len(out) \in Nat /\ Len(out) < MaxNew /\ MaxNew \in Nat
  BY AtForward DEF LookForward
<1> DEFINE d == Draft
<1>2. d \in Seq(Byte) /\ Len(d) + Len(out) + 1 <= MaxNew /\ Len(Window) + Len(d) <= SeqMax /\ Len(d) \in Nat
  BY <1>1, DraftIs
<1>3. PICK n \in 1 .. Len(d) + 1 :
        Accepts(d, n) /\ ahead' = [i \in 1 .. n |-> Ref(d, i - 1)] /\ seen' = seen \o ahead'
  BY DEF LookForward
<1> HIDE DEF d
<1>4. n \in Nat \ {0} /\ n <= Len(d) + 1
  BY <1>2, <1>3
<1>5. ASSUME NEW j \in 0 .. n - 1
      PROVE  j \in 0 .. Len(d) /\ Reached(d, j) /\ May1(d, j) /\ Ref(d, j) \in Byte
  <2>1. j <= Len(d) /\ Reached(d, j) /\ May1(d, j)
    BY <1>3 DEF Accepts
  <2>2. j \in 0 .. Len(d)
    BY <1>2, <1>4, <2>1
  <2> QED
    BY <1>1, <1>2, <2>1, <2>2, RefLegal
<1>6. ahead' \in Seq(Byte) /\ Len(ahead') = n /\ \A j \in 0 .. n - 1 : ahead'[j + 1] = Ref(d, j)
  <2>1. \A i \in 1 .. n : i - 1 \in 0 .. n - 1 /\ Ref(d, i - 1) \in Byte
    BY <1>4, <1>5
  <2>2. ahead' \in [1 .. n -> Byte]
    BY <1>3, <2>1
  <2>3. ahead' \in Seq(Byte) /\ Len(ahead') = n
    BY <1>4, <2>2
  <2>4. ASSUME NEW j \in 0 .. n - 1 PROVE ahead'[j + 1] = Ref(d, j)
    <3>1. j + 1 \in 1 .. n /\ (j + 1) - 1 = j
      BY <1>4
    <3> QED
      BY <1>3, <3>1
  <2> QED
    BY <2>3, <2>4
<1>7. n - 1 \in 0 .. n - 1
  BY <1>4
<1>8. \A j \in 0 .. n - 2 : Ref(d, j) = d[j + 1] /\ ~Complete(req.grammar, out \o First(d, j + 1))
  <2>1. Reached(d, n - 1) /\ n - 1 - 1 = n - 2
    BY <1>4, <1>5, <1>7
  <2> QED
    BY <1>1, <2>1 DEF Reached
<1>9. ASSUME NEW j \in 0 .. n - 1 PROVE First(ahead', j) = First(d, j)
  <2>1. j \in 0 .. Len(d) /\ j \in 0 .. Len(ahead')
    BY <1>4, <1>5, <1>6
  <2>2. /\ First(d, j) \in Seq(Byte) /\ Len(First(d, j)) = j
        /\ \A k \in 1 .. j : First(d, j)[k] = d[k]
    BY <1>2, <2>1, FirstIs
  <2>3. /\ First(ahead', j) \in Seq(Byte) /\ Len(First(ahead', j)) = j
        /\ \A k \in 1 .. j : First(ahead', j)[k] = ahead'[k]
    BY <1>6, <2>1, FirstIs
  <2>4. ASSUME NEW k \in 1 .. j PROVE ahead'[k] = d[k]
    <3>1. k - 1 \in 0 .. n - 2 /\ k - 1 \in 0 .. n - 1 /\ (k - 1) + 1 = k
      BY <1>4
    <3> QED
      BY <1>6, <1>8, <3>1
  <2> QED
    BY <2>2, <2>3, <2>4, SeqEqual
<1>10. ASSUME NEW j \in 1 .. n - 1 PROVE ~Complete(req.grammar, out \o First(d, j))
  <2>1. j - 1 \in 0 .. n - 2 /\ (j - 1) + 1 = j
    BY <1>4
  <2> QED
    BY <1>8, <2>1
<1>11. seen' = out \o ahead'
  BY <1>1, <1>3
<1> USE <1>2, <1>4
<1> WITNESS d \in Seq(Byte), n \in Nat \ {0}
<1> QED
  BY <1>5, <1>6, <1>9, <1>10, <1>11

\* A forward of the lookahead mode: it keeps of the draft what it would have chosen.
LEMMA LookStep == DecodeInv /\ LookForward => DecodeInv'
<1> SUFFICES ASSUME DecodeInv, LookForward PROVE DecodeInv'
  OBVIOUS
<1>1. /\ req \in Requests /\ req.mode = "lookahead" /\ out \in Seq(Byte) /\ seen = out
      /\ Len(out) \in Nat /\ Len(out) < MaxNew /\ MaxNew \in Nat /\ Legal(out)
  BY AtForward DEF LookForward
<1>2. ~ended /\ UNCHANGED <<req, out, ended>>
  BY DEF LookForward, Ready, canonVars
<1>3. PICK d \in Seq(Byte), n \in Nat \ {0} :
        /\ Len(d) + Len(out) + 1 <= MaxNew /\ Len(Window) + Len(d) <= SeqMax
        /\ n <= Len(d) + 1
        /\ ahead' \in Seq(Byte) /\ Len(ahead') = n /\ seen' = out \o ahead'
        /\ \A j \in 0 .. n - 1 :
             /\ j \in 0 .. Len(d) /\ First(ahead', j) = First(d, j)
             /\ May1(d, j) /\ ahead'[j + 1] = Ref(d, j)
        /\ \A j \in 1 .. n - 1 : ~Complete(req.grammar, out \o First(d, j))
  BY LookChooses
<1>4. seen' \in Seq(Byte) /\ Len(d) \in Nat
  BY <1>1, <1>3, ConcatProperties
<1>5. DecodeTypeOK' /\ LockStep'
  BY <1>1, <1>2, <1>3, <1>4 DEF DecodeInv, DecodeTypeOK, LockStep
<1>6. OnlyLegal'
  <2>1. ASSUME NEW k \in 1 .. Len(ahead') PROVE ahead'[k] \in May(out \o First(ahead', k - 1))
    <3>1. k - 1 \in 0 .. n - 1 /\ (k - 1) + 1 = k
      BY <1>3
    <3>2. k - 1 \in 0 .. Len(d) /\ May1(d, k - 1) /\ ahead'[k] = Ref(d, k - 1) /\ First(ahead', k - 1) = First(d, k - 1)
      BY <1>3, <3>1
    <3> QED
      BY <1>1, <1>3, <3>2, RefLegal
  <2>2. Legal(seen')
    BY <1>1, <1>3, <2>1, LegalConcat
  <2>3. \A x : May(x)' = May(x)
    BY <1>2 DEF May
  <2> QED
    BY <2>2, <2>3 DEF OnlyLegal, Legal
<1>7. EndsLast'
  <2>1. Len(out') + Len(ahead') <= MaxNew
    BY <1>1, <1>2, <1>3, <1>4
  <2>2. \A j \in 1 .. Len(ahead') - 1 : ~Complete(req'.grammar, out' \o First(ahead', j))
    <3>1. \A j \in 1 .. n - 1 : j \in 0 .. n - 1
      OBVIOUS
    <3> QED
      BY <1>2, <1>3, <3>1
  <2> QED
    BY <1>1, <1>2, <2>1, <2>2 DEF EndsLast
<1>8. Fits => Foreseen'
  <2> SUFFICES ASSUME Fits PROVE Foreseen'
    OBVIOUS
  <2>1. /\ Len(Text) + MaxNew <= SeqMax /\ Width = SeqMax - 1 /\ SeqMax \in Nat /\ Len(Text) \in Nat
        /\ Len(Context) = Len(Text) + Len(out)
    BY <1>1, TextIs, ContextIs, DecodeAssumption DEF Fits, Width
  <2>2. ASSUME NEW j \in 0 .. Len(ahead') - 1
        PROVE  /\ May(out \o First(ahead', j)) # {}
               /\ ahead'[j + 1] = Best(req.model, Last(Text \o (out \o First(ahead', j)), Width),
                                       May(out \o First(ahead', j)))
    <3>1. /\ j \in 0 .. Len(d) /\ First(ahead', j) = First(d, j)
          /\ May1(d, j) /\ ahead'[j + 1] = Ref(d, j)
      BY <1>3
    <3>2. First(d, j) \in Seq(Byte) /\ Len(First(d, j)) = j
      BY <3>1, FirstIs
    <3>3. Len(Context) + Len(First(d, j)) <= Width
      BY <1>1, <1>3, <1>4, <2>1, <3>1, <3>2
    <3>4. Window = Context /\ Last(Text \o (out \o First(d, j)), Width) = Context \o First(d, j)
      BY <1>1, <3>2, <3>3, WindowHolds
    <3> QED
      BY <1>1, <3>1, <3>4 DEF May1, Ref
  <2>3. UNCHANGED canonVars
    BY <1>2 DEF canonVars
  <2> QED
    BY <2>2, <2>3, ForeseenThen
<1>9. Fits' = Fits
  BY <1>2 DEF Fits, Text, May
<1> QED
  BY <1>5, <1>6, <1>7, <1>8, <1>9 DEF DecodeInv

\* One yield takes the first byte chosen, and the rest stays foreseen.
LEMMA YieldStep == DecodeInv /\ Yield => DecodeInv'
<1> SUFFICES ASSUME DecodeInv, Yield PROVE DecodeInv'
  OBVIOUS
<1>1. /\ req \in Requests /\ out \in Seq(Byte) /\ ahead \in Seq(Byte) /\ seen \in Seq(Byte)
      /\ ahead # <<>> /\ Len(out) \in Nat /\ MaxNew \in Nat /\ Len(ahead) \in Nat \ {0}
      /\ req' = req /\ Len(out) < MaxNew
  BY EmptySeq, DecodeAssumption DEF DecodeInv, DecodeTypeOK, Yield, EndsLast
<1>2. /\ Head(ahead) = ahead[1] /\ Head(ahead) \in Byte
      /\ Tail(ahead) \in Seq(Byte) /\ Len(Tail(ahead)) = Len(ahead) - 1
      /\ \A k \in 1 .. Len(ahead) - 1 : Tail(ahead)[k] = ahead[k + 1]
  BY <1>1, HeadTailProperties
<1>3. /\ out' = Append(out, Head(ahead)) /\ out' \in Seq(Byte) /\ Len(out') = Len(out) + 1
      /\ ended' = Over(out') /\ ahead' = IF ended' THEN <<>> ELSE Tail(ahead)
      /\ seen' = IF req.mode = "verify" THEN Append(seen, Head(ahead)) ELSE seen
  BY <1>1, <1>2, AppendProperties DEF Yield
<1>4. ahead' \in Seq(Byte) /\ Len(ahead') \in Nat
  BY <1>2, <1>3, EmptySeq
<1>5. ASSUME NEW j \in 0 .. Len(ahead) - 1 PROVE out' \o First(Tail(ahead), j) = out \o First(ahead, j + 1)
  BY <1>1, <1>3, NextFirst
<1>6. out' \o Tail(ahead) = out \o ahead
  <2>1. Len(ahead) - 1 \in 0 .. Len(ahead) - 1 /\ (Len(ahead) - 1) + 1 = Len(ahead)
    BY <1>1
  <2>2. First(Tail(ahead), Len(ahead) - 1) = Tail(ahead) /\ First(ahead, Len(ahead)) = ahead
    BY <1>1, <1>2, NoneFirst
  <2> QED
    BY <1>5, <2>1, <2>2
<1>7. out' = out \o First(ahead, 1)
  <2>1. 0 \in 0 .. Len(ahead) - 1 /\ 0 + 1 = 1
    BY <1>1
  <2>2. First(Tail(ahead), 0) = <<>> /\ out' \o <<>> = out'
    BY <1>2, <1>3, NoneFirst, ConcatEmptySeq
  <2> QED
    BY <1>5, <2>1, <2>2
<1>8. req.mode # "verify" => Len(out) + Len(ahead) <= MaxNew /\ (ended' => Len(ahead) = 1)
  <2> SUFFICES ASSUME req.mode # "verify", Len(ahead) # 1 PROVE ~ended' /\ Len(out) + Len(ahead) <= MaxNew
    BY <1>1 DEF DecodeInv, EndsLast
  <2>0. Len(ahead) \in Nat /\ Len(ahead) > 1 /\ 1 \in 1 .. Len(ahead) - 1
    <3>1. Len(ahead) \in Nat /\ Len(ahead) # 0 /\ Len(ahead) # 1
      BY <1>1
    <3> DEFINE n == Len(ahead)
    <3>a. n \in Nat /\ n # 0 /\ n # 1
      BY <3>1
    <3>2. Len(ahead) > 1
      <4>1. \A x \in Nat : x # 0 /\ x # 1 => x > 1
        OBVIOUS
      <4> HIDE DEF n
      <4>2. n > 1
        BY <3>a, <4>1
      <4> QED
        BY <4>2 DEF n
    <3>3. 1 <= Len(ahead) - 1
      BY <3>1, <3>2
    <3> QED
      BY <3>1, <3>2, <3>3
  <2>1. Len(out) + Len(ahead) <= MaxNew
    BY DEF DecodeInv, EndsLast
  <2>2. ~Complete(req.grammar, out \o First(ahead, 1))
    BY <2>0 DEF DecodeInv, EndsLast
  <2>3. Len(out') # MaxNew
    BY <1>1, <1>3, <2>0, <2>1
  <2>4. ~Over(out')
    BY <1>7, <2>2, <2>3 DEF Over
  <2>5. ended' = Over(out')
    BY <1>3
  <2> QED
    BY <2>1, <2>4, <2>5
<1>9. LockStep'
  <2>1. CASE req.mode = "verify"
    BY <1>1, <1>3, <2>1 DEF DecodeInv, LockStep
  <2>2. CASE req.mode # "verify" /\ ended'
    <3>1. Tail(ahead) = <<>>
      BY <1>2, <1>8, <2>2
    <3>2. seen' = out \o ahead /\ ahead' = <<>>
      BY <1>3, <2>2 DEF DecodeInv, LockStep
    <3> QED
      BY <1>1, <1>6, <2>2, <3>1, <3>2 DEF LockStep
  <2>3. CASE req.mode # "verify" /\ ~ended'
    <3>1. seen' = out \o ahead /\ ahead' = Tail(ahead)
      BY <1>3, <2>3 DEF DecodeInv, LockStep
    <3> QED
      BY <1>1, <1>6, <2>3, <3>1 DEF LockStep
  <2> QED
    BY <2>1, <2>2, <2>3
<1>10. DecodeTypeOK'
  <2>1. ended' \in BOOLEAN
    BY <1>3 DEF Over
  <2>2. seen' \in Seq(Byte)
    BY <1>1, <1>2, <1>3, AppendProperties
  <2>3. Len(out') <= MaxNew
    BY <1>1, <1>3
  <2> QED
    BY <1>1, <1>3, <1>4, <2>1, <2>2, <2>3 DEF DecodeTypeOK
<1>11. OnlyLegal'
  <2>1. CASE req.mode = "verify"
    BY <1>1, <2>1 DEF OnlyLegal
  <2>2. CASE req.mode # "verify"
    <3>1. seen' = seen /\ \A x : May(x)' = May(x)
      BY <1>1, <1>3, <2>2 DEF May
    <3> QED
      BY <1>1, <3>1 DEF DecodeInv, OnlyLegal
  <2> QED
    BY <2>1, <2>2
<1>12. EndsLast'
  <2>1. IF ended' THEN ahead' = <<>> ELSE Len(out') < MaxNew
    <3>1. ended' = Over(out') /\ Len(out') <= MaxNew
      BY <1>1, <1>3
    <3>2. ended' => ahead' = <<>>
      BY <1>3
    <3>3. ~ended' => Len(out') # MaxNew
      BY <3>1 DEF Over
    <3>4. ~ended' => Len(out') < MaxNew
      BY <1>1, <1>3, <3>1, <3>3
    <3> QED
      BY <3>2, <3>4
  <2>2. ASSUME req.mode # "verify", ~ended'
        PROVE  /\ Len(out') + Len(ahead') <= MaxNew
               /\ \A i \in 1 .. Len(ahead') - 1 : ~Complete(req.grammar, out' \o First(ahead', i))
    <3>1. ahead' = Tail(ahead) /\ Len(ahead') = Len(ahead) - 1
      BY <1>2, <1>3, <2>2
    <3>2. ASSUME NEW i \in 1 .. Len(ahead') - 1 PROVE ~Complete(req.grammar, out' \o First(ahead', i))
      <4>1. i \in 0 .. Len(ahead) - 1 /\ i + 1 \in 1 .. Len(ahead) - 1
        BY <1>1, <3>1
      <4> QED
        BY <1>5, <2>2, <3>1, <4>1 DEF DecodeInv, EndsLast
    <3> QED
      BY <1>1, <1>3, <1>8, <2>2, <3>1, <3>2
  <2>3. ASSUME req.mode # "verify", ended'
        PROVE  /\ Len(out') + Len(ahead') <= MaxNew
               /\ \A i \in 1 .. Len(ahead') - 1 : ~Complete(req.grammar, out' \o First(ahead', i))
    <3>1. Len(ahead') = 0
      BY <1>3, <2>3, EmptySeq
    <3>2. 1 .. Len(ahead') - 1 = {}
      BY <3>1
    <3>0. Len(out') = Len(out) + 1 /\ Len(out) < MaxNew /\ Len(out) \in Nat /\ MaxNew \in Nat
      BY <1>1, <1>3
    <3>3. Len(out') + Len(ahead') <= MaxNew
      BY <3>0, <3>1
    <3> QED
      BY <3>2, <3>3
  <2> QED
    BY <1>1, <2>1, <2>2, <2>3 DEF EndsLast
<1>13. Foreseen => Foreseen'
  <2> SUFFICES ASSUME Foreseen, NEW i \in 0 .. Len(ahead') - 1
               PROVE  /\ May(out' \o First(ahead', i)) # {}
                      /\ ahead'[i + 1] = Best(req.model, Last(Text \o (out' \o First(ahead', i)), Width),
                                              May(out' \o First(ahead', i)))
    BY <1>1 DEF Foreseen, May, Text, Width
  <2>1. ahead' = Tail(ahead) /\ Len(ahead') = Len(ahead) - 1
    BY <1>2, <1>3, EmptySeq
  <2>2. i \in 0 .. Len(ahead) - 1 /\ i + 1 \in 0 .. Len(ahead) - 1 /\ i + 1 \in 1 .. Len(ahead) - 1
    BY <1>1, <2>1
  <2>3. out' \o First(ahead', i) = out \o First(ahead, i + 1) /\ ahead'[i + 1] = ahead[(i + 1) + 1]
    BY <1>2, <1>5, <2>1, <2>2
  <2> QED
    BY <2>2, <2>3 DEF Foreseen
<1>14. Fits' = Fits
  BY <1>1 DEF Fits, Text, May
<1> QED
  BY <1>9, <1>10, <1>11, <1>12, <1>13, <1>14 DEF DecodeInv

\* The verifier's answer at a drafted place is a byte; where nothing slides it is
\* head 0's choice after the context and the drafts before it.
LEMMA VerifiedIs ==
  ASSUME req \in Requests, req.mode = "verify", out \in Seq(Byte), Byte # {},
         NEW d \in Seq(Byte), Len(d) <= Heads, NEW i \in 1 .. Len(d) - 1
  PROVE  /\ Verified(d, i) \in Byte
         /\ Len(Context) + Len(d) <= SeqMax + 1 =>
              Verified(d, i) = Best(req.model, Context \o First(d, i), Byte)
<1>1. /\ SeqMax \in Nat /\ Heads \in Nat /\ Heads <= SeqMax /\ Width = SeqMax /\ SeqMax > 0
      /\ Len(d) \in Nat /\ i \in Nat /\ i >= 1 /\ i + 1 <= Len(d) /\ Len(d) <= Heads
  BY DecodeAssumption, FastAssumption DEF Width
<1>2. /\ Window \in Seq(Byte) /\ Len(Window) \in Nat \ {0} /\ Context \in Seq(Byte) /\ Len(Context) \in Nat
      /\ Len(Context) <= SeqMax => Window = Context
  BY <1>1, ContextIs
<1> DEFINE t == First(d, Len(d) - 1)
           w == Window \o t
           v == Last(w, SeqMax)
           m == Len(v) - Len(d) + i + 1
<1>3. t \in Seq(Byte) /\ Len(t) = Len(d) - 1
  <2>1. Len(d) - 1 \in 0 .. Len(d)
    BY <1>1
  <2> QED
    BY <2>1, FirstIs
<1>4. w \in Seq(Byte) /\ Len(w) = Len(Window) + (Len(d) - 1)
  BY <1>2, <1>3, ConcatProperties
<1>5. /\ v \in Seq(Byte) /\ Len(v) = (IF Len(w) <= SeqMax THEN Len(w) ELSE SeqMax)
      /\ Len(w) <= SeqMax => v = w
  BY <1>1, <1>4, LastIs
<1>6. Verified(d, i) = Best(req.model, First(v, m), Byte)
  BY DEF Verified
<1> HIDE DEF t, w, v
<1>7. m \in 0 .. Len(v) /\ Len(v) <= SeqMax
  <2>1. CASE Len(w) <= SeqMax
    BY <1>1, <1>2, <1>4, <1>5, <2>1
  <2>2. CASE ~(Len(w) <= SeqMax)
    BY <1>1, <1>2, <1>4, <1>5, <2>2
  <2> QED
    BY <2>1, <2>2
<1>8. Verified(d, i) \in Byte
  <2>1. First(v, m) \in Seq(Byte) /\ Len(First(v, m)) = m
    BY <1>5, <1>7, FirstIs
  <2>2. First(v, m) \in UpTo(SeqMax)
    BY <1>1, <1>5, <1>7, <2>1, InUpTo
  <2> QED
    BY <1>6, <2>2, ChoiceAssumption, DecodeAssumption
<1>9. ASSUME Len(Context) + Len(d) <= SeqMax + 1
      PROVE  Verified(d, i) = Best(req.model, Context \o First(d, i), Byte)
  <2>1. Window = Context /\ Len(w) <= SeqMax
    BY <1>1, <1>2, <1>4, <1>9
  <2>2. v = Context \o t /\ m = Len(Context) + i
    BY <1>1, <1>2, <1>4, <1>5, <2>1 DEF w
  <2>3. i \in 0 .. Len(t)
    BY <1>1, <1>3
  <2>4. First(v, m) = Context \o First(t, i)
    <3>1. First(Context \o t, Len(Context) + i) = Context \o First(t, i)
      BY <1>2, <1>3, <2>3, FirstConcat
    <3> HIDE DEF m
    <3> QED
      BY <2>2, <3>1
  <2>5. First(t, i) = First(d, i)
    <3>1. /\ i \in 0 .. Len(d)
          /\ First(d, i) \in Seq(Byte) /\ Len(First(d, i)) = i
          /\ \A k \in 1 .. i : First(d, i)[k] = d[k]
      BY <1>1, FirstIs
    <3>2. /\ First(t, i) \in Seq(Byte) /\ Len(First(t, i)) = i
          /\ \A k \in 1 .. i : First(t, i)[k] = t[k]
      BY <1>3, <2>3, FirstIs
    <3>3. \A k \in 1 .. Len(d) - 1 : t[k] = d[k]
      <4>1. Len(d) - 1 \in 0 .. Len(d)
        BY <1>1
      <4> QED
        BY <4>1, FirstIs DEF t
    <3>4. \A k \in 1 .. i : k \in 1 .. Len(d) - 1
      BY <1>1
    <3> QED
      BY <3>1, <3>2, <3>3, <3>4, SeqEqual
  <2> QED
    BY <1>6, <2>4, <2>5
<1> QED
  BY <1>8, <1>9

\* A forward of the verify mode, whose correction may be no legal byte.
LEMMA VerifyStep == DecodeInv /\ VerifyForward => DecodeInv'
<1> SUFFICES ASSUME DecodeInv, VerifyForward PROVE DecodeInv'
  OBVIOUS
<1>1. /\ req \in Requests /\ req.mode = "verify" /\ out \in Seq(Byte) /\ seen = out
      /\ Len(out) \in Nat /\ Len(out) < MaxNew /\ MaxNew \in Nat
  BY AtForward DEF VerifyForward
<1>2. ~ended /\ May(out) # {} /\ UNCHANGED <<req, out, ended, seen>>
  BY <1>1 DEF VerifyForward, Ready, canonVars
<1> DEFINE b == Best(req.model, Window, May(out))
<1>3. PICK d \in HeadDrafts(b) : \E n \in 1 .. Len(d) :
         /\ Agrees(d, n)
         /\ IF n = Len(d) THEN ahead' = d
            ELSE ~Agrees(d, n + 1) /\ ahead' = Append(First(d, n), Verified(d, n))
  BY <1>1 DEF VerifyForward
<1>4. PICK n \in 1 .. Len(d) :
         /\ Agrees(d, n)
         /\ IF n = Len(d) THEN ahead' = d
            ELSE ahead' = Append(First(d, n), Verified(d, n))
  BY <1>3
<1>5. d \in Seq(Byte) /\ Len(d) \in 1 .. Heads /\ d[1] = b /\ Byte # {} /\ Heads \in Nat
  <2>1. PICK h \in 1 .. Heads : d \in [1 .. h -> Byte]
    BY <1>3 DEF HeadDrafts
  <2>2. Heads \in Nat /\ h \in Nat
    BY FastAssumption
  <2>3. d \in Seq(Byte) /\ Len(d) = h
    BY <2>1, <2>2
  <2>4. d[1] = b /\ Byte # {}
    BY <1>2, <1>3 DEF HeadDrafts, May
  <2> QED
    BY <2>2, <2>3, <2>4
<1> HIDE DEF b
<1>6. /\ n \in Nat \ {0} /\ n <= Len(d) /\ Len(d) \in Nat /\ n \in 0 .. Len(d) /\ Len(d) <= Heads
  BY <1>4, <1>5
<1>7. \A i \in 1 .. Len(d) - 1 : Verified(d, i) \in Byte
  BY <1>1, <1>5, <1>6, VerifiedIs
\* Each byte chosen after the first is the verifier's, after those before it.
<1>8. /\ ahead' \in Seq(Byte) /\ Len(ahead') <= Len(d) /\ Len(ahead') \in Nat \ {0} /\ ahead'[1] = b
      /\ \A i \in 1 .. Len(ahead') - 1 : /\ i \in 1 .. Len(d) - 1 /\ ahead'[i + 1] = Verified(d, i)
                                         /\ First(ahead', i) = First(d, i)
  <2>1. CASE n = Len(d)
    <3>1. ahead' = d
      BY <1>4, <2>1
    <3>2. \A i \in 1 .. Len(d) - 1 : d[i + 1] = Verified(d, i)
      BY <1>4, <2>1 DEF Agrees
    <3> QED
      BY <1>5, <1>6, <3>1, <3>2
  <2>2. CASE n # Len(d)
    <3>1. n \in 1 .. Len(d) - 1 /\ n + 1 <= Len(d) /\ Verified(d, n) \in Byte
      BY <1>6, <1>7, <2>2
    <3>2. PICK f \in Seq(Byte) : f = First(d, n) /\ Len(f) = n /\ \A k \in 1 .. n : f[k] = d[k]
      BY <1>5, <1>6, FirstIs
    <3>3. ahead' = Append(f, Verified(d, n))
      BY <1>4, <2>2, <3>2
    <3>4. /\ ahead' \in Seq(Byte) /\ Len(ahead') = n + 1 /\ ahead'[n + 1] = Verified(d, n)
          /\ \A k \in 1 .. n : ahead'[k] = d[k]
      BY <3>1, <3>2, <3>3, AppendProperties
    <3>5. ASSUME NEW i \in 1 .. Len(ahead') - 1
          PROVE  /\ i \in 1 .. Len(d) - 1 /\ ahead'[i + 1] = Verified(d, i)
                 /\ First(ahead', i) = First(d, i)
      <4>1. i \in 1 .. n /\ i \in 1 .. Len(d) - 1 /\ i \in 0 .. Len(d) /\ i \in 0 .. Len(ahead')
        BY <1>6, <3>1, <3>4
      <4>2. ahead'[i + 1] = Verified(d, i)
        <5>1. CASE i = n
          BY <3>4, <5>1
        <5>2. CASE i # n
          <6>1. i \in 1 .. n - 1 /\ i + 1 \in 1 .. n
            BY <1>6, <4>1, <5>2
          <6> QED
            BY <1>4, <3>4, <6>1 DEF Agrees
        <5> QED
          BY <5>1, <5>2
      <4>3. /\ First(d, i) \in Seq(Byte) /\ Len(First(d, i)) = i
            /\ \A k \in 1 .. i : First(d, i)[k] = d[k]
        BY <1>5, <4>1, FirstIs
      <4>4. /\ First(ahead', i) \in Seq(Byte) /\ Len(First(ahead', i)) = i
            /\ \A k \in 1 .. i : First(ahead', i)[k] = ahead'[k]
        BY <3>4, <4>1, FirstIs
      <4>5. \A k \in 1 .. i : ahead'[k] = d[k]
        <5>1. \A k \in 1 .. i : k \in 1 .. n
          BY <1>6, <4>1
        <5> QED
          BY <3>4, <5>1
      <4>6. First(ahead', i) = First(d, i)
        BY <4>3, <4>4, <4>5, SeqEqual
      <4> QED
        BY <4>1, <4>2, <4>6
    <3>6. 1 \in 1 .. n
      BY <1>6
    <3> QED
      BY <1>5, <1>6, <3>1, <3>4, <3>5, <3>6
  <2> QED
    BY <2>1, <2>2
<1>9. DecodeTypeOK' /\ LockStep' /\ OnlyLegal' /\ EndsLast'
  BY <1>1, <1>2, <1>8 DEF DecodeInv, DecodeTypeOK, LockStep, OnlyLegal, EndsLast
<1>10. Fits => Foreseen'
  <2> SUFFICES ASSUME Fits PROVE Foreseen'
    OBVIOUS
  <2>1. /\ Len(Text) + MaxNew + Heads <= SeqMax + 2 /\ Width = SeqMax /\ SeqMax \in Nat /\ Len(Text) \in Nat
        /\ Len(Context) = Len(Text) + Len(out) /\ \A s \in UpTo(MaxNew + Heads) : May(s) = Byte
        /\ Text \in Seq(Byte)
    BY <1>1, TextIs, ContextIs, DecodeAssumption DEF Fits, Width
  <2>2. Len(Context) + Len(d) <= SeqMax + 1
    BY <1>1, <1>5, <1>6, <2>1
  <2>3. ASSUME NEW j \in 0 .. Len(ahead') - 1
        PROVE  /\ May(out \o First(ahead', j)) # {}
               /\ ahead'[j + 1] = Best(req.model, Last(Text \o (out \o First(ahead', j)), Width),
                                       May(out \o First(ahead', j)))
    <3>1. CASE j = 0
      <4>1. First(ahead', j) = <<>> /\ out \o <<>> = out /\ j + 1 = 1
        BY <1>1, <1>8, <3>1, NoneFirst, ConcatEmptySeq
      <4>2. Window = Last(Text \o out, Width)
        BY DEF Window, Context
      <4> QED
        BY <1>2, <1>8, <4>1, <4>2 DEF b
    <3>2. CASE j # 0
      <4>1. j \in 1 .. Len(ahead') - 1
        BY <1>8, <3>2
      <4>2. j \in 1 .. Len(d) - 1 /\ ahead'[j + 1] = Verified(d, j) /\ First(ahead', j) = First(d, j)
        BY <1>8, <4>1
      <4>3. First(d, j) \in Seq(Byte) /\ Len(First(d, j)) = j /\ j \in Nat /\ j + 1 <= Len(d)
        <5>1. j \in 0 .. Len(d)
          BY <1>6, <4>2
        <5> QED
          BY <1>5, <1>6, <4>2, <5>1, FirstIs
      <4>4. Verified(d, j) = Best(req.model, Context \o First(d, j), Byte)
        BY <1>1, <1>5, <1>6, <2>2, <4>2, VerifiedIs
      <4>5. Len(Context) + Len(First(d, j)) <= Width
        BY <1>1, <1>6, <2>1, <2>2, <4>3
      <4>6. Last(Text \o (out \o First(d, j)), Width) = Context \o First(d, j)
        BY <1>1, <4>3, <4>5, WindowHolds
      <4>7. May(out \o First(d, j)) = Byte
        <5>0. PICK t \in Seq(Byte) : t = First(d, j) /\ Len(t) = j
          BY <4>3
        <5>4. out \o t \in Seq(Byte) /\ Len(out \o t) = Len(out) + Len(t)
          BY <1>1, ConcatProperties
        <5>1. out \o First(d, j) \in Seq(Byte) /\ Len(out \o First(d, j)) = Len(out) + j
          BY <5>0, <5>4
        <5>2. Len(out) + j <= MaxNew + Heads /\ MaxNew + Heads \in Nat
          BY <1>1, <1>5, <1>6, <4>3
        <5>3. out \o First(d, j) \in UpTo(MaxNew + Heads)
          BY <5>1, <5>2, InUpTo
        <5> QED
          BY <2>1, <5>3
      <4> QED
        BY <1>5, <4>2, <4>4, <4>6, <4>7
    <3> QED
      BY <3>1, <3>2
  <2>4. UNCHANGED canonVars
    BY <1>2 DEF canonVars
  <2> QED
    BY <2>3, <2>4, ForeseenThen
<1>11. Fits' = Fits
  BY <1>2 DEF Fits, Text, May
<1> QED
  BY <1>9, <1>10, <1>11 DEF DecodeInv

\* A generator that returns, for want of room or of a byte it may emit, had
\* emitted all it chose; one that does nothing keeps what it knew.
LEMMA StopStep == DecodeInv /\ (KvStop \/ LookStop \/ VerifyStop) => DecodeInv'
<1> SUFFICES ASSUME DecodeInv, KvStop \/ LookStop \/ VerifyStop PROVE DecodeInv'
  OBVIOUS
<1>1. ahead = <<>> /\ ended' = TRUE /\ UNCHANGED <<req, out, ahead, seen>>
  BY DEF KvStop, LookStop, VerifyStop, Ready, Return
<1>2. DecodeTypeOK' /\ LockStep' /\ OnlyLegal'
  BY <1>1 DEF DecodeInv, DecodeTypeOK, LockStep, OnlyLegal, May
<1>3. EndsLast'
  BY <1>1 DEF DecodeInv, EndsLast
<1>4. (Fits => Foreseen)'
  BY <1>1 DEF DecodeInv, Fits, Foreseen, May, Text, Width
<1> QED
  BY <1>2, <1>3, <1>4 DEF DecodeInv

\* Every request starts in the invariant: nothing is chosen, nothing emitted.
LEMMA DecodeInitInv == DecodeInit => DecodeInv
<1> SUFFICES ASSUME DecodeInit PROVE DecodeInv
  OBVIOUS
<1>1. req \in Requests /\ out = <<>> /\ ended = FALSE /\ ahead = <<>> /\ seen = <<>>
  BY DEF DecodeInit, CanonInit
<1>2. /\ out \in Seq(Byte) /\ ahead \in Seq(Byte) /\ seen \in Seq(Byte)
      /\ Len(out) = 0 /\ Len(ahead) = 0 /\ Len(seen) = 0 /\ MaxNew \in Nat /\ MaxNew > 0
  BY <1>1, EmptySeq, DecodeAssumption
<1>3. DecodeTypeOK
  <2>1. Len(out) <= MaxNew
    BY <1>2
  <2>2. ended \in BOOLEAN
    BY <1>1
  <2> QED
    BY <1>1, <1>2, <2>1, <2>2 DEF DecodeTypeOK
<1>4. LockStep
  BY <1>1, <1>2, ConcatEmptySeq DEF LockStep
<1>5. OnlyLegal /\ EndsLast /\ Foreseen
  BY <1>1, <1>2 DEF OnlyLegal, EndsLast, Foreseen
<1> QED
  BY <1>3, <1>4, <1>5 DEF DecodeInv

\* Every step of every mode keeps the invariant.
LEMMA DecodeStep == DecodeInv /\ [DecodeNext]_decodeVars => DecodeInv'
<1> SUFFICES ASSUME DecodeInv, [DecodeNext]_decodeVars PROVE DecodeInv'
  OBVIOUS
<1>1. CASE KvForward
  BY <1>1, KvStep
<1>2. CASE LookForward
  BY <1>2, LookStep
<1>3. CASE VerifyForward
  BY <1>3, VerifyStep
<1>4. CASE Yield
  BY <1>4, YieldStep
<1>5. CASE KvStop \/ LookStop \/ VerifyStop
  BY <1>5, StopStep
<1>6. CASE UNCHANGED decodeVars
  <2>1. UNCHANGED <<req, out, ended, ahead, seen>>
    BY <1>6 DEF decodeVars, canonVars
  <2>2. DecodeTypeOK' /\ LockStep' /\ OnlyLegal' /\ EndsLast'
    BY <2>1 DEF DecodeInv, DecodeTypeOK, LockStep, OnlyLegal, EndsLast, May
  <2>3. (Fits => Foreseen)'
    BY <2>1 DEF DecodeInv, Fits, Foreseen, May, Text, Width
  <2> QED
    BY <2>2, <2>3 DEF DecodeInv
<1> QED
  BY <1>1, <1>2, <1>3, <1>4, <1>5, <1>6 DEF DecodeNext

\* Where the text fits, one yield emits what decoding one byte at a time would.
LEMMA YieldIsCanonical == DecodeInv /\ Yield /\ Fits => CanonEmit
<1> SUFFICES ASSUME DecodeInv, Yield, Fits PROVE CanonEmit
  OBVIOUS
<1>1. /\ req \in Requests /\ out \in Seq(Byte) /\ ahead \in Seq(Byte) /\ ahead # <<>>
      /\ Foreseen
  BY DEF DecodeInv, DecodeTypeOK, Yield
<1>2. Len(ahead) \in Nat \ {0} /\ Head(ahead) = ahead[1]
  BY <1>1, EmptySeq
<1>3. ~ended
  BY <1>1 DEF DecodeInv, EndsLast
<1>4. First(ahead, 0) = <<>> /\ out \o <<>> = out /\ 0 \in 0 .. Len(ahead) - 1 /\ 0 + 1 = 1
  BY <1>1, <1>2, NoneFirst, ConcatEmptySeq
<1>5. May(out) # {} /\ ahead[1] = Best(req.model, Last(Text \o out, Width), May(out))
  BY <1>1, <1>4 DEF Foreseen
<1>6. Window = Last(Text \o out, Width)
  BY DEF Window, Context
<1> QED
  BY <1>2, <1>3, <1>5, <1>6 DEF Yield, CanonEmit

\* The invariant: types; the constraint has read what is emitted and what is about to
\* be; what is emitted is legal but for verify; a generator that has more to emit has
\* not ended; and where the text fits, each byte chosen ahead is the canonical choice.
THEOREM DecodeInvariance == DecodeSpec => []DecodeInv
<1>1. DecodeInit => DecodeInv
  BY DecodeInitInv
<1>2. DecodeInv /\ [DecodeNext]_decodeVars => DecodeInv'
  BY DecodeStep
<1> QED
  BY <1>1, <1>2, PTL DEF DecodeSpec

\* The constraint is stepped through what is, or is about to be, emitted, and
\* no turned-down draft leaves a mark on it.
THEOREM ConstraintInLockStep == DecodeSpec => []LockStep
<1>1. DecodeInv => LockStep
  BY DEF DecodeInv
<1> QED
  BY <1>1, DecodeInvariance, PTL

\* It is never stepped with a byte it forbids, but by verify's correction.
THEOREM ConstraintOnlyLegal == DecodeSpec => []OnlyLegal
<1>1. DecodeInv => OnlyLegal
  BY DEF DecodeInv
<1> QED
  BY <1>1, DecodeInvariance, PTL

\* Where the text fits the context, every fast mode implements decoding one byte
\* at a time: a forward is a stutter of it, a yield its turn, a return its return.
THEOREM FastIsCanonical == DecodeSpec => CanonicalWhenFits
<1>1. DecodeInit => CanonInit
  BY DEF DecodeInit
<1>2. DecodeInv /\ [DecodeNext]_decodeVars => [Fits => CanonNext]_canonVars
  <2> SUFFICES ASSUME DecodeInv, [DecodeNext]_decodeVars, Fits PROVE [CanonNext]_canonVars
    OBVIOUS
  <2>1. CASE KvForward \/ LookForward \/ VerifyForward \/ UNCHANGED decodeVars
    BY <2>1 DEF KvForward, LookForward, VerifyForward, decodeVars
  <2>2. CASE Yield
    BY <2>2, YieldIsCanonical DEF CanonNext
  <2>3. CASE KvStop \/ LookStop \/ VerifyStop
    <3>1. ahead = <<>> /\ ~ended /\ ended' = TRUE /\ UNCHANGED <<req, out>>
      BY <2>3 DEF KvStop, LookStop, VerifyStop, Ready, Return
    <3>2. seen = out
      BY <3>1, ConcatEmptySeq DEF DecodeInv, DecodeTypeOK, LockStep
    <3>3. May(out) = {} \/ (req.mode = "kv" /\ Len(Context) >= SeqMax)
      BY <2>3, <3>2 DEF KvStop, LookStop, VerifyStop, Ready
    <3> QED
      BY <3>1, <3>3 DEF CanonStop, CanonNext
  <2> QED
    BY <2>1, <2>2, <2>3 DEF DecodeNext
<1> QED
  BY <1>1, <1>2, DecodeInvariance, PTL DEF DecodeSpec, CanonicalWhenFits
=============================================================================
