----------------------------- MODULE FastDecode -----------------------------
(***************************************************************************)
(* The fast modes of the PyTorch backend, Brain.stream_fast: with a cache  *)
(* (kv), with bytes drafted from an earlier place of the context           *)
(* (lookahead), with bytes drafted by the model's further heads (verify).  *)
(* One forward chooses the bytes ahead, which the generator then yields    *)
(* one by one; the constraint, and the repetition controller with it, has  *)
(* been stepped through the bytes seen.                                    *)
(***************************************************************************)
EXTENDS CanonicalDecode

CONSTANTS
  NgramLen,  \* LOOKAHEAD_NGRAM
  DraftMax,  \* LOOKAHEAD_DRAFT
  Heads      \* the model's prediction heads, n_predict

ASSUME FastAssumption ==
  NgramLen \in Nat \ {0} /\ DraftMax \in Nat /\ Heads \in Nat \ {0} /\ Heads <= SeqMax

VARIABLES
  ahead,  \* the bytes chosen and not yet yielded
  seen    \* the bytes the constraint was stepped through

decodeVars == <<canonVars, ahead, seen>>

\* The first n of a sequence; the least of two numbers.
First(s, n) == SubSeq(s, 1, n)
Least(a, b) == IF a <= b THEN a ELSE b

DecodeInit == CanonInit /\ ahead = <<>> /\ seen = <<>>

Ready(mode) == ~ended /\ ahead = <<>> /\ req.mode = mode
Return == ended' = TRUE /\ UNCHANGED <<req, out, ahead, seen>>

-----------------------------------------------------------------------------
(* kv: _stream_fast_kv                                                     *)

KvForward ==
  /\ Ready("kv") /\ Len(Context) < SeqMax /\ May(seen) # {}
  /\ LET b == Best(req.model, Context, May(seen))
     IN  ahead' = <<b>> /\ seen' = Append(seen, b)
  /\ UNCHANGED canonVars

KvStop == Ready("kv") /\ (Len(Context) >= SeqMax \/ May(seen) = {}) /\ Return

-----------------------------------------------------------------------------
(* lookahead: _stream_fast_lookahead                                       *)

\* _ngram_draft: what followed the latest earlier place of the last bytes.
Places(ctx) == {j \in 1 .. Len(ctx) - NgramLen :
                  SubSeq(ctx, j, j + NgramLen - 1) = Last(ctx, NgramLen)}
NgramDraft(ctx, cap) ==
  IF cap <= 0 \/ Places(ctx) = {} THEN <<>>
  ELSE LET j == CHOOSE p \in Places(ctx) : \A q \in Places(ctx) : q <= p
           from == j + NgramLen
       IN  SubSeq(ctx, from, Least(from + cap - 1, Len(ctx)))

\* The draft that one forward over the window and the draft can hold.
Draft ==
  LET d == NgramDraft(Context, Least(DraftMax, MaxNew - Len(out) - 1))
  IN  First(d, Least(Len(d), SeqMax - Len(Window)))

\* The choice at each place of that forward, under the bytes committed before.
Ref(d, i) == Best(req.model, Window \o First(d, i), May(seen \o First(d, i)))
May1(d, i) == May(seen \o First(d, i)) # {}

\* Is place i reached: was the draft right so far, and not complete.
Reached(d, i) ==
  \A j \in 0 .. i - 1 : May1(d, j) /\ Ref(d, j) = d[j + 1] /\ ~Complete(req.grammar, seen \o First(d, j + 1))

\* Mutant: a drafted byte is kept though the model chose another.
AcceptsUnmatched(d, n) == \A i \in 0 .. n - 1 : i <= Len(d) /\ May1(d, i)

Accepts(d, n) == \A i \in 0 .. n - 1 : i <= Len(d) /\ Reached(d, i) /\ May1(d, i)

\* Mutant: the constraint stays stepped through a draft that was turned down.
LookForwardUnrestored ==
  /\ Ready("lookahead") /\ May(seen) # {}
  /\ \E n \in 1 .. Len(Draft) + 1 :
       /\ Accepts(Draft, n) /\ ~Accepts(Draft, n + 1)
       /\ ahead' = [i \in 1 .. n |-> Ref(Draft, i - 1)]
  /\ seen' = seen \o Draft
  /\ UNCHANGED canonVars

LookForward ==
  /\ Ready("lookahead") /\ May(seen) # {}
  /\ \E n \in 1 .. Len(Draft) + 1 :
       /\ Accepts(Draft, n) /\ ~Accepts(Draft, n + 1)
       /\ ahead' = [i \in 1 .. n |-> Ref(Draft, i - 1)]
       /\ seen' = seen \o ahead'
  /\ UNCHANGED canonVars

LookStop == Ready("lookahead") /\ May(seen) = {} /\ Return

-----------------------------------------------------------------------------
(* verify: _stream_fast_mtp_verify                                         *)

\* What the further heads may draft after b: any bytes the grammar allows; it is
\* stepped through them, and put back.
HeadDrafts(b) ==
  {d \in UNION {[1 .. n -> Byte] : n \in 1 .. Heads} :
     /\ d[1] = b
     /\ \A i \in 2 .. Len(d) : d[i] \in May(seen \o First(d, i - 1))
     /\ Len(d) < Heads => May(seen \o d) = {}}

\* The second forward, and head 0's own choice after the first i drafts: the
\* highest logit there is, whatever the constraint allows.
Verified(d, i) ==
  LET v == Last(Window \o First(d, Len(d) - 1), SeqMax)
  IN  Best(req.model, First(v, Len(v) - Len(d) + i + 1), Byte)

Agrees(d, n) == \A i \in 1 .. n - 1 : d[i + 1] = Verified(d, i)

VerifyForward ==
  /\ Ready("verify") /\ May(seen) # {}
  /\ \E d \in HeadDrafts(Best(req.model, Window, May(seen))) :
       \E n \in 1 .. Len(d) :
         /\ Agrees(d, n)
         /\ IF n = Len(d) THEN ahead' = d
            ELSE ~Agrees(d, n + 1) /\ ahead' = Append(First(d, n), Verified(d, n))
  /\ UNCHANGED <<canonVars, seen>>

VerifyStop == Ready("verify") /\ May(seen) = {} /\ Return

-----------------------------------------------------------------------------
\* One yield.  verify steps the constraint here, the others did when they chose.
Yield ==
  /\ ahead # <<>>
  /\ out' = Append(out, Head(ahead))
  /\ seen' = IF req.mode = "verify" THEN Append(seen, Head(ahead)) ELSE seen
  /\ ended' = Over(out')
  /\ ahead' = IF ended' THEN <<>> ELSE Tail(ahead)
  /\ UNCHANGED req

DecodeNext ==
  \/ KvForward \/ KvStop \/ LookForward \/ LookStop \/ VerifyForward \/ VerifyStop \/ Yield

DecodeSpec == DecodeInit /\ [][DecodeNext]_decodeVars

-----------------------------------------------------------------------------
(* Properties                                                              *)

DecodeTypeOK ==
  /\ req \in Requests
  /\ out \in Seq(Byte) /\ Len(out) <= MaxNew
  /\ ended \in BOOLEAN
  /\ ahead \in Seq(Byte) /\ seen \in Seq(Byte)

\* The constraint is stepped through exactly what is, or is about to be, emitted:
\* a draft that is turned down leaves no mark on it (stream_fast's snapshot and
\* restore; lookahead's "advance in lockstep with the bytes we keep").
LockStep == seen = IF req.mode = "verify" THEN out ELSE out \o ahead

\* The window has not slid by the time the last byte is chosen, and the verifier,
\* which knows of no constraint, meets none.
Fits ==
  CASE req.mode = "lookahead" -> Len(Text) + MaxNew <= SeqMax
    [] req.mode = "verify" -> /\ Len(Text) + MaxNew + Heads <= SeqMax + 2
                              /\ \A s \in UpTo(MaxNew + Heads) : May(s) = Byte
    [] OTHER -> TRUE

\* Where it fits, a fast mode emits byte for byte what decoding one byte at a time
\* would: whatever is drafted, by an earlier place of the text or by the further
\* heads, decides only how many forwards it takes.
CanonicalWhenFits == CanonInit /\ [][Fits => CanonNext]_canonVars

\* The constraint is never stepped with a byte it forbids, the window slid or not;
\* verify's correction is the one byte nobody asked it about (OnlyLegalInVerify).
OnlyLegal == req.mode # "verify" => \A i \in 1 .. Len(seen) : seen[i] \in May(First(seen, i - 1))
OnlyLegalInVerify == \A i \in 1 .. Len(seen) : seen[i] \in May(First(seen, i - 1))

\* hybrid_routes.py:317-321 and inference_brain.md: the chat's fast path emits under
\* greedy what stream emits, its window "mirrors stream()'s".  With the context full
\* a drafted place is judged over SeqMax bytes, stream's over SeqMax - 1.
LookaheadIsStream == CanonInit /\ [][req.mode = "lookahead" => CanonNext]_canonVars

-----------------------------------------------------------------------------
(* Why: what is chosen ahead is what canonical decoding is going to emit.  *)

\* The generator returns only once all that was chosen is emitted.
EndsLast ==
  /\ IF ended THEN ahead = <<>> ELSE Len(out) < MaxNew
  /\ req.mode # "verify" =>
       /\ Len(out) + Len(ahead) <= MaxNew
       /\ \A i \in 1 .. Len(ahead) - 1 : ~Complete(req.grammar, out \o First(ahead, i))

\* Each byte chosen ahead is the canonical choice once those before it are emitted.
Foreseen ==
  \A i \in 0 .. Len(ahead) - 1 :
    LET s == out \o First(ahead, i)
    IN  May(s) # {} /\ ahead[i + 1] = Best(req.model, Last(Text \o s, Width), May(s))

DecodeInv == DecodeTypeOK /\ LockStep /\ OnlyLegal /\ EndsLast /\ (Fits => Foreseen)
=============================================================================
