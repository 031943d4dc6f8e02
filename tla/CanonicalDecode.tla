-------------------------- MODULE CanonicalDecode --------------------------
(***************************************************************************)
(* Greedy decoding one byte at a time, as Brain.stream does it: a forward  *)
(* over the last bytes of the context, the best byte the constraint        *)
(* allows, append.  It is what the fast modes of FastDecode promise to     *)
(* emit.                                                                   *)
(*                                                                         *)
(* Best(m, w, A) is the byte of A whose logit after the window w is the    *)
(* highest: nothing else enters when decoding is greedy.  The constraint   *)
(* and the repetition ban are one Grammar: what it allows, and when it is  *)
(* complete, depend on the bytes emitted so far.                           *)
(***************************************************************************)
EXTENDS Integers, Sequences

CONSTANTS
  Byte, Model, Grammar,
  Best(_, _, _),   \* a model's choice, after a window, among some bytes
  Allowed(_, _),   \* the bytes a grammar allows after those emitted
  Complete(_, _),  \* is the output complete
  SeqMax,          \* the model's context length
  MaxNew,          \* the bytes asked for
  Requests         \* mode, model, grammar and prompt

VARIABLES
  req,   \* the request
  out,   \* the bytes emitted
  ended  \* has the generator returned

canonVars == <<req, out, ended>>

Modes == {"lookahead", "kv", "verify"}
UpTo(n) == UNION {[1 .. k -> Byte] : k \in 0 .. n}

ASSUME DecodeAssumption ==
  /\ SeqMax \in Nat /\ SeqMax > 1 /\ MaxNew \in Nat /\ MaxNew > 0
  /\ \A r \in Requests : /\ r.mode \in Modes /\ r.model \in Model /\ r.grammar \in Grammar
                         /\ r.prompt \in Seq(Byte) /\ r.prompt # <<>>
ASSUME ChoiceAssumption ==
  \A m \in Model, w \in UpTo(SeqMax), A \in SUBSET Byte : A # {} => Best(m, w, A) \in A

\* The last n of a sequence.
Last(s, n) == IF Len(s) <= n THEN s ELSE SubSeq(s, Len(s) - n + 1, Len(s))

Text == Last(req.prompt, SeqMax - 1)
Context == Text \o out
May(s) == Allowed(req.grammar, s) \cap Byte
OverLate(s) == Complete(req.grammar, s) \/ Len(s) > MaxNew

Over(s) == Complete(req.grammar, s) \/ Len(s) = MaxNew

\* The bytes one forward sees: stream keeps one place free, the decoding
\* over head 0 alone, which verify is measured by, does not.
Width == IF req.mode = "verify" THEN SeqMax ELSE SeqMax - 1
Window == Last(Context, Width)

CanonInit == req \in Requests /\ out = <<>> /\ ended = FALSE

\* One turn of stream's loop.
CanonEmit ==
  /\ ~ended /\ May(out) # {}
  /\ out' = Append(out, Best(req.model, Window, May(out)))
  /\ ended' = Over(out')
  /\ UNCHANGED req

\* The constraint allows no byte; or, with a cache, the context is full.
CanonStop ==
  /\ ~ended
  /\ May(out) = {} \/ (req.mode = "kv" /\ Len(Context) >= SeqMax)
  /\ ended' = TRUE /\ UNCHANGED <<req, out>>

CanonNext == CanonEmit \/ CanonStop
=============================================================================
