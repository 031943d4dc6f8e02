------------------------------ MODULE MCDecode ------------------------------
(* Two bytes, models that look at the last byte and how many there are.      *)
EXTENDS FastDecode

CONSTANTS MCModes, MCLengths

MCModel == [(0 .. 1) \X Byte -> Byte]
MCBest(m, w, A) == LET b == m[Len(w) % 2, w[Len(w)]]
                   IN  IF w # <<>> /\ b \in A THEN b ELSE CHOOSE c \in A : TRUE

\* No constraint; never the same byte twice; nothing after two; complete after two.
MCGrammar == {"free", "alternate", "stuck", "two"}
MCAllowed(g, s) ==
  CASE g = "alternate" /\ s # <<>> -> Byte \ {s[Len(s)]}
    [] g = "stuck" /\ Len(s) >= 2 -> {}
    [] OTHER -> Byte
MCComplete(g, s) == g = "two" /\ Len(s) >= 2

MCRequests == [mode : MCModes, model : MCModel, grammar : MCGrammar,
               prompt : UNION {[1 .. n -> Byte] : n \in MCLengths}]
=============================================================================
