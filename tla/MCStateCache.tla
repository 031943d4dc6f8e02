---------------------------- MODULE MCStateCache ----------------------------
(* StateCache with two engines and three prompts, one an extension of      *)
(* another; two prefixes of one length share a hash.                       *)
EXTENDS StateCache, TLC

CONSTANTS e1, e2

MCPrompts == {<<1>>, <<1, 2>>, <<2, 2>>}
MCName == [k \in (0 .. 1) \X {<<1>>, <<1, 2>>, <<2>>, <<2, 2>>} |->
  IF k[2] = <<2, 2>> THEN <<k[1], <<1, 2>>>> ELSE k]
MCEngines == Permutations(Engines)
=============================================================================
