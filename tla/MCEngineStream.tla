--------------------------- MODULE MCEngineStream ---------------------------
(* EngineStream with three request threads.                                *)
EXTENDS EngineStream, TLC

CONSTANTS r1, r2, r3

MCSym == Permutations({r1, r2, r3})
=============================================================================
