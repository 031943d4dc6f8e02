--------------------------- MODULE MCTrainerRunner ---------------------------
(* TrainerRunner with three start() calls and up to two stop() calls.      *)
EXTENDS TrainerRunner, TLC

CONSTANTS a, b, c, s1, s2

MCSym == Permutations({a, b, c})
=============================================================================
