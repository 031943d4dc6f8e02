---------------------------- MODULE MCThreadPool ----------------------------
(* ThreadPool on small pools: the work functions are two model values.     *)
EXTENDS ThreadPool, TLC

CONSTANTS mv, mm    \* hybrid_mv_worker, hybrid_mm_worker

MCFns == {mv, mm}
MCSym == Permutations(MCFns)
=============================================================================
