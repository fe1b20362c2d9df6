--------------------------- MODULE MCPoolManager ---------------------------
(* A small instance of PoolManager for TLC.                                 *)
EXTENDS PoolManager

CONSTANTS s1, h1, k1, k2

OnlyHooks == HookBlocks
=============================================================================
