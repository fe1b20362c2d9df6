----------------------------- MODULE MCLifecycle -----------------------------
(* Three processors, every step may fail.                                  *)
EXTENDS Lifecycle

CONSTANTS c1, c2, c3

EveryStep == LoadSteps \cup CpuSteps
=============================================================================
