------------------------------- MODULE MCLocks -------------------------------
(* Two processors.                                                         *)
EXTENDS Locks

CONSTANTS c1, c2
=============================================================================
