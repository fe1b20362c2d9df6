---------------------------- MODULE MCMemoryTypes ----------------------------
(* Three regions: the numbers are in the configuration.                    *)
EXTENDS MemoryTypes
=============================================================================
