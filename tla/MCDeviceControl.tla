--------------------------- MODULE MCDeviceControl ---------------------------
(* Two clients, two processors.                                            *)
EXTENDS DeviceControl

CONSTANTS c1, c2, k1, k2, f1, f2

Asked == {{}, {"read"}, {"read", "execute"}}
=============================================================================
