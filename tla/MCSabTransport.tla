--------------------------- MODULE MCSabTransport ---------------------------
(* Model-checking instance of SabTransport. *)
EXTENDS SabTransportInv
=============================================================================
