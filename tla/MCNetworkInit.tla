----------------------------- MODULE MCNetworkInit -----------------------------
(***************************************************************************)
(* A small instance of NetworkInit for TLC: octets that a contiguous mask  *)
(* can have, and one that none can.                                        *)
(***************************************************************************)
EXTENDS NetworkInit

MaskOctets == {0, 127, 128, 240, 255}
=============================================================================
