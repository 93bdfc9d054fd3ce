-------------------------------- MODULE MCDhcp --------------------------------
(***************************************************************************)
(* A small instance of Dhcp for TLC.                                       *)
(***************************************************************************)
EXTENDS Dhcp

CONSTANTS a1, a2, r1, r2

TwoCidrs == {a1, a2}
TwoRouters == {r1, r2}
=============================================================================
