------------------------------- MODULE MCDevice -------------------------------
(***************************************************************************)
(* A small instance of Device for TLC.                                     *)
(***************************************************************************)
EXTENDS Device

CONSTANTS r1, r2, x1, x2

TwoRx == {r1, r2}
TwoTx == {x1, x2}
=============================================================================
