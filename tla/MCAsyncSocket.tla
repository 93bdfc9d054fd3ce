---------------------------- MODULE MCAsyncSocket ----------------------------
(***************************************************************************)
(* Small instances of AsyncSocket for TLC.                                 *)
(***************************************************************************)
EXTENDS AsyncSocket

CONSTANTS t1, t2

TwoThreads == {t1, t2}
=============================================================================
