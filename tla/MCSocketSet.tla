----------------------------- MODULE MCSocketSet -----------------------------
(***************************************************************************)
(* Small instances of SocketSet for TLC.                                   *)
(***************************************************************************)
EXTENDS SocketSet, TLC

CONSTANTS t1, t2, c1, c2

TwoThreads == {t1, t2}
TwoClients == {c1, c2}

Symmetric == Permutations(Threads) \cup Permutations(Clients)
=============================================================================
