------------------------------ MODULE MCExecutor ------------------------------
(***************************************************************************)
(* Small instances of Executor for TLC.                                    *)
(***************************************************************************)
EXTENDS Executor, TLC

CONSTANTS t1, t2, r1, r2, r3

OneThread == {t1}
TwoThreads == {t1, t2}
TwoRequests == {r1, r2}
ThreeRequests == {r1, r2, r3}

AcceptOnly == {"accept"}
AcceptAndRead == {"accept", "read"}
CloseOnly == {"close"}
AllCalls == {"connect", "accept", "close", "read", "write"}

Symmetric == Permutations(Threads) \cup Permutations(Requests)
=============================================================================
