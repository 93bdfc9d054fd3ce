------------------------------ MODULE ByteStream ------------------------------
(***************************************************************************)
(* What one connection promises to the threads that share its handle: a    *)
(* stream of bytes in each direction that comes up once, that loses        *)
(* nothing unless the connection is broken, and whose calls report what    *)
(* has become of it.  A handle got by accept may be handed out before it   *)
(* is up.  AsyncSocket implements it.                                      *)
(***************************************************************************)
EXTENDS Naturals

CONSTANTS
  Threads,  \* threads that call read, write, close, ...
  Capacity  \* bytes held on the way in each direction

VARIABLES
  phase,   \* "fresh", "half" (a peer has asked), "up" or "down"
  outq,    \* bytes accepted from writers that the peer has not confirmed
  inq,     \* bytes from the peer that no reader has taken
  eof,     \* has the peer ended its stream?
  broken,  \* has the connection been broken?
  ret      \* "busy" during a call, otherwise the result of the last one

vars == <<phase, outq, inq, eof, broken, ret>>
streams == <<outq, inq, eof, broken>>

Init ==
  /\ phase = "fresh"
  /\ outq = 0
  /\ inq = 0
  /\ eof = FALSE
  /\ broken = FALSE
  /\ ret = [t \in Threads |-> "none"]

Call(t) ==
  /\ ret' = [ret EXCEPT ![t] = "busy"]
  /\ UNCHANGED <<phase, streams>>

(* A peer asks for the connection, and may withdraw.                        *)
Ask ==
  /\ phase = "fresh"
  /\ phase' = "half"
  /\ UNCHANGED <<streams, ret>>

Withdraw ==
  /\ phase = "half"
  /\ phase' = "fresh"
  /\ broken' = TRUE
  /\ UNCHANGED <<outq, inq, eof, ret>>

(* The connection comes up, once; the peer may have ended its stream.       *)
Up ==
  /\ phase \in {"fresh", "half"}
  /\ phase' = "up"
  /\ eof' \in BOOLEAN
  /\ UNCHANGED <<outq, inq, broken, ret>>

(* An orderly end: everything that was written has arrived.                 *)
Down ==
  /\ phase \in {"half", "up"}
  /\ outq = 0
  /\ phase' = "down"
  /\ UNCHANGED <<streams, ret>>

Break ==
  /\ broken' = TRUE
  /\ phase' \in {phase, "down"}
  /\ UNCHANGED <<outq, inq, eof, ret>>

Arrive ==
  /\ phase # "fresh" /\ ~eof /\ inq < Capacity
  /\ inq' = inq + 1
  /\ UNCHANGED <<phase, outq, eof, broken, ret>>

PeerEnds ==
  /\ phase # "fresh"
  /\ eof' = TRUE
  /\ UNCHANGED <<phase, outq, inq, broken, ret>>

Confirm ==
  /\ phase = "up" /\ outq > 0
  /\ outq' = outq - 1
  /\ UNCHANGED <<phase, inq, eof, broken, ret>>

Return(t, r) ==
  /\ ret[t] = "busy"
  /\ ret' = [ret EXCEPT ![t] = r]

Send(t) ==
  /\ phase = "up"
  /\ \E n \in 1..(Capacity - outq) : outq' = outq + n
  /\ Return(t, "ok")
  /\ UNCHANGED <<phase, inq, eof, broken>>

Take(t) ==
  /\ \E n \in 1..inq : inq' = inq - n
  /\ Return(t, "ok")
  /\ UNCHANGED <<phase, outq, eof, broken>>

(* What a call may report, and when.                                        *)
Report(t) ==
  /\ \/ phase = "up" /\ Return(t, "connected")
     \/ phase # "up" /\ Return(t, "err")
     \/ phase = "down" /\ Return(t, "closed")
     \/ eof /\ inq = 0 /\ \E r \in {"eof", "zero"} : Return(t, r)
     \/ phase \in {"fresh", "half"} /\ \E r \in {"eof", "zero"} : Return(t, r)
     \/ Return(t, "accepted")
  /\ UNCHANGED <<phase, streams>>

(* peer_addr does not wait.                                                 *)
PeerAddr(t) ==
  /\ ret[t] # "busy"
  /\ \E r \in {"addr", "noaddr"} : ret' = [ret EXCEPT ![t] = r]
  /\ UNCHANGED <<phase, streams>>

Next ==
  \/ Ask \/ Withdraw \/ Up \/ Down \/ Break \/ Arrive \/ PeerEnds \/ Confirm
  \/ \E t \in Threads : Call(t) \/ Send(t) \/ Take(t) \/ Report(t) \/ PeerAddr(t)

Spec == Init /\ [][Next]_vars
=============================================================================
