----------------------------- MODULE AsyncSocket -----------------------------
(***************************************************************************)
(* One socket of hermit-sys/src/net/mod.rs: the futures of AsyncSocket     *)
(* (connect, accept, read, write, close) that application threads poll on  *)
(* the same handle, the TCP state they look at, and the two waker slots    *)
(* through which the socket wakes them.                                    *)
(*                                                                         *)
(* Every AsyncSocket::with is one step, because it holds the NIC mutex.    *)
(* The executor is reduced to what Executor promises: a thread in block_on *)
(* sleeps after a Pending poll until its waker is called, or until a timer *)
(* of the socket ends its sleep; a thread in poll_on keeps polling.        *)
(* smoltcp's TcpSocket (external) is modelled from the states mod.rs       *)
(* matches on; queues are counted, not stored.  set_keep_alive, which      *)
(* accept and peer_addr call, has no effect on this state.                 *)
(***************************************************************************)
EXTENDS Naturals, WakerRegistration

CONSTANTS
  Threads,   \* application threads that share the handle
  Capacity   \* bytes that each of the two buffers holds (65535 in the code)

ASSUME SocketAssumption ==
  /\ None \notin Threads
  /\ Capacity \in Nat \ {0}

VARIABLES
  handle,    \* "none", "opening", "open" or "lost": who can name the socket
  op,        \* where each thread is; "idle" between calls
  asleep,    \* is the thread blocked until it is woken?
  res,       \* how the thread's last call ended
  state,     \* TcpState
  peer,      \* is remote_endpoint set?
  rxWaker,   \* the thread registered by register_recv_waker
  txWaker,   \* the thread registered by register_send_waker
  send_queue, \* bytes taken by send_slice and not yet acknowledged by the peer
  recv_queue, \* bytes received and not yet taken by recv_slice
  fin,       \* has the peer's FIN arrived?
  reset      \* has the connection been reset?

callVars == <<handle, op, asleep, res>>
wakers == <<rxWaker, txWaker>>
tcpVars == <<state, peer, fin, reset>>
dataVars == <<send_queue, recv_queue>>
vars == <<callVars, wakers, tcpVars, dataVars>>

(* The states in which read, write and close give up.                       *)
Finished == {"FinWait1", "FinWait2", "Closed", "Closing", "TimeWait"}

is_active == state \notin {"Closed", "TimeWait", "Listen"}
may_recv == state \in {"Established", "FinWait1", "FinWait2"} \/ recv_queue > 0
can_send == state \in {"Established", "CloseWait"} /\ send_queue < Capacity

-----------------------------------------------------------------------------
(* What the poll_fn of each operation returns in the present state.         *)

(* A mutant of ConnectPoll: a half-open connection counts as connected.     *)
ConnectPollHalfOpen ==
  IF state \in {"Closed", "TimeWait", "Listen"} THEN "err"
  ELSE IF state = "SynSent" THEN "pending" ELSE "ready"

ConnectPoll ==
  IF state \in {"Closed", "TimeWait", "Listen"} THEN "err"
  ELSE IF state \in {"SynSent", "SynReceived"} THEN "pending" ELSE "ready"

AcceptPoll ==
  IF is_active THEN "ready"
  ELSE IF state \in {"Closed", "Closing", "FinWait1", "FinWait2"} THEN "err" ELSE "pending"

(* A mutant of ReadPoll: the end of the stream is looked at first.          *)
ReadPollEofFirst ==
  IF state \in Finished THEN "err"
  ELSE IF fin THEN "eof"
  ELSE IF recv_queue > 0 THEN "ready" ELSE "pending"

ReadPoll ==
  IF state \in Finished THEN "err"
  ELSE IF recv_queue > 0 THEN "ready"
  ELSE IF ~may_recv THEN "eof" ELSE "pending"

(* A mutant of WritePoll: nothing is written after the peer's FIN.          *)
WritePollAfterFin ==
  IF state \in Finished \cup {"CloseWait"} THEN "err"
  ELSE IF ~may_recv THEN "eof"
  ELSE IF can_send THEN "ready" ELSE "pending"

WritePoll ==
  IF state \in Finished THEN "err"
  ELSE IF ~may_recv THEN "eof"
  ELSE IF can_send THEN "ready" ELSE "pending"

(* A mutant of ClosePoll: close does not wait for the send queue.           *)
ClosePollAtOnce == IF state \in Finished THEN "err" ELSE "ready"

ClosePoll ==
  IF state \in Finished THEN "err"
  ELSE IF send_queue > 0 THEN "pending" ELSE "ready"

(* A mutant of ClosingPoll: close waits for the end of the connection.      *)
ClosingPollClosed == IF state = "Closed" THEN "ready" ELSE "pending"

ClosingPoll == IF state \in Finished THEN "ready" ELSE "pending"

Outcome(o) ==
  CASE o = "connect" -> ConnectPoll
    [] o = "accept" -> AcceptPoll
    [] o = "read" -> ReadPoll
    [] o = "write" -> WritePoll
    [] o = "close" -> ClosePoll
    [] o = "closing" -> ClosingPoll
    [] OTHER -> "none"

BlockOnOps == {"connect", "accept", "close", "closing"}
RecvOps == {"accept", "read"}

(* Calling a set of wakers.                                                 *)
Woken(T) == [t \in Threads |-> asleep[t] /\ t \notin T]

(* TcpSocket::set_state: the new state, and both wakers are called.         *)
SetState(s) ==
  /\ state' = s
  /\ asleep' = Woken(Taken(rxWaker) \cup Taken(txWaker))
  /\ rxWaker' = None
  /\ txWaker' = None

Return(t, r) ==
  /\ op' = [op EXCEPT ![t] = "idle"]
  /\ res' = [res EXCEPT ![t] = r]

-----------------------------------------------------------------------------
(* sys_tcp_stream_connect and sys_tcp_listener_accept: AsyncSocket::new.    *)
Open(t, o) ==
  /\ op[t] = "idle"
  /\ handle = "none"
  /\ handle' = "opening"
  /\ op' = [op EXCEPT ![t] = o]
  /\ UNCHANGED <<asleep, res, wakers, tcpVars, dataVars>>

(* s.connect: the SYN will be sent.                                         *)
Connect(t) ==
  /\ op[t] = "connecting"
  /\ SetState("SynSent")
  /\ peer' = TRUE
  /\ op' = [op EXCEPT ![t] = "connect"]
  /\ UNCHANGED <<handle, res, fin, reset, dataVars>>

(* s.listen.                                                                *)
Listen(t) ==
  /\ op[t] = "listening"
  /\ SetState("Listen")
  /\ op' = [op EXCEPT ![t] = "accept"]
  /\ UNCHANGED <<handle, res, peer, fin, reset, dataVars>>

(* An address that does not parse, or port 0: the call fails and nobody     *)
(* gets the handle.                                                         *)
OpenFails(t) ==
  /\ op[t] \in {"connecting", "listening"}
  /\ Return(t, "err")
  /\ handle' = "lost"
  /\ UNCHANGED <<asleep, wakers, tcpVars, dataVars>>

(* sys_tcp_stream_read, _write, _close and _shutdown(1 or 2) on the handle. *)
Call(t, o) ==
  /\ op[t] = "idle"
  /\ handle = "open"
  /\ op' = [op EXCEPT ![t] = o]
  /\ UNCHANGED <<handle, asleep, res, wakers, tcpVars, dataVars>>

(* sys_tcp_stream_peer_addr.                                                *)
PeerAddr(t) ==
  /\ op[t] = "idle"
  /\ handle = "open"
  /\ res' = [res EXCEPT ![t] = IF peer THEN "addr" ELSE "noaddr"]
  /\ UNCHANGED <<handle, op, asleep, wakers, tcpVars, dataVars>>

(* register_recv_waker or register_send_waker, then the thread sleeps if it *)
(* is in block_on; a waker that is replaced is called.                      *)
Registered(t) ==
  IF op[t] \in RecvOps
  THEN /\ rxWaker' = Stored(rxWaker, t)
       /\ asleep' = [Woken(Replaced(rxWaker, t)) EXCEPT ![t] = op[t] \in BlockOnOps]
       /\ UNCHANGED txWaker
  ELSE /\ txWaker' = Stored(txWaker, t)
       /\ asleep' = [Woken(Replaced(txWaker, t)) EXCEPT ![t] = op[t] \in BlockOnOps]
       /\ UNCHANGED rxWaker

PollPending(t) ==
  /\ ~asleep[t]
  /\ Outcome(op[t]) = "pending"
  /\ Registered(t)
  /\ UNCHANGED <<handle, op, res, tcpVars, dataVars>>

(* block_on's timeout, which only connect passes: checked after a Pending   *)
(* poll; the socket stays in the set but nobody can name it.                *)
ConnectTimeout(t) ==
  /\ ~asleep[t]
  /\ op[t] = "connect"
  /\ ConnectPoll = "pending"
  /\ txWaker' = Stored(txWaker, t)
  /\ asleep' = Woken(Replaced(txWaker, t))
  /\ Return(t, "err")
  /\ handle' = "lost"
  /\ UNCHANGED <<rxWaker, tcpVars, dataVars>>

PollErr(t) ==
  /\ ~asleep[t]
  /\ Outcome(op[t]) = "err"
  /\ Return(t, "err")
  /\ handle' = IF handle = "opening" THEN "lost" ELSE handle
  /\ UNCHANGED <<asleep, wakers, tcpVars, dataVars>>

(* read and write return Ok(0).                                             *)
PollZero(t) ==
  /\ Outcome(op[t]) = "eof"
  /\ Return(t, IF op[t] = "read" THEN "eof" ELSE "zero")
  /\ UNCHANGED <<handle, asleep, wakers, tcpVars, dataVars>>

ConnectReady(t) ==
  /\ ~asleep[t]
  /\ op[t] = "connect"
  /\ ConnectPoll = "ready"
  /\ Return(t, "connected")
  /\ handle' = "open"
  /\ UNCHANGED <<asleep, wakers, tcpVars, dataVars>>

AcceptReady(t) ==
  /\ ~asleep[t]
  /\ op[t] = "accept"
  /\ AcceptPoll = "ready"
  /\ op' = [op EXCEPT ![t] = "accepted"]
  /\ UNCHANGED <<handle, asleep, res, wakers, tcpVars, dataVars>>

(* accept locks the NIC again, reads remote_endpoint and returns it,        *)
(* whatever has become of the connection meanwhile.                         *)
Accepted(t) ==
  /\ op[t] = "accepted"
  /\ Return(t, "accepted")
  /\ handle' = "open"
  /\ UNCHANGED <<asleep, wakers, tcpVars, dataVars>>

(* A mutant of WriteReady: all bytes are taken, whatever the buffer holds.  *)
WriteReadyOverfull(t) ==
  /\ op[t] = "write"
  /\ WritePoll = "ready"
  /\ send_queue' = send_queue + Capacity
  /\ Return(t, "ok")
  /\ UNCHANGED <<handle, asleep, wakers, tcpVars, recv_queue>>

(* recv_slice and send_slice: as much as there is, and as the buffer takes. *)
ReadReady(t) ==
  /\ op[t] = "read"
  /\ ReadPoll = "ready"
  /\ \E n \in 1..recv_queue : recv_queue' = recv_queue - n
  /\ Return(t, "ok")
  /\ UNCHANGED <<handle, asleep, wakers, tcpVars, send_queue>>

WriteReady(t) ==
  /\ op[t] = "write"
  /\ WritePoll = "ready"
  /\ \E n \in 1..(Capacity - send_queue) : send_queue' = send_queue + n
  /\ Return(t, "ok")
  /\ UNCHANGED <<handle, asleep, wakers, tcpVars, recv_queue>>

(* s.close: the state that follows each state.                              *)
CloseNext ==
  CASE state \in {"Listen", "SynSent"} -> "Closed"
    [] state \in {"SynReceived", "Established"} -> "FinWait1"
    [] state = "CloseWait" -> "LastAck"
    [] OTHER -> state

(* The first poll_fn of close is Ready, the second follows.                 *)
CloseReady(t) ==
  /\ ~asleep[t]
  /\ op[t] = "close"
  /\ ClosePoll = "ready"
  /\ IF CloseNext = state THEN UNCHANGED <<state, asleep, wakers>> ELSE SetState(CloseNext)
  /\ op' = [op EXCEPT ![t] = "closing"]
  /\ UNCHANGED <<handle, res, peer, fin, reset, dataVars>>

ClosingReady(t) ==
  /\ ~asleep[t]
  /\ op[t] = "closing"
  /\ ClosingPoll = "ready"
  /\ Return(t, "closed")
  /\ UNCHANGED <<handle, asleep, wakers, tcpVars, dataVars>>

(* The sleep of block_on is timed while the socket has a timer: all but     *)
(* accept (Executor!SleepIsTimed).                                          *)
SleepEnds(t) ==
  /\ asleep[t]
  /\ op[t] # "accept"
  /\ asleep' = [asleep EXCEPT ![t] = FALSE]
  /\ UNCHANGED <<handle, op, res, wakers, tcpVars, dataVars>>

-----------------------------------------------------------------------------
(* smoltcp's TcpSocket receives a segment (external), under the NIC mutex.  *)
Handshake ==
  /\ \/ state = "Listen" /\ SetState("SynReceived")
     \/ state = "SynSent" /\ SetState("SynReceived")
     \/ state \in {"SynSent", "SynReceived"} /\ SetState("Established")
  /\ peer' = TRUE
  /\ UNCHANGED <<handle, op, res, fin, reset, dataVars>>

RecvData ==
  /\ state \in {"Established", "FinWait1", "FinWait2"}
  /\ recv_queue < Capacity
  /\ recv_queue' = recv_queue + 1
  /\ asleep' = Woken(Taken(rxWaker))
  /\ rxWaker' = None
  /\ UNCHANGED <<handle, op, res, txWaker, tcpVars, send_queue>>

AckData ==
  /\ send_queue > 0
  /\ state \in {"Established", "CloseWait"}
  /\ send_queue' = send_queue - 1
  /\ asleep' = Woken(Taken(txWaker))
  /\ txWaker' = None
  /\ UNCHANGED <<handle, op, res, rxWaker, tcpVars, recv_queue>>

AckFin ==
  /\ \/ state = "FinWait1" /\ SetState("FinWait2")
     \/ state = "Closing" /\ SetState("TimeWait")
     \/ state = "LastAck" /\ SetState("Closed")
  /\ UNCHANGED <<handle, op, res, peer, fin, reset, dataVars>>

RecvFin ==
  /\ \/ state \in {"SynReceived", "Established"} /\ SetState("CloseWait")
     \/ state = "FinWait1" /\ \E s \in {"Closing", "TimeWait"} : SetState(s)
     \/ state = "FinWait2" /\ SetState("TimeWait")
  /\ fin' = TRUE
  /\ UNCHANGED <<handle, op, res, peer, reset, dataVars>>

(* A reset closes the connection; in SynReceived it goes back to Listen.    *)
RecvRst ==
  /\ state \notin {"Closed", "Listen"}
  /\ SetState(IF state = "SynReceived" THEN "Listen" ELSE "Closed")
  /\ peer' = FALSE
  /\ reset' = TRUE
  /\ UNCHANGED <<handle, op, res, fin, dataVars>>

TimeWaitEnds ==
  /\ state = "TimeWait"
  /\ SetState("Closed")
  /\ peer' = FALSE
  /\ UNCHANGED <<handle, op, res, fin, reset, dataVars>>

-----------------------------------------------------------------------------
Init ==
  /\ handle = "none"
  /\ op = [t \in Threads |-> "idle"]
  /\ asleep = [t \in Threads |-> FALSE]
  /\ res = [t \in Threads |-> "none"]
  /\ state = "Closed"
  /\ peer = FALSE
  /\ rxWaker = None
  /\ txWaker = None
  /\ send_queue = 0
  /\ recv_queue = 0
  /\ fin = FALSE
  /\ reset = FALSE

PollStep(t) ==
  \/ Connect(t) \/ Listen(t) \/ OpenFails(t)
  \/ PollPending(t) \/ PollErr(t) \/ PollZero(t)
  \/ ConnectReady(t) \/ AcceptReady(t) \/ Accepted(t)
  \/ ReadReady(t) \/ WriteReady(t) \/ CloseReady(t) \/ ClosingReady(t)

StackStep == Handshake \/ RecvData \/ AckData \/ AckFin \/ RecvFin \/ RecvRst \/ TimeWaitEnds

Next ==
  \/ \E t \in Threads, o \in {"connecting", "listening"} : Open(t, o)
  \/ \E t \in Threads, o \in {"read", "write", "close"} : Call(t, o)
  \/ \E t \in Threads : PollStep(t) \/ ConnectTimeout(t) \/ SleepEnds(t) \/ PeerAddr(t)
  \/ StackStep

Spec == Init /\ [][Next]_vars

(* Threads that are awake are polled; the peer completes the handshake and  *)
(* acknowledges what it is sent (retransmission makes it see it), and does  *)
(* not reset the socket again and again for ever.                           *)
FairSpec ==
  /\ Spec
  /\ \A t \in Threads : WF_vars(PollStep(t))
  /\ WF_vars(Handshake) /\ WF_vars(AckData) /\ WF_vars(AckFin)
  /\ <>[][~RecvRst]_vars

-----------------------------------------------------------------------------
TcpStates == {"Closed", "Listen", "SynSent", "SynReceived", "Established", "FinWait1",
              "FinWait2", "CloseWait", "Closing", "LastAck", "TimeWait"}

(* The calls, the TCP state, the wakers and the byte counts have their      *)
(* types, and no buffer holds more than its capacity.                       *)
TypeOK ==
  /\ handle \in {"none", "opening", "open", "lost"}
  /\ op \in [Threads -> {"idle", "connecting", "listening", "connect", "accept", "accepted",
                         "read", "write", "close", "closing"}]
  /\ asleep \in [Threads -> BOOLEAN]
  /\ res \in [Threads -> {"none", "ok", "err", "eof", "zero", "connected", "accepted",
                          "closed", "addr", "noaddr"}]
  /\ state \in TcpStates
  /\ peer \in BOOLEAN /\ fin \in BOOLEAN /\ reset \in BOOLEAN
  /\ rxWaker \in Threads \cup {None}
  /\ txWaker \in Threads \cup {None}
  /\ send_queue \in 0..Capacity
  /\ recv_queue \in 0..Capacity

(* No thread sleeps in connect, accept or close although its poll_fn would  *)
(* be Ready: every change a poll_fn looks at calls the slot it registered   *)
(* with, and a thread that loses the slot to another is woken.              *)
NoSleepOnSettled == \A t \in Threads : asleep[t] => Outcome(op[t]) = "pending"

(* The FIN is sent after the data: once close() has run s.close(), every    *)
(* byte that any thread has written is acknowledged, however writes and     *)
(* closes of several threads interleave (mod.rs 310-315).                   *)
FinAfterData ==
  state \in {"FinWait1", "FinWait2", "Closing", "LastAck", "TimeWait"} => send_queue = 0

(* read returns Ok(0) on a connection only when the peer has closed it and  *)
(* every byte before the FIN has been read.                                 *)
EofIsGenuine ==
  [][\A t \in Threads :
       (op[t] = "read" /\ op'[t] = "idle" /\ res'[t] = "eof" /\ state \notin {"SynReceived", "Listen"})
         => fin /\ recv_queue = 0]_vars

(* connect returns the handle of a connection that was established.         *)
ConnectEstablishes ==
  [][\A t \in Threads :
       (op[t] = "connect" /\ op'[t] = "idle" /\ res'[t] = "connected")
         => peer /\ state \in {"Established", "CloseWait"}]_vars

(* "Wait for connection at specified address" (tcplistener.rs 9): when      *)
(* accept returns, its connection is there (or the peer has closed it).     *)
AcceptWaitsForConnection ==
  [][\A t \in Threads :
       (op[t] = "accepted" /\ op'[t] = "idle") => state \in {"Established", "CloseWait"}]_vars

(* What has become of the connection, and of each thread's call.            *)
StreamPhase ==
  IF state \in {"Established", "CloseWait"} THEN "up"
  ELSE IF state = "SynReceived" THEN "half"
  ELSE IF fin \/ state \in Finished \ {"Closed"} \/ (reset /\ state = "Closed")
       THEN "down" ELSE "fresh"

StreamRet == [t \in Threads |-> IF op[t] = "idle" THEN res[t] ELSE "busy"]

(* The stream that the threads that share the handle see.                   *)
Stream == INSTANCE ByteStream WITH
  phase <- StreamPhase, outq <- send_queue, inq <- recv_queue, eof <- fin, broken <- reset,
  ret <- StreamRet

(* A handle implements the byte stream: its connection comes up once, an    *)
(* orderly close loses no byte, a call reports an error only while the      *)
(* connection is not up, and the end of the stream only after its last byte *)
(* or before it has come up (accept returns half-open connections).         *)
IsByteStream == Stream!Spec

(* Every connect and every close returns, provided that the threads that    *)
(* share the handle do not write for ever: close waits for an empty send    *)
(* queue, which a writer may keep filled (mod.rs 310).                      *)
OpenAndCloseReturn ==
  (<>[](\A u \in Threads : op[u] # "write")) =>
    \A t \in Threads : (op[t] \in {"connect", "close", "closing"}) ~> (op[t] = "idle")
=============================================================================
