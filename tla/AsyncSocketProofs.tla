--------------------------- MODULE AsyncSocketProofs ---------------------------
(***************************************************************************)
(* What holds of one socket for every number of threads that share it and  *)
(* every buffer size.                                                      *)
(***************************************************************************)
EXTENDS AsyncSocket, TLAPS

(* A sleeping thread is in block_on, its poll_fn is Pending, and the slot   *)
(* it registered with still holds its waker.                                *)
SleepInv ==
  \A t \in Threads : asleep[t] =>
    \/ op[t] = "accept" /\ AcceptPoll = "pending" /\ rxWaker = t
    \/ op[t] = "connect" /\ ConnectPoll = "pending" /\ txWaker = t
    \/ op[t] = "close" /\ ClosePoll = "pending" /\ txWaker = t
    \/ op[t] = "closing" /\ ClosingPoll = "pending" /\ txWaker = t

(* Every step keeps the types and the bounds of the buffers.                *)
LEMMA TypeStep == ASSUME TypeOK, [Next]_vars PROVE TypeOK'
<1> USE SocketAssumption
    DEF TypeOK, TcpStates, callVars, wakers, tcpVars, dataVars, Return, SetState, Woken,
        Stored, Replaced, Taken
<1>1. ASSUME NEW t \in Threads, NEW o \in {"connecting", "listening"}, Open(t, o) PROVE TypeOK'
  BY <1>1 DEF Open
<1>2. ASSUME NEW t \in Threads, NEW o \in {"read", "write", "close"}, Call(t, o) PROVE TypeOK'
  BY <1>2 DEF Call
<1>3. ASSUME NEW t \in Threads, PollStep(t) PROVE TypeOK'
  <2>1. CASE Connect(t) BY <2>1 DEF Connect
  <2>2. CASE Listen(t) BY <2>2 DEF Listen
  <2>3. CASE OpenFails(t) BY <2>3 DEF OpenFails
  <2>4. CASE PollPending(t)
    <3>1. (op[t] \in BlockOnOps) \in BOOLEAN
      OBVIOUS
    <3> QED BY <2>4, <3>1 DEF PollPending, Registered
  <2>5. CASE PollErr(t) BY <2>5 DEF PollErr
  <2>6. CASE PollZero(t) BY <2>6 DEF PollZero
  <2>7. CASE ConnectReady(t) BY <2>7 DEF ConnectReady
  <2>8. CASE AcceptReady(t) BY <2>8 DEF AcceptReady
  <2>9. CASE Accepted(t) BY <2>9 DEF Accepted
  <2>10. CASE ReadReady(t)
    <3>1. PICK n \in 1..recv_queue : recv_queue' = recv_queue - n
      BY <2>10 DEF ReadReady
    <3> QED BY <2>10, <3>1 DEF ReadReady
  <2>11. CASE WriteReady(t)
    <3>1. PICK n \in 1..(Capacity - send_queue) : send_queue' = send_queue + n
      BY <2>11 DEF WriteReady
    <3> QED BY <2>11, <3>1 DEF WriteReady
  <2>12. CASE CloseReady(t) BY <2>12 DEF CloseReady, CloseNext
  <2>13. CASE ClosingReady(t) BY <2>13 DEF ClosingReady
  <2> QED BY <1>3, <2>1, <2>2, <2>3, <2>4, <2>5, <2>6, <2>7, <2>8, <2>9, <2>10,
             <2>11, <2>12, <2>13 DEF PollStep
<1>4. ASSUME NEW t \in Threads, ConnectTimeout(t) \/ SleepEnds(t) \/ PeerAddr(t) PROVE TypeOK'
  BY <1>4 DEF ConnectTimeout, SleepEnds, PeerAddr
<1>5. CASE StackStep
  <2>1. CASE Handshake BY <2>1 DEF Handshake
  <2>2. CASE RecvData BY <2>2 DEF RecvData
  <2>3. CASE AckData BY <2>3 DEF AckData
  <2>4. CASE AckFin BY <2>4 DEF AckFin
  <2>5. CASE RecvFin BY <2>5 DEF RecvFin
  <2>6. CASE RecvRst BY <2>6 DEF RecvRst
  <2>7. CASE TimeWaitEnds BY <2>7 DEF TimeWaitEnds
  <2> QED BY <1>5, <2>1, <2>2, <2>3, <2>4, <2>5, <2>6, <2>7 DEF StackStep
<1>6. CASE UNCHANGED vars BY <1>6 DEF vars
<1> HIDE DEF TypeOK
<1> QED BY <1>1, <1>2, <1>3, <1>4, <1>5, <1>6 DEF Next

(* No step changes what a sleeping thread waits for without calling the     *)
(* slot that holds its waker.                                               *)
LEMMA SleepStep == ASSUME TypeOK, SleepInv, [Next]_vars PROVE SleepInv'
<1> USE SocketAssumption
    DEF TypeOK, SleepInv, AcceptPoll, ConnectPoll, ClosePoll, ClosingPoll, Finished, is_active,
        callVars, wakers, tcpVars, dataVars, Return, SetState, Woken,
        Stored, Replaced, Taken
<1>1. ASSUME NEW t \in Threads, NEW o \in {"connecting", "listening"}, Open(t, o) PROVE SleepInv'
  BY <1>1 DEF Open
<1>2. ASSUME NEW t \in Threads, NEW o \in {"read", "write", "close"}, Call(t, o) PROVE SleepInv'
  BY <1>2 DEF Call
<1>3. ASSUME NEW t \in Threads, PollStep(t) PROVE SleepInv'
  <2>1. CASE Connect(t) \/ Listen(t) \/ OpenFails(t)
    BY <2>1 DEF Connect, Listen, OpenFails
  <2>2. CASE PollPending(t)
    <3>1. op[t] \in {"connect", "accept", "read", "write", "close", "closing"}
      BY <2>2 DEF PollPending, Outcome
    <3>2. CASE op[t] = "accept"
      <4>1. AcceptPoll = "pending" /\ AcceptPoll' = AcceptPoll
        BY <2>2, <3>2 DEF PollPending, Outcome
      <4>2. /\ rxWaker' = t
            /\ asleep' = [Woken(Replaced(rxWaker, t)) EXCEPT ![t] = TRUE]
            /\ UNCHANGED <<op, txWaker, ConnectPoll, ClosePoll, ClosingPoll>>
        BY <2>2, <3>2 DEF PollPending, Registered, BlockOnOps, RecvOps
      <4> QED BY <3>2, <4>1, <4>2
    <3>6. CASE op[t] = "read"
      BY <2>2, <3>6 DEF PollPending, Outcome, Registered, BlockOnOps, RecvOps
    <3>3. CASE op[t] = "connect"
      BY <2>2, <3>3 DEF PollPending, Outcome, Registered, BlockOnOps, RecvOps
    <3>4. CASE op[t] = "write"
      BY <2>2, <3>4 DEF PollPending, Outcome, Registered, BlockOnOps, RecvOps
    <3>5. CASE op[t] \in {"close", "closing"}
      BY <2>2, <3>5 DEF PollPending, Outcome, Registered, BlockOnOps, RecvOps
    <3> QED BY <3>1, <3>2, <3>3, <3>4, <3>5, <3>6
  <2>3. CASE PollErr(t) \/ PollZero(t)
    BY <2>3 DEF PollErr, PollZero, Outcome
  <2>4. CASE ConnectReady(t) \/ AcceptReady(t) \/ Accepted(t)
    BY <2>4 DEF ConnectReady, AcceptReady, Accepted
  <2>5. CASE ReadReady(t)
    BY <2>5 DEF ReadReady
  <2>6. CASE WriteReady(t)
    <3>1. PICK n \in 1..(Capacity - send_queue) : send_queue' = send_queue + n
      BY <2>6 DEF WriteReady
    <3> QED BY <2>6, <3>1 DEF WriteReady
  <2>7. CASE CloseReady(t)
    BY <2>7 DEF CloseReady
  <2>8. CASE ClosingReady(t)
    BY <2>8 DEF ClosingReady
  <2> QED BY <1>3, <2>1, <2>2, <2>3, <2>4, <2>5, <2>6, <2>7, <2>8 DEF PollStep
<1>4. ASSUME NEW t \in Threads, ConnectTimeout(t) \/ SleepEnds(t) \/ PeerAddr(t) PROVE SleepInv'
  <2>1. CASE ConnectTimeout(t) BY <2>1 DEF ConnectTimeout
  <2>2. CASE SleepEnds(t) BY <2>2 DEF SleepEnds
  <2>3. CASE PeerAddr(t) BY <2>3 DEF PeerAddr
  <2> QED BY <1>4, <2>1, <2>2, <2>3
<1>5. CASE StackStep
  <2>1. CASE Handshake BY <2>1 DEF Handshake
  <2>2. CASE RecvData BY <2>2 DEF RecvData
  <2>3. CASE AckData BY <2>3 DEF AckData
  <2>4. CASE AckFin BY <2>4 DEF AckFin
  <2>5. CASE RecvFin BY <2>5 DEF RecvFin
  <2>6. CASE RecvRst BY <2>6 DEF RecvRst
  <2>7. CASE TimeWaitEnds BY <2>7 DEF TimeWaitEnds
  <2> QED BY <1>5, <2>1, <2>2, <2>3, <2>4, <2>5, <2>6, <2>7 DEF StackStep
<1>6. CASE UNCHANGED vars BY <1>6 DEF vars
<1> HIDE DEF SleepInv
<1> QED BY <1>1, <1>2, <1>3, <1>4, <1>5, <1>6 DEF Next

(* Only close enters the states after the FIN, with an empty send queue,    *)
(* and write takes nothing there.                                           *)
LEMMA FinStep == ASSUME TypeOK, FinAfterData, [Next]_vars PROVE FinAfterData'
<1> USE SocketAssumption
    DEF TypeOK, FinAfterData, callVars, wakers, tcpVars, dataVars, Return, SetState
<1>1. ASSUME NEW t \in Threads, NEW o \in {"connecting", "listening"}, Open(t, o)
      PROVE FinAfterData'
  BY <1>1 DEF Open
<1>2. ASSUME NEW t \in Threads, NEW o \in {"read", "write", "close"}, Call(t, o)
      PROVE FinAfterData'
  BY <1>2 DEF Call
<1>3. ASSUME NEW t \in Threads, PollStep(t) PROVE FinAfterData'
  <2>1. CASE Connect(t) \/ Listen(t) \/ OpenFails(t)
    BY <2>1 DEF Connect, Listen, OpenFails
  <2>2. CASE PollPending(t) \/ PollErr(t) \/ PollZero(t)
    BY <2>2 DEF PollPending, PollErr, PollZero
  <2>3. CASE ConnectReady(t) \/ AcceptReady(t) \/ Accepted(t) \/ ReadReady(t) \/ ClosingReady(t)
    BY <2>3 DEF ConnectReady, AcceptReady, Accepted, ReadReady, ClosingReady
  <2>4. CASE WriteReady(t)
    BY <2>4 DEF WriteReady, WritePoll, can_send
  <2>5. CASE CloseReady(t)
    BY <2>5 DEF CloseReady, ClosePoll, CloseNext
  <2> QED BY <1>3, <2>1, <2>2, <2>3, <2>4, <2>5 DEF PollStep
<1>4. ASSUME NEW t \in Threads, ConnectTimeout(t) \/ SleepEnds(t) \/ PeerAddr(t)
      PROVE FinAfterData'
  BY <1>4 DEF ConnectTimeout, SleepEnds, PeerAddr
<1>5. CASE StackStep
  <2>1. CASE Handshake BY <2>1 DEF Handshake
  <2>2. CASE RecvData BY <2>2 DEF RecvData
  <2>3. CASE AckData BY <2>3 DEF AckData
  <2>4. CASE AckFin BY <2>4 DEF AckFin
  <2>5. CASE RecvFin BY <2>5 DEF RecvFin
  <2>6. CASE RecvRst BY <2>6 DEF RecvRst
  <2>7. CASE TimeWaitEnds BY <2>7 DEF TimeWaitEnds
  <2> QED BY <1>5, <2>1, <2>2, <2>3, <2>4, <2>5, <2>6, <2>7 DEF StackStep
<1>6. CASE UNCHANGED vars BY <1>6 DEF vars
<1> HIDE DEF FinAfterData
<1> QED BY <1>1, <1>2, <1>3, <1>4, <1>5, <1>6 DEF Next

-----------------------------------------------------------------------------
(* The calls that make the socket, and those on its handle.                 *)
OpeningOps == {"connecting", "listening", "connect", "accept", "accepted"}
HandleOps == {"read", "write", "close", "closing"}

(* One call makes the socket, and nobody else can name it until that call   *)
(* has returned the handle.                                                 *)
CallInv ==
  /\ handle = "none" => \A t \in Threads : op[t] = "idle"
  /\ \A t \in Threads : op[t] \in OpeningOps => handle = "opening"
  /\ \A t \in Threads : op[t] \in HandleOps => handle = "open"
  /\ \A t, u \in Threads : op[t] \in OpeningOps /\ op[u] \in OpeningOps => t = u

(* The socket is untouched until connect or listen; nobody can close it     *)
(* before it is handed out, and then it has been connected at least half.   *)
LifeInv ==
  /\ handle = "none" => state = "Closed" /\ ~fin /\ ~reset
  /\ handle = "opening" => state \notin {"FinWait1", "FinWait2", "Closing", "LastAck", "TimeWait"}
  /\ handle = "open" => state # "SynSent" /\ (state \in {"Listen", "Closed"} => fin \/ reset)
  /\ \A t \in Threads :
       /\ op[t] \in {"connecting", "listening"} => state = "Closed" /\ ~fin /\ ~reset
       /\ op[t] \in {"accept", "accepted"} => state # "SynSent"
       /\ op[t] = "accepted" => (state \in {"Listen", "Closed"} => fin \/ reset)

(* The states that follow the peer's FIN, and those that have a peer.       *)
PeerInv ==
  /\ state \in {"Listen", "SynSent", "SynReceived", "Established", "FinWait1", "FinWait2"} => ~fin
  /\ state \in {"CloseWait", "Closing", "LastAck", "TimeWait"} => fin
  /\ state \in {"SynSent", "SynReceived", "Established", "CloseWait"} => peer

(* A call that opens is alone, and ends with the handle handed out or lost. *)
LEMMA CallStep == ASSUME TypeOK, CallInv, [Next]_vars PROVE CallInv'
<1> USE SocketAssumption
    DEF TypeOK, CallInv, OpeningOps, HandleOps, callVars, wakers, tcpVars, dataVars, Return, SetState
<1>1. ASSUME NEW t \in Threads, NEW o \in {"connecting", "listening"}, Open(t, o) PROVE CallInv'
  BY <1>1 DEF Open
<1>2. ASSUME NEW t \in Threads, NEW o \in {"read", "write", "close"}, Call(t, o) PROVE CallInv'
  BY <1>2 DEF Call
<1>3. ASSUME NEW t \in Threads, PollStep(t) PROVE CallInv'
  <2>1. CASE Connect(t) BY <2>1 DEF Connect
  <2>2. CASE Listen(t) BY <2>2 DEF Listen
  <2>3. CASE OpenFails(t) BY <2>3 DEF OpenFails
  <2>4. CASE PollPending(t) BY <2>4 DEF PollPending
  <2>5. CASE PollErr(t) BY <2>5 DEF PollErr, Outcome
  <2>6. CASE PollZero(t) BY <2>6 DEF PollZero, Outcome
  <2>7. CASE ConnectReady(t) BY <2>7 DEF ConnectReady
  <2>8. CASE AcceptReady(t) BY <2>8 DEF AcceptReady
  <2>9. CASE Accepted(t) BY <2>9 DEF Accepted
  <2>10. CASE ReadReady(t) BY <2>10 DEF ReadReady
  <2>11. CASE WriteReady(t) BY <2>11 DEF WriteReady
  <2>12. CASE CloseReady(t) BY <2>12 DEF CloseReady
  <2>13. CASE ClosingReady(t) BY <2>13 DEF ClosingReady
  <2> QED BY <1>3, <2>1, <2>2, <2>3, <2>4, <2>5, <2>6, <2>7, <2>8, <2>9, <2>10,
             <2>11, <2>12, <2>13 DEF PollStep
<1>4. ASSUME NEW t \in Threads, ConnectTimeout(t) \/ SleepEnds(t) \/ PeerAddr(t) PROVE CallInv'
  BY <1>4 DEF ConnectTimeout, SleepEnds, PeerAddr
<1>5. CASE StackStep
  <2>1. CASE Handshake BY <2>1 DEF Handshake
  <2>2. CASE RecvData BY <2>2 DEF RecvData
  <2>3. CASE AckData BY <2>3 DEF AckData
  <2>4. CASE AckFin BY <2>4 DEF AckFin
  <2>5. CASE RecvFin BY <2>5 DEF RecvFin
  <2>6. CASE RecvRst BY <2>6 DEF RecvRst
  <2>7. CASE TimeWaitEnds BY <2>7 DEF TimeWaitEnds
  <2> QED BY <1>5, <2>1, <2>2, <2>3, <2>4, <2>5, <2>6, <2>7 DEF StackStep
<1>6. CASE UNCHANGED vars BY <1>6 DEF vars
<1> HIDE DEF CallInv
<1> QED BY <1>1, <1>2, <1>3, <1>4, <1>5, <1>6 DEF Next

(* Only the calls on the handle, after it is handed out, close the socket.  *)
LEMMA LifeStep == ASSUME TypeOK, CallInv, PeerInv, LifeInv, [Next]_vars PROVE LifeInv'
<1> USE SocketAssumption
    DEF TypeOK, CallInv, OpeningOps, HandleOps, PeerInv, LifeInv, callVars, wakers, tcpVars, dataVars, Return, SetState
<1>1. ASSUME NEW t \in Threads, NEW o \in {"connecting", "listening"}, Open(t, o) PROVE LifeInv'
  BY <1>1 DEF Open
<1>2. ASSUME NEW t \in Threads, NEW o \in {"read", "write", "close"}, Call(t, o) PROVE LifeInv'
  BY <1>2 DEF Call
<1>3. ASSUME NEW t \in Threads, PollStep(t) PROVE LifeInv'
  <2>1. CASE Connect(t) BY <2>1 DEF Connect
  <2>2. CASE Listen(t) BY <2>2 DEF Listen
  <2>3. CASE OpenFails(t) BY <2>3 DEF OpenFails
  <2>4. CASE PollPending(t) BY <2>4 DEF PollPending
  <2>5. CASE PollErr(t) BY <2>5 DEF PollErr, Outcome
  <2>6. CASE PollZero(t) BY <2>6 DEF PollZero, Outcome
  <2>7. CASE ConnectReady(t) BY <2>7 DEF ConnectReady, ConnectPoll
  <2>8. CASE AcceptReady(t) BY <2>8 DEF AcceptReady, AcceptPoll, is_active
  <2>9. CASE Accepted(t) BY <2>9 DEF Accepted
  <2>10. CASE ReadReady(t) BY <2>10 DEF ReadReady
  <2>11. CASE WriteReady(t) BY <2>11 DEF WriteReady
  <2>12. CASE CloseReady(t) BY <2>12 DEF CloseReady, CloseNext
  <2>13. CASE ClosingReady(t) BY <2>13 DEF ClosingReady
  <2> QED BY <1>3, <2>1, <2>2, <2>3, <2>4, <2>5, <2>6, <2>7, <2>8, <2>9, <2>10,
             <2>11, <2>12, <2>13 DEF PollStep
<1>4. ASSUME NEW t \in Threads, ConnectTimeout(t) \/ SleepEnds(t) \/ PeerAddr(t) PROVE LifeInv'
  BY <1>4 DEF ConnectTimeout, SleepEnds, PeerAddr
<1>5. CASE StackStep
  <2>1. CASE Handshake BY <2>1 DEF Handshake
  <2>2. CASE RecvData BY <2>2 DEF RecvData
  <2>3. CASE AckData BY <2>3 DEF AckData
  <2>4. CASE AckFin BY <2>4 DEF AckFin
  <2>5. CASE RecvFin BY <2>5 DEF RecvFin
  <2>6. CASE RecvRst BY <2>6 DEF RecvRst
  <2>7. CASE TimeWaitEnds BY <2>7 DEF TimeWaitEnds
  <2> QED BY <1>5, <2>1, <2>2, <2>3, <2>4, <2>5, <2>6, <2>7 DEF StackStep
<1>6. CASE UNCHANGED vars BY <1>6 DEF vars
<1> HIDE DEF LifeInv
<1> QED BY <1>1, <1>2, <1>3, <1>4, <1>5, <1>6 DEF Next

(* The TCP states follow the FIN and the peer.                              *)
LEMMA PeerStep == ASSUME TypeOK, CallInv, LifeInv, PeerInv, [Next]_vars PROVE PeerInv'
<1> USE SocketAssumption
    DEF TypeOK, CallInv, OpeningOps, HandleOps, LifeInv, PeerInv, callVars, wakers, tcpVars, dataVars, Return, SetState
<1>1. ASSUME NEW t \in Threads, NEW o \in {"connecting", "listening"}, Open(t, o) PROVE PeerInv'
  BY <1>1 DEF Open
<1>2. ASSUME NEW t \in Threads, NEW o \in {"read", "write", "close"}, Call(t, o) PROVE PeerInv'
  BY <1>2 DEF Call
<1>3. ASSUME NEW t \in Threads, PollStep(t) PROVE PeerInv'
  <2>1. CASE Connect(t) BY <2>1 DEF Connect
  <2>2. CASE Listen(t) BY <2>2 DEF Listen
  <2>3. CASE OpenFails(t) BY <2>3 DEF OpenFails
  <2>4. CASE PollPending(t) BY <2>4 DEF PollPending
  <2>5. CASE PollErr(t) BY <2>5 DEF PollErr
  <2>6. CASE PollZero(t) BY <2>6 DEF PollZero
  <2>7. CASE ConnectReady(t) BY <2>7 DEF ConnectReady
  <2>8. CASE AcceptReady(t) BY <2>8 DEF AcceptReady
  <2>9. CASE Accepted(t) BY <2>9 DEF Accepted
  <2>10. CASE ReadReady(t) BY <2>10 DEF ReadReady
  <2>11. CASE WriteReady(t) BY <2>11 DEF WriteReady
  <2>12. CASE CloseReady(t) BY <2>12 DEF CloseReady, CloseNext
  <2>13. CASE ClosingReady(t) BY <2>13 DEF ClosingReady
  <2> QED BY <1>3, <2>1, <2>2, <2>3, <2>4, <2>5, <2>6, <2>7, <2>8, <2>9, <2>10,
             <2>11, <2>12, <2>13 DEF PollStep
<1>4. ASSUME NEW t \in Threads, ConnectTimeout(t) \/ SleepEnds(t) \/ PeerAddr(t) PROVE PeerInv'
  BY <1>4 DEF ConnectTimeout, SleepEnds, PeerAddr
<1>5. CASE StackStep
  <2>1. CASE Handshake BY <2>1 DEF Handshake
  <2>2. CASE RecvData BY <2>2 DEF RecvData
  <2>3. CASE AckData BY <2>3 DEF AckData
  <2>4. CASE AckFin BY <2>4 DEF AckFin
  <2>5. CASE RecvFin BY <2>5 DEF RecvFin
  <2>6. CASE RecvRst BY <2>6 DEF RecvRst
  <2>7. CASE TimeWaitEnds BY <2>7 DEF TimeWaitEnds
  <2> QED BY <1>5, <2>1, <2>2, <2>3, <2>4, <2>5, <2>6, <2>7 DEF StackStep
<1>6. CASE UNCHANGED vars BY <1>6 DEF vars
<1> HIDE DEF PeerInv
<1> QED BY <1>1, <1>2, <1>3, <1>4, <1>5, <1>6 DEF Next

-----------------------------------------------------------------------------
Inv == TypeOK /\ SleepInv /\ FinAfterData /\ CallInv /\ LifeInv /\ PeerInv

(* Inv is an invariant of the socket.                                       *)
THEOREM SocketInvariant == Spec => []Inv
<1>1. Init => Inv
  <2> SUFFICES ASSUME Init PROVE Inv
    OBVIOUS
  <2>1. TypeOK
    <3>1. op \in [Threads -> {"idle", "connecting", "listening", "connect", "accept",
                              "accepted", "read", "write", "close", "closing"}]
      BY DEF Init
    <3>2. res \in [Threads -> {"none", "ok", "err", "eof", "zero", "connected", "accepted",
                               "closed", "addr", "noaddr"}]
      BY DEF Init
    <3>3. asleep \in [Threads -> BOOLEAN]
      BY DEF Init
    <3>4. 0 \in 0..Capacity
      BY SocketAssumption
    <3> QED BY <3>1, <3>2, <3>3, <3>4 DEF Init, TypeOK, TcpStates
  <2>2. SleepInv /\ FinAfterData
    BY DEF Init, SleepInv, FinAfterData
  <2>3. CallInv /\ LifeInv /\ PeerInv
    BY DEF Init, CallInv, LifeInv, PeerInv, OpeningOps, HandleOps
  <2> QED BY <2>1, <2>2, <2>3 DEF Inv
<1>2. Inv /\ [Next]_vars => Inv'
  BY TypeStep, SleepStep, FinStep, CallStep, LifeStep, PeerStep DEF Inv
<1> QED
  BY <1>1, <1>2, PTL DEF Spec

(* mod.rs 196-336: no thread sleeps in connect, accept or close although    *)
(* its poll_fn would be Ready.                                              *)
THEOREM SleepTheorem == Spec => []NoSleepOnSettled
<1>1. Inv => NoSleepOnSettled
  BY DEF Inv, SleepInv, NoSleepOnSettled, Outcome
<1> QED
  BY <1>1, SocketInvariant, PTL

(* mod.rs 301-336: the FIN follows the acknowledgement of all data.         *)
THEOREM FinTheorem == Spec => []FinAfterData
<1>1. Inv => FinAfterData
  BY DEF Inv
<1> QED
  BY <1>1, SocketInvariant, PTL

(* The types of the socket hold, and no buffer is overfilled (mod.rs        *)
(* 245-299).                                                                *)
THEOREM SocketTypes == Spec => []TypeOK
<1>1. Inv => TypeOK
  BY DEF Inv
<1> QED
  BY <1>1, SocketInvariant, PTL

-----------------------------------------------------------------------------
(* What a step in which the call of thread t ends can be.                   *)
LEMMA CallEnds ==
  ASSUME TypeOK, Next, NEW t \in Threads, op[t] # "idle", op'[t] = "idle"
  PROVE  \/ OpenFails(t) \/ PollErr(t) \/ PollZero(t) \/ ConnectReady(t) \/ Accepted(t)
         \/ ReadReady(t) \/ WriteReady(t) \/ ClosingReady(t) \/ ConnectTimeout(t)
<1> USE DEF TypeOK, Return
<1>1. ASSUME NEW u \in Threads, NEW o \in {"connecting", "listening"}, Open(u, o) PROVE FALSE
  BY <1>1 DEF Open
<1>2. ASSUME NEW u \in Threads, NEW o \in {"read", "write", "close"}, Call(u, o) PROVE FALSE
  BY <1>2 DEF Call
<1>3. ASSUME NEW u \in Threads,
             Connect(u) \/ Listen(u) \/ PollPending(u) \/ AcceptReady(u) \/ CloseReady(u)
             \/ SleepEnds(u) \/ PeerAddr(u)
      PROVE FALSE
  BY <1>3 DEF Connect, Listen, PollPending, AcceptReady, CloseReady, SleepEnds, PeerAddr
<1>4. ASSUME NEW u \in Threads, u # t,
             \/ OpenFails(u) \/ PollErr(u) \/ PollZero(u) \/ ConnectReady(u) \/ Accepted(u)
             \/ ReadReady(u) \/ WriteReady(u) \/ ClosingReady(u) \/ ConnectTimeout(u)
      PROVE FALSE
  BY <1>4 DEF OpenFails, PollErr, PollZero, ConnectReady, Accepted, ReadReady, WriteReady,
              ClosingReady, ConnectTimeout
<1>5. ASSUME StackStep PROVE FALSE
  BY <1>5 DEF StackStep, Handshake, RecvData, AckData, AckFin, RecvFin, RecvRst, TimeWaitEnds
<1> QED BY <1>1, <1>2, <1>3, <1>4, <1>5 DEF Next, PollStep

(* mod.rs 245-271: read returns Ok(0) on a connection only after the peer's *)
(* FIN and the last byte.  A read needs a handle, so the socket is past the *)
(* handshake, and of the states left only those after the FIN do not        *)
(* receive.                                                                 *)
THEOREM EofTheorem == Spec => EofIsGenuine
<1>1. ASSUME Inv, [Next]_vars
      PROVE  [\A t \in Threads :
                (op[t] = "read" /\ op'[t] = "idle" /\ res'[t] = "eof"
                   /\ state \notin {"SynReceived", "Listen"})
                  => fin /\ recv_queue = 0]_vars
  <2> SUFFICES ASSUME Next, NEW t \in Threads, op[t] = "read", op'[t] = "idle", res'[t] = "eof",
                      state \notin {"SynReceived", "Listen"}
               PROVE  fin /\ recv_queue = 0
    BY <1>1
  <2>1. TypeOK /\ handle = "open" /\ state # "SynSent"
    BY <1>1 DEF Inv, CallInv, LifeInv, HandleOps
  <2>2. PollZero(t)
    <3>1. \/ OpenFails(t) \/ PollErr(t) \/ PollZero(t) \/ ConnectReady(t) \/ Accepted(t)
          \/ ReadReady(t) \/ WriteReady(t) \/ ClosingReady(t) \/ ConnectTimeout(t)
      BY <2>1, CallEnds
    <3>2. ~PollErr(t) /\ ~ReadReady(t)
      BY <2>1 DEF PollErr, ReadReady, Return, TypeOK
    <3> QED BY <3>1, <3>2 DEF OpenFails, ConnectReady, Accepted, WriteReady, ClosingReady, ConnectTimeout
  <2>3. ReadPoll = "eof"
    BY <2>2 DEF PollZero, Outcome
  <2>4. recv_queue = 0 /\ state \in {"CloseWait", "LastAck"}
    BY <2>1, <2>3, SocketAssumption DEF ReadPoll, may_recv, Finished, TypeOK, TcpStates
  <2> QED BY <1>1, <2>4 DEF Inv, PeerInv
<1> QED
  BY <1>1, SocketInvariant, PTL DEF Spec, EofIsGenuine

(* mod.rs 208-218: connect returns the handle of an established connection; *)
(* no other thread can have closed it, because none can name it.            *)
THEOREM ConnectTheorem == Spec => ConnectEstablishes
<1>1. ASSUME Inv, [Next]_vars
      PROVE  [\A t \in Threads :
                (op[t] = "connect" /\ op'[t] = "idle" /\ res'[t] = "connected")
                  => peer /\ state \in {"Established", "CloseWait"}]_vars
  <2> SUFFICES ASSUME Next, NEW t \in Threads, op[t] = "connect", op'[t] = "idle",
                      res'[t] = "connected"
               PROVE  peer /\ state \in {"Established", "CloseWait"}
    BY <1>1
  <2>1. TypeOK /\ handle = "opening"
    BY <1>1 DEF Inv, CallInv, OpeningOps
  <2>2. ConnectReady(t)
    <3>1. \/ OpenFails(t) \/ PollErr(t) \/ PollZero(t) \/ ConnectReady(t) \/ Accepted(t)
          \/ ReadReady(t) \/ WriteReady(t) \/ ClosingReady(t) \/ ConnectTimeout(t)
      BY <2>1, CallEnds
    <3>2. ~PollErr(t) /\ ~PollZero(t) /\ ~ConnectTimeout(t)
      BY <2>1 DEF PollErr, PollZero, ConnectTimeout, Return, TypeOK
    <3> QED BY <3>1, <3>2 DEF OpenFails, Accepted, ReadReady, WriteReady, ClosingReady
  <2>3. state \in {"Established", "CloseWait"}
    BY <1>1, <2>1, <2>2 DEF Inv, LifeInv, ConnectReady, ConnectPoll, TypeOK, TcpStates
  <2> QED BY <1>1, <2>3 DEF Inv, PeerInv
<1> QED
  BY <1>1, SocketInvariant, PTL DEF Spec, ConnectEstablishes

-----------------------------------------------------------------------------
(* How the threads' calls appear in the stream.                             *)
LEMMA RetBegins ==
  ASSUME TypeOK, NEW t \in Threads, NEW o, o # "idle", op' = [op EXCEPT ![t] = o], res' = res
  PROVE  /\ StreamRet' = [StreamRet EXCEPT ![t] = "busy"]
         /\ op[t] # "idle" => StreamRet' = StreamRet
BY DEF TypeOK, StreamRet

LEMMA RetEnds ==
  ASSUME TypeOK, NEW t \in Threads, NEW r, op[t] # "idle", Return(t, r)
  PROVE  StreamRet[t] = "busy" /\ StreamRet' = [StreamRet EXCEPT ![t] = r]
BY DEF TypeOK, StreamRet, Return

(* A step of a call is a step of the stream, or none.                       *)
LEMMA CallRefines ==
  ASSUME Inv, NEW t \in Threads,
         \/ \E o \in {"connecting", "listening"} : Open(t, o)
         \/ \E o \in {"read", "write", "close"} : Call(t, o)
         \/ PollStep(t) \/ ConnectTimeout(t) \/ SleepEnds(t) \/ PeerAddr(t)
  PROVE  [Stream!Next]_(Stream!vars)
<1>1. TypeOK
  BY DEF Inv
<1>2. ASSUME NEW o, o # "idle", op' = [op EXCEPT ![t] = o], res' = res, UNCHANGED <<tcpVars, dataVars>>
      PROVE  Stream!Call(t)
  <2>1. UNCHANGED <<StreamPhase, send_queue, recv_queue, fin, reset>>
    BY <1>2 DEF StreamPhase, tcpVars, dataVars
  <2> QED BY <1>1, <1>2, <2>1, RetBegins DEF Stream!Call, Stream!streams
<1>3. ASSUME NEW r, op[t] # "idle", Return(t, r), UNCHANGED <<tcpVars, dataVars>>
      PROVE  /\ UNCHANGED <<StreamPhase, send_queue, recv_queue, fin, reset>>
             /\ Stream!Return(t, r)
  <2>1. UNCHANGED <<StreamPhase, send_queue, recv_queue, fin, reset>>
    BY <1>3 DEF StreamPhase, tcpVars, dataVars
  <2> QED BY <1>1, <1>3, <2>1, RetEnds DEF Stream!Return
<1>4. ASSUME NEW o \in {"connecting", "listening"}, Open(t, o) PROVE Stream!Call(t)
  BY <1>2, <1>4 DEF Open
<1>5. ASSUME NEW o \in {"read", "write", "close"}, Call(t, o) PROVE Stream!Call(t)
  BY <1>2, <1>5 DEF Call
<1>6. CASE Connect(t) \/ Listen(t)
  <2>1. state = "Closed" /\ ~fin /\ ~reset
    BY <1>6 DEF Inv, LifeInv, Connect, Listen
  <2>2. UNCHANGED <<StreamPhase, send_queue, recv_queue, fin, reset>>
    BY <1>6, <2>1 DEF Connect, Listen, SetState, StreamPhase, dataVars, Finished
  <2>3. UNCHANGED StreamRet
    BY <1>1, <1>6, RetBegins DEF Connect, Listen
  <2> QED BY <2>2, <2>3 DEF Stream!vars
<1>7. CASE PollPending(t) \/ SleepEnds(t)
  BY <1>7 DEF PollPending, SleepEnds, StreamPhase, StreamRet, tcpVars, dataVars, Stream!vars
<1>8. CASE OpenFails(t) \/ PollErr(t) \/ ConnectTimeout(t)
  <2>1. Return(t, "err") /\ op[t] # "idle" /\ UNCHANGED <<tcpVars, dataVars>>
    BY <1>8 DEF OpenFails, PollErr, ConnectTimeout, Outcome
  <2>2. StreamPhase # "up"
    <3>1. CASE OpenFails(t)
      BY <3>1 DEF OpenFails, Inv, LifeInv, StreamPhase
    <3>2. CASE PollErr(t)
      BY <3>2 DEF PollErr, Outcome, ConnectPoll, AcceptPoll, ReadPoll, WritePoll, ClosePoll,
                  ClosingPoll, Finished, StreamPhase
    <3>3. CASE ConnectTimeout(t)
      BY <3>3 DEF ConnectTimeout, ConnectPoll, StreamPhase
    <3> QED BY <1>8, <3>1, <3>2, <3>3
  <2>3. Stream!Report(t)
    BY <1>3, <2>1, <2>2 DEF Stream!Report, Stream!streams
  <2> QED BY <2>3 DEF Stream!Next
<1>9. CASE PollZero(t)
  <2>1. PICK r \in {"eof", "zero"} : Return(t, r)
    BY <1>9 DEF PollZero
  <2>2. /\ op[t] # "idle" /\ UNCHANGED <<tcpVars, dataVars>>
        /\ state \notin Finished /\ ~may_recv
    BY <1>9 DEF PollZero, Outcome, ConnectPoll, AcceptPoll, ReadPoll, WritePoll, ClosePoll,
                ClosingPoll
  <2>3. recv_queue = 0 /\ state \in {"CloseWait", "LastAck", "Listen", "SynSent", "SynReceived"}
    BY <1>1, <2>2, SocketAssumption DEF may_recv, Finished, TypeOK, TcpStates
  <2>4. fin \/ StreamPhase \in {"fresh", "half"}
    BY <2>3 DEF Inv, PeerInv, StreamPhase, Finished
  <2>5. Stream!Report(t)
    BY <1>3, <2>1, <2>2, <2>3, <2>4 DEF Stream!Report, Stream!streams
  <2> QED BY <2>5 DEF Stream!Next
<1>10. CASE ConnectReady(t)
  <2>1. op[t] # "idle" /\ Return(t, "connected") /\ UNCHANGED <<tcpVars, dataVars>>
    BY <1>10 DEF ConnectReady
  <2>2. StreamPhase = "up"
    BY <1>1, <1>10 DEF Inv, CallInv, OpeningOps, LifeInv, ConnectReady, ConnectPoll, TypeOK,
                       TcpStates, StreamPhase
  <2>3. Stream!Report(t)
    BY <1>3, <2>1, <2>2 DEF Stream!Report, Stream!streams
  <2> QED BY <2>3 DEF Stream!Next
<1>11. CASE AcceptReady(t)
  <2>1. UNCHANGED <<StreamPhase, send_queue, recv_queue, fin, reset>>
    BY <1>11 DEF AcceptReady, StreamPhase, tcpVars, dataVars
  <2>2. UNCHANGED StreamRet
    BY <1>1, <1>11, RetBegins DEF AcceptReady
  <2> QED BY <2>1, <2>2 DEF Stream!vars
<1>12. CASE Accepted(t)
  <2>1. op[t] # "idle" /\ Return(t, "accepted") /\ UNCHANGED <<tcpVars, dataVars>>
    BY <1>12 DEF Accepted
  <2>2. Stream!Report(t)
    BY <1>3, <2>1 DEF Stream!Report, Stream!streams
  <2> QED BY <2>2 DEF Stream!Next
<1>13. CASE ReadReady(t)
  <2>1. UNCHANGED <<StreamPhase, send_queue, fin, reset>>
    BY <1>13 DEF ReadReady, StreamPhase, tcpVars
  <2>2. Stream!Return(t, "ok")
    BY <1>1, <1>13, RetEnds DEF ReadReady, Stream!Return
  <2>3. Stream!Take(t)
    BY <1>13, <2>1, <2>2 DEF ReadReady, Stream!Take
  <2> QED BY <2>3 DEF Stream!Next
<1>14. CASE WriteReady(t)
  <2>1. UNCHANGED <<StreamPhase, recv_queue, fin, reset>>
    BY <1>14 DEF WriteReady, StreamPhase, tcpVars
  <2>2. Stream!Return(t, "ok")
    BY <1>1, <1>14, RetEnds DEF WriteReady, Stream!Return
  <2>3. StreamPhase = "up"
    BY <1>14 DEF WriteReady, WritePoll, can_send, StreamPhase
  <2>4. Stream!Send(t)
    BY <1>14, <2>1, <2>2, <2>3 DEF WriteReady, Stream!Send
  <2> QED BY <2>4 DEF Stream!Next
<1>15. CASE CloseReady(t)
  <2>1. UNCHANGED <<StreamRet, send_queue, recv_queue, fin, reset>>
    BY <1>1, <1>15, RetBegins DEF CloseReady, dataVars
  <2>2. state \notin Finished /\ send_queue = 0 /\ handle = "open"
    BY <1>1, <1>15, SocketAssumption DEF CloseReady, ClosePoll, TypeOK, Inv, CallInv, HandleOps
  <2>3. CASE state' = state
    BY <2>1, <2>3 DEF StreamPhase, Stream!vars
  <2>4. CASE state \in {"SynReceived", "Established", "CloseWait"} /\ state' # state
    <3>1. StreamPhase \in {"half", "up"} /\ StreamPhase' = "down"
      BY <1>15, <2>1, <2>4 DEF CloseReady, CloseNext, SetState, StreamPhase, Finished, Inv, PeerInv
    <3>2. Stream!Down
      BY <2>1, <2>2, <3>1 DEF Stream!Down, Stream!streams
    <3> QED BY <3>2 DEF Stream!Next
  <2>5. CASE state = "Listen" /\ state' # state
    <3>1. reset /\ state' = "Closed"
      BY <1>15, <2>2, <2>5 DEF CloseReady, CloseNext, SetState, Inv, LifeInv, PeerInv
    <3>2. StreamPhase' = "down"
      BY <2>1, <3>1 DEF StreamPhase
    <3>3. Stream!Break
      BY <1>1, <2>1, <3>1, <3>2 DEF Stream!Break, TypeOK
    <3> QED BY <3>3 DEF Stream!Next
  <2>6. state' = state \/ state \in {"SynReceived", "Established", "CloseWait", "Listen"}
    BY <1>15, <2>2 DEF CloseReady, CloseNext, SetState, Inv, LifeInv
  <2> QED BY <2>3, <2>4, <2>5, <2>6
<1>16. CASE ClosingReady(t)
  <2>1. op[t] = "closing" /\ Return(t, "closed") /\ UNCHANGED <<tcpVars, dataVars>>
    BY <1>16 DEF ClosingReady
  <2>2. StreamPhase = "down"
    BY <1>16 DEF ClosingReady, ClosingPoll, Finished, Inv, CallInv, HandleOps, LifeInv, StreamPhase
  <2>3. Stream!Report(t)
    BY <1>3, <2>1, <2>2 DEF Stream!Report, Stream!streams
  <2> QED BY <2>3 DEF Stream!Next
<1>17. CASE PeerAddr(t)
  <2>1. StreamRet[t] # "busy"
    BY <1>1, <1>17 DEF PeerAddr, TypeOK, StreamRet
  <2>2. PICK r \in {"addr", "noaddr"} : res' = [res EXCEPT ![t] = r]
    BY <1>17 DEF PeerAddr
  <2>3. StreamRet' = [StreamRet EXCEPT ![t] = r]
    BY <1>1, <1>17, <2>2 DEF PeerAddr, TypeOK, StreamRet
  <2>4. UNCHANGED <<StreamPhase, send_queue, recv_queue, fin, reset>>
    BY <1>17 DEF PeerAddr, StreamPhase, tcpVars, dataVars
  <2>5. Stream!PeerAddr(t)
    BY <2>1, <2>3, <2>4 DEF Stream!PeerAddr, Stream!streams
  <2> QED BY <2>5 DEF Stream!Next
<1>18. Stream!Call(t) => Stream!Next
  BY DEF Stream!Next
<1> QED BY <1>4, <1>5, <1>6, <1>7, <1>8, <1>9, <1>10, <1>11, <1>12, <1>13, <1>14, <1>15, <1>16,
           <1>17, <1>18 DEF PollStep

(* A segment is a step of the stream, or none.                              *)
LEMMA StackRefines ==
  ASSUME Inv, StackStep
  PROVE  [Stream!Next]_(Stream!vars)
<1> USE DEF Inv, PeerInv, SetState
<1>1. UNCHANGED StreamRet
  BY DEF StackStep, Handshake, RecvData, AckData, AckFin, RecvFin, RecvRst, TimeWaitEnds, StreamRet
<1>2. CASE Handshake
  <2>1. UNCHANGED <<send_queue, recv_queue, fin, reset>> /\ ~fin /\ fin' \in BOOLEAN
    BY <1>2 DEF Handshake, dataVars, TypeOK
  <2>2. \/ StreamPhase = "fresh" /\ StreamPhase' = "half"
        \/ StreamPhase \in {"fresh", "half"} /\ StreamPhase' = "up"
    BY <1>2, <2>1 DEF Handshake, StreamPhase, Finished
  <2>3. Stream!Ask \/ Stream!Up
    BY <1>1, <2>1, <2>2 DEF Stream!Ask, Stream!Up, Stream!streams
  <2> QED BY <2>3 DEF Stream!Next
<1>3. CASE RecvData
  <2>1. UNCHANGED <<StreamPhase, send_queue, fin, reset>> /\ ~fin /\ StreamPhase # "fresh"
    BY <1>3 DEF RecvData, StreamPhase, tcpVars, Finished
  <2>2. Stream!Arrive
    BY <1>1, <1>3, <2>1 DEF RecvData, Stream!Arrive
  <2> QED BY <2>2 DEF Stream!Next
<1>4. CASE AckData
  <2>1. UNCHANGED <<StreamPhase, recv_queue, fin, reset>> /\ StreamPhase = "up"
    BY <1>4 DEF AckData, StreamPhase, tcpVars
  <2>2. Stream!Confirm
    BY <1>1, <1>4, <2>1 DEF AckData, Stream!Confirm
  <2> QED BY <2>2 DEF Stream!Next
<1>5. CASE AckFin \/ TimeWaitEnds
  <2>1. UNCHANGED <<send_queue, recv_queue, fin, reset>>
    BY <1>5 DEF AckFin, TimeWaitEnds, dataVars
  <2>2. StreamPhase = "down" /\ StreamPhase' = "down"
    BY <1>5, <2>1 DEF AckFin, TimeWaitEnds, StreamPhase, Finished
  <2> QED BY <1>1, <2>1, <2>2 DEF Stream!vars
<1>6. CASE RecvFin
  <2>1. UNCHANGED <<send_queue, recv_queue, reset>> /\ fin' = TRUE
    BY <1>6 DEF RecvFin, dataVars
  <2>2. \/ StreamPhase = "half" /\ StreamPhase' = "up"
        \/ StreamPhase # "fresh" /\ StreamPhase' = StreamPhase
    BY <1>6, <2>1 DEF RecvFin, StreamPhase, Finished
  <2>3. Stream!Up \/ Stream!PeerEnds
    BY <1>1, <2>1, <2>2 DEF Stream!Up, Stream!PeerEnds
  <2> QED BY <2>3 DEF Stream!Next
<1>7. CASE RecvRst
  <2>1. UNCHANGED <<send_queue, recv_queue, fin>> /\ reset' = TRUE
    BY <1>7 DEF RecvRst, dataVars
  <2>2. \/ StreamPhase = "half" /\ StreamPhase' = "fresh"
        \/ StreamPhase' = "down"
    BY <1>7, <2>1 DEF RecvRst, StreamPhase, Finished
  <2>3. Stream!Withdraw \/ Stream!Break
    BY <1>1, <2>1, <2>2 DEF Stream!Withdraw, Stream!Break
  <2> QED BY <2>3 DEF Stream!Next
<1> QED BY <1>2, <1>3, <1>4, <1>5, <1>6, <1>7 DEF StackStep

(* For any number of threads and any buffer size, the handle implements the *)
(* byte stream: every step of a call or of the stack is one of the stream's *)
(* steps, or leaves it alone.                                               *)
THEOREM StreamTheorem == Spec => IsByteStream
<1>1. Init => Stream!Init
  BY DEF Init, Stream!Init, StreamPhase, StreamRet, Finished
<1>2. Inv /\ [Next]_vars => [Stream!Next]_(Stream!vars)
  <2>1. ASSUME Inv, Next PROVE [Stream!Next]_(Stream!vars)
    BY <2>1, CallRefines, StackRefines DEF Next
  <2>2. UNCHANGED vars => UNCHANGED Stream!vars
    BY DEF vars, callVars, wakers, tcpVars, dataVars, Stream!vars, StreamPhase, StreamRet
  <2> QED BY <2>1, <2>2
<1> QED
  BY <1>1, <1>2, SocketInvariant, PTL DEF Spec, IsByteStream, Stream!Spec
=============================================================================
