----------------------------- MODULE DeviceProofs -----------------------------
(***************************************************************************)
(* What holds of the borrowed buffers for every number of receive and      *)
(* transmit buffers and of queued packets.                                 *)
(***************************************************************************)
EXTENDS Device, TLAPS

(* The place in poll_common tells which tokens are being consumed: a        *)
(* receive buffer from receive to sys_rx_buffer_consumed, a transmit buffer *)
(* between sys_get_tx_buffer and the end of TxToken::consume, and a packet  *)
(* of a socket while one is written.                                        *)
TokenInv ==
  /\ rxHandle # None <=> pc \in {"frame", "consumed", "reply", "replying"}
  /\ txHandle # None <=> pc \in {"replying", "sending"}
  /\ pc \in {"packet", "sending"} => egress > 0

(* Exactly the buffers of the tokens and the refused ones are held, and no  *)
(* token is made of a refused one.                                          *)
HeldInv ==
  /\ \A h \in RxHandles : rx[h] = "held" <=> h = rxHandle \/ <<"rx", h>> \in refused
  /\ \A h \in TxHandles : tx[h] = "held" <=> h = txHandle \/ <<"tx", h>> \in refused
  /\ <<"rx", rxHandle>> \notin refused
  /\ <<"tx", txHandle>> \notin refused

Inv == TypeOK /\ TokenInv /\ HeldInv

(* Every step keeps the types; that egress does not fall below 0 needs      *)
(* TokenInv.                                                                *)
LEMMA TypeStep == ASSUME TypeOK, TokenInv, [Next]_vars PROVE TypeOK'
<1> USE DeviceAssumption DEF TypeOK, TokenInv, bufVars, loopVars, Poll
<1>1. CASE PollCommon BY <1>1 DEF PollCommon
<1>2. ASSUME NEW h \in RxHandles, Receive(h) PROVE TypeOK'
  BY <1>2 DEF Receive
<1>3. ASSUME NEW h \in TxHandles, GetTxBuffer(h) PROVE TypeOK'
  BY <1>3 DEF GetTxBuffer
<1>4. CASE ReceiveNone BY <1>4 DEF ReceiveNone
<1>5. CASE Frame
  <2>1. egress' \in 0..MaxEgress
    BY <1>5 DEF Frame
  <2>2. pc' \in {"consumed", "reply"} /\ result' \in {"ok", "malformed"} /\ progress' \in BOOLEAN
    BY <1>5 DEF Frame
  <2> QED BY <1>5, <2>1, <2>2 DEF Frame
<1>6. CASE Consumed
  <2>1. PICK ok \in BOOLEAN :
          /\ rx' = IF ok THEN [rx EXCEPT ![rxHandle] = "free"] ELSE rx
          /\ refused' = IF ok THEN refused ELSE refused \cup {<<"rx", rxHandle>>}
          /\ IF ok /\ result = "ok" THEN pc' = "ingress" /\ UNCHANGED loopVars ELSE Poll
    BY <1>6 DEF Consumed
  <2>2. rxHandle \in RxHandles
    BY <1>6 DEF Consumed
  <2>3. refused' \subseteq ({"rx"} \X RxHandles) \cup ({"tx"} \X TxHandles)
    BY <2>1, <2>2
  <2>4. rx' \in [RxHandles -> {"free", "filled", "held"}]
    BY <2>1, <2>2
  <2>5. /\ pc' = "ingress"
        /\ progress' \in BOOLEAN /\ changed' \in BOOLEAN
    BY <2>1
  <2> QED BY <1>6, <2>3, <2>4, <2>5 DEF Consumed
<1>7. CASE Transmit BY <1>7 DEF Transmit
<1>8. CASE NoTxBuffer BY <1>8 DEF NoTxBuffer, TxReturns
<1>9. CASE SendTxBuffer
  <2>1. CASE pc = "replying" BY <1>9, <2>1 DEF SendTxBuffer, TxReturns
  <2>2. CASE pc = "sending" BY <1>9, <2>2 DEF SendTxBuffer, TxReturns
  <2> QED BY <1>9, <2>1, <2>2 DEF SendTxBuffer
<1>10. CASE SendRefused BY <1>10 DEF SendRefused, TxReturns
<1>11. CASE FreeTxBuffer BY <1>11 DEF FreeTxBuffer, TxReturns
<1>12. CASE EgressDone BY <1>12 DEF EgressDone
<1>13. CASE Round BY <1>13 DEF Round
<1>14. ASSUME NEW h \in RxHandles, Arrive(h) PROVE TypeOK'
  BY <1>14 DEF Arrive
<1>15. ASSUME NEW h \in TxHandles, Transmitted(h) PROVE TypeOK'
  BY <1>15 DEF Transmitted
<1>16. CASE Enqueue BY <1>16 DEF Enqueue
<1>17. CASE UNCHANGED vars BY <1>17 DEF vars
<1> HIDE DEF TypeOK
<1> QED
  BY <1>1, <1>2, <1>3, <1>4, <1>5, <1>6, <1>7, <1>8, <1>9, <1>10, <1>11, <1>12, <1>13, <1>14,
     <1>15, <1>16, <1>17 DEF Next, StackStep

(* Every call of receive, transmit and consume keeps the tokens in step     *)
(* with the place in poll_common, whichever way it ends.                    *)
LEMMA TokenStep == ASSUME TypeOK, TokenInv, [Next]_vars PROVE TokenInv'
<1> USE DeviceAssumption DEF TypeOK, TokenInv, bufVars, loopVars, Poll
<1>1. CASE PollCommon BY <1>1 DEF PollCommon
<1>2. ASSUME NEW h \in RxHandles, Receive(h) PROVE TokenInv'
  BY <1>2 DEF Receive
<1>3. ASSUME NEW h \in TxHandles, GetTxBuffer(h) PROVE TokenInv'
  BY <1>3 DEF GetTxBuffer
<1>4. CASE ReceiveNone BY <1>4 DEF ReceiveNone
<1>5. CASE Frame BY <1>5 DEF Frame
<1>6. CASE Consumed BY <1>6 DEF Consumed
<1>7. CASE Transmit BY <1>7 DEF Transmit
<1>8. CASE NoTxBuffer BY <1>8 DEF NoTxBuffer, TxReturns
<1>9. CASE SendTxBuffer BY <1>9 DEF SendTxBuffer, TxReturns
<1>10. CASE SendRefused BY <1>10 DEF SendRefused, TxReturns
<1>11. CASE FreeTxBuffer BY <1>11 DEF FreeTxBuffer, TxReturns
<1>12. CASE EgressDone BY <1>12 DEF EgressDone
<1>13. CASE Round BY <1>13 DEF Round
<1>14. ASSUME NEW h \in RxHandles, Arrive(h) PROVE TokenInv'
  BY <1>14 DEF Arrive
<1>15. ASSUME NEW h \in TxHandles, Transmitted(h) PROVE TokenInv'
  BY <1>15 DEF Transmitted
<1>16. CASE Enqueue BY <1>16 DEF Enqueue
<1>17. CASE UNCHANGED vars BY <1>17 DEF vars
<1> HIDE DEF TokenInv
<1> QED
  BY <1>1, <1>2, <1>3, <1>4, <1>5, <1>6, <1>7, <1>8, <1>9, <1>10, <1>11, <1>12, <1>13, <1>14,
     <1>15, <1>16, <1>17 DEF Next, StackStep

(* A buffer is borrowed with its token and given back with it, or refused.  *)
LEMMA HeldStep == ASSUME TypeOK, TokenInv, HeldInv, [Next]_vars PROVE HeldInv'
<1> USE DeviceAssumption DEF TypeOK, TokenInv, HeldInv, bufVars, loopVars
<1>1. ASSUME NEW h \in RxHandles, Receive(h) PROVE HeldInv'
  BY <1>1 DEF Receive
<1>2. ASSUME NEW h \in TxHandles, GetTxBuffer(h) PROVE HeldInv'
  BY <1>2 DEF GetTxBuffer
<1>3. CASE Consumed BY <1>3 DEF Consumed
<1>4. CASE NoTxBuffer BY <1>4 DEF NoTxBuffer, TxReturns
<1>5. CASE SendTxBuffer BY <1>5 DEF SendTxBuffer, TxReturns
<1>6. CASE SendRefused BY <1>6 DEF SendRefused, TxReturns
<1>7. CASE FreeTxBuffer BY <1>7 DEF FreeTxBuffer, TxReturns
<1>8. ASSUME NEW h \in RxHandles, Arrive(h) PROVE HeldInv'
  BY <1>8 DEF Arrive
<1>9. ASSUME NEW h \in TxHandles, Transmitted(h) PROVE HeldInv'
  BY <1>9 DEF Transmitted
<1>10. CASE UNCHANGED bufVars BY <1>10
<1> HIDE DEF HeldInv
<1> QED
  BY <1>1, <1>2, <1>3, <1>4, <1>5, <1>6, <1>7, <1>8, <1>9, <1>10
     DEF Next, StackStep, PollCommon, ReceiveNone, Frame, Transmit, EgressDone, Round, Enqueue, vars

-----------------------------------------------------------------------------
(* Inv is an invariant of the device.                                       *)
THEOREM DeviceInvariant == Spec => []Inv
<1>1. Init => Inv
  <2> SUFFICES ASSUME Init PROVE Inv
    OBVIOUS
  <2>1. rx \in [RxHandles -> {"free", "filled", "held"}]
    BY DEF Init
  <2>2. tx \in [TxHandles -> {"free", "held", "sent"}]
    BY DEF Init
  <2>3. TypeOK
    <3>1. egress \in 0..MaxEgress
      BY DeviceAssumption DEF Init
    <3> QED BY <2>1, <2>2, <3>1 DEF Init, TypeOK
  <2>4. TokenInv /\ HeldInv
    BY DeviceAssumption DEF Init, TokenInv, HeldInv
  <2> QED BY <2>3, <2>4 DEF Inv
<1>2. Inv /\ [Next]_vars => Inv'
  BY TypeStep, TokenStep, HeldStep DEF Inv
<1> QED
  BY <1>1, <1>2, PTL DEF Spec

(* The buffers and the tokens of the device keep their types.               *)
THEOREM DeviceTypes == Spec => []TypeOK
<1>1. Inv => TypeOK
  BY DEF Inv
<1> QED
  BY <1>1, DeviceInvariant, PTL

(* device.rs 214-225, 237-258: whatever fails on the way, only the buffers  *)
(* of the consume that runs, and those that the kernel refused to take, are *)
(* borrowed.                                                                *)
THEOREM BorrowTheorem == Spec => []BorrowedOrRefused
<1>1. Inv => BorrowedOrRefused
  BY DeviceAssumption DEF Inv, TypeOK, TokenInv, HeldInv, BorrowedOrRefused
<1> QED
  BY <1>1, DeviceInvariant, PTL

(* device.rs 214-225: a frame is read and answered while its buffer is held.*)
THEOREM FrameTheorem == Spec => []FrameReadWhileHeld
<1>1. Inv => FrameReadWhileHeld
  BY DeviceAssumption DEF Inv, TypeOK, TokenInv, HeldInv, FrameReadWhileHeld
<1> QED
  BY <1>1, DeviceInvariant, PTL
=============================================================================
