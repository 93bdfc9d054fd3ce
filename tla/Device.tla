-------------------------------- MODULE Device --------------------------------
(***************************************************************************)
(* The buffers that hermit-sys/src/net/device.rs borrows from the kernel   *)
(* while poll_common (net/mod.rs 107-114) runs under the NIC mutex:        *)
(* Device::receive and transmit, RxToken::consume, TxToken::consume, the   *)
(* latter also inside the former when a frame is answered.                 *)
(*                                                                         *)
(* smoltcp's EthernetInterface::poll (external) alternates socket_ingress  *)
(* and socket_egress until neither does anything; an error of ingress ends *)
(* it, and so does an error of egress other than Error::Exhausted, which   *)
(* only ends the egress.  The kernel (external) fills receive buffers,     *)
(* sends transmit buffers, and may refuse each call.                       *)
(***************************************************************************)
EXTENDS Naturals

CONSTANTS
  RxHandles,  \* the kernel's receive buffers
  TxHandles,  \* the kernel's transmit buffers
  None,       \* no buffer
  MaxEgress   \* packets that sockets have to send at once

ASSUME DeviceAssumption ==
  /\ None \notin RxHandles \cup TxHandles
  /\ MaxEgress \in Nat

VARIABLES
  rx,        \* "free", "filled" or "held" (borrowed), for each receive buffer
  tx,        \* "free", "held" (borrowed) or "sent", for each transmit buffer
  refused,   \* handles that the kernel refused to take: <<"rx", h>>, <<"tx", h>>
  pc,        \* where poll_common is
  rxHandle,  \* RxToken.handle of the consume that runs
  txHandle,  \* the handle in TxToken::consume that runs
  egress,    \* packets that sockets want to send
  result,    \* the result that a consume is about to return
  progress,  \* has this round of iface.poll done anything?
  changed    \* has this call of iface.poll done anything?

bufVars == <<rx, tx, refused, rxHandle, txHandle>>
loopVars == <<progress, changed>>
vars == <<bufVars, pc, egress, result, loopVars>>

-----------------------------------------------------------------------------
(* iface.poll is called; poll_common calls it again until it returns        *)
(* Ok(false).                                                               *)
Poll ==
  /\ pc' = "ingress"
  /\ progress' = FALSE
  /\ changed' = FALSE

PollCommon ==
  /\ pc = "idle"
  /\ Poll
  /\ UNCHANGED <<bufVars, egress, result>>

(* Device::receive: a token for a buffer that the kernel has filled.        *)
Receive(h) ==
  /\ pc = "ingress"
  /\ rx[h] = "filled"
  /\ rx' = [rx EXCEPT ![h] = "held"]
  /\ rxHandle' = h
  /\ pc' = "frame"
  /\ UNCHANGED <<tx, refused, txHandle, egress, result, loopVars>>

ReceiveNone ==
  /\ pc = "ingress"
  /\ \A h \in RxHandles : rx[h] # "filled"
  /\ pc' = "egress"
  /\ UNCHANGED <<bufVars, egress, result, loopVars>>

(* RxToken::consume, f(self.buffer): the frame is refused, or taken (and a  *)
(* socket may have something to send), or answered at once.                 *)
Frame ==
  /\ pc = "frame"
  /\ \/ result' = "malformed" /\ pc' = "consumed" /\ UNCHANGED <<egress, progress>>
     \/ /\ result' = "ok"
        /\ progress' = TRUE
        /\ \/ pc' = "consumed" /\ egress' \in {egress, MaxEgress}
           \/ pc' = "reply" /\ UNCHANGED egress
  /\ UNCHANGED <<bufVars, changed>>

(* Mutants of Consumed: the error of f is returned with `?` first; the      *)
(* buffer is given back before the frame is answered.                       *)
ConsumedEarlyReturn ==
  /\ pc = "consumed"
  /\ rx' = IF result = "ok" THEN [rx EXCEPT ![rxHandle] = "free"] ELSE rx
  /\ rxHandle' = None
  /\ IF result = "ok" THEN pc' = "ingress" /\ UNCHANGED loopVars ELSE Poll
  /\ UNCHANGED <<tx, refused, txHandle, egress, result>>
ConsumedBeforeReply ==
  /\ pc \in {"frame", "consumed"}
  /\ rx' = [rx EXCEPT ![rxHandle] = "free"]
  /\ IF pc = "frame" THEN pc' = "reply" /\ UNCHANGED loopVars
     ELSE IF result = "ok" THEN pc' = "ingress" /\ UNCHANGED loopVars ELSE Poll
  /\ rxHandle' = None
  /\ UNCHANGED <<tx, refused, txHandle, egress, result>>

(* sys_rx_buffer_consumed: if the kernel refuses it, the buffer stays       *)
(* borrowed, and the result of f is replaced by Exhausted.  An error leaves *)
(* iface.poll, and unwrap_or(true) starts it again.                         *)
Consumed ==
  /\ pc = "consumed"
  /\ \E ok \in BOOLEAN :
       /\ rx' = IF ok THEN [rx EXCEPT ![rxHandle] = "free"] ELSE rx
       /\ refused' = IF ok THEN refused ELSE refused \cup {<<"rx", rxHandle>>}
       /\ IF ok /\ result = "ok" THEN pc' = "ingress" /\ UNCHANGED loopVars ELSE Poll
  /\ rxHandle' = None
  /\ UNCHANGED <<tx, txHandle, egress, result>>

(* A token of Device::transmit is always there.                             *)
Transmit ==
  /\ pc = "egress"
  /\ egress > 0
  /\ pc' = "packet"
  /\ UNCHANGED <<bufVars, egress, result, loopVars>>

-----------------------------------------------------------------------------
(* TxToken::consume ends; in a reply its result becomes the result of the   *)
(* receiving closure, in the egress Exhausted means that the others wait,   *)
(* and any other error leaves iface.poll with the packet still queued.      *)
TxReturns(r) ==
  /\ txHandle' = None
  /\ IF pc \in {"reply", "replying"}
     THEN pc' = "consumed" /\ result' = r /\ UNCHANGED <<egress, loopVars>>
     ELSE /\ UNCHANGED result
          /\ CASE r = "ok" -> pc' = "egress" /\ egress' = egress - 1 /\ progress' = TRUE
                              /\ UNCHANGED changed
               [] r = "exhausted" -> pc' = "round" /\ UNCHANGED <<egress, loopVars>>
               [] OTHER -> Poll /\ UNCHANGED egress

(* sys_get_tx_buffer.                                                       *)
GetTxBuffer(h) ==
  /\ pc \in {"reply", "packet"}
  /\ tx[h] = "free"
  /\ tx' = [tx EXCEPT ![h] = "held"]
  /\ txHandle' = h
  /\ pc' = IF pc = "reply" THEN "replying" ELSE "sending"
  /\ UNCHANGED <<rx, refused, rxHandle, egress, result, loopVars>>

(* A mutant of NoTxBuffer: the refusal is reported as another error.        *)
NoTxBufferMalformed ==
  /\ pc \in {"reply", "packet"}
  /\ TxReturns("malformed")
  /\ UNCHANGED <<rx, tx, refused, rxHandle>>

(* The kernel has no transmit buffer: Error::Exhausted.                     *)
NoTxBuffer ==
  /\ pc \in {"reply", "packet"}
  /\ TxReturns("exhausted")
  /\ UNCHANGED <<rx, tx, refused, rxHandle>>

(* f has written the packet: sys_send_tx_buffer.                            *)
SendTxBuffer ==
  /\ pc \in {"replying", "sending"}
  /\ tx' = [tx EXCEPT ![txHandle] = "sent"]
  /\ TxReturns("ok")
  /\ UNCHANGED <<rx, refused, rxHandle>>

(* A mutant of SendRefused: the refusal is an error of its own.             *)
SendRefusedIllegal ==
  /\ pc \in {"replying", "sending"}
  /\ refused' = refused \cup {<<"tx", txHandle>>}
  /\ TxReturns("illegal")
  /\ UNCHANGED <<rx, tx, rxHandle>>

(* The kernel refuses to send: the handle is neither sent nor freed, and    *)
(* not used again, so its buffer stays borrowed.                            *)
SendRefused ==
  /\ pc \in {"replying", "sending"}
  /\ refused' = refused \cup {<<"tx", txHandle>>}
  /\ TxReturns("exhausted")
  /\ UNCHANGED <<rx, tx, rxHandle>>

(* A mutant of FreeTxBuffer: the error is returned without the call.        *)
FreeTxBufferMissing ==
  /\ pc \in {"replying", "sending"}
  /\ TxReturns("malformed")
  /\ UNCHANGED <<rx, tx, refused, rxHandle>>

(* f cannot write the answer or the packet: sys_free_tx_buffer, Err(e).     *)
FreeTxBuffer ==
  /\ pc \in {"replying", "sending"}
  /\ tx' = [tx EXCEPT ![txHandle] = "free"]
  /\ TxReturns("malformed")
  /\ UNCHANGED <<rx, refused, rxHandle>>

-----------------------------------------------------------------------------
EgressDone ==
  /\ pc = "egress"
  /\ egress = 0
  /\ pc' = "round"
  /\ UNCHANGED <<bufVars, egress, result, loopVars>>

(* The end of a round of iface.poll, of iface.poll, and of poll_common.     *)
Round ==
  /\ pc = "round"
  /\ \/ progress /\ pc' = "ingress" /\ progress' = FALSE /\ changed' = TRUE
     \/ ~progress /\ changed /\ Poll
     \/ ~progress /\ ~changed /\ pc' = "idle" /\ UNCHANGED loopVars
  /\ UNCHANGED <<bufVars, egress, result>>

(* The kernel and the sockets' users.                                       *)
Arrive(h) ==
  /\ rx[h] = "free"
  /\ rx' = [rx EXCEPT ![h] = "filled"]
  /\ UNCHANGED <<tx, refused, rxHandle, txHandle, pc, egress, result, loopVars>>

Transmitted(h) ==
  /\ tx[h] = "sent"
  /\ tx' = [tx EXCEPT ![h] = "free"]
  /\ UNCHANGED <<rx, refused, rxHandle, txHandle, pc, egress, result, loopVars>>

Enqueue ==
  /\ pc = "idle"
  /\ egress < MaxEgress
  /\ egress' = egress + 1
  /\ UNCHANGED <<bufVars, pc, result, loopVars>>

-----------------------------------------------------------------------------
(* HermitNet::new: nothing is borrowed before the first poll_common.        *)
Init ==
  /\ refused = {}
  /\ rx = [h \in RxHandles |-> "free"]
  /\ tx = [h \in TxHandles |-> "free"]
  /\ pc = "idle"
  /\ rxHandle = None
  /\ txHandle = None
  /\ egress = 0
  /\ result = "ok"
  /\ progress = FALSE
  /\ changed = FALSE

StackStep ==
  \/ \E h \in RxHandles : Receive(h)
  \/ \E h \in TxHandles : GetTxBuffer(h)
  \/ ReceiveNone \/ Frame \/ Consumed \/ Transmit \/ NoTxBuffer
  \/ SendTxBuffer \/ SendRefused \/ FreeTxBuffer \/ EgressDone \/ Round

Next ==
  \/ PollCommon \/ StackStep
  \/ \E h \in RxHandles : Arrive(h)
  \/ \E h \in TxHandles : Transmitted(h)
  \/ Enqueue

Spec == Init /\ [][Next]_vars

(* poll_common is not interrupted for ever.                                 *)
FairSpec == Spec /\ WF_vars(StackStep)

-----------------------------------------------------------------------------
(* The buffers and the position of poll_common have their types.            *)
TypeOK ==
  /\ rx \in [RxHandles -> {"free", "filled", "held"}]
  /\ tx \in [TxHandles -> {"free", "held", "sent"}]
  /\ refused \subseteq ({"rx"} \X RxHandles) \cup ({"tx"} \X TxHandles)
  /\ pc \in {"idle", "ingress", "frame", "consumed", "reply", "replying", "egress", "packet",
             "sending", "round"}
  /\ rxHandle \in RxHandles \cup {None}
  /\ txHandle \in TxHandles \cup {None}
  /\ egress \in 0..MaxEgress
  /\ result \in {"ok", "malformed", "exhausted"}
  /\ progress \in BOOLEAN /\ changed \in BOOLEAN

(* Every path through receive, the two consumes and their errors gives its  *)
(* buffers back: the buffers that are borrowed are those of the consume     *)
(* that runs, none once poll_common has returned, and those that the kernel *)
(* itself refused to send or to take back.  The latter are borrowed for     *)
(* good, since nobody keeps their handle (device.rs 220-225, 246-252).      *)
BorrowedOrRefused ==
  /\ \A h \in RxHandles : rx[h] = "held" <=> h = rxHandle \/ <<"rx", h>> \in refused
  /\ \A h \in TxHandles : tx[h] = "held" <=> h = txHandle \/ <<"tx", h>> \in refused
  /\ pc = "idle" => rxHandle = None /\ txHandle = None

(* A frame is looked at, and its answer written, only while its buffer is   *)
(* borrowed: the slice is 'static and nothing but the order of the calls in *)
(* consume keeps the kernel from filling it again.                          *)
FrameReadWhileHeld ==
  pc \in {"frame", "reply", "replying"} => rxHandle # None /\ rx[rxHandle] = "held"

(* poll_common, which holds the NIC mutex and restarts iface.poll on every  *)
(* error (mod.rs 108-112), ends when frames cease to arrive and packets can *)
(* be written, even if the kernel refuses every call from then on.  A       *)
(* packet that can never be written (device.rs 253-256) would keep it in    *)
(* its loop for ever.                                                       *)
PollCommonEnds ==
  (<>[][~FreeTxBuffer /\ \A h \in RxHandles : ~Arrive(h)]_vars) => (pc # "idle" ~> pc = "idle")
=============================================================================
