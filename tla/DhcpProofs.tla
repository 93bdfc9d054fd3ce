------------------------------ MODULE DhcpProofs ------------------------------
(***************************************************************************)
(* What holds of the configuration by DHCP for every set of addresses and  *)
(* routers and every number of retries.                                    *)
(***************************************************************************)
EXTENDS Dhcp, TLAPS

(* Dhcpv4Client::poll: the client never sends more than Retries messages in *)
(* one state, and queues the message of the state that it enters.           *)
LEMMA DhcpPollTypes ==
  ASSUME TypeOK, DhcpPoll
  PROVE  /\ client' \in {"discover", "request", "bound"}
         /\ retry' \in 0..Retries
         /\ queued' \in {"discover", "request", "bound", None}
         /\ due' \in BOOLEAN
<1> DEFINE c == IF Advances THEN (IF client = "discover" THEN "request" ELSE "bound")
                ELSE IF due /\ retry >= Retries THEN "discover" ELSE client
           send == IF Advances THEN client = "discover" ELSE due
           sent == IF Advances \/ c # client THEN 0 ELSE retry
<1>1. /\ client' = c
      /\ due' = FALSE
      /\ queued' = IF send THEN c ELSE None
      /\ retry' = IF send /\ c # "discover" THEN sent + 1 ELSE sent
  BY DEF DhcpPoll
<1>2. c \in {"discover", "request", "bound"}
  BY DEF TypeOK
<1>3. sent \in 0..Retries
  BY DhcpAssumption DEF TypeOK
<1>4. send /\ c # "discover" => sent + 1 \in 0..Retries
  BY DhcpAssumption DEF TypeOK
<1> QED BY <1>1, <1>2, <1>3, <1>4

(* An acknowledgement names an address, 0.0.0.0 or none.                    *)
LEMMA AckAddress ==
  ASSUME TypeOK, Advances, inbox.kind = "ack"
  PROVE  /\ inbox.config.address \in Cidrs \cup {Unspecified, None}
         /\ inbox.config.router \in Routers \cup {None}
<1>1. inbox \in Acks
  BY DEF TypeOK, Advances, Offer
<1> QED BY <1>1 DEF Acks, Configs

(* An address, a router or nothing is configured.                           *)
LEMMA ConfigureTypes ==
  ASSUME TypeOK, Configure
  PROVE  /\ {addr', prev_cidr', lease'} \subseteq Cidrs \cup {Unspecified}
         /\ route' \in Routers \cup {None}
<1>1. CASE Advances /\ inbox.kind = "ack"
  <2>1. /\ inbox.config.address \in Cidrs \cup {Unspecified, None}
        /\ inbox.config.router \in Routers \cup {None}
    BY <1>1, AckAddress
  <2> QED BY <1>1, <2>1 DEF Configure, Assign, TypeOK
<1>2. CASE ~(Advances /\ inbox.kind = "ack")
  BY <1>2 DEF Configure, ifaceVars, TypeOK
<1> QED BY <1>1, <1>2

(* poll_common keeps the types.                                             *)
LEMMA PollCommonTypes ==
  ASSUME TypeOK, PollCommon, {irq', booted'} \subseteq BOOLEAN, app' \in {"out", "in", "asleep"}
  PROVE  TypeOK'
<1>1. /\ onWire' \in {"discover", "request", "bound", None}
      /\ inbox' = None
      /\ DhcpPoll /\ Configure
  BY DEF PollCommon, TypeOK
<1> QED BY <1>1, DhcpPollTypes, ConfigureTypes DEF TypeOK

(* Every step keeps the types.                                              *)
LEMMA TypeStep == ASSUME TypeOK, [Next]_vars PROVE TypeOK'
<1>1. CASE InitPoll
  <2>1. PollCommon /\ {irq', booted'} \subseteq BOOLEAN /\ app' \in {"out", "in", "asleep"}
    BY <1>1 DEF InitPoll, TypeOK
  <2> QED BY <2>1, PollCommonTypes
<1>2. CASE NicPoll
  <2>1. PollCommon /\ {irq', booted'} \subseteq BOOLEAN /\ app' \in {"out", "in", "asleep"}
    BY <1>2 DEF NicPoll, TypeOK
  <2> QED BY <2>1, PollCommonTypes
<1>3. CASE AppPoll
  <2>1. PollCommon /\ {irq', booted'} \subseteq BOOLEAN /\ app' \in {"out", "in", "asleep"}
    BY <1>3 DEF AppPoll, TypeOK
  <2> QED BY <2>1, PollCommonTypes
<1> USE DEF TypeOK, clientVars, ifaceVars
<1>4. CASE Enter BY <1>4 DEF Enter
<1>5. CASE AppSleep BY <1>5 DEF AppSleep
<1>6. CASE Woken BY <1>6 DEF Woken
<1>7. CASE MakeOffer BY <1>7 DEF MakeOffer, Reply
<1>8. ASSUME NEW r \in Acks, MakeAck(r) PROVE TypeOK'
  BY <1>8 DEF MakeAck, Reply
<1>9. CASE Lose BY <1>9 DEF Lose
<1>10. CASE Tick BY <1>10 DEF Tick
<1>11. CASE OtherFrame BY <1>11 DEF OtherFrame
<1>12. CASE UNCHANGED vars BY <1>12 DEF vars
<1> HIDE DEF TypeOK
<1> QED
  BY <1>1, <1>2, <1>3, <1>4, <1>5, <1>6, <1>7, <1>8, <1>9, <1>10, <1>11, <1>12 DEF Next

-----------------------------------------------------------------------------
(* prev_cidr is the address of the interface, so poll_common's comparison   *)
(* with prev_cidr (mod.rs 127) is a comparison with the address.            *)
LeaseInv == TypeOK /\ prev_cidr = addr /\ AddressIsLastLease

(* Only poll_common touches the interface: what a step may do to it.        *)
LEMMA IfaceStep ==
  ASSUME [Next]_vars
  PROVE  Configure \/ UNCHANGED <<ifaceVars, lease>>
<1> USE DEF clientVars
<1>1. CASE InitPoll \/ NicPoll \/ AppPoll
  BY <1>1 DEF InitPoll, NicPoll, AppPoll, PollCommon
<1>2. CASE ~(InitPoll \/ NicPoll \/ AppPoll)
  BY <1>2 DEF Next, Enter, AppSleep, Woken, MakeOffer, MakeAck, Reply, Lose, Tick, OtherFrame, vars
<1> QED BY <1>1, <1>2

(* The initial state has the types.                                         *)
LEMMA InitTypes == ASSUME Init PROVE TypeOK
<1>1. retry \in 0..Retries
  BY DhcpAssumption DEF Init
<1> QED BY <1>1 DEF Init, TypeOK

(* The types, for every number of retries.                                  *)
THEOREM DhcpTypes == Spec => []TypeOK
<1>1. Init => TypeOK
  BY InitTypes
<1>2. TypeOK /\ [Next]_vars => TypeOK'
  BY TypeStep
<1> QED
  BY <1>1, <1>2, PTL DEF Spec

(* mod.rs 126-136: for every sequence of acknowledgements the address is    *)
(* the last usable one.                                                     *)
THEOREM LeaseTheorem == Spec => []AddressIsLastLease
<1>1. Init => LeaseInv
  BY InitTypes DEF Init, LeaseInv, AddressIsLastLease
<1>2. ASSUME LeaseInv, [Next]_vars PROVE LeaseInv'
  <2>1. TypeOK'
    BY <1>2, TypeStep DEF LeaseInv
  <2>2. CASE Configure /\ Advances /\ inbox.kind = "ack"
    <3>1. inbox.config.address \in Cidrs \cup {Unspecified, None}
      BY <1>2, <2>2, AckAddress DEF LeaseInv
    <3> QED
      BY <1>2, <2>1, <2>2, <3>1, DhcpAssumption DEF LeaseInv, AddressIsLastLease, Configure, Assign
  <2>3. CASE UNCHANGED <<ifaceVars, lease>>
    BY <1>2, <2>1, <2>3 DEF LeaseInv, AddressIsLastLease, ifaceVars
  <2> QED BY <1>2, <2>2, <2>3, IfaceStep DEF Configure
<1>3. LeaseInv => AddressIsLastLease
  BY DEF LeaseInv
<1> QED
  BY <1>1, <1>2, <1>3, PTL DEF Spec
=============================================================================
