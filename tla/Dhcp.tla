--------------------------------- MODULE Dhcp ---------------------------------
(***************************************************************************)
(* The interface configured by DHCP (feature dhcpv4): the second half of   *)
(* poll_common (hermit-sys/src/net/mod.rs 115-159), the threads that call  *)
(* poll_common, and what they leave behind for each other.                 *)
(*                                                                         *)
(* poll_common first runs iface.poll, which emits what is queued, and then *)
(* dhcp.poll, which may queue a message: it leaves with the NEXT           *)
(* poll_common.  poll_delay asks the sockets only, so nobody wakes up for  *)
(* the timer of the DHCP client (mod.rs 166-168).                          *)
(*                                                                         *)
(* Dhcpv4Client (external) discovers, requests and renews; a reply that    *)
(* does not fit its state is ignored.  The server (external) may be slow,  *)
(* lose messages and send configurations without an address or a router.   *)
(***************************************************************************)
EXTENDS Naturals

CONSTANTS
  Cidrs,        \* addresses that the server hands out
  Unspecified,  \* 0.0.0.0/0
  Routers,      \* routers that it names
  None,         \* no message, no router, no address in a configuration
  Retries       \* unanswered requests after which the client starts again

ASSUME DhcpAssumption ==
  /\ Unspecified \notin Cidrs
  /\ None \notin Cidrs \cup Routers
  /\ Retries \in Nat \ {0}

VARIABLES
  client,     \* Dhcpv4Client: "discover", "request" or "bound"
  retry,      \* messages it has sent in this state
  due,        \* has the client's timer expired?
  queued,     \* the message in the raw socket of the client
  onWire,     \* the message that the server sees
  inbox,      \* the reply in the device
  irq,        \* an interrupt that nic_thread has not seen
  app,        \* a thread of the application: "out", "in" block_on, or "asleep" there
  addr,       \* the first of the interface's addresses
  prev_cidr,  \* NetworkInterface.prev_cidr
  route,      \* the default route
  booted,     \* has network_init called poll_common?
  lease       \* history: the last address that the server acknowledged

clientVars == <<client, retry, due, queued>>
ifaceVars == <<addr, prev_cidr, route>>
vars == <<clientVars, onWire, inbox, irq, app, ifaceVars, booted, lease>>

Configs == [address : Cidrs \cup {Unspecified, None}, router : Routers \cup {None}]
NoConfig == [address |-> None, router |-> None]
Offer == [kind |-> "offer", config |-> NoConfig]
Acks == [kind : {"ack"}, config : Configs]

-----------------------------------------------------------------------------
(* Dhcpv4Client::poll: a reply advances the client; then, if the timer has  *)
(* expired, the message of the new state is queued, or the client gives up  *)
(* and starts again.                                                        *)
Advances == inbox # None /\ ((client = "discover" /\ inbox.kind = "offer")
                             \/ (client # "discover" /\ inbox.kind = "ack"))

DhcpPoll ==
  LET c == IF Advances THEN (IF client = "discover" THEN "request" ELSE "bound")
           ELSE IF due /\ retry >= Retries THEN "discover" ELSE client
      send == IF Advances THEN client = "discover" ELSE due
      sent == IF Advances \/ c # client THEN 0 ELSE retry
  IN  /\ client' = c
      /\ due' = FALSE
      /\ queued' = IF send THEN c ELSE None
      /\ retry' = IF send /\ c # "discover" THEN sent + 1 ELSE sent

(* Mutants of Assign: the first address is remembered for good; a missing   *)
(* address is assigned.                                                     *)
AssignFirstKept(cidr) ==
  IF cidr \notin {None, prev_cidr, Unspecified}
  THEN addr' = cidr /\ prev_cidr' = IF prev_cidr = Unspecified THEN cidr ELSE prev_cidr
  ELSE UNCHANGED <<addr, prev_cidr>>
AssignMissing(cidr) == addr' = cidr /\ prev_cidr' = cidr

(* A new address that is not unspecified replaces the one that is there.    *)
Assign(cidr) ==
  IF cidr \notin {None, prev_cidr, Unspecified}
  THEN addr' = cidr /\ prev_cidr' = cidr
  ELSE UNCHANGED <<addr, prev_cidr>>

(* The configuration that dhcp.poll returns is applied.                     *)
Configure ==
  IF Advances /\ inbox.kind = "ack"
  THEN /\ Assign(inbox.config.address)
       /\ route' = IF inbox.config.router = None THEN route ELSE inbox.config.router
       /\ lease' = IF inbox.config.address \in Cidrs THEN inbox.config.address ELSE lease
  ELSE UNCHANGED <<ifaceVars, lease>>

(* A mutant of PollCommon: iface.poll is not called.                        *)
PollCommonDhcpOnly ==
  /\ inbox' = None
  /\ DhcpPoll
  /\ Configure
  /\ UNCHANGED onWire

(* poll_common, under the NIC mutex.                                        *)
PollCommon ==
  /\ onWire' = IF queued = None THEN onWire ELSE queued
  /\ inbox' = None
  /\ DhcpPoll
  /\ Configure

-----------------------------------------------------------------------------
(* network_init.                                                            *)
InitPoll ==
  /\ ~booted
  /\ PollCommon
  /\ booted' = TRUE
  /\ UNCHANGED <<irq, app>>

(* nic_thread.                                                              *)
NicPoll ==
  /\ booted /\ irq
  /\ irq' = FALSE
  /\ PollCommon
  /\ UNCHANGED <<app, booted>>

(* A thread of the application calls accept, say.                           *)
Enter ==
  /\ booted /\ app = "out"
  /\ app' = "in"
  /\ UNCHANGED <<clientVars, onWire, inbox, irq, ifaceVars, booted, lease>>

(* block_on runs network_run while poll_delay is zero ...                   *)
AppPoll ==
  /\ app = "in"
  /\ queued # None
  /\ PollCommon
  /\ UNCHANGED <<irq, app, booted>>

(* ... and sleeps when no socket has anything to send.                      *)
AppSleep ==
  /\ app = "in"
  /\ queued = None
  /\ app' = "asleep"
  /\ UNCHANGED <<clientVars, onWire, inbox, irq, ifaceVars, booted, lease>>

(* Its own socket wakes it, and its call returns or goes on.                *)
Woken ==
  /\ app = "asleep"
  /\ \E a \in {"in", "out"} : app' = a
  /\ UNCHANGED <<clientVars, onWire, inbox, irq, ifaceVars, booted, lease>>

-----------------------------------------------------------------------------
(* The server, the clock and the network.                                   *)
Reply(r) ==
  /\ onWire # None
  /\ onWire' = None
  /\ inbox' = r
  /\ irq' = TRUE
  /\ UNCHANGED <<clientVars, app, ifaceVars, booted, lease>>

MakeOffer == onWire = "discover" /\ Reply(Offer)
MakeAck(r) == onWire \in {"request", "bound"} /\ Reply(r)

Lose ==
  /\ onWire # None
  /\ onWire' = None
  /\ UNCHANGED <<clientVars, inbox, irq, app, ifaceVars, booted, lease>>

Tick ==
  /\ ~due
  /\ due' = TRUE
  /\ UNCHANGED <<client, retry, queued, onWire, inbox, irq, app, ifaceVars, booted, lease>>

(* A frame of somebody else.                                                *)
OtherFrame ==
  /\ ~irq
  /\ irq' = TRUE
  /\ UNCHANGED <<clientVars, onWire, inbox, app, ifaceVars, booted, lease>>

-----------------------------------------------------------------------------
(* NetworkInterface::new.                                                   *)
Init ==
  /\ client = "discover" /\ retry = 0 /\ due = TRUE /\ queued = None
  /\ onWire = None /\ inbox = None
  /\ irq = FALSE
  /\ app = "out"
  /\ addr = Unspecified /\ prev_cidr = Unspecified
  /\ route = None
  /\ booted = FALSE
  /\ lease = Unspecified

Next ==
  \/ InitPoll \/ NicPoll \/ Enter \/ AppPoll \/ AppSleep \/ Woken
  \/ MakeOffer \/ Lose \/ Tick \/ OtherFrame
  \/ \E r \in Acks : MakeAck(r)

Spec == Init /\ [][Next]_vars

Usable == {r \in Acks : r.config.address \in Cidrs}

(* Threads are scheduled; the clock runs; a server that is asked again and  *)
(* again answers usably, and in time, again and again.                      *)
FairSpec ==
  /\ Spec
  /\ WF_vars(InitPoll) /\ WF_vars(NicPoll) /\ WF_vars(AppPoll)
  /\ WF_vars(Tick)
  /\ SF_vars(client = "discover" /\ MakeOffer)
  /\ SF_vars(client # "discover" /\ \E r \in Usable : MakeAck(r))

-----------------------------------------------------------------------------
(* The client, the messages and the interface have their types.             *)
TypeOK ==
  /\ client \in {"discover", "request", "bound"}
  /\ retry \in 0..Retries
  /\ {queued, onWire} \subseteq {"discover", "request", "bound", None}
  /\ inbox \in Acks \cup {Offer, None}
  /\ {due, irq, booted} \subseteq BOOLEAN
  /\ app \in {"out", "in", "asleep"}
  /\ {addr, prev_cidr, lease} \subseteq Cidrs \cup {Unspecified}
  /\ route \in Routers \cup {None}

(* The interface has the address that the server acknowledged last, however *)
(* often leases change, come back, carry no address or 0.0.0.0, and however *)
(* often the client starts again: poll_common may leave an address alone    *)
(* only because prev_cidr says that it is the one in use (mod.rs 126-136).  *)
AddressIsLastLease == addr = lease

(* Somebody is about to call poll_common.                                   *)
PollDue == irq \/ (app = "in" /\ queued # None)

(* As long as frames or calls make some thread run poll_common again and    *)
(* again, the interface gets an address, although messages get lost, come   *)
(* late or are useless.  Nobody runs it for the timer of the client         *)
(* (mod.rs 166-168), so that without them it may wait for ever.             *)
LeaseWhilePolled == ([]<>PollDue) => <>(addr # Unspecified)
=============================================================================
