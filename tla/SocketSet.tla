------------------------------ MODULE SocketSet ------------------------------
(***************************************************************************)
(* All sockets of the interface (hermit-sys/src/net/mod.rs): create_handle *)
(* adds one for every connect and every accept and nothing removes one;    *)
(* connect draws its local port from LOCAL_ENDPOINT; a SYN goes to the     *)
(* first socket of the set that listens.  A handle is an index.            *)
(*                                                                         *)
(* One connection is followed from the call that asks for it to the handle *)
(* that the application gets; data and orderly shutdown are AsyncSocket's  *)
(* subject, so close is one step here.                                     *)
(***************************************************************************)
EXTENDS Naturals, Sequences

CONSTANTS
  Threads,     \* threads that call connect, accept and close
  Clients,     \* remote connection attempts to the port that accept uses
  None,        \* no connection
  PortSpace,   \* 2^16: LOCAL_ENDPOINT is an AtomicU16
  MaxSockets   \* bound on the calls that create a socket

ASSUME SetAssumption ==
  /\ PortSpace \in Nat /\ PortSpace > 1
  /\ MaxSockets \in Nat
  /\ Clients \cap (Nat \cup {None}) = {}
  /\ None \notin Nat

VARIABLES
  sockets,        \* SocketSet: a sequence of sockets, never shortened (.late: its
                  \* connect timed out; .reset: it was reset half-open)
  LOCAL_ENDPOINT, \* the next local port
  draws,          \* how many ports have been drawn
  call,           \* each thread's call: <<name, handle>>
  given,          \* handle -> the connection it stood for when it was returned
  arrived         \* clients that have sent their SYN

vars == <<sockets, LOCAL_ENDPOINT, draws, call, given, arrived>>
portVars == <<LOCAL_ENDPOINT, draws>>

Handles == 1..Len(sockets)

(* A new TcpSocket.                                                         *)
Fresh == [state |-> "closed", port |-> 0, draw |-> 0, conn |-> None, late |-> FALSE,
          reset |-> FALSE]

(* A mutant of create_handle: the slot of a closed connection is used again.*)
create_handle_reusing ==
  IF \E h \in Handles : sockets[h].state = "closed" /\ given[h] # None
  THEN LET h == CHOOSE g \in Handles : sockets[g].state = "closed" /\ given[g] # None
       IN <<h, [sockets EXCEPT ![h] = Fresh]>>
  ELSE <<Len(sockets) + 1, Append(sockets, Fresh)>>

(* The new handle and the new set.                                          *)
create_handle == <<Len(sockets) + 1, Append(sockets, Fresh)>>

Idle(t) == call[t] = <<"none", 0>>
Return(t) == call' = [call EXCEPT ![t] = <<"none", 0>>]
Set(h, s) == sockets' = [sockets EXCEPT ![h] = s]

-----------------------------------------------------------------------------
(* AsyncSocket::new at the start of sys_tcp_stream_connect and              *)
(* sys_tcp_listener_accept.                                                 *)
Open(t, c) ==
  /\ Idle(t)
  /\ Len(sockets) < MaxSockets
  /\ sockets' = create_handle[2]
  /\ call' = [call EXCEPT ![t] = <<c, create_handle[1]>>]
  /\ given' = IF create_handle[1] \in Handles THEN given ELSE Append(given, None)
  /\ UNCHANGED <<portVars, arrived>>

(* An address that does not parse: connect fails before it draws a port.    *)
BadAddress(t) ==
  /\ call[t][1] = "connect"
  /\ Return(t)
  /\ UNCHANGED <<sockets, portVars, given, arrived>>

(* Mutants of fetch_add: the increment is lost; the counter is wider.       *)
fetch_add_lost ==
  /\ LOCAL_ENDPOINT' = LOCAL_ENDPOINT
  /\ draws' = draws + 1

fetch_add_wide ==
  /\ LOCAL_ENDPOINT' = LOCAL_ENDPOINT + 1
  /\ draws' = draws + 1

(* LOCAL_ENDPOINT.fetch_add(1).                                             *)
fetch_add ==
  /\ LOCAL_ENDPOINT' = (LOCAL_ENDPOINT + 1) % PortSpace
  /\ draws' = draws + 1

(* s.connect: port 0 and an unusable remote endpoint are refused, and the   *)
(* port is spent all the same.                                              *)
Connect(t) ==
  LET h == call[t][2] IN
  /\ call[t][1] = "connect"
  /\ fetch_add
  /\ \/ Return(t) /\ UNCHANGED sockets
     \/ /\ LOCAL_ENDPOINT # 0
        /\ Set(h, [Fresh EXCEPT !.state = "syn", !.port = LOCAL_ENDPOINT,
                                  !.draw = draws', !.conn = draws'])
        /\ call' = [call EXCEPT ![t][1] = "connecting"]
  /\ UNCHANGED <<given, arrived>>

Listen(t) ==
  LET h == call[t][2] IN
  /\ call[t][1] = "accept"
  /\ Set(h, [Fresh EXCEPT !.state = "listen"])
  /\ call' = [call EXCEPT ![t][1] = "accepting"]
  /\ UNCHANGED <<portVars, given, arrived>>

(* s.listen refuses port 0.                                                 *)
ListenRefused(t) ==
  /\ call[t][1] = "accept"
  /\ Return(t)
  /\ UNCHANGED <<sockets, portVars, given, arrived>>

(* A mutant of Polled: accept fails if the connection is not yet open.      *)
PolledOpenOnly(t) ==
  LET h == call[t][2]
      s == sockets[h].state IN
  /\ call[t][1] \in {"connecting", "accepting"} /\ s \in {"half", "open", "closed"}
  /\ Return(t)
  /\ given' = IF s = "open" THEN [given EXCEPT ![h] = sockets[h].conn] ELSE given
  /\ UNCHANGED <<sockets, portVars, arrived>>

(* The poll_fns of connect and accept are Ready.  connect returns its       *)
(* handle, or an error; accept fails on a closed socket, and goes on when   *)
(* the socket is active.                                                    *)
Polled(t) ==
  LET h == call[t][2]
      s == sockets[h].state IN
  /\ \/ /\ call[t][1] = "connecting" /\ s \in {"open", "closed", "listen"}
        /\ Return(t)
        /\ given' = IF s = "open" THEN [given EXCEPT ![h] = sockets[h].conn] ELSE given
     \/ /\ call[t][1] = "accepting" /\ s = "closed"
        /\ Return(t)
        /\ UNCHANGED given
     \/ /\ call[t][1] = "accepting" /\ s \in {"half", "open"}
        /\ call' = [call EXCEPT ![t][1] = "accepted"]
        /\ UNCHANGED given
  /\ UNCHANGED <<sockets, portVars, arrived>>

(* accept takes the lock again and returns the remote endpoint of whatever  *)
(* the socket has become by then; reset forgets what befell earlier clients.*)
Accepted(t) ==
  LET h == call[t][2] IN
  /\ call[t][1] = "accepted"
  /\ Return(t)
  /\ given' = [given EXCEPT ![h] = sockets[h].conn]
  /\ Set(h, [sockets[h] EXCEPT !.reset = @ /\ sockets[h].state = "listen"])
  /\ UNCHANGED <<portVars, arrived>>

(* block_on's timeout: connect fails; its socket goes on without an owner.  *)
(* The answer may have come after the poll that was still pending.          *)
Timeout(t) ==
  LET h == call[t][2] IN
  /\ call[t][1] = "connecting"
  /\ Return(t)
  /\ Set(h, [sockets[h] EXCEPT !.late = TRUE])
  /\ UNCHANGED <<portVars, given, arrived>>

(* sys_tcp_stream_close: the connection ends, the socket stays in the set.  *)
Close(t, h) ==
  /\ Idle(t)
  /\ given[h] # None
  /\ sockets[h].state \in {"half", "open", "listen"}
  /\ Set(h, [sockets[h] EXCEPT !.state = "closed"])
  /\ UNCHANGED <<portVars, call, given, arrived>>

-----------------------------------------------------------------------------
(* smoltcp and the network (external).                                      *)
Answered(h) ==
  /\ sockets[h].state \in {"syn", "half"}
  /\ Set(h, [sockets[h] EXCEPT !.state = "open"])
  /\ UNCHANGED <<portVars, call, given, arrived>>

AcceptsSyn(h) == sockets[h].state = "listen"

(* A SYN goes to the first socket that listens; without one it is refused.  *)
Syn(c) ==
  /\ c \notin arrived
  /\ arrived' = arrived \cup {c}
  /\ IF \E h \in Handles : AcceptsSyn(h)
     THEN LET h == CHOOSE g \in Handles : AcceptsSyn(g) /\ \A k \in 1..(g - 1) : ~AcceptsSyn(k)
          IN Set(h, [sockets[h] EXCEPT !.state = "half", !.conn = c])
     ELSE UNCHANGED sockets
  /\ UNCHANGED <<portVars, call, given>>

(* A reset; a half-open passive connection goes back to Listen.             *)
Rst(h) ==
  /\ sockets[h].state \in {"syn", "half", "open"}
  /\ Set(h, [sockets[h] EXCEPT !.state = IF @ = "half" THEN "listen" ELSE "closed",
                               !.reset = @ \/ sockets[h].state = "half"])
  /\ UNCHANGED <<portVars, call, given, arrived>>

-----------------------------------------------------------------------------
(* network_init: start_endpoint() is the time stamp counter modulo u16::MAX.*)
Init ==
  /\ sockets = <<>>
  /\ LOCAL_ENDPOINT \in 0..(PortSpace - 2)
  /\ draws = 0
  /\ call = [t \in Threads |-> <<"none", 0>>]
  /\ given = <<>>
  /\ arrived = {}

Next ==
  \/ \E t \in Threads, c \in {"connect", "accept"} : Open(t, c)
  \/ \E t \in Threads : BadAddress(t) \/ Connect(t) \/ ListenRefused(t) \/ Listen(t)
  \/ \E t \in Threads : Polled(t) \/ Accepted(t) \/ Timeout(t)
  \/ \E t \in Threads, h \in Handles : Close(t, h)
  \/ \E h \in Handles : Answered(h) \/ Rst(h)
  \/ \E c \in Clients : Syn(c)

Spec == Init /\ [][Next]_vars

-----------------------------------------------------------------------------
(* The set, the port counter and the calls have their types.                *)
TypeOK ==
  /\ LOCAL_ENDPOINT \in 0..(PortSpace - 1)
  /\ draws \in Nat
  /\ DOMAIN given = Handles
  /\ \A h \in Handles :
       /\ sockets[h].state \in {"closed", "syn", "listen", "half", "open"}
       /\ sockets[h].port \in 0..(PortSpace - 1)
       /\ sockets[h].draw \in 0..draws
       /\ {sockets[h].late, sockets[h].reset} \subseteq BOOLEAN
       /\ {sockets[h].conn, given[h]} \subseteq (1..draws) \cup Clients \cup {None}
  /\ call \in [Threads -> {"none", "connect", "accept", "connecting", "accepting", "accepted"}
                           \X (Handles \cup {0})]
  /\ arrived \subseteq Clients

(* Two connections to the same server never share a local port unless a     *)
(* whole round of the u16 counter lies between them (mod.rs 203): neither   *)
(* the wrap to 0, nor refused or failed connects, bring a port back early.  *)
PortsApart ==
  \A g, h \in Handles :
    (g < h /\ sockets[g].port = sockets[h].port /\ sockets[h].draw > 0 /\ sockets[g].draw > 0)
      => /\ sockets[h].draw >= sockets[g].draw + PortSpace
            \/ sockets[g].draw >= sockets[h].draw + PortSpace
         /\ sockets[h].port # 0

(* A handle stands for one connection for ever, so a thread that uses a     *)
(* handle after another thread has closed it never reaches a stranger's     *)
(* connection: sockets are not removed, and slots not used again.  The      *)
(* exception is a connection that is reset while half-open after accept has *)
(* seen it: its socket listens again and takes the next client.             *)
HandleNamesOneConnection ==
  \A h \in Handles :
    (given[h] # None /\ ~sockets[h].reset) => sockets[h].conn = given[h]

(* A connection that is open for the peer is the application's, or some     *)
(* call is about to return it, or its connect has given up (an answer that  *)
(* comes late leaves a connection without an owner).                        *)
OrphansAreLate ==
  \A h \in Handles :
    (sockets[h].state = "open" /\ given[h] = None /\ ~sockets[h].late)
      => \E t \in Threads : call[t][2] = h
=============================================================================
