---------------------------- MODULE SocketSetProofs ----------------------------
(***************************************************************************)
(* What holds of the socket set for every number of threads, clients,      *)
(* sockets and ports.                                                      *)
(***************************************************************************)
EXTENDS SocketSet, WellFoundedInduction, TLAPS

States == {"closed", "syn", "listen", "half", "open"}
Names == {"none", "connect", "accept", "connecting", "accepting", "accepted"}
Conns == Nat \cup Clients \cup {None}
Socket == [state : States, port : 0..(PortSpace - 1), draw : Nat, conn : Conns,
           late : BOOLEAN, reset : BOOLEAN]

(* The types, with the set as a sequence of sockets.                        *)
Types ==
  /\ sockets \in Seq(Socket)
  /\ given \in Seq(Conns)
  /\ Len(given) = Len(sockets)
  /\ LOCAL_ENDPOINT \in 0..(PortSpace - 1)
  /\ draws \in Nat
  /\ call \in [Threads -> Names \X Nat]
  /\ arrived \subseteq Clients

-----------------------------------------------------------------------------
(* What an assignment to one socket does to the set.                        *)
LEMMA SetOne ==
  ASSUME Types, NEW h \in Handles, NEW s \in Socket, Set(h, s)
  PROVE  /\ sockets' \in Seq(Socket)
         /\ Len(sockets') = Len(sockets)
         /\ sockets'[h] = s
         /\ \A g \in Handles : g # h => sockets'[g] = sockets[g]
<1>1. sockets' = [sockets EXCEPT ![h] = s]
  BY DEF Set
<1> QED BY <1>1 DEF Types, Handles

(* A new socket is closed, has no port and no connection.                   *)
LEMMA FreshIsSocket == Fresh \in Socket
<1>1. None \in Conns /\ 0 \in 0..(PortSpace - 1)
  BY SetAssumption DEF Conns
<1> QED BY <1>1 DEF Fresh, Socket, States

(* What a handle names is a socket.                                         *)
LEMMA HandleTypes ==
  ASSUME Types, NEW h \in Handles
  PROVE  sockets[h] \in Socket /\ given[h] \in Conns /\ h \in 1..Len(given) /\ h \in Nat \ {0}
BY DEF Types, Handles

(* A thread's call changes its name, keeps its handle, or ends.             *)
LEMMA CallRenamed ==
  ASSUME Types, NEW t \in Threads, NEW n \in Names, call' = [call EXCEPT ![t][1] = n]
  PROVE  /\ call' \in [Threads -> Names \X Nat]
         /\ call'[t][1] = n /\ call'[t][2] = call[t][2]
         /\ \A u \in Threads : u # t => call'[u] = call[u]
<1>1. call[t] \in Names \X Nat
  BY DEF Types
<1>2. call' = [call EXCEPT ![t] = [call[t] EXCEPT ![1] = n]]
  BY DEF Types
<1>3. [call[t] EXCEPT ![1] = n] = <<n, call[t][2]>>
  BY <1>1
<1> QED BY <1>2, <1>3, <1>1 DEF Types

(* The end of a call.                                                       *)
LEMMA CallReturned ==
  ASSUME Types, NEW t \in Threads, Return(t)
  PROVE  /\ call' \in [Threads -> Names \X Nat]
         /\ call'[t] = <<"none", 0>>
         /\ \A u \in Threads : u # t => call'[u] = call[u]
BY DEF Types, Return, Names

(* fetch_add(1) of an AtomicU16: it counts, and wraps to 0.                 *)
LEMMA FetchAdd ==
  ASSUME Types, fetch_add
  PROVE  /\ draws' = draws + 1
         /\ LOCAL_ENDPOINT' = IF LOCAL_ENDPOINT + 1 = PortSpace THEN 0 ELSE LOCAL_ENDPOINT + 1
         /\ LOCAL_ENDPOINT' \in 0..(PortSpace - 1)
<1>1. LOCAL_ENDPOINT \in 0..(PortSpace - 1) /\ PortSpace \in Nat /\ PortSpace > 1
  BY SetAssumption DEF Types
<1>2. (LOCAL_ENDPOINT + 1) % PortSpace
        = IF LOCAL_ENDPOINT + 1 = PortSpace THEN 0 ELSE LOCAL_ENDPOINT + 1
  BY <1>1
<1> QED BY <1>1, <1>2 DEF fetch_add

(* A nonempty set of handles has a first one.                               *)
LEMMA LeastElement ==
  ASSUME NEW S \in SUBSET Nat, S # {}
  PROVE  \E x \in S : \A y \in S : x <= y
<1>1. PICK x \in S : \A y \in S : ~(<<y, x>> \in OpToRel(<, Nat))
  BY NatLessThanWellFounded, WFMin
<1>2. \A y \in S : ~(y < x)
  BY <1>1 DEF OpToRel
<1> QED BY <1>2

-----------------------------------------------------------------------------
(* The effect of each operation, handle by handle.                          *)

(* create_handle appends; no handle that exists changes its meaning.        *)
LEMMA OpenEffect ==
  ASSUME Types, NEW t \in Threads, NEW c \in {"connect", "accept"}, Open(t, c)
  PROVE  LET n == Len(sockets) + 1 IN
         /\ Handles' = Handles \cup {n} /\ n \notin Handles
         /\ \A g \in Handles : sockets'[g] = sockets[g] /\ given'[g] = given[g]
         /\ sockets'[n] = Fresh /\ given'[n] = None
         /\ call'[t] = <<c, n>>
         /\ \A u \in Threads : u # t => call'[u] = call[u]
         /\ call[t] = <<"none", 0>>
         /\ UNCHANGED <<LOCAL_ENDPOINT, draws, arrived>>
         /\ Types'
<1> DEFINE n == Len(sockets) + 1
<1>1. Len(sockets) \in Nat /\ n \notin Handles
  BY DEF Types, Handles
<1>2. sockets' = Append(sockets, Fresh) /\ given' = Append(given, None)
  BY <1>1 DEF Open, create_handle
<1>3. call' = [call EXCEPT ![t] = <<c, n>>]
  BY DEF Open, create_handle
<1>4. /\ sockets' \in Seq(Socket) /\ Len(sockets') = n /\ sockets'[n] = Fresh
      /\ \A g \in Handles : sockets'[g] = sockets[g]
  BY <1>1, <1>2, FreshIsSocket DEF Types, Handles
<1>5. /\ given' \in Seq(Conns) /\ Len(given') = n /\ given'[n] = None
      /\ \A g \in Handles : given'[g] = given[g]
  BY <1>1, <1>2 DEF Types, Handles, Conns
<1>6. Handles' = Handles \cup {n}
  BY <1>1, <1>4 DEF Handles
<1>7. /\ call' \in [Threads -> Names \X Nat]
      /\ call'[t] = <<c, n>>
      /\ \A u \in Threads : u # t => call'[u] = call[u]
  BY <1>1, <1>3 DEF Types, Names
<1>8. call[t] = <<"none", 0>> /\ UNCHANGED <<LOCAL_ENDPOINT, draws, arrived>>
  BY DEF Open, Idle, portVars
<1> QED BY <1>1, <1>4, <1>5, <1>6, <1>7, <1>8 DEF Types

(* An assignment to one socket that leaves the handles as they are.         *)
LEMMA SetEffect ==
  ASSUME Types, NEW h \in Handles, NEW s \in Socket, Set(h, s), UNCHANGED given,
         LOCAL_ENDPOINT' \in 0..(PortSpace - 1), draws' \in Nat,
         call' \in [Threads -> Names \X Nat], arrived' \subseteq Clients
  PROVE  /\ Handles' = Handles
         /\ sockets'[h] = s
         /\ \A g \in Handles : g # h => sockets'[g] = sockets[g]
         /\ Types'
BY SetOne DEF Types, Handles

(* The first listening socket takes the SYN.                                *)
LEMMA SynEffect ==
  ASSUME Types, NEW c \in Clients, Syn(c)
  PROVE  \/ UNCHANGED sockets
         \/ \E h \in Handles :
              /\ sockets[h].state = "listen"
              /\ Set(h, [sockets[h] EXCEPT !.state = "half", !.conn = c])
<1>1. CASE ~\E h \in Handles : AcceptsSyn(h)
  BY <1>1 DEF Syn
<1>2. CASE \E h \in Handles : AcceptsSyn(h)
  <2> DEFINE First(g) == AcceptsSyn(g) /\ \A k \in 1..(g - 1) : ~AcceptsSyn(k)
             f == CHOOSE g \in Handles : First(g)
             S == {g \in Handles : AcceptsSyn(g)}
  <2>1. S \in SUBSET Nat /\ S # {}
    BY <1>2 DEF Types, Handles
  <2>2. PICK x \in S : \A y \in S : x <= y
    BY <2>1, LeastElement
  <2>3. First(x)
    <3>1. \A k \in 1..(x - 1) : k \in Handles /\ ~(x <= k)
      BY <2>1, <2>2 DEF Types, Handles
    <3> QED BY <2>2, <3>1
  <2>4. x \in Handles
    OBVIOUS
  <2> HIDE DEF First
  <2>5. f \in Handles /\ First(f)
    BY <2>3, <2>4
  <2>6. Set(f, [sockets[f] EXCEPT !.state = "half", !.conn = c])
    BY <1>2 DEF Syn, First
  <2>7. sockets[f].state = "listen"
    BY <2>5 DEF First, AcceptsSyn
  <2> QED BY <2>5, <2>6, <2>7
<1> QED BY <1>1, <1>2

-----------------------------------------------------------------------------
(* The inductive invariant, in parts.                                       *)

(* A call that runs has a handle of its own, which no caller has been given *)
(* yet; a socket that connects does not listen, and one that accepts does   *)
(* not connect, and has had a peer once accept has seen it active.          *)
Active(s) == s.state # "syn" /\ s.conn # None /\ (s.state = "listen" => s.reset)

CallInv ==
  /\ \A t \in Threads :
       /\ call[t][2] \in Handles \cup {0}
       /\ call[t][1] # "none" => call[t][2] \in Handles /\ given[call[t][2]] = None
       /\ call[t][1] = "connecting" => sockets[call[t][2]].state \in {"syn", "open", "closed"}
       /\ call[t][1] = "accepting" => sockets[call[t][2]].state # "syn"
       /\ call[t][1] = "accepted" => Active(sockets[call[t][2]])
  /\ \A t, u \in Threads :
       t # u /\ call[t][1] # "none" /\ call[u][1] # "none" => call[t][2] # call[u][2]

(* A socket that is not closed has an owner: the application, or a call     *)
(* that waits for it, unless the call has given up.                         *)
OwnerInv ==
  \A h \in Handles :
    sockets[h].state # "closed" /\ given[h] = None /\ ~sockets[h].late
      => \E t \in Threads : call[t][1] \in {"connecting", "accepting", "accepted"} /\ call[t][2] = h

(* A connection has a name once there is a peer, a handle that was given    *)
(* out has the one it was given for, and a socket that was given out        *)
(* listens again only after a reset.                                        *)
NameInv ==
  /\ \A h \in Handles : sockets[h].state \in {"syn", "half", "open"} => sockets[h].conn # None
  /\ \A h \in Handles : sockets[h].state = "listen" /\ given[h] # None => sockets[h].reset
  /\ HandleNamesOneConnection

(* Draws are numbered, and so are the connections that they make.           *)
DrawInv ==
  \A h \in Handles :
    /\ sockets[h].draw \in 0..draws
    /\ sockets[h].conn \in (1..draws) \cup Clients \cup {None}
    /\ given[h] \in (1..draws) \cup Clients \cup {None}

(* Less than a round after its draw, the counter is as far from a port as   *)
(* there were draws since then.                                             *)
PortInv ==
  \A h \in Handles :
    sockets[h].draw > 0 =>
      LET d == draws - sockets[h].draw + 1
          p == sockets[h].port
      IN  /\ p # 0
          /\ d < PortSpace => LOCAL_ENDPOINT = IF p + d < PortSpace THEN p + d ELSE p + d - PortSpace

Inv == Types /\ CallInv /\ OwnerInv /\ NameInv /\ DrawInv /\ PortInv /\ PortsApart

-----------------------------------------------------------------------------
(* One socket becomes s, and all else in the set stays.                     *)
Becomes(h, s) ==
  /\ h \in Handles
  /\ Handles' = Handles
  /\ sockets'[h] = s
  /\ \A g \in Handles : g # h => sockets'[g] = sockets[g]
  /\ \A g \in Handles : given'[g] = given[g]

(* The call of one thread becomes <<n, k>>, all others stay.                *)
CallIs(t, n, k) ==
  /\ call'[t][1] = n /\ call'[t][2] = k
  /\ \A u \in Threads : u # t => call'[u] = call[u]

(* The call is refused, by its address or its port: it ends.                *)
LEMMA RefusedEffect ==
  ASSUME Types, CallInv, NEW t \in Threads,
         BadAddress(t) \/ ListenRefused(t) \/ (Connect(t) /\ Return(t) /\ UNCHANGED sockets)
  PROVE  /\ call[t][1] \in {"connect", "accept"}
         /\ CallIs(t, "none", 0)
         /\ UNCHANGED <<sockets, given>>
         /\ UNCHANGED portVars \/ fetch_add
         /\ Types'
<1>1. call[t][1] \in {"connect", "accept"} /\ Return(t) /\ UNCHANGED <<sockets, given, arrived>>
  BY DEF BadAddress, ListenRefused, Connect
<1>2. UNCHANGED portVars \/ fetch_add
  BY DEF BadAddress, ListenRefused, Connect
<1>3. LOCAL_ENDPOINT' \in 0..(PortSpace - 1) /\ draws' \in Nat
  BY <1>2, FetchAdd DEF portVars, Types
<1> QED BY <1>1, <1>2, <1>3, CallReturned DEF Types, CallIs

(* connect is granted: the socket has the port and the number of the draw.  *)
LEMMA GrantedEffect ==
  ASSUME Types, CallInv, NEW t \in Threads, Connect(t), ~(Return(t) /\ UNCHANGED sockets)
  PROVE  LET h == call[t][2] IN
         /\ call[t][1] = "connect"
         /\ CallIs(t, "connecting", h)
         /\ \E s \in Socket :
              /\ Becomes(h, s)
              /\ s.state = "syn" /\ s.port = LOCAL_ENDPOINT /\ s.draw = draws + 1
              /\ s.conn = draws + 1 /\ ~s.late /\ ~s.reset
         /\ LOCAL_ENDPOINT # 0
         /\ fetch_add
         /\ UNCHANGED given
         /\ Types'
<1> DEFINE h == call[t][2]
           s == [Fresh EXCEPT !.state = "syn", !.port = LOCAL_ENDPOINT, !.draw = draws', !.conn = draws']
<1>1. /\ call[t][1] = "connect" /\ fetch_add /\ LOCAL_ENDPOINT # 0
      /\ Set(h, s)
      /\ call' = [call EXCEPT ![t][1] = "connecting"]
      /\ UNCHANGED <<given, arrived>>
  BY DEF Connect
<1>2. draws' = draws + 1 /\ LOCAL_ENDPOINT' \in 0..(PortSpace - 1) /\ draws \in Nat
  BY <1>1, FetchAdd DEF Types
<1>3. /\ s \in Socket
      /\ s.state = "syn" /\ s.port = LOCAL_ENDPOINT /\ s.draw = draws + 1
      /\ s.conn = draws + 1 /\ ~s.late /\ ~s.reset
  <2>1. /\ LOCAL_ENDPOINT \in 0..(PortSpace - 1) /\ draws' \in Nat /\ draws' \in Conns
        /\ "syn" \in States /\ FALSE \in BOOLEAN
    BY <1>2 DEF Types, States, Conns
  <2>2. /\ s.state = "syn" /\ s.port = LOCAL_ENDPOINT /\ s.draw = draws' /\ s.conn = draws'
        /\ ~s.late /\ ~s.reset
    BY DEF Fresh
  <2>3. s \in Socket
    BY <2>1, FreshIsSocket DEF Socket
  <2> QED BY <1>2, <2>2, <2>3
<1>4. h \in Handles
  BY <1>1 DEF CallInv
<1>5. CallIs(t, "connecting", h) /\ call' \in [Threads -> Names \X Nat]
  BY <1>1, CallRenamed DEF CallIs, Names
<1> HIDE DEF s, h
<1>6. Becomes(h, s) /\ Types'
  <2>1. UNCHANGED given /\ arrived' \subseteq Clients /\ draws' \in Nat
    BY <1>1, <1>2 DEF Types
  <2>2. /\ Handles' = Handles
        /\ sockets'[h] = s
        /\ \A g \in Handles : g # h => sockets'[g] = sockets[g]
        /\ Types'
    BY <1>1, <1>2, <1>3, <1>4, <1>5, <2>1, SetEffect
  <2> QED BY <1>4, <2>1, <2>2 DEF Becomes
<1> QED BY <1>1, <1>3, <1>5, <1>6 DEF h

(* accept: the socket listens.                                              *)
LEMMA ListenEffect ==
  ASSUME Types, CallInv, NEW t \in Threads, Listen(t)
  PROVE  LET h == call[t][2] IN
         /\ call[t][1] = "accept"
         /\ CallIs(t, "accepting", h)
         /\ \E s \in Socket :
              /\ Becomes(h, s)
              /\ s.state = "listen" /\ s.draw = 0 /\ s.conn = None /\ ~s.late /\ ~s.reset
         /\ UNCHANGED <<given, LOCAL_ENDPOINT, draws>>
         /\ Types'
<1> DEFINE h == call[t][2]
           s == [Fresh EXCEPT !.state = "listen"]
<1>1. /\ call[t][1] = "accept"
      /\ Set(h, s)
      /\ call' = [call EXCEPT ![t][1] = "accepting"]
      /\ UNCHANGED <<given, arrived, LOCAL_ENDPOINT, draws>>
  BY DEF Listen, portVars
<1>2. /\ s \in Socket
      /\ s.state = "listen" /\ s.draw = 0 /\ s.conn = None /\ ~s.late /\ ~s.reset
  BY FreshIsSocket DEF Socket, Fresh, States
<1>3. h \in Handles
  BY <1>1 DEF CallInv
<1>4. CallIs(t, "accepting", h) /\ call' \in [Threads -> Names \X Nat]
  BY <1>1, CallRenamed DEF CallIs, Names
<1> HIDE DEF s, h
<1>5. Becomes(h, s) /\ Types'
  <2>1. /\ UNCHANGED given /\ arrived' \subseteq Clients /\ draws' \in Nat
        /\ LOCAL_ENDPOINT' \in 0..(PortSpace - 1)
    BY <1>1 DEF Types
  <2>2. /\ Handles' = Handles
        /\ sockets'[h] = s
        /\ \A g \in Handles : g # h => sockets'[g] = sockets[g]
        /\ Types'
    BY <1>1, <1>2, <1>3, <1>4, <2>1, SetEffect
  <2> QED BY <1>3, <2>1, <2>2 DEF Becomes
<1> QED BY <1>1, <1>2, <1>4, <1>5 DEF h

(* connect has its result, a connection of its own or an error, or accept   *)
(* fails.                                                                   *)
LEMMA PolledEffect ==
  ASSUME Types, CallInv, NEW t \in Threads, Polled(t), Return(t)
  PROVE  LET h == call[t][2] IN
         /\ call[t][1] \in {"connecting", "accepting"} /\ h \in Handles
         /\ CallIs(t, "none", 0)
         /\ UNCHANGED <<sockets, LOCAL_ENDPOINT, draws>>
         /\ \/ sockets[h].state = "open" /\ given'[h] = sockets[h].conn
            \/ sockets[h].state = "closed" /\ given'[h] = given[h]
         /\ \A g \in Handles : g # h => given'[g] = given[g]
         /\ Types'
<1> DEFINE h == call[t][2]
<1>1. CallIs(t, "none", 0) /\ call' \in [Threads -> Names \X Nat]
  BY CallReturned DEF CallIs
<1>2. /\ \/ /\ call[t][1] = "connecting" /\ sockets[h].state \in {"open", "closed", "listen"}
            /\ given' = IF sockets[h].state = "open" THEN [given EXCEPT ![h] = sockets[h].conn] ELSE given
         \/ call[t][1] = "accepting" /\ sockets[h].state = "closed" /\ UNCHANGED given
      /\ UNCHANGED <<sockets, LOCAL_ENDPOINT, draws, arrived>>
  <2>1. call' # [call EXCEPT ![t][1] = "accepted"]
    BY <1>1, CallRenamed DEF CallIs, Names
  <2> QED BY <2>1 DEF Polled, portVars
<1>3. h \in Handles /\ sockets[h].state \in {"open", "closed"}
  BY <1>2 DEF CallInv
<1>4. sockets[h] \in Socket /\ h \in 1..Len(given)
  BY <1>3, HandleTypes
<1>5. /\ given' \in Seq(Conns) /\ Len(given') = Len(given)
      /\ \/ sockets[h].state = "open" /\ given'[h] = sockets[h].conn
         \/ sockets[h].state = "closed" /\ given'[h] = given[h]
      /\ \A g \in Handles : g # h => given'[g] = given[g]
  <2>1. CASE sockets[h].state = "open"
    <3>1. given' = [given EXCEPT ![h] = sockets[h].conn] /\ sockets[h].conn \in Conns
      BY <1>2, <1>4, <2>1 DEF Socket
    <3> QED BY <1>4, <2>1, <3>1 DEF Types, Handles
  <2>2. CASE sockets[h].state = "closed"
    BY <1>2, <2>2 DEF Types
  <2> QED BY <1>3, <2>1, <2>2
<1> QED BY <1>1, <1>2, <1>3, <1>5 DEF Types

(* accept has seen its socket active, and has yet to return.                *)
LEMMA SeenEffect ==
  ASSUME Types, CallInv, NEW t \in Threads, Polled(t), ~Return(t)
  PROVE  LET h == call[t][2] IN
         /\ call[t][1] = "accepting" /\ h \in Handles /\ sockets[h].state \in {"half", "open"}
         /\ CallIs(t, "accepted", h)
         /\ UNCHANGED <<sockets, LOCAL_ENDPOINT, draws, given>>
         /\ Types'
<1>1. /\ call[t][1] = "accepting" /\ sockets[call[t][2]].state \in {"half", "open"}
      /\ call' = [call EXCEPT ![t][1] = "accepted"]
      /\ UNCHANGED <<sockets, LOCAL_ENDPOINT, draws, given, arrived>>
  BY DEF Polled, portVars
<1>2. CallIs(t, "accepted", call[t][2]) /\ call' \in [Threads -> Names \X Nat]
  BY <1>1, CallRenamed DEF CallIs, Names
<1> QED BY <1>1, <1>2 DEF Types, CallInv

(* accept returns the handle with the connection that it has by then.       *)
Returned(s) == [s EXCEPT !.reset = s.reset /\ s.state = "listen"]

LEMMA AcceptedEffect ==
  ASSUME Types, CallInv, NEW t \in Threads, Accepted(t)
  PROVE  LET h == call[t][2] IN
         /\ call[t][1] = "accepted" /\ h \in Handles
         /\ CallIs(t, "none", 0)
         /\ Returned(sockets[h]) \in Socket /\ Handles' = Handles
         /\ sockets'[h] = Returned(sockets[h])
         /\ \A g \in Handles : g # h => sockets'[g] = sockets[g]
         /\ given'[h] = sockets[h].conn
         /\ \A g \in Handles : g # h => given'[g] = given[g]
         /\ UNCHANGED <<LOCAL_ENDPOINT, draws>>
         /\ Types'
<1> DEFINE h == call[t][2]
           s == Returned(sockets[h])
<1>1. /\ call[t][1] = "accepted" /\ Return(t)
      /\ given' = [given EXCEPT ![h] = sockets[h].conn]
      /\ UNCHANGED <<LOCAL_ENDPOINT, draws, arrived>>
  BY DEF Accepted, portVars
<1>2. h \in Handles
  BY <1>1 DEF CallInv
<1>3. sockets[h] \in Socket /\ h \in 1..Len(given)
  BY <1>2, HandleTypes
<1>4. s \in Socket
  BY <1>3 DEF Socket, Returned
<1>5. Set(h, s)
  BY <1>3 DEF Accepted, Returned, Socket
<1>6. CallIs(t, "none", 0) /\ call' \in [Threads -> Names \X Nat]
  BY <1>1, CallReturned DEF CallIs
<1>7. /\ given' \in Seq(Conns) /\ Len(given') = Len(given) /\ given'[h] = sockets[h].conn
      /\ \A g \in Handles : g # h => given'[g] = given[g]
  BY <1>1, <1>3 DEF Types, Handles, Socket
<1> HIDE DEF h, s
<1>8. /\ sockets' \in Seq(Socket) /\ Len(sockets') = Len(sockets) /\ sockets'[h] = s
      /\ \A g \in Handles : g # h => sockets'[g] = sockets[g]
  BY <1>2, <1>4, <1>5, SetOne
<1>9. Handles' = Handles
  BY <1>8 DEF Handles
<1> QED BY <1>1, <1>2, <1>4, <1>6, <1>7, <1>8, <1>9 DEF Types, h, s

(* A socket whose state, connection or flags change keeps its port.         *)
LEMMA TouchEffect ==
  ASSUME Types, NEW h \in Handles, NEW s \in Socket, Set(h, s),
         UNCHANGED <<portVars, given>>, call' \in [Threads -> Names \X Nat],
         arrived' \subseteq Clients
  PROVE  Becomes(h, s) /\ UNCHANGED <<LOCAL_ENDPOINT, draws>> /\ Types'
<1>1. LOCAL_ENDPOINT' \in 0..(PortSpace - 1) /\ draws' \in Nat /\ UNCHANGED <<LOCAL_ENDPOINT, draws, given>>
  BY DEF portVars, Types
<1> QED BY <1>1, SetEffect DEF Becomes

(* connect gives up: its socket is marked, and goes on by itself.           *)
LEMMA TimeoutEffect ==
  ASSUME Types, CallInv, NEW t \in Threads, Timeout(t)
  PROVE  LET h == call[t][2]
             s == [sockets[h] EXCEPT !.late = TRUE] IN
         /\ call[t][1] = "connecting" /\ s \in Socket
         /\ CallIs(t, "none", 0)
         /\ Becomes(h, s) /\ UNCHANGED <<LOCAL_ENDPOINT, draws>> /\ Types'
<1> DEFINE h == call[t][2]
           s == [sockets[h] EXCEPT !.late = TRUE]
<1>1. /\ call[t][1] = "connecting" /\ Return(t) /\ Set(h, s)
      /\ UNCHANGED <<portVars, given, arrived>>
  BY DEF Timeout
<1>2. h \in Handles
  BY <1>1 DEF CallInv
<1>3. s \in Socket
  BY <1>2, HandleTypes DEF Socket
<1>4. CallIs(t, "none", 0) /\ call' \in [Threads -> Names \X Nat] /\ arrived' \subseteq Clients
  BY <1>1, CallReturned DEF CallIs, Types
<1> HIDE DEF s, h
<1>5. Becomes(h, s) /\ UNCHANGED <<LOCAL_ENDPOINT, draws>> /\ Types'
  BY <1>1, <1>2, <1>3, <1>4, TouchEffect
<1> QED BY <1>1, <1>3, <1>4, <1>5 DEF s, h

(* What close, an answer and a reset make of a socket.                      *)
Ended(s) == [s EXCEPT !.state = "closed"]
Opened(s) == [s EXCEPT !.state = "open"]
Broken(s) == [s EXCEPT !.state = IF s.state = "half" THEN "listen" ELSE "closed",
                       !.reset = s.reset \/ s.state = "half"]
Taken(s, c) == [s EXCEPT !.state = "half", !.conn = c]

LEMMA NewSockets ==
  ASSUME NEW s \in Socket
  PROVE  /\ Ended(s) \in Socket /\ Opened(s) \in Socket /\ Broken(s) \in Socket
         /\ \A c \in Clients : Taken(s, c) \in Socket
BY DEF Ended, Opened, Broken, Taken, Socket, States, Conns

(* The steps of the network and of close change one socket, or none.        *)
LEMMA EventEffect ==
  ASSUME Types,
         \/ \E t \in Threads, h \in Handles : Close(t, h)
         \/ \E h \in Handles : Answered(h) \/ Rst(h)
         \/ \E c \in Clients : Syn(c)
  PROVE  /\ UNCHANGED <<LOCAL_ENDPOINT, draws, given, call>>
         /\ Types'
         /\ \/ UNCHANGED sockets
            \/ \E h \in Handles : 
                 \/ Becomes(h, Ended(sockets[h])) /\ given[h] # None
                 \/ Becomes(h, Opened(sockets[h])) /\ sockets[h].state \in {"syn", "half"}
                 \/ Becomes(h, Broken(sockets[h])) /\ sockets[h].state \in {"syn", "half", "open"}
                 \/ \E c \in Clients : Becomes(h, Taken(sockets[h], c)) /\ sockets[h].state = "listen"
<1>0. \A h \in Handles : sockets[h] \in Socket
  BY HandleTypes
<1>1. CASE \E t \in Threads, h \in Handles : Close(t, h)
  <2>1. PICK t \in Threads, h \in Handles : Close(t, h)
    BY <1>1
  <2>2. /\ Set(h, Ended(sockets[h])) /\ given[h] # None
        /\ UNCHANGED <<portVars, call, given, arrived>>
    BY <2>1 DEF Close, Ended
  <2>3. /\ Ended(sockets[h]) \in Socket /\ call' \in [Threads -> Names \X Nat]
        /\ arrived' \subseteq Clients
    BY <1>0, <2>2, NewSockets DEF Types
  <2>4. Becomes(h, Ended(sockets[h])) /\ UNCHANGED <<LOCAL_ENDPOINT, draws>> /\ Types'
    BY <2>2, <2>3, TouchEffect
  <2>5. UNCHANGED <<LOCAL_ENDPOINT, draws, given, call>>
    BY <2>2, <2>4
  <2> QED BY <2>2, <2>4, <2>5
<1>2. CASE \E h \in Handles : Answered(h)
  <2>1. PICK h \in Handles : Answered(h)
    BY <1>2
  <2>2. /\ Set(h, Opened(sockets[h])) /\ sockets[h].state \in {"syn", "half"}
        /\ UNCHANGED <<portVars, call, given, arrived>>
    BY <2>1 DEF Answered, Opened
  <2>3. /\ Opened(sockets[h]) \in Socket /\ call' \in [Threads -> Names \X Nat]
        /\ arrived' \subseteq Clients
    BY <1>0, <2>2, NewSockets DEF Types
  <2>4. Becomes(h, Opened(sockets[h])) /\ UNCHANGED <<LOCAL_ENDPOINT, draws>> /\ Types'
    BY <2>2, <2>3, TouchEffect
  <2>5. UNCHANGED <<LOCAL_ENDPOINT, draws, given, call>>
    BY <2>2, <2>4
  <2> QED BY <2>2, <2>4, <2>5
<1>3. CASE \E h \in Handles : Rst(h)
  <2>1. PICK h \in Handles : Rst(h)
    BY <1>3
  <2>2. /\ Set(h, Broken(sockets[h])) /\ sockets[h].state \in {"syn", "half", "open"}
        /\ UNCHANGED <<portVars, call, given, arrived>>
    BY <1>0, <2>1 DEF Rst, Broken, Socket
  <2>3. /\ Broken(sockets[h]) \in Socket /\ call' \in [Threads -> Names \X Nat]
        /\ arrived' \subseteq Clients
    BY <1>0, <2>2, NewSockets DEF Types
  <2>4. Becomes(h, Broken(sockets[h])) /\ UNCHANGED <<LOCAL_ENDPOINT, draws>> /\ Types'
    BY <2>2, <2>3, TouchEffect
  <2>5. UNCHANGED <<LOCAL_ENDPOINT, draws, given, call>>
    BY <2>2, <2>4
  <2> QED BY <2>2, <2>4, <2>5
<1>4. CASE \E c \in Clients : Syn(c)
  <2>1. PICK c \in Clients : Syn(c)
    BY <1>4
  <2>2. /\ UNCHANGED <<portVars, call, given>> /\ arrived' \subseteq Clients
        /\ call' \in [Threads -> Names \X Nat]
    BY <2>1 DEF Syn, Types
  <2>3. CASE UNCHANGED sockets
    BY <2>2, <2>3 DEF Types, portVars
  <2>4. ASSUME NEW h \in Handles, sockets[h].state = "listen",
               Set(h, [sockets[h] EXCEPT !.state = "half", !.conn = c])
        PROVE  Becomes(h, Taken(sockets[h], c)) /\ UNCHANGED <<LOCAL_ENDPOINT, draws>> /\ Types'
    <3>1. Set(h, Taken(sockets[h], c)) /\ Taken(sockets[h], c) \in Socket
      BY <1>0, <2>4, NewSockets DEF Taken
    <3> QED BY <2>2, <3>1, TouchEffect
  <2> QED BY <2>1, <2>2, <2>3, <2>4, SynEffect
<1> QED BY <1>1, <1>2, <1>3, <1>4

-----------------------------------------------------------------------------
(* The kinds of step.                                                       *)

(* connect or accept makes a socket.                                        *)
Opens == \E t \in Threads, c \in {"connect", "accept"} : Open(t, c)

(* A call is refused.                                                       *)
Refuses == \E t \in Threads : BadAddress(t) \/ ListenRefused(t) \/ (Connect(t) /\ Return(t) /\ UNCHANGED sockets)

(* connect gets its port.                                                   *)
Grants == \E t \in Threads : Connect(t) /\ ~(Return(t) /\ UNCHANGED sockets)

(* The network's step, or a close.                                          *)
Events ==
  \/ \E t \in Threads, h \in Handles : Close(t, h)
  \/ \E h \in Handles : Answered(h) \/ Rst(h)
  \/ \E c \in Clients : Syn(c)

LEMMA Kinds ==
  ASSUME [Next]_vars
  PROVE  \/ Opens \/ Refuses \/ Grants \/ Events \/ UNCHANGED vars
         \/ \E t \in Threads : Listen(t) \/ Accepted(t) \/ Timeout(t)
         \/ \E t \in Threads : Polled(t) /\ Return(t)
         \/ \E t \in Threads : Polled(t) /\ ~Return(t)
BY DEF Next, Opens, Refuses, Grants, Events

(* Stuttering.                                                              *)
LEMMA Stutter == Inv /\ UNCHANGED vars => Inv'
BY DEF Inv, Types, CallInv, OwnerInv, NameInv, HandleNamesOneConnection, DrawInv, PortInv,
       PortsApart, Handles, vars

(* Nothing exists in the beginning.                                         *)
LEMMA Start == Init => Inv
<1> SUFFICES ASSUME Init PROVE Inv
  OBVIOUS
<1>1. Handles = {}
  BY DEF Init, Handles
<1>2. LOCAL_ENDPOINT \in 0..(PortSpace - 1)
  BY SetAssumption DEF Init
<1>3. Types
  BY <1>2 DEF Init, Types, Names
<1>4. CallInv
  BY DEF Init, CallInv
<1> QED BY <1>1, <1>3, <1>4 DEF Inv, OwnerInv, NameInv, HandleNamesOneConnection, DrawInv, PortInv, PortsApart

-----------------------------------------------------------------------------
(* Making a socket disturbs nothing that is there.                          *)
LEMMA OpenStep == Inv /\ Opens => Inv'
<1> SUFFICES ASSUME Inv, NEW t \in Threads, NEW c \in {"connect", "accept"}, Open(t, c)
             PROVE  Inv'
  BY DEF Opens
<1> DEFINE n == Len(sockets) + 1
<1>1. /\ Handles' = Handles \cup {n} /\ n \notin Handles
      /\ \A g \in Handles : sockets'[g] = sockets[g] /\ given'[g] = given[g]
      /\ sockets'[n] = Fresh /\ given'[n] = None
      /\ call'[t] = <<c, n>>
      /\ \A u \in Threads : u # t => call'[u] = call[u]
      /\ call[t] = <<"none", 0>>
      /\ UNCHANGED <<LOCAL_ENDPOINT, draws, arrived>>
      /\ Types'
  BY OpenEffect DEF Inv
<1> HIDE DEF n
<1>2. CallInv'
  <2>1. ASSUME NEW u \in Threads
        PROVE  /\ call'[u][2] \in Handles' \cup {0}
               /\ call'[u][1] # "none" => call'[u][2] \in Handles' /\ given'[call'[u][2]] = None
               /\ call'[u][1] = "connecting" => sockets'[call'[u][2]].state \in {"syn", "open", "closed"}
               /\ call'[u][1] = "accepting" => sockets'[call'[u][2]].state # "syn"
               /\ call'[u][1] = "accepted" => Active(sockets'[call'[u][2]])
    <3>1. CASE u = t
      BY <1>1, <3>1
    <3>2. CASE u # t
      BY <1>1, <3>2 DEF Inv, CallInv
    <3> QED BY <3>1, <3>2
  <2>2. ASSUME NEW u \in Threads, NEW v \in Threads, u # v, call'[u][1] # "none", call'[v][1] # "none"
        PROVE  call'[u][2] # call'[v][2]
    <3>1. \A w \in Threads : w # t /\ call'[w][1] # "none" => call'[w][2] \in Handles
      BY <1>1 DEF Inv, CallInv
    <3>2. CASE u = t \/ v = t
      BY <1>1, <2>2, <3>1, <3>2
    <3>3. CASE u # t /\ v # t
      BY <1>1, <2>2, <3>3 DEF Inv, CallInv
    <3> QED BY <3>2, <3>3
  <2> QED BY <2>1, <2>2 DEF CallInv
<1>3. OwnerInv'
  <2>1. ASSUME NEW h \in Handles', sockets'[h].state # "closed", given'[h] = None, ~sockets'[h].late
        PROVE  \E u \in Threads : call'[u][1] \in {"connecting", "accepting", "accepted"} /\ call'[u][2] = h
    <3>1. h \in Handles
      BY <1>1, <2>1 DEF Fresh
    <3>2. PICK u \in Threads : call[u][1] \in {"connecting", "accepting", "accepted"} /\ call[u][2] = h
      BY <1>1, <2>1, <3>1 DEF Inv, OwnerInv
    <3>3. u # t
      BY <1>1, <3>2
    <3> QED BY <1>1, <3>2, <3>3
  <2> QED BY <2>1 DEF OwnerInv
<1>4. NameInv'
  BY <1>1 DEF Inv, NameInv, HandleNamesOneConnection, Fresh
<1>5. DrawInv'
  <2>1. sockets'[n].draw = 0 /\ sockets'[n].conn = None /\ 0 \in 0..draws
    BY <1>1 DEF Fresh, Inv, Types
  <2> QED BY <1>1, <2>1 DEF Inv, DrawInv
<1>6. PortInv'
  BY <1>1 DEF Inv, PortInv, Fresh
<1>7. PortsApart'
  BY <1>1 DEF Inv, PortsApart, Fresh
<1> QED BY <1>1, <1>2, <1>3, <1>4, <1>5, <1>6, <1>7 DEF Inv

(* A draw moves the counter one port on, for every socket alike.            *)
LEMMA DrawStep ==
  ASSUME Inv, fetch_add, NEW h \in Handles, sockets[h].draw > 0
  PROVE  LET d == draws' - sockets[h].draw + 1
             p == sockets[h].port
         IN  d < PortSpace => LOCAL_ENDPOINT' = IF p + d < PortSpace THEN p + d ELSE p + d - PortSpace
<1> DEFINE d == draws - sockets[h].draw + 1
           p == sockets[h].port
<1>1. /\ draws' = draws + 1
      /\ LOCAL_ENDPOINT' = IF LOCAL_ENDPOINT + 1 = PortSpace THEN 0 ELSE LOCAL_ENDPOINT + 1
  BY FetchAdd DEF Inv
<1>2. /\ p \in 0..(PortSpace - 1) /\ sockets[h].draw \in 0..draws /\ draws \in Nat
      /\ PortSpace \in Nat
  BY HandleTypes, SetAssumption DEF Inv, Types, Socket, DrawInv
<1>3. d < PortSpace => LOCAL_ENDPOINT = IF p + d < PortSpace THEN p + d ELSE p + d - PortSpace
  BY DEF Inv, PortInv
<1>4. d \in Nat /\ draws' - sockets[h].draw + 1 = d + 1
  BY <1>1, <1>2
<1> HIDE DEF d, p
<1>5. d + 1 < PortSpace => LOCAL_ENDPOINT' = IF p + (d + 1) < PortSpace THEN p + (d + 1) ELSE p + (d + 1) - PortSpace
  BY <1>1, <1>2, <1>3, <1>4
<1> QED BY <1>4, <1>5 DEF p

(* A refused call leaves its socket closed, and has spent a port or not.    *)
LEMMA RefusedStep == Inv /\ Refuses => Inv'
<1> SUFFICES ASSUME Inv, NEW t \in Threads,
                    BadAddress(t) \/ ListenRefused(t) \/ (Connect(t) /\ Return(t) /\ UNCHANGED sockets)
             PROVE  Inv'
  BY DEF Refuses
<1>1. /\ call[t][1] \in {"connect", "accept"} /\ call'[t][1] = "none" /\ call'[t][2] = 0
      /\ \A u \in Threads : u # t => call'[u] = call[u]
      /\ UNCHANGED <<sockets, given>> /\ Handles' = Handles
      /\ UNCHANGED portVars \/ fetch_add
      /\ Types'
  BY RefusedEffect DEF Inv, CallIs, Handles
<1>2. draws' >= draws /\ draws' \in Nat /\ draws \in Nat
  BY <1>1, FetchAdd DEF Inv, Types, portVars
<1>3. CallInv'
  BY <1>1 DEF Inv, CallInv
<1>4. OwnerInv'
  BY <1>1 DEF Inv, OwnerInv
<1>5. NameInv'
  BY <1>1 DEF Inv, NameInv, HandleNamesOneConnection
<1>6. DrawInv'
  BY <1>1, <1>2 DEF Inv, DrawInv
<1>7. PortInv'
  <2>1. CASE UNCHANGED portVars
    BY <1>1, <2>1 DEF Inv, PortInv, portVars
  <2>2. CASE fetch_add
    BY <1>1, <2>2, DrawStep DEF Inv, PortInv
  <2> QED BY <1>1, <2>1, <2>2
<1>8. PortsApart'
  BY <1>1 DEF Inv, PortsApart
<1> QED BY <1>1, <1>3, <1>4, <1>5, <1>6, <1>7, <1>8 DEF Inv

(* connect's port is a whole round away from every equal one.               *)
LEMMA GrantedStep == Inv /\ Grants => Inv'
<1> SUFFICES ASSUME Inv, NEW t \in Threads, Connect(t), ~(Return(t) /\ UNCHANGED sockets)
             PROVE  Inv'
  BY DEF Grants
<1> DEFINE h == call[t][2]
<1>1. /\ call[t][1] = "connect" /\ LOCAL_ENDPOINT # 0 /\ fetch_add /\ Types'
      /\ call'[t][1] = "connecting" /\ call'[t][2] = h
      /\ \A u \in Threads : u # t => call'[u] = call[u]
  BY GrantedEffect DEF Inv, CallIs
<1>2. PICK s \in Socket :
        /\ Becomes(h, s)
        /\ s.state = "syn" /\ s.port = LOCAL_ENDPOINT /\ s.draw = draws + 1
        /\ s.conn = draws + 1 /\ ~s.late /\ ~s.reset
  BY GrantedEffect DEF Inv
<1>3. /\ h \in Handles /\ Handles' = Handles /\ sockets'[h] = s
      /\ \A g \in Handles : g # h => sockets'[g] = sockets[g]
      /\ \A g \in Handles : given'[g] = given[g]
  BY <1>2 DEF Becomes
<1>4. /\ draws' = draws + 1 /\ draws \in Nat
      /\ LOCAL_ENDPOINT' = IF LOCAL_ENDPOINT + 1 = PortSpace THEN 0 ELSE LOCAL_ENDPOINT + 1
      /\ LOCAL_ENDPOINT \in 0..(PortSpace - 1) /\ PortSpace \in Nat /\ PortSpace > 1
  BY <1>1, FetchAdd, SetAssumption DEF Inv, Types
<1>5. given[h] = None
  BY <1>1 DEF Inv, CallInv
<1>6. \A u \in Threads : u # t /\ call[u][1] # "none" => call[u][2] # h
  BY <1>1 DEF Inv, CallInv
<1> HIDE DEF h
<1>7. CallInv'
  <2>1. ASSUME NEW u \in Threads
        PROVE  /\ call'[u][2] \in Handles' \cup {0}
               /\ call'[u][1] # "none" => call'[u][2] \in Handles' /\ given'[call'[u][2]] = None
               /\ call'[u][1] = "connecting" => sockets'[call'[u][2]].state \in {"syn", "open", "closed"}
               /\ call'[u][1] = "accepting" => sockets'[call'[u][2]].state # "syn"
               /\ call'[u][1] = "accepted" => Active(sockets'[call'[u][2]])
    <3>1. CASE u = t
      BY <1>1, <1>2, <1>3, <1>5, <3>1
    <3>2. CASE u # t
      BY <1>1, <1>3, <1>6, <3>2 DEF Inv, CallInv
    <3> QED BY <3>1, <3>2
  <2>2. \A u, v \in Threads :
          u # v /\ call'[u][1] # "none" /\ call'[v][1] # "none" => call'[u][2] # call'[v][2]
    BY <1>1, <1>6 DEF Inv, CallInv
  <2> QED BY <2>1, <2>2 DEF CallInv
<1>8. OwnerInv'
  <2>1. ASSUME NEW g \in Handles, g # h,
               sockets'[g].state # "closed", given'[g] = None, ~sockets'[g].late
        PROVE  \E u \in Threads : call'[u][1] \in {"connecting", "accepting", "accepted"} /\ call'[u][2] = g
    <3>1. PICK u \in Threads : call[u][1] \in {"connecting", "accepting", "accepted"} /\ call[u][2] = g
      BY <1>3, <2>1 DEF Inv, OwnerInv
    <3>2. u # t
      BY <1>1, <3>1
    <3> QED BY <1>1, <3>1, <3>2
  <2> QED BY <1>1, <1>3, <2>1 DEF OwnerInv
<1>9. NameInv'
  <2>1. s.conn # None
    BY <1>2, <1>4, SetAssumption
  <2> QED BY <1>2, <1>3, <1>5, <2>1 DEF Inv, NameInv, HandleNamesOneConnection
<1>10. DrawInv'
  <2>1. s.draw \in 0..draws' /\ s.conn \in 1..draws' /\ 0..draws \subseteq 0..draws' /\ 1..draws \subseteq 1..draws'
    BY <1>2, <1>4
  <2> QED BY <1>3, <2>1 DEF Inv, DrawInv
<1>11. PortInv'
  <2>1. ASSUME NEW g \in Handles, sockets'[g].draw > 0
        PROVE  LET d == draws' - sockets'[g].draw + 1
                   p == sockets'[g].port
               IN  /\ p # 0
                   /\ d < PortSpace => LOCAL_ENDPOINT' = IF p + d < PortSpace THEN p + d ELSE p + d - PortSpace
    <3>1. CASE g = h
      BY <1>1, <1>2, <1>3, <1>4, <3>1
    <3>2. CASE g # h
      BY <1>1, <1>3, <2>1, <3>2, DrawStep DEF Inv, PortInv
    <3> QED BY <3>1, <3>2
  <2> QED BY <1>3, <2>1 DEF PortInv
<1>12. PortsApart'
  <2>1. ASSUME NEW g \in Handles, g # h, sockets'[g].draw > 0, sockets'[g].port = sockets'[h].port
        PROVE  sockets'[h].draw >= sockets'[g].draw + PortSpace /\ sockets'[h].port # 0
    <3> DEFINE d == draws - sockets[g].draw + 1
               p == sockets[g].port
    <3>1. d < PortSpace => LOCAL_ENDPOINT = IF p + d < PortSpace THEN p + d ELSE p + d - PortSpace
      BY <1>3, <2>1 DEF Inv, PortInv
    <3>2. sockets[g].draw \in 0..draws /\ p \in 0..(PortSpace - 1)
      BY HandleTypes DEF Inv, DrawInv, Socket
    <3>3. d \in Nat /\ d >= 1
      BY <1>4, <3>2
    <3>4. p = LOCAL_ENDPOINT
      BY <1>2, <1>3, <2>1
    <3>5. d >= PortSpace
      <4> HIDE DEF d, p
      <4> QED BY <1>4, <3>1, <3>2, <3>3, <3>4
    <3> QED BY <1>1, <1>2, <1>3, <1>4, <2>1, <3>2, <3>5
  <2>2. ASSUME NEW g \in Handles, NEW k \in Handles, g < k, sockets'[g].port = sockets'[k].port,
               sockets'[g].draw > 0, sockets'[k].draw > 0
        PROVE  /\ \/ sockets'[k].draw >= sockets'[g].draw + PortSpace
                  \/ sockets'[g].draw >= sockets'[k].draw + PortSpace
               /\ sockets'[k].port # 0
    <3>1. g # k
      BY <2>2, HandleTypes DEF Inv
    <3>2. CASE g = h \/ k = h
      BY <2>1, <2>2, <3>1, <3>2
    <3>3. CASE g # h /\ k # h
      BY <1>3, <2>2, <3>3 DEF Inv, PortsApart
    <3> QED BY <3>2, <3>3
  <2> QED BY <1>3, <2>2 DEF PortsApart
<1> QED BY <1>1, <1>7, <1>8, <1>9, <1>10, <1>11, <1>12 DEF Inv

(* A socket that keeps its draw keeps its distance, whatever else it does.  *)
LEMMA PortsKept ==
  ASSUME Inv, NEW h, NEW s, Becomes(h, s), UNCHANGED <<LOCAL_ENDPOINT, draws>>,
         s.draw = 0 \/ (s.draw = sockets[h].draw /\ s.port = sockets[h].port),
         s.conn \in Clients \cup {sockets[h].conn, None}
  PROVE  PortInv' /\ PortsApart' /\ DrawInv'
<1>1. /\ h \in Handles /\ Handles' = Handles /\ sockets'[h] = s
      /\ \A g \in Handles : g # h => sockets'[g] = sockets[g]
      /\ \A g \in Handles : given'[g] = given[g]
  BY DEF Becomes
<1>2. \A g \in Handles : sockets'[g].draw > 0 =>
        sockets'[g].draw = sockets[g].draw /\ sockets'[g].port = sockets[g].port
  BY <1>1
<1>3. PortInv'
  BY <1>1, <1>2 DEF Inv, PortInv
<1>4. PortsApart'
  BY <1>1, <1>2 DEF Inv, PortsApart
<1>5. DrawInv'
  <2>1. 0 \in 0..draws
    BY DEF Inv, Types
  <2> QED BY <1>1, <2>1 DEF Inv, DrawInv
<1> QED BY <1>3, <1>4, <1>5

(* accept's socket listens, for the call that made it.                      *)
LEMMA ListenStep == Inv /\ (\E t \in Threads : Listen(t)) => Inv'
<1> SUFFICES ASSUME Inv, NEW t \in Threads, Listen(t)
             PROVE  Inv'
  OBVIOUS
<1> DEFINE h == call[t][2]
<1>1. /\ call[t][1] = "accept" /\ UNCHANGED <<LOCAL_ENDPOINT, draws>> /\ Types'
      /\ call'[t][1] = "accepting" /\ call'[t][2] = h
      /\ \A u \in Threads : u # t => call'[u] = call[u]
  BY ListenEffect DEF Inv, CallIs
<1>2. PICK s \in Socket :
        Becomes(h, s) /\ s.state = "listen" /\ s.draw = 0 /\ s.conn = None /\ ~s.late /\ ~s.reset
  BY ListenEffect DEF Inv
<1>3. /\ h \in Handles /\ Handles' = Handles /\ sockets'[h] = s
      /\ \A g \in Handles : g # h => sockets'[g] = sockets[g]
      /\ \A g \in Handles : given'[g] = given[g]
  BY <1>2 DEF Becomes
<1>4. given[h] = None
  BY <1>1 DEF Inv, CallInv
<1>5. \A u \in Threads : u # t /\ call[u][1] # "none" => call[u][2] # h
  BY <1>1 DEF Inv, CallInv
<1> HIDE DEF h
<1>6. CallInv'
  <2>1. ASSUME NEW u \in Threads
        PROVE  /\ call'[u][2] \in Handles' \cup {0}
               /\ call'[u][1] # "none" => call'[u][2] \in Handles' /\ given'[call'[u][2]] = None
               /\ call'[u][1] = "connecting" => sockets'[call'[u][2]].state \in {"syn", "open", "closed"}
               /\ call'[u][1] = "accepting" => sockets'[call'[u][2]].state # "syn"
               /\ call'[u][1] = "accepted" => Active(sockets'[call'[u][2]])
    <3>1. CASE u = t
      BY <1>1, <1>2, <1>3, <1>4, <3>1
    <3>2. CASE u # t
      BY <1>1, <1>3, <1>5, <3>2 DEF Inv, CallInv
    <3> QED BY <3>1, <3>2
  <2>2. \A u, v \in Threads :
          u # v /\ call'[u][1] # "none" /\ call'[v][1] # "none" => call'[u][2] # call'[v][2]
    BY <1>1, <1>5 DEF Inv, CallInv
  <2> QED BY <2>1, <2>2 DEF CallInv
<1>7. OwnerInv'
  <2>1. ASSUME NEW g \in Handles, g # h,
               sockets'[g].state # "closed", given'[g] = None, ~sockets'[g].late
        PROVE  \E u \in Threads : call'[u][1] \in {"connecting", "accepting", "accepted"} /\ call'[u][2] = g
    <3>1. PICK u \in Threads : call[u][1] \in {"connecting", "accepting", "accepted"} /\ call[u][2] = g
      BY <1>3, <2>1 DEF Inv, OwnerInv
    <3>2. u # t
      BY <1>1, <3>1
    <3> QED BY <1>1, <3>1, <3>2
  <2> QED BY <1>1, <1>3, <2>1 DEF OwnerInv
<1>8. NameInv'
  BY <1>2, <1>3, <1>4 DEF Inv, NameInv, HandleNamesOneConnection
<1>9. PortInv' /\ PortsApart' /\ DrawInv'
  BY <1>1, <1>2, PortsKept
<1> QED BY <1>1, <1>6, <1>7, <1>8, <1>9 DEF Inv

(* A handle is given out with the connection that it has.                   *)
LEMMA PolledStep == Inv /\ (\E t \in Threads : Polled(t) /\ Return(t)) => Inv'
<1> SUFFICES ASSUME Inv, NEW t \in Threads, Polled(t), Return(t)
             PROVE  Inv'
  OBVIOUS
<1> DEFINE h == call[t][2]
<1>1. /\ call[t][1] \in {"connecting", "accepting"} /\ h \in Handles
      /\ call'[t][1] = "none" /\ call'[t][2] = 0
      /\ \A u \in Threads : u # t => call'[u] = call[u]
      /\ UNCHANGED <<sockets, LOCAL_ENDPOINT, draws>> /\ Handles' = Handles
      /\ \/ sockets[h].state = "open" /\ given'[h] = sockets[h].conn
         \/ sockets[h].state = "closed" /\ given'[h] = given[h]
      /\ \A g \in Handles : g # h => given'[g] = given[g]
      /\ Types'
  BY PolledEffect DEF Inv, CallIs, Handles
<1>2. \A u \in Threads : u # t /\ call[u][1] # "none" => call[u][2] # h
  BY <1>1 DEF Inv, CallInv
<1> HIDE DEF h
<1>3. CallInv'
  BY <1>1, <1>2 DEF Inv, CallInv
<1>4. OwnerInv'
  <2>1. ASSUME NEW g \in Handles, sockets[g].state # "closed", given'[g] = None, ~sockets[g].late
        PROVE  \E u \in Threads : call'[u][1] \in {"connecting", "accepting", "accepted"} /\ call'[u][2] = g
    <3>1. g # h
      BY <1>1, <2>1 DEF Inv, NameInv
    <3>2. PICK u \in Threads : call[u][1] \in {"connecting", "accepting", "accepted"} /\ call[u][2] = g
      BY <1>1, <2>1, <3>1 DEF Inv, OwnerInv
    <3>3. u # t
      BY <3>1, <3>2 DEF h
    <3> QED BY <1>1, <3>2, <3>3
  <2> QED BY <1>1, <2>1 DEF OwnerInv
<1>5. NameInv'
  BY <1>1 DEF Inv, NameInv, HandleNamesOneConnection
<1>6. DrawInv'
  BY <1>1 DEF Inv, DrawInv
<1>7. PortInv' /\ PortsApart'
  BY <1>1 DEF Inv, PortInv, PortsApart
<1> QED BY <1>1, <1>3, <1>4, <1>5, <1>6, <1>7 DEF Inv

(* accept has seen a socket with a peer.                                    *)
LEMMA SeenStep == Inv /\ (\E t \in Threads : Polled(t) /\ ~Return(t)) => Inv'
<1> SUFFICES ASSUME Inv, NEW t \in Threads, Polled(t), ~Return(t)
             PROVE  Inv'
  OBVIOUS
<1> DEFINE h == call[t][2]
<1>1. /\ call[t][1] = "accepting" /\ h \in Handles /\ sockets[h].state \in {"half", "open"}
      /\ call'[t][1] = "accepted" /\ call'[t][2] = h
      /\ \A u \in Threads : u # t => call'[u] = call[u]
      /\ UNCHANGED <<sockets, LOCAL_ENDPOINT, draws, given>> /\ Handles' = Handles
      /\ Types'
  BY SeenEffect DEF Inv, CallIs, Handles
<1>2. Active(sockets[h])
  BY <1>1 DEF Inv, NameInv, Active
<1> HIDE DEF h
<1>3. CallInv'
  BY <1>1, <1>2 DEF Inv, CallInv, Active, h
<1>4. OwnerInv'
  BY <1>1 DEF Inv, OwnerInv, h
<1>5. NameInv' /\ DrawInv' /\ PortInv' /\ PortsApart'
  BY <1>1 DEF Inv, NameInv, HandleNamesOneConnection, DrawInv, PortInv, PortsApart
<1> QED BY <1>1, <1>3, <1>4, <1>5 DEF Inv

(* accept returns: the handle names what the socket is connected to then.   *)
LEMMA AcceptedStep == Inv /\ (\E t \in Threads : Accepted(t)) => Inv'
<1> SUFFICES ASSUME Inv, NEW t \in Threads, Accepted(t)
             PROVE  Inv'
  OBVIOUS
<1> DEFINE h == call[t][2]
           s == Returned(sockets[h])
<1>1. /\ call[t][1] = "accepted" /\ h \in Handles
      /\ call'[t][1] = "none" /\ call'[t][2] = 0
      /\ \A u \in Threads : u # t => call'[u] = call[u]
      /\ s \in Socket /\ Handles' = Handles /\ sockets'[h] = s
      /\ \A g \in Handles : g # h => sockets'[g] = sockets[g]
      /\ given'[h] = sockets[h].conn
      /\ \A g \in Handles : g # h => given'[g] = given[g]
      /\ UNCHANGED <<LOCAL_ENDPOINT, draws>> /\ Types'
  BY AcceptedEffect DEF Inv, CallIs
<1>2. Active(sockets[h]) /\ sockets[h] \in Socket
  BY <1>1, HandleTypes DEF Inv, CallInv
<1>3. /\ s.state = sockets[h].state /\ s.port = sockets[h].port /\ s.draw = sockets[h].draw
      /\ s.conn = sockets[h].conn /\ s.late = sockets[h].late
      /\ s.reset = (sockets[h].reset /\ sockets[h].state = "listen")
  BY <1>2 DEF Socket, Returned
<1>4. s.conn # None /\ (s.state = "listen" => s.reset)
  BY <1>2, <1>3 DEF Active
<1>5. \A u \in Threads : u # t /\ call[u][1] # "none" => call[u][2] # h
  BY <1>1 DEF Inv, CallInv
<1> HIDE DEF h, s
<1>6. CallInv'
  BY <1>1, <1>5 DEF Inv, CallInv
<1>7. OwnerInv'
  <2>1. ASSUME NEW g \in Handles, sockets'[g].state # "closed", given'[g] = None, ~sockets'[g].late
        PROVE  \E u \in Threads : call'[u][1] \in {"connecting", "accepting", "accepted"} /\ call'[u][2] = g
    <3>1. g # h
      BY <1>1, <1>3, <1>4, <2>1
    <3>2. PICK u \in Threads : call[u][1] \in {"connecting", "accepting", "accepted"} /\ call[u][2] = g
      BY <1>1, <2>1, <3>1 DEF Inv, OwnerInv
    <3>3. u # t
      BY <3>1, <3>2 DEF h
    <3> QED BY <1>1, <3>2, <3>3
  <2> QED BY <1>1, <2>1 DEF OwnerInv
<1>8. NameInv'
  BY <1>1, <1>3, <1>4 DEF Inv, NameInv, HandleNamesOneConnection
<1>9. DrawInv'
  BY <1>1, <1>3 DEF Inv, DrawInv
<1>10. PortInv' /\ PortsApart'
  <2>1. \A g \in Handles : sockets'[g].draw = sockets[g].draw /\ sockets'[g].port = sockets[g].port
    BY <1>1, <1>3
  <2> QED BY <1>1, <2>1 DEF Inv, PortInv, PortsApart
<1> QED BY <1>1, <1>6, <1>7, <1>8, <1>9, <1>10 DEF Inv

(* A call that gives up marks the socket it leaves behind.                  *)
LEMMA TimeoutStep == Inv /\ (\E t \in Threads : Timeout(t)) => Inv'
<1> SUFFICES ASSUME Inv, NEW t \in Threads, Timeout(t)
             PROVE  Inv'
  OBVIOUS
<1> DEFINE h == call[t][2]
           s == [sockets[h] EXCEPT !.late = TRUE]
<1>1. /\ call[t][1] = "connecting" /\ s \in Socket /\ Becomes(h, s)
      /\ call'[t][1] = "none" /\ call'[t][2] = 0
      /\ \A u \in Threads : u # t => call'[u] = call[u]
      /\ UNCHANGED <<LOCAL_ENDPOINT, draws>> /\ Types'
  BY TimeoutEffect DEF Inv, CallIs
<1>2. /\ h \in Handles /\ Handles' = Handles /\ sockets'[h] = s
      /\ \A g \in Handles : g # h => sockets'[g] = sockets[g]
      /\ \A g \in Handles : given'[g] = given[g]
  BY <1>1 DEF Becomes
<1>3. sockets[h] \in Socket
  BY <1>2, HandleTypes DEF Inv
<1>4. /\ s.state = sockets[h].state /\ s.port = sockets[h].port /\ s.draw = sockets[h].draw
      /\ s.conn = sockets[h].conn /\ s.late /\ s.reset = sockets[h].reset
  BY <1>3 DEF Socket
<1>5. \A u \in Threads : u # t /\ call[u][1] # "none" => call[u][2] # h
  BY <1>1 DEF Inv, CallInv
<1> HIDE DEF h, s
<1>6. CallInv'
  BY <1>1, <1>2, <1>5 DEF Inv, CallInv
<1>7. OwnerInv'
  <2>1. ASSUME NEW g \in Handles, sockets'[g].state # "closed", given'[g] = None, ~sockets'[g].late
        PROVE  \E u \in Threads : call'[u][1] \in {"connecting", "accepting", "accepted"} /\ call'[u][2] = g
    <3>1. g # h
      BY <1>2, <1>4, <2>1
    <3>2. PICK u \in Threads : call[u][1] \in {"connecting", "accepting", "accepted"} /\ call[u][2] = g
      BY <1>2, <2>1, <3>1 DEF Inv, OwnerInv
    <3>3. u # t
      BY <3>1, <3>2 DEF h
    <3> QED BY <1>1, <3>2, <3>3
  <2> QED BY <1>2, <2>1 DEF OwnerInv
<1>8. NameInv'
  BY <1>2, <1>4 DEF Inv, NameInv, HandleNamesOneConnection
<1>9. PortInv' /\ PortsApart' /\ DrawInv'
  BY <1>1, <1>4, PortsKept
<1> QED BY <1>1, <1>6, <1>7, <1>8, <1>9 DEF Inv

(* What the network and close may do to a socket.                           *)
LEMMA EventSockets ==
  ASSUME Inv, NEW h \in Handles, NEW s,
         \/ s = Ended(sockets[h]) /\ given[h] # None
         \/ s = Opened(sockets[h]) /\ sockets[h].state \in {"syn", "half"}
         \/ s = Broken(sockets[h]) /\ sockets[h].state \in {"syn", "half", "open"}
         \/ \E c \in Clients : s = Taken(sockets[h], c) /\ sockets[h].state = "listen"
  PROVE  /\ s.port = sockets[h].port /\ s.draw = sockets[h].draw /\ s.late = sockets[h].late
         /\ s.conn \in Clients \cup {sockets[h].conn, None}
         /\ s.state # "syn"
         /\ sockets[h].state \in {"syn", "open"} => s.state \in {"open", "closed"}
         /\ s.state # "closed" => sockets[h].state # "closed"
         /\ s.state \in {"half", "open"} => s.conn # None
         /\ s.state = "listen" => s.reset
         /\ sockets[h].conn # s.conn => sockets[h].state = "listen"
         /\ sockets[h].reset => s.reset
         /\ sockets[h].conn # None => s.conn # None
<1> DEFINE o == sockets[h]
<1>1. o \in Socket
  BY HandleTypes DEF Inv
<1>2. o.state \in {"syn", "half", "open"} => o.conn # None
  BY DEF Inv, NameInv
<1>3. None \notin Clients
  BY SetAssumption
<1> HIDE DEF o
<1>4. CASE s = Ended(o)
  BY <1>1, <1>4 DEF Ended, Socket, o
<1>5. CASE s = Opened(o) /\ o.state \in {"syn", "half"}
  BY <1>1, <1>2, <1>5 DEF Opened, Socket, o
<1>6. CASE s = Broken(o) /\ o.state \in {"syn", "half", "open"}
  BY <1>1, <1>2, <1>6 DEF Broken, Socket, o
<1>7. ASSUME NEW c \in Clients, s = Taken(o, c), o.state = "listen"
      PROVE  /\ s.port = o.port /\ s.draw = o.draw /\ s.late = o.late
             /\ s.conn = c /\ s.state = "half" /\ s.reset = o.reset
  BY <1>1, <1>7 DEF Taken, Socket
<1> QED BY <1>3, <1>4, <1>5, <1>6, <1>7 DEF o

(* No event takes a socket from its owner or changes what a handle names.   *)
LEMMA EventStep == Inv /\ Events => Inv'
<1> SUFFICES ASSUME Inv, Events PROVE Inv'
  OBVIOUS
<1>1. UNCHANGED <<LOCAL_ENDPOINT, draws, given, call>> /\ Types'
  BY EventEffect DEF Inv, Events
<1>2. CASE UNCHANGED sockets
  BY <1>1, <1>2 DEF Inv, CallInv, OwnerInv, NameInv, HandleNamesOneConnection, DrawInv, PortInv,
       PortsApart, Handles
<1>3. ASSUME NEW h \in Handles, NEW s, Becomes(h, s),
             \/ s = Ended(sockets[h]) /\ given[h] # None
             \/ s = Opened(sockets[h]) /\ sockets[h].state \in {"syn", "half"}
             \/ s = Broken(sockets[h]) /\ sockets[h].state \in {"syn", "half", "open"}
             \/ \E c \in Clients : s = Taken(sockets[h], c) /\ sockets[h].state = "listen"
      PROVE  Inv'
  <2>1. /\ Handles' = Handles /\ sockets'[h] = s
        /\ \A g \in Handles : g # h => sockets'[g] = sockets[g]
    BY <1>3 DEF Becomes
  <2>2. /\ s.port = sockets[h].port /\ s.draw = sockets[h].draw /\ s.late = sockets[h].late
        /\ s.conn \in Clients \cup {sockets[h].conn, None}
        /\ s.state # "syn"
        /\ sockets[h].state \in {"syn", "open"} => s.state \in {"open", "closed"}
        /\ s.state # "closed" => sockets[h].state # "closed"
        /\ s.state \in {"half", "open"} => s.conn # None
        /\ s.state = "listen" => s.reset
        /\ sockets[h].conn # s.conn => sockets[h].state = "listen"
        /\ sockets[h].reset => s.reset
        /\ sockets[h].conn # None => s.conn # None
    BY <1>3, EventSockets
  <2>3. CallInv'
    BY <1>1, <1>3, <2>1, <2>2 DEF Inv, CallInv, Active
  <2>4. OwnerInv'
    BY <1>1, <2>1, <2>2 DEF Inv, OwnerInv
  <2>5. NameInv'
    BY <1>1, <2>1, <2>2 DEF Inv, NameInv, HandleNamesOneConnection
  <2>6. PortInv' /\ PortsApart' /\ DrawInv'
    BY <1>1, <1>3, <2>2, PortsKept
  <2> QED BY <1>1, <2>3, <2>4, <2>5, <2>6 DEF Inv
<1> QED BY <1>2, <1>3, EventEffect DEF Inv, Events

-----------------------------------------------------------------------------
(* The invariant holds in every state of the socket set.                    *)
THEOREM SocketSetInvariant == Spec => []Inv
<1>1. Inv /\ [Next]_vars => Inv'
  BY Kinds, Stutter, OpenStep, RefusedStep, GrantedStep, ListenStep, PolledStep, SeenStep,
     AcceptedStep, TimeoutStep, EventStep
<1> QED BY Start, <1>1, PTL DEF Spec

(* The set, the port counter and the calls keep their types (mod.rs 94-101, *)
(* 196-243).                                                                *)
THEOREM SocketSetTypes == Spec => []TypeOK
<1>1. Inv => TypeOK
  <2> SUFFICES ASSUME Inv PROVE TypeOK
    OBVIOUS
  <2>1. DOMAIN given = Handles
    BY DEF Inv, Types, Handles
  <2>2. call \in [Threads -> {"none", "connect", "accept", "connecting", "accepting", "accepted"}
                              \X (Handles \cup {0})]
    BY DEF Inv, Types, Names, CallInv
  <2>3. ASSUME NEW h \in Handles
        PROVE  /\ sockets[h].state \in {"closed", "syn", "listen", "half", "open"}
               /\ sockets[h].port \in 0..(PortSpace - 1)
               /\ sockets[h].draw \in 0..draws
               /\ {sockets[h].late, sockets[h].reset} \subseteq BOOLEAN
               /\ {sockets[h].conn, given[h]} \subseteq (1..draws) \cup Clients \cup {None}
    <3>1. sockets[h] \in Socket
      BY HandleTypes DEF Inv
    <3> QED BY <3>1 DEF Inv, DrawInv, Socket, States
  <2> QED BY <2>1, <2>2, <2>3 DEF TypeOK, Inv, Types
<1> QED BY SocketSetInvariant, <1>1, PTL

(* However many threads connect at once, however often connect is refused,  *)
(* and whatever the size of the port counter: two sockets of the set have   *)
(* the same local port only if at least PortSpace draws lie between them.   *)
THEOREM PortsTheorem == Spec => []PortsApart
<1>1. Inv => PortsApart
  BY DEF Inv
<1> QED BY SocketSetInvariant, <1>1, PTL

(* A handle that the application holds names the connection for which it    *)
(* was returned, as long as it was not reset half-open.                     *)
THEOREM HandleTheorem == Spec => []HandleNamesOneConnection
<1>1. Inv => HandleNamesOneConnection
  BY DEF Inv, NameInv
<1> QED BY SocketSetInvariant, <1>1, PTL

(* A connection without an owner is one whose connect timed out.            *)
THEOREM OrphanTheorem == Spec => []OrphansAreLate
<1>1. Inv => OrphansAreLate
  BY DEF Inv, OwnerInv, OrphansAreLate
<1> QED BY SocketSetInvariant, <1>1, PTL
=============================================================================
