----------------------------- MODULE PeersProofs -----------------------------
(***************************************************************************)
(* Proofs about Peers for every set of hosts, every list of configured     *)
(* hosts and any number of indices, connections and challenges: the types, *)
(* the two maps of the collection, and what is queued and connected: every *)
(* loss is noticed, the collection does not leak, an index never changes   *)
(* hands, a connected peer is not removed, and the side that dialled is    *)
(* connected only once the other side has verified it.                     *)
(***************************************************************************)
EXTENDS Peers, FiniteSetTheorems, TLAPS

-----------------------------------------------------------------------------
(* Types.                                                                   *)

\* A drawn challenge is a challenge.
LEMMA FreshType == Fresh \subseteq Challenges
BY DEF Fresh

\* What is signed is a challenge or the zeros, and never nothing.
LEMMA SignedType ==
    ASSUME NEW x \in Challenges \cup {None}
    PROVE  Signed(x) \in Challenges \cup {Zeros} /\ Signed(x) # None
BY PeersAssumption DEF Signed, Zeros, Challenges, None

\* Heads and tails of the two channels are well typed.
LEMMA ChannelTypes ==
    ASSUME TypeOK
    PROVE  /\ events # << >> => /\ Head(events) \in Event
                                /\ Tail(events) \in Seq(Event)
           /\ requests # << >> => /\ Head(requests) \in Request
                                  /\ Tail(requests) \in Seq(Request)
BY DEF TypeOK

\* A new connection keeps the types.
LEMMA NewConnectionType ==
    ASSUME TypeOK, NEW i \in Index, NEW h \in KeyOrNone, NEW d \in BOOLEAN,
           NEW x \in Challenges \cup {None}, NEW in \in Seq(Message),
           NewConnection(i, h, d, x, in)
    PROVE  /\ events' \in Seq(Event)
           /\ sockets' \in [Index -> Conns \cup {None}]
           /\ conns' \in [Conns -> Conn]
           /\ made' \in 0 .. MaxConns
<1>1. made + 1 \in Conns /\ made' \in 0 .. MaxConns
  BY PeersAssumption DEF TypeOK, NewConnection, Conns
<1>2. [index |-> i, host |-> h, dialled |-> d, theirs |-> x, inbox |-> in,
       view |-> "waiting"] \in Conn
  BY DEF Conn
<1>3. conns' \in [Conns -> Conn]
  BY <1>1, <1>2 DEF TypeOK, NewConnection
<1>4. sockets' \in [Index -> Conns \cup {None}]
  BY <1>1 DEF TypeOK, NewConnection
<1>5. [type |-> "new", index |-> i, key |-> NoHost, msg |-> NoMessage] \in Event
  BY DEF Event, KeyOrNone, NoMessage, Message
<1>6. events' \in Seq(Event)
  BY <1>5 DEF TypeOK, NewConnection, Report
<1> QED BY <1>1, <1>3, <1>4, <1>6

\* What a reader reports is one message of the connection, with a key of its host.
LEMMA ReadReports ==
    ASSUME TypeOK, NEW c \in Conns, ReadMessage(c)
    PROVE  \E key \in Keys :
             /\ Holder[key] = conns[c].host
             /\ [type |-> "message", index |-> conns[c].index, key |-> key,
                 msg |-> Head(conns[c].inbox)] \in Event
             /\ events' = Append(events, [type |-> "message", index |-> conns[c].index,
                                          key |-> key, msg |-> Head(conns[c].inbox)])
<1>1. PICK key \in Keys : /\ Holder[key] = conns[c].host
                         /\ Report("message", conns[c].index, key, Head(conns[c].inbox))
  BY DEF ReadMessage
<1>2. /\ conns[c] \in Conn /\ conns[c].inbox \in Seq(Message) /\ conns[c].inbox # << >>
      /\ conns[c].index \in Index
  BY DEF TypeOK, Conn, ReadMessage, Reading
<1>3. Head(conns[c].inbox) \in Message
  BY <1>2
<1>4. [type |-> "message", index |-> conns[c].index, key |-> key,
       msg |-> Head(conns[c].inbox)] \in Event
  BY <1>2, <1>3 DEF Event, KeyOrNone
<1> QED BY <1>1, <1>4 DEF Report

\* Network actions keep the types.
LEMMA NetworkType ==
    ASSUME TypeOK,
           \/ \E h \in Hosts : Incoming(h)
           \/ DialSucceeds \/ DialFails \/ DisconnectSocket \/ SendMessage
           \/ \E c \in Conns : ReadMessage(c) \/ ReaderEnds(c)
    PROVE  TypeOK'
<1> USE PeersAssumption, ChannelTypes
<1>1. CASE \E h \in Hosts : Incoming(h)
  <2> PICK h \in Hosts : Incoming(h)
    BY <1>1
  <2>1. counter + 1 \in Index /\ counter' \in Len(PeerConfigs) .. MaxIndex
    BY DEF TypeOK, Incoming, Index
  <2>2. << >> \in Seq(Message) /\ h \in KeyOrNone
    BY PeersAssumption DEF KeyOrNone
  <2>3. NewConnection(counter + 1, h, FALSE, None, << >>)
    BY DEF Incoming
  <2>4. /\ events' \in Seq(Event)
        /\ sockets' \in [Index -> Conns \cup {None}]
        /\ conns' \in [Conns -> Conn]
        /\ made' \in 0 .. MaxConns
    BY <2>1, <2>2, <2>3, NewConnectionType
  <2> QED BY <2>1, <2>4 DEF TypeOK, Incoming
<1>2. CASE DialSucceeds
  <2>1. /\ Head(requests).index \in Index
        /\ Head(requests).key \in KeyOrNone
        /\ requests' \in Seq(Request)
    BY <1>2 DEF DialSucceeds, Requested, Request
  <2>2. PICK x \in Challenges :
            NewConnection(Head(requests).index, Head(requests).key, TRUE, x,
                          <<[signed |-> None, challenge |-> x]>>)
    BY <1>2, FreshType DEF DialSucceeds
  <2>3. <<[signed |-> None, challenge |-> x]>> \in Seq(Message)
    BY DEF Message
  <2>4. /\ events' \in Seq(Event)
        /\ sockets' \in [Index -> Conns \cup {None}]
        /\ conns' \in [Conns -> Conn]
        /\ made' \in 0 .. MaxConns
    BY <2>1, <2>2, <2>3, NewConnectionType
  <2> QED BY <1>2, <2>1, <2>4 DEF TypeOK, DialSucceeds, collection
<1>3. CASE DialFails
  BY <1>3 DEF TypeOK, DialFails, Requested, collection
<1>4. CASE DisconnectSocket
  <2>1. Head(requests).index \in Index /\ requests' \in Seq(Request)
    BY <1>4 DEF DisconnectSocket, Requested, Request
  <2>2. [type |-> "gone", index |-> Head(requests).index, key |-> NoHost, msg |-> NoMessage]
          \in Event
    BY <2>1 DEF Event, KeyOrNone, NoMessage, Message
  <2>3. events' \in Seq(Event)
    BY <1>4, <2>2 DEF DisconnectSocket, Report, TypeOK
  <2> QED BY <1>4, <2>1, <2>3 DEF TypeOK, DisconnectSocket, collection
<1>5. CASE SendMessage
  <2>1. /\ Head(requests).index \in Index
        /\ Head(requests).msg \in Message
        /\ requests' \in Seq(Request)
    BY <1>5 DEF SendMessage, Requested, Request
  <2> DEFINE c == sockets[Head(requests).index]
             msg == Head(requests).msg
  <2>2. ASSUME c # None, RemoteHears(c, msg) PROVE conns' \in [Conns -> Conn]
    <3>1. c \in Conns
      BY <2>1, <2>2 DEF TypeOK
    <3>2. conns[c] \in Conn /\ conns[c].inbox \in Seq(Message)
      BY <3>1 DEF TypeOK, Conn
    <3>3. msg.challenge \in Challenges \cup {None}
      BY <2>1 DEF Message
    <3>4. \A x \in Challenges \cup {None} :
            Append(conns[c].inbox, [signed |-> Signed(msg.challenge), challenge |-> x]) \in Seq(Message)
      BY <3>2, <3>3, SignedType DEF Message
    <3>5. ASSUME NEW y \in Challenges \cup {None}, NEW in \in Seq(Message),
                 NEW v \in {"waiting", "verified", "refused", "dropped"},
                 conns' = [conns EXCEPT ![c] = [conns[c] EXCEPT !.theirs = y, !.inbox = in,
                                                              !.view = v]]
          PROVE  conns' \in [Conns -> Conn]
      BY <3>1, <3>2, <3>5 DEF TypeOK, Conn
    <3>6. CASE conns' = conns
      BY <3>6 DEF TypeOK
    <3>7. CASE \E x \in Fresh :
                 conns' = [conns EXCEPT ![c].theirs = x,
                   ![c].inbox = Append(@, [signed |-> Signed(msg.challenge), challenge |-> x])]
      <4> PICK x \in Challenges :
                 conns' = [conns EXCEPT ![c].theirs = x,
                   ![c].inbox = Append(@, [signed |-> Signed(msg.challenge), challenge |-> x])]
        BY <3>7, FreshType
      <4> DEFINE in == Append(conns[c].inbox, [signed |-> Signed(msg.challenge), challenge |-> x])
      <4>1. in \in Seq(Message)
        BY <3>4
      <4>2. conns' = [conns EXCEPT ![c] = [conns[c] EXCEPT !.theirs = x, !.inbox = in,
                                                         !.view = conns[c].view]]
        BY <3>1, <3>2 DEF TypeOK, Conn
      <4>3. conns[c].view \in {"waiting", "verified", "refused", "dropped"}
        BY <3>2 DEF Conn
      <4> QED BY ONLY <3>5, <4>1, <4>2, <4>3
    <3>8. CASE conns' = [conns EXCEPT ![c].theirs = None, ![c].view = "verified",
                    ![c].inbox = IF conns[c].dialled
                                   THEN Append(@, [signed |-> Signed(msg.challenge), challenge |-> None])
                                   ELSE @]
      <4> DEFINE in == IF conns[c].dialled
                         THEN Append(conns[c].inbox, [signed |-> Signed(msg.challenge), challenge |-> None])
                         ELSE conns[c].inbox
      <4>1. in \in Seq(Message)
        BY <3>2, <3>4
      <4>2. conns' = [conns EXCEPT ![c] = [conns[c] EXCEPT !.theirs = None, !.inbox = in,
                                                         !.view = "verified"]]
        BY ZenonT(40), <3>8, <3>1, <3>2 DEF TypeOK, Conn
      <4> QED BY <3>5, <4>1, <4>2
    <3>9. CASE conns' = [conns EXCEPT ![c].theirs = None,
                    ![c].view = IF @ = "verified" THEN "dropped" ELSE "refused"]
      <4> DEFINE v == IF conns[c].view = "verified" THEN "dropped" ELSE "refused"
      <4>3. conns' = [conns EXCEPT ![c] = [conns[c] EXCEPT !.theirs = None, !.view = v]]
        BY <3>9, <3>1 DEF TypeOK
      <4>4. [conns[c] EXCEPT !.theirs = None, !.view = v] =
              [conns[c] EXCEPT !.theirs = None, !.inbox = conns[c].inbox, !.view = v]
        BY <3>2 DEF Conn
      <4>1. conns' = [conns EXCEPT ![c] = [conns[c] EXCEPT !.theirs = None,
                                            !.inbox = conns[c].inbox, !.view = v]]
        BY ONLY <4>3, <4>4
      <4> QED BY <3>5, <4>1, <3>2
    <3> QED BY <2>2, <3>6, <3>7, <3>8, <3>9 DEF RemoteHears
  <2>3. conns' \in [Conns -> Conn] /\ sockets' \in [Index -> Conns \cup {None}]
    BY <1>5, <2>1, <2>2 DEF SendMessage, TypeOK
  <2> QED BY <1>5, <2>1, <2>3 DEF TypeOK, SendMessage, collection
<1>6. ASSUME NEW c \in Conns, ReadMessage(c) PROVE TypeOK'
  <2>1. /\ conns[c] \in Conn /\ conns[c].inbox \in Seq(Message) /\ conns[c].inbox # << >>
        /\ conns[c].index \in Index /\ conns[c].host \in KeyOrNone
    BY <1>6 DEF TypeOK, Conn, ReadMessage, Reading
  <2>2. Head(conns[c].inbox) \in Message /\ Tail(conns[c].inbox) \in Seq(Message)
    BY <2>1
  <2>3. conns' = [conns EXCEPT ![c] = [conns[c] EXCEPT !.inbox = Tail(conns[c].inbox)]]
    BY <1>6, <2>1 DEF ReadMessage, TypeOK, Conn
  <2>4. conns' \in [Conns -> Conn]
    BY <2>1, <2>2, <2>3 DEF TypeOK, Conn
  <2>6. events' \in Seq(Event)
    <3>1. PICK e \in Event : events' = Append(events, e)
      BY <1>6, ReadReports
    <3> QED BY <3>1 DEF TypeOK
  <2> QED BY <1>6, <2>4, <2>6 DEF TypeOK, ReadMessage, collection
<1>7. ASSUME NEW c \in Conns, ReaderEnds(c) PROVE TypeOK'
  <2>1. conns[c].index \in Index
    BY <1>7 DEF TypeOK, Conn, ReaderEnds, Reading
  <2>2. NoConn \in Conn
    BY DEF NoConn, Conn, KeyOrNone
  <2>3. [type |-> "gone", index |-> conns[c].index, key |-> NoHost, msg |-> NoMessage] \in Event
    BY <2>1 DEF Event, KeyOrNone, NoMessage, Message
  <2>4. events' \in Seq(Event)
    BY <1>7, <2>3 DEF ReaderEnds, Report, TypeOK
  <2> QED BY <1>7, <2>1, <2>2, <2>4 DEF TypeOK, ReaderEnds, collection
<1> QED BY <1>1, <1>2, <1>3, <1>4, <1>5, <1>6, <1>7

\* The requests the routing thread makes are well typed.
LEMMA RequestTypes ==
    ASSUME NEW i \in Index, NEW h \in KeyOrNone,
           NEW s \in Challenges \cup {None, Zeros}, NEW x \in Challenges \cup {None}
    PROVE  /\ Send(i, s, x) \in Request
           /\ Disconnect(i) \in Request
           /\ Connect(i, h) \in Request
BY DEF Send, Disconnect, Connect, Request, KeyOrNone, NoMessage, Message

\* What the timer appends: connects to static peers with their configuration.
LEMMA DialRequests ==
    ASSUME TypeOK,
           NEW due \in SUBSET {i \in Index : peers[i].status = "disconnected" /\ peers[i].static # NoHost},
           Dial(due)
    PROVE  \E s \in Seq(Request) :
             /\ requests' = requests \o s
             /\ \A n \in DOMAIN s :
                  /\ s[n].type = "connect" /\ s[n].index \in Index
                  /\ peers[s[n].index].status = "disconnected"
                  /\ peers[s[n].index].static # NoHost
                  /\ s[n].key = peers[s[n].index].static /\ s[n].msg = NoMessage
<1>1. PICK order \in SetToSeqs(due) :
         requests' = requests \o [n \in DOMAIN order |-> Connect(order[n], peers[order[n]].static)]
  BY DEF Dial
<1>2. Cardinality(due) \in Nat
  <2>1. IsFiniteSet(Index)
    BY PeersAssumption, FS_Interval DEF Index
  <2> QED BY <2>1, FS_Subset, FS_CardinalityType
<1>3. order \in [1 .. Cardinality(due) -> due]
  BY DEF SetToSeqs
<1> DEFINE N == Cardinality(due)
           s == [n \in 1 .. N |-> Connect(order[n], peers[order[n]].static)]
<1>4. requests' = requests \o s
  <2>1. DOMAIN order = 1 .. N
    BY <1>3
  <2> QED BY <1>1, <2>1
<1>5. ASSUME NEW n \in 1 .. N
      PROVE  /\ s[n] \in Request
             /\ s[n].type = "connect" /\ s[n].index \in Index
             /\ peers[s[n].index].status = "disconnected"
             /\ peers[s[n].index].static # NoHost
             /\ s[n].key = peers[s[n].index].static /\ s[n].msg = NoMessage
  <2>1. /\ order[n] \in Index /\ peers[order[n]].status = "disconnected"
        /\ peers[order[n]].static # NoHost
    BY <1>3
  <2>2. peers[order[n]].static \in KeyOrNone
    BY <2>1 DEF TypeOK, Peer
  <2>3. s[n] = Connect(order[n], peers[order[n]].static)
    OBVIOUS
  <2>4. /\ s[n].type = "connect" /\ s[n].index = order[n] /\ s[n].key = peers[order[n]].static
        /\ s[n].msg = NoMessage
    BY <2>3 DEF Connect
  <2>5. s[n] \in Request
    BY <2>1, <2>2, <2>3, RequestTypes
  <2> QED BY <2>1, <2>4, <2>5
<1>6. s \in Seq(Request) /\ DOMAIN s = 1 .. N
  <2>1. s \in [1 .. N -> Request] /\ N \in Nat
    BY <1>2, <1>5
  <2> HIDE DEF s, N
  <2> QED BY <2>1
<1> HIDE DEF s, N
<1> QED BY <1>4, <1>5, <1>6

\* The entries the routing thread makes of an entry are well typed.
LEMMA PeerTypes ==
    ASSUME NEW p \in Peer, NEW old \in Peer, NEW k \in KeyOrNone,
           NEW x \in Challenges \cup {None}
    PROVE  /\ Absent \in Peer
           /\ MarkAsDisconnected(p) \in Peer
           /\ JoinAsReconnection(p, old) \in Peer
           /\ [p EXCEPT !.challenge = x] \in Peer
           /\ [p EXCEPT !.status = "connecting"] \in Peer
           /\ [p EXCEPT !.status = "connected", !.key = k, !.challenge = None] \in Peer
           /\ [Absent EXCEPT !.status = "connected", !.key = k, !.stun = TRUE] \in Peer
<1>1. Absent \in Peer
  BY DEF Peer, Absent, KeyOrNone
<1>2. MarkAsDisconnected(p) \in Peer
  BY DEF Peer, MarkAsDisconnected
<1>3. JoinAsReconnection(p, old) \in Peer
  BY DEF Peer, JoinAsReconnection
<1>4. /\ [p EXCEPT !.challenge = x] \in Peer
      /\ [p EXCEPT !.status = "connecting"] \in Peer
      /\ [p EXCEPT !.status = "connected", !.key = k, !.challenge = None] \in Peer
  BY DEF Peer
<1>5. [Absent EXCEPT !.status = "connected", !.key = k, !.stun = TRUE] \in Peer
  BY DEF Peer, Absent, KeyOrNone
<1> QED BY ONLY <1>1, <1>2, <1>3, <1>4, <1>5

\* Actions of the routing thread keep the types.
LEMMA RoutingType ==
    ASSUME TypeOK,
           \/ HandleNewPeer \/ HandlePeerDisconnect
           \/ IgnoreMessage \/ HandleHandshakeChallenge
           \/ RefuseHandshakeResponse \/ HandleHandshakeResponse
           \/ ProcessTimerEvent
           \/ \E k \in StunKeys : AddStunPeer(k)
           \/ \E i \in Index : RemoveStunPeer(i)
    PROVE  TypeOK'
<1> DEFINE e == Head(events)
           i == e.index
<1>1. \A type : Received(type) =>
        /\ e \in Event /\ i \in Index /\ e.key \in KeyOrNone /\ e.msg \in Message
        /\ peers[i] \in Peer
        /\ events' \in Seq(Event)
  BY ChannelTypes DEF Received, Event, TypeOK
<1>2. CASE HandleNewPeer
  <2> DEFINE p == [peers[i] EXCEPT !.status = "connecting"]
  <2>1. i \in Index /\ p \in Peer /\ events' \in Seq(Event)
    BY <1>1, <1>2, PeerTypes DEF HandleNewPeer
  <2>2. CASE p.static # NoHost
    BY <1>2, <2>1, <2>2 DEF HandleNewPeer, TypeOK
  <2>3. CASE p.static = NoHost
    <3> PICK x \in Challenges :
           /\ peers' = [peers EXCEPT ![i] = [p EXCEPT !.challenge = x]]
           /\ requests' = Append(requests, Send(i, None, x))
      BY <1>2, <2>3, FreshType DEF HandleNewPeer
    <3>1. [p EXCEPT !.challenge = x] \in Peer /\ Send(i, None, x) \in Request
      BY <2>1, PeerTypes, RequestTypes DEF KeyOrNone
    <3>2. UNCHANGED <<address, counter, sockets, conns, made>>
      BY <1>2 DEF HandleNewPeer
    <3> HIDE DEF p
    <3> QED BY <2>1, <3>1, <3>2 DEF TypeOK
  <2> QED BY <2>2, <2>3
<1>3. CASE HandlePeerDisconnect
  <2>1. i \in Index /\ MarkAsDisconnected(peers[i]) \in Peer /\ events' \in Seq(Event)
    BY <1>1, <1>3, PeerTypes DEF HandlePeerDisconnect
  <2> QED BY <1>3, <2>1 DEF HandlePeerDisconnect, TypeOK
<1>4. CASE IgnoreMessage
  BY <1>1, <1>4 DEF IgnoreMessage, TypeOK, collection
<1>5. CASE HandleHandshakeChallenge
  <2>1. i \in Index /\ peers[i] \in Peer /\ e.msg \in Message /\ events' \in Seq(Event)
    BY <1>1, <1>5 DEF HandleHandshakeChallenge
  <2> PICK x \in Challenges :
         /\ peers' = [peers EXCEPT ![i].challenge = x]
         /\ requests' = Append(requests, Send(i, Signed(e.msg.challenge), x))
    BY <1>5, FreshType DEF HandleHandshakeChallenge
  <2>2. [peers[i] EXCEPT !.challenge = x] \in Peer
    BY <2>1 DEF Peer
  <2>3. Send(i, Signed(e.msg.challenge), x) \in Request
    BY <2>1, RequestTypes, SignedType DEF Message, KeyOrNone
  <2> QED BY <1>5, <2>1, <2>2, <2>3 DEF HandleHandshakeChallenge, TypeOK
<1>6. CASE RefuseHandshakeResponse
  <2>1. i \in Index /\ MarkAsDisconnected(peers[i]) \in Peer /\ events' \in Seq(Event)
    BY <1>1, <1>6, PeerTypes DEF RefuseHandshakeResponse
  <2>2. Disconnect(i) \in Request
    BY <2>1, RequestTypes DEF KeyOrNone
  <2>3. requests' \in Seq(Request)
    BY <1>6, <2>2 DEF RefuseHandshakeResponse, TypeOK
  <2> QED BY <1>6, <2>1, <2>3 DEF RefuseHandshakeResponse, TypeOK
<1>7. CASE HandleHandshakeResponse
  <2> DEFINE p == [peers[i] EXCEPT !.status = "connected", !.key = e.key, !.challenge = None]
             joined == [peers EXCEPT ![i] = p]
  <2>1. /\ i \in Index /\ peers[i] \in Peer /\ p \in Peer
        /\ e.msg \in Message /\ events' \in Seq(Event)
    BY <1>1, <1>7, PeerTypes DEF HandleHandshakeResponse
  <2>2. Send(i, Signed(e.msg.challenge), None) \in Request
    BY <2>1, RequestTypes, SignedType DEF Message, KeyOrNone
  <2>3. requests' \in Seq(Request)
    <3>1. \/ requests' = Append(requests, Send(i, Signed(e.msg.challenge), None))
          \/ requests' = requests
      BY <1>7, Zenon DEF HandleHandshakeResponse
    <3>2. requests \in Seq(Request)
      BY DEF TypeOK
    <3> QED BY <2>2, <3>1, <3>2
  <2>4. joined \in [Index -> Peer]
    BY <2>1 DEF TypeOK
  <2>5. CASE /\ peers' = joined
             /\ address' = [address EXCEPT ![e.key] = i]
    <3> HIDE DEF joined
    <3> QED BY <1>7, <2>1, <2>3, <2>4, <2>5 DEF HandleHandshakeResponse, TypeOK
  <2>6. CASE \E j \in Reconnectable(joined, e.key) :
               /\ peers' = [Without(joined, j) EXCEPT ![i] = JoinAsReconnection(p, peers[j])]
               /\ address' = [address EXCEPT ![e.key] = None]
    <3> PICK j \in Index :
               /\ peers' = [Without(joined, j) EXCEPT ![i] = JoinAsReconnection(p, peers[j])]
               /\ address' = [address EXCEPT ![e.key] = None]
      BY <2>6 DEF Reconnectable
    <3>1. JoinAsReconnection(p, peers[j]) \in Peer /\ Absent \in Peer
      BY <2>1 DEF TypeOK, Peer, JoinAsReconnection, Absent, KeyOrNone
    <3> HIDE DEF joined, p
    <3>2. peers' \in [Index -> Peer]
      BY <2>4, <3>1 DEF Without
    <3>3. address' \in [Keys -> Index \cup {None}]
      BY DEF TypeOK
    <3> QED BY <1>7, <2>1, <2>3, <3>2, <3>3 DEF HandleHandshakeResponse, TypeOK
  <2> QED BY <1>7, <2>5, <2>6 DEF HandleHandshakeResponse
<1>8. CASE ProcessTimerEvent
  <2> PICK due \in SUBSET {j \in Index : peers[j].status = "disconnected" /\ peers[j].static # NoHost} :
         Dial(due)
    BY <1>8 DEF ProcessTimerEvent
  <2>5. requests' \in Seq(Request)
    <3>1. PICK s \in Seq(Request) : requests' = requests \o s
      BY DialRequests
    <3> QED BY <3>1 DEF TypeOK
  <2>6. /\ peers' \in [Index -> Peer]
        /\ address' \in [Keys -> Index \cup {None}]
    <3> PICK expired : RemoveDisconnectedPeers(expired)
      BY <1>8 DEF ProcessTimerEvent
    <3>1. Absent \in Peer
      BY DEF Absent, Peer, KeyOrNone
    <3> QED BY <3>1 DEF RemoveDisconnectedPeers, TypeOK
  <2> QED BY <1>8, <2>5, <2>6 DEF ProcessTimerEvent, TypeOK
<1>9. ASSUME NEW k \in StunKeys, AddStunPeer(k) PROVE TypeOK'
  <2>1. k \in KeyOrNone
    BY PeersAssumption DEF KeyOrNone
  <2>2. [Absent EXCEPT !.status = "connected", !.key = k, !.stun = TRUE] \in Peer
    BY <2>1 DEF Peer, Absent, KeyOrNone
  <2>3. /\ counter < MaxIndex /\ counter' = counter + 1
        /\ UNCHANGED <<events, requests, sockets, conns, made>>
        /\ address' = [address EXCEPT ![k] = counter + 1]
    BY <1>9 DEF AddStunPeer
  <2>4. counter + 1 \in Index /\ counter' \in Len(PeerConfigs) .. MaxIndex
    BY <2>3, PeersAssumption DEF TypeOK, Index
  <2>5. peers' \in [Index -> Peer]
    BY <1>9, <2>2, <2>4 DEF AddStunPeer, TypeOK
  <2> QED BY <2>3, <2>4, <2>5 DEF TypeOK
<1>10. ASSUME NEW j \in Index, RemoveStunPeer(j) PROVE TypeOK'
  <2>1. Absent \in Peer
    BY DEF Absent, Peer, KeyOrNone
  <2> QED BY <1>10, <2>1 DEF RemoveStunPeer, Without, TypeOK
<1> QED BY <1>2, <1>3, <1>4, <1>5, <1>6, <1>7, <1>8, <1>9, <1>10

\* Types are kept by every step.
LEMMA TypeStep == TypeOK /\ [Next]_vars => TypeOK'
<1> SUFFICES ASSUME TypeOK, [Next]_vars PROVE TypeOK'
  OBVIOUS
<1>1. CASE UNCHANGED vars
  BY <1>1 DEF TypeOK, vars, collection
<1>2. CASE Next
  BY <1>2, NetworkType, RoutingType DEF Next
<1> QED BY <1>1, <1>2

\* The initial state is well typed.
LEMMA TypeInit == Init => TypeOK
<1> SUFFICES ASSUME Init PROVE TypeOK
  OBVIOUS
<1>1. /\ address = [k \in Keys |-> None] /\ counter = Len(PeerConfigs)
      /\ events = << >> /\ requests = << >> /\ sockets = [i \in Index |-> None]
      /\ conns = [c \in Conns |-> NoConn] /\ made = 0
  BY DEF Init
<1>2. peers \in [Index -> Peer]
  <2> DEFINE static(i) == [Absent EXCEPT !.status = "disconnected", !.static = PeerConfigs[i]]
  <2>1. \A i \in DOMAIN PeerConfigs : PeerConfigs[i] \in KeyOrNone
    BY PeersAssumption DEF KeyOrNone
  <2>2. Absent \in Peer
    BY DEF Peer, Absent, KeyOrNone
  <2>3. \A i \in DOMAIN PeerConfigs : static(i) \in Peer
    BY <2>1 DEF Peer, Absent, KeyOrNone
  <2>4. peers = [i \in Index |-> IF i \in DOMAIN PeerConfigs THEN static(i) ELSE Absent]
    BY DEF Init
  <2> HIDE DEF static
  <2> QED BY <2>2, <2>3, <2>4
<1>3. conns \in [Conns -> Conn]
  BY <1>1 DEF NoConn, Conn, KeyOrNone
<1>4. counter \in Len(PeerConfigs) .. MaxIndex /\ made \in 0 .. MaxConns
  BY <1>1, PeersAssumption
<1> QED BY <1>1, <1>2, <1>3, <1>4 DEF TypeOK

\* Every variable keeps its type: indices stay within what the counter gave
\* out, and channels, sockets and entries are what handlers expect.
THEOREM TypeCorrect == Spec => []TypeOK
BY TypeInit, TypeStep, PTL DEF Spec

-----------------------------------------------------------------------------
(* The two maps of the collection.                                          *)

\* A step that leaves addresses, keys and configurations alone.
LEMMA CollectionKept ==
    ASSUME TypeOK, AddressResolves, OneEntryPerConfig,
           address' = address,
           \A j \in Index : /\ peers'[j].key = peers[j].key
                            /\ peers'[j].static = peers[j].static
                            /\ Known(j) => peers'[j].status # "absent"
    PROVE  AddressResolves' /\ OneEntryPerConfig'
<1>1. AddressResolves'
  <2> SUFFICES ASSUME NEW k \in Keys, address'[k] # None
               PROVE  /\ peers'[address'[k]].status # "absent"
                      /\ peers'[address'[k]].key = k
    BY DEF AddressResolves, Known
  <2>1. address[k] \in Index /\ Known(address[k]) /\ peers[address[k]].key = k
    BY DEF TypeOK, AddressResolves
  <2> QED BY <2>1
<1>2. OneEntryPerConfig'
  <2> SUFFICES ASSUME NEW i \in Index, NEW j \in Index,
                      peers'[i].static # NoHost, peers'[i].static = peers'[j].static
               PROVE  i = j
    BY DEF OneEntryPerConfig
  <2> QED BY DEF OneEntryPerConfig
<1> QED BY <1>1, <1>2

\* No step breaks a lookup by address or doubles a configuration.
LEMMA CollectionStep ==
    TypeOK /\ AddressResolves /\ OneEntryPerConfig /\ [Next]_vars
      => AddressResolves' /\ OneEntryPerConfig'
<1> SUFFICES ASSUME TypeOK, AddressResolves, OneEntryPerConfig, [Next]_vars
             PROVE  AddressResolves' /\ OneEntryPerConfig'
  OBVIOUS
<1> DEFINE e == Head(events)
           i == e.index
<1>1. \A type : Received(type) => i \in Index /\ e.key \in KeyOrNone /\ peers[i] \in Peer
  BY ChannelTypes DEF Received, Event, TypeOK
<1>2. ASSUME peers' = peers, address' = address PROVE AddressResolves' /\ OneEntryPerConfig'
  BY <1>2, CollectionKept DEF Known
<1>3. CASE UNCHANGED vars
  BY <1>2, <1>3 DEF vars, collection
<1>4. CASE \/ \E h \in Hosts : Incoming(h)
           \/ DialSucceeds \/ DialFails \/ DisconnectSocket \/ SendMessage
           \/ \E c \in Conns : ReadMessage(c) \/ ReaderEnds(c)
           \/ IgnoreMessage
  <2>1. peers' = peers /\ address' = address
    BY <1>4 DEF Incoming, DialSucceeds, DialFails, DisconnectSocket, SendMessage, ReadMessage,
                ReaderEnds, IgnoreMessage, collection
  <2> QED BY <1>2, <2>1
<1>5. CASE HandleNewPeer
  <2>1. i \in Index /\ peers[i] \in Peer /\ address' = address
    BY <1>1, <1>5 DEF HandleNewPeer
  <2> DEFINE p == [peers[i] EXCEPT !.status = "connecting"]
  <2>2. /\ p \in Peer
        /\ p.key = peers[i].key /\ p.static = peers[i].static /\ p.status = "connecting"
    BY <2>1 DEF Peer
  <2>3. PICK x : \/ peers' = [peers EXCEPT ![i] = p]
                 \/ peers' = [peers EXCEPT ![i] = [p EXCEPT !.challenge = x]]
    BY <1>5 DEF HandleNewPeer
  <2> DEFINE q == [p EXCEPT !.challenge = x]
  <2>4. q.key = peers[i].key /\ q.static = peers[i].static /\ q.status = "connecting"
    BY <2>1 DEF Peer
  <2> HIDE DEF p, q
  <2>5. /\ peers'[i] \in {p, q}
        /\ \A j \in Index \ {i} : peers'[j] = peers[j]
    BY <2>1, <2>3 DEF TypeOK, q
  <2>6. \A j \in Index : /\ peers'[j].key = peers[j].key
                         /\ peers'[j].static = peers[j].static
                         /\ Known(j) => peers'[j].status # "absent"
    BY <2>2, <2>4, <2>5 DEF Known
  <2> QED BY <2>1, <2>6, CollectionKept
<1>6. CASE HandlePeerDisconnect \/ RefuseHandshakeResponse
  <2>1. i \in Index /\ peers[i] \in Peer /\ address' = address
    BY <1>1, <1>6 DEF HandlePeerDisconnect, RefuseHandshakeResponse
  <2>2. peers' = peers \/ peers' = [peers EXCEPT ![i] = MarkAsDisconnected(peers[i])]
    BY <1>6, <2>1 DEF HandlePeerDisconnect, RefuseHandshakeResponse
  <2> DEFINE q == MarkAsDisconnected(peers[i])
  <2>3. q.key = peers[i].key /\ q.static = peers[i].static /\ q.status = "disconnected"
    BY <2>1 DEF Peer, MarkAsDisconnected
  <2> HIDE DEF q
  <2>4. /\ peers'[i] \in {peers[i], q}
        /\ \A j \in Index \ {i} : peers'[j] = peers[j]
    BY <2>1, <2>2 DEF TypeOK, q
  <2>5. \A j \in Index : /\ peers'[j].key = peers[j].key
                         /\ peers'[j].static = peers[j].static
                         /\ Known(j) => peers'[j].status # "absent"
    BY <2>3, <2>4 DEF Known
  <2> QED BY <2>1, <2>5, CollectionKept
<1>7. CASE HandleHandshakeChallenge
  <2>1. i \in Index /\ peers[i] \in Peer /\ address' = address
    BY <1>1, <1>7 DEF HandleHandshakeChallenge
  <2>2. PICK x : peers' = [peers EXCEPT ![i].challenge = x]
    BY <1>7 DEF HandleHandshakeChallenge
  <2>3. \A j \in Index : /\ peers'[j].key = peers[j].key
                         /\ peers'[j].static = peers[j].static
                         /\ Known(j) => peers'[j].status # "absent"
    BY <2>1, <2>2 DEF TypeOK, Peer, Known
  <2> QED BY <2>1, <2>3, CollectionKept
<1>8. CASE HandleHandshakeResponse
  <2> DEFINE p == [peers[i] EXCEPT !.status = "connected", !.key = e.key, !.challenge = None]
             joined == [peers EXCEPT ![i] = p]
  <2>1. /\ i \in Index /\ peers[i] \in Peer
        /\ peers[i].key \in {NoHost, e.key}
    BY <1>1, <1>8 DEF HandleHandshakeResponse
  <2>2. p.key = e.key /\ p.static = peers[i].static /\ p.status = "connected"
    BY <2>1 DEF Peer
  <2>3. joined \in [Index -> Peer] /\ joined[i] = p /\ \A j \in Index \ {i} : joined[j] = peers[j]
    <3>1. p \in Peer
      BY <1>1, <1>8, <2>1 DEF HandleHandshakeResponse, Peer
    <3> HIDE DEF p
    <3> QED BY <2>1, <3>1 DEF TypeOK
  <2> HIDE DEF p, joined
  <2>4. CASE peers' = joined /\ address' = [address EXCEPT ![e.key] = i]
    <3>1. AddressResolves'
      <4> SUFFICES ASSUME NEW k \in Keys, address'[k] # None
                   PROVE  /\ joined[address'[k]].status # "absent"
                          /\ joined[address'[k]].key = k
        BY <2>4 DEF AddressResolves, Known
      <4>1. CASE k = e.key
        BY <2>2, <2>3, <2>4, <4>1 DEF TypeOK
      <4>2. CASE k # e.key
        <5>1. address'[k] = address[k] /\ address[k] \in Index
          BY <2>4, <4>2 DEF TypeOK
        <5>2. Known(address[k]) /\ peers[address[k]].key = k
          BY <5>1 DEF AddressResolves
        <5>3. address[k] # i
          BY <2>1, <4>2, <5>2, PeersAssumption
        <5> QED BY <2>3, <5>1, <5>2, <5>3 DEF Known
      <4> QED BY <4>1, <4>2
    <3>2. OneEntryPerConfig'
      <4> SUFFICES ASSUME NEW m \in Index, NEW n \in Index,
                          joined[m].static # NoHost, joined[m].static = joined[n].static
                   PROVE  m = n
        BY <2>4 DEF OneEntryPerConfig
      <4>1. peers[m].static = joined[m].static /\ peers[n].static = joined[n].static
        BY <2>2, <2>3
      <4> QED BY <4>1 DEF OneEntryPerConfig
    <3> QED BY <3>1, <3>2
  <2>5. CASE \E j \in Reconnectable(joined, e.key) :
               /\ peers' = [Without(joined, j) EXCEPT ![i] = JoinAsReconnection(p, peers[j])]
               /\ address' = [address EXCEPT ![e.key] = None]
    <3> PICK j \in Reconnectable(joined, e.key) :
               /\ peers' = [Without(joined, j) EXCEPT ![i] = JoinAsReconnection(p, peers[j])]
               /\ address' = [address EXCEPT ![e.key] = None]
      BY <2>5
    <3>1. j \in Index /\ j # i /\ peers[j].key = e.key
      BY <2>2, <2>3 DEF Reconnectable
    <3>2. /\ peers'[i] = JoinAsReconnection(p, peers[j])
          /\ peers'[j] = Absent
          /\ \A m \in Index \ {i, j} : peers'[m] = peers[m]
      BY <2>1, <2>3, <3>1 DEF Without
    <3>3. AddressResolves'
      <4> SUFFICES ASSUME NEW k \in Keys, address'[k] # None
                   PROVE  /\ peers'[address'[k]].status # "absent"
                          /\ peers'[address'[k]].key = k
        BY DEF AddressResolves, Known
      <4>1. k # e.key /\ address'[k] = address[k] /\ address[k] \in Index
        BY DEF TypeOK
      <4>2. Known(address[k]) /\ peers[address[k]].key = k
        BY <4>1 DEF AddressResolves
      <4>3. address[k] \notin {i, j}
        BY <2>1, <3>1, <4>1, <4>2, PeersAssumption
      <4> QED BY <3>2, <4>1, <4>2, <4>3 DEF Known
    <3>4. peers'[i].static = peers[j].static /\ peers'[j].static = NoHost
      <4>1. p \in Peer
        BY <2>1, <2>3
      <4>2. JoinAsReconnection(p, peers[j]).static = peers[j].static
        BY <4>1 DEF JoinAsReconnection, Peer
      <4>3. Absent.static = NoHost
        BY DEF Absent
      <4> QED BY <3>2, <4>2, <4>3
    <3>5. OneEntryPerConfig'
      <4> SUFFICES ASSUME NEW m \in Index, NEW n \in Index,
                          peers'[m].static # NoHost, peers'[m].static = peers'[n].static
                   PROVE  m = n
        BY DEF OneEntryPerConfig
      <4>1. m # j /\ n # j
        BY <3>4
      <4>2. CASE m = i /\ n # i
        BY <3>1, <3>2, <3>4, <4>1, <4>2 DEF OneEntryPerConfig
      <4>3. CASE n = i /\ m # i
        BY <3>1, <3>2, <3>4, <4>1, <4>3 DEF OneEntryPerConfig
      <4>4. CASE m # i /\ n # i
        BY <3>2, <4>1, <4>4 DEF OneEntryPerConfig
      <4> QED BY <4>2, <4>3, <4>4
    <3> QED BY <3>3, <3>5
  <2> QED BY <1>8, <2>4, <2>5 DEF HandleHandshakeResponse, p, joined
<1>9. CASE ProcessTimerEvent
  <2> PICK expired \in SUBSET Removable : RemoveDisconnectedPeers(expired)
    BY <1>9 DEF ProcessTimerEvent
  <2>1. expired \subseteq Index
    BY DEF Removable
  <2>2. AddressResolves'
    <3> SUFFICES ASSUME NEW k \in Keys, address'[k] # None
                 PROVE  /\ peers'[address'[k]].status # "absent"
                        /\ peers'[address'[k]].key = k
      BY DEF AddressResolves, Known
    <3>1. /\ address'[k] = address[k] /\ address[k] \in Index
          /\ \A j \in expired : peers[j].key # k
      BY DEF RemoveDisconnectedPeers, TypeOK
    <3>2. Known(address[k]) /\ peers[address[k]].key = k
      BY <3>1 DEF AddressResolves
    <3>3. peers'[address[k]] = peers[address[k]]
      BY <3>1, <3>2 DEF RemoveDisconnectedPeers
    <3> QED BY <3>1, <3>2, <3>3 DEF Known
  <2>3. OneEntryPerConfig'
    <3> SUFFICES ASSUME NEW m \in Index, NEW n \in Index,
                        peers'[m].static # NoHost, peers'[m].static = peers'[n].static
                 PROVE  m = n
      BY DEF OneEntryPerConfig
    <3>1. m \notin expired /\ n \notin expired
      BY DEF RemoveDisconnectedPeers, Absent
    <3> QED BY <3>1 DEF RemoveDisconnectedPeers, OneEntryPerConfig
  <2> QED BY <2>2, <2>3
<1>10. ASSUME NEW k \in StunKeys, AddStunPeer(k) PROVE AddressResolves' /\ OneEntryPerConfig'
  <2> DEFINE p == [Absent EXCEPT !.status = "connected", !.key = k, !.stun = TRUE]
             new == counter + 1
  <2>1. p.key = k /\ p.static = NoHost /\ p.status = "connected"
    BY DEF Absent
  <2>2. /\ counter < MaxIndex /\ ~ Known(new) /\ address' = [address EXCEPT ![k] = new]
    BY <1>10 DEF AddStunPeer
  <2>3. new \in Index
    BY <2>2, PeersAssumption DEF TypeOK, Index
  <2> HIDE DEF new
  <2>4. peers'[new] = p /\ \A j \in Index \ {new} : peers'[j] = peers[j]
    BY <1>10, <2>3 DEF AddStunPeer, TypeOK, new
  <2> HIDE DEF p
  <2>5. AddressResolves'
    <3> SUFFICES ASSUME NEW h \in Keys, address'[h] # None
                 PROVE  /\ peers'[address'[h]].status # "absent"
                        /\ peers'[address'[h]].key = h
      BY DEF AddressResolves, Known
    <3>1. CASE h = k
      BY <2>1, <2>2, <2>4, <3>1 DEF TypeOK
    <3>2. CASE h # k
      <4>1. address'[h] = address[h] /\ address[h] \in Index
        BY <2>2, <3>2 DEF TypeOK
      <4>2. Known(address[h]) /\ peers[address[h]].key = h
        BY <4>1 DEF AddressResolves
      <4> QED BY <2>2, <2>4, <4>1, <4>2 DEF Known
    <3> QED BY <3>1, <3>2
  <2>6. OneEntryPerConfig'
    <3> SUFFICES ASSUME NEW m \in Index, NEW n \in Index,
                        peers'[m].static # NoHost, peers'[m].static = peers'[n].static
                 PROVE  m = n
      BY DEF OneEntryPerConfig
    <3>1. m # new /\ n # new
      BY <2>1, <2>4
    <3> QED BY <2>4, <3>1 DEF OneEntryPerConfig
  <2> QED BY <2>5, <2>6
<1>11. ASSUME NEW j \in Index, RemoveStunPeer(j) PROVE AddressResolves' /\ OneEntryPerConfig'
  <2>1. /\ peers'[j] = Absent /\ \A m \in Index \ {j} : peers'[m] = peers[m]
        /\ address' = [address EXCEPT ![peers[j].key] = None]
    BY <1>11 DEF RemoveStunPeer, Without, TypeOK
  <2>2. AddressResolves'
    <3> SUFFICES ASSUME NEW h \in Keys, address'[h] # None
                 PROVE  /\ peers'[address'[h]].status # "absent"
                        /\ peers'[address'[h]].key = h
      BY DEF AddressResolves, Known
    <3>1. address'[h] = address[h] /\ address[h] \in Index /\ h # peers[j].key
      BY <2>1 DEF TypeOK
    <3>2. Known(address[h]) /\ peers[address[h]].key = h
      BY <3>1 DEF AddressResolves
    <3> QED BY <2>1, <3>1, <3>2 DEF Known
  <2>3. OneEntryPerConfig'
    <3> SUFFICES ASSUME NEW m \in Index, NEW n \in Index,
                        peers'[m].static # NoHost, peers'[m].static = peers'[n].static
                 PROVE  m = n
      BY DEF OneEntryPerConfig
    <3>1. m # j /\ n # j
      BY <2>1 DEF Absent
    <3> QED BY <2>1, <3>1 DEF OneEntryPerConfig
  <2> QED BY <2>2, <2>3
<1> QED BY <1>3, <1>4, <1>5, <1>6, <1>7, <1>8, <1>9, <1>10, <1>11 DEF Next

\* At the start no address is set and each configuration has one entry.
LEMMA CollectionInit == Init => AddressResolves /\ OneEntryPerConfig
<1> SUFFICES ASSUME Init PROVE AddressResolves /\ OneEntryPerConfig
  OBVIOUS
<1>1. AddressResolves
  BY DEF Init, AddressResolves
<1>2. \A i \in Index : peers[i].static = IF i \in DOMAIN PeerConfigs THEN PeerConfigs[i] ELSE NoHost
  <2> DEFINE static(i) == [Absent EXCEPT !.status = "disconnected", !.static = PeerConfigs[i]]
  <2>1. Absent.static = NoHost /\ \A i \in DOMAIN PeerConfigs : static(i).static = PeerConfigs[i]
    BY DEF Absent
  <2>2. peers = [i \in Index |-> IF i \in DOMAIN PeerConfigs THEN static(i) ELSE Absent]
    BY DEF Init
  <2> HIDE DEF static
  <2> QED BY <2>1, <2>2
<1>3. OneEntryPerConfig
  BY <1>2, PeersAssumption DEF OneEntryPerConfig
<1> QED BY <1>1, <1>3

\* find_peer_by_address never meets a dangling entry of address_to_peers, nor
\* one that leads to a peer with another key, whatever the interleaving of
\* connections, losses, reconnections, removals and stun peers.
THEOREM AddressSafe == Spec => []AddressResolves
<1>1. Init => TypeOK /\ AddressResolves /\ OneEntryPerConfig
  BY TypeInit, CollectionInit
<1>2. TypeOK /\ AddressResolves /\ OneEntryPerConfig /\ [Next]_vars
        => TypeOK' /\ AddressResolves' /\ OneEntryPerConfig'
  BY TypeStep, CollectionStep
<1> QED BY <1>1, <1>2, PTL DEF Spec

\* A configured host never has two entries of the collection, so that
\* connect_to_static_peers never dials it on two indices.
THEOREM ConfigsUnique == Spec => []OneEntryPerConfig
<1>1. Init => TypeOK /\ AddressResolves /\ OneEntryPerConfig
  BY TypeInit, CollectionInit
<1>2. TypeOK /\ AddressResolves /\ OneEntryPerConfig /\ [Next]_vars
        => TypeOK' /\ AddressResolves' /\ OneEntryPerConfig'
  BY TypeStep, CollectionStep
<1> QED BY <1>1, <1>2, PTL DEF Spec

-----------------------------------------------------------------------------
(* Nothing that was connected is forgotten.                                 *)

\* A connection under the index is read.
Open(i) == \E c \in Conns : conns[c].index = i

\* The end of the connections under the index is noticed, or has yet to come.
Heard(i) == Open(i) \/ Queued("gone", i)

\* Connections are numbered in the order they are made.
Unmade == \A c \in Conns : c > made => conns[c].index = None

\* Event n is followed by the end of its index.
GoneAfter(n) == \E m \in DOMAIN events :
                  m > n /\ events[m].type = "gone" /\ events[m].index = events[n].index

\* A NewPeer or a message is followed by the end of its index, or the index
\* has a connection that is read.
Followed ==
    \A n \in DOMAIN events : events[n].type # "gone" =>
        Open(events[n].index) \/ GoneAfter(n)

\* The routing thread takes an event.
LEMMA FollowedTail ==
    ASSUME TypeOK, Followed, events # << >>, events' = Tail(events), conns' = conns
    PROVE  /\ Followed'
           /\ \A i \in Index : Open(i)' = Open(i)
           /\ \A i \in Index : Heard(i) =>
                \/ Heard(i)'
                \/ Head(events).type = "gone" /\ Head(events).index = i
           /\ \A i \in Index : Head(events).type # "gone" /\ Head(events).index = i => Heard(i)'
<1>1. /\ events \in Seq(Event) /\ Len(events) \in Nat /\ DOMAIN events = 1 .. Len(events)
      /\ Len(events') = Len(events) - 1 /\ DOMAIN events' = 1 .. Len(events) - 1
      /\ \A n \in 1 .. Len(events) - 1 : events'[n] = events[n + 1]
      /\ Head(events) = events[1] /\ Len(events) >= 1
  BY DEF TypeOK
<1>2. \A i : Open(i)' = Open(i)
  BY DEF Open
<1>3. ASSUME NEW n \in 2 .. Len(events), GoneAfter(n) PROVE GoneAfter(n - 1)'
  <2> PICK m \in DOMAIN events :
         m > n /\ events[m].type = "gone" /\ events[m].index = events[n].index
    BY <1>3 DEF GoneAfter
  <2>1. /\ m - 1 \in 1 .. Len(events) - 1 /\ n - 1 \in 1 .. Len(events) - 1 /\ m - 1 > n - 1
        /\ (m - 1) + 1 = m /\ (n - 1) + 1 = n
    BY <1>1
  <2>2. events'[m - 1] = events[m] /\ events'[n - 1] = events[n]
    BY <1>1, <2>1
  <2> QED BY <1>1, <2>1, <2>2 DEF GoneAfter
<1>4. Followed'
  <2> SUFFICES ASSUME NEW n \in DOMAIN events', events'[n].type # "gone"
               PROVE  Open(events[n].index)' \/ GoneAfter(n)'
    BY DEF Followed
  <2>1. /\ n + 1 \in 2 .. Len(events) /\ n + 1 \in DOMAIN events /\ (n + 1) - 1 = n
        /\ events'[n] = events[n + 1]
    BY <1>1
  <2>2. Open(events[n + 1].index) \/ GoneAfter(n + 1)
    BY <2>1 DEF Followed
  <2>3. CASE GoneAfter(n + 1)
    <3>1. GoneAfter((n + 1) - 1)'
      BY <1>3, <2>1, <2>3
    <3> QED BY <2>1, <3>1
  <2> QED BY <1>2, <2>1, <2>2, <2>3
<1>5. ASSUME NEW i \in Index, NEW m \in 2 .. Len(events),
             events[m].type = "gone", events[m].index = i
      PROVE  Queued("gone", i)'
  <2>1. m - 1 \in 1 .. Len(events) - 1 /\ (m - 1) + 1 = m
    BY <1>1
  <2>2. events'[m - 1] = events[m]
    BY <1>1, <2>1
  <2> QED BY <1>1, <1>5, <2>1, <2>2 DEF Queued
<1>6. ASSUME NEW i \in Index, Heard(i)
      PROVE  Heard(i)' \/ (Head(events).type = "gone" /\ Head(events).index = i)
  <2>1. CASE Open(i)
    BY <1>2, <2>1 DEF Heard
  <2>2. CASE Queued("gone", i)
    <3> PICK m \in DOMAIN events : events[m].type = "gone" /\ events[m].index = i
      BY <2>2 DEF Queued
    <3>1. m = 1 \/ m \in 2 .. Len(events)
      BY <1>1
    <3> QED BY <1>1, <1>5, <3>1 DEF Heard
  <2> QED BY <1>6, <2>1, <2>2 DEF Heard
<1>7. ASSUME NEW i \in Index, Head(events).type # "gone", Head(events).index = i
      PROVE  Heard(i)'
  <2>1. 1 \in DOMAIN events
    BY <1>1
  <2>2. Open(i) \/ GoneAfter(1)
    BY <1>1, <1>7, <2>1 DEF Followed
  <2>3. CASE GoneAfter(1)
    <3> PICK m \in DOMAIN events : m > 1 /\ events[m].type = "gone" /\ events[m].index = i
      BY <1>1, <1>7, <2>3 DEF GoneAfter
    <3>1. m \in 2 .. Len(events)
      BY <1>1
    <3>2. Queued("gone", i)'
      BY <1>5, <3>1
    <3> QED BY <3>2 DEF Heard
  <2> QED BY <1>2, <2>2, <2>3 DEF Heard
<1> QED BY <1>2, <1>4, <1>6, <1>7

\* The network reports an event: a loss ends the connections it is about, and
\* the others are reported while their connection is read.
LEMMA FollowedAppend ==
    ASSUME TypeOK, Followed, NEW e \in Event, events' = Append(events, e),
           \A i \in Index : Open(i) => Open(i)' \/ (e.type = "gone" /\ e.index = i),
           e.type # "gone" => Open(e.index)'
    PROVE  /\ Followed'
           /\ \A i \in Index : Heard(i) => Heard(i)'
<1>1. /\ events \in Seq(Event) /\ Len(events) \in Nat /\ DOMAIN events = 1 .. Len(events)
      /\ Len(events') = Len(events) + 1 /\ DOMAIN events' = 1 .. Len(events) + 1
      /\ \A n \in DOMAIN events : events'[n] = events[n]
      /\ events'[Len(events) + 1] = e
  BY DEF TypeOK
<1>2. Len(events) + 1 \in DOMAIN events' /\ \A n \in DOMAIN events : Len(events) + 1 > n
  BY <1>1
<1>3. \A n \in DOMAIN events : n \in DOMAIN events'
  BY <1>1
<1>4. Followed'
  <2> SUFFICES ASSUME NEW n \in DOMAIN events', events'[n].type # "gone"
               PROVE  Open(events[n].index)' \/ GoneAfter(n)'
    BY DEF Followed
  <2>1. CASE n = Len(events) + 1
    BY <1>1, <2>1
  <2>2. CASE n # Len(events) + 1
    <3>1. n \in DOMAIN events /\ events'[n] = events[n]
      BY <1>1, <2>2
    <3>2. Open(events[n].index) \/ GoneAfter(n)
      BY <3>1 DEF Followed
    <3>3. CASE GoneAfter(n)
      BY <1>1, <1>3, <3>1, <3>3 DEF GoneAfter
    <3>4. CASE Open(events[n].index)
      <4>1. events[n].index \in Index
        <5>1. events[n] \in Event
          BY <1>1, <3>1
        <5> QED BY <5>1 DEF Event
      <4>2. CASE e.type = "gone" /\ e.index = events[n].index
        BY <1>1, <1>2, <3>1, <4>2 DEF GoneAfter
      <4> QED BY <3>1, <3>4, <4>1, <4>2
    <3> QED BY <3>2, <3>3, <3>4
  <2> QED BY <2>1, <2>2
<1>5. ASSUME NEW i \in Index, Heard(i) PROVE Heard(i)'
  <2>1. CASE Queued("gone", i)
    BY <1>1, <1>3, <2>1 DEF Heard, Queued
  <2>2. CASE Open(i)
    BY <1>1, <1>2, <2>2 DEF Heard, Queued
  <2> QED BY <1>5, <2>1, <2>2 DEF Heard
<1> QED BY <1>4, <1>5

\* An entry is as it was and so is the notice, it is gone, it is away, it is a
\* stun peer, or the end of its connections will be noticed.
LEMMA NoticedKept ==
    ASSUME TypeOK, DeathNoticed, NothingLeaks,
           \A j \in Index : \/ Heard(j)'
                            \/ peers'[j] = peers[j] /\ (Heard(j) => Heard(j)')
                            \/ peers'[j].status = "absent"
                            \/ peers'[j].status # "connected" /\ peers'[j].away
                            \/ peers'[j].stun
    PROVE  DeathNoticed' /\ NothingLeaks'
<1>1. DeathNoticed'
  <2> SUFFICES ASSUME NEW j \in Index, peers'[j].status = "connected", ~ peers'[j].stun
               PROVE  Heard(j)'
    BY DEF DeathNoticed, Heard, Open
  <2>1. CASE peers'[j] = peers[j] /\ (Heard(j) => Heard(j)')
    <3>1. Heard(j)
      BY <2>1 DEF DeathNoticed, Heard, Open
    <3> QED BY <2>1, <3>1
  <2> QED BY <2>1
<1>2. NothingLeaks'
  <2> SUFFICES ASSUME NEW j \in Index, peers'[j].status # "absent", ~ peers'[j].stun,
                      peers'[j].static = NoHost
               PROVE  peers'[j].away \/ Heard(j)'
    BY DEF NothingLeaks, Heard, Open, Known
  <2>1. CASE peers'[j] = peers[j] /\ (Heard(j) => Heard(j)')
    <3>1. peers[j].away \/ Heard(j)
      BY <2>1 DEF NothingLeaks, Heard, Open, Known
    <3> QED BY <2>1, <3>1
  <2> QED BY <2>1
<1> QED BY <1>1, <1>2

\* What the other end hears changes neither whose connection it is, nor that
\* it is read.
LEMMA RemoteKept ==
    ASSUME TypeOK, NEW c \in Conns, NEW msg, RemoteHears(c, msg)
    PROVE  \A d \in Conns : conns'[d].index = conns[d].index /\ conns'[d].host = conns[d].host
<1>1. conns \in [Conns -> Conn] /\ conns[c] \in Conn
  BY DEF TypeOK
<1>2. CASE conns' = conns
  BY <1>2
<1>3. CASE \E x \in Fresh :
             conns' = [conns EXCEPT ![c].theirs = x,
               ![c].inbox = Append(@, [signed |-> Signed(msg.challenge), challenge |-> x])]
  BY <1>1, <1>3 DEF Conn
<1>4. CASE conns' = [conns EXCEPT ![c].theirs = None, ![c].view = "verified",
                ![c].inbox = IF conns[c].dialled
                               THEN Append(@, [signed |-> Signed(msg.challenge), challenge |-> None])
                               ELSE @]
  BY <1>1, <1>4 DEF Conn
<1>5. CASE conns' = [conns EXCEPT ![c].theirs = None,
                ![c].view = IF @ = "verified" THEN "dropped" ELSE "refused"]
  BY <1>1, <1>5 DEF Conn
<1> QED BY <1>2, <1>3, <1>4, <1>5 DEF RemoteHears

\* A new connection opens its index and closes none.
LEMMA NewConnectionOpens ==
    ASSUME TypeOK, Unmade, NEW i \in Index, NEW h, NEW d, NEW x, NEW in,
           NewConnection(i, h, d, x, in)
    PROVE  /\ Unmade' /\ Open(i)'
           /\ \A j \in Index : Open(j) => Open(j)'
           /\ \A c \in Conns : conns'[c].index # None =>
                \/ conns'[c].index = i /\ conns'[c].host = h
                \/ conns'[c] = conns[c]
<1>1. /\ made \in Nat /\ made' = made + 1 /\ made + 1 \in Conns /\ conns \in [Conns -> Conn]
      /\ conns' = [conns EXCEPT ![made + 1] =
                     [index |-> i, host |-> h, dialled |-> d,
                      theirs |-> x, inbox |-> in, view |-> "waiting"]]
  BY PeersAssumption DEF TypeOK, NewConnection, Conns
<1>2. /\ conns'[made + 1].index = i /\ conns'[made + 1].host = h
      /\ \A c \in Conns \ {made + 1} : conns'[c] = conns[c]
  BY <1>1
<1>3. \A c \in Conns : c \in Nat /\ (c > made + 1 => c > made /\ c # made + 1)
  BY <1>1 DEF Conns
<1>4. Unmade'
  BY <1>1, <1>2, <1>3 DEF Unmade
<1>5. conns[made + 1].index = None
  BY <1>1, <1>3 DEF Unmade
<1>6. None \notin Index
  BY DEF None, Index
<1>7. \A j \in Index : Open(j) => Open(j)'
  BY <1>2, <1>5, <1>6 DEF Open
<1>8. Open(i)'
  BY <1>1, <1>2 DEF Open
<1>9. \A c \in Conns : conns'[c].index # None =>
        \/ conns'[c].index = i /\ conns'[c].host = h
        \/ conns'[c] = conns[c]
  BY <1>2
<1> QED BY <1>4, <1>7, <1>8, <1>9

NoticeInv == TypeOK /\ Unmade /\ Followed /\ DeathNoticed /\ NothingLeaks

\* A step of the network: the collection is as it was.
LEMMA NoticeNetwork ==
    ASSUME NoticeInv,
           \/ \E h \in Hosts : Incoming(h)
           \/ DialSucceeds \/ DialFails \/ DisconnectSocket \/ SendMessage
           \/ \E c \in Conns : ReadMessage(c) \/ ReaderEnds(c)
    PROVE  Unmade' /\ Followed' /\ DeathNoticed' /\ NothingLeaks'
<1> USE DEF NoticeInv
<1>1. peers' = peers
  BY DEF Incoming, DialSucceeds, DialFails, DisconnectSocket, SendMessage, ReadMessage,
         ReaderEnds, collection
<1>2. ASSUME Unmade', Followed', \A j \in Index : Heard(j) => Heard(j)'
      PROVE  Unmade' /\ Followed' /\ DeathNoticed' /\ NothingLeaks'
  BY <1>1, <1>2, NoticedKept
<1>3. ASSUME NEW e \in Event, events' = Append(events, e), Unmade',
             \A i \in Index : Open(i) => Open(i)' \/ (e.type = "gone" /\ e.index = i),
             e.type # "gone" => Open(e.index)'
      PROVE  Unmade' /\ Followed' /\ DeathNoticed' /\ NothingLeaks'
  <2>1. Followed' /\ \A j \in Index : Heard(j) => Heard(j)'
    BY <1>3, FollowedAppend
  <2> QED BY <1>2, <1>3, <2>1
<1>4. ASSUME events' = events, made' = made, \A c \in Conns : conns'[c].index = conns[c].index
      PROVE  Unmade' /\ Followed' /\ DeathNoticed' /\ NothingLeaks'
  <2>1. \A i : Open(i)' = Open(i)
    BY <1>4 DEF Open
  <2>2. Unmade'
    BY <1>4 DEF Unmade
  <2>3. Followed'
    BY <1>4, <2>1 DEF Followed, GoneAfter
  <2>4. \A j \in Index : Heard(j) => Heard(j)'
    BY <1>4, <2>1 DEF Heard, Queued
  <2> QED BY <1>2, <2>2, <2>3, <2>4
<1>5. ASSUME NEW i \in Index, NEW h, NEW d, NEW x, NEW in, NewConnection(i, h, d, x, in)
      PROVE  Unmade' /\ Followed' /\ DeathNoticed' /\ NothingLeaks'
  <2> DEFINE e == [type |-> "new", index |-> i, key |-> NoHost, msg |-> NoMessage]
  <2>1. e \in Event /\ e.type = "new" /\ e.index = i
    BY DEF Event, KeyOrNone, NoMessage, Message
  <2>2. events' = Append(events, e)
    BY <1>5 DEF NewConnection, Report
  <2>3. Unmade' /\ Open(i)' /\ \A j \in Index : Open(j) => Open(j)'
    BY <1>5, NewConnectionOpens
  <2> HIDE DEF e
  <2> QED BY <1>3, <2>1, <2>2, <2>3
<1>6. ASSUME NEW h \in Hosts, Incoming(h)
      PROVE  Unmade' /\ Followed' /\ DeathNoticed' /\ NothingLeaks'
  <2>1. counter + 1 \in Index
    BY <1>6, PeersAssumption DEF TypeOK, Incoming, Index
  <2> QED BY <1>5, <1>6, <2>1 DEF Incoming
<1>7. CASE DialSucceeds
  <2>1. Head(requests).index \in Index
    BY <1>7, ChannelTypes DEF DialSucceeds, Requested, Request
  <2> PICK x : NewConnection(Head(requests).index, Head(requests).key, TRUE, x,
                             <<[signed |-> None, challenge |-> x]>>)
    BY <1>7 DEF DialSucceeds
  <2> QED BY <1>5, <2>1
<1>8. CASE DialFails
  BY <1>4, <1>8 DEF DialFails
<1>9. CASE DisconnectSocket
  <2> PICK i \in Index : i = Head(requests).index
    BY <1>9, ChannelTypes DEF DisconnectSocket, Requested, Request
  <2> DEFINE e == [type |-> "gone", index |-> i, key |-> NoHost, msg |-> NoMessage]
  <2>1. e \in Event /\ e.type = "gone" /\ e.index = i
    BY DEF Event, KeyOrNone, NoMessage, Message
  <2>2. events' = Append(events, e) /\ conns' = conns /\ made' = made
    BY <1>9 DEF DisconnectSocket, Report
  <2>3. Unmade' /\ \A j \in Index : Open(j) => Open(j)'
    BY <2>2 DEF Unmade, Open
  <2> HIDE DEF e
  <2> QED BY <1>3, <2>1, <2>2, <2>3
<1>10. CASE SendMessage
  <2>1. \A c \in Conns : conns'[c].index = conns[c].index
    <3> PICK c \in Conns \cup {None} : c = sockets[Head(requests).index]
      BY <1>10, ChannelTypes DEF SendMessage, Requested, Request, TypeOK
    <3>1. CASE c # None /\ RemoteHears(c, Head(requests).msg)
      BY <3>1, RemoteKept
    <3>2. CASE conns' = conns
      BY <3>2
    <3> QED BY <1>10, <3>1, <3>2 DEF SendMessage
  <2> QED BY <1>4, <1>10, <2>1 DEF SendMessage
<1>11. ASSUME NEW c \in Conns, ReadMessage(c)
       PROVE  Unmade' /\ Followed' /\ DeathNoticed' /\ NothingLeaks'
  <2> PICK i \in Index : i = conns[c].index
    BY <1>11 DEF ReadMessage, Reading, TypeOK, Conn
  <2>1. conns[c] \in Conn /\ conns[c].inbox \in Seq(Message) /\ conns[c].inbox # << >>
    BY <1>11 DEF TypeOK, Conn, ReadMessage
  <2>2. PICK e \in Event : e.type = "message" /\ e.index = i /\ events' = Append(events, e)
    BY <1>11, ReadReports
  <2>3. events' = Append(events, e) /\ made' = made
    BY <1>11, <2>2 DEF ReadMessage
  <2>4. \A d \in Conns : conns'[d].index = conns[d].index
    BY <1>11, <2>1 DEF ReadMessage, TypeOK, Conn
  <2>5. Unmade' /\ Open(i)' /\ \A j \in Index : Open(j) => Open(j)'
    BY <2>3, <2>4 DEF Unmade, Open
  <2> QED BY <1>3, <2>2, <2>3, <2>5
<1>12. ASSUME NEW c \in Conns, ReaderEnds(c)
       PROVE  Unmade' /\ Followed' /\ DeathNoticed' /\ NothingLeaks'
  <2> PICK i \in Index : i = conns[c].index
    BY <1>12 DEF ReaderEnds, Reading, TypeOK, Conn
  <2> DEFINE e == [type |-> "gone", index |-> i, key |-> NoHost, msg |-> NoMessage]
  <2>1. e \in Event /\ e.type = "gone" /\ e.index = i
    BY DEF Event, KeyOrNone, NoMessage, Message
  <2>2. events' = Append(events, e) /\ made' = made
    BY <1>12 DEF ReaderEnds, Report
  <2>3. conns'[c].index = None /\ \A d \in Conns \ {c} : conns'[d] = conns[d]
    BY <1>12 DEF ReaderEnds, TypeOK, NoConn
  <2>4. Unmade' /\ \A j \in Index : Open(j) => Open(j)' \/ i = j
    BY <2>2, <2>3 DEF Unmade, Open
  <2> HIDE DEF e
  <2> QED BY <1>3, <2>1, <2>2, <2>4
<1> QED BY <1>6, <1>7, <1>8, <1>9, <1>10, <1>11, <1>12

\* A step of the routing thread.
LEMMA NoticeRouting ==
    ASSUME NoticeInv,
           \/ HandleNewPeer \/ HandlePeerDisconnect
           \/ IgnoreMessage \/ HandleHandshakeChallenge
           \/ RefuseHandshakeResponse \/ HandleHandshakeResponse
           \/ ProcessTimerEvent
           \/ \E k \in StunKeys : AddStunPeer(k)
           \/ \E i \in Index : RemoveStunPeer(i)
    PROVE  Unmade' /\ Followed' /\ DeathNoticed' /\ NothingLeaks'
<1> USE DEF NoticeInv
<1>1. conns' = conns /\ made' = made
  BY DEF HandleNewPeer, HandlePeerDisconnect, IgnoreMessage, HandleHandshakeChallenge,
         RefuseHandshakeResponse, HandleHandshakeResponse, ProcessTimerEvent, AddStunPeer,
         RemoveStunPeer
<1>2. Unmade'
  BY <1>1 DEF Unmade
<1>3. ASSUME events # << >>, events' = Tail(events), Head(events).type # "gone",
             \A j \in Index : \/ j = Head(events).index
                              \/ peers'[j] = peers[j]
                              \/ peers'[j].status = "absent"
      PROVE  Followed' /\ DeathNoticed' /\ NothingLeaks'
  <2>1. /\ Followed'
        /\ \A j \in Index : Heard(j) => Heard(j)'
        /\ \A j \in Index : Head(events).index = j => Heard(j)'
    BY <1>1, <1>3, FollowedTail
  <2> QED BY <1>3, <2>1, NoticedKept
<1>4. ASSUME events' = events, \A j \in Index : \/ peers'[j] = peers[j]
                                                \/ peers'[j].status = "absent"
                                                \/ peers'[j].stun
      PROVE  Followed' /\ DeathNoticed' /\ NothingLeaks'
  <2>1. Followed' /\ \A j \in Index : Heard(j) => Heard(j)'
    BY <1>1, <1>4 DEF Followed, GoneAfter, Heard, Queued, Open
  <2> QED BY <1>4, <2>1, NoticedKept
<1>5. \A type : Received(type) => /\ events # << >> /\ events' = Tail(events)
                                  /\ Head(events).type = type /\ Head(events).index \in Index
  BY ChannelTypes DEF Received, Event
<1>6. CASE HandlePeerDisconnect
  <2> PICK i \in Index : i = Head(events).index
    BY <1>5, <1>6 DEF HandlePeerDisconnect
  <2>1. Followed' /\ \A j \in Index : Heard(j) => Heard(j)' \/ i = j
    BY <1>1, <1>5, <1>6, FollowedTail DEF HandlePeerDisconnect
  <2>2. peers[i] \in Peer
    BY DEF TypeOK
  <2>3. /\ MarkAsDisconnected(peers[i]).status = "disconnected"
        /\ MarkAsDisconnected(peers[i]).away = TRUE
    BY <2>2 DEF MarkAsDisconnected, Peer
  <2>4. /\ \A j \in Index \ {i} : peers'[j] = peers[j]
        /\ peers'[i].status = "absent" \/ peers'[i] = MarkAsDisconnected(peers[i])
    BY <1>6 DEF HandlePeerDisconnect, TypeOK, Known
  <2>5. peers'[i].status = "absent" \/ (peers'[i].status # "connected" /\ peers'[i].away)
    BY <2>3, <2>4
  <2> QED BY <1>2, <2>1, <2>4, <2>5, NoticedKept
<1>7. CASE HandleNewPeer
  <2>1. \A j \in Index : j = Head(events).index \/ peers'[j] = peers[j]
    <3> DEFINE p == [peers[Head(events).index] EXCEPT !.status = "connecting"]
    <3>1. PICK q : peers' = [peers EXCEPT ![Head(events).index] = q]
      <4>1. CASE peers' = [peers EXCEPT ![Head(events).index] = p]
        BY <4>1
      <4>2. CASE \E x \in Fresh : peers' = [peers EXCEPT ![Head(events).index] = [p EXCEPT !.challenge = x]]
        BY <4>2
      <4> QED BY <1>7, <4>1, <4>2 DEF HandleNewPeer
    <3> QED BY <1>5, <1>7, <3>1 DEF HandleNewPeer, TypeOK
  <2> QED BY <1>2, <1>3, <1>5, <1>7, <2>1 DEF HandleNewPeer
<1>8. CASE IgnoreMessage
  BY <1>2, <1>3, <1>5, <1>8 DEF IgnoreMessage, collection
<1>9. CASE HandleHandshakeChallenge
  <2> PICK x : peers' = [peers EXCEPT ![Head(events).index].challenge = x]
    BY <1>9 DEF HandleHandshakeChallenge
  <2>1. \A j \in Index : j = Head(events).index \/ peers'[j] = peers[j]
    BY <1>5, <1>9 DEF HandleHandshakeChallenge, TypeOK
  <2> QED BY <1>2, <1>3, <1>5, <1>9, <2>1 DEF HandleHandshakeChallenge
<1>10. CASE RefuseHandshakeResponse
  <2>1. \A j \in Index : j = Head(events).index \/ peers'[j] = peers[j]
    BY <1>5, <1>10 DEF RefuseHandshakeResponse, TypeOK
  <2> QED BY <1>2, <1>3, <1>5, <1>10, <2>1 DEF RefuseHandshakeResponse
<1>11. CASE HandleHandshakeResponse
  <2> PICK i \in Index : i = Head(events).index
    BY <1>5, <1>11 DEF HandleHandshakeResponse
  <2> DEFINE p == [peers[i] EXCEPT !.status = "connected", !.key = Head(events).key,
                                   !.challenge = None]
             joined == [peers EXCEPT ![i] = p]
  <2>1. \/ peers' = joined
        \/ \E j \in Reconnectable(joined, Head(events).key) :
             peers' = [Without(joined, j) EXCEPT ![i] = JoinAsReconnection(p, peers[j])]
    BY <1>11 DEF HandleHandshakeResponse
  <2>2. DOMAIN peers = Index
    BY DEF TypeOK
  <2> HIDE DEF p
  <2>3. Absent.status = "absent"
    BY DEF Absent
  <2>4. \A j \in Index : j = i \/ peers'[j] = peers[j] \/ peers'[j].status = "absent"
    <3>1. CASE peers' = joined
      BY <2>2, <3>1
    <3>2. ASSUME NEW m, peers' = [Without(joined, m) EXCEPT ![i] = JoinAsReconnection(p, peers[m])]
          PROVE  \A j \in Index : j = i \/ peers'[j] = peers[j] \/ peers'[j].status = "absent"
      BY <2>2, <2>3, <3>2 DEF Without
    <3> QED BY <2>1, <3>1, <3>2
  <2>5. Received("message")
    BY <1>11 DEF HandleHandshakeResponse
  <2>6. /\ events # << >> /\ events' = Tail(events) /\ Head(events).type = "message"
        /\ i = Head(events).index
    BY <1>5, <2>5
  <2>7. Head(events).type # "gone"
    BY <2>6
  <2> QED BY <1>2, <1>3, <2>4, <2>6, <2>7
<1>12. CASE ProcessTimerEvent
  <2> PICK expired : RemoveDisconnectedPeers(expired)
    BY <1>12 DEF ProcessTimerEvent
  <2>1. \A j \in Index : peers'[j] = peers[j] \/ peers'[j].status = "absent"
    BY DEF RemoveDisconnectedPeers, Absent
  <2> QED BY <1>2, <1>4, <1>12, <2>1 DEF ProcessTimerEvent
<1>13. ASSUME NEW k \in StunKeys, AddStunPeer(k)
       PROVE  Unmade' /\ Followed' /\ DeathNoticed' /\ NothingLeaks'
  <2> DEFINE p == [Absent EXCEPT !.status = "connected", !.key = k, !.stun = TRUE]
  <2>1. p.stun = TRUE
    BY DEF Absent
  <2> HIDE DEF p
  <2>2. \A j \in Index : peers'[j] = peers[j] \/ peers'[j] = p
    BY <1>13 DEF AddStunPeer, TypeOK, p
  <2>3. \A j \in Index : peers'[j] = peers[j] \/ peers'[j].stun
    BY <2>1, <2>2
  <2> QED BY <1>2, <1>4, <1>13, <2>3 DEF AddStunPeer
<1>14. ASSUME NEW i \in Index, RemoveStunPeer(i)
       PROVE  Unmade' /\ Followed' /\ DeathNoticed' /\ NothingLeaks'
  <2>1. \A j \in Index : peers'[j] = peers[j] \/ peers'[j].status = "absent"
    BY <1>14 DEF RemoveStunPeer, Without, TypeOK, Absent
  <2> QED BY <1>2, <1>4, <1>14, <2>1 DEF RemoveStunPeer
<1> QED BY <1>6, <1>7, <1>8, <1>9, <1>10, <1>11, <1>12, <1>13, <1>14

\* The invariant holds in every state.
LEMMA NoticeInvariant == Spec => []NoticeInv
<1>1. Init => NoticeInv
  <2> SUFFICES ASSUME Init PROVE NoticeInv
    OBVIOUS
  <2>1. TypeOK /\ events = << >> /\ conns = [c \in Conns |-> NoConn]
    BY TypeInit DEF Init
  <2>2. Unmade /\ Followed
    BY <2>1 DEF Unmade, Followed, NoConn
  <2>3. \A i \in Index : peers[i].status # "connected" /\ (Known(i) => peers[i].static # NoHost)
    <3> DEFINE static(i) == [Absent EXCEPT !.status = "disconnected", !.static = PeerConfigs[i]]
    <3>1. /\ Absent.status = "absent"
          /\ \A i \in DOMAIN PeerConfigs : static(i).status = "disconnected" /\ static(i).static = PeerConfigs[i]
      BY DEF Absent
    <3>2. \A i \in DOMAIN PeerConfigs : PeerConfigs[i] # NoHost
      BY PeersAssumption
    <3>3. peers = [i \in Index |-> IF i \in DOMAIN PeerConfigs THEN static(i) ELSE Absent]
      BY DEF Init
    <3> HIDE DEF static
    <3> QED BY <3>1, <3>2, <3>3 DEF Known
  <2> QED BY <2>1, <2>2, <2>3 DEF NoticeInv, DeathNoticed, NothingLeaks
<1>2. NoticeInv /\ [Next]_vars => NoticeInv'
  <2> SUFFICES ASSUME NoticeInv, [Next]_vars PROVE NoticeInv'
    OBVIOUS
  <2>1. TypeOK'
    BY TypeStep DEF NoticeInv
  <2>2. CASE UNCHANGED vars
    BY <2>2 DEF vars, collection, NoticeInv, TypeOK, Unmade, Followed, GoneAfter, Open,
                DeathNoticed, NothingLeaks, Queued, Known
  <2>3. CASE Next
    BY <2>1, <2>3, NoticeNetwork, NoticeRouting DEF Next, NoticeInv
  <2> QED BY <2>2, <2>3
<1> QED BY <1>1, <1>2, PTL DEF Spec

\* No end of a connection is missed: a connected peer has a connection that is
\* read, or the routing thread has yet to take its PeerDisconnected.
THEOREM LossNoticed == Spec => []DeathNoticed
BY NoticeInvariant, PTL DEF NoticeInv

\* Whatever peers do, remove_disconnected_peers will be able to remove every
\* peer that is neither configured nor a stun peer once its connection ends.
THEOREM PeersRemovable == Spec => []NothingLeaks
BY NoticeInvariant, PTL DEF NoticeInv

-----------------------------------------------------------------------------
(* One node per index.                                                      *)

\* Where the index i and the node h come together: in a connection, a message
\* on its way, a request to connect, and in the key or configuration of the
\* entry.
\* The holder of a key, if there is a key.
Host(k) == IF k \in Keys THEN Holder[k] ELSE NoHost

Connection(i, h) == \E c \in Conns : conns[c].index = i /\ conns[c].host = h

MessageFrom(i, h) ==
    \E n \in DOMAIN events :
      events[n].type = "message" /\ events[n].index = i /\ Host(events[n].key) = h

ConnectTo(i, h) ==
    \E n \in DOMAIN requests :
      requests[n].type = "connect" /\ requests[n].index = i /\ requests[n].key = h

Entry(i, h) == h # NoHost /\ h \in {Host(peers[i].key), peers[i].static}

Told(i, h) == Connection(i, h) \/ MessageFrom(i, h) \/ ConnectTo(i, h) \/ Entry(i, h)

\* An index stands for one node, and for none before the counter reaches it.
Agreed ==
    \A i \in Index, h \in KeyOrNone : Told(i, h) =>
        /\ h \in Hosts
        /\ i <= counter
        /\ \A k \in KeyOrNone : Told(i, k) => k = h

KeyInv == TypeOK /\ Unmade /\ Agreed

\* A step that tells nothing new, except of the next index.
LEMMA AgreedKept ==
    ASSUME KeyInv, TypeOK', NEW g \in Hosts,
           counter' \in {counter, counter + 1},
           \A i \in Index, h \in KeyOrNone : Told(i, h)' =>
              Told(i, h) \/ (i = counter + 1 /\ counter' = i /\ h = g)
    PROVE  Agreed'
<1>1. \A i \in Index : i \in Nat /\ counter \in Nat
  BY PeersAssumption DEF Index, KeyInv, TypeOK
<1> SUFFICES ASSUME NEW i \in Index, NEW h \in KeyOrNone, Told(i, h)'
             PROVE  /\ h \in Hosts
                    /\ i <= counter'
                    /\ \A k \in KeyOrNone : Told(i, k)' => k = h
  BY DEF Agreed
<1>2. CASE i = counter + 1
  <2>1. \A k \in KeyOrNone : ~ Told(i, k)
    BY <1>1, <1>2 DEF KeyInv, Agreed
  <2> QED BY <1>1, <1>2, <2>1
<1>3. CASE i # counter + 1
  BY <1>1, <1>3 DEF KeyInv, Agreed
<1> QED BY <1>2, <1>3

\* A step that tells nothing new at all.
LEMMA AgreedStays ==
    ASSUME KeyInv, counter' = counter,
           \A i \in Index, h \in KeyOrNone : Told(i, h)' => Told(i, h)
    PROVE  Agreed'
BY DEF KeyInv, Agreed

\* What the channels tell after one of them lost its head or got an element.
LEMMA EventsTell ==
    ASSUME TypeOK, NEW i \in Index, NEW h \in KeyOrNone
    PROVE  /\ events' = events => MessageFrom(i, h)' = MessageFrom(i, h)
           /\ events # << >> /\ events' = Tail(events) /\ MessageFrom(i, h)' => MessageFrom(i, h)
           /\ \A e \in Event : events' = Append(events, e) /\ MessageFrom(i, h)' =>
                MessageFrom(i, h) \/ (e.type = "message" /\ e.index = i /\ Host(e.key) = h)
<1>1. events \in Seq(Event) /\ Len(events) \in Nat /\ DOMAIN events = 1 .. Len(events)
  BY DEF TypeOK
<1>2. events' = events => MessageFrom(i, h)' = MessageFrom(i, h)
  BY DEF MessageFrom
<1>3. ASSUME events # << >>, events' = Tail(events), MessageFrom(i, h)' PROVE MessageFrom(i, h)
  <2> PICK n \in DOMAIN events' :
         events'[n].type = "message" /\ events'[n].index = i /\ Host(events'[n].key) = h
    BY <1>3 DEF MessageFrom
  <2>1. n + 1 \in DOMAIN events /\ events'[n] = events[n + 1]
    BY <1>1, <1>3
  <2> QED BY <2>1 DEF MessageFrom
<1>4. ASSUME NEW e \in Event, events' = Append(events, e), MessageFrom(i, h)'
      PROVE  MessageFrom(i, h) \/ (e.type = "message" /\ e.index = i /\ Host(e.key) = h)
  <2> PICK n \in DOMAIN events' :
         events'[n].type = "message" /\ events'[n].index = i /\ Host(events'[n].key) = h
    BY <1>4 DEF MessageFrom
  <2>1. events'[n] = e \/ (n \in DOMAIN events /\ events'[n] = events[n])
    BY <1>1, <1>4
  <2> QED BY <2>1 DEF MessageFrom
<1> QED BY <1>2, <1>3, <1>4

\* What the queue of requests tells of an index after a request was taken or made.
LEMMA RequestsTell ==
    ASSUME TypeOK, NEW i \in Index, NEW h \in KeyOrNone
    PROVE  /\ requests' = requests => ConnectTo(i, h)' = ConnectTo(i, h)
           /\ requests # << >> /\ requests' = Tail(requests) /\ ConnectTo(i, h)' => ConnectTo(i, h)
           /\ \A s \in Seq(Request) : requests' = requests \o s /\ ConnectTo(i, h)' =>
                \/ ConnectTo(i, h)
                \/ \E n \in DOMAIN s : s[n].type = "connect" /\ s[n].index = i /\ s[n].key = h
<1>1. requests \in Seq(Request) /\ Len(requests) \in Nat /\ DOMAIN requests = 1 .. Len(requests)
  BY DEF TypeOK
<1>2. requests' = requests => ConnectTo(i, h)' = ConnectTo(i, h)
  BY DEF ConnectTo
<1>3. ASSUME requests # << >>, requests' = Tail(requests), ConnectTo(i, h)' PROVE ConnectTo(i, h)
  <2> PICK n \in DOMAIN requests' :
         requests'[n].type = "connect" /\ requests'[n].index = i /\ requests'[n].key = h
    BY <1>3 DEF ConnectTo
  <2>1. n + 1 \in DOMAIN requests /\ requests'[n] = requests[n + 1]
    BY <1>1, <1>3
  <2> QED BY <2>1 DEF ConnectTo
<1>4. ASSUME NEW s \in Seq(Request), requests' = requests \o s, ConnectTo(i, h)'
      PROVE  \/ ConnectTo(i, h)
             \/ \E n \in DOMAIN s : s[n].type = "connect" /\ s[n].index = i /\ s[n].key = h
  <2> PICK n \in DOMAIN requests' :
         requests'[n].type = "connect" /\ requests'[n].index = i /\ requests'[n].key = h
    BY <1>4 DEF ConnectTo
  <2>1. Len(s) \in Nat /\ DOMAIN s = 1 .. Len(s)
    BY <1>4
  <2>2. /\ DOMAIN requests' = 1 .. Len(requests) + Len(s)
        /\ \A m \in 1 .. Len(requests) + Len(s) :
             requests'[m] = IF m <= Len(requests) THEN requests[m] ELSE s[m - Len(requests)]
    BY <1>1, <1>4, <2>1
  <2>3. CASE n <= Len(requests)
    BY <1>1, <2>2, <2>3 DEF ConnectTo
  <2>4. CASE ~ n <= Len(requests)
    <3>1. n - Len(requests) \in DOMAIN s
      BY <1>1, <2>1, <2>2, <2>4
    <3> QED BY <2>2, <2>4, <3>1
  <2> QED BY <2>3, <2>4
<1> QED BY <1>2, <1>3, <1>4

\* A request that is no connect tells nothing.
LEMMA AppendTells ==
    ASSUME TypeOK, NEW i \in Index, NEW h \in KeyOrNone, NEW r \in Request,
           requests' = Append(requests, r), r.type # "connect", ConnectTo(i, h)'
    PROVE  ConnectTo(i, h)
<1>1. requests' = requests \o <<r>> /\ <<r>> \in Seq(Request)
  BY DEF TypeOK
<1>2. \A n \in DOMAIN <<r>> : <<r>>[n] = r
  OBVIOUS
<1> QED BY <1>1, <1>2, RequestsTell

\* Connections of the same indices and nodes, and possibly one more.
LEMMA ConnectionsTell ==
    ASSUME NEW g, NEW j \in Index, NEW i \in Index, NEW h \in KeyOrNone,
           \A c \in Conns : conns'[c].index # None =>
              \/ conns'[c].index = j /\ conns'[c].host = g
              \/ conns'[c].index = conns[c].index /\ conns'[c].host = conns[c].host,
           Connection(i, h)'
    PROVE  Connection(i, h) \/ (i = j /\ h = g)
<1>1. None \notin Index
  BY DEF None, Index
<1>2. PICK c \in Conns : conns'[c].index = i /\ conns'[c].host = h
  BY DEF Connection
<1> QED BY <1>1, <1>2 DEF Connection

\* A step of the network.
LEMMA KeyNetwork ==
    ASSUME KeyInv, TypeOK',
           \/ \E h \in Hosts : Incoming(h)
           \/ DialSucceeds \/ DialFails \/ DisconnectSocket \/ SendMessage
           \/ \E c \in Conns : ReadMessage(c) \/ ReaderEnds(c)
    PROVE  Agreed'
<1> USE DEF KeyInv
<1>1. \A i, h : Entry(i, h)' = Entry(i, h)
  BY DEF Incoming, DialSucceeds, DialFails, DisconnectSocket, SendMessage, ReadMessage,
         ReaderEnds, collection, Entry
<1>2. \A type : Requested(type) => requests # << >> /\ requests' = Tail(requests)
                                   /\ Head(requests).type = type
  BY DEF Requested
<1>3. ASSUME NEW h \in Hosts, Incoming(h) PROVE Agreed'
  <2>1. PICK j \in Index : j = counter + 1
    BY <1>3, PeersAssumption DEF Incoming, Index, TypeOK
  <2>2. NewConnection(j, h, FALSE, None, << >>) /\ requests' = requests /\ counter' = j
    BY <1>3, <2>1 DEF Incoming
  <2> DEFINE e == [type |-> "new", index |-> j, key |-> NoHost, msg |-> NoMessage]
  <2>3. e \in Event /\ e.type = "new" /\ events' = Append(events, e)
    BY <2>2 DEF NewConnection, Report, Event, KeyOrNone, NoMessage, Message
  <2>4. \A c \in Conns : conns'[c].index # None =>
          \/ conns'[c].index = j /\ conns'[c].host = h
          \/ conns'[c] = conns[c]
    BY <2>2, NewConnectionOpens
  <2> HIDE DEF e
  <2>5. ASSUME NEW i \in Index, NEW k \in KeyOrNone, Told(i, k)'
        PROVE  Told(i, k) \/ (i = j /\ k = h)
    <3>1. Connection(i, k)' => Connection(i, k) \/ (i = j /\ k = h)
      BY <2>4, ConnectionsTell
    <3>2. MessageFrom(i, k)' => MessageFrom(i, k)
      BY <2>3, EventsTell
    <3>3. ConnectTo(i, k)' => ConnectTo(i, k)
      BY <2>2, RequestsTell
    <3> QED BY <1>1, <2>5, <3>1, <3>2, <3>3 DEF Told
  <2> QED BY <2>1, <2>2, <2>5, AgreedKept
<1>4. CASE DialSucceeds
  <2>1. /\ requests # << >> /\ requests' = Tail(requests) /\ Head(requests).type = "connect"
        /\ Head(requests) \in Request /\ counter' = counter
    BY <1>2, <1>4, ChannelTypes DEF DialSucceeds, collection
  <2>2. PICK j \in Index, g \in KeyOrNone : j = Head(requests).index /\ g = Head(requests).key
    BY <2>1 DEF Request
  <2>3. PICK x : NewConnection(j, g, TRUE, x, <<[signed |-> None, challenge |-> x]>>)
    BY <1>4, <2>2 DEF DialSucceeds
  <2>4. Told(j, g)
    <3>1. 1 \in DOMAIN requests /\ requests[1] = Head(requests)
      BY <2>1 DEF TypeOK
    <3> QED BY <2>1, <2>2, <3>1 DEF Told, ConnectTo
  <2> DEFINE e == [type |-> "new", index |-> j, key |-> NoHost, msg |-> NoMessage]
  <2>5. e \in Event /\ e.type = "new" /\ events' = Append(events, e)
    BY <2>3 DEF NewConnection, Report, Event, KeyOrNone, NoMessage, Message
  <2>6. \A c \in Conns : conns'[c].index # None =>
          \/ conns'[c].index = j /\ conns'[c].host = g
          \/ conns'[c] = conns[c]
    BY <2>3, NewConnectionOpens
  <2> HIDE DEF e
  <2>7. ASSUME NEW i \in Index, NEW k \in KeyOrNone, Told(i, k)' PROVE Told(i, k)
    <3>1. Connection(i, k)' => Connection(i, k) \/ (i = j /\ k = g)
      BY <2>6, ConnectionsTell
    <3>2. MessageFrom(i, k)' => MessageFrom(i, k)
      BY <2>5, EventsTell
    <3>3. ConnectTo(i, k)' => ConnectTo(i, k)
      BY <2>1, RequestsTell
    <3> QED BY <1>1, <2>4, <2>7, <3>1, <3>2, <3>3 DEF Told
  <2> QED BY <2>1, <2>7, AgreedStays
<1>5. CASE DialFails
  <2>1. /\ requests # << >> /\ requests' = Tail(requests)
        /\ counter' = counter /\ events' = events /\ conns' = conns
    BY <1>2, <1>5 DEF DialFails, collection
  <2>2. ASSUME NEW i \in Index, NEW k \in KeyOrNone, Told(i, k)' PROVE Told(i, k)
    <3>1. /\ MessageFrom(i, k)' => MessageFrom(i, k)
          /\ ConnectTo(i, k)' => ConnectTo(i, k)
      BY <2>1, EventsTell, RequestsTell
    <3> QED BY <1>1, <2>1, <2>2, <3>1 DEF Told, Connection
  <2> QED BY <2>1, <2>2, AgreedStays
<1>6. CASE DisconnectSocket
  <2>1. PICK j \in Index : j = Head(requests).index
    BY <1>2, <1>6, ChannelTypes DEF DisconnectSocket, Request
  <2> DEFINE e == [type |-> "gone", index |-> j, key |-> NoHost, msg |-> NoMessage]
  <2>2. e \in Event /\ e.type = "gone"
    BY DEF Event, KeyOrNone, NoMessage, Message
  <2>3. /\ requests # << >> /\ requests' = Tail(requests)
        /\ counter' = counter /\ conns' = conns /\ events' = Append(events, e)
    BY <1>2, <1>6, <2>1 DEF DisconnectSocket, Report, collection
  <2> HIDE DEF e
  <2>4. ASSUME NEW i \in Index, NEW k \in KeyOrNone, Told(i, k)' PROVE Told(i, k)
    <3>1. /\ MessageFrom(i, k)' => MessageFrom(i, k)
          /\ ConnectTo(i, k)' => ConnectTo(i, k)
      BY <2>2, <2>3, EventsTell, RequestsTell
    <3> QED BY <1>1, <2>3, <2>4, <3>1 DEF Told, Connection
  <2> QED BY <2>3, <2>4, AgreedStays
<1>7. CASE SendMessage
  <2>1. /\ requests # << >> /\ requests' = Tail(requests)
        /\ counter' = counter /\ events' = events
    BY <1>2, <1>7 DEF SendMessage, collection
  <2>2. \A c \in Conns : conns'[c].index = conns[c].index /\ conns'[c].host = conns[c].host
    <3> PICK c \in Conns \cup {None} : c = sockets[Head(requests).index]
      BY <2>1, ChannelTypes DEF Request, TypeOK
    <3>1. CASE c # None /\ RemoteHears(c, Head(requests).msg)
      BY <3>1, RemoteKept
    <3>2. CASE conns' = conns
      BY <3>2
    <3> QED BY <1>7, <3>1, <3>2 DEF SendMessage
  <2>3. ASSUME NEW i \in Index, NEW k \in KeyOrNone, Told(i, k)' PROVE Told(i, k)
    <3>1. /\ MessageFrom(i, k)' => MessageFrom(i, k)
          /\ ConnectTo(i, k)' => ConnectTo(i, k)
      BY <2>1, EventsTell, RequestsTell
    <3> QED BY <1>1, <2>2, <2>3, <3>1 DEF Told, Connection
  <2> QED BY <2>1, <2>3, AgreedStays
<1>8. ASSUME NEW c \in Conns, ReadMessage(c) PROVE Agreed'
  <2>1. conns[c] \in Conn /\ conns[c].inbox \in Seq(Message) /\ conns[c].inbox # << >>
    BY <1>8 DEF TypeOK, Conn, ReadMessage
  <2>2. PICK j \in Index, g \in KeyOrNone : j = conns[c].index /\ g = conns[c].host
    BY <1>8, <2>1 DEF ReadMessage, Reading, Conn
  <2>3. PICK e \in Event : e.index = j /\ Host(e.key) = g /\ events' = Append(events, e)
    <3>1. PICK key \in Keys :
            /\ Holder[key] = conns[c].host
            /\ [type |-> "message", index |-> conns[c].index, key |-> key,
                msg |-> Head(conns[c].inbox)] \in Event
            /\ events' = Append(events, [type |-> "message", index |-> conns[c].index,
                                         key |-> key, msg |-> Head(conns[c].inbox)])
      BY <1>8, ReadReports
    <3> DEFINE e == [type |-> "message", index |-> conns[c].index, key |-> key,
                     msg |-> Head(conns[c].inbox)]
    <3>2. e.index = j /\ Host(e.key) = g
      BY <2>2, <3>1 DEF Host
    <3> HIDE DEF e
    <3> QED BY <3>1, <3>2 DEF e
  <2>4. counter' = counter /\ requests' = requests
    BY <1>8 DEF ReadMessage, collection
  <2>5. \A d \in Conns : conns'[d].index = conns[d].index /\ conns'[d].host = conns[d].host
    BY <1>8, <2>1 DEF ReadMessage, TypeOK, Conn
  <2>6. Told(j, g)
    BY <2>2 DEF Told, Connection
  <2>7. ASSUME NEW i \in Index, NEW k \in KeyOrNone, Told(i, k)' PROVE Told(i, k)
    <3>1. MessageFrom(i, k)' => MessageFrom(i, k) \/ (i = j /\ k = g)
      BY <2>3, <2>4, EventsTell
    <3>2. ConnectTo(i, k)' => ConnectTo(i, k)
      BY <2>4, RequestsTell
    <3> QED BY <1>1, <2>5, <2>6, <2>7, <3>1, <3>2 DEF Told, Connection
  <2> QED BY <2>4, <2>7, AgreedStays
<1>9. ASSUME NEW c \in Conns, ReaderEnds(c) PROVE Agreed'
  <2> PICK j \in Index : j = conns[c].index
    BY <1>9 DEF ReaderEnds, Reading, TypeOK, Conn
  <2> DEFINE e == [type |-> "gone", index |-> j, key |-> NoHost, msg |-> NoMessage]
  <2>1. e \in Event /\ e.type = "gone"
    BY DEF Event, KeyOrNone, NoMessage, Message
  <2>2. events' = Append(events, e) /\ counter' = counter /\ requests' = requests
    BY <1>9 DEF ReaderEnds, Report, collection
  <2>3. conns'[c].index = None /\ \A d \in Conns \ {c} : conns'[d] = conns[d]
    BY <1>9 DEF ReaderEnds, TypeOK, NoConn
  <2>4. None \notin Index
    BY DEF None, Index
  <2> HIDE DEF e
  <2>5. ASSUME NEW i \in Index, NEW k \in KeyOrNone, Told(i, k)' PROVE Told(i, k)
    <3>1. MessageFrom(i, k)' => MessageFrom(i, k)
      BY <2>1, <2>2, EventsTell
    <3>2. ConnectTo(i, k)' => ConnectTo(i, k)
      BY <2>2, RequestsTell
    <3>3. Connection(i, k)' => Connection(i, k)
      BY <2>3, <2>4 DEF Connection
    <3> QED BY <1>1, <2>5, <3>1, <3>2, <3>3 DEF Told
  <2> QED BY <2>2, <2>5, AgreedStays
<1> QED BY <1>3, <1>4, <1>5, <1>6, <1>7, <1>8, <1>9

\* A step of the routing thread.
LEMMA KeyRouting ==
    ASSUME KeyInv, TypeOK',
           \/ HandleNewPeer \/ HandlePeerDisconnect
           \/ IgnoreMessage \/ HandleHandshakeChallenge
           \/ RefuseHandshakeResponse \/ HandleHandshakeResponse
           \/ ProcessTimerEvent
           \/ \E k \in StunKeys : AddStunPeer(k)
           \/ \E i \in Index : RemoveStunPeer(i)
    PROVE  Agreed'
<1> USE DEF KeyInv
<1>1. \A i, h : Connection(i, h)' = Connection(i, h)
  BY DEF HandleNewPeer, HandlePeerDisconnect, IgnoreMessage, HandleHandshakeChallenge,
         RefuseHandshakeResponse, HandleHandshakeResponse, ProcessTimerEvent, AddStunPeer,
         RemoveStunPeer, Connection
<1>2. \A type : Received(type) =>
        /\ events # << >> /\ events' = Tail(events) /\ Head(events).type = type
        /\ Head(events) \in Event /\ Head(events).index \in Index /\ Head(events).key \in KeyOrNone
        /\ peers[Head(events).index] \in Peer
  BY ChannelTypes DEF Received, Event, TypeOK
<1>3. Host(Absent.key) = NoHost /\ Absent.static = NoHost
  BY PeersAssumption DEF Absent, Host
\* A handler that asks for no connection and keeps keys and configurations.
<1>4. ASSUME events # << >>, events' = Tail(events), counter' = counter,
             \A i \in Index, h \in KeyOrNone : ConnectTo(i, h)' => ConnectTo(i, h),
             \A i \in Index : peers'[i].key = peers[i].key /\ peers'[i].static = peers[i].static
      PROVE  Agreed'
  <2>1. ASSUME NEW i \in Index, NEW k \in KeyOrNone, Told(i, k)' PROVE Told(i, k)
    <3>1. MessageFrom(i, k)' => MessageFrom(i, k)
      BY <1>4, EventsTell
    <3> QED BY <1>1, <1>4, <2>1, <3>1 DEF Told, Entry
  <2> QED BY <1>4, <2>1, AgreedStays
<1>5. CASE HandleNewPeer
  <2>1. PICK j \in Index : j = Head(events).index
    BY <1>2, <1>5 DEF HandleNewPeer
  <2> DEFINE p == [peers[j] EXCEPT !.status = "connecting"]
  <2>2. peers[j] \in Peer
    BY DEF TypeOK
  <2>3. /\ events # << >> /\ events' = Tail(events) /\ counter' = counter
        /\ \/ requests' = requests /\ peers' = [peers EXCEPT ![j] = p]
           \/ \E x \in Challenges : /\ requests' = Append(requests, Send(j, None, x))
                                    /\ peers' = [peers EXCEPT ![j] = [p EXCEPT !.challenge = x]]
    BY <1>2, <1>5, <2>1, FreshType DEF HandleNewPeer
  <2>4. \A i \in Index : peers'[i].key = peers[i].key /\ peers'[i].static = peers[i].static
    <3>1. p.key = peers[j].key /\ p.static = peers[j].static
      BY <2>2 DEF Peer
    <3>2. \A x : /\ [p EXCEPT !.challenge = x].key = peers[j].key
                 /\ [p EXCEPT !.challenge = x].static = peers[j].static
      BY <2>2 DEF Peer
    <3> HIDE DEF p
    <3>3. PICK q : /\ peers' = [peers EXCEPT ![j] = q]
                   /\ q.key = peers[j].key /\ q.static = peers[j].static
      <4>1. CASE peers' = [peers EXCEPT ![j] = p]
        BY <3>1, <4>1
      <4>2. ASSUME NEW x, peers' = [peers EXCEPT ![j] = [p EXCEPT !.challenge = x]]
            PROVE  \E q : /\ peers' = [peers EXCEPT ![j] = q]
                          /\ q.key = peers[j].key /\ q.static = peers[j].static
        BY <3>2, <4>2
      <4> QED BY <2>3, <4>1, <4>2
    <3> QED BY <3>3 DEF TypeOK
  <2>5. ASSUME NEW i \in Index, NEW h \in KeyOrNone, ConnectTo(i, h)' PROVE ConnectTo(i, h)
    <3>1. CASE requests' = requests
      BY <2>5, <3>1, RequestsTell
    <3>2. ASSUME NEW x \in Challenges, requests' = Append(requests, Send(j, None, x))
          PROVE  ConnectTo(i, h)
      <4>1. Send(j, None, x) \in Request /\ Send(j, None, x).type = "send"
        BY DEF Send, Request, KeyOrNone, Message
      <4> QED BY <2>5, <3>2, <4>1, AppendTells
    <3> QED BY <2>3, <3>1, <3>2
  <2> QED BY <1>4, <2>3, <2>4, <2>5
<1>6. CASE HandlePeerDisconnect
  <2>1. PICK j \in Index : j = Head(events).index
    BY <1>2, <1>6 DEF HandlePeerDisconnect
  <2>2. /\ events # << >> /\ events' = Tail(events) /\ counter' = counter /\ requests' = requests
        /\ peers' = peers \/ peers' = [peers EXCEPT ![j] = MarkAsDisconnected(peers[j])]
    BY <1>2, <1>6, <2>1 DEF HandlePeerDisconnect
  <2>3. \A i \in Index : peers'[i].key = peers[i].key /\ peers'[i].static = peers[i].static
    <3>1. /\ MarkAsDisconnected(peers[j]).key = peers[j].key
          /\ MarkAsDisconnected(peers[j]).static = peers[j].static
      BY DEF TypeOK, Peer, MarkAsDisconnected
    <3> QED BY <2>2, <3>1 DEF TypeOK
  <2> QED BY <1>4, <2>2, <2>3, RequestsTell
<1>7. CASE IgnoreMessage
  <2>1. /\ events # << >> /\ events' = Tail(events) /\ counter' = counter
        /\ requests' = requests /\ peers' = peers
    BY <1>2, <1>7 DEF IgnoreMessage, collection
  <2> QED BY <1>4, <2>1, RequestsTell
<1>8. CASE HandleHandshakeChallenge
  <2>1. PICK j \in Index : j = Head(events).index
    BY <1>2, <1>8 DEF HandleHandshakeChallenge
  <2> DEFINE msg == Head(events).msg
  <2>2. events # << >> /\ events' = Tail(events) /\ counter' = counter /\ msg \in Message
    BY <1>2, <1>8 DEF HandleHandshakeChallenge, Event
  <2>3. PICK x \in Challenges : /\ peers' = [peers EXCEPT ![j].challenge = x]
                                /\ requests' = Append(requests, Send(j, Signed(msg.challenge), x))
    BY <1>8, <2>1, FreshType DEF HandleHandshakeChallenge
  <2>4. \A i \in Index : peers'[i].key = peers[i].key /\ peers'[i].static = peers[i].static
    BY <2>3 DEF TypeOK, Peer
  <2>5. Send(j, Signed(msg.challenge), x) \in Request /\ Send(j, Signed(msg.challenge), x).type = "send"
    BY <2>2, SignedType DEF Send, Request, KeyOrNone, Message
  <2> QED BY <1>4, <2>2, <2>3, <2>4, <2>5, AppendTells
<1>9. CASE RefuseHandshakeResponse
  <2>1. PICK j \in Index : j = Head(events).index
    BY <1>2, <1>9 DEF RefuseHandshakeResponse
  <2>2. /\ events # << >> /\ events' = Tail(events) /\ counter' = counter
        /\ requests' = requests \o <<Disconnect(j), Disconnect(j)>>
        /\ peers' = [peers EXCEPT ![j] = MarkAsDisconnected(peers[j])]
    BY <1>2, <1>9, <2>1 DEF RefuseHandshakeResponse, TypeOK
  <2>3. \A i \in Index : peers'[i].key = peers[i].key /\ peers'[i].static = peers[i].static
    <3>1. /\ MarkAsDisconnected(peers[j]).key = peers[j].key
          /\ MarkAsDisconnected(peers[j]).static = peers[j].static
      BY DEF TypeOK, Peer, MarkAsDisconnected
    <3> QED BY <2>2, <3>1 DEF TypeOK
  <2> DEFINE d == Disconnect(j)
  <2>4. d \in Request /\ d.type = "disconnect"
    BY DEF Disconnect, Request, KeyOrNone, NoMessage, Message
  <2> HIDE DEF d
  <2>5. <<d, d>> \in Seq(Request) /\ \A n \in DOMAIN <<d, d>> : <<d, d>>[n] = d
    BY <2>4
  <2>6. requests' = requests \o <<d, d>>
    BY <2>2 DEF d
  <2>7. ASSUME NEW i \in Index, NEW h \in KeyOrNone, ConnectTo(i, h)' PROVE ConnectTo(i, h)
    <3> DEFINE s == <<d, d>>
    <3>1. s \in Seq(Request) /\ requests' = requests \o s /\ \A n \in DOMAIN s : s[n] = d
      BY <2>5, <2>6
    <3> HIDE DEF s
    <3>2. \/ ConnectTo(i, h)
          \/ \E n \in DOMAIN s : s[n].type = "connect" /\ s[n].index = i /\ s[n].key = h
      BY <2>7, <3>1, RequestsTell
    <3> QED BY <2>4, <3>1, <3>2
  <2> QED BY <1>4, <2>2, <2>3, <2>7
<1>10. CASE HandleHandshakeResponse
  <2>1. PICK j \in Index, k \in KeyOrNone : j = Head(events).index /\ k = Head(events).key
    BY <1>2, <1>10 DEF HandleHandshakeResponse
  <2> DEFINE msg == Head(events).msg
             p == [peers[j] EXCEPT !.status = "connected", !.key = k, !.challenge = None]
             joined == [peers EXCEPT ![j] = p]
  <2>2. /\ events # << >> /\ events' = Tail(events) /\ counter' = counter
        /\ Head(events).type = "message" /\ msg \in Message /\ peers[j] \in Peer
    BY <1>2, <1>10, <2>1 DEF HandleHandshakeResponse, Event
  <2>12. PICK g \in KeyOrNone : g = Host(k)
    BY PeersAssumption DEF Host, KeyOrNone
  <2>3. Told(j, g)
    <3>1. 1 \in DOMAIN events /\ events[1] = Head(events)
      BY <2>2 DEF TypeOK
    <3> QED BY <2>1, <2>2, <2>12, <3>1 DEF Told, MessageFrom
  <2>4. g \in Hosts /\ g # NoHost
    BY <2>3, PeersAssumption DEF Agreed
  <2>5. \A i \in Index, h \in KeyOrNone : ConnectTo(i, h)' => ConnectTo(i, h)
    <3>1. requests' = requests \/ requests' = Append(requests, Send(j, Signed(msg.challenge), None))
      BY <1>10, <2>1 DEF HandleHandshakeResponse
    <3>2. Send(j, Signed(msg.challenge), None) \in Request /\ Send(j, Signed(msg.challenge), None).type = "send"
      BY <2>2, SignedType DEF Send, Request, KeyOrNone, Message
    <3> QED BY <3>1, <3>2, AppendTells, RequestsTell
  <2>6. p \in Peer /\ p.key = k /\ p.static = peers[j].static
    BY <2>2 DEF Peer
  <2>7. \/ peers' = joined
        \/ \E m \in Reconnectable(joined, k) :
             peers' = [Without(joined, m) EXCEPT ![j] = JoinAsReconnection(p, peers[m])]
    BY <1>10, <2>1 DEF HandleHandshakeResponse
  <2> HIDE DEF p
  <2>8. \A i \in Index : i # j => joined[i] = peers[i]
    BY DEF TypeOK
  <2>9. joined[j] = p /\ DOMAIN joined = Index /\ DOMAIN peers = Index
    BY DEF TypeOK
  <2> HIDE DEF joined
  <2>10. ASSUME NEW i \in Index, NEW h \in KeyOrNone, Entry(i, h)' PROVE Told(i, h)
    <3>1. CASE peers' = joined
      <4>1. CASE i = j
        BY <2>3, <2>6, <2>9, <2>10, <2>12, <3>1, <4>1 DEF Entry, Told
      <4>2. CASE i # j
        BY <2>8, <2>10, <3>1, <4>2 DEF Entry, Told
      <4> QED BY <4>1, <4>2
    <3>2. ASSUME NEW m \in Reconnectable(joined, k),
                 peers' = [Without(joined, m) EXCEPT ![j] = JoinAsReconnection(p, peers[m])]
          PROVE  Told(i, h)
      <4>1. m \in Index /\ m # j /\ peers[m].key = k
        <5>1. m \in Index /\ joined[m].key = k /\ joined[m].status # "connected"
          BY DEF Reconnectable
        <5>2. p.status = "connected"
          BY <2>2 DEF p, Peer
        <5> QED BY <2>8, <2>9, <5>1, <5>2
      <4>2. peers[m].static \in KeyOrNone
        BY <4>1 DEF TypeOK, Peer
      <4>3. peers[m].static \in {NoHost, g}
        <5>1. Told(m, g)
          BY <2>4, <2>12, <4>1 DEF Told, Entry
        <5>2. peers[m].static # NoHost => Told(m, peers[m].static)
          BY DEF Told, Entry
        <5> QED BY <4>1, <4>2, <5>1, <5>2 DEF Agreed
      <4> DEFINE q == JoinAsReconnection(p, peers[m])
      <4>4. q.key = k /\ q.static \in {NoHost, g}
        BY <2>6, <4>3 DEF JoinAsReconnection, Peer
      <4> HIDE DEF q
      <4>5. /\ peers'[j] = q
            /\ \A n \in Index : n # j => peers'[n] = peers[n] \/ peers'[n] = Absent
        BY <2>8, <2>9, <3>2 DEF Without, q
      <4>6. CASE i = j
        BY <2>3, <2>10, <2>12, <4>4, <4>5, <4>6 DEF Entry
      <4>7. CASE i # j
        <5>1. CASE peers'[i] = peers[i]
          BY <2>10, <5>1 DEF Entry, Told
        <5>2. CASE peers'[i] = Absent
          BY <1>3, <2>10, <5>2 DEF Entry
        <5> QED BY <4>5, <4>7, <5>1, <5>2
      <4> QED BY <4>6, <4>7
    <3> QED BY <2>7, <3>1, <3>2
  <2>11. ASSUME NEW i \in Index, NEW h \in KeyOrNone, Told(i, h)' PROVE Told(i, h)
    <3>1. MessageFrom(i, h)' => MessageFrom(i, h)
      BY <2>2, EventsTell
    <3> QED BY <1>1, <2>5, <2>10, <2>11, <3>1 DEF Told
  <2> QED BY <2>2, <2>11, AgreedStays
<1>11. CASE ProcessTimerEvent
  <2>1. events' = events /\ counter' = counter
    BY <1>11 DEF ProcessTimerEvent
  <2> PICK due \in SUBSET {j \in Index : peers[j].status = "disconnected" /\ peers[j].static # NoHost} :
         Dial(due)
    BY <1>11 DEF ProcessTimerEvent
  <2>4. PICK s \in Seq(Request) :
           /\ requests' = requests \o s
           /\ \A n \in DOMAIN s :
                /\ s[n].type = "connect" /\ s[n].index \in Index
                /\ peers[s[n].index].static # NoHost
                /\ s[n].key = peers[s[n].index].static
    BY DialRequests
  <2>5. \A n \in DOMAIN s : Told(s[n].index, s[n].key)
    BY <2>4 DEF Told, Entry
  <2>7. ASSUME NEW i \in Index, NEW h \in KeyOrNone, ConnectTo(i, h)' PROVE Told(i, h)
    <3>1. CASE ConnectTo(i, h)
      BY <3>1 DEF Told
    <3>2. CASE \E n \in DOMAIN s : s[n].type = "connect" /\ s[n].index = i /\ s[n].key = h
      BY <2>5, <3>2
    <3> QED BY <2>4, <2>7, <3>1, <3>2, RequestsTell
  <2>8. ASSUME NEW i \in Index, NEW h \in KeyOrNone, Entry(i, h)' PROVE Entry(i, h)
    <3> PICK expired : RemoveDisconnectedPeers(expired)
      BY <1>11 DEF ProcessTimerEvent
    <3> QED BY <1>3, <2>8 DEF RemoveDisconnectedPeers, Entry
  <2>9. ASSUME NEW i \in Index, NEW h \in KeyOrNone, Told(i, h)' PROVE Told(i, h)
    <3>1. MessageFrom(i, h)' => MessageFrom(i, h)
      BY <2>1, EventsTell
    <3> QED BY <1>1, <2>7, <2>8, <2>9, <3>1 DEF Told
  <2> QED BY <2>1, <2>9, AgreedStays
<1>12. ASSUME NEW k \in StunKeys, AddStunPeer(k) PROVE Agreed'
  <2> DEFINE p == [Absent EXCEPT !.status = "connected", !.key = k, !.stun = TRUE]
  <2>1. p.key = k /\ p.static = NoHost
    BY DEF Absent
  <2>6. PICK g \in Hosts : g = Host(k)
    BY PeersAssumption DEF Host
  <2>2. PICK j \in Index : j = counter + 1
    <3>1. counter < MaxIndex
      BY <1>12 DEF AddStunPeer
    <3> QED BY <3>1, PeersAssumption DEF Index, TypeOK
  <2>3. /\ counter' = j /\ events' = events /\ requests' = requests
        /\ peers' = [peers EXCEPT ![j] = p]
    BY <1>12, <2>2 DEF AddStunPeer
  <2> HIDE DEF p
  <2>4. peers'[j] = p /\ \A i \in Index : i # j => peers'[i] = peers[i]
    BY <2>3 DEF TypeOK
  <2>5. ASSUME NEW i \in Index, NEW h \in KeyOrNone, Told(i, h)'
        PROVE  Told(i, h) \/ (i = j /\ h = g)
    <3>1. MessageFrom(i, h)' = MessageFrom(i, h) /\ ConnectTo(i, h)' = ConnectTo(i, h)
      BY <2>3, EventsTell, RequestsTell
    <3>2. Entry(i, h)' => Entry(i, h) \/ (i = j /\ h = g)
      BY <2>1, <2>4, <2>6 DEF Entry
    <3> QED BY <1>1, <2>5, <3>1, <3>2 DEF Told
  <2> QED BY <2>2, <2>3, <2>5, AgreedKept, PeersAssumption
<1>13. ASSUME NEW j \in Index, RemoveStunPeer(j) PROVE Agreed'
  <2>1. /\ counter' = counter /\ events' = events /\ requests' = requests
        /\ \A i \in Index : peers'[i] = peers[i] \/ peers'[i] = Absent
    BY <1>13 DEF RemoveStunPeer, Without, TypeOK
  <2>2. ASSUME NEW i \in Index, NEW h \in KeyOrNone, Told(i, h)' PROVE Told(i, h)
    <3>1. MessageFrom(i, h)' = MessageFrom(i, h) /\ ConnectTo(i, h)' = ConnectTo(i, h)
      BY <2>1, EventsTell, RequestsTell
    <3>2. Entry(i, h)' => Entry(i, h)
      BY <1>3, <2>1 DEF Entry
    <3> QED BY <1>1, <2>2, <3>1, <3>2 DEF Told
  <2> QED BY <2>1, <2>2, AgreedStays
<1> QED BY <1>5, <1>6, <1>7, <1>8, <1>9, <1>10, <1>11, <1>12, <1>13

\* An index never changes hands: however connections under it are lost, made again
\* and joined with old entries, what is read under it and queued from it is of the
\* node that holds the key of the entry.  A host with two keys may still fail the
\* assertion of handle_handshake_response.
THEOREM IndexSafe == Spec => []IndexKeepsHost
<1>1. Init => KeyInv
  <2> SUFFICES ASSUME Init PROVE KeyInv
    OBVIOUS
  <2>1. /\ TypeOK /\ events = << >> /\ requests = << >> /\ conns = [c \in Conns |-> NoConn]
        /\ counter = Len(PeerConfigs)
    BY TypeInit DEF Init
  <2>2. \A i \in Index : /\ Host(peers[i].key) = NoHost
                         /\ peers[i].static = IF i \in DOMAIN PeerConfigs THEN PeerConfigs[i] ELSE NoHost
    <3> DEFINE static(i) == [Absent EXCEPT !.status = "disconnected", !.static = PeerConfigs[i]]
    <3>1. /\ Absent.static = NoHost /\ Absent.key = NoHost
          /\ \A i \in DOMAIN PeerConfigs : static(i).static = PeerConfigs[i] /\ static(i).key = NoHost
      BY DEF Absent
    <3>3. Host(NoHost) = NoHost
      BY PeersAssumption DEF Host
    <3>2. peers = [i \in Index |-> IF i \in DOMAIN PeerConfigs THEN static(i) ELSE Absent]
      BY DEF Init
    <3> HIDE DEF static
    <3> QED BY <3>1, <3>2, <3>3
  <2>3. \A i \in Index, h \in KeyOrNone : Told(i, h) =>
          h # NoHost /\ h = peers[i].static /\ i \in DOMAIN PeerConfigs
    <3>1. None \notin Index /\ NoConn.index = None
      BY DEF None, Index, NoConn
    <3> QED BY <2>1, <2>2, <3>1 DEF Told, Connection, MessageFrom, ConnectTo, Entry
  <2>4. \A i \in DOMAIN PeerConfigs : i <= Len(PeerConfigs)
    BY PeersAssumption
  <2>5. Agreed
    <3>1. \A i \in DOMAIN PeerConfigs : PeerConfigs[i] \in Hosts
      BY PeersAssumption
    <3> QED BY <2>1, <2>2, <2>3, <2>4, <3>1 DEF Agreed
  <2>6. Unmade
    BY <2>1 DEF Unmade, NoConn
  <2> QED BY <2>1, <2>5, <2>6 DEF KeyInv
<1>2. KeyInv /\ NoticeInv /\ NoticeInv' /\ [Next]_vars => KeyInv'
  <2> SUFFICES ASSUME KeyInv, NoticeInv', [Next]_vars PROVE KeyInv'
    OBVIOUS
  <2>1. TypeOK' /\ Unmade'
    BY DEF NoticeInv
  <2>2. CASE UNCHANGED vars
    BY <2>1, <2>2 DEF vars, collection, KeyInv, Agreed, Told, Connection, MessageFrom,
                      ConnectTo, Entry
  <2>3. CASE Next
    BY <2>1, <2>3, KeyNetwork, KeyRouting DEF Next, KeyInv
  <2> QED BY <2>2, <2>3
<1>3. KeyInv => IndexKeepsHost
  <2> SUFFICES ASSUME KeyInv PROVE IndexKeepsHost
    OBVIOUS
  <2>1. ASSUME NEW i \in Index, NEW h \in KeyOrNone, Told(i, h)
        PROVE  peers[i].key \in {NoHost} \cup {k \in Keys : Holder[k] = h}
    <3>1. peers[i].key \in KeyOrNone
      BY DEF KeyInv, TypeOK, Peer
    <3>2. CASE peers[i].key \in Keys
      <4>1. Holder[peers[i].key] \in KeyOrNone /\ Holder[peers[i].key] # NoHost
        BY <3>2, PeersAssumption DEF KeyOrNone
      <4>2. Told(i, Holder[peers[i].key])
        BY <3>2, <4>1 DEF Told, Entry, Host
      <4> QED BY <2>1, <3>2, <4>1, <4>2 DEF KeyInv, Agreed
    <3> QED BY <3>1, <3>2 DEF KeyOrNone
  <2>2. ASSUME NEW c \in Conns, Reading(c)
        PROVE  peers[conns[c].index].key \in
                 {NoHost} \cup {k \in Keys : Holder[k] = conns[c].host}
    <3>1. conns[c].index \in Index /\ conns[c].host \in KeyOrNone
      BY <2>2 DEF Reading, KeyInv, TypeOK, Conn
    <3>2. Told(conns[c].index, conns[c].host)
      BY DEF Told, Connection
    <3> QED BY <2>1, <3>1, <3>2
  <2>3. ASSUME NEW n \in DOMAIN events, events[n].type = "message"
        PROVE  peers[events[n].index].key \in
                 {NoHost} \cup {k \in Keys : Holder[k] = Holder[events[n].key]}
    <3>1. events[n] \in Event
      BY DEF KeyInv, TypeOK
    <3>2. PICK h \in KeyOrNone : h = Host(events[n].key)
      BY PeersAssumption DEF Host, KeyOrNone
    <3>3. events[n].index \in Index /\ Told(events[n].index, h)
      BY <2>3, <3>1, <3>2 DEF Told, MessageFrom, Event
    <3>4. h \in Hosts
      BY <3>3 DEF KeyInv, Agreed
    <3>5. h = Holder[events[n].key]
      BY <3>2, <3>4, PeersAssumption DEF Host
    <3> QED BY <2>1, <3>3, <3>5
  <2> QED BY <2>2, <2>3 DEF IndexKeepsHost
<1> QED BY <1>1, <1>2, <1>3, NoticeInvariant, PTL DEF Spec

-----------------------------------------------------------------------------
(* A connected peer is not removed.                                         *)

\* What remove_disconnected_peers may remove, connected or not: the peer has no
\* configuration and was away at some time.
Lost(i) == Known(i) /\ peers[i].static = NoHost /\ peers[i].away

\* Events and requests about the peer i; a question is a HandshakeChallenge,
\* and so is a greeting.
New(e, i)       == e.type = "new" /\ e.index = i
Gone(e, i)      == e.type = "gone" /\ e.index = i
Asks(e, i)      == e.type = "message" /\ e.index = i /\ e.msg.signed = None
Renews(e, i)    == New(e, i) \/ Asks(e, i)
Solves(e, i, x) == e.type = "message" /\ e.index = i /\ e.msg.signed = x

Greets(r, i)        == r.type = "send" /\ r.index = i /\ r.msg.signed = None
Clears(r, i)        == Greets(r, i) \/ (r.type = "disconnect" /\ r.index = i)
Answers(r, i, y, x) == r.type = "send" /\ r.index = i /\ r.msg.signed = y /\ r.msg.challenge = x

Unread(c) == \E k \in DOMAIN conns[c].inbox : conns[c].inbox[k].signed = None

\* The question y is in a socket of the peer i and not read yet.
Unasked(i, y) ==
    \E c \in Conns : conns[c].index = i /\ \E k \in DOMAIN conns[c].inbox :
      conns[c].inbox[k].signed = None /\ conns[c].inbox[k].challenge = y

\* The other end of the socket of the peer i waits for an answer to y.
Waits(i, y) ==
    /\ sockets[i] # None
    /\ conns[sockets[i]].theirs = y
    /\ conns[sockets[i]].view \in {"waiting", "verified"}

Cleared(i) == \E m \in DOMAIN requests : Clears(requests[m], i)
Awaited(i) == \E m \in DOMAIN events : New(events[m], i)
Renewed(i) == \E m \in DOMAIN events : Renews(events[m], i)

\* Indices come from the counter.
Counted ==
    /\ \A i \in Index : Known(i) => i <= counter
    /\ \A n \in DOMAIN events : events[n].index <= counter
    /\ \A n \in DOMAIN requests : requests[n].index <= counter
    /\ \A c \in Conns : conns[c].index # None => conns[c].index <= counter

\* A socket is the one of a connection that is read.
Plugged == \A i \in Index : sockets[i] # None => conns[sockets[i]].index = i

\* A lost peer never gets an answer to a question through while its challenge
\* is the one in that answer: before it, the other end hears a greeting, which
\* makes it wait for something else, or the socket is closed.
NoAnswer(i) ==
    Lost(i) => \A y \in Challenges : Waits(i, y) =>
        /\ peers[i].challenge # None =>
             \A n \in DOMAIN requests : Answers(requests[n], i, y, peers[i].challenge) =>
               \E m \in DOMAIN requests : m < n /\ Clears(requests[m], i)
        /\ \A n \in DOMAIN events : Asks(events[n], i) /\ events[n].msg.challenge = y =>
               Cleared(i) \/ \E m \in DOMAIN events : m < n /\ New(events[m], i)
        /\ Unasked(i, y) => Cleared(i) \/ Awaited(i)

\* When the end of a connection is on the way, a question of the socket that is
\* there now comes after the NewPeer of its connection, which comes after that.
AfterLoss(i) ==
    \A y \in Challenges : Waits(i, y) =>
        \A g \in DOMAIN events : Gone(events[g], i) =>
            /\ \A n \in DOMAIN events :
                 Asks(events[n], i) /\ events[n].msg.challenge = y /\ g < n =>
                   \E m \in DOMAIN events : g < m /\ m < n /\ New(events[m], i)
            /\ Unasked(i, y) => \E m \in DOMAIN events : g < m /\ New(events[m], i)

\* The challenge of a lost peer is replaced before its solution arrives: on the
\* same connection, the question of the server was there first.
NoSolution(i) ==
    Lost(i) /\ peers[i].challenge # None =>
        /\ \A n \in DOMAIN events : Solves(events[n], i, peers[i].challenge) =>
             \E m \in DOMAIN events : m < n /\ Renews(events[m], i)
        /\ \A c \in Conns : conns[c].index = i =>
             \A k \in DOMAIN conns[c].inbox : conns[c].inbox[k].signed = peers[i].challenge =>
               \/ Renewed(i)
               \/ \E l \in DOMAIN conns[c].inbox : l < k /\ conns[c].inbox[l].signed = None
        /\ \A n \in DOMAIN requests :
             /\ Greets(requests[n], i)
             /\ requests[n].msg.challenge = peers[i].challenge
             /\ sockets[i] # None
             => Renewed(i) \/ Unread(sockets[i])

\* A dialled connection has a question for us when its NewPeer is on the way.
Questioned(i) ==
    sockets[i] # None /\ conns[sockets[i]].dialled =>
        \A m \in DOMAIN events : New(events[m], i) =>
            Unread(sockets[i]) \/ \E n \in DOMAIN events : m < n /\ Renews(events[n], i)

\* The NewPeer of an incoming connection is the only one, and makes the entry.
Welcomed(i) ==
    sockets[i] # None /\ ~ conns[sockets[i]].dialled =>
        \A m \in DOMAIN events : New(events[m], i) =>
            /\ ~ Known(i)
            /\ \A n \in DOMAIN events : New(events[n], i) => n = m

Unanswered(i) ==
    NoAnswer(i) /\ AfterLoss(i) /\ NoSolution(i) /\ Questioned(i) /\ Welcomed(i)

\* A connected peer is not lost, and an absent one has nothing left of it.
Present ==
    \A i \in Index : /\ peers[i].status = "connected" => ~ Lost(i)
                     /\ ~ Known(i) => ~ peers[i].away

LiveInv ==
    /\ TypeOK /\ Unmade /\ Counted /\ Plugged /\ Present
    /\ \A i \in Index : Unanswered(i)

\* The events after one was reported, or taken.
LEMMA EventsChange ==
    ASSUME TypeOK
    PROVE  /\ events \in Seq(Event) /\ Len(events) \in Nat /\ DOMAIN events = 1 .. Len(events)
           /\ \A e \in Event : events' = Append(events, e) =>
                /\ DOMAIN events' = 1 .. Len(events) + 1
                /\ \A n \in 1 .. Len(events) : events'[n] = events[n]
                /\ events'[Len(events) + 1] = e
           /\ events # << >> /\ events' = Tail(events) =>
                /\ Len(events) >= 1 /\ Head(events) = events[1]
                /\ DOMAIN events' = 1 .. Len(events) - 1
                /\ \A n \in 1 .. Len(events) - 1 : events'[n] = events[n + 1]
<1>1. events \in Seq(Event) /\ Len(events) \in Nat /\ DOMAIN events = 1 .. Len(events)
  BY DEF TypeOK
<1>2. ASSUME NEW e \in Event, events' = Append(events, e)
      PROVE  /\ DOMAIN events' = 1 .. Len(events) + 1
             /\ \A n \in 1 .. Len(events) : events'[n] = events[n]
             /\ events'[Len(events) + 1] = e
  BY <1>1, <1>2
<1>3. ASSUME events # << >>, events' = Tail(events)
      PROVE  /\ Len(events) >= 1 /\ Head(events) = events[1]
             /\ DOMAIN events' = 1 .. Len(events) - 1
             /\ \A n \in 1 .. Len(events) - 1 : events'[n] = events[n + 1]
  BY <1>1, <1>3
<1> QED BY <1>1, <1>2, <1>3

\* The requests after one was taken, or some were made.
LEMMA RequestsChange ==
    ASSUME TypeOK
    PROVE  /\ requests \in Seq(Request) /\ Len(requests) \in Nat
           /\ DOMAIN requests = 1 .. Len(requests)
           /\ requests # << >> /\ requests' = Tail(requests) =>
                /\ Len(requests) >= 1 /\ Head(requests) = requests[1]
                /\ DOMAIN requests' = 1 .. Len(requests) - 1
                /\ \A n \in 1 .. Len(requests) - 1 : requests'[n] = requests[n + 1]
           /\ \A r \in Request : requests' = Append(requests, r) =>
                /\ DOMAIN requests' = 1 .. Len(requests) + 1
                /\ \A n \in 1 .. Len(requests) : requests'[n] = requests[n]
                /\ requests'[Len(requests) + 1] = r
           /\ \A s \in Seq(Request) : requests' = requests \o s =>
                /\ DOMAIN requests' = 1 .. Len(requests) + Len(s)
                /\ \A n \in 1 .. Len(requests) : requests'[n] = requests[n]
                /\ \A n \in Len(requests) + 1 .. Len(requests) + Len(s) :
                     requests'[n] = s[n - Len(requests)]
<1>1. /\ requests \in Seq(Request) /\ Len(requests) \in Nat
      /\ DOMAIN requests = 1 .. Len(requests)
  BY DEF TypeOK
<1>2. ASSUME requests # << >>, requests' = Tail(requests)
      PROVE  /\ Len(requests) >= 1 /\ Head(requests) = requests[1]
             /\ DOMAIN requests' = 1 .. Len(requests) - 1
             /\ \A n \in 1 .. Len(requests) - 1 : requests'[n] = requests[n + 1]
  BY <1>1, <1>2
<1>3. ASSUME NEW r \in Request, requests' = Append(requests, r)
      PROVE  /\ DOMAIN requests' = 1 .. Len(requests) + 1
             /\ \A n \in 1 .. Len(requests) : requests'[n] = requests[n]
             /\ requests'[Len(requests) + 1] = r
  BY <1>1, <1>3
<1>4. ASSUME NEW s \in Seq(Request), requests' = requests \o s
      PROVE  /\ DOMAIN requests' = 1 .. Len(requests) + Len(s)
             /\ \A n \in 1 .. Len(requests) : requests'[n] = requests[n]
             /\ \A n \in Len(requests) + 1 .. Len(requests) + Len(s) :
                  requests'[n] = s[n - Len(requests)]
  <2>1. Len(s) \in Nat /\ DOMAIN s = 1 .. Len(s)
    BY <1>4
  <2>2. /\ DOMAIN requests' = 1 .. Len(requests) + Len(s)
        /\ \A m \in 1 .. Len(requests) + Len(s) :
             requests'[m] = IF m <= Len(requests) THEN requests[m] ELSE s[m - Len(requests)]
    BY <1>1, <1>4, <2>1
  <2> QED BY <1>1, <2>1, <2>2
<1> QED BY <1>1, <1>2, <1>3, <1>4

\* A drawn challenge is in no message and is no peer's.
LEMMA FreshUnused ==
    ASSUME TypeOK, NEW x \in Fresh
    PROVE  /\ x \in Challenges /\ x # None
           /\ \A i \in Index : peers[i].challenge # x
           /\ \A n \in DOMAIN events : events[n].msg.signed # x /\ events[n].msg.challenge # x
           /\ \A n \in DOMAIN requests : requests[n].msg.signed # x /\ requests[n].msg.challenge # x
           /\ \A c \in Conns : \A k \in DOMAIN conns[c].inbox :
                conns[c].inbox[k].signed # x /\ conns[c].inbox[k].challenge # x
<1>1. x \in Challenges /\ x # None /\ x \notin InUse
  BY DEF Fresh, Challenges, None
<1>2. \A i \in Index : peers[i].challenge # x
  BY <1>1 DEF InUse
<1>3. ASSUME NEW s, x \notin Mentioned(s)
      PROVE  \A n \in DOMAIN s : s[n].signed # x /\ s[n].challenge # x
  <2> SUFFICES ASSUME NEW n \in DOMAIN s PROVE s[n].signed # x /\ s[n].challenge # x
    OBVIOUS
  <2>1. {s[n].signed, s[n].challenge} \subseteq Mentioned(s)
    BY Zenon DEF Mentioned
  <2> QED BY <1>3, <2>1
<1>4. \A n \in DOMAIN events : events[n].msg.signed # x /\ events[n].msg.challenge # x
  <2> DEFINE s == [n \in DOMAIN events |-> events[n].msg]
  <2>1. x \notin Mentioned(s)
    BY <1>1 DEF InUse
  <2>2. \A n \in DOMAIN s : s[n].signed # x /\ s[n].challenge # x
    BY <1>3, <2>1
  <2> QED BY <2>2
<1>5. \A n \in DOMAIN requests : requests[n].msg.signed # x /\ requests[n].msg.challenge # x
  <2> DEFINE s == [n \in DOMAIN requests |-> requests[n].msg]
  <2>1. x \notin Mentioned(s)
    BY <1>1 DEF InUse
  <2>2. \A n \in DOMAIN s : s[n].signed # x /\ s[n].challenge # x
    BY <1>3, <2>1
  <2> QED BY <2>2
<1>6. ASSUME NEW c \in Conns
      PROVE  \A k \in DOMAIN conns[c].inbox :
               conns[c].inbox[k].signed # x /\ conns[c].inbox[k].challenge # x
  <2> PICK used : used = {conns[c].theirs} \cup Mentioned(conns[c].inbox)
    OBVIOUS
  <2>1. used \in {{conns[d].theirs} \cup Mentioned(conns[d].inbox) : d \in Conns}
    BY <1>6
  <2>2. used \subseteq InUse
    BY <2>1, Zenon DEF InUse
  <2>3. x \notin Mentioned(conns[c].inbox)
    BY <1>1, <2>2
  <2> QED BY <1>3, <2>3
<1> QED BY <1>1, <1>2, <1>4, <1>5, <1>6

\* A step of the network that is not about the peer i: no event about it, none
\* of its connections, and no request that the other end waits for.
LEMMA NetworkElsewhere ==
    ASSUME LiveInv, NEW i \in Index, peers' = peers, sockets'[i] = sockets[i],
           \A c \in Conns : conns[c].index = i \/ conns'[c].index = i => conns'[c] = conns[c],
           \/ events' = events
           \/ \E e \in Event : events' = Append(events, e) /\ e.index # i,
           \/ requests' = requests
           \/ /\ requests # << >> /\ requests' = Tail(requests)
              /\ ~ Clears(Head(requests), i)
    PROVE  Unanswered(i)'
<1>1. /\ DOMAIN events \subseteq Nat
      /\ \A n \in DOMAIN events : n \in DOMAIN events' /\ events'[n] = events[n]
      /\ \A n \in DOMAIN events' :
           \/ n \in DOMAIN events /\ events'[n] = events[n]
           \/ events'[n].index # i
  BY EventsChange DEF LiveInv
<1>2. PICK d \in {0, 1} :
         /\ DOMAIN requests \subseteq Nat /\ DOMAIN requests' \subseteq Nat
         /\ \A n \in DOMAIN requests' : n + d \in DOMAIN requests /\ requests'[n] = requests[n + d]
         /\ \A m \in DOMAIN requests : Clears(requests[m], i) =>
              m - d \in DOMAIN requests' /\ requests'[m - d] = requests[m]
  <2>1. CASE requests' = requests
    <3>1. /\ DOMAIN requests \subseteq Nat /\ \A n \in DOMAIN requests : n + 0 = n /\ n - 0 = n
      BY RequestsChange DEF LiveInv
    <3> QED BY <2>1, <3>1
  <2>2. CASE requests # << >> /\ requests' = Tail(requests) /\ ~ Clears(Head(requests), i)
    <3>1. /\ DOMAIN requests = 1 .. Len(requests) /\ Len(requests) \in Nat
          /\ requests[1] = Head(requests)
          /\ DOMAIN requests' = 1 .. Len(requests) - 1
          /\ \A n \in 1 .. Len(requests) - 1 : requests'[n] = requests[n + 1]
      BY <2>2, RequestsChange DEF LiveInv
    <3>2. \A n \in DOMAIN requests' : n + 1 \in DOMAIN requests /\ requests'[n] = requests[n + 1]
      BY <3>1
    <3>3. ASSUME NEW m \in DOMAIN requests, Clears(requests[m], i)
          PROVE  m - 1 \in DOMAIN requests' /\ requests'[m - 1] = requests[m]
      <4>1. m # 1
        BY <2>2, <3>1, <3>3
      <4>2. m - 1 \in 1 .. Len(requests) - 1 /\ (m - 1) + 1 = m
        BY <3>1, <4>1
      <4> QED BY <3>1, <4>2
    <3> QED BY <3>1, <3>2, <3>3
  <2> QED BY <2>1, <2>2
<1>3. sockets[i] # None => sockets[i] \in Conns /\ conns'[sockets[i]] = conns[sockets[i]]
  BY DEF LiveInv, TypeOK, Plugged
<1>4. /\ Lost(i)' = Lost(i) /\ Known(i)' = Known(i)
      /\ \A y : Waits(i, y)' = Waits(i, y)
      /\ \A y : Unasked(i, y)' = Unasked(i, y)
      /\ sockets[i] # None => Unread(sockets[i])' = Unread(sockets[i])
  BY <1>3 DEF Lost, Known, Waits, Unasked, Unread
<1>5. Cleared(i) => Cleared(i)'
  BY <1>2 DEF Cleared
<1>6. \A n \in DOMAIN events' : \A x :
        New(events'[n], i) \/ Asks(events'[n], i) \/ Gone(events'[n], i) \/ Renews(events'[n], i)
        \/ Solves(events'[n], i, x) => n \in DOMAIN events /\ events'[n] = events[n]
  BY <1>1 DEF New, Asks, Gone, Renews, Solves
<1>7. (Awaited(i) => Awaited(i)') /\ (Renewed(i) => Renewed(i)')
  BY <1>1 DEF Awaited, Renewed
<1>8. NoAnswer(i) /\ AfterLoss(i) /\ NoSolution(i) /\ Questioned(i) /\ Welcomed(i)
  BY DEF LiveInv, Unanswered
<1>9. NoAnswer(i)'
  <2> SUFFICES ASSUME Lost(i), NEW y \in Challenges, Waits(i, y)
               PROVE  /\ peers[i].challenge # None =>
                           \A n \in DOMAIN requests' :
                             Answers(requests'[n], i, y, peers[i].challenge) =>
                               \E m \in DOMAIN requests' : m < n /\ Clears(requests'[m], i)
                      /\ \A n \in DOMAIN events' : Asks(events'[n], i) /\ events'[n].msg.challenge = y =>
                           Cleared(i)' \/ \E m \in DOMAIN events' : m < n /\ New(events'[m], i)
                      /\ Unasked(i, y) => Cleared(i)' \/ Awaited(i)'
    BY <1>4 DEF NoAnswer
  <2>1. ASSUME peers[i].challenge # None, NEW n \in DOMAIN requests',
               Answers(requests'[n], i, y, peers[i].challenge)
        PROVE  \E m \in DOMAIN requests' : m < n /\ Clears(requests'[m], i)
    <3>1. PICK m \in DOMAIN requests : m < n + d /\ Clears(requests[m], i)
      BY <1>2, <1>8, <2>1 DEF NoAnswer
    <3>2. m - d < n
      BY <1>2, <3>1
    <3> QED BY <1>2, <3>1, <3>2
  <2>2. ASSUME NEW n \in DOMAIN events', Asks(events'[n], i), events'[n].msg.challenge = y
        PROVE  Cleared(i)' \/ \E m \in DOMAIN events' : m < n /\ New(events'[m], i)
    BY <1>1, <1>5, <1>6, <1>8, <2>2 DEF NoAnswer
  <2>3. Unasked(i, y) => Cleared(i)' \/ Awaited(i)'
    BY <1>5, <1>7, <1>8 DEF NoAnswer
  <2> QED BY <2>1, <2>2, <2>3
<1>10. AfterLoss(i)'
  BY SMTT(40), <1>1, <1>4, <1>6, <1>8 DEF AfterLoss
<1>11. NoSolution(i)'
  <2> SUFFICES ASSUME Lost(i), peers[i].challenge # None
               PROVE  /\ \A n \in DOMAIN events' : Solves(events'[n], i, peers[i].challenge) =>
                           \E m \in DOMAIN events' : m < n /\ Renews(events'[m], i)
                      /\ \A c \in Conns : conns'[c].index = i => \A k \in DOMAIN conns'[c].inbox :
                           conns'[c].inbox[k].signed = peers[i].challenge =>
                             \/ Renewed(i)'
                             \/ \E l \in DOMAIN conns'[c].inbox : l < k /\ conns'[c].inbox[l].signed = None
                      /\ \A n \in DOMAIN requests' :
                           /\ Greets(requests'[n], i)
                           /\ requests'[n].msg.challenge = peers[i].challenge
                           /\ sockets[i] # None
                           => Renewed(i)' \/ Unread(sockets[i])'
    BY <1>4, Zenon DEF NoSolution
  <2>1. \A n \in DOMAIN events' : Solves(events'[n], i, peers[i].challenge) =>
          \E m \in DOMAIN events' : m < n /\ Renews(events'[m], i)
    BY <1>1, <1>6, <1>8 DEF NoSolution
  <2>2. ASSUME NEW c \in Conns, conns'[c].index = i
        PROVE  \A k \in DOMAIN conns'[c].inbox : conns'[c].inbox[k].signed = peers[i].challenge =>
                 \/ Renewed(i)'
                 \/ \E l \in DOMAIN conns'[c].inbox : l < k /\ conns'[c].inbox[l].signed = None
    BY <1>7, <1>8, <2>2 DEF NoSolution
  <2>3. \A n \in DOMAIN requests' :
          /\ Greets(requests'[n], i)
          /\ requests'[n].msg.challenge = peers[i].challenge
          /\ sockets[i] # None
          => Renewed(i)' \/ Unread(sockets[i])'
    BY <1>2, <1>4, <1>7, <1>8 DEF NoSolution
  <2> QED BY <2>1, <2>2, <2>3
<1>12. Questioned(i)'
  BY <1>1, <1>3, <1>4, <1>6, <1>8, SMTT(30) DEF Questioned
<1>13. Welcomed(i)'
  BY <1>3, <1>4, <1>6, <1>8 DEF Welcomed
<1> QED BY <1>9, <1>10, <1>11, <1>12, <1>13 DEF Unanswered

\* The events after one that is no NewPeer, no question and no solution of the
\* peer i.
LEMMA EventElsewhere ==
    ASSUME TypeOK, NEW i \in Index,
           \/ events' = events
           \/ \E e \in Event : events' = Append(events, e) /\ e.type = "gone"
    PROVE  /\ Awaited(i) => Awaited(i)'
           /\ Renewed(i) => Renewed(i)'
           /\ \A x : (\A n \in DOMAIN events : Solves(events[n], i, x) =>
                         \E m \in DOMAIN events : m < n /\ Renews(events[m], i))
                  => \A n \in DOMAIN events' : Solves(events'[n], i, x) =>
                         \E m \in DOMAIN events' : m < n /\ Renews(events'[m], i)
<1>1. /\ \A n \in DOMAIN events : n \in DOMAIN events' /\ events'[n] = events[n]
      /\ \A n \in DOMAIN events' :
           \/ n \in DOMAIN events /\ events'[n] = events[n]
           \/ events'[n].type = "gone"
  BY EventsChange
<1>2. \A n \in DOMAIN events' : \A x : Solves(events'[n], i, x) =>
        n \in DOMAIN events /\ events'[n] = events[n]
  BY <1>1 DEF Solves
<1>3. (Awaited(i) => Awaited(i)') /\ (Renewed(i) => Renewed(i)')
  BY <1>1 DEF Awaited, Renewed
<1>4. ASSUME NEW x,
             \A n \in DOMAIN events : Solves(events[n], i, x) =>
               \E m \in DOMAIN events : m < n /\ Renews(events[m], i),
             NEW n \in DOMAIN events', Solves(events'[n], i, x)
      PROVE  \E m \in DOMAIN events' : m < n /\ Renews(events'[m], i)
  BY <1>1, <1>2, <1>4
<1> QED BY <1>3, <1>4

\* The peer i has no socket after the step, which at most reports a loss and
\* ends connections.
LEMMA SocketClosed ==
    ASSUME LiveInv, NEW i \in Index, peers' = peers, sockets'[i] = None,
           \A c \in Conns : conns'[c].index = i => conns'[c] = conns[c],
           \/ events' = events
           \/ \E e \in Event : events' = Append(events, e) /\ e.type = "gone"
    PROVE  Unanswered(i)'
<1>1. NoAnswer(i)' /\ AfterLoss(i)' /\ Questioned(i)' /\ Welcomed(i)'
  BY DEF NoAnswer, AfterLoss, Questioned, Welcomed, Waits
<1>2. NoSolution(i)'
  <2> SUFFICES ASSUME Lost(i), peers[i].challenge # None
               PROVE  /\ \A n \in DOMAIN events' : Solves(events'[n], i, peers[i].challenge) =>
                           \E m \in DOMAIN events' : m < n /\ Renews(events'[m], i)
                      /\ \A c \in Conns : conns'[c].index = i => \A k \in DOMAIN conns'[c].inbox :
                           conns'[c].inbox[k].signed = peers[i].challenge =>
                             \/ Renewed(i)'
                             \/ \E l \in DOMAIN conns'[c].inbox : l < k /\ conns'[c].inbox[l].signed = None
    BY DEF NoSolution, Lost, Known
  <2>1. NoSolution(i) /\ TypeOK
    BY DEF LiveInv, Unanswered
  <2>2. \A n \in DOMAIN events' : Solves(events'[n], i, peers[i].challenge) =>
          \E m \in DOMAIN events' : m < n /\ Renews(events'[m], i)
    BY <2>1, EventElsewhere DEF NoSolution
  <2>3. \A c \in Conns : conns'[c].index = i => \A k \in DOMAIN conns'[c].inbox :
          conns'[c].inbox[k].signed = peers[i].challenge =>
            \/ Renewed(i)'
            \/ \E l \in DOMAIN conns'[c].inbox : l < k /\ conns'[c].inbox[l].signed = None
    BY <2>1, EventElsewhere DEF NoSolution
  <2> QED BY <2>2, <2>3
<1> QED BY <1>1, <1>2 DEF Unanswered

\* The events after the NewPeer of a new connection.
LEMMA NewPeerReported ==
    ASSUME TypeOK, NEW i \in Index, NEW h, NEW d, NEW x, NEW in, NewConnection(i, h, d, x, in)
    PROVE  \E e \in Event :
             /\ events' = Append(events, e) /\ New(e, i)
             /\ \A j : ~ Asks(e, j) /\ ~ Gone(e, j) /\ \A y : ~ Solves(e, j, y)
<1> DEFINE e == [type |-> "new", index |-> i, key |-> NoHost, msg |-> NoMessage]
<1>1. e \in Event /\ e.type = "new" /\ e.index = i
  BY DEF Event, KeyOrNone, NoMessage, Message
<1>2. events' = Append(events, e)
  BY DEF NewConnection, Report
<1> HIDE DEF e
<1>3. New(e, i) /\ \A j : ~ Asks(e, j) /\ ~ Gone(e, j) /\ \A y : ~ Solves(e, j, y)
  BY <1>1 DEF New, Asks, Gone, Solves
<1> QED BY <1>1, <1>2, <1>3

\* A connection is made to the peer i: the server has its question in the
\* socket, and nobody knows an answer to it.
LEMMA Dialled ==
    ASSUME LiveInv, NEW i \in Index, NEW h, NEW x \in Fresh, peers' = peers,
           NewConnection(i, h, TRUE, x, <<[signed |-> None, challenge |-> x]>>),
           \A n \in DOMAIN requests' : \E m \in DOMAIN requests : requests'[n] = requests[m]
    PROVE  Unanswered(i)'
<1>1. PICK e \in Event :
         /\ events' = Append(events, e) /\ New(e, i)
         /\ \A j : ~ Asks(e, j) /\ ~ Gone(e, j) /\ \A y : ~ Solves(e, j, y)
  BY NewPeerReported DEF LiveInv
<1>2. PICK last : last = Len(events) + 1
  OBVIOUS
<1>3. /\ last \in Nat /\ last \in DOMAIN events' /\ events'[last] = e
      /\ \A n \in DOMAIN events : n \in Nat /\ n < last /\ n \in DOMAIN events' /\ events'[n] = events[n]
      /\ \A n \in DOMAIN events' : n = last \/ n \in DOMAIN events
  <2>1. /\ Len(events) \in Nat /\ DOMAIN events = 1 .. Len(events)
        /\ DOMAIN events' = 1 .. Len(events) + 1
        /\ \A n \in 1 .. Len(events) : events'[n] = events[n]
        /\ events'[Len(events) + 1] = e
    BY <1>1, EventsChange DEF LiveInv
  <2> QED BY <1>2, <2>1
<1>4. \A n \in DOMAIN events' : \A y :
        Asks(events'[n], i) \/ Gone(events'[n], i) \/ Solves(events'[n], i, y) =>
          n \in DOMAIN events /\ events'[n] = events[n]
  BY <1>1, <1>3
<1>5. Awaited(i)' /\ Renewed(i)'
  BY <1>1, <1>3 DEF Awaited, Renewed, Renews
<1>6. PICK c \in Conns : c = made + 1
  BY PeersAssumption DEF LiveInv, TypeOK, NewConnection, Conns
<1>7. /\ sockets'[i] = c
      /\ conns'[c].theirs = x /\ conns'[c].dialled /\ conns'[c].inbox = <<[signed |-> None, challenge |-> x]>>
      /\ \A b \in Conns \ {c} : conns'[b] = conns[b]
  BY <1>6 DEF LiveInv, TypeOK, NewConnection
<1>8. DOMAIN conns'[c].inbox = {1} /\ conns'[c].inbox[1].signed = None
  BY <1>7
<1>9. Unread(sockets[i])'
  BY <1>7, <1>8 DEF Unread
<1>10. \A y \in Challenges : Waits(i, y)' => y = x
  BY <1>7 DEF Waits
<1>11. /\ NoSolution(i)
       /\ \A n \in DOMAIN events : events[n].msg.challenge # x
       /\ \A n \in DOMAIN requests : requests[n].msg.signed # x
  BY FreshUnused DEF LiveInv, Unanswered
<1>12. NoAnswer(i)'
  <2>1. \A n \in DOMAIN requests' : \A z : ~ Answers(requests'[n], i, x, z)
    BY <1>11 DEF Answers
  <2>2. \A n \in DOMAIN events' : Asks(events'[n], i) => events'[n].msg.challenge # x
    BY <1>4, <1>11
  <2> QED BY <1>5, <1>10, <2>1, <2>2 DEF NoAnswer
<1>13. AfterLoss(i)'
  <2>1. \A n \in DOMAIN events' : Asks(events'[n], i) => events'[n].msg.challenge # x
    BY <1>4, <1>11
  <2>2. \A g \in DOMAIN events' : Gone(events'[g], i) =>
          \E m \in DOMAIN events' : g < m /\ New(events'[m], i)
    BY <1>1, <1>3, <1>4
  <2> QED BY <1>10, <2>1, <2>2 DEF AfterLoss
<1>14. NoSolution(i)'
  <2> SUFFICES ASSUME Lost(i), peers[i].challenge # None
               PROVE  \A n \in DOMAIN events' : Solves(events'[n], i, peers[i].challenge) =>
                        \E m \in DOMAIN events' : m < n /\ Renews(events'[m], i)
    BY <1>5 DEF NoSolution, Lost, Known
  <2>1. \A n \in DOMAIN events : Solves(events[n], i, peers[i].challenge) =>
          \E m \in DOMAIN events : m < n /\ Renews(events[m], i)
    BY <1>11 DEF NoSolution
  <2>2. ASSUME NEW n \in DOMAIN events', Solves(events'[n], i, peers[i].challenge)
        PROVE  \E m \in DOMAIN events' : m < n /\ Renews(events'[m], i)
    <3>1. n \in DOMAIN events /\ events'[n] = events[n]
      BY <1>4, <2>2
    <3>2. PICK m \in DOMAIN events : m < n /\ Renews(events[m], i)
      BY <2>1, <2>2, <3>1
    <3> QED BY <1>3, <3>2
  <2> QED BY <2>2
<1>15. Questioned(i)' /\ Welcomed(i)'
  BY <1>7, <1>9 DEF Questioned, Welcomed
<1> QED BY <1>12, <1>13, <1>14, <1>15 DEF Unanswered

\* A connection comes in: its index is new.
LEMMA CameIn ==
    ASSUME LiveInv, NEW i \in Index, NEW h, i = counter + 1, peers' = peers,
           NewConnection(i, h, FALSE, None, << >>)
    PROVE  Unanswered(i)'
<1>1. PICK e \in Event : events' = Append(events, e) /\ New(e, i)
  BY NewPeerReported DEF LiveInv
<1>2. counter \in Nat /\ ~ i <= counter
  BY PeersAssumption DEF LiveInv, TypeOK
<1>3. ~ Known(i) /\ \A n \in DOMAIN events : events[n].index # i
  BY <1>2 DEF LiveInv, Counted
<1>4. ~ Known(i)' /\ ~ Lost(i)'
  BY <1>3 DEF Known, Lost
<1>5. PICK c \in Conns : c = made + 1
  BY PeersAssumption DEF LiveInv, TypeOK, NewConnection, Conns
<1>6. sockets'[i] = c /\ conns'[c].theirs = None /\ ~ conns'[c].dialled
  BY <1>5 DEF LiveInv, TypeOK, NewConnection
<1>7. NoAnswer(i)' /\ NoSolution(i)' /\ Questioned(i)'
  BY <1>4, <1>6 DEF NoAnswer, NoSolution, Questioned
<1>8. AfterLoss(i)'
  BY <1>6 DEF AfterLoss, Waits, Challenges, None
<1>9. \A n \in DOMAIN events' : New(events'[n], i) => n = Len(events) + 1
  <2>1. /\ Len(events) \in Nat /\ DOMAIN events = 1 .. Len(events)
        /\ DOMAIN events' = 1 .. Len(events) + 1
        /\ \A n \in 1 .. Len(events) : events'[n] = events[n]
    BY <1>1, EventsChange DEF LiveInv
  <2> QED BY <1>3, <2>1 DEF New
<1>10. Welcomed(i)'
  BY <1>4, <1>9 DEF Welcomed
<1> QED BY <1>7, <1>8, <1>10 DEF Unanswered

\* What a message of ours does at the other end: it may make it wait for
\* something new, and it sends no question back.
LEMMA HearsChange ==
    ASSUME TypeOK, NEW c \in Conns, NEW msg \in Message, RemoteHears(c, msg)
    PROVE  /\ \A d \in Conns \ {c} : conns'[d] = conns[d]
           /\ conns'[c].index = conns[c].index /\ conns'[c].dialled = conns[c].dialled
           /\ \/ conns' = conns /\ conns[c].view \in {"refused", "dropped"}
              \/ conns'[c].theirs \in Fresh \cup {None}
           /\ \/ conns'[c].inbox = conns[c].inbox
              \/ /\ msg.signed # None => /\ msg.signed = conns[c].theirs
                                         /\ conns[c].view \in {"waiting", "verified"}
                 /\ \E m \in Message : /\ conns'[c].inbox = Append(conns[c].inbox, m)
                                       /\ m.signed = Signed(msg.challenge)
<1>1. conns \in [Conns -> Conn] /\ conns[c] \in Conn /\ msg.challenge \in Challenges \cup {None}
  BY DEF TypeOK, Message
<1>2. \A x \in Challenges \cup {None} :
        [signed |-> Signed(msg.challenge), challenge |-> x] \in Message
  BY <1>1, SignedType DEF Message
<1>3. CASE conns[c].view \in {"refused", "dropped"} /\ conns' = conns
  BY <1>3
<1>4. CASE /\ conns[c].view \in {"waiting", "verified"} /\ msg.signed = None
           /\ \E x \in Fresh :
                conns' = [conns EXCEPT ![c].theirs = x,
                  ![c].inbox = Append(@, [signed |-> Signed(msg.challenge), challenge |-> x])]
  <2>1. PICK x \in Fresh :
           conns' = [conns EXCEPT ![c].theirs = x,
             ![c].inbox = Append(@, [signed |-> Signed(msg.challenge), challenge |-> x])]
    BY <1>4
  <2>2. PICK m \in Message : m = [signed |-> Signed(msg.challenge), challenge |-> x]
    BY <1>2, FreshType
  <2>3. /\ conns' = [conns EXCEPT ![c].theirs = x, ![c].inbox = Append(@, m)]
        /\ m.signed = Signed(msg.challenge)
    BY <2>1, <2>2
  <2>4. /\ \A d \in Conns \ {c} : conns'[d] = conns[d]
        /\ conns'[c].index = conns[c].index /\ conns'[c].dialled = conns[c].dialled
        /\ conns'[c].theirs = x /\ conns'[c].inbox = Append(conns[c].inbox, m)
    BY <1>1, <2>3 DEF Conn
  <2> QED BY <1>4, <2>3, <2>4
<1>5. CASE /\ conns[c].view \in {"waiting", "verified"} /\ msg.signed = conns[c].theirs
           /\ conns' = [conns EXCEPT ![c].theirs = None, ![c].view = "verified",
                ![c].inbox = IF conns[c].dialled
                               THEN Append(@, [signed |-> Signed(msg.challenge), challenge |-> None])
                               ELSE @]
  <2>1. PICK m \in Message : m = [signed |-> Signed(msg.challenge), challenge |-> None]
    BY <1>2
  <2>2. /\ conns' = [conns EXCEPT ![c].theirs = None, ![c].view = "verified",
                       ![c].inbox = IF conns[c].dialled THEN Append(@, m) ELSE @]
        /\ m.signed = Signed(msg.challenge)
    BY <1>5, <2>1
  <2>3. /\ \A d \in Conns \ {c} : conns'[d] = conns[d]
        /\ conns'[c].index = conns[c].index /\ conns'[c].dialled = conns[c].dialled
        /\ conns'[c].theirs = None
        /\ conns'[c].inbox \in {conns[c].inbox, Append(conns[c].inbox, m)}
    BY <1>1, <2>2 DEF Conn
  <2> QED BY <1>5, <2>2, <2>3
<1>6. CASE conns' = [conns EXCEPT ![c].theirs = None,
                       ![c].view = IF @ = "verified" THEN "dropped" ELSE "refused"]
  BY <1>1, <1>6 DEF Conn
<1> QED BY <1>3, <1>4, <1>5, <1>6 DEF RemoteHears

\* The other end of the socket of the peer i hears a message.
LEMMA Spoken ==
    ASSUME LiveInv, NEW i \in Index, NEW msg \in Message, peers' = peers, events' = events,
           sockets' = sockets, sockets[i] # None, RemoteHears(sockets[i], msg),
           requests # << >>, requests' = Tail(requests),
           Head(requests).type = "send", Head(requests).index = i, Head(requests).msg = msg
    PROVE  Unanswered(i)'
<1>1. PICK c \in Conns : c = sockets[i]
  BY DEF LiveInv, TypeOK
<1>2. /\ TypeOK /\ conns[c] \in Conn /\ conns[c].index = i
      /\ conns[c].inbox \in Seq(Message) /\ Len(conns[c].inbox) \in Nat
      /\ DOMAIN conns[c].inbox = 1 .. Len(conns[c].inbox)
      /\ conns[c].theirs \in Challenges \cup {None}
      /\ conns[c].view \in {"waiting", "verified", "refused", "dropped"}
  BY <1>1 DEF LiveInv, Plugged, TypeOK, Conn
<1>3. /\ \A d \in Conns \ {c} : conns'[d] = conns[d]
      /\ conns'[c].index = i /\ conns'[c].dialled = conns[c].dialled
      /\ \/ conns' = conns /\ conns[c].view \in {"refused", "dropped"}
         \/ conns'[c].theirs \in Fresh \cup {None}
      /\ \/ conns'[c].inbox = conns[c].inbox
         \/ /\ msg.signed # None => /\ msg.signed = conns[c].theirs
                                    /\ conns[c].view \in {"waiting", "verified"}
            /\ \E m \in Message : /\ conns'[c].inbox = Append(conns[c].inbox, m)
                                  /\ m.signed = Signed(msg.challenge)
  BY <1>1, <1>2, HearsChange
<1>4. /\ DOMAIN requests = 1 .. Len(requests) /\ Len(requests) \in Nat /\ Len(requests) >= 1
      /\ requests[1].type = "send" /\ requests[1].index = i /\ requests[1].msg = msg
      /\ \A n \in DOMAIN requests' : \E k \in DOMAIN requests : requests'[n] = requests[k]
  <2>1. /\ DOMAIN requests = 1 .. Len(requests) /\ Len(requests) \in Nat /\ Len(requests) >= 1
        /\ requests[1] = Head(requests)
        /\ DOMAIN requests' = 1 .. Len(requests) - 1
        /\ \A n \in 1 .. Len(requests) - 1 : requests'[n] = requests[n + 1]
    BY RequestsChange DEF LiveInv
  <2>2. \A n \in DOMAIN requests' : n + 1 \in DOMAIN requests
    BY <2>1
  <2> QED BY <2>1, <2>2
<1>5. msg.challenge \in Challenges \cup {None} /\ Signed(msg.challenge) # None
  BY SignedType DEF Message
<1>6. \A d \in Conns : \A k \in DOMAIN conns[d].inbox :
        k \in DOMAIN conns'[d].inbox /\ conns'[d].inbox[k] = conns[d].inbox[k]
  <2>1. \A m \in Message : \A k \in DOMAIN conns[c].inbox :
          /\ k \in DOMAIN Append(conns[c].inbox, m)
          /\ Append(conns[c].inbox, m)[k] = conns[c].inbox[k]
    BY <1>2
  <2>2. \A k \in DOMAIN conns[c].inbox :
          k \in DOMAIN conns'[c].inbox /\ conns'[c].inbox[k] = conns[c].inbox[k]
    BY <1>3, <2>1
  <2> QED BY <1>3, <2>2
<1>7. \A d \in Conns : \A k \in DOMAIN conns'[d].inbox :
        \/ k \in DOMAIN conns[d].inbox
        \/ /\ d = c /\ k = Len(conns[c].inbox) + 1
           /\ conns'[d].inbox[k].signed = Signed(msg.challenge)
           /\ msg.signed # None => /\ msg.signed = conns[c].theirs
                                   /\ conns[c].view \in {"waiting", "verified"}
  BY <1>2, <1>3
<1>8. \A d \in Conns : conns'[d].index = conns[d].index
  BY <1>2, <1>3
<1>9. /\ Lost(i)' = Lost(i) /\ Known(i)' = Known(i)
      /\ (Awaited(i)' = Awaited(i)) /\ (Renewed(i)' = Renewed(i))
      /\ Unread(c) => Unread(c)'
  BY <1>6 DEF Lost, Known, Awaited, Renewed, Unread
<1>10. \A y : Unasked(i, y)' => Unasked(i, y)
  <2> SUFFICES ASSUME NEW y, NEW d \in Conns, conns'[d].index = i,
                      NEW k \in DOMAIN conns'[d].inbox,
                      conns'[d].inbox[k].signed = None, conns'[d].inbox[k].challenge = y
               PROVE  Unasked(i, y)
    BY DEF Unasked
  <2>1. k \in DOMAIN conns[d].inbox
    BY <1>5, <1>7
  <2> QED BY <1>6, <1>8, <2>1 DEF Unasked
<1>11. \A y \in Challenges : Waits(i, y)' => y \in Fresh
  BY <1>1, <1>3 DEF Waits, Challenges, None
<1>12. /\ NoAnswer(i) /\ AfterLoss(i) /\ NoSolution(i) /\ Questioned(i) /\ Welcomed(i)
  BY DEF LiveInv, Unanswered
<1>13. \A y \in Fresh : /\ ~ Unasked(i, y)
                        /\ \A n \in DOMAIN events : events[n].msg.challenge # y
                        /\ \A n \in DOMAIN requests : requests[n].msg.signed # y
  BY <1>2, FreshUnused DEF Unasked
<1>14. NoAnswer(i)'
  <2>1. \A y \in Fresh : \A n \in DOMAIN requests' : \A x : ~ Answers(requests'[n], i, y, x)
    BY <1>4, <1>13 DEF Answers
  <2> QED BY <1>10, <1>11, <1>13, <2>1 DEF NoAnswer
<1>15. AfterLoss(i)'
  BY <1>10, <1>11, <1>13 DEF AfterLoss
<1>16. NoSolution(i)'
  <2> SUFFICES ASSUME Lost(i), peers[i].challenge # None
               PROVE  /\ \A n \in DOMAIN events : Solves(events[n], i, peers[i].challenge) =>
                           \E m \in DOMAIN events : m < n /\ Renews(events[m], i)
                      /\ \A d \in Conns : conns'[d].index = i => \A k \in DOMAIN conns'[d].inbox :
                           conns'[d].inbox[k].signed = peers[i].challenge =>
                             \/ Renewed(i)
                             \/ \E l \in DOMAIN conns'[d].inbox : l < k /\ conns'[d].inbox[l].signed = None
                      /\ \A n \in DOMAIN requests' :
                           /\ Greets(requests'[n], i)
                           /\ requests'[n].msg.challenge = peers[i].challenge
                           /\ sockets[i] # None
                           => Renewed(i) \/ Unread(c)'
    BY <1>1, <1>9, Zenon DEF NoSolution
  <2>1. peers[i].challenge \in Challenges
    BY DEF LiveInv, TypeOK, Peer
  <2>2. \A n \in DOMAIN events : Solves(events[n], i, peers[i].challenge) =>
          \E m \in DOMAIN events : m < n /\ Renews(events[m], i)
    BY <1>12 DEF NoSolution
  <2>3. ASSUME NEW d \in Conns, conns'[d].index = i, NEW k \in DOMAIN conns'[d].inbox,
               conns'[d].inbox[k].signed = peers[i].challenge, ~ Renewed(i)
        PROVE  \E l \in DOMAIN conns'[d].inbox : l < k /\ conns'[d].inbox[l].signed = None
    <3>1. CASE k \in DOMAIN conns[d].inbox
      <4>1. PICK l \in DOMAIN conns[d].inbox : l < k /\ conns[d].inbox[l].signed = None
        BY <1>6, <1>8, <1>12, <2>3, <3>1 DEF NoSolution
      <4> QED BY <1>6, <4>1
    <3>2. CASE k \notin DOMAIN conns[d].inbox
      <4>1. /\ d = c /\ k = Len(conns[c].inbox) + 1
            /\ Signed(msg.challenge) = peers[i].challenge
            /\ msg.signed # None => /\ msg.signed = conns[c].theirs
                                    /\ conns[c].view \in {"waiting", "verified"}
        BY <1>7, <2>3, <3>2
      <4>2. msg.challenge = peers[i].challenge
        BY <1>5, <2>1, <4>1, PeersAssumption DEF Signed, Zeros, Challenges
      <4>3. 1 \in DOMAIN requests
        BY <1>4
      <4>4. msg.signed = None
        <5> SUFFICES ASSUME msg.signed # None PROVE FALSE
          OBVIOUS
        <5>1. msg.signed \in Challenges /\ Waits(i, msg.signed)
          BY <1>1, <1>2, <4>1 DEF Waits
        <5>2. Answers(requests[1], i, msg.signed, peers[i].challenge)
          BY <1>4, <4>2 DEF Answers
        <5>3. \E m \in DOMAIN requests : m < 1 /\ Clears(requests[m], i)
          BY <1>12, <4>3, <5>1, <5>2 DEF NoAnswer
        <5> QED BY <1>4, <5>3
      <4>5. Greets(requests[1], i) /\ requests[1].msg.challenge = peers[i].challenge
        BY <1>4, <4>2, <4>4 DEF Greets
      <4>6. Unread(c)
        BY <1>1, <1>12, <2>3, <4>3, <4>5 DEF NoSolution
      <4>7. PICK l \in DOMAIN conns[c].inbox : conns[c].inbox[l].signed = None
        BY <4>6 DEF Unread
      <4>8. l < k
        BY <1>2, <4>1
      <4> QED BY <1>6, <4>1, <4>7, <4>8
    <3> QED BY <3>1, <3>2
  <2>4. \A n \in DOMAIN requests' :
          /\ Greets(requests'[n], i)
          /\ requests'[n].msg.challenge = peers[i].challenge
          /\ sockets[i] # None
          => Renewed(i) \/ Unread(c)'
    BY <1>1, <1>4, <1>9, <1>12 DEF NoSolution
  <2> QED BY <2>2, <2>3, <2>4
<1>17. Questioned(i)'
  <2>1. sockets'[i] = c /\ conns'[c].dialled = conns[c].dialled
    BY <1>1, <1>3
  <2> QED BY <1>1, <1>9, <1>12, <2>1 DEF Questioned
<1>18. Welcomed(i)'
  <2>1. sockets'[i] = c /\ conns'[c].dialled = conns[c].dialled
    BY <1>1, <1>3
  <2> QED BY <1>1, <1>9, <1>12, <2>1 DEF Welcomed
<1> QED BY <1>14, <1>15, <1>16, <1>17, <1>18 DEF Unanswered

\* The reader of a connection of the peer i takes a message out of the socket.
LEMMA MessageRead ==
    ASSUME LiveInv, NEW c \in Conns, NEW i \in Index, ReadMessage(c), conns[c].index = i
    PROVE  Unanswered(i)'
<1>1. PICK s \in Seq(Message) : s = conns[c].inbox
  BY DEF LiveInv, TypeOK, Conn
<1>2. /\ TypeOK /\ conns[c] \in Conn /\ s # << >> /\ Len(s) \in Nat /\ DOMAIN s = 1 .. Len(s)
      /\ Len(s) >= 1 /\ Head(s) = s[1] /\ Head(s) \in Message
      /\ DOMAIN Tail(s) = 1 .. Len(s) - 1
      /\ \A k \in 1 .. Len(s) - 1 : Tail(s)[k] = s[k + 1]
  BY <1>1 DEF LiveInv, TypeOK, ReadMessage
<1>3. PICK e \in Event : /\ events' = Append(events, e)
                         /\ e.type = "message" /\ e.index = i /\ e.msg = s[1]
  <2>1. PICK key \in Keys :
          /\ [type |-> "message", index |-> i, key |-> key, msg |-> Head(s)] \in Event
          /\ events' = Append(events, [type |-> "message", index |-> i, key |-> key,
                                       msg |-> Head(s)])
    BY <1>1, <1>2, ReadReports
  <2> QED BY <1>2, <2>1
<1>4. /\ peers' = peers /\ requests' = requests /\ sockets' = sockets
      /\ \A d \in Conns \ {c} : conns'[d] = conns[d]
      /\ conns'[c].index = i /\ conns'[c].inbox = Tail(s)
      /\ conns'[c].theirs = conns[c].theirs /\ conns'[c].view = conns[c].view
      /\ conns'[c].dialled = conns[c].dialled
  BY <1>1, <1>2 DEF ReadMessage, collection, TypeOK, Conn
<1>5. PICK last : last = Len(events) + 1
  OBVIOUS
<1>6. /\ last \in Nat /\ last \in DOMAIN events' /\ events'[last] = e
      /\ \A n \in DOMAIN events : n \in Nat /\ n < last /\ n \in DOMAIN events' /\ events'[n] = events[n]
      /\ \A n \in DOMAIN events' : n = last \/ n \in DOMAIN events
  <2>1. /\ Len(events) \in Nat /\ DOMAIN events = 1 .. Len(events)
        /\ DOMAIN events' = 1 .. Len(events) + 1
        /\ \A n \in 1 .. Len(events) : events'[n] = events[n]
        /\ events'[Len(events) + 1] = e
    BY <1>2, <1>3, EventsChange
  <2> QED BY <1>5, <2>1
<1>7. /\ \A j : ~ New(e, j) /\ ~ Gone(e, j)
      /\ Asks(e, i) <=> s[1].signed = None
      /\ \A x : Solves(e, i, x) <=> s[1].signed = x
  BY <1>3 DEF New, Gone, Asks, Solves
<1>8. \A n \in DOMAIN events' : New(events'[n], i) \/ Gone(events'[n], i) =>
        n \in DOMAIN events /\ events'[n] = events[n]
  BY <1>6, <1>7
<1>9. /\ Lost(i)' = Lost(i) /\ Known(i)' = Known(i) /\ Cleared(i)' = Cleared(i)
      /\ \A y : Waits(i, y)' => Waits(i, y)
      /\ Awaited(i) => Awaited(i)'
      /\ Renewed(i) \/ s[1].signed = None => Renewed(i)'
  <2>1. Lost(i)' = Lost(i) /\ Known(i)' = Known(i) /\ Cleared(i)' = Cleared(i)
    BY <1>4 DEF Lost, Known, Cleared
  <2>2. \A y : Waits(i, y)' => Waits(i, y)
    <3>1. sockets[i] # None => sockets[i] \in Conns
      BY <1>2 DEF TypeOK
    <3> QED BY <1>4, <3>1 DEF Waits
  <2>3. Awaited(i) => Awaited(i)'
    BY <1>6 DEF Awaited
  <2>4. Renewed(i) \/ s[1].signed = None => Renewed(i)'
    BY <1>6, <1>7 DEF Renewed, Renews
  <2> QED BY <2>1, <2>2, <2>3, <2>4
<1>10. \A d \in Conns : d # c => conns'[d] = conns[d]
  BY <1>4
<1>11. \A y : Unasked(i, y)' => Unasked(i, y)
  <2> SUFFICES ASSUME NEW y, NEW d \in Conns, conns'[d].index = i,
                      NEW k \in DOMAIN conns'[d].inbox,
                      conns'[d].inbox[k].signed = None, conns'[d].inbox[k].challenge = y
               PROVE  Unasked(i, y)
    BY DEF Unasked
  <2>1. CASE d = c
    <3>1. k + 1 \in DOMAIN s /\ Tail(s)[k] = s[k + 1]
      BY <1>2, <1>4, <2>1
    <3> QED BY <1>1, <1>4, <2>1, <3>1 DEF Unasked
  <2>2. CASE d # c
    BY <1>10, <2>2 DEF Unasked
  <2> QED BY <2>1, <2>2
<1>12. sockets[i] # None /\ Unread(sockets[i]) /\ s[1].signed # None => Unread(sockets[i])'
  <2> SUFFICES ASSUME sockets[i] # None, Unread(sockets[i]), s[1].signed # None
               PROVE  Unread(sockets[i])'
    OBVIOUS
  <2>1. CASE sockets[i] = c
    <3>1. PICK k \in DOMAIN s : s[k].signed = None
      BY <1>1, <2>1 DEF Unread
    <3>2. k - 1 \in 1 .. Len(s) - 1 /\ (k - 1) + 1 = k
      BY <1>2, <3>1
    <3> QED BY <1>2, <1>4, <2>1, <3>1, <3>2 DEF Unread
  <2>2. CASE sockets[i] # c
    <3>1. sockets[i] \in Conns
      BY <1>2 DEF TypeOK
    <3> QED BY <1>4, <2>2, <3>1 DEF Unread
  <2> QED BY <2>1, <2>2
<1>13. s[1].signed = None => Unasked(i, s[1].challenge)
  BY <1>1, <1>2 DEF Unasked
<1>14. /\ NoAnswer(i) /\ AfterLoss(i) /\ NoSolution(i) /\ Questioned(i) /\ Welcomed(i)
  BY DEF LiveInv, Unanswered
<1>15. NoAnswer(i)'
  <2> SUFFICES ASSUME Lost(i), NEW y \in Challenges, Waits(i, y)
               PROVE  /\ peers[i].challenge # None =>
                           \A n \in DOMAIN requests :
                             Answers(requests[n], i, y, peers[i].challenge) =>
                               \E m \in DOMAIN requests : m < n /\ Clears(requests[m], i)
                      /\ \A n \in DOMAIN events' : Asks(events'[n], i) /\ events'[n].msg.challenge = y =>
                           Cleared(i) \/ \E m \in DOMAIN events' : m < n /\ New(events'[m], i)
                      /\ Unasked(i, y) => Cleared(i) \/ Awaited(i)'
    BY <1>4, <1>9, <1>11 DEF NoAnswer
  <2>1. Unasked(i, y) => Cleared(i) \/ Awaited(i)
    BY <1>14 DEF NoAnswer
  <2>2. ASSUME NEW n \in DOMAIN events', Asks(events'[n], i), events'[n].msg.challenge = y
        PROVE  Cleared(i) \/ \E m \in DOMAIN events' : m < n /\ New(events'[m], i)
    <3>1. CASE n = last
      <4>1. Unasked(i, y)
        BY <1>3, <1>6, <1>7, <1>13, <2>2, <3>1
      <4>2. CASE Awaited(i)
        BY <1>6, <3>1, <4>2 DEF Awaited
      <4> QED BY <2>1, <4>1, <4>2
    <3>2. CASE n # last
      <4>1. n \in DOMAIN events /\ events'[n] = events[n]
        BY <1>6, <3>2
      <4>2. Cleared(i) \/ \E m \in DOMAIN events : m < n /\ New(events[m], i)
        BY <1>14, <2>2, <4>1 DEF NoAnswer
      <4> QED BY <1>6, <4>2
    <3> QED BY <3>1, <3>2
  <2>3. peers[i].challenge # None =>
          \A n \in DOMAIN requests : Answers(requests[n], i, y, peers[i].challenge) =>
            \E m \in DOMAIN requests : m < n /\ Clears(requests[m], i)
    BY <1>14 DEF NoAnswer
  <2> QED BY <1>9, <2>1, <2>2, <2>3
<1>16. AfterLoss(i)'
  <2> SUFFICES ASSUME NEW y \in Challenges, Waits(i, y),
                      NEW g \in DOMAIN events', Gone(events'[g], i)
               PROVE  /\ \A n \in DOMAIN events' :
                           Asks(events'[n], i) /\ events'[n].msg.challenge = y /\ g < n =>
                             \E m \in DOMAIN events' : g < m /\ m < n /\ New(events'[m], i)
                      /\ Unasked(i, y) => \E m \in DOMAIN events' : g < m /\ New(events'[m], i)
    BY <1>9, <1>11 DEF AfterLoss
  <2>1. g \in DOMAIN events /\ Gone(events[g], i)
    BY <1>8
  <2>2. Unasked(i, y) => \E m \in DOMAIN events : g < m /\ New(events[m], i)
    BY <1>14, <2>1 DEF AfterLoss
  <2>3. ASSUME NEW n \in DOMAIN events', Asks(events'[n], i), events'[n].msg.challenge = y, g < n
        PROVE  \E m \in DOMAIN events' : g < m /\ m < n /\ New(events'[m], i)
    <3>1. CASE n = last
      <4>1. Unasked(i, y)
        BY <1>3, <1>6, <1>7, <1>13, <2>3, <3>1
      <4> QED BY <1>6, <2>2, <3>1, <4>1
    <3>2. CASE n # last
      <4>1. n \in DOMAIN events /\ events'[n] = events[n]
        BY <1>6, <3>2
      <4>2. \E m \in DOMAIN events : g < m /\ m < n /\ New(events[m], i)
        BY <1>14, <2>1, <2>3, <4>1 DEF AfterLoss
      <4> QED BY <1>6, <4>2
    <3> QED BY <3>1, <3>2
  <2> QED BY <1>6, <2>2, <2>3
<1>17. NoSolution(i)'
  <2> SUFFICES ASSUME Lost(i), peers[i].challenge # None
               PROVE  /\ \A n \in DOMAIN events' : Solves(events'[n], i, peers[i].challenge) =>
                           \E m \in DOMAIN events' : m < n /\ Renews(events'[m], i)
                      /\ \A d \in Conns : conns'[d].index = i => \A k \in DOMAIN conns'[d].inbox :
                           conns'[d].inbox[k].signed = peers[i].challenge =>
                             \/ Renewed(i)'
                             \/ \E l \in DOMAIN conns'[d].inbox : l < k /\ conns'[d].inbox[l].signed = None
                      /\ \A n \in DOMAIN requests :
                           /\ Greets(requests[n], i)
                           /\ requests[n].msg.challenge = peers[i].challenge
                           /\ sockets[i] # None
                           => Renewed(i)' \/ Unread(sockets[i])'
    BY <1>4, <1>9, Zenon DEF NoSolution
  <2>1. ASSUME NEW n \in DOMAIN events', Solves(events'[n], i, peers[i].challenge)
        PROVE  \E m \in DOMAIN events' : m < n /\ Renews(events'[m], i)
    <3>1. CASE n = last
      <4>1. s[1].signed = peers[i].challenge
        BY <1>6, <1>7, <2>1, <3>1
      <4>2. Renewed(i) \/ \E l \in DOMAIN s : l < 1 /\ s[l].signed = None
        BY <1>1, <1>2, <1>14, <4>1 DEF NoSolution
      <4>3. Renewed(i)
        BY <1>2, <4>2
      <4> QED BY <1>6, <3>1, <4>3 DEF Renewed
    <3>2. CASE n # last
      <4>1. n \in DOMAIN events /\ events'[n] = events[n]
        BY <1>6, <3>2
      <4>2. \E m \in DOMAIN events : m < n /\ Renews(events[m], i)
        BY <1>14, <2>1, <4>1 DEF NoSolution
      <4> QED BY <1>6, <4>2
    <3> QED BY <3>1, <3>2
  <2>2. ASSUME NEW d \in Conns, conns'[d].index = i, NEW k \in DOMAIN conns'[d].inbox,
               conns'[d].inbox[k].signed = peers[i].challenge, ~ Renewed(i)'
        PROVE  \E l \in DOMAIN conns'[d].inbox : l < k /\ conns'[d].inbox[l].signed = None
    <3>1. ~ Renewed(i) /\ s[1].signed # None
      BY <1>9, <2>2
    <3>2. CASE d = c
      <4>1. /\ k \in 1 .. Len(s) - 1 /\ k + 1 \in DOMAIN s
            /\ s[k + 1].signed = peers[i].challenge
        BY <1>2, <1>4, <2>2, <3>2
      <4>2. PICK l \in DOMAIN s : l < k + 1 /\ s[l].signed = None
        BY <1>1, <1>14, <3>1, <4>1 DEF NoSolution
      <4>3. l # 1
        BY <3>1, <4>2
      <4>4. l - 1 \in 1 .. Len(s) - 1 /\ (l - 1) + 1 = l /\ l - 1 < k
        BY <1>2, <4>1, <4>2, <4>3
      <4>5. l - 1 \in DOMAIN conns'[c].inbox /\ conns'[c].inbox[l - 1].signed = None
        BY <1>2, <1>4, <4>2, <4>4
      <4> QED BY <3>2, <4>4, <4>5
    <3>3. CASE d # c
      BY <1>10, <1>14, <2>2, <3>1, <3>3 DEF NoSolution
    <3> QED BY <3>2, <3>3
  <2>3. ASSUME NEW n \in DOMAIN requests, Greets(requests[n], i),
               requests[n].msg.challenge = peers[i].challenge, sockets[i] # None
        PROVE  Renewed(i)' \/ Unread(sockets[i])'
    <3>1. Renewed(i) \/ Unread(sockets[i])
      BY <1>14, <2>3 DEF NoSolution
    <3> QED BY <1>9, <1>12, <2>3, <3>1
  <2> QED BY <2>1, <2>2, <2>3
<1>18. Questioned(i)'
  <2> SUFFICES ASSUME sockets[i] # None, conns[sockets[i]].dialled,
                      NEW m \in DOMAIN events', New(events'[m], i)
               PROVE  Unread(sockets[i])' \/ \E n \in DOMAIN events' : m < n /\ Renews(events'[n], i)
    <3>1. sockets[i] # None => sockets[i] \in Conns
      BY <1>2 DEF TypeOK
    <3>2. sockets'[i] = sockets[i] /\ (sockets[i] # None => conns'[sockets[i]].dialled = conns[sockets[i]].dialled)
      BY <1>4, <3>1
    <3> QED BY <1>4, <3>2 DEF Questioned
  <2>1. m \in DOMAIN events /\ New(events[m], i) /\ m < last
    BY <1>6, <1>8
  <2>2. Unread(sockets[i]) \/ \E n \in DOMAIN events : m < n /\ Renews(events[n], i)
    BY <1>14, <2>1 DEF Questioned
  <2>3. CASE s[1].signed = None
    BY <1>6, <1>7, <2>1, <2>3 DEF Renews
  <2>4. CASE s[1].signed # None /\ Unread(sockets[i])
    BY <1>12, <2>4
  <2>5. CASE \E n \in DOMAIN events : m < n /\ Renews(events[n], i)
    BY <1>6, <2>5
  <2> QED BY <2>2, <2>3, <2>4, <2>5
<1>19. Welcomed(i)'
  <2>1. sockets[i] # None => sockets[i] \in Conns
    BY <1>2 DEF TypeOK
  <2>2. sockets'[i] = sockets[i] /\ (sockets[i] # None => conns'[sockets[i]].dialled = conns[sockets[i]].dialled)
    BY <1>4, <2>1
  <2> QED BY <1>8, <1>9, <1>14, <2>2 DEF Welcomed
<1> QED BY <1>15, <1>16, <1>17, <1>18, <1>19 DEF Unanswered

\* A step of the routing thread leaves what is under way to the peer i in its
\* order, also when it takes an event.
LEMMA RoutingOrder ==
    ASSUME LiveInv, NEW i \in Index, sockets' = sockets, conns' = conns,
           \/ events' = events
           \/ events # << >> /\ events' = Tail(events),
           Known(i)' => \/ Known(i)
                        \/ sockets[i] = None
                        \/ New(Head(events), i) /\ events # << >> /\ events' = Tail(events)
    PROVE  AfterLoss(i)' /\ Questioned(i)' /\ Welcomed(i)'
<1> DEFINE Shift(d) ==
             /\ DOMAIN events \subseteq Nat \ {0} /\ DOMAIN events' \subseteq Nat \ {0}
             /\ \A n \in DOMAIN events' : n + d \in DOMAIN events /\ events'[n] = events[n + d]
             /\ \A m \in DOMAIN events : m > d =>
                  m - d \in DOMAIN events' /\ events'[m - d] = events[m]
             /\ d = 1 => /\ events # << >> /\ events' = Tail(events)
                         /\ 1 \in DOMAIN events /\ Head(events) = events[1]
             /\ d = 0 => events' = events
<1>1. \E d \in {0, 1} : Shift(d)
  <2>1. CASE events' = events
    <3>1. /\ DOMAIN events \subseteq Nat \ {0} /\ \A n \in DOMAIN events : n + 0 = n /\ n - 0 = n
      BY EventsChange DEF LiveInv
    <3>2. Shift(0)
      BY <2>1, <3>1
    <3> QED BY <3>2
  <2>2. CASE events # << >> /\ events' = Tail(events)
    <3>1. /\ DOMAIN events = 1 .. Len(events) /\ Len(events) \in Nat /\ Len(events) >= 1
          /\ events[1] = Head(events)
          /\ DOMAIN events' = 1 .. Len(events) - 1
          /\ \A n \in 1 .. Len(events) - 1 : events'[n] = events[n + 1]
      BY <2>2, EventsChange DEF LiveInv
    <3>2. \A n \in DOMAIN events' : n + 1 \in DOMAIN events /\ events'[n] = events[n + 1]
      BY <3>1
    <3>3. ASSUME NEW m \in DOMAIN events, m > 1
          PROVE  m - 1 \in DOMAIN events' /\ events'[m - 1] = events[m]
      <4>1. m - 1 \in 1 .. Len(events) - 1 /\ (m - 1) + 1 = m
        BY <3>1, <3>3
      <4> QED BY <3>1, <4>1
    <3>4. /\ DOMAIN events \subseteq Nat \ {0} /\ DOMAIN events' \subseteq Nat \ {0}
          /\ 1 \in DOMAIN events
      BY <3>1
    <3>5. Shift(1)
      <4> HIDE <2>2
      <4>1. events # << >> /\ events' = Tail(events) /\ Head(events) = events[1]
        BY <2>2, <3>1
      <4> QED BY <3>2, <3>3, <3>4, <4>1
    <3> QED BY <3>5
  <2> QED BY <2>1, <2>2
<1>2. PICK d \in {0, 1} : Shift(d)
  BY <1>1
<1> HIDE DEF Shift
<1>3. /\ DOMAIN events \subseteq Nat \ {0} /\ DOMAIN events' \subseteq Nat \ {0}
      /\ \A n \in DOMAIN events' : n + d \in DOMAIN events /\ events'[n] = events[n + d]
      /\ \A m \in DOMAIN events : m > d => m - d \in DOMAIN events' /\ events'[m - d] = events[m]
      /\ d = 1 => /\ events # << >> /\ events' = Tail(events)
                  /\ 1 \in DOMAIN events /\ Head(events) = events[1]
      /\ d = 0 => events' = events
  BY <1>2 DEF Shift
<1>4. /\ \A y : Waits(i, y)' = Waits(i, y) /\ Unasked(i, y)' = Unasked(i, y)
      /\ Unread(sockets[i])' = Unread(sockets[i])
  BY DEF Waits, Unasked, Unread
<1>5. /\ AfterLoss(i) /\ Questioned(i) /\ Welcomed(i)
  BY DEF LiveInv, Unanswered
<1>6. AfterLoss(i)'
  <2> SUFFICES ASSUME NEW y \in Challenges, Waits(i, y),
                      NEW g \in DOMAIN events', Gone(events'[g], i)
               PROVE  /\ \A n \in DOMAIN events' :
                           Asks(events'[n], i) /\ events'[n].msg.challenge = y /\ g < n =>
                             \E m \in DOMAIN events' : g < m /\ m < n /\ New(events'[m], i)
                      /\ Unasked(i, y) => \E m \in DOMAIN events' : g < m /\ New(events'[m], i)
    BY <1>4 DEF AfterLoss
  <2>1. g + d \in DOMAIN events /\ Gone(events[g + d], i)
    BY <1>3
  <2>2. ASSUME NEW n \in DOMAIN events', Asks(events'[n], i), events'[n].msg.challenge = y, g < n
        PROVE  \E m \in DOMAIN events' : g < m /\ m < n /\ New(events'[m], i)
    <3>1. n + d \in DOMAIN events /\ g + d < n + d
      BY <1>3, <2>2
    <3>2. PICK m \in DOMAIN events : g + d < m /\ m < n + d /\ New(events[m], i)
      BY <1>3, <1>5, <2>1, <2>2, <3>1 DEF AfterLoss
    <3>3. m > d /\ g < m - d /\ m - d < n
      BY <1>3, <3>2
    <3> QED BY <1>3, <3>2, <3>3
  <2>3. ASSUME Unasked(i, y) PROVE \E m \in DOMAIN events' : g < m /\ New(events'[m], i)
    <3>1. PICK m \in DOMAIN events : g + d < m /\ New(events[m], i)
      BY <1>5, <2>1, <2>3 DEF AfterLoss
    <3>2. m > d /\ g < m - d
      BY <1>3, <3>1
    <3> QED BY <1>3, <3>1, <3>2
  <2> QED BY <2>2, <2>3
<1>7. Questioned(i)'
  <2> SUFFICES ASSUME sockets[i] # None, conns[sockets[i]].dialled,
                      NEW m \in DOMAIN events', New(events'[m], i)
               PROVE  Unread(sockets[i]) \/ \E n \in DOMAIN events' : m < n /\ Renews(events'[n], i)
    BY <1>4 DEF Questioned
  <2>1. Unread(sockets[i]) \/ \E n \in DOMAIN events : m + d < n /\ Renews(events[n], i)
    BY <1>3, <1>5 DEF Questioned
  <2>2. ASSUME NEW n \in DOMAIN events, m + d < n, Renews(events[n], i)
        PROVE  \E l \in DOMAIN events' : m < l /\ Renews(events'[l], i)
    <3>1. n > d /\ m < n - d
      BY <1>3, <2>2
    <3> QED BY <1>3, <2>2, <3>1
  <2> QED BY <2>1, <2>2
<1>8. Welcomed(i)'
  <2> SUFFICES ASSUME sockets[i] # None, ~ conns[sockets[i]].dialled,
                      NEW m \in DOMAIN events', New(events'[m], i)
               PROVE  /\ ~ Known(i)'
                      /\ \A n \in DOMAIN events' : New(events'[n], i) => n = m
    BY DEF Welcomed
  <2>1. /\ m + d \in DOMAIN events /\ New(events[m + d], i)
        /\ ~ Known(i) /\ \A n \in DOMAIN events : New(events[n], i) => n = m + d
    BY <1>3, <1>5 DEF Welcomed
  <2>2. \A n \in DOMAIN events' : New(events'[n], i) => n = m
    <3> SUFFICES ASSUME NEW n \in DOMAIN events', New(events'[n], i) PROVE n = m
      OBVIOUS
    <3>1. n + d = m + d
      BY <1>3, <2>1
    <3> QED BY <1>3, <3>1
  <2>3. ASSUME New(Head(events), i), events # << >>, events' = Tail(events) PROVE FALSE
    <3>1. TypeOK
      BY DEF LiveInv
    <3>2. /\ events[1] = Head(events) /\ Len(events) \in Nat /\ Len(events) >= 1
          /\ DOMAIN events = 1 .. Len(events) /\ DOMAIN events' = 1 .. Len(events) - 1
      BY <2>3, <3>1, EventsChange
    <3>3. /\ 1 \in DOMAIN events /\ events[1] = Head(events) /\ Len(events) \in Nat
          /\ DOMAIN events = 1 .. Len(events) /\ DOMAIN events' = 1 .. Len(events) - 1
      BY <3>2
    <3>4. m + d = 1
      BY <2>1, <2>3, <3>3
    <3>5. m = 1 /\ d = 0
      BY <1>3, <3>4
    <3>6. events' = events
      BY <1>3, <3>5
    <3>7. Len(events) \in DOMAIN events /\ Len(events) \notin DOMAIN events'
      BY <3>2
    <3> QED BY <3>6, <3>7
  <2> QED BY <2>1, <2>2, <2>3
<1> QED BY <1>6, <1>7, <1>8

\* While the routing thread takes no question and no NewPeer of the peer i, the
\* ones that are queued stay in front of the same events.
LEMMA RenewalsKept ==
    ASSUME TypeOK, NEW i \in Index,
           \/ events' = events
           \/ events # << >> /\ events' = Tail(events) /\ ~ Renews(Head(events), i)
    PROVE  /\ Awaited(i) => Awaited(i)'
           /\ Renewed(i) => Renewed(i)'
           /\ \A n \in DOMAIN events' : \E k \in DOMAIN events :
                /\ events[k] = events'[n]
                /\ \A m \in DOMAIN events : m < k /\ Renews(events[m], i) =>
                     \E l \in DOMAIN events' : l < n /\ events'[l] = events[m]
<1>1. CASE events' = events
  BY <1>1 DEF Awaited, Renewed
<1>2. CASE events # << >> /\ events' = Tail(events) /\ ~ Renews(Head(events), i)
  <2>1. /\ Len(events) \in Nat /\ Len(events) >= 1 /\ DOMAIN events = 1 .. Len(events)
        /\ Head(events) = events[1]
        /\ DOMAIN events' = 1 .. Len(events) - 1
        /\ \A n \in 1 .. Len(events) - 1 : events'[n] = events[n + 1]
    BY <1>2, EventsChange
  <2>2. ~ Renews(events[1], i)
    BY <1>2, <2>1
  <2> HIDE <1>2
  <2>3. ASSUME NEW m \in DOMAIN events, Renews(events[m], i)
        PROVE  m - 1 \in DOMAIN events' /\ events'[m - 1] = events[m]
    <3>1. m # 1
      BY <2>2, <2>3
    <3>2. m - 1 \in 1 .. Len(events) - 1 /\ (m - 1) + 1 = m
      BY <2>1, <3>1
    <3> QED BY <2>1, <3>2
  <2>4. ASSUME NEW n \in DOMAIN events'
        PROVE  /\ n + 1 \in DOMAIN events /\ events[n + 1] = events'[n]
               /\ \A m \in DOMAIN events : m < n + 1 => m - 1 < n
    BY <2>1
  <2>5. Awaited(i) => Awaited(i)'
    BY <2>3 DEF Awaited, Renews
  <2>6. Renewed(i) => Renewed(i)'
    BY <2>3 DEF Renewed
  <2> QED BY <2>3, <2>4, <2>5, <2>6
<1> QED BY <1>1, <1>2

\* A step of the routing thread that makes no connection lost, draws no
\* challenge for it, and sends it nothing.
LEMMA RoutingQuiet ==
    ASSUME LiveInv, NEW i \in Index, sockets' = sockets, conns' = conns,
           \/ events' = events
           \/ events # << >> /\ events' = Tail(events) /\ ~ Renews(Head(events), i),
           Lost(i)' => Lost(i) /\ peers'[i].challenge = peers[i].challenge,
           Known(i)' => Known(i) \/ sockets[i] = None,
           \A n \in DOMAIN requests : n \in DOMAIN requests' /\ requests'[n] = requests[n],
           \A n \in DOMAIN requests' \ DOMAIN requests :
             ~ (requests'[n].type = "send" /\ requests'[n].index = i)
    PROVE  Unanswered(i)'
<1>1. /\ Awaited(i) => Awaited(i)'
      /\ Renewed(i) => Renewed(i)'
      /\ \A n \in DOMAIN events' : \E k \in DOMAIN events :
           /\ events[k] = events'[n]
           /\ \A m \in DOMAIN events : m < k /\ Renews(events[m], i) =>
                \E l \in DOMAIN events' : l < n /\ events'[l] = events[m]
  BY RenewalsKept DEF LiveInv
<1>2. AfterLoss(i)' /\ Questioned(i)' /\ Welcomed(i)'
  BY RoutingOrder
<1>3. /\ \A y : Waits(i, y)' = Waits(i, y) /\ Unasked(i, y)' = Unasked(i, y)
      /\ Unread(sockets[i])' = Unread(sockets[i])
      /\ Cleared(i) => Cleared(i)'
  BY DEF Waits, Unasked, Unread, Cleared
<1>4. NoAnswer(i) /\ NoSolution(i)
  BY DEF LiveInv, Unanswered
<1>5. \A n \in DOMAIN requests' : \A y, x : Answers(requests'[n], i, y, x) \/ Greets(requests'[n], i) =>
        n \in DOMAIN requests /\ requests'[n] = requests[n]
  BY DEF Answers, Greets
<1>6. NoAnswer(i)'
  <2> SUFFICES ASSUME Lost(i), peers'[i].challenge = peers[i].challenge,
                      NEW y \in Challenges, Waits(i, y)
               PROVE  /\ peers[i].challenge # None =>
                           \A n \in DOMAIN requests' :
                             Answers(requests'[n], i, y, peers[i].challenge) =>
                               \E m \in DOMAIN requests' : m < n /\ Clears(requests'[m], i)
                      /\ \A n \in DOMAIN events' : Asks(events'[n], i) /\ events'[n].msg.challenge = y =>
                           Cleared(i)' \/ \E m \in DOMAIN events' : m < n /\ New(events'[m], i)
                      /\ Unasked(i, y) => Cleared(i)' \/ Awaited(i)'
    BY <1>3 DEF NoAnswer
  <2>1. ASSUME peers[i].challenge # None, NEW n \in DOMAIN requests',
               Answers(requests'[n], i, y, peers[i].challenge)
        PROVE  \E m \in DOMAIN requests' : m < n /\ Clears(requests'[m], i)
    <3>1. n \in DOMAIN requests /\ requests'[n] = requests[n]
      BY <1>5, <2>1
    <3>2. PICK m \in DOMAIN requests : m < n /\ Clears(requests[m], i)
      BY <1>4, <2>1, <3>1 DEF NoAnswer
    <3> QED BY <3>2
  <2>2. ASSUME NEW n \in DOMAIN events', Asks(events'[n], i), events'[n].msg.challenge = y
        PROVE  Cleared(i)' \/ \E m \in DOMAIN events' : m < n /\ New(events'[m], i)
    <3>1. PICK k \in DOMAIN events :
             /\ events[k] = events'[n]
             /\ \A m \in DOMAIN events : m < k /\ Renews(events[m], i) =>
                  \E l \in DOMAIN events' : l < n /\ events'[l] = events[m]
      BY <1>1
    <3>2. Cleared(i) \/ \E m \in DOMAIN events : m < k /\ New(events[m], i)
      BY <1>4, <2>2, <3>1 DEF NoAnswer
    <3> QED BY <1>3, <3>1, <3>2 DEF Renews
  <2>3. Unasked(i, y) => Cleared(i)' \/ Awaited(i)'
    BY <1>1, <1>3, <1>4 DEF NoAnswer
  <2> QED BY <2>1, <2>2, <2>3
<1>7. NoSolution(i)'
  <2> SUFFICES ASSUME Lost(i), peers'[i].challenge = peers[i].challenge, peers[i].challenge # None
               PROVE  /\ \A n \in DOMAIN events' : Solves(events'[n], i, peers[i].challenge) =>
                           \E m \in DOMAIN events' : m < n /\ Renews(events'[m], i)
                      /\ \A c \in Conns : conns[c].index = i => \A k \in DOMAIN conns[c].inbox :
                           conns[c].inbox[k].signed = peers[i].challenge =>
                             \/ Renewed(i)'
                             \/ \E l \in DOMAIN conns[c].inbox : l < k /\ conns[c].inbox[l].signed = None
                      /\ \A n \in DOMAIN requests' :
                           /\ Greets(requests'[n], i)
                           /\ requests'[n].msg.challenge = peers[i].challenge
                           /\ sockets[i] # None
                           => Renewed(i)' \/ Unread(sockets[i])
    BY <1>3, Zenon DEF NoSolution
  <2>1. ASSUME NEW n \in DOMAIN events', Solves(events'[n], i, peers[i].challenge)
        PROVE  \E m \in DOMAIN events' : m < n /\ Renews(events'[m], i)
    <3>1. PICK k \in DOMAIN events :
             /\ events[k] = events'[n]
             /\ \A m \in DOMAIN events : m < k /\ Renews(events[m], i) =>
                  \E l \in DOMAIN events' : l < n /\ events'[l] = events[m]
      BY <1>1
    <3>2. \E m \in DOMAIN events : m < k /\ Renews(events[m], i)
      BY <1>4, <2>1, <3>1 DEF NoSolution
    <3> QED BY <3>1, <3>2
  <2>2. \A c \in Conns : conns[c].index = i => \A k \in DOMAIN conns[c].inbox :
          conns[c].inbox[k].signed = peers[i].challenge =>
            \/ Renewed(i)'
            \/ \E l \in DOMAIN conns[c].inbox : l < k /\ conns[c].inbox[l].signed = None
    BY <1>1, <1>4 DEF NoSolution
  <2>3. \A n \in DOMAIN requests' :
          /\ Greets(requests'[n], i)
          /\ requests'[n].msg.challenge = peers[i].challenge
          /\ sockets[i] # None
          => Renewed(i)' \/ Unread(sockets[i])
    BY <1>1, <1>4, <1>5 DEF NoSolution
  <2> QED BY <2>1, <2>2, <2>3
<1> QED BY <1>2, <1>6, <1>7 DEF Unanswered

\* The event that is handled is the first one, and the others move up.
LEMMA HeadTaken ==
    ASSUME TypeOK, events # << >>, events' = Tail(events)
    PROVE  /\ 1 \in DOMAIN events /\ events[1] = Head(events)
           /\ Head(events) \in Event /\ Head(events).index \in Index
           /\ DOMAIN events \subseteq Nat \ {0}
           /\ \A n \in DOMAIN events' : /\ n + 1 \in DOMAIN events /\ 1 < n + 1
                                        /\ events'[n] = events[n + 1]
           /\ \A m \in DOMAIN events : m # 1 => /\ m - 1 \in DOMAIN events'
                                                /\ events'[m - 1] = events[m]
           /\ \A n \in DOMAIN events' : \A m \in DOMAIN events : m < n + 1 => m - 1 < n
<1>1. /\ Len(events) \in Nat /\ Len(events) >= 1 /\ DOMAIN events = 1 .. Len(events)
      /\ Head(events) = events[1]
      /\ DOMAIN events' = 1 .. Len(events) - 1
      /\ \A n \in 1 .. Len(events) - 1 : events'[n] = events[n + 1]
  BY EventsChange
<1>2. Head(events) \in Event /\ Head(events).index \in Index
  BY ChannelTypes DEF Event
<1>3. ASSUME NEW m \in DOMAIN events, m # 1
      PROVE  m - 1 \in DOMAIN events' /\ events'[m - 1] = events[m]
  <2>1. m - 1 \in 1 .. Len(events) - 1 /\ (m - 1) + 1 = m
    BY <1>1, <1>3
  <2> QED BY <1>1, <2>1
<1>4. \A n \in DOMAIN events' : \A m \in DOMAIN events : m < n + 1 => m - 1 < n
  BY <1>1
<1>5. /\ 1 \in DOMAIN events
      /\ DOMAIN events \subseteq Nat \ {0}
      /\ \A n \in DOMAIN events' : /\ n + 1 \in DOMAIN events /\ 1 < n + 1
                                   /\ events'[n] = events[n + 1]
  BY <1>1
<1> QED BY <1>1, <1>2, <1>3, <1>4, <1>5

\* One more request is the last one.
LEMMA RequestAdded ==
    ASSUME TypeOK, NEW r \in Request, requests' = Append(requests, r)
    PROVE  \E last \in DOMAIN requests' :
             /\ requests'[last] = r
             /\ \A n \in DOMAIN requests :
                  n < last /\ n \in DOMAIN requests' /\ requests'[n] = requests[n]
             /\ \A n \in DOMAIN requests' : n = last \/ n \in DOMAIN requests
<1>1. /\ Len(requests) \in Nat /\ DOMAIN requests = 1 .. Len(requests)
      /\ DOMAIN requests' = 1 .. Len(requests) + 1
      /\ \A n \in 1 .. Len(requests) : requests'[n] = requests[n]
      /\ requests'[Len(requests) + 1] = r
  BY RequestsChange
<1>2. PICK last : last = Len(requests) + 1
  OBVIOUS
<1> QED BY <1>1, <1>2

\* A step of the routing thread after which the peer i is not lost.
LEMMA NotLost ==
    ASSUME LiveInv, NEW i \in Index, sockets' = sockets, conns' = conns,
           \/ events' = events
           \/ events # << >> /\ events' = Tail(events),
           Known(i)' => \/ Known(i)
                        \/ sockets[i] = None
                        \/ New(Head(events), i) /\ events # << >> /\ events' = Tail(events),
           ~ Lost(i)'
    PROVE  Unanswered(i)'
<1>1. AfterLoss(i)' /\ Questioned(i)' /\ Welcomed(i)'
  BY RoutingOrder
<1>2. NoAnswer(i)' /\ NoSolution(i)'
  BY DEF NoAnswer, NoSolution
<1> QED BY <1>1, <1>2 DEF Unanswered

\* The NewPeer of the peer i is handled: a greeting is on the way.
LEMMA NewPeerHandled ==
    ASSUME LiveInv, NEW i \in Index, HandleNewPeer, Head(events).index = i
    PROVE  Unanswered(i)'
<1>1. /\ TypeOK /\ events # << >> /\ events' = Tail(events) /\ New(Head(events), i)
      /\ sockets' = sockets /\ conns' = conns
  BY DEF LiveInv, HandleNewPeer, Received, New
<1> USE PeersAssumption
<1>2. peers \in [Index -> Peer] /\ peers[i] \in Peer
  BY <1>1 DEF TypeOK
<1>3. CASE peers[i].static # NoHost
  <2>1. ~ Lost(i)'
    BY <1>2, <1>3 DEF HandleNewPeer, Lost, Peer
  <2> QED BY <1>1, <2>1, NotLost
<1>4. CASE peers[i].static = NoHost
  <2>1. PICK x \in Fresh :
           /\ peers' = [peers EXCEPT ![i] = [[peers[i] EXCEPT !.status = "connecting"]
                                               EXCEPT !.challenge = x]]
           /\ requests' = Append(requests, Send(i, None, x))
    BY <1>2, <1>4 DEF HandleNewPeer, Peer
  <2>2. /\ peers'[i].challenge = x /\ peers'[i].away = peers[i].away
        /\ peers'[i].static = peers[i].static
    BY <1>2, <2>1 DEF Peer
  <2>3. Lost(i)' => Known(i)
    BY <2>2 DEF Lost, LiveInv, Present, TypeOK, Peer
  <2>4. AfterLoss(i)' /\ Questioned(i)' /\ Welcomed(i)'
    BY <1>1, RoutingOrder
  <2>5. PICK r \in Request : r = Send(i, None, x)
    BY RequestTypes, FreshType DEF KeyOrNone
  <2>6. PICK last \in DOMAIN requests' :
           /\ requests'[last] = r
           /\ \A n \in DOMAIN requests :
                n < last /\ n \in DOMAIN requests' /\ requests'[n] = requests[n]
           /\ \A n \in DOMAIN requests' : n = last \/ n \in DOMAIN requests
    BY <1>1, <2>1, <2>5, RequestAdded
  <2>7. r.type = "send" /\ r.index = i /\ r.msg.signed = None /\ r.msg.challenge = x
    BY <2>5 DEF Send
  <2>8. Cleared(i)'
    BY <2>6, <2>7 DEF Cleared, Clears, Greets
  <2>9. /\ x \in Challenges /\ x # None
        /\ \A n \in DOMAIN events : events[n].msg.signed # x
        /\ \A n \in DOMAIN requests : requests[n].msg.challenge # x
        /\ \A c \in Conns : \A k \in DOMAIN conns[c].inbox : conns[c].inbox[k].signed # x
    BY <1>1, FreshUnused
  <2>10. NoAnswer(i)'
    <3>1. \A y \in Challenges : \A n \in DOMAIN requests' : ~ Answers(requests'[n], i, y, x)
      BY <2>6, <2>7, <2>9 DEF Answers, Challenges, None
    <3> QED BY <2>2, <2>8, <3>1 DEF NoAnswer
  <2>11. /\ 1 \in DOMAIN events /\ New(events[1], i)
         /\ \A m \in DOMAIN events : 1 < m => m - 1 \in DOMAIN events' /\ events'[m - 1] = events[m]
    BY <1>1, HeadTaken
  <2>12. Known(i) /\ sockets[i] # None => Renewed(i)' \/ Unread(sockets[i])
    <3> SUFFICES ASSUME Known(i), sockets[i] # None PROVE Renewed(i)' \/ Unread(sockets[i])
      OBVIOUS
    <3>1. Questioned(i) /\ Welcomed(i)
      BY DEF LiveInv, Unanswered
    <3>2. conns[sockets[i]].dialled
      BY <2>11, <3>1 DEF Welcomed
    <3>3. Unread(sockets[i]) \/ \E n \in DOMAIN events : 1 < n /\ Renews(events[n], i)
      BY <2>11, <3>1, <3>2 DEF Questioned
    <3> QED BY <2>11, <3>3 DEF Renewed
  <2>13. \A n \in DOMAIN events' : events'[n].msg.signed # x
    <3>1. \A n \in DOMAIN events' : n + 1 \in DOMAIN events /\ events'[n] = events[n + 1]
      BY <1>1, HeadTaken
    <3> QED BY <2>9, <3>1
  <2>14. NoSolution(i)'
    <3>1. sockets'[i] = sockets[i] /\ Unread(sockets[i])' = Unread(sockets[i])
      BY <1>1 DEF Unread
    <3> QED BY <1>1, <2>2, <2>3, <2>9, <2>12, <2>13, <3>1 DEF NoSolution, Solves
  <2> QED BY <2>4, <2>10, <2>14 DEF Unanswered
<1> QED BY <1>3, <1>4

\* A question of the peer i is handled: the answer carries a new challenge.
LEMMA QuestionHandled ==
    ASSUME LiveInv, NEW i \in Index, HandleHandshakeChallenge, Head(events).index = i
    PROVE  Unanswered(i)'
<1>1. /\ TypeOK /\ events # << >> /\ events' = Tail(events) /\ Asks(Head(events), i)
      /\ ~ New(Head(events), i) /\ Known(i)
      /\ sockets' = sockets /\ conns' = conns
  BY DEF LiveInv, HandleHandshakeChallenge, Received, New, Asks
<1>2. peers \in [Index -> Peer] /\ peers[i] \in Peer
  BY <1>1 DEF TypeOK
<1>3. PICK ch \in Challenges \cup {None} : ch = Head(events).msg.challenge
  BY <1>1, ChannelTypes DEF Event, Message
<1>4. PICK x \in Fresh :
           /\ peers' = [peers EXCEPT ![i].challenge = x]
           /\ requests' = Append(requests, Send(i, Signed(ch), x))
  BY <1>3 DEF HandleHandshakeChallenge
<1>5. /\ peers'[i].challenge = x /\ peers'[i].away = peers[i].away
      /\ peers'[i].static = peers[i].static /\ peers'[i].status = peers[i].status
  BY <1>2, <1>4 DEF Peer
<1>6. Lost(i)' = Lost(i) /\ Known(i)' = Known(i)
  BY <1>5 DEF Lost, Known
<1>7. AfterLoss(i)' /\ Questioned(i)' /\ Welcomed(i)'
  BY <1>1, <1>6, RoutingOrder
<1>8. PICK r \in Request : r = Send(i, Signed(ch), x)
  BY SignedType, RequestTypes, FreshType DEF KeyOrNone
<1>9. PICK last \in DOMAIN requests' :
           /\ requests'[last] = r
           /\ \A n \in DOMAIN requests :
                n < last /\ n \in DOMAIN requests' /\ requests'[n] = requests[n]
           /\ \A n \in DOMAIN requests' : n = last \/ n \in DOMAIN requests
  BY <1>1, <1>4, <1>8, RequestAdded
<1>10. /\ r.type = "send" /\ r.index = i /\ r.msg.signed = Signed(ch) /\ r.msg.challenge = x
       /\ r.msg.signed # None
  BY <1>8, SignedType DEF Send
<1>11. /\ x \in Challenges /\ x # None
       /\ \A n \in DOMAIN events : events[n].msg.signed # x
       /\ \A n \in DOMAIN requests : requests[n].msg.challenge # x
       /\ \A c \in Conns : \A k \in DOMAIN conns[c].inbox : conns[c].inbox[k].signed # x
  BY <1>1, FreshUnused
<1>12. /\ 1 \in DOMAIN events /\ events[1] = Head(events)
       /\ \A n \in DOMAIN events' : n + 1 \in DOMAIN events /\ events'[n] = events[n + 1]
       /\ \A m \in DOMAIN events : m # 1 => m - 1 \in DOMAIN events' /\ events'[m - 1] = events[m]
       /\ \A n \in DOMAIN events' : \A m \in DOMAIN events : m < n + 1 => m - 1 < n
       /\ DOMAIN events \subseteq Nat \ {0}
  BY <1>1, HeadTaken
<1>13. Cleared(i) => Cleared(i)'
  BY <1>9 DEF Cleared
<1>14. NoAnswer(i)'
  <2> SUFFICES ASSUME Lost(i), NEW y \in Challenges, Waits(i, y)
               PROVE  /\ \A n \in DOMAIN requests' : Answers(requests'[n], i, y, x) =>
                           \E m \in DOMAIN requests' : m < n /\ Clears(requests'[m], i)
                      /\ \A n \in DOMAIN events' : Asks(events'[n], i) /\ events'[n].msg.challenge = y =>
                           Cleared(i)' \/ \E m \in DOMAIN events' : m < n /\ New(events'[m], i)
                      /\ Unasked(i, y) => Cleared(i)' \/ Awaited(i)'
    BY <1>1, <1>5, <1>6 DEF NoAnswer, Waits, Unasked
  <2>1. /\ \A n \in DOMAIN events : Asks(events[n], i) /\ events[n].msg.challenge = y =>
             Cleared(i) \/ \E m \in DOMAIN events : m < n /\ New(events[m], i)
        /\ Unasked(i, y) => Cleared(i) \/ Awaited(i)
    BY DEF LiveInv, Unanswered, NoAnswer
  <2>2. ASSUME NEW n \in DOMAIN requests', Answers(requests'[n], i, y, x)
        PROVE  \E m \in DOMAIN requests' : m < n /\ Clears(requests'[m], i)
    <3>1. n = last /\ Signed(ch) = y
      BY <1>9, <1>10, <1>11, <2>2 DEF Answers
    <3>2. ch = y
      BY <3>1, PeersAssumption DEF Signed, Zeros, Challenges
    <3>3. Cleared(i)
      BY <1>1, <1>3, <1>12, <2>1, <3>2
    <3> QED BY <1>9, <3>1, <3>3 DEF Cleared
  <2>3. ASSUME NEW n \in DOMAIN events', Asks(events'[n], i), events'[n].msg.challenge = y
        PROVE  Cleared(i)' \/ \E m \in DOMAIN events' : m < n /\ New(events'[m], i)
    <3>1. Cleared(i) \/ \E m \in DOMAIN events : m < n + 1 /\ New(events[m], i)
      BY <1>12, <2>1, <2>3
    <3>2. ASSUME NEW m \in DOMAIN events, m < n + 1, New(events[m], i)
          PROVE  m - 1 \in DOMAIN events' /\ events'[m - 1] = events[m] /\ m - 1 < n
      BY <1>1, <1>12, <3>2
    <3> QED BY <1>13, <3>1, <3>2
  <2>4. ASSUME Unasked(i, y) PROVE Cleared(i)' \/ Awaited(i)'
    BY <1>1, <1>12, <1>13, <2>1, <2>4 DEF Awaited
  <2> QED BY <2>2, <2>3, <2>4
<1>15. NoSolution(i)'
  <2>1. \A n \in DOMAIN events' : events'[n].msg.signed # x
    BY <1>11, <1>12
  <2>2. \A n \in DOMAIN requests' : ~ (Greets(requests'[n], i) /\ requests'[n].msg.challenge = x)
    BY <1>9, <1>10, <1>11 DEF Greets
  <2> QED BY <1>1, <1>5, <1>11, <2>1, <2>2 DEF NoSolution, Solves
<1> QED BY <1>7, <1>14, <1>15 DEF Unanswered

\* The end of a connection of the peer i is handled.
LEMMA LossHandled ==
    ASSUME LiveInv, NEW i \in Index, HandlePeerDisconnect, Head(events).index = i
    PROVE  Unanswered(i)'
<1>1. /\ TypeOK /\ events # << >> /\ events' = Tail(events) /\ Gone(Head(events), i)
      /\ ~ New(Head(events), i)
      /\ sockets' = sockets /\ conns' = conns /\ requests' = requests
  BY DEF LiveInv, HandlePeerDisconnect, Received, New, Gone
<1>2. peers \in [Index -> Peer] /\ peers[i] \in Peer
  BY <1>1 DEF TypeOK
<1>3. CASE ~ Known(i)
  <2>1. peers' = peers
    BY <1>3 DEF HandlePeerDisconnect
  <2>2. ~ Known(i)' /\ ~ Lost(i)'
    BY <1>3, <2>1 DEF Known, Lost
  <2> QED BY <1>1, <2>2, NotLost
<1>4. CASE Known(i)
  <2>1. peers'[i].challenge = None
    BY <1>2, <1>4 DEF HandlePeerDisconnect, MarkAsDisconnected, Peer
  <2>2. AfterLoss(i)' /\ Questioned(i)' /\ Welcomed(i)'
    BY <1>1, <1>4, RoutingOrder
  <2>3. NoSolution(i)'
    BY <2>1 DEF NoSolution
  <2>4. /\ 1 \in DOMAIN events /\ Gone(events[1], i)
        /\ \A n \in DOMAIN events' : n + 1 \in DOMAIN events /\ 1 < n + 1 /\ events'[n] = events[n + 1]
        /\ \A m \in DOMAIN events : m # 1 => m - 1 \in DOMAIN events' /\ events'[m - 1] = events[m]
        /\ \A n \in DOMAIN events' : \A m \in DOMAIN events : m < n + 1 => m - 1 < n
        /\ ~ New(events[1], i)
    BY <1>1, HeadTaken
  <2>5. NoAnswer(i)'
    <3> SUFFICES ASSUME NEW y \in Challenges, Waits(i, y)
                 PROVE  /\ \A n \in DOMAIN events' : Asks(events'[n], i) /\ events'[n].msg.challenge = y =>
                             \E m \in DOMAIN events' : m < n /\ New(events'[m], i)
                        /\ Unasked(i, y) => Awaited(i)'
      BY <1>1, <2>1 DEF NoAnswer, Waits, Unasked
    <3>1. /\ \A n \in DOMAIN events :
               Asks(events[n], i) /\ events[n].msg.challenge = y /\ 1 < n =>
                 \E m \in DOMAIN events : 1 < m /\ m < n /\ New(events[m], i)
          /\ Unasked(i, y) => \E m \in DOMAIN events : 1 < m /\ New(events[m], i)
      BY <2>4 DEF LiveInv, Unanswered, AfterLoss
    <3>2. ASSUME NEW n \in DOMAIN events', Asks(events'[n], i), events'[n].msg.challenge = y
          PROVE  \E m \in DOMAIN events' : m < n /\ New(events'[m], i)
      <4>1. PICK m \in DOMAIN events : m < n + 1 /\ New(events[m], i)
        BY <2>4, <3>1, <3>2
      <4> QED BY <2>4, <4>1
    <3>3. Unasked(i, y) => Awaited(i)'
      BY <2>4, <3>1 DEF Awaited
    <3> QED BY <3>2, <3>3
  <2> QED BY <2>2, <2>3, <2>5 DEF Unanswered
<1> QED BY <1>3, <1>4

\* A response of the peer i is refused: its socket is going to be closed.
LEMMA ResponseRefused ==
    ASSUME LiveInv, NEW i \in Index, RefuseHandshakeResponse, Head(events).index = i
    PROVE  Unanswered(i)'
<1>1. /\ TypeOK /\ events # << >> /\ events' = Tail(events) /\ Known(i)
      /\ sockets' = sockets /\ conns' = conns
      /\ peers' = [peers EXCEPT ![i] = MarkAsDisconnected(peers[i])]
      /\ requests' = requests \o <<Disconnect(i), Disconnect(i)>>
  BY DEF LiveInv, RefuseHandshakeResponse, Received
<1>2. peers'[i].challenge = None
  BY <1>1 DEF MarkAsDisconnected, TypeOK, Peer
<1>3. AfterLoss(i)' /\ Questioned(i)' /\ Welcomed(i)'
  BY <1>1, RoutingOrder
<1>4. NoSolution(i)'
  BY <1>2 DEF NoSolution
<1>5. Cleared(i)'
  <2>1. PICK r \in Request : r = Disconnect(i)
    BY RequestTypes DEF KeyOrNone
  <2>2. requests' = requests \o <<r, r>> /\ requests \in Seq(Request) /\ Len(requests) \in Nat
    BY <1>1, <2>1 DEF TypeOK
  <2>3. Len(requests) + 1 \in DOMAIN requests' /\ requests'[Len(requests) + 1] = r
    BY <2>2
  <2>4. Clears(r, i)
    BY <2>1 DEF Clears, Disconnect
  <2> QED BY <2>3, <2>4 DEF Cleared
<1>6. NoAnswer(i)'
  BY <1>2, <1>5 DEF NoAnswer
<1> QED BY <1>3, <1>4, <1>6 DEF Unanswered

\* A response that is accepted is never one of a lost peer.
LEMMA NeverSolved ==
    ASSUME LiveInv, HandleHandshakeResponse
    PROVE  ~ Lost(Head(events).index)
<1> DEFINE i == Head(events).index
<1>1. /\ 1 \in DOMAIN events /\ events[1] = Head(events) /\ i \in Index
      /\ DOMAIN events \subseteq Nat \ {0}
  BY HeadTaken DEF LiveInv, HandleHandshakeResponse, Received
<1>2. peers[i].challenge # None /\ Solves(events[1], i, peers[i].challenge)
  BY <1>1 DEF HandleHandshakeResponse, Received, Accepted, Solves
<1>3. NoSolution(i)
  BY <1>1 DEF LiveInv, Unanswered
<1> QED BY <1>1, <1>2, <1>3 DEF NoSolution

\* What a response that is accepted makes of the collection.
LEMMA ResponseAccepted ==
    ASSUME LiveInv, NEW i \in Index, HandleHandshakeResponse, Head(events).index = i
    PROVE  /\ Known(i) /\ Known(i)' /\ ~ Lost(i)'
           /\ \A j \in Index \ {i} :
                \/ peers'[j] = peers[j]
                \/ peers'[j] = Absent /\ peers[j].status # "connected"
<1> DEFINE e == Head(events)
           p == [peers[i] EXCEPT !.status = "connected", !.key = e.key, !.challenge = None]
           joined == [peers EXCEPT ![i] = p]
<1>1. peers \in [Index -> Peer] /\ peers[i] \in Peer
  BY DEF LiveInv, TypeOK
<1>2. /\ p.status = "connected" /\ p.static = peers[i].static /\ p.away = peers[i].away
      /\ p = [p EXCEPT !.static = p.static]
  BY <1>1 DEF Peer
<1>3. /\ joined \in [Index -> {joined[j] : j \in Index}] /\ joined[i] = p
      /\ \A j \in Index : j # i => joined[j] = peers[j]
  BY <1>1
<1>4. Known(i) /\ ~ Lost(i)
  BY NeverSolved DEF HandleHandshakeResponse
<1>5. CASE peers' = joined
  <2>1. peers'[i] = p /\ \A j \in Index : j # i => peers'[j] = peers[j]
    BY <1>3, <1>5
  <2>2. Known(i)' /\ ~ Lost(i)'
    BY <1>2, <1>4, <2>1 DEF Known, Lost
  <2> QED BY <1>4, <2>1, <2>2
<1>6. CASE \E j \in Reconnectable(joined, e.key) :
             peers' = [Without(joined, j) EXCEPT ![i] = JoinAsReconnection(p, peers[j])]
  <2>1. PICK j \in Index :
           /\ peers' = [Without(joined, j) EXCEPT ![i] = JoinAsReconnection(p, peers[j])]
           /\ joined[j].status # "connected"
    BY <1>6 DEF Reconnectable
  <2> HIDE DEF joined, p
  <2>2. /\ peers'[i] = JoinAsReconnection(p, peers[j])
        /\ \A k \in Index : k # i =>
             \/ peers'[k] = peers[k]
             \/ peers'[k] = Absent /\ peers[k].status # "connected"
    BY <1>3, <2>1 DEF Without
  <2>3. Known(i)' /\ ~ Lost(i)'
    BY <1>1, <1>2, <2>2 DEF JoinAsReconnection, Known, Lost, p, Peer
  <2> QED BY <1>4, <2>2, <2>3
<1> QED BY <1>5, <1>6 DEF HandleHandshakeResponse

\* A connection of another peer is made.
LEMMA ConnectedElsewhere ==
    ASSUME LiveInv, NEW i \in Index, NEW j \in Index, j # i, peers' = peers,
           NEW h, NEW d, NEW x, NEW in, NewConnection(i, h, d, x, in),
           \/ requests' = requests
           \/ /\ requests # << >> /\ requests' = Tail(requests)
              /\ ~ Clears(Head(requests), j)
    PROVE  Unanswered(j)'
<1>1. PICK c \in Conns : c = made + 1
  BY PeersAssumption DEF LiveInv, TypeOK, NewConnection, Conns
<1>2. /\ sockets' = [sockets EXCEPT ![i] = c]
      /\ conns' = [conns EXCEPT ![c] = [index |-> i, host |-> h, dialled |-> d, theirs |-> x,
                                        inbox |-> in, view |-> "waiting"]]
  BY <1>1 DEF NewConnection
<1>3. sockets'[j] = sockets[j]
  BY <1>2 DEF LiveInv, TypeOK
<1>4. conns[c].index = None
  <2>1. c > made
    BY <1>1 DEF LiveInv, TypeOK
  <2> QED BY <2>1 DEF LiveInv, Unmade
<1>5. \A b \in Conns : conns[b].index = j \/ conns'[b].index = j => conns'[b] = conns[b]
  <2>1. j # None
    BY PeersAssumption DEF Index, None
  <2>2. conns'[c].index = i /\ \A b \in Conns \ {c} : conns'[b] = conns[b]
    BY <1>2 DEF LiveInv, TypeOK
  <2> QED BY <1>4, <2>1, <2>2
<1>6. PICK e \in Event : events' = Append(events, e) /\ New(e, i)
  BY NewPeerReported DEF LiveInv
<1>7. e.index # j
  BY <1>6 DEF New
<1> QED BY <1>3, <1>5, <1>6, <1>7, NetworkElsewhere

\* A step of the network.
LEMMA UnansweredNetwork ==
    ASSUME LiveInv, NEW j \in Index,
           \/ \E h \in Hosts : Incoming(h)
           \/ DialSucceeds \/ DialFails \/ DisconnectSocket \/ SendMessage
           \/ \E c \in Conns : ReadMessage(c) \/ ReaderEnds(c)
    PROVE  Unanswered(j)'
<1>1. /\ TypeOK /\ peers' = peers
      /\ \A r \in Request : r.type = "connect" => ~ Clears(r, j)
  <2>1. TypeOK /\ peers' = peers
    BY DEF LiveInv, Incoming, DialSucceeds, DialFails, DisconnectSocket, SendMessage, ReadMessage,
           ReaderEnds, collection
  <2>2. \A r \in Request : r.type = "connect" => ~ Clears(r, j)
    BY DEF Clears, Greets
  <2> QED BY <2>1, <2>2
<1>2. j # None
  BY DEF Index, None
<1>3. ASSUME NEW h \in Hosts, Incoming(h) PROVE Unanswered(j)'
  <2>1. PICK i \in Index : i = counter + 1
    BY <1>1, <1>3, PeersAssumption DEF TypeOK, Incoming, Index
  <2>2. NewConnection(i, h, FALSE, None, << >>) /\ requests' = requests
    BY <1>3, <2>1 DEF Incoming
  <2>3. CASE i = j
    BY <1>1, <2>1, <2>2, <2>3, CameIn
  <2>4. CASE i # j
    BY <1>1, <2>2, <2>4, ConnectedElsewhere
  <2> QED BY <2>3, <2>4
<1>4. CASE DialSucceeds
  <2>1. /\ requests # << >> /\ requests' = Tail(requests) /\ Head(requests).index \in Index
        /\ ~ Clears(Head(requests), j)
    BY <1>1, <1>4, ChannelTypes DEF DialSucceeds, Requested, Request
  <2>2. PICK x \in Fresh :
           NewConnection(Head(requests).index, Head(requests).key, TRUE, x,
                         <<[signed |-> None, challenge |-> x]>>)
    BY <1>4 DEF DialSucceeds
  <2>3. CASE Head(requests).index = j
    <3>1. /\ DOMAIN requests = 1 .. Len(requests) /\ Len(requests) \in Nat
          /\ DOMAIN requests' = 1 .. Len(requests) - 1
          /\ \A n \in 1 .. Len(requests) - 1 : requests'[n] = requests[n + 1]
      BY <1>1, <2>1, RequestsChange
    <3>2. \A n \in DOMAIN requests' : n + 1 \in DOMAIN requests
      BY <3>1
    <3>3. \A n \in DOMAIN requests' : \E m \in DOMAIN requests : requests'[n] = requests[m]
      BY <3>1, <3>2
    <3> QED BY <1>1, <2>2, <2>3, <3>3, Dialled
  <2>4. CASE Head(requests).index # j
    BY <1>1, <2>1, <2>2, <2>4, ConnectedElsewhere
  <2> QED BY <2>3, <2>4
<1>5. CASE DialFails
  <2>1. /\ requests # << >> /\ requests' = Tail(requests)
        /\ ~ Clears(Head(requests), j)
        /\ events' = events /\ sockets' = sockets /\ conns' = conns
    BY <1>1, <1>5, ChannelTypes DEF DialFails, Requested
  <2> QED BY <1>1, <2>1, NetworkElsewhere
<1>6. CASE DisconnectSocket
  <2>1. PICK i \in Index : i = Head(requests).index
    BY <1>6, <1>1, ChannelTypes DEF DisconnectSocket, Requested, Request
  <2>2. /\ requests # << >> /\ requests' = Tail(requests) /\ conns' = conns
        /\ sockets' = [sockets EXCEPT ![i] = None]
    BY <1>6, <2>1 DEF DisconnectSocket, Requested
  <2>3. PICK e \in Event : events' = Append(events, e) /\ e.type = "gone" /\ e.index = i
    <3> DEFINE e == [type |-> "gone", index |-> i, key |-> NoHost, msg |-> NoMessage]
    <3>1. e \in Event
      BY DEF Event, KeyOrNone, NoMessage, Message
    <3> QED BY <1>6, <2>1, <3>1 DEF DisconnectSocket, Report
  <2>4. CASE i = j
    <3>1. sockets'[j] = None
      BY <1>1, <2>2, <2>4 DEF TypeOK
    <3> QED BY <1>1, <2>2, <2>3, <3>1, SocketClosed
  <2>5. CASE i # j
    <3>1. sockets'[j] = sockets[j] /\ ~ Clears(Head(requests), j)
      BY <1>1, <2>1, <2>2, <2>5 DEF TypeOK, Clears, Greets
    <3> QED BY <1>1, <2>2, <2>3, <2>5, <3>1, NetworkElsewhere
  <2> QED BY <2>4, <2>5
<1>7. CASE SendMessage
  <2>1. PICK i \in Index : i = Head(requests).index
    BY <1>1, <1>7, ChannelTypes DEF SendMessage, Requested, Request
  <2>2. /\ requests # << >> /\ requests' = Tail(requests) /\ events' = events
        /\ Head(requests).type = "send" /\ Head(requests).msg \in Message
    BY <1>1, <1>7, ChannelTypes DEF SendMessage, Requested, Request
  <2>3. \/ sockets[i] = None /\ sockets' = sockets /\ conns' = conns
        \/ /\ sockets[i] # None /\ sockets' = sockets
           /\ RemoteHears(sockets[i], Head(requests).msg)
        \/ sockets[i] # None /\ sockets' = [sockets EXCEPT ![i] = None] /\ conns' = conns
    BY <1>7, <2>1 DEF SendMessage
  <2>4. CASE i = j
    <3>1. CASE RemoteHears(sockets[i], Head(requests).msg) /\ sockets[i] # None /\ sockets' = sockets
      BY <1>1, <2>1, <2>2, <2>4, <3>1, Spoken
    <3>2. CASE conns' = conns /\ sockets'[i] = None
      BY <1>1, <2>2, <2>4, <3>2, SocketClosed
    <3>3. sockets' = [sockets EXCEPT ![i] = None] => sockets'[i] = None
      BY <1>1 DEF TypeOK
    <3> QED BY <2>3, <3>1, <3>2, <3>3
  <2>5. CASE i # j
    <3>1. sockets'[j] = sockets[j] /\ ~ Clears(Head(requests), j)
      BY <1>1, <2>1, <2>3, <2>5 DEF TypeOK, Clears, Greets
    <3>2. \A c \in Conns : conns[c].index = j \/ conns'[c].index = j => conns'[c] = conns[c]
      <4>1. CASE sockets[i] # None /\ RemoteHears(sockets[i], Head(requests).msg)
        <5>1. sockets[i] \in Conns /\ conns[sockets[i]].index = i
          BY <4>1 DEF LiveInv, TypeOK, Plugged
        <5>2. /\ \A d \in Conns \ {sockets[i]} : conns'[d] = conns[d]
              /\ conns'[sockets[i]].index = i
          BY <1>1, <2>2, <4>1, <5>1, HearsChange
        <5> QED BY <2>5, <5>1, <5>2
      <4>2. CASE conns' = conns
        BY <4>2
      <4> QED BY <2>3, <4>1, <4>2
    <3> QED BY <1>1, <2>2, <3>1, <3>2, NetworkElsewhere
  <2> QED BY <2>4, <2>5
<1>8. ASSUME NEW c \in Conns, ReadMessage(c) PROVE Unanswered(j)'
  <2>1. CASE conns[c].index = j
    BY <1>8, <2>1, MessageRead
  <2>2. CASE conns[c].index # j
    <3>1. /\ conns[c] \in Conn /\ conns[c].index \in Index
          /\ Head(conns[c].inbox) \in Message
      BY <1>1, <1>8 DEF TypeOK, Conn, ReadMessage, Reading
    <3>2. PICK e \in Event : events' = Append(events, e) /\ e.index = conns[c].index
      <4>1. PICK key \in Keys :
              /\ [type |-> "message", index |-> conns[c].index, key |-> key,
                  msg |-> Head(conns[c].inbox)] \in Event
              /\ events' = Append(events, [type |-> "message", index |-> conns[c].index,
                                           key |-> key, msg |-> Head(conns[c].inbox)])
        BY <1>1, <1>8, ReadReports
      <4> QED BY <4>1
    <3>3. \A d \in Conns : conns[d].index = j \/ conns'[d].index = j => conns'[d] = conns[d]
      BY <1>1, <1>8, <2>2, <3>1 DEF ReadMessage, TypeOK, Conn
    <3>4. sockets' = sockets /\ requests' = requests
      BY <1>8 DEF ReadMessage
    <3> QED BY <1>1, <2>2, <3>2, <3>3, <3>4, NetworkElsewhere
  <2> QED BY <2>1, <2>2
<1>9. ASSUME NEW c \in Conns, ReaderEnds(c) PROVE Unanswered(j)'
  <2>1. PICK i \in Index : i = conns[c].index
    BY <1>1, <1>9 DEF ReaderEnds, Reading, TypeOK, Conn
  <2>2. PICK e \in Event : events' = Append(events, e) /\ e.type = "gone" /\ e.index = i
    <3> DEFINE e == [type |-> "gone", index |-> i, key |-> NoHost, msg |-> NoMessage]
    <3>1. e \in Event
      BY DEF Event, KeyOrNone, NoMessage, Message
    <3> QED BY <1>9, <2>1, <3>1 DEF ReaderEnds, Report
  <2>3. /\ sockets' = [sockets EXCEPT ![i] = None] /\ requests' = requests
        /\ conns'[c].index = None /\ \A d \in Conns \ {c} : conns'[d] = conns[d]
    BY <1>1, <1>9, <2>1 DEF ReaderEnds, TypeOK, NoConn
  <2>4. CASE i = j
    <3>1. sockets'[j] = None
      BY <1>1, <2>3, <2>4 DEF TypeOK
    <3>2. \A d \in Conns : conns'[d].index = j => conns'[d] = conns[d]
      BY <1>2, <2>3
    <3> QED BY <1>1, <2>2, <3>1, <3>2, SocketClosed
  <2>5. CASE i # j
    <3>1. sockets'[j] = sockets[j]
      BY <1>1, <2>3, <2>5 DEF TypeOK
    <3>2. \A d \in Conns : conns[d].index = j \/ conns'[d].index = j => conns'[d] = conns[d]
      BY <1>2, <2>1, <2>3, <2>5
    <3> QED BY <1>1, <2>2, <2>3, <2>5, <3>1, <3>2, NetworkElsewhere
  <2> QED BY <2>4, <2>5
<1> QED BY <1>3, <1>4, <1>5, <1>6, <1>7, <1>8, <1>9

\* A step of the routing thread.
LEMMA UnansweredRouting ==
    ASSUME LiveInv, NEW j \in Index,
           \/ HandleNewPeer \/ HandlePeerDisconnect
           \/ IgnoreMessage \/ HandleHandshakeChallenge
           \/ RefuseHandshakeResponse \/ HandleHandshakeResponse
           \/ ProcessTimerEvent
           \/ \E k \in StunKeys : AddStunPeer(k)
           \/ \E i \in Index : RemoveStunPeer(i)
    PROVE  Unanswered(j)'
<1> USE PeersAssumption
<1>1. /\ TypeOK /\ sockets' = sockets /\ conns' = conns /\ peers \in [Index -> Peer]
  BY DEF LiveInv, TypeOK, HandleNewPeer, HandlePeerDisconnect, IgnoreMessage,
         HandleHandshakeChallenge, RefuseHandshakeResponse, HandleHandshakeResponse,
         ProcessTimerEvent, AddStunPeer, RemoveStunPeer
<1>2. ASSUME requests' = requests
      PROVE  /\ \A n \in DOMAIN requests : n \in DOMAIN requests' /\ requests'[n] = requests[n]
             /\ \A n \in DOMAIN requests' \ DOMAIN requests :
                  ~ (requests'[n].type = "send" /\ requests'[n].index = j)
  BY <1>2
<1>3. ASSUME NEW r \in Request, requests' = Append(requests, r), r.type # "send" \/ r.index # j
      PROVE  /\ \A n \in DOMAIN requests : n \in DOMAIN requests' /\ requests'[n] = requests[n]
             /\ \A n \in DOMAIN requests' \ DOMAIN requests :
                  ~ (requests'[n].type = "send" /\ requests'[n].index = j)
  BY <1>1, <1>3, RequestAdded
<1>4. ASSUME NEW s \in Seq(Request), requests' = requests \o s,
             \A n \in DOMAIN s : s[n].type # "send"
      PROVE  /\ \A n \in DOMAIN requests : n \in DOMAIN requests' /\ requests'[n] = requests[n]
             /\ \A n \in DOMAIN requests' \ DOMAIN requests :
                  ~ (requests'[n].type = "send" /\ requests'[n].index = j)
  <2>1. /\ Len(requests) \in Nat /\ DOMAIN requests = 1 .. Len(requests)
        /\ DOMAIN requests' = 1 .. Len(requests) + Len(s)
        /\ \A n \in 1 .. Len(requests) : requests'[n] = requests[n]
        /\ \A n \in Len(requests) + 1 .. Len(requests) + Len(s) :
             requests'[n] = s[n - Len(requests)]
    BY <1>1, <1>4, RequestsChange
  <2>2. Len(s) \in Nat /\ DOMAIN s = 1 .. Len(s)
    BY <1>4
  <2>3. \A n \in DOMAIN requests : n \in DOMAIN requests' /\ requests'[n] = requests[n]
    BY <2>1, <2>2
  <2>4. ASSUME NEW n \in DOMAIN requests', n \notin DOMAIN requests
        PROVE  requests'[n].type # "send"
    <3>1. n \in Len(requests) + 1 .. Len(requests) + Len(s) /\ n - Len(requests) \in DOMAIN s
      BY <2>1, <2>2, <2>4
    <3> QED BY <1>4, <2>1, <3>1
  <2> QED BY <2>3, <2>4
<1>5. ASSUME events # << >>, events' = Tail(events), Head(events).index # j, peers'[j] = peers[j],
             \/ requests' = requests
             \/ \E r \in Request : /\ requests' = Append(requests, r)
                                   /\ r.type # "send" \/ r.index # j
             \/ \E s \in Seq(Request) : /\ requests' = requests \o s
                                        /\ \A n \in DOMAIN s : s[n].type # "send"
      PROVE  Unanswered(j)'
  <2>1. ~ Renews(Head(events), j)
    BY <1>5 DEF Renews, New, Asks
  <2>2. Lost(j)' = Lost(j) /\ Known(j)' = Known(j)
    BY <1>5 DEF Lost, Known
  <2> QED BY <1>1, <1>2, <1>3, <1>4, <1>5, <2>1, <2>2, RoutingQuiet
<1>6. ASSUME NEW type, Received(type)
      PROVE  /\ events # << >> /\ events' = Tail(events)
             /\ Head(events).index \in Index /\ Head(events).msg \in Message
  BY <1>1, <1>6, ChannelTypes DEF Received, Event
<1>7. CASE HandleNewPeer
  <2>1. PICK i \in Index : i = Head(events).index /\ events # << >> /\ events' = Tail(events)
    BY <1>6, <1>7 DEF HandleNewPeer
  <2>2. CASE i = j
    BY <1>7, <2>1, <2>2, NewPeerHandled
  <2>3. CASE i # j
    <3>1. peers'[j] = peers[j]
      BY <1>1, <1>7, <2>1, <2>3 DEF HandleNewPeer
    <3>2. \/ requests' = requests
          \/ \E x \in Fresh : requests' = Append(requests, Send(i, None, x))
      BY <1>7, <2>1 DEF HandleNewPeer
    <3>3. \A x \in Fresh : Send(i, None, x) \in Request /\ Send(i, None, x).index = i
      BY <2>1, RequestTypes, FreshType DEF KeyOrNone, Send
    <3> QED BY <1>5, <2>1, <2>3, <3>1, <3>2, <3>3
  <2> QED BY <2>2, <2>3
<1>8. CASE HandlePeerDisconnect
  <2>1. PICK i \in Index : i = Head(events).index /\ events # << >> /\ events' = Tail(events)
    BY <1>6, <1>8 DEF HandlePeerDisconnect
  <2>2. CASE i = j
    BY <1>8, <2>1, <2>2, LossHandled
  <2>3. CASE i # j
    <3>1. peers'[j] = peers[j] /\ requests' = requests
      BY <1>1, <1>8, <2>1, <2>3 DEF HandlePeerDisconnect
    <3> QED BY <1>5, <2>1, <2>3, <3>1
  <2> QED BY <2>2, <2>3
<1>9. CASE IgnoreMessage
  <2>1. /\ events # << >> /\ events' = Tail(events)
        /\ peers' = peers /\ requests' = requests /\ ~ Known(Head(events).index)
    BY <1>6, <1>9 DEF IgnoreMessage, collection
  <2>2. CASE Head(events).index = j
    <3>1. ~ Known(j)' /\ ~ Lost(j)'
      BY <2>1, <2>2 DEF Known, Lost
    <3> QED BY <1>1, <2>1, <3>1, NotLost
  <2>3. CASE Head(events).index # j
    BY <1>5, <2>1, <2>3
  <2> QED BY <2>2, <2>3
<1>10. CASE HandleHandshakeChallenge
  <2>1. PICK i \in Index : /\ i = Head(events).index /\ events # << >> /\ events' = Tail(events)
                           /\ Head(events).msg \in Message
    BY <1>6, <1>10 DEF HandleHandshakeChallenge
  <2>2. CASE i = j
    BY <1>10, <2>1, <2>2, QuestionHandled
  <2>3. CASE i # j
    <3>1. PICK x \in Fresh : /\ peers' = [peers EXCEPT ![i].challenge = x]
                             /\ requests' = Append(requests, Send(i, Signed(Head(events).msg.challenge), x))
      BY <1>10, <2>1 DEF HandleHandshakeChallenge
    <3>2. peers'[j] = peers[j]
      BY <1>1, <2>3, <3>1
    <3>3. PICK r \in Request : r = Send(i, Signed(Head(events).msg.challenge), x)
      BY <2>1, RequestTypes, SignedType, FreshType DEF KeyOrNone, Message
    <3>4. r.index = i
      BY <3>3 DEF Send
    <3> QED BY <1>5, <2>1, <2>3, <3>1, <3>2, <3>3, <3>4
  <2> QED BY <2>2, <2>3
<1>11. CASE RefuseHandshakeResponse
  <2>1. PICK i \in Index : i = Head(events).index /\ events # << >> /\ events' = Tail(events)
    BY <1>6, <1>11 DEF RefuseHandshakeResponse
  <2>2. CASE i = j
    BY <1>11, <2>1, <2>2, ResponseRefused
  <2>3. CASE i # j
    <3>1. /\ peers'[j] = peers[j]
          /\ requests' = requests \o <<Disconnect(i), Disconnect(i)>>
      BY <1>1, <1>11, <2>1, <2>3 DEF RefuseHandshakeResponse
    <3>2. Disconnect(i) \in Request /\ Disconnect(i).type # "send"
      BY <2>1, RequestTypes DEF KeyOrNone, Disconnect
    <3>3. PICK s \in Seq(Request) : requests' = requests \o s /\ \A n \in DOMAIN s : s[n].type # "send"
      <4>1. PICK r \in Request : r = Disconnect(i)
        BY <3>2
      <4>2. <<r, r>> \in Seq(Request) /\ \A n \in DOMAIN <<r, r>> : <<r, r>>[n] = r
        OBVIOUS
      <4> QED BY <3>1, <3>2, <4>1, <4>2
    <3> QED BY <1>5, <2>1, <2>3, <3>1, <3>3
  <2> QED BY <2>2, <2>3
<1>12. CASE HandleHandshakeResponse
  <2>1. PICK i \in Index : /\ i = Head(events).index /\ events # << >> /\ events' = Tail(events)
                           /\ Head(events).msg \in Message
    BY <1>6, <1>12 DEF HandleHandshakeResponse
  <2>2. /\ Known(i) /\ Known(i)' /\ ~ Lost(i)'
        /\ \A k \in Index \ {i} :
             \/ peers'[k] = peers[k]
             \/ peers'[k] = Absent /\ peers[k].status # "connected"
    BY <1>12, <2>1, ResponseAccepted
  <2>3. CASE i = j
    BY <1>1, <2>1, <2>2, <2>3, NotLost
  <2>4. CASE i # j /\ peers'[j] = Absent
    <3>1. ~ Known(j)' /\ ~ Lost(j)'
      BY <2>4 DEF Known, Lost, Absent
    <3> QED BY <1>1, <2>1, <3>1, NotLost
  <2>5. CASE i # j /\ peers'[j] = peers[j]
    <3>1. PICK r \in Request : r = Send(i, Signed(Head(events).msg.challenge), None)
      BY <2>1, RequestTypes, SignedType DEF KeyOrNone, Message
    <3>2. requests' = requests \/ requests' = Append(requests, r)
      BY <1>12, <2>1, <3>1, Zenon DEF HandleHandshakeResponse
    <3>3. r.index = i
      BY <3>1 DEF Send
    <3> QED BY <1>5, <2>1, <2>5, <3>2, <3>3
  <2> QED BY <2>2, <2>3, <2>4, <2>5
<1>13. CASE ProcessTimerEvent
  <2>1. PICK s \in Seq(Request) : requests' = requests \o s /\ \A n \in DOMAIN s : s[n].type # "send"
    <3>1. PICK due \in SUBSET {i \in Index : peers[i].status = "disconnected" /\ peers[i].static # NoHost} :
             Dial(due)
      BY <1>13 DEF ProcessTimerEvent
    <3>2. PICK s \in Seq(Request) : /\ requests' = requests \o s
                                    /\ \A n \in DOMAIN s : s[n].type = "connect"
      BY <1>1, <3>1, DialRequests
    <3> QED BY <3>2
  <2>2. peers'[j] = peers[j] \/ peers'[j] = Absent
    BY <1>13 DEF ProcessTimerEvent, RemoveDisconnectedPeers
  <2>3. /\ Known(j)' => Known(j)
        /\ Lost(j)' => Lost(j) /\ peers'[j].challenge = peers[j].challenge
    BY <2>2 DEF Known, Lost, Absent
  <2>4. events' = events
    BY <1>13 DEF ProcessTimerEvent
  <2> QED BY <1>1, <1>4, <2>1, <2>3, <2>4, RoutingQuiet
<1>14. ASSUME NEW k \in StunKeys, AddStunPeer(k) PROVE Unanswered(j)'
  <2>1. /\ events' = events /\ requests' = requests
        /\ peers' = [peers EXCEPT ![counter + 1] =
                       [Absent EXCEPT !.status = "connected", !.key = k, !.stun = TRUE]]
    BY <1>14 DEF AddStunPeer
  <2>2. CASE j = counter + 1
    <3>1. ~ Lost(j)'
      BY <1>1, <2>1, <2>2 DEF Lost, Absent
    <3>2. sockets[j] = None
      <4> SUFFICES ASSUME sockets[j] # None PROVE FALSE
        OBVIOUS
      <4>1. sockets[j] \in Conns /\ conns[sockets[j]].index = j /\ j # None
        BY DEF LiveInv, TypeOK, Plugged, Index, None
      <4>2. j <= counter
        BY <4>1 DEF LiveInv, Counted
      <4> QED BY <1>1, <2>2, <4>2 DEF TypeOK
    <3> QED BY <1>1, <2>1, <3>1, <3>2, NotLost
  <2>3. CASE j # counter + 1
    <3>1. peers'[j] = peers[j]
      BY <1>1, <2>1, <2>3
    <3>2. Lost(j)' = Lost(j) /\ Known(j)' = Known(j)
      BY <3>1 DEF Lost, Known
    <3> QED BY <1>1, <1>2, <2>1, <3>1, <3>2, RoutingQuiet
  <2> QED BY <2>2, <2>3
<1>15. ASSUME NEW i \in Index, RemoveStunPeer(i) PROVE Unanswered(j)'
  <2>1. events' = events /\ requests' = requests /\ (peers'[j] = peers[j] \/ peers'[j] = Absent)
    BY <1>1, <1>15 DEF RemoveStunPeer, Without
  <2>2. /\ Known(j)' => Known(j)
        /\ Lost(j)' => Lost(j) /\ peers'[j].challenge = peers[j].challenge
    BY <2>1 DEF Known, Lost, Absent
  <2> QED BY <1>1, <1>2, <2>1, <2>2, RoutingQuiet
<1> QED BY <1>7, <1>8, <1>9, <1>10, <1>11, <1>12, <1>13, <1>14, <1>15

\* An event that is queued was queued before the step, or is the one reported.
LEMMA EventsOrigin ==
    ASSUME TypeOK, NEW S \in SUBSET Event
    PROVE  \/ events' = events
           \/ events # << >> /\ events' = Tail(events)
           \/ \E e \in S : events' = Append(events, e)
           => \A n \in DOMAIN events' :
                events'[n] \in S \/ \E m \in DOMAIN events : events'[n] = events[m]
<1>1. ASSUME events' = events
      PROVE  \A n \in DOMAIN events' :
               events'[n] \in S \/ \E m \in DOMAIN events : events'[n] = events[m]
  BY <1>1
<1>2. ASSUME events # << >>, events' = Tail(events)
      PROVE  \A n \in DOMAIN events' :
               events'[n] \in S \/ \E m \in DOMAIN events : events'[n] = events[m]
  <2>1. \A n \in DOMAIN events' : n + 1 \in DOMAIN events /\ events'[n] = events[n + 1]
    BY <1>2, HeadTaken
  <2> QED BY <2>1
<1>3. ASSUME \E e \in S : events' = Append(events, e)
      PROVE  \A n \in DOMAIN events' :
               events'[n] \in S \/ \E m \in DOMAIN events : events'[n] = events[m]
  <2>1. PICK e \in S : events' = Append(events, e)
    BY <1>3
  <2>2. /\ Len(events) \in Nat /\ DOMAIN events = 1 .. Len(events)
        /\ DOMAIN events' = 1 .. Len(events) + 1
        /\ \A n \in 1 .. Len(events) : events'[n] = events[n]
        /\ events'[Len(events) + 1] = e
    BY <2>1, EventsChange
  <2> QED BY <2>2
<1> QED BY <1>1, <1>2, <1>3

\* A request that waits waited before the step, or is one of those made.
LEMMA RequestsOrigin ==
    ASSUME TypeOK, NEW S \in SUBSET Request
    PROVE  \/ requests' = requests
           \/ requests # << >> /\ requests' = Tail(requests)
           \/ \E s \in Seq(S) : requests' = requests \o s
           => \A n \in DOMAIN requests' :
                requests'[n] \in S \/ \E m \in DOMAIN requests : requests'[n] = requests[m]
<1>1. ASSUME requests' = requests
      PROVE  \A n \in DOMAIN requests' :
               requests'[n] \in S \/ \E m \in DOMAIN requests : requests'[n] = requests[m]
  BY <1>1
<1>2. ASSUME requests # << >>, requests' = Tail(requests)
      PROVE  \A n \in DOMAIN requests' :
               requests'[n] \in S \/ \E m \in DOMAIN requests : requests'[n] = requests[m]
  <2>1. /\ Len(requests) \in Nat /\ DOMAIN requests = 1 .. Len(requests)
        /\ DOMAIN requests' = 1 .. Len(requests) - 1
        /\ \A n \in 1 .. Len(requests) - 1 : requests'[n] = requests[n + 1]
    BY <1>2, RequestsChange
  <2>2. \A n \in DOMAIN requests' : n + 1 \in DOMAIN requests /\ requests'[n] = requests[n + 1]
    BY <2>1
  <2> QED BY <2>2
<1>3. ASSUME \E s \in Seq(S) : requests' = requests \o s
      PROVE  \A n \in DOMAIN requests' :
               requests'[n] \in S \/ \E m \in DOMAIN requests : requests'[n] = requests[m]
  <2>1. PICK s \in Seq(S) : requests' = requests \o s
    BY <1>3
  <2>2. s \in Seq(Request) /\ Len(s) \in Nat /\ DOMAIN s = 1 .. Len(s) /\ \A n \in DOMAIN s : s[n] \in S
    BY <2>1
  <2>3. /\ Len(requests) \in Nat /\ DOMAIN requests = 1 .. Len(requests)
        /\ DOMAIN requests' = 1 .. Len(requests) + Len(s)
        /\ \A n \in 1 .. Len(requests) : requests'[n] = requests[n]
        /\ \A n \in Len(requests) + 1 .. Len(requests) + Len(s) :
             requests'[n] = s[n - Len(requests)]
    BY <2>1, <2>2, RequestsChange
  <2>4. \A n \in DOMAIN requests' :
          \/ n \in DOMAIN requests /\ requests'[n] = requests[n]
          \/ n - Len(requests) \in DOMAIN s /\ requests'[n] = s[n - Len(requests)]
    BY <2>2, <2>3
  <2> QED BY <2>2, <2>4
<1> QED BY <1>1, <1>2, <1>3

\* Indices stay below the counter.
LEMMA CountedKept ==
    ASSUME LiveInv, TypeOK', counter <= counter',
           \A i \in Index : Known(i)' => Known(i) \/ i <= counter',
           \/ events' = events
           \/ events # << >> /\ events' = Tail(events)
           \/ \E e \in {f \in Event : f.index <= counter'} : events' = Append(events, e),
           \/ requests' = requests
           \/ requests # << >> /\ requests' = Tail(requests)
           \/ \E s \in Seq({r \in Request : r.index <= counter'}) : requests' = requests \o s,
           \A c \in Conns : \/ conns'[c].index \in {None, conns[c].index}
                            \/ conns'[c].index <= counter'
    PROVE  Counted'
<1>1. /\ TypeOK /\ counter \in Nat /\ counter' \in Nat /\ \A i \in Index : i \in Nat
  BY PeersAssumption DEF LiveInv, TypeOK, Index
<1>2. \A i \in Index : i <= counter => i <= counter'
  BY <1>1
<1>3. /\ \A i \in Index : Known(i) => i <= counter
      /\ \A n \in DOMAIN events : events[n].index \in Index /\ events[n].index <= counter
      /\ \A n \in DOMAIN requests : requests[n].index \in Index /\ requests[n].index <= counter
      /\ \A c \in Conns : conns[c].index # None => conns[c].index \in Index /\ conns[c].index <= counter
  <2>1. \A n \in DOMAIN events : events[n].index \in Index
    <3>1. \A n \in DOMAIN events : events[n] \in Event
      BY <1>1 DEF TypeOK
    <3> QED BY <3>1 DEF Event
  <2>2. \A n \in DOMAIN requests : requests[n].index \in Index
    <3>1. \A n \in DOMAIN requests : requests[n] \in Request
      BY <1>1 DEF TypeOK
    <3> QED BY <3>1 DEF Request
  <2>3. \A c \in Conns : conns[c].index # None => conns[c].index \in Index
    BY <1>1 DEF TypeOK, Conn
  <2> QED BY <2>1, <2>2, <2>3 DEF LiveInv, Counted
<1>4. \A i \in Index : Known(i)' => i <= counter'
  BY <1>2, <1>3
<1>5. \A n \in DOMAIN events' : events'[n].index <= counter'
  <2>1. \A n \in DOMAIN events' : \/ events'[n] \in {f \in Event : f.index <= counter'}
                                  \/ \E m \in DOMAIN events : events'[n] = events[m]
    BY <1>1, EventsOrigin
  <2> QED BY <1>2, <1>3, <2>1
<1>6. \A n \in DOMAIN requests' : requests'[n].index <= counter'
  <2>1. \A n \in DOMAIN requests' : \/ requests'[n] \in {r \in Request : r.index <= counter'}
                                    \/ \E m \in DOMAIN requests : requests'[n] = requests[m]
    BY <1>1, RequestsOrigin
  <2> QED BY <1>2, <1>3, <2>1
<1>7. \A c \in Conns : conns'[c].index # None => conns'[c].index <= counter'
  BY <1>2, <1>3
<1> QED BY <1>4, <1>5, <1>6, <1>7 DEF Counted

\* A step of the network keeps the indices counted and the sockets plugged.
LEMMA OrderNetwork ==
    ASSUME LiveInv, TypeOK',
           \/ \E h \in Hosts : Incoming(h)
           \/ DialSucceeds \/ DialFails \/ DisconnectSocket \/ SendMessage
           \/ \E c \in Conns : ReadMessage(c) \/ ReaderEnds(c)
    PROVE  Counted' /\ Plugged' /\ Present'
<1>1. TypeOK /\ peers' = peers /\ Plugged /\ counter \in Nat /\ counter' \in Nat
  <2>1. peers' = peers
    BY DEF Incoming, DialSucceeds, DialFails, DisconnectSocket, SendMessage, ReadMessage,
           ReaderEnds, collection
  <2>2. TypeOK /\ Plugged /\ counter \in Nat /\ counter' \in Nat
    BY PeersAssumption DEF LiveInv, TypeOK
  <2> QED BY <2>1, <2>2
<1>2. Present' /\ \A i \in Index : Known(i)' => Known(i)
  BY <1>1 DEF LiveInv, Present, Lost, Known
<1>3. ASSUME NEW i \in Index, NEW h, NEW d, NEW x, NEW in, NewConnection(i, h, d, x, in),
             i <= counter'
      PROVE  /\ Plugged'
             /\ \E e \in {f \in Event : f.index <= counter'} : events' = Append(events, e)
             /\ \A c \in Conns : \/ conns'[c].index \in {None, conns[c].index}
                                 \/ conns'[c].index <= counter'
  <2>1. PICK c \in Conns : c = made + 1
    BY <1>1, <1>3, PeersAssumption DEF TypeOK, NewConnection, Conns
  <2>2. /\ sockets' = [sockets EXCEPT ![i] = c]
        /\ conns' = [conns EXCEPT ![c] = [index |-> i, host |-> h, dialled |-> d, theirs |-> x,
                                          inbox |-> in, view |-> "waiting"]]
    BY <1>3, <2>1 DEF NewConnection
  <2>3. conns'[c].index = i /\ \A b \in Conns \ {c} : conns'[b] = conns[b]
    BY <1>1, <2>2 DEF TypeOK
  <2>4. conns[c].index = None
    <3>1. c > made
      BY <1>1, <2>1 DEF TypeOK
    <3> QED BY <3>1 DEF LiveInv, Unmade
  <2>5. Plugged'
    <3> SUFFICES ASSUME NEW j \in Index, sockets'[j] # None PROVE conns'[sockets'[j]].index = j
      BY DEF Plugged
    <3>1. CASE j = i
      BY <1>1, <2>2, <2>3, <3>1 DEF TypeOK
    <3>2. CASE j # i
      <4>1. sockets'[j] = sockets[j] /\ j # None
        BY <1>1, <2>2, <3>2 DEF TypeOK, Index, None
      <4>2. sockets'[j] = sockets[j] /\ sockets[j] \in Conns /\ conns[sockets[j]].index = j /\ j # None
        BY <1>1, <4>1 DEF TypeOK, Plugged
      <4> QED BY <2>3, <2>4, <4>2
    <3> QED BY <3>1, <3>2
  <2>6. PICK e \in Event : events' = Append(events, e) /\ New(e, i)
    BY <1>1, <1>3, NewPeerReported
  <2> QED BY <1>3, <2>3, <2>5, <2>6 DEF New
<1>4. ASSUME NEW i \in Index, sockets' = sockets \/ sockets' = [sockets EXCEPT ![i] = None],
             \A c \in Conns : \/ conns'[c].index = conns[c].index
                              \/ conns[c].index = i /\ sockets' # sockets
      PROVE  Plugged'
  <2> SUFFICES ASSUME NEW j \in Index, sockets'[j] # None PROVE conns'[sockets'[j]].index = j
    BY DEF Plugged
  <2>1. sockets'[j] = sockets[j] /\ (j = i => sockets' = sockets)
    BY <1>1, <1>4 DEF TypeOK
  <2>2. sockets[j] \in Conns /\ conns[sockets[j]].index = j
    BY <1>1, <2>1 DEF TypeOK, Plugged
  <2> QED BY <1>4, <2>1, <2>2
<1>5. ASSUME NEW h \in Hosts, Incoming(h) PROVE Counted' /\ Plugged'
  <2>1. PICK i \in Index : i = counter + 1
    BY <1>1, <1>5, PeersAssumption DEF TypeOK, Incoming, Index
  <2>2. NewConnection(i, h, FALSE, None, << >>) /\ requests' = requests /\ counter' = counter + 1
    BY <1>5, <2>1 DEF Incoming
  <2>3. counter <= counter' /\ i <= counter'
    BY <1>1, <2>1, <2>2
  <2> QED BY <1>2, <1>3, <2>2, <2>3, CountedKept
<1>6. ASSUME requests # << >> PROVE Head(requests).index \in Index /\ Head(requests).index <= counter
  <2>1. 1 \in DOMAIN requests /\ Head(requests) = requests[1] /\ Head(requests).index \in Index
    BY <1>1, <1>6, ChannelTypes DEF TypeOK, Request
  <2> QED BY <2>1 DEF LiveInv, Counted
<1>7. CASE DialSucceeds
  <2>1. requests # << >> /\ requests' = Tail(requests) /\ counter' = counter
    BY <1>7 DEF DialSucceeds, Requested, collection
  <2>2. PICK x \in Fresh :
           NewConnection(Head(requests).index, Head(requests).key, TRUE, x,
                         <<[signed |-> None, challenge |-> x]>>)
    BY <1>7 DEF DialSucceeds
  <2>3. counter <= counter' /\ Head(requests).index \in Index /\ Head(requests).index <= counter'
    BY <1>1, <1>6, <2>1
  <2> QED BY <1>2, <1>3, <2>1, <2>2, <2>3, CountedKept
<1>8. CASE DialFails
  <2>1. /\ requests # << >> /\ requests' = Tail(requests) /\ counter' = counter
        /\ events' = events /\ sockets' = sockets /\ conns' = conns
    BY <1>8 DEF DialFails, Requested, collection
  <2>2. Plugged'
    BY <1>1, <2>1 DEF Plugged
  <2>3. counter <= counter'
    BY <1>1, <2>1
  <2> QED BY <1>2, <2>1, <2>2, <2>3, CountedKept
<1>9. CASE DisconnectSocket
  <2>1. /\ requests # << >> /\ requests' = Tail(requests) /\ conns' = conns /\ counter' = counter
    BY <1>9 DEF DisconnectSocket, Requested, collection
  <2>2. PICK i \in Index : i = Head(requests).index /\ i <= counter
    BY <1>6, <2>1
  <2>3. PICK e \in Event : events' = Append(events, e) /\ e.type = "gone" /\ e.index = i
    <3> DEFINE e == [type |-> "gone", index |-> i, key |-> NoHost, msg |-> NoMessage]
    <3>1. e \in Event
      BY DEF Event, KeyOrNone, NoMessage, Message
    <3> QED BY <1>9, <2>2, <3>1 DEF DisconnectSocket, Report
  <2>4. sockets' = [sockets EXCEPT ![i] = None]
    BY <1>9, <2>2 DEF DisconnectSocket
  <2>5. Plugged'
    BY <1>4, <2>1, <2>4
  <2>6. counter <= counter' /\ e.index <= counter'
    BY <1>1, <2>1, <2>2, <2>3
  <2> QED BY <1>2, <2>1, <2>3, <2>5, <2>6, CountedKept
<1>10. CASE SendMessage
  <2>1. /\ requests # << >> /\ requests' = Tail(requests) /\ events' = events /\ counter' = counter
        /\ Head(requests).msg \in Message
    BY <1>1, <1>10, ChannelTypes DEF SendMessage, Requested, collection, Request
  <2>2. PICK i \in Index : i = Head(requests).index
    BY <1>6, <2>1
  <2>3. /\ sockets' = sockets \/ sockets' = [sockets EXCEPT ![i] = None]
        /\ \/ conns' = conns
           \/ sockets[i] # None /\ RemoteHears(sockets[i], Head(requests).msg)
    BY <1>10, <2>2 DEF SendMessage
  <2>4. \A c \in Conns : conns'[c].index = conns[c].index
    <3>1. CASE conns' = conns
      BY <3>1
    <3>2. CASE sockets[i] # None /\ RemoteHears(sockets[i], Head(requests).msg)
      <4>1. sockets[i] \in Conns
        BY <1>1, <3>2 DEF TypeOK
      <4> QED BY <1>1, <2>1, <3>2, <4>1, HearsChange
    <3> QED BY <2>3, <3>1, <3>2
  <2>5. Plugged'
    BY <1>4, <2>3, <2>4
  <2>6. counter <= counter'
    BY <1>1, <2>1
  <2> QED BY <1>2, <2>1, <2>4, <2>5, <2>6, CountedKept
<1>11. ASSUME NEW c \in Conns, ReadMessage(c) PROVE Counted' /\ Plugged'
  <2>1. /\ conns[c] \in Conn /\ conns[c].index \in Index
        /\ Head(conns[c].inbox) \in Message
    BY <1>1, <1>11 DEF TypeOK, Conn, ReadMessage, Reading
  <2>2. conns[c].index <= counter
    BY <1>11 DEF LiveInv, Counted, ReadMessage, Reading
  <2>3. PICK e \in Event : events' = Append(events, e) /\ e.index = conns[c].index
    <3>1. PICK key \in Keys :
            /\ [type |-> "message", index |-> conns[c].index, key |-> key,
                msg |-> Head(conns[c].inbox)] \in Event
            /\ events' = Append(events, [type |-> "message", index |-> conns[c].index,
                                         key |-> key, msg |-> Head(conns[c].inbox)])
      BY <1>1, <1>11, ReadReports
    <3> QED BY <3>1
  <2>4. \A d \in Conns : conns'[d].index = conns[d].index
    BY <1>1, <1>11, <2>1 DEF ReadMessage, TypeOK, Conn
  <2>5. sockets' = sockets /\ requests' = requests /\ counter' = counter
    BY <1>11 DEF ReadMessage, collection
  <2>6. Plugged'
    BY <1>4, <2>1, <2>4, <2>5
  <2>7. counter <= counter' /\ e.index <= counter'
    BY <1>1, <2>2, <2>3, <2>5
  <2> QED BY <1>2, <2>3, <2>4, <2>5, <2>6, <2>7, CountedKept
<1>12. ASSUME NEW c \in Conns, ReaderEnds(c) PROVE Counted' /\ Plugged'
  <2>1. PICK i \in Index : i = conns[c].index
    BY <1>1, <1>12 DEF ReaderEnds, Reading, TypeOK, Conn
  <2>2. PICK e \in Event : events' = Append(events, e) /\ e.type = "gone" /\ e.index = i
    <3> DEFINE e == [type |-> "gone", index |-> i, key |-> NoHost, msg |-> NoMessage]
    <3>1. e \in Event
      BY DEF Event, KeyOrNone, NoMessage, Message
    <3> QED BY <1>12, <2>1, <3>1 DEF ReaderEnds, Report
  <2>3. /\ sockets' = [sockets EXCEPT ![i] = None] /\ requests' = requests /\ counter' = counter
        /\ conns'[c].index = None /\ \A d \in Conns \ {c} : conns'[d] = conns[d]
    BY <1>1, <1>12, <2>1 DEF ReaderEnds, TypeOK, NoConn, collection
  <2>4. Plugged'
    <3> SUFFICES ASSUME NEW j \in Index, sockets'[j] # None PROVE conns'[sockets'[j]].index = j
      BY DEF Plugged
    <3>1. sockets'[j] = sockets[j] /\ j # i
      BY <1>1, <2>3 DEF TypeOK
    <3>2. sockets[j] \in Conns /\ conns[sockets[j]].index = j
      BY <1>1, <3>1 DEF TypeOK, Plugged
    <3> QED BY <2>1, <2>3, <3>1, <3>2
  <2>5. i <= counter
    BY <2>1 DEF LiveInv, Counted, Index, None
  <2>6. counter <= counter' /\ e.index <= counter'
    BY <1>1, <2>2, <2>3, <2>5
  <2>7. \A d \in Conns : conns'[d].index \in {None, conns[d].index}
    BY <2>3
  <2> QED BY <1>2, <2>2, <2>3, <2>4, <2>6, <2>7, CountedKept
<1> QED BY <1>2, <1>5, <1>7, <1>8, <1>9, <1>10, <1>11, <1>12

\* handle_new_peer: the peer waits for its handshake, the others are left alone.
LEMMA NewPeerWaits ==
    ASSUME TypeOK, HandleNewPeer, NEW i \in Index
    PROVE  /\ i = Head(events).index => peers'[i].status = "connecting"
           /\ i # Head(events).index => peers'[i] = peers[i]
<1>1. PICK j : j = Head(events).index
  OBVIOUS
<1>2. peers \in [Index -> Peer]
  BY DEF TypeOK
<1>3. PICK p : p = [peers[j] EXCEPT !.status = "connecting"]
  OBVIOUS
<1>4. \/ peers' = [peers EXCEPT ![j] = p]
      \/ \E x : peers' = [peers EXCEPT ![j] = [p EXCEPT !.challenge = x]]
  BY <1>1, <1>3 DEF HandleNewPeer
<1>5. CASE i = j
  <2>1. p.status = "connecting" /\ \A x : [p EXCEPT !.challenge = x].status = "connecting"
    BY <1>2, <1>3, <1>5 DEF Peer
  <2>2. \A q : [peers EXCEPT ![j] = q][i] = q
    BY <1>2, <1>5
  <2>3. peers'[i] = p \/ \E x : peers'[i] = [p EXCEPT !.challenge = x]
    BY <1>4, <2>2
  <2> QED BY <1>1, <1>5, <2>1, <2>3
<1>6. CASE i # j
  <2>1. \A q : [peers EXCEPT ![j] = q][i] = peers[i]
    BY <1>2, <1>6
  <2> QED BY <1>1, <1>4, <1>6, <2>1
<1> QED BY <1>5, <1>6

\* So does a step of the routing thread, after which a connected peer is not lost.
LEMMA OrderRouting ==
    ASSUME LiveInv, TypeOK',
           \/ HandleNewPeer \/ HandlePeerDisconnect
           \/ IgnoreMessage \/ HandleHandshakeChallenge
           \/ RefuseHandshakeResponse \/ HandleHandshakeResponse
           \/ ProcessTimerEvent
           \/ \E k \in StunKeys : AddStunPeer(k)
           \/ \E i \in Index : RemoveStunPeer(i)
    PROVE  Counted' /\ Plugged' /\ Present'
<1> USE PeersAssumption
<1>1. /\ TypeOK /\ peers \in [Index -> Peer] /\ counter \in Nat /\ counter' \in Nat
      /\ \A i \in Index : i \in Nat
  BY DEF LiveInv, TypeOK, Index
<1>2. sockets' = sockets /\ conns' = conns
  BY DEF HandleNewPeer, HandlePeerDisconnect, IgnoreMessage, HandleHandshakeChallenge,
         RefuseHandshakeResponse, HandleHandshakeResponse, ProcessTimerEvent, AddStunPeer,
         RemoveStunPeer
<1>3. Plugged'
  BY <1>2 DEF LiveInv, Plugged
<1>4. ASSUME counter' = counter,
             events' = events \/ (events # << >> /\ events' = Tail(events)),
             \/ requests' = requests
             \/ \E r \in Request : r.index <= counter /\ requests' = Append(requests, r)
             \/ \E s \in Seq({r \in Request : r.index <= counter}) : requests' = requests \o s,
             \A i \in Index : \/ peers'[i] \in {peers[i], Absent}
                              \/ /\ Known(i)' /\ (Known(i) \/ i <= counter)
                                 /\ peers'[i].status = "connected" => ~ Lost(i)'
      PROVE  Counted' /\ Present'
  <2>1. counter <= counter' /\ \A i \in Index : Known(i)' => Known(i) \/ i <= counter'
    BY <1>1, <1>4 DEF Known, Absent
  <2>2. \/ requests' = requests
        \/ \E s \in Seq({r \in Request : r.index <= counter'}) : requests' = requests \o s
    <3>1. ASSUME NEW r \in Request, r.index <= counter, requests' = Append(requests, r)
          PROVE  \E s \in Seq({q \in Request : q.index <= counter'}) : requests' = requests \o s
      <4>1. r \in {q \in Request : q.index <= counter'}
        BY <1>4, <3>1
      <4>2. <<r>> \in Seq({q \in Request : q.index <= counter'})
        BY <4>1
      <4>3. requests' = requests \o <<r>>
        BY <1>1, <3>1 DEF TypeOK
      <4> QED BY <4>2, <4>3
    <3> QED BY <1>4, <3>1
  <2>3. Counted'
    BY <1>2, <1>4, <2>1, <2>2, CountedKept
  <2>4. Present'
    <3> SUFFICES ASSUME NEW i \in Index
                 PROVE  /\ peers'[i].status = "connected" => ~ Lost(i)'
                        /\ ~ Known(i)' => ~ peers'[i].away
      BY DEF Present
    <3>1. CASE peers'[i] = peers[i]
      BY <3>1 DEF LiveInv, Present, Known, Lost
    <3>2. CASE peers'[i] = Absent
      BY <3>2 DEF Absent, Known
    <3> QED BY <1>4, <3>1, <3>2
  <2> QED BY <2>3, <2>4
<1>5. ASSUME NEW type, Received(type)
      PROVE  /\ events # << >> /\ events' = Tail(events)
             /\ Head(events).index \in Index /\ Head(events).index <= counter
             /\ Head(events).msg \in Message
  <2>1. /\ events # << >> /\ events' = Tail(events)
        /\ Head(events).index \in Index /\ Head(events).msg \in Message
    BY <1>1, <1>5, ChannelTypes DEF Received, Event
  <2>2. 1 \in DOMAIN events /\ events[1] = Head(events)
    BY <1>1, <2>1, HeadTaken
  <2> QED BY <2>1, <2>2 DEF LiveInv, Counted
<1>6. CASE HandleNewPeer
  <2>1. PICK i \in Index : /\ i = Head(events).index /\ i <= counter
                           /\ events # << >> /\ events' = Tail(events)
    BY <1>5, <1>6 DEF HandleNewPeer
  <2>2. peers'[i].status = "connecting" /\ \A j \in Index \ {i} : peers'[j] = peers[j]
    BY <1>1, <1>6, <2>1, NewPeerWaits
  <2>3. Known(i)'
    BY <2>2 DEF Known
  <2>4. counter' = counter /\ (requests' = requests
                                \/ \E x \in Fresh : requests' = Append(requests, Send(i, None, x)))
    BY <1>6, <2>1 DEF HandleNewPeer
  <2>5. \A x \in Fresh : Send(i, None, x) \in Request /\ Send(i, None, x).index = i
    BY <2>1, RequestTypes, FreshType DEF KeyOrNone, Send
  <2> QED BY <1>3, <1>4, <2>1, <2>2, <2>3, <2>4, <2>5
<1>7. CASE HandlePeerDisconnect
  <2>1. PICK i \in Index : i = Head(events).index /\ events # << >> /\ events' = Tail(events)
    BY <1>5, <1>7 DEF HandlePeerDisconnect
  <2>2. /\ counter' = counter /\ requests' = requests
        /\ peers' = IF Known(i) THEN [peers EXCEPT ![i] = MarkAsDisconnected(peers[i])] ELSE peers
    BY <1>7, <2>1 DEF HandlePeerDisconnect
  <2>3. CASE ~ Known(i)
    BY <1>3, <1>4, <2>1, <2>2, <2>3
  <2>4. CASE Known(i)
    <3>1. peers'[i].status = "disconnected" /\ \A j \in Index \ {i} : peers'[j] = peers[j]
      BY <1>1, <2>2, <2>4 DEF MarkAsDisconnected, Peer
    <3>2. Known(i)'
      BY <3>1 DEF Known
    <3> QED BY <1>3, <1>4, <2>1, <2>2, <2>4, <3>1, <3>2
  <2> QED BY <2>3, <2>4
<1>8. CASE IgnoreMessage
  <2>1. /\ events # << >> /\ events' = Tail(events)
        /\ peers' = peers /\ counter' = counter /\ requests' = requests
    BY <1>5, <1>8 DEF IgnoreMessage, collection
  <2> QED BY <1>3, <1>4, <2>1
<1>9. CASE HandleHandshakeChallenge
  <2>1. PICK i \in Index : /\ i = Head(events).index /\ i <= counter
                           /\ events # << >> /\ events' = Tail(events)
                           /\ Head(events).msg \in Message
    BY <1>5, <1>9 DEF HandleHandshakeChallenge
  <2>2. PICK x \in Fresh : /\ peers' = [peers EXCEPT ![i].challenge = x]
                           /\ requests' = Append(requests, Send(i, Signed(Head(events).msg.challenge), x))
    BY <1>9, <2>1 DEF HandleHandshakeChallenge
  <2>3. /\ peers'[i].status = peers[i].status /\ peers'[i].static = peers[i].static
        /\ peers'[i].away = peers[i].away
        /\ \A j \in Index \ {i} : peers'[j] = peers[j]
    BY <1>1, <2>2 DEF Peer
  <2>4. Known(i) /\ Known(i)' /\ (peers'[i].status = "connected" => ~ Lost(i)')
    BY <1>9, <2>1, <2>3 DEF HandleHandshakeChallenge, LiveInv, Present, Known, Lost
  <2>5. PICK r \in Request : r = Send(i, Signed(Head(events).msg.challenge), x)
    BY <2>1, RequestTypes, SignedType, FreshType DEF KeyOrNone, Message
  <2>6. r.index = i /\ counter' = counter
    BY <1>9, <2>5 DEF Send, HandleHandshakeChallenge
  <2> QED BY <1>3, <1>4, <2>1, <2>2, <2>3, <2>4, <2>5, <2>6
<1>10. CASE RefuseHandshakeResponse
  <2>1. PICK i \in Index : /\ i = Head(events).index /\ i <= counter
                           /\ events # << >> /\ events' = Tail(events)
    BY <1>5, <1>10 DEF RefuseHandshakeResponse
  <2>2. /\ counter' = counter /\ Known(i)
        /\ peers' = [peers EXCEPT ![i] = MarkAsDisconnected(peers[i])]
        /\ requests' = requests \o <<Disconnect(i), Disconnect(i)>>
    BY <1>10, <2>1 DEF RefuseHandshakeResponse
  <2>3. peers'[i].status = "disconnected" /\ \A j \in Index \ {i} : peers'[j] = peers[j]
    BY <1>1, <2>2 DEF MarkAsDisconnected, Peer
  <2>4. Known(i)'
    BY <2>3 DEF Known
  <2>5. \E s \in Seq({r \in Request : r.index <= counter}) : requests' = requests \o s
    <3>1. Disconnect(i) \in Request /\ Disconnect(i).index = i
      BY <2>1, RequestTypes DEF KeyOrNone, Disconnect
    <3>2. PICK q \in {r \in Request : r.index <= counter} : q = Disconnect(i)
      BY <2>1, <3>1
    <3>3. <<q, q>> \in Seq({r \in Request : r.index <= counter})
      OBVIOUS
    <3> QED BY <2>2, <3>2, <3>3
  <2> QED BY <1>3, <1>4, <2>1, <2>2, <2>3, <2>4, <2>5
<1>11. CASE HandleHandshakeResponse
  <2>1. PICK i \in Index : /\ i = Head(events).index /\ i <= counter
                           /\ events # << >> /\ events' = Tail(events)
                           /\ Head(events).msg \in Message
    BY <1>5, <1>11 DEF HandleHandshakeResponse
  <2>2. /\ Known(i) /\ Known(i)' /\ ~ Lost(i)'
        /\ \A k \in Index \ {i} :
             \/ peers'[k] = peers[k]
             \/ peers'[k] = Absent /\ peers[k].status # "connected"
    BY <1>11, <2>1, ResponseAccepted
  <2>3. PICK r \in Request : r = Send(i, Signed(Head(events).msg.challenge), None)
    BY <2>1, RequestTypes, SignedType DEF KeyOrNone, Message
  <2>4. requests' = requests \/ requests' = Append(requests, r)
    BY <1>11, <2>1, <2>3, Zenon DEF HandleHandshakeResponse
  <2>5. r.index = i /\ counter' = counter
    BY <1>11, <2>3 DEF Send, HandleHandshakeResponse
  <2> QED BY <1>3, <1>4, <2>1, <2>2, <2>3, <2>4, <2>5
<1>12. CASE ProcessTimerEvent
  <2>1. events' = events /\ counter' = counter
    BY <1>12 DEF ProcessTimerEvent
  <2>2. PICK s \in Seq(Request) :
           /\ requests' = requests \o s
           /\ \A n \in DOMAIN s : s[n].index \in Index /\ peers[s[n].index].status = "disconnected"
    <3>1. PICK due \in SUBSET {i \in Index : peers[i].status = "disconnected" /\ peers[i].static # NoHost} :
             Dial(due)
      BY <1>12 DEF ProcessTimerEvent
    <3>2. PICK s \in Seq(Request) :
             /\ requests' = requests \o s
             /\ \A n \in DOMAIN s : /\ s[n].index \in Index
                                    /\ peers[s[n].index].status = "disconnected"
      BY <1>1, <3>1, DialRequests
    <3> QED BY <3>2
  <2>3. s \in Seq({r \in Request : r.index <= counter})
    <3>1. \A i \in Index : peers[i].status = "disconnected" => i <= counter
      BY DEF LiveInv, Counted, Known
    <3>2. \A n \in DOMAIN s : s[n] \in Request
      BY <2>2
    <3>3. \A n \in DOMAIN s : s[n] \in Request /\ s[n].index <= counter
      BY <2>2, <3>1, <3>2
    <3>4. Len(s) \in Nat /\ s \in [1 .. Len(s) -> Request] /\ DOMAIN s = 1 .. Len(s)
      BY <2>2
    <3>5. s \in [1 .. Len(s) -> {r \in Request : r.index <= counter}]
      BY <3>3, <3>4
    <3> QED BY <3>4, <3>5
  <2>4. \A i \in Index : peers'[i] \in {peers[i], Absent}
    BY <1>12 DEF ProcessTimerEvent, RemoveDisconnectedPeers
  <2> QED BY <1>3, <1>4, <2>1, <2>2, <2>3, <2>4
<1>13. ASSUME NEW k \in StunKeys, AddStunPeer(k) PROVE Counted' /\ Present'
  <2>1. /\ events' = events /\ requests' = requests /\ counter' = counter + 1
        /\ peers' = [peers EXCEPT ![counter + 1] =
                       [Absent EXCEPT !.status = "connected", !.key = k, !.stun = TRUE]]
    BY <1>13 DEF AddStunPeer
  <2>2. \A i \in Index : \/ i = counter + 1 /\ peers'[i].status = "connected" /\ ~ peers'[i].away
                         \/ peers'[i] = peers[i]
    BY <1>1, <2>1 DEF Absent
  <2>3. \A i \in Index : Known(i)' => Known(i) \/ i <= counter'
    BY <1>1, <2>1, <2>2 DEF Known
  <2>4. counter <= counter'
    BY <1>1, <2>1
  <2>5. Counted'
    BY <1>2, <2>1, <2>3, <2>4, CountedKept
  <2>6. Present'
    BY <2>2 DEF LiveInv, Present, Known, Lost
  <2> QED BY <2>5, <2>6
<1>14. ASSUME NEW i \in Index, RemoveStunPeer(i) PROVE Counted' /\ Present'
  <2>1. /\ events' = events /\ requests' = requests /\ counter' = counter
        /\ \A j \in Index : peers'[j] \in {peers[j], Absent}
    BY <1>1, <1>14 DEF RemoveStunPeer, Without
  <2> QED BY <1>4, <2>1
<1> QED BY <1>3, <1>6, <1>7, <1>8, <1>9, <1>10, <1>11, <1>12, <1>13, <1>14

\* The first state, in which nothing is under way.
LEMMA LiveInit == Init => LiveInv
<1> SUFFICES ASSUME Init PROVE LiveInv
  OBVIOUS
<1> USE PeersAssumption
<1>1. TypeOK
  BY TypeInit
<1>2. /\ events = << >> /\ requests = << >> /\ counter = Len(PeerConfigs)
      /\ \A i \in Index : sockets[i] = None
      /\ \A c \in Conns : conns[c].index = None
  BY DEF Init, NoConn
<1>3. /\ counter = Len(PeerConfigs)
      /\ DOMAIN events = {} /\ DOMAIN requests = {}
      /\ \A i \in Index : sockets[i] = None
      /\ \A c \in Conns : conns[c].index = None
  <2>1. \A n \in DOMAIN << >> : FALSE
    OBVIOUS
  <2> QED BY <1>2, <2>1
<1>4. \A i \in Index : /\ ~ peers[i].away
                       /\ Known(i) => i \in DOMAIN PeerConfigs
  BY DEF Init, Absent, Known
<1>5. Unmade /\ Plugged
  BY <1>3 DEF Unmade, Plugged
<1>6. Counted
  <2>1. DOMAIN PeerConfigs = 1 .. Len(PeerConfigs) /\ Len(PeerConfigs) \in Nat
    OBVIOUS
  <2> QED BY <1>3, <1>4, <2>1 DEF Counted
<1>7. Present
  BY <1>4 DEF Present, Lost
<1>8. ASSUME NEW i \in Index PROVE Unanswered(i)
  <2>1. NoAnswer(i) /\ NoSolution(i)
    BY <1>4 DEF NoAnswer, NoSolution, Lost
  <2>2. AfterLoss(i) /\ Questioned(i) /\ Welcomed(i)
    BY <1>3 DEF AfterLoss, Questioned, Welcomed
  <2> QED BY <2>1, <2>2 DEF Unanswered
<1> QED BY <1>1, <1>5, <1>6, <1>7, <1>8 DEF LiveInv

\* Every step keeps the invariant; that types and the numbers of connections
\* are kept is known.
LEMMA LiveStep ==
    ASSUME LiveInv, TypeOK', Unmade', [Next]_vars
    PROVE  LiveInv'
<1>1. CASE UNCHANGED vars
  BY <1>1 DEF vars, collection, LiveInv, TypeOK, Unmade, Counted, Plugged, Present, Unanswered,
              NoAnswer, AfterLoss, NoSolution, Questioned, Welcomed, Lost, Known, Waits, Unasked,
              Cleared, Awaited, Renewed, Unread
<1>2. CASE \/ \E h \in Hosts : Incoming(h)
           \/ DialSucceeds \/ DialFails \/ DisconnectSocket \/ SendMessage
           \/ \E c \in Conns : ReadMessage(c) \/ ReaderEnds(c)
  <2>1. Counted' /\ Plugged' /\ Present'
    BY <1>2, OrderNetwork
  <2>2. \A j \in Index : Unanswered(j)'
    BY <1>2, UnansweredNetwork
  <2> QED BY <2>1, <2>2 DEF LiveInv
<1>3. CASE \/ HandleNewPeer \/ HandlePeerDisconnect
           \/ IgnoreMessage \/ HandleHandshakeChallenge
           \/ RefuseHandshakeResponse \/ HandleHandshakeResponse
           \/ ProcessTimerEvent
           \/ \E k \in StunKeys : AddStunPeer(k)
           \/ \E i \in Index : RemoveStunPeer(i)
  <2>1. Counted' /\ Plugged' /\ Present'
    BY <1>3, OrderRouting
  <2>2. \A j \in Index : Unanswered(j)'
    BY <1>3, UnansweredRouting
  <2> QED BY <2>1, <2>2 DEF LiveInv
<1> QED BY <1>1, <1>2, <1>3 DEF Next

\* A connected peer is never lost, so that no step removes it.
LEMMA LiveKept ==
    ASSUME LiveInv, Next, NEW i \in Index, peers[i].status = "connected", ~ peers[i].stun
    PROVE  Known(i)'
<1>1. /\ TypeOK /\ peers \in [Index -> Peer] /\ Known(i) /\ ~ Lost(i)
  BY DEF LiveInv, Present, TypeOK, Known
<1>2. CASE peers' = peers
  BY <1>1, <1>2 DEF Known
<1>3. CASE \/ HandleNewPeer \/ HandlePeerDisconnect \/ HandleHandshakeChallenge
           \/ RefuseHandshakeResponse
  <2>1. PICK j : j = Head(events).index
    OBVIOUS
  <2>2. peers[i] \in Peer /\ (i # j => peers'[i] = peers[i])
    BY <1>1, <1>3, <2>1
       DEF HandleNewPeer, HandlePeerDisconnect, HandleHandshakeChallenge, RefuseHandshakeResponse
  <2>3. ASSUME HandleNewPeer, i = j PROVE peers'[i].status = "connecting"
    BY <1>1, <2>1, <2>3, NewPeerWaits
  <2>4. ASSUME HandlePeerDisconnect, i = j PROVE peers'[i].status = "disconnected"
    BY <1>1, <2>1, <2>2, <2>4 DEF HandlePeerDisconnect, MarkAsDisconnected, Peer
  <2>5. ASSUME HandleHandshakeChallenge, i = j PROVE peers'[i].status = peers[i].status
    BY <1>1, <2>1, <2>2, <2>5 DEF HandleHandshakeChallenge, Peer
  <2>6. ASSUME RefuseHandshakeResponse, i = j PROVE peers'[i].status = "disconnected"
    BY <1>1, <2>1, <2>2, <2>6 DEF RefuseHandshakeResponse, MarkAsDisconnected, Peer
  <2> QED BY <1>1, <1>3, <2>2, <2>3, <2>4, <2>5, <2>6 DEF Known
<1>4. CASE HandleHandshakeResponse
  <2>1. PICK j \in Index : j = Head(events).index
    BY <1>1, <1>4, ChannelTypes DEF HandleHandshakeResponse, Received, Event
  <2>2. /\ Known(j)'
        /\ \A k \in Index \ {j} :
             \/ peers'[k] = peers[k]
             \/ peers'[k] = Absent /\ peers[k].status # "connected"
    BY <1>4, <2>1, ResponseAccepted
  <2>3. i = j \/ peers'[i] = peers[i]
    BY <2>2
  <2> QED BY <1>1, <2>2, <2>3 DEF Known
<1>5. CASE ProcessTimerEvent
  <2>1. i \notin Removable
    BY <1>1 DEF Removable, Lost
  <2>2. peers'[i] = peers[i]
    BY <1>5, <2>1 DEF ProcessTimerEvent, RemoveDisconnectedPeers
  <2> QED BY <1>1, <2>2 DEF Known
<1>6. ASSUME NEW k \in StunKeys, AddStunPeer(k) PROVE Known(i)'
  <2>1. peers'[i] = peers[i] \/ peers'[i].status = "connected"
    BY <1>1, <1>6 DEF AddStunPeer, Absent
  <2> QED BY <1>1, <2>1 DEF Known
<1>7. ASSUME NEW j \in Index, RemoveStunPeer(j) PROVE Known(i)'
  <2>1. peers'[i] = peers[i]
    BY <1>1, <1>7 DEF RemoveStunPeer, Without
  <2> QED BY <1>1, <2>1 DEF Known
<1>8. ASSUME \/ \E h \in Hosts : Incoming(h)
             \/ DialSucceeds \/ DialFails \/ DisconnectSocket \/ SendMessage
             \/ \E c \in Conns : ReadMessage(c) \/ ReaderEnds(c)
             \/ IgnoreMessage
      PROVE  peers' = peers
  BY <1>8 DEF Incoming, DialSucceeds, DialFails, DisconnectSocket, SendMessage, ReadMessage,
              ReaderEnds, IgnoreMessage, collection
<1> QED BY <1>2, <1>3, <1>4, <1>5, <1>6, <1>7, <1>8 DEF Next

\* A connected peer is not removed, whatever its disconnected_at says.
THEOREM ConnectedStay == Spec => LiveStays
<1>1. Init => LiveInv
  BY LiveInit
<1>2. LiveInv /\ NoticeInv' /\ [Next]_vars => LiveInv'
  BY LiveStep DEF NoticeInv
<1>3. LiveInv /\ [Next]_vars =>
        [\A i \in Index : peers[i].status = "connected" /\ ~ peers[i].stun => Known(i)']_vars
  BY LiveKept
<1> QED BY <1>1, <1>2, <1>3, NoticeInvariant, PTL DEF Spec, LiveStays

-----------------------------------------------------------------------------
(* The handshake of a connection to a static peer.                         *)

\* The other end has verified us on a connection of the peer, or its loss is reported.
Verified(c) == conns[c].view \in {"verified", "dropped"}
Met(i) ==
    \/ \E c \in Conns : conns[c].index = i /\ Verified(c)
    \/ Queued("gone", i)

\* The challenge x of the peer i goes out in an answer only, and comes back signed only
\* from an end that has verified that answer.
Posed(r, i, x) == r.msg.challenge = x => r.type = "send" /\ r.index = i /\ r.msg.signed # None
Confirms(i, x) ==
    /\ \A n \in DOMAIN requests : Posed(requests[n], i, x)
    /\ \A c \in Conns : \A k \in DOMAIN conns[c].inbox :
          conns[c].inbox[k].signed = x => conns[c].index = i /\ Verified(c)
    /\ \A n \in DOMAIN events : events[n].msg.signed = x => Met(i)

StaticConfirmed(i) ==
    peers[i].static # NoHost =>
        Known(i) /\ (peers[i].challenge # None => Confirms(i, peers[i].challenge))

MutualInv == TypeOK /\ Unmade /\ Plugged /\ \A i \in Index : StaticConfirmed(i)

\* Only the challenge itself is signed as the challenge.
LEMMA SignedOnce ==
    ASSUME NEW x \in Challenges, NEW y \in Challenges \cup {None}, Signed(y) = x
    PROVE  y = x
BY PeersAssumption DEF Challenges, Signed, Zeros, None

\* Nothing is lost of what the peer has met.
LEMMA MetStays ==
    ASSUME NEW i \in Index, Met(i),
           \A c \in Conns : conns[c].index = i /\ Verified(c) =>
               (conns'[c].index = i /\ Verified(c)') \/ Queued("gone", i)',
           Queued("gone", i) => Queued("gone", i)'
    PROVE  Met(i)'
BY DEF Met

\* An event that is added takes none away.
LEMMA QueuedAppend ==
    ASSUME TypeOK, NEW e \in Event, events' = Append(events, e), NEW i
    PROVE  /\ Queued("gone", i) => Queued("gone", i)'
           /\ e.type = "gone" /\ e.index = i => Queued("gone", i)'
           /\ \A n \in DOMAIN events' :
                 events'[n] = e \/ \E m \in DOMAIN events : events'[n] = events[m]
<1>1. /\ events \in Seq(Event) /\ Len(events) \in Nat /\ DOMAIN events = 1 .. Len(events)
      /\ DOMAIN events' = 1 .. Len(events) + 1
      /\ \A n \in 1 .. Len(events) : events'[n] = events[n]
      /\ events'[Len(events) + 1] = e
  BY EventsChange
<1>2. Len(events) + 1 \in DOMAIN events' /\ DOMAIN events \subseteq DOMAIN events'
  BY <1>1
<1>3. \A n \in DOMAIN events' : n \in 1 .. Len(events) \/ n = Len(events) + 1
  BY <1>1
<1> QED BY <1>1, <1>2, <1>3 DEF Queued

\* The other end hears a message of the peer j: it signs the peer's challenge only in
\* the step in which it verifies the peer.
LEMMA HearsConfirmed ==
    ASSUME TypeOK, NEW c \in Conns, NEW msg \in Message, RemoteHears(c, msg)
    PROVE  /\ \A d \in Conns \ {c} : conns'[d] = conns[d]
           /\ conns'[c].index = conns[c].index
           /\ Verified(c) => Verified(c)'
           /\ \/ conns'[c].inbox = conns[c].inbox
              \/ \E m \in Message : /\ conns'[c].inbox = Append(conns[c].inbox, m)
                                    /\ m.signed = Signed(msg.challenge)
                                    /\ msg.signed # None => Verified(c)'
<1>1. conns \in [Conns -> Conn] /\ conns[c] \in Conn /\ msg.challenge \in Challenges \cup {None}
  BY DEF TypeOK, Message
<1>2. \A x \in Challenges \cup {None} :
        [signed |-> Signed(msg.challenge), challenge |-> x] \in Message
  BY <1>1, SignedType DEF Message
<1>3. CASE conns[c].view \in {"refused", "dropped"} /\ conns' = conns
  BY <1>3 DEF Verified
<1>4. CASE /\ msg.signed = None
           /\ \E x \in Fresh :
                conns' = [conns EXCEPT ![c].theirs = x,
                  ![c].inbox = Append(@, [signed |-> Signed(msg.challenge), challenge |-> x])]
  <2>1. PICK x \in Fresh :
           conns' = [conns EXCEPT ![c].theirs = x,
                  ![c].inbox = Append(@, [signed |-> Signed(msg.challenge), challenge |-> x])]
    BY <1>4
  <2>2. PICK m \in Message : m = [signed |-> Signed(msg.challenge), challenge |-> x]
    BY <1>2, FreshType
  <2>3. m.signed = Signed(msg.challenge)
    BY <2>2
  <2>4. /\ \A d \in Conns \ {c} : conns'[d] = conns[d]
        /\ conns'[c].index = conns[c].index /\ conns'[c].view = conns[c].view
        /\ conns'[c].inbox = Append(conns[c].inbox, m)
    BY <1>1, <2>1, <2>2 DEF Conn
  <2> QED BY <1>4, <2>3, <2>4 DEF Verified
<1>5. CASE conns' = [conns EXCEPT ![c].theirs = None, ![c].view = "verified",
                ![c].inbox = IF conns[c].dialled
                               THEN Append(@, [signed |-> Signed(msg.challenge), challenge |-> None])
                               ELSE @]
  <2>1. PICK m \in Message : m = [signed |-> Signed(msg.challenge), challenge |-> None]
    BY <1>2
  <2>2. m.signed = Signed(msg.challenge)
    BY <2>1
  <2>3. /\ \A d \in Conns \ {c} : conns'[d] = conns[d]
        /\ conns'[c].index = conns[c].index /\ conns'[c].view = "verified"
        /\ conns'[c].inbox = IF conns[c].dialled THEN Append(conns[c].inbox, m)
                             ELSE conns[c].inbox
    BY <1>1, <1>5, <2>1 DEF Conn
  <2> QED BY <2>2, <2>3 DEF Verified
<1>6. CASE conns' = [conns EXCEPT ![c].theirs = None,
                ![c].view = IF @ = "verified" THEN "dropped" ELSE "refused"]
           /\ conns[c].view \in {"waiting", "verified"}
  <2>1. /\ \A d \in Conns \ {c} : conns'[d] = conns[d]
        /\ conns'[c].index = conns[c].index /\ conns'[c].inbox = conns[c].inbox
        /\ conns'[c].view = IF conns[c].view = "verified" THEN "dropped" ELSE "refused"
    BY <1>1, <1>6 DEF Conn
  <2> QED BY <1>6, <2>1 DEF Verified
<1> QED BY <1>3, <1>4, <1>5, <1>6 DEF RemoteHears

\* The requests of a step, as far as the challenge x is concerned.
LEMMA PosedKept ==
    ASSUME TypeOK, NEW i \in Index, NEW x \in Challenges, Confirms(i, x),
           \/ requests' = requests
           \/ requests # << >> /\ requests' = Tail(requests)
           \/ \E s \in Seq({r \in Request : r.msg.challenge # x}) : requests' = requests \o s
    PROVE  \A n \in DOMAIN requests' : Posed(requests'[n], i, x)
<1> DEFINE S == {r \in Request : r.msg.challenge # x}
<1>1. \A n \in DOMAIN requests' :
         requests'[n] \in S \/ \E m \in DOMAIN requests : requests'[n] = requests[m]
  BY RequestsOrigin
<1> QED BY <1>1 DEF Confirms, Posed

\* What a step may do to the connections and the events without signing x.
LEMMA ConfirmsKept ==
    ASSUME TypeOK, NEW i \in Index, NEW x \in Challenges, Confirms(i, x),
           \A n \in DOMAIN requests' : Posed(requests'[n], i, x),
           Met(i) => Met(i)',
           \A c \in Conns :
              \/ conns'[c].inbox = << >>
              \/ \A k \in DOMAIN conns'[c].inbox : conns'[c].inbox[k].signed = None
              \/ /\ conns'[c].index = conns[c].index /\ (Verified(c) => Verified(c)')
                 /\ \A k \in DOMAIN conns'[c].inbox :
                      \/ \E m \in DOMAIN conns[c].inbox :
                            conns'[c].inbox[k] = conns[c].inbox[m]
                      \/ conns'[c].inbox[k].signed = x =>
                            conns'[c].index = i /\ Verified(c)',
           \A n \in DOMAIN events' :
              \/ events'[n].msg.signed = x => Met(i)
              \/ \E m \in DOMAIN events : events'[n] = events[m]
    PROVE  Confirms(i, x)'
<1>1. x # None
  BY DEF Challenges, None
<1>2. ASSUME NEW c \in Conns, NEW k \in DOMAIN conns'[c].inbox, conns'[c].inbox[k].signed = x
      PROVE  conns'[c].index = i /\ Verified(c)'
  <2>1. conns'[c].inbox # << >>
    BY <1>2
  <2>2. ASSUME NEW m \in DOMAIN conns[c].inbox, conns'[c].inbox[k] = conns[c].inbox[m],
               conns'[c].index = conns[c].index, Verified(c) => Verified(c)'
        PROVE  conns'[c].index = i /\ Verified(c)'
    BY <1>2, <2>2 DEF Confirms
  <2> QED BY <1>1, <1>2, <2>1, <2>2
<1>3. ASSUME NEW n \in DOMAIN events', events'[n].msg.signed = x PROVE Met(i)'
  BY <1>3 DEF Confirms
<1> QED BY <1>2, <1>3 DEF Confirms

\* A connection is made.
LEMMA ConnectionConfirms ==
    ASSUME TypeOK, Unmade, NEW i \in Index, NEW x \in Challenges, Confirms(i, x),
           NEW j \in Index, NEW h, NEW d, NEW t, NEW in, NewConnection(j, h, d, t, in),
           \A k \in DOMAIN in : in[k].signed = None,
           requests' = requests \/ (requests # << >> /\ requests' = Tail(requests))
    PROVE  Confirms(i, x)'
<1>1. /\ made \in Nat /\ made + 1 \in Conns /\ conns \in [Conns -> Conn] /\ made + 1 > made
      /\ conns' = [conns EXCEPT ![made + 1] =
                     [index |-> j, host |-> h, dialled |-> d,
                      theirs |-> t, inbox |-> in, view |-> "waiting"]]
  BY PeersAssumption DEF TypeOK, NewConnection, Conns
<1>2. conns'[made + 1].inbox = in /\ \A c \in Conns \ {made + 1} : conns'[c] = conns[c]
  BY <1>1
<1>3. conns[made + 1].index = None /\ i # None
  BY <1>1 DEF Unmade, Index, None
<1>4. PICK e \in Event : events' = Append(events, e) /\ e.type = "new" /\ e.msg = NoMessage
  <2>1. [type |-> "new", index |-> j, key |-> NoHost, msg |-> NoMessage] \in Event
    BY DEF Event, KeyOrNone, NoMessage, Message
  <2>2. PICK e \in Event : e = [type |-> "new", index |-> j, key |-> NoHost, msg |-> NoMessage]
    BY <2>1
  <2>3. e.type = "new" /\ e.msg = NoMessage
    BY <2>2
  <2> QED BY <2>2, <2>3 DEF NewConnection, Report
<1>5. Met(i) => Met(i)'
  <2>1. Queued("gone", i) => Queued("gone", i)'
    BY <1>4, QueuedAppend
  <2>2. \A c \in Conns : conns[c].index = i /\ Verified(c) => conns'[c].index = i /\ Verified(c)'
    BY <1>2, <1>3 DEF Verified
  <2> QED BY <2>1, <2>2, MetStays
<1>6. \A n \in DOMAIN requests' : Posed(requests'[n], i, x)
  BY PosedKept
<1>7. \A n \in DOMAIN events' : \/ events'[n].msg.signed = x => Met(i)
                                \/ \E m \in DOMAIN events : events'[n] = events[m]
  <2>1. e.msg.signed # x
    BY <1>4 DEF NoMessage, Challenges, None
  <2>2. \A n \in DOMAIN events' : events'[n] = e \/ \E m \in DOMAIN events : events'[n] = events[m]
    BY <1>4, QueuedAppend
  <2> QED BY <2>1, <2>2
<1>8. \A c \in Conns : \/ \A k \in DOMAIN conns'[c].inbox : conns'[c].inbox[k].signed = None
                       \/ conns'[c] = conns[c]
  BY <1>2
<1>9. \A c \in Conns : conns'[c] = conns[c] =>
         /\ conns'[c].index = conns[c].index /\ (Verified(c) => Verified(c)')
         /\ \A k \in DOMAIN conns'[c].inbox :
               \E m \in DOMAIN conns[c].inbox : conns'[c].inbox[k] = conns[c].inbox[m]
  BY DEF Verified
<1> QED BY <1>5, <1>6, <1>7, <1>8, <1>9, ConfirmsKept

\* A step of the network keeps what is confirmed.
LEMMA ConfirmsNetwork ==
    ASSUME TypeOK, Unmade, Plugged, NEW i \in Index, NEW x \in Challenges, Confirms(i, x),
           \/ \E h \in Hosts : Incoming(h)
           \/ DialSucceeds \/ DialFails \/ DisconnectSocket \/ SendMessage
           \/ \E c \in Conns : ReadMessage(c) \/ ReaderEnds(c)
    PROVE  Confirms(i, x)'
<1>1. /\ conns \in [Conns -> Conn] /\ sockets \in [Index -> Conns \cup {None}]
      /\ counter \in Nat /\ MaxIndex \in Nat /\ x # None
  BY PeersAssumption DEF TypeOK, Challenges, None
<1>2. ASSUME NEW c \in Conns, conns'[c] = conns[c]
      PROVE  /\ conns'[c].index = conns[c].index /\ (Verified(c) => Verified(c)')
             /\ \A k \in DOMAIN conns'[c].inbox :
                   \E m \in DOMAIN conns[c].inbox : conns'[c].inbox[k] = conns[c].inbox[m]
  BY <1>2 DEF Verified
<1>3. ASSUME conns' = conns PROVE \A c \in Conns : Verified(c) => Verified(c)'
  BY <1>3 DEF Verified
<1>4. ASSUME NEW h \in Hosts, Incoming(h) PROVE Confirms(i, x)'
  <2>1. NewConnection(counter + 1, h, FALSE, None, << >>) /\ requests' = requests
    BY <1>4 DEF Incoming
  <2>2. counter + 1 \in Index
    <3>1. counter < MaxIndex
      BY <1>4 DEF Incoming
    <3> QED BY <1>1, <3>1 DEF Index
  <2>3. PICK in : in = << >>
    OBVIOUS
  <2>4. NewConnection(counter + 1, h, FALSE, None, in)
    BY <2>1, <2>3
  <2>5. \A k \in DOMAIN in : in[k].signed = None
    BY <2>3
  <2> QED BY <2>1, <2>2, <2>4, <2>5, ConnectionConfirms
<1>5. CASE DialSucceeds
  <2> PICK j, h : j = Head(requests).index /\ h = Head(requests).key
    OBVIOUS
  <2>6. j \in Index
    BY <1>5, ChannelTypes DEF DialSucceeds, Requested, Request
  <2>1. PICK y \in Fresh :
           NewConnection(j, h, TRUE, y, <<[signed |-> None, challenge |-> y]>>)
    BY <1>5 DEF DialSucceeds
  <2>2. requests # << >> /\ requests' = Tail(requests)
    BY <1>5 DEF DialSucceeds, Requested
  <2>3. PICK in : in = <<[signed |-> None, challenge |-> y]>>
    OBVIOUS
  <2>4. \A k \in DOMAIN in : in[k].signed = None
    BY <2>3
  <2>5. NewConnection(j, h, TRUE, y, in)
    BY <2>1, <2>3
  <2> QED BY <2>2, <2>4, <2>5, <2>6, ConnectionConfirms
<1>6. CASE DialFails
  <2>1. /\ requests # << >> /\ requests' = Tail(requests) /\ conns' = conns /\ events' = events
    BY <1>6 DEF DialFails, Requested
  <2>2. \A n \in DOMAIN requests' : Posed(requests'[n], i, x)
    BY <2>1, PosedKept
  <2>3. Met(i) => Met(i)'
    BY <2>1 DEF Met, Queued, Verified
  <2> QED BY <1>2, <2>1, <2>2, <2>3, ConfirmsKept
<1>7. CASE DisconnectSocket
  <2>1. PICK j \in Index : Report("gone", j, NoHost, NoMessage)
    BY <1>7, ChannelTypes DEF DisconnectSocket, Requested, Request
  <2>2. requests # << >> /\ requests' = Tail(requests) /\ conns' = conns
    BY <1>7 DEF DisconnectSocket, Requested
  <2>3. PICK e \in Event : events' = Append(events, e) /\ e.msg = NoMessage
    <3>1. [type |-> "gone", index |-> j, key |-> NoHost, msg |-> NoMessage] \in Event
      BY DEF Event, KeyOrNone, NoMessage, Message
    <3> QED BY <2>1, <3>1 DEF Report
  <2>4. \A n \in DOMAIN requests' : Posed(requests'[n], i, x)
    BY <2>2, PosedKept
  <2>5. Met(i) => Met(i)'
    BY <1>3, <2>2, <2>3, QueuedAppend, MetStays
  <2>6. \A n \in DOMAIN events' : \/ events'[n].msg.signed = x => Met(i)
                                  \/ \E m \in DOMAIN events : events'[n] = events[m]
    <3>1. e.msg.signed # x
      BY <1>1, <2>3 DEF NoMessage
    <3> QED BY <2>3, <3>1, QueuedAppend
  <2> QED BY <1>2, <2>2, <2>4, <2>5, <2>6, ConfirmsKept
<1>8. CASE SendMessage
  <2>1. /\ requests # << >> /\ requests' = Tail(requests) /\ events' = events
        /\ Head(requests) \in Request /\ Head(requests).index \in Index
        /\ Head(requests).msg \in Message
    BY <1>8, ChannelTypes DEF SendMessage, Requested, Request
  <2>2. Posed(Head(requests), i, x)
    <3>1. requests[1] = Head(requests) /\ 1 \in DOMAIN requests
      <4>1. /\ Len(requests) \in Nat /\ DOMAIN requests = 1 .. Len(requests)
            /\ Len(requests) >= 1 /\ Head(requests) = requests[1]
        BY <2>1, RequestsChange
      <4> QED BY <4>1
    <3> QED BY <3>1 DEF Confirms
  <2>3. \A n \in DOMAIN requests' : Posed(requests'[n], i, x)
    BY <2>1, PosedKept
  <2>4. CASE conns' = conns
    <3>1. Met(i) => Met(i)'
      BY <2>1, <2>4 DEF Met, Queued, Verified
    <3> QED BY <1>2, <2>1, <2>3, <2>4, <3>1, ConfirmsKept
  <2>5. ASSUME NEW c \in Conns, sockets[Head(requests).index] = c,
               RemoteHears(c, Head(requests).msg)
        PROVE  Confirms(i, x)'
    <3> PICK msg \in Message : msg = Head(requests).msg
      BY <2>1
    <3>1. /\ \A d \in Conns \ {c} : conns'[d] = conns[d]
          /\ conns'[c].index = conns[c].index
          /\ Verified(c) => Verified(c)'
          /\ \/ conns'[c].inbox = conns[c].inbox
             \/ \E m \in Message : /\ conns'[c].inbox = Append(conns[c].inbox, m)
                                   /\ m.signed = Signed(msg.challenge)
                                   /\ msg.signed # None => Verified(c)'
      BY <2>5, HearsConfirmed
    <3>2. c # None /\ conns[c].index = Head(requests).index
      BY <2>1, <2>5 DEF Plugged, Conns, None
    <3>3. Signed(msg.challenge) = x => conns'[c].index = i /\ msg.signed # None
      <4>1. msg.challenge \in Challenges \cup {None}
        BY DEF Message
      <4>2. Signed(msg.challenge) = x => msg.challenge = x
        BY <4>1, SignedOnce
      <4> QED BY <2>2, <3>1, <3>2, <4>2 DEF Posed
    <3>4. \A k \in DOMAIN conns'[c].inbox :
            \/ \E m \in DOMAIN conns[c].inbox : conns'[c].inbox[k] = conns[c].inbox[m]
            \/ conns'[c].inbox[k].signed = x => conns'[c].index = i /\ Verified(c)'
      <4>1. CASE conns'[c].inbox = conns[c].inbox
        BY <4>1
      <4>2. ASSUME NEW m \in Message, conns'[c].inbox = Append(conns[c].inbox, m),
                   m.signed = Signed(msg.challenge), msg.signed # None => Verified(c)'
            PROVE  \A k \in DOMAIN conns'[c].inbox :
                      \/ \E n \in DOMAIN conns[c].inbox : conns'[c].inbox[k] = conns[c].inbox[n]
                      \/ conns'[c].inbox[k].signed = x => conns'[c].index = i /\ Verified(c)'
        <5>1. conns[c].inbox \in Seq(Message)
          BY <1>1 DEF Conn
        <5>2. \A k \in DOMAIN conns'[c].inbox :
                 \/ k \in DOMAIN conns[c].inbox /\ conns'[c].inbox[k] = conns[c].inbox[k]
                 \/ conns'[c].inbox[k] = m
          BY <4>2, <5>1
        <5> QED BY <3>3, <4>2, <5>2
      <4> QED BY <3>1, <4>1, <4>2
    <3>5. Met(i) => Met(i)'
      <4>1. \A d \in Conns : conns[d].index = i /\ Verified(d) =>
                                conns'[d].index = i /\ Verified(d)'
        BY <1>2, <3>1
      <4> QED BY <2>1, <4>1, MetStays DEF Queued
    <3>6. \A d \in Conns :
             /\ conns'[d].index = conns[d].index /\ (Verified(d) => Verified(d)')
             /\ \A k \in DOMAIN conns'[d].inbox :
                  \/ \E m \in DOMAIN conns[d].inbox : conns'[d].inbox[k] = conns[d].inbox[m]
                  \/ conns'[d].inbox[k].signed = x => conns'[d].index = i /\ Verified(d)'
      BY <1>2, <3>1, <3>4
    <3> QED BY <2>1, <2>3, <3>5, <3>6, ConfirmsKept
  <2> PICK j \in Index : j = Head(requests).index
    BY <2>1
  <2>6. \/ conns' = conns
        \/ sockets[j] # None /\ RemoteHears(sockets[j], Head(requests).msg)
    BY <1>8 DEF SendMessage
  <2>7. sockets[j] # None => sockets[j] \in Conns
    BY <1>1
  <2> QED BY <2>4, <2>5, <2>6, <2>7
<1>9. ASSUME NEW c \in Conns, ReadMessage(c) PROVE Confirms(i, x)'
  <2>1. /\ requests' = requests /\ conns[c].inbox # << >> /\ conns[c].inbox \in Seq(Message)
        /\ conns' = [conns EXCEPT ![c].inbox = Tail(conns[c].inbox)]
    BY <1>1, <1>9 DEF ReadMessage, Conn
  <2>2. /\ \A d \in Conns \ {c} : conns'[d] = conns[d]
        /\ conns'[c].index = conns[c].index /\ conns'[c].view = conns[c].view
        /\ conns'[c].inbox = Tail(conns[c].inbox)
    BY <1>1, <2>1 DEF Conn
  <2>3. \A k \in DOMAIN conns'[c].inbox :
           \E m \in DOMAIN conns[c].inbox : conns'[c].inbox[k] = conns[c].inbox[m]
    <3>1. PICK q \in Seq(Message) : q = conns[c].inbox
      BY <2>1
    <3>2. \A k \in DOMAIN Tail(q) : k + 1 \in DOMAIN q /\ Tail(q)[k] = q[k + 1]
      <4>1. q # << >>
        BY <2>1, <3>1
      <4> QED BY <4>1
    <3> QED BY <2>2, <3>1, <3>2
  <2>4. PICK e \in Event : events' = Append(events, e) /\ e.msg = Head(conns[c].inbox)
    <3>1. PICK key \in Keys :
            /\ [type |-> "message", index |-> conns[c].index, key |-> key,
                msg |-> Head(conns[c].inbox)] \in Event
            /\ events' = Append(events, [type |-> "message", index |-> conns[c].index,
                                         key |-> key, msg |-> Head(conns[c].inbox)])
      BY <1>1, <1>9, ReadReports
    <3> QED BY <3>1
  <2>5. e.msg.signed = x => Met(i)
    <3>2. PICK q \in Seq(Message) : q = conns[c].inbox
      BY <2>1
    <3>3. 1 \in DOMAIN q /\ Head(q) = q[1]
      <4>1. q # << >>
        BY <2>1, <3>2
      <4> QED BY <4>1
    <3>1. 1 \in DOMAIN conns[c].inbox /\ Head(conns[c].inbox) = conns[c].inbox[1]
      BY <3>2, <3>3
    <3> QED BY <2>4, <3>1 DEF Confirms, Met
  <2>6. \A n \in DOMAIN requests' : Posed(requests'[n], i, x)
    BY <2>1, PosedKept
  <2>7. \A d \in Conns : conns'[d].index = conns[d].index /\ (Verified(d) => Verified(d)')
    BY <1>2, <2>2 DEF Verified
  <2>8. Met(i) => Met(i)'
    BY <2>4, <2>7, QueuedAppend, MetStays
  <2>9. \A n \in DOMAIN events' : \/ events'[n].msg.signed = x => Met(i)
                                  \/ \E m \in DOMAIN events : events'[n] = events[m]
    BY <2>4, <2>5, QueuedAppend
  <2>10. \A d \in Conns :
            /\ conns'[d].index = conns[d].index /\ (Verified(d) => Verified(d)')
            /\ \A k \in DOMAIN conns'[d].inbox :
                 \/ \E m \in DOMAIN conns[d].inbox : conns'[d].inbox[k] = conns[d].inbox[m]
                 \/ conns'[d].inbox[k].signed = x => conns'[d].index = i /\ Verified(d)'
    <3> TAKE d \in Conns
    <3>1. CASE d = c
      BY <2>3, <2>7, <3>1
    <3>2. CASE d # c
      BY <1>2, <2>2, <3>2
    <3> QED BY <3>1, <3>2
  <2> QED BY <2>6, <2>8, <2>9, <2>10, ConfirmsKept
<1>10. ASSUME NEW c \in Conns, ReaderEnds(c) PROVE Confirms(i, x)'
  <2>1. /\ requests' = requests /\ conns' = [conns EXCEPT ![c] = NoConn]
        /\ Report("gone", conns[c].index, NoHost, NoMessage)
    BY <1>10 DEF ReaderEnds
  <2>2. (\A d \in Conns \ {c} : conns'[d] = conns[d]) /\ conns'[c].inbox = << >>
    BY <1>1, <2>1 DEF NoConn
  <2>3. PICK e \in Event : /\ events' = Append(events, e) /\ e.msg = NoMessage
                           /\ e.type = "gone" /\ e.index = conns[c].index
    <3>1. conns[c].index \in Index
      BY <1>1, <1>10 DEF ReaderEnds, Reading, Conn
    <3>2. [type |-> "gone", index |-> conns[c].index, key |-> NoHost, msg |-> NoMessage] \in Event
      BY <3>1 DEF Event, KeyOrNone, NoMessage, Message
    <3> QED BY <2>1, <3>2 DEF Report
  <2>4. \A n \in DOMAIN requests' : Posed(requests'[n], i, x)
    BY <2>1, PosedKept
  <2>5. Met(i) => Met(i)'
    <3>1. \A d \in Conns : conns[d].index = i /\ Verified(d) =>
             (conns'[d].index = i /\ Verified(d)') \/ Queued("gone", i)'
      BY <1>2, <2>2, <2>3, QueuedAppend
    <3> QED BY <2>3, <3>1, QueuedAppend, MetStays
  <2>6. \A n \in DOMAIN events' : \/ events'[n].msg.signed = x => Met(i)
                                  \/ \E m \in DOMAIN events : events'[n] = events[m]
    <3>1. e.msg.signed # x
      BY <1>1, <2>3 DEF NoMessage
    <3> QED BY <2>3, <3>1, QueuedAppend
  <2> QED BY <1>2, <2>2, <2>4, <2>5, <2>6, ConfirmsKept
<1> QED BY <1>4, <1>5, <1>6, <1>7, <1>8, <1>9, <1>10

\* A step of the routing thread that asks nothing with x keeps what is confirmed, unless
\* it takes the report of the peer's loss.
LEMMA ConfirmsRouting ==
    ASSUME TypeOK, NEW i \in Index, NEW x \in Challenges, Confirms(i, x), conns' = conns,
           \/ requests' = requests
           \/ \E s \in Seq({r \in Request : r.msg.challenge # x}) : requests' = requests \o s,
           \/ events' = events
           \/ /\ events # << >> /\ events' = Tail(events)
              /\ ~ (Head(events).type = "gone" /\ Head(events).index = i)
    PROVE  Confirms(i, x)'
<1>1. \A n \in DOMAIN requests' : Posed(requests'[n], i, x)
  BY PosedKept
<1>2. /\ Queued("gone", i) => Queued("gone", i)'
      /\ \A n \in DOMAIN events' : \E m \in DOMAIN events : events'[n] = events[m]
  <2>1. CASE events' = events
    BY <2>1 DEF Queued
  <2>2. CASE /\ events # << >> /\ events' = Tail(events)
             /\ ~ (Head(events).type = "gone" /\ Head(events).index = i)
    <3>1. /\ DOMAIN events = 1 .. Len(events) /\ Len(events) \in Nat
          /\ Len(events) >= 1 /\ Head(events) = events[1]
          /\ DOMAIN events' = 1 .. Len(events) - 1
          /\ \A n \in 1 .. Len(events) - 1 : events'[n] = events[n + 1]
      BY <2>2, EventsChange
    <3>2. \A n \in DOMAIN events' : n + 1 \in DOMAIN events /\ events'[n] = events[n + 1]
      BY <3>1
    <3>3. ASSUME NEW m \in DOMAIN events, events[m].type = "gone", events[m].index = i
          PROVE  Queued("gone", i)'
      <4>1. m # 1
        BY <2>2, <3>1, <3>3
      <4>2. m - 1 \in DOMAIN events' /\ events'[m - 1] = events[m]
        BY <3>1, <3>3, <4>1
      <4> QED BY <3>3, <4>2 DEF Queued
    <3> QED BY <3>2, <3>3 DEF Queued
  <2> QED BY <2>1, <2>2
<1>3. \A c \in Conns : Verified(c) => Verified(c)'
  BY DEF Verified
<1>4. Met(i) => Met(i)'
  BY <1>2, <1>3, MetStays
<1>5. \A c \in Conns :
         /\ conns'[c].index = conns[c].index
         /\ \A k \in DOMAIN conns'[c].inbox :
               \E m \in DOMAIN conns[c].inbox : conns'[c].inbox[k] = conns[c].inbox[m]
  OBVIOUS
<1> QED BY <1>1, <1>2, <1>3, <1>4, <1>5, ConfirmsKept

\* So does a peer that stays as it was, as far as the handshake goes, or has nothing to
\* be confirmed any more.
LEMMA StaticKept ==
    ASSUME MutualInv, NEW i \in Index, conns' = conns,
           \/ peers'[i].static = NoHost
           \/ Known(i)' /\ peers'[i].challenge = None
           \/ /\ peers'[i].static = peers[i].static
              /\ peers'[i].challenge = peers[i].challenge
              /\ Known(i) => Known(i)'
              /\ \/ requests' = requests
                 \/ \E s \in Seq({r \in Request : \/ r.msg.challenge # peers[i].challenge
                                                  \/ r.msg.challenge = None}) :
                       requests' = requests \o s
              /\ \/ events' = events
                 \/ /\ events # << >> /\ events' = Tail(events)
                    /\ ~ (Head(events).type = "gone" /\ Head(events).index = i)
    PROVE  StaticConfirmed(i)'
<1> SUFFICES ASSUME peers'[i].static # NoHost
             PROVE  Known(i)' /\ (peers'[i].challenge # None => Confirms(i, peers[i].challenge)')
  BY DEF StaticConfirmed
<1>1. TypeOK /\ StaticConfirmed(i) /\ peers[i].challenge \in Challenges \cup {None}
  BY DEF MutualInv, TypeOK, Peer
<1>2. CASE Known(i)' /\ peers'[i].challenge = None
  BY <1>2
<1>3. CASE ~ (Known(i)' /\ peers'[i].challenge = None)
  <2>1. /\ peers'[i].static = peers[i].static /\ peers'[i].challenge = peers[i].challenge
        /\ Known(i) => Known(i)'
        /\ \/ requests' = requests
           \/ \E s \in Seq({r \in Request : \/ r.msg.challenge # peers[i].challenge
                                            \/ r.msg.challenge = None}) :
                 requests' = requests \o s
        /\ \/ events' = events
           \/ /\ events # << >> /\ events' = Tail(events)
              /\ ~ (Head(events).type = "gone" /\ Head(events).index = i)
    BY <1>3
  <2>2. Known(i)' /\ peers[i].static # NoHost
    BY <1>1, <2>1 DEF StaticConfirmed
  <2>3. PICK x \in Challenges : x = peers[i].challenge
    BY <1>1, <1>3, <2>1, <2>2
  <2>4. Confirms(i, x) /\ x # None
    BY <1>1, <1>3, <2>1, <2>2, <2>3 DEF StaticConfirmed
  <2>5. {r \in Request : r.msg.challenge # peers[i].challenge \/ r.msg.challenge = None}
           = {r \in Request : r.msg.challenge # x}
    BY <2>3, <2>4
  <2>6. Confirms(i, x)'
    BY <1>1, <2>1, <2>4, <2>5, ConfirmsRouting
  <2> QED BY <2>1, <2>2, <2>3, <2>6
<1> QED BY <1>2, <1>3

\* A new challenge has been sent to the peer only, with an answer.
LEMMA FreshConfirms ==
    ASSUME TypeOK, NEW i \in Index, NEW x \in Fresh, conns' = conns,
           events # << >>, events' = Tail(events),
           NEW r \in Request, requests' = Append(requests, r),
           r.type = "send", r.index = i, r.msg.signed # None
    PROVE  Confirms(i, x)'
<1>1. /\ \A n \in DOMAIN events : events[n].msg.signed # x
      /\ \A n \in DOMAIN requests : requests[n].msg.challenge # x
      /\ \A c \in Conns : \A k \in DOMAIN conns[c].inbox : conns[c].inbox[k].signed # x
  BY FreshUnused
<1>2. ASSUME NEW n \in DOMAIN requests' PROVE Posed(requests'[n], i, x)
  <2>1. /\ DOMAIN requests = 1 .. Len(requests) /\ Len(requests) \in Nat
        /\ DOMAIN requests' = 1 .. Len(requests) + 1
        /\ \A m \in 1 .. Len(requests) : requests'[m] = requests[m]
    BY RequestsChange
  <2>2. requests'[Len(requests) + 1] = r
    BY DEF TypeOK
  <2>3. n = Len(requests) + 1 \/ n \in DOMAIN requests
    BY <1>2, <2>1
  <2> QED BY <1>1, <2>1, <2>2, <2>3 DEF Posed
<1>3. \A n \in DOMAIN events' : events'[n].msg.signed # x
  <2>1. /\ DOMAIN events = 1 .. Len(events) /\ Len(events) \in Nat
        /\ DOMAIN events' = 1 .. Len(events) - 1
        /\ \A n \in 1 .. Len(events) - 1 : events'[n] = events[n + 1]
    BY EventsChange
  <2>2. \A n \in DOMAIN events' : n + 1 \in DOMAIN events /\ events'[n] = events[n + 1]
    BY <2>1
  <2> QED BY <1>1, <2>2
<1> QED BY <1>1, <1>2, <1>3 DEF Confirms

\* A step of the routing thread.
LEMMA StaticRouting ==
    ASSUME MutualInv, NEW i \in Index,
           \/ HandleNewPeer \/ HandlePeerDisconnect
           \/ IgnoreMessage \/ HandleHandshakeChallenge
           \/ RefuseHandshakeResponse \/ HandleHandshakeResponse
           \/ ProcessTimerEvent
           \/ \E k \in StunKeys : AddStunPeer(k)
           \/ \E j \in Index : RemoveStunPeer(j)
    PROVE  StaticConfirmed(i)'
<1>1. /\ TypeOK /\ peers \in [Index -> Peer] /\ StaticConfirmed(i) /\ peers[i] \in Peer
      /\ requests \in Seq(Request)
  BY DEF MutualInv, TypeOK
<1>2. conns' = conns
  BY DEF HandleNewPeer, HandlePeerDisconnect, IgnoreMessage, HandleHandshakeChallenge,
         RefuseHandshakeResponse, HandleHandshakeResponse, ProcessTimerEvent, AddStunPeer,
         RemoveStunPeer
<1> DEFINE Quiet == {r \in Request : r.msg.challenge # peers[i].challenge \/ r.msg.challenge = None}
<1>3. ASSUME NEW type, Received(type)
      PROVE  /\ events # << >> /\ events' = Tail(events)
             /\ Head(events).index \in Index /\ Head(events).msg \in Message
             /\ Head(events).type = type
  BY <1>1, <1>3, ChannelTypes DEF Received, Event
<1>4. ASSUME NEW r \in Quiet, requests' = Append(requests, r)
      PROVE  \E s \in Seq(Quiet) : requests' = requests \o s
  <2>1. r \in Request
    BY <1>4
  <2>2. Append(requests, r) = requests \o <<r>>
    BY <1>1, <2>1
  <2>3. <<r>> \in Seq(Quiet)
    BY <1>4
  <2> QED BY <1>4, <2>2, <2>3
<1>5. CASE HandleNewPeer
  <2>1. PICK j \in Index : j = Head(events).index
    BY <1>3, <1>5 DEF HandleNewPeer
  <2>2. /\ events # << >> /\ events' = Tail(events) /\ Head(events).type = "new"
    BY <1>3, <1>5 DEF HandleNewPeer
  <2>3. CASE /\ peers[j].static # NoHost /\ requests' = requests
             /\ peers' = [peers EXCEPT ![j] = [peers[j] EXCEPT !.status = "connecting"]]
    <3>1. /\ peers'[i].static = peers[i].static /\ peers'[i].challenge = peers[i].challenge
          /\ Known(i) => Known(i)'
      BY <1>1, <2>3 DEF Known, Peer
    <3> QED BY <1>2, <2>2, <2>3, <3>1, StaticKept
  <2>4. ASSUME peers[j].static = NoHost, NEW x \in Fresh,
               peers' = [peers EXCEPT ![j] = [peers[j] EXCEPT !.status = "connecting", !.challenge = x]],
               requests' = Append(requests, Send(j, None, x))
        PROVE  StaticConfirmed(i)'
    <3>1. CASE i = j
      <4>1. peers'[i].static = NoHost
        BY <1>1, <2>4, <3>1 DEF Peer
      <4> QED BY <1>2, <4>1, StaticKept
    <3>2. CASE i # j
      <4>1. peers'[i] = peers[i]
        BY <1>1, <2>4, <3>2
      <4>2. PICK r \in Request : r = Send(j, None, x)
        BY <2>1, RequestTypes, FreshType DEF KeyOrNone, Send
      <4>3. r.msg.challenge = x /\ peers[i].challenge # x
        BY <1>1, <4>2, FreshUnused DEF Send
      <4>4. r \in Quiet
        BY <4>3
      <4>5. \E s \in Seq(Quiet) : requests' = requests \o s
        BY <1>4, <2>4, <4>2, <4>4
      <4> QED BY <1>2, <2>2, <4>1, <4>5, StaticKept DEF Known
    <3> QED BY <3>1, <3>2
  <2>5. \/ /\ peers[j].static # NoHost /\ requests' = requests
           /\ peers' = [peers EXCEPT ![j] = [peers[j] EXCEPT !.status = "connecting"]]
        \/ /\ peers[j].static = NoHost
           /\ \E x \in Fresh :
                /\ peers' = [peers EXCEPT ![j] = [peers[j] EXCEPT !.status = "connecting", !.challenge = x]]
                /\ requests' = Append(requests, Send(j, None, x))
    BY <1>1, <1>5, <2>1 DEF HandleNewPeer, Peer
  <2> QED BY <2>3, <2>4, <2>5
<1>6. CASE HandlePeerDisconnect
  <2>1. PICK j \in Index : j = Head(events).index
    BY <1>3, <1>6 DEF HandlePeerDisconnect
  <2>2. /\ events # << >> /\ events' = Tail(events) /\ requests' = requests
        /\ peers' = IF Known(j) THEN [peers EXCEPT ![j] = MarkAsDisconnected(peers[j])] ELSE peers
    BY <1>3, <1>6, <2>1 DEF HandlePeerDisconnect
  <2>3. CASE i # j
    <3>1. peers'[i] = peers[i]
      BY <1>1, <2>2, <2>3
    <3> QED BY <1>2, <2>1, <2>2, <2>3, <3>1, StaticKept DEF Known
  <2>4. CASE i = j /\ Known(i)
    <3>1. peers'[i].status = "disconnected" /\ peers'[i].challenge = None
      BY <1>1, <2>2, <2>4 DEF MarkAsDisconnected, Peer
    <3> QED BY <1>2, <3>1, StaticKept DEF Known
  <2>5. CASE i = j /\ ~ Known(i)
    <3>1. peers'[i] = peers[i] /\ peers[i].static = NoHost
      BY <1>1, <2>2, <2>5 DEF StaticConfirmed
    <3> QED BY <1>2, <3>1, StaticKept
  <2> QED BY <2>3, <2>4, <2>5
<1>7. CASE IgnoreMessage
  <2>1. /\ events # << >> /\ events' = Tail(events) /\ Head(events).type = "message"
        /\ peers' = peers /\ requests' = requests
    BY <1>3, <1>7 DEF IgnoreMessage, collection
  <2> QED BY <1>2, <2>1, StaticKept DEF Known
<1>8. CASE HandleHandshakeChallenge
  <2>1. PICK j \in Index : /\ j = Head(events).index /\ Head(events).msg \in Message
                           /\ events # << >> /\ events' = Tail(events)
                           /\ Head(events).type = "message"
    BY <1>3, <1>8 DEF HandleHandshakeChallenge
  <2>2. PICK x \in Fresh : /\ peers' = [peers EXCEPT ![j].challenge = x]
                           /\ requests' = Append(requests, Send(j, Signed(Head(events).msg.challenge), x))
    BY <1>8, <2>1 DEF HandleHandshakeChallenge
  <2>3. PICK r \in Request : r = Send(j, Signed(Head(events).msg.challenge), x)
    BY <2>1, RequestTypes, SignedType, FreshType DEF KeyOrNone, Message
  <2>4. /\ r.type = "send" /\ r.index = j /\ r.msg.challenge = x
        /\ r.msg.signed = Signed(Head(events).msg.challenge)
    BY <2>3 DEF Send
  <2>5. Known(j) /\ Known(j)'
    BY <1>1, <1>8, <2>1, <2>2 DEF HandleHandshakeChallenge, Known, Peer
  <2>6. CASE i = j
    <3>1. peers'[i].challenge = x
      BY <1>1, <2>2, <2>6
    <3>2. r.msg.signed # None
      <4>1. Head(events).msg.challenge \in Challenges \cup {None}
        BY <2>1 DEF Message
      <4> QED BY <2>4, <4>1, PeersAssumption DEF Signed, Zeros, Challenges, None
    <3>3. Confirms(i, x)'
      BY <1>1, <1>2, <2>1, <2>2, <2>3, <2>4, <2>6, <3>2, FreshConfirms
    <3> QED BY <2>5, <2>6, <3>1, <3>3 DEF StaticConfirmed
  <2>7. CASE i # j
    <3>1. peers'[i] = peers[i]
      BY <1>1, <2>2, <2>7
    <3>2. peers[i].challenge # x
      BY <1>1, FreshUnused
    <3>3. r \in Quiet
      BY <2>4, <3>2
    <3>4. \E s \in Seq(Quiet) : requests' = requests \o s
      BY <1>4, <2>2, <2>3, <3>3
    <3> QED BY <1>2, <2>1, <3>1, <3>4, StaticKept DEF Known
  <2> QED BY <2>6, <2>7
<1>9. CASE RefuseHandshakeResponse
  <2>1. PICK j \in Index : /\ j = Head(events).index
                           /\ events # << >> /\ events' = Tail(events)
                           /\ Head(events).type = "message"
    BY <1>3, <1>9 DEF RefuseHandshakeResponse
  <2>2. /\ Known(j)
        /\ peers' = [peers EXCEPT ![j] = MarkAsDisconnected(peers[j])]
        /\ requests' = requests \o <<Disconnect(j), Disconnect(j)>>
    BY <1>9, <2>1 DEF RefuseHandshakeResponse
  <2>3. \E s \in Seq(Quiet) : requests' = requests \o s
    <3>1. PICK r \in Request : r = Disconnect(j)
      BY <2>1, RequestTypes DEF KeyOrNone, Disconnect
    <3>2. r.msg.challenge = None
      BY <3>1 DEF Disconnect, NoMessage
    <3>3. <<r, r>> \in Seq(Quiet)
      BY <3>2
    <3> QED BY <2>2, <3>1, <3>3
  <2>4. CASE i = j
    <3>1. peers'[i].status = "disconnected" /\ peers'[i].challenge = None
      BY <1>1, <2>2, <2>4 DEF MarkAsDisconnected, Peer
    <3> QED BY <1>2, <3>1, StaticKept DEF Known
  <2>5. CASE i # j
    <3>1. peers'[i] = peers[i]
      BY <1>1, <2>2, <2>5
    <3> QED BY <1>2, <2>1, <2>3, <3>1, StaticKept DEF Known
  <2> QED BY <2>4, <2>5
<1>10. CASE HandleHandshakeResponse
  <2>1. PICK j \in Index : /\ j = Head(events).index /\ Head(events).msg \in Message
                           /\ events # << >> /\ events' = Tail(events)
                           /\ Head(events).type = "message"
    BY <1>3, <1>10 DEF HandleHandshakeResponse
  <2>2. PICK p : p = [peers[j] EXCEPT !.status = "connected", !.key = Head(events).key,
                                      !.challenge = None]
    OBVIOUS
  <2>3. PICK joined : joined = [peers EXCEPT ![j] = p]
    OBVIOUS
  <2>4. \/ peers' = joined
        \/ \E k \in Index : peers' = [Without(joined, k) EXCEPT ![j] = JoinAsReconnection(p, peers[k])]
    BY <1>10, <2>1, <2>2, <2>3 DEF HandleHandshakeResponse, Reconnectable
  <2>5. p.status = "connected" /\ p.challenge = None
    BY <1>1, <2>2 DEF Peer
  <2>6. \A old : /\ JoinAsReconnection(p, old).status = "connected"
                 /\ JoinAsReconnection(p, old).challenge = None
    BY <1>1, <2>2 DEF JoinAsReconnection, Peer
  <2>7. peers'[j].status = "connected" /\ peers'[j].challenge = None
    BY <1>1, <2>3, <2>4, <2>5, <2>6 DEF Without
  <2>8. CASE i = j
    BY <1>2, <2>7, <2>8, StaticKept DEF Known
  <2>9. CASE i # j
    <3>1. peers'[i] = peers[i] \/ peers'[i] = Absent
      BY <1>1, <2>3, <2>4, <2>9 DEF Without
    <3>2. requests' = requests \/ \E s \in Seq(Quiet) : requests' = requests \o s
      <4>1. PICK r \in Request : r = Send(j, Signed(Head(events).msg.challenge), None)
        BY <2>1, RequestTypes, SignedType DEF KeyOrNone, Message
      <4>2. requests' = requests \/ requests' = Append(requests, r)
        BY <1>10, <2>1, <4>1, Zenon DEF HandleHandshakeResponse
      <4>3. r.msg.challenge = None
        BY <4>1 DEF Send
      <4> QED BY <1>4, <4>2, <4>3
    <3>3. CASE peers'[i] = Absent
      BY <1>2, <3>3, StaticKept DEF Absent
    <3>4. CASE peers'[i] = peers[i]
      BY <1>2, <2>1, <3>2, <3>4, StaticKept DEF Known
    <3> QED BY <3>1, <3>3, <3>4
  <2> QED BY <2>8, <2>9
<1>11. CASE ProcessTimerEvent
  <2>1. events' = events /\ peers'[i] \in {peers[i], Absent}
    BY <1>11 DEF ProcessTimerEvent, RemoveDisconnectedPeers
  <2>2. \E s \in Seq(Quiet) : requests' = requests \o s
    <3>1. PICK due \in SUBSET {k \in Index : peers[k].status = "disconnected" /\ peers[k].static # NoHost} :
             Dial(due)
      BY <1>11 DEF ProcessTimerEvent
    <3>2. PICK s \in Seq(Request) : /\ requests' = requests \o s
                                    /\ \A n \in DOMAIN s : s[n].msg = NoMessage
      BY <1>1, <3>1, DialRequests
    <3>3. \A n \in 1 .. Len(s) : s[n] \in Quiet
      BY <3>2 DEF NoMessage
    <3>4. s \in Seq(Quiet)
      BY <3>2, <3>3
    <3> QED BY <3>2, <3>4
  <2>3. CASE peers'[i] = Absent
    BY <1>2, <2>3, StaticKept DEF Absent
  <2>4. CASE peers'[i] = peers[i]
    BY <1>2, <2>1, <2>2, <2>4, StaticKept DEF Known
  <2> QED BY <2>1, <2>3, <2>4
<1>12. ASSUME NEW k \in StunKeys, AddStunPeer(k) PROVE StaticConfirmed(i)'
  <2>1. /\ events' = events /\ requests' = requests
        /\ peers'[i] = peers[i] \/ peers'[i].static = NoHost
    BY <1>1, <1>12 DEF AddStunPeer, Absent
  <2>2. CASE peers'[i].static = NoHost
    BY <1>2, <2>2, StaticKept
  <2>3. CASE peers'[i] = peers[i]
    BY <1>2, <2>1, <2>3, StaticKept DEF Known
  <2> QED BY <2>1, <2>2, <2>3
<1>13. ASSUME NEW j \in Index, RemoveStunPeer(j) PROVE StaticConfirmed(i)'
  <2>1. /\ events' = events /\ requests' = requests /\ peers'[i] \in {peers[i], Absent}
    BY <1>1, <1>13 DEF RemoveStunPeer, Without
  <2>2. CASE peers'[i] = Absent
    BY <1>2, <2>2, StaticKept DEF Absent
  <2>3. CASE peers'[i] = peers[i]
    BY <1>2, <2>1, <2>3, StaticKept DEF Known
  <2> QED BY <2>1, <2>2, <2>3
<1> QED BY <1>5, <1>6, <1>7, <1>8, <1>9, <1>10, <1>11, <1>12, <1>13

\* Nothing is under way in the first state.
LEMMA MutualInit == Init => MutualInv
<1> SUFFICES ASSUME Init PROVE MutualInv
  OBVIOUS
<1>1. TypeOK /\ Unmade /\ Plugged
  BY LiveInit DEF LiveInv
<1>2. \A i \in Index : peers[i].challenge = None /\ (peers[i].static # NoHost => Known(i))
  BY DEF Init, Absent, Known
<1> QED BY <1>1, <1>2 DEF MutualInv, StaticConfirmed

\* Every step keeps what is confirmed of the static peers.
LEMMA MutualStep ==
    ASSUME MutualInv, TypeOK', Unmade', Plugged', [Next]_vars
    PROVE  MutualInv'
<1> SUFFICES ASSUME NEW i \in Index PROVE StaticConfirmed(i)'
  BY DEF MutualInv
<1>1. CASE UNCHANGED vars
  BY <1>1 DEF vars, collection, MutualInv, StaticConfirmed, Known, Confirms, Met, Verified, Queued
<1>2. CASE \/ \E h \in Hosts : Incoming(h)
           \/ DialSucceeds \/ DialFails \/ DisconnectSocket \/ SendMessage
           \/ \E c \in Conns : ReadMessage(c) \/ ReaderEnds(c)
  <2>1. peers' = peers
    BY <1>2 DEF Incoming, DialSucceeds, DialFails, DisconnectSocket, SendMessage, ReadMessage,
                ReaderEnds, collection
  <2>2. TypeOK /\ StaticConfirmed(i) /\ peers[i].challenge \in Challenges \cup {None}
    BY DEF MutualInv, TypeOK, Peer
  <2>3. ASSUME peers[i].static # NoHost, NEW x \in Challenges, x = peers[i].challenge
        PROVE  Confirms(i, x)'
    <3>1. x # None
      BY DEF Challenges, None
    <3>2. Confirms(i, x)
      BY <2>2, <2>3, <3>1 DEF StaticConfirmed
    <3> QED BY <1>2, <3>2, ConfirmsNetwork DEF MutualInv
  <2> QED BY <2>1, <2>2, <2>3 DEF StaticConfirmed, Known
<1>3. CASE \/ HandleNewPeer \/ HandlePeerDisconnect
           \/ IgnoreMessage \/ HandleHandshakeChallenge
           \/ RefuseHandshakeResponse \/ HandleHandshakeResponse
           \/ ProcessTimerEvent
           \/ \E k \in StunKeys : AddStunPeer(k)
           \/ \E j \in Index : RemoveStunPeer(j)
  BY <1>3, StaticRouting
<1> QED BY <1>1, <1>2, <1>3 DEF Next

\* The side that dialled is connected only by an answer to its challenge, which the other
\* side has signed after verifying it.
LEMMA MutualKept ==
    ASSUME MutualInv, Next, NEW i \in Index,
           peers[i].status # "connected", peers'[i].status = "connected",
           peers[i].static # NoHost
    PROVE  Met(i)
<1>1. /\ TypeOK /\ peers \in [Index -> Peer] /\ peers[i] \in Peer /\ StaticConfirmed(i)
      /\ Known(i)
  BY DEF MutualInv, TypeOK, StaticConfirmed
<1>2. CASE HandleHandshakeResponse
  <2>1. PICK j \in Index : /\ j = Head(events).index /\ events # << >>
                           /\ peers[j].challenge # None
                           /\ Head(events).msg.signed = peers[j].challenge
    BY <1>1, <1>2, ChannelTypes DEF HandleHandshakeResponse, Received, Event, Accepted
  <2>2. CASE i = j
    <3>1. Confirms(i, peers[i].challenge)
      BY <1>1, <2>1, <2>2 DEF StaticConfirmed
    <3>2. 1 \in DOMAIN events /\ events[1] = Head(events)
      <4>1. events' = Tail(events)
        BY <1>2 DEF HandleHandshakeResponse, Received
      <4> QED BY <1>1, <2>1, <4>1, HeadTaken
    <3> QED BY <2>1, <2>2, <3>1, <3>2 DEF Confirms
  <2>3. CASE i # j
    <3>1. PICK p : p = [peers[j] EXCEPT !.status = "connected", !.key = Head(events).key,
                                        !.challenge = None]
      OBVIOUS
    <3>2. PICK joined : joined = [peers EXCEPT ![j] = p]
      OBVIOUS
    <3>3. \/ peers' = joined
          \/ \E k \in Index : peers' = [Without(joined, k) EXCEPT ![j] = JoinAsReconnection(p, peers[k])]
      BY <1>2, <2>1, <3>1, <3>2 DEF HandleHandshakeResponse, Reconnectable
    <3>4. peers'[i] = peers[i] \/ peers'[i] = Absent
      BY <1>1, <2>3, <3>2, <3>3 DEF Without
    <3> QED BY <3>4 DEF Absent
  <2> QED BY <2>2, <2>3
<1>3. ASSUME ~ HandleHandshakeResponse PROVE FALSE
  <2>1. ASSUME \/ \E h \in Hosts : Incoming(h)
               \/ DialSucceeds \/ DialFails \/ DisconnectSocket \/ SendMessage
               \/ \E c \in Conns : ReadMessage(c) \/ ReaderEnds(c)
               \/ IgnoreMessage
        PROVE  peers' = peers
    BY <2>1 DEF Incoming, DialSucceeds, DialFails, DisconnectSocket, SendMessage, ReadMessage,
                ReaderEnds, IgnoreMessage, collection
  <2>2. PICK j : j = Head(events).index
    OBVIOUS
  <2>3. HandleNewPeer => peers'[i].status \in {peers[i].status, "connecting"}
    <3> SUFFICES ASSUME HandleNewPeer PROVE peers'[i].status \in {peers[i].status, "connecting"}
      OBVIOUS
    <3>1. peers'[i] = peers[i] \/ peers'[i].status = "connecting"
      BY <1>1, NewPeerWaits
    <3> QED BY <3>1
  <2>4. HandlePeerDisconnect \/ RefuseHandshakeResponse =>
           peers'[i].status \in {peers[i].status, "disconnected"}
    <3> SUFFICES ASSUME HandlePeerDisconnect \/ RefuseHandshakeResponse
                 PROVE  peers'[i].status \in {peers[i].status, "disconnected"}
      OBVIOUS
    <3>1. peers' = peers \/ peers' = [peers EXCEPT ![j] = MarkAsDisconnected(peers[j])]
      BY <2>2 DEF HandlePeerDisconnect, RefuseHandshakeResponse
    <3>2. CASE i # j
      <4>1. peers'[i] = peers[i]
        BY <1>1, <3>1, <3>2
      <4> QED BY <4>1
    <3>3. CASE i = j
      BY <1>1, <3>1, <3>3 DEF MarkAsDisconnected, Peer
    <3> QED BY <3>2, <3>3
  <2>5. HandleHandshakeChallenge => peers'[i].status = peers[i].status
    <3> SUFFICES ASSUME HandleHandshakeChallenge PROVE peers'[i].status = peers[i].status
      OBVIOUS
    <3>1. PICK x : peers' = [peers EXCEPT ![j].challenge = x]
      BY <2>2 DEF HandleHandshakeChallenge
    <3> QED BY <1>1, <3>1 DEF Peer
  <2>6. ProcessTimerEvent \/ (\E k \in Index : RemoveStunPeer(k)) => peers'[i] \in {peers[i], Absent}
    BY <1>1 DEF ProcessTimerEvent, RemoveDisconnectedPeers, RemoveStunPeer, Without
  <2>7. (\E k \in StunKeys : AddStunPeer(k)) => peers'[i] = peers[i]
    <3> SUFFICES ASSUME NEW k \in StunKeys, AddStunPeer(k) PROVE peers'[i] = peers[i]
      OBVIOUS
    <3>1. i # counter + 1
      BY <1>1 DEF AddStunPeer
    <3> QED BY <1>1, <3>1 DEF AddStunPeer
  <2>8. peers'[i].status \in {peers[i].status, "connecting", "disconnected", "absent"}
    <3>1. Absent.status = "absent"
      BY DEF Absent
    <3> QED BY <1>3, <2>1, <2>3, <2>4, <2>5, <2>6, <2>7, <3>1 DEF Next
  <2> QED BY <2>8
<1> QED BY <1>2, <1>3

\* A node that dialled a configured host is connected only when that host has verified
\* it, also when two connections share the index and answers of one are handled after
\* the other was made.
THEOREM HandshakeMutual == Spec => MutualHandshake
<1>1. Init => MutualInv
  BY MutualInit
<1>2. LiveInv' /\ MutualInv /\ NoticeInv' /\ [Next]_vars => MutualInv'
  BY MutualStep DEF LiveInv, NoticeInv
<1>3. MutualInv /\ [Next]_vars =>
        [\A i \in Index :
           peers[i].status # "connected" /\ peers'[i].status = "connected" /\ peers[i].static # NoHost =>
             \/ \E c \in Conns : conns[c].index = i /\ conns[c].view \in {"verified", "dropped"}
             \/ Queued("gone", i)]_vars
  BY MutualKept DEF Met, Verified
<1>4. Init => LiveInv
  BY LiveInit
<1>5. LiveInv /\ NoticeInv' /\ [Next]_vars => LiveInv'
  BY LiveStep DEF NoticeInv
<1> QED BY <1>1, <1>2, <1>3, <1>4, <1>5, NoticeInvariant, PTL DEF Spec, MutualHandshake

=============================================================================
