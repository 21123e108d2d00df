-------------------------------- MODULE Peers --------------------------------
(***************************************************************************)
(* The peer collection of a node and the handshake that fills it: incoming *)
(* connections, connections to the configured (static) hosts, their loss,  *)
(* reconnection, and the removal of peers that stay away.                  *)
(*                                                                         *)
(* The routing thread handles one event at a time under the write lock of  *)
(* the collection.  The network controller takes one request at a time     *)
(* from its own channel, and each connection has a task that reads its     *)
(* socket; both report to the routing thread through one channel.  A       *)
(* socket is kept under the index of its peer, and a static peer keeps its *)
(* index over its connections.                                             *)
(*                                                                         *)
(* The node at the other end of a connection runs the same handshake; of   *)
(* its state only the challenge it waits for and its verdict are kept.     *)
(* A host may hold several keys (it has been set up anew with another      *)
(* wallet) and answers with any of them; it goes by one of them.  A        *)
(* signature is the challenge it was made over.  There is no clock: a      *)
(* timer event finds any of the disconnected static peers due, and any of  *)
(* the other disconnected peers away for the removal window.  Rate         *)
(* limiters and pings are left out.                                        *)
(*                                                                         *)
(* A response that passes every check and carries another key than the     *)
(* entry fails the assertion of peer.rs:297, and the panic hook ends the   *)
(* process: no action takes that event from the head of the channel.       *)
(***************************************************************************)
EXTENDS Naturals, Sequences, FiniteSets, SequencesExt

CONSTANTS
    Keys,         \* public keys of other nodes
    Hosts,        \* the other nodes, each named by one of its keys
    Holder,       \* the host that holds a key
    NoHost,       \* no key, no configuration
    PeerConfigs,  \* the configured hosts, in the order of get_peer_configs
    Incompatible, \* keys that come with another minor version
    StunKeys,     \* keys that may be added as stun peers
    MaxIndex,     \* bound: peer indices handed out
    MaxConns,     \* bound: connections made in a behaviour
    MaxRequests,  \* bound: requests waiting when the timer fires
    MaxChallenge  \* bound: challenges in use at a time

ASSUME PeersAssumption ==
    /\ Hosts \subseteq Keys
    /\ Holder \in [Keys -> Hosts]
    /\ \A h \in Hosts : Holder[h] = h
    /\ NoHost \notin Keys
    /\ PeerConfigs \in Seq(Hosts)
    /\ \A i, j \in DOMAIN PeerConfigs : PeerConfigs[i] = PeerConfigs[j] => i = j
    /\ Incompatible \subseteq Keys
    /\ StunKeys \subseteq Keys
    /\ MaxIndex \in Nat /\ Len(PeerConfigs) <= MaxIndex
    /\ MaxConns \in Nat
    /\ MaxRequests \in Nat
    /\ MaxChallenge \in Nat

VARIABLES
    peers,    \* index_to_peers; away: disconnected_at is set
    address,  \* address_to_peers
    counter,  \* peer_counter
    events,   \* channel to the routing thread
    requests, \* channel to the network controller
    sockets,  \* sender half of a connection, by peer index
    conns,    \* connections whose reader task runs
    made      \* number of connections made so far

collection == <<peers, address, counter>>
vars == <<collection, events, requests, sockets, conns, made>>

Index == 1 .. MaxIndex
Conns == 1 .. MaxConns
None  == 0  \* no challenge, no index, no connection

Challenges == 1 .. MaxChallenge
KeyOrNone == Keys \cup {NoHost}

\* What is signed: a challenge, or the zeros in the third message of a handshake.
Zeros     == MaxChallenge + 1
Signed(x) == IF x = None THEN Zeros ELSE x

\* A message has a signature or is a challenge.
Message == [signed : Challenges \cup {None, Zeros}, challenge : Challenges \cup {None}]
Event   == [type : {"new", "message", "gone"}, index : Index, key : KeyOrNone, msg : Message]
Request == [type : {"connect", "disconnect", "send"}, index : Index, key : KeyOrNone,
            msg : Message]
Peer    == [status : {"absent", "disconnected", "connecting", "connected"},
            static : KeyOrNone, key : KeyOrNone, challenge : Challenges \cup {None},
            away : BOOLEAN, stun : BOOLEAN]
\* view: what the other end thinks of us.
Conn    == [index : Index \cup {None}, host : KeyOrNone, dialled : BOOLEAN,
            theirs : Challenges \cup {None}, inbox : Seq(Message),
            view : {"waiting", "verified", "refused", "dropped"}]

NoMessage == [signed |-> None, challenge |-> None]
Absent    == [status |-> "absent", static |-> NoHost, key |-> NoHost, challenge |-> None,
              away |-> FALSE, stun |-> FALSE]
NoConn    == [index |-> None, host |-> NoHost, dialled |-> FALSE, theirs |-> None,
              inbox |-> << >>, view |-> "waiting"]

Known(i)   == peers[i].status # "absent"
Reading(c) == conns[c].index # None

-----------------------------------------------------------------------------
(* Challenges are random; one that is in use nowhere is as good as any.     *)

Mentioned(msgs) == UNION {{msgs[n].signed, msgs[n].challenge} : n \in DOMAIN msgs}

InUse == {peers[i].challenge : i \in Index}
         \cup Mentioned([n \in DOMAIN events |-> events[n].msg])
         \cup Mentioned([n \in DOMAIN requests |-> requests[n].msg])
         \cup UNION {{conns[c].theirs} \cup Mentioned(conns[c].inbox) : c \in Conns}

Fresh == LET used == InUse
         IN  {x \in Challenges : x \notin used /\ 1 .. x - 1 \subseteq used}

Report(type, i, key, msg) ==
    events' = Append(events, [type |-> type, index |-> i, key |-> key, msg |-> msg])

Send(i, signed, challenge) ==
    [type |-> "send", index |-> i, key |-> NoHost,
     msg |-> [signed |-> signed, challenge |-> challenge]]

Disconnect(i) == [type |-> "disconnect", index |-> i, key |-> NoHost, msg |-> NoMessage]

Connect(i, host) == [type |-> "connect", index |-> i, key |-> host, msg |-> NoMessage]

\* Faulty variant of Without: the old entry is copied and left there.
WithoutCopied(ps, i) == ps

\* index_to_peers.remove
Without(ps, i) == [ps EXCEPT ![i] = Absent]

-----------------------------------------------------------------------------
\* on_init and initialize_static_peers.
Init ==
    /\ peers = [i \in Index |->
                  IF i \in DOMAIN PeerConfigs
                    THEN [Absent EXCEPT !.status = "disconnected", !.static = PeerConfigs[i]]
                    ELSE Absent]
    /\ address = [k \in Keys |-> None]
    /\ counter = Len(PeerConfigs)
    /\ events = << >>
    /\ requests = << >>
    /\ sockets = [i \in Index |-> None]
    /\ conns = [c \in Conns |-> NoConn]
    /\ made = 0

-----------------------------------------------------------------------------
(* The network controller and the tasks that read the sockets.              *)

\* send_new_peer: the socket replaces one that is there under the index.
NewConnection(i, host, dialled, theirs, inbox) ==
    /\ made < MaxConns
    /\ made' = made + 1
    /\ conns' = [conns EXCEPT ![made + 1] =
                   [index |-> i, host |-> host, dialled |-> dialled,
                    theirs |-> theirs, inbox |-> inbox, view |-> "waiting"]]
    /\ sockets' = [sockets EXCEPT ![i] = made + 1]
    /\ Report("new", i, NoHost, NoMessage)

\* A host connects to our server and gets the next index.
Incoming(host) ==
    /\ counter < MaxIndex
    /\ counter' = counter + 1
    /\ NewConnection(counter + 1, host, FALSE, None, << >>)
    /\ UNCHANGED <<peers, address, requests>>

Requested(type) ==
    /\ requests # << >>
    /\ Head(requests).type = type
    /\ requests' = Tail(requests)

\* connect_to_peer with success; the server at the other end sends a challenge.
DialSucceeds ==
    /\ Requested("connect")
    /\ \E x \in Fresh :
         NewConnection(Head(requests).index, Head(requests).key, TRUE, x,
                       <<[signed |-> None, challenge |-> x]>>)
    /\ UNCHANGED collection

DialFails ==
    /\ Requested("connect")
    /\ UNCHANGED <<collection, events, sockets, conns, made>>

\* disconnect_socket on request: the reader task goes on.
DisconnectSocket ==
    /\ Requested("disconnect")
    /\ LET i == Head(requests).index
       IN  /\ sockets' = [sockets EXCEPT ![i] = None]
           /\ Report("gone", i, NoHost, NoMessage)
    /\ UNCHANGED <<collection, conns, made>>

\* What the other end does with a message of ours.
RemoteHears(c, msg) ==
    \/ /\ conns[c].view \in {"refused", "dropped"}
       /\ UNCHANGED conns
    \/ /\ conns[c].view \in {"waiting", "verified"}
       /\ msg.signed = None
       /\ \E x \in Fresh :
            conns' = [conns EXCEPT ![c].theirs = x,
                        ![c].inbox = Append(@, [signed |-> Signed(msg.challenge), challenge |-> x])]
    \/ /\ conns[c].view \in {"waiting", "verified"}
       /\ msg.signed # None
       /\ msg.signed = conns[c].theirs
       /\ conns' = [conns EXCEPT ![c].theirs = None, ![c].view = "verified",
                      ![c].inbox = IF conns[c].dialled
                                     THEN Append(@, [signed |-> Signed(msg.challenge), challenge |-> None])
                                     ELSE @]
    \/ /\ conns[c].view \in {"waiting", "verified"}
       /\ msg.signed # None
       /\ msg.signed # conns[c].theirs
       /\ conns' = [conns EXCEPT ![c].theirs = None, 
                      ![c].view = IF @ = "verified" THEN "dropped" ELSE "refused"]

\* send_outgoing_message: nothing without a socket, and a failing socket goes.
SendMessage ==
    /\ Requested("send")
    /\ LET i == Head(requests).index
           c == sockets[i]
       IN  \/ /\ c = None
              /\ UNCHANGED <<sockets, conns>>
           \/ /\ c # None
              /\ RemoteHears(c, Head(requests).msg)
              /\ UNCHANGED sockets
           \/ /\ c # None
              /\ sockets' = [sockets EXCEPT ![i] = None]
              /\ UNCHANGED conns
    /\ UNCHANGED <<collection, events, made>>

\* The key of a response is a field of the response; its signature is checked
\* with it, so that the sender holds it.
ReadMessage(c) ==
    /\ Reading(c)
    /\ conns[c].inbox # << >>
    /\ conns' = [conns EXCEPT ![c].inbox = Tail(@)]
    /\ \E key \in Keys : /\ Holder[key] = conns[c].host
                        /\ Report("message", conns[c].index, key, Head(conns[c].inbox))
    /\ UNCHANGED <<collection, requests, sockets, made>>

\* Faulty variant of ReaderEnds: no event when the socket was removed already.
ReaderEndsSilently(c) ==
    /\ Reading(c)
    /\ conns' = [conns EXCEPT ![c] = NoConn]
    /\ sockets' = [sockets EXCEPT ![conns[c].index] = None]
    /\ IF sockets[conns[c].index] = None
         THEN UNCHANGED events
         ELSE Report("gone", conns[c].index, NoHost, NoMessage)
    /\ UNCHANGED <<collection, requests, made>>

\* The other end is gone and the reader meets a close or an error:
\* disconnect_socket by the index.
ReaderEnds(c) ==
    /\ Reading(c)
    /\ conns' = [conns EXCEPT ![c] = NoConn]
    /\ sockets' = [sockets EXCEPT ![conns[c].index] = None]
    /\ Report("gone", conns[c].index, NoHost, NoMessage)
    /\ UNCHANGED <<collection, requests, made>>

-----------------------------------------------------------------------------
(* The routing thread.                                                      *)

Received(type) ==
    /\ events # << >>
    /\ Head(events).type = type
    /\ events' = Tail(events)

HandleNewPeer ==
    /\ Received("new")
    /\ LET i == Head(events).index
           p == [peers[i] EXCEPT !.status = "connecting"]
       IN  \/ /\ p.static # NoHost
              /\ peers' = [peers EXCEPT ![i] = p]
              /\ UNCHANGED requests
           \/ /\ p.static = NoHost
              /\ \E x \in Fresh :
                   /\ peers' = [peers EXCEPT ![i] = [p EXCEPT !.challenge = x]]
                   /\ requests' = Append(requests, Send(i, None, x))
    /\ UNCHANGED <<address, counter, sockets, conns, made>>

\* mark_as_disconnected
\* Faulty variant of MarkAsDisconnected: disconnected_at is not set.
MarkAsDisconnectedUndated(p) == [p EXCEPT !.challenge = None, !.status = "disconnected"]

MarkAsDisconnected(p) == [p EXCEPT !.challenge = None, !.away = TRUE, !.status = "disconnected"]

HandlePeerDisconnect ==
    /\ Received("gone")
    /\ LET i == Head(events).index
       IN  peers' = IF Known(i) THEN [peers EXCEPT ![i] = MarkAsDisconnected(@)] ELSE peers
    /\ UNCHANGED <<address, counter, requests, sockets, conns, made>>

\* A message of a peer that is not in the collection is ignored.
IgnoreMessage ==
    /\ Received("message")
    /\ ~ Known(Head(events).index)
    /\ UNCHANGED <<collection, requests, sockets, conns, made>>

\* Faulty variant of HandleHandshakeChallenge: connected once it has answered.
HandleHandshakeChallengeEager ==
    /\ Received("message")
    /\ LET i == Head(events).index
           msg == Head(events).msg
       IN  /\ Known(i)
           /\ msg.signed = None
           /\ \E x \in Fresh :
                /\ peers' = [peers EXCEPT ![i].challenge = x, ![i].status = "connected"]
                /\ requests' = Append(requests, Send(i, Signed(msg.challenge), x))
    /\ UNCHANGED <<address, counter, sockets, conns, made>>

HandleHandshakeChallenge ==
    /\ Received("message")
    /\ LET i == Head(events).index
           msg == Head(events).msg
       IN  /\ Known(i)
           /\ msg.signed = None
           /\ \E x \in Fresh :
                /\ peers' = [peers EXCEPT ![i].challenge = x]
                /\ requests' = Append(requests, Send(i, Signed(msg.challenge), x))
    /\ UNCHANGED <<address, counter, sockets, conns, made>>

\* The checks of handle_handshake_response before its assertion.
Accepted(p, e) ==
    /\ e.key \notin Incompatible
    /\ p.challenge # None
    /\ e.msg.signed = p.challenge

\* Both the peer and the network ask for the disconnection.
RefuseHandshakeResponse ==
    /\ Received("message")
    /\ LET e == Head(events)
           i == e.index
       IN  /\ Known(i)
           /\ e.msg.signed # None
           /\ ~ Accepted(peers[i], e)
           /\ peers' = [peers EXCEPT ![i] = MarkAsDisconnected(@)]
           /\ requests' = requests \o <<Disconnect(i), Disconnect(i)>>
    /\ UNCHANGED <<address, counter, sockets, conns, made>>

\* remove_reconnected_peer: the peers it may find, in the order of a HashMap.
\* Faulty variant of Reconnectable: any disconnected peer.
ReconnectableAny(ps, key) == {j \in Index : ps[j].status \notin {"absent", "connected"}}

Reconnectable(ps, key) ==
    {j \in Index : ps[j].key = key /\ ps[j].status \notin {"absent", "connected"}}

\* join_as_reconnection
\* Faulty variant of JoinAsReconnection: disconnected_at is kept.
JoinAsReconnectionStale(p, old) == [p EXCEPT !.static = old.static]

JoinAsReconnection(p, old) == [p EXCEPT !.away = FALSE, !.static = old.static]

HandleHandshakeResponse ==
    /\ Received("message")
    /\ LET e == Head(events)
           i == e.index
           p == [peers[i] EXCEPT !.status = "connected", !.key = e.key, !.challenge = None]
           joined == [peers EXCEPT ![i] = p]
       IN  /\ Known(i)
           /\ e.msg.signed # None
           /\ Accepted(peers[i], e)
           /\ peers[i].key \in {NoHost, e.key}
           /\ requests' = IF peers[i].static = NoHost
                            THEN Append(requests, Send(i, Signed(e.msg.challenge), None))
                            ELSE requests
           /\ \/ /\ Reconnectable(joined, e.key) = {}
                 /\ peers' = joined
                 /\ address' = [address EXCEPT ![e.key] = i]
              \/ \E j \in Reconnectable(joined, e.key) :
                   /\ peers' = [Without(joined, j) EXCEPT ![i] = JoinAsReconnection(p, peers[j])]
                   /\ address' = [address EXCEPT ![e.key] = None]
    /\ UNCHANGED <<counter, sockets, conns, made>>

\* connect_to_static_peers, for the peers that are due.
Dial(due) ==
    \E order \in SetToSeqs(due) :
      requests' = requests \o [n \in DOMAIN order |-> Connect(order[n], peers[order[n]].static)]

\* remove_disconnected_peers: static and stun peers stay.
Removable == {i \in Index : /\ Known(i)
                            /\ peers[i].static = NoHost
                            /\ ~ peers[i].stun
                            /\ peers[i].away}

\* Faulty variant of RemoveDisconnectedPeers: the addresses stay.
RemoveDisconnectedPeersOnly(expired) ==
    /\ peers' = [i \in Index |-> IF i \in expired THEN Absent ELSE peers[i]]
    /\ UNCHANGED address

RemoveDisconnectedPeers(expired) ==
    /\ peers' = [i \in Index |-> IF i \in expired THEN Absent ELSE peers[i]]
    /\ address' = [k \in Keys |-> IF \E i \in expired : peers[i].key = k THEN None ELSE address[k]]

ProcessTimerEvent ==
    /\ \E due \in SUBSET {i \in Index : peers[i].status = "disconnected" /\ peers[i].static # NoHost} :
         /\ Len(requests) + Cardinality(due) <= MaxRequests
         /\ Dial(due)
    /\ \E expired \in SUBSET Removable : RemoveDisconnectedPeers(expired)
    /\ UNCHANGED <<counter, events, sockets, conns, made>>

\* handle_new_stun_peer, with an index from the counter.
AddStunPeer(key) ==
    /\ counter < MaxIndex
    /\ ~ Known(counter + 1)
    /\ counter' = counter + 1
    /\ peers' = [peers EXCEPT ![counter + 1] =
                   [Absent EXCEPT !.status = "connected", !.key = key, !.stun = TRUE]]
    /\ address' = [address EXCEPT ![key] = counter + 1]
    /\ UNCHANGED <<events, requests, sockets, conns, made>>

RemoveStunPeer(i) ==
    /\ peers[i].stun
    /\ peers' = Without(peers, i)
    /\ address' = [address EXCEPT ![peers[i].key] = None]
    /\ UNCHANGED <<counter, events, requests, sockets, conns, made>>

Next ==
    \/ \E h \in Hosts : Incoming(h)
    \/ DialSucceeds \/ DialFails \/ DisconnectSocket \/ SendMessage
    \/ \E c \in Conns : ReadMessage(c) \/ ReaderEnds(c)
    \/ HandleNewPeer \/ HandlePeerDisconnect
    \/ IgnoreMessage \/ HandleHandshakeChallenge
    \/ RefuseHandshakeResponse \/ HandleHandshakeResponse
    \/ ProcessTimerEvent
    \/ \E k \in StunKeys : AddStunPeer(k)
    \/ \E i \in Index : RemoveStunPeer(i)

Spec == Init /\ [][Next]_vars

-----------------------------------------------------------------------------
\* Every variable has its type: indices come from the counter, which starts
\* after the static peers (initialize_static_peers).
TypeOK ==
    /\ peers \in [Index -> Peer]
    /\ address \in [Keys -> Index \cup {None}]
    /\ counter \in Len(PeerConfigs) .. MaxIndex
    /\ events \in Seq(Event)
    /\ requests \in Seq(Request)
    /\ sockets \in [Index -> Conns \cup {None}]
    /\ conns \in [Conns -> Conn]
    /\ made \in 0 .. MaxConns

\* find_peer_by_address finds a peer of the collection with the key asked for:
\* no removal, reconnection or second connection leaves an entry of
\* address_to_peers that dangles or names somebody else.
AddressResolves ==
    \A k \in Keys : address[k] # None =>
        /\ Known(address[k])
        /\ peers[address[k]].key = k

\* Each configured host has at most one entry, however its configuration moves
\* from peer to peer with join_as_reconnection: it is never dialled twice over.
OneEntryPerConfig ==
    \A i, j \in Index : peers[i].static # NoHost /\ peers[i].static = peers[j].static => i = j

\* An index never changes hands: what is read under it, and what is queued from
\* it, comes from the node that holds the key of the entry, although an index
\* serves several connections and join_as_reconnection moves configurations
\* between indices.  The assertion of handle_handshake_response compares keys
\* of one node only.
IndexKeepsHost ==
    /\ \A c \in Conns : Reading(c) =>
         peers[conns[c].index].key \in {NoHost} \cup {k \in Keys : Holder[k] = conns[c].host}
    /\ \A n \in DOMAIN events : events[n].type = "message" =>
         peers[events[n].index].key \in
           {NoHost} \cup {k \in Keys : Holder[k] = Holder[events[n].key]}

\* The assertion in handle_handshake_response (peer.rs:297): an entry only ever
\* handles responses with the key it has.  Violated: a static peer keeps its
\* index and its key over its connections, and a host may come back with
\* another key.
OneKeyPerIndex ==
    events # << >> /\ Head(events).type = "message" =>
        LET e == Head(events)
            p == peers[e.index]
        IN  Known(e.index) /\ e.msg.signed # None /\ Accepted(p, e) => p.key \in {NoHost, e.key}

Queued(type, i) == \E n \in DOMAIN events : events[n].type = type /\ events[n].index = i

\* The end of a connection is never missed: a connected peer has a connection
\* that is read, or its PeerDisconnected is on the way.
DeathNoticed ==
    \A i \in Index : peers[i].status = "connected" /\ ~ peers[i].stun =>
        (\E c \in Conns : conns[c].index = i) \/ Queued("gone", i)

\* The collection does not leak: a peer that remove_disconnected_peers could
\* remove, and that it does not see as disconnected, has a connection that is
\* read, or its PeerDisconnected is on the way.
NothingLeaks ==
    \A i \in Index : Known(i) /\ ~ peers[i].stun /\ peers[i].static = NoHost =>
        \/ peers[i].away
        \/ \E c \in Conns : conns[c].index = i
        \/ Queued("gone", i)

\* A connected peer is not removed, neither as one that stays away (its old
\* disconnected_at may still be set) nor as the old self of a reconnection.
LiveStays ==
    [][\A i \in Index : peers[i].status = "connected" /\ ~ peers[i].stun => Known(i)']_vars

\* Step 4 of the handshake: the side that dialled is connected only when the
\* other side has verified it, also when two connections share the index and
\* answers of one are handled after the other was made.
MutualHandshake ==
    [][\A i \in Index :
         peers[i].status # "connected" /\ peers'[i].status = "connected" /\ peers[i].static # NoHost =>
           \/ \E c \in Conns : conns[c].index = i /\ conns[c].view \in {"verified", "dropped"}
           \/ Queued("gone", i)]_vars

\* "static peers always remain in memory" (remove_disconnected_peers): each
\* configured host has an entry.  Violated: a static peer that joins the data of
\* an old incoming connection of the same node takes over that there is no
\* configuration, and is never dialled again.
StaticRemains ==
    \A n \in DOMAIN PeerConfigs : \E i \in Index : peers[i].static = PeerConfigs[n]

=============================================================================
