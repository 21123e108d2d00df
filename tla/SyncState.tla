------------------------------ MODULE SyncState ------------------------------
(***************************************************************************)
(* Fetching blocks from peers: BlockchainSyncState (the book-keeping), the *)
(* routing thread that drives it, the HTTP fetch tasks of the network      *)
(* controller, and the part of the verification and consensus threads that *)
(* turns a fetched buffer into a block of the chain.                       *)
(*                                                                         *)
(* The routing thread handles one event at a time, but its loop over the   *)
(* selected blocks awaits locks and I/O, so the other threads run between  *)
(* two iterations: selected is the rest of that loop.                      *)
(***************************************************************************)
EXTENDS Naturals, Sequences, FiniteSets

CONSTANTS
    Peers,            \* peer indices of index_to_peers
    Hashes,           \* block hashes, naturals: the code orders them
    Headers,          \* announced (id, hash) pairs, some with a wrong id
    IdOf,             \* the block id a hash really has
    Parent,           \* the previous_block_hash of a block
    Genesis,          \* the hash the chain starts from
    BadBlocks,        \* hashes of blocks that add_block refuses
    NoUrl,            \* peers without a block_fetch_url
    OldVersion,       \* peers whose wallet version is older than ours
    BatchSize,        \* concurrent fetches allowed per peer
    MaxRetries,       \* MAX_RETRIES_PER_BLOCK
    InvalidLimit,     \* limit of the peer's invalid_block_limiter
    LowestAcceptable, \* lowest_acceptable_block_id of the blockchain
    MaxAnnounce,      \* bound: different announcements in a behaviour
    MaxRepeat,        \* bound: repeated announcements in a behaviour
    MaxFail,          \* bound: HTTP fetches that fail in a behaviour
    MaxRemove         \* bound: peers removed in a behaviour

ASSUME SyncAssumption ==
    /\ IsFiniteSet(Peers)
    /\ IsFiniteSet(Headers)
    /\ Headers \subseteq [id : Nat, hash : Hashes]
    /\ Hashes \subseteq Nat
    /\ IdOf \in [Hashes -> Nat]
    /\ Parent \in [Hashes -> Hashes]
    /\ Genesis \in Hashes
    /\ \A h \in Hashes \ {Genesis} : [id |-> IdOf[h], hash |-> h] \in Headers
    /\ \A h \in Hashes \ {Genesis} : IdOf[h] = IdOf[Parent[h]] + 1
    /\ BatchSize \in Nat
    /\ MaxRetries \in Nat /\ MaxRetries > 0
    /\ InvalidLimit \in Nat
    /\ LowestAcceptable \in Nat

VARIABLES
    picture,   \* received_block_picture
    status,    \* BlockStatus of every entry of blocks_to_fetch
    retry,     \* retry_count of every entry of blocks_to_fetch
    selected,  \* requests the loop of fetch_next_blocks has still to make
    peerList,  \* peers present in index_to_peers
    tasks,     \* fetch tasks; their urls are the current_queries set
    netEvents, \* IoEvents on their way to the routing thread
    verifying, \* VerifyRequest::Block values the verification threads hold
    fetched,   \* ConsensusEvent::BlockFetched values
    todo,      \* blocks drained from the mempool, being added one by one
    mempool,   \* mempool.blocks_queue
    chain,     \* hashes of blockchain.blocks
    events,    \* RoutingEvents on their way to the routing thread
    invalid,   \* request_count of each peer's invalid_block_limiter
    announced, \* (peer, header) pairs announced so far
    repeats,   \* number of repeated announcements so far
    failures,  \* number of failed fetches so far
    removals   \* number of removed peers so far

routerVars  == <<picture, status, retry, selected>>
netVars     == <<tasks, netEvents>>
chainVars   == <<fetched, todo, mempool, chain>>
boundVars   == <<announced, repeats, failures, removals>>
vars == <<routerVars, peerList, netVars, verifying, chainVars, events,
          invalid, boundVars>>

Statuses  == {"Absent", "Queued", "Fetching", "Failed"}
NetEvent  == [type : {"BlockFetched", "BlockFetchFailed"},
              peer : Peers, hd : Headers]
Routing   == [type : {"BlockchainUpdated", "BlockFetchRequest"},
              peer : Peers, hd : Headers]
Task      == [peer : Peers, hd : Headers, pc : {"http", "sent"}]
Queued    == [hash : Hashes, peer : Peers]

-----------------------------------------------------------------------------
(* The entries of one peer, in the order the code sorts them.              *)

Before(a, b) == a.id < b.id \/ (a.id = b.id /\ a.hash < b.hash)

\* Faulty variant of Built: known blocks are not skipped.
BuiltWithKnown(pic, st) ==
    [p \in Peers |-> [hd \in Headers |->
        IF st[p][hd] = "Absent" /\ hd \in pic[p] THEN "Queued" ELSE st[p][hd]]]

\* build_peer_block_picture: a received header becomes a queued entry unless
\* the block is known or the entry is there.
Built(pic, st) ==
    [p \in Peers |-> [hd \in Headers |->
        IF st[p][hd] = "Absent" /\ hd \in pic[p] /\ hd.hash \notin chain
        THEN "Queued" ELSE st[p][hd]]]

BuiltRetry(pic, st, rt) ==
    [p \in Peers |-> [hd \in Headers |->
        IF st[p][hd] = "Absent" THEN 0 ELSE rt[p][hd]]]

Fetching(st) == {hd \in Headers : st[hd] = "Fetching"}

\* Entries that use up one unit of the quota when the loop meets them.
Consuming(st, rt) ==
    {hd \in Headers : \/ st[hd] = "Queued"
                      \/ st[hd] = "Failed" /\ rt[hd] < MaxRetries}

\* Faulty variant of Quota: fetches under way are not counted.
QuotaIgnoringFetches(st) == BatchSize

Quota(st) == BatchSize - Cardinality(Fetching(st))

\* Faulty variant of Reached: newest block first.
ReachedNewestFirst(st, rt) ==
    {hd \in Headers :
        Cardinality({o \in Consuming(st, rt) : Before(hd, o)}) < Quota(st)}

\* Entries the loop of get_blocks_to_fetch_per_peer reaches before the
\* quota is used up.
Reached(st, rt) ==
    LET consuming == Consuming(st, rt)
        quota == Quota(st)
    IN {hd \in Headers : Cardinality({o \in consuming : Before(o, hd)}) < quota}

Chosen(st, rt) == {hd \in Reached(st, rt) : st[hd] = "Queued"}

\* Faulty variant of SelectStatus: one retry too many.
SelectStatusOneMore(st, rt) ==
    [hd \in Headers |->
        IF hd \in Chosen(st, rt) THEN "Fetching"
        ELSE IF hd \in Reached(st, rt) /\ st[hd] = "Failed" /\ rt[hd] <= MaxRetries
        THEN "Queued" ELSE st[hd]]

SelectStatus(st, rt) ==
    LET chosen == Chosen(st, rt)
        reached == Reached(st, rt)
    IN [hd \in Headers |->
            IF hd \in chosen THEN "Fetching"
            ELSE IF hd \in reached /\ st[hd] = "Failed" /\ rt[hd] < MaxRetries
            THEN "Queued" ELSE st[hd]]

\* Faulty variant of SelectRetry: the counter has no ceiling.
SelectRetryUnbounded(st, rt) ==
    [hd \in Headers |-> IF hd \in Reached(st, rt) /\ st[hd] = "Failed"
                       THEN rt[hd] + 1 ELSE rt[hd]]

\* A failed entry is retried, and once it has used its retries the counter
\* moves past the maximum so that the entry is reported once.
SelectRetry(st, rt) ==
    LET reached == Reached(st, rt)
    IN [hd \in Headers |->
            IF hd \in reached /\ st[hd] = "Failed" /\ rt[hd] <= MaxRetries
            THEN rt[hd] + 1 ELSE rt[hd]]

\* fetch_next_blocks up to its loop over the selected blocks.
FetchNextBlocks(pic, st, rt) ==
    LET st1 == Built(pic, st)
        rt1 == BuiltRetry(pic, st, rt)
        chosen == [p \in Peers |-> Chosen(st1[p], rt1[p])]
    IN  /\ picture' = [p \in Peers |-> {}]
        /\ status' = [p \in Peers |-> SelectStatus(st1[p], rt1[p])]
        /\ retry' = [p \in Peers |-> SelectRetry(st1[p], rt1[p])]
        /\ selected' = {s \in Peers \X Headers : s[2] \in chosen[s[1]]}

\* remove_entry: every entry of every peer with that hash.
RemoveEntry(st, hash) ==
    [p \in Peers |-> [hd \in Headers |->
        IF hd.hash = hash THEN "Absent" ELSE st[p][hd]]]

\* mark_as_fetched: per peer, the first entry with that hash.
MarkAsFetched(st, hash) ==
    [p \in Peers |-> [hd \in Headers |->
        IF /\ hd.hash = hash
           /\ \A o \in Headers :
                 o.hash = hash /\ st[p][o] # "Absent" => ~Before(o, hd)
        THEN "Absent" ELSE st[p][hd]]]

\* Faulty variant of MarkAsFailed: the failure is ignored.
MarkAsFailedIgnored(st, peer, hd) == st

\* mark_as_failed: the entry, if it is still there.
MarkAsFailed(st, peer, hd) ==
    [p \in Peers |-> [h \in Headers |->
        IF p = peer /\ h = hd /\ st[p][h] # "Absent"
        THEN "Failed" ELSE st[p][h]]]

AddEntry(pic, peer, hd) ==
    [p \in Peers |-> IF p = peer THEN pic[p] \cup {hd} ELSE pic[p]]

-----------------------------------------------------------------------------
Init ==
    /\ picture = [p \in Peers |-> {}]
    /\ status = [p \in Peers |-> [hd \in Headers |-> "Absent"]]
    /\ retry = [p \in Peers |-> [hd \in Headers |-> 0]]
    /\ selected = {}
    /\ peerList = Peers
    /\ tasks = {}
    /\ netEvents = << >>
    /\ verifying = {}
    /\ fetched = << >>
    /\ todo = {}
    /\ mempool = {}
    /\ chain = {Genesis}
    /\ events = << >>
    /\ invalid = [p \in Peers |-> 0]
    /\ announced = {}
    /\ repeats = 0
    /\ failures = 0
    /\ removals = 0

RouterIdle == selected = {}

\* add_blocks_from_mempool runs under the blockchain's write lock, which the
\* routing thread needs to read the chain.
ChainUnlocked == todo = {}

\* A BlockHeaderHash message: RoutingThread::process_incoming_block_hash.
ReceiveBlockHash(p, hd) ==
    /\ RouterIdle /\ ChainUnlocked
    /\ p \in peerList
    /\ IF <<p, hd>> \in announced
       THEN /\ repeats < MaxRepeat
            /\ repeats' = repeats + 1
            /\ UNCHANGED announced
       ELSE /\ Cardinality(announced) < MaxAnnounce
            /\ announced' = announced \cup {<<p, hd>>}
            /\ UNCHANGED repeats
    /\ IF LowestAcceptable >= hd.id \/ p \in OldVersion
       THEN UNCHANGED routerVars
       ELSE FetchNextBlocks(AddEntry(picture, p, hd), status, retry)
    /\ UNCHANGED <<peerList, netVars, verifying, chainVars, events, invalid,
                   failures, removals>>

\* The reconnection timer.
TimerFetch ==
    /\ RouterIdle /\ ChainUnlocked
    /\ FetchNextBlocks(picture, status, retry)
    /\ UNCHANGED <<peerList, netVars, verifying, chainVars, events, invalid,
                   boundVars>>

\* One iteration of the loop of fetch_next_blocks:
\* Network::process_incoming_block_hash, then the fetch task is spawned unless
\* its url is being fetched already.
RequestBlock(p, hd) ==
    /\ ChainUnlocked
    /\ <<p, hd>> \in selected
    /\ \A o \in Headers : <<p, o>> \in selected => ~Before(o, hd)
    /\ selected' = selected \ {<<p, hd>>}
    /\ LET known == hd.hash \in chain \/ \E b \in mempool : b.hash = hd.hash
           refused == p \notin peerList \/ p \in OldVersion \/ p \in NoUrl
           querying == \E t \in tasks : t.peer = p /\ t.hd.hash = hd.hash
       IN \/ /\ known \/ refused
             /\ status' = RemoveEntry(status, hd.hash)
             /\ UNCHANGED tasks
          \/ /\ ~known /\ ~refused
             /\ tasks' = IF querying THEN tasks
                         ELSE tasks \cup {[peer |-> p, hd |-> hd, pc |-> "http"]}
             /\ UNCHANGED status
    /\ UNCHANGED <<picture, retry, peerList, netEvents, verifying, chainVars,
                   events, invalid, boundVars>>

-----------------------------------------------------------------------------
(* NetworkController::fetch_block, one task per url.                       *)

\* The response arrived: the event is sent while the url is still in
\* current_queries.
FetchSucceeds(t) ==
    /\ t \in tasks /\ t.pc = "http"
    /\ netEvents' = Append(netEvents, [type |-> "BlockFetched",
                                       peer |-> t.peer, hd |-> t.hd])
    /\ tasks' = (tasks \ {t}) \cup {[t EXCEPT !.pc = "sent"]}
    /\ UNCHANGED <<routerVars, peerList, verifying, chainVars, events, invalid,
                   boundVars>>

\* The url leaves current_queries after the event was sent.
FetchTaskEnds(t) ==
    /\ t \in tasks /\ t.pc = "sent"
    /\ tasks' = tasks \ {t}
    /\ UNCHANGED <<routerVars, peerList, netEvents, verifying, chainVars,
                   events, invalid, boundVars>>

\* Request error, bad status or broken body: the url is released first.
FetchFails(t) ==
    /\ t \in tasks /\ t.pc = "http"
    /\ failures < MaxFail
    /\ failures' = failures + 1
    /\ tasks' = tasks \ {t}
    /\ netEvents' = Append(netEvents, [type |-> "BlockFetchFailed",
                                       peer |-> t.peer, hd |-> t.hd])
    /\ UNCHANGED <<routerVars, peerList, verifying, chainVars, events, invalid,
                   announced, repeats, removals>>

-----------------------------------------------------------------------------
(* RoutingThread::process_network_event and process_event.                 *)

\* RateLimiter::has_limit_exceeded, with the window over or not.
InvalidAfterCheck(p, windowOver) == IF windowOver THEN 0 ELSE invalid[p]

ProcessBlockFetched(windowOver) ==
    /\ RouterIdle
    /\ netEvents # << >> /\ Head(netEvents).type = "BlockFetched"
    /\ netEvents' = Tail(netEvents)
    /\ LET p == Head(netEvents).peer
           hd == Head(netEvents).hd
           count == InvalidAfterCheck(p, windowOver)
       IN \/ /\ p \notin peerList
             /\ UNCHANGED <<routerVars, verifying, invalid>>
          \/ /\ p \in peerList
             /\ invalid' = [invalid EXCEPT ![p] = count]
             /\ count >= InvalidLimit
             /\ UNCHANGED <<routerVars, verifying>>
          \/ /\ p \in peerList
             /\ ChainUnlocked
             /\ invalid' = [invalid EXCEPT ![p] = count]
             /\ count < InvalidLimit
             /\ verifying' = verifying \cup {<<p, hd>>}
             /\ FetchNextBlocks(picture, MarkAsFetched(status, hd.hash), retry)
    /\ UNCHANGED <<peerList, tasks, chainVars, events, boundVars>>

ProcessBlockFetchFailed ==
    /\ RouterIdle
    /\ netEvents # << >> /\ Head(netEvents).type = "BlockFetchFailed"
    /\ netEvents' = Tail(netEvents)
    /\ status' = MarkAsFailed(status, Head(netEvents).peer, Head(netEvents).hd)
    /\ UNCHANGED <<picture, retry, selected, peerList, tasks, verifying,
                   chainVars, events, invalid, boundVars>>

ProcessBlockchainUpdated ==
    /\ RouterIdle /\ ChainUnlocked
    /\ events # << >> /\ Head(events).type = "BlockchainUpdated"
    /\ events' = Tail(events)
    /\ FetchNextBlocks(picture, RemoveEntry(status, Head(events).hd.hash), retry)
    /\ UNCHANGED <<peerList, netVars, verifying, chainVars, invalid, boundVars>>

ProcessBlockFetchRequest ==
    /\ RouterIdle
    /\ events # << >> /\ Head(events).type = "BlockFetchRequest"
    /\ events' = Tail(events)
    /\ picture' = AddEntry(picture, Head(events).peer, Head(events).hd)
    /\ UNCHANGED <<status, retry, selected, peerList, netVars, verifying,
                   chainVars, invalid, boundVars>>

\* PeerCollection::remove_disconnected_peers, on the peer removal timer.
RemovePeer(p) ==
    /\ RouterIdle
    /\ p \in peerList
    /\ removals < MaxRemove
    /\ removals' = removals + 1
    /\ peerList' = peerList \ {p}
    /\ UNCHANGED <<routerVars, netVars, verifying, chainVars, events, invalid,
                   announced, repeats, failures>>

-----------------------------------------------------------------------------
(* Verification and consensus threads.                                     *)

\* invalid_block_limiter.increase, for a peer that is still known.  A count
\* above the limit is no different from the limit.
Penalised(p) ==
    IF p \in peerList /\ invalid[p] < InvalidLimit
    THEN [invalid EXCEPT ![p] = @ + 1] ELSE invalid

VerifyBlock(p, hd) ==
    /\ <<p, hd>> \in verifying
    /\ verifying' = verifying \ {<<p, hd>>}
    /\ IF hd.id = IdOf[hd.hash]
       THEN /\ fetched' = Append(fetched, [hash |-> hd.hash, peer |-> p])
            /\ UNCHANGED invalid
       ELSE /\ invalid' = Penalised(p)
            /\ UNCHANGED fetched
    /\ UNCHANGED <<routerVars, peerList, netVars, todo, mempool, chain, events,
                   boundVars>>

\* ConsensusEvent::BlockFetched: mempool.add_block keeps the first block with
\* a hash, add_blocks_from_mempool drains the queue.
StartAddingBlocks ==
    /\ ChainUnlocked
    /\ fetched # << >>
    /\ fetched' = Tail(fetched)
    /\ LET b == Head(fetched)
       IN \/ /\ b.hash \in chain
             /\ UNCHANGED <<todo, mempool>>
          \/ /\ b.hash \notin chain
             /\ mempool' = {}
             /\ todo' = mempool \cup
                    (IF \E q \in mempool : q.hash = b.hash THEN {} ELSE {b})
    /\ UNCHANGED <<routerVars, peerList, netVars, verifying, chain, events,
                   invalid, boundVars>>

HeaderOf(h) == [id |-> IdOf[h], hash |-> h]

\* One round of the loop of add_blocks_from_mempool, lowest id first.
AddBlock(b) ==
    /\ b \in todo
    /\ \A o \in todo : IdOf[b.hash] <= IdOf[o.hash]
    /\ todo' = todo \ {b}
    /\ \/ /\ b.hash \in chain
          /\ UNCHANGED <<mempool, chain, events, invalid>>
       \/ /\ b.hash \notin chain
          /\ Parent[b.hash] \notin chain
          /\ mempool' = mempool \cup {b}
          /\ events' = IF \E q \in mempool : q.hash = Parent[b.hash]
                       THEN events
                       ELSE Append(events, [type |-> "BlockFetchRequest",
                                peer |-> b.peer, hd |-> HeaderOf(Parent[b.hash])])
          /\ UNCHANGED <<chain, invalid>>
       \/ /\ b.hash \notin chain
          /\ Parent[b.hash] \in chain
          /\ b.hash \in BadBlocks
          /\ invalid' = Penalised(b.peer)
          /\ UNCHANGED <<mempool, chain, events>>
       \/ /\ b.hash \notin chain
          /\ Parent[b.hash] \in chain
          /\ b.hash \notin BadBlocks
          /\ chain' = chain \cup {b.hash}
          /\ events' = Append(events, [type |-> "BlockchainUpdated",
                                       peer |-> b.peer, hd |-> HeaderOf(b.hash)])
          /\ UNCHANGED <<mempool, invalid>>
    /\ UNCHANGED <<routerVars, peerList, netVars, verifying, fetched, boundVars>>

-----------------------------------------------------------------------------
Router ==
    \/ TimerFetch
    \/ \E p \in Peers, hd \in Headers : RequestBlock(p, hd)
    \/ \E windowOver \in BOOLEAN : ProcessBlockFetched(windowOver)
    \/ ProcessBlockFetchFailed
    \/ ProcessBlockchainUpdated
    \/ ProcessBlockFetchRequest

FetchTasks == \E t \in tasks : FetchSucceeds(t) \/ FetchTaskEnds(t) \/ FetchFails(t)

Workers ==
    \/ \E p \in Peers, hd \in Headers : VerifyBlock(p, hd)
    \/ StartAddingBlocks
    \/ \E b \in Queued : AddBlock(b)

Environment ==
    \/ \E p \in Peers, hd \in Headers : ReceiveBlockHash(p, hd)
    \/ \E p \in Peers : RemovePeer(p)

Next == Router \/ FetchTasks \/ Workers \/ Environment

Spec == Init /\ [][Next]_vars

\* Every thread keeps taking events from its channels, the reconnection timer
\* keeps firing, and the HTTP client answers or times out.
Fairness == WF_vars(Router) /\ WF_vars(FetchTasks) /\ WF_vars(Workers)

FairSpec == Spec /\ Fairness

-----------------------------------------------------------------------------
TypeOK ==
    /\ picture \in [Peers -> SUBSET Headers]
    /\ status \in [Peers -> [Headers -> Statuses]]
    /\ retry \in [Peers -> [Headers -> 0 .. MaxRetries + 1]]
    /\ selected \subseteq Peers \X Headers
    /\ peerList \subseteq Peers
    /\ tasks \subseteq Task
    /\ netEvents \in Seq(NetEvent)
    /\ verifying \subseteq Peers \X Headers
    /\ fetched \in Seq(Queued)
    /\ todo \subseteq Queued
    /\ mempool \subseteq Queued
    /\ chain \subseteq Hashes
    /\ events \in Seq(Routing)
    /\ invalid \in [Peers -> Nat]
    /\ announced \subseteq Peers \X Headers
    /\ repeats \in Nat /\ failures \in Nat /\ removals \in Nat

\* No peer has more than batch_size entries in status Fetching, so that the
\* unsigned subtraction batch_size - fetching_count of
\* get_blocks_to_fetch_per_peer never underflows, whatever the order of
\* answers, failures, removals and announcements.
QuotaRespected ==
    \A p \in Peers : Cardinality(Fetching(status[p])) <= BatchSize

\* An entry of a block that has joined the chain is on its way out: the
\* BlockchainUpdated event that removes it is still in the channel, and
\* build_peer_block_picture never lets it back in afterwards.
KnownBlockLeaves ==
    \A p \in Peers, hd \in Headers :
        status[p][hd] # "Absent" /\ hd.hash \in chain =>
            \E i \in 1 .. Len(events) :
                /\ events[i].type = "BlockchainUpdated"
                /\ events[i].hd.hash = hd.hash

\* Blocks are requested in order: when an entry starts being fetched, every
\* entry of the same peer that was queued before it in (id, hash) order is
\* being fetched too.
FetchedInOrder ==
    [][\A p \in Peers, a \in Headers, b \in Headers :
          /\ status[p][b] # "Fetching" /\ status'[p][b] = "Fetching"
          /\ Before(a, b) /\ status[p][a] = "Queued"
          => status'[p][a] # "Queued"]_status

\* A block that has been given up on (its retries are used) is not fetched
\* from that peer again unless the entry is first removed (and, if announced
\* anew, starts with a fresh retry count), as the comment of mark_as_failed says.
GivenUpStaysGivenUp ==
    [][\A p \in Peers, hd \in Headers :
          status[p][hd] = "Failed" /\ retry[p][hd] >= MaxRetries
          => \/ status'[p][hd] \in {"Failed", "Absent"}
             \/ retry'[p][hd] < retry[p][hd]]_status

\* Whatever the order in which blocks, parents and answers arrive, an announced
\* block that add_block accepts joins the chain, together with its ancestors.
AnnouncedJoins ==
    \A h \in Hashes \ {Genesis} :
        (\E p \in Peers : status[p][HeaderOf(h)] # "Absent") ~> h \in chain

\* The doc of remove_entry: an entry is removed when its hash is added to the
\* blockchain.  Stated for the entries of peers that can serve the block, and
\* allowing for blocks that are received and on their way into the chain.
RemovedOnlyWhenKnown ==
    [][\A p \in peerList \ (NoUrl \cup OldVersion), hd \in Headers :
          status[p][hd] # "Absent" /\ status'[p][hd] = "Absent" =>
              \/ hd.hash \in chain
              \/ \E b \in mempool : b.hash = hd.hash
              \/ \E v \in verifying' : v[2].hash = hd.hash]_status

=============================================================================
