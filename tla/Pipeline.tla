------------------------------ MODULE Pipeline ------------------------------
(***************************************************************************)
(* The threads of a node: one for routing, several for verification, one   *)
(* for consensus, one for mining.  They talk through bounded channels and  *)
(* share the blockchain, and the collection of peers, under a lock each.   *)
(*                                                                         *)
(* A thread handles one event at a time.  What a handler does between two  *)
(* points where it can wait is one step; it waits for the lock, and for a  *)
(* slot in a channel.  The lock serves its requests in the order they were *)
(* made: readers share it, a writer has it alone, and a reader behind a    *)
(* waiting writer waits too.  The lock of the peers is kept over a wait in *)
(* one place only: the router holds it for writing when it asks for the    *)
(* chain at the end of a handshake, with the blockchain lock to come.      *)
(*                                                                         *)
(* The blocks are those of one chain, block 0 being the last one on disk   *)
(* when the node starts; forks are the subject of Blockchain.  What the    *)
(* router does with its peers and its fetches is the subject of SyncState  *)
(* and Peers.  Transactions are not told apart, and whether one validates, *)
(* a nonce solves the target or the timer finds a block to make is left    *)
(* open.  The configuration is never locked for writing, and the locks of  *)
(* the wallet and the mempool are never held over a wait of this module by *)
(* a thread that does not hold that of the blockchain: they are left out.  *)
(* So are the channels to the network controller, taken to have room.      *)
(***************************************************************************)
EXTENDS Naturals, Sequences, FiniteSets, SequencesExt

CONSTANTS
    Verifiers,    \* number of verification threads
    ChannelSize,  \* slots of the channels to consensus, router and miner
    VerifySize,   \* slots of a channel to a verification thread
    SafeBuffer,   \* CHANNEL_SAFE_BUFFER
    Near,         \* distance from the tip from which the chain is requested
    Refused,      \* blocks add_block finds invalid
    MaxBlock,     \* bound: blocks made
    MaxTx,        \* bound: transactions from peers
    MaxRefetch    \* bound: blocks the network delivers once more

Router == <<"router", 0>>
Consensus == <<"consensus", 0>>
Miner == <<"miner", 0>>
Verifier(i) == <<"verifier", i>>
Verifying == {Verifier(i) : i \in 0..(Verifiers - 1)}
Threads == {Router, Consensus, Miner} \cup Verifying
Peers == <<"peers", 0>>

\* The assertions of run_node and of the routing thread's on_init.
ASSUME PipelineAssumption ==
    /\ Verifiers \in Nat \ {0}
    /\ {ChannelSize, VerifySize, SafeBuffer, Near, MaxBlock, MaxTx, MaxRefetch} \subseteq Nat
    /\ ChannelSize > 2 * SafeBuffer
    /\ Refused \subseteq 1..MaxBlock

VARIABLES
    \* network
    made,       \* blocks made so far, by peers or by this node
    fetching,   \* blocks a fetch is under way for
    refetches,  \* blocks delivered once more
    txs,        \* transactions received from peers
    \* channels and lock
    chan,       \* channel of each thread: its events, oldest first
    lock,       \* requests for the blockchain lock, oldest first
    \* threads
    job,        \* what each thread is at
    out,        \* what each thread still has to send, or to do with the peers
    ready,      \* does each idle thread take the next event?
    turn,       \* last_verification_thread_index
    target,     \* the block the miner works on, or was last told of
    active,     \* miner_active
    \* blockchain and mempool
    tip,        \* the latest block
    queued,     \* blocks_queue: blocks that wait for their parent
    dropped     \* blocks found invalid

netVars == <<made, fetching, refetches, txs>>
minerVars == <<target, active>>
chainVars == <<tip, queued, dropped>>
vars == <<netVars, chan, lock, job, out, ready, turn, minerVars, chainVars>>

Idle == [at |-> "idle"]
Tx == [kind |-> "tx"]
Block(b) == [kind |-> "block", id |-> b]
Ticket(b) == [kind |-> "ticket", id |-> b]
Told(b) == [kind |-> "told", id |-> b]
Joined(b) == [kind |-> "joined", id |-> b]
Refuse(b) == [kind |-> "refuse", id |-> b]
Updated(b) == [kind |-> "updated", id |-> b]
FetchOf(b) == [kind |-> "fetch", id |-> b]
ChainOf(b) == [kind |-> "chain", id |-> b]

Size(t) == IF t \in Verifying THEN VerifySize ELSE ChannelSize
Free(t) == Size(t) - Len(chan[t])

-----------------------------------------------------------------------------
(* The blockchain lock. *)

Request(t, writes) == lock' = Append(lock, [thread |-> t, writes |-> writes])

\* A thread has at most one request.
Release(t) ==
    lock' = IF \E i \in DOMAIN lock : lock[i].thread = t
            THEN RemoveAt(lock, CHOOSE i \in DOMAIN lock : lock[i].thread = t)
            ELSE lock

Holds(t) ==
    \E i \in DOMAIN lock :
        /\ lock[i].thread = t
        /\ IF lock[i].writes THEN i = 1 ELSE \A j \in 1..i : ~lock[j].writes

\* The router has the peers locked for writing while it greets one.
PeersFree == job[Router].at # "greeting"

-----------------------------------------------------------------------------
(* Each time round its loop a thread looks whether the channels it sends to *)
(* have room to spare, and waits for an event only if they have.  They may  *)
(* fill up while it waits.  The verification threads do not look.           *)

\* Faulty variant of Ready: room is not asked for.
ReadyAlways(t) == TRUE

Ready(t) ==
    CASE t = Router ->
            \A u \in {Miner, Consensus} \cup Verifying : Free(u) > SafeBuffer
      [] t = Consensus -> Free(Miner) > SafeBuffer /\ Free(Router) > SafeBuffer
      [] t = Miner -> Free(Consensus) > SafeBuffer
      [] OTHER -> TRUE

\* t goes round its loop if its handler returns with this step.
Loops(t) == ready' = [ready EXCEPT ![t] = job'[t] = Idle /\ Ready(t)']

\* A tick of the timer of t that finds nothing to do, or of its statistics.
Tick(t) ==
    /\ job[t] = Idle
    /\ ready[t] # Ready(t)
    /\ UNCHANGED <<netVars, chan, lock, job, out, turn, minerVars, chainVars>>
    /\ Loops(t)

\* t takes the oldest event of its channel, First(t).
First(t) == Head(chan[t])
Take(t) ==
    /\ ready[t]
    /\ chan[t] # << >>
    /\ chan' = [chan EXCEPT ![t] = Tail(@)]

Goto(t, j) == job' = [job EXCEPT ![t] = j]

\* t still has msgs to send, each to a receiver.  With the last one its handler
\* returns, and the guard of the lock, if it has one, is dropped.
Sends(t, msgs) ==
    /\ out' = [out EXCEPT ![t] = msgs]
    /\ IF msgs = << >>
       THEN Goto(t, Idle) /\ Release(t)
       ELSE Goto(t, [at |-> "sending"]) /\ UNCHANGED lock

\* One send: it waits for a slot.
Send(t) ==
    /\ job[t].at = "sending"
    /\ LET m == Head(out[t])
       IN /\ m.to # Peers /\ Free(m.to) > 0
          /\ chan' = [chan EXCEPT ![m.to] = Append(@, m.event)]
    /\ Sends(t, Tail(out[t]))
    /\ UNCHANGED <<netVars, turn, minerVars, chainVars>>
    /\ Loops(t)

-----------------------------------------------------------------------------
(* The network. *)

\* A peer makes the next block, and a fetch of it starts.
PeerMakesBlock ==
    /\ made < MaxBlock
    /\ made' = made + 1
    /\ fetching' = fetching \cup {made + 1}
    /\ UNCHANGED <<refetches, txs, chan, lock, job, out, ready, turn, minerVars, chainVars>>

-----------------------------------------------------------------------------
(* The routing thread. *)

\* send_to_verification_thread goes round the threads until one has a slot.  Only
\* the router sends to them, and it takes an event only if each had slots to spare
\* when it last looked: it never goes round for long.
SendToVerification(request) ==
    \E n \in 1..Verifiers :
        LET v == Verifier((turn + n) % Verifiers)
        IN /\ Free(v) > 0
           /\ \A k \in 1..(n - 1) : Free(Verifier((turn + k) % Verifiers)) = 0
           /\ chan' = [chan EXCEPT ![v] = Append(@, request)]
           /\ turn' = (turn + n) % Verifiers

\* A message of a peer with a transaction.
RouterTakesTx ==
    /\ ready[Router]
    /\ txs < MaxTx
    /\ txs' = txs + 1
    /\ SendToVerification(Tx)
    /\ UNCHANGED <<made, fetching, refetches, lock, job, out, minerVars, chainVars>>
    /\ Loops(Router)

\* A fetch is done.  After the block is sent on the next fetches are started, which
\* reads the chain.
RouterTakesBlock(b) ==
    /\ ready[Router]
    /\ fetching' = fetching \ {b}
    /\ SendToVerification(Block(b))
    /\ Goto(Router, [at |-> "reading"]) /\ Request(Router, FALSE)
    /\ UNCHANGED <<made, refetches, txs, out, minerVars, chainVars>>
    /\ Loops(Router)

\* process_event: an update starts the next fetches and a request for the chain
\* is made from the chain, so both read it; a fetch request is only noted.  What
\* is asked for may be fetched again.
RouterTakesEvent ==
    /\ Take(Router)
    /\ IF First(Router).kind = "fetch"
       THEN UNCHANGED <<lock, job>>
       ELSE Goto(Router, [at |-> "reading"]) /\ Request(Router, FALSE)
    /\ \/ UNCHANGED <<fetching, refetches>>
       \/ /\ First(Router).kind # "updated"
          /\ refetches < MaxRefetch
          /\ refetches' = refetches + 1
          /\ fetching' = fetching \cup {First(Router).id}
    /\ UNCHANGED <<made, txs, out, turn, minerVars, chainVars>>
    /\ Loops(Router)

\* The timer asks no channel for room.
RouterTimer ==
    /\ job[Router] = Idle
    /\ Goto(Router, [at |-> "reading"])
    /\ Request(Router, FALSE)
    /\ UNCHANGED <<netVars, chan, out, turn, minerVars, chainVars>>
    /\ Loops(Router)

\* handle_handshake_response takes the peers for writing and, when the response
\* is accepted, asks the peer for its chain, which reads the chain.
RouterGreets ==
    /\ ready[Router]
    /\ Goto(Router, [at |-> "greeting"])
    /\ Request(Router, FALSE)
    /\ UNCHANGED <<netVars, chan, out, turn, minerVars, chainVars>>
    /\ Loops(Router)

\* The handler returns, and the locks it has are dropped.
RouterReads ==
    /\ job[Router].at \in {"reading", "greeting"} /\ Holds(Router)
    /\ Release(Router)
    /\ Goto(Router, Idle)
    /\ UNCHANGED <<netVars, chan, out, turn, minerVars, chainVars>>
    /\ Loops(Router)

-----------------------------------------------------------------------------
(* A verification thread. *)

\* verify_tx reads the chain; verify_block does not.
VerifierTakes(v) ==
    /\ Take(v)
    /\ IF First(v) = Tx
       THEN /\ Goto(v, [at |-> "verifying"]) /\ Request(v, FALSE)
            /\ UNCHANGED out
       ELSE Sends(v, <<[to |-> Consensus, event |-> First(v)]>>)
    /\ UNCHANGED <<netVars, turn, minerVars, chainVars>>
    /\ Loops(v)

\* A valid transaction is sent on with the lock held, another one is dropped.
VerifyTx(v) ==
    /\ job[v].at = "verifying" /\ Holds(v)
    /\ \/ Sends(v, <<[to |-> Consensus, event |-> Tx]>>)
       \/ Sends(v, << >>)
    /\ UNCHANGED <<netVars, chan, turn, minerVars, chainVars>>
    /\ Loops(v)

-----------------------------------------------------------------------------
(* The consensus thread. *)

\* What add_blocks_from_mempool does with the blocks in S on top of the block t:
\* in the order of their ids they join the chain, are found invalid, or go back
\* to the queue.
Joins(S, t) == {b \in S : b > t /\ (t + 1)..b \subseteq S \ Refused}
NewTip(S, t) == t + Cardinality(Joins(S, t))
Invalid(S, t) == {NewTip(S, t) + 1} \cap S

\* Faulty variant of Waits: a block without its parent is dropped.
WaitsForNothing(S, t) == {}

Waits(S, t) == {b \in S : b > t} \ (Joins(S, t) \cup Invalid(S, t))

\* Faulty variant of TellsMiner: of the first one.
TellsMinerOfFirst(S, b) == \A c \in S : c >= b

\* The miner is told of a block only if it is the last one of the batch.
TellsMiner(S, b) == \A c \in S : c <= b

\* What is done for block b.  Its peers are sent a block that joins, and the sender
\* of an invalid one is charged with it.  Of the blocks that wait, those whose parent does not
\* wait too ask for it, or for the chain if they are far from the tip.
EventsOf(S, t, b) ==
    LET note(to, e) == [to |-> to, event |-> e]
    IN CASE b \in Joins(S, t) ->
                (IF TellsMiner(S, b) THEN <<note(Miner, Told(b))>> ELSE << >>)
                    \o <<note(Peers, Joined(b)), note(Router, Updated(b))>>
         [] b \in Invalid(S, t) -> <<note(Peers, Refuse(b))>>
         [] b \in Waits(S, t) /\ b - 1 \notin Waits(S, t) ->
                IF b - NewTip(S, t) < Near THEN <<note(Router, FetchOf(b - 1))>>
                ELSE <<note(Router, ChainOf(b - 1))>>
         [] OTHER -> << >>

BatchEvents(S, t) ==
    FlattenSeq([b \in 1..MaxBlock |-> IF b \in S THEN EventsOf(S, t, b) ELSE << >>])

AddBlocksFromMempool(S) ==
    /\ tip' = NewTip(S, tip)
    /\ queued' = Waits(S, tip)
    /\ dropped' = dropped \cup Invalid(S, tip)
    /\ Sends(Consensus, BatchEvents(S, tip))

\* propagate_block, propagate_transaction and the charge wait for the peers.
UsePeers ==
    /\ job[Consensus].at = "sending"
    /\ Head(out[Consensus]).to = Peers
    /\ PeersFree
    /\ Sends(Consensus, Tail(out[Consensus]))
    /\ UNCHANGED <<netVars, chan, turn, minerVars, chainVars>>
    /\ Loops(Consensus)

\* on_init: the chain is loaded under the lock, and the miner told of its tip.
Load ==
    /\ job[Consensus].at = "loading" /\ Holds(Consensus)
    /\ Sends(Consensus, <<[to |-> Miner, event |-> Told(tip)]>>)
    /\ UNCHANGED <<netVars, chan, turn, minerVars, chainVars>>
    /\ Loops(Consensus)

\* Transactions and golden tickets only go to lists of the thread and the mempool.
ConsensusTakes ==
    /\ Take(Consensus)
    /\ IF First(Consensus).kind = "block"
       THEN /\ Goto(Consensus, [at |-> "adding", id |-> First(Consensus).id])
            /\ Request(Consensus, TRUE)
       ELSE UNCHANGED <<job, lock>>
    /\ UNCHANGED <<netVars, out, turn, minerVars, chainVars>>
    /\ Loops(Consensus)

AddFetched ==
    /\ job[Consensus].at = "adding" /\ Holds(Consensus)
    /\ LET b == job[Consensus].id
       IN IF b <= tip
          THEN Sends(Consensus, << >>) /\ UNCHANGED chainVars
          ELSE AddBlocksFromMempool(queued \cup {b})
    /\ UNCHANGED <<netVars, chan, turn, minerVars>>
    /\ Loops(Consensus)

\* The timer asks no channel for room either.
ConsensusTimer ==
    /\ job[Consensus] = Idle
    /\ Goto(Consensus, [at |-> "bundling"])
    /\ Request(Consensus, TRUE)
    /\ UNCHANGED <<netVars, chan, out, turn, minerVars, chainVars>>
    /\ Loops(Consensus)

\* Nothing is bundled while blocks are queued.  When no block is made there may be
\* transactions to propagate.  A block of this node is modelled
\* only where no peer has made one at its height.
BundleBlock ==
    /\ job[Consensus].at = "bundling" /\ Holds(Consensus)
    /\ \/ /\ Sends(Consensus, << >>) \/ Sends(Consensus, <<[to |-> Peers, event |-> Tx]>>)
          /\ UNCHANGED <<made, chainVars>>
       \/ /\ queued = {} /\ tip = made /\ made < MaxBlock /\ tip + 1 \notin Refused
          /\ made' = made + 1
          /\ AddBlocksFromMempool({tip + 1})
    /\ UNCHANGED <<fetching, refetches, txs, chan, turn, minerVars>>
    /\ Loops(Consensus)

-----------------------------------------------------------------------------
(* The mining thread. *)

MinerTakes ==
    /\ Take(Miner)
    /\ target' = First(Miner).id
    /\ active' = TRUE
    /\ UNCHANGED <<netVars, lock, job, out, turn, chainVars>>
    /\ Loops(Miner)

\* The timer tries some nonces, and one of them solves the target.
Mine ==
    /\ job[Miner] = Idle
    /\ active
    /\ active' = FALSE
    /\ Sends(Miner, <<[to |-> Consensus, event |-> Ticket(target)]>>)
    /\ UNCHANGED <<netVars, chan, turn, target, chainVars>>
    /\ Loops(Miner)

-----------------------------------------------------------------------------
Init ==
    /\ made = 0 /\ fetching = {} /\ refetches = 0 /\ txs = 0
    /\ chan = [t \in Threads |-> << >>]
    /\ lock = <<[thread |-> Consensus, writes |-> TRUE]>>
    /\ job = [t \in Threads |-> IF t = Consensus THEN [at |-> "loading"] ELSE Idle]
    /\ out = [t \in Threads |-> << >>]
    /\ ready = [t \in Threads |-> t # Consensus]
    /\ turn = 0
    /\ target = 0 /\ active = FALSE
    /\ tip = 0 /\ queued = {} /\ dropped = {}

Events == {Tx} \cup UNION {{Block(b), Ticket(b), Told(b), Updated(b), FetchOf(b), ChainOf(b)} :
                              b \in 0..MaxBlock}

RouterTakesFetched == \E b \in fetching : RouterTakesBlock(b)

Next ==
    \/ PeerMakesBlock
    \/ RouterTakesTx
    \/ RouterTakesFetched
    \/ RouterTakesEvent
    \/ RouterTimer
    \/ RouterGreets
    \/ RouterReads
    \/ \E v \in Verifying : VerifierTakes(v) \/ VerifyTx(v)
    \/ Load
    \/ ConsensusTakes
    \/ AddFetched
    \/ ConsensusTimer
    \/ BundleBlock
    \/ UsePeers
    \/ MinerTakes
    \/ Mine
    \/ \E t \in Threads \ {Router} : Send(t)
    \/ \E t \in Threads \ Verifying : Tick(t)

Spec == Init /\ [][Next]_vars

\* A thread that can go on does.  select! picks among its ready branches at random,
\* so that an event is taken in the end although the timers keep firing.  Nobody
\* has to make a block, mine or send a transaction.
Fairness ==
    /\ SF_vars(RouterTakesFetched) /\ SF_vars(RouterTakesEvent)
    /\ WF_vars(RouterReads)
    /\ \A v \in Verifying : WF_vars(VerifierTakes(v)) /\ WF_vars(VerifyTx(v))
    /\ WF_vars(Load) /\ SF_vars(ConsensusTakes) /\ WF_vars(AddFetched) /\ WF_vars(BundleBlock)
    /\ WF_vars(UsePeers)
    /\ WF_vars(MinerTakes)
    /\ \A t \in Threads \ {Router} : WF_vars(Send(t))
    /\ \A t \in Threads \ Verifying : WF_vars(Tick(t))

FairSpec == Spec /\ Fairness

-----------------------------------------------------------------------------
\* Types.  In particular no channel ever holds more than its slots, no thread asks
\* for the blockchain lock twice, and a queued block is above the next one wanted.
TypeOK ==
    /\ made \in 0..MaxBlock /\ fetching \subseteq 1..made
    /\ refetches \in 0..MaxRefetch /\ txs \in 0..MaxTx
    /\ \A t \in Threads : chan[t] \in Seq(Events) /\ Len(chan[t]) <= Size(t)
    /\ \A i, j \in DOMAIN lock : lock[i].thread = lock[j].thread => i = j
    /\ \A t \in Threads : job[t].at = "sending" <=> out[t] # << >>
    /\ \A t \in Threads : ready[t] => job[t] = Idle
    /\ turn \in 0..(Verifiers - 1)
    /\ target \in 0..tip /\ active \in BOOLEAN
    /\ tip \in 0..made
    /\ queued \subseteq (tip + 2)..made
    /\ dropped \subseteq Refused

\* Four circular waits.  A verification thread waits for a slot of the consensus
\* thread with the chain locked for reading, which the consensus thread waits to
\* write; the consensus thread waits, with the chain locked for writing, which the
\* router waits to read, for a slot of the router, or for the peers, which the router
\* has locked; or the consensus thread takes no event for lack of room at the router
\* or the miner, which take none for lack of room at the consensus thread.
VerifierStuck ==
    /\ Free(Consensus) = 0
    /\ \E v \in Verifying : Holds(v) /\ out[v] # << >>
    /\ job[Consensus].at \in {"adding", "bundling"}

RouterStuck ==
    /\ Free(Router) = 0
    /\ Holds(Consensus) /\ out[Consensus] # << >> /\ Head(out[Consensus]).to = Router
    /\ job[Router].at \in {"reading", "greeting"}

PeersStuck ==
    /\ Holds(Consensus) /\ out[Consensus] # << >> /\ Head(out[Consensus]).to = Peers
    /\ job[Router].at = "greeting"

BothUnready ==
    /\ Free(Consensus) <= SafeBuffer /\ ~ready[Consensus]
    /\ \E t \in {Router, Miner} : Free(t) <= SafeBuffer /\ ~ready[t]

Stuck == VerifierStuck \/ RouterStuck \/ PeersStuck \/ BothUnready

\* The note on the order of the locks: following it avoids deadlocks.  The threads
\* keep to it in these two waits.
LocksNeverStuck == ~(VerifierStuck \/ RouterStuck)

\* What the note asks for: the peers come after the blockchain.  The end of a
\* handshake takes them the other way round.
PeersNeverStuck == ~PeersStuck

\* None of the four ends: no timer, no late event and no other thread resolves it.
StuckForever == [][Stuck => Stuck']_vars

\* Whatever the order in which the verification threads finish and whatever the
\* timers do, the node comes to have every block made so far on a valid chain,
\* unless its threads end in one of the four circular waits.
BlocksJoin ==
    []<>(Stuck \/ \A b \in 1..made : 1..b \cap Refused = {} => b <= tip)

\* Once the consensus thread has sent what it had to and the miner has heard it,
\* the miner is on the tip, or a block was queued or refused above the tip.
MinerOnTip ==
    (job[Consensus].at # "loading" /\ out[Consensus] = << >> /\ chan[Miner] = << >>)
        => (target = tip \/ \E b \in queued \cup dropped : b > tip)

=============================================================================
