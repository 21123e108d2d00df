------------------------------- MODULE Mempool -------------------------------
(***************************************************************************)
(* The mempool and the consensus thread that owns it: transactions come    *)
(* from the verification threads, wait in txs_for_mempool, enter the       *)
(* mempool when the block timer fires, and leave it with a block: one of   *)
(* our own, or one that a peer made, which may also reorganise the chain.  *)
(*                                                                         *)
(* The chain is what Blockchain says of it: a sequence of blocks, the last *)
(* one being the tip, and one stored block next to the tip.  A handler of  *)
(* the consensus thread holds the locks of the chain and of the mempool,   *)
(* so it is one step; the verification threads work between the steps.     *)
(* The staking, fee and rebroadcast transactions of a block have no entry  *)
(* in the mempool and appear only by the slips they spend.  A slip is      *)
(* worth more than the fee of its rebroadcast, and the treasury too small  *)
(* for a payout with it: the rebroadcast spends the very key of the slip.  *)
(*                                                                         *)
(* A block of a peer may hold anything.  What validate lets pass and       *)
(* changes the supply ends the process in check_total_supply, for the      *)
(* chain reaches back to its first block or a genesis period.              *)
(***************************************************************************)
EXTENDS Integers, Sequences, FiniteSets, SequencesExt, FiniteSetsExt

CONSTANTS
    Txs,       \* transactions of users, by signature
    Keys,      \* utxoset keys older than the modelled blocks
    Amount,    \* of a key
    Ins,       \* keys with an amount that a transaction spends
    Work,      \* total_work_for_me of a transaction
    Expiry,    \* height of the block that rebroadcasts a key still unspent
    WorkNeeded,\* routing work that may be needed when the timer fires
    MaxBlocks, \* bound: blocks made in a behaviour
    MaxTickets \* bound: golden tickets held at a time

ASSUME MempoolAssumption ==
    /\ IsFiniteSet(Txs)
    /\ IsFiniteSet(Keys)
    /\ Amount \in [Keys -> Nat \ {0}]
    /\ Ins \in [Txs -> SUBSET Keys]
    /\ \A t \in Txs : Ins[t] # {}
    /\ Work \in [Txs -> Nat]
    /\ Expiry \in [Keys -> Nat]
    /\ WorkNeeded \subseteq Nat
    /\ MaxBlocks \in Nat
    /\ MaxTickets \in Nat

VARIABLES
    verified,     \* ConsensusEvent::NewTransaction values in the channel
    pending,      \* txs_for_mempool
    transactions, \* mempool.transactions
    utxoMap,      \* keys of mempool.utxo_map
    routingWork,  \* routing_work_in_mempool
    newTxAdded,   \* new_tx_added
    tickets,      \* golden_tickets: what is known for each target
    relayed,      \* targets whose golden ticket was propagated
    queued,       \* an orphan waits in mempool.blocks_queue
    chain,        \* the longest chain
    side,         \* a block stored next to the tip, or none
    made,         \* number of blocks made so far
    halted        \* has check_total_supply ended the process?

poolVars  == <<transactions, utxoMap, routingWork, newTxAdded>>
chainVars == <<queued, chain, side, made, halted>>
vars == <<verified, pending, poolVars, tickets, relayed, chainVars>>

Targets == 0 .. MaxBlocks
Block   == [id : Targets, txs : SUBSET Txs]
NoSide  == [id |-> 0, txs |-> {}]

TipId == IF chain = << >> THEN 0 ELSE chain[Len(chain)].id

-----------------------------------------------------------------------------
(* The utxoset a chain leaves.                                             *)

SpentBy(S) == UNION {Ins[t] : t \in S}

SpentIn(c) == UNION {SpentBy(c[i].txs) : i \in DOMAIN c}

Spendable(c) == {k \in Keys \ SpentIn(c) : Expiry[k] > Len(c)}

\* Transaction::validate_against_utxoset
Validates(t, c) == Ins[t] \subseteq Spendable(c)

\* Keys the block after c rebroadcasts.
Rebroadcast(c) == {k \in Spendable(c) : Expiry[k] = Len(c) + 1}

Conflicting(S) == \E t, u \in S : t # u /\ Ins[t] \cap Ins[u] # {}

\* The loop of Block::validate over the transactions S of a block after c: those
\* that do not validate pass, the others spend no slip twice.
Passes(S, c) ==
    LET valid == {t \in S : Validates(t, c)}
    IN ~Conflicting(valid) /\ SpentBy(valid) \cap Rebroadcast(c) = {}

Worth(K) == MapThenSumSet(LAMBDA k : Amount[k], K)

\* What transactions say they spend.
Spends == [t \in Txs |-> Worth(Ins[t])]
Claimed(S) == MapThenSumSet(LAMBDA t : Spends[t], S)

\* What the block puts into outputs and fees, its rebroadcasts included,
Put(S, c) == Claimed(S) + Worth(Rebroadcast(c))

\* and the tokens that leave the utxoset for it.
Taken(S, c) == Worth((SpentBy(S) \cap Spendable(c)) \cup Rebroadcast(c))

\* Faulty variant of SupplyChange: the check does not look.
SupplyNotCompared(S, c) == 0

\* By how much the block changes the supply that check_total_supply adds up.
SupplyChange(S, c) == Put(S, c) - Taken(S, c)

-----------------------------------------------------------------------------
(* The mempool as a record.                                                *)

Pool == [txs |-> transactions, map |-> utxoMap, work |-> routingWork,
         fresh |-> newTxAdded]

PoolBecomes(m) ==
    /\ transactions' = m.txs
    /\ utxoMap' = m.map
    /\ routingWork' = m.work
    /\ newTxAdded' = m.fresh

TotalWork(S) == MapThenSumSet(LAMBDA t : Work[t], S)

\* Mempool::add_transaction
AddTransaction(m, t) ==
    IF Ins[t] \cap m.map # {} \/ t \in m.txs THEN m
    ELSE [txs |-> m.txs \cup {t}, map |-> m.map \cup Ins[t],
          work |-> m.work + Work[t], fresh |-> TRUE]

\* Mempool::add_transaction_if_validates
AddTransactionIfValidates(m, t) ==
    IF Validates(t, chain) THEN AddTransaction(m, t) ELSE m

\* The first loop of ConsensusThread::bundle_block.
Filled == FoldLeft(AddTransactionIfValidates, Pool, pending)

\* Faulty variant of RemoveBlockTransactions: only those of the block.
RemoveOnlyBlockTransactions(m, c, S) ==
    [m EXCEPT !.txs = @ \ S, !.work = TotalWork(m.txs \ S)]

\* Blockchain::remove_block_transactions for a block with the transactions S,
\* when the longest chain is c.
RemoveBlockTransactions(m, c, S) ==
    LET left == {t \in m.txs : Validates(t, c)} \ S
    IN [m EXCEPT !.txs = left, !.work = TotalWork(left)]

\* Mempool::bundle_block after the block was created.
Drained(m) ==
    [txs |-> {}, map |-> m.map \ (SpentBy(m.txs) \cup Rebroadcast(chain)),
     work |-> 0, fresh |-> FALSE]

\* Blockchain::add_block_transactions_back
AddedBack(m, S) ==
    [m EXCEPT !.txs = @ \cup {t \in S : Validates(t, chain)}, !.fresh = TRUE]

\* Mempool::can_bundle_block: needed is the routing work the burn fee asks for
\* at this time, enoughTickets that the golden ticket count of the chain is valid
\* and the delay drawn for this node has passed.
CanBundle(m, needed, enoughTickets) ==
    /\ ~queued
    /\ m.txs # {}
    /\ m.fresh
    /\ enoughTickets
    /\ m.work >= needed

\* The check in Block::create, over the transactions of the mempool and the
\* rebroadcast ones.
DoubleSpendDetected(S) == Conflicting(S) \/ SpentBy(S) \cap Rebroadcast(chain) # {}

-----------------------------------------------------------------------------
Init ==
    /\ verified = {}
    /\ pending = << >>
    /\ transactions = {} /\ utxoMap = {} /\ routingWork = 0 /\ newTxAdded = FALSE
    /\ tickets = [n \in Targets |-> "none"]
    /\ relayed = {}
    /\ queued = FALSE
    /\ chain = << >>
    /\ side = NoSide
    /\ made = 0
    /\ halted = FALSE

\* VerificationThread::verify_tx, verify_txs
VerifyTx(t) ==
    /\ ~halted
    /\ Validates(t, chain)
    /\ verified' = verified \cup {t}
    /\ UNCHANGED <<pending, poolVars, tickets, relayed, chainVars>>

\* ConsensusEvent::NewTransaction.  A second copy of a waiting transaction has
\* no effect on the mempool and is left out.
NewTransaction(t) ==
    /\ ~halted
    /\ t \in verified
    /\ verified' = verified \ {t}
    /\ pending' = IF Contains(pending, t) THEN pending ELSE Append(pending, t)
    /\ UNCHANGED <<poolVars, tickets, relayed, chainVars>>

\* ConsensusEvent::NewGoldenTicket, or a golden ticket transaction from a peer:
\* whether it solves its target is only found out by block.validate.
NewGoldenTicket(kind) ==
    /\ ~halted
    /\ Cardinality({n \in Targets : tickets[n] # "none"}) < MaxTickets
    /\ tickets' = IF tickets[TipId] = "none" THEN [tickets EXCEPT ![TipId] = kind]
                  ELSE tickets
    /\ UNCHANGED <<verified, pending, poolVars, relayed, chainVars>>

\* Without a block, bundle_block propagates the waiting transactions and the
\* golden ticket for the tip.
NoBlockProduced ==
    /\ pending' = << >>
    /\ relayed' = IF tickets[TipId] = "none" THEN relayed ELSE relayed \cup {TipId}
    /\ UNCHANGED <<verified, tickets, chainVars>>

\* The block timer: ConsensusThread::bundle_block.
BundleNothing(needed, enoughTickets, stakeFound) ==
    /\ ~halted
    /\ ~CanBundle(Filled, needed, enoughTickets) \/ ~stakeFound
    /\ PoolBecomes(Filled)
    /\ NoBlockProduced

\* Block::create takes the transactions out of the mempool and then fails.
BundleFails(needed, enoughTickets) ==
    /\ ~halted
    /\ CanBundle(Filled, needed, enoughTickets)
    /\ DoubleSpendDetected(Filled.txs)
    /\ PoolBecomes([Filled EXCEPT !.txs = {}])
    /\ NoBlockProduced

\* The block is made and added to the chain.  All of it validates and nothing is
\* spent twice, so that the supply stays.
BundleBlock(needed, enoughTickets) ==
    /\ ~halted
    /\ made < MaxBlocks
    /\ CanBundle(Filled, needed, enoughTickets)
    /\ ~DoubleSpendDetected(Filled.txs)
    /\ tickets[TipId] # "bad"
    /\ made' = made + 1
    /\ chain' = Append(chain, [id |-> made + 1, txs |-> Filled.txs])
    /\ side' = NoSide
    /\ PoolBecomes(RemoveBlockTransactions(Drained(Filled), chain', Filled.txs))
    /\ tickets' = [tickets EXCEPT ![TipId] = "none"]
    /\ relayed' = relayed \ {TipId}
    /\ pending' = << >>
    /\ UNCHANGED <<verified, queued, halted>>

\* The block is made and refused by block.validate for its golden ticket.
BundleRefused(needed, enoughTickets) ==
    /\ ~halted
    /\ CanBundle(Filled, needed, enoughTickets)
    /\ ~DoubleSpendDetected(Filled.txs)
    /\ tickets[TipId] = "bad"
    /\ PoolBecomes(AddedBack(Drained(Filled), Filled.txs))
    /\ pending' = << >>
    /\ UNCHANGED <<verified, tickets, relayed, chainVars>>

\* A block of a peer that add_block takes: ConsensusEvent::BlockFetched.  The
\* golden ticket in it, if any, leaves the mempool.  A block that is refused
\* changes nothing here.
Fetched(c, S, target, usesTicket) ==
    /\ ~halted
    /\ made < MaxBlocks
    /\ made' = made + 1
    /\ PoolBecomes(RemoveBlockTransactions(Pool, c, S))
    /\ tickets' = IF usesTicket THEN [tickets EXCEPT ![target] = "none"] ELSE tickets
    /\ relayed' = IF usesTicket THEN relayed \ {target} ELSE relayed
    /\ queued' \in IF queued THEN BOOLEAN ELSE {FALSE}
    /\ UNCHANGED <<verified, pending, halted>>

\* On top of the longest chain.
FetchedExtends(S, usesTicket) ==
    /\ Passes(S, chain)
    /\ SupplyChange(S, chain) = 0
    /\ chain' = Append(chain, [id |-> made + 1, txs |-> S])
    /\ side' = NoSide
    /\ Fetched(chain', S, TipId, usesTicket)

\* Next to the tip: stored without a look at its transactions, the longest chain
\* stays.
FetchedBeside(S) ==
    /\ chain # << >> /\ side = NoSide
    /\ side' = [id |-> made + 1, txs |-> S]
    /\ Fetched(chain, S, TipId, FALSE)
    /\ UNCHANGED chain

\* The chain with the block next to the tip instead of the tip.
Fork == Append(Front(chain), side)

\* A reorganisation validates both blocks and looks at the supply once.
ForkPasses(S) == side # NoSide /\ Passes(side.txs, Front(chain)) /\ Passes(S, Fork)
ForkSupplyChange(S) == SupplyChange(side.txs, Front(chain)) + SupplyChange(S, Fork)

\* On top of the block next to the tip: the chain is reorganised.
FetchedReorganises(S) ==
    /\ ForkPasses(S)
    /\ ForkSupplyChange(S) = 0
    /\ chain' = Append(Fork, [id |-> made + 1, txs |-> S])
    /\ side' = NoSide
    /\ Fetched(chain', S, TipId, FALSE)

\* The panic of check_total_supply, before add_block_success: the process ends.
Panics ==
    /\ ~halted
    /\ made < MaxBlocks
    /\ made' = made + 1
    /\ halted' = TRUE
    /\ UNCHANGED <<verified, pending, poolVars, tickets, relayed, queued, side>>

FetchedExtendsPanics(S) ==
    /\ Passes(S, chain)
    /\ SupplyChange(S, chain) # 0
    /\ chain' = Append(chain, [id |-> made + 1, txs |-> S])
    /\ Panics

FetchedReorganisesPanics(S) ==
    /\ ForkPasses(S)
    /\ ForkSupplyChange(S) # 0
    /\ chain' = Append(Fork, [id |-> made + 1, txs |-> S])
    /\ Panics

\* A block whose parent is missing goes back to blocks_queue.
FetchedOrphan ==
    /\ ~halted
    /\ queued' = TRUE
    /\ UNCHANGED <<verified, pending, poolVars, tickets, relayed, chain, side, made, halted>>

-----------------------------------------------------------------------------
TimerFires ==
    \E needed \in WorkNeeded, enoughTickets, stakeFound \in BOOLEAN :
        \/ BundleNothing(needed, enoughTickets, stakeFound)
        \/ stakeFound /\ BundleFails(needed, enoughTickets)
        \/ stakeFound /\ BundleBlock(needed, enoughTickets)
        \/ stakeFound /\ BundleRefused(needed, enoughTickets)

BlockFetched ==
    \/ \E S \in SUBSET Txs, usesTicket \in BOOLEAN : FetchedExtends(S, usesTicket)
    \/ \E S \in SUBSET Txs : FetchedBeside(S)
    \/ \E S \in SUBSET Txs : FetchedReorganises(S)
    \/ \E S \in SUBSET Txs : FetchedExtendsPanics(S)
    \/ \E S \in SUBSET Txs : FetchedReorganisesPanics(S)
    \/ FetchedOrphan

Next ==
    \/ \E t \in Txs : VerifyTx(t)
    \/ \E t \in Txs : NewTransaction(t)
    \/ \E kind \in {"good", "bad"} : NewGoldenTicket(kind)
    \/ TimerFires
    \/ BlockFetched

Spec == Init /\ [][Next]_vars

-----------------------------------------------------------------------------
TypeOK ==
    /\ verified \subseteq Txs
    /\ pending \in Seq(Txs)
    /\ transactions \subseteq Txs
    /\ utxoMap \subseteq Keys
    /\ routingWork \in Nat
    /\ newTxAdded \in BOOLEAN
    /\ tickets \in [Targets -> {"none", "good", "bad"}]
    /\ relayed \subseteq Targets
    /\ queued \in BOOLEAN
    /\ chain \in Seq(Block)
    /\ side \in Block
    /\ made \in Targets
    /\ halted \in BOOLEAN

\* Whatever blocks arrive or are refused between the verification of a
\* transaction and its turn, and whatever reorganisation takes place, every
\* transaction in the mempool spends keys of the current utxoset.
MempoolSpendable == ~halted => \A t \in transactions : Validates(t, chain)

\* A running node follows a chain that spends no key twice: neither in two blocks
\* nor in two transactions of a block.  The mempool itself may hold two transactions
\* that spend the same key, and validate lets a block of a peer spend it again:
\* then the supply grows, however the amounts meet.
NoKeySpentTwice ==
    ~halted => \A i, j \in DOMAIN chain : \A t \in chain[i].txs, u \in chain[j].txs :
        <<i, t>> # <<j, u>> => Ins[t] \cap Ins[u] = {}

\* The doc of Mempool: it holds unprocessed transactions.  A transaction leaves it
\* only when it is in a stored block or cannot be spent any more.
UnprocessedKept ==
    [][\A t \in transactions \ transactions' :
          \/ ~Validates(t, chain)'
          \/ t \in side'.txs
          \/ \E i \in DOMAIN chain' : t \in chain'[i].txs]_vars

=============================================================================
