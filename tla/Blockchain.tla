----------------------------- MODULE Blockchain -----------------------------
(***************************************************************************)
(* Blockchain::add_block: storing a block, choosing the longest chain, and *)
(* the loop of validate() that unwinds the old chain and winds the new one *)
(* block by block, with the block ring, the in_longest_chain flags, the    *)
(* utxoset, pruning and the purge of blocks behind the genesis period.     *)
(*                                                                         *)
(* One call of add_block is the sequence of steps from pc = "idle" back to *)
(* pc = "idle"; it runs under the write lock of the blockchain, so that no *)
(* other call comes between.                                               *)
(***************************************************************************)
EXTENDS BlockRing

CONSTANTS
    Prev,             \* previous_block_hash
    BurnFee,          \* burnfee of a block
    HasTicket,        \* blocks with has_golden_ticket
    Invalid,          \* blocks that block.validate refuses
    Keys,             \* utxoset keys
    Ins,              \* keys the transactions of a block spend
    Outs,             \* keys the transactions of a block create
    CheckpointKeys,   \* keys listed in the checkpoint file of a block
    PruneAfter,       \* prune_after_blocks
    StakerDepth,      \* max_staker_recursions
    LoadingCompleted, \* initial_loading_completed
    TicketsNumerator, TicketsDenominator, \* MIN_GOLDEN_TICKETS_*
    FirstBlocks,      \* bound: blocks that may arrive while there is no block
    LateRoots         \* bound: blocks without a parent that may arrive later

ASSUME ChainAssumption ==
    /\ Prev \in [Blocks -> Blocks \cup {NoBlock}]
    /\ \A b \in Blocks : Prev[b] # NoBlock => Id[b] = Id[Prev[b]] + 1
    /\ BurnFee \in [Blocks -> Nat]
    /\ HasTicket \subseteq Blocks
    /\ Invalid \subseteq Blocks
    /\ Ins \in [Blocks -> SUBSET Keys]
    /\ Outs \in [Blocks -> SUBSET Keys]
    /\ CheckpointKeys \in [Blocks -> SUBSET Keys]
    /\ PruneAfter \in Nat \ {0}
    /\ StakerDepth \in Nat
    /\ LoadingCompleted \in BOOLEAN
    /\ TicketsNumerator \in Nat /\ TicketsDenominator \in Nat \ {0}
    /\ FirstBlocks \subseteq Blocks /\ LateRoots \subseteq Blocks

VARIABLES
    blocks,          \* keys of blockchain.blocks
    inLongestChain,  \* blocks whose in_longest_chain flag is set
    ring,            \* the block ring
    empty,           \* blockring.empty
    utxoset,         \* keys of the utxoset
    lastBlock,       \* last_block_hash; last_block_id is its id
    genesisBlockId,  \* genesis_block_id
    pruned,          \* blocks of type Pruned: their transactions are dropped
    safeToPrune,     \* blocks with safe_to_prune_transactions
    disk,            \* blocks written to disk
    checkpoints,     \* blocks with has_checkpoint
    checkpointFound, \* checkpoint_found
    pc,              \* where the call of add_block is
    tip,             \* the block being added
    newChain,        \* new_chain, tip first
    oldChain,        \* old_chain, tip first
    unwinding,       \* the chain carried by WindingResult::Unwind
    index,           \* the index carried by WindingResult, from one
    windFailure,     \* the wind_failure carried by WindingResult
    result,          \* the AddBlockResult of the last call
    before           \* history: the ledger when the call started

storeVars  == <<blocks, ring, empty, disk, safeToPrune>>
ledgerVars == <<inLongestChain, utxoset, lastBlock, genesisBlockId, pruned>>
windVars   == <<newChain, oldChain, unwinding, index, windFailure>>
checkVars  == <<checkpoints, checkpointFound>>
vars == <<storeVars, ledgerVars, checkVars, pc, tip, windVars, result, before>>

Monus(a, b) == IF a > b THEN a - b ELSE 0
LargerOf(a, b) == IF a > b THEN a ELSE b

IdOf(b) == IF b = NoBlock THEN 0 ELSE Id[b]

-----------------------------------------------------------------------------
(* Chains of hashes.                                                       *)

\* The stored ancestors of a block, the block first, down to the first block
\* that is missing or in stop.
Walk(stored, stop, from) ==
    LET walk[b \in Blocks \cup {NoBlock}] ==
            IF b \notin stored \/ b \in stop THEN << >> ELSE <<b>> \o walk[Prev[b]]
    IN walk[from]

UpTo(s, n) == SubSeq(s, 1, IF Len(s) < n THEN Len(s) ELSE n)

TotalBurnFee(s) == FoldLeft(LAMBDA sum, b : sum + BurnFee[b], 0, s)

\* Faulty variant of IsNewChainTheLongest: the burn fees are not compared.
IsNewChainTheLongestByLength(r, new, old) ==
    empty \/ (LatestId(r) < Id[new[1]] /\ Len(old) < Len(new))

\* is_new_chain_the_longest_chain
IsNewChainTheLongest(r, new, old) ==
    \/ empty
    \/ /\ LatestId(r) < Id[new[1]]
       /\ Len(old) < Len(new)
       /\ TotalBurnFee(old) <= TotalBurnFee(new)

\* is_golden_ticket_count_valid_: enough golden tickets in the last blocks,
\* unless there are too few of them to tell.
IsGoldenTicketCountValid(stored, b) ==
    LET back == UpTo(Walk(stored, {}, Prev[b]), TicketsDenominator - 1)
        found == {h \in {back[i] : i \in 1 .. Len(back)} \cup {b} : h \in HasTicket}
        required == Monus(TicketsNumerator, Monus(TicketsDenominator, Len(back) + 1))
    IN \/ Len(back) < Monus(TicketsDenominator, TicketsNumerator)
       \/ Cardinality(found) >= required

\* Longest chain blocks above id, which a block without a parent disconnects.
DisconnectedBy(b) ==
    {LongestAt(ring, i) : i \in Id[b] + 1 .. LatestId(ring)} \ {NoBlock}

Disconnect(r, gone) ==
    IF gone = {} THEN r
    ELSE LET items == [s \in Slots |->
                 IF Stored(r, s) \cap gone # {} THEN [r.items[s] EXCEPT !.lcPos = 0]
                 ELSE r.items[s]]
         IN [items |-> items, lcPos |-> RolledBack(items, LatestId(r))]

\* add_block up to the choice of the longest chain.
Placed(b) ==
    LET stored == blocks \cup {b}
        latest == LatestHash(ring)
        new == Walk(stored, inLongestChain, b)
        shared == Prev[new[Len(new)]]
        sharedFound == shared \in inLongestChain
        gone == IF /\ ~sharedFound /\ ~empty /\ latest # NoBlock
                   /\ Id[b] > Monus(LatestId(ring), GenesisPeriod)
                THEN DisconnectedBy(b) ELSE {}
        placed == Disconnect(RingAdd(ring, b), gone)
        old == IF sharedFound THEN Walk(stored, {shared}, latest)
               ELSE UpTo(Walk(stored, {}, latest), Len(new) + 1)
    IN [ring |-> placed,
        gone |-> gone,
        new |-> new,
        old |-> old,
        longest |-> /\ Id[b] > Monus(LatestId(placed), GenesisPeriod)
                    /\ IsNewChainTheLongest(placed, new, old)]

Ledger == [blocks |-> blocks, tip |-> LatestHash(ring), utxoset |-> utxoset,
           chain |-> inLongestChain]
NoLedger == [blocks |-> {}, tip |-> NoBlock, utxoset |-> {}, chain |-> {}]

-----------------------------------------------------------------------------
Init ==
    /\ blocks = {} /\ inLongestChain = {} /\ ring = EmptyRing /\ empty = TRUE
    /\ utxoset = {} /\ lastBlock = NoBlock /\ genesisBlockId = 0
    /\ pruned = {} /\ safeToPrune = {} /\ disk = {}
    /\ checkpoints = {} /\ checkpointFound = FALSE
    /\ pc = "idle" /\ tip = NoBlock
    /\ newChain = << >> /\ oldChain = << >> /\ unwinding = << >>
    /\ index = 0 /\ windFailure = FALSE
    /\ result = "None" /\ before = NoLedger

ParentMissing(b) == ~empty /\ Prev[b] # NoBlock /\ Prev[b] \notin blocks

\* Orphans are refused only once the blocks on disk are loaded or a checkpoint
\* was met.
Orphan(b) == ParentMissing(b) /\ (LoadingCompleted \/ checkpointFound)

Idle == pc = "idle" /\ ~LatestPanics(ring)

AddExistingBlock(b) ==
    /\ Idle
    /\ b \in blocks
    /\ result' = "BlockAlreadyExists"
    /\ UNCHANGED <<storeVars, ledgerVars, checkVars, pc, tip, windVars, before>>

\* parentQueued: the parent is waiting in mempool.blocks_queue.
AddOrphan(b, parentQueued) ==
    /\ Idle
    /\ b \notin blocks
    /\ Orphan(b)
    /\ LET latest == LatestId(ring)
           distance == LargerOf(Id[b], latest)
                       - (IF Id[b] > latest THEN latest ELSE Id[b])
           near == distance < GenesisPeriod /\ distance < 1000
       IN result' =
            IF parentQueued THEN "RetryLater"
            ELSE IF Id[b] <= LargerOf(1, Monus(latest, GenesisPeriod))
            THEN "FailedNotValid"
            ELSE IF near THEN "RetryFetchingParent" ELSE "RetryFetchingChain"
    /\ UNCHANGED <<storeVars, ledgerVars, checkVars, pc, tip, windVars, before>>

\* The block is stored; a longest chain is checked and then validated, any
\* other chain is kept as it is.
PlaceBlock(b) ==
    /\ Idle
    /\ b \notin blocks
    /\ ~Orphan(b)
    /\ LET p == Placed(b)
       IN /\ ring' = p.ring
          /\ newChain' = p.new
          /\ oldChain' = p.old
          /\ inLongestChain' = (inLongestChain \ p.gone)
                               \cup (IF p.longest THEN {b} ELSE {})
          /\ \/ /\ ~p.longest
                /\ pc' = "added"
                /\ UNCHANGED <<unwinding, index, windFailure>>
             \/ /\ p.longest
                /\ ~IsGoldenTicketCountValid(blocks \cup {b}, b)
                /\ pc' = "refused"
                /\ UNCHANGED <<unwinding, index, windFailure>>
             \/ /\ p.longest
                /\ IsGoldenTicketCountValid(blocks \cup {b}, b)
                /\ pc' = IF p.old = << >> THEN "wind" ELSE "unwind"
                /\ unwinding' = p.old
                /\ index' = IF p.old = << >> THEN Len(p.new) ELSE 1
                /\ windFailure' = (p.old # << >>)
    /\ blocks' = blocks \cup {b}
    /\ empty' = FALSE
    /\ tip' = b
    /\ before' = Ledger
    /\ result' = "None"
    /\ UNCHANGED <<utxoset, lastBlock, genesisBlockId, pruned, safeToPrune, disk,
                   checkVars>>

-----------------------------------------------------------------------------
(* Winding and unwinding one block.                                        *)

\* Faulty variant of Upgraded: the transactions stay on disk.
UpgradedNot(bs) == pruned

\* upgrade_block_to_block_type(Full) reads the transactions back from disk.
Upgraded(bs) == pruned \ (bs \cap disk)

\* Transactions of a block that are in memory, given the pruned blocks.
InputsOf(b, pr) == IF b \in pr THEN {} ELSE Ins[b]
OutputsOf(b, pr) == IF b \in pr THEN {} ELSE Outs[b]

\* block.on_chain_reorganization(utxoset, true)
Wound(b, pr) == (utxoset \ InputsOf(b, pr)) \cup OutputsOf(b, pr)

\* Faulty variant of Unflagged: the flag stays.
UnflaggedNot(b) == inLongestChain

\* in_longest_chain = false
Unflagged(b) == inLongestChain \ {b}

\* block.on_chain_reorganization(utxoset, false)
Unwound(b, pr) == (utxoset \cup InputsOf(b, pr)) \ OutputsOf(b, pr)

\* Blocks downgrade_blockchain_data drops the transactions of.
Downgraded(r) ==
    IF PruneAfter > LatestId(r) THEN {}
    ELSE HashesAt(r, LatestId(r) - PruneAfter) \cap safeToPrune

\* Faulty variant of PurgedBy: one block too early.
PurgedByTooEarly(r) ==
    IF LatestId(r) < 2 * GenesisPeriod THEN {}
    ELSE HashesAt(r, LatestId(r) - 2 * GenesisPeriod + 1)

\* Blocks update_genesis_period deletes: the ones at the id that is two genesis
\* periods behind the latest block.
PurgedBy(r) ==
    IF LatestId(r) < 2 * GenesisPeriod + 1 THEN {}
    ELSE HashesAt(r, LatestId(r) - 2 * GenesisPeriod)

\* Faulty variant of Advances: a block right after the last one is skipped.
AdvancesByTwo(b) == Id[b] > IdOf(lastBlock) + 1

\* on_chain_reorganization skips blocks that are not later than last_block_id.
Advances(b) == Id[b] > IdOf(lastBlock)

\* wind_chain on a block that validates, with blockchain.on_chain_reorganization.
WindBlock(b, pr) ==
    LET wound == RingWind(ring, b)
        advances == Advances(b)
        purged == IF advances THEN PurgedBy(wound) ELSE {}
        kept == RingDelete(wound, LatestId(wound) - 2 * GenesisPeriod, purged)
    IN  /\ ring' = kept
        /\ inLongestChain' = (inLongestChain \cup {b}) \ purged
        /\ utxoset' = Wound(b, pr) \ UNION {InputsOf(p, pr) \cup OutputsOf(p, pr) :
                                             p \in purged}
        /\ lastBlock' = IF advances THEN b ELSE lastBlock
        /\ genesisBlockId' =
               IF advances /\ LatestId(wound) >= 2 * GenesisPeriod + 1
               THEN LatestId(wound) - GenesisPeriod ELSE genesisBlockId
        /\ blocks' = blocks \ purged
        /\ disk' = disk \ purged
        /\ safeToPrune' = safeToPrune \ purged
        /\ pruned' = (pr \ purged) \cup Downgraded(kept)
        /\ checkpoints' = checkpoints \ purged

\* Blocks upgrade_blocks_for_wind_chain reads back from disk.
NeededFor(b) ==
    {b} \cup {LongestAt(ring, Id[b] - i) :
                  i \in {j \in 1 .. StakerDepth - 1 : j < Id[b]}}

Winding == pc = "wind"


HasCheckpoint(b) == b \in checkpoints

\* Faulty variant of NextWindIndex: the index is not lowered.
NextWindIndexSame == index

NextWindIndex == index - 1

WindValid ==
    /\ Winding
    /\ LET b == newChain[index]
       IN /\ ~HasCheckpoint(b)
          /\ b \notin Invalid
          /\ WindBlock(b, Upgraded(NeededFor(b)))
    /\ \/ /\ index > 1
          /\ index' = NextWindIndex
          /\ windFailure' = FALSE
          /\ UNCHANGED pc
       \/ /\ index = 1
          /\ pc' = IF windFailure THEN "refused" ELSE "added"
          /\ UNCHANGED <<index, windFailure>>
    /\ UNCHANGED <<empty, checkpointFound, tip, newChain, oldChain, unwinding, result,
                   before>>

\* A block of the new chain does not validate.
WindInvalid ==
    /\ Winding
    /\ LET b == newChain[index]
       IN /\ ~HasCheckpoint(b)
          /\ b \in Invalid
          /\ pruned' = Upgraded(NeededFor(b))
    /\ \/ /\ index = Len(newChain) /\ oldChain # << >>
          /\ index' = Len(oldChain)
          /\ windFailure' = TRUE
          /\ UNCHANGED <<pc, unwinding>>
       \/ /\ index = Len(newChain) /\ oldChain = << >>
          /\ pc' = "refused"
          /\ UNCHANGED <<index, windFailure, unwinding>>
       \/ /\ index < Len(newChain)
          /\ pc' = "unwind"
          /\ unwinding' = SubSeq(newChain, index + 1, Len(newChain))
          /\ index' = 1
          /\ windFailure' = TRUE
    /\ UNCHANGED <<storeVars, inLongestChain, utxoset, lastBlock, genesisBlockId,
                   checkVars, tip, newChain, oldChain, result, before>>

UnwindBlock ==
    /\ pc = "unwind"
    /\ LET b == unwinding[index]
           pr == Upgraded({b})
           r == RingUnwind(ring, b)
       IN /\ ~HasCheckpoint(b)
          /\ ring' = r
          /\ utxoset' = Unwound(b, pr)
          /\ inLongestChain' = Unflagged(b)
          /\ pruned' = pr \cup Downgraded(r)
    /\ IF index = Len(unwinding)
       THEN pc' = "wind" /\ index' = Len(newChain)
       ELSE index' = index + 1 /\ UNCHANGED pc
    /\ UNCHANGED <<blocks, empty, disk, safeToPrune, lastBlock, genesisBlockId,
                   checkVars, tip, newChain, oldChain, unwinding, windFailure,
                   result, before>>

\* A block with a checkpoint is neither wound nor unwound.
StopAtCheckpoint ==
    /\ \/ /\ pc = "wind"
          /\ HasCheckpoint(newChain[index])
          /\ pruned' = Upgraded(NeededFor(newChain[index]))
       \/ /\ pc = "unwind"
          /\ HasCheckpoint(unwinding[index])
          /\ UNCHANGED pruned
    /\ pc' = "refused"
    /\ UNCHANGED <<storeVars, inLongestChain, utxoset, lastBlock, genesisBlockId,
                   checkVars, tip, windVars, result, before>>

-----------------------------------------------------------------------------
(* The end of add_block.                                                   *)

Finished ==
    /\ pc' = "idle" /\ tip' = NoBlock
    /\ newChain' = << >> /\ oldChain' = << >> /\ unwinding' = << >>
    /\ index' = 0 /\ windFailure' = FALSE
    /\ before' = NoLedger

\* Every accepted block is written to disk.
Saved == disk \cup {tip}

\* set_safe_to_prune_transaction: the first block stored at the id of the tip.
MadeSafeToPrune == safeToPrune \cup ({FirstAt(ring, Id[tip])} \cap blocks)

\* Keys of the checkpoint file of the block that are in the utxoset.
CheckpointHits == CheckpointKeys[tip] \cap utxoset

\* add_block_success, then the checkpoint file of the block.
AddBlockSuccess ==
    /\ pc = "added"
    /\ disk' = Saved
    /\ safeToPrune' = MadeSafeToPrune
    /\ utxoset' = utxoset \ CheckpointHits
    /\ checkpoints' = checkpoints \cup (IF CheckpointHits = {} THEN {} ELSE {tip})
    /\ checkpointFound' = (checkpointFound \/ CheckpointHits # {})
    /\ result' = IF tip \in inLongestChain THEN "AddedToLongestChain" ELSE "Added"
    /\ Finished
    /\ UNCHANGED <<blocks, ring, empty, inLongestChain, lastBlock, genesisBlockId,
                   pruned>>

\* add_block_failure
AddBlockFailure ==
    /\ pc = "refused"
    /\ blocks' = blocks \ {tip}
    /\ inLongestChain' = Unflagged(tip)
    /\ ring' = RingDelete(ring, Id[tip], {tip})
    /\ pruned' = pruned \ {tip}
    /\ safeToPrune' = safeToPrune \ {tip}
    /\ result' = "FailedNotValid"
    /\ Finished
    /\ UNCHANGED <<empty, disk, utxoset, lastBlock, genesisBlockId, checkVars>>

-----------------------------------------------------------------------------
\* The loop of validate() and the end of add_block.
Continue ==
    \/ WindValid
    \/ WindInvalid
    \/ UnwindBlock
    \/ StopAtCheckpoint
    \/ AddBlockSuccess
    \/ AddBlockFailure

\* Bound: which blocks without a parent a peer sends.
Arrives(b) ==
    /\ empty => b \in FirstBlocks
    /\ ~empty /\ Prev[b] = NoBlock => b \in LateRoots

Offer ==
    \E b \in Blocks :
        \/ AddExistingBlock(b)
        \/ \E parentQueued \in BOOLEAN : AddOrphan(b, parentQueued)
        \/ Arrives(b) /\ PlaceBlock(b)

Next == Offer \/ Continue

Spec == Init /\ [][Next]_vars

\* A call of add_block that has started goes on: nothing in it waits.
FairSpec == Spec /\ WF_vars(Continue)

-----------------------------------------------------------------------------
Places == {"idle", "wind", "unwind", "added", "refused"}
Results == {"None", "BlockAlreadyExists", "RetryLater", "RetryFetchingParent",
            "RetryFetchingChain", "FailedNotValid", "Added", "AddedToLongestChain"}

TypeOK ==
    /\ blocks \subseteq Blocks
    /\ inLongestChain \subseteq blocks
    /\ IsRing(ring)
    /\ empty \in BOOLEAN
    /\ utxoset \subseteq Keys
    /\ lastBlock \in Blocks \cup {NoBlock}
    /\ genesisBlockId \in Nat
    /\ pruned \subseteq blocks /\ safeToPrune \subseteq blocks
    /\ disk \subseteq Blocks
    /\ checkpoints \subseteq Blocks /\ checkpointFound \in BOOLEAN
    /\ pc \in Places
    /\ tip \in Blocks \cup {NoBlock}
    /\ newChain \in Seq(Blocks) /\ oldChain \in Seq(Blocks) /\ unwinding \in Seq(Blocks)
    /\ index \in Nat /\ windFailure \in BOOLEAN
    /\ result \in Results

\* Between two calls of add_block the ring is the index its comment describes:
\* at every block id it names the block whose in_longest_chain flag is set, and
\* a block is in the ring exactly when it is stored.
RingMatchesFlags ==
    pc = "idle" =>
        /\ \A b \in blocks : b \in inLongestChain <=> LongestAt(ring, Id[b]) = b
        /\ \A s \in Slots : Stored(ring, s) = {b \in blocks : SlotOf(Id[b]) = s}

\* The flagged blocks are one chain: each is the parent of another, up to the
\* latest block of the ring.
LongestChainLinked ==
    pc = "idle" =>
        \A b \in inLongestChain :
            b = LatestHash(ring) \/ \E c \in inLongestChain : Prev[c] = b

Spent(k) == \E c \in inLongestChain : k \in Ins[c]

\* Between two calls of add_block an output of a longest chain block is in the
\* utxoset exactly when no longest chain block spends it, and no output of a
\* fork is: every unwound block was taken back, whether its transactions were
\* in memory or had been pruned and came from disk.
UtxosetMatchesChain ==
    pc = "idle" =>
        \A b \in blocks : \A k \in Outs[b] :
            k \in utxoset <=> /\ \E c \in inLongestChain : k \in Outs[c]
                              /\ ~Spent(k)

FC == INSTANCE ForkChoice WITH
          known <- IF pc = "idle" THEN blocks ELSE before.blocks,
          best <- IF pc = "idle" THEN LatestHash(ring) ELSE before.tip,
          spendable <- IF pc = "idle" THEN utxoset ELSE before.utxoset

\* add_block implements the fork choice rule: whatever the order in which the
\* blocks of a tree arrive, each call ends on the longest chain with the most
\* burn fees and with the utxoset of that chain, as if in one step.
ImplementsForkChoice == FC!Spec

\* Trees on which the fork choice is only about forks: every block but the first
\* arrives after its parent, no id comes around the ring, there are no checkpoint
\* files, and a block that validates spends what its ancestors left and makes new
\* outputs.
PlainTree ==
    /\ LoadingCompleted
    /\ LateRoots = {}
    /\ \A b \in FirstBlocks : Prev[b] = NoBlock
    /\ \A b \in Blocks : Id[b] <= RingSize
    /\ \A b \in Blocks : CheckpointKeys[b] = {}
    /\ \A b \in Blocks \ Invalid : /\ Ins[b] \subseteq FC!Replay(Prev[b])
                                   /\ Outs[b] \cap FC!Replay(Prev[b]) = {}

\* The key of an output has the id of its block in it.
KeysNamed == \A b, c \in Blocks : Outs[b] \cap Outs[c] # {} => Id[b] = Id[c]

\* No reorganisation meets a block that does not validate: only the first block
\* wound from a chain that nothing was unwound for may be invalid.  Otherwise
\* the loop does not restore the chain (FailureRestoresChain).
NoBadReorganisation ==
    pc = "wind" /\ newChain[index] \in Invalid =>
        oldChain = << >> /\ index = Len(newChain)

\* last_block_hash, which peers and the miner are told, is the latest block of
\* the ring whenever no call of add_block is running.
LastBlockIsLatest == pc = "idle" => lastBlock = LatestHash(ring)


\* A block of the new chain does not validate, and is not the first to be wound.
LaterInvalid == \E i \in 1 .. Len(newChain) - 1 : newChain[i] \in Invalid

\* The loop of validate() ends, also where the first block of a fork is refused and
\* the indices of the old chain are taken into the new one, where a checkpoint stops
\* it, and on what an earlier failure left behind: a call of add_block returns, as
\* long as no later block of the new chain is invalid.
ReturnsUnlessLaterInvalid == (pc # "idle" /\ ~LaterInvalid) ~> (pc = "idle")

\* The comment of wind_chain on a block that does not validate: there is an "end of
\* the process of rewinding the old-chain".  A call of add_block always returns.
AddBlockReturns == (pc # "idle") ~> (pc = "idle")

\* The comment of wind_chain: when a block of the new chain does not validate,
\* the wound blocks are unwound and the unwound blocks are rewound, so that a
\* failing call leaves the longest chain as it was.
FailureRestoresChain ==
    [][pc = "refused" =>
          /\ LatestHash(ring') = before.tip
          /\ inLongestChain' = before.chain
          /\ utxoset' = before.utxoset]_pc

=============================================================================
