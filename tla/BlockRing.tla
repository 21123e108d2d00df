----------------------------- MODULE BlockRing -----------------------------
(***************************************************************************)
(* BlockRing and RingItem: the circular index from block ids to the hashes *)
(* stored at that id and to the one of them in the longest chain.          *)
(*                                                                         *)
(* A ring is [items, lcPos]: an item is [hashes, lcPos], lcPos counts from *)
(* one and 0 stands for None.  The ids stored next to the hashes are those *)
(* of the blocks, Id.                                                      *)
(***************************************************************************)
EXTENDS Integers, Sequences, SequencesExt

CONSTANTS
    Blocks,        \* block hashes
    NoBlock,       \* the all-zero hash
    Id,            \* the block id of a hash
    GenesisPeriod  \* genesis_period of the consensus configuration

ASSUME RingAssumption ==
    /\ NoBlock \notin Blocks
    /\ Id \in [Blocks -> Nat \ {0}]
    /\ GenesisPeriod \in Nat \ {0}

RingSize == 2 * GenesisPeriod
Slots == 0 .. RingSize - 1
NoSlot == -1

SlotOf(id) == id % RingSize

EmptyRing == [items |-> [s \in Slots |-> [hashes |-> << >>, lcPos |-> 0]],
              lcPos |-> NoSlot]

IsRing(r) ==
    r \in [items : [Slots -> [hashes : Seq(Blocks), lcPos : Nat]],
          lcPos : Slots \cup {NoSlot}]

Stored(r, s) == {r.items[s].hashes[i] : i \in 1 .. Len(r.items[s].hashes)}

RingAdd(r, b) ==
    LET s == SlotOf(Id[b])
    IN IF b \in Stored(r, s) THEN r
       ELSE [r EXCEPT !.items[s].hashes = Append(@, b)]

\* get_latest_block_hash and get_latest_block_id index the list of the item:
\* a position past its end is a panic.
LatestPanics(r) ==
    /\ r.lcPos # NoSlot
    /\ r.items[r.lcPos].lcPos > Len(r.items[r.lcPos].hashes)

LatestHash(r) ==
    IF r.lcPos = NoSlot \/ LatestPanics(r) THEN NoBlock
    ELSE LET item == r.items[r.lcPos]
         IN IF item.lcPos = 0 THEN NoBlock ELSE item.hashes[item.lcPos]

LatestId(r) == LET b == LatestHash(r) IN IF b = NoBlock THEN 0 ELSE Id[b]

\* get_longest_chain_block_hash_at_block_id
LongestAt(r, id) ==
    LET item == r.items[SlotOf(id)]
    IN IF item.lcPos \in 1 .. Len(item.hashes) /\ Id[item.hashes[item.lcPos]] = id
       THEN item.hashes[item.lcPos] ELSE NoBlock

\* get_block_hashes_at_block_id
HashesAt(r, id) == {b \in Stored(r, SlotOf(id)) : Id[b] = id}

\* get_block_hash_by_block_id: the first one stored, in the longest chain or not.
FirstAt(r, id) ==
    LET at == SelectSeq(r.items[SlotOf(id)].hashes, LAMBDA b : Id[b] = id)
    IN IF at = << >> THEN NoBlock ELSE Head(at)

\* RingItem::delete_block for every hash of gone: the position follows its
\* block, and is the first one when there is no such block any more.
DeletedItem(item, gone) ==
    LET left == FoldLeft(LAMBDA kept, b : IF b \in gone THEN kept ELSE Append(kept, b),
                         << >>, item.hashes)
        lc == IF item.lcPos \in 1 .. Len(item.hashes)
              THEN item.hashes[item.lcPos] ELSE NoBlock
    IN [hashes |-> left,
        lcPos |-> IF Contains(left, lc) THEN SelectInSeq(left, LAMBDA b : b = lc)
                  ELSE 1]

RingDelete(r, id, gone) ==
    IF gone = {} THEN r
    ELSE [r EXCEPT !.items[SlotOf(id)] = DeletedItem(@, gone)]

\* The slot before the one of block id, if its longest chain block is id - 1.
RolledBack(items, id) ==
    LET p == SlotOf(id - 1)
        item == items[p]
    IN IF item.lcPos \in 1 .. Len(item.hashes) /\ Id[item.hashes[item.lcPos]] = id - 1
       THEN p ELSE NoSlot

\* Faulty variant of RingWind: the last hash stored at the id.
RingWindLast(r, b) ==
    LET s == SlotOf(Id[b])
    IN [items |-> [r.items EXCEPT ![s].lcPos = Len(r.items[s].hashes)], lcPos |-> s]

\* on_chain_reorganization(id, hash, true)
RingWind(r, b) ==
    LET s == SlotOf(Id[b])
    IN [items |-> [r.items EXCEPT
            ![s].lcPos = SelectInSeq(r.items[s].hashes, LAMBDA h : h = b)],
        lcPos |-> s]

\* on_chain_reorganization(id, hash, false)
RingUnwind(r, b) ==
    LET s == SlotOf(Id[b])
        items == [r.items EXCEPT ![s].lcPos = 0]
    IN [items |-> items,
        lcPos |-> IF r.lcPos = s THEN RolledBack(items, Id[b]) ELSE r.lcPos]

=============================================================================
