------------------------------ MODULE Restart ------------------------------
(***************************************************************************)
(* A node that crashes and starts again.  Blockchain keeps its state in    *)
(* memory; what survives are the files write_block_to_disk has written,    *)
(* one per block, named after the block's timestamp and hash.  on_init of  *)
(* the consensus thread reads them back, adds them to the empty chain one  *)
(* by one and deletes the files it could not use.                          *)
(*                                                                         *)
(* write_value creates the file before it fills it, so a crash meanwhile   *)
(* leaves a file that is cut off, also when the file was whole before:     *)
(* add_block writes a block that was just read back again.                 *)
(***************************************************************************)
EXTENDS Blockchain

CONSTANTS
    FileName,   \* the rank of a block's file name: its timestamp, then its hash
    MaxCrashes  \* bound: number of crashes

ASSUME RestartAssumption ==
    /\ FileName \in [Blocks -> Nat]
    /\ \A b, c \in Blocks : FileName[b] = FileName[c] => b = c
    /\ \A b \in Blocks : Prev[b] # NoBlock => FileName[Prev[b]] < FileName[b]
    /\ MaxCrashes \in Nat
    /\ ~LoadingCompleted \* as saito-rust leaves it
    /\ \A b \in Blocks : CheckpointKeys[b] = {}

VARIABLES
    torn,     \* files that are cut off; a subset of disk
    node,     \* "running", "crashed" or, while on_init runs, "loading"
    listed,   \* files_to_delete: the files found when the node started
    loaded,   \* the blocks read back and not yet added
    crashes,  \* number of crashes so far
    lost      \* history: the tip before the crash, as far as its files are whole

restartVars == <<torn, node, listed, loaded, crashes, lost>>
allVars == <<vars, restartVars>>

InitRestart ==
    /\ Init
    /\ torn = {} /\ node = "running" /\ listed = {} /\ loaded = << >>
    /\ crashes = 0 /\ lost = NoBlock

-----------------------------------------------------------------------------
\* Bound: a block that arrives leaves the longest chain at a block that is still
\* stored.
Joins(b) ==
    LET branch == Walk(blocks \cup {b}, inLongestChain, b)
    IN empty \/ Prev[branch[Len(branch)]] \in inLongestChain

\* A peer sends a block.
Receive(b) ==
    /\ node = "running"
    /\ \/ AddExistingBlock(b)
       \/ b \notin blocks /\ Arrives(b) /\ Joins(b) /\ PlaceBlock(b)
    /\ UNCHANGED restartVars

\* A step of add_block; writing a block makes its file whole.
Proceed ==
    /\ node # "crashed"
    /\ Continue
    /\ torn' = IF pc = "added" THEN torn \ {tip} ELSE torn \cap disk'
    /\ UNCHANGED <<node, listed, loaded, crashes, lost>>

\* The last stored block of the chain of b such that its file and those of its
\* ancestors are read before any of the given files.
ReadableTip(b, stored, cut) ==
    LET whole == SelectSeq(Walk(stored, {}, b),
                           LAMBDA c : \A t \in cut : FileName[c] < FileName[t])
    IN IF whole = << >> THEN NoBlock ELSE whole[1]

\* Blocks the call of update_genesis_period in the next step of wind_chain deletes.
PurgedNext ==
    IF pc = "wind" /\ newChain[index] \notin Invalid /\ Advances(newChain[index])
    THEN PurgedBy(RingWind(ring, newChain[index])) ELSE {}

MemoryLost ==
    /\ blocks' = {} /\ inLongestChain' = {} /\ ring' = EmptyRing /\ empty' = TRUE
    /\ utxoset' = {} /\ lastBlock' = NoBlock /\ genesisBlockId' = 0
    /\ pruned' = {} /\ safeToPrune' = {}
    /\ checkpoints' = {} /\ checkpointFound' = FALSE
    /\ result' = "None"
    /\ Finished

\* The process ends, at any point of add_block or of on_init.  If it was
\* writing a block, that file may be cut off; if it was deleting blocks, some
\* of their files are gone.
Crash ==
    /\ node # "crashed"
    /\ crashes < MaxCrashes
    /\ \/ /\ \E gone \in SUBSET PurgedNext : disk' = disk \ gone
          /\ torn' = torn \cap disk'
       \/ /\ pc = "added"
          /\ disk' = disk \cup {tip}
          /\ torn' = torn \cup {tip}
    /\ LET had == IF node = "loading" THEN lost
                  ELSE IF pc = "idle" THEN LatestHash(ring) ELSE before.tip
       IN lost' = ReadableTip(had, disk', torn')
    /\ MemoryLost
    /\ node' = "crashed"
    /\ crashes' = crashes + 1
    /\ listed' = {} /\ loaded' = << >>

-----------------------------------------------------------------------------
(* on_init                                                                 *)

\* Faulty variant of FilesRead: the last file of the list is left out.
FilesReadButLast ==
    {b \in disk : /\ \A t \in torn : FileName[b] < FileName[t]
                  /\ \E c \in disk : FileName[b] < FileName[c]}

\* load_blocks_from_disk goes through the names in order and returns at the
\* first file that does not deserialize.
FilesRead == {b \in disk : \A t \in torn : FileName[b] < FileName[t]}

\* add_blocks_from_mempool sorts the queue by id and keeps the order of the
\* names among equal ids.
AddedBefore(b, c) ==
    Id[b] < Id[c] \/ (Id[b] = Id[c] /\ FileName[b] < FileName[c])

Start ==
    /\ node = "crashed"
    /\ node' = "loading"
    /\ listed' = disk
    /\ loaded' = [i \in 1 .. Cardinality(FilesRead) |->
                     CHOOSE b \in FilesRead :
                         Cardinality({c \in FilesRead : AddedBefore(c, b)}) = i - 1]
    /\ UNCHANGED <<vars, torn, crashes, lost>>

\* Without a checkpoint no block is refused because its parent is missing.
LoadBlock ==
    /\ node = "loading"
    /\ loaded # << >>
    /\ PlaceBlock(Head(loaded))
    /\ loaded' = Tail(loaded)
    /\ UNCHANGED <<torn, node, listed, crashes, lost>>

\* Faulty variant of Retained: only the longest chain is kept.
RetainedLongest == inLongestChain

\* The files of blocks in the chain that are not older than two genesis periods.
Retained ==
    {b \in blocks : Id[b] >= Monus(LatestId(ring), 2 * GenesisPeriod)}

EndLoading ==
    /\ node = "loading"
    /\ Idle
    /\ loaded = << >>
    /\ disk' = disk \ (listed \ Retained)
    /\ torn' = torn \cap disk'
    /\ node' = "running"
    /\ listed' = {}
    /\ lost' = NoBlock
    /\ UNCHANGED <<blocks, ring, empty, safeToPrune, ledgerVars, checkVars, pc, tip,
                   windVars, result, before, loaded, crashes>>

NextRestart ==
    \/ \E b \in Blocks : Receive(b)
    \/ Proceed
    \/ Crash
    \/ Start
    \/ LoadBlock
    \/ EndLoading

SpecRestart == InitRestart /\ [][NextRestart]_allVars

-----------------------------------------------------------------------------
\* Types: of the files, of what a start lists and loads, and of the crashes.
TypeOKRestart ==
    /\ TypeOK
    /\ torn \subseteq disk
    /\ node \in {"running", "crashed", "loading"}
    /\ listed \subseteq Blocks
    /\ loaded \in Seq(Blocks)
    /\ crashes \in 0 .. MaxCrashes
    /\ lost \in Blocks \cup {NoBlock}

\* Whenever no call of add_block runs, every stored block has a whole file: it
\* can be served to peers, and its transactions can be read back when they were
\* pruned and a reorganisation needs them.
BlocksReadable == pc = "idle" => blocks \subseteq disk \ torn

\* update_genesis_period keeps two genesis periods of blocks: nothing older is
\* left in memory, in the ring or on disk, a crash in the middle of a purge
\* included, and, unless a crash took blocks away, no block of the longest chain
\* inside the window is deleted with them.
WindowKept ==
    node = "running" /\ pc = "idle" =>
        /\ \A b \in blocks \cup disk : Id[b] + 2 * GenesisPeriod > LatestId(ring)
        /\ crashes = 0 =>
               \A b \in inLongestChain :
                   Prev[b] \in blocks \/ Prev[b] = NoBlock
                   \/ Id[b] + 2 * GenesisPeriod = LatestId(ring) + 1

ChainOnDisk(b) == Walk(disk, {}, b)

\* When the files are loaded, the node is on a chain that the one it had before
\* the crash would not replace by the rule of add_block: whatever was going on
\* when it crashed, and though the blocks now arrive in another order, neither a
\* fork nor a block that is refused makes it fall behind.  The chain counts as
\* far as its files are still there and are read before any file that is cut off.
RestartKeepsChain ==
    [][node = "loading" /\ node' = "running" /\ lost # NoBlock =>
          LET latest == LatestHash(ring)
          IN /\ latest # NoBlock
             /\ \/ Id[lost] <= Id[latest]
                \/ Len(ChainOnDisk(lost)) <= Len(ChainOnDisk(latest))
                \/ TotalBurnFee(ChainOnDisk(lost)) < TotalBurnFee(ChainOnDisk(latest))
      ]_allVars

=============================================================================
