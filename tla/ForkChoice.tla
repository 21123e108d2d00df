----------------------------- MODULE ForkChoice -----------------------------
(***************************************************************************)
(* What Blockchain::add_block promises, in one step per accepted block: a  *)
(* block is learned after its parent; it becomes the tip exactly when its  *)
(* chain is longer than the one of the tip and has burned at least as      *)
(* much; and the utxoset is what the chain of the tip leaves.              *)
(***************************************************************************)
EXTENDS Integers

CONSTANTS Blocks, NoBlock, Id, Prev, BurnFee, Keys, Ins, Outs

VARIABLES
    known,    \* accepted blocks
    best,     \* tip of the longest chain
    spendable \* the utxoset

vars == <<known, best, spendable>>

\* The burn fees of a block and all its ancestors.
Work(b) ==
    LET work[x \in Blocks \cup {NoBlock}] ==
            IF x = NoBlock THEN 0 ELSE BurnFee[x] + work[Prev[x]]
    IN work[b]

\* The keys left after the transactions of a block and all its ancestors.
Replay(b) ==
    LET replay[x \in Blocks \cup {NoBlock}] ==
            IF x = NoBlock THEN {} ELSE (replay[Prev[x]] \ Ins[x]) \cup Outs[x]
    IN replay[b]

Better(b) ==
    \/ best = NoBlock
    \/ Id[b] > Id[best] /\ Work(b) >= Work(best)

Init ==
    /\ known = {}
    /\ best = NoBlock
    /\ spendable = {}

Learn(b) ==
    /\ b \notin known
    /\ Prev[b] = NoBlock \/ Prev[b] \in known
    /\ known' = known \cup {b}
    /\ best' = IF Better(b) THEN b ELSE best
    /\ spendable' = Replay(best')

Next == \E b \in Blocks : Learn(b)

Spec == Init /\ [][Next]_vars

=============================================================================
