---------------------------- MODULE MCBlockchain ----------------------------
(* Block trees on which TLC checks Blockchain.                             *)
EXTENDS Blockchain

\* A block is named after its branch and its id: <<"a", 3>>.
IdTable == [b \in Blocks |-> b[2]]
FeeOne == [b \in Blocks |-> 1]
NoKeys == [b \in Blocks |-> {}]

(* Forks: two long branches, a late fork, and a block that does not        *)
(* validate next to the second block.                                      *)
ForkBlocks == {<<"a", 1>>, <<"a", 2>>, <<"a", 3>>, <<"a", 4>>,
               <<"b", 2>>, <<"b", 3>>, <<"b", 4>>, <<"b", 5>>,
               <<"c", 4>>, <<"x", 2>>}
ForkInvalid == {<<"x", 2>>}
Root == {<<"a", 1>>}
None == <<"none", 0>>

\* The parent is the block of the same branch one id lower, or where the
\* branch leaves the trunk.
ParentIn(tree, b) ==
    LET same == <<b[1], b[2] - 1>>
        trunk == <<"a", b[2] - 1>>
    IN IF same \in tree THEN same ELSE IF trunk \in tree THEN trunk ELSE None

ForkPrev == [b \in Blocks |-> ParentIn(Blocks, b)]
ForkIns == [b \in Blocks |->
               (IF b = <<"b", 2>> THEN {} ELSE {ForkPrev[b]} \cap Blocks) \cup
               (IF b \in {<<"a", 3>>, <<"b", 4>>} THEN {<<"t", 2>>} ELSE {})]
ForkOuts == [b \in Blocks |-> {b, <<"t", b[2]>>}]
ForkKeys == UNION {ForkIns[b] \cup ForkOuts[b] : b \in Blocks}
\* The branch b is longer and poorer at id 4, and draws level at id 5.
ForkFee == [b \in Blocks |-> CASE b = <<"a", 3>> -> 3 [] b = <<"b", 5>> -> 2 [] OTHER -> 1]

\* The theorems about plain trees of blocks apply to this one.
ASSUME ForksArePlain == Blocks = ForkBlocks => PlainTree /\ KeysNamed

(* Branches above and below blocks with a checkpoint file; one of them     *)
(* starts with a block that does not validate, one ends with one.          *)
CheckpointBlocks == {<<"a", 1>>, <<"a", 2>>, <<"a", 3>>, <<"b", 2>>, <<"b", 3>>,
                     <<"b", 4>>, <<"c", 3>>, <<"c", 4>>}
CheckpointInvalid == {<<"c", 3>>, <<"b", 4>>}
CheckpointFiles == [b \in Blocks |-> IF b = <<"a", 2>> THEN {<<"t", 2>>}
                                     ELSE IF b = <<"b", 3>> THEN {<<"t", 1>>} ELSE {}]

(* A fork whose second block does not validate.                            *)
BadForkBlocks == {<<"a", 1>>, <<"a", 2>>, <<"b", 2>>, <<"b", 3>>}
BadTip == {<<"b", 3>>}
BadFork == {<<"b", 2>>}

(* Forks whose first, second or last block does not validate, against old  *)
(* chains of one block and of more, and a fork where all of them do.       *)
FailureBlocks == {<<"a", 1>>, <<"a", 2>>, <<"a", 3>>,
                  <<"b", 2>>, <<"b", 3>>, <<"b", 4>>, <<"b", 5>>,
                  <<"c", 2>>, <<"c", 3>>, <<"c", 4>>,
                  <<"d", 3>>, <<"d", 4>>}
FailureInvalid == {<<"b", 2>>, <<"c", 3>>, <<"b", 5>>}

(* A longer but poorer branch, and next to its tip a block on the chain    *)
(* that does not validate.                                                 *)
RefusedBlocks == {<<"a", 1>>, <<"a", 2>>, <<"b", 2>>, <<"b", 3>>, <<"c", 3>>}
RefusedTip == {<<"c", 3>>}
RefusedFee == [b \in Blocks |-> IF b = <<"a", 2>> THEN 3 ELSE 1]

=============================================================================
