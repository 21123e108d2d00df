----------------------------- MODULE MCRestart -----------------------------
(* A block tree on which TLC checks Restart: a chain that outgrows the ring *)
(* with forks on both sides of the purge, one of them poorer and one of     *)
(* them richer in burn fees, and a block that does not validate.            *)
EXTENDS Restart

None == <<"none", 0>>
Root == {<<"a", 1>>}
IdTable == [b \in Blocks |-> b[2]]
NoKeys == [b \in Blocks |-> {}]

LongBlocks == {<<"a", i>> : i \in 1 .. 7} \cup
              {<<"b", 2>>, <<"b", 3>>, <<"b", 5>>, <<"b", 6>>, <<"b", 7>>, <<"x", 6>>}
LongTickets == {<<"a", 1>>, <<"a", 2>>, <<"b", 7>>}
LongFee == [b \in Blocks |-> CASE b = <<"b", 3>> -> 0 [] b = <<"b", 6>> -> 3 [] OTHER -> 1]
LongInvalid == {<<"x", 6>>}

ParentIn(tree, b) ==
    LET same == <<b[1], b[2] - 1>>
        trunk == <<"a", b[2] - 1>>
    IN IF same \in tree THEN same ELSE IF trunk \in tree THEN trunk ELSE None

LongPrev == [b \in Blocks |-> ParentIn(Blocks, b)]
LongIns == [b \in Blocks |-> {LongPrev[b]} \cap Blocks]
LongOuts == [b \in Blocks |-> {b, <<"t", b[2]>>}]
LongKeys == UNION {LongIns[b] \cup LongOuts[b] : b \in Blocks}

\* The forks were produced before the blocks of the trunk at their ids.
LongNames == [b \in Blocks |-> 3 * b[2] + (CASE b[1] = "b" -> 0 [] b[1] = "x" -> 1
                                             [] OTHER -> 2)]

=============================================================================
