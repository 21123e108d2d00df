---------------------------- MODULE Transactions ----------------------------
(***************************************************************************)
(* Slips and transactions: what a transaction takes from and puts into the *)
(* utxoset, the fee it leaves, the routing work it carries and who wins    *)
(* the payout for routing it.                                              *)
(*                                                                         *)
(* A slip is its utxoset key: two slips are one entry of the utxoset       *)
(* exactly when owner, block id, ordinal of the transaction, index, amount *)
(* and type agree.  The utxoset is the set of spendable keys; the routing  *)
(* path is its length, for the hops of a verified transaction are linked.  *)
(***************************************************************************)
EXTENDS Integers, Sequences, FiniteSets, SequencesExt

Slip(owner, id, ord, idx, amount, type) ==
    [owner |-> owner, id |-> id, ord |-> ord, idx |-> idx,
     amount |-> amount, type |-> type]

\* A slip that is not in a block yet.
NewSlip(owner, amount, type) == Slip(owner, 0, 0, 0, amount, type)

\* What find_winning_router needs of a transaction, and a rebroadcast keeps of
\* the original in its data: is there a sender, and how long is the path?
Tx(type, ins, outs, hops) ==
    [type |-> type, ins |-> ins, outs |-> outs, hops |-> hops,
     orig |-> [sent |-> ins # << >>, hops |-> hops]]

SumSeq(s) == FoldLeft(LAMBDA sum, x : sum + x, 0, s)
SumOf(s, Of(_)) == SumSeq([i \in 1 .. Len(s) |-> Of(s[i])])

\* Bound slips carry no value.
Value(slip) == IF slip.type = "Bound" THEN 0 ELSE slip.amount
TotalIn(tx) == SumOf(tx.ins, Value)
TotalOut(tx) == SumOf(tx.outs, Value)

\* generate_total_fees
TotalFees(tx) ==
    LET in == TotalIn(tx)
        out == TotalOut(tx)
    IN IF in > out THEN in - out ELSE 0

\* generate_total_fees also tells every output where it is.
Placed(tx, ord, id) ==
    [tx EXCEPT !.outs = [k \in 1 .. Len(@) |->
        [@[k] EXCEPT !.id = id, !.ord = ord, !.idx = k - 1]]]

\* The transactions of block id, each told its place.
AllPlaced(txs, id) == [i \in 1 .. Len(txs) |-> Placed(txs[i], i - 1, id)]

\* generate_total_work: the whole fee at the first hop, half of the rest at
\* each further one.
TotalWork(tx) ==
    IF tx.hops = 0 THEN 0
    ELSE FoldLeft(LAMBDA work, hop : work - work \div 2, TotalFees(tx),
                  [h \in 1 .. tx.hops - 1 |-> h])

\* What two transactions have in common when their hashes for signature agree:
\* the places of the slips are not hashed.
Signed(tx) ==
    LET content(slips) == [k \in 1 .. Len(slips) |->
            <<slips[k].owner, slips[k].amount, slips[k].idx, slips[k].type>>]
    IN <<tx.type, content(tx.ins), content(tx.outs), tx.orig>>

-----------------------------------------------------------------------------
(* The utxoset.                                                            *)

\* Slip::validate: a slip without value passes.
SlipValid(slip, utxo) == slip.amount > 0 => slip \in utxo

Valued(slips) == {slip \in {slips[k] : k \in 1 .. Len(slips)} : slip.amount > 0}
InsOf(txs) == UNION {Valued(txs[i].ins) : i \in 1 .. Len(txs)}
OutsOf(txs) == UNION {Valued(txs[i].outs) : i \in 1 .. Len(txs)}

\* Transaction::on_chain_reorganization(true), transaction after transaction.
WindTxs(utxo, txs) ==
    FoldLeft(LAMBDA u, tx : (u \ Valued(tx.ins)) \cup Valued(tx.outs), utxo, txs)

\* Faulty variant of UnwindTxs: the inputs are not given back.
UnwindTxsOutputsOnly(utxo, txs) == utxo \ OutsOf(txs)

\* Transaction::on_chain_reorganization(false).
UnwindTxs(utxo, txs) ==
    FoldLeft(LAMBDA u, tx : (u \cup Valued(tx.ins)) \ Valued(tx.outs), utxo, txs)

\* Transaction::delete
DeleteTxs(utxo, txs) == utxo \ (InsOf(txs) \cup OutsOf(txs))

\* A slip with value that two inputs of the block spend.
DoubleSpend(txs) ==
    LET spent == FoldLeft(LAMBDA s, tx :
                     IF tx.type = "Fee" THEN s
                     ELSE s \o SelectSeq(tx.ins, LAMBDA slip : slip.amount > 0),
                     << >>, txs)
    IN Len(spent) # Cardinality({spent[k] : k \in 1 .. Len(spent)})
=============================================================================
