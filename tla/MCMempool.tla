------------------------------ MODULE MCMempool ------------------------------
(* Two transactions that compete for the key k1; one of them also spends k2. *)
EXTENDS Mempool

MCIns == [t \in Txs |-> IF t = "t1" THEN {"k1"} ELSE {"k1", "k2"}]
MCAmount == [k \in Keys |-> IF k = "k1" THEN 2 ELSE 1]
MCWork == [t \in Txs |-> IF t = "t1" THEN 2 ELSE 1]
MCExpiry == [k \in Keys |-> IF k = "k1" THEN 3 ELSE 9]
=============================================================================
