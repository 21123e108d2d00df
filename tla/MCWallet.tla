------------------------------ MODULE MCWallet ------------------------------
(* Wallet with two slips, one of which is enough for a stake. *)
EXTENDS Wallet

MCIssued == <<2, 3>>
MCPayments == {<<1, 0>>, <<2, 1>>}
MCDeposits == {1, 3}
MCReceipts == {2}
=============================================================================
