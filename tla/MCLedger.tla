------------------------------ MODULE MCLedger ------------------------------
(* The instances of Ledger that TLC checks.                                *)
EXTENDS Ledger

MCPayments == {[fee |-> 4, hops |-> 2, gift |-> 1], [fee |-> 7, hops |-> 0, gift |-> 0]}
MCTickets == {<<5, 2>>}
Hoard == <<<<"holder", 200>>, <<"payer", 60>>>>
NoHoard == <<<<"holder", 4>>, <<"payer", 90>>>>
=============================================================================
