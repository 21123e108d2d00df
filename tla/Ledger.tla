------------------------------- MODULE Ledger -------------------------------
(***************************************************************************)
(* The money of the chain: Block::create, generate_consensus_values,       *)
(* Block::validate and the check of the total supply, on a chain that      *)
(* grows by one block or loses its last one.                               *)
(*                                                                         *)
(* Fees of a block are paid out by the next golden tickets, to a miner, a  *)
(* router, the treasury or the graveyard.  Slips about to leave the        *)
(* genesis period are rebroadcast for a fee, or collected when they are    *)
(* worth less than the fee.  The node panics when the sum of all of it     *)
(* changes: a block of a peer may do that, for validate accepts one        *)
(* without its fee transaction, and one with a payment that does not       *)
(* validate.                                                               *)
(*                                                                         *)
(* No staking (social_stake_requirement = 0) and no bound slips: the       *)
(* Wallet module has both.  Amounts do not overflow.                       *)
(***************************************************************************)
EXTENDS Transactions

CONSTANTS
    GenesisPeriod,    \* genesis_period
    Heartbeat,        \* heartbeat_interval
    DefaultBurnFee,   \* the burn fee after a block without one
    NeverWork,        \* work needed when the clock runs backwards
    TxSize,           \* bytes of a transaction
    Issuance,         \* amounts of the issuance transactions, by owner
    Payments,         \* bound: payments users make (fee, hops, gift)
    Tickets,          \* bound: random numbers of golden tickets
    Elapsed,          \* bound: times between two blocks
    Misreports,       \* bound: amounts a received block may misstate
    MaxId             \* bound: the highest block

ASSUME LedgerAssumption ==
    /\ GenesisPeriod \in Nat \ {0}
    /\ Heartbeat \in Nat \ {0}
    /\ DefaultBurnFee \in Nat
    /\ NeverWork \in Nat
    /\ TxSize \in Nat \ {0}
    /\ Issuance \in Seq(STRING \X Nat)
    /\ Payments \subseteq [fee : Nat, hops : Nat, gift : Nat]
    /\ Elapsed \subseteq Nat
    /\ Tickets \subseteq Nat \X Nat

VARIABLES
    chain,    \* the longest chain, block i at i
    utxoset,  \* spendable slips
    refused,  \* history: has the node refused a block of its own?
    unsound   \* history: has a block joined without its fee transaction, or
              \* with a payment that does not validate?

vars == <<chain, utxoset, refused, unsound>>

-----------------------------------------------------------------------------
(* Arithmetic of the code.                                                 *)

\* Integer division of i128, which rounds towards zero.
Quotient(a, b) == IF a >= 0 THEN a \div b ELSE -((-a) \div b)

\* How every average moves towards the value of the block.
Smoothed(avg, x) == avg - Quotient(avg - x, GenesisPeriod)

OneAndHalf(x) == (3 * x) \div 2
FivePercent(x) == x \div 20
Least(a, b) == IF a < b THEN a ELSE b

\* return_routing_work_needed_to_produce_block_in_nolan: rounded, none after
\* two heartbeats.
WorkNeeded(burnfee, elapsed) ==
    IF elapsed <= 0 THEN NeverWork
    ELSE IF elapsed >= 2 * Heartbeat THEN 0
    ELSE (2 * burnfee + elapsed) \div (2 * elapsed)

\* calculate_burnfee_for_block: burnfee * sqrt(heartbeat / elapsed), rounded.
BurnFeeAfter(burnfee, elapsed) ==
    IF elapsed <= 0 THEN NeverWork
    ELSE IF burnfee = 0 THEN DefaultBurnFee
    ELSE CHOOSE r \in 0 .. burnfee * Heartbeat :
            /\ r > 0 => (2 * r - 1) * (2 * r - 1) * elapsed <= 4 * burnfee * burnfee * Heartbeat
            /\ 4 * burnfee * burnfee * Heartbeat < (2 * r + 1) * (2 * r + 1) * elapsed

-----------------------------------------------------------------------------
(* Blocks: [txs, ticket, elapsed, header].  NoTicket stands for a block    *)
(* without a golden ticket; a ticket is the pair of numbers its random     *)
(* hash gives the two router lotteries.                                    *)

NoTicket == << >>
HasTicket(block) == block.ticket # NoTicket

\* get_winning_routing_node: does routing the transaction have a winner?  The
\* original of a rebroadcast is read back without its fees, so that a routed
\* one has none.
HasRoutingNode(tx) ==
    IF tx.orig.hops = 0 THEN tx.orig.sent
    ELSE tx.type # "ATR" /\ TotalFees(tx) # 0

\* find_winning_router: is there a winner of the lottery over the fees of the
\* block?  Otherwise the payout is burned.
HasRouter(block, random) ==
    LET fees == block.header.total_fees
        winning == IF random % fees > 1 THEN random % fees ELSE 1
        cumulative == [i \in 1 .. Len(block.txs) |->
                         SumOf(SubSeq(block.txs, 1, i), TotalFees)]
        found == {i \in 1 .. Len(block.txs) : cumulative[i] >= winning}
        first == CHOOSE i \in found : \A j \in found : i <= j
    IN fees # 0 /\ found # {} /\ HasRoutingNode(block.txs[first])

-----------------------------------------------------------------------------
(* Automatic transaction rebroadcast.                                      *)

\* Outputs of the transactions that are still spendable, each with its
\* transaction.
Eligible(txs, utxo) ==
    FoldLeft(LAMBDA s, tx :
                 FoldLeft(LAMBDA t, o : IF SlipValid(o, utxo)
                                        THEN Append(t, [slip |-> o, tx |-> tx]) ELSE t,
                          s, tx.outs),
             << >>, txs)

\* create_rebroadcast_transaction
RebroadcastTx(tx, from, to) ==
    Placed([type |-> "ATR", ins |-> <<from>>, outs |-> <<to>>, hops |-> 0,
            orig |-> tx.orig], 0, 0)

NothingRebroadcast ==
    [txs |-> << >>, nolan |-> 0, fees |-> 0, dust |-> 0, payout |-> 0]

\* Faulty variant of Rebroadcast: a slip not worth its fee is dropped.
RebroadcastOrDrop(e, multiplier, fee, atr) ==
    LET worth == e.slip.amount * multiplier
    IN IF worth <= fee THEN atr
       ELSE [atr EXCEPT
               !.txs = Append(@, RebroadcastTx(e.tx, [e.slip EXCEPT !.amount = worth],
                                   [e.slip EXCEPT !.amount = worth - fee, !.type = "ATR"])),
               !.nolan = @ + e.slip.amount,
               !.fees = @ + fee]

\* One eligible slip: rebroadcast with its share of the treasury and less the
\* fee, or collected when that leaves nothing.
Rebroadcast(e, multiplier, fee, atr) ==
    LET worth == e.slip.amount * multiplier
        from == [e.slip EXCEPT !.amount = worth]
        to == [e.slip EXCEPT !.amount = worth - fee, !.type = "ATR"]
    IN IF worth > fee
       THEN [atr EXCEPT !.txs = Append(@, RebroadcastTx(e.tx, from, to)),
                        !.nolan = @ + e.slip.amount,
                        !.fees = @ + fee,
                        !.payout = @ + worth - e.slip.amount]
       ELSE [atr EXCEPT !.nolan = @ + e.slip.amount,
                        !.fees = @ + e.slip.amount,
                        !.dust = @ + e.slip.amount]

\* What the block after chain c rebroadcasts, before the payout is capped.
Uncapped(c, utxo) ==
    LET prev == c[Len(c)].header
        staked == GenesisPeriod * prev.avg_nolan_rebroadcast_per_block
        multiplier == 1 + (IF staked > 0 THEN prev.treasury \div staked ELSE 0)
        fee == TxSize * prev.avg_fee_per_byte
    IN IF Len(c) <= GenesisPeriod THEN NothingRebroadcast
       ELSE FoldLeft(LAMBDA atr, e : Rebroadcast(e, multiplier, fee, atr),
                     NothingRebroadcast,
                     Eligible(c[Len(c) - GenesisPeriod].txs, utxo))

\* The cap on the payout: five percent of the treasury the header names.  The
\* outputs then carry the (already multiplied) inputs and no fee is taken.
Capped(atr, treasury) ==
    LET most == FivePercent(treasury)
        multiplier == 1 + most \div atr.nolan
        recast(tx) == [tx EXCEPT !.outs[1].amount = tx.ins[1].amount * multiplier]
    IN IF atr.payout <= most THEN atr
       ELSE [atr EXCEPT
               !.txs = [i \in 1 .. Len(@) |-> recast(@[i])],
               !.payout = SumOf(atr.txs, LAMBDA tx : tx.ins[1].amount * (multiplier - 1)),
               !.fees = 0]

-----------------------------------------------------------------------------
(* Payouts.                                                                *)

NoPayouts == [miner |-> 0, router1 |-> 0, router2 |-> 0, treasury |-> 0, graveyard |-> 0]

\* The halves a golden ticket pays, each capped: fees are those of the previous
\* block, feesBefore those of the one before when they are still unpaid.
CappedPayouts(fees, feesBefore, cap) ==
    LET miner == fees \div 2
        router == fees - miner
        treasury == feesBefore \div 2
        router2 == feesBefore - treasury
        over(x) == x - Least(x, cap)
    IN [miner |-> Least(miner, cap),
        router1 |-> Least(router, cap),
        router2 |-> Least(router2, cap),
        treasury |-> Least(treasury, cap),
        graveyard |-> over(miner) + over(router) + over(treasury) + over(router2)]

\* Faulty variant of Payouts: the block before is paid although its own golden
\* ticket paid it.
PayoutsTwice(c, ticket) ==
    IF ticket = NoTicket THEN NoPayouts
    ELSE CappedPayouts(c[Len(c)].header.total_fees,
                       IF Len(c) > 1 THEN c[Len(c) - 1].header.total_fees ELSE 0,
                       OneAndHalf(c[Len(c)].header.avg_total_fees))

\* The payouts of the block after chain c, before the burning of payouts
\* without a router.
Payouts(c, ticket) ==
    LET prev == c[Len(c)]
        unpaidBefore == ~HasTicket(prev) /\ Len(c) > 1
    IN IF ticket = NoTicket
       THEN [NoPayouts EXCEPT !.graveyard =
               IF unpaidBefore THEN prev.header.previous_block_unpaid ELSE 0]
       ELSE CappedPayouts(prev.header.total_fees,
                          IF unpaidBefore THEN c[Len(c) - 1].header.total_fees ELSE 0,
                          OneAndHalf(prev.header.avg_total_fees))

\* The payouts that reach somebody: a router's payout without a winner goes to
\* the graveyard.
Settled(pay, won1, won2) ==
    LET lost1 == IF won1 THEN 0 ELSE pay.router1
        lost2 == IF won2 THEN 0 ELSE pay.router2
    IN [pay EXCEPT !.router1 = @ - lost1,
                   !.router2 = @ - lost2,
                   !.graveyard = @ + lost1 + lost2]

SettledAfter(c, ticket) ==
    IF ticket = NoTicket THEN Payouts(c, ticket)
    ELSE Settled(Payouts(c, ticket),
                 HasRouter(c[Len(c)], ticket[1]),
                 Len(c) > 1 /\ HasRouter(c[Len(c) - 1], ticket[2]))

\* The fee transaction; a payout of nothing has no slip.
FeeTx(paid) ==
    LET slip(amount, type) ==
            IF amount > 0 THEN <<NewSlip("winner", amount, type)>> ELSE << >>
    IN Placed(Tx("Fee", << >>,
                 slip(paid.miner, "MinerOutput")
                     \o slip(paid.router1, "RouterOutput")
                     \o slip(paid.router2, "RouterOutput"), 0), 0, 0)

-----------------------------------------------------------------------------
(* Consensus values.                                                       *)

IsNew(tx) == tx.type \in {"Normal", "GoldenTicket"}
Count(txs, type) == Len(SelectSeq(txs, LAMBDA tx : tx.type = type))

\* Difficulty goes up on two golden tickets in a row, down on two blocks
\* without one.
NextDifficulty(prev, ticket) ==
    LET d == prev.header.difficulty
    IN IF HasTicket(prev) THEN (IF ticket # NoTicket THEN d + 1 ELSE d)
       ELSE IF ticket = NoTicket /\ d > 0 THEN d - 1 ELSE d

ZeroHeader ==
    [total_fees |-> 0, total_fees_new |-> 0, total_fees_atr |-> 0,
     total_fees_cumulative |-> 0, avg_total_fees |-> 0, avg_total_fees_new |-> 0,
     avg_total_fees_atr |-> 0, total_payout_routing |-> 0, total_payout_mining |-> 0,
     total_payout_treasury |-> 0, total_payout_graveyard |-> 0, total_payout_atr |-> 0,
     avg_payout_routing |-> 0, avg_payout_mining |-> 0, avg_payout_treasury |-> 0,
     avg_payout_graveyard |-> 0, avg_payout_atr |-> 0, avg_fee_per_byte |-> 0,
     fee_per_byte |-> 0, avg_nolan_rebroadcast_per_block |-> 0,
     burnfee |-> 0, difficulty |-> 0,
     previous_block_unpaid |-> 0, treasury |-> 0, graveyard |-> 0]

\* Fees and bytes of the transactions that pay a fee to be in the block.
NewFees(txs) ==
    LET fees == SumOf(txs, LAMBDA tx : IF IsNew(tx) THEN TotalFees(tx) ELSE 0)
        new == Cardinality({i \in DOMAIN txs : IsNew(txs[i])})
    IN [fees |-> fees,
        perByte |-> IF new = 0 THEN 0 ELSE fees \div (new * TxSize)]

\* Burn fee and difficulty from the previous block.
WithTargets(header, prev, ticket, elapsed) ==
    LET burnfee == BurnFeeAfter(prev.header.burnfee, elapsed)
    IN [header EXCEPT !.burnfee = IF burnfee = 0 THEN 1 ELSE burnfee,
                      !.difficulty = NextDifficulty(prev, ticket)]

\* The fees of the block and their averages.  Cumulative fees leave out what
\* was collected from slips that are not rebroadcast.
WithFees(header, prev, new, uncapped, atr) ==
    [header EXCEPT
        !.total_fees = new.fees + atr.fees,
        !.total_fees_new = new.fees,
        !.total_fees_atr = atr.fees,
        !.total_fees_cumulative = new.fees + uncapped.fees - uncapped.dust,
        !.fee_per_byte = new.perByte,
        !.avg_fee_per_byte = Smoothed(prev.avg_fee_per_byte, new.perByte),
        !.avg_total_fees = Smoothed(prev.avg_total_fees, new.fees + atr.fees),
        !.avg_total_fees_new = Smoothed(prev.avg_total_fees_new, new.fees),
        !.avg_total_fees_atr = Smoothed(prev.avg_total_fees_atr, atr.fees),
        !.avg_nolan_rebroadcast_per_block =
            Smoothed(prev.avg_nolan_rebroadcast_per_block, atr.nolan)]

\* The payouts of the block and their averages.  The averages of the payouts to
\* treasury, graveyard and rebroadcasts forget the past.
WithPayouts(header, prev, pay, paid, atr) ==
    [header EXCEPT
        !.total_payout_routing = pay.router1 + pay.router2,
        !.total_payout_mining = pay.miner,
        !.total_payout_treasury = pay.treasury,
        !.total_payout_graveyard = paid.graveyard,
        !.total_payout_atr = atr.payout,
        !.avg_payout_routing = Smoothed(prev.avg_payout_routing, pay.router1 + pay.router2),
        !.avg_payout_mining = Smoothed(prev.avg_payout_mining, pay.miner),
        !.avg_payout_treasury = Smoothed(0, pay.treasury),
        !.avg_payout_graveyard = Smoothed(0, paid.graveyard),
        !.avg_payout_atr = Smoothed(0, atr.payout)]

HashesOf(txs) == [i \in 1 .. Len(txs) |-> Signed(txs[i])]

\* The consensus values, given what is rebroadcast before and after the cap and
\* what is paid: the header they expect (create and validate add
\* previous_block_unpaid, treasury and graveyard), the rebroadcasts, their hash,
\* taken before the cap, and the fee transaction.
ValuesGiven(c, txs, ticket, elapsed, uncapped, atr, paid) ==
    LET prev == c[Len(c)]
        fees == WithFees(WithTargets(ZeroHeader, prev, ticket, elapsed),
                         prev.header, NewFees(txs), uncapped, atr)
    IN [expected |-> WithPayouts(fees, prev.header, Payouts(c, ticket), paid, atr),
        rebroadcasts |-> atr.txs,
        rebroadcastHash |-> HashesOf(uncapped.txs),
        fee |-> IF ticket = NoTicket THEN << >> ELSE <<FeeTx(paid)>>]

\* generate_consensus_values on a block with these transactions.  The treasury is
\* the one the header of the block names so far.
ConsensusValues(c, utxo, txs, ticket, elapsed, treasury) ==
    LET given(uncapped) == ValuesGiven(c, txs, ticket, elapsed, uncapped,
                               Capped(uncapped, treasury), SettledAfter(c, ticket))
    IN given(Uncapped(c, utxo))

-----------------------------------------------------------------------------
(* Block::create                                                           *)

TicketTx == Tx("GoldenTicket", <<NewSlip("miner", 0, "Normal")>>,
               <<NewSlip("miner", 0, "Normal")>>, 0)

\* previous_block_unpaid
Unpaid(c, ticket) ==
    IF ticket # NoTicket THEN 0 ELSE c[Len(c)].header.total_fees

\* The golden ticket comes first, then the transactions of the mempool.
OwnTxs(payments, ticket) ==
    (IF ticket = NoTicket THEN << >> ELSE <<TicketTx>>) \o payments

\* Faulty variant of CreatedHeader: the graveyard is the one of the previous
\* block.
CreatedHeaderSameGraveyard(c, ticket, expected) ==
    LET prev == c[Len(c)].header
    IN [expected EXCEPT
          !.previous_block_unpaid = Unpaid(c, ticket),
          !.treasury = prev.treasury + expected.total_payout_treasury
                           - expected.total_payout_atr,
          !.graveyard = prev.graveyard]

\* The header takes the consensus values; the money follows from the previous
\* block.
CreatedHeader(c, ticket, expected) ==
    LET prev == c[Len(c)].header
    IN [expected EXCEPT
          !.previous_block_unpaid = Unpaid(c, ticket),
          !.treasury = prev.treasury + expected.total_payout_treasury
                           - expected.total_payout_atr,
          !.graveyard = prev.graveyard + expected.total_payout_graveyard]

\* The block the node makes of a ticket and the transactions of its mempool.
Created(c, utxo, payments, ticket, elapsed) ==
    LET own == OwnTxs(payments, ticket)
        filled(cv) == [txs |-> AllPlaced(own \o cv.rebroadcasts \o cv.fee, Len(c) + 1),
                       ticket |-> ticket,
                       elapsed |-> elapsed,
                       header |-> CreatedHeader(c, ticket, cv.expected)]
    IN filled(ConsensusValues(c, utxo, own, ticket, elapsed, 0))

-----------------------------------------------------------------------------
(* Block::validate                                                         *)

\* The header agrees with the consensus values: the fees and their averages,
FeesValid(header, cv) ==
    \A f \in {"total_fees", "total_fees_new", "total_fees_atr", "total_fees_cumulative",
              "avg_total_fees", "avg_total_fees_new", "avg_total_fees_atr"} :
        header[f] = cv.expected[f]

\* the payouts and their averages,
PayoutsValid(header, cv) ==
    \A f \in {"total_payout_routing", "total_payout_mining", "total_payout_treasury",
              "total_payout_graveyard", "total_payout_atr", "avg_payout_routing",
              "avg_payout_mining", "avg_payout_treasury", "avg_payout_graveyard",
              "avg_payout_atr"} :
        header[f] = cv.expected[f]

\* and the rates and targets.
RatesValid(header, cv) ==
    \A f \in {"avg_fee_per_byte", "fee_per_byte", "avg_nolan_rebroadcast_per_block",
              "burnfee", "difficulty"} :
        header[f] = cv.expected[f]


\* Treasury, graveyard and unpaid fees follow from the previous block.
MoneyValid(c, block, cv) ==
    LET prev == c[Len(c)].header
    IN /\ block.header.treasury = prev.treasury + cv.expected.total_payout_treasury
                                    - cv.expected.total_payout_atr
       /\ block.header.graveyard = prev.graveyard + cv.expected.total_payout_graveyard
       /\ block.header.previous_block_unpaid = Unpaid(c, block.ticket)

\* The routing work the block carries pays for the time since the last one.
WorkValid(c, block) ==
    SumOf(block.txs, TotalWork) >= WorkNeeded(c[Len(c)].header.burnfee, block.elapsed)

\* The rebroadcasts of the block hash to those expected, and so does its fee
\* transaction when it has one.
AutomaticValid(block, cv) ==
    LET atr == SelectSeq(block.txs, LAMBDA tx : tx.type = "ATR")
        fee == {i \in DOMAIN block.txs : block.txs[i].type = "Fee"}
    IN /\ HashesOf(atr) = cv.rebroadcastHash
       /\ fee # {} /\ cv.fee # << >> => Signed(block.txs[Max(fee)]) = Signed(cv.fee[1])

TxValid(tx, utxo) == \A k \in 1 .. Len(tx.ins) : SlipValid(tx.ins[k], utxo)

\* A transaction that does not validate passes: nothing is asked of it, and only
\* the others are compared for slips spent twice.
ValidGiven(c, utxo, block, cv) ==
    /\ block.txs # << >>
    /\ FeesValid(block.header, cv)
    /\ PayoutsValid(block.header, cv)
    /\ RatesValid(block.header, cv)
    /\ Count(block.txs, "Issuance") = 0
    /\ MoneyValid(c, block, cv)
    /\ WorkValid(c, block)
    /\ AutomaticValid(block, cv)
    /\ ~DoubleSpend(SelectSeq(block.txs, LAMBDA tx : TxValid(tx, utxo)))

Validate(c, utxo, block) ==
    ValidGiven(c, utxo, block,
               ConsensusValues(c, utxo, block.txs, block.ticket, block.elapsed,
                               block.header.treasury))

-----------------------------------------------------------------------------
(* The chain.                                                              *)

\* The block leaves the genesis loop of 2 * genesis_period blocks.
Purged(c, utxo) ==
    IF Len(c) >= 2 * GenesisPeriod + 1
    THEN DeleteTxs(utxo, c[Len(c) - 2 * GenesisPeriod].txs)
    ELSE utxo

\* The slips the supply counts: those of the last genesis period.
InWindow(c, utxo) == {s \in utxo : s.id >= Len(c) - GenesisPeriod /\ s.type # "Bound"}

\* check_total_supply
TotalSupply(c, utxo) ==
    LET tip == c[Len(c)].header
    IN FoldSet(LAMBDA s, sum : sum + s.amount, 0, InWindow(c, utxo))
       + tip.graveyard + tip.treasury + tip.previous_block_unpaid + tip.total_fees

Amounts == SumOf(Issuance, LAMBDA i : i[2])

\* check_total_supply has not stopped the node.
Running == TotalSupply(chain, utxoset) = Amounts

GenesisBlock ==
    [txs |-> AllPlaced([i \in 1 .. Len(Issuance) |->
                 Tx("Issuance", << >>, <<NewSlip(Issuance[i][1], Issuance[i][2], "Normal")>>, 0)], 1),
     ticket |-> NoTicket, elapsed |-> 0, header |-> ZeroHeader]

Init ==
    /\ chain = <<GenesisBlock>>
    /\ utxoset = OutsOf(GenesisBlock.txs)
    /\ refused = FALSE
    /\ unsound = FALSE

\* A user spends a slip of the last genesis period: the rest comes back, gift
\* goes to somebody who never moves it.
PaymentTx(slip, p) ==
    Tx("Normal", <<slip>>,
       <<NewSlip("payer", slip.amount - p.fee - p.gift, "Normal"),
         NewSlip("holder", p.gift, "Normal")>>, p.hops)

\* Bundles with a payment that spends one of these slips.
BundlesOf(slips) ==
    {[txs |-> <<PaymentTx(s, p)>>, ticket |-> t, elapsed |-> e] :
        s \in {u \in slips : u.owner = "payer" /\ u.id >= Len(chain) + 1 - GenesisPeriod},
        p \in Payments, t \in Tickets \cup {NoTicket}, e \in Elapsed}

\* Blocks the node can make: can_bundle_block wants a transaction and its work.
Bundles == BundlesOf(utxoset)

CanBundle(bundle) ==
    /\ Running
    /\ Len(chain) < MaxId
    /\ bundle.txs[1].outs[1].amount >= 0
    /\ SumOf(bundle.txs, TotalWork)
         >= WorkNeeded(chain[Len(chain)].header.burnfee, bundle.elapsed)

CreatedFrom(bundle) ==
    Created(chain, utxoset, bundle.txs, bundle.ticket, bundle.elapsed)

Wind(block) ==
    /\ chain' = Append(chain, block)
    /\ utxoset' = Purged(chain', WindTxs(utxoset, block.txs))

AddOwn(block) ==
    IF Validate(chain, utxoset, block)
    THEN Wind(block) /\ UNCHANGED <<refused, unsound>>
    ELSE refused' = TRUE /\ UNCHANGED <<chain, utxoset, unsound>>

\* The node makes a block and adds it to its chain.
Produce ==
    \E bundle \in Bundles :
        /\ CanBundle(bundle)
        /\ AddOwn(CreatedFrom(bundle))

\* Transactions of a type that pay something out.
Paying(block, type) ==
    {i \in 1 .. Len(block.txs) : block.txs[i].type = type /\ block.txs[i].outs # << >>}

Misstates(block, f) == f \in DOMAIN ZeroHeader \/ Paying(block, f) # {}

\* A block with one entry off by one: a field of the header, or an amount of
\* its first rebroadcast or of its fee transaction.
Misreported(block, f) ==
    IF f \in DOMAIN ZeroHeader
    THEN [block EXCEPT !.header[f] = @ + 1]
    ELSE [block EXCEPT !.txs[CHOOSE i \in Paying(block, f) : TRUE].outs[1].amount = @ + 1]

AddReceived(block) ==
    /\ IF Validate(chain, utxoset, block) THEN Wind(block)
       ELSE UNCHANGED <<chain, utxoset>>
    /\ UNCHANGED <<refused, unsound>>

\* A block of a peer that misstates something.
Receive ==
    \E bundle \in Bundles, f \in Misreports :
        /\ CanBundle(bundle)
        /\ LET misstated(honest) ==
                   Misstates(honest, f) /\ AddReceived(Misreported(honest, f))
           IN misstated(CreatedFrom(bundle))

\* Blocks that break what validate does not ask for.
AddUnsound(block) ==
    /\ IF Validate(chain, utxoset, block)
       THEN Wind(block) /\ unsound' = TRUE
       ELSE UNCHANGED <<chain, utxoset, unsound>>
    /\ UNCHANGED refused

WithoutFee(block) ==
    [block EXCEPT !.txs = SelectSeq(@, LAMBDA tx : tx.type # "Fee")]

\* A block of a peer with a golden ticket that pays somebody, but without its fee
\* transaction.
ReceiveUnpaid ==
    \E bundle \in Bundles :
        /\ CanBundle(bundle)
        /\ LET short(honest) ==
                   Paying(honest, "Fee") # {} /\ AddUnsound(WithoutFee(honest))
           IN short(CreatedFrom(bundle))

\* A block of a peer with a payment that spends a slip the chain has spent.
ReceiveRespent ==
    \E bundle \in BundlesOf(UNION {OutsOf(chain[i].txs) : i \in 1 .. Len(chain)} \ utxoset) :
        /\ CanBundle(bundle)
        /\ AddUnsound(CreatedFrom(bundle))

\* A reorganisation takes the last block back; what was purged stays away.
Unwind ==
    /\ Running
    /\ Len(chain) > 1
    /\ Len(chain) <= 2 * GenesisPeriod
    /\ chain' = SubSeq(chain, 1, Len(chain) - 1)
    /\ utxoset' = UnwindTxs(utxoset, chain[Len(chain)].txs)
    /\ UNCHANGED <<refused, unsound>>

Next == Produce \/ Receive \/ ReceiveUnpaid \/ ReceiveRespent \/ Unwind

Spec == Init /\ [][Next]_vars

-----------------------------------------------------------------------------
(* Properties.                                                             *)

\* No amount of a header or a slip underflows: treasury less payouts, averages
\* less their adjustment, a slip less its rebroadcast fee.
TypeOK ==
    /\ Len(chain) \in 1 .. MaxId
    /\ \A i \in 1 .. Len(chain) :
         /\ \A f \in DOMAIN ZeroHeader : chain[i].header[f] \in Nat
         /\ chain[i].ticket \in Tickets \cup {NoTicket}
    /\ \A s \in utxoset : s.amount \in Nat \ {0} /\ s.id \in 1 .. Len(chain)
    /\ refused \in BOOLEAN /\ unsound \in BOOLEAN

\* No token is lost or made, whatever is paid, rebroadcast, collected or burned
\* and however the chain is reorganised: the assertion check_total_supply makes
\* after every block.  Only a block without its fee transaction, or with a payment
\* that does not validate, may break it.
SupplyConserved == unsound \/ TotalSupply(chain, utxoset) = Amounts

\* The node never refuses a block it has made itself: "returns valid block" above
\* Block::create.
OwnBlockValid == ~refused

\* The fees of every block are paid out once: the golden ticket of the next block
\* or of the one after that pays them, or they are buried.  (A block that leaves
\* its fee transaction out pays nobody.)
FeesPaidOnce ==
    ~unsound => \A i \in 2 .. Len(chain) :
        LET b == chain[i]
            out == SumOf(b.txs, LAMBDA tx : IF tx.type = "Fee" THEN TotalOut(tx) ELSE 0)
                     + b.header.total_payout_treasury + b.header.total_payout_graveyard
            late == IF i > 2 /\ ~HasTicket(chain[i - 1])
                    THEN chain[i - 2].header.total_fees ELSE 0
        IN out = late + (IF HasTicket(b) THEN chain[i - 1].header.total_fees ELSE 0)


\* What block.rs:3173 says of validating the transactions of a block: "all of the
\* input slips are pointing to spendable tokens that exist in our UTXOSET".
InputsSpendable ==
    [][Len(chain') > Len(chain) =>
         \A i \in 1 .. Len(chain'[Len(chain')].txs) :
             LET tx == chain'[Len(chain')].txs[i]
             IN tx.type = "Normal" => Valued(tx.ins) \subseteq utxoset]_vars

\* The assertion of check_total_supply after blocks whose payments validate.
PaymentsKeepSupply ==
    [][(/\ Len(chain') > Len(chain)
        /\ LET txs == chain'[Len(chain')].txs
           IN \A i \in 1 .. Len(txs) : TxValid(txs[i], utxoset))
       => TotalSupply(chain', utxoset') = Amounts]_vars

\* Taking the last block back and winding it again succeeds: the utxoset an
\* unwind leaves is the one the block was validated against.
TipValidAgain ==
    ~unsound /\ Len(chain) \in 2 .. 2 * GenesisPeriod =>
        LET c == SubSeq(chain, 1, Len(chain) - 1)
            tip == chain[Len(chain)]
            utxo == UnwindTxs(utxoset, tip.txs)
        IN Validate(c, utxo, tip) /\ WindTxs(utxo, tip.txs) = utxoset
=============================================================================
