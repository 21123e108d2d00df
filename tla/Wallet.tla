------------------------------- MODULE Wallet -------------------------------
(***************************************************************************)
(* The wallet of a block-producing node: the slips it believes it can      *)
(* spend, the transactions it makes of them, the bound slips of NFTs and   *)
(* the stake of its blocks, while the chain grows, rebroadcasts old slips  *)
(* and is reorganised.                                                     *)
(*                                                                         *)
(* The chain is as small as the wallet allows: blocks of other producers   *)
(* hold a payment to the wallet or a transaction of the mempool, and are   *)
(* without the stake and the inputs of those producers; rebroadcasting     *)
(* costs no fee and pays nothing (Ledger has the amounts).                 *)
(***************************************************************************)
EXTENDS Transactions

CONSTANTS
    GenesisPeriod,      \* genesis_period
    StakeRequirement,   \* social_stake_requirement
    StakePeriod,        \* social_stake_period
    Issued,             \* amounts the wallet is issued in block 1
    Payments,           \* bound: <<amount, fee>> of payments
    Deposits,           \* bound: deposits of new NFTs
    Receipts,           \* bound: amounts others pay to the wallet
    MaxMade,            \* bound: transactions the user makes
    MaxUnwound,         \* bound: reorganisations
    MaxId               \* bound: the highest block

ASSUME WalletAssumption ==
    /\ GenesisPeriod \in Nat \ {0}
    /\ StakeRequirement \in Nat
    /\ StakePeriod \in Nat \ {0}
    /\ Issued \in Seq(Nat)
    /\ Payments \subseteq Nat \X Nat
    /\ Deposits \subseteq Nat
    /\ Receipts \subseteq Nat

VARIABLES
    chain,     \* the transactions of block i at i
    utxoset,   \* spendable slips
    wallet,    \* slips, unspent, staking, balance, pending and nfts
    pool,      \* transactions of the mempool
    utxo_map,  \* inputs the mempool has seen
    made,      \* number of transactions the user has made
    last,      \* history: the latest transaction of the wallet, as it was made
    unwound    \* number of reorganisations

vars == <<chain, utxoset, wallet, pool, utxo_map, made, last, unwound>>

\* A bound slip has the place of the slip its NFT was made of in its public key.
Me == <<"me">>
Other == <<"other">>
Uuid(slip) == <<"uuid", slip.id, slip.ord, slip.idx>>

Worth(slips) == FoldSet(LAMBDA s, sum : sum + s.amount, 0, slips)
Members(s) == {s[k] : k \in 1 .. Len(s)}

-----------------------------------------------------------------------------
(* Transaction::validate                                                   *)

\* get_latest_unlocked_stake_block_id
LatestUnlocked(tip) == IF tip > StakePeriod THEN tip + 1 - StakePeriod ELSE 0

\* is_slip_unlocked
Unlocked(slip, utxo, tip) ==
    /\ slip \in utxo
    /\ slip.type = "BlockStake" => slip.id <= LatestUnlocked(tip)

StakeValid(tx, utxo, tip) ==
    /\ \A k \in 1 .. Len(tx.outs) : tx.outs[k].type \in {"BlockStake", "Normal"}
    /\ SumOf(SelectSeq(tx.outs, LAMBDA o : o.type = "BlockStake"), LAMBDA o : o.amount)
         >= StakeRequirement
    /\ \A k \in 1 .. Len(tx.ins) : Unlocked(tx.ins[k], utxo, tip)
    /\ Cardinality(Members(tx.ins)) = Len(tx.ins)

IsTriple(slips) ==
    /\ Len(slips) >= 3
    /\ slips[1].type = "Bound" /\ slips[2].type = "Normal" /\ slips[3].type = "Bound"

IsNewNft(tx) == Len(tx.ins) = 1 /\ tx.ins[1].type = "Normal" /\ Len(tx.outs) >= 3

NewNftValid(tx) ==
    /\ IsTriple(tx.outs)
    /\ tx.outs[3].amount = 0
    /\ tx.outs[3].owner = Uuid(tx.ins[1])

SendNftValid(tx) ==
    LET normalRest(slips) == \A k \in 4 .. Len(slips) : slips[k].type = "Normal"
    IN /\ IsTriple(tx.ins) /\ IsTriple(tx.outs)
       /\ normalRest(tx.ins) /\ normalRest(tx.outs)
       /\ \A k \in {1, 3} : /\ tx.ins[k].owner = tx.outs[k].owner
                            /\ tx.ins[k].amount = tx.outs[k].amount
       /\ tx.ins[3].amount = 0
       /\ \A k \in {2, 3} : /\ tx.ins[k].id = tx.ins[1].id
                            /\ tx.ins[k].ord = tx.ins[1].ord
                            /\ tx.ins[k].idx = tx.ins[1].idx + (k - 1)

\* Everything here is signed with the key of the wallet.
UserTxValid(tx, utxo) ==
    /\ tx.ins # << >>
    /\ tx.ins[1].owner = Me
    /\ TotalOut(tx) <= TotalIn(tx)
    /\ IF tx.type = "Bound"
       THEN IF IsNewNft(tx) THEN NewNftValid(tx) ELSE SendNftValid(tx)
       ELSE \A s \in Members(tx.ins) \cup Members(tx.outs) : s.type # "Bound"
    /\ tx.outs # << >>
    /\ \A s \in Members(tx.ins) : SlipValid(s, utxo)

TxValid(tx, utxo, tip) ==
    IF tx.type = "BlockStake" THEN StakeValid(tx, utxo, tip) ELSE UserTxValid(tx, utxo)

-----------------------------------------------------------------------------
(* Slips of the wallet.  slips gives each key the place add_slip was told, *)
(* which the inputs of payments are built of.                              *)

EmptyWallet ==
    [slips |-> [s \in {} |-> <<0, 0>>], unspent |-> {}, staking |-> {}, balance |-> 0,
     pending |-> {}, nfts |-> << >>]

\* Faulty variant of AddSlip: a stake counts as money.
AddSlipStakeToo(w, id, ord, slip) ==
    IF slip \in DOMAIN w.slips THEN w
    ELSE [w EXCEPT !.slips = [s \in DOMAIN @ \cup {slip} |->
                                   IF s = slip THEN <<id, ord>> ELSE @[s]],
                   !.staking = IF slip.type = "BlockStake" THEN @ \cup {slip} ELSE @,
                   !.unspent = IF slip.type \in {"BlockStake", "Bound"} THEN @ ELSE @ \cup {slip},
                   !.balance = IF slip.type = "Bound" THEN @ ELSE @ + slip.amount]

AddSlip(w, id, ord, slip) ==
    IF slip \in DOMAIN w.slips THEN w
    ELSE LET money == slip.type \notin {"BlockStake", "Bound"}
         IN [w EXCEPT !.slips = [s \in DOMAIN @ \cup {slip} |->
                                     IF s = slip THEN <<id, ord>> ELSE @[s]],
                      !.staking = IF slip.type = "BlockStake" THEN @ \cup {slip} ELSE @,
                      !.unspent = IF money THEN @ \cup {slip} ELSE @,
                      !.balance = IF money THEN @ + slip.amount ELSE @]

DeleteSlip(w, slip) ==
    IF slip \notin DOMAIN w.slips THEN w
    ELSE LET free == slip \in w.unspent
         IN [w EXCEPT !.slips = [s \in DOMAIN @ \ {slip} |-> @[s]],
                      !.unspent = @ \ {slip},
                      !.balance = IF free THEN @ - slip.amount ELSE @,
                      !.staking = IF free THEN @ ELSE @ \ {slip}]

DeleteSlips(w, slips) == FoldSet(LAMBDA s, v : DeleteSlip(v, s), w, slips)

RemoveOldSlips(w, id) ==
    DeleteSlips(w, {s \in DOMAIN w.slips : w.slips[s][1] < id})

\* delete_block: of a block that leaves the chain for good.
DeleteBlock(w, txs) == DeleteSlips(w, InsOf(txs) \cup OutsOf(txs))

\* Same hash for signature; the timestamp tells apart what has other inputs.
SameTx(a, b) == a.ins = b.ins /\ Signed(a) = Signed(b)

-----------------------------------------------------------------------------
(* on_chain_reorganization                                                 *)

\* is_nft
IsNft(slips, i) ==
    /\ i + 2 <= Len(slips)
    /\ slips[i].type = "Bound" /\ slips[i + 1].type # "Bound" /\ slips[i + 2].type = "Bound"

\* The slips as the loops walk over them: NFTs in threes, others one by one.
Groups(slips) ==
    FoldLeft(LAMBDA acc, i :
                 IF acc.skip > 0 THEN [acc EXCEPT !.skip = @ - 1]
                 ELSE IF IsNft(slips, i)
                 THEN [skip |-> 2, groups |-> Append(acc.groups, SubSeq(slips, i, i + 2))]
                 ELSE [skip |-> 0, groups |-> Append(acc.groups, <<slips[i]>>)],
             [skip |-> 0, groups |-> << >>],
             [i \in 1 .. Len(slips) |-> i]).groups

Mine(slip) == slip.owner = Me /\ slip.amount > 0

\* The first NFT with the id, which is the key of its second slip, leaves.
RemoveNft(nfts, id) ==
    LET at == {k \in 1 .. Len(nfts) : nfts[k][2] = id}
        first == CHOOSE k \in at : \A j \in at : k <= j
    IN IF at = {} THEN nfts ELSE RemoveAt(nfts, first)

\* What the loops of a block that joins the chain do for a group.  The NFT an input
\* moves is looked up by its third slip.
WindOutput(w, g, id, ord) ==
    IF Len(g) = 3 THEN [w EXCEPT !.nfts = Append(@, g)]
    ELSE IF Mine(g[1]) THEN AddSlip(w, id, ord, g[1]) ELSE w

WindInput(w, g, tx) ==
    IF Len(g) = 3
    THEN IF g[1] = tx.ins[1] THEN [w EXCEPT !.nfts = RemoveNft(@, tx.ins[3])] ELSE w
    ELSE IF g[1].owner # Me THEN w
    ELSE LET u == IF g[1].amount > 0 THEN DeleteSlip(w, g[1]) ELSE w
         IN [u EXCEPT !.pending = {t \in @ : ~SameTx(t, tx)}]

\* And of a block that leaves it: inputs come back at the place of the block that
\* spent them.
UnwindOutput(w, g) ==
    IF Len(g) = 3 THEN [w EXCEPT !.nfts = RemoveNft(@, g[2])]
    ELSE IF Mine(g[1]) THEN DeleteSlip(w, g[1]) ELSE w

UnwindInput(w, g, id, ord) ==
    IF Len(g) = 3 THEN [w EXCEPT !.nfts = Append(@, g)]
    ELSE IF Mine(g[1]) THEN AddSlip(w, id, ord, g[1]) ELSE w

\* Outputs come in, then inputs go out.
WindTx(w, tx, id, ord) ==
    LET came == FoldLeft(LAMBDA v, g : WindOutput(v, g, id, ord), w, Groups(tx.outs))
        moved == FoldLeft(LAMBDA v, g : WindInput(v, g, tx), came, Groups(tx.ins))
    IN IF id > GenesisPeriod THEN RemoveOldSlips(moved, id - GenesisPeriod) ELSE moved

\* Outputs go, then inputs come back.
UnwindTx(w, tx, id, ord) ==
    LET gone == FoldLeft(LAMBDA v, g : UnwindOutput(v, g), w, Groups(tx.outs))
    IN FoldLeft(LAMBDA v, g : UnwindInput(v, g, id, ord), gone, Groups(tx.ins))

WindWallet(w, txs, id) ==
    FoldLeft(LAMBDA v, i : WindTx(v, txs[i], id, i - 1), w, [i \in 1 .. Len(txs) |-> i])

\* Faulty variant of UnwindWallet: what the block spent is not given back.
UnwindWalletOutputsOnly(w, txs, id) ==
    DeleteSlips(w, {s \in OutsOf(txs) : Mine(s)})

UnwindWallet(w, txs, id) ==
    FoldLeft(LAMBDA v, i : UnwindTx(v, txs[i], id, i - 1), w, [i \in 1 .. Len(txs) |-> i])

-----------------------------------------------------------------------------
(* Making transactions.                                                    *)

\* What a loop over a hash set takes that stops once it has enough.
Enough(slips, amount) ==
    {picked \in SUBSET slips :
        \/ Worth(picked) >= amount /\ \E s \in picked : Worth(picked \ {s}) < amount
        \/ picked = slips /\ Worth(slips) < amount}

\* Faulty variant of AsInput: every transaction is the first of its block.
AsInputOfFirst(w, slip) == [slip EXCEPT !.id = w.slips[slip][1], !.ord = 0]

\* The input a payment names: key and place may differ.
AsInput(w, slip) == [slip EXCEPT !.id = w.slips[slip][1], !.ord = w.slips[slip][2]]

\* Faulty variant of Spendable: slips are used for one block longer.
SpendableOneLonger(w, tip) ==
    {s \in w.unspent : w.slips[s][1] > tip - GenesisPeriod}

\* Slips generate_slips does not leave to the rebroadcast.
Spendable(w, tip) ==
    {s \in w.unspent : w.slips[s][1] > IF tip > GenesisPeriod - 1 THEN tip - (GenesisPeriod - 1) ELSE 0}

\* Faulty variant of Take: the slips stay spendable.
TakeNothing(w, picked) == w

\* The slips stay in the wallet, but nothing else may spend them.
Take(w, picked) ==
    [w EXCEPT !.unspent = @ \ picked, !.balance = @ - Worth(picked)]

\* generate_slips: the wallet afterwards, the inputs and the change.
GenerateSlips(w, requested, tip) ==
    {[wallet |-> Take(w, picked),
      enough |-> Worth(picked) >= requested,
      ins |-> IF picked = {} THEN <<NewSlip(Me, 0, "Normal")>>
              ELSE SetToSeq({AsInput(w, s) : s \in picked}),
      change |-> NewSlip(Me, IF Worth(picked) > requested THEN Worth(picked) - requested ELSE 0,
                         "Normal")] : picked \in Enough(Spendable(w, tip), requested)}

\* sign numbers the outputs.
Sign(tx) == Placed(tx, 0, 0)

\* create_with_multiple_payments, for one payment.
PaymentsOf(w, payment, tip) ==
    LET fee == IF payment[2] > w.balance THEN 0 ELSE payment[2]
        total == payment[1] + fee
        out == NewSlip(Other, payment[1], "Normal")
    IN IF w.balance < total THEN {}
       ELSE IF total = 0
       THEN {[wallet |-> w, enough |-> TRUE,
              tx |-> Sign(Tx("Normal", <<NewSlip(Me, 0, "Normal")>>, <<out>>, 0))]}
       ELSE {[wallet |-> g.wallet, enough |-> g.enough,
              tx |-> Sign(Tx("Normal", g.ins, <<g.change, out>>, 0))] :
                g \in GenerateSlips(w, total, tip)}

\* create_bound_transaction: the slip that gives the NFT its id stays unspent.
MintsOf(w, slip, deposit, to, tip) ==
    LET triple == <<NewSlip(Me, 1, "Bound"), NewSlip(to, deposit, "Normal"),
                    NewSlip(Uuid(slip), 0, "Bound")>>
        change == NewSlip(Me, slip.amount - deposit, "Normal")
        minted(v, ins, outs) == [wallet |-> v, enough |-> TRUE, tx |-> Sign(Tx("Bound", ins, outs, 0))]
    IN IF slip \notin w.unspent \/ slip.type # "Normal" THEN {}
       ELSE IF slip.amount > deposit THEN {minted(w, <<slip>>, Append(triple, change))}
       ELSE IF slip.amount = deposit THEN {minted(w, <<slip>>, triple)}
       ELSE {minted(g.wallet, <<slip>> \o g.ins, Append(triple, g.change)) :
                g \in GenerateSlips(w, deposit - slip.amount, tip)}

\* create_send_bound_transaction: the NFT leaves the list at once.
SendsOf(w, nft, to) ==
    {[wallet |-> [w EXCEPT !.nfts = RemoveNft(@, nft[2])], enough |-> TRUE,
      tx |-> Sign(Tx("Bound", nft, [nft EXCEPT ![2].owner = to], 0))]}

\* Faulty variant of StakesFree: a stake is used again while it is locked.
StakesFreeTooEarly(w, tip) == {s \in w.staking : w.slips[s][1] >= tip + 1 - GenesisPeriod}

\* Stakes find_slips_for_staking may use again.
StakesFree(w, tip) ==
    {s \in w.staking : /\ w.slips[s][1] <= LatestUnlocked(tip)
                       /\ w.slips[s][1] >= tip + 1 - GenesisPeriod}

\* Largest slips first.
Largest(slips, amount) ==
    {picked \in Enough(slips, amount) :
        /\ \A s \in picked, t \in slips \ picked : s.amount >= t.amount
        /\ \E s \in picked : /\ \A t \in picked : s.amount <= t.amount
                             /\ Worth(picked \ {s}) < amount}

\* Stakes that are free again, then the largest slips; none when that is too
\* little.
StakeInputs(w, tip) ==
    LET free == StakesFree(w, tip)
        some == IF StakeRequirement > 0 THEN Enough(free, StakeRequirement)
                ELSE IF free = {} THEN {{}} ELSE {{s} : s \in free}
        missing(stakes) == StakeRequirement - Worth(stakes)
    IN UNION {IF missing(stakes) <= 0 THEN {<<stakes, {}>>}
              ELSE {<<stakes, slips>> : slips \in
                      {p \in Largest(w.unspent, missing(stakes)) : Worth(p) >= missing(stakes)}} :
                stakes \in some}

\* create_staking_transaction: change is split when it is all that is left.
StakingsOf(w, tip) ==
    {LET picked == in[1] \cup in[2]
         rest == Worth(picked) - StakeRequirement
         half == IF in[2] # {} /\ Cardinality(w.unspent) = 1 THEN rest \div 2 ELSE rest
         outs == <<NewSlip(Me, StakeRequirement, "BlockStake")>>
                 \o (IF rest > 0 THEN <<NewSlip(Me, half, "Normal")>> ELSE << >>)
                 \o (IF rest > half THEN <<NewSlip(Me, rest - half, "Normal")>> ELSE << >>)
     IN [wallet |-> [Take(w, in[2]) EXCEPT !.staking = @ \ in[1]], enough |-> TRUE,
         tx |-> Sign(Tx("BlockStake", SetToSeq(picked), outs, 0))] : in \in StakeInputs(w, tip)}

-----------------------------------------------------------------------------
(* The node around the wallet: st is [chain, utxo, wallet].                *)

Tip(st) == Len(st.chain)

\* The slip of a group that carries its value.
Payload(g) == IF Len(g) = 3 THEN 2 ELSE 1

AllGroups(txs) == FoldLeft(LAMBDA groups, tx : groups \o Groups(tx.outs), << >>, txs)

\* What has value and is spendable, an NFT as a whole.
Due(groups, utxo) ==
    FoldLeft(LAMBDA due, g :
                 IF /\ g[Payload(g)].amount > 0
                    /\ \A k \in 1 .. Len(g) : SlipValid(g[k], utxo)
                 THEN Append(due, g) ELSE due,
             << >>, groups)

\* Slips of the block that leaves the genesis period when the next block comes.
Rebroadcasts(st) ==
    LET txs == IF Tip(st) > GenesisPeriod THEN st.chain[Tip(st) - GenesisPeriod] ELSE << >>
        due == Due(AllGroups(txs), st.utxo)
    IN [i \in 1 .. Len(due) |->
          Tx("ATR", due[i], [due[i] EXCEPT ![Payload(due[i])].type = "ATR"], 0)]

\* wind_block and what leaves the chain after it.
WindBlock(st, content) ==
    LET id == Tip(st) + 1
        txs == AllPlaced(content, id)
        chain1 == Append(st.chain, txs)
        utxo1 == WindTxs(st.utxo, txs)
        wallet1 == WindWallet(st.wallet, txs, id)
        old == id - 2 * GenesisPeriod
    IN IF old < 1 THEN [chain |-> chain1, utxo |-> utxo1, wallet |-> wallet1]
       ELSE [chain |-> chain1, utxo |-> DeleteTxs(utxo1, chain1[old]),
             wallet |-> DeleteBlock(wallet1, chain1[old])]

UnwindBlock(st) ==
    LET txs == st.chain[Tip(st)]
    IN [chain |-> Front(st.chain), utxo |-> UnwindTxs(st.utxo, txs),
        wallet |-> UnwindWallet(st.wallet, txs, Tip(st))]

State == [chain |-> chain, utxo |-> utxoset, wallet |-> wallet]

Become(st) == chain' = st.chain /\ utxoset' = st.utxo /\ wallet' = st.wallet

\* remove_block_transactions: what no longer validates, and what is in the
\* block, leaves the mempool.
Cleaned(txs, st) ==
    {t \in txs : /\ \A s \in Members(t.ins) : SlipValid(s, st.utxo)
                 /\ ~\E b \in Members(st.chain[Tip(st)]) : SameTx(b, t)}

\* add_transaction_if_validates
Accepts(tx) == TxValid(tx, utxoset, Len(chain)) /\ Valued(tx.ins) \cap utxo_map = {}

Made(r) ==
    [type |-> r.tx.type, ins |-> Members(r.tx.ins), enough |-> r.enough,
     valid |-> TxValid(r.tx, utxoset, Len(chain)), tip |-> Len(chain)]

Issue(amount) == Tx("Issuance", << >>, <<NewSlip(Me, amount, "Normal")>>, 0)

Init ==
    LET st == WindBlock([chain |-> << >>, utxo |-> {}, wallet |-> EmptyWallet],
                        [i \in 1 .. Len(Issued) |-> Issue(Issued[i])])
    IN /\ chain = st.chain /\ utxoset = st.utxo /\ wallet = st.wallet
       /\ pool = {} /\ utxo_map = {} /\ made = 0 /\ unwound = 0
       /\ last = [type |-> "Issuance", ins |-> {}, enough |-> TRUE, valid |-> TRUE, tip |-> 1]

\* The user sends a transaction: it is pending, and in the mempool if it is
\* accepted.
Submit(r) ==
    /\ made < MaxMade
    /\ made' = made + 1
    /\ wallet' = IF r.tx.ins[1].owner = Me THEN [r.wallet EXCEPT !.pending = @ \cup {r.tx}]
                 ELSE r.wallet
    /\ IF Accepts(r.tx)
       THEN pool' = pool \cup {r.tx} /\ utxo_map' = utxo_map \cup Valued(r.tx.ins)
       ELSE UNCHANGED <<pool, utxo_map>>
    /\ last' = Made(r)
    /\ UNCHANGED <<chain, utxoset, unwound>>

Pay == \E p \in Payments : \E r \in PaymentsOf(wallet, p, Len(chain)) : Submit(r)

Mint ==
    \E slip \in wallet.unspent, deposit \in Deposits, to \in {Me, Other} :
        \E r \in MintsOf(wallet, slip, deposit, to, Len(chain)) : Submit(r)

Send ==
    \E nft \in Members(wallet.nfts), to \in {Me, Other} :
        \E r \in SendsOf(wallet, nft, to) : Submit(r)

\* bundle_block with the stake of this node.  The mempool is empty afterwards
\* even if Block::create finds a slip that is spent twice; add_block_failure
\* gives payments back when the block is not valid, which it is with its stake:
\* Block::validate passes over the result of Transaction::validate, which all of
\* the mempool passes anyhow (MempoolSpendable of Mempool).
Bundle ==
    /\ pool # {}
    /\ Len(chain) < MaxId
    /\ \E r \in StakingsOf(wallet, Len(chain)) :
         LET in == Accepts(r.tx)
             map == IF in THEN utxo_map \cup Valued(r.tx.ins) ELSE utxo_map
             own == IF in THEN pool \cup {r.tx} ELSE pool
             txs == SetToSeq(own) \o Rebroadcasts(State)
             valid == StakeRequirement > 0 => in
             st == [State EXCEPT !.wallet = r.wallet]
         IN /\ last' = Made(r)
            /\ IF DoubleSpend(txs) THEN Become(st) /\ pool' = {} /\ utxo_map' = map
               ELSE /\ utxo_map' = map \ InsOf(txs)
                    /\ IF valid THEN Become(WindBlock(st, txs)) /\ pool' = {}
                       ELSE /\ Become(st)
                            /\ pool' = {t \in own : t.type = "Normal" /\ TxValid(t, utxoset, Len(chain))}
    /\ UNCHANGED <<made, unwound>>

\* What blocks of other producers may hold.
Receipt(amount) == <<Tx("Normal", <<NewSlip(Other, 0, "Normal")>>, <<NewSlip(Me, amount, "Normal")>>, 0)>>

PeerBlocks(st) ==
    {txs \in {Receipt(a) \o Rebroadcasts(st) : a \in Receipts}
             \cup {<<t>> \o Rebroadcasts(st) : t \in {t \in pool : TxValid(t, st.utxo, Tip(st))}} :
        ~DoubleSpend(txs)}

Receive ==
    /\ Len(chain) < MaxId
    /\ \E txs \in PeerBlocks(State) :
         LET st == WindBlock(State, txs)
         IN Become(st) /\ pool' = Cleaned(pool, st)
    /\ UNCHANGED <<utxo_map, made, last, unwound>>

\* Nothing below the purged blocks is unwound.
CanUnwind == Len(chain) > 1 /\ Len(chain) <= 2 * GenesisPeriod /\ unwound < MaxUnwound

\* Two blocks of others replace the last block.
Reorganise ==
    /\ CanUnwind
    /\ Len(chain) < MaxId
    /\ LET below == UnwindBlock(State)
       IN \E txs \in PeerBlocks(below), a \in Receipts :
            LET side == WindBlock(below, txs)
                st == WindBlock(side, Receipt(a) \o Rebroadcasts(side))
            IN Become(st) /\ pool' = Cleaned(pool, st)
    /\ unwound' = unwound + 1
    /\ UNCHANGED <<utxo_map, made, last>>

\* The other branch fails: the last block is unwound and wound again.
FailToReorganise ==
    /\ CanUnwind
    /\ Become([State EXCEPT !.wallet =
                  WindWallet(UnwindWallet(wallet, chain[Len(chain)], Len(chain)),
                             chain[Len(chain)], Len(chain))])
    /\ unwound' = unwound + 1
    /\ UNCHANGED <<pool, utxo_map, made, last>>

Next == Pay \/ Mint \/ Send \/ Bundle \/ Receive \/ Reorganise \/ FailToReorganise

Spec == Init /\ [][Next]_vars

-----------------------------------------------------------------------------
(* Properties.                                                             *)

\* Types.  In particular no slip, of the wallet or of the utxoset, is of a block that
\* was taken back.
TypeOK ==
    /\ Len(chain) \in 1 .. MaxId
    /\ DOMAIN wallet = DOMAIN EmptyWallet
    /\ \A s \in DOMAIN wallet.slips : wallet.slips[s][1] \in 1 .. Len(chain)
    /\ \A s \in utxoset : s.amount \in Nat \ {0} /\ s.id \in 1 .. Len(chain)
    /\ wallet.balance \in Nat
    /\ made \in 0 .. MaxMade
    /\ unwound \in 0 .. MaxUnwound

\* The balance is what the unspent slips are worth, and a slip is money or stake,
\* not both: generate_slips and find_slips_for_staking look every one of them up
\* in slips and panic when it is not there.
BalanceIsUnspent ==
    /\ wallet.balance = Worth(wallet.unspent)
    /\ wallet.unspent \cup wallet.staking \subseteq DOMAIN wallet.slips
    /\ wallet.unspent \cap wallet.staking = {}

NftSlips ==
    UNION {UNION {UNION {Members(g) : g \in {h \in Members(Groups(tx.outs)) : Len(h) = 3}} :
                    tx \in Members(chain[i])} : i \in 1 .. Len(chain)}

\* The wallet knows exactly the slips of its key that the chain lets it spend, NFTs
\* aside, whatever is rebroadcast, purged, unwound and wound again: also the inputs
\* of a block that is unwound, which the doc of WalletSlip gives up.
WalletTracksChain ==
    DOMAIN wallet.slips = {s \in utxoset \ NftSlips : Mine(s)}

\* The doc of WalletSlip: slips that are spent on one fork are not recaptured, and a
\* slip once spent is marked as spent.  What comes into the wallet is then never what
\* the tip has spent.
SpentNotRecaptured ==
    [][\A s \in DOMAIN wallet'.slips \ DOMAIN wallet.slips :
          s \notin InsOf(chain[Len(chain)])]_vars

\* A staking transaction passes the validation of the blocks, also after a
\* reorganisation.
StakeAccepted == last.type = "BlockStake" => last.valid

\* A payment the wallet has the slips for passes validation, as long as no block
\* was unwound.
PaymentAccepted == last.type = "Normal" /\ last.enough /\ unwound = 0 => last.valid

\* A payment has two blocks to get into before its slips are rebroadcast: "Balance
\* in process of rebroadcasting. Please wait 2 blocks and retry".
PaymentOutlivesRebroadcast ==
    last.type = "Normal" /\ unwound = 0 /\ Len(chain) <= last.tip + 1 =>
        \A s \in last.ins : s.amount > 0 => s.id # Len(chain) - GenesisPeriod

\* Two pending payments never spend the same slip, as long as no block was unwound.
NoSlipPromisedTwice ==
    unwound = 0 => \A s, t \in {p \in wallet.pending : p.type = "Normal"} :
                    s # t => Valued(s.ins) \cap Valued(t.ins) = {}

\* The stake of the next block draws on no slip that a pending payment spends, as
\* long as no block was unwound: it may take unspent slips when the staked ones are
\* locked or too few.
StakeLeavesPayments ==
    last.type = "BlockStake" /\ unwound = 0 =>
        \A p \in wallet.pending : p.type = "Normal" => Valued(p.ins) \cap last.ins = {}

\* "NFT slips are removed from the existing NFT storage area, as we have received
\* new versions": a listed NFT has not been moved on.
NftsCurrent == \A nft \in Members(wallet.nfts) : nft[2] \in utxoset
=============================================================================
