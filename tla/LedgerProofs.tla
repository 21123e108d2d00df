---------------------------- MODULE LedgerProofs ----------------------------
(***************************************************************************)
(* Proofs about Ledger for any issuance, payments and tickets: the fees of *)
(* a block are paid out once, and the last block can be wound again.       *)
(***************************************************************************)
EXTENDS Ledger, Induction

-----------------------------------------------------------------------------
(* Sums over sequences.                                                    *)

\* p[k] is the sum of the first k numbers of s.
IsPrefixSum(p, s) ==
    /\ p \in [0 .. Len(s) -> Int]
    /\ p[0] = 0
    /\ \A k \in 1 .. Len(s) : p[k] = p[k - 1] + s[k]

\* What the fold of SumSeq computes.
LEMMA SumSeqPrefix ==
    ASSUME NEW s \in Seq(Int)
    PROVE  \E p : IsPrefixSum(p, s) /\ SumSeq(s) = p[Len(s)]
<1> DEFINE n == Len(s)
           D == 1 .. n
           pick == [t \in SUBSET D |-> Max(t)]
           step == [e \in Int \X D |-> e[1] + s[e[2]]]
           sum == CHOOSE g : g = [t \in SUBSET D |->
                     IF t = {} THEN 0 ELSE g[t \ {Max(t)}] + s[Max(t)]]
<1>1. n \in Nat /\ DOMAIN s = D /\ \A i \in D : s[i] \in Int
  OBVIOUS
<1>2. SumSeq(s) = sum[D]
  BY <1>1, Zenon DEF SumSeq, FoldLeft, MapThenFoldSet
<1>3. IsFiniteSet(D) /\ IsPick(pick, D)
  BY <1>1, LargestIsPick
<1>4. step \in [Int \X D -> Int]
  BY <1>1
<1>5. PICK g \in [SUBSET D -> Int] : Folds(g, D, pick, 0, step)
  <2>1. 0 \in Int
    OBVIOUS
  <2> HIDE DEF pick, step, sum, D
  <2> QED BY <1>3, <1>4, <2>1, FoldExists
<1>6. ASSUME NEW t \in SUBSET D
      PROVE  g[t] = IF t = {} THEN 0 ELSE g[t \ {Max(t)}] + s[Max(t)]
  <2>1. CASE t # {}
    <3>1. pick[t] = Max(t) /\ Max(t) \in D
      BY <1>1, <2>1, MaxExists
    <3>2. g[t \ {Max(t)}] \in Int
      OBVIOUS
    <3>3. step[<<g[t \ {Max(t)}], Max(t)>>] = g[t \ {Max(t)}] + s[Max(t)]
      BY <3>1, <3>2
    <3> HIDE DEF step, pick
    <3> QED BY <1>5, <2>1, <3>1, <3>3 DEF Folds
  <2> QED BY <1>5, <2>1 DEF Folds
<1>7. g = [t \in SUBSET D |-> IF t = {} THEN 0 ELSE g[t \ {Max(t)}] + s[Max(t)]]
  BY <1>6
<1>8. sum = [t \in SUBSET D |-> IF t = {} THEN 0 ELSE sum[t \ {Max(t)}] + s[Max(t)]]
  BY <1>7
<1> HIDE DEF sum
<1> DEFINE T == {k \in 0 .. n : sum[1 .. k] \in Int}
<1>9. sum[1 .. 0] = 0
  <2>1. 1 .. 0 = {}
    OBVIOUS
  <2> QED BY <1>8, <2>1
<1>10. ASSUME NEW k \in 1 .. n PROVE sum[1 .. k] = sum[1 .. k - 1] + s[k]
  <2>1. Max(1 .. k) = k /\ (1 .. k) \ {k} = 1 .. k - 1 /\ 1 .. k # {}
    <3>1. k \in Nat /\ k > 0
      BY <1>1
    <3> QED BY <3>1, MaxOfRange
  <2>2. 1 .. k \in SUBSET D
    BY <1>1
  <2> QED BY <1>8, <2>1, <2>2
<1>11. T = 0 .. n
  <2>1. 0 \in T
    BY <1>1, <1>9
  <2>2. ASSUME NEW k \in T, k < n PROVE k + 1 \in T
    <3>1. k + 1 \in 1 .. n /\ (k + 1) - 1 = k
      BY <1>1, <2>2
    <3>2. sum[1 .. k + 1] = sum[1 .. k] + s[k + 1]
      BY <3>1, <1>10
    <3> QED BY <1>1, <3>1, <3>2
  <2>3. T \subseteq 0 .. n
    OBVIOUS
  <2> HIDE DEF T
  <2> QED BY <1>1, <2>1, <2>2, <2>3, RangeInduction
<1> DEFINE p == [k \in 0 .. n |-> sum[1 .. k]]
<1>12. p \in [0 .. n -> Int]
  BY <1>11
<1>13. p[0] = 0 /\ p[n] = SumSeq(s) /\ \A k \in 1 .. n : p[k] = p[k - 1] + s[k]
  BY <1>1, <1>2, <1>9, <1>10
<1> HIDE DEF p
<1> QED BY <1>12, <1>13 DEF IsPrefixSum

\* There is one such function.
LEMMA PrefixSumUnique ==
    ASSUME NEW s \in Seq(Int), NEW t \in Seq(Int), NEW p, NEW q,
           IsPrefixSum(p, s), IsPrefixSum(q, t),
           NEW n \in 0 .. Len(s), n <= Len(t), \A k \in 1 .. n : s[k] = t[k]
    PROVE  p[n] = q[n]
<1> DEFINE T == {k \in 0 .. n : p[k] = q[k]}
<1>1. 0 \in T
  BY DEF IsPrefixSum
<1>2. ASSUME NEW k \in T, k < n PROVE k + 1 \in T
  <2>1. k + 1 \in 1 .. Len(s) /\ k + 1 \in 1 .. Len(t) /\ (k + 1) - 1 = k /\ k + 1 \in 1 .. n
    BY <1>2
  <2>2. p[k + 1] = p[k] + s[k + 1] /\ q[k + 1] = q[k] + t[k + 1]
    BY <2>1 DEF IsPrefixSum
  <2> QED BY <2>1, <2>2
<1>3. T = 0 .. n
  <2>1. T \subseteq 0 .. n
    OBVIOUS
  <2> HIDE DEF T
  <2> QED BY <1>1, <1>2, <2>1, RangeInduction
<1>4. n \in T
  <2> HIDE DEF T
  <2> QED BY <1>3
<1> QED BY <1>4

\* A sum of integers is an integer.
LEMMA SumInt ==
    ASSUME NEW s \in Seq(Int)
    PROVE  SumSeq(s) \in Int
BY SumSeqPrefix DEF IsPrefixSum

\* Nothing sums up to zero.
LEMMA SumEmpty == SumSeq(<< >>) = 0
<1>1. << >> \in Seq(Int) /\ Len(<< >>) = 0
  OBVIOUS
<1> QED BY <1>1, SumSeqPrefix DEF IsPrefixSum

\* A number at the end is added to the sum.
LEMMA SumAppend ==
    ASSUME NEW s \in Seq(Int), NEW x \in Int
    PROVE  SumSeq(Append(s, x)) = SumSeq(s) + x
<1> DEFINE t == Append(s, x)
<1>1. /\ t \in Seq(Int) /\ Len(t) = Len(s) + 1 /\ t[Len(s) + 1] = x /\ Len(s) \in Nat
      /\ \A k \in 1 .. Len(s) : s[k] = t[k]
  OBVIOUS
<1> HIDE DEF t
<1>2. PICK p : IsPrefixSum(p, s) /\ SumSeq(s) = p[Len(s)]
  BY SumSeqPrefix
<1>3. PICK q : IsPrefixSum(q, t) /\ SumSeq(t) = q[Len(t)]
  BY <1>1, SumSeqPrefix
<1>4. p[Len(s)] = q[Len(s)]
  <2>1. Len(s) \in 0 .. Len(s) /\ Len(s) <= Len(t)
    BY <1>1
  <2>2. IsPrefixSum(p, s) /\ IsPrefixSum(q, t) /\ t \in Seq(Int)
    BY <1>1, <1>2, <1>3
  <2>3. \A k \in 1 .. Len(s) : s[k] = t[k]
    BY <1>1
  <2> QED BY <2>1, <2>2, <2>3, PrefixSumUnique
<1>5. Len(t) \in 1 .. Len(t) /\ Len(t) - 1 = Len(s)
  BY <1>1
<1>6. q[Len(t)] = q[Len(s)] + t[Len(t)]
  BY <1>3, <1>5 DEF IsPrefixSum
<1> QED BY <1>1, <1>2, <1>3, <1>4, <1>6 DEF t

\* A sum of natural numbers is one.
LEMMA SumNat ==
    ASSUME NEW s \in Seq(Nat)
    PROVE  SumSeq(s) \in Nat
<1>1. s \in Seq(Int) /\ Len(s) \in Nat /\ \A k \in 1 .. Len(s) : s[k] \in Nat
  OBVIOUS
<1>2. PICK p : IsPrefixSum(p, s) /\ SumSeq(s) = p[Len(s)]
  BY <1>1, SumSeqPrefix
<1> DEFINE n == Len(s)
           T == {k \in 0 .. n : p[k] \in Nat}
<1>3. 0 \in T
  BY <1>1, <1>2 DEF IsPrefixSum
<1>4. ASSUME NEW k \in T, k < n PROVE k + 1 \in T
  <2>1. k + 1 \in 1 .. n /\ (k + 1) - 1 = k
    BY <1>1, <1>4
  <2>2. p[k + 1] = p[k] + s[k + 1]
    BY <1>2, <2>1 DEF IsPrefixSum
  <2> QED BY <1>1, <2>1, <2>2
<1>5. T = 0 .. n
  <2>1. T \subseteq 0 .. n
    OBVIOUS
  <2> HIDE DEF T
  <2> QED BY <1>1, <1>3, <1>4, <2>1, RangeInduction
<1>6. n \in T
  <2> HIDE DEF T
  <2> QED BY <1>1, <1>5
<1> QED BY <1>2, <1>6

\* Zeros sum up to zero.
LEMMA SumZero ==
    ASSUME NEW s \in Seq(Int), \A k \in 1 .. Len(s) : s[k] = 0
    PROVE  SumSeq(s) = 0
<1>1. Len(s) \in Nat
  OBVIOUS
<1>2. PICK p : IsPrefixSum(p, s) /\ SumSeq(s) = p[Len(s)]
  BY SumSeqPrefix
<1> DEFINE n == Len(s)
           T == {k \in 0 .. n : p[k] = 0}
<1>3. 0 \in T
  BY <1>1, <1>2 DEF IsPrefixSum
<1>4. ASSUME NEW k \in T, k < n PROVE k + 1 \in T
  <2>1. k + 1 \in 1 .. n /\ (k + 1) - 1 = k
    BY <1>1, <1>4
  <2>2. p[k + 1] = p[k] + s[k + 1]
    BY <1>2, <2>1 DEF IsPrefixSum
  <2> QED BY <1>1, <2>1, <2>2
<1>5. T = 0 .. n
  <2>1. T \subseteq 0 .. n
    OBVIOUS
  <2> HIDE DEF T
  <2> QED BY <1>1, <1>3, <1>4, <2>1, RangeInduction
<1>6. n \in T
  <2> HIDE DEF T
  <2> QED BY <1>1, <1>5
<1> QED BY <1>2, <1>6

-----------------------------------------------------------------------------
(* Slips and transactions.                                                 *)

Owners == {"winner", "miner", "payer", "holder"} \cup {Issuance[i][1] : i \in DOMAIN Issuance}
SlipTypes == {"Normal", "ATR", "MinerOutput", "RouterOutput"}
TxTypes == {"Issuance", "Normal", "GoldenTicket", "ATR", "Fee"}

Slips == [owner : Owners, id : Nat, ord : Nat, idx : Nat, amount : Nat, type : SlipTypes]

TxSet == [type : TxTypes, ins : Seq(Slips), outs : Seq(Slips), hops : Nat,
          orig : [sent : BOOLEAN, hops : Nat]]

\* The values of slips are naturals, and so is their sum.
LEMMA TotalsType ==
    ASSUME NEW tx \in TxSet
    PROVE  TotalIn(tx) \in Nat /\ TotalOut(tx) \in Nat /\ TotalFees(tx) \in Nat
<1>1. ASSUME NEW s \in Seq(Slips) PROVE [i \in 1 .. Len(s) |-> Value(s[i])] \in Seq(Nat)
  <2>1. \A i \in 1 .. Len(s) : Value(s[i]) \in Nat
    <3>1. \A i \in 1 .. Len(s) : s[i] \in Slips
      OBVIOUS
    <3>2. \A slip \in Slips : Value(slip) \in Nat
      BY DEF Value, Slips
    <3> QED BY <3>1, <3>2
  <2> QED BY <2>1
<1>2. tx.ins \in Seq(Slips) /\ tx.outs \in Seq(Slips)
  BY DEF TxSet
<1>3. TotalIn(tx) \in Nat
  <2>1. [i \in 1 .. Len(tx.ins) |-> Value(tx.ins[i])] \in Seq(Nat)
    BY <1>1, <1>2
  <2> QED BY <2>1, SumNat DEF TotalIn, SumOf
<1>4. TotalOut(tx) \in Nat
  <2>1. [i \in 1 .. Len(tx.outs) |-> Value(tx.outs[i])] \in Seq(Nat)
    BY <1>1, <1>2
  <2> QED BY <2>1, SumNat DEF TotalOut, SumOf
<1>5. TotalFees(tx) \in Nat
  BY <1>3, <1>4 DEF TotalFees
<1> QED BY <1>3, <1>4, <1>5

\* A transaction that is told its place is the same but for the place.
LEMMA PlacedFacts ==
    ASSUME NEW tx \in TxSet, NEW ord \in Nat, NEW id \in Nat
    PROVE  /\ Placed(tx, ord, id) \in TxSet
           /\ Placed(tx, ord, id).type = tx.type
           /\ Len(Placed(tx, ord, id).outs) = Len(tx.outs)
           /\ \A k \in 1 .. Len(tx.outs) :
                Placed(tx, ord, id).outs[k].amount = tx.outs[k].amount
           /\ TotalOut(Placed(tx, ord, id)) = TotalOut(tx)
<1> DEFINE there == Placed(tx, ord, id)
           outs == [k \in 1 .. Len(tx.outs) |->
                      [tx.outs[k] EXCEPT !.id = id, !.ord = ord, !.idx = k - 1]]
<1>1. tx.outs \in Seq(Slips) /\ Len(tx.outs) \in Nat
  BY DEF TxSet
<1>2. \A k \in 1 .. Len(tx.outs) : outs[k] \in Slips /\ outs[k].amount = tx.outs[k].amount
                                    /\ outs[k].type = tx.outs[k].type
  <2> SUFFICES ASSUME NEW k \in 1 .. Len(tx.outs)
               PROVE  outs[k] \in Slips /\ outs[k].amount = tx.outs[k].amount
                                    /\ outs[k].type = tx.outs[k].type
    OBVIOUS
  <2>1. tx.outs[k] \in Slips /\ k - 1 \in Nat
    BY <1>1
  <2>2. outs[k] = [tx.outs[k] EXCEPT !.id = id, !.ord = ord, !.idx = k - 1]
    OBVIOUS
  <2> HIDE DEF outs
  <2> QED BY <2>1, <2>2 DEF Slips
<1>3. outs \in Seq(Slips) /\ Len(outs) = Len(tx.outs)
  <2>1. outs = [k \in 1 .. Len(tx.outs) |-> outs[k]]
    OBVIOUS
  <2> HIDE DEF outs
  <2> QED BY <1>1, <1>2, <2>1
<1>4. there = [tx EXCEPT !.outs = outs]
  BY DEF Placed
<1> HIDE DEF there, outs
<1>6. /\ there \in TxSet /\ there.outs = outs
      /\ there.type = tx.type
  BY <1>3, <1>4 DEF TxSet
<1>7. TotalOut(there) = TotalOut(tx)
  <2>1. \A k \in 1 .. Len(tx.outs) : Value(outs[k]) = Value(tx.outs[k])
    BY <1>2 DEF Value
  <2>2. [k \in 1 .. Len(there.outs) |-> Value(there.outs[k])] =
           [k \in 1 .. Len(tx.outs) |-> Value(tx.outs[k])]
    BY <1>3, <1>6, <2>1
  <2> QED BY <2>2, Zenon DEF TotalOut, SumOf
<1> QED BY <1>2, <1>3, <1>6, <1>7 DEF there

\* The transactions of a block.
LEMMA AllPlacedFacts ==
    ASSUME NEW txs \in Seq(TxSet), NEW id \in Nat
    PROVE  /\ AllPlaced(txs, id) \in Seq(TxSet)
           /\ Len(AllPlaced(txs, id)) = Len(txs)
           /\ \A i \in 1 .. Len(txs) :
                /\ AllPlaced(txs, id)[i] = Placed(txs[i], i - 1, id)
                /\ AllPlaced(txs, id)[i].type = txs[i].type
                /\ TotalOut(AllPlaced(txs, id)[i]) = TotalOut(txs[i])
<1> DEFINE there == AllPlaced(txs, id)
<1>1. there = [i \in 1 .. Len(txs) |-> Placed(txs[i], i - 1, id)] /\ Len(txs) \in Nat
  BY DEF AllPlaced
<1> HIDE DEF there
<1>2. \A i \in 1 .. Len(txs) : /\ there[i] = Placed(txs[i], i - 1, id)
                               /\ there[i] \in TxSet
                               /\ there[i].type = txs[i].type
                               /\ TotalOut(there[i]) = TotalOut(txs[i])
  <2> TAKE i \in 1 .. Len(txs)
  <2>1. txs[i] \in TxSet /\ i - 1 \in Nat
    OBVIOUS
  <2>2. there[i] = Placed(txs[i], i - 1, id)
    BY <1>1
  <2>3. /\ Placed(txs[i], i - 1, id) \in TxSet
        /\ Placed(txs[i], i - 1, id).type = txs[i].type
        /\ TotalOut(Placed(txs[i], i - 1, id)) = TotalOut(txs[i])
    BY <2>1, PlacedFacts, Zenon
  <2> QED BY <2>2, <2>3
<1>3. there \in Seq(TxSet) /\ Len(there) = Len(txs)
  BY <1>1, <1>2
<1> QED BY <1>2, <1>3 DEF there

-----------------------------------------------------------------------------
(* The fee transaction.                                                    *)

\* Only the last number counts when the others are zero.
LEMMA SumLast ==
    ASSUME NEW s \in Seq(Int), Len(s) > 0, \A k \in 1 .. Len(s) - 1 : s[k] = 0
    PROVE  SumSeq(s) = s[Len(s)]
<1>1. Len(s) \in Nat
  OBVIOUS
<1>2. PICK p : IsPrefixSum(p, s) /\ SumSeq(s) = p[Len(s)]
  BY SumSeqPrefix
<1> DEFINE n == Len(s) - 1
           T == {k \in 0 .. n : p[k] = 0}
<1>3. 0 \in T /\ n \in Nat
  BY <1>1, <1>2 DEF IsPrefixSum
<1>4. ASSUME NEW k \in T, k < n PROVE k + 1 \in T
  <2>1. k + 1 \in 1 .. n /\ k + 1 \in 1 .. Len(s) /\ (k + 1) - 1 = k
    BY <1>1, <1>4
  <2>2. p[k + 1] = p[k] + s[k + 1]
    BY <1>2, <2>1 DEF IsPrefixSum
  <2> QED BY <1>1, <2>1, <2>2
<1>5. T = 0 .. n
  <2>1. T \subseteq 0 .. n
    OBVIOUS
  <2> HIDE DEF T
  <2> QED BY <1>3, <1>4, <2>1, RangeInduction
<1>6. p[n] = 0
  <2>1. n \in T
    <3> HIDE DEF T
    <3> QED BY <1>3, <1>5
  <2> QED BY <2>1
<1>7. Len(s) \in 1 .. Len(s) /\ s[Len(s)] \in Int
  BY <1>1
<1>8. p[Len(s)] = p[Len(s) - 1] + s[Len(s)]
  BY <1>2, <1>7 DEF IsPrefixSum
<1> QED BY <1>2, <1>6, <1>7, <1>8

\* What the fee transactions of a block pay out.
FeeOut(txs) == SumOf(txs, LAMBDA tx : IF tx.type = "Fee" THEN TotalOut(tx) ELSE 0)

\* Fee transactions pay nothing where there is none, and what the last one pays where
\* it is the only one.
LEMMA FeeOutFacts ==
    ASSUME NEW txs \in Seq(TxSet)
    PROVE  /\ (\A i \in 1 .. Len(txs) : txs[i].type # "Fee") => FeeOut(txs) = 0
           /\ /\ Len(txs) > 0 /\ txs[Len(txs)].type = "Fee"
              /\ \A i \in 1 .. Len(txs) - 1 : txs[i].type # "Fee"
              => FeeOut(txs) = TotalOut(txs[Len(txs)])
<1> DEFINE out == [i \in 1 .. Len(txs) |-> IF txs[i].type = "Fee" THEN TotalOut(txs[i]) ELSE 0]
<1>1. \A i \in 1 .. Len(txs) : TotalOut(txs[i]) \in Nat
  BY TotalsType
<1>2. out \in Seq(Int) /\ Len(out) = Len(txs) /\ Len(txs) \in Nat
  BY <1>1
<1>3. FeeOut(txs) = SumSeq(out)
  BY Zenon DEF FeeOut, SumOf
<1>4. \A i \in 1 .. Len(txs) : out[i] = IF txs[i].type = "Fee" THEN TotalOut(txs[i]) ELSE 0
  OBVIOUS
<1> HIDE DEF out
<1>5. ASSUME \A i \in 1 .. Len(txs) : txs[i].type # "Fee" PROVE FeeOut(txs) = 0
  BY <1>2, <1>3, <1>4, <1>5, SumZero
<1>6. ASSUME Len(txs) > 0, txs[Len(txs)].type = "Fee",
             \A i \in 1 .. Len(txs) - 1 : txs[i].type # "Fee"
      PROVE  FeeOut(txs) = TotalOut(txs[Len(txs)])
  <2>1. \A i \in 1 .. Len(out) - 1 : out[i] = 0
    BY <1>2, <1>4, <1>6
  <2>2. SumSeq(out) = out[Len(out)]
    BY <1>2, <1>6, <2>1, SumLast
  <2> QED BY <1>2, <1>3, <1>4, <1>6, <2>2
<1> QED BY <1>5, <1>6

Values(slips) == [i \in 1 .. Len(slips) |-> Value(slips[i])]

\* A payout has a slip if it is one.
Paying1(amount, type) == IF amount > 0 THEN <<NewSlip("winner", amount, type)>> ELSE << >>

\* A payout adds its amount to the outputs, also when it is zero and gets no slip.
LEMMA ValueOfPayout ==
    ASSUME NEW s \in Seq(Slips), NEW amount \in Nat, NEW type \in SlipTypes
    PROVE  /\ s \o Paying1(amount, type) \in Seq(Slips)
           /\ SumSeq(Values(s \o Paying1(amount, type))) = SumSeq(Values(s)) + amount
<1>1. Values(s) \in Seq(Int)
  <2>1. \A i \in 1 .. Len(s) : s[i] \in Slips
    OBVIOUS
  <2>2. \A slip \in Slips : Value(slip) \in Int
    BY DEF Value, Slips
  <2> QED BY <2>1, <2>2 DEF Values
<1>2. SumSeq(Values(s)) \in Int
  BY <1>1, SumInt
<1>3. CASE amount > 0
  <2> DEFINE x == NewSlip("winner", amount, type)
  <2>1. x \in Slips /\ Value(x) = amount
    <3>1. x = [owner |-> "winner", id |-> 0, ord |-> 0, idx |-> 0, amount |-> amount,
               type |-> type]
      BY DEF NewSlip, Slip
    <3>2. x.type = type /\ x.amount = amount /\ type # "Bound"
      BY <3>1 DEF SlipTypes
    <3>3. 0 \in Nat /\ "winner" \in Owners
      BY DEF Owners
    <3>4. x \in Slips
      BY <3>1, <3>3 DEF Slips
    <3> HIDE DEF x
    <3> QED BY <3>2, <3>4 DEF Value
  <2>2. Paying1(amount, type) = <<x>>
    BY <1>3 DEF Paying1
  <2> HIDE DEF x
  <2>3. s \o <<x>> = Append(s, x) /\ Append(s, x) \in Seq(Slips)
    BY <2>1
  <2>4. Values(Append(s, x)) = Append(Values(s), Value(x))
    <3> DEFINE t == Append(s, x)
               n == Len(s)
    <3>1. /\ n \in Nat /\ Len(t) = n + 1 /\ t[n + 1] = x
          /\ \A i \in 1 .. n : t[i] = s[i]
      BY <2>1
    <3>2. /\ Len(Values(s)) = n /\ DOMAIN Values(s) = 1 .. n
          /\ \A i \in 1 .. n : Values(s)[i] = Value(s[i])
      BY <1>1, <3>1 DEF Values
    <3> DEFINE v == Append(Values(s), Value(x))
    <3>3. /\ DOMAIN v = 1 .. n + 1 /\ v[n + 1] = Value(x)
          /\ \A i \in 1 .. n : v[i] = Value(s[i])
          /\ v = [i \in 1 .. n + 1 |-> v[i]]
      <4> DEFINE r == Values(s)
                 y == Value(x)
      <4>1. r \in Seq(Int) /\ y \in Int /\ Len(r) = n
        BY <1>1, <2>1, <3>2
      <4>2. \A i \in 1 .. n : r[i] = Value(s[i])
        BY <3>2
      <4> HIDE DEF r, y, n, x
      <4>3. /\ Append(r, y) \in Seq(Int) /\ Len(Append(r, y)) = n + 1 /\ Append(r, y)[n + 1] = y
            /\ \A i \in 1 .. n : Append(r, y)[i] = r[i]
            /\ n \in Nat
        BY <4>1
      <4>4. v = Append(r, y)
        BY DEF r, y
      <4>5. DOMAIN Append(r, y) = 1 .. n + 1
        BY <4>3
      <4>6. Append(r, y) = [i \in 1 .. n + 1 |-> Append(r, y)[i]]
        <5> DEFINE z == Append(r, y)
        <5>1. z \in Seq(Int) /\ DOMAIN z = 1 .. n + 1
          BY <4>3, <4>5
        <5> HIDE DEF z
        <5>2. z = [i \in 1 .. n + 1 |-> z[i]]
          BY <5>1
        <5> QED BY <5>2 DEF z
      <4> HIDE DEF v
      <4> QED BY <4>2, <4>3, <4>4, <4>5, <4>6 DEF y
    <3> HIDE DEF t, v, n
    <3>4. Values(t) = [i \in 1 .. n + 1 |-> Value(t[i])]
      BY <3>1 DEF Values
    <3>5. \A i \in 1 .. n + 1 : i = n + 1 \/ i \in 1 .. n
      BY <3>1
    <3>6. \A i \in 1 .. n + 1 : v[i] = Value(t[i])
      BY <3>1, <3>3, <3>5
    <3>7. v = Values(t)
      BY <3>3, <3>4, <3>6, Zenon
    <3> QED BY <3>7 DEF t, v
  <2>5. SumSeq(Append(Values(s), amount)) = SumSeq(Values(s)) + amount
    BY <1>1, SumAppend
  <2>6. s \o Paying1(amount, type) = Append(s, x)
    BY <2>2, <2>3
  <2>7. Values(Append(s, x)) = Append(Values(s), amount)
    BY <2>1, <2>4
  <2> QED BY <2>3, <2>5, <2>6, <2>7
<1>4. CASE ~ (amount > 0)
  <2>1. amount = 0 /\ Paying1(amount, type) = << >> /\ s \o << >> = s
    BY <1>4 DEF Paying1
  <2>2. s \o Paying1(amount, type) = s
    BY <2>1
  <2>3. SumSeq(Values(s)) + amount = SumSeq(Values(s))
    BY <1>2, <2>1
  <2> QED BY <2>2, <2>3, Zenon
<1> QED BY <1>3, <1>4

Payment(p) == p.miner + p.router1 + p.router2

PayoutSet == [miner : Nat, router1 : Nat, router2 : Nat, treasury : Nat, graveyard : Nat]

\* The fee transaction pays the miner and the routers what they are to have.
LEMMA FeeTxFacts ==
    ASSUME NEW paid \in PayoutSet
    PROVE  FeeTx(paid) \in TxSet /\ FeeTx(paid).type = "Fee" /\ TotalOut(FeeTx(paid)) = Payment(paid)
<1> DEFINE p1 == Paying1(paid.miner, "MinerOutput")
           p2 == Paying1(paid.router1, "RouterOutput")
           p3 == Paying1(paid.router2, "RouterOutput")
           outs == p1 \o p2 \o p3
           tx == Tx("Fee", << >>, outs, 0)
<1>1. /\ paid.miner \in Nat /\ paid.router1 \in Nat /\ paid.router2 \in Nat
      /\ {"MinerOutput", "RouterOutput"} \subseteq SlipTypes
  BY DEF PayoutSet, SlipTypes
<1>2. p1 \in Seq(Slips) /\ SumSeq(Values(p1)) = paid.miner
  <2>1. << >> \in Seq(Slips) /\ SumSeq(Values(<< >>)) = 0
    <3>1. Values(<< >>) = << >>
      BY DEF Values
    <3> QED BY <3>1, SumEmpty
  <2>2. << >> \o p1 \in Seq(Slips) /\ SumSeq(Values(<< >> \o p1)) = 0 + paid.miner
    BY <1>1, <2>1, ValueOfPayout
  <2>3. << >> \o p1 = p1
    BY DEF Paying1
  <2> HIDE DEF p1
  <2> QED BY <1>1, <2>2, <2>3
<1>3. p1 \o p2 \in Seq(Slips) /\ SumSeq(Values(p1 \o p2)) = paid.miner + paid.router1
  <2> HIDE DEF p1
  <2> QED BY <1>1, <1>2, ValueOfPayout
<1>4. outs \in Seq(Slips) /\ SumSeq(Values(outs)) = paid.miner + paid.router1 + paid.router2
  <2> DEFINE q == p1 \o p2
  <2>1. q \in Seq(Slips) /\ SumSeq(Values(q)) = paid.miner + paid.router1
    BY <1>3
  <2> HIDE DEF q
  <2>2. q \o p3 \in Seq(Slips) /\ SumSeq(Values(q \o p3)) = SumSeq(Values(q)) + paid.router2
    BY <1>1, <2>1, ValueOfPayout
  <2> QED BY <2>1, <2>2 DEF q
<1>5. FeeTx(paid) = Placed(tx, 0, 0)
  BY DEF FeeTx, Paying1
<1> HIDE DEF outs
<1>6. tx \in TxSet /\ tx.type = "Fee" /\ tx.outs = outs
  <2>1. << >> \in Seq(Slips)
    OBVIOUS
  <2> QED BY <1>4, <2>1 DEF Tx, TxSet, TxTypes
<1>7. TotalOut(tx) = SumSeq(Values(outs))
  BY <1>6, Zenon DEF TotalOut, SumOf, Values
<1> HIDE DEF tx
<1>8. /\ Placed(tx, 0, 0) \in TxSet /\ Placed(tx, 0, 0).type = tx.type
      /\ TotalOut(Placed(tx, 0, 0)) = TotalOut(tx)
  BY <1>6, PlacedFacts
<1> QED BY <1>4, <1>5, <1>6, <1>7, <1>8 DEF Payment

-----------------------------------------------------------------------------
(* Averages and payouts.                                                   *)

\* The division that truncates towards zero never exceeds its dividend.
LEMMA QuotientType ==
    ASSUME NEW a \in Int, NEW n \in Nat \ {0}
    PROVE  /\ Quotient(a, n) \in Int
           /\ a >= 0 => Quotient(a, n) <= a
           /\ a < 0 => Quotient(a, n) <= 0
BY DEF Quotient

\* An average of naturals is one.
LEMMA SmoothedType ==
    /\ \A avg, x \in Int : Smoothed(avg, x) \in Int
    /\ \A avg, x \in Nat : Smoothed(avg, x) \in Nat
<1> SUFFICES ASSUME NEW avg \in Int, NEW x \in Int
             PROVE  /\ Smoothed(avg, x) \in Int
                    /\ avg \in Nat /\ x \in Nat => Smoothed(avg, x) \in Nat
  OBVIOUS
<1>1. GenesisPeriod \in Nat \ {0}
  BY LedgerAssumption
<1>2. avg - x \in Int
  OBVIOUS
<1>3. /\ Quotient(avg - x, GenesisPeriod) \in Int
      /\ avg - x >= 0 => Quotient(avg - x, GenesisPeriod) <= avg - x
      /\ avg - x < 0 => Quotient(avg - x, GenesisPeriod) <= 0
  BY <1>1, <1>2, QuotientType
<1> QED BY <1>3 DEF Smoothed

\* Payouts of this amount in all.
Pays(p, amount) == p \in PayoutSet /\ Payment(p) + p.treasury + p.graveyard = amount

\* The halves of the fees, and what the cap leaves of them, add up.
LEMMA CappedPayoutsFacts ==
    ASSUME NEW fees \in Nat, NEW feesBefore \in Nat, NEW cap \in Nat
    PROVE  Pays(CappedPayouts(fees, feesBefore, cap), fees + feesBefore)
<1> DEFINE p == CappedPayouts(fees, feesBefore, cap)
           miner == fees \div 2
           router == fees - miner
           treasury == feesBefore \div 2
           router2 == feesBefore - treasury
           over(x) == x - Least(x, cap)
<1>1. miner \in Nat /\ router \in Nat /\ treasury \in Nat /\ router2 \in Nat
  OBVIOUS
<1>2. /\ miner + router = fees
      /\ treasury + router2 = feesBefore
  BY <1>1
<1>3. p = [miner |-> Least(miner, cap), router1 |-> Least(router, cap),
           router2 |-> Least(router2, cap), treasury |-> Least(treasury, cap),
           graveyard |-> over(miner) + over(router) + over(treasury) + over(router2)]
  BY DEF CappedPayouts
<1> HIDE DEF p, miner, router, treasury, router2
<1>4. \A x \in Nat : Least(x, cap) \in Nat /\ over(x) \in Nat /\ Least(x, cap) + over(x) = x
  BY DEF Least
<1> HIDE DEF over
<1>5. /\ Least(miner, cap) \in Nat /\ over(miner) \in Nat
      /\ Least(router, cap) \in Nat /\ over(router) \in Nat
      /\ Least(treasury, cap) \in Nat /\ over(treasury) \in Nat
      /\ Least(router2, cap) \in Nat /\ over(router2) \in Nat
  BY <1>1, <1>4
<1>6. /\ Least(miner, cap) + over(miner) = miner
      /\ Least(router, cap) + over(router) = router
      /\ Least(treasury, cap) + over(treasury) = treasury
      /\ Least(router2, cap) + over(router2) = router2
  BY <1>1, <1>4
<1>7. p \in PayoutSet
  BY <1>3, <1>5 DEF PayoutSet
<1>8. /\ Payment(p) = Least(miner, cap) + Least(router, cap) + Least(router2, cap)
      /\ p.treasury = Least(treasury, cap)
      /\ p.graveyard = over(miner) + over(router) + over(treasury) + over(router2)
  BY <1>3 DEF Payment
<1>9. Payment(p) + p.treasury + p.graveyard = fees + feesBefore
  BY <1>1, <1>2, <1>5, <1>6, <1>8
<1> QED BY <1>7, <1>9 DEF Pays, p

\* Burning the payout of a router that is not there keeps the sum.
LEMMA SettledFacts ==
    ASSUME NEW pay \in PayoutSet, NEW won1, NEW won2, NEW p, p = Settled(pay, won1, won2)
    PROVE  /\ p \in PayoutSet
           /\ p.treasury = pay.treasury
           /\ Payment(p) + p.graveyard = Payment(pay) + pay.graveyard
<1>1. PICK lost1 : lost1 = IF won1 THEN 0 ELSE pay.router1
  OBVIOUS
<1>2. PICK lost2 : lost2 = IF won2 THEN 0 ELSE pay.router2
  OBVIOUS
<1>3. /\ pay.miner \in Nat /\ pay.router1 \in Nat /\ pay.router2 \in Nat
      /\ pay.treasury \in Nat /\ pay.graveyard \in Nat
  BY DEF PayoutSet
<1>4. /\ lost1 = 0 \/ lost1 = pay.router1
      /\ lost2 = 0 \/ lost2 = pay.router2
  BY <1>1, <1>2
<1>5. p = [pay EXCEPT !.router1 = @ - lost1, !.router2 = @ - lost2,
                      !.graveyard = @ + lost1 + lost2]
  BY <1>1, <1>2 DEF Settled
<1>6. p = [miner |-> pay.miner, router1 |-> pay.router1 - lost1,
           router2 |-> pay.router2 - lost2, treasury |-> pay.treasury,
           graveyard |-> pay.graveyard + lost1 + lost2]
  BY <1>5 DEF PayoutSet
<1>7. p \in PayoutSet
  BY <1>3, <1>4, <1>6 DEF PayoutSet
<1>8. /\ p.treasury = pay.treasury
      /\ p.graveyard = pay.graveyard + lost1 + lost2
      /\ Payment(p) = pay.miner + (pay.router1 - lost1) + (pay.router2 - lost2)
  BY <1>6 DEF Payment
<1> QED BY <1>3, <1>4, <1>7, <1>8 DEF Payment

-----------------------------------------------------------------------------
(* Winding and unwinding.                                                  *)

\* The slips of transactions are slips.
LEMMA ValuedType ==
    ASSUME NEW tx \in TxSet
    PROVE  Valued(tx.ins) \subseteq Slips /\ Valued(tx.outs) \subseteq Slips
<1>1. tx.ins \in Seq(Slips) /\ tx.outs \in Seq(Slips)
  BY DEF TxSet
<1> QED BY <1>1 DEF Valued

\* What winding transactions leaves, transaction by transaction.
LEMMA WindTxsSteps ==
    ASSUME NEW utxo \in SUBSET Slips, NEW txs \in Seq(TxSet)
    PROVE  \E w \in [0 .. Len(txs) -> SUBSET Slips] :
              /\ w[0] = utxo /\ w[Len(txs)] = WindTxs(utxo, txs)
              /\ \A k \in 1 .. Len(txs) :
                   w[k] = (w[k - 1] \ Valued(txs[k].ins)) \cup Valued(txs[k].outs)
<1> DEFINE n == Len(txs)
           D == 1 .. n
           S == SUBSET Slips
           Op(u, tx) == (u \ Valued(tx.ins)) \cup Valued(tx.outs)
           fold == CHOOSE g : g = [t \in SUBSET D |->
                      IF t = {} THEN utxo ELSE Op(g[t \ {Max(t)}], txs[Max(t)])]
           step == [e \in S \X D |-> Op(e[1], txs[e[2]])]
<1>1. n \in Nat /\ DOMAIN txs = D /\ \A i \in D : txs[i] \in TxSet
  OBVIOUS
<1>2. WindTxs(utxo, txs) = fold[D]
  BY <1>1, Zenon DEF WindTxs, FoldLeft, MapThenFoldSet
<1>3. \A u \in S, i \in D : Op(u, txs[i]) \in S
  BY <1>1, ValuedType
<1> HIDE DEF Op
<1>4. step \in [S \X D -> S]
  BY <1>3
<1>5. PICK g \in [SUBSET D -> S] : FoldsUp(g, n, utxo, step)
  <2>1. utxo \in S /\ n \in Nat /\ step \in [S \X (1 .. n) -> S]
    BY <1>1, <1>4
  <2> HIDE DEF step, S, n, fold
  <2> QED BY <2>1, FoldWitness
<1>6. \A t \in SUBSET D : t # {} => Max(t) \in D
  BY <1>1, MaxExists
<1>7. \A t \in SUBSET D :
        t # {} => step[<<g[t \ {Max(t)}], Max(t)>>] = Op(g[t \ {Max(t)}], txs[Max(t)])
  BY <1>5, <1>6
<1>8. g = [t \in SUBSET D |->
             IF t = {} THEN utxo ELSE Op(g[t \ {Max(t)}], txs[Max(t)])]
  <2> HIDE DEF step
  <2> QED BY <1>5, <1>7 DEF FoldsUp
<1>9. fold = [t \in SUBSET D |->
                IF t = {} THEN utxo ELSE Op(fold[t \ {Max(t)}], txs[Max(t)])]
  BY <1>8
<1> HIDE DEF fold
<1>10. ASSUME NEW k \in 1 .. n PROVE fold[1 .. k] = Op(fold[1 .. k - 1], txs[k])
  <2>1. /\ 1 .. k \in SUBSET D /\ 1 .. k # {}
        /\ Max(1 .. k) = k /\ (1 .. k) \ {Max(1 .. k)} = 1 .. k - 1
    BY <1>1, FirstPositions
  <2> QED BY <1>9, <2>1
<1>11. fold[1 .. 0] = utxo
  <2>1. 1 .. 0 = {}
    OBVIOUS
  <2> QED BY <1>9, <2>1
<1> DEFINE T == {k \in 0 .. n : fold[1 .. k] \in S}
<1>12. T = 0 .. n
  <2>1. 0 \in T
    BY <1>1, <1>11
  <2>2. ASSUME NEW k \in T, k < n PROVE k + 1 \in T
    <3>1. k + 1 \in 1 .. n /\ (k + 1) - 1 = k
      BY <1>1, <2>2
    <3>2. fold[1 .. k + 1] = Op(fold[1 .. k], txs[k + 1])
      BY <3>1, <1>10
    <3>3. fold[1 .. k] \in S
      OBVIOUS
    <3> HIDE DEF S
    <3> QED BY <1>1, <1>3, <3>1, <3>2, <3>3
  <2>3. T \subseteq 0 .. n
    OBVIOUS
  <2> HIDE DEF T
  <2> QED BY <1>1, <2>1, <2>2, <2>3, RangeInduction
<1> DEFINE w == [k \in 0 .. n |-> fold[1 .. k]]
<1>13. w \in [0 .. n -> S]
  BY <1>12
<1>14. w[0] = utxo /\ w[n] = fold[D]
  BY <1>1, <1>11
<1>15. \A k \in 1 .. n : w[k] = Op(w[k - 1], txs[k])
  BY <1>1, <1>10
<1> HIDE DEF w
<1> QED BY <1>2, <1>13, <1>14, <1>15 DEF Op, S

\* So winding leaves a set of slips.
LEMMA WindTxsType ==
    ASSUME NEW utxo \in SUBSET Slips, NEW txs \in Seq(TxSet)
    PROVE  WindTxs(utxo, txs) \in SUBSET Slips
<1>1. Len(txs) \in 0 .. Len(txs)
  OBVIOUS
<1> QED BY <1>1, WindTxsSteps

\* What unwinding transactions leaves, transaction by transaction.
LEMMA UnwindTxsSteps ==
    ASSUME NEW utxo \in SUBSET Slips, NEW txs \in Seq(TxSet)
    PROVE  \E w \in [0 .. Len(txs) -> SUBSET Slips] :
              /\ w[0] = utxo /\ w[Len(txs)] = UnwindTxs(utxo, txs)
              /\ \A k \in 1 .. Len(txs) :
                   w[k] = (w[k - 1] \cup Valued(txs[k].ins)) \ Valued(txs[k].outs)
<1> DEFINE n == Len(txs)
           D == 1 .. n
           S == SUBSET Slips
           Op(u, tx) == (u \cup Valued(tx.ins)) \ Valued(tx.outs)
           fold == CHOOSE g : g = [t \in SUBSET D |->
                      IF t = {} THEN utxo ELSE Op(g[t \ {Max(t)}], txs[Max(t)])]
           step == [e \in S \X D |-> Op(e[1], txs[e[2]])]
<1>1. n \in Nat /\ DOMAIN txs = D /\ \A i \in D : txs[i] \in TxSet
  OBVIOUS
<1>2. UnwindTxs(utxo, txs) = fold[D]
  BY <1>1, Zenon DEF UnwindTxs, FoldLeft, MapThenFoldSet
<1>3. \A u \in S, i \in D : Op(u, txs[i]) \in S
  BY <1>1, ValuedType
<1> HIDE DEF Op
<1>4. step \in [S \X D -> S]
  BY <1>3
<1>5. PICK g \in [SUBSET D -> S] : FoldsUp(g, n, utxo, step)
  <2>1. utxo \in S /\ n \in Nat /\ step \in [S \X (1 .. n) -> S]
    BY <1>1, <1>4
  <2> HIDE DEF step, S, n, fold
  <2> QED BY <2>1, FoldWitness
<1>6. \A t \in SUBSET D : t # {} => Max(t) \in D
  BY <1>1, MaxExists
<1>7. \A t \in SUBSET D :
        t # {} => step[<<g[t \ {Max(t)}], Max(t)>>] = Op(g[t \ {Max(t)}], txs[Max(t)])
  BY <1>5, <1>6
<1>8. g = [t \in SUBSET D |->
             IF t = {} THEN utxo ELSE Op(g[t \ {Max(t)}], txs[Max(t)])]
  <2> HIDE DEF step
  <2> QED BY <1>5, <1>7 DEF FoldsUp
<1>9. fold = [t \in SUBSET D |->
                IF t = {} THEN utxo ELSE Op(fold[t \ {Max(t)}], txs[Max(t)])]
  BY <1>8
<1> HIDE DEF fold
<1>10. ASSUME NEW k \in 1 .. n PROVE fold[1 .. k] = Op(fold[1 .. k - 1], txs[k])
  <2>1. /\ 1 .. k \in SUBSET D /\ 1 .. k # {}
        /\ Max(1 .. k) = k /\ (1 .. k) \ {Max(1 .. k)} = 1 .. k - 1
    BY <1>1, FirstPositions
  <2> QED BY <1>9, <2>1
<1>11. fold[1 .. 0] = utxo
  <2>1. 1 .. 0 = {}
    OBVIOUS
  <2> QED BY <1>9, <2>1
<1> DEFINE T == {k \in 0 .. n : fold[1 .. k] \in S}
<1>12. T = 0 .. n
  <2>1. 0 \in T
    BY <1>1, <1>11
  <2>2. ASSUME NEW k \in T, k < n PROVE k + 1 \in T
    <3>1. k + 1 \in 1 .. n /\ (k + 1) - 1 = k
      BY <1>1, <2>2
    <3>2. fold[1 .. k + 1] = Op(fold[1 .. k], txs[k + 1])
      BY <3>1, <1>10
    <3>3. fold[1 .. k] \in S
      OBVIOUS
    <3> HIDE DEF S
    <3> QED BY <1>1, <1>3, <3>1, <3>2, <3>3
  <2>3. T \subseteq 0 .. n
    OBVIOUS
  <2> HIDE DEF T
  <2> QED BY <1>1, <2>1, <2>2, <2>3, RangeInduction
<1> DEFINE w == [k \in 0 .. n |-> fold[1 .. k]]
<1>13. w \in [0 .. n -> S]
  BY <1>12
<1>14. w[0] = utxo /\ w[n] = fold[D]
  BY <1>1, <1>11
<1>15. \A k \in 1 .. n : w[k] = Op(w[k - 1], txs[k])
  BY <1>1, <1>10
<1> HIDE DEF w
<1> QED BY <1>2, <1>13, <1>14, <1>15 DEF Op, S

\* So unwinding leaves a set of slips.
LEMMA UnwindTxsType ==
    ASSUME NEW utxo \in SUBSET Slips, NEW txs \in Seq(TxSet)
    PROVE  UnwindTxs(utxo, txs) \in SUBSET Slips
<1>1. Len(txs) \in 0 .. Len(txs)
  OBVIOUS
<1> QED BY <1>1, UnwindTxsSteps

-----------------------------------------------------------------------------
(* What is rebroadcast.                                                    *)

Entries == [slip : Slips, tx : TxSet]

\* Those that are still spendable.
Spendables(utxo) == {e \in Entries : SlipValid(e.slip, utxo)}

\* The outputs of one transaction that are still spendable, after those of s.
EligibleOf(s, tx, utxo) ==
    FoldLeft(LAMBDA t, o : IF SlipValid(o, utxo) THEN Append(t, [slip |-> o, tx |-> tx]) ELSE t,
             s, tx.outs)

\* One transaction adds only its own spendable slips to what is rebroadcast.
LEMMA EligibleOfType ==
    ASSUME NEW utxo, NEW s \in Seq(Spendables(utxo)), NEW tx \in TxSet
    PROVE  EligibleOf(s, tx, utxo) \in Seq(Spendables(utxo))
<1> DEFINE n == Len(tx.outs)
           D == 1 .. n
           S == Seq(Spendables(utxo))
           Op(t, o) == IF SlipValid(o, utxo) THEN Append(t, [slip |-> o, tx |-> tx]) ELSE t
           fold == CHOOSE g : g = [t \in SUBSET D |->
                      IF t = {} THEN s ELSE Op(g[t \ {Max(t)}], tx.outs[Max(t)])]
           step == [e \in S \X D |-> Op(e[1], tx.outs[e[2]])]
<1>1. n \in Nat /\ DOMAIN tx.outs = D /\ \A i \in D : tx.outs[i] \in Slips
  BY DEF TxSet
<1>2. EligibleOf(s, tx, utxo) = fold[D]
  BY <1>1, Zenon DEF EligibleOf, FoldLeft, MapThenFoldSet
<1>3. \A t \in S, i \in D : Op(t, tx.outs[i]) \in S
  <2> SUFFICES ASSUME NEW t \in S, NEW i \in D PROVE Op(t, tx.outs[i]) \in S
    OBVIOUS
  <2> DEFINE e == [slip |-> tx.outs[i], tx |-> tx]
  <2>1. e \in Entries /\ e.slip = tx.outs[i]
    BY <1>1 DEF Entries
  <2>2. CASE SlipValid(tx.outs[i], utxo)
    <3>1. e \in Spendables(utxo)
      BY <2>1, <2>2 DEF Spendables
    <3> HIDE DEF e
    <3>2. Append(t, e) \in S
      BY <3>1
    <3> QED BY <2>2, <3>2 DEF e
  <2>3. CASE ~ SlipValid(tx.outs[i], utxo)
    BY <2>3
  <2> QED BY <2>2, <2>3
<1> HIDE DEF Op
<1>4. step \in [S \X D -> S]
  BY <1>3
<1>5. PICK g \in [SUBSET D -> S] : FoldsUp(g, n, s, step)
  <2>1. s \in S /\ n \in Nat /\ step \in [S \X (1 .. n) -> S]
    BY <1>1, <1>4
  <2> HIDE DEF step, S, n, fold
  <2> QED BY <2>1, FoldWitness
<1>6. \A t \in SUBSET D : t # {} => Max(t) \in D
  BY <1>1, MaxExists
<1>7. \A t \in SUBSET D :
        t # {} => step[<<g[t \ {Max(t)}], Max(t)>>] = Op(g[t \ {Max(t)}], tx.outs[Max(t)])
  BY <1>5, <1>6
<1>8. g = [t \in SUBSET D |->
             IF t = {} THEN s ELSE Op(g[t \ {Max(t)}], tx.outs[Max(t)])]
  <2> HIDE DEF step
  <2> QED BY <1>5, <1>7 DEF FoldsUp
<1>9. fold = [t \in SUBSET D |->
                IF t = {} THEN s ELSE Op(fold[t \ {Max(t)}], tx.outs[Max(t)])]
  BY <1>8
<1> HIDE DEF fold
<1>10. \A k \in 1 .. n : fold[1 .. k - 1] \in S => fold[1 .. k] \in S
  <2> SUFFICES ASSUME NEW k \in 1 .. n, fold[1 .. k - 1] \in S PROVE fold[1 .. k] \in S
    OBVIOUS
  <2>1. /\ 1 .. k \in SUBSET D /\ 1 .. k # {}
        /\ Max(1 .. k) = k /\ (1 .. k) \ {Max(1 .. k)} = 1 .. k - 1
    BY <1>1, FirstPositions
  <2>2. fold[1 .. k] = Op(fold[1 .. k - 1], tx.outs[k])
    BY <1>9, <2>1
  <2>3. k \in D /\ fold[1 .. k - 1] \in S
    OBVIOUS
  <2> HIDE DEF D, S
  <2> QED BY <1>3, <2>2, <2>3
<1>11. fold[{}] \in S
  BY <1>9
<1> HIDE DEF S
<1>12. fold[D] \in S
  BY <1>1, <1>10, <1>11, FoldTyped
<1> QED BY <1>2, <1>12 DEF S

\* What a block has left to rebroadcast are spendable slips with their transactions.
LEMMA EligibleType ==
    ASSUME NEW txs \in Seq(TxSet), NEW utxo
    PROVE  Eligible(txs, utxo) \in Seq(Spendables(utxo))
<1> DEFINE n == Len(txs)
           D == 1 .. n
           S == Seq(Spendables(utxo))
           Op(s, tx) == EligibleOf(s, tx, utxo)
           fold == CHOOSE g : g = [t \in SUBSET D |->
                      IF t = {} THEN << >> ELSE Op(g[t \ {Max(t)}], txs[Max(t)])]
           step == [e \in S \X D |-> Op(e[1], txs[e[2]])]
<1>1. n \in Nat /\ DOMAIN txs = D /\ \A i \in D : txs[i] \in TxSet
  OBVIOUS
<1>2. Eligible(txs, utxo) = fold[D]
  BY <1>1, Zenon DEF Eligible, EligibleOf, FoldLeft, MapThenFoldSet
<1>3. \A s \in S, i \in D : Op(s, txs[i]) \in S
  BY <1>1, EligibleOfType
<1> HIDE DEF Op
<1>4. step \in [S \X D -> S]
  BY <1>3
<1>5. PICK g \in [SUBSET D -> S] : FoldsUp(g, n, << >>, step)
  <2>1. << >> \in S /\ n \in Nat /\ step \in [S \X (1 .. n) -> S]
    BY <1>1, <1>4
  <2> HIDE DEF step, S, n, fold
  <2> QED BY <2>1, FoldWitness
<1>6. \A t \in SUBSET D : t # {} => Max(t) \in D
  BY <1>1, MaxExists
<1>7. \A t \in SUBSET D :
        t # {} => step[<<g[t \ {Max(t)}], Max(t)>>] = Op(g[t \ {Max(t)}], txs[Max(t)])
  BY <1>5, <1>6
<1>8. g = [t \in SUBSET D |->
             IF t = {} THEN << >> ELSE Op(g[t \ {Max(t)}], txs[Max(t)])]
  <2> HIDE DEF step
  <2> QED BY <1>5, <1>7 DEF FoldsUp
<1>9. fold = [t \in SUBSET D |->
                IF t = {} THEN << >> ELSE Op(fold[t \ {Max(t)}], txs[Max(t)])]
  BY <1>8
<1> HIDE DEF fold
<1>10. \A k \in 1 .. n : fold[1 .. k - 1] \in S => fold[1 .. k] \in S
  <2> SUFFICES ASSUME NEW k \in 1 .. n, fold[1 .. k - 1] \in S PROVE fold[1 .. k] \in S
    OBVIOUS
  <2>1. /\ 1 .. k \in SUBSET D /\ 1 .. k # {}
        /\ Max(1 .. k) = k /\ (1 .. k) \ {Max(1 .. k)} = 1 .. k - 1
    BY <1>1, FirstPositions
  <2>2. fold[1 .. k] = Op(fold[1 .. k - 1], txs[k])
    BY <1>9, <2>1
  <2>3. k \in D /\ fold[1 .. k - 1] \in S
    OBVIOUS
  <2> HIDE DEF D, S
  <2> QED BY <1>3, <2>2, <2>3
<1>11. fold[{}] \in S
  BY <1>9
<1> HIDE DEF S
<1>12. fold[D] \in S
  BY <1>1, <1>10, <1>11, FoldTyped
<1> QED BY <1>2, <1>12 DEF S

\* Rebroadcasts move one slip, and there are none without value to move.
AtrTxs == {tx \in TxSet : tx.type = "ATR" /\ Len(tx.ins) = 1 /\ Len(tx.outs) = 1}

AtrFields == [txs : Seq(AtrTxs), nolan : Nat, fees : Nat, dust : Nat, payout : Int]

Atrs == {atr \in AtrFields : atr.nolan = 0 => atr.txs = << >> /\ atr.payout = 0}

\* A rebroadcast has one input and one output.
LEMMA RebroadcastTxType ==
    ASSUME NEW tx \in TxSet, NEW from \in Slips, NEW to \in Slips
    PROVE  RebroadcastTx(tx, from, to) \in AtrTxs
<1> DEFINE ins == <<from>>
           outs == <<to>>
           new == [type |-> "ATR", ins |-> ins, outs |-> outs, hops |-> 0, orig |-> tx.orig]
<1>1. ins \in Seq(Slips) /\ Len(ins) = 1 /\ outs \in Seq(Slips) /\ Len(outs) = 1
  OBVIOUS
<1> HIDE DEF ins, outs
<1>2. tx.orig \in [sent : BOOLEAN, hops : Nat] /\ "ATR" \in TxTypes /\ 0 \in Nat
  BY DEF TxSet, TxTypes
<1>3. new \in TxSet /\ new.type = "ATR" /\ new.ins = ins /\ new.outs = outs
  BY <1>1, <1>2 DEF TxSet
<1>4. RebroadcastTx(tx, from, to) = Placed(new, 0, 0)
  BY DEF RebroadcastTx, ins, outs
<1> HIDE DEF new
<1>5. /\ Placed(new, 0, 0) \in TxSet /\ Placed(new, 0, 0).type = new.type
      /\ Len(Placed(new, 0, 0).outs) = Len(new.outs)
  BY <1>3, PlacedFacts
<1>6. Placed(new, 0, 0).ins = new.ins
  BY <1>3 DEF Placed, TxSet
<1> QED BY <1>1, <1>3, <1>4, <1>5, <1>6 DEF AtrTxs

\* Rebroadcasting or collecting one slip keeps the totals natural numbers.
LEMMA RebroadcastType ==
    ASSUME NEW e \in Entries, NEW multiplier \in Int, NEW fee \in Nat, NEW atr \in Atrs
    PROVE  Rebroadcast(e, multiplier, fee, atr) \in Atrs
<1> DEFINE amount == e.slip.amount
           worth == amount * multiplier
           from == [e.slip EXCEPT !.amount = worth]
           to == [e.slip EXCEPT !.amount = worth - fee, !.type = "ATR"]
           tx == RebroadcastTx(e.tx, from, to)
           new == Rebroadcast(e, multiplier, fee, atr)
<1>1. e.slip \in Slips /\ e.tx \in TxSet /\ amount \in Nat
  BY DEF Entries, Slips
<1>2. /\ atr \in AtrFields
      /\ atr.txs \in Seq(AtrTxs) /\ atr.nolan \in Nat /\ atr.fees \in Nat
      /\ atr.dust \in Nat /\ atr.payout \in Int
      /\ atr.nolan = 0 => atr.txs = << >> /\ atr.payout = 0
  BY DEF Atrs, AtrFields
<1>3. worth \in Int /\ (amount = 0 => worth = 0)
  BY <1>1
<1>4. CASE worth > fee
  <2>1. worth \in Nat /\ worth - fee \in Nat /\ amount > 0
    <3> HIDE DEF worth, amount
    <3> QED BY <1>1, <1>3, <1>4
  <2> HIDE DEF worth
  <2>2. from \in Slips /\ to \in Slips
    BY <1>1, <2>1 DEF Slips, SlipTypes
  <2> HIDE DEF from, to
  <2>3. tx \in AtrTxs
    BY <1>1, <2>2, RebroadcastTxType
  <2>4. new = [atr EXCEPT !.txs = Append(@, tx), !.nolan = @ + amount, !.fees = @ + fee,
                          !.payout = @ + worth - amount]
    BY <1>4 DEF Rebroadcast, worth, from, to
  <2> HIDE DEF tx, amount, new
  <2>5. Append(atr.txs, tx) \in Seq(AtrTxs)
    BY <1>2, <2>3
  <2>6. new = [txs |-> Append(atr.txs, tx), nolan |-> atr.nolan + amount,
               fees |-> atr.fees + fee, dust |-> atr.dust,
               payout |-> atr.payout + worth - amount]
    BY <1>2, <2>4 DEF AtrFields
  <2>7. /\ atr.nolan + amount \in Nat /\ atr.fees + fee \in Nat
        /\ atr.payout + worth - amount \in Int /\ atr.nolan + amount # 0
    BY SMTT(40), <1>1, <1>2, <2>1
  <2>8. new \in AtrFields /\ new.nolan # 0
    BY <1>2, <2>5, <2>6, <2>7 DEF AtrFields
  <2> QED BY <2>8 DEF Atrs, new
<1>5. CASE ~ (worth > fee)
  <2>1. new = [atr EXCEPT !.nolan = @ + amount, !.fees = @ + amount, !.dust = @ + amount]
    BY <1>5 DEF Rebroadcast
  <2> HIDE DEF amount, new, worth, from, to, tx
  <2>2. new = [txs |-> atr.txs, nolan |-> atr.nolan + amount, fees |-> atr.fees + amount,
               dust |-> atr.dust + amount, payout |-> atr.payout]
    BY <1>2, <2>1 DEF AtrFields
  <2>3. /\ atr.nolan + amount \in Nat /\ atr.fees + amount \in Nat
        /\ atr.dust + amount \in Nat
        /\ atr.nolan + amount = 0 => atr.nolan = 0
    <3>1. amount \in Nat /\ atr.nolan \in Nat /\ atr.fees \in Nat /\ atr.dust \in Nat
      BY <1>1, <1>2
    <3> QED BY <3>1
  <2>4. new \in AtrFields
    BY <1>2, <2>2, <2>3 DEF AtrFields
  <2>5. new.nolan = 0 => new.txs = << >> /\ new.payout = 0
    BY <1>2, <2>2, <2>3
  <2> QED BY <2>4, <2>5 DEF Atrs, new
<1> QED BY <1>4, <1>5

\* The totals before the first slip.
LEMMA NothingRebroadcastType == NothingRebroadcast \in Atrs
<1>1. << >> \in Seq(AtrTxs)
  OBVIOUS
<1> QED BY <1>1 DEF NothingRebroadcast, Atrs, AtrFields

\* Everything in es, rebroadcast.
AllRebroadcast(es, multiplier, fee) ==
    FoldLeft(LAMBDA atr, e : Rebroadcast(e, multiplier, fee, atr), NothingRebroadcast, es)

\* The totals after any number of slips are where those after one more stay.
LEMMA AllRebroadcastStays ==
    ASSUME NEW E, NEW es \in Seq(E), NEW multiplier, NEW fee,
           NEW S, NothingRebroadcast \in S,
           \A e \in E, atr \in S : Rebroadcast(e, multiplier, fee, atr) \in S
    PROVE  AllRebroadcast(es, multiplier, fee) \in S
<1> DEFINE n == Len(es)
           D == 1 .. n
           Op(atr, e) == Rebroadcast(e, multiplier, fee, atr)
           fold == CHOOSE g : g = [t \in SUBSET D |->
                      IF t = {} THEN NothingRebroadcast ELSE Op(g[t \ {Max(t)}], es[Max(t)])]
           step == [x \in S \X D |-> Op(x[1], es[x[2]])]
<1>1. n \in Nat /\ DOMAIN es = D /\ \A i \in D : es[i] \in E
  OBVIOUS
<1>2. AllRebroadcast(es, multiplier, fee) = fold[D]
  BY <1>1, Zenon DEF AllRebroadcast, FoldLeft, MapThenFoldSet
<1>3. \A a \in S, i \in D : Op(a, es[i]) \in S
  BY <1>1
<1> HIDE DEF Op
<1>4. step \in [S \X D -> S]
  BY <1>3
<1>5. PICK g \in [SUBSET D -> S] : FoldsUp(g, n, NothingRebroadcast, step)
  <2>1. NothingRebroadcast \in S /\ n \in Nat /\ step \in [S \X (1 .. n) -> S]
    BY <1>1, <1>4
  <2> HIDE DEF step, n, fold
  <2> QED BY <2>1, FoldWitness
<1>6. \A t \in SUBSET D : t # {} => Max(t) \in D
  BY <1>1, MaxExists
<1>7. \A t \in SUBSET D :
        t # {} => step[<<g[t \ {Max(t)}], Max(t)>>] = Op(g[t \ {Max(t)}], es[Max(t)])
  BY <1>5, <1>6
<1>8. g = [t \in SUBSET D |->
             IF t = {} THEN NothingRebroadcast ELSE Op(g[t \ {Max(t)}], es[Max(t)])]
  <2> HIDE DEF step
  <2> QED BY <1>5, <1>7 DEF FoldsUp
<1>9. fold = [t \in SUBSET D |->
                IF t = {} THEN NothingRebroadcast ELSE Op(fold[t \ {Max(t)}], es[Max(t)])]
  BY <1>8
<1> HIDE DEF fold
<1>10. \A k \in 1 .. n : fold[1 .. k - 1] \in S => fold[1 .. k] \in S
  <2> SUFFICES ASSUME NEW k \in 1 .. n, fold[1 .. k - 1] \in S PROVE fold[1 .. k] \in S
    OBVIOUS
  <2>1. /\ 1 .. k \in SUBSET D /\ 1 .. k # {}
        /\ Max(1 .. k) = k /\ (1 .. k) \ {Max(1 .. k)} = 1 .. k - 1
    BY <1>1, FirstPositions
  <2>2. fold[1 .. k] = Op(fold[1 .. k - 1], es[k])
    BY <1>9, <2>1
  <2>3. k \in D /\ fold[1 .. k - 1] \in S
    OBVIOUS
  <2> HIDE DEF D
  <2> QED BY <1>3, <2>2, <2>3
<1>11. fold[{}] \in S
  BY <1>9
<1>12. fold[D] \in S
  BY <1>1, <1>10, <1>11, FoldTyped
<1> QED BY <1>2, <1>12

\* So the totals stay numbers,
LEMMA AllRebroadcastType ==
    ASSUME NEW es \in Seq(Entries), NEW multiplier \in Int, NEW fee \in Nat
    PROVE  AllRebroadcast(es, multiplier, fee) \in Atrs
BY RebroadcastType, NothingRebroadcastType, AllRebroadcastStays

\* What the next block computes with of a header.
HeaderOK(h) ==
    /\ h.total_fees \in Nat /\ h.avg_total_fees \in Nat /\ h.avg_fee_per_byte \in Nat
    /\ h.avg_nolan_rebroadcast_per_block \in Int /\ h.treasury \in Int

BlockOK(b) == b.txs \in Seq(TxSet) /\ HeaderOK(b.header)

\* What the block after chain c rebroadcasts, before the cap.
LEMMA UncappedType ==
    ASSUME NEW c, NEW utxo, Len(c) \in Nat \ {0}, \A i \in 1 .. Len(c) : BlockOK(c[i])
    PROVE  Uncapped(c, utxo) \in Atrs
<1> DEFINE prev == c[Len(c)].header
           old == c[Len(c) - GenesisPeriod].txs
           staked == GenesisPeriod * prev.avg_nolan_rebroadcast_per_block
           multiplier == 1 + (IF staked > 0 THEN prev.treasury \div staked ELSE 0)
           fee == TxSize * prev.avg_fee_per_byte
<1>1. GenesisPeriod \in Nat \ {0} /\ TxSize \in Nat \ {0}
  BY LedgerAssumption
<1>2. HeaderOK(prev)
  BY DEF BlockOK
<1>3. fee \in Nat /\ staked \in Int
  <2>1. prev.avg_fee_per_byte \in Nat /\ prev.avg_nolan_rebroadcast_per_block \in Int
    BY <1>2 DEF HeaderOK
  <2> QED BY <1>1, <2>1
<1>4. multiplier \in Int
  <2>1. prev.treasury \in Int
    BY <1>2 DEF HeaderOK
  <2> HIDE DEF staked, prev
  <2> QED BY <1>3, <2>1
<1> HIDE DEF fee, multiplier
<1>5. CASE Len(c) <= GenesisPeriod
  <2>1. Uncapped(c, utxo) = NothingRebroadcast
    BY <1>5 DEF Uncapped
  <2> QED BY <2>1, NothingRebroadcastType
<1>6. CASE ~ (Len(c) <= GenesisPeriod)
  <2>1. old \in Seq(TxSet)
    <3>1. Len(c) - GenesisPeriod \in 1 .. Len(c)
      BY <1>1, <1>6
    <3> QED BY <3>1 DEF BlockOK
  <2> HIDE DEF old
  <2>2. Eligible(old, utxo) \in Seq(Entries)
    <3>1. Eligible(old, utxo) \in Seq(Spendables(utxo))
      BY <2>1, EligibleType
    <3>2. Spendables(utxo) \subseteq Entries
      BY DEF Spendables
    <3> QED BY <3>1, <3>2
  <2>3. AllRebroadcast(Eligible(old, utxo), multiplier, fee) \in Atrs
    BY <1>3, <1>4, <2>2, AllRebroadcastType
  <2>4. Uncapped(c, utxo) = AllRebroadcast(Eligible(old, utxo), multiplier, fee)
    BY <1>6, Zenon DEF Uncapped, AllRebroadcast, old, multiplier, fee
  <2> QED BY <2>3, <2>4
<1> QED BY <1>5, <1>6

\* One rebroadcast of Capped.
Recast(tx, multiplier) == [tx EXCEPT !.outs[1].amount = tx.ins[1].amount * multiplier]

\* A capped rebroadcast with the multiplier of a treasury that is too small pays its input.
LEMMA RecastType ==
    ASSUME NEW tx \in AtrTxs
    PROVE  Recast(tx, 1) \in AtrTxs
<1> DEFINE out == [tx.outs[1] EXCEPT !.amount = tx.ins[1].amount * 1]
           outs == [tx.outs EXCEPT ![1] = out]
<1>1. /\ tx \in TxSet /\ tx.type = "ATR" /\ tx.ins \in Seq(Slips) /\ Len(tx.ins) = 1
      /\ tx.outs \in Seq(Slips) /\ Len(tx.outs) = 1
  BY DEF AtrTxs, TxSet
<1>2. tx.ins[1] \in Slips /\ tx.outs[1] \in Slips
  BY <1>1
<1>3. tx.ins[1].amount * 1 \in Nat
  BY <1>2 DEF Slips
<1>4. out \in Slips
  BY <1>2, <1>3 DEF Slips
<1> HIDE DEF out
<1>5. outs \in Seq(Slips) /\ Len(outs) = 1
  <2> DEFINE old == tx.outs
  <2>1. old \in Seq(Slips) /\ Len(old) = 1
    BY <1>1
  <2> HIDE DEF old
  <2>2. [old EXCEPT ![1] = out] \in Seq(Slips) /\ Len([old EXCEPT ![1] = out]) = 1
    BY <1>4, <2>1
  <2> QED BY <2>2 DEF old
<1>6. Recast(tx, 1) = [tx EXCEPT !.outs = outs]
  BY <1>1 DEF Recast, out
<1> HIDE DEF outs
<1>7. Recast(tx, 1) \in TxSet
  BY <1>1, <1>5, <1>6 DEF TxSet
<1>8. /\ Recast(tx, 1).type = "ATR" /\ Recast(tx, 1).ins = tx.ins
      /\ Recast(tx, 1).outs = outs
  BY <1>1, <1>6 DEF TxSet
<1> QED BY <1>1, <1>5, <1>7, <1>8 DEF AtrTxs

\* The totals stay numbers when the payout is capped, whatever the treasury.
LEMMA CappedType ==
    ASSUME NEW atr \in Atrs, NEW treasury \in Int
    PROVE  /\ Capped(atr, treasury).fees \in Nat
           /\ Capped(atr, treasury).nolan \in Nat
           /\ Capped(atr, treasury).payout \in Int
<1> DEFINE most == FivePercent(treasury)
           multiplier == 1 + most \div atr.nolan
           paid == [i \in 1 .. Len(atr.txs) |-> atr.txs[i].ins[1].amount * (multiplier - 1)]
<1>1. /\ atr \in AtrFields
      /\ atr.txs \in Seq(AtrTxs) /\ atr.nolan \in Nat /\ atr.fees \in Nat /\ atr.payout \in Int
      /\ atr.nolan = 0 => atr.txs = << >>
  BY DEF Atrs, AtrFields
<1>2. CASE atr.payout <= most
  BY <1>1, <1>2 DEF Capped
<1>3. CASE ~ (atr.payout <= most)
  <2>1. paid \in Seq(Int)
    <3>1. ASSUME NEW i \in 1 .. Len(atr.txs)
          PROVE  atr.txs[i].ins[1].amount * (multiplier - 1) \in Int
      <4>1. atr.nolan \in Nat \ {0}
        BY <1>1
      <4>2. multiplier - 1 \in Int
        BY <4>1 DEF FivePercent
      <4>3. atr.txs[i].ins[1].amount \in Int
        <5>1. atr.txs[i] \in AtrTxs
          BY <1>1
        <5>2. \A tx \in AtrTxs : tx.ins[1] \in Slips
          BY DEF AtrTxs, TxSet
        <5> QED BY <5>1, <5>2 DEF Slips
      <4> HIDE DEF multiplier
      <4> QED BY <4>2, <4>3
    <3>2. Len(atr.txs) \in Nat
      BY <1>1
    <3> HIDE DEF multiplier
    <3> QED BY <3>1, <3>2
  <2>2. SumSeq(paid) \in Int
    BY <2>1, SumInt
  <2>3. /\ Capped(atr, treasury).fees = 0
        /\ Capped(atr, treasury).nolan = atr.nolan
        /\ Capped(atr, treasury).payout = SumSeq(paid)
    BY <1>1, <1>3 DEF Capped, SumOf, AtrFields
  <2> QED BY <1>1, <2>2, <2>3
<1> QED BY <1>2, <1>3

\* The cap that the producer applies, with no treasury yet, leaves rebroadcasts.
LEMMA CappedTxs ==
    ASSUME NEW atr \in Atrs
    PROVE  Capped(atr, 0).txs \in Seq(AtrTxs)
<1> DEFINE most == FivePercent(0)
           multiplier == 1 + most \div atr.nolan
           recast == [i \in 1 .. Len(atr.txs) |-> Recast(atr.txs[i], multiplier)]
<1>1. /\ atr \in AtrFields
      /\ atr.txs \in Seq(AtrTxs) /\ atr.nolan \in Nat /\ atr.payout \in Int
      /\ atr.nolan = 0 => atr.payout = 0
  BY DEF Atrs, AtrFields
<1>2. most = 0
  BY DEF FivePercent
<1>3. CASE atr.payout <= most
  BY <1>1, <1>3 DEF Capped
<1>4. CASE ~ (atr.payout <= most)
  <2>1. multiplier = 1
    <3>1. atr.nolan \in Nat \ {0}
      BY <1>1, <1>2, <1>4
    <3> QED BY <1>2, <3>1
  <2>2. \A i \in 1 .. Len(atr.txs) : Recast(atr.txs[i], multiplier) \in AtrTxs
    <3> HIDE DEF multiplier
    <3> QED BY <1>1, <2>1, RecastType
  <2>3. recast \in Seq(AtrTxs)
    <3>1. Len(atr.txs) \in Nat
      BY <1>1
    <3> HIDE DEF multiplier
    <3> QED BY <2>2, <3>1
  <2>4. Capped(atr, 0).txs = recast
    BY <1>1, <1>4 DEF Capped, Recast, AtrFields
  <2> QED BY <2>3, <2>4
<1> QED BY <1>3, <1>4

-----------------------------------------------------------------------------
(* Consensus values.                                                       *)

\* Fields of the header these proofs follow.
FeeFields == {"total_fees", "avg_total_fees", "avg_fee_per_byte",
              "avg_nolan_rebroadcast_per_block"}
PayoutFields == {"total_payout_treasury", "total_payout_graveyard", "total_payout_atr"}
Followed == FeeFields \cup PayoutFields \cup {"treasury"}

\* A new header has all the fields that the fees depend on.
LEMMA ZeroHeaderFields == Followed \subseteq DOMAIN ZeroHeader
BY DEF Followed, FeeFields, PayoutFields, ZeroHeader

\* Targets add no field to a header.
LEMMA WithTargetsFields ==
    ASSUME NEW h, NEW prev, NEW ticket, NEW elapsed
    PROVE  DOMAIN WithTargets(h, prev, ticket, elapsed) = DOMAIN h
BY DEF WithTargets

\* The fees of a header and their averages.
LEMMA WithFeesFields ==
    ASSUME NEW h, NEW prev, NEW new, NEW uncapped, NEW atr, Followed \subseteq DOMAIN h,
           NEW r, r = WithFees(h, prev, new, uncapped, atr)
    PROVE  /\ DOMAIN r = DOMAIN h
           /\ r.total_fees = new.fees + atr.fees
           /\ r.avg_total_fees = Smoothed(prev.avg_total_fees, new.fees + atr.fees)
           /\ r.avg_fee_per_byte = Smoothed(prev.avg_fee_per_byte, new.perByte)
           /\ r.avg_nolan_rebroadcast_per_block =
                Smoothed(prev.avg_nolan_rebroadcast_per_block, atr.nolan)
BY DEF WithFees, Followed, FeeFields

\* The payouts of a header; its fees stay.
LEMMA WithPayoutsFields ==
    ASSUME NEW h, NEW prev, NEW pay, NEW paid, NEW atr, Followed \subseteq DOMAIN h,
           NEW r, r = WithPayouts(h, prev, pay, paid, atr)
    PROVE  /\ DOMAIN r = DOMAIN h
           /\ r.total_payout_treasury = pay.treasury
           /\ r.total_payout_graveyard = paid.graveyard
           /\ r.total_payout_atr = atr.payout
           /\ r.total_fees = h.total_fees
           /\ r.avg_total_fees = h.avg_total_fees
           /\ r.avg_fee_per_byte = h.avg_fee_per_byte
           /\ r.avg_nolan_rebroadcast_per_block = h.avg_nolan_rebroadcast_per_block
BY DEF WithPayouts, Followed, FeeFields, PayoutFields

\* The treasury a new block names.
LEMMA CreatedHeaderFields ==
    ASSUME NEW c, NEW ticket, NEW h, Followed \subseteq DOMAIN h,
           NEW r, r = CreatedHeader(c, ticket, h)
    PROVE  /\ DOMAIN r = DOMAIN h
           /\ r.treasury = c[Len(c)].header.treasury + h.total_payout_treasury
                             - h.total_payout_atr
BY DEF CreatedHeader, Followed

\* The fees of new transactions are natural numbers.
LEMMA NewFeesType ==
    ASSUME NEW txs \in Seq(TxSet)
    PROVE  NewFees(txs).fees \in Nat /\ NewFees(txs).perByte \in Nat
<1> DEFINE paid == [i \in 1 .. Len(txs) |-> IF IsNew(txs[i]) THEN TotalFees(txs[i]) ELSE 0]
           fees == SumSeq(paid)
           N == {i \in DOMAIN txs : IsNew(txs[i])}
           new == Cardinality(N)
<1>1. \A i \in 1 .. Len(txs) : TotalFees(txs[i]) \in Nat
  BY TotalsType
<1>2. paid \in Seq(Nat)
  BY <1>1
<1>3. fees \in Nat
  <2> HIDE DEF paid
  <2> QED BY <1>2, SumNat
<1>4. new \in Nat
  <2>1. IsFiniteSet(1 .. Len(txs)) /\ DOMAIN txs = 1 .. Len(txs)
    BY FS_Interval
  <2>2. IsFiniteSet(N)
    BY <2>1, FS_Subset
  <2> HIDE DEF N
  <2> QED BY <2>2, FS_CardinalityType
<1>5. NewFees(txs) = [fees |-> fees,
                      perByte |-> IF new = 0 THEN 0 ELSE fees \div (new * TxSize)]
  BY Zenon DEF NewFees, SumOf
<1> HIDE DEF fees, new
<1>6. TxSize \in Nat \ {0}
  BY LedgerAssumption
<1>7. new # 0 => fees \div (new * TxSize) \in Nat
  <2>1. new # 0 => new * TxSize \in Nat \ {0}
    BY <1>4, <1>6
  <2> QED BY <1>3, <2>1
<1> QED BY <1>3, <1>5, <1>7

\* The header e the consensus values expect, given the rebroadcasts.
Expects(e, c, txs, ticket, atr) ==
    /\ Followed \subseteq DOMAIN e
    /\ e.total_fees = NewFees(txs).fees + atr.fees
    /\ e.avg_total_fees =
         Smoothed(c[Len(c)].header.avg_total_fees, NewFees(txs).fees + atr.fees)
    /\ e.avg_fee_per_byte =
         Smoothed(c[Len(c)].header.avg_fee_per_byte, NewFees(txs).perByte)
    /\ e.avg_nolan_rebroadcast_per_block =
         Smoothed(c[Len(c)].header.avg_nolan_rebroadcast_per_block, atr.nolan)
    /\ e.total_payout_treasury = Payouts(c, ticket).treasury
    /\ e.total_payout_graveyard = SettledAfter(c, ticket).graveyard
    /\ e.total_payout_atr = atr.payout

\* The fee transaction of the next block, if it has a ticket.
FeeGiven(c, ticket) ==
    IF ticket = NoTicket THEN << >> ELSE <<FeeTx(SettledAfter(c, ticket))>>

\* What generate_consensus_values expects of a block.
LEMMA ConsensusFields ==
    ASSUME NEW c, NEW utxo, NEW txs, NEW ticket, NEW elapsed, NEW treasury,
           NEW cv, cv = ConsensusValues(c, utxo, txs, ticket, elapsed, treasury),
           NEW atr, atr = Capped(Uncapped(c, utxo), treasury)
    PROVE  /\ Expects(cv.expected, c, txs, ticket, atr)
           /\ cv.rebroadcasts = atr.txs
           /\ cv.fee = FeeGiven(c, ticket)
<1>0. PICK prev : prev = c[Len(c)].header
  OBVIOUS
<1>1. PICK h1 : h1 = WithTargets(ZeroHeader, c[Len(c)], ticket, elapsed)
  OBVIOUS
<1>2. PICK h2 : h2 = WithFees(h1, prev, NewFees(txs), Uncapped(c, utxo), atr)
  OBVIOUS
<1>3. PICK h3 : h3 = WithPayouts(h2, prev, Payouts(c, ticket), SettledAfter(c, ticket), atr)
  OBVIOUS
<1>4. cv = [expected |-> h3, rebroadcasts |-> atr.txs,
            rebroadcastHash |-> HashesOf(Uncapped(c, utxo).txs),
            fee |-> FeeGiven(c, ticket)]
  BY <1>0, <1>1, <1>2, <1>3, Zenon DEF ConsensusValues, ValuesGiven, FeeGiven
<1>5. Followed \subseteq DOMAIN h1
  BY <1>1, ZeroHeaderFields, WithTargetsFields
<1>6. /\ DOMAIN h2 = DOMAIN h1
      /\ h2.total_fees = NewFees(txs).fees + atr.fees
      /\ h2.avg_total_fees = Smoothed(prev.avg_total_fees, NewFees(txs).fees + atr.fees)
      /\ h2.avg_fee_per_byte = Smoothed(prev.avg_fee_per_byte, NewFees(txs).perByte)
      /\ h2.avg_nolan_rebroadcast_per_block =
           Smoothed(prev.avg_nolan_rebroadcast_per_block, atr.nolan)
  BY <1>2, <1>5, WithFeesFields
<1>7. Followed \subseteq DOMAIN h2
  BY <1>5, <1>6
<1>8. /\ DOMAIN h3 = DOMAIN h2
      /\ h3.total_payout_treasury = Payouts(c, ticket).treasury
      /\ h3.total_payout_graveyard = SettledAfter(c, ticket).graveyard
      /\ h3.total_payout_atr = atr.payout
      /\ h3.total_fees = h2.total_fees
      /\ h3.avg_total_fees = h2.avg_total_fees
      /\ h3.avg_fee_per_byte = h2.avg_fee_per_byte
      /\ h3.avg_nolan_rebroadcast_per_block = h2.avg_nolan_rebroadcast_per_block
  BY <1>3, <1>7, WithPayoutsFields
<1>9. /\ cv.expected = h3 /\ cv.rebroadcasts = atr.txs
      /\ cv.fee = FeeGiven(c, ticket)
  BY <1>4
<1>10. Followed \subseteq DOMAIN h3
  BY <1>7, <1>8
<1> QED BY <1>0, <1>6, <1>8, <1>9, <1>10 DEF Expects

-----------------------------------------------------------------------------
(* What the next block pays.                                               *)

\* The fees a block after chain c pays out: those of its last block if the block
\* has a golden ticket, and those of the block before if they are still unpaid.
Due(c, ticket) ==
    (IF Len(c) > 1 /\ ~HasTicket(c[Len(c)]) THEN c[Len(c) - 1].header.total_fees ELSE 0)
    + (IF ticket # NoTicket THEN c[Len(c)].header.total_fees ELSE 0)

\* previous_block_unpaid is what its name says.
UnpaidOK(c) ==
    \A i \in 2 .. Len(c) : c[i].header.previous_block_unpaid =
        IF HasTicket(c[i]) THEN 0 ELSE c[i - 1].header.total_fees

ChainOK(c) ==
    /\ Len(c) \in Nat \ {0}
    /\ \A i \in 1 .. Len(c) : BlockOK(c[i])
    /\ UnpaidOK(c)

\* The payouts add up to the fees that are due, and there is nothing to pay to
\* miner and routers without a ticket.
LEMMA PayoutsFacts ==
    ASSUME NEW c, ChainOK(c), NEW ticket
    PROVE  /\ SettledAfter(c, ticket) \in PayoutSet
           /\ Payouts(c, ticket).treasury = SettledAfter(c, ticket).treasury
           /\ Payment(SettledAfter(c, ticket)) + SettledAfter(c, ticket).treasury
                + SettledAfter(c, ticket).graveyard = Due(c, ticket)
           /\ ticket = NoTicket => Payment(SettledAfter(c, ticket)) = 0
<1> DEFINE prev == c[Len(c)]
           unpaidBefore == ~HasTicket(prev) /\ Len(c) > 1
           before == IF unpaidBefore THEN c[Len(c) - 1].header.total_fees ELSE 0
           cap == OneAndHalf(prev.header.avg_total_fees)
<1>1. Len(c) \in Nat \ {0} /\ \A i \in 1 .. Len(c) : HeaderOK(c[i].header)
  BY DEF ChainOK, BlockOK
<1>2. /\ prev.header.total_fees \in Nat
      /\ prev.header.avg_total_fees \in Nat
  BY <1>1 DEF HeaderOK
<1>3. before \in Nat
  <2>1. CASE unpaidBefore
    <3>1. Len(c) - 1 \in 1 .. Len(c)
      BY <1>1, <2>1
    <3> QED BY <1>1, <3>1 DEF HeaderOK
  <2>2. CASE ~unpaidBefore
    BY <2>2
  <2> QED BY <2>1, <2>2
<1>4. cap \in Nat
  <2> HIDE DEF prev
  <2> QED BY <1>2 DEF OneAndHalf
<1>5. Due(c, ticket) = before + (IF ticket # NoTicket THEN prev.header.total_fees ELSE 0)
  BY DEF Due
<1>6. CASE ticket = NoTicket
  <2>1. unpaidBefore => prev.header.previous_block_unpaid = c[Len(c) - 1].header.total_fees
    <3>1. Len(c) > 1 => Len(c) \in 2 .. Len(c)
      BY <1>1
    <3> QED BY <3>1 DEF ChainOK, UnpaidOK
  <2>2. SettledAfter(c, ticket) = Payouts(c, ticket)
    BY <1>6 DEF SettledAfter
  <2>3. Payouts(c, ticket) = [NoPayouts EXCEPT !.graveyard = before]
    BY <1>6, <2>1 DEF Payouts
  <2> HIDE DEF before
  <2>4. Payouts(c, ticket) = [miner |-> 0, router1 |-> 0, router2 |-> 0, treasury |-> 0,
                              graveyard |-> before]
    BY <2>3 DEF NoPayouts
  <2>5. Due(c, ticket) = before
    BY <1>3, <1>5, <1>6
  <2>6. Payouts(c, ticket) \in PayoutSet
    BY <1>3, <2>4 DEF PayoutSet
  <2>7. Payment(Payouts(c, ticket)) = 0 /\ Payouts(c, ticket).treasury = 0
        /\ Payouts(c, ticket).graveyard = before
    BY <2>4 DEF Payment
  <2> QED BY <1>3, <2>2, <2>5, <2>6, <2>7
<1>7. CASE ticket # NoTicket
  <2>1. PICK pay : pay = CappedPayouts(prev.header.total_fees, before, cap)
    OBVIOUS
  <2>2. Payouts(c, ticket) = pay
    BY <1>7, <2>1, Zenon DEF Payouts
  <2>3. PICK won1, won2 : SettledAfter(c, ticket) = Settled(pay, won1, won2)
    BY <1>7, <2>2, Zenon DEF SettledAfter
  <2> HIDE DEF before, cap, prev
  <2>4. /\ pay \in PayoutSet
        /\ Payment(pay) + pay.treasury + pay.graveyard = prev.header.total_fees + before
    <3>1. Pays(CappedPayouts(prev.header.total_fees, before, cap),
               prev.header.total_fees + before)
      BY <1>2, <1>3, <1>4, CappedPayoutsFacts
    <3> QED BY <2>1, <3>1 DEF Pays
  <2>5. /\ SettledAfter(c, ticket) \in PayoutSet
        /\ SettledAfter(c, ticket).treasury = pay.treasury
        /\ Payment(SettledAfter(c, ticket)) + SettledAfter(c, ticket).graveyard
             = Payment(pay) + pay.graveyard
    BY <2>3, <2>4, SettledFacts
  <2>6. Due(c, ticket) = before + prev.header.total_fees
    BY <1>5, <1>7
  <2>7. /\ Payment(pay) \in Nat /\ pay.treasury \in Nat /\ pay.graveyard \in Nat
        /\ Payment(SettledAfter(c, ticket)) \in Nat /\ SettledAfter(c, ticket).graveyard \in Nat
    <3>1. \A p \in PayoutSet : Payment(p) \in Nat /\ p.treasury \in Nat /\ p.graveyard \in Nat
      BY DEF PayoutSet, Payment
    <3> QED BY <2>4, <2>5, <3>1
  <2>8. Payment(SettledAfter(c, ticket)) + SettledAfter(c, ticket).treasury
          + SettledAfter(c, ticket).graveyard = Due(c, ticket)
    BY <1>2, <1>3, <2>4, <2>5, <2>6, <2>7
  <2> QED BY <1>7, <2>2, <2>5, <2>8
<1> QED BY <1>6, <1>7

\* A block that validates has the header the next one computes with, and pays
\* what the consensus values say.
LEMMA ValidBlock ==
    ASSUME NEW c, ChainOK(c), NEW utxo, NEW block, block.txs \in Seq(TxSet),
           block.header.treasury \in Int, Validate(c, utxo, block)
    PROVE  /\ HeaderOK(block.header)
           /\ block.header.previous_block_unpaid = Unpaid(c, block.ticket)
           /\ block.header.total_payout_treasury = Payouts(c, block.ticket).treasury
           /\ block.header.total_payout_graveyard = SettledAfter(c, block.ticket).graveyard
<1>1. PICK cv : cv = ConsensusValues(c, utxo, block.txs, block.ticket, block.elapsed,
                                     block.header.treasury)
  OBVIOUS
<1>2. PICK atr : atr = Capped(Uncapped(c, utxo), block.header.treasury)
  OBVIOUS
<1>3. PICK prev : prev = c[Len(c)].header
  OBVIOUS
<1>4. PICK new : new = NewFees(block.txs)
  OBVIOUS
<1>5. /\ FeesValid(block.header, cv) /\ PayoutsValid(block.header, cv)
      /\ RatesValid(block.header, cv) /\ MoneyValid(c, block, cv)
  BY <1>1 DEF Validate, ValidGiven
<1>6. /\ block.header.total_fees = cv.expected.total_fees
      /\ block.header.avg_total_fees = cv.expected.avg_total_fees
  BY <1>5 DEF FeesValid
<1>7. /\ block.header.total_payout_treasury = cv.expected.total_payout_treasury
      /\ block.header.total_payout_graveyard = cv.expected.total_payout_graveyard
  BY <1>5 DEF PayoutsValid
<1>8. /\ block.header.avg_fee_per_byte = cv.expected.avg_fee_per_byte
      /\ block.header.avg_nolan_rebroadcast_per_block
           = cv.expected.avg_nolan_rebroadcast_per_block
  BY <1>5 DEF RatesValid
<1>9. block.header.previous_block_unpaid = Unpaid(c, block.ticket)
  BY <1>5 DEF MoneyValid
<1>10. /\ cv.expected.total_fees = new.fees + atr.fees
       /\ cv.expected.avg_total_fees = Smoothed(prev.avg_total_fees, new.fees + atr.fees)
       /\ cv.expected.avg_fee_per_byte = Smoothed(prev.avg_fee_per_byte, new.perByte)
       /\ cv.expected.avg_nolan_rebroadcast_per_block =
            Smoothed(prev.avg_nolan_rebroadcast_per_block, atr.nolan)
       /\ cv.expected.total_payout_treasury = Payouts(c, block.ticket).treasury
       /\ cv.expected.total_payout_graveyard = SettledAfter(c, block.ticket).graveyard
  <2>1. Expects(cv.expected, c, block.txs, block.ticket, atr)
    BY <1>1, <1>2, ConsensusFields
  <2> QED BY <1>3, <1>4, <2>1 DEF Expects
<1>11. /\ new.fees \in Nat /\ new.perByte \in Nat
  BY <1>4, NewFeesType
<1>12. /\ atr.fees \in Nat /\ atr.nolan \in Nat
  <2>1. Uncapped(c, utxo) \in Atrs
    BY UncappedType DEF ChainOK
  <2> QED BY <1>2, <2>1, CappedType
<1>13. HeaderOK(prev)
  BY <1>3 DEF ChainOK, BlockOK
<1>14. /\ Smoothed(prev.avg_total_fees, new.fees + atr.fees) \in Nat
       /\ Smoothed(prev.avg_fee_per_byte, new.perByte) \in Nat
       /\ Smoothed(prev.avg_nolan_rebroadcast_per_block, atr.nolan) \in Int
  <2>1. /\ prev.avg_total_fees \in Nat /\ prev.avg_fee_per_byte \in Nat
        /\ prev.avg_nolan_rebroadcast_per_block \in Int
    BY <1>13 DEF HeaderOK
  <2>2. new.fees + atr.fees \in Nat
    BY <1>11, <1>12
  <2>3. atr.nolan \in Int
    BY <1>12
  <2> QED BY <1>11, <2>1, <2>2, <2>3, SmoothedType
<1>15. HeaderOK(block.header)
  BY <1>6, <1>8, <1>10, <1>11, <1>12, <1>14 DEF HeaderOK
<1> QED BY <1>7, <1>9, <1>10, <1>15

-----------------------------------------------------------------------------
(* The block the node makes.                                               *)

Fee(tx) == tx.type = "Fee"
PlainTxs == {tx \in TxSet : ~Fee(tx)}

\* The one fee transaction of a block comes last, and there is one when there is
\* a ticket.
FeeLast(txs, c, ticket) ==
    /\ txs \in Seq(TxSet)
    /\ \A i \in 1 .. Len(txs) : Fee(txs[i]) => ticket # NoTicket /\ i = Len(txs)
    /\ ticket # NoTicket =>
         /\ Len(txs) > 0 /\ Fee(txs[Len(txs)])
         /\ TotalOut(txs[Len(txs)]) = Payment(SettledAfter(c, ticket))

\* A fee transaction at the end is all that the fee transactions pay.
LEMMA FeeLastPays ==
    ASSUME NEW c, ChainOK(c), NEW ticket, NEW txs, FeeLast(txs, c, ticket)
    PROVE  FeeOut(txs) = Payment(SettledAfter(c, ticket))
<1>1. txs \in Seq(TxSet) /\ Len(txs) \in Nat
  BY DEF FeeLast
<1>2. CASE ticket = NoTicket
  <2>1. \A i \in 1 .. Len(txs) : txs[i].type # "Fee"
    BY <1>2 DEF FeeLast, Fee
  <2>2. FeeOut(txs) = 0
    BY <1>1, <2>1, FeeOutFacts
  <2> QED BY <1>2, <2>2, PayoutsFacts
<1>3. CASE ticket # NoTicket
  <2>1. Len(txs) > 0 /\ txs[Len(txs)].type = "Fee"
    BY <1>3 DEF FeeLast, Fee
  <2>2. \A i \in 1 .. Len(txs) - 1 : txs[i].type # "Fee"
    BY <1>1 DEF FeeLast, Fee
  <2>3. FeeOut(txs) = TotalOut(txs[Len(txs)])
    BY <1>1, <2>1, <2>2, FeeOutFacts
  <2> QED BY <1>3, <2>3 DEF FeeLast
<1> QED BY <1>2, <1>3

\* A golden ticket is no fee transaction.
LEMMA TicketTxType == TicketTx \in PlainTxs
<1> DEFINE slip == NewSlip("miner", 0, "Normal")
           slips == <<slip>>
<1>1. slip \in Slips
  BY DEF NewSlip, Slip, Slips, Owners, SlipTypes
<1> HIDE DEF slip
<1>2. slips \in Seq(Slips) /\ slips # << >>
  BY <1>1
<1>3. TicketTx = Tx("GoldenTicket", slips, slips, 0)
  BY DEF TicketTx, slip
<1> HIDE DEF slips
<1>4. TicketTx \in TxSet /\ TicketTx.type = "GoldenTicket"
  BY <1>2, <1>3 DEF Tx, TxSet, TxTypes
<1> QED BY <1>4 DEF PlainTxs, Fee

\* A bundle with its ticket has no fee transaction yet.
LEMMA OwnTxsType ==
    ASSUME NEW payments \in Seq(PlainTxs), NEW ticket
    PROVE  OwnTxs(payments, ticket) \in Seq(PlainTxs)
<1> DEFINE first == IF ticket = NoTicket THEN << >> ELSE <<TicketTx>>
<1>1. first \in Seq(PlainTxs)
  <2>1. CASE ticket = NoTicket
    BY <2>1
  <2>2. CASE ticket # NoTicket
    BY <2>2, TicketTxType
  <2> QED BY <2>1, <2>2
<1>2. OwnTxs(payments, ticket) = first \o payments
  BY DEF OwnTxs
<1> HIDE DEF first
<1> QED BY <1>1, <1>2

\* The transactions before the block tells them their places.
LEMMA FilledTxs ==
    ASSUME NEW c, ChainOK(c), NEW ticket, NEW plain \in Seq(PlainTxs)
    PROVE  FeeLast(plain \o FeeGiven(c, ticket), c, ticket)
<1> DEFINE tx == FeeTx(SettledAfter(c, ticket))
           fee == FeeGiven(c, ticket)
<1>1. /\ tx \in TxSet /\ tx.type = "Fee"
      /\ TotalOut(tx) = Payment(SettledAfter(c, ticket))
  <2>1. SettledAfter(c, ticket) \in PayoutSet
    BY PayoutsFacts
  <2> QED BY <2>1, FeeTxFacts
<1>2. plain \in Seq(TxSet) /\ Len(plain) \in Nat /\ \A i \in 1 .. Len(plain) : ~Fee(plain[i])
  BY DEF PlainTxs
<1>3. CASE ticket = NoTicket
  <2>1. plain \o fee = plain
    BY <1>3 DEF FeeGiven
  <2> QED BY <1>2, <1>3, <2>1 DEF FeeLast
<1>4. CASE ticket # NoTicket
  <2> DEFINE all == Append(plain, tx)
  <2>1. plain \o fee = all
    BY <1>2, <1>4 DEF FeeGiven
  <2> HIDE DEF tx
  <2>2. /\ all \in Seq(TxSet) /\ Len(all) = Len(plain) + 1 /\ all[Len(all)] = tx
        /\ \A i \in 1 .. Len(plain) : all[i] = plain[i]
    BY <1>1, <1>2
  <2> HIDE DEF all
  <2>3. \A i \in 1 .. Len(all) : Fee(all[i]) => i = Len(all)
    BY <1>2, <2>2
  <2>4. Len(all) > 0
    BY <1>2, <2>2
  <2>5. FeeLast(all, c, ticket)
    BY <1>1, <1>4, <2>2, <2>3, <2>4 DEF FeeLast, Fee, tx
  <2> QED BY <2>1, <2>5
<1> QED BY <1>3, <1>4

\* Placing keeps that.
LEMMA FeeLastPlaced ==
    ASSUME NEW c, NEW ticket, NEW txs, FeeLast(txs, c, ticket), NEW id \in Nat
    PROVE  FeeLast(AllPlaced(txs, id), c, ticket)
<1> DEFINE there == AllPlaced(txs, id)
<1>1. txs \in Seq(TxSet) /\ Len(txs) \in Nat
  BY DEF FeeLast
<1>2. /\ there \in Seq(TxSet) /\ Len(there) = Len(txs)
      /\ \A i \in 1 .. Len(txs) :
           there[i].type = txs[i].type /\ TotalOut(there[i]) = TotalOut(txs[i])
  BY <1>1, AllPlacedFacts
<1> HIDE DEF there
<1>3. Len(txs) > 0 => Len(txs) \in 1 .. Len(txs)
  BY <1>1
<1> QED BY <1>1, <1>2, <1>3 DEF FeeLast, Fee, there

\* Block::create
LEMMA CreatedFacts ==
    ASSUME NEW c, ChainOK(c), NEW utxo, NEW payments \in Seq(PlainTxs), NEW ticket, NEW elapsed,
           NEW block, block = Created(c, utxo, payments, ticket, elapsed)
    PROVE  /\ block.ticket = ticket
           /\ FeeLast(block.txs, c, ticket)
           /\ Followed \subseteq DOMAIN block.header
           /\ block.header.treasury \in Int
           /\ block = [txs |-> block.txs, ticket |-> block.ticket,
                       elapsed |-> block.elapsed, header |-> block.header]
<1>1. PICK own : own = OwnTxs(payments, ticket)
  OBVIOUS
<1>2. PICK cv : cv = ConsensusValues(c, utxo, own, ticket, elapsed, 0)
  OBVIOUS
<1>3. PICK atr : atr = Capped(Uncapped(c, utxo), 0)
  OBVIOUS
<1>4. block = [txs |-> AllPlaced(own \o cv.rebroadcasts \o cv.fee, Len(c) + 1),
               ticket |-> ticket, elapsed |-> elapsed,
               header |-> CreatedHeader(c, ticket, cv.expected)]
  BY <1>1, <1>2, Zenon DEF Created
<1>5. /\ Expects(cv.expected, c, own, ticket, atr)
      /\ cv.rebroadcasts = atr.txs
      /\ cv.fee = FeeGiven(c, ticket)
  BY <1>2, <1>3, ConsensusFields
<1>6. own \in Seq(PlainTxs)
  BY <1>1, OwnTxsType
<1>7. Len(c) \in Nat \ {0} /\ \A i \in 1 .. Len(c) : BlockOK(c[i])
  BY DEF ChainOK
<1>8. Uncapped(c, utxo) \in Atrs
  BY <1>7, UncappedType
<1>9. atr.txs \in Seq(PlainTxs) /\ atr.payout \in Int
  <2>1. atr.txs \in Seq(AtrTxs)
    BY <1>3, <1>8, CappedTxs
  <2>2. AtrTxs \subseteq PlainTxs
    BY DEF AtrTxs, PlainTxs, Fee
  <2>3. atr.txs \in Seq(PlainTxs)
    BY <2>1, <2>2
  <2>4. 0 \in Int
    OBVIOUS
  <2>5. atr.payout \in Int
    BY <1>3, <1>8, <2>4, CappedType
  <2> QED BY <2>3, <2>5
<1>10. FeeLast(block.txs, c, ticket)
  <2>1. PICK plain : plain = own \o cv.rebroadcasts
    OBVIOUS
  <2>2. plain \in Seq(PlainTxs)
    BY <1>5, <1>6, <1>9, <2>1
  <2>3. FeeLast(plain \o cv.fee, c, ticket)
    BY <1>5, <2>2, FilledTxs
  <2>4. Len(c) + 1 \in Nat
    BY <1>7
  <2>5. FeeLast(AllPlaced(plain \o cv.fee, Len(c) + 1), c, ticket)
    BY <2>3, <2>4, FeeLastPlaced
  <2>6. block.txs = AllPlaced(plain \o cv.fee, Len(c) + 1)
    <3>1. block.txs = AllPlaced(own \o cv.rebroadcasts \o cv.fee, Len(c) + 1)
      BY <1>4
    <3> QED BY <2>1, <3>1
  <2> QED BY <2>5, <2>6
<1>11. Followed \subseteq DOMAIN cv.expected
  BY <1>5 DEF Expects
<1>12. /\ DOMAIN CreatedHeader(c, ticket, cv.expected) = DOMAIN cv.expected
       /\ CreatedHeader(c, ticket, cv.expected).treasury =
            c[Len(c)].header.treasury + cv.expected.total_payout_treasury
              - cv.expected.total_payout_atr
  BY <1>11, CreatedHeaderFields
<1>13. block.header.treasury \in Int
  <2>1. c[Len(c)].header.treasury \in Int
    BY <1>7 DEF BlockOK, HeaderOK
  <2>2. cv.expected.total_payout_treasury \in Int
    <3>1. SettledAfter(c, ticket) \in PayoutSet
          /\ Payouts(c, ticket).treasury = SettledAfter(c, ticket).treasury
      BY PayoutsFacts
    <3> QED BY <1>5, <3>1 DEF Expects, PayoutSet
  <2>3. cv.expected.total_payout_atr \in Int
    BY <1>5, <1>9 DEF Expects
  <2>4. block.header.treasury = CreatedHeader(c, ticket, cv.expected).treasury
    BY <1>4
  <2> QED BY <1>12, <2>1, <2>2, <2>3, <2>4
<1>14. Followed \subseteq DOMAIN block.header
  BY <1>4, <1>11, <1>12
<1>15. /\ block.ticket = ticket
       /\ block = [txs |-> block.txs, ticket |-> block.ticket,
                   elapsed |-> block.elapsed, header |-> block.header]
  BY <1>4
<1> QED BY <1>10, <1>13, <1>14, <1>15

-----------------------------------------------------------------------------
(* A block somebody else makes.                                            *)

Content(slips) == [k \in 1 .. Len(slips) |->
    <<slips[k].owner, slips[k].amount, slips[k].idx, slips[k].type>>]

\* Transactions that hash alike pay alike.
LEMMA SignedTotal ==
    ASSUME NEW tx \in TxSet, NEW ty \in TxSet, Signed(tx) = Signed(ty)
    PROVE  TotalOut(tx) = TotalOut(ty)
<1> DEFINE a == tx.outs
           b == ty.outs
<1>1. a \in Seq(Slips) /\ b \in Seq(Slips) /\ Len(a) \in Nat /\ Len(b) \in Nat
  BY DEF TxSet
<1>2. Content(a) = Content(b)
  <2>1. /\ Signed(tx) = <<tx.type, Content(tx.ins), Content(a), tx.orig>>
        /\ Signed(ty) = <<ty.type, Content(ty.ins), Content(b), ty.orig>>
    BY Zenon DEF Signed, Content
  <2>2. \A w, x, y, z, s, t, u, v : <<w, x, y, z>> = <<s, t, u, v>> => y = u
    OBVIOUS
  <2>3. <<tx.type, Content(tx.ins), Content(a), tx.orig>>
          = <<ty.type, Content(ty.ins), Content(b), ty.orig>>
    BY <2>1, Zenon
  <2> QED BY <2>2, <2>3, Zenon
<1> HIDE DEF a, b
<1>3. Len(a) = Len(b)
  <2>1. DOMAIN Content(a) = 1 .. Len(a) /\ DOMAIN Content(b) = 1 .. Len(b)
    BY DEF Content
  <2>2. 1 .. Len(a) = 1 .. Len(b)
    BY <1>2, <2>1
  <2>3. \A m, n \in Nat : m < n => n \in 1 .. n /\ n \notin 1 .. m
    OBVIOUS
  <2>4. ~ (Len(a) < Len(b)) /\ ~ (Len(b) < Len(a))
    BY <1>1, <2>2, <2>3
  <2> QED BY <1>1, <2>4
<1>4. ASSUME NEW k \in 1 .. Len(a) PROVE Value(a[k]) = Value(b[k])
  <2>1. /\ Content(a)[k] = <<a[k].owner, a[k].amount, a[k].idx, a[k].type>>
        /\ Content(b)[k] = <<b[k].owner, b[k].amount, b[k].idx, b[k].type>>
    BY <1>3 DEF Content
  <2>2. a[k].amount = b[k].amount /\ a[k].type = b[k].type
    BY <1>2, <2>1
  <2> QED BY <2>2 DEF Value
<1>5. Values(a) = Values(b)
  BY <1>3, <1>4 DEF Values
<1>6. TotalOut(tx) = SumSeq(Values(a)) /\ TotalOut(ty) = SumSeq(Values(b))
  BY Zenon DEF TotalOut, SumOf, Values, a, b
<1> QED BY <1>5, <1>6

\* The fee transaction of a block that validates pays what it should.
LEMMA ValidFee ==
    ASSUME NEW c, ChainOK(c), NEW utxo, NEW block, Validate(c, utxo, block),
           block.txs \in Seq(TxSet), block.ticket # NoTicket,
           NEW k \in 1 .. Len(block.txs),
           \A i \in 1 .. Len(block.txs) : Fee(block.txs[i]) <=> i = k
    PROVE  TotalOut(block.txs[k]) = Payment(SettledAfter(c, block.ticket))
<1> DEFINE tx == FeeTx(SettledAfter(c, block.ticket))
           fee == {i \in DOMAIN block.txs : block.txs[i].type = "Fee"}
<1>1. PICK cv : cv = ConsensusValues(c, utxo, block.txs, block.ticket, block.elapsed,
                                     block.header.treasury)
  OBVIOUS
<1>2. AutomaticValid(block, cv)
  BY <1>1 DEF Validate, ValidGiven
<1>3. cv.fee = <<tx>>
  <2>1. PICK atr : atr = Capped(Uncapped(c, utxo), block.header.treasury)
    OBVIOUS
  <2>2. cv.fee = FeeGiven(c, block.ticket)
    BY <1>1, <2>1, ConsensusFields
  <2> QED BY <2>2 DEF FeeGiven
<1>4. tx \in TxSet /\ TotalOut(tx) = Payment(SettledAfter(c, block.ticket))
  <2>1. SettledAfter(c, block.ticket) \in PayoutSet
    BY PayoutsFacts
  <2> QED BY <2>1, FeeTxFacts
<1>5. DOMAIN block.txs = 1 .. Len(block.txs) /\ Len(block.txs) \in Nat
  OBVIOUS
<1>6. fee = {k}
  BY <1>5 DEF Fee
<1> HIDE DEF tx, fee
<1>7. Max(fee) = k
  <2>1. fee \in SUBSET (1 .. Len(block.txs)) /\ fee # {}
    BY <1>6
  <2>2. Max(fee) \in fee
    BY <1>5, <2>1, MaxExists
  <2> QED BY <1>6, <2>2
<1>8. Signed(block.txs[k]) = Signed(tx)
  <2>1. fee # {} /\ cv.fee # << >> => Signed(block.txs[Max(fee)]) = Signed(cv.fee[1])
    BY <1>2 DEF AutomaticValid, fee
  <2> QED BY <1>3, <1>6, <1>7, <2>1
<1>9. block.txs[k] \in TxSet
  OBVIOUS
<1> QED BY <1>4, <1>8, <1>9, SignedTotal

\* One more in the first output is still a transaction.
LEMMA RaisedType ==
    ASSUME NEW tx \in TxSet, tx.outs # << >>,
           NEW new, new = [tx EXCEPT !.outs[1].amount = @ + 1]
    PROVE  new \in TxSet /\ new.type = tx.type
<1> DEFINE old == tx.outs
           out == [old[1] EXCEPT !.amount = @ + 1]
           outs == [old EXCEPT ![1] = out]
<1>1. old \in Seq(Slips) /\ old # << >>
  BY DEF TxSet
<1>2. new = [tx EXCEPT !.outs = outs]
  OBVIOUS
<1> HIDE DEF old
<1>3. 1 \in DOMAIN old /\ old[1] \in Slips
  BY <1>1
<1>4. out \in Slips
  BY <1>3 DEF Slips
<1> HIDE DEF out
<1>5. outs \in Seq(Slips)
  BY <1>1, <1>3, <1>4
<1> HIDE DEF outs
<1> QED BY <1>2, <1>5 DEF TxSet

\* One transaction of a block replaced by one of the same type.
LEMMA FeeLastReplaced ==
    ASSUME NEW c, NEW ticket, NEW txs, FeeLast(txs, c, ticket),
           NEW k \in 1 .. Len(txs), NEW tx \in TxSet, tx.type = txs[k].type,
           Fee(tx) => TotalOut(tx) = Payment(SettledAfter(c, ticket))
    PROVE  FeeLast([txs EXCEPT ![k] = tx], c, ticket)
<1> DEFINE new == [txs EXCEPT ![k] = tx]
<1>1. txs \in Seq(TxSet) /\ Len(txs) \in Nat
  BY DEF FeeLast
<1>2. /\ new \in Seq(TxSet) /\ Len(new) = Len(txs) /\ new[k] = tx
      /\ \A i \in 1 .. Len(txs) : i # k => new[i] = txs[i]
  BY <1>1
<1> HIDE DEF new
<1>3. \A i \in 1 .. Len(txs) : Fee(new[i]) <=> Fee(txs[i])
  BY <1>2 DEF Fee
<1>4. \A i \in 1 .. Len(new) : Fee(new[i]) => ticket # NoTicket /\ i = Len(new)
  BY <1>2, <1>3 DEF FeeLast
<1>5. ASSUME ticket # NoTicket
      PROVE  /\ Len(new) > 0 /\ Fee(new[Len(new)])
             /\ TotalOut(new[Len(new)]) = Payment(SettledAfter(c, ticket))
  <2>1. /\ Len(txs) \in 1 .. Len(txs) /\ Len(new) = Len(txs) /\ Fee(txs[Len(txs)])
        /\ TotalOut(txs[Len(txs)]) = Payment(SettledAfter(c, ticket))
    BY <1>1, <1>2, <1>5 DEF FeeLast
  <2>2. Fee(new[Len(txs)])
    BY <1>3, <2>1
  <2>3. CASE Len(txs) = k
    BY <1>2, <2>1, <2>2, <2>3
  <2>4. CASE Len(txs) # k
    BY <1>2, <2>1, <2>2, <2>4
  <2> QED BY <2>3, <2>4
<1> QED BY <1>2, <1>4, <1>5 DEF FeeLast, new

\* A block that misreports something and is accepted all the same still pays the
\* fees that are due.
LEMMA MisreportedFacts ==
    ASSUME NEW c, ChainOK(c), NEW utxo, NEW honest, FeeLast(honest.txs, c, honest.ticket),
           Followed \subseteq DOMAIN honest.header, honest.header.treasury \in Int,
           honest = [txs |-> honest.txs, ticket |-> honest.ticket,
                     elapsed |-> honest.elapsed, header |-> honest.header],
           NEW f, Misstates(honest, f),
           NEW block, block = Misreported(honest, f), Validate(c, utxo, block)
    PROVE  /\ FeeLast(block.txs, c, block.ticket)
           /\ block.header.treasury \in Int
<1>1. CASE f \in DOMAIN ZeroHeader
  <2> DEFINE h == honest.header
  <2>1. block = [honest EXCEPT !.header[f] = @ + 1]
    BY <1>1 DEF Misreported
  <2>2. /\ block.txs = honest.txs /\ block.ticket = honest.ticket
        /\ block.header = [h EXCEPT ![f] = h[f] + 1]
    BY <2>1
  <2>3. "treasury" \in DOMAIN h
    BY DEF Followed
  <2> HIDE DEF h
  <2>4. block.header["treasury"] = IF f = "treasury" THEN h["treasury"] + 1 ELSE h["treasury"]
    BY <2>2, <2>3
  <2>5. h["treasury"] \in Int
    BY DEF h
  <2>6. block.header.treasury \in Int
    BY <2>4, <2>5
  <2> QED BY <2>2, <2>6
<1>2. CASE f \notin DOMAIN ZeroHeader
  <2> DEFINE k == CHOOSE i \in Paying(honest, f) : TRUE
             txs == honest.txs
             tx == [txs[k] EXCEPT !.outs[1].amount = @ + 1]
             new == [txs EXCEPT ![k] = tx]
  <2>1. k \in 1 .. Len(txs) /\ txs[k].outs # << >>
    <3>1. Paying(honest, f) # {}
      BY <1>2 DEF Misstates
    <3>2. k \in Paying(honest, f)
      BY <3>1
    <3> QED BY <3>2 DEF Paying
  <2>2. block = [honest EXCEPT !.txs[k].outs[1].amount = @ + 1]
    BY <1>2 DEF Misreported
  <2> HIDE DEF k
  <2>3. txs \in Seq(TxSet) /\ txs[k] \in TxSet
    BY <2>1 DEF FeeLast
  <2>4. block.txs = new /\ block.ticket = honest.ticket /\ block.header = honest.header
    BY <2>1, <2>2
  <2>5. tx \in TxSet /\ tx.type = txs[k].type
    BY <2>1, <2>3, RaisedType
  <2> HIDE DEF tx
  <2>6. /\ new \in Seq(TxSet) /\ Len(new) = Len(txs) /\ new[k] = tx
        /\ \A i \in 1 .. Len(txs) : i # k => new[i] = txs[i]
    BY <2>1, <2>3, <2>5
  <2>7. ASSUME Fee(tx) PROVE TotalOut(tx) = Payment(SettledAfter(c, block.ticket))
    <3>1. block.ticket # NoTicket /\ \A i \in 1 .. Len(txs) : Fee(txs[i]) <=> i = k
      <4>1. Fee(txs[k])
        BY <2>5, <2>7 DEF Fee
      <4> QED BY <2>1, <2>4, <4>1 DEF FeeLast
    <3>2. \A i \in 1 .. Len(new) : Fee(new[i]) <=> i = k
      BY <2>5, <2>6, <3>1 DEF Fee
    <3> HIDE DEF new, txs
    <3>3. TotalOut(block.txs[k]) = Payment(SettledAfter(c, block.ticket))
      BY <2>1, <2>4, <2>6, <3>1, <3>2, ValidFee
    <3> QED BY <2>4, <2>6, <3>3
  <2>8. FeeLast(new, c, honest.ticket)
    <3>1. FeeLast(txs, c, honest.ticket)
      OBVIOUS
    <3>2. Fee(tx) => TotalOut(tx) = Payment(SettledAfter(c, honest.ticket))
      BY <2>4, <2>7
    <3> HIDE DEF txs
    <3> QED BY <2>1, <2>5, <3>1, <3>2, FeeLastReplaced
  <2> QED BY <2>4, <2>8
<1> QED BY <1>1, <1>2

-----------------------------------------------------------------------------
(* The chain.                                                              *)

\* FeesPaidOnce of a chain.
PaidOnce(c) ==
    \A i \in 2 .. Len(c) :
        FeeOut(c[i].txs) + c[i].header.total_payout_treasury
            + c[i].header.total_payout_graveyard
          = (IF i > 2 /\ ~HasTicket(c[i - 1]) THEN c[i - 2].header.total_fees ELSE 0)
            + (IF HasTicket(c[i]) THEN c[i - 1].header.total_fees ELSE 0)

\* A block that may follow chain c.
Follows(block, c) ==
    /\ BlockOK(block)
    /\ block.header.previous_block_unpaid = Unpaid(c, block.ticket)
    /\ FeeOut(block.txs) + block.header.total_payout_treasury
         + block.header.total_payout_graveyard = Due(c, block.ticket)

\* A valid block whose fee transaction is the expected one continues the chain.
LEMMA ValidFollows ==
    ASSUME NEW c, ChainOK(c), NEW utxo, NEW block, FeeLast(block.txs, c, block.ticket),
           block.header.treasury \in Int, Validate(c, utxo, block)
    PROVE  Follows(block, c)
<1>1. block.txs \in Seq(TxSet)
  BY DEF FeeLast
<1>2. /\ HeaderOK(block.header)
      /\ block.header.previous_block_unpaid = Unpaid(c, block.ticket)
      /\ block.header.total_payout_treasury = Payouts(c, block.ticket).treasury
      /\ block.header.total_payout_graveyard = SettledAfter(c, block.ticket).graveyard
  BY <1>1, ValidBlock
<1>3. FeeOut(block.txs) = Payment(SettledAfter(c, block.ticket))
  BY FeeLastPays
<1>4. /\ Payouts(c, block.ticket).treasury = SettledAfter(c, block.ticket).treasury
      /\ Payment(SettledAfter(c, block.ticket)) + SettledAfter(c, block.ticket).treasury
           + SettledAfter(c, block.ticket).graveyard = Due(c, block.ticket)
  BY PayoutsFacts
<1>5. FeeOut(block.txs) + block.header.total_payout_treasury
        + block.header.total_payout_graveyard = Due(c, block.ticket)
  BY <1>2, <1>3, <1>4
<1> QED BY <1>1, <1>2, <1>5 DEF Follows, BlockOK

Members(s) == {s[i] : i \in DOMAIN s}

IsChain(c) == c \in Seq(Members(c)) /\ ChainOK(c) /\ PaidOnce(c)

\* A sequence is one of its members.
LEMMA SeqOfMembers ==
    ASSUME NEW S, NEW s \in Seq(S)
    PROVE  s \in Seq(Members(s))
<1> DEFINE n == Len(s)
           R == Members(s)
<1>1. n \in Nat /\ DOMAIN s = 1 .. n /\ s = [i \in 1 .. n |-> s[i]]
  OBVIOUS
<1>2. \A i \in 1 .. n : s[i] \in R
  BY <1>1 DEF Members
<1> HIDE DEF R, n
<1>3. [i \in 1 .. n |-> s[i]] \in Seq(R)
  BY <1>1, <1>2
<1>4. s \in Seq(R)
  BY <1>1, <1>3, Zenon
<1> QED BY <1>4 DEF R

\* A chain that grows.
LEMMA Grows ==
    ASSUME NEW c, IsChain(c), NEW block, Follows(block, c)
    PROVE  IsChain(Append(c, block))
<1> DEFINE S == Members(c) \cup {block}
           d == Append(c, block)
           n == Len(c)
<1>1. c \in Seq(S) /\ block \in S /\ n \in Nat \ {0}
  <2>1. c \in Seq(Members(c)) /\ n \in Nat \ {0}
    BY DEF IsChain, ChainOK
  <2>2. \A R, T : R \subseteq T => Seq(R) \subseteq Seq(T)
    OBVIOUS
  <2>3. Members(c) \subseteq S
    OBVIOUS
  <2> HIDE DEF S
  <2>4. c \in Seq(S)
    BY <2>1, <2>2, <2>3
  <2> QED BY <2>1, <2>4 DEF S
<1> HIDE DEF S
<1>2. /\ d \in Seq(S) /\ Len(d) = n + 1 /\ d[n + 1] = block
      /\ \A i \in 1 .. n : d[i] = c[i]
  BY <1>1
<1> HIDE DEF d, n
<1>3. d \in Seq(Members(d))
  BY <1>2, SeqOfMembers
<1>4. \A i \in 1 .. Len(d) : i \in 1 .. n \/ i = n + 1
  BY <1>1, <1>2
<1>5. \A i \in 1 .. Len(d) : BlockOK(d[i])
  <2>1. \A i \in 1 .. n : BlockOK(c[i])
    BY DEF IsChain, ChainOK, n
  <2> QED BY <1>2, <1>4, <2>1 DEF Follows
<1>6. UnpaidOK(d)
  <2>1. ASSUME NEW i \in 2 .. n
        PROVE  d[i].header.previous_block_unpaid =
                 IF HasTicket(d[i]) THEN 0 ELSE d[i - 1].header.total_fees
    <3>1. d[i] = c[i] /\ d[i - 1] = c[i - 1]
      BY <1>1, <1>2
    <3>2. c[i].header.previous_block_unpaid =
            IF HasTicket(c[i]) THEN 0 ELSE c[i - 1].header.total_fees
      BY DEF IsChain, ChainOK, UnpaidOK, n
    <3> QED BY <3>1, <3>2
  <2>2. d[n + 1].header.previous_block_unpaid =
          IF HasTicket(d[n + 1]) THEN 0 ELSE d[(n + 1) - 1].header.total_fees
    <3>1. d[n + 1] = block /\ d[(n + 1) - 1] = c[n]
      BY <1>1, <1>2
    <3>2. block.header.previous_block_unpaid =
            IF block.ticket # NoTicket THEN 0 ELSE c[n].header.total_fees
      BY DEF Follows, Unpaid, n
    <3> QED BY <3>1, <3>2 DEF HasTicket
  <2> QED BY <1>1, <1>2, <2>1, <2>2 DEF UnpaidOK
<1>7. PaidOnce(d)
  <2> DEFINE Paid(e, i) ==
               FeeOut(e[i].txs) + e[i].header.total_payout_treasury
                   + e[i].header.total_payout_graveyard
                 = (IF i > 2 /\ ~HasTicket(e[i - 1]) THEN e[i - 2].header.total_fees ELSE 0)
                   + (IF HasTicket(e[i]) THEN e[i - 1].header.total_fees ELSE 0)
  <2>1. ASSUME NEW i \in 2 .. n PROVE Paid(d, i)
    <3>1. d[i] = c[i] /\ d[i - 1] = c[i - 1] /\ (i > 2 => d[i - 2] = c[i - 2])
      BY <1>1, <1>2
    <3>2. Paid(c, i)
      BY DEF IsChain, PaidOnce, n
    <3> QED BY <3>1, <3>2
  <2>2. Paid(d, n + 1)
    <3>1. d[n + 1] = block /\ d[(n + 1) - 1] = c[n]
          /\ (n + 1 > 2 => d[(n + 1) - 2] = c[n - 1]) /\ (n + 1 > 2 <=> n > 1)
      BY <1>1, <1>2
    <3>2. FeeOut(block.txs) + block.header.total_payout_treasury
            + block.header.total_payout_graveyard
          = (IF n > 1 /\ ~HasTicket(c[n]) THEN c[n - 1].header.total_fees ELSE 0)
            + (IF block.ticket # NoTicket THEN c[n].header.total_fees ELSE 0)
      BY DEF Follows, Due, n
    <3> QED BY <3>1, <3>2 DEF HasTicket
  <2> HIDE DEF Paid
  <2>3. \A i \in 2 .. Len(d) : Paid(d, i)
    BY <1>1, <1>2, <2>1, <2>2
  <2> QED BY <2>3 DEF PaidOnce, Paid
<1> QED BY <1>1, <1>2, <1>3, <1>5, <1>6, <1>7 DEF IsChain, ChainOK, d

\* A chain that loses its last block.
LEMMA Shrinks ==
    ASSUME NEW c, IsChain(c), Len(c) > 1
    PROVE  IsChain(SubSeq(c, 1, Len(c) - 1))
<1> DEFINE S == Members(c)
           d == SubSeq(c, 1, Len(c) - 1)
           n == Len(c) - 1
<1>1. c \in Seq(S) /\ Len(c) \in Nat \ {0} /\ n \in Nat \ {0}
  BY DEF IsChain, ChainOK
<1> HIDE DEF S
<1>2. /\ d \in Seq(S) /\ Len(d) = n
      /\ \A i \in 1 .. n : d[i] = c[i]
  BY <1>1
<1>3. \A i \in 1 .. n : i \in 1 .. Len(c)
  BY <1>1
<1> HIDE DEF d, n
<1>4. d \in Seq(Members(d))
  BY <1>2, SeqOfMembers
<1>5. \A i \in 1 .. Len(d) : BlockOK(d[i])
  BY <1>2, <1>3 DEF IsChain, ChainOK
<1>6. \A i \in 2 .. n : /\ i \in 2 .. Len(c) /\ d[i] = c[i] /\ d[i - 1] = c[i - 1]
                        /\ (i > 2 => d[i - 2] = c[i - 2])
  BY <1>1, <1>2, <1>3
<1>7. UnpaidOK(d)
  <2>1. \A i \in 2 .. Len(c) : c[i].header.previous_block_unpaid =
            IF HasTicket(c[i]) THEN 0 ELSE c[i - 1].header.total_fees
    BY DEF IsChain, ChainOK, UnpaidOK
  <2> QED BY <1>2, <1>6, <2>1 DEF UnpaidOK
<1>8. PaidOnce(d)
  <2> SUFFICES ASSUME NEW i \in 2 .. n
               PROVE  FeeOut(d[i].txs) + d[i].header.total_payout_treasury
                        + d[i].header.total_payout_graveyard
                      = (IF i > 2 /\ ~HasTicket(d[i - 1])
                         THEN d[i - 2].header.total_fees ELSE 0)
                        + (IF HasTicket(d[i]) THEN d[i - 1].header.total_fees ELSE 0)
    BY <1>2 DEF PaidOnce
  <2>1. FeeOut(c[i].txs) + c[i].header.total_payout_treasury
          + c[i].header.total_payout_graveyard
        = (IF i > 2 /\ ~HasTicket(c[i - 1]) THEN c[i - 2].header.total_fees ELSE 0)
          + (IF HasTicket(c[i]) THEN c[i - 1].header.total_fees ELSE 0)
    BY <1>6 DEF IsChain, PaidOnce
  <2> QED BY <1>6, <2>1
<1> QED BY <1>1, <1>2, <1>4, <1>5, <1>7, <1>8 DEF IsChain, ChainOK, d

-----------------------------------------------------------------------------
(* The invariant.                                                          *)

LedgerInv == IsChain(chain) /\ utxoset \in SUBSET Slips

\* What users may pay.
LEMMA PaymentType ==
    ASSUME NEW slip \in Slips, NEW p \in Payments, slip.amount - p.fee - p.gift >= 0
    PROVE  PaymentTx(slip, p) \in PlainTxs
<1> DEFINE rest == NewSlip("payer", slip.amount - p.fee - p.gift, "Normal")
           gift == NewSlip("holder", p.gift, "Normal")
           ins == <<slip>>
           outs == <<rest, gift>>
<1>1. p.fee \in Nat /\ p.gift \in Nat /\ p.hops \in Nat /\ slip.amount \in Nat
  BY LedgerAssumption DEF Slips
<1>2. slip.amount - p.fee - p.gift \in Nat
  BY <1>1
<1>3. rest \in Slips /\ gift \in Slips
  BY <1>1, <1>2 DEF NewSlip, Slip, Slips, Owners, SlipTypes
<1> HIDE DEF rest, gift
<1>4. ins \in Seq(Slips) /\ ins # << >> /\ outs \in Seq(Slips)
  BY <1>3
<1>5. PaymentTx(slip, p) = Tx("Normal", ins, outs, p.hops)
  BY DEF PaymentTx, rest, gift
<1> HIDE DEF ins, outs
<1>6. PaymentTx(slip, p) \in TxSet /\ PaymentTx(slip, p).type = "Normal"
  BY <1>1, <1>4, <1>5 DEF Tx, TxSet, TxTypes
<1> QED BY <1>6 DEF PlainTxs, Fee

\* A bundle holds a payment, no fee transaction.
LEMMA BundleType ==
    ASSUME utxoset \in SUBSET Slips, NEW bundle \in Bundles, CanBundle(bundle)
    PROVE  bundle.txs \in Seq(PlainTxs)
<1>1. PICK slip \in utxoset, p \in Payments : bundle.txs = <<PaymentTx(slip, p)>>
  BY DEF Bundles, BundlesOf
<1>2. bundle.txs[1].outs[1].amount >= 0
  BY DEF CanBundle
<1>3. bundle.txs[1].outs[1].amount = slip.amount - p.fee - p.gift
  BY <1>1 DEF PaymentTx, Tx, NewSlip, Slip
<1>4. PaymentTx(slip, p) \in PlainTxs
  BY <1>1, <1>2, <1>3, PaymentType
<1> HIDE DEF PaymentTx
<1> QED BY <1>1, <1>4

\* Issuance is no fee transaction.
LEMMA IssuanceType ==
    ASSUME NEW i \in 1 .. Len(Issuance)
    PROVE  Tx("Issuance", << >>, <<NewSlip(Issuance[i][1], Issuance[i][2], "Normal")>>, 0)
             \in PlainTxs
<1> DEFINE slip == NewSlip(Issuance[i][1], Issuance[i][2], "Normal")
           ins == << >>
           outs == <<slip>>
           tx == Tx("Issuance", ins, outs, 0)
<1>1. Issuance[i][1] \in Owners /\ Issuance[i][2] \in Nat
  <2>1. i \in DOMAIN Issuance /\ Issuance[i] \in STRING \X Nat
    BY LedgerAssumption
  <2> QED BY <2>1 DEF Owners
<1>2. slip \in Slips
  BY <1>1 DEF NewSlip, Slip, Slips, SlipTypes
<1> HIDE DEF slip
<1>3. ins \in Seq(Slips) /\ outs \in Seq(Slips)
  BY <1>2
<1> HIDE DEF ins, outs
<1>4. tx \in TxSet /\ tx.type = "Issuance"
  BY <1>3 DEF Tx, TxSet, TxTypes
<1>5. tx \in PlainTxs
  BY <1>4 DEF PlainTxs, Fee
<1> QED BY <1>5 DEF tx, ins, outs, slip

\* The outputs of transactions are slips.
LEMMA OutsType ==
    ASSUME NEW txs \in Seq(TxSet)
    PROVE  OutsOf(txs) \in SUBSET Slips
<1>1. \A i \in 1 .. Len(txs) : Valued(txs[i].outs) \subseteq Slips
  BY ValuedType
<1> QED BY <1>1 DEF OutsOf

\* The first block has only issuance and pays no fees.
LEMMA LedgerInvInit == Init => LedgerInv
<1> DEFINE issued == [i \in 1 .. Len(Issuance) |->
                 Tx("Issuance", << >>, <<NewSlip(Issuance[i][1], Issuance[i][2], "Normal")>>, 0)]
<1>1. issued \in Seq(TxSet)
  <2>1. Len(Issuance) \in Nat
    BY LedgerAssumption
  <2>2. \A i \in 1 .. Len(Issuance) : issued[i] \in PlainTxs
    BY IssuanceType
  <2>3. \A i \in 1 .. Len(Issuance) : issued[i] \in TxSet
    BY <2>2 DEF PlainTxs
  <2>4. issued = [i \in 1 .. Len(Issuance) |-> issued[i]]
    OBVIOUS
  <2> HIDE DEF issued
  <2> QED BY <2>1, <2>3, <2>4
<1>2. GenesisBlock = [txs |-> AllPlaced(issued, 1), ticket |-> NoTicket, elapsed |-> 0,
                      header |-> ZeroHeader]
  BY DEF GenesisBlock
<1> HIDE DEF issued
<1>3. GenesisBlock.txs \in Seq(TxSet)
  BY <1>1, <1>2, AllPlacedFacts
<1>4. HeaderOK(GenesisBlock.header)
  BY <1>2 DEF ZeroHeader, HeaderOK
<1>5. SUFFICES ASSUME Init PROVE LedgerInv
  OBVIOUS
<1>6. /\ chain \in Seq({GenesisBlock}) /\ Len(chain) = 1 /\ chain[1] = GenesisBlock
  BY <1>5 DEF Init
<1>7. chain \in Seq(Members(chain))
  BY <1>6, SeqOfMembers
<1>8. ChainOK(chain) /\ PaidOnce(chain)
  BY <1>3, <1>4, <1>6 DEF ChainOK, BlockOK, UnpaidOK, PaidOnce
<1>9. utxoset \in SUBSET Slips
  BY <1>3, <1>5, OutsType DEF Init
<1> QED BY <1>7, <1>8, <1>9 DEF LedgerInv, IsChain

\* A block that joins the chain.
LEMMA WindKeepsInv ==
    ASSUME LedgerInv, NEW block, FeeLast(block.txs, chain, block.ticket),
           block.header.treasury \in Int, Validate(chain, utxoset, block), Wind(block)
    PROVE  LedgerInv'
<1>1. Follows(block, chain)
  BY ValidFollows DEF LedgerInv, IsChain
<1>2. chain' = Append(chain, block)
      /\ utxoset' = Purged(chain', WindTxs(utxoset, block.txs))
  BY DEF Wind
<1>3. IsChain(chain)
  BY DEF LedgerInv
<1>4. IsChain(chain')
  BY <1>1, <1>2, <1>3, Grows
<1>5. block.txs \in Seq(TxSet)
  BY DEF FeeLast
<1>6. utxoset \in SUBSET Slips
  BY DEF LedgerInv
<1>7. WindTxs(utxoset, block.txs) \in SUBSET Slips
  BY <1>5, <1>6, WindTxsType
<1>8. utxoset' \in SUBSET Slips
  BY <1>2, <1>7 DEF Purged, DeleteTxs
<1> QED BY <1>4, <1>8 DEF LedgerInv

\* The block the node makes of a bundle.
LEMMA BundledFacts ==
    ASSUME LedgerInv, NEW bundle \in Bundles, CanBundle(bundle),
           NEW block, block = CreatedFrom(bundle)
    PROVE  /\ FeeLast(block.txs, chain, block.ticket)
           /\ Followed \subseteq DOMAIN block.header
           /\ block.header.treasury \in Int
           /\ block = [txs |-> block.txs, ticket |-> block.ticket,
                       elapsed |-> block.elapsed, header |-> block.header]
<1>1. ChainOK(chain) /\ utxoset \in SUBSET Slips
  BY DEF LedgerInv, IsChain
<1>2. bundle.txs \in Seq(PlainTxs)
  BY <1>1, BundleType
<1>3. block = Created(chain, utxoset, bundle.txs, bundle.ticket, bundle.elapsed)
  BY DEF CreatedFrom
<1>4. /\ block.ticket = bundle.ticket
      /\ FeeLast(block.txs, chain, bundle.ticket)
      /\ Followed \subseteq DOMAIN block.header
      /\ block.header.treasury \in Int
      /\ block = [txs |-> block.txs, ticket |-> block.ticket,
                  elapsed |-> block.elapsed, header |-> block.header]
  BY <1>1, <1>2, <1>3, CreatedFacts
<1> QED BY <1>4

\* An unsound block that joins is remembered.
LEMMA UnsoundStays == unsound /\ [Next]_vars => unsound'
<1> SUFFICES ASSUME unsound, [Next]_vars PROVE unsound'
  OBVIOUS
<1>1. CASE Produce
  BY <1>1, Zenon DEF Produce, AddOwn
<1>2. CASE Receive
  BY <1>2, Zenon DEF Receive, AddReceived
<1>3. ASSUME NEW block, AddUnsound(block) PROVE unsound'
  BY <1>3, Zenon DEF AddUnsound
<1>4. CASE ReceiveUnpaid
  BY <1>3, <1>4, Zenon DEF ReceiveUnpaid
<1>5. CASE ReceiveRespent
  BY <1>3, <1>5, Zenon DEF ReceiveRespent
<1>6. CASE Unwind
  BY <1>6, Zenon DEF Unwind
<1>7. CASE UNCHANGED vars
  BY <1>7, Zenon DEF vars
<1> QED BY <1>1, <1>2, <1>4, <1>5, <1>6, <1>7 DEF Next

\* An unsound block is refused, or remembered.
LEMMA UnsoundJoins ==
    ASSUME ReceiveUnpaid \/ ReceiveRespent, ~unsound'
    PROVE  UNCHANGED <<chain, utxoset>>
<1>1. ASSUME NEW block, AddUnsound(block) PROVE UNCHANGED <<chain, utxoset>>
  BY <1>1, Zenon DEF AddUnsound
<1>2. CASE ReceiveUnpaid
  BY <1>1, <1>2, Zenon DEF ReceiveUnpaid
<1>3. CASE ReceiveRespent
  BY <1>1, <1>3, Zenon DEF ReceiveRespent
<1> QED BY <1>2, <1>3

\* Making, receiving and taking back a block keep the invariant.
LEMMA LedgerInvNext == LedgerInv /\ [Next]_vars => unsound' \/ LedgerInv'
<1> SUFFICES ASSUME LedgerInv, [Next]_vars, ~unsound' PROVE LedgerInv'
  OBVIOUS
<1>1. ASSUME UNCHANGED <<chain, utxoset>> PROVE LedgerInv'
  BY <1>1 DEF LedgerInv
<1>2. CASE Produce
  <2>1. PICK bundle \in Bundles : CanBundle(bundle) /\ AddOwn(CreatedFrom(bundle))
    BY <1>2 DEF Produce
  <2>2. PICK block : block = CreatedFrom(bundle)
    OBVIOUS
  <2>3. FeeLast(block.txs, chain, block.ticket) /\ block.header.treasury \in Int
    BY <2>1, <2>2, BundledFacts
  <2>4. CASE Validate(chain, utxoset, block)
    <3>1. Wind(block)
      BY <2>1, <2>2, <2>4 DEF AddOwn
    <3> QED BY <2>3, <2>4, <3>1, WindKeepsInv
  <2>5. CASE ~ Validate(chain, utxoset, block)
    BY <1>1, <2>1, <2>2, <2>5 DEF AddOwn
  <2> QED BY <2>4, <2>5
<1>3. CASE Receive
  <2>1. PICK bundle \in Bundles, f \in Misreports :
          /\ CanBundle(bundle)
          /\ Misstates(CreatedFrom(bundle), f)
          /\ AddReceived(Misreported(CreatedFrom(bundle), f))
    BY <1>3 DEF Receive
  <2>2. PICK honest : honest = CreatedFrom(bundle)
    OBVIOUS
  <2>3. PICK block : block = Misreported(honest, f)
    OBVIOUS
  <2>4. /\ FeeLast(honest.txs, chain, honest.ticket)
        /\ Followed \subseteq DOMAIN honest.header
        /\ honest.header.treasury \in Int
        /\ honest = [txs |-> honest.txs, ticket |-> honest.ticket,
                     elapsed |-> honest.elapsed, header |-> honest.header]
    BY <2>1, <2>2, BundledFacts
  <2>5. CASE Validate(chain, utxoset, block)
    <3>1. Wind(block)
      BY <2>1, <2>2, <2>3, <2>5 DEF AddReceived
    <3>2. ChainOK(chain)
      BY DEF LedgerInv, IsChain
    <3>3. FeeLast(block.txs, chain, block.ticket) /\ block.header.treasury \in Int
      BY <2>1, <2>2, <2>3, <2>4, <2>5, <3>2, MisreportedFacts
    <3> QED BY <2>5, <3>1, <3>3, WindKeepsInv
  <2>6. CASE ~ Validate(chain, utxoset, block)
    BY <1>1, <2>1, <2>2, <2>3, <2>6 DEF AddReceived
  <2> QED BY <2>5, <2>6
<1>4. CASE Unwind
  <2>1. /\ Len(chain) > 1
        /\ chain' = SubSeq(chain, 1, Len(chain) - 1)
        /\ utxoset' = UnwindTxs(utxoset, chain[Len(chain)].txs)
    BY <1>4 DEF Unwind
  <2>2. IsChain(chain')
    BY <2>1, Shrinks DEF LedgerInv
  <2>3. chain[Len(chain)].txs \in Seq(TxSet)
    <3>1. Len(chain) \in 1 .. Len(chain) /\ \A i \in 1 .. Len(chain) : BlockOK(chain[i])
      BY <2>1 DEF LedgerInv, IsChain, ChainOK
    <3> QED BY <3>1 DEF BlockOK
  <2>4. utxoset' \in SUBSET Slips
    BY <2>1, <2>3, UnwindTxsType DEF LedgerInv
  <2> QED BY <2>2, <2>4 DEF LedgerInv
<1>5. CASE UNCHANGED vars
  BY <1>1, <1>5 DEF vars
<1>6. CASE ReceiveUnpaid \/ ReceiveRespent
  BY <1>1, <1>6, UnsoundJoins
<1> QED BY <1>2, <1>3, <1>4, <1>5, <1>6 DEF Next

\* On such a chain the fees of every block are paid out once.
LEMMA LedgerInvPays == LedgerInv => FeesPaidOnce
<1> SUFFICES ASSUME LedgerInv, ~unsound, NEW i \in 2 .. Len(chain)
             PROVE  LET b == chain[i]
                        out == SumOf(b.txs, LAMBDA tx : IF tx.type = "Fee" THEN TotalOut(tx)
                                                        ELSE 0)
                                 + b.header.total_payout_treasury
                                 + b.header.total_payout_graveyard
                        late == IF i > 2 /\ ~HasTicket(chain[i - 1])
                                THEN chain[i - 2].header.total_fees ELSE 0
                    IN out = late + (IF HasTicket(b) THEN chain[i - 1].header.total_fees ELSE 0)
  BY Zenon DEF FeesPaidOnce
<1>1. PaidOnce(chain)
  BY DEF LedgerInv, IsChain
<1> QED BY <1>1, Zenon DEF PaidOnce, FeeOut

\* The fees of every block are paid out once, for any issuance, payments and
\* tickets, however often the chain loses its last block, and whatever a received
\* block misreports, as long as no unsound block joins.
THEOREM FeesPaid == Spec => []FeesPaidOnce
<1>1. Init => unsound \/ LedgerInv
  BY LedgerInvInit
<1>2. (unsound \/ LedgerInv) /\ [Next]_vars => (unsound \/ LedgerInv)'
  BY LedgerInvNext, UnsoundStays
<1>3. unsound \/ LedgerInv => FeesPaidOnce
  BY LedgerInvPays, Zenon DEF FeesPaidOnce
<1> QED BY <1>1, <1>2, <1>3, PTL DEF Spec

-----------------------------------------------------------------------------
(* What blocks take and put.                                               *)

\* The inputs and the outputs of the first k transactions.
InsTo(txs, k) == UNION {Valued(txs[i].ins) : i \in 1 .. k}
OutsTo(txs, k) == UNION {Valued(txs[i].outs) : i \in 1 .. k}

\* One transaction more.
LEMMA InsToNext ==
    ASSUME NEW txs, NEW k \in Nat \ {0}
    PROVE  /\ InsTo(txs, k) = InsTo(txs, k - 1) \cup Valued(txs[k].ins)
           /\ OutsTo(txs, k) = OutsTo(txs, k - 1) \cup Valued(txs[k].outs)
<1>1. \A i : i \in 1 .. k <=> i \in 1 .. k - 1 \/ i = k
  OBVIOUS
<1>2. ASSUME NEW x
      PROVE  /\ x \in InsTo(txs, k) <=> \E i \in 1 .. k : x \in Valued(txs[i].ins)
             /\ x \in InsTo(txs, k - 1) <=> \E i \in 1 .. k - 1 : x \in Valued(txs[i].ins)
             /\ x \in OutsTo(txs, k) <=> \E i \in 1 .. k : x \in Valued(txs[i].outs)
             /\ x \in OutsTo(txs, k - 1) <=> \E i \in 1 .. k - 1 : x \in Valued(txs[i].outs)
  BY DEF InsTo, OutsTo
<1>3. \A x : /\ x \in InsTo(txs, k) <=> x \in InsTo(txs, k - 1) \/ x \in Valued(txs[k].ins)
             /\ x \in OutsTo(txs, k) <=> x \in OutsTo(txs, k - 1) \/ x \in Valued(txs[k].outs)
  BY <1>1, <1>2
<1>4. InsTo(txs, k) = InsTo(txs, k - 1) \cup Valued(txs[k].ins)
  BY <1>3
<1>5. OutsTo(txs, k) = OutsTo(txs, k - 1) \cup Valued(txs[k].outs)
  BY <1>3
<1> QED BY <1>4, <1>5

\* Winding a block that spends none of its own outputs takes all its inputs and
\* puts all its outputs,
LEMMA WindTxsSum ==
    ASSUME NEW utxo \in SUBSET Slips, NEW txs \in Seq(TxSet), InsOf(txs) \cap OutsOf(txs) = {}
    PROVE  WindTxs(utxo, txs) = (utxo \ InsOf(txs)) \cup OutsOf(txs)
<1> DEFINE n == Len(txs)
<1>1. PICK w \in [0 .. n -> SUBSET Slips] :
         /\ w[0] = utxo /\ w[n] = WindTxs(utxo, txs)
         /\ \A k \in 1 .. n : w[k] = (w[k - 1] \ Valued(txs[k].ins)) \cup Valued(txs[k].outs)
  BY WindTxsSteps
<1>2. n \in Nat /\ InsOf(txs) = InsTo(txs, n) /\ OutsOf(txs) = OutsTo(txs, n)
  BY DEF InsOf, OutsOf, InsTo, OutsTo
<1>3. \A k \in 1 .. n : /\ Valued(txs[k].ins) \subseteq InsOf(txs)
                        /\ Valued(txs[k].outs) \subseteq OutsOf(txs)
  BY DEF InsOf, OutsOf
<1> DEFINE T == {k \in 0 .. n : /\ OutsTo(txs, k) \subseteq OutsOf(txs)
                               /\ w[k] = (utxo \ InsTo(txs, k)) \cup OutsTo(txs, k)}
<1>4. 0 \in T
  <2>1. InsTo(txs, 0) = {} /\ OutsTo(txs, 0) = {}
    BY DEF InsTo, OutsTo
  <2> QED BY <1>1, <1>2, <2>1
<1>5. ASSUME NEW k \in T, k < n PROVE k + 1 \in T
  <2>1. k + 1 \in 1 .. n /\ (k + 1) - 1 = k /\ k + 1 \in Nat \ {0} /\ k + 1 \in 0 .. n
    BY <1>2, <1>5
  <2>2. /\ InsTo(txs, k + 1) = InsTo(txs, k) \cup Valued(txs[k + 1].ins)
        /\ OutsTo(txs, k + 1) = OutsTo(txs, k) \cup Valued(txs[k + 1].outs)
    BY <2>1, InsToNext
  <2>3. w[k + 1] = (w[k] \ Valued(txs[k + 1].ins)) \cup Valued(txs[k + 1].outs)
    BY <1>1, <2>1
  <2>4. /\ Valued(txs[k + 1].ins) \subseteq InsOf(txs)
        /\ Valued(txs[k + 1].outs) \subseteq OutsOf(txs)
    BY <1>3, <2>1
  <2>5. /\ OutsTo(txs, k) \subseteq OutsOf(txs)
        /\ w[k] = (utxo \ InsTo(txs, k)) \cup OutsTo(txs, k)
    OBVIOUS
  <2> HIDE DEF n
  <2> QED BY <2>1, <2>2, <2>3, <2>4, <2>5
<1>6. T = 0 .. n
  <2>1. T \subseteq 0 .. n
    OBVIOUS
  <2> HIDE DEF T
  <2> QED BY <1>2, <1>4, <1>5, <2>1, RangeInduction
<1>7. n \in T
  <2> HIDE DEF T
  <2> QED BY <1>2, <1>6
<1> QED BY <1>1, <1>2, <1>7

\* and unwinding it does the opposite.
LEMMA UnwindTxsSum ==
    ASSUME NEW utxo \in SUBSET Slips, NEW txs \in Seq(TxSet), InsOf(txs) \cap OutsOf(txs) = {}
    PROVE  UnwindTxs(utxo, txs) = (utxo \cup InsOf(txs)) \ OutsOf(txs)
<1> DEFINE n == Len(txs)
<1>1. PICK w \in [0 .. n -> SUBSET Slips] :
         /\ w[0] = utxo /\ w[n] = UnwindTxs(utxo, txs)
         /\ \A k \in 1 .. n : w[k] = (w[k - 1] \cup Valued(txs[k].ins)) \ Valued(txs[k].outs)
  BY UnwindTxsSteps
<1>2. n \in Nat /\ InsOf(txs) = InsTo(txs, n) /\ OutsOf(txs) = OutsTo(txs, n)
  BY DEF InsOf, OutsOf, InsTo, OutsTo
<1>3. \A k \in 1 .. n : /\ Valued(txs[k].ins) \subseteq InsOf(txs)
                        /\ Valued(txs[k].outs) \subseteq OutsOf(txs)
  BY DEF InsOf, OutsOf
<1> DEFINE T == {k \in 0 .. n : /\ InsTo(txs, k) \subseteq InsOf(txs)
                               /\ w[k] = (utxo \cup InsTo(txs, k)) \ OutsTo(txs, k)}
<1>4. 0 \in T
  <2>1. InsTo(txs, 0) = {} /\ OutsTo(txs, 0) = {}
    BY DEF InsTo, OutsTo
  <2> QED BY <1>1, <1>2, <2>1
<1>5. ASSUME NEW k \in T, k < n PROVE k + 1 \in T
  <2>1. k + 1 \in 1 .. n /\ (k + 1) - 1 = k /\ k + 1 \in Nat \ {0} /\ k + 1 \in 0 .. n
    BY <1>2, <1>5
  <2>2. /\ InsTo(txs, k + 1) = InsTo(txs, k) \cup Valued(txs[k + 1].ins)
        /\ OutsTo(txs, k + 1) = OutsTo(txs, k) \cup Valued(txs[k + 1].outs)
    BY <2>1, InsToNext
  <2>3. w[k + 1] = (w[k] \cup Valued(txs[k + 1].ins)) \ Valued(txs[k + 1].outs)
    BY <1>1, <2>1
  <2>4. /\ Valued(txs[k + 1].ins) \subseteq InsOf(txs)
        /\ Valued(txs[k + 1].outs) \subseteq OutsOf(txs)
    BY <1>3, <2>1
  <2>5. /\ InsTo(txs, k) \subseteq InsOf(txs)
        /\ w[k] = (utxo \cup InsTo(txs, k)) \ OutsTo(txs, k)
    OBVIOUS
  <2>6. Valued(txs[k + 1].ins) \cap OutsTo(txs, k + 1) = {}
    <3>1. OutsTo(txs, k + 1) \subseteq OutsOf(txs)
      BY <1>3, <2>1 DEF OutsTo
    <3> QED BY <2>4, <3>1
  <2> HIDE DEF n
  <2> QED BY <2>1, <2>2, <2>3, <2>4, <2>5, <2>6
<1>6. T = 0 .. n
  <2>1. T \subseteq 0 .. n
    OBVIOUS
  <2> HIDE DEF T
  <2> QED BY <1>2, <1>4, <1>5, <2>1, RangeInduction
<1>7. n \in T
  <2> HIDE DEF T
  <2> QED BY <1>2, <1>6
<1> QED BY <1>1, <1>2, <1>7

\* A block fits on a utxoset when it spends what is there and puts only slips of
\* its own id.
Fits(txs, utxo, id) ==
    /\ InsOf(txs) \subseteq utxo
    /\ \A i \in 1 .. Len(txs) : \A k \in 1 .. Len(txs[i].outs) : txs[i].outs[k].id = id

\* All slips are of the first n blocks.
Before(utxo, n) == \A s \in utxo : s.id <= n

\* Such a block can be taken back.
LEMMA FitsBack ==
    ASSUME NEW n \in Nat, NEW utxo \in SUBSET Slips, Before(utxo, n),
           NEW txs \in Seq(TxSet), Fits(txs, utxo, n + 1)
    PROVE  /\ UnwindTxs(WindTxs(utxo, txs), txs) = utxo
           /\ Before(WindTxs(utxo, txs), n + 1)
<1>1. \A s \in utxo : s.id \in Nat /\ s.id <= n
  BY DEF Before, Slips
<1>9. \A s \in OutsOf(txs) : s.id = n + 1
  BY DEF Fits, OutsOf, Valued
<1>2. utxo \cap OutsOf(txs) = {} /\ InsOf(txs) \subseteq utxo
  BY <1>1, <1>9 DEF Fits
<1>3. InsOf(txs) \cap OutsOf(txs) = {}
  BY <1>2
<1>4. WindTxs(utxo, txs) = (utxo \ InsOf(txs)) \cup OutsOf(txs)
  BY <1>3, WindTxsSum
<1>5. WindTxs(utxo, txs) \in SUBSET Slips
  BY WindTxsType
<1>6. UnwindTxs(WindTxs(utxo, txs), txs) = (WindTxs(utxo, txs) \cup InsOf(txs)) \ OutsOf(txs)
  BY <1>3, <1>5, UnwindTxsSum
<1>7. UnwindTxs(WindTxs(utxo, txs), txs) = utxo
  BY <1>2, <1>4, <1>6
<1>8. Before(WindTxs(utxo, txs), n + 1)
  BY <1>1, <1>4, <1>9 DEF Before
<1> QED BY <1>7, <1>8

-----------------------------------------------------------------------------
(* The blocks of the chain fit.                                            *)

\* Transactions that spend what is there.
Sound(utxo) == {tx \in TxSet : Valued(tx.ins) \subseteq utxo}

\* The block gives all its outputs its id, and leaves the inputs alone.
LEMMA PlacedIds ==
    ASSUME NEW tx \in TxSet, NEW ord \in Nat, NEW id \in Nat
    PROVE  /\ Placed(tx, ord, id).ins = tx.ins
           /\ \A k \in 1 .. Len(Placed(tx, ord, id).outs) : Placed(tx, ord, id).outs[k].id = id
<1> DEFINE outs == [k \in 1 .. Len(tx.outs) |->
                      [tx.outs[k] EXCEPT !.id = id, !.ord = ord, !.idx = k - 1]]
<1>1. tx.outs \in Seq(Slips) /\ Len(tx.outs) \in Nat
  BY DEF TxSet
<1>2. \A k \in 1 .. Len(tx.outs) : outs[k].id = id
  <2> TAKE k \in 1 .. Len(tx.outs)
  <2>1. tx.outs[k] \in Slips
    BY <1>1
  <2>2. outs[k] = [tx.outs[k] EXCEPT !.id = id, !.ord = ord, !.idx = k - 1]
    OBVIOUS
  <2> HIDE DEF outs
  <2> QED BY <2>1, <2>2 DEF Slips
<1>3. Len(outs) = Len(tx.outs)
  <2>1. outs = [k \in 1 .. Len(tx.outs) |-> outs[k]]
    OBVIOUS
  <2> HIDE DEF outs
  <2> QED BY <1>1, <2>1
<1>4. Placed(tx, ord, id) = [tx EXCEPT !.outs = outs]
  BY DEF Placed
<1> HIDE DEF outs
<1>5. Placed(tx, ord, id).ins = tx.ins /\ Placed(tx, ord, id).outs = outs
  BY <1>4 DEF TxSet
<1> QED BY <1>2, <1>3, <1>5

\* A block of such transactions fits.
LEMMA AllPlacedFits ==
    ASSUME NEW utxo, NEW txs \in Seq(Sound(utxo)), NEW id \in Nat
    PROVE  Fits(AllPlaced(txs, id), utxo, id)
<1>1. PICK there : there = AllPlaced(txs, id)
  OBVIOUS
<1>2. txs \in Seq(TxSet) /\ \A i \in 1 .. Len(txs) : Valued(txs[i].ins) \subseteq utxo
  <2>1. \A i \in 1 .. Len(txs) : txs[i] \in Sound(utxo)
    OBVIOUS
  <2>2. Sound(utxo) \subseteq TxSet
    BY DEF Sound
  <2> QED BY <2>1, <2>2 DEF Sound
<1>3. /\ Len(there) = Len(txs)
      /\ \A i \in 1 .. Len(txs) : there[i] = Placed(txs[i], i - 1, id)
  BY <1>1, <1>2, AllPlacedFacts
<1>4. ASSUME NEW i \in 1 .. Len(txs)
      PROVE  /\ Valued(there[i].ins) \subseteq utxo
             /\ \A k \in 1 .. Len(there[i].outs) : there[i].outs[k].id = id
  <2>1. txs[i] \in TxSet /\ i - 1 \in Nat /\ there[i] = Placed(txs[i], i - 1, id)
    BY <1>2, <1>3
  <2>2. /\ there[i].ins = txs[i].ins
        /\ \A k \in 1 .. Len(there[i].outs) : there[i].outs[k].id = id
    BY <2>1, PlacedIds
  <2> QED BY <1>2, <2>2
<1>5. InsOf(there) \subseteq utxo
  BY <1>3, <1>4 DEF InsOf
<1> QED BY <1>1, <1>3, <1>4, <1>5 DEF Fits

\* A golden ticket spends nothing,
LEMMA TicketSound ==
    ASSUME NEW utxo
    PROVE  TicketTx \in Sound(utxo)
<1>1. TicketTx.ins = <<NewSlip("miner", 0, "Normal")>>
  BY DEF TicketTx, Tx
<1>2. NewSlip("miner", 0, "Normal").amount = 0
  BY DEF NewSlip, Slip
<1>3. Valued(TicketTx.ins) = {}
  BY <1>1, <1>2 DEF Valued
<1>4. TicketTx \in TxSet
  BY TicketTxType DEF PlainTxs
<1> QED BY <1>3, <1>4 DEF Sound

\* and neither does a fee transaction.
LEMMA FeeSound ==
    ASSUME NEW utxo, NEW paid \in PayoutSet
    PROVE  FeeTx(paid) \in Sound(utxo)
<1>1. PICK outs : FeeTx(paid) = Placed(Tx("Fee", << >>, outs, 0), 0, 0)
  BY DEF FeeTx
<1>2. FeeTx(paid).ins = << >>
  BY <1>1 DEF Placed, Tx
<1>3. Valued(FeeTx(paid).ins) = {}
  BY <1>2 DEF Valued
<1>4. FeeTx(paid) \in TxSet
  BY FeeTxFacts
<1> QED BY <1>3, <1>4 DEF Sound

\* Users pay with what is there.
LEMMA BundleSound ==
    ASSUME utxoset \in SUBSET Slips, NEW bundle \in Bundles, CanBundle(bundle)
    PROVE  bundle.txs \in Seq(Sound(utxoset))
<1>1. PICK slip \in utxoset, p \in Payments : bundle.txs = <<PaymentTx(slip, p)>>
  BY DEF Bundles, BundlesOf
<1>2. bundle.txs[1].outs[1].amount >= 0
  BY DEF CanBundle
<1>3. bundle.txs[1].outs[1].amount = slip.amount - p.fee - p.gift
  BY <1>1 DEF PaymentTx, Tx, NewSlip, Slip
<1>4. PaymentTx(slip, p) \in TxSet
  BY <1>1, <1>2, <1>3, PaymentType DEF PlainTxs
<1>5. PaymentTx(slip, p).ins = <<slip>>
  BY DEF PaymentTx, Tx
<1>6. Valued(PaymentTx(slip, p).ins) \subseteq utxoset
  BY <1>5 DEF Valued
<1>7. PaymentTx(slip, p) \in Sound(utxoset)
  BY <1>4, <1>6 DEF Sound
<1> HIDE DEF PaymentTx
<1> QED BY <1>1, <1>7

\* The share of the treasury a header adds to every amount that is rebroadcast.
Share(h) ==
    LET staked == GenesisPeriod * h.avg_nolan_rebroadcast_per_block
    IN IF staked > 0 THEN h.treasury \div staked ELSE 0

\* Rebroadcasts of slips that are there, for what they are worth.
Unshared(utxo) == {atr \in Atrs : atr.payout = 0 /\ atr.txs \in Seq(Sound(utxo))}

\* One slip more.
LEMMA RebroadcastSound ==
    ASSUME NEW utxo, NEW e \in Spendables(utxo), NEW fee \in Nat, NEW atr \in Unshared(utxo)
    PROVE  Rebroadcast(e, 1, fee, atr) \in Unshared(utxo)
<1> DEFINE new == Rebroadcast(e, 1, fee, atr)
<1>1. e \in Entries /\ SlipValid(e.slip, utxo) /\ e.slip \in Slips /\ e.slip.amount \in Nat
  BY DEF Spendables, Entries, Slips
<1>2. atr \in Atrs /\ atr.payout = 0 /\ atr.txs \in Seq(Sound(utxo)) /\ atr \in AtrFields
  BY DEF Unshared, Atrs
<1>3. new \in Atrs
  BY <1>1, <1>2, RebroadcastType
<1>4. e.slip.amount * 1 = e.slip.amount
  BY <1>1
<1>5. PICK from : from = [e.slip EXCEPT !.amount = e.slip.amount * 1]
  OBVIOUS
<1>6. from = e.slip
  BY <1>1, <1>4, <1>5 DEF Slips
<1>7. PICK to : to = [e.slip EXCEPT !.amount = e.slip.amount * 1 - fee, !.type = "ATR"]
  OBVIOUS
<1>8. PICK tx : tx = RebroadcastTx(e.tx, from, to)
  OBVIOUS
<1>9. CASE e.slip.amount > fee
  <2>1. new = [atr EXCEPT !.txs = Append(@, tx), !.nolan = @ + e.slip.amount, !.fees = @ + fee,
                          !.payout = @ + e.slip.amount - e.slip.amount]
    BY <1>4, <1>5, <1>7, <1>8, <1>9 DEF Rebroadcast
  <2>2. new.txs = Append(atr.txs, tx) /\ new.payout = 0
    <3>1. new.txs = Append(atr.txs, tx)
      <4> HIDE DEF new
      <4> QED BY <1>2, <2>1 DEF AtrFields
    <3>2. new.payout = atr.payout + e.slip.amount - e.slip.amount
      <4> HIDE DEF new
      <4> QED BY <1>2, <2>1 DEF AtrFields
    <3> HIDE DEF new
    <3> QED BY <1>1, <1>2, <3>1, <3>2
  <2>3. tx \in Sound(utxo)
    <3>1. to \in Slips
      <4>1. e.slip.amount * 1 - fee \in Nat
        BY <1>1, <1>9
      <4> QED BY <1>1, <1>7, <4>1 DEF Slips, SlipTypes
    <3>2. tx \in TxSet
      <4>1. e.tx \in TxSet
        BY <1>1 DEF Entries
      <4>2. tx \in AtrTxs
        BY <1>1, <1>6, <1>8, <3>1, <4>1, RebroadcastTxType
      <4> QED BY <4>2 DEF AtrTxs
    <3>3. tx.ins = <<from>>
      BY <1>8 DEF RebroadcastTx, Placed
    <3>4. Valued(tx.ins) \subseteq utxo
      <4>1. e.slip \in utxo
        BY <1>1, <1>9 DEF SlipValid
      <4> QED BY <1>6, <3>3, <4>1 DEF Valued
    <3> QED BY <3>2, <3>4 DEF Sound
  <2>4. Append(atr.txs, tx) \in Seq(Sound(utxo))
    BY <1>2, <2>3
  <2> QED BY <1>3, <2>2, <2>4 DEF Unshared
<1>10. CASE ~ (e.slip.amount > fee)
  <2>1. new = [atr EXCEPT !.nolan = @ + e.slip.amount, !.fees = @ + e.slip.amount,
                          !.dust = @ + e.slip.amount]
    BY <1>4, <1>10 DEF Rebroadcast
  <2>2. new.txs = atr.txs /\ new.payout = atr.payout
    BY <1>2, <2>1 DEF AtrFields
  <2> QED BY <1>2, <1>3, <2>2 DEF Unshared
<1> QED BY <1>9, <1>10

\* All of them.
LEMMA UncappedSound ==
    ASSUME NEW c, ChainOK(c), Share(c[Len(c)].header) = 0, NEW utxo
    PROVE  Uncapped(c, utxo) \in Unshared(utxo)
<1> DEFINE old == c[Len(c) - GenesisPeriod].txs
           one == 1 + Share(c[Len(c)].header)
           fee == TxSize * c[Len(c)].header.avg_fee_per_byte
<1>1. GenesisPeriod \in Nat \ {0} /\ TxSize \in Nat \ {0}
  BY LedgerAssumption
<1>2. Len(c) \in Nat \ {0} /\ \A i \in 1 .. Len(c) : BlockOK(c[i])
  BY DEF ChainOK
<1>3. NothingRebroadcast \in Unshared(utxo)
  <2>1. << >> \in Seq(Sound(utxo))
    OBVIOUS
  <2> QED BY <2>1, NothingRebroadcastType DEF NothingRebroadcast, Unshared
<1>4. one = 1
  OBVIOUS
<1>5. fee \in Nat
  <2>1. c[Len(c)].header.avg_fee_per_byte \in Nat
    BY <1>2 DEF BlockOK, HeaderOK
  <2> QED BY <1>1, <2>1
<1>6. CASE Len(c) <= GenesisPeriod
  BY <1>3, <1>6 DEF Uncapped
<1>7. CASE ~ (Len(c) <= GenesisPeriod)
  <2>1. old \in Seq(TxSet)
    <3>1. Len(c) - GenesisPeriod \in 1 .. Len(c)
      BY <1>1, <1>2, <1>7
    <3> QED BY <1>2, <3>1 DEF BlockOK
  <2>2. Uncapped(c, utxo) = AllRebroadcast(Eligible(old, utxo), one, fee)
    BY <1>7, Zenon DEF Uncapped, AllRebroadcast, Share
  <2> HIDE DEF old, one, fee
  <2>3. Eligible(old, utxo) \in Seq(Spendables(utxo))
    BY <2>1, EligibleType
  <2>4. \A e \in Spendables(utxo), atr \in Unshared(utxo) :
          Rebroadcast(e, 1, fee, atr) \in Unshared(utxo)
    BY <1>5, RebroadcastSound
  <2>5. AllRebroadcast(Eligible(old, utxo), 1, fee) \in Unshared(utxo)
    BY <1>3, <2>3, <2>4, AllRebroadcastStays
  <2> QED BY <1>4, <2>2, <2>5
<1> QED BY <1>6, <1>7

\* The block the node makes of payments that fit.
LEMMA CreatedFits ==
    ASSUME NEW c, ChainOK(c), Share(c[Len(c)].header) = 0, NEW utxo,
           NEW payments \in Seq(Sound(utxo)), NEW ticket, NEW elapsed,
           NEW block, block = Created(c, utxo, payments, ticket, elapsed)
    PROVE  Fits(block.txs, utxo, Len(c) + 1)
<1>1. PICK own : own = OwnTxs(payments, ticket)
  OBVIOUS
<1>2. PICK cv : cv = ConsensusValues(c, utxo, own, ticket, elapsed, 0)
  OBVIOUS
<1>3. PICK atr : atr = Capped(Uncapped(c, utxo), 0)
  OBVIOUS
<1>4. block.txs = AllPlaced(own \o cv.rebroadcasts \o cv.fee, Len(c) + 1)
  BY <1>1, <1>2, Zenon DEF Created
<1>5. cv.rebroadcasts = atr.txs /\ cv.fee = FeeGiven(c, ticket)
  BY <1>2, <1>3, ConsensusFields
<1>6. own \in Seq(Sound(utxo))
  <2> DEFINE first == IF ticket = NoTicket THEN << >> ELSE <<TicketTx>>
  <2>1. first \in Seq(Sound(utxo))
    BY TicketSound
  <2>2. own = first \o payments
    BY <1>1 DEF OwnTxs
  <2> HIDE DEF first
  <2> QED BY <2>1, <2>2
<1>7. atr.txs \in Seq(Sound(utxo))
  <2>1. PICK uncapped \in Unshared(utxo) : uncapped = Uncapped(c, utxo)
    BY UncappedSound
  <2>2. uncapped.payout = 0 /\ uncapped.txs \in Seq(Sound(utxo)) /\ FivePercent(0) = 0
    BY DEF Unshared, FivePercent
  <2>3. Capped(uncapped, 0) = uncapped
    <3>1. uncapped.payout <= FivePercent(0)
      BY <2>2
    <3> QED BY <3>1, Zenon DEF Capped
  <2> QED BY <1>3, <2>1, <2>2, <2>3
<1>8. cv.fee \in Seq(Sound(utxo))
  <2>1. SettledAfter(c, ticket) \in PayoutSet
    BY PayoutsFacts
  <2>2. FeeTx(SettledAfter(c, ticket)) \in Sound(utxo)
    BY <2>1, FeeSound
  <2> QED BY <1>5, <2>2 DEF FeeGiven
<1>9. PICK all : all = own \o cv.rebroadcasts \o cv.fee
  OBVIOUS
<1>10. all \in Seq(Sound(utxo))
  BY <1>5, <1>6, <1>7, <1>8, <1>9
<1>11. Len(c) + 1 \in Nat
  BY DEF ChainOK
<1> QED BY <1>4, <1>9, <1>10, <1>11, AllPlacedFits

\* Whatever it misreports, a block of somebody else fits as well.
LEMMA MisreportedFits ==
    ASSUME NEW honest, NEW utxo, NEW id, Fits(honest.txs, utxo, id), honest.txs \in Seq(TxSet),
           honest = [txs |-> honest.txs, ticket |-> honest.ticket,
                     elapsed |-> honest.elapsed, header |-> honest.header],
           NEW f, Misstates(honest, f), NEW block, block = Misreported(honest, f)
    PROVE  Fits(block.txs, utxo, id)
<1>1. CASE f \in DOMAIN ZeroHeader
  <2>1. block = [honest EXCEPT !.header[f] = @ + 1]
    BY <1>1 DEF Misreported
  <2> QED BY <2>1
<1>2. CASE f \notin DOMAIN ZeroHeader
  <2>1. PICK k : k = CHOOSE i \in Paying(honest, f) : TRUE
    OBVIOUS
  <2>2. PICK txs : txs = honest.txs
    OBVIOUS
  <2>3. k \in 1 .. Len(txs) /\ txs[k].outs # << >>
    <3>1. Paying(honest, f) # {}
      BY <1>2 DEF Misstates
    <3>2. k \in Paying(honest, f)
      BY <2>1, <3>1
    <3> QED BY <2>2, <3>2 DEF Paying
  <2>4. block = [honest EXCEPT !.txs[k].outs[1].amount = @ + 1]
    BY <1>2, <2>1 DEF Misreported
  <2>5. txs \in Seq(TxSet) /\ txs[k] \in TxSet /\ txs[k].outs \in Seq(Slips)
    <3>1. txs \in Seq(TxSet) /\ txs[k] \in TxSet
      BY <2>2, <2>3
    <3> QED BY <3>1 DEF TxSet
  <2>6. PICK outs : outs = [txs[k].outs EXCEPT ![1] = [txs[k].outs[1] EXCEPT !.amount = @ + 1]]
    OBVIOUS
  <2>7. PICK tx : tx = [txs[k] EXCEPT !.outs = outs]
    OBVIOUS
  <2>8. block.txs = [txs EXCEPT ![k] = tx]
    BY <2>2, <2>3, <2>4, <2>6, <2>7
  <2>9. tx.ins = txs[k].ins /\ tx.outs = outs
    BY <2>5, <2>7 DEF TxSet
  <2>10. /\ Len(outs) = Len(txs[k].outs) /\ 1 \in 1 .. Len(txs[k].outs)
         /\ \A j \in 1 .. Len(outs) : outs[j].id = txs[k].outs[j].id
    <3>1. PICK s \in Seq(Slips) : s = txs[k].outs
      BY <2>5
    <3>2. s # << >> /\ 1 \in 1 .. Len(s) /\ s[1] \in Slips
      BY <2>3, <3>1
    <3>3. PICK o : o = [s[1] EXCEPT !.amount = @ + 1]
      OBVIOUS
    <3>4. o.id = s[1].id
      BY <3>2, <3>3 DEF Slips
    <3>5. outs = [s EXCEPT ![1] = o]
      BY <2>6, <3>1, <3>3
    <3>6. Len(outs) = Len(s) /\ \A j \in 1 .. Len(s) : outs[j] = IF j = 1 THEN o ELSE s[j]
      BY <3>2, <3>5
    <3> QED BY <3>1, <3>2, <3>4, <3>6
  <2>11. /\ Len(block.txs) = Len(txs) /\ block.txs[k] = tx
         /\ \A i \in 1 .. Len(txs) : i # k => block.txs[i] = txs[i]
    BY <2>3, <2>5, <2>8
  <2>12. /\ InsOf(txs) \subseteq utxo
         /\ \A i \in 1 .. Len(txs) : \A j \in 1 .. Len(txs[i].outs) : txs[i].outs[j].id = id
    BY <2>2 DEF Fits
  <2>13. \A i \in 1 .. Len(txs) : block.txs[i].ins = txs[i].ins
    BY <2>9, <2>11
  <2>14. InsOf(block.txs) = InsOf(txs)
    BY <2>11, <2>13 DEF InsOf
  <2>15. \A i \in 1 .. Len(txs) : \A j \in 1 .. Len(block.txs[i].outs) :
           block.txs[i].outs[j].id = id
    <3> TAKE i \in 1 .. Len(txs)
    <3>1. CASE i = k
      BY <2>9, <2>10, <2>11, <2>12, <3>1
    <3>2. CASE i # k
      BY <2>11, <2>12, <3>2
    <3> QED BY <3>1, <3>2
  <2> QED BY <2>11, <2>12, <2>14, <2>15 DEF Fits
<1> QED BY <1>1, <1>2

-----------------------------------------------------------------------------
(* What was spendable after every block.                                   *)

\* u[i] was spendable after block i: block i was validated against u[i - 1], and
\* leads from there to u[i] and back.  A block above 2 * genesis_period purges,
\* which nothing takes back.
History(c, u) ==
    /\ u \in [1 .. Len(c) -> SUBSET Slips]
    /\ \A i \in 1 .. Len(c) : i <= 2 * GenesisPeriod => Before(u[i], i)
    /\ \A i \in 2 .. Len(c) : i <= 2 * GenesisPeriod =>
         /\ Validate(SubSeq(c, 1, i - 1), u[i - 1], c[i])
         /\ WindTxs(u[i - 1], c[i].txs) = u[i]
         /\ UnwindTxs(u[i], c[i].txs) = u[i - 1]

\* The history of the chain ends in this utxoset.
Leads(c, utxo) == \E u : History(c, u) /\ u[Len(c)] = utxo

\* A block that fits joins the chain.
LEMMA HistoryGrows ==
    ASSUME NEW S, NEW c \in Seq(S), Len(c) > 0, NEW before, Leads(c, before), NEW block \in S,
           block.txs \in Seq(TxSet), Validate(c, before, block),
           Fits(block.txs, before, Len(c) + 1),
           NEW d, d = Append(c, block),
           NEW utxo, utxo = Purged(d, WindTxs(before, block.txs))
    PROVE  Leads(d, utxo)
<1>0. PICK u : History(c, u) /\ u[Len(c)] = before
  BY DEF Leads
<1> DEFINE n == Len(c)
           v == [i \in 1 .. n + 1 |-> IF i = n + 1 THEN utxo ELSE u[i]]
<1>1. /\ n \in Nat \ {0} /\ n \in 1 .. n /\ Len(d) = n + 1 /\ d[n + 1] = block
      /\ \A i \in 1 .. n : d[i] = c[i]
  OBVIOUS
<1>2. GenesisPeriod \in Nat \ {0}
  BY LedgerAssumption
<1>3. u \in [1 .. n -> SUBSET Slips] /\ u[n] \in SUBSET Slips /\ u[n] = before
  BY <1>0, <1>1 DEF History
<1>4. WindTxs(u[n], block.txs) \in SUBSET Slips
  BY <1>3, WindTxsType
<1>5. utxo \in SUBSET Slips
  BY <1>3, <1>4 DEF Purged, DeleteTxs
<1>6. /\ v \in [1 .. n + 1 -> SUBSET Slips] /\ v[n + 1] = utxo
      /\ \A i \in 1 .. n : v[i] = u[i]
  BY <1>1, <1>3, <1>5
<1>7. \A i \in 1 .. n : SubSeq(d, 1, i) = SubSeq(c, 1, i)
  <2> TAKE i \in 1 .. n
  <2>1. /\ SubSeq(d, 1, i) = [k \in 1 .. i |-> d[k]] /\ SubSeq(c, 1, i) = [k \in 1 .. i |-> c[k]]
        /\ \A k \in 1 .. i : d[k] = c[k]
    <3>1. d \in Seq(S) /\ i \in Nat /\ i <= n
      BY <1>1
    <3> QED BY <1>1, <3>1
  <2> QED BY <2>1
<1>8. SubSeq(c, 1, n) = c
  <2>1. SubSeq(c, 1, n) = [k \in 1 .. n |-> c[k]] /\ c = [k \in 1 .. n |-> c[k]]
    OBVIOUS
  <2> QED BY <2>1
<1> HIDE DEF v, n
<1>9. CASE n + 1 <= 2 * GenesisPeriod
  <2>1. utxo = WindTxs(u[n], block.txs)
    <3>1. ~ (Len(d) >= 2 * GenesisPeriod + 1)
      BY <1>1, <1>2, <1>9
    <3> QED BY <1>3, <3>1 DEF Purged, n
  <2>2. Before(u[n], n)
    BY <1>0, <1>1, <1>2, <1>9 DEF History, n
  <2>3. Fits(block.txs, u[n], n + 1) /\ n \in Nat
    BY <1>1, <1>3 DEF n
  <2>4. UnwindTxs(utxo, block.txs) = u[n] /\ Before(utxo, n + 1)
    BY <1>3, <2>1, <2>2, <2>3, FitsBack
  <2>5. \A i \in 1 .. n + 1 : i <= 2 * GenesisPeriod => Before(v[i], i)
    <3> TAKE i \in 1 .. n + 1
    <3>1. CASE i = n + 1
      BY <1>6, <2>4, <3>1
    <3>2. CASE i # n + 1
      <4>1. i \in 1 .. n /\ v[i] = u[i]
        BY <1>1, <1>6, <3>2
      <4> QED BY <1>0, <4>1 DEF History, n
    <3> QED BY <3>1, <3>2
  <2>6. \A i \in 2 .. n + 1 : i <= 2 * GenesisPeriod =>
          /\ Validate(SubSeq(d, 1, i - 1), v[i - 1], d[i])
          /\ WindTxs(v[i - 1], d[i].txs) = v[i]
          /\ UnwindTxs(v[i], d[i].txs) = v[i - 1]
    <3> TAKE i \in 2 .. n + 1
    <3>1. CASE i = n + 1
      <4>1. i - 1 = n /\ v[i - 1] = u[n] /\ v[i] = utxo /\ d[i] = block
        BY <1>1, <1>6, <3>1
      <4>2. SubSeq(d, 1, i - 1) = c
        BY <1>1, <1>7, <1>8, <4>1
      <4>3. Validate(c, u[n], block)
        BY <1>3
      <4> QED BY <2>1, <2>4, <4>1, <4>2, <4>3
    <3>2. CASE i # n + 1
      <4>1. /\ i \in 2 .. n /\ i \in 1 .. n /\ i - 1 \in 1 .. n
            /\ v[i] = u[i] /\ v[i - 1] = u[i - 1] /\ d[i] = c[i]
        BY <1>1, <1>6, <3>2
      <4>2. SubSeq(d, 1, i - 1) = SubSeq(c, 1, i - 1)
        BY <1>7, <4>1
      <4> QED BY <1>0, <4>1, <4>2 DEF History, n
    <3> QED BY <3>1, <3>2
  <2>7. History(d, v)
    BY <1>1, <1>6, <2>5, <2>6 DEF History
  <2> QED BY <1>1, <1>6, <2>7 DEF Leads
<1>10. CASE ~ (n + 1 <= 2 * GenesisPeriod)
  <2>1. \A i \in 1 .. n + 1 : i <= 2 * GenesisPeriod => i \in 1 .. n
    BY <1>1, <1>2, <1>10
  <2>2. \A i \in 1 .. n + 1 : i <= 2 * GenesisPeriod => Before(v[i], i)
    BY <1>0, <1>6, <2>1 DEF History, n
  <2>3. \A i \in 2 .. n + 1 : i <= 2 * GenesisPeriod =>
          /\ Validate(SubSeq(d, 1, i - 1), v[i - 1], d[i])
          /\ WindTxs(v[i - 1], d[i].txs) = v[i]
          /\ UnwindTxs(v[i], d[i].txs) = v[i - 1]
    <3> SUFFICES ASSUME NEW i \in 2 .. n + 1, i <= 2 * GenesisPeriod
                 PROVE  /\ Validate(SubSeq(d, 1, i - 1), v[i - 1], d[i])
                        /\ WindTxs(v[i - 1], d[i].txs) = v[i]
                        /\ UnwindTxs(v[i], d[i].txs) = v[i - 1]
      OBVIOUS
    <3>1. i \in 1 .. n /\ i \in 2 .. n /\ i - 1 \in 1 .. n
      BY <1>1, <2>1
    <3>2. v[i] = u[i] /\ v[i - 1] = u[i - 1] /\ d[i] = c[i]
      BY <1>1, <1>6, <3>1
    <3>3. SubSeq(d, 1, i - 1) = SubSeq(c, 1, i - 1)
      BY <1>7, <3>1
    <3> QED BY <1>0, <3>1, <3>2, <3>3 DEF History, n
  <2>4. History(d, v)
    BY <1>1, <1>6, <2>2, <2>3 DEF History
  <2> QED BY <1>1, <1>6, <2>4 DEF Leads
<1> QED BY <1>9, <1>10

\* The last block is taken back.
LEMMA HistoryShrinks ==
    ASSUME NEW S, NEW c \in Seq(S), Len(c) > 1, Len(c) <= 2 * GenesisPeriod,
           NEW utxo, Leads(c, utxo), NEW d, d = SubSeq(c, 1, Len(c) - 1)
    PROVE  Leads(d, UnwindTxs(utxo, c[Len(c)].txs))
<1>0. PICK u : History(c, u) /\ u[Len(c)] = utxo
  BY DEF Leads
<1> DEFINE n == Len(c) - 1
           v == [i \in 1 .. n |-> u[i]]
<1>1. /\ n \in Nat \ {0} /\ n \in 1 .. n /\ n + 1 = Len(c) /\ Len(d) = n /\ d \in Seq(S)
      /\ \A i \in 1 .. n : d[i] = c[i] /\ i \in 1 .. Len(c)
  OBVIOUS
<1>2. GenesisPeriod \in Nat \ {0}
  BY LedgerAssumption
<1>3. v \in [1 .. n -> SUBSET Slips] /\ \A i \in 1 .. n : v[i] = u[i]
  BY <1>0, <1>1 DEF History
<1>4. \A i \in 1 .. n : SubSeq(d, 1, i) = SubSeq(c, 1, i)
  <2> TAKE i \in 1 .. n
  <2>1. /\ SubSeq(d, 1, i) = [k \in 1 .. i |-> d[k]] /\ SubSeq(c, 1, i) = [k \in 1 .. i |-> c[k]]
        /\ \A k \in 1 .. i : d[k] = c[k]
    <3>1. i \in Nat /\ i <= n
      BY <1>1
    <3> QED BY <1>1, <3>1
  <2> QED BY <2>1
<1> HIDE DEF v, n
<1>5. \A i \in 1 .. n : i <= 2 * GenesisPeriod => Before(v[i], i)
  BY <1>0, <1>1, <1>3 DEF History
<1>6. \A i \in 2 .. n : i <= 2 * GenesisPeriod =>
        /\ Validate(SubSeq(d, 1, i - 1), v[i - 1], d[i])
        /\ WindTxs(v[i - 1], d[i].txs) = v[i]
        /\ UnwindTxs(v[i], d[i].txs) = v[i - 1]
  <2> SUFFICES ASSUME NEW i \in 2 .. n, i <= 2 * GenesisPeriod
               PROVE  /\ Validate(SubSeq(d, 1, i - 1), v[i - 1], d[i])
                      /\ WindTxs(v[i - 1], d[i].txs) = v[i]
                      /\ UnwindTxs(v[i], d[i].txs) = v[i - 1]
    OBVIOUS
  <2>1. i \in 1 .. n /\ i \in 2 .. Len(c) /\ i - 1 \in 1 .. n
    BY <1>1
  <2>2. v[i] = u[i] /\ v[i - 1] = u[i - 1] /\ d[i] = c[i]
    BY <1>1, <1>3, <2>1
  <2>3. SubSeq(d, 1, i - 1) = SubSeq(c, 1, i - 1)
    BY <1>4, <2>1
  <2> QED BY <1>0, <2>1, <2>2, <2>3 DEF History
<1>7. History(d, v)
  BY <1>1, <1>3, <1>5, <1>6 DEF History
<1>8. UnwindTxs(utxo, c[Len(c)].txs) = u[n]
  <2>1. Len(c) \in 2 .. Len(c) /\ Len(c) - 1 = n
    BY <1>1
  <2> QED BY <1>0, <2>1 DEF History
<1> QED BY <1>1, <1>3, <1>7, <1>8 DEF Leads

\* The chain has such a history, which ends in the utxoset of the node.
LedgerHistory == LedgerInv /\ Leads(chain, utxoset)

\* The treasury adds nothing to what is rebroadcast: a rebroadcast then spends the
\* slip itself, and not one with a higher amount, which was never there.
NoShare == \A i \in 1 .. Len(chain) : Share(chain[i].header) = 0

\* What the first block issues is of that block.
LEMMA LedgerHistoryInit == Init => LedgerHistory
<1> SUFFICES ASSUME Init PROVE LedgerHistory
  OBVIOUS
<1> DEFINE issued == [i \in 1 .. Len(Issuance) |->
                 Tx("Issuance", << >>, <<NewSlip(Issuance[i][1], Issuance[i][2], "Normal")>>, 0)]
           u == [i \in 1 .. 1 |-> utxoset]
<1>1. LedgerInv
  BY LedgerInvInit
<1>2. issued \in Seq(Sound({}))
  <2>1. Len(Issuance) \in Nat
    BY LedgerAssumption
  <2>2. ASSUME NEW i \in 1 .. Len(Issuance) PROVE issued[i] \in Sound({})
    <3>1. issued[i] \in TxSet
      BY IssuanceType DEF PlainTxs
    <3>2. issued[i].ins = << >>
      BY DEF Tx
    <3> HIDE DEF issued
    <3>3. Valued(issued[i].ins) = {}
      BY <3>2 DEF Valued
    <3> QED BY <3>1, <3>3 DEF Sound
  <2>3. issued = [i \in 1 .. Len(Issuance) |-> issued[i]]
    OBVIOUS
  <2> HIDE DEF issued
  <2> QED BY <2>1, <2>2, <2>3
<1>3. GenesisBlock.txs = AllPlaced(issued, 1)
  BY DEF GenesisBlock
<1> HIDE DEF issued
<1>4. Fits(GenesisBlock.txs, {}, 1)
  BY <1>2, <1>3, AllPlacedFits
<1>5. \A s \in utxoset : s.id = 1
  BY <1>4 DEF Init, Fits, OutsOf, Valued
<1>6. Len(chain) = 1 /\ utxoset \in SUBSET Slips
  BY <1>1 DEF Init, LedgerInv
<1>7. u \in [1 .. 1 -> SUBSET Slips] /\ u[1] = utxoset
  BY <1>6
<1> HIDE DEF u
<1>8. \A i \in 1 .. 1 : Before(u[i], i)
  BY <1>5, <1>7 DEF Before
<1>9. History(chain, u)
  BY <1>6, <1>7, <1>8 DEF History
<1> QED BY <1>1, <1>6, <1>7, <1>9 DEF LedgerHistory, Leads

\* A block that joins the chain fits.
LEMMA WindKeepsHistory ==
    ASSUME LedgerHistory, NEW block, block.txs \in Seq(TxSet),
           Fits(block.txs, utxoset, Len(chain) + 1),
           Validate(chain, utxoset, block), Wind(block)
    PROVE  Leads(chain', utxoset')
<1> DEFINE S == Members(chain) \cup {block}
<1>1. Leads(chain, utxoset)
  BY DEF LedgerHistory
<1>2. chain \in Seq(S) /\ block \in S /\ Len(chain) > 0
  <2>1. chain \in Seq(Members(chain)) /\ Len(chain) \in Nat \ {0}
    BY DEF LedgerHistory, LedgerInv, IsChain, ChainOK
  <2>2. \A R, T : R \subseteq T => Seq(R) \subseteq Seq(T)
    OBVIOUS
  <2>3. Members(chain) \subseteq S
    OBVIOUS
  <2> HIDE DEF S
  <2>4. chain \in Seq(S)
    BY <2>1, <2>2, <2>3
  <2> QED BY <2>1, <2>4 DEF S
<1> HIDE DEF S
<1>3. PICK d : d = chain'
  OBVIOUS
<1>4. PICK utxo : utxo = utxoset'
  OBVIOUS
<1>5. d = Append(chain, block) /\ utxo = Purged(d, WindTxs(utxoset, block.txs))
  BY <1>3, <1>4 DEF Wind
<1>6. Leads(d, utxo)
  BY <1>1, <1>2, <1>5, HistoryGrows
<1> QED BY <1>3, <1>4, <1>6

\* The block the node makes of a bundle fits.
LEMMA BundledFits ==
    ASSUME LedgerInv, Share(chain[Len(chain)].header) = 0,
           NEW bundle \in Bundles, CanBundle(bundle),
           NEW block, block = CreatedFrom(bundle)
    PROVE  Fits(block.txs, utxoset, Len(chain) + 1)
<1>1. ChainOK(chain) /\ utxoset \in SUBSET Slips
  BY DEF LedgerInv, IsChain
<1>2. bundle.txs \in Seq(Sound(utxoset))
  BY <1>1, BundleSound
<1>3. block = Created(chain, utxoset, bundle.txs, bundle.ticket, bundle.elapsed)
  BY DEF CreatedFrom
<1> QED BY <1>1, <1>2, <1>3, CreatedFits

\* Making, receiving and taking back a block keep the history.
LEMMA LedgerHistoryNext ==
    LedgerHistory /\ NoShare /\ [Next]_vars => unsound' \/ LedgerHistory'
<1> SUFFICES ASSUME LedgerHistory, NoShare, [Next]_vars, ~unsound' PROVE LedgerHistory'
  OBVIOUS
<1>1. LedgerInv /\ LedgerInv'
  BY LedgerInvNext DEF LedgerHistory
<1>2. Share(chain[Len(chain)].header) = 0
  BY <1>1 DEF NoShare, LedgerInv, IsChain, ChainOK
<1>3. ASSUME UNCHANGED <<chain, utxoset>> PROVE LedgerHistory'
  <2>1. Leads(chain, utxoset)
    BY DEF LedgerHistory
  <2>2. PICK d : d = chain'
    OBVIOUS
  <2>3. d = chain /\ utxoset' = utxoset
    BY <1>3, <2>2
  <2>4. Leads(d, utxoset')
    BY <2>1, <2>3
  <2> QED BY <1>1, <2>2, <2>4 DEF LedgerHistory
<1>4. CASE Produce
  <2>1. PICK bundle \in Bundles : CanBundle(bundle) /\ AddOwn(CreatedFrom(bundle))
    BY <1>4 DEF Produce
  <2>2. PICK block : block = CreatedFrom(bundle)
    OBVIOUS
  <2>3. CASE Validate(chain, utxoset, block)
    <3>1. Wind(block)
      BY <2>1, <2>2, <2>3 DEF AddOwn
    <3>2. block.txs \in Seq(TxSet)
      BY <1>1, <2>1, <2>2, BundledFacts DEF FeeLast
    <3>3. Fits(block.txs, utxoset, Len(chain) + 1)
      BY <1>1, <1>2, <2>1, <2>2, BundledFits
    <3>4. Leads(chain', utxoset')
      BY <2>3, <3>1, <3>2, <3>3, WindKeepsHistory
    <3> QED BY <1>1, <3>4 DEF LedgerHistory
  <2>4. CASE ~ Validate(chain, utxoset, block)
    BY <1>3, <2>1, <2>2, <2>4 DEF AddOwn
  <2> QED BY <2>3, <2>4
<1>5. CASE Receive
  <2>1. PICK bundle \in Bundles, f \in Misreports :
          /\ CanBundle(bundle)
          /\ Misstates(CreatedFrom(bundle), f)
          /\ AddReceived(Misreported(CreatedFrom(bundle), f))
    BY <1>5 DEF Receive
  <2>2. PICK honest : honest = CreatedFrom(bundle)
    OBVIOUS
  <2>3. PICK block : block = Misreported(honest, f)
    OBVIOUS
  <2>4. /\ FeeLast(honest.txs, chain, honest.ticket)
        /\ Followed \subseteq DOMAIN honest.header
        /\ honest.header.treasury \in Int
        /\ honest = [txs |-> honest.txs, ticket |-> honest.ticket,
                     elapsed |-> honest.elapsed, header |-> honest.header]
    BY <1>1, <2>1, <2>2, BundledFacts
  <2>5. CASE Validate(chain, utxoset, block)
    <3>1. Wind(block)
      BY <2>1, <2>2, <2>3, <2>5 DEF AddReceived
    <3>2. ChainOK(chain)
      BY <1>1 DEF LedgerInv, IsChain
    <3>3. FeeLast(block.txs, chain, block.ticket)
      BY <2>1, <2>2, <2>3, <2>4, <2>5, <3>2, MisreportedFacts
    <3>4. block.txs \in Seq(TxSet) /\ honest.txs \in Seq(TxSet)
      BY <2>4, <3>3 DEF FeeLast
    <3>5. Fits(honest.txs, utxoset, Len(chain) + 1)
      BY <1>1, <1>2, <2>1, <2>2, BundledFits
    <3>6. Fits(block.txs, utxoset, Len(chain) + 1)
      BY <2>1, <2>2, <2>3, <2>4, <3>4, <3>5, MisreportedFits
    <3>7. Leads(chain', utxoset')
      BY <2>5, <3>1, <3>4, <3>6, WindKeepsHistory
    <3> QED BY <1>1, <3>7 DEF LedgerHistory
  <2>6. CASE ~ Validate(chain, utxoset, block)
    BY <1>3, <2>1, <2>2, <2>3, <2>6 DEF AddReceived
  <2> QED BY <2>5, <2>6
<1>6. CASE Unwind
  <2>1. /\ Len(chain) > 1 /\ Len(chain) <= 2 * GenesisPeriod
        /\ chain' = SubSeq(chain, 1, Len(chain) - 1)
        /\ utxoset' = UnwindTxs(utxoset, chain[Len(chain)].txs)
    BY <1>6 DEF Unwind
  <2>2. Leads(chain, utxoset)
    BY DEF LedgerHistory
  <2>3. PICK d : d = chain'
    OBVIOUS
  <2>4. chain \in Seq(Members(chain)) /\ d = SubSeq(chain, 1, Len(chain) - 1)
    BY <1>1, <2>1, <2>3 DEF LedgerInv, IsChain
  <2>5. Leads(d, UnwindTxs(utxoset, chain[Len(chain)].txs))
    BY <2>1, <2>2, <2>4, HistoryShrinks
  <2>6. Leads(chain', utxoset')
    BY <2>1, <2>3, <2>5
  <2> QED BY <1>1, <2>6 DEF LedgerHistory
<1>7. CASE UNCHANGED vars
  BY <1>3, <1>7 DEF vars
<1>8. CASE ReceiveUnpaid \/ ReceiveRespent
  BY <1>3, <1>8, UnsoundJoins
<1> QED BY <1>4, <1>5, <1>6, <1>7, <1>8 DEF Next

\* Such a chain can be unwound and wound again.
LEMMA LedgerHistoryAgain == LedgerHistory => TipValidAgain
<1> SUFFICES ASSUME LedgerHistory, ~unsound, Len(chain) \in 2 .. 2 * GenesisPeriod
             PROVE  /\ Validate(SubSeq(chain, 1, Len(chain) - 1),
                                UnwindTxs(utxoset, chain[Len(chain)].txs), chain[Len(chain)])
                    /\ WindTxs(UnwindTxs(utxoset, chain[Len(chain)].txs),
                               chain[Len(chain)].txs) = utxoset
  BY Zenon DEF TipValidAgain
<1>1. PICK u : History(chain, u) /\ u[Len(chain)] = utxoset
  BY DEF LedgerHistory, Leads
<1>2. PICK n : n = Len(chain)
  OBVIOUS
<1>3. n \in 2 .. n /\ n <= 2 * GenesisPeriod
  <2>1. n \in Nat /\ 2 <= n /\ n <= 2 * GenesisPeriod
    BY <1>2, LedgerAssumption
  <2> QED BY <2>1
<1>4. /\ Validate(SubSeq(chain, 1, n - 1), u[n - 1], chain[n])
      /\ WindTxs(u[n - 1], chain[n].txs) = u[n]
      /\ UnwindTxs(u[n], chain[n].txs) = u[n - 1]
  BY <1>1, <1>2, <1>3 DEF History
<1> QED BY <1>1, <1>2, <1>4

\* As long as the treasury adds nothing to what is rebroadcast, taking the last
\* block back and winding it again succeeds, whatever the issuance, the payments
\* and the tickets, and whatever a received block misreports, as long as no unsound
\* block joins.
THEOREM TipAgain == Spec /\ []NoShare => []TipValidAgain
<1>1. Init => unsound \/ LedgerHistory
  BY LedgerHistoryInit
<1>2. (unsound \/ LedgerHistory) /\ NoShare /\ [Next]_vars => (unsound \/ LedgerHistory)'
  BY LedgerHistoryNext, UnsoundStays
<1>3. unsound \/ LedgerHistory => TipValidAgain
  BY LedgerHistoryAgain, Zenon DEF TipValidAgain
<1> QED BY <1>1, <1>2, <1>3, PTL DEF Spec
=============================================================================
