--------------------------- MODULE MempoolProofs ---------------------------
(***************************************************************************)
(* Proofs about Mempool for every finite set of transactions, every set of *)
(* keys, every amount and every routing work: what the mempool holds can   *)
(* be spent, and the chain of a running node spends no key twice.          *)
(***************************************************************************)
EXTENDS Mempool, Induction

-----------------------------------------------------------------------------
(* The two folds of the model.                                             *)

\* The routing work of transactions is a number.
LEMMA TotalWorkType ==
    ASSUME NEW S \in SUBSET Txs
    PROVE  TotalWork(S) \in Nat
<1>1. TotalWork(S) = SumFold(Work, S)[S]
  BY DEF TotalWork, MapThenSumSet, MapThenFoldSet, SumFold
<1>2. IsFiniteSet(S) /\ \A t \in S : Work[t] \in Nat
  BY MempoolAssumption, FS_Subset
<1> QED BY <1>1, <1>2, SumFoldType

\* The mempools whose transactions can be spent on chain c.
Pools(c) == [txs : SUBSET {t \in Txs : Validates(t, c)}, map : SUBSET Keys,
             work : Nat, fresh : BOOLEAN]

\* A transaction that waits enters the mempool only if it can be spent.
LEMMA AddedInPools ==
    ASSUME NEW m \in Pools(chain), NEW t \in Txs
    PROVE  AddTransactionIfValidates(m, t) \in Pools(chain)
<1>1. Ins[t] \subseteq Keys /\ Work[t] \in Nat
  BY MempoolAssumption
<1>2. m.txs \subseteq {u \in Txs : Validates(u, chain)} /\ m.map \subseteq Keys /\ m.work \in Nat
  BY DEF Pools
<1>3. CASE Validates(t, chain) /\ Ins[t] \cap m.map = {} /\ t \notin m.txs
  <2>1. m.txs \cup {t} \subseteq {u \in Txs : Validates(u, chain)}
    BY <1>2, <1>3
  <2>2. m.map \cup Ins[t] \subseteq Keys /\ m.work + Work[t] \in Nat
    BY <1>1, <1>2
  <2>3. AddTransactionIfValidates(m, t) =
           [txs |-> m.txs \cup {t}, map |-> m.map \cup Ins[t],
            work |-> m.work + Work[t], fresh |-> TRUE]
    BY <1>3 DEF AddTransactionIfValidates, AddTransaction
  <2> QED BY <2>1, <2>2, <2>3 DEF Pools
<1>4. CASE ~(Validates(t, chain) /\ Ins[t] \cap m.map = {} /\ t \notin m.txs)
  BY <1>4 DEF AddTransactionIfValidates, AddTransaction
<1> QED BY <1>3, <1>4

\* So every transaction in the mempool can be spent once the loop of bundle_block
\* has run over those that wait.
LEMMA FilledInPools ==
    ASSUME Pool \in Pools(chain), pending \in Seq(Txs)
    PROVE  Filled \in Pools(chain)
<1> DEFINE n == Len(pending)
           D == 1 .. n
           P == Pools(chain)
           pick == [s \in SUBSET D |-> Max(s)]
           step == [e \in P \X (D) |->
                      AddTransactionIfValidates(e[1], pending[e[2]])]
           fill == CHOOSE g : g = [s \in SUBSET D |->
                     IF s = {} THEN Pool
                     ELSE AddTransactionIfValidates(g[s \ {Max(s)}], pending[Max(s)])]
<1>1. n \in Nat /\ DOMAIN pending = D /\ \A i \in D : pending[i] \in Txs
  OBVIOUS
<1>2. Filled = fill[D]
  BY <1>1, Zenon DEF Filled, FoldLeft, MapThenFoldSet
<1>3. IsFiniteSet(D) /\ IsPick(pick, D)
  BY <1>1, LargestIsPick
<1>4. step \in [P \X (D) -> P]
  <2>1. \A m \in P, t \in Txs : AddTransactionIfValidates(m, t) \in P
    BY AddedInPools
  <2> QED BY <1>1, <2>1
<1>5. PICK g \in [SUBSET D -> P] : Folds(g, D, pick, Pool, step)
  <2>1. Pool \in P
    OBVIOUS
  <2> HIDE DEF pick, step, fill, D, P
  <2> QED BY <1>3, <1>4, <2>1, FoldExists
<1>6. ASSUME NEW s \in SUBSET D
      PROVE  g[s] = IF s = {} THEN Pool
                    ELSE AddTransactionIfValidates(g[s \ {Max(s)}], pending[Max(s)])
  <2>1. CASE s # {}
    <3>1. pick[s] = Max(s) /\ Max(s) \in D
      BY <1>1, <2>1, MaxExists
    <3>2. g[s \ {Max(s)}] \in P
      OBVIOUS
    <3>3. step[<<g[s \ {Max(s)}], Max(s)>>] =
             AddTransactionIfValidates(g[s \ {Max(s)}], pending[Max(s)])
      BY <3>1, <3>2
    <3> HIDE DEF step, pick
    <3> QED BY <1>5, <2>1, <3>1, <3>3 DEF Folds
  <2> QED BY <1>5, <2>1 DEF Folds
<1>7. g = [s \in SUBSET D |-> IF s = {} THEN Pool
             ELSE AddTransactionIfValidates(g[s \ {Max(s)}], pending[Max(s)])]
  BY <1>6
<1>8. fill = [s \in SUBSET D |-> IF s = {} THEN Pool
                ELSE AddTransactionIfValidates(fill[s \ {Max(s)}], pending[Max(s)])]
  BY <1>7
<1> HIDE DEF fill
<1> DEFINE T == {s \in SUBSET D : fill[s] \in P}
<1>9. {} \in T
  BY <1>8
<1>10. ASSUME NEW s \in SUBSET D, s # {}, s \ {pick[s]} \in T PROVE s \in T
  <2>1. pick[s] = Max(s) /\ Max(s) \in D
    BY <1>1, <1>10, MaxExists
  <2>2. fill[s \ {Max(s)}] \in P
    BY <1>10, <2>1
  <2>3. fill[s] = AddTransactionIfValidates(fill[s \ {Max(s)}], pending[Max(s)])
    BY <1>8, <1>10
  <2>4. fill[s] \in P
    BY <1>1, <2>1, <2>2, <2>3, AddedInPools
  <2> QED BY <2>4
<1>11. D \in T
  <2> HIDE DEF T, pick, D, P, step
  <2> QED BY <1>3, <1>9, <1>10, PickInduction
<1> QED BY <1>2, <1>11

-----------------------------------------------------------------------------
(* What a chain spends.                                                    *)

\* No two transactions of c spend the same key.
OnceSpent(c) ==
    \A i, j \in DOMAIN c : \A t \in c[i].txs, u \in c[j].txs :
        <<i, t>> # <<j, u>> => Ins[t] \cap Ins[u] = {}

\* A key that c spends is spent by a transaction of one of its blocks.
LEMMA SpentInMember ==
    ASSUME NEW c, NEW i \in DOMAIN c, NEW t \in c[i].txs, NEW k \in Ins[t]
    PROVE  k \in SpentIn(c)
BY DEF SpentIn, SpentBy

\* A transaction that validates spends nothing the chain has spent.
LEMMA ValidatesFresh ==
    ASSUME NEW c, NEW t, Validates(t, c)
    PROVE  Ins[t] \cap SpentIn(c) = {}
BY DEF Validates, Spendable

\* A block after c whose transactions agree with each other and with c.
LEMMA OnceSpentAppend ==
    ASSUME NEW c \in Seq(Block), OnceSpent(c), NEW b \in Block, ~Conflicting(b.txs),
           SpentBy(b.txs) \cap SpentIn(c) = {}
    PROVE  OnceSpent(Append(c, b))
<1> DEFINE n == Len(c) + 1
           d == Append(c, b)
<1>1. n \in Nat /\ DOMAIN d = 1 .. n /\ d[n] = b
  OBVIOUS
<1>2. ASSUME NEW i \in 1 .. n, i # n PROVE i \in DOMAIN c /\ d[i] = c[i]
  BY <1>2
<1>3. ASSUME NEW i \in DOMAIN c, NEW t \in c[i].txs, NEW u \in b.txs
      PROVE  Ins[t] \cap Ins[u] = {}
  BY SpentInMember DEF SpentBy
<1> HIDE DEF d, n
<1>4. SUFFICES ASSUME NEW i \in 1 .. n, NEW j \in 1 .. n,
                      NEW t \in d[i].txs, NEW u \in d[j].txs, <<i, t>> # <<j, u>>
               PROVE  Ins[t] \cap Ins[u] = {}
  BY <1>1 DEF OnceSpent, d
<1>5. CASE i = n /\ j = n
  BY <1>1, <1>4, <1>5 DEF Conflicting
<1>6. CASE i # n /\ j = n
  BY <1>1, <1>2, <1>3, <1>6
<1>7. CASE i = n /\ j # n
  BY <1>1, <1>2, <1>3, <1>7
<1>8. CASE i # n /\ j # n
  BY <1>2, <1>4, <1>8 DEF OnceSpent
<1> QED BY <1>5, <1>6, <1>7, <1>8

\* The chain below the tip.
LEMMA OnceSpentFront ==
    ASSUME NEW c \in Seq(Block), c # << >>, OnceSpent(c)
    PROVE  Front(c) \in Seq(Block) /\ OnceSpent(Front(c))
<1>1. Len(c) \in Nat /\ Len(c) > 0 /\ Len(c) - 1 \in Nat
  OBVIOUS
<1>2. Front(c) \in Seq(Block) /\ DOMAIN Front(c) = 1 .. Len(c) - 1
  BY <1>1 DEF Front
<1>3. \A i \in 1 .. Len(c) - 1 : i \in DOMAIN c /\ Front(c)[i] = c[i]
  BY <1>1 DEF Front
<1> QED BY <1>2, <1>3 DEF OnceSpent

-----------------------------------------------------------------------------
(* What the supply says of a block.                                        *)

KeySum == SumFold(Amount, Keys)

\* Worth is the sum of the amounts.
LEMMA WorthFacts ==
    /\ IsFiniteSet(Keys) /\ \A k \in Keys : Amount[k] \in Nat /\ Amount[k] > 0
    /\ IsSum(KeySum, Amount, Keys)
    /\ \A K \in SUBSET Keys : Worth(K) = KeySum[K] /\ Worth(K) \in Nat
<1>1. IsFiniteSet(Keys) /\ \A k \in Keys : Amount[k] \in Nat /\ Amount[k] > 0
  BY MempoolAssumption
<1>2. IsSum(KeySum, Amount, Keys)
  BY <1>1, SumFoldType DEF KeySum
<1>3. ASSUME NEW K \in SUBSET Keys PROVE Worth(K) = KeySum[K] /\ KeySum[K] \in Nat
  <2>1. Worth(K) = SumFold(Amount, K)[K]
    BY DEF Worth, MapThenSumSet, MapThenFoldSet, SumFold
  <2>2. SumFold(Amount, K)[K] = KeySum[K]
    BY <1>1, SumFoldWithin DEF KeySum
  <2>3. KeySum \in [SUBSET Keys -> Nat]
    BY <1>1, <1>2, SumType
  <2> QED BY <2>1, <2>2, <2>3
<1> QED BY <1>1, <1>2, <1>3

\* Keys together are worth no more than one after the other, and no less than some
\* of them.
LEMMA WorthUnion ==
    ASSUME NEW A \in SUBSET Keys, NEW B \in SUBSET Keys
    PROVE  /\ Worth(A) \in Nat /\ Worth(B) \in Nat /\ Worth(A \cup B) \in Nat
           /\ Worth(A) <= Worth(A \cup B) /\ Worth(A \cup B) <= Worth(A) + Worth(B)
<1>1. A \cup B \in SUBSET Keys
  OBVIOUS
<1>2. /\ KeySum[A] <= KeySum[A \cup B]
      /\ KeySum[A \cup B] <= KeySum[A] + KeySum[B]
  BY WorthFacts, SumUnion
<1> QED BY <1>1, <1>2, WorthFacts

\* One more key is worth more.
LEMMA WorthMore ==
    ASSUME NEW A \in SUBSET Keys, NEW k \in Keys \ A
    PROVE  Worth(A) < Worth(A \cup {k})
<1> DEFINE B == A \cup {k}
<1>1. B \in SUBSET Keys /\ k \in B /\ B \ {k} = A
  OBVIOUS
<1> HIDE DEF B
<1>2. TakesAny(KeySum, Amount, Keys)
  BY WorthFacts, SumTakeAny
<1>3. KeySum[B] = Amount[k] + KeySum[A]
  BY <1>1, <1>2 DEF TakesAny
<1>4. Worth(B) = Amount[k] + Worth(A) /\ Worth(A) \in Nat
  BY <1>1, <1>3, WorthFacts
<1>5. Amount[k] \in Nat /\ Amount[k] > 0
  BY WorthFacts
<1>6. Worth(A) < Worth(B)
  BY <1>4, <1>5
<1> QED BY <1>6 DEF B

\* The transactions of a block claim to spend at least what their keys are worth.
LEMMA ClaimsCover ==
    ASSUME NEW S \in SUBSET Txs
    PROVE  Claimed(S) \in Nat /\ Worth(SpentBy(S)) <= Claimed(S)
<1> DEFINE sum == SumFold(Spends, S)
           pick == [s \in SUBSET S |-> CHOOSE t \in s : TRUE]
           T == {s \in SUBSET S : Worth(SpentBy(s)) <= sum[s]}
<1>1. Claimed(S) = sum[S]
  BY DEF Claimed, MapThenSumSet, MapThenFoldSet, SumFold
<1>2. IsFiniteSet(S) /\ \A t \in S : Ins[t] \in SUBSET Keys
  BY MempoolAssumption, FS_Subset
<1>3. \A t \in S : Spends[t] = Worth(Ins[t]) /\ Spends[t] \in Nat
  BY <1>2, WorthFacts DEF Spends
<1>4. IsSum(sum, Spends, S)
  BY <1>2, <1>3, SumFoldType
<1> HIDE DEF sum
<1>5. sum \in [SUBSET S -> Nat] /\ sum[{}] = 0 /\ TakesAny(sum, Spends, S)
  BY <1>2, <1>3, <1>4, SumType, SumTakeAny
<1>6. IsPick(pick, S)
  BY AnyIsPick
<1> HIDE DEF pick
<1>7. {} \in T
  <2>1. SpentBy({}) = {} /\ {} \in SUBSET Keys
    BY DEF SpentBy
  <2>2. Worth({}) = KeySum[{}] /\ KeySum[{}] = 0
    BY <2>1, WorthFacts, SumType
  <2>3. Worth(SpentBy({})) = sum[{}] /\ sum[{}] = 0
    BY <1>5, <2>1, <2>2
  <2>4. Worth(SpentBy({})) <= sum[{}]
    BY <2>3
  <2> QED BY <2>4
<1>8. ASSUME NEW s \in SUBSET S, s # {}, s \ {pick[s]} \in T PROVE s \in T
  <2> DEFINE p == pick[s]
             r == s \ {p}
  <2>1. p \in s /\ r \in SUBSET S
    BY <1>6, <1>8 DEF IsPick
  <2>2. sum[s] = Worth(Ins[p]) + sum[r] /\ sum[r] \in Nat
    BY <1>3, <1>5, <2>1 DEF TakesAny
  <2>3. SpentBy(s) = SpentBy(r) \cup Ins[p]
    BY <2>1 DEF SpentBy
  <2>4. SpentBy(r) \in SUBSET Keys /\ Ins[p] \in SUBSET Keys
    BY <1>2, <2>1 DEF SpentBy
  <2>5. /\ Worth(SpentBy(s)) <= Worth(SpentBy(r)) + Worth(Ins[p])
        /\ Worth(SpentBy(s)) \in Nat /\ Worth(SpentBy(r)) \in Nat /\ Worth(Ins[p]) \in Nat
    BY <2>3, <2>4, WorthUnion
  <2>6. Worth(SpentBy(r)) <= sum[r]
    BY <1>8
  <2> HIDE DEF r, p
  <2>7. Worth(SpentBy(s)) <= sum[s]
    BY <2>2, <2>5, <2>6
  <2> QED BY <2>7
<1>9. S \in T
  <2> HIDE DEF T
  <2> QED BY <1>2, <1>6, <1>7, <1>8, PickInduction
<1> QED BY <1>1, <1>5, <1>9

\* A block never lowers the supply, and a block with a transaction that does not
\* validate raises it: what it spends is not all in the utxoset.
LEMMA SupplyTells ==
    ASSUME NEW c, NEW S \in SUBSET Txs
    PROVE  /\ SupplyChange(S, c) \in Nat
           /\ SupplyChange(S, c) = 0 => \A t \in S : Validates(t, c)
<1> DEFINE spent == SpentBy(S)
           there == spent \cap Spendable(c)
           again == Rebroadcast(c)
<1>1. spent \in SUBSET Keys /\ there \in SUBSET Keys /\ again \in SUBSET Keys
  BY MempoolAssumption DEF SpentBy, Rebroadcast, Spendable
<1>2. there \subseteq spent /\ there \cup spent = spent
  OBVIOUS
<1>3. /\ SupplyChange(S, c) = Put(S, c) - Taken(S, c)
      /\ Put(S, c) = Claimed(S) + Worth(again)
      /\ Taken(S, c) = Worth(there \cup again)
  <2>1. SupplyChange(S, c) = Put(S, c) - Taken(S, c)
    BY DEF SupplyChange
  <2>2. Put(S, c) = Claimed(S) + Worth(again)
    BY DEF Put
  <2>3. Taken(S, c) = Worth(there \cup again)
    BY DEF Taken
  <2> QED BY <2>1, <2>2, <2>3
<1>4. Claimed(S) \in Nat /\ Worth(spent) <= Claimed(S)
  BY ClaimsCover
<1>5. ASSUME NEW t \in S, ~Validates(t, c) PROVE \E k \in spent : k \notin there
  <2>1. PICK k \in Ins[t] : k \notin Spendable(c)
    BY <1>5 DEF Validates
  <2>2. k \in spent
    BY <2>1 DEF SpentBy
  <2> QED BY <2>1, <2>2
<1> HIDE DEF spent, there, again
<1>6. Worth(there \cup again) <= Worth(there) + Worth(again) /\ Worth(there \cup again) \in Nat
      /\ Worth(there) \in Nat /\ Worth(again) \in Nat
  BY <1>1, WorthUnion
<1>7. Worth(there) <= Worth(spent) /\ Worth(spent) \in Nat
  BY <1>1, <1>2, WorthUnion
<1>8. SupplyChange(S, c) \in Nat
  BY <1>3, <1>4, <1>6, <1>7
<1>9. ASSUME NEW k \in spent, k \notin there PROVE SupplyChange(S, c) > 0
  <2>1. there \cup {k} \in SUBSET Keys /\ (there \cup {k}) \cup spent = spent
        /\ k \in Keys \ there
    BY <1>1, <1>2, <1>9
  <2>2. Worth(there) < Worth(there \cup {k})
    BY <1>1, <2>1, WorthMore
  <2>3. Worth(there \cup {k}) <= Worth(spent) /\ Worth(there \cup {k}) \in Nat
    BY <1>1, <2>1, WorthUnion
  <2> QED BY <1>3, <1>4, <1>6, <1>7, <2>2, <2>3
<1> QED BY <1>5, <1>8, <1>9

\* A block that passes and leaves the supply neither conflicts nor spends what c
\* has spent.
LEMMA KeptFresh ==
    ASSUME NEW c, NEW S \in SUBSET Txs, Passes(S, c), SupplyChange(S, c) = 0
    PROVE  ~Conflicting(S) /\ SpentBy(S) \cap SpentIn(c) = {}
<1>1. \A t \in S : Validates(t, c)
  BY SupplyTells
<1>2. {t \in S : Validates(t, c)} = S
  BY <1>1
<1> QED BY <1>1, <1>2, ValidatesFresh DEF Passes, SpentBy

-----------------------------------------------------------------------------
(* Steps.                                                                  *)

\* The mempool without what the chain no longer lets it spend.
LEMMA RemovedInPools ==
    ASSUME NEW m \in [txs : SUBSET Txs, map : SUBSET Keys, work : Nat, fresh : BOOLEAN],
           NEW c, NEW S
    PROVE  RemoveBlockTransactions(m, c, S) \in Pools(c)
<1> DEFINE left == {t \in m.txs : Validates(t, c)} \ S
<1>1. left \in SUBSET {t \in Txs : Validates(t, c)} /\ left \in SUBSET Txs
  OBVIOUS
<1>2. TotalWork(left) \in Nat
  BY <1>1, TotalWorkType
<1>3. RemoveBlockTransactions(m, c, S) =
         [txs |-> left, map |-> m.map, work |-> TotalWork(left), fresh |-> m.fresh]
  <2>1. RemoveBlockTransactions(m, c, S) =
           [m EXCEPT !.txs = left, !.work = TotalWork(left)]
    BY DEF RemoveBlockTransactions
  <2> HIDE DEF left
  <2> QED BY <2>1
<1> HIDE DEF left
<1> QED BY <1>1, <1>2, <1>3 DEF Pools

-----------------------------------------------------------------------------
(* The inductive invariant: what the mempool holds and the chain spends,   *)
(* and that a block next to the tip has a tip next to it.                  *)

SideHasTip == side # NoSide => chain # << >>

MempoolInv == TypeOK /\ MempoolSpendable /\ NoKeySpentTwice /\ SideHasTip

\* The mempool of a state of the invariant.
LEMMA PoolInPools ==
    ASSUME TypeOK, MempoolSpendable, ~halted
    PROVE  /\ Pool \in Pools(chain)
           /\ Filled \in Pools(chain)
           /\ TipId \in Targets
<1>1. Pool \in Pools(chain)
  BY DEF TypeOK, MempoolSpendable, Pool, Pools
<1>2. Filled \in Pools(chain)
  BY <1>1, FilledInPools DEF TypeOK
<1>3. TipId \in Targets
  <2>1. CASE chain = << >>
    BY <2>1, MempoolAssumption DEF TipId, Targets
  <2>2. CASE chain # << >>
    <3>1. Len(chain) \in DOMAIN chain /\ chain[Len(chain)] \in Block
      BY <2>2 DEF TypeOK
    <3> QED BY <2>2, <3>1 DEF TipId, Block
  <2> QED BY <2>1, <2>2
<1> QED BY <1>1, <1>2, <1>3

\* What a step that replaces the mempool by m has to show of it.
LEMMA PoolKept ==
    ASSUME NEW m, PoolBecomes(m), m \in Pools(chain')
    PROVE  /\ transactions' \subseteq Txs /\ utxoMap' \subseteq Keys
           /\ routingWork' \in Nat /\ newTxAdded' \in BOOLEAN
           /\ MempoolSpendable'
BY DEF PoolBecomes, Pools, MempoolSpendable

LEMMA MempoolInit == Init => MempoolInv
<1> SUFFICES ASSUME Init PROVE MempoolInv
  OBVIOUS
<1>1. NoSide \in Block /\ made \in Targets
  BY MempoolAssumption DEF Init, NoSide, Block, Targets
<1>2. TypeOK
  BY <1>1 DEF Init, TypeOK
<1> QED BY <1>2 DEF Init, MempoolInv, MempoolSpendable, NoKeySpentTwice, SideHasTip

\* The timer: what waits is tried, and a block is made of what the mempool holds.
LEMMA TimerKeeps ==
    ASSUME MempoolInv, TimerFires
    PROVE  MempoolInv'
<1>0. ~halted
  BY DEF TimerFires, BundleNothing, BundleFails, BundleBlock, BundleRefused
<1>1. /\ Pool \in Pools(chain) /\ Filled \in Pools(chain) /\ TipId \in Targets
      /\ Filled \in [txs : SUBSET Txs, map : SUBSET Keys, work : Nat, fresh : BOOLEAN]
  <2>1. Pool \in Pools(chain) /\ Filled \in Pools(chain) /\ TipId \in Targets
    BY <1>0, PoolInPools DEF MempoolInv
  <2> QED BY <2>1 DEF Pools
<1>2. PICK needed \in WorkNeeded, enoughTickets \in BOOLEAN, stakeFound \in BOOLEAN :
         \/ BundleNothing(needed, enoughTickets, stakeFound)
         \/ BundleFails(needed, enoughTickets)
         \/ BundleBlock(needed, enoughTickets)
         \/ BundleRefused(needed, enoughTickets)
  BY DEF TimerFires
<1>3. << >> \in Seq(Txs)
  OBVIOUS
<1>4. ASSUME UNCHANGED chainVars, tickets' \in [Targets -> {"none", "good", "bad"}],
             relayed' \subseteq Targets, verified' = verified, pending' = << >>,
             NEW m \in Pools(chain), PoolBecomes(m)
      PROVE  MempoolInv'
  <2>1. m \in Pools(chain')
    BY <1>4 DEF chainVars
  <2>2. /\ transactions' \subseteq Txs /\ utxoMap' \subseteq Keys
        /\ routingWork' \in Nat /\ newTxAdded' \in BOOLEAN
        /\ MempoolSpendable'
    BY <1>4, <2>1, PoolKept
  <2>3. TypeOK'
    BY <1>3, <1>4, <2>2 DEF MempoolInv, TypeOK, chainVars
  <2>4. NoKeySpentTwice' /\ SideHasTip'
    BY <1>4 DEF MempoolInv, NoKeySpentTwice, SideHasTip, chainVars
  <2> QED BY <2>2, <2>3, <2>4 DEF MempoolInv
<1>5. CASE BundleNothing(needed, enoughTickets, stakeFound)
  BY <1>1, <1>4, <1>5 DEF BundleNothing, NoBlockProduced, MempoolInv, TypeOK
<1>6. CASE BundleFails(needed, enoughTickets)
  <2>1. [Filled EXCEPT !.txs = {}] \in Pools(chain)
    BY <1>1 DEF Pools
  <2> QED BY <1>1, <1>4, <1>6, <2>1 DEF BundleFails, NoBlockProduced, MempoolInv, TypeOK
<1>7. CASE BundleRefused(needed, enoughTickets)
  <2>1. AddedBack(Drained(Filled), Filled.txs) \in Pools(chain)
    <3>1. Drained(Filled) \in [txs : SUBSET {}, map : SUBSET Keys, work : Nat, fresh : BOOLEAN]
      BY <1>1 DEF Drained
    <3> DEFINE d == Drained(Filled)
               back == {t \in Filled.txs : Validates(t, chain)}
    <3> HIDE DEF d
    <3>2. AddedBack(d, Filled.txs) = [d EXCEPT !.txs = @ \cup back, !.fresh = TRUE]
      BY DEF AddedBack
    <3>3. back \subseteq {t \in Txs : Validates(t, chain)}
      BY <1>1
    <3> HIDE DEF back
    <3>4. [d EXCEPT !.txs = @ \cup back, !.fresh = TRUE] \in Pools(chain)
      BY <3>1, <3>3 DEF d, Pools
    <3> QED BY <3>2, <3>4 DEF d
  <2> QED BY <1>1, <1>4, <1>7, <2>1 DEF BundleRefused, MempoolInv, TypeOK, chainVars
<1>8. CASE BundleBlock(needed, enoughTickets)
  <2> DEFINE b == [id |-> made + 1, txs |-> Filled.txs]
  <2>1. /\ made' = made + 1 /\ made < MaxBlocks /\ chain' = Append(chain, b)
        /\ side' = NoSide /\ ~DoubleSpendDetected(Filled.txs)
        /\ PoolBecomes(RemoveBlockTransactions(Drained(Filled), chain', Filled.txs))
        /\ tickets' = [tickets EXCEPT ![TipId] = "none"]
        /\ relayed' = relayed \ {TipId}
        /\ pending' = << >> /\ UNCHANGED <<verified, queued, halted>>
    BY <1>8 DEF BundleBlock
  <2>2. made + 1 \in Targets /\ b \in Block /\ b.txs = Filled.txs /\ NoSide \in Block
    <3>1. made \in Targets /\ MaxBlocks \in Nat
      BY MempoolAssumption DEF MempoolInv, TypeOK
    <3>2. made + 1 \in Targets /\ 0 \in Targets
      BY <2>1, <3>1 DEF Targets
    <3> QED BY <1>1, <3>2 DEF Block, NoSide
  <2> HIDE DEF b
  <2>3. /\ transactions' \subseteq Txs /\ utxoMap' \subseteq Keys
        /\ routingWork' \in Nat /\ newTxAdded' \in BOOLEAN
        /\ MempoolSpendable'
    <3> DEFINE d == Drained(Filled)
    <3>1. d \in [txs : SUBSET Txs, map : SUBSET Keys, work : Nat, fresh : BOOLEAN]
      BY <1>1 DEF Drained
    <3> HIDE DEF d
    <3>2. RemoveBlockTransactions(d, chain', Filled.txs) \in Pools(chain')
      BY <3>1, RemovedInPools
    <3> QED BY <2>1, <3>2, PoolKept DEF d
  <2>4. TypeOK'
    <3>1. tickets' \in [Targets -> {"none", "good", "bad"}] /\ relayed' \subseteq Targets
      BY <1>1, <2>1 DEF MempoolInv, TypeOK
    <3>2. chain' \in Seq(Block)
      BY <2>1, <2>2 DEF MempoolInv, TypeOK
    <3> QED BY <1>3, <2>1, <2>2, <2>3, <3>1, <3>2 DEF MempoolInv, TypeOK
  <2>5. NoKeySpentTwice'
    <3>1. ~Conflicting(b.txs)
      BY <2>1, <2>2 DEF DoubleSpendDetected
    <3>2. SpentBy(b.txs) \cap SpentIn(chain) = {}
      <4>1. \A t \in b.txs : Validates(t, chain)
        BY <1>1, <2>2 DEF Pools
      <4> QED BY <4>1, ValidatesFresh DEF SpentBy
    <3>3. OnceSpent(chain) /\ chain \in Seq(Block)
      BY <1>0 DEF MempoolInv, NoKeySpentTwice, OnceSpent, TypeOK
    <3>4. OnceSpent(Append(chain, b))
      BY <2>2, <3>1, <3>2, <3>3, OnceSpentAppend
    <3> QED BY <2>1, <3>4 DEF NoKeySpentTwice, OnceSpent
  <2>6. SideHasTip'
    BY <2>1 DEF SideHasTip
  <2> QED BY <2>3, <2>4, <2>5, <2>6 DEF MempoolInv
<1> QED BY <1>2, <1>5, <1>6, <1>7, <1>8

\* A block of a peer: what is common to the three places it may go to.
LEMMA FetchedKeeps ==
    ASSUME MempoolInv, NEW S \in SUBSET Txs, NEW usesTicket \in BOOLEAN,
           Fetched(chain', S, TipId, usesTicket),
           chain' \in Seq(Block), side' \in Block
    PROVE  TypeOK' /\ MempoolSpendable'
<1>1. /\ Pool \in [txs : SUBSET Txs, map : SUBSET Keys, work : Nat, fresh : BOOLEAN]
      /\ TipId \in Targets
  <2>1. Pool \in Pools(chain) /\ TipId \in Targets
    BY PoolInPools DEF MempoolInv, Fetched
  <2> QED BY <2>1 DEF Pools
<1>2. RemoveBlockTransactions(Pool, chain', S) \in Pools(chain')
  BY <1>1, RemovedInPools
<1>3. /\ transactions' \subseteq Txs /\ utxoMap' \subseteq Keys
      /\ routingWork' \in Nat /\ newTxAdded' \in BOOLEAN
      /\ MempoolSpendable'
  BY <1>2, PoolKept DEF Fetched
<1>4. tickets' \in [Targets -> {"none", "good", "bad"}] /\ relayed' \subseteq Targets
  BY <1>1 DEF Fetched, MempoolInv, TypeOK
<1>5. queued' \in BOOLEAN
  BY DEF Fetched
<1>6. made' \in Targets
  <2>1. made \in Targets /\ MaxBlocks \in Nat /\ made < MaxBlocks /\ made' = made + 1
    BY MempoolAssumption DEF MempoolInv, TypeOK, Fetched
  <2> QED BY <2>1 DEF Targets
<1> QED BY <1>3, <1>4, <1>5, <1>6 DEF Fetched, MempoolInv, TypeOK

\* The block of a peer.
LEMMA MadeBlock ==
    ASSUME MempoolInv, made < MaxBlocks, NEW S \in SUBSET Txs
    PROVE  [id |-> made + 1, txs |-> S] \in Block /\ NoSide \in Block
<1>1. made \in Targets /\ MaxBlocks \in Nat
  BY MempoolAssumption DEF MempoolInv, TypeOK
<1>2. made + 1 \in Targets /\ 0 \in Targets
  BY <1>1 DEF Targets
<1> QED BY <1>2 DEF Block, NoSide

\* The chain with a block on top of c that keeps the supply spends every key once.
LEMMA GrownChain ==
    ASSUME NEW c \in Seq(Block), OnceSpent(c), NEW b \in Block,
           Passes(b.txs, c), SupplyChange(b.txs, c) = 0
    PROVE  OnceSpent(Append(c, b))
<1>1. b.txs \in SUBSET Txs
  BY DEF Block
<1> QED BY <1>1, KeptFresh, OnceSpentAppend

\* The chain with the block next to the tip instead of the tip.
LEMMA ForkFacts ==
    ASSUME MempoolInv, side # NoSide
    PROVE  /\ chain # << >> /\ side \in Block
           /\ Front(chain) \in Seq(Block) /\ Fork \in Seq(Block)
           /\ ~halted => OnceSpent(Front(chain))
<1>1. chain # << >> /\ side \in Block /\ chain \in Seq(Block)
  BY DEF MempoolInv, SideHasTip, TypeOK
<1>2. Front(chain) \in Seq(Block)
  BY <1>1 DEF Front
<1>3. ~halted => OnceSpent(Front(chain))
  BY <1>1, OnceSpentFront DEF MempoolInv, NoKeySpentTwice, OnceSpent
<1> QED BY <1>1, <1>2, <1>3 DEF Fork

\* The panic leaves a chain that nobody follows any more.
LEMMA PanicKeeps ==
    ASSUME MempoolInv, Panics, chain' \in Seq(Block), chain' # << >>
    PROVE  MempoolInv'
<1>1. made' \in Targets
  <2>1. made \in Targets /\ MaxBlocks \in Nat /\ made < MaxBlocks /\ made' = made + 1
    BY MempoolAssumption DEF MempoolInv, TypeOK, Panics
  <2> QED BY <2>1 DEF Targets
<1>2. TypeOK'
  BY <1>1 DEF MempoolInv, TypeOK, Panics, poolVars
<1> QED BY <1>2 DEF MempoolInv, MempoolSpendable, NoKeySpentTwice, SideHasTip, Panics

\* A block of a peer on top of the chain, next to the tip or on top of the block
\* next to the tip.
LEMMA BlockKeeps ==
    ASSUME MempoolInv, BlockFetched
    PROVE  MempoolInv'
<1>1. chain \in Seq(Block) /\ side \in Block /\ (~halted => OnceSpent(chain))
  BY DEF MempoolInv, NoKeySpentTwice, OnceSpent, TypeOK
<1>2. ASSUME NEW S \in SUBSET Txs, NEW usesTicket \in BOOLEAN,
             FetchedExtends(S, usesTicket)
      PROVE  MempoolInv'
  <2> DEFINE b == [id |-> made + 1, txs |-> S]
  <2>1. /\ Passes(S, chain) /\ SupplyChange(S, chain) = 0
        /\ chain' = Append(chain, b) /\ side' = NoSide
        /\ Fetched(chain', S, TipId, usesTicket) /\ made < MaxBlocks /\ ~halted
    BY <1>2 DEF FetchedExtends, Fetched
  <2>2. b \in Block /\ NoSide \in Block /\ b.txs = S
    BY <2>1, MadeBlock
  <2> HIDE DEF b
  <2>3. OnceSpent(Append(chain, b))
    BY <1>1, <2>1, <2>2, GrownChain
  <2>4. chain' \in Seq(Block) /\ side' \in Block
    BY <1>1, <2>1, <2>2
  <2>5. TypeOK' /\ MempoolSpendable'
    BY <2>1, <2>4, FetchedKeeps
  <2>6. NoKeySpentTwice'
    BY <2>1, <2>3 DEF NoKeySpentTwice, OnceSpent
  <2> QED BY <2>1, <2>5, <2>6 DEF MempoolInv, SideHasTip
<1>3. ASSUME NEW S \in SUBSET Txs, FetchedBeside(S)
      PROVE  MempoolInv'
  <2> DEFINE b == [id |-> made + 1, txs |-> S]
  <2>1. /\ chain' = chain /\ side' = b /\ chain # << >>
        /\ Fetched(chain', S, TipId, FALSE) /\ made < MaxBlocks
    BY <1>3 DEF FetchedBeside, Fetched
  <2>2. b \in Block
    BY <2>1, MadeBlock
  <2> HIDE DEF b
  <2>3. NoKeySpentTwice'
    BY <2>1 DEF MempoolInv, NoKeySpentTwice, Fetched
  <2>4. TypeOK' /\ MempoolSpendable'
    BY <1>1, <2>1, <2>2, FetchedKeeps
  <2> QED BY <2>1, <2>3, <2>4 DEF MempoolInv, SideHasTip
<1>4. ASSUME NEW S \in SUBSET Txs, FetchedReorganises(S)
      PROVE  MempoolInv'
  <2> DEFINE b == [id |-> made + 1, txs |-> S]
  <2>1. /\ side # NoSide /\ Passes(side.txs, Front(chain)) /\ Passes(S, Fork)
        /\ SupplyChange(side.txs, Front(chain)) + SupplyChange(S, Fork) = 0
        /\ chain' = Append(Fork, b) /\ side' = NoSide
        /\ Fetched(chain', S, TipId, FALSE) /\ made < MaxBlocks /\ ~halted
    BY <1>4 DEF FetchedReorganises, ForkPasses, ForkSupplyChange, Fetched
  <2>2. b \in Block /\ NoSide \in Block /\ b.txs = S
    BY <2>1, MadeBlock
  <2>3. /\ side \in Block /\ Front(chain) \in Seq(Block) /\ Fork \in Seq(Block)
        /\ OnceSpent(Front(chain))
    BY <2>1, ForkFacts
  <2> HIDE DEF b
  <2>4. SupplyChange(side.txs, Front(chain)) = 0 /\ SupplyChange(S, Fork) = 0
    <3>1. side.txs \in SUBSET Txs
      BY <2>3 DEF Block
    <3>2. /\ SupplyChange(side.txs, Front(chain)) \in Nat
          /\ SupplyChange(S, Fork) \in Nat
      BY <3>1, SupplyTells
    <3> QED BY <2>1, <3>2
  <2>5. OnceSpent(Fork)
    BY <2>1, <2>3, <2>4, GrownChain DEF Fork
  <2>6. OnceSpent(Append(Fork, b))
    BY <2>1, <2>2, <2>3, <2>4, <2>5, GrownChain
  <2>7. chain' \in Seq(Block) /\ side' \in Block
    BY <2>1, <2>2, <2>3
  <2>8. TypeOK' /\ MempoolSpendable'
    BY <2>1, <2>7, FetchedKeeps
  <2>9. NoKeySpentTwice'
    BY <2>1, <2>6 DEF NoKeySpentTwice, OnceSpent
  <2> QED BY <2>1, <2>8, <2>9 DEF MempoolInv, SideHasTip
<1>5. ASSUME NEW S \in SUBSET Txs, FetchedExtendsPanics(S) PROVE MempoolInv'
  <2> DEFINE b == [id |-> made + 1, txs |-> S]
  <2>1. chain' = Append(chain, b) /\ Panics /\ made < MaxBlocks
    BY <1>5 DEF FetchedExtendsPanics, Panics
  <2>2. b \in Block
    BY <2>1, MadeBlock
  <2> HIDE DEF b
  <2>3. chain' \in Seq(Block) /\ chain' # << >>
    BY <1>1, <2>1, <2>2
  <2> QED BY <2>1, <2>3, PanicKeeps
<1>6. ASSUME NEW S \in SUBSET Txs, FetchedReorganisesPanics(S) PROVE MempoolInv'
  <2> DEFINE b == [id |-> made + 1, txs |-> S]
  <2>1. chain' = Append(Fork, b) /\ Panics /\ made < MaxBlocks /\ side # NoSide
    BY <1>6 DEF FetchedReorganisesPanics, ForkPasses, Panics
  <2>2. b \in Block /\ Fork \in Seq(Block)
    BY <2>1, MadeBlock, ForkFacts
  <2> HIDE DEF b
  <2>3. chain' \in Seq(Block) /\ chain' # << >>
    BY <2>1, <2>2
  <2> QED BY <2>1, <2>3, PanicKeeps
<1>7. CASE FetchedOrphan
  BY <1>7 DEF FetchedOrphan, MempoolInv, TypeOK, MempoolSpendable, NoKeySpentTwice,
              SideHasTip, poolVars
<1> QED BY <1>2, <1>3, <1>4, <1>5, <1>6, <1>7 DEF BlockFetched

\* Every step keeps the invariant.
LEMMA MempoolStep == MempoolInv /\ [Next]_vars => MempoolInv'
<1> SUFFICES ASSUME MempoolInv, [Next]_vars PROVE MempoolInv'
  OBVIOUS
<1> USE DEF MempoolInv
<1>1. ASSUME NEW t \in Txs, VerifyTx(t) PROVE MempoolInv'
  BY <1>1 DEF VerifyTx, TypeOK, MempoolSpendable, NoKeySpentTwice, SideHasTip,
              poolVars, chainVars
<1>2. ASSUME NEW t \in Txs, NewTransaction(t) PROVE MempoolInv'
  <2>1. pending' \in Seq(Txs)
    BY <1>2 DEF NewTransaction, TypeOK
  <2> QED BY <1>2, <2>1 DEF NewTransaction, TypeOK, MempoolSpendable, NoKeySpentTwice,
              SideHasTip, poolVars, chainVars
<1>3. ASSUME NEW kind \in {"good", "bad"}, NewGoldenTicket(kind) PROVE MempoolInv'
  <2>1. TipId \in Targets
    BY <1>3, PoolInPools DEF NewGoldenTicket
  <2>2. tickets' \in [Targets -> {"none", "good", "bad"}]
    BY <1>3, <2>1 DEF NewGoldenTicket, TypeOK
  <2> QED BY <1>3, <2>2 DEF NewGoldenTicket, TypeOK, MempoolSpendable, NoKeySpentTwice,
              SideHasTip, poolVars, chainVars
<1>4. CASE UNCHANGED vars
  BY <1>4 DEF vars, TypeOK, MempoolSpendable, NoKeySpentTwice, SideHasTip,
              poolVars, chainVars
<1> QED BY <1>1, <1>2, <1>3, <1>4, TimerKeeps, BlockKeeps DEF Next

LEMMA MempoolInvariant == Spec => []MempoolInv
BY MempoolInit, MempoolStep, PTL DEF Spec

\* The mempool is what its struct says, and its routing work never negative.
THEOREM MempoolTyped == Spec => []TypeOK
<1>1. MempoolInv => TypeOK
  BY DEF MempoolInv
<1> QED BY <1>1, MempoolInvariant, PTL

\* However many transactions compete and whatever blocks arrive, everything in the
\* mempool of a running node can be spent: bundle_block drops what waited too long,
\* and remove_block_transactions what a block or a reorganisation has spent.
THEOREM PoolSpendable == Spec => []MempoolSpendable
<1>1. MempoolInv => MempoolSpendable
  BY DEF MempoolInv
<1> QED BY <1>1, MempoolInvariant, PTL

\* A running node follows no chain that spends a key twice, whatever the blocks of
\* its peers spend: what validate lets pass raises the supply, and the check of the
\* supply ends the process.
THEOREM NoDoubleSpend == Spec => []NoKeySpentTwice
<1>1. MempoolInv => NoKeySpentTwice
  BY DEF MempoolInv
<1> QED BY <1>1, MempoolInvariant, PTL
=============================================================================
