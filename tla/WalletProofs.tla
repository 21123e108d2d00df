---------------------------- MODULE WalletProofs ----------------------------
(***************************************************************************)
(* Proofs about Wallet for any amounts, periods and bounds: the balance is *)
(* what the unspent slips are worth, whatever the chain does, and as long  *)
(* as no block is unwound no slip is promised to two payments and every    *)
(* payment is made in time.                                                *)
(***************************************************************************)
EXTENDS Wallet, Induction

-----------------------------------------------------------------------------
(* What slips are worth.                                                   *)

Owners == {Me, Other} \cup {<<"uuid", id, ord, idx>> : id \in Nat, ord \in Nat, idx \in Nat}
SlipTypes == {"Normal", "Bound", "BlockStake", "ATR"}

Slips == [owner : Owners, id : Nat, ord : Nat, idx : Nat, amount : Int, type : SlipTypes]

\* The slip that the fold of Worth takes first.
First(slips) == CHOOSE s \in slips : TRUE

\* sum[t] is what the subset t of slips is worth, the way the fold computes it.
Sums(sum, slips) ==
    /\ sum \in [SUBSET slips -> Int]
    /\ \A t \in SUBSET slips :
          sum[t] = IF t = {} THEN 0 ELSE sum[t \ {First(t)}] + First(t).amount

\* What the fold of Worth computes.
LEMMA WorthSums ==
    ASSUME NEW slips \in SUBSET Slips, IsFiniteSet(slips)
    PROVE  \E sum : Sums(sum, slips) /\ Worth(slips) = sum[slips]
<1> DEFINE D == slips
           pick == [t \in SUBSET D |-> First(t)]
           step == [e \in Int \X D |-> e[1] + e[2].amount]
           fold == CHOOSE g : g = [t \in SUBSET D |->
                      IF t = {} THEN 0 ELSE g[t \ {First(t)}] + First(t).amount]
<1>1. Worth(slips) = fold[D]
  BY Zenon DEF Worth, FoldSet, MapThenFoldSet, First
<1>2. IsPick(pick, D)
  BY AnyIsPick DEF First
<1>3. step \in [Int \X D -> Int]
  BY DEF Slips
<1>4. PICK g \in [SUBSET D -> Int] : Folds(g, D, pick, 0, step)
  <2>1. 0 \in Int
    OBVIOUS
  <2> HIDE DEF pick, step, fold
  <2> QED BY <1>2, <1>3, <2>1, FoldExists
<1>5. ASSUME NEW t \in SUBSET D
      PROVE  g[t] = IF t = {} THEN 0 ELSE g[t \ {First(t)}] + First(t).amount
  <2>1. CASE t # {}
    <3>1. pick[t] = First(t) /\ First(t) \in D
      BY <2>1 DEF First
    <3>2. g[t \ {First(t)}] \in Int
      OBVIOUS
    <3>3. step[<<g[t \ {First(t)}], First(t)>>] = g[t \ {First(t)}] + First(t).amount
      BY <3>1, <3>2
    <3> HIDE DEF step, pick
    <3> QED BY <1>4, <2>1, <3>1, <3>3 DEF Folds
  <2> QED BY <1>4, <2>1 DEF Folds
<1>6. g = [t \in SUBSET D |-> IF t = {} THEN 0 ELSE g[t \ {First(t)}] + First(t).amount]
  BY <1>5
<1>7. fold = [t \in SUBSET D |->
                IF t = {} THEN 0 ELSE fold[t \ {First(t)}] + First(t).amount]
  BY <1>6
<1> HIDE DEF fold
<1> DEFINE T == {t \in SUBSET D : fold[t] \in Int}
<1>8. {} \in T
  BY <1>7
<1>9. ASSUME NEW t \in SUBSET D, t # {}, t \ {pick[t]} \in T PROVE t \in T
  <2>1. pick[t] = First(t) /\ First(t) \in D
    BY <1>9 DEF First
  <2>2. fold[t] = fold[t \ {First(t)}] + First(t).amount
    BY <1>7, <1>9
  <2> HIDE DEF pick
  <2> QED BY <1>9, <2>1, <2>2 DEF Slips
<1>10. \A t \in SUBSET D : t \in T
  <2> HIDE DEF T, pick
  <2> QED BY <1>2, <1>8, <1>9, PickInduction
<1>11. Sums(fold, slips)
  <2>1. fold \in [SUBSET D -> Int]
    BY <1>7, <1>10
  <2> QED BY <1>7, <2>1 DEF Sums
<1> QED BY <1>1, <1>11

\* Sums of a set and of a superset agree.
LEMMA SumsUnique ==
    ASSUME NEW slips, IsFiniteSet(slips), NEW more, slips \subseteq more,
           NEW a, Sums(a, slips), NEW b, Sums(b, more)
    PROVE  a[slips] = b[slips]
<1> DEFINE pick == [t \in SUBSET slips |-> CHOOSE x \in t : TRUE]
           T == {t \in SUBSET slips : a[t] = b[t]}
<1>1. IsPick(pick, slips)
  BY AnyIsPick
<1>2. {} \in T
  BY DEF Sums
<1>3. ASSUME NEW t \in SUBSET slips, t # {}, t \ {pick[t]} \in T PROVE t \in T
  <2>1. pick[t] = First(t)
    BY DEF First
  <2>2. /\ a[t] = a[t \ {First(t)}] + First(t).amount
        /\ b[t] = b[t \ {First(t)}] + First(t).amount
    BY <1>3 DEF Sums
  <2> HIDE DEF pick
  <2> QED BY <1>3, <2>1, <2>2
<1>4. \A t \in SUBSET slips : t \in T
  <2> HIDE DEF T, pick
  <2> QED BY <1>1, <1>2, <1>3, PickInduction
<1> QED BY <1>4

\* Nothing is worth nothing; what is worth something is the first slip and the rest.
LEMMA WorthFirst ==
    ASSUME NEW slips \in SUBSET Slips, IsFiniteSet(slips)
    PROVE  /\ Worth(slips) \in Int
           /\ slips = {} => Worth(slips) = 0
           /\ slips # {} => Worth(slips) = Worth(slips \ {First(slips)}) + First(slips).amount
<1>1. PICK sum : Sums(sum, slips) /\ Worth(slips) = sum[slips]
  BY WorthSums
<1>2. Worth(slips) \in Int /\ (slips = {} => Worth(slips) = 0)
  BY <1>1 DEF Sums
<1>3. CASE slips # {}
  <2> DEFINE rest == slips \ {First(slips)}
  <2>1. rest \in SUBSET Slips /\ IsFiniteSet(rest) /\ rest \subseteq slips
    BY FS_Subset
  <2> HIDE DEF rest
  <2>2. PICK part : Sums(part, rest) /\ Worth(rest) = part[rest]
    BY <2>1, WorthSums
  <2>3. part[rest] = sum[rest]
    BY <1>1, <2>1, <2>2, SumsUnique
  <2> QED BY <1>1, <1>3, <2>2, <2>3 DEF Sums, rest
<1> QED BY <1>2, <1>3

\* Any slip is its amount more than the rest.
LEMMA WorthWithout ==
    ASSUME NEW slips \in SUBSET Slips, IsFiniteSet(slips), NEW slip \in slips
    PROVE  Worth(slips) = Worth(slips \ {slip}) + slip.amount
<1> DEFINE Right(t) == \A s \in t : Worth(t) = Worth(t \ {s}) + s.amount
           U == {k \in Nat : \A t \in SUBSET slips : Cardinality(t) = k => Right(t)}
<1>1. \A t \in SUBSET slips : IsFiniteSet(t) /\ t \in SUBSET Slips /\ Cardinality(t) \in Nat
  BY FS_Subset, FS_CardinalityType
<1>2. 0 \in U
  <2>1. \A t \in SUBSET slips : Cardinality(t) = 0 => t = {}
    BY <1>1, FS_EmptySet
  <2> QED BY <2>1
<1>3. ASSUME NEW k \in U PROVE k + 1 \in U
  <2> SUFFICES ASSUME NEW t \in SUBSET slips, Cardinality(t) = k + 1, NEW s \in t
               PROVE  Worth(t) = Worth(t \ {s}) + s.amount
    OBVIOUS
  <2> DEFINE f == First(t)
  <2>1. f \in t
    BY DEF First
  <2>2. Worth(t) = Worth(t \ {f}) + f.amount
    BY <1>1, <2>1, WorthFirst
  <2>3. \A x \in t : t \ {x} \in SUBSET slips /\ Right(t \ {x})
    <3>1. \A x \in t : Cardinality(t \ {x}) = Cardinality(t) - 1
      BY <1>1, FS_RemoveElement
    <3>2. \A x \in t : t \ {x} \in SUBSET slips /\ Cardinality(t \ {x}) = k
      BY <3>1
    <3> QED BY <3>2
  <2> HIDE DEF f
  <2>4. CASE s # f
    <3>1. Worth(t \ {f}) = Worth((t \ {f}) \ {s}) + s.amount
      BY <2>1, <2>3, <2>4
    <3>2. Worth(t \ {s}) = Worth((t \ {s}) \ {f}) + f.amount
      BY <2>1, <2>3, <2>4
    <3>3. (t \ {f}) \ {s} = (t \ {s}) \ {f} /\ (t \ {s}) \ {f} \in SUBSET slips
      OBVIOUS
    <3>4. Worth((t \ {s}) \ {f}) \in Int
      BY <1>1, <3>3, WorthFirst
    <3>5. s.amount \in Int /\ f.amount \in Int
      BY <2>1 DEF Slips
    <3>6. PICK rest : rest = Worth((t \ {s}) \ {f})
      OBVIOUS
    <3>7. Worth(t \ {f}) = rest + s.amount /\ Worth(t \ {s}) = rest + f.amount
      BY <3>1, <3>2, <3>3, <3>6, Zenon
    <3>8. rest \in Int
      BY <3>4, <3>6
    <3>9. Worth(t) = (rest + s.amount) + f.amount
      BY <2>2, <3>7, Zenon
    <3>10. (rest + s.amount) + f.amount = (rest + f.amount) + s.amount
      BY <3>5, <3>8
    <3> QED BY <3>7, <3>9, <3>10, Zenon
  <2>5. CASE s = f
    BY <2>2, <2>5
  <2> QED BY <2>4, <2>5
<1>4. U = Nat
  <2>1. U \subseteq Nat
    OBVIOUS
  <2> HIDE DEF U
  <2> QED BY <1>2, <1>3, <2>1, NatSetInduction
<1>5. slips \in SUBSET slips /\ Cardinality(slips) \in U
  <2> HIDE DEF U
  <2> QED BY <1>1, <1>4
<1> QED BY <1>5

\* What is taken away is no longer there.
LEMMA WorthMinus ==
    ASSUME NEW slips \in SUBSET Slips, IsFiniteSet(slips), NEW picked \in SUBSET slips
    PROVE  Worth(slips \ picked) = Worth(slips) - Worth(picked)
<1> DEFINE pick == [t \in SUBSET slips |-> CHOOSE x \in t : TRUE]
           T == {t \in SUBSET slips : Worth(slips \ t) = Worth(slips) - Worth(t)}
<1>1. /\ \A t \in SUBSET slips : IsFiniteSet(t) /\ t \in SUBSET Slips
      /\ IsPick(pick, slips)
  BY FS_Subset, AnyIsPick
<1>2. \A t \in SUBSET slips : Worth(t) \in Int
  BY <1>1, WorthFirst
<1>3. {} \in T
  <2>1. slips \ {} = slips /\ Worth({}) = 0 /\ {} \in SUBSET slips
    BY <1>1, WorthFirst
  <2> QED BY <1>2, <2>1
<1>4. ASSUME NEW t \in SUBSET slips, t # {}, t \ {pick[t]} \in T PROVE t \in T
  <2>1. PICK x \in t : x = pick[t]
    <3> HIDE DEF pick
    <3> QED BY <1>1, <1>4 DEF IsPick
  <2> HIDE DEF pick
  <2> DEFINE rest == t \ {x}
  <2>2. Worth(slips \ rest) = Worth(slips) - Worth(rest)
    BY <1>4, <2>1
  <2>3. /\ slips \ rest \in SUBSET slips /\ x \in slips \ rest
        /\ (slips \ rest) \ {x} = slips \ t /\ rest \in SUBSET slips
    OBVIOUS
  <2> HIDE DEF rest
  <2>4. Worth(slips \ rest) = Worth(slips \ t) + x.amount
    BY <1>1, <2>3, WorthWithout
  <2>5. Worth(t) = Worth(rest) + x.amount
    BY <1>1, <2>1, WorthWithout DEF rest
  <2>6. x.amount \in Int
    BY DEF Slips
  <2>7. slips \ t \in SUBSET slips
    OBVIOUS
  <2> QED BY <1>2, <2>2, <2>3, <2>4, <2>5, <2>6, <2>7
<1>5. picked \in T
  <2> HIDE DEF T, pick
  <2> QED BY <1>1, <1>3, <1>4, PickInduction
<1> QED BY <1>5

-----------------------------------------------------------------------------
(* Wallets.                                                                *)

TxTypes == {"Issuance", "Normal", "Bound", "BlockStake", "ATR"}

TxSet == [type : TxTypes, ins : Seq(Slips), outs : Seq(Slips), hops : Nat,
          orig : [sent : BOOLEAN, hops : Nat]]

\* An NFT, or a slip.
GroupsOf(Good) == {g \in Seq(Good) : Len(g) \in {1, 3}}
GroupSet == GroupsOf(Slips)

Places == UNION {[d -> Nat \X Nat] : d \in SUBSET Slips}

\* The part of a wallet that says what it can spend.
Balanced(w) ==
    /\ IsFiniteSet(DOMAIN w.slips)
    /\ w.unspent \subseteq DOMAIN w.slips /\ w.staking \subseteq DOMAIN w.slips
    /\ w.unspent \cap w.staking = {}
    /\ w.balance = Worth(w.unspent)

WalletType ==
    [slips : Places, unspent : SUBSET Slips, staking : SUBSET Slips, balance : Int,
     pending : SUBSET TxSet, nfts : Seq(GroupSet)]

Wallets == {w \in WalletType : Balanced(w)}

\* The unspent slips of a wallet are finitely many.
LEMMA WalletFacts ==
    ASSUME NEW w \in Wallets
    PROVE  /\ w \in WalletType
           /\ DOMAIN w.slips \in SUBSET Slips /\ IsFiniteSet(DOMAIN w.slips)
           /\ IsFiniteSet(w.unspent) /\ IsFiniteSet(w.staking)
           /\ Worth(w.unspent) \in Int /\ w.balance = Worth(w.unspent)
           /\ \A s \in DOMAIN w.slips : w.slips[s] \in Nat \X Nat
<1>1. w \in WalletType /\ Balanced(w)
  BY DEF Wallets
<1>2. PICK d \in SUBSET Slips : w.slips \in [d -> Nat \X Nat]
  BY <1>1 DEF WalletType, Places
<1>3. DOMAIN w.slips = d /\ \A s \in d : w.slips[s] \in Nat \X Nat
  BY <1>2
<1>4. IsFiniteSet(w.unspent) /\ IsFiniteSet(w.staking)
  BY <1>1, FS_Subset DEF Balanced
<1>5. w.unspent \in SUBSET Slips
  BY <1>1 DEF WalletType
<1>6. Worth(w.unspent) \in Int
  BY <1>4, <1>5, WorthFirst
<1> QED BY <1>1, <1>3, <1>4, <1>6 DEF Balanced

\* add_slip: money adds to the balance and a stake does not.
LEMMA AddSlipStays ==
    ASSUME NEW w \in Wallets, NEW id \in Nat, NEW ord \in Nat, NEW slip \in Slips
    PROVE  AddSlip(w, id, ord, slip) \in Wallets
<1>1. CASE slip \in DOMAIN w.slips
  BY <1>1 DEF AddSlip
<1>2. CASE slip \notin DOMAIN w.slips
  <2> DEFINE money == slip.type \notin {"BlockStake", "Bound"}
             slips == [s \in DOMAIN w.slips \cup {slip} |->
                         IF s = slip THEN <<id, ord>> ELSE w.slips[s]]
             staking == IF slip.type = "BlockStake" THEN w.staking \cup {slip} ELSE w.staking
             unspent == IF money THEN w.unspent \cup {slip} ELSE w.unspent
             balance == IF money THEN w.balance + slip.amount ELSE w.balance
  <2>1. w \in WalletType /\ Balanced(w)
    BY DEF Wallets
  <2>2. AddSlip(w, id, ord, slip) =
          [w EXCEPT !.slips = slips, !.staking = staking, !.unspent = unspent,
                    !.balance = balance]
    BY <1>2, <2>1 DEF AddSlip, WalletType
  <2>3. DOMAIN slips = DOMAIN w.slips \cup {slip} /\ slips \in Places
    <3>1. DOMAIN slips \in SUBSET Slips
      BY WalletFacts
    <3>2. \A s \in DOMAIN slips : slips[s] \in Nat \X Nat
      BY WalletFacts
    <3>3. slips = [s \in DOMAIN slips |-> slips[s]]
      OBVIOUS
    <3>4. DOMAIN slips = DOMAIN w.slips \cup {slip}
      OBVIOUS
    <3> HIDE DEF slips
    <3>5. slips \in [DOMAIN slips -> Nat \X Nat]
      BY <3>2, <3>3
    <3> QED BY <3>1, <3>4, <3>5 DEF Places
  <2>4. IsFiniteSet(DOMAIN w.slips \cup {slip})
    BY WalletFacts, FS_AddElement
  <2>5. slip \notin w.unspent /\ slip \notin w.staking
    BY <1>2, <2>1 DEF Balanced
  <2>6. balance \in Int /\ unspent \in SUBSET Slips /\ staking \in SUBSET Slips
    <3>1. w.balance \in Int /\ slip.amount \in Int
      BY <2>1 DEF WalletType, Slips
    <3>2. balance \in Int
      BY <3>1
    <3>3. w.unspent \in SUBSET Slips /\ w.staking \in SUBSET Slips
      BY <2>1 DEF WalletType
    <3>4. unspent \in SUBSET Slips /\ staking \in SUBSET Slips
      BY <3>3
    <3> QED BY <3>2, <3>4
  <2>7. balance = Worth(unspent)
    <3>1. CASE money
      <4>1. unspent \in SUBSET Slips /\ IsFiniteSet(unspent) /\ slip \in unspent
        BY <2>6, <3>1, WalletFacts, FS_AddElement
      <4>2. unspent \ {slip} = w.unspent
        BY <2>5, <3>1
      <4> HIDE DEF unspent
      <4>3. Worth(unspent) = Worth(unspent \ {slip}) + slip.amount
        BY <4>1, WorthWithout
      <4> QED BY <3>1, <4>2, <4>3, WalletFacts
    <3>2. CASE ~money
      BY <3>2, WalletFacts
    <3> QED BY <3>1, <3>2
  <2>8. unspent \cap staking = {} /\ unspent \cup staking \subseteq DOMAIN w.slips \cup {slip}
    BY <2>1, <2>5 DEF Balanced
  <2> HIDE DEF slips, staking, unspent, balance
  <2>9. PICK v : v = [w EXCEPT !.slips = slips, !.staking = staking, !.unspent = unspent,
                               !.balance = balance]
    OBVIOUS
  <2>10. v \in WalletType
    BY <2>1, <2>3, <2>6, <2>9 DEF WalletType
  <2>11. Balanced(v)
    <3>1. v.slips = slips /\ v.staking = staking /\ v.unspent = unspent /\ v.balance = balance
      BY <2>1, <2>9 DEF WalletType
    <3> QED BY <2>3, <2>4, <2>7, <2>8, <3>1 DEF Balanced
  <2> QED BY <2>2, <2>9, <2>10, <2>11 DEF Wallets
<1> QED BY <1>1, <1>2

\* delete_slip: what was unspent leaves the balance.
LEMMA DeleteSlipStays ==
    ASSUME NEW w \in Wallets, NEW slip
    PROVE  DeleteSlip(w, slip) \in Wallets
<1>1. CASE slip \notin DOMAIN w.slips
  BY <1>1 DEF DeleteSlip
<1>2. CASE slip \in DOMAIN w.slips
  <2> DEFINE free == slip \in w.unspent
             slips == [s \in DOMAIN w.slips \ {slip} |-> w.slips[s]]
             unspent == w.unspent \ {slip}
             staking == IF free THEN w.staking ELSE w.staking \ {slip}
             balance == IF free THEN w.balance - slip.amount ELSE w.balance
  <2>1. w \in WalletType /\ Balanced(w) /\ slip \in Slips
    BY <1>2, WalletFacts DEF Wallets
  <2>2. DeleteSlip(w, slip) =
          [w EXCEPT !.slips = slips, !.unspent = unspent, !.balance = balance,
                    !.staking = staking]
    BY <1>2, <2>1 DEF DeleteSlip, WalletType
  <2>3. DOMAIN slips = DOMAIN w.slips \ {slip} /\ slips \in Places
    <3>1. DOMAIN slips \in SUBSET Slips
      BY WalletFacts
    <3>2. \A s \in DOMAIN slips : slips[s] \in Nat \X Nat
      BY WalletFacts
    <3>3. slips = [s \in DOMAIN slips |-> slips[s]]
      OBVIOUS
    <3>4. DOMAIN slips = DOMAIN w.slips \ {slip}
      OBVIOUS
    <3> HIDE DEF slips
    <3>5. slips \in [DOMAIN slips -> Nat \X Nat]
      BY <3>2, <3>3
    <3> QED BY <3>1, <3>4, <3>5 DEF Places
  <2>4. IsFiniteSet(DOMAIN w.slips \ {slip})
    BY WalletFacts, FS_RemoveElement
  <2>5. balance \in Int /\ unspent \in SUBSET Slips /\ staking \in SUBSET Slips
    <3>1. w.balance \in Int /\ slip.amount \in Int
      BY <2>1 DEF WalletType, Slips
    <3>2. balance \in Int
      BY <3>1
    <3>3. w.unspent \in SUBSET Slips /\ w.staking \in SUBSET Slips
      BY <2>1 DEF WalletType
    <3>4. unspent \in SUBSET Slips /\ staking \in SUBSET Slips
      BY <3>3
    <3> QED BY <3>2, <3>4
  <2>6. balance = Worth(unspent)
    <3>1. CASE free
      <4>1. Worth(w.unspent) = Worth(w.unspent \ {slip}) + slip.amount
        BY <2>1, <3>1, WalletFacts, WorthWithout DEF WalletType
      <4>2. slip.amount \in Int /\ Worth(w.unspent \ {slip}) \in Int
        <5>1. w.unspent \ {slip} \in SUBSET Slips /\ IsFiniteSet(w.unspent \ {slip})
          BY <2>5, WalletFacts, FS_RemoveElement
        <5> QED BY <2>1, <5>1, WorthFirst DEF Slips
      <4> QED BY <3>1, <4>1, <4>2, WalletFacts
    <3>2. CASE ~free
      <4>1. unspent = w.unspent
        BY <3>2
      <4> QED BY <3>2, <4>1, WalletFacts
    <3> QED BY <3>1, <3>2
  <2>7. /\ unspent \cap staking = {} /\ unspent \subseteq DOMAIN w.slips \ {slip}
        /\ staking \subseteq DOMAIN w.slips \ {slip}
    BY <2>1 DEF Balanced
  <2> HIDE DEF slips, staking, unspent, balance
  <2>8. PICK v : v = [w EXCEPT !.slips = slips, !.unspent = unspent, !.balance = balance,
                               !.staking = staking]
    OBVIOUS
  <2>9. v \in WalletType
    BY <2>1, <2>3, <2>5, <2>8 DEF WalletType
  <2>10. Balanced(v)
    <3>1. v.slips = slips /\ v.staking = staking /\ v.unspent = unspent /\ v.balance = balance
      BY <2>1, <2>8 DEF WalletType
    <3> QED BY <2>3, <2>4, <2>6, <2>7, <3>1 DEF Balanced
  <2> QED BY <2>2, <2>8, <2>9, <2>10 DEF Wallets
<1> QED BY <1>1, <1>2

\* NFTs and pending transactions are not money.
LEMMA OthersStay ==
    ASSUME NEW w \in Wallets
    PROVE  /\ \A nfts \in Seq(GroupSet) : [w EXCEPT !.nfts = nfts] \in Wallets
           /\ \A pending \in SUBSET TxSet : [w EXCEPT !.pending = pending] \in Wallets
<1>1. w \in WalletType /\ Balanced(w)
  BY DEF Wallets
<1>2. ASSUME NEW nfts \in Seq(GroupSet) PROVE [w EXCEPT !.nfts = nfts] \in Wallets
  <2>1. PICK v : v = [w EXCEPT !.nfts = nfts]
    OBVIOUS
  <2>2. /\ v \in WalletType
        /\ v.slips = w.slips /\ v.staking = w.staking /\ v.unspent = w.unspent
        /\ v.balance = w.balance
    BY <1>1, <2>1 DEF WalletType
  <2>3. Balanced(v)
    BY <1>1, <2>2 DEF Balanced
  <2> QED BY <2>1, <2>2, <2>3 DEF Wallets
<1>3. ASSUME NEW pending \in SUBSET TxSet PROVE [w EXCEPT !.pending = pending] \in Wallets
  <2>1. PICK v : v = [w EXCEPT !.pending = pending]
    OBVIOUS
  <2>2. /\ v \in WalletType
        /\ v.slips = w.slips /\ v.staking = w.staking /\ v.unspent = w.unspent
        /\ v.balance = w.balance
    BY <1>1, <2>1 DEF WalletType
  <2>3. Balanced(v)
    BY <1>1, <2>2 DEF Balanced
  <2> QED BY <2>1, <2>2, <2>3 DEF Wallets
<1> QED BY <1>2, <1>3

\* Wallets are a set that deleting slips stays in.
Deletes(S) == \A w \in S : \A slip : DeleteSlip(w, slip) \in S

\* Deleting finitely many slips stays in them, too.
LEMMA DeleteSlipsStays ==
    ASSUME NEW S, Deletes(S), NEW w \in S, NEW slips, IsFiniteSet(slips)
    PROVE  DeleteSlips(w, slips) \in S
<1> DEFINE D == slips
           pick == [t \in SUBSET D |-> First(t)]
           step == [e \in S \X D |-> DeleteSlip(e[1], e[2])]
           fold == CHOOSE g : g = [t \in SUBSET D |->
                      IF t = {} THEN w ELSE DeleteSlip(g[t \ {First(t)}], First(t))]
<1>1. DeleteSlips(w, slips) = fold[D]
  BY Zenon DEF DeleteSlips, FoldSet, MapThenFoldSet, First
<1>2. IsPick(pick, D)
  BY AnyIsPick DEF First
<1>3. step \in [S \X D -> S]
  BY DEF Deletes
<1>4. PICK g \in [SUBSET D -> S] : Folds(g, D, pick, w, step)
  <2> HIDE DEF pick, step, fold
  <2> QED BY <1>2, <1>3, FoldExists
<1>5. ASSUME NEW t \in SUBSET D
      PROVE  g[t] = IF t = {} THEN w ELSE DeleteSlip(g[t \ {First(t)}], First(t))
  <2>1. CASE t # {}
    <3>1. pick[t] = First(t) /\ First(t) \in D
      BY <2>1 DEF First
    <3>2. g[t \ {First(t)}] \in S
      OBVIOUS
    <3>3. step[<<g[t \ {First(t)}], First(t)>>] = DeleteSlip(g[t \ {First(t)}], First(t))
      BY <3>1, <3>2
    <3> HIDE DEF step, pick
    <3> QED BY <1>4, <2>1, <3>1, <3>3 DEF Folds
  <2> QED BY <1>4, <2>1 DEF Folds
<1>6. g = [t \in SUBSET D |->
             IF t = {} THEN w ELSE DeleteSlip(g[t \ {First(t)}], First(t))]
  BY <1>5
<1>7. fold = [t \in SUBSET D |->
                IF t = {} THEN w ELSE DeleteSlip(fold[t \ {First(t)}], First(t))]
  BY <1>6
<1> HIDE DEF fold
<1> DEFINE T == {t \in SUBSET D : fold[t] \in S}
<1>8. {} \in T
  BY <1>7
<1>9. ASSUME NEW t \in SUBSET D, t # {}, t \ {pick[t]} \in T PROVE t \in T
  <2>1. pick[t] = First(t)
    OBVIOUS
  <2>2. fold[t] = DeleteSlip(fold[t \ {First(t)}], First(t))
    BY <1>7, <1>9
  <2> HIDE DEF pick
  <2> QED BY <1>9, <2>1, <2>2 DEF Deletes
<1>10. D \in T
  <2> HIDE DEF T, pick
  <2> QED BY <1>2, <1>8, <1>9, PickInduction
<1> QED BY <1>1, <1>10

\* What is as old as the chain remembers leaves the wallet.
LEMMA RemoveOldStays ==
    ASSUME NEW S \in SUBSET Wallets, Deletes(S), NEW w \in S, NEW id
    PROVE  RemoveOldSlips(w, id) \in S
<1> DEFINE old == {s \in DOMAIN w.slips : w.slips[s][1] < id}
<1>1. IsFiniteSet(old)
  BY WalletFacts, FS_Subset
<1> HIDE DEF old
<1>2. DeleteSlips(w, old) \in S
  BY <1>1, DeleteSlipsStays
<1> QED BY <1>2 DEF RemoveOldSlips, old

\* The elements of a sequence are finitely many.
LEMMA MembersFinite ==
    ASSUME NEW S, NEW s \in Seq(S)
    PROVE  IsFiniteSet(Members(s)) /\ Members(s) \in SUBSET S
<1>1. Len(s) \in Nat /\ s \in [1 .. Len(s) -> S] /\ DOMAIN s = 1 .. Len(s)
  OBVIOUS
<1>2. s \in Surjection(1 .. Len(s), Members(s))
  BY <1>1 DEF Surjection, Members
<1>3. IsFiniteSet(1 .. Len(s))
  BY <1>1, FS_Interval
<1> QED BY <1>1, <1>2, <1>3, FS_Surjection DEF Members

\* And so are the slips of a block.
LEMMA SlipsOfBlock ==
    ASSUME NEW txs \in Seq(TxSet)
    PROVE  IsFiniteSet(InsOf(txs) \cup OutsOf(txs))
<1> DEFINE n == Len(txs)
           ins == [i \in 1 .. n |-> Valued(txs[i].ins)]
           outs == [i \in 1 .. n |-> Valued(txs[i].outs)]
<1>1. n \in Nat /\ IsFiniteSet(1 .. n) /\ \A i \in 1 .. n : txs[i] \in TxSet
  BY FS_Interval
<1>2. \A tx \in TxSet : IsFiniteSet(Valued(tx.ins)) /\ IsFiniteSet(Valued(tx.outs))
  <2> TAKE tx \in TxSet
  <2>1. tx.ins \in Seq(Slips) /\ tx.outs \in Seq(Slips)
    BY DEF TxSet
  <2>2. IsFiniteSet(Members(tx.ins)) /\ IsFiniteSet(Members(tx.outs))
    BY <2>1, MembersFinite
  <2>3. Valued(tx.ins) \subseteq Members(tx.ins) /\ Valued(tx.outs) \subseteq Members(tx.outs)
    BY DEF Valued, Members
  <2> QED BY <2>2, <2>3, FS_Subset
<1>3. ASSUME NEW f, DOMAIN f = 1 .. n, f = [i \in 1 .. n |-> f[i]],
             \A i \in 1 .. n : IsFiniteSet(f[i])
      PROVE  IsFiniteSet(UNION {f[i] : i \in 1 .. n})
  <2> DEFINE sets == {f[i] : i \in 1 .. n}
  <2>1. f \in Surjection(1 .. n, sets)
    BY <1>3 DEF Surjection
  <2>2. \A x \in sets : IsFiniteSet(x)
    BY <1>3
  <2> HIDE DEF sets
  <2>3. IsFiniteSet(sets)
    BY <1>1, <2>1, FS_Surjection
  <2>4. IsFiniteSet(UNION sets)
    BY <2>2, <2>3, FS_UNION
  <2> QED BY <2>4 DEF sets
<1>4. IsFiniteSet(InsOf(txs))
  <2>1. InsOf(txs) = UNION {ins[i] : i \in 1 .. n}
    BY DEF InsOf
  <2>2. /\ DOMAIN ins = 1 .. n /\ ins = [i \in 1 .. n |-> ins[i]]
        /\ \A i \in 1 .. n : IsFiniteSet(ins[i])
    BY <1>1, <1>2
  <2> HIDE DEF ins
  <2> QED BY <1>3, <2>1, <2>2
<1>5. IsFiniteSet(OutsOf(txs))
  <2>1. OutsOf(txs) = UNION {outs[i] : i \in 1 .. n}
    BY DEF OutsOf
  <2>2. /\ DOMAIN outs = 1 .. n /\ outs = [i \in 1 .. n |-> outs[i]]
        /\ \A i \in 1 .. n : IsFiniteSet(outs[i])
    BY <1>1, <1>2
  <2> HIDE DEF outs
  <2> QED BY <1>3, <2>1, <2>2
<1> QED BY <1>4, <1>5, FS_Union

\* A block that is purged takes its slips out of the wallet.
LEMMA DeleteBlockStays ==
    ASSUME NEW S, Deletes(S), NEW w \in S, NEW txs \in Seq(TxSet)
    PROVE  DeleteBlock(w, txs) \in S
BY SlipsOfBlock, DeleteSlipsStays DEF DeleteBlock

-----------------------------------------------------------------------------
(* How a block changes a wallet.                                           *)

\* u has lost slips and pending transactions of w, and won slips of new, which are
\* where they say.
Extends(w, u, new) ==
    /\ u.unspent \subseteq w.unspent \cup new
    /\ u.pending \subseteq w.pending
    /\ \A s \in DOMAIN u.slips :
          \/ s \in DOMAIN w.slips /\ u.slips[s] = w.slips[s]
          \/ s \in new /\ u.slips[s] = <<s.id, s.ord>>

\* What is won later is won.
LEMMA ExtendsTwice ==
    ASSUME NEW w, NEW u, NEW v, NEW new, NEW more \in SUBSET new,
           Extends(w, u, new), Extends(u, v, more)
    PROVE  Extends(w, v, new)
<1>1. v.unspent \subseteq w.unspent \cup new /\ v.pending \subseteq w.pending
  BY DEF Extends
<1>2. ASSUME NEW s \in DOMAIN v.slips
      PROVE  \/ s \in DOMAIN w.slips /\ v.slips[s] = w.slips[s]
             \/ s \in new /\ v.slips[s] = <<s.id, s.ord>>
  <2>1. \/ s \in DOMAIN u.slips /\ v.slips[s] = u.slips[s]
        \/ s \in more /\ v.slips[s] = <<s.id, s.ord>>
    BY Zenon DEF Extends
  <2>2. CASE s \in DOMAIN u.slips /\ v.slips[s] = u.slips[s]
    <3>1. \/ s \in DOMAIN w.slips /\ u.slips[s] = w.slips[s]
          \/ s \in new /\ u.slips[s] = <<s.id, s.ord>>
      BY <2>2, Zenon DEF Extends
    <3> QED BY <2>2, <3>1
  <2>3. CASE s \in more /\ v.slips[s] = <<s.id, s.ord>>
    BY <2>3
  <2> QED BY <2>1, <2>2, <2>3
<1> QED BY <1>1, <1>2, Zenon DEF Extends

\* A slip that is added at its own place.
LEMMA AddSlipExtends ==
    ASSUME NEW w \in Wallets, NEW slip \in Slips
    PROVE  Extends(w, AddSlip(w, slip.id, slip.ord, slip), {slip})
<1>1. w \in WalletType
  BY DEF Wallets
<1>2. CASE slip \in DOMAIN w.slips
  BY <1>2 DEF AddSlip, Extends
<1>3. CASE slip \notin DOMAIN w.slips
  <2> DEFINE money == slip.type \notin {"BlockStake", "Bound"}
             slips == [s \in DOMAIN w.slips \cup {slip} |->
                         IF s = slip THEN <<slip.id, slip.ord>> ELSE w.slips[s]]
             staking == IF slip.type = "BlockStake" THEN w.staking \cup {slip} ELSE w.staking
             unspent == IF money THEN w.unspent \cup {slip} ELSE w.unspent
             balance == IF money THEN w.balance + slip.amount ELSE w.balance
  <2>1. AddSlip(w, slip.id, slip.ord, slip) =
          [w EXCEPT !.slips = slips, !.staking = staking, !.unspent = unspent,
                    !.balance = balance]
    BY <1>1, <1>3 DEF AddSlip, WalletType
  <2>2. unspent \subseteq w.unspent \cup {slip}
    OBVIOUS
  <2>3. \A s \in DOMAIN slips : \/ s \in DOMAIN w.slips /\ slips[s] = w.slips[s]
                                \/ s \in {slip} /\ slips[s] = <<s.id, s.ord>>
    BY <1>3
  <2> HIDE DEF slips, staking, unspent, balance
  <2>4. PICK v : v = [w EXCEPT !.slips = slips, !.staking = staking, !.unspent = unspent,
                               !.balance = balance]
    OBVIOUS
  <2>5. v.slips = slips /\ v.unspent = unspent /\ v.pending = w.pending
    BY <1>1, <2>4 DEF WalletType
  <2>6. Extends(w, v, {slip})
    BY <2>2, <2>3, <2>5 DEF Extends
  <2> QED BY <2>1, <2>4, <2>6
<1> QED BY <1>2, <1>3

\* A slip that is deleted.
LEMMA DeleteSlipExtends ==
    ASSUME NEW w \in Wallets, NEW slip
    PROVE  Extends(w, DeleteSlip(w, slip), {})
<1>1. w \in WalletType
  BY DEF Wallets
<1>2. CASE slip \notin DOMAIN w.slips
  BY <1>2 DEF DeleteSlip, Extends
<1>3. CASE slip \in DOMAIN w.slips
  <2> DEFINE free == slip \in w.unspent
             slips == [s \in DOMAIN w.slips \ {slip} |-> w.slips[s]]
             unspent == w.unspent \ {slip}
             staking == IF free THEN w.staking ELSE w.staking \ {slip}
             balance == IF free THEN w.balance - slip.amount ELSE w.balance
  <2>1. DeleteSlip(w, slip) =
          [w EXCEPT !.slips = slips, !.unspent = unspent, !.balance = balance,
                    !.staking = staking]
    BY <1>1, <1>3 DEF DeleteSlip, WalletType
  <2>2. /\ unspent \subseteq w.unspent
        /\ \A s \in DOMAIN slips : s \in DOMAIN w.slips /\ slips[s] = w.slips[s]
    OBVIOUS
  <2> HIDE DEF slips, staking, unspent, balance
  <2>3. PICK v : v = [w EXCEPT !.slips = slips, !.unspent = unspent, !.balance = balance,
                               !.staking = staking]
    OBVIOUS
  <2>4. v.slips = slips /\ v.unspent = unspent /\ v.pending = w.pending
    BY <1>1, <2>3 DEF WalletType
  <2>5. Extends(w, v, {})
    BY <2>2, <2>4 DEF Extends
  <2> QED BY <2>1, <2>3, <2>5
<1> QED BY <1>2, <1>3

\* A set of wallets that a transaction of block id stays in that comes at ord and adds
\* slips of Good.
Closed(S, Good, id, ord) ==
    /\ Deletes(S)
    /\ \A w \in S :
         /\ \A slip \in Good : AddSlip(w, id, ord, slip) \in S
         /\ \A nfts \in Seq(GroupSet) : [w EXCEPT !.nfts = nfts] \in S
         /\ \A pending \in SUBSET w.pending : [w EXCEPT !.pending = pending] \in S

\* All wallets are one.
LEMMA WalletsClosed ==
    /\ Deletes(Wallets)
    /\ \A id, ord \in Nat : Closed(Wallets, Slips, id, ord)
<1>1. Deletes(Wallets)
  BY DeleteSlipStays DEF Deletes
<1>2. \A w \in Wallets, slip \in Slips, id, ord \in Nat : AddSlip(w, id, ord, slip) \in Wallets
  BY AddSlipStays
<1>3. \A w \in Wallets : \A nfts \in Seq(GroupSet) : [w EXCEPT !.nfts = nfts] \in Wallets
  BY OthersStay
<1>4. ASSUME NEW w \in Wallets, NEW pending \in SUBSET w.pending
      PROVE  [w EXCEPT !.pending = pending] \in Wallets
  <2>1. pending \in SUBSET TxSet
    BY DEF Wallets, WalletType
  <2> QED BY <2>1, OthersStay
<1> QED BY <1>1, <1>2, <1>3, <1>4, Zenon DEF Closed

\* What a block can make of the wallet w: its slips are of block id.
OfBlock(id) == {s \in Slips : s.id = id}
From(w, id) == {u \in Wallets : Extends(w, u, OfBlock(id))}

\* Every transaction of the block stays in it: its outputs are at its place.
LEMMA FromClosed ==
    ASSUME NEW w \in Wallets, NEW id \in Nat, NEW ord \in Nat
    PROVE  /\ w \in From(w, id)
           /\ Deletes(From(w, id))
           /\ Closed(From(w, id), {s \in OfBlock(id) : s.ord = ord}, id, ord)
<1>1. w \in From(w, id)
  BY DEF From, Extends
<1>2. Deletes(From(w, id))
  <2> SUFFICES ASSUME NEW u \in From(w, id), NEW slip PROVE DeleteSlip(u, slip) \in From(w, id)
    BY DEF Deletes
  <2>1. u \in Wallets /\ Extends(w, u, OfBlock(id))
    BY DEF From
  <2>2. DeleteSlip(u, slip) \in Wallets /\ Extends(u, DeleteSlip(u, slip), {})
    BY <2>1, DeleteSlipStays, DeleteSlipExtends
  <2>3. Extends(w, DeleteSlip(u, slip), OfBlock(id))
    BY <2>1, <2>2, ExtendsTwice
  <2> QED BY <2>2, <2>3 DEF From
<1>3. ASSUME NEW u \in From(w, id), NEW slip \in {s \in OfBlock(id) : s.ord = ord}
      PROVE  AddSlip(u, id, ord, slip) \in From(w, id)
  <2>1. u \in Wallets /\ Extends(w, u, OfBlock(id))
    BY DEF From
  <2>2. slip \in Slips /\ slip.id = id /\ slip.ord = ord /\ {slip} \in SUBSET OfBlock(id)
    BY DEF OfBlock
  <2>3. AddSlip(u, id, ord, slip) \in Wallets
    BY <2>1, <2>2, AddSlipStays
  <2>4. Extends(u, AddSlip(u, id, ord, slip), {slip})
    BY <2>1, <2>2, AddSlipExtends
  <2>5. Extends(w, AddSlip(u, id, ord, slip), OfBlock(id))
    BY <2>1, <2>2, <2>4, ExtendsTwice
  <2> QED BY <2>3, <2>5 DEF From
<1>4. ASSUME NEW u \in From(w, id), NEW nfts \in Seq(GroupSet)
      PROVE  [u EXCEPT !.nfts = nfts] \in From(w, id)
  <2>1. u \in Wallets /\ u \in WalletType /\ Extends(w, u, OfBlock(id))
    BY DEF From, Wallets
  <2>2. PICK v : v = [u EXCEPT !.nfts = nfts]
    OBVIOUS
  <2>3. v \in Wallets
    BY <2>1, <2>2, OthersStay
  <2>4. v.slips = u.slips /\ v.unspent = u.unspent /\ v.pending = u.pending
    BY <2>1, <2>2 DEF WalletType
  <2>5. Extends(w, v, OfBlock(id))
    BY <2>1, <2>4 DEF Extends
  <2> QED BY <2>2, <2>3, <2>5 DEF From
<1>5. ASSUME NEW u \in From(w, id), NEW pending \in SUBSET u.pending
      PROVE  [u EXCEPT !.pending = pending] \in From(w, id)
  <2>1. u \in Wallets /\ u \in WalletType /\ Extends(w, u, OfBlock(id))
    BY DEF From, Wallets
  <2>2. PICK v : v = [u EXCEPT !.pending = pending]
    OBVIOUS
  <2>3. v \in Wallets
    <3>1. pending \in SUBSET TxSet
      BY <2>1 DEF WalletType
    <3> QED BY <2>1, <2>2, <3>1, OthersStay
  <2>4. v.slips = u.slips /\ v.unspent = u.unspent /\ v.pending = pending
    BY <2>1, <2>2 DEF WalletType
  <2>5. Extends(w, v, OfBlock(id))
    BY <2>1, <2>4 DEF Extends
  <2> QED BY <2>2, <2>3, <2>5 DEF From
<1> QED BY <1>1, <1>2, <1>3, <1>4, <1>5, Zenon DEF Closed

-----------------------------------------------------------------------------
(* Blocks that join the chain and leave it.                                *)

\* A list of NFTs stays one when an NFT leaves it.
LEMMA RemoveNftStays ==
    ASSUME NEW nfts \in Seq(GroupSet), NEW id
    PROVE  RemoveNft(nfts, id) \in Seq(GroupSet)
<1> DEFINE at == {k \in 1 .. Len(nfts) : nfts[k][2] = id}
           first == CHOOSE k \in at : \A j \in at : k <= j
<1>1. CASE at = {}
  BY <1>1 DEF RemoveNft
<1>2. CASE at # {}
  <2>1. at \in SUBSET Nat /\ Len(nfts) \in Nat
    OBVIOUS
  <2> HIDE DEF at
  <2>2. Min(at) \in at /\ \A x \in at : Min(at) <= x
    BY <1>2, <2>1, MinExists
  <2>3. first \in at
    BY <2>2
  <2>4. first \in 1 .. Len(nfts)
    BY <2>3 DEF at
  <2> HIDE DEF first
  <2>5. SubSeq(nfts, 1, first - 1) \in Seq(GroupSet)
    BY <2>1, <2>4
  <2>6. SubSeq(nfts, first + 1, Len(nfts)) \in Seq(GroupSet)
    BY <2>1, <2>4
  <2>7. RemoveAt(nfts, first) \in Seq(GroupSet)
    BY <2>5, <2>6 DEF RemoveAt
  <2> QED BY <1>2, <2>7 DEF RemoveNft, at, first
<1> QED BY <1>1, <1>2

\* The walk over the slips: how many to skip, and the groups so far.
Walks(Good) == [skip : Nat, groups : Seq(GroupsOf(Good))]

WalkOn(slips, acc, i) ==
    IF acc.skip > 0 THEN [acc EXCEPT !.skip = @ - 1]
    ELSE IF IsNft(slips, i)
    THEN [skip |-> 2, groups |-> Append(acc.groups, SubSeq(slips, i, i + 2))]
    ELSE [skip |-> 0, groups |-> Append(acc.groups, <<slips[i]>>)]

Walk(slips) ==
    FoldLeft(LAMBDA acc, i : WalkOn(slips, acc, i), [skip |-> 0, groups |-> << >>],
             [i \in 1 .. Len(slips) |-> i])

\* A step of it.
LEMMA WalkOnType ==
    ASSUME NEW Good, NEW slips \in Seq(Good), NEW acc \in Walks(Good), NEW i \in 1 .. Len(slips)
    PROVE  WalkOn(slips, acc, i) \in Walks(Good)
<1>1. acc.skip \in Nat /\ acc.groups \in Seq(GroupsOf(Good))
  BY DEF Walks
<1>2. CASE acc.skip > 0
  <2>1. acc.skip - 1 \in Nat
    BY <1>1, <1>2
  <2>2. WalkOn(slips, acc, i) = [acc EXCEPT !.skip = acc.skip - 1]
    BY <1>2 DEF WalkOn, Walks
  <2> QED BY <2>1, <2>2 DEF Walks
<1>3. CASE ~(acc.skip > 0) /\ IsNft(slips, i)
  <2>1. PICK g : g = SubSeq(slips, i, i + 2)
    OBVIOUS
  <2>2. i + 2 <= Len(slips) /\ Len(slips) \in Nat /\ i \in Nat /\ i >= 1
    BY <1>3 DEF IsNft
  <2>3. g \in Seq(Good) /\ Len(g) = 3
    BY <2>1, <2>2
  <2>4. Append(acc.groups, g) \in Seq(GroupsOf(Good))
    BY <1>1, <2>3 DEF GroupsOf
  <2>5. WalkOn(slips, acc, i) = [skip |-> 2, groups |-> Append(acc.groups, g)]
    BY <1>3, <2>1 DEF WalkOn
  <2> QED BY <2>4, <2>5 DEF Walks
<1>4. CASE ~(acc.skip > 0) /\ ~IsNft(slips, i)
  <2>1. PICK g : g = <<slips[i]>>
    OBVIOUS
  <2>2. g \in Seq(Good) /\ Len(g) = 1
    BY <2>1
  <2>3. Append(acc.groups, g) \in Seq(GroupsOf(Good))
    BY <1>1, <2>2 DEF GroupsOf
  <2>4. WalkOn(slips, acc, i) = [skip |-> 0, groups |-> Append(acc.groups, g)]
    BY <1>4, <2>1 DEF WalkOn
  <2> QED BY <2>3, <2>4 DEF Walks
<1> QED BY <1>2, <1>3, <1>4

\* The walk ends with groups.
LEMMA WalkType ==
    ASSUME NEW Good, NEW slips \in Seq(Good)
    PROVE  Walk(slips) \in Walks(Good)
<1> DEFINE idx == [i \in 1 .. Len(slips) |-> i]
           base == [skip |-> 0, groups |-> << >>]
           n == Len(idx)
           D == 1 .. n
           Op(v, x) == WalkOn(slips, v, x)
           fold == CHOOSE g : g = [t \in SUBSET D |->
                      IF t = {} THEN base ELSE Op(g[t \ {Max(t)}], idx[Max(t)])]
           step == [e \in Walks(Good) \X D |-> Op(e[1], idx[e[2]])]
<1>1. base \in Walks(Good)
  BY DEF Walks
<1>2. n \in Nat /\ DOMAIN idx = D /\ \A i \in D : idx[i] \in 1 .. Len(slips)
  OBVIOUS
<1>3. Walk(slips) = fold[D]
  BY <1>2, Zenon DEF Walk, FoldLeft, MapThenFoldSet
<1>4. \A v \in Walks(Good), i \in D : Op(v, idx[i]) \in Walks(Good)
  BY <1>2, WalkOnType
<1> HIDE DEF Op
<1>5. step \in [Walks(Good) \X D -> Walks(Good)]
  BY <1>4
<1>6. PICK g \in [SUBSET D -> Walks(Good)] : FoldsUp(g, n, base, step)
  <2>1. base \in Walks(Good) /\ n \in Nat /\ step \in [Walks(Good) \X (1 .. n) -> Walks(Good)]
    BY <1>1, <1>2, <1>5
  <2> HIDE DEF step, n, fold
  <2> QED BY <2>1, FoldWitness
<1>7. \A t \in SUBSET D : t # {} => Max(t) \in D
  BY <1>2, MaxExists
<1>8. \A t \in SUBSET D :
        t # {} => step[<<g[t \ {Max(t)}], Max(t)>>] = Op(g[t \ {Max(t)}], idx[Max(t)])
  BY <1>6, <1>7
<1>9. g = [t \in SUBSET D |->
             IF t = {} THEN base ELSE Op(g[t \ {Max(t)}], idx[Max(t)])]
  <2> HIDE DEF step
  <2> QED BY <1>6, <1>8 DEF FoldsUp
<1>10. fold = [t \in SUBSET D |->
                IF t = {} THEN base ELSE Op(fold[t \ {Max(t)}], idx[Max(t)])]
  BY <1>9
<1> HIDE DEF fold
<1>11. \A k \in 1 .. n : fold[1 .. k - 1] \in Walks(Good) => fold[1 .. k] \in Walks(Good)
  <2> SUFFICES ASSUME NEW k \in 1 .. n, fold[1 .. k - 1] \in Walks(Good) PROVE fold[1 .. k] \in Walks(Good)
    OBVIOUS
  <2>1. /\ 1 .. k \in SUBSET D /\ 1 .. k # {}
        /\ Max(1 .. k) = k /\ (1 .. k) \ {Max(1 .. k)} = 1 .. k - 1
    BY <1>2, FirstPositions
  <2>2. fold[1 .. k] = Op(fold[1 .. k - 1], idx[k])
    BY <1>10, <2>1
  <2>3. k \in D /\ fold[1 .. k - 1] \in Walks(Good)
    OBVIOUS
  <2> HIDE DEF D
  <2> QED BY <1>4, <2>2, <2>3
<1>12. fold[{}] \in Walks(Good)
  BY <1>1, <1>10
<1>13. fold[D] \in Walks(Good)
  BY <1>2, <1>11, <1>12, FoldTyped
<1> QED BY <1>3, <1>13

\* Groups of slips of Good are made of slips of Good.
LEMMA GroupsType ==
    ASSUME NEW Good, NEW slips \in Seq(Good)
    PROVE  Groups(slips) \in Seq(GroupsOf(Good))
<1>1. Groups(slips) = Walk(slips).groups
  BY Zenon DEF Groups, Walk, WalkOn
<1> QED BY <1>1, WalkType DEF Walks

\* What a group of a block that joins the chain does to a wallet.
LEMMA GroupStays ==
    ASSUME NEW S \in SUBSET Wallets, NEW Good \in SUBSET Slips, NEW id, NEW ord,
           Closed(S, Good, id, ord), NEW w \in S
    PROVE  /\ \A g \in GroupsOf(Good) : WindOutput(w, g, id, ord) \in S
           /\ \A g \in GroupSet : \A tx : WindInput(w, g, tx) \in S
<1>1. w \in Wallets /\ w \in WalletType
  BY DEF Wallets
<1>2. w.nfts \in Seq(GroupSet)
  BY <1>1 DEF WalletType
<1>3. ASSUME NEW g \in GroupsOf(Good) PROVE WindOutput(w, g, id, ord) \in S
  <2>1. g \in Seq(Good) /\ Len(g) \in {1, 3} /\ g[1] \in Good /\ g \in GroupSet
    BY DEF GroupSet, GroupsOf
  <2>2. PICK more : more = Append(w.nfts, g)
    OBVIOUS
  <2>3. more \in Seq(GroupSet)
    BY <1>2, <2>1, <2>2
  <2>4. [w EXCEPT !.nfts = more] \in S
    BY <2>3, Zenon DEF Closed
  <2>5. [w EXCEPT !.nfts = Append(@, g)] = [w EXCEPT !.nfts = more]
    BY <1>1, <2>2 DEF WalletType
  <2>6. AddSlip(w, id, ord, g[1]) \in S
    BY <2>1, Zenon DEF Closed
  <2> QED BY <2>4, <2>5, <2>6, Zenon DEF WindOutput
<1>4. ASSUME NEW g \in GroupSet, NEW tx PROVE WindInput(w, g, tx) \in S
  <2>1. [w EXCEPT !.nfts = RemoveNft(@, tx.ins[3])] \in S
    <3>1. PICK less : less = RemoveNft(w.nfts, tx.ins[3])
      OBVIOUS
    <3>2. less \in Seq(GroupSet)
      BY <1>2, <3>1, RemoveNftStays
    <3>3. [w EXCEPT !.nfts = RemoveNft(@, tx.ins[3])] = [w EXCEPT !.nfts = less]
      BY <1>1, <3>1 DEF WalletType
    <3>4. [w EXCEPT !.nfts = less] \in S
      BY <3>2, Zenon DEF Closed
    <3> QED BY <3>3, <3>4
  <2>2. DeleteSlip(w, g[1]) \in S
    BY DEF Closed, Deletes
  <2>3. \A u \in S : [u EXCEPT !.pending = {t \in @ : ~SameTx(t, tx)}] \in S
    <3> TAKE u \in S
    <3>1. u \in WalletType
      BY DEF Wallets
    <3>2. PICK pending : pending = {t \in u.pending : ~SameTx(t, tx)}
      OBVIOUS
    <3>3. pending \in SUBSET u.pending
      BY <3>2
    <3>4. [u EXCEPT !.pending = {t \in @ : ~SameTx(t, tx)}] = [u EXCEPT !.pending = pending]
      BY <3>1, <3>2 DEF WalletType
    <3>5. [u EXCEPT !.pending = pending] \in S
      BY <3>3, Zenon DEF Closed
    <3> QED BY <3>4, <3>5
  <2> QED BY <2>1, <2>2, <2>3, Zenon DEF WindInput
<1> QED BY <1>3, <1>4

\* And a group of a block that leaves it.
LEMMA GroupLeaves ==
    ASSUME NEW w \in Wallets, NEW g \in GroupSet
    PROVE  /\ UnwindOutput(w, g) \in Wallets
           /\ \A id, ord \in Nat : UnwindInput(w, g, id, ord) \in Wallets
<1>1. w \in WalletType /\ g[1] \in Slips
  BY DEF Wallets, GroupSet, GroupsOf
<1>2. w.nfts \in Seq(GroupSet)
  BY <1>1 DEF WalletType
<1>3. [w EXCEPT !.nfts = Append(@, g)] \in Wallets
  <2>1. PICK more : more = Append(w.nfts, g)
    OBVIOUS
  <2>2. more \in Seq(GroupSet)
    BY <1>2, <2>1
  <2>3. [w EXCEPT !.nfts = Append(@, g)] = [w EXCEPT !.nfts = more]
    BY <1>1, <2>1 DEF WalletType
  <2> QED BY <2>2, <2>3, OthersStay
<1>4. [w EXCEPT !.nfts = RemoveNft(@, g[2])] \in Wallets
  <2>1. PICK less : less = RemoveNft(w.nfts, g[2])
    OBVIOUS
  <2>2. less \in Seq(GroupSet)
    BY <1>2, <2>1, RemoveNftStays
  <2>3. [w EXCEPT !.nfts = RemoveNft(@, g[2])] = [w EXCEPT !.nfts = less]
    BY <1>1, <2>1 DEF WalletType
  <2> QED BY <2>2, <2>3, OthersStay
<1>5. /\ \A id, ord \in Nat : AddSlip(w, id, ord, g[1]) \in Wallets
      /\ DeleteSlip(w, g[1]) \in Wallets
  BY <1>1, AddSlipStays, DeleteSlipStays
<1>6. UnwindOutput(w, g) \in Wallets
  BY <1>4, <1>5, Zenon DEF UnwindOutput
<1>7. \A id, ord \in Nat : UnwindInput(w, g, id, ord) \in Wallets
  BY <1>3, <1>5, Zenon DEF UnwindInput
<1> QED BY <1>6, <1>7

\* What the groups of a transaction do.
WindOutputs(w, groups, id, ord) == FoldLeft(LAMBDA v, g : WindOutput(v, g, id, ord), w, groups)
WindInputs(w, groups, tx) == FoldLeft(LAMBDA v, g : WindInput(v, g, tx), w, groups)
UnwindOutputs(w, groups) == FoldLeft(LAMBDA v, g : UnwindOutput(v, g), w, groups)
UnwindInputs(w, groups, id, ord) == FoldLeft(LAMBDA v, g : UnwindInput(v, g, id, ord), w, groups)

\* Outputs that come in.
LEMMA WindOutputsStay ==
    ASSUME NEW S \in SUBSET Wallets, NEW Good \in SUBSET Slips, NEW id, NEW ord,
           Closed(S, Good, id, ord), NEW w \in S, NEW groups \in Seq(GroupsOf(Good))
    PROVE  WindOutputs(w, groups, id, ord) \in S
<1> DEFINE n == Len(groups)
           D == 1 .. n
           Op(v, x) == WindOutput(v, x, id, ord)
           fold == CHOOSE g : g = [t \in SUBSET D |->
                      IF t = {} THEN w ELSE Op(g[t \ {Max(t)}], groups[Max(t)])]
           step == [e \in S \X D |-> Op(e[1], groups[e[2]])]
<1>1. w \in S
  OBVIOUS
<1>2. n \in Nat /\ DOMAIN groups = D /\ \A i \in D : groups[i] \in GroupsOf(Good)
  OBVIOUS
<1>3. WindOutputs(w, groups, id, ord) = fold[D]
  BY <1>2, Zenon DEF WindOutputs, FoldLeft, MapThenFoldSet
<1>4. \A v \in S, i \in D : Op(v, groups[i]) \in S
  BY <1>2, GroupStays
<1> HIDE DEF Op
<1>5. step \in [S \X D -> S]
  BY <1>4
<1>6. PICK g \in [SUBSET D -> S] : FoldsUp(g, n, w, step)
  <2>1. w \in S /\ n \in Nat /\ step \in [S \X (1 .. n) -> S]
    BY <1>1, <1>2, <1>5
  <2> HIDE DEF step, n, fold
  <2> QED BY <2>1, FoldWitness
<1>7. \A t \in SUBSET D : t # {} => Max(t) \in D
  BY <1>2, MaxExists
<1>8. \A t \in SUBSET D :
        t # {} => step[<<g[t \ {Max(t)}], Max(t)>>] = Op(g[t \ {Max(t)}], groups[Max(t)])
  BY <1>6, <1>7
<1>9. g = [t \in SUBSET D |->
             IF t = {} THEN w ELSE Op(g[t \ {Max(t)}], groups[Max(t)])]
  <2> HIDE DEF step
  <2> QED BY <1>6, <1>8 DEF FoldsUp
<1>10. fold = [t \in SUBSET D |->
                IF t = {} THEN w ELSE Op(fold[t \ {Max(t)}], groups[Max(t)])]
  BY <1>9
<1> HIDE DEF fold
<1>11. \A k \in 1 .. n : fold[1 .. k - 1] \in S => fold[1 .. k] \in S
  <2> SUFFICES ASSUME NEW k \in 1 .. n, fold[1 .. k - 1] \in S PROVE fold[1 .. k] \in S
    OBVIOUS
  <2>1. /\ 1 .. k \in SUBSET D /\ 1 .. k # {}
        /\ Max(1 .. k) = k /\ (1 .. k) \ {Max(1 .. k)} = 1 .. k - 1
    BY <1>2, FirstPositions
  <2>2. fold[1 .. k] = Op(fold[1 .. k - 1], groups[k])
    BY <1>10, <2>1
  <2>3. k \in D /\ fold[1 .. k - 1] \in S
    OBVIOUS
  <2> HIDE DEF D
  <2> QED BY <1>4, <2>2, <2>3
<1>12. fold[{}] \in S
  BY <1>1, <1>10
<1>13. fold[D] \in S
  BY <1>2, <1>11, <1>12, FoldTyped
<1> QED BY <1>3, <1>13

\* Inputs that go out.
LEMMA WindInputsStay ==
    ASSUME NEW S \in SUBSET Wallets, NEW Good \in SUBSET Slips, NEW id, NEW ord,
           Closed(S, Good, id, ord), NEW w \in S, NEW groups \in Seq(GroupSet), NEW tx
    PROVE  WindInputs(w, groups, tx) \in S
<1> DEFINE n == Len(groups)
           D == 1 .. n
           Op(v, x) == WindInput(v, x, tx)
           fold == CHOOSE g : g = [t \in SUBSET D |->
                      IF t = {} THEN w ELSE Op(g[t \ {Max(t)}], groups[Max(t)])]
           step == [e \in S \X D |-> Op(e[1], groups[e[2]])]
<1>1. w \in S
  OBVIOUS
<1>2. n \in Nat /\ DOMAIN groups = D /\ \A i \in D : groups[i] \in GroupSet
  OBVIOUS
<1>3. WindInputs(w, groups, tx) = fold[D]
  BY <1>2, Zenon DEF WindInputs, FoldLeft, MapThenFoldSet
<1>4. \A v \in S, i \in D : Op(v, groups[i]) \in S
  BY <1>2, GroupStays
<1> HIDE DEF Op
<1>5. step \in [S \X D -> S]
  BY <1>4
<1>6. PICK g \in [SUBSET D -> S] : FoldsUp(g, n, w, step)
  <2>1. w \in S /\ n \in Nat /\ step \in [S \X (1 .. n) -> S]
    BY <1>1, <1>2, <1>5
  <2> HIDE DEF step, n, fold
  <2> QED BY <2>1, FoldWitness
<1>7. \A t \in SUBSET D : t # {} => Max(t) \in D
  BY <1>2, MaxExists
<1>8. \A t \in SUBSET D :
        t # {} => step[<<g[t \ {Max(t)}], Max(t)>>] = Op(g[t \ {Max(t)}], groups[Max(t)])
  BY <1>6, <1>7
<1>9. g = [t \in SUBSET D |->
             IF t = {} THEN w ELSE Op(g[t \ {Max(t)}], groups[Max(t)])]
  <2> HIDE DEF step
  <2> QED BY <1>6, <1>8 DEF FoldsUp
<1>10. fold = [t \in SUBSET D |->
                IF t = {} THEN w ELSE Op(fold[t \ {Max(t)}], groups[Max(t)])]
  BY <1>9
<1> HIDE DEF fold
<1>11. \A k \in 1 .. n : fold[1 .. k - 1] \in S => fold[1 .. k] \in S
  <2> SUFFICES ASSUME NEW k \in 1 .. n, fold[1 .. k - 1] \in S PROVE fold[1 .. k] \in S
    OBVIOUS
  <2>1. /\ 1 .. k \in SUBSET D /\ 1 .. k # {}
        /\ Max(1 .. k) = k /\ (1 .. k) \ {Max(1 .. k)} = 1 .. k - 1
    BY <1>2, FirstPositions
  <2>2. fold[1 .. k] = Op(fold[1 .. k - 1], groups[k])
    BY <1>10, <2>1
  <2>3. k \in D /\ fold[1 .. k - 1] \in S
    OBVIOUS
  <2> HIDE DEF D
  <2> QED BY <1>4, <2>2, <2>3
<1>12. fold[{}] \in S
  BY <1>1, <1>10
<1>13. fold[D] \in S
  BY <1>2, <1>11, <1>12, FoldTyped
<1> QED BY <1>3, <1>13

\* Outputs that go.
LEMMA UnwindOutputsStay ==
    ASSUME NEW w \in Wallets, NEW groups \in Seq(GroupSet)
    PROVE  UnwindOutputs(w, groups) \in Wallets
<1> DEFINE n == Len(groups)
           D == 1 .. n
           Op(v, x) == UnwindOutput(v, x)
           fold == CHOOSE g : g = [t \in SUBSET D |->
                      IF t = {} THEN w ELSE Op(g[t \ {Max(t)}], groups[Max(t)])]
           step == [e \in Wallets \X D |-> Op(e[1], groups[e[2]])]
<1>1. w \in Wallets
  OBVIOUS
<1>2. n \in Nat /\ DOMAIN groups = D /\ \A i \in D : groups[i] \in GroupSet
  OBVIOUS
<1>3. UnwindOutputs(w, groups) = fold[D]
  BY <1>2, Zenon DEF UnwindOutputs, FoldLeft, MapThenFoldSet
<1>4. \A v \in Wallets, i \in D : Op(v, groups[i]) \in Wallets
  BY <1>2, GroupLeaves
<1> HIDE DEF Op
<1>5. step \in [Wallets \X D -> Wallets]
  BY <1>4
<1>6. PICK g \in [SUBSET D -> Wallets] : FoldsUp(g, n, w, step)
  <2>1. w \in Wallets /\ n \in Nat /\ step \in [Wallets \X (1 .. n) -> Wallets]
    BY <1>1, <1>2, <1>5
  <2> HIDE DEF step, n, fold
  <2> QED BY <2>1, FoldWitness
<1>7. \A t \in SUBSET D : t # {} => Max(t) \in D
  BY <1>2, MaxExists
<1>8. \A t \in SUBSET D :
        t # {} => step[<<g[t \ {Max(t)}], Max(t)>>] = Op(g[t \ {Max(t)}], groups[Max(t)])
  BY <1>6, <1>7
<1>9. g = [t \in SUBSET D |->
             IF t = {} THEN w ELSE Op(g[t \ {Max(t)}], groups[Max(t)])]
  <2> HIDE DEF step
  <2> QED BY <1>6, <1>8 DEF FoldsUp
<1>10. fold = [t \in SUBSET D |->
                IF t = {} THEN w ELSE Op(fold[t \ {Max(t)}], groups[Max(t)])]
  BY <1>9
<1> HIDE DEF fold
<1>11. \A k \in 1 .. n : fold[1 .. k - 1] \in Wallets => fold[1 .. k] \in Wallets
  <2> SUFFICES ASSUME NEW k \in 1 .. n, fold[1 .. k - 1] \in Wallets PROVE fold[1 .. k] \in Wallets
    OBVIOUS
  <2>1. /\ 1 .. k \in SUBSET D /\ 1 .. k # {}
        /\ Max(1 .. k) = k /\ (1 .. k) \ {Max(1 .. k)} = 1 .. k - 1
    BY <1>2, FirstPositions
  <2>2. fold[1 .. k] = Op(fold[1 .. k - 1], groups[k])
    BY <1>10, <2>1
  <2>3. k \in D /\ fold[1 .. k - 1] \in Wallets
    OBVIOUS
  <2> HIDE DEF D
  <2> QED BY <1>4, <2>2, <2>3
<1>12. fold[{}] \in Wallets
  BY <1>1, <1>10
<1>13. fold[D] \in Wallets
  BY <1>2, <1>11, <1>12, FoldTyped
<1> QED BY <1>3, <1>13

\* Inputs that come back.
LEMMA UnwindInputsStay ==
    ASSUME NEW w \in Wallets, NEW groups \in Seq(GroupSet), NEW id \in Nat, NEW ord \in Nat
    PROVE  UnwindInputs(w, groups, id, ord) \in Wallets
<1> DEFINE n == Len(groups)
           D == 1 .. n
           Op(v, x) == UnwindInput(v, x, id, ord)
           fold == CHOOSE g : g = [t \in SUBSET D |->
                      IF t = {} THEN w ELSE Op(g[t \ {Max(t)}], groups[Max(t)])]
           step == [e \in Wallets \X D |-> Op(e[1], groups[e[2]])]
<1>1. w \in Wallets
  OBVIOUS
<1>2. n \in Nat /\ DOMAIN groups = D /\ \A i \in D : groups[i] \in GroupSet
  OBVIOUS
<1>3. UnwindInputs(w, groups, id, ord) = fold[D]
  BY <1>2, Zenon DEF UnwindInputs, FoldLeft, MapThenFoldSet
<1>4. \A v \in Wallets, i \in D : Op(v, groups[i]) \in Wallets
  BY <1>2, GroupLeaves
<1> HIDE DEF Op
<1>5. step \in [Wallets \X D -> Wallets]
  BY <1>4
<1>6. PICK g \in [SUBSET D -> Wallets] : FoldsUp(g, n, w, step)
  <2>1. w \in Wallets /\ n \in Nat /\ step \in [Wallets \X (1 .. n) -> Wallets]
    BY <1>1, <1>2, <1>5
  <2> HIDE DEF step, n, fold
  <2> QED BY <2>1, FoldWitness
<1>7. \A t \in SUBSET D : t # {} => Max(t) \in D
  BY <1>2, MaxExists
<1>8. \A t \in SUBSET D :
        t # {} => step[<<g[t \ {Max(t)}], Max(t)>>] = Op(g[t \ {Max(t)}], groups[Max(t)])
  BY <1>6, <1>7
<1>9. g = [t \in SUBSET D |->
             IF t = {} THEN w ELSE Op(g[t \ {Max(t)}], groups[Max(t)])]
  <2> HIDE DEF step
  <2> QED BY <1>6, <1>8 DEF FoldsUp
<1>10. fold = [t \in SUBSET D |->
                IF t = {} THEN w ELSE Op(fold[t \ {Max(t)}], groups[Max(t)])]
  BY <1>9
<1> HIDE DEF fold
<1>11. \A k \in 1 .. n : fold[1 .. k - 1] \in Wallets => fold[1 .. k] \in Wallets
  <2> SUFFICES ASSUME NEW k \in 1 .. n, fold[1 .. k - 1] \in Wallets PROVE fold[1 .. k] \in Wallets
    OBVIOUS
  <2>1. /\ 1 .. k \in SUBSET D /\ 1 .. k # {}
        /\ Max(1 .. k) = k /\ (1 .. k) \ {Max(1 .. k)} = 1 .. k - 1
    BY <1>2, FirstPositions
  <2>2. fold[1 .. k] = Op(fold[1 .. k - 1], groups[k])
    BY <1>10, <2>1
  <2>3. k \in D /\ fold[1 .. k - 1] \in Wallets
    OBVIOUS
  <2> HIDE DEF D
  <2> QED BY <1>4, <2>2, <2>3
<1>12. fold[{}] \in Wallets
  BY <1>1, <1>10
<1>13. fold[D] \in Wallets
  BY <1>2, <1>11, <1>12, FoldTyped
<1> QED BY <1>3, <1>13

\* A transaction that joins the chain.
LEMMA WindTxStays ==
    ASSUME NEW S \in SUBSET Wallets, NEW Good \in SUBSET Slips, NEW id, NEW ord,
           Closed(S, Good, id, ord), NEW w \in S, NEW tx \in TxSet, tx.outs \in Seq(Good)
    PROVE  WindTx(w, tx, id, ord) \in S
<1>1. Groups(tx.outs) \in Seq(GroupsOf(Good))
  BY GroupsType
<1>2. Groups(tx.ins) \in Seq(GroupSet)
  BY GroupsType DEF TxSet, GroupSet
<1>3. PICK came : came = WindOutputs(w, Groups(tx.outs), id, ord)
  OBVIOUS
<1>4. came \in S
  BY <1>1, <1>3, WindOutputsStay
<1>5. PICK moved : moved = WindInputs(came, Groups(tx.ins), tx)
  OBVIOUS
<1>6. moved \in S
  BY <1>2, <1>4, <1>5, WindInputsStay
<1>7. WindTx(w, tx, id, ord) =
        IF id > GenesisPeriod THEN RemoveOldSlips(moved, id - GenesisPeriod) ELSE moved
  BY <1>3, <1>5, Zenon DEF WindTx, WindOutputs, WindInputs
<1>8. Deletes(S)
  BY DEF Closed
<1>9. RemoveOldSlips(moved, id - GenesisPeriod) \in S
  BY <1>6, <1>8, RemoveOldStays
<1> QED BY <1>6, <1>7, <1>9, Zenon

\* A transaction that leaves it.
LEMMA UnwindTxStays ==
    ASSUME NEW w \in Wallets, NEW tx \in TxSet, NEW id \in Nat, NEW ord \in Nat
    PROVE  UnwindTx(w, tx, id, ord) \in Wallets
<1>1. Groups(tx.outs) \in Seq(GroupSet) /\ Groups(tx.ins) \in Seq(GroupSet)
  BY GroupsType DEF TxSet, GroupSet
<1>2. PICK gone : gone = UnwindOutputs(w, Groups(tx.outs))
  OBVIOUS
<1>3. gone \in Wallets
  BY <1>1, <1>2, UnwindOutputsStay
<1>4. UnwindInputs(gone, Groups(tx.ins), id, ord) \in Wallets
  BY <1>1, <1>3, UnwindInputsStay
<1>5. UnwindTx(w, tx, id, ord) = UnwindInputs(gone, Groups(tx.ins), id, ord)
  BY <1>2, Zenon DEF UnwindTx, UnwindOutputs, UnwindInputs
<1> QED BY <1>4, <1>5

\* Every transaction of the block stays in S.
WindsIn(S, txs, id) ==
    \A i \in 1 .. Len(txs) :
        \E Good \in SUBSET Slips : Closed(S, Good, id, i - 1) /\ txs[i].outs \in Seq(Good)

\* And so does the block.
LEMMA WindWalletStays ==
    ASSUME NEW S \in SUBSET Wallets, NEW w \in S, NEW txs \in Seq(TxSet), NEW id,
           WindsIn(S, txs, id)
    PROVE  WindWallet(w, txs, id) \in S
<1> DEFINE idx == [i \in 1 .. Len(txs) |-> i]
           n == Len(idx)
           D == 1 .. n
           Op(v, x) == WindTx(v, txs[x], id, x - 1)
           fold == CHOOSE g : g = [t \in SUBSET D |->
                      IF t = {} THEN w ELSE Op(g[t \ {Max(t)}], idx[Max(t)])]
           step == [e \in S \X D |-> Op(e[1], idx[e[2]])]
<1>1. w \in S
  OBVIOUS
<1>2. n \in Nat /\ DOMAIN idx = D /\ \A i \in D : idx[i] \in 1 .. Len(txs)
  OBVIOUS
<1>3. WindWallet(w, txs, id) = fold[D]
  BY <1>2, Zenon DEF WindWallet, FoldLeft, MapThenFoldSet
<1>4. \A v \in S, i \in D : Op(v, idx[i]) \in S
  BY <1>2, WindTxStays DEF WindsIn
<1> HIDE DEF Op
<1>5. step \in [S \X D -> S]
  BY <1>4
<1>6. PICK g \in [SUBSET D -> S] : FoldsUp(g, n, w, step)
  <2>1. w \in S /\ n \in Nat /\ step \in [S \X (1 .. n) -> S]
    BY <1>1, <1>2, <1>5
  <2> HIDE DEF step, n, fold
  <2> QED BY <2>1, FoldWitness
<1>7. \A t \in SUBSET D : t # {} => Max(t) \in D
  BY <1>2, MaxExists
<1>8. \A t \in SUBSET D :
        t # {} => step[<<g[t \ {Max(t)}], Max(t)>>] = Op(g[t \ {Max(t)}], idx[Max(t)])
  BY <1>6, <1>7
<1>9. g = [t \in SUBSET D |->
             IF t = {} THEN w ELSE Op(g[t \ {Max(t)}], idx[Max(t)])]
  <2> HIDE DEF step
  <2> QED BY <1>6, <1>8 DEF FoldsUp
<1>10. fold = [t \in SUBSET D |->
                IF t = {} THEN w ELSE Op(fold[t \ {Max(t)}], idx[Max(t)])]
  BY <1>9
<1> HIDE DEF fold
<1>11. \A k \in 1 .. n : fold[1 .. k - 1] \in S => fold[1 .. k] \in S
  <2> SUFFICES ASSUME NEW k \in 1 .. n, fold[1 .. k - 1] \in S PROVE fold[1 .. k] \in S
    OBVIOUS
  <2>1. /\ 1 .. k \in SUBSET D /\ 1 .. k # {}
        /\ Max(1 .. k) = k /\ (1 .. k) \ {Max(1 .. k)} = 1 .. k - 1
    BY <1>2, FirstPositions
  <2>2. fold[1 .. k] = Op(fold[1 .. k - 1], idx[k])
    BY <1>10, <2>1
  <2>3. k \in D /\ fold[1 .. k - 1] \in S
    OBVIOUS
  <2> HIDE DEF D
  <2> QED BY <1>4, <2>2, <2>3
<1>12. fold[{}] \in S
  BY <1>1, <1>10
<1>13. fold[D] \in S
  BY <1>2, <1>11, <1>12, FoldTyped
<1> QED BY <1>3, <1>13

\* A block that leaves it.
LEMMA UnwindWalletStays ==
    ASSUME NEW w \in Wallets, NEW txs \in Seq(TxSet), NEW id \in Nat
    PROVE  UnwindWallet(w, txs, id) \in Wallets
<1> DEFINE idx == [i \in 1 .. Len(txs) |-> i]
           n == Len(idx)
           D == 1 .. n
           Op(v, x) == UnwindTx(v, txs[x], id, x - 1)
           fold == CHOOSE g : g = [t \in SUBSET D |->
                      IF t = {} THEN w ELSE Op(g[t \ {Max(t)}], idx[Max(t)])]
           step == [e \in Wallets \X D |-> Op(e[1], idx[e[2]])]
<1>1. w \in Wallets
  OBVIOUS
<1>2. n \in Nat /\ DOMAIN idx = D /\ \A i \in D : idx[i] \in 1 .. Len(txs)
  OBVIOUS
<1>3. UnwindWallet(w, txs, id) = fold[D]
  BY <1>2, Zenon DEF UnwindWallet, FoldLeft, MapThenFoldSet
<1>4. \A v \in Wallets, i \in D : Op(v, idx[i]) \in Wallets
  BY <1>2, UnwindTxStays
<1> HIDE DEF Op
<1>5. step \in [Wallets \X D -> Wallets]
  BY <1>4
<1>6. PICK g \in [SUBSET D -> Wallets] : FoldsUp(g, n, w, step)
  <2>1. w \in Wallets /\ n \in Nat /\ step \in [Wallets \X (1 .. n) -> Wallets]
    BY <1>1, <1>2, <1>5
  <2> HIDE DEF step, n, fold
  <2> QED BY <2>1, FoldWitness
<1>7. \A t \in SUBSET D : t # {} => Max(t) \in D
  BY <1>2, MaxExists
<1>8. \A t \in SUBSET D :
        t # {} => step[<<g[t \ {Max(t)}], Max(t)>>] = Op(g[t \ {Max(t)}], idx[Max(t)])
  BY <1>6, <1>7
<1>9. g = [t \in SUBSET D |->
             IF t = {} THEN w ELSE Op(g[t \ {Max(t)}], idx[Max(t)])]
  <2> HIDE DEF step
  <2> QED BY <1>6, <1>8 DEF FoldsUp
<1>10. fold = [t \in SUBSET D |->
                IF t = {} THEN w ELSE Op(fold[t \ {Max(t)}], idx[Max(t)])]
  BY <1>9
<1> HIDE DEF fold
<1>11. \A k \in 1 .. n : fold[1 .. k - 1] \in Wallets => fold[1 .. k] \in Wallets
  <2> SUFFICES ASSUME NEW k \in 1 .. n, fold[1 .. k - 1] \in Wallets PROVE fold[1 .. k] \in Wallets
    OBVIOUS
  <2>1. /\ 1 .. k \in SUBSET D /\ 1 .. k # {}
        /\ Max(1 .. k) = k /\ (1 .. k) \ {Max(1 .. k)} = 1 .. k - 1
    BY <1>2, FirstPositions
  <2>2. fold[1 .. k] = Op(fold[1 .. k - 1], idx[k])
    BY <1>10, <2>1
  <2>3. k \in D /\ fold[1 .. k - 1] \in Wallets
    OBVIOUS
  <2> HIDE DEF D
  <2> QED BY <1>4, <2>2, <2>3
<1>12. fold[{}] \in Wallets
  BY <1>1, <1>10
<1>13. fold[D] \in Wallets
  BY <1>2, <1>11, <1>12, FoldTyped
<1> QED BY <1>3, <1>13

\* Whatever a block holds, wallets stay wallets.
LEMMA AnyWinds ==
    ASSUME NEW txs \in Seq(TxSet), NEW id \in Nat
    PROVE  WindsIn(Wallets, txs, id)
<1> SUFFICES ASSUME NEW i \in 1 .. Len(txs)
             PROVE  Closed(Wallets, Slips, id, i - 1) /\ txs[i].outs \in Seq(Slips)
  <2>1. Slips \in SUBSET Slips
    OBVIOUS
  <2> QED BY <2>1, Zenon DEF WindsIn
<1>1. i - 1 \in Nat /\ txs[i] \in TxSet
  OBVIOUS
<1> QED BY <1>1, WalletsClosed DEF TxSet

-----------------------------------------------------------------------------
(* Transactions the wallet makes.                                          *)

\* A finite set as a sequence.
LEMMA SetToSeqType ==
    ASSUME NEW S, IsFiniteSet(S)
    PROVE  SetToSeq(S) \in Seq(S)
<1>1. Cardinality(S) \in Nat /\ ExistsBijection(1 .. Cardinality(S), S)
  BY FS_CardinalityType
<1>2. PICK f \in [1 .. Cardinality(S) -> S] : IsInjective(f)
  <2>1. PICK f : f \in Bijection(1 .. Cardinality(S), S)
    BY <1>1 DEF ExistsBijection
  <2>2. f \in [1 .. Cardinality(S) -> S]
    BY <2>1 DEF Bijection, Injection
  <2>3. \A a, b \in 1 .. Cardinality(S) : f[a] = f[b] => a = b
    BY <2>1 DEF Bijection, Injection, IsInjective
  <2>4. DOMAIN f = 1 .. Cardinality(S)
    BY <2>2
  <2>5. IsInjective(f)
    BY <2>3, <2>4 DEF IsInjective
  <2> QED BY <2>2, <2>5
<1>3. SetToSeq(S) \in [1 .. Cardinality(S) -> S]
  BY <1>2 DEF SetToSeq
<1> QED BY <1>1, <1>3

\* A slip before it has a place.
LEMMA NewSlipType ==
    ASSUME NEW owner \in Owners, NEW amount \in Int, NEW type \in SlipTypes
    PROVE  NewSlip(owner, amount, type) \in Slips
BY DEF NewSlip, Slip, Slips

\* The same for a transaction.
LEMMA TxType ==
    ASSUME NEW type \in TxTypes, NEW ins \in Seq(Slips), NEW outs \in Seq(Slips)
    PROVE  /\ Tx(type, ins, outs, 0) \in TxSet
           /\ Tx(type, ins, outs, 0).type = type /\ Tx(type, ins, outs, 0).ins = ins
BY DEF Tx, TxSet

\* A transaction in a block tells its outputs where they are, and changes nothing else.
LEMMA PlacedType ==
    ASSUME NEW tx \in TxSet, NEW ord \in Nat, NEW id \in Nat
    PROVE  /\ Placed(tx, ord, id) \in TxSet
           /\ Placed(tx, ord, id).outs \in Seq({s \in OfBlock(id) : s.ord = ord})
           /\ Placed(tx, ord, id).type = tx.type /\ Placed(tx, ord, id).ins = tx.ins
<1> DEFINE outs == [k \in 1 .. Len(tx.outs) |->
                      [tx.outs[k] EXCEPT !.id = id, !.ord = ord, !.idx = k - 1]]
<1>1. tx.outs \in Seq(Slips) /\ Len(tx.outs) \in Nat
  BY DEF TxSet
<1>2. \A k \in 1 .. Len(tx.outs) : outs[k] \in {s \in OfBlock(id) : s.ord = ord}
  <2> SUFFICES ASSUME NEW k \in 1 .. Len(tx.outs)
               PROVE  outs[k] \in {s \in OfBlock(id) : s.ord = ord}
    OBVIOUS
  <2>1. tx.outs[k] \in Slips /\ k - 1 \in Nat
    BY <1>1
  <2>2. outs[k] = [tx.outs[k] EXCEPT !.id = id, !.ord = ord, !.idx = k - 1]
    OBVIOUS
  <2> HIDE DEF outs
  <2>3. outs[k] \in Slips /\ outs[k].id = id /\ outs[k].ord = ord
    BY <2>1, <2>2 DEF Slips
  <2> QED BY <2>3 DEF OfBlock
<1>3. outs \in Seq({s \in OfBlock(id) : s.ord = ord}) /\ outs \in Seq(Slips)
  <2>1. outs = [k \in 1 .. Len(tx.outs) |-> outs[k]]
    OBVIOUS
  <2> HIDE DEF outs
  <2>2. PICK good : good = {s \in OfBlock(id) : s.ord = ord}
    OBVIOUS
  <2>3. outs \in [1 .. Len(tx.outs) -> good]
    BY <1>2, <2>1, <2>2
  <2>4. outs \in Seq(good) /\ good \subseteq Slips
    BY <1>1, <2>2, <2>3 DEF OfBlock
  <2> QED BY <2>2, <2>4
<1>4. Placed(tx, ord, id) = [tx EXCEPT !.outs = outs]
  BY DEF Placed
<1> HIDE DEF outs
<1> QED BY <1>3, <1>4 DEF TxSet

\* The transactions of a block, and what they make of a wallet.
LEMMA AllPlacedType ==
    ASSUME NEW txs \in Seq(TxSet), NEW id \in Nat
    PROVE  /\ AllPlaced(txs, id) \in Seq(TxSet)
           /\ \A w \in Wallets : WindsIn(From(w, id), AllPlaced(txs, id), id)
<1>1. PICK all : all = AllPlaced(txs, id)
  OBVIOUS
<1>2. all = [i \in 1 .. Len(txs) |-> Placed(txs[i], i - 1, id)] /\ Len(txs) \in Nat
  BY <1>1 DEF AllPlaced
<1>3. \A i \in 1 .. Len(txs) :
         /\ all[i] \in TxSet
         /\ all[i].outs \in Seq({s \in OfBlock(id) : s.ord = i - 1})
  <2> TAKE i \in 1 .. Len(txs)
  <2>1. txs[i] \in TxSet /\ i - 1 \in Nat /\ all[i] = Placed(txs[i], i - 1, id)
    BY <1>2
  <2> QED BY <2>1, PlacedType
<1>4. all \in Seq(TxSet) /\ Len(all) = Len(txs)
  <2>1. all \in [1 .. Len(txs) -> TxSet]
    BY <1>2, <1>3
  <2> QED BY <1>2, <2>1
<1>5. ASSUME NEW w \in Wallets PROVE WindsIn(From(w, id), all, id)
  <2> SUFFICES ASSUME NEW i \in 1 .. Len(all)
               PROVE  \E Good \in SUBSET Slips :
                        Closed(From(w, id), Good, id, i - 1) /\ all[i].outs \in Seq(Good)
    BY DEF WindsIn
  <2>1. i - 1 \in Nat
    OBVIOUS
  <2>2. PICK good : good = {s \in OfBlock(id) : s.ord = i - 1}
    OBVIOUS
  <2>3. good \in SUBSET Slips
    BY <2>2 DEF OfBlock
  <2>4. Closed(From(w, id), good, id, i - 1)
    BY <2>1, <2>2, FromClosed
  <2>5. all[i].outs \in Seq(good)
    BY <1>3, <1>4, <2>2
  <2> QED BY <2>3, <2>4, <2>5
<1> QED BY <1>1, <1>4, <1>5

\* What making a transaction leaves of a wallet.
Kept(w, u) == u.slips = w.slips /\ u.pending = w.pending /\ u.unspent \subseteq w.unspent

\* Every slip is where it says.
AtHome(w) == \A s \in DOMAIN w.slips : w.slips[s] = <<s.id, s.ord>>

\* What a transaction takes leaves the balance with the unspent slips.
LEMMA TakeStays ==
    ASSUME NEW w \in Wallets, NEW picked \in SUBSET w.unspent, NEW stakes
    PROVE  /\ Take(w, picked) \in Wallets
           /\ [Take(w, picked) EXCEPT !.staking = @ \ stakes] \in Wallets
           /\ Kept(w, Take(w, picked)) /\ Take(w, picked).unspent = w.unspent \ picked
           /\ Kept(w, [Take(w, picked) EXCEPT !.staking = @ \ stakes])
<1>1. w \in WalletType /\ Balanced(w)
  BY DEF Wallets
<1>2. PICK unspent : unspent = w.unspent \ picked
  OBVIOUS
<1>3. PICK balance : balance = w.balance - Worth(picked)
  OBVIOUS
<1>4. balance \in Int /\ balance = Worth(unspent)
  <2>1. IsFiniteSet(w.unspent) /\ w.unspent \in SUBSET Slips /\ w.balance = Worth(w.unspent)
    BY <1>1, WalletFacts DEF WalletType
  <2>2. Worth(unspent) = Worth(w.unspent) - Worth(picked)
    BY <1>2, <2>1, WorthMinus
  <2>3. IsFiniteSet(unspent) /\ unspent \in SUBSET Slips
    BY <1>2, <2>1, FS_Subset
  <2>4. Worth(unspent) \in Int
    BY <2>3, WorthFirst
  <2> QED BY <1>3, <2>1, <2>2, <2>4
<1>5. PICK v : v = [w EXCEPT !.unspent = unspent, !.balance = balance]
  OBVIOUS
<1>6. Take(w, picked) = v
  BY <1>1, <1>2, <1>3, <1>5 DEF Take, WalletType
<1>7. unspent \in SUBSET Slips
  BY <1>1, <1>2 DEF WalletType
<1>8. /\ v \in WalletType
      /\ v.slips = w.slips /\ v.staking = w.staking /\ v.pending = w.pending
      /\ v.unspent = unspent /\ v.balance = balance
  BY <1>1, <1>4, <1>5, <1>7 DEF WalletType
<1>9. Balanced(v)
  BY <1>1, <1>2, <1>4, <1>8 DEF Balanced
<1>10. PICK u : u = [v EXCEPT !.staking = @ \ stakes]
  OBVIOUS
<1>11. PICK staking : staking = v.staking \ stakes
  OBVIOUS
<1>12. staking \in SUBSET Slips
  BY <1>8, <1>11 DEF WalletType
<1>13. u = [v EXCEPT !.staking = staking]
  BY <1>8, <1>10, <1>11 DEF WalletType
<1>14. /\ u \in WalletType
       /\ u.slips = v.slips /\ u.unspent = v.unspent /\ u.balance = v.balance
       /\ u.staking = staking /\ u.pending = v.pending
  BY <1>8, <1>12, <1>13 DEF WalletType
<1>15. Balanced(u)
  BY <1>9, <1>11, <1>14 DEF Balanced
<1>16. Kept(w, v) /\ v.unspent = w.unspent \ picked /\ Kept(w, u)
  BY <1>2, <1>8, <1>14 DEF Kept
<1>17. v \in Wallets /\ u \in Wallets
  BY <1>8, <1>9, <1>14, <1>15 DEF Wallets
<1> QED BY <1>6, <1>10, <1>16, <1>17

\* generate_slips: what it takes is no longer unspent.
LEMMA GeneratedType ==
    ASSUME NEW w \in Wallets, NEW requested \in Int, NEW tip,
           NEW g \in GenerateSlips(w, requested, tip)
    PROVE  /\ g.wallet \in Wallets /\ g.ins \in Seq(Slips) /\ g.change \in Slips
           /\ Kept(w, g.wallet)
           /\ AtHome(w) => Valued(g.ins) \subseteq w.unspent \ g.wallet.unspent
<1> DEFINE Inputs(picked) == {AsInput(w, s) : s \in picked}
           Ins(picked) == IF picked = {} THEN <<NewSlip(Me, 0, "Normal")>>
                          ELSE SetToSeq(Inputs(picked))
           Rest(picked) == IF Worth(picked) > requested THEN Worth(picked) - requested ELSE 0
<1>1. PICK picked \in Enough(Spendable(w, tip), requested) :
         /\ g.wallet = Take(w, picked)
         /\ g.ins = Ins(picked)
         /\ g.change = NewSlip(Me, Rest(picked), "Normal")
  BY DEF GenerateSlips
<1>2. picked \in SUBSET w.unspent
  BY <1>1 DEF Enough, Spendable
<1>3. IsFiniteSet(picked) /\ picked \in SUBSET Slips /\ picked \subseteq DOMAIN w.slips
  BY <1>2, WalletFacts, FS_Subset DEF Wallets, Balanced
<1>4. g.wallet \in Wallets /\ Kept(w, g.wallet) /\ g.wallet.unspent = w.unspent \ picked
  BY ZenonT(40), <1>1, <1>2, TakeStays
<1>5. Me \in Owners /\ "Normal" \in SlipTypes
  BY DEF Owners, SlipTypes
<1>6. g.change \in Slips
  <2>1. Worth(picked) \in Int
    BY <1>3, WorthFirst
  <2>2. Rest(picked) \in Int
    BY <2>1
  <2> HIDE DEF Rest
  <2> QED BY <1>1, <1>5, <2>2, NewSlipType
<1>7. g.ins \in Seq(Slips) /\ (AtHome(w) => Valued(g.ins) \subseteq picked)
  <2>1. CASE picked = {}
    <3>1. PICK slip : slip = NewSlip(Me, 0, "Normal")
      OBVIOUS
    <3>2. slip \in Slips
      BY <1>5, <3>1, NewSlipType
    <3>3. <<slip>> \in Seq(Slips)
      BY <3>2
    <3>4. Valued(<<slip>>) = {}
      <4>1. ~(slip.amount > 0)
        BY <3>1 DEF NewSlip, Slip
      <4> QED BY <4>1 DEF Valued
    <3> QED BY <1>1, <2>1, <3>1, <3>3, <3>4
  <2>2. CASE picked # {}
    <3>1. \A s \in picked : AsInput(w, s) \in Slips
      <4> TAKE s \in picked
      <4>1. s \in Slips /\ w.slips[s] \in Nat \X Nat
        BY <1>3, WalletFacts
      <4>2. w.slips[s][1] \in Nat /\ w.slips[s][2] \in Nat
        BY <4>1
      <4> QED BY <4>1, <4>2 DEF AsInput, Slips
    <3>2. IsFiniteSet(Inputs(picked))
      <4> DEFINE f == [s \in picked |-> AsInput(w, s)]
      <4>1. f \in Surjection(picked, Inputs(picked))
        BY DEF Surjection
      <4> HIDE DEF Inputs, f
      <4> QED BY <1>3, <4>1, FS_Surjection
    <3>3. Inputs(picked) \in SUBSET Slips
      BY <3>1
    <3>4. AtHome(w) => Inputs(picked) \subseteq picked
      <4> SUFFICES ASSUME AtHome(w), NEW s \in picked PROVE AsInput(w, s) = s
        OBVIOUS
      <4>1. s \in Slips /\ w.slips[s] = <<s.id, s.ord>>
        BY <1>3 DEF AtHome
      <4>2. w.slips[s][1] = s.id /\ w.slips[s][2] = s.ord
        BY <4>1
      <4> QED BY <4>1, <4>2 DEF AsInput, Slips
    <3> HIDE DEF Inputs
    <3>5. SetToSeq(Inputs(picked)) \in Seq(Inputs(picked))
      BY <3>2, SetToSeqType
    <3>6. SetToSeq(Inputs(picked)) \in Seq(Slips)
      BY <3>3, <3>5
    <3>7. Valued(SetToSeq(Inputs(picked))) \subseteq Inputs(picked)
      BY <3>5 DEF Valued
    <3> QED BY <1>1, <2>2, <3>4, <3>6, <3>7
  <2> QED BY <2>1, <2>2
<1> QED BY <1>2, <1>4, <1>6, <1>7

\* Transactions are signed where they are typed.
LEMMA SignedType ==
    ASSUME NEW tx \in TxSet
    PROVE  Sign(tx) \in TxSet /\ Sign(tx).type = tx.type /\ Sign(tx).ins = tx.ins
BY PlacedType DEF Sign

\* What a step of the user or of block production has to keep: what a payment spends
\* is not unspent any more.
MadeRight(w, r) ==
    /\ r.wallet \in Wallets /\ r.tx \in TxSet
    /\ Kept(w, r.wallet)
    /\ r.tx.type = "Normal" /\ AtHome(w) =>
          Valued(r.tx.ins) \subseteq w.unspent \ r.wallet.unspent

\* create_with_multiple_payments
LEMMA PaymentType ==
    ASSUME NEW w \in Wallets, NEW payment \in Nat \X Nat, NEW tip,
           NEW r \in PaymentsOf(w, payment, tip)
    PROVE  MadeRight(w, r)
<1> DEFINE fee == IF payment[2] > w.balance THEN 0 ELSE payment[2]
           total == payment[1] + fee
           out == NewSlip(Other, payment[1], "Normal")
           zero == NewSlip(Me, 0, "Normal")
<1>1. payment[1] \in Nat /\ payment[2] \in Nat /\ total \in Int
  OBVIOUS
<1>2. out \in Slips /\ zero \in Slips
  <2>1. Other \in Owners /\ Me \in Owners /\ "Normal" \in SlipTypes
    BY DEF Owners, SlipTypes
  <2> QED BY <1>1, <2>1, NewSlipType
<1>3. "Normal" \in TxTypes
  BY DEF TxTypes
<1>4. \/ r = [wallet |-> w, enough |-> TRUE, tx |-> Sign(Tx("Normal", <<zero>>, <<out>>, 0))]
      \/ \E g \in GenerateSlips(w, total, tip) :
           r = [wallet |-> g.wallet, enough |-> g.enough,
                tx |-> Sign(Tx("Normal", g.ins, <<g.change, out>>, 0))]
  BY DEF PaymentsOf
<1> HIDE DEF out, zero, total
<1>5. CASE r = [wallet |-> w, enough |-> TRUE, tx |-> Sign(Tx("Normal", <<zero>>, <<out>>, 0))]
  <2>1. <<zero>> \in Seq(Slips) /\ <<out>> \in Seq(Slips)
    BY <1>2
  <2>2. PICK tx : tx = Sign(Tx("Normal", <<zero>>, <<out>>, 0))
    OBVIOUS
  <2>3. tx \in TxSet /\ tx.ins = <<zero>>
    <3> DEFINE ins == <<zero>>
               outs == <<out>>
               raw == Tx("Normal", ins, outs, 0)
    <3>1. tx = Sign(raw)
      BY <2>2
    <3>2. ins \in Seq(Slips) /\ outs \in Seq(Slips)
      BY <2>1
    <3>3. ins = <<zero>>
      OBVIOUS
    <3> HIDE DEF ins, outs
    <3>4. raw \in TxSet /\ raw.ins = ins
      BY <1>3, <3>2, TxType
    <3> HIDE DEF raw
    <3> QED BY <3>1, <3>4, <3>3, SignedType
  <2>4. Valued(tx.ins) = {}
    <3>1. ~(zero.amount > 0)
      BY DEF zero, NewSlip, Slip
    <3> QED BY <2>3, <3>1 DEF Valued
  <2>5. r.wallet = w /\ r.tx = tx
    BY <1>5, <2>2
  <2> QED BY <2>3, <2>4, <2>5 DEF MadeRight, Kept
<1>6. CASE \E g \in GenerateSlips(w, total, tip) :
             r = [wallet |-> g.wallet, enough |-> g.enough,
                  tx |-> Sign(Tx("Normal", g.ins, <<g.change, out>>, 0))]
  <2>1. PICK g \in GenerateSlips(w, total, tip) :
           r = [wallet |-> g.wallet, enough |-> g.enough,
                tx |-> Sign(Tx("Normal", g.ins, <<g.change, out>>, 0))]
    BY <1>6
  <2>2. /\ g.wallet \in Wallets /\ g.ins \in Seq(Slips) /\ g.change \in Slips
        /\ Kept(w, g.wallet)
        /\ AtHome(w) => Valued(g.ins) \subseteq w.unspent \ g.wallet.unspent
    BY <1>1, GeneratedType
  <2>3. <<g.change, out>> \in Seq(Slips)
    BY <1>2, <2>2
  <2>4. PICK tx : tx = Sign(Tx("Normal", g.ins, <<g.change, out>>, 0))
    OBVIOUS
  <2>5. tx \in TxSet /\ tx.ins = g.ins
    <3> DEFINE outs == <<g.change, out>>
               raw == Tx("Normal", g.ins, outs, 0)
    <3>1. tx = Sign(raw)
      BY <2>4
    <3>2. outs \in Seq(Slips)
      BY <2>3
    <3> HIDE DEF outs
    <3>3. raw \in TxSet /\ raw.ins = g.ins
      BY <1>3, <2>2, <3>2, TxType
    <3> HIDE DEF raw
    <3> QED BY <3>1, <3>3, SignedType
  <2>6. r.wallet = g.wallet /\ r.tx = tx
    BY <2>1, <2>4
  <2> QED BY <2>2, <2>5, <2>6 DEF MadeRight
<1> QED BY <1>4, <1>5, <1>6

\* create_bound_transaction
LEMMA MintType ==
    ASSUME NEW w \in Wallets, NEW slip \in Slips, NEW deposit \in Nat, NEW to \in {Me, Other},
           NEW tip, NEW r \in MintsOf(w, slip, deposit, to, tip)
    PROVE  MadeRight(w, r)
<1> DEFINE a == NewSlip(Me, 1, "Bound")
           b == NewSlip(to, deposit, "Normal")
           c == NewSlip(Uuid(slip), 0, "Bound")
           triple == <<a, b, c>>
           change == NewSlip(Me, slip.amount - deposit, "Normal")
           Minted(v, ins, outs) ==
               [wallet |-> v, enough |-> TRUE, tx |-> Sign(Tx("Bound", ins, outs, 0))]
<1>1. slip.amount \in Int /\ slip.id \in Nat /\ slip.ord \in Nat /\ slip.idx \in Nat
  BY DEF Slips
<1>2. /\ Me \in Owners /\ to \in Owners /\ Uuid(slip) \in Owners
      /\ "Normal" \in SlipTypes /\ "Bound" \in SlipTypes /\ "Bound" \in TxTypes
  BY <1>1 DEF Owners, SlipTypes, TxTypes, Uuid
<1>3. a \in Slips /\ b \in Slips /\ c \in Slips /\ change \in Slips
  <2>1. 1 \in Int /\ 0 \in Int /\ deposit \in Int /\ slip.amount - deposit \in Int
    BY <1>1
  <2> QED BY <1>2, <2>1, NewSlipType
<1>4. \/ r = Minted(w, <<slip>>, Append(triple, change))
      \/ r = Minted(w, <<slip>>, triple)
      \/ \E g \in GenerateSlips(w, deposit - slip.amount, tip) :
           r = Minted(g.wallet, <<slip>> \o g.ins, Append(triple, g.change))
  BY Zenon DEF MintsOf
<1> HIDE DEF a, b, c, change
<1>5. triple \in Seq(Slips) /\ <<slip>> \in Seq(Slips)
  BY <1>3
<1> HIDE DEF triple
<1>6. \A v \in Wallets, ins \in Seq(Slips), outs \in Seq(Slips) :
         Kept(w, v) => MadeRight(w, Minted(v, ins, outs))
  <2> TAKE v \in Wallets, ins \in Seq(Slips), outs \in Seq(Slips)
  <2>1. PICK tx : tx = Sign(Tx("Bound", ins, outs, 0))
    OBVIOUS
  <2>2. tx \in TxSet /\ tx.type = "Bound"
    BY <1>2, <2>1, TxType, SignedType
  <2> QED BY <2>1, <2>2 DEF MadeRight
<1>7. Kept(w, w)
  BY DEF Kept
<1> HIDE DEF Minted
<1>8. CASE r = Minted(w, <<slip>>, Append(triple, change))
  <2>1. Append(triple, change) \in Seq(Slips)
    BY <1>3, <1>5
  <2> QED BY <1>5, <1>6, <1>8, <1>7, <2>1
<1>9. CASE r = Minted(w, <<slip>>, triple)
  BY <1>5, <1>6, <1>9, <1>7
<1>10. ASSUME NEW g \in GenerateSlips(w, deposit - slip.amount, tip),
             r = Minted(g.wallet, <<slip>> \o g.ins, Append(triple, g.change))
      PROVE  MadeRight(w, r)
  <2>1. deposit - slip.amount \in Int
    BY <1>1
  <2>2. g.wallet \in Wallets /\ g.ins \in Seq(Slips) /\ g.change \in Slips /\ Kept(w, g.wallet)
    BY <2>1, GeneratedType
  <2>3. <<slip>> \o g.ins \in Seq(Slips) /\ Append(triple, g.change) \in Seq(Slips)
    BY <1>5, <2>2
  <2> QED BY <1>6, <1>10, <2>2, <2>3
<1> QED BY <1>4, <1>8, <1>9, <1>10

\* create_send_bound_transaction
LEMMA SendType ==
    ASSUME NEW w \in Wallets, NEW nft \in GroupSet, NEW to \in {Me, Other},
           NEW r \in SendsOf(w, nft, to)
    PROVE  MadeRight(w, r)
<1>1. PICK moved : moved = [nft EXCEPT ![2].owner = to]
  OBVIOUS
<1>2. nft \in Seq(Slips) /\ to \in Owners /\ "Bound" \in TxTypes
  BY DEF GroupSet, GroupsOf, Owners, TxTypes
<1>3. moved \in Seq(Slips)
  <2>1. CASE 2 \in 1 .. Len(nft)
    <3>1. nft[2] \in Slips
      BY <1>2, <2>1
    <3>2. PICK s : s = [nft[2] EXCEPT !.owner = to]
      OBVIOUS
    <3>3. s \in Slips
      BY <1>2, <3>1, <3>2 DEF Slips
    <3>4. moved = [nft EXCEPT ![2] = s]
      BY <1>1, <1>2, <2>1, <3>2
    <3> QED BY <1>2, <2>1, <3>3, <3>4
  <2>2. CASE 2 \notin 1 .. Len(nft)
    <3>1. moved = nft
      BY <1>1, <1>2, <2>2
    <3> QED BY <1>2, <3>1
  <2> QED BY <2>1, <2>2
<1>4. PICK tx : tx = Sign(Tx("Bound", nft, moved, 0))
  OBVIOUS
<1>5. tx \in TxSet /\ tx.type = "Bound"
  BY <1>2, <1>3, <1>4, TxType, SignedType
<1>6. w \in WalletType
  BY DEF Wallets
<1>7. PICK nfts : nfts = RemoveNft(w.nfts, nft[2])
  OBVIOUS
<1>8. nfts \in Seq(GroupSet)
  BY <1>6, <1>7, RemoveNftStays DEF WalletType
<1>9. [w EXCEPT !.nfts = RemoveNft(@, nft[2])] = [w EXCEPT !.nfts = nfts]
  BY <1>6, <1>7 DEF WalletType
<1>10. PICK v : v = [w EXCEPT !.nfts = nfts]
  OBVIOUS
<1>11. v \in Wallets /\ Kept(w, v)
  <2>1. v.slips = w.slips /\ v.pending = w.pending /\ v.unspent = w.unspent
    BY <1>6, <1>10 DEF WalletType
  <2> QED BY <1>8, <1>10, <2>1, OthersStay DEF Kept
<1>12. r = [wallet |-> [w EXCEPT !.nfts = RemoveNft(@, nft[2])], enough |-> TRUE,
            tx |-> Sign(Tx("Bound", nft, moved, 0))]
  BY <1>1 DEF SendsOf
<1>13. r.wallet = v /\ r.tx = tx
  BY <1>4, <1>9, <1>10, <1>12
<1> QED BY <1>5, <1>11, <1>13 DEF MadeRight

\* find_slips_for_staking takes stakes from the stakes, and money from the money.
LEMMA StakeInputsType ==
    ASSUME NEW w \in Wallets, NEW tip, NEW in \in StakeInputs(w, tip)
    PROVE  in[1] \in SUBSET w.staking /\ in[2] \in SUBSET w.unspent
<1> DEFINE free == StakesFree(w, tip)
           some == IF StakeRequirement > 0 THEN Enough(free, StakeRequirement)
                   ELSE IF free = {} THEN {{}} ELSE {{s} : s \in free}
           Missing(stakes) == StakeRequirement - Worth(stakes)
           Slips2(stakes) == {p \in Largest(w.unspent, Missing(stakes)) :
                                Worth(p) >= Missing(stakes)}
<1>1. free \subseteq w.staking
  BY DEF StakesFree
<1> HIDE DEF free
<1>2. \A stakes \in some : stakes \in SUBSET w.staking
  <2>1. \A stakes \in Enough(free, StakeRequirement) : stakes \in SUBSET free
    BY DEF Enough
  <2>2. \A stakes \in some : stakes \in SUBSET free
    BY <2>1
  <2> QED BY <1>1, <2>2
<1>3. \A stakes \in some : \A p \in Slips2(stakes) : p \in SUBSET w.unspent
  BY DEF Largest, Enough
<1>4. PICK stakes \in some :
         in \in IF Missing(stakes) <= 0 THEN {<<stakes, {}>>}
                ELSE {<<stakes, slips>> : slips \in Slips2(stakes)}
  BY Zenon DEF StakeInputs, free
<1> HIDE DEF some, Slips2, Missing
<1>5. in = <<stakes, {}>> \/ \E p \in Slips2(stakes) : in = <<stakes, p>>
  BY <1>4
<1>6. CASE in = <<stakes, {}>>
  BY <1>2, <1>6
<1>7. CASE \E p \in Slips2(stakes) : in = <<stakes, p>>
  BY <1>2, <1>3, <1>7
<1> QED BY <1>5, <1>6, <1>7

\* create_staking_transaction
LEMMA StakingType ==
    ASSUME NEW w \in Wallets, NEW tip, NEW r \in StakingsOf(w, tip)
    PROVE  MadeRight(w, r)
<1> DEFINE Picked(in) == in[1] \cup in[2]
           Rest(in) == Worth(Picked(in)) - StakeRequirement
           Half(in) == IF in[2] # {} /\ Cardinality(w.unspent) = 1 THEN Rest(in) \div 2
                       ELSE Rest(in)
           Outs(in) == <<NewSlip(Me, StakeRequirement, "BlockStake")>>
                       \o (IF Rest(in) > 0 THEN <<NewSlip(Me, Half(in), "Normal")>> ELSE << >>)
                       \o (IF Rest(in) > Half(in)
                           THEN <<NewSlip(Me, Rest(in) - Half(in), "Normal")>> ELSE << >>)
<1>1. PICK in \in StakeInputs(w, tip) :
         r = [wallet |-> [Take(w, in[2]) EXCEPT !.staking = @ \ in[1]], enough |-> TRUE,
              tx |-> Sign(Tx("BlockStake", SetToSeq(Picked(in)), Outs(in), 0))]
  BY Zenon DEF StakingsOf
<1>2. in[1] \in SUBSET w.staking /\ in[2] \in SUBSET w.unspent
  BY StakeInputsType
<1>3. PICK picked : picked = Picked(in)
  OBVIOUS
<1>4. picked \in SUBSET Slips /\ IsFiniteSet(picked)
  <2>1. IsFiniteSet(in[1]) /\ IsFiniteSet(in[2])
    BY <1>2, WalletFacts, FS_Subset
  <2>2. IsFiniteSet(in[1] \cup in[2])
    BY <2>1, FS_Union
  <2>3. w \in WalletType
    BY DEF Wallets
  <2> QED BY <1>2, <1>3, <2>2, <2>3 DEF WalletType
<1>5. PICK rest : rest = Rest(in)
  OBVIOUS
<1>6. PICK half : half = Half(in)
  OBVIOUS
<1>7. rest \in Int /\ half \in Int /\ StakeRequirement \in Int
  <2>1. StakeRequirement \in Int
    BY WalletAssumption
  <2>2. Worth(picked) \in Int /\ StakeRequirement \in Int
    BY <1>4, <2>1, WorthFirst
  <2>3. rest \in Int
    BY <1>3, <1>5, <2>2
  <2>4. half = rest \div 2 \/ half = rest
    BY <1>5, <1>6, Zenon
  <2>5. rest \div 2 \in Int
    BY <2>3
  <2> QED BY <2>2, <2>3, <2>4, <2>5
<1>8. PICK a, b, c : /\ a = NewSlip(Me, StakeRequirement, "BlockStake")
                     /\ b = NewSlip(Me, half, "Normal")
                     /\ c = NewSlip(Me, rest - half, "Normal")
  OBVIOUS
<1>9. a \in Slips /\ b \in Slips /\ c \in Slips
  <2>1. Me \in Owners /\ "Normal" \in SlipTypes /\ "BlockStake" \in SlipTypes
    BY DEF Owners, SlipTypes
  <2>2. rest - half \in Int
    BY <1>7
  <2> QED BY <1>7, <1>8, <2>1, <2>2, NewSlipType
<1>10. PICK outs : outs = <<a>> \o (IF rest > 0 THEN <<b>> ELSE << >>)
                               \o (IF rest > half THEN <<c>> ELSE << >>)
  OBVIOUS
<1>11. outs \in Seq(Slips)
  BY <1>9, <1>10
<1>12. Outs(in) = outs
  BY <1>5, <1>6, <1>8, <1>10, Zenon
<1>13. SetToSeq(picked) \in Seq(Slips)
  <2>1. SetToSeq(picked) \in Seq(picked)
    BY <1>4, SetToSeqType
  <2> QED BY <1>4, <2>1
<1>14. PICK tx : tx = Sign(Tx("BlockStake", SetToSeq(picked), outs, 0))
  OBVIOUS
<1>15. tx \in TxSet /\ tx.type = "BlockStake"
  <2>1. "BlockStake" \in TxTypes
    BY DEF TxTypes
  <2> QED BY <1>11, <1>13, <1>14, <2>1, TxType, SignedType
<1> HIDE DEF Picked, Outs
<1>16. PICK v : v = [Take(w, in[2]) EXCEPT !.staking = @ \ in[1]]
  OBVIOUS
<1>17. v \in Wallets /\ Kept(w, v)
  BY <1>2, <1>16, TakeStays
<1>18. r.wallet = v /\ r.tx = tx
  BY <1>1, <1>3, <1>12, <1>14, <1>16
<1> QED BY <1>15, <1>17, <1>18 DEF MadeRight

-----------------------------------------------------------------------------
(* Blocks.                                                                 *)

\* The groups of a block.
LEMMA AllGroupsType ==
    ASSUME NEW txs \in Seq(TxSet)
    PROVE  AllGroups(txs) \in Seq(GroupSet)
<1> DEFINE n == Len(txs)
           D == 1 .. n
           Op(v, x) == v \o Groups(x.outs)
           fold == CHOOSE g : g = [t \in SUBSET D |->
                      IF t = {} THEN << >> ELSE Op(g[t \ {Max(t)}], txs[Max(t)])]
           step == [e \in Seq(GroupSet) \X D |-> Op(e[1], txs[e[2]])]
<1>1. << >> \in Seq(GroupSet)
  OBVIOUS
<1>2. n \in Nat /\ DOMAIN txs = D /\ \A i \in D : txs[i] \in TxSet
  OBVIOUS
<1>3. AllGroups(txs) = fold[D]
  BY <1>2, Zenon DEF AllGroups, FoldLeft, MapThenFoldSet
<1>4. \A v \in Seq(GroupSet), i \in D : Op(v, txs[i]) \in Seq(GroupSet)
  BY <1>2, GroupsType DEF TxSet, GroupSet
<1> HIDE DEF Op
<1>5. step \in [Seq(GroupSet) \X D -> Seq(GroupSet)]
  BY <1>4
<1>6. PICK g \in [SUBSET D -> Seq(GroupSet)] : FoldsUp(g, n, << >>, step)
  <2>1. << >> \in Seq(GroupSet) /\ n \in Nat /\ step \in [Seq(GroupSet) \X (1 .. n) -> Seq(GroupSet)]
    BY <1>1, <1>2, <1>5
  <2> HIDE DEF step, n, fold
  <2> QED BY <2>1, FoldWitness
<1>7. \A t \in SUBSET D : t # {} => Max(t) \in D
  BY <1>2, MaxExists
<1>8. \A t \in SUBSET D :
        t # {} => step[<<g[t \ {Max(t)}], Max(t)>>] = Op(g[t \ {Max(t)}], txs[Max(t)])
  BY <1>6, <1>7
<1>9. g = [t \in SUBSET D |->
             IF t = {} THEN << >> ELSE Op(g[t \ {Max(t)}], txs[Max(t)])]
  <2> HIDE DEF step
  <2> QED BY <1>6, <1>8 DEF FoldsUp
<1>10. fold = [t \in SUBSET D |->
                IF t = {} THEN << >> ELSE Op(fold[t \ {Max(t)}], txs[Max(t)])]
  BY <1>9
<1> HIDE DEF fold
<1>11. \A k \in 1 .. n : fold[1 .. k - 1] \in Seq(GroupSet) => fold[1 .. k] \in Seq(GroupSet)
  <2> SUFFICES ASSUME NEW k \in 1 .. n, fold[1 .. k - 1] \in Seq(GroupSet) PROVE fold[1 .. k] \in Seq(GroupSet)
    OBVIOUS
  <2>1. /\ 1 .. k \in SUBSET D /\ 1 .. k # {}
        /\ Max(1 .. k) = k /\ (1 .. k) \ {Max(1 .. k)} = 1 .. k - 1
    BY <1>2, FirstPositions
  <2>2. fold[1 .. k] = Op(fold[1 .. k - 1], txs[k])
    BY <1>10, <2>1
  <2>3. k \in D /\ fold[1 .. k - 1] \in Seq(GroupSet)
    OBVIOUS
  <2> HIDE DEF D
  <2> QED BY <1>4, <2>2, <2>3
<1>12. fold[{}] \in Seq(GroupSet)
  BY <1>1, <1>10
<1>13. fold[D] \in Seq(GroupSet)
  BY <1>2, <1>11, <1>12, FoldTyped
<1> QED BY <1>3, <1>13

\* The ones that are rebroadcast.
LEMMA DueType ==
    ASSUME NEW groups \in Seq(GroupSet), NEW utxo
    PROVE  Due(groups, utxo) \in Seq(GroupSet)
<1> DEFINE n == Len(groups)
           D == 1 .. n
           Op(v, x) == IF /\ x[Payload(x)].amount > 0
                          /\ \A k \in 1 .. Len(x) : SlipValid(x[k], utxo)
                       THEN Append(v, x) ELSE v
           fold == CHOOSE g : g = [t \in SUBSET D |->
                      IF t = {} THEN << >> ELSE Op(g[t \ {Max(t)}], groups[Max(t)])]
           step == [e \in Seq(GroupSet) \X D |-> Op(e[1], groups[e[2]])]
<1>1. << >> \in Seq(GroupSet)
  OBVIOUS
<1>2. n \in Nat /\ DOMAIN groups = D /\ \A i \in D : groups[i] \in GroupSet
  OBVIOUS
<1>3. Due(groups, utxo) = fold[D]
  BY <1>2, Zenon DEF Due, FoldLeft, MapThenFoldSet
<1>4. \A v \in Seq(GroupSet), i \in D : Op(v, groups[i]) \in Seq(GroupSet)
  BY <1>2
<1> HIDE DEF Op
<1>5. step \in [Seq(GroupSet) \X D -> Seq(GroupSet)]
  BY <1>4
<1>6. PICK g \in [SUBSET D -> Seq(GroupSet)] : FoldsUp(g, n, << >>, step)
  <2>1. << >> \in Seq(GroupSet) /\ n \in Nat /\ step \in [Seq(GroupSet) \X (1 .. n) -> Seq(GroupSet)]
    BY <1>1, <1>2, <1>5
  <2> HIDE DEF step, n, fold
  <2> QED BY <2>1, FoldWitness
<1>7. \A t \in SUBSET D : t # {} => Max(t) \in D
  BY <1>2, MaxExists
<1>8. \A t \in SUBSET D :
        t # {} => step[<<g[t \ {Max(t)}], Max(t)>>] = Op(g[t \ {Max(t)}], groups[Max(t)])
  BY <1>6, <1>7
<1>9. g = [t \in SUBSET D |->
             IF t = {} THEN << >> ELSE Op(g[t \ {Max(t)}], groups[Max(t)])]
  <2> HIDE DEF step
  <2> QED BY <1>6, <1>8 DEF FoldsUp
<1>10. fold = [t \in SUBSET D |->
                IF t = {} THEN << >> ELSE Op(fold[t \ {Max(t)}], groups[Max(t)])]
  BY <1>9
<1> HIDE DEF fold
<1>11. \A k \in 1 .. n : fold[1 .. k - 1] \in Seq(GroupSet) => fold[1 .. k] \in Seq(GroupSet)
  <2> SUFFICES ASSUME NEW k \in 1 .. n, fold[1 .. k - 1] \in Seq(GroupSet) PROVE fold[1 .. k] \in Seq(GroupSet)
    OBVIOUS
  <2>1. /\ 1 .. k \in SUBSET D /\ 1 .. k # {}
        /\ Max(1 .. k) = k /\ (1 .. k) \ {Max(1 .. k)} = 1 .. k - 1
    BY <1>2, FirstPositions
  <2>2. fold[1 .. k] = Op(fold[1 .. k - 1], groups[k])
    BY <1>10, <2>1
  <2>3. k \in D /\ fold[1 .. k - 1] \in Seq(GroupSet)
    OBVIOUS
  <2> HIDE DEF D
  <2> QED BY <1>4, <2>2, <2>3
<1>12. fold[{}] \in Seq(GroupSet)
  BY <1>1, <1>10
<1>13. fold[D] \in Seq(GroupSet)
  BY <1>2, <1>11, <1>12, FoldTyped
<1> QED BY <1>3, <1>13

\* Rebroadcasts are transactions.
LEMMA RebroadcastsType ==
    ASSUME NEW st, st.chain \in Seq(Seq(TxSet))
    PROVE  Rebroadcasts(st) \in Seq(TxSet)
<1>1. PICK txs : txs = IF Tip(st) > GenesisPeriod THEN st.chain[Tip(st) - GenesisPeriod]
                       ELSE << >>
  OBVIOUS
<1>2. txs \in Seq(TxSet)
  <2>1. CASE Tip(st) > GenesisPeriod
    <3>1. GenesisPeriod \in Nat \ {0} /\ Tip(st) \in Nat /\ Tip(st) = Len(st.chain)
      BY WalletAssumption DEF Tip
    <3>2. Tip(st) - GenesisPeriod \in 1 .. Len(st.chain)
      BY <2>1, <3>1
    <3>3. st.chain[Tip(st) - GenesisPeriod] \in Seq(TxSet)
      BY <3>2
    <3> QED BY <1>1, <2>1, <3>3
  <2>2. CASE ~(Tip(st) > GenesisPeriod)
    <3>1. txs = << >>
      BY <1>1, <2>2
    <3> QED BY <3>1
  <2> QED BY <2>1, <2>2
<1>3. PICK due : due = Due(AllGroups(txs), st.utxo)
  OBVIOUS
<1>4. due \in Seq(GroupSet)
  BY <1>2, <1>3, AllGroupsType, DueType
<1>5. PICK all : all = [i \in 1 .. Len(due) |->
         Tx("ATR", due[i], [due[i] EXCEPT ![Payload(due[i])].type = "ATR"], 0)]
  OBVIOUS
<1>6. Rebroadcasts(st) = all
  BY <1>1, <1>3, <1>5, Zenon DEF Rebroadcasts
<1>7. \A g \in GroupSet :
        Tx("ATR", g, [g EXCEPT ![Payload(g)].type = "ATR"], 0) \in TxSet
  <2> TAKE g \in GroupSet
  <2>1. g \in Seq(Slips) /\ Payload(g) \in 1 .. Len(g)
    <3>1. g \in Seq(Slips) /\ (Len(g) = 1 \/ Len(g) = 3)
      BY DEF GroupSet, GroupsOf
    <3>2. Payload(g) = IF Len(g) = 3 THEN 2 ELSE 1
      BY Zenon DEF Payload
    <3>3. CASE Len(g) = 1
      <4>1. Payload(g) = 1
        BY <3>2, <3>3
      <4> QED BY <3>1, <3>3, <4>1
    <3>4. CASE Len(g) = 3
      <4>1. Payload(g) = 2
        BY <3>2, <3>4
      <4> QED BY <3>1, <3>4, <4>1
    <3> QED BY <3>1, <3>3, <3>4
  <2>2. PICK k : k = Payload(g)
    OBVIOUS
  <2>3. g[k] \in Slips /\ "ATR" \in SlipTypes /\ "ATR" \in TxTypes
    BY <2>1, <2>2 DEF SlipTypes, TxTypes
  <2>4. PICK s : s = [g[k] EXCEPT !.type = "ATR"]
    OBVIOUS
  <2>5. s \in Slips
    BY <2>3, <2>4 DEF Slips
  <2>6. [g EXCEPT ![Payload(g)].type = "ATR"] = [g EXCEPT ![k] = s]
    BY <2>1, <2>2, <2>4
  <2>7. [g EXCEPT ![k] = s] \in Seq(Slips)
    BY <2>1, <2>2, <2>5
  <2> QED BY <2>1, <2>3, <2>6, <2>7, TxType
<1>8. \A i \in 1 .. Len(due) : all[i] \in TxSet
  <2> TAKE i \in 1 .. Len(due)
  <2>1. due[i] \in GroupSet
    BY <1>4
  <2>2. all[i] = Tx("ATR", due[i], [due[i] EXCEPT ![Payload(due[i])].type = "ATR"], 0)
    BY <1>5
  <2> QED BY <1>7, <2>1, <2>2
<1>9. all \in Seq(TxSet)
  <2>1. all = [i \in 1 .. Len(due) |-> all[i]] /\ Len(due) \in Nat
    BY <1>4, <1>5
  <2> QED BY <1>8, <2>1
<1> QED BY <1>6, <1>9

\* A node whose wallet is right.
Node(st) == st.chain \in Seq(Seq(TxSet)) /\ st.wallet \in Wallets

\* wind_block: the slips it brings are its own.
LEMMA WindBlockStays ==
    ASSUME NEW st, Node(st), NEW content \in Seq(TxSet)
    PROVE  /\ Node(WindBlock(st, content))
           /\ Len(WindBlock(st, content).chain) = Len(st.chain) + 1
           /\ WindBlock(st, content).wallet \in From(st.wallet, Len(st.chain) + 1)
<1>1. PICK id : id = Tip(st) + 1
  OBVIOUS
<1>2. id \in Nat /\ id = Len(st.chain) + 1
  BY <1>1 DEF Node, Tip
<1>3. PICK txs : txs = AllPlaced(content, id)
  OBVIOUS
<1>4. txs \in Seq(TxSet) /\ WindsIn(From(st.wallet, id), txs, id)
  BY <1>2, <1>3, AllPlacedType DEF Node
<1>5. PICK chain1 : chain1 = Append(st.chain, txs)
  OBVIOUS
<1>6. chain1 \in Seq(Seq(TxSet)) /\ Len(chain1) = id
  BY <1>2, <1>4, <1>5 DEF Node
<1>7. PICK wallet1 : wallet1 = WindWallet(st.wallet, txs, id)
  OBVIOUS
<1>8. /\ wallet1 \in From(st.wallet, id) /\ Deletes(From(st.wallet, id))
      /\ From(st.wallet, id) \in SUBSET Wallets
  <2>1. /\ st.wallet \in From(st.wallet, id) /\ Deletes(From(st.wallet, id))
        /\ From(st.wallet, id) \in SUBSET Wallets
    BY <1>2, FromClosed DEF Node, From
  <2> QED BY <1>4, <1>7, <2>1, WindWalletStays
<1>9. PICK old : old = id - 2 * GenesisPeriod
  OBVIOUS
<1>10. \E u : WindBlock(st, content) =
         IF old < 1 THEN [chain |-> chain1, utxo |-> u, wallet |-> wallet1]
         ELSE [chain |-> chain1, utxo |-> DeleteTxs(u, chain1[old]),
               wallet |-> DeleteBlock(wallet1, chain1[old])]
  <2> WITNESS WindTxs(st.utxo, txs)
  <2> QED BY <1>1, <1>3, <1>5, <1>7, <1>9, Zenon DEF WindBlock
<1>11. CASE old < 1
  <2>1. /\ WindBlock(st, content).chain = chain1
        /\ WindBlock(st, content).wallet = wallet1
    BY <1>10, <1>11
  <2> QED BY <1>2, <1>6, <1>8, <2>1 DEF Node
<1>12. CASE ~(old < 1)
  <2>1. /\ WindBlock(st, content).chain = chain1
        /\ WindBlock(st, content).wallet = DeleteBlock(wallet1, chain1[old])
    BY <1>10, <1>12
  <2>2. GenesisPeriod \in Nat /\ 2 * GenesisPeriod \in Nat
    BY WalletAssumption
  <2>3. old \in 1 .. Len(chain1)
    <3>1. id \in Nat
      BY <1>2
    <3>2. PICK gap : gap = 2 * GenesisPeriod
      OBVIOUS
    <3>3. gap \in Nat /\ old = id - gap
      BY <1>9, <2>2, <3>2
    <3>4. old \in Int /\ old <= id
      BY <3>1, <3>3
    <3> QED BY <1>6, <1>12, <3>1, <3>4
  <2>4. chain1[old] \in Seq(TxSet)
    BY <1>6, <2>3
  <2>5. DeleteBlock(wallet1, chain1[old]) \in From(st.wallet, id)
    BY <1>8, <2>4, DeleteBlockStays
  <2> QED BY <1>2, <1>6, <1>8, <2>1, <2>5 DEF Node
<1> QED BY <1>11, <1>12

\* unwind_block
LEMMA UnwindBlockStays ==
    ASSUME NEW st, Node(st), Len(st.chain) > 0
    PROVE  /\ Node(UnwindBlock(st))
           /\ st.chain[Len(st.chain)] \in Seq(TxSet)
<1>1. st.chain \in Seq(Seq(TxSet)) /\ Len(st.chain) \in 1 .. Len(st.chain)
  BY DEF Node
<1>2. PICK txs : txs = st.chain[Tip(st)]
  OBVIOUS
<1>3. txs \in Seq(TxSet) /\ Tip(st) = Len(st.chain) /\ Tip(st) \in Nat
  BY <1>1, <1>2 DEF Tip
<1>4. Front(st.chain) \in Seq(Seq(TxSet))
  <2>1. SubSeq(st.chain, 1, Len(st.chain) - 1) \in Seq(Seq(TxSet))
    BY <1>1
  <2> QED BY <2>1 DEF Front
<1>5. UnwindWallet(st.wallet, txs, Tip(st)) \in Wallets
  BY <1>3, UnwindWalletStays DEF Node
<1>6. /\ UnwindBlock(st).chain = Front(st.chain)
      /\ UnwindBlock(st).wallet = UnwindWallet(st.wallet, txs, Tip(st))
  BY <1>2 DEF UnwindBlock
<1> QED BY <1>2, <1>3, <1>4, <1>5, <1>6 DEF Node

-----------------------------------------------------------------------------
(* The invariant.                                                          *)

\* Payments that are pending.
Paying(w) == {t \in w.pending : t.type = "Normal"}

\* What a wallet has promised to a chain of n blocks that was never unwound: its slips
\* are of these blocks and where they say, and no slip of a pending payment is unspent
\* or in another one.
Promised(w, n) ==
    /\ AtHome(w)
    /\ \A s \in DOMAIN w.slips : s.id <= n
    /\ \A t \in Paying(w) :
          Valued(t.ins) \cap w.unspent = {} /\ \A s \in Valued(t.ins) : s.id <= n
    /\ \A t, u \in Paying(w) : t # u => Valued(t.ins) \cap Valued(u.ins) = {}

\* What the wallet, the chain and the mempool hold, that the balance is right, and what
\* is promised until a block is unwound.
WalletInv ==
    /\ chain \in Seq(Seq(TxSet))
    /\ wallet \in Wallets
    /\ pool \in SUBSET TxSet /\ IsFiniteSet(pool)
    /\ unwound \in Nat
    /\ unwound = 0 => Promised(wallet, Len(chain))

\* Making a transaction other than a payment breaks no promise.
LEMMA KeptPromise ==
    ASSUME NEW w, NEW u, NEW n, Promised(w, n), Kept(w, u)
    PROVE  Promised(u, n)
<1>1. u.slips = w.slips /\ Paying(u) = Paying(w) /\ u.unspent \subseteq w.unspent
  BY DEF Kept, Paying
<1> QED BY <1>1, Zenon DEF Promised, AtHome

\* Nor does a block: it brings slips that nobody could promise before.
LEMMA BlockPromise ==
    ASSUME NEW w \in Wallets, NEW n \in Nat, Promised(w, n), NEW u \in From(w, n + 1)
    PROVE  Promised(u, n + 1)
<1>1. Extends(w, u, OfBlock(n + 1)) /\ u \in Wallets
  BY DEF From
<1>2. Paying(u) \subseteq Paying(w) /\ u.unspent \subseteq w.unspent \cup OfBlock(n + 1)
  BY <1>1 DEF Extends, Paying
<1>3. ASSUME NEW s \in DOMAIN u.slips
      PROVE  s.id <= n + 1 /\ u.slips[s] = <<s.id, s.ord>>
  <2>1. s \in Slips /\ s.id \in Nat
    <3>1. s \in Slips
      BY <1>1, WalletFacts
    <3> QED BY <3>1 DEF Slips
  <2>2. \/ s \in DOMAIN w.slips /\ u.slips[s] = w.slips[s]
        \/ s \in OfBlock(n + 1) /\ u.slips[s] = <<s.id, s.ord>>
    BY <1>1, Zenon DEF Extends
  <2>3. CASE s \in DOMAIN w.slips /\ u.slips[s] = w.slips[s]
    <3>1. s.id <= n /\ w.slips[s] = <<s.id, s.ord>>
      BY <2>3, Zenon DEF Promised, AtHome
    <3> QED BY <2>1, <2>3, <3>1
  <2>4. CASE s \in OfBlock(n + 1) /\ u.slips[s] = <<s.id, s.ord>>
    BY <2>1, <2>4 DEF OfBlock
  <2> QED BY <2>2, <2>3, <2>4
<1>4. ASSUME NEW t \in Paying(u)
      PROVE  /\ Valued(t.ins) \cap u.unspent = {}
             /\ \A s \in Valued(t.ins) : s.id <= n + 1
  <2>1. /\ Valued(t.ins) \cap w.unspent = {} /\ \A s \in Valued(t.ins) : s.id <= n
        /\ t.ins \in Seq(Slips)
    BY <1>2 DEF Promised, Paying, Wallets, WalletType, TxSet
  <2>2. \A s \in Valued(t.ins) : s.id \in Nat
    <3>1. Valued(t.ins) \subseteq Slips
      BY <2>1 DEF Valued
    <3> QED BY <3>1 DEF Slips
  <2>3. \A s \in Valued(t.ins) : s.id <= n + 1 /\ s.id # n + 1
    BY <2>1, <2>2
  <2>4. \A s \in Valued(t.ins) : s \notin OfBlock(n + 1)
    BY <2>3 DEF OfBlock
  <2> QED BY <1>2, <2>1, <2>3, <2>4
<1>5. \A t, v \in Paying(u) : t # v => Valued(t.ins) \cap Valued(v.ins) = {}
  BY <1>2, Zenon DEF Promised
<1> QED BY <1>3, <1>4, <1>5, Zenon DEF Promised, AtHome

\* A payment that is promised now takes what nobody promised.
LEMMA NewPromise ==
    ASSUME NEW w \in Wallets, NEW n \in Nat, Promised(w, n), NEW r, MadeRight(w, r), NEW u,
           u.slips = r.wallet.slips, u.unspent = r.wallet.unspent,
           u.pending = r.wallet.pending \cup {r.tx}
    PROVE  Promised(u, n)
<1>1. /\ u.slips = w.slips /\ u.unspent \subseteq w.unspent
      /\ u.pending = w.pending \cup {r.tx}
  BY DEF MadeRight, Kept
<1>2. AtHome(w) /\ AtHome(u) /\ \A s \in DOMAIN u.slips : s.id <= n
  BY <1>1, Zenon DEF Promised, AtHome
<1>3. r.tx.type = "Normal" =>
         /\ Valued(r.tx.ins) \subseteq w.unspent
         /\ Valued(r.tx.ins) \cap u.unspent = {}
  BY <1>2 DEF MadeRight
<1>4. \A t \in Paying(u) : t \in Paying(w) \/ (t = r.tx /\ r.tx.type = "Normal")
  BY <1>1 DEF Paying
<1>5. \A t \in Paying(w) :
         Valued(t.ins) \cap w.unspent = {} /\ \A s \in Valued(t.ins) : s.id <= n
  BY Zenon DEF Promised
<1>6. ASSUME NEW t \in Paying(u)
      PROVE  /\ Valued(t.ins) \cap u.unspent = {}
             /\ \A s \in Valued(t.ins) : s.id <= n
  <2>1. CASE t \in Paying(w)
    BY <1>1, <1>5, <2>1
  <2>2. CASE t = r.tx /\ r.tx.type = "Normal"
    <3>1. w.unspent \subseteq DOMAIN u.slips
      BY <1>1 DEF Wallets, Balanced
    <3> QED BY <1>2, <1>3, <2>2, <3>1
  <2> QED BY <1>4, <2>1, <2>2
<1>7. ASSUME NEW t \in Paying(u), NEW v \in Paying(u), t # v
      PROVE  Valued(t.ins) \cap Valued(v.ins) = {}
  <2>1. CASE t \in Paying(w) /\ v \in Paying(w)
    BY <1>7, <2>1, Zenon DEF Promised
  <2>2. CASE t \in Paying(w) /\ v = r.tx /\ r.tx.type = "Normal"
    BY <1>3, <1>5, <2>2
  <2>3. CASE v \in Paying(w) /\ t = r.tx /\ r.tx.type = "Normal"
    BY <1>3, <1>5, <2>3
  <2> QED BY <1>4, <1>7, <2>1, <2>2, <2>3
<1> QED BY <1>2, <1>6, <1>7, Zenon DEF Promised

\* A payment of somebody else.
LEMMA ReceiptType ==
    ASSUME NEW a \in Receipts
    PROVE  Receipt(a) \in Seq(TxSet)
<1>1. a \in Int /\ 0 \in Int
  BY WalletAssumption
<1>2. Me \in Owners /\ Other \in Owners /\ "Normal" \in SlipTypes /\ "Normal" \in TxTypes
  BY DEF Owners, SlipTypes, TxTypes
<1>3. PICK x, y : x = NewSlip(Other, 0, "Normal") /\ y = NewSlip(Me, a, "Normal")
  OBVIOUS
<1>4. x \in Slips /\ y \in Slips
  BY <1>1, <1>2, <1>3, NewSlipType
<1>5. <<x>> \in Seq(Slips) /\ <<y>> \in Seq(Slips)
  BY <1>4
<1>6. PICK tx : tx = Tx("Normal", <<x>>, <<y>>, 0)
  OBVIOUS
<1>7. tx \in TxSet
  BY <1>2, <1>5, <1>6, TxType
<1>8. Receipt(a) = <<tx>>
  BY <1>3, <1>6 DEF Receipt
<1> QED BY <1>7, <1>8

\* Blocks of other producers are blocks.
LEMMA PeerBlocksType ==
    ASSUME WalletInv, NEW st, Node(st), NEW txs \in PeerBlocks(st)
    PROVE  txs \in Seq(TxSet)
<1>1. Rebroadcasts(st) \in Seq(TxSet)
  BY RebroadcastsType DEF Node
<1>2. \/ \E a \in Receipts : txs = Receipt(a) \o Rebroadcasts(st)
      \/ \E t \in pool : txs = <<t>> \o Rebroadcasts(st)
  BY DEF PeerBlocks
<1>3. \A a \in Receipts : Receipt(a) \in Seq(TxSet)
  BY ReceiptType
<1>4. CASE \E a \in Receipts : txs = Receipt(a) \o Rebroadcasts(st)
  BY <1>1, <1>3, <1>4
<1>5. CASE \E t \in pool : txs = <<t>> \o Rebroadcasts(st)
  <2>1. PICK t \in pool : txs = <<t>> \o Rebroadcasts(st)
    BY <1>5
  <2>2. t \in TxSet
    BY DEF WalletInv
  <2>3. <<t>> \in Seq(TxSet)
    BY <2>2
  <2> QED BY <1>1, <2>1, <2>3
<1> QED BY <1>2, <1>4, <1>5

\* What stays of a mempool.
LEMMA CleanedType ==
    ASSUME NEW txs \in SUBSET TxSet, IsFiniteSet(txs), NEW st
    PROVE  Cleaned(txs, st) \in SUBSET TxSet /\ IsFiniteSet(Cleaned(txs, st))
<1>1. Cleaned(txs, st) \in SUBSET txs
  BY DEF Cleaned
<1> QED BY <1>1, FS_Subset

\* Block 1 holds what is issued to an empty wallet.
LEMMA WalletInvInit == Init => WalletInv
<1> SUFFICES ASSUME Init PROVE WalletInv
  OBVIOUS
<1>1. EmptyWallet \in Wallets
  <2>1. PICK none : none = [s \in {} |-> <<0, 0>>]
    OBVIOUS
  <2>2. none \in Places /\ DOMAIN none = {}
    <3>1. none \in [{} -> Nat \X Nat]
      BY <2>1
    <3>2. {} \in SUBSET Slips
      OBVIOUS
    <3> QED BY <2>1, <3>1, <3>2 DEF Places
  <2>3. EmptyWallet = [slips |-> none, unspent |-> {}, staking |-> {}, balance |-> 0,
                       pending |-> {}, nfts |-> << >>]
    BY <2>1 DEF EmptyWallet
  <2>4. << >> \in Seq(GroupSet) /\ 0 \in Int
    OBVIOUS
  <2>5. EmptyWallet \in WalletType
    BY <2>2, <2>3, <2>4 DEF WalletType
  <2>6. IsFiniteSet({}) /\ Worth({}) = 0
    BY FS_EmptySet, WorthFirst
  <2>7. /\ EmptyWallet.slips = none /\ EmptyWallet.unspent = {} /\ EmptyWallet.staking = {}
        /\ EmptyWallet.balance = 0
    BY <2>3
  <2>8. Balanced(EmptyWallet)
    BY <2>2, <2>6, <2>7 DEF Balanced
  <2> QED BY <2>5, <2>8 DEF Wallets
<1>2. PICK content : content = [i \in 1 .. Len(Issued) |-> Issue(Issued[i])]
  OBVIOUS
<1>3. content \in Seq(TxSet)
  <2>1. Issued \in Seq(Nat)
    BY WalletAssumption
  <2>2. \A i \in 1 .. Len(Issued) : Issue(Issued[i]) \in TxSet
    <3> TAKE i \in 1 .. Len(Issued)
    <3>1. Issued[i] \in Int
      BY <2>1
    <3>2. Me \in Owners /\ "Normal" \in SlipTypes /\ "Issuance" \in TxTypes
      BY DEF Owners, SlipTypes, TxTypes
    <3>3. PICK out : out = NewSlip(Me, Issued[i], "Normal")
      OBVIOUS
    <3>4. out \in Slips
      BY <3>1, <3>2, <3>3, NewSlipType
    <3>5. << >> \in Seq(Slips) /\ <<out>> \in Seq(Slips)
      BY <3>4
    <3>6. Tx("Issuance", << >>, <<out>>, 0) \in TxSet
      BY <3>2, <3>5, TxType
    <3> QED BY <3>3, <3>6 DEF Issue
  <2> QED BY <1>2, <2>1, <2>2
<1>4. PICK st : st = [chain |-> << >>, utxo |-> {}, wallet |-> EmptyWallet]
  OBVIOUS
<1>5. Node(st)
  <2>1. << >> \in Seq(Seq(TxSet))
    OBVIOUS
  <2> QED BY <1>1, <1>4, <2>1 DEF Node
<1>6. PICK first : first = WindBlock(st, content)
  OBVIOUS
<1>7. Promised(st.wallet, 0)
  <2>1. /\ DOMAIN EmptyWallet.slips = {} /\ EmptyWallet.pending = {}
    BY DEF EmptyWallet
  <2> QED BY <1>4, <2>1 DEF Promised, AtHome, Paying
<1>8. Node(first) /\ Promised(first.wallet, Len(first.chain))
  <2>1. /\ Len(first.chain) = Len(st.chain) + 1
        /\ first.wallet \in From(st.wallet, Len(st.chain) + 1) /\ Node(first)
    BY <1>3, <1>5, <1>6, WindBlockStays
  <2>2. Len(st.chain) = 0
    BY <1>4
  <2> QED BY <1>5, <1>7, <2>1, <2>2, BlockPromise DEF Node
<1>9. chain = first.chain /\ wallet = first.wallet /\ pool = {} /\ unwound = 0
  BY <1>2, <1>4, <1>6, Zenon DEF Init
<1> QED BY <1>8, <1>9, FS_EmptySet DEF WalletInv, Node

\* A transaction is sent: it may get into the mempool and among the pending ones.
LEMMA SubmitKeepsInv ==
    ASSUME WalletInv, NEW r, MadeRight(wallet, r), Submit(r)
    PROVE  WalletInv'
<1>1. r.wallet \in Wallets /\ r.tx \in TxSet /\ r.wallet \in WalletType
  BY DEF MadeRight, Wallets
<1>2. PICK pending : pending = r.wallet.pending \cup {r.tx}
  OBVIOUS
<1>3. pending \in SUBSET TxSet
  BY <1>1, <1>2 DEF WalletType
<1>4. [r.wallet EXCEPT !.pending = @ \cup {r.tx}] = [r.wallet EXCEPT !.pending = pending]
  BY <1>1, <1>2 DEF WalletType
<1>5. [r.wallet EXCEPT !.pending = pending] \in Wallets
  BY <1>1, <1>3, OthersStay
<1>6. \/ wallet' = [r.wallet EXCEPT !.pending = @ \cup {r.tx}]
      \/ wallet' = r.wallet
  BY Zenon DEF Submit
<1>7. wallet' \in Wallets
  BY <1>1, <1>4, <1>5, <1>6
<1>8. chain' = chain /\ (pool' = pool \cup {r.tx} \/ pool' = pool)
  BY Zenon DEF Submit
<1>9. IsFiniteSet(pool \cup {r.tx})
  BY FS_AddElement DEF WalletInv
<1>10. ASSUME unwound = 0 PROVE Promised(wallet', Len(chain))
  <2>1. Promised(wallet, Len(chain)) /\ wallet \in Wallets /\ Len(chain) \in Nat
    BY <1>10 DEF WalletInv
  <2>2. CASE wallet' = r.wallet
    BY <2>1, <2>2, KeptPromise DEF MadeRight
  <2>3. CASE wallet' = [r.wallet EXCEPT !.pending = @ \cup {r.tx}]
    <3>1. wallet' = [r.wallet EXCEPT !.pending = pending]
      BY <1>4, <2>3
    <3>2. /\ wallet'.slips = r.wallet.slips /\ wallet'.unspent = r.wallet.unspent
          /\ wallet'.pending = r.wallet.pending \cup {r.tx}
      BY <1>1, <1>2, <3>1 DEF WalletType
    <3> QED BY <2>1, <3>2, NewPromise
  <2> QED BY <1>6, <2>2, <2>3
<1>11. unwound' = unwound
  BY DEF Submit
<1> QED BY <1>1, <1>7, <1>8, <1>9, <1>10, <1>11 DEF WalletInv

\* The node becomes what it is after a block.
LEMMA BecomeKeepsInv ==
    ASSUME NEW st, Node(st), Become(st), pool' \in SUBSET TxSet, IsFiniteSet(pool'),
           unwound' \in Nat, unwound' = 0 => Promised(st.wallet, Len(st.chain))
    PROVE  WalletInv'
BY DEF Node, Become, WalletInv

\* Own blocks: whatever becomes of the block, the stake is taken.
LEMMA BundleKeepsInv ==
    ASSUME WalletInv, Bundle
    PROVE  WalletInv'
<1>1. PICK r \in StakingsOf(wallet, Len(chain)) :
         LET in == Accepts(r.tx)
             map == IF in THEN utxo_map \cup Valued(r.tx.ins) ELSE utxo_map
             own == IF in THEN pool \cup {r.tx} ELSE pool
             txs == SetToSeq(own) \o Rebroadcasts(State)
             valid == StakeRequirement > 0 => in
             st == [State EXCEPT !.wallet = r.wallet]
         IN IF DoubleSpend(txs) THEN Become(st) /\ pool' = {} /\ utxo_map' = map
            ELSE /\ utxo_map' = map \ InsOf(txs)
                 /\ IF valid THEN Become(WindBlock(st, txs)) /\ pool' = {}
                    ELSE /\ Become(st)
                         /\ pool' = {t \in own : t.type = "Normal" /\ TxValid(t, utxoset, Len(chain))}
  BY Zenon DEF Bundle
<1>2. wallet \in Wallets /\ chain \in Seq(Seq(TxSet)) /\ pool \in SUBSET TxSet /\ IsFiniteSet(pool)
  BY DEF WalletInv
<1>3. MadeRight(wallet, r)
  BY <1>2, StakingType
<1>4. PICK own : own = IF Accepts(r.tx) THEN pool \cup {r.tx} ELSE pool
  OBVIOUS
<1>5. own \in SUBSET TxSet /\ IsFiniteSet(own)
  <2>1. IsFiniteSet(pool \cup {r.tx})
    BY <1>2, FS_AddElement
  <2> QED BY <1>2, <1>3, <1>4, <2>1 DEF MadeRight
<1>6. PICK txs : txs = SetToSeq(own) \o Rebroadcasts(State)
  OBVIOUS
<1>7. txs \in Seq(TxSet)
  <2>1. SetToSeq(own) \in Seq(own)
    BY <1>5, SetToSeqType
  <2>2. SetToSeq(own) \in Seq(TxSet)
    BY <1>5, <2>1
  <2>3. State.chain = chain
    BY DEF State
  <2>4. Rebroadcasts(State) \in Seq(TxSet)
    BY <1>2, <2>3, RebroadcastsType
  <2> QED BY <1>6, <2>2, <2>4
<1>8. PICK st : st = [State EXCEPT !.wallet = r.wallet]
  OBVIOUS
<1>9. Node(st)
  BY <1>2, <1>3, <1>8 DEF Node, State, MadeRight
<1>10. /\ Node(WindBlock(st, txs))
       /\ Len(WindBlock(st, txs).chain) = Len(chain) + 1
       /\ WindBlock(st, txs).wallet \in From(st.wallet, Len(chain) + 1)
  <2>1. st.chain = chain
    BY <1>8 DEF State
  <2> QED BY <1>7, <1>9, <2>1, WindBlockStays
<1>11. unwound' = unwound /\ unwound \in Nat
  BY DEF Bundle, WalletInv
<1>12. ASSUME unwound = 0
       PROVE  /\ Promised(st.wallet, Len(st.chain))
              /\ Promised(WindBlock(st, txs).wallet, Len(WindBlock(st, txs).chain))
  <2>1. Promised(wallet, Len(chain)) /\ Len(chain) \in Nat
    BY <1>12 DEF WalletInv
  <2>2. st.wallet = r.wallet /\ st.chain = chain
    BY <1>8 DEF State
  <2>3. Promised(st.wallet, Len(chain))
    BY <1>3, <2>1, <2>2, KeptPromise DEF MadeRight
  <2>4. Promised(WindBlock(st, txs).wallet, Len(chain) + 1)
    BY <1>9, <1>10, <2>1, <2>3, BlockPromise DEF Node
  <2> QED BY <1>10, <2>2, <2>3, <2>4
<1>13. \/ Become(st) /\ pool' = {}
       \/ Become(WindBlock(st, txs)) /\ pool' = {}
       \/ /\ Become(st)
          /\ pool' = {t \in own : t.type = "Normal" /\ TxValid(t, utxoset, Len(chain))}
  BY <1>1, <1>4, <1>6, <1>8, Zenon
<1>14. IsFiniteSet({})
  BY FS_EmptySet
<1>15. CASE Become(st) /\ pool' = {}
  BY <1>9, <1>14, <1>15, <1>11, <1>12, BecomeKeepsInv
<1>16. CASE Become(WindBlock(st, txs)) /\ pool' = {}
  BY <1>10, <1>14, <1>16, <1>11, <1>12, BecomeKeepsInv
<1>17. CASE /\ Become(st)
            /\ pool' = {t \in own : t.type = "Normal" /\ TxValid(t, utxoset, Len(chain))}
  <2>1. pool' \in SUBSET own
    BY <1>17
  <2>2. pool' \in SUBSET TxSet /\ IsFiniteSet(pool')
    BY <1>5, <2>1, FS_Subset
  <2> QED BY <1>9, <1>17, <1>11, <1>12, <2>2, BecomeKeepsInv
<1> QED BY <1>13, <1>15, <1>16, <1>17

\* The invariant is inductive.
LEMMA WalletInvNext == WalletInv /\ [Next]_vars => WalletInv'
<1> SUFFICES ASSUME WalletInv, [Next]_vars PROVE WalletInv'
  OBVIOUS
<1>1. /\ wallet \in Wallets /\ wallet \in WalletType /\ chain \in Seq(Seq(TxSet))
      /\ pool \in SUBSET TxSet /\ IsFiniteSet(pool) /\ unwound \in Nat
  BY DEF WalletInv, Wallets
<1>2. Node(State)
  BY <1>1 DEF Node, State
<1>3. ASSUME Pay PROVE WalletInv'
  <2>1. PICK p \in Payments : \E r \in PaymentsOf(wallet, p, Len(chain)) : Submit(r)
    BY <1>3 DEF Pay
  <2>2. p \in Nat \X Nat
    BY WalletAssumption
  <2>3. PICK r \in PaymentsOf(wallet, p, Len(chain)) : Submit(r)
    BY <2>1
  <2>4. MadeRight(wallet, r)
    BY <1>1, <2>2, PaymentType
  <2> QED BY <2>3, <2>4, SubmitKeepsInv
<1>4. ASSUME Mint PROVE WalletInv'
  <2>1. PICK slip \in wallet.unspent, deposit \in Deposits, to \in {Me, Other} :
           \E r \in MintsOf(wallet, slip, deposit, to, Len(chain)) : Submit(r)
    BY <1>4 DEF Mint
  <2>2. slip \in Slips /\ deposit \in Nat
    BY <1>1, WalletAssumption DEF WalletType
  <2>3. PICK r \in MintsOf(wallet, slip, deposit, to, Len(chain)) : Submit(r)
    BY <2>1
  <2>4. MadeRight(wallet, r)
    BY <1>1, <2>2, MintType
  <2> QED BY <2>3, <2>4, SubmitKeepsInv
<1>5. ASSUME Send PROVE WalletInv'
  <2>1. PICK nft \in Members(wallet.nfts), to \in {Me, Other} :
           \E r \in SendsOf(wallet, nft, to) : Submit(r)
    BY <1>5 DEF Send
  <2>2. nft \in GroupSet
    <3>1. wallet.nfts \in Seq(GroupSet)
      BY <1>1 DEF WalletType
    <3> QED BY <3>1, MembersFinite
  <2>3. PICK r \in SendsOf(wallet, nft, to) : Submit(r)
    BY <2>1
  <2>4. MadeRight(wallet, r)
    BY <1>1, <2>2, SendType
  <2> QED BY <2>3, <2>4, SubmitKeepsInv
<1>6. ASSUME Bundle PROVE WalletInv'
  BY <1>6, BundleKeepsInv
<1>7. ASSUME Receive PROVE WalletInv'
  <2>1. PICK txs \in PeerBlocks(State) :
           Become(WindBlock(State, txs)) /\ pool' = Cleaned(pool, WindBlock(State, txs))
    BY <1>7, Zenon DEF Receive
  <2>2. txs \in Seq(TxSet)
    BY <1>2, PeerBlocksType
  <2>3. Node(WindBlock(State, txs))
    BY <1>2, <2>2, WindBlockStays
  <2>4. pool' \in SUBSET TxSet /\ IsFiniteSet(pool')
    BY <1>1, <2>1, CleanedType
  <2>5. unwound' = unwound
    BY <1>7 DEF Receive
  <2>6. ASSUME unwound = 0
        PROVE  Promised(WindBlock(State, txs).wallet, Len(WindBlock(State, txs).chain))
    <3>1. State.wallet = wallet /\ State.chain = chain
      BY DEF State
    <3>2. Promised(wallet, Len(chain)) /\ Len(chain) \in Nat
      BY <2>6 DEF WalletInv
    <3>3. /\ WindBlock(State, txs).wallet \in From(wallet, Len(chain) + 1)
          /\ Len(WindBlock(State, txs).chain) = Len(chain) + 1
      BY <1>2, <2>2, <3>1, WindBlockStays
    <3> QED BY <1>1, <3>2, <3>3, BlockPromise
  <2> QED BY <1>1, <2>1, <2>3, <2>4, <2>5, <2>6, BecomeKeepsInv
<1>8. ASSUME Reorganise PROVE WalletInv'
  <2>1. PICK below : below = UnwindBlock(State)
    OBVIOUS
  <2>2. PICK txs \in PeerBlocks(below), a \in Receipts :
           \E side, st :
              /\ side = WindBlock(below, txs)
              /\ st = WindBlock(side, Receipt(a) \o Rebroadcasts(side))
              /\ Become(st) /\ pool' = Cleaned(pool, st)
    BY <1>8, <2>1, Zenon DEF Reorganise
  <2>3. PICK side, st :
           /\ side = WindBlock(below, txs)
           /\ st = WindBlock(side, Receipt(a) \o Rebroadcasts(side))
           /\ Become(st) /\ pool' = Cleaned(pool, st)
    BY <2>2, Zenon
  <2>4. Len(State.chain) > 0
    <3>1. Len(chain) > 1
      BY <1>8 DEF Reorganise, CanUnwind
    <3> QED BY <1>1, <3>1 DEF State
  <2>5. Node(below)
    BY <1>2, <2>1, <2>4, UnwindBlockStays
  <2>6. Node(side)
    <3>1. txs \in Seq(TxSet)
      BY <2>5, PeerBlocksType
    <3> QED BY <2>3, <2>5, <3>1, WindBlockStays
  <2>7. Node(st)
    <3>1. Receipt(a) \o Rebroadcasts(side) \in Seq(TxSet)
      BY <2>6, ReceiptType, RebroadcastsType DEF Node
    <3> QED BY <2>3, <2>6, <3>1, WindBlockStays
  <2>8. pool' \in SUBSET TxSet /\ IsFiniteSet(pool')
    BY <1>1, <2>3, CleanedType
  <2>9. unwound' \in Nat /\ unwound' # 0
    BY <1>1, <1>8 DEF Reorganise
  <2> QED BY <2>3, <2>7, <2>8, <2>9, BecomeKeepsInv
<1>9. ASSUME FailToReorganise PROVE WalletInv'
  <2>1. Len(State.chain) > 0 /\ State.chain = chain
    <3>1. Len(chain) > 1
      BY <1>9 DEF FailToReorganise, CanUnwind
    <3> QED BY <1>1, <3>1 DEF State
  <2>2. chain[Len(chain)] \in Seq(TxSet) /\ Len(chain) \in Nat
    BY <1>1, <1>2, <2>1, UnwindBlockStays
  <2>3. PICK gone : gone = UnwindWallet(wallet, chain[Len(chain)], Len(chain))
    OBVIOUS
  <2>4. gone \in Wallets
    BY <1>1, <2>2, <2>3, UnwindWalletStays
  <2>5. PICK again : again = WindWallet(gone, chain[Len(chain)], Len(chain))
    OBVIOUS
  <2>6. again \in Wallets
    BY <2>2, <2>4, <2>5, AnyWinds, WindWalletStays
  <2>7. PICK st : st = [State EXCEPT !.wallet = again]
    OBVIOUS
  <2>8. Node(st)
    BY <1>1, <2>6, <2>7 DEF Node, State
  <2>9. Become(st) /\ pool' = pool
    BY <1>9, <2>3, <2>5, <2>7, Zenon DEF FailToReorganise
  <2>10. unwound' \in Nat /\ unwound' # 0
    BY <1>1, <1>9 DEF FailToReorganise
  <2> QED BY <1>1, <2>8, <2>9, <2>10, BecomeKeepsInv
<1>10. CASE UNCHANGED vars
  BY <1>10, Zenon DEF vars, WalletInv
<1> QED BY <1>3, <1>4, <1>5, <1>6, <1>7, <1>8, <1>9, <1>10 DEF Next

\* For any issue, payments, deposits and periods, however the chain grows, purges and
\* reorganises, the balance of the wallet is what its unspent slips are worth, every
\* unspent slip and every stake is in slips, and none is both: generate_slips and
\* find_slips_for_staking find every slip they look up.
THEOREM BalanceRight == Spec => []BalanceIsUnspent
<1>1. WalletInv => BalanceIsUnspent
  BY DEF WalletInv, Wallets, Balanced, BalanceIsUnspent
<1> QED BY <1>1, WalletInvInit, WalletInvNext, PTL DEF Spec

\* And as long as no block was unwound, two pending payments never spend the same slip:
\* generate_slips takes what a payment spends out of the unspent slips, which only get
\* the slips of new blocks.
THEOREM NoDoublePromise == Spec => []NoSlipPromisedTwice
<1>1. WalletInv => NoSlipPromisedTwice
  BY Zenon DEF WalletInv, Promised, Paying, NoSlipPromisedTwice
<1> QED BY <1>1, WalletInvInit, WalletInvNext, PTL DEF Spec

-----------------------------------------------------------------------------
(* Payments and the rebroadcast.                                           *)

\* The place generate_slips has to find a slip above.
Oldest(tip) == IF tip > GenesisPeriod - 1 THEN tip - (GenesisPeriod - 1) ELSE 0

\* The slips a payment spends are of blocks that stay for two more.
InTime(slips, tip) == \A s \in slips : s.amount > 0 => s.id \in Nat /\ s.id > Oldest(tip)

\* generate_slips: its inputs are in time.
LEMMA GeneratedInTime ==
    ASSUME NEW w \in Wallets, NEW requested, NEW tip,
           NEW g \in GenerateSlips(w, requested, tip)
    PROVE  InTime(Members(g.ins), tip)
<1> DEFINE Inputs(picked) == {AsInput(w, s) : s \in picked}
           zero == NewSlip(Me, 0, "Normal")
           Ins(picked) == IF picked = {} THEN <<zero>> ELSE SetToSeq(Inputs(picked))
<1>1. PICK picked \in Enough(Spendable(w, tip), requested) :
         /\ g.wallet = Take(w, picked)
         /\ g.ins = Ins(picked)
  BY SMTT(40) DEF GenerateSlips
<1>2. picked \in SUBSET Spendable(w, tip)
  BY <1>1 DEF Enough
<1>3. CASE picked = {}
  <2>1. ~(zero.amount > 0)
    BY DEF NewSlip, Slip
  <2>2. \A s \in Members(<<zero>>) : s = zero
    BY DEF Members
  <2> HIDE DEF zero
  <2> QED BY <1>1, <1>3, <2>1, <2>2 DEF InTime
<1>4. CASE picked # {}
  <2>1. \A s \in picked : /\ AsInput(w, s).id = w.slips[s][1]
                          /\ w.slips[s][1] \in Nat /\ w.slips[s][1] > Oldest(tip)
    <3> TAKE s \in picked
    <3>1. s \in w.unspent /\ w.slips[s][1] > Oldest(tip)
      BY <1>2 DEF Spendable, Oldest
    <3>2. s \in Slips /\ w.slips[s] \in Nat \X Nat
      BY <3>1, WalletFacts DEF Wallets, Balanced
    <3>3. w.slips[s][1] \in Nat
      BY <3>2
    <3>4. AsInput(w, s).id = w.slips[s][1]
      BY <3>2 DEF AsInput, Slips
    <3> QED BY <3>1, <3>3, <3>4
  <2>2. IsFiniteSet(Inputs(picked))
    <3> DEFINE f == [s \in picked |-> AsInput(w, s)]
    <3>1. f \in Surjection(picked, Inputs(picked))
      BY DEF Surjection
    <3>2. IsFiniteSet(picked)
      BY <1>2, WalletFacts, FS_Subset DEF Spendable
    <3> HIDE DEF Inputs, f
    <3> QED BY <3>1, <3>2, FS_Surjection
  <2>3. \A s \in Inputs(picked) : s.id \in Nat /\ s.id > Oldest(tip)
    BY <2>1
  <2> HIDE DEF Inputs
  <2>4. Members(SetToSeq(Inputs(picked))) \in SUBSET Inputs(picked)
    BY <2>2, SetToSeqType, MembersFinite
  <2> QED BY <1>1, <1>4, <2>3, <2>4 DEF InTime
<1> QED BY <1>3, <1>4

\* create_with_multiple_payments: so are the inputs of the payment.
LEMMA PaymentInTime ==
    ASSUME NEW w \in Wallets, NEW payment, NEW tip, NEW r \in PaymentsOf(w, payment, tip)
    PROVE  InTime(Members(r.tx.ins), tip)
<1> DEFINE fee == IF payment[2] > w.balance THEN 0 ELSE payment[2]
           total == payment[1] + fee
           out == NewSlip(Other, payment[1], "Normal")
           zero == NewSlip(Me, 0, "Normal")
<1>1. \/ r = [wallet |-> w, enough |-> TRUE, tx |-> Sign(Tx("Normal", <<zero>>, <<out>>, 0))]
      \/ \E g \in GenerateSlips(w, total, tip) :
           r = [wallet |-> g.wallet, enough |-> g.enough,
                tx |-> Sign(Tx("Normal", g.ins, <<g.change, out>>, 0))]
  BY DEF PaymentsOf
<1>2. ~(zero.amount > 0)
  BY DEF NewSlip, Slip
<1> HIDE DEF total, out, zero
<1>3. \A ins, outs : Sign(Tx("Normal", ins, outs, 0)).ins = ins
  BY DEF Sign, Placed, Tx
<1>4. CASE r = [wallet |-> w, enough |-> TRUE, tx |-> Sign(Tx("Normal", <<zero>>, <<out>>, 0))]
  <2>1. r.tx.ins = <<zero>>
    BY <1>3, <1>4
  <2>2. \A s \in Members(<<zero>>) : s = zero
    BY DEF Members
  <2> QED BY <1>2, <2>1, <2>2 DEF InTime
<1>5. ASSUME NEW g \in GenerateSlips(w, total, tip),
             r = [wallet |-> g.wallet, enough |-> g.enough,
                  tx |-> Sign(Tx("Normal", g.ins, <<g.change, out>>, 0))]
      PROVE  InTime(Members(r.tx.ins), tip)
  <2>1. r.tx.ins = g.ins
    BY <1>3, <1>5
  <2> QED BY <2>1, GeneratedInTime
<1> QED BY <1>1, <1>4, <1>5

\* What else the wallet makes is no payment.
LEMMA NoPayment ==
    ASSUME NEW w, NEW r, NEW tip,
           \/ \E slip, deposit, to : r \in MintsOf(w, slip, deposit, to, tip)
           \/ \E nft, to : r \in SendsOf(w, nft, to)
           \/ r \in StakingsOf(w, tip)
    PROVE  r.tx.type # "Normal"
<1>1. \A type, ins, outs : Sign(Tx(type, ins, outs, 0)).type = type
  BY DEF Sign, Placed, Tx
<1>2. ASSUME NEW slip, NEW deposit, NEW to, r \in MintsOf(w, slip, deposit, to, tip)
      PROVE  r.tx.type = "Bound"
  <2>1. \E v, ins, outs : r = [wallet |-> v, enough |-> TRUE, tx |-> Sign(Tx("Bound", ins, outs, 0))]
    BY <1>2, Zenon DEF MintsOf
  <2> QED BY <1>1, <2>1
<1>3. ASSUME NEW nft, NEW to, r \in SendsOf(w, nft, to)
      PROVE  r.tx.type = "Bound"
  <2>1. \E v, ins, outs : r = [wallet |-> v, enough |-> TRUE, tx |-> Sign(Tx("Bound", ins, outs, 0))]
    BY <1>3, Zenon DEF SendsOf
  <2> QED BY <1>1, <2>1
<1>4. ASSUME r \in StakingsOf(w, tip)
      PROVE  r.tx.type = "BlockStake"
  <2>1. \E v, ins, outs : r = [wallet |-> v, enough |-> TRUE, tx |-> Sign(Tx("BlockStake", ins, outs, 0))]
    BY <1>4, Zenon DEF StakingsOf
  <2> QED BY <1>1, <2>1
<1> QED BY <1>2, <1>3, <1>4

\* The latest payment was made in time.
LastInTime == last.tip \in Nat /\ (last.type = "Normal" => InTime(last.ins, last.tip))

\* Whatever is made is recorded with the block it is made at.
LEMMA MadeInTime ==
    ASSUME WalletInv, NEW r, last' = Made(r),
           r.tx.type = "Normal" => InTime(Members(r.tx.ins), Len(chain))
    PROVE  LastInTime'
<1>1. last'.tip = Len(chain) /\ last'.type = r.tx.type /\ last'.ins = Members(r.tx.ins)
  BY DEF Made
<1>2. Len(chain) \in Nat
  BY DEF WalletInv
<1> QED BY <1>1, <1>2 DEF LastInTime, InTime, Oldest

\* A payment never spends a slip of the block that is rebroadcast next or after that:
\* whatever is mined, received or taken back meanwhile, its inputs stay out of the way of
\* the rebroadcast for the two blocks the user is told to wait.
THEOREM PaymentsInTime == Spec => []PaymentOutlivesRebroadcast
<1>1. Init => LastInTime
  <2> SUFFICES ASSUME Init PROVE LastInTime
    OBVIOUS
  <2>1. last = [type |-> "Issuance", ins |-> {}, enough |-> TRUE, valid |-> TRUE, tip |-> 1]
    BY DEF Init
  <2> QED BY <2>1 DEF LastInTime
<1>2. WalletInv /\ LastInTime /\ [Next]_vars => LastInTime'
  <2> SUFFICES ASSUME WalletInv, LastInTime, [Next]_vars PROVE LastInTime'
    OBVIOUS
  <2>1. wallet \in Wallets
    BY DEF WalletInv
  <2>2. CASE Pay
    <3>1. PICK p \in Payments : \E r \in PaymentsOf(wallet, p, Len(chain)) : Submit(r)
      BY <2>2 DEF Pay
    <3>2. PICK r \in PaymentsOf(wallet, p, Len(chain)) : Submit(r)
      BY <3>1
    <3>3. last' = Made(r)
      BY <3>2, Zenon DEF Submit
    <3> QED BY <2>1, <3>3, PaymentInTime, MadeInTime
  <2>3. CASE Mint \/ Send
    <3>1. PICK r : /\ \/ \E slip, deposit, to : r \in MintsOf(wallet, slip, deposit, to, Len(chain))
                      \/ \E nft, to : r \in SendsOf(wallet, nft, to)
                   /\ Submit(r)
      BY <2>3, Zenon DEF Mint, Send
    <3>2. r.tx.type # "Normal"
      BY <3>1, NoPayment
    <3>3. last' = Made(r)
      BY <3>1, Zenon DEF Submit
    <3> QED BY <3>2, <3>3, MadeInTime
  <2>4. CASE Bundle
    <3>1. PICK r \in StakingsOf(wallet, Len(chain)) : last' = Made(r)
      BY <2>4, Zenon DEF Bundle
    <3>2. r.tx.type # "Normal"
      BY NoPayment
    <3> QED BY <3>1, <3>2, MadeInTime
  <2>5. CASE last' = last
    BY <2>5 DEF LastInTime, InTime, Oldest
  <2>6. Receive \/ Reorganise \/ FailToReorganise \/ UNCHANGED vars => last' = last
    BY Zenon DEF Receive, Reorganise, FailToReorganise, vars
  <2> QED BY <2>2, <2>3, <2>4, <2>5, <2>6, Zenon DEF Next
<1>3. WalletInv /\ LastInTime => PaymentOutlivesRebroadcast
  <2> SUFFICES ASSUME WalletInv, LastInTime, last.type = "Normal", Len(chain) <= last.tip + 1,
                      NEW s \in last.ins, s.amount > 0
               PROVE  s.id # Len(chain) - GenesisPeriod
    BY DEF PaymentOutlivesRebroadcast
  <2>1. Len(chain) \in Nat /\ last.tip \in Nat /\ GenesisPeriod \in Nat \ {0}
    BY WalletAssumption DEF WalletInv, LastInTime
  <2>2. s.id \in Nat /\ s.id > Oldest(last.tip)
    BY DEF LastInTime, InTime
  <2> QED BY <2>1, <2>2 DEF Oldest
<1> QED BY <1>1, <1>2, <1>3, WalletInvInit, WalletInvNext, PTL DEF Spec
=============================================================================
