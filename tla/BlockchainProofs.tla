-------------------------- MODULE BlockchainProofs --------------------------
(***************************************************************************)
(* Proofs about Blockchain: on every plain tree of blocks, as long as no   *)
(* reorganisation meets a block that does not validate, add_block          *)
(* implements ForkChoice.                                                  *)
(*                                                                         *)
(* The argument: new_chain and old_chain are the two ways down to the last *)
(* shared block, so that comparing their lengths and burn fees compares    *)
(* ids and work; and at every step of the loop the flagged blocks and the  *)
(* utxoset stand at one block, the cursor, which the loop moves down the   *)
(* old chain and up the new one; and so does the ring, until a block is    *)
(* refused.  About Restart, on any tree: the files of the stored blocks    *)
(* are whole, whenever the node crashes.                                   *)
(***************************************************************************)
EXTENDS Restart, Induction

-----------------------------------------------------------------------------
(* Blocks and their ancestors.                                             *)

Hashes == Blocks \cup {NoBlock}
Ranks == [b \in Hashes |-> IdOf(b)]

\* The types of what a block has, and the id after its parent's.
LEMMA BlockFacts ==
    ASSUME NEW b \in Blocks
    PROVE  /\ b # NoBlock /\ Id[b] \in Nat /\ Id[b] > 0 /\ IdOf(b) = Id[b]
           /\ Prev[b] \in Hashes /\ (Prev[b] # NoBlock => Prev[b] \in Blocks)
           /\ Prev[b] # NoBlock => Id[b] = Id[Prev[b]] + 1
           /\ IdOf(Prev[b]) < Id[b] /\ IdOf(Prev[b]) \in Nat
           /\ BurnFee[b] \in Nat
           /\ Ins[b] \subseteq Keys /\ Outs[b] \subseteq Keys
BY RingAssumption, ChainAssumption DEF IdOf, Hashes

\* Going to the parent lowers the id.
LEMMA HashesDescend ==
    ASSUME PlainTree, NEW Stop, NoBlock \in Stop
    PROVE  /\ RingSize \in Nat
           /\ Ranks \in [Hashes -> 0 .. RingSize]
           /\ Descends(Hashes, Stop, Prev, Ranks)
<1>1. RingSize \in Nat
  BY RingAssumption DEF RingSize
<1>2. ASSUME NEW b \in Hashes PROVE IdOf(b) \in 0 .. RingSize
  <2>1. CASE b = NoBlock
    BY <1>1, <2>1 DEF IdOf
  <2>2. CASE b \in Blocks
    BY <1>1, <2>2, BlockFacts DEF PlainTree
  <2> QED BY <2>1, <2>2 DEF Hashes
<1>3. ASSUME NEW b \in Hashes \ Stop PROVE Prev[b] \in Hashes /\ Ranks[Prev[b]] < Ranks[b]
  <2>1. b \in Blocks
    BY DEF Hashes
  <2> QED BY <2>1, BlockFacts DEF Ranks
<1> QED BY <1>1, <1>2, <1>3 DEF Ranks, Descends

\* What holds where the way down stops, and of a block when it holds of its
\* parent, holds everywhere.
LEMMA HashInduction ==
    ASSUME PlainTree, NEW Stop, NoBlock \in Stop, NEW T,
           \A b \in Hashes \cap Stop : b \in T,
           \A b \in Hashes \ Stop : Prev[b] \in T => b \in T
    PROVE  \A b \in Hashes : b \in T
<1>1. PICK D : D = Hashes
  OBVIOUS
<1>2. PICK parent : parent = Prev
  OBVIOUS
<1>3. PICK rank : rank = Ranks
  OBVIOUS
<1>4. PICK max : max = RingSize
  OBVIOUS
<1>5. max \in Nat /\ rank \in [D -> 0 .. max] /\ Descends(D, Stop, parent, rank)
  BY <1>1, <1>2, <1>3, <1>4, HashesDescend
<1>6. /\ \A b \in D \cap Stop : b \in T
      /\ \A b \in D \ Stop : parent[b] \in T => b \in T
  BY <1>1, <1>2
<1>7. \A b \in D : b \in T
  BY <1>5, <1>6, DescentInduction
<1> QED BY <1>1, <1>7

\* Work: the burn fees of a block and its ancestors.
LEMMA WorkFacts ==
    ASSUME PlainTree
    PROVE  /\ FC!Work(NoBlock) = 0
           /\ \A b \in Hashes : FC!Work(b) \in Nat
           /\ \A b \in Blocks : FC!Work(b) = BurnFee[b] + FC!Work(Prev[b])
<1> DEFINE step == [e \in Nat \X Hashes |->
                      IF e[2] \in Blocks THEN BurnFee[e[2]] + e[1] ELSE 0]
           work == CHOOSE g : g = [x \in Blocks \cup {NoBlock} |->
                      IF x = NoBlock THEN 0 ELSE BurnFee[x] + g[Prev[x]]]
<1>1. step \in [Nat \X Hashes -> Nat]
  BY BlockFacts
<1>2. PICK f \in [Hashes -> Nat] : Recursive(f, Hashes, {NoBlock}, Prev, 0, step)
  <2>1. NoBlock \in {NoBlock} /\ 0 \in Nat
    OBVIOUS
  <2>2. /\ RingSize \in Nat
        /\ Ranks \in [Hashes -> 0 .. RingSize]
        /\ Descends(Hashes, {NoBlock}, Prev, Ranks)
    BY <2>1, HashesDescend
  <2> HIDE DEF step
  <2> QED BY <1>1, <2>1, <2>2, RecursionExists
<1>3. ASSUME NEW x \in Hashes
      PROVE  f[x] = IF x = NoBlock THEN 0 ELSE BurnFee[x] + f[Prev[x]]
  <2>1. CASE x = NoBlock
    BY <1>2, <2>1 DEF Recursive
  <2>2. CASE x # NoBlock
    <3>1. x \in Blocks /\ Prev[x] \in Hashes /\ f[Prev[x]] \in Nat
      BY <2>2, BlockFacts DEF Hashes
    <3>2. step[<<f[Prev[x]], x>>] = BurnFee[x] + f[Prev[x]]
      BY <3>1
    <3> HIDE DEF step
    <3> QED BY <1>2, <2>2, <3>2 DEF Recursive
  <2> QED BY <2>1, <2>2
<1>4. f = [x \in Blocks \cup {NoBlock} |-> IF x = NoBlock THEN 0 ELSE BurnFee[x] + f[Prev[x]]]
  BY <1>3 DEF Hashes
<1>5. work = [x \in Blocks \cup {NoBlock} |->
                IF x = NoBlock THEN 0 ELSE BurnFee[x] + work[Prev[x]]]
  BY <1>4
<1>6. \A b \in Hashes : FC!Work(b) = work[b]
  BY DEF FC!Work
<1> HIDE DEF work
<1>7. work[NoBlock] = 0 /\ \A b \in Blocks : work[b] = BurnFee[b] + work[Prev[b]]
  BY <1>5, BlockFacts
<1> DEFINE T == {b \in Hashes : work[b] \in Nat}
<1>8. \A b \in Hashes : b \in T
  <2>1. NoBlock \in {NoBlock}
    OBVIOUS
  <2>2. \A b \in Hashes \cap {NoBlock} : b \in T
    BY <1>7
  <2>3. \A b \in Hashes \ {NoBlock} : Prev[b] \in T => b \in T
    BY <1>7, BlockFacts DEF Hashes
  <2> HIDE DEF T, step
  <2> QED BY <2>1, <2>2, <2>3, HashInduction
<1> QED BY <1>6, <1>7, <1>8, BlockFacts DEF Hashes

\* Replay: the keys a block and its ancestors leave.
LEMMA ReplayFacts ==
    ASSUME PlainTree
    PROVE  /\ FC!Replay(NoBlock) = {}
           /\ \A b \in Blocks : FC!Replay(b) = (FC!Replay(Prev[b]) \ Ins[b]) \cup Outs[b]
<1> DEFINE step == [e \in (SUBSET Keys) \X Hashes |->
                      IF e[2] \in Blocks THEN (e[1] \ Ins[e[2]]) \cup Outs[e[2]] ELSE {}]
           replay == CHOOSE g : g = [x \in Blocks \cup {NoBlock} |->
                      IF x = NoBlock THEN {} ELSE (g[Prev[x]] \ Ins[x]) \cup Outs[x]]
<1>1. step \in [(SUBSET Keys) \X Hashes -> SUBSET Keys]
  BY BlockFacts
<1>2. PICK f \in [Hashes -> SUBSET Keys] : Recursive(f, Hashes, {NoBlock}, Prev, {}, step)
  <2>1. NoBlock \in {NoBlock} /\ {} \in SUBSET Keys
    OBVIOUS
  <2>2. /\ RingSize \in Nat
        /\ Ranks \in [Hashes -> 0 .. RingSize]
        /\ Descends(Hashes, {NoBlock}, Prev, Ranks)
    BY <2>1, HashesDescend
  <2> HIDE DEF step
  <2> QED BY <1>1, <2>1, <2>2, RecursionExists
<1>3. ASSUME NEW x \in Hashes
      PROVE  f[x] = IF x = NoBlock THEN {} ELSE (f[Prev[x]] \ Ins[x]) \cup Outs[x]
  <2>1. CASE x = NoBlock
    BY <1>2, <2>1 DEF Recursive
  <2>2. CASE x # NoBlock
    <3>1. x \in Blocks /\ Prev[x] \in Hashes /\ f[Prev[x]] \in SUBSET Keys
      BY <2>2, BlockFacts DEF Hashes
    <3>2. step[<<f[Prev[x]], x>>] = (f[Prev[x]] \ Ins[x]) \cup Outs[x]
      BY <3>1
    <3> HIDE DEF step
    <3> QED BY <1>2, <2>2, <3>2 DEF Recursive
  <2> QED BY <2>1, <2>2
<1>4. f = [x \in Blocks \cup {NoBlock} |->
             IF x = NoBlock THEN {} ELSE (f[Prev[x]] \ Ins[x]) \cup Outs[x]]
  BY <1>3 DEF Hashes
<1>5. replay = [x \in Blocks \cup {NoBlock} |->
                  IF x = NoBlock THEN {} ELSE (replay[Prev[x]] \ Ins[x]) \cup Outs[x]]
  BY <1>4
<1>6. \A b \in Hashes : FC!Replay(b) = replay[b]
  BY DEF FC!Replay
<1> HIDE DEF replay
<1>7. /\ replay[NoBlock] = {}
      /\ \A b \in Blocks : replay[b] = (replay[Prev[b]] \ Ins[b]) \cup Outs[b]
  BY <1>5, BlockFacts
<1> QED BY <1>6, <1>7, BlockFacts DEF Hashes

-----------------------------------------------------------------------------
(* The walk down the ancestors.                                            *)

\* Every element is the parent of the one before it.
Chained(s) == \A i \in 1 .. Len(s) - 1 : s[i + 1] = Prev[s[i]]

\* A list of ancestors from b down, none of them outside stored or in stop.
IsWalk(w, stored, stop, b) ==
    /\ w \in Seq(Blocks)
    /\ w = << >> <=> b \notin stored \/ b \in stop
    /\ w # << >> =>
          /\ w[1] = b /\ Chained(w)
          /\ \A i \in 1 .. Len(w) : /\ w[i] \in stored /\ w[i] \notin stop
                                    /\ Id[w[i]] = Id[b] + 1 - i
          /\ Prev[w[Len(w)]] \notin stored \/ Prev[w[Len(w)]] \in stop

\* A walk from the parent is one from the block.
LEMMA WalkOneMore ==
    ASSUME NEW stored \in SUBSET Blocks, NEW stop, NEW b \in stored, b \notin stop,
           NEW w, IsWalk(w, stored, stop, Prev[b])
    PROVE  IsWalk(<<b>> \o w, stored, stop, b)
<1> DEFINE u == <<b>> \o w
<1>0. b \in Blocks /\ w \in Seq(Blocks) /\ Len(w) \in Nat
  BY DEF IsWalk
<1>1. u \in Seq(Blocks) /\ Len(u) = Len(w) + 1 /\ u[1] = b /\ u # << >>
  BY <1>0
<1>2. \A i \in 1 .. Len(w) : u[i + 1] = w[i]
  BY <1>0
<1>3. CASE w = << >>
  <2>1. Len(w) = 0 /\ Len(u) = 1
    BY <1>1, <1>3
  <2>2. Prev[b] \notin stored \/ Prev[b] \in stop
    BY <1>3 DEF IsWalk
  <2> HIDE DEF u
  <2>3. \A i \in 1 .. Len(u) : i = 1 /\ u[i] = b /\ Id[b] = Id[b] + 1 - 1
    BY <1>1, <2>1, BlockFacts
  <2>4. Chained(u)
    BY <2>1 DEF Chained
  <2> QED BY <1>0, <1>1, <2>1, <2>2, <2>3, <2>4 DEF IsWalk
<1>4. CASE w # << >>
  <2> HIDE DEF u
  <2>1. /\ w[1] = Prev[b] /\ Chained(w) /\ Len(w) >= 1
        /\ Prev[b] \in stored
    BY <1>0, <1>4 DEF IsWalk
  <2>2. Id[b] = Id[Prev[b]] + 1 /\ Id[b] \in Nat /\ Id[Prev[b]] \in Nat
    BY <1>0, <2>1, BlockFacts, RingAssumption
  <2>3. ASSUME NEW i \in 1 .. Len(u)
        PROVE  u[i] \in stored /\ u[i] \notin stop /\ Id[u[i]] = Id[b] + 1 - i
    <3>1. CASE i = 1
      BY <1>1, <2>2, <3>1
    <3>2. CASE i > 1
      <4>1. i - 1 \in 1 .. Len(w) /\ u[i] = w[i - 1]
        BY <1>0, <1>1, <1>2, <3>2
      <4>2. w[i - 1] \in stored /\ w[i - 1] \notin stop /\ Id[w[i - 1]] = Id[Prev[b]] + 1 - (i - 1)
        BY <1>4, <4>1 DEF IsWalk
      <4> QED BY SMTT(40), <2>2, <4>1, <4>2
    <3> QED BY <1>0, <1>1, <3>1, <3>2
  <2>4. ASSUME NEW i \in 1 .. Len(u) - 1 PROVE u[i + 1] = Prev[u[i]]
    <3>1. CASE i = 1
      BY <1>1, <1>2, <1>0, <2>1, <3>1
    <3>2. CASE i > 1
      <4>1. i - 1 \in 1 .. Len(w) - 1 /\ i \in 1 .. Len(w) /\ i - 1 \in 1 .. Len(w)
        BY <1>0, <1>1, <3>2
      <4>2. u[i] = w[i - 1] /\ u[i + 1] = w[i]
        BY <1>2, <4>1
      <4> QED BY <2>1, <4>1, <4>2 DEF Chained
    <3> QED BY <1>0, <1>1, <3>1, <3>2
  <2>5. u[Len(u)] = w[Len(w)]
    BY <1>0, <1>1, <1>2, <2>1
  <2>6. Prev[u[Len(u)]] \notin stored \/ Prev[u[Len(u)]] \in stop
    BY <1>4, <2>5 DEF IsWalk
  <2>7. IsWalk(u, stored, stop, b)
    BY <1>0, <1>1, <2>3, <2>4, <2>6 DEF IsWalk, Chained
  <2> QED BY <2>7 DEF u
<1> QED BY <1>3, <1>4

\* Walk computes a walk.
LEMMA WalkFacts ==
    ASSUME PlainTree, NEW stored \in SUBSET Blocks, NEW stop, NEW b \in Hashes
    PROVE  IsWalk(Walk(stored, stop, b), stored, stop, b)
<1> DEFINE Ends == (Hashes \ stored) \cup stop
           step == [e \in Seq(Blocks) \X Hashes |->
                      IF e[2] \in Blocks THEN <<e[2]>> \o e[1] ELSE << >>]
           walk == CHOOSE g : g = [x \in Blocks \cup {NoBlock} |->
                      IF x \notin stored \/ x \in stop THEN << >> ELSE <<x>> \o g[Prev[x]]]
<1>0. NoBlock \in Ends
  BY RingAssumption DEF Hashes
<1>1. step \in [Seq(Blocks) \X Hashes -> Seq(Blocks)]
  OBVIOUS
<1>2. /\ RingSize \in Nat
      /\ Ranks \in [Hashes -> 0 .. RingSize]
      /\ Descends(Hashes, Ends, Prev, Ranks)
  <2> HIDE DEF Ends
  <2> QED BY <1>0, HashesDescend
<1>3. PICK f \in [Hashes -> Seq(Blocks)] : Recursive(f, Hashes, Ends, Prev, << >>, step)
  <2>1. << >> \in Seq(Blocks)
    OBVIOUS
  <2> HIDE DEF step, Ends
  <2> QED BY <1>1, <1>2, <2>1, RecursionExists
<1>4. ASSUME NEW x \in Hashes
      PROVE  f[x] = IF x \notin stored \/ x \in stop THEN << >> ELSE <<x>> \o f[Prev[x]]
  <2>1. CASE x \in Ends
    BY <1>3, <2>1 DEF Recursive
  <2>2. CASE x \notin Ends
    <3>1. x \in Blocks /\ Prev[x] \in Hashes /\ f[Prev[x]] \in Seq(Blocks)
      BY <2>2, BlockFacts DEF Hashes
    <3>2. step[<<f[Prev[x]], x>>] = <<x>> \o f[Prev[x]]
      BY <3>1
    <3>3. f[x] = step[<<f[Prev[x]], x>>]
      <4> HIDE DEF step, Ends
      <4> QED BY <1>3, <2>2 DEF Recursive
    <3> HIDE DEF step
    <3> QED BY <2>2, <3>2, <3>3
  <2> QED BY <2>1, <2>2
<1>5. f = [x \in Blocks \cup {NoBlock} |->
             IF x \notin stored \/ x \in stop THEN << >> ELSE <<x>> \o f[Prev[x]]]
  BY <1>4 DEF Hashes
<1>6. walk = [x \in Blocks \cup {NoBlock} |->
                IF x \notin stored \/ x \in stop THEN << >> ELSE <<x>> \o walk[Prev[x]]]
  BY <1>5
<1>7. Walk(stored, stop, b) = walk[b]
  BY DEF Walk
<1> HIDE DEF walk
<1> DEFINE T == {x \in Hashes : IsWalk(walk[x], stored, stop, x)}
<1>8. \A x \in Hashes \cap Ends : x \in T
  <2> SUFFICES ASSUME NEW x \in Hashes \cap Ends PROVE IsWalk(walk[x], stored, stop, x)
    OBVIOUS
  <2>1. walk[x] = << >> /\ (x \notin stored \/ x \in stop)
    BY <1>6 DEF Hashes
  <2> QED BY <2>1 DEF IsWalk
<1>9. \A x \in Hashes \ Ends : Prev[x] \in T => x \in T
  <2> SUFFICES ASSUME NEW x \in Hashes \ Ends, IsWalk(walk[Prev[x]], stored, stop, Prev[x])
               PROVE  IsWalk(walk[x], stored, stop, x)
    OBVIOUS
  <2>1. x \in stored /\ x \notin stop /\ walk[x] = <<x>> \o walk[Prev[x]]
    BY <1>6 DEF Hashes
  <2> QED BY SMTT(40), <2>1, WalkOneMore
<1>10. \A x \in Hashes : x \in T
  <2> HIDE DEF T, Ends
  <2> QED BY <1>0, <1>8, <1>9, HashInduction
<1> QED BY <1>7, <1>10

\* The burn fees of a chain are the work from its end to its start.
LEMMA FeesOfChain ==
    ASSUME PlainTree, NEW w \in Seq(Blocks), w # << >>, Chained(w)
    PROVE  TotalBurnFee(w) = FC!Work(w[1]) - FC!Work(Prev[w[Len(w)]])
<1> DEFINE n == Len(w)
           D == 1 .. n
           pick == [s \in SUBSET D |-> Max(s)]
           step == [e \in Nat \X D |-> e[1] + BurnFee[w[e[2]]]]
           fees == CHOOSE g : g = [s \in SUBSET D |->
                     IF s = {} THEN 0 ELSE g[s \ {Max(s)}] + BurnFee[w[Max(s)]]]
<1>1. n \in Nat /\ n > 0 /\ DOMAIN w = D /\ \A i \in D : w[i] \in Blocks
  OBVIOUS
<1>2. TotalBurnFee(w) = fees[D]
  BY <1>1, Zenon DEF TotalBurnFee, FoldLeft, MapThenFoldSet
<1>3. IsFiniteSet(D) /\ IsPick(pick, D)
  BY <1>1, LargestIsPick
<1>4. step \in [Nat \X D -> Nat]
  BY <1>1, BlockFacts
<1>5. PICK g \in [SUBSET D -> Nat] : Folds(g, D, pick, 0, step)
  <2>1. 0 \in Nat
    OBVIOUS
  <2> HIDE DEF pick, step, fees, D
  <2> QED BY <1>3, <1>4, <2>1, FoldExists
<1>6. ASSUME NEW s \in SUBSET D
      PROVE  g[s] = IF s = {} THEN 0 ELSE g[s \ {Max(s)}] + BurnFee[w[Max(s)]]
  <2>1. CASE s # {}
    <3>1. pick[s] = Max(s) /\ Max(s) \in D
      BY <1>1, <2>1, MaxExists
    <3>2. g[s \ {Max(s)}] \in Nat
      OBVIOUS
    <3>3. step[<<g[s \ {Max(s)}], Max(s)>>] = g[s \ {Max(s)}] + BurnFee[w[Max(s)]]
      BY <3>1, <3>2
    <3> HIDE DEF step, pick
    <3> QED BY <1>5, <2>1, <3>1, <3>3 DEF Folds
  <2> QED BY <1>5, <2>1 DEF Folds
<1>7. g = [s \in SUBSET D |->
             IF s = {} THEN 0 ELSE g[s \ {Max(s)}] + BurnFee[w[Max(s)]]]
  BY <1>6
<1>8. fees = [s \in SUBSET D |->
                IF s = {} THEN 0 ELSE fees[s \ {Max(s)}] + BurnFee[w[Max(s)]]]
  BY <1>7
<1> HIDE DEF fees
<1>9. ASSUME NEW k \in D PROVE fees[1 .. k] = fees[1 .. k - 1] + BurnFee[w[k]]
  <2>1. k \in Nat /\ k > 0 /\ 1 .. k \in SUBSET D
    BY <1>1
  <2>2. Max(1 .. k) = k /\ (1 .. k) \ {k} = 1 .. k - 1 /\ 1 .. k # {}
    BY <2>1, MaxOfRange
  <2> HIDE DEF D
  <2> QED BY <1>8, <2>1, <2>2
<1>10. fees[1 .. 0] = 0
  <2>1. 1 .. 0 = {}
    OBVIOUS
  <2> HIDE DEF D
  <2> QED BY <1>8, <2>1
<1> DEFINE T == {k \in 0 .. n : k = 0 \/ fees[1 .. k] = FC!Work(w[1]) - FC!Work(Prev[w[k]])}
<1>11. 0 \in T
  BY <1>1
<1>12. ASSUME NEW k \in T, k < n PROVE k + 1 \in T
  <2>1. k \in 0 .. n /\ k + 1 \in D /\ k + 1 \in 0 .. n /\ (k + 1) - 1 = k
    BY <1>1, <1>12
  <2>2. w[k + 1] \in Blocks
    BY <1>1, <2>1
  <2>3. /\ FC!Work(w[k + 1]) = BurnFee[w[k + 1]] + FC!Work(Prev[w[k + 1]])
        /\ FC!Work(Prev[w[k + 1]]) \in Nat /\ BurnFee[w[k + 1]] \in Nat
    BY <2>2, WorkFacts, BlockFacts
  <2>4. fees[1 .. k + 1] = fees[1 .. k] + BurnFee[w[k + 1]]
    BY <1>9, <2>1
  <2>5. CASE k = 0
    <3>1. fees[1 .. 1] = 0 + BurnFee[w[1]]
      BY <1>10, <2>4, <2>5
    <3> QED BY <2>1, <2>3, <2>5, <3>1
  <2>6. CASE k # 0
    <3>1. k \in D /\ k \in 1 .. Len(w) - 1
      BY <2>1, <2>6, <1>12
    <3>2. w[k + 1] = Prev[w[k]]
      BY <3>1 DEF Chained
    <3>3. fees[1 .. k] = FC!Work(w[1]) - FC!Work(w[k + 1])
      BY <2>6, <3>2, <1>12
    <3>4. FC!Work(w[1]) \in Nat
      BY <1>1, WorkFacts DEF Hashes
    <3>5. fees[1 .. k + 1] = FC!Work(w[1]) - FC!Work(Prev[w[k + 1]])
      BY <2>3, <2>4, <3>3, <3>4
    <3> QED BY <2>1, <3>5
  <2> QED BY <2>5, <2>6
<1>13. T = 0 .. n
  <2>1. T \subseteq 0 .. n
    OBVIOUS
  <2> HIDE DEF T, D
  <2> QED BY <1>1, <1>11, <1>12, <2>1, RangeInduction
<1>14. n \in T
  <2> HIDE DEF T
  <2> QED BY <1>1, <1>13
<1> QED BY <1>1, <1>2, <1>14

\* An empty chain has none.
LEMMA NoFees == TotalBurnFee(<< >>) = 0
<1> DEFINE fees == CHOOSE g : g = [s \in SUBSET {} |->
                     IF s = {} THEN 0 ELSE g[s \ {Max(s)}] + BurnFee[<< >>[Max(s)]]]
           zero == [s \in SUBSET {} |-> 0]
<1>1. DOMAIN << >> = {}
  OBVIOUS
<1>2. TotalBurnFee(<< >>) = fees[{}]
  BY <1>1, Zenon DEF TotalBurnFee, FoldLeft, MapThenFoldSet
<1>3. zero = [s \in SUBSET {} |->
                IF s = {} THEN 0 ELSE zero[s \ {Max(s)}] + BurnFee[<< >>[Max(s)]]]
  OBVIOUS
<1>4. fees = [s \in SUBSET {} |->
                IF s = {} THEN 0 ELSE fees[s \ {Max(s)}] + BurnFee[<< >>[Max(s)]]]
  <2> HIDE DEF zero
  <2> QED BY <1>3
<1> HIDE DEF fees
<1> QED BY <1>2, <1>4

-----------------------------------------------------------------------------
(* The block ring.                                                         *)

\* The latest block of the ring is c.
RingAt(r, c) ==
    IF c = NoBlock THEN r.lcPos = NoSlot
    ELSE /\ r.lcPos = SlotOf(Id[c])
         /\ r.items[r.lcPos].lcPos \in 1 .. Len(r.items[r.lcPos].hashes)
         /\ r.items[r.lcPos].hashes[r.items[r.lcPos].lcPos] = c

\* A block id has a slot, and the ids that do not come around have one each.
LEMMA SlotFacts ==
    /\ \A id \in Nat : SlotOf(id) \in Slots
    /\ \A i, j \in 1 .. RingSize : i # j => SlotOf(i) # SlotOf(j)
    /\ NoSlot \notin Slots
BY RingAssumption DEF SlotOf, RingSize, Slots, NoSlot

\* get_latest_block_hash and get_latest_block_id answer with the latest block.
LEMMA LatestFacts ==
    ASSUME NEW r, IsRing(r), NEW c \in Hashes, RingAt(r, c)
    PROVE  LatestHash(r) = c /\ LatestId(r) = IdOf(c) /\ ~LatestPanics(r)
<1>1. CASE c = NoBlock
  BY <1>1 DEF RingAt, LatestPanics, LatestHash, LatestId, IdOf
<1>2. CASE c # NoBlock
  <2>1. c \in Blocks /\ SlotOf(Id[c]) \in Slots
    BY <1>2, SlotFacts, BlockFacts DEF Hashes
  <2>2. /\ r.lcPos = SlotOf(Id[c]) /\ r.lcPos # NoSlot
        /\ r.items[r.lcPos].lcPos \in 1 .. Len(r.items[r.lcPos].hashes)
        /\ r.items[r.lcPos].hashes[r.items[r.lcPos].lcPos] = c
    BY <1>2, <2>1, SlotFacts DEF RingAt
  <2>3. Len(r.items[r.lcPos].hashes) \in Nat
    BY <2>1, <2>2 DEF IsRing
  <2>4. ~LatestPanics(r)
    BY <2>2, <2>3 DEF LatestPanics
  <2>5. LatestHash(r) = c
    BY <2>2, <2>3, <2>4 DEF LatestHash
  <2> QED BY <1>2, <2>4, <2>5 DEF LatestId, IdOf
<1> QED BY <1>1, <1>2

\* add_block stores the block and leaves the latest one.
LEMMA RingAddFacts ==
    ASSUME NEW r, IsRing(r), NEW b \in Blocks
    PROVE  /\ IsRing(RingAdd(r, b))
           /\ \A s \in Slots : Stored(RingAdd(r, b), s) =
                 Stored(r, s) \cup (IF s = SlotOf(Id[b]) THEN {b} ELSE {})
           /\ \A c \in Hashes : RingAt(r, c) => RingAt(RingAdd(r, b), c)
<1> DEFINE t == SlotOf(Id[b])
           q == RingAdd(r, b)
<1>1. t \in Slots
  BY SlotFacts, BlockFacts
<1>2. CASE b \in Stored(r, t)
  BY <1>2 DEF RingAdd
<1>3. CASE b \notin Stored(r, t)
  <2>1. q = [r EXCEPT !.items[t].hashes = Append(@, b)]
    BY <1>3 DEF RingAdd
  <2>2. /\ r.items \in [Slots -> [hashes : Seq(Blocks), lcPos : Nat]]
        /\ r.items[t].hashes \in Seq(Blocks) /\ r.items[t].lcPos \in Nat
    BY <1>1 DEF IsRing
  <2>3. /\ q.lcPos = r.lcPos
        /\ q.items = [r.items EXCEPT ![t].hashes = Append(@, b)]
        /\ q = [items |-> q.items, lcPos |-> q.lcPos]
    BY <2>1 DEF IsRing
  <2>4. [r.items[t] EXCEPT !.hashes = Append(@, b)] \in [hashes : Seq(Blocks), lcPos : Nat]
    <3>1. r.items[t] \in [hashes : Seq(Blocks), lcPos : Nat]
      BY <1>1, <2>2
    <3>2. Append(r.items[t].hashes, b) \in Seq(Blocks)
      BY <2>2
    <3> QED BY <3>1, <3>2
  <2> HIDE DEF q
  <2>5. q.items \in [Slots -> [hashes : Seq(Blocks), lcPos : Nat]]
    BY <2>2, <2>3, <2>4
  <2>6. IsRing(q)
    BY <2>3, <2>5 DEF IsRing
  <2>7. /\ q.items[t].hashes = Append(r.items[t].hashes, b)
        /\ q.items[t].lcPos = r.items[t].lcPos
        /\ \A s \in Slots : s # t => q.items[s] = r.items[s]
    BY <1>1, <2>2, <2>3
  <2>8. Stored(q, t) = Stored(r, t) \cup {b}
    <3> DEFINE h == r.items[t].hashes
    <3>1. Len(h) \in Nat /\ Len(Append(h, b)) = Len(h) + 1
      BY <2>2
    <3>2. \A i \in 1 .. Len(h) : Append(h, b)[i] = h[i]
      BY <2>2
    <3>3. Append(h, b)[Len(h) + 1] = b
      BY <2>2
    <3> HIDE DEF h
    <3>4. {Append(h, b)[i] : i \in 1 .. Len(h) + 1} = {h[i] : i \in 1 .. Len(h)} \cup {b}
      BY <3>1, <3>2, <3>3
    <3> QED BY <2>7, <3>1, <3>4 DEF Stored, h
  <2>9. \A s \in Slots : s # t => Stored(q, s) = Stored(r, s)
    BY <2>7 DEF Stored
  <2>10. ASSUME NEW c \in Hashes, RingAt(r, c) PROVE RingAt(q, c)
    <3>1. CASE c = NoBlock
      BY <2>3, <2>10, <3>1 DEF RingAt
    <3>2. CASE c # NoBlock
      <4>1. r.lcPos = SlotOf(Id[c]) /\ r.lcPos \in Slots
        BY <2>10, <3>2, SlotFacts, BlockFacts DEF RingAt, Hashes
      <4>2. CASE r.lcPos # t
        BY <2>3, <2>7, <2>10, <3>2, <4>1, <4>2 DEF RingAt
      <4>3. CASE r.lcPos = t
        <5>1. PICK h \in Seq(Blocks) : h = r.items[t].hashes
          BY <2>2
        <5>2. PICK m : m = r.items[t].lcPos
          OBVIOUS
        <5>3. m \in 1 .. Len(h) /\ h[m] = c
          BY <2>10, <3>2, <4>3, <5>1, <5>2 DEF RingAt
        <5>4. m \in 1 .. Len(Append(h, b)) /\ Append(h, b)[m] = c
          BY <5>3
        <5>5. q.items[t].hashes = Append(h, b) /\ q.items[t].lcPos = m /\ q.lcPos = t
          BY <2>3, <2>7, <4>3, <5>1, <5>2
        <5>6. t = SlotOf(Id[c])
          BY <4>1, <4>3
        <5> HIDE DEF t
        <5> QED BY <3>2, <5>4, <5>5, <5>6 DEF RingAt
      <4> QED BY <4>2, <4>3
    <3> QED BY <3>1, <3>2
  <2>11. \A s \in Slots : Stored(q, s) = Stored(r, s) \cup (IF s = t THEN {b} ELSE {})
    BY <2>8, <2>9
  <2> QED BY <2>6, <2>10, <2>11 DEF q
<1> QED BY <1>2, <1>3

PositionOf(h, b) == SelectInSeq(h, LAMBDA x : x = b)

\* The position of a block that is stored.
LEMMA PositionFacts ==
    ASSUME NEW h \in Seq(Blocks), NEW b, Contains(h, b)
    PROVE  PositionOf(h, b) \in 1 .. Len(h) /\ h[PositionOf(h, b)] = b
<1> DEFINE I == {i \in 1 .. Len(h) : h[i] = b}
<1>1. I # {} /\ I \subseteq 1 .. Len(h) /\ Len(h) \in Nat
  BY DEF Contains
<1>2. Min(I) \in I
  <2>1. I \subseteq Nat
    BY <1>1
  <2> HIDE DEF I
  <2> QED BY <1>1, <2>1, MinExists
<1>3. PositionOf(h, b) = Min(I)
  BY <1>1 DEF PositionOf, SelectInSeq
<1> QED BY <1>2, <1>3

\* Winding makes a stored block the latest.
LEMMA RingWindFacts ==
    ASSUME NEW r, IsRing(r), NEW b \in Blocks, b \in Stored(r, SlotOf(Id[b]))
    PROVE  /\ IsRing(RingWind(r, b))
           /\ \A s \in Slots : Stored(RingWind(r, b), s) = Stored(r, s)
           /\ RingAt(RingWind(r, b), b)
<1> DEFINE t == SlotOf(Id[b])
           p == PositionOf(r.items[t].hashes, b)
           q == RingWind(r, b)
<1>1. t \in Slots /\ b # NoBlock
  BY SlotFacts, BlockFacts
<1>2. /\ r.items \in [Slots -> [hashes : Seq(Blocks), lcPos : Nat]]
      /\ r.items[t].hashes \in Seq(Blocks)
  BY <1>1 DEF IsRing
<1>3. p \in 1 .. Len(r.items[t].hashes) /\ r.items[t].hashes[p] = b
  <2>1. Contains(r.items[t].hashes, b)
    BY DEF Stored, Contains
  <2> QED BY <1>2, <2>1, PositionFacts
<1>4. q = [items |-> [r.items EXCEPT ![t].lcPos = p], lcPos |-> t]
  BY DEF RingWind, PositionOf
<1> HIDE DEF p, q
<1>5. p \in Nat
  BY <1>2, <1>3
<1>6. /\ q.lcPos = t /\ q.items[t].lcPos = p
      /\ \A s \in Slots : q.items[s].hashes = r.items[s].hashes
      /\ q.items \in [Slots -> [hashes : Seq(Blocks), lcPos : Nat]]
  BY <1>1, <1>2, <1>4, <1>5
<1>7. IsRing(q)
  BY <1>1, <1>4, <1>6 DEF IsRing
<1>8. RingAt(q, b)
  BY <1>1, <1>3, <1>6 DEF RingAt
<1> QED BY <1>6, <1>7, <1>8 DEF q, Stored

\* Unwinding keeps what is stored.
LEMMA RingUnwindFacts ==
    ASSUME NEW r, IsRing(r), NEW b \in Blocks
    PROVE  /\ IsRing(RingUnwind(r, b))
           /\ \A s \in Slots : Stored(RingUnwind(r, b), s) = Stored(r, s)
<1> DEFINE t == SlotOf(Id[b])
           items == [r.items EXCEPT ![t].lcPos = 0]
           q == RingUnwind(r, b)
<1>1. t \in Slots
  BY SlotFacts, BlockFacts
<1>2. /\ r.items \in [Slots -> [hashes : Seq(Blocks), lcPos : Nat]]
      /\ r.lcPos \in Slots \cup {NoSlot}
  BY DEF IsRing
<1>3. RolledBack(items, Id[b]) \in Slots \cup {NoSlot}
  <2>1. Id[b] - 1 \in Nat
    BY BlockFacts
  <2>2. SlotOf(Id[b] - 1) \in Slots
    BY <2>1, SlotFacts
  <2> QED BY <2>2 DEF RolledBack
<1>4. /\ items \in [Slots -> [hashes : Seq(Blocks), lcPos : Nat]]
      /\ \A s \in Slots : items[s].hashes = r.items[s].hashes
  BY <1>1, <1>2
<1>5. q = [items |-> items,
           lcPos |-> IF r.lcPos = t THEN RolledBack(items, Id[b]) ELSE r.lcPos]
  BY DEF RingUnwind
<1> HIDE DEF items, q
<1> QED BY <1>2, <1>3, <1>4, <1>5 DEF IsRing, Stored, q

\* The blocks of a list.
Members(s) == {s[i] : i \in 1 .. Len(s)}

\* The hashes delete_block pushes to the new list.
LEMMA LeftFacts ==
    ASSUME NEW h \in Seq(Blocks), NEW gone
    PROVE  LET left == FoldLeft(LAMBDA kept, b : IF b \in gone THEN kept ELSE Append(kept, b),
                                << >>, h)
           IN left \in Seq(Blocks) /\ Members(left) = Members(h) \ gone
<1> DEFINE n == Len(h)
           D == 1 .. n
           Keep(kept, b) == IF b \in gone THEN kept ELSE Append(kept, b)
           pick == [s \in SUBSET D |-> Max(s)]
           step == [e \in Seq(Blocks) \X D |-> Keep(e[1], h[e[2]])]
           fill == CHOOSE g : g = [s \in SUBSET D |->
                     IF s = {} THEN << >>
                     ELSE IF h[Max(s)] \in gone THEN g[s \ {Max(s)}]
                          ELSE Append(g[s \ {Max(s)}], h[Max(s)])]
           left == FoldLeft(LAMBDA kept, b : IF b \in gone THEN kept ELSE Append(kept, b),
                            << >>, h)
<1>1. n \in Nat /\ DOMAIN h = D /\ \A i \in D : h[i] \in Blocks
  OBVIOUS
<1>2. left = fill[D]
  BY <1>1, Zenon DEF FoldLeft, MapThenFoldSet
<1> HIDE DEF left
<1>3. IsFiniteSet(D) /\ IsPick(pick, D)
  BY <1>1, LargestIsPick
<1>4. step \in [Seq(Blocks) \X D -> Seq(Blocks)]
  BY <1>1
<1>5. PICK g \in [SUBSET D -> Seq(Blocks)] : Folds(g, D, pick, << >>, step)
  <2>1. << >> \in Seq(Blocks)
    OBVIOUS
  <2> HIDE DEF pick, step, fill, D
  <2> QED BY <1>3, <1>4, <2>1, FoldExists
<1>6. ASSUME NEW s \in SUBSET D
      PROVE  g[s] = IF s = {} THEN << >> ELSE Keep(g[s \ {Max(s)}], h[Max(s)])
  <2>1. CASE s # {}
    <3>1. pick[s] = Max(s) /\ Max(s) \in D
      BY <1>1, <2>1, MaxExists
    <3>2. g[s \ {Max(s)}] \in Seq(Blocks)
      OBVIOUS
    <3>3. step[<<g[s \ {Max(s)}], Max(s)>>] = Keep(g[s \ {Max(s)}], h[Max(s)])
      BY <3>1, <3>2
    <3> HIDE DEF step, pick, Keep
    <3> QED BY <1>5, <2>1, <3>1, <3>3 DEF Folds
  <2> QED BY <1>5, <2>1 DEF Folds
<1>7. g = [s \in SUBSET D |->
             IF s = {} THEN << >>
             ELSE IF h[Max(s)] \in gone THEN g[s \ {Max(s)}]
                  ELSE Append(g[s \ {Max(s)}], h[Max(s)])]
  BY <1>6
<1>8. fill = [s \in SUBSET D |->
                IF s = {} THEN << >>
                ELSE IF h[Max(s)] \in gone THEN fill[s \ {Max(s)}]
                     ELSE Append(fill[s \ {Max(s)}], h[Max(s)])]
  BY <1>7
<1> HIDE DEF fill
<1> DEFINE First(k) == {h[i] : i \in 1 .. k}
           T == {k \in 0 .. n : /\ fill[1 .. k] \in Seq(Blocks)
                                /\ Members(fill[1 .. k]) = First(k) \ gone}
<1>9. 0 \in T
  <2>1. 1 .. 0 = {} /\ 0 \in 0 .. n
    BY <1>1
  <2>2. fill[1 .. 0] = << >>
    <3> HIDE DEF D
    <3>1. {} \in SUBSET D
      OBVIOUS
    <3> QED BY <1>8, <2>1, <3>1
  <2>3. First(0) = {} /\ Members(<< >>) = {} /\ << >> \in Seq(Blocks)
    BY <2>1 DEF Members
  <2> HIDE DEF First, D
  <2>4. fill[1 .. 0] \in Seq(Blocks) /\ Members(fill[1 .. 0]) = First(0) \ gone
    BY <2>2, <2>3
  <2> QED BY <2>1, <2>4
<1>10. ASSUME NEW k \in T, k < n PROVE k + 1 \in T
  <2>1. k \in Nat /\ k + 1 \in 0 .. n /\ k + 1 \in D /\ 1 .. k + 1 \in SUBSET D
    BY <1>1, <1>10
  <2>2. Max(1 .. k + 1) = k + 1 /\ (1 .. k + 1) \ {k + 1} = 1 .. k /\ 1 .. k + 1 # {}
    <3>1. k + 1 \in Nat /\ k + 1 > 0 /\ (k + 1) - 1 = k
      BY <2>1
    <3> HIDE DEF D, T
    <3> QED BY <3>1, MaxOfRange
  <2>3. fill[1 .. k + 1] = IF h[k + 1] \in gone THEN fill[1 .. k]
                           ELSE Append(fill[1 .. k], h[k + 1])
    <3> HIDE DEF D, T
    <3> QED BY <1>8, <2>1, <2>2
  <2>4. h[k + 1] \in Blocks
    BY <1>1, <2>1
  <2>5. First(k + 1) = First(k) \cup {h[k + 1]}
    <3>1. \A i \in 1 .. k + 1 : i \in 1 .. k \/ i = k + 1
      BY <2>1
    <3>2. 1 .. k \subseteq 1 .. k + 1 /\ k + 1 \in 1 .. k + 1
      BY <2>1
    <3> QED BY <3>1, <3>2
  <2> HIDE DEF First
  <2>6. fill[1 .. k] \in Seq(Blocks) /\ Members(fill[1 .. k]) = First(k) \ gone
    BY <1>10
  <2>7. CASE h[k + 1] \in gone
    <3>1. fill[1 .. k + 1] = fill[1 .. k]
      BY <2>3, <2>7
    <3>2. First(k + 1) \ gone = First(k) \ gone
      BY <2>5, <2>7
    <3> HIDE DEF D
    <3> QED BY <2>1, <2>6, <3>1, <3>2
  <2>8. CASE h[k + 1] \notin gone
    <3> DEFINE u == fill[1 .. k]
               x == h[k + 1]
    <3>1. fill[1 .. k + 1] = Append(u, x)
      BY <2>3, <2>8
    <3>2. u \in Seq(Blocks) /\ x \in Blocks
      BY <2>4, <2>6
    <3> HIDE DEF u, x
    <3>3. Append(u, x) \in Seq(Blocks) /\ Len(Append(u, x)) = Len(u) + 1 /\ Len(u) \in Nat
      BY <3>2
    <3>4. \A i \in 1 .. Len(u) : Append(u, x)[i] = u[i]
      BY <3>2
    <3>5. Append(u, x)[Len(u) + 1] = x
      BY <3>2
    <3>6. Members(Append(u, x)) = Members(u) \cup {x}
      <4>1. {Append(u, x)[i] : i \in 1 .. Len(u) + 1} = {u[i] : i \in 1 .. Len(u)} \cup {x}
        BY <3>3, <3>4, <3>5
      <4> QED BY <3>3, <4>1 DEF Members
    <3>7. Members(Append(u, x)) = First(k + 1) \ gone
      BY <2>5, <2>6, <2>8, <3>6 DEF u, x
    <3> HIDE DEF D
    <3> QED BY <2>1, <3>1, <3>3, <3>7
  <2> QED BY <2>7, <2>8
<1>11. T = 0 .. n
  <2>1. T \subseteq 0 .. n
    OBVIOUS
  <2> HIDE DEF T, D
  <2> QED BY <1>1, <1>9, <1>10, <2>1, RangeInduction
<1>12. n \in T
  <2> HIDE DEF T
  <2> QED BY <1>1, <1>11
<1>13. left \in Seq(Blocks) /\ Members(left) = First(n) \ gone
  <2> HIDE DEF First
  <2> QED BY <1>2, <1>12
<1>14. First(n) = Members(h)
  BY DEF Members
<1> HIDE DEF First
<1> QED BY <1>13, <1>14 DEF left

\* The block of a refused call leaves the ring; the latest block stays.
LEMMA RingDeleteFacts ==
    ASSUME NEW r, IsRing(r), NEW b \in Blocks
    PROVE  LET q == RingDelete(r, Id[b], {b})
           IN  /\ IsRing(q)
               /\ \A s \in Slots : Stored(q, s) =
                     IF s = SlotOf(Id[b]) THEN Stored(r, s) \ {b} ELSE Stored(r, s)
               /\ \A c \in Hashes :
                     RingAt(r, c) /\ (c = NoBlock \/ SlotOf(Id[c]) # SlotOf(Id[b]))
                     => RingAt(q, c)
<1> DEFINE t == SlotOf(Id[b])
           q == RingDelete(r, Id[b], {b})
           h == r.items[t].hashes
           left == FoldLeft(LAMBDA kept, x : IF x \in {b} THEN kept ELSE Append(kept, x),
                            << >>, h)
           d == DeletedItem(r.items[t], {b})
<1>1. t \in Slots /\ h \in Seq(Blocks)
  BY SlotFacts, BlockFacts DEF IsRing
<1>2. left \in Seq(Blocks) /\ Members(left) = Members(h) \ {b}
  BY <1>1, LeftFacts
<1>3. d.hashes = left /\ d \in [hashes : Seq(Blocks), lcPos : Nat]
  <2> DEFINE lc == IF r.items[t].lcPos \in 1 .. Len(r.items[t].hashes)
                   THEN r.items[t].hashes[r.items[t].lcPos] ELSE NoBlock
             p == IF Contains(left, lc) THEN PositionOf(left, lc) ELSE 1
  <2>1. d = [hashes |-> left, lcPos |-> p]
    BY DEF DeletedItem, PositionOf
  <2> HIDE DEF left, lc, d
  <2>2. p \in Nat
    <3>1. CASE Contains(left, lc)
      <4>1. PositionOf(left, lc) \in 1 .. Len(left) /\ Len(left) \in Nat
        BY <1>2, <3>1, PositionFacts
      <4> QED BY <3>1, <4>1
    <3>2. CASE ~Contains(left, lc)
      BY <3>2
    <3> QED BY <3>1, <3>2
  <2> HIDE DEF p
  <2> QED BY <1>2, <2>1, <2>2
<1> HIDE DEF left, d
<1>4. q = [r EXCEPT !.items[t] = d]
  BY DEF RingDelete, d
<1>5. /\ q.lcPos = r.lcPos
      /\ q.items = [r.items EXCEPT ![t] = d]
      /\ q = [items |-> q.items, lcPos |-> q.lcPos]
  BY <1>4 DEF IsRing
<1> HIDE DEF q
<1>6. /\ q.items \in [Slots -> [hashes : Seq(Blocks), lcPos : Nat]]
      /\ q.items[t] = d
      /\ \A s \in Slots : s # t => q.items[s] = r.items[s]
  BY <1>1, <1>3, <1>5 DEF IsRing
<1>7. IsRing(q)
  BY <1>5, <1>6 DEF IsRing
<1>8. Stored(q, t) = Stored(r, t) \ {b}
  BY <1>2, <1>3, <1>6 DEF Stored, Members
<1>9. \A s \in Slots : s # t => Stored(q, s) = Stored(r, s)
  BY <1>6 DEF Stored
<1>10. ASSUME NEW c \in Hashes, RingAt(r, c), c = NoBlock \/ SlotOf(Id[c]) # t
       PROVE  RingAt(q, c)
  <2>1. CASE c = NoBlock
    BY <1>5, <1>10, <2>1 DEF RingAt
  <2>2. CASE c # NoBlock
    <3>1. r.lcPos = SlotOf(Id[c]) /\ r.lcPos \in Slots /\ r.lcPos # t
      BY <1>10, <2>2, SlotFacts, BlockFacts DEF RingAt, Hashes
    <3> QED BY <1>5, <1>6, <1>10, <2>2, <3>1 DEF RingAt
  <2> QED BY <2>1, <2>2
<1> QED BY <1>7, <1>8, <1>9, <1>10 DEF q

-----------------------------------------------------------------------------
(* Longest chains.                                                         *)

\* S is one chain of valid blocks with the tip c.
Linked(S, c) ==
    /\ S \subseteq Blocks \ Invalid
    /\ IF c = NoBlock THEN S = {} ELSE c \in S
    /\ \A x \in S : Prev[x] = NoBlock \/ Prev[x] \in S
    /\ \A x \in S : x = c \/ \E y \in S : Prev[y] = x
    /\ \A x, y \in S : Id[x] = Id[y] => x = y
    /\ \A x \in S : Id[x] <= Id[c]
    /\ \A x, y \in S : Prev[x] = NoBlock => Id[x] <= Id[y]

\* A chain grows by a child of its tip.
LEMMA LinkedUp ==
    ASSUME NEW S, NEW b \in Blocks, b \notin Invalid, Linked(S, Prev[b])
    PROVE  Linked(S \cup {b}, b) /\ b \notin S
<1>1. S \subseteq Blocks
  BY DEF Linked
<1>2. CASE Prev[b] = NoBlock
  BY <1>2, BlockFacts DEF Linked
<1>3. CASE Prev[b] # NoBlock
  <2>1. Prev[b] \in S /\ Id[b] = Id[Prev[b]] + 1
    BY <1>3, BlockFacts DEF Linked
  <2>2. \A x \in S : Id[x] < Id[b] /\ Id[x] \in Nat
    BY <1>1, <2>1, BlockFacts DEF Linked
  <2>3. b \notin S /\ Id[b] \in Nat
    BY <2>2, BlockFacts
  <2>4. b # NoBlock
    BY BlockFacts
  <2> QED BY <1>3, <2>1, <2>2, <2>3, <2>4 DEF Linked
<1> QED BY <1>2, <1>3

\* A chain without its tip ends at the parent.
LEMMA LinkedDown ==
    ASSUME NEW S, NEW c \in Blocks, Linked(S, c), Prev[c] # NoBlock
    PROVE  Linked(S \ {c}, Prev[c])
<1>1. S \subseteq Blocks /\ c \in S /\ c # NoBlock
  BY BlockFacts DEF Linked
<1>2. Prev[c] \in S /\ Id[c] = Id[Prev[c]] + 1 /\ Id[Prev[c]] \in Nat
  BY <1>1, BlockFacts DEF Linked
<1>3. \A x \in S \ {c} : Id[x] <= Id[Prev[c]]
  <2> SUFFICES ASSUME NEW x \in S \ {c} PROVE Id[x] <= Id[Prev[c]]
    OBVIOUS
  <2>1. Id[x] \in Nat /\ Id[x] <= Id[c] /\ Id[x] # Id[c]
    BY <1>1, BlockFacts DEF Linked
  <2> QED BY <1>2, <2>1
<1>4. \A x \in S \ {c} : Prev[x] = NoBlock \/ Prev[x] \in S \ {c}
  <2> SUFFICES ASSUME NEW x \in S \ {c}, Prev[x] # NoBlock PROVE Prev[x] \in S \ {c}
    OBVIOUS
  <2>1. Prev[x] \in S /\ Id[x] = Id[Prev[x]] + 1 /\ Id[Prev[x]] \in Nat /\ x \in Blocks
    BY <1>1, BlockFacts DEF Linked
  <2>2. Id[x] <= Id[Prev[c]]
    BY <1>3
  <2> QED BY <1>2, <2>1, <2>2
<1>5. \A x \in S \ {c} : x = Prev[c] \/ \E y \in S \ {c} : Prev[y] = x
  BY DEF Linked
<1>6. Prev[c] \in S \ {c}
  BY <1>2
<1> QED BY <1>1, <1>3, <1>4, <1>5, <1>6 DEF Linked

\* Replaying a chain of valid blocks leaves what the chain has made and not spent,
\* and the chain spends only what it has made.
Makes(S, k) == \E x \in S : k \in Outs[x]
Spends(S, k) == \E x \in S : k \in Ins[x]
Leaves(c) == \A S \in SUBSET Blocks : Linked(S, c) =>
                 \A k \in Keys : /\ k \in FC!Replay(c) <=> Makes(S, k) /\ ~Spends(S, k)
                                 /\ Spends(S, k) => Makes(S, k)

\* A chain without its tip ends at the parent, also when there is none.
LEMMA LinkedBelow ==
    ASSUME NEW S, NEW c \in Blocks, Linked(S, c)
    PROVE  /\ Linked(S \ {c}, Prev[c]) /\ c \in S
           /\ \A x \in S \ {c} : Id[x] # Id[c]
<1>1. c \in S /\ S \subseteq Blocks
  BY BlockFacts DEF Linked
<1>2. CASE Prev[c] = NoBlock
  <2>1. ASSUME NEW x \in S PROVE x = c
    <3>1. Id[x] <= Id[c] /\ Id[c] <= Id[x] /\ Id[x] \in Nat /\ Id[c] \in Nat
      BY <1>1, <1>2, BlockFacts DEF Linked
    <3>2. Id[x] = Id[c]
      BY <3>1
    <3> QED BY <1>1, <3>2 DEF Linked
  <2>2. S \ {c} = {}
    BY <2>1
  <2> QED BY <1>1, <1>2, <2>2 DEF Linked
<1>3. CASE Prev[c] # NoBlock
  BY <1>1, <1>3, LinkedDown DEF Linked
<1> QED BY <1>2, <1>3

\* What the replay leaves after one more block.
LEMMA LeavesNext ==
    ASSUME PlainTree, KeysNamed, NEW c \in Blocks, Leaves(Prev[c])
    PROVE  Leaves(c)
<1> SUFFICES ASSUME NEW S \in SUBSET Blocks, Linked(S, c), NEW k \in Keys
             PROVE  /\ k \in FC!Replay(c) <=> Makes(S, k) /\ ~Spends(S, k)
                    /\ Spends(S, k) => Makes(S, k)
  BY DEF Leaves
<1> DEFINE R == S \ {c}
<1>1. /\ Linked(R, Prev[c]) /\ c \in S
      /\ \A x \in R : Id[x] # Id[c]
  BY LinkedBelow
<1>2. /\ k \in FC!Replay(Prev[c]) <=> Makes(R, k) /\ ~Spends(R, k)
      /\ Spends(R, k) => Makes(R, k)
  BY <1>1 DEF Leaves
<1>3. /\ Makes(S, k) <=> Makes(R, k) \/ k \in Outs[c]
      /\ Spends(S, k) <=> Spends(R, k) \/ k \in Ins[c]
  BY <1>1 DEF Makes, Spends
<1>4. k \in FC!Replay(c) <=> (k \in FC!Replay(Prev[c]) /\ k \notin Ins[c]) \/ k \in Outs[c]
  BY ReplayFacts
<1>5. k \in Ins[c] => k \in FC!Replay(Prev[c])
  BY <1>1 DEF PlainTree, Linked
<1>6. ~(Makes(R, k) /\ k \in Outs[c])
  BY <1>1 DEF KeysNamed, Makes
<1> QED BY <1>2, <1>3, <1>4, <1>5, <1>6

\* At every block.
LEMMA ReplayLeaves ==
    ASSUME PlainTree, KeysNamed
    PROVE  \A c \in Hashes : Leaves(c)
<1> DEFINE T == {c \in Hashes : Leaves(c)}
<1>1. NoBlock \in {NoBlock}
  OBVIOUS
<1>2. \A c \in Hashes \cap {NoBlock} : c \in T
  BY ReplayFacts DEF Leaves, Linked, Makes, Spends, Hashes
<1>3. \A c \in Hashes \ {NoBlock} : Prev[c] \in T => c \in T
  BY LeavesNext DEF Hashes
<1>4. \A c \in Hashes : c \in T
  <2> HIDE DEF T
  <2> QED BY <1>1, <1>2, <1>3, HashInduction
<1> QED BY <1>4

-----------------------------------------------------------------------------
(* The two chains a new block is compared with.                            *)

\* new goes from b down, old from c down, to the same block.
Branches(new, old, b, c) ==
    /\ new \in Seq(Blocks) /\ new # << >> /\ new[1] = b /\ Chained(new)
    /\ \A i \in 1 .. Len(new) : Id[new[i]] = Id[b] + 1 - i
    /\ old \in Seq(Blocks) /\ Chained(old)
    /\ IF old = << >> THEN c = Prev[new[Len(new)]]
       ELSE /\ old[1] = c /\ c # NoBlock
            /\ Prev[old[Len(old)]] = Prev[new[Len(new)]]
            /\ Prev[old[Len(old)]] # NoBlock

\* The first block starts the longest chain.
LEMMA FirstPlaced ==
    ASSUME PlainTree, empty, IsRing(ring), RingAt(ring, NoBlock),
           inLongestChain = {}, blocks = {}, NEW b \in Blocks, Prev[b] = NoBlock
    PROVE  /\ Placed(b).ring = RingAdd(ring, b) /\ Placed(b).gone = {}
           /\ Branches(Placed(b).new, Placed(b).old, b, NoBlock)
           /\ \A i \in 1 .. Len(Placed(b).new) : Placed(b).new[i] = b
           /\ Placed(b).old = << >> /\ Placed(b).longest
<1> DEFINE new == Walk({b}, {}, b)
           p == RingAdd(ring, b)
<1>1. IsWalk(new, {b}, {}, b)
  BY WalkFacts DEF Hashes
<1>2. /\ new \in Seq(Blocks) /\ new # << >> /\ new[1] = b /\ Chained(new)
      /\ \A i \in 1 .. Len(new) : new[i] = b /\ Id[new[i]] = Id[b] + 1 - i
  BY <1>1 DEF IsWalk
<1> HIDE DEF new
<1>3. Len(new) \in 1 .. Len(new) /\ Len(new) > 0 /\ Prev[new[Len(new)]] = NoBlock
  BY <1>2
<1>4. /\ NoBlock \in Hashes /\ NoBlock \notin Blocks
      /\ LatestHash(ring) = NoBlock
      /\ IsRing(p) /\ RingAt(p, NoBlock) /\ LatestId(p) = 0
  BY LatestFacts, RingAddFacts, RingAssumption DEF Hashes, IdOf
<1>5. Walk({b}, {}, NoBlock) = << >>
  <2>1. IsWalk(Walk({b}, {}, NoBlock), {b}, {}, NoBlock) /\ NoBlock \notin {b}
    BY <1>4, WalkFacts
  <2> QED BY <2>1 DEF IsWalk
<1>6. \A n \in Nat : UpTo(<< >>, n) = << >>
  BY DEF UpTo
<1>7. Monus(0, GenesisPeriod) = 0
  BY RingAssumption DEF Monus
<1> HIDE DEF p
<1>8. /\ blocks \cup {b} = {b} /\ Len(new) + 1 \in Nat
      /\ ~(Prev[new[Len(new)]] \in {})
  BY <1>2
<1>9. Placed(b).gone = {} /\ Placed(b).new = new
  BY <1>8 DEF Placed, new
<1>10. Placed(b).ring = p
  BY <1>8, <1>9 DEF Placed, Disconnect, p
<1>11. Placed(b).old = << >>
  BY <1>3, <1>4, <1>5, <1>6, <1>8 DEF Placed, new
<1>12. Placed(b).longest
  <2>1. Placed(b).longest = /\ Id[b] > Monus(LatestId(Placed(b).ring), GenesisPeriod)
                            /\ IsNewChainTheLongest(Placed(b).ring, Placed(b).new, Placed(b).old)
    BY DEF Placed
  <2>2. Id[b] > 0
    BY BlockFacts
  <2>3. IsNewChainTheLongest(p, new, << >>)
    BY DEF IsNewChainTheLongest
  <2> QED BY <1>4, <1>7, <1>9, <1>10, <1>11, <2>1, <2>2, <2>3
<1>13. Branches(new, << >>, b, NoBlock)
  <2>1. << >> \in Seq(Blocks) /\ Chained(<< >>)
    BY DEF Chained
  <2>2. \A i \in 1 .. Len(new) : Id[new[i]] = Id[b] + 1 - i
    BY <1>2
  <2> QED BY <1>2, <1>3, <2>1, <2>2 DEF Branches
<1> QED BY <1>2, <1>9, <1>10, <1>11, <1>12, <1>13 DEF p

\* A block that arrives after its parent becomes the tip exactly when the fork
\* choice rule says so.
LEMMA NextPlaced ==
    ASSUME PlainTree, ~empty, IsRing(ring), NEW c \in Blocks, RingAt(ring, c),
           Linked(inLongestChain, c), inLongestChain \subseteq blocks, blocks \subseteq Blocks,
           \A x \in blocks : Prev[x] = NoBlock => x \in inLongestChain,
           \A x \in blocks : Prev[x] = NoBlock \/ Prev[x] \in blocks,
           NEW b \in Blocks, b \notin blocks, Prev[b] \in blocks
    PROVE  /\ Placed(b).ring = RingAdd(ring, b) /\ Placed(b).gone = {}
           /\ Branches(Placed(b).new, Placed(b).old, b, c)
           /\ \A i \in 1 .. Len(Placed(b).new) : Placed(b).new[i] \in blocks \cup {b}
           /\ Len(Placed(b).new) + Id[c] = Len(Placed(b).old) + Id[b]
           /\ Placed(b).longest <=> Id[b] > Id[c] /\ FC!Work(b) >= FC!Work(c)
<1> DEFINE S == inLongestChain
           stored == blocks \cup {b}
           new == Walk(stored, S, b)
           m == Len(new)
           x == new[m]
           shared == Prev[x]
           old == Walk(stored, {shared}, c)
           n == Len(old)
           y == old[n]
           p == RingAdd(ring, b)
<1>1. stored \in SUBSET Blocks /\ b \in Hashes /\ c \in Hashes /\ c \in S /\ b \notin S
      /\ c # NoBlock /\ NoBlock \notin stored
  BY BlockFacts DEF Hashes, Linked
<1>2. IsWalk(new, stored, S, b)
  BY <1>1, WalkFacts
<1>3. /\ new \in Seq(Blocks) /\ new # << >> /\ new[1] = b /\ Chained(new)
      /\ \A i \in 1 .. Len(new) : new[i] \in stored /\ Id[new[i]] = Id[b] + 1 - i
      /\ m \in 1 .. Len(new) /\ x \in stored /\ x \notin S
      /\ Prev[x] \notin stored \/ Prev[x] \in S
      /\ Id[x] = Id[b] + 1 - m
  <2>1. /\ new \in Seq(Blocks) /\ new # << >> /\ new[1] = b /\ Chained(new)
        /\ \A i \in 1 .. Len(new) : new[i] \in stored /\ new[i] \notin S /\ Id[new[i]] = Id[b] + 1 - i
        /\ Prev[new[Len(new)]] \notin stored \/ Prev[new[Len(new)]] \in S
    BY <1>1, <1>2 DEF IsWalk
  <2> HIDE DEF new
  <2>2. m \in 1 .. Len(new)
    BY <2>1
  <2> QED BY <2>1, <2>2
<1> HIDE DEF new
<1>4. shared \in S /\ shared # NoBlock /\ shared \in Blocks
  <2>1. x \in blocks \/ x = b
    BY <1>3
  <2>2. Prev[x] \in blocks
    BY <1>3, <2>1
  <2> QED BY <1>1, <1>3, <2>2
<1> HIDE DEF x, shared
<1>5. IsWalk(old, stored, {shared}, c)
  BY <1>1, WalkFacts
<1> HIDE DEF old
<1>6. ASSUME old # << >>
      PROVE  /\ n \in 1 .. Len(old) /\ old[1] = c /\ Chained(old)
             /\ y \in S /\ Prev[y] = shared /\ Id[y] = Id[c] + 1 - n
  <2>1. /\ old \in Seq(Blocks) /\ old[1] = c /\ Chained(old) /\ n \in Nat /\ n \in 1 .. Len(old)
        /\ \A i \in 1 .. n : /\ old[i] \in stored /\ old[i] # shared
                             /\ Id[old[i]] = Id[c] + 1 - i
        /\ Prev[y] \notin stored \/ Prev[y] = shared
    BY <1>5, <1>6 DEF IsWalk
  <2> DEFINE T == {k \in 0 .. n : k = 0 \/ old[k] \in S}
  <2>2. 0 \in T
    BY <2>1
  <2>3. ASSUME NEW k \in T, k < n PROVE k + 1 \in T
    <3>1. k \in 0 .. n /\ k + 1 \in 0 .. n /\ k + 1 \in 1 .. n
      BY <2>1, <2>3
    <3>2. CASE k = 0
      BY <1>1, <2>1, <3>1, <3>2
    <3>3. CASE k # 0
      <4>1. old[k] \in S /\ k \in 1 .. Len(old) - 1
        BY <2>1, <2>3, <3>1, <3>3
      <4>2. old[k + 1] = Prev[old[k]] /\ old[k + 1] \in stored
        BY <2>1, <3>1, <4>1 DEF Chained
      <4>3. old[k + 1] \in S
        BY <1>1, <4>1, <4>2 DEF Linked
      <4> QED BY <3>1, <4>3
    <3> QED BY <3>2, <3>3
  <2>4. T = 0 .. n
    <3>1. T \subseteq 0 .. n
      OBVIOUS
    <3> HIDE DEF T, n
    <3> QED BY <2>1, <2>2, <2>3, <3>1, RangeInduction
  <2>5. \A i \in 1 .. n : old[i] \in S
    <3>1. \A i \in 1 .. n : i \in T /\ i # 0
      <4> HIDE DEF T
      <4> QED BY <2>1, <2>4
    <3> QED BY <3>1
  <2>6. y \in S /\ Id[y] = Id[c] + 1 - n
    BY <2>1, <2>5
  <2> HIDE DEF y, T
  <2>7. ASSUME Prev[y] # shared PROVE FALSE
    <3>1. Prev[y] = NoBlock
      BY <2>1, <2>6, <2>7 DEF Linked
    <3>2. Id[y] <= Id[shared] /\ Id[shared] <= Id[c] /\ Id[shared] \in Nat /\ Id[c] \in Nat
      BY <1>4, <2>6, <3>1, BlockFacts DEF Linked
    <3>3. PICK i \in 1 .. n : Id[shared] = Id[c] + 1 - i
      <4>1. Id[c] + 1 - Id[shared] \in 1 .. n
        BY <2>1, <2>6, <3>2
      <4>2. Id[shared] = Id[c] + 1 - (Id[c] + 1 - Id[shared])
        BY <3>2
      <4> HIDE DEF n
      <4> QED BY <4>1, <4>2
    <3>4. Id[old[i]] = Id[shared] /\ old[i] \in S /\ old[i] # shared
      BY <2>1, <2>5, <3>3
    <3> QED BY <1>4, <3>4 DEF Linked
  <2> QED BY <2>1, <2>6, <2>7
<1>7. old = << >> => c = shared
  BY <1>1, <1>5 DEF IsWalk
<1>8. old \in Seq(Blocks) /\ Chained(old)
  <2>1. << >> \in Seq(Blocks) /\ Chained(<< >>)
    BY DEF Chained
  <2> QED BY <1>5, <1>6, <2>1 DEF IsWalk
<1>9. Branches(new, old, b, c)
  BY <1>1, <1>3, <1>4, <1>6, <1>7, <1>8 DEF Branches, x, shared, y
<1>10. Id[b] \in Nat /\ Id[c] \in Nat /\ m \in Nat /\ n \in Nat /\ m > 0 /\ Id[shared] \in Nat
  <2>1. m \in Nat /\ m > 0
    BY <1>3
  <2>2. n \in Nat
    BY <1>8
  <2> HIDE DEF m, n
  <2> QED BY <1>4, <2>1, <2>2, BlockFacts
<1>11. Id[shared] = Id[b] - m
  <2>1. x \in Blocks /\ Id[x] = Id[shared] + 1
    BY <1>1, <1>3, <1>4, BlockFacts DEF shared
  <2> QED BY <1>3, <1>10, <2>1
<1>12. Id[shared] = Id[c] - n
  <2>1. CASE old = << >>
    BY <1>7, <1>10, <2>1
  <2>2. CASE old # << >>
    <3>1. y \in Blocks /\ Prev[y] = shared /\ Id[y] = Id[c] + 1 - n
      BY <1>6, <2>2 DEF Linked
    <3>2. Id[y] = Id[shared] + 1
      BY <1>4, <3>1, BlockFacts
    <3> QED BY <1>10, <3>1, <3>2
  <2> QED BY <2>1, <2>2
<1>13. TotalBurnFee(new) = FC!Work(b) - FC!Work(shared)
  BY <1>3, FeesOfChain DEF x, shared
<1>14. TotalBurnFee(old) = FC!Work(c) - FC!Work(shared)
  <2>1. CASE old = << >>
    <3>1. FC!Work(c) \in Nat
      BY <1>1, WorkFacts
    <3> QED BY <1>7, <2>1, <3>1, NoFees
  <2>2. CASE old # << >>
    BY <1>6, <1>8, <2>2, FeesOfChain DEF y
  <2> QED BY <2>1, <2>2
<1>15. IsRing(p) /\ LatestId(p) = Id[c] /\ LatestHash(ring) = c
  <2>1. IdOf(c) = Id[c]
    BY <1>1 DEF IdOf
  <2> QED BY <1>1, <2>1, LatestFacts, RingAddFacts
<1> HIDE DEF p, m, n
<1>16. Placed(b).gone = {} /\ Placed(b).new = new
  BY <1>4 DEF Placed, new, shared, x, m
<1>17. Placed(b).ring = p
  BY <1>16 DEF Placed, Disconnect, p
<1>18. Placed(b).old = old
  BY <1>4, <1>15 DEF Placed, old, new, shared, x, m
<1>19. Placed(b).longest <=> Id[b] > Id[c] /\ FC!Work(b) >= FC!Work(c)
  <2>1. Placed(b).longest = /\ Id[b] > Monus(LatestId(Placed(b).ring), GenesisPeriod)
                            /\ IsNewChainTheLongest(Placed(b).ring, Placed(b).new, Placed(b).old)
    BY DEF Placed
  <2>2. IsNewChainTheLongest(p, new, old) <=>
           /\ Id[c] < Id[b] /\ n < m /\ TotalBurnFee(old) <= TotalBurnFee(new)
    BY <1>3, <1>15 DEF IsNewChainTheLongest, n, m
  <2>3. n < m <=> Id[c] < Id[b]
    BY <1>10, <1>11, <1>12
  <2>4. FC!Work(b) \in Nat /\ FC!Work(c) \in Nat /\ FC!Work(shared) \in Nat
    BY <1>1, <1>4, WorkFacts DEF Hashes
  <2>5. TotalBurnFee(old) <= TotalBurnFee(new) <=> FC!Work(b) >= FC!Work(c)
    BY <1>13, <1>14, <2>4
  <2>6. Id[c] < Id[b] => Id[b] > Monus(Id[c], GenesisPeriod)
    BY <1>10, RingAssumption DEF Monus
  <2> QED BY <1>10, <1>15, <1>16, <1>17, <1>18, <2>1, <2>2, <2>3, <2>5, <2>6
<1>20. \A i \in 1 .. Len(new) : new[i] \in blocks \cup {b}
  BY <1>3
<1>21. Len(new) + Id[c] = Len(old) + Id[b]
  BY SMTT(40), <1>10, <1>11, <1>12 DEF m, n
<1> QED BY <1>9, <1>16, <1>17, <1>18, <1>19, <1>20, <1>21 DEF p

-----------------------------------------------------------------------------
(* The invariant.                                                          *)

\* The fork choice rule: b becomes the tip in the place of c.
BetterThan(b, c) ==
    \/ c = NoBlock
    \/ Id[b] > Id[c] /\ FC!Work(b) >= FC!Work(c)

\* Ring r, utxoset u, last block l and longest chain S all stand at the tip c.
AtRest(r, u, l, S, c) ==
    /\ c \in Hashes
    /\ RingAt(r, c) /\ Linked(S, c)
    /\ u = FC!Replay(c)
    /\ l = c

\* The tip of the chain that is wound right now.
Cursor(at, new, old, i) ==
    IF at = "unwind" THEN old[i]
    ELSE IF i < Len(new) THEN new[i + 1] ELSE Prev[new[i]]

\* What is stored: the ring has every block, every block but the one being added
\* is on disk and has its ancestors, and roots are in the longest chain.
StoreInv ==
    /\ pc \in Places
    /\ blocks \subseteq Blocks /\ inLongestChain \subseteq blocks
    /\ lastBlock \in Hashes
    /\ checkpoints = {}
    /\ pruned \subseteq disk /\ safeToPrune \subseteq disk /\ blocks \ {tip} \subseteq disk
    /\ IsRing(ring)
    /\ \A s \in Slots : Stored(ring, s) = {b \in blocks : SlotOf(Id[b]) = s}
    /\ \A b \in blocks \ {tip} : Prev[b] = NoBlock \/ Prev[b] \in blocks \ {tip}
    /\ \A b \in blocks \ {tip} : Prev[b] = NoBlock => b \in inLongestChain

\* Between two calls everything stands at the same tip.
Settled(c) ==
    /\ AtRest(ring, utxoset, lastBlock, inLongestChain, c)
    /\ c = NoBlock => blocks = {}
    /\ empty => c = NoBlock

IdleInv ==
    pc = "idle" =>
        /\ tip = NoBlock
        /\ \E c \in blocks \cup {NoBlock} : Settled(c)

\* During a call, before is the ledger it started from.
CallInv ==
    pc # "idle" =>
        /\ ~empty
        /\ tip \in Blocks /\ tip \notin before.blocks
        /\ blocks = before.blocks \cup {tip}
        /\ Prev[tip] = NoBlock => before.tip = NoBlock
        /\ Prev[tip] = NoBlock \/ Prev[tip] \in before.blocks
        /\ before.tip \in before.blocks \cup {NoBlock}
        /\ before.tip = NoBlock => before.blocks = {}
        /\ before.utxoset = FC!Replay(before.tip)

\* A refused call has changed nothing but the flag of its block.
RefusedInv ==
    pc = "refused" =>
        /\ Id[tip] > IdOf(before.tip)
        /\ AtRest(ring, utxoset, lastBlock, inLongestChain \ {tip}, before.tip)

\* An accepted block has become the tip if it is better.
AddedInv ==
    pc = "added" =>
        AtRest(ring, utxoset, lastBlock, inLongestChain,
               IF BetterThan(tip, before.tip) THEN tip ELSE before.tip)

\* In the loop the flagged blocks, but for the tip, and the utxoset stand at the
\* cursor; before anything is unwound or wound, everything does.
LoopInv ==
    pc \in {"wind", "unwind"} =>
        /\ BetterThan(tip, before.tip) /\ Id[tip] > IdOf(before.tip)
        /\ Branches(newChain, oldChain, tip, before.tip)
        /\ \A i \in 1 .. Len(newChain) : newChain[i] \in blocks
        /\ unwinding = oldChain
        /\ oldChain # << >> => Len(newChain) > 1
        /\ Linked(inLongestChain \ {tip}, Cursor(pc, newChain, oldChain, index))
        /\ utxoset = FC!Replay(Cursor(pc, newChain, oldChain, index))
        /\ IdOf(lastBlock) < Id[tip]
        /\ pc = "unwind" => index \in 1 .. Len(oldChain)
        /\ pc = "wind" => index \in 1 .. Len(newChain) /\ (windFailure => index > 1)
        /\ pc = "wind" /\ oldChain = << >> /\ index = Len(newChain) =>
              AtRest(ring, utxoset, lastBlock, inLongestChain \ {tip}, before.tip)

ChainInv == StoreInv /\ IdleInv /\ CallInv /\ RefusedInv /\ AddedInv /\ LoopInv

-----------------------------------------------------------------------------
(* One lemma per action.                                                   *)

\* Both kinds of arrival: add_block compares the chain with the one of the tip.
LEMMA PlacedFacts ==
    ASSUME PlainTree, StoreInv, pc = "idle", tip = NoBlock,
           NEW c \in blocks \cup {NoBlock}, Settled(c),
           NEW b \in Blocks, b \notin blocks, Arrives(b), ~Orphan(b)
    PROVE  /\ Placed(b).ring = RingAdd(ring, b) /\ Placed(b).gone = {}
           /\ Branches(Placed(b).new, Placed(b).old, b, c)
           /\ \A i \in 1 .. Len(Placed(b).new) : Placed(b).new[i] \in blocks \cup {b}
           /\ Placed(b).longest <=> BetterThan(b, c)
           /\ Placed(b).longest => Id[b] > IdOf(c)
           /\ Placed(b).longest /\ Placed(b).old # << >> => Len(Placed(b).new) > 1
           /\ Prev[b] = NoBlock => c = NoBlock
           /\ Prev[b] = NoBlock \/ Prev[b] \in blocks
<1>1. blocks \ {tip} = blocks /\ blocks \subseteq Blocks
  BY RingAssumption DEF StoreInv
<1>2. CASE empty
  <2>1. Prev[b] = NoBlock /\ c = NoBlock
    BY <1>2 DEF Arrives, PlainTree, Settled
  <2>2. IsRing(ring) /\ RingAt(ring, NoBlock) /\ inLongestChain = {} /\ blocks = {}
    BY <2>1 DEF Settled, AtRest, Linked, StoreInv
  <2>3. /\ Placed(b).ring = RingAdd(ring, b) /\ Placed(b).gone = {}
        /\ Branches(Placed(b).new, Placed(b).old, b, NoBlock)
        /\ \A i \in 1 .. Len(Placed(b).new) : Placed(b).new[i] = b
        /\ Placed(b).old = << >> /\ Placed(b).longest
    BY <1>2, <2>1, <2>2, FirstPlaced
  <2>4. Id[b] > IdOf(NoBlock)
    BY BlockFacts DEF IdOf
  <2>5. BetterThan(b, c)
    BY <2>1 DEF BetterThan
  <2>6. \A i \in 1 .. Len(Placed(b).new) : Placed(b).new[i] \in blocks \cup {b}
    BY <2>3
  <2> HIDE DEF Settled, StoreInv
  <2> QED BY <2>1, <2>3, <2>4, <2>5, <2>6
<1>3. CASE ~empty
  <2>1. Prev[b] # NoBlock /\ Prev[b] \in blocks
    BY <1>3 DEF Arrives, Orphan, ParentMissing, PlainTree
  <2>2. c # NoBlock /\ c \in Blocks
    BY <1>1, <2>1 DEF Settled
  <2>3. IsRing(ring) /\ RingAt(ring, c) /\ Linked(inLongestChain, c) /\ inLongestChain \subseteq blocks
    BY DEF StoreInv, Settled, AtRest
  <2>4. /\ \A x \in blocks : Prev[x] = NoBlock => x \in inLongestChain
        /\ \A x \in blocks : Prev[x] = NoBlock \/ Prev[x] \in blocks
    BY <1>1 DEF StoreInv
  <2>5. /\ Placed(b).ring = RingAdd(ring, b) /\ Placed(b).gone = {}
        /\ Branches(Placed(b).new, Placed(b).old, b, c)
        /\ \A i \in 1 .. Len(Placed(b).new) : Placed(b).new[i] \in blocks \cup {b}
        /\ Len(Placed(b).new) + Id[c] = Len(Placed(b).old) + Id[b]
        /\ Placed(b).longest <=> Id[b] > Id[c] /\ FC!Work(b) >= FC!Work(c)
    BY <1>1, <1>3, <2>1, <2>2, <2>3, <2>4, NextPlaced
  <2>6. IdOf(c) = Id[c] /\ Id[c] \in Nat /\ Id[b] \in Nat
    BY <2>2, BlockFacts
  <2>7. ASSUME Placed(b).longest, Placed(b).old # << >> PROVE Len(Placed(b).new) > 1
    <3>1. /\ Placed(b).old \in Seq(Blocks) /\ Placed(b).new \in Seq(Blocks)
      BY <2>5 DEF Branches
    <3>2. Len(Placed(b).old) \in Nat /\ Len(Placed(b).old) > 0 /\ Len(Placed(b).new) \in Nat
      BY <2>7, <3>1
    <3>3. Id[b] > Id[c]
      BY <2>5, <2>7
    <3> QED BY <2>5, <2>6, <3>2, <3>3
  <2> QED BY <2>1, <2>2, <2>5, <2>6, <2>7 DEF BetterThan
<1> QED BY <1>2, <1>3

\* One wound block: its transactions are in memory, and no block is purged.
LEMMA WindFacts ==
    ASSUME PlainTree, StoreInv, NEW b \in blocks, WindBlock(b, Upgraded(NeededFor(b)))
    PROVE  /\ IsRing(ring') /\ RingAt(ring', b)
           /\ \A s \in Slots : Stored(ring', s) = Stored(ring, s)
           /\ inLongestChain' = inLongestChain \cup {b}
           /\ utxoset' = (utxoset \ Ins[b]) \cup Outs[b]
           /\ lastBlock' = IF Id[b] > IdOf(lastBlock) THEN b ELSE lastBlock
           /\ blocks' = blocks /\ disk' = disk /\ safeToPrune' = safeToPrune
           /\ pruned' \subseteq disk /\ checkpoints' = checkpoints
<1> DEFINE pr == Upgraded(NeededFor(b))
           wound == RingWind(ring, b)
<1>1. b \in Blocks /\ b \in Stored(ring, SlotOf(Id[b])) /\ IsRing(ring) /\ b \in Hashes
  BY SlotFacts, BlockFacts DEF StoreInv, Hashes
<1>2. /\ IsRing(wound) /\ RingAt(wound, b)
      /\ \A s \in Slots : Stored(wound, s) = Stored(ring, s)
  BY <1>1, RingWindFacts
<1>3. LatestId(wound) < 2 * GenesisPeriod + 1
  <2>1. LatestId(wound) = Id[b]
    BY <1>1, <1>2, LatestFacts, BlockFacts
  <2>2. Id[b] <= RingSize /\ Id[b] \in Nat /\ RingSize \in Nat
    BY <1>1, BlockFacts, RingAssumption DEF PlainTree, RingSize
  <2> QED BY <2>1, <2>2 DEF RingSize
<1>4. PurgedBy(wound) = {}
  BY <1>3 DEF PurgedBy
<1>5. b \notin pr /\ pr \subseteq disk
  BY DEF StoreInv, Upgraded, NeededFor
<1>6. Wound(b, pr) = (utxoset \ Ins[b]) \cup Outs[b]
  BY <1>5 DEF Wound, InputsOf, OutputsOf
<1>7. \A i : RingDelete(wound, i, {}) = wound
  BY DEF RingDelete
<1>8. Downgraded(wound) \subseteq disk
  BY DEF Downgraded, StoreInv
<1> HIDE DEF wound, pr
<1>9. /\ ring' = wound
      /\ inLongestChain' = inLongestChain \cup {b}
      /\ utxoset' = Wound(b, pr)
      /\ lastBlock' = IF Advances(b) THEN b ELSE lastBlock
      /\ blocks' = blocks /\ disk' = disk /\ safeToPrune' = safeToPrune
      /\ pruned' = pr \cup Downgraded(wound)
      /\ checkpoints' = checkpoints
  BY <1>4, <1>7 DEF WindBlock, wound, pr
<1> QED BY <1>2, <1>5, <1>6, <1>8, <1>9 DEF Advances

\* The empty chain.
LEMMA ChainInit == ASSUME PlainTree, Init PROVE ChainInv
<1>1. /\ IsRing(EmptyRing) /\ RingAt(EmptyRing, NoBlock)
      /\ \A s \in Slots : Stored(EmptyRing, s) = {}
  <2>1. << >> \in Seq(Blocks) /\ Len(<< >>) = 0 /\ 1 .. 0 = {}
    OBVIOUS
  <2> QED BY <2>1 DEF EmptyRing, IsRing, RingAt, Stored
<1>2. StoreInv
  BY <1>1 DEF Init, StoreInv, Places, Hashes
<1>3. Linked({}, NoBlock) /\ FC!Replay(NoBlock) = {}
  BY ReplayFacts DEF Linked
<1>4. Settled(NoBlock)
  BY <1>1, <1>3 DEF Init, Settled, AtRest, Hashes
<1>5. IdleInv
  BY <1>4 DEF Init, IdleInv
<1>6. CallInv /\ RefusedInv /\ AddedInv /\ LoopInv
  BY DEF Init, CallInv, RefusedInv, AddedInv, LoopInv
<1> QED BY <1>2, <1>5, <1>6 DEF ChainInv

\* A block is stored and the call leaves for the loop, or for one of its ends.
LEMMA PlaceKeeps ==
    ASSUME PlainTree, ChainInv, NEW b \in Blocks, Arrives(b), PlaceBlock(b)
    PROVE  ChainInv'
<1> DEFINE p == Placed(b)
<1>0. pc = "idle" /\ tip = NoBlock /\ b \notin blocks /\ ~Orphan(b) /\ StoreInv
  BY DEF PlaceBlock, Idle, ChainInv, IdleInv
<1>1. PICK c \in blocks \cup {NoBlock} : Settled(c)
  BY <1>0 DEF ChainInv, IdleInv
<1>2. /\ p.ring = RingAdd(ring, b) /\ p.gone = {}
      /\ Branches(p.new, p.old, b, c)
      /\ \A i \in 1 .. Len(p.new) : p.new[i] \in blocks \cup {b}
      /\ p.longest <=> BetterThan(b, c)
      /\ p.longest => Id[b] > IdOf(c)
      /\ p.longest /\ p.old # << >> => Len(p.new) > 1
      /\ Prev[b] = NoBlock => c = NoBlock
      /\ Prev[b] = NoBlock \/ Prev[b] \in blocks
  BY <1>0, <1>1, PlacedFacts
<1> HIDE DEF p
<1>3. /\ blocks' = blocks \cup {b} /\ empty' = FALSE /\ tip' = b
      /\ before' = Ledger
      /\ ring' = RingAdd(ring, b)
      /\ newChain' = p.new /\ oldChain' = p.old
      /\ inLongestChain' = inLongestChain \cup (IF p.longest THEN {b} ELSE {})
      /\ utxoset' = utxoset /\ lastBlock' = lastBlock /\ pruned' = pruned
      /\ safeToPrune' = safeToPrune /\ disk' = disk /\ checkpoints' = checkpoints
  BY <1>2 DEF PlaceBlock, checkVars, p
<1>4. \/ ~p.longest /\ pc' = "added"
      \/ p.longest /\ pc' = "refused"
      \/ /\ p.longest
         /\ pc' = IF p.old = << >> THEN "wind" ELSE "unwind"
         /\ unwinding' = p.old
         /\ index' = IF p.old = << >> THEN Len(p.new) ELSE 1
         /\ windFailure' = (p.old # << >>)
  BY DEF PlaceBlock, p
<1>5. /\ blocks \subseteq Blocks /\ inLongestChain \subseteq blocks /\ IsRing(ring)
      /\ blocks \ {tip} = blocks /\ b \notin inLongestChain
  BY <1>0, RingAssumption DEF StoreInv
<1>6. /\ AtRest(ring, utxoset, lastBlock, inLongestChain, c) /\ c \in Hashes
      /\ c = NoBlock => blocks = {}
      /\ LatestHash(ring) = c
  BY <1>1, <1>5, LatestFacts DEF Settled, AtRest
<1>7. /\ IsRing(ring')
      /\ \A s \in Slots : Stored(ring', s) = {x \in blocks' : SlotOf(Id[x]) = s}
      /\ RingAt(ring', c)
  <2>1. /\ IsRing(RingAdd(ring, b))
        /\ \A s \in Slots : Stored(RingAdd(ring, b), s) =
              Stored(ring, s) \cup (IF s = SlotOf(Id[b]) THEN {b} ELSE {})
        /\ RingAt(RingAdd(ring, b), c)
    BY <1>5, <1>6, RingAddFacts DEF AtRest
  <2> QED BY <1>0, <1>3, <2>1 DEF StoreInv
<1>8. AtRest(ring', utxoset', lastBlock', inLongestChain, c)
  BY <1>3, <1>6, <1>7 DEF AtRest
<1>9. before'.blocks = blocks /\ before'.tip = c /\ before'.utxoset = utxoset
  BY <1>3, <1>6 DEF Ledger
<1>10. StoreInv'
  <2>1. blocks' \ {tip'} = blocks
    BY <1>0, <1>3
  <2>2. pc' \in Places
    BY <1>4 DEF Places
  <2>3. inLongestChain' \subseteq blocks' /\ inLongestChain \subseteq inLongestChain'
    BY <1>3, <1>5
  <2> QED BY <1>0, <1>3, <1>5, <1>7, <2>1, <2>2, <2>3 DEF StoreInv
<1>11. CallInv' /\ pc' # "idle"
  <2>1. utxoset = FC!Replay(c)
    BY <1>6 DEF AtRest
  <2> QED BY <1>0, <1>2, <1>3, <1>4, <1>6, <1>9, <2>1 DEF CallInv
<1>12. CASE ~p.longest /\ pc' = "added"
  <2>1. inLongestChain' = inLongestChain /\ ~BetterThan(b, c)
    BY <1>2, <1>3, <1>12
  <2>2. AddedInv'
    BY <1>3, <1>8, <1>9, <2>1 DEF AddedInv
  <2> QED BY <1>10, <1>11, <1>12, <2>2 DEF ChainInv, IdleInv, RefusedInv, LoopInv
<1>13. CASE p.longest /\ pc' = "refused"
  <2>1. inLongestChain' \ {tip'} = inLongestChain
    BY <1>3, <1>5
  <2>2. RefusedInv'
    BY <1>2, <1>3, <1>8, <1>9, <1>13, <2>1 DEF RefusedInv
  <2> QED BY <1>10, <1>11, <1>13, <2>2 DEF ChainInv, IdleInv, AddedInv, LoopInv
<1>14. CASE /\ p.longest
            /\ pc' = IF p.old = << >> THEN "wind" ELSE "unwind"
            /\ unwinding' = p.old
            /\ index' = IF p.old = << >> THEN Len(p.new) ELSE 1
            /\ windFailure' = (p.old # << >>)
  <2>1. inLongestChain' \ {tip'} = inLongestChain
    BY <1>3, <1>5
  <2>2. /\ p.new \in Seq(Blocks) /\ p.new # << >> /\ p.old \in Seq(Blocks)
        /\ p.old = << >> => c = Prev[p.new[Len(p.new)]]
        /\ p.old # << >> => p.old[1] = c
    BY <1>2 DEF Branches
  <2>3. Cursor(pc', newChain', oldChain', index') = c
    BY <1>3, <1>14, <2>2 DEF Cursor
  <2>4. IdOf(lastBlock') < Id[b]
    BY <1>2, <1>3, <1>6, <1>14, BlockFacts DEF AtRest
  <2>5. pc' = "unwind" => index' \in 1 .. Len(oldChain')
    BY <1>3, <1>14, <2>2
  <2>6. pc' = "wind" => index' \in 1 .. Len(newChain') /\ (windFailure' => index' > 1)
    <3>1. pc' = "wind" => p.old = << >>
      BY <1>14
    <3>2. pc' = "wind" => index' \in 1 .. Len(newChain')
      BY <1>3, <1>14, <2>2, <3>1
    <3>3. pc' = "wind" => ~windFailure'
      BY <1>14, <3>1
    <3> QED BY <3>2, <3>3
  <2>7. /\ Linked(inLongestChain, c) /\ utxoset' = FC!Replay(c)
    BY <1>8 DEF AtRest
  <2>8. BetterThan(b, c) /\ Id[b] > IdOf(c)
    BY <1>2, <1>14
  <2>9. p.old # << >> => Len(p.new) > 1
    BY <1>2, <1>14
  <2>10. LoopInv'
    BY <1>2, <1>3, <1>8, <1>9, <1>14, <2>1, <2>3, <2>4, <2>5, <2>6, <2>7, <2>8, <2>9
       DEF LoopInv
  <2>11. pc' # "idle" /\ pc' # "refused" /\ pc' # "added"
    BY <1>14
  <2> QED BY <1>10, <1>11, <2>10, <2>11 DEF ChainInv, IdleInv, RefusedInv, AddedInv
<1> QED BY <1>4, <1>12, <1>13, <1>14

\* What the loop knows about the block it is about to wind.
LEMMA WindCursor ==
    ASSUME ChainInv, pc = "wind"
    PROVE  LET b == newChain[index]
           IN  /\ b \in blocks /\ b \in Blocks /\ index \in Nat /\ index >= 1
               /\ newChain \in Seq(Blocks) /\ index <= Len(newChain)
               /\ Id[b] = Id[tip] + 1 - index
               /\ index = 1 => b = tip
               /\ index > 1 => b # tip /\ Id[b] < Id[tip]
               /\ Cursor(pc, newChain, oldChain, index) = Prev[b]
<1>1. /\ Branches(newChain, oldChain, tip, before.tip)
      /\ \A i \in 1 .. Len(newChain) : newChain[i] \in blocks
      /\ index \in 1 .. Len(newChain)
  BY DEF ChainInv, LoopInv
<1>2. tip \in Blocks /\ blocks \subseteq Blocks
  BY DEF ChainInv, CallInv, StoreInv
<1>3. /\ newChain \in Seq(Blocks) /\ newChain[1] = tip /\ Chained(newChain)
      /\ Id[newChain[index]] = Id[tip] + 1 - index
  BY <1>1 DEF Branches
<1>4. Id[tip] \in Nat
  BY <1>2, BlockFacts
<1>5. Cursor(pc, newChain, oldChain, index) = Prev[newChain[index]]
  <2>1. CASE index < Len(newChain)
    <3>1. index \in 1 .. Len(newChain) - 1
      BY <1>1, <1>3, <2>1
    <3> QED BY <2>1, <3>1, <1>3 DEF Cursor, Chained
  <2>2. CASE ~(index < Len(newChain))
    BY <2>2 DEF Cursor
  <2> QED BY <2>1, <2>2
<1> QED BY <1>1, <1>2, <1>3, <1>4, <1>5

\* A block of the new chain is wound: the cursor moves up to it.
LEMMA WindKeeps ==
    ASSUME PlainTree, ChainInv, WindValid
    PROVE  ChainInv'
<1> DEFINE b == newChain[index]
<1>1. pc = "wind" /\ b \notin Invalid /\ WindBlock(b, Upgraded(NeededFor(b)))
  BY DEF WindValid, Winding
<1>2. /\ b \in blocks /\ b \in Blocks /\ index \in Nat /\ index >= 1
      /\ newChain \in Seq(Blocks) /\ index <= Len(newChain)
      /\ Id[b] = Id[tip] + 1 - index
      /\ index = 1 => b = tip
      /\ index > 1 => b # tip /\ Id[b] < Id[tip]
      /\ Cursor(pc, newChain, oldChain, index) = Prev[b]
  BY <1>1, WindCursor
<1>3. /\ StoreInv /\ CallInv /\ LoopInv /\ pc # "idle"
  BY <1>1 DEF ChainInv
<1>4. /\ BetterThan(tip, before.tip) /\ Id[tip] > IdOf(before.tip)
      /\ Branches(newChain, oldChain, tip, before.tip)
      /\ \A i \in 1 .. Len(newChain) : newChain[i] \in blocks
      /\ unwinding = oldChain
      /\ oldChain # << >> => Len(newChain) > 1
      /\ Linked(inLongestChain \ {tip}, Prev[b])
      /\ utxoset = FC!Replay(Prev[b])
      /\ IdOf(lastBlock) < Id[tip]
      /\ windFailure => index > 1
  BY <1>1, <1>2, <1>3 DEF LoopInv
<1> HIDE DEF b
<1>5. /\ IsRing(ring') /\ RingAt(ring', b)
      /\ \A s \in Slots : Stored(ring', s) = Stored(ring, s)
      /\ inLongestChain' = inLongestChain \cup {b}
      /\ utxoset' = (utxoset \ Ins[b]) \cup Outs[b]
      /\ lastBlock' = IF Id[b] > IdOf(lastBlock) THEN b ELSE lastBlock
      /\ blocks' = blocks /\ disk' = disk /\ safeToPrune' = safeToPrune
      /\ pruned' \subseteq disk /\ checkpoints' = checkpoints
  BY <1>1, <1>2, <1>3, WindFacts
<1>6. /\ empty' = empty /\ tip' = tip /\ newChain' = newChain /\ oldChain' = oldChain
      /\ unwinding' = unwinding /\ before' = before
      /\ \/ /\ index > 1 /\ index' = index - 1 /\ windFailure' = FALSE /\ pc' = pc
         \/ /\ index = 1 /\ pc' = IF windFailure THEN "refused" ELSE "added"
  BY DEF WindValid, NextWindIndex
<1>7. utxoset' = FC!Replay(b)
  BY <1>2, <1>4, <1>5, ReplayFacts
<1>8. /\ Linked((inLongestChain \ {tip}) \cup {b}, b)
  BY <1>1, <1>2, <1>4, LinkedUp DEF b
<1>9. pc' \in {"wind", "added"}
  BY <1>1, <1>4, <1>6
<1>10. StoreInv'
  <2>1. pc' \in Places
    BY <1>9 DEF Places
  <2>2. inLongestChain' \subseteq blocks' /\ inLongestChain \subseteq inLongestChain'
    BY <1>2, <1>3, <1>5 DEF StoreInv
  <2>3. lastBlock' \in Hashes
    BY <1>2, <1>3, <1>5 DEF StoreInv, Hashes
  <2> QED BY <1>3, <1>5, <1>6, <2>1, <2>2, <2>3 DEF StoreInv
<1>11. CallInv'
  BY <1>3, <1>5, <1>6 DEF CallInv
<1>12. CASE index > 1 /\ index' = index - 1 /\ windFailure' = FALSE /\ pc' = pc
  <2>1. inLongestChain' \ {tip'} = (inLongestChain \ {tip}) \cup {b}
    BY <1>2, <1>5, <1>6, <1>12
  <2>2. index' \in 1 .. Len(newChain') /\ index' < Len(newChain') /\ index' + 1 = index
    BY <1>2, <1>6, <1>12
  <2>3. Cursor(pc', newChain', oldChain', index') = b
    BY <1>1, <1>6, <1>12, <2>2 DEF Cursor, b
  <2>4. IdOf(lastBlock') < Id[tip']
    BY <1>2, <1>4, <1>5, <1>6, <1>12, BlockFacts
  <2>5. /\ Linked(inLongestChain' \ {tip'}, Cursor(pc', newChain', oldChain', index'))
        /\ utxoset' = FC!Replay(Cursor(pc', newChain', oldChain', index'))
    BY <1>7, <1>8, <2>1, <2>3
  <2>6. /\ BetterThan(tip', before'.tip) /\ Id[tip'] > IdOf(before'.tip)
        /\ Branches(newChain', oldChain', tip', before'.tip)
        /\ \A i \in 1 .. Len(newChain') : newChain'[i] \in blocks'
        /\ unwinding' = oldChain'
        /\ oldChain' # << >> => Len(newChain') > 1
    BY <1>4, <1>5, <1>6
  <2>7. pc' = "wind" /\ ~windFailure' /\ index' # Len(newChain')
    BY <1>1, <1>12, <2>2
  <2>8. LoopInv'
    BY <2>2, <2>4, <2>5, <2>6, <2>7 DEF LoopInv
  <2> QED BY <1>10, <1>11, <2>7, <2>8 DEF ChainInv, IdleInv, RefusedInv, AddedInv
<1>13. CASE index = 1 /\ pc' = "added"
  <2>1. b = tip /\ Id[b] > IdOf(lastBlock)
    BY <1>2, <1>4, <1>13
  <2>2. inLongestChain' = (inLongestChain \ {tip}) \cup {b}
    BY <1>5, <2>1
  <2>3. AtRest(ring', utxoset', lastBlock', inLongestChain', tip)
    BY <1>2, <1>5, <1>7, <1>8, <2>1, <2>2 DEF AtRest, Hashes
  <2>4. AddedInv'
    BY <1>4, <1>6, <2>3 DEF AddedInv
  <2>5. pc' # "idle" /\ pc' # "refused" /\ pc' \notin {"wind", "unwind"}
    BY <1>13
  <2>6. IdleInv' /\ RefusedInv' /\ LoopInv'
    BY <2>5 DEF IdleInv, RefusedInv, LoopInv
  <2> QED BY <1>10, <1>11, <2>4, <2>6 DEF ChainInv
<1>14. index = 1 => ~windFailure
  BY <1>4
<1> QED BY <1>6, <1>12, <1>13, <1>14

\* A first block that does not validate is refused before anything has changed.
LEMMA InvalidKeeps ==
    ASSUME PlainTree, ChainInv, NoBadReorganisation, WindInvalid
    PROVE  ChainInv'
<1>1. /\ pc = "wind" /\ newChain[index] \in Invalid
      /\ pruned' = Upgraded(NeededFor(newChain[index]))
      /\ UNCHANGED <<storeVars, inLongestChain, utxoset, lastBlock, genesisBlockId,
                     checkVars, tip, newChain, oldChain, result, before>>
  BY DEF WindInvalid, Winding
<1>2. oldChain = << >> /\ index = Len(newChain)
  BY <1>1 DEF NoBadReorganisation
<1>3. StoreInv /\ CallInv /\ LoopInv
  BY DEF ChainInv
<1>4. pc' = "refused"
  <2>1. Len(newChain) \in Nat
    BY <1>1, WindCursor
  <2> QED BY <1>2, <2>1 DEF WindInvalid
<1>5. /\ Id[tip] > IdOf(before.tip)
      /\ AtRest(ring, utxoset, lastBlock, inLongestChain \ {tip}, before.tip)
  BY <1>1, <1>2, <1>3 DEF LoopInv
<1>6. /\ blocks' = blocks /\ ring' = ring /\ empty' = empty /\ disk' = disk
      /\ safeToPrune' = safeToPrune /\ inLongestChain' = inLongestChain
      /\ utxoset' = utxoset /\ lastBlock' = lastBlock /\ checkpoints' = checkpoints
      /\ tip' = tip /\ before' = before
  BY <1>1 DEF storeVars, checkVars
<1>7. pruned' \subseteq pruned
  BY <1>1 DEF Upgraded
<1>8. StoreInv'
  BY <1>3, <1>4, <1>6, <1>7 DEF StoreInv, Places
<1>9. CallInv'
  BY <1>1, <1>3, <1>6 DEF CallInv
<1>10. RefusedInv'
  BY <1>5, <1>6 DEF RefusedInv
<1> QED BY <1>4, <1>8, <1>9, <1>10 DEF ChainInv, IdleInv, AddedInv, LoopInv

\* A block of the old chain is unwound: the cursor moves down to its parent.
LEMMA UnwindKeeps ==
    ASSUME PlainTree, ChainInv, UnwindBlock
    PROVE  ChainInv'
<1> DEFINE b == oldChain[index]
           pr == Upgraded({b})
           shared == Prev[newChain[Len(newChain)]]
<1>1. pc = "unwind" /\ StoreInv /\ CallInv /\ LoopInv
  BY DEF UnwindBlock, ChainInv
<1>2. /\ BetterThan(tip, before.tip) /\ Id[tip] > IdOf(before.tip)
      /\ Branches(newChain, oldChain, tip, before.tip)
      /\ \A i \in 1 .. Len(newChain) : newChain[i] \in blocks
      /\ unwinding = oldChain
      /\ oldChain # << >> => Len(newChain) > 1
      /\ Linked(inLongestChain \ {tip}, b)
      /\ utxoset = FC!Replay(b)
      /\ IdOf(lastBlock) < Id[tip]
      /\ index \in 1 .. Len(oldChain)
  BY <1>1 DEF LoopInv, Cursor
<1>3. /\ oldChain \in Seq(Blocks) /\ oldChain # << >> /\ b \in Blocks /\ Chained(oldChain)
      /\ Prev[oldChain[Len(oldChain)]] = shared /\ shared # NoBlock
      /\ newChain \in Seq(Blocks) /\ newChain # << >> /\ Len(newChain) \in Nat
      /\ Len(newChain) > 1 /\ Len(oldChain) \in Nat /\ index \in Nat
  BY <1>2 DEF Branches
<1>4. b \in inLongestChain /\ b # tip /\ b \notin Invalid /\ b # NoBlock
  BY <1>2, <1>3, BlockFacts DEF Linked
<1>5. Prev[b] = (IF index = Len(oldChain) THEN shared ELSE oldChain[index + 1])
      /\ Prev[b] # NoBlock
  <2>1. CASE index = Len(oldChain)
    BY <1>3, <2>1
  <2>2. CASE index # Len(oldChain)
    <3>1. index \in 1 .. Len(oldChain) - 1 /\ index + 1 \in 1 .. Len(oldChain)
      BY <1>2, <1>3, <2>2
    <3>2. oldChain[index + 1] = Prev[b] /\ oldChain[index + 1] \in Blocks
      BY <1>3, <3>1 DEF Chained
    <3> QED BY <2>2, <3>2, BlockFacts
  <2> QED BY <2>1, <2>2
<1>6. /\ ring' = RingUnwind(ring, b)
      /\ utxoset' = Unwound(b, pr)
      /\ inLongestChain' = inLongestChain \ {b}
      /\ pruned' = pr \cup Downgraded(RingUnwind(ring, b))
      /\ blocks' = blocks /\ empty' = empty /\ disk' = disk /\ safeToPrune' = safeToPrune
      /\ lastBlock' = lastBlock /\ checkpoints' = checkpoints /\ tip' = tip
      /\ newChain' = newChain /\ oldChain' = oldChain /\ unwinding' = unwinding
      /\ windFailure' = windFailure /\ before' = before
  BY <1>2 DEF UnwindBlock, Unflagged, checkVars
<1>7. IF index = Len(oldChain) THEN pc' = "wind" /\ index' = Len(newChain)
      ELSE index' = index + 1 /\ pc' = "unwind"
  BY <1>1, <1>2 DEF UnwindBlock
<1> HIDE DEF b, shared
<1>8. utxoset' = FC!Replay(Prev[b])
  <2>1. b \notin pr
    BY <1>1 DEF pr, Upgraded, StoreInv
  <2>2. Unwound(b, pr) = (utxoset \cup Ins[b]) \ Outs[b]
    BY <2>1 DEF Unwound, InputsOf, OutputsOf
  <2>3. FC!Replay(b) = (FC!Replay(Prev[b]) \ Ins[b]) \cup Outs[b]
    BY <1>3, ReplayFacts
  <2>4. Ins[b] \subseteq FC!Replay(Prev[b]) /\ Outs[b] \cap FC!Replay(Prev[b]) = {}
    BY <1>3, <1>4 DEF PlainTree
  <2> QED BY <1>2, <1>6, <2>2, <2>3, <2>4
<1>9. /\ inLongestChain' \ {tip'} = (inLongestChain \ {tip}) \ {b}
      /\ Linked(inLongestChain' \ {tip'}, Prev[b])
  <2>1. inLongestChain' \ {tip'} = (inLongestChain \ {tip}) \ {b}
    BY <1>6
  <2>2. Linked((inLongestChain \ {tip}) \ {b}, Prev[b])
    BY <1>2, <1>3, <1>5, LinkedDown
  <2> QED BY <2>1, <2>2
<1>10. /\ IsRing(ring') /\ \A s \in Slots : Stored(ring', s) = Stored(ring, s)
  BY <1>1, <1>3, <1>6, RingUnwindFacts DEF StoreInv
<1>11. pr \subseteq disk /\ Downgraded(RingUnwind(ring, b)) \subseteq disk
  BY <1>1 DEF pr, StoreInv, Upgraded, Downgraded
<1>12. StoreInv'
  <2>1. pc' \in Places
    BY <1>7 DEF Places
  <2>2. \A x \in blocks' \ {tip'} : Prev[x] = NoBlock => x \in inLongestChain'
    BY <1>1, <1>5, <1>6 DEF StoreInv
  <2>3. inLongestChain' \subseteq blocks'
    BY <1>1, <1>6 DEF StoreInv
  <2>4. pruned' \subseteq disk'
    BY <1>6, <1>11
  <2> HIDE DEF pr
  <2> QED BY <1>1, <1>6, <1>10, <2>1, <2>2, <2>3, <2>4 DEF StoreInv
<1> HIDE DEF pr
<1>13. CallInv'
  BY <1>1, <1>6 DEF CallInv
<1>14. Cursor(pc', newChain', oldChain', index') = Prev[b]
  <2>1. CASE index = Len(oldChain)
    BY <1>3, <1>5, <1>6, <1>7, <2>1 DEF Cursor, shared
  <2>2. CASE index # Len(oldChain)
    BY <1>5, <1>6, <1>7, <2>2 DEF Cursor
  <2> QED BY <2>1, <2>2
<1>15. pc' = "unwind" => index' \in 1 .. Len(oldChain')
  BY <1>2, <1>3, <1>6, <1>7
<1>16. pc' = "wind" => index' \in 1 .. Len(newChain') /\ index' > 1
  BY <1>3, <1>6, <1>7
<1>17. LoopInv'
  BY <1>2, <1>3, <1>6, <1>8, <1>9, <1>14, <1>15, <1>16 DEF LoopInv
<1>18. pc' # "idle" /\ pc' # "refused" /\ pc' # "added"
  BY <1>7
<1> QED BY <1>12, <1>13, <1>17, <1>18 DEF ChainInv, IdleInv, RefusedInv, AddedInv

\* The end of an accepted block is the step of the fork choice rule.
LEMMA SuccessKeeps ==
    ASSUME PlainTree, ChainInv, AddBlockSuccess
    PROVE  /\ ChainInv'
           /\ FC!Learn(tip)
<1>0. PICK c : c = IF BetterThan(tip, before.tip) THEN tip ELSE before.tip
  OBVIOUS
<1>1. pc = "added" /\ StoreInv /\ CallInv
      /\ AtRest(ring, utxoset, lastBlock, inLongestChain, c)
  BY <1>0 DEF AddBlockSuccess, ChainInv, AddedInv
<1>2. /\ ~empty
      /\ tip \in Blocks /\ tip \notin before.blocks /\ blocks = before.blocks \cup {tip}
      /\ Prev[tip] = NoBlock => before.tip = NoBlock
      /\ Prev[tip] = NoBlock \/ Prev[tip] \in before.blocks
      /\ before.tip \in before.blocks \cup {NoBlock}
  BY <1>1 DEF CallInv
<1>3. CheckpointHits = {}
  BY <1>2 DEF CheckpointHits, PlainTree
<1>4. /\ pc' = "idle" /\ tip' = NoBlock
      /\ disk' = disk \cup {tip} /\ safeToPrune' \subseteq safeToPrune \cup blocks
      /\ utxoset' = utxoset /\ checkpoints' = checkpoints
      /\ blocks' = blocks /\ ring' = ring /\ empty' = empty
      /\ inLongestChain' = inLongestChain /\ lastBlock' = lastBlock /\ pruned' = pruned
  BY <1>3 DEF AddBlockSuccess, Finished, Saved, MadeSafeToPrune
<1>5. c \in blocks /\ c # NoBlock /\ c \in Hashes
  <2>1. BetterThan(tip, NoBlock)
    BY DEF BetterThan
  <2>2. c \in blocks
    BY <1>0, <1>2, <2>1
  <2>3. blocks \subseteq Blocks
    BY <1>1 DEF StoreInv
  <2> QED BY <2>2, <2>3, RingAssumption DEF Hashes
<1>6. blocks' \ {tip'} = blocks /\ NoBlock \notin blocks
  BY <1>1, <1>4, RingAssumption DEF StoreInv
<1>7. ASSUME Prev[tip] = NoBlock PROVE tip \in inLongestChain
  <2>1. c = tip
    BY <1>0, <1>2, <1>7 DEF BetterThan
  <2> QED BY <1>1, <1>5, <2>1 DEF AtRest, Linked
<1>8. StoreInv'
  <2>1. \A x \in blocks : x = tip \/ x \in blocks \ {tip}
    OBVIOUS
  <2>2. \A x \in blocks : Prev[x] = NoBlock => x \in inLongestChain
    BY <1>1, <1>7, <2>1 DEF StoreInv
  <2>3. \A x \in blocks : Prev[x] = NoBlock \/ Prev[x] \in blocks
    BY <1>1, <1>2, <2>1 DEF StoreInv
  <2>4. blocks \subseteq disk' /\ safeToPrune' \subseteq disk' /\ pruned' \subseteq disk'
    BY <1>1, <1>4 DEF StoreInv
  <2> QED BY <1>1, <1>4, <1>6, <2>2, <2>3, <2>4 DEF StoreInv, Places
<1>9. IdleInv'
  <2>1. Settled(c)'
    BY <1>1, <1>2, <1>4, <1>5 DEF Settled
  <2> QED BY <1>4, <1>5, <2>1 DEF IdleInv
<1>10. ChainInv'
  BY <1>4, <1>8, <1>9 DEF ChainInv, CallInv, RefusedInv, AddedInv, LoopInv
<1>11. LatestHash(ring') = c /\ utxoset' = FC!Replay(c)
  BY <1>1, <1>4, <1>5, LatestFacts DEF AtRest, StoreInv
<1>12. FC!Learn(tip)
  BY <1>0, <1>1, <1>2, <1>4, <1>11 DEF FC!Learn, FC!Better, BetterThan
<1> QED BY <1>10, <1>12

\* The end of a refused block leaves everything as it was before the call.
LEMMA FailureKeeps ==
    ASSUME PlainTree, ChainInv, AddBlockFailure
    PROVE  /\ ChainInv'
           /\ UNCHANGED FC!vars
<1>0. PICK c : c = before.tip
  OBVIOUS
<1>1. pc = "refused" /\ StoreInv /\ CallInv
      /\ Id[tip] > IdOf(c)
      /\ AtRest(ring, utxoset, lastBlock, inLongestChain \ {tip}, c)
  BY <1>0 DEF AddBlockFailure, ChainInv, RefusedInv
<1>2. /\ ~empty
      /\ tip \in Blocks /\ tip \notin before.blocks /\ blocks = before.blocks \cup {tip}
      /\ c \in before.blocks \cup {NoBlock}
      /\ c = NoBlock => before.blocks = {}
      /\ before.utxoset = FC!Replay(c)
  BY <1>0, <1>1 DEF CallInv
<1>3. /\ pc' = "idle" /\ tip' = NoBlock
      /\ blocks' = blocks \ {tip} /\ inLongestChain' = inLongestChain \ {tip}
      /\ ring' = RingDelete(ring, Id[tip], {tip})
      /\ pruned' = pruned \ {tip} /\ safeToPrune' = safeToPrune \ {tip}
      /\ empty' = empty /\ disk' = disk /\ utxoset' = utxoset /\ lastBlock' = lastBlock
      /\ checkpoints' = checkpoints
  BY DEF AddBlockFailure, Finished, Unflagged, checkVars
<1>4. /\ blocks' = before.blocks /\ NoBlock \notin blocks /\ blocks' \ {tip'} = blocks \ {tip}
      /\ blocks \subseteq Blocks
  BY <1>1, <1>2, <1>3, RingAssumption DEF StoreInv
<1>5. c \in Hashes /\ (c # NoBlock => SlotOf(Id[c]) # SlotOf(Id[tip]))
  <2>1. c \in Hashes
    BY <1>2, <1>4 DEF Hashes
  <2>2. ASSUME c # NoBlock PROVE SlotOf(Id[c]) # SlotOf(Id[tip])
    <3>1. c \in Blocks
      BY <2>1, <2>2 DEF Hashes
    <3>2. /\ IdOf(c) = Id[c] /\ Id[c] \in Nat /\ Id[c] > 0 /\ Id[tip] \in Nat /\ Id[tip] > 0
          /\ RingSize \in Nat /\ Id[c] <= RingSize /\ Id[tip] <= RingSize
      BY <1>2, <3>1, BlockFacts, RingAssumption DEF PlainTree, RingSize
    <3>3. Id[c] \in 1 .. RingSize /\ Id[tip] \in 1 .. RingSize /\ Id[c] # Id[tip]
      BY <1>1, <3>2
    <3> QED BY <3>3, SlotFacts
  <2> QED BY <2>1, <2>2
<1>6. /\ IsRing(ring')
      /\ \A s \in Slots : Stored(ring', s) =
            IF s = SlotOf(Id[tip]) THEN Stored(ring, s) \ {tip} ELSE Stored(ring, s)
      /\ RingAt(ring', c)
  <2>1. IsRing(ring) /\ RingAt(ring, c)
    BY <1>1 DEF StoreInv, AtRest
  <2> QED BY <1>2, <1>3, <1>5, <2>1, RingDeleteFacts
<1>7. \A s \in Slots : Stored(ring', s) = {x \in blocks' : SlotOf(Id[x]) = s}
  <2>1. \A s \in Slots : Stored(ring, s) = {x \in blocks : SlotOf(Id[x]) = s}
    BY <1>1 DEF StoreInv
  <2> SUFFICES ASSUME NEW s \in Slots
               PROVE  Stored(ring', s) = {x \in blocks' : SlotOf(Id[x]) = s}
    OBVIOUS
  <2>2. CASE s = SlotOf(Id[tip])
    <3>1. Stored(ring', s) = {x \in blocks : SlotOf(Id[x]) = s} \ {tip}
      BY <1>6, <2>1, <2>2
    <3> QED BY <1>3, <3>1
  <2>3. CASE s # SlotOf(Id[tip])
    <3>1. Stored(ring', s) = {x \in blocks : SlotOf(Id[x]) = s}
      BY <1>6, <2>1, <2>3
    <3> QED BY <1>3, <2>3, <3>1
  <2> QED BY <2>2, <2>3
<1>8. StoreInv'
  BY <1>1, <1>3, <1>4, <1>6, <1>7 DEF StoreInv, Places
<1>9. AtRest(ring', utxoset', lastBlock', inLongestChain', c)
  BY <1>1, <1>3, <1>6 DEF AtRest
<1>10. IdleInv'
  <2>1. Settled(c)'
    BY <1>2, <1>3, <1>4, <1>9 DEF Settled
  <2> QED BY <1>2, <1>3, <1>4, <2>1 DEF IdleInv
<1>11. ChainInv'
  BY <1>3, <1>8, <1>10 DEF ChainInv, CallInv, RefusedInv, AddedInv, LoopInv
<1>12. LatestHash(ring') = c /\ utxoset' = FC!Replay(c)
  BY <1>5, <1>6, <1>9, LatestFacts DEF AtRest
<1>13. UNCHANGED FC!vars
  BY <1>0, <1>1, <1>2, <1>3, <1>4, <1>12 DEF FC!vars
<1> QED BY <1>11, <1>13

\* Every step keeps the invariant, and learns the block of the call or nothing.
LEMMA ChainStep ==
    ASSUME PlainTree, ChainInv, NoBadReorganisation, Next
    PROVE  /\ ChainInv'
           /\ [FC!Next]_FC!vars
<1>1. ASSUME NEW b \in Blocks, AddExistingBlock(b)
      PROVE  ChainInv' /\ UNCHANGED FC!vars
  BY <1>1 DEF AddExistingBlock, ChainInv, storeVars, ledgerVars, checkVars, windVars, FC!vars,
     StoreInv, IdleInv, CallInv, RefusedInv, AddedInv, LoopInv, Settled
<1>2. ASSUME NEW b \in Blocks, NEW q \in BOOLEAN, AddOrphan(b, q)
      PROVE  ChainInv' /\ UNCHANGED FC!vars
  <2>1. UNCHANGED <<storeVars, ledgerVars, checkVars, pc, tip, windVars, before>>
    BY <1>2 DEF AddOrphan
  <2> QED BY <2>1 DEF ChainInv, storeVars, ledgerVars, checkVars, windVars, FC!vars,
       StoreInv, IdleInv, CallInv, RefusedInv, AddedInv, LoopInv, Settled
<1>3. ASSUME NEW b \in Blocks, Arrives(b), PlaceBlock(b)
      PROVE  ChainInv' /\ UNCHANGED FC!vars
  <2>1. ChainInv'
    BY <1>3, PlaceKeeps
  <2>2. pc = "idle" /\ pc' # "idle" /\ before' = Ledger
    BY <1>3 DEF PlaceBlock, Idle
  <2>3. UNCHANGED FC!vars
    BY <2>2 DEF FC!vars, Ledger
  <2> QED BY <2>1, <2>3
<1>4. ASSUME WindValid PROVE ChainInv' /\ UNCHANGED FC!vars
  <2>1. pc = "wind" /\ pc' # "idle" /\ before' = before
    BY <1>4 DEF WindValid, Winding
  <2> QED BY <1>4, <2>1, WindKeeps DEF FC!vars
<1>5. ASSUME WindInvalid PROVE ChainInv' /\ UNCHANGED FC!vars
  <2>1. pc = "wind" /\ pc' # "idle" /\ before' = before
    BY <1>5 DEF WindInvalid, Winding
  <2> QED BY <1>5, <2>1, InvalidKeeps DEF FC!vars
<1>6. ASSUME UnwindBlock PROVE ChainInv' /\ UNCHANGED FC!vars
  <2>1. pc = "unwind" /\ pc' # "idle" /\ before' = before
    BY <1>6 DEF UnwindBlock
  <2> QED BY <1>6, <2>1, UnwindKeeps DEF FC!vars
<1>7. ~StopAtCheckpoint
  BY DEF StopAtCheckpoint, HasCheckpoint, ChainInv, StoreInv
<1>8. ASSUME AddBlockSuccess PROVE ChainInv' /\ FC!Next
  <2>1. tip \in Blocks
    BY <1>8 DEF AddBlockSuccess, ChainInv, CallInv
  <2> QED BY <1>8, <2>1, SuccessKeeps DEF FC!Next
<1>9. ASSUME AddBlockFailure PROVE ChainInv' /\ UNCHANGED FC!vars
  BY <1>9, FailureKeeps
<1> QED BY <1>1, <1>2, <1>3, <1>4, <1>5, <1>6, <1>7, <1>8, <1>9 DEF Next, Offer, Continue

\* Nothing happens.
LEMMA ChainStutter ==
    ASSUME ChainInv, UNCHANGED vars
    PROVE  ChainInv' /\ UNCHANGED FC!vars
BY DEF vars, ChainInv, storeVars, ledgerVars, checkVars, windVars, FC!vars,
   StoreInv, IdleInv, CallInv, RefusedInv, AddedInv, LoopInv, Settled, NoBadReorganisation

\* Both start without blocks.
LEMMA InitImplements == ASSUME PlainTree, Init PROVE FC!Init
<1>1. LatestHash(EmptyRing) = NoBlock
  BY DEF EmptyRing, LatestHash
<1> QED BY <1>1 DEF Init, FC!Init

\* The invariant holds throughout.
LEMMA ChainInvariant ==
    ASSUME PlainTree
    PROVE  Spec /\ []NoBadReorganisation => []ChainInv
<1>1. Init => ChainInv
  BY ChainInit
<1>2. ChainInv /\ NoBadReorganisation /\ [Next]_vars => ChainInv'
  BY ChainStep, ChainStutter
<1> QED BY <1>1, <1>2, PTL DEF Spec

\* Whatever the tree of blocks, the order in which they arrive, and the blocks
\* that are refused: as long as no reorganisation meets an invalid block, each
\* call of add_block ends on the longest chain with the most burn fees and with
\* the utxoset of that chain, as if in one step.
THEOREM ForkChoiceImplemented ==
    ASSUME PlainTree
    PROVE  Spec /\ []NoBadReorganisation => ImplementsForkChoice
<1>1. Init => FC!Init
  BY InitImplements
<1>2. ChainInv /\ NoBadReorganisation /\ [Next]_vars => [FC!Next]_FC!vars
  BY ChainStep, ChainStutter
<1> QED BY <1>1, <1>2, ChainInvariant, PTL DEF Spec, FC!Spec, ImplementsForkChoice

\* Under the same conditions, no sequence of reorganisations leaves last_block_hash
\* at another block than the latest of the ring.
THEOREM LastBlockRight ==
    ASSUME PlainTree
    PROVE  Spec /\ []NoBadReorganisation => []LastBlockIsLatest
<1>1. ChainInv => LastBlockIsLatest
  <2> SUFFICES ASSUME ChainInv, pc = "idle" PROVE lastBlock = LatestHash(ring)
    BY DEF LastBlockIsLatest
  <2>1. PICK c \in blocks \cup {NoBlock} : Settled(c)
    BY DEF ChainInv, IdleInv
  <2> QED BY <2>1, LatestFacts DEF Settled, AtRest, ChainInv, StoreInv
<1> QED BY <1>1, ChainInvariant, PTL

\* Under the same conditions, unwinding and winding leave no flag behind on a
\* fork: the flagged blocks are one chain up to the latest block.
THEOREM ChainIsLinked ==
    ASSUME PlainTree
    PROVE  Spec /\ []NoBadReorganisation => []LongestChainLinked
<1>1. ChainInv => LongestChainLinked
  <2> SUFFICES ASSUME ChainInv, pc = "idle", NEW b \in inLongestChain
               PROVE  b = LatestHash(ring) \/ \E d \in inLongestChain : Prev[d] = b
    BY DEF LongestChainLinked
  <2>1. PICK c \in blocks \cup {NoBlock} : Settled(c)
    BY DEF ChainInv, IdleInv
  <2>2. LatestHash(ring) = c
    BY <2>1, LatestFacts DEF Settled, AtRest, ChainInv, StoreInv
  <2> QED BY <2>1, <2>2 DEF Settled, AtRest, Linked
<1> QED BY <1>1, ChainInvariant, PTL

\* Under the same conditions, with keys that have the id of their block in them, the
\* utxoset between two calls is what the blocks with the flag have made and not spent,
\* whatever was unwound and wound on the way.
THEOREM UtxosetRight ==
    ASSUME PlainTree, KeysNamed
    PROVE  Spec /\ []NoBadReorganisation => []UtxosetMatchesChain
<1>1. ChainInv => UtxosetMatchesChain
  <2> SUFFICES ASSUME ChainInv, pc = "idle", NEW b \in blocks, NEW k \in Outs[b]
               PROVE  k \in utxoset <=> /\ \E c \in inLongestChain : k \in Outs[c]
                                        /\ ~Spent(k)
    BY DEF UtxosetMatchesChain
  <2>1. PICK c \in blocks \cup {NoBlock} : Settled(c)
    BY DEF ChainInv, IdleInv
  <2>2. /\ c \in Hashes /\ utxoset = FC!Replay(c)
        /\ Linked(inLongestChain, c) /\ inLongestChain \in SUBSET Blocks
    BY <2>1 DEF Settled, AtRest, Linked
  <2>3. k \in Keys
    BY BlockFacts DEF ChainInv, StoreInv
  <2>4. k \in FC!Replay(c) <=> Makes(inLongestChain, k) /\ ~Spends(inLongestChain, k)
    BY <2>2, <2>3, ReplayLeaves DEF Leaves
  <2> QED BY <2>2, <2>4 DEF Makes, Spends, Spent
<1> QED BY <1>1, ChainInvariant, PTL

\* When every block validates, nothing is left to suppose about the run.
THEOREM ValidForkChoice ==
    ASSUME PlainTree, Invalid = {}
    PROVE  Spec => ImplementsForkChoice
<1>1. NoBadReorganisation
  BY DEF NoBadReorganisation
<1> QED BY <1>1, ForkChoiceImplemented, PTL

-----------------------------------------------------------------------------
(* The ring and the flags.                                                 *)

\* Blocks of S whose slot is s.
In(S, s) == {b \in S : SlotOf(Id[b]) = s}

\* The ring names the blocks of S, each at its id, and no other block.
Names(r, S) ==
    /\ \A s \in Slots : /\ r.items[s].lcPos \in 0 .. Len(r.items[s].hashes)
                        /\ r.items[s].lcPos # 0 =>
                              r.items[s].hashes[r.items[s].lcPos] \in In(S, s)
    /\ \A b \in S : LET item == r.items[SlotOf(Id[b])]
                    IN item.lcPos # 0 /\ item.hashes[item.lcPos] = b

\* A block that is stored is not named.
LEMMA AddNames ==
    ASSUME NEW r, IsRing(r), NEW S \in SUBSET Blocks, Names(r, S), NEW b \in Blocks
    PROVE  Names(RingAdd(r, b), S)
<1> DEFINE t == SlotOf(Id[b])
<1>1. t \in Slots
  BY SlotFacts, BlockFacts
<1>2. CASE b \in Stored(r, t)
  BY <1>2 DEF RingAdd
<1>3. CASE b \notin Stored(r, t)
  <2>1. RingAdd(r, b) = [r EXCEPT !.items[t].hashes = Append(@, b)]
    BY <1>3 DEF RingAdd
  <2>2. /\ r.items \in [Slots -> [hashes : Seq(Blocks), lcPos : Nat]]
        /\ r.items[t].hashes \in Seq(Blocks)
    BY <1>1 DEF IsRing
  <2>3. PICK q : q = RingAdd(r, b)
    OBVIOUS
  <2>4. PICK more : more = Append(r.items[t].hashes, b)
    OBVIOUS
  <2>5. /\ q.items[t].hashes = more /\ q.items[t].lcPos = r.items[t].lcPos
        /\ \A s \in Slots : s # t => q.items[s] = r.items[s]
    BY <1>1, <2>1, <2>2, <2>3, <2>4 DEF IsRing
  <2>6. /\ Len(r.items[t].hashes) \in Nat /\ Len(more) = Len(r.items[t].hashes) + 1
        /\ \A i \in 1 .. Len(r.items[t].hashes) : more[i] = r.items[t].hashes[i]
    BY <2>2, <2>4
  <2>7. /\ r.items[t].lcPos \in 0 .. Len(r.items[t].hashes)
        /\ r.items[t].lcPos # 0 => r.items[t].hashes[r.items[t].lcPos] \in In(S, t)
    BY <1>1 DEF Names
  <2>8. /\ q.items[t].lcPos \in 0 .. Len(more)
        /\ r.items[t].lcPos # 0 => more[q.items[t].lcPos] = r.items[t].hashes[r.items[t].lcPos]
    BY <2>5, <2>6, <2>7
  <2>9. \A s \in Slots : /\ q.items[s].lcPos \in 0 .. Len(q.items[s].hashes)
                         /\ q.items[s].lcPos # 0 =>
                               q.items[s].hashes[q.items[s].lcPos] \in In(S, s)
    <3> TAKE s \in Slots
    <3>1. CASE s = t
      BY <2>5, <2>7, <2>8, <3>1
    <3>2. CASE s # t
      BY <2>5, <3>2 DEF Names
    <3> QED BY <3>1, <3>2
  <2>10. \A x \in S : /\ q.items[SlotOf(Id[x])].lcPos # 0
                      /\ q.items[SlotOf(Id[x])].hashes[q.items[SlotOf(Id[x])].lcPos] = x
    <3> TAKE x \in S
    <3>1. SlotOf(Id[x]) \in Slots
      BY SlotFacts, BlockFacts
    <3>2. /\ r.items[SlotOf(Id[x])].lcPos # 0
          /\ r.items[SlotOf(Id[x])].hashes[r.items[SlotOf(Id[x])].lcPos] = x
      BY DEF Names
    <3>3. CASE SlotOf(Id[x]) = t
      BY <2>5, <2>8, <3>2, <3>3
    <3>4. CASE SlotOf(Id[x]) # t
      BY <2>5, <3>1, <3>2, <3>4
    <3> QED BY <3>3, <3>4
  <2> QED BY <2>3, <2>9, <2>10 DEF Names
<1> QED BY <1>2, <1>3

\* On a plain tree, blocks with different ids are in different slots.
LEMMA PlainSlots ==
    ASSUME PlainTree, NEW x \in Blocks, NEW b \in Blocks, Id[x] # Id[b]
    PROVE  SlotOf(Id[x]) # SlotOf(Id[b])
<1>1. Id[x] \in 1 .. RingSize /\ Id[b] \in 1 .. RingSize
  BY BlockFacts, RingAssumption DEF PlainTree, RingSize
<1> QED BY <1>1, SlotFacts

\* A block that is wound is named from now on, in the place of none.
LEMMA WindNames ==
    ASSUME PlainTree, NEW r, IsRing(r), NEW S \in SUBSET Blocks, Names(r, S),
           NEW b \in Blocks, b \in Stored(r, SlotOf(Id[b])), \A x \in S : Id[x] # Id[b]
    PROVE  Names(RingWind(r, b), S \cup {b})
<1> DEFINE t == SlotOf(Id[b])
           p == PositionOf(r.items[t].hashes, b)
<1>1. t \in Slots
  BY SlotFacts, BlockFacts
<1>2. /\ r.items \in [Slots -> [hashes : Seq(Blocks), lcPos : Nat]]
      /\ r.items[t].hashes \in Seq(Blocks)
  BY <1>1 DEF IsRing
<1>3. p \in 1 .. Len(r.items[t].hashes) /\ r.items[t].hashes[p] = b
  <2>1. Contains(r.items[t].hashes, b)
    BY DEF Stored, Contains
  <2> QED BY <1>2, <2>1, PositionFacts
<1>4. PICK q : q = RingWind(r, b)
  OBVIOUS
<1>5. q = [items |-> [r.items EXCEPT ![t].lcPos = p], lcPos |-> t]
  BY <1>4 DEF RingWind, PositionOf
<1> HIDE DEF p
<1>6. /\ q.items[t].lcPos = p /\ q.items[t].hashes = r.items[t].hashes
      /\ \A s \in Slots : s # t => q.items[s] = r.items[s]
  BY <1>1, <1>2, <1>5
<1>7. Len(r.items[t].hashes) \in Nat
  BY <1>2
<1>8. \A s \in Slots : /\ q.items[s].lcPos \in 0 .. Len(q.items[s].hashes)
                       /\ q.items[s].lcPos # 0 =>
                             q.items[s].hashes[q.items[s].lcPos] \in In(S \cup {b}, s)
  <2> TAKE s \in Slots
  <2>1. CASE s = t
    BY <1>3, <1>6, <1>7, <2>1 DEF In
  <2>2. CASE s # t
    BY <1>6, <2>2 DEF Names, In
  <2> QED BY <2>1, <2>2
<1>9. \A x \in S \cup {b} : /\ q.items[SlotOf(Id[x])].lcPos # 0
                            /\ q.items[SlotOf(Id[x])].hashes[q.items[SlotOf(Id[x])].lcPos] = x
  <2> TAKE x \in S \cup {b}
  <2>1. CASE x = b
    BY <1>3, <1>6, <1>7, <2>1
  <2>2. CASE x # b
    <3>1. x \in S /\ SlotOf(Id[x]) \in Slots /\ SlotOf(Id[x]) # t
      BY <2>2, PlainSlots, SlotFacts, BlockFacts
    <3> QED BY <1>6, <3>1 DEF Names
  <2> QED BY <2>1, <2>2
<1> QED BY <1>4, <1>8, <1>9 DEF Names

\* A block that is unwound is named no more.
LEMMA UnwindNames ==
    ASSUME PlainTree, NEW r, IsRing(r), NEW S \in SUBSET Blocks, Names(r, S),
           NEW b \in S, \A x \in S \ {b} : Id[x] # Id[b]
    PROVE  Names(RingUnwind(r, b), S \ {b})
<1> DEFINE t == SlotOf(Id[b])
<1>1. b \in Blocks /\ t \in Slots
  BY SlotFacts, BlockFacts
<1>2. /\ r.items \in [Slots -> [hashes : Seq(Blocks), lcPos : Nat]]
      /\ r.items[t].hashes \in Seq(Blocks)
  BY <1>1 DEF IsRing
<1>3. PICK q : q = RingUnwind(r, b)
  OBVIOUS
<1>4. q.items = [r.items EXCEPT ![t].lcPos = 0]
  BY <1>3 DEF RingUnwind
<1>5. /\ q.items[t].lcPos = 0 /\ q.items[t].hashes = r.items[t].hashes
      /\ \A s \in Slots : s # t => q.items[s] = r.items[s]
  BY <1>1, <1>2, <1>4
<1>6. \A s \in Slots : s # t => In(S, s) \subseteq In(S \ {b}, s)
  BY DEF In
<1>7. \A s \in Slots : /\ q.items[s].lcPos \in 0 .. Len(q.items[s].hashes)
                       /\ q.items[s].lcPos # 0 =>
                             q.items[s].hashes[q.items[s].lcPos] \in In(S \ {b}, s)
  <2> TAKE s \in Slots
  <2>1. CASE s = t
    <3>1. Len(r.items[t].hashes) \in Nat
      BY <1>2
    <3> QED BY <1>5, <2>1, <3>1
  <2>2. CASE s # t
    BY <1>5, <1>6, <2>2 DEF Names
  <2> QED BY <2>1, <2>2
<1>8. \A x \in S \ {b} : /\ q.items[SlotOf(Id[x])].lcPos # 0
                         /\ q.items[SlotOf(Id[x])].hashes[q.items[SlotOf(Id[x])].lcPos] = x
  <2> TAKE x \in S \ {b}
  <2>1. x \in S /\ SlotOf(Id[x]) \in Slots /\ SlotOf(Id[x]) # t
    BY <1>1, PlainSlots, SlotFacts, BlockFacts
  <2> QED BY <1>5, <2>1 DEF Names
<1> QED BY <1>3, <1>7, <1>8 DEF Names

\* On a plain tree, winding purges nothing.
LEMMA PlainWind ==
    ASSUME PlainTree, StoreInv, NEW b \in blocks, NEW pr, WindBlock(b, pr)
    PROVE  ring' = RingWind(ring, b)
<1> DEFINE wound == RingWind(ring, b)
<1>1. b \in Blocks /\ b \in Stored(ring, SlotOf(Id[b])) /\ IsRing(ring) /\ b \in Hashes
  BY SlotFacts, BlockFacts DEF StoreInv, Hashes
<1>2. IsRing(wound) /\ RingAt(wound, b)
  BY <1>1, RingWindFacts
<1>3. LatestId(wound) < 2 * GenesisPeriod + 1
  <2>1. LatestId(wound) = Id[b]
    BY <1>1, <1>2, LatestFacts, BlockFacts
  <2>2. Id[b] <= RingSize /\ Id[b] \in Nat /\ RingSize \in Nat
    BY <1>1, BlockFacts, RingAssumption DEF PlainTree, RingSize
  <2> QED BY <2>1, <2>2 DEF RingSize
<1>4. PurgedBy(wound) = {}
  BY <1>3 DEF PurgedBy
<1>5. \A i : RingDelete(wound, i, {}) = wound
  BY DEF RingDelete
<1> HIDE DEF wound
<1> QED BY <1>4, <1>5 DEF WindBlock, wound

\* Blocks the ring has to name: a tip that is not wound yet is flagged before its time.
Named == IF pc \in {"wind", "unwind"} THEN inLongestChain \ {tip} ELSE inLongestChain

NothingRefused == pc # "refused"

\* Whatever a call of add_block does, the ring names what it has to.
LEMMA NamesStep ==
    ASSUME PlainTree, ChainInv, NoBadReorganisation, NothingRefused, NothingRefused',
           Names(ring, Named), [Next]_vars
    PROVE  Names(ring', Named')
<1>1. /\ IsRing(ring) /\ inLongestChain \subseteq blocks /\ blocks \subseteq Blocks
      /\ Named \in SUBSET Blocks
      /\ \A s \in Slots : Stored(ring, s) = {x \in blocks : SlotOf(Id[x]) = s}
  BY DEF ChainInv, StoreInv, Named
<1>2. ASSUME UNCHANGED <<ring, inLongestChain, pc, tip>>
      PROVE  Names(ring', Named')
  BY <1>2 DEF Named
<1>3. ASSUME NEW b \in Blocks, Arrives(b), PlaceBlock(b)
      PROVE  Names(ring', Named')
  <2>1. pc = "idle" /\ tip = NoBlock /\ b \notin blocks /\ ~Orphan(b) /\ StoreInv
    BY <1>3 DEF PlaceBlock, Idle, ChainInv, IdleInv
  <2>2. PICK c \in blocks \cup {NoBlock} : Settled(c)
    BY <2>1 DEF ChainInv, IdleInv
  <2>3. Placed(b).ring = RingAdd(ring, b) /\ Placed(b).gone = {}
    BY <1>3, <2>1, <2>2, PlacedFacts
  <2>4. ring' = RingAdd(ring, b) /\ tip' = b
    BY <1>3, <2>3 DEF PlaceBlock
  <2>5. Named' = inLongestChain
    <3>1. inLongestChain' = inLongestChain \cup (IF Placed(b).longest THEN {b} ELSE {})
      BY <1>3, <2>3 DEF PlaceBlock
    <3>2. Placed(b).longest => pc' \in {"wind", "unwind"}
      BY <1>3 DEF PlaceBlock, NothingRefused
    <3>3. ~Placed(b).longest => pc' = "added"
      BY <1>3 DEF PlaceBlock
    <3> QED BY <1>1, <2>1, <2>4, <3>1, <3>2, <3>3 DEF Named
  <2>6. Named = inLongestChain
    BY <2>1 DEF Named
  <2> QED BY <1>1, <2>4, <2>5, <2>6, AddNames
<1>4. ASSUME WindValid PROVE Names(ring', Named')
  <2>1. PICK b : b = newChain[index]
    OBVIOUS
  <2>2. pc = "wind" /\ b \notin Invalid /\ WindBlock(b, Upgraded(NeededFor(b)))
    BY <1>4, <2>1 DEF WindValid, Winding
  <2>3. /\ b \in blocks /\ b \in Blocks /\ index \in Nat /\ index >= 1
        /\ index = 1 => b = tip
        /\ index > 1 => b # tip
        /\ Cursor(pc, newChain, oldChain, index) = Prev[b]
    BY <2>1, <2>2, WindCursor
  <2>4. Linked(Named, Prev[b]) /\ (windFailure => index > 1)
    BY <2>2, <2>3 DEF ChainInv, LoopInv, Named
  <2>5. \A x \in Named : Id[x] # Id[b]
    <3>1. CASE Prev[b] = NoBlock
      BY <2>4, <3>1 DEF Linked
    <3>2. CASE Prev[b] # NoBlock
      <4>1. Id[b] = Id[Prev[b]] + 1 /\ Id[Prev[b]] \in Nat
        BY <2>3, <3>2, BlockFacts
      <4>2. \A x \in Named : Id[x] <= Id[Prev[b]] /\ Id[x] \in Nat
        BY <1>1, <2>4, BlockFacts DEF Linked
      <4> QED BY <4>1, <4>2
    <3> QED BY <3>1, <3>2
  <2>6. b \in Stored(ring, SlotOf(Id[b]))
    BY <1>1, <2>3, SlotFacts, BlockFacts
  <2>7. Names(RingWind(ring, b), Named \cup {b})
    BY <1>1, <2>3, <2>5, <2>6, WindNames
  <2>8. ring' = RingWind(ring, b) /\ inLongestChain' = inLongestChain \cup {b} /\ tip' = tip
    <3>1. inLongestChain' = inLongestChain \cup {b}
      BY <2>2, <2>3, WindFacts DEF ChainInv
    <3>2. ring' = RingWind(ring, b)
      BY <2>2, <2>3, PlainWind DEF ChainInv
    <3> QED BY <1>4, <3>1, <3>2 DEF WindValid
  <2>9. Named' = Named \cup {b}
    <3>1. CASE index > 1
      <4>1. pc' = "wind"
        BY <1>4, <2>2, <3>1 DEF WindValid
      <4> QED BY <2>2, <2>3, <2>8, <3>1, <4>1 DEF Named
    <3>2. CASE index = 1
      <4>1. pc' = "added"
        BY <1>4, <2>4, <3>2 DEF WindValid
      <4>2. b = tip
        BY <2>3, <3>2
      <4> QED BY <2>2, <2>8, <4>1, <4>2 DEF Named
    <3> QED BY <2>3, <3>1, <3>2
  <2> QED BY <2>7, <2>8, <2>9
<1>5. ASSUME WindInvalid PROVE FALSE
  <2>1. pc = "wind" /\ newChain[index] \in Invalid
    BY <1>5 DEF WindInvalid, Winding
  <2>2. oldChain = << >> /\ index = Len(newChain)
    BY <2>1 DEF NoBadReorganisation
  <2>3. Len(newChain) \in Nat
    BY <2>1, WindCursor
  <2>4. pc' = "refused"
    BY <1>5, <2>2, <2>3 DEF WindInvalid
  <2> QED BY <2>4 DEF NothingRefused
<1>6. ASSUME UnwindBlock PROVE Names(ring', Named')
  <2>1. PICK b : b = oldChain[index]
    OBVIOUS
  <2>2. /\ pc = "unwind" /\ unwinding = oldChain
        /\ Linked(Named, b) /\ index \in 1 .. Len(oldChain) /\ oldChain \in Seq(Blocks)
    BY <1>6, <2>1 DEF UnwindBlock, ChainInv, LoopInv, Cursor, Branches, Named
  <2>3. b \in Blocks /\ b # NoBlock
    <3>1. b \in Blocks
      BY <2>1, <2>2
    <3> QED BY <3>1, BlockFacts
  <2>4. b \in Named /\ \A x \in Named \ {b} : Id[x] # Id[b]
    BY <2>2, <2>3 DEF Linked
  <2>5. Names(RingUnwind(ring, b), Named \ {b})
    BY <1>1, <2>4, UnwindNames
  <2>6. /\ ring' = RingUnwind(ring, b) /\ inLongestChain' = inLongestChain \ {b}
        /\ tip' = tip /\ pc' \in {"wind", "unwind"}
    BY <1>6, <2>1, <2>2 DEF UnwindBlock, Unflagged
  <2>7. Named' = Named \ {b}
    BY <2>2, <2>6 DEF Named
  <2> QED BY <2>5, <2>6, <2>7
<1>7. ~StopAtCheckpoint
  BY DEF StopAtCheckpoint, HasCheckpoint, ChainInv, StoreInv
<1>8. ASSUME AddBlockSuccess PROVE Names(ring', Named')
  BY <1>8 DEF AddBlockSuccess, Finished, Named
<1>9. ~AddBlockFailure
  BY DEF AddBlockFailure, NothingRefused
<1>10. Offer \/ UNCHANGED vars =>
          \/ \E b \in Blocks : Arrives(b) /\ PlaceBlock(b)
          \/ UNCHANGED <<ring, inLongestChain, pc, tip>>
  BY DEF Offer, AddExistingBlock, AddOrphan, vars, storeVars, ledgerVars
<1> QED BY <1>2, <1>3, <1>4, <1>5, <1>6, <1>7, <1>8, <1>9, <1>10 DEF Next, Continue

\* As long as no block is refused either, the ring between two calls is the index its
\* comment describes: it names the flagged block of every id, whatever was unwound and
\* wound on the way, and no block that is not stored.  Refusing a block leaves the
\* position of its slot on whatever hash is first there.
THEOREM RingRight ==
    ASSUME PlainTree
    PROVE  Spec /\ []NoBadReorganisation /\ []NothingRefused => []RingMatchesFlags
<1>1. Init => Names(ring, Named)
  BY DEF Init, Names, Named, EmptyRing
<1>2. /\ ChainInv /\ NoBadReorganisation /\ NothingRefused /\ NothingRefused'
      /\ Names(ring, Named) /\ [Next]_vars
      => Names(ring, Named)'
  BY NamesStep
<1>3. ChainInv /\ Names(ring, Named) => RingMatchesFlags
  <2> SUFFICES ASSUME ChainInv, Names(ring, Named), pc = "idle"
               PROVE  /\ \A b \in blocks : b \in inLongestChain <=> LongestAt(ring, Id[b]) = b
                      /\ \A s \in Slots : Stored(ring, s) = {b \in blocks : SlotOf(Id[b]) = s}
    BY DEF RingMatchesFlags
  <2>1. Named = inLongestChain /\ blocks \subseteq Blocks /\ IsRing(ring)
    BY DEF Named, ChainInv, StoreInv
  <2> SUFFICES ASSUME NEW b \in blocks
               PROVE  b \in inLongestChain <=> LongestAt(ring, Id[b]) = b
    BY DEF ChainInv, StoreInv
  <2>2. PICK s : s = SlotOf(Id[b])
    OBVIOUS
  <2>3. s \in Slots /\ b # NoBlock
    BY <2>1, <2>2, SlotFacts, BlockFacts
  <2>4. PICK item : item = ring.items[s]
    OBVIOUS
  <2>5. Len(item.hashes) \in Nat
    BY <2>1, <2>3, <2>4 DEF IsRing
  <2>6. /\ item.lcPos \in 0 .. Len(item.hashes)
        /\ item.lcPos # 0 => item.hashes[item.lcPos] \in inLongestChain
        /\ b \in inLongestChain => item.lcPos # 0 /\ item.hashes[item.lcPos] = b
    BY <2>1, <2>2, <2>3, <2>4 DEF Names, In
  <2>7. LongestAt(ring, Id[b]) =
           IF item.lcPos \in 1 .. Len(item.hashes) /\ Id[item.hashes[item.lcPos]] = Id[b]
           THEN item.hashes[item.lcPos] ELSE NoBlock
    BY <2>2, <2>4 DEF LongestAt
  <2> QED BY <2>3, <2>5, <2>6, <2>7
<1> QED BY <1>1, <1>2, <1>3, ChainInvariant, PTL DEF Spec

-----------------------------------------------------------------------------
(* Restart: the files of the stored blocks.                                *)

\* Every stored block but the one of the call has a whole file, and a node that is down
\* stores nothing.
FilesInv ==
    /\ (IF pc = "idle" THEN blocks ELSE blocks \ {tip}) \subseteq disk \ torn
    /\ node = "crashed" => blocks = {} /\ pc = "idle"

\* When a start ends, the files it deletes are not those of the blocks it has loaded.
LoadedKept ==
    node = "loading" /\ pc = "idle" /\ loaded = << >> => blocks \subseteq Retained

\* A call of add_block goes on: a block that is deleted goes with its file, and one that
\* is accepted gets a whole one.
LEMMA ProceedFiles ==
    ASSUME FilesInv, Proceed
    PROVE  FilesInv'
<1>1. node # "crashed" /\ node' = node /\ Continue
      /\ torn' = IF pc = "added" THEN torn \ {tip} ELSE torn \cap disk'
  BY DEF Proceed
<1>2. ASSUME NEW b, NEW pr, WindBlock(b, pr), tip' = tip, pc \in {"wind", "unwind"},
             pc' # "idle"
      PROVE  FilesInv'
  <2>1. PICK purged : blocks' = blocks \ purged /\ disk' = disk \ purged
    BY <1>2 DEF WindBlock
  <2> QED BY <1>1, <1>2, <2>1 DEF FilesInv
<1>3. CASE WindValid
  <2>1. WindBlock(newChain[index], Upgraded(NeededFor(newChain[index])))
        /\ tip' = tip /\ pc = "wind" /\ pc' # "idle"
    BY <1>3 DEF WindValid, Winding
  <2> QED BY <1>2, <2>1
<1>4. ASSUME UNCHANGED <<blocks, disk, tip>>, pc \in {"wind", "unwind"}, pc' # "idle"
      PROVE  FilesInv'
  BY <1>1, <1>4 DEF FilesInv
<1>5. CASE WindInvalid
  <2>1. UNCHANGED <<blocks, disk, tip>> /\ pc = "wind" /\ pc' # "idle"
    BY <1>5 DEF WindInvalid, Winding, storeVars
  <2> QED BY <1>4, <2>1
<1>6. CASE UnwindBlock
  <2>1. UNCHANGED <<blocks, disk, tip>> /\ pc = "unwind" /\ pc' # "idle"
    BY <1>6 DEF UnwindBlock
  <2> QED BY <1>4, <2>1
<1>7. CASE StopAtCheckpoint
  <2>1. UNCHANGED <<blocks, disk, tip>> /\ pc \in {"wind", "unwind"} /\ pc' # "idle"
    BY <1>7 DEF StopAtCheckpoint, storeVars
  <2> QED BY <1>4, <2>1
<1>8. CASE AddBlockSuccess
  <2>1. /\ pc = "added" /\ pc' = "idle" /\ tip' = NoBlock
        /\ disk' = disk \cup {tip} /\ blocks' = blocks
    BY <1>8 DEF AddBlockSuccess, Finished, Saved
  <2> QED BY <1>1, <2>1 DEF FilesInv
<1>9. CASE AddBlockFailure
  <2>1. /\ pc = "refused" /\ pc' = "idle" /\ tip' = NoBlock
        /\ disk' = disk /\ blocks' = blocks \ {tip}
    BY <1>9 DEF AddBlockFailure, Finished
  <2> QED BY <1>1, <2>1 DEF FilesInv
<1> QED BY <1>1, <1>3, <1>5, <1>6, <1>7, <1>8, <1>9 DEF Continue

\* A block arrives, from a peer or from its file, and is stored before it is written.
LEMMA PlaceFiles ==
    ASSUME FilesInv, NEW b, PlaceBlock(b), node' = node, node # "crashed",
           torn' = torn
    PROVE  FilesInv'
<1>1. /\ pc = "idle" /\ pc' # "idle" /\ tip' = b /\ blocks' = blocks \cup {b} /\ disk' = disk
  BY DEF PlaceBlock, Idle
<1> QED BY <1>1 DEF FilesInv

\* In every step the files of the stored blocks stay whole.
LEMMA FilesStep ==
    ASSUME FilesInv, LoadedKept, [NextRestart]_allVars
    PROVE  FilesInv'
<1>1. ASSUME NEW b \in Blocks, Receive(b) PROVE FilesInv'
  <2>1. node = "running" /\ UNCHANGED restartVars
    BY <1>1 DEF Receive
  <2>2. CASE AddExistingBlock(b)
    BY <2>1, <2>2 DEF AddExistingBlock, FilesInv, restartVars, storeVars
  <2>3. CASE PlaceBlock(b)
    BY <2>1, <2>3, PlaceFiles DEF restartVars
  <2> QED BY <1>1, <2>2, <2>3 DEF Receive
<1>2. ASSUME Crash PROVE FilesInv'
  BY <1>2 DEF Crash, MemoryLost, Finished, FilesInv
<1>3. ASSUME Start PROVE FilesInv'
  BY <1>3 DEF Start, FilesInv, vars, storeVars
<1>4. ASSUME LoadBlock PROVE FilesInv'
  <2>1. PlaceBlock(Head(loaded)) /\ node' = node /\ node # "crashed" /\ torn' = torn
    BY <1>4 DEF LoadBlock
  <2> QED BY <2>1, PlaceFiles
<1>5. ASSUME EndLoading PROVE FilesInv'
  <2>1. blocks \subseteq Retained
    BY <1>5 DEF EndLoading, Idle, LoadedKept
  <2>2. /\ disk' = disk \ (listed \ Retained) /\ torn' = torn \cap disk' /\ node' = "running"
        /\ blocks' = blocks /\ tip' = tip /\ pc' = pc
    BY <1>5 DEF EndLoading
  <2> HIDE DEF Retained
  <2> QED BY <2>1, <2>2 DEF FilesInv
<1>6. CASE UNCHANGED allVars
  BY <1>6 DEF allVars, restartVars, vars, storeVars, FilesInv
<1> QED BY <1>1, <1>2, <1>3, <1>4, <1>5, <1>6, ProceedFiles DEF NextRestart

\* Wherever the node crashed, in the middle of writing a block or of deleting files, and
\* however often: between two calls of add_block every stored block has a whole file, as
\* long as no start loads a block that is older than the files it keeps.
THEOREM FilesWhole == SpecRestart /\ []LoadedKept => []BlocksReadable
<1>1. InitRestart => FilesInv
  BY DEF InitRestart, Init, FilesInv
<1>2. FilesInv /\ LoadedKept /\ [NextRestart]_allVars => FilesInv'
  BY FilesStep
<1>3. FilesInv => BlocksReadable
  BY DEF FilesInv, BlocksReadable
<1> QED BY <1>1, <1>2, <1>3, PTL DEF SpecRestart

=============================================================================
