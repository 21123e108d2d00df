-------------------------- MODULE SyncStateProofs --------------------------
(***************************************************************************)
(* Proofs about SyncState for every set of peers and headers, every batch  *)
(* size and every number of retries.                                       *)
(***************************************************************************)
EXTENDS SyncState, FiniteSetTheorems, TLAPS

\* The type invariant with the one fact about the chain that it rests on.
TypeInv == TypeOK /\ Genesis \in chain

-----------------------------------------------------------------------------
(* What the loop of get_blocks_to_fetch_per_peer does to one peer's list.  *)

\* Selecting entries keeps the status and retry tables well typed.
LEMMA SelectType ==
    ASSUME NEW st \in [Headers -> Statuses],
           NEW rt \in [Headers -> 0 .. MaxRetries + 1]
    PROVE  /\ SelectStatus(st, rt) \in [Headers -> Statuses]
           /\ SelectRetry(st, rt) \in [Headers -> 0 .. MaxRetries + 1]
<1>1. SelectStatus(st, rt) \in [Headers -> Statuses]
  BY DEF SelectStatus, Statuses
<1>2. SelectRetry(st, rt) \in [Headers -> 0 .. MaxRetries + 1]
  BY SyncAssumption DEF SelectRetry
<1> QED BY <1>1, <1>2

\* Building the list of entries keeps the tables well typed.
LEMMA BuiltType ==
    ASSUME NEW pic,
           NEW st \in [Peers -> [Headers -> Statuses]],
           NEW rt \in [Peers -> [Headers -> 0 .. MaxRetries + 1]]
    PROVE  /\ Built(pic, st) \in [Peers -> [Headers -> Statuses]]
           /\ BuiltRetry(pic, st, rt) \in [Peers -> [Headers -> 0 .. MaxRetries + 1]]
BY SyncAssumption DEF Built, BuiltRetry, Statuses

\* (id, hash) pairs are totally ordered by the comparison the code sorts with.
LEMMA BeforeOrder ==
    ASSUME NEW a \in Headers, NEW b \in Headers, NEW c \in Headers
    PROVE  /\ ~Before(a, a)
           /\ Before(a, b) /\ Before(b, c) => Before(a, c)
           /\ a # b => Before(a, b) \/ Before(b, a)
<1>1. /\ a \in [id : Nat, hash : Nat]
      /\ b \in [id : Nat, hash : Nat]
      /\ c \in [id : Nat, hash : Nat]
  BY SyncAssumption
<1> QED BY <1>1 DEF Before

\* Every subset of the headers is finite.
LEMMA FiniteHeaders ==
    ASSUME NEW S \in SUBSET Headers
    PROVE  IsFiniteSet(S) /\ Cardinality(S) \in Nat
BY SyncAssumption, FS_Subset, FS_CardinalityType

\* Of two consuming entries the earlier one has the smaller rank.
LEMMA RankIsStrict ==
    ASSUME NEW K \in SUBSET Headers, NEW a \in K, NEW b \in K, Before(a, b)
    PROVE  Cardinality({o \in K : Before(o, a)}) < Cardinality({o \in K : Before(o, b)})
<1> DEFINE A == {o \in K : Before(o, a)}
           B == {o \in K : Before(o, b)}
<1>1. A \subseteq B
  BY BeforeOrder
<1>2. a \in B /\ a \notin A
  BY BeforeOrder
<1>3. IsFiniteSet(A) /\ IsFiniteSet(B) /\ Cardinality(A) \in Nat /\ Cardinality(B) \in Nat
  BY FiniteHeaders
<1>4. Cardinality(A) <= Cardinality(B) /\ (Cardinality(B) = Cardinality(A) => B = A)
  BY <1>1, <1>3, FS_Subset
<1>5. Cardinality(A) # Cardinality(B)
  BY <1>2, <1>4
<1> HIDE DEF A, B
<1>6. Cardinality(A) < Cardinality(B)
  BY <1>3, <1>4, <1>5
<1> QED BY <1>6 DEF A, B

\* At most as many entries are selected as the quota allows.
LEMMA ChosenBounded ==
    ASSUME NEW st \in [Headers -> Statuses], NEW rt, Quota(st) \in Nat
    PROVE  Cardinality(Chosen(st, rt)) <= Quota(st)
<1> DEFINE K == Consuming(st, rt)
           q == Quota(st)
           C == Chosen(st, rt)
           rank == [hd \in C |-> Cardinality({o \in K : Before(o, hd)})]
<1>1. C \subseteq K /\ K \subseteq Headers
  BY DEF Chosen, Reached, Consuming
<1>2. IsFiniteSet(C) /\ Cardinality(C) \in Nat
  BY <1>1, FiniteHeaders
<1>3. rank \in [C -> 0 .. q - 1]
  <2>1. \A hd \in C : rank[hd] \in Nat /\ rank[hd] < q
    BY <1>1, FiniteHeaders DEF Chosen, Reached
  <2> QED BY <2>1
<1>4. IsFiniteSet(0 .. q - 1) /\ Cardinality(0 .. q - 1) = q
  BY FS_Interval
<1>5. ASSUME q < Cardinality(C) PROVE FALSE
  <2>1. PICK x \in C, y \in C : x # y /\ rank[x] = rank[y]
    <3> DEFINE T == 0 .. q - 1
    <3>1. IsFiniteSet(T) /\ Cardinality(T) < Cardinality(C)
      BY <1>4, <1>5
    <3>2. rank \in [C -> T]
      BY <1>3
    <3> HIDE DEF C, T, rank
    <3> QED BY <1>2, <3>1, <3>2, FS_PigeonHole
  <2>2. Before(x, y) \/ Before(y, x)
    BY <1>1, <2>1, BeforeOrder
  <2>3. rank[x] \in Nat /\ rank[y] \in Nat
    BY <1>3
  <2>4. rank[x] < rank[y] \/ rank[y] < rank[x]
    BY <1>1, <2>2, RankIsStrict
  <2> QED BY <2>1, <2>3, <2>4
<1> HIDE DEF C, q
<1>6. Cardinality(C) <= q
  BY <1>2, <1>5 DEF q
<1> QED BY <1>6 DEF C, q

\* Selection never takes a peer above its batch size.
LEMMA SelectKeepsQuota ==
    ASSUME NEW st \in [Headers -> Statuses], NEW rt,
           Cardinality(Fetching(st)) <= BatchSize
    PROVE  Cardinality(Fetching(SelectStatus(st, rt))) <= BatchSize
<1> DEFINE F == Fetching(st)
           C == Chosen(st, rt)
<1>1. F \subseteq Headers /\ C \subseteq Headers /\ F \cap C = {}
  BY DEF Fetching, Chosen, Reached
<1>2. /\ IsFiniteSet(F) /\ Cardinality(F) \in Nat
      /\ IsFiniteSet(C) /\ Cardinality(C) \in Nat
  BY <1>1, FiniteHeaders
<1>3. Fetching(SelectStatus(st, rt)) = F \cup C
  BY DEF Fetching, SelectStatus, Chosen, Reached
<1>4. Quota(st) \in Nat /\ Cardinality(C) <= Quota(st)
  <2>1. Quota(st) \in Nat
    BY <1>2, SyncAssumption DEF Quota
  <2> QED BY <2>1, ChosenBounded
<1>5. Cardinality(F \cup C) = Cardinality(F) + Cardinality(C) - Cardinality({})
  BY <1>1, <1>2, FS_Union
<1>6. Cardinality({}) = 0
  BY FS_EmptySet
<1>7. Quota(st) = BatchSize - Cardinality(F)
  BY DEF Quota
<1> QED BY <1>2, <1>3, <1>4, <1>5, <1>6, <1>7, SyncAssumption

-----------------------------------------------------------------------------
(* Steps that end in fetch_next_blocks.                                    *)

\* fetch_next_blocks keeps the routing thread's tables well typed.
LEMMA FetchNextType ==
    ASSUME NEW pic,
           NEW st \in [Peers -> [Headers -> Statuses]],
           NEW rt \in [Peers -> [Headers -> 0 .. MaxRetries + 1]],
           FetchNextBlocks(pic, st, rt)
    PROVE  /\ picture' \in [Peers -> SUBSET Headers]
           /\ status' \in [Peers -> [Headers -> Statuses]]
           /\ retry' \in [Peers -> [Headers -> 0 .. MaxRetries + 1]]
           /\ selected' \subseteq Peers \X Headers
<1> DEFINE st1 == Built(pic, st)
           rt1 == BuiltRetry(pic, st, rt)
<1>1. /\ st1 \in [Peers -> [Headers -> Statuses]]
      /\ rt1 \in [Peers -> [Headers -> 0 .. MaxRetries + 1]]
  BY BuiltType
<1>2. /\ picture' = [p \in Peers |-> {}]
      /\ status' = [p \in Peers |-> SelectStatus(st1[p], rt1[p])]
      /\ retry' = [p \in Peers |-> SelectRetry(st1[p], rt1[p])]
      /\ selected' \subseteq Peers \X Headers
  BY DEF FetchNextBlocks
<1> HIDE DEF st1, rt1
<1>3. \A p \in Peers : /\ SelectStatus(st1[p], rt1[p]) \in [Headers -> Statuses]
                      /\ SelectRetry(st1[p], rt1[p]) \in [Headers -> 0 .. MaxRetries + 1]
  BY <1>1, SelectType
<1> QED BY <1>2, <1>3

\* remove_entry, mark_as_fetched and mark_as_failed keep the table well typed.
LEMMA RemovalType ==
    ASSUME NEW st \in [Peers -> [Headers -> Statuses]], NEW hash, NEW peer, NEW hd
    PROVE  /\ RemoveEntry(st, hash) \in [Peers -> [Headers -> Statuses]]
           /\ MarkAsFetched(st, hash) \in [Peers -> [Headers -> Statuses]]
           /\ MarkAsFailed(st, peer, hd) \in [Peers -> [Headers -> Statuses]]
BY DEF RemoveEntry, MarkAsFetched, MarkAsFailed, Statuses

-----------------------------------------------------------------------------
\* Taking from and adding to a queue keeps its type.
LEMMA QueueType ==
    ASSUME NEW S, NEW q \in Seq(S)
    PROVE  /\ q # << >> => Head(q) \in S /\ Tail(q) \in Seq(S)
           /\ \A x \in S : Append(q, x) \in Seq(S)
OBVIOUS

\* Penalising a peer keeps the table of counters well typed.
LEMMA PenalisedType ==
    ASSUME invalid \in [Peers -> Nat], NEW p \in Peers
    PROVE  Penalised(p) \in [Peers -> Nat]
BY DEF Penalised

\* The routing thread's own variables are well typed after the step.
RouterType ==
    /\ picture \in [Peers -> SUBSET Headers]
    /\ status \in [Peers -> [Headers -> Statuses]]
    /\ retry \in [Peers -> [Headers -> 0 .. MaxRetries + 1]]
    /\ selected \subseteq Peers \X Headers

\* Every step keeps the type invariant.
LEMMA TypeStep == ASSUME TypeInv PROVE Next => TypeInv'
<1> USE DEF routerVars, netVars, chainVars, boundVars
<1>0. RouterType
  BY DEF TypeInv, TypeOK, RouterType
<1>a. ASSUME NEW pic, NEW st \in [Peers -> [Headers -> Statuses]],
             FetchNextBlocks(pic, st, retry)
      PROVE  RouterType'
  BY <1>0, <1>a, FetchNextType DEF RouterType
<1>1. ASSUME NEW p \in Peers, NEW hd \in Headers, ReceiveBlockHash(p, hd)
      PROVE  TypeInv'
  <2>1. RouterType'
    <3>1. CASE LowestAcceptable >= hd.id \/ p \in OldVersion
      BY <1>0, <1>1, <3>1 DEF ReceiveBlockHash, RouterType
    <3>2. CASE ~(LowestAcceptable >= hd.id \/ p \in OldVersion)
      <4>1. FetchNextBlocks(AddEntry(picture, p, hd), status, retry)
        BY <1>1, <3>2 DEF ReceiveBlockHash
      <4> QED BY <1>0, <1>a, <4>1 DEF RouterType
    <3> QED BY <3>1, <3>2
  <2>2. announced' \subseteq Peers \X Headers /\ repeats' \in Nat
    BY <1>1 DEF ReceiveBlockHash, TypeInv, TypeOK
  <2>3. UNCHANGED <<peerList, netVars, verifying, chainVars, events, invalid,
                    failures, removals>>
    BY <1>1 DEF ReceiveBlockHash
  <2> QED BY <2>1, <2>2, <2>3 DEF TypeInv, TypeOK, RouterType
<1>2. ASSUME NEW p \in Peers, RemovePeer(p) PROVE TypeInv'
  BY SMTT(40), <1>2 DEF RemovePeer, TypeInv, TypeOK
<1>3. ASSUME TimerFetch PROVE TypeInv'
  <2>1. RouterType'
    BY <1>0, <1>a, <1>3 DEF TimerFetch, RouterType
  <2>2. UNCHANGED <<peerList, netVars, verifying, chainVars, events, invalid,
                    boundVars>>
    BY <1>3 DEF TimerFetch
  <2> QED BY <2>1, <2>2 DEF TypeInv, TypeOK, RouterType
<1>4. ASSUME NEW p \in Peers, NEW hd \in Headers, RequestBlock(p, hd)
      PROVE  TypeInv'
  <2>1. status' \in [Peers -> [Headers -> Statuses]]
    <3>1. status' = status \/ status' = RemoveEntry(status, hd.hash)
      BY <1>4 DEF RequestBlock
    <3>2. status \in [Peers -> [Headers -> Statuses]]
      BY <1>0 DEF RouterType
    <3>3. RemoveEntry(status, hd.hash) \in [Peers -> [Headers -> Statuses]]
      BY <3>2, RemovalType
    <3> QED BY <3>1, <3>2, <3>3
  <2>2. tasks' \subseteq tasks \cup {[peer |-> p, hd |-> hd, pc |-> "http"]}
    BY <1>4 DEF RequestBlock
  <2>3. tasks' \subseteq Task
    BY <2>2 DEF Task, TypeInv, TypeOK
  <2>4. /\ selected' \subseteq selected
        /\ UNCHANGED <<picture, retry, peerList, netEvents, verifying,
                       chainVars, events, invalid, boundVars>>
    BY <1>4 DEF RequestBlock
  <2> QED BY <2>1, <2>3, <2>4 DEF TypeInv, TypeOK
<1>5. ASSUME NEW windowOver \in BOOLEAN, ProcessBlockFetched(windowOver)
      PROVE  TypeInv'
  <2> DEFINE p == Head(netEvents).peer
             hd == Head(netEvents).hd
  <2>1. netEvents \in Seq(NetEvent) /\ netEvents # << >> /\ netEvents' = Tail(netEvents)
    BY <1>5 DEF ProcessBlockFetched, TypeInv, TypeOK
  <2>2. Head(netEvents) \in NetEvent /\ netEvents' \in Seq(NetEvent)
    BY <2>1, QueueType
  <2>3. p \in Peers /\ hd \in Headers
    BY <2>2 DEF NetEvent
  <2>4. invalid' \in [Peers -> Nat]
    <3>1. \/ invalid' = invalid
          \/ invalid' = [invalid EXCEPT ![p] = InvalidAfterCheck(p, windowOver)]
      BY <1>5 DEF ProcessBlockFetched
    <3>2. InvalidAfterCheck(p, windowOver) \in Nat
      BY <2>3 DEF InvalidAfterCheck, TypeInv, TypeOK
    <3>3. invalid \in [Peers -> Nat]
      BY DEF TypeInv, TypeOK
    <3> QED BY <2>3, <3>1, <3>2, <3>3
  <2>5. verifying' \subseteq Peers \X Headers
    <3>1. verifying' \subseteq verifying \cup {<<p, hd>>}
      BY <1>5 DEF ProcessBlockFetched
    <3> QED BY <2>3, <3>1 DEF TypeInv, TypeOK
  <2>6. RouterType'
    <3>1. CASE UNCHANGED routerVars
      BY <1>0, <3>1 DEF RouterType
    <3>2. CASE FetchNextBlocks(picture, MarkAsFetched(status, hd.hash), retry)
      <4>1. MarkAsFetched(status, hd.hash) \in [Peers -> [Headers -> Statuses]]
        BY <1>0, RemovalType DEF RouterType
      <4> QED BY <1>a, <3>2, <4>1
    <3> QED BY <1>5, <3>1, <3>2 DEF ProcessBlockFetched
  <2>7. UNCHANGED <<peerList, tasks, chainVars, events, boundVars>>
    BY <1>5 DEF ProcessBlockFetched
  <2> QED BY <2>2, <2>4, <2>5, <2>6, <2>7 DEF TypeInv, TypeOK, RouterType
<1>6. ASSUME ProcessBlockFetchFailed PROVE TypeInv'
  <2>1. status' \in [Peers -> [Headers -> Statuses]]
    BY <1>0, <1>6, RemovalType DEF ProcessBlockFetchFailed, RouterType
  <2>2. netEvents' \in Seq(NetEvent)
    BY <1>6, QueueType DEF ProcessBlockFetchFailed, TypeInv, TypeOK
  <2> QED BY <1>6, <2>1, <2>2 DEF ProcessBlockFetchFailed, TypeInv, TypeOK
<1>7. ASSUME ProcessBlockchainUpdated PROVE TypeInv'
  <2>1. RemoveEntry(status, Head(events).hd.hash) \in [Peers -> [Headers -> Statuses]]
    BY <1>0, RemovalType DEF RouterType
  <2>2. FetchNextBlocks(picture, RemoveEntry(status, Head(events).hd.hash), retry)
    BY <1>7 DEF ProcessBlockchainUpdated
  <2>3. RouterType'
    BY <1>a, <2>1, <2>2
  <2>4. events' \in Seq(Routing)
    BY <1>7, QueueType DEF ProcessBlockchainUpdated, TypeInv, TypeOK
  <2>5. UNCHANGED <<peerList, netVars, verifying, chainVars, invalid, boundVars>>
    BY <1>7 DEF ProcessBlockchainUpdated
  <2> QED BY <2>3, <2>4, <2>5 DEF TypeInv, TypeOK, RouterType
<1>8. ASSUME ProcessBlockFetchRequest PROVE TypeInv'
  <2>1. events \in Seq(Routing) /\ events # << >> /\ events' = Tail(events)
    BY <1>8 DEF ProcessBlockFetchRequest, TypeInv, TypeOK
  <2>2. Head(events) \in Routing /\ events' \in Seq(Routing)
    BY <2>1, QueueType
  <2>3. Head(events).hd \in Headers
    BY <2>2 DEF Routing
  <2>4. picture' \in [Peers -> SUBSET Headers]
    BY <1>0, <1>8, <2>3 DEF ProcessBlockFetchRequest, AddEntry, RouterType
  <2> QED BY <1>8, <2>2, <2>4 DEF ProcessBlockFetchRequest, TypeInv, TypeOK
<1>9. ASSUME NEW t \in tasks, FetchSucceeds(t) \/ FetchTaskEnds(t) \/ FetchFails(t)
      PROVE  TypeInv'
  <2>1. t \in Task
    BY <1>9 DEF TypeInv, TypeOK
  <2>2. [t EXCEPT !.pc = "sent"] \in Task /\ t.peer \in Peers /\ t.hd \in Headers
    BY <2>1 DEF Task
  <2>3. /\ [type |-> "BlockFetched", peer |-> t.peer, hd |-> t.hd] \in NetEvent
        /\ [type |-> "BlockFetchFailed", peer |-> t.peer, hd |-> t.hd] \in NetEvent
    BY <2>2 DEF NetEvent
  <2>4. netEvents' \in Seq(NetEvent)
    <3>1. netEvents \in Seq(NetEvent)
      BY DEF TypeInv, TypeOK
    <3> QED BY <1>9, <2>3, <3>1, QueueType DEF FetchSucceeds, FetchTaskEnds, FetchFails
  <2>5. tasks' \subseteq Task
    BY <1>9, <2>2 DEF FetchSucceeds, FetchTaskEnds, FetchFails, TypeInv, TypeOK
  <2>6. failures' \in Nat
    BY <1>9 DEF FetchSucceeds, FetchTaskEnds, FetchFails, TypeInv, TypeOK
  <2>7. UNCHANGED <<routerVars, peerList, verifying, chainVars, events, invalid,
                    announced, repeats, removals>>
    BY <1>9 DEF FetchSucceeds, FetchTaskEnds, FetchFails
  <2> QED BY <2>4, <2>5, <2>6, <2>7 DEF TypeInv, TypeOK
<1>10. ASSUME NEW p \in Peers, NEW hd \in Headers, VerifyBlock(p, hd)
       PROVE  TypeInv'
  <2>1. invalid' \in [Peers -> Nat]
    <3>1. invalid \in [Peers -> Nat]
      BY DEF TypeInv, TypeOK
    <3>2. invalid' = invalid \/ invalid' = Penalised(p)
      BY <1>10 DEF VerifyBlock
    <3> QED BY <3>1, <3>2, PenalisedType
  <2>2. fetched' \in Seq(Queued)
    <3>1. fetched \in Seq(Queued)
      BY DEF TypeInv, TypeOK
    <3>2. [hash |-> hd.hash, peer |-> p] \in Queued
      BY SyncAssumption DEF Queued
    <3> QED BY <1>10, <3>1, <3>2, QueueType DEF VerifyBlock
  <2> QED BY <1>10, <2>1, <2>2 DEF VerifyBlock, TypeInv, TypeOK
<1>11. ASSUME StartAddingBlocks PROVE TypeInv'
  <2>1. Head(fetched) \in Queued /\ fetched' \in Seq(Queued)
    BY <1>11, QueueType DEF StartAddingBlocks, TypeInv, TypeOK
  <2>2. todo' \subseteq Queued /\ mempool' \subseteq Queued
    BY <1>11, <2>1 DEF StartAddingBlocks, TypeInv, TypeOK
  <2> QED BY <1>11, <2>1, <2>2 DEF StartAddingBlocks, TypeInv, TypeOK
<1>12. ASSUME NEW b \in Queued, AddBlock(b) PROVE TypeInv'
  <2>1. b.hash \in Hashes /\ b.peer \in Peers
    BY DEF Queued
  <2>2. invalid' \in [Peers -> Nat]
    <3>1. invalid \in [Peers -> Nat]
      BY DEF TypeInv, TypeOK
    <3>2. invalid' = invalid \/ invalid' = Penalised(b.peer)
      BY <1>12 DEF AddBlock
    <3> QED BY <2>1, <3>1, <3>2, PenalisedType
  <2>3. events' \in Seq(Routing)
    <3> DEFINE request == [type |-> "BlockFetchRequest", peer |-> b.peer,
                           hd |-> HeaderOf(Parent[b.hash])]
               updated == [type |-> "BlockchainUpdated", peer |-> b.peer,
                           hd |-> HeaderOf(b.hash)]
    <3>1. Genesis \in chain /\ events \in Seq(Routing)
      BY DEF TypeInv, TypeOK
    <3>2. b.hash \notin chain => updated \in Routing
      BY <2>1, <3>1, SyncAssumption DEF HeaderOf, Routing
    <3>3. Parent[b.hash] \notin chain => request \in Routing
      BY <2>1, <3>1, SyncAssumption DEF HeaderOf, Routing
    <3>4. \/ events' = events
          \/ b.hash \notin chain /\ events' = Append(events, updated)
          \/ Parent[b.hash] \notin chain /\ events' = Append(events, request)
      BY <1>12 DEF AddBlock
    <3> HIDE DEF request, updated
    <3> QED BY <3>1, <3>2, <3>3, <3>4, QueueType
  <2>4. chain' \subseteq Hashes /\ Genesis \in chain' /\ mempool' \subseteq Queued
    BY <1>12, <2>1 DEF AddBlock, TypeInv, TypeOK
  <2>5. /\ todo' \subseteq todo
        /\ UNCHANGED <<routerVars, peerList, netVars, verifying, fetched, boundVars>>
    BY <1>12 DEF AddBlock
  <2> QED BY <2>2, <2>3, <2>4, <2>5 DEF TypeInv, TypeOK
<1> QED
  BY <1>1, <1>2, <1>3, <1>4, <1>5, <1>6, <1>7, <1>8, <1>9, <1>10, <1>11, <1>12
  DEF Next, Router, FetchTasks, Workers, Environment

\* Types as an invariant, for the proofs below.
LEMMA TypeInvariant == Spec => []TypeInv
<1>1. Init => TypeInv
  BY SyncAssumption DEF Init, TypeInv, TypeOK, Statuses
<1>2. TypeInv /\ [Next]_vars => TypeInv'
  <2>1. TypeInv /\ UNCHANGED vars => TypeInv'
    BY DEF TypeInv, TypeOK, vars, routerVars, netVars, chainVars, boundVars
  <2> QED BY <2>1, TypeStep
<1> QED BY <1>1, <1>2, PTL DEF Spec

\* The sync state is always well typed: no event order leaves a status, a retry
\* counter or a queue outside its type.
THEOREM TypeCorrect == Spec => []TypeOK
<1>1. TypeInv => TypeOK
  BY DEF TypeInv
<1> QED BY <1>1, TypeInvariant, PTL

-----------------------------------------------------------------------------
(* The quota: QuotaRespected is inductive together with the types.         *)

\* What holds of a status table when no peer is above its batch size.
WithinQuota(st) == \A p \in Peers : Cardinality(Fetching(st[p])) <= BatchSize

\* A table with no additional entries in status Fetching stays within quota.
LEMMA FewerFetching ==
    ASSUME NEW st \in [Peers -> [Headers -> Statuses]], WithinQuota(st),
           NEW nst, \A p \in Peers : Fetching(nst[p]) \subseteq Fetching(st[p])
    PROVE  WithinQuota(nst)
<1> SUFFICES ASSUME NEW p \in Peers
             PROVE  Cardinality(Fetching(nst[p])) <= BatchSize
  BY DEF WithinQuota
<1> DEFINE F == Fetching(st[p])
           G == Fetching(nst[p])
<1>1. F \subseteq Headers /\ G \subseteq F /\ Cardinality(F) <= BatchSize
  BY DEF Fetching, WithinQuota
<1> HIDE DEF F, G
<1>2. IsFiniteSet(F) /\ Cardinality(F) \in Nat
  BY <1>1, FiniteHeaders
<1>3. Cardinality(G) \in Nat /\ Cardinality(G) <= Cardinality(F)
  BY <1>1, <1>2, FS_Subset, FS_CardinalityType
<1>4. Cardinality(G) <= BatchSize
  BY <1>1, <1>2, <1>3, SyncAssumption
<1> QED BY <1>4 DEF G

\* Removing, completing, failing and building entries fetches nothing new.
LEMMA NoNewFetching ==
    ASSUME NEW st \in [Peers -> [Headers -> Statuses]], NEW hash, NEW peer,
           NEW hd, NEW pic, NEW p \in Peers
    PROVE  /\ Fetching(RemoveEntry(st, hash)[p]) \subseteq Fetching(st[p])
           /\ Fetching(MarkAsFetched(st, hash)[p]) \subseteq Fetching(st[p])
           /\ Fetching(MarkAsFailed(st, peer, hd)[p]) \subseteq Fetching(st[p])
           /\ Fetching(Built(pic, st)[p]) \subseteq Fetching(st[p])
BY DEF RemoveEntry, MarkAsFetched, MarkAsFailed, Built, Fetching, Statuses

\* fetch_next_blocks keeps every peer within its quota.
LEMMA FetchNextQuota ==
    ASSUME NEW pic, NEW rt,
           NEW st \in [Peers -> [Headers -> Statuses]], WithinQuota(st),
           FetchNextBlocks(pic, st, rt)
    PROVE  WithinQuota(status')
<1> DEFINE st1 == Built(pic, st)
           rt1 == BuiltRetry(pic, st, rt)
<1>1. st1 \in [Peers -> [Headers -> Statuses]]
  BY DEF Built, Statuses
<1>2. WithinQuota(st1)
  <2>1. \A p \in Peers : Fetching(st1[p]) \subseteq Fetching(st[p])
    BY NoNewFetching
  <2> QED BY <2>1, FewerFetching
<1>3. status' = [p \in Peers |-> SelectStatus(st1[p], rt1[p])]
  BY DEF FetchNextBlocks
<1> HIDE DEF st1, rt1
<1>4. ASSUME NEW p \in Peers
      PROVE  Cardinality(Fetching(status'[p])) <= BatchSize
  <2>1. st1[p] \in [Headers -> Statuses] /\ Cardinality(Fetching(st1[p])) <= BatchSize
    BY <1>1, <1>2 DEF WithinQuota
  <2>2. Cardinality(Fetching(SelectStatus(st1[p], rt1[p]))) <= BatchSize
    BY <2>1, SelectKeepsQuota
  <2> QED BY <1>3, <2>2
<1> QED BY <1>4 DEF WithinQuota

\* The table a step leaves is within quota when it was before.
LEMMA QuotaStep ==
    ASSUME TypeInv, QuotaRespected
    PROVE  Next => QuotaRespected'
<1> USE DEF routerVars, netVars, chainVars, boundVars
<1>0. status \in [Peers -> [Headers -> Statuses]] /\ WithinQuota(status)
  BY DEF TypeInv, TypeOK, QuotaRespected, WithinQuota
<1>a. SUFFICES Next => WithinQuota(status')
  BY DEF QuotaRespected, WithinQuota
<1>b. ASSUME NEW hash PROVE /\ RemoveEntry(status, hash) \in [Peers -> [Headers -> Statuses]]
                            /\ WithinQuota(RemoveEntry(status, hash))
                            /\ MarkAsFetched(status, hash) \in [Peers -> [Headers -> Statuses]]
                            /\ WithinQuota(MarkAsFetched(status, hash))
  <2>1. /\ RemoveEntry(status, hash) \in [Peers -> [Headers -> Statuses]]
        /\ MarkAsFetched(status, hash) \in [Peers -> [Headers -> Statuses]]
    BY <1>0, RemovalType
  <2>2. \A p \in Peers : Fetching(RemoveEntry(status, hash)[p]) \subseteq Fetching(status[p])
    BY <1>0, NoNewFetching
  <2>3. \A p \in Peers : Fetching(MarkAsFetched(status, hash)[p]) \subseteq Fetching(status[p])
    BY <1>0, NoNewFetching
  <2>4. WithinQuota(RemoveEntry(status, hash))
    BY <1>0, <2>2, FewerFetching
  <2>5. WithinQuota(MarkAsFetched(status, hash))
    BY <1>0, <2>3, FewerFetching
  <2> QED BY <2>1, <2>4, <2>5
<1>1. ASSUME NEW p \in Peers, NEW hd \in Headers, ReceiveBlockHash(p, hd)
      PROVE  WithinQuota(status')
  <2>1. \/ status' = status
        \/ FetchNextBlocks(AddEntry(picture, p, hd), status, retry)
    BY <1>1 DEF ReceiveBlockHash
  <2> QED BY <1>0, <2>1, FetchNextQuota
<1>2. ASSUME TimerFetch PROVE WithinQuota(status')
  <2>1. FetchNextBlocks(picture, status, retry)
    BY <1>2 DEF TimerFetch
  <2> QED BY <1>0, <2>1, FetchNextQuota
<1>3. ASSUME NEW p \in Peers, NEW hd \in Headers, RequestBlock(p, hd)
      PROVE  WithinQuota(status')
  <2>1. status' = status \/ status' = RemoveEntry(status, hd.hash)
    BY <1>3 DEF RequestBlock
  <2>2. WithinQuota(RemoveEntry(status, hd.hash))
    BY <1>b
  <2> QED BY <1>0, <2>1, <2>2
<1>4. ASSUME NEW windowOver \in BOOLEAN, ProcessBlockFetched(windowOver)
      PROVE  WithinQuota(status')
  <2> DEFINE nst == MarkAsFetched(status, Head(netEvents).hd.hash)
  <2>1. status' = status \/ FetchNextBlocks(picture, nst, retry)
    BY <1>4 DEF ProcessBlockFetched
  <2>2. nst \in [Peers -> [Headers -> Statuses]] /\ WithinQuota(nst)
    BY <1>b
  <2> HIDE DEF nst
  <2> QED BY <1>0, <2>1, <2>2, FetchNextQuota
<1>5. ASSUME ProcessBlockFetchFailed PROVE WithinQuota(status')
  <2> DEFINE pe == Head(netEvents).peer
             hd == Head(netEvents).hd
  <2>1. status' = MarkAsFailed(status, pe, hd)
    BY <1>5 DEF ProcessBlockFetchFailed
  <2> HIDE DEF pe, hd
  <2>2. \A p \in Peers : Fetching(MarkAsFailed(status, pe, hd)[p]) \subseteq Fetching(status[p])
    BY <1>0, NoNewFetching
  <2>3. WithinQuota(MarkAsFailed(status, pe, hd))
    BY <1>0, <2>2, FewerFetching
  <2> QED BY <2>1, <2>3
<1>6. ASSUME ProcessBlockchainUpdated PROVE WithinQuota(status')
  <2> DEFINE nst == RemoveEntry(status, Head(events).hd.hash)
  <2>1. FetchNextBlocks(picture, nst, retry)
    BY <1>6 DEF ProcessBlockchainUpdated
  <2>2. nst \in [Peers -> [Headers -> Statuses]] /\ WithinQuota(nst)
    BY <1>b
  <2> HIDE DEF nst
  <2> QED BY <2>1, <2>2, FetchNextQuota
<1>7. ASSUME ProcessBlockFetchRequest PROVE status' = status
  BY <1>7 DEF ProcessBlockFetchRequest
<1>8. ASSUME FetchTasks PROVE status' = status
  BY <1>8 DEF FetchTasks, FetchSucceeds, FetchTaskEnds, FetchFails
<1>9. ASSUME Workers PROVE status' = status
  BY <1>9 DEF Workers, VerifyBlock, StartAddingBlocks, AddBlock
<1>10. ASSUME NEW p \in Peers, RemovePeer(p) PROVE status' = status
  BY <1>10 DEF RemovePeer
<1> QED BY <1>0, <1>1, <1>2, <1>3, <1>4, <1>5, <1>6, <1>7, <1>8, <1>9, <1>10
        DEF Next, Router, Environment

\* No peer ever has more than batch_size entries in status Fetching, so the
\* unsigned subtraction in get_blocks_to_fetch_per_peer cannot underflow.
THEOREM QuotaSafe == Spec => []QuotaRespected
<1>1. Init => QuotaRespected
  <2> SUFFICES ASSUME Init PROVE QuotaRespected
    OBVIOUS
  <2>1. \A p \in Peers : Fetching(status[p]) = {}
    BY DEF Init, Fetching
  <2>2. \A p \in Peers : Cardinality(Fetching(status[p])) = 0
    BY <2>1, FS_EmptySet
  <2>3. BatchSize \in Nat
    BY SyncAssumption
  <2> QED BY <2>2, <2>3 DEF QuotaRespected
<1>2. TypeInv /\ QuotaRespected /\ [Next]_vars => QuotaRespected'
  <2>1. QuotaRespected /\ UNCHANGED vars => QuotaRespected'
    BY DEF QuotaRespected, vars, routerVars
  <2> QED BY <2>1, QuotaStep
<1> QED BY <1>1, <1>2, TypeInvariant, PTL DEF Spec

-----------------------------------------------------------------------------
(* Entries of known blocks.                                                *)

\* The event that will remove the entries of a hash is in a queue.
InFlight(q, h) ==
    \E i \in 1 .. Len(q) : q[i].type = "BlockchainUpdated" /\ q[i].hd.hash = h

\* A table whose entries of known blocks all have their event in a queue.
Leaving(st, ch, q) ==
    \A p \in Peers, hd \in Headers :
        st[p][hd] # "Absent" /\ hd.hash \in ch => InFlight(q, hd.hash)

\* An event stays in the queue while others are added behind it.
LEMMA InFlightAppend ==
    ASSUME NEW q \in Seq(Routing), NEW x \in Routing, NEW h
    PROVE  /\ InFlight(q, h) => InFlight(Append(q, x), h)
           /\ x.type = "BlockchainUpdated" /\ x.hd.hash = h => InFlight(Append(q, x), h)
<1>1. /\ Len(Append(q, x)) = Len(q) + 1
      /\ \A i \in 1 .. Len(q) : Append(q, x)[i] = q[i]
      /\ Append(q, x)[Len(q) + 1] = x
      /\ Len(q) \in Nat
  OBVIOUS
<1> QED BY <1>1 DEF InFlight

\* An event that is not the one taken from the queue stays in it.
LEMMA InFlightTail ==
    ASSUME NEW q \in Seq(Routing), q # << >>, NEW h, InFlight(q, h),
           ~(Head(q).type = "BlockchainUpdated" /\ Head(q).hd.hash = h)
    PROVE  InFlight(Tail(q), h)
<1>1. PICK i \in 1 .. Len(q) : q[i].type = "BlockchainUpdated" /\ q[i].hd.hash = h
  BY DEF InFlight
<1>2. i # 1
  BY <1>1
<1>3. i - 1 \in 1 .. Len(Tail(q)) /\ Tail(q)[i - 1] = q[i]
  BY <1>2
<1> QED BY <1>1, <1>3 DEF InFlight

\* fetch_next_blocks adds no entry of a known block.
LEMMA FetchNextLeaving ==
    ASSUME NEW pic, NEW rt, NEW q,
           NEW st \in [Peers -> [Headers -> Statuses]], Leaving(st, chain, q),
           FetchNextBlocks(pic, st, rt)
    PROVE  Leaving(status', chain, q)
<1> DEFINE st1 == Built(pic, st)
           rt1 == BuiltRetry(pic, st, rt)
<1>1. \A p \in Peers, hd \in Headers :
          st1[p][hd] # "Absent" /\ hd.hash \in chain => st[p][hd] # "Absent"
  BY DEF Built
<1>2. status' = [p \in Peers |-> SelectStatus(st1[p], rt1[p])]
  BY DEF FetchNextBlocks
<1> HIDE DEF st1, rt1
<1>3. \A p \in Peers, hd \in Headers :
          SelectStatus(st1[p], rt1[p])[hd] # "Absent" => st1[p][hd] # "Absent"
  BY DEF SelectStatus, Chosen, Reached
<1>4. \A p \in Peers, hd \in Headers :
          status'[p][hd] # "Absent" /\ hd.hash \in chain => st[p][hd] # "Absent"
  BY <1>1, <1>2, <1>3
<1> QED BY <1>4 DEF Leaving

\* Every step keeps the entries of known blocks on their way out.
LEMMA LeavingStep ==
    ASSUME TypeInv, KnownBlockLeaves
    PROVE  Next => KnownBlockLeaves'
<1> USE DEF routerVars, netVars, chainVars, boundVars
<1>0. /\ status \in [Peers -> [Headers -> Statuses]]
      /\ Leaving(status, chain, events)
      /\ events \in Seq(Routing)
  BY DEF TypeInv, TypeOK, KnownBlockLeaves, Leaving, InFlight
<1>a. SUFFICES Next => Leaving(status', chain', events')
  BY DEF KnownBlockLeaves, Leaving, InFlight
<1>b. ASSUME NEW hash
      PROVE  /\ MarkAsFetched(status, hash) \in [Peers -> [Headers -> Statuses]]
             /\ RemoveEntry(status, hash) \in [Peers -> [Headers -> Statuses]]
             /\ Leaving(MarkAsFetched(status, hash), chain, events)
             /\ Leaving(RemoveEntry(status, hash), chain, events)
  <2>1. /\ MarkAsFetched(status, hash) \in [Peers -> [Headers -> Statuses]]
        /\ RemoveEntry(status, hash) \in [Peers -> [Headers -> Statuses]]
    BY <1>0, RemovalType
  <2>2. \A p \in Peers, hd \in Headers :
            /\ RemoveEntry(status, hash)[p][hd] # "Absent" => status[p][hd] # "Absent"
            /\ MarkAsFetched(status, hash)[p][hd] # "Absent" => status[p][hd] # "Absent"
    BY DEF RemoveEntry, MarkAsFetched
  <2> QED BY <1>0, <2>1, <2>2 DEF Leaving
<1>1. ASSUME NEW p \in Peers, NEW hd \in Headers, ReceiveBlockHash(p, hd)
      PROVE  Leaving(status', chain', events')
  <2>1. \/ status' = status
        \/ FetchNextBlocks(AddEntry(picture, p, hd), status, retry)
    BY <1>1 DEF ReceiveBlockHash
  <2>2. chain' = chain /\ events' = events
    BY <1>1 DEF ReceiveBlockHash
  <2> QED BY <1>0, <2>1, <2>2, FetchNextLeaving
<1>2. ASSUME TimerFetch PROVE Leaving(status', chain', events')
  <2>1. FetchNextBlocks(picture, status, retry) /\ chain' = chain /\ events' = events
    BY <1>2 DEF TimerFetch
  <2> QED BY <1>0, <2>1, FetchNextLeaving
<1>3. ASSUME NEW p \in Peers, NEW hd \in Headers, RequestBlock(p, hd)
      PROVE  Leaving(status', chain', events')
  <2>1. status' = status \/ status' = RemoveEntry(status, hd.hash)
    BY <1>3 DEF RequestBlock
  <2>2. chain' = chain /\ events' = events
    BY <1>3 DEF RequestBlock
  <2>3. Leaving(RemoveEntry(status, hd.hash), chain, events)
    BY <1>b
  <2> QED BY <1>0, <2>1, <2>2, <2>3
<1>4. ASSUME NEW windowOver \in BOOLEAN, ProcessBlockFetched(windowOver)
      PROVE  Leaving(status', chain', events')
  <2> DEFINE nst == MarkAsFetched(status, Head(netEvents).hd.hash)
  <2>1. status' = status \/ FetchNextBlocks(picture, nst, retry)
    BY <1>4 DEF ProcessBlockFetched
  <2>2. nst \in [Peers -> [Headers -> Statuses]] /\ Leaving(nst, chain, events)
    BY <1>b
  <2>3. chain' = chain /\ events' = events
    BY <1>4 DEF ProcessBlockFetched
  <2> HIDE DEF nst
  <2> QED BY <1>0, <2>1, <2>2, <2>3, FetchNextLeaving
<1>5. ASSUME ProcessBlockFetchFailed PROVE Leaving(status', chain', events')
  <2> DEFINE pe == Head(netEvents).peer
             hd == Head(netEvents).hd
  <2>1. status' = MarkAsFailed(status, pe, hd) /\ chain' = chain /\ events' = events
    BY <1>5 DEF ProcessBlockFetchFailed
  <2> HIDE DEF pe, hd
  <2>2. \A p \in Peers, h \in Headers :
            MarkAsFailed(status, pe, hd)[p][h] # "Absent" => status[p][h] # "Absent"
    BY DEF MarkAsFailed
  <2> QED BY <1>0, <2>1, <2>2 DEF Leaving
<1>6. ASSUME ProcessBlockchainUpdated PROVE Leaving(status', chain', events')
  <2> DEFINE gone == Head(events).hd.hash
             nst == RemoveEntry(status, gone)
  <2>1. /\ FetchNextBlocks(picture, nst, retry) /\ chain' = chain
        /\ events' = Tail(events) /\ events # << >>
    BY <1>6 DEF ProcessBlockchainUpdated
  <2>2. nst \in [Peers -> [Headers -> Statuses]]
    BY <1>b
  <2>3. \A p \in Peers, h \in Headers :
            nst[p][h] # "Absent" => status[p][h] # "Absent" /\ h.hash # gone
    BY DEF RemoveEntry
  <2> HIDE DEF nst
  <2>4. Leaving(nst, chain, Tail(events))
    <3> SUFFICES ASSUME NEW p \in Peers, NEW h \in Headers,
                        nst[p][h] # "Absent", h.hash \in chain
                 PROVE  InFlight(Tail(events), h.hash)
      BY DEF Leaving
    <3>1. InFlight(events, h.hash) /\ h.hash # gone
      BY <1>0, <2>3 DEF Leaving
    <3> QED BY <1>0, <2>1, <3>1, InFlightTail
  <2> QED BY <2>1, <2>2, <2>4, FetchNextLeaving
<1>7. ASSUME ProcessBlockFetchRequest PROVE Leaving(status', chain', events')
  <2>1. /\ status' = status /\ chain' = chain /\ events' = Tail(events)
        /\ events # << >> /\ Head(events).type = "BlockFetchRequest"
    BY <1>7 DEF ProcessBlockFetchRequest
  <2>2. ASSUME NEW h, InFlight(events, h) PROVE InFlight(Tail(events), h)
    BY <1>0, <2>1, <2>2, InFlightTail
  <2> QED BY <1>0, <2>1, <2>2 DEF Leaving
<1>8. ASSUME FetchTasks PROVE Leaving(status', chain', events')
  <2>1. status' = status /\ chain' = chain /\ events' = events
    BY <1>8 DEF FetchTasks, FetchSucceeds, FetchTaskEnds, FetchFails
  <2> QED BY <1>0, <2>1
<1>9. ASSUME NEW b \in Queued, AddBlock(b) PROVE Leaving(status', chain', events')
  <2>1. status' = status
    BY <1>9 DEF AddBlock
  <2> DEFINE asked == [type |-> "BlockFetchRequest",
                       peer |-> b.peer, hd |-> HeaderOf(Parent[b.hash])]
             joined == [type |-> "BlockchainUpdated",
                        peer |-> b.peer, hd |-> HeaderOf(b.hash)]
  <2>2. \/ chain' = chain /\ events' = events
        \/ /\ chain' = chain /\ events' = Append(events, asked)
           /\ Parent[b.hash] \notin chain /\ b.hash \notin chain
        \/ /\ chain' = chain \cup {b.hash} /\ events' = Append(events, joined)
           /\ b.hash \notin chain
    BY <1>9 DEF AddBlock
  <2>3. b.hash \in Hashes /\ b.peer \in Peers
    BY DEF Queued
  <2>4. Genesis \in chain
    BY DEF TypeInv
  <2>5. CASE chain' = chain /\ events' = events
    BY <1>0, <2>1, <2>5
  <2>6. CASE /\ chain' = chain /\ events' = Append(events, asked)
             /\ Parent[b.hash] \notin chain /\ b.hash \notin chain
    <3>1. Parent[b.hash] \in Hashes \ {Genesis}
      BY <2>3, <2>4, <2>6, SyncAssumption
    <3>2. asked \in Routing
      BY <2>3, <3>1, SyncAssumption DEF Routing, HeaderOf
    <3> HIDE DEF asked
    <3>3. \A h : InFlight(events, h) => InFlight(events', h)
      BY <1>0, <2>6, <3>2, InFlightAppend
    <3> QED BY <1>0, <2>1, <2>6, <3>3 DEF Leaving
  <2>7. CASE /\ chain' = chain \cup {b.hash} /\ events' = Append(events, joined)
             /\ b.hash \notin chain
    <3>1. b.hash \in Hashes \ {Genesis}
      BY <2>3, <2>4, <2>7
    <3>2. joined \in Routing
      BY <2>3, <3>1, SyncAssumption DEF Routing, HeaderOf
    <3>3. joined.type = "BlockchainUpdated" /\ joined.hd.hash = b.hash
      BY DEF HeaderOf
    <3> HIDE DEF joined
    <3>4. \A h : InFlight(events, h) => InFlight(events', h)
      BY <1>0, <2>7, <3>2, InFlightAppend
    <3>5. InFlight(events', b.hash)
      BY <1>0, <2>7, <3>2, <3>3, InFlightAppend
    <3> QED BY <1>0, <2>1, <2>7, <3>4, <3>5 DEF Leaving
  <2> HIDE DEF asked, joined
  <2> QED BY <2>2, <2>5, <2>6, <2>7
<1>10. ASSUME NEW p \in Peers, NEW hd \in Headers, VerifyBlock(p, hd)
       PROVE  Leaving(status', chain', events')
  <2>1. status' = status /\ chain' = chain /\ events' = events
    BY <1>10 DEF VerifyBlock
  <2> QED BY <1>0, <2>1
<1>11. ASSUME StartAddingBlocks PROVE Leaving(status', chain', events')
  <2>1. status' = status /\ chain' = chain /\ events' = events
    BY <1>11 DEF StartAddingBlocks
  <2> QED BY <1>0, <2>1
<1>12. ASSUME NEW p \in Peers, RemovePeer(p) PROVE Leaving(status', chain', events')
  <2>1. status' = status /\ chain' = chain /\ events' = events
    BY <1>12 DEF RemovePeer
  <2> QED BY <1>0, <2>1
<1> QED BY <1>1, <1>2, <1>3, <1>4, <1>5, <1>6, <1>7, <1>8, <1>9, <1>10, <1>11, <1>12
        DEF Next, Router, Workers, Environment

\* Whatever the order of announcements, answers and additions to the chain, an
\* entry of a block the chain has is only there while the BlockchainUpdated
\* event that removes it is in the routing thread's channel.
THEOREM KnownLeaves == Spec => []KnownBlockLeaves
<1>1. Init => KnownBlockLeaves
  BY DEF Init, KnownBlockLeaves
<1>2. TypeInv /\ KnownBlockLeaves /\ [Next]_vars => KnownBlockLeaves'
  <2>1. KnownBlockLeaves /\ UNCHANGED vars => KnownBlockLeaves'
    BY DEF KnownBlockLeaves, vars, routerVars, chainVars
  <2> QED BY <2>1, LeavingStep
<1> QED BY <1>1, <1>2, TypeInvariant, PTL DEF Spec


-----------------------------------------------------------------------------
(* What a step may never do to the entries of a peer.                      *)

\* A table in which entries of another one may be missing.
Thinned(st, nst) ==
    \A p \in Peers, hd \in Headers : nst[p][hd] \in {st[p][hd], "Absent"}

\* fetch_next_blocks runs on a table that lost entries at most.
Fetches ==
    \E pic, st : /\ st \in [Peers -> [Headers -> Statuses]]
                 /\ Thinned(status, st)
                 /\ FetchNextBlocks(pic, st, retry)

\* Entries are removed or marked as failed, and nothing else.
Drops ==
    /\ \A p \in Peers, hd \in Headers : status'[p][hd] \in {status[p][hd], "Absent", "Failed"}
    /\ retry' = retry

\* Every step fetches, drops or leaves the tables alone.
LEMMA StatusSteps ==
    ASSUME TypeInv, [Next]_vars
    PROVE  Fetches \/ Drops
<1> USE DEF routerVars, netVars, chainVars, boundVars
<1>1. status \in [Peers -> [Headers -> Statuses]]
  BY DEF TypeInv, TypeOK
<1>2. ASSUME status' = status, retry' = retry PROVE Drops
  BY <1>2 DEF Drops
<1>3. ASSUME NEW pic, FetchNextBlocks(pic, status, retry) PROVE Fetches
  BY <1>1, <1>3 DEF Fetches, Thinned
<1>4. \A hash : /\ RemoveEntry(status, hash) \in [Peers -> [Headers -> Statuses]]
                /\ Thinned(status, RemoveEntry(status, hash))
                /\ MarkAsFetched(status, hash) \in [Peers -> [Headers -> Statuses]]
                /\ Thinned(status, MarkAsFetched(status, hash))
  BY <1>1 DEF RemoveEntry, MarkAsFetched, Thinned, Statuses
<1>5. CASE UNCHANGED vars
  BY <1>2, <1>5 DEF vars
<1>6. ASSUME NEW p \in Peers, NEW hd \in Headers, ReceiveBlockHash(p, hd) PROVE Fetches \/ Drops
  <2>1. \/ status' = status /\ retry' = retry
        \/ FetchNextBlocks(AddEntry(picture, p, hd), status, retry)
    BY <1>6 DEF ReceiveBlockHash
  <2> QED BY <1>2, <1>3, <2>1
<1>7. CASE TimerFetch
  BY <1>3, <1>7 DEF TimerFetch
<1>8. ASSUME NEW p \in Peers, NEW hd \in Headers, RequestBlock(p, hd) PROVE Drops
  <2>1. retry' = retry /\ (status' = status \/ status' = RemoveEntry(status, hd.hash))
    BY <1>8 DEF RequestBlock
  <2> QED BY <2>1, <1>4 DEF Drops, Thinned
<1>9. ASSUME NEW windowOver \in BOOLEAN, ProcessBlockFetched(windowOver) PROVE Fetches \/ Drops
  <2> DEFINE st == MarkAsFetched(status, Head(netEvents).hd.hash)
  <2>1. \/ status' = status /\ retry' = retry
        \/ FetchNextBlocks(picture, st, retry)
    BY <1>9 DEF ProcessBlockFetched
  <2>2. st \in [Peers -> [Headers -> Statuses]] /\ Thinned(status, st)
    BY <1>4
  <2> HIDE DEF st
  <2> QED BY <1>2, <2>1, <2>2 DEF Fetches
<1>10. CASE ProcessBlockFetchFailed
  <2> DEFINE pe == Head(netEvents).peer
             fd == Head(netEvents).hd
  <2>1. status' = MarkAsFailed(status, pe, fd) /\ retry' = retry
    BY <1>10 DEF ProcessBlockFetchFailed
  <2> HIDE DEF pe, fd
  <2> QED BY <2>1 DEF MarkAsFailed, Drops
<1>11. CASE ProcessBlockchainUpdated
  <2> DEFINE st == RemoveEntry(status, Head(events).hd.hash)
  <2>1. FetchNextBlocks(picture, st, retry)
    BY <1>11 DEF ProcessBlockchainUpdated
  <2>2. st \in [Peers -> [Headers -> Statuses]] /\ Thinned(status, st)
    BY <1>4
  <2> HIDE DEF st
  <2> QED BY <2>1, <2>2 DEF Fetches
<1>12. CASE ProcessBlockFetchRequest
  BY <1>2, <1>12 DEF ProcessBlockFetchRequest
<1>13. CASE FetchTasks
  BY <1>2, <1>13 DEF FetchTasks, FetchSucceeds, FetchTaskEnds, FetchFails
<1>14. CASE Workers
  BY <1>2, <1>14 DEF Workers, VerifyBlock, StartAddingBlocks, AddBlock
<1>15. ASSUME NEW p \in Peers, RemovePeer(p) PROVE Drops
  BY <1>2, <1>15 DEF RemovePeer
<1> QED BY <1>5, <1>6, <1>7, <1>8, <1>9, <1>10, <1>11, <1>12, <1>13, <1>14, <1>15
        DEF Next, Router, Environment

\* The loop reaches the entries before an entry that it reaches.
LEMMA ReachedEarlier ==
    ASSUME NEW st \in [Headers -> Statuses], NEW rt, NEW a \in Headers,
           NEW b \in Reached(st, rt), Before(a, b)
    PROVE  a \in Reached(st, rt)
<1> DEFINE K == Consuming(st, rt)
           A == {o \in K : Before(o, a)}
           B == {o \in K : Before(o, b)}
           q == Quota(st)
<1>1. b \in Headers /\ Cardinality(B) < q
  BY DEF Reached
<1>2. K \subseteq Headers
  BY DEF Consuming
<1>3. A \subseteq B
  BY <1>1, <1>2, BeforeOrder
<1>4. IsFiniteSet(B) /\ Cardinality(A) \in Nat /\ Cardinality(B) \in Nat
  BY <1>2, FiniteHeaders
<1>5. Cardinality(A) <= Cardinality(B)
  BY <1>3, <1>4, FS_Subset
<1>6. q \in Int
  BY FiniteHeaders, SyncAssumption DEF Quota, Fetching
<1> HIDE DEF A, B, q
<1>7. Cardinality(A) < q
  BY <1>1, <1>4, <1>5, <1>6
<1> QED BY <1>7 DEF Reached, A, q

\* A peer's blocks are asked for in the order of their ids, however answers,
\* failures and announcements interleave: no entry overtakes a queued one.
THEOREM FetchOrder == Spec => FetchedInOrder
<1>1. TypeInv /\ [Next]_vars =>
        [\A p \in Peers, a \in Headers, b \in Headers :
          /\ status[p][b] # "Fetching" /\ status'[p][b] = "Fetching"
          /\ Before(a, b) /\ status[p][a] = "Queued"
          => status'[p][a] # "Queued"]_status
  <2> SUFFICES ASSUME TypeInv, [Next]_vars,
                      NEW p \in Peers, NEW a \in Headers, NEW b \in Headers,
                      status[p][b] # "Fetching", status'[p][b] = "Fetching", Before(a, b),
                      status[p][a] = "Queued"
               PROVE  status'[p][a] # "Queued"
    OBVIOUS
  <2>1. Fetches
    <3>1. ~ Drops
      BY DEF Drops
    <3> QED BY <3>1, StatusSteps
  <2>2. PICK pic, st : /\ st \in [Peers -> [Headers -> Statuses]] /\ Thinned(status, st)
                       /\ FetchNextBlocks(pic, st, retry)
    BY <2>1 DEF Fetches
  <2> DEFINE st1 == Built(pic, st)[p]
             rt1 == BuiltRetry(pic, st, retry)[p]
  <2>3. st1 \in [Headers -> Statuses] /\ st1[b] # "Fetching"
    BY <2>2 DEF Built, Statuses, Thinned
  <2>4. status'[p] = SelectStatus(st1, rt1)
    BY <2>2 DEF FetchNextBlocks
  <2> HIDE DEF st1, rt1
  <2>5. b \in Chosen(st1, rt1)
    BY <2>3, <2>4 DEF SelectStatus
  <2>6. a \in Reached(st1, rt1)
    BY <2>3, <2>5, ReachedEarlier DEF Chosen
  <2>7. st1[a] \notin {"Failed"}
    BY <2>2 DEF Built, Thinned, st1
  <2>8. CASE st1[a] = "Queued"
    BY <2>4, <2>6, <2>8 DEF SelectStatus, Chosen
  <2>9. CASE st1[a] # "Queued"
    BY <2>4, <2>7, <2>9 DEF SelectStatus, Chosen
  <2> QED BY <2>8, <2>9
<1> QED BY <1>1, TypeInvariant, PTL DEF Spec, FetchedInOrder

\* A peer is asked again for a block it was given up on only after the entry
\* was removed and the retries are counted anew.
THEOREM GivenUpStays == Spec => GivenUpStaysGivenUp
<1>1. TypeInv /\ [Next]_vars =>
        [\A p \in Peers, hd \in Headers :
          status[p][hd] = "Failed" /\ retry[p][hd] >= MaxRetries
          => \/ status'[p][hd] \in {"Failed", "Absent"}
             \/ retry'[p][hd] < retry[p][hd]]_status
  <2> SUFFICES ASSUME TypeInv, [Next]_vars, NEW p \in Peers, NEW hd \in Headers,
                      status[p][hd] = "Failed", retry[p][hd] >= MaxRetries,
                      status'[p][hd] \notin {"Failed", "Absent"}
               PROVE  retry'[p][hd] < retry[p][hd]
    OBVIOUS
  <2>1. Fetches
    <3>1. ~ Drops
      BY DEF Drops
    <3> QED BY <3>1, StatusSteps
  <2>2. PICK pic, st : /\ st \in [Peers -> [Headers -> Statuses]] /\ Thinned(status, st)
                       /\ FetchNextBlocks(pic, st, retry)
    BY <2>1 DEF Fetches
  <2> DEFINE st1 == Built(pic, st)[p]
             rt1 == BuiltRetry(pic, st, retry)[p]
  <2>3. status'[p] = SelectStatus(st1, rt1) /\ retry'[p] = SelectRetry(st1, rt1)
    BY <2>2 DEF FetchNextBlocks
  <2>4. retry[p][hd] \in Nat /\ MaxRetries \in Nat /\ MaxRetries > 0
    BY SyncAssumption DEF TypeInv, TypeOK
  <2>5. st[p][hd] \in {"Failed", "Absent"}
    BY <2>2 DEF Thinned
  <2>6. CASE st[p][hd] = "Failed"
    <3>1. st1[hd] = "Failed" /\ rt1[hd] = retry[p][hd]
      BY <2>6 DEF Built, BuiltRetry
    <3> HIDE DEF st1, rt1
    <3>2. ~ (rt1[hd] < MaxRetries)
      BY <2>4, <3>1
    <3>3. SelectStatus(st1, rt1)[hd] = "Failed"
      BY <3>1, <3>2 DEF SelectStatus, Chosen
    <3> QED BY <2>3, <3>3
  <2>7. CASE st[p][hd] = "Absent"
    <3>1. st1[hd] # "Failed" /\ rt1[hd] = 0
      BY <2>7 DEF Built, BuiltRetry
    <3> HIDE DEF st1, rt1
    <3>2. SelectRetry(st1, rt1)[hd] = 0
      BY <3>1 DEF SelectRetry
    <3> QED BY <2>3, <2>4, <3>2
  <2> QED BY <2>5, <2>6, <2>7
<1> QED BY <1>1, TypeInvariant, PTL DEF Spec, GivenUpStaysGivenUp

=============================================================================
