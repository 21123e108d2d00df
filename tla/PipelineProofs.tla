--------------------------- MODULE PipelineProofs ---------------------------
(***************************************************************************)
(* Theorems about Pipeline, for any number of verification threads, any    *)
(* channel sizes and any blocks: a circular wait of the threads never      *)
(* ends, and the miner hears of the tip.                                   *)
(***************************************************************************)
EXTENDS Pipeline, Induction, SequenceTheorems, TLAPS

\* A channel is a sequence of something.
ChannelsAreLists == \A t \in Threads : \E S : chan[t] \in Seq(S)

\* A request for the lock is the consensus thread's exactly when it is for writing.
Writers ==
    /\ lock \in Seq([thread : Threads, writes : BOOLEAN])
    /\ \A i \in DOMAIN lock : lock[i].writes <=> lock[i].thread = Consensus

\* A thread is sending while it has something to send.
SendersSend == \A t \in Threads : job[t].at = "sending" <=> out[t] # << >>

\* A verification thread has one thing to send, to the consensus thread.
VerifiersReport ==
    \A v \in Verifying :
        out[v] # << >> => Head(out[v]).to = Consensus /\ Tail(out[v]) = << >>

ReadyIsIdle == \A t \in Threads : ready[t] => job[t] = Idle

Domains ==
    /\ DOMAIN chan = Threads /\ DOMAIN job = Threads
    /\ DOMAIN out = Threads /\ DOMAIN ready = Threads

Inv == Domains /\ ChannelsAreLists /\ Writers /\ SendersSend /\ VerifiersReport /\ ReadyIsIdle

-----------------------------------------------------------------------------
(* The threads are different.                                              *)

LEMMA ThreadsDiffer ==
    /\ Router # Consensus /\ Router # Miner /\ Consensus # Miner
    /\ Peers # Router /\ Peers # Consensus /\ Peers # Miner
    /\ Router \notin Verifying /\ Consensus \notin Verifying /\ Miner \notin Verifying
    /\ {Router, Consensus, Miner} \subseteq Threads /\ Verifying \subseteq Threads
BY DEF Router, Consensus, Miner, Peers, Verifying, Verifier, Threads

\* Appending to a list and taking its first element leave a list, and change its
\* length by one.
LEMMA AppendList ==
    ASSUME NEW S, NEW s \in Seq(S), NEW e
    PROVE  /\ Append(s, e) \in Seq(S \cup {e})
           /\ Len(Append(s, e)) = Len(s) + 1
<1>1. s \in Seq(S \cup {e})
  <2>1. S \subseteq S \cup {e}
    OBVIOUS
  <2> QED
    BY <2>1, SMT
<1> QED
  BY <1>1, AppendProperties

LEMMA TailList ==
    ASSUME NEW S, NEW s \in Seq(S), s # << >>
    PROVE  Tail(s) \in Seq(S) /\ Len(Tail(s)) = Len(s) - 1
BY HeadTailProperties

\* Taking one element out of a list of requests keeps the order of the others.
LEMMA RemoveOne ==
    ASSUME NEW S, NEW s \in Seq(S), NEW k \in DOMAIN s
    PROVE  /\ RemoveAt(s, k) \in Seq(S)
           /\ Len(RemoveAt(s, k)) = Len(s) - 1
           /\ \A i \in 1 .. Len(s) - 1 :
                  RemoveAt(s, k)[i] = IF i < k THEN s[i] ELSE s[i + 1]
<1>1. k \in 1 .. Len(s) /\ Len(s) \in Nat
  BY LenProperties
<1>2. /\ SubSeq(s, 1, k - 1) \in Seq(S) /\ Len(SubSeq(s, 1, k - 1)) = k - 1
      /\ \A i \in 1 .. k - 1 : SubSeq(s, 1, k - 1)[i] = s[i]
  BY <1>1, SMT
<1>3. /\ SubSeq(s, k + 1, Len(s)) \in Seq(S) /\ Len(SubSeq(s, k + 1, Len(s))) = Len(s) - k
      /\ \A i \in 1 .. Len(s) - k : SubSeq(s, k + 1, Len(s))[i] = s[k + i]
  BY <1>1, SMT
<1> DEFINE a == SubSeq(s, 1, k - 1)
           b == SubSeq(s, k + 1, Len(s))
<1>4. RemoveAt(s, k) = a \o b
  BY DEF RemoveAt
<1>5. a \in Seq(S) /\ b \in Seq(S) /\ Len(a) = k - 1 /\ Len(b) = Len(s) - k
  BY <1>2, <1>3
<1>6. \A i \in 1 .. k - 1 : a[i] = s[i]
  BY <1>2
<1>7. \A i \in 1 .. Len(s) - k : b[i] = s[k + i]
  BY <1>3
<1> HIDE DEF a, b
<1> DEFINE c == a \o b
<1>8. /\ c \in Seq(S) /\ Len(c) = Len(a) + Len(b)
      /\ \A i \in 1 .. Len(a) + Len(b) :
             c[i] = IF i <= Len(a) THEN a[i] ELSE b[i - Len(a)]
  BY <1>5, ConcatProperties
<1> HIDE DEF c
<1>9. /\ c \in Seq(S) /\ Len(c) = Len(s) - 1
      /\ \A i \in 1 .. Len(s) - 1 :
             c[i] = IF i <= k - 1 THEN a[i] ELSE b[i - (k - 1)]
  <2>1. Len(a) + Len(b) = Len(s) - 1
    BY <1>1, <1>5
  <2>2. Len(a) = k - 1
    BY <1>5
  <2> QED
    BY <1>8, <2>1, <2>2, Zenon
<1>10. ASSUME NEW i \in 1 .. Len(s) - 1
       PROVE  c[i] = IF i < k THEN s[i] ELSE s[i + 1]
  <2>1. CASE i < k
    <3>1. i \in 1 .. k - 1 /\ i <= k - 1
      BY <1>1, <2>1
    <3>2. c[i] = a[i]
      BY <1>9, <3>1
    <3>3. a[i] = s[i]
      BY <1>6, <3>1
    <3> QED
      BY <2>1, <3>2, <3>3
  <2>2. CASE ~(i < k)
    <3>1. /\ i - (k - 1) \in 1 .. Len(s) - k /\ k + (i - (k - 1)) = i + 1
          /\ ~(i <= k - 1)
      BY <1>1, <2>2
    <3>2. b[i - (k - 1)] = s[i + 1]
      BY <1>7, <3>1
    <3>3. c[i] = b[i - (k - 1)]
      BY <1>9, <3>1
    <3> QED
      BY <2>2, <3>2, <3>3
  <2> QED
    BY <2>1, <2>2
<1>11. RemoveAt(s, k) = c
  BY <1>4 DEF c
<1> QED
  BY <1>9, <1>10, <1>11

-----------------------------------------------------------------------------
(* What the actions have in common: the step of a thread leaves the other  *)
(* threads alone, takes from its own channel only if it was ready, and     *)
(* adds to a channel only if there is room.                                *)

Asks(u) == lock' = Append(lock, [thread |-> u, writes |-> u = Consensus])

Grows(t) == Free(t) > 0 /\ \E e : chan'[t] = Append(chan[t], e)
Shrinks(t) == ready[t] /\ chan[t] # << >> /\ chan'[t] = Tail(chan[t])

Acts(u) ==
    /\ lock' = lock \/ Asks(u) \/ Release(u)
    /\ \A t \in Threads \ {u} : job'[t] = job[t] /\ out'[t] = out[t] /\ ready'[t] = ready[t]
    /\ ready'[u] => job'[u] = Idle /\ Ready(u)'
    /\ \A t \in Threads : chan'[t] = chan[t] \/ Grows(t) \/ (t = u /\ Shrinks(t))
    /\ Domains'

\* In its own handler u goes on with what it has to send, or decides what to send.
Keeps(u) == out'[u] = out[u] /\ (job'[u] = job[u] \/ job'[u].at # "sending")
Decides(u) == job'[u].at = "sending" <=> out'[u] # << >>

LEMMA LoopsActs ==
    ASSUME Domains, NEW u \in Threads, Loops(u)
    PROVE  /\ DOMAIN ready' = Threads
           /\ \A t \in Threads \ {u} : ready'[t] = ready[t]
           /\ ready'[u] => job'[u] = Idle /\ Ready(u)'
BY Zenon DEF Domains, Loops

LEMMA TakeActs ==
    ASSUME Domains, NEW u \in Threads, Take(u)
    PROVE  /\ DOMAIN chan' = Threads
           /\ \A t \in Threads : chan'[t] = chan[t] \/ (t = u /\ Shrinks(t))
BY DEF Domains, Take, Shrinks

LEMMA GotoActs ==
    ASSUME Domains, NEW u \in Threads, NEW j, Goto(u, j)
    PROVE  /\ DOMAIN job' = Threads /\ job'[u] = j
           /\ \A t \in Threads \ {u} : job'[t] = job[t]
BY DEF Domains, Goto

LEMMA KeepsActs ==
    ASSUME Domains, NEW u \in Threads, out' = out,
           job' = job \/ Goto(u, Idle)
               \/ \E at \in {"reading", "greeting", "verifying", "bundling"} : Goto(u, [at |-> at])
               \/ \E b : Goto(u, [at |-> "adding", id |-> b])
    PROVE  Keeps(u)
<1>1. ASSUME NEW at \in {"reading", "greeting", "verifying", "bundling"}, Goto(u, [at |-> at])
      PROVE  job'[u].at # "sending"
  <2>1. job'[u] = [at |-> at]
    BY <1>1, GotoActs
  <2> QED
    BY <2>1
<1>2. ASSUME NEW b, Goto(u, [at |-> "adding", id |-> b])
      PROVE  job'[u].at # "sending"
  <2>1. job'[u] = [at |-> "adding", id |-> b]
    BY <1>2, GotoActs
  <2> QED
    BY <2>1
<1>3. ASSUME Goto(u, Idle) PROVE job'[u].at # "sending"
  <2>1. job'[u] = Idle
    BY <1>3, GotoActs
  <2> QED
    BY <2>1 DEF Idle
<1> QED
  BY <1>1, <1>2, <1>3 DEF Keeps

\* What a thread that goes on to send, or returns, does to its own state.
LEMMA SendsActs ==
    ASSUME Domains, NEW u \in Threads, NEW msgs, Sends(u, msgs)
    PROVE  /\ DOMAIN job' = Threads /\ DOMAIN out' = Threads
           /\ \A t \in Threads \ {u} : job'[t] = job[t] /\ out'[t] = out[t]
           /\ out'[u] = msgs
           /\ Decides(u)
           /\ lock' = lock \/ Release(u)
<1>1. out' = [out EXCEPT ![u] = msgs]
  BY DEF Sends
<1>2. CASE msgs = << >>
  BY <1>1, <1>2, GotoActs DEF Sends, Domains, Decides, Idle
<1>3. CASE msgs # << >>
  <2>1. Goto(u, [at |-> "sending"]) /\ lock' = lock
    BY <1>3 DEF Sends
  <2> QED
    BY <1>1, <1>3, <2>1, GotoActs DEF Domains, Decides
<1> QED
  BY <1>2, <1>3

LEMMA VerificationActs ==
    ASSUME Domains, NEW r, SendToVerification(r)
    PROVE  /\ DOMAIN chan' = Threads
           /\ \A t \in Threads : chan'[t] = chan[t] \/ Grows(t)
<1>1. PICK n \in 1 .. Verifiers :
          /\ Free(Verifier((turn + n) % Verifiers)) > 0
          /\ chan' = [chan EXCEPT ![Verifier((turn + n) % Verifiers)] = Append(@, r)]
  BY DEF SendToVerification
<1> QED
  BY <1>1 DEF Domains, Grows

\* Each step of a thread is one the lemmas below are about.
LEMMA RouterActs ==
    ASSUME Domains,
           \/ RouterTakesTx \/ RouterTakesFetched \/ RouterTakesEvent \/ RouterTimer
           \/ RouterGreets \/ RouterReads \/ Tick(Router)
    PROVE  Acts(Router) /\ UNCHANGED out
<1> USE ThreadsDiffer DEF Acts, Asks, Request
<1>1. CASE RouterTakesTx
  BY <1>1, LoopsActs, VerificationActs DEF RouterTakesTx, Domains
<1>2. CASE RouterTakesFetched
  BY <1>2, LoopsActs, VerificationActs, GotoActs DEF RouterTakesFetched, RouterTakesBlock, Domains
<1>3. CASE RouterTakesEvent
  BY <1>3, LoopsActs, TakeActs, GotoActs DEF RouterTakesEvent, Domains
<1>4. CASE RouterTimer
  BY <1>4, LoopsActs, GotoActs DEF RouterTimer, Domains
<1>5. CASE RouterReads
  BY <1>5, LoopsActs, GotoActs DEF RouterReads, Domains
<1>7. CASE RouterGreets
  BY <1>7, LoopsActs, GotoActs DEF RouterGreets, Domains
<1>6. CASE Tick(Router)
  BY <1>6, LoopsActs DEF Tick, Domains
<1> QED
  BY <1>1, <1>2, <1>3, <1>4, <1>5, <1>6, <1>7

LEMMA RouterKeeps ==
    ASSUME Domains,
           \/ RouterTakesTx \/ RouterTakesFetched \/ RouterTakesEvent \/ RouterTimer
           \/ RouterGreets \/ RouterReads \/ Tick(Router)
    PROVE  Keeps(Router)
<1>1. out' = out
  BY RouterActs
<1>2. \/ job' = job \/ Goto(Router, Idle)
      \/ Goto(Router, [at |-> "reading"]) \/ Goto(Router, [at |-> "greeting"])
  BY DEF RouterTakesTx, RouterTakesFetched, RouterTakesBlock, RouterTakesEvent, RouterTimer,
         RouterGreets, RouterReads, Tick
<1> QED
  BY <1>1, <1>2, KeepsActs, ThreadsDiffer

LEMMA OneMessage ==
    ASSUME NEW m
    PROVE  <<m>> # << >> /\ Head(<<m>>) = m /\ Tail(<<m>>) = << >>
<1>1. <<m>> \in Seq({m}) /\ Len(<<m>>) = 1 /\ <<m>>[1] = m
  OBVIOUS
<1>2. <<m>> # << >>
  OBVIOUS
<1>3. Head(<<m>>) = m
  BY <1>1, <1>2, HeadTailProperties
<1>4. Tail(<<m>>) \in Seq({m}) /\ Len(Tail(<<m>>)) = 0
  BY <1>1, <1>2, HeadTailProperties
<1> QED
  BY <1>2, <1>3, <1>4, EmptySeq

LEMMA VerifierActs ==
    ASSUME Domains, NEW v \in Verifying, VerifierTakes(v) \/ VerifyTx(v)
    PROVE  /\ Acts(v)
           /\ Keeps(v) \/ Decides(v)
           /\ out'[v] # out[v] /\ out'[v] # << >> =>
                  Head(out'[v]).to = Consensus /\ Tail(out'[v]) = << >>
<1> USE ThreadsDiffer DEF Acts, Asks, Request
<1>1. CASE VerifierTakes(v)
  <2>1. Take(v) /\ Loops(v)
    BY <1>1 DEF VerifierTakes
  <2>2. CASE Goto(v, [at |-> "verifying"]) /\ Request(v, FALSE) /\ UNCHANGED out
    <3>1. Keeps(v)
      BY <2>2, KeepsActs
    <3>2. Acts(v)
      BY <2>1, <2>2, LoopsActs, TakeActs, GotoActs DEF Domains
    <3> QED
      BY <2>2, <3>1, <3>2
  <2>3. CASE Sends(v, <<[to |-> Consensus, event |-> First(v)]>>)
    <3> DEFINE m == [to |-> Consensus, event |-> First(v)]
    <3>1. out'[v] = <<m>> /\ Decides(v)
      BY <2>3, OneMessage, SendsActs
    <3>2. Acts(v)
      BY <2>1, <2>3, LoopsActs, TakeActs, SendsActs DEF Domains
    <3> QED
      BY <3>1, <3>2, OneMessage
  <2> QED
    BY <1>1, <2>2, <2>3 DEF VerifierTakes
<1>2. CASE VerifyTx(v)
  <2>1. Loops(v) /\ chan' = chan
    BY <1>2 DEF VerifyTx
  <2>2. CASE Sends(v, <<[to |-> Consensus, event |-> Tx]>>)
    <3> DEFINE m == [to |-> Consensus, event |-> Tx]
    <3>1. out'[v] = <<m>> /\ Decides(v)
      BY <2>2, OneMessage, SendsActs
    <3>2. Acts(v)
      BY <2>1, <2>2, LoopsActs, SendsActs DEF Domains
    <3> QED
      BY <3>1, <3>2, OneMessage
  <2>3. CASE Sends(v, << >>)
    BY <2>1, <2>3, LoopsActs, SendsActs DEF Domains
  <2> QED
    BY <1>2, <2>2, <2>3 DEF VerifyTx
<1> QED
  BY <1>1, <1>2

LEMMA ConsensusActs ==
    ASSUME Domains,
           Load \/ ConsensusTakes \/ AddFetched \/ ConsensusTimer \/ BundleBlock \/ Tick(Consensus)
    PROVE  /\ Acts(Consensus)
           /\ Keeps(Consensus) \/ Decides(Consensus)
<1> USE ThreadsDiffer DEF Acts, Asks, Request
<1>1. CASE Load
  BY <1>1, LoopsActs, SendsActs DEF Load, Domains
<1>2. CASE ConsensusTakes
  <2>1. out' = out
    BY <1>2 DEF ConsensusTakes
  <2>2. job' = job \/ \E b : Goto(Consensus, [at |-> "adding", id |-> b])
    BY <1>2 DEF ConsensusTakes
  <2>3. Keeps(Consensus)
    BY <2>1, <2>2, KeepsActs
  <2>4. Acts(Consensus)
    BY <1>2, LoopsActs, TakeActs, GotoActs DEF ConsensusTakes, Domains
  <2> QED
    BY <2>3, <2>4
<1>3. CASE AddFetched
  <2>1. PICK msgs : Sends(Consensus, msgs)
    BY <1>3 DEF AddFetched, AddBlocksFromMempool
  <2> QED
    BY <1>3, <2>1, LoopsActs, SendsActs DEF AddFetched, Domains
<1>4. CASE ConsensusTimer
  <2>1. Keeps(Consensus)
    BY <1>4, KeepsActs DEF ConsensusTimer
  <2>2. Acts(Consensus)
    BY <1>4, LoopsActs, GotoActs DEF ConsensusTimer, Domains
  <2> QED
    BY <2>1, <2>2
<1>5. CASE BundleBlock
  <2>1. PICK msgs : Sends(Consensus, msgs)
    BY <1>5 DEF BundleBlock, AddBlocksFromMempool
  <2> QED
    BY <1>5, <2>1, LoopsActs, SendsActs DEF BundleBlock, Domains
<1>6. CASE Tick(Consensus)
  BY <1>6, LoopsActs DEF Tick, Domains, Keeps
<1> QED
  BY <1>1, <1>2, <1>3, <1>4, <1>5, <1>6

LEMMA MinerActs ==
    ASSUME Domains, MinerTakes \/ Mine \/ Tick(Miner)
    PROVE  /\ Acts(Miner)
           /\ Keeps(Miner) \/ Decides(Miner)
<1> USE ThreadsDiffer DEF Acts, Asks, Request
<1>1. CASE MinerTakes
  BY <1>1, LoopsActs, TakeActs DEF MinerTakes, Domains, Keeps
<1>2. CASE Mine
  BY <1>2, LoopsActs, SendsActs DEF Mine, Domains
<1>3. CASE Tick(Miner)
  BY <1>3, LoopsActs DEF Tick, Domains, Keeps
<1> QED
  BY <1>1, <1>2, <1>3

\* A thread does the next thing on its list: it sends, or uses the peers.
Proceeds(u) == Send(u) \/ (u = Consensus /\ UsePeers)

LEMMA SendActs ==
    ASSUME Domains, NEW u \in Threads, Proceeds(u)
    PROVE  /\ Acts(u)
           /\ job[u].at = "sending"
           /\ IF Head(out[u]).to = Peers THEN PeersFree ELSE Free(Head(out[u]).to) > 0
           /\ out'[u] = Tail(out[u])
           /\ Decides(u)
<1> USE DEF Acts
<1>1. CASE Send(u)
  <2>1. /\ job[u].at = "sending" /\ Head(out[u]).to # Peers /\ Free(Head(out[u]).to) > 0
        /\ chan' = [chan EXCEPT ![Head(out[u]).to] = Append(@, Head(out[u]).event)]
        /\ Sends(u, Tail(out[u])) /\ Loops(u)
    BY <1>1 DEF Send
  <2>2. DOMAIN chan' = Threads /\ \A t \in Threads : chan'[t] = chan[t] \/ Grows(t)
    BY <2>1 DEF Domains, Grows
  <2> QED
    BY <2>1, <2>2, LoopsActs, SendsActs DEF Domains
<1>2. CASE u = Consensus /\ UsePeers
  <2>1. /\ job[u].at = "sending" /\ Head(out[u]).to = Peers /\ PeersFree /\ chan' = chan
        /\ Sends(u, Tail(out[u])) /\ Loops(u)
    BY <1>2 DEF UsePeers
  <2> QED
    BY <2>1, LoopsActs, SendsActs DEF Domains
<1> QED
  BY <1>1, <1>2 DEF Proceeds

\* The step of a thread that is not waiting for a slot: it is idle, or has the lock.
Works(u) ==
    /\ Acts(u)
    /\ \/ job[u] = Idle
       \/ Holds(u) /\ job[u].at \in {"reading", "greeting", "verifying", "loading", "adding", "bundling"}
    /\ Keeps(u) \/ Decides(u)
    /\ u \in Verifying /\ out'[u] # out[u] /\ out'[u] # << >> =>
           Head(out'[u]).to = Consensus /\ Tail(out'[u]) = << >>

LEMMA NextActs ==
    ASSUME Domains, ReadyIsIdle, [Next]_vars
    PROVE  \/ UNCHANGED <<chan, lock, job, out, ready>>
           \/ \E u \in Threads : Works(u) \/ Proceeds(u)
<1>1. CASE PeerMakesBlock \/ UNCHANGED vars
  BY <1>1 DEF PeerMakesBlock, vars
<1>2. CASE \/ RouterTakesTx \/ RouterTakesFetched \/ RouterTakesEvent \/ RouterTimer
           \/ RouterGreets \/ RouterReads \/ Tick(Router)
  <2>1. Acts(Router) /\ out' = out
    BY <1>2, RouterActs
  <2>2. job[Router] = Idle \/ (Holds(Router) /\ job[Router].at \in {"reading", "greeting"})
    BY <1>2, ThreadsDiffer
    DEF RouterTakesTx, RouterTakesFetched, RouterTakesBlock, RouterTakesEvent, RouterTimer,
        RouterGreets, RouterReads, Tick, Take, ReadyIsIdle
  <2> QED
    BY <1>2, <2>1, <2>2, RouterKeeps, ThreadsDiffer DEF Works
<1>3. ASSUME NEW v \in Verifying, VerifierTakes(v) \/ VerifyTx(v)
      PROVE  Works(v)
  <2>1. job[v] = Idle \/ (Holds(v) /\ job[v].at = "verifying")
    BY <1>3, ThreadsDiffer DEF VerifierTakes, VerifyTx, Take, ReadyIsIdle
  <2> QED
    BY <1>3, <2>1, VerifierActs, ThreadsDiffer DEF Works
<1>4. CASE Load \/ ConsensusTakes \/ AddFetched \/ ConsensusTimer \/ BundleBlock \/ Tick(Consensus)
  <2>1. \/ job[Consensus] = Idle
        \/ Holds(Consensus) /\ job[Consensus].at \in {"loading", "adding", "bundling"}
    BY <1>4, ThreadsDiffer
    DEF Load, ConsensusTakes, AddFetched, ConsensusTimer, BundleBlock, Tick, Take, ReadyIsIdle
  <2> QED
    BY <1>4, <2>1, ConsensusActs, ThreadsDiffer DEF Works
<1>5. CASE MinerTakes \/ Mine \/ Tick(Miner)
  <2>1. job[Miner] = Idle
    BY <1>5, ThreadsDiffer DEF MinerTakes, Mine, Tick, Take, ReadyIsIdle
  <2> QED
    BY <1>5, <2>1, MinerActs, ThreadsDiffer DEF Works
<1>6. \A t \in Threads \ Verifying : t \in {Router, Consensus, Miner}
  BY DEF Threads
<1> QED
  BY <1>1, <1>2, <1>3, <1>4, <1>5, <1>6, ThreadsDiffer DEF Next, Proceeds

-----------------------------------------------------------------------------
(* The lock. *)

\* Which of two holders has it: a writer has it alone.
LEMMA WriterAlone ==
    ASSUME Writers, NEW t \in Threads, t # Consensus, Holds(t)
    PROVE  ~Holds(Consensus)
<1>1. SUFFICES ASSUME Holds(Consensus) PROVE FALSE
  OBVIOUS
<1>2. PICK i \in DOMAIN lock : lock[i].thread = Consensus /\ lock[i].writes /\ i = 1
  BY <1>1 DEF Holds, Writers
<1>3. PICK j \in DOMAIN lock : lock[j].thread = t /\ \A n \in 1 .. j : ~lock[n].writes
  BY DEF Holds, Writers
<1>4. 1 \in 1 .. j
  BY <1>2, <1>3, LenProperties DEF Writers
<1> QED
  BY <1>2, <1>3, <1>4

\* The requests of the others keep their order.
LEMMA LockStep ==
    ASSUME Writers, NEW u \in Threads, lock' = lock \/ Asks(u) \/ Release(u)
    PROVE  /\ Writers'
           /\ \A t \in Threads \ {u} : Holds(t) => Holds(t)'
<1> DEFINE R == [thread : Threads, writes : BOOLEAN]
<1>0. lock \in Seq(R) /\ Len(lock) \in Nat /\ DOMAIN lock = 1 .. Len(lock)
  BY LenProperties DEF Writers
<1>1. CASE lock' = lock
  BY <1>1 DEF Writers, Holds
<1>2. CASE Asks(u)
  <2> DEFINE r == [thread |-> u, writes |-> u = Consensus]
  <2>1. r \in R
    OBVIOUS
  <2>2. /\ lock' \in Seq(R) /\ Len(lock') = Len(lock) + 1
        /\ \A i \in 1 .. Len(lock) : lock'[i] = lock[i]
        /\ lock'[Len(lock) + 1] = r
    BY <1>0, <1>2, <2>1, AppendProperties DEF Asks
  <2>3. DOMAIN lock' = 1 .. Len(lock) + 1
    BY <2>2, LenProperties
  <2>4. Writers'
    <3>1. ASSUME NEW i \in DOMAIN lock' PROVE lock'[i].writes <=> lock'[i].thread = Consensus
      <4>1. CASE i = Len(lock) + 1
        <5>1. lock'[i] = r
          BY <2>2, <4>1
        <5>2. r.thread = u /\ (r.writes <=> u = Consensus)
          BY Zenon
        <5> QED
          BY <5>1, <5>2, Zenon
      <4>2. CASE i \in DOMAIN lock
        BY <1>0, <2>2, <4>2 DEF Writers
      <4> QED
        BY <1>0, <2>3, <4>1, <4>2
    <3> QED
      BY <2>2, <3>1 DEF Writers
  <2>5. ASSUME NEW t \in Threads, Holds(t) PROVE Holds(t)'
    <3>1. PICK i \in DOMAIN lock : lock[i].thread = t
             /\ IF lock[i].writes THEN i = 1 ELSE \A j \in 1 .. i : ~lock[j].writes
      BY <2>5 DEF Holds
    <3>2. i \in DOMAIN lock' /\ \A j \in 1 .. i : lock'[j] = lock[j]
      BY <1>0, <2>2, <2>3
    <3>3. i \in 1 .. i
      BY <1>0
    <3> QED
      BY <3>1, <3>2, <3>3 DEF Holds
  <2> QED
    BY <2>4, <2>5
<1>3. CASE Release(u) /\ lock' # lock
  <2>1. PICK k \in DOMAIN lock : lock[k].thread = u /\ lock' = RemoveAt(lock, k)
    BY <1>3 DEF Release
  <2>2. /\ lock' \in Seq(R) /\ Len(lock') = Len(lock) - 1
        /\ \A i \in 1 .. Len(lock) - 1 : lock'[i] = IF i < k THEN lock[i] ELSE lock[i + 1]
    BY <1>0, <2>1, RemoveOne
  <2>3. DOMAIN lock' = 1 .. Len(lock) - 1
    BY <2>2, LenProperties
  <2>4. Writers'
    <3>1. ASSUME NEW i \in DOMAIN lock' PROVE lock'[i].writes <=> lock'[i].thread = Consensus
      <4>1. i \in DOMAIN lock /\ i + 1 \in DOMAIN lock /\ (lock'[i] = lock[i] \/ lock'[i] = lock[i + 1])
        BY <1>0, <2>2, <2>3
      <4> QED
        BY <4>1 DEF Writers
    <3> QED
      BY <2>2, <3>1 DEF Writers
  <2>5. ASSUME NEW t \in Threads \ {u}, Holds(t) PROVE Holds(t)'
    <3>1. PICK i \in DOMAIN lock : lock[i].thread = t
             /\ IF lock[i].writes THEN i = 1 ELSE \A j \in 1 .. i : ~lock[j].writes
      BY <2>5 DEF Holds
    <3>2. i # k
      BY <2>1, <3>1
    <3>3. CASE i < k
      <4>1. i \in DOMAIN lock' /\ \A j \in 1 .. i : lock'[j] = lock[j]
        BY <1>0, <2>1, <2>2, <2>3, <3>3
      <4>2. i \in 1 .. i
        BY <1>0
      <4> QED
        BY <3>1, <4>1, <4>2 DEF Holds
    <3>4. CASE i > k
      <4>1. i - 1 \in DOMAIN lock' /\ lock'[i - 1] = lock[i] /\ i # 1
        BY <1>0, <2>1, <2>2, <2>3, <3>4
      <4>2. ~lock[i].writes /\ \A j \in 1 .. i : ~lock[j].writes
        BY <3>1, <4>1
      <4>3. \A j \in 1 .. (i - 1) : ~lock'[j].writes
        <5>1. ASSUME NEW j \in 1 .. (i - 1) PROVE ~lock'[j].writes
          <6>1. j \in 1 .. i /\ j + 1 \in 1 .. i /\ (lock'[j] = lock[j] \/ lock'[j] = lock[j + 1])
            BY <1>0, <2>2
          <6> QED
            BY <4>2, <6>1
        <5> QED
          BY <5>1
      <4> QED
        BY <3>1, <4>1, <4>2, <4>3 DEF Holds
    <3> QED
      BY <1>0, <2>1, <3>2, <3>3, <3>4
  <2> QED
    BY <2>4, <2>5
<1> QED
  BY <1>1, <1>2, <1>3

-----------------------------------------------------------------------------
(* The invariant. *)

LEMMA InitInv == Init => Inv
<1> SUFFICES ASSUME Init PROVE Inv
  OBVIOUS
<1> USE ThreadsDiffer DEF Init
<1>1. Domains
  BY DEF Domains
<1>2. ChannelsAreLists
  <2>1. \A t \in Threads : chan[t] \in Seq({})
    OBVIOUS
  <2> QED
    BY <2>1 DEF ChannelsAreLists
<1>3. Writers
  <2> DEFINE r == [thread |-> Consensus, writes |-> TRUE]
  <2>1. lock = <<r>> /\ r \in [thread : Threads, writes : BOOLEAN]
    OBVIOUS
  <2>2. DOMAIN lock = {1} /\ lock[1] = r
    BY <2>1
  <2>3. lock \in Seq([thread : Threads, writes : BOOLEAN])
    BY <2>1
  <2> QED
    BY <2>2, <2>3 DEF Writers
<1>4. SendersSend /\ VerifiersReport
  <2>1. ASSUME NEW t \in Threads PROVE job[t].at # "sending" /\ out[t] = << >>
    BY DEF Idle
  <2> QED
    BY <2>1 DEF SendersSend, VerifiersReport
<1>5. ReadyIsIdle
  BY DEF ReadyIsIdle
<1> QED
  BY <1>1, <1>2, <1>3, <1>4, <1>5 DEF Inv

LEMMA StepInv ==
    ASSUME Inv, NEW u \in Threads, Works(u) \/ Proceeds(u)
    PROVE  Inv'
<1> USE DEF Inv
<1>1. Acts(u)
  BY SendActs DEF Works
<1>2. Domains'
  BY <1>1 DEF Acts
<1>3. ChannelsAreLists'
  <2>1. ASSUME NEW t \in Threads PROVE \E S : chan'[t] \in Seq(S)
    <3>1. PICK S : chan[t] \in Seq(S)
      BY DEF ChannelsAreLists
    <3>2. CASE chan'[t] = chan[t]
      BY <3>1, <3>2
    <3>3. CASE Grows(t)
      <4>1. PICK e : chan'[t] = Append(chan[t], e)
        BY <3>3 DEF Grows
      <4>2. Append(chan[t], e) \in Seq(S \cup {e})
        BY <3>1, AppendList
      <4> QED
        BY <4>1, <4>2, Zenon
    <3>4. CASE Shrinks(t)
      BY <3>1, <3>4, TailList DEF Shrinks
    <3> QED
      BY <1>1, <3>2, <3>3, <3>4 DEF Acts
  <2> QED
    BY <2>1 DEF ChannelsAreLists
<1>4. Writers'
  BY <1>1, LockStep DEF Acts
<1>5. SendersSend'
  <2>1. ASSUME NEW t \in Threads PROVE job'[t].at = "sending" <=> out'[t] # << >>
    <3>1. CASE t # u
      BY <1>1, <3>1 DEF Acts, SendersSend
    <3>2. CASE t = u /\ Decides(u)
      BY <3>2 DEF Decides
    <3>3. CASE t = u /\ Works(u) /\ Keeps(u)
      <4>1. job[u].at # "sending"
        BY <3>3 DEF Works, Idle
      <4>2. out[u] = << >>
        BY <4>1 DEF SendersSend
      <4> QED
        BY <3>3, <4>1, <4>2 DEF Keeps
    <3> QED
      BY <3>1, <3>2, <3>3, SendActs DEF Works
  <2> QED
    BY <2>1 DEF SendersSend
<1>6. VerifiersReport'
  <2>1. ASSUME NEW v \in Verifying, out'[v] # << >>
        PROVE  Head(out'[v]).to = Consensus /\ Tail(out'[v]) = << >>
    <3>1. CASE out'[v] = out[v]
      BY <2>1, <3>1 DEF VerifiersReport
    <3>2. CASE v = u /\ Works(u) /\ out'[v] # out[v]
      BY <2>1, <3>2 DEF Works
    <3>3. CASE v = u /\ Proceeds(u)
      <4>1. out'[v] = Tail(out[v])
        BY <3>3, SendActs
      <4>2. out[v] # << >>
        BY <3>3, SendActs DEF SendersSend
      <4> QED
        BY <2>1, <4>1, <4>2 DEF VerifiersReport
    <3> QED
      BY <1>1, <3>1, <3>2, <3>3, ThreadsDiffer DEF Acts
  <2> QED
    BY <2>1 DEF VerifiersReport
<1>7. ReadyIsIdle'
  <2>1. ASSUME NEW t \in Threads, ready'[t] PROVE job'[t] = Idle
    <3>1. CASE t = u
      BY <1>1, <2>1, <3>1 DEF Acts
    <3>2. CASE t # u
      BY <1>1, <2>1, <3>2 DEF Acts, ReadyIsIdle
    <3> QED
      BY <3>1, <3>2
  <2> QED
    BY <2>1 DEF ReadyIsIdle
<1> QED
  BY <1>2, <1>3, <1>4, <1>5, <1>6, <1>7

-----------------------------------------------------------------------------
(* The circular waits. *)

\* A full channel stays full, and room does not come back, but by its receiver.
LEMMA FreeStep ==
    ASSUME Inv, NEW u \in Threads, Acts(u), NEW t \in Threads, ~(t = u /\ ready[u])
    PROVE  /\ Free(t) \in Int /\ Free(t)' \in Int
           /\ Free(t)' <= Free(t)
           /\ Free(t) = 0 => Free(t)' = 0
<1>1. Size(t) \in Nat
  BY PipelineAssumption DEF Size
<1>2. PICK S : chan[t] \in Seq(S)
  BY DEF Inv, ChannelsAreLists
<1>3. Len(chan[t]) \in Nat
  BY <1>2, LenProperties
<1>4. CASE chan'[t] = chan[t]
  BY <1>1, <1>3, <1>4 DEF Free, Size
<1>5. CASE Grows(t)
  <2>1. PICK e : Size(t) - Len(chan[t]) > 0 /\ chan'[t] = Append(chan[t], e)
    BY <1>5 DEF Grows, Free
  <2>2. Len(chan'[t]) = Len(chan[t]) + 1
    BY <1>2, <2>1, AppendList
  <2> QED
    BY <1>1, <1>3, <2>1, <2>2 DEF Free, Size
<1> QED
  BY <1>4, <1>5 DEF Acts, Shrinks

LEMMA VerifierStuckStays ==
    ASSUME Inv, NEW u \in Threads, Works(u) \/ Proceeds(u), VerifierStuck
    PROVE  VerifierStuck'
<1> USE DEF Inv
<1>1. Acts(u)
  BY SendActs DEF Works
<1>2. PICK v \in Verifying : Holds(v) /\ out[v] # << >>
  BY DEF VerifierStuck
<1>3. ~Holds(Consensus)
  BY <1>2, WriterAlone, ThreadsDiffer
<1>4. u # v
  <2>1. SUFFICES ASSUME u = v PROVE FALSE
    OBVIOUS
  <2>2. job[v].at = "sending" /\ Head(out[v]).to = Consensus
    BY <1>2, ThreadsDiffer DEF SendersSend, VerifiersReport
  <2>3. ~Works(v)
    BY <2>2 DEF Works, Idle
  <2>4. Free(Consensus) > 0
    BY <2>1, <2>2, <2>3, SendActs, ThreadsDiffer
  <2> QED
    BY <2>4 DEF VerifierStuck
<1>5. u # Consensus
  <2>1. SUFFICES ASSUME u = Consensus PROVE FALSE
    OBVIOUS
  <2>2. job[Consensus].at \in {"adding", "bundling"}
    BY DEF VerifierStuck
  <2>3. ~Proceeds(Consensus)
    BY <2>2 DEF Proceeds, Send, UsePeers
  <2> QED
    BY <1>3, <2>1, <2>2, <2>3 DEF Works, Idle
<1>6. Holds(v)' /\ out'[v] # << >>
  BY <1>1, <1>2, <1>4, LockStep, ThreadsDiffer DEF Acts
<1>7. job'[Consensus].at \in {"adding", "bundling"}
  BY <1>1, <1>5, ThreadsDiffer DEF Acts, VerifierStuck
<1>8. Free(Consensus)' = 0
  BY <1>1, <1>5, FreeStep, ThreadsDiffer DEF VerifierStuck
<1> QED
  BY <1>6, <1>7, <1>8 DEF VerifierStuck

LEMMA RouterStuckStays ==
    ASSUME Inv, NEW u \in Threads, Works(u) \/ Proceeds(u), RouterStuck
    PROVE  RouterStuck'
<1> USE DEF Inv
<1>1. Acts(u)
  BY SendActs DEF Works
<1>2. ~Holds(Router)
  BY WriterAlone, ThreadsDiffer DEF RouterStuck
<1>3. u # Consensus
  <2>1. SUFFICES ASSUME u = Consensus PROVE FALSE
    OBVIOUS
  <2>2. job[Consensus].at = "sending"
    BY ThreadsDiffer DEF RouterStuck, SendersSend
  <2>3. ~Works(Consensus)
    BY <2>2 DEF Works, Idle
  <2>4. Free(Router) > 0
    BY <2>1, <2>3, SendActs, ThreadsDiffer DEF RouterStuck
  <2> QED
    BY <2>4 DEF RouterStuck
<1>4. u # Router
  <2>1. SUFFICES ASSUME u = Router PROVE FALSE
    OBVIOUS
  <2>2. job[Router].at \in {"reading", "greeting"}
    BY DEF RouterStuck
  <2>3. ~Proceeds(Router)
    BY <2>2, ThreadsDiffer DEF Proceeds, Send
  <2> QED
    BY <1>2, <2>1, <2>2, <2>3 DEF Works, Idle
<1>5. Holds(Consensus)' /\ out'[Consensus] = out[Consensus]
  BY <1>1, <1>3, LockStep, ThreadsDiffer DEF Acts, RouterStuck
<1>6. job'[Router].at \in {"reading", "greeting"}
  BY <1>1, <1>4, ThreadsDiffer DEF Acts, RouterStuck
<1>7. Free(Router)' = 0
  BY <1>1, <1>4, FreeStep, ThreadsDiffer DEF RouterStuck
<1> QED
  BY <1>5, <1>6, <1>7 DEF RouterStuck

LEMMA PeersStuckStays ==
    ASSUME Inv, NEW u \in Threads, Works(u) \/ Proceeds(u), PeersStuck
    PROVE  PeersStuck'
<1> USE DEF Inv
<1>1. Acts(u)
  BY SendActs DEF Works
<1>2. ~Holds(Router)
  BY WriterAlone, ThreadsDiffer DEF PeersStuck
<1>3. u # Consensus
  <2>1. SUFFICES ASSUME u = Consensus PROVE FALSE
    OBVIOUS
  <2>2. job[Consensus].at = "sending"
    BY ThreadsDiffer DEF PeersStuck, SendersSend
  <2>3. ~Works(Consensus)
    BY <2>2 DEF Works, Idle
  <2>4. PeersFree
    BY <2>1, <2>3, SendActs DEF PeersStuck
  <2> QED
    BY <2>4 DEF PeersStuck, PeersFree
<1>4. u # Router
  <2>1. SUFFICES ASSUME u = Router PROVE FALSE
    OBVIOUS
  <2>2. job[Router].at = "greeting"
    BY DEF PeersStuck
  <2>3. ~Proceeds(Router)
    BY <2>2, ThreadsDiffer DEF Proceeds, Send
  <2> QED
    BY <1>2, <2>1, <2>2, <2>3 DEF Works, Idle
<1>5. Holds(Consensus)' /\ out'[Consensus] = out[Consensus]
  BY <1>1, <1>3, LockStep, ThreadsDiffer DEF Acts, PeersStuck
<1>6. job'[Router].at = "greeting"
  BY <1>1, <1>4, ThreadsDiffer DEF Acts, PeersStuck
<1> QED
  BY <1>5, <1>6 DEF PeersStuck

LEMMA BothUnreadyStays ==
    ASSUME Inv, NEW u \in Threads, Acts(u), BothUnready
    PROVE  BothUnready'
<1>1. PICK t \in {Router, Miner} : Free(t) <= SafeBuffer /\ ~ready[t]
  BY DEF BothUnready
<1>2. t \in Threads /\ t # Consensus
  BY ThreadsDiffer
<1>3. SafeBuffer \in Nat
  BY PipelineAssumption
<1>4. Free(t)' \in Int /\ Free(t)' <= SafeBuffer
  BY <1>1, <1>2, <1>3, FreeStep
<1>5. Free(Consensus)' \in Int /\ Free(Consensus)' <= SafeBuffer
  BY <1>3, FreeStep, ThreadsDiffer DEF BothUnready
<1>6. ~ready'[t]
  <2>1. CASE u # t
    BY <1>1, <1>2, <2>1 DEF Acts
  <2>2. CASE u = t
    <3>1. Ready(t)' => Free(Consensus)' > SafeBuffer
      BY <1>1, ThreadsDiffer DEF Ready
    <3> QED
      BY <1>3, <1>5, <2>2, <3>1 DEF Acts
  <2> QED
    BY <2>1, <2>2
<1>7. ~ready'[Consensus]
  <2>1. CASE u # Consensus
    BY <2>1, ThreadsDiffer DEF Acts, BothUnready
  <2>2. CASE u = Consensus
    <3>1. Ready(Consensus)' => Free(t)' > SafeBuffer
      BY <1>1, ThreadsDiffer DEF Ready
    <3> QED
      BY <1>3, <1>4, <2>2, <3>1 DEF Acts
  <2> QED
    BY <2>1, <2>2
<1> QED
  BY <1>4, <1>5, <1>6, <1>7 DEF BothUnready

-----------------------------------------------------------------------------
\* A verification thread or the consensus thread that waits for a slot with the
\* lock, a thread that is ready only when idle: what the threads agree on.
THEOREM PipelineInvariant == Spec => []Inv
<1>1. Inv /\ [Next]_vars => Inv'
  <2>1. SUFFICES ASSUME Inv, [Next]_vars PROVE Inv'
    OBVIOUS
  <2>2. CASE UNCHANGED <<chan, lock, job, out, ready>>
    BY <2>1, <2>2
    DEF Inv, Domains, ChannelsAreLists, Writers, SendersSend, VerifiersReport, ReadyIsIdle
  <2>3. CASE \E u \in Threads : Works(u) \/ Proceeds(u)
    BY <2>1, <2>3, StepInv
  <2> QED
    BY <2>1, <2>2, <2>3, NextActs DEF Inv
<1> QED
  BY <1>1, InitInv, PTL DEF Spec

\* A circular wait never ends, however many threads there are and however large the
\* channels: the verification thread that waits for a slot of the consensus thread
\* while it reads the chain, the consensus thread that waits for a slot of the
\* router while it writes it, or for the peers a handshake has locked, and two
\* threads without room for each other.
THEOREM WaitsNeverEnd == Spec => StuckForever
<1>1. Inv /\ [Next]_vars => (Stuck => Stuck')
  <2>1. SUFFICES ASSUME Inv, [Next]_vars, Stuck PROVE Stuck'
    OBVIOUS
  <2>2. CASE UNCHANGED <<chan, lock, job, out, ready>>
    BY <2>1, <2>2 DEF Stuck, VerifierStuck, RouterStuck, PeersStuck, BothUnready, Free, Size, Holds
  <2>3. ASSUME NEW u \in Threads, Works(u) \/ Proceeds(u) PROVE Stuck'
    <3>1. Acts(u)
      BY <2>1, <2>3, SendActs DEF Works, Inv
    <3> QED
      BY <2>1, <2>3, <3>1, VerifierStuckStays, RouterStuckStays, PeersStuckStays, BothUnreadyStays
      DEF Stuck
  <2> QED
    BY <2>1, <2>2, <2>3, NextActs DEF Inv
<1> QED
  BY <1>1, PipelineInvariant, PTL DEF Spec, StuckForever

-----------------------------------------------------------------------------
(* The batch: what add_blocks_from_mempool sends.                          *)

Elements(s) == {s[i] : i \in DOMAIN s}

\* Those of the first n parts of s.
PartsOf(s, n) == UNION {Elements(s[b]) : b \in 1 .. n}

\* The elements of two lists put together.
LEMMA ElementsOfConcat ==
    ASSUME NEW X, NEW s \in Seq(X), NEW t \in Seq(X)
    PROVE  s \o t \in Seq(X) /\ Elements(s \o t) = Elements(s) \cup Elements(t)
<1>1. /\ s \o t \in Seq(X) /\ Len(s \o t) = Len(s) + Len(t)
      /\ \A i \in 1 .. Len(s) + Len(t) :
             (s \o t)[i] = IF i <= Len(s) THEN s[i] ELSE t[i - Len(s)]
  BY ConcatProperties
<1>2. /\ DOMAIN s = 1 .. Len(s) /\ DOMAIN t = 1 .. Len(t) /\ Len(s) \in Nat /\ Len(t) \in Nat
      /\ DOMAIN (s \o t) = 1 .. Len(s) + Len(t)
  BY <1>1, LenProperties
<1> DEFINE c == s \o t
<1>3. /\ DOMAIN c = 1 .. Len(s) + Len(t)
      /\ \A i \in 1 .. Len(s) + Len(t) : c[i] = IF i <= Len(s) THEN s[i] ELSE t[i - Len(s)]
  BY <1>1, <1>2
<1> HIDE DEF c
<1>4. ASSUME NEW i \in DOMAIN c PROVE c[i] \in Elements(s) \cup Elements(t)
  <2>1. CASE i <= Len(s)
    BY <1>2, <1>3, <2>1 DEF Elements
  <2>2. CASE ~(i <= Len(s))
    <3>1. i - Len(s) \in DOMAIN t
      BY <1>2, <1>3, <2>2
    <3> QED BY <1>3, <2>2, <3>1 DEF Elements
  <2> QED BY <2>1, <2>2
<1>5. ASSUME NEW i \in DOMAIN s PROVE s[i] \in Elements(c)
  <2>1. i \in DOMAIN c /\ c[i] = s[i]
    BY <1>2, <1>3
  <2> QED BY <2>1 DEF Elements
<1>6. ASSUME NEW i \in DOMAIN t PROVE t[i] \in Elements(c)
  <2>1. i + Len(s) \in DOMAIN c /\ ~(i + Len(s) <= Len(s)) /\ i + Len(s) - Len(s) = i
    BY <1>2, <1>3
  <2>2. c[i + Len(s)] = t[i]
    BY <1>3, <2>1
  <2> QED BY <2>1, <2>2 DEF Elements
<1>7. Elements(c) = Elements(s) \cup Elements(t)
  BY <1>4, <1>5, <1>6 DEF Elements
<1> QED BY <1>1, <1>7 DEF c

\* Flattening keeps the elements of every part.
LEMMA FlattenFacts ==
    ASSUME NEW X, NEW n \in Nat, NEW s \in [1 .. n -> Seq(X)]
    PROVE  /\ FlattenSeq(s) \in Seq(X)
           /\ Elements(FlattenSeq(s)) = PartsOf(s, n)
<1>1. s \in Seq(Seq(X)) /\ Len(s) = n /\ DOMAIN s = 1 .. n
  OBVIOUS
<1>2. CASE n = 0
  <2>1. 1 .. n = {} /\ s = << >>
    BY <1>1, <1>2, EmptySeq
  <2>2. FlattenSeq(s) = s
    BY <1>1, <1>2 DEF FlattenSeq
  <2>3. Elements(s) = {} /\ PartsOf(s, n) = {}
    BY <1>1, <2>1 DEF Elements, PartsOf
  <2>4. << >> \in Seq(X)
    OBVIOUS
  <2> QED BY <2>1, <2>2, <2>3, <2>4
<1>3. CASE n # 0
  <2> DEFINE flatten == CHOOSE g : g = [i \in 1 .. n |->
                            IF i = 1 THEN s[i] ELSE g[i - 1] \o s[i]]
             prev == [i \in 1 .. n |-> i - 1]
             rank == [i \in 1 .. n |-> i]
             step == [e \in Seq(X) \X (1 .. n) |-> e[1] \o s[e[2]]]
  <2>0. 1 \in 1 .. n /\ n \in 1 .. n
    BY <1>3
  <2>1. FlattenSeq(s) = flatten[n]
    BY <1>1, <1>3, Zenon DEF FlattenSeq
  <2>2. PICK f \in [1 .. n -> Seq(X)] : Recursive(f, 1 .. n, {1}, prev, s[1], step)
    <3>1. rank \in [1 .. n -> 0 .. n]
      OBVIOUS
    <3>2. Descends(1 .. n, {1}, prev, rank)
      BY DEF Descends
    <3>3. step \in [Seq(X) \X (1 .. n) -> Seq(X)]
      <4>1. ASSUME NEW p \in Seq(X), NEW i \in 1 .. n PROVE p \o s[i] \in Seq(X)
        BY ConcatProperties
      <4> QED BY <4>1
    <3>4. s[1] \in Seq(X)
      BY <2>0
    <3> HIDE DEF rank, prev, step
    <3> QED BY <3>1, <3>2, <3>3, <3>4, RecursionExists
  <2>3. ASSUME NEW i \in 1 .. n PROVE f[i] = IF i = 1 THEN s[i] ELSE f[i - 1] \o s[i]
    <3>1. CASE i = 1
      BY <2>2, <3>1 DEF Recursive
    <3>2. CASE i # 1
      <4>1. prev[i] = i - 1 /\ i - 1 \in 1 .. n
        BY <3>2
      <4>2. f[i] = step[<<f[prev[i]], i>>]
        <5> HIDE DEF prev, step
        <5> QED BY <2>2, <3>2 DEF Recursive
      <4>3. f[i - 1] \in Seq(X)
        BY <4>1
      <4> QED BY <3>2, <4>1, <4>2, <4>3
    <3> QED BY <3>1, <3>2
  <2>4. f = [i \in 1 .. n |-> IF i = 1 THEN s[i] ELSE f[i - 1] \o s[i]]
    BY <2>3
  <2>5. flatten = [i \in 1 .. n |-> IF i = 1 THEN s[i] ELSE flatten[i - 1] \o s[i]]
    BY <2>4, Zenon
  <2> HIDE DEF flatten
  <2>8. ASSUME NEW j \in 1 .. n
        PROVE  flatten[j] = IF j = 1 THEN s[j] ELSE flatten[j - 1] \o s[j]
    BY <2>5
  <2> DEFINE T == {i \in 0 .. n : i # 0 => /\ flatten[i] \in Seq(X)
                                           /\ Elements(flatten[i]) = PartsOf(s, i)}
  <2>6. ASSUME NEW i \in T, i < n PROVE i + 1 \in T
    <3>0. i \in 0 .. n /\ i + 1 \in 1 .. n /\ i + 1 \in 0 .. n
      BY <2>6
    <3>1. flatten[i + 1] = IF i = 0 THEN s[i + 1] ELSE flatten[i] \o s[i + 1]
      <4>1. flatten[i + 1] = IF i + 1 = 1 THEN s[i + 1] ELSE flatten[i + 1 - 1] \o s[i + 1]
        BY <2>8, <3>0
      <4>2. (i + 1 = 1 <=> i = 0) /\ i + 1 - 1 = i
        BY <3>0
      <4> QED BY <4>1, <4>2
    <3>2. s[i + 1] \in Seq(X)
      BY <3>0
    <3>3. PartsOf(s, i + 1) = PartsOf(s, i) \cup Elements(s[i + 1])
      <4>1. 1 .. i + 1 = (1 .. i) \cup {i + 1}
        BY <3>0
      <4> QED BY <4>1 DEF PartsOf
    <3>4. CASE i = 0
      <4>1. flatten[i + 1] = s[i + 1] /\ PartsOf(s, i) = {}
        BY <3>1, <3>4 DEF PartsOf
      <4> QED BY <3>0, <3>2, <3>3, <4>1
    <3>5. CASE i # 0
      <4>1. flatten[i] \in Seq(X) /\ Elements(flatten[i]) = PartsOf(s, i)
        BY <3>5
      <4>2. flatten[i + 1] = flatten[i] \o s[i + 1]
        BY <3>1, <3>5
      <4>3. /\ flatten[i] \o s[i + 1] \in Seq(X)
            /\ Elements(flatten[i] \o s[i + 1]) = Elements(flatten[i]) \cup Elements(s[i + 1])
        BY <3>2, <4>1, ElementsOfConcat
      <4>4. flatten[i + 1] \in Seq(X) /\ Elements(flatten[i + 1]) = PartsOf(s, i + 1)
        BY <3>3, <4>1, <4>2, <4>3, Zenon
      <4> QED BY <3>0, <4>4
    <3> QED BY <3>4, <3>5
  <2>7. n \in T
    <3>1. 0 \in T /\ T \subseteq 0 .. n
      OBVIOUS
    <3> HIDE DEF T
    <3>2. T = 0 .. n
      BY <2>6, <3>1, RangeInduction
    <3> QED BY <3>2
  <2> QED BY <1>3, <2>1, <2>7
<1> QED BY <1>2, <1>3

\* The blocks that join are the next ones.
LEMMA JoinsFacts ==
    ASSUME NEW S, S \subseteq 1 .. MaxBlock, NEW t \in Nat
    PROVE  /\ NewTip(S, t) \in Nat /\ NewTip(S, t) >= t
           /\ Joins(S, t) = (t + 1) .. NewTip(S, t)
<1> DEFINE J == Joins(S, t)
<1>0. MaxBlock \in Nat
  BY PipelineAssumption
<1>1. J \subseteq 1 .. MaxBlock /\ \A b \in J : b > t
  BY DEF Joins
<1>2. CASE J = {}
  <2>1. Cardinality(J) = 0
    BY <1>2, FS_EmptySet
  <2>2. NewTip(S, t) = t
    BY <2>1 DEF NewTip
  <2> QED BY <1>2, <2>2
<1>3. CASE J # {}
  <2>1. PICK k \in J : \A b \in J : b <= k
    BY <1>0, <1>1, <1>3, MaxExists
  <2>2. k \in Nat /\ k > t /\ (t + 1) .. k \subseteq S \ Refused
    BY <1>0, <1>1, <2>1 DEF Joins
  <2>3. J = (t + 1) .. k
    <3>1. ASSUME NEW b \in (t + 1) .. k PROVE b \in J
      <4>1. b \in S /\ b > t /\ (t + 1) .. b \subseteq (t + 1) .. k
        BY <2>2
      <4> QED BY <2>2, <4>1 DEF Joins
    <3>2. ASSUME NEW b \in J PROVE b \in (t + 1) .. k
      BY <1>0, <1>1, <2>1, <2>2
    <3> QED BY <3>1, <3>2
  <2>4. Cardinality(J) = k - t
    BY <2>2, <2>3, FS_Interval
  <2>5. NewTip(S, t) = k
    BY <2>2, <2>4 DEF NewTip
  <2> QED BY <2>2, <2>3, <2>5
<1> QED BY <1>2, <1>3

-----------------------------------------------------------------------------
(* What is in the channels.                                                *)

VerifierMail == {Tx} \cup {Block(b) : b \in 1 .. MaxBlock}
ConsensusMail == VerifierMail \cup {Ticket(b) : b \in Nat}
RouterMail == UNION {{Updated(b), FetchOf(b), ChainOf(b)} : b \in 1 .. MaxBlock}
MinerMail == {Told(b) : b \in Nat}

\* What the consensus thread does with the peers.
PeersMail == {Tx} \cup UNION {{Joined(b), Refuse(b)} : b \in 1 .. MaxBlock}

\* What the consensus thread sends, and what it is sent.
Orders == [to : {Miner}, event : MinerMail] \cup [to : {Router}, event : RouterMail]
            \cup [to : {Peers}, event : PeersMail]
Reports == [to : {Consensus}, event : ConsensusMail]

LEMMA ElementsOfOne ==
    ASSUME NEW X, NEW m \in X
    PROVE  <<m>> \in Seq(X) /\ Elements(<<m>>) = {m}
<1>1. <<m>> \in Seq(X) /\ Len(<<m>>) = 1 /\ <<m>>[1] = m /\ DOMAIN <<m>> = {1}
  OBVIOUS
<1> QED BY <1>1, Zenon DEF Elements

LEMMA ElementsOfNone ==
    ASSUME NEW X
    PROVE  << >> \in Seq(X) /\ Elements(<< >>) = {}
BY DEF Elements

\* What is sent for one block of a batch.
LEMMA EventsFacts ==
    ASSUME NEW S, S \subseteq 1 .. MaxBlock, NEW t \in Nat, NEW b \in S
    PROVE  /\ EventsOf(S, t, b) \in Seq(Orders)
           /\ \A e \in Elements(EventsOf(S, t, b)) :
                  e.to = Miner => e.event = Told(NewTip(S, t))
           /\ b \in Joins(S, t) /\ TellsMiner(S, b) =>
                  \E e \in Elements(EventsOf(S, t, b)) : e.to = Miner
<1> DEFINE note(to, e) == [to |-> to, event |-> e]
<1>00. MaxBlock \in Nat
  BY PipelineAssumption
<1>01. /\ NewTip(S, t) \in Nat /\ NewTip(S, t) >= t
       /\ Joins(S, t) = (t + 1) .. NewTip(S, t)
  BY JoinsFacts, Zenon
<1>02. b \in 1 .. MaxBlock /\ b \in Nat
  BY <1>00
<1>0. /\ MaxBlock \in Nat /\ b \in 1 .. MaxBlock /\ b \in Nat
      /\ NewTip(S, t) \in Nat /\ NewTip(S, t) >= t
      /\ Joins(S, t) = (t + 1) .. NewTip(S, t)
  BY <1>00, <1>01, <1>02, Zenon
<1>1. CASE b \in Joins(S, t)
  <2> DEFINE p == note(Peers, Joined(b))
             q == note(Router, Updated(b))
             w == <<p, q>>
  <2>1. p \in Orders /\ p.to # Miner /\ q \in Orders /\ q.to # Miner
    BY <1>0, ThreadsDiffer DEF Orders, PeersMail, RouterMail
  <2>4. EventsOf(S, t, b) = (IF TellsMiner(S, b) THEN <<note(Miner, Told(b))>> ELSE << >>) \o w
    <3>1. b \notin Waits(S, t) /\ b \notin Invalid(S, t)
      BY <1>0, <1>1 DEF Waits, Invalid
    <3> QED BY <1>1, <3>1, Zenon DEF EventsOf
  <2> HIDE DEF note, p, q
  <2>5. w \in Seq(Orders) /\ \A e \in Elements(w) : e.to # Miner
    <3>1. w \in Seq(Orders) /\ DOMAIN w = 1 .. 2 /\ w[1] = p /\ w[2] = q
      BY <2>1
    <3>2. \A i \in DOMAIN w : w[i] = p \/ w[i] = q
      BY <3>1
    <3> HIDE DEF w
    <3> QED BY <2>1, <3>1, <3>2 DEF Elements
  <2> HIDE DEF w
  <2>2. CASE TellsMiner(S, b)
    <3>1. b = NewTip(S, t)
      <4>1. NewTip(S, t) \in Joins(S, t) /\ b <= NewTip(S, t)
        BY <1>0, <1>1
      <4>2. NewTip(S, t) \in S
        BY <4>1 DEF Joins
      <4> QED BY <1>0, <2>2, <4>1, <4>2 DEF TellsMiner
    <3> DEFINE m == note(Miner, Told(b))
               x == <<m>>
    <3>2. m \in Orders /\ m.to = Miner /\ m.event = Told(b)
      BY <1>0 DEF Orders, MinerMail, note
    <3> HIDE DEF m
    <3>3. x \in Seq(Orders) /\ Elements(x) = {m}
      BY <3>2, ElementsOfOne, Zenon
    <3>4. EventsOf(S, t, b) = x \o w
      BY <2>2, <2>4, Zenon DEF m
    <3> HIDE DEF x
    <3>5. x \o w \in Seq(Orders) /\ Elements(x \o w) = Elements(x) \cup Elements(w)
      BY <2>5, <3>3, ElementsOfConcat, Zenon
    <3> QED BY <2>5, <3>1, <3>2, <3>3, <3>4, <3>5
  <2>3. CASE ~TellsMiner(S, b)
    <3> DEFINE x == << >>
    <3>1. EventsOf(S, t, b) = x \o w
      BY <2>3, <2>4, Zenon
    <3>2. x \in Seq(Orders) /\ Elements(x) = {}
      BY ElementsOfNone
    <3> HIDE DEF x
    <3>3. x \o w \in Seq(Orders) /\ Elements(x \o w) = Elements(x) \cup Elements(w)
      <4>1. x \in Seq(Orders) /\ w \in Seq(Orders)
        BY <2>5, <3>2
      <4> QED BY <4>1, ElementsOfConcat
    <3> QED BY <2>3, <2>5, <3>1, <3>2, <3>3
  <2> QED BY <2>2, <2>3
<1>2. CASE b \notin Joins(S, t) /\ b \in Waits(S, t) /\ b - 1 \notin Waits(S, t)
  <2>1. b > t /\ b # NewTip(S, t) + 1
    BY <1>0, <1>2 DEF Waits, Invalid
  <2>2. b - 1 \in 1 .. MaxBlock
    BY <1>0, <1>2, <2>1
  <2>3. /\ note(Router, FetchOf(b - 1)) \in Orders /\ note(Router, ChainOf(b - 1)) \in Orders
        /\ note(Router, FetchOf(b - 1)).to # Miner /\ note(Router, ChainOf(b - 1)).to # Miner
    BY <2>2, ThreadsDiffer DEF Orders, RouterMail
  <2>4. \/ EventsOf(S, t, b) = <<note(Router, FetchOf(b - 1))>>
        \/ EventsOf(S, t, b) = <<note(Router, ChainOf(b - 1))>>
    BY <1>2 DEF EventsOf, Waits
  <2> HIDE DEF note
  <2>5. PICK e \in Orders : e.to # Miner /\ EventsOf(S, t, b) = <<e>>
    BY <2>3, <2>4
  <2>6. EventsOf(S, t, b) \in Seq(Orders) /\ Elements(EventsOf(S, t, b)) = {e}
    BY <2>5, ElementsOfOne, Zenon
  <2> QED BY <1>2, <2>5, <2>6
<1>3. CASE b \notin Joins(S, t) /\ ~(b \in Waits(S, t) /\ b - 1 \notin Waits(S, t))
  <2>1. CASE b \in Invalid(S, t)
    <3> DEFINE p == note(Peers, Refuse(b))
    <3>1. p \in Orders /\ p.to # Miner
      BY <1>0, ThreadsDiffer DEF Orders, PeersMail
    <3>2. EventsOf(S, t, b) = <<p>>
      <4>1. b \notin Waits(S, t)
        BY <2>1 DEF Waits
      <4> QED BY <1>3, <2>1, <4>1, Zenon DEF EventsOf
    <3> HIDE DEF p
    <3>3. EventsOf(S, t, b) \in Seq(Orders) /\ Elements(EventsOf(S, t, b)) = {p}
      BY <3>1, <3>2, ElementsOfOne, Zenon
    <3> QED BY <1>3, <3>1, <3>3
  <2>2. CASE b \notin Invalid(S, t)
    <3>1. EventsOf(S, t, b) = << >>
      BY <1>3, <2>2 DEF EventsOf
    <3> QED BY <1>3, <3>1, ElementsOfNone
  <2> QED BY <2>1, <2>2
<1> QED BY <1>1, <1>2, <1>3

\* What is sent for a batch that has a block above the tip: the miner is told of
\* the new tip, or a block above it waits or is invalid.
LEMMA BatchFacts ==
    ASSUME NEW S, S \subseteq 1 .. MaxBlock, NEW t \in Nat, \E b \in S : b > t
    PROVE  /\ BatchEvents(S, t) \in Seq(Orders)
           /\ \A e \in Elements(BatchEvents(S, t)) :
                  e.to = Miner => e.event = Told(NewTip(S, t))
           /\ \/ \E e \in Elements(BatchEvents(S, t)) : e.to = Miner
              \/ \E b \in Waits(S, t) \cup Invalid(S, t) : b > NewTip(S, t)
<1>0. /\ MaxBlock \in Nat
      /\ NewTip(S, t) \in Nat /\ NewTip(S, t) >= t
      /\ Joins(S, t) = (t + 1) .. NewTip(S, t)
  BY PipelineAssumption, JoinsFacts
<1> DEFINE parts == [b \in 1 .. MaxBlock |-> IF b \in S THEN EventsOf(S, t, b) ELSE << >>]
<1>1. parts \in [1 .. MaxBlock -> Seq(Orders)]
  BY EventsFacts, ElementsOfNone
<1>2. BatchEvents(S, t) = FlattenSeq(parts)
  BY DEF BatchEvents
<1>3. ASSUME NEW b \in 1 .. MaxBlock
      PROVE  Elements(parts[b]) = IF b \in S THEN Elements(EventsOf(S, t, b)) ELSE {}
  BY ElementsOfNone
<1> HIDE DEF parts
<1>4. /\ BatchEvents(S, t) \in Seq(Orders)
      /\ Elements(BatchEvents(S, t)) = UNION {Elements(parts[b]) : b \in 1 .. MaxBlock}
  <2>1. /\ FlattenSeq(parts) \in Seq(Orders)
        /\ Elements(FlattenSeq(parts)) = PartsOf(parts, MaxBlock)
    <3>1. MaxBlock \in Nat
      BY <1>0
    <3> QED BY <1>1, <3>1, FlattenFacts, Zenon
  <2> QED BY <1>2, <2>1, Zenon DEF PartsOf
<1>5. ASSUME NEW e \in Elements(BatchEvents(S, t)), e.to = Miner
      PROVE  e.event = Told(NewTip(S, t))
  <2>1. PICK b \in 1 .. MaxBlock : e \in Elements(parts[b])
    BY <1>4
  <2>2. b \in S /\ e \in Elements(EventsOf(S, t, b))
    BY <1>3, <2>1
  <2> QED BY <1>5, <2>2, EventsFacts
<1>6. PICK m \in S : \A c \in S : c <= m
  BY <1>0, MaxExists
<1>7. m \in Nat /\ m > t /\ m \in 1 .. MaxBlock
  BY <1>0, <1>6
<1>8. CASE m \in Joins(S, t)
  <2>1. TellsMiner(S, m)
    BY <1>6 DEF TellsMiner
  <2>2. PICK e \in Elements(EventsOf(S, t, m)) : e.to = Miner
    BY <1>8, <2>1, EventsFacts
  <2>3. e \in Elements(BatchEvents(S, t))
    BY <1>3, <1>4, <1>7, <2>2
  <2> QED BY <1>4, <1>5, <2>2, <2>3
<1>9. CASE m \notin Joins(S, t)
  <2>1. m > NewTip(S, t)
    BY <1>0, <1>7, <1>9
  <2>2. m \in Waits(S, t) \cup Invalid(S, t)
    BY <1>7, <1>9 DEF Waits
  <2> QED BY <1>4, <1>5, <2>1, <2>2
<1> QED BY <1>8, <1>9

-----------------------------------------------------------------------------
(* Every channel holds what its thread can take.                           *)

Mail == [t \in Threads |->
            IF t = Router THEN RouterMail
            ELSE IF t = Consensus THEN ConsensusMail
            ELSE IF t = Miner THEN MinerMail ELSE VerifierMail]

Letters == [t \in Threads |-> IF t = Consensus THEN Orders ELSE Reports]

MailTyped == \A t \in Threads : chan[t] \in Seq(Mail[t])
LettersTyped == \A t \in Threads : out[t] \in Seq(Letters[t])
NumbersTyped ==
    /\ fetching \subseteq 1 .. MaxBlock /\ made \in 0 .. MaxBlock
    /\ tip \in Nat /\ target \in Nat /\ turn \in 0 .. Verifiers - 1
    /\ queued \subseteq 1 .. MaxBlock
    /\ job[Consensus].at = "adding" => job[Consensus].id \in 1 .. MaxBlock

Typed == MailTyped /\ LettersTyped /\ NumbersTyped

\* What each channel holds; a letter fits the channel it is for.
LEMMA MailFacts ==
    /\ Mail[Router] = RouterMail /\ Mail[Consensus] = ConsensusMail /\ Mail[Miner] = MinerMail
    /\ \A v \in Verifying : Mail[v] = VerifierMail
    /\ Letters[Consensus] = Orders
    /\ \A t \in Threads \ {Consensus} : Letters[t] = Reports
    /\ \A t \in Threads : \A m \in Letters[t] :
           m.to # Peers => m.to \in {Router, Consensus, Miner} /\ m.event \in Mail[m.to]
<1>1. /\ Mail[Router] = RouterMail /\ Mail[Consensus] = ConsensusMail /\ Mail[Miner] = MinerMail
      /\ \A v \in Verifying : Mail[v] = VerifierMail
  BY ThreadsDiffer, Zenon DEF Mail
<1>2. /\ Letters[Consensus] = Orders
      /\ \A t \in Threads \ {Consensus} : Letters[t] = Reports
  BY ThreadsDiffer, Zenon DEF Letters
<1>3. \A m \in Orders \cup Reports :
          m.to # Peers => m.to \in {Router, Consensus, Miner} /\ m.event \in Mail[m.to]
  BY <1>1 DEF Orders, Reports
<1> QED BY <1>1, <1>2, <1>3

\* The first element and the others.
LEMMA HeadTailElements ==
    ASSUME NEW X, NEW s \in Seq(X), s # << >>
    PROVE  /\ Head(s) \in X /\ Tail(s) \in Seq(X)
           /\ Elements(s) = {Head(s)} \cup Elements(Tail(s))
<1>1. /\ Head(s) \in X /\ Tail(s) \in Seq(X) /\ Len(Tail(s)) = Len(s) - 1
      /\ \A i \in 1 .. Len(s) - 1 : Tail(s)[i] = s[i + 1]
      /\ Len(s) \in Nat /\ Len(s) # 0 /\ DOMAIN s = 1 .. Len(s) /\ Head(s) = s[1]
  BY HeadTailProperties, LenProperties, EmptySeq
<1> DEFINE r == Tail(s)
<1>2. DOMAIN r = 1 .. Len(s) - 1 /\ \A i \in 1 .. Len(s) - 1 : r[i] = s[i + 1]
  BY <1>1, LenProperties
<1> HIDE DEF r
<1>3. ASSUME NEW i \in DOMAIN s PROVE s[i] \in {Head(s)} \cup Elements(r)
  <2>1. CASE i = 1
    BY <1>1, <2>1
  <2>2. CASE i # 1
    <3>1. i - 1 \in DOMAIN r /\ r[i - 1] = s[i]
      BY <1>1, <1>2, <2>2
    <3> QED BY <3>1 DEF Elements
  <2> QED BY <2>1, <2>2
<1>4. ASSUME NEW i \in DOMAIN r PROVE r[i] \in Elements(s)
  <2>1. i + 1 \in DOMAIN s /\ r[i] = s[i + 1]
    BY <1>1, <1>2
  <2> QED BY <2>1 DEF Elements
<1>5. Head(s) \in Elements(s)
  <2>1. 1 \in DOMAIN s
    BY <1>1
  <2> QED BY <1>1, <2>1 DEF Elements
<1>6. Elements(s) = {Head(s)} \cup Elements(r)
  BY <1>3, <1>4, <1>5 DEF Elements
<1> QED BY <1>1, <1>6 DEF r

\* The last element stays the last while there is one.
LEMMA LastOfTail ==
    ASSUME NEW X, NEW s \in Seq(X), s # << >>
    PROVE  IF Len(s) = 1 THEN Tail(s) = << >> /\ Head(s) = s[1]
           ELSE Tail(s) # << >> /\ Tail(s)[Len(Tail(s))] = s[Len(s)]
<1>1. /\ Tail(s) \in Seq(X) /\ Len(Tail(s)) = Len(s) - 1
      /\ \A i \in 1 .. Len(s) - 1 : Tail(s)[i] = s[i + 1]
      /\ Len(s) \in Nat /\ Len(s) # 0 /\ Head(s) = s[1]
  BY HeadTailProperties, LenProperties, EmptySeq
<1>2. CASE Len(s) = 1
  <2>1. Len(Tail(s)) = 0
    BY <1>1, <1>2
  <2> QED BY <1>1, <1>2, <2>1, EmptySeq
<1>3. CASE Len(s) # 1
  <2>1. Len(s) - 1 \in 1 .. Len(s) - 1 /\ Len(s) - 1 + 1 = Len(s) /\ Len(Tail(s)) # 0
    BY <1>1, <1>3
  <2>2. Tail(s)[Len(s) - 1] = s[Len(s)]
    <3>1. Tail(s)[Len(s) - 1] = s[Len(s) - 1 + 1]
      BY <1>1, <2>1
    <3> QED BY <2>1, <3>1
  <2>3. Tail(s) # << >>
    BY <1>1, <2>1, EmptySeq
  <2> QED BY <1>1, <1>3, <2>2, <2>3
<1> QED BY <1>2, <1>3

\* A message that is appended to the channel it is for.
LEMMA Delivered ==
    ASSUME Domains, MailTyped, NEW u \in Threads, NEW e \in Mail[u],
           chan' = [chan EXCEPT ![u] = Append(@, e)]
    PROVE  MailTyped'
<1>1. chan[u] \in Seq(Mail[u])
  BY DEF MailTyped
<1>2. Append(chan[u], e) \in Seq(Mail[u])
  BY <1>1, AppendProperties
<1>3. /\ chan'[u] = Append(chan[u], e)
      /\ \A t \in Threads \ {u} : chan'[t] = chan[t]
  BY DEF Domains
<1>4. ASSUME NEW t \in Threads PROVE chan'[t] \in Seq(Mail[t])
  BY <1>2, <1>3 DEF MailTyped
<1> QED BY <1>4 DEF MailTyped, Mail

\* A message that is taken from a channel.
LEMMA Taken ==
    ASSUME Domains, MailTyped, NEW u \in Threads, Take(u)
    PROVE  /\ MailTyped' /\ First(u) \in Mail[u]
           /\ chan'[u] = Tail(chan[u])
           /\ \A t \in Threads \ {u} : chan'[t] = chan[t]
<1>1. chan[u] \in Seq(Mail[u]) /\ chan[u] # << >>
  BY DEF MailTyped, Take
<1>2. First(u) \in Mail[u] /\ Tail(chan[u]) \in Seq(Mail[u])
  BY <1>1, HeadTailProperties DEF First
<1>3. /\ chan'[u] = Tail(chan[u])
      /\ \A t \in Threads \ {u} : chan'[t] = chan[t]
  BY DEF Domains, Take
<1>4. ASSUME NEW t \in Threads PROVE chan'[t] \in Seq(Mail[t])
  BY <1>2, <1>3 DEF MailTyped
<1> QED BY <1>2, <1>3, <1>4 DEF MailTyped, Mail

\* What a thread still has to send.
LEMMA Posted ==
    ASSUME Domains, LettersTyped, NEW u \in Threads, NEW msgs \in Seq(Letters[u]), Sends(u, msgs)
    PROVE  LettersTyped'
<1>1. out'[u] = msgs /\ \A t \in Threads \ {u} : out'[t] = out[t]
  BY SendsActs
<1>2. ASSUME NEW t \in Threads PROVE out'[t] \in Seq(Letters[t])
  BY <1>1 DEF LettersTyped
<1> QED BY <1>2 DEF LettersTyped, Letters

\* A message to a verification thread reaches no other.
LEMMA SentToVerification ==
    ASSUME Domains, MailTyped, turn \in 0 .. Verifiers - 1,
           NEW e \in VerifierMail, SendToVerification(e)
    PROVE  MailTyped' /\ chan'[Miner] = chan[Miner] /\ turn' \in 0 .. Verifiers - 1
<1>1. PICK n \in 1 .. Verifiers :
          /\ chan' = [chan EXCEPT ![Verifier((turn + n) % Verifiers)] = Append(@, e)]
          /\ turn' = (turn + n) % Verifiers
  BY DEF SendToVerification
<1>2. Verifiers \in Nat /\ Verifiers > 0
  BY PipelineAssumption
<1>3. turn + n \in Nat /\ (turn + n) % Verifiers \in 0 .. Verifiers - 1
  BY <1>2
<1> DEFINE v == Verifier((turn + n) % Verifiers)
<1>4. v \in Verifying
  BY <1>3 DEF Verifying
<1>5. chan' = [chan EXCEPT ![v] = Append(@, e)]
  BY <1>1
<1> HIDE DEF v
<1>6. v \in Threads /\ v # Miner /\ e \in Mail[v]
  BY <1>4, ThreadsDiffer, MailFacts
<1>7. MailTyped'
  BY <1>5, <1>6, Delivered
<1>8. chan'[Miner] = chan[Miner]
  BY <1>5, <1>6, ThreadsDiffer DEF Domains
<1> QED BY <1>1, <1>3, <1>7, <1>8

-----------------------------------------------------------------------------
(* What the miner was told.                                                *)

\* The miner works on the tip, or the last thing it will hear is the tip.
TipTold ==
    /\ \A e \in Elements(out[Consensus]) : e.to = Miner => e.event = Told(tip)
    /\ \/ \E e \in Elements(out[Consensus]) : e.to = Miner
       \/ chan[Miner] # << >> /\ chan[Miner][Len(chan[Miner])] = Told(tip)
       \/ chan[Miner] = << >> /\ target = tip

BlockAbove == \E b \in queued \cup dropped : b > tip

MinerInv ==
    /\ Domains /\ SendersSend /\ ReadyIsIdle
    /\ Typed
    /\ job[Consensus].at # "loading" => TipTold \/ BlockAbove

\* What most steps leave alone.
MinerKept ==
    /\ \/ out'[Consensus] = out[Consensus]
       \/ out[Consensus] = << >> /\ \A e \in Elements(out'[Consensus]) : e.to # Miner
    /\ chan'[Miner] = chan[Miner]
    /\ target' = target /\ chainVars' = chainVars
    /\ job[Consensus].at = "loading" => job'[Consensus].at = "loading"

\* A step that leaves alone what TipTold is about.
LEMMA KeptTold ==
    ASSUME MinerInv, MinerKept
    PROVE  job'[Consensus].at # "loading" => TipTold' \/ BlockAbove'
<1>1. tip' = tip /\ queued' = queued /\ dropped' = dropped
  BY DEF MinerKept, chainVars
<1>2. TipTold => TipTold'
  <2>1. CASE out'[Consensus] = out[Consensus]
    BY <1>1, <2>1 DEF MinerKept, TipTold
  <2>2. CASE out[Consensus] = << >> /\ \A e \in Elements(out'[Consensus]) : e.to # Miner
    <3>1. Elements(out[Consensus]) = {}
      BY <2>2, ElementsOfNone
    <3> QED BY <1>1, <2>2, <3>1 DEF MinerKept, TipTold
  <2> QED BY <2>1, <2>2 DEF MinerKept
<1>3. BlockAbove => BlockAbove'
  BY <1>1 DEF BlockAbove
<1> QED BY <1>2, <1>3 DEF MinerInv, MinerKept

\* A batch: what is sent then is about the tip it leaves.
LEMMA BatchTold ==
    ASSUME MinerInv, NEW S, S \subseteq 1 .. MaxBlock, \E b \in S : b > tip,
           AddBlocksFromMempool(S)
    PROVE  /\ LettersTyped'
           /\ TipTold' \/ BlockAbove'
           /\ tip' \in Nat /\ queued' \subseteq 1 .. MaxBlock
<1>1. /\ BatchEvents(S, tip) \in Seq(Orders)
      /\ \A e \in Elements(BatchEvents(S, tip)) :
             e.to = Miner => e.event = Told(NewTip(S, tip))
      /\ \/ \E e \in Elements(BatchEvents(S, tip)) : e.to = Miner
         \/ \E b \in Waits(S, tip) \cup Invalid(S, tip) : b > NewTip(S, tip)
  <2>1. tip \in Nat
    BY DEF MinerInv, Typed, NumbersTyped
  <2> QED BY <2>1, BatchFacts, Zenon
<1>2. /\ tip' = NewTip(S, tip) /\ queued' = Waits(S, tip)
      /\ dropped' = dropped \cup Invalid(S, tip)
      /\ Sends(Consensus, BatchEvents(S, tip))
  BY DEF AddBlocksFromMempool
<1>3. out'[Consensus] = BatchEvents(S, tip)
  BY <1>2, SendsActs, ThreadsDiffer DEF MinerInv
<1>4. LettersTyped'
  BY <1>1, <1>2, Posted, MailFacts, ThreadsDiffer DEF MinerInv, Typed
<1>5. TipTold' \/ BlockAbove'
  BY <1>1, <1>2, <1>3 DEF TipTold, BlockAbove
<1>6. tip' \in Nat
  <2>1. tip \in Nat
    BY DEF MinerInv, Typed, NumbersTyped
  <2>2. NewTip(S, tip) \in Nat
    BY <2>1, JoinsFacts, Zenon
  <2> QED BY <1>2, <2>2
<1>7. queued' \subseteq 1 .. MaxBlock
  BY <1>2 DEF Waits
<1> QED BY <1>4, <1>5, <1>6, <1>7

\* Before the chain is loaded nothing was told.
LEMMA MinerInit == Init => MinerInv
<1> SUFFICES ASSUME Init PROVE MinerInv
  OBVIOUS
<1>1. Domains /\ SendersSend /\ ReadyIsIdle
  BY InitInv DEF Inv
<1>2. MailTyped /\ LettersTyped
  BY DEF Init, MailTyped, LettersTyped
<1>3. NumbersTyped
  <2>1. job[Consensus].at = "loading"
    BY ThreadsDiffer DEF Init
  <2>2. Verifiers \in Nat \ {0} /\ MaxBlock \in Nat
    BY PipelineAssumption
  <2> QED BY <2>1, <2>2 DEF Init, NumbersTyped
<1>4. job[Consensus].at = "loading"
  BY ThreadsDiffer DEF Init
<1> QED BY <1>1, <1>2, <1>3, <1>4 DEF MinerInv, Typed

\* The routing thread: it sends to the verification threads only.
LEMMA RouterTells ==
    ASSUME MinerInv,
           \/ RouterTakesTx \/ RouterTakesFetched \/ RouterTakesEvent \/ RouterTimer
           \/ RouterGreets \/ RouterReads \/ Tick(Router)
    PROVE  Typed' /\ MinerKept
<1> USE DEF MinerInv
<1>0. /\ out' = out /\ job'[Consensus] = job[Consensus]
      /\ LettersTyped'
  BY RouterActs, ThreadsDiffer DEF Acts, LettersTyped, Letters, Typed
<1>1. /\ MailTyped /\ NumbersTyped /\ turn \in 0 .. Verifiers - 1 /\ fetching \subseteq 1 .. MaxBlock
  BY DEF Typed, NumbersTyped
<1>2. CASE RouterTakesTx
  <2>1. /\ MailTyped' /\ chan'[Miner] = chan[Miner] /\ turn' \in 0 .. Verifiers - 1
    <3>1. Tx \in VerifierMail
      BY DEF VerifierMail
    <3> QED BY <1>1, <1>2, <3>1, SentToVerification DEF RouterTakesTx
  <2> QED BY <1>0, <1>1, <1>2, <2>1
          DEF RouterTakesTx, Typed, NumbersTyped, MinerKept, minerVars, chainVars
<1>3. CASE RouterTakesFetched
  <2>1. PICK b \in fetching : RouterTakesBlock(b)
    BY <1>3 DEF RouterTakesFetched
  <2>2. /\ MailTyped' /\ chan'[Miner] = chan[Miner] /\ turn' \in 0 .. Verifiers - 1
    <3>1. Block(b) \in VerifierMail
      BY <1>1 DEF VerifierMail
    <3> QED BY <1>1, <2>1, <3>1, SentToVerification DEF RouterTakesBlock
  <2> QED BY <1>0, <1>1, <2>1, <2>2
          DEF RouterTakesBlock, Typed, NumbersTyped, MinerKept, minerVars, chainVars
<1>4. CASE RouterTakesEvent
  <2>1. /\ MailTyped' /\ First(Router) \in RouterMail /\ chan'[Miner] = chan[Miner]
    BY <1>1, <1>4, Taken, MailFacts, ThreadsDiffer DEF RouterTakesEvent
  <2>2. First(Router).id \in 1 .. MaxBlock
    BY <2>1 DEF RouterMail, Updated, FetchOf, ChainOf
  <2>3. fetching' \subseteq 1 .. MaxBlock
    BY <1>1, <1>4, <2>2 DEF RouterTakesEvent
  <2> QED BY <1>0, <1>1, <1>4, <2>1, <2>3
          DEF RouterTakesEvent, Typed, NumbersTyped, MinerKept, minerVars, chainVars
<1>5. CASE RouterTimer \/ RouterGreets \/ RouterReads \/ Tick(Router)
  <2>1. /\ chan' = chan /\ UNCHANGED <<netVars, turn, minerVars, chainVars>>
    BY <1>5 DEF RouterTimer, RouterGreets, RouterReads, Tick
  <2>2. MailTyped'
    BY <1>1, <2>1 DEF MailTyped, Mail
  <2> QED BY <1>0, <1>1, <2>1, <2>2
          DEF Typed, NumbersTyped, MinerKept, netVars, minerVars, chainVars
<1> QED BY <1>2, <1>3, <1>4, <1>5

\* A verification thread: it sends to the consensus thread only.
LEMMA VerifierTells ==
    ASSUME MinerInv, NEW v \in Verifying, VerifierTakes(v) \/ VerifyTx(v)
    PROVE  Typed' /\ MinerKept
<1> USE DEF MinerInv
<1>0. /\ v \in Threads /\ v # Consensus /\ v # Miner
      /\ Acts(v)
      /\ out'[Consensus] = out[Consensus] /\ job'[Consensus] = job[Consensus]
      /\ UNCHANGED <<netVars, turn, minerVars, chainVars>>
  BY ThreadsDiffer, VerifierActs DEF Acts, VerifierTakes, VerifyTx
<1>1. NumbersTyped'
  BY <1>0 DEF Typed, NumbersTyped, netVars, minerVars, chainVars
<1>2. Letters[v] = Reports /\ Mail[v] = VerifierMail
  BY <1>0, MailFacts
<1>3. CASE VerifierTakes(v)
  <2>1. MailTyped' /\ First(v) \in VerifierMail /\ chan'[Miner] = chan[Miner]
    BY <1>0, <1>2, <1>3, Taken, ThreadsDiffer DEF Typed, VerifierTakes
  <2>2. LettersTyped'
    <3>1. CASE out' = out
      BY <3>1 DEF Typed, LettersTyped, Letters
    <3>2. CASE Sends(v, <<[to |-> Consensus, event |-> First(v)]>>)
      <4>1. [to |-> Consensus, event |-> First(v)] \in Reports
        BY <2>1 DEF Reports, ConsensusMail
      <4>2. <<[to |-> Consensus, event |-> First(v)]>> \in Seq(Letters[v])
        BY <1>2, <4>1, ElementsOfOne, Zenon
      <4> QED BY <1>0, <3>2, <4>2, Posted DEF Typed
    <3> QED BY <1>3, <3>1, <3>2 DEF VerifierTakes
  <2> QED BY <1>0, <1>1, <2>1, <2>2 DEF Typed, MinerKept, minerVars
<1>4. CASE VerifyTx(v)
  <2>1. MailTyped' /\ chan'[Miner] = chan[Miner]
    BY <1>4 DEF VerifyTx, Typed, MailTyped, Mail
  <2>2. LettersTyped'
    <3>1. [to |-> Consensus, event |-> Tx] \in Reports
      BY DEF Reports, ConsensusMail, VerifierMail
    <3>2. <<[to |-> Consensus, event |-> Tx]>> \in Seq(Letters[v]) /\ << >> \in Seq(Letters[v])
      BY <1>2, <3>1, ElementsOfOne, ElementsOfNone, Zenon
    <3> QED BY <1>0, <1>4, <3>2, Posted DEF Typed, VerifyTx
  <2> QED BY <1>0, <1>1, <2>1, <2>2 DEF Typed, MinerKept, minerVars
<1> QED BY <1>3, <1>4

\* The consensus thread: each batch leaves the miner's next news right.
LEMMA ConsensusTells ==
    ASSUME MinerInv,
           Load \/ ConsensusTakes \/ AddFetched \/ ConsensusTimer \/ BundleBlock \/ Tick(Consensus)
    PROVE  /\ Typed'
           /\ job'[Consensus].at # "loading" => TipTold' \/ BlockAbove'
<1> USE DEF MinerInv
<1>0. /\ MailTyped /\ LettersTyped /\ NumbersTyped
      /\ MaxBlock \in Nat /\ Consensus \in Threads /\ Miner \in Threads /\ Consensus # Miner
      /\ out[Consensus] \in Seq(Orders)
  BY PipelineAssumption, ThreadsDiffer, MailFacts DEF Typed, LettersTyped
<1>1. CASE Load
  <2> DEFINE m == [to |-> Miner, event |-> Told(tip)]
  <2>1. Sends(Consensus, <<m>>) /\ UNCHANGED <<netVars, chan, turn, minerVars, chainVars>>
    BY <1>1 DEF Load
  <2>2. m \in Orders /\ m.to = Miner /\ m.event = Told(tip)
    BY <1>0 DEF Orders, MinerMail, NumbersTyped
  <2> HIDE DEF m
  <2>3. <<m>> \in Seq(Letters[Consensus]) /\ Elements(<<m>>) = {m}
    BY <2>2, ElementsOfOne, MailFacts, Zenon
  <2>4. LettersTyped' /\ out'[Consensus] = <<m>> /\ job'[Consensus].at # "adding"
    <3>1. LettersTyped' /\ out'[Consensus] = <<m>>
      BY <1>0, <2>1, <2>3, Posted, SendsActs
    <3>2. <<m>> # << >>
      OBVIOUS
    <3>3. job'[Consensus] = [at |-> "sending"]
      BY <1>0, <2>1, <3>2, GotoActs DEF Sends
    <3> QED BY <3>1, <3>3
  <2>5. MailTyped' /\ NumbersTyped'
    BY <1>0, <2>1, <2>4 DEF MailTyped, Mail, NumbersTyped, netVars, minerVars, chainVars
  <2>6. TipTold'
    <3>1. \A e \in Elements(out[Consensus]') : e = m
      BY <2>3, <2>4
    <3>2. m \in Elements(out[Consensus]') /\ tip' = tip
      BY <2>1, <2>3, <2>4 DEF chainVars
    <3> QED BY <2>2, <3>1, <3>2 DEF TipTold
  <2> QED BY <2>4, <2>5, <2>6 DEF Typed
<1>2. CASE ConsensusTakes
  <2>1. /\ Take(Consensus) /\ UNCHANGED <<netVars, out, turn, minerVars, chainVars>>
        /\ IF First(Consensus).kind = "block"
           THEN Goto(Consensus, [at |-> "adding", id |-> First(Consensus).id])
           ELSE job' = job
    BY <1>2 DEF ConsensusTakes
  <2>2. /\ MailTyped' /\ First(Consensus) \in ConsensusMail /\ chan'[Miner] = chan[Miner]
    BY <1>0, <2>1, Taken, MailFacts
  <2>3. job[Consensus].at # "loading" /\ job[Consensus].at # "adding"
    BY <1>0, <2>1 DEF Take, ReadyIsIdle, Idle
  <2>4. job'[Consensus].at = "adding" => job'[Consensus].id \in 1 .. MaxBlock
    <3>1. CASE First(Consensus).kind = "block"
      <4>1. First(Consensus).id \in 1 .. MaxBlock
        BY <2>2, <3>1 DEF ConsensusMail, VerifierMail, Block, Ticket, Tx
      <4>2. job'[Consensus] = [at |-> "adding", id |-> First(Consensus).id]
        BY <1>0, <2>1, <3>1, GotoActs
      <4> QED BY <4>1, <4>2
    <3>2. CASE First(Consensus).kind # "block"
      BY <2>1, <2>3, <3>2
    <3> QED BY <3>1, <3>2
  <2>5. LettersTyped' /\ NumbersTyped'
    BY <1>0, <2>1, <2>4 DEF LettersTyped, Letters, NumbersTyped, netVars, minerVars, chainVars
  <2>6. MinerKept
    BY <2>1, <2>2, <2>3 DEF MinerKept, minerVars
  <2> QED BY <2>2, <2>5, <2>6, KeptTold DEF Typed
<1>3. CASE AddFetched
  <2>0. /\ job[Consensus].at = "adding" /\ UNCHANGED <<netVars, chan, turn, minerVars>>
    BY <1>3 DEF AddFetched
  <2>1. job[Consensus].id \in 1 .. MaxBlock /\ tip \in Nat /\ queued \subseteq 1 .. MaxBlock
    BY <1>0, <2>0 DEF NumbersTyped
  <2>2. PICK msgs : Sends(Consensus, msgs)
    BY <1>3 DEF AddFetched, AddBlocksFromMempool
  <2>3. job'[Consensus].at # "adding"
    <3>1. job'[Consensus] = Idle \/ job'[Consensus] = [at |-> "sending"]
      BY <1>0, <2>2, GotoActs DEF Sends
    <3> QED BY <3>1 DEF Idle
  <2>4. MailTyped'
    BY <1>0, <2>0 DEF MailTyped, Mail
  <2>5. CASE job[Consensus].id <= tip
    <3>1. Sends(Consensus, << >>) /\ UNCHANGED chainVars
      BY <1>3, <2>5 DEF AddFetched
    <3>2. << >> \in Seq(Letters[Consensus])
      BY ElementsOfNone
    <3>3. LettersTyped' /\ out'[Consensus] = << >>
      BY <1>0, <3>1, <3>2, Posted, SendsActs
    <3>4. out[Consensus] = << >>
      BY <1>0, <2>0 DEF SendersSend
    <3>5. NumbersTyped'
      BY <1>0, <2>0, <2>3, <3>1 DEF NumbersTyped, netVars, minerVars, chainVars
    <3>6. MinerKept
      BY <2>0, <3>1, <3>3, <3>4 DEF MinerKept, minerVars
    <3> QED BY <2>4, <3>3, <3>5, <3>6, KeptTold DEF Typed
  <2>6. CASE ~(job[Consensus].id <= tip)
    <3> DEFINE S == queued \cup {job[Consensus].id}
    <3>1. AddBlocksFromMempool(S)
      BY <1>3, <2>6 DEF AddFetched
    <3>2. S \subseteq 1 .. MaxBlock /\ job[Consensus].id \in S /\ job[Consensus].id > tip
      <4>1. PICK b \in 1 .. MaxBlock : b = job[Consensus].id
        BY <2>1
      <4>2. ~(b <= tip) /\ S = queued \cup {b}
        BY <2>6, <4>1
      <4>3. b > tip
        BY <1>0, <2>1, <4>2
      <4>4. S \subseteq 1 .. MaxBlock /\ b \in S
        BY <2>1, <4>2
      <4> QED BY <4>1, <4>3, <4>4
    <3> HIDE DEF S
    <3>3. /\ LettersTyped'
          /\ TipTold' \/ BlockAbove'
          /\ tip' \in Nat /\ queued' \subseteq 1 .. MaxBlock
      BY <3>1, <3>2, BatchTold
    <3>4. NumbersTyped'
      BY <1>0, <2>0, <2>3, <3>3 DEF NumbersTyped, netVars, minerVars
    <3> QED BY <2>4, <3>3, <3>4 DEF Typed
  <2> QED BY <2>5, <2>6
<1>4. CASE ConsensusTimer
  <2>1. /\ job[Consensus] = Idle /\ Goto(Consensus, [at |-> "bundling"])
        /\ UNCHANGED <<netVars, chan, out, turn, minerVars, chainVars>>
    BY <1>4 DEF ConsensusTimer
  <2>2. job'[Consensus] = [at |-> "bundling"] /\ job[Consensus].at # "loading"
    BY <1>0, <2>1, GotoActs DEF Idle
  <2>3. job'[Consensus].at # "adding"
    BY <2>2
  <2>4. Typed'
    BY <1>0, <2>1, <2>3
    DEF Typed, MailTyped, Mail, LettersTyped, Letters, NumbersTyped, netVars, minerVars, chainVars
  <2>5. MinerKept
    BY <2>1, <2>2 DEF MinerKept, minerVars
  <2> QED BY <2>4, <2>5, KeptTold
<1>5. CASE BundleBlock
  <2>0. /\ job[Consensus].at = "bundling"
        /\ UNCHANGED <<fetching, refetches, txs, chan, turn, minerVars>>
    BY <1>5 DEF BundleBlock
  <2>2. PICK msgs : Sends(Consensus, msgs)
    BY <1>5 DEF BundleBlock, AddBlocksFromMempool
  <2>3. job'[Consensus].at # "adding"
    <3>1. job'[Consensus] = Idle \/ job'[Consensus] = [at |-> "sending"]
      BY <1>0, <2>2, GotoActs DEF Sends
    <3> QED BY <3>1 DEF Idle
  <2>4. MailTyped'
    BY <1>0, <2>0 DEF MailTyped, Mail
  <2> DEFINE p == [to |-> Peers, event |-> Tx]
  <2>5. CASE /\ Sends(Consensus, << >>) \/ Sends(Consensus, <<p>>)
             /\ UNCHANGED <<made, chainVars>>
    <3>1. p \in Orders /\ p.to # Miner
      BY ThreadsDiffer DEF Orders, PeersMail
    <3> HIDE DEF p
    <3>2. /\ << >> \in Seq(Letters[Consensus]) /\ <<p>> \in Seq(Letters[Consensus])
          /\ Elements(<< >>) = {} /\ Elements(<<p>>) = {p}
      BY <3>1, ElementsOfNone, ElementsOfOne, MailFacts, Zenon
    <3>3. LettersTyped' /\ out'[Consensus] \in {<< >>, <<p>>}
      BY <1>0, <2>5, <3>2, Posted, SendsActs
    <3>4. out[Consensus] = << >>
      BY <1>0, <2>0 DEF SendersSend
    <3>5. NumbersTyped'
      BY <1>0, <2>0, <2>3, <2>5 DEF NumbersTyped, minerVars, chainVars
    <3>6. \A e \in Elements(out'[Consensus]) : e.to # Miner
      BY <3>1, <3>2, <3>3
    <3>7. MinerKept
      BY <2>0, <2>5, <3>4, <3>6 DEF MinerKept, minerVars
    <3> QED BY <2>4, <3>3, <3>5, <3>7, KeptTold DEF Typed
  <2>6. CASE /\ tip = made /\ made < MaxBlock /\ made' = made + 1
             /\ AddBlocksFromMempool({tip + 1})
    <3>1. /\ {tip + 1} \subseteq 1 .. MaxBlock /\ tip + 1 \in {tip + 1} /\ tip + 1 > tip
          /\ made' \in 0 .. MaxBlock
      BY <1>0, <2>6 DEF NumbersTyped
    <3> DEFINE S == {tip + 1}
    <3>2. S \subseteq 1 .. MaxBlock /\ (\E b \in S : b > tip) /\ AddBlocksFromMempool(S)
      BY <2>6, <3>1
    <3> HIDE DEF S
    <3>3. /\ LettersTyped'
          /\ TipTold' \/ BlockAbove'
          /\ tip' \in Nat /\ queued' \subseteq 1 .. MaxBlock
      BY <3>2, BatchTold
    <3>4. NumbersTyped'
      BY <1>0, <2>0, <2>3, <3>1, <3>3 DEF NumbersTyped, minerVars
    <3> QED BY <2>4, <3>3, <3>4 DEF Typed
  <2> QED BY <1>5, <2>5, <2>6 DEF BundleBlock
<1>6. CASE Tick(Consensus)
  <2>1. UNCHANGED <<netVars, chan, job, out, turn, minerVars, chainVars>>
    BY <1>6 DEF Tick
  <2>2. Typed'
    BY <1>0, <2>1
    DEF Typed, MailTyped, Mail, LettersTyped, Letters, NumbersTyped, netVars, minerVars, chainVars
  <2>3. MinerKept
    BY <2>1 DEF MinerKept, minerVars
  <2> QED BY <2>2, <2>3, KeptTold
<1> QED BY <1>1, <1>2, <1>3, <1>4, <1>5, <1>6

\* The mining thread hears what was sent last.
LEMMA MinerTells ==
    ASSUME MinerInv, MinerTakes \/ Mine \/ Tick(Miner)
    PROVE  /\ Typed'
           /\ job'[Consensus].at # "loading" => TipTold' \/ BlockAbove'
<1> USE DEF MinerInv
<1>0. /\ MailTyped /\ LettersTyped /\ NumbersTyped
      /\ Miner \in Threads /\ Consensus # Miner /\ Consensus \in Threads
      /\ out'[Consensus] = out[Consensus] /\ job'[Consensus] = job[Consensus]
  BY ThreadsDiffer, MinerActs DEF Typed, Acts
<1>1. CASE MinerTakes
  <2>1. /\ Take(Miner) /\ target' = First(Miner).id
        /\ UNCHANGED <<netVars, lock, job, out, turn, chainVars>>
    BY <1>1 DEF MinerTakes
  <2>2. /\ MailTyped' /\ First(Miner) \in MinerMail /\ chan'[Miner] = Tail(chan[Miner])
    BY <1>0, <2>1, Taken, MailFacts
  <2>3. PICK b \in Nat : First(Miner) = Told(b) /\ target' = b
    BY <2>1, <2>2 DEF MinerMail, Told
  <2>4. LettersTyped' /\ NumbersTyped'
    BY <1>0, <2>1, <2>3 DEF LettersTyped, Letters, NumbersTyped, netVars, chainVars
  <2>5. ASSUME TipTold PROVE TipTold'
    <3>1. CASE \E e \in Elements(out[Consensus]) : e.to = Miner
      BY <2>1, <2>5, <3>1 DEF TipTold, chainVars
    <3>2. CASE chan[Miner] # << >> /\ chan[Miner][Len(chan[Miner])] = Told(tip)
      <4>1. chan[Miner] \in Seq(MinerMail)
        BY <1>0, MailFacts DEF MailTyped
      <4>2. CASE Len(chan[Miner]) = 1
        <5>1. chan'[Miner] = << >> /\ First(Miner) = chan[Miner][1]
          BY <2>2, <3>2, <4>1, <4>2, LastOfTail DEF First
        <5>2. Told(b) = Told(tip)
          BY <2>3, <3>2, <4>2, <5>1
        <5>3. target' = tip'
          BY <2>1, <2>3, <5>2 DEF Told, chainVars
        <5> QED BY <2>1, <2>5, <5>1, <5>3 DEF TipTold, chainVars
      <4>3. CASE Len(chan[Miner]) # 1
        <5>1. chan'[Miner] # << >> /\ chan'[Miner][Len(chan'[Miner])] = Told(tip)
          BY <2>2, <3>2, <4>1, <4>3, LastOfTail
        <5> QED BY <2>1, <2>5, <5>1 DEF TipTold, chainVars
      <4> QED BY <4>2, <4>3
    <3>3. chan[Miner] # << >>
      BY <2>1 DEF Take
    <3> QED BY <2>5, <3>1, <3>2, <3>3 DEF TipTold
  <2>6. BlockAbove => BlockAbove'
    BY <2>1 DEF BlockAbove, chainVars
  <2> QED BY <1>0, <2>2, <2>4, <2>5, <2>6 DEF Typed
<1>2. CASE Mine
  <2> DEFINE m == [to |-> Consensus, event |-> Ticket(target)]
  <2>1. Sends(Miner, <<m>>) /\ UNCHANGED <<netVars, chan, turn, target, chainVars>>
    BY <1>2 DEF Mine
  <2>2. m \in Reports
    BY <1>0 DEF Reports, ConsensusMail, NumbersTyped
  <2> HIDE DEF m
  <2>3. <<m>> \in Seq(Letters[Miner])
    BY <1>0, <2>2, ElementsOfOne, MailFacts, Zenon
  <2>4. LettersTyped'
    BY <1>0, <2>1, <2>3, Posted
  <2>5. MailTyped' /\ NumbersTyped'
    BY <1>0, <2>1 DEF MailTyped, Mail, NumbersTyped, netVars, chainVars
  <2>6. MinerKept
    BY <1>0, <2>1 DEF MinerKept
  <2> QED BY <2>4, <2>5, <2>6, KeptTold DEF Typed
<1>3. CASE Tick(Miner)
  <2>1. UNCHANGED <<netVars, chan, job, out, turn, minerVars, chainVars>>
    BY <1>3 DEF Tick
  <2>2. Typed'
    BY <1>0, <2>1
    DEF Typed, MailTyped, Mail, LettersTyped, Letters, NumbersTyped, netVars, minerVars, chainVars
  <2>3. MinerKept
    BY <2>1 DEF MinerKept, minerVars
  <2> QED BY <2>2, <2>3, KeptTold
<1> QED BY <1>1, <1>2, <1>3

\* A send: what the consensus thread had for the miner is now in its channel.
LEMMA SendTells ==
    ASSUME MinerInv, NEW t \in Threads, Send(t)
    PROVE  /\ Typed'
           /\ job'[Consensus].at # "loading" => TipTold' \/ BlockAbove'
<1> USE DEF MinerInv
<1> DEFINE m == Head(out[t])
<1>0. /\ MailTyped /\ LettersTyped /\ NumbersTyped
      /\ out[t] \in Seq(Letters[t]) /\ out[t] # << >>
  BY DEF Typed, LettersTyped, SendersSend, Send
<1>1. /\ m \in Letters[t] /\ Tail(out[t]) \in Seq(Letters[t])
      /\ Elements(out[t]) = {m} \cup Elements(Tail(out[t]))
      /\ m.to # Peers
  BY <1>0, HeadTailElements DEF Send
<1>2. m.to \in {Router, Consensus, Miner} /\ m.event \in Mail[m.to] /\ m.to \in Threads
  BY <1>1, MailFacts, ThreadsDiffer
<1>3. /\ chan' = [chan EXCEPT ![m.to] = Append(@, m.event)]
      /\ Sends(t, Tail(out[t]))
      /\ UNCHANGED <<netVars, turn, minerVars, chainVars>>
  BY DEF Send
<1> HIDE DEF m
<1>4. MailTyped'
  BY <1>0, <1>2, <1>3, Delivered
<1>5. LettersTyped'
  BY <1>0, <1>1, <1>3, Posted
<1>6. /\ out'[t] = Tail(out[t])
      /\ \A u \in Threads \ {t} : job'[u] = job[u] /\ out'[u] = out[u]
  BY <1>3, SendsActs
<1>7. job'[t] = Idle \/ job'[t] = [at |-> "sending"]
  BY <1>3, GotoActs DEF Sends
<1>8. NumbersTyped'
  <2>1. job'[Consensus].at = "adding" => job'[Consensus] = job[Consensus]
    BY <1>6, <1>7, ThreadsDiffer DEF Idle
  <2> QED BY <1>0, <1>3, <2>1 DEF NumbersTyped, netVars, minerVars, chainVars
<1>9. CASE t # Consensus
  <2>1. m.to = Consensus
    <3>1. Letters[t] = Reports
      BY <1>9, MailFacts
    <3> QED BY <1>1, <3>1 DEF Reports
  <2>2. chan'[Miner] = chan[Miner]
    BY <1>3, <2>1, ThreadsDiffer DEF Domains
  <2>3. MinerKept
    BY <1>3, <1>6, <1>9, <2>2, ThreadsDiffer DEF MinerKept, minerVars
  <2> QED BY <1>4, <1>5, <1>8, <2>3, KeptTold DEF Typed
<1>10. CASE t = Consensus
  <2>1. job[Consensus].at = "sending"
    BY <1>10 DEF Send
  <2>2. tip' = tip /\ target' = target /\ (BlockAbove => BlockAbove')
    BY <1>3 DEF BlockAbove, minerVars, chainVars
  <2>3. ASSUME TipTold PROVE TipTold'
    <3>1. \A e \in Elements(out'[Consensus]) : e.to = Miner => e.event = Told(tip)
      BY <1>1, <1>6, <1>10, <2>3 DEF TipTold
    <3>2. CASE m.to = Miner
      <4>1. m.event = Told(tip)
        BY <1>1, <1>10, <2>3, <3>2 DEF TipTold
      <4>2. chan[Miner] \in Seq(MinerMail) /\ m.event \in MinerMail
        BY <1>0, <1>2, <3>2, MailFacts, ThreadsDiffer DEF MailTyped
      <4>3. chan'[Miner] = Append(chan[Miner], m.event)
        BY <1>3, <3>2, ThreadsDiffer DEF Domains
      <4>4. /\ Len(chan'[Miner]) = Len(chan[Miner]) + 1 /\ Len(chan[Miner]) \in Nat
            /\ chan'[Miner][Len(chan[Miner]) + 1] = m.event
        BY <4>2, <4>3, AppendProperties, LenProperties
      <4>5. chan'[Miner] # << >>
        BY <4>2, <4>3, AppendProperties
      <4>6. chan'[Miner][Len(chan'[Miner])] = Told(tip)
        BY <4>1, <4>4
      <4> QED BY <2>2, <3>1, <4>5, <4>6 DEF TipTold
    <3>3. CASE m.to # Miner
      <4>1. chan'[Miner] = chan[Miner]
        BY <1>2, <1>3, <3>3, ThreadsDiffer DEF Domains
      <4>2. (\E e \in Elements(out[Consensus]) : e.to = Miner) =>
                \E e \in Elements(out'[Consensus]) : e.to = Miner
        BY <1>1, <1>6, <1>10, <3>3
      <4> QED BY <2>2, <2>3, <3>1, <4>1, <4>2 DEF TipTold
    <3> QED BY <3>2, <3>3
  <2> QED BY <1>4, <1>5, <1>8, <2>1, <2>2, <2>3 DEF Typed
<1> QED BY <1>9, <1>10

\* The consensus thread uses the peers: what it has for the miner is still to send.
LEMMA UseTells ==
    ASSUME MinerInv, UsePeers
    PROVE  /\ Typed'
           /\ job'[Consensus].at # "loading" => TipTold' \/ BlockAbove'
<1> USE DEF MinerInv
<1>0. /\ MailTyped /\ LettersTyped /\ NumbersTyped
      /\ Consensus \in Threads /\ Miner \in Threads
      /\ out[Consensus] \in Seq(Letters[Consensus]) /\ out[Consensus] # << >>
      /\ job[Consensus].at = "sending" /\ Head(out[Consensus]).to # Miner
  BY ThreadsDiffer DEF Typed, LettersTyped, SendersSend, UsePeers
<1>1. /\ Tail(out[Consensus]) \in Seq(Letters[Consensus])
      /\ Elements(out[Consensus]) = {Head(out[Consensus])} \cup Elements(Tail(out[Consensus]))
  BY <1>0, HeadTailElements
<1>2. /\ Sends(Consensus, Tail(out[Consensus]))
      /\ UNCHANGED <<netVars, chan, turn, minerVars, chainVars>>
  BY DEF UsePeers
<1>3. LettersTyped'
  BY <1>0, <1>1, <1>2, Posted
<1>4. /\ out'[Consensus] = Tail(out[Consensus])
      /\ job'[Consensus] = Idle \/ job'[Consensus] = [at |-> "sending"]
  <2>1. out'[Consensus] = Tail(out[Consensus])
    BY <1>0, <1>2, SendsActs
  <2>2. job'[Consensus] = Idle \/ job'[Consensus] = [at |-> "sending"]
    BY <1>0, <1>2, GotoActs DEF Sends
  <2> QED BY <2>1, <2>2
<1>5. job'[Consensus].at # "adding"
  BY <1>4 DEF Idle
<1>6. MailTyped' /\ NumbersTyped'
  BY <1>0, <1>2, <1>5 DEF MailTyped, Mail, NumbersTyped, netVars, minerVars, chainVars
<1>7. tip' = tip /\ target' = target /\ chan'[Miner] = chan[Miner] /\ (BlockAbove => BlockAbove')
  BY <1>2 DEF BlockAbove, minerVars, chainVars
<1>8. TipTold => TipTold'
  BY <1>0, <1>1, <1>4, <1>7 DEF TipTold
<1> QED BY <1>0, <1>3, <1>6, <1>7, <1>8 DEF Typed

\* One step of any thread.
LEMMA MinerStep ==
    ASSUME MinerInv, Inv, Inv', [Next]_vars
    PROVE  MinerInv'
<1>0. Domains' /\ SendersSend' /\ ReadyIsIdle'
  BY DEF Inv
<1>1. ASSUME Typed', MinerKept PROVE MinerInv'
  BY <1>0, <1>1, KeptTold DEF MinerInv
<1>2. ASSUME Typed', job'[Consensus].at # "loading" => TipTold' \/ BlockAbove' PROVE MinerInv'
  BY <1>0, <1>2 DEF MinerInv
<1>3. CASE UNCHANGED vars
  <2>1. Typed' /\ MinerKept
    BY <1>3 DEF vars, MinerInv, Typed, MailTyped, Mail, LettersTyped, Letters, NumbersTyped, netVars,
                minerVars, chainVars, MinerKept
  <2> QED BY <1>1, <2>1
<1>4. CASE PeerMakesBlock
  <2>1. /\ made < MaxBlock /\ made' = made + 1 /\ fetching' = fetching \cup {made + 1}
        /\ UNCHANGED <<refetches, txs, chan, lock, job, out, ready, turn, minerVars, chainVars>>
    BY <1>4 DEF PeerMakesBlock
  <2>2. MaxBlock \in Nat
    BY PipelineAssumption
  <2>3. NumbersTyped'
    BY <2>1, <2>2 DEF MinerInv, Typed, NumbersTyped, minerVars, chainVars
  <2>4. MailTyped' /\ LettersTyped' /\ MinerKept
    BY <2>1 DEF MinerInv, Typed, MailTyped, Mail, LettersTyped, Letters, MinerKept, minerVars
  <2> QED BY <1>1, <2>3, <2>4 DEF Typed
<1>5. CASE \/ RouterTakesTx \/ RouterTakesFetched \/ RouterTakesEvent \/ RouterTimer
           \/ RouterGreets \/ RouterReads \/ Tick(Router)
  BY <1>1, <1>5, RouterTells
<1>6. ASSUME NEW v \in Verifying, VerifierTakes(v) \/ VerifyTx(v) PROVE MinerInv'
  BY <1>1, <1>6, VerifierTells
<1>7. CASE Load \/ ConsensusTakes \/ AddFetched \/ ConsensusTimer \/ BundleBlock \/ Tick(Consensus)
  BY <1>2, <1>7, ConsensusTells
<1>8. CASE MinerTakes \/ Mine \/ Tick(Miner)
  BY <1>2, <1>8, MinerTells
<1>9. ASSUME NEW t \in Threads, Send(t) PROVE MinerInv'
  BY <1>2, <1>9, SendTells
<1>10. CASE UsePeers
  BY <1>2, <1>10, UseTells
<1>11. \A t \in Threads \ Verifying : t \in {Router, Consensus, Miner}
  BY DEF Threads
<1> QED
  BY <1>3, <1>4, <1>5, <1>6, <1>7, <1>8, <1>9, <1>10, <1>11 DEF Next

\* Whatever the batches, the sizes of the channels and the order of the threads, a
\* miner that has heard all the consensus thread had to say works on the tip,
\* unless a block above the tip was queued or refused.
THEOREM MinerFollows == Spec => []MinerOnTip
<1>1. Init => MinerInv
  BY MinerInit
<1>2. MinerInv /\ Inv /\ Inv' /\ [Next]_vars => MinerInv'
  BY MinerStep
<1>3. MinerInv => MinerOnTip
  <2> SUFFICES ASSUME MinerInv, job[Consensus].at # "loading",
                      out[Consensus] = << >>, chan[Miner] = << >>
               PROVE  target = tip \/ \E b \in queued \cup dropped : b > tip
    BY DEF MinerOnTip
  <2>1. Elements(out[Consensus]) = {}
    BY ElementsOfNone
  <2> QED BY <2>1 DEF MinerInv, TipTold, BlockAbove
<1> QED
  BY <1>1, <1>2, <1>3, PipelineInvariant, PTL DEF Spec

=============================================================================
