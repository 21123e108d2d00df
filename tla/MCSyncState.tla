----------------------------- MODULE MCSyncState -----------------------------
(* Instances of SyncState: a chain 0 <- 1 <- 2 above the known block 0.     *)
EXTENDS SyncState, TLC

MCHashes == 0 .. 2
MCIdOf   == 0 :> 1 @@ 1 :> 2 @@ 2 :> 3
MCParent == 0 :> 0 @@ 1 :> 0 @@ 2 :> 1

TrueHeaders == {[id |-> MCIdOf[h], hash |-> h] : h \in MCHashes \ {0}}

\* One header announces block 1 with a wrong id.
MixedHeaders == TrueHeaders \cup {[id |-> 3, hash |-> 1]}
=============================================================================
