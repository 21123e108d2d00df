------------------------------- MODULE MCPeers -------------------------------
EXTENDS Peers

CONSTANTS ha, hb, hc, ka

ConfiguredA == <<ha>>

\* ka is another key of the configured host.
KeyHolders == [k \in Keys |-> IF k = ka THEN ha ELSE k]
=============================================================================
