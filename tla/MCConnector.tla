----------------------------- MODULE MCConnector -----------------------------
\* Instances of Connector for TLC.
EXTENDS Connector, TLC

CONSTANTS alice, bob, carol

\* The node with the smaller name keeps its offer when two call each other.
TwoNames == (alice :> 1) @@ (bob :> 2)
ThreeNames == TwoNames @@ (carol :> 3)
=============================================================================
