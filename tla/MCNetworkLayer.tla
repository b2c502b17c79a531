--------------------------- MODULE MCNetworkLayer ---------------------------
(* Instances of NetworkLayer for TLC. *)
EXTENDS NetworkLayer, TLC

CONSTANTS n1, n2

\* Both nodes have a share dealt to them.
NumericIds == (n1 :> 1) @@ (n2 :> 2)

\* What main.rs passes: base58 peer ids, none of which is a number.
PeerIds == [n \in Nodes |-> NotANumber]

=============================================================================
