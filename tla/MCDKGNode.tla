----------------------------- MODULE MCDKGNode -----------------------------
(* Instances of DKGNode for TLC. *)
EXTENDS DKGNode, TLC

CONSTANTS n1, n2, n3

\* Two ids that are indices, one that is no number, as peer ids are not.
Ids == (n1 :> 1) @@ (n2 :> 2) @@ (n3 :> NotANumber)

=============================================================================
