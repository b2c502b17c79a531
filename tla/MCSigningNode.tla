--------------------------- MODULE MCSigningNode ---------------------------
(* An instance of SigningNode for TLC. *)
EXTENDS SigningNode, TLC

CONSTANTS s1, s2, s3

\* Two signers that can find their quorum among three, and one that cannot.
Thresholds == (s1 :> 2) @@ (s2 :> 2) @@ (s3 :> 3)

\* The signers with the same threshold are interchangeable.
Interchangeable == Permutations({s1, s2})

=============================================================================
