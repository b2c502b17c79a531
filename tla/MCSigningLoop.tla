--------------------------- MODULE MCSigningLoop ---------------------------
(* An instance of SigningLoop for TLC. *)
EXTENDS SigningLoop, TLC

CONSTANTS s1, s2, s3

\* Every signer would find its quorum in the other two.
Thresholds == [n \in Signers |-> 2]

=============================================================================
