--------------------------- MODULE SecretSharing ----------------------------
(***************************************************************************)
(* The arithmetic of the ADKG prototype, src/src/adkg_layer.bkp.rs: secret *)
(* sharing with Feldman's commitments.  The field of bls12_381's scalars   *)
(* is abstracted to the integers modulo a small prime and its group, which *)
(* has the same order, to their additive group: an element is written by   *)
(* its discrete logarithm to a base that is not the generator.             *)
(***************************************************************************)
EXTENDS Integers, Sequences, FiniteSetsExt

CONSTANTS
    P,           \* the order of the field and of the group
    Generator    \* G1Projective::generator

ASSUME FieldAssumption ==
    /\ P \in Nat /\ P > 2
    /\ \A d \in 2..(P - 1) : P % d # 0
    /\ Generator \in 1..(P - 1)

Scalar == 0..(P - 1)

\* Scalar::invert, of a nonzero scalar.
Invert(x) == CHOOSE y \in Scalar : (x * y) % P = 1

\* The sum and the product of the values of a function.
SumOf(f)     == SumFunction(f) % P
ProductOf(f) == FoldFunction(LAMBDA x, y : (x * y) % P, 1, f)

\* Scalar::pow; the zeroth power of zero is one.
Power(x, k) == ProductOf([j \in 1..k |-> x])

\* evaluate_polynomial: the coefficient at position j is that of x^(j-1).
EvaluatePolynomial(coeffs, i) ==
    SumOf([j \in DOMAIN coeffs |-> coeffs[j] * Power(i % P, j - 1)])

GenerateCommitments(coeffs) == [j \in DOMAIN coeffs |-> (Generator * coeffs[j]) % P]

\* verify_commitments, of the share at position idx of the shares dealt.
VerifyCommitments(idx, shares, commitments) ==
    /\ idx \in DOMAIN shares
    /\ SumOf([j \in DOMAIN commitments |-> commitments[j] * Power(idx % P, j - 1)])
          = (Generator * shares[idx]) % P

\* Mutant: the difference the other way round.
ReconstructSecretSwapped(points) ==
    SumOf([i \in DOMAIN points |->
       points[i] * ProductOf([j \in DOMAIN points \ {i} |-> j * Invert((i - j) % P)])])

\* reconstruct_secret: interpolation at zero of the shares by their indices.
ReconstructSecret(points) ==
    SumOf([i \in DOMAIN points |->
       points[i] * ProductOf([j \in DOMAIN points \ {i} |-> j * Invert((j - i) % P)])])

=============================================================================
