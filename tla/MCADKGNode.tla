----------------------------- MODULE MCADKGNode -----------------------------
(* Instances of ADKGNode for TLC. *)
EXTENDS ADKGNode, TLC

CONSTANTS n1, n2, n3, n4

\* The index of n4 is one that n2, given one node less, deals no share to.
Indices == (n1 :> 1) @@ (n2 :> 2) @@ (n3 :> 3) @@ (n4 :> 4)
Totals  == (n1 :> 4) @@ (n2 :> 3) @@ (n3 :> 4) @@ (n4 :> 4)
Degrees == (n1 :> 2) @@ (n2 :> 1) @@ (n3 :> 1) @@ (n4 :> 1)

\* Polynomials of degree 2 for n1, one of degree 1 for n2, none for the others.
Polynomials ==
    (n1 :> {<<4, 0, 3>>, <<1, 2, 4>>}) @@ (n2 :> {<<2, 3>>}) @@ (n3 :> {}) @@ (n4 :> {})

\* Of every polynomial of degree 2, any three shares verify and give back the
\* secret, the coefficient of degree 0.
ASSUME SharingIsCorrect ==
    \A coeffs \in [1..3 -> Scalar] :
       LET dealt == [i \in 1..(P - 1) |-> EvaluatePolynomial(coeffs, i)]
       IN  /\ \A i \in DOMAIN dealt : VerifyCommitments(i, dealt, GenerateCommitments(coeffs))
           /\ \A S \in kSubset(3, DOMAIN dealt) :
                 ReconstructSecret([i \in S |-> dealt[i]]) = coeffs[1]

=============================================================================
