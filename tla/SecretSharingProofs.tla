------------------------- MODULE SecretSharingProofs -------------------------
(***************************************************************************)
(* What the arithmetic of SecretSharing computes, for every prime P and    *)
(* every polynomial: the shares of a dealer verify against its             *)
(* commitments, and as many of them as it has coefficients give back its   *)
(* secret.                                                                 *)
(*                                                                         *)
(* Induction is by minimal elements: of the naturals, or of the subsets of *)
(* a finite set, outside a set that is claimed to hold them all.           *)
(***************************************************************************)
EXTENDS SecretSharing, FiniteSetTheorems, TLAPS

----------------------------------------------------------------------------
(* Induction. *)

\* A set with zero and the successors of its members has every natural number.
LEMMA NaturalsBySuccessor ==
    ASSUME NEW C, 0 \in C, \A k \in Nat : k \in C => k + 1 \in C
    PROVE  \A k \in Nat : k \in C
  <1>. DEFINE R == OpToRel(<, Nat)
              B == Nat \ C
  <1>1. IsWellFoundedOn(R, Nat)
    BY NatLessThanWellFounded
  <1>2. SUFFICES ASSUME B # {} PROVE FALSE
    OBVIOUS
  <1>3. PICK k \in B : \A j \in B : <<j, k>> \notin R
    <2>. HIDE DEF R, B
    <2>1. B \subseteq Nat
      BY DEF B
    <2>. QED
      BY <1>1, <1>2, <2>1, WFMin
  <1>4. \A j \in B : ~(j < k)
    BY <1>3 DEF OpToRel
  <1>5. k # 0 /\ k \in Nat /\ k \notin C
    BY <1>3
  <1>6. k - 1 \in Nat /\ k - 1 < k /\ (k - 1) + 1 = k
    BY <1>5
  <1>7. k - 1 \in C
    BY <1>4, <1>6
  <1>. QED
    BY <1>5, <1>6, <1>7

\* A set that has a subset of S once it has all smaller ones has every subset.
LEMMA SubsetsBySmaller ==
    ASSUME NEW S, IsFiniteSet(S), NEW C,
           \A U \in SUBSET S : (\A V \in SUBSET U : V # U => V \in C) => U \in C
    PROVE  \A U \in SUBSET S : U \in C
  <1>. DEFINE R == StrictSubsetOrdering(S)
              B == (SUBSET S) \ C
  <1>1. IsWellFoundedOn(R, SUBSET S)
    BY FS_StrictSubsetOrderingWellFounded, FS_FiniteSubsetsOfFinite, Zenon
  <1>2. SUFFICES ASSUME B # {} PROVE FALSE
    OBVIOUS
  <1>3. PICK U \in B : \A V \in B : <<V, U>> \notin R
    <2>. HIDE DEF R, B
    <2>1. B \subseteq SUBSET S
      BY DEF B
    <2>. QED
      BY <1>1, <1>2, <2>1, WFMin
  <1>4. \A V \in B : V \subseteq U => V = U
    BY <1>3 DEF StrictSubsetOrdering
  <1>. QED
    BY <1>3, <1>4

----------------------------------------------------------------------------
(* Arithmetic modulo P. *)

a \cong b == a % P = b % P

LEMMA ScalarType ==
    /\ P \in Nat /\ P > 2
    /\ \A x \in Scalar : x \in Int /\ 0 <= x /\ x < P
    /\ \A a \in Int : a % P \in Scalar
    /\ 0 \in Scalar /\ 1 \in Scalar
  BY FieldAssumption DEF Scalar

LEMMA Division == \A a \in Int : \E q \in Int : a = q * P + (a % P)
  <1>. SUFFICES ASSUME NEW a \in Int
                PROVE  \E q \in Int : a = q * P + (a % P)
    OBVIOUS
  <1>1. a \div P \in Int /\ a = (a \div P) * P + (a % P)
    BY ScalarType
  <1>. QED
    BY <1>1

\* The remainder is unique.
LEMMA Remainder ==
    ASSUME NEW a \in Int, NEW q \in Int, NEW r \in Scalar, a = q * P + r
    PROVE  a % P = r
  <1>1. PICK k \in Int : a = k * P + (a % P)
    BY Division
  <1>. DEFINE m == a % P
  <1>2. /\ m \in Int /\ m >= 0 /\ m < P
        /\ r \in Int /\ r >= 0 /\ r < P
        /\ P \in Int /\ P > 0
        /\ a = k * P + m
    BY <1>1, ScalarType
  <1>. HIDE DEF m
  <1>3. (k - q) * P = r - m
    BY <1>2
  <1>4. k - q = 0
    <2>1. CASE k - q >= 1
      <3>1. (k - q) * P >= P
        BY <1>2, <2>1
      <3>. QED
        BY <1>2, <1>3, <3>1
    <2>2. CASE k - q <= -1
      <3>1. (k - q) * P <= -P
        BY <1>2, <2>2
      <3>. QED
        BY <1>2, <1>3, <3>1
    <2>. QED
      BY <2>1, <2>2
  <1>5. k = q
    BY <1>4
  <1>. QED
    BY <1>2, <1>5 DEF m

\* Congruent integers differ by a multiple of P.
LEMMA CongruentIff ==
    ASSUME NEW a \in Int, NEW b \in Int
    PROVE  a \cong b <=> \E q \in Int : a = b + q * P
  <1>1. ASSUME a \cong b PROVE \E q \in Int : a = b + q * P
    <2>1. PICK k \in Int : a = k * P + (a % P)
      BY Division
    <2>2. PICK l \in Int : b = l * P + (b % P)
      BY Division
    <2>3. a % P = b % P /\ a % P \in Int /\ P \in Int
      BY <1>1, ScalarType DEF \cong
    <2>4. a = b + (k - l) * P
      BY <2>1, <2>2, <2>3
    <2>. QED
      BY <2>4
  <1>2. ASSUME NEW q \in Int, a = b + q * P PROVE a \cong b
    <2>1. PICK l \in Int : b = l * P + (b % P)
      BY Division
    <2>2. b % P \in Scalar /\ b % P \in Int /\ P \in Int
      <3>1. b % P \in Scalar
        BY ScalarType
      <3>. QED
        BY <3>1, ScalarType
    <2>3. a = (l + q) * P + (b % P) /\ l + q \in Int
      BY <1>2, <2>1, <2>2
    <2>4. a % P = b % P
      BY <2>2, <2>3, Remainder
    <2>. QED
      BY <2>4 DEF \cong
  <1>. QED
    BY <1>1, <1>2

\* Congruence is kept by sums, differences and products.
LEMMA CongruentOps ==
    ASSUME NEW a \in Int, NEW b \in Int, NEW c \in Int, NEW d \in Int,
           a \cong b, c \cong d
    PROVE  a + c \cong b + d /\ a - c \cong b - d /\ a * c \cong b * d
  <1>1. PICK q \in Int : a = b + q * P
    BY CongruentIff
  <1>2. PICK r \in Int : c = d + r * P
    BY CongruentIff
  <1>3. P \in Int
    BY ScalarType
  <1>4. /\ a + c \in Int /\ b + d \in Int /\ q + r \in Int
        /\ a + c = (b + d) + (q + r) * P
    BY <1>1, <1>2, <1>3
  <1>5. /\ a - c \in Int /\ b - d \in Int /\ q - r \in Int
        /\ a - c = (b - d) + (q - r) * P
    BY <1>1, <1>2, <1>3
  <1>6. /\ a * c \in Int /\ b * d \in Int /\ b * r + q * d + q * r * P \in Int
        /\ a * c = b * d + (b * r + q * d + q * r * P) * P
    BY <1>1, <1>2, <1>3
  <1>. QED
    BY <1>4, <1>5, <1>6, CongruentIff

LEMMA CongruentBasics ==
    /\ \A a \in Int : a % P \in Int /\ a % P \cong a
    /\ \A a, b \in Int : a \cong b => b \cong a
    /\ \A a, b, c \in Int : a \cong b /\ b \cong c => a \cong c
    /\ \A a, b \in Scalar : a \cong b => a = b
    /\ \A a \in Scalar : a % P = a
  <1>1. \A a \in Scalar : a % P = a
    <2>. SUFFICES ASSUME NEW a \in Scalar PROVE a % P = a
      OBVIOUS
    <2>1. a \in Int /\ P \in Int
      BY ScalarType
    <2>2. 0 \in Int /\ a = 0 * P + a
      BY <2>1
    <2>. QED
      BY <2>1, <2>2, Remainder, Zenon
  <1>2. \A a \in Int : a % P \in Scalar /\ a % P \in Int
    BY ScalarType
  <1>3. \A a \in Int : (a % P) % P = a % P
    BY <1>1, <1>2
  <1>. QED
    BY <1>1, <1>2, <1>3 DEF \cong

LEMMA ProductModulo ==
    \A a, b \in Int : (a * (b % P)) % P = (a * b) % P
  <1>. SUFFICES ASSUME NEW a \in Int, NEW b \in Int
                PROVE  (a * (b % P)) % P = (a * b) % P
    OBVIOUS
  <1>1. b % P \in Int /\ b % P \cong b /\ a \cong a
    BY CongruentBasics DEF \cong
  <1>2. a * (b % P) \cong a * b
    BY <1>1, CongruentOps
  <1>. QED
    BY <1>2 DEF \cong

----------------------------------------------------------------------------
(* P is prime: every scalar but zero has an inverse. *)

\* A multiple of P has a factor that is one.
LEMMA NoZeroDivisors ==
    ASSUME NEW a \in 1..(P - 1), NEW b \in 1..(P - 1)
    PROVE  ~(a * b \cong 0)
  <1>. DEFINE B == {x \in 1..P : (a * x) % P = 0}
  <1>0. /\ P \in Int /\ P > 2 /\ a \in Int /\ a >= 1 /\ a < P /\ b \in Int /\ b >= 1 /\ b < P
        /\ 0 % P = 0
    BY ScalarType, CongruentBasics
  <1>1. SUFFICES ASSUME (a * b) % P = 0 PROVE FALSE
    BY <1>0 DEF \cong
  <1>2. b \in B
    BY <1>0, <1>1
  <1>3. PICK m \in B : \A x \in B : m <= x
    <2>. DEFINE C == {k \in Nat : \A x \in B : k <= x}
    <2>1. 0 \in C
      BY <1>0
    <2>2. b + 1 \notin C
      BY <1>0, <1>2
    <2>3. PICK k \in Nat : k \in C /\ k + 1 \notin C
      <3>. SUFFICES ASSUME \A k \in Nat : k \in C => k + 1 \in C
                    PROVE  FALSE
        OBVIOUS
      <3>1. b + 1 \in Nat
        BY <1>0
      <3>. HIDE DEF C
      <3>2. \A k \in Nat : k \in C
        BY <2>1, NaturalsBySuccessor
      <3>. QED
        BY <2>2, <3>1, <3>2
    <2>4. PICK x \in B : ~(k + 1 <= x)
      BY <2>3
    <2>5. x = k
      BY <2>3, <2>4
    <2>. QED
      BY <2>3, <2>5
  <1>4. m \in Int /\ 1 <= m /\ m <= b /\ m < P /\ (a * m) % P = 0
    BY <1>0, <1>2, <1>3
  <1>. DEFINE r == P % m   q == P \div m
  <1>5. r \in Int /\ q \in Int /\ 0 <= r /\ r < m /\ P = q * m + r
    BY <1>0, <1>4
  <1>. HIDE DEF r, q
  <1>6. PICK k \in Int : a * m = k * P
    <2>1. a * m \in Int
      BY <1>0, <1>4
    <2>2. PICK k \in Int : a * m = k * P + ((a * m) % P)
      BY <2>1, Division
    <2>. QED
      BY <1>0, <1>4, <2>2
  <1>7. r = 0
    <2>1. a * r = (a - q * k) * P /\ a - q * k \in Int
      <3>1. a * P = q * (a * m) + a * r
        BY <1>0, <1>4, <1>5
      <3>2. q * (a * m) = q * k * P
        BY <1>0, <1>5, <1>6
      <3>. QED
        BY <1>0, <1>5, <1>6, <3>1, <3>2
    <2>2. a * r \in Int /\ 0 \in Scalar /\ a * r = (a - q * k) * P + 0
      BY <1>0, <1>5, <2>1, ScalarType
    <2>3. (a * r) % P = 0
      BY <2>1, <2>2, Remainder
    <2>4. r # 0 => r \in B
      BY <1>0, <1>4, <1>5, <2>3
    <2>. QED
      BY <1>3, <1>4, <1>5, <2>4
  <1>8. P % m = 0
    BY <1>7 DEF r
  <1>9. m = 1
    <2>1. m \notin 2..(P - 1)
      BY <1>8, FieldAssumption
    <2>. QED
      BY <1>0, <1>4, <2>1
  <1>10. a % P = 0
    BY <1>0, <1>4, <1>9
  <1>11. a % P = a
    BY <1>0, CongruentBasics DEF Scalar
  <1>. QED
    BY <1>0, <1>10, <1>11

\* Multiplication by a scalar that is not zero is onto, so it reaches one.
LEMMA InvertInverts ==
    ASSUME NEW x \in Int, ~(x \cong 0)
    PROVE  Invert(x % P) \in Scalar /\ x * Invert(x % P) \cong 1
  <1>. DEFINE a == x % P
              f == [y \in Scalar |-> (a * y) % P]
  <1>1. a \in 1..(P - 1) /\ a \in Int /\ P \in Int /\ 0 % P = 0
    <2>1. 0 % P = 0 /\ a \in Scalar
      BY ScalarType, CongruentBasics
    <2>2. a # 0
      BY <2>1 DEF \cong
    <2>. QED
      BY <2>1, <2>2, ScalarType DEF Scalar
  <1>. HIDE DEF a
  <1>2. f \in [Scalar -> Scalar]
    BY <1>1, ScalarType
  <1>3. ASSUME NEW y \in Scalar, NEW z \in Scalar, f[y] = f[z], y > z
        PROVE  FALSE
    <2>1. y - z \in 1..(P - 1) /\ y \in Int /\ z \in Int
      BY <1>1, <1>3, ScalarType DEF Scalar
    <2>2. a * y \in Int /\ a * z \in Int /\ a * y \cong a * z /\ a * z \cong a * z
      BY <1>1, <1>3, <2>1 DEF \cong
    <2>3. a * y - a * z \cong a * z - a * z
      BY <2>2, CongruentOps
    <2>4. a * y - a * z = a * (y - z) /\ a * z - a * z = 0
      BY <1>1, <2>1
    <2>. QED
      BY <1>1, <2>1, <2>3, <2>4, NoZeroDivisors
  <1>4. f \in Injection(Scalar, Scalar)
    <2>1. \A y, z \in Scalar : f[y] = f[z] => y = z
      <3>1. \A y, z \in Scalar : y > z \/ z > y \/ y = z
        BY ScalarType
      <3>. HIDE DEF f
      <3>. QED
        BY <1>3, <3>1
    <2>. HIDE DEF f
    <2>. QED
      BY <1>2, <2>1 DEF Injection, IsInjective
  <1>5. f \in Surjection(Scalar, Scalar)
    <2>1. IsFiniteSet(Scalar)
      BY <1>1, FS_Interval DEF Scalar
    <2>. HIDE DEF f
    <2>. QED
      BY <1>4, <2>1, FS_Injection
  <1>6. PICK y \in Scalar : f[y] = 1
    <2>. HIDE DEF f
    <2>. QED
      BY <1>5, ScalarType DEF Surjection
  <1>7. Invert(a) \in Scalar /\ (a * Invert(a)) % P = 1
    BY <1>6 DEF Invert
  <1>8. a * Invert(a) \cong 1 /\ a \cong x
    BY <1>1, <1>7, CongruentBasics, ScalarType DEF \cong, a
  <1>9. a * Invert(a) \cong x * Invert(a)
    <2>1. Invert(a) \in Int /\ Invert(a) \cong Invert(a)
      BY <1>7, ScalarType DEF \cong
    <2>. QED
      BY <1>1, <1>8, <2>1, CongruentOps
  <1>. QED
    BY <1>7, <1>8, <1>9 DEF a, \cong

----------------------------------------------------------------------------
(* Folds: op is a function of an element of S and the rest of the fold. *)

Pick(s) == CHOOSE x \in s : TRUE

IsFold(it, S, M, base, op) ==
    /\ it \in [SUBSET S -> M]
    /\ it[{}] = base
    /\ \A s \in SUBSET S : s # {} => it[s] = op[<<Pick(s), it[s \ {Pick(s)}]>>]

\* The equation of a fold over a finite set has a solution.
LEMMA FoldExists ==
    ASSUME NEW S, IsFiniteSet(S), NEW M, NEW base \in M, NEW op \in [S \X M -> M]
    PROVE  \E it : IsFold(it, S, M, base, op)
  <1>. DEFINE Upto(it, k) == \A s \in SUBSET S : s # {} /\ Cardinality(s) <= k =>
                                it[s] = op[<<Pick(s), it[s \ {Pick(s)}]>>]
              C == {k \in Nat : \E it \in [SUBSET S -> M] : it[{}] = base /\ Upto(it, k)}
  <1>0. \A s \in SUBSET S : /\ IsFiniteSet(s)
                            /\ Cardinality(s) \in Nat
                            /\ Cardinality(s) = 0 <=> s = {}
    BY FS_Subset, FS_CardinalityType, FS_EmptySet
  <1>1. \A s \in SUBSET S : s # {} =>
           /\ Pick(s) \in s
           /\ s \ {Pick(s)} \in SUBSET S
           /\ Cardinality(s \ {Pick(s)}) = Cardinality(s) - 1
    BY <1>0, FS_RemoveElement DEF Pick
  <1>2. 0 \in C
    <2>. DEFINE it == [s \in SUBSET S |-> base]
    <2>1. it \in [SUBSET S -> M] /\ it[{}] = base
      OBVIOUS
    <2>2. Upto(it, 0)
      BY <1>0
    <2>. QED
      BY <2>1, <2>2
  <1>3. ASSUME NEW k \in Nat, k \in C PROVE k + 1 \in C
    <2>1. PICK it \in [SUBSET S -> M] : it[{}] = base /\ Upto(it, k)
      BY <1>3
    <2>. DEFINE jt == [s \in SUBSET S |-> IF Cardinality(s) <= k THEN it[s]
                                          ELSE op[<<Pick(s), it[s \ {Pick(s)}]>>]]
    <2>2. jt \in [SUBSET S -> M]
      <3>1. ASSUME NEW s \in SUBSET S PROVE jt[s] \in M
        <4>1. CASE Cardinality(s) <= k
          BY <4>1
        <4>2. CASE ~(Cardinality(s) <= k)
          <5>1. s # {}
            BY <4>2, <1>0
          <5>2. Pick(s) \in S /\ it[s \ {Pick(s)}] \in M
            BY <5>1, <1>1
          <5>. QED
            BY <4>2, <5>2
        <4>. QED
          BY <4>1, <4>2
      <3>. QED
        BY <3>1
    <2>3. jt[{}] = base
      BY <2>1, <1>0
    <2>4. Upto(jt, k + 1)
      <3>. SUFFICES ASSUME NEW s \in SUBSET S, s # {}, Cardinality(s) <= k + 1
                    PROVE  jt[s] = op[<<Pick(s), jt[s \ {Pick(s)}]>>]
        OBVIOUS
      <3>1. /\ s \ {Pick(s)} \in SUBSET S
            /\ Cardinality(s) \in Nat
            /\ Cardinality(s \ {Pick(s)}) = Cardinality(s) - 1
        BY <1>0, <1>1
      <3>2. jt[s \ {Pick(s)}] = it[s \ {Pick(s)}]
        BY <3>1
      <3>3. jt[s] = op[<<Pick(s), it[s \ {Pick(s)}]>>]
        BY <2>1
      <3>. QED
        BY <3>2, <3>3
    <2>5. k + 1 \in Nat
      OBVIOUS
    <2>. HIDE DEF jt, Upto
    <2>. QED
      BY <2>2, <2>3, <2>4, <2>5
  <1>4. Cardinality(S) \in C
    <2>. HIDE DEF C
    <2>. QED
      BY <1>0, <1>2, <1>3, NaturalsBySuccessor
  <1>5. PICK it \in [SUBSET S -> M] : it[{}] = base /\ Upto(it, Cardinality(S))
    BY <1>4
  <1>6. \A s \in SUBSET S : Cardinality(s) <= Cardinality(S)
    BY FS_Subset
  <1>. QED
    BY <1>5, <1>6 DEF IsFold

\* Whatever satisfies the equation of a fold is one.
LEMMA FoldDetermined ==
    ASSUME NEW S, IsFiniteSet(S), NEW M, NEW base \in M, NEW op \in [S \X M -> M], NEW it,
           it = [s \in SUBSET S |-> it[s]], it[{}] = base,
           \A s \in SUBSET S : s # {} /\ it[s \ {Pick(s)}] \in M =>
              it[s] = op[<<Pick(s), it[s \ {Pick(s)}]>>]
    PROVE  IsFold(it, S, M, base, op)
  <1>. DEFINE C == {s \in SUBSET S : it[s] \in M}
  <1>1. ASSUME NEW s \in SUBSET S, \A v \in SUBSET s : v # s => v \in C
        PROVE  s \in C
    <2>1. CASE s = {}
      BY <2>1
    <2>2. CASE s # {}
      <3>1. Pick(s) \in s /\ s \ {Pick(s)} \in SUBSET s /\ s \ {Pick(s)} # s
        BY <2>2 DEF Pick
      <3>2. it[s \ {Pick(s)}] \in M
        BY <1>1, <3>1
      <3>3. it[s] = op[<<Pick(s), it[s \ {Pick(s)}]>>]
        BY <2>2, <3>2
      <3>. QED
        BY <3>1, <3>2, <3>3
    <2>. QED
      BY <2>1, <2>2
  <1>. HIDE DEF C
  <1>2. \A s \in SUBSET S : s \in C
    BY <1>1, SubsetsBySmaller
  <1>3. \A s \in SUBSET S : it[s] \in M
    BY <1>2 DEF C
  <1>4. it \in [SUBSET S -> M]
    BY <1>3
  <1>5. \A s \in SUBSET S : s # {} => s \ {Pick(s)} \in SUBSET S
    OBVIOUS
  <1>. QED
    BY <1>3, <1>4, <1>5 DEF IsFold

\* Folds of functions that agree on a set agree there.
LEMMA FoldsAgree ==
    ASSUME NEW S1, NEW S2, NEW M, NEW base, NEW op1, NEW op2, NEW it1, NEW it2,
           IsFold(it1, S1, M, base, op1), IsFold(it2, S2, M, base, op2),
           NEW S, IsFiniteSet(S), S \subseteq S1, S \subseteq S2,
           \A x \in S, m \in M : op1[<<x, m>>] = op2[<<x, m>>]
    PROVE  it1[S] = it2[S]
  <1>. DEFINE C == {s \in SUBSET S : it1[s] = it2[s]}
  <1>1. ASSUME NEW s \in SUBSET S, \A v \in SUBSET s : v # s => v \in C
        PROVE  s \in C
    <2>1. CASE s = {}
      BY <2>1 DEF IsFold
    <2>2. CASE s # {}
      <3>1. Pick(s) \in s /\ s \ {Pick(s)} \in SUBSET s /\ s \ {Pick(s)} # s
        BY <2>2 DEF Pick
      <3>2. it1[s \ {Pick(s)}] = it2[s \ {Pick(s)}]
        BY <1>1, <3>1
      <3>3. /\ it1[s] = op1[<<Pick(s), it1[s \ {Pick(s)}]>>]
            /\ it2[s] = op2[<<Pick(s), it2[s \ {Pick(s)}]>>]
            /\ it1[s \ {Pick(s)}] \in M
        BY <2>2, <3>1 DEF IsFold
      <3>. QED
        BY <3>1, <3>2, <3>3
    <2>. QED
      BY <2>1, <2>2
  <1>. HIDE DEF C
  <1>2. S \in C
    BY <1>1, SubsetsBySmaller
  <1>. QED
    BY <1>2 DEF C

IsFreeFold(it, S, M, base, op) ==
    /\ IsFold(it, S, M, base, op)
    /\ op \in [S \X M -> M]
    /\ \A x, y \in S, m \in M : op[<<x, op[<<y, m>>]>>] = op[<<y, op[<<x, m>>]>>]

\* When the order of two elements does not matter, any may come first.
LEMMA FoldAnyFirst ==
    ASSUME NEW S, IsFiniteSet(S), NEW M, NEW base, NEW op, NEW it,
           IsFreeFold(it, S, M, base, op)
    PROVE  \A z \in S : it[S] = op[<<z, it[S \ {z}]>>]
  <1>. DEFINE C == {s \in SUBSET S : \A x \in s : it[s] = op[<<x, it[s \ {x}]>>]}
  <1>1. ASSUME NEW s \in SUBSET S, \A v \in SUBSET s : v # s => v \in C
        PROVE  s \in C
    <2>. SUFFICES ASSUME NEW x \in s
                  PROVE  it[s] = op[<<x, it[s \ {x}]>>]
      OBVIOUS
    <2>. DEFINE c == Pick(s)
    <2>1. c \in s /\ it[s] = op[<<c, it[s \ {c}]>>]
      BY DEF IsFreeFold, IsFold, Pick
    <2>2. CASE x = c
      BY <2>1, <2>2
    <2>3. CASE x # c
      <3>. HIDE DEF c
      <3>1. it[s \ {c}] = op[<<x, it[(s \ {c}) \ {x}]>>]
        <4>1. s \ {c} \in C /\ x \in s \ {c}
          BY <1>1, <2>1, <2>3
        <4>. QED
          BY <4>1
      <3>2. it[s \ {x}] = op[<<c, it[(s \ {x}) \ {c}]>>]
        <4>1. s \ {x} \in C /\ c \in s \ {x}
          BY <1>1, <2>1, <2>3
        <4>. QED
          BY <4>1
      <3>3. (s \ {c}) \ {x} = (s \ {x}) \ {c}
        OBVIOUS
      <3>4. it[(s \ {x}) \ {c}] \in M
        BY DEF IsFreeFold, IsFold
      <3>5. op[<<c, op[<<x, it[(s \ {x}) \ {c}]>>]>>] = op[<<x, op[<<c, it[(s \ {x}) \ {c}]>>]>>]
        BY <2>1, <3>4 DEF IsFreeFold
      <3>. HIDE DEF C
      <3>. QED
        BY <2>1, <3>1, <3>2, <3>3, <3>5
    <2>. QED
      BY <2>2, <2>3
  <1>. HIDE DEF C
  <1>2. S \in C
    BY <1>1, SubsetsBySmaller
  <1>. QED
    BY <1>2 DEF C

----------------------------------------------------------------------------
(* Sums of integers and products modulo P. *)

Without(f, x) == [y \in DOMAIN f \ {x} |-> f[y]]

SumStep(f, S)     == [p \in S \X Int |-> f[p[1]] + p[2]]
ProductStep(f, S) == [p \in S \X Scalar |-> (f[p[1]] * p[2]) % P]

\* A sum is a fold.
LEMMA SumFolds ==
    ASSUME NEW S, IsFiniteSet(S), NEW f \in [S -> Int]
    PROVE  \E it : IsFold(it, S, Int, 0, SumStep(f, S)) /\ SumFunction(f) = it[S]
  <1>. DEFINE Recursion(it) == it = [s \in SUBSET S |-> IF s = {} THEN 0 ELSE f[Pick(s)] + it[s \ {Pick(s)}]]
  <1>1. SumFunction(f) = (CHOOSE it : Recursion(it))[S]
    BY DEF SumFunction, SumFunctionOnSet, FoldFunctionOnSet, MapThenFoldSet, Pick
  <1>2. SumStep(f, S) \in [S \X Int -> Int]
    BY DEF SumStep
  <1>3. PICK jt : IsFold(jt, S, Int, 0, SumStep(f, S))
    <2>1. 0 \in Int
      OBVIOUS
    <2>. QED
      BY <1>2, <2>1, FoldExists, Zenon
  <1>4. \A s \in SUBSET S : s # {} => Pick(s) \in S /\ s \ {Pick(s)} \in SUBSET S
    BY DEF Pick
  <1>5. Recursion(jt)
    <2>1. jt \in [SUBSET S -> Int] /\ jt[{}] = 0
      BY <1>3 DEF IsFold
    <2>2. ASSUME NEW s \in SUBSET S, s # {}
          PROVE  jt[s] = f[Pick(s)] + jt[s \ {Pick(s)}]
      <3>1. jt[s] = SumStep(f, S)[<<Pick(s), jt[s \ {Pick(s)}]>>]
        BY <1>3, <2>2 DEF IsFold
      <3>2. Pick(s) \in S /\ jt[s \ {Pick(s)}] \in Int
        BY <1>4, <2>1, <2>2
      <3>. QED
        BY <3>1, <3>2 DEF SumStep
    <2>. QED
      BY <2>1, <2>2
  <1>. DEFINE it == CHOOSE it : Recursion(it)
  <1>6. Recursion(it)
    BY <1>5
  <1>. HIDE DEF it
  <1>7. IsFold(it, S, Int, 0, SumStep(f, S))
    <2>1. it = [s \in SUBSET S |-> it[s]] /\ it[{}] = 0
      BY <1>6
    <2>2. ASSUME NEW s \in SUBSET S, s # {}, it[s \ {Pick(s)}] \in Int
          PROVE  it[s] = SumStep(f, S)[<<Pick(s), it[s \ {Pick(s)}]>>]
      <3>1. it[s] = f[Pick(s)] + it[s \ {Pick(s)}]
        BY <1>6, <2>2
      <3>. QED
        BY <1>4, <2>2, <3>1 DEF SumStep
    <2>3. 0 \in Int
      OBVIOUS
    <2>. HIDE DEF Recursion
    <2>. QED
      BY <1>2, <2>1, <2>2, <2>3, FoldDetermined
  <1>. QED
    BY <1>1, <1>7 DEF it

\* The sum over an empty set, and an element split off.
LEMMA SumSplit ==
    ASSUME NEW S, IsFiniteSet(S), NEW f \in [S -> Int]
    PROVE  /\ SumFunction(f) \in Int
           /\ S = {} => SumFunction(f) = 0
           /\ \A x \in S : SumFunction(f) = f[x] + SumFunction(Without(f, x))
  <1>1. PICK it : IsFold(it, S, Int, 0, SumStep(f, S)) /\ SumFunction(f) = it[S]
    BY SumFolds
  <1>2. SumFunction(f) \in Int /\ (S = {} => SumFunction(f) = 0)
    BY <1>1 DEF IsFold
  <1>3. ASSUME NEW x \in S
        PROVE  SumFunction(f) = f[x] + SumFunction(Without(f, x))
    <2>. DEFINE R == S \ {x}
                g == Without(f, x)
    <2>1. R \subseteq S /\ IsFiniteSet(R) /\ g \in [R -> Int] /\ \A y \in R : g[y] = f[y]
      BY FS_RemoveElement DEF Without
    <2>. HIDE DEF R, g
    <2>2. PICK jt : IsFold(jt, R, Int, 0, SumStep(g, R)) /\ SumFunction(g) = jt[R]
      BY <2>1, SumFolds
    <2>3. it[R] = jt[R]
      <3>1. \A y \in R, m \in Int : SumStep(f, S)[<<y, m>>] = SumStep(g, R)[<<y, m>>]
        BY <2>1 DEF SumStep
      <3>. QED
        BY <1>1, <2>1, <2>2, <3>1, FoldsAgree
    <2>4. it[S] = SumStep(f, S)[<<x, it[R]>>]
      <3>1. SumStep(f, S) \in [S \X Int -> Int]
        BY DEF SumStep
      <3>2. ASSUME NEW y \in S, NEW z \in S, NEW m \in Int
            PROVE  SumStep(f, S)[<<y, SumStep(f, S)[<<z, m>>]>>]
                     = SumStep(f, S)[<<z, SumStep(f, S)[<<y, m>>]>>]
        <4>1. SumStep(f, S)[<<z, m>>] = f[z] + m /\ SumStep(f, S)[<<y, m>>] = f[y] + m
          BY DEF SumStep
        <4>2. f[z] + m \in Int /\ f[y] + m \in Int
          OBVIOUS
        <4>3. /\ SumStep(f, S)[<<y, f[z] + m>>] = f[y] + (f[z] + m)
              /\ SumStep(f, S)[<<z, f[y] + m>>] = f[z] + (f[y] + m)
          BY <4>2 DEF SumStep
        <4>. QED
          BY <4>1, <4>3
      <3>3. IsFreeFold(it, S, Int, 0, SumStep(f, S))
        BY <1>1, <3>1, <3>2 DEF IsFreeFold
      <3>4. it[S] = SumStep(f, S)[<<x, it[S \ {x}]>>]
        BY <3>3, FoldAnyFirst
      <3>. QED
        BY <3>4 DEF R
    <2>5. it[R] \in Int
      BY <1>1, <2>1 DEF IsFold
    <2>. QED
      BY <1>1, <2>2, <2>3, <2>4, <2>5 DEF SumStep, g
  <1>. QED
    BY <1>2, <1>3

LEMMA ProductStepType ==
    ASSUME NEW S, NEW f \in [S -> Int]
    PROVE  ProductStep(f, S) \in [S \X Scalar -> Scalar]
  <1>1. ASSUME NEW p \in S \X Scalar
        PROVE  (f[p[1]] * p[2]) % P \in Scalar
    <2>1. f[p[1]] \in Int /\ p[2] \in Int
      BY ScalarType
    <2>2. f[p[1]] * p[2] \in Int
      BY <2>1
    <2>. QED
      BY <2>2, ScalarType
  <1>. QED
    BY <1>1 DEF ProductStep

\* A product is a fold.
LEMMA ProductFolds ==
    ASSUME NEW S, IsFiniteSet(S), NEW f \in [S -> Int]
    PROVE  \E it : IsFold(it, S, Scalar, 1, ProductStep(f, S)) /\ ProductOf(f) = it[S]
  <1>. DEFINE Recursion(it) == it = [s \in SUBSET S |-> IF s = {} THEN 1
                                                    ELSE (f[Pick(s)] * it[s \ {Pick(s)}]) % P]
  <1>1. ProductOf(f) = (CHOOSE it : Recursion(it))[S]
    BY DEF ProductOf, FoldFunction, FoldFunctionOnSet, MapThenFoldSet, Pick
  <1>2. ProductStep(f, S) \in [S \X Scalar -> Scalar]
    BY ProductStepType
  <1>3. PICK jt : IsFold(jt, S, Scalar, 1, ProductStep(f, S))
    <2>1. 1 \in Scalar
      BY ScalarType
    <2>. QED
      BY <1>2, <2>1, FoldExists, Zenon
  <1>4. \A s \in SUBSET S : s # {} => Pick(s) \in S /\ s \ {Pick(s)} \in SUBSET S
    BY DEF Pick
  <1>5. Recursion(jt)
    <2>1. jt \in [SUBSET S -> Scalar] /\ jt[{}] = 1
      BY <1>3 DEF IsFold
    <2>2. ASSUME NEW s \in SUBSET S, s # {}
          PROVE  jt[s] = (f[Pick(s)] * jt[s \ {Pick(s)}]) % P
      <3>1. jt[s] = ProductStep(f, S)[<<Pick(s), jt[s \ {Pick(s)}]>>]
        BY <1>3, <2>2 DEF IsFold
      <3>2. Pick(s) \in S /\ jt[s \ {Pick(s)}] \in Scalar
        BY <1>4, <2>1, <2>2
      <3>. QED
        BY <3>1, <3>2 DEF ProductStep
    <2>. QED
      BY <2>1, <2>2
  <1>. DEFINE it == CHOOSE it : Recursion(it)
  <1>6. Recursion(it)
    BY <1>5
  <1>. HIDE DEF it
  <1>7. IsFold(it, S, Scalar, 1, ProductStep(f, S))
    <2>1. it = [s \in SUBSET S |-> it[s]] /\ it[{}] = 1
      BY <1>6
    <2>2. ASSUME NEW s \in SUBSET S, s # {}, it[s \ {Pick(s)}] \in Scalar
          PROVE  it[s] = ProductStep(f, S)[<<Pick(s), it[s \ {Pick(s)}]>>]
      <3>1. it[s] = (f[Pick(s)] * it[s \ {Pick(s)}]) % P
        BY <1>6, <2>2
      <3>. QED
        BY <1>4, <2>2, <3>1 DEF ProductStep
    <2>3. 1 \in Scalar
      BY ScalarType
    <2>. HIDE DEF Recursion
    <2>. QED
      BY <1>2, <2>1, <2>2, <2>3, FoldDetermined
  <1>. QED
    BY <1>1, <1>7 DEF it

\* The product over an empty set, and an element split off.
LEMMA ProductSplit ==
    ASSUME NEW S, IsFiniteSet(S), NEW f \in [S -> Int]
    PROVE  /\ ProductOf(f) \in Scalar
           /\ S = {} => ProductOf(f) = 1
           /\ \A x \in S : ProductOf(f) = (f[x] * ProductOf(Without(f, x))) % P
  <1>1. PICK it : IsFold(it, S, Scalar, 1, ProductStep(f, S)) /\ ProductOf(f) = it[S]
    BY ProductFolds
  <1>2. ProductOf(f) \in Scalar /\ (S = {} => ProductOf(f) = 1)
    BY <1>1 DEF IsFold
  <1>3. ASSUME NEW x \in S
        PROVE  ProductOf(f) = (f[x] * ProductOf(Without(f, x))) % P
    <2>. DEFINE R == S \ {x}
                g == Without(f, x)
    <2>1. R \subseteq S /\ IsFiniteSet(R) /\ g \in [R -> Int] /\ \A y \in R : g[y] = f[y]
      BY FS_RemoveElement DEF Without
    <2>. HIDE DEF R, g
    <2>2. PICK jt : IsFold(jt, R, Scalar, 1, ProductStep(g, R)) /\ ProductOf(g) = jt[R]
      BY <2>1, ProductFolds
    <2>3. it[R] = jt[R]
      <3>1. \A y \in R, m \in Scalar : ProductStep(f, S)[<<y, m>>] = ProductStep(g, R)[<<y, m>>]
        BY <2>1 DEF ProductStep
      <3>. QED
        BY <1>1, <2>1, <2>2, <3>1, FoldsAgree
    <2>4. it[S] = ProductStep(f, S)[<<x, it[R]>>]
      <3>1. ProductStep(f, S) \in [S \X Scalar -> Scalar]
        BY ProductStepType
      <3>2. ASSUME NEW y \in S, NEW z \in S, NEW m \in Scalar
            PROVE  ProductStep(f, S)[<<y, ProductStep(f, S)[<<z, m>>]>>]
                     = ProductStep(f, S)[<<z, ProductStep(f, S)[<<y, m>>]>>]
        <4>1. /\ ProductStep(f, S)[<<z, m>>] = (f[z] * m) % P
              /\ ProductStep(f, S)[<<y, m>>] = (f[y] * m) % P
          BY DEF ProductStep
        <4>2. /\ f[y] \in Int /\ f[z] \in Int /\ m \in Int
              /\ f[z] * m \in Int /\ f[y] * m \in Int
          BY ScalarType
        <4>3. (f[z] * m) % P \in Scalar /\ (f[y] * m) % P \in Scalar
          BY <4>2, ScalarType
        <4>4. /\ ProductStep(f, S)[<<y, (f[z] * m) % P>>] = (f[y] * ((f[z] * m) % P)) % P
              /\ ProductStep(f, S)[<<z, (f[y] * m) % P>>] = (f[z] * ((f[y] * m) % P)) % P
          BY <4>3 DEF ProductStep
        <4>5. /\ (f[y] * ((f[z] * m) % P)) % P = (f[y] * (f[z] * m)) % P
              /\ (f[z] * ((f[y] * m) % P)) % P = (f[z] * (f[y] * m)) % P
          BY <4>2, ProductModulo
        <4>6. f[y] * (f[z] * m) = f[z] * (f[y] * m)
          BY <4>2
        <4>. QED
          BY <4>1, <4>4, <4>5, <4>6
      <3>3. IsFreeFold(it, S, Scalar, 1, ProductStep(f, S))
        BY <1>1, <3>1, <3>2 DEF IsFreeFold
      <3>4. it[S] = ProductStep(f, S)[<<x, it[S \ {x}]>>]
        BY <3>3, FoldAnyFirst
      <3>. QED
        BY <3>4 DEF R
    <2>5. it[R] \in Scalar
      BY <1>1, <2>1 DEF IsFold
    <2>. QED
      BY <1>1, <2>2, <2>3, <2>4, <2>5 DEF ProductStep, g
  <1>. QED
    BY <1>2, <1>3

----------------------------------------------------------------------------
(* Sums are linear and keep congruence. *)

LEMMA SumSplitOn ==
    ASSUME NEW S, NEW f \in [S -> Int], NEW T \in SUBSET S, IsFiniteSet(T)
    PROVE  /\ SumFunction(Restrict(f, T)) \in Int
           /\ T = {} => SumFunction(Restrict(f, T)) = 0
           /\ \A x \in T : SumFunction(Restrict(f, T)) = f[x] + SumFunction(Restrict(f, T \ {x}))
  <1>. DEFINE g == Restrict(f, T)
  <1>1. g \in [T -> Int] /\ \A x \in T : g[x] = f[x]
    BY DEF Restrict
  <1>2. \A x \in T : Without(g, x) = Restrict(f, T \ {x})
    BY DEF Without, Restrict
  <1>. HIDE DEF g
  <1>3. /\ SumFunction(g) \in Int
        /\ T = {} => SumFunction(g) = 0
        /\ \A x \in T : SumFunction(g) = g[x] + SumFunction(Without(g, x))
    BY <1>1, SumSplit
  <1>. QED
    BY <1>1, <1>2, <1>3 DEF g

Combine(a, x, b, y) == a * x + b * y

IsCombination(h, S, f, g, a, b) ==
    /\ IsFiniteSet(S) /\ a \in Int /\ b \in Int
    /\ f \in [S -> Int] /\ g \in [S -> Int] /\ h \in [S -> Int]
    /\ \A x \in S : h[x] = Combine(a, f[x], b, g[x])

LEMMA SumLinear ==
    ASSUME NEW S, NEW f, NEW g, NEW a, NEW b, NEW h, IsCombination(h, S, f, g, a, b)
    PROVE  SumFunction(h) = Combine(a, SumFunction(f), b, SumFunction(g))
  <1>1. /\ IsFiniteSet(S) /\ a \in Int /\ b \in Int
        /\ f \in [S -> Int] /\ g \in [S -> Int] /\ h \in [S -> Int]
        /\ \A x \in S : h[x] = a * f[x] + b * g[x]
    BY DEF IsCombination, Combine
  <1>. DEFINE F(T) == SumFunction(Restrict(f, T))
              G(T) == SumFunction(Restrict(g, T))
              H(T) == SumFunction(Restrict(h, T))
              C == {T \in SUBSET S : H(T) = a * F(T) + b * G(T)}
  <1>2. ASSUME NEW T \in SUBSET S, \A V \in SUBSET T : V # T => V \in C
        PROVE  T \in C
    <2>0. IsFiniteSet(T)
      BY <1>1, FS_Subset
    <2>2. CASE T = {}
      <3>1. F(T) = 0 /\ G(T) = 0 /\ H(T) = 0
        BY <1>1, <2>0, <2>2, SumSplitOn
      <3>. HIDE DEF F, G, H
      <3>2. H(T) = a * F(T) + b * G(T)
        BY <1>1, <3>1
      <3>. QED
        BY <3>2
    <2>3. ASSUME NEW x \in T
          PROVE  T \in C
      <3>. DEFINE R == T \ {x}
      <3>1. F(T) = f[x] + F(R) /\ G(T) = g[x] + G(R) /\ H(T) = h[x] + H(R)
        <4>1. f \in [S -> Int] /\ g \in [S -> Int] /\ h \in [S -> Int]
          BY <1>1
        <4>2. F(T) = f[x] + F(R)
          BY <2>0, <4>1, SumSplitOn
        <4>3. G(T) = g[x] + G(R)
          BY <2>0, <4>1, SumSplitOn
        <4>4. H(T) = h[x] + H(R)
          BY <2>0, <4>1, SumSplitOn
        <4>. QED
          BY <4>2, <4>3, <4>4
      <3>2. F(R) \in Int /\ G(R) \in Int
        <4>1. IsFiniteSet(R) /\ R \in SUBSET S
          BY <1>1, <2>0, FS_RemoveElement
        <4>2. f \in [S -> Int] /\ g \in [S -> Int]
          BY <1>1
        <4>. QED
          BY <4>1, <4>2, SumSplitOn
      <3>3. R \in C
        BY <1>2
      <3>4. H(R) = a * F(R) + b * G(R)
        BY <3>3
      <3>5. h[x] = a * f[x] + b * g[x] /\ f[x] \in Int /\ g[x] \in Int
        BY <1>1
      <3>. HIDE DEF F, G, H, R
      <3>6. H(T) = a * F(T) + b * G(T)
        BY <1>1, <3>1, <3>2, <3>4, <3>5
      <3>. QED
        BY <3>6
    <2>. HIDE DEF C
    <2>. QED
      BY <2>2, <2>3
  <1>. HIDE DEF C
  <1>3. S \in C
    BY <1>1, <1>2, SubsetsBySmaller
  <1>4. Restrict(f, S) = f /\ Restrict(g, S) = g /\ Restrict(h, S) = h
    BY <1>1 DEF Restrict
  <1>. QED
    BY <1>3, <1>4 DEF C, Combine

LEMMA SumCongruent ==
    ASSUME NEW S, IsFiniteSet(S), NEW f \in [S -> Int], NEW g \in [S -> Int],
           \A x \in S : f[x] \cong g[x]
    PROVE  SumFunction(f) \cong SumFunction(g)
  <1>. DEFINE F(T) == SumFunction(Restrict(f, T))
              G(T) == SumFunction(Restrict(g, T))
              C == {T \in SUBSET S : F(T) \cong G(T)}
  <1>1. ASSUME NEW T \in SUBSET S, \A V \in SUBSET T : V # T => V \in C
        PROVE  T \in C
    <2>0. IsFiniteSet(T)
      BY FS_Subset
    <2>2. CASE T = {}
      <3>1. F(T) = 0 /\ G(T) = 0
        BY <2>0, <2>2, SumSplitOn
      <3>. HIDE DEF F, G
      <3>. QED
        BY <3>1 DEF \cong
    <2>3. ASSUME NEW x \in T
          PROVE  T \in C
      <3>. DEFINE R == T \ {x}
      <3>1. F(T) = f[x] + F(R) /\ G(T) = g[x] + G(R)
        BY <2>0, SumSplitOn
      <3>2. F(R) \in Int /\ G(R) \in Int
        <4>1. IsFiniteSet(R) /\ R \in SUBSET S
          BY <2>0, FS_RemoveElement
        <4>. QED
          BY <4>1, SumSplitOn
      <3>3. F(R) \cong G(R)
        <4>1. R \in C
          BY <1>1
        <4>. QED
          BY <4>1
      <3>4. f[x] \in Int /\ g[x] \in Int /\ f[x] \cong g[x]
        OBVIOUS
      <3>. HIDE DEF F, G, R
      <3>5. F(T) \cong G(T)
        BY <3>1, <3>2, <3>3, <3>4, CongruentOps
      <3>. QED
        BY <3>5
    <2>. HIDE DEF C
    <2>. QED
      BY <2>2, <2>3
  <1>. HIDE DEF C
  <1>2. S \in C
    BY <1>1, SubsetsBySmaller
  <1>3. Restrict(f, S) = f /\ Restrict(g, S) = g
    BY DEF Restrict
  <1>. QED
    BY <1>2, <1>3 DEF C

----------------------------------------------------------------------------
(* Polynomials. *)

LEMMA PowerSteps ==
    ASSUME NEW x \in Int
    PROVE  /\ \A k \in Nat : Power(x, k) \in Scalar /\ Power(x, k) \in Int
           /\ Power(x, 0) = 1
           /\ \A k \in Nat : Power(x, k + 1) = (x * Power(x, k)) % P
  <1>1. \A k \in Nat : IsFiniteSet(1..k) /\ [j \in 1..k |-> x] \in [1..k -> Int]
    BY FS_Interval
  <1>2. ASSUME NEW k \in Nat PROVE Power(x, k) \in Scalar
    BY <1>1, ProductSplit DEF Power
  <1>3. Power(x, 0) = 1
    <2>1. 1..0 = {}
      OBVIOUS
    <2>. QED
      BY <1>1, <2>1, ProductSplit DEF Power
  <1>4. ASSUME NEW k \in Nat PROVE Power(x, k + 1) = (x * Power(x, k)) % P
    <2>. DEFINE f == [j \in 1..(k + 1) |-> x]
    <2>1. k + 1 \in Nat /\ k + 1 \in 1..(k + 1) /\ 1..(k + 1) \ {k + 1} = 1..k
      OBVIOUS
    <2>2. Without(f, k + 1) = [j \in 1..k |-> x] /\ f[k + 1] = x
      BY <2>1 DEF Without
    <2>3. ProductOf(f) = (f[k + 1] * ProductOf(Without(f, k + 1))) % P
      <3>1. f \in [1..(k + 1) -> Int] /\ IsFiniteSet(1..(k + 1))
        BY <1>1, <2>1
      <3>. HIDE DEF f
      <3>. QED
        BY <2>1, <3>1, ProductSplit
    <2>. QED
      BY <2>2, <2>3 DEF Power
  <1>. QED
    BY <1>2, <1>3, <1>4, ScalarType

\* The value of a polynomial before it is reduced.
Poly(c, x) == SumFunction([j \in DOMAIN c |-> c[j] * Power(x, j - 1)])

LEMMA PolyType ==
    ASSUME NEW d \in Nat, NEW c \in [1..d -> Int], NEW x \in Int
    PROVE  /\ [j \in 1..d |-> c[j] * Power(x, j - 1)] \in [1..d -> Int]
           /\ Poly(c, x) \in Int
  <1>1. ASSUME NEW j \in 1..d PROVE c[j] * Power(x, j - 1) \in Int
    <2>1. j - 1 \in Nat /\ c[j] \in Int
      OBVIOUS
    <2>2. Power(x, j - 1) \in Int
      BY <2>1, PowerSteps
    <2>. QED
      BY <2>1, <2>2
  <1>2. [j \in 1..d |-> c[j] * Power(x, j - 1)] \in [1..d -> Int] /\ DOMAIN c = 1..d
    BY <1>1
  <1>3. IsFiniteSet(1..d)
    BY FS_Interval
  <1>. QED
    BY <1>2, <1>3, SumSplit DEF Poly

LowerCoeffs(c, d) == [j \in 1..d |-> c[j + 1]]

\* A polynomial is its first coefficient and the argument times the rest.
LEMMA Horner ==
    ASSUME NEW d \in Nat, NEW c \in [1..(d + 1) -> Int], NEW x \in Int
    PROVE  Poly(c, x) \cong c[1] + x * Poly(LowerCoeffs(c, d), x)
  <1>. DEFINE a(k) == [j \in 1..(k + 1) |-> c[j] * Power(x, j - 1)]
              b(k) == [j \in 1..k |-> c[j + 1] * Power(x, j - 1)]
              C == {k \in Nat : k <= d => SumFunction(a(k)) \cong c[1] + x * SumFunction(b(k))}
  <1>1. ASSUME NEW k \in Nat, k <= d
        PROVE  /\ a(k) \in [1..(k + 1) -> Int] /\ IsFiniteSet(1..(k + 1))
               /\ b(k) \in [1..k -> Int] /\ IsFiniteSet(1..k)
    <2>1. ASSUME NEW j \in 1..(k + 1) PROVE c[j] * Power(x, j - 1) \in Int
      <3>1. j - 1 \in Nat /\ c[j] \in Int
        BY <1>1
      <3>2. Power(x, j - 1) \in Int
        BY <3>1, PowerSteps
      <3>. QED
        BY <3>1, <3>2
    <2>2. ASSUME NEW j \in 1..k PROVE c[j + 1] * Power(x, j - 1) \in Int
      <3>1. j - 1 \in Nat /\ c[j + 1] \in Int
        BY <1>1
      <3>2. Power(x, j - 1) \in Int
        BY <3>1, PowerSteps
      <3>. QED
        BY <3>1, <3>2
    <2>3. a(k) \in [1..(k + 1) -> Int] /\ b(k) \in [1..k -> Int]
      BY <2>1, <2>2
    <2>4. IsFiniteSet(1..(k + 1)) /\ IsFiniteSet(1..k)
      BY FS_Interval
    <2>. QED
      BY <2>3, <2>4
  <1>2. 0 \in C
    <2>1. SumFunction(a(0)) = a(0)[1] + SumFunction(Without(a(0), 1))
      <3>1. 1 \in 1..(0 + 1)
        OBVIOUS
      <3>. HIDE DEF a
      <3>. QED
        BY <1>1, <3>1, SumSplit
    <2>2. a(0)[1] = c[1] * Power(x, 0) /\ c[1] \in Int
      OBVIOUS
    <2>3. SumFunction(Without(a(0), 1)) = 0
      <3>1. Without(a(0), 1) \in [{} -> Int]
        BY DEF Without
      <3>. QED
        BY <3>1, FS_EmptySet, SumSplit
    <2>4. SumFunction(b(0)) = 0
      <3>1. b(0) \in [{} -> Int]
        OBVIOUS
      <3>. HIDE DEF b
      <3>. QED
        BY <3>1, FS_EmptySet, SumSplit
    <2>5. SumFunction(a(0)) = c[1] + x * SumFunction(b(0))
      <3>1. Power(x, 0) = 1
        BY PowerSteps
      <3>. HIDE DEF a, b
      <3>. QED
        BY <2>1, <2>2, <2>3, <2>4, <3>1
    <2>. QED
      BY <2>5 DEF \cong
  <1>3. ASSUME NEW k \in Nat, k \in C PROVE k + 1 \in C
    <2>. SUFFICES ASSUME k + 1 <= d
                  PROVE  SumFunction(a(k + 1)) \cong c[1] + x * SumFunction(b(k + 1))
      OBVIOUS
    <2>0. k <= d /\ k + 1 \in Nat /\ k + 2 \in 1..(d + 1)
      OBVIOUS
    <2>1. SumFunction(a(k)) \cong c[1] + x * SumFunction(b(k))
      BY <1>3, <2>0
    <2>2. Without(a(k + 1), k + 2) = a(k) /\ a(k + 1)[k + 2] = c[k + 2] * Power(x, k + 1)
      <3>1. 1..((k + 1) + 1) \ {k + 2} = 1..(k + 1) /\ k + 2 \in 1..((k + 1) + 1) /\ (k + 2) - 1 = k + 1
        OBVIOUS
      <3>. QED
        BY <3>1 DEF Without
    <2>3. Without(b(k + 1), k + 1) = b(k) /\ b(k + 1)[k + 1] = c[k + 2] * Power(x, k)
      <3>1. 1..(k + 1) \ {k + 1} = 1..k /\ k + 1 \in 1..(k + 1) /\ (k + 1) - 1 = k /\ (k + 1) + 1 = k + 2
        OBVIOUS
      <3>. QED
        BY <3>1 DEF Without
    <2>4. /\ SumFunction(a(k + 1)) = a(k + 1)[k + 2] + SumFunction(Without(a(k + 1), k + 2))
          /\ SumFunction(b(k + 1)) = b(k + 1)[k + 1] + SumFunction(Without(b(k + 1), k + 1))
      <3>1. k + 2 \in 1..((k + 1) + 1) /\ k + 1 \in 1..(k + 1)
        OBVIOUS
      <3>2. /\ a(k + 1) \in [1..((k + 1) + 1) -> Int] /\ IsFiniteSet(1..((k + 1) + 1))
            /\ b(k + 1) \in [1..(k + 1) -> Int] /\ IsFiniteSet(1..(k + 1))
        BY <1>1, <2>0
      <3>. HIDE DEF a, b
      <3>3. SumFunction(a(k + 1)) = a(k + 1)[k + 2] + SumFunction(Without(a(k + 1), k + 2))
        BY <3>1, <3>2, SumSplit
      <3>4. SumFunction(b(k + 1)) = b(k + 1)[k + 1] + SumFunction(Without(b(k + 1), k + 1))
        BY <3>1, <3>2, SumSplit
      <3>. QED
        BY <3>3, <3>4
    <2>5. SumFunction(a(k)) \in Int /\ SumFunction(b(k)) \in Int
      <3>. HIDE DEF a, b
      <3>. QED
        BY <1>1, <2>0, SumSplit
    <2>6. /\ c[k + 2] \in Int /\ c[1] \in Int /\ Power(x, k) \in Int /\ Power(x, k + 1) \in Int
          /\ Power(x, k + 1) \cong x * Power(x, k)
      <3>1. c[k + 2] \in Int /\ c[1] \in Int /\ Power(x, k) \in Int /\ Power(x, k + 1) \in Int
        <4>1. \A m \in Nat : Power(x, m) \in Int
          BY PowerSteps
        <4>2. 1 \in 1..(d + 1)
          OBVIOUS
        <4>. QED
          BY <2>0, <4>1, <4>2
      <3>2. x * Power(x, k) \in Int
        BY <3>1
      <3>3. (x * Power(x, k)) % P \cong x * Power(x, k)
        BY <3>2, CongruentBasics
      <3>. QED
        BY <3>1, <3>3, PowerSteps
    <2>. DEFINE A == SumFunction(a(k))  B == SumFunction(b(k))
                u == c[k + 2]  v == Power(x, k)  w == Power(x, k + 1)
    <2>7. SumFunction(a(k + 1)) = u * w + A /\ SumFunction(b(k + 1)) = u * v + B
      BY <2>2, <2>3, <2>4
    <2>8. /\ A \in Int /\ B \in Int /\ u \in Int /\ v \in Int /\ w \in Int /\ c[1] \in Int
          /\ w \cong x * v /\ A \cong c[1] + x * B
      BY <2>1, <2>5, <2>6
    <2>. HIDE DEF A, B, u, v, w, a, b
    <2>9. u * w + A \cong u * (x * v) + (c[1] + x * B)
      <3>1. u \cong u
        BY DEF \cong
      <3>2. u * w \cong u * (x * v)
        BY <2>8, <3>1, CongruentOps
      <3>3. u * w \in Int /\ u * (x * v) \in Int /\ c[1] + x * B \in Int
        BY <2>8
      <3>. QED
        BY <2>8, <3>2, <3>3, CongruentOps
    <2>10. u * (x * v) + (c[1] + x * B) = c[1] + x * (u * v + B)
      BY <2>8
    <2>. QED
      BY <2>7, <2>9, <2>10
  <1>4. d \in C
    <2>. HIDE DEF C
    <2>. QED
      BY <1>2, <1>3, NaturalsBySuccessor
  <1>5. a(d) = [j \in DOMAIN c |-> c[j] * Power(x, j - 1)]
    OBVIOUS
  <1>6. b(d) = [j \in DOMAIN LowerCoeffs(c, d) |-> LowerCoeffs(c, d)[j] * Power(x, j - 1)]
    BY DEF LowerCoeffs
  <1>7. SumFunction(a(d)) \cong c[1] + x * SumFunction(b(d))
    BY <1>4
  <1>. HIDE DEF a, b
  <1>. QED
    BY <1>5, <1>6, <1>7 DEF Poly

----------------------------------------------------------------------------
(* Interpolation at zero. *)

Index == 1..(P - 1)

Weight(S, i) == ProductOf([j \in S \ {i} |-> j * Invert((j - i) % P)])

Interpolate(S, f) == SumFunction([i \in S |-> f[i] * Weight(S, i)])

LEMMA IndexType ==
    /\ \A S \in SUBSET Index : IsFiniteSet(S) /\ S \subseteq Int
    /\ \A i \in Index : i \in Int /\ i % P = i
    /\ \A i, j \in Index : i # j => ~(j - i \cong 0)
  <1>1. P \in Int /\ P > 2 /\ 0 % P = 0
    BY ScalarType, CongruentBasics
  <1>2. \A i \in Index : i \in Int /\ i \in Scalar /\ i % P = i
    BY <1>1, CongruentBasics DEF Index, Scalar
  <1>3. IsFiniteSet(Index)
    BY <1>1, FS_Interval DEF Index
  <1>4. ASSUME NEW i \in Index, NEW j \in Index, j - i \cong 0
        PROVE  i = j
    <2>1. j \in Int /\ i \in Int /\ 0 \in Int /\ i \cong i
      BY <1>2 DEF \cong
    <2>2. j - i \in Int
      BY <2>1
    <2>3. (j - i) + i \cong 0 + i
      BY <1>4, <2>1, <2>2, CongruentOps
    <2>4. (j - i) + i = j /\ 0 + i = i
      BY <2>1
    <2>5. j \cong i
      BY <2>3, <2>4
    <2>. QED
      BY <1>2, <2>5, CongruentBasics
  <1>. QED
    BY <1>2, <1>3, <1>4, FS_Subset

LEMMA FactorType ==
    ASSUME NEW S \in SUBSET Index, NEW i \in Index
    PROVE  /\ IsFiniteSet(S \ {i})
           /\ [j \in S \ {i} |-> j * Invert((j - i) % P)] \in [S \ {i} -> Int]
  <1>1. ASSUME NEW j \in S \ {i}
        PROVE  j * Invert((j - i) % P) \in Int
    <2>1. j \in Index /\ j # i
      OBVIOUS
    <2>2. j \in Int /\ i \in Int /\ ~(j - i \cong 0)
      BY <2>1, IndexType
    <2>3. j - i \in Int
      BY <2>2
    <2>4. Invert((j - i) % P) \in Scalar
      BY <2>2, <2>3, InvertInverts
    <2>. QED
      BY <2>2, <2>4, ScalarType
  <1>. QED
    BY <1>1, IndexType

LEMMA WeightType ==
    ASSUME NEW S \in SUBSET Index, NEW i \in Index
    PROVE  Weight(S, i) \in Scalar /\ Weight(S, i) \in Int
  <1>1. Weight(S, i) \in Scalar
    BY FactorType, ProductSplit DEF Weight
  <1>. QED
    BY <1>1, ScalarType

\* Times the difference to a point, a weight is one without that point.
LEMMA WeightFactor ==
    ASSUME NEW S \in SUBSET Index, NEW i \in Index, NEW a \in S, a # i
    PROVE  (i - a) * Weight(S, i) \cong (-a) * Weight(S \ {a}, i)
  <1>. DEFINE f == [j \in S \ {i} |-> j * Invert((j - i) % P)]
              v == Invert((a - i) % P)
              w == Weight(S \ {a}, i)
  <1>0. a \in Index /\ S \ {a} \in SUBSET Index
    OBVIOUS
  <1>1. a \in S \ {i} /\ f[a] = a * v
    OBVIOUS
  <1>2. ProductOf(f) = (f[a] * ProductOf(Without(f, a))) % P
    <2>1. IsFiniteSet(S \ {i}) /\ f \in [S \ {i} -> Int]
      BY FactorType
    <2>. HIDE DEF f
    <2>. QED
      BY <1>1, <2>1, ProductSplit
  <1>3. Without(f, a) = [j \in (S \ {a}) \ {i} |-> j * Invert((j - i) % P)]
    <2>1. (S \ {i}) \ {a} = (S \ {a}) \ {i}
      OBVIOUS
    <2>. QED
      BY <2>1 DEF Without
  <1>4. Weight(S, i) = ((a * v) * w) % P
    <2>1. Weight(S, i) = ProductOf(f) /\ w = ProductOf(Without(f, a))
      BY <1>3 DEF Weight
    <2>. HIDE DEF f, v, w
    <2>. QED
      BY <1>1, <1>2, <2>1
  <1>5. /\ a \in Int /\ i \in Int /\ a - i \in Int /\ i - a \in Int /\ -a \in Int
        /\ ~(a - i \cong 0)
    <2>1. a \in Int /\ i \in Int /\ ~(a - i \cong 0)
      BY <1>0, IndexType
    <2>. QED
      BY <2>1
  <1>6. v \in Int /\ (a - i) * v \cong 1
    <2>1. v \in Scalar /\ (a - i) * v \cong 1
      BY <1>5, InvertInverts
    <2>. QED
      BY <2>1, ScalarType
  <1>7. w \in Int
    BY <1>0, WeightType
  <1>8. Weight(S, i) \cong (a * v) * w /\ Weight(S, i) \in Int /\ (a * v) * w \in Int
    <2>. HIDE DEF v, w
    <2>1. (a * v) * w \in Int
      BY <1>5, <1>6, <1>7
    <2>. QED
      BY <1>4, <2>1, CongruentBasics
  <1>. HIDE DEF v, w, f
  <1>9. (i - a) * Weight(S, i) \cong (i - a) * ((a * v) * w)
    <2>1. i - a \cong i - a
      BY DEF \cong
    <2>. QED
      BY <1>5, <1>8, <2>1, CongruentOps
  <1>10. (i - a) * ((a * v) * w) = ((a - i) * v) * ((-a) * w)
    BY <1>5, <1>6, <1>7
  <1>11. ((a - i) * v) * ((-a) * w) \cong 1 * ((-a) * w)
    <2>1. (-a) * w \in Int /\ (a - i) * v \in Int /\ 1 \in Int /\ (-a) * w \cong (-a) * w
      BY <1>5, <1>6, <1>7 DEF \cong
    <2>. QED
      BY <1>6, <2>1, CongruentOps
  <1>12. 1 * ((-a) * w) = (-a) * w
    BY <1>5, <1>7
  <1>. QED
    BY <1>9, <1>10, <1>11, <1>12 DEF \cong, w

LEMMA InterpolateType ==
    ASSUME NEW S \in SUBSET Index, NEW f \in [S -> Int]
    PROVE  /\ [i \in S |-> f[i] * Weight(S, i)] \in [S -> Int]
           /\ Interpolate(S, f) \in Int
  <1>1. ASSUME NEW i \in S PROVE f[i] * Weight(S, i) \in Int
    <2>1. i \in Index /\ f[i] \in Int
      OBVIOUS
    <2>2. Weight(S, i) \in Int
      BY <2>1, WeightType
    <2>. QED
      BY <2>1, <2>2
  <1>2. [i \in S |-> f[i] * Weight(S, i)] \in [S -> Int]
    BY <1>1
  <1>. QED
    BY <1>2, IndexType, SumSplit DEF Interpolate

LEMMA InterpolateLinear ==
    ASSUME NEW S \in SUBSET Index, NEW f, NEW g, NEW a, NEW b, NEW h,
           IsCombination(h, S, f, g, a, b)
    PROVE  Interpolate(S, h) = Combine(a, Interpolate(S, f), b, Interpolate(S, g))
  <1>0. /\ f \in [S -> Int] /\ g \in [S -> Int] /\ h \in [S -> Int]
        /\ a \in Int /\ b \in Int
    BY DEF IsCombination
  <1>1. PICK u \in [S -> Int] : u = [i \in S |-> f[i] * Weight(S, i)]
    <2>1. [i \in S |-> f[i] * Weight(S, i)] \in [S -> Int]
      BY <1>0, InterpolateType
    <2>. QED
      BY <2>1, Zenon
  <1>2. PICK v \in [S -> Int] : v = [i \in S |-> g[i] * Weight(S, i)]
    <2>1. [i \in S |-> g[i] * Weight(S, i)] \in [S -> Int]
      BY <1>0, InterpolateType
    <2>. QED
      BY <2>1, Zenon
  <1>4. ASSUME NEW i \in S
        PROVE  h[i] * Weight(S, i) = a * u[i] + b * v[i]
    <2>1. i \in Index /\ f[i] \in Int /\ g[i] \in Int
      BY <1>0
    <2>2. Weight(S, i) \in Int
      BY <2>1, WeightType
    <2>3. u[i] = f[i] * Weight(S, i) /\ v[i] = g[i] * Weight(S, i)
      BY <1>1, <1>2
    <2>4. h[i] = a * f[i] + b * g[i]
      BY DEF IsCombination, Combine
    <2>. QED
      BY <1>0, <2>1, <2>2, <2>3, <2>4
  <1>5. PICK w \in [S -> Int] : w = [i \in S |-> h[i] * Weight(S, i)]
    <2>1. [i \in S |-> h[i] * Weight(S, i)] \in [S -> Int]
      BY <1>0, InterpolateType
    <2>. QED
      BY <2>1, Zenon
  <1>6. IsCombination(w, S, u, v, a, b)
    BY <1>0, <1>4, <1>5, IndexType DEF IsCombination, Combine
  <1>7. SumFunction(w) = Combine(a, SumFunction(u), b, SumFunction(v))
    BY <1>6, SumLinear
  <1>. QED
    BY <1>1, <1>2, <1>5, <1>7 DEF Interpolate

LEMMA InterpolateCongruent ==
    ASSUME NEW S \in SUBSET Index, NEW f \in [S -> Int], NEW g \in [S -> Int],
           \A i \in S : f[i] \cong g[i]
    PROVE  Interpolate(S, f) \cong Interpolate(S, g)
  <1>1. PICK u \in [S -> Int] : u = [i \in S |-> f[i] * Weight(S, i)]
    <2>1. [i \in S |-> f[i] * Weight(S, i)] \in [S -> Int]
      BY InterpolateType
    <2>. QED
      BY <2>1, Zenon
  <1>2. PICK v \in [S -> Int] : v = [i \in S |-> g[i] * Weight(S, i)]
    <2>1. [i \in S |-> g[i] * Weight(S, i)] \in [S -> Int]
      BY InterpolateType
    <2>. QED
      BY <2>1, Zenon
  <1>3. ASSUME NEW i \in S PROVE u[i] \cong v[i]
    <2>1. i \in Index /\ f[i] \in Int /\ g[i] \in Int /\ f[i] \cong g[i]
      OBVIOUS
    <2>2. Weight(S, i) \in Int /\ Weight(S, i) \cong Weight(S, i)
      BY <2>1, WeightType DEF \cong
    <2>3. f[i] * Weight(S, i) \cong g[i] * Weight(S, i)
      BY <2>1, <2>2, CongruentOps
    <2>. QED
      BY <1>1, <1>2, <2>3
  <1>4. SumFunction(u) \cong SumFunction(v)
    BY <1>3, IndexType, SumCongruent
  <1>. QED
    BY <1>1, <1>2, <1>4 DEF Interpolate

\* A factor that vanishes at a point takes the point away.
LEMMA InterpolateFactor ==
    ASSUME NEW S \in SUBSET Index, NEW f \in [S -> Int], NEW a \in S
    PROVE  Interpolate(S, [i \in S |-> (i - a) * f[i]])
             \cong (-a) * Interpolate(S \ {a}, Restrict(f, S \ {a}))
  <1>. DEFINE R == S \ {a}
              h == [i \in S |-> (i - a) * f[i]]
  <1>0. a \in Int /\ -a \in Int /\ 0 \in Int /\ R \in SUBSET Index /\ IsFiniteSet(S) /\ IsFiniteSet(R)
    <2>1. a \in Int /\ R \in SUBSET Index /\ IsFiniteSet(S) /\ IsFiniteSet(R)
      BY IndexType
    <2>. QED
      BY <2>1
  <1>1. \A i \in S : i \in Int /\ f[i] \in Int /\ i \in Index
    BY IndexType
  <1>2. h \in [S -> Int]
    <2>1. \A i \in S : (i - a) * f[i] \in Int
      BY <1>0, <1>1
    <2>. QED
      BY <2>1
  <1>3. h[a] = 0 /\ \A i \in S : h[i] = (i - a) * f[i]
    BY <1>0, <1>1
  <1>4. Restrict(f, R) \in [R -> Int] /\ \A i \in R : Restrict(f, R)[i] = f[i]
    BY DEF Restrict
  <1>. HIDE DEF h
  <1>5. PICK u \in [S -> Int] : u = [i \in S |-> h[i] * Weight(S, i)]
    BY <1>2, InterpolateType
  <1>6. PICK v \in [R -> Int] : v = [i \in R |-> Restrict(f, R)[i] * Weight(R, i)]
    BY <1>0, <1>4, InterpolateType
  <1>7. SumFunction(u) = u[a] + SumFunction(Without(u, a))
    BY <1>0, SumSplit
  <1>8. u[a] = 0
    <2>1. Weight(S, a) \in Int
      BY <1>1, WeightType
    <2>. QED
      BY <1>3, <1>5, <2>1
  <1>9. Without(u, a) \in [R -> Int] /\ \A i \in R : Without(u, a)[i] = u[i]
    BY DEF Without
  <1>10. ASSUME NEW i \in R
         PROVE  Without(u, a)[i] \cong (-a) * v[i] + 0 * v[i]
    <2>1. i \in S /\ i # a /\ i \in Index /\ i \in Int /\ f[i] \in Int
      BY <1>1
    <2>2. (i - a) * Weight(S, i) \cong (-a) * Weight(R, i)
      BY <2>1, WeightFactor
    <2>3. Weight(S, i) \in Int /\ Weight(R, i) \in Int
      BY <1>0, <2>1, WeightType
    <2>4. (i - a) * Weight(S, i) \in Int /\ (-a) * Weight(R, i) \in Int /\ f[i] \cong f[i]
      BY <1>0, <2>1, <2>3 DEF \cong
    <2>5. ((i - a) * Weight(S, i)) * f[i] \cong ((-a) * Weight(R, i)) * f[i]
      BY <2>1, <2>2, <2>4, CongruentOps
    <2>6. Without(u, a)[i] = ((i - a) * f[i]) * Weight(S, i)
      BY <1>3, <1>5, <1>9, <2>1
    <2>7. ((i - a) * f[i]) * Weight(S, i) = ((i - a) * Weight(S, i)) * f[i]
      BY <1>0, <2>1, <2>3
    <2>8. v[i] = f[i] * Weight(R, i)
      BY <1>4, <1>6
    <2>9. (-a) * v[i] + 0 * v[i] = ((-a) * Weight(R, i)) * f[i]
      BY <1>0, <2>1, <2>3, <2>8
    <2>. QED
      BY <2>5, <2>6, <2>7, <2>9
  <1>11. PICK w \in [R -> Int] : w = [i \in R |-> (-a) * v[i] + 0 * v[i]]
    <2>1. \A i \in R : (-a) * v[i] + 0 * v[i] \in Int
      BY <1>0
    <2>2. [i \in R |-> (-a) * v[i] + 0 * v[i]] \in [R -> Int]
      BY <2>1
    <2>. QED
      BY <2>2, Zenon
  <1>12. SumFunction(Without(u, a)) \cong SumFunction(w)
    <2>1. \A i \in R : Without(u, a)[i] \cong w[i]
      BY <1>10, <1>11
    <2>. QED
      BY <1>0, <1>9, <2>1, SumCongruent
  <1>13. SumFunction(w) = (-a) * SumFunction(v) + 0 * SumFunction(v)
    <2>1. IsCombination(w, R, v, v, -a, 0)
      BY <1>0, <1>11 DEF IsCombination, Combine
    <2>2. SumFunction(w) = Combine(-a, SumFunction(v), 0, SumFunction(v))
      BY <2>1, SumLinear
    <2>. QED
      BY <2>2 DEF Combine
  <1>14. SumFunction(v) \in Int /\ SumFunction(Without(u, a)) \in Int
    BY <1>0, <1>9, SumSplit
  <1>15. SumFunction(w) = (-a) * SumFunction(v) /\ SumFunction(u) = SumFunction(Without(u, a))
    BY <1>0, <1>7, <1>8, <1>13, <1>14
  <1>. QED
    BY <1>5, <1>6, <1>12, <1>15 DEF Interpolate, h


\* Times its argument, a function interpolates to what the points without one
\* of them make of the function.
LEMMA InterpolateShift ==
    ASSUME NEW S \in SUBSET Index, NEW f \in [S -> Int], NEW g \in [S -> Int], NEW a \in S,
           \A i \in S : g[i] = i * f[i]
    PROVE  Interpolate(S, g) + (-a) * Interpolate(S, f)
             \cong (-a) * Interpolate(S \ {a}, Restrict(f, S \ {a}))
  <1>0. \A i \in S : i \in Int /\ f[i] \in Int
    BY IndexType
  <1>1. a \in Int /\ -a \in Int /\ 1 \in Int
    BY <1>0
  <1>2. \A i \in S : (i - a) * f[i] \in Int
    BY <1>0, <1>1
  <1>3. PICK h \in [S -> Int] : h = [i \in S |-> (i - a) * f[i]]
    <2>1. [i \in S |-> (i - a) * f[i]] \in [S -> Int]
      BY <1>2
    <2>. QED
      BY <2>1, Zenon
  <1>4. ASSUME NEW i \in S PROVE h[i] = Combine(1, g[i], -a, f[i])
    <2>1. h[i] = (i - a) * f[i] /\ g[i] = i * f[i] /\ i \in Int /\ f[i] \in Int
      BY <1>0, <1>3
    <2>. QED
      BY <1>1, <2>1 DEF Combine
  <1>5. IsCombination(h, S, g, f, 1, -a)
    BY <1>1, <1>4, IndexType DEF IsCombination
  <1>6. Interpolate(S, h) = 1 * Interpolate(S, g) + (-a) * Interpolate(S, f)
    BY <1>5, InterpolateLinear DEF Combine
  <1>7. Interpolate(S, g) \in Int
    BY InterpolateType
  <1>8. Interpolate(S, h) = Interpolate(S, g) + (-a) * Interpolate(S, f)
    BY <1>6, <1>7
  <1>. QED
    BY <1>3, <1>8, InterpolateFactor

Ones(S) == [i \in S |-> 1]

\* One interpolates to one.
LEMMA InterpolateOne ==
    ASSUME NEW S \in SUBSET Index, S # {}
    PROVE  Interpolate(S, Ones(S)) \cong 1
  <1>. DEFINE C == {T \in SUBSET S : T # {} => Interpolate(T, Ones(T)) \cong 1}
  <1>1. ASSUME NEW T \in SUBSET S, \A V \in SUBSET T : V # T => V \in C
        PROVE  T \in C
    <2>0. T \in SUBSET Index /\ Ones(T) \in [T -> Int] /\ IsFiniteSet(T)
      BY IndexType DEF Ones
    <2>1. ASSUME NEW a \in T, T = {a}
          PROVE  Interpolate(T, Ones(T)) \cong 1
      <3>1. PICK u \in [T -> Int] : u = [i \in T |-> Ones(T)[i] * Weight(T, i)]
        BY <2>0, InterpolateType
      <3>2. SumFunction(u) = u[a] + SumFunction(Without(u, a))
        BY <2>0, SumSplit
      <3>3. SumFunction(Without(u, a)) = 0
        <4>1. Without(u, a) \in [{} -> Int]
          BY <2>1 DEF Without
        <4>. QED
          BY <4>1, FS_EmptySet, SumSplit
      <3>4. Weight(T, a) = 1
        <4>1. [j \in T \ {a} |-> j * Invert((j - a) % P)] \in [{} -> Int] /\ T \ {a} = {}
          BY <2>1
        <4>. QED
          BY <4>1, FS_EmptySet, ProductSplit DEF Weight
      <3>5. u[a] = 1
        BY <3>1, <3>4 DEF Ones
      <3>6. SumFunction(u) = 1
        BY <3>2, <3>3, <3>5
      <3>. QED
        BY <3>1, <3>6 DEF Interpolate, \cong
    <2>2. ASSUME NEW a \in T, NEW b \in T, a # b
          PROVE  Interpolate(T, Ones(T)) \cong 1
      <3>1. PICK g \in [T -> Int] : g = [i \in T |-> i]
        <4>1. [i \in T |-> i] \in [T -> Int]
          BY <2>0, IndexType
        <4>. QED
          BY <4>1, Zenon
      <3>2. \A i \in T : g[i] = i * Ones(T)[i]
        BY <2>0, <3>1, IndexType DEF Ones
      <3>. DEFINE O == Interpolate(T, Ones(T))
                  X == Interpolate(T, g)
      <3>3. ASSUME NEW x \in T, NEW y \in T, x # y PROVE X + (-x) * O \cong -x
        <4>1. X + (-x) * O \cong (-x) * Interpolate(T \ {x}, Restrict(Ones(T), T \ {x}))
          BY <2>0, <3>2, InterpolateShift
        <4>2. Restrict(Ones(T), T \ {x}) = Ones(T \ {x})
          BY DEF Restrict, Ones
        <4>3. Interpolate(T \ {x}, Ones(T \ {x})) \cong 1
          <5>1. T \ {x} \in SUBSET T /\ T \ {x} # T /\ T \ {x} # {}
            BY <3>3
          <5>. QED
            BY <1>1, <5>1
        <4>4. /\ x \in Int /\ -x \in Int /\ -x \cong -x /\ 1 \in Int
              /\ Interpolate(T \ {x}, Ones(T \ {x})) \in Int
          <5>1. x \in Int
            BY <2>0, IndexType
          <5>2. Ones(T \ {x}) \in [T \ {x} -> Int] /\ T \ {x} \in SUBSET Index
            BY <2>0 DEF Ones
          <5>3. Interpolate(T \ {x}, Ones(T \ {x})) \in Int
            BY <5>2, InterpolateType
          <5>. QED
            BY <5>1, <5>3 DEF \cong
        <4>5. (-x) * Interpolate(T \ {x}, Ones(T \ {x})) \cong (-x) * 1
          BY <4>3, <4>4, CongruentOps
        <4>6. (-x) * 1 = -x
          BY <4>4
        <4>. QED
          BY <4>1, <4>2, <4>5, <4>6 DEF \cong
      <3>4. X + (-a) * O \cong -a /\ X + (-b) * O \cong -b
        BY <2>2, <3>3
      <3>5. /\ a \in Int /\ b \in Int /\ -a \in Int /\ -b \in Int /\ b - a \in Int
            /\ O \in Int /\ X \in Int /\ 1 \in Int /\ ~(b - a \cong 0)
        <4>1. a \in Int /\ b \in Int /\ ~(b - a \cong 0)
          BY <2>0, <2>2, IndexType
        <4>2. O \in Int /\ X \in Int
          BY <2>0, InterpolateType
        <4>. HIDE DEF O, X
        <4>. QED
          BY <4>1, <4>2
      <3>. HIDE DEF O, X
      <3>6. (b - a) * O \cong b - a
        <4>1. X + (-a) * O \in Int /\ X + (-b) * O \in Int
          BY <3>5
        <4>2. (X + (-a) * O) - (X + (-b) * O) \cong (-a) - (-b)
          BY <3>4, <3>5, <4>1, CongruentOps
        <4>3. (X + (-a) * O) - (X + (-b) * O) = (b - a) * O /\ (-a) - (-b) = b - a
          BY <3>5
        <4>. QED
          BY <4>2, <4>3
      <3>7. PICK v \in Int : (b - a) * v \cong 1
        <4>1. Invert((b - a) % P) \in Scalar /\ (b - a) * Invert((b - a) % P) \cong 1
          BY <3>5, InvertInverts
        <4>2. Invert((b - a) % P) \in Int
          BY <4>1, ScalarType
        <4>. QED
          BY <4>1, <4>2
      <3>8. v * ((b - a) * O) \cong v * (b - a)
        <4>1. v \cong v /\ (b - a) * O \in Int
          BY <3>5 DEF \cong
        <4>. QED
          BY <3>5, <3>6, <4>1, CongruentOps
      <3>9. ((b - a) * v) * O \cong 1 * O
        <4>1. O \cong O /\ (b - a) * v \in Int
          BY <3>5 DEF \cong
        <4>. QED
          BY <3>5, <3>7, <4>1, CongruentOps
      <3>10. ((b - a) * v) * O = v * ((b - a) * O) /\ 1 * O = O /\ v * (b - a) = (b - a) * v
        BY <3>5
      <3>11. O \cong 1
        BY <3>7, <3>8, <3>9, <3>10 DEF \cong
      <3>. QED
        BY <3>11 DEF O
    <2>3. T # {} => (\E a \in T : T = {a}) \/ (\E a, b \in T : a # b)
      OBVIOUS
    <2>. QED
      BY <2>1, <2>2, <2>3
  <1>2. IsFiniteSet(S)
    BY IndexType
  <1>. HIDE DEF C
  <1>3. S \in C
    BY <1>1, <1>2, SubsetsBySmaller
  <1>. QED
    BY <1>3 DEF C


Values(c, S) == [i \in S |-> Poly(c, i)]

\* The coefficient of the zeroth power.
Lowest(c, d) == IF d = 0 THEN 0 ELSE c[1]

\* A polynomial with d coefficients interpolates, from any d of its values, to
\* its value at zero: one coefficient more, and one point less for the rest.
LEMMA Interpolation ==
    ASSUME NEW d \in Nat, NEW c \in [1..d -> Int], NEW S \in SUBSET Index, d <= Cardinality(S)
    PROVE  Interpolate(S, Values(c, S)) \cong Lowest(c, d)
  <1>. DEFINE Holds(k) == \A e \in [1..k -> Int], T \in SUBSET Index :
                             k <= Cardinality(T) => Interpolate(T, Values(e, T)) \cong Lowest(e, k)
              C == {k \in Nat : Holds(k)}
  <1>0. \A k \in Nat : \A e \in [1..k -> Int], T \in SUBSET Index : Values(e, T) \in [T -> Int]
    BY PolyType, IndexType DEF Values
  <1>1. 0 \in C
    <2>. SUFFICES ASSUME NEW e \in [1..0 -> Int], NEW T \in SUBSET Index
                  PROVE  Interpolate(T, Values(e, T)) \cong 0
      BY DEF Lowest
    <2>1. PICK v \in [T -> Int] : v = Values(e, T)
      BY <1>0
    <2>2. ASSUME NEW i \in T PROVE v[i] = 0
      <3>1. [j \in DOMAIN e |-> e[j] * Power(i, j - 1)] \in [{} -> Int]
        OBVIOUS
      <3>2. SumFunction([j \in DOMAIN e |-> e[j] * Power(i, j - 1)]) = 0
        BY <3>1, FS_EmptySet, SumSplit
      <3>. QED
        BY <2>1, <3>2 DEF Values, Poly
    <2>3. IsCombination(v, T, v, v, 0, 0)
      BY <2>2, IndexType DEF IsCombination, Combine
    <2>4. Interpolate(T, v) = 0 * Interpolate(T, v) + 0 * Interpolate(T, v)
      BY <2>3, InterpolateLinear DEF Combine
    <2>5. Interpolate(T, v) \in Int
      BY InterpolateType
    <2>6. Interpolate(T, v) = 0
      BY <2>4, <2>5
    <2>. QED
      BY <2>1, <2>6 DEF \cong
  <1>2. ASSUME NEW k \in Nat, k \in C PROVE k + 1 \in C
    <2>. SUFFICES ASSUME NEW e \in [1..(k + 1) -> Int], NEW T \in SUBSET Index,
                         k + 1 <= Cardinality(T)
                  PROVE  Interpolate(T, Values(e, T)) \cong e[1]
      BY DEF Lowest
    <2>. DEFINE l == LowerCoeffs(e, k)
                t == Lowest(l, k)
    <2>0. IsFiniteSet(T) /\ Cardinality(T) \in Nat /\ e[1] \in Int /\ l \in [1..k -> Int] /\ t \in Int
      <3>1. IsFiniteSet(T) /\ Cardinality(T) \in Nat
        BY IndexType, FS_CardinalityType
      <3>2. e[1] \in Int /\ l \in [1..k -> Int]
        BY DEF LowerCoeffs
      <3>3. t \in Int
        BY <3>2 DEF Lowest
      <3>. QED
        BY <3>1, <3>2, <3>3
    <2>. HIDE DEF l, t
    <2>1. PICK a \in T : Cardinality(T \ {a}) = Cardinality(T) - 1
      <3>1. Cardinality(T) # 0
        BY <2>0
      <3>2. T # {}
        BY <3>1, FS_EmptySet
      <3>. QED
        BY <2>0, <3>2, FS_RemoveElement
    <2>2. PICK p \in [T -> Int] : p = Values(l, T)
      BY <1>0, <2>0
    <2>3. PICK g \in [T -> Int] : g = [i \in T |-> i * p[i]]
      <3>1. \A i \in T : i * p[i] \in Int
        BY IndexType
      <3>2. [i \in T |-> i * p[i]] \in [T -> Int]
        BY <3>1
      <3>. QED
        BY <3>2, Zenon
    <2>4. Interpolate(T, p) \cong t
      <3>1. k <= Cardinality(T)
        BY <2>0
      <3>. QED
        BY <1>2, <2>0, <2>2, <3>1 DEF t
    <2>5. Interpolate(T \ {a}, Restrict(p, T \ {a})) \cong t
      <3>1. k <= Cardinality(T \ {a}) /\ T \ {a} \in SUBSET Index
        BY <2>0, <2>1
      <3>2. Restrict(p, T \ {a}) = Values(l, T \ {a})
        BY <2>2 DEF Restrict, Values
      <3>. QED
        BY <1>2, <2>0, <3>1, <3>2 DEF t
    <2>6. Interpolate(T, g) \cong 0
      <3>. DEFINE G == Interpolate(T, g)
                  F == Interpolate(T, p)
                  R == Interpolate(T \ {a}, Restrict(p, T \ {a}))
      <3>1. G + (-a) * F \cong (-a) * R
        BY <2>3, InterpolateShift
      <3>2. a \in Int /\ -a \in Int /\ -a \cong -a /\ a \cong a
        <4>1. a \in Int
          BY IndexType
        <4>. QED
          BY <4>1 DEF \cong
      <3>3. G \in Int /\ F \in Int /\ R \in Int
        <4>1. Restrict(p, T \ {a}) \in [T \ {a} -> Int] /\ T \ {a} \in SUBSET Index
          BY DEF Restrict
        <4>. QED
          BY <4>1, InterpolateType
      <3>4. F \cong t /\ R \cong t
        BY <2>4, <2>5
      <3>. HIDE DEF G, F, R
      <3>5. (-a) * R \cong (-a) * t /\ a * F \cong a * t
        BY <2>0, <3>2, <3>3, <3>4, CongruentOps
      <3>6. /\ G + (-a) * F \in Int /\ (-a) * R \in Int /\ (-a) * t \in Int
            /\ a * F \in Int /\ a * t \in Int
        BY <2>0, <3>2, <3>3
      <3>7. G + (-a) * F \cong (-a) * t
        BY <3>1, <3>5 DEF \cong
      <3>8. (G + (-a) * F) + a * F \cong (-a) * t + a * t
        BY <3>5, <3>6, <3>7, CongruentOps
      <3>9. (G + (-a) * F) + a * F = G /\ (-a) * t + a * t = 0
        BY <2>0, <3>2, <3>3
      <3>. QED
        BY <3>8, <3>9 DEF G
    <2>7. PICK h \in [T -> Int] : \A i \in T : h[i] = Combine(e[1], Ones(T)[i], 1, g[i])
      <3>1. \A i \in T : Combine(e[1], Ones(T)[i], 1, g[i]) \in Int
        BY <2>0 DEF Combine, Ones
      <3>2. [i \in T |-> Combine(e[1], Ones(T)[i], 1, g[i])] \in [T -> Int]
        BY <3>1
      <3>. QED
        BY <3>2
    <2>8. Interpolate(T, Values(e, T)) \cong Interpolate(T, h)
      <3>1. PICK v \in [T -> Int] : v = Values(e, T)
        <4>1. k + 1 \in Nat
          OBVIOUS
        <4>. QED
          BY <1>0, <4>1
      <3>2. ASSUME NEW i \in T PROVE v[i] \cong h[i]
        <4>1. i \in Int
          BY IndexType
        <4>2. Poly(e, i) \cong e[1] + i * Poly(l, i)
          BY <4>1, Horner DEF l
        <4>3. v[i] = Poly(e, i) /\ p[i] = Poly(l, i)
          BY <2>2, <3>1 DEF Values
        <4>4. h[i] = e[1] + i * p[i]
          <5>1. g[i] = i * p[i] /\ g[i] \in Int /\ Ones(T)[i] = 1
            BY <2>3 DEF Ones
          <5>. QED
            BY <2>0, <2>7, <5>1 DEF Combine
        <4>. QED
          BY <4>2, <4>3, <4>4
      <3>3. Interpolate(T, v) \cong Interpolate(T, h)
        BY <3>2, InterpolateCongruent
      <3>. QED
        BY <3>1, <3>3
    <2>9. Interpolate(T, h) = e[1] * Interpolate(T, Ones(T)) + 1 * Interpolate(T, g)
      <3>1. PICK o \in [T -> Int] : o = Ones(T)
        <4>1. Ones(T) \in [T -> Int]
          BY DEF Ones
        <4>. QED
          BY <4>1, Zenon
      <3>2. IsCombination(h, T, o, g, e[1], 1)
        BY <2>0, <2>7, <3>1 DEF IsCombination
      <3>3. Interpolate(T, h) = Combine(e[1], Interpolate(T, o), 1, Interpolate(T, g))
        BY <3>2, InterpolateLinear
      <3>. QED
        BY <3>1, <3>3 DEF Combine
    <2>10. e[1] * Interpolate(T, Ones(T)) + 1 * Interpolate(T, g) \cong e[1]
      <3>. DEFINE O == Interpolate(T, Ones(T))
                  G == Interpolate(T, g)
      <3>1. O \cong 1 /\ G \cong 0
        <4>1. T # {}
          BY <2>1
        <4>. QED
          BY <2>6, <4>1, InterpolateOne
      <3>2. O \in Int /\ G \in Int
        <4>1. Ones(T) \in [T -> Int]
          BY DEF Ones
        <4>. QED
          BY <4>1, InterpolateType
      <3>. HIDE DEF O, G
      <3>3. 1 \in Int /\ 0 \in Int /\ 1 \cong 1 /\ e[1] \cong e[1]
        BY DEF \cong
      <3>4. e[1] * O \cong e[1] * 1 /\ 1 * G \cong 1 * 0
        BY <2>0, <3>1, <3>2, <3>3, CongruentOps
      <3>5. e[1] * O \in Int /\ e[1] * 1 \in Int /\ 1 * G \in Int /\ 1 * 0 \in Int
        BY <2>0, <3>2
      <3>6. e[1] * O + 1 * G \cong e[1] * 1 + 1 * 0
        BY <3>4, <3>5, CongruentOps
      <3>7. e[1] * 1 + 1 * 0 = e[1]
        BY <2>0
      <3>. QED
        BY <3>6, <3>7 DEF O, G
    <2>. QED
      BY <2>8, <2>9, <2>10 DEF \cong
  <1>. HIDE DEF C
  <1>3. d \in C
    BY <1>1, <1>2, NaturalsBySuccessor
  <1>. QED
    BY <1>3 DEF C


----------------------------------------------------------------------------
(* What the prototype's sharing promises. *)

LEMMA EvaluateType ==
    ASSUME NEW d \in Nat, NEW c \in [1..d -> Int], NEW i \in Int
    PROVE  /\ EvaluatePolynomial(c, i) = Poly(c, i % P) % P
           /\ EvaluatePolynomial(c, i) \in Scalar
           /\ Poly(c, i % P) \in Int
  <1>1. i % P \in Int
    BY ScalarType
  <1>2. Poly(c, i % P) \in Int
    BY <1>1, PolyType
  <1>3. EvaluatePolynomial(c, i) = Poly(c, i % P) % P
    BY DEF EvaluatePolynomial, SumOf, Poly
  <1>. QED
    BY <1>2, <1>3, ScalarType

\* reconstruct_secret, given the values of a polynomial at as many indices as
\* it has coefficients, or more, returns its value at zero, which is what the
\* dealer kept: any threshold of shares gives the same secret.
THEOREM SharesGiveSecret ==
    ASSUME NEW d \in Nat \ {0}, NEW c \in [1..d -> Scalar],
           NEW S \in SUBSET Index, d <= Cardinality(S)
    PROVE  ReconstructSecret([i \in S |-> EvaluatePolynomial(c, i)]) = c[1]
  <1>1. d \in Nat /\ c \in [1..d -> Int] /\ c[1] \in Scalar /\ c[1] \in Int
    BY ScalarType
  <1>2. PICK f \in [S -> Int] : f = [i \in S |-> EvaluatePolynomial(c, i)]
    <2>1. \A i \in S : EvaluatePolynomial(c, i) \in Int
      BY <1>1, EvaluateType, IndexType, ScalarType
    <2>2. [i \in S |-> EvaluatePolynomial(c, i)] \in [S -> Int]
      BY <2>1
    <2>. QED
      BY <2>2, Zenon
  <1>3. PICK g \in [S -> Int] : g = Values(c, S)
    <2>1. Values(c, S) \in [S -> Int]
      BY <1>1, PolyType, IndexType DEF Values
    <2>. QED
      BY <2>1, Zenon
  <1>4. \A i \in S : f[i] \cong g[i]
    <2>. SUFFICES ASSUME NEW i \in S PROVE f[i] \cong g[i]
      OBVIOUS
    <2>1. i \in Int /\ i % P = i
      BY IndexType
    <2>2. f[i] = Poly(c, i) % P /\ g[i] = Poly(c, i) /\ Poly(c, i) \in Int
      BY <1>1, <1>2, <1>3, <2>1, EvaluateType DEF Values
    <2>. QED
      BY <2>2, CongruentBasics
  <1>5. Interpolate(S, f) \cong c[1]
    <2>1. Interpolate(S, g) \cong Lowest(c, d)
      BY <1>1, <1>3, Interpolation
    <2>2. Interpolate(S, f) \cong Interpolate(S, g)
      BY <1>4, InterpolateCongruent
    <2>3. Lowest(c, d) = c[1]
      BY DEF Lowest
    <2>. QED
      BY <2>1, <2>2, <2>3 DEF \cong
  <1>6. ReconstructSecret(f) = Interpolate(S, f) % P
    <2>1. DOMAIN f = S
      OBVIOUS
    <2>. QED
      BY <2>1 DEF ReconstructSecret, SumOf, Interpolate, Weight
  <1>7. c[1] % P = c[1]
    BY <1>1, CongruentBasics
  <1>. QED
    BY <1>2, <1>5, <1>6, <1>7 DEF \cong

\* verify_commitments, against what generate_commitments makes of a
\* polynomial, accepts a share exactly when it is the value at its index.
THEOREM VerifiedIsValue ==
    ASSUME NEW d \in Nat, NEW c \in [1..d -> Scalar],
           NEW D, NEW shares \in [D -> Scalar], NEW i \in D, i \in Int
    PROVE  VerifyCommitments(i, shares, GenerateCommitments(c))
             <=> shares[i] = EvaluatePolynomial(c, i)
  <1>. DEFINE x == i % P
  <1>1. /\ c \in [1..d -> Int] /\ Generator \in Int /\ 0 \in Int /\ IsFiniteSet(1..d)
        /\ x \in Int
    BY FieldAssumption, ScalarType, FS_Interval
  <1>2. PICK k \in [1..d -> Int] : k = GenerateCommitments(c)
    <2>1. ASSUME NEW j \in 1..d PROVE (Generator * c[j]) % P \in Int
      <3>1. Generator * c[j] \in Int
        BY <1>1
      <3>. QED
        BY <3>1, ScalarType
    <2>2. GenerateCommitments(c) = [j \in 1..d |-> (Generator * c[j]) % P]
      BY DEF GenerateCommitments
    <2>3. GenerateCommitments(c) \in [1..d -> Int]
      BY <2>1, <2>2
    <2>. QED
      BY <2>3, Zenon
  <1>3. PICK u \in [1..d -> Int] : u = [j \in 1..d |-> c[j] * Power(x, j - 1)]
    <2>1. [j \in 1..d |-> c[j] * Power(x, j - 1)] \in [1..d -> Int]
      BY <1>1, PolyType
    <2>. QED
      BY <2>1, Zenon
  <1>4. PICK v \in [1..d -> Int] : v = [j \in 1..d |-> k[j] * Power(x, j - 1)]
    <2>1. [j \in 1..d |-> k[j] * Power(x, j - 1)] \in [1..d -> Int]
      BY <1>1, PolyType
    <2>. QED
      BY <2>1, Zenon
  <1>5. PICK w \in [1..d -> Int] : \A j \in 1..d : w[j] = Combine(Generator, u[j], 0, u[j])
    <2>1. \A j \in 1..d : Combine(Generator, u[j], 0, u[j]) \in Int
      BY <1>1 DEF Combine
    <2>2. [j \in 1..d |-> Combine(Generator, u[j], 0, u[j])] \in [1..d -> Int]
      BY <2>1
    <2>. QED
      BY <2>2
  <1>6. ASSUME NEW j \in 1..d PROVE v[j] \cong w[j]
    <2>1. c[j] \in Int /\ Power(x, j - 1) \in Int /\ Generator * c[j] \in Int
      <3>1. j - 1 \in Nat
        OBVIOUS
      <3>2. Power(x, j - 1) \in Int
        BY <1>1, <3>1, PowerSteps
      <3>3. c[j] \in Int
        BY <1>1
      <3>. QED
        BY <1>1, <3>2, <3>3
    <2>. DEFINE y == Power(x, j - 1)
    <2>2. k[j] = (Generator * c[j]) % P
      BY <1>2 DEF GenerateCommitments
    <2>3. k[j] \cong Generator * c[j] /\ k[j] \in Int /\ y \in Int /\ y \cong y
      BY <2>1, <2>2, CongruentBasics DEF \cong
    <2>4. v[j] = k[j] * y /\ u[j] = c[j] * y
      BY <1>3, <1>4
    <2>. HIDE DEF y
    <2>5. k[j] * y \cong (Generator * c[j]) * y
      BY <2>1, <2>3, CongruentOps
    <2>6. w[j] = (Generator * c[j]) * y
      <3>1. c[j] \in Int /\ y \in Int /\ Generator \in Int
        BY <1>1, <2>1, <2>3
      <3>2. w[j] = Generator * (c[j] * y) + 0 * (c[j] * y)
        BY <1>5, <2>4 DEF Combine
      <3>. QED
        BY <3>1, <3>2
    <2>. QED
      BY <2>4, <2>5, <2>6
  <1>. DEFINE U == SumFunction(u)
  <1>7. SumFunction(v) \cong Generator * U /\ U \in Int
    <2>1. SumFunction(v) \cong SumFunction(w)
      BY <1>1, <1>6, SumCongruent
    <2>2. IsCombination(w, 1..d, u, u, Generator, 0)
      BY <1>1, <1>5 DEF IsCombination
    <2>3. SumFunction(w) = Combine(Generator, U, 0, U)
      BY <2>2, SumLinear
    <2>4. U \in Int
      BY <1>1, SumSplit
    <2>5. Combine(Generator, U, 0, U) = Generator * U
      BY <1>1, <2>4 DEF Combine
    <2>. QED
      BY <2>1, <2>3, <2>4, <2>5
  <1>8. EvaluatePolynomial(c, i) = U % P
    BY <1>3 DEF EvaluatePolynomial, SumOf
  <1>9. /\ VerifyCommitments(i, shares, k) <=> SumFunction(v) % P = (Generator * shares[i]) % P
        /\ shares[i] \in Scalar /\ shares[i] \in Int
    <2>1. DOMAIN k = 1..d /\ i \in DOMAIN shares /\ shares[i] \in Scalar
      OBVIOUS
    <2>. QED
      BY <1>4, <2>1, ScalarType DEF VerifyCommitments, SumOf
  <1>. HIDE DEF U, x
  <1>10. ASSUME shares[i] = U % P
         PROVE  VerifyCommitments(i, shares, k)
    <2>1. (Generator * (U % P)) % P = (Generator * U) % P
      BY <1>1, <1>7, ProductModulo
    <2>. QED
      BY <1>7, <1>9, <1>10, <2>1 DEF \cong
  <1>11. ASSUME VerifyCommitments(i, shares, k)
         PROVE  shares[i] = U % P
    <2>1. Generator * shares[i] \cong Generator * U
      BY <1>7, <1>9, <1>11 DEF \cong
    <2>2. PICK q \in Int : Generator * q \cong 1
      <3>1. Generator \in Scalar /\ Generator # 0 /\ 0 \in Scalar
        BY FieldAssumption, ScalarType DEF Scalar
      <3>2. ~(Generator \cong 0)
        BY <3>1, CongruentBasics
      <3>3. Invert(Generator % P) \in Int /\ Generator * Invert(Generator % P) \cong 1
        BY <1>1, <3>2, InvertInverts, ScalarType
      <3>. QED
        BY <3>3
    <2>. DEFINE s == shares[i]
    <2>3. ASSUME NEW y \in Int PROVE q * (Generator * y) \cong y
      <3>1. Generator * q \in Int /\ 1 \in Int /\ y \cong y
        BY <1>1 DEF \cong
      <3>2. (Generator * q) * y \cong 1 * y
        BY <2>2, <3>1, CongruentOps
      <3>3. (Generator * q) * y = q * (Generator * y) /\ 1 * y = y
        BY <1>1
      <3>. QED
        BY <3>2, <3>3
    <2>4. q * (Generator * shares[i]) \cong q * (Generator * U)
      <3>1. q \cong q /\ Generator * shares[i] \in Int /\ Generator * U \in Int
        BY <1>1, <1>7, <1>9 DEF \cong
      <3>. QED
        BY <2>1, <3>1, CongruentOps
    <2>5. shares[i] \cong U
      <3>1. q * (Generator * shares[i]) \cong shares[i] /\ q * (Generator * U) \cong U
        BY <1>7, <1>9, <2>3
      <3>. QED
        BY <2>4, <3>1 DEF \cong
    <2>6. shares[i] % P = shares[i]
      BY <1>9, CongruentBasics
    <2>. QED
      BY <2>5, <2>6 DEF \cong
  <1>. QED
    BY <1>2, <1>8, <1>10, <1>11

=============================================================================
