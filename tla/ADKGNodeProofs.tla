--------------------------- MODULE ADKGNodeProofs ---------------------------
(***************************************************************************)
(* The safety of the ADKG prototype, for any finite set of nodes, any      *)
(* thresholds and any polynomials over the field of any prime order.       *)
(*                                                                         *)
(* The argument: a node draws once, so all that is ever published of a     *)
(* dealer is one proposal, and whatever two nodes have stored of it are    *)
(* values of one polynomial and its one list of commitments.  Sums over    *)
(* stored values therefore stay what they were when they were taken, and   *)
(* any threshold of shares interpolates to what the commitments commit to. *)
(***************************************************************************)
EXTENDS ADKGNode, DataLemmas, SecretSharingProofs

----------------------------------------------------------------------------
(* The inductive invariant. *)

\* What was published of a dealer's polynomial.
Proposals(d) == {m \in published : m.type = "ShareProposal" /\ m.sender_id = d}

\* m is the proposal node n stored from d.
StoredFrom(n, d, m) ==
    /\ Idx[n] \in DOMAIN m.shares
    /\ shares[n][d] = m.shares[Idx[n]]
    /\ commitments[n][d] = m.commitments

AckPairs(map) == UNION {{d} \X (1..map[d]) : d \in DOMAIN map}

\* Every table is of all nodes and its entries are of their types.
TablesTyped ==
    /\ ended \subseteq Nodes /\ started \subseteq Nodes
    /\ DOMAIN shares = Nodes /\ DOMAIN commitments = Nodes /\ DOMAIN acks = Nodes
    /\ DOMAIN secret_key_share = Nodes /\ DOMAIN public_key = Nodes
    /\ \A n \in Nodes :
          /\ IsHashMap(shares[n], Nodes \ {n}, Scalar)
          /\ IsHashMap(commitments[n], Nodes, Seq(Scalar))
          /\ IsHashMap(acks[n], Nodes \ {n}, 1..MaxAcks)
          /\ secret_key_share[n] \in Scalar \cup {None}
          /\ public_key[n] \in Scalar \cup {None}

\* What is published is a proposal of a node that has started, or the
\* acknowledgement of a share that its sender holds.
PublishedGenuine ==
    \A m \in published :
       \/ \E d \in started : \E c \in Draws[d] : m = ShareProposal(d, c)
       \/ \E n, d \in Nodes : m = ShareAck(n, d) /\ d \in DOMAIN shares[n]

OneProposal == \A d \in Nodes : \A m, k \in Proposals(d) : m = k

\* What a node has of a dealer is of one proposal, and it has commitments of
\* the same dealers and, once it has started, of its own polynomial.
StoredAsPublished ==
    \A n \in Nodes :
       /\ \A d \in DOMAIN shares[n] : \E m \in Proposals(d) : StoredFrom(n, d, m)
       /\ n \in started => \E m \in Proposals(n) : commitments[n][n] = m.commitments
       /\ DOMAIN commitments[n] = DOMAIN shares[n] \cup ({n} \cap started)

\* A node has its key and its share of it as soon as it has T acks.
KeysWithAcks ==
    \A n \in Nodes :
       /\ IsFiniteSet(AckPairs(acks[n]))
       /\ T[n] > 0 => (AckCount(acks[n]) >= T[n] <=> public_key[n] # None)
       /\ public_key[n] = None <=> secret_key_share[n] = None
       /\ public_key[n] # None => n \in started

ADKGInv ==
    /\ TablesTyped
    /\ PublishedGenuine
    /\ OneProposal
    /\ StoredAsPublished
    /\ AcksAreOfHolders
    /\ KeysWithAcks
    /\ KeyCountsOneMore


----------------------------------------------------------------------------
(* The operators of the model. *)

\* The fields of a proposal.
LEMMA ProposalFields ==
    ASSUME NEW n \in Nodes, NEW c \in Draws[n]
    PROVE  /\ c \in [1..(T[n] + 1) -> Scalar] /\ T[n] \in Nat /\ N[n] \in Nat
           /\ ShareProposal(n, c).type = "ShareProposal"
           /\ ShareProposal(n, c).sender_id = n
           /\ ShareProposal(n, c).shares \in [1..N[n] -> Scalar]
           /\ \A i \in 1..N[n] : ShareProposal(n, c).shares[i] = EvaluatePolynomial(c, i)
           /\ ShareProposal(n, c).commitments = GenerateCommitments(c)
           /\ GenerateCommitments(c) \in [1..(T[n] + 1) -> Scalar]
           /\ GenerateCommitments(c) \in Seq(Scalar)
           /\ GenerateCommitments(c)[1] = (Generator * c[1]) % P
  <1>1. c \in [1..(T[n] + 1) -> Scalar] /\ T[n] \in Nat /\ N[n] \in Nat
    BY ADKGAssumption
  <1>0. /\ \A x \in Scalar : x \in Int
        /\ \A j \in 1..(T[n] + 1) : c[j] \in Int
    <2>1. \A x \in Scalar : x \in Int
      BY ScalarType
    <2>2. \A j \in 1..(T[n] + 1) : c[j] \in Scalar
      BY <1>1
    <2>. QED
      BY <2>1, <2>2
  <1>2. ASSUME NEW i \in 1..N[n] PROVE EvaluatePolynomial(c, i) \in Scalar
    <2>1. T[n] + 1 \in Nat /\ c \in [1..(T[n] + 1) -> Int] /\ i \in Int
      BY <1>0, <1>1
    <2>. QED
      BY <2>1, EvaluateType
  <1>3. ASSUME NEW j \in 1..(T[n] + 1) PROVE (Generator * c[j]) % P \in Scalar
    <2>1. c[j] \in Int /\ Generator \in Int
      BY <1>0, FieldAssumption
    <2>2. Generator * c[j] \in Int
      BY <2>1
    <2>. QED
      BY <2>2, ScalarType
  <1>4. /\ GenerateCommitments(c) \in [1..(T[n] + 1) -> Scalar]
        /\ GenerateCommitments(c)[1] = (Generator * c[1]) % P
    <2>1. GenerateCommitments(c) = [j \in 1..(T[n] + 1) |-> (Generator * c[j]) % P]
      BY <1>1 DEF GenerateCommitments
    <2>2. 1 \in 1..(T[n] + 1)
      BY <1>1
    <2>. QED
      BY <1>3, <2>1, <2>2
  <1>5. GenerateCommitments(c) \in Seq(Scalar)
    <2>1. T[n] + 1 \in Nat
      BY <1>1
    <2>. QED
      BY <1>4, <2>1
  <1>. QED
    BY <1>1, <1>2, <1>4, <1>5 DEF ShareProposal

\* The sum of the values of a map of integers is a scalar.
LEMMA SumOfMap ==
    ASSUME NEW D \in SUBSET Nodes, NEW f \in [D -> Int]
    PROVE  SumOf(f) \in Scalar
  <1>1. IsFiniteSet(D)
    BY ADKGAssumption, FS_Subset
  <1>2. SumFunction(f) \in Int
    BY <1>1, SumSplit
  <1>. QED
    BY <1>2, ScalarType DEF SumOf

\* One ack more is one pair more, and no sender has more acks than there are.
LEMMA AckCounted ==
    ASSUME NEW K, NEW map, IsHashMap(map, K, Nat), IsFiniteSet(AckPairs(map)), NEW d
    PROVE  LET old  == EntryOr(map, d, 0)
               more == Insert(map, d, old + 1)
           IN  /\ AckCount(map) \in Nat /\ old \in Nat /\ old <= AckCount(map)
               /\ IsFiniteSet(AckPairs(more))
               /\ AckCount(more) = AckCount(map) + 1
  <1>. DEFINE old  == EntryOr(map, d, 0)
              more == Insert(map, d, old + 1)
  <1>1. old \in Nat
    BY DEF EntryOr, IsHashMap
  <1>2. {d} \X (1..old) \in SUBSET AckPairs(map)
    <2>1. CASE d \in DOMAIN map
      BY <2>1 DEF EntryOr, AckPairs
    <2>2. CASE d \notin DOMAIN map
      <3>1. old = 0 /\ 1..0 = {}
        BY <2>2 DEF EntryOr
      <3>. QED
        BY <3>1
    <2>. QED
      BY <2>1, <2>2
  <1>3. Cardinality({d} \X (1..old)) = old
    <2>1. IsFiniteSet({d}) /\ Cardinality({d}) = 1
      BY FS_Singleton
    <2>2. IsFiniteSet(1..old) /\ Cardinality(1..old) = old
      BY <1>1, FS_Interval
    <2>3. Cardinality({d} \X (1..old)) = Cardinality({d}) * Cardinality(1..old)
      BY <2>1, <2>2, FS_Product
    <2>. QED
      BY <1>1, <2>1, <2>2, <2>3
  <1>4. Cardinality({d} \X (1..old)) <= Cardinality(AckPairs(map))
    BY <1>2, FS_Subset
  <1>5. AckPairs(more) = AckPairs(map) \cup {<<d, old + 1>>}
    <2>1. 1..(old + 1) = (1..old) \cup {old + 1}
      BY <1>1
    <2>2. ASSUME NEW p \in AckPairs(more)
          PROVE  p \in AckPairs(map) \cup {<<d, old + 1>>}
      <3>1. PICK e \in DOMAIN more : p \in {e} \X (1..more[e])
        BY <2>2 DEF AckPairs
      <3>2. CASE e = d
        <4>1. p \in {d} \X (1..(old + 1))
          BY <3>1, <3>2 DEF Insert
        <4>2. p \in {d} \X (1..old) \/ p = <<d, old + 1>>
          BY <2>1, <4>1
        <4>. QED
          BY <1>2, <4>2
      <3>3. CASE e # d
        <4>1. e \in DOMAIN map /\ more[e] = map[e]
          BY <3>1, <3>3 DEF Insert
        <4>. QED
          BY <3>1, <4>1 DEF AckPairs
      <3>. QED
        BY <3>2, <3>3
    <2>3. ASSUME NEW p \in AckPairs(map)
          PROVE  p \in AckPairs(more)
      <3>1. PICK e \in DOMAIN map : p \in {e} \X (1..map[e])
        BY <2>3 DEF AckPairs
      <3>2. CASE e = d
        <4>1. p \in {d} \X (1..old)
          BY <3>1, <3>2 DEF EntryOr
        <4>2. d \in DOMAIN more /\ more[d] = old + 1
          BY DEF Insert
        <4>3. p \in {d} \X (1..more[d])
          BY <2>1, <4>1, <4>2
        <4>. QED
          BY <4>2, <4>3 DEF AckPairs
      <3>3. CASE e # d
        <4>1. e \in DOMAIN more /\ more[e] = map[e]
          BY <3>1, <3>3 DEF Insert
        <4>. QED
          BY <3>1, <4>1 DEF AckPairs
      <3>. QED
        BY <3>2, <3>3
    <2>4. <<d, old + 1>> \in AckPairs(more)
      <3>1. d \in DOMAIN more /\ more[d] = old + 1 /\ old + 1 \in 1..(old + 1)
        BY <1>1 DEF Insert
      <3>. QED
        BY <3>1 DEF AckPairs
    <2>. QED
      BY <2>2, <2>3, <2>4
  <1>6. <<d, old + 1>> \notin AckPairs(map)
    <2>. SUFFICES ASSUME <<d, old + 1>> \in AckPairs(map) PROVE FALSE
      OBVIOUS
    <2>1. PICK e \in DOMAIN map : <<d, old + 1>> \in {e} \X (1..map[e])
      BY DEF AckPairs
    <2>2. d \in DOMAIN map /\ old + 1 \in 1..map[d] /\ map[d] = old
      BY <2>1 DEF EntryOr
    <2>. QED
      BY <1>1, <2>2
  <1>. HIDE DEF old, more
  <1>7. /\ IsFiniteSet(AckPairs(more))
        /\ Cardinality(AckPairs(more)) = Cardinality(AckPairs(map)) + 1
    BY <1>5, <1>6, FS_AddElement
  <1>8. Cardinality(AckPairs(map)) \in Nat
    BY FS_CardinalityType
  <1>9. AckCount(map) = Cardinality(AckPairs(map)) /\ AckCount(more) = Cardinality(AckPairs(more))
    BY DEF AckCount, AckPairs
  <1>. QED
    BY <1>1, <1>3, <1>4, <1>7, <1>8, <1>9 DEF old, more


----------------------------------------------------------------------------
(* The invariant is inductive. *)

LEMMA MessageGenuine ==
    ASSUME PublishedGenuine, TablesTyped, NEW m \in published
    PROVE  /\ m.type = "ShareProposal" =>
                 /\ m.sender_id \in started /\ m.sender_id \in Nodes
                 /\ m \in Proposals(m.sender_id)
                 /\ \E c \in Draws[m.sender_id] : m = ShareProposal(m.sender_id, c)
           /\ m.type = "ShareAck" =>
                 /\ m.sender_id \in Nodes /\ m.receiver_id \in Nodes
                 /\ m.receiver_id \in DOMAIN shares[m.sender_id]
  <1>1. CASE \E d \in started : \E c \in Draws[d] : m = ShareProposal(d, c)
    <2>1. PICK d \in started : \E c \in Draws[d] : m = ShareProposal(d, c)
      BY <1>1
    <2>2. m.type = "ShareProposal" /\ m.sender_id = d /\ d \in Nodes
      BY <2>1 DEF ShareProposal, TablesTyped
    <2>. QED
      BY <2>1, <2>2 DEF Proposals
  <1>2. CASE \E n, d \in Nodes : m = ShareAck(n, d) /\ d \in DOMAIN shares[n]
    BY <1>2 DEF ShareAck
  <1>. QED
    BY <1>1, <1>2 DEF PublishedGenuine

\* Who has a share of a dealer's has it, and its commitments, as published.
LEMMA AllStoredOne ==
    ASSUME OneProposal, StoredAsPublished, TablesTyped,
           NEW n \in Nodes, NEW d \in DOMAIN shares[n], NEW m \in Proposals(d)
    PROVE  StoredFrom(n, d, m) /\ d \in Nodes /\ d # n
  <1>1. PICK k \in Proposals(d) : StoredFrom(n, d, k)
    BY DEF StoredAsPublished
  <1>2. d \in Nodes /\ d # n
    BY DEF TablesTyped, IsHashMap
  <1>. QED
    BY <1>1, <1>2 DEF OneProposal

\* A map keeps what it holds.
Keeps(map, new, K) == \A k \in K : new[k] = map[k]

\* Keys are of values that stay where they are.
LEMMA KeysKept ==
    ASSUME KeyCountsOneMore, UNCHANGED keyVars,
           \A n \in Nodes : public_key[n] # None =>
              /\ DOMAIN shares[n] \subseteq DOMAIN shares'[n]
              /\ Keeps(shares[n], shares'[n], DOMAIN shares[n])
              /\ Keeps(commitments[n], commitments'[n], DOMAIN shares[n] \cup {n})
    PROVE  KeyCountsOneMore'
  <1>. SUFFICES ASSUME NEW n \in Nodes, public_key'[n] # None
                PROVE  \E D \in SUBSET (Nodes \ {n}) :
                          /\ D \subseteq DOMAIN shares'[n]
                          /\ secret_key_share'[n] = SumOf([d \in D |-> shares'[n][d]])
                          /\ public_key'[n] = SumOf([d \in D \cup {n} |-> commitments'[n][d][1]])
    BY DEF KeyCountsOneMore
  <1>1. public_key'[n] = public_key[n] /\ secret_key_share'[n] = secret_key_share[n]
    BY DEF keyVars
  <1>2. PICK D \in SUBSET (Nodes \ {n}) :
          /\ D \subseteq DOMAIN shares[n]
          /\ secret_key_share[n] = SumOf([d \in D |-> shares[n][d]])
          /\ public_key[n] = SumOf([d \in D \cup {n} |-> commitments[n][d][1]])
    BY <1>1 DEF KeyCountsOneMore
  <1>3. D \subseteq DOMAIN shares'[n]
    BY <1>1, <1>2
  <1>4. [d \in D |-> shares'[n][d]] = [d \in D |-> shares[n][d]]
    BY <1>1, <1>2 DEF Keeps
  <1>5. [d \in D \cup {n} |-> commitments'[n][d][1]] = [d \in D \cup {n} |-> commitments[n][d][1]]
    <2>1. ASSUME NEW d \in D \cup {n} PROVE commitments'[n][d] = commitments[n][d]
      BY <1>1, <1>2 DEF Keeps
    <2>. QED
      BY <2>1
  <1>. QED
    BY <1>1, <1>2, <1>3, <1>4, <1>5

LEMMA InitInv == ADKGInit => ADKGInv
  <1>. SUFFICES ASSUME ADKGInit PROVE ADKGInv
    OBVIOUS
  <1>0. DOMAIN EmptyMap = {} /\ None \notin Nat /\ T \in [Nodes -> Nat]
    BY ADKGAssumption DEF EmptyMap
  <1>1. TablesTyped
    BY <1>0 DEF ADKGInit, TablesTyped, IsHashMap
  <1>2. PublishedGenuine /\ OneProposal /\ StoredAsPublished
    BY <1>0 DEF ADKGInit, PublishedGenuine, OneProposal, Proposals, StoredAsPublished
  <1>3. AcksAreOfHolders /\ KeyCountsOneMore
    BY <1>0 DEF ADKGInit, AcksAreOfHolders, KeyCountsOneMore
  <1>4. KeysWithAcks
    <2>1. AckPairs(EmptyMap) = {} /\ AckCount(EmptyMap) = 0
      <3>1. AckPairs(EmptyMap) = {}
        BY <1>0 DEF AckPairs
      <3>2. AckCount(EmptyMap) = Cardinality(AckPairs(EmptyMap))
        BY DEF AckCount, AckPairs
      <3>. QED
        BY <3>1, <3>2, FS_EmptySet
    <2>2. ASSUME NEW n \in Nodes
          PROVE  /\ acks[n] = EmptyMap /\ T[n] \in Nat
                 /\ public_key[n] = None /\ secret_key_share[n] = None
      BY <1>0 DEF ADKGInit
    <2>3. IsFiniteSet(AckPairs(EmptyMap))
      BY <2>1, FS_EmptySet
    <2>. QED
      BY <2>1, <2>2, <2>3 DEF KeysWithAcks
  <1>. QED
    BY <1>1, <1>2, <1>3, <1>4 DEF ADKGInv

\* An error ends a node's run and leaves everything else.
LEMMA EndedInv ==
    ASSUME ADKGInv, NEW n \in Nodes, ended' = ended \cup {n},
           UNCHANGED <<started, shares, commitments, acks, keyVars, published>>
    PROVE  ADKGInv'
  <1>1. TablesTyped'
    BY DEF ADKGInv, TablesTyped, keyVars
  <1>2. PublishedGenuine' /\ OneProposal' /\ StoredAsPublished'
    BY DEF ADKGInv, PublishedGenuine, OneProposal, Proposals, StoredAsPublished, StoredFrom
  <1>3. AcksAreOfHolders' /\ KeyCountsOneMore' /\ KeysWithAcks'
    <2>1. AcksAreOfHolders'
      BY DEF ADKGInv, AcksAreOfHolders, Holders
    <2>2. KeyCountsOneMore'
      <3>1. KeyCountsOneMore /\ UNCHANGED <<shares, commitments, keyVars>>
        BY DEF ADKGInv
      <3>2. ASSUME NEW k \in Nodes
            PROVE  /\ DOMAIN shares[k] \subseteq DOMAIN shares'[k]
                   /\ Keeps(shares[k], shares'[k], DOMAIN shares[k])
                   /\ Keeps(commitments[k], commitments'[k], DOMAIN shares[k] \cup {k})
        BY <3>1 DEF Keeps
      <3>. QED
        BY <3>1, <3>2, KeysKept
    <2>3. KeysWithAcks'
      BY DEF ADKGInv, KeysWithAcks, keyVars
    <2>. QED
      BY <2>1, <2>2, <2>3
  <1>. QED
    BY <1>1, <1>2, <1>3 DEF ADKGInv

LEMMA StartInv ==
    ASSUME ADKGInv, NEW n \in Nodes, StartAdkg(n)
    PROVE  ADKGInv'
  <1>0. /\ TablesTyped /\ PublishedGenuine /\ OneProposal /\ StoredAsPublished
        /\ AcksAreOfHolders /\ KeysWithAcks /\ KeyCountsOneMore
        /\ n \notin started /\ n \notin ended
    BY DEF ADKGInv, StartAdkg
  <1>1. PICK c \in Draws[n] :
          /\ Publish(n, ShareProposal(n, c))
          /\ commitments' = IF n \in ended' THEN commitments ELSE
                [commitments EXCEPT ![n] = Insert(@, n, GenerateCommitments(c))]
    BY DEF StartAdkg
  <1>2. UNCHANGED <<shares, acks, keyVars>> /\ started' = started \cup ({n} \ ended')
    BY DEF StartAdkg
  <1>3. CASE ended' = ended \cup {n} /\ UNCHANGED published
    BY <1>1, <1>2, <1>3, EndedInv
  <1>4. CASE published' = published \cup {ShareProposal(n, c)} /\ UNCHANGED ended
    <2>. DEFINE p == ShareProposal(n, c)
                v == GenerateCommitments(c)
    <2>1. /\ started' = started \cup {n}
          /\ commitments' = [commitments EXCEPT ![n] = Insert(commitments[n], n, v)]
      BY <1>0, <1>1, <1>2, <1>4
    <2>2. p.type = "ShareProposal" /\ p.sender_id = n /\ p.commitments = v /\ v \in Seq(Scalar)
      BY ProposalFields
    <2>. HIDE DEF p, v
    <2>3. /\ commitments'[n] = Insert(commitments[n], n, v)
          /\ \A k \in Nodes : k # n => commitments'[k] = commitments[k]
          /\ DOMAIN commitments' = Nodes
      BY <1>0, <2>1 DEF TablesTyped
    <2>4. DOMAIN commitments'[n] = DOMAIN commitments[n] \cup {n} /\ commitments'[n][n] = v
      BY <2>3 DEF Insert
    <2>5. n \notin DOMAIN commitments[n] /\ public_key[n] = None
      <3>1. n \notin DOMAIN shares[n]
        BY <1>0 DEF TablesTyped, IsHashMap
      <3>. QED
        BY <1>0, <3>1 DEF StoredAsPublished, KeysWithAcks
    <2>6. \A k \in Nodes : Keeps(commitments[k], commitments'[k], DOMAIN commitments[k])
      <3>1. Keeps(commitments[n], commitments'[n], DOMAIN commitments[n])
        BY <2>3, <2>5 DEF Insert, Keeps
      <3>. QED
        BY <2>3, <3>1 DEF Keeps
    <2>7. Proposals(n) = {}
      BY <1>0, MessageGenuine DEF Proposals
    <2>8. Proposals(n)' = {p} /\ \A d \in Nodes : d # n => Proposals(d)' = Proposals(d)
      <3>1. \A d : Proposals(d)' = Proposals(d) \cup {m \in {p} : m.type = "ShareProposal" /\ m.sender_id = d}
        BY <1>4 DEF Proposals, p
      <3>. QED
        BY <2>2, <2>7, <3>1
    <2>9. TablesTyped'
      <3>1. IsHashMap(commitments'[n], Nodes, Seq(Scalar))
        <4>1. IsHashMap(commitments[n], Nodes, Seq(Scalar))
          BY <1>0 DEF TablesTyped
        <4>2. IsHashMap(Insert(commitments[n], n, v), Nodes, Seq(Scalar))
          BY <2>2, <4>1, InsertType
        <4>. QED
          BY <2>3, <4>2
      <3>. QED
        BY <1>0, <1>2, <1>4, <2>1, <2>3, <3>1 DEF TablesTyped, keyVars
    <2>10. PublishedGenuine'
      BY <1>0, <1>2, <1>4, <2>1 DEF PublishedGenuine
    <2>11. OneProposal'
      BY <1>0, <2>8 DEF OneProposal
    <2>12. StoredAsPublished'
      <3>1. ASSUME NEW k \in Nodes, NEW d \in DOMAIN shares'[k]
            PROVE  \E m \in Proposals(d)' : StoredFrom(k, d, m)'
        <4>1. d \in DOMAIN shares[k] /\ d \in Nodes /\ shares' = shares
          BY <1>0, <1>2 DEF TablesTyped, IsHashMap
        <4>2. PICK m \in Proposals(d) : StoredFrom(k, d, m)
          BY <1>0, <4>1 DEF StoredAsPublished
        <4>3. commitments'[k][d] = commitments[k][d]
          <5>1. d \in DOMAIN commitments[k]
            BY <1>0, <4>1 DEF StoredAsPublished
          <5>. QED
            BY <2>6, <5>1 DEF Keeps
        <4>4. m \in Proposals(d)'
          BY <2>7, <2>8, <4>1, <4>2
        <4>. QED
          BY <4>1, <4>2, <4>3, <4>4 DEF StoredFrom
      <3>2. ASSUME NEW k \in Nodes, k \in started'
            PROVE  \E m \in Proposals(k)' : commitments'[k][k] = m.commitments
        <4>1. CASE k = n
          BY <2>2, <2>4, <2>8, <4>1
        <4>2. CASE k # n
          BY <1>0, <2>1, <2>3, <2>8, <3>2, <4>2 DEF StoredAsPublished
        <4>. QED
          BY <4>1, <4>2
      <3>3. ASSUME NEW k \in Nodes
            PROVE  DOMAIN commitments'[k] = DOMAIN shares'[k] \cup ({k} \cap started')
        <4>1. DOMAIN commitments[k] = DOMAIN shares[k] \cup ({k} \cap started)
          BY <1>0 DEF StoredAsPublished
        <4>2. CASE k = n
          BY <1>2, <2>1, <2>4, <4>1, <4>2
        <4>3. CASE k # n
          BY <1>2, <2>1, <2>3, <4>1, <4>3
        <4>. QED
          BY <4>2, <4>3
      <3>. QED
        BY <3>1, <3>2, <3>3 DEF StoredAsPublished
    <2>13. AcksAreOfHolders'
      BY <1>0, <1>2 DEF AcksAreOfHolders, Holders
    <2>14. KeysWithAcks'
      BY <1>0, <1>2, <2>1 DEF KeysWithAcks, keyVars
    <2>15. KeyCountsOneMore'
      <3>1. ASSUME NEW k \in Nodes, public_key[k] # None
            PROVE  /\ DOMAIN shares[k] \subseteq DOMAIN shares'[k]
                   /\ Keeps(shares[k], shares'[k], DOMAIN shares[k])
                   /\ Keeps(commitments[k], commitments'[k], DOMAIN shares[k] \cup {k})
        <4>1. k # n
          BY <2>5, <3>1
        <4>. QED
          BY <1>2, <2>3, <4>1 DEF Keeps
      <3>. QED
        BY <1>0, <1>2, <3>1, KeysKept
    <2>. QED
      BY <2>9, <2>10, <2>11, <2>12, <2>13, <2>14, <2>15 DEF ADKGInv
  <1>. QED
    BY <1>1, <1>3, <1>4 DEF Publish


\* A share that verifies is stored with its commitments, and acknowledged.
LEMMA ProposalInv ==
    ASSUME ADKGInv, NEW n \in Nodes, NEW m \in published, m.type = "ShareProposal",
           m.sender_id # n, HandleProposal(n, m)
    PROVE  ADKGInv'
  <1>0. /\ TablesTyped /\ PublishedGenuine /\ OneProposal /\ StoredAsPublished
        /\ AcksAreOfHolders /\ KeysWithAcks /\ KeyCountsOneMore
    BY DEF ADKGInv
  <1>. DEFINE d == m.sender_id
              s == m.shares[Idx[n]]
              v == m.commitments
  <1>1. CASE UNCHANGED adkgVars
    <2>1. UNCHANGED <<started, shares, commitments, acks, keyVars, published>> /\ ended' = ended
      BY <1>1 DEF adkgVars
    <2>2. TablesTyped'
      BY <1>0, <2>1 DEF TablesTyped, keyVars
    <2>3. PublishedGenuine' /\ OneProposal' /\ StoredAsPublished'
      BY <1>0, <2>1 DEF PublishedGenuine, OneProposal, Proposals, StoredAsPublished, StoredFrom
    <2>4. AcksAreOfHolders' /\ KeysWithAcks'
      BY <1>0, <2>1 DEF AcksAreOfHolders, Holders, KeysWithAcks, keyVars
    <2>5. KeyCountsOneMore'
      <3>1. ASSUME NEW k \in Nodes
            PROVE  /\ DOMAIN shares[k] \subseteq DOMAIN shares'[k]
                   /\ Keeps(shares[k], shares'[k], DOMAIN shares[k])
                   /\ Keeps(commitments[k], commitments'[k], DOMAIN shares[k] \cup {k})
        BY <2>1 DEF Keeps
      <3>. QED
        BY <1>0, <2>1, <3>1, KeysKept
    <2>. QED
      BY <2>2, <2>3, <2>4, <2>5 DEF ADKGInv
  <1>2. CASE /\ VerifyCommitments(Idx[n], m.shares, m.commitments)
             /\ shares' = [shares EXCEPT ![n] = Insert(@, m.sender_id, m.shares[Idx[n]])]
             /\ commitments' = [commitments EXCEPT ![n] = Insert(@, m.sender_id, m.commitments)]
             /\ Publish(n, ShareAck(n, m.sender_id))
             /\ UNCHANGED <<started, acks, keyVars>>
    <2>1. /\ d \in started /\ d \in Nodes /\ d # n /\ m \in Proposals(d)
          /\ s \in Scalar /\ v \in Seq(Scalar) /\ Idx[n] \in DOMAIN m.shares
      <3>1. d \in started /\ d \in Nodes /\ m \in Proposals(d)
        BY <1>0, MessageGenuine
      <3>2. PICK c \in Draws[d] : m = ShareProposal(d, c)
        BY <1>0, MessageGenuine
      <3>3. Idx[n] \in DOMAIN m.shares
        BY <1>2 DEF VerifyCommitments
      <3>4. m.shares \in [1..N[d] -> Scalar] /\ m.commitments \in Seq(Scalar)
        BY <3>1, <3>2, ProposalFields
      <3>. QED
        BY <3>1, <3>3, <3>4
    <2>. HIDE DEF s, v, d
    <2>2. /\ shares'[n] = Insert(shares[n], d, s) /\ commitments'[n] = Insert(commitments[n], d, v)
          /\ \A k \in Nodes : k # n => shares'[k] = shares[k] /\ commitments'[k] = commitments[k]
          /\ DOMAIN shares' = Nodes /\ DOMAIN commitments' = Nodes
      BY <1>0, <1>2 DEF TablesTyped, s, v, d
    <2>3. UNCHANGED <<started, acks, keyVars>>
      BY <1>2
    <2>4. \A e : Proposals(e)' = Proposals(e)
      <3>1. published' = published \/ published' = published \cup {ShareAck(n, d)}
        BY <1>2 DEF Publish, d
      <3>2. ShareAck(n, d).type # "ShareProposal"
        BY DEF ShareAck
      <3>. HIDE DEF d
      <3>. QED
        BY <3>1, <3>2 DEF Proposals
    <2>5. /\ DOMAIN shares'[n] = DOMAIN shares[n] \cup {d} /\ shares'[n][d] = s
          /\ DOMAIN commitments'[n] = DOMAIN commitments[n] \cup {d} /\ commitments'[n][d] = v
          /\ \A e \in DOMAIN shares[n] : e # d => shares'[n][e] = shares[n][e]
          /\ \A e \in DOMAIN commitments[n] : e # d => commitments'[n][e] = commitments[n][e]
      BY <2>2 DEF Insert
    <2>6. d \in DOMAIN shares[n] => shares[n][d] = s /\ commitments[n][d] = v
      BY <1>0, <2>1, AllStoredOne DEF StoredFrom, s, v
    <2>7. ASSUME NEW k \in Nodes
          PROVE  /\ DOMAIN shares[k] \subseteq DOMAIN shares'[k]
                 /\ Keeps(shares[k], shares'[k], DOMAIN shares[k])
                 /\ Keeps(commitments[k], commitments'[k], DOMAIN commitments[k])
                 /\ DOMAIN commitments[k] = DOMAIN shares[k] \cup ({k} \cap started)
      <3>1. DOMAIN commitments[k] = DOMAIN shares[k] \cup ({k} \cap started)
        BY <1>0 DEF StoredAsPublished
      <3>2. CASE k # n
        BY <2>2, <3>1, <3>2 DEF Keeps
      <3>3. CASE k = n
        BY <2>1, <2>5, <2>6, <3>1, <3>3 DEF Keeps
      <3>. QED
        BY <3>2, <3>3
    <2>8. TablesTyped'
      <3>1. IsHashMap(shares'[n], Nodes \ {n}, Scalar)
        <4>1. IsHashMap(shares[n], Nodes \ {n}, Scalar) /\ d \in Nodes \ {n}
          BY <1>0, <2>1 DEF TablesTyped
        <4>2. IsHashMap(Insert(shares[n], d, s), Nodes \ {n}, Scalar)
          BY <2>1, <4>1, InsertType
        <4>. QED
          BY <2>2, <4>2
      <3>2. IsHashMap(commitments'[n], Nodes, Seq(Scalar))
        <4>1. IsHashMap(commitments[n], Nodes, Seq(Scalar))
          BY <1>0 DEF TablesTyped
        <4>2. IsHashMap(Insert(commitments[n], d, v), Nodes, Seq(Scalar))
          BY <2>1, <4>1, InsertType
        <4>. QED
          BY <2>2, <4>2
      <3>3. ended' \subseteq Nodes
        BY <1>0, <1>2 DEF Publish, TablesTyped
      <3>. QED
        BY <1>0, <2>2, <2>3, <3>1, <3>2, <3>3 DEF TablesTyped, keyVars
    <2>9. PublishedGenuine'
      <3>1. ASSUME NEW k \in published'
            PROVE  \/ \E e \in started' : \E c \in Draws[e] : k = ShareProposal(e, c)
                   \/ \E i, e \in Nodes : k = ShareAck(i, e) /\ e \in DOMAIN shares'[i]
        <4>1. CASE k \in published
          <5>1. CASE \E e \in started : \E c \in Draws[e] : k = ShareProposal(e, c)
            BY <2>3, <5>1
          <5>2. CASE \E i, e \in Nodes : k = ShareAck(i, e) /\ e \in DOMAIN shares[i]
            BY <2>7, <5>2
          <5>. QED
            BY <1>0, <4>1, <5>1, <5>2 DEF PublishedGenuine
        <4>2. CASE k = ShareAck(n, d)
          BY <2>1, <2>5, <4>2
        <4>. QED
          BY <1>2, <3>1, <4>1, <4>2 DEF Publish, d
      <3>. QED
        BY <3>1 DEF PublishedGenuine
    <2>10. OneProposal'
      BY <1>0, <2>4 DEF OneProposal
    <2>11. StoredAsPublished'
      <3>1. ASSUME NEW k \in Nodes, NEW e \in DOMAIN shares'[k]
            PROVE  \E p \in Proposals(e)' : StoredFrom(k, e, p)'
        <4>1. CASE e \in DOMAIN shares[k]
          <5>1. PICK p \in Proposals(e) : StoredFrom(k, e, p)
            BY <1>0, <4>1 DEF StoredAsPublished
          <5>2. shares'[k][e] = shares[k][e] /\ commitments'[k][e] = commitments[k][e]
            BY <2>7, <4>1 DEF Keeps
          <5>. QED
            BY <2>4, <5>1, <5>2 DEF StoredFrom
        <4>2. CASE e \notin DOMAIN shares[k]
          <5>1. k = n /\ e = d
            BY <2>2, <2>5, <3>1, <4>2
          <5>2. StoredFrom(n, d, m)'
            BY <2>1, <2>5 DEF StoredFrom, s, v
          <5>. QED
            BY <2>1, <2>4, <5>1, <5>2
        <4>. QED
          BY <4>1, <4>2
      <3>2. ASSUME NEW k \in Nodes, k \in started'
            PROVE  \E p \in Proposals(k)' : commitments'[k][k] = p.commitments
        <4>1. k \in started /\ k \in DOMAIN commitments[k]
          BY <2>3, <2>7, <3>2
        <4>2. commitments'[k][k] = commitments[k][k]
          BY <2>7, <4>1 DEF Keeps
        <4>. QED
          BY <1>0, <2>4, <4>1, <4>2 DEF StoredAsPublished
      <3>3. ASSUME NEW k \in Nodes
            PROVE  DOMAIN commitments'[k] = DOMAIN shares'[k] \cup ({k} \cap started')
        <4>1. CASE k = n
          BY <2>3, <2>5, <2>7, <4>1
        <4>2. CASE k # n
          BY <2>2, <2>3, <2>7, <4>2
        <4>. QED
          BY <4>1, <4>2
      <3>. QED
        BY <3>1, <3>2, <3>3 DEF StoredAsPublished
    <2>12. AcksAreOfHolders'
      BY <1>0, <2>3, <2>7 DEF AcksAreOfHolders, Holders
    <2>13. KeysWithAcks'
      BY <1>0, <2>3 DEF KeysWithAcks, keyVars
    <2>14. KeyCountsOneMore'
      <3>1. ASSUME NEW k \in Nodes, public_key[k] # None
            PROVE  /\ DOMAIN shares[k] \subseteq DOMAIN shares'[k]
                   /\ Keeps(shares[k], shares'[k], DOMAIN shares[k])
                   /\ Keeps(commitments[k], commitments'[k], DOMAIN shares[k] \cup {k})
        <4>1. k \in started
          BY <1>0, <3>1 DEF KeysWithAcks
        <4>2. DOMAIN commitments[k] = DOMAIN shares[k] \cup {k}
          BY <2>7, <4>1
        <4>. QED
          BY <2>7, <4>2
      <3>. QED
        BY <1>0, <2>3, <3>1, KeysKept
    <2>. QED
      BY <2>8, <2>9, <2>10, <2>11, <2>12, <2>13, <2>14 DEF ADKGInv
  <1>. QED
    BY <1>1, <1>2 DEF HandleProposal

\* An ack is counted, and completion sums what the node has.
LEMMA AckInv ==
    ASSUME ADKGInv, NEW n \in Nodes, NEW m \in published, m.type = "ShareAck",
           m.sender_id # n, HandleAck(n, m)
    PROVE  ADKGInv'
  <1>0. /\ TablesTyped /\ PublishedGenuine /\ OneProposal /\ StoredAsPublished
        /\ AcksAreOfHolders /\ KeysWithAcks /\ KeyCountsOneMore
    BY DEF ADKGInv
  <1>. DEFINE d == m.sender_id
              old == EntryOr(acks[n], d, 0)
              more == Insert(acks[n], d, old + 1)
  <1>1. /\ d \in Nodes /\ d # n /\ n \in DOMAIN shares[d] /\ n \in started
        /\ AckCount(acks[n]) < MaxAcks /\ MaxAcks \in Nat /\ T[n] \in Nat
    <2>1. d \in Nodes /\ n \in DOMAIN shares[d]
      BY <1>0, MessageGenuine DEF HandleAck
    <2>2. n \in started
      <3>1. PICK p \in Proposals(n) : StoredFrom(d, n, p)
        BY <1>0, <2>1 DEF StoredAsPublished
      <3>2. p \in published /\ p.type = "ShareProposal" /\ p.sender_id = n
        BY <3>1 DEF Proposals
      <3>. QED
        BY <1>0, <3>2, MessageGenuine
    <2>. QED
      BY <2>1, <2>2, ADKGAssumption DEF HandleAck
  <1>2. UNCHANGED <<ended, started, shares, commitments, published>>
    BY DEF HandleAck
  <1>3. /\ acks'[n] = more /\ \A k \in Nodes : k # n => acks'[k] = acks[k]
        /\ DOMAIN acks' = Nodes
    BY <1>0 DEF HandleAck, TablesTyped
  <1>4. /\ AckCount(acks[n]) \in Nat /\ old \in Nat /\ old <= AckCount(acks[n])
        /\ IsFiniteSet(AckPairs(more)) /\ AckCount(more) = AckCount(acks[n]) + 1
    <2>1. IsHashMap(acks[n], Nodes, Nat)
      BY <1>0 DEF TablesTyped, IsHashMap
    <2>2. IsFiniteSet(AckPairs(acks[n]))
      BY <1>0 DEF KeysWithAcks
    <2>. QED
      BY <2>1, <2>2, AckCounted
  <1>. HIDE DEF d, old
  <1>5. IsHashMap(more, Nodes \ {n}, 1..MaxAcks)
    <2>1. IsHashMap(acks[n], Nodes \ {n}, 1..MaxAcks) /\ d \in Nodes \ {n}
      BY <1>0, <1>1 DEF TablesTyped
    <2>2. old + 1 \in 1..MaxAcks
      BY <1>1, <1>4
    <2>. QED
      BY <2>1, <2>2, InsertType
  <1>6. DOMAIN more = DOMAIN acks[n] \cup {d}
    BY DEF Insert
  <1>. HIDE DEF more
  <1>7. /\ SecretOf(shares[n]) \in Scalar
        /\ SecretOf(shares[n]) = SumOf([e \in DOMAIN shares[n] |-> shares[n][e]])
        /\ KeyOf(commitments[n]) \in Scalar
        /\ KeyOf(commitments[n]) = SumOf([e \in DOMAIN shares[n] \cup {n} |-> commitments[n][e][1]])
        /\ DOMAIN shares[n] \in SUBSET (Nodes \ {n})
    <2>1. /\ IsHashMap(shares[n], Nodes \ {n}, Scalar)
          /\ DOMAIN commitments[n] = DOMAIN shares[n] \cup {n}
      BY <1>0, <1>1 DEF TablesTyped, StoredAsPublished
    <2>2. DOMAIN shares[n] \in SUBSET Nodes /\ shares[n] \in [DOMAIN shares[n] -> Int]
          /\ shares[n] = [e \in DOMAIN shares[n] |-> shares[n][e]]
          /\ DOMAIN shares[n] \in SUBSET (Nodes \ {n})
      BY <2>1, ScalarType DEF IsHashMap
    <2>3. ASSUME NEW e \in DOMAIN commitments[n] PROVE commitments[n][e][1] \in Int
      <3>1. PICK p \in published : p \in Proposals(e) /\ e \in Nodes /\ commitments[n][e] = p.commitments
        <4>1. CASE e \in DOMAIN shares[n]
          BY <1>0, <2>2, <4>1 DEF StoredAsPublished, StoredFrom, Proposals
        <4>2. CASE e = n
          BY <1>0, <1>1, <4>2 DEF StoredAsPublished, Proposals
        <4>. QED
          BY <2>1, <4>1, <4>2
      <3>2. PICK c \in Draws[e] : p = ShareProposal(e, c)
        BY <1>0, <3>1, MessageGenuine DEF Proposals
      <3>3. p.commitments \in [1..(T[e] + 1) -> Scalar] /\ T[e] \in Nat
        BY <3>1, <3>2, ProposalFields
      <3>4. p.commitments[1] \in Scalar
        <4>1. 1 \in 1..(T[e] + 1)
          BY <3>3
        <4>. QED
          BY <3>3, <4>1
      <3>. QED
        BY <3>1, <3>4, ScalarType
    <2>4. DOMAIN commitments[n] \in SUBSET Nodes
      BY <2>1, <2>2
    <2>5. PICK f \in [DOMAIN commitments[n] -> Int] :
             f = [e \in DOMAIN commitments[n] |-> commitments[n][e][1]]
      <3>1. [e \in DOMAIN commitments[n] |-> commitments[n][e][1]] \in [DOMAIN commitments[n] -> Int]
        BY <2>3
      <3>. QED
        BY <3>1, Zenon
    <2>6. SumOf(f) \in Scalar /\ KeyOf(commitments[n]) = SumOf(f)
      <3>1. SumOf(f) \in Scalar
        BY <2>4, SumOfMap
      <3>. QED
        BY <2>5, <3>1 DEF KeyOf
    <2>7. SumOf(shares[n]) \in Scalar /\ SecretOf(shares[n]) = SumOf(shares[n])
      BY <2>2, SumOfMap DEF SecretOf
    <2>8. f = [e \in DOMAIN shares[n] \cup {n} |-> commitments[n][e][1]]
      BY <2>1, <2>5
    <2>. QED
      BY <2>2, <2>6, <2>7, <2>8
  <1>8. /\ DOMAIN secret_key_share' = Nodes /\ DOMAIN public_key' = Nodes
        /\ \A k \in Nodes : k # n =>
              secret_key_share'[k] = secret_key_share[k] /\ public_key'[k] = public_key[k]
        /\ IF AckCount(more) >= T[n]
             THEN /\ secret_key_share'[n] = SecretOf(shares[n])
                  /\ public_key'[n] = KeyOf(commitments[n])
             ELSE secret_key_share'[n] = secret_key_share[n] /\ public_key'[n] = public_key[n]
    <2>1. CheckCompletion(n) /\ AckCount(acks'[n]) = AckCount(more)
      BY <1>3 DEF HandleAck
    <2>2. DOMAIN secret_key_share = Nodes /\ DOMAIN public_key = Nodes
      BY <1>0 DEF TablesTyped
    <2>3. CASE AckCount(more) >= T[n]
      <3>1. /\ secret_key_share' = [secret_key_share EXCEPT ![n] = SecretOf(shares[n])]
            /\ public_key' = [public_key EXCEPT ![n] = KeyOf(commitments[n])]
        BY <2>1, <2>3 DEF CheckCompletion
      <3>. QED
        BY <2>2, <2>3, <3>1
    <2>4. CASE ~(AckCount(more) >= T[n])
      <3>1. UNCHANGED keyVars
        BY <2>1, <2>4 DEF CheckCompletion
      <3>. QED
        BY <2>2, <2>4, <3>1 DEF keyVars
    <2>. QED
      BY <2>3, <2>4
  <1>9. TablesTyped'
    <2>1. ASSUME NEW k \in Nodes
          PROVE  /\ IsHashMap(acks'[k], Nodes \ {k}, 1..MaxAcks)
                 /\ secret_key_share'[k] \in Scalar \cup {None}
                 /\ public_key'[k] \in Scalar \cup {None}
      <3>1. CASE k = n
        <4>1. secret_key_share[n] \in Scalar \cup {None} /\ public_key[n] \in Scalar \cup {None}
          BY <1>0 DEF TablesTyped
        <4>. QED
          BY <1>3, <1>5, <1>7, <1>8, <3>1, <4>1
      <3>2. CASE k # n
        BY <1>0, <1>3, <1>8, <3>2 DEF TablesTyped
      <3>. QED
        BY <3>1, <3>2
    <2>. QED
      BY <1>0, <1>2, <1>3, <1>8, <2>1 DEF TablesTyped
  <1>10. PublishedGenuine' /\ OneProposal' /\ StoredAsPublished'
    BY <1>0, <1>2 DEF PublishedGenuine, OneProposal, Proposals, StoredAsPublished, StoredFrom
  <1>11. AcksAreOfHolders'
    <2>1. ASSUME NEW k \in Nodes PROVE DOMAIN acks'[k] \subseteq Holders(k)'
      <3>1. Holders(k)' = Holders(k) /\ DOMAIN acks[k] \subseteq Holders(k)
        BY <1>0, <1>2 DEF AcksAreOfHolders, Holders
      <3>2. CASE k = n
        <4>1. d \in Holders(n)
          BY <1>1 DEF Holders
        <4>. QED
          BY <1>3, <1>6, <3>1, <3>2, <4>1
      <3>3. CASE k # n
        BY <1>3, <3>1, <3>3
      <3>. QED
        BY <3>2, <3>3
    <2>. QED
      BY <2>1 DEF AcksAreOfHolders
  <1>12. KeysWithAcks'
    <2>1. None \notin Scalar
      BY ADKGAssumption, ScalarType DEF Scalar
    <2>2. ASSUME NEW k \in Nodes
          PROVE  /\ IsFiniteSet(AckPairs(acks'[k]))
                 /\ T[k] > 0 => (AckCount(acks'[k]) >= T[k] <=> public_key'[k] # None)
                 /\ public_key'[k] = None <=> secret_key_share'[k] = None
                 /\ public_key'[k] # None => k \in started'
      <3>0. /\ IsFiniteSet(AckPairs(acks[k]))
            /\ T[k] > 0 => (AckCount(acks[k]) >= T[k] <=> public_key[k] # None)
            /\ public_key[k] = None <=> secret_key_share[k] = None
            /\ public_key[k] # None => k \in started
        BY <1>0 DEF KeysWithAcks
      <3>1. CASE k = n /\ AckCount(more) >= T[n]
        <4>1. public_key'[n] # None /\ secret_key_share'[n] # None
          BY <1>7, <1>8, <2>1, <3>1
        <4>. QED
          BY <1>1, <1>2, <1>3, <1>4, <3>1, <4>1
      <3>2. CASE k = n /\ ~(AckCount(more) >= T[n])
        <4>1. public_key'[n] = public_key[n] /\ secret_key_share'[n] = secret_key_share[n]
          BY <1>8, <3>2
        <4>2. ~(AckCount(acks[n]) >= T[n])
          BY <1>1, <1>4, <3>2
        <4>. QED
          BY <1>1, <1>2, <1>3, <1>4, <3>0, <3>2, <4>1, <4>2
      <3>3. CASE k # n
        BY <1>2, <1>3, <1>8, <3>0, <3>3
      <3>. QED
        BY <3>1, <3>2, <3>3
    <2>. QED
      BY <2>2 DEF KeysWithAcks
  <1>13. KeyCountsOneMore'
    <2>1. ASSUME NEW k \in Nodes, public_key'[k] # None
          PROVE  \E D \in SUBSET (Nodes \ {k}) :
                    /\ D \subseteq DOMAIN shares'[k]
                    /\ secret_key_share'[k] = SumOf([e \in D |-> shares'[k][e]])
                    /\ public_key'[k] = SumOf([e \in D \cup {k} |-> commitments'[k][e][1]])
      <3>1. CASE k = n /\ AckCount(more) >= T[n]
        <4>1. /\ secret_key_share'[k] = SumOf([e \in DOMAIN shares[k] |-> shares'[k][e]])
              /\ public_key'[k] = SumOf([e \in DOMAIN shares[k] \cup {k} |-> commitments'[k][e][1]])
          BY <1>2, <1>7, <1>8, <3>1
        <4>2. DOMAIN shares[k] \in SUBSET (Nodes \ {k}) /\ DOMAIN shares[k] \subseteq DOMAIN shares'[k]
          BY <1>2, <1>7, <3>1
        <4>. QED
          BY <4>1, <4>2
      <3>2. CASE k # n \/ ~(AckCount(more) >= T[n])
        <4>1. public_key'[k] = public_key[k] /\ secret_key_share'[k] = secret_key_share[k]
          BY <1>8, <3>2
        <4>2. PICK D \in SUBSET (Nodes \ {k}) :
                 /\ D \subseteq DOMAIN shares[k]
                 /\ secret_key_share[k] = SumOf([e \in D |-> shares[k][e]])
                 /\ public_key[k] = SumOf([e \in D \cup {k} |-> commitments[k][e][1]])
          BY <1>0, <2>1, <4>1 DEF KeyCountsOneMore
        <4>. QED
          BY <1>2, <4>1, <4>2
      <3>. QED
        BY <3>1, <3>2
    <2>. QED
      BY <2>1 DEF KeyCountsOneMore
  <1>. QED
    BY <1>9, <1>10, <1>11, <1>12, <1>13 DEF ADKGInv


THEOREM ADKGInvariant == ADKGSpec => []ADKGInv
  <1>1. ASSUME ADKGInv, ADKGNext PROVE ADKGInv'
    <2>1. ASSUME NEW n \in Nodes, StartAdkg(n) PROVE ADKGInv'
      BY <1>1, <2>1, StartInv
    <2>2. ASSUME NEW n \in Nodes, NEW m \in published, HandleMessage(n, m) PROVE ADKGInv'
      <3>1. CASE m.type = "ShareProposal" /\ HandleProposal(n, m)
        <4>1. m.sender_id # n
          BY <2>2 DEF HandleMessage
        <4>. QED
          BY <1>1, <3>1, <4>1, ProposalInv
      <3>2. CASE m.type = "ShareAck" /\ HandleAck(n, m)
        <4>1. m.sender_id # n
          BY <2>2 DEF HandleMessage
        <4>. QED
          BY <1>1, <3>2, <4>1, AckInv
      <3>. QED
        BY <2>2, <3>1, <3>2 DEF HandleMessage
    <2>. QED
      BY <1>1, <2>1, <2>2 DEF ADKGNext
  <1>2. ASSUME ADKGInv, UNCHANGED adkgVars PROVE ADKGInv'
    <2>1. UNCHANGED <<ended, started, shares, commitments, acks, keyVars, published>>
      BY <1>2 DEF adkgVars
    <2>2. TablesTyped'
      BY <1>2, <2>1 DEF ADKGInv, TablesTyped, keyVars
    <2>3. PublishedGenuine' /\ OneProposal' /\ StoredAsPublished'
      BY <1>2, <2>1 DEF ADKGInv, PublishedGenuine, OneProposal, Proposals, StoredAsPublished, StoredFrom
    <2>4. AcksAreOfHolders' /\ KeysWithAcks'
      BY <1>2, <2>1 DEF ADKGInv, AcksAreOfHolders, Holders, KeysWithAcks, keyVars
    <2>5. KeyCountsOneMore'
      <3>1. ASSUME NEW k \in Nodes
            PROVE  /\ DOMAIN shares[k] \subseteq DOMAIN shares'[k]
                   /\ Keeps(shares[k], shares'[k], DOMAIN shares[k])
                   /\ Keeps(commitments[k], commitments'[k], DOMAIN shares[k] \cup {k})
        BY <2>1 DEF Keeps
      <3>2. KeyCountsOneMore
        BY <1>2 DEF ADKGInv
      <3>. QED
        BY <2>1, <3>1, <3>2, KeysKept
    <2>. QED
      BY <2>2, <2>3, <2>4, <2>5 DEF ADKGInv
  <1>. QED
    BY <1>1, <1>2, InitInv, PTL DEF ADKGSpec

----------------------------------------------------------------------------
(* What it promises. *)

\* Every field keeps the type of its Rust value, and a node has its key and
\* its share of it exactly when it has T acks (check_completion).
THEOREM ADKGTypeCorrect == ADKGSpec => []ADKGTypeOK
  <1>1. ADKGInv => ADKGTypeOK
    BY DEF ADKGInv, TablesTyped, KeysWithAcks, ADKGTypeOK
  <1>. QED
    BY <1>1, ADKGInvariant, PTL

\* The key counts one polynomial more than the share of it, and both are of
\* proposals the node still holds as it summed them.
THEOREM KeyCounts == ADKGSpec => []KeyCountsOneMore
  <1>1. ADKGInv => KeyCountsOneMore
    BY DEF ADKGInv
  <1>. QED
    BY <1>1, ADKGInvariant, PTL

\* Whoever has acknowledged a dealing holds its share.
THEOREM AcksOfHolders == ADKGSpec => []AcksAreOfHolders
  <1>1. ADKGInv => AcksAreOfHolders
    BY DEF ADKGInv
  <1>. QED
    BY <1>1, ADKGInvariant, PTL

\* What is published of a dealer verifies at every index it deals to, so that
\* a node refuses a proposal only for an index of its own beyond them.
ProposalsVerify ==
    \A d \in Nodes : \A m \in Proposals(d) :
       /\ DOMAIN m.shares = 1..N[d]
       /\ \A i \in 1..N[d] : VerifyCommitments(i, m.shares, m.commitments)

\* Every proposal of a run verifies (generate_shares against verify_commitments).
THEOREM PublishedVerifies == ADKGSpec => []ProposalsVerify
  <1>1. ASSUME ADKGInv PROVE ProposalsVerify
    <2>1. ASSUME NEW d \in Nodes, NEW m \in Proposals(d)
          PROVE  /\ DOMAIN m.shares = 1..N[d]
                 /\ \A i \in 1..N[d] : VerifyCommitments(i, m.shares, m.commitments)
      <3>1. PICK c \in Draws[d] : m = ShareProposal(d, c)
        <4>1. m \in published /\ m.type = "ShareProposal" /\ m.sender_id = d
          BY DEF Proposals
        <4>. QED
          BY <1>1, <4>1, MessageGenuine DEF ADKGInv
      <3>2. /\ c \in [1..(T[d] + 1) -> Scalar] /\ T[d] + 1 \in Nat
            /\ m.shares \in [1..N[d] -> Scalar] /\ m.commitments = GenerateCommitments(c)
            /\ \A i \in 1..N[d] : m.shares[i] = EvaluatePolynomial(c, i)
        BY <3>1, ProposalFields
      <3>3. ASSUME NEW i \in 1..N[d] PROVE VerifyCommitments(i, m.shares, m.commitments)
        <4>1. i \in Int /\ m.shares[i] = EvaluatePolynomial(c, i)
          BY <3>2
        <4>. QED
          BY <3>2, <4>1, VerifiedIsValue
      <3>. QED
        BY <3>2, <3>3
    <2>. QED
      BY <2>1 DEF ProposalsVerify
  <1>. QED
    BY <1>1, ADKGInvariant, PTL

\* What every holder has of a dealer that has started are the values, at the
\* indices of the holders, of one polynomial with the commitments they have.
LEMMA HoldersShareOne ==
    ASSUME ADKGInv, NEW d \in started
    PROVE  /\ d \in Nodes
           /\ \E c \in Draws[d] :
                 /\ commitments[d][d] = GenerateCommitments(c)
                 /\ \A n \in Holders(d) :
                       /\ n \in Nodes /\ Idx[n] \in 1..N[d]
                       /\ shares[n][d] = EvaluatePolynomial(c, Idx[n])
                       /\ commitments[n][d] = GenerateCommitments(c)
  <1>0. TablesTyped /\ PublishedGenuine /\ OneProposal /\ StoredAsPublished /\ d \in Nodes
    BY DEF ADKGInv, TablesTyped
  <1>1. PICK m \in Proposals(d) : commitments[d][d] = m.commitments
    BY <1>0 DEF StoredAsPublished
  <1>2. PICK c \in Draws[d] : m = ShareProposal(d, c)
    <2>1. m \in published /\ m.type = "ShareProposal" /\ m.sender_id = d
      BY DEF Proposals
    <2>. QED
      BY <1>0, <2>1, MessageGenuine
  <1>3. /\ m.shares \in [1..N[d] -> Scalar] /\ m.commitments = GenerateCommitments(c)
        /\ \A i \in 1..N[d] : m.shares[i] = EvaluatePolynomial(c, i)
    BY <1>0, <1>2, ProposalFields
  <1>4. ASSUME NEW n \in Holders(d)
        PROVE  /\ n \in Nodes /\ Idx[n] \in 1..N[d]
               /\ shares[n][d] = EvaluatePolynomial(c, Idx[n])
               /\ commitments[n][d] = GenerateCommitments(c)
    <2>1. n \in Nodes /\ d \in DOMAIN shares[n]
      BY DEF Holders
    <2>2. StoredFrom(n, d, m)
      BY <1>0, <2>1, AllStoredOne
    <2>3. Idx[n] \in 1..N[d]
      BY <1>3, <2>2 DEF StoredFrom
    <2>. QED
      BY <1>3, <2>1, <2>2, <2>3 DEF StoredFrom
  <1>. QED
    BY <1>0, <1>1, <1>3, <1>4

\* Whichever T + 1 nodes hold shares of a dealer's, at indices of their own,
\* reconstruct the secret that all of them have the dealer's commitment to.
THEOREM HoldersReconstruct == ADKGSpec => []SharesReconstruct
  <1>1. ASSUME ADKGInv PROVE SharesReconstruct
    <2>. SUFFICES ASSUME NEW d \in started, NEW S \in kSubset(T[d] + 1, Holders(d)),
                         Cardinality({Idx[n] : n \in S}) = Cardinality(S)
                  PROVE  LET points == [i \in {Idx[n] : n \in S} |->
                                           shares[CHOOSE n \in S : Idx[n] = i][d]]
                         IN  \A n \in S \cup {d} :
                                commitments[n][d][1] = (Generator * ReconstructSecret(points)) % P
      BY DEF SharesReconstruct
    <2>. DEFINE I == {Idx[n] : n \in S}
                points == [i \in I |-> shares[CHOOSE n \in S : Idx[n] = i][d]]
    <2>1. PICK c \in Draws[d] :
             /\ commitments[d][d] = GenerateCommitments(c)
             /\ \A n \in Holders(d) :
                   /\ n \in Nodes /\ Idx[n] \in 1..N[d]
                   /\ shares[n][d] = EvaluatePolynomial(c, Idx[n])
                   /\ commitments[n][d] = GenerateCommitments(c)
      BY <1>1, HoldersShareOne
    <2>2. d \in Nodes /\ c \in [1..(T[d] + 1) -> Scalar] /\ T[d] + 1 \in Nat \ {0}
          /\ GenerateCommitments(c)[1] = (Generator * c[1]) % P
      <3>1. d \in Nodes
        BY <1>1, HoldersShareOne
      <3>2. /\ c \in [1..(T[d] + 1) -> Scalar] /\ T[d] \in Nat
            /\ GenerateCommitments(c)[1] = (Generator * c[1]) % P
        BY <3>1, ProposalFields
      <3>. QED
        BY <3>1, <3>2
    <2>3. S \subseteq Holders(d) /\ Cardinality(S) = T[d] + 1
      BY DEF kSubset
    <2>4. I \in SUBSET Index /\ Cardinality(I) = T[d] + 1
      <3>1. N[d] \in Nat /\ N[d] < P /\ P \in Nat
        BY <2>2, ADKGAssumption, FieldAssumption
      <3>2. 1..N[d] \subseteq Index
        BY <3>1 DEF Index
      <3>3. \A n \in S : Idx[n] \in 1..N[d]
        BY <2>1, <2>3
      <3>. QED
        BY <2>3, <3>2, <3>3
    <2>5. points = [i \in I |-> EvaluatePolynomial(c, i)]
      <3>1. ASSUME NEW i \in I
            PROVE  shares[CHOOSE n \in S : Idx[n] = i][d] = EvaluatePolynomial(c, i)
        <4>. DEFINE k == CHOOSE n \in S : Idx[n] = i
        <4>1. k \in S /\ Idx[k] = i
          OBVIOUS
        <4>2. k \in Holders(d)
          BY <2>3, <4>1
        <4>. HIDE DEF k
        <4>3. shares[k][d] = EvaluatePolynomial(c, i)
          BY <2>1, <4>1, <4>2
        <4>. QED
          BY <4>3 DEF k
      <3>. QED
        BY <3>1
    <2>. HIDE DEF I, points
    <2>6. ReconstructSecret(points) = c[1]
      <3>1. T[d] + 1 <= Cardinality(I)
        BY <2>2, <2>4
      <3>2. ReconstructSecret([i \in I |-> EvaluatePolynomial(c, i)]) = c[1]
        BY <2>2, <2>4, <3>1, SharesGiveSecret
      <3>. QED
        BY <2>5, <3>2
    <2>7. ASSUME NEW n \in S \cup {d}
          PROVE  commitments[n][d][1] = (Generator * ReconstructSecret(points)) % P
      <3>1. commitments[n][d] = GenerateCommitments(c)
        BY <2>1, <2>3
      <3>. QED
        BY <2>2, <2>6, <3>1
    <2>. QED
      BY <2>7 DEF points, I
  <1>. QED
    BY <1>1, ADKGInvariant, PTL


----------------------------------------------------------------------------
(* The prototype implements Dealing. *)

\* Messages that are no acks, and shares nobody acknowledged, are not seen.
LEMMA SameDealing ==
    ASSUME DrawnOnce' = DrawnOnce, Acknowledged' = Acknowledged, shares' = shares
    PROVE  UNCHANGED Dealings!dealingVars
  <1>1. HeldShares' = HeldShares
    BY DEF HeldShares
  <1>. QED
    BY <1>1 DEF Dealings!dealingVars

\* A published start draws the one polynomial of the node.
LEMMA StartDraws ==
    ASSUME ADKGInv, NEW n \in Nodes, StartAdkg(n)
    PROVE  [Dealings!DealingNext]_(Dealings!dealingVars)
  <1>0. TablesTyped /\ PublishedGenuine /\ n \notin started /\ n \notin ended /\ shares' = shares
    BY DEF ADKGInv, StartAdkg
  <1>1. PICK c \in Draws[n] : Publish(n, ShareProposal(n, c))
    BY DEF StartAdkg
  <1>2. started' = started \cup ({n} \ ended')
    BY DEF StartAdkg
  <1>3. CASE ended' = ended \cup {n} /\ UNCHANGED published
    <2>1. started' = started
      BY <1>2, <1>3
    <2>2. DrawnOnce' = DrawnOnce /\ Acknowledged' = Acknowledged
      BY <1>3, <2>1 DEF DrawnOnce, Acknowledged
    <2>. QED
      BY <1>0, <2>2, SameDealing
  <1>4. CASE published' = published \cup {ShareProposal(n, c)} /\ UNCHANGED ended
    <2>1. started' = started \cup {n} /\ n \in Dealers
      BY <1>0, <1>1, <1>2, <1>4 DEF Dealers
    <2>2. Acknowledged' = Acknowledged
      <3>1. ShareProposal(n, c).type # "ShareAck"
        BY DEF ShareProposal
      <3>2. {a \in published' : a.type = "ShareAck"} = {a \in published : a.type = "ShareAck"}
        BY <1>4, <3>1
      <3>. QED
        BY <3>2 DEF Acknowledged
    <2>3. DrawnOnce' = [DrawnOnce EXCEPT ![n] = @ + 1]
      <3>1. DrawnOnce = [k \in Nodes |-> IF k \in started THEN 1 ELSE 0]
        BY DEF DrawnOnce
      <3>2. DrawnOnce' = [k \in Nodes |-> IF k \in started \/ k = n THEN 1 ELSE 0]
        BY <2>1 DEF DrawnOnce
      <3>3. DrawnOnce[n] + 1 = 1
        BY <1>0, <3>1
      <3>4. [DrawnOnce EXCEPT ![n] = @ + 1] = [DrawnOnce EXCEPT ![n] = 1]
        BY <3>3
      <3>. QED
        BY <3>1, <3>2, <3>4
    <2>4. HeldShares' = HeldShares
      BY <1>0, <2>2 DEF HeldShares
    <2>5. Dealings!Draw(n)
      BY <2>2, <2>3, <2>4 DEF Dealings!Draw
    <2>. QED
      BY <2>1, <2>5 DEF Dealings!DealingNext
  <1>. QED
    BY <1>1, <1>3, <1>4 DEF Publish

\* A published ack is of a share that is held from then on.
LEMMA ProposalAccepts ==
    ASSUME ADKGInv, NEW n \in Nodes, NEW m \in published, m.type = "ShareProposal",
           m.sender_id # n, HandleProposal(n, m)
    PROVE  [Dealings!DealingNext]_(Dealings!dealingVars)
  <1>. DEFINE d == m.sender_id
  <1>0. TablesTyped /\ PublishedGenuine /\ d # n
    BY DEF ADKGInv
  <1>1. CASE UNCHANGED adkgVars
    <2>1. DrawnOnce' = DrawnOnce /\ Acknowledged' = Acknowledged /\ shares' = shares
      BY <1>1 DEF adkgVars, DrawnOnce, Acknowledged
    <2>. QED
      BY <2>1, SameDealing
  <1>2. CASE /\ VerifyCommitments(Idx[n], m.shares, m.commitments)
             /\ shares' = [shares EXCEPT ![n] = Insert(@, d, m.shares[Idx[n]])]
             /\ Publish(n, ShareAck(n, d))
             /\ UNCHANGED <<started, acks, keyVars>>
    <2>1. /\ d \in started /\ d \in Nodes /\ d \in Dealers /\ Idx[n] \in 1..N[d]
      <3>1. d \in started /\ d \in Nodes
        BY <1>0, MessageGenuine
      <3>2. PICK c \in Draws[d] : m = ShareProposal(d, c)
        BY <1>0, MessageGenuine
      <3>3. m.shares \in [1..N[d] -> Scalar]
        BY <3>1, <3>2, ProposalFields
      <3>. QED
        BY <1>2, <3>1, <3>2, <3>3 DEF VerifyCommitments, Dealers
    <2>. HIDE DEF d
    <2>2. /\ DOMAIN shares' = Nodes /\ DOMAIN shares'[n] = DOMAIN shares[n] \cup {d}
          /\ \A k \in Nodes : k # n => shares'[k] = shares[k]
      BY <1>0, <1>2 DEF TablesTyped, Insert
    <2>3. DrawnOnce' = DrawnOnce /\ DrawnOnce[d] = 1
      BY <1>2, <2>1 DEF DrawnOnce
    <2>4. CASE published' = published \cup {ShareAck(n, d)}
      <3>1. Acknowledged' = Acknowledged \cup {<<n, d>>}
        <4>1. /\ ShareAck(n, d).type = "ShareAck" /\ ShareAck(n, d).sender_id = n
              /\ ShareAck(n, d).receiver_id = d
          BY DEF ShareAck
        <4>2. {a \in published' : a.type = "ShareAck"}
                = {a \in published : a.type = "ShareAck"} \cup {ShareAck(n, d)}
          BY <2>4, <4>1
        <4>. QED
          BY <4>1, <4>2 DEF Acknowledged
      <3>2. ASSUME NEW k \in Nodes
            PROVE  {e \in DOMAIN shares'[k] : <<k, e>> \in Acknowledged'}
                     = {e \in DOMAIN shares[k] : <<k, e>> \in Acknowledged} \cup (IF k = n THEN {d} ELSE {})
        BY <2>2, <3>1
      <3>3. HeldShares' = [HeldShares EXCEPT ![n] = Insert(@, d, 1)]
        <4>. DEFINE Held(k) == {e \in DOMAIN shares[k] : <<k, e>> \in Acknowledged}
        <4>1. /\ DOMAIN HeldShares = Nodes /\ DOMAIN HeldShares' = Nodes
              /\ \A k \in Nodes : HeldShares[k] = [e \in Held(k) |-> 1]
              /\ \A k \in Nodes : HeldShares'[k] = [e \in Held(k)' |-> 1]
              /\ HeldShares' = [k \in Nodes |-> HeldShares'[k]]
          BY DEF HeldShares
        <4>2. \A k \in Nodes : Held(k)' = Held(k) \cup (IF k = n THEN {d} ELSE {})
          BY <3>2
        <4>. HIDE DEF Held
        <4>3. \A k \in Nodes : k # n => HeldShares'[k] = HeldShares[k]
          BY <4>1, <4>2
        <4>4. HeldShares'[n] = Insert(HeldShares[n], d, 1)
          BY <4>1, <4>2 DEF Insert
        <4>. QED
          BY <4>1, <4>3, <4>4
      <3>4. Dealings!Accept(n, d, 1)
        BY <2>3, <3>1, <3>3 DEF Dealings!Accept, Dealings!Insert, Insert
      <3>5. n \in Eligible /\ d \in Dealers \ {n} /\ 1 \in 1..DrawnOnce[d]
        BY <1>0, <2>1, <2>3 DEF Eligible, d
      <3>. QED
        BY <3>4, <3>5 DEF Dealings!DealingNext
    <2>5. CASE UNCHANGED published
      <3>1. Acknowledged' = Acknowledged
        BY <2>5 DEF Acknowledged
      <3>2. <<n, d>> \in Acknowledged => d \in DOMAIN shares[n]
        <4>1. ASSUME NEW a \in published, a.type = "ShareAck", a.sender_id = n, a.receiver_id = d
              PROVE  d \in DOMAIN shares[n]
          BY <1>0, <4>1, MessageGenuine
        <4>. QED
          BY <4>1 DEF Acknowledged
      <3>3. ASSUME NEW k \in Nodes
            PROVE  {e \in DOMAIN shares'[k] : <<k, e>> \in Acknowledged'}
                     = {e \in DOMAIN shares[k] : <<k, e>> \in Acknowledged}
        BY <2>2, <3>1, <3>2
      <3>4. HeldShares' = HeldShares
        <4>. DEFINE Held(k) == {e \in DOMAIN shares[k] : <<k, e>> \in Acknowledged}
        <4>1. /\ HeldShares = [k \in Nodes |-> [e \in Held(k) |-> 1]]
              /\ HeldShares' = [k \in Nodes |-> [e \in Held(k)' |-> 1]]
          BY DEF HeldShares
        <4>2. \A k \in Nodes : Held(k)' = Held(k)
          BY <3>3
        <4>. HIDE DEF Held
        <4>. QED
          BY <4>1, <4>2
      <3>. QED
        BY <2>3, <3>1, <3>4 DEF Dealings!dealingVars
    <2>. QED
      BY <1>2, <2>4, <2>5 DEF Publish
  <1>. QED
    BY <1>1, <1>2 DEF HandleProposal

\* The prototype implements what dkg/mod.rs implements too.
THEOREM PrototypeDeals == ADKGSpec => ImplementsDealing
  <1>1. ADKGInit => Dealings!DealingInit
    <2>. SUFFICES ASSUME ADKGInit PROVE Dealings!DealingInit
      OBVIOUS
    <2>1. DrawnOnce = [d \in Nodes |-> 0] /\ Acknowledged = {}
      BY DEF ADKGInit, DrawnOnce, Acknowledged
    <2>2. HeldShares = [n \in Nodes |-> EmptyMap]
      BY DEF ADKGInit, HeldShares, EmptyMap
    <2>. QED
      BY <2>1, <2>2 DEF Dealings!DealingInit, Dealings!EmptyMap, EmptyMap
  <1>2. ASSUME ADKGInv, [ADKGNext]_adkgVars
        PROVE  [Dealings!DealingNext]_(Dealings!dealingVars)
    <2>1. ASSUME NEW n \in Nodes, StartAdkg(n)
          PROVE  [Dealings!DealingNext]_(Dealings!dealingVars)
      BY <1>2, <2>1, StartDraws
    <2>2. ASSUME NEW n \in Nodes, NEW m \in published, HandleMessage(n, m)
          PROVE  [Dealings!DealingNext]_(Dealings!dealingVars)
      <3>1. CASE m.type = "ShareProposal" /\ HandleProposal(n, m)
        BY <1>2, <2>2, <3>1, ProposalAccepts DEF HandleMessage
      <3>2. CASE HandleAck(n, m)
        <4>1. shares' = shares /\ started' = started /\ published' = published
          BY <3>2 DEF HandleAck
        <4>2. DrawnOnce' = DrawnOnce /\ Acknowledged' = Acknowledged
          BY <4>1 DEF DrawnOnce, Acknowledged
        <4>. QED
          BY <4>1, <4>2, SameDealing
      <3>. QED
        BY <2>2, <3>1, <3>2 DEF HandleMessage
    <2>3. CASE UNCHANGED adkgVars
      <3>1. shares' = shares /\ DrawnOnce' = DrawnOnce /\ Acknowledged' = Acknowledged
        BY <2>3 DEF adkgVars, DrawnOnce, Acknowledged
      <3>. QED
        BY <3>1, SameDealing
    <2>. QED
      BY <1>2, <2>1, <2>2, <2>3 DEF ADKGNext
  <1>. QED
    BY <1>1, <1>2, ADKGInvariant, PTL DEF ADKGSpec, ImplementsDealing, Dealings!DealingSpec

=============================================================================
