----------------------------- MODULE DataLemmas -----------------------------
(* What the operations on queues and maps return; the proofs about the      *)
(* components cite these facts by name.                                     *)
EXTENDS Sequences, Naturals, Functions, HashMaps, TLAPS

\* Appending to a sequence adds one element to its range.
LEMMA RangeAppend ==
    ASSUME NEW S, NEW s \in Seq(S), NEW x \in S
    PROVE  /\ Append(s, x) \in Seq(S)
           /\ Range(Append(s, x)) = Range(s) \cup {x}
  <1>1. Append(s, x) \in Seq(S)
    OBVIOUS
  <1>2. /\ DOMAIN Append(s, x) = 1..(Len(s) + 1)
        /\ DOMAIN s = 1..Len(s)
        /\ Len(s) \in Nat
    OBVIOUS
  <1>3. /\ \A i \in 1..Len(s) : Append(s, x)[i] = s[i]
        /\ Append(s, x)[Len(s) + 1] = x
    OBVIOUS
  <1>4. 1..(Len(s) + 1) = 1..Len(s) \cup {Len(s) + 1}
    BY <1>2
  <1>. QED
    BY <1>1, <1>2, <1>3, <1>4 DEF Range

\* The range of a sequence is its head and the range of its tail.
LEMMA RangeTail ==
    ASSUME NEW S, NEW s \in Seq(S), s # <<>>
    PROVE  /\ Head(s) \in S
           /\ Tail(s) \in Seq(S)
           /\ Range(s) = {Head(s)} \cup Range(Tail(s))
  <1>1. /\ Head(s) \in S
        /\ Tail(s) \in Seq(S)
        /\ Len(s) \in Nat \ {0}
    OBVIOUS
  <1>2. /\ DOMAIN s = 1..Len(s)
        /\ DOMAIN Tail(s) = 1..(Len(s) - 1)
        /\ Head(s) = s[1]
        /\ \A i \in 1..(Len(s) - 1) : Tail(s)[i] = s[i + 1]
    BY <1>1
  <1>3. ASSUME NEW i \in 1..Len(s)
        PROVE  s[i] \in {Head(s)} \cup Range(Tail(s))
    <2>1. CASE i = 1
      BY <2>1, <1>2
    <2>2. CASE i # 1
      <3>1. i - 1 \in 1..(Len(s) - 1)
        BY <2>2, <1>1
      <3>2. Tail(s)[i - 1] = s[i]
        BY <3>1, <1>1, <1>2
      <3>. QED
        BY <3>1, <3>2, <1>2 DEF Range
    <2>. QED
      BY <2>1, <2>2
  <1>4. ASSUME NEW i \in 1..(Len(s) - 1)
        PROVE  Tail(s)[i] \in Range(s)
    <2>1. i + 1 \in 1..Len(s)
      BY <1>1
    <2>. QED
      BY <2>1, <1>2 DEF Range
  <1>5. Head(s) \in Range(s)
    BY <1>1, <1>2 DEF Range
  <1>. QED
    BY <1>1, <1>2, <1>3, <1>4, <1>5 DEF Range

\* HashMap::insert keeps the types of the keys and values.
LEMMA InsertType ==
    ASSUME NEW K, NEW V, NEW map, IsHashMap(map, K, V), NEW k \in K, NEW v \in V
    PROVE  IsHashMap(Insert(map, k, v), K, V)
  BY DEF Insert, IsHashMap

\* HashMap::entry(k).or_insert_with(Vec::new) is a Vec.
LEMMA EntryOrType ==
    ASSUME NEW K, NEW V, NEW map, IsHashMap(map, K, Seq(V)), NEW k
    PROVE  EntryOr(map, k, <<>>) \in Seq(V)
  <1>1. CASE k \in DOMAIN map
    BY <1>1 DEF EntryOr, IsHashMap
  <1>2. CASE k \notin DOMAIN map
    BY <1>2 DEF EntryOr
  <1>. QED
    BY <1>1, <1>2

\* A map without keys is the empty map.
LEMMA EmptyMapUnique ==
    ASSUME NEW K, NEW V, NEW map, IsHashMap(map, K, V)
    PROVE  /\ IsHashMap(EmptyMap, K, V)
           /\ DOMAIN EmptyMap = {}
           /\ DOMAIN map = {} => map = EmptyMap
  BY DEF EmptyMap, IsHashMap

=============================================================================
