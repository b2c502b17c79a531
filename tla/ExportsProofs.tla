---------------------------- MODULE ExportsProofs ----------------------------
(* The nonce queue of FrostSigner and the syncs of BlockchainClient, for     *)
(* every value of their bounds.                                              *)
EXTENDS FrostSigner, BlockchainClient, TLAPS

(***************************************************************************)
(* FrostSigner: every queue of pairs is a run of consecutive numbers.      *)
(***************************************************************************)

\* The pairs of s are those from the one after k on.
Consecutive(s, k) == s \in Seq(Nat) /\ \A i \in 1..Len(s) : s[i] = k + i

FrostInv ==
    /\ Consecutive(spent, 0)
    /\ Consecutive(nonces, Len(spent))
    /\ generated = Len(spent) + Len(nonces)
    /\ Consecutive(offered.list, offered.after)
    /\ offered.after \in Nat /\ offered.after <= Len(spent)
    /\ \A x \in looked : x \in Nat /\ x > Len(spent)

\* A sequence is a function on the positions it has.
LEMMA SeqFunction ==
    ASSUME NEW s \in Seq(Nat)
    PROVE  s \in [1..Len(s) -> Nat]
  OBVIOUS

\* Drawing continues the run.
LEMMA DrawContinues ==
    ASSUME NEW s, NEW k \in Nat, Consecutive(s, k), NEW count \in Nat
    PROVE  LET t == s \o [i \in 1..count |-> k + Len(s) + i]
           IN  Consecutive(t, k) /\ Len(t) = Len(s) + count
  <1>. DEFINE new == [i \in 1..count |-> k + Len(s) + i]
              t   == s \o new
  <1>1. s \in Seq(Nat) /\ Len(s) \in Nat
    BY DEF Consecutive
  <1>2. new \in Seq(Nat) /\ Len(new) = count /\ \A i \in 1..count : new[i] = k + Len(s) + i
    BY <1>1
  <1>3. t \in Seq(Nat) /\ Len(t) = Len(s) + count
    BY <1>1, <1>2
  <1>4. ASSUME NEW i \in 1..Len(t)
        PROVE  t[i] = k + i
    <2>1. CASE i <= Len(s)
      BY <2>1, <1>1, <1>2, <1>3 DEF Consecutive
    <2>2. CASE i > Len(s)
      <3>1. i - Len(s) \in 1..count
        BY <2>2, <1>1, <1>3
      <3>2. t[i] = new[i - Len(s)]
        BY <2>2, <1>1, <1>2, <1>3
      <3>. QED
        BY <3>1, <3>2, <1>1, <1>2
    <2>. QED
      BY <2>1, <2>2, <1>1, <1>3
  <1>. QED
    BY <1>3, <1>4 DEF Consecutive

\* Taking the first pair leaves the run that begins one later.
LEMMA TakeContinues ==
    ASSUME NEW s, NEW k \in Nat, Consecutive(s, k), s # <<>>
    PROVE  /\ Head(s) = k + 1
           /\ Len(Tail(s)) = Len(s) - 1
           /\ Consecutive(Tail(s), k + 1)
  <1>1. s \in Seq(Nat) /\ Len(s) \in Nat \ {0}
    BY DEF Consecutive
  <1>2. Head(s) = s[1] /\ Tail(s) \in Seq(Nat) /\ Len(Tail(s)) = Len(s) - 1
    BY <1>1
  <1>3. \A i \in 1..Len(Tail(s)) : Tail(s)[i] = s[i + 1]
    BY <1>1, <1>2
  <1>. QED
    BY <1>1, <1>2, <1>3 DEF Consecutive

\* Spending the pair after the last one spent extends the run of those spent.
LEMMA SpendContinues ==
    ASSUME NEW s, Consecutive(s, 0)
    PROVE  LET t == Append(s, Len(s) + 1) IN Consecutive(t, 0) /\ Len(t) = Len(s) + 1
  <1>1. s \in Seq(Nat) /\ Len(s) \in Nat
    BY DEF Consecutive
  <1>. DEFINE t == Append(s, Len(s) + 1)
  <1>2. /\ t \in Seq(Nat) /\ Len(t) = Len(s) + 1
        /\ t[Len(s) + 1] = Len(s) + 1
        /\ \A i \in 1..Len(s) : t[i] = s[i]
    BY <1>1
  <1>. QED
    BY <1>1, <1>2 DEF Consecutive

LEMMA FrostStep ==
    ASSUME FrostInv, [FrostNext]_frostVars
    PROVE  FrostInv'
  <1>1. Len(spent) \in Nat /\ Len(nonces) \in Nat
    BY DEF FrostInv, Consecutive
  <1>2. ASSUME NEW count \in 1..MaxCount, GenerateNonces(count)
        PROVE  FrostInv'
    <2>1. count \in Nat /\ UNCHANGED <<spent, looked, offered>>
      BY <1>2, FrostAssumption DEF GenerateNonces
    <2>2. nonces' = nonces \o [i \in 1..count |-> Len(spent) + Len(nonces) + i]
      BY <1>2 DEF GenerateNonces, FrostInv
    <2>3. Consecutive(nonces', Len(spent)) /\ Len(nonces') = Len(nonces) + count
      BY <1>1, <2>1, <2>2, DrawContinues DEF FrostInv
    <2>. QED
      BY <1>1, <1>2, <2>1, <2>3 DEF GenerateNonces, FrostInv, Consecutive
  <1>3. CASE GetCommitments
    <2>1. /\ offered'.list = nonces /\ offered'.after = Len(spent)
          /\ UNCHANGED <<nonces, generated, spent, looked>>
      BY <1>3 DEF GetCommitments
    <2>2. Consecutive(nonces, Len(spent)) /\ Len(spent) <= Len(spent)
      BY <1>1 DEF FrostInv
    <2>. QED
      BY <1>1, <2>1, <2>2 DEF FrostInv
  <1>4. CASE Sign
    <2>1. /\ Head(nonces) = Len(spent) + 1
          /\ nonces' = Tail(nonces)
          /\ Len(nonces') = Len(nonces) - 1
          /\ Consecutive(nonces', Len(spent) + 1)
      BY <1>1, <1>4, TakeContinues DEF Sign, FrostInv
    <2>2. Consecutive(spent', 0) /\ Len(spent') = Len(spent) + 1
      BY <1>4, <2>1, SpendContinues DEF Sign, FrostInv
    <2>3. \A x \in looked' : x \in Nat /\ x > Len(spent')
      <3>1. CASE nonces' = <<>>
        BY <1>4, <3>1 DEF Sign, FirstCommitment
      <3>2. CASE nonces' # <<>>
        <4>1. Head(nonces') = nonces'[1] /\ 1 \in 1..Len(nonces')
          BY <2>1, <3>2 DEF Consecutive
        <4>2. Head(nonces') = Len(spent) + 1 + 1
          BY <2>1, <4>1 DEF Consecutive
        <4>3. looked' = {Head(nonces')}
          BY <1>4, <3>2 DEF Sign, FirstCommitment
        <4>. QED
          BY <1>1, <2>2, <4>2, <4>3
      <3>. QED
        BY <3>1, <3>2
    <2>4. UNCHANGED <<generated, offered>>
      BY <1>4 DEF Sign
    <2>5. Consecutive(nonces', Len(spent'))
      BY <2>1, <2>2
    <2>6. generated' = Len(spent') + Len(nonces')
      <3>1. generated' = Len(spent) + Len(nonces)
        BY <2>4 DEF FrostInv
      <3>2. Len(spent') = Len(spent) + 1 /\ Len(nonces') = Len(nonces) - 1
        BY <2>1, <2>2
      <3>3. PICK a \in Nat, b \in Nat : a = Len(spent) /\ b = Len(nonces)
        BY <1>1
      <3>4. generated' = a + b /\ Len(spent') = a + 1 /\ Len(nonces') = b - 1
        BY <3>1, <3>2, <3>3
      <3>. QED
        BY <3>4
    <2>8. offered'.after \in Nat /\ offered'.after <= Len(spent')
      BY <1>1, <2>2, <2>4 DEF FrostInv
    <2>7. Consecutive(offered'.list, offered'.after)
      BY <2>4 DEF FrostInv
    <2>. QED
      BY <2>2, <2>3, <2>5, <2>6, <2>7, <2>8 DEF FrostInv
  <1>5. CASE UNCHANGED frostVars
    BY <1>5 DEF frostVars, FrostInv, Consecutive
  <1>. QED
    BY <1>2, <1>3, <1>4, <1>5 DEF FrostNext

\* A signer spends each pair it drew once and in order, so the commitments it
\* once offered tell the pair of every later signature, and the commitment
\* sign looks at is never that of a spent pair.
THEOREM NoncesInOrder == FrostSpec => []NoncesSpentInOrder
  <1>1. FrostInit => FrostInv
    BY DEF FrostInit, FrostInv, Consecutive
  <1>2. FrostInv /\ [FrostNext]_frostVars => FrostInv'
    BY FrostStep
  <1>3. FrostInv => NoncesSpentInOrder
    <2>1. SUFFICES ASSUME FrostInv
                   PROVE  NoncesSpentInOrder
      OBVIOUS
    <2>2. /\ spent \in Seq(Nat) /\ nonces \in Seq(Nat)
          /\ Len(spent) \in Nat /\ Len(nonces) \in Nat
          /\ generated = Len(spent) + Len(nonces)
      BY <2>1 DEF FrostInv, Consecutive
    <2>3. spent \o nonces = [i \in 1..generated |-> i]
      <3>1. spent \o nonces \in Seq(Nat) /\ Len(spent \o nonces) = generated
        BY <2>2
      <3>2. ASSUME NEW i \in 1..generated
            PROVE  (spent \o nonces)[i] = i
        <4>1. CASE i <= Len(spent)
          BY <2>1, <2>2, <4>1 DEF FrostInv, Consecutive
        <4>2. CASE i > Len(spent)
          <5>1. i - Len(spent) \in 1..Len(nonces)
            BY <2>2, <4>2
          <5>2. (spent \o nonces)[i] = nonces[i - Len(spent)]
            BY <2>2, <4>2
          <5>. QED
            BY <2>1, <2>2, <5>1, <5>2 DEF FrostInv, Consecutive
        <4>. QED
          BY <2>2, <4>1, <4>2
      <3>3. spent \o nonces \in [1..generated -> Nat]
        BY <3>1, SeqFunction
      <3>. QED
        BY <3>2, <3>3
    <2>4. ASSUME NEW i \in 1..Len(offered.list), offered.after + i <= Len(spent)
          PROVE  spent[offered.after + i] = offered.list[i]
      <3>1. /\ offered.after \in Nat /\ i \in Nat \ {0}
            /\ offered.list[i] = offered.after + i
        BY <2>1 DEF FrostInv, Consecutive
      <3>2. offered.after + i \in 1..Len(spent)
        BY <2>2, <2>4, <3>1
      <3>3. spent[offered.after + i] = offered.after + i
        <4>1. \A x \in 1..Len(spent) : spent[x] = 0 + x /\ x \in Nat
          BY <2>1, <2>2 DEF FrostInv, Consecutive
        <4>. QED
          BY <3>1, <3>2, <4>1
      <3>. QED
        BY <3>1, <3>3
    <2>5. looked \cap Range(spent) = {}
      <3>1. \A i \in DOMAIN spent : spent[i] = i /\ i <= Len(spent)
        BY <2>1, <2>2 DEF FrostInv, Consecutive
      <3>2. \A x \in looked : x > Len(spent) /\ x \in Nat
        BY <2>1 DEF FrostInv
      <3>3. \A x \in Range(spent) : x \in Nat /\ x <= Len(spent)
        BY <2>2, <3>1 DEF Range
      <3>. QED
        BY <2>2, <3>2, <3>3
    <2>. QED
      BY <2>3, <2>4, <2>5 DEF NoncesSpentInOrder
  <1>. QED
    BY <1>1, <1>2, <1>3, PTL DEF FrostSpec

(***************************************************************************)
(* BlockchainClient.                                                       *)
(***************************************************************************)

\* Nothing is ahead of the chain, and an answer is not behind what
\* latest_block was when its call began.
ChainInv ==
    /\ head \in Nat /\ latest \in Nat /\ latest <= head
    /\ sync \in [Syncs -> [at : {"idle", "asking", "answered", "done"}, began : Nat, height : Nat]]
    /\ \A s \in Syncs :
          /\ sync[s].at \in {"asking", "answered"} => sync[s].began <= head
          /\ sync[s].at = "answered" => sync[s].began <= sync[s].height /\ sync[s].height <= head

LEMMA ChainStep ==
    ASSUME ChainInv, [ChainNext]_chainVars
    PROVE  ChainInv'
  <1>1. CASE NewBlock
    BY <1>1 DEF NewBlock, ChainInv
  <1>2. ASSUME NEW s \in Syncs, BeginSync(s)
        PROVE  ChainInv'
    BY <1>2 DEF BeginSync, ChainInv
  <1>3. ASSUME NEW s \in Syncs, Answer(s)
        PROVE  ChainInv'
    <2>1. /\ sync[s].at = "asking"
          /\ UNCHANGED <<head, latest>>
      BY <1>3 DEF Answer
    <2>2. sync' \in [Syncs -> [at : {"idle", "asking", "answered", "done"}, began : Nat, height : Nat]]
      BY <1>3 DEF Answer, ChainInv
    <2>3. sync'[s].at = "answered" /\ sync'[s].began = sync[s].began /\ sync'[s].height = head
      BY <1>3 DEF Answer, ChainInv
    <2>4. \A r \in Syncs \ {s} : sync'[r] = sync[r]
      BY <1>3 DEF Answer, ChainInv
    <2>. QED
      BY <2>1, <2>2, <2>3, <2>4 DEF ChainInv
  <1>4. ASSUME NEW s \in Syncs, FailSync(s)
        PROVE  ChainInv'
    BY <1>4 DEF FailSync, ChainInv
  <1>5. ASSUME NEW s \in Syncs, FinishSync(s)
        PROVE  ChainInv'
    BY <1>5 DEF FinishSync, ChainInv
  <1>6. CASE UNCHANGED chainVars
    BY <1>6 DEF chainVars, ChainInv
  <1>. QED
    BY <1>1, <1>2, <1>3, <1>4, <1>5, <1>6 DEF ChainNext

\* Only the end of a call writes latest_block.
LEMMA WritesAdvance ==
    ASSUME ChainInv, [ChainNext]_chainVars,
           NEW s \in Syncs, latest' # latest, sync[s]' # sync[s]
    PROVE  sync[s].began <= latest' /\ latest' <= head
  <1>1. PICK r \in Syncs : FinishSync(r)
    BY DEF ChainNext, NewBlock, BeginSync, Answer, FailSync, chainVars
  <1>2. r = s
    BY <1>1 DEF FinishSync, ChainInv
  <1>. QED
    BY <1>1, <1>2 DEF FinishSync, ChainInv

\* No call of sync_blocks, however many overlap, takes latest_block below what
\* it was when that call began.
THEOREM SyncsOnlyAdvance == ChainSpec => SyncsAdvance
  <1>1. ChainInit => ChainInv
    BY DEF ChainInit, ChainInv
  <1>2. ChainInv /\ [ChainNext]_chainVars => ChainInv'
    BY ChainStep
  <1>3. ChainInv /\ [ChainNext]_chainVars =>
           [\A s \in Syncs : latest' # latest /\ sync[s]' # sync[s]
               => sync[s].began <= latest' /\ latest' <= head]_chainVars
    BY WritesAdvance
  <1>. QED
    BY <1>1, <1>2, <1>3, PTL DEF ChainSpec, SyncsAdvance

=============================================================================
