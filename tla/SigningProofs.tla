--------------------------- MODULE SigningProofs ----------------------------
(***************************************************************************)
(* The safety of the signing node, for every number of signers, every      *)
(* threshold and every size of the channel; and that the event loop is a   *)
(* transport SigningNode allows, and one that delivers nothing.            *)
(***************************************************************************)
EXTENDS SigningLoop, DataLemmas, FiniteSetTheorems, TLAPS

(***************************************************************************)
(* The messages.                                                           *)
(***************************************************************************)

\* The commitments of a signer that started are a message of the right type.
LEMMA CommitmentShareType ==
    ASSUME NEW n \in Signers, NEW c \in 1..MaxStarts
    PROVE  /\ CommitmentShare(n, c) \in SigningMessage
           /\ CommitmentShare(n, c).type = "CommitmentShare"
           /\ CommitmentShare(n, c).from = n
           /\ CommitmentShare(n, c).commitments = c
  BY DEF CommitmentShare, SigningMessage

\* So is a signature share.
LEMMA SignatureShareType ==
    ASSUME NEW n \in Signers
    PROVE  /\ SignatureShare(n) \in SigningMessage
           /\ SignatureShare(n).type = "SignatureShare"
           /\ SignatureShare(n).from = n
  BY DEF SignatureShare, SigningMessage

\* The fields of a message have the types of the enum's variants.
LEMMA SigningMessageFields ==
    ASSUME NEW m \in SigningMessage
    PROVE  /\ m.from \in Signers
           /\ m.type \in {"CommitmentShare", "SignatureShare"}
           /\ m.type = "CommitmentShare" => m.commitments \in 1..MaxStarts
  BY DEF SigningMessage

\* A blocked handler waits with one message.
LEMMA SingletonRange ==
    ASSUME NEW x
    PROVE  /\ Range(<<x>>) = {x}
           /\ Head(<<x>>) = x
           /\ Range(<<>>) = {}
           /\ <<x>> # <<>>
  BY DEF Range

\* A broadcast, blocked or not, adds its message to those under way.
LEMMA SigningBroadcastEffect ==
    ASSUME SigningTypeOK, NEW n \in Signers, NEW msg \in SigningMessage, Idle(n),
           SigningBroadcast(n, msg), published' = published
    PROVE  /\ channel' \in [Signers -> Seq(SigningMessage)]
           /\ waiting' \in [Signers -> {<<>>} \cup {<<m>> : m \in SigningMessage}]
           /\ SigningMessages' = SigningMessages \cup {msg}
  <1>1. /\ channel \in [Signers -> Seq(SigningMessage)]
        /\ waiting \in [Signers -> {<<>>} \cup {<<m>> : m \in SigningMessage}]
    BY DEF SigningTypeOK
  <1>2. /\ channel' \in [Signers -> Seq(SigningMessage)]
        /\ waiting' \in [Signers -> {<<>>} \cup {<<m>> : m \in SigningMessage}]
        /\ \A k \in Signers \ {n} : channel'[k] = channel[k] /\ waiting'[k] = waiting[k]
        /\ Pending(n)' = Pending(n) \cup {msg}
    <2>1. CASE channel' = [channel EXCEPT ![n] = Append(@, msg)] /\ UNCHANGED waiting
      <3>1. /\ Append(channel[n], msg) \in Seq(SigningMessage)
            /\ Range(Append(channel[n], msg)) = Range(channel[n]) \cup {msg}
        BY <1>1, RangeAppend
      <3>2. channel'[n] = Append(channel[n], msg)
        BY <1>1, <2>1
      <3>. QED
        BY <1>1, <2>1, <3>1, <3>2 DEF Pending
    <2>2. CASE waiting' = [waiting EXCEPT ![n] = <<msg>>] /\ UNCHANGED channel
      <3>1. waiting'[n] = <<msg>> /\ waiting[n] = <<>>
        BY <1>1, <2>2 DEF Idle
      <3>2. Pending(n)' = Pending(n) \cup {msg}
        BY <2>2, <3>1, SingletonRange DEF Pending
      <3>. QED
        BY <1>1, <2>2, <3>2
    <2>. QED
      BY <2>1, <2>2 DEF SigningBroadcast
  <1>3. \A k \in Signers \ {n} : Pending(k)' = Pending(k)
    BY <1>2 DEF Pending
  <1>4. SigningMessages' = SigningMessages \cup {msg}
    BY <1>2, <1>3 DEF SigningMessages
  <1>. QED
    BY <1>2, <1>4

\* Everything under way is a message.
LEMMA MessagesTyped ==
    ASSUME SigningTypeOK
    PROVE  \A m \in SigningMessages : m \in SigningMessage
  <1>1. ASSUME NEW n \in Signers, NEW m \in Range(channel[n])
        PROVE  m \in SigningMessage
    <2>1. channel[n] \in Seq(SigningMessage)
      BY DEF SigningTypeOK
    <2>2. PICK i \in DOMAIN channel[n] : m = channel[n][i]
      BY <1>1 DEF Range
    <2>. QED
      BY <2>1, <2>2
  <1>2. ASSUME NEW n \in Signers, NEW m \in Range(waiting[n])
        PROVE  m \in SigningMessage
    <2>1. waiting[n] = <<>> \/ \E k \in SigningMessage : waiting[n] = <<k>>
      BY DEF SigningTypeOK
    <2>2. CASE waiting[n] = <<>>
      BY <1>2, <2>2 DEF Range
    <2>3. ASSUME NEW k \in SigningMessage, waiting[n] = <<k>>
          PROVE  m \in SigningMessage
      <3>1. Range(waiting[n]) = {k}
        BY <2>3, SingletonRange
      <3>. QED
        BY <1>2, <3>1
    <2>. QED
      BY <2>1, <2>2, <2>3
  <1>. QED
    BY <1>1, <1>2 DEF SigningMessages, Pending, SigningTypeOK

\* Reading the channel keeps every message somewhere.
LEMMA TakeSigningEffect ==
    ASSUME SigningTypeOK, NEW n \in Signers, TakeSigningMessage(n)
    PROVE  /\ channel' \in [Signers -> Seq(SigningMessage)]
           /\ published' \subseteq SigningMessage
           /\ SigningMessages' = SigningMessages
  <1>1. channel \in [Signers -> Seq(SigningMessage)] /\ published \subseteq SigningMessage
    BY DEF SigningTypeOK
  <1>2. /\ channel' = [channel EXCEPT ![n] = Tail(@)]
        /\ published' = published \cup {Head(channel[n])}
        /\ waiting' = waiting
        /\ channel[n] # <<>>
    BY DEF TakeSigningMessage
  <1>3. /\ Head(channel[n]) \in SigningMessage
        /\ Tail(channel[n]) \in Seq(SigningMessage)
        /\ Range(channel[n]) = {Head(channel[n])} \cup Range(Tail(channel[n]))
    BY <1>1, <1>2, RangeTail
  <1>4. /\ channel' \in [Signers -> Seq(SigningMessage)]
        /\ channel'[n] = Tail(channel[n])
        /\ \A k \in Signers \ {n} : channel'[k] = channel[k]
    BY <1>1, <1>2, <1>3
  <1>5. /\ Pending(n) = Pending(n)' \cup {Head(channel[n])} 
        /\ \A k \in Signers \ {n} : Pending(k)' = Pending(k)
    BY <1>2, <1>3, <1>4 DEF Pending
  <1>6. SigningMessages' = SigningMessages
    BY <1>2, <1>5 DEF SigningMessages
  <1>. QED
    BY <1>1, <1>2, <1>3, <1>4, <1>6

\* A sender that gets room moves its message into the channel.
LEMMA ResumeBroadcastEffect ==
    ASSUME SigningTypeOK, NEW n \in Signers, ResumeBroadcast(n)
    PROVE  /\ channel' \in [Signers -> Seq(SigningMessage)]
           /\ waiting' \in [Signers -> {<<>>} \cup {<<m>> : m \in SigningMessage}]
           /\ SigningMessages' = SigningMessages
  <1>1. /\ channel \in [Signers -> Seq(SigningMessage)]
        /\ waiting \in [Signers -> {<<>>} \cup {<<m>> : m \in SigningMessage}]
    BY DEF SigningTypeOK
  <1>2. PICK msg \in SigningMessage : waiting[n] = <<msg>>
    BY <1>1 DEF ResumeBroadcast, Idle
  <1>3. /\ channel' = [channel EXCEPT ![n] = Append(@, msg)]
        /\ waiting' = [waiting EXCEPT ![n] = <<>>]
        /\ published' = published
    BY <1>2, SingletonRange DEF ResumeBroadcast
  <1>4. /\ Append(channel[n], msg) \in Seq(SigningMessage)
        /\ Range(Append(channel[n], msg)) = Range(channel[n]) \cup {msg}
    BY <1>1, RangeAppend
  <1>5. /\ channel' \in [Signers -> Seq(SigningMessage)]
        /\ waiting' \in [Signers -> {<<>>} \cup {<<m>> : m \in SigningMessage}]
        /\ channel'[n] = Append(channel[n], msg)
        /\ waiting'[n] = <<>>
        /\ \A k \in Signers \ {n} : channel'[k] = channel[k] /\ waiting'[k] = waiting[k]
    BY <1>1, <1>3, <1>4
  <1>6. Pending(n)' = Pending(n)
    BY <1>2, <1>4, <1>5, SingletonRange DEF Pending
  <1>7. \A k \in Signers \ {n} : Pending(k)' = Pending(k)
    BY <1>5 DEF Pending
  <1>8. SigningMessages' = SigningMessages
    BY <1>3, <1>6, <1>7 DEF SigningMessages
  <1>. QED
    BY <1>5, <1>8

(***************************************************************************)
(* Types.                                                                  *)
(***************************************************************************)

\* What start_signing does: one more nonce pair, and the commitments of all of
\* them under way.
LEMMA StartSigningEffect ==
    ASSUME SigningTypeOK, NEW n \in Signers, StartSigning(n)
    PROVE  /\ nonces[n] \in Nat
           /\ nonces[n] + 1 \in 1..MaxStarts
           /\ nonces' = [nonces EXCEPT ![n] = nonces[n] + 1]
           /\ channel' \in [Signers -> Seq(SigningMessage)]
           /\ waiting' \in [Signers -> {<<>>} \cup {<<m>> : m \in SigningMessage}]
           /\ SigningMessages' = SigningMessages \cup {CommitmentShare(n, nonces[n] + 1)}
           /\ UNCHANGED <<commitments, signature_shares, published>>
  <1>1. nonces \in [Signers -> 0..MaxStarts] /\ nonces[n] < MaxStarts /\ MaxStarts \in Nat
    BY SigningAssumption DEF SigningTypeOK, StartSigning
  <1>2. nonces[n] \in Nat /\ nonces[n] + 1 \in 1..MaxStarts
    BY <1>1
  <1>3. nonces'[n] = nonces[n] + 1
    BY <1>1 DEF StartSigning
  <1>4. CommitmentShare(n, nonces[n] + 1) \in SigningMessage
    BY <1>2, CommitmentShareType
  <1>5. /\ Idle(n)
        /\ SigningBroadcast(n, CommitmentShare(n, nonces[n] + 1))
        /\ UNCHANGED <<commitments, signature_shares, published>>
    BY <1>3 DEF StartSigning
  <1>. QED
    BY <1>2, <1>4, <1>5, SigningBroadcastEffect DEF StartSigning

\* What handle_commitment_share does, whether or not it signs.
LEMMA CommitmentEffect ==
    ASSUME SigningTypeOK, NEW n \in Signers, NEW m \in SigningMessage,
           m.type = "CommitmentShare", Idle(n), HandleCommitmentShare(n, m)
    PROVE  /\ commitments' = [commitments EXCEPT ![n] = Insert(@, m.from, m.commitments)]
           /\ IsHashMap(Insert(commitments[n], m.from, m.commitments), Signers, 1..MaxStarts)
           /\ channel' \in [Signers -> Seq(SigningMessage)]
           /\ waiting' \in [Signers -> {<<>>} \cup {<<k>> : k \in SigningMessage}]
           /\ \/ EnoughCommitments(n)' /\ SigningMessages' = SigningMessages \cup {SignatureShare(n)}
              \/ SigningMessages' = SigningMessages
           /\ UNCHANGED <<nonces, signature_shares, published>>
  <1>1. m.from \in Signers /\ m.commitments \in 1..MaxStarts
    BY SigningMessageFields
  <1>2. IsHashMap(Insert(commitments[n], m.from, m.commitments), Signers, 1..MaxStarts)
    BY <1>1, InsertType DEF SigningTypeOK
  <1>3. CASE EnoughCommitments(n)' /\ SigningBroadcast(n, SignatureShare(n))
    BY <1>2, <1>3, SignatureShareType, SigningBroadcastEffect DEF HandleCommitmentShare
  <1>4. CASE UNCHANGED <<channel, waiting>>
    <2>1. SigningMessages' = SigningMessages
      BY <1>4 DEF HandleCommitmentShare, SigningMessages, Pending
    <2>. QED
      BY <1>2, <1>4, <2>1 DEF HandleCommitmentShare, SigningTypeOK
  <1>. QED
    BY <1>3, <1>4 DEF HandleCommitmentShare

\* A step keeps every value in its type.
LEMMA SigningTypeStep ==
    ASSUME SigningTypeOK, [SigningNext]_signingVars
    PROVE  SigningTypeOK'
  <1>1. ASSUME NEW n \in Signers, StartSigning(n)
        PROVE  SigningTypeOK'
    <2>1. nonces[n] + 1 \in 0..MaxStarts
      BY <1>1, StartSigningEffect
    <2>. QED
      BY <1>1, <2>1, StartSigningEffect DEF SigningTypeOK
  <1>2. ASSUME NEW n \in Signers, NEW m \in published, m.from # n, HandleSigningMessage(n, m)
        PROVE  SigningTypeOK'
    <2>1. m \in SigningMessage /\ m.from \in Signers /\ Idle(n)
      BY <1>2, SigningMessageFields DEF SigningTypeOK, HandleSigningMessage
    <2>2. CASE m.type = "CommitmentShare" /\ HandleCommitmentShare(n, m)
      BY <2>1, <2>2, CommitmentEffect DEF SigningTypeOK
    <2>3. CASE m.type = "SignatureShare" /\ HandleSignatureShare(n, m)
      BY <2>1, <2>3 DEF HandleSignatureShare, SigningTypeOK
    <2>. QED
      BY <1>2, <2>2, <2>3 DEF HandleSigningMessage
  <1>3. ASSUME NEW n \in Signers, TakeSigningMessage(n)
        PROVE  SigningTypeOK'
    BY <1>3, TakeSigningEffect DEF TakeSigningMessage, signerVars, SigningTypeOK
  <1>4. ASSUME NEW n \in Signers, ResumeBroadcast(n)
        PROVE  SigningTypeOK'
    BY <1>4, ResumeBroadcastEffect DEF ResumeBroadcast, signerVars, SigningTypeOK
  <1>5. CASE UNCHANGED signingVars
    BY <1>5 DEF signingVars, signerVars, SigningTypeOK
  <1>. QED
    BY <1>1, <1>2, <1>3, <1>4, <1>5 DEF SigningNext, DeliverSigning

\* SigningNode::new gives every value its type.
LEMMA SigningInitType ==
    ASSUME SigningInit
    PROVE  SigningTypeOK
  <1>1. IsHashMap(EmptyMap, Signers, 1..MaxStarts)
    BY DEF EmptyMap, IsHashMap
  <1>. QED
    BY <1>1, SigningAssumption DEF SigningInit, SigningTypeOK

\* Nothing is under way before the first start.
LEMMA SigningInitEmpty ==
    ASSUME SigningInit
    PROVE  SigningMessages = {}
  <1>1. \A k \in Signers : channel[k] = <<>> /\ waiting[k] = <<>>
    BY DEF SigningInit
  <1>2. \A k \in Signers : Pending(k) = {}
    BY <1>1, SingletonRange DEF Pending
  <1>3. published = {}
    BY DEF SigningInit
  <1>. QED
    BY <1>2, <1>3 DEF SigningMessages

\* The maps, the queues and the suspended handlers of every signer keep their
\* types, and no vector of commitments outgrows the starts.
THEOREM SigningTypeCorrect == SigningSpec => []SigningTypeOK
  <1>1. SigningInit => SigningTypeOK
    BY SigningInitType
  <1>2. SigningTypeOK /\ [SigningNext]_signingVars => SigningTypeOK'
    BY SigningTypeStep
  <1>. QED
    BY <1>1, <1>2, PTL DEF SigningSpec

(***************************************************************************)
(* Quorums.                                                                *)
(***************************************************************************)

\* A signer that holds enough commitments holds enough after any insert.
LEMMA EnoughStays ==
    ASSUME SigningTypeOK, SigningTypeOK', NEW k \in Signers,
           DOMAIN commitments[k] \subseteq DOMAIN commitments'[k],
           EnoughCommitments(k)
    PROVE  EnoughCommitments(k)'
  <1>1. /\ DOMAIN commitments[k] \subseteq Signers
        /\ DOMAIN commitments'[k] \subseteq Signers
    BY DEF SigningTypeOK, IsHashMap
  <1>2. IsFiniteSet(DOMAIN commitments'[k])
    BY <1>1, FS_Subset, SigningAssumption
  <1>3. /\ Cardinality(DOMAIN commitments[k]) \in Nat
        /\ Cardinality(DOMAIN commitments'[k]) \in Nat
        /\ Cardinality(DOMAIN commitments[k]) <= Cardinality(DOMAIN commitments'[k])
    BY <1>2, FS_Subset, FS_CardinalityType
  <1>4. Threshold[k] \in Nat
    BY SigningAssumption
  <1>. QED
    BY <1>3, <1>4 DEF EnoughCommitments

\* No step shrinks a map of commitments or forgets a nonce.
LEMMA SigningGrows ==
    ASSUME SigningTypeOK, SigningNext
    PROVE  \A k \in Signers : /\ DOMAIN commitments[k] \subseteq DOMAIN commitments'[k]
                              /\ nonces[k] <= nonces'[k]
  <1>1. ASSUME NEW n \in Signers, StartSigning(n)
        PROVE  \A k \in Signers : /\ DOMAIN commitments[k] \subseteq DOMAIN commitments'[k]
                                  /\ nonces[k] <= nonces'[k]
    <2>1. /\ nonces' = [nonces EXCEPT ![n] = nonces[n] + 1]
          /\ commitments' = commitments
      BY <1>1, StartSigningEffect
    <2>2. /\ DOMAIN nonces = Signers
          /\ \A k \in Signers : nonces[k] \in Nat
      BY SigningAssumption DEF SigningTypeOK
    <2>. QED
      BY <2>1, <2>2
  <1>2. ASSUME NEW n \in Signers, NEW m \in published, HandleSigningMessage(n, m)
        PROVE  /\ \A k \in Signers : DOMAIN commitments[k] \subseteq DOMAIN commitments'[k]
               /\ nonces' = nonces
    <2>1. CASE HandleCommitmentShare(n, m)
      <3>1. /\ commitments' = [commitments EXCEPT ![n] = Insert(@, m.from, m.commitments)]
            /\ nonces' = nonces
            /\ DOMAIN commitments = Signers
        BY <2>1 DEF HandleCommitmentShare, SigningTypeOK
      <3>2. DOMAIN Insert(commitments[n], m.from, m.commitments)
               = DOMAIN commitments[n] \cup {m.from}
        BY DEF Insert
      <3>. QED
        BY <3>1, <3>2
    <2>2. CASE HandleSignatureShare(n, m)
      BY <2>2 DEF HandleSignatureShare
    <2>. QED
      BY <1>2, <2>1, <2>2 DEF HandleSigningMessage
  <1>3. ASSUME NEW n \in Signers, TakeSigningMessage(n) \/ ResumeBroadcast(n)
        PROVE  commitments' = commitments /\ nonces' = nonces
    BY <1>3 DEF TakeSigningMessage, ResumeBroadcast, signerVars
  <1>4. \A k \in Signers : nonces[k] <= nonces[k]
    BY SigningAssumption DEF SigningTypeOK
  <1>. QED
    BY <1>1, <1>2, <1>3, <1>4 DEF SigningNext, DeliverSigning

\* The commitments in the maps and messages stay those of other signers.
LEMMA OthersStep ==
    ASSUME SigningTypeOK, SigningTypeOK', CommitmentsAreOfOthers, [SigningNext]_signingVars
    PROVE  CommitmentsAreOfOthers'
  <1>1. ASSUME SigningNext, NEW k \in Signers, NEW c \in Nat, c <= nonces[k]
        PROVE  c <= nonces'[k]
    <2>1. nonces[k] <= nonces'[k] /\ nonces[k] \in Nat /\ nonces'[k] \in Nat
      BY <1>1, SigningGrows, SigningAssumption DEF SigningTypeOK
    <2>. QED
      BY <2>1, <1>1
  <1>2. \A m \in SigningMessages : m \in SigningMessage
    BY MessagesTyped
  <1>3. ASSUME NEW n \in Signers, StartSigning(n)
        PROVE  CommitmentsAreOfOthers'
    <2>1. SigningNext
      BY <1>3 DEF SigningNext
    <2>2. ASSUME NEW m \in SigningMessages', m.type = "CommitmentShare"
          PROVE  m.commitments <= nonces'[m.from]
      <3>1. CASE m \in SigningMessages
        <4>1. m.from \in Signers /\ m.commitments \in Nat
          BY <1>2, <2>2, <3>1, SigningMessageFields
        <4>. QED
          BY <1>1, <2>1, <2>2, <3>1, <4>1 DEF CommitmentsAreOfOthers
      <3>2. CASE m = CommitmentShare(n, nonces[n] + 1)
        <4>1. /\ m.from = n
              /\ m.commitments = nonces[n] + 1
              /\ nonces'[n] = nonces[n] + 1
              /\ nonces[n] + 1 \in Nat
          BY <1>3, <3>2, StartSigningEffect, CommitmentShareType, SigningAssumption
             DEF SigningTypeOK
        <4>. QED
          BY <4>1
      <3>. QED
        BY <1>3, <2>2, <3>1, <3>2, StartSigningEffect
    <2>3. ASSUME NEW k \in Signers, NEW j \in DOMAIN commitments[k]
          PROVE  j # k /\ commitments[k][j] <= nonces'[j]
      <3>1. j \in Signers /\ commitments[k][j] \in Nat
        BY <2>3 DEF SigningTypeOK, IsHashMap
      <3>. QED
        BY <1>1, <2>1, <2>3, <3>1 DEF CommitmentsAreOfOthers
    <2>. QED
      BY <1>3, <2>2, <2>3, StartSigningEffect DEF CommitmentsAreOfOthers
  <1>4. ASSUME NEW n \in Signers, NEW m \in published, m.from # n, HandleSigningMessage(n, m)
        PROVE  CommitmentsAreOfOthers'
    <2>1. m \in SigningMessage /\ m.from \in Signers /\ m \in SigningMessages /\ Idle(n)
      BY <1>4, SigningMessageFields DEF SigningTypeOK, SigningMessages, HandleSigningMessage
    <2>2. CASE m.type = "CommitmentShare" /\ HandleCommitmentShare(n, m)
      <3>1. m.commitments <= nonces[m.from]
        BY <2>1, <2>2 DEF CommitmentsAreOfOthers
      <3>2. ASSUME NEW k \in Signers, NEW j \in DOMAIN commitments'[k]
            PROVE  j # k /\ commitments'[k][j] <= nonces[j]
        <4>1. CASE k = n
          <5>1. commitments'[n] = Insert(commitments[n], m.from, m.commitments)
            BY <2>2 DEF HandleCommitmentShare, SigningTypeOK
          <5>. QED
            BY <1>4, <3>1, <3>2, <4>1, <5>1 DEF Insert, CommitmentsAreOfOthers
        <4>2. CASE k # n
          <5>1. commitments'[k] = commitments[k]
            BY <2>2, <4>2 DEF HandleCommitmentShare, SigningTypeOK
          <5>. QED
            BY <3>2, <5>1 DEF CommitmentsAreOfOthers
        <4>. QED
          BY <4>1, <4>2
      <3>3. /\ nonces' = nonces
            /\ signature_shares' = signature_shares
            /\ SigningMessages' \subseteq SigningMessages \cup {SignatureShare(n)}
        BY <2>1, <2>2, CommitmentEffect
      <3>. QED
        BY <3>2, <3>3, SignatureShareType DEF CommitmentsAreOfOthers
    <2>3. CASE m.type = "SignatureShare" /\ HandleSignatureShare(n, m)
      <3>1. SigningMessages' = SigningMessages
        BY <2>3 DEF HandleSignatureShare, SigningMessages, Pending
      <3>. QED
        BY <1>4, <2>3, <3>1 DEF HandleSignatureShare, CommitmentsAreOfOthers, SigningTypeOK
    <2>. QED
      BY <1>4, <2>2, <2>3 DEF HandleSigningMessage
  <1>5. ASSUME NEW n \in Signers, TakeSigningMessage(n) \/ ResumeBroadcast(n)
        PROVE  CommitmentsAreOfOthers'
    <2>1. SigningMessages' = SigningMessages
      BY <1>5, TakeSigningEffect, ResumeBroadcastEffect
    <2>. QED
      BY <1>5, <2>1 DEF TakeSigningMessage, ResumeBroadcast, signerVars, CommitmentsAreOfOthers
  <1>6. CASE UNCHANGED signingVars
    BY <1>6 DEF signingVars, signerVars, CommitmentsAreOfOthers, SigningMessages, Pending
  <1>. QED
    BY <1>3, <1>4, <1>5, <1>6 DEF SigningNext, DeliverSigning

\* Nobody sends or stores a signature share of a signer without a quorum.
LEMMA QuorumsStep ==
    ASSUME SigningTypeOK, SigningTypeOK', SharesHaveQuorums, [SigningNext]_signingVars
    PROVE  SharesHaveQuorums'
  <1>1. ASSUME SigningNext, NEW k \in Signers, EnoughCommitments(k)
        PROVE  EnoughCommitments(k)'
    BY <1>1, SigningGrows, EnoughStays
  <1>2. ASSUME SigningNext,
               \A m \in SigningMessages' : m.type = "SignatureShare" =>
                  m \in SigningMessages \/ EnoughCommitments(m.from)',
               \A n \in Signers : \A k \in signature_shares'[n] :
                  EnoughCommitments(k) \/ k \in signature_shares[n]
        PROVE  SharesHaveQuorums'
    <2>1. ASSUME NEW m \in SigningMessages', m.type = "SignatureShare"
          PROVE  EnoughCommitments(m.from)'
      <3>1. CASE m \in SigningMessages
        <4>1. m.from \in Signers
          BY <3>1, MessagesTyped, SigningMessageFields
        <4>2. EnoughCommitments(m.from)
          BY <2>1, <3>1 DEF SharesHaveQuorums
        <4>. QED
          BY <1>1, <1>2, <4>1, <4>2
      <3>. QED
        BY <1>2, <2>1, <3>1
    <2>2. ASSUME NEW n \in Signers, NEW k \in signature_shares'[n]
          PROVE  EnoughCommitments(k)'
      <3>1. k \in Signers
        BY <2>2 DEF SigningTypeOK
      <3>2. EnoughCommitments(k)
        BY <1>2, <2>2 DEF SharesHaveQuorums
      <3>. QED
        BY <1>1, <1>2, <3>1, <3>2
    <2>. QED
      BY <2>1, <2>2 DEF SharesHaveQuorums
  <1>3. ASSUME NEW n \in Signers, StartSigning(n)
        PROVE  SharesHaveQuorums'
    <2>1. /\ SigningMessages' = SigningMessages \cup {CommitmentShare(n, nonces[n] + 1)}
          /\ signature_shares' = signature_shares
      BY <1>3, StartSigningEffect
    <2>2. CommitmentShare(n, nonces[n] + 1).type # "SignatureShare"
      BY DEF CommitmentShare
    <2>. QED
      BY <1>2, <1>3, <2>1, <2>2 DEF SigningNext
  <1>4. ASSUME NEW n \in Signers, NEW m \in published, m.from # n, HandleSigningMessage(n, m)
        PROVE  SharesHaveQuorums'
    <2>1. m \in SigningMessage /\ m \in SigningMessages /\ Idle(n) /\ SigningNext
      BY <1>4 DEF SigningTypeOK, SigningMessages, HandleSigningMessage, SigningNext, DeliverSigning
    <2>2. CASE m.type = "CommitmentShare" /\ HandleCommitmentShare(n, m)
      <3>1. /\ signature_shares' = signature_shares
            /\ \/ EnoughCommitments(n)' /\ SigningMessages' = SigningMessages \cup {SignatureShare(n)}
               \/ SigningMessages' = SigningMessages
        BY <2>1, <2>2, CommitmentEffect
      <3>2. SignatureShare(n).from = n
        BY SignatureShareType
      <3>. QED
        BY <1>2, <2>1, <3>1, <3>2
    <2>3. CASE m.type = "SignatureShare" /\ HandleSignatureShare(n, m)
      <3>1. SigningMessages' = SigningMessages
        BY <2>3 DEF HandleSignatureShare, SigningMessages, Pending
      <3>2. EnoughCommitments(m.from)
        BY <2>1, <2>3 DEF SharesHaveQuorums
      <3>3. \A k \in Signers : \A j \in signature_shares'[k] :
               j \in signature_shares[k] \/ j = m.from
        BY <2>3 DEF HandleSignatureShare, SigningTypeOK
      <3>. QED
        BY <1>2, <2>1, <3>1, <3>2, <3>3
    <2>. QED
      BY <1>4, <2>2, <2>3 DEF HandleSigningMessage
  <1>5. ASSUME NEW n \in Signers, TakeSigningMessage(n) \/ ResumeBroadcast(n)
        PROVE  SharesHaveQuorums'
    <2>1. SigningMessages' = SigningMessages /\ signature_shares' = signature_shares
      BY <1>5, TakeSigningEffect, ResumeBroadcastEffect
         DEF TakeSigningMessage, ResumeBroadcast, signerVars
    <2>. QED
      BY <1>2, <1>5, <2>1 DEF SigningNext
  <1>6. CASE UNCHANGED signingVars
    BY <1>6 DEF signingVars, signerVars, SharesHaveQuorums, SigningMessages, Pending,
                EnoughCommitments
  <1>. QED
    BY <1>3, <1>4, <1>5, <1>6 DEF SigningNext, DeliverSigning

\* The conjunction the theorems below follow from is inductive.
THEOREM SigningInvariant == SigningSpec => []SigningInv
  <1>1. SigningInit => SigningInv
    <2>1. ASSUME SigningInit
          PROVE  /\ CommitmentsAreOfOthers
                 /\ SharesHaveQuorums
      <3>1. SigningMessages = {}
        BY <2>1, SigningInitEmpty
      <3>2. DOMAIN EmptyMap = {}
        BY DEF EmptyMap
      <3>. QED
        BY <2>1, <3>1, <3>2 DEF SigningInit, CommitmentsAreOfOthers, SharesHaveQuorums
    <2>. QED
      BY <2>1, SigningInitType DEF SigningInv
  <1>2. SigningInv /\ [SigningNext]_signingVars => SigningInv'
    <2>. SUFFICES ASSUME SigningInv, [SigningNext]_signingVars
                  PROVE  SigningInv'
      OBVIOUS
    <2>1. SigningTypeOK'
      BY SigningTypeStep DEF SigningInv
    <2>2. CommitmentsAreOfOthers'
      BY <2>1, OthersStep DEF SigningInv
    <2>3. SharesHaveQuorums'
      BY <2>1, QuorumsStep DEF SigningInv
    <2>. QED
      BY <2>1, <2>2, <2>3 DEF SigningInv
  <1>. QED
    BY <1>1, <1>2, PTL DEF SigningSpec

\* A signer counts the commitments and shares of others only, and of each no
\* more commitments than it drew nonces for.
THEOREM OwnNeverCounts == SigningSpec => []CommitmentsAreOfOthers
  <1>1. SigningInv => CommitmentsAreOfOthers
    BY DEF SigningInv
  <1>. QED
    BY <1>1, SigningInvariant, PTL

\* Behind every signature share stands a signer with a quorum of commitments.
THEOREM QuorumBehindShares == SigningSpec => []SharesHaveQuorums
  <1>1. SigningInv => SharesHaveQuorums
    BY DEF SigningInv
  <1>. QED
    BY <1>1, SigningInvariant, PTL

\* As many signers as a threshold are too few for it: counting only others, a
\* signer never gets there.
THEOREM ThresholdTooHigh == SigningSpec => []TooFewSigners
  <1>1. SigningInv => TooFewSigners
    <2>. SUFFICES ASSUME SigningInv, NEW n \in Signers, Cardinality(Signers) <= Threshold[n]
                  PROVE  SignatureShare(n) \notin SigningMessages /\ ~Aggregates(n)
      BY DEF TooFewSigners
    <2>1. ASSUME NEW S \in SUBSET (Signers \ {n})
          PROVE  ~(Cardinality(S) >= Threshold[n])
      <3>1. /\ IsFiniteSet(Signers \ {n})
            /\ Cardinality(Signers \ {n}) = Cardinality(Signers) - 1
        BY FS_RemoveElement, SigningAssumption
      <3>2. Cardinality(S) <= Cardinality(Signers \ {n})
        BY <3>1, FS_Subset
      <3>3. /\ Cardinality(Signers) \in Nat
            /\ Cardinality(S) \in Nat
            /\ Threshold[n] \in Nat
        BY <3>1, FS_Subset, FS_CardinalityType, SigningAssumption
      <3>. QED
        BY <3>1, <3>2, <3>3
    <2>2. DOMAIN commitments[n] \subseteq Signers \ {n}
      BY DEF SigningInv, SigningTypeOK, IsHashMap, CommitmentsAreOfOthers
    <2>3. signature_shares[n] \subseteq Signers \ {n}
      BY DEF SigningInv, SigningTypeOK, CommitmentsAreOfOthers
    <2>4. ~EnoughCommitments(n)
      BY <2>1, <2>2 DEF EnoughCommitments
    <2>5. ~Aggregates(n)
      BY <2>1, <2>3 DEF Aggregates
    <2>. QED
      BY <2>4, <2>5, SignatureShareType DEF SigningInv, SharesHaveQuorums
  <1>. QED
    BY <1>1, SigningInvariant, PTL

----------------------------------------------------------------------------
(* The event loop. *)

\* No message of the signing decodes as a GossipsubMessage.
LEMMA NeverDecodes ==
    ASSUME NEW m \in SigningMessage
    PROVE  ~Decodes(m)
  BY SigningMessageFields DEF Decodes, Tag, GossipsubTags

\* gossipsub only has what was read from a channel.
LEMMA GossipTakenStep ==
    ASSUME gossip \subseteq published, [LoopNext]_loopVars
    PROVE  gossip' \subseteq published'
  <1>1. ASSUME NEW n \in Signers, SetupStartSigning(n)
        PROVE  gossip' \subseteq published'
    BY <1>1 DEF SetupStartSigning, StartSigning
  <1>2. ASSUME NEW n \in Signers, Start(n)
        PROVE  gossip' \subseteq published'
    BY <1>2 DEF Start, signingVars
  <1>3. ASSUME NEW n \in Signers, PublishSigning(n)
        PROVE  gossip' \subseteq published'
    BY <1>3 DEF PublishSigning, TakeSigningMessage
  <1>4. ASSUME NEW n \in Signers, NEW m \in gossip, ReceiveSigning(n, m)
        PROVE  gossip' \subseteq published'
    BY <1>4 DEF ReceiveSigning, HandleSigningMessage, HandleCommitmentShare,
                HandleSignatureShare, signingVars
  <1>5. CASE UNCHANGED loopVars
    BY <1>5 DEF loopVars, signingVars
  <1>. QED
    BY <1>1, <1>2, <1>3, <1>4, <1>5 DEF LoopNext

\* A step of the loop is a step of SigningNode or changes nothing of it.
LEMMA SigningLoopStep ==
    ASSUME gossip \subseteq published, [LoopNext]_loopVars
    PROVE  [SigningNext]_signingVars
  <1>1. ASSUME NEW n \in Signers, SetupStartSigning(n)
        PROVE  SigningNext
    BY <1>1 DEF SetupStartSigning, SigningNext
  <1>2. ASSUME NEW n \in Signers, PublishSigning(n)
        PROVE  SigningNext
    BY <1>2 DEF PublishSigning, SigningNext
  <1>3. ASSUME NEW n \in Signers, NEW m \in gossip, ReceiveSigning(n, m)
        PROVE  SigningNext \/ UNCHANGED signingVars
    <2>1. m \in published /\ m.from # n
      BY <1>3 DEF ReceiveSigning
    <2>. QED
      BY <1>3, <2>1 DEF ReceiveSigning, SigningNext, DeliverSigning
  <1>. QED
    BY <1>1, <1>2, <1>3 DEF LoopNext, Start, loopVars

\* The loop does to a signer only what SigningNode allows a transport to do:
\* every theorem about SigningNode holds of the signers in it.
THEOREM SigningLoopRefined == LoopSpec => ImplementsSigning
  <1>1. LoopInit => SigningInit /\ gossip \subseteq published
    BY DEF LoopInit
  <1>2. gossip \subseteq published /\ [LoopNext]_loopVars => (gossip \subseteq published)'
    BY GossipTakenStep
  <1>3. gossip \subseteq published /\ [LoopNext]_loopVars => [SigningNext]_signingVars
    BY SigningLoopStep
  <1>. QED
    BY <1>1, <1>2, <1>3, PTL DEF LoopSpec, ImplementsSigning, SigningSpec

\* Taking a message from the loop ends it, and changes no signer.
LEMMA NobodyHearsStep ==
    ASSUME SigningTypeOK, gossip \subseteq published, NobodyHears, LoopTypeOK,
           [LoopNext]_loopVars
    PROVE  NobodyHears' /\ LoopTypeOK'
  <1>1. ASSUME NEW n \in Signers, SetupStartSigning(n)
        PROVE  NobodyHears' /\ LoopTypeOK'
    <2>1. /\ SigningMessages' = SigningMessages \cup {CommitmentShare(n, nonces[n] + 1)}
          /\ UNCHANGED <<commitments, signature_shares, phase, received>>
      BY <1>1, StartSigningEffect DEF SetupStartSigning
    <2>2. \A k \in Signers : SignatureShare(k) # CommitmentShare(n, nonces[n] + 1)
      <3>1. CommitmentShare(n, nonces[n] + 1).type = "CommitmentShare"
        BY DEF CommitmentShare
      <3>. QED
        BY <3>1, SignatureShareType
    <2>. QED
      BY <2>1, <2>2 DEF NobodyHears, LoopTypeOK
  <1>2. ASSUME NEW n \in Signers, Start(n)
        PROVE  NobodyHears' /\ LoopTypeOK'
    <2>1. /\ phase' = [phase EXCEPT ![n] = "running"]
          /\ phase[n] = "setup"
          /\ UNCHANGED <<commitments, signature_shares, received>>
      BY <1>2 DEF Start, signingVars, signerVars
    <2>2. SigningMessages' = SigningMessages
      BY <1>2 DEF Start, signingVars, SigningMessages, Pending
    <2>. QED
      BY <2>1, <2>2 DEF NobodyHears, LoopTypeOK
  <1>3. ASSUME NEW n \in Signers, PublishSigning(n)
        PROVE  NobodyHears' /\ LoopTypeOK'
    <2>1. SigningMessages' = SigningMessages
      BY <1>3, TakeSigningEffect DEF PublishSigning
    <2>. QED
      BY <1>3, <2>1 DEF PublishSigning, TakeSigningMessage, signerVars, NobodyHears, LoopTypeOK
  <1>4. ASSUME NEW n \in Signers, NEW m \in gossip, ReceiveSigning(n, m)
        PROVE  NobodyHears' /\ LoopTypeOK'
    <2>1. m \in SigningMessage
      BY DEF SigningTypeOK
    <2>2. /\ phase' = [phase EXCEPT ![n] = "ended"]
          /\ received' = [received EXCEPT ![n] = @ \cup {m}]
          /\ UNCHANGED signingVars
      BY <1>4, <2>1, NeverDecodes DEF ReceiveSigning
    <2>3. SigningMessages' = SigningMessages
      BY <2>2 DEF signingVars, SigningMessages, Pending
    <2>. QED
      BY <2>1, <2>2, <2>3 DEF signingVars, signerVars, NobodyHears, LoopTypeOK
  <1>5. CASE UNCHANGED loopVars
    BY <1>5 DEF loopVars, signingVars, signerVars, NobodyHears, LoopTypeOK, SigningMessages, Pending
  <1>. QED
    BY <1>1, <1>2, <1>3, <1>4, <1>5 DEF LoopNext

\* In the event loop no signer ever hears of another, and a loop that took any
\* message of the signing has ended.
THEOREM NobodyEverHears == LoopSpec => []NobodyHears
  <1>1. LoopInit => NobodyHears /\ LoopTypeOK /\ gossip \subseteq published
    <2>. SUFFICES ASSUME LoopInit
                  PROVE  NobodyHears /\ LoopTypeOK /\ gossip \subseteq published
      OBVIOUS
    <2>1. SigningMessages = {}
      BY SigningInitEmpty DEF LoopInit
    <2>. QED
      BY <2>1 DEF LoopInit, SigningInit, NobodyHears, LoopTypeOK
  <1>2. SigningTypeOK /\ gossip \subseteq published /\ NobodyHears /\ LoopTypeOK
           /\ [LoopNext]_loopVars => NobodyHears' /\ LoopTypeOK'
    BY NobodyHearsStep
  <1>3. gossip \subseteq published /\ [LoopNext]_loopVars => (gossip \subseteq published)'
    BY GossipTakenStep
  <1>4. LoopSpec => []SigningTypeOK
    BY SigningLoopRefined, SigningTypeCorrect, PTL DEF ImplementsSigning
  <1>. QED
    BY <1>1, <1>2, <1>3, <1>4, PTL DEF LoopSpec

=============================================================================
