---------------------------- MODULE SigningNode ----------------------------
(***************************************************************************)
(* The threshold signing of src/src/signing/mod.rs: one SigningNode per    *)
(* signer.  A signer that starts draws a nonce pair and broadcasts the     *)
(* commitments of every pair it ever drew; a signer that stores the        *)
(* commitments of enough others broadcasts a signature share, at each      *)
(* further commitment message again; a signer that stores the signature    *)
(* shares of enough others aggregates them.  Nothing names the message     *)
(* that is signed or the session, and nothing is ever removed.             *)
(*                                                                         *)
(* This is the module with any transport that decodes what it sends: as in *)
(* DKGNode messages may be lost, delayed, reordered and repeated, a signer *)
(* is never handed its own, and the reader of the bounded channel is       *)
(* independent of the writer.  The event loop of the repository is no such *)
(* transport; SigningLoop models what it does to these messages.           *)
(***************************************************************************)
EXTENDS Naturals, Sequences, FiniteSets, Functions, HashMaps

CONSTANTS
    Signers,
    Threshold,    \* the threshold each signer was created with
    Capacity,     \* capacity of the mpsc channel
    MaxStarts     \* bound: start_signing calls per signer

ASSUME SigningAssumption ==
    /\ IsFiniteSet(Signers)
    /\ Threshold \in [Signers -> Nat \ {0}]
    /\ Capacity \in Nat \ {0}
    /\ MaxStarts \in Nat

VARIABLES
    nonces,            \* SigningNode.nonces, as their number
    commitments,       \* SigningNode.commitments: signer -> how many it published
    signature_shares,  \* the keys of SigningNode.signature_shares
    channel,           \* the mpsc channel of each signer
    waiting,           \* the message a handler waits to send, if any
    published          \* every message ever read from a channel

signerVars  == <<nonces, commitments, signature_shares>>
signingVars == <<signerVars, channel, waiting, published>>

----------------------------------------------------------------------------
(* Messages. *)

\* get_commitments: one commitment per nonce pair, in the order of the draws.
CommitmentShare(n, count) ==
    [type |-> "CommitmentShare", from |-> n, commitments |-> count]

\* The share itself is the placeholder zero.
SignatureShare(n) == [type |-> "SignatureShare", from |-> n]

SigningMessage ==
    [type : {"CommitmentShare"}, from : Signers, commitments : 1..MaxStarts]
    \cup [type : {"SignatureShare"}, from : Signers]

Pending(n) == Range(channel[n]) \cup Range(waiting[n])

SigningMessages == published \cup UNION {Pending(n) : n \in Signers}

Idle(n) == waiting[n] = <<>>

----------------------------------------------------------------------------
SigningInit ==
    /\ nonces           = [n \in Signers |-> 0]
    /\ commitments      = [n \in Signers |-> EmptyMap]
    /\ signature_shares = [n \in Signers |-> {}]
    /\ channel          = [n \in Signers |-> <<>>]
    /\ waiting          = [n \in Signers |-> <<>>]
    /\ published        = {}

\* broadcast
SigningBroadcast(n, msg) ==
    \/ /\ Len(channel[n]) < Capacity
       /\ channel' = [channel EXCEPT ![n] = Append(@, msg)]
       /\ UNCHANGED waiting
    \/ /\ Len(channel[n]) >= Capacity
       /\ waiting' = [waiting EXCEPT ![n] = <<msg>>]
       /\ UNCHANGED channel

\* Mutant: the signer stores its own commitments too.
StartSigningOwn(n) ==
    /\ Idle(n)
    /\ nonces[n] < MaxStarts
    /\ nonces' = [nonces EXCEPT ![n] = @ + 1]
    /\ commitments' = [commitments EXCEPT ![n] = Insert(@, n, nonces'[n])]
    /\ SigningBroadcast(n, CommitmentShare(n, nonces'[n]))
    /\ UNCHANGED <<signature_shares, published>>

\* Mutant: a nonce pair is drawn for each of the signers wanted.
StartSigningThreshold(n) ==
    /\ Idle(n)
    /\ nonces[n] < MaxStarts
    /\ nonces' = [nonces EXCEPT ![n] = @ + Threshold[n]]
    /\ SigningBroadcast(n, CommitmentShare(n, nonces'[n]))
    /\ UNCHANGED <<commitments, signature_shares, published>>

\* start_signing, with the generate_nonces(1) and get_commitments it calls.
StartSigning(n) ==
    /\ Idle(n)
    /\ nonces[n] < MaxStarts
    /\ nonces' = [nonces EXCEPT ![n] = @ + 1]
    /\ SigningBroadcast(n, CommitmentShare(n, nonces'[n]))
    /\ UNCHANGED <<commitments, signature_shares, published>>

\* The test of check_commitments.
EnoughCommitments(n) == Cardinality(DOMAIN commitments[n]) >= Threshold[n]

\* Mutant: one commitment short.
HandleCommitmentShareEarly(n, m) ==
    /\ commitments' = [commitments EXCEPT ![n] = Insert(@, m.from, m.commitments)]
    /\ IF Cardinality(DOMAIN commitments'[n]) + 1 >= Threshold[n]
       THEN SigningBroadcast(n, SignatureShare(n))
       ELSE UNCHANGED <<channel, waiting>>
    /\ UNCHANGED <<nonces, signature_shares, published>>

\* handle_commitment_share and check_commitments
HandleCommitmentShare(n, m) ==
    /\ commitments' = [commitments EXCEPT ![n] = Insert(@, m.from, m.commitments)]
    /\ \/ EnoughCommitments(n)' /\ SigningBroadcast(n, SignatureShare(n))
       \/ ~EnoughCommitments(n)' /\ UNCHANGED <<channel, waiting>>
    /\ UNCHANGED <<nonces, signature_shares, published>>

\* handle_signature_share; the aggregate of check_signature_completion is
\* computed and dropped.
HandleSignatureShare(n, m) ==
    /\ signature_shares' = [signature_shares EXCEPT ![n] = @ \cup {m.from}]
    /\ UNCHANGED <<nonces, commitments, channel, waiting, published>>

\* The test of check_signature_completion: aggregate_signature_shares runs.
Aggregates(n) == Cardinality(signature_shares[n]) >= Threshold[n]

\* handle_message
HandleSigningMessage(n, m) ==
    /\ Idle(n)
    /\ \/ m.type = "CommitmentShare" /\ HandleCommitmentShare(n, m)
       \/ m.type = "SignatureShare"  /\ HandleSignatureShare(n, m)

----------------------------------------------------------------------------
TakeSigningMessage(n) ==
    /\ channel[n] # <<>>
    /\ channel'   = [channel EXCEPT ![n] = Tail(@)]
    /\ published' = published \cup {Head(channel[n])}
    /\ UNCHANGED <<signerVars, waiting>>

ResumeBroadcast(n) ==
    /\ ~Idle(n)
    /\ Len(channel[n]) < Capacity
    /\ channel' = [channel EXCEPT ![n] = Append(@, Head(waiting[n]))]
    /\ waiting' = [waiting EXCEPT ![n] = <<>>]
    /\ UNCHANGED <<signerVars, published>>

DeliverSigning(n) == \E m \in published : m.from # n /\ HandleSigningMessage(n, m)

SigningNext ==
    \E n \in Signers : \/ StartSigning(n)
                       \/ DeliverSigning(n)
                       \/ TakeSigningMessage(n)
                       \/ ResumeBroadcast(n)

SigningSpec == SigningInit /\ [][SigningNext]_signingVars

----------------------------------------------------------------------------
(* Properties. *)

\* Every map and queue holds values of its Rust type, and no vector of
\* commitments is longer than the starts of a signer.
SigningTypeOK ==
    /\ nonces           \in [Signers -> 0..MaxStarts]
    /\ commitments      = [n \in Signers |-> commitments[n]]
    /\ \A n \in Signers : IsHashMap(commitments[n], Signers, 1..MaxStarts)
    /\ signature_shares \in [Signers -> SUBSET Signers]
    /\ channel          \in [Signers -> Seq(SigningMessage)]
    /\ waiting          \in [Signers -> {<<>>} \cup {<<m>> : m \in SigningMessage}]
    /\ published        \subseteq SigningMessage

\* The commitments of a signer, in a map or in a message, are of nonces it has
\* drawn, and no signer's maps hold the signer itself: its own commitment and
\* its own share never count towards its thresholds.
CommitmentsAreOfOthers ==
    /\ \A n \in Signers : \A k \in DOMAIN commitments[n] :
          k # n /\ commitments[n][k] <= nonces[k]
    /\ \A n \in Signers : n \notin signature_shares[n]
    /\ \A m \in SigningMessages :
          m.type = "CommitmentShare" => m.commitments <= nonces[m.from]

\* A signature share, stored or on its way, was sent by a signer that holds
\* the commitments of as many others as its threshold; so a signer that
\* aggregates knows of as many signers each of which does, whatever was lost
\* or repeated.
SharesHaveQuorums ==
    /\ \A m \in SigningMessages : m.type = "SignatureShare" => EnoughCommitments(m.from)
    /\ \A n \in Signers : \A k \in signature_shares[n] : EnoughCommitments(k)

\* A signer whose threshold is the number of signers, or more, never signs and
\* never aggregates: it waits for others only, and there is one too few.
TooFewSigners ==
    \A n \in Signers : Cardinality(Signers) <= Threshold[n] =>
       /\ SignatureShare(n) \notin SigningMessages
       /\ ~Aggregates(n)

\* What an induction over the steps carries along.
SigningInv ==
    /\ SigningTypeOK
    /\ CommitmentsAreOfOthers
    /\ SharesHaveQuorums

=============================================================================
