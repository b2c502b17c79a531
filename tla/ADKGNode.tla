------------------------------ MODULE ADKGNode ------------------------------
(***************************************************************************)
(* The ADKG prototype: the ADKGNode of src/src/adkg_layer.bkp.rs in the    *)
(* loop of src/src/network_layer.rs.  Unlike dkg/mod.rs it checks shares   *)
(* against commitments and sums what it has.  Every `?` of the handlers    *)
(* and of the loop ends the node's run.  Since run calls start_adkg before *)
(* it first polls the swarm, when no peer is known yet, its publish can    *)
(* only fail there; a node is started here at any time, as a caller of the *)
(* public start_adkg may, and may also only take part.                     *)
(*                                                                         *)
(* gossipsub is external: publish returns an error when no subscribed peer *)
(* is known, or for a message that is still in its duplicate cache;        *)
(* what it accepted reaches any other node, at any time, more than once.   *)
(***************************************************************************)
EXTENDS SecretSharing, HashMaps

CONSTANTS
    Nodes,
    Idx,        \* the arguments idx,
    N,          \* n and
    T,          \* t of each node's run
    Draws,      \* the polynomials each node may draw, of degree T
    MaxAcks,    \* bound: acks a node takes
    None

ASSUME ADKGAssumption ==
    /\ IsFiniteSet(Nodes)
    /\ Idx \in [Nodes -> Nat] /\ N \in [Nodes -> Nat] /\ T \in [Nodes -> Nat]
    /\ \A n \in Nodes : N[n] < P
    /\ \A n \in Nodes : Draws[n] \subseteq [1..(T[n] + 1) -> Scalar]
    /\ MaxAcks \in Nat
    /\ None \notin Nat

VARIABLES
    ended,             \* nodes whose run has returned an error
    started,           \* nodes whose start_adkg has returned
    shares,            \* ADKGNode.shares
    commitments,       \* ADKGNode.commitments
    acks,              \* ADKGNode.acks, as the number of valid ones by sender
    secret_key_share,
    public_key,
    published          \* what gossipsub accepted

keyVars  == <<secret_key_share, public_key>>
adkgVars == <<ended, started, shares, commitments, acks, keyVars, published>>

----------------------------------------------------------------------------
(* ADKGMessage *)

ShareProposal(n, coeffs) ==
    [type        |-> "ShareProposal",
     sender_id   |-> n,
     shares      |-> [i \in 1..N[n] |-> EvaluatePolynomial(coeffs, i)],
     commitments |-> GenerateCommitments(coeffs)]

\* Mutant: the id of the acknowledging node in both fields.
ShareAckToSelf(n, dealer) ==
    [type |-> "ShareAck", sender_id |-> n, receiver_id |-> n, valid |-> TRUE]

ShareAck(n, dealer) ==
    [type |-> "ShareAck", sender_id |-> n, receiver_id |-> dealer, valid |-> TRUE]

\* publish, whose error ends the run.
Publish(n, msg) ==
    \/ published' = published \cup {msg} /\ UNCHANGED ended
    \/ ended' = ended \cup {n} /\ UNCHANGED published

----------------------------------------------------------------------------
ADKGInit ==
    /\ ended       = {}
    /\ started     = {}
    /\ shares      = [n \in Nodes |-> EmptyMap]
    /\ commitments = [n \in Nodes |-> EmptyMap]
    /\ acks        = [n \in Nodes |-> EmptyMap]
    /\ secret_key_share = [n \in Nodes |-> None]
    /\ public_key       = [n \in Nodes |-> None]
    /\ published   = {}

\* start_adkg; its own commitments are stored, its own share is not.
StartAdkg(n) ==
    /\ n \notin started \cup ended
    /\ \E coeffs \in Draws[n] :
          /\ Publish(n, ShareProposal(n, coeffs))
          /\ commitments' = IF n \in ended' THEN commitments ELSE
                [commitments EXCEPT ![n] = Insert(@, n, GenerateCommitments(coeffs))]
    /\ started' = started \cup ({n} \ ended')
    /\ UNCHANGED <<shares, acks, keyVars>>

\* Mutant: a proposal is acknowledged whether it verifies or not.
HandleProposalAlwaysAcks(n, m) ==
    /\ IF VerifyCommitments(Idx[n], m.shares, m.commitments)
         THEN /\ shares' = [shares EXCEPT ![n] = Insert(@, m.sender_id, m.shares[Idx[n]])]
              /\ commitments' = [commitments EXCEPT ![n] = Insert(@, m.sender_id, m.commitments)]
         ELSE UNCHANGED <<shares, commitments>>
    /\ Publish(n, ShareAck(n, m.sender_id))
    /\ UNCHANGED <<started, acks, keyVars>>

\* handle_message, ShareProposal: the ack is published, or fails, after share
\* and commitments are stored.
HandleProposal(n, m) ==
    \/ /\ VerifyCommitments(Idx[n], m.shares, m.commitments)
       /\ shares' = [shares EXCEPT ![n] = Insert(@, m.sender_id, m.shares[Idx[n]])]
       /\ commitments' = [commitments EXCEPT ![n] = Insert(@, m.sender_id, m.commitments)]
       /\ Publish(n, ShareAck(n, m.sender_id))
       /\ UNCHANGED <<started, acks, keyVars>>
    \/ /\ ~VerifyCommitments(Idx[n], m.shares, m.commitments)
       /\ UNCHANGED adkgVars

\* acks.values().flatten().filter(valid).count()
AckCount(map) == Cardinality(UNION {{d} \X (1..map[d]) : d \in DOMAIN map})

\* The sums of check_completion.
SecretOf(map) == SumOf(map)
KeyOf(map)    == SumOf([d \in DOMAIN map |-> map[d][1]])

\* Mutant: the secret is summed onto the one of the last completion.
CheckCompletionAccumulates(n) ==
    IF AckCount(acks'[n]) >= T[n]
      THEN /\ secret_key_share' = [secret_key_share EXCEPT ![n] =
                 (SecretOf(shares[n]) + IF @ = None THEN 0 ELSE @) % P]
           /\ public_key' = [public_key EXCEPT ![n] = KeyOf(commitments[n])]
      ELSE UNCHANGED keyVars

\* Mutant: one ack more than the threshold.
CheckCompletionAbove(n) ==
    IF AckCount(acks'[n]) > T[n]
      THEN /\ secret_key_share' = [secret_key_share EXCEPT ![n] = SecretOf(shares[n])]
           /\ public_key'       = [public_key EXCEPT ![n] = KeyOf(commitments[n])]
      ELSE UNCHANGED keyVars

\* check_completion, again at every ack.
CheckCompletion(n) ==
    IF AckCount(acks'[n]) >= T[n]
      THEN /\ secret_key_share' = [secret_key_share EXCEPT ![n] = SecretOf(shares[n])]
           /\ public_key'       = [public_key EXCEPT ![n] = KeyOf(commitments[n])]
      ELSE UNCHANGED keyVars

\* handle_message, ShareAck
HandleAck(n, m) ==
    /\ m.receiver_id = n
    /\ AckCount(acks[n]) < MaxAcks
    /\ acks' = [acks EXCEPT ![n] = Insert(@, m.sender_id, EntryOr(@, m.sender_id, 0) + 1)]
    /\ CheckCompletion(n)
    /\ UNCHANGED <<ended, started, shares, commitments, published>>

\* handle_message in the loop of run.
HandleMessage(n, m) ==
    /\ n \notin ended
    /\ m.sender_id # n
    /\ \/ m.type = "ShareProposal" /\ HandleProposal(n, m)
       \/ m.type = "ShareAck"      /\ HandleAck(n, m)

ADKGNext ==
    \E n \in Nodes : StartAdkg(n) \/ \E m \in published : HandleMessage(n, m)

\* What n is handed of a peer's messages of one type; there is one to handle.
Receive(n, type, peer) ==
    \E m \in published : m.type = type /\ m.sender_id = peer /\ HandleMessage(n, m)

\* Gossip loses nothing, and the loop handles what it is handed; the fairness
\* is of the steps in which no publish fails, and makes none fail.
ADKGSpec ==
    /\ ADKGInit /\ [][ADKGNext]_adkgVars
    /\ \A n \in Nodes, type \in {"ShareProposal", "ShareAck"}, peer \in Nodes :
          WF_adkgVars(Receive(n, type, peer) /\ UNCHANGED ended)

----------------------------------------------------------------------------
(* Properties. *)

\* Every field has the type of its Rust value, and a node has its key and its
\* share of it, both or neither, exactly when it has T acks.
ADKGTypeOK ==
    /\ ended \subseteq Nodes /\ started \subseteq Nodes
    /\ \A n \in Nodes :
          /\ IsHashMap(shares[n], Nodes \ {n}, Scalar)
          /\ IsHashMap(commitments[n], Nodes, Seq(Scalar))
          /\ IsHashMap(acks[n], Nodes \ {n}, 1..MaxAcks)
          /\ secret_key_share[n] \in Scalar \cup {None}
          /\ public_key[n] \in Scalar \cup {None}
          /\ T[n] > 0 => (AckCount(acks[n]) >= T[n] <=> public_key[n] # None)
          /\ public_key[n] = None <=> secret_key_share[n] = None

\* The two sums of check_completion are over different dealers: the key counts
\* the node's own polynomial, the share of it does not, since a node never
\* gets its own proposal (adkg_layer.bkp.rs:109-112, 197-209).  Both are of
\* the proposals it had at some one moment.
KeyCountsOneMore ==
    \A n \in Nodes : public_key[n] # None =>
       \E D \in SUBSET (Nodes \ {n}) :
          /\ D \subseteq DOMAIN shares[n]
          /\ secret_key_share[n] = SumOf([d \in D |-> shares[n][d]])
          /\ public_key[n] = SumOf([d \in D \cup {n} |-> commitments[n][d][1]])

Holders(d) == {n \in Nodes : d \in DOMAIN shares[n]}

\* Whichever T + 1 nodes hold shares of a dealer, with indices of their own,
\* they can reconstruct the secret that dealer committed to.
SharesReconstruct ==
    \A d \in started : \A S \in kSubset(T[d] + 1, Holders(d)) :
       LET indices == {Idx[n] : n \in S}
           points  == [i \in indices |-> shares[CHOOSE n \in S : Idx[n] = i][d]]
       IN  Cardinality(indices) = Cardinality(S) =>
              \A n \in S \cup {d} :
                 commitments[n][d][1] = (Generator * ReconstructSecret(points)) % P

\* Whoever has acknowledged a dealing holds its share, though the completion
\* of the dealer counts acks and not holders (adkg_layer.bkp.rs:196).
AcksAreOfHolders ==
    \A d \in Nodes : DOMAIN acks[d] \subseteq Holders(d)

\* A node that has started completes, on a gossip network that loses nothing
\* and as long as no publish fails, when at least T others have an index that
\* it dealt to.
StartedCompletes ==
    \A n \in Nodes :
       Cardinality({k \in Nodes \ {n} : Idx[k] \in 1..N[n]}) >= T[n] =>
          (n \in started ~> public_key[n] # None \/ ended # {})

----------------------------------------------------------------------------
(* Dealing, as the prototype implements it. *)

Dealers  == {d \in Nodes : Draws[d] # {}}
Eligible == {n \in Nodes : \E d \in Nodes : Idx[n] \in 1..N[d]}

DrawnOnce == [d \in Nodes |-> IF d \in started THEN 1 ELSE 0]

Acknowledged == {<<m.sender_id, m.receiver_id>> : m \in {a \in published : a.type = "ShareAck"}}

\* A share counts from the publication of its ack on.
HeldShares == [n \in Nodes |-> [d \in {k \in DOMAIN shares[n] : <<n, k>> \in Acknowledged} |-> 1]]

Dealings == INSTANCE Dealing WITH Participants <- Nodes,
                drawn <- DrawnOnce, held <- HeldShares, acked <- Acknowledged

\* Seen from outside, the prototype keeps the promise that the key generation
\* of dkg/mod.rs keeps: whatever fails between storing a share and publishing
\* its ack, no participant counts as a holder, or announces that it is one,
\* without a share of a polynomial that its dealer has published.
ImplementsDealing == Dealings!DealingSpec

=============================================================================
