------------------------------ MODULE DKGNode ------------------------------
(***************************************************************************)
(* The distributed key generation of src/src/dkg/mod.rs: one DKGNode per   *)
(* element of Nodes, each with the three maps it keeps behind RwLocks and  *)
(* the bounded mpsc channel its broadcasts go through.                     *)
(*                                                                         *)
(* Handlers take &mut self, so a node runs one handler at a time; a        *)
(* handler is one action up to the await point at which it can really      *)
(* stop.  There are two of those: message_tx.send on a full channel, and   *)
(* validations.read() inside check_completion.  The second is never left:  *)
(* handle_share_validation holds the write guard of the same lock until it *)
(* returns, and it returns only after check_completion does.  What follows *)
(* that await (the threshold test's outcome, generate_group_key) is        *)
(* therefore not a step of any node, and no action models it.              *)
(*                                                                         *)
(* Here the reader of the channel is independent of the writer and the     *)
(* network is anything that may lose, delay, reorder and repeat what was   *)
(* published.  NetworkLayer puts the two in the one task they really share.*)
(***************************************************************************)
EXTENDS Naturals, Sequences, FiniteSets, Functions, HashMaps

CONSTANTS
    Nodes,        \* the participants, named by their id strings
    Dealers,      \* the nodes that are ever asked to start the protocol
    IdValue,      \* id.parse::<usize>() of each node, or NotANumber
    NotANumber,
    UsizeMax,     \* usize::MAX
    Threshold,
    TotalNodes,   \* total_nodes: shares are dealt to 1..TotalNodes
    Capacity,     \* capacity of the mpsc channel
    MaxDeals      \* bound: start_dkg calls per node

ASSUME DKGAssumption ==
    /\ Dealers \subseteq Nodes
    /\ IdValue \in [Nodes -> 0..UsizeMax \cup {NotANumber}]
    /\ NotANumber \notin Nat
    /\ {UsizeMax, Threshold, TotalNodes, MaxDeals} \subseteq Nat
    /\ Capacity \in Nat \ {0}
    /\ TotalNodes < UsizeMax   \* a Vec cannot hold usize::MAX shares

VARIABLES
    status,       \* DKGNode.status
    dealt,        \* polynomials drawn so far: start_dkg calls
    shares,       \* DKGNode.shares: dealer id -> KeyShare
    commitments,  \* DKGNode.commitments: dealer id -> commitments
    validations,  \* DKGNode.validations: dealer id -> Vec<bool>
    channel,      \* the mpsc channel of each node
    task,         \* what the node's current handler is suspended on
    published     \* every message ever read from a channel

nodeVars == <<status, dealt, shares, commitments, validations>>
dkgVars  == <<nodeVars, channel, task, published>>

----------------------------------------------------------------------------
(* Data. *)

\* A polynomial is named by who drew it and which of its draws it is: two
\* draws of threshold + 1 random scalars are never the same polynomial.
Polynomial == [dealer : Nodes, draw : Nat \ {0}]

\* A share is the value of a polynomial at an index.
KeyShare == [index : Nat, polynomial : Polynomial]

\* generate_shares: the points 1..=total_nodes of the polynomial.
GenerateShares(polynomial) ==
    {[index |-> i, polynomial |-> polynomial] : i \in 1..TotalNodes}

\* generate_commitments: the commitments determine, and are determined by,
\* the polynomial.
GenerateCommitments(polynomial) == polynomial

\* DKGMessage::ShareDistribution
ShareDistribution(node, polynomial) ==
    [type        |-> "ShareDistribution",
     from        |-> node,
     shares      |-> GenerateShares(polynomial),
     commitments |-> GenerateCommitments(polynomial)]

\* Mutant: from and to swapped.
ShareValidationSwapped(node, dealer) ==
    [type |-> "ShareValidation", from |-> dealer, to |-> node, is_valid |-> TRUE]

\* DKGMessage::ShareValidation, whose only constructor sets is_valid.
ShareValidation(node, dealer) ==
    [type |-> "ShareValidation", from |-> node, to |-> dealer, is_valid |-> TRUE]

Message ==
    [type : {"ShareDistribution"}, from : Nodes,
     shares : SUBSET KeyShare, commitments : Polynomial]
    \cup
    [type : {"ShareValidation"}, from : Nodes, to : Nodes, is_valid : BOOLEAN]

\* What a node's handler is doing: nothing, waiting for room in the channel
\* with the message it is sending, or waiting for the validations lock.
Idle            == [at |-> "idle"]
Sending(msg)    == [at |-> "send", msg |-> msg]
ValidationsRead == [at |-> "validations_read"]

Task == [at : {"idle", "validations_read"}] \cup [at : {"send"}, msg : Message]

IsSending(n) == task[n].at = "send"

\* The dealing of n's k-th draw.
Distribution(n, k) == ShareDistribution(n, [dealer |-> n, draw |-> k])

\* Messages of n that have not been read from its channel yet.
Unpublished(n) ==
    Range(channel[n]) \cup (IF IsSending(n) THEN {task[n].msg} ELSE {})

Messages == published \cup UNION {Unpublished(n) : n \in Nodes}

----------------------------------------------------------------------------
DKGInit ==
    /\ status      = [n \in Nodes |-> "New"]
    /\ dealt       = [n \in Nodes |-> 0]
    /\ shares      = [n \in Nodes |-> EmptyMap]
    /\ commitments = [n \in Nodes |-> EmptyMap]
    /\ validations = [n \in Nodes |-> EmptyMap]
    /\ channel     = [n \in Nodes |-> <<>>]
    /\ task        = [n \in Nodes |-> Idle]
    /\ published   = {}

\* Mutant: try_send, which drops the message when the channel is full.
BroadcastTrySend(n, msg) ==
    /\ channel' = IF Len(channel[n]) < Capacity
                    THEN [channel EXCEPT ![n] = Append(@, msg)] ELSE channel
    /\ UNCHANGED task

\* broadcast: message_tx.send(..).await, the last thing its callers do.
Broadcast(n, msg) ==
    \/ /\ Len(channel[n]) < Capacity
       /\ channel' = [channel EXCEPT ![n] = Append(@, msg)]
       /\ UNCHANGED task
    \/ /\ Len(channel[n]) >= Capacity
       /\ task' = [task EXCEPT ![n] = Sending(msg)]
       /\ UNCHANGED channel

\* Mutant: the dealer stores its own share and commitments at once.
StartDkgKeepsOwnShare(n) ==
    /\ task[n] = Idle
    /\ dealt[n] < MaxDeals
    /\ dealt'  = [dealt EXCEPT ![n] = @ + 1]
    /\ status' = [status EXCEPT ![n] = "Started"]
    /\ Broadcast(n, Distribution(n, dealt'[n]))
    /\ LET own == [dealer |-> n, draw |-> dealt'[n]]
       IN  /\ shares' = [shares EXCEPT ![n] =
                            Insert(@, n, [index |-> IdValue[n], polynomial |-> own])]
           /\ commitments' = [commitments EXCEPT ![n] = Insert(@, n, own)]
    /\ UNCHANGED <<validations, published>>

\* start_dkg, also on a node that has started before.
StartDkg(n) ==
    /\ task[n] = Idle
    /\ dealt[n] < MaxDeals
    /\ dealt'  = [dealt EXCEPT ![n] = @ + 1]
    /\ status' = [status EXCEPT ![n] = "Started"]
    /\ Broadcast(n, Distribution(n, dealt'[n]))
    /\ UNCHANGED <<shares, commitments, validations, published>>

\* self.id.parse::<usize>().unwrap_or(usize::MAX)
IdParsed(n) == IF IdValue[n] = NotANumber THEN UsizeMax ELSE IdValue[n]

\* Mutant: the wrong comparison.
MyShareUpTo(n, dealtShares) == {s \in dealtShares : s.index <= IdParsed(n)}

\* shares.into_iter().find(|s| s.index == id_parsed), as a set of at most one.
MyShare(n, dealtShares) == {s \in dealtShares : s.index = IdParsed(n)}

\* A placeholder in the code: every distribution passes.
VerifyShares(dealtShares, dealtCommitments) == TRUE

\* Mutant: commitments.entry(from).or_insert, shares.insert.
AcceptShareOldCommitments(n, m, share) ==
    /\ shares' = [shares EXCEPT ![n] = Insert(@, m.from, share)]
    /\ commitments' = [commitments EXCEPT ![n] =
                          Insert(@, m.from, EntryOr(@, m.from, m.commitments))]
    /\ Broadcast(n, ShareValidation(n, m.from))
    /\ UNCHANGED <<status, dealt, validations, published>>

\* handle_share_distribution once it has found the node's share.
AcceptShare(n, m, share) ==
    /\ shares' = [shares EXCEPT ![n] = Insert(@, m.from, share)]
    /\ commitments' = [commitments EXCEPT ![n] = Insert(@, m.from, m.commitments)]
    /\ Broadcast(n, ShareValidation(n, m.from))
    /\ UNCHANGED <<status, dealt, validations, published>>

\* Mutant: the validation is sent whether or not a share was found.
HandleShareDistributionAlwaysValidates(n, m) ==
    IF MyShare(n, m.shares) = {}
    THEN /\ Broadcast(n, ShareValidation(n, m.from))
         /\ UNCHANGED <<nodeVars, published>>
    ELSE \E share \in MyShare(n, m.shares) : AcceptShare(n, m, share)

\* handle_share_distribution
HandleShareDistribution(n, m) ==
    \/ /\ VerifyShares(m.shares, m.commitments)
       /\ \E share \in MyShare(n, m.shares) : AcceptShare(n, m, share)
    \/ /\ MyShare(n, m.shares) = {} \/ ~VerifyShares(m.shares, m.commitments)
       /\ UNCHANGED dkgVars

\* Mutant: the write guard is dropped before check_completion.
HandleShareValidationUnlocked(n, m) ==
    /\ validations' = [validations EXCEPT ![n] =
                          Insert(@, m.to, Append(EntryOr(@, m.to, <<>>), m.is_valid))]
    /\ UNCHANGED <<status, dealt, shares, commitments, channel, task, published>>

\* Mutant: a validation completes the protocol.
HandleShareValidationCompletes(n, m) ==
    /\ validations' = [validations EXCEPT ![n] =
                          Insert(@, m.to, Append(EntryOr(@, m.to, <<>>), m.is_valid))]
    /\ status' = [status EXCEPT ![n] = "Completed"]
    /\ task' = [task EXCEPT ![n] = ValidationsRead]
    /\ UNCHANGED <<dealt, shares, commitments, channel, published>>

\* handle_share_validation up to the await inside check_completion.
HandleShareValidation(n, m) ==
    /\ validations' = [validations EXCEPT ![n] =
                          Insert(@, m.to, Append(EntryOr(@, m.to, <<>>), m.is_valid))]
    /\ task' = [task EXCEPT ![n] = ValidationsRead]
    /\ UNCHANGED <<status, dealt, shares, commitments, channel, published>>

\* The test check_completion makes once it has the locks.
CompletionTest(n) ==
    /\ \A d \in DOMAIN validations[n] : Len(validations[n][d]) >= Threshold
    /\ Cardinality(DOMAIN shares[n]) >= Threshold

\* handle_message
HandleMessage(n, m) ==
    /\ task[n] = Idle
    /\ \/ m.type = "ShareDistribution" /\ HandleShareDistribution(n, m)
       \/ m.type = "ShareValidation"   /\ HandleShareValidation(n, m)

----------------------------------------------------------------------------
(* The channel's reader, the sender it wakes up, and the network. *)

TakeMessage(n) ==
    /\ channel[n] # <<>>
    /\ channel'   = [channel EXCEPT ![n] = Tail(@)]
    /\ published' = published \cup {Head(channel[n])}
    /\ UNCHANGED <<nodeVars, task>>

ResumeSend(n) ==
    /\ IsSending(n)
    /\ Len(channel[n]) < Capacity
    /\ channel' = [channel EXCEPT ![n] = Append(@, task[n].msg)]
    /\ task'    = [task EXCEPT ![n] = Idle]
    /\ UNCHANGED <<nodeVars, published>>

\* A node is never handed what it published itself.
DeliverAny(n) == \E m \in published : m.from # n /\ HandleMessage(n, m)

DKGNext ==
    \/ \E n \in Dealers : StartDkg(n)
    \/ \E n \in Nodes : DeliverAny(n) \/ TakeMessage(n) \/ ResumeSend(n)

DKGSpec == DKGInit /\ [][DKGNext]_dkgVars

----------------------------------------------------------------------------
(* Properties. *)

\* Every map, queue and suspended handler holds values of its Rust type.
DKGTypeOK ==
    /\ status      \in [Nodes -> {"New", "Started"}]
    /\ dealt       \in [Nodes -> 0..MaxDeals]
    /\ shares      = [n \in Nodes |-> shares[n]]
    /\ commitments = [n \in Nodes |-> commitments[n]]
    /\ validations = [n \in Nodes |-> validations[n]]
    /\ \A n \in Nodes : /\ IsHashMap(shares[n], Nodes, KeyShare)
                        /\ IsHashMap(commitments[n], Nodes, Polynomial)
                        /\ IsHashMap(validations[n], Nodes, Seq(BOOLEAN))
    /\ channel     \in [Nodes -> Seq(Message)]
    /\ task        \in [Nodes -> Task]
    /\ published   \subseteq Message

\* A message its sender made: the dealing of a polynomial it drew, or a
\* validation.
Genuine(m) ==
    \/ \E k \in 1..dealt[m.from] : m = Distribution(m.from, k)
    \/ m.type = "ShareValidation" /\ m = ShareValidation(m.from, m.to)

\* What a node has under way is from that node, and every message, read or
\* not, is genuine.
GenuineMessages ==
    /\ \A n \in Nodes : \A m \in Unpublished(n) : m.from = n
    /\ \A m \in Messages : Genuine(m)

MatchesDealing(n, d) ==
    LET share == shares[n][d]
    IN  /\ share.index = IdParsed(n)
        /\ share.index \in 1..TotalNodes
        /\ share.polynomial.dealer = d
        /\ share.polynomial.draw \in 1..dealt[d]
        /\ commitments[n][d] = share.polynomial

\* A share stored under a dealer lies on a polynomial that dealer drew, at
\* the index of the node that stored it, and the commitments stored under
\* that dealer are those of the same polynomial: the two maps, written one
\* after the other at every distribution, never describe different dealings
\* (dkg/mod.rs:172-173).
SharesMatchDealings ==
    \A n \in Nodes :
       /\ DOMAIN commitments[n] = DOMAIN shares[n]
       /\ \A d \in DOMAIN shares[n] : MatchesDealing(n, d)

\* A node has announced a dealer's share valid exactly when it holds a share
\* of that dealer, wherever the announcement is: being sent, queued or
\* published.  An announcement is never ahead of the insert (dkg/mod.rs:172)
\* and a stored share never goes unannounced.
ValidationIffShare ==
    \A n, d \in Nodes : ShareValidation(n, d) \in Messages <=> d \in DOMAIN shares[n]

\* The first validation a node handles is the last: at most one is ever
\* recorded, and from then on the handler waits for the lock it holds.
FirstValidationIsLast ==
    \A n \in Nodes :
       \A d \in DOMAIN validations[n] :
          /\ task[n] = ValidationsRead
          /\ DOMAIN validations[n] = {d}
          /\ Len(validations[n][d]) = 1

\* With the deployed threshold (3, main.rs:60), or any above 1, the test of
\* check_completion passes at no node that has recorded a validation: the
\* group key is out of reach, however many shares and validations are sent.
CompletionNeverReached ==
    Threshold > 1 => \A n \in Nodes : validations[n] # EmptyMap => ~CompletionTest(n)

\* A node whose id does not parse as a number takes usize::MAX for its index
\* and never finds its share: it stores nothing and validates nothing.
UnparsedIdHoldsNothing ==
    \A n \in Nodes : IdValue[n] = NotANumber =>
       /\ shares[n] = EmptyMap
       /\ \A m \in Messages : m.type = "ShareValidation" => m.from # n

\* No dealing is lost or overtaken between start_dkg and the network, a full
\* channel included: what a node drew is published, queued or being sent,
\* and a dealing is published only after every earlier one.
DealingsLeaveInOrder ==
    \A n \in Nodes : \A k \in 1..dealt[n] :
       /\ Distribution(n, k) \in published \cup Unpublished(n)
       /\ Distribution(n, k) \in published =>
             \A j \in 1..k : Distribution(n, j) \in published

OnlyDealersDraw == \A n \in Nodes \ Dealers : dealt[n] = 0

\* The inductive invariant behind them.
DKGInv ==
    /\ DKGTypeOK
    /\ OnlyDealersDraw
    /\ GenuineMessages
    /\ SharesMatchDealings
    /\ ValidationIffShare
    /\ FirstValidationIsLast

----------------------------------------------------------------------------
(* Dealing, as DKGNode implements it. *)

\* The nodes whose id is one of the indices that shares are dealt to.
Eligible == {n \in Nodes : IdParsed(n) \in 1..TotalNodes}

HeldDraws == [n \in Nodes |-> [d \in DOMAIN shares[n] |-> shares[n][d].polynomial.draw]]

Announced == {<<m.from, m.to>> : m \in {v \in Messages : v.type = "ShareValidation"}}

Dealings == INSTANCE Dealing WITH Participants <- Nodes,
                drawn <- dealt, held <- HeldDraws, acked <- Announced

\* Seen from outside, a step of a node draws a polynomial, accepts a share of
\* a drawn one and announces it, or changes nothing: no message, queue or
\* suspended send makes a participant hold or announce anything else.
ImplementsDealing == Dealings!DealingSpec

=============================================================================
