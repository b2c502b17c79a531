# A model of the MPC node

TLA+ specifications of the peer-to-peer MPC node in `src/`, the TLC
configurations that check them on small instances, and proofs that TLAPS checks
for every value of the constants. The repository has no design documents: what
is said here of the program is read from its code, its comments and its log
lines. Line numbers are those of the files under `src/src/`; `PROJECT.json`
maps every definition to the lines it stands for.

## The system

A node is one process. `main.rs` builds a `NetworkLayer`, gives it a `DKGNode`,
a `ConsensusNode` and a `CommandProcessor` (no `SigningNode`), and runs
`NetworkLayer::start`, a loop around one `tokio::select!` with two branches:
an event of the libp2p swarm, and a message from an mpsc channel of 100 entries.
Components do not talk to each other directly. A component that wants to
broadcast sends a `ChannelMessage` into the channel; the loop reads it and
publishes it with gossipsub; the loops of the other peers decode it and call
the component it is for. An external agent (`bin/ptp.rs`) asks a node to start
the key generation, and for its status, by request and response.

What makes this hard:

* *One task.* Handlers run inside the loop, so whatever a handler awaits, the
  loop awaits. Two awaits can really stop: the bounded `send`, whose only reader
  is the loop, and a lock whose guard the caller holds (`dkg/mod.rs:204-215`).
* *No sessions.* Neither key generation nor signing numbers its runs. A second
  `StartADKG` overwrites, old commitments keep counting.
* *A network that may lose, repeat and reorder.* The gossip heartbeat of 30
  seconds (`network/mod.rs:136`) makes the message history outlive the
  duplicate cache, and `publish` fails while no subscribed peer is known.
* *Unwrapped decoding.* A payload that is not a `GossipsubMessage` panics the
  receiver (`network/mod.rs:380`).

### Inventory

| component | state | operations | correct when | model |
|---|---|---|---|---|
| DKG node (`dkg/mod.rs`) | `status`, `shares`, `commitments`, `validations`, sender of the channel | `start_dkg`, `handle_share_distribution`, `handle_share_validation`, `check_completion`, `broadcast` | share and commitments of a dealer belong together; announced exactly if held; dealings are not lost on the way to the network; handlers return | `DKGNode`, `Dealing` |
| event loop, gossip and RPC (`network/mod.rs`, `main.rs`) | the channel's two ends, components, swarm | the `select!`, `handle_channel_message`, `handle_gossipsub_message`, `StartADKG`, `GetDKGStatus` | it is the environment `DKGNode` relies on; answers are true; requests are answered | `NetworkLayer` |
| setup, channel, dispatch (`network/mod.rs`, `main.rs`) | life of `start()`, the channel | `register_handler`, `broadcast`, `send_direct_message`, `get_msg_tx`, `start` | what is sent is handled, in order; the loop ends only for a reason | `NodeServices` |
| peer table (`network/mod.rs:317-335`) | `peers` | mdns `Discovered`, `Expired` | a connected peer is one with a live address | `PeerTable` |
| agent (`bin/ptp.rs`) | its connections and calls | a request on every connection, a response or an `OutboundFailure` | a call is served once and answered truly | `AgentRpc` |
| RPC types and codec (`types/rpc.rs`, `types/p2p.rs`, `types/dkg.rs`) | none | requests, responses, encoding of peer ids | what is encoded decodes | `AgentRpc`, `Encoding` |
| group elements (`types/bls.rs`, `types/mod.rs`) | none | encodings of fixed length | what is encoded decodes, in JSON and in CBOR | `Encoding` |
| signing node (`signing/mod.rs`) | `nonces`, `commitments`, `signature_shares` | `start_signing`, `handle_commitment_share`, `handle_signature_share` and the checks they make | who signs has a quorum; who aggregates has a quorum of such signers | `SigningNode`, `SigningLoop` |
| FROST signer (`frost/mod.rs`) | `nonces` | `generate_nonces`, `get_commitments`, `sign` | each pair is spent once, and in the order offered | `FrostSigner` |
| consensus node (`consensus/mod.rs`) | `state` (the rest is never written) | `update_state`, `handle_proposal`, `handle_vote` | nothing to get wrong: the handlers take `&self`, and the branch of a verified proposal is empty | `ConsensusNode` |
| command processor (`commands/mod.rs`) | `handlers` | `register_handler`, dispatch | an error has a handler behind it | `CommandProcessor` |
| chain client (`chain/mod.rs`) | `latest_block` | `sync_blocks`; `send_transaction` is pure I/O | overlapping calls lose nothing a finished one wrote | `BlockchainClient` |
| ADKG prototype (`adkg_layer.bkp.rs`, `network_layer.rs`) | `shares`, `commitments`, `acks`, key and key share | `start_adkg`, `handle_message`, `check_completion`, `reconstruct_secret` | shares verify and reconstruct; who acknowledges holds; a started node completes | `ADKGNode`, `SecretSharing` |
| older prototypes (`adkg_layer_bkp.rs`, `network_layer_bkp.rs`) | | near-identical copies | | not modelled |
| solver, settlement, reward, MPC pool | | empty files | | nothing to model |
| `protos/intent.rs` | | generated, unused | | not modelled |

The hazards, each at the line where it bites and with the properties that guard
it, are listed in `PROJECT.json`. Some of them no property guards, because the
code runs into them and nothing in the repository says that it should not: two
nodes may end with shares of different draws of one dealer (`dkg/mod.rs:172`),
shares of different messages share a map (`signing/mod.rs:147`), a peer counts as
disconnected while another of its addresses lives (`network/mod.rs:331`), and a
repeated ack counts again (`adkg_layer.bkp.rs:165`). The models do all of this.

## The modules

| module | what it is |
|---|---|
| `HashMaps` | `HashMap::new`, `insert` and `entry().or_insert_with` as functions |
| `Dealing` | what key generation promises: participants come to hold shares of polynomials that were drawn, and acknowledge a dealer only with a share of it |
| `DKGNode` | `dkg/mod.rs`, with any network and an independent reader of the channel |
| `NetworkLayer` | `DKGNode` in the event loop, with gossipsub and the agent's requests |
| `Encoding` | the serializers and visitors of peer ids, points and scalars under JSON and CBOR |
| `AgentRpc` | `NetworkLayer` with the agents that ask: every request and response, timeouts, lost connections, retries |
| `PeerTable`, `CommandProcessor`, `ConsensusNode` | the three small components |
| `NodeServices` | one node from setup to the end of its loop, composed of those three and the channel |
| `SigningNode` | `signing/mod.rs`, with any transport that decodes what it sends |
| `SigningLoop` | `SigningNode` in the event loop |
| `FrostSigner`, `BlockchainClient` | the two parts of the crate that `lib.rs` exports and no node runs |
| `SecretSharing`, `ADKGNode` | the ADKG prototype: its arithmetic over a small field, and its node |
| `MC*` | values of the constants for TLC; `MCExports` also takes steps of `FrostSigner` and `BlockchainClient` in turn |
| `DataLemmas` | facts about queues and maps that the proofs share |
| `*Proofs` | the theorems |

`DKGNode` implements `Dealing`, `NetworkLayer` implements `DKGNode`, and
`AgentRpc` implements `NetworkLayer`, so what is shown of a dealing holds in the
loop of a node that impatient agents ask; likewise `SigningLoop` implements
`SigningNode`. `ADKGNode`, which shares no code with `DKGNode`, implements
`Dealing` as well.

### DKGNode

| variable | code |
|---|---|
| `status[n]`, `shares[n]`, `commitments[n]`, `validations[n]` | the fields of the same names |
| `dealt[n]` | how many polynomials `n` has drawn: calls of `start_dkg` |
| `channel[n]` | the mpsc channel |
| `task[n]` | what the running handler is suspended on: nothing, a `send`, or `validations.read()` |
| `published` | every message ever read from a channel |

One action is one handler up to the await at which it can stop. `StartDkg` is
`start_dkg` with the polynomial, shares, commitments and the broadcast;
`HandleShareDistribution` finds the node's share, inserts both entries and
broadcasts the validation; `HandleShareValidation` pushes the validation and
stops at the `read()` inside `check_completion`, because the caller still holds
the write guard. Nothing after that await is ever executed, so no action models
it; `CompletionTest` is the test it would make. `TakeMessage` is the loop's
read, `ResumeSend` the sender that gets room, `DeliverAny` the network.

A polynomial is the pair of its dealer and the number of the draw: random
scalars do not repeat. A share is an index and a polynomial; commitments
determine the polynomial. `verify_shares` is the `true` the code has.

### NetworkLayer

Adds `gossip` (what gossipsub accepted), `seen` (each duplicate cache), and the
requests `asked`, `answered` and the last status `told`. Every action of the
loop needs the loop to be free (`task[n] = Idle`): that conjunct is the one
difference from `DKGNode`, and all of the difference in behaviour comes from it.
`Publish` is `gossipsub.publish`, which may fail; the message is then gone.
`ForgetSeen` is an entry of the duplicate cache that expires. There is no action
for a suspended `send`: in the loop it never resumes, which
`BlockedOnFullChannel` states and the proof shows.

### SigningNode and SigningLoop

`nonces[n]` is the number of nonce pairs, a signer's commitments are their
count, and `signature_shares[n]` the keys of the map, since every share is the
placeholder zero. `Threshold` is a function: each signer is created with its
own. `waiting[n]` holds the message of a suspended `send`. `HandleCommitmentShare`
includes `check_commitments` and its broadcast. The sum that
`check_signature_completion` computes is dropped by the code; `Aggregates` says
when it is computed.

`SigningLoop` adds the life of `start()`, gossip, and what each loop received. A
`SigningNode` that is in the loop cannot be called from outside, so its starts
come before `Start`. `ReceiveSigning` decodes first; a `SigningMessage` is
tagged with its own variant and not with one of `GossipsubMessage`, so the
`unwrap` panics and the loop ends.

### AgentRpc and Encoding

A call is one request on one connection: `Calls` pairs an agent with the number
of its connection, and `Requests` says what it sends on each. `call[c]` is how
far the request got, `answer[c]` the response the node made, `outcome[c]` what
the agent saw. `Connect` is `ConnectionEstablished` in `bin/ptp.rs:65-69`;
`Arrive` decodes, in the task of the connection and before the loop is
involved; `Serve` is the arm of `network/mod.rs:223-316` for the request,
`ServeStartADKG` of `NetworkLayer` among them; `Hear` and `Fail` are the two ends
of a call for the agent, of which at most one happens. A lost request is one
that never takes its `Arrive`. A node goes on serving a request its agent has
given up on.

`Encoding` compares what each serializer writes with what its visitor accepts,
by form and length. All three call `serialize_bytes`, which is a byte string in
CBOR and an array of numbers in JSON; the visitors of points and scalars take
both, that of peer ids takes byte strings of 48 bytes, and the id of an ed25519
key has 38.

### NodeServices

| variable | code |
|---|---|
| `life` | before `start()`, in its loop, returned an error before the loop, or from it |
| `queue`, `waiting` | the channel, and the setup call suspended on it |
| `sent`, `log` | how many messages were sent; what the loop handled, with its result |
| `live`, `peers` | `PeerTable`: the pairs mdns lists, and the table |
| `handlers` | `CommandProcessor.handlers` |
| `state` | `ConsensusNode.state` |

`start()` borrows the node mutably for as long as it runs, so `SetupRegister`,
`SetupUpdateState` and `SetupSend` come before `Start`, while a clone of the
sender may send at any time (`CloneSend`). `HandleMessage` is the channel
branch with its two `?`, on `hex::decode` and on `PeerId::from_bytes`
(`network/mod.rs:438-439`). A message is a broadcast or a Unicast of one of three
kinds: to the hex of a peer id, to the hex of something else, or to a peer id
written in base58, as everywhere else in the code; the last two end the loop.
`ReceiveCommand` ends it when a handler returns an error. `ReceiveConsensus` is
there so that the loop handles everything the code's does; no property is about
`state`, which the handlers cannot touch. `Discovered` and `Expired` take a
batch of pairs: of several addresses of one peer in a batch any may be the
last, and any expired address marks the whole peer.

### FrostSigner and BlockchainClient

A nonce pair is named by the number of its draw, and a commitment by its pair.
`Sign` takes the first pair and then looks at the first commitment that is left
(`frost/mod.rs:57-58`), which `looked` keeps. `sync[s]` is one call of
`sync_blocks`: it reads nothing before the provider answers and takes the lock
only after, so `FinishSync` of several calls may come in any order.

### SecretSharing and ADKGNode

The prototype is not declared in `lib.rs`. Unlike `dkg/mod.rs` it
checks shares and sums them, so its arithmetic is modelled: the scalar field is
the integers modulo a small prime `P`, and a group element is its discrete
logarithm, since both groups have the order of the field. The loops of the code
are sums and products of the values of a function (`SumOf`, `ProductOf`), whose
order the code leaves to its maps. `MCADKGNode` has `SharingIsCorrect`, an
assumption that TLC evaluates over every polynomial of degree 2: all shares
verify, and any three give back the secret. `SecretSharingProofs` proves both
for every prime and every degree.

`ADKGNode` has one action per handler. A publication may fail, which ends the
run of that node (`ended`); `HandleProposal` has stored share and commitments by
then. `HandleAck` includes `check_completion`, run again at every ack. In the
code `run` calls `start_adkg` before the swarm is polled, where publishing can only
fail; the model starts a node at any time, as a caller of the public
`start_adkg` may.

As an implementation of `Dealing`, a node that has started has drawn once
(`DrawnOnce`), an ack that is published is an acknowledgement, and a share counts
as held from the publication of its ack on (`HeldShares`): one that is stored but
whose ack failed is nobody else's business.

## What the runs show

| run | instance | shows |
|---|---|---|
| `dkg` | 3 nodes dealing up to twice each, with ids 1, 2 and one that is no number; channel of 1 | `SharesMatchDealings`, `ValidationIffShare`, `FirstValidationIsLast`, `CompletionNeverReached`, `DealingsLeaveInOrder`, `GenuineMessages`, `UnparsedIdHoldsNothing`; the nodes implement `Dealing` |
| `agent` | 2 nodes in their loops, 3 agents: one asks for a dealing on two connections, one pings, one sends a share; channel of 1 | the calls implement `NetworkLayer` and the loop `DKGNode`; `BlockedOnFullChannel`, `AnswersAreBacked`, `RefusedLeavesNoTrace`, `DealingsHaveCalls`, `PeerIdsNeverArrive`, `GossipDecodes` |
| `net_deployed` | peer ids for ids, threshold 3, 5 shares, as `main.rs`; 2 dealers asked twice, channel of 1 | `DeployedNeverStuck`; every request is answered and every dealing handed to gossipsub, or the loop is stuck |
| `services` | one node, 2 peers of which one has two addresses, 2 commands, channel of 1 | `TableMatchesMdns`, `BlockedSetupNeverStarts`, `EndsAtFirstError`, `SentIsHandled` |
| `prototype` | 4 nodes over the field of 5, dealers of degree 2 and 1, one of which deals too few shares | `KeyCountsOneMore`, `SharesReconstruct`, `AcksAreOfHolders`, `StartedCompletes`; the nodes implement `Dealing` |
| `exports` | up to 4 nonces; 3 overlapping calls of `sync_blocks` | `NoncesSpentInOrder`, `SyncsAdvance` |
| `sign_quorum` | 3 signers, thresholds 2, 2 and 3, two starts each, channel of 1 | `SharesHaveQuorums`, `CommitmentsAreOfOthers`, `TooFewSigners` |
| `sign_loop` | 3 signers in their loops, two starts each | `NobodyHears`, `StartEndsTheOthers`; the loop implements `SigningNode` |
| `net_send` | one dealer asked twice, channel of 1 | **violation** of `SendCompletes` |
| `net_receive` | 2 nodes, lossless network, channel of 4 | **violation** of `SubscribersReceive` |
| `agent_hear` | as `agent` | **violation** of `AnswersAreHeard` |
| `sign_hear` | as `sign_loop` | **violation** of `ReceivedIsStored` |

The four violations are disagreements with the program's own comments:

* `SendCompletes`. The comment at `network/mod.rs:412-414` puts the writing and
  the reading end of the channel in two tasks. They are in one: a handler that
  finds the channel full waits for the loop, which waits for the handler.
* `SubscribersReceive`. `handle_share_validation` awaits a lock it holds. A node
  that has handled one `ShareValidation` handles nothing more; the counterexample
  is a message that a subscribed peer never takes.
* `AnswersAreHeard`. The response to `StartADKG` carries the agent's own peer id
  (`network/mod.rs:247`), whose decoder asks for 48 bytes (`types/p2p.rs:32`) and gets 38. The agent the
  comment at `network/mod.rs:277` speaks of sees an `OutboundFailure` instead,
  although the dealing was made; asking again makes another one.
* `ReceivedIsStored`. `start_signing` broadcasts a payload that no peer can
  decode, and the peers that try panic.

In the deployed configuration neither of the first two shows: peer ids are not
numbers, so no node ever finds its share (`dkg/mod.rs:167`), none sends a
validation, and the channel has room for 100 dealings. The key generation then
does nothing at all, which `UnparsedIdHoldsNothing` and `DeployedNeverStuck` say
together.

### Bounds, and why they are enough

* `MaxDeals` (1 or 2) bounds `start_dkg` per node. Two draws are what it takes
  for shares and commitments of different polynomials to meet.
* `MaxStarts` (2) bounds `start_signing` per signer; two make commitments of
  different lengths of one signer arrive in either order.
* `Capacity` (1, in `net_receive` 4) stands for the 100 of the code. A channel
  of one is full after a single message, so every interleaving around a full
  channel occurs at once; in `net_receive` the channel never fills and the lock
  alone is to blame. An order between messages exists with one too: the one in
  the channel and the one a suspended sender holds.
* Two or three nodes: two is a dealer and a holder; three lets a third party see
  a validation between two others, and gives a threshold of 2 with one to spare.
* `UsizeMax` (15) stands for `usize::MAX`; it only has to exceed `TotalNodes`.
* `Requests` bounds the calls of each agent. Two of one agent make a retry that
  overlaps the first call; the other two are a request without encoded values
  and one that carries a peer id.
* `MaxSends` (2) and `MaxEvents` (2) in `services`: two messages for a channel of
  one, so that a sender waits, and two gossiped events around them.
* Two addresses for one peer and one for another cover both halves of
  `TableMatchesMdns`: further peers do not interact with these.
* `MaxCount` (2) and `MaxNonces` (4): two batches of nonces of each size, with
  offers and signatures between them. `MaxHeight` (2) and three `Syncs`: a call
  whose answer is overtaken, and one that begins after it.
* `MaxAcks` (2) counts up to and beyond the thresholds 1 and 2. `P = 5` leaves
  four indices; `Draws` gives the dealers polynomials with different secrets,
  one with a coefficient of zero.
* Numbers of validations are not bounded: the first one suspends the node.

Each property has a mutant in `PROJECT.json`, a definition changed the way a
plausible bug would change the code, under which its run fails.

Symmetry is used in `sign_quorum` only, between the two signers of equal
threshold; its properties are invariants. Deadlock is not checked: a node that
nobody asks anything has nothing to do, and stuck nodes are what the properties
are about.

### Fairness

`NetFairSpec` assumes weak fairness of the channel branch and of serving a
request that has arrived. `select!` polls its ready branches in random order, so
neither starves the other, and requests queue in the swarm. No fairness is
assumed of the network, of agents, or of expiry in the duplicate cache.
`NetReliableSpec`, which only the violation `net_receive` uses, adds a network
that delivers everything once: the loss in that run is the node's own doing.
`LoopReliableSpec` in `sign_loop` is weakly fair to delivery and nothing else,
which `StartEndsTheOthers` needs: what is never delivered ends nobody.
`ServicesSpec` is weakly fair to `Start`, which `main.rs` reaches at once, and to
the channel branch. `ADKGSpec` is weakly fair to the delivery of each message in
a step in which no publication fails, and makes none fail; `StartedCompletes`
therefore allows for a run that has ended with a failed one.

## What is proved

For every value of the constants that satisfies the modules' assumptions
(`TotalNodes < UsizeMax`, as a `Vec` requires; capacities not 0; finitely many
signers, agents and nodes of the prototype; thresholds of signers not 0; agents
that ask for a dealing ask a dealer; `P` a prime above 2, and no node of the
prototype deals to as many as `P`, as no `u64` reaches the order of the code's
field):

* `DKGNodeProofs`: `TypeCorrect`, `MessagesAreGenuine`, `SharesMatch`,
  `AnnouncedIffHeld`, `OneValidation`, `NeverCompletes`, `UnparsedIdHolds`,
  `DealingsInOrder`, and `DealingRefined`: `DKGNode` implements `Dealing`.
* `NetworkProofs`: `LoopRefined` (the loop implements `DKGNode`),
  `NetTypeCorrect`, `BlockedForGood`, `AnswersBacked`, `RefusedIsGone`,
  `DeployedRuns`; and of the agents, `AgentRefined` (their calls implement the requests of `NetworkLayer`),
  `AgentTypeCorrect`, `OneDealingPerCall`, `PeerIdsLost`, `GossipAlwaysDecodes`;
  `AgentsGetDealings` composes the three refinements, down to `Dealing`.
* `NodeServicesProofs`: `TableMatches`, `BlockedSetup`, `LoopEndsAtError`.
* `SigningProofs`: `SigningTypeCorrect`, `OwnNeverCounts`,
  `QuorumBehindShares`, `ThresholdTooHigh`; in the loop, `SigningLoopRefined` and
  `NobodyEverHears`.
* `ExportsProofs`: `NoncesInOrder` and `SyncsOnlyAdvance`.
* `SecretSharingProofs`: `SharesGiveSecret` and `VerifiedIsValue`.
* `ADKGNodeProofs`: `ADKGTypeCorrect`, `KeyCounts`, `AcksOfHolders`,
  `PublishedVerifies`, `HoldersReconstruct`, and `PrototypeDeals`: `ADKGNode`
  implements `Dealing`.

*The argument for the key generation.* `SharesMatchDealings` is not inductive:
a share comes out of a message, so nothing follows without knowing that every
message under way is one its sender made. `DKGInv` adds `GenuineMessages`, which
in turn needs the types. `ValidationIffShare` and
`FirstValidationIsLast` are carried along because each reads state the others
write. The channel enters only through three effect lemmas: a broadcast adds one
message to those under way, whether it is queued or suspended; reading one and
resuming a send leave that set alone. `NeverCompletes` follows from
`FirstValidationIsLast`: a single validation is below any threshold above 1.
For the refinement `DKGInv` also says that only dealers draw. It maps a share
held to the draw it is of and a validation under way to an acknowledgement;
each step of `DKGNode` is then a `Draw`, an `Accept` or a stutter.

*The order of dealings.* `DealingsInOrder` looks at the channel and the
suspended send together as one queue, `Pending`: a broadcast appends to it
whether it blocks or not, a read takes its head, and a sender that resumes
leaves it as it is. `InOrder` then says of that queue and the published messages
that the dealings published are the first ones and the pending ones ascend; its
four parts imply one another's preservation, given that two draws are two
messages.

*The loop.* `LoopRefined` needs `gossip \subseteq published` only. `BlockedForGood`
adds that a channel never exceeds its capacity, and `DeployedRuns` that under
peer ids a channel holds dealings only, no more than were drawn. `AnswersBacked`
needs `DealingsInOrder`, by which a dealing is published, queued or being sent,
and that the last of these is never one that an answer stands for (`Backed`): a
suspended `start_dkg` has not answered, and no status is told meanwhile.
`RefusedIsGone` needs `GenuineMessages` and `ValidationIffShare`: the share taken
from a message in `gossip` names the draw of that message, and who announced a
share there holds one.

*The agents.* Every step of `AgentRpc` is one of `NetworkLayer` or changes nothing
of it. `OneDealingPerCall` counts the calls that have reached a loop: the set grows
by one exactly with each `start_dkg`, whether or not the agent still waits.

*The node's services.* `TableMatches` adds that what mdns lists is among what it
may find. `LoopEndsAtError` numbers the messages. Of those sent, the first `Taken`
are in the log and the next ones in the channel, in their order (`Accounted`); a
setup call that waits holds the last. A clone of the sender cannot get ahead of
that call, because only the full channel keeps it waiting, and that is for good.

*The exports.* The pairs spent, left and offered are runs of consecutive numbers
(`Consecutive`), each beginning where it should. For `sync_blocks`, an answer is
not behind what `latest_block` was when its call began, because nothing is ahead
of the chain.

*Signing.* `SharesHaveQuorums` is inductive with the types, as no step shrinks
a map of commitments (`SigningGrows`) and the cardinality of a growing finite set
does not fall (`EnoughStays`). `TooFewSigners` then needs no induction of its
own: the domain of a map of others has fewer elements than there are signers.

*The arithmetic of the prototype.* The library's induction theorems take an
operator, which no installed prover instantiates. `SecretSharingProofs` gets
induction from well-founded orders instead: a set that contains zero and the
successors of its members, or a subset of a finite set once it contains all
smaller ones, contains everything, because what it lacked would have a minimal
element. From this follow the laws of sums and products over finite sets, which
hold in any order of their elements (`SumOf`, `ProductOf`), and that a
combination of functions sums to the combination of their sums. Interpolation is
then an induction on the number of coefficients. A polynomial without its constant
is `x` times one with a coefficient less, which by induction interpolates to the
same value over a set of indices and over the set without one of them; the
difference of these two is, up to a factor, what the product with `x`
interpolates to, so that is zero and the constant remains. `SharesGiveSecret` asks for as
many indices as coefficients *or more*, so extra shares do no harm.
`VerifiedIsValue` divides by the generator, for which `P` has to be prime.

*The prototype.* A node draws once, so all that is ever published of a dealer is
one proposal (`OneProposal`), and whatever two nodes have stored of it are values
of one polynomial and its one list of commitments (`StoredAsPublished`). A
redelivered proposal therefore overwrites an entry with itself, and the sums a
node took at its completion are still sums over what it holds, which is
`KeyCountsOneMore`; it also needs that a node with a key has started
(`KeysWithAcks`), as its own commitments are in the sum. `AcksAreOfHolders` needs
that an ack that was published has a share behind it (`PublishedGenuine`).
`ADKGInv` is the conjunction. `HoldersReconstruct` is `SharesGiveSecret`, applied
to the polynomial that `ADKGInv` finds behind the stored shares. For
`PrototypeDeals` a start is a `Draw`, a proposal whose ack is published an
`Accept`, and all else a stutter, the failed publications among it.

## What is only model-checked

`StartIsAnswered`, `DealingReachesGossipsub`, `SentIsHandled`,
`StartEndsTheOthers` and `StartedCompletes` are liveness under fairness, which
the prover does not reach. Everything else that a passing run checks has a
theorem. No module uses recursive definitions.

## What is not modelled

* The arithmetic of shares and commitments of `dkg/mod.rs` and `signing/mod.rs`:
  `verify_share` and `verify_shares` return `true`, signature shares are zero, and
  no result depends on a value.
* What follows the await in `check_completion` (`generate_group_key`): no
  execution gets there.
* Errors of `send`: the channel closes only when the loop that owns both ends
  is gone.
* Building the swarm, listening, dialling and subscribing, which are one step of
  `Start` that succeeds or fails, and logging.
* `MPCCodec` in `types/rpc.rs`: `build_mpc_behaviour` uses libp2p's own CBOR
  codec, and nothing uses this one.
* `send_transaction`, which is pure I/O and keeps no state.
* `current_round`, `proposals` and `votes` of the consensus node, which nothing
  writes.
* Of the prototype: its `peer_list`, its commands from stdin and the building of
  its swarm. That `run` publishes before it can know a peer is a hazard the
  model does not show; the file is not part of the crate. Its two older copies,
  `adkg_layer_bkp.rs` and `network_layer_bkp.rs`, differ in visibility, comments
  and the building of the swarm.
* `protos/intent.rs`, which is generated and unused; the empty files.

## Order of work

The modules were written in the order of the table above, the most important
behaviour first. Every component with state of its own now has a module, so what
is left is depth:

1. Crash and restart are not in the code: nothing is persisted. Should state be
   written to disk, `NodeServices` is where a restart belongs.
2. Should key generation or signing number its sessions, `Dealing` is the
   specification to strengthen first: it allows participants to hold shares
   of different draws, because the code does.
