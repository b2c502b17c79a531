---------------------------- MODULE NetworkLayer ----------------------------
(***************************************************************************)
(* The event loop of src/src/network/mod.rs around the DKGNode of every    *)
(* node: one task selects between an event of the swarm and a message of   *)
(* the mpsc channel and handles it to the end before it selects again.     *)
(* The DKG handlers, which write to the channel, run inside that task, the *)
(* channel's only reader: a handler that waits for room in the channel, or *)
(* for the validations lock, keeps the loop from ever running again.       *)
(* DKGNode's ResumeSend is therefore no action here, and TakeMessage only  *)
(* happens between handlers.                                               *)
(*                                                                         *)
(* External code is modelled by what the loop sees of it: gossipsub hands  *)
(* a published message to any subscribed node, in any order, again once    *)
(* its duplicate cache has forgotten the message id (the hash of the       *)
(* content); it refuses to publish an id it still remembers, or anything   *)
(* at all while it knows no subscribed peer.                               *)
(***************************************************************************)
EXTENDS DKGNode

VARIABLES
    gossip,    \* messages gossipsub accepted for publication
    seen,      \* each node's duplicate cache
    asked,     \* StartADKG requests sent to each node
    answered,  \* DKGStarted responses each node has sent
    told       \* the last status each node has answered GetDKGStatus with

gossipVars == <<gossip, seen>>
rpcVars    == <<asked, answered, told>>
netVars    == <<dkgVars, gossipVars, rpcVars>>

NetInit ==
    /\ DKGInit
    /\ gossip   = {}
    /\ seen     = [n \in Nodes |-> {}]
    /\ asked    = [n \in Nodes |-> 0]
    /\ answered = [n \in Nodes |-> 0]
    /\ told     = [n \in Nodes |-> "New"]

----------------------------------------------------------------------------
(* The channel branch of the select. *)

\* gossipsub.publish: Err(Duplicate), Err(InsufficientPeers) or Ok.
Publish(n, msg) ==
    \/ UNCHANGED gossipVars
    \/ /\ msg \notin seen[n]
       /\ gossip' = gossip \cup {msg}
       /\ seen'   = [seen EXCEPT ![n] = @ \cup {msg}]

\* Mutant: the channel is read by a task of its own.
HandleChannelMessageOwnTask(n) ==
    TakeMessage(n) /\ Publish(n, Head(channel[n])) /\ UNCHANGED rpcVars

\* handle_channel_message for the Broadcast messages of DKGNode; an error of
\* publish is logged and the message is gone.
HandleChannelMessage(n) ==
    /\ task[n] = Idle
    /\ TakeMessage(n)
    /\ Publish(n, Head(channel[n]))
    /\ UNCHANGED rpcVars

----------------------------------------------------------------------------
(* The swarm branch of the select. *)

\* Mutant: gossip echoes a node's own messages.
ReceiveGossipEcho(n, m) ==
    /\ m \in gossip \ seen[n]
    /\ HandleMessage(n, m)
    /\ seen' = [seen EXCEPT ![n] = @ \cup {m}]
    /\ UNCHANGED <<gossip, rpcVars>>

\* handle_gossipsub_message for a GossipsubMessage::DKG.
ReceiveGossip(n, m) ==
    /\ m \in gossip \ seen[n]
    /\ m.from # n
    /\ HandleMessage(n, m)
    /\ seen' = [seen EXCEPT ![n] = @ \cup {m}]
    /\ UNCHANGED <<gossip, rpcVars>>

\* An entry of the duplicate cache expires.
ForgetSeen(n, m) ==
    /\ m \in seen[n]
    /\ seen' = [seen EXCEPT ![n] = @ \ {m}]
    /\ UNCHANGED <<dkgVars, gossip, rpcVars>>

\* An agent sends RPCRequest::StartADKG.
RequestStart(n) ==
    /\ asked[n] < MaxDeals
    /\ asked' = [asked EXCEPT ![n] = @ + 1]
    /\ UNCHANGED <<dkgVars, gossipVars, answered, told>>

\* Mutant: the response does not wait for start_dkg.
ServeStartADKGEarly(n) ==
    /\ dealt[n] < asked[n]
    /\ StartDkg(n)
    /\ answered' = [answered EXCEPT ![n] = @ + 1]
    /\ UNCHANGED <<gossipVars, asked, told>>

\* Mutant: only the first StartADKG is answered.
ServeStartADKGOnce(n) ==
    /\ dealt[n] < asked[n]
    /\ StartDkg(n)
    /\ answered' = [answered EXCEPT ![n] = IF status[n] = "New" THEN @ + 1 ELSE @]
    /\ UNCHANGED <<gossipVars, asked, told>>

\* StartADKG: start_dkg().await, then the response.  A start_dkg that is left
\* waiting for room in the channel is never answered.
ServeStartADKG(n) ==
    /\ dealt[n] < asked[n]
    /\ StartDkg(n)
    /\ answered' = [answered EXCEPT ![n] = IF IsSending(n)' THEN @ ELSE @ + 1]
    /\ UNCHANGED <<gossipVars, asked, told>>

\* GetDKGStatus
ServeGetDKGStatus(n) ==
    /\ task[n] = Idle
    /\ told' = [told EXCEPT ![n] = status[n]]
    /\ UNCHANGED <<dkgVars, gossipVars, asked, answered>>

----------------------------------------------------------------------------
NetNext ==
    \/ \E n \in Dealers : RequestStart(n) \/ ServeStartADKG(n)
    \/ \E n \in Nodes :
          \/ HandleChannelMessage(n)
          \/ ServeGetDKGStatus(n)
          \/ \E m \in gossip : ReceiveGossip(n, m) \/ ForgetSeen(n, m)

NetSpec == NetInit /\ [][NetNext]_netVars

\* select! polls its branches in random order, so neither starves the other,
\* and the swarm's events are handled in the order they arrive.
NetFairSpec ==
    /\ NetSpec
    /\ \A n \in Nodes   : WF_netVars(HandleChannelMessage(n))
    /\ \A n \in Dealers : WF_netVars(ServeStartADKG(n))

\* On top of that, a gossip network that loses nothing and hands out nothing
\* twice: what it accepted reaches every node that still takes events.
Deals       == {Distribution(n, k) : n \in Dealers, k \in 1..MaxDeals}
Validations == {ShareValidation(n, d) : n \in Nodes, d \in Dealers}

NetReliableNext ==
    \/ \E n \in Dealers : RequestStart(n) \/ ServeStartADKG(n)
    \/ \E n \in Nodes :
          \/ HandleChannelMessage(n)
          \/ ServeGetDKGStatus(n)
          \/ \E m \in gossip : ReceiveGossip(n, m)

NetReliableSpec ==
    /\ NetInit /\ [][NetReliableNext]_netVars
    /\ \A n \in Nodes   : WF_netVars(HandleChannelMessage(n))
    /\ \A n \in Dealers : WF_netVars(ServeStartADKG(n))
    /\ \A n \in Nodes, m \in Deals \cup Validations : WF_netVars(ReceiveGossip(n, m))

----------------------------------------------------------------------------
(* Properties. *)

Stuck(n) == task[n] # Idle

\* A duplicate cache holds only what gossipsub accepted, and of the requests a
\* node was sent it has served some and answered some of those.
NetTypeOK ==
    /\ gossip   \subseteq published
    /\ seen     \in [Nodes -> SUBSET gossip]
    /\ asked    \in [Nodes -> 0..MaxDeals]
    /\ answered \in [Nodes -> 0..MaxDeals]
    /\ told     \in [Nodes -> {"New", "Started"}]
    /\ \A n \in Nodes : answered[n] <= dealt[n] /\ dealt[n] <= asked[n]

\* The loop only does to a DKGNode what DKGNode allows its environment: every
\* safety property of DKGNode holds of the nodes in the loop.
ImplementsDKG == DKGSpec

\* A handler of the loop that waits for room in the channel finds it full for
\* good: what would make room is the loop itself.
BlockedOnFullChannel ==
    \A n \in Nodes : IsSending(n) => Len(channel[n]) = Capacity

\* What an agent was told is true of the channel and not only of the node's
\* fields: a DKGStarted response, and a "Started" status, stand for dealings
\* that are in the channel or have left it, although the status is set before
\* the send (dkg/mod.rs:84-85).
AnswersAreBacked ==
    \A n \in Nodes : \A k \in 1..dealt[n] :
       (k <= answered[n] \/ (k = 1 /\ told[n] = "Started")) =>
          Distribution(n, k) \in Range(channel[n]) \cup published

\* What gossipsub refuses is gone without a trace (network/mod.rs:431-433): the
\* share a node holds is of a draw whose dealing gossipsub accepted from
\* another node, and a validation a node has recorded is one it accepted, from
\* another node that holds a share of that dealer.  A dealer keeps no share of
\* its own either: of a dealing refused nothing is left, although its agent
\* has been answered DKGStarted.
RefusedLeavesNoTrace ==
    \A n \in Nodes :
       /\ \A d \in DOMAIN shares[n] :
             d # n /\ Distribution(d, shares[n][d].polynomial.draw) \in gossip
       /\ \A d \in DOMAIN validations[n] :
             \E k \in Nodes \ {n} :
                d \in DOMAIN shares[k] /\ ShareValidation(k, d) \in gossip

\* Deployed as main.rs does, with peer ids for ids, nodes send no validation
\* and a loop gets stuck on nothing but its own dealings: never, while its
\* node has been asked for no more of them than the channel holds.
DeployedNeverStuck ==
    (\A n \in Nodes : IdValue[n] = NotANumber) =>
       \A n \in Nodes : dealt[n] <= Capacity => ~Stuck(n)

\* Every StartADKG is answered, by a node whose loop is not stuck.
StartIsAnswered ==
    \A n \in Dealers : \A k \in 1..MaxDeals :
       asked[n] >= k ~> answered[n] >= k \/ Stuck(n)

\* Every dealing is handed to gossipsub, by a node whose loop is not stuck.
DealingReachesGossipsub ==
    \A n \in Dealers : \A k \in 1..MaxDeals :
       dealt[n] >= k ~> Distribution(n, k) \in published \/ Stuck(n)

\* "the channel is setup between 1. dkg thread (writing end) and tokio async
\* task executor (reading end)" (network/mod.rs:412-414): were they two tasks,
\* a handler waiting for room in the channel would get it.
SendCompletes == \A n \in Nodes : IsSending(n) ~> ~IsSending(n)

\* "if peer(s) have already subscribed to this topic, they will recieve this
\* msg" (network/mod.rs:427-428): what gossipsub accepted reaches the handler
\* of every other node.
SubscribersReceive ==
    \A n \in Nodes, m \in Deals \cup Validations :
       m.from # n => (m \in gossip ~> m \in seen[n])

=============================================================================
