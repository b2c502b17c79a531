--------------------------- MODULE NetworkProofs ----------------------------
(***************************************************************************)
(* The event loop implements DKGNode's environment, so that the theorems   *)
(* of DKGNodeProofs hold of the nodes in the loop, and what the loop adds; *)
(* then the same of the agents that ask, give up and ask again, which add  *)
(* nothing to what NetworkLayer allows its requests to do.                 *)
(***************************************************************************)
EXTENDS AgentRpc, DKGNodeProofs, FiniteSetTheorems

\* What gossipsub has accepted was read from a channel.
GossipIsPublished == gossip \subseteq published

\* Only reading a channel hands messages to gossipsub.
LEMMA GossipStep ==
    ASSUME GossipIsPublished, [NetNext]_netVars
    PROVE  GossipIsPublished'
  <1>1. ASSUME NEW n \in Dealers, RequestStart(n) \/ ServeStartADKG(n)
        PROVE  GossipIsPublished'
    BY <1>1 DEF RequestStart, ServeStartADKG, StartDkg, GossipIsPublished, dkgVars, gossipVars
  <1>2. ASSUME NEW n \in Nodes, HandleChannelMessage(n)
        PROVE  GossipIsPublished'
    BY <1>2 DEF HandleChannelMessage, TakeMessage, Publish, GossipIsPublished, gossipVars
  <1>3. ASSUME NEW n \in Nodes, NEW m \in gossip, ReceiveGossip(n, m)
        PROVE  GossipIsPublished'
    BY <1>3 DEF ReceiveGossip, HandleMessage, HandleShareDistribution, HandleShareValidation,
                AcceptShare, GossipIsPublished, dkgVars
  <1>4. ASSUME NEW n \in Nodes, ServeGetDKGStatus(n) \/ \E m \in gossip : ForgetSeen(n, m)
        PROVE  GossipIsPublished'
    BY <1>4 DEF ServeGetDKGStatus, ForgetSeen, GossipIsPublished, dkgVars, gossipVars
  <1>5. CASE UNCHANGED netVars
    BY <1>5 DEF netVars, dkgVars, gossipVars, GossipIsPublished
  <1>. QED
    BY <1>1, <1>2, <1>3, <1>4, <1>5 DEF NetNext

\* A step of the loop is a step of DKGNode or changes nothing of it.
LEMMA LoopStep ==
    ASSUME GossipIsPublished, [NetNext]_netVars
    PROVE  [DKGNext]_dkgVars
  <1>1. ASSUME NEW n \in Dealers, RequestStart(n) \/ ServeStartADKG(n)
        PROVE  [DKGNext]_dkgVars
    BY <1>1 DEF RequestStart, ServeStartADKG, DKGNext
  <1>2. ASSUME NEW n \in Nodes, HandleChannelMessage(n)
        PROVE  DKGNext
    BY <1>2 DEF HandleChannelMessage, DKGNext
  <1>3. ASSUME NEW n \in Nodes, NEW m \in gossip, ReceiveGossip(n, m)
        PROVE  DKGNext
    <2>1. m \in published /\ m.from # n /\ HandleMessage(n, m)
      BY <1>3 DEF ReceiveGossip, GossipIsPublished
    <2>. QED
      BY <2>1 DEF DeliverAny, DKGNext
  <1>4. ASSUME NEW n \in Nodes, ServeGetDKGStatus(n) \/ \E m \in gossip : ForgetSeen(n, m)
        PROVE  UNCHANGED dkgVars
    BY <1>4 DEF ServeGetDKGStatus, ForgetSeen
  <1>5. CASE UNCHANGED netVars
    BY <1>5 DEF netVars
  <1>. QED
    BY <1>1, <1>2, <1>3, <1>4, <1>5 DEF NetNext

\* Whatever holds of DKGNode, whose network and scheduler are arbitrary, holds
\* of the nodes in their event loops.
THEOREM LoopRefined == NetSpec => ImplementsDKG
  <1>1. NetInit => DKGInit /\ GossipIsPublished
    BY DEF NetInit, GossipIsPublished
  <1>2. GossipIsPublished /\ [NetNext]_netVars => GossipIsPublished' /\ [DKGNext]_dkgVars
    BY GossipStep, LoopStep
  <1>. QED
    BY <1>1, <1>2, PTL DEF NetSpec, ImplementsDKG, DKGSpec

----------------------------------------------------------------------------
\* No channel holds more than its capacity, and one with a blocked sender
\* holds exactly that.
ChannelBound ==
    \A n \in Nodes : /\ Len(channel[n]) <= Capacity
                     /\ IsSending(n) => Len(channel[n]) = Capacity

\* A broadcast keeps the bound: it blocks only on a full channel.
LEMMA BroadcastBound ==
    ASSUME DKGTypeOK, ChannelBound, NEW n \in Nodes, NEW msg \in Message, task[n] = Idle,
           Broadcast(n, msg), published' = published
    PROVE  ChannelBound'
  <1>1. channel \in [Nodes -> Seq(Message)] /\ task \in [Nodes -> Task] /\ Capacity \in Nat
    BY DKGAssumption DEF DKGTypeOK
  <1>2. ASSUME NEW k \in Nodes, k # n
        PROVE  channel'[k] = channel[k] /\ task'[k] = task[k]
    BY <1>2, BroadcastEffect
  <1>3. ~IsSending(n)
    BY DEF IsSending, Idle
  <1>4. /\ Len(channel'[n]) <= Capacity
        /\ IsSending(n)' => Len(channel'[n]) = Capacity
    <2>1. CASE Len(channel[n]) < Capacity /\ channel' = [channel EXCEPT ![n] = Append(@, msg)]
               /\ UNCHANGED task
      <3>1. channel'[n] = Append(channel[n], msg) /\ channel[n] \in Seq(Message)
        BY <1>1, <2>1
      <3>2. Len(channel'[n]) = Len(channel[n]) + 1 /\ Len(channel[n]) \in Nat
        BY <3>1
      <3>. QED
        BY <1>1, <1>3, <2>1, <3>2 DEF IsSending
    <2>2. CASE Len(channel[n]) >= Capacity /\ UNCHANGED channel
      <3>1. Len(channel[n]) \in Nat /\ Len(channel[n]) <= Capacity
        BY <1>1 DEF ChannelBound
      <3>. QED
        BY <1>1, <2>2, <3>1
    <2>. QED
      BY <2>1, <2>2 DEF Broadcast
  <1>. QED
    BY <1>2, <1>4 DEF ChannelBound, IsSending

\* The loop keeps the bound: nothing reads the channel of a blocked sender.
LEMMA ChannelBoundStep ==
    ASSUME DKGTypeOK, GossipIsPublished, ChannelBound, [NetNext]_netVars
    PROVE  ChannelBound'
  <1>1. CASE UNCHANGED <<channel, task>>
    BY <1>1 DEF ChannelBound, IsSending
  <1>2. ASSUME NEW n \in Dealers, RequestStart(n) \/ ServeStartADKG(n)
        PROVE  ChannelBound'
    <2>1. CASE RequestStart(n)
      BY <1>1, <2>1 DEF RequestStart, dkgVars
    <2>2. CASE ServeStartADKG(n)
      BY <2>2, StartEffect, BroadcastBound, DKGAssumption DEF ServeStartADKG
    <2>. QED
      BY <1>2, <2>1, <2>2
  <1>3. ASSUME NEW n \in Nodes, HandleChannelMessage(n)
        PROVE  ChannelBound'
    <2>1. /\ task[n] = Idle
          /\ channel[n] # <<>>
          /\ channel' = [channel EXCEPT ![n] = Tail(@)]
          /\ task' = task
      BY <1>3 DEF HandleChannelMessage, TakeMessage
    <2>2. channel \in [Nodes -> Seq(Message)] /\ Capacity \in Nat
      BY DKGAssumption DEF DKGTypeOK
    <2>3. Len(Tail(channel[n])) = Len(channel[n]) - 1 /\ Len(channel[n]) \in Nat
      BY <2>1, <2>2
    <2>4. channel'[n] = Tail(channel[n]) /\ \A k \in Nodes \ {n} : channel'[k] = channel[k]
      BY <2>1, <2>2
    <2>5. ~IsSending(n)' /\ Len(channel'[n]) <= Capacity
      BY <2>1, <2>2, <2>3, <2>4 DEF ChannelBound, IsSending, Idle
    <2>. QED
      BY <2>1, <2>4, <2>5 DEF ChannelBound, IsSending
  <1>4. ASSUME NEW n \in Nodes, NEW m \in gossip, ReceiveGossip(n, m)
        PROVE  ChannelBound'
    <2>1. m \in published /\ DeliverAny(n)
      BY <1>4 DEF ReceiveGossip, GossipIsPublished, DeliverAny
    <2>2. ASSUME NEW v \in published, NEW share \in MyShare(n, v.shares),
                 task[n] = Idle, AcceptShare(n, v, share)
          PROVE  ChannelBound'
      <3>1. ShareValidation(n, v.from) \in Message
        BY MessageFields, ValidationType DEF DKGTypeOK
      <3>. QED
        BY <2>2, <3>1, BroadcastBound DEF AcceptShare
    <2>3. CASE UNCHANGED dkgVars
      BY <1>1, <2>3 DEF dkgVars
    <2>4. ASSUME NEW v, task[n] = Idle, HandleShareValidation(n, v)
          PROVE  ChannelBound'
      <3>1. /\ channel' = channel
            /\ task'[n] = ValidationsRead
            /\ \A k \in Nodes \ {n} : task'[k] = task[k]
        BY <2>4, RecordEffect DEF HandleShareValidation
      <3>. QED
        BY <3>1 DEF ChannelBound, IsSending, ValidationsRead
    <2>. QED
      BY <2>1, <2>2, <2>3, <2>4, DeliverCases
  <1>5. ASSUME NEW n \in Nodes, ServeGetDKGStatus(n) \/ \E m \in gossip : ForgetSeen(n, m)
        PROVE  ChannelBound'
    BY <1>1, <1>5 DEF ServeGetDKGStatus, ForgetSeen, dkgVars
  <1>6. CASE UNCHANGED netVars
    BY <1>1, <1>6 DEF netVars, dkgVars
  <1>. QED
    BY <1>2, <1>3, <1>4, <1>5, <1>6 DEF NetNext

\* A handler of the loop that waits for room finds its channel full for good.
THEOREM BlockedForGood == NetSpec => []BlockedOnFullChannel
  <1>1. NetInit => GossipIsPublished /\ ChannelBound
    BY DKGAssumption DEF NetInit, DKGInit, GossipIsPublished, ChannelBound, IsSending, Idle
  <1>2. DKGTypeOK /\ GossipIsPublished /\ ChannelBound /\ [NetNext]_netVars
           => GossipIsPublished' /\ ChannelBound'
    BY GossipStep, ChannelBoundStep
  <1>3. ChannelBound => BlockedOnFullChannel
    BY DEF ChannelBound, BlockedOnFullChannel
  <1>4. NetSpec => []DKGTypeOK
    BY LoopRefined, TypeCorrect, PTL DEF ImplementsDKG
  <1>. QED
    BY <1>1, <1>2, <1>3, <1>4, PTL DEF NetSpec

----------------------------------------------------------------------------
(* The deployed configuration. *)

Deployed == \A n \in Nodes : IdValue[n] = NotANumber

\* While a node has drawn no more dealings than its channel holds, its handler
\* is not suspended and the channel holds at most one message for each.
DealingsOnly ==
    \A n \in Nodes : dealt[n] <= Capacity =>
       task[n] = Idle /\ Len(channel[n]) <= dealt[n]

\* In the deployed configuration no validation is ever published, so the loop
\* only ever sends dealings, for which the channel has room.
LEMMA DealingsOnlyStep ==
    ASSUME Deployed, DKGTypeOK, GenuineMessages, UnparsedIdHoldsNothing, GossipIsPublished,
           DealingsOnly, [NetNext]_netVars
    PROVE  DealingsOnly'
  <1>1. CASE UNCHANGED <<channel, task, dealt>>
    BY <1>1 DEF DealingsOnly
  <1>2. ASSUME NEW n \in Dealers, RequestStart(n) \/ ServeStartADKG(n)
        PROVE  DealingsOnly'
    <2>1. CASE RequestStart(n)
      BY <1>1, <2>1 DEF RequestStart, dkgVars, nodeVars
    <2>2. CASE ServeStartADKG(n)
      <3>1. /\ n \in Nodes
            /\ dealt \in [Nodes -> 0..MaxDeals]
            /\ channel \in [Nodes -> Seq(Message)]
            /\ {MaxDeals, Capacity} \subseteq Nat
        BY DKGAssumption DEF DKGTypeOK
      <3>2. PICK k : k = dealt[n] + 1
        OBVIOUS
      <3>3. /\ k \in 1..MaxDeals
            /\ Broadcast(n, Distribution(n, k))
            /\ dealt' = [dealt EXCEPT ![n] = k]
        BY <2>2, <3>1, <3>2, StartEffect DEF ServeStartADKG
      <3>4. \A j \in Nodes \ {n} :
               channel'[j] = channel[j] /\ task'[j] = task[j] /\ dealt'[j] = dealt[j]
        BY <3>1, <3>3 DEF Broadcast, DKGTypeOK
      <3>5. ASSUME k <= Capacity
            PROVE  task'[n] = Idle /\ Len(channel'[n]) <= k
        <4>1. /\ task[n] = Idle
              /\ Len(channel[n]) \in Nat /\ Len(channel[n]) < k /\ k \in Nat
          BY <3>1, <3>2, <3>5 DEF DealingsOnly
        <4>2. /\ channel' = [channel EXCEPT ![n] = Append(@, Distribution(n, k))]
              /\ task' = task
          BY <3>1, <3>3, <3>5, <4>1 DEF Broadcast
        <4>3. Len(channel'[n]) = Len(channel[n]) + 1
          BY <3>1, <4>2
        <4>. QED
          BY <4>1, <4>2, <4>3
      <3>6. dealt'[n] = k
        BY <3>1, <3>3
      <3>. QED
        BY <3>4, <3>5, <3>6 DEF DealingsOnly
    <2>. QED
      BY <1>2, <2>1, <2>2
  <1>3. ASSUME NEW n \in Nodes, HandleChannelMessage(n)
        PROVE  DealingsOnly'
    <2>1. /\ channel[n] # <<>>
          /\ channel' = [channel EXCEPT ![n] = Tail(@)]
          /\ task' = task
          /\ dealt' = dealt
      BY <1>3 DEF HandleChannelMessage, TakeMessage, nodeVars
    <2>2. channel \in [Nodes -> Seq(Message)] /\ dealt[n] \in Nat
      BY DKGAssumption DEF DKGTypeOK
    <2>3. Len(Tail(channel[n])) = Len(channel[n]) - 1 /\ Len(channel[n]) \in Nat
      BY <2>1, <2>2
    <2>4. channel'[n] = Tail(channel[n]) /\ \A k \in Nodes \ {n} : channel'[k] = channel[k]
      BY <2>1, <2>2
    <2>5. dealt'[n] <= Capacity => task'[n] = Idle /\ Len(channel'[n]) <= dealt'[n]
      BY <2>1, <2>2, <2>3, <2>4 DEF DealingsOnly
    <2>. QED
      BY <2>1, <2>4, <2>5 DEF DealingsOnly
  <1>4. ASSUME NEW n \in Nodes, NEW m \in gossip, ReceiveGossip(n, m)
        PROVE  DealingsOnly'
    <2>1. m \in published /\ m \in Messages /\ m \in Message
      BY <1>4 DEF GossipIsPublished, Messages, DKGTypeOK
    <2>2. IdParsed(n) \notin 1..TotalNodes
      BY DKGAssumption DEF Deployed, IdParsed
    <2>3. m.type # "ShareValidation"
      BY <2>1, MessageFields DEF Deployed, UnparsedIdHoldsNothing
    <2>4. HandleShareDistribution(n, m)
      BY <1>4, <2>3 DEF ReceiveGossip, HandleMessage
    <2>5. ASSUME NEW share \in MyShare(n, m.shares), AcceptShare(n, m, share)
          PROVE  FALSE
      <3>1. m.type = "ShareDistribution"
        BY <2>1, <2>3 DEF Message
      <3>2. IdParsed(n) \in 1..TotalNodes
        BY <2>1, <2>5, <3>1, FoundShare
      <3>. QED
        BY <2>2, <3>2
    <2>. QED
      BY <1>1, <2>4, <2>5 DEF HandleShareDistribution, dkgVars, nodeVars
  <1>5. ASSUME NEW n \in Nodes, ServeGetDKGStatus(n) \/ \E m \in gossip : ForgetSeen(n, m)
        PROVE  DealingsOnly'
    BY <1>1, <1>5 DEF ServeGetDKGStatus, ForgetSeen, dkgVars, nodeVars
  <1>6. CASE UNCHANGED netVars
    BY <1>1, <1>6 DEF netVars, dkgVars, nodeVars
  <1>. QED
    BY <1>2, <1>3, <1>4, <1>5, <1>6 DEF NetNext

\* As main.rs deploys it, the loop of a node never gets stuck while the node
\* has drawn no more dealings than its channel holds.
THEOREM DeployedRuns == NetSpec => []DeployedNeverStuck
  <1>1. CASE Deployed
    <2>1. NetInit => GossipIsPublished /\ DealingsOnly
      BY DKGAssumption DEF NetInit, DKGInit, GossipIsPublished, DealingsOnly
    <2>2. (DKGTypeOK /\ GenuineMessages /\ UnparsedIdHoldsNothing)
             /\ GossipIsPublished /\ DealingsOnly /\ [NetNext]_netVars
             => GossipIsPublished' /\ DealingsOnly'
      BY <1>1, GossipStep, DealingsOnlyStep
    <2>3. DealingsOnly => DeployedNeverStuck
      BY DEF DealingsOnly, DeployedNeverStuck, Stuck
    <2>4. NetSpec => [](DKGTypeOK /\ GenuineMessages /\ UnparsedIdHoldsNothing)
      BY LoopRefined, TypeCorrect, MessagesAreGenuine, UnparsedIdHolds, PTL DEF ImplementsDKG
    <2>. QED
      BY <2>1, <2>2, <2>3, <2>4, PTL DEF NetSpec
  <1>2. CASE ~Deployed
    <2>1. DeployedNeverStuck
      BY <1>2 DEF Deployed, DeployedNeverStuck
    <2>. QED
      BY <2>1, PTL
  <1>. QED
    BY <1>1, <1>2

----------------------------------------------------------------------------
(* What a node was asked for and what it has answered. *)

\* A step of the loop keeps the caches and counts in their types.
LEMMA NetTypeStep ==
    ASSUME DKGTypeOK, DKGTypeOK', NetTypeOK, [NetNext]_netVars
    PROVE  NetTypeOK'
  <1>0. GossipIsPublished' /\ MaxDeals \in Nat /\ Dealers \subseteq Nodes
    BY GossipStep, DKGAssumption DEF NetTypeOK, GossipIsPublished
  <1>1. ASSUME NEW n \in Dealers, RequestStart(n)
        PROVE  NetTypeOK'
    <2>1. /\ asked[n] \in Nat /\ asked[n] < MaxDeals /\ dealt[n] \in Nat
          /\ asked' = [asked EXCEPT ![n] = asked[n] + 1]
      BY <1>0, <1>1 DEF RequestStart, NetTypeOK, DKGTypeOK
    <2>2. asked' \in [Nodes -> 0..MaxDeals]
      BY <1>0, <2>1 DEF NetTypeOK
    <2>3. ASSUME NEW k \in Nodes
          PROVE  dealt[k] <= asked'[k]
      <3>1. dealt[k] <= asked[k] /\ dealt[k] \in Nat /\ asked[k] \in Nat
        BY <1>0 DEF NetTypeOK, DKGTypeOK
      <3>. QED
        BY <2>1, <3>1 DEF NetTypeOK
    <2>. QED
      BY <1>1, <2>2, <2>3 DEF RequestStart, NetTypeOK, dkgVars, nodeVars, gossipVars
  <1>2. ASSUME NEW n \in Dealers, ServeStartADKG(n)
        PROVE  NetTypeOK'
    <2>0. n \in Nodes
      BY <1>0
    <2>1. /\ dealt[n] \in Nat /\ asked[n] \in 0..MaxDeals /\ answered[n] \in Nat
          /\ answered[n] <= dealt[n] /\ dealt[n] < asked[n]
      BY <1>0, <1>2, <2>0 DEF ServeStartADKG, NetTypeOK, DKGTypeOK
    <2>2. /\ dealt' = [dealt EXCEPT ![n] = dealt[n] + 1]
          /\ published' = published
          /\ answered' \in {answered, [answered EXCEPT ![n] = answered[n] + 1]}
          /\ UNCHANGED <<gossip, seen, asked, told>>
      <3>1. UNCHANGED <<published, gossip, seen, asked, told>>
        BY <1>2 DEF ServeStartADKG, StartDkg, gossipVars
      <3>2. dealt' = [dealt EXCEPT ![n] = dealt[n] + 1]
        BY <1>2 DEF ServeStartADKG, StartDkg
      <3>3. answered' \in {answered, [answered EXCEPT ![n] = answered[n] + 1]}
        <4>1. answered = [answered EXCEPT ![n] = answered[n]]
          BY DEF NetTypeOK
        <4>2. \/ answered' = [answered EXCEPT ![n] = answered[n]]
              \/ answered' = [answered EXCEPT ![n] = answered[n] + 1]
          BY <1>2 DEF ServeStartADKG
        <4>. QED
          BY <4>1, <4>2
      <3>. QED
        BY <3>1, <3>2, <3>3
    <2>3. answered' \in [Nodes -> 0..MaxDeals]
      BY <1>0, <2>1, <2>2 DEF NetTypeOK
    <2>4. ASSUME NEW k \in Nodes
          PROVE  answered'[k] <= dealt'[k] /\ dealt'[k] <= asked[k]
      <3>1. CASE k = n
        <4>1. dealt'[n] = dealt[n] + 1 /\ answered'[n] \in {answered[n], answered[n] + 1}
          BY <2>0, <2>2 DEF NetTypeOK, DKGTypeOK
        <4>. QED
          BY <1>0, <2>1, <3>1, <4>1
      <3>2. CASE k # n
        BY <2>2, <3>2 DEF NetTypeOK, DKGTypeOK
      <3>. QED
        BY <3>1, <3>2
    <2>. QED
      BY <2>2, <2>3, <2>4 DEF NetTypeOK
  <1>3. ASSUME NEW n \in Nodes, HandleChannelMessage(n)
        PROVE  NetTypeOK'
    <2>1. UNCHANGED <<dealt, asked, answered, told>>
      BY <1>3 DEF HandleChannelMessage, TakeMessage, nodeVars, rpcVars
    <2>2. seen' \in [Nodes -> SUBSET gossip']
      BY <1>3 DEF HandleChannelMessage, Publish, gossipVars, NetTypeOK
    <2>. QED
      BY <1>0, <2>1, <2>2 DEF NetTypeOK, GossipIsPublished
  <1>4. ASSUME NEW n \in Nodes, NEW m \in gossip, ReceiveGossip(n, m)
        PROVE  NetTypeOK'
    <2>1. UNCHANGED <<dealt, asked, answered, told, gossip>>
      BY <1>4 DEF ReceiveGossip, HandleMessage, HandleShareDistribution, HandleShareValidation,
                  AcceptShare, dkgVars, nodeVars, rpcVars
    <2>2. seen' \in [Nodes -> SUBSET gossip']
      BY <1>4, <2>1 DEF ReceiveGossip, NetTypeOK
    <2>. QED
      BY <1>0, <2>1, <2>2 DEF NetTypeOK, GossipIsPublished
  <1>5. ASSUME NEW n \in Nodes, NEW m, ForgetSeen(n, m)
        PROVE  NetTypeOK'
    BY <1>5 DEF ForgetSeen, NetTypeOK, dkgVars, nodeVars, rpcVars
  <1>6. ASSUME NEW n \in Nodes, ServeGetDKGStatus(n)
        PROVE  NetTypeOK'
    BY <1>6 DEF ServeGetDKGStatus, NetTypeOK, DKGTypeOK, dkgVars, nodeVars, gossipVars
  <1>7. CASE UNCHANGED netVars
    BY <1>7 DEF netVars, NetTypeOK, dkgVars, nodeVars, gossipVars, rpcVars
  <1>. QED
    BY <1>1, <1>2, <1>3, <1>4, <1>5, <1>6, <1>7 DEF NetNext

\* The duplicate caches hold what gossipsub accepted, and no node serves more
\* requests than it was sent nor answers more than it serves.
THEOREM NetTypeCorrect == NetSpec => []NetTypeOK
  <1>1. NetInit => NetTypeOK
    BY DKGAssumption DEF NetInit, DKGInit, NetTypeOK
  <1>2. DKGTypeOK /\ DKGTypeOK' /\ NetTypeOK /\ [NetNext]_netVars => NetTypeOK'
    BY NetTypeStep
  <1>3. NetSpec => []DKGTypeOK
    BY LoopRefined, TypeCorrect, PTL DEF ImplementsDKG
  <1>. QED
    BY <1>1, <1>2, <1>3, PTL DEF NetSpec

\* A status other than New, told or not, means that a polynomial was drawn, and
\* the dealing of a suspended send is one that no answer stands for.
Backed(n) ==
    /\ status[n] = "Started" \/ told[n] = "Started" => dealt[n] # 0
    /\ IsSending(n) => \A k \in 1..dealt[n] :
          task[n].msg = Distribution(n, k) =>
             answered[n] < k /\ (k = 1 => told[n] # "Started")

LEMMA BackedStep ==
    ASSUME DKGTypeOK, NetTypeOK, \A n \in Nodes : Backed(n), [NetNext]_netVars
    PROVE  \A n \in Nodes : Backed(n)'
  <1>1. ASSUME NEW k \in Nodes, status'[k] = status[k], told'[k] = told[k], dealt'[k] = dealt[k],
               answered'[k] = answered[k], task'[k] = task[k]
        PROVE  Backed(k)'
    BY <1>1 DEF Backed, IsSending
  <1>2. ASSUME NEW n \in Dealers, RequestStart(n)
        PROVE  \A k \in Nodes : Backed(k)'
    BY <1>1, <1>2 DEF RequestStart, dkgVars, nodeVars
  <1>3. ASSUME NEW n \in Dealers, ServeStartADKG(n), NEW k \in Nodes
        PROVE  Backed(k)'
    <2>0. n \in Nodes /\ MaxDeals \in Nat
      BY DKGAssumption
    <2>1. PICK d \in Nat : d = dealt[n]
      BY <2>0 DEF DKGTypeOK
    <2>2. /\ task[n] = Idle
          /\ Broadcast(n, Distribution(n, d + 1))
          /\ dealt' = [dealt EXCEPT ![n] = d + 1]
          /\ Distribution(n, d + 1) \in Message
          /\ published' = published
      BY <1>3, <2>0, <2>1, StartEffect DEF ServeStartADKG
    <2>3. /\ status' = [status EXCEPT ![n] = "Started"]
          /\ told' = told
          /\ answered' = [answered EXCEPT ![n] = IF IsSending(n)' THEN @ ELSE @ + 1]
      BY <1>3 DEF ServeStartADKG, StartDkg
    <2>4. CASE k # n
      <3>1. task'[k] = task[k]
        BY <2>0, <2>2, <2>4, BroadcastEffect
      <3>. QED
        BY <1>1, <2>2, <2>3, <2>4, <3>1 DEF DKGTypeOK, NetTypeOK
    <2>5. CASE k = n
      <3>1. dealt'[n] = d + 1 /\ d + 1 # 0
        BY <2>0, <2>1, <2>2 DEF DKGTypeOK
      <3>2. ASSUME IsSending(n)', NEW j \in 1..(d + 1), task'[n].msg = Distribution(n, j)
            PROVE  answered'[n] < j /\ (j = 1 => told'[n] # "Started")
        <4>1. task' = [task EXCEPT ![n] = Sending(Distribution(n, d + 1))]
          BY <2>2, <3>2 DEF Broadcast, IsSending, Idle
        <4>2. task'[n].msg = Distribution(n, d + 1)
          BY <2>0, <4>1 DEF DKGTypeOK, Sending
        <4>3. j = d + 1
          <5>1. j \in Nat \ {0} /\ d + 1 \in Nat \ {0}
            OBVIOUS
          <5>. QED
            BY <2>0, <3>2, <4>2, <5>1, DistinctDealings
        <4>4. answered'[n] = answered[n] /\ answered[n] <= d /\ answered[n] \in Nat
          BY <2>0, <2>1, <2>3, <3>2 DEF NetTypeOK
        <4>5. d = 0 => told[n] # "Started"
          BY <2>0, <2>1 DEF Backed
        <4>. QED
          BY <2>3, <4>3, <4>4, <4>5
      <3>. QED
        BY <2>5, <3>1, <3>2 DEF Backed
    <2>. QED
      BY <2>4, <2>5
  <1>4. ASSUME NEW n \in Nodes, HandleChannelMessage(n)
        PROVE  \A k \in Nodes : Backed(k)'
    BY <1>1, <1>4 DEF HandleChannelMessage, TakeMessage, nodeVars, rpcVars
  <1>5. ASSUME NEW n \in Nodes, NEW m \in gossip, ReceiveGossip(n, m), NEW k \in Nodes
        PROVE  Backed(k)'
    <2>1. m \in published /\ DeliverAny(n) /\ UNCHANGED rpcVars
      BY <1>5 DEF ReceiveGossip, NetTypeOK, DeliverAny
    <2>2. ASSUME NEW v \in published, NEW share \in MyShare(n, v.shares),
                 task[n] = Idle, AcceptShare(n, v, share)
          PROVE  Backed(k)'
      <3>1. v.from \in Nodes
        BY MessageFields DEF DKGTypeOK
      <3>2. /\ Broadcast(n, ShareValidation(n, v.from))
            /\ UNCHANGED <<status, dealt, published>>
        BY <2>2 DEF AcceptShare
      <3>3. CASE k # n
        <4>1. task'[k] = task[k]
          BY <2>2, <3>1, <3>2, <3>3, ValidationType, BroadcastEffect
        <4>. QED
          BY <1>1, <2>1, <3>2, <4>1 DEF rpcVars
      <3>4. CASE k = n
        <4>1. ASSUME IsSending(n)', NEW j \in 1..dealt[n]
              PROVE  task'[n].msg # Distribution(n, j)
          <5>1. task' = [task EXCEPT ![n] = Sending(ShareValidation(n, v.from))]
            BY <2>2, <3>2, <4>1 DEF Broadcast, IsSending, Idle
          <5>2. task'[n].msg = ShareValidation(n, v.from)
            BY <5>1 DEF DKGTypeOK, Sending
          <5>3. ShareValidation(n, v.from).type = "ShareValidation"
            BY <3>1, ValidationType
          <5>4. Distribution(n, j).type = "ShareDistribution"
            BY DistributionTag
          <5>. QED
            BY <5>2, <5>3, <5>4
        <4>. QED
          BY <2>1, <3>2, <3>4, <4>1 DEF Backed, rpcVars
      <3>. QED
        BY <3>3, <3>4
    <2>3. CASE UNCHANGED dkgVars
      BY <1>1, <2>1, <2>3 DEF dkgVars, nodeVars, rpcVars
    <2>4. ASSUME NEW v, task[n] = Idle, HandleShareValidation(n, v)
          PROVE  Backed(k)'
      <3>1. /\ UNCHANGED <<status, dealt>>
            /\ task'[n] = ValidationsRead
            /\ \A j \in Nodes \ {n} : task'[j] = task[j]
        BY <2>4, RecordEffect DEF HandleShareValidation
      <3>. QED
        BY <1>1, <2>1, <3>1 DEF Backed, IsSending, ValidationsRead, rpcVars
    <2>. QED
      BY <2>1, <2>2, <2>3, <2>4, DeliverCases
  <1>6. ASSUME NEW n \in Nodes, NEW m, ForgetSeen(n, m)
        PROVE  \A k \in Nodes : Backed(k)'
    BY <1>1, <1>6 DEF ForgetSeen, dkgVars, nodeVars, rpcVars
  <1>7. ASSUME NEW n \in Nodes, ServeGetDKGStatus(n), NEW k \in Nodes
        PROVE  Backed(k)'
    <2>1. /\ task[n] = Idle
          /\ told' = [told EXCEPT ![n] = status[n]]
          /\ UNCHANGED <<status, dealt, task, answered>>
      BY <1>7 DEF ServeGetDKGStatus, dkgVars, nodeVars
    <2>2. ~IsSending(n)'
      BY <2>1 DEF IsSending, Idle
    <2>3. told'[n] = status[n] /\ \A j \in Nodes \ {n} : told'[j] = told[j]
      BY <2>1 DEF NetTypeOK
    <2>. QED
      BY <1>1, <2>1, <2>2, <2>3 DEF Backed
  <1>8. CASE UNCHANGED netVars
    BY <1>1, <1>8 DEF netVars, dkgVars, nodeVars, rpcVars
  <1>. QED
    BY <1>2, <1>3, <1>4, <1>5, <1>6, <1>7, <1>8 DEF NetNext

\* An agent that is told DKGStarted, or the status Started, is told so of
\* dealings that are in the channel or have left it.
THEOREM AnswersBacked == NetSpec => []AnswersAreBacked
  <1>1. NetInit => \A n \in Nodes : Backed(n)
    BY DEF NetInit, DKGInit, Backed, IsSending, Idle
  <1>2. DKGTypeOK /\ NetTypeOK /\ (\A n \in Nodes : Backed(n)) /\ [NetNext]_netVars
           => (\A n \in Nodes : Backed(n))'
    BY BackedStep
  <1>3. NetTypeOK /\ DealingsLeaveInOrder /\ (\A n \in Nodes : Backed(n)) => AnswersAreBacked
    <2>1. SUFFICES ASSUME NetTypeOK, DealingsLeaveInOrder, NEW n \in Nodes, Backed(n),
                          NEW k \in 1..dealt[n],
                          k <= answered[n] \/ (k = 1 /\ told[n] = "Started")
                   PROVE  Distribution(n, k) \in Range(channel[n]) \cup published
      BY DEF AnswersAreBacked
    <2>2. Distribution(n, k) \in published \cup Unpublished(n)
      BY <2>1 DEF DealingsLeaveInOrder
    <2>3. ~(IsSending(n) /\ task[n].msg = Distribution(n, k))
      <3>1. answered[n] \in Nat /\ k \in Nat
        BY <2>1, DKGAssumption DEF NetTypeOK
      <3>. QED
        BY <2>1, <3>1 DEF Backed
    <2>. QED
      BY <2>2, <2>3 DEF Unpublished
  <1>4. NetSpec => [](DKGTypeOK /\ DealingsLeaveInOrder)
    BY LoopRefined, TypeCorrect, DealingsInOrder, PTL DEF ImplementsDKG
  <1>. QED
    BY <1>1, <1>2, <1>3, <1>4, NetTypeCorrect, PTL DEF NetSpec

----------------------------------------------------------------------------
\* The two halves of RefusedLeavesNoTrace, for one node and one dealer.
SharePublished(n, d) == d # n /\ Distribution(d, shares[n][d].polynomial.draw) \in gossip

ValidationPublished(n, d) ==
    \E k \in Nodes \ {n} : d \in DOMAIN shares[k] /\ ShareValidation(k, d) \in gossip

\* What a node takes from gossip was accepted there, and was sent by another.
LEMMA RefusedStep ==
    ASSUME DKGTypeOK, GenuineMessages, ValidationIffShare, GossipIsPublished,
           RefusedLeavesNoTrace, [NetNext]_netVars
    PROVE  RefusedLeavesNoTrace'
  <1>0. ASSUME gossip \subseteq gossip', UNCHANGED <<shares, validations>>
        PROVE  RefusedLeavesNoTrace'
    BY <1>0 DEF RefusedLeavesNoTrace
  <1>1. ASSUME NEW n \in Dealers, RequestStart(n) \/ ServeStartADKG(n)
        PROVE  RefusedLeavesNoTrace'
    BY <1>0, <1>1 DEF RequestStart, ServeStartADKG, StartDkg, gossipVars, dkgVars, nodeVars
  <1>2. ASSUME NEW n \in Nodes, HandleChannelMessage(n)
        PROVE  RefusedLeavesNoTrace'
    BY <1>0, <1>2 DEF HandleChannelMessage, TakeMessage, Publish, gossipVars, nodeVars
  <1>3. ASSUME NEW n \in Nodes, NEW m \in gossip, m.from # n, gossip' = gossip,
               m.type = "ShareDistribution", NEW share \in MyShare(n, m.shares),
               AcceptShare(n, m, share)
        PROVE  RefusedLeavesNoTrace'
    <2>1. m \in published
      BY <1>3 DEF GossipIsPublished
    <2>2. share.polynomial.draw \in 1..dealt[m.from] /\ m.from \in Nodes
      BY <1>3, <2>1, FoundShare
    <2>3. m = Distribution(m.from, share.polynomial.draw)
      <3>1. m \in Messages
        BY <2>1 DEF Messages
      <3>2. PICK k \in 1..dealt[m.from] : m = Distribution(m.from, k)
        BY <1>3, <3>1 DEF GenuineMessages, Genuine, ShareValidation
      <3>3. dealt[m.from] \in Nat
        BY <2>2, DKGAssumption DEF DKGTypeOK
      <3>4. m.commitments = [dealer |-> m.from, draw |-> k]
        <4>1. k \in Nat \ {0}
          BY <3>3
        <4>. QED
          BY <2>2, <3>2, <4>1, DistributionType
      <3>5. m.commitments = share.polynomial
        BY <1>3, <2>1, FoundShare
      <3>6. share.polynomial.draw = k
        BY <3>4, <3>5
      <3>. QED
        BY <3>2, <3>6
    <2>4. /\ DOMAIN Insert(shares[n], m.from, share) = DOMAIN shares[n] \cup {m.from}
          /\ Insert(shares[n], m.from, share)[m.from] = share
          /\ \A d \in DOMAIN shares[n] \ {m.from} :
                Insert(shares[n], m.from, share)[d] = shares[n][d]
      BY DEF Insert
    <2>5. /\ shares'[n] = Insert(shares[n], m.from, share)
          /\ \A k \in Nodes \ {n} : shares'[k] = shares[k]
          /\ validations' = validations
      BY <1>3 DEF AcceptShare, DKGTypeOK
    <2>6. ASSUME NEW k \in Nodes, NEW d \in DOMAIN shares'[k]
          PROVE  SharePublished(k, d)'
      <3>1. CASE k = n /\ d = m.from
        <4>1. shares'[k][d] = share
          BY <2>4, <2>5, <3>1
        <4>. QED
          BY <1>3, <2>3, <3>1, <4>1 DEF SharePublished
      <3>2. CASE ~(k = n /\ d = m.from)
        <4>1. d \in DOMAIN shares[k] /\ shares'[k][d] = shares[k][d]
          BY <2>4, <2>5, <2>6, <3>2
        <4>2. SharePublished(k, d)
          BY <4>1 DEF RefusedLeavesNoTrace, SharePublished
        <4>. QED
          BY <1>3, <4>1, <4>2 DEF SharePublished
      <3>. QED
        BY <3>1, <3>2
    <2>7. ASSUME NEW k \in Nodes, NEW d \in DOMAIN validations'[k]
          PROVE  ValidationPublished(k, d)'
      <3>1. PICK j \in Nodes \ {k} : d \in DOMAIN shares[j] /\ ShareValidation(j, d) \in gossip
        BY <2>5, <2>7 DEF RefusedLeavesNoTrace
      <3>2. d \in DOMAIN shares'[j]
        BY <2>4, <2>5, <3>1
      <3>. QED
        BY <1>3, <3>1, <3>2 DEF ValidationPublished
    <2>. QED
      BY <2>6, <2>7 DEF RefusedLeavesNoTrace, SharePublished, ValidationPublished
  <1>4. ASSUME NEW n \in Nodes, NEW m \in gossip, m.from # n, gossip' = gossip,
               m.type = "ShareValidation", HandleShareValidation(n, m)
        PROVE  RefusedLeavesNoTrace'
    <2>1. m \in published
      BY <1>4 DEF GossipIsPublished
    <2>2. m = ShareValidation(m.from, m.to) /\ m.from \in Nodes /\ m.to \in Nodes
      <3>1. m \in Messages /\ m \in Message
        BY <2>1 DEF Messages, DKGTypeOK
      <3>2. Genuine(m)
        BY <3>1 DEF GenuineMessages
      <3>3. m.from \in Nodes /\ m.to \in Nodes
        BY <1>4, <3>1, MessageFields
      <3>. QED
        BY <1>4, <3>2, <3>3, DistributionTag DEF Genuine
    <2>3. m.to \in DOMAIN shares[m.from]
      <3>1. m \in Messages
        BY <2>1 DEF Messages
      <3>. QED
        BY <2>2, <3>1 DEF ValidationIffShare
    <2>4. /\ shares' = shares
          /\ DOMAIN validations'[n] = DOMAIN validations[n] \cup {m.to}
          /\ \A k \in Nodes \ {n} : validations'[k] = validations[k]
      BY <1>4 DEF HandleShareValidation, DKGTypeOK, Insert
    <2>5. ASSUME NEW k \in Nodes, NEW d \in DOMAIN validations'[k]
          PROVE  ValidationPublished(k, d)'
      <3>1. CASE k = n /\ d = m.to
        BY <1>4, <2>2, <2>3, <2>4, <3>1 DEF ValidationPublished
      <3>2. CASE ~(k = n /\ d = m.to)
        <4>1. d \in DOMAIN validations[k]
          BY <2>4, <2>5, <3>2
        <4>. QED
          BY <1>4, <2>4, <4>1 DEF RefusedLeavesNoTrace, ValidationPublished
      <3>. QED
        BY <3>1, <3>2
    <2>. QED
      BY <1>4, <2>4, <2>5 DEF RefusedLeavesNoTrace, ValidationPublished
  <1>5. ASSUME NEW n \in Nodes, NEW m \in gossip, ReceiveGossip(n, m)
        PROVE  RefusedLeavesNoTrace'
    <2>1. m.from # n /\ gossip' = gossip /\ HandleMessage(n, m)
      BY <1>5 DEF ReceiveGossip
    <2>2. CASE UNCHANGED dkgVars
      BY <1>0, <2>1, <2>2 DEF dkgVars, nodeVars
    <2>. QED
      BY <1>3, <1>4, <1>5, <2>1, <2>2 DEF HandleMessage, HandleShareDistribution
  <1>6. ASSUME NEW n \in Nodes, ServeGetDKGStatus(n) \/ \E m \in gossip : ForgetSeen(n, m)
        PROVE  RefusedLeavesNoTrace'
    BY <1>0, <1>6 DEF ServeGetDKGStatus, ForgetSeen, gossipVars, dkgVars, nodeVars
  <1>7. CASE UNCHANGED netVars
    BY <1>0, <1>7 DEF netVars, gossipVars, dkgVars, nodeVars
  <1>. QED
    BY <1>1, <1>2, <1>5, <1>6, <1>7 DEF NetNext

\* Every share held and every validation recorded is of a message gossipsub
\* accepted from another node: of a dealing it refuses nothing is left, although
\* the agent that asked for it has been answered DKGStarted.
THEOREM RefusedIsGone == NetSpec => []RefusedLeavesNoTrace
  <1>1. NetInit => GossipIsPublished /\ RefusedLeavesNoTrace
    BY DEF NetInit, DKGInit, EmptyMap, GossipIsPublished, RefusedLeavesNoTrace
  <1>2. (DKGTypeOK /\ GenuineMessages /\ ValidationIffShare)
           /\ GossipIsPublished /\ RefusedLeavesNoTrace /\ [NetNext]_netVars
           => GossipIsPublished' /\ RefusedLeavesNoTrace'
    BY GossipStep, RefusedStep
  <1>3. NetSpec => [](DKGTypeOK /\ GenuineMessages /\ ValidationIffShare)
    BY LoopRefined, TypeCorrect, MessagesAreGenuine, AnnouncedIffHeld, PTL DEF ImplementsDKG
  <1>. QED
    BY <1>1, <1>2, <1>3, PTL DEF NetSpec

----------------------------------------------------------------------------
(* The agents. *)

\* An agent that asks for a key generation asks a dealer.
LEMMA StartsAskDealers ==
    ASSUME NEW c \in Calls
    PROVE  Node(c) \in Nodes /\ (Req(c) = "StartADKG" => Node(c) \in Dealers)
  <1>1. PICK a \in Agents : c \in {a} \X DOMAIN Requests[a]
    BY DEF Calls
  <1>2. c[1] = a /\ c[2] \in DOMAIN Requests[a]
    BY <1>1
  <1>3. Req(c) \in Range(Requests[a])
    BY <1>2 DEF Req, Range
  <1>. QED
    BY <1>1, <1>2, <1>3, AgentAssumption DEF Node

\* A step of the agents and nodes is a step of NetworkLayer or changes nothing
\* of it.
LEMMA AgentStep ==
    ASSUME [AgentNext]_agentVars
    PROVE  [NetNext]_netVars
  <1>1. ASSUME NEW c \in Calls, Connect(c) \/ Hear(c) \/ Fail(c)
        PROVE  UNCHANGED netVars
    BY <1>1 DEF Connect, Hear, Fail
  <1>2. ASSUME NEW c \in Calls, Arrive(c)
        PROVE  [NetNext]_netVars
    BY <1>2, StartsAskDealers DEF Arrive, NetNext
  <1>3. ASSUME NEW c \in Calls, Serve(c)
        PROVE  [NetNext]_netVars
    BY <1>3, StartsAskDealers DEF Serve, NetNext
  <1>4. ASSUME NEW n \in Nodes,
               \/ HandleChannelMessage(n)
               \/ ServeGetDKGStatus(n)
               \/ \E m \in gossip : ReceiveGossip(n, m) \/ ForgetSeen(n, m)
        PROVE  NetNext
    BY <1>4 DEF NetNext
  <1>5. CASE UNCHANGED agentVars
    BY <1>5 DEF agentVars
  <1>. QED
    BY <1>1, <1>2, <1>3, <1>4, <1>5 DEF AgentNext

\* Whatever holds of NetworkLayer, whose agents ask and never wait, holds of
\* the nodes that these agents ask.
THEOREM AgentRefined == AgentSpec => ImplementsNetwork
  <1>1. AgentInit => NetInit
    BY DEF AgentInit
  <1>2. [AgentNext]_agentVars => [NetNext]_netVars
    BY AgentStep
  <1>. QED
    BY <1>1, <1>2, PTL DEF AgentSpec, ImplementsNetwork, NetSpec

----------------------------------------------------------------------------
(* The calls. *)

\* A response is one of RPCResponse, whatever the request.
LEMMA ResponseType ==
    ASSUME NEW req
    PROVE  /\ Response(req) \in RPCResponse
           /\ Response(req) # "none"
           /\ Response(req) = "ShareAccepted" <=> req = "SendAVSSShare"
  BY DEF Response, RPCResponse

\* The steps of one call, and what they leave alone.
LEMMA CallStep ==
    ASSUME CallsTyped, [AgentNext]_agentVars
    PROVE  \/ UNCHANGED <<call, answer, outcome>>
           \/ \E c \in Calls : Connect(c) \/ Arrive(c) \/ Serve(c) \/ Hear(c) \/ Fail(c)
  BY DEF AgentNext, agentVars

\* An answer belongs to an answered call and an outcome made of it too.
LEMMA CallsTypedStep ==
    ASSUME CallsTyped, [AgentNext]_agentVars
    PROVE  CallsTyped'
  <1>1. CASE UNCHANGED <<call, answer, outcome>>
    BY <1>1 DEF CallsTyped
  <1>2. ASSUME NEW c \in Calls, Connect(c)
        PROVE  CallsTyped'
    BY <1>2 DEF Connect, CallsTyped
  <1>3. ASSUME NEW c \in Calls, Arrive(c)
        PROVE  CallsTyped'
    BY <1>3 DEF Arrive, CallsTyped
  <1>4. ASSUME NEW c \in Calls, Serve(c)
        PROVE  CallsTyped'
    <2>1. CASE call' = [call EXCEPT ![c] = "serving"] /\ UNCHANGED <<answer, outcome>>
      BY <1>4, <2>1 DEF Serve, CallsTyped
    <2>2. CASE /\ call'   = [call EXCEPT ![c] = "answered"]
               /\ answer' = [answer EXCEPT ![c] = Response(Req(c))]
               /\ UNCHANGED outcome
      BY <2>2, ResponseType DEF CallsTyped
    <2>. QED
      BY <1>4, <2>1, <2>2 DEF Serve
  <1>5. ASSUME NEW c \in Calls, Hear(c)
        PROVE  CallsTyped'
    BY <1>5 DEF Hear, CallsTyped
  <1>6. ASSUME NEW c \in Calls, Fail(c)
        PROVE  CallsTyped'
    BY <1>6 DEF Fail, CallsTyped
  <1>. QED
    BY <1>1, <1>2, <1>3, <1>4, <1>5, <1>6, CallStep

\* Calls, answers and outcomes keep their types and belong together.
THEOREM AgentTypeCorrect == AgentSpec => []AgentTypeOK
  <1>1. AgentInit => CallsTyped
    BY DEF AgentInit, CallsTyped
  <1>2. CallsTyped /\ [AgentNext]_agentVars => CallsTyped'
    BY CallsTypedStep
  <1>3. AgentSpec => []NetTypeOK
    BY AgentRefined, NetTypeCorrect, PTL DEF ImplementsNetwork
  <1>4. NetTypeOK /\ CallsTyped => AgentTypeOK
    BY DEF AgentTypeOK
  <1>. QED
    BY <1>1, <1>2, <1>3, <1>4, PTL DEF AgentSpec

----------------------------------------------------------------------------
(* Peer ids. *)

\* No format delivers a peer id.
LEMMA PeerIdUndecodable ==
    ASSUME NEW format, NEW kinds, "PeerId" \in kinds
    PROVE  ~Decodes(format, kinds)
  <1>1. Serialized(format, "PeerId").length = 38
    BY DEF Serialized, Size
  <1>2. ~Deserializes("PeerId", Serialized(format, "PeerId"))
    BY <1>1 DEF Deserializes, PeerIdVisitor
  <1>. QED
    BY <1>2 DEF Decodes

\* A request with a peer id never reaches the loop, and no response with one
\* is received.
PeerIdsStop ==
    \A c \in Calls :
       /\ "PeerId" \in RequestKinds(Req(c)) => call[c] \in {"unsent", "sent"}
       /\ "PeerId" \in ResponseKinds(Response(Req(c))) => outcome[c] # "response"

LEMMA PeerIdsStopStep ==
    ASSUME CallsTyped, PeerIdsStop, [AgentNext]_agentVars
    PROVE  PeerIdsStop'
  <1>1. CASE UNCHANGED <<call, answer, outcome>>
    BY <1>1 DEF PeerIdsStop
  <1>2. ASSUME NEW c \in Calls, Connect(c)
        PROVE  PeerIdsStop'
    BY <1>2 DEF Connect, PeerIdsStop, CallsTyped
  <1>3. ASSUME NEW c \in Calls, Arrive(c)
        PROVE  PeerIdsStop'
    <2>1. "PeerId" \notin RequestKinds(Req(c))
      BY <1>3, PeerIdUndecodable DEF Arrive
    <2>. QED
      BY <1>3, <2>1 DEF Arrive, PeerIdsStop, CallsTyped
  <1>4. ASSUME NEW c \in Calls, Serve(c)
        PROVE  PeerIdsStop'
    <2>1. "PeerId" \notin RequestKinds(Req(c))
      BY <1>4 DEF Serve, PeerIdsStop
    <2>2. \A d \in Calls \ {c} : call'[d] = call[d]
      BY <1>4 DEF Serve, CallsTyped
    <2>3. outcome' = outcome
      BY <1>4 DEF Serve
    <2>. QED
      BY <2>1, <2>2, <2>3 DEF PeerIdsStop
  <1>5. ASSUME NEW c \in Calls, Hear(c)
        PROVE  PeerIdsStop'
    <2>1. answer[c] = Response(Req(c))
      BY <1>5 DEF Hear, CallsTyped
    <2>2. "PeerId" \in ResponseKinds(Response(Req(c))) => outcome'[c] = "undecodable"
      BY <1>5, <2>1, PeerIdUndecodable DEF Hear, CallsTyped
    <2>3. \A d \in Calls \ {c} : outcome'[d] = outcome[d]
      BY <1>5 DEF Hear, CallsTyped
    <2>4. call' = call
      BY <1>5 DEF Hear
    <2>. QED
      BY <2>2, <2>3, <2>4 DEF PeerIdsStop
  <1>6. ASSUME NEW c \in Calls, Fail(c)
        PROVE  PeerIdsStop'
    BY <1>6 DEF Fail, PeerIdsStop, CallsTyped
  <1>. QED
    BY <1>1, <1>2, <1>3, <1>4, <1>5, <1>6, CallStep

\* No call that carries a peer id ends with a response, for any agents and
\* requests: the length of the id decides it alone.
THEOREM PeerIdsLost == AgentSpec => []PeerIdsNeverArrive
  <1>1. AgentInit => CallsTyped /\ PeerIdsStop
    BY DEF AgentInit, CallsTyped, PeerIdsStop
  <1>2. CallsTyped /\ PeerIdsStop /\ [AgentNext]_agentVars => CallsTyped' /\ PeerIdsStop'
    BY CallsTypedStep, PeerIdsStopStep
  <1>3. CallsTyped /\ PeerIdsStop => PeerIdsNeverArrive
    <2>1. SUFFICES ASSUME CallsTyped, PeerIdsStop, NEW c \in Calls,
                          "PeerId" \in RequestKinds(Req(c)) \cup ResponseKinds(Response(Req(c)))
                   PROVE  outcome[c] # "response" /\ answer[c] # "ShareAccepted"
      BY DEF PeerIdsNeverArrive
    <2>2. outcome[c] # "response"
      BY <2>1 DEF PeerIdsStop, CallsTyped
    <2>3. answer[c] # "ShareAccepted"
      <3>1. CASE Req(c) = "SendAVSSShare"
        <4>1. "PeerId" \in RequestKinds(Req(c))
          BY <3>1 DEF RequestKinds
        <4>2. call[c] # "answered"
          BY <4>1, <2>1 DEF PeerIdsStop
        <4>. QED
          BY <4>2, <2>1 DEF CallsTyped
      <3>2. CASE Req(c) # "SendAVSSShare"
        BY <3>2, <2>1, ResponseType DEF CallsTyped
      <3>. QED
        BY <3>1, <3>2
    <2>. QED
      BY <2>2, <2>3
  <1>. QED
    BY <1>1, <1>2, <1>3, PTL DEF AgentSpec

----------------------------------------------------------------------------
(* Dealings and calls. *)

\* There are finitely many calls.
LEMMA CallsFinite == IsFiniteSet(Calls)
  <1>1. ASSUME NEW a \in Agents
        PROVE  IsFiniteSet({a} \X DOMAIN Requests[a])
    <2>1. Requests[a] \in Seq(RPCRequest)
      BY AgentAssumption
    <2>2. DOMAIN Requests[a] = 1..Len(Requests[a]) /\ Len(Requests[a]) \in Nat
      BY <2>1
    <2>3. IsFiniteSet(DOMAIN Requests[a])
      BY <2>2, FS_Interval
    <2>4. IsFiniteSet({a})
      BY FS_Singleton
    <2>. QED
      BY <2>3, <2>4, FS_Product
  <1>2. IsFiniteSet({{a} \X DOMAIN Requests[a] : a \in Agents})
    <2>. DEFINE f == [a \in Agents |-> {a} \X DOMAIN Requests[a]]
    <2>1. f \in Surjection(Agents, {{a} \X DOMAIN Requests[a] : a \in Agents})
      BY DEF Surjection
    <2>2. IsFiniteSet(Agents)
      BY AgentAssumption
    <2>. QED
      BY <2>1, <2>2, FS_Surjection
  <1>. QED
    BY <1>1, <1>2, FS_UNION DEF Calls

\* Serving a start is the only step that draws a polynomial or that adds to
\* the starts served; it does both, at one node.
LEMMA ServeStarts ==
    ASSUME DKGTypeOK, CallsTyped, NEW c \in Calls, Serve(c), Req(c) = "StartADKG"
    PROVE  /\ dealt' = [dealt EXCEPT ![Node(c)] = @ + 1]
           /\ c \notin Started(Node(c))
           /\ Started(Node(c))' = Started(Node(c)) \cup {c}
           /\ \A n \in Nodes \ {Node(c)} : Started(n)' = Started(n)
  <1>1. dealt' = [dealt EXCEPT ![Node(c)] = @ + 1] /\ call[c] = "arrived"
    BY DEF Serve, ServeStartADKG, StartDkg
  <1>2. /\ call'[c] \in {"serving", "answered"}
        /\ \A d \in Calls \ {c} : call'[d] = call[d]
    BY DEF Serve, CallsTyped
  <1>3. c \notin Started(Node(c))
    BY <1>1 DEF Started
  <1>4. Started(Node(c))' = Started(Node(c)) \cup {c}
    BY <1>2 DEF Started
  <1>5. \A n \in Nodes \ {Node(c)} : Started(n)' = Started(n)
    BY <1>2 DEF Started
  <1>. QED
    BY <1>1, <1>3, <1>4, <1>5

LEMMA DealingsHaveCallsStep ==
    ASSUME DKGTypeOK, CallsTyped, DealingsHaveCalls, GossipIsPublished, [AgentNext]_agentVars
    PROVE  DealingsHaveCalls'
  <1>1. ASSUME dealt' = dealt, \A c \in Calls : Req(c) = "StartADKG" =>
                 (call'[c] \in {"serving", "answered"} <=> call[c] \in {"serving", "answered"})
        PROVE  DealingsHaveCalls'
    <2>1. \A n \in Dealers : Started(n)' = Started(n)
      BY <1>1 DEF Started
    <2>. QED
      BY <1>1, <2>1 DEF DealingsHaveCalls
  <1>2. ASSUME NEW c \in Calls, Connect(c) \/ Hear(c) \/ Fail(c)
        PROVE  DealingsHaveCalls'
    <2>1. dealt' = dealt
      BY <1>2 DEF Connect, Hear, Fail, netVars, dkgVars, nodeVars
    <2>. QED
      BY <1>1, <1>2, <2>1 DEF Connect, Hear, Fail, CallsTyped
  <1>3. ASSUME NEW c \in Calls, Arrive(c)
        PROVE  DealingsHaveCalls'
    <2>1. dealt' = dealt
      BY <1>3 DEF Arrive, RequestStart, netVars, dkgVars, nodeVars
    <2>. QED
      BY <1>1, <1>3, <2>1 DEF Arrive, CallsTyped
  <1>4. ASSUME NEW c \in Calls, Serve(c)
        PROVE  DealingsHaveCalls'
    <2>1. CASE Req(c) # "StartADKG"
      <3>1. dealt' = dealt
        BY <1>4, <2>1 DEF Serve, netVars, dkgVars, nodeVars
      <3>. QED
        BY <1>1, <1>4, <2>1, <3>1 DEF Serve, CallsTyped
    <2>2. CASE Req(c) = "StartADKG"
      <3>1. /\ dealt' = [dealt EXCEPT ![Node(c)] = @ + 1]
            /\ c \notin Started(Node(c))
            /\ Started(Node(c))' = Started(Node(c)) \cup {c}
            /\ \A n \in Nodes \ {Node(c)} : Started(n)' = Started(n)
        BY <1>4, <2>2, ServeStarts
      <3>2. Node(c) \in Nodes /\ dealt \in [Nodes -> 0..MaxDeals] /\ Dealers \subseteq Nodes
        BY StartsAskDealers, DKGAssumption DEF DKGTypeOK
      <3>3. IsFiniteSet(Started(Node(c)))
        BY CallsFinite, FS_Subset DEF Started
      <3>4. Cardinality(Started(Node(c)) \cup {c}) = Cardinality(Started(Node(c))) + 1
        BY <3>1, <3>3, FS_AddElement
      <3>5. dealt'[Node(c)] = dealt[Node(c)] + 1
            /\ \A n \in Nodes \ {Node(c)} : dealt'[n] = dealt[n]
        BY <3>1, <3>2
      <3>. QED
        BY <3>1, <3>2, <3>4, <3>5 DEF DealingsHaveCalls
    <2>. QED
      BY <2>1, <2>2
  <1>5. ASSUME NEW n \in Nodes,
               \/ HandleChannelMessage(n)
               \/ ServeGetDKGStatus(n)
               \/ \E m \in gossip : ReceiveGossip(n, m) \/ ForgetSeen(n, m),
               UNCHANGED <<call, answer, outcome>>
        PROVE  DealingsHaveCalls'
    <2>1. dealt' = dealt
      <3>1. CASE HandleChannelMessage(n)
        BY <3>1 DEF HandleChannelMessage, TakeMessage, nodeVars
      <3>2. CASE ServeGetDKGStatus(n) \/ \E m \in gossip : ForgetSeen(n, m)
        BY <3>2 DEF ServeGetDKGStatus, ForgetSeen, dkgVars, nodeVars
      <3>3. ASSUME NEW m \in gossip, ReceiveGossip(n, m)
            PROVE  dealt' = dealt
        <4>1. DeliverAny(n)
          BY <3>3 DEF ReceiveGossip, GossipIsPublished, DeliverAny
        <4>. QED
          BY <4>1, DeliverCases DEF AcceptShare, HandleShareValidation, dkgVars, nodeVars
      <3>. QED
        BY <1>5, <3>1, <3>2, <3>3
    <2>. QED
      BY <1>1, <1>5, <2>1
  <1>6. CASE UNCHANGED agentVars
    BY <1>1, <1>6 DEF agentVars, netVars, dkgVars, nodeVars
  <1>. QED
    BY <1>2, <1>3, <1>4, <1>5, <1>6 DEF AgentNext

\* A node has drawn exactly one polynomial for each start served, whatever
\* agents give up on, lose and ask again.
THEOREM OneDealingPerCall == AgentSpec => []DealingsHaveCalls
  <1>1. AgentInit => CallsTyped /\ DealingsHaveCalls
    <2>1. SUFFICES ASSUME AgentInit
                   PROVE  CallsTyped /\ DealingsHaveCalls
      OBVIOUS
    <2>2. CallsTyped
      BY <2>1 DEF AgentInit, CallsTyped
    <2>3. \A n \in Dealers : Started(n) = {}
      BY <2>1 DEF AgentInit, Started
    <2>4. \A n \in Dealers : dealt[n] = 0
      BY <2>1, DKGAssumption DEF AgentInit, NetInit, DKGInit
    <2>. QED
      BY <2>2, <2>3, <2>4, FS_EmptySet DEF DealingsHaveCalls
  <1>2. CallsTyped /\ DealingsHaveCalls /\ (DKGTypeOK /\ GossipIsPublished) /\ [AgentNext]_agentVars
           => CallsTyped' /\ DealingsHaveCalls'
    BY CallsTypedStep, DealingsHaveCallsStep
  <1>3. AgentSpec => [](DKGTypeOK /\ GossipIsPublished)
    <2>1. NetInit => GossipIsPublished
      BY DEF NetInit, GossipIsPublished
    <2>2. GossipIsPublished /\ [NetNext]_netVars => GossipIsPublished'
      BY GossipStep
    <2>3. NetSpec => []GossipIsPublished
      BY <2>1, <2>2, PTL DEF NetSpec
    <2>. QED
      BY <2>3, AgentRefined, LoopRefined, TypeCorrect, PTL DEF ImplementsNetwork, ImplementsDKG
  <1>. QED
    BY <1>1, <1>2, <1>3, PTL DEF AgentSpec

\* Every message of the key generation decodes, whoever published it.
THEOREM GossipAlwaysDecodes == AgentSpec => []GossipDecodes
  <1>1. \A kind \in {"Scalar", "G1"} : Deserializes(kind, Serialized("json", kind))
    BY DEF Deserializes, Serialized, Size, ScalarVisitor, G1Visitor
  <1>2. \A m : GossipKinds(m) \subseteq {"Scalar", "G1"}
    BY DEF GossipKinds
  <1>3. GossipDecodes
    BY <1>1, <1>2 DEF GossipDecodes, Decodes
  <1>. QED
    BY <1>3, PTL

----------------------------------------------------------------------------
(* The whole stack. *)

\* What dkg/mod.rs promises it still promises inside the event loop, asked by
\* agents that time out and ask again: shares match commitments, validations
\* are announced exactly for them, dealings leave in order, nothing refused is
\* held, and the key generation as a whole is a Dealing (network/mod.rs:223-316, bin/ptp.rs).
THEOREM AgentsGetDealings ==
    AgentSpec => /\ [](SharesMatchDealings /\ ValidationIffShare /\ GenuineMessages)
                 /\ [](DealingsLeaveInOrder /\ CompletionNeverReached)
                 /\ []RefusedLeavesNoTrace
                 /\ ImplementsDealing
  <1>1. AgentSpec => NetSpec
    BY AgentRefined DEF ImplementsNetwork
  <1>2. NetSpec => DKGSpec
    BY LoopRefined DEF ImplementsDKG
  <1>. QED
    BY <1>1, <1>2, SharesMatch, AnnouncedIffHeld, MessagesAreGenuine, DealingsInOrder,
       NeverCompletes, RefusedIsGone, DealingRefined, PTL

=============================================================================
