--------------------------- MODULE DKGNodeProofs ---------------------------
(* The safety properties of DKGNode hold for every value of its constants. *)
EXTENDS DKGNode, DataLemmas, SequenceTheorems, TLAPS

(***************************************************************************)
(* The data: what the message constructors and accessors return.           *)
(***************************************************************************)

\* A node's dealing of a polynomial it drew is a message of the right type.
LEMMA DistributionType ==
    ASSUME NEW n \in Nodes, NEW k \in Nat \ {0}
    PROVE  /\ Distribution(n, k) \in Message
           /\ Distribution(n, k).type = "ShareDistribution"
           /\ Distribution(n, k).from = n
           /\ Distribution(n, k).commitments = [dealer |-> n, draw |-> k]
           /\ Distribution(n, k).shares =
                 {[index |-> i, polynomial |-> [dealer |-> n, draw |-> k]] : i \in 1..TotalNodes}
  BY DKGAssumption DEF Distribution, ShareDistribution, GenerateShares, GenerateCommitments,
         Message, KeyShare, Polynomial

\* Whatever was drawn, a dealing is tagged as one and bears its sender's id.
LEMMA DistributionTag ==
    ASSUME NEW n, NEW k
    PROVE  /\ Distribution(n, k).type = "ShareDistribution"
           /\ Distribution(n, k).from = n
  BY DEF Distribution, ShareDistribution

\* A validation is a message of the right type.
LEMMA ValidationType ==
    ASSUME NEW n \in Nodes, NEW d \in Nodes
    PROVE  /\ ShareValidation(n, d) \in Message
           /\ ShareValidation(n, d).type = "ShareValidation"
           /\ ShareValidation(n, d).from = n
           /\ ShareValidation(n, d).to = d
  BY DEF ShareValidation, Message

\* The fields of a message have the types of the enum's variants.
LEMMA MessageFields ==
    ASSUME NEW m \in Message
    PROVE  /\ m.from \in Nodes
           /\ m.type = "ShareDistribution" =>
                 m.shares \in SUBSET KeyShare /\ m.commitments \in Polynomial
           /\ m.type = "ShareValidation" => m.to \in Nodes /\ m.is_valid \in BOOLEAN
  BY DEF Message

(***************************************************************************)
(* The channel: what sending, reading and resuming do to the messages      *)
(* under way.                                                              *)
(***************************************************************************)

\* A broadcast, blocked or not, adds its message to what the node has under
\* way and nothing else.
LEMMA BroadcastEffect ==
    ASSUME DKGTypeOK, NEW n \in Nodes, NEW msg \in Message, task[n] = Idle,
           Broadcast(n, msg), published' = published
    PROVE  /\ channel' \in [Nodes -> Seq(Message)]
           /\ task' \in [Nodes -> Task]
           /\ \A k \in Nodes \ {n} : channel'[k] = channel[k] /\ task'[k] = task[k]
           /\ Unpublished(n)' = Unpublished(n) \cup {msg}
           /\ \A k \in Nodes \ {n} : Unpublished(k)' = Unpublished(k)
           /\ Messages' = Messages \cup {msg}
  <1>1. /\ channel \in [Nodes -> Seq(Message)]
        /\ task \in [Nodes -> Task]
    BY DEF DKGTypeOK
  <1>2. /\ channel' \in [Nodes -> Seq(Message)]
        /\ task' \in [Nodes -> Task]
        /\ \A k \in Nodes \ {n} : channel'[k] = channel[k] /\ task'[k] = task[k]
        /\ Unpublished(n)' = Unpublished(n) \cup {msg}
    <2>1. CASE Len(channel[n]) < Capacity /\ channel' = [channel EXCEPT ![n] = Append(@, msg)]
               /\ UNCHANGED task
      <3>1. /\ Append(channel[n], msg) \in Seq(Message)
            /\ Range(Append(channel[n], msg)) = Range(channel[n]) \cup {msg}
        BY <1>1, RangeAppend
      <3>2. channel'[n] = Append(channel[n], msg)
        BY <1>1, <2>1
      <3>. QED
        BY <1>1, <2>1, <3>1, <3>2 DEF Unpublished, IsSending
    <2>2. CASE task' = [task EXCEPT ![n] = Sending(msg)] /\ UNCHANGED channel
      <3>1. /\ Sending(msg) \in Task
            /\ Sending(msg).at = "send"
            /\ Sending(msg).msg = msg
            /\ Idle.at # "send"
        BY DEF Sending, Task, Idle
      <3>2. task'[n] = Sending(msg)
        BY <1>1, <2>2
      <3>. QED
        BY <1>1, <2>2, <3>1, <3>2 DEF Unpublished, IsSending
    <2>. QED
      BY <2>1, <2>2 DEF Broadcast
  <1>3. \A k \in Nodes \ {n} : Unpublished(k)' = Unpublished(k)
    BY <1>2 DEF Unpublished, IsSending
  <1>4. Messages' = Messages \cup {msg}
    BY <1>2, <1>3 DEF Messages
  <1>. QED
    BY <1>2, <1>3, <1>4

\* Reading a message from a channel keeps every message somewhere.
LEMMA TakeEffect ==
    ASSUME DKGTypeOK, NEW n \in Nodes, TakeMessage(n)
    PROVE  /\ channel' \in [Nodes -> Seq(Message)]
           /\ published' \subseteq Message
           /\ published' = published \cup {Head(channel[n])}
           /\ Unpublished(n) = Unpublished(n)' \cup {Head(channel[n])}
           /\ \A k \in Nodes \ {n} : Unpublished(k)' = Unpublished(k)
           /\ Messages' = Messages
  <1>1. channel \in [Nodes -> Seq(Message)] /\ published \subseteq Message
    BY DEF DKGTypeOK
  <1>2. /\ channel' = [channel EXCEPT ![n] = Tail(@)]
        /\ published' = published \cup {Head(channel[n])}
        /\ task' = task
        /\ channel[n] # <<>>
    BY DEF TakeMessage
  <1>3. /\ Head(channel[n]) \in Message
        /\ Tail(channel[n]) \in Seq(Message)
        /\ Range(channel[n]) = {Head(channel[n])} \cup Range(Tail(channel[n]))
    BY <1>1, <1>2, RangeTail
  <1>4. /\ channel' \in [Nodes -> Seq(Message)]
        /\ channel'[n] = Tail(channel[n])
        /\ \A k \in Nodes \ {n} : channel'[k] = channel[k]
    BY <1>1, <1>2, <1>3
  <1>5. Unpublished(n) = Unpublished(n)' \cup {Head(channel[n])}
    BY <1>2, <1>3, <1>4 DEF Unpublished, IsSending
  <1>6. \A k \in Nodes \ {n} : Unpublished(k)' = Unpublished(k)
    BY <1>2, <1>4 DEF Unpublished, IsSending
  <1>7. Messages' = Messages
    BY <1>2, <1>5, <1>6 DEF Messages
  <1>. QED
    BY <1>1, <1>2, <1>3, <1>4, <1>5, <1>6, <1>7

\* A sender that gets room moves its message into the channel.
LEMMA ResumeEffect ==
    ASSUME DKGTypeOK, NEW n \in Nodes, ResumeSend(n)
    PROVE  /\ channel' \in [Nodes -> Seq(Message)]
           /\ task' \in [Nodes -> Task]
           /\ \A k \in Nodes \ {n} : task'[k] = task[k]
           /\ \A k \in Nodes : Unpublished(k)' = Unpublished(k)
           /\ Messages' = Messages
  <1>1. channel \in [Nodes -> Seq(Message)] /\ task \in [Nodes -> Task]
    BY DEF DKGTypeOK
  <1>2. /\ task[n].at = "send"
        /\ channel' = [channel EXCEPT ![n] = Append(@, task[n].msg)]
        /\ task' = [task EXCEPT ![n] = Idle]
        /\ published' = published
    BY DEF ResumeSend, IsSending
  <1>3. task[n].msg \in Message
    BY <1>1, <1>2 DEF Task
  <1>4. /\ Append(channel[n], task[n].msg) \in Seq(Message)
        /\ Range(Append(channel[n], task[n].msg)) = Range(channel[n]) \cup {task[n].msg}
    BY <1>1, <1>3, RangeAppend
  <1>5. Idle \in Task /\ Idle.at # "send"
    BY DEF Idle, Task
  <1>6. /\ channel' \in [Nodes -> Seq(Message)]
        /\ task' \in [Nodes -> Task]
        /\ channel'[n] = Append(channel[n], task[n].msg)
        /\ task'[n] = Idle
        /\ \A k \in Nodes \ {n} : channel'[k] = channel[k] /\ task'[k] = task[k]
    BY <1>1, <1>2, <1>4, <1>5
  <1>7. \A k \in Nodes : Unpublished(k)' = Unpublished(k)
    BY <1>2, <1>4, <1>5, <1>6 DEF Unpublished, IsSending
  <1>8. Messages' = Messages
    BY <1>2, <1>7 DEF Messages
  <1>. QED
    BY <1>6, <1>7, <1>8

(***************************************************************************)
(* The actions.                                                            *)
(***************************************************************************)

\* The three things a handler can do with a published message: store a share
\* and announce it, ignore the distribution, or record a validation.
LEMMA DeliverCases ==
    ASSUME NEW n \in Nodes, DeliverAny(n)
    PROVE  \/ \E m \in published : \E share \in MyShare(n, m.shares) :
                /\ m.type = "ShareDistribution"
                /\ m.from # n
                /\ task[n] = Idle
                /\ AcceptShare(n, m, share)
           \/ UNCHANGED dkgVars
           \/ \E m \in published :
                /\ m.type = "ShareValidation"
                /\ task[n] = Idle
                /\ HandleShareValidation(n, m)
  BY DEF DeliverAny, HandleMessage, HandleShareDistribution

\* start_dkg: one more polynomial drawn, its dealing under way.
LEMMA StartEffect ==
    ASSUME DKGTypeOK, NEW n \in Nodes, StartDkg(n)
    PROVE  /\ task[n] = Idle
           /\ dealt[n] + 1 \in 1..MaxDeals
           /\ dealt' = [dealt EXCEPT ![n] = dealt[n] + 1]
           /\ Distribution(n, dealt[n] + 1) \in Message
           /\ Broadcast(n, Distribution(n, dealt[n] + 1))
           /\ UNCHANGED <<shares, commitments, validations, published>>
  <1>1. dealt \in [Nodes -> 0..MaxDeals] /\ dealt[n] < MaxDeals /\ MaxDeals \in Nat
    BY DKGAssumption DEF DKGTypeOK, StartDkg
  <1>2. dealt[n] + 1 \in 1..MaxDeals /\ dealt[n] + 1 \in Nat \ {0}
    BY <1>1
  <1>3. dealt'[n] = dealt[n] + 1
    BY <1>1 DEF StartDkg
  <1>4. Distribution(n, dealt[n] + 1) \in Message
    BY <1>2, DistributionType
  <1>. QED
    BY <1>2, <1>3, <1>4 DEF StartDkg

\* A step of DKGNode keeps every value in its type.
LEMMA TypeStep ==
    ASSUME DKGTypeOK, [DKGNext]_dkgVars
    PROVE  DKGTypeOK'
  <1>1. ASSUME NEW n \in Dealers, StartDkg(n)
        PROVE  DKGTypeOK'
    <2>1. n \in Nodes
      BY DKGAssumption
    <2>2. /\ channel' \in [Nodes -> Seq(Message)]
          /\ task' \in [Nodes -> Task]
      BY <1>1, <2>1, StartEffect, BroadcastEffect DEF StartDkg
    <2>3. dealt[n] + 1 \in 0..MaxDeals /\ dealt' = [dealt EXCEPT ![n] = dealt[n] + 1]
      BY <1>1, <2>1, StartEffect
    <2>4. dealt' \in [Nodes -> 0..MaxDeals]
      BY <2>3 DEF DKGTypeOK
    <2>5. status' \in [Nodes -> {"New", "Started"}]
      BY <1>1 DEF StartDkg, DKGTypeOK
    <2>. QED
      BY <1>1, <2>2, <2>4, <2>5 DEF StartDkg, DKGTypeOK
  <1>2. ASSUME NEW n \in Nodes, DeliverAny(n)
        PROVE  DKGTypeOK'
    <2>1. ASSUME NEW m \in published, NEW share \in MyShare(n, m.shares),
                 m.type = "ShareDistribution",
                 task[n] = Idle,
                 AcceptShare(n, m, share)
          PROVE  DKGTypeOK'
      <3>1. /\ m.from \in Nodes
            /\ share \in KeyShare
            /\ m.commitments \in Polynomial
        BY <2>1, MessageFields DEF MyShare, DKGTypeOK
      <3>2. /\ IsHashMap(Insert(shares[n], m.from, share), Nodes, KeyShare)
            /\ IsHashMap(Insert(commitments[n], m.from, m.commitments), Nodes, Polynomial)
        BY <3>1, InsertType DEF DKGTypeOK
      <3>3. /\ channel' \in [Nodes -> Seq(Message)]
            /\ task' \in [Nodes -> Task]
        BY <2>1, <3>1, ValidationType, BroadcastEffect DEF AcceptShare
      <3>. QED
        BY <2>1, <3>2, <3>3 DEF AcceptShare, DKGTypeOK
    <2>2. CASE UNCHANGED dkgVars
      BY <2>2 DEF dkgVars, nodeVars, DKGTypeOK
    <2>3. ASSUME NEW m \in published, m.type = "ShareValidation", HandleShareValidation(n, m)
          PROVE  DKGTypeOK'
      <3>1. m.to \in Nodes /\ m.is_valid \in BOOLEAN
        BY <2>3, MessageFields DEF DKGTypeOK
      <3>2. EntryOr(validations[n], m.to, <<>>) \in Seq(BOOLEAN)
        BY <2>3, EntryOrType DEF DKGTypeOK
      <3>3. Append(EntryOr(validations[n], m.to, <<>>), m.is_valid) \in Seq(BOOLEAN)
        BY <3>1, <3>2
      <3>4. IsHashMap(Insert(validations[n], m.to,
                  Append(EntryOr(validations[n], m.to, <<>>), m.is_valid)), Nodes, Seq(BOOLEAN))
        BY <3>1, <3>3, InsertType DEF DKGTypeOK
      <3>5. ValidationsRead \in Task
        BY DEF ValidationsRead, Task
      <3>. QED
        BY <2>3, <3>4, <3>5 DEF HandleShareValidation, DKGTypeOK
    <2>. QED
      BY <1>2, <2>1, <2>2, <2>3, DeliverCases
  <1>3. ASSUME NEW n \in Nodes, TakeMessage(n)
        PROVE  DKGTypeOK'
    BY <1>3, TakeEffect DEF TakeMessage, nodeVars, DKGTypeOK
  <1>4. ASSUME NEW n \in Nodes, ResumeSend(n)
        PROVE  DKGTypeOK'
    BY <1>4, ResumeEffect DEF ResumeSend, nodeVars, DKGTypeOK
  <1>5. CASE UNCHANGED dkgVars
    BY <1>5 DEF dkgVars, nodeVars, DKGTypeOK
  <1>. QED
    BY <1>1, <1>2, <1>3, <1>4, <1>5 DEF DKGNext

\* The values of every map, queue and suspended handler keep their types.
THEOREM TypeCorrect == DKGSpec => []DKGTypeOK
  <1>1. DKGInit => DKGTypeOK
    BY DKGAssumption, EmptyMapUnique
       DEF DKGInit, DKGTypeOK, EmptyMap, IsHashMap, Idle, Task
  <1>2. DKGTypeOK /\ [DKGNext]_dkgVars => DKGTypeOK'
    BY TypeStep
  <1>. QED
    BY <1>1, <1>2, PTL DEF DKGSpec

(***************************************************************************)
(* The inductive invariant, one lemma per conjunct.                        *)
(***************************************************************************)

\* Recording a validation sends nothing.
LEMMA RecordEffect ==
    ASSUME DKGTypeOK, NEW n \in Nodes, NEW m, task[n] = Idle, HandleShareValidation(n, m)
    PROVE  /\ \A k \in Nodes : Unpublished(k)' = Unpublished(k)
           /\ Messages' = Messages
           /\ task'[n] = ValidationsRead
           /\ \A k \in Nodes \ {n} : task'[k] = task[k]
  <1>1. task \in [Nodes -> Task]
    BY DEF DKGTypeOK
  <1>2. task' = [task EXCEPT ![n] = ValidationsRead] /\ UNCHANGED <<channel, published>>
    BY DEF HandleShareValidation
  <1>3. Idle.at # "send" /\ ValidationsRead.at # "send"
    BY DEF Idle, ValidationsRead
  <1>4. \A k \in Nodes : Unpublished(k)' = Unpublished(k)
    BY <1>1, <1>2, <1>3 DEF Unpublished, IsSending
  <1>. QED
    BY <1>1, <1>2, <1>4 DEF Messages

\* Nobody undraws a polynomial.
LEMMA DealtGrows ==
    ASSUME DKGTypeOK, [DKGNext]_dkgVars
    PROVE  \A n \in Nodes : 1..dealt[n] \subseteq 1..dealt'[n]
  <1>1. ASSUME NEW n \in Dealers, StartDkg(n)
        PROVE  \A k \in Nodes : 1..dealt[k] \subseteq 1..dealt'[k]
    <2>1. dealt \in [Nodes -> 0..MaxDeals] /\ dealt' = [dealt EXCEPT ![n] = dealt[n] + 1]
      BY <1>1 DEF DKGTypeOK, StartDkg
    <2>. QED
      BY <2>1, DKGAssumption
  <1>2. ASSUME NEW n \in Nodes, DeliverAny(n) \/ TakeMessage(n) \/ ResumeSend(n)
        PROVE  UNCHANGED dealt
    BY <1>2, DeliverCases
       DEF TakeMessage, ResumeSend, AcceptShare, HandleShareValidation, dkgVars, nodeVars
  <1>. QED
    BY <1>1, <1>2 DEF DKGNext, dkgVars, nodeVars

\* Only a node that is asked to deal draws a polynomial.
LEMMA OnlyDealersStep ==
    ASSUME DKGTypeOK, OnlyDealersDraw, [DKGNext]_dkgVars
    PROVE  OnlyDealersDraw'
  <1>1. ASSUME NEW n \in Dealers, StartDkg(n)
        PROVE  OnlyDealersDraw'
    BY <1>1 DEF StartDkg, OnlyDealersDraw, DKGTypeOK
  <1>2. ASSUME NEW n \in Nodes, DeliverAny(n) \/ TakeMessage(n) \/ ResumeSend(n)
        PROVE  UNCHANGED dealt
    BY <1>2, DeliverCases
       DEF TakeMessage, ResumeSend, AcceptShare, HandleShareValidation, dkgVars, nodeVars
  <1>. QED
    BY <1>1, <1>2 DEF DKGNext, OnlyDealersDraw, dkgVars, nodeVars

\* A genuine message stays genuine as more polynomials are drawn.
LEMMA GenuineStays ==
    ASSUME DKGTypeOK, [DKGNext]_dkgVars, NEW m \in Message, Genuine(m)
    PROVE  Genuine(m)'
  BY DealtGrows, MessageFields DEF Genuine

\* GenuineMessages is kept.
LEMMA GenuineStep ==
    ASSUME DKGTypeOK, GenuineMessages, [DKGNext]_dkgVars
    PROVE  GenuineMessages'
  <1>0. /\ \A n \in Nodes : \A m \in Unpublished(n) : m.from = n
        /\ \A m \in Messages : Genuine(m)
    BY DEF GenuineMessages, Genuine
  <1>1. SUFFICES /\ \A n \in Nodes : \A m \in Unpublished(n)' : m.from = n
                 /\ \A m \in Messages' : Genuine(m)'
    BY DEF GenuineMessages, Genuine
  <1>2. \A m \in Messages : m \in Message
    <2>1. ASSUME NEW n \in Nodes, NEW m \in Unpublished(n)
          PROVE  m \in Message
      <3>1. channel[n] \in Seq(Message) /\ task[n] \in Task
        BY DEF DKGTypeOK
      <3>. QED
        BY <3>1, <2>1 DEF Unpublished, IsSending, Task, Range
    <2>. QED
      BY <2>1 DEF Messages, DKGTypeOK
  <1>3. \A m \in Messages : Genuine(m)'
    BY <1>0, <1>2, GenuineStays
  <1>4. ASSUME NEW n \in Dealers, StartDkg(n)
        PROVE  /\ \A k \in Nodes : \A m \in Unpublished(k)' : m.from = k
               /\ \A m \in Messages' : Genuine(m)'
    <2>1. n \in Nodes
      BY DKGAssumption
    <2>0. PICK k : k = dealt[n] + 1
      OBVIOUS
    <2> DEFINE msg == Distribution(n, k)
    <2>2. /\ msg \in Message
          /\ task[n] = Idle
          /\ Broadcast(n, msg)
          /\ published' = published
          /\ k \in 1..MaxDeals
          /\ dealt' = [dealt EXCEPT ![n] = k]
      BY <1>4, <2>0, <2>1, StartEffect
    <2>3. k \in Nat \ {0}
      BY <2>2
    <2>4. msg.from = n
      BY <2>1, <2>3, DistributionType
    <2>5. /\ Messages' = Messages \cup {msg}
          /\ Unpublished(n)' = Unpublished(n) \cup {msg}
          /\ \A j \in Nodes \ {n} : Unpublished(j)' = Unpublished(j)
      BY <2>1, <2>2, BroadcastEffect
    <2>6. dealt'[n] = k
      BY <2>1, <2>2 DEF DKGTypeOK
    <2>7. Genuine(msg)'
      <3>1. k \in 1..dealt'[n]
        BY <2>3, <2>6
      <3>. QED
        BY <3>1, <2>4 DEF Genuine
    <2>. QED
      BY <1>0, <1>3, <2>4, <2>5, <2>7
  <1>5. ASSUME NEW n \in Nodes, DeliverAny(n)
        PROVE  /\ \A k \in Nodes : \A m \in Unpublished(k)' : m.from = k
               /\ \A m \in Messages' : Genuine(m)'
    <2>1. ASSUME NEW m \in published, NEW share \in MyShare(n, m.shares),
                 task[n] = Idle, AcceptShare(n, m, share)
          PROVE  /\ \A k \in Nodes : \A v \in Unpublished(k)' : v.from = k
                 /\ \A v \in Messages' : Genuine(v)'
      <3> DEFINE msg == ShareValidation(n, m.from)
      <3>1. m.from \in Nodes
        BY MessageFields DEF DKGTypeOK
      <3>2. msg \in Message /\ msg.type = "ShareValidation" /\ msg.from = n /\ msg.to = m.from
        BY <3>1, ValidationType
      <3>3. /\ Messages' = Messages \cup {msg}
            /\ Unpublished(n)' = Unpublished(n) \cup {msg}
            /\ \A k \in Nodes \ {n} : Unpublished(k)' = Unpublished(k)
        BY <2>1, <3>2, BroadcastEffect DEF AcceptShare
      <3>4. Genuine(msg)'
        BY <3>2 DEF Genuine
      <3>. QED
        BY <1>0, <1>3, <3>2, <3>3, <3>4
    <2>2. CASE UNCHANGED dkgVars
      BY <1>0, <1>3, <2>2 DEF Unpublished, IsSending, Messages, dkgVars
    <2>3. ASSUME NEW m \in published, task[n] = Idle, HandleShareValidation(n, m)
          PROVE  /\ \A k \in Nodes : \A v \in Unpublished(k)' : v.from = k
                 /\ \A v \in Messages' : Genuine(v)'
      BY <1>0, <1>3, <2>3, RecordEffect
    <2>. QED
      BY <1>5, <2>1, <2>2, <2>3, DeliverCases
  <1>6. ASSUME NEW n \in Nodes, TakeMessage(n)
        PROVE  /\ \A k \in Nodes : \A m \in Unpublished(k)' : m.from = k
               /\ \A m \in Messages' : Genuine(m)'
    BY <1>0, <1>3, <1>6, TakeEffect
  <1>7. ASSUME NEW n \in Nodes, ResumeSend(n)
        PROVE  /\ \A k \in Nodes : \A m \in Unpublished(k)' : m.from = k
               /\ \A m \in Messages' : Genuine(m)'
    BY <1>0, <1>3, <1>7, ResumeEffect
  <1>8. CASE UNCHANGED dkgVars
    BY <1>0, <1>3, <1>8 DEF Unpublished, IsSending, Messages, dkgVars
  <1>. QED
    BY <1>4, <1>5, <1>6, <1>7, <1>8 DEF DKGNext

\* The share a node finds in a genuine distribution lies on a polynomial its
\* sender drew, the one whose commitments come with it.
LEMMA FoundShare ==
    ASSUME DKGTypeOK, GenuineMessages, NEW m \in published, m.type = "ShareDistribution",
           NEW n \in Nodes, NEW share \in MyShare(n, m.shares)
    PROVE  /\ m.from \in Nodes
           /\ share \in KeyShare
           /\ m.commitments \in Polynomial
           /\ share.index = IdParsed(n)
           /\ share.index \in 1..TotalNodes
           /\ share.polynomial.dealer = m.from
           /\ share.polynomial.draw \in 1..dealt[m.from]
           /\ m.commitments = share.polynomial
  <1>1. /\ m.from \in Nodes
        /\ share \in KeyShare
        /\ share \in m.shares
        /\ share.index = IdParsed(n)
        /\ m.commitments \in Polynomial
    BY MessageFields DEF DKGTypeOK, MyShare
  <1>2. PICK k \in 1..dealt[m.from] : m = Distribution(m.from, k)
    <2>1. m \in Messages
      BY DEF Messages
    <2>. QED
      BY <2>1 DEF GenuineMessages, Genuine
  <1>3. dealt[m.from] \in Nat
    BY <1>1, DKGAssumption DEF DKGTypeOK
  <1>4. k \in Nat \ {0}
    BY <1>3
  <1>5. /\ m.commitments = [dealer |-> m.from, draw |-> k]
        /\ m.shares = {[index |-> i, polynomial |-> [dealer |-> m.from, draw |-> k]] :
                           i \in 1..TotalNodes}
    BY <1>1, <1>2, <1>4, DistributionType
  <1>6. PICK i \in 1..TotalNodes :
           share = [index |-> i, polynomial |-> [dealer |-> m.from, draw |-> k]]
    BY <1>1, <1>5
  <1>. QED
    BY <1>1, <1>5, <1>6

\* SharesMatchDealings is kept.
LEMMA SharesMatchStep ==
    ASSUME DKGTypeOK, GenuineMessages, SharesMatchDealings, [DKGNext]_dkgVars
    PROVE  SharesMatchDealings'
  <1>1. \A k \in Nodes : IsHashMap(shares[k], Nodes, KeyShare)
    BY DEF DKGTypeOK
  <1>2. \A k \in Nodes : 1..dealt[k] \subseteq 1..dealt'[k]
    BY DealtGrows
  <1>3. CASE UNCHANGED <<shares, commitments>>
    <2>1. \A n \in Nodes : \A d \in DOMAIN shares[n] : d \in Nodes
      BY <1>1 DEF IsHashMap
    <2>. QED
      BY <1>2, <1>3, <2>1 DEF SharesMatchDealings, MatchesDealing, IdParsed
  <1>4. ASSUME NEW n \in Nodes, NEW m \in published, NEW share \in MyShare(n, m.shares),
               m.type = "ShareDistribution", AcceptShare(n, m, share)
        PROVE  SharesMatchDealings'
    <2>1. /\ m.from \in Nodes
          /\ share \in KeyShare
          /\ m.commitments \in Polynomial
          /\ share.index = IdParsed(n)
          /\ share.index \in 1..TotalNodes
          /\ share.polynomial.dealer = m.from
          /\ share.polynomial.draw \in 1..dealt[m.from]
          /\ m.commitments = share.polynomial
      BY <1>4, FoundShare
    <2>2. /\ DOMAIN Insert(shares[n], m.from, share) = DOMAIN shares[n] \cup {m.from}
          /\ Insert(shares[n], m.from, share)[m.from] = share
          /\ \A d \in DOMAIN shares[n] \ {m.from} :
                Insert(shares[n], m.from, share)[d] = shares[n][d]
      BY DEF Insert
    <2>4. /\ DOMAIN Insert(commitments[n], m.from, m.commitments)
                 = DOMAIN commitments[n] \cup {m.from}
          /\ Insert(commitments[n], m.from, m.commitments)[m.from] = m.commitments
          /\ \A d \in DOMAIN commitments[n] \ {m.from} :
                Insert(commitments[n], m.from, m.commitments)[d] = commitments[n][d]
      BY DEF Insert
    <2>5. /\ shares'[n] = Insert(shares[n], m.from, share)
          /\ commitments'[n] = Insert(commitments[n], m.from, m.commitments)
          /\ \A k \in Nodes \ {n} : shares'[k] = shares[k] /\ commitments'[k] = commitments[k]
          /\ dealt' = dealt
      BY <1>4 DEF AcceptShare, DKGTypeOK
    <2>6. ASSUME NEW k \in Nodes, k # n
          PROVE  /\ DOMAIN commitments'[k] = DOMAIN shares'[k]
                 /\ \A d \in DOMAIN shares'[k] : MatchesDealing(k, d)'
      BY <2>5, <2>6 DEF SharesMatchDealings, MatchesDealing, IdParsed
    <2>7. ASSUME NEW d \in DOMAIN shares'[n]
          PROVE  MatchesDealing(n, d)'
      <3>1. CASE d = m.from
        BY <2>1, <2>2, <2>4, <2>5, <3>1 DEF MatchesDealing, IdParsed
      <3>2. CASE d # m.from
        <4>1. d \in DOMAIN shares[n] /\ d \in DOMAIN commitments[n]
          BY <2>2, <2>5, <2>7, <3>2 DEF SharesMatchDealings
        <4>2. shares'[n][d] = shares[n][d] /\ commitments'[n][d] = commitments[n][d]
          BY <2>2, <2>4, <2>5, <3>2, <4>1
        <4>3. MatchesDealing(n, d)
          BY <4>1 DEF SharesMatchDealings, MatchesDealing
        <4>. QED
          BY <2>5, <4>2, <4>3 DEF MatchesDealing, IdParsed
      <3>. QED
        BY <3>1, <3>2
    <2>8. DOMAIN commitments'[n] = DOMAIN shares'[n]
      BY <2>2, <2>4, <2>5 DEF SharesMatchDealings
    <2>. QED
      BY <2>6, <2>7, <2>8 DEF SharesMatchDealings, MatchesDealing
  <1>. QED
    <2>1. ASSUME NEW n \in Nodes, StartDkg(n) \/ TakeMessage(n) \/ ResumeSend(n)
          PROVE  UNCHANGED <<shares, commitments>>
      BY <2>1 DEF StartDkg, TakeMessage, ResumeSend, nodeVars
    <2>2. ASSUME NEW n \in Nodes, DeliverAny(n)
          PROVE  SharesMatchDealings'
      BY <1>3, <1>4, <2>2, DeliverCases DEF HandleShareValidation, dkgVars, nodeVars
    <2>. QED
      BY <1>3, <2>1, <2>2, DKGAssumption DEF DKGNext, dkgVars, nodeVars

\* ValidationIffShare is kept.
LEMMA ValidationIffShareStep ==
    ASSUME DKGTypeOK, ValidationIffShare, [DKGNext]_dkgVars
    PROVE  ValidationIffShare'
  <1>1. CASE Messages' = Messages /\ UNCHANGED shares
    BY <1>1 DEF ValidationIffShare
  <1>2. ASSUME NEW n \in Dealers, StartDkg(n)
        PROVE  ValidationIffShare'
    <2>0. n \in Nodes
      BY DKGAssumption
    <2>1. PICK k : k = dealt[n] + 1
      OBVIOUS
    <2>2. /\ Distribution(n, k) \in Message
          /\ k \in 1..MaxDeals
          /\ Messages' = Messages \cup {Distribution(n, k)}
          /\ shares' = shares
      BY <1>2, <2>0, <2>1, StartEffect, BroadcastEffect
    <2>3. Distribution(n, k).type = "ShareDistribution"
      <3>1. k \in Nat \ {0}
        BY <2>2, DKGAssumption
      <3>. QED
        BY <2>0, <3>1, DistributionType
    <2>4. \A a, b \in Nodes : ShareValidation(a, b).type = "ShareValidation"
      BY ValidationType
    <2>. QED
      BY <2>2, <2>3, <2>4 DEF ValidationIffShare
  <1>3. ASSUME NEW n \in Nodes, NEW m \in published, NEW share \in MyShare(n, m.shares),
               m.type = "ShareDistribution", task[n] = Idle, AcceptShare(n, m, share)
        PROVE  ValidationIffShare'
    <2>1. m.from \in Nodes /\ share \in KeyShare
      BY <1>3, MessageFields DEF DKGTypeOK, MyShare
    <2>2. Messages' = Messages \cup {ShareValidation(n, m.from)}
      BY <1>3, <2>1, ValidationType, BroadcastEffect DEF AcceptShare
    <2>3. DOMAIN Insert(shares[n], m.from, share) = DOMAIN shares[n] \cup {m.from}
      BY DEF Insert
    <2>4. /\ shares'[n] = Insert(shares[n], m.from, share)
          /\ \A k \in Nodes \ {n} : shares'[k] = shares[k]
      BY <1>3 DEF AcceptShare, DKGTypeOK
    <2>5. \A a, b \in Nodes : ShareValidation(a, b) = ShareValidation(n, m.from)
                                  <=> a = n /\ b = m.from
      BY <2>1, ValidationType
    <2>. QED
      BY <2>1, <2>2, <2>3, <2>4, <2>5 DEF ValidationIffShare
  <1>4. ASSUME NEW n \in Nodes, NEW m, task[n] = Idle, HandleShareValidation(n, m)
        PROVE  Messages' = Messages /\ UNCHANGED shares
    BY <1>4, RecordEffect DEF HandleShareValidation
  <1>5. ASSUME NEW n \in Nodes, TakeMessage(n) \/ ResumeSend(n)
        PROVE  Messages' = Messages /\ UNCHANGED shares
    BY <1>5, TakeEffect, ResumeEffect DEF TakeMessage, ResumeSend, nodeVars
  <1>6. CASE UNCHANGED dkgVars
    BY <1>1, <1>6 DEF Messages, Unpublished, IsSending, dkgVars, nodeVars
  <1>7. ASSUME NEW n \in Nodes, DeliverAny(n)
        PROVE  ValidationIffShare'
    BY <1>1, <1>3, <1>4, <1>6, <1>7, DeliverCases
  <1>. QED
    BY <1>1, <1>2, <1>5, <1>6, <1>7 DEF DKGNext

\* FirstValidationIsLast is kept.
LEMMA FirstValidationStep ==
    ASSUME DKGTypeOK, FirstValidationIsLast, [DKGNext]_dkgVars
    PROVE  FirstValidationIsLast'
  <1>1. CASE /\ UNCHANGED validations
             /\ \A n \in Nodes : task[n] = ValidationsRead => task'[n] = ValidationsRead
    BY <1>1 DEF FirstValidationIsLast
  <1>2. Idle # ValidationsRead
    BY DEF Idle, ValidationsRead
  <1>3. ASSUME NEW n \in Nodes, NEW msg \in Message, task[n] = Idle, Broadcast(n, msg),
               published' = published
        PROVE  \A k \in Nodes : task[k] = ValidationsRead => task'[k] = ValidationsRead
    BY <1>2, <1>3, BroadcastEffect
  <1>4. ASSUME NEW n \in Dealers, StartDkg(n)
        PROVE  FirstValidationIsLast'
    BY <1>1, <1>3, <1>4, StartEffect, DKGAssumption
  <1>5. ASSUME NEW n \in Nodes, NEW m \in published, NEW share \in MyShare(n, m.shares),
               task[n] = Idle, AcceptShare(n, m, share)
        PROVE  FirstValidationIsLast'
    <2>1. ShareValidation(n, m.from) \in Message
      BY MessageFields, ValidationType DEF DKGTypeOK
    <2>. QED
      BY <1>1, <1>3, <1>5, <2>1 DEF AcceptShare
  <1>6. ASSUME NEW n \in Nodes, NEW m \in published, m.type = "ShareValidation",
               task[n] = Idle, HandleShareValidation(n, m)
        PROVE  FirstValidationIsLast'
    <2>1. DOMAIN validations[n] = {}
      BY <1>2, <1>6 DEF FirstValidationIsLast
    <2>2. m.to \in Nodes /\ m.is_valid \in BOOLEAN
      BY <1>6, MessageFields DEF DKGTypeOK
    <2>3. EntryOr(validations[n], m.to, <<>>) = <<>>
      BY <2>1 DEF EntryOr
    <2> DEFINE one == Append(<<>>, m.is_valid)
    <2>4. Len(one) = 1
      OBVIOUS
    <2>5. /\ DOMAIN Insert(validations[n], m.to, one) = {m.to}
          /\ Insert(validations[n], m.to, one)[m.to] = one
      BY <2>1 DEF Insert
    <2>6. /\ validations'[n] = Insert(validations[n], m.to, one)
          /\ \A k \in Nodes \ {n} : validations'[k] = validations[k]
      BY <1>6, <2>3 DEF HandleShareValidation, DKGTypeOK
    <2>7. /\ task'[n] = ValidationsRead
          /\ \A k \in Nodes \ {n} : task'[k] = task[k]
      BY <1>6, RecordEffect
    <2>. QED
      BY <2>4, <2>5, <2>6, <2>7 DEF FirstValidationIsLast
  <1>7. ASSUME NEW n \in Nodes, DeliverAny(n)
        PROVE  FirstValidationIsLast'
    BY <1>1, <1>5, <1>6, <1>7, DeliverCases DEF dkgVars, nodeVars
  <1>8. ASSUME NEW n \in Nodes, TakeMessage(n)
        PROVE  FirstValidationIsLast'
    BY <1>1, <1>8 DEF TakeMessage, nodeVars
  <1>9. ASSUME NEW n \in Nodes, ResumeSend(n)
        PROVE  FirstValidationIsLast'
    <2>1. task[n] # ValidationsRead
      BY <1>9 DEF ResumeSend, IsSending, ValidationsRead
    <2>. QED
      BY <1>1, <1>9, <2>1, ResumeEffect DEF ResumeSend, nodeVars
  <1>. QED
    BY <1>1, <1>4, <1>7, <1>8, <1>9 DEF DKGNext, dkgVars, nodeVars

(***************************************************************************)
(* The theorems.                                                           *)
(***************************************************************************)

\* DKGInv holds initially and every step keeps it.
THEOREM Invariant == DKGSpec => []DKGInv
  <1>1. DKGInit => DKGInv
    <2>1. ASSUME DKGInit
          PROVE  /\ DKGTypeOK
                 /\ Messages = {}
                 /\ \A n \in Nodes : Unpublished(n) = {}
                 /\ \A n \in Nodes : /\ DOMAIN shares[n] = {}
                                      /\ DOMAIN commitments[n] = {}
                                      /\ DOMAIN validations[n] = {}
      <3>1. DKGTypeOK
        BY <2>1, DKGAssumption, EmptyMapUnique
           DEF DKGInit, DKGTypeOK, EmptyMap, IsHashMap, Idle, Task
      <3>2. \A n \in Nodes : Unpublished(n) = {}
        BY <2>1 DEF DKGInit, Unpublished, IsSending, Idle, Range
      <3>3. \A n \in Nodes : /\ DOMAIN shares[n] = {}
                             /\ DOMAIN commitments[n] = {}
                             /\ DOMAIN validations[n] = {}
        BY <2>1 DEF DKGInit, EmptyMap
      <3>. QED
        BY <2>1, <3>1, <3>2, <3>3 DEF DKGInit, Messages
    <2>. QED
      BY <2>1, DKGAssumption DEF DKGInv, DKGInit, OnlyDealersDraw, GenuineMessages,
         SharesMatchDealings, ValidationIffShare, FirstValidationIsLast
  <1>2. DKGInv /\ [DKGNext]_dkgVars => DKGInv'
    BY TypeStep, OnlyDealersStep, GenuineStep, SharesMatchStep, ValidationIffShareStep, FirstValidationStep
       DEF DKGInv
  <1>. QED
    BY <1>1, <1>2, PTL DEF DKGSpec

\* Every message is one its sender made (see GenuineMessages).
THEOREM MessagesAreGenuine == DKGSpec => []GenuineMessages
  BY Invariant, PTL DEF DKGInv

\* The share and the commitments stored under a dealer are of one polynomial
\* of that dealer, at the node's own index.
THEOREM SharesMatch == DKGSpec => []SharesMatchDealings
  BY Invariant, PTL DEF DKGInv

\* A node announces a dealer's share valid exactly when it holds one.
THEOREM AnnouncedIffHeld == DKGSpec => []ValidationIffShare
  BY Invariant, PTL DEF DKGInv

\* No node records a second validation.
THEOREM OneValidation == DKGSpec => []FirstValidationIsLast
  BY Invariant, PTL DEF DKGInv

\* Whatever the threshold above 1, no node's completion test ever passes.
THEOREM NeverCompletes == DKGSpec => []CompletionNeverReached
  <1>1. DKGInv => CompletionNeverReached
    <2>1. SUFFICES ASSUME DKGInv, Threshold > 1, NEW n \in Nodes, validations[n] # EmptyMap
                   PROVE  ~CompletionTest(n)
      BY DEF CompletionNeverReached
    <2>2. PICK d \in DOMAIN validations[n] : TRUE
      <3>1. IsHashMap(validations[n], Nodes, Seq(BOOLEAN))
        BY <2>1 DEF DKGInv, DKGTypeOK
      <3>. QED
        BY <2>1, <3>1, EmptyMapUnique
    <2>3. Len(validations[n][d]) = 1
      BY <2>1, <2>2 DEF DKGInv, FirstValidationIsLast
    <2>4. Threshold \in Nat /\ ~(1 >= Threshold)
      BY <2>1, DKGAssumption
    <2>5. ~(Len(validations[n][d]) >= Threshold)
      BY <2>3, <2>4
    <2>. QED
      BY <2>2, <2>5 DEF CompletionTest
  <1>. QED
    BY <1>1, Invariant, PTL

\* A node whose id is not a number stores and announces nothing.
THEOREM UnparsedIdHolds == DKGSpec => []UnparsedIdHoldsNothing
  <1>1. DKGInv => UnparsedIdHoldsNothing
    <2>1. SUFFICES ASSUME DKGInv, NEW n \in Nodes, IdValue[n] = NotANumber
                   PROVE  /\ shares[n] = EmptyMap
                          /\ \A m \in Messages : m.type = "ShareValidation" => m.from # n
      BY DEF UnparsedIdHoldsNothing
    <2>2. IdParsed(n) = UsizeMax /\ UsizeMax \notin 1..TotalNodes
      BY <2>1, DKGAssumption DEF IdParsed
    <2>3. DOMAIN shares[n] = {}
      BY <2>1, <2>2 DEF DKGInv, SharesMatchDealings, MatchesDealing
    <2>4. shares[n] = EmptyMap
      <3>1. IsHashMap(shares[n], Nodes, KeyShare)
        BY <2>1 DEF DKGInv, DKGTypeOK
      <3>. QED
        BY <2>3, <3>1 DEF IsHashMap, EmptyMap
    <2>5. ASSUME NEW m \in Messages, m.type = "ShareValidation", m.from = n
          PROVE  FALSE
      <3>1. m \in Message
        <4>1. PICK k \in Nodes : m \in published \/ m \in Unpublished(k)
          BY <2>1, <2>5 DEF Messages
        <4>2. channel[k] \in Seq(Message) /\ task[k] \in Task /\ published \subseteq Message
          BY <2>1 DEF DKGInv, DKGTypeOK
        <4>. QED
          BY <4>1, <4>2 DEF Unpublished, IsSending, Task, Range
      <3>2. m.to \in Nodes
        BY <2>5, <3>1, MessageFields
      <3>3. m = ShareValidation(n, m.to)
        <4>1. ASSUME NEW k \in 1..dealt[n], m = Distribution(n, k)
              PROVE  FALSE
          <5>0. dealt[n] \in 0..MaxDeals /\ MaxDeals \in Nat
            BY <2>1, DKGAssumption DEF DKGInv, DKGTypeOK
          <5>1. k \in Nat \ {0}
            BY <4>1, <5>0
          <5>2. Distribution(n, k).type = "ShareDistribution"
            BY <5>1, DistributionType
          <5>. QED
            BY <2>5, <4>1, <5>2
        <4>. QED
          BY <2>1, <2>5, <4>1 DEF DKGInv, GenuineMessages, Genuine
      <3>. QED
        BY <2>1, <2>3, <2>5, <3>2, <3>3 DEF DKGInv, ValidationIffShare
    <2>. QED
      BY <2>4, <2>5
  <1>. QED
    BY <1>1, Invariant, PTL

(***************************************************************************)
(* The order in which dealings leave a node.                               *)
(***************************************************************************)

\* What a node has under way, in the order it will be read.
Pending(n) == IF IsSending(n) THEN Append(channel[n], task[n].msg) ELSE channel[n]

\* Of the first k dealings of n each is published or pending, those published
\* are the first ones, and those pending are in order; there are no others.
InOrder(n, pending, sent, k) ==
    /\ \A x \in 1..k : Distribution(n, x) \in sent \cup Range(pending)
    /\ \A x \in 1..k : Distribution(n, x) \in sent =>
          \A y \in 1..x : Distribution(n, y) \in sent
    /\ \A i, j \in 1..Len(pending), x, y \in Nat \ {0} :
          i < j /\ pending[i] = Distribution(n, x) /\ pending[j] = Distribution(n, y) => x < y
    /\ \A x \in Nat \ {0} : Distribution(n, x) \in sent \cup Range(pending) => x <= k

\* Two draws of a node are two dealings.
LEMMA DistinctDealings ==
    ASSUME NEW n \in Nodes, NEW x \in Nat \ {0}, NEW y \in Nat \ {0},
           Distribution(n, x) = Distribution(n, y)
    PROVE  x = y
  <1>1. [dealer |-> n, draw |-> x] = [dealer |-> n, draw |-> y]
    BY DistributionType
  <1>. QED
    BY <1>1

\* A new dealing goes behind the others.
LEMMA NextDealingInOrder ==
    ASSUME NEW n \in Nodes, NEW q \in Seq(Message), NEW p, NEW k \in Nat, InOrder(n, q, p, k)
    PROVE  InOrder(n, Append(q, Distribution(n, k + 1)), p, k + 1)
  <1>. DEFINE m == Distribution(n, k + 1)
              t == Append(q, m)
  <1>0. k + 1 \in Nat \ {0}
    OBVIOUS
  <1>1. m \in Message
    BY <1>0, DistributionType
  <1>2. /\ Range(t) = Range(q) \cup {m}
        /\ Len(t) = Len(q) + 1 /\ Len(q) \in Nat
        /\ t[Len(q) + 1] = m
        /\ \A i \in 1..Len(q) : t[i] = q[i]
        /\ \A i \in 1..Len(q) : q[i] \in Range(q)
    BY <1>1, RangeAppend DEF Range
  <1>3. \A x \in Nat \ {0} : m = Distribution(n, x) => x = k + 1
    BY DistinctDealings
  <1>. HIDE DEF t, m
  <1>4. ASSUME NEW x \in 1..(k + 1)
        PROVE  Distribution(n, x) \in p \cup Range(t)
    <2>1. x \in 1..k \/ x = k + 1
      OBVIOUS
    <2>. QED
      BY <1>2, <2>1 DEF InOrder, m
  <1>5. ASSUME NEW x \in 1..(k + 1), Distribution(n, x) \in p
        PROVE  \A y \in 1..x : Distribution(n, y) \in p
    <2>1. x <= k
      BY <1>5 DEF InOrder
    <2>. QED
      BY <1>5, <2>1 DEF InOrder
  <1>6. ASSUME NEW i \in 1..Len(t), NEW j \in 1..Len(t), NEW x \in Nat \ {0}, NEW y \in Nat \ {0},
               i < j, t[i] = Distribution(n, x), t[j] = Distribution(n, y)
        PROVE  x < y
    <2>1. i \in 1..Len(q) /\ t[i] = q[i] /\ q[i] \in Range(q)
      BY <1>2, <1>6
    <2>2. x <= k
      BY <1>6, <2>1 DEF InOrder
    <2>3. CASE j = Len(q) + 1
      <3>1. y = k + 1
        BY <1>2, <1>3, <1>6, <2>3
      <3>. QED
        BY <2>2, <3>1
    <2>4. CASE j # Len(q) + 1
      <3>1. j \in 1..Len(q) /\ t[j] = q[j]
        BY <1>2, <2>4
      <3>. QED
        BY <1>6, <2>1, <3>1 DEF InOrder
    <2>. QED
      BY <2>3, <2>4
  <1>7. ASSUME NEW x \in Nat \ {0}, Distribution(n, x) \in p \cup Range(t)
        PROVE  x <= k + 1
    <2>1. CASE Distribution(n, x) \in p \cup Range(q)
      <3>1. x <= k
        BY <2>1 DEF InOrder
      <3>. QED
        BY <3>1
    <2>2. CASE Distribution(n, x) = m
      BY <1>3, <2>2
    <2>. QED
      BY <1>2, <1>7, <2>1, <2>2
  <1>. QED
    BY <1>4, <1>5, <1>6, <1>7 DEF InOrder, t, m

\* A validation in between changes nothing of the dealings' order.
LEMMA ValidationInOrder ==
    ASSUME NEW n \in Nodes, NEW d \in Nodes, NEW q \in Seq(Message), NEW p, NEW k \in Nat,
           InOrder(n, q, p, k)
    PROVE  InOrder(n, Append(q, ShareValidation(n, d)), p, k)
  <1>. DEFINE m == ShareValidation(n, d)
              t == Append(q, m)
  <1>0. ASSUME NEW x \in Nat \ {0}
        PROVE  m # Distribution(n, x)
    <2>1. Distribution(n, x).type = "ShareDistribution"
      BY DistributionTag
    <2>2. m.type = "ShareValidation"
      BY ValidationType
    <2>. QED
      BY <2>1, <2>2
  <1>1. m \in Message /\ \A x \in Nat \ {0} : m # Distribution(n, x)
    BY <1>0, ValidationType
  <1>2. /\ Range(t) = Range(q) \cup {m}
        /\ Len(t) = Len(q) + 1 /\ Len(q) \in Nat
        /\ t[Len(q) + 1] = m
        /\ \A i \in 1..Len(q) : t[i] = q[i]
    BY <1>1, RangeAppend
  <1>. HIDE DEF t, m
  <1>3. ASSUME NEW i \in 1..Len(t), NEW x \in Nat \ {0}, t[i] = Distribution(n, x)
        PROVE  i \in 1..Len(q) /\ t[i] = q[i]
    <2>1. i # Len(q) + 1
      BY <1>1, <1>2, <1>3
    <2>. QED
      BY <1>2, <2>1
  <1>4. \A i, j \in 1..Len(t), x, y \in Nat \ {0} :
           i < j /\ t[i] = Distribution(n, x) /\ t[j] = Distribution(n, y) => x < y
    BY <1>3 DEF InOrder
  <1>5. \A x \in Nat \ {0} : Distribution(n, x) \in p \cup Range(t) => x <= k
    BY <1>1, <1>2 DEF InOrder
  <1>6. \A x \in 1..k : Distribution(n, x) \in p \cup Range(t)
    BY <1>2 DEF InOrder
  <1>. QED
    BY <1>4, <1>5, <1>6 DEF InOrder, t, m

\* Reading the first pending message publishes it after every earlier dealing.
LEMMA TakeInOrder ==
    ASSUME NEW n \in Nodes, NEW q \in Seq(Message), q # <<>>, NEW p, NEW k \in Nat,
           InOrder(n, q, p, k)
    PROVE  InOrder(n, Tail(q), p \cup {Head(q)}, k)
  <1>. DEFINE t == Tail(q)
              s == p \cup {Head(q)}
  <1>1. /\ Range(q) = {Head(q)} \cup Range(t)
        /\ t \in Seq(Message)
        /\ Len(t) = Len(q) - 1 /\ Len(q) \in Nat \ {0}
        /\ Head(q) = q[1]
        /\ \A i \in 1..Len(t) : t[i] = q[i + 1] /\ i + 1 \in 1..Len(q)
        /\ \A i \in 1..Len(q) : i = 1 \/ i - 1 \in 1..Len(t)
    BY RangeTail
  <1>2. s \cup Range(t) = p \cup Range(q)
    BY <1>1
  <1>. HIDE DEF t
  <1>3. ASSUME NEW x \in 1..k, Distribution(n, x) \in s, NEW y \in 1..x
        PROVE  Distribution(n, y) \in s
    <2>1. CASE Distribution(n, x) \in p
      BY <1>3, <2>1 DEF InOrder
    <2>2. CASE Distribution(n, x) = Head(q)
      <3>1. y \in 1..k /\ y \in Nat \ {0} /\ x \in Nat \ {0}
        OBVIOUS
      <3>2. CASE Distribution(n, y) \in p
        BY <3>2
      <3>3. CASE Distribution(n, y) \in Range(q)
        <4>1. PICK j \in 1..Len(q) : q[j] = Distribution(n, y)
          BY <3>3 DEF Range
        <4>2. j = 1
          <5>1. CASE j > 1
            <6>1. 1 \in 1..Len(q) /\ q[1] = Distribution(n, x) /\ 1 < j
              BY <1>1, <2>2, <5>1
            <6>2. x < y
              BY <3>1, <4>1, <6>1 DEF InOrder
            <6>. QED
              BY <6>2, <1>3
          <5>. QED
            BY <5>1
        <4>. QED
          BY <1>1, <4>1, <4>2
      <3>. QED
        BY <3>1, <3>2, <3>3 DEF InOrder
    <2>. QED
      BY <1>3, <2>1, <2>2
  <1>4. ASSUME NEW i \in 1..Len(t), NEW j \in 1..Len(t), NEW x \in Nat \ {0}, NEW y \in Nat \ {0},
               i < j, t[i] = Distribution(n, x), t[j] = Distribution(n, y)
        PROVE  x < y
    <2>1. /\ i + 1 \in 1..Len(q) /\ j + 1 \in 1..Len(q) /\ i + 1 < j + 1
          /\ q[i + 1] = Distribution(n, x) /\ q[j + 1] = Distribution(n, y)
      BY <1>1, <1>4
    <2>. QED
      BY <2>1 DEF InOrder
  <1>5. /\ \A x \in 1..k : Distribution(n, x) \in s \cup Range(t)
        /\ \A x \in Nat \ {0} : Distribution(n, x) \in s \cup Range(t) => x <= k
    BY <1>2 DEF InOrder
  <1>. HIDE DEF s
  <1>6. InOrder(n, t, s, k)
    BY <1>3, <1>4, <1>5 DEF InOrder
  <1>. QED
    BY <1>6 DEF s, t

\* What others publish does not matter.
LEMMA OthersInOrder ==
    ASSUME NEW n \in Nodes, NEW q \in Seq(Message), NEW p, NEW k \in Nat, NEW m, m.from # n,
           InOrder(n, q, p, k)
    PROVE  InOrder(n, q, p \cup {m}, k)
  <1>1. ASSUME NEW x \in Nat \ {0}
        PROVE  Distribution(n, x) # m
    <2>1. Distribution(n, x).from = n
      BY DistributionTag
    <2>. QED
      BY <2>1
  <1>2. \A x \in Nat \ {0} : Distribution(n, x) \in p \cup {m} <=> Distribution(n, x) \in p
    BY <1>1
  <1>3. \A x \in 1..k : x \in Nat \ {0} /\ \A y \in 1..x : y \in Nat \ {0}
    OBVIOUS
  <1>. QED
    BY <1>2, <1>3 DEF InOrder

\* Every node's dealings are in order, with what each has under way.
OrderInv == \A n \in Nodes : InOrder(n, Pending(n), published, dealt[n])

LEMMA PendingType ==
    ASSUME DKGTypeOK, NEW n \in Nodes
    PROVE  Pending(n) \in Seq(Message) /\ Range(Pending(n)) = Unpublished(n)
  <1>1. channel[n] \in Seq(Message) /\ task[n] \in Task
    BY DEF DKGTypeOK
  <1>2. IsSending(n) => task[n].msg \in Message
    BY <1>1 DEF IsSending, Task
  <1>. QED
    BY <1>1, <1>2, RangeAppend DEF Pending, Unpublished

\* A broadcast goes behind what is pending, blocked or not.
LEMMA BroadcastPending ==
    ASSUME DKGTypeOK, NEW n \in Nodes, NEW msg, task[n] = Idle, Broadcast(n, msg)
    PROVE  /\ Pending(n)' = Append(Pending(n), msg)
           /\ \A k \in Nodes \ {n} : Pending(k)' = Pending(k)
  <1>1. channel \in [Nodes -> Seq(Message)] /\ task \in [Nodes -> Task]
    BY DEF DKGTypeOK
  <1>2. Pending(n) = channel[n]
    BY DEF Pending, IsSending, Idle
  <1>3. CASE channel' = [channel EXCEPT ![n] = Append(@, msg)] /\ task' = task
    <2>1. channel'[n] = Append(channel[n], msg) /\ \A k \in Nodes \ {n} : channel'[k] = channel[k]
      BY <1>1, <1>3
    <2>2. ~IsSending(n)'
      BY <1>3 DEF IsSending, Idle
    <2>. QED
      BY <1>2, <1>3, <2>1, <2>2 DEF Pending, IsSending
  <1>4. CASE task' = [task EXCEPT ![n] = Sending(msg)] /\ channel' = channel
    <2>1. task'[n] = Sending(msg) /\ \A k \in Nodes \ {n} : task'[k] = task[k]
      BY <1>1, <1>4
    <2>2. Sending(msg).at = "send" /\ Sending(msg).msg = msg
      BY DEF Sending
    <2>3. Pending(n)' = Append(channel[n], msg)
      BY <1>4, <2>1, <2>2 DEF Pending, IsSending
    <2>4. \A k \in Nodes \ {n} : Pending(k)' = Pending(k)
      BY <1>4, <2>1 DEF Pending, IsSending
    <2>. QED
      BY <1>2, <2>3, <2>4
  <1>. QED
    BY <1>3, <1>4 DEF Broadcast

\* Reading takes what is first of all that is pending.
LEMMA TakePending ==
    ASSUME DKGTypeOK, NEW n \in Nodes, TakeMessage(n)
    PROVE  /\ Pending(n) # <<>>
           /\ Pending(n)' = Tail(Pending(n))
           /\ Head(channel[n]) = Head(Pending(n))
           /\ \A k \in Nodes \ {n} : Pending(k)' = Pending(k)
  <1>1. /\ channel \in [Nodes -> Seq(Message)] /\ task \in [Nodes -> Task]
        /\ channel[n] # <<>>
        /\ channel' = [channel EXCEPT ![n] = Tail(@)]
        /\ task' = task
    BY DEF DKGTypeOK, TakeMessage
  <1>2. channel'[n] = Tail(channel[n]) /\ \A k \in Nodes \ {n} : channel'[k] = channel[k]
    BY <1>1
  <1>3. ASSUME IsSending(n)
        PROVE  /\ Pending(n) # <<>>
               /\ Tail(Pending(n)) = Append(Tail(channel[n]), task[n].msg)
               /\ Head(Pending(n)) = Head(channel[n])
    <2>1. Pending(n) = Append(channel[n], task[n].msg)
      BY <1>3 DEF Pending
    <2>2. task[n].msg \in Message /\ channel[n] \in Seq(Message)
      BY <1>1, <1>3 DEF IsSending, Task
    <2>3. Append(channel[n], task[n].msg) # <<>>
      BY <2>2
    <2>. QED
      BY <1>1, <2>1, <2>2, <2>3, HeadTailAppend
  <1>. QED
    BY <1>1, <1>2, <1>3 DEF Pending, IsSending

\* A sender that resumes puts its message where it was pending.
LEMMA ResumePending ==
    ASSUME DKGTypeOK, NEW n \in Nodes, ResumeSend(n)
    PROVE  \A k \in Nodes : Pending(k)' = Pending(k)
  <1>1. /\ channel \in [Nodes -> Seq(Message)] /\ task \in [Nodes -> Task]
        /\ IsSending(n)
        /\ channel' = [channel EXCEPT ![n] = Append(@, task[n].msg)]
        /\ task' = [task EXCEPT ![n] = Idle]
    BY DEF DKGTypeOK, ResumeSend
  <1>2. /\ channel'[n] = Append(channel[n], task[n].msg)
        /\ task'[n] = Idle
        /\ \A k \in Nodes \ {n} : channel'[k] = channel[k] /\ task'[k] = task[k]
    BY <1>1
  <1>3. Idle.at # "send"
    BY DEF Idle
  <1>. QED
    BY <1>1, <1>2, <1>3 DEF Pending, IsSending

LEMMA OrderStep ==
    ASSUME DKGTypeOK, GenuineMessages, OrderInv, [DKGNext]_dkgVars
    PROVE  OrderInv'
  <1>0. ASSUME NEW k \in Nodes
        PROVE  /\ Pending(k) \in Seq(Message) /\ dealt[k] \in Nat
               /\ InOrder(k, Pending(k), published, dealt[k])
    BY PendingType, DKGAssumption DEF DKGTypeOK, OrderInv
  <1>1. ASSUME \A k \in Nodes : Pending(k)' = Pending(k), UNCHANGED <<published, dealt>>
        PROVE  OrderInv'
    BY <1>1 DEF OrderInv
  <1>2. ASSUME NEW n \in Dealers, StartDkg(n)
        PROVE  OrderInv'
    <2>1. n \in Nodes /\ dealt \in [Nodes -> 0..MaxDeals]
      BY DKGAssumption DEF DKGTypeOK
    <2>2. PICK d \in Nat : d = dealt[n]
      BY <1>0, <2>1
    <2>3. /\ task[n] = Idle
          /\ Broadcast(n, Distribution(n, d + 1))
          /\ dealt' = [dealt EXCEPT ![n] = d + 1]
          /\ published' = published
      BY <1>2, <2>1, <2>2, StartEffect
    <2>4. /\ Pending(n)' = Append(Pending(n), Distribution(n, d + 1))
          /\ \A k \in Nodes \ {n} : Pending(k)' = Pending(k)
      BY <2>1, <2>3, BroadcastPending
    <2>5. /\ dealt'[n] = d + 1
          /\ \A k \in Nodes \ {n} : dealt'[k] = dealt[k]
      BY <2>1, <2>3
    <2>6. InOrder(n, Append(Pending(n), Distribution(n, d + 1)), published, d + 1)
      BY <1>0, <2>1, <2>2, NextDealingInOrder
    <2>. QED
      BY <1>0, <2>3, <2>4, <2>5, <2>6 DEF OrderInv
  <1>3. ASSUME NEW n \in Nodes, DeliverAny(n)
        PROVE  OrderInv'
    <2>1. ASSUME NEW m \in published, NEW share \in MyShare(n, m.shares),
                 task[n] = Idle, AcceptShare(n, m, share)
          PROVE  OrderInv'
      <3>1. m.from \in Nodes
        BY MessageFields DEF DKGTypeOK
      <3>2. Broadcast(n, ShareValidation(n, m.from)) /\ UNCHANGED <<published, dealt>>
        BY <2>1 DEF AcceptShare
      <3>3. /\ Pending(n)' = Append(Pending(n), ShareValidation(n, m.from))
            /\ \A k \in Nodes \ {n} : Pending(k)' = Pending(k)
        BY <2>1, <3>2, BroadcastPending
      <3>4. InOrder(n, Append(Pending(n), ShareValidation(n, m.from)), published, dealt[n])
        BY <1>0, <3>1, ValidationInOrder
      <3>. QED
        BY <1>0, <3>2, <3>3, <3>4 DEF OrderInv
    <2>2. CASE UNCHANGED dkgVars
      BY <1>1, <2>2 DEF dkgVars, nodeVars, Pending, IsSending
    <2>3. ASSUME NEW m, task[n] = Idle, HandleShareValidation(n, m)
          PROVE  OrderInv'
      <3>1. UNCHANGED <<channel, published, dealt>>
        BY <2>3 DEF HandleShareValidation
      <3>2. ~IsSending(n) /\ ~IsSending(n)'
        BY <2>3, RecordEffect DEF IsSending, Idle, ValidationsRead
      <3>3. \A k \in Nodes : Pending(k)' = Pending(k)
        BY <2>3, <3>1, <3>2, RecordEffect DEF Pending, IsSending
      <3>. QED
        BY <1>1, <3>1, <3>3
    <2>. QED
      BY <1>3, <2>1, <2>2, <2>3, DeliverCases
  <1>4. ASSUME NEW n \in Nodes, TakeMessage(n)
        PROVE  OrderInv'
    <2>. DEFINE m == Head(channel[n])
    <2>1. /\ Pending(n) # <<>>
          /\ Pending(n)' = Tail(Pending(n))
          /\ m = Head(Pending(n))
          /\ \A k \in Nodes \ {n} : Pending(k)' = Pending(k)
      BY <1>4, TakePending
    <2>2. published' = published \cup {m} /\ dealt' = dealt
      BY <1>4 DEF TakeMessage, nodeVars
    <2>3. m.from = n
      BY <1>4, TakeEffect DEF GenuineMessages
    <2>. HIDE DEF m
    <2>4. InOrder(n, Tail(Pending(n)), published \cup {m}, dealt[n])
      BY <1>0, <2>1, TakeInOrder
    <2>5. ASSUME NEW k \in Nodes \ {n}
          PROVE  InOrder(k, Pending(k), published \cup {m}, dealt[k])
      BY <1>0, <2>3, OthersInOrder
    <2>. QED
      BY <2>1, <2>2, <2>4, <2>5 DEF OrderInv
  <1>5. ASSUME NEW n \in Nodes, ResumeSend(n)
        PROVE  OrderInv'
    BY <1>1, <1>5, ResumePending DEF ResumeSend, nodeVars
  <1>6. CASE UNCHANGED dkgVars
    BY <1>1, <1>6 DEF dkgVars, nodeVars, Pending, IsSending
  <1>. QED
    BY <1>2, <1>3, <1>4, <1>5, <1>6 DEF DKGNext

\* Dealings are neither lost nor overtaken on their way to the network, a full
\* channel and a suspended send included.
THEOREM DealingsInOrder == DKGSpec => []DealingsLeaveInOrder
  <1>1. DKGInit => OrderInv
    <2>1. SUFFICES ASSUME DKGInit, NEW n \in Nodes
                   PROVE  InOrder(n, Pending(n), published, dealt[n])
      BY DEF OrderInv
    <2>2. Pending(n) = <<>> /\ published = {} /\ dealt[n] = 0
      BY <2>1 DEF DKGInit, Pending, IsSending, Idle
    <2>. QED
      BY <2>2 DEF InOrder, Range
  <1>2. DKGInv /\ OrderInv /\ [DKGNext]_dkgVars => OrderInv'
    BY OrderStep DEF DKGInv
  <1>3. DKGInv /\ OrderInv => DealingsLeaveInOrder
    BY PendingType DEF DKGInv, OrderInv, InOrder, DealingsLeaveInOrder
  <1>. QED
    BY <1>1, <1>2, <1>3, Invariant, PTL DEF DKGSpec

(***************************************************************************)
(* DKGNode implements Dealing.                                             *)
(***************************************************************************)

\* A step that leaves the shares alone and sends no validation leaves what is
\* held and announced alone.
LEMMA SameDealing ==
    ASSUME UNCHANGED shares,
           \A m \in Messages' : m \in Messages \/ m.type # "ShareValidation",
           Messages \subseteq Messages'
    PROVE  UNCHANGED <<HeldDraws, Announced>>
  BY DEF HeldDraws, Announced

\* Starting the protocol is Dealing's Draw.
LEMMA StartDraws ==
    ASSUME DKGTypeOK, NEW n \in Dealers, StartDkg(n)
    PROVE  Dealings!Draw(n)
  <1>0. n \in Nodes
    BY DKGAssumption
  <1>1. PICK k : k = dealt[n] + 1
    OBVIOUS
  <1>2. /\ Distribution(n, k) \in Message
        /\ k \in 1..MaxDeals
        /\ Messages' = Messages \cup {Distribution(n, k)}
        /\ shares' = shares
        /\ dealt' = [dealt EXCEPT ![n] = dealt[n] + 1]
    BY <1>0, <1>1, StartEffect, BroadcastEffect
  <1>3. k \in Nat \ {0}
    BY <1>2, DKGAssumption
  <1>4. Distribution(n, k).type = "ShareDistribution"
    BY <1>0, <1>3, DistributionType
  <1>5. UNCHANGED <<HeldDraws, Announced>>
    BY <1>2, <1>4, SameDealing
  <1>. QED
    BY <1>2, <1>5 DEF Dealings!Draw

\* Storing a share and announcing it is Dealing's Accept.
LEMMA AcceptAccepts ==
    ASSUME DKGTypeOK, GenuineMessages, NEW n \in Nodes, NEW m \in published,
           NEW share \in MyShare(n, m.shares), m.type = "ShareDistribution",
           task[n] = Idle, AcceptShare(n, m, share)
    PROVE  Dealings!Accept(n, m.from, share.polynomial.draw)
  <1>1. m.from \in Nodes
    BY FoundShare
  <1> DEFINE v == ShareValidation(n, m.from)
             d == m.from
             k == share.polynomial.draw
  <1>2. v.type = "ShareValidation" /\ v.from = n /\ v.to = d
    BY <1>1, ValidationType
  <1>3. Messages' = Messages \cup {v}
    BY <1>1, ValidationType, BroadcastEffect DEF AcceptShare
  <1>4. Announced' = Announced \cup {<<n, d>>}
    BY <1>2, <1>3 DEF Announced
  <1>5. /\ shares'[n] = Insert(shares[n], d, share)
        /\ \A j \in Nodes \ {n} : shares'[j] = shares[j]
        /\ dealt' = dealt
    BY DEF AcceptShare, DKGTypeOK
  <1>6. [j \in DOMAIN shares'[n] |-> shares'[n][j].polynomial.draw]
           = Insert([j \in DOMAIN shares[n] |-> shares[n][j].polynomial.draw], d, k)
    BY <1>5 DEF Insert
  <1>7. HeldDraws' = [HeldDraws EXCEPT ![n] = Insert(@, d, k)]
    BY <1>5, <1>6 DEF HeldDraws
  <1>. QED
    BY <1>4, <1>5, <1>7 DEF Dealings!Accept, Dealings!Insert, Insert

\* What a node draws, holds and announces is a behaviour of Dealing.
THEOREM DealingRefined == DKGSpec => ImplementsDealing
  <1>1. DKGInit => Dealings!DealingInit
    <2>1. ASSUME DKGInit
          PROVE  /\ dealt = [d \in Nodes |-> 0]
                 /\ HeldDraws = [p \in Nodes |-> EmptyMap]
                 /\ Announced = {}
      <3>1. Messages = {}
        BY <2>1 DEF DKGInit, Messages, Unpublished, IsSending, Idle, Range
      <3>2. HeldDraws = [p \in Nodes |-> EmptyMap]
        BY <2>1 DEF DKGInit, HeldDraws, EmptyMap
      <3>. QED
        BY <2>1, <3>1, <3>2 DEF DKGInit, Announced
    <2>. QED
      BY <2>1 DEF Dealings!DealingInit, Dealings!EmptyMap, EmptyMap
  <1>2. ASSUME DKGInv, [DKGNext]_dkgVars
        PROVE  [Dealings!DealingNext]_(Dealings!dealingVars)
    <2>0. DKGTypeOK /\ GenuineMessages
      BY <1>2 DEF DKGInv
    <2>1. ASSUME NEW n \in Dealers, StartDkg(n)
          PROVE  Dealings!DealingNext
      BY <2>0, <2>1, StartDraws DEF Dealings!DealingNext
    <2>2. CASE UNCHANGED <<dealt, shares>> /\ Messages' = Messages
      BY <2>2, SameDealing DEF Dealings!dealingVars
    <2>3. ASSUME NEW n \in Nodes, NEW m \in published, NEW share \in MyShare(n, m.shares),
                 m.type = "ShareDistribution", m.from # n, task[n] = Idle,
                 AcceptShare(n, m, share)
          PROVE  Dealings!DealingNext
      <3>1. /\ m.from \in Nodes
            /\ IdParsed(n) \in 1..TotalNodes
            /\ share.polynomial.draw \in 1..dealt[m.from]
        BY <2>0, <2>3, FoundShare
      <3>2. n \in Eligible
        BY <3>1 DEF Eligible
      <3>3. Dealings!Accept(n, m.from, share.polynomial.draw)
        BY <2>0, <2>3, AcceptAccepts
      <3>4. m.from \in Dealers
        BY <1>2, <3>1 DEF DKGInv, OnlyDealersDraw
      <3>. QED
        BY <2>3, <3>1, <3>2, <3>3, <3>4 DEF Dealings!DealingNext
    <2>4. ASSUME NEW n \in Nodes, NEW m, task[n] = Idle, HandleShareValidation(n, m)
          PROVE  UNCHANGED <<dealt, shares>> /\ Messages' = Messages
      BY <2>0, <2>4, RecordEffect DEF HandleShareValidation
    <2>5. ASSUME NEW n \in Nodes, TakeMessage(n) \/ ResumeSend(n)
          PROVE  UNCHANGED <<dealt, shares>> /\ Messages' = Messages
      BY <2>0, <2>5, TakeEffect, ResumeEffect DEF TakeMessage, ResumeSend, nodeVars
    <2>6. CASE UNCHANGED dkgVars
      BY <2>2, <2>6 DEF Messages, Unpublished, IsSending, dkgVars, nodeVars
    <2>7. ASSUME NEW n \in Nodes, DeliverAny(n)
          PROVE  [Dealings!DealingNext]_(Dealings!dealingVars)
      BY <2>2, <2>3, <2>4, <2>6, <2>7, DeliverCases
    <2>. QED
      BY <1>2, <2>1, <2>2, <2>5, <2>6, <2>7 DEF DKGNext
  <1>. QED
    BY <1>1, <1>2, Invariant, PTL DEF DKGSpec, ImplementsDealing, Dealings!DealingSpec

=============================================================================
