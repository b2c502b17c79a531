------------------------- MODULE NodeServicesProofs -------------------------
(***************************************************************************)
(* What the setup of a node, its event loop and the peer table keep, for   *)
(* every set of announced addresses, commands and values and every         *)
(* capacity.                                                               *)
(***************************************************************************)
EXTENDS NodeServices, TLAPS

(***************************************************************************)
(* The peer table.                                                         *)
(***************************************************************************)

\* The pair is the only one mdns may find of its peer.
Single(x) == \A y \in Announced : y[1] = x[1] => y = x

TableInv ==
    /\ live \subseteq Announced
    /\ \A p \in ConnectedPeers : <<p, peers[p].address>> \in live
    /\ \A x \in live : Single(x) => x[1] \in ConnectedPeers

\* An event of mdns keeps the table and the list together.
LEMMA TableStep ==
    ASSUME TableInv, [TableNext]_tableVars
    PROVE  TableInv'
  <1>1. ASSUME NEW batch \in SUBSET (Announced \ live), Discovered(batch)
        PROVE  TableInv'
    <2>1. /\ live' = live \cup batch
          /\ batch \subseteq Announced
      BY <1>1 DEF Discovered
    <2>2. PICK stored \in [PeersOf(batch) -> {x[2] : x \in batch}] :
             /\ \A p \in PeersOf(batch) : <<p, stored[p]>> \in batch
             /\ peers' = [p \in DOMAIN peers \cup PeersOf(batch) |->
                            IF p \in PeersOf(batch) THEN PeerInfo(stored[p], TRUE) ELSE peers[p]]
      BY <1>1 DEF Discovered
    <2>3. ASSUME NEW p \in PeersOf(batch)
          PROVE  /\ p \in ConnectedPeers'
                 /\ <<p, peers'[p].address>> \in batch
      BY <2>2, <2>3 DEF ConnectedPeers, PeerInfo
    <2>4. ASSUME NEW p, p \notin PeersOf(batch)
          PROVE  /\ p \in ConnectedPeers' <=> p \in ConnectedPeers
                 /\ p \in DOMAIN peers => peers'[p] = peers[p]
      BY <2>2, <2>4 DEF ConnectedPeers
    <2>5. ASSUME NEW p \in ConnectedPeers'
          PROVE  <<p, peers'[p].address>> \in live'
      <3>1. CASE p \in PeersOf(batch)
        BY <2>1, <2>3, <3>1
      <3>2. CASE p \notin PeersOf(batch)
        BY <2>1, <2>4, <2>5, <3>2 DEF TableInv, ConnectedPeers
      <3>. QED
        BY <3>1, <3>2
    <2>6. ASSUME NEW x \in live', Single(x)
          PROVE  x[1] \in ConnectedPeers'
      <3>1. CASE x[1] \in PeersOf(batch)
        BY <2>3, <3>1
      <3>2. CASE x[1] \notin PeersOf(batch)
        <4>1. x \in live
          BY <2>1, <2>6, <3>2 DEF PeersOf
        <4>. QED
          BY <2>4, <2>6, <3>2, <4>1 DEF TableInv
      <3>. QED
        BY <3>1, <3>2
    <2>. QED
      BY <2>1, <2>5, <2>6 DEF TableInv, Single
  <1>2. ASSUME NEW batch \in SUBSET live, Expired(batch)
        PROVE  TableInv'
    <2>1. /\ live' = live \ batch
          /\ peers' = [p \in DOMAIN peers |->
                         IF p \in PeersOf(batch) THEN PeerInfo(peers[p].address, FALSE)
                         ELSE peers[p]]
      BY <1>2 DEF Expired
    <2>2. ASSUME NEW p \in ConnectedPeers'
          PROVE  p \in ConnectedPeers /\ p \notin PeersOf(batch) /\ peers'[p] = peers[p]
      BY <2>1, <2>2 DEF ConnectedPeers, PeerInfo
    <2>3. ASSUME NEW p \in ConnectedPeers, p \notin PeersOf(batch)
          PROVE  p \in ConnectedPeers'
      BY <2>1, <2>3 DEF ConnectedPeers
    <2>4. ASSUME NEW p \in ConnectedPeers'
          PROVE  <<p, peers'[p].address>> \in live'
      <3>1. <<p, peers[p].address>> \in live
        BY <2>2, <2>4 DEF TableInv
      <3>2. <<p, peers[p].address>>[1] = p
        OBVIOUS
      <3>3. <<p, peers[p].address>> \notin batch
        BY <2>2, <2>4, <3>2 DEF PeersOf
      <3>4. <<p, peers[p].address>> \in live'
        BY <2>1, <3>1, <3>3
      <3>5. peers'[p].address = peers[p].address
        BY <2>2, <2>4
      <3>. QED
        BY <3>4, <3>5
    <2>5. ASSUME NEW x \in live', Single(x)
          PROVE  x[1] \in ConnectedPeers'
      <3>1. x \in live /\ x \notin batch /\ x[1] \in ConnectedPeers
        BY <2>1, <2>5 DEF TableInv
      <3>2. x[1] \notin PeersOf(batch)
        BY <2>5, <3>1 DEF PeersOf, Single, TableInv
      <3>. QED
        BY <2>3, <3>1, <3>2
    <2>. QED
      BY <2>1, <2>4, <2>5 DEF TableInv, Single
  <1>3. CASE UNCHANGED tableVars
    BY <1>3 DEF tableVars, TableInv, ConnectedPeers, Single
  <1>. QED
    BY <1>1, <1>2, <1>3 DEF TableNext

\* Everything else a node does leaves the table alone.
LEMMA ServicesTableStep ==
    ASSUME [ServicesNext]_servicesVars
    PROVE  [TableNext]_tableVars
  BY DEF ServicesNext, servicesVars, tableVars, SetupRegister, ReceiveCommand, SetupUpdateState,
         SetupSend, CloneSend, ReceiveConsensus, Start, HandleMessage, ReceiveMdns

\* The peer table says of every peer it calls connected that mdns vouches for
\* the address stored, and of the peers with one address exactly the listed
\* ones are connected, in every order of discoveries and expiries.
THEOREM TableMatches == ServicesSpec => []TableMatchesMdns
  <1>1. ServicesInit => TableInv
    BY DEF ServicesInit, TableInit, TableInv, ConnectedPeers, EmptyMap
  <1>2. TableInv /\ [ServicesNext]_servicesVars => TableInv'
    BY TableStep, ServicesTableStep
  <1>3. TableInv => TableMatchesMdns
    <2>1. SUFFICES ASSUME TableInv
                   PROVE  TableMatchesMdns
      OBVIOUS
    <2>2. ASSUME NEW x \in Announced, Single(x)
          PROVE  x \in live <=> x[1] \in ConnectedPeers
      <3>1. ASSUME x[1] \in ConnectedPeers
            PROVE  x \in live
        <4>1. PICK y : y = <<x[1], peers[x[1]].address>>
          OBVIOUS
        <4>2. y \in live /\ y \in Announced /\ y[1] = x[1]
          BY <2>1, <3>1, <4>1 DEF TableInv
        <4>. QED
          BY <2>2, <4>2 DEF Single
      <3>. QED
        BY <2>1, <2>2, <3>1 DEF TableInv
    <2>. QED
      BY <2>1, <2>2 DEF TableInv, TableMatchesMdns, Single
  <1>. QED
    BY <1>1, <1>2, <1>3, PTL DEF ServicesSpec

(***************************************************************************)
(* The channel, the setup and the loop.                                    *)
(***************************************************************************)

Msg == [id : Nat, kind : Kinds]

\* A full channel keeps setup code that sends from ever getting to start().
SetupInv ==
    /\ queue \in Seq(Msg)
    /\ sent \in Nat
    /\ Len(queue) <= Capacity
    /\ Len(waiting) = IF waiting = <<>> THEN 0 ELSE 1
    /\ BlockedSetupNeverStarts

\* What is sent next, whatever its kind, is a message.
LEMMA MessageType ==
    ASSUME sent \in Nat, NEW kind \in Kinds
    PROVE  Message(kind) \in Msg /\ Message(kind).id = sent + 1
  BY DEF Message, Msg

LEMMA SetupStep ==
    ASSUME SetupInv, [ServicesNext]_servicesVars
    PROVE  SetupInv'
  <1>. USE ServicesAssumption
  <1>1. CASE UNCHANGED <<life, queue, waiting, sent>>
    BY <1>1 DEF SetupInv, BlockedSetupNeverStarts
  <1>2. ASSUME NEW name \in Commands, SetupRegister(name) \/ ReceiveCommand(name)
        PROVE  SetupInv'
    BY <1>1, <1>2 DEF SetupRegister, ReceiveCommand, loopVars, SetupInv, BlockedSetupNeverStarts
  <1>3. ASSUME NEW key \in Keys, NEW value \in Values, SetupUpdateState(key, value)
        PROVE  SetupInv'
    BY <1>1, <1>3 DEF SetupUpdateState, loopVars
  <1>4. ASSUME NEW kind \in Kinds, SetupSend(kind)
        PROVE  SetupInv'
    <2>1. Message(kind) \in Msg
      BY MessageType DEF SetupInv
    <2>2. /\ life = "setup" /\ life' = life
          /\ sent' = sent + 1
      BY <1>4 DEF SetupSend, Setup
    <2>3. CASE Len(queue) < Capacity
      <3>1. queue' = Append(queue, Message(kind)) /\ waiting' = <<>>
        BY <1>4, <2>3 DEF SetupSend, Setup
      <3>. QED
        BY <2>1, <2>2, <2>3, <3>1 DEF SetupInv, BlockedSetupNeverStarts
    <2>4. CASE ~(Len(queue) < Capacity)
      <3>1. queue' = queue /\ waiting' = <<Message(kind)>>
        BY <1>4, <2>4 DEF SetupSend
      <3>. QED
        BY <2>2, <2>4, <3>1 DEF SetupInv, BlockedSetupNeverStarts
    <2>. QED
      BY <2>3, <2>4
  <1>5. ASSUME NEW kind \in Kinds, CloneSend(kind)
        PROVE  SetupInv'
    <2>1. Message(kind) \in Msg
      BY MessageType DEF SetupInv
    <2>. QED
      BY <1>5, <2>1 DEF CloneSend, SetupInv, BlockedSetupNeverStarts
  <1>6. ASSUME NEW m \in ConsensusMessage, ReceiveConsensus(m)
        PROVE  SetupInv'
    BY <1>1, <1>6 DEF ReceiveConsensus
  <1>7. CASE Start
    BY <1>7 DEF Start, Setup, SetupInv, BlockedSetupNeverStarts
  <1>8. CASE HandleMessage
    <2>1. waiting = <<>> /\ waiting' = <<>> /\ sent' = sent
      BY <1>8 DEF HandleMessage, SetupInv, BlockedSetupNeverStarts
    <2>2. queue' = Tail(queue) /\ queue # <<>>
      BY <1>8 DEF HandleMessage
    <2>. QED
      BY <2>1, <2>2 DEF SetupInv, BlockedSetupNeverStarts
  <1>9. CASE ReceiveMdns
    BY <1>1, <1>9 DEF ReceiveMdns, loopVars
  <1>10. CASE UNCHANGED servicesVars
    BY <1>1, <1>10 DEF servicesVars, loopVars
  <1>. QED
    BY <1>2, <1>3, <1>4, <1>5, <1>6, <1>7, <1>8, <1>9, <1>10 DEF ServicesNext

\* A call of broadcast or send_direct_message that finds the channel full
\* before start() waits for good, and start() is never reached.
THEOREM BlockedSetup == ServicesSpec => []BlockedSetupNeverStarts
  <1>1. ServicesInit => SetupInv
    BY ServicesAssumption DEF ServicesInit, SetupInv, BlockedSetupNeverStarts
  <1>2. SetupInv /\ [ServicesNext]_servicesVars => SetupInv'
    BY SetupStep
  <1>3. SetupInv => BlockedSetupNeverStarts
    BY DEF SetupInv
  <1>. QED
    BY <1>1, <1>2, <1>3, PTL DEF ServicesSpec

----------------------------------------------------------------------------
(* The log. *)

IsMessage(e) == e.event = "message"

Entry ==
    [event : {"message"}, of : Msg, result : {"ok", "err"}]
    \cup [event : {"command"}, of : Commands, result : {"ok", "err"}]
    \cup [event : {"consensus"}, of : {"Proposal", "Vote"}, result : {"ok", "err"}]

\* A message is an error exactly if it is misaddressed, anything else only if
\* somebody registered its handler.
ErrorHasCause(e, hs) ==
    IF IsMessage(e) THEN e.result = "err" <=> e.of.kind \in Misaddressed
    ELSE e.result = "err" => e.of \in hs

\* Where messages sit in a log, and which messages it holds.
At(lg)  == {i \in 1..Len(lg) : IsMessage(lg[i])}
Ids(lg) == {lg[i].of.id : i \in At(lg)}

\* The first t messages were handled, in their order, and those that follow
\* them are queued in theirs.
Accounted(lg, q, t) ==
    /\ t \in Nat
    /\ \A i, j \in At(lg) : i < j => lg[i].of.id < lg[j].of.id
    /\ Ids(lg) = 1..t
    /\ \A i \in 1..Len(q) : q[i].id = t + i

LogInv ==
    /\ log \in Seq(Entry)
    /\ \A i \in 1..Len(log) : log[i].result = "err" <=> i = Len(log) /\ life = "failed"
    /\ \A i \in 1..Len(log) : ErrorHasCause(log[i], handlers)
    /\ Accounted(log, queue, Taken)

\* A message that is sent is queued behind all the others.
LEMMA SendIsAccounted ==
    ASSUME NEW lg \in Seq(Entry), NEW q \in Seq(Msg), NEW t \in Nat, NEW m \in Msg,
           m.id = t + Len(q) + 1, Accounted(lg, q, t)
    PROVE  Accounted(lg, Append(q, m), t)
  <1>1. /\ Len(Append(q, m)) = Len(q) + 1 /\ Len(q) \in Nat
        /\ Append(q, m)[Len(q) + 1] = m
        /\ \A i \in 1..Len(q) : Append(q, m)[i] = q[i]
    OBVIOUS
  <1>. DEFINE r == Append(q, m)
  <1>2. ASSUME NEW i \in 1..Len(r)
        PROVE  r[i].id = t + i
    <2>1. CASE i \in 1..Len(q)
      BY <1>1, <2>1 DEF Accounted
    <2>2. CASE i = Len(q) + 1
      BY <1>1, <2>2
    <2>. QED
      BY <1>1, <2>1, <2>2
  <1>. HIDE DEF r
  <1>. QED
    BY <1>2 DEF Accounted, r

\* The message taken from the channel is the next one.
LEMMA TakeIsAccounted ==
    ASSUME NEW lg \in Seq(Entry), NEW q \in Seq(Msg), q # <<>>, NEW t \in Nat, NEW e \in Entry,
           IsMessage(e), e.of = Head(q), Accounted(lg, q, t)
    PROVE  Accounted(Append(lg, e), Tail(q), t + 1)
  <1>1. /\ Len(Tail(q)) = Len(q) - 1 /\ Len(q) \in Nat \ {0} /\ Len(lg) \in Nat
        /\ Head(q) = q[1]
        /\ \A i \in 1..Len(Tail(q)) : Tail(q)[i] = q[i + 1]
    OBVIOUS
  <1>2. /\ Len(Append(lg, e)) = Len(lg) + 1
        /\ Append(lg, e)[Len(lg) + 1] = e
        /\ \A i \in 1..Len(lg) : Append(lg, e)[i] = lg[i]
    OBVIOUS
  <1>. DEFINE l == Append(lg, e)
  <1>3. e.of.id = t + 1
    BY <1>1 DEF Accounted
  <1>4. At(l) = At(lg) \cup {Len(lg) + 1}
    BY <1>1, <1>2 DEF At
  <1>5. /\ l[Len(lg) + 1] = e
        /\ \A i \in At(lg) : l[i] = lg[i] /\ i \in 1..Len(lg)
    BY <1>2 DEF At
  <1>. HIDE DEF l
  <1>6. ASSUME NEW i \in At(lg)
        PROVE  lg[i].of.id \in 1..t
    BY <1>6 DEF Accounted, Ids
  <1>7. ASSUME NEW i \in At(l), NEW j \in At(l), i < j
        PROVE  l[i].of.id < l[j].of.id
    <2>1. i \in At(lg) /\ l[i] = lg[i]
      BY <1>1, <1>4, <1>5, <1>7
    <2>2. CASE j \in At(lg)
      BY <1>5, <1>7, <2>1, <2>2 DEF Accounted
    <2>3. CASE j = Len(lg) + 1
      <3>1. l[i].of.id \in 1..t
        BY <1>6, <2>1
      <3>2. l[j].of.id = t + 1
        BY <1>3, <1>5, <2>3
      <3>. QED
        BY <3>1, <3>2
    <2>. QED
      BY <1>4, <2>2, <2>3
  <1>8. Ids(l) = 1..(t + 1)
    <2>1. Ids(l) = Ids(lg) \cup {t + 1}
      <3>1. ASSUME NEW i \in At(lg)
            PROVE  l[i].of.id = lg[i].of.id
        BY <1>5, <3>1
      <3>2. l[Len(lg) + 1].of.id = t + 1
        BY <1>3, <1>5
      <3>. QED
        BY <1>4, <3>1, <3>2 DEF Ids
    <2>2. Ids(lg) = 1..t
      BY DEF Accounted
    <2>. QED
      BY <2>1, <2>2
  <1>9. ASSUME NEW i \in 1..Len(Tail(q))
        PROVE  Tail(q)[i].id = (t + 1) + i
    <2>1. i + 1 \in 1..Len(q) /\ Tail(q)[i] = q[i + 1]
      BY <1>1
    <2>2. q[i + 1].id = t + (i + 1)
      BY <2>1 DEF Accounted
    <2>. QED
      BY <2>1, <2>2
  <1>10. Accounted(l, Tail(q), t + 1)
    <2>. DEFINE r == Tail(q)
    <2>1. \A i \in 1..Len(r) : r[i].id = (t + 1) + i
      BY <1>9
    <2>. HIDE DEF r
    <2>2. Accounted(l, r, t + 1)
      BY <1>7, <1>8, <2>1 DEF Accounted
    <2>. QED
      BY <2>2 DEF r
  <1>. QED
    BY <1>10 DEF l

\* Anything else that is handled is no message.
LEMMA OtherIsAccounted ==
    ASSUME NEW lg \in Seq(Entry), NEW q \in Seq(Msg), NEW t \in Nat, NEW e \in Entry,
           ~IsMessage(e), Accounted(lg, q, t)
    PROVE  Accounted(Append(lg, e), q, t)
  <1>1. /\ Len(Append(lg, e)) = Len(lg) + 1 /\ Len(lg) \in Nat
        /\ Append(lg, e)[Len(lg) + 1] = e
        /\ \A i \in 1..Len(lg) : Append(lg, e)[i] = lg[i]
    OBVIOUS
  <1>. DEFINE l == Append(lg, e)
  <1>2. At(l) = At(lg) /\ \A i \in At(lg) : l[i] = lg[i]
    BY <1>1 DEF At
  <1>. HIDE DEF l
  <1>3. Ids(l) = Ids(lg)
    BY <1>2 DEF Ids
  <1>. QED
    BY <1>2, <1>3 DEF Accounted, l

\* The loop ends with the result it logs if that is an error.
LEMMA LogEffect ==
    ASSUME LogInv, NEW e \in Entry, life = "running", ErrorHasCause(e, handlers),
           log' = Append(log, e), life' = After(e.result), handlers' = handlers
    PROVE  /\ log' \in Seq(Entry)
           /\ \A i \in 1..Len(log') : log'[i].result = "err" <=> i = Len(log') /\ life' = "failed"
           /\ \A i \in 1..Len(log') : ErrorHasCause(log'[i], handlers')
  <1>1. log \in Seq(Entry) /\ Len(log) \in Nat
    BY DEF LogInv
  <1>2. /\ log' \in Seq(Entry)
        /\ Len(log') = Len(log) + 1
        /\ log'[Len(log) + 1] = e
        /\ \A i \in 1..Len(log) : log'[i] = log[i]
    BY <1>1
  <1>3. e.result = "err" <=> life' = "failed"
    BY DEF After, Entry
  <1>4. \A i \in 1..Len(log) : log[i].result # "err"
    BY DEF LogInv
  <1>5. ASSUME NEW i \in 1..Len(log')
        PROVE  i = Len(log) + 1 \/ i \in 1..Len(log)
    BY <1>1, <1>2
  <1>6. ASSUME NEW i \in 1..Len(log')
        PROVE  log'[i].result = "err" <=> i = Len(log') /\ life' = "failed"
    BY <1>1, <1>2, <1>3, <1>4, <1>5
  <1>7. ASSUME NEW i \in 1..Len(log')
        PROVE  ErrorHasCause(log'[i], handlers')
    BY <1>2, <1>5 DEF LogInv
  <1>. QED
    BY <1>2, <1>6, <1>7

LEMMA LogStep ==
    ASSUME SetupInv, LogInv, [ServicesNext]_servicesVars
    PROVE  LogInv'
  <1>0. /\ log \in Seq(Entry) /\ queue \in Seq(Msg) /\ sent \in Nat
        /\ Len(queue) \in Nat /\ Taken \in Nat
        /\ Accounted(log, queue, Taken)
    BY DEF SetupInv, LogInv, Accounted
  <1>1. CASE UNCHANGED <<life, queue, waiting, sent, log, handlers>>
    BY <1>1 DEF LogInv, Taken
  <1>2. ASSUME NEW name \in Commands, SetupRegister(name)
        PROVE  LogInv'
    <2>1. handlers \subseteq handlers' /\ UNCHANGED <<life, queue, waiting, sent, log>>
      BY <1>2 DEF SetupRegister, RegisterHandler, loopVars
    <2>2. \A i \in 1..Len(log) : ErrorHasCause(log[i], handlers')
      BY <2>1 DEF LogInv, ErrorHasCause
    <2>. QED
      BY <2>1, <2>2 DEF LogInv, Taken
  <1>3. ASSUME NEW name \in Commands, ReceiveCommand(name)
        PROVE  LogInv'
    <2>1. PICK result \in CommandResults(name) :
             /\ life = "running"
             /\ log' = Append(log, [event |-> "command", of |-> name, result |-> result])
             /\ life' = After(result)
             /\ UNCHANGED <<handlers, queue, waiting, sent>>
      BY <1>3 DEF ReceiveCommand, Logged
    <2>. DEFINE e == [event |-> "command", of |-> name, result |-> result]
    <2>2. e \in Entry /\ ~IsMessage(e) /\ e.result = result
      BY DEF Entry, IsMessage, CommandResults
    <2>3. ErrorHasCause(e, handlers)
      BY <2>2 DEF ErrorHasCause, CommandResults
    <2>. HIDE DEF e
    <2>4. log' = Append(log, e) /\ life' = After(e.result)
      BY <2>1, <2>2 DEF e
    <2>5. Accounted(log', queue', Taken')
      BY <1>0, <2>1, <2>2, <2>4, OtherIsAccounted DEF Taken
    <2>. QED
      BY <2>1, <2>2, <2>3, <2>4, <2>5, LogEffect DEF LogInv
  <1>4. ASSUME NEW key \in Keys, NEW value \in Values, SetupUpdateState(key, value)
        PROVE  LogInv'
    BY <1>1, <1>4 DEF SetupUpdateState, loopVars
  <1>5. ASSUME NEW kind \in Kinds, SetupSend(kind) \/ CloneSend(kind)
        PROVE  LogInv'
    <2>1. /\ UNCHANGED <<life, log, handlers>>
          /\ sent' = sent + 1
          /\ \/ /\ queue' = Append(queue, Message(kind))
                /\ waiting' = waiting /\ waiting = <<>>
             \/ /\ queue' = queue
                /\ waiting' = <<Message(kind)>> /\ waiting = <<>>
      <3>1. CASE SetupSend(kind)
        BY <3>1 DEF SetupSend, Setup
      <3>2. CASE CloneSend(kind)
        BY <3>2 DEF CloneSend, SetupInv, BlockedSetupNeverStarts
      <3>. QED
        BY <1>5, <3>1, <3>2
    <2>2. Message(kind) \in Msg /\ Message(kind).id = sent + 1
      BY <1>0, MessageType
    <2>3. Taken = sent - Len(queue)
      BY <1>0, <2>1 DEF Taken, SetupInv
    <2>4. CASE queue' = Append(queue, Message(kind)) /\ waiting' = <<>>
      <3>1. Taken' = Taken
        <4>1. Len(queue') = Len(queue) + 1 /\ Len(waiting') = 0
          BY <1>0, <2>2, <2>4
        <4>. QED
          BY <1>0, <2>1, <2>3, <4>1 DEF Taken
      <3>2. Message(kind).id = Taken + Len(queue) + 1
        BY <1>0, <2>2, <2>3
      <3>3. Accounted(log, queue', Taken)
        BY <1>0, <2>2, <2>4, <3>2, SendIsAccounted
      <3>. QED
        BY <2>1, <3>1, <3>3 DEF LogInv
    <2>5. CASE queue' = queue /\ waiting' = <<Message(kind)>>
      <3>1. Taken' = Taken
        <4>1. Len(waiting') = 1
          BY <2>5
        <4>. QED
          BY <1>0, <2>1, <2>3, <2>5, <4>1 DEF Taken
      <3>. QED
        BY <1>0, <2>1, <2>5, <3>1 DEF LogInv
    <2>. QED
      BY <2>1, <2>4, <2>5
  <1>6. ASSUME NEW m \in ConsensusMessage, ReceiveConsensus(m)
        PROVE  LogInv'
    <2>1. /\ life = "running"
          /\ log' = Append(log, [event |-> "consensus", of |-> m.type, result |-> "ok"])
          /\ UNCHANGED <<life, handlers, queue, waiting, sent>>
      BY <1>6 DEF ReceiveConsensus, Logged
    <2>. DEFINE e == [event |-> "consensus", of |-> m.type, result |-> "ok"]
    <2>2. e \in Entry /\ ~IsMessage(e) /\ e.result = "ok" /\ After(e.result) = "running"
      <3>1. m.type \in {"Proposal", "Vote"}
        BY DEF ConsensusMessage
      <3>. QED
        BY <3>1 DEF Entry, IsMessage, After
    <2>3. ErrorHasCause(e, handlers)
      BY <2>2 DEF ErrorHasCause
    <2>. HIDE DEF e
    <2>4. log' = Append(log, e) /\ life' = After(e.result)
      BY <2>1, <2>2 DEF e
    <2>5. Accounted(log', queue', Taken')
      BY <1>0, <2>1, <2>2, <2>4, OtherIsAccounted DEF Taken
    <2>. QED
      BY <2>1, <2>2, <2>3, <2>4, <2>5, LogEffect DEF LogInv
  <1>7. CASE Start
    <2>1. /\ life = "setup" /\ life' # "failed"
          /\ UNCHANGED <<queue, waiting, sent, log, handlers>>
      BY <1>7 DEF Start, Setup
    <2>. QED
      BY <2>1 DEF LogInv, Taken
  <1>8. CASE HandleMessage
    <2>. DEFINE result == ChannelResult(Head(queue).kind)
                e      == [event |-> "message", of |-> Head(queue), result |-> result]
    <2>1. /\ life = "running" /\ queue # <<>>
          /\ queue' = Tail(queue)
          /\ log' = Append(log, e)
          /\ life' = After(result)
          /\ UNCHANGED <<handlers, waiting, sent>>
      BY <1>8 DEF HandleMessage, Logged
    <2>2. /\ e \in Entry /\ IsMessage(e)
          /\ e.result = result /\ e.of = Head(queue)
      <3>1. Head(queue) \in Msg
        BY <1>0, <2>1
      <3>. QED
        BY <3>1 DEF Entry, IsMessage, ChannelResult
    <2>3. ErrorHasCause(e, handlers)
      BY <2>2 DEF ErrorHasCause, ChannelResult
    <2>. HIDE DEF e, result
    <2>4. life' = After(e.result)
      BY <2>1, <2>2
    <2>5. Accounted(log', queue', Taken')
      <3>1. Taken' = Taken + 1
        <4>1. Len(queue') = Len(queue) - 1
          BY <1>0, <2>1
        <4>2. Len(waiting) \in Nat
          BY DEF SetupInv
        <4>. QED
          BY <1>0, <2>1, <4>1, <4>2 DEF Taken
      <3>2. Accounted(log', queue', Taken + 1)
        BY <1>0, <2>1, <2>2, TakeIsAccounted
      <3>. QED
        BY <3>1, <3>2
    <2>. QED
      BY <2>1, <2>2, <2>3, <2>4, <2>5, LogEffect DEF LogInv
  <1>9. CASE ReceiveMdns
    BY <1>1, <1>9 DEF ReceiveMdns, loopVars
  <1>10. CASE UNCHANGED servicesVars
    BY <1>1, <1>10 DEF servicesVars, loopVars
  <1>. QED
    BY <1>2, <1>3, <1>4, <1>5, <1>6, <1>7, <1>8, <1>9, <1>10 DEF ServicesNext

\* The loop handles each message once and in the order of the sends, and ends
\* with the first error: of a Unicast that is not to the hex of a peer id, or
\* of a handler that somebody registered.
THEOREM LoopEndsAtError == ServicesSpec => []EndsAtFirstError
  <1>1. ServicesInit => SetupInv /\ LogInv
    <2>1. SUFFICES ASSUME ServicesInit
                   PROVE  SetupInv /\ LogInv
      OBVIOUS
    <2>2. queue = <<>> /\ waiting = <<>> /\ sent = 0 /\ log = <<>>
      BY <2>1 DEF ServicesInit
    <2>3. SetupInv
      BY <2>2, ServicesAssumption DEF SetupInv, BlockedSetupNeverStarts
    <2>4. Accounted(log, queue, Taken)
      BY <2>2 DEF Accounted, Ids, At, Taken
    <2>. QED
      BY <2>2, <2>3, <2>4 DEF LogInv
  <1>2. SetupInv /\ LogInv /\ [ServicesNext]_servicesVars => SetupInv' /\ LogInv'
    BY SetupStep, LogStep
  <1>3. SetupInv /\ LogInv => EndsAtFirstError
    <2>1. SUFFICES ASSUME SetupInv, LogInv
                   PROVE  EndsAtFirstError
      OBVIOUS
    <2>2. DOMAIN log = 1..Len(log) /\ DOMAIN queue = 1..Len(queue)
      BY <2>1 DEF SetupInv, LogInv
    <2>3. ASSUME NEW i \in DOMAIN log
          PROVE  /\ log[i].result = "err" <=> i = Len(log) /\ life = "failed"
                 /\ log[i].event = "message" =>
                       (log[i].result = "err" <=> log[i].of.kind \in Misaddressed)
                 /\ log[i].event # "message" /\ log[i].result = "err" =>
                       log[i].of \in handlers
      BY <2>1, <2>2 DEF LogInv, ErrorHasCause, IsMessage
    <2>4. ASSUME NEW i \in DOMAIN log, NEW j \in DOMAIN log,
                 i < j, {log[i].event, log[j].event} = {"message"}
          PROVE  log[i].of.id < log[j].of.id
      <3>1. i \in At(log) /\ j \in At(log)
        BY <2>2, <2>4 DEF At, IsMessage
      <3>. QED
        BY <2>1, <2>4, <3>1 DEF LogInv, Accounted
    <2>5. TakenIds = Ids(log)
      BY <2>2 DEF TakenIds, Ids, At, IsMessage
    <2>. QED
      BY <2>1, <2>2, <2>3, <2>4, <2>5 DEF EndsAtFirstError, LogInv, Accounted
  <1>. QED
    BY <1>1, <1>2, <1>3, PTL DEF ServicesSpec

=============================================================================
