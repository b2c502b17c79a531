---------------------------- MODULE NodeServices ----------------------------
(***************************************************************************)
(* The life of one node around the key generation: what main.rs or another *)
(* user of the crate may call on a NetworkLayer before start() takes it    *)
(* over, start() itself, and the event loop of network/mod.rs with the     *)
(* channel, the peer table, the command processor and the consensus node.  *)
(*                                                                         *)
(* NetworkLayer and SigningLoop have the messages of the key generation    *)
(* and of the signers; here the channel holds what the public functions    *)
(* broadcast and send_direct_message put in it.  Both borrow the           *)
(* NetworkLayer, as start() does for as long as it runs, so they are only  *)
(* called before it, when nobody reads the channel; a clone from           *)
(* get_msg_tx sends at any time.                                           *)
(***************************************************************************)
EXTENDS PeerTable, CommandProcessor, ConsensusNode, Naturals, Sequences, FiniteSets

CONSTANTS
    Capacity,     \* of the mpsc channel
    MaxSends,     \* bound: messages put in the channel
    MaxEvents     \* bound: commands and consensus messages delivered

ASSUME ServicesAssumption ==
    Capacity \in Nat \ {0} /\ MaxSends \in Nat /\ MaxEvents \in Nat

VARIABLES
    life,       \* "setup", "running", "refused" by start(), or "failed"
    queue,      \* the mpsc channel
    waiting,    \* the setup call suspended on the full channel, as a sequence
    sent,       \* messages sent so far
    log         \* what the loop has handled, and with which result

loopVars     == <<life, queue, waiting, sent, log>>
servicesVars == <<tableVars, handlers, state, loopVars>>

\* A ChannelMessage, numbered in the order of the sends: a Broadcast, or a
\* Unicast to the hex of a peer id's bytes, to the hex of other bytes, or to a
\* peer id as everywhere else in the code, by its to_string (main.rs:66).
Kinds == {"broadcast", "unicast_hex", "unicast_other_hex", "unicast_base58"}

Misaddressed == {"unicast_other_hex", "unicast_base58"}

Message(kind) == [id |-> sent + 1, kind |-> kind]

\* Mutant: the error of from_bytes is logged and the message dropped.
ChannelResultHexOnly(kind) == IF kind = "unicast_base58" THEN "err" ELSE "ok"

\* Two `?` end the loop: that of hex::decode, as no base58 peer id is hex, and
\* that of PeerId::from_bytes, for hex of anything else.  A publish or a
\* send_request that fails is not an error of the loop.
ChannelResult(kind) == IF kind \in Misaddressed THEN "err" ELSE "ok"

Logged(event, of, result) == Append(log, [event |-> event, of |-> of, result |-> result])

\* The `?` of the loop.
After(result) == IF result = "err" THEN "failed" ELSE "running"

----------------------------------------------------------------------------
ServicesInit ==
    /\ TableInit /\ ProcessorInit /\ ConsensusInit
    /\ life    = "setup"
    /\ queue   = <<>>
    /\ waiting = <<>>
    /\ sent    = 0
    /\ log     = <<>>

\* The setup code runs unless a call of its own is suspended.
Setup == life = "setup" /\ waiting = <<>>

SetupRegister(name) ==
    /\ Setup
    /\ RegisterHandler(name)
    /\ UNCHANGED <<tableVars, state, loopVars>>

SetupUpdateState(key, value) ==
    /\ Setup
    /\ UpdateState(key, value)
    /\ UNCHANGED <<tableVars, handlers, loopVars>>

\* broadcast and send_direct_message: message_tx.send(..).await
SetupSend(kind) ==
    /\ Setup
    /\ sent < MaxSends
    /\ sent' = sent + 1
    /\ IF Len(queue) < Capacity
         THEN queue' = Append(queue, Message(kind)) /\ UNCHANGED waiting
         ELSE waiting' = <<Message(kind)>> /\ UNCHANGED queue
    /\ UNCHANGED <<tableVars, handlers, state, life, log>>

\* A task that holds a clone of the sender, once the channel has room.
CloneSend(kind) ==
    /\ life \in {"setup", "running"}
    /\ sent < MaxSends
    /\ Len(queue) < Capacity
    /\ sent'  = sent + 1
    /\ queue' = Append(queue, Message(kind))
    /\ UNCHANGED <<tableVars, handlers, state, life, waiting, log>>

\* Mutant: start() is spawned before the setup is done.
StartSpawned ==
    /\ life = "setup"
    /\ life' \in {"running", "refused"}
    /\ UNCHANGED <<tableVars, handlers, state, queue, waiting, sent, log>>

\* Mutant: what was queued before is dropped.
StartDrains ==
    /\ Setup
    /\ life' \in {"running", "refused"}
    /\ queue' = <<>>
    /\ UNCHANGED <<tableVars, handlers, state, waiting, sent, log>>

\* start(): building the swarm, listening, dialling args[1] and subscribing
\* may each fail before the loop begins.
Start ==
    /\ Setup
    /\ life' \in {"running", "refused"}
    /\ UNCHANGED <<tableVars, handlers, state, queue, waiting, sent, log>>

\* handle_channel_message, after recv.
HandleMessage ==
    /\ life = "running"
    /\ queue # <<>>
    /\ queue' = Tail(queue)
    /\ log'   = Logged("message", Head(queue), ChannelResult(Head(queue).kind))
    /\ life'  = After(ChannelResult(Head(queue).kind))
    /\ UNCHANGED <<tableVars, handlers, state, waiting, sent>>

Gossiped == {i \in DOMAIN log : log[i].event # "message"}

\* handle_gossipsub_message for a GossipsubMessage::Command
ReceiveCommand(name) ==
    /\ life = "running"
    /\ Cardinality(Gossiped) < MaxEvents
    /\ \E result \in CommandResults(name) :
          log' = Logged("command", name, result) /\ life' = After(result)
    /\ UNCHANGED <<tableVars, handlers, state, queue, waiting, sent>>

\* handle_gossipsub_message for a GossipsubMessage::Consensus
ReceiveConsensus(m) ==
    /\ life = "running"
    /\ Cardinality(Gossiped) < MaxEvents
    /\ HandleConsensus(m)
    /\ log' = Logged("consensus", m.type, "ok")
    /\ UNCHANGED <<tableVars, handlers, life, queue, waiting, sent>>

\* The mdns events the loop handles.
ReceiveMdns ==
    /\ life = "running"
    /\ TableNext
    /\ UNCHANGED <<handlers, state, loopVars>>

ServicesNext ==
    \/ \E name \in Commands : SetupRegister(name) \/ ReceiveCommand(name)
    \/ \E key \in Keys, value \in Values : SetupUpdateState(key, value)
    \/ \E kind \in Kinds : SetupSend(kind) \/ CloneSend(kind)
    \/ \E m \in ConsensusMessage : ReceiveConsensus(m)
    \/ Start \/ HandleMessage \/ ReceiveMdns

\* Setup code reaches start(), as main.rs does at once, and select! polls its
\* branches in random order, so a channel with a message in it is read.
ServicesSpec ==
    /\ ServicesInit /\ [][ServicesNext]_servicesVars
    /\ WF_servicesVars(Start) /\ WF_servicesVars(HandleMessage)

----------------------------------------------------------------------------
(* Properties. *)

\* A call of broadcast or send_direct_message that finds the channel full
\* (network/mod.rs:455, 463) never returns: the only reader is the loop of the
\* start() it keeps from being called.
BlockedSetupNeverStarts ==
    waiting # <<>> => life = "setup" /\ Len(queue) = Capacity

\* How many messages the loop has taken from the channel, and which.
Taken    == sent - Len(queue) - Len(waiting)
TakenIds == {log[i].of.id : i \in {j \in DOMAIN log : log[j].event = "message"}}

\* The loop handles every message once and in the order of the sends, and ends
\* with the first error of a handler, after which it handles nothing: what was
\* sent behind a Unicast that is not to the hex of a peer id, the one message
\* that is always an error (network/mod.rs:438-439), is left in the channel.
\* Of commands only one with a handler may end the loop (commands/mod.rs:38-57).
EndsAtFirstError ==
    /\ \A i \in DOMAIN log :
          /\ log[i].result = "err" <=> i = Len(log) /\ life = "failed"
          /\ log[i].event = "message" =>
                (log[i].result = "err" <=> log[i].of.kind \in Misaddressed)
          /\ log[i].event # "message" /\ log[i].result = "err" => log[i].of \in handlers
    /\ \A i, j \in DOMAIN log :
          i < j /\ {log[i].event, log[j].event} = {"message"} => log[i].of.id < log[j].of.id
    /\ TakenIds = 1..Taken
    /\ \A i \in DOMAIN queue : queue[i].id = Taken + i

Handled(id) == \E i \in DOMAIN log : log[i].event = "message" /\ log[i].of.id = id

\* No message is lost in the channel: once sent it is handled, unless setup is
\* blocked or the loop ends first.
SentIsHandled ==
    \A id \in 1..MaxSends :
       sent >= id ~> Handled(id) \/ waiting # <<>> \/ life \in {"refused", "failed"}

=============================================================================
