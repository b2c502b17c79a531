----------------------------- MODULE SigningLoop -----------------------------
(***************************************************************************)
(* SigningNode in the event loop of src/src/network/mod.rs.  A program     *)
(* that embeds the crate calls start_signing before it hands the node to   *)
(* set_signing_node: from then on the node is a private field of a         *)
(* NetworkLayer whose start() never returns it.  Until start() runs nobody *)
(* reads the channel.                                                      *)
(*                                                                         *)
(* The loop decodes every payload as a GossipsubMessage and unwraps the    *)
(* result; start_signing broadcasts a SigningMessage, which is not one.    *)
(* The panic ends the task that runs start(), which is the whole node.     *)
(***************************************************************************)
EXTENDS SigningNode

VARIABLES
    phase,     \* "setup", "running" or "ended": the life of start()
    gossip,    \* messages gossipsub accepted for publication
    received   \* messages each node's loop has taken from gossipsub

loopVars == <<signingVars, phase, gossip, received>>

\* The variants of GossipsubMessage, as serde tags them.
GossipsubTags == {"DKG", "Signing", "Command", "Consensus"}

\* Mutant: what broadcast is given is wrapped, as broadcast_shares does.
TagWrapped(m) == "Signing"

\* The outermost tag of the bytes given to broadcast: the variant of
\* SigningMessage itself.
Tag(m) == m.type

\* serde_json::from_slice::<GossipsubMessage> is Ok.
Decodes(m) == Tag(m) \in GossipsubTags

----------------------------------------------------------------------------
LoopInit ==
    /\ SigningInit
    /\ phase    = [n \in Signers |-> "setup"]
    /\ gossip   = {}
    /\ received = [n \in Signers |-> {}]

SetupStartSigning(n) ==
    /\ phase[n] = "setup"
    /\ StartSigning(n)
    /\ UNCHANGED <<phase, gossip, received>>

\* start, which main can call once start_signing has returned.
Start(n) ==
    /\ phase[n] = "setup"
    /\ Idle(n)
    /\ phase' = [phase EXCEPT ![n] = "running"]
    /\ UNCHANGED <<signingVars, gossip, received>>

\* Mutant: the message is published and stays in the channel.
PublishSigningPeeks(n) ==
    /\ phase[n] = "running"
    /\ channel[n] # <<>>
    /\ published' = published \cup {Head(channel[n])}
    /\ gossip' = gossip \cup {Head(channel[n])}
    /\ UNCHANGED <<signerVars, channel, waiting, phase, received>>

\* handle_channel_message, with gossipsub.publish, which may refuse.
PublishSigning(n) ==
    /\ phase[n] = "running"
    /\ TakeSigningMessage(n)
    /\ \/ gossip' = gossip \cup {Head(channel[n])}
       \/ UNCHANGED gossip
    /\ UNCHANGED <<phase, received>>

\* handle_gossipsub_message, whose res.unwrap() panics on an Err.
ReceiveSigning(n, m) ==
    /\ phase[n] = "running"
    /\ m \in gossip \ received[n]
    /\ m.from # n
    /\ received' = [received EXCEPT ![n] = @ \cup {m}]
    /\ IF Decodes(m)
       THEN HandleSigningMessage(n, m) /\ UNCHANGED phase
       ELSE phase' = [phase EXCEPT ![n] = "ended"] /\ UNCHANGED signingVars
    /\ UNCHANGED gossip

LoopNext ==
    \E n \in Signers :
       \/ SetupStartSigning(n)
       \/ Start(n)
       \/ PublishSigning(n)
       \/ \E m \in gossip : ReceiveSigning(n, m)

LoopSpec == LoopInit /\ [][LoopNext]_loopVars

\* A network that hands what it accepted to every running peer.
LoopReliableSpec ==
    /\ LoopSpec
    /\ \A n \in Signers, m \in SigningMessage : WF_loopVars(ReceiveSigning(n, m))

----------------------------------------------------------------------------
(* Properties. *)

\* The loop does nothing to a SigningNode that SigningNode does not allow its
\* transport, so what holds there of thresholds and quorums holds here.
ImplementsSigning == SigningSpec

\* Each loop is in a phase of its life and keeps a set of messages.
LoopTypeOK ==
    /\ phase    \in [Signers -> {"setup", "running", "ended"}]
    /\ received \in [Signers -> SUBSET SigningMessage]

\* Nobody hears a signer: no commitment and no share is ever stored, no
\* signature share is ever sent, and a loop that took any message has ended.
NobodyHears ==
    \A n \in Signers :
       /\ commitments[n] = EmptyMap
       /\ signature_shares[n] = {}
       /\ SignatureShare(n) \notin SigningMessages
       /\ received[n] # {} <=> phase[n] = "ended"

\* One signer's start ends every peer that is running when gossipsub takes the
\* commitments, however the others interleave.
StartEndsTheOthers ==
    \A n \in Signers, m \in SigningMessage :
       (m \in gossip /\ phase[n] = "running" /\ m.from # n) ~> phase[n] = "ended"

\* "if peer(s) have already subscribed to this topic, they will recieve this
\* msg" (network/mod.rs:427-428): a signer whose commitments a peer's loop has
\* taken is in that peer's map.
ReceivedIsStored ==
    \A n \in Signers : \A m \in received[n] : m.from \in DOMAIN commitments[n]

=============================================================================
