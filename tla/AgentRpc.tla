------------------------------ MODULE AgentRpc ------------------------------
(***************************************************************************)
(* The requests of NetworkLayer seen from both ends: agents (bin/ptp.rs    *)
(* and others that speak the protocol of types/rpc.rs) send a request on   *)
(* every connection they establish, nodes answer from their event loop     *)
(* (network/mod.rs:223-316), and either side may lose the other.           *)
(*                                                                         *)
(* libp2p's request_response is external.  Decoding happens in the task of *)
(* the connection, before the event loop sees a request or the agent a     *)
(* response; a call ends for the agent with a response or with one         *)
(* OutboundFailure, after the request timeout (10 s) at the latest; and a  *)
(* request that has reached the node is served even if the agent has given *)
(* up on it, whose answer then goes nowhere.                               *)
(***************************************************************************)
EXTENDS NetworkLayer, Encoding

CONSTANTS
    Agents,
    Target,     \* the node each agent dials: args[1]
    Requests    \* bound: the request it sends on each connection it makes

\* GetDKGStatus aside, whose answers are NetworkLayer's told.
RPCRequest ==
    {"Custom", "GetPeerInfo", "Ping", "StartDKG", "StartADKG",
     "SendAVSSShare", "BroadcastCommitments", "SubmitComplaint", "DeclareADKGComplete"}

ASSUME AgentAssumption ==
    /\ Target   \in [Agents -> Nodes]
    /\ Requests \in [Agents -> Seq(RPCRequest)]
    /\ \A a \in Agents : "StartADKG" \in Range(Requests[a]) => Target[a] \in Dealers
    /\ IsFiniteSet(Agents)

\* One call per connection, the k-th of agent a.
Calls == UNION {{a} \X DOMAIN Requests[a] : a \in Agents}

Req(c)  == Requests[c[1]][c[2]]
Node(c) == Target[c[1]]

VARIABLES
    call,     \* where the request of each call is
    answer,   \* the response the node made to it
    outcome   \* what the agent has seen of it

agentVars == <<netVars, call, answer, outcome>>

----------------------------------------------------------------------------
(* Requests and responses, and the encoded values they carry. *)

RequestKinds(req) ==
    CASE req = "SendAVSSShare"        -> {"PeerId", "Scalar", "G1"}
      [] req = "BroadcastCommitments" -> {"PeerId", "G1"}
      [] req = "SubmitComplaint"      -> {"PeerId"}
      [] req = "DeclareADKGComplete"  -> {"PeerId", "Scalar"}
      [] OTHER                        -> {}

RPCResponse == {"Custom", "DKGStarted", "PeerInfo", "Pong", "Ack", "ShareAccepted"}

ResponseKinds(response) == IF response = "DKGStarted" THEN {"PeerId"} ELSE {}

\* The values in the gossiped messages of dkg/mod.rs:16-28.
GossipKinds(m) == IF m.type = "ShareDistribution" THEN {"Scalar", "G1"} ELSE {}

\* The response of a node that has a DKGNode, as main.rs's do.  verify_share
\* accepts every share.
Response(req) ==
    CASE req = "Ping"          -> "Pong"
      [] req = "GetPeerInfo"   -> "PeerInfo"
      [] req = "Custom"        -> "Custom"
      [] req = "StartADKG"     -> "DKGStarted"
      [] req = "SendAVSSShare" -> "ShareAccepted"
      [] OTHER                 -> "Ack"

----------------------------------------------------------------------------
AgentInit ==
    /\ NetInit
    /\ call    = [c \in Calls |-> "unsent"]
    /\ answer  = [c \in Calls |-> "none"]
    /\ outcome = [c \in Calls |-> "none"]

\* ConnectionEstablished at the agent, which sends its request, again on every
\* connection.
Connect(c) ==
    /\ call[c] = "unsent"
    /\ \A k \in 1..(c[2] - 1) : call[<<c[1], k>>] # "unsent"
    /\ call' = [call EXCEPT ![c] = "sent"]
    /\ UNCHANGED <<netVars, answer, outcome>>

\* The request reaches the node, and is handed to its loop if it decodes.  One
\* that is lost with its connection, or does not decode (an InboundFailure,
\* which the node logs), stays on its way for good.
Arrive(c) ==
    /\ call[c] = "sent"
    /\ Decodes("cbor", RequestKinds(Req(c)))
    /\ call' = [call EXCEPT ![c] = "arrived"]
    /\ IF Req(c) = "StartADKG" THEN RequestStart(Node(c)) ELSE UNCHANGED netVars
    /\ UNCHANGED <<answer, outcome>>

\* Mutant: a request whose agent no longer waits is served once more.
ServeAgain(c) ==
    /\ call[c] = "arrived"
    /\ task[Node(c)] = Idle
    /\ Req(c) = "StartADKG" /\ ServeStartADKG(Node(c))
    /\ call'   = [call EXCEPT ![c] = IF outcome[c] = "none" THEN "answered" ELSE "arrived"]
    /\ answer' = [answer EXCEPT ![c] = Response(Req(c))]
    /\ UNCHANGED outcome

\* Mutant: a key generation is only answered while its agent waits.
ServeOnlyWaiting(c) ==
    /\ call[c] = "arrived"
    /\ Req(c) = "StartADKG" /\ StartDkg(Node(c))
    /\ answered' = [answered EXCEPT ![Node(c)] = IF outcome[c] = "none" THEN @ + 1 ELSE @]
    /\ call'     = [call EXCEPT ![c] = "answered"]
    /\ answer'   = [answer EXCEPT ![c] = Response(Req(c))]
    /\ UNCHANGED <<gossipVars, asked, told, outcome>>

\* Mutant: the response does not wait for start_dkg.
ServeEarly(c) ==
    /\ call[c] = "arrived"
    /\ Req(c) = "StartADKG" /\ ServeStartADKG(Node(c))
    /\ call'   = [call EXCEPT ![c] = IF IsSending(Node(c))' THEN "serving" ELSE "answered"]
    /\ answer' = [answer EXCEPT ![c] = Response(Req(c))]
    /\ UNCHANGED outcome

\* The loop serves a request and sends the response; the error send_response
\* returns when the agent is gone is ignored.  A start_dkg that never returns
\* sends none.
Serve(c) ==
    /\ call[c] = "arrived"
    /\ task[Node(c)] = Idle
    /\ \/ Req(c) = "StartADKG" /\ ServeStartADKG(Node(c))
       \/ Req(c) # "StartADKG" /\ UNCHANGED netVars
    /\ IF IsSending(Node(c))'
         THEN call' = [call EXCEPT ![c] = "serving"] /\ UNCHANGED answer
         ELSE /\ call'   = [call EXCEPT ![c] = "answered"]
              /\ answer' = [answer EXCEPT ![c] = Response(Req(c))]
    /\ UNCHANGED outcome

\* The response reaches an agent that still waits for it: ReqRespMsg::Response
\* if it decodes, and OutboundFailure if not.
Hear(c) ==
    /\ call[c] = "answered"
    /\ outcome[c] = "none"
    /\ outcome' = [outcome EXCEPT ![c] =
                     IF Decodes("cbor", ResponseKinds(answer[c])) THEN "response" ELSE "undecodable"]
    /\ UNCHANGED <<netVars, call, answer>>

\* OutboundFailure at the agent: the request timeout, or a lost connection.
Fail(c) ==
    /\ call[c] # "unsent"
    /\ outcome[c] = "none"
    /\ outcome' = [outcome EXCEPT ![c] = "failure"]
    /\ UNCHANGED <<netVars, call, answer>>

AgentNext ==
    \/ \E c \in Calls : Connect(c) \/ Arrive(c) \/ Serve(c) \/ Hear(c) \/ Fail(c)
    \/ /\ \E n \in Nodes :
             \/ HandleChannelMessage(n)
             \/ ServeGetDKGStatus(n)
             \/ \E m \in gossip : ReceiveGossip(n, m) \/ ForgetSeen(n, m)
       /\ UNCHANGED <<call, answer, outcome>>

AgentSpec == AgentInit /\ [][AgentNext]_agentVars

----------------------------------------------------------------------------
(* Properties. *)

\* Calls, answers and outcomes of their types, an answer for exactly the calls
\* that are answered, and an outcome from an answer only for those.
CallsTyped ==
    /\ call    \in [Calls -> {"unsent", "sent", "arrived", "serving", "answered"}]
    /\ answer  \in [Calls -> RPCResponse \cup {"none"}]
    /\ outcome \in [Calls -> {"none", "response", "undecodable", "failure"}]
    /\ \A c \in Calls :
          /\ answer[c] = (IF call[c] = "answered" THEN Response(Req(c)) ELSE "none")
          /\ outcome[c] \in {"response", "undecodable"} => call[c] = "answered"

\* The types of the calls, and of the loops they are served in.
AgentTypeOK == NetTypeOK /\ CallsTyped

\* Requests and timeouts add nothing to what NetworkLayer says of a node.
ImplementsNetwork == NetSpec

Started(n) ==
    {c \in Calls : Req(c) = "StartADKG" /\ Node(c) = n /\ call[c] \in {"serving", "answered"}}

\* Each dealing of a node is the doing of one call, and a call is served once:
\* an agent that gives up on a call cannot take it back, and each connection
\* it makes to ask again is one more dealing (bin/ptp.rs:65-69), whatever it
\* saw of the earlier ones.
DealingsHaveCalls == \A n \in Dealers : dealt[n] = Cardinality(Started(n))

\* A call that carries a peer id, in its request or in its response, never ends
\* with a response: the agent that asks for a key generation learns of no
\* dealing, made or not, and no share ever reaches verify_share
\* (network/mod.rs:263-271), because the length types/p2p.rs:32 asks for is not
\* the length of a peer id.
PeerIdsNeverArrive ==
    \A c \in Calls :
       "PeerId" \in RequestKinds(Req(c)) \cup ResponseKinds(Response(Req(c))) =>
          outcome[c] # "response" /\ answer[c] # "ShareAccepted"

\* Everything the nodes gossip can be decoded, so the unwrap at
\* network/mod.rs:380 panics on nothing they publish for the key generation.
GossipDecodes == \A m \in published : Decodes("json", GossipKinds(m))

\* "here peer(s) will recieve the msg sent by other peer by peer.send.ptp"
\* (network/mod.rs:277, for the response sent at 275): an answer that reaches
\* the agent before it gives up is received as a response.
AnswersAreHeard == \A c \in Calls : outcome[c] # "undecodable"

=============================================================================
