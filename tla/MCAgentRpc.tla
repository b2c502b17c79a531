----------------------------- MODULE MCAgentRpc -----------------------------
(* Instances of AgentRpc for TLC. *)
EXTENDS AgentRpc, TLC

CONSTANTS n1, n2, a1, a2, a3

NumericIds == (n1 :> 1) @@ (n2 :> 2)

\* bin/ptp.rs on two connections, an agent that tests the node and one that
\* sends it a share.
AgentRequests ==
    (a1 :> <<"StartADKG", "StartADKG">>) @@ (a2 :> <<"Ping">>) @@ (a3 :> <<"SendAVSSShare">>)

AllAskN1 == [a \in Agents |-> n1]

=============================================================================
