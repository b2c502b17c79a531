--------------------------- MODULE ConsensusNode ----------------------------
(***************************************************************************)
(* src/src/consensus/mod.rs: a key-value state that update_state writes    *)
(* and the handlers of gossiped proposals and votes, which take &self and  *)
(* so change nothing.  current_round, proposals and votes are never        *)
(* written and left out; a hash is named by the value it is the hash of.   *)
(***************************************************************************)
EXTENDS HashMaps

CONSTANTS Keys, Values

VARIABLE state    \* ConsensusNode.state

ConsensusInit == state = EmptyMap

UpdateState(key, value) == state' = Insert(state, key, value)

VrfOutput == [secret_key : {"own", "other"}, hash : Values]

ConsensusMessage ==
    [type : {"Proposal"}, value : Values, vrf_proof : VrfOutput]
    \cup [type : {"Vote"}, proposal_hash : Values]

\* verify_vrf_proof compares hashes; the keyed proof is not looked at.
VerifyVrfProof(input, output) == output.hash = input

\* handle_proposal: the branch of a verified proposal is empty.
HandleProposal(m) ==
    \/ VerifyVrfProof(m.value, m.vrf_proof)  /\ UNCHANGED state
    \/ ~VerifyVrfProof(m.value, m.vrf_proof) /\ UNCHANGED state

HandleVote(m) == UNCHANGED state

HandleConsensus(m) ==
    \/ m.type = "Proposal" /\ HandleProposal(m)
    \/ m.type = "Vote"     /\ HandleVote(m)

=============================================================================
