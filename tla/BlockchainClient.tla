-------------------------- MODULE BlockchainClient --------------------------
(***************************************************************************)
(* src/src/chain/mod.rs: latest_block, written by sync_blocks(&self), of   *)
(* which any number may be in progress at once.  The chain and the         *)
(* websocket provider are external: the provider answers with the height   *)
(* the chain has at some moment of the call, or with an error.             *)
(***************************************************************************)
EXTENDS Naturals

CONSTANTS
    Syncs,       \* the calls of sync_blocks
    MaxHeight    \* bound: the height of the chain

ASSUME ChainAssumption == MaxHeight \in Nat

VARIABLES
    head,      \* the height of the chain
    latest,    \* BlockchainClient.latest_block
    sync       \* each call: where it is, latest_block when it began, its answer

chainVars == <<head, latest, sync>>

ChainInit ==
    /\ head   = 0
    /\ latest = 0
    /\ sync   = [s \in Syncs |-> [at |-> "idle", began |-> 0, height |-> 0]]

NewBlock ==
    /\ head < MaxHeight
    /\ head' = head + 1
    /\ UNCHANGED <<latest, sync>>

\* sync_blocks is called and awaits get_block_number.
BeginSync(s) ==
    /\ sync[s].at = "idle"
    /\ sync' = [sync EXCEPT ![s] = [at |-> "asking", began |-> latest, height |-> 0]]
    /\ UNCHANGED <<head, latest>>

\* The provider reads the height of the chain for the answer.
Answer(s) ==
    /\ sync[s].at = "asking"
    /\ sync' = [sync EXCEPT ![s] = [@ EXCEPT !.at = "answered", !.height = head]]
    /\ UNCHANGED <<head, latest>>

\* Mutant: unwrap_or_default on the answer.
FailSyncDefault(s) ==
    /\ sync[s].at \in {"asking", "answered"}
    /\ latest' = 0
    /\ sync'   = [sync EXCEPT ![s].at = "done"]
    /\ UNCHANGED head

\* The `?` on the answer: latest_block stays.
FailSync(s) ==
    /\ sync[s].at \in {"asking", "answered"}
    /\ sync' = [sync EXCEPT ![s].at = "done"]
    /\ UNCHANGED <<head, latest>>

\* The answer arrives and is written.
FinishSync(s) ==
    /\ sync[s].at = "answered"
    /\ latest' = sync[s].height
    /\ sync'   = [sync EXCEPT ![s].at = "done"]
    /\ UNCHANGED head

ChainNext ==
    \/ NewBlock
    \/ \E s \in Syncs : BeginSync(s) \/ Answer(s) \/ FailSync(s) \/ FinishSync(s)

ChainSpec == ChainInit /\ [][ChainNext]_chainVars

----------------------------------------------------------------------------
(* Properties. *)

\* Syncs that overlap may write their answers out of order (chain/mod.rs:28-29)
\* and take latest_block back, but never below what it was when the call that
\* writes began: syncs made one after the other only ever advance it.
SyncsAdvance ==
    [][\A s \in Syncs : latest' # latest /\ sync[s]' # sync[s]
          => sync[s].began <= latest' /\ latest' <= head]_chainVars

=============================================================================
