----------------------------- MODULE MCExports ------------------------------
(***************************************************************************)
(* Instances of FrostSigner and BlockchainClient, the two parts of the     *)
(* crate that lib.rs exports and no node runs; neither sees the other, so  *)
(* one specification takes a step of either.                               *)
(***************************************************************************)
EXTENDS FrostSigner, BlockchainClient

ExportsInit == FrostInit /\ ChainInit

ExportsNext ==
    \/ FrostNext /\ UNCHANGED chainVars
    \/ ChainNext /\ UNCHANGED frostVars

ExportsSpec == ExportsInit /\ [][ExportsNext]_<<frostVars, chainVars>>

=============================================================================
