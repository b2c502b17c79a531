---------------------------- MODULE FrostSigner -----------------------------
(***************************************************************************)
(* The nonce queue of src/src/frost/mod.rs.  A nonce pair is named by the  *)
(* how-manieth pair its signer drew, and so is the commitment to it: two   *)
(* draws of random scalars are never the same.  What a signer must keep is *)
(* that it spends each pair once, in the order in which the others have    *)
(* its commitments.                                                        *)
(***************************************************************************)
EXTENDS Naturals, Sequences, Functions

CONSTANTS
    MaxCount,     \* bound: the pairs of one generate_nonces
    MaxNonces     \* bound: the pairs ever drawn

ASSUME FrostAssumption == MaxCount \in Nat /\ MaxNonces \in Nat

VARIABLES
    nonces,      \* FrostSigner.nonces
    generated,   \* pairs drawn so far
    spent,       \* the pairs sign has taken, in order
    looked,      \* the commitment the last sign looked at, in a set
    offered      \* what get_commitments last returned, and after how many signs

frostVars == <<nonces, generated, spent, looked, offered>>

FrostInit ==
    /\ nonces    = <<>>
    /\ generated = 0
    /\ spent     = <<>>
    /\ looked    = {}
    /\ offered   = [list |-> <<>>, after |-> 0]

GenerateNonces(count) ==
    /\ generated + count <= MaxNonces
    /\ nonces'    = nonces \o [i \in 1..count |-> generated + i]
    /\ generated' = generated + count
    /\ UNCHANGED <<spent, looked, offered>>

\* get_commitments: one commitment for each pair not yet spent.
GetCommitments ==
    /\ offered' = [list |-> nonces, after |-> Len(spent)]
    /\ UNCHANGED <<nonces, generated, spent, looked>>

\* self.get_commitments().get(0)
FirstCommitment(list) == IF list = <<>> THEN {} ELSE {Head(list)}

\* Mutant: swap_remove, which moves the last pair to the front.
SignSwapRemove ==
    /\ nonces # <<>>
    /\ spent'  = Append(spent, Head(nonces))
    /\ nonces' = [i \in 1..(Len(nonces) - 1) |-> IF i = 1 THEN nonces[Len(nonces)] ELSE nonces[i]]
    /\ looked' = FirstCommitment(nonces')
    /\ UNCHANGED <<generated, offered>>

\* sign; without a pair it returns None.
Sign ==
    /\ nonces # <<>>
    /\ spent'  = Append(spent, Head(nonces))
    /\ nonces' = Tail(nonces)
    /\ looked' = FirstCommitment(nonces')
    /\ UNCHANGED <<generated, offered>>

FrostNext ==
    \/ \E count \in 1..MaxCount : GenerateNonces(count)
    \/ GetCommitments
    \/ Sign

FrostSpec == FrostInit /\ [][FrostNext]_frostVars

----------------------------------------------------------------------------
(* Properties. *)

\* No pair is spent twice or skipped: those spent and those left are all that
\* were drawn, in the order drawn.  So whoever has a list of commitments can
\* tell the pair of every later signature by its position (frost/mod.rs:58);
\* and the commitment sign itself looks at, one line later, never belongs to a
\* pair spent so far, the one just taken included: it is the next one's.
NoncesSpentInOrder ==
    /\ spent \o nonces = [i \in 1..generated |-> i]
    /\ \A i \in 1..Len(offered.list) :
          offered.after + i <= Len(spent) => spent[offered.after + i] = offered.list[i]
    /\ looked \cap Range(spent) = {}

=============================================================================
