------------------------------ MODULE Dealing ------------------------------
(***************************************************************************)
(* What the key generation promises, without its messages: dealers draw    *)
(* polynomials, participants come to hold a share of some polynomial that  *)
(* was drawn, and a participant acknowledges a dealer only when it takes a *)
(* share of that dealer.  A dealer may draw again; a participant that held *)
(* a share of an earlier draw may move to a later one, or back.            *)
(***************************************************************************)
EXTENDS Naturals, HashMaps

CONSTANTS Participants, Dealers, Eligible

VARIABLES
    drawn,   \* how many polynomials each participant has drawn
    held,    \* participant -> dealer -> the draw it holds a share of
    acked    \* pairs <<participant, dealer>> of announced validations

dealingVars == <<drawn, held, acked>>

DealingInit ==
    /\ drawn = [d \in Participants |-> 0]
    /\ held  = [p \in Participants |-> EmptyMap]
    /\ acked = {}

Draw(d) ==
    /\ drawn' = [drawn EXCEPT ![d] = @ + 1]
    /\ UNCHANGED <<held, acked>>

Accept(p, d, k) ==
    /\ held'  = [held EXCEPT ![p] = Insert(@, d, k)]
    /\ acked' = acked \cup {<<p, d>>}
    /\ UNCHANGED drawn

DealingNext ==
    \/ \E d \in Dealers : Draw(d)
    \/ \E p \in Eligible : \E d \in Dealers \ {p} : \E k \in 1..drawn[d] : Accept(p, d, k)

DealingSpec == DealingInit /\ [][DealingNext]_dealingVars

=============================================================================
