--------------------------- MODULE MCNodeServices ---------------------------
(* Instances of NodeServices for TLC. *)
EXTENDS NodeServices

\* A peer found at a tcp and a quic address, and one with a single address.
TwoPeers == {<<"p1", "tcp">>, <<"p1", "quic">>, <<"p2", "tcp">>}

=============================================================================
