----------------------------- MODULE PeerTable ------------------------------
(***************************************************************************)
(* The peer table of src/src/network/mod.rs: NetworkLayer.peers, which the *)
(* event loop keeps from the Discovered and Expired events of libp2p's     *)
(* mdns behaviour.                                                         *)
(*                                                                         *)
(* mdns is external: it keeps a list of (peer, address) pairs, reports a   *)
(* batch of pairs when they enter the list and a batch when their time to  *)
(* live has run out; refreshing a pair it has already is no event.  The    *)
(* list changes in the poll that returns the event, so the loop handles an *)
(* event before mdns looks at its list again.                              *)
(***************************************************************************)
EXTENDS HashMaps

CONSTANT Announced    \* the <<peer, address>> pairs mdns may find

ASSUME AnnouncedAssumption == \A x \in Announced : x = <<x[1], x[2]>>

VARIABLES
    live,    \* mdns: the pairs that have not expired
    peers    \* NetworkLayer.peers: peer -> PeerInfo

tableVars == <<live, peers>>

PeersOf(pairs) == {x[1] : x \in pairs}

\* Discovered stores a vector of one address.
PeerInfo(address, connected) == [address |-> address, connected |-> connected]

TableInit ==
    /\ live  = {}
    /\ peers = EmptyMap

\* Mutant: the address stored first is kept.
DiscoveredKeepsAddress(batch) ==
    /\ live' = live \cup batch
    /\ \E stored \in [PeersOf(batch) -> {x[2] : x \in batch}] :
          /\ \A p \in PeersOf(batch) : <<p, stored[p]>> \in batch
          /\ peers' = [p \in DOMAIN peers \cup PeersOf(batch) |->
                         IF p \notin PeersOf(batch) THEN peers[p]
                         ELSE PeerInfo(IF p \in DOMAIN peers THEN peers[p].address ELSE stored[p], TRUE)]

\* Discovered: each pair overwrites what the table has of its peer, so of the
\* addresses a batch has of one peer the last stays.
Discovered(batch) ==
    /\ live' = live \cup batch
    /\ \E stored \in [PeersOf(batch) -> {x[2] : x \in batch}] :
          /\ \A p \in PeersOf(batch) : <<p, stored[p]>> \in batch
          /\ peers' = [p \in DOMAIN peers \cup PeersOf(batch) |->
                         IF p \in PeersOf(batch) THEN PeerInfo(stored[p], TRUE) ELSE peers[p]]

\* Expired: the peer of each pair is marked, whatever address the pair has.
Expired(batch) ==
    /\ live' = live \ batch
    /\ peers' = [p \in DOMAIN peers |->
                    IF p \in PeersOf(batch) THEN PeerInfo(peers[p].address, FALSE) ELSE peers[p]]

TableNext ==
    \/ \E batch \in SUBSET (Announced \ live) : batch # {} /\ Discovered(batch)
    \/ \E batch \in SUBSET live : batch # {} /\ Expired(batch)

----------------------------------------------------------------------------
(* Properties. *)

ConnectedPeers == {p \in DOMAIN peers : peers[p].connected}

\* What the table promises whoever counts or uses its connected peers
\* (network/mod.rs:325, 334): the address of a connected peer is one mdns
\* still vouches for, and of the peers with a single address exactly those
\* mdns lists are connected.  Of a peer with several addresses less is true:
\* the table drops it as soon as any one expires, until mdns finds a new one.
TableMatchesMdns ==
    /\ \A p \in ConnectedPeers : <<p, peers[p].address>> \in live
    /\ \A x \in Announced :
          (\A y \in Announced : y[1] = x[1] => y = x) =>
             (x \in live <=> x[1] \in ConnectedPeers)

=============================================================================
