------------------------------ MODULE Encoding ------------------------------
(***************************************************************************)
(* How the values of fixed size cross the wire: the Serialize and          *)
(* Deserialize implementations of src/src/types/bls.rs and types/p2p.rs    *)
(* under the two formats in use, serde_json for gossip (dkg/mod.rs:134)    *)
(* and CBOR for requests and responses (types/rpc.rs:195-200).             *)
(*                                                                         *)
(* All three serializers call serialize_bytes.  CBOR writes that as a byte *)
(* string and hands it back to visit_bytes; JSON has no byte strings: it   *)
(* writes an array of numbers, for which a visitor needs visit_seq.        *)
(***************************************************************************)
EXTENDS Naturals

\* Bytes each serializer writes: to_compressed and to_bytes of bls12_381, and
\* to_bytes of the id of an ed25519 key (main.rs makes no other): a 2-byte
\* multihash header and 36 bytes of public key.
Size == [G1 |-> 48, Scalar |-> 32, PeerId |-> 38]

\* The serialize of all three.
Serialized(format, kind) ==
    [form |-> IF format = "json" THEN "array" ELSE "bytes", length |-> Size[kind]]

\* Mutant: visit_bytes alone.
G1VisitorBytesOnly(wire) == wire.form = "bytes" /\ wire.length = 48

\* G1AffineVisitor: visit_bytes or visit_seq.
G1Visitor(wire) == wire.form \in {"bytes", "array"} /\ wire.length = 48

\* ScalarVisitor: visit_bytes or visit_seq.
ScalarVisitor(wire) == wire.form \in {"bytes", "array"} /\ wire.length = 32

\* Mutant: the length of an ed25519 peer id.
PeerIdVisitorEd25519(wire) == wire.form = "bytes" /\ wire.length = 38

\* PeerIdVisitor: visit_bytes alone, with the length of a G1 point.
PeerIdVisitor(wire) == wire.form = "bytes" /\ wire.length = 48

Deserializes(kind, wire) ==
    \/ kind = "G1"     /\ G1Visitor(wire)
    \/ kind = "Scalar" /\ ScalarVisitor(wire)
    \/ kind = "PeerId" /\ PeerIdVisitor(wire)

\* A message decodes when each of the values it carries does.
Decodes(format, kinds) == \A k \in kinds : Deserializes(k, Serialized(format, k))

=============================================================================
