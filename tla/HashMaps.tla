------------------------------ MODULE HashMaps ------------------------------
(***************************************************************************)
(* The std::collections::HashMap operations the node relies on.  A map is  *)
(* a function whose domain is the set of keys present, so an absent key    *)
(* and a key with a default value are different things, as they are in     *)
(* Rust.                                                                   *)
(***************************************************************************)

\* map is a HashMap<K, V>.
IsHashMap(map, K, V) == DOMAIN map \subseteq K /\ map \in [DOMAIN map -> V]

\* HashMap::new
EmptyMap == [k \in {} |-> k]

\* HashMap::insert: an existing entry is overwritten.
Insert(map, key, value) ==
    [k \in DOMAIN map \cup {key} |-> IF k = key THEN value ELSE map[k]]

\* HashMap::entry(key).or_insert_with(default), as a value.
EntryOr(map, key, default) == IF key \in DOMAIN map THEN map[key] ELSE default

=============================================================================
