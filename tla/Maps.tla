-------------------------------- MODULE Maps --------------------------------
(***************************************************************************)
(* The finite maps of the server (std HashMap, slab::Slab) as functions    *)
(* whose domain is the set of keys in use.                                 *)
(***************************************************************************)
EXTENDS Functions

\* f is a map from some of the keys K to values V.
IsMap(f, K, V) == f \in [DOMAIN f -> V] /\ DOMAIN f \subseteq K

\* The map without entries.
EmptyMap == [k \in {} |-> {}]

\* map.insert(k, v)
Put(f, k, v) == [x \in DOMAIN f \cup {k} |-> IF x = k THEN v ELSE f[x]]

\* map.remove(k), for every k in K; a key that is not there is ignored.
Drop(f, K) == Restrict(f, DOMAIN f \ K)

=============================================================================
