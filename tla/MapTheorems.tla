---------------------------- MODULE MapTheorems ----------------------------
(***************************************************************************)
(* What inserting into and removing from a map does to its type, its keys  *)
(* and its values; and induction over the natural numbers.                 *)
(***************************************************************************)
EXTENDS Maps, TLAPS, WellFoundedInduction

\* The empty map has every type and no key.
LEMMA EmptyMapIsMap ==
    ASSUME NEW K, NEW V
    PROVE  IsMap(EmptyMap, K, V) /\ DOMAIN EmptyMap = {}
BY DEF EmptyMap, IsMap

\* Put keeps the type, adds the key and changes no other entry.
LEMMA PutIsMap ==
    ASSUME NEW K, NEW V, NEW f, IsMap(f, K, V), NEW k \in K, NEW v \in V
    PROVE  /\ IsMap(Put(f, k, v), K, V)
           /\ DOMAIN Put(f, k, v) = DOMAIN f \cup {k}
           /\ Put(f, k, v)[k] = v
           /\ \A x \in DOMAIN f : x # k => Put(f, k, v)[x] = f[x]
BY DEF Put, IsMap

\* Drop keeps the type, removes the given keys and changes no other entry.
LEMMA DropIsMap ==
    ASSUME NEW K, NEW V, NEW f, IsMap(f, K, V), NEW D
    PROVE  /\ IsMap(Drop(f, D), K, V)
           /\ DOMAIN Drop(f, D) = DOMAIN f \ D
           /\ \A x \in DOMAIN f \ D : Drop(f, D)[x] = f[x]
BY DEF Drop, Restrict, IsMap

\* Replacing the value of a key in use keeps the type, the keys and every other entry.
LEMMA ExceptIsMap ==
    ASSUME NEW K, NEW V, NEW f, IsMap(f, K, V), NEW k \in DOMAIN f, NEW v \in V
    PROVE  /\ IsMap([f EXCEPT ![k] = v], K, V)
           /\ DOMAIN [f EXCEPT ![k] = v] = DOMAIN f
           /\ [f EXCEPT ![k] = v][k] = v
           /\ \A x \in DOMAIN f : x # k => [f EXCEPT ![k] = v][x] = f[x]
BY DEF IsMap

-----------------------------------------------------------------------------
(* Induction over the natural numbers, on sets instead of predicates. *)

\* A set of natural numbers that is not empty has a least element.
LEMMA LeastNumber ==
    ASSUME NEW T \in SUBSET Nat, T # {}
    PROVE  \E x \in T : \A y \in T : x <= y
<1> DEFINE R == OpToRel(<, Nat)
<1>1. IsWellFoundedOn(R, Nat)
  BY NatLessThanWellFounded
<1>2. \A x, y \in Nat : x < y => <<x, y>> \in R
  BY DEF OpToRel
<1> HIDE DEF R
<1>3. PICK x \in T : \A y \in T : ~(<<y, x>> \in R)
  BY <1>1, WFMin
<1>4. \A y \in T : ~(y < x)
  BY <1>2, <1>3
<1>5. \A y \in T : x <= y
  BY <1>4
<1> QED BY <1>5

\* A set that has 0, and the successor of each of its elements, has every natural number.
LEMMA SetInduction ==
    ASSUME NEW T, 0 \in T, \A k \in Nat : k \in T => k + 1 \in T
    PROVE  \A k \in Nat : k \in T
<1> SUFFICES ASSUME Nat \ T # {} PROVE FALSE
  OBVIOUS
<1>1. PICK x \in Nat \ T : \A y \in Nat \ T : x <= y
  BY LeastNumber
<1>2. x # 0
  BY <1>1
<1>3. x - 1 \in Nat /\ x - 1 \in T
  BY <1>1, <1>2
<1> QED BY <1>1, <1>3

=============================================================================
