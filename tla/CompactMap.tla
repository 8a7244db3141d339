----------------------------- MODULE CompactMap -----------------------------
(***************************************************************************)
(* compact_extinct (sokm-kernel/src/store.rs) keeps the live kernels in    *)
(* order and returns the map old_to_new, by which everything that refers   *)
(* to kernels by position is renumbered.                                   *)
(***************************************************************************)
EXTENDS Integers, Sequences, Functions

(***************************************************************************)
(* The positions in S, listed in order; n bounds the length of the list.   *)
(***************************************************************************)
IsEnumeration(e, S) ==
  /\ \A m, n \in DOMAIN e : m < n => e[m] < e[n]
  /\ Range(e) = S

Enumerations(S, n) ==
  {e \in UNION {[1 .. m -> S] : m \in 0 .. n} : IsEnumeration(e, S)}

\* kept[n] is the old position of the element that becomes n.
OldToNew(kept) == [i \in Range(kept) |-> CHOOSE n \in DOMAIN kept : kept[n] = i]

Picked(s, kept) == [n \in DOMAIN kept |-> s[kept[n]]]
=============================================================================
