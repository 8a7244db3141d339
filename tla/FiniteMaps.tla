----------------------------- MODULE FiniteMaps -----------------------------
(***************************************************************************)
(* Finite maps, read and written the way the code does with its HashMaps   *)
(* of weights, ticks and counts, where an absent entry reads as 0.         *)
(***************************************************************************)
EXTENDS Integers, Functions

EmptyMap == [k \in {} |-> 0]

\* get().copied().unwrap_or(0)
Lookup(m, k) == IF k \in DOMAIN m THEN m[k] ELSE 0

\* insert and remove, for a set of keys
Put(m, K, v) == [k \in DOMAIN m \cup K |-> IF k \in K THEN v ELSE m[k]]
Without(m, K) == Restrict(m, DOMAIN m \ K)

\* current_tick.saturating_sub(last)
Elapsed(t, last) == IF t > last THEN t - last ELSE 0
=============================================================================
