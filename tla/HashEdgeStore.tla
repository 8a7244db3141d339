--------------------------- MODULE HashEdgeStore ----------------------------
(***************************************************************************)
(* HashEdgeStore (sokm/src/store.rs): two HashMaps, one of weights and one *)
(* of last-activation ticks, and the generic functions of sokm/src/ops.rs  *)
(* run on it.  Every method is an operator on the value of the store; the  *)
(* machine below is a caller that ticks, sets, touches and reindexes it.   *)
(*                                                                         *)
(* The two maps are not kept in step by construction: touch writes a tick  *)
(* for a pair that may have no weight yet, and every removal has to drop   *)
(* both entries.                                                           *)
(***************************************************************************)
EXTENDS Sokm

CONSTANTS
  MaxTick,       \* bound: the last tick the caller's clock reaches
  ClientTouches  \* the pairs the caller touches itself

ASSUME HashAssumption == MaxTick \in Nat /\ ClientTouches \subseteq Key

VARIABLES
  store,  \* the store: [weights, ticks]
  now     \* the caller's clock

vars == <<store, now>>

Time == 0 .. MaxTick

New == [weights |-> EmptyMap, ticks |-> EmptyMap]

(***************************************************************************)
(* impl EdgeStore for HashEdgeStore.                                       *)
(***************************************************************************)
GetWeight(s, k) == Lookup(s.weights, k)
LastActive(s, k) == Lookup(s.ticks, k)

\* The weight that neighbors(n) lists for j.
NeighborWeight(s, n, j) == GetWeight(s, Canonical(n, j))

Drop(s, K) == [weights |-> Without(s.weights, K), ticks |-> Without(s.ticks, K)]

\* Mutant: a weight of 0 is stored.
SetWeightZero(s, k, w) ==
  [weights |-> Put(s.weights, {k}, w), ticks |-> s.ticks]

SetWeight(s, k, w) ==
  IF w <= 0
  THEN Drop(s, {k})
  ELSE [weights |-> Put(s.weights, {k}, w), ticks |-> s.ticks]

ScaleAll(s) ==
  [weights |-> [k \in DOMAIN s.weights |-> Decayed[s.weights[k]]],
   ticks   |-> s.ticks]

ApplyIncrements(s, deltas) ==
  [weights |-> [k \in DOMAIN s.weights \cup DOMAIN deltas |->
                  Lookup(s.weights, k) + Lookup(deltas, k)],
   ticks   |-> s.ticks]

Touch(s, K, t) == [weights |-> s.weights, ticks |-> Put(s.ticks, K, t)]

\* Mutant: the tick entries stay.
PruneBelowKeepsTicks(s) ==
  [weights |-> Without(s.weights, {k \in DOMAIN s.weights : s.weights[k] < MinWeight}),
   ticks   |-> s.ticks]

\* Mutant: only weights that reached 0 are pruned.
PruneBelowZero(s) == Drop(s, {k \in DOMAIN s.weights : s.weights[k] <= 0})

PruneBelow(s) == Drop(s, {k \in DOMAIN s.weights : s.weights[k] < MinWeight})

\* Mutant: >= instead of > (docs/invariants.md, number 4).
PruneInactiveEarly(s, t) ==
  Drop(s, {k \in DOMAIN s.weights : Elapsed(t, LastActive(s, k)) >= P1})

PruneInactive(s, t) ==
  Drop(s, {k \in DOMAIN s.weights : Elapsed(t, LastActive(s, k)) > P1})

ReindexForCompact(s, f) ==
  [weights |-> Rekey(f, s.weights),
   ticks   |-> Rekey(f, Restrict(s.ticks, DOMAIN s.ticks \cap DOMAIN s.weights))]

(***************************************************************************)
(* sokm::decay, strengthen, prune and tick.  strengthen touches every pair *)
(* before apply_increments creates the new edges.                          *)
(***************************************************************************)
Decay(s) == ScaleAll(s)

Strengthen(s, act, t) ==
  ApplyIncrements(Touch(s, Pairs(act), t),
                  Increments([k \in Key |-> GetWeight(s, k)], act))

Prune(s, t) == PruneInactive(PruneBelow(s), t)

TickStore(s, act, t, mode) ==
  Prune(Strengthen(IF mode = "Skip" THEN s ELSE Decay(s), act, t), t)

-----------------------------------------------------------------------------
Init == store = New /\ now = 0

Cycle(act, t, mode) ==
  /\ t \in now .. MaxTick
  /\ store' = TickStore(store, act, t, mode)
  /\ now' = t

SetEdge(k, w) ==
  /\ store' = SetWeight(store, k, w)
  /\ UNCHANGED now

TouchEdge(k, t) ==
  /\ t \in now .. MaxTick
  /\ store' = Touch(store, {k}, t)
  /\ now' = t

Compact(f) ==
  /\ store' = ReindexForCompact(store, f)
  /\ UNCHANGED now

Next ==
  \/ \E act \in Activation, t \in Time, mode \in DecayMode : Cycle(act, t, mode)
  \/ \E k \in Key, w \in Weight : SetEdge(k, w)
  \/ \E k \in ClientTouches, t \in Time : TouchEdge(k, t)
  \/ \E f \in IndexMaps : Compact(f)

Spec == Init /\ [][Next]_vars

\* The caller keeps running cycles with decay, as every training loop does.
Fairness == WF_vars(\E act \in Activation, t \in Time : Cycle(act, t, "Apply"))

FairSpec == Spec /\ Fairness

-----------------------------------------------------------------------------
(***************************************************************************)
(* The maps hold weights and ticks of canonical keys.                      *)
(***************************************************************************)
TypeOK ==
  /\ store = [weights |-> store.weights, ticks |-> store.ticks]
  /\ DOMAIN store.weights \subseteq Key
  /\ store.weights \in [DOMAIN store.weights -> Weight \ {0}]
  /\ DOMAIN store.ticks \subseteq Key
  /\ store.ticks \in [DOMAIN store.ticks -> 0 .. now]
  /\ now \in Time

(***************************************************************************)
(* No tick outlives its edge: between calls an entry of the tick map       *)
(* belongs to a live edge, or to a pair the caller touched itself; a graph *)
(* touches none.  An entry left behind would be inherited by a later edge  *)
(* of the same pair: strengthen touches before the edge exists, and every  *)
(* removal and renumbering has to reach both maps.                         *)
(***************************************************************************)
NoOrphanTicks == DOMAIN store.ticks \subseteq DOMAIN store.weights \cup ClientTouches

(***************************************************************************)
(* The backend implements the abstract store: the two prune passes, the    *)
(* touch before the edge exists and the deferred increments amount to the  *)
(* per-edge law, for every caller.                                         *)
(***************************************************************************)
EdgesOf(s) ==
  [k \in DOMAIN s.weights |-> [w |-> s.weights[k], last |-> LastActive(s, k)]]

Abstract == INSTANCE EdgeStore WITH edges <- EdgesOf(store)
Implements == Abstract!Spec

(***************************************************************************)
(* Forgetting (Hoya's decay): once an edge is no longer set, moved or      *)
(* strengthened, decay alone removes it for good, however often the clock  *)
(* stands still.                                                           *)
(***************************************************************************)
Unused(k) ==
  \E act \in Activation, t \in Time, mode \in DecayMode :
    k \notin Pairs(act) /\ Cycle(act, t, mode)

Forgotten ==
  \A k \in Key : <>[][Unused(k)]_vars => <>[](k \notin DOMAIN store.weights)
=============================================================================
