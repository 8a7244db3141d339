-------------------------- MODULE SparseEdgeStore ---------------------------
(***************************************************************************)
(* SparseEdgeStore (sokm/src/sparse.rs): a CSR matrix whose pruned slots   *)
(* stay as zeros until a compaction, a buffer of edges not yet merged into *)
(* it, a map of last-activation ticks and a count of dead slots that       *)
(* triggers the compaction.                                                *)
(*                                                                         *)
(* csr maps the keys of csr_index to their slot's value, 0 for a dead      *)
(* slot; csr_rows, csr_cols and col_index are functions of it (compact     *)
(* rebuilds all of them together and no other method moves a slot).        *)
(* panicked records the out-of-bounds index that aborts compact.           *)
(*                                                                         *)
(* The machine is a client of the public API: every method, in any order,  *)
(* with indices the store accepts.                                         *)
(***************************************************************************)
EXTENDS Sokm, FiniteSets

CONSTANTS
  MaxTick,    \* bound: the last tick the caller's clock reaches
  Capacity,   \* the num_nodes the store is created with
  ClientKeys, \* the edges the client sets, increments and touches one by one
  MaxDead     \* bound: the largest dead_count explored

ASSUME SparseAssumption ==
  /\ IsFiniteSet(Node)
  /\ MaxTick \in Nat /\ Capacity \in Nat
  /\ ClientKeys \subseteq Key

VARIABLES
  store,  \* [num_nodes, csr, pending, ticks, dead_count, panicked]
  now     \* the caller's clock

vars == <<store, now>>

Time == 0 .. MaxTick

New ==
  [num_nodes |-> Capacity, csr |-> EmptyMap, pending |-> EmptyMap,
   ticks |-> EmptyMap, dead_count |-> 0, panicked |-> FALSE]

(***************************************************************************)
(* Reads.                                                                  *)
(***************************************************************************)
Dead(s) == {k \in DOMAIN s.csr : s.csr[k] <= 0}
LiveCsr(s) == DOMAIN s.csr \ Dead(s)
LivePending(s) == {k \in DOMAIN s.pending : s.pending[k] > 0}

GetWeight(s, k) == Lookup(s.csr, k) + Lookup(s.pending, k)
LastActive(s, k) == Lookup(s.ticks, k)
EdgeCount(s) == Cardinality(LiveCsr(s)) + Cardinality(LivePending(s))

\* Mutant: the reverse column index is not consulted.
NeighborWeightRow(s, n, j) ==
    (IF n < s.num_nodes THEN Lookup(s.csr, <<n, j>>) ELSE 0)
  + Lookup(s.pending, Canonical(n, j))

\* The total weight neighbors(n) lists for j: from n's row, from the reverse
\* column index, and from the buffer.
NeighborWeight(s, n, j) ==
    (IF n < s.num_nodes THEN Lookup(s.csr, <<n, j>>) ELSE 0)
  + Lookup(s.csr, <<j, n>>)
  + Lookup(s.pending, Canonical(n, j))

(***************************************************************************)
(* compact: merge, drop dead slots, rebuild.  A key whose row is not below *)
(* num_nodes indexes past the row-pointer vector.                          *)
(***************************************************************************)
\* Mutant: the buffer is cleared before it is merged.
MergedCsr(s) == Restrict(s.csr, LiveCsr(s))

Merged(s) == [k \in LiveCsr(s) \cup LivePending(s) |-> GetWeight(s, k)]

Compact(s) ==
  IF \E k \in DOMAIN Merged(s) : k[1] >= s.num_nodes
  THEN [s EXCEPT !.panicked = TRUE]
  ELSE [s EXCEPT !.csr = Merged(s), !.pending = EmptyMap, !.dead_count = 0]

MaybeCompact(s) ==
  IF DOMAIN s.csr # {} /\ s.dead_count * 4 > Cardinality(DOMAIN s.csr)
  THEN Compact(s)
  ELSE s

\* Zero the CSR slots of K, all of them live.
Kill(s, K) ==
  [s EXCEPT !.csr = [k \in DOMAIN s.csr |-> IF k \in K THEN 0 ELSE s.csr[k]],
            !.dead_count = @ + Cardinality(K)]

(***************************************************************************)
(* Writes.                                                                 *)
(***************************************************************************)
Grow(s, n) == IF n <= s.num_nodes THEN s ELSE [s EXCEPT !.num_nodes = n]

RemoveEdge(s, k) ==
  [Kill(s, {k} \cap LiveCsr(s)) EXCEPT
     !.pending = Without(s.pending, {k}), !.ticks = Without(s.ticks, {k})]

\* Mutant: the count goes down whether or not the slot was dead.
WriteSlotAlwaysRevives(s, k, w) ==
  [s EXCEPT !.csr = Put(s.csr, {k}, w), !.dead_count = IF @ > 0 THEN @ - 1 ELSE @]

WriteSlot(s, k, w) ==
  [s EXCEPT !.csr = Put(s.csr, {k}, w),
            !.dead_count = IF s.csr[k] = 0 /\ @ > 0 THEN @ - 1 ELSE @]

\* Mutant: < 0 instead of <= 0.
SetWeightZero(s, k, w) ==
  MaybeCompact(IF w < 0 THEN RemoveEdge(s, k)
               ELSE IF k \in DOMAIN s.csr THEN WriteSlot(s, k, w)
               ELSE [s EXCEPT !.pending = Put(s.pending, {k}, w)])

SetWeight(s, k, w) ==
  MaybeCompact(IF w <= 0 THEN RemoveEdge(s, k)
               ELSE IF k \in DOMAIN s.csr THEN WriteSlot(s, k, w)
               ELSE [s EXCEPT !.pending = Put(s.pending, {k}, w)])

\* Mutant: the buffer does not decay.
ScaleCsr(s) == [s EXCEPT !.csr = [k \in DOMAIN s.csr |-> Decayed[s.csr[k]]]]

ScaleAll(s) ==
  [s EXCEPT !.csr = [k \in DOMAIN s.csr |-> Decayed[s.csr[k]]],
            !.pending = [k \in DOMAIN s.pending |-> Decayed[s.pending[k]]]]

\* Mutant: a dead slot is taken for no slot.
ApplyIncrementsLive(s, deltas) ==
  [s EXCEPT !.csr = [k \in DOMAIN s.csr |->
                       s.csr[k] + IF s.csr[k] > 0 THEN Lookup(deltas, k) ELSE 0],
            !.pending = [k \in DOMAIN s.pending \cup (DOMAIN deltas \ LiveCsr(s)) |->
                           Lookup(s.pending, k) + Lookup(deltas, k)]]

\* A key with a CSR slot, dead or not, is incremented there.
ApplyIncrements(s, deltas) ==
  [s EXCEPT !.csr = [k \in DOMAIN s.csr |-> s.csr[k] + Lookup(deltas, k)],
            !.pending = [k \in DOMAIN s.pending \cup (DOMAIN deltas \ DOMAIN s.csr) |->
                           Lookup(s.pending, k) + Lookup(deltas, k)]]

Touch(s, K, t) == [s EXCEPT !.ticks = Put(s.ticks, K, t)]

PruneBelow(s) ==
  MaybeCompact(
    [Kill(s, {k \in LiveCsr(s) : s.csr[k] < MinWeight}) EXCEPT
       !.pending = Restrict(s.pending,
                            {k \in DOMAIN s.pending : s.pending[k] >= MinWeight})])

Stale(s, t, K) == {k \in K : Elapsed(t, LastActive(s, k)) > P1}

\* Mutant: the buffer is not pruned.
PruneInactiveCsr(s, t) ==
  MaybeCompact(
    [Kill(s, Stale(s, t, LiveCsr(s))) EXCEPT
       !.ticks = Without(s.ticks, Stale(s, t, LiveCsr(s)))])

PruneInactive(s, t) ==
  MaybeCompact(
    [Kill(s, Stale(s, t, LiveCsr(s))) EXCEPT
       !.ticks = Without(s.ticks, Stale(s, t, LiveCsr(s))),
       !.pending = Without(s.pending, Stale(s, t, DOMAIN s.pending))])

MaxIndex(f) == CHOOSE m \in Range(f) : \A n \in Range(f) : n <= m

\* Mutant: num_nodes is the largest new index instead of one more.
SizeTooSmall(f) == IF Range(f) = {} THEN 0 ELSE MaxIndex(f)

\* num_nodes of the store that reindex builds.
SizeAfter(f) == IF Range(f) = {} THEN 0 ELSE 1 + MaxIndex(f)

\* Mutant: the ticks do not follow the edges.
TicksForgotten(s, f) == EmptyMap

TicksReindexed(s, f) == Rekey(f, [k \in DOMAIN Merged(s) |-> LastActive(s, k)])

\* Live edges are re-keyed into the buffer of an empty store and compacted;
\* every survivor gets a tick entry, 0 if it had none.
Reindex(s, f) ==
  Compact([num_nodes |-> SizeAfter(f),
           csr |-> EmptyMap,
           pending |-> Rekey(f, Merged(s)),
           ticks |-> TicksReindexed(s, f),
           dead_count |-> 0,
           panicked |-> s.panicked])

(***************************************************************************)
(* sokm::decay, strengthen, prune and tick on this backend.                *)
(***************************************************************************)
Strengthen(s, act, t) ==
  ApplyIncrements(Touch(s, Pairs(act), t),
                  Increments([k \in Key |-> GetWeight(s, k)], act))

Prune(s, t) == PruneInactive(PruneBelow(s), t)

TickStore(s, act, t, mode) ==
  Prune(Strengthen(IF mode = "Skip" THEN s ELSE ScaleAll(s), act, t), t)

-----------------------------------------------------------------------------
Init == store = New /\ now = 0

\* The bounds of the exploration, on the value a call returns.
Returns(s) ==
  /\ ~store.panicked
  /\ s.dead_count <= MaxDead
  /\ \A k \in Key : GetWeight(s, k) <= MaxWeight
  /\ store' = s

InRange(k) == k[1] < store.num_nodes /\ k[2] < store.num_nodes

CallSetWeight(k, w) ==
  InRange(k) /\ Returns(SetWeight(store, k, w)) /\ UNCHANGED now
CallScaleAll == Returns(ScaleAll(store)) /\ UNCHANGED now
CallApplyIncrements(k, d) ==
  InRange(k) /\ Returns(ApplyIncrements(store, Put(EmptyMap, {k}, d))) /\ UNCHANGED now
CallTouch(k, t) == t >= now /\ Returns(Touch(store, {k}, t)) /\ now' = t
CallPruneBelow == Returns(PruneBelow(store)) /\ UNCHANGED now
CallPruneInactive(t) == t >= now /\ Returns(PruneInactive(store, t)) /\ now' = t
CallCompact == Returns(Compact(store)) /\ UNCHANGED now
CallGrow(n) == Returns(Grow(store, n)) /\ UNCHANGED now
CallReindex(f) == Returns(Reindex(store, f)) /\ UNCHANGED now
CallTick(act, t, mode) ==
  /\ \A k \in Pairs(act) : InRange(k)
  /\ t >= now /\ Returns(TickStore(store, act, t, mode)) /\ now' = t

Next ==
  \/ \E k \in ClientKeys, w \in Weight : CallSetWeight(k, w)
  \/ CallScaleAll
  \/ \E k \in ClientKeys, d \in Weight \ {0} : CallApplyIncrements(k, d)
  \/ \E k \in ClientKeys, t \in Time : CallTouch(k, t)
  \/ CallPruneBelow
  \/ \E t \in Time : CallPruneInactive(t)
  \/ CallCompact
  \/ \E n \in Node : CallGrow(n + 1)
  \/ \E f \in IndexMaps : CallReindex(f)
  \/ \E act \in Activation, t \in Time, mode \in DecayMode : CallTick(act, t, mode)

Spec == Init /\ [][Next]_vars

(***************************************************************************)
(* A client of the link layer: it runs whole cycles, which alone touch     *)
(* edges, and sets, grows, compacts and reindexes between them.            *)
(***************************************************************************)
LinkNext ==
  \/ \E act \in Activation, t \in Time, mode \in DecayMode : CallTick(act, t, mode)
  \/ \E k \in ClientKeys, w \in Weight : CallSetWeight(k, w)
  \/ CallCompact
  \/ \E n \in Node : CallGrow(n + 1)
  \/ \E f \in IndexMaps : CallReindex(f)

LinkSpec == Init /\ [][LinkNext]_vars

-----------------------------------------------------------------------------
(***************************************************************************)
(* Slots and buffered edges hold weights of canonical keys.                *)
(***************************************************************************)
TypeOK ==
  /\ store.num_nodes \in Nat
  /\ DOMAIN store.csr \subseteq Key
  /\ \A k \in DOMAIN store.csr : store.csr[k] \in Nat
  /\ DOMAIN store.pending \subseteq Key
  /\ \A k \in DOMAIN store.pending : store.pending[k] \in Nat \ {0}
  /\ DOMAIN store.ticks \subseteq Key
  /\ \A k \in DOMAIN store.ticks : store.ticks[k] \in 0 .. now
  /\ store.dead_count \in Nat
  /\ now \in Nat

(***************************************************************************)
(* An edge is in the CSR matrix or in the buffer, never in both: get_weight*)
(* sums the two, so an edge in both would be counted twice.  A dead slot   *)
(* still owns its key: increments of a pruned edge must revive the slot.   *)
(***************************************************************************)
CsrPendingDisjoint == DOMAIN store.csr \cap DOMAIN store.pending = {}

(***************************************************************************)
(* Garbage is bounded: between calls at most a quarter of the CSR slots    *)
(* are dead.  dead_count only over-approximates the dead slots (increments *)
(* revive a slot without decrementing it), so the trigger never fires late.*)
(***************************************************************************)
GarbageBounded ==
  /\ Cardinality(Dead(store)) <= store.dead_count
  /\ ~store.panicked => 4 * Cardinality(Dead(store)) <= Cardinality(DOMAIN store.csr)

(***************************************************************************)
(* A client that stays below num_nodes, growing before it uses a new       *)
(* index, never meets the out-of-bounds row, whatever it prunes or         *)
(* reindexes in between.                                                   *)
(***************************************************************************)
NeverPanics == ~store.panicked

(***************************************************************************)
(* Compaction, explicit or triggered, is invisible to reads of weights.    *)
(***************************************************************************)
CompactionInvisible ==
  [][CallCompact => \A k \in Key : GetWeight(store', k) = GetWeight(store, k)]_vars

(***************************************************************************)
(* The backend implements the abstract store: through dead slots, revived  *)
(* slots, the buffer, triggered compactions and re-keying, the live edges  *)
(* evolve by the per-edge law, for a client within num_nodes.              *)
(***************************************************************************)
LiveEdges ==
  [k \in DOMAIN Merged(store) |->
     [w |-> Merged(store)[k], last |-> LastActive(store, k)]]

Abstract == INSTANCE EdgeStore WITH edges <- LiveEdges
Implements == Abstract!Spec
=============================================================================
