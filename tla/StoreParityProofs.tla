------------------------- MODULE StoreParityProofs --------------------------
(***************************************************************************)
(* The two backends answer alike, for every set of nodes, configuration    *)
(* and history of calls that sets no edge over a stale tick.               *)
(*                                                                         *)
(* Both act on their live edges as the abstract store prescribes, whose    *)
(* one choice, the tick of a new edge, both then make as 0: the hash store *)
(* because no tick in it outlives its edge.  So both have the same live    *)
(* edges, and every read is a function of those.                           *)
(***************************************************************************)
EXTENDS StoreParity, FiniteSetTheorems, TLAPS

HP == INSTANCE HashEdgeStoreProofs WITH store <- hash, ClientTouches <- {}
SP == INSTANCE SparseEdgeStoreProofs WITH store <- sparse, kernels <- 0

(***************************************************************************)
(* The assumptions of the two developments hold of this composition.       *)
(***************************************************************************)
LEMMA HashConstants == HP!ConfigAssumption /\ HP!HashAssumption
<1>1. HP!Weight = Weight
  BY DEF HP!Weight, Weight
<1>2. HP!ConfigAssumption
  BY <1>1, ConfigAssumption DEF HP!ConfigAssumption
<1>3. HP!HashAssumption
  BY ParityAssumption DEF HP!HashAssumption
<1> QED
  BY <1>2, <1>3

LEMMA SparseConstants == SP!ConfigAssumption /\ SP!SparseAssumption
<1>1. SP!Weight = Weight
  BY DEF SP!Weight, Weight
<1>2. SP!ConfigAssumption
  BY <1>1, ConfigAssumption DEF SP!ConfigAssumption
<1>3. SP!Key = Key
  BY DEF SP!Key, Key
<1>4. SP!SparseAssumption
  BY <1>3, ParityAssumption DEF SP!SparseAssumption, SP!IsFiniteSet, IsFiniteSet
<1> QED
  BY <1>2, <1>4

(***************************************************************************)
(* One vocabulary: every instance defines the same operators on the same   *)
(* constants.                                                              *)
(***************************************************************************)
LEMMA HashKeys ==
  /\ HP!Key = Key /\ HP!Weight = Weight /\ HP!Activation = Activation
  /\ HP!IndexMaps = IndexMaps /\ HP!DecayMode = DecayMode /\ HP!Time = H!Time
  /\ H!Key = Key
  /\ \A act : H!Pairs(act) = Pairs(act) /\ HP!Pairs(act) = Pairs(act)
<1>1. HP!Key = Key /\ H!Key = Key
  BY DEF HP!Key, H!Key, Key
<1>2. HP!Weight = Weight /\ HP!DecayMode = DecayMode /\ HP!Time = H!Time
  BY DEF HP!Weight, Weight, HP!DecayMode, DecayMode, HP!Time, H!Time
<1>3. HP!Activation = Activation
  BY DEF HP!Activation, Activation
<1>4. HP!IndexMaps = IndexMaps
  BY DEF HP!IndexMaps, IndexMaps, HP!IsIndexMap, IsIndexMap, HP!Range, Range
<1>5. \A act : H!Pairs(act) = Pairs(act) /\ HP!Pairs(act) = Pairs(act)
  BY <1>1 DEF H!Pairs, HP!Pairs, Pairs
<1> QED
  BY <1>1, <1>2, <1>3, <1>4, <1>5

LEMMA HashMethods ==
  /\ H!New = HP!New
  /\ \A s, k : H!GetWeight(s, k) = HP!GetWeight(s, k)
               /\ H!LastActive(s, k) = HP!LastActive(s, k)
  /\ \A s, k, w : H!SetWeight(s, k, w) = HP!SetWeight(s, k, w)
  /\ \A s, f : H!ReindexForCompact(s, f) = HP!ReindexForCompact(s, f)
  /\ \A s, act, t, mode : H!TickStore(s, act, t, mode) = HP!TickStore(s, act, t, mode)
<1>1. /\ H!New = HP!New
      /\ \A s, k : H!GetWeight(s, k) = HP!GetWeight(s, k)
                   /\ H!LastActive(s, k) = HP!LastActive(s, k)
  BY DEF H!New, HP!New, H!EmptyMap, HP!EmptyMap, H!GetWeight, HP!GetWeight,
         H!LastActive, HP!LastActive, H!Lookup, HP!Lookup
<1>2. \A s, K : H!Drop(s, K) = HP!Drop(s, K)
  BY DEF H!Drop, HP!Drop, H!Without, HP!Without, H!Restrict, HP!Restrict
<1>3. \A s, k, w : H!SetWeight(s, k, w) = HP!SetWeight(s, k, w)
  BY <1>2 DEF H!SetWeight, HP!SetWeight, H!Put, HP!Put
<1>4. \A s, f : H!ReindexForCompact(s, f) = HP!ReindexForCompact(s, f)
  BY DEF H!ReindexForCompact, HP!ReindexForCompact, H!Rekey, HP!Rekey, H!Mapped, HP!Mapped,
         H!MapKey, HP!MapKey, H!Canonical, HP!Canonical, H!Restrict, HP!Restrict
<1>5. \A s : H!Decay(s) = HP!Decay(s)
  BY DEF H!Decay, HP!Decay, H!ScaleAll, HP!ScaleAll
<1>6. \A s, act, t : H!Strengthen(s, act, t) = HP!Strengthen(s, act, t)
  BY DEF H!Strengthen, HP!Strengthen, H!ApplyIncrements, HP!ApplyIncrements, H!Touch, HP!Touch,
         H!Put, HP!Put, H!Increments, HP!Increments, H!NewWeight, HP!NewWeight,
         H!Pairs, HP!Pairs, H!Key, HP!Key, H!Lookup, HP!Lookup, H!GetWeight, HP!GetWeight
<1>7. \A s, t : H!Prune(s, t) = HP!Prune(s, t)
  BY <1>1, <1>2 DEF H!Prune, HP!Prune, H!PruneInactive, HP!PruneInactive,
         H!PruneBelow, HP!PruneBelow, H!Elapsed, HP!Elapsed
<1>8. \A s, act, t, mode : H!TickStore(s, act, t, mode) = HP!TickStore(s, act, t, mode)
  BY <1>5, <1>6, <1>7 DEF H!TickStore, HP!TickStore
<1> QED
  BY <1>1, <1>3, <1>4, <1>8

LEMMA SparseKeys ==
  /\ SP!Key = Key /\ SP!Weight = Weight /\ SP!Activation = Activation
  /\ SP!IndexMaps = IndexMaps /\ SP!DecayMode = DecayMode /\ SP!Time = S!Time
  /\ S!Key = Key
  /\ \A act : S!Pairs(act) = Pairs(act) /\ SP!Pairs(act) = Pairs(act)
<1>1. SP!Key = Key /\ S!Key = Key
  BY DEF SP!Key, S!Key, Key
<1>2. SP!Weight = Weight /\ SP!DecayMode = DecayMode /\ SP!Time = S!Time
  BY DEF SP!Weight, Weight, SP!DecayMode, DecayMode, SP!Time, S!Time
<1>3. SP!Activation = Activation
  BY DEF SP!Activation, Activation
<1>4. SP!IndexMaps = IndexMaps
  BY DEF SP!IndexMaps, IndexMaps, SP!IsIndexMap, IsIndexMap, SP!Range, Range
<1>5. \A act : S!Pairs(act) = Pairs(act) /\ SP!Pairs(act) = Pairs(act)
  BY <1>1 DEF S!Pairs, SP!Pairs, Pairs
<1> QED
  BY <1>1, <1>2, <1>3, <1>4, <1>5

LEMMA SparseMethods ==
  /\ S!New = SP!New
  /\ \A s, k : /\ S!GetWeight(s, k) = SP!GetWeight(s, k)
               /\ S!LastActive(s, k) = SP!LastActive(s, k)
  /\ \A s : S!LiveCsr(s) = SP!LiveCsr(s) /\ S!LivePending(s) = SP!LivePending(s)
  /\ \A s : S!Compact(s) = SP!Compact(s)
  /\ \A s, n : S!Grow(s, n) = SP!Grow(s, n)
  /\ \A s, k, w : S!SetWeight(s, k, w) = SP!SetWeight(s, k, w)
  /\ \A s, f : S!Reindex(s, f) = SP!Reindex(s, f)
  /\ \A s, act, t, mode : S!TickStore(s, act, t, mode) = SP!TickStore(s, act, t, mode)
<1>1. S!New = SP!New
  BY DEF S!New, SP!New, S!EmptyMap, SP!EmptyMap
<1>2. \A s, k : /\ S!GetWeight(s, k) = SP!GetWeight(s, k)
                /\ S!LastActive(s, k) = SP!LastActive(s, k)
  BY DEF S!GetWeight, SP!GetWeight, S!LastActive, SP!LastActive, S!Lookup, SP!Lookup
<1>3. \A s : S!LiveCsr(s) = SP!LiveCsr(s) /\ S!LivePending(s) = SP!LivePending(s)
  BY DEF S!LiveCsr, SP!LiveCsr, S!Dead, SP!Dead, S!LivePending, SP!LivePending
<1>4. \A s : S!Merged(s) = SP!Merged(s)
  BY <1>2, <1>3 DEF S!Merged, SP!Merged
<1>5. \A s : S!Compact(s) = SP!Compact(s)
  BY <1>4 DEF S!Compact, SP!Compact, S!EmptyMap, SP!EmptyMap
<1>6. \A s : S!MaybeCompact(s) = SP!MaybeCompact(s)
  BY <1>5 DEF S!MaybeCompact, SP!MaybeCompact, S!Cardinality, SP!Cardinality
<1>7. \A s, K : S!Kill(s, K) = SP!Kill(s, K)
  BY DEF S!Kill, SP!Kill, S!Cardinality, SP!Cardinality
<1>8. \A s, n : S!Grow(s, n) = SP!Grow(s, n)
  BY DEF S!Grow, SP!Grow
<1>9. \A m, K : S!Without(m, K) = SP!Without(m, K) /\ S!Restrict(m, K) = SP!Restrict(m, K)
  BY DEF S!Without, SP!Without, S!Restrict, SP!Restrict
<1>10. \A s, k, w : S!SetWeight(s, k, w) = SP!SetWeight(s, k, w)
  <2>1. \A s, k : S!RemoveEdge(s, k) = SP!RemoveEdge(s, k)
    BY <1>3, <1>7, <1>9 DEF S!RemoveEdge, SP!RemoveEdge
  <2>2. \A s, k, w : S!WriteSlot(s, k, w) = SP!WriteSlot(s, k, w)
    BY DEF S!WriteSlot, SP!WriteSlot, S!Put, SP!Put
  <2> QED
    BY <1>6, <2>1, <2>2 DEF S!SetWeight, SP!SetWeight, S!Put, SP!Put
<1>11. \A s, f : S!Reindex(s, f) = SP!Reindex(s, f)
  <2>1. \A f, m : S!Rekey(f, m) = SP!Rekey(f, m)
    BY DEF S!Rekey, SP!Rekey, S!Mapped, SP!Mapped, S!MapKey, SP!MapKey,
           S!Canonical, SP!Canonical
  <2>2. \A s, f : S!TicksReindexed(s, f) = SP!TicksReindexed(s, f)
    BY <1>2, <1>4, <2>1 DEF S!TicksReindexed, SP!TicksReindexed
  <2>3. \A f : S!SizeAfter(f) = SP!SizeAfter(f)
    BY DEF S!SizeAfter, SP!SizeAfter, S!MaxIndex, SP!MaxIndex, S!Range, SP!Range
  <2> QED
    BY <1>4, <1>5, <2>1, <2>2, <2>3 DEF S!Reindex, SP!Reindex, S!EmptyMap, SP!EmptyMap
<1>12. \A s : S!ScaleAll(s) = SP!ScaleAll(s)
  BY DEF S!ScaleAll, SP!ScaleAll
<1>13. \A s, act, t : S!Strengthen(s, act, t) = SP!Strengthen(s, act, t)
  BY DEF S!Strengthen, SP!Strengthen, S!ApplyIncrements, SP!ApplyIncrements, S!Touch, SP!Touch,
         S!Put, SP!Put, S!Increments, SP!Increments, S!NewWeight, SP!NewWeight,
         S!Pairs, SP!Pairs, S!Key, SP!Key, S!Lookup, SP!Lookup, S!GetWeight, SP!GetWeight
<1>14. \A s, t : S!Prune(s, t) = SP!Prune(s, t)
  <2>1. \A s : S!PruneBelow(s) = SP!PruneBelow(s)
    BY <1>3, <1>6, <1>7, <1>9 DEF S!PruneBelow, SP!PruneBelow
  <2>2. \A s, t, K : S!Stale(s, t, K) = SP!Stale(s, t, K)
    BY <1>2 DEF S!Stale, SP!Stale, S!Elapsed, SP!Elapsed
  <2>3. \A s, t : S!PruneInactive(s, t) = SP!PruneInactive(s, t)
    BY <1>3, <1>6, <1>7, <1>9, <2>2 DEF S!PruneInactive, SP!PruneInactive
  <2> QED
    BY <2>1, <2>3 DEF S!Prune, SP!Prune
<1>15. \A s, act, t, mode : S!TickStore(s, act, t, mode) = SP!TickStore(s, act, t, mode)
  BY <1>12, <1>13, <1>14 DEF S!TickStore, SP!TickStore
<1> QED
  BY <1>1, <1>2, <1>3, <1>5, <1>8, <1>10, <1>11, <1>15

LEMMA SparseCalls ==
  /\ S!CallCompact => SP!CallCompact
  /\ \A n : S!CallGrow(n) => SP!CallGrow(n)
  /\ \A k, w : S!CallSetWeight(k, w) => SP!CallSetWeight(k, w)
  /\ \A f : S!CallReindex(f) => SP!CallReindex(f)
  /\ \A act, t, mode : S!CallTick(act, t, mode) => SP!CallTick(act, t, mode)
<1>1. \A s : S!Returns(s) <=> SP!Returns(s)
  BY SparseKeys, SparseMethods DEF S!Returns, SP!Returns
<1>2. \A k : S!InRange(k) <=> SP!InRange(k)
  BY DEF S!InRange, SP!InRange
<1>3. S!CallCompact => SP!CallCompact
  BY <1>1, SparseMethods DEF S!CallCompact, SP!CallCompact
<1>4. \A n : S!CallGrow(n) => SP!CallGrow(n)
  BY <1>1, SparseMethods DEF S!CallGrow, SP!CallGrow
<1>5. \A k, w : S!CallSetWeight(k, w) => SP!CallSetWeight(k, w)
  BY <1>1, <1>2, SparseMethods DEF S!CallSetWeight, SP!CallSetWeight
<1>6. \A f : S!CallReindex(f) => SP!CallReindex(f)
  BY <1>1, SparseMethods DEF S!CallReindex, SP!CallReindex
<1>7. \A act, t, mode : S!CallTick(act, t, mode) => SP!CallTick(act, t, mode)
  BY <1>1, <1>2, SparseKeys, SparseMethods DEF S!CallTick, SP!CallTick
<1> QED
  BY <1>3, <1>4, <1>5, <1>6, <1>7

(***************************************************************************)
(* Both developments refine the same abstract store.                       *)
(***************************************************************************)
LEMMA SameLaw ==
  /\ \A e, act, t, mode :
       HP!Abstract!TickEdges(e, act, t, mode) = SP!Abstract!TickEdges(e, act, t, mode)
  /\ \A f, e : HP!Abstract!Rekey(f, e) = SP!Abstract!Rekey(f, e)
<1>1. \A e : HP!Abstract!Decay(e) = SP!Abstract!Decay(e)
  BY DEF HP!Abstract!Decay, SP!Abstract!Decay
<1>2. \A e, act, t : HP!Abstract!Strengthen(e, act, t) = SP!Abstract!Strengthen(e, act, t)
  BY DEF HP!Abstract!Strengthen, SP!Abstract!Strengthen, HP!Abstract!Pairs, SP!Abstract!Pairs,
         HP!Abstract!Key, SP!Abstract!Key, HP!Abstract!NewWeight, SP!Abstract!NewWeight,
         HP!Abstract!WeightOf, SP!Abstract!WeightOf
<1>3. \A e, t : HP!Abstract!Prune(e, t) = SP!Abstract!Prune(e, t)
  BY DEF HP!Abstract!Prune, SP!Abstract!Prune, HP!Abstract!Survives, SP!Abstract!Survives,
         HP!Abstract!Elapsed, SP!Abstract!Elapsed, HP!Abstract!Restrict, SP!Abstract!Restrict
<1>4. \A e, act, t, mode :
        HP!Abstract!TickEdges(e, act, t, mode) = SP!Abstract!TickEdges(e, act, t, mode)
  BY <1>1, <1>2, <1>3 DEF HP!Abstract!TickEdges, SP!Abstract!TickEdges
<1>5. \A f, e : HP!Abstract!Rekey(f, e) = SP!Abstract!Rekey(f, e)
  BY DEF HP!Abstract!Rekey, SP!Abstract!Rekey, HP!Abstract!Mapped, SP!Abstract!Mapped,
         HP!Abstract!MapKey, SP!Abstract!MapKey, HP!Abstract!Canonical, SP!Abstract!Canonical
<1> QED
  BY <1>4, <1>5

(***************************************************************************)
(* The invariant: each store is well formed, the hash store has no orphan  *)
(* tick, both have the same live edges, and none of these is a self-loop,  *)
(* which only set_weight could create.                                     *)
(***************************************************************************)
NoLoops == \A k \in DOMAIN HP!EdgesOf(hash) : k[1] # k[2]

PInv ==
  /\ HP!StoreOK(hash, now) /\ HP!Owned(hash)
  /\ SP!IInv
  /\ HP!EdgesOf(hash) = SP!EdgesOf(sparse)
  /\ NoLoops

LEMMA SparseShape ==
  ASSUME PInv
  PROVE  SP!StoreOK(sparse, now) /\ SP!Bounded(sparse) /\ now \in Nat
BY DEF PInv, SP!IInv

\* A canonical pair of different nodes stays one under a renumbering.
LEMMA MappedApart ==
  ASSUME NEW f \in IndexMaps, NEW k \in HP!Mapped(f, HP!Key), k[1] # k[2]
  PROVE  HP!MapKey(f, k)[1] # HP!MapKey(f, k)[2]
<1>1. f \in HP!IndexMaps
  BY HashKeys
<1>2. /\ \A i \in DOMAIN f : i \in Nat /\ f[i] \in Nat
      /\ \A i, j \in DOMAIN f : i < j => f[i] < f[j]
  BY <1>1, HP!IndexMapShape, HashConstants
<1>3. k[1] \in DOMAIN f /\ k[2] \in DOMAIN f
  BY DEF HP!Mapped
<1>4. f[k[1]] # f[k[2]]
  <2>1. CASE k[1] < k[2]
    BY <1>2, <1>3, <2>1
  <2>2. CASE k[2] < k[1]
    BY <1>2, <1>3, <2>2
  <2> QED
    BY <1>2, <1>3, <2>1, <2>2
<1>5. HP!MapKey(f, k) = <<f[k[1]], f[k[2]]>> \/ HP!MapKey(f, k) = <<f[k[2]], f[k[1]]>>
  BY DEF HP!MapKey, HP!Canonical
<1> QED
  BY <1>4, <1>5

LEMMA ParityInit == Init => PInv
<1> SUFFICES ASSUME Init PROVE PInv
  OBVIOUS
<1>1. hash = HP!New /\ sparse = SP!New /\ now = 0
  BY HashMethods, SparseMethods DEF Init
<1>2. SP!IInv
  BY <1>1, SP!InitInvariant, SparseConstants DEF SP!Init
<1>3. DOMAIN hash.weights = {} /\ HP!StoreOK(hash, now) /\ HP!Owned(hash)
  BY <1>1 DEF HP!New, HP!EmptyMap, HP!StoreOK, HP!Owned
<1>4. DOMAIN HP!EdgesOf(hash) = {}
  BY <1>3 DEF HP!EdgesOf
<1>5. \A k : SP!GetWeight(sparse, k) = 0
  BY <1>1 DEF SP!New, SP!EmptyMap, SP!GetWeight, SP!Lookup
<1>6. DOMAIN SP!EdgesOf(sparse) = {}
  <2>1. SP!EdgesOf(sparse) = [k \in {o \in SP!Key : SP!GetWeight(sparse, o) > 0} |->
                                [w |-> SP!GetWeight(sparse, k), last |-> SP!LastActive(sparse, k)]]
    BY <1>2, SP!EdgesAreReads, SparseConstants DEF SP!IInv
  <2> QED
    BY <1>5, <2>1
<1>7. HP!EdgesOf(hash) = SP!EdgesOf(sparse)
  <2>1. /\ HP!EdgesOf(hash) = [k \in DOMAIN HP!EdgesOf(hash) |-> HP!EdgesOf(hash)[k]]
        /\ SP!EdgesOf(sparse) = [k \in DOMAIN SP!EdgesOf(sparse) |-> SP!EdgesOf(sparse)[k]]
    BY DEF HP!EdgesOf, SP!EdgesOf
  <2> QED
    BY <1>4, <1>6, <2>1
<1> QED
  BY <1>2, <1>3, <1>4, <1>7 DEF PInv, NoLoops

\* Every call of a training loop is a call of the sparse store's own machine.
LEMMA SparseKeepsIInv ==
  ASSUME PInv, [CycleNext]_vars
  PROVE  SP!IInv'
<1>1. SP!IInv
  BY DEF PInv
<1>2. [SP!Next]_(SP!vars)
  <2>1. CASE \E act \in Activation, t \in S!Time, mode \in DecayMode : Cycle(act, t, mode)
    BY <2>1, SparseKeys, SparseCalls DEF Cycle, SP!Next
  <2>2. CASE \E k \in ClientKeys, w \in Weight : SetEdge(k, w)
    BY <2>2, SparseKeys, SparseCalls DEF SetEdge, SP!Next
  <2>3. CASE \E f \in IndexMaps : Reindexed(f)
    BY <2>3, SparseKeys, SparseCalls DEF Reindexed, SP!Next
  <2>4. CASE Maintain
    BY <2>4, SparseCalls DEF Maintain, SP!Next
  <2>5. CASE UNCHANGED vars
    BY <2>5 DEF vars, SP!vars
  <2> QED
    BY <2>1, <2>2, <2>3, <2>4, <2>5 DEF CycleNext
<1> QED
  BY <1>1, <1>2, SP!NextInvariant, SparseConstants

LEMMA ParityCycle ==
  ASSUME PInv, NEW act \in Activation, NEW t \in S!Time, NEW mode \in DecayMode,
         Cycle(act, t, mode)
  PROVE  /\ HP!StoreOK(hash', now') /\ HP!Owned(hash')
         /\ HP!EdgesOf(hash') = SP!EdgesOf(sparse')
         /\ \A k \in DOMAIN HP!EdgesOf(hash') : k[1] # k[2]
<1>1. /\ act \in HP!Activation /\ mode \in HP!DecayMode /\ act \in SP!Activation
      /\ mode \in SP!DecayMode
      /\ SP!StoreOK(sparse, now) /\ SP!Bounded(sparse) /\ now \in Nat
      /\ HP!StoreOK(hash, now) /\ HP!EdgesOf(hash) = SP!EdgesOf(sparse)
  BY HashKeys, SparseKeys, SparseShape DEF PInv
<1>2. /\ now' = t /\ t \in Nat /\ now <= t
      /\ hash' = HP!TickStore(hash, act, t, mode)
  BY <1>1, HashMethods, ParityAssumption DEF Cycle, H!Cycle, S!Time
<1>3. /\ sparse' = SP!TickStore(sparse, act, t, mode)
      /\ \A k \in SP!Pairs(act) : k[1] < sparse.num_nodes /\ k[2] < sparse.num_nodes
  BY SparseKeys, SparseCalls DEF Cycle, SP!CallTick, SP!Returns, SP!InRange
<1>4. /\ HP!StoreOK(hash', t) /\ HP!Owned(hash')
      /\ HP!EdgesOf(hash') = HP!Abstract!TickEdges(HP!EdgesOf(hash), act, t, mode)
  BY <1>1, <1>2, HP!TickCorrect, HashConstants DEF PInv
<1>5. SP!EdgesOf(sparse') = SP!Abstract!TickEdges(SP!EdgesOf(sparse), act, t, mode)
  BY <1>1, <1>2, <1>3, SP!TickEdgesLaw, SparseConstants
<1>6. DOMAIN HP!EdgesOf(hash') \subseteq DOMAIN HP!EdgesOf(hash) \cup HP!Pairs(act)
  <2>1. HP!Abstract!Pairs(act) = HP!Pairs(act)
    BY HP!SameVocabulary, HashConstants
  <2> QED
    BY <1>4, <2>1 DEF HP!Abstract!TickEdges, HP!Abstract!Prune, HP!Abstract!Restrict,
                      HP!Abstract!Strengthen, HP!Abstract!Decay
<1>7. \A k \in HP!Pairs(act) : k[1] # k[2]
  BY DEF HP!Pairs
<1> QED
  BY <1>1, <1>2, <1>4, <1>5, <1>6, <1>7, SameLaw DEF PInv, NoLoops

LEMMA ParitySetEdge ==
  ASSUME PInv, NEW k \in ClientKeys, NEW w \in Weight, k[1] # k[2],
         w = 0 \/ NoStaleTick(k), SetEdge(k, w)
  PROVE  /\ HP!StoreOK(hash', now') /\ HP!Owned(hash')
         /\ HP!EdgesOf(hash') = SP!EdgesOf(sparse')
         /\ \A o \in DOMAIN HP!EdgesOf(hash') : o[1] # o[2]
<1> DEFINE e == HP!EdgesOf(hash)
<1>1. /\ k \in HP!Key /\ w \in HP!Weight /\ k \in SP!Key /\ w \in SP!Weight /\ w \in Nat
      /\ SP!StoreOK(sparse, now) /\ now \in Nat
      /\ HP!StoreOK(hash, now) /\ e = SP!EdgesOf(sparse)
  BY HashKeys, SparseKeys, SparseShape, ParityAssumption, ConfigAssumption DEF PInv, Weight
<1>2. hash' = HP!SetWeight(hash, k, w) /\ now' = now
  BY HashMethods DEF SetEdge, H!SetEdge
<1>3. /\ sparse' = SP!SetWeight(sparse, k, w)
      /\ k[1] < sparse.num_nodes /\ k[2] < sparse.num_nodes
  BY SparseCalls DEF SetEdge, SP!CallSetWeight, SP!Returns, SP!InRange
<1>4. /\ HP!StoreOK(hash', now) /\ HP!Owned(hash')
      /\ w = 0 => HP!EdgesOf(hash') = HP!Abstract!Without(e, {k})
      /\ w > 0 => HP!EdgesOf(hash')
                   = HP!Abstract!Put(e, {k}, [w |-> w, last |-> HP!LastActive(hash, k)])
  BY <1>1, <1>2, HP!SetWeightCorrect, HashConstants DEF PInv
<1>5. /\ w = 0 => SP!EdgesOf(sparse') = SP!Abstract!Without(e, {k})
      /\ w > 0 => SP!EdgesOf(sparse')
                   = SP!Abstract!Put(e, {k}, [w |-> w, last |-> SP!LastActive(sparse, k)])
  BY <1>1, <1>3, SP!SetWeightEdges, SparseConstants
<1>6. ASSUME w > 0 PROVE HP!LastActive(hash, k) = SP!LastActive(sparse, k)
  <2>1. CASE k \in DOMAIN hash.weights
    <3>1. k \in DOMAIN e /\ e[k].last = HP!LastActive(hash, k)
      BY <2>1 DEF HP!EdgesOf
    <3>2. \A o \in DOMAIN SP!EdgesOf(sparse) :
            SP!EdgesOf(sparse)[o].last = SP!LastActive(sparse, o)
      BY DEF SP!EdgesOf
    <3> QED
      BY <1>1, <3>1, <3>2
  <2>2. CASE k \notin DOMAIN hash.weights
    <3>1. k \notin DOMAIN hash.ticks
      BY <2>2 DEF PInv, HP!Owned
    <3>2. HP!LastActive(hash, k) = 0
      BY <3>1 DEF HP!LastActive, HP!Lookup
    <3>3. SP!LastActive(sparse, k) = 0
      BY <1>1, <1>6, <2>2, SparseMethods DEF NoStaleTick
    <3> QED
      BY <3>2, <3>3
  <2> QED
    BY <2>1, <2>2
<1>7. /\ \A K : HP!Abstract!Without(e, K) = SP!Abstract!Without(e, K)
      /\ \A K, v : HP!Abstract!Put(e, K, v) = SP!Abstract!Put(e, K, v)
  BY DEF HP!Abstract!Without, SP!Abstract!Without, HP!Abstract!Restrict, SP!Abstract!Restrict,
         HP!Abstract!Put, SP!Abstract!Put
<1>8. DOMAIN HP!Abstract!Without(e, {k}) \subseteq DOMAIN e
  BY DEF HP!Abstract!Without, HP!Abstract!Restrict
<1>9. \A v : DOMAIN HP!Abstract!Put(e, {k}, v) = DOMAIN e \cup {k}
  BY DEF HP!Abstract!Put
<1>10. \A o \in DOMAIN e : o[1] # o[2]
  BY DEF PInv, NoLoops
<1> HIDE DEF e
<1>11. CASE w = 0
  BY <1>2, <1>4, <1>5, <1>7, <1>8, <1>10, <1>11
<1>12. CASE w > 0
  BY <1>2, <1>4, <1>5, <1>6, <1>7, <1>9, <1>10, <1>12
<1> QED
  BY <1>1, <1>11, <1>12

LEMMA ParityReindexed ==
  ASSUME PInv, NEW f \in IndexMaps, Reindexed(f)
  PROVE  /\ HP!StoreOK(hash', now') /\ HP!Owned(hash')
         /\ HP!EdgesOf(hash') = SP!EdgesOf(sparse')
         /\ \A k \in DOMAIN HP!EdgesOf(hash') : k[1] # k[2]
<1>1. /\ f \in HP!IndexMaps /\ f \in SP!IndexMaps
      /\ SP!StoreOK(sparse, now) /\ now \in Nat
      /\ HP!StoreOK(hash, now) /\ HP!EdgesOf(hash) = SP!EdgesOf(sparse)
  BY HashKeys, SparseKeys, SparseShape DEF PInv
<1>2. hash' = HP!ReindexForCompact(hash, f) /\ now' = now
  BY HashMethods DEF Reindexed, H!Compact
<1>3. sparse' = SP!Reindex(sparse, f)
  BY SparseCalls DEF Reindexed, SP!CallReindex, SP!Returns
<1>4. /\ HP!StoreOK(hash', now) /\ HP!Owned(hash')
      /\ HP!EdgesOf(hash') = HP!Abstract!Rekey(f, HP!EdgesOf(hash))
  BY <1>1, <1>2, HP!ReindexCorrect, HashConstants
<1>5. SP!EdgesOf(sparse') = SP!Abstract!Rekey(f, SP!EdgesOf(sparse))
  BY <1>1, <1>3, SP!ReindexEdges, SparseConstants
<1>6. DOMAIN HP!Abstract!Rekey(f, HP!EdgesOf(hash))
        = {HP!MapKey(f, o) : o \in HP!Mapped(f, DOMAIN HP!EdgesOf(hash))}
  BY DEF HP!Abstract!Rekey, HP!Abstract!MapKey, HP!MapKey, HP!Abstract!Mapped, HP!Mapped,
         HP!Abstract!Canonical, HP!Canonical
<1>7. DOMAIN HP!EdgesOf(hash) \subseteq HP!Key
  BY <1>1 DEF HP!EdgesOf, HP!StoreOK
<1>8. ASSUME NEW o \in HP!Mapped(f, DOMAIN HP!EdgesOf(hash))
      PROVE  HP!MapKey(f, o)[1] # HP!MapKey(f, o)[2]
  <2>1. o \in HP!Mapped(f, HP!Key) /\ o[1] # o[2]
    BY <1>7 DEF HP!Mapped, PInv, NoLoops
  <2> QED
    BY <2>1, MappedApart
<1> QED
  BY <1>1, <1>2, <1>4, <1>5, <1>6, <1>8, SameLaw

LEMMA ParityMaintain ==
  ASSUME PInv, Maintain
  PROVE  /\ HP!StoreOK(hash', now') /\ HP!Owned(hash')
         /\ HP!EdgesOf(hash') = SP!EdgesOf(sparse')
         /\ \A k \in DOMAIN HP!EdgesOf(hash') : k[1] # k[2]
<1>1. /\ SP!StoreOK(sparse, now) /\ now \in Nat
      /\ HP!StoreOK(hash, now) /\ HP!EdgesOf(hash) = SP!EdgesOf(sparse)
      /\ hash' = hash
  BY SparseShape DEF PInv, Maintain
<1>2. CASE S!CallCompact
  <2>1. sparse' = SP!Compact(sparse) /\ now' = now
    BY <1>2, SparseCalls DEF SP!CallCompact, SP!Returns
  <2>2. SP!EdgesOf(sparse') = SP!EdgesOf(sparse)
    BY <1>1, <2>1, SP!CompactEdges, SparseConstants
  <2> QED
    BY <1>1, <2>1, <2>2 DEF PInv, NoLoops
<1>3. CASE \E n \in Node : S!CallGrow(n + 1)
  <2>1. PICK n \in Node : S!CallGrow(n + 1)
    BY <1>3
  <2>2. sparse' = SP!Grow(sparse, n + 1) /\ now' = now /\ n + 1 \in Nat
    BY <2>1, SparseCalls, ConfigAssumption DEF SP!CallGrow, SP!Returns
  <2>3. SP!EdgesOf(sparse') = SP!EdgesOf(sparse)
    BY <1>1, <2>2, SP!GrowEdges, SparseConstants
  <2> QED
    BY <1>1, <2>2, <2>3 DEF PInv, NoLoops
<1> QED
  BY <1>2, <1>3 DEF Maintain

LEMMA ParityNext == PInv /\ [CycleNext]_vars => PInv'
<1> SUFFICES ASSUME PInv, [CycleNext]_vars PROVE PInv'
  OBVIOUS
<1>1. SP!IInv'
  BY SparseKeepsIInv
<1>2. /\ HP!StoreOK(hash', now') /\ HP!Owned(hash')
      /\ HP!EdgesOf(hash') = SP!EdgesOf(sparse')
      /\ \A k \in DOMAIN HP!EdgesOf(hash') : k[1] # k[2]
  <2>1. CASE UNCHANGED vars
    BY <2>1 DEF vars, PInv, NoLoops
  <2> QED
    BY <2>1, ParityCycle, ParitySetEdge, ParityReindexed, ParityMaintain DEF CycleNext
<1>3. /\ HP!StoreOK(hash, now)' /\ HP!Owned(hash)' /\ (HP!EdgesOf(hash) = SP!EdgesOf(sparse))' /\ NoLoops'
  BY <1>2 DEF NoLoops, HP!StoreOK, HP!Owned, HP!EdgesOf, HP!LastActive, HP!Lookup, SP!EdgesOf, SP!Merged,
              SP!LiveCsr, SP!LivePending, SP!Dead, SP!GetWeight, SP!LastActive, SP!Lookup
<1> QED
  BY <1>1, <1>3 DEF PInv

LEMMA ParityInvariant == CycleSpec => []PInv
BY ParityInit, ParityNext, PTL DEF CycleSpec

(***************************************************************************)
(* The reads.  A weight is positive exactly on the common live edges.      *)
(***************************************************************************)
LEMMA HashReads ==
  ASSUME PInv
  PROVE  /\ DOMAIN hash.weights = {k \in Key : HP!GetWeight(hash, k) > 0}
         /\ \A k \in Key : HP!GetWeight(hash, k) \in Nat
         /\ \A k : k \notin Key => HP!GetWeight(hash, k) = 0
         /\ HP!EdgesOf(hash) = [k \in {o \in Key : HP!GetWeight(hash, o) > 0} |->
              [w |-> HP!GetWeight(hash, k), last |-> HP!LastActive(hash, k)]]
<1>1. /\ DOMAIN hash.weights \subseteq Key
      /\ \A k \in DOMAIN hash.weights : hash.weights[k] \in Weight \ {0}
  BY HashKeys DEF PInv, HP!StoreOK
<1>2. \A k \in DOMAIN hash.weights : hash.weights[k] \in Nat /\ hash.weights[k] > 0
  BY <1>1, ConfigAssumption DEF Weight
<1>3. \A k : HP!GetWeight(hash, k) = IF k \in DOMAIN hash.weights THEN hash.weights[k] ELSE 0
  BY DEF HP!GetWeight, HP!Lookup
<1>4. DOMAIN hash.weights = {k \in Key : HP!GetWeight(hash, k) > 0}
  BY <1>1, <1>2, <1>3
<1>5. HP!EdgesOf(hash) = [k \in DOMAIN hash.weights |->
        [w |-> HP!GetWeight(hash, k), last |-> HP!LastActive(hash, k)]]
  BY <1>3 DEF HP!EdgesOf
<1> QED
  BY <1>1, <1>2, <1>3, <1>4, <1>5

LEMMA SameAnswers ==
  ASSUME PInv
  PROVE  /\ \A k : HP!GetWeight(hash, k) = SP!GetWeight(sparse, k)
         /\ \A k \in DOMAIN hash.weights : HP!LastActive(hash, k) = SP!LastActive(sparse, k)
<1> DEFINE e == HP!EdgesOf(hash)
           h == {k \in Key : HP!GetWeight(hash, k) > 0}
           s == {k \in Key : SP!GetWeight(sparse, k) > 0}
<1>1. SP!StoreOK(sparse, now) /\ now \in Nat
  BY SparseShape
<1>2. e = [k \in s |-> [w |-> SP!GetWeight(sparse, k), last |-> SP!LastActive(sparse, k)]]
  <2>1. SP!EdgesOf(sparse) = [k \in {o \in SP!Key : SP!GetWeight(sparse, o) > 0} |->
          [w |-> SP!GetWeight(sparse, k), last |-> SP!LastActive(sparse, k)]]
    BY <1>1, SP!EdgesAreReads, SparseConstants
  <2> QED
    BY <2>1, SparseKeys DEF PInv
<1>3. e = [k \in h |-> [w |-> HP!GetWeight(hash, k), last |-> HP!LastActive(hash, k)]]
  BY HashReads
<1>4. h = s
  BY <1>2, <1>3
<1>5. \A k \in h : /\ HP!GetWeight(hash, k) = SP!GetWeight(sparse, k)
                   /\ HP!LastActive(hash, k) = SP!LastActive(sparse, k)
  <2> TAKE k \in h
  <2>1. e[k] = [w |-> SP!GetWeight(sparse, k), last |-> SP!LastActive(sparse, k)]
    BY <1>2, <1>4
  <2>2. e[k] = [w |-> HP!GetWeight(hash, k), last |-> HP!LastActive(hash, k)]
    BY <1>3
  <2> QED
    BY <2>1, <2>2
<1>6. /\ \A k \in Key : SP!GetWeight(sparse, k) \in Nat
      /\ \A k : k \notin Key => SP!GetWeight(sparse, k) = 0
  <2>1. DOMAIN sparse.csr \subseteq Key /\ DOMAIN sparse.pending \subseteq Key
    BY <1>1, SparseKeys DEF SP!StoreOK
  <2> QED
    BY <1>1, <2>1, SP!WeightPlace, SparseConstants, SparseKeys
<1>7. DOMAIN hash.weights = h
  BY HashReads
<1>8. \A k \in Key : HP!GetWeight(hash, k) \in Nat
  BY HashReads
<1>9. \A k : k \notin Key => HP!GetWeight(hash, k) = 0
  BY HashReads
<1>10. \A k \in Key : k \notin h => HP!GetWeight(hash, k) = 0 /\ SP!GetWeight(sparse, k) = 0
  BY <1>4, <1>6, <1>8
<1> HIDE DEF e, h, s
<1> QED
  BY <1>5, <1>6, <1>7, <1>9, <1>10

\* The live edges of the sparse store are split between the CSR and the buffer.
LEMMA SameCount ==
  ASSUME PInv
  PROVE  Cardinality(DOMAIN hash.weights) = S!EdgeCount(sparse)
<1> DEFINE c == SP!LiveCsr(sparse)
           p == SP!LivePending(sparse)
<1>1. SP!StoreOK(sparse, now) /\ now \in Nat
  BY SparseShape
<1>2. DOMAIN SP!Merged(sparse) = {k \in Key : SP!GetWeight(sparse, k) > 0}
  <2>1. DOMAIN SP!EdgesOf(sparse) = DOMAIN SP!Merged(sparse)
    BY DEF SP!EdgesOf
  <2>2. SP!EdgesOf(sparse) = [k \in {o \in SP!Key : SP!GetWeight(sparse, o) > 0} |->
          [w |-> SP!GetWeight(sparse, k), last |-> SP!LastActive(sparse, k)]]
    BY <1>1, SP!EdgesAreReads, SparseConstants
  <2>3. DOMAIN SP!EdgesOf(sparse) = {k \in SP!Key : SP!GetWeight(sparse, k) > 0}
    BY <2>2
  <2> QED
    BY <2>1, <2>3, SparseKeys
<1>3. DOMAIN hash.weights = c \cup p
  <2>1. DOMAIN SP!Merged(sparse) = c \cup p
    BY DEF SP!Merged
  <2>2. DOMAIN hash.weights = {k \in Key : HP!GetWeight(hash, k) > 0}
    BY HashReads
  <2>3. \A k : HP!GetWeight(hash, k) = SP!GetWeight(sparse, k)
    BY SameAnswers
  <2> QED
    BY <1>2, <2>1, <2>2, <2>3
<1>4. c \cap p = {} /\ c \subseteq SP!Key /\ p \subseteq SP!Key
  BY <1>1 DEF SP!StoreOK, SP!LiveCsr, SP!LivePending
<1> HIDE DEF c, p
<1>5. IsFiniteSet(c) /\ IsFiniteSet(p) /\ Cardinality(c) \in Nat /\ Cardinality(p) \in Nat
  <2>1. \A K : K \subseteq Key => IsFiniteSet(K)
    <3>1. IsFiniteSet(Node \X Node)
      BY ParityAssumption, FS_Product
    <3> QED
      BY <3>1, FS_Subset DEF Key
  <2>2. IsFiniteSet(c) /\ IsFiniteSet(p)
    BY <1>4, <2>1, SparseKeys
  <2> QED
    BY <2>2, FS_CardinalityType
<1>6. Cardinality(c \cup p) = Cardinality(c) + Cardinality(p) - Cardinality(c \cap p)
  BY <1>5, FS_Union
<1>7. Cardinality(c \cap p) = 0
  BY <1>4, FS_EmptySet
<1>8. S!EdgeCount(sparse) = Cardinality(c) + Cardinality(p)
  BY SparseMethods DEF S!EdgeCount, S!Cardinality, Cardinality, c, p
<1> QED
  BY <1>3, <1>5, <1>6, <1>7, <1>8

LEMMA SameNeighbors ==
  ASSUME PInv, NEW n \in Node, NEW j \in Node
  PROVE  H!NeighborWeight(hash, n, j) = S!NeighborWeight(sparse, n, j)
<1> DEFINE g(k) == SP!GetWeight(sparse, k)
           row == IF n < sparse.num_nodes THEN SP!Lookup(sparse.csr, <<n, j>>) ELSE 0
           col == SP!Lookup(sparse.csr, <<j, n>>)
           buf == SP!Lookup(sparse.pending, Canonical(n, j))
<1>1. /\ SP!StoreOK(sparse, now) /\ now \in Nat
      /\ n \in Nat /\ j \in Nat
  BY SparseShape, ConfigAssumption
<1>2. H!NeighborWeight(hash, n, j) = g(Canonical(n, j))
  BY HashMethods, SameAnswers DEF H!NeighborWeight, H!Canonical, Canonical
<1>3. S!NeighborWeight(sparse, n, j) = row + col + buf
  BY DEF S!NeighborWeight, S!Lookup, SP!Lookup, S!Canonical, Canonical
<1>4. /\ DOMAIN sparse.csr \subseteq Key
      /\ \A k \in DOMAIN sparse.csr : k[1] < sparse.num_nodes /\ sparse.csr[k] \in Nat
      /\ \A k \in DOMAIN sparse.pending : sparse.pending[k] \in Nat
  BY <1>1, SparseKeys DEF SP!StoreOK
<1>5. row = SP!Lookup(sparse.csr, <<n, j>>)
  <2>1. <<n, j>> \in DOMAIN sparse.csr => n < sparse.num_nodes
    BY <1>4
  <2> QED
    BY <2>1 DEF SP!Lookup
<1>6. \A k : k \notin Key => SP!Lookup(sparse.csr, k) = 0
  BY <1>4 DEF SP!Lookup
<1>7. \A k : SP!Lookup(sparse.csr, k) \in Nat /\ SP!Lookup(sparse.pending, k) \in Nat
  BY <1>4 DEF SP!Lookup
<1>8. \A k : g(k) = SP!Lookup(sparse.csr, k) + SP!Lookup(sparse.pending, k)
  BY DEF SP!GetWeight
<1>9. CASE n < j
  <2>1. <<j, n>> \notin Key /\ Canonical(n, j) = <<n, j>>
    BY <1>1, <1>9 DEF Key, Canonical
  <2>2. col = 0
    BY <1>6, <2>1
  <2> QED
    BY <1>2, <1>3, <1>5, <1>7, <1>8, <2>1, <2>2
<1>10. CASE j < n
  <2>1. <<n, j>> \notin Key /\ Canonical(n, j) = <<j, n>>
    BY <1>1, <1>10 DEF Key, Canonical
  <2>2. row = 0
    BY <1>5, <1>6, <2>1
  <2> QED
    BY <1>2, <1>3, <1>7, <1>8, <2>1, <2>2
<1>11. CASE n = j
  <2>1. Canonical(n, j) = <<n, n>> /\ <<n, n>>[1] = <<n, n>>[2]
    BY <1>1, <1>11 DEF Canonical
  <2>2. g(<<n, n>>) = 0
    <3>1. <<n, n>> \notin DOMAIN hash.weights
      BY <2>1 DEF PInv, NoLoops, HP!EdgesOf
    <3>2. HP!GetWeight(hash, <<n, n>>) = 0
      BY <3>1 DEF HP!GetWeight, HP!Lookup
    <3> QED
      BY <3>2, SameAnswers
  <2>3. SP!Lookup(sparse.csr, <<n, n>>) = 0 /\ SP!Lookup(sparse.pending, <<n, n>>) = 0
    BY <1>7, <1>8, <2>2
  <2> QED
    BY <1>2, <1>3, <1>5, <1>11, <2>1, <2>2, <2>3
<1> QED
  BY <1>1, <1>9, <1>10, <1>11

(***************************************************************************)
(* get_weight and edge_count: a training loop reads the same weights and   *)
(* the same number of edges from either backend.                           *)
(***************************************************************************)
THEOREM ParityWeights == CycleSpec => []IdenticalWeights
<1>1. PInv => IdenticalWeights
  BY SameAnswers, SameCount, HashMethods, SparseMethods DEF IdenticalWeights
<1> QED
  BY <1>1, ParityInvariant, PTL

(***************************************************************************)
(* neighbors: both list a neighbour with the same weight, though the sparse*)
(* store sums a row, a reverse column and its buffer.                      *)
(***************************************************************************)
THEOREM ParityNeighbors == CycleSpec => []IdenticalNeighbors
<1>1. PInv => IdenticalNeighbors
  BY SameNeighbors DEF IdenticalNeighbors
<1> QED
  BY <1>1, ParityInvariant, PTL

(***************************************************************************)
(* last_active: the tick of a live edge is the same in both, so inactivity *)
(* pruning takes the same edges.                                           *)
(***************************************************************************)
THEOREM ParityActivity == CycleSpec => []IdenticalActivity
<1>1. PInv => IdenticalActivity
  BY SameAnswers, HashMethods, SparseMethods DEF IdenticalActivity
<1> QED
  BY <1>1, ParityInvariant, PTL
=============================================================================
