----------------------- MODULE SparseEdgeStoreProofs ------------------------
(***************************************************************************)
(* The CSR backend keeps its types, keeps an edge out of the buffer while  *)
(* the matrix owns its key, never indexes past num_nodes, bounds its       *)
(* garbage and implements the abstract edge store, for every client that   *)
(* stays below num_nodes.                                                  *)
(*                                                                         *)
(* The inductive invariant is about store values: besides the properties   *)
(* it says that every key is below num_nodes, which is what compact relies *)
(* on, and reindex and grow have to maintain, and that dead_count is an    *)
(* upper bound.                                                            *)
(*                                                                         *)
(* The last part puts the store under a graph, which does not stay below   *)
(* num_nodes, and says how far it has to stray before a call panics.       *)
(***************************************************************************)
EXTENDS SparseUnderGraph, SokmProofs

StoreOK(s, t) ==
  /\ DOMAIN s = {"num_nodes", "csr", "pending", "ticks", "dead_count", "panicked"}
  /\ s.num_nodes \in Nat
  /\ DOMAIN s.csr \subseteq Key
  /\ \A k \in DOMAIN s.csr : s.csr[k] \in Nat
  /\ DOMAIN s.pending \subseteq Key
  /\ \A k \in DOMAIN s.pending : s.pending[k] \in Nat \ {0}
  /\ DOMAIN s.ticks \subseteq Key
  /\ \A k \in DOMAIN s.ticks : s.ticks[k] \in 0 .. t
  /\ s.dead_count \in Nat
  /\ DOMAIN s.csr \cap DOMAIN s.pending = {}
  /\ \A k \in DOMAIN s.csr \cup DOMAIN s.pending :
       k[1] < s.num_nodes /\ k[2] < s.num_nodes
  /\ ~s.panicked

\* The weights are within the bound that Returns enforces.
Bounded(s) == \A k \in Key : GetWeight(s, k) <= MaxWeight

(***************************************************************************)
(* Sets of edges are finite: dead slots can be counted.                    *)
(***************************************************************************)
LEMMA EdgeSetsFinite ==
  ASSUME NEW K, K \subseteq Key
  PROVE  IsFiniteSet(K) /\ Cardinality(K) \in Nat
<1>1. IsFiniteSet(Node \X Node)
  BY SparseAssumption, FS_Product
<1>2. K \subseteq Node \X Node
  BY DEF Key
<1>3. IsFiniteSet(K)
  BY <1>1, <1>2, FS_Subset
<1> QED
  BY <1>3, FS_CardinalityType

(***************************************************************************)
(* The weight of an edge is where its key is.                              *)
(***************************************************************************)
LEMMA WeightPlace ==
  ASSUME NEW t \in Nat, NEW s, StoreOK(s, t)
  PROVE  /\ \A k \in DOMAIN s.csr : GetWeight(s, k) = s.csr[k]
         /\ \A k \in DOMAIN s.pending : GetWeight(s, k) = s.pending[k]
         /\ \A k : k \notin DOMAIN s.csr \cup DOMAIN s.pending => GetWeight(s, k) = 0
         /\ \A k \in Key : GetWeight(s, k) \in Nat
<1>1. /\ \A k \in DOMAIN s.csr : s.csr[k] \in Nat /\ k \notin DOMAIN s.pending
      /\ \A k \in DOMAIN s.pending : s.pending[k] \in Nat /\ k \notin DOMAIN s.csr
  BY DEF StoreOK
<1> QED
  BY <1>1 DEF GetWeight, Lookup

LEMMA BoundedPlace ==
  ASSUME NEW t \in Nat, NEW s, StoreOK(s, t), Bounded(s)
  PROVE  /\ \A k \in DOMAIN s.csr : s.csr[k] \in Weight
         /\ \A k \in DOMAIN s.pending : s.pending[k] \in Weight \ {0}
         /\ [k \in Key |-> GetWeight(s, k)] \in [Key -> Weight]
<1>1. \A k \in Key : GetWeight(s, k) \in Weight
  BY WeightPlace, ConfigAssumption DEF Bounded, Weight
<1>2. DOMAIN s.csr \subseteq Key /\ DOMAIN s.pending \subseteq Key
      /\ \A k \in DOMAIN s.pending : s.pending[k] # 0
  BY DEF StoreOK
<1> QED
  BY <1>1, <1>2, WeightPlace

(***************************************************************************)
(* Merging keeps the live edges with their weights; they fit the new CSR.  *)
(***************************************************************************)
LEMMA MergedCorrect ==
  ASSUME NEW t \in Nat, NEW s, StoreOK(s, t)
  PROVE  /\ DOMAIN Merged(s) = {k \in Key : GetWeight(s, k) > 0}
         /\ DOMAIN Merged(s) \subseteq DOMAIN s.csr \cup DOMAIN s.pending
         /\ \A k \in DOMAIN Merged(s) : Merged(s)[k] = GetWeight(s, k)
         /\ \A k \in DOMAIN Merged(s) : Merged(s)[k] \in Nat \ {0}
<1>1. /\ \A k \in DOMAIN s.csr : s.csr[k] \in Nat
      /\ \A k \in DOMAIN s.pending : s.pending[k] \in Nat \ {0}
      /\ DOMAIN s.csr \subseteq Key /\ DOMAIN s.pending \subseteq Key
  BY DEF StoreOK
<1>2. \A k : k \in LiveCsr(s) <=> k \in DOMAIN s.csr /\ GetWeight(s, k) > 0
  BY <1>1, WeightPlace DEF LiveCsr, Dead
<1>3. \A k : k \in LivePending(s) <=> k \in DOMAIN s.pending /\ GetWeight(s, k) > 0
  BY <1>1, WeightPlace DEF LivePending
<1>4. DOMAIN Merged(s) = LiveCsr(s) \cup LivePending(s)
  BY DEF Merged
<1>5. DOMAIN Merged(s) = {k \in Key : GetWeight(s, k) > 0}
  BY <1>1, <1>2, <1>3, <1>4, WeightPlace
<1>6. DOMAIN Merged(s) \subseteq DOMAIN s.csr \cup DOMAIN s.pending
  BY <1>2, <1>3, <1>4
<1>7. \A k \in DOMAIN Merged(s) : Merged(s)[k] = GetWeight(s, k)
  BY DEF Merged
<1> QED
  BY <1>5, <1>6, <1>7, WeightPlace

LEMMA CompactCorrect ==
  ASSUME NEW t \in Nat, NEW s, StoreOK(s, t)
  PROVE  /\ StoreOK(Compact(s), t)
         /\ \A k \in Key : GetWeight(Compact(s), k) = GetWeight(s, k)
<1> DEFINE r == [s EXCEPT !.csr = Merged(s), !.pending = EmptyMap, !.dead_count = 0]
<1>1. \A k \in DOMAIN Merged(s) : k[1] < s.num_nodes /\ k[2] < s.num_nodes
  <2>1. DOMAIN Merged(s) \subseteq DOMAIN s.csr \cup DOMAIN s.pending
    BY MergedCorrect
  <2> QED
    BY <2>1 DEF StoreOK
<1>2. \A k \in DOMAIN Merged(s) : k[1] \in Nat
  <2>1. DOMAIN Merged(s) \subseteq Key
    BY MergedCorrect
  <2> QED
    BY <2>1, ConfigAssumption DEF Key
<1>3. Compact(s) = r
  BY <1>1, <1>2 DEF Compact, StoreOK
<1>4. /\ DOMAIN r = DOMAIN s
      /\ r.num_nodes = s.num_nodes /\ r.csr = Merged(s) /\ r.pending = EmptyMap
      /\ r.ticks = s.ticks /\ r.dead_count = 0 /\ r.panicked = s.panicked
  BY DEF StoreOK
<1>5. DOMAIN EmptyMap = {}
  BY DEF EmptyMap
<1> HIDE DEF r
<1>6. StoreOK(r, t)
  <2>1. DOMAIN Merged(s) \subseteq Key /\ \A k \in DOMAIN Merged(s) : Merged(s)[k] \in Nat
    BY MergedCorrect
  <2> QED
    BY <1>1, <1>4, <1>5, <2>1 DEF StoreOK
<1>7. ASSUME NEW k \in Key
      PROVE  GetWeight(r, k) = GetWeight(s, k)
  <2>1. GetWeight(s, k) \in Nat
    BY WeightPlace
  <2>2. GetWeight(r, k) = IF k \in DOMAIN Merged(s) THEN Merged(s)[k] ELSE 0
    <3>1. k \in DOMAIN Merged(s) => Merged(s)[k] \in Nat
      BY MergedCorrect
    <3> QED
      BY <1>4, <1>5, <3>1 DEF GetWeight, Lookup
  <2>3. /\ k \in DOMAIN Merged(s) <=> GetWeight(s, k) > 0
        /\ k \in DOMAIN Merged(s) => Merged(s)[k] = GetWeight(s, k)
    BY MergedCorrect
  <2> QED
    BY <2>1, <2>2, <2>3
<1> QED
  BY <1>3, <1>6, <1>7

LEMMA MaybeCompactCorrect ==
  ASSUME NEW t \in Nat, NEW s, StoreOK(s, t)
  PROVE  StoreOK(MaybeCompact(s), t)
BY CompactCorrect DEF MaybeCompact

(***************************************************************************)
(* Every removal: slots are zeroed and counted, buffered edges and ticks   *)
(* leave their maps.                                                       *)
(***************************************************************************)
SubMap(m, n) == DOMAIN m \subseteq DOMAIN n /\ \A k \in DOMAIN m : m[k] = n[k]

IsRemoval(r, s, K, P, T) ==
  /\ r = [Kill(s, K) EXCEPT !.pending = P, !.ticks = T]
  /\ K \subseteq LiveCsr(s)
  /\ SubMap(P, s.pending) /\ SubMap(T, s.ticks)

LEMMA RemovalCorrect ==
  ASSUME NEW t \in Nat, NEW s, StoreOK(s, t), NEW K, NEW P, NEW T, NEW r,
         IsRemoval(r, s, K, P, T)
  PROVE  /\ StoreOK(r, t)
         /\ r.num_nodes = s.num_nodes /\ r.pending = P /\ r.ticks = T
         /\ DOMAIN r.csr = DOMAIN s.csr
         /\ \A k \in DOMAIN s.csr : r.csr[k] = IF k \in K THEN 0 ELSE s.csr[k]
<1> DEFINE zeroed == [k \in DOMAIN s.csr |-> IF k \in K THEN 0 ELSE s.csr[k]]
<1>1. K \subseteq Key
  BY DEF IsRemoval, LiveCsr, StoreOK
<1>2. s.dead_count + Cardinality(K) \in Nat
  BY <1>1, EdgeSetsFinite DEF StoreOK
<1>3. /\ DOMAIN r = DOMAIN s
      /\ r.num_nodes = s.num_nodes /\ r.csr = zeroed /\ r.pending = P /\ r.ticks = T
      /\ r.dead_count = s.dead_count + Cardinality(K) /\ r.panicked = s.panicked
  BY DEF IsRemoval, Kill, StoreOK
<1>4. /\ DOMAIN zeroed = DOMAIN s.csr
      /\ \A k \in DOMAIN zeroed : zeroed[k] = (IF k \in K THEN 0 ELSE s.csr[k])
      /\ \A k \in DOMAIN zeroed : zeroed[k] \in Nat
  BY DEF StoreOK
<1> HIDE DEF zeroed
<1>5. StoreOK(r, t)
  BY <1>2, <1>3, <1>4 DEF IsRemoval, SubMap, StoreOK
<1> QED
  BY <1>3, <1>4, <1>5

(***************************************************************************)
(* set_weight: an edge that has a slot is written there, so the buffer     *)
(* never gets a second copy.                                               *)
(***************************************************************************)
LEMMA SetWeightCorrect ==
  ASSUME NEW t \in Nat, NEW s, StoreOK(s, t), NEW k \in Key, NEW w \in Weight,
         k[1] < s.num_nodes, k[2] < s.num_nodes
  PROVE  StoreOK(SetWeight(s, k, w), t)
<1>1. w \in Nat
  BY ConfigAssumption DEF Weight
<1>2. CASE w <= 0
  <2> DEFINE K == {k} \cap LiveCsr(s)
             P == Without(s.pending, {k})
             T == Without(s.ticks, {k})
  <2>1. RemoveEdge(s, k) = [Kill(s, K) EXCEPT !.pending = P, !.ticks = T]
    BY DEF RemoveEdge
  <2>2. SubMap(P, s.pending) /\ SubMap(T, s.ticks)
    BY DEF SubMap, Without, Restrict
  <2>3. K \subseteq LiveCsr(s)
    OBVIOUS
  <2> HIDE DEF K, P, T
  <2>4. IsRemoval(RemoveEdge(s, k), s, K, P, T)
    BY <2>1, <2>2, <2>3 DEF IsRemoval
  <2>5. StoreOK(RemoveEdge(s, k), t)
    BY <2>4, RemovalCorrect
  <2> QED
    BY <1>2, <2>5, MaybeCompactCorrect DEF SetWeight
<1>3. CASE w > 0 /\ k \in DOMAIN s.csr
  <2> DEFINE r == WriteSlot(s, k, w)
  <2>1. /\ DOMAIN r = DOMAIN s
        /\ r.num_nodes = s.num_nodes /\ r.csr = Put(s.csr, {k}, w)
        /\ r.pending = s.pending /\ r.ticks = s.ticks /\ r.panicked = s.panicked
        /\ r.dead_count = IF s.csr[k] = 0 /\ s.dead_count > 0 THEN s.dead_count - 1
                          ELSE s.dead_count
    BY DEF WriteSlot, StoreOK
  <2>2. /\ DOMAIN r.csr = DOMAIN s.csr
        /\ \A o \in DOMAIN r.csr : r.csr[o] \in Nat
    BY <1>1, <1>3, <2>1 DEF Put, StoreOK
  <2>3. r.dead_count \in Nat
    BY <2>1 DEF StoreOK
  <2> HIDE DEF r
  <2>4. StoreOK(r, t)
    BY <2>1, <2>2, <2>3 DEF StoreOK
  <2> QED
    BY <1>1, <1>3, <2>4, MaybeCompactCorrect DEF SetWeight, r
<1>4. CASE w > 0 /\ k \notin DOMAIN s.csr
  <2> DEFINE r == [s EXCEPT !.pending = Put(s.pending, {k}, w)]
  <2>1. /\ DOMAIN r = DOMAIN s
        /\ r.num_nodes = s.num_nodes /\ r.csr = s.csr
        /\ r.pending = Put(s.pending, {k}, w) /\ r.ticks = s.ticks
        /\ r.panicked = s.panicked /\ r.dead_count = s.dead_count
    BY DEF StoreOK
  <2>2. /\ DOMAIN r.pending = DOMAIN s.pending \cup {k}
        /\ \A o \in DOMAIN r.pending : r.pending[o] \in Nat \ {0}
    BY <1>1, <1>4, <2>1 DEF Put, StoreOK
  <2> HIDE DEF r
  <2>3. StoreOK(r, t)
    BY <1>4, <2>1, <2>2 DEF StoreOK
  <2> QED
    BY <1>1, <1>4, <2>3, MaybeCompactCorrect DEF SetWeight, r
<1> QED
  BY <1>1, <1>2, <1>3, <1>4

(***************************************************************************)
(* scale_all, apply_increments, touch and grow.                            *)
(***************************************************************************)
LEMMA ScaleAllCorrect ==
  ASSUME NEW t \in Nat, NEW s, StoreOK(s, t), Bounded(s)
  PROVE  StoreOK(ScaleAll(s), t) /\ Bounded(ScaleAll(s))
<1> DEFINE c == [k \in DOMAIN s.csr |-> Decayed[s.csr[k]]]
           p == [k \in DOMAIN s.pending |-> Decayed[s.pending[k]]]
           r == ScaleAll(s)
<1>1. /\ DOMAIN r = DOMAIN s
      /\ r.num_nodes = s.num_nodes /\ r.csr = c /\ r.pending = p
      /\ r.ticks = s.ticks /\ r.dead_count = s.dead_count /\ r.panicked = s.panicked
  BY DEF ScaleAll, StoreOK
<1>2. \A w \in Weight : w \in Nat /\ Decayed[w] \in Weight /\ (w > 0 => Decayed[w] > 0)
  BY ConfigAssumption DEF Weight
<1>3. /\ DOMAIN r.csr = DOMAIN s.csr
      /\ \A k \in DOMAIN r.csr : r.csr[k] \in Weight /\ r.csr[k] \in Nat
      /\ DOMAIN r.pending = DOMAIN s.pending
      /\ \A k \in DOMAIN r.pending : r.pending[k] \in Weight /\ r.pending[k] \in Nat \ {0}
  BY <1>1, <1>2, BoundedPlace
<1> HIDE DEF c, p, r
<1>4. StoreOK(r, t)
  BY <1>1, <1>3 DEF StoreOK
<1>5. Bounded(r)
  <2> SUFFICES ASSUME NEW k \in Key PROVE GetWeight(r, k) <= MaxWeight
    BY DEF Bounded
  <2>1. GetWeight(r, k) \in Weight
    <3>1. 0 \in Weight
      BY ConfigAssumption DEF Weight
    <3> QED
      BY <1>3, <1>4, <3>1, WeightPlace
  <2> QED
    BY <2>1, ConfigAssumption DEF Weight
<1> QED
  BY <1>4, <1>5 DEF r

LEMMA ApplyIncrementsCorrect ==
  ASSUME NEW t \in Nat, NEW s, StoreOK(s, t), NEW deltas,
         DOMAIN deltas \subseteq Key,
         \A k \in DOMAIN deltas : /\ deltas[k] \in Int
                                  /\ GetWeight(s, k) + deltas[k] \in Nat \ {0}
                                  /\ k[1] < s.num_nodes /\ k[2] < s.num_nodes
  PROVE  StoreOK(ApplyIncrements(s, deltas), t)
<1> DEFINE r == ApplyIncrements(s, deltas)
           c == [k \in DOMAIN s.csr |-> s.csr[k] + Lookup(deltas, k)]
           p == [k \in DOMAIN s.pending \cup (DOMAIN deltas \ DOMAIN s.csr) |->
                   Lookup(s.pending, k) + Lookup(deltas, k)]
<1>1. /\ DOMAIN r = DOMAIN s
      /\ r.num_nodes = s.num_nodes /\ r.csr = c /\ r.pending = p
      /\ r.ticks = s.ticks /\ r.dead_count = s.dead_count /\ r.panicked = s.panicked
  BY DEF ApplyIncrements, StoreOK
<1>2. /\ \A k \in DOMAIN s.csr : s.csr[k] \in Nat
      /\ \A k \in DOMAIN s.pending : s.pending[k] \in Nat \ {0}
      /\ DOMAIN s.csr \cap DOMAIN s.pending = {}
  BY DEF StoreOK
<1>3. \A k \in DOMAIN c : c[k] \in Nat
  <2> SUFFICES ASSUME NEW k \in DOMAIN s.csr PROVE s.csr[k] + Lookup(deltas, k) \in Nat
    OBVIOUS
  <2>1. GetWeight(s, k) = s.csr[k] /\ s.csr[k] \in Nat
    BY <1>2, WeightPlace
  <2> QED
    BY <2>1 DEF Lookup
<1>4. \A k \in DOMAIN p : p[k] \in Nat \ {0}
  <2> SUFFICES ASSUME NEW k \in DOMAIN s.pending \cup (DOMAIN deltas \ DOMAIN s.csr)
               PROVE  Lookup(s.pending, k) + Lookup(deltas, k) \in Nat \ {0}
    OBVIOUS
  <2>1. CASE k \in DOMAIN s.pending
    <3>1. GetWeight(s, k) = s.pending[k] /\ s.pending[k] \in Nat \ {0}
      BY <1>2, <2>1, WeightPlace
    <3> QED
      BY <2>1, <3>1 DEF Lookup
  <2>2. CASE k \notin DOMAIN s.pending
    <3>1. GetWeight(s, k) = 0 /\ k \in DOMAIN deltas
      BY <2>2, WeightPlace
    <3> QED
      BY <2>2, <3>1 DEF Lookup
  <2> QED
    BY <2>1, <2>2
<1>5. DOMAIN c = DOMAIN s.csr
      /\ DOMAIN p = DOMAIN s.pending \cup (DOMAIN deltas \ DOMAIN s.csr)
  OBVIOUS
<1> HIDE DEF r, c, p
<1>6. StoreOK(r, t)
  BY <1>1, <1>3, <1>4, <1>5 DEF StoreOK
<1> QED
  BY <1>6 DEF r

LEMMA TouchCorrect ==
  ASSUME NEW n \in Nat, NEW t \in Nat, n <= t, NEW s, StoreOK(s, n), NEW K, K \subseteq Key
  PROVE  /\ StoreOK(Touch(s, K, t), t)
         /\ \A k : GetWeight(Touch(s, K, t), k) = GetWeight(s, k)
         /\ Touch(s, K, t).num_nodes = s.num_nodes
<1> DEFINE r == Touch(s, K, t)
<1>1. /\ DOMAIN r = DOMAIN s
      /\ r.num_nodes = s.num_nodes /\ r.csr = s.csr /\ r.pending = s.pending
      /\ r.ticks = Put(s.ticks, K, t) /\ r.dead_count = s.dead_count
      /\ r.panicked = s.panicked
  BY DEF Touch, StoreOK
<1>2. /\ DOMAIN r.ticks = DOMAIN s.ticks \cup K
      /\ \A k \in DOMAIN r.ticks : r.ticks[k] \in 0 .. t
  BY <1>1 DEF Put, StoreOK
<1> HIDE DEF r
<1>3. StoreOK(r, t)
  BY <1>1, <1>2 DEF StoreOK
<1>4. \A k : GetWeight(r, k) = GetWeight(s, k)
  BY <1>1 DEF GetWeight
<1> QED
  BY <1>1, <1>3, <1>4 DEF r

LEMMA GrowCorrect ==
  ASSUME NEW t \in Nat, NEW s, StoreOK(s, t), NEW n \in Nat
  PROVE  StoreOK(Grow(s, n), t)
<1>1. CASE n <= s.num_nodes
  BY <1>1 DEF Grow
<1>2. CASE n > s.num_nodes
  <2> DEFINE r == [s EXCEPT !.num_nodes = n]
  <2>1. Grow(s, n) = r
    BY <1>2 DEF Grow, StoreOK
  <2>2. /\ DOMAIN r = DOMAIN s
        /\ r.num_nodes = n /\ r.csr = s.csr /\ r.pending = s.pending
        /\ r.ticks = s.ticks /\ r.dead_count = s.dead_count /\ r.panicked = s.panicked
    BY DEF StoreOK
  <2>3. \A k \in DOMAIN s.csr \cup DOMAIN s.pending : k[1] \in Nat /\ k[2] \in Nat
    BY ConfigAssumption DEF StoreOK, Key
  <2> HIDE DEF r
  <2> QED
    BY <1>2, <2>1, <2>2, <2>3 DEF StoreOK
<1> QED
  BY <1>1, <1>2 DEF StoreOK

(***************************************************************************)
(* The two prune passes.                                                   *)
(***************************************************************************)
LEMMA PruneBelowCorrect ==
  ASSUME NEW t \in Nat, NEW s, StoreOK(s, t)
  PROVE  StoreOK(PruneBelow(s), t)
<1> DEFINE K == {k \in LiveCsr(s) : s.csr[k] < MinWeight}
           P == Restrict(s.pending, {k \in DOMAIN s.pending : s.pending[k] >= MinWeight})
           r == [Kill(s, K) EXCEPT !.pending = P]
<1>1. SubMap(P, s.pending) /\ SubMap(s.ticks, s.ticks)
  BY DEF SubMap, Restrict
<1>2. PruneBelow(s) = MaybeCompact(r)
  BY DEF PruneBelow
<1>3. K \subseteq LiveCsr(s)
  OBVIOUS
<1> HIDE DEF K, P
<1>4. IsRemoval(r, s, K, P, s.ticks)
  BY <1>1, <1>3 DEF IsRemoval, Kill, StoreOK
<1> HIDE DEF r
<1>5. StoreOK(r, t)
  BY <1>4, RemovalCorrect
<1> QED
  BY <1>2, <1>5, MaybeCompactCorrect

LEMMA PruneInactiveCorrect ==
  ASSUME NEW n \in Nat, NEW t \in Nat, n <= t, NEW s, StoreOK(s, n)
  PROVE  StoreOK(PruneInactive(s, t), n)
<1> DEFINE K == Stale(s, t, LiveCsr(s))
           P == Without(s.pending, Stale(s, t, DOMAIN s.pending))
           T == Without(s.ticks, K)
           r == [Kill(s, K) EXCEPT !.ticks = T, !.pending = P]
<1>1. SubMap(P, s.pending) /\ SubMap(T, s.ticks)
  BY DEF SubMap, Without, Restrict
<1>2. PruneInactive(s, t) = MaybeCompact(r)
  BY DEF PruneInactive
<1>3. K \subseteq LiveCsr(s)
  BY DEF Stale
<1> HIDE DEF K, P, T
<1>4. IsRemoval(r, s, K, P, T)
  BY <1>1, <1>3 DEF IsRemoval, Kill, StoreOK
<1> HIDE DEF r
<1>5. StoreOK(r, n)
  BY <1>4, RemovalCorrect
<1> QED
  BY <1>2, <1>5, MaybeCompactCorrect

(***************************************************************************)
(* Garbage.  The counter never falls below the number of dead slots, and   *)
(* whatever makes a slot dead may compact afterwards.                      *)
(***************************************************************************)
CountsDead(s) == Cardinality(Dead(s)) <= s.dead_count
FewDead(s) == 4 * Cardinality(Dead(s)) <= Cardinality(DOMAIN s.csr)

LEMMA DeadShape ==
  ASSUME NEW t \in Nat, NEW s, StoreOK(s, t)
  PROVE  /\ Dead(s) = {k \in DOMAIN s.csr : s.csr[k] = 0}
         /\ IsFiniteSet(Dead(s)) /\ Cardinality(Dead(s)) \in Nat
         /\ Cardinality(DOMAIN s.csr) \in Nat
<1>1. DOMAIN s.csr \subseteq Key /\ \A k \in DOMAIN s.csr : s.csr[k] \in Nat
  BY DEF StoreOK
<1>2. Dead(s) = {k \in DOMAIN s.csr : s.csr[k] = 0}
  BY <1>1 DEF Dead
<1>3. Dead(s) \subseteq Key
  BY <1>1, <1>2
<1> QED
  BY <1>1, <1>2, <1>3, EdgeSetsFinite

\* A store without dead slots, like the one compact returns.
LEMMA NoneDead ==
  ASSUME NEW t \in Nat, NEW s, StoreOK(s, t), Dead(s) = {}
  PROVE  CountsDead(s) /\ FewDead(s)
<1>1. Cardinality(Dead(s)) = 0
  BY FS_EmptySet
<1>2. Cardinality(DOMAIN s.csr) \in Nat /\ s.dead_count \in Nat
  BY DeadShape DEF StoreOK
<1> QED
  BY <1>1, <1>2 DEF CountsDead, FewDead

LEMMA CompactClears ==
  ASSUME NEW t \in Nat, NEW s, StoreOK(s, t)
  PROVE  CountsDead(Compact(s)) /\ FewDead(Compact(s))
<1>1. StoreOK(Compact(s), t)
  BY CompactCorrect
<1>2. Compact(s).csr = Merged(s)
  <2>1. ~Compact(s).panicked
    BY <1>1 DEF StoreOK
  <2> QED
    BY <2>1 DEF Compact, StoreOK
<1>3. \A k \in DOMAIN Merged(s) : Merged(s)[k] \in Nat \ {0}
  BY MergedCorrect
<1>4. Dead(Compact(s)) = {}
  BY <1>1, <1>2, <1>3, DeadShape
<1> QED
  BY <1>1, <1>4, NoneDead

LEMMA MaybeCompactClears ==
  ASSUME NEW t \in Nat, NEW s, StoreOK(s, t), CountsDead(s)
  PROVE  CountsDead(MaybeCompact(s)) /\ FewDead(MaybeCompact(s))
<1>1. CASE DOMAIN s.csr = {}
  <2>1. Dead(s) = {} /\ MaybeCompact(s) = s
    BY <1>1 DEF Dead, MaybeCompact
  <2> QED
    BY <2>1, NoneDead
<1>2. CASE DOMAIN s.csr # {} /\ s.dead_count * 4 > Cardinality(DOMAIN s.csr)
  BY <1>2, CompactClears DEF MaybeCompact
<1>3. CASE DOMAIN s.csr # {} /\ ~(s.dead_count * 4 > Cardinality(DOMAIN s.csr))
  <2>1. MaybeCompact(s) = s
    BY <1>3 DEF MaybeCompact
  <2>2. /\ Cardinality(Dead(s)) \in Nat /\ Cardinality(DOMAIN s.csr) \in Nat
        /\ s.dead_count \in Nat
    BY DeadShape DEF StoreOK
  <2>3. FewDead(s)
    BY <1>3, <2>2 DEF CountsDead, FewDead
  <2> QED
    BY <2>1, <2>3
<1> QED
  BY <1>1, <1>2, <1>3

\* A call that makes no slot dead and leaves the counter alone.
LEMMA SlotsKept ==
  ASSUME NEW n \in Nat, NEW s, StoreOK(s, n), NEW t \in Nat, NEW r, StoreOK(r, t),
         DOMAIN r.csr = DOMAIN s.csr, r.dead_count = s.dead_count,
         \A k \in DOMAIN s.csr : r.csr[k] = 0 => s.csr[k] = 0
  PROVE  /\ CountsDead(s) => CountsDead(r)
         /\ FewDead(s) => FewDead(r)
<1>1. Dead(r) \subseteq Dead(s)
  BY DeadShape
<1>2. Cardinality(Dead(r)) <= Cardinality(Dead(s))
  BY <1>1, DeadShape, FS_Subset
<1>3. /\ Cardinality(Dead(r)) \in Nat /\ Cardinality(Dead(s)) \in Nat
      /\ Cardinality(DOMAIN s.csr) \in Nat /\ s.dead_count \in Nat
  BY DeadShape DEF StoreOK
<1>4. CountsDead(s) => CountsDead(r)
  BY <1>2, <1>3 DEF CountsDead
<1>5. FewDead(s) => FewDead(r)
  BY <1>2, <1>3 DEF FewDead
<1> QED
  BY <1>4, <1>5

LEMMA RemovalCounts ==
  ASSUME NEW t \in Nat, NEW s, StoreOK(s, t), CountsDead(s), NEW K, NEW P, NEW T, NEW r,
         IsRemoval(r, s, K, P, T)
  PROVE  CountsDead(r)
<1>1. /\ StoreOK(r, t) /\ DOMAIN r.csr = DOMAIN s.csr
      /\ \A k \in DOMAIN s.csr : r.csr[k] = IF k \in K THEN 0 ELSE s.csr[k]
  BY RemovalCorrect
<1>2. K \subseteq DOMAIN s.csr /\ K \cap Dead(s) = {} /\ K \subseteq Key
  BY DEF IsRemoval, LiveCsr, StoreOK
<1>3. Dead(r) = Dead(s) \cup K
  BY <1>1, <1>2, DeadShape
<1>4. /\ IsFiniteSet(K) /\ Cardinality(K) \in Nat
      /\ IsFiniteSet(Dead(s)) /\ Cardinality(Dead(s)) \in Nat /\ s.dead_count \in Nat
  BY <1>2, EdgeSetsFinite, DeadShape DEF StoreOK
<1>5. Dead(s) \cap K = {} /\ Cardinality(Dead(s) \cap K) = 0
  BY <1>2, FS_EmptySet
<1>6. Cardinality(Dead(r)) = Cardinality(Dead(s)) + Cardinality(K)
  <2>1. Cardinality(Dead(s) \cup K)
          = Cardinality(Dead(s)) + Cardinality(K) - Cardinality(Dead(s) \cap K)
    BY <1>4, FS_Union
  <2> QED
    BY <1>3, <1>4, <1>5, <2>1
<1>7. r.dead_count = s.dead_count + Cardinality(K)
  BY DEF IsRemoval, Kill, StoreOK
<1> QED
  BY <1>4, <1>6, <1>7 DEF CountsDead

\* set_weight revives at most one slot, which it counts if the slot was dead.
LEMMA SetWeightClears ==
  ASSUME NEW t \in Nat, NEW s, StoreOK(s, t), CountsDead(s), NEW k \in Key,
         NEW w \in Weight, k[1] < s.num_nodes, k[2] < s.num_nodes
  PROVE  CountsDead(SetWeight(s, k, w)) /\ FewDead(SetWeight(s, k, w))
<1>1. w \in Nat
  BY ConfigAssumption DEF Weight
<1>2. CASE w <= 0
  <2> DEFINE K == {k} \cap LiveCsr(s)
             P == Without(s.pending, {k})
             T == Without(s.ticks, {k})
  <2>1. RemoveEdge(s, k) = [Kill(s, K) EXCEPT !.pending = P, !.ticks = T]
    BY DEF RemoveEdge
  <2>2. SubMap(P, s.pending) /\ SubMap(T, s.ticks)
    BY DEF SubMap, Without, Restrict
  <2>3. K \subseteq LiveCsr(s)
    OBVIOUS
  <2> HIDE DEF K, P, T
  <2>4. IsRemoval(RemoveEdge(s, k), s, K, P, T)
    BY <2>1, <2>2, <2>3 DEF IsRemoval
  <2>5. StoreOK(RemoveEdge(s, k), t) /\ CountsDead(RemoveEdge(s, k))
    BY <2>4, RemovalCorrect, RemovalCounts
  <2> QED
    BY <1>2, <2>5, MaybeCompactClears DEF SetWeight
<1>3. CASE w > 0 /\ k \in DOMAIN s.csr
  <2> DEFINE r == WriteSlot(s, k, w)
  <2>1. /\ DOMAIN r = DOMAIN s
        /\ r.num_nodes = s.num_nodes /\ r.csr = Put(s.csr, {k}, w)
        /\ r.pending = s.pending /\ r.ticks = s.ticks /\ r.panicked = s.panicked
        /\ r.dead_count = IF s.csr[k] = 0 /\ s.dead_count > 0 THEN s.dead_count - 1
                          ELSE s.dead_count
    BY DEF WriteSlot, StoreOK
  <2>2. /\ DOMAIN r.csr = DOMAIN s.csr
        /\ \A o \in DOMAIN r.csr : r.csr[o] \in Nat
        /\ \A o \in DOMAIN s.csr : r.csr[o] = IF o = k THEN w ELSE s.csr[o]
    BY <1>1, <1>3, <2>1 DEF Put, StoreOK
  <2>3. r.dead_count \in Nat
    BY <2>1 DEF StoreOK
  <2> HIDE DEF r
  <2>4. StoreOK(r, t)
    BY <2>1, <2>2, <2>3 DEF StoreOK
  <2>5. Dead(r) = Dead(s) \ {k}
    BY <1>1, <1>3, <2>2, <2>4, DeadShape
  <2>6. /\ IsFiniteSet(Dead(s)) /\ Cardinality(Dead(s)) \in Nat /\ s.dead_count \in Nat
        /\ k \in Dead(s) <=> s.csr[k] = 0
    BY <1>3, DeadShape DEF StoreOK
  <2>7. Cardinality(Dead(r)) = IF k \in Dead(s) THEN Cardinality(Dead(s)) - 1
                               ELSE Cardinality(Dead(s))
    BY <2>5, <2>6, FS_RemoveElement
  <2>8. CountsDead(r)
    BY <2>1, <2>6, <2>7 DEF CountsDead
  <2> QED
    BY <1>1, <1>3, <2>4, <2>8, MaybeCompactClears DEF SetWeight, r
<1>4. CASE w > 0 /\ k \notin DOMAIN s.csr
  <2> DEFINE r == [s EXCEPT !.pending = Put(s.pending, {k}, w)]
  <2>1. /\ DOMAIN r = DOMAIN s
        /\ r.num_nodes = s.num_nodes /\ r.csr = s.csr
        /\ r.pending = Put(s.pending, {k}, w) /\ r.ticks = s.ticks
        /\ r.panicked = s.panicked /\ r.dead_count = s.dead_count
    BY DEF StoreOK
  <2>2. /\ DOMAIN r.pending = DOMAIN s.pending \cup {k}
        /\ \A o \in DOMAIN r.pending : r.pending[o] \in Nat \ {0}
    BY <1>1, <1>4, <2>1 DEF Put, StoreOK
  <2> HIDE DEF r
  <2>3. StoreOK(r, t)
    BY <1>4, <2>1, <2>2 DEF StoreOK
  <2>4. CountsDead(r)
    BY <2>1, <2>3, SlotsKept
  <2> QED
    BY <1>1, <1>4, <2>3, <2>4, MaybeCompactClears DEF SetWeight, r
<1> QED
  BY <1>1, <1>2, <1>3, <1>4

LEMMA ScaleAllKeeps ==
  ASSUME NEW t \in Nat, NEW s, StoreOK(s, t), Bounded(s)
  PROVE  /\ CountsDead(s) => CountsDead(ScaleAll(s))
         /\ FewDead(s) => FewDead(ScaleAll(s))
<1>1. /\ ScaleAll(s).csr = [k \in DOMAIN s.csr |-> Decayed[s.csr[k]]]
      /\ ScaleAll(s).dead_count = s.dead_count
  BY DEF ScaleAll, StoreOK
<1>2. \A k \in DOMAIN s.csr : Decayed[s.csr[k]] = 0 => s.csr[k] = 0
  <2>1. \A w \in Weight : w \in Nat /\ (w > 0 => Decayed[w] > 0)
    BY ConfigAssumption DEF Weight
  <2>2. \A w \in Weight : Decayed[w] = 0 => w = 0
    BY <2>1
  <2> QED
    BY <2>2, BoundedPlace
<1>3. StoreOK(ScaleAll(s), t)
  BY ScaleAllCorrect
<1> QED
  BY <1>1, <1>2, <1>3, SlotsKept

\* An increment leaves no weight of 0 behind.
LEMMA ApplyIncrementsKeeps ==
  ASSUME NEW t \in Nat, NEW s, StoreOK(s, t), NEW deltas,
         DOMAIN deltas \subseteq Key,
         \A k \in DOMAIN deltas : /\ deltas[k] \in Int
                                  /\ GetWeight(s, k) + deltas[k] \in Nat \ {0}
                                  /\ k[1] < s.num_nodes /\ k[2] < s.num_nodes
  PROVE  /\ CountsDead(s) => CountsDead(ApplyIncrements(s, deltas))
         /\ FewDead(s) => FewDead(ApplyIncrements(s, deltas))
<1> DEFINE r == ApplyIncrements(s, deltas)
<1>1. /\ r.csr = [k \in DOMAIN s.csr |-> s.csr[k] + Lookup(deltas, k)]
      /\ r.dead_count = s.dead_count
  BY DEF ApplyIncrements, StoreOK
<1>2. StoreOK(r, t)
  BY ApplyIncrementsCorrect
<1> HIDE DEF r
<1>3. ASSUME NEW k \in DOMAIN s.csr, r.csr[k] = 0
      PROVE  s.csr[k] = 0
  <2>1. GetWeight(s, k) = s.csr[k] /\ s.csr[k] \in Nat
    BY WeightPlace DEF StoreOK
  <2>2. r.csr[k] = s.csr[k] + Lookup(deltas, k)
    BY <1>1
  <2> QED
    BY <1>3, <2>1, <2>2 DEF Lookup
<1> QED
  BY <1>1, <1>2, <1>3, SlotsKept DEF r

LEMMA TouchKeeps ==
  ASSUME NEW n \in Nat, NEW t \in Nat, n <= t, NEW s, StoreOK(s, n), NEW K, K \subseteq Key
  PROVE  /\ CountsDead(s) => CountsDead(Touch(s, K, t))
         /\ FewDead(s) => FewDead(Touch(s, K, t))
<1>1. Touch(s, K, t).csr = s.csr /\ Touch(s, K, t).dead_count = s.dead_count
  BY DEF Touch, StoreOK
<1>2. StoreOK(Touch(s, K, t), t)
  BY TouchCorrect
<1> QED
  BY <1>1, <1>2, SlotsKept

LEMMA GrowKeeps ==
  ASSUME NEW t \in Nat, NEW s, StoreOK(s, t), NEW n \in Nat
  PROVE  /\ CountsDead(s) => CountsDead(Grow(s, n))
         /\ FewDead(s) => FewDead(Grow(s, n))
<1>1. Grow(s, n).csr = s.csr /\ Grow(s, n).dead_count = s.dead_count
  BY DEF Grow, StoreOK
<1>2. StoreOK(Grow(s, n), t)
  BY GrowCorrect
<1> QED
  BY <1>1, <1>2, SlotsKept

LEMMA PruneBelowClears ==
  ASSUME NEW t \in Nat, NEW s, StoreOK(s, t), CountsDead(s)
  PROVE  CountsDead(PruneBelow(s)) /\ FewDead(PruneBelow(s))
<1> DEFINE K == {k \in LiveCsr(s) : s.csr[k] < MinWeight}
           P == Restrict(s.pending, {k \in DOMAIN s.pending : s.pending[k] >= MinWeight})
           r == [Kill(s, K) EXCEPT !.pending = P]
<1>1. SubMap(P, s.pending) /\ SubMap(s.ticks, s.ticks)
  BY DEF SubMap, Restrict
<1>2. PruneBelow(s) = MaybeCompact(r)
  BY DEF PruneBelow
<1>3. K \subseteq LiveCsr(s)
  OBVIOUS
<1> HIDE DEF K, P
<1>4. IsRemoval(r, s, K, P, s.ticks)
  BY <1>1, <1>3 DEF IsRemoval, Kill, StoreOK
<1> HIDE DEF r
<1>5. StoreOK(r, t) /\ CountsDead(r)
  BY <1>4, RemovalCorrect, RemovalCounts
<1> QED
  BY <1>2, <1>5, MaybeCompactClears

LEMMA PruneInactiveClears ==
  ASSUME NEW n \in Nat, NEW t \in Nat, n <= t, NEW s, StoreOK(s, n), CountsDead(s)
  PROVE  CountsDead(PruneInactive(s, t)) /\ FewDead(PruneInactive(s, t))
<1> DEFINE K == Stale(s, t, LiveCsr(s))
           P == Without(s.pending, Stale(s, t, DOMAIN s.pending))
           T == Without(s.ticks, K)
           r == [Kill(s, K) EXCEPT !.ticks = T, !.pending = P]
<1>1. SubMap(P, s.pending) /\ SubMap(T, s.ticks)
  BY DEF SubMap, Without, Restrict
<1>2. PruneInactive(s, t) = MaybeCompact(r)
  BY DEF PruneInactive
<1>3. K \subseteq LiveCsr(s)
  BY DEF Stale
<1> HIDE DEF K, P, T
<1>4. IsRemoval(r, s, K, P, T)
  BY <1>1, <1>3 DEF IsRemoval, Kill, StoreOK
<1> HIDE DEF r
<1>5. StoreOK(r, n) /\ CountsDead(r)
  BY <1>4, RemovalCorrect, RemovalCounts
<1> QED
  BY <1>2, <1>5, MaybeCompactClears

(***************************************************************************)
(* reindex: the new num_nodes is above every index that survives.          *)
(***************************************************************************)
LEMMA SizeAfterAbove ==
  ASSUME NEW f \in IndexMaps
  PROVE  SizeAfter(f) \in Nat /\ \A n \in Range(f) : n < SizeAfter(f)
<1>1. Range(f) \subseteq Node /\ Range(f) \in SUBSET Nat
  BY IndexMapShape DEF Range
<1>2. CASE Range(f) = {}
  BY <1>2 DEF SizeAfter
<1>3. CASE Range(f) # {}
  <2>1. IsFiniteSet(Range(f))
    BY <1>1, SparseAssumption, FS_Subset
  <2>2. \E m \in Range(f) : \A n \in Range(f) : n <= m
    BY <1>1, <1>3, <2>1, MaxExists
  <2>3. MaxIndex(f) \in Range(f) /\ \A n \in Range(f) : n <= MaxIndex(f)
    BY <2>2 DEF MaxIndex
  <2> QED
    BY <1>1, <1>3, <2>3 DEF SizeAfter
<1> QED
  BY <1>2, <1>3

LEMMA ReindexCorrect ==
  ASSUME NEW t \in Nat, NEW s, StoreOK(s, t), NEW f \in IndexMaps
  PROVE  /\ StoreOK(Reindex(s, f), t)
         /\ CountsDead(Reindex(s, f)) /\ FewDead(Reindex(s, f))
<1> DEFINE last == [k \in DOMAIN Merged(s) |-> LastActive(s, k)]
           q == [num_nodes |-> SizeAfter(f), csr |-> EmptyMap,
                 pending |-> Rekey(f, Merged(s)), ticks |-> TicksReindexed(s, f),
                 dead_count |-> 0, panicked |-> s.panicked]
<1>1. /\ DOMAIN Merged(s) \subseteq Key
      /\ \A k \in DOMAIN Merged(s) : Merged(s)[k] \in Nat \ {0}
  BY MergedCorrect
<1>2. /\ DOMAIN last = DOMAIN Merged(s)
      /\ \A k \in DOMAIN last : last[k] \in 0 .. t
  BY DEF LastActive, Lookup, StoreOK
<1>3. TicksReindexed(s, f) = Rekey(f, last)
  BY DEF TicksReindexed
<1> HIDE DEF last
<1>4. /\ DOMAIN Rekey(f, Merged(s)) = {MapKey(f, o) : o \in Mapped(f, DOMAIN Merged(s))}
      /\ DOMAIN Rekey(f, Merged(s)) \subseteq Key
      /\ \A o \in Mapped(f, DOMAIN Merged(s)) :
           Rekey(f, Merged(s))[MapKey(f, o)] = Merged(s)[o]
  BY <1>1, RekeyDomain, RekeyValue
<1>5. /\ DOMAIN Rekey(f, last) = {MapKey(f, o) : o \in Mapped(f, DOMAIN last)}
      /\ DOMAIN Rekey(f, last) \subseteq Key
      /\ \A o \in Mapped(f, DOMAIN last) : Rekey(f, last)[MapKey(f, o)] = last[o]
  BY <1>1, <1>2, RekeyDomain, RekeyValue
<1>6. \A k \in DOMAIN Rekey(f, Merged(s)) : Rekey(f, Merged(s))[k] \in Nat \ {0}
  BY <1>1, <1>4 DEF Mapped
<1>7. \A k \in DOMAIN Rekey(f, last) : Rekey(f, last)[k] \in 0 .. t
  BY <1>2, <1>5 DEF Mapped
<1>8. \A k \in DOMAIN Rekey(f, Merged(s)) : k[1] < SizeAfter(f) /\ k[2] < SizeAfter(f)
  <2> SUFFICES ASSUME NEW o \in Mapped(f, DOMAIN Merged(s))
               PROVE  MapKey(f, o)[1] < SizeAfter(f) /\ MapKey(f, o)[2] < SizeAfter(f)
    BY <1>4
  <2>1. f[o[1]] \in Range(f) /\ f[o[2]] \in Range(f)
    BY DEF Mapped, Range
  <2>2. MapKey(f, o) = <<f[o[1]], f[o[2]]>> \/ MapKey(f, o) = <<f[o[2]], f[o[1]]>>
    BY DEF MapKey, Canonical
  <2> QED
    BY <2>1, <2>2, SizeAfterAbove
<1>9. DOMAIN EmptyMap = {} /\ SizeAfter(f) \in Nat /\ ~s.panicked
  BY SizeAfterAbove DEF EmptyMap, StoreOK
<1>10. /\ DOMAIN q = {"num_nodes", "csr", "pending", "ticks", "dead_count", "panicked"}
       /\ q.num_nodes = SizeAfter(f) /\ q.csr = EmptyMap
       /\ q.pending = Rekey(f, Merged(s)) /\ q.ticks = Rekey(f, last)
       /\ q.dead_count = 0 /\ q.panicked = s.panicked
  BY <1>3
<1>11. Reindex(s, f) = Compact(q)
  BY DEF Reindex
<1> HIDE DEF q
<1>12. StoreOK(q, t)
  BY <1>4, <1>5, <1>6, <1>7, <1>8, <1>9, <1>10 DEF StoreOK
<1> QED
  BY <1>11, <1>12, CompactCorrect, CompactClears

(***************************************************************************)
(* One cycle of the link layer.                                            *)
(***************************************************************************)
LEMMA TickCorrect ==
  ASSUME NEW n \in Nat, NEW t \in Nat, n <= t, NEW s, StoreOK(s, n), Bounded(s),
         NEW act \in Activation, NEW mode \in DecayMode,
         \A k \in Pairs(act) : k[1] < s.num_nodes /\ k[2] < s.num_nodes
  PROVE  /\ StoreOK(TickStore(s, act, t, mode), t)
         /\ CountsDead(s) => /\ CountsDead(TickStore(s, act, t, mode))
                            /\ FewDead(TickStore(s, act, t, mode))
<1> DEFINE d == IF mode = "Skip" THEN s ELSE ScaleAll(s)
           w == [k \in Key |-> GetWeight(d, k)]
           u == Touch(d, Pairs(act), t)
           r == ApplyIncrements(u, Increments(w, act))
<1>1. /\ StoreOK(d, n) /\ Bounded(d) /\ d.num_nodes = s.num_nodes
      /\ CountsDead(s) => CountsDead(d)
  <2>1. ScaleAll(s).num_nodes = s.num_nodes
    BY DEF ScaleAll, StoreOK
  <2> QED
    BY <2>1, ScaleAllCorrect, ScaleAllKeeps
<1>2. TickStore(s, act, t, mode) = Prune(r, t)
  BY DEF TickStore, Strengthen
<1> HIDE DEF d
<1>3. w \in [Key -> Weight]
  BY <1>1, BoundedPlace
<1>4. Pairs(act) \subseteq Key
  BY DEF Pairs
<1>5. /\ StoreOK(u, t)
      /\ \A k : GetWeight(u, k) = GetWeight(d, k)
      /\ u.num_nodes = s.num_nodes
      /\ CountsDead(s) => CountsDead(u)
  BY <1>1, <1>4, TouchCorrect, TouchKeeps
<1> HIDE DEF u
<1>6. DOMAIN Increments(w, act) = Pairs(act)
  BY DEF Increments
<1>7. ASSUME NEW k \in Pairs(act)
      PROVE  /\ Increments(w, act)[k] \in Int
             /\ GetWeight(u, k) + Increments(w, act)[k] \in Nat \ {0}
             /\ k[1] < u.num_nodes /\ k[2] < u.num_nodes
  <2> DEFINE new == NewWeight(w[k], Delta * act[k[1]] * act[k[2]])
  <2>1. k \in Key /\ w[k] = GetWeight(u, k) /\ w[k] \in Weight
    BY <1>3, <1>4, <1>5
  <2>2. new \in Weight \ {0}
    BY <2>1, GainIsNat, NewWeightInRange
  <2>3. w[k] + Increments(w, act)[k] = new
    BY <1>3, IncrementRestores
  <2>4. Increments(w, act)[k] = new - w[k]
    BY DEF Increments
  <2>5. new \in Nat \ {0} /\ w[k] \in Nat
    BY <2>1, <2>2, ConfigAssumption DEF Weight
  <2> HIDE DEF new, w
  <2> QED
    BY <1>5, <2>1, <2>3, <2>4, <2>5
<1> HIDE DEF w
<1>8. StoreOK(r, t) /\ (CountsDead(s) => CountsDead(r))
  BY <1>4, <1>5, <1>6, <1>7, ApplyIncrementsCorrect, ApplyIncrementsKeeps
<1> HIDE DEF r
<1>9. StoreOK(Prune(r, t), t)
  BY <1>8, PruneBelowCorrect, PruneInactiveCorrect DEF Prune
<1>10. CountsDead(s) => CountsDead(Prune(r, t)) /\ FewDead(Prune(r, t))
  BY <1>8, PruneBelowCorrect, PruneBelowClears, PruneInactiveClears DEF Prune
<1> QED
  BY <1>2, <1>9, <1>10

(***************************************************************************)
(* Every call of the public API keeps the invariant, and the guard of the  *)
(* exploration keeps the weights bounded.                                  *)
(***************************************************************************)
IInv ==
  /\ StoreOK(store, now) /\ Bounded(store)
  /\ CountsDead(store) /\ FewDead(store)
  /\ now \in Nat

LEMMA InitInvariant == Init => IInv
<1> SUFFICES ASSUME Init PROVE IInv
  OBVIOUS
<1>1. /\ DOMAIN store = {"num_nodes", "csr", "pending", "ticks", "dead_count", "panicked"}
      /\ store.num_nodes = Capacity /\ store.csr = EmptyMap /\ store.pending = EmptyMap
      /\ store.ticks = EmptyMap /\ store.dead_count = 0 /\ store.panicked = FALSE
  BY DEF Init, New
<1>2. DOMAIN EmptyMap = {} /\ now = 0
  BY DEF EmptyMap, Init
<1>3. StoreOK(store, now)
  BY <1>1, <1>2, SparseAssumption DEF StoreOK
<1>4. Bounded(store)
  BY <1>1, <1>2, ConfigAssumption DEF Bounded, GetWeight, Lookup
<1>5. Dead(store) = {}
  BY <1>1, <1>2 DEF Dead
<1>6. CountsDead(store) /\ FewDead(store)
  BY <1>2, <1>3, <1>5, NoneDead
<1> QED
  BY <1>2, <1>3, <1>4, <1>6 DEF IInv

LEMMA TimeIsLater ==
  ASSUME NEW n \in Nat, NEW t \in Nat, n <= t, NEW s, StoreOK(s, n)
  PROVE  StoreOK(s, t)
BY DEF StoreOK

LEMMA ReturnsInvariant ==
  ASSUME IInv, NEW s, NEW t \in Nat, StoreOK(s, t), CountsDead(s), FewDead(s),
         Returns(s), now' = t
  PROVE  IInv'
<1>1. store' = s /\ Bounded(s)
  BY DEF Returns, Bounded
<1>2. StoreOK(store', now') /\ Bounded(store') /\ CountsDead(store') /\ FewDead(store')
  BY <1>1
<1> QED
  BY <1>2 DEF IInv, StoreOK, Bounded, GetWeight, CountsDead, FewDead, Dead

LEMMA NextInvariant == IInv /\ [Next]_vars => IInv'
<1> SUFFICES ASSUME IInv, [Next]_vars PROVE IInv'
  OBVIOUS
<1>0. /\ StoreOK(store, now) /\ Bounded(store) /\ now \in Nat
      /\ CountsDead(store) /\ FewDead(store)
      /\ store.num_nodes \in Nat
      /\ \A t \in Time : t \in Nat
      /\ \A k \in ClientKeys : k \in Key
      /\ \A w \in Weight : w \in Nat
  BY SparseAssumption, ConfigAssumption DEF IInv, StoreOK, Time, Weight
<1>1. ASSUME NEW k \in ClientKeys, NEW w \in Weight, CallSetWeight(k, w)
      PROVE  IInv'
  <2>1. Returns(SetWeight(store, k, w)) /\ now' = now /\ InRange(k)
    BY <1>1 DEF CallSetWeight
  <2>2. /\ StoreOK(SetWeight(store, k, w), now)
        /\ CountsDead(SetWeight(store, k, w)) /\ FewDead(SetWeight(store, k, w))
    BY <1>0, <2>1, SetWeightCorrect, SetWeightClears DEF InRange
  <2> QED
    BY <1>0, <2>1, <2>2, ReturnsInvariant
<1>2. ASSUME CallScaleAll
      PROVE  IInv'
  BY <1>0, <1>2, ScaleAllCorrect, ScaleAllKeeps, ReturnsInvariant DEF CallScaleAll
<1>3. ASSUME NEW k \in ClientKeys, NEW d \in Weight \ {0}, CallApplyIncrements(k, d)
      PROVE  IInv'
  <2> DEFINE deltas == Put(EmptyMap, {k}, d)
  <2>1. DOMAIN deltas = {k} /\ deltas[k] = d
    BY DEF Put, EmptyMap
  <2>2. Returns(ApplyIncrements(store, deltas)) /\ now' = now /\ InRange(k)
    BY <1>3 DEF CallApplyIncrements
  <2>3. k \in Key /\ d \in Nat \ {0} /\ GetWeight(store, k) \in Nat
    BY <1>0, WeightPlace
  <2> HIDE DEF deltas
  <2>4. /\ StoreOK(ApplyIncrements(store, deltas), now)
        /\ CountsDead(ApplyIncrements(store, deltas)) /\ FewDead(ApplyIncrements(store, deltas))
    <3>1. \A o \in DOMAIN deltas : /\ deltas[o] \in Int
                                  /\ GetWeight(store, o) + deltas[o] \in Nat \ {0}
                                  /\ o[1] < store.num_nodes /\ o[2] < store.num_nodes
      BY <2>1, <2>2, <2>3 DEF InRange
    <3> QED
      BY <1>0, <2>1, <2>3, <3>1, ApplyIncrementsCorrect, ApplyIncrementsKeeps
  <2> QED
    BY <1>0, <2>2, <2>4, ReturnsInvariant
<1>4. ASSUME NEW k \in ClientKeys, NEW t \in Time, CallTouch(k, t)
      PROVE  IInv'
  <2>1. Returns(Touch(store, {k}, t)) /\ now' = t /\ now <= t /\ t \in Nat
    BY <1>0, <1>4 DEF CallTouch
  <2>2. /\ StoreOK(Touch(store, {k}, t), t)
        /\ CountsDead(Touch(store, {k}, t)) /\ FewDead(Touch(store, {k}, t))
    <3>1. {k} \subseteq Key
      BY <1>0
    <3> QED
      BY <1>0, <2>1, <3>1, TouchCorrect, TouchKeeps
  <2> QED
    BY <2>1, <2>2, ReturnsInvariant
<1>5. ASSUME CallPruneBelow
      PROVE  IInv'
  BY <1>0, <1>5, PruneBelowCorrect, PruneBelowClears, ReturnsInvariant DEF CallPruneBelow
<1>6. ASSUME NEW t \in Time, CallPruneInactive(t)
      PROVE  IInv'
  <2>1. Returns(PruneInactive(store, t)) /\ now' = t /\ now <= t /\ t \in Nat
    BY <1>0, <1>6 DEF CallPruneInactive
  <2>2. /\ StoreOK(PruneInactive(store, t), t)
        /\ CountsDead(PruneInactive(store, t)) /\ FewDead(PruneInactive(store, t))
    BY <1>0, <2>1, PruneInactiveCorrect, PruneInactiveClears, TimeIsLater
  <2> QED
    BY <2>1, <2>2, ReturnsInvariant
<1>7. ASSUME CallCompact
      PROVE  IInv'
  BY <1>0, <1>7, CompactCorrect, CompactClears, ReturnsInvariant DEF CallCompact
<1>8. ASSUME NEW n \in Node, CallGrow(n + 1)
      PROVE  IInv'
  <2>1. n + 1 \in Nat
    BY ConfigAssumption
  <2>2. Returns(Grow(store, n + 1)) /\ now' = now
    BY <1>8 DEF CallGrow
  <2>3. /\ StoreOK(Grow(store, n + 1), now)
        /\ CountsDead(Grow(store, n + 1)) /\ FewDead(Grow(store, n + 1))
    BY <1>0, <2>1, GrowCorrect, GrowKeeps
  <2> QED
    BY <1>0, <2>2, <2>3, ReturnsInvariant
<1>9. ASSUME NEW f \in IndexMaps, CallReindex(f)
      PROVE  IInv'
  BY <1>0, <1>9, ReindexCorrect, ReturnsInvariant DEF CallReindex
<1>10. ASSUME NEW act \in Activation, NEW t \in Time, NEW mode \in DecayMode,
              CallTick(act, t, mode)
       PROVE  IInv'
  <2>1. /\ Returns(TickStore(store, act, t, mode)) /\ now' = t /\ now <= t /\ t \in Nat
        /\ \A k \in Pairs(act) : k[1] < store.num_nodes /\ k[2] < store.num_nodes
    BY <1>0, <1>10 DEF CallTick, InRange
  <2>2. /\ StoreOK(TickStore(store, act, t, mode), t)
        /\ CountsDead(TickStore(store, act, t, mode)) /\ FewDead(TickStore(store, act, t, mode))
    BY <1>0, <2>1, TickCorrect
  <2> QED
    BY <2>1, <2>2, ReturnsInvariant
<1>11. ASSUME UNCHANGED vars
       PROVE  IInv'
  BY <1>11 DEF vars, IInv, StoreOK, Bounded, GetWeight, CountsDead, FewDead, Dead
<1> QED
  BY <1>1, <1>2, <1>3, <1>4, <1>5, <1>6, <1>7, <1>8, <1>9, <1>10, <1>11 DEF Next

(***************************************************************************)
(* Slots and buffered edges hold weights of canonical keys.                *)
(***************************************************************************)
THEOREM SparseTypeCorrect == Spec => []TypeOK
<1>1. IInv => TypeOK
  BY DEF IInv, StoreOK, TypeOK
<1> QED
  BY <1>1, InitInvariant, NextInvariant, PTL DEF Spec

(***************************************************************************)
(* No edge is counted twice: the matrix and the buffer share no key, dead  *)
(* slots included.                                                         *)
(***************************************************************************)
THEOREM SparseDisjoint == Spec => []CsrPendingDisjoint
<1>1. IInv => CsrPendingDisjoint
  BY DEF IInv, StoreOK, CsrPendingDisjoint
<1> QED
  BY <1>1, InitInvariant, NextInvariant, PTL DEF Spec

(***************************************************************************)
(* compact never indexes past the row pointers, for a client that stays    *)
(* below num_nodes: grow only extends it, and reindex leaves it above      *)
(* every index it hands out.                                               *)
(***************************************************************************)
THEOREM SparseNeverPanics == Spec => []NeverPanics
<1>1. IInv => NeverPanics
  BY DEF IInv, StoreOK, NeverPanics
<1> QED
  BY <1>1, InitInvariant, NextInvariant, PTL DEF Spec

(***************************************************************************)
(* At most a quarter of the slots are dead between two calls: every call   *)
(* that kills slots counts them and then has the trigger evaluated, and no *)
(* revival lowers the counter further than the number of dead slots.       *)
(***************************************************************************)
THEOREM SparseGarbageBounded == Spec => []GarbageBounded
<1>1. IInv => GarbageBounded
  BY DEF IInv, CountsDead, FewDead, GarbageBounded
<1> QED
  BY <1>1, InitInvariant, NextInvariant, PTL DEF Spec

(***************************************************************************)
(* Merging the buffer and dropping dead slots changes no weight a caller   *)
(* can read.                                                               *)
(***************************************************************************)
THEOREM SparseCompactionInvisible == Spec => CompactionInvisible
<1> DEFINE Step == CallCompact => \A k \in Key : GetWeight(store', k) = GetWeight(store, k)
<1>1. IInv /\ [Next]_vars => [Step]_vars
  <2> SUFFICES ASSUME IInv, CallCompact, NEW k \in Key
               PROVE  GetWeight(store', k) = GetWeight(store, k)
    OBVIOUS
  <2>1. store' = Compact(store)
    BY DEF CallCompact, Returns
  <2>2. GetWeight(Compact(store), k) = GetWeight(store, k)
    BY CompactCorrect DEF IInv
  <2> QED
    BY <2>1, <2>2
<1> QED
  BY <1>1, InitInvariant, NextInvariant, PTL DEF Spec, CompactionInvisible

(***************************************************************************)
(* Refinement.  The edges of the abstract store are what the backend       *)
(* answers to get_weight and last_active: each method is described by its  *)
(* effect on these two reads, wherever slots, buffer and compaction have   *)
(* put an edge.                                                            *)
(***************************************************************************)
EdgesOf(s) ==
  [k \in DOMAIN Merged(s) |-> [w |-> Merged(s)[k], last |-> LastActive(s, k)]]

LEMMA EdgesAreReads ==
  ASSUME NEW t \in Nat, NEW s, StoreOK(s, t)
  PROVE  EdgesOf(s) = [k \in {o \in Key : GetWeight(s, o) > 0} |->
                         [w |-> GetWeight(s, k), last |-> LastActive(s, k)]]
<1>1. /\ DOMAIN Merged(s) = {k \in Key : GetWeight(s, k) > 0}
      /\ \A k \in DOMAIN Merged(s) : Merged(s)[k] = GetWeight(s, k)
  BY MergedCorrect
<1> QED
  BY <1>1 DEF EdgesOf

LEMMA SameReads ==
  ASSUME NEW n \in Nat, NEW s, StoreOK(s, n), NEW t \in Nat, NEW r, StoreOK(r, t),
         \A k \in Key : /\ GetWeight(r, k) = GetWeight(s, k)
                        /\ GetWeight(s, k) > 0 => LastActive(r, k) = LastActive(s, k)
  PROVE  EdgesOf(r) = EdgesOf(s)
<1>1. {k \in Key : GetWeight(r, k) > 0} = {k \in Key : GetWeight(s, k) > 0}
  OBVIOUS
<1> QED
  BY <1>1, EdgesAreReads

(***************************************************************************)
(* The vocabulary of the abstract store is the one of the backend: it is   *)
(* instantiated with the same constants.                                   *)
(***************************************************************************)
LEMMA SameVocabulary ==
  /\ Abstract!Key = Key
  /\ Abstract!Weight = Weight
  /\ Abstract!Activation = Activation
  /\ Abstract!IndexMaps = IndexMaps
  /\ Abstract!DecayMode = DecayMode
  /\ Abstract!Time = Time
  /\ \A act : Abstract!Pairs(act) = Pairs(act)
  /\ \A w, gain : Abstract!NewWeight(w, gain) = NewWeight(w, gain)
  /\ \A t, l : Abstract!Elapsed(t, l) = Elapsed(t, l)
<1>1. Abstract!Key = Key
  BY DEF Key, Abstract!Key
<1>2. Abstract!Weight = Weight /\ Abstract!DecayMode = DecayMode /\ Abstract!Time = Time
  BY DEF Weight, Abstract!Weight, DecayMode, Abstract!DecayMode, Time, Abstract!Time
<1>3. Abstract!Activation = Activation
  BY DEF Activation, Abstract!Activation
<1>4. Abstract!IndexMaps = IndexMaps
  BY DEF IndexMaps, Abstract!IndexMaps, IsIndexMap, Abstract!IsIndexMap,
         Range, Abstract!Range
<1>5. \A act : Abstract!Pairs(act) = Pairs(act)
  BY <1>1 DEF Pairs, Abstract!Pairs
<1>6. \A w, gain : Abstract!NewWeight(w, gain) = NewWeight(w, gain)
  BY DEF NewWeight, Abstract!NewWeight
<1>7. \A t, l : Abstract!Elapsed(t, l) = Elapsed(t, l)
  BY DEF Elapsed, Abstract!Elapsed
<1> QED
  BY <1>1, <1>2, <1>3, <1>4, <1>5, <1>6, <1>7

(***************************************************************************)
(* Compactions and removals.                                               *)
(***************************************************************************)
LEMMA CompactReads ==
  ASSUME NEW t \in Nat, NEW s, StoreOK(s, t)
  PROVE  \A k \in Key : /\ GetWeight(Compact(s), k) = GetWeight(s, k)
                        /\ LastActive(Compact(s), k) = LastActive(s, k)
<1>1. Compact(s).ticks = s.ticks
  BY DEF Compact, StoreOK
<1> QED
  BY <1>1, CompactCorrect DEF LastActive

LEMMA MaybeCompactReads ==
  ASSUME NEW t \in Nat, NEW s, StoreOK(s, t)
  PROVE  \A k \in Key : /\ GetWeight(MaybeCompact(s), k) = GetWeight(s, k)
                        /\ LastActive(MaybeCompact(s), k) = LastActive(s, k)
BY CompactReads DEF MaybeCompact

LEMMA RemovalReads ==
  ASSUME NEW t \in Nat, NEW s, StoreOK(s, t), NEW K, NEW P, NEW T, NEW r,
         IsRemoval(r, s, K, P, T)
  PROVE  /\ \A k \in Key :
              GetWeight(r, k) = IF k \in K \cup (DOMAIN s.pending \ DOMAIN P)
                                THEN 0 ELSE GetWeight(s, k)
         /\ \A k : k \in DOMAIN T \/ k \notin DOMAIN s.ticks =>
                     LastActive(r, k) = LastActive(s, k)
<1>1. /\ StoreOK(r, t) /\ r.pending = P /\ r.ticks = T /\ DOMAIN r.csr = DOMAIN s.csr
      /\ \A k \in DOMAIN s.csr : r.csr[k] = IF k \in K THEN 0 ELSE s.csr[k]
  BY RemovalCorrect
<1>2. /\ K \subseteq DOMAIN s.csr /\ DOMAIN s.csr \cap DOMAIN s.pending = {}
      /\ SubMap(P, s.pending) /\ SubMap(T, s.ticks)
  BY DEF IsRemoval, LiveCsr, StoreOK
<1>3. ASSUME NEW k \in Key
      PROVE  GetWeight(r, k) = IF k \in K \cup (DOMAIN s.pending \ DOMAIN P)
                               THEN 0 ELSE GetWeight(s, k)
  <2>1. CASE k \in DOMAIN s.csr
    <3>1. GetWeight(r, k) = r.csr[k] /\ GetWeight(s, k) = s.csr[k]
      BY <1>1, <2>1, WeightPlace
    <3> QED
      BY <1>1, <1>2, <2>1, <3>1
  <2>2. CASE k \in DOMAIN s.pending /\ k \in DOMAIN P
    <3>1. GetWeight(r, k) = r.pending[k] /\ GetWeight(s, k) = s.pending[k]
      BY <1>1, <2>2, WeightPlace
    <3> QED
      BY <1>1, <1>2, <2>2, <3>1 DEF SubMap
  <2>3. CASE k \notin DOMAIN s.csr /\ k \notin DOMAIN P
    <3>1. GetWeight(r, k) = 0
      BY <1>1, <2>3, WeightPlace
    <3>2. k \notin DOMAIN s.pending => GetWeight(s, k) = 0
      BY <2>3, WeightPlace
    <3> QED
      BY <2>3, <3>1, <3>2
  <2> QED
    BY <1>2, <2>1, <2>2, <2>3 DEF SubMap
<1>4. \A k : k \in DOMAIN T \/ k \notin DOMAIN s.ticks => LastActive(r, k) = LastActive(s, k)
  <2>1. /\ DOMAIN T \subseteq DOMAIN s.ticks
        /\ \A k \in DOMAIN T : T[k] = s.ticks[k]
    BY <1>2 DEF SubMap
  <2> QED
    BY <1>1, <2>1 DEF LastActive, Lookup
<1> QED
  BY <1>3, <1>4

(***************************************************************************)
(* The steps of a cycle.                                                   *)
(***************************************************************************)
LEMMA ScaleAllReads ==
  ASSUME NEW t \in Nat, NEW s, StoreOK(s, t), Bounded(s)
  PROVE  \A k \in Key : /\ GetWeight(ScaleAll(s), k) = Decayed[GetWeight(s, k)]
                        /\ LastActive(ScaleAll(s), k) = LastActive(s, k)
<1>1. /\ ScaleAll(s).csr = [k \in DOMAIN s.csr |-> Decayed[s.csr[k]]]
      /\ ScaleAll(s).pending = [k \in DOMAIN s.pending |-> Decayed[s.pending[k]]]
      /\ ScaleAll(s).ticks = s.ticks
  BY DEF ScaleAll, StoreOK
<1>2. StoreOK(ScaleAll(s), t)
  BY ScaleAllCorrect
<1>3. Decayed[0] = 0
  BY ConfigAssumption DEF Weight
<1>4. ASSUME NEW k \in Key
      PROVE  GetWeight(ScaleAll(s), k) = Decayed[GetWeight(s, k)]
  <2>1. CASE k \in DOMAIN s.csr
    BY <1>1, <1>2, <2>1, WeightPlace
  <2>2. CASE k \in DOMAIN s.pending
    BY <1>1, <1>2, <2>2, WeightPlace
  <2>3. CASE k \notin DOMAIN s.csr \cup DOMAIN s.pending
    BY <1>1, <1>2, <1>3, <2>3, WeightPlace
  <2> QED
    BY <2>1, <2>2, <2>3
<1> QED
  BY <1>1, <1>4 DEF LastActive

LEMMA ApplyIncrementsReads ==
  ASSUME NEW t \in Nat, NEW s, StoreOK(s, t), NEW deltas,
         DOMAIN deltas \subseteq Key,
         \A k \in DOMAIN deltas : /\ deltas[k] \in Int
                                  /\ GetWeight(s, k) + deltas[k] \in Nat \ {0}
                                  /\ k[1] < s.num_nodes /\ k[2] < s.num_nodes
  PROVE  \A k \in Key :
           /\ GetWeight(ApplyIncrements(s, deltas), k) = GetWeight(s, k) + Lookup(deltas, k)
           /\ LastActive(ApplyIncrements(s, deltas), k) = LastActive(s, k)
<1> DEFINE r == ApplyIncrements(s, deltas)
<1>1. /\ r.csr = [k \in DOMAIN s.csr |-> s.csr[k] + Lookup(deltas, k)]
      /\ r.pending = [k \in DOMAIN s.pending \cup (DOMAIN deltas \ DOMAIN s.csr) |->
                        Lookup(s.pending, k) + Lookup(deltas, k)]
      /\ r.ticks = s.ticks
  BY DEF ApplyIncrements, StoreOK
<1>2. StoreOK(r, t)
  BY ApplyIncrementsCorrect
<1>3. DOMAIN s.csr \cap DOMAIN s.pending = {}
  BY DEF StoreOK
<1> HIDE DEF r
<1>4. ASSUME NEW k \in Key
      PROVE  GetWeight(r, k) = GetWeight(s, k) + Lookup(deltas, k)
  <2>1. CASE k \in DOMAIN s.csr
    BY <1>1, <1>2, <2>1, WeightPlace
  <2>2. CASE k \in DOMAIN s.pending
    BY <1>1, <1>2, <2>2, WeightPlace DEF Lookup
  <2>3. CASE k \in DOMAIN deltas \ (DOMAIN s.csr \cup DOMAIN s.pending)
    <3>1. GetWeight(r, k) = Lookup(s.pending, k) + Lookup(deltas, k)
      BY <1>1, <1>2, <2>3, WeightPlace
    <3>2. GetWeight(s, k) = 0 /\ Lookup(s.pending, k) = 0
      BY <2>3, WeightPlace DEF Lookup
    <3> QED
      BY <3>1, <3>2
  <2>4. CASE k \notin DOMAIN deltas \cup DOMAIN s.csr \cup DOMAIN s.pending
    BY <1>1, <1>2, <2>4, WeightPlace DEF Lookup
  <2> QED
    BY <2>1, <2>2, <2>3, <2>4
<1> QED
  BY <1>1, <1>4 DEF LastActive, r

LEMMA PruneBelowReads ==
  ASSUME NEW t \in Nat, NEW s, StoreOK(s, t)
  PROVE  \A k \in Key :
           /\ GetWeight(PruneBelow(s), k)
                = IF GetWeight(s, k) >= MinWeight THEN GetWeight(s, k) ELSE 0
           /\ LastActive(PruneBelow(s), k) = LastActive(s, k)
<1> DEFINE K == {k \in LiveCsr(s) : s.csr[k] < MinWeight}
           P == Restrict(s.pending, {k \in DOMAIN s.pending : s.pending[k] >= MinWeight})
           r == [Kill(s, K) EXCEPT !.pending = P]
<1>1. SubMap(P, s.pending) /\ SubMap(s.ticks, s.ticks)
  BY DEF SubMap, Restrict
<1>2. PruneBelow(s) = MaybeCompact(r)
  BY DEF PruneBelow
<1>3. K \subseteq LiveCsr(s)
  OBVIOUS
<1>4. MinWeight \in Nat \ {0}
  BY ConfigAssumption
<1>5. \A k \in DOMAIN s.csr : s.csr[k] \in Nat /\ (k \in K <=> 0 < s.csr[k] /\ s.csr[k] < MinWeight)
  BY <1>4 DEF StoreOK, LiveCsr, Dead
<1>6. /\ \A k \in DOMAIN s.pending : s.pending[k] \in Nat
      /\ DOMAIN P = {k \in DOMAIN s.pending : s.pending[k] >= MinWeight}
  BY DEF StoreOK, Restrict
<1>7. K \subseteq DOMAIN s.csr /\ DOMAIN s.csr \cap DOMAIN s.pending = {}
  BY DEF LiveCsr, StoreOK
<1> HIDE DEF K, P
<1>8. IsRemoval(r, s, K, P, s.ticks)
  BY <1>1, <1>3 DEF IsRemoval, Kill, StoreOK
<1> HIDE DEF r
<1>9. /\ StoreOK(r, t)
      /\ \A k \in Key : GetWeight(r, k) = IF k \in K \cup (DOMAIN s.pending \ DOMAIN P)
                                          THEN 0 ELSE GetWeight(s, k)
      /\ \A k : LastActive(r, k) = LastActive(s, k)
  BY <1>8, RemovalCorrect, RemovalReads
<1>10. ASSUME NEW k \in Key
       PROVE  GetWeight(r, k) = IF GetWeight(s, k) >= MinWeight THEN GetWeight(s, k) ELSE 0
  <2>1. CASE k \in DOMAIN s.csr
    <3>1. GetWeight(s, k) = s.csr[k]
      BY <2>1, WeightPlace
    <3> QED
      BY <1>4, <1>5, <1>7, <1>9, <2>1, <3>1
  <2>2. CASE k \in DOMAIN s.pending
    <3>1. GetWeight(s, k) = s.pending[k]
      BY <2>2, WeightPlace
    <3> QED
      BY <1>4, <1>6, <1>7, <1>9, <2>2, <3>1
  <2>3. CASE k \notin DOMAIN s.csr \cup DOMAIN s.pending
    <3>1. GetWeight(s, k) = 0
      BY <2>3, WeightPlace
    <3> QED
      BY <1>4, <1>9, <3>1
  <2> QED
    BY <2>1, <2>2, <2>3
<1> QED
  BY <1>2, <1>9, <1>10, MaybeCompactReads

LEMMA PruneInactiveReads ==
  ASSUME NEW n \in Nat, NEW t \in Nat, n <= t, NEW s, StoreOK(s, n)
  PROVE  \A k \in Key :
           /\ GetWeight(PruneInactive(s, t), k)
                = IF Elapsed(t, LastActive(s, k)) > P1 THEN 0 ELSE GetWeight(s, k)
           /\ ~(Elapsed(t, LastActive(s, k)) > P1) =>
                LastActive(PruneInactive(s, t), k) = LastActive(s, k)
<1> DEFINE K == Stale(s, t, LiveCsr(s))
           P == Without(s.pending, Stale(s, t, DOMAIN s.pending))
           T == Without(s.ticks, K)
           r == [Kill(s, K) EXCEPT !.ticks = T, !.pending = P]
           old(k) == Elapsed(t, LastActive(s, k)) > P1
<1>1. SubMap(P, s.pending) /\ SubMap(T, s.ticks)
  BY DEF SubMap, Without, Restrict
<1>2. PruneInactive(s, t) = MaybeCompact(r)
  BY DEF PruneInactive
<1>3. /\ K \subseteq LiveCsr(s)
      /\ \A k \in K : old(k)
      /\ \A k \in LiveCsr(s) : old(k) => k \in K
      /\ DOMAIN P = {k \in DOMAIN s.pending : ~old(k)}
      /\ DOMAIN T = DOMAIN s.ticks \ K
  BY DEF Stale, Without, Restrict
<1>4. /\ K \subseteq DOMAIN s.csr /\ DOMAIN s.csr \cap DOMAIN s.pending = {}
      /\ \A k \in DOMAIN s.csr : s.csr[k] \in Nat /\ (k \in LiveCsr(s) <=> s.csr[k] > 0)
  BY <1>3 DEF LiveCsr, Dead, StoreOK
<1> HIDE DEF K, P, T
<1>5. IsRemoval(r, s, K, P, T)
  BY <1>1, <1>3 DEF IsRemoval, Kill, StoreOK
<1> HIDE DEF r, old
<1>6. /\ StoreOK(r, n)
      /\ \A k \in Key : GetWeight(r, k) = IF k \in K \cup (DOMAIN s.pending \ DOMAIN P)
                                          THEN 0 ELSE GetWeight(s, k)
      /\ \A k : k \in DOMAIN T \/ k \notin DOMAIN s.ticks => LastActive(r, k) = LastActive(s, k)
  BY <1>5, RemovalCorrect, RemovalReads
<1>7. ASSUME NEW k \in Key
      PROVE  /\ GetWeight(r, k) = IF old(k) THEN 0 ELSE GetWeight(s, k)
             /\ ~old(k) => LastActive(r, k) = LastActive(s, k)
  <2>1. CASE k \in DOMAIN s.csr
    <3>1. GetWeight(s, k) = s.csr[k]
      BY <2>1, WeightPlace
    <3> QED
      BY <1>3, <1>4, <1>6, <2>1, <3>1
  <2>2. CASE k \in DOMAIN s.pending
    BY <1>3, <1>4, <1>6, <2>2
  <2>3. CASE k \notin DOMAIN s.csr \cup DOMAIN s.pending
    <3>1. GetWeight(s, k) = 0
      BY <2>3, WeightPlace
    <3> QED
      BY <1>3, <1>4, <1>6, <2>3, <3>1
  <2> QED
    BY <2>1, <2>2, <2>3
<1> QED
  BY <1>2, <1>6, <1>7, MaybeCompactReads DEF old

(***************************************************************************)
(* One cycle: touching before the edge exists, deferring the increments    *)
(* and compacting between the two passes leave the law of a single edge.   *)
(***************************************************************************)
LEMMA PruneEdges ==
  ASSUME NEW t \in Nat, NEW s, StoreOK(s, t)
  PROVE  /\ StoreOK(Prune(s, t), t)
         /\ EdgesOf(Prune(s, t)) = Abstract!Prune(EdgesOf(s), t)
<1> DEFINE m == PruneBelow(s)
           r == PruneInactive(m, t)
           recent(k) == Elapsed(t, LastActive(s, k)) <= P1
           S == {k \in Key : GetWeight(s, k) > 0}
<1>1. Prune(s, t) = r
  BY DEF Prune
<1>2. /\ StoreOK(m, t)
      /\ \A k \in Key : /\ GetWeight(m, k) = IF GetWeight(s, k) >= MinWeight
                                             THEN GetWeight(s, k) ELSE 0
                        /\ LastActive(m, k) = LastActive(s, k)
  BY PruneBelowCorrect, PruneBelowReads
<1> HIDE DEF m
<1>3. \A k \in Key : ~(Elapsed(t, LastActive(s, k)) > P1) <=> recent(k)
  <2> TAKE k \in Key
  <2>1. LastActive(s, k) \in Nat
    BY DEF StoreOK, LastActive, Lookup
  <2>2. Elapsed(t, LastActive(s, k)) \in Nat /\ P1 \in Nat
    BY <2>1, ConfigAssumption DEF Elapsed
  <2> QED
    BY <2>2
<1> HIDE DEF recent
<1>4. /\ StoreOK(r, t)
      /\ \A k \in Key : /\ GetWeight(r, k) = IF recent(k) THEN GetWeight(m, k) ELSE 0
                        /\ recent(k) => LastActive(r, k) = LastActive(m, k)
  BY <1>2, <1>3, PruneInactiveCorrect, PruneInactiveReads
<1> HIDE DEF r
<1>5. /\ MinWeight \in Nat \ {0}
      /\ \A k \in Key : GetWeight(s, k) \in Nat
  BY ConfigAssumption, WeightPlace
<1>6. \A k \in Key : GetWeight(r, k) > 0 <=> GetWeight(s, k) >= MinWeight /\ recent(k)
  BY <1>2, <1>4, <1>5
<1>7. EdgesOf(s) = [k \in S |-> [w |-> GetWeight(s, k), last |-> LastActive(s, k)]]
  BY EdgesAreReads
<1>8. \A k \in S : Abstract!Survives(EdgesOf(s)[k], t)
                     <=> GetWeight(s, k) >= MinWeight /\ recent(k)
  BY <1>7, SameVocabulary DEF Abstract!Survives, recent
<1>9. {k \in DOMAIN EdgesOf(s) : Abstract!Survives(EdgesOf(s)[k], t)}
        = {k \in Key : GetWeight(r, k) > 0}
  BY <1>5, <1>6, <1>7, <1>8
<1>10. Abstract!Prune(EdgesOf(s), t)
         = [k \in {o \in Key : GetWeight(r, o) > 0} |-> EdgesOf(s)[k]]
  BY <1>9 DEF Abstract!Prune, Abstract!Restrict
<1>11. \A k \in Key : GetWeight(r, k) > 0 =>
         EdgesOf(s)[k] = [w |-> GetWeight(r, k), last |-> LastActive(r, k)]
  BY <1>2, <1>4, <1>5, <1>6, <1>7
<1>12. EdgesOf(r) = [k \in {o \in Key : GetWeight(r, o) > 0} |->
                       [w |-> GetWeight(r, k), last |-> LastActive(r, k)]]
  BY <1>4, EdgesAreReads
<1> QED
  BY <1>1, <1>4, <1>10, <1>11, <1>12

LEMMA DecayEdges ==
  ASSUME NEW t \in Nat, NEW s, StoreOK(s, t), Bounded(s)
  PROVE  EdgesOf(ScaleAll(s)) = Abstract!Decay(EdgesOf(s))
<1> DEFINE S == {k \in Key : GetWeight(s, k) > 0}
<1>1. \A k \in Key : GetWeight(s, k) \in Weight /\ GetWeight(s, k) \in Nat
  BY WeightPlace, BoundedPlace, ConfigAssumption DEF Bounded, Weight
<1>2. \A w \in Weight : Decayed[w] > 0 <=> w > 0
  BY ConfigAssumption DEF Weight
<1>3. {k \in Key : GetWeight(ScaleAll(s), k) > 0} = S
  BY <1>1, <1>2, ScaleAllReads
<1>4. EdgesOf(s) = [k \in S |-> [w |-> GetWeight(s, k), last |-> LastActive(s, k)]]
  BY EdgesAreReads
<1>5. EdgesOf(ScaleAll(s))
        = [k \in S |-> [w |-> Decayed[GetWeight(s, k)], last |-> LastActive(s, k)]]
  <2> DEFINE r == ScaleAll(s)
  <2>1. /\ StoreOK(r, t) /\ {k \in Key : GetWeight(r, k) > 0} = S
        /\ \A k \in Key : /\ GetWeight(r, k) = Decayed[GetWeight(s, k)]
                         /\ LastActive(r, k) = LastActive(s, k)
    BY <1>3, ScaleAllCorrect, ScaleAllReads
  <2> HIDE DEF r
  <2>2. EdgesOf(r) = [k \in S |-> [w |-> GetWeight(r, k), last |-> LastActive(r, k)]]
    BY <2>1, EdgesAreReads
  <2>3. EdgesOf(r)
          = [k \in S |-> [w |-> Decayed[GetWeight(s, k)], last |-> LastActive(s, k)]]
    BY <2>1, <2>2
  <2> QED
    BY <2>3 DEF r
<1> QED
  BY <1>4, <1>5 DEF Abstract!Decay

LEMMA StrengthenEdges ==
  ASSUME NEW n \in Nat, NEW t \in Nat, n <= t, NEW s, StoreOK(s, n), Bounded(s),
         NEW act \in Activation,
         \A k \in Pairs(act) : k[1] < s.num_nodes /\ k[2] < s.num_nodes
  PROVE  /\ StoreOK(Strengthen(s, act, t), t)
         /\ EdgesOf(Strengthen(s, act, t)) = Abstract!Strengthen(EdgesOf(s), act, t)
<1> DEFINE w == [k \in Key |-> GetWeight(s, k)]
           u == Touch(s, Pairs(act), t)
           r == ApplyIncrements(u, Increments(w, act))
           new(k) == NewWeight(GetWeight(s, k), Delta * act[k[1]] * act[k[2]])
           S == {k \in Key : GetWeight(s, k) > 0}
<1>1. Strengthen(s, act, t) = r
  BY DEF Strengthen
<1>2. Pairs(act) \subseteq Key /\ DOMAIN Increments(w, act) = Pairs(act)
  BY DEF Pairs, Increments
<1>3. w \in [Key -> Weight] /\ \A k \in Key : w[k] = GetWeight(s, k)
  BY BoundedPlace
<1>4. /\ StoreOK(u, t) /\ u.num_nodes = s.num_nodes
      /\ \A k : GetWeight(u, k) = GetWeight(s, k)
  BY <1>2, TouchCorrect
<1>5. \A k \in Key : LastActive(u, k) = IF k \in Pairs(act) THEN t ELSE LastActive(s, k)
  <2>1. u.ticks = Put(s.ticks, Pairs(act), t)
    BY DEF Touch, StoreOK
  <2> QED
    BY <2>1 DEF LastActive, Lookup, Put
<1> HIDE DEF u, w
<1>6. ASSUME NEW k \in Pairs(act)
      PROVE  /\ new(k) \in Nat \ {0}
             /\ GetWeight(s, k) + Increments(w, act)[k] = new(k)
             /\ Increments(w, act)[k] \in Int
  <2>1. k \in Key /\ w[k] = GetWeight(s, k) /\ w[k] \in Weight
    BY <1>2, <1>3
  <2>2. new(k) \in Weight \ {0}
    BY <2>1, GainIsNat, NewWeightInRange
  <2>3. w[k] + Increments(w, act)[k] = new(k)
    BY <1>3, <2>1, IncrementRestores
  <2>4. Increments(w, act)[k] = new(k) - w[k]
    BY <2>1 DEF Increments
  <2>5. new(k) \in Nat \ {0} /\ w[k] \in Nat
    BY <2>1, <2>2, ConfigAssumption DEF Weight
  <2> HIDE DEF new
  <2> QED
    BY <2>1, <2>3, <2>4, <2>5
<1> HIDE DEF new
<1>7. \A k \in DOMAIN Increments(w, act) :
         /\ Increments(w, act)[k] \in Int
         /\ GetWeight(u, k) + Increments(w, act)[k] \in Nat \ {0}
         /\ k[1] < u.num_nodes /\ k[2] < u.num_nodes
  BY <1>2, <1>4, <1>6
<1>8. StoreOK(r, t)
  BY <1>2, <1>4, <1>7, ApplyIncrementsCorrect
<1>9. \A k \in Key : /\ GetWeight(r, k) = GetWeight(u, k) + Lookup(Increments(w, act), k)
                     /\ LastActive(r, k) = LastActive(u, k)
  BY <1>2, <1>4, <1>7, ApplyIncrementsReads
<1> HIDE DEF r
<1>10. \A k \in Key : GetWeight(s, k) \in Nat
  BY WeightPlace
<1>11. \A k \in Key :
         /\ GetWeight(r, k) = IF k \in Pairs(act) THEN new(k) ELSE GetWeight(s, k)
         /\ LastActive(r, k) = IF k \in Pairs(act) THEN t ELSE LastActive(s, k)
  BY <1>2, <1>4, <1>5, <1>6, <1>9, <1>10 DEF Lookup
<1>12. {k \in Key : GetWeight(r, k) > 0} = S \cup Pairs(act)
  BY <1>2, <1>6, <1>10, <1>11
<1>13. EdgesOf(s) = [k \in S |-> [w |-> GetWeight(s, k), last |-> LastActive(s, k)]]
  BY EdgesAreReads
<1>14. \A k \in Pairs(act) : Abstract!WeightOf(EdgesOf(s), k) = GetWeight(s, k)
  BY <1>2, <1>10, <1>13 DEF Abstract!WeightOf
<1>15. Abstract!Strengthen(EdgesOf(s), act, t)
         = [k \in S \cup Pairs(act) |->
              IF k \in Pairs(act) THEN [w |-> new(k), last |-> t]
              ELSE [w |-> GetWeight(s, k), last |-> LastActive(s, k)]]
  BY <1>13, <1>14, SameVocabulary DEF Abstract!Strengthen, new
<1>16. EdgesOf(r) = [k \in S \cup Pairs(act) |->
                       [w |-> GetWeight(r, k), last |-> LastActive(r, k)]]
  BY <1>8, <1>12, EdgesAreReads
<1>17. EdgesOf(r) = Abstract!Strengthen(EdgesOf(s), act, t)
  BY <1>2, <1>11, <1>15, <1>16
<1> QED
  BY <1>1, <1>8, <1>17

LEMMA TickEdgesLaw ==
  ASSUME NEW n \in Nat, NEW t \in Nat, n <= t, NEW s, StoreOK(s, n), Bounded(s),
         NEW act \in Activation, NEW mode \in DecayMode,
         \A k \in Pairs(act) : k[1] < s.num_nodes /\ k[2] < s.num_nodes
  PROVE  EdgesOf(TickStore(s, act, t, mode)) = Abstract!TickEdges(EdgesOf(s), act, t, mode)
<1> DEFINE d == IF mode = "Skip" THEN s ELSE ScaleAll(s)
           r == Strengthen(d, act, t)
<1>1. /\ StoreOK(d, n) /\ Bounded(d) /\ d.num_nodes = s.num_nodes
      /\ EdgesOf(d) = IF mode = "Skip" THEN EdgesOf(s) ELSE Abstract!Decay(EdgesOf(s))
  <2>1. ScaleAll(s).num_nodes = s.num_nodes
    BY DEF ScaleAll, StoreOK
  <2> QED
    BY <2>1, ScaleAllCorrect, DecayEdges
<1>2. TickStore(s, act, t, mode) = Prune(r, t)
  BY DEF TickStore
<1> HIDE DEF d
<1>3. StoreOK(r, t) /\ EdgesOf(r) = Abstract!Strengthen(EdgesOf(d), act, t)
  BY <1>1, StrengthenEdges
<1> HIDE DEF r
<1> QED
  BY <1>1, <1>2, <1>3, PruneEdges DEF Abstract!TickEdges

(***************************************************************************)
(* set_weight and reindex.                                                 *)
(***************************************************************************)
LEMMA SetWeightReads ==
  ASSUME NEW t \in Nat, NEW s, StoreOK(s, t), NEW k \in Key, NEW w \in Weight,
         k[1] < s.num_nodes, k[2] < s.num_nodes
  PROVE  \A o \in Key :
           /\ GetWeight(SetWeight(s, k, w), o) = IF o = k THEN w ELSE GetWeight(s, o)
           /\ o # k \/ w > 0 => LastActive(SetWeight(s, k, w), o) = LastActive(s, o)
<1>1. w \in Nat
  BY ConfigAssumption DEF Weight
<1>2. CASE w <= 0
  <2> DEFINE K == {k} \cap LiveCsr(s)
             P == Without(s.pending, {k})
             T == Without(s.ticks, {k})
             r == RemoveEdge(s, k)
  <2>1. r = [Kill(s, K) EXCEPT !.pending = P, !.ticks = T]
    BY DEF RemoveEdge
  <2>2. SubMap(P, s.pending) /\ SubMap(T, s.ticks)
    BY DEF SubMap, Without, Restrict
  <2>3. /\ K \subseteq LiveCsr(s) /\ K \subseteq {k}
        /\ k \in DOMAIN s.csr /\ s.csr[k] # 0 => k \in K
        /\ DOMAIN P = DOMAIN s.pending \ {k} /\ DOMAIN T = DOMAIN s.ticks \ {k}
    BY DEF LiveCsr, Dead, StoreOK, Without, Restrict
  <2> HIDE DEF K, P, T, r
  <2>4. IsRemoval(r, s, K, P, T)
    BY <2>1, <2>2, <2>3 DEF IsRemoval
  <2>5. /\ StoreOK(r, t)
        /\ \A o \in Key : GetWeight(r, o) = IF o \in K \cup (DOMAIN s.pending \ DOMAIN P)
                                            THEN 0 ELSE GetWeight(s, o)
        /\ \A o : o \in DOMAIN T \/ o \notin DOMAIN s.ticks => LastActive(r, o) = LastActive(s, o)
    BY <2>4, RemovalCorrect, RemovalReads
  <2>6. GetWeight(r, k) = 0
    <3>1. CASE k \in DOMAIN s.csr
      BY <2>3, <2>5, <3>1, WeightPlace
    <3>2. CASE k \notin DOMAIN s.csr
      BY <2>3, <2>5, <3>2, WeightPlace
    <3> QED
      BY <3>1, <3>2
  <2>7. SetWeight(s, k, w) = MaybeCompact(r)
    BY <1>2 DEF SetWeight, r
  <2> QED
    BY <1>1, <1>2, <2>3, <2>5, <2>6, <2>7, MaybeCompactReads
<1>3. CASE w > 0 /\ k \in DOMAIN s.csr
  <2> DEFINE r == WriteSlot(s, k, w)
  <2>1. /\ DOMAIN r = DOMAIN s
        /\ r.num_nodes = s.num_nodes /\ r.csr = Put(s.csr, {k}, w)
        /\ r.pending = s.pending /\ r.ticks = s.ticks /\ r.panicked = s.panicked
        /\ r.dead_count = IF s.csr[k] = 0 /\ s.dead_count > 0 THEN s.dead_count - 1
                          ELSE s.dead_count
    BY DEF WriteSlot, StoreOK
  <2>2. /\ DOMAIN r.csr = DOMAIN s.csr
        /\ \A o \in DOMAIN r.csr : r.csr[o] \in Nat
        /\ \A o \in DOMAIN s.csr : r.csr[o] = IF o = k THEN w ELSE s.csr[o]
    BY <1>1, <1>3, <2>1 DEF Put, StoreOK
  <2>3. r.dead_count \in Nat
    BY <2>1 DEF StoreOK
  <2>4. SetWeight(s, k, w) = MaybeCompact(r)
    BY <1>1, <1>3 DEF SetWeight
  <2> HIDE DEF r
  <2>5. StoreOK(r, t)
    BY <2>1, <2>2, <2>3 DEF StoreOK
  <2>6. \A o \in Key : /\ GetWeight(r, o) = IF o = k THEN w ELSE GetWeight(s, o)
                       /\ LastActive(r, o) = LastActive(s, o)
    <3> TAKE o \in Key
    <3>1. LastActive(r, o) = LastActive(s, o)
      BY <2>1 DEF LastActive
    <3>2. CASE o \in DOMAIN s.csr
      <4>1. GetWeight(r, o) = r.csr[o] /\ GetWeight(s, o) = s.csr[o]
        BY <2>2, <2>5, <3>2, WeightPlace
      <4> QED
        BY <2>2, <3>1, <3>2, <4>1
    <3>3. CASE o \in DOMAIN s.pending
      <4>1. o # k
        BY <1>3, <3>3 DEF StoreOK
      <4>2. GetWeight(r, o) = r.pending[o] /\ GetWeight(s, o) = s.pending[o]
        BY <2>1, <2>5, <3>3, WeightPlace
      <4> QED
        BY <2>1, <3>1, <4>1, <4>2
    <3>4. CASE o \notin DOMAIN s.csr \cup DOMAIN s.pending
      <4>1. GetWeight(r, o) = 0 /\ GetWeight(s, o) = 0
        BY <2>1, <2>2, <2>5, <3>4, WeightPlace
      <4> QED
        BY <1>3, <3>1, <3>4, <4>1
    <3> QED
      BY <3>2, <3>3, <3>4
  <2> QED
    BY <2>4, <2>5, <2>6, MaybeCompactReads
<1>4. CASE w > 0 /\ k \notin DOMAIN s.csr
  <2> DEFINE r == [s EXCEPT !.pending = Put(s.pending, {k}, w)]
  <2>1. /\ DOMAIN r = DOMAIN s
        /\ r.num_nodes = s.num_nodes /\ r.csr = s.csr
        /\ r.pending = Put(s.pending, {k}, w) /\ r.ticks = s.ticks
        /\ r.panicked = s.panicked /\ r.dead_count = s.dead_count
    BY DEF StoreOK
  <2>2. /\ DOMAIN r.pending = DOMAIN s.pending \cup {k}
        /\ \A o \in DOMAIN r.pending : r.pending[o] \in Nat \ {0}
        /\ \A o \in DOMAIN r.pending : r.pending[o] = IF o = k THEN w ELSE s.pending[o]
    BY <1>1, <1>4, <2>1 DEF Put, StoreOK
  <2>3. SetWeight(s, k, w) = MaybeCompact(r)
    BY <1>1, <1>4 DEF SetWeight
  <2> HIDE DEF r
  <2>4. StoreOK(r, t)
    BY <1>4, <2>1, <2>2 DEF StoreOK
  <2>5. \A o \in Key : /\ GetWeight(r, o) = IF o = k THEN w ELSE GetWeight(s, o)
                       /\ LastActive(r, o) = LastActive(s, o)
    <3> TAKE o \in Key
    <3>1. LastActive(r, o) = LastActive(s, o)
      BY <2>1 DEF LastActive
    <3>2. CASE o \in DOMAIN s.csr
      <4>1. GetWeight(r, o) = r.csr[o] /\ GetWeight(s, o) = s.csr[o] /\ o # k
        BY <1>4, <2>1, <2>4, <3>2, WeightPlace
      <4> QED
        BY <2>1, <3>1, <4>1
    <3>3. CASE o \in DOMAIN r.pending
      <4>1. GetWeight(r, o) = r.pending[o]
        BY <2>4, <3>3, WeightPlace
      <4>2. o # k => GetWeight(s, o) = s.pending[o]
        BY <2>2, <3>3, WeightPlace
      <4> QED
        BY <2>2, <3>1, <3>3, <4>1, <4>2
    <3>4. CASE o \notin DOMAIN s.csr \cup DOMAIN r.pending
      <4>1. GetWeight(r, o) = 0 /\ GetWeight(s, o) = 0 /\ o # k
        BY <2>1, <2>2, <2>4, <3>4, WeightPlace
      <4> QED
        BY <3>1, <4>1
    <3> QED
      BY <3>2, <3>3, <3>4
  <2> QED
    BY <2>3, <2>4, <2>5, MaybeCompactReads
<1> QED
  BY <1>1, <1>2, <1>3, <1>4

LEMMA SetWeightEdges ==
  ASSUME NEW t \in Nat, NEW s, StoreOK(s, t), NEW k \in Key, NEW w \in Weight,
         k[1] < s.num_nodes, k[2] < s.num_nodes
  PROVE  /\ w = 0 => EdgesOf(SetWeight(s, k, w)) = Abstract!Without(EdgesOf(s), {k})
         /\ w > 0 => EdgesOf(SetWeight(s, k, w))
                      = Abstract!Put(EdgesOf(s), {k}, [w |-> w, last |-> LastActive(s, k)])
<1> DEFINE r == SetWeight(s, k, w)
           S == {o \in Key : GetWeight(s, o) > 0}
           edge == [w |-> w, last |-> LastActive(s, k)]
<1>1. w \in Nat
  BY ConfigAssumption DEF Weight
<1>2. /\ StoreOK(r, t)
      /\ \A o \in Key : /\ GetWeight(r, o) = IF o = k THEN w ELSE GetWeight(s, o)
                        /\ o # k \/ w > 0 => LastActive(r, o) = LastActive(s, o)
  BY SetWeightCorrect, SetWeightReads
<1> HIDE DEF r
<1>3. /\ EdgesOf(s) = [o \in S |-> [w |-> GetWeight(s, o), last |-> LastActive(s, o)]]
      /\ EdgesOf(r) = [o \in {p \in Key : GetWeight(r, p) > 0} |->
                         [w |-> GetWeight(r, o), last |-> LastActive(r, o)]]
  BY <1>2, EdgesAreReads
<1>4. ASSUME w = 0
      PROVE  EdgesOf(r) = Abstract!Without(EdgesOf(s), {k})
  <2>1. {p \in Key : GetWeight(r, p) > 0} = S \ {k}
    BY <1>2, <1>4
  <2>2. EdgesOf(r) = [o \in S \ {k} |-> EdgesOf(s)[o]]
    BY <1>2, <1>3, <2>1
  <2> QED
    BY <1>3, <2>2 DEF Abstract!Without, Abstract!Restrict
<1>5. ASSUME w > 0
      PROVE  EdgesOf(r) = Abstract!Put(EdgesOf(s), {k}, edge)
  <2>1. {p \in Key : GetWeight(r, p) > 0} = S \cup {k}
    BY <1>2, <1>5
  <2>2. EdgesOf(r) = [o \in S \cup {k} |-> IF o \in {k} THEN edge ELSE EdgesOf(s)[o]]
    BY <1>2, <1>3, <1>5, <2>1
  <2> QED
    BY <1>3, <2>2 DEF Abstract!Put
<1> QED
  BY <1>4, <1>5 DEF r

LEMMA CompactEdges ==
  ASSUME NEW t \in Nat, NEW s, StoreOK(s, t)
  PROVE  EdgesOf(Compact(s)) = EdgesOf(s)
BY CompactReads, CompactCorrect, SameReads

LEMMA GrowEdges ==
  ASSUME NEW t \in Nat, NEW s, StoreOK(s, t), NEW n \in Nat
  PROVE  EdgesOf(Grow(s, n)) = EdgesOf(s)
<1>1. /\ Grow(s, n).csr = s.csr /\ Grow(s, n).pending = s.pending
      /\ Grow(s, n).ticks = s.ticks
  BY DEF Grow, StoreOK
<1>2. StoreOK(Grow(s, n), t)
  BY GrowCorrect
<1> QED
  BY <1>1, <1>2, SameReads DEF GetWeight, LastActive

LEMMA ReindexEdges ==
  ASSUME NEW t \in Nat, NEW s, StoreOK(s, t), NEW f \in IndexMaps
  PROVE  EdgesOf(Reindex(s, f)) = Abstract!Rekey(f, EdgesOf(s))
<1> DEFINE e == EdgesOf(s)
           last == [k \in DOMAIN Merged(s) |-> LastActive(s, k)]
           r == Reindex(s, f)
<1>1. /\ DOMAIN Merged(s) \subseteq Key
      /\ \A k \in DOMAIN Merged(s) : Merged(s)[k] \in Nat \ {0}
  BY MergedCorrect
<1>2. DOMAIN last = DOMAIN Merged(s) /\ DOMAIN e = DOMAIN Merged(s)
  BY DEF EdgesOf
<1>3. \A k \in DOMAIN Merged(s) : e[k] = [w |-> Merged(s)[k], last |-> last[k]]
  BY DEF EdgesOf
<1>4. StoreOK(r, t)
  BY ReindexCorrect
<1>5. /\ DOMAIN Rekey(f, Merged(s)) = {MapKey(f, o) : o \in Mapped(f, DOMAIN Merged(s))}
      /\ DOMAIN Rekey(f, Merged(s)) \subseteq Key
      /\ \A o \in Mapped(f, DOMAIN Merged(s)) :
           Rekey(f, Merged(s))[MapKey(f, o)] = Merged(s)[o]
  BY <1>1, RekeyDomain, RekeyValue
<1>6. /\ \A k \in Key : GetWeight(r, k) = Lookup(Rekey(f, Merged(s)), k)
      /\ r.ticks = Rekey(f, last)
  <2>1. ~r.panicked
    BY <1>4 DEF StoreOK
  <2> DEFINE q == [num_nodes |-> SizeAfter(f), csr |-> EmptyMap,
                   pending |-> Rekey(f, Merged(s)), ticks |-> Rekey(f, last),
                   dead_count |-> 0, panicked |-> s.panicked]
  <2>2. r = Compact(q)
    BY DEF Reindex, TicksReindexed
  <2>3. /\ q.csr = EmptyMap /\ q.pending = Rekey(f, Merged(s)) /\ q.ticks = Rekey(f, last)
        /\ DOMAIN q = {"num_nodes", "csr", "pending", "ticks", "dead_count", "panicked"}
    OBVIOUS
  <2> HIDE DEF q, r, last, e
  <2>4. r = [q EXCEPT !.csr = Merged(q), !.pending = EmptyMap, !.dead_count = 0]
    BY <2>1, <2>2, <2>3 DEF Compact
  <2>5. r.csr = Merged(q) /\ r.pending = EmptyMap /\ r.ticks = q.ticks
    BY <2>3, <2>4
  <2>6. DOMAIN EmptyMap = {} /\ LiveCsr(q) = {}
    <3>1. DOMAIN EmptyMap = {} /\ LiveCsr(q) \subseteq DOMAIN EmptyMap
      BY <2>3 DEF EmptyMap, LiveCsr
    <3> QED
      BY <3>1
  <2>7. \A k \in DOMAIN Rekey(f, Merged(s)) : Rekey(f, Merged(s))[k] \in Nat \ {0}
    BY <1>1, <1>5 DEF Mapped
  <2>8. /\ DOMAIN Merged(q) = DOMAIN q.pending
        /\ \A k \in DOMAIN q.pending : Merged(q)[k] = q.pending[k]
    <3>1. \A k \in DOMAIN q.pending : q.pending[k] \in Nat \ {0}
      BY <2>3, <2>7
    <3>2. LivePending(q) = DOMAIN q.pending
      BY <3>1 DEF LivePending
    <3>3. Merged(q) = [k \in DOMAIN q.pending |-> GetWeight(q, k)]
      BY <2>6, <3>2 DEF Merged
    <3>4. \A k \in DOMAIN q.pending : GetWeight(q, k) = q.pending[k]
      BY <2>3, <2>6, <3>1 DEF GetWeight, Lookup
    <3> QED
      BY <3>3, <3>4
  <2>9. \A k \in Key : GetWeight(r, k) = Lookup(Merged(q), k)
    <3>1. \A k \in DOMAIN Merged(q) : Merged(q)[k] \in Int
      BY <2>3, <2>7, <2>8
    <3> QED
      BY <2>5, <2>6, <3>1 DEF GetWeight, Lookup
  <2> QED
    BY <2>3, <2>5, <2>8, <2>9 DEF Lookup
<1> HIDE DEF r, e, last
<1>7. /\ DOMAIN Rekey(f, last) = {MapKey(f, o) : o \in Mapped(f, DOMAIN Merged(s))}
      /\ \A o \in Mapped(f, DOMAIN Merged(s)) : Rekey(f, last)[MapKey(f, o)] = last[o]
  <2>1. DOMAIN last \subseteq Key
    BY <1>1, <1>2
  <2>2. DOMAIN Rekey(f, last) = {MapKey(f, o) : o \in Mapped(f, DOMAIN last)}
    BY <2>1, RekeyDomain
  <2>3. \A o \in Mapped(f, DOMAIN last) : Rekey(f, last)[MapKey(f, o)] = last[o]
    BY <2>1, RekeyValue
  <2> QED
    BY <1>2, <2>2, <2>3
<1>8. /\ DOMAIN Rekey(f, e) = {MapKey(f, o) : o \in Mapped(f, DOMAIN Merged(s))}
      /\ \A o \in Mapped(f, DOMAIN Merged(s)) : Rekey(f, e)[MapKey(f, o)] = e[o]
  <2>1. DOMAIN e \subseteq Key
    BY <1>1, <1>2
  <2>2. DOMAIN Rekey(f, e) = {MapKey(f, o) : o \in Mapped(f, DOMAIN e)}
    BY <2>1, RekeyDomain
  <2>3. \A o \in Mapped(f, DOMAIN e) : Rekey(f, e)[MapKey(f, o)] = e[o]
    BY <2>1, RekeyValue
  <2> QED
    BY <1>2, <2>2, <2>3
<1>9. {k \in Key : GetWeight(r, k) > 0} = DOMAIN Rekey(f, e)
  <2>1. \A k \in DOMAIN Rekey(f, Merged(s)) : Rekey(f, Merged(s))[k] \in Nat \ {0}
    BY <1>1, <1>5 DEF Mapped
  <2>2. \A k \in Key : GetWeight(r, k) > 0 <=> k \in DOMAIN Rekey(f, Merged(s))
    BY <1>6, <2>1 DEF Lookup
  <2> QED
    BY <1>5, <1>8, <2>2
<1>10. EdgesOf(r) = [k \in DOMAIN Rekey(f, e) |->
                       [w |-> GetWeight(r, k), last |-> LastActive(r, k)]]
  BY <1>4, <1>9, EdgesAreReads
<1>11. \A o \in Mapped(f, DOMAIN Merged(s)) :
         Rekey(f, e)[MapKey(f, o)]
           = [w |-> GetWeight(r, MapKey(f, o)), last |-> LastActive(r, MapKey(f, o))]
  <2> TAKE o \in Mapped(f, DOMAIN Merged(s))
  <2>1. o \in DOMAIN Merged(s) /\ MapKey(f, o) \in Key
    BY <1>5 DEF Mapped
  <2>2. GetWeight(r, MapKey(f, o)) = Merged(s)[o]
    BY <1>6, <1>5, <2>1 DEF Lookup
  <2>3. LastActive(r, MapKey(f, o)) = last[o]
    BY <1>6, <1>7 DEF LastActive, Lookup
  <2> QED
    BY <1>3, <1>8, <2>1, <2>2, <2>3
<1>12. \A k \in DOMAIN Rekey(f, e) :
         Rekey(f, e)[k] = [w |-> GetWeight(r, k), last |-> LastActive(r, k)]
  BY <1>8, <1>11
<1>13. Rekey(f, e) = [k \in DOMAIN Rekey(f, e) |-> Rekey(f, e)[k]]
  BY DEF Rekey
<1>14. Abstract!Rekey(f, e) = Rekey(f, e)
  BY DEF Rekey, Abstract!Rekey, Mapped, Abstract!Mapped, MapKey, Abstract!MapKey,
         Canonical, Abstract!Canonical
<1> QED
  BY <1>10, <1>12, <1>13, <1>14 DEF r, e

(***************************************************************************)
(* What the link layer calls is part of the public API.                    *)
(***************************************************************************)
LEMMA LinkInvariant == LinkSpec => []IInv
<1>1. LinkNext => Next
  BY DEF LinkNext, Next
<1>2. IInv /\ [LinkNext]_vars => IInv'
  BY <1>1, NextInvariant
<1> QED
  BY <1>2, InitInvariant, PTL DEF LinkSpec

(***************************************************************************)
(* The CSR backend implements the abstract edge store for every client of  *)
(* the link layer that stays below num_nodes: each call maps to the        *)
(* abstract one on the live edges, growing and compacting to none.         *)
(***************************************************************************)
THEOREM SparseImplements == LinkSpec => Implements
<1>1. Init => Abstract!Init
  <2> SUFFICES ASSUME Init PROVE Abstract!Init
    OBVIOUS
  <2>1. DOMAIN store.csr = {} /\ DOMAIN store.pending = {} /\ now = 0
    BY DEF Init, New, EmptyMap
  <2>2. LiveCsr(store) = {} /\ LivePending(store) = {}
    BY <2>1 DEF LiveCsr, LivePending
  <2>3. DOMAIN Merged(store) = {}
    BY <2>2 DEF Merged
  <2>4. LiveEdges = [k \in {} |-> [w |-> 1, last |-> 0]]
    BY <2>3 DEF LiveEdges
  <2> QED
    BY <2>1, <2>4 DEF Abstract!Init, Abstract!NoEdges
<1>2. IInv /\ [LinkNext]_vars => [Abstract!Next]_(Abstract!vars)
  <2> SUFFICES ASSUME IInv, [LinkNext]_vars
               PROVE  [Abstract!Next]_(Abstract!vars)
    OBVIOUS
  <2>1. /\ StoreOK(store, now) /\ Bounded(store) /\ now \in Nat
        /\ \A t \in Time : t \in Nat
        /\ \A k \in ClientKeys : k \in Key
        /\ \A w \in Weight : w \in Nat
    BY SparseAssumption, ConfigAssumption DEF IInv, Time, Weight
  <2>2. LiveEdges = EdgesOf(store) /\ LiveEdges' = EdgesOf(store')
    BY DEF LiveEdges, EdgesOf, Merged, LiveCsr, LivePending, Dead, GetWeight,
           LastActive, Lookup
  <2>3. ASSUME NEW act \in Activation, NEW t \in Time, NEW mode \in DecayMode,
               CallTick(act, t, mode)
        PROVE  Abstract!Next
    <3>1. /\ store' = TickStore(store, act, t, mode) /\ now' = t /\ now <= t /\ t \in Nat
          /\ \A k \in Pairs(act) : k[1] < store.num_nodes /\ k[2] < store.num_nodes
      BY <2>1, <2>3 DEF CallTick, Returns, InRange
    <3>2. EdgesOf(store') = Abstract!TickEdges(EdgesOf(store), act, t, mode)
      BY <2>1, <3>1, TickEdgesLaw
    <3>3. t \in now .. MaxTick
      BY <2>1, <3>1, SparseAssumption DEF Time
    <3>4. Abstract!Tick(act, t, mode)
      BY <2>2, <3>1, <3>2, <3>3 DEF Abstract!Tick
    <3> QED
      BY <3>4, SameVocabulary DEF Abstract!Next
  <2>4. ASSUME NEW k \in ClientKeys, NEW w \in Weight, CallSetWeight(k, w)
        PROVE  Abstract!Next
    <3>1. store' = SetWeight(store, k, w) /\ now' = now /\ InRange(k) /\ k \in Key /\ w \in Nat
      BY <2>1, <2>4 DEF CallSetWeight, Returns
    <3>2. /\ w = 0 => EdgesOf(store') = Abstract!Without(EdgesOf(store), {k})
          /\ w > 0 => EdgesOf(store')
                       = Abstract!Put(EdgesOf(store), {k}, [w |-> w, last |-> LastActive(store, k)])
      BY <2>1, <3>1, SetWeightEdges DEF InRange
    <3>3. LastActive(store, k) \in 0 .. now
      BY <2>1 DEF StoreOK, LastActive, Lookup
    <3>4. k \in DOMAIN EdgesOf(store) => EdgesOf(store)[k].last = LastActive(store, k)
      BY DEF EdgesOf
    <3>5. Abstract!SetWeight(k, w)
      BY <2>2, <3>1, <3>2, <3>3, <3>4 DEF Abstract!SetWeight
    <3> QED
      BY <3>1, <3>5, SameVocabulary DEF Abstract!Next
  <2>5. ASSUME CallCompact
        PROVE  UNCHANGED Abstract!vars
    BY <2>1, <2>2, <2>5, CompactEdges DEF CallCompact, Returns, Abstract!vars
  <2>6. ASSUME NEW n \in Node, CallGrow(n + 1)
        PROVE  UNCHANGED Abstract!vars
    <3>1. n + 1 \in Nat
      BY ConfigAssumption
    <3> QED
      BY <2>1, <2>2, <2>6, <3>1, GrowEdges DEF CallGrow, Returns, Abstract!vars
  <2>7. ASSUME NEW f \in IndexMaps, CallReindex(f)
        PROVE  Abstract!Next
    <3>1. store' = Reindex(store, f) /\ now' = now
      BY <2>7 DEF CallReindex, Returns
    <3>2. EdgesOf(store') = Abstract!Rekey(f, EdgesOf(store))
      BY <2>1, <3>1, ReindexEdges
    <3>3. Abstract!ReindexForCompact(f)
      BY <2>2, <3>1, <3>2 DEF Abstract!ReindexForCompact
    <3> QED
      BY <3>3, SameVocabulary DEF Abstract!Next
  <2>8. CASE UNCHANGED vars
    <3>1. store' = store /\ now' = now
      BY <2>8 DEF vars
    <3> QED
      BY <2>2, <3>1 DEF Abstract!vars
  <2> QED
    BY <2>3, <2>4, <2>5, <2>6, <2>7, <2>8 DEF LinkNext
<1> QED
  BY <1>1, <1>2, LinkInvariant, PTL DEF LinkSpec, Implements, Abstract!Spec

(***************************************************************************)
(* Under a graph, which never grows the store.  What a call can panic on   *)
(* is a question of keys alone: it adds no key but those it is given, and  *)
(* compact fails only on one that is stored.                               *)
(***************************************************************************)
Keys(s) == DOMAIN s.csr \cup DOMAIN s.pending

IsStore(s) ==
  DOMAIN s = {"num_nodes", "csr", "pending", "ticks", "dead_count", "panicked"}

\* r comes from s by writes to keys of K.
Confined(r, s, K) ==
  /\ IsStore(r)
  /\ r.num_nodes = s.num_nodes
  /\ Keys(r) \subseteq K
  /\ r.panicked => s.panicked \/ \E k \in K : k[1] >= s.num_nodes

LEMMA ConfinedTransitive ==
  ASSUME NEW s, NEW r, NEW q, NEW K, Confined(r, s, K), Confined(q, r, K)
  PROVE  Confined(q, s, K)
BY DEF Confined

LEMMA CompactConfined ==
  ASSUME NEW s, NEW K, IsStore(s), Keys(s) \subseteq K
  PROVE  Confined(Compact(s), s, K) /\ Confined(MaybeCompact(s), s, K)
<1>1. DOMAIN Merged(s) \subseteq Keys(s)
  BY DEF Merged, LiveCsr, LivePending, Keys
<1>2. Confined(s, s, K)
  BY DEF Confined
<1>3. CASE \E k \in DOMAIN Merged(s) : k[1] >= s.num_nodes
  <2>1. Compact(s) = [s EXCEPT !.panicked = TRUE]
    BY <1>3 DEF Compact
  <2>2. \E k \in K : k[1] >= s.num_nodes
    BY <1>1, <1>3
  <2>3. Confined(Compact(s), s, K)
    BY <2>1, <2>2 DEF Confined, IsStore, Keys
  <2> QED
    BY <1>2, <2>3 DEF MaybeCompact
<1>4. CASE ~ \E k \in DOMAIN Merged(s) : k[1] >= s.num_nodes
  <2>1. Compact(s) = [s EXCEPT !.csr = Merged(s), !.pending = EmptyMap, !.dead_count = 0]
    BY <1>4 DEF Compact
  <2>2. DOMAIN EmptyMap = {}
    BY DEF EmptyMap
  <2>3. Confined(Compact(s), s, K)
    BY <1>1, <2>1, <2>2 DEF Confined, IsStore, Keys
  <2> QED
    BY <1>2, <2>3 DEF MaybeCompact
<1> QED
  BY <1>3, <1>4

LEMMA KillConfined ==
  ASSUME NEW s, NEW D, NEW K, IsStore(s), Keys(s) \subseteq K
  PROVE  /\ Confined(Kill(s, D), s, K)
         /\ Kill(s, D).pending = s.pending
<1> DEFINE r == Kill(s, D)
           dead == [k \in DOMAIN s.csr |-> IF k \in D THEN 0 ELSE s.csr[k]]
<1>1. DOMAIN dead = DOMAIN s.csr
  OBVIOUS
<1>2. r = [s EXCEPT !.csr = dead, !.dead_count = @ + Cardinality(D)]
  BY DEF Kill
<1> HIDE DEF dead, r
<1>3. /\ IsStore(r) /\ r.num_nodes = s.num_nodes /\ r.csr = dead
      /\ r.pending = s.pending /\ r.panicked = s.panicked
  BY <1>2 DEF IsStore
<1> QED
  BY <1>1, <1>3 DEF Confined, Keys, r

\* A store whose buffer has lost entries, and whose ticks are any.
LEMMA FewerConfined ==
  ASSUME NEW s, NEW p, NEW ticks, NEW K, IsStore(s), Keys(s) \subseteq K,
         DOMAIN p \subseteq DOMAIN s.pending
  PROVE  /\ Confined([s EXCEPT !.ticks = ticks, !.pending = p], s, K)
         /\ Confined([s EXCEPT !.pending = p], s, K)
BY DEF Confined, IsStore, Keys

LEMMA SetWeightConfined ==
  ASSUME NEW s, NEW k, NEW w, NEW K, IsStore(s), Keys(s) \subseteq K, k \in K
  PROVE  Confined(SetWeight(s, k, w), s, K)
<1> DEFINE r == IF w <= 0 THEN RemoveEdge(s, k)
                ELSE IF k \in DOMAIN s.csr THEN WriteSlot(s, k, w)
                ELSE [s EXCEPT !.pending = Put(s.pending, {k}, w)]
<1>1. ASSUME w <= 0 PROVE Confined(r, s, K)
  <2> DEFINE q == Kill(s, {k} \cap LiveCsr(s))
             p == Without(s.pending, {k})
             ticks == Without(s.ticks, {k})
  <2>1. Confined(q, s, K) /\ q.pending = s.pending
    BY KillConfined
  <2>2. DOMAIN p \subseteq DOMAIN q.pending
    BY <2>1 DEF Without, Restrict
  <2>3. RemoveEdge(s, k) = [q EXCEPT !.pending = p, !.ticks = ticks]
    BY DEF RemoveEdge
  <2> HIDE DEF q, p, ticks
  <2>4. Confined([q EXCEPT !.pending = p, !.ticks = ticks], q, K)
    <3>1. IsStore(q) /\ Keys(q) \subseteq K
      BY <2>1 DEF Confined
    <3> QED
      BY <2>2, <3>1 DEF Confined, IsStore, Keys
  <2>5. Confined(RemoveEdge(s, k), s, K)
    BY <2>1, <2>3, <2>4, ConfinedTransitive
  <2> QED
    BY <1>1, <2>5
<1>2. ASSUME ~(w <= 0) /\ k \in DOMAIN s.csr PROVE Confined(r, s, K)
  <2>1. DOMAIN Put(s.csr, {k}, w) = DOMAIN s.csr
    BY <1>2 DEF Put
  <2>2. Confined(WriteSlot(s, k, w), s, K)
    BY <2>1 DEF WriteSlot, Confined, IsStore, Keys
  <2> QED
    BY <1>2, <2>2
<1>3. ASSUME ~(w <= 0) /\ k \notin DOMAIN s.csr PROVE Confined(r, s, K)
  <2>1. DOMAIN Put(s.pending, {k}, w) = DOMAIN s.pending \cup {k}
    BY DEF Put
  <2>2. Confined([s EXCEPT !.pending = Put(s.pending, {k}, w)], s, K)
    BY <2>1 DEF Confined, IsStore, Keys
  <2> QED
    BY <1>3, <2>2
<1>4. Confined(r, s, K)
  BY <1>1, <1>2, <1>3
<1>5. SetWeight(s, k, w) = MaybeCompact(r)
  BY DEF SetWeight
<1> HIDE DEF r
<1>6. Confined(MaybeCompact(r), r, K)
  BY <1>4, CompactConfined DEF Confined
<1> QED
  BY <1>4, <1>5, <1>6, ConfinedTransitive

LEMMA PruneConfined ==
  ASSUME NEW s, NEW t, NEW K, IsStore(s), Keys(s) \subseteq K
  PROVE  Confined(Prune(s, t), s, K)
<1>1. ASSUME NEW q, IsStore(q), Keys(q) \subseteq K
      PROVE  Confined(PruneBelow(q), q, K)
  <2> DEFINE d == Kill(q, {k \in LiveCsr(q) : q.csr[k] < MinWeight})
             p == Restrict(q.pending, {k \in DOMAIN q.pending : q.pending[k] >= MinWeight})
             r == [d EXCEPT !.pending = p]
  <2>1. Confined(d, q, K) /\ d.pending = q.pending
    BY <1>1, KillConfined
  <2>2. DOMAIN p \subseteq DOMAIN d.pending
    BY <2>1 DEF Restrict
  <2>3. PruneBelow(q) = MaybeCompact(r)
    BY DEF PruneBelow
  <2> HIDE DEF d, p
  <2>4. Confined(r, d, K)
    BY <2>1, <2>2, FewerConfined DEF Confined
  <2> HIDE DEF r
  <2>5. Confined(MaybeCompact(r), r, K)
    BY <2>4, CompactConfined DEF Confined
  <2> QED
    BY <2>1, <2>3, <2>4, <2>5, ConfinedTransitive
<1>2. ASSUME NEW q, IsStore(q), Keys(q) \subseteq K
      PROVE  Confined(PruneInactive(q, t), q, K)
  <2> DEFINE d == Kill(q, Stale(q, t, LiveCsr(q)))
             ticks == Without(q.ticks, Stale(q, t, LiveCsr(q)))
             p == Without(q.pending, Stale(q, t, DOMAIN q.pending))
             r == [d EXCEPT !.ticks = ticks, !.pending = p]
  <2>1. Confined(d, q, K) /\ d.pending = q.pending
    BY <1>2, KillConfined
  <2>2. DOMAIN p \subseteq DOMAIN d.pending
    BY <2>1 DEF Without, Restrict
  <2>3. PruneInactive(q, t) = MaybeCompact(r)
    BY DEF PruneInactive
  <2> HIDE DEF d, p, ticks
  <2>4. Confined(r, d, K)
    BY <2>1, <2>2, FewerConfined DEF Confined
  <2> HIDE DEF r
  <2>5. Confined(MaybeCompact(r), r, K)
    BY <2>4, CompactConfined DEF Confined
  <2> QED
    BY <2>1, <2>3, <2>4, <2>5, ConfinedTransitive
<1> DEFINE b == PruneBelow(s)
<1>3. Confined(b, s, K)
  BY <1>1
<1> HIDE DEF b
<1>4. Confined(PruneInactive(b, t), b, K)
  BY <1>2, <1>3 DEF Confined
<1> QED
  BY <1>3, <1>4, ConfinedTransitive DEF Prune, b

LEMMA TickConfined ==
  ASSUME NEW s, NEW act, NEW t, NEW mode, NEW K, IsStore(s), Keys(s) \subseteq K,
         Pairs(act) \subseteq K
  PROVE  Confined(TickStore(s, act, t, mode), s, K)
<1> DEFINE d == IF mode = "Skip" THEN s ELSE ScaleAll(s)
           deltas == Increments([k \in Key |-> GetWeight(d, k)], act)
           m == Touch(d, Pairs(act), t)
           r == ApplyIncrements(m, deltas)
<1>1. Confined(d, s, K)
  <2>1. Confined(s, s, K)
    BY DEF Confined
  <2>2. Confined(ScaleAll(s), s, K)
    <3> DEFINE c == [k \in DOMAIN s.csr |-> Decayed[s.csr[k]]]
               p == [k \in DOMAIN s.pending |-> Decayed[s.pending[k]]]
    <3>1. DOMAIN c = DOMAIN s.csr /\ DOMAIN p = DOMAIN s.pending
      OBVIOUS
    <3>2. ScaleAll(s) = [s EXCEPT !.csr = c, !.pending = p]
      BY DEF ScaleAll
    <3> HIDE DEF c, p
    <3> QED
      BY <3>1, <3>2 DEF Confined, IsStore, Keys
  <2> QED
    BY <2>1, <2>2
<1> HIDE DEF d
<1>2. Confined(m, d, K)
  BY <1>1 DEF Touch, Confined, IsStore, Keys
<1>3. DOMAIN deltas = Pairs(act)
  BY DEF Increments
<1> HIDE DEF deltas, m
<1>4. Confined(r, m, K)
  <2> DEFINE c == [k \in DOMAIN m.csr |-> m.csr[k] + Lookup(deltas, k)]
             p == [k \in DOMAIN m.pending \cup (DOMAIN deltas \ DOMAIN m.csr) |->
                     Lookup(m.pending, k) + Lookup(deltas, k)]
  <2>1. /\ DOMAIN c = DOMAIN m.csr
        /\ DOMAIN p = DOMAIN m.pending \cup (DOMAIN deltas \ DOMAIN m.csr)
    OBVIOUS
  <2>2. r = [m EXCEPT !.csr = c, !.pending = p]
    BY DEF ApplyIncrements
  <2> HIDE DEF c, p, r
  <2> QED
    BY <1>2, <1>3, <2>1, <2>2 DEF Confined, IsStore, Keys
<1>5. TickStore(s, act, t, mode) = Prune(r, t)
  BY DEF TickStore, Strengthen, d, deltas, m
<1> HIDE DEF r
<1>6. Confined(r, s, K)
  BY <1>1, <1>2, <1>4, ConfinedTransitive
<1>7. Confined(Prune(r, t), r, K)
  BY <1>6, PruneConfined DEF Confined
<1> QED
  BY <1>5, <1>6, <1>7, ConfinedTransitive

\* The store that reindex builds holds as many nodes as the map hands out,
\* and only keys among those: merging them cannot fail.
LEMMA ReindexFits ==
  ASSUME NEW s, IsStore(s), Keys(s) \subseteq Key, ~s.panicked,
         NEW f \in IndexMaps, NEW n \in Nat, Range(f) = 0 .. n - 1
  PROVE  LET r == Reindex(s, f)
         IN  /\ IsStore(r) /\ r.num_nodes = n /\ ~r.panicked
             /\ \A k \in Keys(r) : k \in Key /\ k[2] < n
             /\ (\A k \in Keys(s) : k[1] # k[2]) => \A k \in Keys(r) : k[1] # k[2]
<1> DEFINE q == [num_nodes |-> SizeAfter(f), csr |-> EmptyMap,
                 pending |-> Rekey(f, Merged(s)), ticks |-> TicksReindexed(s, f),
                 dead_count |-> 0, panicked |-> s.panicked]
           D == DOMAIN Rekey(f, Merged(s))
<1>1. SizeAfter(f) = n
  <2>1. CASE n = 0
    BY <2>1 DEF SizeAfter
  <2>2. CASE n > 0
    <3>1. \E m \in Range(f) : \A j \in Range(f) : j <= m
      <4>1. n - 1 \in Range(f) /\ \A j \in Range(f) : j <= n - 1
        BY <2>2
      <4> QED
        BY <4>1
    <3>2. MaxIndex(f) \in Range(f) /\ \A j \in Range(f) : j <= MaxIndex(f)
      BY <3>1 DEF MaxIndex
    <3>3. n - 1 \in Range(f)
      BY <2>2
    <3>4. MaxIndex(f) = n - 1
      BY <3>2, <3>3
    <3> QED
      BY <3>3, <3>4 DEF SizeAfter
  <2> QED
    BY <2>1, <2>2
<1>2. DOMAIN Merged(s) \subseteq Keys(s)
  BY DEF Merged, LiveCsr, LivePending, Keys
<1>3. D = {MapKey(f, o) : o \in Mapped(f, DOMAIN Merged(s))} /\ D \subseteq Key
  BY <1>2, RekeyDomain
<1>4. /\ IsStore(q) /\ q.num_nodes = n /\ q.panicked = FALSE /\ Keys(q) = D
  BY <1>1 DEF IsStore, Keys, EmptyMap
<1>5. Reindex(s, f) = Compact(q)
  BY DEF Reindex
<1> HIDE DEF q, D
<1>6. ASSUME NEW k \in D
      PROVE  /\ k \in Key /\ k[1] < n /\ k[2] < n
             /\ (\A o \in Keys(s) : o[1] # o[2]) => k[1] # k[2]
  <2>1. PICK o \in Mapped(f, DOMAIN Merged(s)) : k = MapKey(f, o)
    BY <1>3
  <2>2. o \in Mapped(f, Key) /\ o \in Keys(s) /\ o[1] \in DOMAIN f /\ o[2] \in DOMAIN f
    BY <1>2 DEF Mapped
  <2>3. k = <<f[o[1]], f[o[2]]>>
    BY <2>1, <2>2, MapKeyOrdered
  <2>4. f[o[1]] \in 0 .. n - 1 /\ f[o[2]] \in 0 .. n - 1
    BY <2>2 DEF Range
  <2>5. o[1] # o[2] => f[o[1]] # f[o[2]]
    BY <2>2, IndexMapShape
  <2> QED
    BY <1>3, <2>2, <2>3, <2>4, <2>5
<1>7. Confined(Compact(q), q, D)
  BY <1>4, CompactConfined
<1>8. ~ \E k \in D : k[1] >= n
  <2>1. \A k \in D : k[1] \in Nat
    BY <1>3, ConfigAssumption DEF Key
  <2> QED
    BY <1>6, <2>1
<1> QED
  BY <1>4, <1>5, <1>6, <1>7, <1>8 DEF Confined

(***************************************************************************)
(* The edges are between kernels the graph has, so a key past num_nodes    *)
(* means that the graph has outgrown the store.  Edges of a cycle join two *)
(* different kernels, the lower of which is not the last.                  *)
(***************************************************************************)
Outgrown == kernels > store.num_nodes

OutgrownByTwo == kernels >= store.num_nodes + 2

GraphInv ==
  /\ kernels \in Nat /\ store.num_nodes \in Nat /\ IsStore(store)
  /\ \A k \in Keys(store) : k \in Key /\ k[2] < kernels
  /\ store.panicked => Outgrown
  /\ ClientKeys = {} => /\ \A k \in Keys(store) : k[1] # k[2]
                        /\ store.panicked => OutgrownByTwo

LEMMA GraphInvInit == GraphInit => GraphInv
<1> SUFFICES ASSUME GraphInit PROVE GraphInv
  OBVIOUS
<1>1. /\ store.num_nodes = Capacity /\ IsStore(store) /\ store.panicked = FALSE
      /\ DOMAIN store.csr = {} /\ DOMAIN store.pending = {} /\ kernels = 0
  BY DEF GraphInit, Init, New, EmptyMap, IsStore
<1> QED
  BY <1>1, SparseAssumption DEF GraphInv, Keys

\* A call on kernels the graph has keeps the invariant.
LEMMA ConfinedKeeps ==
  ASSUME GraphInv, NEW K, Confined(store', store, K), ~store.panicked,
         kernels' \in Nat, kernels <= kernels',
         \A k \in K : k \in Key /\ k[2] < kernels',
         ClientKeys = {} => \A k \in K : k[1] # k[2]
  PROVE  GraphInv'
<1>1. /\ IsStore(store') /\ store'.num_nodes = store.num_nodes /\ Keys(store') \subseteq K
      /\ store'.panicked => \E k \in K : k[1] >= store.num_nodes
      /\ store.num_nodes \in Nat
  BY DEF Confined, GraphInv
<1>2. \A k \in K : k[1] \in Nat /\ k[2] \in Nat /\ k[1] <= k[2]
  BY ConfigAssumption DEF Key
<1>3. store'.panicked => kernels' > store'.num_nodes
  BY <1>1, <1>2
<1>4. ASSUME ClientKeys = {}, store'.panicked
      PROVE  kernels' >= store'.num_nodes + 2
  <2>1. PICK k \in K : k[1] >= store.num_nodes
    BY <1>1, <1>4
  <2>2. k[1] < k[2] /\ k[2] < kernels'
    BY <1>2, <1>4
  <2> QED
    BY <1>1, <1>2, <2>1, <2>2
<1> QED
  BY <1>1, <1>3, <1>4 DEF GraphInv, IsStore, Keys, Outgrown, OutgrownByTwo

LEMMA GraphTickKeeps ==
  ASSUME GraphInv, NEW act \in Activation, NEW t \in Time, NEW mode, GraphTick(act, t, mode)
  PROVE  /\ GraphInv'
         /\ store'.num_nodes = store.num_nodes
         /\ \A k \in Pairs(act) : k[2] < kernels'
<1> DEFINE K == Keys(store) \cup Pairs(act)
<1>1. /\ kernels' \in Nat /\ kernels <= kernels' /\ DOMAIN act \subseteq 0 .. kernels' - 1
      /\ store' = TickStore(store, act, t, mode) /\ ~store.panicked
      /\ kernels \in Nat /\ IsStore(store)
  BY DEF GraphTick, Returns, GraphInv
<1>2. \A k \in Pairs(act) : k \in Key /\ k[1] # k[2] /\ k[2] < kernels'
  BY <1>1 DEF Pairs
<1>3. \A k \in Keys(store) : /\ k \in Key /\ k[2] < kernels
                             /\ ClientKeys = {} => k[1] # k[2]
  BY DEF GraphInv
<1>4. \A k \in Keys(store) : k[2] < kernels'
  <2>1. \A k \in Key : k[2] \in Nat
    BY ConfigAssumption DEF Key
  <2> QED
    BY <1>1, <1>3, <2>1
<1>5. Confined(store', store, K)
  BY <1>1, TickConfined
<1>6. /\ \A k \in K : k \in Key /\ k[2] < kernels'
      /\ ClientKeys = {} => \A k \in K : k[1] # k[2]
  BY <1>2, <1>3, <1>4
<1> HIDE DEF K
<1> QED
  BY <1>1, <1>2, <1>5, <1>6, ConfinedKeeps DEF Confined

LEMMA GraphSetEdgeKeeps ==
  ASSUME GraphInv, NEW k \in ClientKeys, NEW w, GraphSetEdge(k, w)
  PROVE  GraphInv'
<1> DEFINE K == Keys(store) \cup {k}
<1>1. /\ kernels' = kernels /\ kernels \in Nat /\ k[2] < kernels /\ k \in Key
      /\ ~store.panicked /\ IsStore(store) /\ ClientKeys # {}
      /\ store' = IF InRange(k) THEN SetWeight(store, k, w)
                  ELSE [store EXCEPT !.panicked = TRUE]
  BY SparseAssumption DEF GraphSetEdge, Returns, GraphInv, Kernels
<1>2. k[1] \in Nat /\ k[2] \in Nat /\ k[1] <= k[2]
  BY <1>1, ConfigAssumption DEF Key
<1>3. CASE InRange(k)
  <2>1. Confined(store', store, K)
    BY <1>1, <1>3, SetWeightConfined
  <2>2. \A o \in K : o \in Key /\ o[2] < kernels'
    BY <1>1 DEF GraphInv
  <2> HIDE DEF K
  <2>3. kernels' \in Nat /\ kernels <= kernels'
    BY <1>1
  <2>4. ClientKeys = {} => \A o \in K : o[1] # o[2]
    BY <1>1
  <2> QED
    BY <1>1, <2>1, <2>2, <2>3, <2>4, ConfinedKeeps
<1>4. CASE ~InRange(k)
  <2>1. /\ IsStore(store') /\ store'.num_nodes = store.num_nodes
        /\ Keys(store') = Keys(store)
    BY <1>1, <1>4 DEF IsStore, Keys
  <2>2. kernels' > store'.num_nodes
    BY <1>1, <1>2, <1>4, <2>1 DEF InRange, GraphInv
  <2> QED
    BY <1>1, <2>1, <2>2 DEF GraphInv, IsStore, Keys, Outgrown
<1> QED
  BY <1>3, <1>4

LEMMA GraphCompactKeeps ==
  ASSUME GraphInv, NEW f \in IndexMaps, GraphCompact(f)
  PROVE  GraphInv'
<1>1. PICK n \in 0 .. kernels : Range(f) = 0 .. n - 1 /\ kernels' = n
  BY DEF GraphCompact
<1>2. /\ store' = Reindex(store, f) /\ ~store.panicked /\ IsStore(store) /\ n \in Nat
      /\ Keys(store) \subseteq Key
  BY <1>1 DEF GraphCompact, Returns, GraphInv
<1>3. /\ IsStore(store') /\ store'.num_nodes = n /\ ~store'.panicked
      /\ \A k \in Keys(store') : k \in Key /\ k[2] < n
      /\ (\A k \in Keys(store) : k[1] # k[2]) => \A k \in Keys(store') : k[1] # k[2]
  BY <1>1, <1>2, ReindexFits
<1> QED
  BY <1>1, <1>2, <1>3 DEF GraphInv, IsStore, Keys

LEMMA GraphInvariant == GraphSpec => []GraphInv
<1>1. GraphInv /\ [GraphNext]_graphVars => GraphInv'
  <2> SUFFICES ASSUME GraphInv, [GraphNext]_graphVars PROVE GraphInv'
    OBVIOUS
  <2>1. CASE UNCHANGED graphVars
    BY <2>1 DEF graphVars, vars, GraphInv, IsStore, Keys, Outgrown, OutgrownByTwo
  <2> QED
    BY <2>1, GraphTickKeeps, GraphSetEdgeKeeps, GraphCompactKeeps DEF GraphNext
<1> QED
  BY <1>1, GraphInvInit, PTL DEF GraphSpec

(***************************************************************************)
(* The reach of finding 1: under a graph the store panics only when the    *)
(* graph has more kernels than the store has nodes, whatever it has set,   *)
(* pruned, lost to compactions or grown since.                             *)
(***************************************************************************)
PanicsOnlyOutgrown == store.panicked => Outgrown

THEOREM GraphPanicsOnlyOutgrown == GraphSpec => []PanicsOnlyOutgrown
<1>1. GraphInv => PanicsOnlyOutgrown
  BY DEF GraphInv, PanicsOnlyOutgrown
<1> QED
  BY <1>1, GraphInvariant, PTL

(***************************************************************************)
(* Ticks alone survive one kernel too many: an edge to the last kernel is  *)
(* in the row of a lower one, so tick, unlike set_edge, needs two kernels  *)
(* past num_nodes to index past the row pointers.                          *)
(***************************************************************************)
TicksPanicOnlyByTwo == store.panicked => OutgrownByTwo

THEOREM GraphTicksPanicOnlyByTwo ==
  ASSUME ClientKeys = {} PROVE GraphSpec => []TicksPanicOnlyByTwo
<1>1. GraphInv => TicksPanicOnlyByTwo
  BY DEF GraphInv, TicksPanicOnlyByTwo
<1> QED
  BY <1>1, GraphInvariant, PTL

(***************************************************************************)
(* A graph that never outgrows its store may forget that the store is      *)
(* sparse: every one of its calls is one of the link layer's on nodes the  *)
(* store has, and the store implements the abstract one.                   *)
(***************************************************************************)
THEOREM GraphWithinCapacityImplements ==
  GraphSpec /\ []~Outgrown => Implements
<1>1. GraphInit => Init
  BY DEF GraphInit
<1>2. GraphInv /\ ~Outgrown /\ ~Outgrown' /\ [GraphNext]_graphVars => [LinkNext]_vars
  <2> SUFFICES ASSUME GraphInv, ~Outgrown, ~Outgrown', [GraphNext]_graphVars
               PROVE  [LinkNext]_vars
    OBVIOUS
  <2>1. /\ kernels \in Nat /\ store.num_nodes \in Nat /\ kernels <= store.num_nodes
        /\ \A k \in Key : k[1] \in Nat /\ k[2] \in Nat /\ k[1] <= k[2]
    <3>1. kernels \in Nat /\ store.num_nodes \in Nat /\ kernels <= store.num_nodes
      BY DEF GraphInv, Outgrown
    <3> QED
      BY <3>1, ConfigAssumption DEF Key
  <2>2. ASSUME NEW act \in Activation, NEW t \in Time, NEW mode \in DecayMode,
               GraphTick(act, t, mode)
        PROVE  CallTick(act, t, mode)
    <3>1. \A k \in Pairs(act) : k \in Key /\ k[2] < kernels'
      BY <2>2, GraphTickKeeps DEF Pairs
    <3>2. kernels' \in Nat /\ kernels' <= store.num_nodes
      <4>1. GraphInv' /\ store'.num_nodes = store.num_nodes
        BY <2>2, GraphTickKeeps
      <4> QED
        BY <4>1 DEF GraphInv, Outgrown
    <3>3. \A k \in Pairs(act) : InRange(k)
      BY <2>1, <3>1, <3>2 DEF InRange
    <3>4. t >= now
      <4>1. MaxTick \in Nat /\ t \in now .. MaxTick
        BY <2>2, SparseAssumption DEF GraphTick
      <4> QED
        BY <4>1
    <3> QED
      BY <2>2, <3>3, <3>4 DEF GraphTick, CallTick
  <2>3. ASSUME NEW k \in ClientKeys, NEW w \in Weight, GraphSetEdge(k, w)
        PROVE  CallSetWeight(k, w)
    <3>1. k \in Key /\ k[2] < kernels
      BY <2>1, <2>3, SparseAssumption DEF GraphSetEdge, Kernels
    <3>2. InRange(k)
      BY <2>1, <3>1 DEF InRange
    <3> QED
      BY <2>3, <3>2 DEF GraphSetEdge, CallSetWeight
  <2>4. ASSUME NEW f \in IndexMaps, GraphCompact(f) PROVE CallReindex(f)
    BY <2>4 DEF GraphCompact, CallReindex
  <2>5. CASE UNCHANGED graphVars
    BY <2>5 DEF graphVars
  <2> QED
    BY <2>2, <2>3, <2>4, <2>5 DEF GraphNext, LinkNext
<1> QED
  BY <1>1, <1>2, GraphInvariant, SparseImplements, PTL DEF GraphSpec, LinkSpec
=============================================================================
