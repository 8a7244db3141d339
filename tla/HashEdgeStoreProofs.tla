------------------------ MODULE HashEdgeStoreProofs -------------------------
(***************************************************************************)
(* The HashMap backend keeps its types, keeps no orphan tick and           *)
(* implements the abstract edge store, for every set of nodes and every    *)
(* configuration.                                                          *)
(*                                                                         *)
(* Each operation is treated once as a function on store values: it keeps  *)
(* StoreOK and acts on EdgesOf as the abstract operation does.             *)
(***************************************************************************)
EXTENDS HashEdgeStore, SokmProofs

\* TypeOK of a store value, t bounding its ticks.
StoreOK(s, t) ==
  /\ s = [weights |-> s.weights, ticks |-> s.ticks]
  /\ DOMAIN s.weights \subseteq Key
  /\ s.weights \in [DOMAIN s.weights -> Weight \ {0}]
  /\ DOMAIN s.ticks \subseteq Key
  /\ s.ticks \in [DOMAIN s.ticks -> 0 .. t]

\* NoOrphanTicks of a store value.
Owned(s) == DOMAIN s.ticks \subseteq DOMAIN s.weights \cup ClientTouches

(***************************************************************************)
(* The abstract store is instantiated with the same constants, so its      *)
(* vocabulary is the one of the backend.                                   *)
(***************************************************************************)
LEMMA SameVocabulary ==
  /\ Abstract!Key = Key
  /\ Abstract!Weight = Weight
  /\ Abstract!Activation = Activation
  /\ Abstract!IndexMaps = IndexMaps
  /\ Abstract!DecayMode = DecayMode
  /\ Abstract!Time = Time
  /\ \A act : Abstract!Pairs(act) = Pairs(act)
  /\ \A w, gain : Abstract!NewWeight(w, gain) = NewWeight(w, gain)
  /\ \A t, l : Abstract!Elapsed(t, l) = Elapsed(t, l)
<1>1. Abstract!Key = Key
  BY DEF Key, Abstract!Key
<1>2. Abstract!Weight = Weight /\ Abstract!DecayMode = DecayMode /\ Abstract!Time = Time
  BY DEF Weight, Abstract!Weight, DecayMode, Abstract!DecayMode, Time, Abstract!Time
<1>3. Abstract!Activation = Activation
  BY DEF Activation, Abstract!Activation
<1>4. Abstract!IndexMaps = IndexMaps
  BY DEF IndexMaps, Abstract!IndexMaps, IsIndexMap, Abstract!IsIndexMap,
         Range, Abstract!Range
<1>5. \A act : Abstract!Pairs(act) = Pairs(act)
  BY <1>1 DEF Pairs, Abstract!Pairs
<1>6. \A w, gain : Abstract!NewWeight(w, gain) = NewWeight(w, gain)
  BY DEF NewWeight, Abstract!NewWeight
<1>7. \A t, l : Abstract!Elapsed(t, l) = Elapsed(t, l)
  BY DEF Elapsed, Abstract!Elapsed
<1> QED
  BY <1>1, <1>2, <1>3, <1>4, <1>5, <1>6, <1>7

(***************************************************************************)
(* Decay: scaling every weight keeps it positive, and decays every edge.   *)
(***************************************************************************)
LEMMA DecayCorrect ==
  ASSUME NEW t \in Nat, NEW s, StoreOK(s, t)
  PROVE  /\ StoreOK(Decay(s), t)
         /\ EdgesOf(Decay(s)) = Abstract!Decay(EdgesOf(s))
<1>1. /\ DOMAIN Decay(s).weights = DOMAIN s.weights
      /\ \A k \in DOMAIN s.weights : Decay(s).weights[k] = Decayed[s.weights[k]]
      /\ Decay(s).ticks = s.ticks
      /\ Decay(s) = [weights |-> Decay(s).weights, ticks |-> Decay(s).ticks]
  BY DEF Decay, ScaleAll
<1>2. \A w \in Weight \ {0} : Decayed[w] \in Weight \ {0}
  BY ConfigAssumption DEF Weight
<1>3. StoreOK(Decay(s), t)
  BY <1>1, <1>2 DEF StoreOK, Decay, ScaleAll
<1>4. EdgesOf(Decay(s)) = Abstract!Decay(EdgesOf(s))
  BY <1>1 DEF EdgesOf, Abstract!Decay, LastActive, Lookup
<1> QED
  BY <1>3, <1>4

(***************************************************************************)
(* Strengthening: touching first and applying the collected increments     *)
(* afterwards gives each co-activated pair its new weight and tick.        *)
(***************************************************************************)
LEMMA StrengthenCorrect ==
  ASSUME NEW n \in Nat, NEW t \in Nat, n <= t, NEW s, StoreOK(s, n),
         NEW act \in Activation
  PROVE  /\ StoreOK(Strengthen(s, act, t), t)
         /\ EdgesOf(Strengthen(s, act, t)) = Abstract!Strengthen(EdgesOf(s), act, t)
         /\ DOMAIN Strengthen(s, act, t).weights = DOMAIN s.weights \cup Pairs(act)
         /\ DOMAIN Strengthen(s, act, t).ticks = DOMAIN s.ticks \cup Pairs(act)
<1> DEFINE w == [k \in Key |-> GetWeight(s, k)]
           new(k) == NewWeight(w[k], Delta * act[k[1]] * act[k[2]])
           r == Strengthen(s, act, t)
<1>1. Pairs(act) \subseteq Key
  BY DEF Pairs
<1>2. w \in [Key -> Weight]
  <2>1. 0 \in Weight
    BY ConfigAssumption DEF Weight
  <2> QED
    BY <2>1 DEF StoreOK, GetWeight, Lookup
<1>3. \A k \in Pairs(act) : new(k) \in Weight \ {0}
  <2> TAKE k \in Pairs(act)
  <2>1. w[k] \in Weight /\ Delta * act[k[1]] * act[k[2]] \in Nat
    BY <1>1, <1>2, GainIsNat
  <2> QED
    BY <2>1, NewWeightInRange
<1>4. \A k \in Pairs(act) : w[k] + Increments(w, act)[k] = new(k)
  BY <1>2, IncrementRestores
<1>5. /\ DOMAIN Increments(w, act) = Pairs(act)
      /\ \A k \in Key : w[k] = Lookup(s.weights, k)
  BY DEF Increments, GetWeight
<1> HIDE DEF w
<1>6. /\ r = [weights |-> r.weights, ticks |-> r.ticks]
      /\ r.ticks = Put(s.ticks, Pairs(act), t)
      /\ r.weights = [k \in DOMAIN s.weights \cup Pairs(act) |->
                        Lookup(s.weights, k) + Lookup(Increments(w, act), k)]
  BY <1>5 DEF Strengthen, ApplyIncrements, Touch, w
<1>7. /\ DOMAIN r.weights = DOMAIN s.weights \cup Pairs(act)
      /\ \A k \in Pairs(act) : r.weights[k] = new(k)
      /\ \A k \in DOMAIN s.weights \ Pairs(act) : r.weights[k] = s.weights[k]
  <2>1. \A k \in Pairs(act) : r.weights[k] = new(k)
    BY <1>1, <1>4, <1>5, <1>6 DEF Lookup
  <2>2. \A k \in DOMAIN s.weights \ Pairs(act) : r.weights[k] = s.weights[k]
    <3>1. \A k \in DOMAIN s.weights : s.weights[k] \in Int
      BY ConfigAssumption DEF StoreOK, Weight
    <3> QED
      BY <1>5, <1>6, <3>1 DEF Lookup
  <2> QED
    BY <1>6, <2>1, <2>2
<1>8. /\ DOMAIN r.ticks = DOMAIN s.ticks \cup Pairs(act)
      /\ \A k \in Pairs(act) : r.ticks[k] = t
      /\ \A k \in DOMAIN s.ticks \ Pairs(act) : r.ticks[k] = s.ticks[k]
  BY <1>6 DEF Put
<1> HIDE DEF r, new
<1>9. StoreOK(r, t)
  <2>1. r.weights \in [DOMAIN r.weights -> Weight \ {0}]
    BY <1>3, <1>6, <1>7 DEF StoreOK
  <2>2. r.ticks \in [DOMAIN r.ticks -> 0 .. t]
    BY <1>6, <1>8 DEF StoreOK, Put
  <2> QED
    BY <1>1, <1>6, <1>7, <1>8, <2>1, <2>2 DEF StoreOK
<1>10. EdgesOf(r) = Abstract!Strengthen(EdgesOf(s), act, t)
  <2>1. \A k \in Pairs(act) : Abstract!WeightOf(EdgesOf(s), k) = w[k]
    BY <1>1, <1>5 DEF Abstract!WeightOf, EdgesOf, Lookup
  <2>2. Abstract!Strengthen(EdgesOf(s), act, t)
          = [k \in DOMAIN s.weights \cup Pairs(act) |->
               IF k \in Pairs(act) THEN [w |-> new(k), last |-> t]
               ELSE [w |-> s.weights[k], last |-> LastActive(s, k)]]
    BY <2>1, SameVocabulary DEF Abstract!Strengthen, EdgesOf, new
  <2>3. \A k \in DOMAIN s.weights \ Pairs(act) : LastActive(r, k) = LastActive(s, k)
    BY <1>8 DEF LastActive, Lookup
  <2>4. \A k \in Pairs(act) : LastActive(r, k) = t
    BY <1>8 DEF LastActive, Lookup
  <2> QED
    BY <1>7, <2>2, <2>3, <2>4 DEF EdgesOf
<1> QED
  BY <1>7, <1>8, <1>9, <1>10 DEF r

(***************************************************************************)
(* Removing a set of keys from both maps.                                  *)
(***************************************************************************)
LEMMA DropCorrect ==
  ASSUME NEW t \in Nat, NEW s, StoreOK(s, t), NEW K
  PROVE  /\ StoreOK(Drop(s, K), t)
         /\ DOMAIN Drop(s, K).weights = DOMAIN s.weights \ K
         /\ DOMAIN Drop(s, K).ticks = DOMAIN s.ticks \ K
         /\ EdgesOf(Drop(s, K)) = Restrict(EdgesOf(s), DOMAIN s.weights \ K)
BY DEF StoreOK, Drop, Without, Restrict, EdgesOf, LastActive, Lookup

(***************************************************************************)
(* Pruning: the two passes together keep exactly the edges that are heavy  *)
(* enough and recent enough.                                               *)
(***************************************************************************)
LEMMA PruneCorrect ==
  ASSUME NEW t \in Nat, NEW s, StoreOK(s, t)
  PROVE  /\ StoreOK(Prune(s, t), t)
         /\ EdgesOf(Prune(s, t)) = Abstract!Prune(EdgesOf(s), t)
         /\ Owned(s) => Owned(Prune(s, t))
<1> DEFINE light == {k \in DOMAIN s.weights : s.weights[k] < MinWeight}
           m == Drop(s, light)
           old == {k \in DOMAIN m.weights : Elapsed(t, LastActive(m, k)) > P1}
<1>1. PruneBelow(s) = m /\ Prune(s, t) = Drop(m, old)
  BY DEF PruneBelow, Prune, PruneInactive
<1>2. /\ StoreOK(m, t)
      /\ DOMAIN m.weights = DOMAIN s.weights \ light
      /\ DOMAIN m.ticks = DOMAIN s.ticks \ light
      /\ EdgesOf(m) = Restrict(EdgesOf(s), DOMAIN s.weights \ light)
  BY DropCorrect
<1> HIDE DEF light, m, old
<1>3. /\ StoreOK(Prune(s, t), t)
      /\ DOMAIN Prune(s, t).weights = DOMAIN m.weights \ old
      /\ DOMAIN Prune(s, t).ticks = DOMAIN m.ticks \ old
      /\ EdgesOf(Prune(s, t)) = Restrict(EdgesOf(m), DOMAIN m.weights \ old)
  BY <1>1, <1>2, DropCorrect
<1>4. \A k \in DOMAIN s.weights :
        Abstract!Survives(EdgesOf(s)[k], t) <=> k \in DOMAIN m.weights \ old
  <2> TAKE k \in DOMAIN s.weights
  <2>1. /\ s.weights[k] \in Int /\ MinWeight \in Int /\ P1 \in Int
        /\ LastActive(s, k) \in Nat
    BY ConfigAssumption DEF StoreOK, Weight, LastActive, Lookup
  <2>2. Elapsed(t, LastActive(s, k)) \in Int
    BY <2>1 DEF Elapsed
  <2>3. k \in DOMAIN m.weights => LastActive(m, k) = LastActive(s, k)
    BY <1>2 DEF m, Drop, Without, Restrict, LastActive, Lookup
  <2>4. Abstract!Survives(EdgesOf(s)[k], t)
          <=> s.weights[k] >= MinWeight /\ Elapsed(t, LastActive(s, k)) <= P1
    BY SameVocabulary DEF Abstract!Survives, EdgesOf
  <2> QED
    BY <1>2, <2>1, <2>2, <2>3, <2>4 DEF light, old
<1>5. EdgesOf(Prune(s, t)) = Restrict(EdgesOf(s), DOMAIN m.weights \ old)
  BY <1>2, <1>3 DEF Restrict
<1>6. {k \in DOMAIN EdgesOf(s) : Abstract!Survives(EdgesOf(s)[k], t)}
        = DOMAIN m.weights \ old
  BY <1>2, <1>4 DEF EdgesOf
<1>7. EdgesOf(Prune(s, t)) = Abstract!Prune(EdgesOf(s), t)
  BY <1>5, <1>6 DEF Abstract!Prune, Restrict, Abstract!Restrict
<1> QED
  BY <1>2, <1>3, <1>7 DEF Owned

(***************************************************************************)
(* One cycle is the abstract cycle on the edges it sees.                   *)
(***************************************************************************)
LEMMA TickCorrect ==
  ASSUME NEW n \in Nat, NEW t \in Nat, n <= t, NEW s, StoreOK(s, n),
         NEW act \in Activation, NEW mode \in DecayMode
  PROVE  /\ StoreOK(TickStore(s, act, t, mode), t)
         /\ EdgesOf(TickStore(s, act, t, mode))
              = Abstract!TickEdges(EdgesOf(s), act, t, mode)
         /\ Owned(s) => Owned(TickStore(s, act, t, mode))
<1> DEFINE d == IF mode = "Skip" THEN s ELSE Decay(s)
           r == Strengthen(d, act, t)
<1>1. /\ StoreOK(d, n)
      /\ EdgesOf(d) = IF mode = "Skip" THEN EdgesOf(s) ELSE Abstract!Decay(EdgesOf(s))
      /\ DOMAIN d.weights = DOMAIN s.weights /\ DOMAIN d.ticks = DOMAIN s.ticks
  BY DecayCorrect DEF Decay, ScaleAll
<1> HIDE DEF d
<1>2. /\ StoreOK(r, t)
      /\ EdgesOf(r) = Abstract!Strengthen(EdgesOf(d), act, t)
      /\ DOMAIN r.weights = DOMAIN d.weights \cup Pairs(act)
      /\ DOMAIN r.ticks = DOMAIN d.ticks \cup Pairs(act)
  BY <1>1, StrengthenCorrect
<1> HIDE DEF r
<1>3. TickStore(s, act, t, mode) = Prune(r, t)
  BY DEF TickStore, r, d
<1>4. EdgesOf(Prune(r, t)) = Abstract!TickEdges(EdgesOf(s), act, t, mode)
  BY <1>1, <1>2, PruneCorrect DEF Abstract!TickEdges
<1>5. Owned(s) => Owned(r)
  BY <1>1, <1>2 DEF Owned
<1> QED
  BY <1>2, <1>3, <1>4, <1>5, PruneCorrect

(***************************************************************************)
(* Re-indexing keeps what it does not drop, and ticks of live edges only.  *)
(***************************************************************************)
LEMMA ReindexCorrect ==
  ASSUME NEW t \in Nat, NEW s, StoreOK(s, t), NEW f \in IndexMaps
  PROVE  /\ StoreOK(ReindexForCompact(s, f), t)
         /\ EdgesOf(ReindexForCompact(s, f)) = Abstract!Rekey(f, EdgesOf(s))
         /\ Owned(ReindexForCompact(s, f))
<1> DEFINE live == Restrict(s.ticks, DOMAIN s.ticks \cap DOMAIN s.weights)
           r == ReindexForCompact(s, f)
<1>1. /\ DOMAIN s.weights \subseteq Key
      /\ DOMAIN live = DOMAIN s.ticks \cap DOMAIN s.weights
      /\ \A k \in DOMAIN live : live[k] = s.ticks[k] /\ live[k] \in 0 .. t
      /\ \A k \in DOMAIN s.weights : s.weights[k] \in Weight \ {0}
  BY DEF StoreOK, Restrict
<1>2. r = [weights |-> Rekey(f, s.weights), ticks |-> Rekey(f, live)]
  BY DEF ReindexForCompact
<1> HIDE DEF r, live
<1>3. /\ DOMAIN r.weights = {MapKey(f, o) : o \in Mapped(f, DOMAIN s.weights)}
      /\ DOMAIN r.ticks = {MapKey(f, o) : o \in Mapped(f, DOMAIN live)}
      /\ DOMAIN r.weights \subseteq Key /\ DOMAIN r.ticks \subseteq Key
  BY <1>1, <1>2, RekeyDomain
<1>4. \A o \in Mapped(f, DOMAIN s.weights) : r.weights[MapKey(f, o)] = s.weights[o]
  BY <1>1, <1>2, RekeyValue
<1>5. \A o \in Mapped(f, DOMAIN live) : r.ticks[MapKey(f, o)] = s.ticks[o]
  BY <1>1, <1>2, RekeyValue DEF Mapped
<1>6. StoreOK(r, t)
  <2>1. \A k \in DOMAIN r.weights : r.weights[k] \in Weight \ {0}
    BY <1>1, <1>3, <1>4 DEF Mapped
  <2>2. \A k \in DOMAIN r.ticks : r.ticks[k] \in 0 .. t
    BY <1>1, <1>3, <1>5 DEF Mapped
  <2>3. r.weights = [k \in DOMAIN r.weights |-> r.weights[k]]
        /\ r.ticks = [k \in DOMAIN r.ticks |-> r.ticks[k]]
    BY <1>2 DEF Rekey
  <2> QED
    BY <1>2, <1>3, <2>1, <2>2, <2>3 DEF StoreOK
<1>7. \A o \in Mapped(f, DOMAIN s.weights) :
        LastActive(r, MapKey(f, o)) = LastActive(s, o)
  <2> TAKE o \in Mapped(f, DOMAIN s.weights)
  <2>1. CASE o \in DOMAIN s.ticks
    <3>1. o \in Mapped(f, DOMAIN live)
      BY <1>1, <2>1 DEF Mapped
    <3> QED
      BY <1>3, <1>5, <2>1, <3>1 DEF LastActive, Lookup
  <2>2. CASE o \notin DOMAIN s.ticks
    <3>1. ASSUME NEW p \in Mapped(f, DOMAIN live), MapKey(f, p) = MapKey(f, o)
          PROVE  FALSE
      <4>1. p \in Mapped(f, Key) /\ o \in Mapped(f, Key) /\ p \in DOMAIN s.ticks
        BY <1>1 DEF Mapped
      <4> QED
        BY <2>2, <3>1, <4>1, MapKeyInjective
    <3> QED
      BY <1>3, <2>2, <3>1 DEF LastActive, Lookup
  <2> QED
    BY <2>1, <2>2
<1>8. EdgesOf(r) = Abstract!Rekey(f, EdgesOf(s))
  <2> DEFINE e == EdgesOf(s)
  <2>1. DOMAIN e = DOMAIN s.weights
    BY DEF EdgesOf
  <2>2. Abstract!Rekey(f, e) = Rekey(f, e)
    BY DEF Rekey, Abstract!Rekey, Mapped, Abstract!Mapped, MapKey, Abstract!MapKey,
           Canonical, Abstract!Canonical
  <2> HIDE DEF e
  <2>3. /\ DOMAIN Rekey(f, e) = DOMAIN r.weights
        /\ \A o \in Mapped(f, DOMAIN s.weights) : Rekey(f, e)[MapKey(f, o)] = e[o]
    <3>1. DOMAIN e \subseteq Key
      BY <1>1, <2>1
    <3>2. DOMAIN Rekey(f, e) = {MapKey(f, o) : o \in Mapped(f, DOMAIN e)}
      BY <3>1, RekeyDomain
    <3>3. \A o \in Mapped(f, DOMAIN e) : Rekey(f, e)[MapKey(f, o)] = e[o]
      BY <3>1, RekeyValue
    <3> QED
      BY <1>3, <2>1, <3>2, <3>3
  <2>4. \A o \in Mapped(f, DOMAIN s.weights) : EdgesOf(r)[MapKey(f, o)] = e[o]
    BY <1>3, <1>4, <1>7 DEF EdgesOf, e, Mapped
  <2>5. EdgesOf(r) = [k \in DOMAIN r.weights |-> EdgesOf(r)[k]]
        /\ Rekey(f, e) = [k \in DOMAIN Rekey(f, e) |-> Rekey(f, e)[k]]
    BY DEF EdgesOf, Rekey
  <2>6. \A k \in DOMAIN r.weights : EdgesOf(r)[k] = Rekey(f, e)[k]
    BY <1>3, <2>3, <2>4
  <2> QED
    BY <2>2, <2>3, <2>5, <2>6 DEF e
<1>9. DOMAIN r.ticks \subseteq DOMAIN r.weights
  BY <1>1, <1>3 DEF Mapped
<1> QED
  BY <1>6, <1>8, <1>9 DEF r, Owned

(***************************************************************************)
(* set_edge: a positive weight replaces the old one and leaves the tick    *)
(* alone; any other removes the edge.                                      *)
(***************************************************************************)
LEMMA SetWeightCorrect ==
  ASSUME NEW t \in Nat, NEW s, StoreOK(s, t), NEW k \in Key, NEW w \in Weight
  PROVE  /\ StoreOK(SetWeight(s, k, w), t)
         /\ Owned(s) => Owned(SetWeight(s, k, w))
         /\ w = 0 => EdgesOf(SetWeight(s, k, w)) = Abstract!Without(EdgesOf(s), {k})
         /\ w > 0 => EdgesOf(SetWeight(s, k, w))
                      = Abstract!Put(EdgesOf(s), {k}, [w |-> w, last |-> LastActive(s, k)])
<1>1. w \in Int /\ (w <= 0 <=> w = 0)
  BY ConfigAssumption DEF Weight
<1>2. CASE w = 0
  <2>1. SetWeight(s, k, w) = Drop(s, {k})
    BY <1>2 DEF SetWeight
  <2>2. EdgesOf(SetWeight(s, k, w)) = Restrict(EdgesOf(s), DOMAIN s.weights \ {k})
    BY <2>1, DropCorrect
  <2>3. DOMAIN EdgesOf(s) = DOMAIN s.weights
    BY DEF EdgesOf
  <2>4. EdgesOf(SetWeight(s, k, w)) = Abstract!Without(EdgesOf(s), {k})
    BY <2>2, <2>3 DEF Restrict, Abstract!Restrict, Abstract!Without
  <2>5. /\ StoreOK(SetWeight(s, k, w), t)
        /\ DOMAIN SetWeight(s, k, w).weights = DOMAIN s.weights \ {k}
        /\ DOMAIN SetWeight(s, k, w).ticks = DOMAIN s.ticks \ {k}
    <3>1. StoreOK(Drop(s, {k}), t)
      BY DropCorrect
    <3>2. /\ DOMAIN Drop(s, {k}).weights = DOMAIN s.weights \ {k}
          /\ DOMAIN Drop(s, {k}).ticks = DOMAIN s.ticks \ {k}
      BY DEF Drop, Without, Restrict
    <3> QED
      BY <2>1, <3>1, <3>2
  <2>6. ~(w > 0)
    BY <1>2
  <2> QED
    BY <2>4, <2>5, <2>6 DEF Owned
<1>3. CASE w > 0
  <2> DEFINE r == SetWeight(s, k, w)
  <2>1. r = [weights |-> Put(s.weights, {k}, w), ticks |-> s.ticks]
    BY <1>1, <1>3 DEF SetWeight
  <2>2. /\ DOMAIN r.weights = DOMAIN s.weights \cup {k}
        /\ r.weights[k] = w
        /\ \A o \in DOMAIN s.weights \ {k} : r.weights[o] = s.weights[o]
        /\ r.ticks = s.ticks
    BY <2>1 DEF Put
  <2>3. r.weights = [o \in DOMAIN r.weights |-> r.weights[o]]
    BY <2>1 DEF Put
  <2> HIDE DEF r
  <2>4. StoreOK(r, t)
    <3>1. \A o \in DOMAIN r.weights : r.weights[o] \in Weight \ {0}
      BY <1>3, <2>2 DEF StoreOK
    <3>2. r.weights \in [DOMAIN r.weights -> Weight \ {0}]
      BY <2>3, <3>1
    <3> QED
      BY <2>1, <2>2, <3>2 DEF StoreOK
  <2>5. EdgesOf(r) = Abstract!Put(EdgesOf(s), {k}, [w |-> w, last |-> LastActive(s, k)])
    BY <2>2 DEF EdgesOf, Abstract!Put, LastActive
  <2> QED
    BY <1>3, <2>2, <2>4, <2>5 DEF r, Owned
<1> QED
  BY <1>1, <1>2, <1>3

LEMMA TouchCorrect ==
  ASSUME NEW n \in Nat, NEW t \in Nat, n <= t, NEW s, StoreOK(s, n), NEW k \in Key
  PROVE  /\ StoreOK(Touch(s, {k}, t), t)
         /\ EdgesOf(Touch(s, {k}, t))
              = IF k \in DOMAIN EdgesOf(s) THEN [EdgesOf(s) EXCEPT ![k].last = t]
                ELSE EdgesOf(s)
         /\ Owned(s) /\ k \in ClientTouches => Owned(Touch(s, {k}, t))
<1> DEFINE r == Touch(s, {k}, t)
<1>1. r = [weights |-> s.weights, ticks |-> Put(s.ticks, {k}, t)]
  BY DEF Touch
<1>2. StoreOK(r, t)
  <2>1. r.ticks = [o \in DOMAIN s.ticks \cup {k} |-> IF o \in {k} THEN t ELSE s.ticks[o]]
    BY <1>1 DEF Put
  <2>2. t \in 0 .. t /\ \A o \in DOMAIN s.ticks : s.ticks[o] \in 0 .. t
    BY DEF StoreOK
  <2>3. r.ticks \in [DOMAIN s.ticks \cup {k} -> 0 .. t]
    <3> HIDE DEF r
    <3>1. \A o \in DOMAIN s.ticks \cup {k} :
            (IF o \in {k} THEN t ELSE s.ticks[o]) \in 0 .. t
      BY <2>2
    <3> QED
      BY <2>1, <3>1
  <2>4. r.weights = s.weights /\ r = [weights |-> r.weights, ticks |-> r.ticks]
    BY <1>1
  <2> HIDE DEF r
  <2> QED
    BY <2>3, <2>4 DEF StoreOK
<1>3. LastActive(r, k) = t /\ \A o : o # k => LastActive(r, o) = LastActive(s, o)
  BY <1>1 DEF LastActive, Lookup, Put
<1> HIDE DEF r
<1>4. EdgesOf(r) = IF k \in DOMAIN EdgesOf(s) THEN [EdgesOf(s) EXCEPT ![k].last = t]
                   ELSE EdgesOf(s)
  BY <1>1, <1>3 DEF EdgesOf
<1>5. Owned(s) /\ k \in ClientTouches => Owned(r)
  BY <1>1 DEF Owned, Put
<1> QED
  BY <1>2, <1>4, <1>5 DEF r

(***************************************************************************)
(* The maps hold weights and ticks of canonical keys, in every state any   *)
(* caller can reach.                                                       *)
(***************************************************************************)
LEMMA TypeOKStore == TypeOK <=> StoreOK(store, now) /\ now \in Time
BY DEF TypeOK, StoreOK

THEOREM HashTypeCorrect == Spec => []TypeOK
<1> USE HashAssumption
<1>1. Init => TypeOK
  BY DEF Init, TypeOK, New, EmptyMap, Time
<1>2. TypeOK /\ [Next]_vars => TypeOK'
  <2> SUFFICES ASSUME TypeOK, [Next]_vars PROVE TypeOK'
    OBVIOUS
  <2>1. StoreOK(store, now) /\ now \in Time /\ now \in Nat
    BY TypeOKStore DEF Time
  <2>2. ASSUME NEW act \in Activation, NEW t \in Time, NEW mode \in DecayMode,
               Cycle(act, t, mode)
        PROVE  StoreOK(store', now') /\ now' \in Time
    <3>1. t \in Nat /\ now <= t /\ store' = TickStore(store, act, t, mode) /\ now' = t
      BY <2>1, <2>2 DEF Cycle, Time
    <3> QED
      BY <2>1, <3>1, TickCorrect
  <2>3. ASSUME NEW k \in Key, NEW w \in Weight, SetEdge(k, w)
        PROVE  StoreOK(store', now') /\ now' \in Time
    BY <2>1, <2>3, SetWeightCorrect DEF SetEdge
  <2>4. ASSUME NEW k \in ClientTouches, NEW t \in Time, TouchEdge(k, t)
        PROVE  StoreOK(store', now') /\ now' \in Time
    <3>1. t \in Nat /\ now <= t /\ store' = Touch(store, {k}, t) /\ now' = t
      BY <2>1, <2>4 DEF TouchEdge, Time
    <3>2. k \in Key
      BY HashAssumption
    <3> QED
      BY <2>1, <3>1, <3>2, TouchCorrect
  <2>5. ASSUME NEW f \in IndexMaps, Compact(f)
        PROVE  StoreOK(store', now') /\ now' \in Time
    BY <2>1, <2>5, ReindexCorrect DEF Compact
  <2>6. ASSUME UNCHANGED vars
        PROVE  StoreOK(store', now') /\ now' \in Time
    <3>1. store' = store /\ now' = now
      BY <2>6 DEF vars
    <3> QED
      BY <2>1, <3>1
  <2>7. StoreOK(store', now') /\ now' \in Time
    BY <2>2, <2>3, <2>4, <2>5, <2>6 DEF Next
  <2> QED
    BY <2>7 DEF TypeOK, StoreOK
<1> QED
  BY <1>1, <1>2, PTL DEF Spec

(***************************************************************************)
(* No tick outlives its edge, the pairs the caller touches itself apart: a *)
(* cycle touches only pairs that it gives a weight, and every removal      *)
(* drops both entries.                                                     *)
(***************************************************************************)
THEOREM HashNoOrphanTicks == Spec => []NoOrphanTicks
<1> USE HashAssumption
<1>1. Init => NoOrphanTicks
  BY DEF Init, NoOrphanTicks, New, EmptyMap
<1>2. TypeOK /\ NoOrphanTicks /\ [Next]_vars => NoOrphanTicks'
  <2> SUFFICES ASSUME TypeOK, Owned(store), [Next]_vars PROVE Owned(store')
    BY DEF NoOrphanTicks, Owned
  <2>1. StoreOK(store, now) /\ now \in Time /\ now \in Nat
    BY TypeOKStore DEF Time
  <2>2. ASSUME NEW act \in Activation, NEW t \in Time, NEW mode \in DecayMode,
               Cycle(act, t, mode)
        PROVE  Owned(store')
    <3>1. t \in Nat /\ now <= t /\ store' = TickStore(store, act, t, mode)
      BY <2>1, <2>2 DEF Cycle, Time
    <3> QED
      BY <2>1, <3>1, TickCorrect
  <2>3. ASSUME NEW k \in Key, NEW w \in Weight, SetEdge(k, w)
        PROVE  Owned(store')
    BY <2>1, <2>3, SetWeightCorrect DEF SetEdge
  <2>4. ASSUME NEW k \in ClientTouches, NEW t \in Time, TouchEdge(k, t)
        PROVE  Owned(store')
    <3>1. k \in Key /\ t \in Nat /\ now <= t /\ store' = Touch(store, {k}, t)
      BY <2>1, <2>4 DEF TouchEdge, Time
    <3> QED
      BY <2>1, <3>1, TouchCorrect
  <2>5. ASSUME NEW f \in IndexMaps, Compact(f)
        PROVE  Owned(store')
    BY <2>1, <2>5, ReindexCorrect DEF Compact
  <2>6. CASE UNCHANGED vars
    BY <2>6 DEF vars
  <2> QED
    BY <2>2, <2>3, <2>4, <2>5, <2>6 DEF Next
<1> QED
  BY <1>1, <1>2, HashTypeCorrect, PTL DEF Spec

(***************************************************************************)
(* The HashMap backend implements the abstract edge store: every step of   *)
(* every caller maps to the abstract operation on the live edges.          *)
(***************************************************************************)
THEOREM HashImplements == Spec => Implements
<1> USE HashAssumption
<1>1. Init => Abstract!Init
  BY DEF Init, New, EmptyMap, EdgesOf, Abstract!Init, Abstract!NoEdges
<1>2. TypeOK /\ [Next]_vars => [Abstract!Next]_(Abstract!vars)
  <2> SUFFICES ASSUME TypeOK, [Next]_vars PROVE [Abstract!Next]_(Abstract!vars)
    OBVIOUS
  <2>1. StoreOK(store, now) /\ now \in Time /\ now \in Nat
    BY TypeOKStore DEF Time
  <2>2. EdgesOf(store)' = EdgesOf(store')
    BY DEF EdgesOf, LastActive, Lookup
  <2>3. ASSUME NEW act \in Activation, NEW t \in Time, NEW mode \in DecayMode,
               Cycle(act, t, mode)
        PROVE  Abstract!Next
    <3>1. t \in Nat /\ now <= t /\ store' = TickStore(store, act, t, mode) /\ now' = t
      BY <2>1, <2>3 DEF Cycle, Time
    <3>2. EdgesOf(store') = Abstract!TickEdges(EdgesOf(store), act, t, mode)
      BY <2>1, <3>1, TickCorrect
    <3>3. Abstract!Tick(act, t, mode)
      BY <2>3, <2>2, <3>1, <3>2 DEF Cycle, Abstract!Tick
    <3> QED
      BY <3>3, SameVocabulary DEF Abstract!Next
  <2>4. ASSUME NEW k \in Key, NEW w \in Weight, SetEdge(k, w)
        PROVE  Abstract!Next
    <3>1. CASE w = 0
      <4>1. EdgesOf(store)' = Abstract!Without(EdgesOf(store), {k})
        BY <2>1, <2>4, <3>1, <2>2, SetWeightCorrect DEF SetEdge
      <4> QED
        BY <2>4, <3>1, <4>1, SameVocabulary DEF Abstract!Next, Abstract!SetWeight, SetEdge
    <3>2. CASE w > 0
      <4>1. EdgesOf(store)'
              = Abstract!Put(EdgesOf(store), {k}, [w |-> w, last |-> LastActive(store, k)])
        BY <2>1, <2>4, <3>2, <2>2, SetWeightCorrect DEF SetEdge
      <4>2. LastActive(store, k) \in 0 .. now
        BY <2>1 DEF StoreOK, LastActive, Lookup
      <4>3. k \in DOMAIN EdgesOf(store) => EdgesOf(store)[k].last = LastActive(store, k)
        BY DEF EdgesOf
      <4>4. Abstract!SetWeight(k, w)
        BY <2>4, <3>2, <4>1, <4>2, <4>3 DEF Abstract!SetWeight, SetEdge
      <4> QED
        BY <4>4, SameVocabulary DEF Abstract!Next
    <3> QED
      BY <3>1, <3>2 DEF Weight
  <2>5. ASSUME NEW k \in ClientTouches, NEW t \in Time, TouchEdge(k, t)
        PROVE  Abstract!Next
    <3>1. EdgesOf(store)' = IF k \in DOMAIN EdgesOf(store)
                            THEN [EdgesOf(store) EXCEPT ![k].last = t]
                            ELSE EdgesOf(store)
      <4>1. k \in Key /\ t \in Nat /\ now <= t /\ store' = Touch(store, {k}, t)
        BY <2>1, <2>5 DEF TouchEdge, Time
      <4> QED
        BY <2>1, <2>2, <4>1, TouchCorrect
    <3>2. Abstract!Touch(k, t)
      BY <2>5, <3>1 DEF Abstract!Touch, TouchEdge
    <3> QED
      BY <3>2, HashAssumption, SameVocabulary DEF Abstract!Next
  <2>6. ASSUME NEW f \in IndexMaps, Compact(f)
        PROVE  Abstract!Next
    <3>1. EdgesOf(store)' = Abstract!Rekey(f, EdgesOf(store))
      BY <2>1, <2>6, <2>2, ReindexCorrect DEF Compact
    <3>2. Abstract!ReindexForCompact(f)
      BY <2>6, <3>1 DEF Compact, Abstract!ReindexForCompact
    <3> QED
      BY <3>2, SameVocabulary DEF Abstract!Next
  <2>7. CASE UNCHANGED vars
    BY <2>7 DEF vars, Abstract!vars, EdgesOf, LastActive
  <2> QED
    BY <2>3, <2>4, <2>5, <2>6, <2>7 DEF Next
<1> QED
  BY <1>1, <1>2, HashTypeCorrect, PTL DEF Spec, Implements, Abstract!Spec

(***************************************************************************)
(* The step on which Forgotten rests: a cycle that does not link a pair    *)
(* neither creates its edge, nor adds to its weight, nor refreshes its     *)
(* tick, and leaves it only if it is heavy enough and was active lately.   *)
(***************************************************************************)
UnusedFades ==
  [][\A k \in Key :
       Unused(k) /\ k \in DOMAIN store'.weights =>
         /\ k \in DOMAIN store.weights
         /\ MinWeight <= store'.weights[k] /\ store'.weights[k] <= store.weights[k]
         /\ LastActive(store', k) = LastActive(store, k)
         /\ Elapsed(now', LastActive(store, k)) <= P1]_vars

LEMMA UnusedByCycle ==
  ASSUME TypeOK, NEW k \in Key, k \in DOMAIN store'.weights,
         NEW act \in Activation, NEW t \in Time, NEW mode \in DecayMode,
         k \notin Pairs(act), Cycle(act, t, mode)
  PROVE  /\ k \in DOMAIN store.weights
         /\ MinWeight <= store'.weights[k] /\ store'.weights[k] <= store.weights[k]
         /\ LastActive(store', k) = LastActive(store, k)
         /\ Elapsed(now', LastActive(store, k)) <= P1
<1> DEFINE e == EdgesOf(store)
           d == IF mode = "Skip" THEN e ELSE Abstract!Decay(e)
           r == Abstract!Strengthen(d, act, t)
<1>1. StoreOK(store, now) /\ now \in Nat /\ t \in Nat /\ now <= t
  BY HashAssumption, TypeOKStore DEF Time, Cycle
<1>2. EdgesOf(store') = Abstract!Prune(r, t) /\ now' = t
  <2>1. store' = TickStore(store, act, t, mode) /\ now' = t
    BY DEF Cycle
  <2>2. EdgesOf(store') = Abstract!TickEdges(e, act, t, mode)
    BY <1>1, <2>1, TickCorrect
  <2> QED
    BY <2>1, <2>2 DEF Abstract!TickEdges
<1>3. /\ DOMAIN d = DOMAIN e
      /\ \A j \in DOMAIN e : d[j].last = e[j].last /\ d[j].w <= e[j].w
  <2>1. \A j \in DOMAIN e : e[j].w \in Weight
    BY <1>1 DEF StoreOK, EdgesOf
  <2>2. \A w \in Weight : w <= w /\ Decayed[w] <= w
    BY ConfigAssumption DEF Weight
  <2> HIDE DEF e
  <2>3. CASE mode = "Skip"
    BY <2>1, <2>2, <2>3
  <2>4. CASE mode # "Skip"
    BY <2>1, <2>2, <2>4 DEF Abstract!Decay
  <2> QED
    BY <2>3, <2>4
<1> HIDE DEF d
<1>4. k \in DOMAIN r => k \in DOMAIN d /\ r[k] = d[k]
  BY SameVocabulary DEF Abstract!Strengthen
<1> HIDE DEF r
<1>5. /\ k \in DOMAIN EdgesOf(store')
      /\ EdgesOf(store')[k].w = store'.weights[k]
      /\ EdgesOf(store')[k].last = LastActive(store', k)
  BY DEF EdgesOf
<1>6. k \in DOMAIN r /\ Abstract!Survives(r[k], t) /\ EdgesOf(store')[k] = r[k]
  BY <1>2, <1>5 DEF Abstract!Prune, Abstract!Restrict
<1>7. MinWeight <= r[k].w /\ Elapsed(t, r[k].last) <= P1
  <2>1. r[k].w >= MinWeight /\ Elapsed(t, r[k].last) <= P1
    BY <1>6, SameVocabulary DEF Abstract!Survives
  <2> QED
    BY <2>1
<1>8. k \in DOMAIN e /\ e[k].w = store.weights[k] /\ e[k].last = LastActive(store, k)
      /\ k \in DOMAIN store.weights
  BY <1>3, <1>4, <1>6 DEF EdgesOf
<1> HIDE DEF e
<1> QED
  BY <1>2, <1>3, <1>4, <1>5, <1>6, <1>7, <1>8

THEOREM HashUnusedFades == Spec => UnusedFades
<1> DEFINE Fades ==
      \A k \in Key :
        Unused(k) /\ k \in DOMAIN store'.weights =>
          /\ k \in DOMAIN store.weights
          /\ MinWeight <= store'.weights[k] /\ store'.weights[k] <= store.weights[k]
          /\ LastActive(store', k) = LastActive(store, k)
          /\ Elapsed(now', LastActive(store, k)) <= P1
<1>1. TypeOK /\ [Next]_vars => [Fades]_vars
  <2> SUFFICES ASSUME TypeOK, NEW k \in Key, Unused(k), k \in DOMAIN store'.weights
               PROVE  /\ k \in DOMAIN store.weights
                      /\ MinWeight <= store'.weights[k] /\ store'.weights[k] <= store.weights[k]
                      /\ LastActive(store', k) = LastActive(store, k)
                      /\ Elapsed(now', LastActive(store, k)) <= P1
    OBVIOUS
  <2>1. PICK act \in Activation, t \in Time, mode \in DecayMode :
          k \notin Pairs(act) /\ Cycle(act, t, mode)
    BY DEF Unused
  <2> QED
    BY <2>1, UnusedByCycle
<1> QED
  BY <1>1, HashTypeCorrect, PTL DEF Spec, UnusedFades
=============================================================================
