------------------------- MODULE GestaltGraphProofs -------------------------
(***************************************************************************)
(* The three maps of the cross store stay in step, for any number of       *)
(* kernels and labels and any configuration: the reverse index is the      *)
(* inverse of the weights, no tick outlives its edge, edges join kernels   *)
(* of one label, and a compaction takes them along with their kernels.     *)
(* Together the maps implement the edges of CrossEdges.                    *)
(***************************************************************************)
EXTENDS GestaltRecall, FiniteProofs

InStep(s) ==
  /\ s = [weights |-> s.weights, ticks |-> s.ticks, reverse |-> s.reverse]
  /\ DOMAIN s.ticks \subseteq DOMAIN s.weights
  /\ s.reverse = [k \in DOMAIN s.weights |-> 1]

(***************************************************************************)
(* Finite maps.                                                            *)
(***************************************************************************)
LEMMA WithoutOnes ==
  ASSUME NEW D, NEW K
  PROVE  Without([k \in D |-> 1], K) = [k \in D \ K |-> 1]
BY DEF Without, Restrict

LEMMA WithoutDomain ==
  ASSUME NEW m, NEW K
  PROVE  DOMAIN Without(m, K) = DOMAIN m \ K
BY DEF Without, Restrict

LEMMA PutDomain ==
  ASSUME NEW m, NEW K, NEW v
  PROVE  DOMAIN Put(m, K, v) = DOMAIN m \cup K
BY DEF Put

\* Listing sources that are not listed yet lists each of them once.
LEMMA ListedNew ==
  ASSUME NEW D, NEW K, D \cap K = {}
  PROVE  Listed([k \in D |-> 1], K) = [k \in D \cup K |-> 1]
<1>1. \A k \in D \cup K : Lookup([d \in D |-> 1], k) + (IF k \in K THEN 1 ELSE 0) = 1
  BY DEF Lookup
<1> QED
  BY <1>1 DEF Listed

(***************************************************************************)
(* One lemma for each method.                                              *)
(***************************************************************************)
LEMMA NewInStep == InStep(NewStore)
BY DEF InStep, NewStore, EmptyMap

LEMMA RemoveInStep ==
  ASSUME NEW s, InStep(s), NEW K
  PROVE  InStep(Remove(s, K))
<1> DEFINE r == Remove(s, K)
<1>1. /\ r.weights = Without(s.weights, K)
      /\ r.ticks = Without(s.ticks, K)
      /\ r.reverse = Without(s.reverse, K)
      /\ r = [weights |-> r.weights, ticks |-> r.ticks, reverse |-> r.reverse]
  BY DEF Remove
<1> HIDE DEF r
<1>2. DOMAIN r.weights = DOMAIN s.weights \ K /\ DOMAIN r.ticks = DOMAIN s.ticks \ K
  BY <1>1, WithoutDomain
<1>3. DOMAIN r.ticks \subseteq DOMAIN r.weights
  BY <1>2 DEF InStep
<1>4. r.reverse = [k \in DOMAIN s.weights \ K |-> 1]
  <2>1. s.reverse = [k \in DOMAIN s.weights |-> 1]
    BY DEF InStep
  <2> QED
    BY <1>1, <2>1, WithoutOnes
<1>5. InStep(r)
  BY <1>1, <1>2, <1>3, <1>4 DEF InStep
<1> QED
  BY <1>5 DEF r

LEMMA SetInStep ==
  ASSUME NEW s, InStep(s), NEW k, NEW w
  PROVE  InStep(Set(s, k, w))
<1>1. CASE w = 0 /\ k \in DOMAIN s.weights
  <2>1. Set(s, k, w) = Remove(s, {k})
    BY <1>1 DEF Set, Remove
  <2> QED
    BY <2>1, RemoveInStep
<1>2. CASE w = 0 /\ k \notin DOMAIN s.weights
  <2> DEFINE r == Set(s, k, w)
  <2>1. /\ r.weights = Without(s.weights, {k})
        /\ r.ticks = Without(s.ticks, {k})
        /\ r.reverse = s.reverse
        /\ r = [weights |-> r.weights, ticks |-> r.ticks, reverse |-> r.reverse]
    BY <1>2 DEF Set
  <2> HIDE DEF r
  <2>2. DOMAIN r.weights = DOMAIN s.weights \ {k} /\ DOMAIN r.ticks = DOMAIN s.ticks \ {k}
    BY <2>1, WithoutDomain
  <2>3. DOMAIN r.weights = DOMAIN s.weights
    BY <1>2, <2>2
  <2>4. DOMAIN r.ticks \subseteq DOMAIN r.weights
    BY <2>2, <2>3 DEF InStep
  <2>5. InStep(r)
    BY <2>1, <2>3, <2>4 DEF InStep
  <2> QED
    BY <2>5 DEF r
<1>3. CASE w # 0
  <2> DEFINE r == Set(s, k, w)
  <2>1. /\ r.weights = Put(s.weights, {k}, w)
        /\ r.ticks = s.ticks
        /\ r.reverse = IF k \in DOMAIN s.weights THEN s.reverse ELSE Listed(s.reverse, {k})
        /\ r = [weights |-> r.weights, ticks |-> r.ticks, reverse |-> r.reverse]
    BY <1>3 DEF Set, InStep
  <2> HIDE DEF r
  <2>2. DOMAIN r.weights = DOMAIN s.weights \cup {k}
    <3>1. DOMAIN Put(s.weights, {k}, w) = DOMAIN s.weights \cup {k}
      BY PutDomain
    <3>2. r.weights = Put(s.weights, {k}, w)
      BY <2>1
    <3> QED
      BY <3>1, <3>2
  <2>3. r.reverse = [d \in DOMAIN r.weights |-> 1]
    <3>1. CASE k \in DOMAIN s.weights
      <4>1. DOMAIN r.weights = DOMAIN s.weights
        BY <2>2, <3>1
      <4> QED
        BY <2>1, <3>1, <4>1 DEF InStep
    <3>2. CASE k \notin DOMAIN s.weights
      <4> DEFINE D == DOMAIN s.weights
      <4>1. s.reverse = [d \in D |-> 1] /\ D \cap {k} = {}
        BY <3>2 DEF InStep
      <4> HIDE DEF D
      <4>2. Listed([d \in D |-> 1], {k}) = [d \in D \cup {k} |-> 1]
        BY <4>1, ListedNew
      <4>3. r.reverse = Listed(s.reverse, {k})
        BY <2>1, <3>2
      <4> QED
        BY <2>2, <4>1, <4>2, <4>3 DEF D
    <3> QED
      BY <3>1, <3>2
  <2>4. InStep(r)
    BY <2>1, <2>2, <2>3 DEF InStep
  <2> QED
    BY <2>4 DEF r
<1> QED
  BY <1>1, <1>2, <1>3

LEMMA TouchInStep ==
  ASSUME NEW s, InStep(s), NEW K, NEW t
  PROVE  InStep(Touch(s, K, t))
<1> DEFINE r == Touch(s, K, t)
<1>1. /\ r.weights = s.weights
      /\ r.ticks = Put(s.ticks, K \cap DOMAIN s.weights, t)
      /\ r.reverse = s.reverse
      /\ r = [weights |-> r.weights, ticks |-> r.ticks, reverse |-> r.reverse]
  BY DEF Touch, InStep
<1> HIDE DEF r
<1>2. DOMAIN r.ticks = DOMAIN s.ticks \cup (K \cap DOMAIN s.weights)
  <2>1. DOMAIN Put(s.ticks, K \cap DOMAIN s.weights, t)
          = DOMAIN s.ticks \cup (K \cap DOMAIN s.weights)
    BY PutDomain
  <2> QED
    BY <1>1, <2>1
<1>3. DOMAIN r.ticks \subseteq DOMAIN r.weights
  BY <1>1, <1>2 DEF InStep
<1>4. InStep(r)
  BY <1>1, <1>3 DEF InStep
<1> QED
  BY <1>4 DEF r

LEMMA ApplyIncrementsInStep ==
  ASSUME NEW s, InStep(s), NEW K
  PROVE  InStep(ApplyIncrements(s, K))
<1> DEFINE r == ApplyIncrements(s, K)
<1>1. /\ DOMAIN r.weights = DOMAIN s.weights \cup K
      /\ r.ticks = s.ticks
      /\ r.reverse = Listed(s.reverse, K \ DOMAIN s.weights)
      /\ r = [weights |-> r.weights, ticks |-> r.ticks, reverse |-> r.reverse]
  <2> DEFINE W == [k \in DOMAIN s.weights \cup K |->
                     IF k \notin K THEN s.weights[k]
                     ELSE IF k \notin DOMAIN s.weights THEN WInit
                     ELSE IF s.weights[k] + Delta < WMax THEN s.weights[k] + Delta ELSE WMax]
  <2>1. r = [s EXCEPT !.weights = W, !.reverse = Listed(s.reverse, K \ DOMAIN s.weights)]
    BY Zenon DEF ApplyIncrements
  <2>2. DOMAIN W = DOMAIN s.weights \cup K
    OBVIOUS
  <2> HIDE DEF W, r
  <2> QED
    BY <2>1, <2>2 DEF InStep
<1>2. DOMAIN s.weights \cap (K \ DOMAIN s.weights) = {}
  OBVIOUS
<1>3. r.reverse = [k \in DOMAIN s.weights \cup (K \ DOMAIN s.weights) |-> 1]
  BY <1>1, <1>2, ListedNew DEF InStep
<1>4. DOMAIN s.weights \cup (K \ DOMAIN s.weights) = DOMAIN r.weights
  BY <1>1
<1> QED
  BY <1>1, <1>3, <1>4 DEF InStep

LEMMA ScaleAllInStep ==
  ASSUME NEW s, InStep(s)
  PROVE  InStep(ScaleAll(s))
<1> DEFINE r == ScaleAll(s)
<1>1. /\ DOMAIN r.weights = DOMAIN s.weights
      /\ r.ticks = s.ticks /\ r.reverse = s.reverse
      /\ r = [weights |-> r.weights, ticks |-> r.ticks, reverse |-> r.reverse]
  BY DEF ScaleAll, InStep
<1> QED
  BY <1>1 DEF InStep

\* The lists are rebuilt from the renamed weights, into which every renamed
\* tick falls because every tick had a weight.
LEMMA ReindexInStep ==
  ASSUME NEW s, InStep(s), NEW f1, NEW f2
  PROVE  InStep(Reindex(s, f1, f2))
<1> DEFINE r == Reindex(s, f1, f2)
<1>1. /\ r.weights = Renumber(f1, f2, s.weights)
      /\ r.ticks = Renumber(f1, f2, s.ticks)
      /\ r.reverse = Listed(EmptyMap, DOMAIN Renumber(f1, f2, s.weights))
      /\ r = [weights |-> r.weights, ticks |-> r.ticks, reverse |-> r.reverse]
  BY DEF Reindex
<1>2. DOMAIN r.ticks \subseteq DOMAIN r.weights
  <2>1. Staying(f1, f2, DOMAIN s.ticks) \subseteq Staying(f1, f2, DOMAIN s.weights)
    BY DEF Staying, InStep
  <2> QED
    BY <1>1, <2>1 DEF Renumber
<1>3. EmptyMap = [k \in {} |-> 1]
  BY DEF EmptyMap
<1>4. r.reverse = [k \in {} \cup DOMAIN r.weights |-> 1]
  <2> DEFINE K == DOMAIN r.weights
  <2>1. r.reverse = Listed(EmptyMap, K)
    BY <1>1
  <2>2. {} \cap K = {}
    OBVIOUS
  <2> HIDE DEF r, K
  <2>3. r.reverse = [k \in {} \cup K |-> 1]
    BY <1>3, <2>1, <2>2, ListedNew
  <2> QED
    BY <2>3 DEF K
<1> QED
  BY <1>1, <1>2, <1>4 DEF InStep

LEMMA CrossTickInStep ==
  ASSUME NEW s, InStep(s), NEW K, NEW t
  PROVE  InStep(CrossTick(s, K, t))
<1>1. InStep(ScaleAll(Strengthen(s, K, t)))
  BY ApplyIncrementsInStep, TouchInStep, ScaleAllInStep DEF Strengthen
<1> QED
  BY <1>1, RemoveInStep DEF CrossTick, PruneBelow, PruneInactive

-----------------------------------------------------------------------------
LEMMA CrossInStep == Spec => []InStep(cross)
<1>1. Init => InStep(cross)
  BY NewInStep DEF Init
<1>2. InStep(cross) /\ [Next]_vars => InStep(cross)'
  <2> SUFFICES ASSUME InStep(cross), [Next]_vars PROVE InStep(cross')
    BY DEF InStep
  <2>1. ASSUME NEW c, NEW t, NEW grew1, NEW grew2, NEW best1, NEW best2,
               Tick(c, t, grew1, best1, grew2, best2)
        PROVE  InStep(cross')
    BY <2>1, CrossTickInStep DEF Tick
  <2>2. ASSUME NEW kept1, NEW kept2, Compact(kept1, kept2)
        PROVE  InStep(cross')
    BY <2>2, ReindexInStep DEF Compact
  <2>3. ASSUME NEW kept, CompactModal1(kept) \/ CompactModal2(kept)
        PROVE  InStep(cross')
    BY <2>3, ReindexInStep DEF CompactModal1, CompactModal2
  <2>7. CASE Extinguish
    BY <2>7 DEF Extinguish
  <2>4. ASSUME NEW k, NEW w, SetCross(k, w)
        PROVE  InStep(cross')
    BY <2>4, SetInStep DEF SetCross
  <2>5. ASSUME NEW k, TouchCross(k)
        PROVE  InStep(cross')
    BY <2>5, TouchInStep DEF TouchCross
  <2>6. CASE UNCHANGED vars
    BY <2>6 DEF vars
  <2> QED
    BY <2>1, <2>2, <2>3, <2>4, <2>5, <2>6, <2>7 DEF Next
<1> QED
  BY <1>1, <1>2, PTL DEF Spec

(***************************************************************************)
(* Recall backwards sees exactly the edges that there are.                 *)
(***************************************************************************)
THEOREM GestaltReverseIsInverse == Spec => []ReverseIsInverse
<1>1. InStep(cross) => ReverseIsInverse
  BY DEF InStep, ReverseIsInverse
<1> QED
  BY <1>1, CrossInStep, PTL

(***************************************************************************)
(* No cross edge is born with the activity of an earlier one.              *)
(***************************************************************************)
THEOREM GestaltTicksHaveEdges == Spec => []TicksHaveEdges
<1>1. InStep(cross) => TicksHaveEdges
  BY DEF InStep, TicksHaveEdges
<1> QED
  BY <1>1, CrossInStep, PTL

(***************************************************************************)
(* The ends of the cross edges.  f takes kernels of us to kernels of new   *)
(* that keep their class: the identity for ticks and for a side that is    *)
(* left alone, old_to_new for a compaction.                                *)
(***************************************************************************)
Vector(us) == us \in Seq(V1!Unit)

Carries(f, us, new) ==
  /\ Vector(new)
  /\ \A i \in DOMAIN f \cap DOMAIN us :
       f[i] \in DOMAIN new /\ (us[i].class \in Class => new[f[i]].class = us[i].class)

Joins(K, us1, us2) ==
  \A k \in K :
    /\ k[1] \in DOMAIN us1 /\ us1[k[1]].class \in Class
    /\ k[2] \in DOMAIN us2 /\ us2[k[2]].class \in Class
    /\ RequireClassMatch => us1[k[1]].class = us2[k[2]].class

LEMMA UnitShape ==
  ASSUME NEW us, Vector(us), NEW i \in DOMAIN us
  PROVE  us[i] \in V1!Unit /\ us[i].class \in Class \cup {NoClass}
<1>1. us[i] \in V1!Unit
  BY DEF Vector
<1> QED
  BY <1>1 DEF V1!Unit

LEMMA IdentityCarries ==
  ASSUME NEW us, Vector(us)
  PROVE  Carries(Identity(us), us, us)
BY DEF Carries, Identity

\* A tick appends at most one kernel and takes no label away.
LEMMA GrowthCarries ==
  ASSUME NEW us, Vector(us), NEW grown, Vector(grown), NEW new,
         DOMAIN us \subseteq DOMAIN grown, \A i \in DOMAIN us : grown[i] = us[i],
         new \in [DOMAIN grown -> V1!Unit],
         \A i \in DOMAIN grown : grown[i].class # NoClass => new[i].class = grown[i].class
  PROVE  Carries(Identity(us), us, new)
<1>1. Vector(new)
  BY DEF Vector
<1>2. NoClass \notin Class
  BY GestaltAssumption
<1> QED
  BY <1>1, <1>2 DEF Carries, Identity

LEMMA GrownShape ==
  ASSUME NEW us, Vector(us), NEW c \in Class \cup {NoClass}
  PROVE  LET new == Append(us, [class |-> c, extinct |-> FALSE])
         IN  /\ Vector(new) /\ Vector(us)
             /\ DOMAIN us \subseteq DOMAIN new /\ \A i \in DOMAIN us : new[i] = us[i]
<1> DEFINE u == [class |-> c, extinct |-> FALSE]
<1>1. u \in V1!Unit
  BY DEF V1!Unit
<1> HIDE DEF u
<1>2. /\ Append(us, u) \in Seq(V1!Unit)
      /\ DOMAIN us \subseteq DOMAIN Append(us, u)
      /\ \A i \in DOMAIN us : Append(us, u)[i] = us[i]
  BY <1>1 DEF Vector
<1> QED
  BY <1>2 DEF Vector, u

LEMMA Tick1Carries ==
  ASSUME Vector(units1), NEW c \in Class \cup {NoClass}, NEW grew, NEW best,
         V1!Tick(c, grew, best)
  PROVE  Carries(Identity(units1), units1, units1')
<1> DEFINE us == V1!Grown(c, grew)
<1>1. /\ Vector(us) /\ DOMAIN units1 \subseteq DOMAIN us
      /\ \A i \in DOMAIN units1 : us[i] = units1[i]
  BY GrownShape DEF V1!Grown
<1>2. /\ units1' \in [DOMAIN us -> V1!Unit]
      /\ \A i \in DOMAIN us : units1'[i] \in V1!Later(us[i])
  BY DEF V1!Tick
<1> HIDE DEF us
<1>3. \A i \in DOMAIN us : us[i].class # NoClass => units1'[i].class = us[i].class
  BY <1>2 DEF V1!Later
<1> QED
  BY <1>1, <1>2, <1>3, GrowthCarries

LEMMA Tick2Carries ==
  ASSUME Vector(units2), NEW c \in Class \cup {NoClass}, NEW grew, NEW best,
         V2!Tick(c, grew, best)
  PROVE  Carries(Identity(units2), units2, units2')
<1> DEFINE us == V2!Grown(c, grew)
<1>1. /\ Vector(us) /\ DOMAIN units2 \subseteq DOMAIN us
      /\ \A i \in DOMAIN units2 : us[i] = units2[i]
  BY GrownShape DEF V2!Grown
<1>2. /\ units2' \in [DOMAIN us -> V1!Unit]
      /\ \A i \in DOMAIN us : units2'[i] \in V2!Later(us[i])
  BY DEF V2!Tick, V2!Unit, V1!Unit
<1> HIDE DEF us
<1>3. \A i \in DOMAIN us : us[i].class # NoClass => units2'[i].class = us[i].class
  BY <1>2 DEF V2!Later
<1> QED
  BY <1>1, <1>2, <1>3, GrowthCarries

LEMMA CompactionCarries ==
  ASSUME NEW us, Vector(us), NEW kept \in Enumerations(V1!Living(us), Len(us))
  PROVE  Carries(OldToNew(kept), us, Picked(us, kept))
<1> DEFINE new == Picked(us, kept)
           f == OldToNew(kept)
<1>1. PICK m \in 0 .. Len(us) : kept \in [1 .. m -> V1!Living(us)]
  BY DEF Enumerations
<1>2. m \in Nat
  BY <1>1 DEF Vector
<1>3. \A n \in 1 .. m : kept[n] \in DOMAIN us /\ us[kept[n]] \in V1!Unit
  BY <1>1 DEF Vector, V1!Living
<1>4. new = [n \in 1 .. m |-> us[kept[n]]]
  BY <1>1 DEF Picked
<1>5. Vector(new) /\ DOMAIN new = 1 .. m
  BY <1>2, <1>3, <1>4 DEF Vector
<1>6. f = [i \in Range(kept) |-> CHOOSE n \in 1 .. m : kept[n] = i]
  BY <1>1 DEF OldToNew
<1>7. ASSUME NEW i \in Range(kept)
      PROVE  f[i] \in 1 .. m /\ kept[f[i]] = i
  <2>1. \E n \in 1 .. m : kept[n] = i
    BY <1>1 DEF Range
  <2> HIDE DEF f
  <2> QED
    BY <1>6, <2>1
<1> HIDE DEF f, new
<1>8. \A i \in DOMAIN f : f[i] \in DOMAIN new /\ new[f[i]] = us[i]
  BY <1>4, <1>5, <1>6, <1>7
<1> QED
  BY <1>5, <1>8 DEF Carries, f, new

\* Renamed edges still join kernels that are alike.
LEMMA RenumberJoins ==
  ASSUME NEW m, NEW us1, NEW us2, NEW new1, NEW new2, NEW f1, NEW f2,
         Joins(DOMAIN m, us1, us2), Carries(f1, us1, new1), Carries(f2, us2, new2)
  PROVE  Joins(DOMAIN Renumber(f1, f2, m), new1, new2)
<1>1. DOMAIN Renumber(f1, f2, m) = {Renamed(f1, f2, o) : o \in Staying(f1, f2, DOMAIN m)}
  BY DEF Renumber
<1>2. ASSUME NEW o \in Staying(f1, f2, DOMAIN m)
      PROVE  Joins({Renamed(f1, f2, o)}, new1, new2)
  BY DEF Staying, Renamed, Joins, Carries
<1> QED
  BY <1>1, <1>2 DEF Joins

LEMMA RemoveEdges ==
  ASSUME NEW s, NEW K
  PROVE  DOMAIN Remove(s, K).weights \subseteq DOMAIN s.weights
<1>1. Remove(s, K).weights = Without(s.weights, K)
  BY DEF Remove
<1>2. DOMAIN Without(s.weights, K) = DOMAIN s.weights \ K
  BY WithoutDomain
<1> QED
  BY <1>1, <1>2

LEMMA TouchEdges ==
  ASSUME NEW s, InStep(s), NEW K, NEW t
  PROVE  Touch(s, K, t).weights = s.weights
BY DEF Touch, InStep

LEMMA SetEdges ==
  ASSUME NEW s, InStep(s), NEW k, NEW w
  PROVE  DOMAIN Set(s, k, w).weights \subseteq DOMAIN s.weights \cup {k}
<1>1. CASE w = 0
  <2>1. Set(s, k, w).weights = Without(s.weights, {k})
    BY <1>1 DEF Set
  <2>2. DOMAIN Without(s.weights, {k}) = DOMAIN s.weights \ {k}
    BY WithoutDomain
  <2> QED
    BY <2>1, <2>2
<1>2. CASE w # 0
  <2>1. Set(s, k, w).weights = Put(s.weights, {k}, w)
    BY <1>2 DEF Set, InStep
  <2>2. DOMAIN Put(s.weights, {k}, w) = DOMAIN s.weights \cup {k}
    BY PutDomain
  <2> QED
    BY <2>1, <2>2
<1> QED
  BY <1>1, <1>2

LEMMA CrossTickEdges ==
  ASSUME NEW s, InStep(s), NEW K, NEW t
  PROVE  DOMAIN CrossTick(s, K, t).weights \subseteq DOMAIN s.weights \cup K
<1> DEFINE r == ScaleAll(Strengthen(s, K, t))
           below == PruneBelow(r)
<1>1. DOMAIN r.weights = DOMAIN s.weights \cup K
  <2> DEFINE a == ApplyIncrements(s, K)
  <2>1. DOMAIN a.weights = DOMAIN s.weights \cup K /\ InStep(a)
    BY ApplyIncrementsInStep DEF ApplyIncrements, InStep
  <2> HIDE DEF a
  <2> DEFINE b == Touch(a, K, t)
  <2>2. b.weights = a.weights /\ InStep(b)
    BY <2>1, TouchInStep, TouchEdges
  <2> HIDE DEF b
  <2>3. DOMAIN ScaleAll(b).weights = DOMAIN b.weights
    BY <2>2 DEF ScaleAll, InStep
  <2> QED
    BY <2>1, <2>2, <2>3 DEF Strengthen, a, b
<1> HIDE DEF r
<1>2. DOMAIN below.weights \subseteq DOMAIN r.weights
  BY RemoveEdges DEF PruneBelow
<1> HIDE DEF below
<1>3. DOMAIN PruneInactive(below, t).weights \subseteq DOMAIN below.weights
  BY RemoveEdges DEF PruneInactive
<1> QED
  BY <1>1, <1>2, <1>3 DEF CrossTick, r, below

EndsOK == Vector(units1) /\ Vector(units2) /\ EdgesJoinKernels /\ InStep(cross)

LEMMA EndsJoined ==
  ASSUME Vector(units1), Vector(units2), InStep(cross)
  PROVE  EndsOK <=> Joins(DOMAIN cross.weights, units1, units2)
BY DEF EndsOK, EdgesJoinKernels, Joins, Alike

\* Kernels that keep their positions.
LEMMA StayingJoins ==
  ASSUME NEW K, NEW us1, NEW us2, NEW new1, NEW new2, Joins(K, us1, us2),
         Carries(Identity(us1), us1, new1), Carries(Identity(us2), us2, new2)
  PROVE  Joins(K, new1, new2)
BY DEF Joins, Carries, Identity

\* The pairs a tick strengthens are alike when it ends.
LEMMA PairingJoins ==
  ASSUME NEW us1, NEW us2, Vector(us1), Vector(us2),
         NEW A1 \in SUBSET DOMAIN us1, NEW A2 \in SUBSET DOMAIN us2
  PROVE  Joins(Pairing(A1, A2, Labels(us1), Labels(us2), NoClass), us1, us2)
<1>1. \A i \in DOMAIN us1 : us1[i].class \in Class \cup {NoClass}
  BY UnitShape
<1>2. \A i \in DOMAIN us2 : us2[i].class \in Class \cup {NoClass}
  BY UnitShape
<1>3. /\ \A i \in DOMAIN us1 : Labels(us1)[i] = us1[i].class
      /\ \A i \in DOMAIN us2 : Labels(us2)[i] = us2[i].class
  BY DEF Labels
<1> QED
  BY <1>1, <1>2, <1>3 DEF Joins, Pairing

LEMMA TickEnds ==
  ASSUME EndsOK, NEW c \in Class \cup {NoClass}, NEW t, NEW grew1, NEW best1,
         NEW grew2, NEW best2, Tick(c, t, grew1, best1, grew2, best2)
  PROVE  EndsOK'
<1>1. /\ Vector(units1) /\ Vector(units2) /\ InStep(cross)
      /\ Joins(DOMAIN cross.weights, units1, units2)
  BY EndsJoined DEF EndsOK
<1>2. Carries(Identity(units1), units1, units1') /\ Carries(Identity(units2), units2, units2')
  BY <1>1, Tick1Carries, Tick2Carries DEF Tick
<1>3. Vector(units1') /\ Vector(units2')
  BY <1>2 DEF Carries
<1>4. PICK A1 \in Activated(units1', best1), A2 \in Activated(units2', best2) :
        cross' = CrossTick(cross,
                           Pairing(A1, A2, Labels(units1'), Labels(units2'), NoClass), t)
  BY DEF Tick
<1> DEFINE K == Pairing(A1, A2, Labels(units1'), Labels(units2'), NoClass)
<1>5. Joins(K, units1', units2')
  <2>1. A1 \in SUBSET DOMAIN units1' /\ A2 \in SUBSET DOMAIN units2'
    BY <1>4 DEF Activated, V1!Living
  <2> QED
    BY <1>3, <2>1, PairingJoins
<1> HIDE DEF K
<1>6. Joins(DOMAIN cross.weights, units1', units2')
  BY <1>1, <1>2, StayingJoins
<1>7. DOMAIN cross'.weights \subseteq DOMAIN cross.weights \cup K /\ InStep(cross')
  BY <1>1, <1>4, CrossTickEdges, CrossTickInStep DEF K
<1>8. Joins(DOMAIN cross'.weights, units1', units2')
  BY <1>5, <1>6, <1>7 DEF Joins
<1> QED
  BY <1>3, <1>7, <1>8 DEF EndsOK, EdgesJoinKernels, Joins, Alike, Vector, InStep

\* The caller compacts one side or both.
LEMMA ReindexEnds ==
  ASSUME EndsOK, NEW f1, NEW f2,
         Carries(f1, units1, units1'), Carries(f2, units2, units2'),
         cross' = Reindex(cross, f1, f2)
  PROVE  EndsOK'
<1>1. InStep(cross) /\ Joins(DOMAIN cross.weights, units1, units2)
  BY EndsJoined DEF EndsOK
<1>2. InStep(cross') /\ cross'.weights = Renumber(f1, f2, cross.weights)
  BY <1>1, ReindexInStep DEF Reindex
<1>3. Joins(DOMAIN cross'.weights, units1', units2')
  BY <1>1, <1>2, RenumberJoins
<1>4. Vector(units1') /\ Vector(units2')
  BY DEF Carries
<1> QED
  BY <1>2, <1>3, <1>4 DEF EndsOK, EdgesJoinKernels, Joins, Alike, Vector, InStep

LEMMA MarkCarries ==
  ASSUME NEW us, Vector(us), NEW i \in DOMAIN us
  PROVE  Carries(Identity(us), us, [us EXCEPT ![i].extinct = TRUE])
<1> DEFINE new == [us EXCEPT ![i].extinct = TRUE]
<1>1. \A j \in DOMAIN us : us[j] \in V1!Unit
  BY DEF Vector
<1>2. us \in [1 .. Len(us) -> V1!Unit] /\ Len(us) \in Nat
  BY DEF Vector
<1>3. new = [us EXCEPT ![i] = [us[i] EXCEPT !.extinct = TRUE]]
  OBVIOUS
<1>4. [us[i] EXCEPT !.extinct = TRUE] \in V1!Unit
      /\ [us[i] EXCEPT !.extinct = TRUE].class = us[i].class
  BY <1>1 DEF V1!Unit
<1>5. new \in [1 .. Len(us) -> V1!Unit] /\ \A j \in DOMAIN us : new[j].class = us[j].class
  BY <1>2, <1>3, <1>4
<1>6. Vector(new) /\ DOMAIN new = DOMAIN us
  BY <1>2, <1>5 DEF Vector
<1> QED
  BY <1>5, <1>6 DEF Carries, Identity

LEMMA UnchangedEnds ==
  ASSUME EndsOK, Carries(Identity(units1), units1, units1'),
         Carries(Identity(units2), units2, units2'), UNCHANGED cross
  PROVE  EndsOK'
<1>1. Joins(DOMAIN cross.weights, units1', units2')
  BY EndsJoined, StayingJoins DEF EndsOK
<1>2. Vector(units1') /\ Vector(units2')
  BY DEF Carries
<1> QED
  BY <1>1, <1>2 DEF EndsOK, EdgesJoinKernels, Joins, Alike, Vector, InStep

LEMMA ClientEnds ==
  ASSUME EndsOK, UNCHANGED <<units1, units2>>, InStep(cross'),
         NEW k, Alike(k), DOMAIN cross'.weights \subseteq DOMAIN cross.weights \cup {k}
  PROVE  EndsOK'
BY DEF EndsOK, EdgesJoinKernels, Alike, Vector, InStep

\* Both sides see the definitions of CompactMap.
LEMMA SurvivorsShape ==
  /\ V1!Survivors = Enumerations(V1!Living(units1), Len(units1))
  /\ V2!Survivors = Enumerations(V1!Living(units2), Len(units2))
  /\ \A us, kept : V1!Picked(us, kept) = Picked(us, kept)
  /\ \A us, kept : V2!Picked(us, kept) = Picked(us, kept)
BY DEF V1!Survivors, V2!Survivors, V1!Living, V2!Living, V1!Picked, V2!Picked, Picked,
       V1!Enumerations, V2!Enumerations, Enumerations,
       V1!IsEnumeration, V2!IsEnumeration, IsEnumeration, V1!Range, V2!Range, Range

LEMMA NextEnds == EndsOK /\ [Next]_vars => EndsOK'
<1> SUFFICES ASSUME EndsOK, [Next]_vars PROVE EndsOK'
  OBVIOUS
<1>1. Vector(units1) /\ Vector(units2) /\ InStep(cross)
  BY DEF EndsOK
<1>2. ASSUME NEW c \in Class \cup {NoClass}, NEW t, NEW grew1, NEW grew2, NEW best1, NEW best2,
             Tick(c, t, grew1, best1, grew2, best2)
      PROVE  EndsOK'
  BY <1>2, TickEnds
<1>3. ASSUME NEW kept1 \in V1!Survivors, NEW kept2 \in V2!Survivors, Compact(kept1, kept2)
      PROVE  EndsOK'
  <2>1. /\ kept1 \in Enumerations(V1!Living(units1), Len(units1))
        /\ kept2 \in Enumerations(V1!Living(units2), Len(units2))
    BY SurvivorsShape
  <2> QED
    BY <1>1, <1>3, <2>1, SurvivorsShape, CompactionCarries, ReindexEnds DEF Compact, V1!CompactTo, V2!CompactTo
<1>4. ASSUME NEW kept \in V1!Survivors, CompactModal1(kept)
      PROVE  EndsOK'
  <2>1. kept \in Enumerations(V1!Living(units1), Len(units1))
    BY SurvivorsShape
  <2>2. Carries(OldToNew(kept), units1, units1')
    BY <1>1, <1>4, <2>1, SurvivorsShape, CompactionCarries DEF CompactModal1, V1!CompactTo
  <2>3. Carries(Identity(units2), units2, units2')
    BY <1>1, <1>4, IdentityCarries DEF CompactModal1
  <2> QED
    BY <1>4, <2>2, <2>3, ReindexEnds DEF CompactModal1
<1>5. ASSUME NEW kept \in V2!Survivors, CompactModal2(kept)
      PROVE  EndsOK'
  <2>1. kept \in Enumerations(V1!Living(units2), Len(units2))
    BY SurvivorsShape
  <2>2. Carries(OldToNew(kept), units2, units2')
    BY <1>1, <1>5, <2>1, SurvivorsShape, CompactionCarries DEF CompactModal2, V2!CompactTo
  <2>3. Carries(Identity(units1), units1, units1')
    BY <1>1, <1>5, IdentityCarries DEF CompactModal2
  <2> QED
    BY <1>5, <2>2, <2>3, ReindexEnds DEF CompactModal2
<1>6. CASE Extinguish
  <2>1. Carries(Identity(units1), units1, units1') /\ Carries(Identity(units2), units2, units2')
    BY <1>1, <1>6, IdentityCarries, MarkCarries DEF Extinguish, V1!MarkExtinct, V2!MarkExtinct
  <2> QED
    BY <1>6, <2>1, UnchangedEnds DEF Extinguish
<1>7. ASSUME NEW k, NEW w, SetCross(k, w)
      PROVE  EndsOK'
  <2>1. DOMAIN Set(cross, k, w).weights \subseteq DOMAIN cross.weights \cup {k}
    BY <1>1, SetEdges
  <2> QED
    BY <1>1, <1>7, <2>1, SetInStep, ClientEnds DEF SetCross
<1>8. ASSUME NEW k, TouchCross(k)
      PROVE  EndsOK'
  <2>1. InStep(cross') /\ cross'.weights = cross.weights
    BY <1>1, <1>8, TouchInStep, TouchEdges DEF TouchCross
  <2> QED
    BY <1>8, <2>1 DEF TouchCross, EndsOK, EdgesJoinKernels, Alike, Vector, InStep
<1>9. CASE UNCHANGED vars
  BY <1>9 DEF vars, EndsOK, EdgesJoinKernels, Alike, Vector, InStep
<1> QED
  BY <1>2, <1>3, <1>4, <1>5, <1>6, <1>7, <1>8, <1>9 DEF Next

(***************************************************************************)
(* A cross edge joins two labelled kernels that exist and are alike,       *)
(* through growth, extinction and renumbering of either side.              *)
(***************************************************************************)
THEOREM GestaltEdgesJoinKernels == Spec => []EdgesJoinKernels
<1>1. Init => EndsOK
  BY NewInStep DEF Init, V1!Init, V2!Init, EndsOK, Vector, EdgesJoinKernels, NewStore, EmptyMap
<1>2. EndsOK => EdgesJoinKernels
  BY DEF EndsOK
<1> QED
  BY <1>1, <1>2, NextEnds, PTL DEF Spec

(***************************************************************************)
(* Weights and ticks.  W is what the weights are in: positive levels but   *)
(* between the decay of a tick and its first prune.                        *)
(***************************************************************************)
Bounded(s, W, t) ==
  /\ InStep(s)
  /\ s.weights \in [DOMAIN s.weights -> W]
  /\ s.ticks \in [DOMAIN s.ticks -> 0 .. t]

Positive == Weight \ {0}

LEMMA RemoveBounded ==
  ASSUME NEW W, NEW t, NEW s, Bounded(s, W, t), NEW K, NEW U,
         \A k \in DOMAIN s.weights \ K : s.weights[k] \in U
  PROVE  Bounded(Remove(s, K), U, t)
<1>1. InStep(Remove(s, K))
  BY RemoveInStep DEF Bounded
<1>2. /\ Remove(s, K).weights = [k \in DOMAIN s.weights \ K |-> s.weights[k]]
      /\ Remove(s, K).ticks = [k \in DOMAIN s.ticks \ K |-> s.ticks[k]]
  BY DEF Remove, Without, Restrict
<1>3. \A k \in DOMAIN s.ticks : s.ticks[k] \in 0 .. t
  BY DEF Bounded
<1> QED
  BY <1>1, <1>2, <1>3 DEF Bounded

LEMMA SetBounded ==
  ASSUME NEW t, NEW s, Bounded(s, Positive, t), NEW k, NEW w \in Weight
  PROVE  Bounded(Set(s, k, w), Positive, t)
<1>1. InStep(Set(s, k, w))
  BY SetInStep DEF Bounded
<1>2. CASE w = 0
  <2>1. /\ Set(s, k, w).weights = [i \in DOMAIN s.weights \ {k} |-> s.weights[i]]
        /\ Set(s, k, w).ticks = [i \in DOMAIN s.ticks \ {k} |-> s.ticks[i]]
    BY <1>2 DEF Set, Without, Restrict
  <2>2. /\ \A i \in DOMAIN s.weights : s.weights[i] \in Positive
        /\ \A i \in DOMAIN s.ticks : s.ticks[i] \in 0 .. t
    BY DEF Bounded
  <2> QED
    BY <1>1, <2>1, <2>2 DEF Bounded
<1>3. CASE w # 0
  <2>1. /\ Set(s, k, w).weights = [i \in DOMAIN s.weights \cup {k} |->
                                     IF i \in {k} THEN w ELSE s.weights[i]]
        /\ Set(s, k, w).ticks = s.ticks
    BY <1>3 DEF Set, Put, InStep, Bounded
  <2>2. \A i \in DOMAIN s.weights \cup {k} :
          (IF i \in {k} THEN w ELSE s.weights[i]) \in Positive
    BY <1>3 DEF Bounded, Positive
  <2> QED
    BY <1>1, <2>1, <2>2 DEF Bounded
<1> QED
  BY <1>2, <1>3

LEMMA TouchBounded ==
  ASSUME NEW W, NEW t \in Nat, NEW u \in Nat, u <= t, NEW s, Bounded(s, W, u), NEW K
  PROVE  Bounded(Touch(s, K, t), W, t)
<1>1. InStep(Touch(s, K, t)) /\ Touch(s, K, t).weights = s.weights
  BY TouchInStep, TouchEdges DEF Bounded
<1> DEFINE L == K \cap DOMAIN s.weights
<1>2. Touch(s, K, t).ticks = [k \in DOMAIN s.ticks \cup L |-> IF k \in L THEN t ELSE s.ticks[k]]
  BY DEF Touch, Put, InStep, Bounded
<1>3. \A k \in DOMAIN s.ticks : s.ticks[k] \in 0 .. t
  BY DEF Bounded
<1>4. t \in 0 .. t
  OBVIOUS
<1> HIDE DEF L
<1>5. \A k \in DOMAIN s.ticks \cup L : (IF k \in L THEN t ELSE s.ticks[k]) \in 0 .. t
  BY <1>3, <1>4
<1>6. Touch(s, K, t).ticks \in [DOMAIN Touch(s, K, t).ticks -> 0 .. t]
  BY <1>2, <1>5
<1> QED
  BY <1>1, <1>6 DEF Bounded

LEMMA StrengthenBounded ==
  ASSUME NEW t \in Nat, NEW u \in Nat, u <= t, NEW s, Bounded(s, Positive, u), NEW K
  PROVE  Bounded(Strengthen(s, K, t), Positive, t)
<1> DEFINE r == ApplyIncrements(s, K)
           up(w) == IF w + Delta < WMax THEN w + Delta ELSE WMax
<1>1. InStep(r)
  BY ApplyIncrementsInStep DEF Bounded
<1>2. /\ r.ticks = s.ticks
      /\ r.weights = [k \in DOMAIN s.weights \cup K |->
                        IF k \notin K THEN s.weights[k]
                        ELSE IF k \notin DOMAIN s.weights THEN WInit
                        ELSE up(s.weights[k])]
  BY DEF ApplyIncrements, InStep, Bounded
<1>3. WInit \in Positive
  BY CrossConfigAssumption DEF Positive, Weight
<1>4. \A w \in Positive : up(w) \in Positive
  BY CrossConfigAssumption DEF Positive, Weight
<1> HIDE DEF r, up
<1>5. \A k \in DOMAIN s.weights : s.weights[k] \in Positive
  BY DEF Bounded
<1>6. r.weights \in [DOMAIN r.weights -> Positive]
  BY <1>2, <1>3, <1>4, <1>5
<1>7. Bounded(r, Positive, u)
  BY <1>1, <1>2, <1>6 DEF Bounded
<1> QED
  BY <1>7, TouchBounded DEF Strengthen, r

LEMMA CrossTickBounded ==
  ASSUME NEW t \in Nat, NEW u \in Nat, u <= t, NEW s, Bounded(s, Positive, u), NEW K
  PROVE  Bounded(CrossTick(s, K, t), Positive, t)
<1> DEFINE a == Strengthen(s, K, t)
           b == ScaleAll(a)
           c == PruneBelow(b)
<1>1. Bounded(a, Positive, t)
  BY StrengthenBounded
<1> HIDE DEF a
<1>2. Bounded(b, Weight, t)
  <2>1. InStep(b)
    BY <1>1, ScaleAllInStep DEF Bounded
  <2>2. b.weights = [k \in DOMAIN a.weights |-> Decayed[a.weights[k]]] /\ b.ticks = a.ticks
    BY <1>1 DEF ScaleAll, Bounded, InStep
  <2>3. \A w \in Weight : Decayed[w] \in Weight
    BY CrossConfigAssumption
  <2>4. \A k \in DOMAIN a.weights : Decayed[a.weights[k]] \in Weight
    BY <1>1, <2>3 DEF Bounded, Positive
  <2> HIDE DEF b
  <2> QED
    BY <1>1, <2>1, <2>2, <2>4 DEF Bounded
<1> HIDE DEF b
<1>3. Bounded(c, Positive, t)
  <2>1. \A k \in DOMAIN b.weights : b.weights[k] < MinWeight \/ b.weights[k] \in Positive
    <3>1. \A w \in Weight : w < MinWeight \/ w \in Positive
      BY CrossConfigAssumption DEF Weight, Positive
    <3> QED
      BY <1>2, <3>1 DEF Bounded
  <2> QED
    BY <1>2, <2>1, RemoveBounded DEF PruneBelow
<1> HIDE DEF c
<1>4. \A k \in DOMAIN c.weights : c.weights[k] \in Positive
  BY <1>3 DEF Bounded
<1>5. Bounded(PruneInactive(c, t), Positive, t)
  BY <1>3, <1>4, RemoveBounded DEF PruneInactive
<1> QED
  BY <1>5 DEF CrossTick, a, b, c

LEMMA ReindexBounded ==
  ASSUME NEW t, NEW s, Bounded(s, Positive, t), NEW f1, NEW f2
  PROVE  Bounded(Reindex(s, f1, f2), Positive, t)
<1>1. InStep(Reindex(s, f1, f2))
  BY ReindexInStep DEF Bounded
<1>2. ASSUME NEW S, NEW m, m \in [DOMAIN m -> S]
      PROVE  Renumber(f1, f2, m) \in [DOMAIN Renumber(f1, f2, m) -> S]
  <2> DEFINE old(k) == CHOOSE o \in Staying(f1, f2, DOMAIN m) : Renamed(f1, f2, o) = k
             D == {Renamed(f1, f2, o) : o \in Staying(f1, f2, DOMAIN m)}
  <2>1. \A k \in D : old(k) \in Staying(f1, f2, DOMAIN m)
    OBVIOUS
  <2>2. Renumber(f1, f2, m) = [k \in D |-> m[old(k)]]
    BY DEF Renumber
  <2> HIDE DEF D, old
  <2>3. \A k \in D : m[old(k)] \in S
    BY <1>2, <2>1 DEF Staying
  <2> QED
    BY <2>2, <2>3
<1>3. /\ Reindex(s, f1, f2).weights = Renumber(f1, f2, s.weights)
      /\ Reindex(s, f1, f2).ticks = Renumber(f1, f2, s.ticks)
  BY DEF Reindex
<1> QED
  BY <1>1, <1>2, <1>3 DEF Bounded

LEMMA NextBounded ==
  now \in Nat /\ Bounded(cross, Positive, now) /\ [Next]_vars
    => now' \in Nat /\ Bounded(cross', Positive, now')
<1> SUFFICES ASSUME now \in Nat, Bounded(cross, Positive, now), [Next]_vars
             PROVE  now' \in Nat /\ Bounded(cross', Positive, now')
  OBVIOUS
<1>1. ASSUME NEW c, NEW t, NEW grew1, NEW grew2, NEW best1, NEW best2,
             Tick(c, t, grew1, best1, grew2, best2)
      PROVE  now' \in Nat /\ Bounded(cross', Positive, now')
  <2>1. t \in Nat /\ now <= t /\ now' = t
    BY <1>1, GestaltAssumption DEF Tick
  <2>2. PICK K : cross' = CrossTick(cross, K, t)
    BY <1>1 DEF Tick
  <2> QED
    BY <2>1, <2>2, CrossTickBounded
<1>2. ASSUME NEW kept1, NEW kept2, Compact(kept1, kept2)
      PROVE  now' \in Nat /\ Bounded(cross', Positive, now')
  BY <1>2, ReindexBounded DEF Compact
<1>3. ASSUME NEW kept, CompactModal1(kept) \/ CompactModal2(kept)
      PROVE  now' \in Nat /\ Bounded(cross', Positive, now')
  BY <1>3, ReindexBounded DEF CompactModal1, CompactModal2
<1>4. CASE Extinguish
  BY <1>4 DEF Extinguish
<1>5. ASSUME NEW k, NEW w \in Weight, SetCross(k, w)
      PROVE  now' \in Nat /\ Bounded(cross', Positive, now')
  BY <1>5, SetBounded DEF SetCross
<1>6. ASSUME NEW k, TouchCross(k)
      PROVE  now' \in Nat /\ Bounded(cross', Positive, now')
  BY <1>6, TouchBounded DEF TouchCross
<1>7. CASE UNCHANGED vars
  BY <1>7 DEF vars
<1> QED
  BY <1>1, <1>2, <1>3, <1>4, <1>5, <1>6, <1>7 DEF Next

(***************************************************************************)
(* Both vectors keep their types, weights are never 0, and no tick is      *)
(* later than the clock.                                                   *)
(***************************************************************************)
THEOREM GestaltTypeCorrect == Spec => []TypeOK
<1> DEFINE Inv == EndsOK /\ now \in Nat /\ Bounded(cross, Positive, now)
<1>1. Init => Inv
  <2>1. Init => Bounded(cross, Positive, now) /\ now \in Nat
    BY NewInStep DEF Init, Bounded, NewStore, EmptyMap
  <2> QED
    BY <2>1, NewInStep
    DEF Init, V1!Init, V2!Init, EndsOK, Vector, EdgesJoinKernels, NewStore, EmptyMap
<1>2. Inv /\ [Next]_vars => Inv'
  <2>1. EndsOK /\ [Next]_vars => EndsOK'
    BY NextEnds
  <2>2. Bounded(cross', Positive, now') => Bounded(cross, Positive, now)'
    BY DEF Bounded, Positive, Weight, InStep
  <2> QED
    BY <2>1, <2>2, NextBounded
<1>3. Inv => TypeOK
  <2> SUFFICES ASSUME Inv PROVE TypeOK
    OBVIOUS
  <2>1. cross.reverse \in [DOMAIN cross.reverse -> Nat \ {0}]
    <3>1. cross.reverse = [k \in DOMAIN cross.weights |-> 1]
      BY DEF Bounded, InStep
    <3> QED
      BY <3>1
  <2>2. units1 \in Seq(V1!Unit) /\ units2 \in Seq(V2!Unit)
    BY DEF EndsOK, Vector, V1!Unit, V2!Unit
  <2> QED
    BY <2>1, <2>2 DEF TypeOK, Bounded, Positive
<1> QED
  BY <1>1, <1>2, <1>3, PTL DEF Spec

(***************************************************************************)
(* Renumbering.                                                            *)
(***************************************************************************)
\* What a renumbering of one side does to the positions of a side us that
\* becomes new: it merges none, and takes those that stay to their rank.
StayingIn(us, new) == IF Len(new) < Len(us) THEN V1!Living(us) ELSE DOMAIN us

Moves(f, us, new) ==
  /\ \A p, q \in DOMAIN f : f[p] = f[q] => p = q
  /\ \A i \in StayingIn(us, new) : i \in DOMAIN f /\ f[i] = MovedTo(us, new, i)

LEMMA IdentityMoves ==
  ASSUME NEW us, Vector(us)
  PROVE  Moves(Identity(us), us, us)
<1>1. ~(Len(us) < Len(us))
  <2>1. Len(us) \in Nat
    BY DEF Vector
  <2> QED
    BY <2>1
<1> QED
  BY <1>1 DEF Moves, StayingIn, MovedTo, Identity

LEMMA CompactionMoves ==
  ASSUME NEW us, Vector(us), NEW kept \in Enumerations(V1!Living(us), Len(us))
  PROVE  Moves(OldToNew(kept), us, Picked(us, kept))
<1> DEFINE N == Len(us)
           L == V1!Living(us)
           f == OldToNew(kept)
           new == Picked(us, kept)
<1>1. N \in Nat /\ DOMAIN us = 1 .. N /\ L \in SUBSET (1 .. N) /\ kept \in Enumerations(L, N)
  BY DEF Vector, V1!Living
<1> HIDE DEF N, L
<1>2. PICK m \in 0 .. N :
        /\ kept \in [1 .. m -> L]
        /\ \A i \in L : \E n \in 1 .. m :
             kept[n] = i /\ Cardinality({j \in L : j <= i}) = n
  BY <1>1, KeptRank
<1>3. m \in Nat
  BY <1>1
<1>4. \A p, q \in 1 .. m : kept[p] = kept[q] => p = q
  <2>1. \A p, q \in 1 .. m : p < q => kept[p] < kept[q]
    BY <1>1, <1>2 DEF Enumerations, IsEnumeration
  <2>2. \A p \in 1 .. m : kept[p] \in 1 .. N
    BY <1>1, <1>2
  <2>3. \A p, q \in 1 .. m : p < q \/ q < p \/ p = q
    BY <1>3
  <2>4. \A p \in 1 .. m : ~(kept[p] < kept[p])
    BY <1>1, <2>2
  <2> QED
    BY <2>1, <2>3, <2>4
<1>5. Range(kept) = L
  BY <1>1 DEF Enumerations, IsEnumeration
<1>6. DOMAIN f = L /\ f = [i \in L |-> CHOOSE n \in 1 .. m : kept[n] = i]
  BY <1>2, <1>5 DEF OldToNew
<1>7. ASSUME NEW i \in L
      PROVE  f[i] \in 1 .. m /\ kept[f[i]] = i /\ Cardinality({j \in L : j <= i}) = f[i]
  <2>1. PICK n \in 1 .. m : kept[n] = i /\ Cardinality({j \in L : j <= i}) = n
    BY <1>2
  <2> HIDE DEF f
  <2>2. f[i] \in 1 .. m /\ kept[f[i]] = i
    BY <1>6, <2>1
  <2>3. f[i] = n
    BY <1>4, <2>1, <2>2
  <2> QED
    BY <2>1, <2>2, <2>3
<1> HIDE DEF f
<1>8. Len(new) = m
  <2>1. new = [n \in 1 .. m |-> us[kept[n]]]
    BY <1>2 DEF Picked
  <2> HIDE DEF new
  <2> QED
    BY <1>3, <2>1
<1> HIDE DEF new
<1>9. \A p, q \in DOMAIN f : f[p] = f[q] => p = q
  <2>1. \A i \in L : kept[f[i]] = i
    BY <1>7
  <2>2. DOMAIN f = L
    BY <1>6
  <2> QED
    BY <2>1, <2>2, Zenon
<1>10. CASE m < N
  <2>1. StayingIn(us, new) = L /\ \A i : MovedTo(us, new, i) = Cardinality({j \in L : j <= i})
    <3>1. Len(new) < Len(us)
      BY <1>8, <1>10 DEF N
    <3>2. StayingIn(us, new) = L
      BY <3>1 DEF StayingIn, L
    <3>3. \A i : MovedTo(us, new, i) = Cardinality({j \in L : j <= i})
      BY <3>1 DEF MovedTo, Rank, L
    <3> QED
      BY <3>2, <3>3
  <2>2. \A i \in StayingIn(us, new) : i \in DOMAIN f /\ f[i] = MovedTo(us, new, i)
    BY <1>6, <1>7, <2>1
  <2>3. Moves(f, us, new)
    BY <1>9, <2>2 DEF Moves
  <2> QED
    BY <2>3 DEF f, new
<1>11. CASE m = N
  <2>1. StayingIn(us, new) = 1 .. N /\ \A i : MovedTo(us, new, i) = i
    <3>1. ~(Len(new) < Len(us))
      BY <1>1, <1>8, <1>11 DEF N
    <3> QED
      BY <1>1, <3>1 DEF StayingIn, MovedTo
  <2>2. L = 1 .. N
    <3>1. kept \in Injection(1 .. N, 1 .. N)
      <4>1. kept \in [1 .. N -> 1 .. N]
        BY <1>1, <1>2, <1>11
      <4> QED
        BY <1>4, <1>11, <4>1 DEF Injection, IsInjective
    <3>2. IsFiniteSet(1 .. N)
      BY <1>1, FS_Interval
    <3>3. kept \in Surjection(1 .. N, 1 .. N)
      BY <3>1, <3>2, FS_Injection
    <3> QED
      BY <1>1, <1>2, <1>11, <3>3 DEF Surjection
  <2>3. ASSUME NEW i \in L PROVE f[i] = i
    <3>1. i \in 1 .. N /\ i \in Nat
      BY <1>1, <2>2
    <3>2. {j \in L : j <= i} = 1 .. i
      BY <1>1, <2>2, <3>1
    <3>3. Cardinality(1 .. i) = i
      BY <3>1, FS_Interval
    <3> QED
      BY <1>7, <3>2, <3>3
  <2>4. \A i \in StayingIn(us, new) : i \in DOMAIN f /\ f[i] = MovedTo(us, new, i)
    BY <1>6, <2>1, <2>2, <2>3
  <2>5. Moves(f, us, new)
    BY <1>9, <2>4 DEF Moves
  <2> QED
    BY <2>5 DEF f, new
<1> QED
  BY <1>1, <1>10, <1>11

(***************************************************************************)
(* A reindexing whose maps merge no positions renames edges one to one.    *)
(***************************************************************************)
ArePairs(K) == \A k \in K : k = <<k[1], k[2]>>

LEMMA RenumberReads ==
  ASSUME NEW f1, NEW f2, NEW m, ArePairs(DOMAIN m),
         \A p, q \in DOMAIN f1 : f1[p] = f1[q] => p = q,
         \A p, q \in DOMAIN f2 : f2[p] = f2[q] => p = q,
         NEW i \in DOMAIN f1, NEW j \in DOMAIN f2
  PROVE  Lookup(Renumber(f1, f2, m), <<f1[i], f2[j]>>) = Lookup(m, <<i, j>>)
<1> DEFINE S == Staying(f1, f2, DOMAIN m)
           k == <<f1[i], f2[j]>>
           r == Renumber(f1, f2, m)
<1>1. DOMAIN r = {Renamed(f1, f2, o) : o \in S}
      /\ \A n \in DOMAIN r : r[n] = m[CHOOSE o \in S : Renamed(f1, f2, o) = n]
  BY DEF Renumber
<1>2. ASSUME NEW o \in S, Renamed(f1, f2, o) = k
      PROVE  o = <<i, j>>
  <2>1. /\ o = <<o[1], o[2]>> /\ o[1] \in DOMAIN f1 /\ o[2] \in DOMAIN f2
        /\ f1[o[1]] = f1[i] /\ f2[o[2]] = f2[j]
    BY <1>2 DEF Staying, Renamed, ArePairs
  <2>2. o[1] = i /\ o[2] = j
    BY <2>1
  <2> QED
    BY <2>1, <2>2
<1>3. CASE <<i, j>> \in DOMAIN m
  <2>1. <<i, j>> \in S /\ Renamed(f1, f2, <<i, j>>) = k
    BY <1>3 DEF Staying, Renamed
  <2> HIDE DEF S, k, r
  <2>2. (CHOOSE o \in S : Renamed(f1, f2, o) = k) = <<i, j>>
    BY <1>2, <2>1
  <2>3. k \in DOMAIN r /\ r[k] = m[<<i, j>>]
    BY <1>1, <2>1, <2>2
  <2> QED
    BY <1>3, <2>3 DEF Lookup, k, r
<1>4. CASE <<i, j>> \notin DOMAIN m
  <2>1. k \notin DOMAIN r
    <3>1. <<i, j>> \notin S
      BY <1>4 DEF Staying
    <3> HIDE DEF S, k, r
    <3> QED
      BY <1>1, <1>2, <3>1
  <2> QED
    BY <1>4, <2>1 DEF Lookup
<1> QED
  BY <1>3, <1>4

Paired == ArePairs(DOMAIN cross.weights)

LEMMA ReindexPaired ==
  ASSUME NEW f1, NEW f2, cross' = Reindex(cross, f1, f2)
  PROVE  Paired'
<1>1. DOMAIN cross'.weights
        = {Renamed(f1, f2, o) : o \in Staying(f1, f2, DOMAIN cross.weights)}
  BY DEF Reindex, Renumber
<1> QED
  BY <1>1 DEF Paired, ArePairs, Renamed

LEMMA NextPaired == EndsOK /\ Paired /\ [Next]_vars => Paired'
<1> SUFFICES ASSUME EndsOK, Paired, [Next]_vars PROVE Paired'
  OBVIOUS
<1>1. InStep(cross)
  BY DEF EndsOK
<1>2. ASSUME NEW c, NEW t, NEW grew1, NEW grew2, NEW best1, NEW best2,
             Tick(c, t, grew1, best1, grew2, best2)
      PROVE  Paired'
  <2>1. PICK A1, A2 :
          cross' = CrossTick(cross,
                             Pairing(A1, A2, Labels(units1'), Labels(units2'), NoClass), t)
    BY <1>2 DEF Tick
  <2> DEFINE K == Pairing(A1, A2, Labels(units1'), Labels(units2'), NoClass)
  <2>2. \A k \in K : k = <<k[1], k[2]>>
    BY DEF Pairing
  <2> HIDE DEF K
  <2>3. DOMAIN cross'.weights \subseteq DOMAIN cross.weights \cup K
    BY <1>1, <2>1, CrossTickEdges DEF K
  <2> QED
    BY <2>2, <2>3 DEF Paired, ArePairs
<1>3. CASE \/ \E kept1, kept2 : Compact(kept1, kept2)
           \/ \E kept : CompactModal1(kept) \/ CompactModal2(kept)
  BY <1>3, ReindexPaired DEF Compact, CompactModal1, CompactModal2
<1>4. CASE UNCHANGED cross
  BY <1>4 DEF Paired
<1>5. ASSUME NEW k \in ClientEdges, NEW w, SetCross(k, w)
      PROVE  Paired'
  <2>1. k = <<k[1], k[2]>>
    BY GestaltAssumption
  <2>2. DOMAIN cross'.weights \subseteq DOMAIN cross.weights \cup {k}
    BY <1>1, <1>5, SetEdges DEF SetCross
  <2> QED
    BY <2>1, <2>2 DEF Paired, ArePairs
<1>6. ASSUME NEW k, TouchCross(k)
      PROVE  Paired'
  <2>1. cross'.weights = cross.weights
    BY <1>1, <1>6, TouchEdges DEF TouchCross
  <2> QED
    BY <2>1 DEF Paired, ArePairs
<1> QED
  BY <1>2, <1>3, <1>4, <1>5, <1>6 DEF Next, Extinguish, vars

LEMMA PairedInvariant == Spec => [](EndsOK /\ Paired)
<1>1. Init => EndsOK /\ Paired
  BY NewInStep DEF Init, EndsOK, EdgesJoinKernels, Vector, V1!Init, V2!Init, NewStore,
                   EmptyMap, Paired, ArePairs
<1> QED
  BY <1>1, NextEnds, NextPaired, PTL DEF Spec

\* Both maps of a compaction move the positions as the property says.
KeepsEdges ==
  \A i \in Staying1, j \in Staying2 :
    LET k == <<MovedTo(units1, units1', i), MovedTo(units2, units2', j)>>
    IN  /\ Weigh(cross', k) = Weigh(cross, <<i, j>>)
        /\ LastActive(cross', k) = LastActive(cross, <<i, j>>)

LEMMA ReindexKeeps ==
  ASSUME EndsOK, Paired, NEW f1, NEW f2,
         Moves(f1, units1, units1'), Moves(f2, units2, units2'),
         cross' = Reindex(cross, f1, f2)
  PROVE  KeepsEdges
<1>1. /\ cross'.weights = Renumber(f1, f2, cross.weights)
      /\ cross'.ticks = Renumber(f1, f2, cross.ticks)
  BY DEF Reindex
<1>2. ArePairs(DOMAIN cross.weights) /\ ArePairs(DOMAIN cross.ticks)
  BY DEF Paired, ArePairs, EndsOK, InStep
<1>3. ASSUME NEW i \in Staying1, NEW j \in Staying2
      PROVE  LET k == <<MovedTo(units1, units1', i), MovedTo(units2, units2', j)>>
             IN  /\ Weigh(cross', k) = Weigh(cross, <<i, j>>)
                 /\ LastActive(cross', k) = LastActive(cross, <<i, j>>)
  <2>1. /\ i \in DOMAIN f1 /\ f1[i] = MovedTo(units1, units1', i)
        /\ j \in DOMAIN f2 /\ f2[j] = MovedTo(units2, units2', j)
        /\ \A p, q \in DOMAIN f1 : f1[p] = f1[q] => p = q
        /\ \A p, q \in DOMAIN f2 : f2[p] = f2[q] => p = q
    BY <1>3 DEF Moves, StayingIn, Staying1, Staying2
  <2>2. /\ Lookup(Renumber(f1, f2, cross.weights), <<f1[i], f2[j]>>)
             = Lookup(cross.weights, <<i, j>>)
        /\ Lookup(Renumber(f1, f2, cross.ticks), <<f1[i], f2[j]>>)
             = Lookup(cross.ticks, <<i, j>>)
    BY <1>2, <2>1, RenumberReads
  <2> QED
    BY <1>1, <2>1, <2>2 DEF Weigh, LastActive
<1> QED
  BY <1>3 DEF KeepsEdges

LEMMA NeverShorter ==
  ASSUME NEW us, Vector(us), NEW new, Carries(Identity(us), us, new)
  PROVE  ~(Len(new) < Len(us))
<1>1. /\ Len(us) \in Nat /\ Len(new) \in Nat
      /\ DOMAIN us = 1 .. Len(us) /\ DOMAIN new = 1 .. Len(new)
  BY DEF Vector, Carries
<1>2. \A i \in DOMAIN us : i \in DOMAIN new
  BY DEF Carries, Identity
<1> SUFFICES ASSUME Len(new) < Len(us) PROVE FALSE
  OBVIOUS
<1>3. Len(us) \in 1 .. Len(us)
  BY <1>1
<1>4. Len(us) \in 1 .. Len(new)
  BY <1>1, <1>2, <1>3
<1> QED
  BY <1>1, <1>4

(***************************************************************************)
(* A compaction of either side or of both keeps weight and last activity   *)
(* of every edge between survivors, at their new positions.                *)
(***************************************************************************)
THEOREM GestaltCompactionKeepsEdges == Spec => CompactionKeepsEdges
<1> DEFINE Shrinks == Len(units1') < Len(units1) \/ Len(units2') < Len(units2)
<1>1. ASSUME EndsOK, Paired, [Next]_vars PROVE [Shrinks => KeepsEdges]_vars
  <2>1. Vector(units1) /\ Vector(units2)
    BY <1>1 DEF EndsOK
  <2>2. ASSUME Carries(Identity(units1), units1, units1'),
               Carries(Identity(units2), units2, units2')
        PROVE  ~Shrinks
    BY <2>1, <2>2, NeverShorter
  <2>3. ASSUME NEW c \in Class \cup {NoClass}, NEW t, NEW grew1, NEW grew2, NEW best1, NEW best2,
               Tick(c, t, grew1, best1, grew2, best2)
        PROVE  ~Shrinks
    BY <2>1, <2>2, <2>3, Tick1Carries, Tick2Carries DEF Tick
  <2>4. CASE Extinguish
    BY <2>1, <2>2, <2>4, IdentityCarries, MarkCarries
       DEF Extinguish, V1!MarkExtinct, V2!MarkExtinct
  <2>5. CASE UNCHANGED <<units1, units2>>
    BY <2>1, <2>2, <2>5, IdentityCarries
  <2>6. ASSUME NEW kept1 \in V1!Survivors, NEW kept2 \in V2!Survivors, Compact(kept1, kept2)
        PROVE  KeepsEdges
    <3>1. /\ kept1 \in Enumerations(V1!Living(units1), Len(units1))
          /\ kept2 \in Enumerations(V1!Living(units2), Len(units2))
          /\ units1' = Picked(units1, kept1) /\ units2' = Picked(units2, kept2)
          /\ cross' = Reindex(cross, OldToNew(kept1), OldToNew(kept2))
      BY <2>6, SurvivorsShape DEF Compact, V1!CompactTo, V2!CompactTo
    <3>2. /\ Moves(OldToNew(kept1), units1, units1')
          /\ Moves(OldToNew(kept2), units2, units2')
      BY <2>1, <3>1, CompactionMoves
    <3> QED
      BY <1>1, <3>1, <3>2, ReindexKeeps
  <2>7. ASSUME NEW kept \in V1!Survivors, CompactModal1(kept)
        PROVE  KeepsEdges
    <3>1. /\ kept \in Enumerations(V1!Living(units1), Len(units1))
          /\ units1' = Picked(units1, kept) /\ units2' = units2
          /\ cross' = Reindex(cross, OldToNew(kept), Identity(units2))
      BY <2>7, SurvivorsShape DEF CompactModal1, V1!CompactTo
    <3>2. /\ Moves(OldToNew(kept), units1, units1')
          /\ Moves(Identity(units2), units2, units2')
      BY <2>1, <3>1, CompactionMoves, IdentityMoves
    <3> QED
      BY <1>1, <3>1, <3>2, ReindexKeeps
  <2>8. ASSUME NEW kept \in V2!Survivors, CompactModal2(kept)
        PROVE  KeepsEdges
    <3>1. /\ kept \in Enumerations(V1!Living(units2), Len(units2))
          /\ units2' = Picked(units2, kept) /\ units1' = units1
          /\ cross' = Reindex(cross, Identity(units1), OldToNew(kept))
      BY <2>8, SurvivorsShape DEF CompactModal2, V2!CompactTo
    <3>2. /\ Moves(OldToNew(kept), units2, units2')
          /\ Moves(Identity(units1), units1, units1')
      BY <2>1, <3>1, CompactionMoves, IdentityMoves
    <3> QED
      BY <1>1, <3>1, <3>2, ReindexKeeps
  <2> HIDE DEF Shrinks
  <2> QED
    BY <1>1, <2>3, <2>4, <2>5, <2>6, <2>7, <2>8 DEF Next, SetCross, TouchCross
<1>2. [Shrinks => KeepsEdges]_vars
        => [Len(units1') < Len(units1) \/ Len(units2') < Len(units2) =>
              \A i \in Staying1, j \in Staying2 :
                LET k == <<MovedTo(units1, units1', i), MovedTo(units2, units2', j)>>
                IN  /\ Weigh(cross', k) = Weigh(cross, <<i, j>>)
                    /\ LastActive(cross', k) = LastActive(cross, <<i, j>>)]_vars
  BY DEF KeepsEdges
<1> HIDE DEF Shrinks
<1> QED
  BY <1>1, <1>2, PairedInvariant, PTL DEF Spec, CompactionKeepsEdges

(***************************************************************************)
(* Recall.  What two cues evoke of each other is a sum over the edges      *)
(* between them, whichever side it is taken from: each edge is counted     *)
(* once, with its weight and the activation at both ends.                  *)
(***************************************************************************)
Between(cue1, cue2) ==
  {k \in DOMAIN cross.weights : k[1] \in DOMAIN cue1 /\ k[2] \in DOMAIN cue2}

Flow(cue1, cue2) ==
  [k \in Between(cue1, cue2) |-> Gamma * Weigh(cross, k) * cue1[k[1]] * cue2[k[2]]]

IsCue(cue) == IsFiniteSet(DOMAIN cue) /\ \A n \in DOMAIN cue : cue[n] \in Nat

WellFormed ==
  /\ IsFiniteSet(DOMAIN cross.weights)
  /\ \A k \in DOMAIN cross.weights : cross.weights[k] \in Nat
  /\ ReverseIsInverse

LEMMA CuesShape ==
  ASSUME NEW us, Vector(us), NEW cue \in Cues(us)
  PROVE  IsCue(cue)
<1>1. PICK A \in SUBSET V1!Living(us) : cue \in [A -> Score]
  BY DEF Cues
<1>2. Len(us) \in Nat /\ A \in SUBSET (1 .. Len(us))
  BY DEF Vector, V1!Living
<1>3. IsFiniteSet(1 .. Len(us))
  BY <1>2, FS_Interval
<1>4. IsFiniteSet(A)
  BY <1>2, <1>3, FS_Subset
<1> QED
  BY <1>1, <1>4, RecallAssumption DEF IsCue

LEMMA ProductInt ==
  ASSUME NEW a \in Int, NEW b \in Int
  PROVE  a * b \in Int
OBVIOUS

LEMMA Commuted ==
  ASSUME NEW a \in Int, NEW b \in Int, NEW c \in Int, NEW d \in Int
  PROVE  a * b * c * d = (1 * a * b * d) * c
OBVIOUS

LEMMA FlowShape ==
  ASSUME WellFormed, NEW cue1, NEW cue2, IsCue(cue1), IsCue(cue2)
  PROVE  /\ IsFiniteSet(Between(cue1, cue2))
         /\ \A k \in Between(cue1, cue2) :
              /\ Gamma \in Int /\ Weigh(cross, k) \in Int
              /\ cue1[k[1]] \in Int /\ cue2[k[2]] \in Int
              /\ Gamma * Weigh(cross, k) * cue1[k[1]] \in Int
              /\ Flow(cue1, cue2)[k] \in Int
<1>1. IsFiniteSet(Between(cue1, cue2))
  BY FS_Subset DEF WellFormed, Between
<1>2. ASSUME NEW k \in Between(cue1, cue2)
      PROVE  /\ Gamma \in Int /\ Weigh(cross, k) \in Int
             /\ cue1[k[1]] \in Int /\ cue2[k[2]] \in Int
  BY RecallAssumption DEF WellFormed, Between, Weigh, Lookup, IsCue
<1>3. ASSUME NEW k \in Between(cue1, cue2)
      PROVE  /\ Gamma * Weigh(cross, k) * cue1[k[1]] \in Int
             /\ Gamma * Weigh(cross, k) * cue1[k[1]] * cue2[k[2]] \in Int
  <2>1. Gamma * Weigh(cross, k) \in Int
    BY <1>2, ProductInt
  <2>2. Gamma * Weigh(cross, k) * cue1[k[1]] \in Int
    BY <1>2, <2>1, ProductInt
  <2> QED
    BY <1>2, <2>2, ProductInt
<1> QED
  BY <1>1, <1>2, <1>3 DEF Flow

\* Kernel n of the second modality, recalled by cue1 and weighed by cue2.
LEMMA RecalledForwards ==
  ASSUME WellFormed, NEW cue1, NEW cue2, IsCue(cue1), IsCue(cue2), NEW n \in DOMAIN cue2
  PROVE  Lookup(CrossPropagateSoft(cross, cue1), n) * cue2[n]
           = SumFunctionOnSet(Flow(cue1, cue2), {k \in Between(cue1, cue2) : k[2] = n})
<1> DEFINE S == {k \in Between(cue1, cue2) : k[2] = n}
           sent == UNION {Targets(cross, i) : i \in DOMAIN cue1}
           g == [k \in S |-> Gamma * Weigh(cross, k) * cue1[k[1]]]
<1>1. {k \in sent : k[2] = n} = S
  BY DEF Targets, Between
<1>2. Lookup(CrossPropagateSoft(cross, cue1), n) = SumFunctionOnSet(g, S)
  <2>1. CASE n \in {k[2] : k \in sent}
    <3>1. CrossPropagateSoft(cross, cue1)[n]
            = SumFunction([k \in {k \in sent : k[2] = n} |->
                             Gamma * Weigh(cross, k) * cue1[k[1]]])
      BY <2>1 DEF CrossPropagateSoft
    <3>2. n \in DOMAIN CrossPropagateSoft(cross, cue1)
      BY <2>1 DEF CrossPropagateSoft
    <3>3. CrossPropagateSoft(cross, cue1)[n] = SumFunction(g)
      BY <1>1, <3>1
    <3>4. DOMAIN g = S
      OBVIOUS
    <3> QED
      BY <3>2, <3>3, <3>4 DEF Lookup, SumFunction
  <2>2. CASE n \notin {k[2] : k \in sent}
    <3>1. n \notin DOMAIN CrossPropagateSoft(cross, cue1)
      BY <2>2 DEF CrossPropagateSoft
    <3>2. S = {}
      BY <1>1, <2>2
    <3> HIDE DEF g, S
    <3>3. SumFunctionOnSet(g, S) = 0
      BY <3>2, SumOfNone
    <3> QED
      BY <3>1, <3>3 DEF Lookup
  <2> QED
    BY <2>1, <2>2
<1>3. IsFiniteSet(S)
  BY FlowShape, FS_Subset
<1>4. \A k \in S : g[k] \in Int /\ Flow(cue1, cue2)[k] = g[k] * cue2[n]
  BY FlowShape DEF Flow
<1>5. cue2[n] \in Int
  BY DEF IsCue
<1> HIDE DEF g, S
<1>6. SumFunctionOnSet(Flow(cue1, cue2), S) = SumFunctionOnSet(g, S) * cue2[n]
  BY <1>3, <1>4, <1>5, SumScaled
<1>7. SumFunctionOnSet(Flow(cue1, cue2), S)
        = SumFunctionOnSet(Flow(cue1, cue2), {k \in Between(cue1, cue2) : k[2] = n})
  BY DEF S
<1> QED
  BY <1>2, <1>6, <1>7

\* Kernel n of the first modality, recalled by cue2 and weighed by cue1.
LEMMA RecalledBackwards ==
  ASSUME WellFormed, NEW cue1, NEW cue2, IsCue(cue1), IsCue(cue2), NEW n \in DOMAIN cue1
  PROVE  Lookup(CrossPropagateSoftReverse(cross, cue2), n) * cue1[n]
           = SumFunctionOnSet(Flow(cue1, cue2), {k \in Between(cue1, cue2) : k[1] = n})
<1> DEFINE S == {k \in Between(cue1, cue2) : k[1] = n}
           sent == UNION {Sources(cross, j) : j \in DOMAIN cue2}
           g == [k \in S |-> cross.reverse[k] * Gamma * Weigh(cross, k) * cue2[k[2]]]
<1>1. {k \in sent : k[1] = n} = S
  BY DEF Sources, Between, WellFormed, ReverseIsInverse
<1>2. Lookup(CrossPropagateSoftReverse(cross, cue2), n) = SumFunctionOnSet(g, S)
  <2>1. CASE n \in {k[1] : k \in sent}
    <3>1. CrossPropagateSoftReverse(cross, cue2)[n]
            = SumFunction([k \in {k \in sent : k[1] = n} |->
                             cross.reverse[k] * Gamma * Weigh(cross, k) * cue2[k[2]]])
      BY <2>1 DEF CrossPropagateSoftReverse
    <3>2. n \in DOMAIN CrossPropagateSoftReverse(cross, cue2)
      BY <2>1 DEF CrossPropagateSoftReverse
    <3>3. CrossPropagateSoftReverse(cross, cue2)[n] = SumFunction(g)
      BY <1>1, <3>1
    <3>4. DOMAIN g = S
      OBVIOUS
    <3> QED
      BY <3>2, <3>3, <3>4 DEF Lookup, SumFunction
  <2>2. CASE n \notin {k[1] : k \in sent}
    <3>1. n \notin DOMAIN CrossPropagateSoftReverse(cross, cue2)
      BY <2>2 DEF CrossPropagateSoftReverse
    <3>2. S = {}
      BY <1>1, <2>2
    <3> HIDE DEF g, S
    <3>3. SumFunctionOnSet(g, S) = 0
      BY <3>2, SumOfNone
    <3> QED
      BY <3>1, <3>3 DEF Lookup
  <2> QED
    BY <2>1, <2>2
<1>3. IsFiniteSet(S)
  BY FlowShape, FS_Subset
<1>4. ASSUME NEW k \in S
      PROVE  g[k] \in Int /\ Flow(cue1, cue2)[k] = g[k] * cue1[n]
  <2>1. /\ k \in Between(cue1, cue2) /\ k[1] = n
        /\ g[k] = 1 * Gamma * Weigh(cross, k) * cue2[k[2]]
    BY DEF Between, WellFormed, ReverseIsInverse
  <2>2. /\ Gamma \in Int /\ Weigh(cross, k) \in Int
        /\ cue1[n] \in Int /\ cue2[k[2]] \in Int
    BY <2>1, FlowShape
  <2>3. 1 * Gamma * Weigh(cross, k) * cue2[k[2]] \in Int
    <3>1. 1 * Gamma \in Int
      BY <2>2
    <3>2. 1 * Gamma * Weigh(cross, k) \in Int
      BY <2>2, <3>1, ProductInt
    <3> QED
      BY <2>2, <3>2, ProductInt
  <2>4. Flow(cue1, cue2)[k] = Gamma * Weigh(cross, k) * cue1[n] * cue2[k[2]]
    BY <2>1 DEF Flow
  <2> HIDE DEF g, S
  <2> QED
    BY <2>1, <2>2, <2>3, <2>4, Commuted
<1>5. cue1[n] \in Int
  BY DEF IsCue
<1> HIDE DEF g, S
<1>6. SumFunctionOnSet(Flow(cue1, cue2), S) = SumFunctionOnSet(g, S) * cue1[n]
  BY <1>3, <1>4, <1>5, SumScaled
<1>7. SumFunctionOnSet(Flow(cue1, cue2), S)
        = SumFunctionOnSet(Flow(cue1, cue2), {k \in Between(cue1, cue2) : k[1] = n})
  BY DEF S
<1> QED
  BY <1>2, <1>6, <1>7

LEMMA EvokedIsFlow ==
  ASSUME NEW K, IsFiniteSet(K), NEW h, \A k \in K : h[k] \in Int,
         NEW cue, IsCue(cue), NEW p \in [K -> DOMAIN cue], NEW recalled,
         \A n \in DOMAIN cue :
           Lookup(recalled, n) * cue[n] = SumFunctionOnSet(h, {k \in K : p[k] = n})
  PROVE  Evoked(recalled, cue) = SumFunctionOnSet(h, K)
<1> DEFINE A == DOMAIN cue
           mine == [n \in A |-> Lookup(recalled, n) * cue[n]]
           parts == [n \in A |-> SumFunctionOnSet(h, {k \in K : p[k] = n})]
<1>1. Evoked(recalled, cue) = SumFunctionOnSet(mine, A)
  BY DEF Evoked, SumFunction
<1>2. mine = parts
  OBVIOUS
<1>3. IsFiniteSet(A)
  BY DEF IsCue
<1> HIDE DEF A, mine
<1>4. SumFunctionOnSet(parts, A) = SumFunctionOnSet(h, K)
  BY <1>3, SumByClass DEF A
<1> HIDE DEF parts
<1> QED
  BY <1>1, <1>2, <1>4

LEMMA FlowsAgree ==
  ASSUME WellFormed, NEW cue1, NEW cue2, IsCue(cue1), IsCue(cue2)
  PROVE  /\ Evoked(CrossPropagateSoft(cross, cue1), cue2)
              = SumFunctionOnSet(Flow(cue1, cue2), Between(cue1, cue2))
         /\ Evoked(CrossPropagateSoftReverse(cross, cue2), cue1)
              = SumFunctionOnSet(Flow(cue1, cue2), Between(cue1, cue2))
<1> DEFINE K == Between(cue1, cue2)
           h == Flow(cue1, cue2)
           to == [k \in K |-> k[2]]
           from == [k \in K |-> k[1]]
<1>1. IsFiniteSet(K) /\ \A k \in K : h[k] \in Int
  BY FlowShape
<1>2. to \in [K -> DOMAIN cue2] /\ from \in [K -> DOMAIN cue1]
  BY DEF Between
<1>3. ASSUME NEW n \in DOMAIN cue2
      PROVE  Lookup(CrossPropagateSoft(cross, cue1), n) * cue2[n]
               = SumFunctionOnSet(h, {k \in K : to[k] = n})
  <2>1. {k \in K : to[k] = n} = {k \in K : k[2] = n}
    OBVIOUS
  <2> HIDE DEF to
  <2> QED
    BY <2>1, RecalledForwards
<1>4. ASSUME NEW n \in DOMAIN cue1
      PROVE  Lookup(CrossPropagateSoftReverse(cross, cue2), n) * cue1[n]
               = SumFunctionOnSet(h, {k \in K : from[k] = n})
  <2>1. {k \in K : from[k] = n} = {k \in K : k[1] = n}
    OBVIOUS
  <2> HIDE DEF from
  <2> QED
    BY <2>1, RecalledBackwards
<1> HIDE DEF K, h, to, from
<1>5. Evoked(CrossPropagateSoft(cross, cue1), cue2) = SumFunctionOnSet(h, K)
  BY <1>1, <1>2, <1>3, EvokedIsFlow
<1>6. Evoked(CrossPropagateSoftReverse(cross, cue2), cue1) = SumFunctionOnSet(h, K)
  BY <1>1, <1>2, <1>4, EvokedIsFlow
<1> QED
  BY <1>5, <1>6 DEF K, h

(***************************************************************************)
(* Recall is symmetric, for any number of kernels and edges and any levels *)
(* of weight and activation: the lists of sources, walked backwards, carry *)
(* what the weights carry forwards.                                        *)
(***************************************************************************)
THEOREM GestaltRecallSymmetric == Spec => []RecallSymmetric
<1>1. ASSUME TypeOK, ReverseIsInverse, EndsOK, Paired
      PROVE  RecallSymmetric
  <2>1. IsFiniteSet(DOMAIN cross.weights)
    <3> DEFINE D1 == 1 .. Len(units1)
               D2 == 1 .. Len(units2)
    <3>1. Len(units1) \in Nat /\ Len(units2) \in Nat
      BY <1>1 DEF EndsOK, Vector
    <3>2. IsFiniteSet(D1) /\ IsFiniteSet(D2)
      BY <3>1, FS_Interval
    <3>3. \A k \in DOMAIN cross.weights : k \in D1 \X D2
      BY <1>1 DEF EndsOK, Vector, EdgesJoinKernels, Alike, Paired, ArePairs
    <3> HIDE DEF D1, D2
    <3>4. IsFiniteSet(D1 \X D2)
      BY <3>2, FS_Product
    <3> QED
      BY <3>3, <3>4, FS_Subset
  <2>2. \A k \in DOMAIN cross.weights : cross.weights[k] \in Nat
    BY <1>1, CrossConfigAssumption DEF TypeOK, Weight
  <2>3. WellFormed
    BY <1>1, <2>1, <2>2 DEF WellFormed
  <2>4. ASSUME NEW cue1 \in Cues(units1), NEW cue2 \in Cues(units2)
        PROVE  Evoked(RecallFromModal1(cue1), cue2) = Evoked(RecallFromModal2(cue2), cue1)
    <3>1. IsCue(cue1) /\ IsCue(cue2)
      BY <1>1, CuesShape DEF EndsOK
    <3> QED
      BY <2>3, <3>1, FlowsAgree DEF RecallFromModal1, RecallFromModal2
  <2> QED
    BY <2>4 DEF RecallSymmetric
<1> QED
  BY <1>1, GestaltTypeCorrect, GestaltReverseIsInverse, PairedInvariant, PTL
(***************************************************************************)
(* The maps implement the edges of CrossEdges.  One lemma for each method  *)
(* says what it does to the edges that the maps stand for.                 *)
(***************************************************************************)
LEMMA EdgesShape ==
  ASSUME NEW s
  PROVE  /\ DOMAIN EdgesOf(s) = DOMAIN s.weights
         /\ \A k \in DOMAIN s.weights :
              /\ EdgesOf(s)[k] = [w |-> s.weights[k], last |-> Lookup(s.ticks, k)]
              /\ EdgesOf(s)[k].w = s.weights[k]
              /\ EdgesOf(s)[k].last = Lookup(s.ticks, k)
<1>1. /\ DOMAIN EdgesOf(s) = DOMAIN s.weights
      /\ \A k \in DOMAIN s.weights :
           EdgesOf(s)[k] = [w |-> s.weights[k], last |-> Lookup(s.ticks, k)]
  BY DEF EdgesOf, LastActive
<1>2. ASSUME NEW k \in DOMAIN s.weights
      PROVE  EdgesOf(s)[k].w = s.weights[k] /\ EdgesOf(s)[k].last = Lookup(s.ticks, k)
  <2>1. EdgesOf(s)[k] = [w |-> s.weights[k], last |-> Lookup(s.ticks, k)]
    BY <1>1
  <2> QED
    BY <2>1
<1> QED
  BY <1>1, <1>2

LEMMA RemoveReads ==
  ASSUME NEW s, NEW K
  PROVE  EdgesOf(Remove(s, K)) = [k \in DOMAIN s.weights \ K |-> EdgesOf(s)[k]]
<1> DEFINE r == Remove(s, K)
<1>1. /\ r.weights = [k \in DOMAIN s.weights \ K |-> s.weights[k]]
      /\ r.ticks = [k \in DOMAIN s.ticks \ K |-> s.ticks[k]]
  BY DEF Remove, Without, Restrict
<1> HIDE DEF r
<1>2. EdgesOf(r) = [k \in DOMAIN s.weights \ K |->
                      [w |-> r.weights[k], last |-> LastActive(r, k)]]
  BY <1>1 DEF EdgesOf
<1>3. \A k \in DOMAIN s.weights \ K :
        r.weights[k] = s.weights[k] /\ LastActive(r, k) = Lookup(s.ticks, k)
  BY <1>1 DEF LastActive, Lookup
<1> QED
  BY <1>2, <1>3, EdgesShape DEF r

\* The edges after strengthening and decay, before the first prune.
LEMMA ScaledReads ==
  ASSUME NEW s, InStep(s), NEW K, NEW t
  PROVE  /\ DOMAIN EdgesOf(ScaleAll(Strengthen(s, K, t))) = DOMAIN s.weights \cup K
         /\ \A k \in DOMAIN s.weights \cup K :
              EdgesOf(ScaleAll(Strengthen(s, K, t)))[k] = X!Ticked(EdgesOf(s), K, t, k)
<1> DEFINE D == DOMAIN s.weights \cup K
           up(k) == IF k \notin K THEN s.weights[k]
                    ELSE IF k \notin DOMAIN s.weights THEN WInit
                    ELSE IF s.weights[k] + Delta < WMax THEN s.weights[k] + Delta ELSE WMax
           a == ApplyIncrements(s, K)
           b == Touch(a, K, t)
           c == ScaleAll(b)
<1>1. a.weights = [k \in D |-> up(k)] /\ a.ticks = s.ticks /\ InStep(a)
  BY ApplyIncrementsInStep DEF ApplyIncrements, InStep
<1> HIDE DEF a, up
<1>2. /\ b.weights = a.weights /\ InStep(b)
      /\ b.ticks = [k \in DOMAIN s.ticks \cup K |-> IF k \in K THEN t ELSE s.ticks[k]]
  <2>1. b.ticks = Put(a.ticks, K \cap DOMAIN a.weights, t)
    BY <1>1 DEF Touch, InStep
  <2>2. K \cap DOMAIN a.weights = K
    BY <1>1
  <2> HIDE DEF b
  <2>3. b.ticks = [k \in DOMAIN s.ticks \cup K |-> IF k \in K THEN t ELSE s.ticks[k]]
    BY <1>1, <2>1, <2>2 DEF Put
  <2> QED
    BY <1>1, <2>3, TouchInStep, TouchEdges DEF b
<1> HIDE DEF b
<1>3. c.weights = [k \in D |-> Decayed[up(k)]] /\ c.ticks = b.ticks
  BY <1>1, <1>2 DEF ScaleAll, InStep
<1> HIDE DEF c
<1>4. EdgesOf(c) = [k \in D |-> [w |-> Decayed[up(k)], last |-> LastActive(c, k)]]
  BY <1>3 DEF EdgesOf
<1>5. ASSUME NEW k \in D
      PROVE  [w |-> Decayed[up(k)], last |-> LastActive(c, k)]
               = X!Ticked(EdgesOf(s), K, t, k)
  <2> DEFINE E == EdgesOf(s)
  <2>0. /\ DOMAIN E = DOMAIN s.weights
        /\ \A i \in DOMAIN E : E[i].w = s.weights[i] /\ E[i].last = Lookup(s.ticks, i)
    BY EdgesShape
  <2> HIDE DEF E
  <2>1. ASSUME k \in K
        PROVE  [w |-> Decayed[up(k)], last |-> LastActive(c, k)] = X!Ticked(E, K, t, k)
    <3>1. LastActive(c, k) = t
      BY <1>2, <1>3, <2>1 DEF LastActive, Lookup
    <3>2. up(k) = X!Raised(E, k)
      BY <2>0, <2>1 DEF up, X!Raised
    <3> QED
      BY <2>1, <3>1, <3>2 DEF X!Ticked
  <2>2. ASSUME k \notin K
        PROVE  [w |-> Decayed[up(k)], last |-> LastActive(c, k)] = X!Ticked(E, K, t, k)
    <3>1. k \in DOMAIN s.weights
      BY <2>2
    <3>2. LastActive(c, k) = Lookup(s.ticks, k)
      BY <1>2, <1>3, <2>2 DEF LastActive, Lookup
    <3>3. up(k) = s.weights[k]
      BY <2>2 DEF up
    <3> QED
      BY <2>0, <2>2, <3>1, <3>2, <3>3 DEF X!Ticked
  <2> QED
    BY <2>1, <2>2 DEF E
<1>6. DOMAIN EdgesOf(c) = D /\ \A k \in D : EdgesOf(c)[k] = X!Ticked(EdgesOf(s), K, t, k)
  BY <1>4, <1>5
<1> QED
  BY <1>6 DEF Strengthen, a, b, c

\* Every edge of a tick has a weight to compare, and is not from the future.
LEMMA TickedShape ==
  ASSUME NEW t \in Nat, NEW u \in Nat, u <= t, NEW s, Bounded(s, Positive, u), NEW K,
         NEW k \in DOMAIN s.weights \cup K
  PROVE  LET e == X!Ticked(EdgesOf(s), K, t, k)
         IN  e.w \in Weight /\ e.last \in 0 .. t
<1> DEFINE E == EdgesOf(s)
<1>1. /\ DOMAIN E = DOMAIN s.weights
      /\ \A i \in DOMAIN E : E[i].w \in Weight /\ E[i].last \in 0 .. t
  <2>1. /\ DOMAIN E = DOMAIN s.weights
        /\ \A i \in DOMAIN E : E[i].w = s.weights[i] /\ E[i].last = Lookup(s.ticks, i)
    BY EdgesShape
  <2>2. \A i \in DOMAIN s.weights : s.weights[i] \in Weight
    BY DEF Bounded, Positive
  <2>3. \A i : Lookup(s.ticks, i) \in 0 .. t
    <3>1. \A i \in DOMAIN s.ticks : s.ticks[i] \in 0 .. u
      BY DEF Bounded
    <3>2. 0 \in 0 .. t /\ \A n \in 0 .. u : n \in 0 .. t
      OBVIOUS
    <3> QED
      BY <3>1, <3>2 DEF Lookup
  <2> HIDE DEF E
  <2>4. ASSUME NEW i \in DOMAIN E PROVE E[i].w \in Weight /\ E[i].last \in 0 .. t
    <3>1. E[i].w = s.weights[i] /\ E[i].last = Lookup(s.ticks, i)
      BY <2>1
    <3> QED
      BY <2>1, <2>2, <2>3, <3>1
  <2> QED
    BY <2>1, <2>4
<1> HIDE DEF E
<1>2. k \notin K => k \in DOMAIN E
  BY <1>1
<1>3. X!Raised(E, k) \in Weight
  BY <1>1, CrossConfigAssumption DEF X!Raised, Weight
<1>4. \A w \in Weight : Decayed[w] \in Weight
  BY CrossConfigAssumption
<1>5. t \in 0 .. t
  OBVIOUS
<1>6. X!Ticked(E, K, t, k).w \in Weight /\ X!Ticked(E, K, t, k).last \in 0 .. t
  BY <1>1, <1>2, <1>3, <1>4, <1>5 DEF X!Ticked
<1> QED
  BY <1>6 DEF E

LEMMA TickReads ==
  ASSUME NEW t \in Nat, NEW u \in Nat, u <= t, NEW s, Bounded(s, Positive, u), NEW K
  PROVE  EdgesOf(CrossTick(s, K, t)) = X!TickEdges(EdgesOf(s), K, t)
<1> DEFINE D == DOMAIN s.weights \cup K
           e(k) == X!Ticked(EdgesOf(s), K, t, k)
           c == ScaleAll(Strengthen(s, K, t))
           d == PruneBelow(c)
<1>1. DOMAIN EdgesOf(c) = D /\ \A k \in D : EdgesOf(c)[k] = e(k)
  <2>1. InStep(s)
    BY DEF Bounded
  <2> QED
    BY <2>1, ScaledReads
<1>2. \A k \in D : e(k).w \in Weight /\ e(k).last \in 0 .. t
  <2> TAKE k \in D
  <2>1. X!Ticked(EdgesOf(s), K, t, k).w \in Weight /\ X!Ticked(EdgesOf(s), K, t, k).last \in 0 .. t
    BY TickedShape
  <2> QED
    BY <2>1
<1>3. DOMAIN EdgesOf(s) \cup K = D
  BY EdgesShape
<1> HIDE DEF c, D, e
<1>4. DOMAIN c.weights = D /\ \A k \in D : c.weights[k] = e(k).w
  <2>1. /\ DOMAIN EdgesOf(c) = DOMAIN c.weights
        /\ \A k \in DOMAIN c.weights : EdgesOf(c)[k].w = c.weights[k]
    BY EdgesShape
  <2> QED
    BY <1>1, <2>1
<1>5. EdgesOf(d) = [k \in {k \in D : e(k).w >= MinWeight} |-> e(k)]
  <2>1. D \ {k \in DOMAIN c.weights : c.weights[k] < MinWeight}
          = {k \in D : e(k).w >= MinWeight}
    BY <1>2, <1>4, CrossConfigAssumption DEF Weight
  <2>2. EdgesOf(d) = [k \in D \ {k \in DOMAIN c.weights : c.weights[k] < MinWeight} |->
                        EdgesOf(c)[k]]
    BY <1>4, RemoveReads DEF PruneBelow
  <2> QED
    BY <1>1, <2>1, <2>2
<1> HIDE DEF d
<1>6. /\ DOMAIN d.weights = {k \in D : e(k).w >= MinWeight}
      /\ \A k \in DOMAIN d.weights : LastActive(d, k) = e(k).last
  <2>1. /\ DOMAIN EdgesOf(d) = {k \in D : e(k).w >= MinWeight}
        /\ \A k \in DOMAIN EdgesOf(d) : EdgesOf(d)[k] = e(k)
    BY <1>5
  <2>2. /\ DOMAIN EdgesOf(d) = DOMAIN d.weights
        /\ \A k \in DOMAIN d.weights : EdgesOf(d)[k].last = LastActive(d, k)
    BY EdgesShape DEF LastActive
  <2> QED
    BY <2>1, <2>2
<1>7. {k \in DOMAIN d.weights : Elapsed(t, LastActive(d, k)) > P1}
        = {k \in D : e(k).w >= MinWeight /\ ~(t - e(k).last <= P1)}
  <2>1. \A l \in 0 .. t : Elapsed(t, l) > P1 <=> ~(t - l <= P1)
    BY CrossConfigAssumption DEF Elapsed
  <2> QED
    BY <1>2, <1>6, <2>1
<1>8. EdgesOf(PruneInactive(d, t)) = [k \in {k \in D : X!Survives(e(k), t)} |-> e(k)]
  <2>1. DOMAIN d.weights \ {k \in DOMAIN d.weights : Elapsed(t, LastActive(d, k)) > P1}
          = {k \in D : X!Survives(e(k), t)}
    BY <1>6, <1>7 DEF X!Survives
  <2>2. EdgesOf(PruneInactive(d, t))
          = [k \in DOMAIN d.weights
                     \ {k \in DOMAIN d.weights : Elapsed(t, LastActive(d, k)) > P1} |->
               EdgesOf(d)[k]]
    BY RemoveReads DEF PruneInactive
  <2>3. \A k \in {k \in D : X!Survives(e(k), t)} : EdgesOf(d)[k] = e(k)
    BY <1>5 DEF X!Survives
  <2> QED
    BY <2>1, <2>2, <2>3
<1>9. X!TickEdges(EdgesOf(s), K, t) = [k \in {k \in D : X!Survives(e(k), t)} |-> e(k)]
  BY <1>3 DEF X!TickEdges, e
<1> QED
  BY <1>8, <1>9 DEF CrossTick, c, d

LEMMA SetReads ==
  ASSUME NEW s, InStep(s), NEW k, NEW w \in Weight
  PROVE  LET E == EdgesOf(s)
             R == EdgesOf(Set(s, k, w))
         IN  \/ w = 0 /\ R = Without(E, {k})
             \/ w > 0 /\ R = Put(E, {k}, [w |-> w, last |-> IF k \in DOMAIN E
                                                            THEN E[k].last ELSE 0])
<1> DEFINE E == EdgesOf(s)
           r == Set(s, k, w)
<1>0. /\ DOMAIN E = DOMAIN s.weights
      /\ \A i \in DOMAIN E : E[i] = [w |-> s.weights[i], last |-> Lookup(s.ticks, i)]
  BY EdgesShape
<1> HIDE DEF E
<1>1. ASSUME w = 0 PROVE EdgesOf(r) = Without(E, {k})
  <2>1. /\ r.weights = [i \in DOMAIN s.weights \ {k} |-> s.weights[i]]
        /\ r.ticks = [i \in DOMAIN s.ticks \ {k} |-> s.ticks[i]]
    BY <1>1 DEF Set, Without, Restrict
  <2> HIDE DEF r
  <2>2. \A i \in DOMAIN s.weights \ {k} : [w |-> r.weights[i], last |-> LastActive(r, i)] = E[i]
    BY <1>0, <2>1 DEF LastActive, Lookup
  <2>3. EdgesOf(r) = [i \in DOMAIN s.weights \ {k} |-> E[i]]
    BY <2>1, <2>2 DEF EdgesOf
  <2>4. Without(E, {k}) = [i \in DOMAIN s.weights \ {k} |-> E[i]]
    BY <1>0 DEF Without, Restrict
  <2> QED
    BY <2>3, <2>4
<1>2. ASSUME w # 0
      PROVE  EdgesOf(r) = Put(E, {k}, [w |-> w, last |-> IF k \in DOMAIN E
                                                         THEN E[k].last ELSE 0])
  <2>1. /\ r.weights = [i \in DOMAIN s.weights \cup {k} |-> IF i \in {k} THEN w ELSE s.weights[i]]
        /\ r.ticks = s.ticks
    BY <1>2 DEF Set, Put, InStep
  <2> HIDE DEF r
  <2>2. Lookup(s.ticks, k) = IF k \in DOMAIN E THEN E[k].last ELSE 0
    BY <1>0 DEF Lookup, InStep
  <2>3. EdgesOf(r) = [i \in DOMAIN s.weights \cup {k} |->
                        [w |-> IF i \in {k} THEN w ELSE s.weights[i],
                         last |-> Lookup(s.ticks, i)]]
    BY <2>1 DEF EdgesOf, LastActive
  <2> DEFINE v == [w |-> w, last |-> IF k \in DOMAIN E THEN E[k].last ELSE 0]
  <2>4. \A i \in DOMAIN s.weights \cup {k} :
          [w |-> IF i \in {k} THEN w ELSE s.weights[i], last |-> Lookup(s.ticks, i)]
            = IF i \in {k} THEN v ELSE E[i]
    BY <1>0, <2>2
  <2> HIDE DEF v
  <2>5. Put(E, {k}, v) = [i \in DOMAIN s.weights \cup {k} |-> IF i \in {k} THEN v ELSE E[i]]
    BY <1>0 DEF Put
  <2> QED
    BY <2>3, <2>4, <2>5 DEF v
<1>3. w = 0 \/ w > 0
  BY CrossConfigAssumption DEF Weight
<1>4. w > 0 => w # 0
  OBVIOUS
<1> QED
  BY <1>1, <1>2, <1>3, <1>4 DEF E, r

LEMMA TouchReads ==
  ASSUME NEW s, InStep(s), NEW k, NEW t
  PROVE  EdgesOf(Touch(s, {k}, t))
           = IF k \in DOMAIN EdgesOf(s) THEN [EdgesOf(s) EXCEPT ![k].last = t] ELSE EdgesOf(s)
<1> DEFINE E == EdgesOf(s)
           r == Touch(s, {k}, t)
           K == {k} \cap DOMAIN s.weights
<1>1. /\ DOMAIN E = DOMAIN s.weights
      /\ \A i \in DOMAIN E : E[i] = [w |-> s.weights[i], last |-> Lookup(s.ticks, i)]
      /\ E = [i \in DOMAIN s.weights |-> E[i]]
  BY EdgesShape DEF EdgesOf
<1>2. /\ r.weights = s.weights
      /\ r.ticks = [i \in DOMAIN s.ticks \cup K |-> IF i \in K THEN t ELSE s.ticks[i]]
  BY DEF Touch, Put, InStep
<1> HIDE DEF E, r
<1>3. EdgesOf(r) = [i \in DOMAIN s.weights |->
                      [w |-> s.weights[i], last |-> IF i = k THEN t ELSE Lookup(s.ticks, i)]]
  <2>1. \A i \in DOMAIN s.weights :
          LastActive(r, i) = IF i = k THEN t ELSE Lookup(s.ticks, i)
    BY <1>2 DEF LastActive, Lookup
  <2> QED
    BY <1>2, <2>1 DEF EdgesOf
<1>4. ASSUME k \in DOMAIN E PROVE EdgesOf(r) = [E EXCEPT ![k].last = t]
  <2>1. \A i \in DOMAIN E :
          [w |-> s.weights[i], last |-> IF i = k THEN t ELSE Lookup(s.ticks, i)]
            = IF i = k THEN [E[i] EXCEPT !.last = t] ELSE E[i]
    <3> TAKE i \in DOMAIN E
    <3>1. E[i] = [w |-> s.weights[i], last |-> Lookup(s.ticks, i)]
      BY <1>1
    <3>2. [E[i] EXCEPT !.last = t] = [w |-> s.weights[i], last |-> t]
      BY <3>1
    <3> QED
      BY <3>1, <3>2
  <2>2. [E EXCEPT ![k].last = t]
          = [i \in DOMAIN E |-> IF i = k THEN [E[i] EXCEPT !.last = t] ELSE E[i]]
    BY <1>1, <1>4
  <2> QED
    BY <1>1, <1>3, <2>1, <2>2
<1>5. ASSUME k \notin DOMAIN E PROVE EdgesOf(r) = E
  <2>1. \A i \in DOMAIN s.weights :
          [w |-> s.weights[i], last |-> IF i = k THEN t ELSE Lookup(s.ticks, i)] = E[i]
    BY <1>1, <1>5
  <2> QED
    BY <1>1, <1>3, <2>1
<1> QED
  BY <1>4, <1>5 DEF E, r

(***************************************************************************)
(* Renumbering.  Both kinds of maps keep the order of the positions.       *)
(***************************************************************************)
LEMMA IdentityIndexes ==
  ASSUME NEW us, DOMAIN us \subseteq Node
  PROVE  Identity(us) \in X!IndexMaps
<1>1. Identity(us) \in [DOMAIN us -> Node]
  BY DEF Identity
<1>2. \A p, q \in DOMAIN Identity(us) : p < q => Identity(us)[p] < Identity(us)[q]
  BY DEF Identity
<1> QED
  BY <1>1, <1>2 DEF X!IndexMaps

LEMMA CompactionIndexes ==
  ASSUME NEW us, Vector(us), DOMAIN us \subseteq Node,
         NEW kept \in Enumerations(V1!Living(us), Len(us))
  PROVE  /\ OldToNew(kept) \in X!IndexMaps
         /\ DOMAIN Picked(us, kept) \subseteq Node
<1> DEFINE N == Len(us)
           L == V1!Living(us)
           f == OldToNew(kept)
<1>1. N \in Nat /\ DOMAIN us = 1 .. N /\ L \subseteq 1 .. N
  BY DEF Vector, V1!Living
<1>2. 1 .. N \subseteq Node
  BY <1>1
<1>3. PICK m \in 0 .. N : kept \in [1 .. m -> L]
  BY DEF Enumerations
<1>4. Range(kept) = L /\ \A p, q \in 1 .. m : p < q => kept[p] < kept[q]
  BY <1>3 DEF Enumerations, IsEnumeration
<1> HIDE DEF L
<1>5. m \in Nat /\ 1 .. m \subseteq 1 .. N
  BY <1>1
<1>6. 1 .. m \subseteq Node
  BY <1>2, <1>5
<1>7. DOMAIN Picked(us, kept) \subseteq Node
  BY <1>3, <1>6 DEF Picked
<1>8. f = [i \in L |-> CHOOSE n \in 1 .. m : kept[n] = i]
  BY <1>3, <1>4 DEF OldToNew
<1>9. ASSUME NEW i \in L PROVE f[i] \in 1 .. m /\ kept[f[i]] = i
  <2>1. \E n \in 1 .. m : kept[n] = i
    BY <1>3, <1>4 DEF Range
  <2> HIDE DEF f
  <2> QED
    BY <1>8, <2>1
<1> HIDE DEF f
<1>10. f \in [L -> Node]
  BY <1>6, <1>8, <1>9
<1>11. ASSUME NEW p \in L, NEW q \in L, p < q PROVE f[p] < f[q]
  <2>1. /\ f[p] \in 1 .. m /\ kept[f[p]] = p
        /\ f[q] \in 1 .. m /\ kept[f[q]] = q
    BY <1>9
  <2>2. p \in 1 .. N /\ q \in 1 .. N
    BY <1>1 DEF L
  <2>3. ~(f[q] < f[p]) /\ f[q] # f[p]
    BY <1>1, <1>4, <1>11, <2>1, <2>2
  <2> QED
    BY <1>5, <2>1, <2>3
<1>12. L \subseteq Node
  BY <1>1, <1>2 DEF L
<1>13. f \in X!IndexMaps
  <2>1. DOMAIN f = L
    BY <1>8
  <2> QED
    BY <1>10, <1>11, <1>12, <2>1 DEF X!IndexMaps
<1> QED
  BY <1>7, <1>13 DEF f

LEMMA IndexesMergeNothing ==
  ASSUME NEW f \in X!IndexMaps
  PROVE  \A p, q \in DOMAIN f : f[p] = f[q] => p = q
<1>1. /\ \A p \in DOMAIN f : p \in Node /\ f[p] \in Node
      /\ \A p, q \in DOMAIN f : p < q => f[p] < f[q]
  BY DEF X!IndexMaps
<1>2. \A p \in Node : p \in Int
  BY GestaltAssumption DEF Node
<1> QED
  BY <1>1, <1>2
LEMMA ReindexReads ==
  ASSUME InStep(cross), Paired, NEW f1 \in X!IndexMaps, NEW f2 \in X!IndexMaps,
         cross' = Reindex(cross, f1, f2), UNCHANGED now
  PROVE  X!Renumber(f1, f2)
<1> DEFINE K == DOMAIN cross.weights
           S == Staying(f1, f2, K)
<1>1. /\ cross'.weights = Renumber(f1, f2, cross.weights)
      /\ cross'.ticks = Renumber(f1, f2, cross.ticks)
  BY DEF Reindex
<1>2. DOMAIN LiveEdges = K /\ DOMAIN LiveEdges' = DOMAIN cross'.weights
  BY DEF LiveEdges, EdgesOf
<1>3. DOMAIN cross'.weights = {Renamed(f1, f2, o) : o \in S}
  BY <1>1 DEF Renumber
<1>4. {k \in DOMAIN LiveEdges : k[1] \in DOMAIN f1 /\ k[2] \in DOMAIN f2} = S
  BY <1>2 DEF Staying
<1>5. \A k : X!Moved(f1, f2, k) = Renamed(f1, f2, k)
  BY DEF X!Moved, Renamed
<1>6. ASSUME NEW k \in S PROVE LiveEdges'[Renamed(f1, f2, k)] = LiveEdges[k]
  <2> DEFINE i == k[1]
             j == k[2]
             n == <<f1[i], f2[j]>>
  <2>1. k \in K /\ k = <<i, j>> /\ i \in DOMAIN f1 /\ j \in DOMAIN f2
    BY DEF Staying, Paired, ArePairs
  <2>2. ArePairs(DOMAIN cross.weights) /\ ArePairs(DOMAIN cross.ticks)
    BY DEF Paired, ArePairs, InStep
  <2>3. /\ Lookup(cross'.weights, n) = Lookup(cross.weights, <<i, j>>)
        /\ Lookup(cross'.ticks, n) = Lookup(cross.ticks, <<i, j>>)
    <3>1. /\ \A p, q \in DOMAIN f1 : f1[p] = f1[q] => p = q
          /\ \A p, q \in DOMAIN f2 : f2[p] = f2[q] => p = q
      BY IndexesMergeNothing
    <3> HIDE DEF i, j
    <3> QED
      BY <1>1, <2>1, <2>2, <3>1, RenumberReads DEF n
  <2>4. n = Renamed(f1, f2, k) /\ n \in DOMAIN cross'.weights
    BY <1>3 DEF Renamed
  <2> HIDE DEF i, j, n
  <2>5. cross'.weights[n] = cross.weights[k] /\ Lookup(cross'.ticks, n) = Lookup(cross.ticks, k)
    BY <2>1, <2>3, <2>4 DEF Lookup
  <2>6. LiveEdges'[n] = [w |-> cross'.weights[n], last |-> Lookup(cross'.ticks, n)]
    BY <2>4 DEF LiveEdges, EdgesOf, LastActive
  <2>7. LiveEdges[k] = [w |-> cross.weights[k], last |-> Lookup(cross.ticks, k)]
    BY <2>1 DEF LiveEdges, EdgesOf, LastActive
  <2> QED
    BY <2>4, <2>5, <2>6, <2>7
<1> HIDE DEF S, K
<1>7. DOMAIN LiveEdges' = {X!Moved(f1, f2, k) : k \in S}
  BY <1>2, <1>3, <1>5
<1>8. \A k \in S : LiveEdges'[X!Moved(f1, f2, k)] = LiveEdges[k]
  BY <1>5, <1>6
<1> QED
  BY <1>4, <1>7, <1>8 DEF X!Renumber

(***************************************************************************)
(* Neither modality outgrows the positions an edge may have.               *)
(***************************************************************************)
Sized == DOMAIN units1 \subseteq Node /\ DOMAIN units2 \subseteq Node

LEMMA Tick1Sized ==
  ASSUME Vector(units1), NEW c \in Class \cup {NoClass}, NEW grew, NEW best,
         V1!Tick(c, grew, best)
  PROVE  DOMAIN units1' \subseteq Node
<1> DEFINE us == V1!Grown(c, grew)
<1>1. Vector(us)
  BY GrownShape DEF V1!Grown
<1>2. Len(us) <= MaxKernels /\ DOMAIN units1' = DOMAIN us
  BY DEF V1!Tick
<1> HIDE DEF us
<1>3. DOMAIN us = 1 .. Len(us) /\ Len(us) \in Nat
  BY <1>1 DEF Vector
<1> QED
  BY <1>2, <1>3, GestaltAssumption DEF Node

LEMMA Tick2Sized ==
  ASSUME Vector(units2), NEW c \in Class \cup {NoClass}, NEW grew, NEW best,
         V2!Tick(c, grew, best)
  PROVE  DOMAIN units2' \subseteq Node
<1> DEFINE us == V2!Grown(c, grew)
<1>1. Vector(us)
  BY GrownShape DEF V2!Grown
<1>2. Len(us) <= MaxKernels /\ DOMAIN units2' = DOMAIN us
  BY DEF V2!Tick
<1> HIDE DEF us
<1>3. DOMAIN us = 1 .. Len(us) /\ Len(us) \in Nat
  BY <1>1 DEF Vector
<1> QED
  BY <1>2, <1>3, GestaltAssumption DEF Node

LEMMA MarkSized ==
  ASSUME NEW us, NEW i
  PROVE  DOMAIN [us EXCEPT ![i].extinct = TRUE] = DOMAIN us
OBVIOUS

LEMMA NextSized == EndsOK /\ Sized /\ [Next]_vars => Sized'
<1> SUFFICES ASSUME EndsOK, Sized, [Next]_vars PROVE Sized'
  OBVIOUS
<1>1. Vector(units1) /\ Vector(units2)
  BY DEF EndsOK
<1>2. ASSUME NEW c \in Class \cup {NoClass}, NEW t, NEW grew1, NEW grew2, NEW best1, NEW best2,
             Tick(c, t, grew1, best1, grew2, best2)
      PROVE  Sized'
  BY <1>1, <1>2, Tick1Sized, Tick2Sized DEF Tick, Sized
<1>3. ASSUME NEW kept1 \in V1!Survivors, NEW kept2 \in V2!Survivors, Compact(kept1, kept2)
      PROVE  Sized'
  <2>1. /\ kept1 \in Enumerations(V1!Living(units1), Len(units1))
        /\ kept2 \in Enumerations(V1!Living(units2), Len(units2))
        /\ units1' = Picked(units1, kept1) /\ units2' = Picked(units2, kept2)
    BY <1>3, SurvivorsShape DEF Compact, V1!CompactTo, V2!CompactTo
  <2> QED
    BY <1>1, <2>1, CompactionIndexes DEF Sized
<1>4. ASSUME NEW kept \in V1!Survivors, CompactModal1(kept)
      PROVE  Sized'
  <2>1. /\ kept \in Enumerations(V1!Living(units1), Len(units1))
        /\ units1' = Picked(units1, kept) /\ units2' = units2
    BY <1>4, SurvivorsShape DEF CompactModal1, V1!CompactTo
  <2> QED
    BY <1>1, <2>1, CompactionIndexes DEF Sized
<1>5. ASSUME NEW kept \in V2!Survivors, CompactModal2(kept)
      PROVE  Sized'
  <2>1. /\ kept \in Enumerations(V1!Living(units2), Len(units2))
        /\ units2' = Picked(units2, kept) /\ units1' = units1
    BY <1>5, SurvivorsShape DEF CompactModal2, V2!CompactTo
  <2> QED
    BY <1>1, <2>1, CompactionIndexes DEF Sized
<1>6. CASE Extinguish
  BY <1>6, MarkSized DEF Extinguish, V1!MarkExtinct, V2!MarkExtinct, Sized
<1>7. CASE UNCHANGED <<units1, units2>>
  BY <1>7 DEF Sized
<1> QED
  BY <1>2, <1>3, <1>4, <1>5, <1>6, <1>7 DEF Next, SetCross, TouchCross, vars

ImplInv == EndsOK /\ Paired /\ Sized /\ now \in Nat /\ Bounded(cross, Positive, now)

LEMMA TickImplementsEdges ==
  ASSUME ImplInv, NEW c \in Class \cup {NoClass}, NEW t, NEW grew1, NEW best1,
         NEW grew2, NEW best2, Tick(c, t, grew1, best1, grew2, best2)
  PROVE  X!Next
<1>1. DOMAIN units1' \subseteq Node /\ DOMAIN units2' \subseteq Node
  BY Tick1Sized, Tick2Sized DEF Tick, ImplInv, EndsOK
<1>2. PICK A1 \in Activated(units1', best1), A2 \in Activated(units2', best2) :
        cross' = CrossTick(cross,
                           Pairing(A1, A2, Labels(units1'), Labels(units2'), NoClass), t)
  BY DEF Tick
<1> DEFINE K == Pairing(A1, A2, Labels(units1'), Labels(units2'), NoClass)
<1>3. K \in SUBSET X!Pair
  <2>1. A1 \subseteq Node /\ A2 \subseteq Node
    BY <1>1, <1>2 DEF Activated, V1!Living
  <2> QED
    BY <2>1 DEF Pairing, X!Pair
<1> HIDE DEF K
<1>4. t \in Nat /\ now <= t /\ t \in now .. MaxTick /\ t \in 0 .. MaxTick /\ now' = t
  BY GestaltAssumption DEF Tick, ImplInv
<1>5. EdgesOf(CrossTick(cross, K, t)) = X!TickEdges(EdgesOf(cross), K, t)
  BY <1>4, TickReads DEF ImplInv
<1>6. LiveEdges' = X!TickEdges(LiveEdges, K, t)
  BY <1>2, <1>5 DEF LiveEdges, K
<1>7. X!Tick(K, t)
  BY <1>4, <1>6 DEF X!Tick
<1> QED
  BY <1>3, <1>4, <1>7 DEF X!Next

\* A renumbering of one side or of both.
LEMMA CompactionImplements ==
  ASSUME ImplInv,
         \/ \E kept1 \in V1!Survivors, kept2 \in V2!Survivors : Compact(kept1, kept2)
         \/ \E kept \in V1!Survivors : CompactModal1(kept)
         \/ \E kept \in V2!Survivors : CompactModal2(kept)
  PROVE  X!Next
<1>1. Vector(units1) /\ Vector(units2) /\ InStep(cross) /\ Paired /\ Sized
  BY DEF ImplInv, EndsOK
<1>2. Identity(units1) \in X!IndexMaps /\ Identity(units2) \in X!IndexMaps
  BY <1>1, IdentityIndexes DEF Sized
<1>3. \A kept \in V1!Survivors : OldToNew(kept) \in X!IndexMaps
  BY <1>1, SurvivorsShape, CompactionIndexes DEF Sized
<1>4. \A kept \in V2!Survivors : OldToNew(kept) \in X!IndexMaps
  BY <1>1, SurvivorsShape, CompactionIndexes DEF Sized
<1>5. PICK f1 \in X!IndexMaps, f2 \in X!IndexMaps :
        cross' = Reindex(cross, f1, f2) /\ UNCHANGED now
  BY <1>2, <1>3, <1>4 DEF Compact, CompactModal1, CompactModal2
<1>6. X!Renumber(f1, f2)
  BY <1>1, <1>5, ReindexReads
<1> QED
  BY <1>6 DEF X!Next

LEMMA ClientImplements ==
  ASSUME ImplInv, NEW k \in ClientEdges, NEW w \in Weight, SetCross(k, w) \/ TouchCross(k)
  PROVE  [X!Next]_(X!vars)
<1>1. InStep(cross) /\ k \in X!Pair /\ w \in X!Weight
  BY GestaltAssumption DEF ImplInv, EndsOK, X!Pair, X!Weight, Weight
<1>2. CASE SetCross(k, w)
  <2>1. cross' = Set(cross, k, w) /\ now' = now
    BY <1>2 DEF SetCross
  <2>2. LiveEdges' = EdgesOf(Set(cross, k, w)) /\ LiveEdges = EdgesOf(cross)
    BY <2>1 DEF LiveEdges
  <2>3. /\ \A m, K : X!Without(m, K) = Without(m, K)
        /\ \A m, K, v : X!Put(m, K, v) = Put(m, K, v)
    BY DEF X!Without, Without, X!Restrict, Restrict, X!Put, Put
  <2>4. X!Set(k, w)
    BY <1>1, <2>1, <2>2, <2>3, SetReads DEF X!Set
  <2> QED
    BY <1>1, <2>4 DEF X!Next
<1>3. CASE TouchCross(k)
  <2>1. cross' = Touch(cross, {k}, now) /\ now' = now
    BY <1>3 DEF TouchCross
  <2>2. LiveEdges' = IF k \in DOMAIN LiveEdges
                     THEN [LiveEdges EXCEPT ![k].last = now] ELSE LiveEdges
    BY <1>1, <2>1, TouchReads DEF LiveEdges
  <2>3. CASE k \in DOMAIN LiveEdges
    <3>1. X!Touch(k)
      BY <2>1, <2>2, <2>3 DEF X!Touch
    <3> QED
      BY <1>1, <3>1 DEF X!Next
  <2>4. CASE k \notin DOMAIN LiveEdges
    BY <2>1, <2>2, <2>4 DEF X!vars
  <2> QED
    BY <2>3, <2>4
<1> QED
  BY <1>2, <1>3

(***************************************************************************)
(* The cross store implements CrossEdges: an edge is a weight and a last   *)
(* activation of its own, on which ticks, writes, touches and renumberings *)
(* of either side act by the per-edge law.                                 *)
(***************************************************************************)
THEOREM GestaltImplements == Spec => Implements
<1>1. Init => X!Init /\ ImplInv
  <2> SUFFICES ASSUME Init PROVE X!Init /\ ImplInv
    OBVIOUS
  <2>1. units1 = <<>> /\ units2 = <<>> /\ cross = NewStore /\ now = 0
    BY DEF Init, V1!Init, V2!Init
  <2>2. InStep(cross) /\ DOMAIN cross.weights = {} /\ DOMAIN cross.ticks = {}
    BY <2>1, NewInStep DEF NewStore, EmptyMap
  <2>3. X!Init
    <3>1. LiveEdges = [k \in {} |-> [w |-> cross.weights[k], last |-> LastActive(cross, k)]]
      BY <2>2 DEF LiveEdges, EdgesOf
    <3> QED
      BY <2>1, <3>1 DEF X!Init, X!EmptyMap
  <2>4. Bounded(cross, Positive, now)
    BY <2>1, <2>2 DEF Bounded, NewStore, EmptyMap
  <2>5. EndsOK /\ Paired /\ Sized
    BY <2>1, <2>2 DEF EndsOK, Vector, EdgesJoinKernels, Paired, ArePairs, Sized
  <2> QED
    BY <2>1, <2>3, <2>4, <2>5 DEF ImplInv
<1>2. ImplInv /\ [Next]_vars => ImplInv'
  <2> SUFFICES ASSUME ImplInv, [Next]_vars PROVE ImplInv'
    OBVIOUS
  <2>1. EndsOK' /\ Paired' /\ Sized'
    BY NextEnds, NextPaired, NextSized DEF ImplInv
  <2>2. now' \in Nat /\ Bounded(cross', Positive, now')
    BY NextBounded DEF ImplInv
  <2>3. Bounded(cross', Positive, now') => Bounded(cross, Positive, now)'
    BY DEF Bounded, Positive, Weight, InStep
  <2> QED
    BY <2>1, <2>2, <2>3 DEF ImplInv
<1>3. ImplInv /\ [Next]_vars => [X!Next]_(X!vars)
  <2> SUFFICES ASSUME ImplInv, [Next]_vars PROVE [X!Next]_(X!vars)
    OBVIOUS
  <2>1. ASSUME NEW c \in Class \cup {NoClass}, NEW t, NEW grew1, NEW grew2,
               NEW best1, NEW best2, Tick(c, t, grew1, best1, grew2, best2)
        PROVE  X!Next
    BY <2>1, TickImplementsEdges
  <2>2. CASE \/ \E kept1 \in V1!Survivors, kept2 \in V2!Survivors : Compact(kept1, kept2)
             \/ \E kept \in V1!Survivors : CompactModal1(kept)
             \/ \E kept \in V2!Survivors : CompactModal2(kept)
    BY <2>2, CompactionImplements
  <2>3. CASE UNCHANGED <<cross, now>>
    BY <2>3 DEF X!vars, LiveEdges
  <2>4. ASSUME NEW k \in ClientEdges, NEW w \in Weight, SetCross(k, w)
        PROVE  [X!Next]_(X!vars)
    BY <2>4, ClientImplements
  <2>5. ASSUME NEW k \in ClientEdges, TouchCross(k)
        PROVE  [X!Next]_(X!vars)
    <3>1. 0 \in Weight
      BY CrossConfigAssumption DEF Weight
    <3> QED
      BY <2>5, <3>1, ClientImplements
  <2> QED
    BY <2>1, <2>2, <2>3, <2>4, <2>5 DEF Next, Extinguish, vars
<1> QED
  BY <1>1, <1>2, <1>3, PTL DEF Spec, Implements, X!Spec
=============================================================================
