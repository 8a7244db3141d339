----------------------------- MODULE SokmProofs -----------------------------
(***************************************************************************)
(* Lemmas about the vocabulary of the link layer, for every value of its   *)
(* constants.                                                              *)
(***************************************************************************)
EXTENDS Sokm, FiniteSetTheorems, TLAPS

(***************************************************************************)
(* canonical() returns an edge key.                                        *)
(***************************************************************************)
LEMMA CanonicalIsKey ==
  ASSUME NEW a \in Node, NEW b \in Node
  PROVE  Canonical(a, b) \in Key
<1>1. a \in Nat /\ b \in Nat
  BY ConfigAssumption
<1> QED
  BY <1>1 DEF Canonical, Key

(***************************************************************************)
(* Strengthening produces a positive weight within the bounds, whatever    *)
(* the weight before and the gain.                                         *)
(***************************************************************************)
LEMMA NewWeightInRange ==
  ASSUME NEW w \in Weight, NEW gain \in Nat
  PROVE  NewWeight(w, gain) \in Weight \ {0}
BY ConfigAssumption DEF NewWeight, Weight

(***************************************************************************)
(* The gain of a co-activated pair is a natural.                           *)
(***************************************************************************)
LEMMA ProductIsNat ==
  ASSUME NEW x \in Nat, NEW y \in Nat
  PROVE  x * y \in Nat
OBVIOUS

LEMMA ActivationShape ==
  ASSUME NEW act \in Activation
  PROVE  DOMAIN act \subseteq Node /\ \A n \in DOMAIN act : act[n] \in Nat \ {0}
<1>1. PICK S \in SUBSET Node : act \in [S -> Score]
  BY DEF Activation
<1> QED
  BY <1>1, ConfigAssumption

LEMMA GainIsNat ==
  ASSUME NEW act \in Activation, NEW k \in Pairs(act)
  PROVE  Delta * act[k[1]] * act[k[2]] \in Nat
<1>1. act[k[1]] \in Nat /\ act[k[2]] \in Nat
  BY ActivationShape DEF Pairs
<1>2. Delta * act[k[1]] \in Nat
  BY <1>1, ConfigAssumption, ProductIsNat
<1> QED
  BY <1>1, <1>2, ProductIsNat

(***************************************************************************)
(* Adding the collected increment to the weight it was computed from gives *)
(* the strengthened weight.                                                *)
(***************************************************************************)
LEMMA IncrementRestores ==
  ASSUME NEW act \in Activation, NEW w \in [Key -> Weight], NEW k \in Pairs(act)
  PROVE  w[k] + Increments(w, act)[k]
           = NewWeight(w[k], Delta * act[k[1]] * act[k[2]])
<1> DEFINE n == NewWeight(w[k], Delta * act[k[1]] * act[k[2]])
<1>1. k \in Key /\ w[k] \in Weight
  BY DEF Pairs
<1>2. n \in Weight
  BY <1>1, GainIsNat, NewWeightInRange
<1>3. n \in Int /\ w[k] \in Int
  BY <1>1, <1>2 DEF Weight
<1>4. Increments(w, act)[k] = n - w[k]
  BY DEF Increments
<1> HIDE DEF n
<1>5. w[k] + (n - w[k]) = n
  BY <1>3
<1> QED
  BY <1>4, <1>5 DEF n

(***************************************************************************)
(* An index map keeps a key canonical and never merges two keys: it is     *)
(* strictly increasing on the survivors.                                   *)
(***************************************************************************)
LEMMA IndexMapShape ==
  ASSUME NEW f \in IndexMaps
  PROVE  /\ DOMAIN f \subseteq Node
         /\ \A i \in DOMAIN f : f[i] \in Node
         /\ \A i \in DOMAIN f : i \in Nat /\ f[i] \in Nat
         /\ \A i, j \in DOMAIN f : i < j => f[i] < f[j]
<1>1. PICK S \in SUBSET Node : f \in [S -> Node]
  BY DEF IndexMaps
<1>2. IsIndexMap(f)
  BY DEF IndexMaps
<1> QED
  BY <1>1, <1>2, ConfigAssumption DEF IsIndexMap

LEMMA MapKeyIsKey ==
  ASSUME NEW f \in IndexMaps, NEW k \in Mapped(f, Key)
  PROVE  MapKey(f, k) \in Key
<1>1. f[k[1]] \in Node /\ f[k[2]] \in Node
  BY IndexMapShape DEF Mapped
<1> QED
  BY <1>1, CanonicalIsKey DEF MapKey

LEMMA MapKeyOrdered ==
  ASSUME NEW f \in IndexMaps, NEW k \in Mapped(f, Key)
  PROVE  MapKey(f, k) = <<f[k[1]], f[k[2]]>>
<1>1. /\ k[1] \in DOMAIN f /\ k[2] \in DOMAIN f
      /\ k[1] \in Nat /\ k[2] \in Nat /\ k[1] <= k[2]
      /\ f[k[1]] \in Nat /\ f[k[2]] \in Nat
  BY IndexMapShape DEF Mapped, Key
<1>2. \A i, j \in DOMAIN f : i < j => f[i] < f[j]
  BY IndexMapShape
<1>3. f[k[1]] <= f[k[2]]
  <2>1. CASE k[1] < k[2]
    BY <1>1, <1>2, <2>1
  <2>2. CASE k[1] = k[2]
    BY <1>1, <2>2
  <2> QED
    BY <1>1, <2>1, <2>2
<1> QED
  BY <1>3 DEF MapKey, Canonical

LEMMA MapKeyInjective ==
  ASSUME NEW f \in IndexMaps,
         NEW k \in Mapped(f, Key), NEW o \in Mapped(f, Key),
         MapKey(f, k) = MapKey(f, o)
  PROVE  k = o
<1>3. \A i, j \in DOMAIN f : f[i] = f[j] => i = j
  BY IndexMapShape
<1>4. f[k[1]] = f[o[1]] /\ f[k[2]] = f[o[2]]
  BY MapKeyOrdered
<1>5. k[1] = o[1] /\ k[2] = o[2]
  BY <1>3, <1>4 DEF Mapped
<1> QED
  BY <1>5 DEF Mapped, Key

(***************************************************************************)
(* Re-keying: the new domain, and the value at the image of a key.         *)
(***************************************************************************)
LEMMA RekeyDomain ==
  ASSUME NEW f \in IndexMaps, NEW m, DOMAIN m \subseteq Key
  PROVE  /\ DOMAIN Rekey(f, m) = {MapKey(f, o) : o \in Mapped(f, DOMAIN m)}
         /\ DOMAIN Rekey(f, m) \subseteq Key
<1>1. Mapped(f, DOMAIN m) \subseteq Mapped(f, Key)
  BY DEF Mapped
<1> QED
  BY <1>1, MapKeyIsKey DEF Rekey

LEMMA RekeyValue ==
  ASSUME NEW f \in IndexMaps, NEW m, DOMAIN m \subseteq Key,
         NEW o \in Mapped(f, DOMAIN m)
  PROVE  Rekey(f, m)[MapKey(f, o)] = m[o]
<1> DEFINE source(k) == CHOOSE p \in Mapped(f, DOMAIN m) : MapKey(f, p) = k
<1>1. Mapped(f, DOMAIN m) \subseteq Mapped(f, Key)
  BY DEF Mapped
<1>2. /\ source(MapKey(f, o)) \in Mapped(f, DOMAIN m)
      /\ MapKey(f, source(MapKey(f, o))) = MapKey(f, o)
  OBVIOUS
<1>3. source(MapKey(f, o)) = o
  BY <1>1, <1>2, MapKeyInjective
<1> QED
  BY <1>3 DEF Rekey

(***************************************************************************)
(* A finite set has an element that no other one precedes, in any strict   *)
(* order: what max_by and min_by return.                                   *)
(***************************************************************************)
LEMMA FirstExists ==
  ASSUME NEW S, IsFiniteSet(S), S # {}, NEW R,
         \A i \in S : <<i, i>> \notin R,
         \A i, j, k \in S : <<i, j>> \in R /\ <<j, k>> \in R => <<i, k>> \in R
  PROVE  \E m \in S : \A n \in S : <<n, m>> \notin R
<1> DEFINE before(i) == {j \in S : <<j, i>> \in R}
           T == {before(i) : i \in S}
           Strict == StrictSubsetOrdering(S)
<1>1. \A i \in S : before(i) \in SUBSET S /\ IsFiniteSet(before(i))
  BY FS_Subset
<1>2. ASSUME NEW i \in S, NEW n \in S, <<n, i>> \in R
      PROVE  before(n) \subseteq before(i) /\ before(n) # before(i)
  BY <1>2
<1> HIDE DEF before
<1>3. T \subseteq FiniteSubsetsOf(S) /\ T # {}
  BY <1>1 DEF FiniteSubsetsOf
<1>4. \E x \in T : \A y \in T : <<y, x>> \notin Strict
  <2> HIDE DEF T, Strict
  <2>1. IsWellFoundedOn(Strict, FiniteSubsetsOf(S))
    BY FS_StrictSubsetOrderingWellFounded DEF Strict
  <2> QED
    BY <1>3, <2>1, WFMin
<1>5. PICK m \in S : \A i \in S : <<before(i), before(m)>> \notin Strict
  BY <1>4
<1>6. ASSUME NEW n \in S, <<n, m>> \in R
      PROVE  FALSE
  BY <1>1, <1>2, <1>5, <1>6 DEF StrictSubsetOrdering
<1> QED
  BY <1>6

LEMMA MaxExists ==
  ASSUME NEW S \in SUBSET Nat, IsFiniteSet(S), S # {}
  PROVE  \E m \in S : \A n \in S : n <= m
<1> DEFINE R == {p \in S \X S : p[1] > p[2]}
<1>1. \A i, j \in S : <<i, j>> \in R <=> i > j
  OBVIOUS
<1>2. \A i, j, k \in S : i > j /\ j > k => i > k
  OBVIOUS
<1>3. \A i \in S : ~(i > i)
  OBVIOUS
<1> HIDE DEF R
<1>4. PICK m \in S : \A n \in S : <<n, m>> \notin R
  BY <1>1, <1>2, <1>3, FirstExists
<1>5. ASSUME NEW n \in S
      PROVE  n <= m
  <2>1. ~(n > m)
    BY <1>1, <1>4
  <2> QED
    BY <2>1
<1> QED
  BY <1>5
=============================================================================
