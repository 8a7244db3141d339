--------------------------- MODULE CrossEdgeStore ---------------------------
(***************************************************************************)
(* CrossEdgeStore (sokm-multimodal/src/cross.rs): directed edges from the  *)
(* kernels of one modality to those of another, kept in three maps that    *)
(* every method has to change together: weights, ticks, and the sources of *)
(* each target, by which recall runs backwards.  The store is a record and *)
(* every method an operator on it.                                         *)
(*                                                                         *)
(* Weights are naturals in an arbitrary unit.  The lists reverse[j] are    *)
(* bags: reverse[<<i, j>>] is how often i is listed in reverse[j].         *)
(***************************************************************************)
EXTENDS FiniteMaps, FiniteSets

CONSTANTS
  MaxWeight,         \* bound: the largest weight a client may store
  WInit,             \* CrossSokmConfig::w_init
  WMax,              \* CrossSokmConfig::w_max
  MinWeight,         \* CrossSokmConfig::min_weight
  Delta,             \* CrossSokmConfig::delta
  P1,                \* CrossSokmConfig::p1
  Decayed,           \* Decayed[w]: w multiplied by exp(-xi)
  RequireClassMatch  \* CrossSokmConfig::require_class_match

Weight == 0 .. MaxWeight

(***************************************************************************)
(* CrossSokmConfig::validate, except that it would accept a w_init and a   *)
(* min_weight of 0, and with them edges of weight 0.                       *)
(***************************************************************************)
ASSUME CrossConfigAssumption ==
  /\ MaxWeight \in Nat
  /\ WInit \in Nat \ {0} /\ WMax \in Nat /\ WInit <= WMax /\ WMax <= MaxWeight
  /\ MinWeight \in Nat \ {0}
  /\ Delta \in Nat /\ P1 \in Nat
  /\ Decayed \in [Weight -> Weight]
  /\ \A w \in Weight : Decayed[w] <= w
  /\ RequireClassMatch \in BOOLEAN

NewStore == [weights |-> EmptyMap, ticks |-> EmptyMap, reverse |-> EmptyMap]

Weigh(s, k) == Lookup(s.weights, k)
LastActive(s, k) == Lookup(s.ticks, k)

\* sources: the listed ones that have a weight
Sources(s, j) == {k \in DOMAIN s.reverse : k[2] = j /\ k \in DOMAIN s.weights}
Targets(s, i) == {k \in DOMAIN s.weights : k[1] = i}

Listed(reverse, K) ==
  [k \in DOMAIN reverse \cup K |-> Lookup(reverse, k) + IF k \in K THEN 1 ELSE 0]

\* Mutant: the ticks of removed edges stay.
RemoveKeepsTicks(s, K) ==
  [s EXCEPT !.weights = Without(@, K), !.reverse = Without(@, K)]

\* Mutant: a target keeps its list as long as it has another source.
RemoveKeepsSources(s, K) ==
  [weights |-> Without(s.weights, K),
   ticks   |-> Without(s.ticks, K),
   reverse |-> Without(s.reverse, {k \in K : Sources(s, k[2]) \subseteq K})]

Remove(s, K) ==
  [weights |-> Without(s.weights, K),
   ticks   |-> Without(s.ticks, K),
   reverse |-> Without(s.reverse, K)]

\* Mutant: a weight of 0 is stored like any other.
SetZero(s, k, w) ==
  [s EXCEPT !.weights = Put(@, {k}, w),
            !.reverse = IF k \in DOMAIN s.weights THEN @ ELSE Listed(@, {k})]

\* Mutant: a source is listed again when its weight is replaced.
SetRelists(s, k, w) ==
  IF w = 0 THEN Remove(s, {k})
  ELSE [s EXCEPT !.weights = Put(@, {k}, w), !.reverse = Listed(@, {k})]

\* Only an edge that had a weight is taken off the list of its target.
Set(s, k, w) ==
  IF w = 0
  THEN [weights |-> Without(s.weights, {k}),
        ticks   |-> Without(s.ticks, {k}),
        reverse |-> IF k \in DOMAIN s.weights THEN Without(s.reverse, {k}) ELSE s.reverse]
  ELSE [s EXCEPT !.weights = Put(@, {k}, w),
                 !.reverse = IF k \in DOMAIN s.weights THEN @ ELSE Listed(@, {k})]

\* Mutant: the phantom entry.
TouchAny(s, K, t) == [s EXCEPT !.ticks = Put(@, K, t)]

Touch(s, K, t) == [s EXCEPT !.ticks = Put(@, K \cap DOMAIN s.weights, t)]

ApplyIncrements(s, K) ==
  [s EXCEPT
     !.weights = [k \in DOMAIN @ \cup K |->
                    IF k \notin K THEN @[k]
                    ELSE IF k \notin DOMAIN @ THEN WInit
                    ELSE IF @[k] + Delta < WMax THEN @[k] + Delta ELSE WMax],
     !.reverse = Listed(@, K \ DOMAIN s.weights)]

Strengthen(s, K, t) == Touch(ApplyIncrements(s, K), K, t)

ScaleAll(s) == [s EXCEPT !.weights = [k \in DOMAIN @ |-> Decayed[@[k]]]]

PruneBelow(s) == Remove(s, {k \in DOMAIN s.weights : s.weights[k] < MinWeight})

PruneInactive(s, t) ==
  Remove(s, {k \in DOMAIN s.weights : Elapsed(t, LastActive(s, k)) > P1})

(***************************************************************************)
(* reindex: f1 and f2 map the old positions of the survivors of the two    *)
(* modalities to the new ones; the lists are rebuilt from the weights.     *)
(***************************************************************************)
Renamed(f1, f2, k) == <<f1[k[1]], f2[k[2]]>>
Staying(f1, f2, K) == {k \in K : k[1] \in DOMAIN f1 /\ k[2] \in DOMAIN f2}

Renumber(f1, f2, m) ==
  [k \in {Renamed(f1, f2, o) : o \in Staying(f1, f2, DOMAIN m)} |->
     m[CHOOSE o \in Staying(f1, f2, DOMAIN m) : Renamed(f1, f2, o) = k]]

\* Mutant: reverse is not cleared.
ReindexAppends(s, f1, f2) ==
  [weights |-> Renumber(f1, f2, s.weights),
   ticks   |-> Renumber(f1, f2, s.ticks),
   reverse |-> Listed(s.reverse, DOMAIN Renumber(f1, f2, s.weights))]

\* Mutant: the ticks are drained and not put back.
ReindexForgets(s, f1, f2) ==
  [weights |-> Renumber(f1, f2, s.weights),
   ticks   |-> EmptyMap,
   reverse |-> Listed(EmptyMap, DOMAIN Renumber(f1, f2, s.weights))]

\* Mutant: each map is applied to the other side.
ReindexSwapped(s, f1, f2) ==
  [weights |-> Renumber(f2, f1, s.weights),
   ticks   |-> Renumber(f2, f1, s.ticks),
   reverse |-> Listed(EmptyMap, DOMAIN Renumber(f2, f1, s.weights))]

Reindex(s, f1, f2) ==
  [weights |-> Renumber(f1, f2, s.weights),
   ticks   |-> Renumber(f1, f2, s.ticks),
   reverse |-> Listed(EmptyMap, DOMAIN Renumber(f1, f2, s.weights))]

\* Mutant: None == None is a match.
PairingOptions(A1, A2, class1, class2, none) ==
  {k \in A1 \X A2 : RequireClassMatch => class1[k[1]] = class2[k[2]]}

(***************************************************************************)
(* cross_strengthen_deltas: the pairs of activated kernels that strengthen *)
(* their edge.  Unlabelled kernels (none) never do.                        *)
(***************************************************************************)
Pairing(A1, A2, class1, class2, none) ==
  {k \in A1 \X A2 :
     /\ class1[k[1]] # none /\ class2[k[2]] # none
     /\ RequireClassMatch => class1[k[1]] = class2[k[2]]}
=============================================================================
