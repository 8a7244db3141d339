-------------------------------- MODULE Sokm --------------------------------
(***************************************************************************)
(* The vocabulary of the link layer (crate sokm): its configuration, the   *)
(* canonical edge keys, and the arithmetic of one Hebbian cycle.  Both edge stores, the   *)
(* abstract store they implement and the kernel graph are built on it.     *)
(*                                                                         *)
(* Weights, scores and the gain delta are naturals in an arbitrary unit;   *)
(* the decay factor exp(-xi) is a table Decayed.  Nothing in the link      *)
(* layer looks at a weight except through these operations and through     *)
(* comparisons with 0, w_max and min_weight.                               *)
(***************************************************************************)
EXTENDS FiniteMaps

CONSTANTS
  Node,       \* node (kernel) indices
  MaxWeight,  \* bound: the largest weight a client may store
  WInit,      \* SokmConfig::w_init
  WMax,       \* SokmConfig::w_max
  MinWeight,  \* SokmConfig::min_weight
  Delta,      \* SokmConfig::delta
  P1,         \* SokmConfig::p1
  Score,      \* the activation levels above 0
  Decayed     \* Decayed[w]: w multiplied by exp(-xi)

Weight == 0 .. MaxWeight

(***************************************************************************)
(* SokmConfig::validate, and what multiplying a weight by a factor in      *)
(* (0, 1) does when it does not underflow.                                 *)
(***************************************************************************)
ASSUME ConfigAssumption ==
  /\ Node \subseteq Nat
  /\ MaxWeight \in Nat
  /\ WInit \in Nat \ {0} /\ WMax \in Nat /\ WInit <= WMax /\ WMax <= MaxWeight
  /\ MinWeight \in Nat \ {0}
  /\ Delta \in Nat \ {0}
  /\ P1 \in Nat \ {0}
  /\ Score \subseteq Nat \ {0}
  /\ Decayed \in [Weight -> Weight]
  /\ \A w \in Weight : Decayed[w] <= w /\ (w > 0 => Decayed[w] > 0)

DecayMode == {"Apply", "Skip"}

(***************************************************************************)
(* Edge keys: (min, max) pairs; a self-loop is a key.                      *)
(***************************************************************************)
Key == {k \in Node \X Node : k[1] <= k[2]}

Canonical(a, b) == IF a <= b THEN <<a, b>> ELSE <<b, a>>

(***************************************************************************)
(* Hebbian strengthening.  act maps each activated node to its score; the  *)
(* callers in the repository never list a node twice.                      *)
(***************************************************************************)
Activation == UNION {[S -> Score] : S \in SUBSET Node}

Pairs(act) ==
  {k \in Key : k[1] # k[2] /\ k[1] \in DOMAIN act /\ k[2] \in DOMAIN act}

NewWeight(w, gain) ==
  IF w = 0 THEN WInit ELSE IF w + gain < WMax THEN w + gain ELSE WMax

\* The (key, new_w - current) list that strengthen collects before applying
\* any of it; w[k] is the weight get_weight reports for k.
Increments(w, act) ==
  [k \in Pairs(act) |-> NewWeight(w[k], Delta * act[k[1]] * act[k[2]]) - w[k]]

(***************************************************************************)
(* The index maps compact_extinct returns: the survivors, in order, onto   *)
(* an initial segment of the indices.  A node out of the domain is mapped  *)
(* to None.                                                                *)
(***************************************************************************)
IsIndexMap(f) ==
  /\ \A i, j \in DOMAIN f : i < j => f[i] < f[j]
  /\ \A j \in DOMAIN f : \A n \in Node : n < f[j] => n \in Range(f)

IndexMaps == {f \in UNION {[S -> Node] : S \in SUBSET Node} : IsIndexMap(f)}

MapKey(f, k) == Canonical(f[k[1]], f[k[2]])
Mapped(f, K) == {k \in K : k[1] \in DOMAIN f /\ k[2] \in DOMAIN f}

\* m with its keys renamed by f; keys with an endpoint mapped to None are gone.
Rekey(f, m) ==
  [k \in {MapKey(f, o) : o \in Mapped(f, DOMAIN m)} |->
     m[CHOOSE o \in Mapped(f, DOMAIN m) : MapKey(f, o) = k]]
=============================================================================
