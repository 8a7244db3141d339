---------------------------- MODULE StoreParity -----------------------------
(***************************************************************************)
(* Both backends driven by the same calls.  The README of the crate says   *)
(* they produce identical results, and KernelGraph is generic over them    *)
(* without a word on which one it is given.                                *)
(***************************************************************************)
EXTENDS Sokm, FiniteSets

CONSTANTS MaxTick, Capacity, ClientKeys, MaxDead

ASSUME ParityAssumption ==
  /\ IsFiniteSet(Node)
  /\ MaxTick \in Nat /\ Capacity \in Nat
  /\ ClientKeys \subseteq Key

VARIABLES
  hash,    \* the HashEdgeStore
  sparse,  \* the SparseEdgeStore
  now      \* the caller's clock

vars == <<hash, sparse, now>>

H == INSTANCE HashEdgeStore WITH store <- hash, ClientTouches <- {}
S == INSTANCE SparseEdgeStore WITH store <- sparse

Init == hash = H!New /\ sparse = S!New /\ now = 0

Cycle(act, t, mode) == H!Cycle(act, t, mode) /\ S!CallTick(act, t, mode)
SetEdge(k, w) == H!SetEdge(k, w) /\ S!CallSetWeight(k, w)
Reindexed(f) == H!Compact(f) /\ S!CallReindex(f)

\* Backend maintenance: nothing is called on the other store.
Maintain ==
  /\ S!CallCompact \/ \E n \in Node : S!CallGrow(n + 1)
  /\ UNCHANGED hash

Next ==
  \/ \E act \in Activation, t \in S!Time, mode \in DecayMode : Cycle(act, t, mode)
  \/ \E k \in ClientKeys, w \in Weight : SetEdge(k, w)
  \/ \E f \in IndexMaps : Reindexed(f)
  \/ Maintain

Spec == Init /\ [][Next]_vars

(***************************************************************************)
(* A client that sets any edge between two nodes, except one that pruning  *)
(* by weight has left a tick of in the sparse store: a new edge there      *)
(* would be born with that tick instead of 0.                              *)
(***************************************************************************)
NoStaleTick(k) == k \in DOMAIN hash.weights \/ S!LastActive(sparse, k) = 0

CycleNext ==
  \/ \E act \in Activation, t \in S!Time, mode \in DecayMode : Cycle(act, t, mode)
  \/ \E k \in ClientKeys, w \in Weight :
       k[1] # k[2] /\ (w = 0 \/ NoStaleTick(k)) /\ SetEdge(k, w)
  \/ \E f \in IndexMaps : Reindexed(f)
  \/ Maintain

CycleSpec == Init /\ [][CycleNext]_vars

-----------------------------------------------------------------------------
(***************************************************************************)
(* The two stores answer every read alike: weights, edge count, the        *)
(* neighbours with their weights, and the last activation of a live edge.  *)
(***************************************************************************)
IdenticalWeights ==
  /\ \A k \in Key : H!GetWeight(hash, k) = S!GetWeight(sparse, k)
  /\ Cardinality(DOMAIN hash.weights) = S!EdgeCount(sparse)

IdenticalNeighbors ==
  \A n, j \in Node : H!NeighborWeight(hash, n, j) = S!NeighborWeight(sparse, n, j)

IdenticalActivity ==
  \A k \in DOMAIN hash.weights : H!LastActive(hash, k) = S!LastActive(sparse, k)
=============================================================================
