----------------------------- MODULE CrossEdges -----------------------------
(***************************************************************************)
(* What the cross edges promise, whatever maps they are kept in: an edge   *)
(* between two kernels has a weight and the tick of its last activation,   *)
(* and a tick acts on each edge on its own.  Contrary to a kernel graph's  *)
(* cycle (EdgeStore), the edge is strengthened before it decays, and an    *)
(* edge has a direction, as its ends belong to different graphs.           *)
(***************************************************************************)
EXTENDS FiniteMaps

CONSTANTS
  MaxWeight, WInit, WMax, MinWeight, Delta, P1, Decayed,  \* see CrossEdgeStore
  Node,    \* the positions of kernels in either modality
  MaxTick  \* bound: the last tick the caller's clock reaches

VARIABLES
  edges,  \* pair of kernels -> [w, last], defined on the live edges
  now     \* the caller's clock

vars == <<edges, now>>

Pair == Node \X Node
Weight == 0 .. MaxWeight

\* The edge of pair k after a tick, before it is decided whether it stays.
Raised(e, k) ==
  IF k \notin DOMAIN e THEN WInit
  ELSE IF e[k].w + Delta < WMax THEN e[k].w + Delta ELSE WMax

Ticked(e, K, t, k) ==
  IF k \in K
  THEN [w |-> Decayed[Raised(e, k)], last |-> t]
  ELSE [w |-> Decayed[e[k].w], last |-> e[k].last]

Survives(edge, t) == edge.w >= MinWeight /\ t - edge.last <= P1

TickEdges(e, K, t) ==
  [k \in {k \in DOMAIN e \cup K : Survives(Ticked(e, K, t, k), t)} |-> Ticked(e, K, t, k)]

\* Renumberings of one modality: some kernels go, the others keep their order.
IndexMaps ==
  {f \in UNION {[S -> Node] : S \in SUBSET Node} :
     \A p, q \in DOMAIN f : p < q => f[p] < f[q]}

Moved(f1, f2, k) == <<f1[k[1]], f2[k[2]]>>

-----------------------------------------------------------------------------
Init == edges = EmptyMap /\ now = 0

\* K: the pairs of kernels that are active together.
Tick(K, t) ==
  /\ t \in now .. MaxTick
  /\ now' = t
  /\ edges' = TickEdges(edges, K, t)

\* A new edge has never been active, whatever its pair has been before.
Set(k, w) ==
  /\ \/ w = 0 /\ edges' = Without(edges, {k})
     \/ w > 0 /\ edges' = Put(edges, {k}, [w |-> w, last |-> IF k \in DOMAIN edges
                                                              THEN edges[k].last ELSE 0])
  /\ UNCHANGED now

\* Only an edge is touched.
Touch(k) ==
  /\ k \in DOMAIN edges
  /\ edges' = [edges EXCEPT ![k].last = now]
  /\ UNCHANGED now

\* Every edge between kernels that stay goes with them, unchanged.
Renumber(f1, f2) ==
  LET staying == {k \in DOMAIN edges : k[1] \in DOMAIN f1 /\ k[2] \in DOMAIN f2}
  IN  /\ DOMAIN edges' = {Moved(f1, f2, k) : k \in staying}
      /\ \A k \in staying : edges'[Moved(f1, f2, k)] = edges[k]
      /\ UNCHANGED now

Next ==
  \/ \E K \in SUBSET Pair, t \in 0 .. MaxTick : Tick(K, t)
  \/ \E k \in Pair, w \in Weight : Set(k, w)
  \/ \E k \in Pair : Touch(k)
  \/ \E f1, f2 \in IndexMaps : Renumber(f1, f2)

Spec == Init /\ [][Next]_vars
=============================================================================
