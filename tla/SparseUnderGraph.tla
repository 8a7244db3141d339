-------------------------- MODULE SparseUnderGraph --------------------------
(***************************************************************************)
(* A SparseEdgeStore as KernelGraph drives it (sokm-kernel/src/graph.rs):  *)
(* the graph owns the store, adds kernels one at a time, runs one cycle    *)
(* per tick on kernels it already has, and reindexes the store when it     *)
(* compacts.  The graph knows how many kernels it has; it never tells the  *)
(* store, whose grow it does not call.                                     *)
(***************************************************************************)
EXTENDS SparseEdgeStore

VARIABLE kernels  \* number of kernels in the graph; their indices are below it

graphVars == <<vars, kernels>>

Kernels == 0 .. kernels - 1

GraphInit == Init /\ kernels = 0

\* KernelGraph::tick: at most one new kernel, then the cycle over the
\* same-class activated kernels, the new one among them or not.
GraphTick(act, t, mode) ==
  /\ t \in now .. MaxTick
  /\ \E grew \in {0, 1} :
       /\ kernels' = kernels + grew
       /\ kernels + grew - 1 \in Node \cup {-1}
       /\ DOMAIN act \subseteq 0 .. kernels + grew - 1
  /\ Returns(TickStore(store, act, t, mode))
  /\ now' = t

\* KernelGraph::set_edge on existing kernels; set_weight asserts its range.
GraphSetEdge(k, w) ==
  /\ k[2] \in Kernels
  /\ Returns(IF InRange(k) THEN SetWeight(store, k, w)
             ELSE [store EXCEPT !.panicked = TRUE])
  /\ UNCHANGED <<now, kernels>>

\* compact_with_map, when some kernel is extinct.
GraphCompact(f) ==
  /\ DOMAIN f \subseteq Kernels /\ DOMAIN f # Kernels
  /\ Returns(Reindex(store, f))
  /\ \E n \in 0 .. kernels : Range(f) = 0 .. n - 1 /\ kernels' = n
  /\ UNCHANGED now

GraphNext ==
  \/ \E act \in Activation, t \in Time, mode \in DecayMode : GraphTick(act, t, mode)
  \/ \E k \in ClientKeys, w \in Weight : GraphSetEdge(k, w)
  \/ \E f \in IndexMaps : GraphCompact(f)

GraphSpec == GraphInit /\ [][GraphNext]_graphVars

-----------------------------------------------------------------------------
(***************************************************************************)
(* The category_formation example gives the capacity as a hint that "grows *)
(* automatically if exceeded", and the graph is said to take either        *)
(* backend "without changing KernelGraph code": a tick of the graph must   *)
(* not index past the store.                                               *)
(***************************************************************************)
TickNeverPanics == ~store.panicked
=============================================================================
