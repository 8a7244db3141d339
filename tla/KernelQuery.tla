---------------------------- MODULE KernelQuery -----------------------------
(***************************************************************************)
(* The reads of a kernel graph: scores and growth without a cache          *)
(* (growth.rs), spreading without the scratch of a tick (sokm/src/ops.rs,  *)
(* KernelGraph::propagate and propagate_soft) and prediction (query.rs).   *)
(*                                                                         *)
(* A tick computes the same things a second time, on its centroid cache    *)
(* and its scratch; here the two are compared in every reachable state.    *)
(***************************************************************************)
EXTENDS KernelGraph

(***************************************************************************)
(* growth.rs.                                                              *)
(***************************************************************************)
\* Mutant: extinct kernels are scored too.
ComputeScoresAll(x) == [i \in DOMAIN kernels |-> Sim[x][kernels[i].centroid]]

ComputeScores(x) ==
  [i \in DOMAIN kernels |-> IF i \in Live THEN Sim[x][kernels[i].centroid] ELSE 0]

MaxActivation(x) == Max({0} \cup Range(ComputeScores(x)))

ShouldGrowDirect(x) == \A i \in Live : Sim[x][kernels[i].centroid] < Theta

(***************************************************************************)
(* ops.rs: what the neighbours of the given nodes receive.  Only nodes     *)
(* that receive something are in the result.  The binary form takes a set  *)
(* of nodes, the soft form a map from nodes to their scores.               *)
(***************************************************************************)
Reached(nodes) ==
  {j \in Node : \E i \in nodes : Canonical(i, j) \in DOMAIN edges}

PropagateSoft(activated) ==
  [j \in Reached(DOMAIN activated) |->
     SumFunction([i \in DOMAIN activated |->
                    Gamma * E!WeightOf(edges, Canonical(i, j)) * activated[i]])]

Propagate(fired) == PropagateSoft([i \in fired |-> 1])

\* The two wrappers of KernelGraph.
GraphPropagate(x) == Propagate(Fired(ComputeScores(x)))

GraphPropagateSoft(x) ==
  LET sc == ComputeScores(x)
  IN  PropagateSoft(Restrict(sc, {i \in DOMAIN sc : sc[i] > 0}))

(***************************************************************************)
(* query.rs: direct and propagated score together, the last of the best.   *)
(***************************************************************************)
Combined(x) ==
  [i \in DOMAIN kernels |-> ComputeScores(x)[i] + Lookup(GraphPropagate(x), i)]

Predict(x) ==
  IF kernels = <<>> THEN NoClass ELSE kernels[BestMatch(Combined(x))].class

-----------------------------------------------------------------------------
(***************************************************************************)
(* The public propagate spreads what a tick spreads: a tick goes through   *)
(* the centroid cache, masks the extinct after the SIMD pass and adds to   *)
(* whatever the last tick left in its scratch; propagate does none of it.  *)
(* (graph.rs: "Matches the binary gating semantics used inside tick".)     *)
(***************************************************************************)
PropagateMatchesTick ==
  \A x \in Input :
    LET sp == Spread(Scores(x))
    IN  \A j \in DOMAIN kernels : sp[j] = Lookup(GraphPropagate(x), j)

(***************************************************************************)
(* A tick grows exactly when should_grow_direct says so, for any edges:    *)
(* activation only spreads from a kernel that fires, and one that fires is *)
(* excited already.  The two checks are documented as different ones.      *)
(***************************************************************************)
SpreadNeverDecidesGrowth ==
  \A x \in Input :
    /\ ~Excited(Scores(x), Spread(Scores(x))) <=> ShouldGrowDirect(x)
    /\ ShouldGrowDirect(x) <=> MaxActivation(x) < Theta

(***************************************************************************)
(* A trained graph predicts a class that fires: when some kernel fires for *)
(* the input, the prediction is the label of such a kernel.  The best      *)
(* match itself may be a kernel that does not fire, an extinct one         *)
(* included, lifted over the others by what its neighbours send it.        *)
(***************************************************************************)
PredictsFiredClass ==
  \A x \in Input :
    LET fired == Fired(ComputeScores(x))
    IN  fired # {} => Predict(x) \in {kernels[i].class : i \in fired}
=============================================================================
