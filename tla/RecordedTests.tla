--------------------------- MODULE RecordedTests ----------------------------
(***************************************************************************)
(* The unit tests of the repository played on the models of this project:  *)
(* each call of a script is the operator that models it, and the answer is *)
(* compared with what the test asserts.  So the models are held to what is *)
(* known of the program, and the tests to more than one execution: those   *)
(* of the cycle run on both edge stores, a sparse store may compact before *)
(* any call, and a graph may lose its centroid cache before any call.      *)
(*                                                                         *)
(* Each configuration a script uses is an instance of its own.             *)
(***************************************************************************)
EXTENDS FiniteMaps, SequencesExt

CONSTANTS None, Never, NoCache

VARIABLES
  test,      \* the script being played: [suite, number, backend]
  script,    \* its calls, without the answers
  at,        \* the position in it
  returned,  \* the answer to the last call
  store,     \* the edge store of a test of the link layer
  kernels, edges, stm, scratch, counts, cache, now,  \* the graph of the others
  kernels2, edges2, stm2, scratch2, counts2, cache2, \* that of the second modality
  emotions, global, panicked                         \* the emotion layer

graph == <<kernels, edges, stm, scratch, counts, cache>>
graph2 == <<kernels2, edges2, stm2, scratch2, counts2, cache2>>
mind == <<emotions, global, panicked>>
vars == <<test, script, at, returned, store, graph, now, graph2, mind>>

L == INSTANCE LinkTests
T == INSTANCE KernelTests
C == INSTANCE CrossTests
M == INSTANCE EmotionTests
G == INSTANCE GestaltTests

Tests(suite) ==
  CASE suite = "ops"     -> L!OpsTests     [] suite = "hash"    -> L!HashTests
    [] suite = "sparse"  -> L!SparseTests  [] suite = "graph"   -> T!GraphTests
    [] suite = "query"   -> T!QueryTests   [] suite = "growth"  -> T!GrowthTests
    [] suite = "kernels" -> T!StoreTests   [] suite = "stm"     -> T!StmTests
    [] suite = "cross"   -> C!Tests        [] suite = "emotion" -> M!GraphTests
    [] suite = "state"   -> M!StateTests   [] suite = "update"  -> M!UpdateTests
    [] suite = "policy"  -> M!PolicyTests  [] suite = "gestalt" -> G!Tests
    [] suite = "cycle"   -> L!IntegrationTests
    [] suite = "agent"   -> M!IntegrationTests

EdgeSuites == {"ops", "hash", "sparse", "cycle", "cross"}
GraphSuites ==
  {"graph", "query", "growth", "kernels", "stm", "emotion", "state", "update", "policy",
   "agent", "gestalt"}

Backends(suite) ==
  CASE suite \in {"ops", "cycle"} -> {"hash", "sparse"}
    [] suite \in {"hash", "sparse", "cross", "gestalt"} -> {suite}
    [] OTHER -> {"none"}

Recorded == Tests(test.suite)[test.number]

\* A call, without the answer its test asserts.
Call(entry) == [f \in DOMAIN entry \ {"in"} |-> entry[f]]

step == script[at]

-----------------------------------------------------------------------------
(***************************************************************************)
(* The models, for the configuration of a call.                            *)
(***************************************************************************)
LinkNode == 0 .. 50
GraphNode == 1 .. 10
Heaviest == 10 * L!One
Factor(keep) == [w \in 0 .. Heaviest |-> L!Times(w, keep)]
Sim == [x \in T!Inputs |-> [c \in T!Inputs |-> T!Gaussian(x, c)]]

Hash(cfg) ==
  INSTANCE HashEdgeStore WITH
    Node <- LinkNode, MaxWeight <- Heaviest, WInit <- cfg.w_init, WMax <- cfg.w_max,
    MinWeight <- cfg.min_weight, Delta <- cfg.delta, P1 <- cfg.p1, Score <- 1 .. 100,
    Decayed <- Factor(cfg.keep), MaxTick <- 1000, ClientTouches <- {}

Sparse(cfg) ==
  INSTANCE SparseEdgeStore WITH
    Node <- LinkNode, MaxWeight <- Heaviest, WInit <- cfg.w_init, WMax <- cfg.w_max,
    MinWeight <- cfg.min_weight, Delta <- cfg.delta, P1 <- cfg.p1, Score <- 1 .. 100,
    Decayed <- Factor(cfg.keep), MaxTick <- 1000, Capacity <- 51,
    ClientKeys <- {}, MaxDead <- 100

\* The live edges of the store under test, as the abstract store has them.
Stored(cfg) ==
  IF test.backend = "hash" THEN Hash(cfg)!EdgesOf(store) ELSE Sparse(cfg)!LiveEdges

Linked(cfg) ==
  INSTANCE KernelQuery WITH
    edges <- Stored(cfg), Node <- LinkNode, MaxKernels <- 0,
    MaxWeight <- Heaviest, WInit <- cfg.w_init, WMax <- cfg.w_max,
    MinWeight <- cfg.min_weight, Delta <- cfg.delta, P1 <- cfg.p1, Score <- 1 .. 100,
    Decayed <- Factor(cfg.keep), MaxTick <- 1000, Input <- {}, Class <- {}, NoClass <- None,
    Sim <- Sim, SMax <- 100, Theta <- 10, Gamma <- cfg.gamma, StmCapacity <- 1,
    P1Kernel <- Never, InheritThreshold <- Never, ClientEdges <- {}, MaxExcitation <- 1000

Graph(cfg) ==
  INSTANCE KernelQuery WITH
    Node <- GraphNode, MaxKernels <- 10,
    MaxWeight <- Heaviest, WInit <- cfg.w_init, WMax <- cfg.w_max,
    MinWeight <- cfg.min_weight, Delta <- cfg.delta, P1 <- cfg.p1, Score <- 1 .. 100,
    Decayed <- Factor(cfg.keep), MaxTick <- 1000, Input <- T!Inputs, Class <- 0 .. 7,
    NoClass <- None, Sim <- Sim, SMax <- 100, Theta <- cfg.theta_k, Gamma <- cfg.gamma,
    StmCapacity <- cfg.stm_capacity, P1Kernel <- cfg.p1_kernel,
    InheritThreshold <- cfg.label_inherit_threshold, ClientEdges <- {},
    MaxExcitation <- 1000

Graph2(cfg) ==
  INSTANCE KernelQuery WITH
    kernels <- kernels2, edges <- edges2, stm <- stm2, scratch <- scratch2,
    counts <- counts2, cache <- cache2, Node <- GraphNode, MaxKernels <- 10,
    MaxWeight <- Heaviest, WInit <- cfg.w_init, WMax <- cfg.w_max,
    MinWeight <- cfg.min_weight, Delta <- cfg.delta, P1 <- cfg.p1, Score <- 1 .. 100,
    Decayed <- Factor(cfg.keep), MaxTick <- 1000, Input <- T!Inputs, Class <- 0 .. 7,
    NoClass <- None, Sim <- Sim, SMax <- 100, Theta <- cfg.theta_k, Gamma <- cfg.gamma,
    StmCapacity <- cfg.stm_capacity, P1Kernel <- cfg.p1_kernel,
    InheritThreshold <- cfg.label_inherit_threshold, ClientEdges <- {},
    MaxExcitation <- 1000

\* What the layers that wrap a graph see of its kernels.
Units(ks) == [i \in DOMAIN ks |-> [class |-> ks[i].class, extinct |-> ks[i].extinct]]

Emotional(cfg) ==
  INSTANCE EmotionalGraph WITH
    units <- Units(kernels), Class <- 0 .. 7, NoClass <- None, MaxKernels <- 10,
    Dim <- DOMAIN M!Neutral, MaxLevel <- M!Highest, Bound <- cfg.bound, Score <- 1 .. 100,
    Felt <- [e \in M!Level |-> [k \in 1 .. 100 |-> M!Part(e, 10 * k)]],
    Toward <- [e \in M!Level |-> [target \in M!Level |-> e + M!Part(target - e, cfg.lambda_e)]],
    Faded <- [g \in M!Level |-> M!Part(g, cfg.decay)],
    Optimal <- cfg.optimal, ThetaE <- cfg.theta_e, Alpha <- cfg.alpha

Cross(cfg) ==
  INSTANCE GestaltRecall WITH
    cross <- store, units1 <- Units(kernels), units2 <- Units(kernels2),
    MaxWeight <- Heaviest, WInit <- cfg.w_init, WMax <- cfg.w_max,
    MinWeight <- cfg.min_weight, Delta <- cfg.delta, P1 <- cfg.p1,
    Decayed <- Factor(cfg.keep), RequireClassMatch <- cfg.require_class_match,
    Class <- 0 .. 7, NoClass <- None, ClientEdges <- {}, MaxKernels <- 10,
    MaxTick <- 1000, Gamma <- cfg.gamma, Score <- 1 .. 100

-----------------------------------------------------------------------------
\* The kernels with a positive score.
Positive(sc) == Restrict(sc, {i \in DOMAIN sc : sc[i] > 0})

Calls(name) ==
  /\ step.call = name
  /\ at' = at + 1 /\ UNCHANGED <<test, script>>

Reads(name, value) == Calls(name) /\ returned' = value /\ UNCHANGED <<store, graph, now>>

(***************************************************************************)
(* Calls of the link layer.                                                *)
(***************************************************************************)
OnStore == test.backend \in {"hash", "sparse"}
Either(hash, sparse) == IF test.backend = "hash" THEN hash ELSE sparse

Writes(name, hash, sparse) ==
  /\ OnStore /\ Calls(name)
  /\ store' = Either(hash, sparse)
  /\ UNCHANGED <<graph, now>>

Pair(cfg) == Hash(cfg)!Canonical(step.of[1], step.of[2])
Single(cfg, v) == Put(EmptyMap, {Pair(cfg)}, v)

Count(cfg, s) == Either(Cardinality(DOMAIN s.weights), Sparse(cfg)!EdgeCount(s))

New(cfg) ==
  /\ Writes("new", store, [Sparse(cfg)!New EXCEPT !.num_nodes = step.size])
  /\ returned' = None

\* Listed twice, a pair has the sum of its weights.
FromTriplets(cfg) ==
  LET pair(t) == Hash(cfg)!Canonical(t[1], t[2])
      listed(k) == {n \in DOMAIN step.triplets : pair(step.triplets[n]) = k}
      total(k) == SumFunction([n \in listed(k) |-> step.triplets[n][3]])
      summed == [k \in {pair(t) : t \in Range(step.triplets)} |-> total(k)]
  IN  /\ Writes("from_triplets", store,
           Sparse(cfg)!Compact([Sparse(cfg)!New EXCEPT !.num_nodes = step.size,
                                                       !.pending = summed]))
      /\ returned' = None

SetWeight(cfg) ==
  /\ Writes("set_weight", Hash(cfg)!SetWeight(store, Pair(cfg), step.w),
                          Sparse(cfg)!SetWeight(store, Pair(cfg), step.w))
  /\ returned' = None

ScaleAll(cfg) ==
  /\ Writes("scale_all", Hash(cfg)!ScaleAll(store), Sparse(cfg)!ScaleAll(store))
  /\ returned' = None

ApplyIncrements(cfg) ==
  /\ Writes("apply_increments", Hash(cfg)!ApplyIncrements(store, Single(cfg, step.w)),
                                Sparse(cfg)!ApplyIncrements(store, Single(cfg, step.w)))
  /\ returned' = None

Touch(cfg) ==
  /\ Writes("touch", Hash(cfg)!Touch(store, {Pair(cfg)}, step.t),
                     Sparse(cfg)!Touch(store, {Pair(cfg)}, step.t))
  /\ returned' = None

PruneBelow(cfg) ==
  /\ Writes("prune_below", Hash(cfg)!PruneBelow(store), Sparse(cfg)!PruneBelow(store))
  /\ returned' = Count(cfg, store) - Count(cfg, store')

PruneInactive(cfg) ==
  /\ Writes("prune_inactive", Hash(cfg)!PruneInactive(store, step.t),
                              Sparse(cfg)!PruneInactive(store, step.t))
  /\ returned' = Count(cfg, store) - Count(cfg, store')

Reindex(cfg) ==
  /\ Writes("reindex", Hash(cfg)!ReindexForCompact(store, step.map),
                       Sparse(cfg)!Reindex(store, step.map))
  /\ returned' = None

CompactStore(cfg) == Writes("compact", store, Sparse(cfg)!Compact(store)) /\ returned' = None

Grow(cfg) ==
  /\ Writes("grow", store, Sparse(cfg)!Grow(store, step.size))
  /\ returned' = (store' # store)

Decay(cfg) ==
  /\ Writes("decay", Hash(cfg)!Decay(store), Sparse(cfg)!ScaleAll(store))
  /\ returned' = Count(cfg, store')

Strengthen(cfg) ==
  /\ Writes("strengthen", Hash(cfg)!Strengthen(store, step.act, step.t),
                          Sparse(cfg)!Strengthen(store, step.act, step.t))
  /\ returned' = Cardinality(Hash(cfg)!Pairs(step.act))

Prune(cfg) ==
  /\ Writes("prune", Hash(cfg)!Prune(store, step.t), Sparse(cfg)!Prune(store, step.t))
  /\ returned' = Count(cfg, store) - Count(cfg, store')

SokmReport(cfg) ==
  LET decayed == IF step.mode = "Skip" THEN store
                 ELSE Either(Hash(cfg)!Decay(store), Sparse(cfg)!ScaleAll(store))
      strong  == Either(Hash(cfg)!Strengthen(decayed, step.act, step.t),
                        Sparse(cfg)!Strengthen(decayed, step.act, step.t))
  IN  [edges_alive  |-> Count(cfg, decayed),
       strengthened |-> Cardinality(Hash(cfg)!Pairs(step.act)),
       pruned       |-> Count(cfg, strong) - Count(cfg, store')]

TickStore(cfg) ==
  /\ Writes("link_tick", Hash(cfg)!TickStore(store, step.act, step.t, step.mode),
                         Sparse(cfg)!TickStore(store, step.act, step.t, step.mode))
  /\ returned' = SokmReport(cfg)

Neighbors(cfg, n) ==
  {j \in LinkNode : Either(Hash(cfg)!NeighborWeight(store, n, j),
                           Sparse(cfg)!NeighborWeight(store, n, j)) > 0}

ReadStore(cfg) ==
  /\ OnStore
  /\ \/ Reads("get_weight", Either(Hash(cfg)!GetWeight(store, Pair(cfg)),
                                   Sparse(cfg)!GetWeight(store, Pair(cfg))))
     \/ Reads("last_active", Either(Hash(cfg)!LastActive(store, Pair(cfg)),
                                    Sparse(cfg)!LastActive(store, Pair(cfg))))
     \/ Reads("edge_count", Count(cfg, store))
     \/ Reads("neighbors", Neighbors(cfg, step.node))
     \/ Reads("num_nodes", store.num_nodes)
     \/ Reads("propagate", Linked(cfg)!Propagate(step.fired))
     \/ Reads("propagate_soft", Linked(cfg)!PropagateSoft(step.act))

LinkCall(cfg) ==
  \/ New(cfg) \/ FromTriplets(cfg) \/ SetWeight(cfg) \/ ScaleAll(cfg) \/ ApplyIncrements(cfg)
  \/ Touch(cfg) \/ PruneBelow(cfg) \/ PruneInactive(cfg) \/ Reindex(cfg) \/ CompactStore(cfg)
  \/ Grow(cfg) \/ Decay(cfg) \/ Strengthen(cfg) \/ Prune(cfg) \/ TickStore(cfg)
  \/ ReadStore(cfg)

(***************************************************************************)
(* Calls of the cross edges.                                               *)
(***************************************************************************)
OnCross == test.backend = "cross"

\* What a prune returns; of the other calls the answer is not looked at.
WritesCross(name, s) ==
  /\ OnCross /\ Calls(name)
  /\ store' = s
  /\ returned' = Cardinality(DOMAIN store.weights) - Cardinality(DOMAIN store'.weights)
  /\ UNCHANGED <<graph, now>>

\* Positions count from 0 here.
Position(kept) == [i \in Range(kept) |-> (CHOOSE n \in DOMAIN kept : kept[n] = i) - 1]

CrossCall(cfg) ==
  \/ WritesCross("set", Cross(cfg)!Set(store, step.of, step.w))
  \/ WritesCross("touch", Cross(cfg)!Touch(store, {step.of}, step.t))
  \/ WritesCross("apply_increments", Cross(cfg)!ApplyIncrements(store, step.pairs))
  \/ WritesCross("strengthen", Cross(cfg)!Strengthen(store, step.pairs, step.t))
  \/ WritesCross("scale_all", Cross(cfg)!ScaleAll(store))
  \/ WritesCross("prune_below", Cross(cfg)!PruneBelow(store))
  \/ WritesCross("prune_inactive", Cross(cfg)!PruneInactive(store, step.t))
  \/ WritesCross("reindex",
       Cross(cfg)!Reindex(store, Position(step.kept1), Position(step.kept2)))

ReadCross(cfg) ==
  /\ OnCross
  /\ \/ Reads("get", Cross(cfg)!Weigh(store, step.of))
     \/ Reads("last_active", Cross(cfg)!LastActive(store, step.of))
     \/ Reads("edge_count", Cardinality(DOMAIN store.weights))
     \/ Reads("sources", {k[1] : k \in Cross(cfg)!Sources(store, step.node)})
     \/ Reads("cross_propagate_soft", Cross(cfg)!CrossPropagateSoft(store, step.scores))
     \/ Reads("cross_propagate_soft_reverse",
               Cross(cfg)!CrossPropagateSoftReverse(store, step.scores))
     \/ Reads("cross_strengthen_deltas",
               Cardinality(Cross(cfg)!Pairing(DOMAIN step.class1, DOMAIN step.class2,
                                              step.class1, step.class2, None)))

(***************************************************************************)
(* Calls of the kernel layer.  Kernel i of a script is i + 1 here.         *)
(***************************************************************************)
OnGraph == test.backend \in {"none", "gestalt"}
Place == step.node + 1
GraphPair(cfg) == Graph(cfg)!Canonical(step.of[1] + 1, step.of[2] + 1)
Live == {i \in DOMAIN kernels : ~kernels[i].extinct}

NewGraph ==
  /\ OnGraph /\ Calls("new")
  /\ kernels' = <<>> /\ edges' = EmptyMap /\ stm' = <<>> /\ scratch' = <<>>
  /\ counts' = EmptyMap /\ cache' = NoCache /\ now' = 0
  /\ returned' = None /\ UNCHANGED store

KernelTickReport(cfg) ==
  LET sc   == Graph(cfg)!Scores(step.x)
      grew == Len(kernels') > Len(kernels)
      ks   == Append(kernels, Graph(cfg)!NewKernel(step.x, step.c, step.t))
      act  == Graph(cfg)!SameClass(ks, IF grew THEN Append(sc, 100) ELSE sc, step.c)
  IN  [grew             |-> grew,
       activated_kernel |-> Last(stm') - 1,
       strengthened     |-> Cardinality(Graph(cfg)!Pairs(act)),
       newly_extinct    |-> Cardinality({i \in DOMAIN kernels' :
                                           kernels'[i].extinct /\ ~ks[i].extinct}),
       newly_labelled   |-> Cardinality({i \in DOMAIN kernels' :
                                           kernels'[i].class # ks[i].class})]

TickGraph(cfg) ==
  /\ OnGraph /\ Calls("tick")
  /\ Graph(cfg)!Tick(step.x, step.c, step.t, step.mode)
  /\ returned' = KernelTickReport(cfg)
  /\ UNCHANGED store

Compacted(cfg) ==
  IF Live = DOMAIN kernels THEN UNCHANGED <<graph, now>> ELSE Graph(cfg)!Compact

Survivors(cfg) == Graph(cfg)!Enumerations(Live, Len(kernels))

\* compact returns how many kernels are gone, compact_with_map the map.
Gone(kept) == Len(kernels) - Len(kept)

Renumbering(cfg, kept) ==
  [i \in DOMAIN kernels |-> IF i \in Live THEN Graph(cfg)!OldToNew(kept)[i] - 1 ELSE None]

CompactGraph(cfg) ==
  /\ OnGraph /\ (Calls("compact") \/ Calls("compact_with_map"))
  /\ Compacted(cfg)
  /\ \E kept \in Survivors(cfg) :
       returned' = IF step.call = "compact" THEN Gone(kept) ELSE Renumbering(cfg, kept)
  /\ UNCHANGED store

SetEdge(cfg) ==
  /\ OnGraph /\ Calls("set_edge")
  /\ Graph(cfg)!SetEdge(GraphPair(cfg), step.w)
  /\ returned' = None /\ UNCHANGED store

MarkExtinct(cfg) ==
  /\ OnGraph /\ Calls("mark_extinct")
  /\ Graph(cfg)!MarkExtinct(Place)
  /\ returned' = None /\ UNCHANGED store

SaveLoad(cfg) ==
  /\ OnGraph /\ Calls("save_load")
  /\ Graph(cfg)!SaveLoad
  /\ returned' = None /\ UNCHANGED store

InsertCount ==
  /\ OnGraph /\ Calls("insert_count")
  /\ counts' = Put(counts, {<<step.of[1] + 1, step.of[2] + 1>>}, step.w)
  /\ returned' = None /\ UNCHANGED <<store, kernels, edges, stm, scratch, cache, now>>

\* The methods of the kernel store, reached through kernels_mut.
WritesKernels(ks) ==
  /\ kernels' = ks /\ cache' = NoCache
  /\ returned' = None /\ UNCHANGED <<store, edges, stm, scratch, counts, now>>

Push(cfg) ==
  /\ OnGraph /\ Calls("push")
  /\ WritesKernels(Append(kernels, Graph(cfg)!NewKernel(step.x, step.c, 0)))

SetClass ==
  /\ OnGraph /\ Calls("set_class")
  /\ WritesKernels([kernels EXCEPT ![Place].class = IF @ = None THEN step.c ELSE @])

IncrExcitation ==
  /\ OnGraph /\ Calls("incr_excitation")
  /\ WritesKernels([kernels EXCEPT ![Place].excitation = @ + 1])

TouchKernel ==
  /\ OnGraph /\ Calls("touch_kernel")
  /\ WritesKernels([kernels EXCEPT ![Place].last = step.t])

MakeStore(cfg) ==
  /\ OnGraph /\ Calls("make_store")
  /\ WritesKernels([i \in 1 .. step.size |->
                      [Graph(cfg)!NewKernel(T!At(1000 * (i - 1)), 0, 0)
                         EXCEPT !.excitation = i - 1]])

UpdateStm(cfg) ==
  /\ OnGraph /\ Calls("update")
  /\ stm' = Graph(cfg)!StmUpdate(kernels, Place)
  /\ returned' = None /\ UNCHANGED <<store, kernels, edges, scratch, counts, cache, now>>

ReindexStm(cfg) ==
  LET kept == [n \in DOMAIN step.kept |-> step.kept[n] + 1]
  IN  /\ OnGraph /\ Calls("reindex_stm")
      /\ \E held \in Graph(cfg)!Enumerations({p \in DOMAIN stm : stm[p] \in Range(kept)},
                                             Len(stm)) :
           stm' = Graph(cfg)!StmReindex(kept, held)
      /\ returned' = None /\ UNCHANGED <<store, kernels, edges, scratch, counts, cache, now>>

(***************************************************************************)
(* Reads of the kernel layer.                                              *)
(***************************************************************************)
MinExcitationIdx ==
  IF Live = {} THEN None
  ELSE (CHOOSE i \in Live : \A j \in Live :
          \/ kernels[i].excitation < kernels[j].excitation
          \/ kernels[i].excitation = kernels[j].excitation /\ i <= j) - 1

BestMatch(cfg, x) ==
  LET both == Graph(cfg)!Combined(x)
      best == Graph(cfg)!BestMatch(both)
  IN  IF kernels = <<>> THEN None ELSE <<best - 1, both[best]>>

Renumbered(spread) == [i \in {j - 1 : j \in DOMAIN spread} |-> spread[i + 1]]

ReadGraph(cfg) ==
  \/ Reads("kernel_count", Len(kernels))
  \/ Reads("graph_edge_count", Cardinality(DOMAIN edges))
  \/ Reads("weight", edges[GraphPair(cfg)].w)
  \/ Reads("kernel", kernels[Place])
  \/ Reads("is_extinct", Place \in DOMAIN kernels \ Live)
  \/ Reads("min_excitation_idx", MinExcitationIdx)
  \/ Reads("count_keys", {<<p[1] - 1, p[2] - 1>> : p \in DOMAIN counts})
  \/ Reads("scratch", scratch)
  \/ Reads("indices", [p \in DOMAIN stm |-> stm[p] - 1])
  \/ Reads("is_full", Len(stm) >= cfg.stm_capacity)
  \/ Reads("graph_propagate", Renumbered(Graph(cfg)!GraphPropagate(step.x)))
  \/ Reads("graph_propagate_soft", Renumbered(Graph(cfg)!GraphPropagateSoft(step.x)))
  \/ Reads("compute_scores", Graph(cfg)!ComputeScores(step.x))
  \/ Reads("max_activation", Graph(cfg)!MaxActivation(step.x))
  \/ Reads("should_grow_direct", Graph(cfg)!ShouldGrowDirect(step.x))
  \/ Reads("best_match", BestMatch(cfg, step.x))
  \/ Reads("predict", Graph(cfg)!Predict(step.x))

KernelCall(cfg) ==
  \/ NewGraph \/ TickGraph(cfg) \/ CompactGraph(cfg) \/ SetEdge(cfg) \/ MarkExtinct(cfg)
  \/ SaveLoad(cfg) \/ InsertCount \/ Push(cfg) \/ SetClass \/ IncrExcitation \/ TouchKernel
  \/ MakeStore(cfg) \/ UpdateStm(cfg) \/ ReindexStm(cfg)
  \/ ReadGraph(cfg)

(***************************************************************************)
(* Calls of the emotion layer.  A tick of the graph inside it is a tick of *)
(* KernelGraph and one that the layer expects of a KernelVector.           *)
(***************************************************************************)
TickEmotional(cfg) ==
  /\ Calls("emotional_tick")
  /\ \E sc \in {Graph(cfg)!Scores(step.x)} :
       /\ Graph(cfg)!Tick(step.x, step.c, step.t, step.mode)
       /\ \E grew \in {Len(kernels') > Len(kernels)}, best \in {Last(stm')} :
            /\ Emotional(cfg)!EmotionalTick(step.c, step.target, grew, best, Positive(sc))
            /\ returned' = [grew      |-> grew,
                            activated |-> best - 1,
                            attentive |-> Emotional(cfg)!Attentive',
                            salience  |-> Cardinality(Emotional(cfg)!SalienceReads)]
  /\ UNCHANGED store

CompactEmotional(cfg) ==
  /\ Calls("emotional_compact") \/ Calls("emotional_compact_with_map")
  /\ Compacted(cfg)
  /\ \E kept \in Survivors(cfg) :
       /\ returned' = IF step.call = "emotional_compact" THEN Gone(kept)
                      ELSE Renumbering(cfg, kept)
       /\ IF Live = DOMAIN kernels THEN UNCHANGED mind ELSE Emotional(cfg)!Compact(kept)
  /\ UNCHANGED store

MarkExtinctEmotional(cfg) ==
  /\ Calls("extinguish") /\ returned' = None
  /\ Graph(cfg)!MarkExtinct(Place)
  /\ Emotional(cfg)!Extinguish(Place)
  /\ UNCHANGED store

\* The methods of the emotion store, and functions of the state.
WritesEmotions(name, es) ==
  /\ Calls(name) /\ returned' = None
  /\ emotions' = es
  /\ UNCHANGED <<store, graph, now, global, panicked>>

WritesGlobal(name, g) ==
  /\ Calls(name) /\ returned' = None
  /\ global' = g
  /\ UNCHANGED <<store, graph, now, emotions, panicked>>

EmotionCall(cfg) ==
  \/ TickEmotional(cfg)
  \/ CompactEmotional(cfg)
  \/ MarkExtinctEmotional(cfg)
  \/ WritesEmotions("push_emotion", Append(emotions, M!Neutral))
  \/ WritesEmotions("set_emotion", [emotions EXCEPT ![Place] = step.e])
  \/ WritesEmotions("compact_emotions",
                    Emotional(cfg)!Kept([n \in DOMAIN step.kept |-> step.kept[n] + 1]))
  \/ WritesGlobal("set_global", step.e)
  \/ WritesGlobal("apply", Emotional(cfg)!Clamped(global))
  \/ WritesGlobal("update_global", Emotional(cfg)!UpdateGlobal(step.es, step.scored))

ReadEmotion(cfg) ==
  \/ Reads("emotions_len", Len(emotions))
  \/ Reads("emotion_vars", emotions[Place])
  \/ Reads("global_state", global)
  \/ Reads("is_attentive", Emotional(cfg)!Attentive)
  \/ Reads("update_var", Emotional(cfg)!UpdateKernelVar(step.e, step.target))

(***************************************************************************)
(* Calls of the cross-modal layer.  Kernels i and j of a script are i + 1  *)
(* and j + 1 here.                                                         *)
(***************************************************************************)
OnGestalt == test.backend = "gestalt"

Classes(ks) == [i \in DOMAIN ks |-> ks[i].class]

\* The kernels are scored after both graphs have ticked.
TickBoth(cfg, ccfg) ==
  /\ Calls("gestalt_tick")
  /\ Graph(cfg)!Tick(step.x1, step.c, step.t, step.mode)
  /\ Graph2(cfg)!Tick(step.x2, step.c, step.t, step.mode)
  /\ \E x1 \in {step.x1}, x2 \in {step.x2} :
     \E K \in {Cross(ccfg)!Pairing(DOMAIN Positive(Graph(cfg)!ComputeScores(x1)'),
                                   DOMAIN Positive(Graph2(cfg)!ComputeScores(x2)'),
                                   Classes(kernels'), Classes(kernels2'), None)} :
       /\ store' = Cross(ccfg)!CrossTick(store, K, step.t)
       /\ returned' = [cross_strengthened |-> Cardinality(K),
                       cross_pruned |-> Cardinality(DOMAIN store.weights \cup K)
                                          - Cardinality(DOMAIN store'.weights)]
  /\ Cross(ccfg)!Tick(step.c, step.t, Len(kernels') > Len(kernels), Last(stm'),
                      Len(kernels2') > Len(kernels2), Last(stm2'))

Live2 == {j \in DOMAIN kernels2 : ~kernels2[j].extinct}

CompactBoth(cfg, ccfg) ==
  /\ Calls("gestalt_compact")
  /\ Compacted(cfg)
  /\ IF Live2 = DOMAIN kernels2 THEN UNCHANGED <<graph2, now>> ELSE Graph2(cfg)!Compact
  /\ \E kept \in Survivors(cfg), kept2 \in Graph2(cfg)!Enumerations(Live2, Len(kernels2)) :
       /\ store' = Cross(ccfg)!Reindex(store, Cross(ccfg)!OldToNew(kept),
                                              Cross(ccfg)!OldToNew(kept2))
       /\ returned' = <<Gone(kept), Len(kernels2) - Len(kept2)>>

SaveLoadBoth(cfg) ==
  /\ Calls("gestalt_save_load") /\ returned' = None
  /\ Graph(cfg)!SaveLoad /\ Graph2(cfg)!SaveLoad
  /\ UNCHANGED store

Push2(cfg) ==
  /\ Calls("push2") /\ returned' = None
  /\ kernels2' = Append(kernels2, Graph2(cfg)!NewKernel(step.x, step.c, 0))
  /\ cache2' = NoCache
  /\ UNCHANGED <<store, graph, now, edges2, stm2, scratch2, counts2>>

CrossPair == <<step.of[1] + 1, step.of[2] + 1>>

WritesCrossEdges(name, s) ==
  /\ Calls(name) /\ returned' = None
  /\ store' = s
  /\ UNCHANGED <<graph, graph2, now>>

GestaltCall(cfg) ==
  /\ OnGestalt
  /\ \E ccfg \in {step.cross_cfg} :
       \/ TickBoth(cfg, ccfg)
       \/ CompactBoth(cfg, ccfg)
       \/ SaveLoadBoth(cfg)
       \/ Push2(cfg)
       \/ WritesCrossEdges("cross_set", Cross(ccfg)!Set(store, CrossPair, step.w))
       \/ WritesCrossEdges("cross_touch", Cross(ccfg)!Touch(store, {CrossPair}, step.t))

ReadGestalt(cfg) ==
  /\ OnGestalt
  /\ \E ccfg \in {step.cross_cfg} :
       \/ Reads("kernel_counts", <<Len(kernels), Len(kernels2)>>)
       \/ Reads("cross_edge_count", Cardinality(DOMAIN store.weights))
       \/ Reads("recall_from_modal1",
                Renumbered(Cross(ccfg)!CrossPropagateSoft(
                             store, Positive(Graph(cfg)!ComputeScores(step.x)))))
       \/ Reads("recall_from_modal2",
                Renumbered(Cross(ccfg)!CrossPropagateSoftReverse(
                             store, Positive(Graph2(cfg)!ComputeScores(step.x)))))

-----------------------------------------------------------------------------
Init ==
  /\ test \in UNION {[suite : {s}, number : DOMAIN Tests(s), backend : Backends(s)] :
                       s \in EdgeSuites \cup GraphSuites}
  /\ script = [n \in DOMAIN Recorded |-> Call(Recorded[n])]
  /\ at = 1 /\ returned = None
  /\ store = CASE test.backend = "hash"                 -> Hash(L!Default)!New
               [] test.backend \in {"cross", "gestalt"} -> Cross(C!Default)!NewStore
               [] OTHER                                 -> Sparse(L!Default)!New
  /\ kernels = <<>> /\ edges = EmptyMap /\ stm = <<>> /\ scratch = <<>>
  /\ counts = EmptyMap /\ cache = NoCache /\ now = 0
  /\ kernels2 = <<>> /\ edges2 = EmptyMap /\ stm2 = <<>> /\ scratch2 = <<>>
  /\ counts2 = EmptyMap /\ cache2 = NoCache
  /\ emotions = <<>> /\ global = M!Neutral /\ panicked = FALSE

CompactEarly(cfg) ==
  /\ test.backend = "sparse"
  /\ store' = Sparse(cfg)!Compact(store) /\ store' # store
  /\ UNCHANGED <<test, script, at, returned, graph, now>>

LoseCache ==
  /\ \/ cache # NoCache /\ cache' = NoCache /\ UNCHANGED cache2
     \/ cache2 # NoCache /\ cache2' = NoCache /\ UNCHANGED cache
  /\ UNCHANGED <<test, script, at, returned, store, now, kernels, edges, stm, scratch,
                 counts, kernels2, edges2, stm2, scratch2, counts2, mind>>

Play ==
  /\ at <= Len(script)
  /\ \E cfg \in {step.cfg} :
       \/ /\ \/ LinkCall(cfg) \/ CrossCall(cfg) \/ KernelCall(cfg) \/ CompactEarly(cfg)
             \/ ReadCross(cfg) \/ ReadEmotion(cfg) \/ ReadGestalt(cfg)
          /\ UNCHANGED <<graph2, mind>>
       \/ EmotionCall(cfg) /\ UNCHANGED graph2
       \/ GestaltCall(cfg) /\ UNCHANGED mind

\* A test that cannot go on is a deadlock; one that is through is not.
Done == at > Len(script) /\ UNCHANGED vars

Next == Play \/ LoseCache \/ Done

Spec == Init /\ [][Next]_vars

-----------------------------------------------------------------------------
Reports == {"link_tick", "tick", "kernel", "emotional_tick", "gestalt_tick"}

\* The last call returned what its test asserts, if it asserts anything.
Asserted ==
  at > 1 =>
    LET call == Recorded[at - 1]
    IN  "in" \in DOMAIN call =>
          IF call.call \in Reports
          THEN \A f \in DOMAIN call.in : returned[f] \in call.in[f]
          ELSE returned \in call.in

(***************************************************************************)
(* What the tests of the edge stores and of the cycle on them assert holds *)
(* of the models of the three stores, whenever the sparse one chooses to   *)
(* compact.                                                                *)
(***************************************************************************)
EdgeTestsPass == test.suite \in EdgeSuites => Asserted

(***************************************************************************)
(* What the tests of the kernel layer, the emotion layer and the           *)
(* cross-modal layer assert holds of the models of the three, whether a    *)
(* graph scores from its centroid cache or not.                            *)
(***************************************************************************)
GraphTestsPass == test.suite \in GraphSuites => Asserted
=============================================================================
