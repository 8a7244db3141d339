# TLA+ models of sokm-core

Specifications, model-checking runs and proofs for sokm-core: a self-organising
kernel map whose kernels grow where inputs fall and are linked by Hebbian edges
that strengthen, decay and are pruned.

Paths below are relative to `src/crates/`.

## 1. The system

| component | state | operations | source |
|---|---|---|---|
| Hebbian cycle | none: it drives an edge store | `decay`, `strengthen`, `prune`, `tick`, `propagate`, `propagate_soft`, `top_n` | `sokm/src/ops.rs`, `config.rs` |
| `EdgeStore`, `Reindex` | the contract of a backend | get/set/scale/increment/prune/touch/neighbours, reindex | `sokm/src/store.rs` |
| `HashEdgeStore` | weight map, tick map | the trait | `sokm/src/store.rs` |
| `SparseEdgeStore` | CSR slots (dead ones are zeros), row pointers, column index, pending buffer, tick map, dead count, `num_nodes` | the trait, `grow`, `compact`, `reindex`, automatic compaction | `sokm/src/sparse.rs` |
| `KernelStore` | vector of kernels (centroid, class, excitation, last activation, extinct flag) | push, touch, label, mark and compact the extinct | `sokm-kernel/src/store.rs`, `unit.rs` |
| `Stm` | a list of kernel indices, bounded | `update` (evicts the least excited), `reindex` | `sokm-kernel/src/stm.rs` |
| `KernelGraph` | all of the above, propagation scratch, co-activation counts, SIMD centroid cache | `tick`, `compact`, `set_edge`, `kernels_mut`, save and load | `sokm-kernel/src/graph.rs` |
| activation, growth, query | none | gaussian scores, growth, propagation, best match, prediction | `sokm-kernel/src/{activation,growth,query}.rs` |
| emotion layer | a vector of emotion variables parallel to the kernels, a global state | `tick`, `compact`, attention, policies | `sokm-emotion/src/` |
| cross-modal layer | two kernel graphs, cross edges with ticks and a reverse index | `tick`, `compact`, recall, compacting one side | `sokm-multimodal/src/` |

**Interaction.** All of it is synchronous, owned, single-threaded Rust: there are
no threads, locks, messages or persistence protocol. A caller alternates `tick`
with maintenance (`compact`, `set_edge`, marking kernels extinct, saving and
loading). `KernelGraph::tick` reads kernels and edges, writes kernels and STM, and
calls `sokm::tick`, which runs decay, strengthen, weight pruning and inactivity
pruning on the store. `compact` renumbers the kernels, and the graph passes the
old-to-new map to every structure that holds kernel positions. The emotion and
cross-modal layers wrap one and two graphs in the same way, with maps of their own.

**What is hard here** is therefore not concurrency but long histories:

- indices that must be renumbered together in five structures by every compaction;
- two backends with very different internals that are promised to agree;
- dead slots, a buffer and a trigger that may compact inside any write, also
  between the two passes of one prune;
- transient state carried from one tick to the next (scratch, counts, cache);
- off-by-one in the two inactivity rules, and clocks that stand still or jump;
- entries that outlive what they describe (ticks of pruned edges, counts of
  labelled kernels);
- the capacity of the sparse store, which only the client knows about.

**What makes each component correct**: a store acts on each edge independently,
by the law of section 3 (`EdgeStore`); the hash store keeps its two maps in step;
the sparse store never holds a key twice, bounds its garbage and never indexes
past its rows; the graph's indices never dangle, its live kernels are never
redundant, its edges join kernels of one class, its scratch is clean between
ticks, its cache mirrors the kernels, a compaction only forgets the extinct, its
public reads agree with what a tick computes on cache and scratch, and what it
predicts fires; emotion variables follow their kernels, and a graph whose kernels
feel nothing becomes attentive again; a cross edge joins kernels that exist, the
reverse index is the inverse of the weights, and recall is symmetric.

## 2. Modules

| module | models |
|---|---|
| `FiniteMaps`, `CompactMap` | HashMaps as they are read and written; the renumbering of a compaction |
| `Sokm` | configuration, canonical keys, one strengthening step, the index maps of a compaction |
| `EdgeStore` | abstract specification of a store: live edges with weight and last activation |
| `HashEdgeStore` | the hash backend and the generic cycle on it |
| `SparseEdgeStore` | the sparse backend and the generic cycle on it |
| `StoreParity` | both backends under the same calls |
| `SparseUnderGraph` | a sparse store under the calls a kernel graph makes |
| `KernelGraph` | the kernel graph on the abstract store |
| `KernelQuery` | the reads of a kernel graph: scores, growth, both propagations, best match, prediction |
| `KernelVector` | abstract specification of a kernel graph for the layers that wrap one |
| `EmotionalGraph` | the emotion layer on a `KernelVector` |
| `CrossEdges` | abstract specification of the cross edges: pairs of kernels with weight and last activation |
| `CrossEdgeStore` | the cross edges with their ticks and reverse index, as operators |
| `GestaltGraph` | two `KernelVector`s and a `CrossEdgeStore`, and a caller that compacts one of the two itself |
| `GestaltRecall` | recall across the cross edges, in both directions |
| `LinkTests`, `KernelTests`, `EmotionTests`, `CrossTests`, `GestaltTests` | the tests of `sokm`, `sokm-kernel`, `sokm-emotion` and `sokm-multimodal` as scripts of calls and asserted answers |
| `RecordedTests` | the scripts played on `HashEdgeStore`, `SparseEdgeStore`, `KernelGraph`, `KernelQuery`, `EmotionalGraph` and `GestaltRecall` |
| `MC*` | constants of the runs |
| `SokmProofs` | lemmas about the vocabulary of `Sokm` |
| `HashEdgeStoreProofs`, `SparseEdgeStoreProofs`, `StoreParityProofs` | theorems about the backends, and about the sparse one under a kernel graph; the last module uses the other two |
| `FiniteProofs` | induction, sums over finite sets, ordered lists of positions |
| `KernelGraphProofs` | theorems about the kernel graph: vector, scratch, cache, everything that holds kernel positions, queries |
| `EmotionalGraphProofs`, `GestaltGraphProofs` | theorems about the wrapping layers |

`HashEdgeStore` and `SparseEdgeStore` hold the store in one record-valued
variable and give every method as an operator on its value, named after the
method, so that `tick` is the composition of operators that `sokm::tick` is of
calls. `StoreParity` instantiates both; `SparseUnderGraph` extends the sparse one;
`KernelGraph` instantiates `EdgeStore`. `EmotionalGraph` extends `KernelVector` and
`GestaltGraph` instantiates it twice: the wrapping layers never look at centroids,
edges or STM, only at positions, labels, extinction and the winner of a tick, and
`ImplementsVector` checks that `KernelGraph` gives them what they rely on. Because both backends are shown to
implement `EdgeStore`, and the graph is shown to make only calls that `EdgeStore`
allows (`KernelDrivesEdgeStore`), what holds of the graph on the abstract store holds of
the graph on each backend, as far as the client conditions of section 4 reach.

**Abstractions.**

- Weights and levels are naturals in an arbitrary unit. The decay factor is a
  table `Decayed` that never increases a weight and never turns a positive one
  into 0. A factor in (0, 1) may underflow a denormal in principle; every weight
  below `min_weight` has been pruned long before.
- Constants satisfy `SokmConfig::validate` and `KernelConfig::validate` (assumptions
  `ConfigAssumption` and `KernelConfigAssumption`).
- Iteration order of HashMaps never appears: lists of edges are sets or maps. A
  floating-point sum does depend on that order; this is not modelled.
- CSR row pointers, columns and the column index are functions of the slot map:
  the code rebuilds all of them together and moves slots nowhere else. An index
  left behind by a compaction is therefore not a state of the model.
  `panicked` records the out-of-bounds index that aborts `compact`.
- Spread is in units of gamma times a weight, and the score of a kernel in units
  of its own: `Combined` adds the two, and the runs choose `Gamma` so that spread
  can outweigh a score. `SpreadNeverDecidesGrowth` makes the scale irrelevant to
  the comparison with `theta_k` in a tick.
- The gaussian is a symmetric table of levels, `SMax` (1.0) at the centroid.
  An input is a member of a small set and a centroid is the input it grew at.
- Kernel `i` of `KernelGraph` is index `i - 1` of the code: sequences start at 1.
- Step 10 of `tick`, a double loop that writes classes while it reads them, is
  given by its result: `Inherited` says which labels the pass ends with, and has
  exactly one solution (`TickDetermined`), since kernel `i` only looks at labels given
  before its turn.
- The SIMD build is modelled: the other build has no cache and the same scores.
- `tick` is one action. A tick runs to completion under `&mut self`, so
  no caller can observe or interrupt its steps.
- A wrapping layer is shown an arbitrary set of live kernels, the winner among
  them, as the kernels that scored above 0: every outcome of the gaussian.
- An emotion is a level for each dimension; `Toward` is the step towards the target,
  `Felt` a feeling weighted by an activation and `Faded` the decay factor of the policy.
  `panicked` records a read past the end of the emotion variables.
- The lists `reverse[j]` of the cross store are bags: recall does not depend on
  their order.
- Save and load keep everything except the fields marked `serde(skip)`.

## 3. What is checked

`EdgeStore` states the law both backends promise: one cycle acts on every edge
by itself. Decay; if both ends are activated, the new weight and the current tick;
then the edge stays iff its weight reaches `min_weight` and it was active within
the last `p1` ticks. The implementations do none of this per edge: they touch
pairs before the edge exists, defer increments, prune in two passes and
compact in between. `CrossEdges` is the like for the cross edges, with the differences of
that layer: an edge has a direction, is strengthened before it decays, always decays,
and is never touched before it exists, so that every edge the caller sets starts at tick 0
where `EdgeStore` has to leave the first tick open. Its state has none of the redundancy of
`CrossEdgeStore`: a tick entry without an edge, which no read shows, would show as the wrong
last activation of the next edge of that pair.

| run | module and specification | shows |
|---|---|---|
| `hash_store` | `HashEdgeStore!FairSpec` | the hash backend implements `EdgeStore` for a caller that also touches pairs itself; no orphan ticks; an unused edge is eventually forgotten |
| `sparse_slots` | `SparseEdgeStore!Spec` | key in one place only, bounded garbage, no out-of-bounds row, compaction invisible |
| `sparse_refines` | `SparseEdgeStore!LinkSpec` | the sparse backend implements `EdgeStore` |
| `parity_cycles` | `StoreParity!CycleSpec` | the backends agree on weights, counts, neighbours and activity |
| `parity_stale_tick` | `StoreParity!Spec` | **violated**, see findings |
| `graph_panics` | `SparseUnderGraph!GraphSpec` | **violated**, see findings |
| `kernel_train` | `KernelGraph!TrainSpec` | what a training loop learns: kernels apart, edges within a class, counts spent, extinct exactly those that were idle and frozen since, compaction forgets only the extinct, and the class it predicts is that of a kernel which fires |
| `kernel_client` | `KernelGraph!Spec` | indices, scratch, cache and STM under a client that also mutates, saves and loads; `propagate` spreads as a tick does; spread never decides growth; the graph implements `KernelVector` |
| `emotion_lockstep` | `EmotionalGraph!FairSpec` | emotion variables parallel to the kernels, each kernel keeping its own; attention comes back |
| `emotion_prepopulated` | `EmotionalGraph!StoreSpec` | **violated**, see findings |
| `gestalt` | `GestaltGraph!Spec` | reverse index and ends of cross edges, through growth, extinction and compaction of both sides or one; the three maps implement `CrossEdges`; recall is symmetric |
| `recorded_tests` | `RecordedTests!Spec` | the tests of the repository pass on the models |

**The recorded tests.** `RecordedTests` plays 297 tests call by call: a script
is named after its test, each call is the operator that models it, and the answer
is compared with the assertion. It holds the models to everything the tests know
of the program; a test that the model cannot follow is a deadlock. Each test is
also run in more ways than the program runs it: those of the cycle on both
backends, with a sparse store that may compact before any call, and a graph that
may lose its centroid cache before any call. Weights are in millionths, scores in
hundredths; assertions with a tolerance accept that tolerance.

In the tests of the wrapping layers every tick is one of `KernelGraph` (two of them
for the cross-modal layer) and at once the tick that `EmotionalGraph` or `GestaltGraph`
expects of its `KernelVector`s. So these scripts also run the layers composed with
the whole graph underneath, where the other runs have only its promise.

Replaying also shows what the tests see. Of the mutants that the other runs
refute, the tests catch an inactivity rule off by one, increments applied only in
the matrix, a late threshold of label inheritance. They do not
notice a `set_weight` of 0 that the sparse store keeps as an edge, ticks left
behind by `prune_below` in the hash store, a dead slot taken for no slot by an
increment, garbage counted down for slots that were live, extinct kernels left unmasked
or counted as co-excited, scratch not zeroed, memory evicted by the excitations before the
winner's is counted, co-activation counts not renumbered,
links between kernels of different classes or of none. For the scratch there is a
reason: in `prop_scratch_does_not_leak_between_ticks` a comment swallows the second
tick and the edge. The state-space runs are there for these.

**Bounds, and why they are enough.**

- Stores: two or three nodes. The operations act on keys, and three nodes give
  keys that share an end, reindexings that drop, shift and keep, and (with the
  self-loop, four keys) a CSR large enough that one dead slot does not yet trigger
  a compaction: a quarter of four is one.
- Weights up to 4 in `parity_stale_tick`, with `Decayed[w] = (w + 1) div 2`: a new edge (3) decays
  to 2, which survives, and to 1, which does not; strengthening reaches `w_max`.
  In `parity_cycles` they go to 3: a new edge (2) dies of one decay unless strengthened
  in the same cycle, one set or strengthened to 3 of two. Its client sets two pairs
  that share an end, at any weight, and leaves the third to the cycles.
  In `hash_store` they go to 3 (`w_init` 2 decays below `min_weight` in one tick,
  3 in two), and the caller touches a self-loop by itself: a pair that no cycle
  links, that two nodes can both become, and whose tick may have no edge.
  `sparse_slots` and `sparse_refines` use weights up to 2, enough for a live, a
  decayed and a pruned edge.
- `MaxTick` bounds the clock at two (three for the violation): with `P1 = 1` an
  edge can be active, inactive for exactly `p1` ticks and inactive for longer. `sparse_slots`
  keeps the clock at 0 so that every method in every order fits; inactivity
  is the business of `sparse_refines` and `parity_cycles`, where it moves.
- `MaxDead` bounds the garbage counter, which can drift upwards without limit
  while the true number of dead slots does not. `Returns` is where the bounds on
  values are stated.
- `KernelGraph`: inputs on a line a, b, c where neighbours activate each other's
  kernels below `theta_k`: enough for direct and propagated co-activation, growth
  next to existing kernels, and labels from both. `kernel_train` has three kernels
  and two classes (`MCSymmetry` permutes the classes; nothing depends on their
  identity and every property is symmetric in them), so that order within the
  inheritance pass matters; kernels die after one idle tick, so compactions happen
  in the middle of training. `kernel_client` has two kernels and the whole client.
  There `StmCapacity = 2` and `MaxExcitation = 3` let the memory fill, hold a kernel
  twice and evict by different excitations; `kernel_train`, where STM decides
  nothing, has one place in it. `InheritThreshold = 2` makes counts survive a tick.
  `Gamma = 2` in `kernel_train` lets a kernel that does not fire, or is extinct,
  outweigh those that do: the interesting case of `PredictsFiredClass`.
- `EmotionalGraph`: three kernels, so that a compaction can drop the first, the
  middle or the last, and five levels, so that neighbours can differ and the sum of
  feelings, each weighted by one of two activations, reaches both bounds of the clamp.
  There is one dimension: the two meet only in the sum that attention compares with
  `theta_e`, and the recorded tests have both. In `emotion_lockstep`, where levels
  matter and labels do not, no kernel has one; `alpha` is above 0, so that a tick
  reads the variables of every kernel for their salience.
- `GestaltGraph`: two kernels on each side, two classes (permuted by `MCSymmetry`)
  and no label. A cross edge is born at 2 and decays by 1 per tick: it survives its
  birth, dies of one tick without strengthening, and reaches 3 when strengthened
  or set. Cues of one or two kernels at two levels tell a doubled or missing source. `P1 = 0` makes an edge inactive as soon as the clock moves without it. The
  caller sets and touches one pair that is not a pair of equal positions.
- The runs bound the vector by `MaxKernels` and the clock by `MaxTick`, and some
  call stays possible in every reachable state: a tick may repeat the last tick
  number. Deadlock is checked in all of them.

- `RecordedTests`: the configurations are those of the tests. Gaussians are a step
  function, exact to a hundredth at the distances the tests use, and decay is
  rounded down to a millionth.

**Fairness.** `HashEdgeStore!FairSpec` assumes weak fairness of a cycle with decay:
the caller keeps ticking, as the training loops of the examples and benches do. It
assumes nothing about the clock, which may stand still, nor about which nodes are
activated. `Forgotten` then says that an edge which from some point on is neither
set, touched by hand, renumbered nor strengthened is removed and stays so.
`EmotionalGraph!FairSpec` assumes weak fairness of all calls together: the agent goes
on being used. It then goes on ticking, because only finitely many kernels can be
marked and compacted between two ticks. `Recovers` says that the agent becomes
attentive for good once its live kernels feel nothing for good. The run's
`MCFaded` is a factor below 1: one step of the model is as many ticks as it takes to
reach the next level. The documented range includes 1, with which the state would stay.
Nothing else in the code is scheduled, and no other property is a liveness property.

**Findings.**

1. `graph_panics`. A kernel graph on a `SparseEdgeStore` can abort with an
   out-of-bounds index in `compact` (`sokm/src/sparse.rs:133`).
   `apply_increments` accepts any index, the graph never calls `grow`, and
   `reindex` shrinks `num_nodes` to the survivors. `SparseNeverPanics` shows the
   other half: a client that grows first is safe. How far the graph has to go is proved
   as well: it needs more kernels than the store has nodes (`GraphPanicsOnlyOutgrown`), and
   two more if it only ticks (`GraphTicksPanicOnlyByTwo`), as in this run. The example
   `category_formation.rs` says of the capacity that the store "Grows
   automatically if exceeded."
2. `parity_stale_tick`. Pruning by weight leaves the tick entry in the sparse
   store and removes it in the hash store, so an edge set again on that pair is
   pruned by one and kept by the other, although "Both produce identical results"
   (`sokm/README.md`). A client that sets no edge on a pair with such a tick left over
   (and none from a node to itself) sees them agree: `parity_cycles`.
3. `emotion_prepopulated`. `EmotionalKernelGraph::with_store` starts with no emotion
   variables, whatever kernels it is given, against the invariant stated in
   `sokm-emotion/src/graph.rs:50`. From there every tick reads past the end of the
   shorter vector and panics, and so does a compaction that keeps a kernel. With
   an empty store, the only use in tests and examples, nothing is wrong.

4. Observations on queries. `docs/decisions/0.1.0/growth-rule.md` calls the use of
   `should_grow_direct` in `tick` a deviation "confirmed as a bug", since growth should
   look at propagated activation too. `SpreadNeverDecidesGrowth` shows that the two
   rules decide alike: activation spreads only from a kernel that fires, and one that
   fires excites by itself. So the tests that are meant to show growth suppressed by
   propagation alone (`kernel_graph_tick_suppresses_growth_via_propagation`,
   `tick_propagation_accumulates_from_multiple_sources`) cannot. `best_match` may return
   an extinct kernel, lifted by its neighbours, although `sokm-kernel/src/store.rs:45`
   says of extinct kernels "Skipped in all activation and growth computations"; in a
   trained graph the label it has is still that of a kernel that fires
   (`PredictsFiredClass`), because edges join kernels of one class. With `set_edge` it
   need not be. Recall across modalities may return extinct kernels as well.

Smaller observations, not runs: counts of a kernel with its other partners stay
in `coactivation_counts` when it is labelled, although the field is documented as
keyed by (unlabelled, labelled): they take space until one of the two is compacted
away, and `CountsBelowThreshold` holds all the same. `CrossSokmConfig::validate`
accepts a `w_init` and a `min_weight` of 0, and with them cross edges of weight 0,
which `docs/invariants.md` #8 excludes; the assumption of `CrossEdgeStore` does
not. Cross edges decay in every tick, also in one told to skip decay.
`SparseEdgeStore::neighbors` lists a
self-loop in the CSR matrix twice (row and column index) and the hash store
once. `dead_count` is only an upper bound of the dead slots, because
`apply_increments` revives a slot without lowering it, so compactions may come
earlier than a quarter of garbage, never later (`GarbageBounded`).
The warning for `min_weight >= w_max` ("all edges will be pruned immediately",
`sokm/src/config.rs`) is too strong where the two are equal, since pruning is strict,
and does not cover `w_init < min_weight < w_max`, where it would be true.
`EmotionalGraphConfig::validate` checks the emotion part only, while the cross-modal
one checks all of its parts. `docs/invariants.md` #6 fears that a shorter emotion vector
would be read as zeros; the code panics. `DecayPolicy` leads the global state to 0 and
not to `optimal`, so that `Recovers` needs an `optimal` within `theta_e` of 0.
Of the unit tests, `labelled_kernel_class_unchanged_by_coactivation` never grows its
second kernel and `extinct_kernel_wins_via_propagation` marks none extinct.

## 4. What is proved

All theorems hold for every finite or infinite set of nodes allowed by the
assumptions, any number of kernels and
labels, every configuration that
validates, every decay table and every bound on the clock. The sparse store, and with
it the parity of the backends, needs a finite set of nodes: its garbage is counted.

- The vocabulary (`FiniteProofs`). The library states induction for an operator, which
  the provers here cannot instantiate. `Induction` states it for a set of numbers
  and follows from the pigeonhole principle: were a number missing, the successor
  would map the smaller elements one to one into themselves, and miss 0.
  `SubsetInduction`, `LeastElement` and the rest are built on it.
  A sum over a finite set is defined by a recursive table; `SumTableExists` and
  `SumTableUnique` show that there is exactly one, so that a sum can be taken apart at any
  element (`SumRemove`), compared (`SumSame`, `SumScaled`) and regrouped (`SumByClass`).
- `HashTypeCorrect`, `HashNoOrphanTicks`, `HashImplements`. The type invariant is
  inductive with the observation that ticks never exceed the clock.
  The argument goes operation by operation: each lemma of `HashEdgeStoreProofs`
  says what an operator does to `EdgesOf(s)`, the live edges of the abstract
  store, and `TickCorrect` composes decay, strengthen and the two prunes into
  `EdgeStore`'s per-edge law. The key facts are that an increment restores the new
  weight exactly (`IncrementRestores`), since it is a difference of two values
  read from the same state, and that an index map is injective on keys
  (`MapKeyInjective`), so re-keying merges no two edges.
  `NoOrphanTicks` is inductive on its own: every pair a cycle touches gets an
  increment that makes it an edge in the same cycle. Only pairs the caller touches
  itself are exempt, and a kernel graph touches none.
- `HashUnusedFades`. What one cycle can do to an edge it does not link, read off the
  per-edge law: it keeps the tick and at most the weight. `Forgotten` adds fairness.
- `SparseTypeCorrect`, `SparseDisjoint`, `SparseNeverPanics`,
  `SparseCompactionInvisible`. One inductive invariant, `IInv`, carries all four:
  types, disjointness of matrix and buffer (dead slots included) and every key
  of both below `num_nodes`. None of them is inductive alone: disjointness is what
  makes the reported weight the weight of one place, which bounds it and makes
  increments go to that place; the absence of panics needs every key below
  `num_nodes`, which `reindex` re-establishes because the new size is one more
  than the largest new index (`SizeAfterAbove`), and the guards of the client for
  the rest. `MaybeCompactCorrect` makes it irrelevant where a compaction happens.
- `SparseGarbageBounded`. `CountsDead` (the counter is at least the number of dead
  slots) is kept by every method: a removal counts each slot it kills, and only
  revivals go uncounted. `FewDead` (the counter is below a quarter of the slots) is
  restored by the trigger at the end of each removal.
- `SparseImplements`. The edges of the abstract store are what `get_weight` and
  `last_active` answer (`EdgesAreReads`), so each method is described by its effect on
  these two reads, and a compaction has none. Removals leave ticks behind; the edges do
  not show them until `set_weight` makes the pair an edge again, and there `EdgeStore`
  leaves the first tick open (finding 2). `TickEdgesLaw` composes the methods into
  the per-edge law. It is proved for `LinkSpec`, where whole cycles scale, increment, touch and
  prune: `EdgeStore` has no half of a cycle.
- `GraphPanicsOnlyOutgrown`, `GraphTicksPanicOnlyByTwo`, `GraphWithinCapacityImplements`: the
  sparse store under a graph that never calls `grow`. Every key of the store is between
  kernels that exist (`GraphInv`), whatever was pruned, compacted or renumbered: each
  method only drops keys, adds those it is called with, or maps all of them (`Confined`), and it
  panics only if the lower index of some key is not below `num_nodes`. So a panic needs a
  kernel past `num_nodes`; an edge of a cycle joins two different kernels, so it needs
  two. TLC finds both bounds reached. As long as the graph has no kernel too many, each of
  its steps is one of `LinkSpec`, so that `SparseImplements` applies: the capacity is all
  that separates the sparse store from what `KernelGraph` was proved on.
- `ParityWeights`, `ParityNeighbors`, `ParityActivity`. Two refinements of one
  specification agree where it leaves no choice. Both stores act on their live edges by
  the operators of `EdgeStore`, which are functions, and where `EdgeStore` leaves the first
  tick of an edge set by hand open, both choose 0, unless the sparse one still has a
  tick of that pair (`NoStaleTick`); so the live edges stay equal (`PInv`), and every read is a
  function of those. Counting needs matrix and buffer to be disjoint, and neighbours
  need that no edge is a self-loop (`NoLoops`), which the sparse store lists twice.
  Proved for `CycleSpec`, since `Spec` violates it (finding 2).
- `KernelScratchClean`, `KernelCacheCoherent`, `KernelLiveIsRecent`,
  `KernelLiveKernelsApart`, `KernelExtinctFrozen`, `KernelExtinctIffIdle`. One inductive invariant, `IInv`, of
  `KernelGraphProofs`. Scratch and cache come first: with a clean scratch and a coherent
  cache the scores a tick computes are the similarities themselves (`ScoresExact`), so
  the graph grows exactly when no live kernel fires (`GrewIffNoneFires`), and then the
  new centroid is out of reach of every live one and, the table being symmetric, the
  other way round. A stale cache would break it, and so would a scratch left over.
  `LiveIsRecent` is restored by each tick from the extinction rule. The converse, that every
  extinct kernel is idle (`ExtinctIsIdle`), holds in training only, as a caller may mark any
  kernel; it is inductive because the clock never goes back and no tick touches an extinct kernel.
- `KernelLiveKernelsPacked`, `KernelRepeatGrowsNothing`: two things `LiveKernelsApart` is for. The
  centroids of live kernels differ, since each fires for its own, so they are as many as
  some set of inputs none of which fires for another, and no history makes them more than
  such a set can have. And a tick leaves a live kernel that fires for its input
  (`TickCovers`: the winner is touched in the tick, so the extinction rule spares it, and its
  score was exact), so showing the input again cannot grow a second one.
- `QuerySpreadNeverDecidesGrowth`. From the same invariant: the spread starts at
  kernels that fire, and one that fires decides by itself.
- `QueryPropagateMatchesTick`. A tick adds gamma times the weight of an edge to the scratch
  entry of each end that a firing kernel reaches; `propagate` gives the firing kernels
  activation 1, weights each edge by it and collects the results in a map of its own.
  With a clean scratch and the scores of `ScoresExact`, both give a reached kernel one
  sum, over the firing kernels (`SpreadShape`, `PropagateShape`), and any other kernel nothing.
- `QueryPredictsFiredClass`. The best match of the combined scores has fired or was
  reached by one that did (`BestIsFiredOrReached`): some kernel fires, so the best score is
  at least `theta_k`, and a kernel that nothing reaches has only its own similarity to
  get there with. If it was reached, an edge joins it to a firing kernel, and
  `EdgesJoinSameClass` gives both one label.
- `TickDetermined`, `CompactDetermined`. The model gives step 10 and the renumbering by
  properties of their results. For any state that satisfies `IInv` the action `Tick` is shown equal to an
  assignment of one value, `TickOutcome`, so the model has neither fewer nor more
  behaviours than the loops of the code. By induction over the positions, a pass can be
  solved up to a position and two solutions agree up to it (`LabelPassDetermined`); likewise
  a set of positions has one ordered list (`EnumerationDetermined`).
- `KernelDrivesEdgeStore`. `KernelGraph` implements `EdgeStore!Spec` on its edges and clock. The
  substance is in what it passes: the activated kernels of the label of the tick
  form an activation of existing nodes (`ActShape`), and the map of a compaction is one of the
  index maps of the store (`OldToNewShape`).
- `KernelImplementsVector`. What the wrapping layers rely on: initial states
  map to initial states and every call maps to an action of `KernelVector` or a stutter. So
  what is proved of the layers is proved on top of the whole graph.
- `KernelTypeCorrect`, `KernelIndicesInRange`, `KernelCountsBelowThreshold`,
  `KernelStmForgetsWeakest`, `KernelEdgesJoinSameClass`. `KInv` adds the structures that
  hold positions. The renumbering of a compaction is shown to be
  an increasing map of the live kernels onto the new vector (`OldToNewShape`); each
  structure then keeps its range because it drops what the map does not know and maps
  the rest. The counts stay below the threshold because the pair that reaches it is
  labelled and removed in the same tick. `EdgesJoinSameClass` holds in training
  (`TrainSpec`) only: `set_edge` checks nothing.
- `KernelTrainedEdges`. Between the ticks of a training loop every edge weighs `min_weight` to
  `w_max` and was active within the last `p1` ticks. Only a tick moves the clock, and it ends in
  both prunes; strengthening has the cap and decay raises nothing; and a compaction renames
  weight and last activation of an edge together. `set_edge` respects none of it.
- `KernelCompactionPreserves`. `Moved` states a compaction by what each structure says
  of the survivors; re-keying merges no two edges (`RekeyValue`), and old and new counts
  correspond in both directions, so the centroids at the ends of edges and counts and in
  memory are the same before and after.
- `EmotionLockstep`. The inductive invariant adds the types of the two vectors: a
  growing tick appends to both, any other to neither, training and the tick's own
  changes of kernels keep lengths, and a compaction picks the same positions from
  both. It holds from `New` only; from `WithStore` it fails (finding 3). `EmotionNeverPanics`
  follows: with the vectors in step, no tick, salience score or compaction reads past the end.
- `EmotionTypeCorrect`, `EmotionStoreTypeCorrect`. `TypeOK` is inductive on its own, from both
  initial conditions. The sum of feelings is some integer (`SumIsInt`, the kernels being
  finitely many), and the clamp, with bounds within the levels, makes a level of any integer.
- `EmotionCalmFades`. The sum of no feelings is 0, so the global state is the faded one,
  clamped, and the clamp only moves a value towards 0. Calm of the kernels that
  are live *after* the tick is not enough: a kernel may score and be extinguished by
  inactivity in one tick, and what it felt still counts.
- `EmotionFollowsKernel`. The property finds a survivor by counting the survivors up to
  it, the code by the list it keeps. `KeptRank` shows that they agree: the list restricted
  to the places up to the survivor's is a bijection onto the survivors up to it. For a
  tick, only the winner is trained, and it is live when the tick ends.
- `GestaltReverseIsInverse`, `GestaltTicksHaveEdges`. `InStep`, which relates the
  three maps of the cross store, is kept by every method (one lemma each) and so
  by `CrossTick`, whatever is activated. Each part needs the other maps:
  an increment lists a source only where there was no weight, so no source is
  listed twice, and a reindexing renames ticks into weights because each tick
  had one.
- `GestaltEdgesJoinKernels`, `GestaltTypeCorrect`. An edge is created between kernels
  of the tick's pairing, which are labelled and alike, and from then on each side only
  moves them: `Carries` says that a change of a vector keeps the labels along a map (the
  identity for growth and extinction, the renumbering for a compaction), and `Joins` is
  kept along such maps, one per side. So compacting one side alone is safe exactly
  because its caller passes the map on.
- `GestaltCompactionKeepsEdges`. `Moves` says of each side's map that it merges no
  positions and takes survivors to their rank (`KeptRank` again, the identity for a side that is
  not compacted); renaming edges by two such maps loses none between survivors and
  confuses none (`RenumberReads`, for which keys must be pairs, `Paired`).
- `GestaltImplements`. Of each method one lemma says what it does to `EdgesOf(s)`, the edges that
  the three maps stand for (`ScaledReads`, `RemoveReads`, `SetReads`, `TouchReads`), and
  `TickReads` composes a tick of them: strengthening touches an edge it has just made, and the
  two prunes together remove what does not survive. `InStep` is what makes it
  true: with a tick entry left behind, `Set` would not start the edge at 0. A renumbering is
  one of the abstract index maps on each side (`CompactionIndexes`, `IdentityIndexes`), for which
  neither vector may outgrow the positions (`Sized`); such maps merge nothing, so every edge
  arrives with its weight and tick (`ReindexReads`).
- `GestaltRecallSymmetric`. Both sides are a sum, over one cue, of sums over the edges of a kernel.
  Regrouped by edges (`SumByClass`), each is the sum over the weights of the product of
  weight and both activations. The direction that reads the reverse index lists the
  same edges because it is the inverse of the weights (`ReverseIsInverse`).

**Only model-checked**: `Forgotten` and `Recovers`, which are liveness under fairness (the steps
they rest on are proved, `HashUnusedFades` and `EmotionCalmFades`), and the replayed
tests, which are finite by nature. Every other property of a passing run is the
statement of a theorem.

## 5. What is not modelled

- `blend_output`, `top_n`: pure functions of vectors that no other code of the
  repository decides by. `blend_output` mixes in the mean of the centroids in memory,
  extinct ones included; `docs/algorithm.md` section 8 says the best match.
- Arithmetic of the gaussian, of its compact version and of the SIMD kernel, NaN and
  rounding. The tests about them, those of configuration checks, and those that
  expect a panic or a debug assertion are not replayed.
- The values of salience: a tick returns them and nothing reads them. That it reads
  the variables of every kernel is modelled (`SalienceReads`).
- Callers that pass indices of kernels that do not exist, scores that are not
  finite, or a clock that runs backwards.
- The encoders behind `serde`, benches and examples.

## 6. What remains

- The two liveness properties stay with the runs: fairness and `ENABLED` are out of the prover's
  reach, and what each cycle contributes to them is proved.
- A `KernelGraph` that calls `grow` before it links a new kernel would satisfy
  `GraphWithinCapacityImplements` in every run. Once the code does, `SparseUnderGraph` needs that
  call in `GraphTick`, and `TickNeverPanics` becomes a theorem.
- Parity for a client that revives a stale tick has to wait for `prune_below` to drop the
  tick (finding 2); `NoStaleTick` is then no restriction.
