---------------------------- MODULE KernelTests -----------------------------
(***************************************************************************)
(* The unit tests of the kernel layer (sokm-kernel/src/graph.rs, query.rs, *)
(* growth.rs, store.rs, stm.rs) as scripts, in the manner of LinkTests.    *)
(*                                                                         *)
(* A centroid is a position in thousandths and the sigma of its kernel, in *)
(* thousandths, too; a vector of several coordinates stands at a position  *)
(* of its own.  Activations and theta_k are in hundredths.  Kernels have   *)
(* the indices of the code here; None is Rust's None.                      *)
(***************************************************************************)
EXTENDS Integers, Sequences, TLC

CONSTANTS None, Never

L == INSTANCE LinkTests

One == L!One
Nothing == L!Nothing
Returns(call, S) == L!Returns(call, S)

sokm_cfg == [L!Default EXCEPT !.w_max = 10 * One]

KernelDefault ==
  [theta_k |-> 10, sigma_0 |-> 1000, stm_capacity |-> 16,
   p1_kernel |-> Never, label_inherit_threshold |-> Never]

\* sokm_cfg() and kernel_cfg() of the tests of graph.rs.
Cfg == sokm_cfg @@ KernelDefault

(***************************************************************************)
(* The gaussian in hundredths, at distance d in thousandths, rounded down. *)
(* A positive value is 1 at least; beyond 27.3 sigma it underflows to 0.   *)
(***************************************************************************)
Wide(d) ==
  LET level == <<<<100, 99>>, <<150, 97>>, <<500, 77>>, <<682, 62>>, <<707, 60>>,
                 <<832, 50>>, <<900, 44>>, <<1000, 36>>, <<1414, 13>>, <<1500, 10>>,
                 <<27200, 1>>>>
      far == {n \in DOMAIN level : d <= level[n][1]}
  IN  IF far = {} THEN 0
      ELSE level[CHOOSE n \in far : \A m \in far : n <= m][2]

Distance(a, b) == IF a < b THEN b - a ELSE a - b

Gaussian(x, centroid) ==
  LET d == Distance(x[1], centroid[1])
  IN  IF d = 0 THEN 100 ELSE IF centroid[2] = 1000 THEN Wide(d) ELSE 0

At(x) == <<x, 1000>>

\* The inputs that tests score.
Inputs ==
  ({0, 50, 75, 100, 150, 200, 300, 400, 500, 707, 832, 900, 1000, -1000, 1414, 1500,
    2000, 3000, 5000, 14000}
     \cup {10000 * n : n \in 1 .. 5} \cup {100000 * n : n \in 1 .. 10})
    \X {1, 10, 1000}

(***************************************************************************)
(* The calls.  tick is given with the configuration of that very tick.     *)
(***************************************************************************)
new == [call |-> "new", cfg |-> Cfg]
tick(x, c, t, cfg) ==
  [call |-> "tick", x |-> <<x, cfg.sigma_0>>, c |-> c, t |-> t, mode |-> "Apply", cfg |-> cfg]
set_edge(a, b, w) == [call |-> "set_edge", of |-> <<a, b>>, w |-> w, cfg |-> Cfg]
mark_extinct(i) == [call |-> "mark_extinct", node |-> i, cfg |-> Cfg]
insert_count(a, b, n) == [call |-> "insert_count", of |-> <<a, b>>, w |-> n, cfg |-> Cfg]
compact(S) == [call |-> "compact", cfg |-> Cfg, in |-> S]
compact_with_map(S) == [call |-> "compact_with_map", cfg |-> Cfg, in |-> S]
save_load == [call |-> "save_load", cfg |-> Cfg]

push(x, sigma, c) == [call |-> "push", x |-> <<x, sigma>>, c |-> c, cfg |-> Cfg]
set_class(i, c) == [call |-> "set_class", node |-> i, c |-> c, cfg |-> Cfg]
incr_excitation(i) == [call |-> "incr_excitation", node |-> i, cfg |-> Cfg]
touch_kernel(i, t) == [call |-> "touch_kernel", node |-> i, t |-> t, cfg |-> Cfg]
update(i, capacity) ==
  [call |-> "update", node |-> i, cfg |-> [Cfg EXCEPT !.stm_capacity = capacity]]
reindex_stm(kept) == [call |-> "reindex_stm", kept |-> kept, cfg |-> Cfg]

kernel_count(n) == [call |-> "kernel_count", cfg |-> Cfg, in |-> {n}]
graph_edge_count(n) == [call |-> "graph_edge_count", cfg |-> Cfg, in |-> {n}]
weight(a, b, w) == [call |-> "weight", of |-> <<a, b>>, cfg |-> Cfg, in |-> {w}]
kernel(i, expected) == [call |-> "kernel", node |-> i, cfg |-> Cfg, in |-> expected]
is_extinct(i, b) == [call |-> "is_extinct", node |-> i, cfg |-> Cfg, in |-> {b}]
min_excitation_idx(i) == [call |-> "min_excitation_idx", cfg |-> Cfg, in |-> {i}]
count_keys(S) == [call |-> "count_keys", cfg |-> Cfg, in |-> S]
scratch(S) == [call |-> "scratch", cfg |-> Cfg, in |-> S]
indices(S) == [call |-> "indices", cfg |-> Cfg, in |-> S]
is_full(capacity, b) ==
  [call |-> "is_full", cfg |-> [Cfg EXCEPT !.stm_capacity = capacity], in |-> {b}]

graph_propagate(x, cfg, S) == [call |-> "graph_propagate", x |-> At(x), cfg |-> cfg, in |-> S]
graph_propagate_soft(x, cfg, S) ==
  [call |-> "graph_propagate_soft", x |-> At(x), cfg |-> cfg, in |-> S]
compute_scores(x, S) == [call |-> "compute_scores", x |-> At(x), cfg |-> Cfg, in |-> S]
max_activation(x, S) == [call |-> "max_activation", x |-> At(x), cfg |-> Cfg, in |-> S]
should_grow_direct(x, b) ==
  [call |-> "should_grow_direct", x |-> At(x), cfg |-> Cfg, in |-> {b}]
best_match(x, cfg, S) == [call |-> "best_match", x |-> At(x), cfg |-> cfg, in |-> S]
predict(x, cfg, c) == [call |-> "predict", x |-> At(x), cfg |-> cfg, in |-> {c}]

\* Ticks from..to on the same input, with the same label.
Ticks(x, c, from, to, cfg) == [n \in 1 .. to - from + 1 |-> tick(x, c, from + n - 1, cfg)]

Theta(th, cfg) == [cfg EXCEPT !.theta_k = th]
AlwaysGrow(cfg) == Theta(200, cfg)

-----------------------------------------------------------------------------
(***************************************************************************)
(* graph.rs: growth, strengthening and propagation.                        *)
(***************************************************************************)
kernel_graph_starts_empty == <<kernel_count(0)>>

kernel_graph_tick_grows_on_novel_input ==
  <<Returns(tick(1000, 0, 1, Cfg), [grew |-> {TRUE}]), kernel_count(1)>>

kernel_graph_tick_no_growth_on_known_input ==
  <<tick(1000, 0, 1, Cfg), Returns(tick(1000, 0, 2, Cfg), [grew |-> {FALSE}]),
    kernel_count(1)>>

kernel_graph_tick_does_not_strengthen_cross_class_pairs ==
  <<tick(0, 0, 1, Cfg), tick(100000, 1, 2, Cfg), graph_edge_count(0),
    tick(0, 0, 3, Cfg), tick(100000, 1, 4, Cfg), graph_edge_count(0)>>

\* Kernels at 0 and 0.15, which 0.075 activates both.
TwoKernels == <<tick(0, 0, 1, Theta(99, Cfg)), tick(150, 0, 2, Theta(99, Cfg))>>
BothActivated(from, to) == Ticks(75, 0, from, to, Theta(99, Cfg))

kernel_graph_tick_strengthens_same_class_pairs ==
  TwoKernels
    \o <<kernel_count(2),
         Returns(tick(75, 0, 3, Theta(99, Cfg)), [strengthened |-> 1 .. 10])>>

kernel_graph_propagation_attenuates_by_gamma ==
  TwoKernels \o BothActivated(3, 3)
    \o <<graph_propagate_soft(0, Cfg, [{0, 1} -> 1 .. 1000 * One])>>

\* The test has these edges lift kernel 2; the input activates 0 and 1 anyway.
tick_propagation_accumulates_from_multiple_sources ==
  LET cfg == [Cfg EXCEPT !.gamma = 10]
  IN  <<tick(0, 0, 1, AlwaysGrow(cfg)), tick(1000, 0, 2, AlwaysGrow(cfg)),
        tick(50000, 0, 3, AlwaysGrow(cfg)), kernel_count(3),
        set_edge(0, 2, 400000), set_edge(1, 2, 600000),
        Returns(tick(500, 0, 4, cfg), [grew |-> {FALSE}])>>

kernel_graph_tick_suppresses_growth_via_propagation ==
  TwoKernels \o BothActivated(3, 19)
    \o <<kernel_count(2), Returns(tick(0, 0, 20, Theta(1, Cfg)), [grew |-> {FALSE}]),
         kernel_count(2)>>

kernel_graph_propagate_binary_matches_tick_semantics ==
  TwoKernels \o BothActivated(3, 14)
    \o <<graph_propagate(0, Theta(1, Cfg), [{0, 1} -> 1 .. 20 * One]), kernel_count(2),
         Returns(tick(0, 0, 15, Theta(1, Cfg)), [grew |-> {FALSE}]), kernel_count(2)>>

\* 148005 is the weight of the edge: created, decayed once, strengthened once.
kernel_graph_propagate_soft_returns_graded_spread ==
  LET cfg  == [Cfg EXCEPT !.gamma = 10]
      full == 10 * 100 * 148005
  IN  TwoKernels \o BothActivated(3, 3)
        \o <<graph_propagate_soft(0, cfg, [{0, 1} -> 1 .. full]),
             graph_propagate_soft(832, cfg, [{0, 1} -> 1 .. full - 1])>>

\* As it compiles: its second tick and its set_weight are inside a comment.
prop_scratch_does_not_leak_between_ticks ==
  LET narrow == [Cfg EXCEPT !.gamma = 10, !.sigma_0 = 10]
      wide   == [Cfg EXCEPT !.gamma = 10]
  IN  <<tick(0, 0, 1, AlwaysGrow(narrow)), tick(0, 0, 3, Theta(1, wide)),
        tick(10000, 0, 4, Theta(1, wide)), scratch({<<0>>, <<0, 0>>})>>

prop_scratch_grows_with_kernels ==
  LET cfg == [L!Default @@ KernelDefault EXCEPT !.sigma_0 = 10]
  IN  [n \in 1 .. 10 |-> tick(100000 * (n - 1), 0, n - 1, AlwaysGrow(cfg))]
        \o <<scratch([1 .. 9 -> {0}] \cup [1 .. 10 -> {0}])>>

propagate_returns_empty_when_no_kernel_meets_theta_k ==
  <<tick(0, 0, 1, AlwaysGrow(Cfg)), set_edge(0, 0, One),
    graph_propagate(0, AlwaysGrow(Cfg), {Nothing})>>

propagate_soft_returns_empty_when_no_scores_positive ==
  <<tick(0, 0, 1, AlwaysGrow(Cfg)), mark_extinct(0), graph_propagate_soft(0, Cfg, {Nothing})>>

kernel_graph_tick_skip_decay_preserves_edge_weight ==
  <<tick(0, 0, 1, Cfg), set_edge(0, 0, 500000),
    [tick(1000000, 0, 2, Cfg) EXCEPT !.mode = "Skip"], weight(0, 0, 500000)>>

(***************************************************************************)
(* graph.rs: activity, extinction, compaction and loading.                 *)
(***************************************************************************)
kernel_graph_tick_updates_last_activated ==
  <<Returns(tick(1000, 0, 5, Cfg), [activated_kernel |-> {0}]), kernel(0, [last |-> {5}])>>

kernel_graph_tick_last_activated_advances_with_tick ==
  <<tick(1000, 0, 5, Cfg), Returns(tick(1000, 0, 10, Cfg), [activated_kernel |-> {0}]),
    kernel(0, [last |-> {10}])>>

P1Kernel(p1, cfg) == [cfg EXCEPT !.p1_kernel = p1]

kernel_marked_extinct_after_p1_inactivity ==
  <<tick(1000, 0, 1, P1Kernel(5, Cfg)),
    Returns(tick(1000000, 0, 7, P1Kernel(5, Cfg)), [newly_extinct |-> {1}]),
    is_extinct(0, TRUE)>>

kernel_not_extinct_before_p1 ==
  <<tick(1000, 0, 1, P1Kernel(10, Cfg)),
    Returns(tick(1000000, 0, 6, P1Kernel(10, Cfg)), [newly_extinct |-> {0}]),
    is_extinct(0, FALSE)>>

newly_born_kernel_not_immediately_extinct ==
  <<Returns(tick(1000, 0, 5, P1Kernel(0, Cfg)), [grew |-> {TRUE}, newly_extinct |-> {0}])>>

tick_at_current_tick_zero_new_kernel_survives ==
  <<Returns(tick(1000, 0, 0, P1Kernel(5, Cfg)), [grew |-> {TRUE}, newly_extinct |-> {0}]),
    is_extinct(0, FALSE)>>

kernel_graph_compact_integrates_all ==
  LET cfg == [P1Kernel(3, Cfg) EXCEPT !.gamma = 10, !.sigma_0 = 1]
  IN  <<tick(0, 0, 1, AlwaysGrow(cfg)), tick(10000, 0, 2, AlwaysGrow(cfg)),
        tick(20000, 0, 3, AlwaysGrow(cfg)), kernel_count(3),
        set_edge(0, 2, 500000), graph_edge_count(1),
        tick(10000, 0, 5, cfg), is_extinct(0, TRUE), is_extinct(1, FALSE), kernel_count(3),
        compact({1}), kernel_count(2), graph_edge_count(0), tick(10000, 0, 6, cfg)>>

empty_graph_tick_then_compact_no_panic ==
  <<tick(1000, 0, 1, Cfg), mark_extinct(0), compact({0, 1})>>

compact_when_no_kernels_extinct_returns_zero == <<tick(1000, 0, 1, Cfg), compact({0})>>

compact_with_map_returns_correct_map ==
  <<tick(0, 0, 1, AlwaysGrow(Cfg)), tick(10000, 0, 2, AlwaysGrow(Cfg)),
    tick(20000, 0, 3, AlwaysGrow(Cfg)), mark_extinct(1),
    compact_with_map({<<0, None, 1>>})>>

stm_eviction_sequence_up_to_capacity_plus_one ==
  LET cfg == [AlwaysGrow(Cfg) EXCEPT !.stm_capacity = 2]
  IN  <<tick(0, 0, 1, cfg), tick(100000, 0, 2, cfg), tick(200000, 0, 3, cfg),
        indices([1 .. 2 -> 0 .. 2])>>

kernel_graph_msgpack_roundtrip ==
  LET cfg == L!Default @@ KernelDefault
      grown == <<kernel_count(1), graph_edge_count(0), kernel(0, [centroid |-> {At(0)}])>>
  IN  <<tick(0, 0, 1, cfg), tick(1000, 0, 2, cfg), tick(-1000, 0, 3, cfg), tick(0, 0, 4, cfg)>>
        \o grown \o <<save_load>> \o grown

post_serde_roundtrip_tick_works ==
  LET cfg == L!Default @@ KernelDefault
  IN  <<tick(0, 0, 1, cfg), tick(1000, 0, 2, cfg), save_load, count_keys({{}}),
        Returns(tick(0, 0, 3, cfg), [grew |-> {FALSE}])>>

(***************************************************************************)
(* graph.rs: labels.                                                       *)
(***************************************************************************)
tick_with_none_class_creates_unlabelled_kernel ==
  <<tick(1000, None, 1, Cfg), kernel(0, [class |-> {None}])>>

tick_with_some_class_creates_labelled_kernel ==
  <<tick(1000, 3, 1, Cfg), kernel(0, [class |-> {3}])>>

unlabelled_kernel_does_not_participate_in_strengthening ==
  <<tick(1000, None, 1, Cfg), Returns(tick(1000, 0, 2, Cfg), [strengthened |-> {0}])>>

Inherit(threshold) == [Theta(99, Cfg) EXCEPT !.label_inherit_threshold = threshold]

\* The second input does not grow a kernel: its activation is 0.99.
labelled_kernel_class_unchanged_by_coactivation ==
  <<tick(0, 1, 1, Inherit(2)), tick(100, 2, 2, Inherit(2))>>
    \o Ticks(50, 1, 3, 9, Inherit(2)) \o <<kernel(0, [class |-> {1}])>>

\* A labelled kernel and an unlabelled one beside it.
OneLabelled(cfg) == <<tick(0, 1, 1, cfg), tick(100, None, 2, AlwaysGrow(cfg))>>

newly_labelled_reported_in_tick_report ==
  OneLabelled(Inherit(2))
    \o <<kernel_count(2), kernel(1, [class |-> {None}]),
         Returns(tick(50, 1, 3, Inherit(2)), [newly_labelled |-> {0}]),
         Returns(tick(50, 1, 4, Inherit(2)), [newly_labelled |-> {1}]),
         kernel(1, [class |-> {1}])>>

unlabelled_kernel_does_not_inherit_before_threshold ==
  OneLabelled(Inherit(5)) \o Ticks(50, 1, 3, 6, Inherit(5)) \o <<kernel(1, [class |-> {None}])>>

unlabelled_kernel_inherits_class_after_threshold_coactivations ==
  OneLabelled(Inherit(3)) \o <<kernel(1, [class |-> {None}])>>
    \o Ticks(50, 1, 3, 5, Inherit(3)) \o <<kernel(1, [class |-> {1}])>>

coactivation_counts_cleared_after_inheritance ==
  OneLabelled(Inherit(2)) \o Ticks(50, 1, 3, 4, Inherit(2)) \o <<count_keys({{}})>>

coactivation_counts_reindexed_after_compact ==
  LET cfg == AlwaysGrow(Inherit(10))
  IN  <<tick(0, None, 1, cfg), tick(100000, 1, 2, cfg), tick(200000, 2, 3, cfg),
        mark_extinct(2), insert_count(0, 1, 5), compact({1}), count_keys({{<<0, 1>>}})>>

GraphTests ==
  <<kernel_graph_starts_empty, kernel_graph_tick_grows_on_novel_input,
    kernel_graph_tick_no_growth_on_known_input,
    kernel_graph_tick_does_not_strengthen_cross_class_pairs,
    kernel_graph_tick_strengthens_same_class_pairs,
    kernel_graph_propagation_attenuates_by_gamma,
    tick_propagation_accumulates_from_multiple_sources,
    kernel_graph_tick_suppresses_growth_via_propagation,
    kernel_graph_propagate_binary_matches_tick_semantics,
    kernel_graph_propagate_soft_returns_graded_spread,
    prop_scratch_does_not_leak_between_ticks, prop_scratch_grows_with_kernels,
    propagate_returns_empty_when_no_kernel_meets_theta_k,
    propagate_soft_returns_empty_when_no_scores_positive,
    kernel_graph_tick_skip_decay_preserves_edge_weight,
    kernel_graph_tick_updates_last_activated,
    kernel_graph_tick_last_activated_advances_with_tick,
    kernel_marked_extinct_after_p1_inactivity, kernel_not_extinct_before_p1,
    newly_born_kernel_not_immediately_extinct,
    tick_at_current_tick_zero_new_kernel_survives, kernel_graph_compact_integrates_all,
    empty_graph_tick_then_compact_no_panic, compact_when_no_kernels_extinct_returns_zero,
    compact_with_map_returns_correct_map, stm_eviction_sequence_up_to_capacity_plus_one,
    kernel_graph_msgpack_roundtrip, post_serde_roundtrip_tick_works,
    tick_with_none_class_creates_unlabelled_kernel,
    tick_with_some_class_creates_labelled_kernel,
    unlabelled_kernel_does_not_participate_in_strengthening,
    labelled_kernel_class_unchanged_by_coactivation,
    newly_labelled_reported_in_tick_report,
    unlabelled_kernel_does_not_inherit_before_threshold,
    unlabelled_kernel_inherits_class_after_threshold_coactivations,
    coactivation_counts_cleared_after_inheritance,
    coactivation_counts_reindexed_after_compact>>
-----------------------------------------------------------------------------
(***************************************************************************)
(* query.rs.  Weights are in tenths, so that a weight times gamma is in    *)
(* hundredths, as the activation it is added to.                           *)
(***************************************************************************)
Labelled(x, c) == push(x, 1000, c)

predict_returns_none_on_empty_store == <<predict(1000, Cfg, None)>>

best_match_returns_none_on_empty_store == <<best_match(1000, Cfg, {None})>>

predict_returns_class_of_nearest_kernel == <<Labelled(1000, 7), predict(1000, Cfg, 7)>>

predict_prefers_higher_activation_kernel ==
  <<Labelled(0, 1), Labelled(1000, 2), predict(900, Cfg, 2)>>

best_match_score_is_direct_plus_propagated ==
  <<Labelled(0, 1), Labelled(5000, 2), best_match(0, Cfg, {<<0, 100>>}),
    set_edge(0, 1, 10), best_match(0, Cfg, {<<0, 100>>}),
    new, Labelled(0, 1), Labelled(0, 2), set_edge(0, 1, 10),
    best_match(0, Cfg, {<<1, 100 + 9 * 10>>})>>

predict_uses_propagated_activation ==
  <<Labelled(0, 0), Labelled(5000, 1), Labelled(10000, 2), predict(1000, Cfg, 0),
    set_edge(0, 1, 10), predict(1000, Cfg, 1)>>

predict_unlabelled_kernel_returns_none == <<Labelled(0, None), predict(0, Cfg, None)>>

best_match_all_extinct_returns_some ==
  <<Labelled(0, 0), Labelled(1000, 1), mark_extinct(0), mark_extinct(1),
    best_match(0, Cfg, {<<1, 0>>})>>

\* The test calls its kernel 1 extinct, and does not mark it so.
extinct_kernel_wins_via_propagation ==
  <<Labelled(0, 0), Labelled(100000, 1), set_edge(0, 1, 50),
    best_match(0, [Cfg EXCEPT !.gamma = 10], {<<1, 500>>})>>

QueryTests ==
  <<predict_returns_none_on_empty_store, best_match_returns_none_on_empty_store,
    predict_returns_class_of_nearest_kernel, predict_prefers_higher_activation_kernel,
    best_match_score_is_direct_plus_propagated, predict_uses_propagated_activation,
    predict_unlabelled_kernel_returns_none, best_match_all_extinct_returns_some,
    extinct_kernel_wins_via_propagation>>

(***************************************************************************)
(* growth.rs.                                                              *)
(***************************************************************************)
max_activation_empty_kernels_returns_zero == <<max_activation(1000, {0})>>

max_activation_at_centroid_returns_one == <<Labelled(1000, 0), max_activation(1000, {100})>>

max_activation_returns_highest_across_kernels ==
  <<Labelled(0, 0), Labelled(5000, 0), max_activation(5000, {100})>>

growth_direct_blocked_when_kernel_explains_input ==
  <<Labelled(1000, 0), should_grow_direct(1000, FALSE)>>

growth_direct_fires_when_no_kernel_explains_input ==
  <<Labelled(100000, 0), should_grow_direct(0, TRUE)>>

growth_fires_on_empty_kernels == <<should_grow_direct(1000, TRUE)>>

grow_adds_kernel_with_correct_fields ==
  <<Labelled(1000, 3), kernel_count(1),
    kernel(0, [centroid |-> {At(1000)}, class |-> {3}, excitation |-> {0}])>>

grow_with_none_class_creates_unlabelled_kernel ==
  <<Labelled(1000, None), kernel(0, [class |-> {None}])>>

extinct_kernel_score_is_zero ==
  <<Labelled(0, 0), mark_extinct(0), compute_scores(0, {<<0>>})>>

extinct_kernel_does_not_suppress_growth ==
  <<Labelled(0, 0), mark_extinct(0), should_grow_direct(0, TRUE)>>

growth_sets_sigma_to_sigma_0 == <<push(0, 2500, 0), kernel(0, [centroid |-> {<<0, 2500>>}])>>

max_activation_all_extinct_returns_zero ==
  <<Labelled(0, 0), Labelled(1000, 0), mark_extinct(0), mark_extinct(1),
    max_activation(0, {0})>>

should_grow_direct_with_mixed_extinct_alive ==
  <<Labelled(0, 0), Labelled(100000, 0), mark_extinct(0), should_grow_direct(0, TRUE)>>

compute_scores_returns_vec_of_store_len ==
  <<Labelled(0, 0), Labelled(1000, 0), Labelled(2000, 0),
    compute_scores(0, [1 .. 3 -> 0 .. 100])>>

GrowthTests ==
  <<max_activation_empty_kernels_returns_zero, max_activation_at_centroid_returns_one,
    max_activation_returns_highest_across_kernels,
    growth_direct_blocked_when_kernel_explains_input,
    growth_direct_fires_when_no_kernel_explains_input, growth_fires_on_empty_kernels,
    grow_adds_kernel_with_correct_fields, grow_with_none_class_creates_unlabelled_kernel,
    extinct_kernel_score_is_zero, extinct_kernel_does_not_suppress_growth,
    growth_sets_sigma_to_sigma_0, max_activation_all_extinct_returns_zero,
    should_grow_direct_with_mixed_extinct_alive, compute_scores_returns_vec_of_store_len>>

(***************************************************************************)
(* store.rs.  The test of a class set out of bounds, a panic, is left out. *)
(***************************************************************************)
Three == <<Labelled(1000, 0), Labelled(2000, 0), Labelled(3000, 0)>>

default_store_push_and_len ==
  <<kernel_count(0), push(1000, 500, 1), kernel_count(1), push(3000, 1000, 0),
    kernel_count(2)>>

default_store_centroid_roundtrip ==
  <<push(1000, 500, 7),
    kernel(0, [centroid |-> {<<1000, 500>>}, class |-> {7}, excitation |-> {0}]),
    incr_excitation(0), kernel(0, [excitation |-> {1}])>>

default_push_none_class_creates_unlabelled ==
  <<Labelled(1000, None), kernel(0, [class |-> {None}])>>

default_class_opt_returns_none_for_unlabelled ==
  <<Labelled(1000, None), kernel(0, [class |-> {None}])>>

default_set_class_assigns_label ==
  <<Labelled(1000, None), set_class(0, 5), kernel(0, [class |-> {5}])>>

default_set_class_noop_if_already_labelled ==
  <<Labelled(1000, 3), set_class(0, 7), kernel(0, [class |-> {3}])>>

default_store_min_excitation_idx ==
  <<min_excitation_idx(None)>> \o Three
    \o <<incr_excitation(0), incr_excitation(0), incr_excitation(1), min_excitation_idx(2)>>

touch_records_tick == <<Labelled(0, 0), touch_kernel(0, 42), kernel(0, [last |-> {42}])>>

last_activated_zero_on_new_kernel == <<Labelled(0, 0), kernel(0, [last |-> {0}])>>

touch_updates_on_repeated_activation ==
  <<Labelled(0, 0), touch_kernel(0, 10), touch_kernel(0, 20), kernel(0, [last |-> {20}])>>

default_store_msgpack_roundtrip ==
  <<push(1000, 500, 7), push(4000, 1000, 3), incr_excitation(0), touch_kernel(0, 42),
    save_load, kernel_count(2),
    kernel(0, [centroid |-> {<<1000, 500>>}, class |-> {7}, excitation |-> {1}, last |-> {42}]),
    kernel(1, [centroid |-> {At(4000)}, last |-> {0}])>>

default_is_extinct_false_on_new_kernel == <<Labelled(1000, 0), is_extinct(0, FALSE)>>

default_kernel_marked_extinct_after_mark_extinct ==
  <<Labelled(1000, 0), mark_extinct(0), is_extinct(0, TRUE)>>

default_compact_extinct_reduces_len == Three \o <<mark_extinct(1), compact({1}), kernel_count(2)>>

default_compact_extinct_returns_correct_mapping ==
  Three \o <<mark_extinct(1), compact_with_map({<<0, None, 1>>})>>

compact_extinct_on_empty_no_panic == <<compact_with_map({<<>>})>>

compact_extinct_no_extinct_is_identity ==
  <<push(1000, 500, 1), push(2000, 1000, 2), incr_excitation(0), touch_kernel(0, 42),
    compact_with_map({<<0, 1>>}), kernel_count(2),
    kernel(0, [centroid |-> {<<1000, 500>>}, excitation |-> {1}, last |-> {42}])>>

compact_extinct_preserves_fields_for_survivors ==
  <<push(1000, 500, 1), push(2000, 1000, 2), push(3000, 2000, 3),
    incr_excitation(2), incr_excitation(2), touch_kernel(2, 99), mark_extinct(1), compact({1}),
    kernel(1, [centroid |-> {<<3000, 2000>>}, class |-> {3}, excitation |-> {2}, last |-> {99}])>>

is_extinct_oob_returns_false == <<is_extinct(0, FALSE), is_extinct(999, FALSE)>>

min_excitation_idx_skips_extinct_kernel ==
  <<Labelled(1000, 0), Labelled(2000, 0), incr_excitation(1), mark_extinct(0),
    min_excitation_idx(1)>>

min_excitation_idx_all_extinct_returns_none ==
  <<Labelled(1000, 0), Labelled(2000, 0), mark_extinct(0), mark_extinct(1),
    min_excitation_idx(None)>>

min_excitation_idx_live_kernel_with_higher_excitation_returned ==
  Three \o <<incr_excitation(1), incr_excitation(2), incr_excitation(2), mark_extinct(0),
             min_excitation_idx(1)>>

StoreTests ==
  <<default_store_push_and_len, default_store_centroid_roundtrip,
    default_push_none_class_creates_unlabelled,
    default_class_opt_returns_none_for_unlabelled, default_set_class_assigns_label,
    default_set_class_noop_if_already_labelled, default_store_min_excitation_idx,
    touch_records_tick, last_activated_zero_on_new_kernel,
    touch_updates_on_repeated_activation, default_store_msgpack_roundtrip,
    default_is_extinct_false_on_new_kernel,
    default_kernel_marked_extinct_after_mark_extinct, default_compact_extinct_reduces_len,
    default_compact_extinct_returns_correct_mapping, compact_extinct_on_empty_no_panic,
    compact_extinct_no_extinct_is_identity, compact_extinct_preserves_fields_for_survivors,
    is_extinct_oob_returns_false, min_excitation_idx_skips_extinct_kernel,
    min_excitation_idx_all_extinct_returns_none,
    min_excitation_idx_live_kernel_with_higher_excitation_returned>>

(***************************************************************************)
(* stm.rs, without the tests of blend_output.  A map is given by the old   *)
(* indices it keeps, in order.                                             *)
(***************************************************************************)
\* n kernels, the excitation of each its index.
make_store(n) == [call |-> "make_store", size |-> n, cfg |-> Cfg]

\* The indices the memory may hold, in any order.
Holding(S) == {<<i, j>> : i \in S, j \in S} \ {<<i, i>> : i \in S}

stm_starts_empty == <<indices({<<>>}), is_full(4, FALSE)>>

stm_update_adds_kernel_index == <<make_store(5), update(2, 4), indices([1 .. 1 -> 0 .. 4])>>

stm_evicts_lowest_excitation_when_full ==
  <<make_store(10), update(5, 3), update(6, 3), update(7, 3), is_full(3, TRUE), update(9, 3),
    indices({s \in [1 .. 3 -> 5 .. 9] :
               /\ \A p \in 1 .. 3 : s[p] # 5
               /\ \E p \in 1 .. 3 : s[p] = 9})>>

stm_reindex_drops_extinct_slots ==
  <<make_store(5), update(0, 4), update(1, 4), update(2, 4), reindex_stm(<<0, 2, 3, 4>>),
    indices(Holding({0, 1}))>>

stm_reindex_remaps_survivors ==
  <<make_store(5), update(0, 4), update(2, 4), reindex_stm(<<0, 2, 3, 4>>),
    indices(Holding({0, 1}))>>

stm_capacity_unchanged_after_reindex ==
  <<make_store(5), update(0, 4), update(1, 4), update(2, 4), reindex_stm(<<0, 2, 3>>),
    is_full(4, FALSE), update(0, 4), update(1, 4), indices([1 .. 4 -> 0 .. 4])>>

capacity_one_second_insert_evicts_first ==
  <<make_store(5), update(3, 1), update(4, 1), indices({<<4>>})>>

tie_break_evicts_fifo ==
  Three \o <<update(0, 2), update(1, 2), update(2, 2), indices(Holding({1, 2}))>>

reindex_empty_no_panic == <<reindex_stm(<<0, 2>>), indices({<<>>})>>

reindex_with_index_beyond_map_length ==
  <<make_store(10), update(5, 4), update(8, 4), reindex_stm(<<0, 1, 2>>), indices({<<>>})>>

StmTests ==
  <<stm_starts_empty, stm_update_adds_kernel_index, stm_evicts_lowest_excitation_when_full,
    stm_reindex_drops_extinct_slots, stm_reindex_remaps_survivors,
    stm_capacity_unchanged_after_reindex, capacity_one_second_insert_evicts_first,
    tie_break_evicts_fifo, reindex_empty_no_panic, reindex_with_index_beyond_map_length>>
=============================================================================
