----------------------------- MODULE LinkTests ------------------------------
(***************************************************************************)
(* The unit tests of the link layer (sokm/src/ops.rs, store.rs, sparse.rs) *)
(* as scripts: the calls a test makes, and the values it asserts.  A       *)
(* definition is named after its test.  RecordedTests plays them.          *)
(*                                                                         *)
(* Weights are in millionths and scores in hundredths, so that delta, a    *)
(* gain per product of two scores, is in hundredths, too; keep, the factor *)
(* exp(-xi), is in ten-thousandths and gamma in tenths.                    *)
(***************************************************************************)
EXTENDS Integers, Sequences, TLC

One == 1000000
Positive == 1 .. 10 * One

\* A fraction of w: f ten-thousandths, rounded down.
Times(w, f) == (w \div 10000) * f + ((w % 10000) * f) \div 10000

Default ==
  [keep |-> 9900, delta |-> 5, w_init |-> 100000, w_max |-> One,
   min_weight |-> 1000, gamma |-> 9, p1 |-> 100]

(***************************************************************************)
(* The calls.  A read carries the set of the answers its test accepts; any *)
(* other call that a test checks the result of is given one by Returns.    *)
(***************************************************************************)
new(n) == [call |-> "new", size |-> n, cfg |-> Default]
from_triplets(n, ts) == [call |-> "from_triplets", size |-> n, triplets |-> ts, cfg |-> Default]
set_weight(a, b, w) == [call |-> "set_weight", of |-> <<a, b>>, w |-> w, cfg |-> Default]
scale_all(keep) == [call |-> "scale_all", cfg |-> [Default EXCEPT !.keep = keep]]
apply_increments(a, b, w) ==
  [call |-> "apply_increments", of |-> <<a, b>>, w |-> w, cfg |-> Default]
prune_below(w) == [call |-> "prune_below", cfg |-> [Default EXCEPT !.min_weight = w]]
prune_inactive(t, p1) ==
  [call |-> "prune_inactive", t |-> t, cfg |-> [Default EXCEPT !.p1 = p1]]
touch(a, b, t) == [call |-> "touch", of |-> <<a, b>>, t |-> t, cfg |-> Default]
reindex(map) == [call |-> "reindex", map |-> map, cfg |-> Default]
compact == [call |-> "compact", cfg |-> Default]
grow(n) == [call |-> "grow", size |-> n, cfg |-> Default]

decay(cfg) == [call |-> "decay", cfg |-> cfg]
strengthen(act, t, cfg) == [call |-> "strengthen", act |-> act, t |-> t, cfg |-> cfg]
prune(t, cfg) == [call |-> "prune", t |-> t, cfg |-> cfg]
tick(act, t, cfg, mode) ==
  [call |-> "link_tick", act |-> act, t |-> t, mode |-> mode, cfg |-> cfg]
propagate(fired, cfg, S) ==
  [call |-> "propagate", fired |-> fired, cfg |-> cfg, in |-> S]
propagate_soft(act, cfg, S) ==
  [call |-> "propagate_soft", act |-> act, cfg |-> cfg, in |-> S]

get_weight(a, b, S) == [call |-> "get_weight", of |-> <<a, b>>, cfg |-> Default, in |-> S]
last_active(a, b, S) == [call |-> "last_active", of |-> <<a, b>>, cfg |-> Default, in |-> S]
edge_count(S) == [call |-> "edge_count", cfg |-> Default, in |-> S]
neighbors(n, S) == [call |-> "neighbors", node |-> n, cfg |-> Default, in |-> S]
num_nodes(S) == [call |-> "num_nodes", cfg |-> Default, in |-> S]

Returns(call, S) == call @@ [in |-> S]

Full(nodes) == [n \in nodes |-> 100]
Nothing == [n \in {} |-> 0]

-----------------------------------------------------------------------------
(***************************************************************************)
(* ops.rs: decay and strengthen.                                           *)
(***************************************************************************)
decay_follows_eq_4_1 ==
  <<set_weight(0, 1, One), decay(Default), get_weight(0, 1, {990000})>>

decay_is_not_linear_subtraction ==
  <<set_weight(0, 1, One), decay([Default EXCEPT !.keep = 6065]), get_weight(0, 1, {606500})>>

decay_two_successive_calls_compound ==
  <<set_weight(0, 1, One), decay(Default), decay(Default),
    get_weight(0, 1, {Times(Times(One, 9900), 9900)})>>

decay_empty_store_no_panic == <<Returns(decay(Default), {0})>>

strengthen_initialises_new_link_at_w_init ==
  <<strengthen(Full({0, 1}), 1, Default), get_weight(0, 1, {Default.w_init})>>

strengthen_clamps_at_w_max ==
  <<set_weight(0, 1, 990000),
    strengthen(Full({0, 1}), 1, [Default EXCEPT !.delta = 50, !.w_max = One]),
    get_weight(0, 1, {One})>>

strengthen_weighted_product_scales_with_scores ==
  <<set_weight(0, 1, 100000),
    strengthen(0 :> 50 @@ 1 :> 80, 1, [Default EXCEPT !.delta = 10, !.w_max = 10 * One]),
    get_weight(0, 1, {140000})>>

strengthen_updates_last_active_tick ==
  <<strengthen(Full({0, 1}), 42, Default), last_active(0, 1, {42})>>

strengthen_single_node_no_pairs ==
  <<Returns(strengthen(Full({0}), 1, Default), {0}), edge_count({0})>>

strengthen_score_zero_edge_unchanged ==
  <<set_weight(0, 1, 500000), strengthen(0 :> 0 @@ 1 :> 100, 1, Default),
    get_weight(0, 1, {500000})>>

strengthen_n4_creates_6_pairs ==
  <<Returns(strengthen(Full(0 .. 3), 1, Default), {6}), edge_count({6})>>

(***************************************************************************)
(* ops.rs: prune.                                                          *)
(***************************************************************************)
prune_removes_below_weight_threshold ==
  <<set_weight(0, 1, 500000), set_weight(0, 2, 500),
    Returns(prune(1, Default), {1}), edge_count({1})>>

prune_removes_inactive_edges_after_p1_ticks ==
  <<set_weight(0, 1, 500000), set_weight(0, 2, 500000), touch(0, 1, 150),
    Returns(prune(200, Default), {1}),
    get_weight(0, 1, Positive), get_weight(0, 2, {0})>>

prune_keeps_active_edge_above_p1 ==
  <<set_weight(0, 1, 500000), touch(0, 1, 150),
    Returns(prune(200, Default), {0}), get_weight(0, 1, Positive)>>

prune_exact_min_weight_boundary_not_pruned ==
  <<set_weight(0, 1, 1000), touch(0, 1, 1),
    Returns(prune(1, Default), {0}), get_weight(0, 1, Positive)>>

prune_exact_p1_boundary_not_pruned ==
  <<set_weight(0, 1, 500000), touch(0, 1, 100),
    Returns(prune(200, Default), {0}), get_weight(0, 1, Positive)>>

prune_both_conditions_simultaneously ==
  <<set_weight(0, 1, 500), Returns(prune(100, [Default EXCEPT !.p1 = 10]), Positive),
    edge_count({0})>>

prune_empty_store_no_panic == <<Returns(prune(100, Default), {0})>>

(***************************************************************************)
(* ops.rs: propagate and propagate_soft.  What a node receives is in units *)
(* of gamma times a weight, and times a score when graded.                 *)
(***************************************************************************)
Gamma(tenths) == [Default EXCEPT !.gamma = tenths]

propagate_attenuates_by_gamma ==
  <<set_weight(0, 1, One), propagate({0}, Gamma(5), {1 :> 5 * One})>>

propagate_follows_edge_weights ==
  <<set_weight(0, 1, 400000), set_weight(0, 2, 800000),
    propagate({0}, Gamma(10), {1 :> 4 * One @@ 2 :> 8 * One})>>

propagate_binary_empty_fired_returns_empty ==
  <<set_weight(0, 1, One), propagate({}, Default, {Nothing})>>

propagate_binary_ignores_subthreshold_nodes ==
  <<set_weight(0, 1, One), propagate({}, Default, {Nothing})>>

propagate_two_fired_nodes_same_target_scores_sum ==
  <<set_weight(0, 2, 500000), set_weight(1, 2, 300000),
    propagate({0, 1}, Gamma(10), {2 :> 8 * One})>>

propagate_soft_attenuates_by_gamma_and_score ==
  <<set_weight(0, 1, One), propagate_soft(0 :> 50, Gamma(5), {1 :> 5 * 50 * One})>>

propagate_soft_empty_activated_returns_empty ==
  <<set_weight(0, 1, One), propagate_soft(Nothing, Default, {Nothing})>>

propagate_soft_partial_score_scales_spread ==
  <<set_weight(0, 1, One),
    propagate_soft(Full({0}), Gamma(10), {1 :> 1000 * One}),
    propagate_soft(0 :> 50, Gamma(10), {1 :> 500 * One})>>

propagate_binary_vs_soft_agree_at_full_activation ==
  <<set_weight(0, 1, 700000), propagate({0}, Gamma(8), {1 :> 8 * 700000}),
    propagate_soft(Full({0}), Gamma(8), {1 :> 8 * 700000 * 100})>>

propagate_soft_two_fired_nodes_same_target_scores_sum ==
  <<set_weight(0, 2, 500000), set_weight(1, 2, 300000),
    propagate_soft(Full({0, 1}), Gamma(10), {2 :> 800 * One})>>

(***************************************************************************)
(* ops.rs: tick.  The expectations of a report are given by field.         *)
(***************************************************************************)
tick_order_is_decay_strengthen_prune ==
  <<set_weight(0, 1, 500000),
    Returns(tick(Full({0, 1}), 1, Default, "Apply"), [edges_alive |-> {1}, strengthened |-> {1}]),
    get_weight(0, 1, Positive)>>

tick_report_counts_are_correct ==
  <<set_weight(0, 1, 500000), set_weight(2, 3, 500),
    Returns(tick(Full({0, 1}), 1, Default, "Apply"), [pruned |-> Positive])>>

tick_empty_activated_no_panic ==
  <<set_weight(0, 1, 500000),
    Returns(tick(Nothing, 1, Default, "Apply"), [strengthened |-> {0}]),
    get_weight(0, 1, 0 .. 499999)>>

tick_10_convergence_with_fixed_activations ==
  [t \in 1 .. 10 |-> tick(Full({0, 1}), t, Default, "Apply")]
    \o <<get_weight(0, 1, 1 .. Default.w_max)>>

tick_skip_decay_preserves_weights ==
  <<set_weight(0, 1, 500000), touch(0, 1, 1),
    Returns(tick(Nothing, 2, Default, "Skip"), [edges_alive |-> {1}]),
    get_weight(0, 1, {500000})>>

tick_no_skip_decay_applies_decay ==
  <<set_weight(0, 1, 500000), touch(0, 1, 1),
    tick(Nothing, 2, Default, "Apply"), get_weight(0, 1, {Times(500000, 9900)})>>

OpsTests ==
  <<decay_follows_eq_4_1, decay_is_not_linear_subtraction,
    decay_two_successive_calls_compound, decay_empty_store_no_panic,
    strengthen_initialises_new_link_at_w_init, strengthen_clamps_at_w_max,
    strengthen_weighted_product_scales_with_scores,
    strengthen_updates_last_active_tick, strengthen_single_node_no_pairs,
    strengthen_score_zero_edge_unchanged, strengthen_n4_creates_6_pairs,
    prune_removes_below_weight_threshold,
    prune_removes_inactive_edges_after_p1_ticks, prune_keeps_active_edge_above_p1,
    prune_exact_min_weight_boundary_not_pruned, prune_exact_p1_boundary_not_pruned,
    prune_both_conditions_simultaneously, prune_empty_store_no_panic,
    propagate_attenuates_by_gamma, propagate_follows_edge_weights,
    propagate_binary_empty_fired_returns_empty,
    propagate_binary_ignores_subthreshold_nodes,
    propagate_two_fired_nodes_same_target_scores_sum,
    propagate_soft_attenuates_by_gamma_and_score,
    propagate_soft_empty_activated_returns_empty,
    propagate_soft_partial_score_scales_spread,
    propagate_binary_vs_soft_agree_at_full_activation,
    propagate_soft_two_fired_nodes_same_target_scores_sum,
    tick_order_is_decay_strengthen_prune, tick_report_counts_are_correct,
    tick_empty_activated_no_panic, tick_10_convergence_with_fixed_activations,
    tick_skip_decay_preserves_weights, tick_no_skip_decay_applies_decay>>

-----------------------------------------------------------------------------
(***************************************************************************)
(* store.rs.  A reindex is given the map of the nodes that stay.           *)
(***************************************************************************)
hash_store_symmetric_get_set ==
  <<set_weight(3, 1, 500000), get_weight(1, 3, {500000}), get_weight(3, 1, {500000})>>

hash_store_edge_count ==
  <<edge_count({0}), set_weight(0, 1, 500000), set_weight(0, 2, 300000), edge_count({2})>>

hash_store_scale_all ==
  <<set_weight(0, 1, One), scale_all(5000), get_weight(0, 1, {500000})>>

hash_store_prune_below ==
  <<set_weight(0, 1, 500000), set_weight(0, 2, 1000),
    Returns(prune_below(10000), {1}), edge_count({1})>>

hash_store_neighbors ==
  <<set_weight(0, 1, 500000), set_weight(0, 2, 300000), neighbors(0, {{1, 2}})>>

hash_store_touch_and_last_active ==
  <<set_weight(0, 1, 500000), last_active(0, 1, {0}), touch(0, 1, 42),
    last_active(0, 1, {42}), last_active(1, 0, {42})>>

hash_store_prune_inactive ==
  <<set_weight(0, 1, 500000), set_weight(0, 2, 500000), touch(0, 1, 50),
    Returns(prune_inactive(20, 10), {1}),
    get_weight(0, 1, {500000}), get_weight(0, 2, {0})>>

hash_store_apply_increments ==
  <<set_weight(0, 1, 300000), apply_increments(0, 1, 200000), get_weight(0, 1, {500000})>>

hash_edge_store_reindex_drops_extinct_edges ==
  <<set_weight(0, 1, 500000), set_weight(1, 2, 300000),
    reindex(0 :> 0 @@ 2 :> 1), edge_count({0})>>

hash_edge_store_reindex_remaps_survivors ==
  <<set_weight(0, 2, 700000), reindex(0 :> 0 @@ 2 :> 1),
    edge_count({1}), get_weight(0, 1, {700000})>>

hash_edge_store_reindex_recanonicalize ==
  <<set_weight(3, 5, 900000),
    reindex(0 :> 0 @@ 1 :> 1 @@ 3 :> 2 @@ 4 :> 3 @@ 5 :> 4),
    get_weight(2, 4, {900000}), edge_count({1})>>

hash_store_self_loop ==
  <<set_weight(5, 5, 400000), get_weight(5, 5, {400000}), edge_count({1})>>

hash_store_negative_weight_removes_edge ==
  <<set_weight(0, 1, 500000), edge_count({1}), set_weight(0, 1, -100000),
    edge_count({0}), get_weight(0, 1, {0})>>

hash_store_scale_all_zero_preserves_edge_count ==
  <<set_weight(0, 1, 500000), set_weight(1, 2, 300000), scale_all(0), edge_count({2})>>

hash_store_prune_below_exact_boundary_not_pruned ==
  <<set_weight(0, 1, 10000), Returns(prune_below(10000), {0}), edge_count({1})>>

hash_store_apply_increments_nonexistent_inserts_from_zero ==
  <<edge_count({0}), apply_increments(0, 1, 700000),
    get_weight(0, 1, {700000}), edge_count({1})>>

hash_store_get_weight_nonexistent_returns_zero == <<get_weight(99, 100, {0})>>

HashTests ==
  <<hash_store_symmetric_get_set, hash_store_edge_count, hash_store_scale_all,
    hash_store_prune_below, hash_store_neighbors, hash_store_touch_and_last_active,
    hash_store_prune_inactive, hash_store_apply_increments,
    hash_edge_store_reindex_drops_extinct_edges,
    hash_edge_store_reindex_remaps_survivors, hash_edge_store_reindex_recanonicalize,
    hash_store_self_loop, hash_store_negative_weight_removes_edge,
    hash_store_scale_all_zero_preserves_edge_count,
    hash_store_prune_below_exact_boundary_not_pruned,
    hash_store_apply_increments_nonexistent_inserts_from_zero,
    hash_store_get_weight_nonexistent_returns_zero>>
-----------------------------------------------------------------------------
(***************************************************************************)
(* sparse.rs.  The two tests of an assertion that fails are left out.      *)
(***************************************************************************)
sparse_get_set_symmetric ==
  <<new(4), set_weight(0, 3, 700000), get_weight(0, 3, {700000}), get_weight(3, 0, {700000})>>

sparse_edge_count ==
  <<new(4), edge_count({0}), set_weight(0, 1, 500000), set_weight(1, 2, 300000),
    edge_count({2})>>

sparse_from_triplets_valid ==
  <<from_triplets(3, <<<<0, 1, 500000>>, <<1, 2, 300000>>>>),
    get_weight(0, 1, {500000}), get_weight(1, 2, {300000})>>

sparse_grow_returns_true_on_upsize == <<new(4), Returns(grow(8), {TRUE}), num_nodes({8})>>

sparse_grow_returns_false_on_downsize == <<new(4), Returns(grow(2), {FALSE}), num_nodes({4})>>

sparse_prune_below_threshold ==
  <<new(4), set_weight(0, 1, 500000), set_weight(0, 2, 500),
    Returns(prune_below(1000), {1}), edge_count({1})>>

sparse_prune_inactive ==
  <<new(4), set_weight(0, 1, 500000), set_weight(0, 2, 500000), touch(0, 1, 50),
    Returns(prune_inactive(20, 10), {1}),
    get_weight(0, 1, Positive), get_weight(0, 2, {0})>>

sparse_touch_records_tick ==
  <<new(4), set_weight(0, 1, 500000), last_active(0, 1, {0}), touch(0, 1, 77),
    last_active(0, 1, {77}), last_active(1, 0, {77})>>

sparse_autocompact_triggers_at_25pct_dead ==
  <<new(20)>> \o [i \in 1 .. 10 |-> set_weight(i - 1, i + 9, 500000)]
    \o <<compact, edge_count({10}),
         set_weight(0, 10, 0), set_weight(1, 11, 0), set_weight(2, 12, 0), edge_count({7})>>

set_weight_then_compact_valid ==
  <<new(3), set_weight(0, 1, 500000), set_weight(1, 2, 800000)>>
    \o [i \in 1 .. 100 |-> set_weight(0, 2, 300000)]

sparse_neighbors_both_directions ==
  <<new(4), set_weight(0, 1, 500000), set_weight(0, 2, 300000),
    neighbors(0, {{1, 2}}), neighbors(1, {{0}})>>

neighbors_col_side_correct_after_multiple_compacts ==
  <<new(100)>> \o [i \in 1 .. 10 |-> set_weight(i - 1, 50, 500000 + (i - 1) * 10000)]
    \o <<compact>> \o [i \in 1 .. 10 |-> set_weight(i + 9, 50, 300000)]
    \o <<compact, neighbors(50, {0 .. 19}),
         get_weight(50, 0, {500000}), get_weight(50, 10, {300000})>>

sparse_edge_store_reindex_drops_extinct_edges ==
  <<new(4), set_weight(0, 1, 500000), set_weight(1, 2, 300000), compact,
    reindex(0 :> 0 @@ 2 :> 1 @@ 3 :> 2), edge_count({0})>>

sparse_edge_store_reindex_remaps_survivors ==
  <<new(4), set_weight(0, 2, 700000), compact, reindex(0 :> 0 @@ 2 :> 1 @@ 3 :> 2),
    edge_count({1}), get_weight(0, 1, {700000}), num_nodes({3})>>

neighbors_excludes_dead_col_side_edges ==
  <<new(10), set_weight(0, 5, 500000), set_weight(1, 5, 500000), compact,
    set_weight(0, 5, 0), neighbors(5, {{1}})>>

sparse_get_weight_pending_edge ==
  <<new(4), set_weight(0, 1, 500000), get_weight(0, 1, {500000})>>

sparse_apply_increments_csr_path ==
  <<new(4), set_weight(0, 1, 500000), compact, apply_increments(0, 1, 200000),
    get_weight(0, 1, {700000})>>

sparse_apply_increments_pending_path ==
  <<new(4), apply_increments(0, 1, 300000), get_weight(0, 1, {300000})>>

sparse_scale_all_applies_to_csr_and_pending ==
  <<new(10), set_weight(0, 1, One), compact, set_weight(4, 5, One), scale_all(5000),
    get_weight(0, 1, {500000}), get_weight(4, 5, {500000})>>

sparse_set_weight_twice_csr_path ==
  <<new(4), set_weight(0, 1, 500000), compact,
    set_weight(0, 1, 800000), get_weight(0, 1, {800000}),
    set_weight(0, 1, 200000), get_weight(0, 1, {200000})>>

FourEdges ==
  <<set_weight(0, 1, 500000), set_weight(2, 3, 500000), set_weight(4, 5, 500000),
    set_weight(6, 7, 500000), compact>>

sparse_set_weight_twice_pending_path ==
  <<new(10)>> \o FourEdges
    \o <<set_weight(8, 9, 300000), set_weight(8, 9, 700000), get_weight(8, 9, {700000})>>

sparse_from_triplets_duplicate_pair ==
  <<from_triplets(3, <<<<0, 1, 300000>>, <<0, 1, 400000>>>>), get_weight(0, 1, {700000})>>

sparse_prune_inactive_pending_only_edges ==
  <<new(10)>> \o FourEdges
    \o <<set_weight(8, 9, 500000), Returns(prune_inactive(100, 10), Positive),
         get_weight(8, 9, {0})>>

sparse_neighbors_includes_pending ==
  <<new(10), set_weight(0, 1, 500000), compact, set_weight(0, 9, 300000),
    neighbors(0, {{1, 9}})>>

sparse_grow_then_set_weight_new_index ==
  <<new(4), set_weight(0, 1, 500000), grow(8), set_weight(4, 7, 900000),
    get_weight(4, 7, {900000})>>

\* The test also asserts that one edge is pending, which is so only as long
\* as nobody compacts.
get_weight_csr_and_pending_are_disjoint_per_key ==
  <<new(4), set_weight(0, 1, 500000), compact,
    apply_increments(2, 3, 300000), apply_increments(0, 1, 100000),
    get_weight(0, 1, {600000}), get_weight(2, 3, {300000})>>

sparse_grow_same_size_is_noop == <<new(4), Returns(grow(4), {FALSE}), num_nodes({4})>>

sparse_reindex_empty_no_panic ==
  <<new(4), reindex([i \in 0 .. 3 |-> i]), edge_count({0})>>

sparse_reindex_preserves_tick_timestamps ==
  <<new(4), set_weight(0, 1, 500000), touch(0, 1, 42), compact,
    reindex([i \in 0 .. 3 |-> i]), last_active(0, 1, {42})>>

sparse_edge_count_after_scale_all_zero ==
  <<new(4), set_weight(0, 1, 500000), set_weight(1, 2, 300000), compact,
    scale_all(0), edge_count({0})>>

SparseTests ==
  <<sparse_get_set_symmetric, sparse_edge_count, sparse_from_triplets_valid,
    sparse_grow_returns_true_on_upsize, sparse_grow_returns_false_on_downsize,
    sparse_prune_below_threshold, sparse_prune_inactive, sparse_touch_records_tick,
    sparse_autocompact_triggers_at_25pct_dead, set_weight_then_compact_valid,
    sparse_neighbors_both_directions,
    neighbors_col_side_correct_after_multiple_compacts,
    sparse_edge_store_reindex_drops_extinct_edges,
    sparse_edge_store_reindex_remaps_survivors, neighbors_excludes_dead_col_side_edges,
    sparse_get_weight_pending_edge, sparse_apply_increments_csr_path,
    sparse_apply_increments_pending_path, sparse_scale_all_applies_to_csr_and_pending,
    sparse_set_weight_twice_csr_path, sparse_set_weight_twice_pending_path,
    sparse_from_triplets_duplicate_pair, sparse_prune_inactive_pending_only_edges,
    sparse_neighbors_includes_pending, sparse_grow_then_set_weight_new_index,
    get_weight_csr_and_pending_are_disjoint_per_key, sparse_grow_same_size_is_noop,
    sparse_reindex_empty_no_panic, sparse_reindex_preserves_tick_timestamps,
    sparse_edge_count_after_scale_all_zero>>
-----------------------------------------------------------------------------
(***************************************************************************)
(* sokm/tests/integration.rs.  Left out is the comparison of the two       *)
(* stores, which is what StoreParity is about.                             *)
(***************************************************************************)
full_learn_cycle_strengthen_then_propagate ==
  LET cfg == [Default EXCEPT !.gamma = 10]
      stronger == Default.w_init + 1 .. One
  IN  [t \in 1 .. 5 |-> strengthen(Full(0 .. 2), t, cfg)]
        \o <<edge_count({3}), get_weight(0, 1, stronger), get_weight(0, 2, stronger),
             get_weight(1, 2, stronger), propagate({0}, cfg, [{1, 2} -> 1 .. 10 * One])>>

\* The loop ends when no edge is left: 20 rounds are more than it takes.
prune_convergence_decay_only_until_empty ==
  LET cfg == [Default EXCEPT !.keep = 6065, !.p1 = 1000]
      round(n) == IF n % 2 = 1 THEN decay(cfg) ELSE prune(n \div 2 - 1, cfg)
  IN  <<set_weight(0, 1, One), set_weight(1, 2, 500000), set_weight(2, 3, 800000)>>
        \o [n \in 1 .. 40 |-> round(n)] \o <<edge_count({0})>>

IntegrationTests ==
  <<full_learn_cycle_strengthen_then_propagate, prune_convergence_decay_only_until_empty>>
=============================================================================
