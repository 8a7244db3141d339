----------------------------- MODULE CrossTests -----------------------------
(***************************************************************************)
(* The unit tests of the cross edges (sokm-multimodal/src/cross.rs) as     *)
(* scripts, in the manner and the units of LinkTests; delta is in          *)
(* millionths.  Left out are the tests of CrossSokmConfig::validate.       *)
(***************************************************************************)
EXTENDS Integers, Sequences, TLC

CONSTANT None

L == INSTANCE LinkTests

One == L!One
Positive == L!Positive
Nothing == L!Nothing
Full(nodes) == L!Full(nodes)
Returns(call, S) == L!Returns(call, S)

\* p1 is u64::MAX: no test has a clock that gets there.
Default ==
  [keep |-> 9900, delta |-> 50000, w_init |-> 100000, w_max |-> One, min_weight |-> 1000,
   gamma |-> 9, p1 |-> 1000000, require_class_match |-> TRUE]

(***************************************************************************)
(* The calls.  The pairs to strengthen are a set.  A map is given by the   *)
(* old positions it keeps.                                                 *)
(***************************************************************************)
set(i, j, w) == [call |-> "set", of |-> <<i, j>>, w |-> w, cfg |-> Default]
touch(i, j, t) == [call |-> "touch", of |-> <<i, j>>, t |-> t, cfg |-> Default]
apply_increments(K, delta) ==
  [call |-> "apply_increments", pairs |-> K, cfg |-> [Default EXCEPT !.delta = delta]]
strengthen(K, delta, t) ==
  [call |-> "strengthen", pairs |-> K, t |-> t, cfg |-> [Default EXCEPT !.delta = delta]]
scale_all(keep) == [call |-> "scale_all", cfg |-> [Default EXCEPT !.keep = keep]]
prune_below(w) == [call |-> "prune_below", cfg |-> [Default EXCEPT !.min_weight = w]]
prune_inactive(t, p1) ==
  [call |-> "prune_inactive", t |-> t, cfg |-> [Default EXCEPT !.p1 = p1]]
reindex(kept1, kept2) ==
  [call |-> "reindex", kept1 |-> kept1, kept2 |-> kept2, cfg |-> Default]

get(i, j, S) == [call |-> "get", of |-> <<i, j>>, cfg |-> Default, in |-> S]
last_active(i, j, S) == [call |-> "last_active", of |-> <<i, j>>, cfg |-> Default, in |-> S]
edge_count(n) == [call |-> "edge_count", cfg |-> Default, in |-> {n}]
sources(j, S) == [call |-> "sources", node |-> j, cfg |-> Default, in |-> {S}]

Gamma1 == [Default EXCEPT !.gamma = 10]
cross_propagate_soft(scores, S) ==
  [call |-> "cross_propagate_soft", scores |-> scores, cfg |-> Gamma1, in |-> S]
cross_propagate_soft_reverse(scores, S) ==
  [call |-> "cross_propagate_soft_reverse", scores |-> scores, cfg |-> Gamma1, in |-> S]

\* class1 and class2 map the activated kernels of each side to their labels.
cross_strengthen_deltas(class1, class2, match, n) ==
  [call |-> "cross_strengthen_deltas", class1 |-> class1, class2 |-> class2,
   cfg |-> [Default EXCEPT !.require_class_match = match], in |-> {n}]

\* What node n receives: gamma in tenths, a weight, a score in hundredths.
Received(n, w) == [{n} -> {10 * w * 100}]

-----------------------------------------------------------------------------
set_zero_removes_edge ==
  <<set(0, 1, One), touch(0, 1, 5), set(0, 1, 0), edge_count(0), last_active(0, 1, {0})>>

set_negative_removes_edge == <<set(0, 1, One), set(0, 1, 0), edge_count(0)>>

set_nonexistent_zero_noop == <<set(5, 5, 0), edge_count(0)>>

apply_increments_existing_edge_increments ==
  <<set(0, 0, 500000), apply_increments({<<0, 0>>}, 100000), get(0, 0, {600000})>>

apply_increments_new_edge_at_w_init ==
  <<apply_increments({<<0, 0>>}, Default.delta), get(0, 0, {Default.w_init})>>

apply_increments_second_call_applies_delta ==
  <<apply_increments({<<0, 0>>}, Default.delta), get(0, 0, {Default.w_init}),
    apply_increments({<<0, 0>>}, Default.delta), get(0, 0, {150000})>>

apply_increments_clamps_to_w_max ==
  <<set(0, 0, 950000), apply_increments({<<0, 0>>}, 100000), get(0, 0, {Default.w_max})>>

scale_all_zero_preserves_edge_count ==
  <<set(0, 0, One), set(1, 0, 500000), scale_all(0), edge_count(2)>>

prune_below_exact_boundary_not_pruned ==
  <<set(0, 0, 500000), Returns(prune_below(500000), {0}), edge_count(1)>>

prune_inactive_max_p1_never_prunes ==
  <<set(0, 0, One), Returns(prune_inactive(1000, Default.p1), {0})>>

prune_inactive_untouched_edge_pruned ==
  <<set(0, 0, One), Returns(prune_inactive(10, 5), {1}), edge_count(0)>>

prune_inactive_boundary_not_pruned ==
  <<set(0, 0, One), touch(0, 0, 5), Returns(prune_inactive(10, 5), {0})>>

touch_without_prior_set_no_panic == <<touch(99, 99, 1), edge_count(0)>>

reindex_preserves_tick_values ==
  <<set(1, 1, 700000), touch(1, 1, 42), reindex(<<1>>, <<1>>), edge_count(1),
    get(0, 0, {700000}), last_active(0, 0, {42})>>

reindex_empty_maps_no_panic == <<reindex(<<>>, <<>>), edge_count(0)>>

reindex_both_modalities_compact ==
  <<set(0, 0, One), set(1, 1, 500000), reindex(<<1>>, <<1>>), edge_count(1),
    get(0, 0, {500000})>>

strengthen_sets_weight_and_tick ==
  <<strengthen({<<0, 1>>}, 100000, 5), get(0, 1, Positive), last_active(0, 1, {5})>>

strengthen_touch_tick_updated_on_second_call ==
  <<strengthen({<<0, 1>>}, 100000, 5), strengthen({<<0, 1>>}, 100000, 10),
    last_active(0, 1, {10})>>

strengthen_no_touch_for_empty_deltas == <<strengthen({}, 0, 99), edge_count(0)>>

cross_propagate_soft_empty_scores_empty_result == <<cross_propagate_soft(Nothing, {Nothing})>>

cross_propagate_soft_zero_score_entry ==
  <<set(0, 0, One), cross_propagate_soft([i \in {0} |-> 0], {Nothing} \cup [{0} -> {0}])>>

cross_propagate_soft_reverse_symmetry ==
  <<set(0, 1, 800000), cross_propagate_soft(Full({0}), Received(1, 800000)),
    cross_propagate_soft_reverse(Full({1}), Received(0, 800000))>>

cross_propagate_soft_reverse_empty_scores ==
  <<cross_propagate_soft_reverse(Nothing, {Nothing})>>

cross_strengthen_deltas_empty_modal1_fired ==
  <<cross_strengthen_deltas(Nothing, 0 :> 1, TRUE, 0)>>

cross_strengthen_deltas_empty_activations ==
  <<cross_strengthen_deltas(0 :> 1, Nothing, TRUE, 0)>>

cross_strengthen_deltas_no_class_match_allows_any ==
  <<cross_strengthen_deltas(0 :> 1, 0 :> 99, FALSE, 1)>>

cross_propagate_soft_transfers_activation ==
  <<set(0, 1, One), cross_propagate_soft(Full({0}), Received(1, One))>>

cross_propagate_soft_accumulates_from_multiple_sources ==
  <<set(0, 2, 500000), set(1, 2, 500000),
    cross_propagate_soft(Full({0, 1}), Received(2, One))>>

cross_propagate_soft_zero_without_edge == <<cross_propagate_soft(Full({0}), {Nothing})>>

cross_strengthen_deltas_fires_on_class_match ==
  <<cross_strengthen_deltas(0 :> 1, 0 :> 1, TRUE, 1)>>

cross_strengthen_deltas_blocked_on_class_mismatch ==
  <<cross_strengthen_deltas(0 :> 1, 0 :> 2, TRUE, 0)>>

cross_strengthen_deltas_blocked_on_unlabelled ==
  <<cross_strengthen_deltas(0 :> None, 0 :> 1, FALSE, 0)>>

cross_strengthen_deltas_fires_without_class_match_when_disabled ==
  <<cross_strengthen_deltas(0 :> 1, 0 :> 2, FALSE, 1),
    cross_strengthen_deltas(0 :> None, 0 :> 2, FALSE, 0)>>

cross_store_reindex_drops_extinct_edges ==
  <<set(0, 0, One), reindex(<<>>, <<0>>), edge_count(0)>>

cross_store_reindex_remaps_survivors ==
  <<set(1, 0, 500000), reindex(<<1>>, <<0>>), edge_count(1), get(0, 0, {500000})>>

reverse_index_consistent_after_prune ==
  <<set(0, 1, 500000), set(1, 1, 300000), prune_below(400000), sources(1, {0})>>

reverse_index_consistent_after_set_zero ==
  <<set(0, 1, 800000), set(0, 1, 0), sources(1, {})>>

reverse_index_consistent_after_reindex ==
  <<set(0, 0, One), set(1, 0, 500000), reindex(<<1>>, <<0>>), sources(0, {0})>>

Tests ==
  <<set_zero_removes_edge, set_negative_removes_edge, set_nonexistent_zero_noop,
    apply_increments_existing_edge_increments, apply_increments_new_edge_at_w_init,
    apply_increments_second_call_applies_delta, apply_increments_clamps_to_w_max,
    scale_all_zero_preserves_edge_count, prune_below_exact_boundary_not_pruned,
    prune_inactive_max_p1_never_prunes, prune_inactive_untouched_edge_pruned,
    prune_inactive_boundary_not_pruned, touch_without_prior_set_no_panic,
    reindex_preserves_tick_values, reindex_empty_maps_no_panic,
    reindex_both_modalities_compact, strengthen_sets_weight_and_tick,
    strengthen_touch_tick_updated_on_second_call, strengthen_no_touch_for_empty_deltas,
    cross_propagate_soft_empty_scores_empty_result, cross_propagate_soft_zero_score_entry,
    cross_propagate_soft_reverse_symmetry, cross_propagate_soft_reverse_empty_scores,
    cross_strengthen_deltas_empty_modal1_fired, cross_strengthen_deltas_empty_activations,
    cross_strengthen_deltas_no_class_match_allows_any,
    cross_propagate_soft_transfers_activation,
    cross_propagate_soft_accumulates_from_multiple_sources,
    cross_propagate_soft_zero_without_edge, cross_strengthen_deltas_fires_on_class_match,
    cross_strengthen_deltas_blocked_on_class_mismatch,
    cross_strengthen_deltas_blocked_on_unlabelled,
    cross_strengthen_deltas_fires_without_class_match_when_disabled,
    cross_store_reindex_drops_extinct_edges, cross_store_reindex_remaps_survivors,
    reverse_index_consistent_after_prune, reverse_index_consistent_after_set_zero,
    reverse_index_consistent_after_reindex>>
=============================================================================
