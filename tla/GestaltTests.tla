---------------------------- MODULE GestaltTests ----------------------------
(***************************************************************************)
(* The unit tests of GestaltKernelGraph (sokm-multimodal/src/graph.rs) as  *)
(* scripts, in the manner of LinkTests, with the kernels of KernelTests    *)
(* and the cross edges of CrossTests.  Both modalities of a test have the  *)
(* same inputs; A and B are (1, 0) and (0, 1), Centre is half way between  *)
(* them, Far is (10, 10).  Left out is the test that compares two graphs.  *)
(***************************************************************************)
EXTENDS Integers, Sequences, TLC

CONSTANTS None, Never

T == INSTANCE KernelTests
C == INSTANCE CrossTests

Returns(call, S) == T!Returns(call, S)
Nothing == T!Nothing

\* Of the fields that both have, kernels are trained with those of cfg.sokm.
Default == [sokm |-> T!L!Default @@ T!KernelDefault, cross |-> C!Default]

A == 0
Centre == 707
B == 1414
Far == 14000

(***************************************************************************)
(* The calls.  A kernel is named by its index in its modality.             *)
(***************************************************************************)
At(x, cfg) == <<x, cfg.sokm.sigma_0>>

tick(x1, x2, c, t, cfg) ==
  [call |-> "gestalt_tick", x1 |-> At(x1, cfg), x2 |-> At(x2, cfg), c |-> c, t |-> t,
   mode |-> "Apply", cfg |-> cfg.sokm, cross_cfg |-> cfg.cross]

On(name) == [call |-> name, cfg |-> Default.sokm, cross_cfg |-> Default.cross]
push1(x, c) == On("push") @@ [x |-> At(x, Default), c |-> c]
push2(x, c) == On("push2") @@ [x |-> At(x, Default), c |-> c]
cross_set(i, j, w) == On("cross_set") @@ [of |-> <<i, j>>, w |-> w]
cross_touch(i, j, t) == On("cross_touch") @@ [of |-> <<i, j>>, t |-> t]
compact(S) == On("gestalt_compact") @@ [in |-> S]
save_load == On("gestalt_save_load")

kernel_counts(S) == On("kernel_counts") @@ [in |-> S]
cross_edge_count(S) == On("cross_edge_count") @@ [in |-> S]
recall_from_modal1(x, S) == On("recall_from_modal1") @@ [x |-> At(x, Default), in |-> S]
recall_from_modal2(x, S) == On("recall_from_modal2") @@ [x |-> At(x, Default), in |-> S]

\* What a recall may be that is not empty; the graphs of these tests have
\* one or two kernels in each modality.
Something == [{0} -> Nat] \cup [{1} -> Nat] \cup [{0, 1} -> Nat]

Together(from, to, cfg) == [n \in 1 .. to - from + 1 |-> tick(A, B, 1, from + n - 1, cfg)]
Trained(n) == Together(0, n - 1, Default)
Born == Together(0, 0, Default)

Cross(cross) == [Default EXCEPT !.cross = cross]
Edges(n) == cross_edge_count({n})
SomeEdges == cross_edge_count(1 .. 4)

-----------------------------------------------------------------------------
gestalt_tick_grows_both_modalities_on_novel_input == Born \o <<kernel_counts({<<1, 1>>})>>

gestalt_tick_no_growth_on_familiar_input ==
  Born \o <<kernel_counts({<<1, 1>>})>> \o Together(1, 1, Default) \o <<kernel_counts({<<1, 1>>})>>

gestalt_tick_strengthens_cross_modal_edge_on_coactivation == Born \o <<SomeEdges>>

gestalt_tick_no_cross_strengthening_on_class_mismatch ==
  <<push1(A, 1), push2(B, 2)>> \o Born \o <<Edges(0)>>

gestalt_tick_no_cross_strengthening_when_require_class_match_false_and_unlabelled ==
  LET cfg == Cross([C!Default EXCEPT !.require_class_match = FALSE])
  IN  <<push1(A, None), push2(B, 1), tick(A, B, None, 0, cfg), Edges(0)>>

recall_from_modal1_returns_modal2_activations ==
  Trained(5) \o <<recall_from_modal1(A, Something)>>

recall_from_modal1_zero_without_cross_edge == <<recall_from_modal1(A, {Nothing})>>

recall_from_modal2_symmetric ==
  Trained(5) \o <<recall_from_modal1(A, Something), recall_from_modal2(B, Something)>>

cross_modal_imagery_without_modal2_input ==
  Trained(5) \o <<recall_from_modal1(A, Something)>>

gestalt_compact_reindexes_cross_edges ==
  Born \o <<tick(B, B, 1, 1, Default), compact({<<0, 0>>})>>

gestalt_compact_drops_cross_edges_involving_extinct_kernel ==
  LET cfg == [sokm |-> [Default.sokm EXCEPT !.p1_kernel = 0, !.theta_k = 99],
              cross |-> [C!Default EXCEPT !.min_weight = 0, !.keep = 10000]]
  IN  <<push1(A, 1), push1(B, 1), push2(B, 1),
        cross_set(0, 0, 500000), cross_set(1, 0, 300000), Edges(2),
        tick(Far, Far, 1, 100, cfg), compact((1 .. 3) \X (0 .. 2)),
        cross_edge_count(0 .. 2)>>

class_none_no_cross_edges_created ==
  [n \in 1 .. 5 |-> tick(A, B, None, n - 1, Default)] \o <<Edges(0)>>

require_class_match_false_any_two_strengthen ==
  LET cfg == Cross([C!Default EXCEPT !.require_class_match = FALSE])
  IN  <<push1(A, 1), push2(B, 2)>> \o Together(0, 0, cfg) \o <<SomeEdges>>

\* xi is 5.0.  The edge of the first tick is pruned at once already.
cross_pruned_via_weight_decay ==
  LET cfg == Cross([C!Default EXCEPT !.keep = 67, !.min_weight = 10000])
  IN  Together(0, 0, cfg) \o <<tick(B, A, 2, 1, cfg), cross_edge_count({0})>>

inactivity_pruning_fires ==
  LET cfg == Cross([C!Default EXCEPT !.p1 = 2, !.keep = 10000, !.min_weight = 0])
  IN  <<push1(A, 1), push2(B, 2), cross_set(0, 0, 500000), cross_touch(0, 0, 0), Edges(1),
        Returns(tick(A, B, 1, 100, cfg), [cross_pruned |-> 1 .. 4])>>

compact_no_extinct_cross_edges_survive ==
  Trained(3) \o <<Edges(1), compact({<<0, 0>>}), Edges(1)>>

recall_empty_graph_no_panic ==
  <<recall_from_modal1(A, {Nothing}), recall_from_modal2(B, {Nothing})>>

serde_roundtrip_and_tick ==
  Trained(3) \o <<Edges(1), save_load, Edges(1)>> \o Together(3, 3, Default)

integration_train_compact_recall ==
  Trained(10) \o <<SomeEdges, compact(Nat \X Nat), recall_from_modal1(A, Something)>>

integration_bidirectional_symmetry ==
  Trained(10) \o <<recall_from_modal1(A, Something), recall_from_modal2(B, Something)>>

\* xi is 10.0: no weight is left of the smallest.
integration_cross_modal_decay_to_zero ==
  LET cfg == Cross([C!Default EXCEPT !.keep = 0])
  IN  Together(0, 0, cfg)
        \o [n \in 1 .. 19 |-> tick(Centre, Centre, 2, n, cfg)] \o <<Edges(0)>>

\* By descending score is the order of the code; here it is the best of them
\* that scores above 0.
class_association_ranking ==
  Trained(15) \o [n \in 1 .. 3 |-> tick(B, A, 2, 14 + n, Default)]
    \o <<recall_from_modal1(A, Something)>>

Tests ==
  <<gestalt_tick_grows_both_modalities_on_novel_input,
    gestalt_tick_no_growth_on_familiar_input,
    gestalt_tick_strengthens_cross_modal_edge_on_coactivation,
    gestalt_tick_no_cross_strengthening_on_class_mismatch,
    gestalt_tick_no_cross_strengthening_when_require_class_match_false_and_unlabelled,
    recall_from_modal1_returns_modal2_activations,
    recall_from_modal1_zero_without_cross_edge, recall_from_modal2_symmetric,
    cross_modal_imagery_without_modal2_input, gestalt_compact_reindexes_cross_edges,
    gestalt_compact_drops_cross_edges_involving_extinct_kernel,
    class_none_no_cross_edges_created, require_class_match_false_any_two_strengthen,
    cross_pruned_via_weight_decay, inactivity_pruning_fires,
    compact_no_extinct_cross_edges_survive, recall_empty_graph_no_panic,
    serde_roundtrip_and_tick, integration_train_compact_recall,
    integration_bidirectional_symmetry, integration_cross_modal_decay_to_zero,
    class_association_ranking>>
=============================================================================
