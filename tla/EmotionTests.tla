---------------------------- MODULE EmotionTests ----------------------------
(***************************************************************************)
(* The unit tests of the emotion layer (sokm-emotion/src/graph.rs,         *)
(* state.rs, update.rs, policy.rs) as scripts, in the manner of LinkTests  *)
(* and with the inputs of KernelTests.  An emotion is a record of e1 and   *)
(* e2 in hundred-thousandths; lambda_e and the decay factor of the policy  *)
(* are in thousandths, alpha is in halves.  Left out are the tests of      *)
(* salience, of the derived traits and of panics, and those that compare   *)
(* two graphs.                                                             *)
(***************************************************************************)
EXTENDS Integers, Sequences, TLC

CONSTANTS None, Never

T == INSTANCE KernelTests

Returns(call, S) == T!Returns(call, S)
kernel_count(n) == T!kernel_count(n)
save_load == T!save_load

One == 100000
Highest == 100 * One

\* A fraction of e: f thousandths, rounded down.
Part(e, f) == (e \div 1000) * f + ((e % 1000) * f) \div 1000

\* Hundredths to levels: an emotion with two decimals.
Emo(a, b) == [e1 |-> 1000 * a, e2 |-> 1000 * b]
Neutral == Emo(0, 0)
Exactly(e) == {e}
Within(S1, S2) == [e1 : S1, e2 : S2]

Up == 1 .. Highest
Down == -Highest .. -1
Level == -Highest .. Highest

(***************************************************************************)
(* Configurations.  Under IdentityPolicy the state has no bounds; no test  *)
(* drives it to the highest level.                                         *)
(***************************************************************************)
Identity == [decay |-> 1000, bound |-> [e1 |-> Highest, e2 |-> Highest]]
ClampPolicy == [decay |-> 1000, bound |-> Emo(300, 200)]
DecayPolicy == [ClampPolicy EXCEPT !.decay = 990]

EmotionDefault ==
  [lambda_e |-> 100, theta_e |-> One, optimal |-> Neutral, alpha |-> 0] @@ Identity

graph_cfg == T!Cfg @@ EmotionDefault
test_cfg == T!L!Default @@ T!KernelDefault @@ EmotionDefault

Policy(policy, cfg) == policy @@ cfg
Lambda(f) == [graph_cfg EXCEPT !.lambda_e = f]

\* cfg_grow of the tests: every tick grows.
Grow(sigma, p1, cfg) ==
  [cfg EXCEPT !.theta_k = 200, !.sigma_0 = sigma, !.p1_kernel = p1]
Narrow(sigma, p1, cfg) == [cfg EXCEPT !.sigma_0 = sigma, !.p1_kernel = p1]

(***************************************************************************)
(* The calls.                                                              *)
(***************************************************************************)
tick(x, c, target, t, cfg) ==
  [call |-> "emotional_tick", x |-> <<x, cfg.sigma_0>>, c |-> c, target |-> target,
   t |-> t, mode |-> "Apply", cfg |-> cfg]
compact(S) == [call |-> "emotional_compact", cfg |-> graph_cfg, in |-> S]
compact_with_map(S) == [call |-> "emotional_compact_with_map", cfg |-> graph_cfg, in |-> S]
mark_extinct(i) == [call |-> "extinguish", node |-> i, cfg |-> graph_cfg]

\* What a test does to the parts of a graph itself.
push == [call |-> "push_emotion", cfg |-> graph_cfg]
set(i, e) == [call |-> "set_emotion", node |-> i, e |-> e, cfg |-> graph_cfg]
set_global(e) == [call |-> "set_global", e |-> e, cfg |-> graph_cfg]
compact_store(kept) == [call |-> "compact_emotions", kept |-> kept, cfg |-> graph_cfg]
apply(cfg) == [call |-> "apply", cfg |-> cfg]
update_global(es, scored, cfg) ==
  [call |-> "update_global", es |-> es, scored |-> scored, cfg |-> cfg]

len(n) == [call |-> "emotions_len", cfg |-> graph_cfg, in |-> {n}]
get(i, S) == [call |-> "emotion_vars", node |-> i, cfg |-> graph_cfg, in |-> S]
global(S) == [call |-> "global_state", cfg |-> graph_cfg, in |-> S]
is_attentive(optimal, theta, b) ==
  [call |-> "is_attentive", in |-> {b},
   cfg |-> [graph_cfg EXCEPT !.optimal = optimal, !.theta_e = theta]]
update_var(e, target, f, S) ==
  [call |-> "update_var", e |-> e, target |-> target, cfg |-> Lambda(f), in |-> S]

Ticks(x, c, target, from, to, cfg) ==
  [n \in 1 .. to - from + 1 |-> tick(x, c, target, from + n - 1, cfg)]

-----------------------------------------------------------------------------
(***************************************************************************)
(* graph.rs.                                                               *)
(***************************************************************************)
emotional_graph_starts_empty == <<kernel_count(0), len(0)>>

emotional_tick_grows_emotion_store_in_lockstep ==
  <<tick(1000, 0, Neutral, 1, graph_cfg), kernel_count(1), len(1)>>

emotional_tick_updates_activated_kernel_vars ==
  <<Returns(tick(1000, 0, Emo(100, 0), 1, graph_cfg), [activated |-> {0}]),
    get(0, Within(Up, Level))>>

TwoApart(a, b, target, sigma, p1) ==
  <<tick(a, 0, target, 1, Grow(sigma, p1, graph_cfg)),
    tick(b, 0, target, 2, Grow(sigma, p1, graph_cfg))>>

emotional_tick_does_not_update_non_activated_kernels ==
  TwoApart(0, 100000, Emo(100, 0), 10, Never)
    \o <<set(0, Neutral), set(1, Neutral),
         Returns(tick(0, 0, Emo(100, 0), 3, Narrow(10, Never, graph_cfg)), [activated |-> {0}]),
         get(1, Exactly(Neutral))>>

emotional_tick_global_state_updates ==
  <<tick(1000, 0, Neutral, 1, graph_cfg), set(0, Emo(100, 50)),
    tick(1000, 0, Neutral, 2, graph_cfg), global(Within(Level, Level) \ {Neutral})>>

emotional_tick_attentive_when_near_optimal ==
  <<tick(1000, 0, Neutral, 1, graph_cfg),
    Returns(tick(1000, 0, Neutral, 2, graph_cfg), [attentive |-> {TRUE}])>>

emotional_tick_not_attentive_when_far_from_optimal ==
  <<tick(1000, 0, Neutral, 1, graph_cfg), set_global(Emo(500, 500)),
    Returns(tick(1000, 0, Neutral, 2, graph_cfg), [attentive |-> {FALSE}])>>

\* The first of three kernels has been idle for too long.
emotional_compact_reindexes_emotion_store ==
  <<tick(0, 0, Emo(100, 0), 1, Grow(1, 3, graph_cfg)),
    tick(10000, 0, Emo(0, 100), 2, Grow(1, 3, graph_cfg)),
    tick(20000, 0, Emo(50, 50), 3, Grow(1, 3, graph_cfg)),
    kernel_count(3), tick(10000, 0, Neutral, 5, Narrow(1, 3, graph_cfg)),
    compact({1}), len(2), kernel_count(2)>>

emotional_compact_invariant_holds ==
  [n \in 1 .. 3 |-> tick(10000 * (n - 1), 0, Neutral, n, Grow(1, 3, graph_cfg))]
    \o <<tick(10000, 0, Neutral, 5, Narrow(1, 3, graph_cfg)),
         compact(0 .. 3), len(2), kernel_count(2)>>

emotional_graph_serde_roundtrip ==
  [n \in 1 .. 5 |-> tick(100 * (n - 1), 0, Emo(50, -30), n, graph_cfg)]
    \o <<save_load, kernel_count(1), global(Within(Up, Down)), get(0, Within(Up, Down))>>

tick_class_none_emotion_vars_still_update ==
  <<tick(1000, None, Emo(100, 50), 1, graph_cfg), get(0, Within(Up, Up))>>

tick_e_target_zero_vars_decay_toward_zero ==
  <<tick(1000, 0, Emo(100, 100), 1, graph_cfg), set(0, Emo(50, 50)),
    tick(1000, 0, Neutral, 2, graph_cfg), get(0, Within(-Highest .. 49999, -Highest .. 49999))>>

tick_successive_same_input_vars_converge ==
  Ticks(500, 0, Emo(200, -100), 1, 50, graph_cfg)
    \o <<get(0, Within(150001 .. 249999, -149999 .. -50001))>>

tick_with_decay_policy_global_is_clamped ==
  LET cfg == Policy(DecayPolicy, graph_cfg)
  IN  [n \in 1 .. 40 |->
         IF n % 2 = 1 THEN tick(500, 0, Emo(300, 200), (n + 1) \div 2, cfg)
         ELSE set(0, Emo(300, 200))]
        \o <<global(Within(-3 * One .. 3 * One, -2 * One .. 2 * One))>>

compact_no_extinct_returns_zero == <<tick(1000, 0, Neutral, 1, graph_cfg), compact({0})>>

compact_empty_no_panic == <<compact({0})>>

\* One of two kernels dies.
OneDies ==
  TwoApart(0, 10000, Neutral, 1, 3)
    \o <<tick(10000, 0, Neutral, 5, Narrow(1, 3, graph_cfg))>>

compact_with_map_returns_correct_map ==
  OneDies \o <<compact_with_map({<<None, 0>>}), len(1), kernel_count(1)>>

post_compact_tick_works ==
  OneDies
    \o <<compact({1}), tick(10000, 0, Neutral, 6, Narrow(1, 3, graph_cfg)),
         len(1), kernel_count(1)>>

tick_multiple_fire_only_activated_trains_vars ==
  TwoApart(0, 100000, Neutral, 10, Never)
    \o <<set(0, Neutral), set(1, Neutral),
         Returns(tick(0, 0, Emo(100, 50), 3, Narrow(10, Never, graph_cfg)), [activated |-> {0}]),
         get(0, Within(Up, Level)), get(1, Exactly(Neutral))>>

serde_roundtrip_with_decay_policy ==
  [n \in 1 .. 3 |-> tick(100 * (n - 1), 0, Emo(50, -30), n, Policy(DecayPolicy, graph_cfg))]
    \o <<save_load, kernel_count(1), global(Within(Up, Down))>>

tick_grows_on_first_call ==
  <<kernel_count(0), Returns(tick(500, None, Neutral, 0, test_cfg), [grew |-> {TRUE}]),
    kernel_count(1)>>

tick_attentive_true_at_default_config ==
  <<Returns(tick(500, None, Neutral, 0, test_cfg), [attentive |-> {TRUE}])>>

tick_not_attentive_when_far_from_optimal ==
  LET cfg == [test_cfg EXCEPT !.lambda_e = 1000, !.theta_e = 100]
  IN  Ticks(500, None, Emo(300, 200), 0, 18, cfg)
        \o <<Returns(tick(500, None, Emo(300, 200), 19, cfg), [attentive |-> {FALSE}])>>

kernel_count_edge_count_stm_len_delegate ==
  <<kernel_count(0), T!graph_edge_count(0), T!indices({<<>>}),
    tick(500, None, Neutral, 0, test_cfg), kernel_count(1)>>

compact_with_map_no_op_on_empty == <<compact_with_map({<<>>})>>

compact_with_map_removes_extinct_kernel ==
  <<tick(500, None, Neutral, 0, test_cfg), kernel_count(1), mark_extinct(0),
    compact_with_map({<<None>>}), kernel_count(0)>>

salience_scores_empty_when_alpha_zero ==
  <<Returns(tick(500, None, Neutral, 0, test_cfg), [salience |-> {0}])>>

salience_scores_populated_when_alpha_nonzero ==
  <<Returns(tick(500, None, Neutral, 0, [test_cfg EXCEPT !.alpha = 2]), [salience |-> {1}]),
    kernel_count(1)>>

salience_scores_len_matches_kernel_count_after_growth ==
  <<tick(0, 0, Neutral, 0, [test_cfg EXCEPT !.alpha = 1]),
    Returns(tick(3000, 0, Neutral, 1, [test_cfg EXCEPT !.alpha = 1]), [salience |-> {2}]),
    kernel_count(2)>>

GraphTests ==
  <<emotional_graph_starts_empty, emotional_tick_grows_emotion_store_in_lockstep,
    emotional_tick_updates_activated_kernel_vars,
    emotional_tick_does_not_update_non_activated_kernels,
    emotional_tick_global_state_updates, emotional_tick_attentive_when_near_optimal,
    emotional_tick_not_attentive_when_far_from_optimal,
    emotional_compact_reindexes_emotion_store, emotional_compact_invariant_holds,
    emotional_graph_serde_roundtrip, tick_class_none_emotion_vars_still_update,
    tick_e_target_zero_vars_decay_toward_zero, tick_successive_same_input_vars_converge,
    tick_with_decay_policy_global_is_clamped, compact_no_extinct_returns_zero,
    compact_empty_no_panic, compact_with_map_returns_correct_map, post_compact_tick_works,
    tick_multiple_fire_only_activated_trains_vars, serde_roundtrip_with_decay_policy,
    tick_grows_on_first_call, tick_attentive_true_at_default_config,
    tick_not_attentive_when_far_from_optimal, kernel_count_edge_count_stm_len_delegate,
    compact_with_map_no_op_on_empty, compact_with_map_removes_extinct_kernel,
    salience_scores_empty_when_alpha_zero, salience_scores_populated_when_alpha_nonzero,
    salience_scores_len_matches_kernel_count_after_growth>>

-----------------------------------------------------------------------------
(***************************************************************************)
(* state.rs: the vector of emotion variables.                              *)
(***************************************************************************)
emotion_store_push_grows_len == <<len(0), push, len(1), push, len(2)>>

emotion_store_get_set_roundtrip == <<push, set(0, Emo(100, 200)), get(0, {Emo(100, 200)})>>

emotion_store_new_kernel_is_neutral == <<push, get(0, {Neutral})>>

emotion_store_compact_drops_extinct ==
  <<push, set(0, Emo(100, 200)), push, set(1, Emo(300, 400)), push, set(2, Emo(500, 600)),
    compact_store(<<0, 2>>), len(2), get(0, {Emo(100, 200)}), get(1, {Emo(500, 600)})>>

compact_with_map_all_surviving_identity ==
  <<push, set(0, Emo(100, 50)), push, set(1, Emo(200, -100)), compact_store(<<0, 1>>),
    len(2), get(0, {Emo(100, 50)}), get(1, {Emo(200, -100)})>>

compact_with_map_empty_no_panic == <<compact_store(<<>>), len(0)>>

compact_with_map_boundary_last_index ==
  <<push, set(0, Emo(10, 20)), push, set(1, Emo(30, 40)), push, set(2, Emo(50, 60)),
    compact_store(<<2>>), len(1), get(0, {Emo(50, 60)})>>

StateTests ==
  <<emotion_store_push_grows_len, emotion_store_get_set_roundtrip,
    emotion_store_new_kernel_is_neutral, emotion_store_compact_drops_extinct,
    compact_with_map_all_surviving_identity, compact_with_map_empty_no_panic,
    compact_with_map_boundary_last_index>>

-----------------------------------------------------------------------------
(***************************************************************************)
(* update.rs.  Where a test computes with numbers, they are e1 here.       *)
(***************************************************************************)
Scalar(n) == Emo(n, 0)

kernel_emotion_var_update_moves_toward_target ==
  <<update_var(Neutral, Scalar(100), 500, {Scalar(50)})>>

kernel_emotion_var_update_no_change_at_target ==
  <<update_var(Scalar(100), Scalar(100), 100, {Scalar(100)})>>

update_kernel_emotion_var_lambda_zero_frozen ==
  <<update_var(Scalar(30), Scalar(100), 0, {Scalar(30)})>>

update_kernel_emotion_var_lambda_one_instant ==
  <<update_var(Neutral, Scalar(100), 1000, {Scalar(100)})>>

update_kernel_emotion_var_lambda_overshoot ==
  <<update_var(Neutral, Scalar(100), 2000, Within(One + 1 .. Highest, {0}))>>

Decaying(f) == [graph_cfg EXCEPT !.decay = f]

\* The two results, one with half the activation, are compared by value.
global_emotion_update_weighted_by_activation ==
  <<update_global(<<Scalar(100)>>, <<100>>, Decaying(1000)), global({Scalar(100)}),
    set_global(Neutral),
    update_global(<<Scalar(100)>>, <<50>>, Decaying(1000)), global({Scalar(50)})>>

global_emotion_update_empty_activations_returns_decayed ==
  <<set_global(Emo(100, 50)), update_global(<<>>, <<>>, Decaying(900)), global({Emo(90, 45)})>>

global_emotion_update_decay_one_no_change_without_activations ==
  <<set_global(Emo(100, -50)), update_global(<<>>, <<>>, Decaying(1000)),
    global({Emo(100, -50)})>>

update_global_emotion_decay_zero_wipes_prior ==
  <<set_global(Emo(500, -300)), update_global(<<>>, <<>>, Decaying(0)), global({Neutral})>>

is_attentive_true_when_within_theta_e ==
  <<set_global(Emo(30, 30)), is_attentive(Neutral, One, TRUE)>>

is_attentive_false_when_outside_theta_e ==
  <<set_global(Emo(200, 0)), is_attentive(Neutral, One, FALSE)>>

is_attentive_true_at_optimal ==
  <<set_global(Emo(100, -100)), is_attentive(Emo(100, -100), 100, TRUE)>>

is_attentive_at_exact_boundary ==
  <<set_global(Emo(60, 40)), is_attentive(Neutral, One, TRUE)>>

is_attentive_theta_e_zero_only_at_optimal ==
  <<set_global(Emo(100, -100)), is_attentive(Emo(100, -100), 0, TRUE),
    set_global([Emo(100, -100) EXCEPT !.e1 = @ + 100]),
    is_attentive(Emo(100, -100), 0, FALSE)>>

UpdateTests ==
  <<kernel_emotion_var_update_moves_toward_target,
    kernel_emotion_var_update_no_change_at_target,
    update_kernel_emotion_var_lambda_zero_frozen,
    update_kernel_emotion_var_lambda_one_instant,
    update_kernel_emotion_var_lambda_overshoot,
    global_emotion_update_weighted_by_activation,
    global_emotion_update_empty_activations_returns_decayed,
    global_emotion_update_decay_one_no_change_without_activations,
    update_global_emotion_decay_zero_wipes_prior, is_attentive_true_when_within_theta_e,
    is_attentive_false_when_outside_theta_e, is_attentive_true_at_optimal,
    is_attentive_at_exact_boundary, is_attentive_theta_e_zero_only_at_optimal>>

-----------------------------------------------------------------------------
(***************************************************************************)
(* policy.rs: what apply makes of a global state.                          *)
(***************************************************************************)
Applied(policy, e, after) ==
  <<set_global(e), apply(Policy(policy, graph_cfg)), global({after})>>

identity_policy_apply_is_passthrough == Applied(Identity, Emo(150, -70), Emo(150, -70))
clamp_policy_clamps_e1_above_max == Applied(ClampPolicy, Emo(500, 0), Emo(300, 0))
clamp_policy_clamps_e1_below_min == Applied(ClampPolicy, Emo(-500, 0), Emo(-300, 0))
clamp_policy_clamps_e2_above_max == Applied(ClampPolicy, Emo(0, 300), Emo(0, 200))
clamp_policy_no_change_within_range == Applied(ClampPolicy, Emo(100, -100), Emo(100, -100))
decay_policy_still_clamps == Applied(DecayPolicy, Emo(500, 0), Emo(300, 0))
clamp_policy_e1_at_exact_max_unchanged == Applied(ClampPolicy, Emo(300, 0), Emo(300, 0))
clamp_policy_e2_below_min == Applied(ClampPolicy, Emo(0, -500), Emo(0, -200))
decay_policy_compound_then_clamp ==
  Applied([DecayPolicy EXCEPT !.decay = 1000], Emo(1000, 0), Emo(300, 0))

decay_policy_decay_zero_global_resets ==
  LET cfg == Policy([DecayPolicy EXCEPT !.decay = 0], graph_cfg)
  IN  <<set_global(Emo(200, -100)), update_global(<<>>, <<>>, cfg), apply(cfg),
        global({Neutral})>>

PolicyTests ==
  <<identity_policy_apply_is_passthrough, clamp_policy_clamps_e1_above_max,
    clamp_policy_clamps_e1_below_min, clamp_policy_clamps_e2_above_max,
    clamp_policy_no_change_within_range, decay_policy_still_clamps,
    clamp_policy_e1_at_exact_max_unchanged, clamp_policy_e2_below_min,
    decay_policy_compound_then_clamp, decay_policy_decay_zero_global_resets>>
-----------------------------------------------------------------------------
(***************************************************************************)
(* sokm-emotion/tests/emotional_integration.rs.                            *)
(***************************************************************************)
learn_cycle_vars_converge ==
  Ticks(500, 0, Emo(150, -50), 1, 10, graph_cfg)
    \o <<get(0, Within(One \div 2 + 1 .. Highest, -Highest .. -20001))>>

\* Its theta_k is 2.0 in every tick.
compact_and_tick_integrity ==
  LET cfg == Grow(1, 3, graph_cfg)
  IN  <<tick(0, 0, Emo(100, 0), 1, cfg), tick(10000, 0, Emo(0, 100), 2, cfg),
        tick(20000, 0, Emo(50, 50), 3, cfg), kernel_count(3), mark_extinct(0),
        compact({1}), kernel_count(2), tick(10000, 0, Neutral, 6, cfg),
        [kernel_count(2) EXCEPT !.in = 2 .. 10]>>

IntegrationTests == <<learn_cycle_vars_converge, compact_and_tick_integrity>>
=============================================================================
