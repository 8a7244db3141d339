--------------------------- MODULE EmotionalGraph ---------------------------
(***************************************************************************)
(* EmotionalKernelGraph (sokm-emotion/src/graph.rs): a kernel graph with a *)
(* vector of emotion variables beside its kernels, one entry per kernel at *)
(* the same position, and a global emotion state.  Nothing but the order   *)
(* of the calls in tick and compact keeps the two vectors in step.         *)
(*                                                                         *)
(* An emotion is a level for each dimension: between misery and ecstasy,   *)
(* and between relief and rage.                                            *)
(***************************************************************************)
EXTENDS KernelVector, FiniteSetsExt

CONSTANTS
  Dim,       \* the dimensions of an emotion, e1 and e2
  MaxLevel,  \* bound: the highest level of an emotion
  Bound,     \* ClampPolicy: Bound[d] bounds dimension d of the global state
  Score,     \* levels of activation above 0
  Felt,      \* Felt[e][k]: e weighted by an activation k
  Toward,    \* Toward[e][target]: e moved towards target by lambda_e
  Faded,     \* Faded[g]: g multiplied by decay_factor
  Optimal,   \* EmotionConfig::optimal
  ThetaE,    \* EmotionConfig::theta_e
  Alpha      \* EmotionConfig::alpha

Level == -MaxLevel .. MaxLevel
Emotion == [Dim -> Level]
Indifferent == [d \in Dim |-> 0]

Between(a, b) == (a .. b) \cup (b .. a)

(***************************************************************************)
(* EmotionConfig::validate: lambda_e in [0, 1] moves a variable to a level *)
(* between its own and the target, theta_e > 0 and alpha >= 0.  The decay  *)
(* factor, in (0, 1], is documented and not validated (policy.rs).         *)
(***************************************************************************)
ValidEmotionConfig ==
  /\ \A e, target \in Level : Toward[e][target] \in Between(e, target)
  /\ ThetaE > 0 /\ Alpha >= 0

ASSUME EmotionAssumption ==
  /\ MaxKernels \in Nat /\ MaxLevel \in Nat
  /\ Bound \in [Dim -> 0 .. MaxLevel]
  /\ NoClass \notin Class
  /\ Toward \in [Level -> [Level -> Level]]
  /\ Faded \in [Level -> Level] /\ \A g \in Level : Faded[g] \in Between(0, g)
  /\ Felt \in [Level -> [Score -> Int]] /\ \A k \in Score : Felt[0][k] = 0
  /\ Optimal \in [Dim -> Int] /\ ThetaE \in Int /\ Alpha \in Int
  /\ ValidEmotionConfig

VARIABLES
  emotions,  \* EmotionStore::vars
  global,    \* EmotionState
  panicked   \* an index past the end of emotions has aborted the caller

vars == <<units, emotions, global, panicked>>

-----------------------------------------------------------------------------
\* Mutant: an unlabelled kernel gets no entry.
PushedIfLabelled(c, grew) ==
  IF grew /\ c # NoClass THEN Append(emotions, Indifferent) ELSE emotions

Pushed(c, grew) == IF grew THEN Append(emotions, Indifferent) ELSE emotions

UpdateKernelVar(e, target) == [d \in Dim |-> Toward[e[d]][target[d]]]

\* Winner takes all: a read and a write at the position of the winner.
Trained(es, best, target) ==
  IF best \in DOMAIN es THEN [es EXCEPT ![best] = UpdateKernelVar(@, target)] ELSE es

\* Mutant: the decay factor is not applied.
UpdateGlobalKept(es, scored) ==
  [d \in Dim |-> global[d]
     + SumFunction([i \in DOMAIN scored |-> Felt[es[i][d]][scored[i]]])]

UpdateGlobal(es, scored) ==
  [d \in Dim |-> Faded[global[d]]
     + SumFunction([i \in DOMAIN scored |-> Felt[es[i][d]][scored[i]]])]

\* Mutant: IdentityPolicy.
Unclamped(g) == g

Clamped(g) == [d \in Dim |-> Max({-Bound[d], Min({g[d], Bound[d]})})]

Off(d) == Max({global[d] - Optimal[d], Optimal[d] - global[d]})

Attentive == SumFunction([d \in Dim |-> Off(d)]) <= ThetaE

\* Salience is computed for every kernel there is, and only if alpha is not 0.
SalienceReads == IF Alpha = 0 THEN {} ELSE DOMAIN units'

(***************************************************************************)
(* tick.  scored maps the kernels with a positive score in the report to   *)
(* it: live ones, scored before growth, and the winner among them unless   *)
(* it is new.  Their emotions are read after the winner has been trained.  *)
(***************************************************************************)
EmotionalTick(c, target, grew, best, scored) ==
  LET es == Trained(Pushed(c, grew), best, target)
      inRange == {best} \cup DOMAIN scored \subseteq DOMAIN es
  IN  /\ ~panicked
      /\ ~grew => best \in DOMAIN scored
      /\ Tick(c, grew, best)
      /\ emotions' = es
      /\ global' = IF inRange
                   THEN Clamped(UpdateGlobal(es, scored))
                   ELSE global
      /\ panicked' = ~(inRange /\ SalienceReads \subseteq DOMAIN es)

\* Mutant: the vector is cut to the new length.
KeptTruncated(kept) == SubSeq(emotions, 1, Len(kept))

Kept(kept) == Picked(emotions, kept)

\* compact and compact_with_map
Compact(kept) ==
  /\ ~panicked
  /\ Living(units) # DOMAIN units
  /\ CompactTo(kept)
  /\ IF Range(kept) \subseteq DOMAIN emotions
     THEN emotions' = Kept(kept) /\ UNCHANGED panicked
     ELSE panicked' = TRUE /\ UNCHANGED emotions
  /\ UNCHANGED global

Extinguish(i) ==
  /\ ~panicked
  /\ MarkExtinct(i)
  /\ UNCHANGED <<emotions, global, panicked>>

-----------------------------------------------------------------------------
New == Init /\ emotions = <<>> /\ global = Indifferent /\ panicked = FALSE

\* with_store, given any kernels
WithStore ==
  /\ units \in UNION {[1 .. n -> Unit] : n \in 0 .. MaxKernels}
  /\ emotions = <<>> /\ global = Indifferent /\ panicked = FALSE

Scored == UNION {[A -> Score] : A \in SUBSET Living(units)}

EmotionalNext ==
  \/ \E c \in Class \cup {NoClass}, target \in Emotion, grew \in BOOLEAN,
        best \in 1 .. MaxKernels, scored \in Scored :
       EmotionalTick(c, target, grew, best, scored)
  \/ \E kept \in Survivors : Compact(kept)
  \/ \E i \in DOMAIN units : Extinguish(i)

\* A graph made by new.
EmotionalSpec == New /\ [][EmotionalNext]_vars

\* The agent goes on being used.  It then goes on ticking: only so many
\* kernels can be extinguished, and compacted away, between two ticks.
FairSpec == EmotionalSpec /\ WF_vars(EmotionalNext)

\* A graph made by with_store.
StoreSpec == WithStore /\ [][EmotionalNext]_vars

-----------------------------------------------------------------------------
TypeOK ==
  /\ units \in Seq(Unit)
  /\ emotions \in Seq(Emotion)
  /\ global \in Emotion
  /\ panicked \in BOOLEAN

(***************************************************************************)
(* The emotion variables are parallel to the kernels at all times, so no   *)
(* tick, compaction or salience score reads past their end.                *)
(***************************************************************************)
EmotionsParallel == Len(emotions) = Len(units)

(***************************************************************************)
(* Emotions belong to kernels, not to positions: a compaction hands each   *)
(* survivor its own, and of the kernels that a tick leaves in place only   *)
(* one that is live afterwards may have been trained.                      *)
(***************************************************************************)
NewIndex(i) == Cardinality({j \in Living(units) : j <= i})

FeelingsFollowKernels ==
  [][IF Len(units') < Len(units)
     THEN \A i \in Living(units) : emotions'[NewIndex(i)] = emotions[i]
     ELSE \A i \in DOMAIN units \ Living(units') : emotions'[i] = emotions[i]]_vars

(***************************************************************************)
(* Attention comes back: if from some time on no live kernel has feelings, *)
(* the agent is attentive from some time on.  With a decay factor below 1  *)
(* the global state goes to 0, not to optimal (DecayPolicy), so this is    *)
(* for an optimal state within theta_e of 0.  What an extinct kernel       *)
(* felt, before or after its removal, must not keep the agent away.        *)
(***************************************************************************)
Calm == \A i \in Living(units) : emotions[i] = Indifferent

Recovers == <>[]Calm => <>[]Attentive
=============================================================================
