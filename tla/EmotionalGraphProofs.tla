------------------------ MODULE EmotionalGraphProofs ------------------------
(***************************************************************************)
(* The emotion variables stay parallel to the kernels, and each emotion    *)
(* with its kernel, for any number of kernels, labels and levels.          *)
(***************************************************************************)
EXTENDS EmotionalGraph, FiniteProofs, SequenceTheorems

IInv ==
  /\ units \in Seq(Unit)
  /\ emotions \in Seq(Emotion)
  /\ EmotionsParallel

(***************************************************************************)
(* A growing tick appends to both vectors, any other tick to neither, and  *)
(* what happens to the entries afterwards changes no length.               *)
(***************************************************************************)
LEMMA TickKeeps ==
  ASSUME IInv,
         NEW c \in Class \cup {NoClass}, NEW target \in Emotion, NEW grew \in BOOLEAN,
         NEW best \in 1 .. MaxKernels, NEW scored \in Scored,
         EmotionalTick(c, target, grew, best, scored)
  PROVE  IInv'
<1> DEFINE us == Grown(c, grew)
           es == Pushed(c, grew)
<1>1. us \in Seq(Unit) /\ es \in Seq(Emotion) /\ Len(es) = Len(us)
  <2>1. [class |-> c, extinct |-> FALSE] \in Unit
    BY DEF Unit
  <2>2. Indifferent \in Emotion
    BY EmotionAssumption DEF Indifferent, Emotion, Level
  <2> QED
    BY <2>1, <2>2 DEF IInv, EmotionsParallel, Grown, Pushed
<1>2. units' \in Seq(Unit) /\ Len(units') = Len(us)
  <2>1. units' \in [1 .. Len(us) -> Unit]
    BY <1>1 DEF EmotionalTick, Tick
  <2> HIDE DEF us
  <2>2. Len(us) \in Nat
    BY <1>1
  <2> QED
    BY <2>1, <2>2
<1>3. emotions' \in Seq(Emotion) /\ Len(emotions') = Len(es)
  <2> HIDE DEF es
  <2>1. Trained(es, best, target) \in Seq(Emotion) /\ Len(Trained(es, best, target)) = Len(es)
    <3>1. CASE best \in DOMAIN es
      <4>1. es[best] \in Emotion
        BY <1>1, <3>1
      <4>2. UpdateKernelVar(es[best], target) \in Emotion
        BY <4>1, EmotionAssumption DEF UpdateKernelVar, Emotion
      <4> QED
        BY <1>1, <3>1, <4>2 DEF Trained
    <3>2. CASE best \notin DOMAIN es
      BY <1>1, <3>2 DEF Trained
    <3> QED
      BY <3>1, <3>2
  <2>2. emotions' = Trained(es, best, target)
    BY DEF EmotionalTick, es
  <2> QED
    BY <2>1, <2>2
<1> QED
  BY <1>1, <1>2, <1>3 DEF IInv, EmotionsParallel

(***************************************************************************)
(* A compaction picks the same positions from both vectors.                *)
(***************************************************************************)
LEMMA CompactKeeps ==
  ASSUME IInv, NEW kept \in Survivors, Compact(kept)
  PROVE  IInv'
<1>1. PICK m \in 0 .. Len(units) : kept \in [1 .. m -> Living(units)]
  BY DEF Survivors, Enumerations
<1>2. \A n \in 1 .. m : kept[n] \in DOMAIN units /\ kept[n] \in DOMAIN emotions
  BY <1>1 DEF IInv, EmotionsParallel, Living
<1>3. Range(kept) \subseteq DOMAIN emotions
  BY <1>1, <1>2 DEF Range
<1>4. units' = [n \in 1 .. m |-> units[kept[n]]] /\ emotions' = [n \in 1 .. m |-> emotions[kept[n]]]
  BY <1>1, <1>3 DEF Compact, CompactTo, Kept, Picked
<1>5. m \in Nat
  BY <1>1 DEF IInv
<1>6. (\A n \in 1 .. m : units[kept[n]] \in Unit) /\ (\A n \in 1 .. m : emotions[kept[n]] \in Emotion)
  BY <1>2 DEF IInv
<1>7. units' \in Seq(Unit) /\ Len(units') = m
  BY <1>4, <1>5, <1>6
<1>8. emotions' \in Seq(Emotion) /\ Len(emotions') = m
  BY <1>4, <1>5, <1>6
<1> QED
  BY <1>7, <1>8 DEF IInv, EmotionsParallel

LEMMA EmotionalInvariant == EmotionalSpec => []IInv
<1>1. New => IInv
  BY DEF New, Init, IInv, EmotionsParallel
<1>2. IInv /\ [EmotionalNext]_vars => IInv'
  <2> SUFFICES ASSUME IInv, [EmotionalNext]_vars PROVE IInv'
    OBVIOUS
  <2>1. ASSUME NEW c \in Class \cup {NoClass}, NEW target \in Emotion, NEW grew \in BOOLEAN,
               NEW best \in 1 .. MaxKernels, NEW scored \in Scored,
               EmotionalTick(c, target, grew, best, scored)
        PROVE  IInv'
    BY <2>1, TickKeeps
  <2>2. ASSUME NEW kept \in Survivors, Compact(kept)
        PROVE  IInv'
    BY <2>2, CompactKeeps
  <2>3. ASSUME NEW i \in DOMAIN units, Extinguish(i)
        PROVE  IInv'
    <3>1. units[i] \in Unit /\ units' = [units EXCEPT ![i] = [units[i] EXCEPT !.extinct = TRUE]]
      BY <2>3 DEF IInv, Extinguish, MarkExtinct
    <3>2. [units[i] EXCEPT !.extinct = TRUE] \in Unit
      BY <3>1 DEF Unit
    <3>3. units' \in Seq(Unit) /\ Len(units') = Len(units)
      BY <3>1, <3>2 DEF IInv
    <3> QED
      BY <2>3, <3>3 DEF IInv, EmotionsParallel, Extinguish
  <2>4. CASE UNCHANGED vars
    BY <2>4 DEF vars, IInv, EmotionsParallel
  <2> QED
    BY <2>1, <2>2, <2>3, <2>4 DEF EmotionalNext
<1> QED
  BY <1>1, <1>2, PTL DEF EmotionalSpec

(***************************************************************************)
(* In a graph made by new, every kernel has its emotion variables.         *)
(***************************************************************************)
THEOREM EmotionLockstep == EmotionalSpec => []EmotionsParallel
<1>1. IInv => EmotionsParallel
  BY DEF IInv
<1> QED
  BY <1>1, EmotionalInvariant, PTL

(***************************************************************************)
(* The global state: whatever the activations add up to, the clamp brings  *)
(* it back to a level.                                                     *)
(***************************************************************************)
LEMMA MinOfTwo ==
  ASSUME NEW a \in Int, NEW b \in Int
  PROVE  Min({a, b}) = IF a <= b THEN a ELSE b
BY DEF Min

LEMMA MaxOfTwo ==
  ASSUME NEW a \in Int, NEW b \in Int
  PROVE  Max({a, b}) = IF a >= b THEN a ELSE b
BY DEF Max

LEMMA LevelIsInt == Level \in SUBSET Int
<1>1. MaxLevel \in Nat
  BY EmotionAssumption
<1> QED
  BY <1>1 DEF Level

LEMMA ClampedInRange ==
  ASSUME NEW g \in Int, NEW b \in 0 .. MaxLevel
  PROVE  Max({-b, Min({g, b})}) \in Level
<1>1. MaxLevel \in Nat
  BY EmotionAssumption
<1>2. b \in Int /\ -b \in Int
  BY <1>1
<1>3. PICK m \in Int : m = Min({g, b}) /\ m <= b
  BY <1>2, MinOfTwo
<1>4. Max({-b, m}) = IF -b >= m THEN -b ELSE m
  BY <1>2, MaxOfTwo
<1> QED
  BY <1>1, <1>3, <1>4 DEF Level

LEMMA GlobalIsEmotion ==
  ASSUME TypeOK, NEW es \in Seq(Emotion), NEW scored \in Scored,
         DOMAIN scored \subseteq DOMAIN es
  PROVE  Clamped(UpdateGlobal(es, scored)) \in Emotion
<1>1. /\ IsFiniteSet(DOMAIN scored)
      /\ \A i \in DOMAIN scored : scored[i] \in Score /\ es[i] \in Emotion
  <2>1. PICK A \in SUBSET Living(units) : scored \in [A -> Score]
    BY DEF Scored
  <2>2. Len(units) \in Nat /\ A \in SUBSET (1 .. Len(units))
    BY DEF TypeOK, Living
  <2>3. IsFiniteSet(A)
    <3>1. IsFiniteSet(1 .. Len(units))
      BY <2>2, FS_Interval
    <3> QED
      BY <2>2, <3>1, FS_Subset
  <2>4. \A i \in DOMAIN es : es[i] \in Emotion
    OBVIOUS
  <2> QED
    BY <2>1, <2>3, <2>4
<1>2. ASSUME NEW d \in Dim PROVE UpdateGlobal(es, scored)[d] \in Int
  <2> DEFINE felt == [i \in DOMAIN scored |-> Felt[es[i][d]][scored[i]]]
  <2>1. \A i \in DOMAIN scored : felt[i] \in Int
    <3> SUFFICES ASSUME NEW i \in DOMAIN scored PROVE felt[i] \in Int
      OBVIOUS
    <3>1. es[i][d] \in Level /\ scored[i] \in Score
      BY <1>1 DEF Emotion
    <3> QED
      BY <3>1, EmotionAssumption
  <2>2. UpdateGlobal(es, scored)[d] = Faded[global[d]] + SumFunctionOnSet(felt, DOMAIN scored)
    BY DEF UpdateGlobal, SumFunction
  <2> HIDE DEF felt
  <2>3. SumFunctionOnSet(felt, DOMAIN scored) \in Int
    BY <1>1, <2>1, SumIsInt
  <2>4. Faded[global[d]] \in Int
    <3>1. global[d] \in Level
      BY DEF TypeOK, Emotion
    <3>2. Faded[global[d]] \in Level
      BY <3>1, EmotionAssumption
    <3> QED
      BY <3>2, LevelIsInt
  <2> QED
    BY <2>2, <2>3, <2>4
<1> DEFINE g == UpdateGlobal(es, scored)
<1> HIDE DEF g
<1>3. \A d \in Dim : g[d] \in Int
  BY <1>2 DEF g
<1>4. \A d \in Dim : Max({-Bound[d], Min({g[d], Bound[d]})}) \in Level
  BY <1>3, EmotionAssumption, ClampedInRange
<1>5. Clamped(g) \in Emotion
  BY <1>4 DEF Clamped, Emotion
<1> QED
  BY <1>5 DEF g

LEMMA TickTyped ==
  ASSUME TypeOK,
         NEW c \in Class \cup {NoClass}, NEW target \in Emotion, NEW grew \in BOOLEAN,
         NEW best \in 1 .. MaxKernels, NEW scored \in Scored,
         EmotionalTick(c, target, grew, best, scored)
  PROVE  TypeOK'
<1> DEFINE us == Grown(c, grew)
           pushed == Pushed(c, grew)
           es == Trained(pushed, best, target)
<1>1. us \in Seq(Unit) /\ pushed \in Seq(Emotion)
  <2>1. [class |-> c, extinct |-> FALSE] \in Unit
    BY DEF Unit
  <2>2. Indifferent \in Emotion
    BY EmotionAssumption DEF Indifferent, Emotion, Level
  <2> QED
    BY <2>1, <2>2 DEF TypeOK, Grown, Pushed
<1>2. units' \in Seq(Unit)
  <2>1. units' \in [1 .. Len(us) -> Unit]
    BY <1>1 DEF EmotionalTick, Tick
  <2> HIDE DEF us
  <2>2. Len(us) \in Nat
    BY <1>1
  <2> QED
    BY <2>1, <2>2
<1>3. es \in Seq(Emotion)
  <2> HIDE DEF pushed
  <2>1. CASE best \in DOMAIN pushed
    <3>1. pushed[best] \in Emotion
      BY <1>1, <2>1
    <3>2. UpdateKernelVar(pushed[best], target) \in Emotion
      BY <3>1, EmotionAssumption DEF UpdateKernelVar, Emotion
    <3> QED
      BY <1>1, <2>1, <3>2 DEF Trained
  <2>2. CASE best \notin DOMAIN pushed
    BY <1>1, <2>2 DEF Trained
  <2> QED
    BY <2>1, <2>2
<1>4. emotions' = es /\ panicked' \in BOOLEAN
  BY DEF EmotionalTick
<1>5. global' \in Emotion
  <2> DEFINE inRange == {best} \cup DOMAIN scored \subseteq DOMAIN es
  <2>1. global' = IF inRange THEN Clamped(UpdateGlobal(es, scored)) ELSE global
    BY DEF EmotionalTick
  <2> HIDE DEF es
  <2>2. inRange => Clamped(UpdateGlobal(es, scored)) \in Emotion
    BY <1>3, GlobalIsEmotion
  <2> QED
    BY <2>1, <2>2 DEF TypeOK
<1> QED
  BY <1>2, <1>3, <1>4, <1>5 DEF TypeOK

LEMMA CompactTyped ==
  ASSUME TypeOK, NEW kept \in Survivors, Compact(kept)
  PROVE  TypeOK'
<1>1. PICK m \in 0 .. Len(units) : kept \in [1 .. m -> Living(units)]
  BY DEF Survivors, Enumerations
<1>2. m \in Nat /\ \A n \in 1 .. m : kept[n] \in DOMAIN units
  BY <1>1 DEF TypeOK, Living
<1>3. units' \in Seq(Unit)
  <2>1. units' = [n \in 1 .. m |-> units[kept[n]]]
    BY <1>1 DEF Compact, CompactTo, Picked
  <2>2. \A n \in 1 .. m : units[kept[n]] \in Unit
    BY <1>2 DEF TypeOK
  <2> QED
    BY <1>2, <2>1, <2>2
<1>4. emotions' \in Seq(Emotion) /\ panicked' \in BOOLEAN
  <2>1. CASE Range(kept) \subseteq DOMAIN emotions
    <3>1. emotions' = [n \in 1 .. m |-> emotions[kept[n]]] /\ panicked' = panicked
      BY <1>1, <2>1 DEF Compact, Kept, Picked
    <3>2. \A n \in 1 .. m : kept[n] \in DOMAIN emotions
      BY <1>1, <2>1 DEF Range
    <3>3. \A n \in 1 .. m : emotions[kept[n]] \in Emotion
      BY <3>2 DEF TypeOK
    <3>4. emotions' \in Seq(Emotion)
      BY <1>2, <3>1, <3>3
    <3> QED
      BY <3>1, <3>4 DEF TypeOK
  <2>2. CASE ~(Range(kept) \subseteq DOMAIN emotions)
    BY <2>2 DEF Compact, TypeOK
  <2> QED
    BY <2>1, <2>2
<1> QED
  BY <1>3, <1>4 DEF TypeOK, Compact

LEMMA NextTyped == TypeOK /\ [EmotionalNext]_vars => TypeOK'
<1> SUFFICES ASSUME TypeOK, [EmotionalNext]_vars PROVE TypeOK'
  OBVIOUS
<1>1. ASSUME NEW i \in DOMAIN units, Extinguish(i) PROVE TypeOK'
  <2>1. units[i] \in Unit /\ units' = [units EXCEPT ![i] = [units[i] EXCEPT !.extinct = TRUE]]
    BY <1>1 DEF TypeOK, Extinguish, MarkExtinct
  <2>2. [units[i] EXCEPT !.extinct = TRUE] \in Unit
    BY <2>1 DEF Unit
  <2>3. units' \in Seq(Unit)
    BY <2>1, <2>2 DEF TypeOK
  <2> QED
    BY <1>1, <2>3 DEF TypeOK, Extinguish
<1>2. CASE UNCHANGED vars
  BY <1>2 DEF vars, TypeOK
<1> QED
  BY <1>1, <1>2, TickTyped, CompactTyped DEF EmotionalNext

(***************************************************************************)
(* Whatever the tables of the model and however many kernels are scored,   *)
(* an emotion stays between the extremes and the global state within the   *)
(* levels: in a graph made by new, and in one made by with_store, whose    *)
(* panics leave no half-made state.                                        *)
(***************************************************************************)
THEOREM EmotionTypeCorrect == EmotionalSpec => []TypeOK
<1>1. New => TypeOK
  <2>1. Indifferent \in Emotion
    BY EmotionAssumption DEF Indifferent, Emotion, Level
  <2>2. New => panicked \in BOOLEAN
    BY DEF New
  <2>3. New => units \in Seq(Unit) /\ emotions \in Seq(Emotion) /\ global = Indifferent
    BY DEF New, Init
  <2> QED
    BY <2>1, <2>2, <2>3 DEF TypeOK
<1> QED
  BY <1>1, NextTyped, PTL DEF EmotionalSpec

THEOREM EmotionStoreTypeCorrect == StoreSpec => []TypeOK
<1>1. WithStore => TypeOK
  <2>1. Indifferent \in Emotion
    BY EmotionAssumption DEF Indifferent, Emotion, Level
  <2>2. WithStore => units \in Seq(Unit)
    <3> SUFFICES ASSUME WithStore PROVE units \in Seq(Unit)
      OBVIOUS
    <3>1. PICK n \in 0 .. MaxKernels : units \in [1 .. n -> Unit]
      BY DEF WithStore
    <3>2. n \in Nat
      BY <3>1
    <3> QED
      BY <3>1, <3>2
  <2>3. WithStore => emotions \in Seq(Emotion) /\ global = Indifferent
    BY DEF WithStore
  <2>4. WithStore => panicked \in BOOLEAN
    BY DEF WithStore
  <2> QED
    BY <2>1, <2>2, <2>3, <2>4 DEF TypeOK
<1> QED
  BY <1>1, NextTyped, PTL DEF StoreSpec

(***************************************************************************)
(* No method of a graph made by new ever indexes past the emotions.        *)
(***************************************************************************)
THEOREM EmotionNeverPanics == EmotionalSpec => [](~panicked)
<1>1. New => ~panicked
  BY DEF New
<1>2. IInv /\ ~panicked /\ [EmotionalNext]_vars => ~panicked'
  <2> SUFFICES ASSUME IInv, ~panicked, [EmotionalNext]_vars PROVE ~panicked'
    OBVIOUS
  <2>1. ASSUME NEW c \in Class \cup {NoClass}, NEW target \in Emotion, NEW grew \in BOOLEAN,
               NEW best \in 1 .. MaxKernels, NEW scored \in Scored,
               EmotionalTick(c, target, grew, best, scored)
        PROVE  ~panicked'
    <3> DEFINE us == Grown(c, grew)
               es == Trained(Pushed(c, grew), best, target)
    <3>1. DOMAIN es = DOMAIN us /\ DOMAIN units \subseteq DOMAIN us
      <4>1. DOMAIN Pushed(c, grew) = DOMAIN us /\ DOMAIN units \subseteq DOMAIN us
        BY DEF IInv, EmotionsParallel, Pushed, Grown
      <4>2. \A xs : DOMAIN Trained(xs, best, target) = DOMAIN xs
        BY DEF Trained
      <4> QED
        BY <4>1, <4>2
    <3>2. best \in DOMAIN us /\ DOMAIN units' = DOMAIN us
      BY <2>1 DEF EmotionalTick, Tick, Living
    <3>3. DOMAIN scored \subseteq DOMAIN units
      BY DEF Scored, Living
    <3>4. SalienceReads \subseteq DOMAIN units'
      BY DEF SalienceReads
    <3>5. panicked' = ~(/\ {best} \cup DOMAIN scored \subseteq DOMAIN es
                        /\ SalienceReads \subseteq DOMAIN es)
      BY <2>1 DEF EmotionalTick
    <3> HIDE DEF us, es
    <3> QED
      BY <3>1, <3>2, <3>3, <3>4, <3>5
  <2>2. ASSUME NEW kept \in Survivors, Compact(kept)
        PROVE  ~panicked'
    <3>1. Range(kept) \subseteq DOMAIN emotions
      BY DEF Survivors, Enumerations, IsEnumeration, IInv, EmotionsParallel, Living
    <3> QED
      BY <2>2, <3>1 DEF Compact
  <2> QED
    BY <2>1, <2>2 DEF EmotionalNext, Extinguish, vars
<1> QED
  BY <1>1, <1>2, EmotionalInvariant, PTL DEF EmotionalSpec

(***************************************************************************)
(* Renumbering.                                                            *)
(***************************************************************************)
\* A compaction that keeps fewer kernels hands on the emotions of those it keeps.
LEMMA CompactHandsOn ==
  ASSUME IInv, NEW kept \in Survivors, Compact(kept)
  PROVE  /\ \A i \in Living(units) : emotions'[NewIndex(i)] = emotions[i]
         /\ Len(units') < Len(units)
<1>1. /\ Len(units) \in Nat /\ DOMAIN units = 1 .. Len(units)
      /\ Living(units) \in SUBSET (1 .. Len(units))
  BY DEF IInv, Living
<1>2. PICK m \in 0 .. Len(units) :
        /\ kept \in [1 .. m -> Living(units)]
        /\ \A i \in Living(units) : \E n \in 1 .. m :
             kept[n] = i /\ Cardinality({j \in Living(units) : j <= i}) = n
  <2> DEFINE N == Len(units)
             L == Living(units)
  <2>1. kept \in Enumerations(L, N) /\ N \in Nat /\ L \in SUBSET (1 .. N)
    BY <1>1 DEF Survivors
  <2> HIDE DEF N, L
  <2> QED
    BY <2>1, KeptRank DEF N, L
<1>3. Range(kept) \subseteq DOMAIN emotions
  BY <1>1, <1>2 DEF Range, IInv, EmotionsParallel
<1>4. /\ emotions' = [n \in 1 .. m |-> emotions[kept[n]]]
      /\ units' = [n \in 1 .. m |-> units[kept[n]]]
  BY <1>2, <1>3 DEF Compact, CompactTo, Kept, Picked
<1>5. \A i \in Living(units) : emotions'[NewIndex(i)] = emotions[i]
  BY <1>2, <1>4 DEF NewIndex
<1>6. Len(units') = m
  BY <1>1, <1>2, <1>4
<1>7. m # Len(units)
  <2> SUFFICES ASSUME m = Len(units) PROVE FALSE
    OBVIOUS
  <2>1. PICK x \in 1 .. m : x \notin Living(units)
    BY <1>1 DEF Compact
  <2>2. kept \in Injection(1 .. m, 1 .. m)
    <3>1. kept \in [1 .. m -> 1 .. m]
      BY <1>1, <1>2
    <3>2. \A p, q \in 1 .. m : p < q => kept[p] < kept[q]
      BY <1>2 DEF Survivors, Enumerations, IsEnumeration
    <3>3. \A p, q \in 1 .. m : kept[p] = kept[q] => p = q
      BY <1>1, <3>1, <3>2
    <3> QED
      BY <3>1, <3>3 DEF Injection, IsInjective
  <2>3. IsFiniteSet(1 .. m)
    BY <1>1, FS_Interval
  <2>4. kept \in Surjection(1 .. m, 1 .. m)
    BY <2>2, <2>3, FS_Injection
  <2> QED
    BY <1>2, <2>1, <2>4 DEF Surjection
<1>8. m < Len(units)
  <2> DEFINE N == Len(units)
  <2>1. N \in Nat /\ m \in 0 .. N /\ m # N
    BY <1>1, <1>2, <1>7
  <2> HIDE DEF N
  <2>2. m < N
    BY <2>1
  <2> QED
    BY <2>2 DEF N
<1> QED
  BY <1>5, <1>6, <1>8

\* A tick trains the winner only, which is live when it ends.
LEMMA TickTrainsLiving ==
  ASSUME IInv,
         NEW c \in Class \cup {NoClass}, NEW target \in Emotion, NEW grew \in BOOLEAN,
         NEW best \in 1 .. MaxKernels, NEW scored \in Scored,
         EmotionalTick(c, target, grew, best, scored)
  PROVE  /\ Len(units') >= Len(units)
         /\ \A i \in DOMAIN units \ Living(units') : emotions'[i] = emotions[i]
<1> DEFINE us == Grown(c, grew)
           es == Pushed(c, grew)
<1>1. /\ Len(us) \in Nat /\ Len(us) >= Len(units) /\ DOMAIN us = 1 .. Len(us)
      /\ DOMAIN units = DOMAIN emotions
      /\ DOMAIN es = DOMAIN us /\ \A i \in DOMAIN emotions : es[i] = emotions[i]
  BY DEF IInv, EmotionsParallel, Grown, Pushed
<1>2. units' \in [DOMAIN us -> Unit] /\ best \in Living(units')
      /\ emotions' = Trained(es, best, target)
  BY DEF EmotionalTick, Tick
<1> HIDE DEF us, es
<1>3. Len(units') = Len(us)
  BY <1>1, <1>2
<1>4. \A i \in DOMAIN es : i # best => Trained(es, best, target)[i] = es[i]
  BY DEF Trained
<1>5. \A i \in DOMAIN units \ Living(units') : i # best /\ i \in DOMAIN es
  BY <1>1, <1>2 DEF IInv
<1> QED
  BY <1>1, <1>2, <1>3, <1>4, <1>5 DEF IInv

(***************************************************************************)
(* Emotions belong to kernels: through every compaction each survivor keeps*)
(* its own, and no tick trains a kernel that is extinct when it ends.      *)
(***************************************************************************)
THEOREM EmotionFollowsKernel == EmotionalSpec => FeelingsFollowKernels
<1> DEFINE Follow ==
      IF Len(units') < Len(units)
      THEN \A i \in Living(units) : emotions'[NewIndex(i)] = emotions[i]
      ELSE \A i \in DOMAIN units \ Living(units') : emotions'[i] = emotions[i]
<1>1. ASSUME IInv, [EmotionalNext]_vars PROVE [Follow]_vars
  <2>1. Len(units) \in Nat
    BY <1>1 DEF IInv
  <2>2. ASSUME NEW c \in Class \cup {NoClass}, NEW target \in Emotion, NEW grew \in BOOLEAN,
               NEW best \in 1 .. MaxKernels, NEW scored \in Scored,
               EmotionalTick(c, target, grew, best, scored)
        PROVE  Follow
    <3>1. /\ Len(units') >= Len(units)
          /\ \A i \in DOMAIN units \ Living(units') : emotions'[i] = emotions[i]
      BY <1>1, <2>2, TickTrainsLiving
    <3>2. IInv'
      BY <1>1, <2>2, TickKeeps
    <3>3. ~(Len(units') < Len(units))
      BY <2>1, <3>1, <3>2 DEF IInv
    <3> QED
      BY <3>1, <3>3
  <2>3. ASSUME NEW kept \in Survivors, Compact(kept)
        PROVE  Follow
    BY <1>1, <2>3, CompactHandsOn
  <2>4. ASSUME NEW i \in DOMAIN units, Extinguish(i)
        PROVE  Follow
    <3>1. emotions' = emotions /\ units' = [units EXCEPT ![i].extinct = TRUE]
      BY <2>4 DEF Extinguish, MarkExtinct
    <3>2. Len(units') = Len(units)
      BY <1>1, <3>1 DEF IInv
    <3> QED
      BY <2>1, <3>1, <3>2
  <2> HIDE DEF Follow
  <2> QED
    BY <1>1, <2>2, <2>3, <2>4 DEF EmotionalNext
<1> QED
  BY <1>1, EmotionalInvariant, PTL DEF EmotionalSpec, FeelingsFollowKernels

(***************************************************************************)
(* A tick lets the global state only decay if no kernel that was live when *)
(* it began, nor the winner, feels anything when it ends: whatever extinct *)
(* kernels have felt, and whatever scored.  Recovers rests on this step.   *)
(***************************************************************************)
CalmFades ==
  [][Len(units') >= Len(units)
     /\ (\A i \in Living(units) \cup Living(units') : emotions'[i] = Indifferent)
       => \A d \in Dim : global'[d] \in Between(0, global[d])]_vars

LEMMA ClampTowardZero ==
  ASSUME NEW g \in Int, NEW h \in Int, NEW b \in Nat, h \in Between(0, g)
  PROVE  Max({-b, Min({h, b})}) \in Between(0, g)
<1>1. PICK m \in Int : m = Min({h, b}) /\ m = IF h <= b THEN h ELSE b
  BY MinOfTwo
<1>2. Max({-b, m}) = IF -b >= m THEN -b ELSE m
  BY MaxOfTwo
<1>3. h \in Int /\ ((0 <= h /\ h <= g) \/ (g <= h /\ h <= 0))
  BY DEF Between
<1> DEFINE r == IF -b >= m THEN -b ELSE m
<1>4. r \in Int /\ ((0 <= r /\ r <= h) \/ (h <= r /\ r <= 0))
  BY <1>1, <1>3
<1> HIDE DEF r
<1>5. r \in Between(0, g)
  BY <1>3, <1>4 DEF Between
<1> QED
  BY <1>1, <1>2, <1>5 DEF r

LEMMA TickFades ==
  ASSUME IInv, TypeOK, ~panicked',
         NEW c \in Class \cup {NoClass}, NEW target \in Emotion, NEW grew \in BOOLEAN,
         NEW best \in 1 .. MaxKernels, NEW scored \in Scored,
         EmotionalTick(c, target, grew, best, scored),
         \A i \in Living(units) \cup Living(units') : emotions'[i] = Indifferent
  PROVE  \A d \in Dim : global'[d] \in Between(0, global[d])
<1>1. PICK A \in SUBSET Living(units) : scored \in [A -> Score]
  BY DEF Scored
<1>2. IsFiniteSet(A)
  <2>1. Len(units) \in Nat /\ A \in SUBSET (1 .. Len(units))
    BY <1>1 DEF IInv, Living
  <2>2. IsFiniteSet(1 .. Len(units))
    BY <2>1, FS_Interval
  <2> QED
    BY <2>1, <2>2, FS_Subset
<1>3. global' = Clamped(UpdateGlobal(emotions', scored))
  BY DEF EmotionalTick
<1> SUFFICES ASSUME NEW d \in Dim PROVE global'[d] \in Between(0, global[d])
  OBVIOUS
<1> DEFINE felt == [i \in DOMAIN scored |-> Felt[emotions'[i][d]][scored[i]]]
<1>4. \A i \in A : felt[i] = 0
  <2> SUFFICES ASSUME NEW i \in A PROVE felt[i] = 0
    OBVIOUS
  <2>1. emotions'[i][d] = 0 /\ scored[i] \in Score
    BY <1>1 DEF Indifferent
  <2> QED
    BY <1>1, <2>1, EmotionAssumption
<1>5. UpdateGlobal(emotions', scored)[d] = Faded[global[d]] + SumFunctionOnSet(felt, A)
  BY <1>1 DEF UpdateGlobal, SumFunction
<1> HIDE DEF felt
<1>6. SumFunctionOnSet(felt, A) = 0
  BY <1>2, <1>4, SumOfZeros
<1>7. global[d] \in Level /\ Faded[global[d]] \in Level /\ Faded[global[d]] \in Between(0, global[d])
  <2>1. global[d] \in Level
    BY DEF TypeOK, Emotion
  <2> QED
    BY <2>1, EmotionAssumption
<1>8. global[d] \in Int /\ Faded[global[d]] \in Int /\ Bound[d] \in Nat
  <2>1. Bound[d] \in Nat
    BY EmotionAssumption
  <2>2. global[d] \in Int /\ Faded[global[d]] \in Int
    BY <1>7, LevelIsInt
  <2> QED
    BY <2>1, <2>2
<1>9. UpdateGlobal(emotions', scored)[d] = Faded[global[d]]
  BY <1>5, <1>6, <1>8
<1>10. global'[d] = Max({-Bound[d], Min({Faded[global[d]], Bound[d]})})
  BY <1>3, <1>9 DEF Clamped
<1> QED
  BY <1>7, <1>8, <1>10, ClampTowardZero

THEOREM EmotionCalmFades == EmotionalSpec => CalmFades
<1> DEFINE Fades ==
      Len(units') >= Len(units)
      /\ (\A i \in Living(units) \cup Living(units') : emotions'[i] = Indifferent)
        => \A d \in Dim : global'[d] \in Between(0, global[d])
<1>1. ASSUME IInv, TypeOK, ~panicked', [EmotionalNext]_vars PROVE [Fades]_vars
  <2>1. global' = global => Fades
    <3>1. \A d \in Dim : global[d] \in Int
      <4>1. \A d \in Dim : global[d] \in Level
        BY <1>1 DEF TypeOK, Emotion
      <4> QED
        BY <4>1, LevelIsInt
    <3>2. \A d \in Dim : global[d] \in Between(0, global[d])
      BY <3>1 DEF Between
    <3> QED
      BY <3>2
  <2>2. ASSUME NEW c \in Class \cup {NoClass}, NEW target \in Emotion, NEW grew \in BOOLEAN,
               NEW best \in 1 .. MaxKernels, NEW scored \in Scored,
               EmotionalTick(c, target, grew, best, scored)
        PROVE  Fades
    BY <1>1, <2>2, TickFades
  <2> HIDE DEF Fades
  <2> QED
    BY <1>1, <2>1, <2>2 DEF EmotionalNext, Compact, Extinguish
<1> QED
  BY <1>1, EmotionalInvariant, EmotionTypeCorrect, EmotionNeverPanics, PTL DEF EmotionalSpec, CalmFades
=============================================================================
