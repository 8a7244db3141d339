------------------------- MODULE KernelGraphProofs --------------------------
(***************************************************************************)
(* What holds of a kernel graph between any two calls, for any number of   *)
(* kernels, inputs and labels, any table of activations and any            *)
(* configuration.  In this order: the kernels, the scratch and the cache   *)
(* (IInv); the abstract vector it implements; growth; everything that      *)
(* holds kernel positions (KInv); what a tick and a compaction do to it;   *)
(* the queries; and that tick and compact are functions.                   *)
(***************************************************************************)
EXTENDS KernelQuery, SokmProofs, FiniteProofs, SequenceTheorems

(***************************************************************************)
(* The steps that rewrite single kernels: none of them moves a kernel, its *)
(* centroid, or the label of a labelled kernel, and none touches a kernel  *)
(* that is extinct.                                                        *)
(***************************************************************************)
Continues(ks, new) ==
  /\ new \in Seq(Kernel) /\ Len(new) = Len(ks)
  /\ \A i \in 1 .. Len(ks) :
       /\ new[i].centroid = ks[i].centroid
       /\ ks[i].class # NoClass => new[i].class = ks[i].class
       /\ ks[i].extinct => new[i] = ks[i]

LEMMA SeqShape ==
  ASSUME NEW ks \in Seq(Kernel)
  PROVE  /\ Len(ks) \in Nat /\ DOMAIN ks = 1 .. Len(ks)
         /\ \A i \in 1 .. Len(ks) : ks[i] \in Kernel
OBVIOUS

LEMMA SeqMade ==
  ASSUME NEW S, NEW n \in Nat, NEW f \in [1 .. n -> S]
  PROVE  f \in Seq(S) /\ Len(f) = n
OBVIOUS

LEMMA WonIsKernel ==
  ASSUME NEW k \in Kernel, NEW t \in Nat, NEW e \in Nat
  PROVE  [k EXCEPT !.excitation = e, !.last = t] \in Kernel
BY DEF Kernel

LEMMA WinContinues ==
  ASSUME NEW ks \in Seq(Kernel), NEW best \in 1 .. Len(ks), ~ks[best].extinct,
         NEW t \in Nat
  PROVE  /\ Continues(ks, Win(ks, best, t))
         /\ ~Win(ks, best, t)[best].extinct /\ Win(ks, best, t)[best].last = t
         /\ \A i \in 1 .. Len(ks) : Win(ks, best, t)[i].extinct = ks[i].extinct
<1> DEFINE e == IF ks[best].excitation < MaxExcitation THEN ks[best].excitation + 1
                ELSE ks[best].excitation
           won == [ks[best] EXCEPT !.excitation = e, !.last = t]
           new == Win(ks, best, t)
<1>1. ks \in [1 .. Len(ks) -> Kernel]
  BY SeqShape
<1>2. new = [ks EXCEPT ![best] = won]
  BY DEF Win
<1>3. best \in 1 .. Len(ks) => won \in Kernel
  <2>1. best \in 1 .. Len(ks) => ks[best] \in Kernel
    BY SeqShape
  <2>2. best \in 1 .. Len(ks) => e \in Nat
    <3>1. best \in 1 .. Len(ks) => ks[best].excitation \in Nat
      BY <2>1 DEF Kernel
    <3> QED
      BY <3>1
  <2> QED
    BY <2>1, <2>2, WonIsKernel
<1>4. /\ won.centroid = ks[best].centroid
      /\ won.class = ks[best].class
      /\ won.extinct = ks[best].extinct
      /\ won.last = t
  <2>1. ks[best] \in Kernel
    BY SeqShape
  <2> QED
    BY <2>1 DEF Kernel
<1> HIDE DEF e, won, new
<1>5. new \in [1 .. Len(ks) -> Kernel]
  BY <1>1, <1>2, <1>3
<1>6. new \in Seq(Kernel) /\ Len(new) = Len(ks)
  BY <1>5, SeqShape, SeqMade
<1>7. \A i \in 1 .. Len(ks) : new[i] = IF i = best THEN won ELSE ks[i]
  BY <1>1, <1>2
<1>8. Continues(ks, new)
  BY <1>4, <1>6, <1>7 DEF Continues
<1> QED
  BY <1>4, <1>7, <1>8 DEF new

LEMMA LabelledContinues ==
  ASSUME NEW ks \in Seq(Kernel), NEW D, \A i \in D : ~ks[i].extinct,
         NEW label \in [{i \in D : ks[i].class = NoClass} -> Label]
  PROVE  /\ Continues(ks, Labelled(ks, label))
         /\ \A i \in 1 .. Len(ks) :
              /\ Labelled(ks, label)[i].extinct = ks[i].extinct
              /\ Labelled(ks, label)[i].last = ks[i].last
<1> DEFINE new == Labelled(ks, label)
<1>1. new \in [1 .. Len(ks) -> Kernel]
  BY SeqShape DEF Labelled, Kernel
<1>2. \A i \in 1 .. Len(ks) :
        /\ new[i].centroid = ks[i].centroid
        /\ ks[i].class # NoClass => new[i].class = ks[i].class
        /\ new[i].extinct = ks[i].extinct /\ new[i].last = ks[i].last
        /\ ks[i].extinct => new[i] = ks[i]
  BY SeqShape DEF Labelled, Kernel
<1> HIDE DEF new
<1>3. new \in Seq(Kernel) /\ Len(new) = Len(ks)
  BY <1>1, SeqShape, SeqMade
<1> QED
  BY <1>2, <1>3 DEF Continues, new

\* Whatever is live after the pass of Rule 3 has been active recently.
LEMMA ExtinguishContinues ==
  ASSUME NEW ks \in Seq(Kernel), NEW t \in Nat
  PROVE  /\ Continues(ks, Extinguish(ks, t))
         /\ \A i \in 1 .. Len(ks) :
              /\ ~Extinguish(ks, t)[i].extinct /\ P1Kernel # Never
                   => Elapsed(t, Extinguish(ks, t)[i].last) <= P1Kernel
              /\ ~ks[i].extinct /\ ks[i].last = t => ~Extinguish(ks, t)[i].extinct
              /\ Extinguish(ks, t)[i].extinct
                   => \/ ks[i].extinct
                      \/ P1Kernel # Never /\ Elapsed(t, Extinguish(ks, t)[i].last) > P1Kernel
<1> DEFINE new == Extinguish(ks, t)
<1>1. new \in [1 .. Len(ks) -> Kernel]
  BY SeqShape DEF Extinguish, Kernel
<1>2. \A i \in 1 .. Len(ks) :
        /\ new[i].centroid = ks[i].centroid
        /\ new[i].class = ks[i].class
        /\ new[i].last = ks[i].last
        /\ ks[i].extinct => new[i] = ks[i]
        /\ Inactive(ks[i], t) => new[i].extinct
        /\ ~Inactive(ks[i], t) => new[i] = ks[i]
  BY SeqShape DEF Extinguish, Kernel
<1> HIDE DEF new
<1>3. ASSUME NEW i \in 1 .. Len(ks), ~new[i].extinct, P1Kernel # Never
      PROVE  Elapsed(t, new[i].last) <= P1Kernel
  <2>1. ~(Elapsed(t, ks[i].last) > P1Kernel)
    BY <1>2, <1>3 DEF Inactive
  <2>2. Elapsed(t, ks[i].last) \in Nat /\ P1Kernel \in Nat
    <3>1. ks[i] \in Kernel
      BY SeqShape
    <3>2. ks[i].last \in Nat
      BY <3>1 DEF Kernel
    <3>3. P1Kernel \in Nat
      BY <1>3, KernelConfigAssumption
    <3> QED
      BY <3>2, <3>3 DEF Elapsed
  <2> QED
    <3>1. new[i].last = ks[i].last
      BY <1>2
    <3>2. \A a, b \in Nat : ~(a > b) => a <= b
      OBVIOUS
    <3> QED
      BY <2>1, <2>2, <3>1, <3>2
<1>4. ASSUME NEW i \in 1 .. Len(ks), ~ks[i].extinct, ks[i].last = t
      PROVE  ~new[i].extinct
  <2>1. Elapsed(t, ks[i].last) = 0
    BY <1>4 DEF Elapsed
  <2>2. ~Inactive(ks[i], t)
    BY <2>1, KernelConfigAssumption DEF Inactive
  <2> QED
    BY <1>2, <1>4, <2>2
<1>5. new \in Seq(Kernel) /\ Len(new) = Len(ks)
  BY <1>1, SeqShape, SeqMade
<1>6. Continues(ks, new)
  BY <1>2, <1>5 DEF Continues
<1>7. \A i \in 1 .. Len(ks) :
        new[i].extinct
          => ks[i].extinct \/ (P1Kernel # Never /\ Elapsed(t, new[i].last) > P1Kernel)
  BY <1>2 DEF Inactive
<1> QED
  BY <1>3, <1>4, <1>6, <1>7 DEF new

LEMMA ContinuesTransitive ==
  ASSUME NEW ks, NEW mid, NEW new, Continues(ks, mid), Continues(mid, new)
  PROVE  Continues(ks, new)
BY DEF Continues

LEMMA AppendContinues ==
  ASSUME NEW ks \in Seq(Kernel), NEW k \in Kernel
  PROVE  /\ Append(ks, k) \in Seq(Kernel) /\ Len(Append(ks, k)) = Len(ks) + 1
         /\ \A i \in 1 .. Len(ks) : Append(ks, k)[i] = ks[i]
         /\ Append(ks, k)[Len(ks) + 1] = k
OBVIOUS

(***************************************************************************)
(* The centroid cache and the scores.                                      *)
(***************************************************************************)
LEMMA CachedIsCentroids ==
  ASSUME CacheCoherent
  PROVE  Cached = Centroids
BY DEF CacheCoherent, Cached

LEMMA ScoresExact ==
  ASSUME kernels \in Seq(Kernel), CacheCoherent, NEW x \in Input
  PROVE  /\ Scores(x) \in [1 .. Len(kernels) -> Score \cup {0}]
         /\ \A i \in 1 .. Len(kernels) :
              Scores(x)[i] = IF kernels[i].extinct THEN 0 ELSE Sim[x][kernels[i].centroid]
<1>1. Scores(x) = [i \in 1 .. Len(kernels) |->
                     IF kernels[i].extinct THEN 0 ELSE Sim[x][kernels[i].centroid]]
  BY CachedIsCentroids, SeqShape DEF Scores, Centroids
<1>2. \A i \in 1 .. Len(kernels) : kernels[i].centroid \in Input
  BY SeqShape DEF Kernel
<1>3. \A y \in Input : Sim[x][y] \in Score \cup {0}
  BY KernelConfigAssumption
<1> QED
  BY <1>1, <1>2, <1>3

(***************************************************************************)
(* A clean scratch spreads nothing from nothing: the graph grows exactly   *)
(* when no live kernel fires.                                              *)
(***************************************************************************)
Grew(x) == ~Excited(Scores(x), Spread(Scores(x)))

LEMMA ResizedClean ==
  ASSUME ScratchClean
  PROVE  \A j \in DOMAIN Resized : Resized[j] = 0
BY DEF ScratchClean, Resized

LEMMA GrewIffNoneFires ==
  ASSUME kernels \in Seq(Kernel), CacheCoherent, ScratchClean, NEW x \in Input
  PROVE  Grew(x) <=> Fired(Scores(x)) = {}
<1> DEFINE sc == Scores(x)
<1>1. DOMAIN sc = 1 .. Len(kernels) /\ DOMAIN kernels = 1 .. Len(kernels)
  BY ScoresExact, SeqShape
<1>2. ASSUME Fired(sc) = {}
      PROVE  ~Excited(sc, Spread(sc))
  <2>1. Touched(sc) = {}
    BY <1>2 DEF Touched
  <2>2. Spread(sc) = [j \in DOMAIN Resized |-> Resized[j]]
    BY <2>1 DEF Spread
  <2>3. \A i \in DOMAIN sc : Spread(sc)[i] = 0
    BY <1>1, <2>2, ResizedClean DEF Resized
  <2>4. ~(0 >= Theta)
    BY KernelConfigAssumption
  <2> QED
    BY <1>2, <2>3, <2>4 DEF Excited, Fired
<1>3. ASSUME Fired(sc) # {}
      PROVE  Excited(sc, Spread(sc))
  BY <1>3 DEF Excited, Fired
<1> QED
  BY <1>2, <1>3 DEF Grew

(***************************************************************************)
(* max_by over the scores and min_by over the memory find what they look   *)
(* for.                                                                    *)
(***************************************************************************)
LEMMA BestMatchWins ==
  ASSUME NEW n \in Nat \ {0}, NEW sc \in [1 .. n -> Nat]
  PROVE  /\ BestMatch(sc) \in 1 .. n
         /\ \A j \in 1 .. n : sc[j] <= sc[BestMatch(sc)]
<1> DEFINE S == 1 .. n
           beats(i, j) == sc[i] > sc[j] \/ (sc[i] = sc[j] /\ i > j)
           R == {p \in S \X S : beats(p[1], p[2])}
<1>1. \A i, j \in S : <<i, j>> \in R <=> beats(i, j)
  OBVIOUS
<1>2. \A i \in S : sc[i] \in Nat /\ i \in Nat
  OBVIOUS
<1>3. \A i, j, k \in S : beats(i, j) /\ beats(j, k) => beats(i, k)
  BY <1>2
<1>4. \A i \in S : ~beats(i, i)
  BY <1>2
<1>5. IsFiniteSet(S) /\ S # {} /\ S = DOMAIN sc
  <2>1. 1 \in S /\ n \in Int /\ 1 \in Int
    OBVIOUS
  <2>2. IsFiniteSet(S)
    BY <2>1, FS_Interval
  <2> QED
    BY <2>1, <2>2
<1> HIDE DEF R, S
<1>6. PICK m \in S : \A j \in S : ~beats(j, m)
  <2> HIDE DEF beats
  <2>1. \A i \in S : <<i, i>> \notin R
    BY <1>1, <1>4
  <2>2. \A i, j, k \in S : <<i, j>> \in R /\ <<j, k>> \in R => <<i, k>> \in R
    BY <1>1, <1>3
  <2>3. \E m \in S : \A j \in S : <<j, m>> \notin R
    BY <1>5, <2>1, <2>2, FirstExists
  <2> QED
    BY <1>1, <2>3
<1>7. \A j \in S : sc[j] < sc[m] \/ (sc[j] = sc[m] /\ j <= m)
  BY <1>2, <1>6
<1>8. /\ BestMatch(sc) \in S
      /\ \A j \in S : sc[j] < sc[BestMatch(sc)] \/ (sc[j] = sc[BestMatch(sc)] /\ j <= BestMatch(sc))
  BY <1>5, <1>7 DEF BestMatch
<1> QED
  BY <1>2, <1>8 DEF S

LEMMA EvictPosHeld ==
  ASSUME NEW ks \in Seq(Kernel), stm \in Seq(1 .. Len(ks)), stm # <<>>
  PROVE  /\ EvictPos(ks) \in 1 .. Len(stm)
         /\ \A q \in 1 .. Len(stm) :
              ks[stm[EvictPos(ks)]].excitation <= ks[stm[q]].excitation
<1> DEFINE S == 1 .. Len(stm)
           e(p) == ks[stm[p]].excitation
           before(p, q) == e(p) < e(q) \/ (e(p) = e(q) /\ p < q)
           R == {p \in S \X S : before(p[1], p[2])}
<1>1. \A i, j \in S : <<i, j>> \in R <=> before(i, j)
  OBVIOUS
<1>2. \A p \in S : e(p) \in Nat /\ p \in Nat
  <2>1. \A p \in S : stm[p] \in 1 .. Len(ks) /\ p \in Nat
    OBVIOUS
  <2>2. \A i \in 1 .. Len(ks) : ks[i].excitation \in Nat
    BY SeqShape DEF Kernel
  <2> QED
    BY <2>1, <2>2
<1>3. IsFiniteSet(S) /\ S # {} /\ S = DOMAIN stm
  <2>1. Len(stm) \in Nat \ {0} /\ S = DOMAIN stm
    BY EmptySeq
  <2>2. IsFiniteSet(S)
    BY <2>1, FS_Interval
  <2>3. 1 \in S
    BY <2>1
  <2> QED
    BY <2>1, <2>2, <2>3
<1> HIDE DEF S, e, R
<1>4. \A i, j, k \in S : before(i, j) /\ before(j, k) => before(i, k)
  BY <1>2
<1>5. \A i \in S : ~before(i, i)
  BY <1>2
<1>6. PICK m \in S : \A j \in S : ~before(j, m)
  <2> HIDE DEF before
  <2>1. \A i \in S : <<i, i>> \notin R
    BY <1>1, <1>5
  <2>2. \A i, j, k \in S : <<i, j>> \in R /\ <<j, k>> \in R => <<i, k>> \in R
    BY <1>1, <1>4
  <2>3. \E m \in S : \A j \in S : <<j, m>> \notin R
    BY <1>3, <2>1, <2>2, FirstExists
  <2> QED
    BY <1>1, <2>3
<1>7. \A q \in S : e(m) < e(q) \/ (e(m) = e(q) /\ m <= q)
  BY <1>2, <1>6
<1>8. EvictPos(ks) \in S /\ \A q \in S : e(EvictPos(ks)) < e(q) \/ e(EvictPos(ks)) = e(q)
  BY <1>3, <1>7 DEF EvictPos, e
<1>9. \A q \in S : e(EvictPos(ks)) <= e(q)
  BY <1>2, <1>8
<1> QED
  BY <1>8, <1>9 DEF S, e

LEMMA WinnerIsLive ==
  ASSUME kernels \in Seq(Kernel), CacheCoherent, ScratchClean, NEW x \in Input,
         ~Grew(x)
  PROVE  BestMatch(Scores(x)) \in Live /\ Scores(x)[BestMatch(Scores(x))] >= Theta
<1> DEFINE sc == Scores(x)
           best == BestMatch(sc)
<1>1. sc \in [1 .. Len(kernels) -> Nat]
  <2>1. Score \cup {0} \subseteq Nat
    BY ConfigAssumption
  <2> QED
    BY <2>1, ScoresExact
<1>2. PICK i \in 1 .. Len(kernels) : sc[i] >= Theta
  BY <1>1, GrewIffNoneFires DEF Fired
<1>3. Len(kernels) \in Nat \ {0}
  BY <1>2, SeqShape
<1>4. best \in 1 .. Len(kernels) /\ sc[i] <= sc[best]
  <2> HIDE DEF sc
  <2> QED
    BY <1>1, <1>2, <1>3, BestMatchWins
<1>5. sc[i] \in Nat /\ sc[best] \in Nat
  BY <1>1, <1>2, <1>4
<1>6. sc[best] # 0
  <2> HIDE DEF sc, best
  <2> QED
    BY <1>2, <1>4, <1>5, KernelConfigAssumption
<1>7. ~kernels[best].extinct
  BY <1>4, <1>6, ScoresExact
<1>8. sc[best] >= Theta
  <2> HIDE DEF sc, best
  <2> QED
    BY <1>2, <1>4, <1>5, KernelConfigAssumption
<1> QED
  BY <1>4, <1>7, <1>8, SeqShape DEF Live

(***************************************************************************)
(* The stages of a tick, by name.                                          *)
(***************************************************************************)
GrownKernels(x, c, t) ==
  IF Grew(x) THEN Append(kernels, NewKernel(x, c, t)) ELSE kernels

Best(x) == IF Grew(x) THEN Len(kernels) + 1 ELSE BestMatch(Scores(x))

Won(x, c, t) == Win(GrownKernels(x, c, t), Best(x), t)

Act(x, c, t) ==
  SameClass(Won(x, c, t), IF Grew(x) THEN Append(Scores(x), SMax) ELSE Scores(x), c)

Exc(x, c, t) == CoExcited(Won(x, c, t), Scores(x), Spread(Scores(x)))

Unlabelled(x, c, t) == {i \in Exc(x, c, t) : Won(x, c, t)[i].class = NoClass}

LEMMA TickUnfolded ==
  ASSUME NEW x, NEW c, NEW t, NEW mode, Tick(x, c, t, mode)
  PROVE  /\ t \in now .. MaxTick
         /\ Best(x) <= MaxKernels
         /\ stm' = StmUpdate(Won(x, c, t), Best(x))
         /\ edges' = E!TickEdges(edges, Act(x, c, t), t, mode)
         /\ \E label \in [Unlabelled(x, c, t) -> Label] :
              /\ Inherited(Won(x, c, t), Exc(x, c, t), label)
              /\ counts' = Counted(Won(x, c, t), Exc(x, c, t), label)
              /\ kernels' = Extinguish(Labelled(Won(x, c, t), label), t)
         /\ scratch' = ZeroTouched(Scores(x))
         /\ cache' = CacheAfter(Grew(x))
         /\ now' = t
BY DEF Tick, GrownKernels, Best, Won, Act, Exc, Unlabelled, Grew

(***************************************************************************)
(* What every other structure of the graph relies on between two calls.    *)
(***************************************************************************)
Core ==
  /\ kernels \in Seq(Kernel) /\ Len(kernels) <= MaxKernels
  /\ now \in E!Time
  /\ ScratchClean
  /\ CacheCoherent

\* The kernels before the labels are inherited: the new one, if any, at the
\* end, and a live winner.
LEMMA WonShape ==
  ASSUME Core, NEW x \in Input, NEW c \in Label, NEW t \in Nat
  PROVE  LET n == Len(kernels)
             new == Won(x, c, t)
         IN  /\ new \in Seq(Kernel)
             /\ Len(new) = IF Grew(x) THEN n + 1 ELSE n
             /\ Best(x) \in 1 .. Len(new)
             /\ Grew(x) => Best(x) = n + 1
             /\ \A i \in 1 .. n :
                  /\ new[i].centroid = kernels[i].centroid
                  /\ kernels[i].class # NoClass => new[i].class = kernels[i].class
                  /\ kernels[i].extinct => new[i] = kernels[i]
                  /\ new[i].extinct => kernels[i].extinct
             /\ Grew(x) => /\ new[n + 1].centroid = x
                           /\ c # NoClass => new[n + 1].class = c
             /\ ~new[Best(x)].extinct /\ new[Best(x)].last = t
<1> DEFINE n == Len(kernels)
           grown == GrownKernels(x, c, t)
<1>1. NewKernel(x, c, t) \in Kernel
  BY DEF NewKernel, Kernel
<1>2. /\ grown \in Seq(Kernel) /\ n \in Nat
      /\ Len(grown) = IF Grew(x) THEN n + 1 ELSE n
      /\ \A i \in 1 .. n : grown[i] = kernels[i]
      /\ Grew(x) => grown[n + 1] = NewKernel(x, c, t)
  BY <1>1, SeqShape, AppendContinues DEF GrownKernels, Core
<1>3. Best(x) \in 1 .. Len(grown) /\ ~grown[Best(x)].extinct
  <2>1. CASE Grew(x)
    BY <1>2, <2>1 DEF Best, NewKernel
  <2>2. CASE ~Grew(x)
    <3>1. BestMatch(Scores(x)) \in Live
      BY <2>2, WinnerIsLive DEF Core
    <3> QED
      BY <2>2, <3>1, SeqShape DEF Best, GrownKernels, Live, Core
  <2> QED
    BY <2>1, <2>2
<1>4. /\ Continues(grown, Won(x, c, t))
      /\ ~Won(x, c, t)[Best(x)].extinct /\ Won(x, c, t)[Best(x)].last = t
      /\ \A i \in 1 .. Len(grown) : Won(x, c, t)[i].extinct = grown[i].extinct
  BY <1>2, <1>3, WinContinues DEF Won
<1>5. Grew(x) => grown[n + 1].centroid = x /\ grown[n + 1].class = c
  BY <1>2 DEF NewKernel
<1> HIDE DEF grown
<1> QED
  BY <1>2, <1>3, <1>4, <1>5 DEF Continues, Best

LEMMA TickKernels ==
  ASSUME Core, NEW x \in Input, NEW c \in Label, NEW t \in E!Time, NEW mode,
         Tick(x, c, t, mode)
  PROVE  LET n == Len(kernels)
         IN  /\ Continues(Won(x, c, t), kernels')
             /\ kernels' \in Seq(Kernel)
             /\ Len(kernels') = IF Grew(x) THEN n + 1 ELSE n
             /\ \A i \in 1 .. n :
                  /\ kernels'[i].centroid = kernels[i].centroid
                  /\ kernels[i].class # NoClass => kernels'[i].class = kernels[i].class
                  /\ kernels[i].extinct => kernels'[i] = kernels[i]
             /\ Grew(x) => /\ kernels'[n + 1].centroid = x
                           /\ c # NoClass => kernels'[n + 1].class = c
             /\ ~kernels'[Best(x)].extinct
             /\ \A i \in 1 .. Len(kernels') :
                  /\ ~kernels'[i].extinct /\ P1Kernel # Never
                       => Elapsed(t, kernels'[i].last) <= P1Kernel
                  /\ kernels'[i].extinct
                       => \/ i \in 1 .. n /\ kernels[i].extinct
                          \/ P1Kernel # Never /\ Elapsed(t, kernels'[i].last) > P1Kernel
<1> DEFINE n == Len(kernels)
           won == Won(x, c, t)
<1>1. t \in Nat
  BY DEF E!Time
<1>2. PICK label \in [Unlabelled(x, c, t) -> Label] :
        kernels' = Extinguish(Labelled(won, label), t)
  BY TickUnfolded
<1>3. /\ won \in Seq(Kernel) /\ Best(x) \in 1 .. Len(won)
      /\ ~won[Best(x)].extinct /\ won[Best(x)].last = t
  BY <1>1, WonShape
<1>4. /\ \A i \in Exc(x, c, t) : ~won[i].extinct
      /\ label \in [{i \in Exc(x, c, t) : won[i].class = NoClass} -> Label]
  BY <1>2 DEF Exc, CoExcited, Unlabelled
<1> DEFINE mid == Labelled(won, label)
<1>5. /\ Continues(won, mid)
      /\ \A i \in 1 .. Len(won) : mid[i].extinct = won[i].extinct /\ mid[i].last = won[i].last
  <2> HIDE DEF won
  <2> QED
    BY <1>3, <1>4, LabelledContinues
<1>6. mid \in Seq(Kernel) /\ Len(mid) = Len(won)
  BY <1>5 DEF Continues
<1>7. /\ Continues(mid, kernels')
      /\ \A i \in 1 .. Len(mid) :
           /\ ~kernels'[i].extinct /\ P1Kernel # Never
                => Elapsed(t, kernels'[i].last) <= P1Kernel
           /\ ~mid[i].extinct /\ mid[i].last = t => ~kernels'[i].extinct
           /\ kernels'[i].extinct
                => \/ mid[i].extinct
                   \/ P1Kernel # Never /\ Elapsed(t, kernels'[i].last) > P1Kernel
  <2> HIDE DEF mid
  <2> QED
    BY <1>1, <1>2, <1>6, ExtinguishContinues DEF mid
<1>8. Continues(won, kernels')
  BY <1>5, <1>7, ContinuesTransitive
<1>9. ~kernels'[Best(x)].extinct
  BY <1>3, <1>5, <1>6, <1>7
<1> HIDE DEF mid, won
<1>10. kernels' \in Seq(Kernel) /\ Len(kernels') = Len(won)
  BY <1>8 DEF Continues
<1>11. /\ Len(won) = IF Grew(x) THEN n + 1 ELSE n
       /\ n \in Nat
       /\ \A i \in 1 .. n :
            /\ won[i].centroid = kernels[i].centroid
            /\ kernels[i].class # NoClass => won[i].class = kernels[i].class
            /\ kernels[i].extinct => won[i] = kernels[i]
            /\ won[i].extinct => kernels[i].extinct
       /\ Grew(x) => Best(x) = n + 1
       /\ Grew(x) => /\ won[n + 1].centroid = x
                     /\ c # NoClass => won[n + 1].class = c
  BY <1>1, WonShape, SeqShape DEF won, Core
<1>12. /\ \A i \in 1 .. n :
            /\ kernels'[i].centroid = kernels[i].centroid
            /\ kernels[i].class # NoClass => kernels'[i].class = kernels[i].class
            /\ kernels[i].extinct => kernels'[i] = kernels[i]
       /\ Grew(x) => /\ kernels'[n + 1].centroid = x
                     /\ c # NoClass => kernels'[n + 1].class = c
  BY <1>8, <1>11 DEF Continues
<1>13. \A i \in 1 .. Len(won) : won[i].extinct => i \in 1 .. n /\ kernels[i].extinct
  BY <1>3, <1>11
<1>14. \A i \in 1 .. Len(won) :
         kernels'[i].extinct
           => \/ i \in 1 .. n /\ kernels[i].extinct
              \/ P1Kernel # Never /\ Elapsed(t, kernels'[i].last) > P1Kernel
  BY <1>5, <1>6, <1>7, <1>13
<1> QED
  BY <1>6, <1>7, <1>8, <1>9, <1>10, <1>11, <1>12, <1>14 DEF won

(***************************************************************************)
(* Compaction: the list of the kept kernels, and what is left in place n.  *)
(***************************************************************************)
LEMMA KeptShape ==
  ASSUME kernels \in Seq(Kernel), NEW kept \in Enumerations(Live, Len(kernels))
  PROVE  \E m \in 0 .. Len(kernels) :
           /\ kept \in [1 .. m -> 1 .. Len(kernels)]
           /\ Range(kept) = Live
           /\ \A i \in 1 .. m : kept[i] \in Live
           /\ \A i, j \in 1 .. m : i < j => kept[i] < kept[j]
           /\ \A i, j \in 1 .. m : kept[i] = kept[j] => i = j
           /\ Live # DOMAIN kernels => m < Len(kernels)
<1> DEFINE n == Len(kernels)
<1>1. n \in Nat /\ DOMAIN kernels = 1 .. n /\ Live \subseteq 1 .. n
  BY SeqShape DEF Live
<1>2. PICK m \in 0 .. n : kept \in [1 .. m -> Live]
  BY DEF Enumerations
<1>3. IsEnumeration(kept, Live)
  BY DEF Enumerations
<1>4. \A i, j \in 1 .. m : i < j => kept[i] < kept[j]
  BY <1>2, <1>3 DEF IsEnumeration
<1>5. \A i, j \in 1 .. m : kept[i] = kept[j] => i = j
  <2>1. \A i \in 1 .. m : kept[i] \in Live /\ i \in Nat
    BY <1>2
  <2>2. \A i \in Live : i \in Nat
    BY <1>1
  <2> QED
    BY <1>4, <2>1, <2>2
<1>6. kept \in [1 .. m -> 1 .. n]
  BY <1>1, <1>2
<1>7. ASSUME Live # DOMAIN kernels
      PROVE  m < n
  <2>1. IsFiniteSet(1 .. n) /\ Cardinality(1 .. n) = n
    <3>1. n \in Nat /\ n \in Int /\ 1 \in Int
      BY <1>1
    <3> HIDE DEF n
    <3> QED
      BY <3>1, FS_Interval
  <2>2. IsFiniteSet(Live) /\ Cardinality(Live) <= n /\ Cardinality(Live) # n
    <3>1. Live \in SUBSET (1 .. n) /\ Live # 1 .. n
      BY <1>1, <1>7
    <3> HIDE DEF n
    <3> QED
      BY <2>1, <3>1, FS_Subset
  <2>3. kept \in Injection(1 .. m, Live)
    BY <1>2, <1>5 DEF Injection, IsInjective
  <2>4. Cardinality(1 .. m) <= Cardinality(Live)
    BY <2>2, <2>3, FS_Injection
  <2>5. Cardinality(1 .. m) = m /\ m \in Nat
    BY <1>1, FS_Interval
  <2>6. Cardinality(Live) \in Nat
    BY <2>2, FS_CardinalityType
  <2> QED
    BY <1>1, <2>2, <2>4, <2>5, <2>6
<1> QED
  BY <1>2, <1>3, <1>4, <1>5, <1>6, <1>7 DEF IsEnumeration

LEMMA CompactKernels ==
  ASSUME kernels \in Seq(Kernel), NEW kept \in Enumerations(Live, Len(kernels)),
         kernels' = Picked(kernels, kept)
  PROVE  /\ kernels' \in Seq(Kernel)
         /\ DOMAIN kept = 1 .. Len(kernels')
         /\ Len(kernels') <= Len(kernels)
         /\ Live # DOMAIN kernels => Len(kernels') < Len(kernels)
         /\ \A i \in 1 .. Len(kernels') : kept[i] \in Live /\ kernels'[i] = kernels[kept[i]]
         /\ \A i, j \in 1 .. Len(kernels') : kept[i] = kept[j] => i = j
<1>1. PICK m \in 0 .. Len(kernels) :
        /\ kept \in [1 .. m -> 1 .. Len(kernels)]
        /\ \A i \in 1 .. m : kept[i] \in Live
        /\ \A i, j \in 1 .. m : kept[i] = kept[j] => i = j
        /\ Live # DOMAIN kernels => m < Len(kernels)
  BY KeptShape
<1>2. kernels' = [i \in 1 .. m |-> kernels[kept[i]]] /\ m \in Nat
  BY <1>1, SeqShape DEF Picked
<1>3. \A i \in 1 .. m : kernels[kept[i]] \in Kernel
  BY <1>1, SeqShape
<1>4. kernels' \in Seq(Kernel) /\ Len(kernels') = m
  BY <1>2, <1>3, SeqMade
<1> QED
  BY <1>1, <1>2, <1>4, SeqShape

(***************************************************************************)
(* The invariant: the shape of the vector, the transient structures that   *)
(* have to be neutral between calls, and what they guarantee.              *)
(***************************************************************************)
LiveIsRecent ==
  P1Kernel # Never => \A i \in Live : Elapsed(now, kernels[i].last) <= P1Kernel

IInv == Core /\ LiveIsRecent /\ LiveKernelsApart

LEMMA InitInvariant == Init => IInv
<1> SUFFICES ASSUME Init PROVE IInv
  OBVIOUS
<1>1. /\ kernels = <<>> /\ kernels \in Seq(Kernel) /\ Len(kernels) = 0
      /\ Live = {} /\ DOMAIN scratch = {} /\ cache = NoCache /\ now = 0
  BY DEF Init, Live
<1> QED
  BY <1>1, KernelConfigAssumption
  DEF IInv, Core, ScratchClean, CacheCoherent, LiveIsRecent, LiveKernelsApart, E!Time

LEMMA TickInvariant ==
  ASSUME IInv, NEW x \in Input, NEW c \in Label, NEW t \in E!Time, NEW mode,
         Tick(x, c, t, mode)
  PROVE  IInv'
<1> DEFINE n == Len(kernels)
<1>1. Core /\ n \in Nat /\ DOMAIN kernels = 1 .. n
  BY SeqShape DEF IInv, Core
<1>2. /\ kernels' \in Seq(Kernel)
      /\ Len(kernels') = IF Grew(x) THEN n + 1 ELSE n
      /\ DOMAIN kernels' = 1 .. Len(kernels')
      /\ \A i \in 1 .. n :
           /\ kernels'[i].centroid = kernels[i].centroid
           /\ kernels[i].extinct => kernels'[i] = kernels[i]
      /\ Grew(x) => kernels'[n + 1].centroid = x
      /\ \A i \in 1 .. Len(kernels') :
           ~kernels'[i].extinct /\ P1Kernel # Never
             => Elapsed(t, kernels'[i].last) <= P1Kernel
  BY <1>1, TickKernels, SeqShape
<1>3. /\ Best(x) <= MaxKernels
      /\ scratch' = ZeroTouched(Scores(x))
      /\ cache' = CacheAfter(Grew(x))
      /\ now' = t
  BY TickUnfolded
<1>4. Len(kernels') <= MaxKernels
  BY <1>1, <1>2, <1>3 DEF Best, Core
<1>5. ScratchClean'
  <2>1. \A j \in DOMAIN scratch' : scratch'[j] = 0
    BY <1>1, <1>3, ResizedClean DEF ZeroTouched, Core
  <2> QED
    BY <2>1 DEF ScratchClean
<1>6. CacheCoherent'
  <2>1. CASE Grew(x)
    BY <1>3, <2>1 DEF CacheAfter, CacheCoherent
  <2>2. CASE ~Grew(x)
    <3>1. cache' = [i \in 1 .. n |-> kernels[i].centroid]
      BY <1>1, <1>3, <2>2, CachedIsCentroids DEF CacheAfter, Centroids, Core
    <3>2. Centroids' = [i \in 1 .. n |-> kernels'[i].centroid]
      BY <1>2, <2>2 DEF Centroids
    <3>3. cache' = Centroids'
      BY <1>2, <3>1, <3>2
    <3> QED
      BY <3>3 DEF CacheCoherent
  <2> QED
    BY <2>1, <2>2
<1>7. LiveIsRecent'
  BY <1>2, <1>3 DEF LiveIsRecent, Live
<1>8. LiveKernelsApart'
  <2>1. \A i \in Live' : i \in 1 .. n => i \in Live
    BY <1>1, <1>2 DEF Live
  <2>2. \A i \in Live' : i \in 1 .. n \/ (Grew(x) /\ i = n + 1)
    BY <1>1, <1>2 DEF Live
  <2>3. ASSUME NEW i \in Live', NEW j \in Live', i # j, i \in 1 .. n, j \in 1 .. n
        PROVE  Sim[kernels'[i].centroid][kernels'[j].centroid] < Theta
    <3>1. Sim[kernels[i].centroid][kernels[j].centroid] < Theta
      BY <2>1, <2>3 DEF IInv, LiveKernelsApart
    <3> QED
      BY <1>2, <2>3, <3>1
  <2>4. ASSUME Grew(x), NEW i \in Live', i \in 1 .. n
        PROVE  /\ Sim[x][kernels'[i].centroid] < Theta
               /\ Sim[kernels'[i].centroid][x] < Theta
    <3>1. kernels[i].centroid \in Input /\ ~kernels[i].extinct
      BY <1>1, <2>1, <2>4, SeqShape DEF Kernel, Live, Core
    <3>2. Scores(x)[i] = Sim[x][kernels[i].centroid] /\ i \in DOMAIN Scores(x)
      BY <1>1, <2>4, <3>1, ScoresExact DEF Core
    <3>3. ~(Scores(x)[i] >= Theta)
      BY <1>1, <2>4, <3>2, GrewIffNoneFires DEF Core, Fired
    <3>4. Sim[x][kernels[i].centroid] \in Nat /\ Theta \in Nat
      BY <3>1, KernelConfigAssumption
    <3>5. Sim[x][kernels[i].centroid] < Theta
      BY <3>2, <3>3, <3>4
    <3>6. Sim[kernels[i].centroid][x] = Sim[x][kernels[i].centroid]
      BY <3>1, KernelConfigAssumption
    <3> QED
      BY <1>2, <2>4, <3>5, <3>6
  <2>5. ASSUME NEW i \in Live', NEW j \in Live', i # j
        PROVE  Sim[kernels'[i].centroid][kernels'[j].centroid] < Theta
    BY <1>2, <2>2, <2>3, <2>4, <2>5
  <2> QED
    BY <2>5 DEF LiveKernelsApart
<1> QED
  BY <1>2, <1>3, <1>4, <1>5, <1>6, <1>7, <1>8 DEF IInv, Core

LEMMA CompactInvariant ==
  ASSUME IInv, Compact
  PROVE  IInv'
<1>1. PICK kept \in Enumerations(Live, Len(kernels)) :
        /\ kernels' = Picked(kernels, kept)
        /\ scratch' = [n \in DOMAIN kept |->
                         IF n \in DOMAIN scratch THEN scratch[n] ELSE 0]
  BY DEF Compact
<1>2. cache' = NoCache /\ now' = now
  BY DEF Compact
<1>3. /\ kernels' \in Seq(Kernel) /\ Len(kernels') <= Len(kernels)
      /\ \A i \in 1 .. Len(kernels') : kept[i] \in Live /\ kernels'[i] = kernels[kept[i]]
      /\ \A i, j \in 1 .. Len(kernels') : kept[i] = kept[j] => i = j
  BY <1>1, CompactKernels DEF IInv, Core
<1>4. DOMAIN kernels' = 1 .. Len(kernels') /\ Live' \subseteq 1 .. Len(kernels')
  BY <1>3, SeqShape DEF Live
<1>5. Core'
  <2>1. Len(kernels') <= MaxKernels
    BY <1>3, SeqShape, KernelConfigAssumption DEF IInv, Core
  <2>2. ScratchClean'
    BY <1>1 DEF IInv, Core, ScratchClean
  <2> QED
    BY <1>2, <1>3, <2>1, <2>2 DEF IInv, Core, CacheCoherent
<1>6. LiveIsRecent'
  BY <1>2, <1>3, <1>4 DEF IInv, LiveIsRecent
<1>7. LiveKernelsApart'
  BY <1>3, <1>4 DEF IInv, LiveKernelsApart
<1> QED
  BY <1>5, <1>6, <1>7 DEF IInv

LEMMA MarkInvariant ==
  ASSUME IInv, NEW i \in DOMAIN kernels, MarkExtinct(i)
  PROVE  IInv'
<1> DEFINE n == Len(kernels)
<1>1. n \in Nat /\ DOMAIN kernels = 1 .. n /\ i \in 1 .. n /\ kernels \in [1 .. n -> Kernel]
  BY SeqShape DEF IInv, Core
<1>2. kernels' = [kernels EXCEPT ![i].extinct = TRUE] /\ cache' = NoCache
      /\ scratch' = scratch /\ now' = now
  BY DEF MarkExtinct
<1>3. kernels' \in [1 .. n -> Kernel]
  BY <1>1, <1>2 DEF Kernel
<1>4. kernels' \in Seq(Kernel) /\ Len(kernels') = n /\ DOMAIN kernels' = 1 .. n
  BY <1>1, <1>3, SeqMade
<1>5. \A j \in 1 .. n :
        /\ kernels'[j].centroid = kernels[j].centroid /\ kernels'[j].last = kernels[j].last
        /\ kernels[j].extinct => kernels'[j] = kernels[j]
  BY <1>1, <1>2 DEF Kernel
<1>6. Live' \subseteq Live
  BY <1>1, <1>4, <1>5 DEF Live
<1>7. Core'
  BY <1>2, <1>4 DEF IInv, Core, ScratchClean, CacheCoherent
<1>8. LiveIsRecent'
  BY <1>1, <1>2, <1>5, <1>6 DEF IInv, LiveIsRecent, Live
<1>9. LiveKernelsApart'
  BY <1>1, <1>5, <1>6 DEF IInv, LiveKernelsApart, Live
<1> QED
  BY <1>7, <1>8, <1>9 DEF IInv

LEMMA NextInvariant == IInv /\ [Next]_vars => IInv'
<1> SUFFICES ASSUME IInv, [Next]_vars PROVE IInv'
  OBVIOUS
<1>1. ASSUME NEW x \in Input, NEW c \in Label, NEW t \in E!Time, NEW mode \in DecayMode,
             Tick(x, c, t, mode)
      PROVE  IInv'
  BY <1>1, TickInvariant
<1>2. CASE Compact
  BY <1>2, CompactInvariant
<1>3. ASSUME NEW i \in DOMAIN kernels, MarkExtinct(i)
      PROVE  IInv'
  BY <1>3, MarkInvariant
<1>4. ASSUME kernels' = kernels, scratch' = scratch, now' = now,
             cache' = cache \/ cache' = NoCache
      PROVE  IInv'
  BY <1>4
  DEF IInv, Core, ScratchClean, CacheCoherent, Centroids, LiveIsRecent, LiveKernelsApart, Live
<1>5. ASSUME NEW k \in ClientEdges, NEW w \in Weight, SetEdge(k, w)
      PROVE  IInv'
  BY <1>4, <1>5 DEF SetEdge, E!SetWeight
<1>6. CASE SaveLoad
  BY <1>4, <1>6 DEF SaveLoad
<1>7. CASE UNCHANGED vars
  BY <1>4, <1>7 DEF vars
<1> QED
  BY <1>1, <1>2, <1>3, <1>5, <1>6, <1>7 DEF Next, TrainNext

LEMMA KernelInvariant == Spec => []IInv
BY InitInvariant, NextInvariant, PTL DEF Spec

(***************************************************************************)
(* Stale scratch: whatever a tick spreads, the next tick finds             *)
(* prop_scratch zero (graph.rs, the zeroing of the touched entries).       *)
(***************************************************************************)
THEOREM KernelScratchClean == Spec => []ScratchClean
<1>1. IInv => ScratchClean
  BY DEF IInv, Core
<1> QED
  BY <1>1, KernelInvariant, PTL

(***************************************************************************)
(* Stale cache: a centroid cache believed valid mirrors the kernels, after *)
(* growth, compaction, a direct mutation and a load (cache_valid).         *)
(***************************************************************************)
THEOREM KernelCacheCoherent == Spec => []CacheCoherent
<1>1. IInv => CacheCoherent
  BY DEF IInv, Core
<1> QED
  BY <1>1, KernelInvariant, PTL

(***************************************************************************)
(* Rule 3 leaves no live kernel that has been inactive for too long, also  *)
(* where the caller makes kernels extinct itself.                          *)
(***************************************************************************)
THEOREM KernelLiveIsRecent == Spec => []LiveIsRecent
<1>1. IInv => LiveIsRecent
  BY DEF IInv
<1> QED
  BY <1>1, KernelInvariant, PTL

(***************************************************************************)
(* No live kernel fires for the centroid of another: growth is decided on  *)
(* exact scores, in every history of ticks, compactions and direct calls.  *)
(***************************************************************************)
THEOREM KernelLiveKernelsApart == Spec => []LiveKernelsApart
<1>1. IInv => LiveKernelsApart
  BY DEF IInv
<1> QED
  BY <1>1, KernelInvariant, PTL

(***************************************************************************)
(* The vector stops growing: the live kernels are as many as some set of   *)
(* inputs none of which fires for another, so no training history, however *)
(* long, can make the graph keep more live kernels than the input space    *)
(* has room for; a compaction (compact_with_map) gets back to that size.   *)
(***************************************************************************)
AreApart(A) == \A x, y \in A : x # y => Sim[x][y] < Theta

LiveKernelsPacked ==
  /\ \E A \in SUBSET Input :
       AreApart(A) /\ IsFiniteSet(A) /\ Cardinality(A) = Cardinality(Live)
  /\ IsFiniteSet(Input) => Cardinality(Live) <= Cardinality(Input)

THEOREM KernelLiveKernelsPacked == Spec => []LiveKernelsPacked
<1>1. IInv => LiveKernelsPacked
  <2> SUFFICES ASSUME IInv PROVE LiveKernelsPacked
    OBVIOUS
  <2> DEFINE f == [i \in Live |-> kernels[i].centroid]
             A == {kernels[i].centroid : i \in Live}
  <2>1. kernels \in Seq(Kernel) /\ LiveKernelsApart
    BY DEF IInv, Core
  <2>2. Len(kernels) \in Nat /\ Live \in SUBSET (1 .. Len(kernels))
    BY <2>1, SeqShape DEF Live
  <2>3. \A i \in Live : kernels[i].centroid \in Input
    BY <2>1, <2>2, SeqShape DEF Kernel
  <2>4. A \in SUBSET Input /\ AreApart(A)
    BY <2>1, <2>3 DEF AreApart, LiveKernelsApart
  <2>5. \A x \in Input : ~(Sim[x][x] < Theta)
    <3>1. SMax \in Nat /\ Theta \in Nat /\ SMax > Theta
      BY ConfigAssumption, KernelConfigAssumption
    <3>2. \A x \in Input : Sim[x][x] = SMax
      BY KernelConfigAssumption
    <3> QED
      BY <3>1, <3>2
  <2>6. \A i, j \in Live : kernels[i].centroid = kernels[j].centroid => i = j
    BY <2>1, <2>3, <2>5 DEF LiveKernelsApart
  <2>7. f \in [Live -> A]
    OBVIOUS
  <2>8. \A a \in A : \E i \in Live : f[i] = a
    OBVIOUS
  <2>9. f \in Bijection(Live, A)
    <3>1. \A i, j \in Live : f[i] = f[j] => i = j
      BY <2>6
    <3> HIDE DEF f, A
    <3> QED
      BY <2>7, <2>8, <3>1 DEF Bijection, Injection, Surjection, IsInjective
  <2>10. IsFiniteSet(Live)
    <3>1. IsFiniteSet(1 .. Len(kernels))
      BY <2>2, FS_Interval
    <3> QED
      BY <2>2, <3>1, FS_Subset
  <2>11. ExistsBijection(Live, A)
    <3> HIDE DEF f, A
    <3> QED
      BY <2>9 DEF ExistsBijection
  <2> HIDE DEF A
  <2>12. IsFiniteSet(A) /\ Cardinality(A) = Cardinality(Live)
    BY <2>10, <2>11, FS_Bijection
  <2>13. IsFiniteSet(Input) => Cardinality(A) <= Cardinality(Input)
    BY <2>4, FS_Subset
  <2> QED
    BY <2>4, <2>12, <2>13 DEF LiveKernelsPacked
<1> QED
  BY <1>1, KernelInvariant, PTL

(***************************************************************************)
(* Growth is not repeated: a tick leaves a live kernel behind that fires   *)
(* for its input, its winner, so the same input presented again grows      *)
(* nothing, whatever the tick has spread, cached, labelled or extinguished *)
(* (tick, steps 1 to 5 and 11).                                            *)
(***************************************************************************)
Covered(x) == \E i \in Live : Sim[x][kernels[i].centroid] >= Theta

RepeatGrowsNothing ==
  [][\A x \in Input, c \in Label, t \in E!Time, mode \in DecayMode :
       Tick(x, c, t, mode) => ~Grew(x)']_vars

LEMMA CoveredGrowsNothing ==
  \A x \in Input : IInv /\ Covered(x) => ~Grew(x)
<1> SUFFICES ASSUME NEW x \in Input, IInv, Covered(x) PROVE ~Grew(x)
  OBVIOUS
<1>1. kernels \in Seq(Kernel) /\ CacheCoherent /\ ScratchClean
  BY DEF IInv, Core
<1>2. PICK i \in 1 .. Len(kernels) :
        ~kernels[i].extinct /\ Sim[x][kernels[i].centroid] >= Theta
  BY <1>1, SeqShape DEF Covered, Live
<1>3. i \in DOMAIN Scores(x) /\ Scores(x)[i] >= Theta
  BY <1>1, <1>2, ScoresExact
<1> QED
  BY <1>1, <1>3, GrewIffNoneFires DEF Fired

LEMMA TickCovers ==
  ASSUME IInv, NEW x \in Input, NEW c \in Label, NEW t \in E!Time, NEW mode,
         Tick(x, c, t, mode)
  PROVE  Covered(x)'
<1> DEFINE n == Len(kernels)
<1>1. Core /\ n \in Nat /\ kernels \in Seq(Kernel) /\ CacheCoherent /\ ScratchClean
  BY SeqShape DEF IInv, Core
<1>2. /\ kernels' \in Seq(Kernel) /\ ~kernels'[Best(x)].extinct
      /\ Len(kernels') = IF Grew(x) THEN n + 1 ELSE n
      /\ \A i \in 1 .. n : kernels'[i].centroid = kernels[i].centroid
      /\ Grew(x) => kernels'[n + 1].centroid = x
  BY <1>1, TickKernels
<1>3. DOMAIN kernels' = 1 .. Len(kernels')
  BY <1>2, SeqShape
<1>4. CASE Grew(x)
  <2>1. Best(x) = n + 1 /\ n + 1 \in DOMAIN kernels'
    BY <1>1, <1>2, <1>3, <1>4 DEF Best
  <2>2. Sim[x][x] >= Theta
    <3>1. Sim[x][x] = SMax /\ SMax > Theta /\ SMax \in Nat /\ Theta \in Nat
      BY ConfigAssumption, KernelConfigAssumption
    <3> QED
      BY <3>1
  <2> QED
    BY <1>2, <1>4, <2>1, <2>2 DEF Covered, Live
<1>5. CASE ~Grew(x)
  <2> DEFINE best == BestMatch(Scores(x))
  <2>1. Best(x) = best
    BY <1>5 DEF Best
  <2>2. best \in Live /\ Scores(x)[best] >= Theta
    BY <1>1, <1>5, WinnerIsLive
  <2>3. best \in 1 .. n /\ ~kernels[best].extinct
    BY <1>1, <2>2, SeqShape DEF Live
  <2> HIDE DEF best
  <2>4. Sim[x][kernels'[best].centroid] >= Theta
    BY <1>1, <1>2, <2>2, <2>3, ScoresExact
  <2>5. best \in DOMAIN kernels' /\ ~kernels'[best].extinct
    BY <1>2, <1>3, <1>5, <2>1, <2>3
  <2> QED
    BY <2>4, <2>5 DEF Covered, Live
<1> QED
  BY <1>4, <1>5

THEOREM KernelRepeatGrowsNothing == Spec => RepeatGrowsNothing
<1> DEFINE Step == \A x \in Input, c \in Label, t \in E!Time, mode \in DecayMode :
                     Tick(x, c, t, mode) => ~Grew(x)'
<1>1. (\A x \in Input : IInv /\ Covered(x) => ~Grew(x))'
  BY CoveredGrowsNothing, PTL
<1>2. IInv /\ [Next]_vars => [Step]_vars
  <2> SUFFICES ASSUME IInv, [Next]_vars, NEW x \in Input, NEW c \in Label, NEW t \in E!Time,
                      NEW mode \in DecayMode, Tick(x, c, t, mode)
               PROVE  ~Grew(x)'
    BY DEF Step
  <2>1. IInv'
    BY NextInvariant
  <2>2. Covered(x)'
    BY TickCovers
  <2> QED
    BY <1>1, <2>1, <2>2
<1> QED
  BY <1>2, KernelInvariant, PTL DEF Spec, RepeatGrowsNothing

(***************************************************************************)
(* An extinct kernel stays as it is until a compaction removes it: it does *)
(* not win, is not labelled and is not excited.                            *)
(***************************************************************************)
THEOREM KernelExtinctFrozen == Spec => ExtinctFrozen
<1> DEFINE Frozen == Len(kernels') >= Len(kernels) =>
                       \A i \in DOMAIN kernels \ Live : kernels'[i] = kernels[i]
<1>1. IInv /\ [Next]_vars => Frozen
  <2> SUFFICES ASSUME IInv, [Next]_vars PROVE Frozen
    OBVIOUS
  <2>1. /\ Len(kernels) \in Nat /\ DOMAIN kernels = 1 .. Len(kernels)
        /\ \A i \in DOMAIN kernels \ Live : i \in 1 .. Len(kernels) /\ kernels[i].extinct
    BY SeqShape DEF IInv, Core, Live
  <2>2. ASSUME NEW x \in Input, NEW c \in Label, NEW t \in E!Time, NEW mode \in DecayMode,
               Tick(x, c, t, mode)
        PROVE  Frozen
    BY <2>1, <2>2, TickKernels DEF IInv
  <2>3. CASE Compact
    <3>1. PICK kept \in Enumerations(Live, Len(kernels)) : kernels' = Picked(kernels, kept)
      BY <2>3 DEF Compact
    <3>2. Len(kernels') < Len(kernels) /\ Len(kernels') \in Nat
      BY <2>3, <3>1, CompactKernels, SeqShape DEF Compact, IInv, Core
    <3> QED
      BY <2>1, <3>2
  <2>4. ASSUME NEW i \in DOMAIN kernels, MarkExtinct(i)
        PROVE  Frozen
    <3>1. \A j \in DOMAIN kernels : kernels[j] \in Kernel
      BY SeqShape DEF IInv, Core
    <3> QED
      BY <2>1, <2>4, <3>1 DEF MarkExtinct, Kernel
  <2>5. CASE kernels' = kernels
    BY <2>5
  <2> QED
    BY <2>2, <2>3, <2>4, <2>5 DEF Next, TrainNext, SetEdge, SaveLoad, vars
<1>2. [][Next]_vars /\ []IInv => [][Frozen]_vars
  BY <1>1, PTL
<1> QED
  BY <1>2, KernelInvariant, PTL DEF Spec, ExtinctFrozen

(***************************************************************************)
(* Refinement: what the wrapping layers are told of a kernel graph.        *)
(***************************************************************************)
Units == [i \in DOMAIN kernels |->
            [class |-> kernels[i].class, extinct |-> kernels[i].extinct]]

LEMMA UnitsShape ==
  ASSUME kernels \in Seq(Kernel)
  PROVE  /\ Units \in Seq(V!Unit) /\ Len(Units) = Len(kernels)
         /\ DOMAIN Units = 1 .. Len(kernels)
         /\ \A i \in 1 .. Len(kernels) :
              /\ Units[i] = [class |-> kernels[i].class, extinct |-> kernels[i].extinct]
              /\ Units[i] \in V!Unit
         /\ V!Living(Units) = Live
<1>1. Len(kernels) \in Nat /\ DOMAIN kernels = 1 .. Len(kernels)
  BY SeqShape
<1>2. \A i \in 1 .. Len(kernels) :
        [class |-> kernels[i].class, extinct |-> kernels[i].extinct] \in V!Unit
  BY SeqShape DEF Kernel, Label, V!Unit
<1>3. /\ Units = [i \in 1 .. Len(kernels) |->
                    [class |-> kernels[i].class, extinct |-> kernels[i].extinct]]
      /\ Units \in [1 .. Len(kernels) -> V!Unit]
  BY <1>1, <1>2 DEF Units
<1>4. Units \in Seq(V!Unit) /\ Len(Units) = Len(kernels)
  <2> DEFINE U == V!Unit
  <2>1. Units \in [1 .. Len(kernels) -> U] /\ Len(kernels) \in Nat
    BY <1>1, <1>3
  <2> HIDE DEF U
  <2>2. Units \in Seq(U) /\ Len(Units) = Len(kernels)
    BY <2>1, SeqMade
  <2> QED
    BY <2>2 DEF U
<1>5. V!Living(Units) = Live
  BY <1>1, <1>3 DEF V!Living, Live
<1> QED
  BY <1>1, <1>2, <1>3, <1>4, <1>5

\* A tick.
LEMMA TickImplements ==
  ASSUME Core, NEW x \in Input, NEW c \in Label, NEW t \in E!Time, NEW mode,
         Tick(x, c, t, mode)
  PROVE  V!Tick(c, Grew(x), Best(x))
<1> DEFINE n == Len(kernels)
           us == V!Grown(c, Grew(x))
<1>1. /\ kernels' \in Seq(Kernel)
      /\ Len(kernels') = IF Grew(x) THEN n + 1 ELSE n
      /\ \A i \in 1 .. n :
           /\ kernels[i].class # NoClass => kernels'[i].class = kernels[i].class
           /\ kernels[i].extinct => kernels'[i] = kernels[i]
      /\ Grew(x) => (c # NoClass => kernels'[n + 1].class = c)
      /\ ~kernels'[Best(x)].extinct
  BY TickKernels
<1>2. kernels \in Seq(Kernel) /\ n \in Nat /\ DOMAIN kernels = 1 .. n
  BY SeqShape DEF Core
<1>3. us = IF Grew(x) THEN Append(Units, [class |-> c, extinct |-> FALSE]) ELSE Units
  BY DEF V!Grown, Units
<1>4. /\ us \in Seq(V!Unit) /\ Len(us) = Len(kernels') /\ DOMAIN us = 1 .. Len(kernels')
      /\ \A i \in 1 .. n : us[i] = [class |-> kernels[i].class, extinct |-> kernels[i].extinct]
      /\ Grew(x) => us[n + 1] = [class |-> c, extinct |-> FALSE]
  <2>1. [class |-> c, extinct |-> FALSE] \in V!Unit
    BY DEF V!Unit, Label
  <2> QED
    BY <1>1, <1>2, <1>3, <2>1, UnitsShape
<1> HIDE DEF us
<1>5. /\ Best(x) \in 1 .. Len(kernels') /\ Best(x) <= MaxKernels
      /\ Grew(x) => Best(x) = n + 1
      /\ ~Grew(x) => Best(x) \in Live
  <2>1. t \in Nat
    BY DEF E!Time
  <2>2. ~Grew(x) => Best(x) \in Live
    BY <1>2, WinnerIsLive DEF Best, Core
  <2> QED
    BY <1>1, <1>2, <2>1, <2>2, WonShape, TickUnfolded
<1>6. Len(us) <= MaxKernels
  BY <1>1, <1>2, <1>4, <1>5 DEF Core
<1>7. Best(x) \in V!Living(us)
  <2>1. CASE Grew(x)
    <3>1. ~us[Best(x)].extinct
      BY <1>4, <1>5, <2>1
    <3> QED
      BY <1>4, <1>5, <3>1 DEF V!Living
  <2>2. CASE ~Grew(x)
    <3>1. Best(x) \in 1 .. n /\ ~kernels[Best(x)].extinct
      BY <1>2, <1>5, <2>2 DEF Live
    <3>2. ~us[Best(x)].extinct
      <4>1. us[Best(x)] = [class |-> kernels[Best(x)].class, extinct |-> kernels[Best(x)].extinct]
        BY <1>4, <3>1
      <4>2. kernels[Best(x)].extinct = FALSE
        BY <1>2, <3>1, SeqShape DEF Kernel
      <4> QED
        BY <4>1, <4>2
    <3> QED
      BY <1>4, <1>5, <3>1, <3>2 DEF V!Living
  <2> QED
    BY <2>1, <2>2
<1>8. /\ Units' = [i \in 1 .. Len(kernels') |->
                     [class |-> kernels'[i].class, extinct |-> kernels'[i].extinct]]
      /\ \A i \in 1 .. Len(kernels') :
           [class |-> kernels'[i].class, extinct |-> kernels'[i].extinct] \in V!Unit
  <2>1. DOMAIN kernels' = 1 .. Len(kernels') /\ \A i \in 1 .. Len(kernels') : kernels'[i] \in Kernel
    BY <1>1, SeqShape
  <2> QED
    BY <2>1 DEF Units, V!Unit, Kernel, Label
<1>9. Units' \in [DOMAIN us -> V!Unit]
  BY <1>4, <1>8
<1>10. ASSUME NEW i \in DOMAIN us
       PROVE  Units'[i] \in V!Later(us[i])
  <2>1. Units'[i] \in V!Unit
    BY <1>9
  <2>2. CASE i \in 1 .. n
    <3>1. /\ i \in 1 .. Len(kernels')
          /\ us[i] = [class |-> kernels[i].class, extinct |-> kernels[i].extinct]
      BY <1>1, <1>2, <1>4, <2>2
    <3>2. Units'[i] = [class |-> kernels'[i].class, extinct |-> kernels'[i].extinct]
      BY <1>8, <3>1
    <3>3. us[i].extinct => Units'[i] = us[i]
      BY <1>1, <2>2, <3>1, <3>2
    <3>4. us[i].class # NoClass => Units'[i].class = us[i].class
      BY <1>1, <2>2, <3>1, <3>2
    <3> QED
      BY <2>1, <3>3, <3>4 DEF V!Later
  <2>3. CASE i \notin 1 .. n
    <3>1. Grew(x) /\ i = n + 1
      BY <1>1, <1>2, <1>4, <2>3
    <3>2. us[i].class = c /\ us[i].extinct = FALSE
      <4>1. us[i] = [class |-> c, extinct |-> FALSE]
        BY <1>4, <3>1
      <4> QED
        BY <4>1
    <3>3. Units'[i].class = kernels'[n + 1].class
      BY <1>4, <1>8, <3>1
    <3> QED
      BY <1>1, <2>1, <3>1, <3>2, <3>3 DEF V!Later
  <2> QED
    BY <2>2, <2>3
<1>11. Best(x) \in V!Living(Units')
  BY <1>1, <1>5, <1>8 DEF V!Living
<1> QED
  BY <1>1, <1>2, <1>4, <1>5, <1>6, <1>7, <1>9, <1>10, <1>11 DEF V!Tick, Units, us

\* A compaction.
LEMMA CompactImplements ==
  ASSUME kernels \in Seq(Kernel), NEW kept \in Enumerations(Live, Len(kernels)),
         kernels' = Picked(kernels, kept)
  PROVE  kept \in V!Survivors /\ V!CompactTo(kept)
<1>1. /\ V!Living(Units) = Live /\ Len(Units) = Len(kernels)
      /\ DOMAIN Units = 1 .. Len(kernels)
      /\ \A i \in 1 .. Len(kernels) :
           Units[i] = [class |-> kernels[i].class, extinct |-> kernels[i].extinct]
  BY UnitsShape
<1>2. kept \in V!Survivors
  <2>1. V!Enumerations(Live, Len(kernels)) = Enumerations(Live, Len(kernels))
    BY DEF V!Enumerations, Enumerations, V!IsEnumeration, IsEnumeration, V!Range, Range
  <2> QED
    BY <1>1, <2>1 DEF V!Survivors, Units
<1>3. /\ kernels' \in Seq(Kernel) /\ DOMAIN kept = 1 .. Len(kernels')
      /\ \A i \in 1 .. Len(kernels') : kept[i] \in Live /\ kernels'[i] = kernels[kept[i]]
  BY CompactKernels
<1>4. Units' = [i \in 1 .. Len(kernels') |->
                  [class |-> kernels'[i].class, extinct |-> kernels'[i].extinct]]
  BY <1>3, SeqShape DEF Units
<1>5. \A i \in 1 .. Len(kernels') :
        /\ kept[i] \in 1 .. Len(kernels)
        /\ [class |-> kernels'[i].class, extinct |-> kernels'[i].extinct] = Units[kept[i]]
  BY <1>1, <1>3, SeqShape DEF Live
<1>6. Units' = [i \in DOMAIN kept |-> Units[kept[i]]]
  BY <1>3, <1>4, <1>5
<1> QED
  BY <1>2, <1>6 DEF V!CompactTo, V!Picked, Units

\* A kernel marked extinct by the caller.
LEMMA MarkImplements ==
  ASSUME kernels \in Seq(Kernel), NEW i \in DOMAIN kernels, MarkExtinct(i)
  PROVE  i \in DOMAIN Units /\ V!MarkExtinct(i)
<1> DEFINE n == Len(kernels)
<1>1. n \in Nat /\ DOMAIN kernels = 1 .. n /\ i \in 1 .. n /\ kernels \in [1 .. n -> Kernel]
  BY SeqShape
<1>2. kernels' = [kernels EXCEPT ![i].extinct = TRUE]
  BY DEF MarkExtinct
<1>3. /\ DOMAIN kernels' = 1 .. n
      /\ \A j \in 1 .. n :
           /\ kernels'[j].class = kernels[j].class
           /\ kernels'[j].extinct = IF j = i THEN TRUE ELSE kernels[j].extinct
  BY <1>1, <1>2 DEF Kernel
<1>4. Units = [j \in 1 .. n |-> [class |-> kernels[j].class, extinct |-> kernels[j].extinct]]
  BY <1>1 DEF Units
<1>5. Units' = [j \in 1 .. n |->
                  [class |-> kernels[j].class,
                   extinct |-> IF j = i THEN TRUE ELSE kernels[j].extinct]]
  BY <1>3 DEF Units
<1>6. [Units EXCEPT ![i].extinct = TRUE]
        = [j \in 1 .. n |->
             [class |-> kernels[j].class,
              extinct |-> IF j = i THEN TRUE ELSE kernels[j].extinct]]
  <2>1. /\ Units = [j \in 1 .. n |-> Units[j]]
        /\ \A j \in 1 .. n :
             Units[j] = [class |-> kernels[j].class, extinct |-> kernels[j].extinct]
    BY <1>4
  <2>2. [Units[i] EXCEPT !.extinct = TRUE] = [class |-> kernels[i].class, extinct |-> TRUE]
    <3> DEFINE u == [Units[i] EXCEPT !.extinct = TRUE]
               v == [class |-> kernels[i].class, extinct |-> TRUE]
    <3>1. Units[i] \in V!Unit /\ Units[i].class = kernels[i].class
      BY <1>1, <2>1, UnitsShape
    <3>2. u \in V!Unit /\ u.class = kernels[i].class /\ u.extinct = TRUE
      BY <3>1 DEF V!Unit
    <3>3. v \in V!Unit /\ v.class = kernels[i].class /\ v.extinct = TRUE
      BY <3>1 DEF V!Unit
    <3> HIDE DEF u, v
    <3>4. u = v
      BY <3>2, <3>3 DEF V!Unit
    <3> QED
      BY <3>4 DEF u, v
  <2>3. [Units EXCEPT ![i].extinct = TRUE]
          = [j \in 1 .. n |-> IF j = i THEN [Units[i] EXCEPT !.extinct = TRUE] ELSE Units[j]]
    BY <1>1, <2>1
  <2> QED
    BY <1>1, <2>1, <2>2, <2>3
<1> QED
  BY <1>1, <1>4, <1>5, <1>6 DEF V!MarkExtinct, Units

(***************************************************************************)
(* A kernel graph implements KernelVector, on which the emotion layer and  *)
(* the cross-modal layer are built: a tick adds at most one kernel, at the *)
(* end, its winner is live before and after it, labels are only inherited, *)
(* and positions change in a compaction alone.                             *)
(***************************************************************************)
THEOREM KernelImplementsVector == Spec => ImplementsVector
<1>1. Init => V!Init
  BY DEF Init, V!Init
<1>2. IInv /\ [Next]_vars => [V!Next]_Units
  <2> SUFFICES ASSUME IInv, [Next]_vars PROVE [V!Next]_Units
    OBVIOUS
  <2>1. kernels \in Seq(Kernel)
    BY DEF IInv, Core
  <2>2. ASSUME NEW x \in Input, NEW c \in Label, NEW t \in E!Time, NEW mode \in DecayMode,
               Tick(x, c, t, mode)
        PROVE  V!Next
    <3>1. V!Tick(c, Grew(x), Best(x)) /\ c \in Class \cup {NoClass} /\ Grew(x) \in BOOLEAN
      BY <2>2, TickImplements DEF IInv, Label, Grew, Excited
    <3>2. Best(x) \in 1 .. MaxKernels
      <4>1. t \in Nat
        BY DEF E!Time
      <4>2. Len(Won(x, c, t)) \in Nat /\ Best(x) \in 1 .. Len(Won(x, c, t))
        BY <4>1, WonShape, SeqShape DEF IInv
      <4> QED
        BY <2>2, <4>2, TickUnfolded, KernelConfigAssumption
    <3>3. \E class \in Class \cup {NoClass}, grew \in BOOLEAN, best \in 1 .. MaxKernels :
            V!Tick(class, grew, best)
      <4> DEFINE P(class, grew, best) == V!Tick(class, grew, best)
      <4>1. P(c, Grew(x), Best(x))
        BY <3>1
      <4> HIDE DEF P
      <4>2. \E class \in Class \cup {NoClass}, grew \in BOOLEAN, best \in 1 .. MaxKernels :
              P(class, grew, best)
        BY <3>1, <3>2, <4>1, Zenon
      <4> QED
        BY <4>2 DEF P
    <3> QED
      BY <3>3 DEF V!Next
  <2>3. ASSUME Compact
        PROVE  V!Next
    <3>1. PICK kept \in Enumerations(Live, Len(kernels)) : kernels' = Picked(kernels, kept)
      BY <2>3 DEF Compact
    <3> QED
      BY <2>1, <3>1, CompactImplements DEF V!Next
  <2>4. ASSUME NEW i \in DOMAIN kernels, MarkExtinct(i)
        PROVE  V!Next
    BY <2>1, <2>4, MarkImplements DEF V!Next, Units
  <2>5. kernels' = kernels => UNCHANGED Units
    BY DEF Units
  <2> QED
    BY <2>2, <2>3, <2>4, <2>5 DEF Next, TrainNext, SetEdge, SaveLoad, vars
<1> QED
  BY <1>1, <1>2, KernelInvariant, PTL DEF Spec, ImplementsVector, V!Spec, Units

(***************************************************************************)
(* Queries: the growth check with propagation and the one without.         *)
(***************************************************************************)
LEMMA DirectScores ==
  ASSUME kernels \in Seq(Kernel), NEW x \in Input
  PROVE  /\ ComputeScores(x) \in [1 .. Len(kernels) -> Score \cup {0}]
         /\ \A i \in 1 .. Len(kernels) : ComputeScores(x)[i] \in Nat
         /\ \A i \in 1 .. Len(kernels) :
              ComputeScores(x)[i] =
                IF kernels[i].extinct THEN 0 ELSE Sim[x][kernels[i].centroid]
<1>1. \A i \in 1 .. Len(kernels) : kernels[i].centroid \in Input
  BY SeqShape DEF Kernel
<1>2. \A y \in Input : Sim[x][y] \in Score \cup {0}
  BY KernelConfigAssumption
<1>3. ComputeScores(x) = [i \in 1 .. Len(kernels) |->
                            IF kernels[i].extinct THEN 0 ELSE Sim[x][kernels[i].centroid]]
  BY SeqShape DEF ComputeScores, Live
<1>4. Score \subseteq Nat
  BY ConfigAssumption
<1>5. \A i \in 1 .. Len(kernels) :
        (IF kernels[i].extinct THEN 0 ELSE Sim[x][kernels[i].centroid]) \in Score \cup {0}
  BY <1>1, <1>2
<1>6. Score \cup {0} \subseteq Nat
  BY <1>4
<1> QED
  BY <1>3, <1>5, <1>6, Zenon

\* The cache and the mask of a tick change nothing.
LEMMA ScoresAgree ==
  ASSUME kernels \in Seq(Kernel), CacheCoherent, NEW x \in Input
  PROVE  Scores(x) = ComputeScores(x)
<1> DEFINE sc == ComputeScores(x)
           n == Len(kernels)
<1>1. /\ Scores(x) \in [1 .. n -> Score \cup {0}] /\ sc \in [1 .. n -> Score \cup {0}]
      /\ \A i \in 1 .. n : Scores(x)[i] = sc[i]
  BY ScoresExact, DirectScores
<1> HIDE DEF sc, n
<1>2. Scores(x) = [i \in 1 .. n |-> Scores(x)[i]] /\ sc = [i \in 1 .. n |-> sc[i]]
  BY <1>1, Zenon
<1>3. Scores(x) = sc
  BY <1>1, <1>2, Zenon
<1> QED
  BY <1>3 DEF sc

\* An extinct kernel scores 0, below any threshold.
LEMMA DirectGrowth ==
  ASSUME kernels \in Seq(Kernel), NEW x \in Input
  PROVE  /\ ShouldGrowDirect(x) <=> Fired(ComputeScores(x)) = {}
         /\ ShouldGrowDirect(x) <=>
              \A i \in 1 .. Len(kernels) : ComputeScores(x)[i] < Theta
<1> DEFINE sc == ComputeScores(x)
<1> HIDE DEF sc
<1>1. /\ Theta \in Nat \ {0}
      /\ DOMAIN sc = 1 .. Len(kernels) /\ \A i \in 1 .. Len(kernels) : sc[i] \in Nat
      /\ \A i \in 1 .. Len(kernels) :
           sc[i] = IF kernels[i].extinct THEN 0 ELSE Sim[x][kernels[i].centroid]
  BY DirectScores, KernelConfigAssumption DEF sc
<1>2. ShouldGrowDirect(x) <=> \A i \in 1 .. Len(kernels) : sc[i] < Theta
  <2>1. Live = {i \in 1 .. Len(kernels) : ~kernels[i].extinct}
    BY SeqShape DEF Live
  <2> QED
    BY <1>1, <2>1 DEF ShouldGrowDirect
<1>3. Fired(sc) = {} <=> \A i \in 1 .. Len(kernels) : sc[i] < Theta
  <2>1. Fired(sc) = {i \in 1 .. Len(kernels) : sc[i] >= Theta}
    BY <1>1 DEF Fired
  <2>2. \A i \in 1 .. Len(kernels) : sc[i] < Theta <=> ~(sc[i] >= Theta)
    BY <1>1
  <2> QED
    BY <2>1, <2>2
<1> QED
  BY <1>2, <1>3 DEF sc

\* The largest of finitely many levels, and 0.
LEMMA MaxBounds ==
  ASSUME NEW n \in Nat, NEW f \in [1 .. n -> Nat]
  PROVE  LET m == Max({0} \cup Range(f))
         IN  m \in {0} \cup Range(f) /\ \A i \in 1 .. n : f[i] <= m
<1> DEFINE S == {0} \cup Range(f)
<1>1. S \subseteq Nat /\ S # {}
  BY DEF Range
<1>2. IsFiniteSet(S)
  <2>1. f \in Surjection(1 .. n, Range(f))
    BY DEF Surjection, Range
  <2>2. IsFiniteSet(1 .. n)
    BY FS_Interval
  <2> QED
    BY <2>1, <2>2, FS_Surjection, FS_Union, FS_Singleton
<1>3. \E m \in S : \A y \in S : m >= y
  <2> HIDE DEF S
  <2>1. PICK m \in S : \A y \in S : y <= m
    BY <1>1, <1>2, MaxExists
  <2>2. \A y \in S : m >= y
    BY <1>1, <2>1
  <2> QED
    BY <2>2
<1>4. Max(S) \in S /\ \A y \in S : Max(S) >= y
  BY <1>3 DEF Max
<1> QED
  BY <1>1, <1>4 DEF Range

(***************************************************************************)
(* A tick grows exactly when should_grow_direct would, and when the best   *)
(* score alone misses the threshold: what neighbours spread never decides. *)
(***************************************************************************)
THEOREM QuerySpreadNeverDecidesGrowth == Spec => []SpreadNeverDecidesGrowth
<1>1. IInv => SpreadNeverDecidesGrowth
  <2> SUFFICES ASSUME IInv, NEW x \in Input
               PROVE  /\ ~Excited(Scores(x), Spread(Scores(x))) <=> ShouldGrowDirect(x)
                      /\ ShouldGrowDirect(x) <=> MaxActivation(x) < Theta
    BY DEF SpreadNeverDecidesGrowth
  <2> DEFINE sc == ComputeScores(x)
             n == Len(kernels)
  <2>1. kernels \in Seq(Kernel) /\ CacheCoherent /\ ScratchClean /\ n \in Nat
    BY SeqShape DEF IInv, Core
  <2> HIDE DEF sc, n
  <2>2. Scores(x) = sc
    BY <2>1, ScoresAgree DEF sc
  <2>3. Grew(x) <=> ShouldGrowDirect(x)
    BY <2>1, <2>2, GrewIffNoneFires, DirectGrowth DEF sc
  <2>4. sc \in [1 .. n -> Nat] /\ Theta \in Nat \ {0}
    <3>1. sc \in [1 .. n -> Score \cup {0}] /\ \A i \in 1 .. n : sc[i] \in Nat
      BY <2>1, DirectScores DEF sc, n
    <3> QED
      BY <3>1, KernelConfigAssumption
  <2>5. MaxActivation(x) < Theta <=> \A i \in 1 .. n : sc[i] < Theta
    <3>1. /\ MaxActivation(x) \in {0} \cup Range(sc)
          /\ \A i \in 1 .. n : sc[i] <= MaxActivation(x)
      BY <2>1, <2>4, MaxBounds DEF MaxActivation, sc
    <3>2. MaxActivation(x) = 0 \/ \E i \in 1 .. n : MaxActivation(x) = sc[i]
      BY <2>4, <3>1 DEF Range
    <3> QED
      BY <2>4, <3>1, <3>2
  <2> QED
    BY <2>1, <2>3, <2>5, DirectGrowth DEF Grew, sc, n
<1> QED
  BY <1>1, KernelInvariant, PTL

-----------------------------------------------------------------------------
(***************************************************************************)
(* Everything a kernel graph refers to kernels by position with - the      *)
(* memory, the edges, the counts and the scratch - keeps its type and      *)
(* stays inside the kernel vector, and what it says of kernels stays true  *)
(* when they are renumbered.                                               *)
(***************************************************************************)

(***************************************************************************)
(* The memory: an eviction makes room for the winner.                      *)
(***************************************************************************)
LEMMA EvictedShape ==
  ASSUME NEW n \in Nat, stm \in Seq(1 .. n), NEW p \in 1 .. Len(stm)
  PROVE  LET rest == SubSeq(stm, 1, p - 1) \o SubSeq(stm, p + 1, Len(stm))
         IN  rest \in Seq(1 .. n) /\ Len(rest) = Len(stm) - 1
<1> DEFINE a == SubSeq(stm, 1, p - 1)
           b == SubSeq(stm, p + 1, Len(stm))
           rest == a \o b
<1>1. Len(stm) \in Nat /\ p \in Nat /\ \A q \in 1 .. Len(stm) : stm[q] \in 1 .. n
  BY LenProperties
<1>2. /\ a \in Seq(1 .. n) /\ Len(a) = p - 1
      /\ \A q \in 1 .. p - 1 : a[q] = stm[q]
  <2>1. p - 1 \in Int /\ 1 \in Int /\ \A q \in 1 .. p - 1 : stm[q] \in 1 .. n
    BY <1>1
  <2>2. /\ a \in Seq(1 .. n) /\ Len(a) = IF 1 <= p - 1 THEN p - 1 - 1 + 1 ELSE 0
        /\ \A q \in 1 .. p - 1 - 1 + 1 : a[q] = stm[1 + q - 1]
    BY <2>1, SubSeqProperties
  <2>3. \A q \in 1 .. p - 1 : a[q] = stm[q]
    <3>1. \A q \in 1 .. p - 1 : q \in 1 .. p - 1 - 1 + 1 /\ 1 + q - 1 = q
      BY <1>1
    <3> HIDE DEF a
    <3> QED
      BY <2>2, <3>1
  <2> HIDE DEF a
  <2> QED
    BY <1>1, <2>2, <2>3
<1>3. /\ b \in Seq(1 .. n) /\ Len(b) = Len(stm) - p
      /\ \A q \in 1 .. Len(stm) - p : b[q] = stm[p + q]
  <2>1. p + 1 \in Int /\ Len(stm) \in Int /\ \A q \in p + 1 .. Len(stm) : stm[q] \in 1 .. n
    BY <1>1
  <2>2. /\ b \in Seq(1 .. n)
        /\ Len(b) = IF p + 1 <= Len(stm) THEN Len(stm) - (p + 1) + 1 ELSE 0
        /\ \A q \in 1 .. Len(stm) - (p + 1) + 1 : b[q] = stm[p + 1 + q - 1]
    BY <2>1, SubSeqProperties
  <2>3. \A q \in 1 .. Len(stm) - p : b[q] = stm[p + q]
    <3>1. \A q \in 1 .. Len(stm) - p :
            q \in 1 .. Len(stm) - (p + 1) + 1 /\ p + 1 + q - 1 = p + q
      BY <1>1
    <3> HIDE DEF b
    <3> QED
      BY <2>2, <3>1
  <2> HIDE DEF b
  <2> QED
    BY <1>1, <2>2, <2>3
<1> HIDE DEF a, b
<1>4. /\ rest \in Seq(1 .. n) /\ Len(rest) = Len(a) + Len(b)
      /\ \A i \in 1 .. Len(a) + Len(b) : rest[i] = IF i <= Len(a) THEN a[i] ELSE b[i - Len(a)]
  BY <1>2, <1>3, ConcatProperties
<1> HIDE DEF rest
<1>5. Len(rest) = Len(stm) - 1
  BY <1>1, <1>2, <1>3, <1>4
<1> QED
  BY <1>4, <1>5 DEF rest, a, b

LEMMA StmUpdateShape ==
  ASSUME NEW ks \in Seq(Kernel), stm \in Seq(1 .. Len(ks)), Len(stm) <= StmCapacity,
         NEW i \in 1 .. Len(ks)
  PROVE  /\ StmUpdate(ks, i) \in Seq(1 .. Len(ks))
         /\ Len(StmUpdate(ks, i)) <= StmCapacity
<1> DEFINE n == Len(ks)
           p == EvictPos(ks)
           kept == IF Len(stm) >= StmCapacity
                   THEN SubSeq(stm, 1, p - 1) \o SubSeq(stm, p + 1, Len(stm))
                   ELSE stm
           new == StmUpdate(ks, i)
<1>1. n \in Nat /\ Len(stm) \in Nat /\ StmCapacity \in Nat \ {0}
  BY SeqShape, LenProperties, KernelConfigAssumption
<1>2. kept \in Seq(1 .. n) /\ Len(kept) + 1 <= StmCapacity
  <2>1. CASE Len(stm) >= StmCapacity
    <3>1. stm # <<>>
      BY <1>1, <2>1
    <3>2. p \in 1 .. Len(stm)
      BY <3>1, EvictPosHeld
    <3> HIDE DEF p, n
    <3>3. kept \in Seq(1 .. n) /\ Len(kept) = Len(stm) - 1
      BY <1>1, <2>1, <3>2, EvictedShape DEF n
    <3> HIDE DEF kept
    <3> QED
      BY <1>1, <2>1, <3>3
  <2>2. CASE ~(Len(stm) >= StmCapacity)
    BY <1>1, <2>2
  <2> QED
    BY <2>1, <2>2
<1>3. new = Append(kept, i)
  BY DEF StmUpdate
<1> HIDE DEF kept, new, n
<1>4. new \in Seq(1 .. n) /\ Len(new) = Len(kept) + 1
  BY <1>2, <1>3, AppendProperties DEF n
<1> QED
  BY <1>2, <1>4 DEF new, n

(***************************************************************************)
(* The edges: one cycle of the link layer on the edges of the graph.       *)
(***************************************************************************)
LEMMA StoreVocabulary ==
  /\ E!Key = Key /\ E!Weight = Weight
  /\ E!Edge = [w : Weight \ {0}, last : Nat]
  /\ \A act : E!Pairs(act) = Pairs(act)
  /\ \A w, gain : E!NewWeight(w, gain) = NewWeight(w, gain)
  /\ \A e, K : E!Without(e, K) = Without(e, K)
  /\ \A e, K, v : E!Put(e, K, v) = Put(e, K, v)
<1>1. E!Key = Key /\ E!Weight = Weight
  BY DEF Key, E!Key, Weight, E!Weight
<1>2. \A act : E!Pairs(act) = Pairs(act)
  BY <1>1 DEF Pairs, E!Pairs
<1>3. \A w, gain : E!NewWeight(w, gain) = NewWeight(w, gain)
  BY DEF NewWeight, E!NewWeight
<1>4. /\ \A e, K : E!Without(e, K) = Without(e, K)
      /\ \A e, K, v : E!Put(e, K, v) = Put(e, K, v)
  BY DEF Without, E!Without, Put, E!Put, Restrict, E!Restrict
<1> QED
  BY <1>1, <1>2, <1>3, <1>4 DEF E!Edge

EdgesOK(e) ==
  /\ DOMAIN e \subseteq Key
  /\ e \in [DOMAIN e -> E!Edge]

LEMMA TickEdgesShape ==
  ASSUME NEW e, EdgesOK(e), NEW act \in Activation, NEW t \in Nat, NEW mode
  PROVE  /\ EdgesOK(E!TickEdges(e, act, t, mode))
         /\ DOMAIN E!TickEdges(e, act, t, mode) \subseteq DOMAIN e \cup Pairs(act)
<1> DEFINE d == IF mode = "Skip" THEN e ELSE E!Decay(e)
           s == E!Strengthen(d, act, t)
<1>1. EdgesOK(d) /\ DOMAIN d = DOMAIN e
  <2>1. CASE mode = "Skip"
    BY <2>1
  <2>2. CASE mode # "Skip"
    <3>1. \A k \in DOMAIN e : e[k].w \in Weight \ {0} /\ e[k].last \in Nat
      BY StoreVocabulary DEF EdgesOK
    <3>2. \A k \in DOMAIN e : Decayed[e[k].w] \in Weight \ {0}
      <4>1. \A w \in Weight \ {0} : w \in Nat /\ w > 0
        BY ConfigAssumption DEF Weight
      <4>2. \A w \in Weight \ {0} : Decayed[w] \in Weight /\ Decayed[w] # 0
        BY <4>1, ConfigAssumption DEF Weight
      <4> QED
        BY <3>1, <4>2
    <3>3. d = [k \in DOMAIN e |-> [w |-> Decayed[e[k].w], last |-> e[k].last]]
      BY <2>2 DEF E!Decay
    <3> QED
      BY <3>1, <3>2, <3>3, StoreVocabulary DEF EdgesOK
  <2> QED
    BY <2>1, <2>2
<1> HIDE DEF d
<1>2. Pairs(act) \subseteq Key
  BY DEF Pairs
<1>3. /\ s = [k \in DOMAIN d \cup Pairs(act) |->
                IF k \in Pairs(act)
                THEN [w |-> NewWeight(E!WeightOf(d, k), Delta * act[k[1]] * act[k[2]]),
                      last |-> t]
                ELSE d[k]]
  BY StoreVocabulary DEF E!Strengthen
<1>4. \A k \in Pairs(act) :
        NewWeight(E!WeightOf(d, k), Delta * act[k[1]] * act[k[2]]) \in Weight \ {0}
  <2> SUFFICES ASSUME NEW k \in Pairs(act)
               PROVE  NewWeight(E!WeightOf(d, k), Delta * act[k[1]] * act[k[2]])
                        \in Weight \ {0}
    OBVIOUS
  <2>1. E!WeightOf(d, k) \in Weight
    <3>1. 0 \in Weight
      BY ConfigAssumption DEF Weight
    <3> QED
      BY <1>1, <3>1, StoreVocabulary DEF E!WeightOf, EdgesOK
  <2>2. Delta * act[k[1]] * act[k[2]] \in Nat
    BY GainIsNat
  <2> QED
    BY <2>1, <2>2, NewWeightInRange
<1>5. EdgesOK(s) /\ DOMAIN s = DOMAIN d \cup Pairs(act)
  <2>1. DOMAIN s = DOMAIN d \cup Pairs(act)
    BY <1>3
  <2>2. ASSUME NEW k \in DOMAIN s
        PROVE  s[k] \in E!Edge
    <3>1. CASE k \in Pairs(act)
      <4>1. s[k] = [w |-> NewWeight(E!WeightOf(d, k), Delta * act[k[1]] * act[k[2]]),
                    last |-> t]
        BY <1>3, <2>1, <3>1
      <4> QED
        BY <1>4, <3>1, <4>1, StoreVocabulary
    <3>2. CASE k \notin Pairs(act)
      <4>1. s[k] = d[k] /\ k \in DOMAIN d
        BY <1>3, <2>1, <3>2
      <4> QED
        BY <1>1, <4>1 DEF EdgesOK
    <3> QED
      BY <3>1, <3>2
  <2>3. s = [k \in DOMAIN s |-> s[k]]
    BY <1>3, <2>1
  <2> HIDE DEF s
  <2>4. s \in [DOMAIN s -> E!Edge]
    BY <2>2, <2>3
  <2> QED
    BY <1>1, <1>2, <2>1, <2>4 DEF EdgesOK
<1> HIDE DEF s
<1>6. /\ DOMAIN E!Prune(s, t) \subseteq DOMAIN s
      /\ E!Prune(s, t) \in [DOMAIN E!Prune(s, t) -> E!Edge]
  <2> DEFINE D == {k \in DOMAIN s : E!Survives(s[k], t)}
  <2>1. E!Prune(s, t) = [k \in D |-> s[k]]
    BY DEF E!Prune, E!Restrict
  <2>2. \A k \in D : s[k] \in E!Edge
    BY <1>5 DEF EdgesOK
  <2>3. D \subseteq DOMAIN s
    OBVIOUS
  <2> HIDE DEF D
  <2> QED
    BY <2>1, <2>2, <2>3
<1>7. E!TickEdges(e, act, t, mode) = E!Prune(s, t)
  BY DEF E!TickEdges, s, d
<1> QED
  BY <1>1, <1>5, <1>6, <1>7 DEF EdgesOK

\* The kernels given to strengthen: activated ones of the label of the tick.
LEMMA ActShape ==
  ASSUME Core, NEW x \in Input, NEW c \in Label, NEW t \in Nat, Best(x) <= MaxKernels
  PROVE  /\ Act(x, c, t) \in Activation
         /\ DOMAIN Act(x, c, t) \subseteq 1 .. Len(Won(x, c, t))
         /\ \A i \in DOMAIN Act(x, c, t) : c # NoClass /\ Won(x, c, t)[i].class = c
<1> DEFINE n == Len(kernels)
           sc == IF Grew(x) THEN Append(Scores(x), SMax) ELSE Scores(x)
           D == {i \in DOMAIN sc : sc[i] > 0 /\ c # NoClass /\ Won(x, c, t)[i].class = c}
<1>1. /\ Len(Won(x, c, t)) = IF Grew(x) THEN n + 1 ELSE n
      /\ Best(x) \in 1 .. Len(Won(x, c, t)) /\ n \in Nat /\ n <= MaxKernels
  BY WonShape, SeqShape DEF Core
<1>2. Scores(x) \in [1 .. n -> Score \cup {0}]
  BY ScoresExact DEF Core
<1>3. Scores(x) \in Seq(Score \cup {0}) /\ Len(Scores(x)) = n
  <2> DEFINE S == Score \cup {0}
  <2> HIDE DEF S, n
  <2>1. Scores(x) \in [1 .. n -> S] /\ n \in Nat
    BY <1>1, <1>2 DEF S
  <2>2. Scores(x) \in Seq(S) /\ Len(Scores(x)) = n
    BY <2>1, SeqMade
  <2> QED
    BY <2>2 DEF S
<1>4. sc \in [1 .. Len(Won(x, c, t)) -> Score \cup {0}]
  <2>1. CASE Grew(x)
    <3>1. SMax \in Score \cup {0}
      BY KernelConfigAssumption
    <3>2. /\ Append(Scores(x), SMax) \in Seq(Score \cup {0})
          /\ Len(Append(Scores(x), SMax)) = n + 1
      BY <1>3, <3>1, AppendProperties
    <3>3. Append(Scores(x), SMax) \in [1 .. n + 1 -> Score \cup {0}]
      BY <3>2, LenProperties
    <3> QED
      BY <1>1, <2>1, <3>3
  <2>2. CASE ~Grew(x)
    BY <1>1, <1>2, <2>2
  <2> QED
    BY <2>1, <2>2
<1> HIDE DEF sc
<1>5. Act(x, c, t) = [i \in D |-> sc[i]]
  BY DEF Act, SameClass, sc
<1>6. D \subseteq 1 .. Len(Won(x, c, t)) /\ D \subseteq Node
  <2>1. Len(Won(x, c, t)) <= MaxKernels /\ Len(Won(x, c, t)) \in Nat
    BY <1>1, WonShape DEF Core, Best
  <2> QED
    BY <1>4, <2>1, KernelConfigAssumption
<1>7. \A i \in D : sc[i] \in Score
  <2>1. ~(0 > 0)
    OBVIOUS
  <2> QED
    BY <1>4, <1>6, <2>1
<1>8. Act(x, c, t) \in [D -> Score]
  BY <1>5, <1>7
<1>9. DOMAIN Act(x, c, t) = D /\ Act(x, c, t) \in Activation
  <2> HIDE DEF D
  <2> QED
    BY <1>6, <1>8 DEF Activation
<1> QED
  BY <1>6, <1>9

(***************************************************************************)
(* The co-activation counts: a count that reaches the threshold is spent   *)
(* in the pass that brings it there.                                       *)
(***************************************************************************)
CountsOK ==
  /\ counts \in [DOMAIN counts -> Nat]
  /\ InheritThreshold = Never => DOMAIN counts = {}
  /\ CountsBelowThreshold

LEMMA CountedShape ==
  ASSUME CountsOK, NEW ks, NEW exc, exc \subseteq Nat, NEW label, DOMAIN label \subseteq exc,
         InheritThreshold = Never => exc = {}
  PROVE  LET new == Counted(ks, exc, label)
         IN  /\ DOMAIN new \subseteq DOMAIN counts \cup (exc \X exc)
             /\ new \in [DOMAIN new -> Nat]
             /\ InheritThreshold = Never => DOMAIN new = {}
             /\ \A p \in DOMAIN new : new[p] < InheritThreshold
<1> DEFINE before(i) == {j \in Partners(ks, exc, label, i) :
                           \A d \in Donors(ks, exc, label, i) : j < d}
           counted == {p \in (DOMAIN label) \X exc : p[2] \in before(p[1])}
           value(p) == Lookup(counts, p) + IF p \in counted THEN 1 ELSE 0
           removed == {p \in (DOMAIN label) \X exc :
                         /\ p[2] \in Donors(ks, exc, label, p[1])
                         /\ p[2] = Min(Donors(ks, exc, label, p[1]))}
           all == [p \in DOMAIN counts \cup counted |-> value(p)]
           new == Counted(ks, exc, label)
<1>1. new = Without(all, removed)
  BY DEF Counted
<1>2. ASSUME NEW p \in counted
      PROVE  /\ p \in exc \X exc /\ InheritThreshold \in Nat
             /\ ~(Lookup(counts, p) + 1 >= InheritThreshold)
  <2>1. p \in exc \X exc /\ p[2] \in Partners(ks, exc, label, p[1]) /\ p[2] \in Nat
    BY <1>2
  <2>2. p[2] \notin Donors(ks, exc, label, p[1])
    <3>1. ~(p[2] < p[2])
      BY <2>1
    <3> QED
      BY <1>2, <3>1
  <2>3. p = <<p[1], p[2]>>
    BY <2>1
  <2>4. ~(Lookup(counts, p) + 1 >= InheritThreshold)
    BY <2>1, <2>2, <2>3 DEF Donors
  <2>5. InheritThreshold \in Nat
    BY <2>1, KernelConfigAssumption
  <2> QED
    BY <2>1, <2>4, <2>5
<1>3. \A p : Lookup(counts, p) \in Nat
  BY DEF Lookup, CountsOK
<1>4. ASSUME NEW p \in DOMAIN counts \cup counted
      PROVE  value(p) \in Nat /\ value(p) < InheritThreshold
  <2>1. CASE p \in counted
    BY <1>2, <1>3, <2>1
  <2>2. CASE p \notin counted
    <3>1. value(p) = counts[p] /\ p \in DOMAIN counts
      BY <1>3, <1>4, <2>2 DEF Lookup, CountsOK
    <3> QED
      BY <3>1 DEF CountsOK, CountsBelowThreshold
  <2> QED
    BY <2>1, <2>2
<1>5. counted \subseteq exc \X exc
  BY <1>2
<1> HIDE DEF counted, value, removed
<1>6. DOMAIN all = DOMAIN counts \cup counted /\ \A p \in DOMAIN all : all[p] = value(p)
  OBVIOUS
<1> HIDE DEF all
<1>7. /\ DOMAIN new = DOMAIN all \ removed
      /\ new = [p \in DOMAIN all \ removed |-> all[p]]
  BY <1>1 DEF Without, Restrict
<1> HIDE DEF new
<1>8. \A p \in DOMAIN new : new[p] \in Nat /\ new[p] < InheritThreshold
  BY <1>4, <1>6, <1>7
<1>9. new \in [DOMAIN new -> Nat]
  BY <1>7, <1>8
<1>10. InheritThreshold = Never => DOMAIN new = {}
  BY <1>5, <1>6, <1>7 DEF CountsOK
<1>11. DOMAIN new \subseteq DOMAIN counts \cup (exc \X exc)
  BY <1>5, <1>6, <1>7
<1> QED
  BY <1>8, <1>9, <1>10, <1>11 DEF new

(***************************************************************************)
(* The map of a compaction takes position kept[n] to n, and is the kind of *)
(* map the edge store is re-keyed by.                                      *)
(***************************************************************************)
LEMMA OldToNewShape ==
  ASSUME kernels \in Seq(Kernel), Len(kernels) <= MaxKernels,
         NEW kept \in Enumerations(Live, Len(kernels))
  PROVE  /\ DOMAIN OldToNew(kept) = Live
         /\ \A i \in Live : OldToNew(kept)[i] \in DOMAIN kept /\ kept[OldToNew(kept)[i]] = i
         /\ OldToNew(kept) \in IndexMaps
<1> DEFINE f == OldToNew(kept)
<1>1. PICK m \in 0 .. Len(kernels) :
        /\ kept \in [1 .. m -> 1 .. Len(kernels)]
        /\ Range(kept) = Live
        /\ \A i \in 1 .. m : kept[i] \in Live
        /\ \A i, j \in 1 .. m : i < j => kept[i] < kept[j]
        /\ \A i, j \in 1 .. m : kept[i] = kept[j] => i = j
  BY KeptShape
<1>2. Len(kernels) \in Nat /\ m \in Nat /\ DOMAIN kept = 1 .. m
  BY <1>1, SeqShape
<1>3. /\ DOMAIN f = Live
      /\ f = [i \in Live |-> CHOOSE n \in 1 .. m : kept[n] = i]
  BY <1>1, <1>2 DEF OldToNew
<1>4. ASSUME NEW i \in Live
      PROVE  f[i] \in 1 .. m /\ kept[f[i]] = i
  <2>1. \E n \in 1 .. m : kept[n] = i
    BY <1>1, <1>2 DEF Range
  <2> HIDE DEF f
  <2> QED
    BY <1>3, <2>1
<1> HIDE DEF f
<1>5. Node = 1 .. MaxKernels /\ MaxKernels \in Nat
  BY KernelConfigAssumption
<1>6. Live \in SUBSET Node /\ 1 .. m \subseteq Node
  BY <1>1, <1>2, <1>5, SeqShape DEF Live
<1>7. f \in [Live -> Node]
  BY <1>3, <1>4, <1>6
<1>8. ASSUME NEW i \in Live, NEW j \in Live, i < j
      PROVE  f[i] < f[j]
  <2>1. i \in Nat /\ j \in Nat /\ f[i] \in Nat /\ f[j] \in Nat
    BY <1>4, <1>5, <1>6
  <2>2. f[j] < f[i] => kept[f[j]] < kept[f[i]]
    BY <1>1, <1>4
  <2>3. f[j] = f[i] => i = j
    BY <1>4
  <2> QED
    BY <1>4, <1>8, <2>1, <2>2, <2>3
<1>9. ASSUME NEW j \in Live, NEW n \in Node, n < f[j]
      PROVE  n \in Range(f)
  <2>1. n \in 1 .. m
    BY <1>2, <1>4, <1>5, <1>9
  <2>2. kept[n] \in Live /\ f[kept[n]] = n
    BY <1>1, <1>4, <2>1
  <2> QED
    BY <1>3, <2>2 DEF Range
<1>10. IsIndexMap(f)
  BY <1>3, <1>8, <1>9 DEF IsIndexMap
<1>11. f \in IndexMaps
  BY <1>6, <1>7, <1>10 DEF IndexMaps
<1> QED
  BY <1>2, <1>3, <1>4, <1>11 DEF f

(***************************************************************************)
(* The invariant.                                                          *)
(***************************************************************************)
KInv == IInv /\ TypeOK /\ IndicesInRange /\ CountsOK

LEMMA TypeParts ==
  ASSUME TypeOK
  PROVE  EdgesOK(edges) /\ edges = [k \in DOMAIN edges |-> edges[k]]
BY StoreVocabulary DEF TypeOK, E!TypeOK, EdgesOK

\* The part of it that is not about the vector, in terms of its length.
InRange ==
  /\ stm \in Seq(1 .. Len(kernels)) /\ Len(stm) <= StmCapacity
  /\ EdgesOK(edges)
  /\ \A k \in DOMAIN edges : k[1] \in 1 .. Len(kernels) /\ k[2] \in 1 .. Len(kernels)
  /\ CountsOK
  /\ \A p \in DOMAIN counts : p[1] \in 1 .. Len(kernels) /\ p[2] \in 1 .. Len(kernels)
  /\ scratch \in Seq(Nat) /\ Len(scratch) \in {Len(kernels) - 1, Len(kernels)}

LEMMA InRangeInvariant == IInv /\ InRange => KInv
<1> SUFFICES ASSUME IInv, InRange PROVE KInv
  OBVIOUS
<1>1. /\ Len(kernels) \in Nat /\ Len(kernels) <= MaxKernels
      /\ DOMAIN kernels = 1 .. Len(kernels) /\ kernels \in Seq(Kernel)
  BY SeqShape DEF IInv, Core
<1>2. DOMAIN stm = 1 .. Len(stm) /\ \A p \in 1 .. Len(stm) : stm[p] \in 1 .. Len(kernels)
  BY LenProperties DEF InRange
<1>3. stm \in Seq(Node)
  <2> DEFINE n == Len(kernels)
  <2>1. Node = 1 .. MaxKernels /\ MaxKernels \in Nat /\ n \in Nat /\ n <= MaxKernels
    BY <1>1, KernelConfigAssumption
  <2> HIDE DEF n
  <2>2. 1 .. n \subseteq Node
    BY <2>1
  <2> QED
    BY <2>2, SeqMonotonic DEF n, InRange
<1>4. cache = NoCache \/ cache \in Seq(Input)
  <2>1. Centroids \in [1 .. Len(kernels) -> Input]
    BY <1>1, SeqShape DEF Centroids, Kernel
  <2>2. Centroids \in Seq(Input)
    <3> HIDE DEF Centroids
    <3> QED
      BY <1>1, <2>1, SeqMade
  <2> QED
    BY <2>2 DEF IInv, Core, CacheCoherent
<1>5. E!TypeOK
  BY StoreVocabulary DEF E!TypeOK, EdgesOK, IInv, Core, InRange
<1>6. TypeOK
  BY <1>1, <1>3, <1>4, <1>5 DEF TypeOK, CountsOK, InRange
<1>7. IndicesInRange
  BY <1>1, <1>2 DEF IndicesInRange, InRange
<1> QED
  BY <1>6, <1>7 DEF KInv, InRange

LEMMA InRangeAfter == IInv' /\ InRange' => KInv'
BY InRangeInvariant, PTL

LEMMA KInvParts ==
  ASSUME KInv
  PROVE  /\ kernels \in Seq(Kernel) /\ Len(kernels) \in Nat /\ Len(kernels) <= MaxKernels
         /\ DOMAIN kernels = 1 .. Len(kernels)
         /\ stm \in Seq(1 .. Len(kernels)) /\ Len(stm) <= StmCapacity
         /\ EdgesOK(edges)
         /\ \A k \in DOMAIN edges : k[1] \in 1 .. Len(kernels) /\ k[2] \in 1 .. Len(kernels)
         /\ CountsOK
         /\ \A p \in DOMAIN counts : p[1] \in 1 .. Len(kernels) /\ p[2] \in 1 .. Len(kernels)
         /\ scratch \in Seq(Nat) /\ DOMAIN scratch = 1 .. Len(scratch)
         /\ Len(scratch) \in {Len(kernels) - 1, Len(kernels)}
<1>1. /\ kernels \in Seq(Kernel) /\ Len(kernels) \in Nat /\ Len(kernels) <= MaxKernels
      /\ DOMAIN kernels = 1 .. Len(kernels)
  BY SeqShape DEF KInv, IInv, Core
<1>2. stm \in Seq(1 .. Len(kernels))
  <2>1. Len(stm) \in Nat /\ DOMAIN stm = 1 .. Len(stm) /\ stm \in [1 .. Len(stm) -> Node]
    BY LenProperties DEF KInv, TypeOK
  <2>2. \A p \in 1 .. Len(stm) : stm[p] \in 1 .. Len(kernels)
    BY <1>1, <2>1 DEF KInv, IndicesInRange
  <2>3. stm \in [1 .. Len(stm) -> 1 .. Len(kernels)]
    BY <2>1, <2>2
  <2> QED
    BY <2>1, <2>3, SeqMade
<1>3. EdgesOK(edges)
  BY TypeParts DEF KInv
<1>4. DOMAIN scratch = 1 .. Len(scratch)
  BY LenProperties DEF KInv, TypeOK
<1> QED
  BY <1>1, <1>2, <1>3, <1>4 DEF KInv, TypeOK, IndicesInRange

LEMMA ScratchLength ==
  ASSUME NEW m \in Nat, NEW n \in Nat, m \in {n - 1, n}, NEW f, DOMAIN f = (1 .. m) \cup (1 .. n),
         \A j \in DOMAIN f : f[j] = 0, f = [j \in DOMAIN f |-> f[j]]
  PROVE  f \in Seq(Nat) /\ Len(f) = n
<1>1. DOMAIN f = 1 .. n
  OBVIOUS
<1>2. f \in [1 .. n -> Nat]
  BY <1>1
<1> QED
  BY <1>2, SeqMade

LEMMA TickInRange ==
  ASSUME KInv, NEW x \in Input, NEW c \in Label, NEW t \in E!Time, NEW mode,
         Tick(x, c, t, mode)
  PROVE  KInv'
<1> DEFINE n == Len(kernels)
           n1 == Len(kernels')
           won == Won(x, c, t)
           act == Act(x, c, t)
<1>1. IInv' /\ IInv /\ Core /\ t \in Nat
  BY TickInvariant DEF KInv, IInv, E!Time
<1>2. /\ n \in Nat /\ n1 \in Nat /\ n1 = Len(won) /\ (n1 = n \/ n1 = n + 1)
      /\ won \in Seq(Kernel) /\ Best(x) \in 1 .. n1
  BY <1>1, WonShape, TickKernels, SeqShape DEF Core
<1>3. /\ stm \in Seq(1 .. n) /\ Len(stm) <= StmCapacity
      /\ EdgesOK(edges)
      /\ \A k \in DOMAIN edges : k[1] \in 1 .. n /\ k[2] \in 1 .. n
      /\ CountsOK
      /\ \A p \in DOMAIN counts : p[1] \in 1 .. n /\ p[2] \in 1 .. n
      /\ scratch \in Seq(Nat) /\ DOMAIN scratch = 1 .. Len(scratch)
      /\ Len(scratch) \in {n - 1, n}
      /\ DOMAIN kernels = 1 .. n
  BY KInvParts
<1>4. /\ Best(x) <= MaxKernels
      /\ stm' = StmUpdate(won, Best(x))
      /\ edges' = E!TickEdges(edges, act, t, mode)
      /\ \E label \in [Unlabelled(x, c, t) -> Label] :
           counts' = Counted(won, Exc(x, c, t), label)
      /\ scratch' = ZeroTouched(Scores(x))
  BY TickUnfolded
<1> HIDE DEF won, act, n1, n
<1>5. stm' \in Seq(1 .. n1) /\ Len(stm') <= StmCapacity
  <2>1. stm \in Seq(1 .. Len(won))
    <3>1. 1 .. n \subseteq 1 .. n1
      BY <1>2
    <3> QED
      BY <1>2, <1>3, <3>1, SeqMonotonic
  <2> QED
    BY <1>2, <1>3, <1>4, <2>1, StmUpdateShape
<1>6. /\ EdgesOK(edges')
      /\ \A k \in DOMAIN edges' : k[1] \in 1 .. n1 /\ k[2] \in 1 .. n1
  <2>1. act \in Activation /\ DOMAIN act \subseteq 1 .. n1
    BY <1>1, <1>2, <1>4, ActShape DEF won, act
  <2>2. EdgesOK(edges') /\ DOMAIN edges' \subseteq DOMAIN edges \cup Pairs(act)
    BY <1>1, <1>3, <1>4, <2>1, TickEdgesShape
  <2>3. \A k \in Pairs(act) : k[1] \in 1 .. n1 /\ k[2] \in 1 .. n1
    BY <2>1 DEF Pairs
  <2>4. \A i \in 1 .. n : i \in 1 .. n1
    BY <1>2
  <2> QED
    BY <1>3, <2>2, <2>3, <2>4
<1>7. CountsOK' /\ \A p \in DOMAIN counts' : p[1] \in 1 .. n1 /\ p[2] \in 1 .. n1
  <2> DEFINE exc == Exc(x, c, t)
  <2>1. exc \subseteq 1 .. n /\ (InheritThreshold = Never => exc = {})
    <3>1. DOMAIN Scores(x) = 1 .. n
      BY <1>1, ScoresExact DEF Core, n
    <3> QED
      BY <3>1 DEF Exc, CoExcited
  <2>2. PICK label \in [Unlabelled(x, c, t) -> Label] : counts' = Counted(won, exc, label)
    BY <1>4
  <2>3. DOMAIN label \subseteq exc /\ exc \subseteq Nat
    BY <2>1, <2>2 DEF Unlabelled
  <2> HIDE DEF exc
  <2>4. /\ DOMAIN counts' \subseteq DOMAIN counts \cup (exc \X exc)
        /\ counts' \in [DOMAIN counts' -> Nat]
        /\ InheritThreshold = Never => DOMAIN counts' = {}
        /\ \A p \in DOMAIN counts' : counts'[p] < InheritThreshold
    BY <1>3, <2>1, <2>2, <2>3, CountedShape
  <2>5. \A i \in 1 .. n : i \in 1 .. n1
    BY <1>2
  <2>6. \A p \in DOMAIN counts' : p[1] \in 1 .. n1 /\ p[2] \in 1 .. n1
    BY <1>3, <2>1, <2>4, <2>5
  <2> QED
    BY <2>4, <2>6 DEF CountsOK, CountsBelowThreshold
<1>8. scratch' \in Seq(Nat) /\ Len(scratch') = n
  <2>1. /\ DOMAIN scratch' = (1 .. Len(scratch)) \cup (1 .. n)
        /\ \A j \in DOMAIN scratch' : scratch'[j] = 0
        /\ scratch' = [j \in DOMAIN scratch' |-> scratch'[j]]
    BY <1>1, <1>3, <1>4, ResizedClean DEF ZeroTouched, Resized, Core
  <2>2. Len(scratch) \in Nat
    BY <1>3, LenProperties
  <2> QED
    BY <1>2, <1>3, <2>1, <2>2, ScratchLength
<1>9. Len(scratch') \in {n1 - 1, n1}
  BY <1>2, <1>8
<1> QED
  BY <1>1, <1>5, <1>6, <1>7, <1>8, <1>9, InRangeAfter DEF n1, InRange

LEMMA CompactInRange ==
  ASSUME KInv, Compact
  PROVE  KInv'
<1> DEFINE n == Len(kernels)
           n1 == Len(kernels')
<1>1. PICK kept \in Enumerations(Live, n),
           held \in Enumerations({p \in DOMAIN stm : stm[p] \in Live}, Len(stm)) :
        /\ kernels' = Picked(kernels, kept)
        /\ edges' = Rekey(OldToNew(kept), edges)
        /\ stm' = StmReindex(kept, held)
        /\ counts' = CountsReindex(kept)
        /\ scratch' = [i \in DOMAIN kept |->
                         IF i \in DOMAIN scratch THEN scratch[i] ELSE 0]
  BY DEF Compact
<1> DEFINE f == OldToNew(kept)
<1>2. IInv' /\ IInv /\ Core
  BY CompactInvariant DEF KInv, IInv
<1>3. /\ stm \in Seq(1 .. n) /\ Len(stm) <= StmCapacity
      /\ EdgesOK(edges)
      /\ CountsOK
      /\ scratch \in Seq(Nat) /\ DOMAIN scratch = 1 .. Len(scratch)
      /\ kernels \in Seq(Kernel) /\ n <= MaxKernels
  BY KInvParts
<1>4. kernels' \in Seq(Kernel) /\ n1 \in Nat /\ DOMAIN kept = 1 .. n1
  BY <1>1, <1>3, CompactKernels, SeqShape
<1>5. /\ DOMAIN f = Live
      /\ \A i \in Live : f[i] \in 1 .. n1 /\ kept[f[i]] = i
      /\ f \in IndexMaps
  BY <1>3, <1>4, OldToNewShape
<1> HIDE DEF f, n, n1
<1>6. stm' \in Seq(1 .. n1) /\ Len(stm') <= StmCapacity
  <2> DEFINE H == {p \in DOMAIN stm : stm[p] \in Live}
  <2>1. PICK m \in 0 .. Len(stm) : held \in [1 .. m -> H]
    BY <1>1 DEF Enumerations
  <2>2. m \in Nat /\ m <= StmCapacity
    BY <1>3, <2>1, LenProperties, KernelConfigAssumption
  <2>3. stm' = [q \in 1 .. m |-> f[stm[held[q]]]]
    BY <1>1, <2>1 DEF StmReindex, f
  <2>4. \A q \in 1 .. m : f[stm[held[q]]] \in 1 .. n1
    BY <1>5, <2>1
  <2>5. stm' \in [1 .. m -> 1 .. n1]
    BY <2>3, <2>4
  <2> QED
    BY <2>2, <2>5, SeqMade
<1>7. /\ EdgesOK(edges')
      /\ \A k \in DOMAIN edges' : k[1] \in 1 .. n1 /\ k[2] \in 1 .. n1
  <2>1. edges' = Rekey(f, edges) /\ DOMAIN edges \subseteq Key
    BY <1>1, <1>3 DEF f, EdgesOK
  <2>2. /\ DOMAIN edges' = {MapKey(f, o) : o \in Mapped(f, DOMAIN edges)}
        /\ DOMAIN edges' \subseteq Key
    BY <1>5, <2>1, RekeyDomain
  <2>3. ASSUME NEW o \in Mapped(f, DOMAIN edges)
        PROVE  /\ edges'[MapKey(f, o)] \in E!Edge
               /\ MapKey(f, o) = <<f[o[1]], f[o[2]]>>
               /\ o[1] \in Live /\ o[2] \in Live
    <3>1. o \in Mapped(f, Key) /\ o \in DOMAIN edges
      BY <2>1, <2>3 DEF Mapped
    <3>2. edges'[MapKey(f, o)] = edges[o]
      BY <1>5, <2>1, RekeyValue
    <3>3. edges[o] \in E!Edge
      BY <1>3, <3>1 DEF EdgesOK
    <3> QED
      BY <1>5, <3>1, <3>2, <3>3, MapKeyOrdered DEF Mapped
  <2>4. \A k \in DOMAIN edges' : edges'[k] \in E!Edge /\ k[1] \in 1 .. n1 /\ k[2] \in 1 .. n1
    BY <1>5, <2>2, <2>3
  <2>5. edges' = [k \in DOMAIN edges' |-> edges'[k]]
    BY <2>1 DEF Rekey
  <2>6. edges' \in [DOMAIN edges' -> E!Edge]
    BY <2>4, <2>5
  <2> QED
    BY <2>2, <2>4, <2>6 DEF EdgesOK
<1>8. CountsOK' /\ \A p \in DOMAIN counts' : p[1] \in 1 .. n1 /\ p[2] \in 1 .. n1
  <2> DEFINE D == {p \in (1 .. n1) \X (1 .. n1) : <<kept[p[1]], kept[p[2]]>> \in DOMAIN counts}
  <2>1. counts' = [p \in D |-> counts[<<kept[p[1]], kept[p[2]]>>]]
    BY <1>1, <1>4 DEF CountsReindex
  <2>2. \A p \in D : /\ <<kept[p[1]], kept[p[2]]>> \in DOMAIN counts
                     /\ p[1] \in 1 .. n1 /\ p[2] \in 1 .. n1
    OBVIOUS
  <2> HIDE DEF D
  <2>3. DOMAIN counts' = D
    BY <2>1
  <2>4. \A p \in D : counts'[p] \in Nat /\ counts'[p] < InheritThreshold
    BY <1>3, <2>1, <2>2 DEF CountsOK, CountsBelowThreshold
  <2>5. counts' \in [D -> Nat]
    BY <2>1, <2>4
  <2>6. InheritThreshold = Never => D = {}
    BY <1>3, <2>2 DEF CountsOK
  <2> QED
    BY <2>2, <2>3, <2>4, <2>5, <2>6 DEF CountsOK, CountsBelowThreshold
<1>9. scratch' \in Seq(Nat) /\ Len(scratch') = n1
  <2>1. \A i \in 1 .. n1 : (IF i \in DOMAIN scratch THEN scratch[i] ELSE 0) \in Nat
    BY <1>3, ElementOfSeq
  <2>2. scratch' \in [1 .. n1 -> Nat]
    BY <1>1, <1>4, <2>1
  <2> QED
    BY <1>4, <2>2, SeqMade
<1> QED
  BY <1>2, <1>6, <1>7, <1>8, <1>9, InRangeAfter DEF n1, InRange

LEMMA SetEdgeInRange ==
  ASSUME KInv, NEW k \in ClientEdges, NEW w \in Weight, SetEdge(k, w)
  PROVE  KInv'
<1> DEFINE n == Len(kernels)
<1>1. /\ kernels' = kernels /\ stm' = stm /\ scratch' = scratch /\ counts' = counts
      /\ cache' = cache /\ now' = now
      /\ k[1] \in DOMAIN kernels /\ k[2] \in DOMAIN kernels
      /\ E!SetWeight(k, w)
  BY DEF SetEdge, E!SetWeight
<1>2. IInv'
  BY NextInvariant DEF KInv, Next
<1>3. /\ EdgesOK(edges) /\ DOMAIN kernels = 1 .. n
      /\ \A i \in DOMAIN edges : i[1] \in 1 .. n /\ i[2] \in 1 .. n
      /\ stm \in Seq(1 .. n) /\ Len(stm) <= StmCapacity
      /\ CountsOK
      /\ \A p \in DOMAIN counts : p[1] \in 1 .. n /\ p[2] \in 1 .. n
      /\ scratch \in Seq(Nat) /\ Len(scratch) \in {n - 1, n}
  BY KInvParts
<1>4. /\ EdgesOK(edges') /\ DOMAIN edges' \subseteq DOMAIN edges \cup {k}
  <2>1. CASE edges' = E!Without(edges, {k})
    <3>1. edges' = [i \in DOMAIN edges \ {k} |-> edges[i]]
      BY <2>1, StoreVocabulary DEF Without, Restrict
    <3> QED
      BY <1>3, <3>1 DEF EdgesOK
  <2>2. ASSUME w > 0,
               NEW l \in IF k \in DOMAIN edges THEN {edges[k].last} ELSE 0 .. now,
               edges' = E!Put(edges, {k}, [w |-> w, last |-> l])
        PROVE  EdgesOK(edges') /\ DOMAIN edges' \subseteq DOMAIN edges \cup {k}
    <3>1. edges' = [i \in DOMAIN edges \cup {k} |->
                      IF i = k THEN [w |-> w, last |-> l] ELSE edges[i]]
      BY <2>2, StoreVocabulary DEF Put
    <3>2. w \in Weight \ {0}
      BY <2>2, ConfigAssumption DEF Weight
    <3>3. l \in Nat
      <4>1. now \in Nat
        BY DEF KInv, IInv, Core, E!Time
      <4>2. k \in DOMAIN edges => edges[k].last \in Nat
        BY <1>3, StoreVocabulary DEF EdgesOK
      <4> QED
        BY <2>2, <4>1, <4>2
    <3>4. [w |-> w, last |-> l] \in E!Edge
      BY <3>2, <3>3, StoreVocabulary
    <3>5. k \in Key
      BY KernelConfigAssumption
    <3> QED
      BY <1>3, <3>1, <3>4, <3>5 DEF EdgesOK
  <2> QED
    BY <1>1, <2>1, <2>2 DEF E!SetWeight
<1>5. \A i \in DOMAIN edges' : i[1] \in 1 .. n /\ i[2] \in 1 .. n
  BY <1>1, <1>3, <1>4
<1>6. CountsOK'
  BY <1>1, <1>3 DEF CountsOK, CountsBelowThreshold
<1>7. InRange'
  BY <1>1, <1>3, <1>4, <1>5, <1>6 DEF InRange
<1> QED
  BY <1>2, <1>7, InRangeAfter

\* Steps that leave the vector as long as it is, and the edges alone.
LEMMA SameLengthInRange ==
  ASSUME KInv, IInv', Len(kernels') = Len(kernels),
         edges' = edges, stm' = stm, scratch' = scratch,
         counts' = counts \/ counts' = EmptyMap
  PROVE  KInv'
<1>1. CountsOK' /\ DOMAIN counts' \subseteq DOMAIN counts
  <2>1. CountsOK
    BY DEF KInv
  <2>2. DOMAIN EmptyMap = {} /\ EmptyMap \in [DOMAIN EmptyMap -> Nat]
    BY DEF EmptyMap
  <2>3. CASE counts' = counts
    BY <2>1, <2>3 DEF CountsOK, CountsBelowThreshold
  <2>4. CASE counts' = EmptyMap
    BY <2>2, <2>4 DEF CountsOK, CountsBelowThreshold
  <2> QED
    BY <2>3, <2>4
<1>2. InRange
  BY KInvParts DEF InRange
<1>3. InRange'
  BY <1>1, <1>2 DEF InRange
<1> QED
  BY <1>3, InRangeAfter

LEMMA NextInRange == KInv /\ [Next]_vars => KInv'
<1> SUFFICES ASSUME KInv, [Next]_vars PROVE KInv'
  OBVIOUS
<1>1. IInv'
  BY NextInvariant DEF KInv
<1>2. ASSUME NEW x \in Input, NEW c \in Label, NEW t \in E!Time, NEW mode \in DecayMode,
             Tick(x, c, t, mode)
      PROVE  KInv'
  BY <1>2, TickInRange
<1>3. CASE Compact
  BY <1>3, CompactInRange
<1>4. ASSUME NEW k \in ClientEdges, NEW w \in Weight, SetEdge(k, w)
      PROVE  KInv'
  BY <1>4, SetEdgeInRange
<1>5. ASSUME NEW i \in DOMAIN kernels, MarkExtinct(i)
      PROVE  KInv'
  <2>1. kernels' = [kernels EXCEPT ![i].extinct = TRUE]
    BY <1>5 DEF MarkExtinct
  <2>2. /\ kernels \in Seq(Kernel) /\ i \in 1 .. Len(kernels)
        /\ [kernels[i] EXCEPT !.extinct = TRUE] \in Kernel
    <3>1. kernels \in Seq(Kernel) /\ i \in 1 .. Len(kernels)
      BY KInvParts
    <3>2. kernels[i] \in Kernel
      BY <3>1, SeqShape
    <3> QED
      BY <3>1, <3>2 DEF Kernel
  <2>3. Len(kernels') = Len(kernels)
    BY <2>1, <2>2, ExceptSeq
  <2> QED
    BY <1>1, <1>5, <2>3, SameLengthInRange DEF MarkExtinct
<1>6. CASE SaveLoad
  BY <1>1, <1>6, SameLengthInRange DEF SaveLoad
<1>7. CASE UNCHANGED vars
  BY <1>1, <1>7, SameLengthInRange DEF vars
<1> QED
  BY <1>2, <1>3, <1>4, <1>5, <1>6, <1>7 DEF Next, TrainNext

LEMMA InitInRange == Init => KInv
<1> SUFFICES ASSUME Init PROVE KInv
  OBVIOUS
<1>1. IInv
  BY InitInvariant
<1>2. /\ kernels = <<>> /\ edges = [k \in {} |-> [w |-> 1, last |-> 0]] /\ stm = <<>>
      /\ scratch = <<>> /\ counts = [k \in {} |-> 0]
  BY DEF Init, E!NoEdges, EmptyMap
<1>3. EdgesOK(edges) /\ CountsOK
  BY <1>2 DEF EdgesOK, CountsOK, CountsBelowThreshold
<1>4. InRange
  BY <1>2, <1>3, KernelConfigAssumption DEF InRange
<1> QED
  BY <1>1, <1>4, InRangeInvariant

LEMMA KernelIndexInvariant == Spec => []KInv
BY InitInRange, NextInRange, PTL DEF Spec

(***************************************************************************)
(* Kernels, memory, edges, counts, scratch and cache keep their types, and *)
(* the memory its capacity, under every call.                              *)
(***************************************************************************)
THEOREM KernelTypeCorrect == Spec => []TypeOK
<1>1. KInv => TypeOK
  BY DEF KInv
<1> QED
  BY <1>1, KernelIndexInvariant, PTL

(***************************************************************************)
(* No position dangles, whatever is grown, evicted, learned, pruned,       *)
(* compacted or set from outside: memory, edges and counts refer to        *)
(* kernels of the vector, and the scratch is at most one entry behind it.  *)
(***************************************************************************)
THEOREM KernelIndicesInRange == Spec => []IndicesInRange
<1>1. KInv => IndicesInRange
  BY DEF KInv
<1> QED
  BY <1>1, KernelIndexInvariant, PTL

(***************************************************************************)
(* No co-activation count is left at the threshold or above it.            *)
(***************************************************************************)
THEOREM KernelCountsBelowThreshold == Spec => []CountsBelowThreshold
<1>1. KInv => CountsBelowThreshold
  BY DEF KInv, CountsOK
<1> QED
  BY <1>1, KernelIndexInvariant, PTL

(***************************************************************************)
(* Training alone.                                                         *)
(***************************************************************************)
LEMMA TickJoins ==
  ASSUME KInv, EdgesJoinSameClass, NEW x \in Input, NEW c \in Label, NEW t \in E!Time,
         NEW mode, Tick(x, c, t, mode)
  PROVE  EdgesJoinSameClass'
<1> DEFINE n == Len(kernels)
           won == Won(x, c, t)
           act == Act(x, c, t)
<1>1. Core /\ t \in Nat /\ Best(x) <= MaxKernels
  BY TickUnfolded DEF KInv, IInv, E!Time
<1>2. /\ EdgesOK(edges)
      /\ \A k \in DOMAIN edges : k[1] \in 1 .. n /\ k[2] \in 1 .. n
  BY KInvParts
<1>3. /\ act \in Activation
      /\ \A i \in DOMAIN act : i \in 1 .. Len(won) /\ c # NoClass /\ won[i].class = c
  BY <1>1, ActShape
<1>4. /\ \A i \in 1 .. n : kernels[i].class # NoClass => kernels'[i].class = kernels[i].class
      /\ \A i \in 1 .. Len(won) : won[i].class # NoClass => kernels'[i].class = won[i].class
  BY <1>1, TickKernels DEF Continues
<1>5. DOMAIN edges' \subseteq DOMAIN edges \cup Pairs(act)
  <2>1. edges' = E!TickEdges(edges, act, t, mode)
    BY TickUnfolded
  <2> HIDE DEF act
  <2> QED
    BY <1>1, <1>2, <1>3, <2>1, TickEdgesShape
<1>6. ASSUME NEW k \in DOMAIN edges'
      PROVE  kernels'[k[1]].class # NoClass /\ kernels'[k[1]].class = kernels'[k[2]].class
  <2>1. CASE k \in DOMAIN edges
    BY <1>2, <1>4, <2>1 DEF EdgesJoinSameClass
  <2>2. CASE k \in Pairs(act)
    <3>1. k[1] \in DOMAIN act /\ k[2] \in DOMAIN act
      BY <2>2 DEF Pairs
    <3> HIDE DEF act, won
    <3> QED
      BY <1>3, <1>4, <3>1
  <2> QED
    BY <1>5, <1>6, <2>1, <2>2
<1> QED
  BY <1>6 DEF EdgesJoinSameClass

LEMMA CompactJoins ==
  ASSUME KInv, EdgesJoinSameClass, Compact
  PROVE  EdgesJoinSameClass'
<1>1. PICK kept \in Enumerations(Live, Len(kernels)) :
        /\ kernels' = Picked(kernels, kept)
        /\ edges' = Rekey(OldToNew(kept), edges)
  BY DEF Compact
<1> DEFINE f == OldToNew(kept)
<1>2. /\ kernels \in Seq(Kernel) /\ Len(kernels) <= MaxKernels /\ DOMAIN edges \subseteq Key
  BY KInvParts DEF EdgesOK
<1>3. /\ DOMAIN kept = 1 .. Len(kernels')
      /\ \A i \in 1 .. Len(kernels') : kernels'[i] = kernels[kept[i]]
  BY <1>1, <1>2, CompactKernels
<1>4. /\ DOMAIN f = Live /\ f \in IndexMaps
      /\ \A i \in Live : f[i] \in 1 .. Len(kernels') /\ kept[f[i]] = i
  BY <1>2, <1>3, OldToNewShape
<1> HIDE DEF f
<1>5. DOMAIN edges' = {MapKey(f, o) : o \in Mapped(f, DOMAIN edges)}
  BY <1>1, <1>2, <1>4, RekeyDomain DEF f
<1>6. ASSUME NEW o \in Mapped(f, DOMAIN edges)
      PROVE  LET k == MapKey(f, o)
             IN  kernels'[k[1]].class # NoClass /\ kernels'[k[1]].class = kernels'[k[2]].class
  <2>1. o \in Mapped(f, Key) /\ o \in DOMAIN edges /\ o[1] \in Live /\ o[2] \in Live
    BY <1>2, <1>4 DEF Mapped
  <2>2. MapKey(f, o) = <<f[o[1]], f[o[2]]>>
    BY <1>4, <2>1, MapKeyOrdered
  <2>3. kernels'[f[o[1]]] = kernels[o[1]] /\ kernels'[f[o[2]]] = kernels[o[2]]
    BY <1>3, <1>4, <2>1
  <2> QED
    BY <2>1, <2>2, <2>3 DEF EdgesJoinSameClass
<1> QED
  BY <1>5, <1>6 DEF EdgesJoinSameClass

LEMMA TrainInvariant == TrainSpec => [](KInv /\ EdgesJoinSameClass)
<1> DEFINE Inv == KInv /\ EdgesJoinSameClass
<1>1. Init => Inv
  BY InitInRange DEF EdgesJoinSameClass, Init, E!NoEdges
<1>2. Inv /\ [TrainNext]_vars => Inv'
  <2> SUFFICES ASSUME KInv, EdgesJoinSameClass, [TrainNext]_vars PROVE Inv'
    OBVIOUS
  <2>1. KInv'
    BY NextInRange DEF Next
  <2>2. ASSUME NEW x \in Input, NEW c \in Label, NEW t \in E!Time, NEW mode \in DecayMode,
               Tick(x, c, t, mode)
        PROVE  EdgesJoinSameClass'
    BY <2>2, TickJoins
  <2>3. ASSUME Compact PROVE EdgesJoinSameClass'
    BY <2>3, CompactJoins
  <2>4. ASSUME UNCHANGED vars PROVE EdgesJoinSameClass'
    BY <2>4 DEF vars, EdgesJoinSameClass
  <2> QED
    BY <2>1, <2>2, <2>3, <2>4 DEF TrainNext
<1> QED
  BY <1>1, <1>2, PTL DEF TrainSpec

(***************************************************************************)
(* Ticks and compactions link kernels of one class only: a label once      *)
(* given stays, and re-keying takes an edge to the positions its kernels   *)
(* have moved to.                                                          *)
(***************************************************************************)
THEOREM KernelEdgesJoinSameClass == TrainSpec => []EdgesJoinSameClass
BY TrainInvariant, PTL

(***************************************************************************)
(* Rule 3 in training.  IInv says that live kernels are recent; that the   *)
(* extinct ones are idle needs that the clock does not go back and that    *)
(* nothing touches a kernel that is extinct.                               *)
(***************************************************************************)
ExtinctIsIdle ==
  \A i \in DOMAIN kernels :
    kernels[i].extinct => P1Kernel # Never /\ Elapsed(now, kernels[i].last) > P1Kernel

LEMMA TickExtinguishes ==
  ASSUME IInv, ExtinctIsIdle, NEW x \in Input, NEW c \in Label, NEW t \in E!Time,
         NEW mode, Tick(x, c, t, mode)
  PROVE  ExtinctIsIdle'
<1> DEFINE n == Len(kernels)
<1>1. Core /\ n \in Nat /\ DOMAIN kernels = 1 .. n
  BY SeqShape DEF IInv, Core
<1>2. /\ DOMAIN kernels' = 1 .. Len(kernels')
      /\ \A i \in 1 .. n : kernels[i].extinct => kernels'[i] = kernels[i]
      /\ \A i \in 1 .. Len(kernels') :
           kernels'[i].extinct
             => \/ i \in 1 .. n /\ kernels[i].extinct
                \/ P1Kernel # Never /\ Elapsed(t, kernels'[i].last) > P1Kernel
  BY <1>1, TickKernels, SeqShape
<1>3. now' = t /\ t \in Nat /\ now \in Nat /\ now <= t
  BY <1>1, TickUnfolded, KernelConfigAssumption DEF E!Time, Core
<1>4. ASSUME NEW i \in 1 .. n, kernels[i].extinct
      PROVE  P1Kernel # Never /\ Elapsed(t, kernels'[i].last) > P1Kernel
  <2>1. P1Kernel # Never /\ Elapsed(now, kernels[i].last) > P1Kernel
    BY <1>1, <1>4 DEF ExtinctIsIdle
  <2>2. kernels[i].last \in Nat /\ P1Kernel \in Nat /\ kernels'[i] = kernels[i]
    BY <1>1, <1>2, <1>4, <2>1, SeqShape, KernelConfigAssumption DEF Kernel, Core
  <2> QED
    BY <1>3, <2>1, <2>2 DEF Elapsed
<1> QED
  BY <1>2, <1>3, <1>4 DEF ExtinctIsIdle

LEMMA TrainExtinguishes == TrainSpec => [](KInv /\ ExtinctIsIdle)
<1> DEFINE Inv == KInv /\ ExtinctIsIdle
<1>1. Init => Inv
  BY InitInRange DEF ExtinctIsIdle, Init
<1>2. Inv /\ [TrainNext]_vars => Inv'
  <2> SUFFICES ASSUME KInv, ExtinctIsIdle, [TrainNext]_vars PROVE Inv'
    OBVIOUS
  <2>1. KInv'
    BY NextInRange DEF Next
  <2>2. ASSUME NEW x \in Input, NEW c \in Label, NEW t \in E!Time, NEW mode \in DecayMode,
               Tick(x, c, t, mode)
        PROVE  ExtinctIsIdle'
    BY <2>2, TickExtinguishes DEF KInv
  <2>3. ASSUME Compact PROVE ExtinctIsIdle'
    <3>1. PICK kept \in Enumerations(Live, Len(kernels)) : kernels' = Picked(kernels, kept)
      BY <2>3 DEF Compact
    <3>2. /\ DOMAIN kernels' = 1 .. Len(kernels')
          /\ \A i \in 1 .. Len(kernels') : kept[i] \in Live /\ kernels'[i] = kernels[kept[i]]
      BY <3>1, KInvParts, CompactKernels, SeqShape
    <3> QED
      BY <3>2 DEF ExtinctIsIdle, Live
  <2>4. ASSUME UNCHANGED vars PROVE ExtinctIsIdle'
    BY <2>4 DEF vars, ExtinctIsIdle
  <2> QED
    BY <2>1, <2>2, <2>3, <2>4 DEF TrainNext
<1> QED
  BY <1>1, <1>2, PTL DEF TrainSpec

(***************************************************************************)
(* Ticks and compactions leave exactly those kernels extinct that have     *)
(* been inactive for more than p1_kernel ticks (graph.rs, the pass of Rule *)
(* 3 and touch): none too early, none too late, none touched afterwards.   *)
(***************************************************************************)
THEOREM KernelExtinctIffIdle == TrainSpec => []ExtinctIffIdle
<1>1. KInv /\ ExtinctIsIdle => ExtinctIffIdle
  <2> SUFFICES ASSUME KInv, ExtinctIsIdle, NEW i \in DOMAIN kernels, ~kernels[i].extinct,
                      P1Kernel # Never
               PROVE  ~(Elapsed(now, kernels[i].last) > P1Kernel)
    BY DEF ExtinctIffIdle, ExtinctIsIdle
  <2>1. Elapsed(now, kernels[i].last) <= P1Kernel
    BY DEF KInv, IInv, LiveIsRecent, Live
  <2>2. kernels[i].last \in Nat /\ now \in Nat /\ P1Kernel \in Nat
    <3>1. kernels[i] \in Kernel
      BY KInvParts, SeqShape
    <3>2. now \in Nat
      BY DEF KInv, IInv, Core, E!Time
    <3> QED
      BY <3>1, <3>2, KernelConfigAssumption DEF Kernel
  <2> QED
    BY <2>1, <2>2 DEF Elapsed
<1> QED
  BY <1>1, TrainExtinguishes, PTL

(***************************************************************************)
(* What training alone leaves in the edge store.  A weight is decayed,     *)
(* gained or set to w_init, never more than w_max, and the pass that ends  *)
(* a tick is judged by the clock of that tick; a compaction moves edges    *)
(* but judges none.                                                        *)
(***************************************************************************)
Trained(e, t) ==
  \A k \in DOMAIN e :
    /\ e[k].w >= MinWeight /\ e[k].w <= WMax
    /\ e[k].last <= t /\ t - e[k].last <= P1

TrainedEdges == Trained(edges, now)

LEMMA TickEdgesTrained ==
  ASSUME NEW e, EdgesOK(e), NEW act \in Activation, NEW t \in Nat, NEW mode,
         \A k \in DOMAIN e : e[k].w <= WMax /\ e[k].last <= t
  PROVE  Trained(E!TickEdges(e, act, t, mode), t)
<1> DEFINE d == IF mode = "Skip" THEN e ELSE E!Decay(e)
           s == E!Strengthen(d, act, t)
           p == E!TickEdges(e, act, t, mode)
<1>1. \A k \in DOMAIN e : e[k].w \in Weight \ {0} /\ e[k].last \in Nat
  BY StoreVocabulary DEF EdgesOK
<1>2. /\ \A w \in Weight : w \in Nat /\ Decayed[w] \in Weight /\ Decayed[w] <= w
      /\ WMax \in Nat /\ P1 \in Nat /\ MinWeight \in Nat
  BY ConfigAssumption DEF Weight
<1>3. /\ DOMAIN d = DOMAIN e
      /\ \A k \in DOMAIN d : /\ d[k].w \in Weight /\ d[k].w <= WMax
                             /\ d[k].last \in Nat /\ d[k].last <= t
  <2>1. CASE mode = "Skip"
    BY <1>1, <2>1
  <2>2. CASE mode # "Skip"
    <3>1. d = [k \in DOMAIN e |-> [w |-> Decayed[e[k].w], last |-> e[k].last]]
      BY <2>2 DEF E!Decay
    <3>2. \A k \in DOMAIN e : /\ Decayed[e[k].w] \in Weight /\ Decayed[e[k].w] \in Nat
                              /\ e[k].w \in Nat /\ Decayed[e[k].w] <= e[k].w
      BY <1>1, <1>2
    <3>3. \A k \in DOMAIN e : Decayed[e[k].w] <= WMax
      BY <1>2, <3>2
    <3> HIDE DEF d
    <3> QED
      BY <1>1, <3>1, <3>2, <3>3
  <2> QED
    BY <2>1, <2>2
<1> HIDE DEF d
<1>4. s = [k \in DOMAIN d \cup Pairs(act) |->
             IF k \in Pairs(act)
             THEN [w |-> NewWeight(E!WeightOf(d, k), Delta * act[k[1]] * act[k[2]]),
                   last |-> t]
             ELSE d[k]]
  BY StoreVocabulary DEF E!Strengthen
<1>5. ASSUME NEW k \in Pairs(act)
      PROVE  NewWeight(E!WeightOf(d, k), Delta * act[k[1]] * act[k[2]]) <= WMax
  <2>1. E!WeightOf(d, k) \in Nat
    BY <1>2, <1>3 DEF E!WeightOf
  <2>2. Delta * act[k[1]] * act[k[2]] \in Nat
    BY GainIsNat
  <2> QED
    BY <2>1, <2>2, ConfigAssumption DEF NewWeight
<1>6. \A k \in DOMAIN s : s[k].w <= WMax /\ s[k].last \in Nat /\ s[k].last <= t
  BY <1>3, <1>4, <1>5
<1>7. /\ p = [k \in {k \in DOMAIN s : E!Survives(s[k], t)} |-> s[k]]
  BY DEF E!TickEdges, E!Prune, E!Restrict, s, d
<1> HIDE DEF s, p
<1>8. ASSUME NEW k \in DOMAIN p
      PROVE  /\ p[k].w >= MinWeight /\ p[k].w <= WMax
             /\ p[k].last <= t /\ t - p[k].last <= P1
  <2>1. k \in DOMAIN s /\ p[k] = s[k] /\ E!Survives(s[k], t)
    BY <1>7
  <2>2. s[k].last \in Nat /\ s[k].last <= t
    BY <1>6, <2>1
  <2>3. s[k].w >= MinWeight /\ E!Elapsed(t, s[k].last) <= P1
    BY <2>1 DEF E!Survives
  <2>4. t - s[k].last <= P1
    BY <1>2, <2>2, <2>3 DEF E!Elapsed
  <2> QED
    BY <1>6, <2>1, <2>2, <2>3, <2>4
<1> QED
  BY <1>8 DEF Trained, p

LEMMA TickTrains ==
  ASSUME KInv, TrainedEdges, NEW x \in Input, NEW c \in Label, NEW t \in E!Time,
         NEW mode, Tick(x, c, t, mode)
  PROVE  TrainedEdges'
<1>1. /\ Core /\ t \in Nat /\ now \in Nat /\ now <= t /\ now' = t
      /\ Best(x) <= MaxKernels
      /\ edges' = E!TickEdges(edges, Act(x, c, t), t, mode)
  <2>1. now \in Nat
    BY KernelConfigAssumption DEF KInv, TypeOK, E!TypeOK, E!Time
  <2>2. now <= t /\ now' = t /\ t \in Nat
    BY <2>1, KernelConfigAssumption DEF Tick, E!Time
  <2> QED
    BY <2>1, <2>2, TickUnfolded DEF KInv, IInv
<1>2. EdgesOK(edges) /\ Act(x, c, t) \in Activation
  BY <1>1, KInvParts, ActShape
<1>3. \A k \in DOMAIN edges : edges[k].w <= WMax /\ edges[k].last <= t
  <2>1. \A k \in DOMAIN edges : edges[k].last \in Nat
    BY <1>2, StoreVocabulary DEF EdgesOK
  <2> QED
    BY <1>1, <2>1 DEF TrainedEdges, Trained
<1>4. Trained(E!TickEdges(edges, Act(x, c, t), t, mode), t)
  BY <1>1, <1>2, <1>3, TickEdgesTrained
<1> QED
  BY <1>1, <1>4 DEF TrainedEdges, Trained

LEMMA CompactKeepsTrained ==
  ASSUME KInv, TrainedEdges, Compact
  PROVE  TrainedEdges'
<1>1. PICK kept \in Enumerations(Live, Len(kernels)) : edges' = Rekey(OldToNew(kept), edges)
  BY DEF Compact
<1> DEFINE f == OldToNew(kept)
<1>2. DOMAIN edges \subseteq Key /\ f \in IndexMaps
  BY KInvParts, OldToNewShape DEF EdgesOK
<1> HIDE DEF f
<1>3. /\ DOMAIN edges' = {MapKey(f, o) : o \in Mapped(f, DOMAIN edges)}
      /\ \A o \in Mapped(f, DOMAIN edges) : edges'[MapKey(f, o)] = edges[o]
  BY <1>1, <1>2, RekeyDomain, RekeyValue DEF f
<1>4. \A o \in Mapped(f, DOMAIN edges) : o \in DOMAIN edges
  BY DEF Mapped
<1>5. now' = now
  BY DEF Compact
<1> QED
  BY <1>3, <1>4, <1>5 DEF TrainedEdges, Trained

(***************************************************************************)
(* Under training every edge of the graph, at every moment, weighs between *)
(* min_weight and w_max and was active within the last p1 ticks of the     *)
(* graph's clock: no edge is overweight, dated in the future, or left      *)
(* behind by the pruning pass, however many compactions have moved it.     *)
(***************************************************************************)
THEOREM KernelTrainedEdges == TrainSpec => []TrainedEdges
<1> DEFINE Inv == KInv /\ EdgesJoinSameClass
<1>1. Init => TrainedEdges
  BY DEF Init, E!NoEdges, TrainedEdges, Trained
<1>2. Inv /\ TrainedEdges /\ [TrainNext]_vars => TrainedEdges'
  <2> SUFFICES ASSUME KInv, TrainedEdges, [TrainNext]_vars PROVE TrainedEdges'
    OBVIOUS
  <2>1. ASSUME NEW x \in Input, NEW c \in Label, NEW t \in E!Time, NEW mode \in DecayMode,
               Tick(x, c, t, mode)
        PROVE  TrainedEdges'
    BY <2>1, TickTrains
  <2>2. ASSUME UNCHANGED vars PROVE TrainedEdges'
    BY <2>2 DEF vars, TrainedEdges, Trained
  <2> QED
    BY <2>1, <2>2, CompactKeepsTrained DEF TrainNext
<1> QED
  BY <1>1, <1>2, TrainInvariant, PTL DEF TrainSpec

(***************************************************************************)
(* The memory forgets the weakest.                                         *)
(***************************************************************************)
LEMMA TickForgets ==
  ASSUME KInv, NEW x \in Input, NEW c \in Label, NEW t \in E!Time, NEW mode,
         Tick(x, c, t, mode)
  PROVE  \E i \in DOMAIN kernels' :
           \/ stm' = Append(stm, i)
           \/ \E p \in WeakestPlaces(kernels') :
                stm' = Append(SubSeq(stm, 1, p - 1) \o SubSeq(stm, p + 1, Len(stm)), i)
<1> DEFINE n == Len(kernels)
           won == Won(x, c, t)
<1>1. Core /\ t \in Nat
  BY DEF KInv, IInv, E!Time
<1>2. /\ stm \in Seq(1 .. n) /\ Len(stm) <= StmCapacity /\ n \in Nat
      /\ DOMAIN stm = 1 .. Len(stm)
  BY KInvParts, LenProperties
<1>3. /\ won \in Seq(Kernel) /\ Best(x) \in 1 .. Len(won)
      /\ (Len(won) = n \/ Len(won) = n + 1)
  BY <1>1, WonShape
<1>4. \A i \in 1 .. Len(won) : kernels'[i].excitation = won[i].excitation
  <2>1. PICK label \in [Unlabelled(x, c, t) -> Label] :
          kernels' = Extinguish(Labelled(won, label), t)
    BY TickUnfolded
  <2>2. \A i \in 1 .. Len(won) : won[i] \in Kernel /\ DOMAIN won = 1 .. Len(won)
    BY <1>3, SeqShape
  <2> HIDE DEF won
  <2>3. /\ DOMAIN Labelled(won, label) = 1 .. Len(won)
        /\ \A i \in 1 .. Len(won) :
             /\ Labelled(won, label)[i].excitation = won[i].excitation
             /\ \/ Labelled(won, label)[i] = won[i]
                \/ Labelled(won, label)[i] = [won[i] EXCEPT !.class = label[i]]
    <3>1. DOMAIN won = 1 .. Len(won)
      BY <1>3, SeqShape
    <3> QED
      BY <2>2, <3>1 DEF Labelled, Kernel
  <2>4. ASSUME NEW i \in 1 .. Len(won)
        PROVE  kernels'[i].excitation = won[i].excitation
    <3>1. CASE Labelled(won, label)[i] = won[i]
      BY <2>1, <2>2, <2>3, <3>1 DEF Extinguish, Kernel
    <3>2. CASE Labelled(won, label)[i] = [won[i] EXCEPT !.class = label[i]]
      BY <2>1, <2>2, <2>3, <3>2 DEF Extinguish, Kernel
    <3> QED
      BY <2>3, <3>1, <3>2
  <2> QED
    BY <2>4
<1> HIDE DEF won
<1>5. stm \in Seq(1 .. Len(won))
  <2>1. 1 .. n \subseteq 1 .. Len(won)
    BY <1>2, <1>3
  <2> QED
    BY <1>2, <2>1, SeqMonotonic
<1>6. stm' = StmUpdate(won, Best(x)) /\ Best(x) \in DOMAIN kernels'
  <2>1. DOMAIN kernels' = 1 .. Len(won)
    BY <1>1, <1>3, WonShape, TickKernels, SeqShape DEF won
  <2> QED
    BY <1>3, <2>1, TickUnfolded DEF won
<1>7. CASE ~(Len(stm) >= StmCapacity)
  BY <1>6, <1>7 DEF StmUpdate
<1>8. CASE Len(stm) >= StmCapacity
  <2> DEFINE p == EvictPos(won)
  <2>1. stm # <<>>
    BY <1>8, KernelConfigAssumption
  <2>2. /\ p \in 1 .. Len(stm)
        /\ \A q \in 1 .. Len(stm) : won[stm[p]].excitation <= won[stm[q]].excitation
    BY <1>3, <1>5, <2>1, EvictPosHeld
  <2>3. stm' = Append(SubSeq(stm, 1, p - 1) \o SubSeq(stm, p + 1, Len(stm)), Best(x))
    BY <1>6, <1>8 DEF StmUpdate
  <2> HIDE DEF p
  <2>4. \A q \in 1 .. Len(stm) : stm[q] \in 1 .. Len(won)
    BY <1>5, ElementOfSeq
  <2>5. p \in WeakestPlaces(kernels')
    BY <1>2, <1>4, <2>2, <2>4 DEF WeakestPlaces
  <2> QED
    BY <1>6, <2>3, <2>5
<1> QED
  BY <1>7, <1>8

(***************************************************************************)
(* A tick appends to the memory and gives up at most one of its places, of *)
(* a kernel no other one held has been excited less than: min_by_key on    *)
(* the excitations after the winner's own has been counted.                *)
(***************************************************************************)
THEOREM KernelStmForgetsWeakest == Spec => StmForgetsWeakest
<1> DEFINE Forgets ==
             Len(kernels') >= Len(kernels) =>
               \/ stm' = stm
               \/ \E i \in DOMAIN kernels' :
                    \/ stm' = Append(stm, i)
                    \/ \E p \in WeakestPlaces(kernels') :
                         stm' = Append(SubSeq(stm, 1, p - 1) \o SubSeq(stm, p + 1, Len(stm)), i)
<1>1. KInv /\ [Next]_vars => Forgets
  <2> SUFFICES ASSUME KInv, [Next]_vars PROVE Forgets
    OBVIOUS
  <2>1. ASSUME NEW x \in Input, NEW c \in Label, NEW t \in E!Time, NEW mode \in DecayMode,
               Tick(x, c, t, mode)
        PROVE  Forgets
    BY <2>1, TickForgets
  <2>2. CASE Compact
    <3>1. PICK kept \in Enumerations(Live, Len(kernels)) : kernels' = Picked(kernels, kept)
      BY <2>2 DEF Compact
    <3>2. kernels \in Seq(Kernel) /\ Len(kernels) \in Nat
      BY KInvParts
    <3>3. Len(kernels') < Len(kernels) /\ Len(kernels') \in Nat
      BY <2>2, <3>1, <3>2, CompactKernels, SeqShape DEF Compact
    <3> QED
      BY <3>2, <3>3
  <2>3. CASE stm' = stm
    BY <2>3
  <2> QED
    BY <2>1, <2>2, <2>3 DEF Next, TrainNext, SetEdge, MarkExtinct, SaveLoad, vars
<1>2. [][Next]_vars /\ []KInv => [][Forgets]_vars
  BY <1>1, PTL
<1> QED
  BY <1>2, KernelIndexInvariant, PTL DEF Spec, StmForgetsWeakest

(***************************************************************************)
(* What a compaction says of the survivors, told by centroids.             *)
(***************************************************************************)
Moved(kept, held) ==
  /\ stm' = [n \in DOMAIN held |-> OldToNew(kept)[stm[held[n]]]]
  /\ counts' = CountsReindex(kept)
  /\ OldToNew(kept) \in IndexMaps /\ DOMAIN OldToNew(kept) = Live
  /\ edges' = Rekey(OldToNew(kept), edges)
  /\ \A i \in Live : LET n == OldToNew(kept)[i]
                     IN  n \in DOMAIN kernels' /\ kept[n] = i /\ kernels'[n] = kernels[i]
  /\ DOMAIN kept = DOMAIN kernels'
  /\ \A n \in DOMAIN kernels' : kept[n] \in Live /\ kernels'[n] = kernels[kept[n]]

LEMMA CompactMoves ==
  ASSUME KInv, Compact
  PROVE  \E kept \in Enumerations(Live, Len(kernels)),
            held \in Enumerations({p \in DOMAIN stm : stm[p] \in Live}, Len(stm)) :
           Moved(kept, held)
<1>1. PICK kept \in Enumerations(Live, Len(kernels)),
           held \in Enumerations({p \in DOMAIN stm : stm[p] \in Live}, Len(stm)) :
        /\ kernels' = Picked(kernels, kept)
        /\ edges' = Rekey(OldToNew(kept), edges)
        /\ stm' = StmReindex(kept, held)
        /\ counts' = CountsReindex(kept)
  BY DEF Compact
<1>2. kernels \in Seq(Kernel) /\ Len(kernels) <= MaxKernels
  BY KInvParts
<1>3. /\ kernels' \in Seq(Kernel) /\ DOMAIN kept = 1 .. Len(kernels')
      /\ \A i \in 1 .. Len(kernels') : kept[i] \in Live /\ kernels'[i] = kernels[kept[i]]
  BY <1>1, <1>2, CompactKernels
<1>4. DOMAIN kernels' = 1 .. Len(kernels')
  BY <1>3, LenProperties
<1>5. /\ DOMAIN OldToNew(kept) = Live /\ OldToNew(kept) \in IndexMaps
      /\ \A i \in Live : OldToNew(kept)[i] \in DOMAIN kept /\ kept[OldToNew(kept)[i]] = i
  BY <1>2, OldToNewShape
<1>6. Moved(kept, held)
  BY <1>1, <1>3, <1>4, <1>5 DEF StmReindex, Moved
<1> QED
  BY <1>6

LEMMA RelationsKept ==
  ASSUME KInv, Compact
  PROVE  Relations(kernels', edges', counts', DOMAIN kernels')
           = Relations(kernels, edges, counts, Live)
<1>1. PICK kept, held : Moved(kept, held)
  BY CompactMoves
<1> DEFINE f == OldToNew(kept)
<1> DEFINE D == DOMAIN kernels'
           Old == DOMAIN edges \cap (Live \X Live)
           New == DOMAIN edges' \cap (D \X D)
           Was(k) == <<{kernels[k[1]].centroid, kernels[k[2]].centroid}, edges[k]>>
           Is(k) == <<{kernels'[k[1]].centroid, kernels'[k[2]].centroid}, edges'[k]>>
<1>2. DOMAIN edges \subseteq Key
  BY KInvParts DEF EdgesOK
<1>3. /\ f \in IndexMaps /\ DOMAIN f = Live /\ edges' = Rekey(f, edges)
      /\ DOMAIN kept = D /\ counts' = CountsReindex(kept)
      /\ \A i \in Live : f[i] \in D /\ kept[f[i]] = i /\ kernels'[f[i]] = kernels[i]
      /\ \A n \in D : kept[n] \in Live /\ kernels'[n] = kernels[kept[n]]
  BY <1>1 DEF Moved
<1> HIDE DEF f
<1>4. Mapped(f, DOMAIN edges) = Old
  BY <1>2, <1>3 DEF Mapped, Key
<1>5. DOMAIN edges' = {MapKey(f, o) : o \in Old}
  BY <1>2, <1>3, <1>4, RekeyDomain
<1>6. ASSUME NEW o \in Old
      PROVE  MapKey(f, o) \in New /\ Is(MapKey(f, o)) = Was(o)
  <2>1. o \in Mapped(f, DOMAIN edges) /\ o \in Mapped(f, Key)
    BY <1>2, <1>4 DEF Mapped
  <2>2. MapKey(f, o) = <<f[o[1]], f[o[2]]>>
    BY <1>3, <2>1, MapKeyOrdered
  <2>3. edges'[MapKey(f, o)] = edges[o]
    BY <1>2, <1>3, <2>1, RekeyValue
  <2> QED
    BY <1>3, <1>5, <2>2, <2>3
<1> DEFINE OldC == DOMAIN counts \cap (Live \X Live)
           NewC == DOMAIN counts' \cap (D \X D)
           WasC(p) == <<kernels[p[1]].centroid, kernels[p[2]].centroid, counts[p]>>
           IsC(p) == <<kernels'[p[1]].centroid, kernels'[p[2]].centroid, counts'[p]>>
           Back(p) == <<kept[p[1]], kept[p[2]]>>
<1>7. ASSUME NEW p \in NewC
      PROVE  Back(p) \in OldC /\ IsC(p) = WasC(Back(p))
  BY <1>3 DEF CountsReindex
<1>8. ASSUME NEW q \in OldC
      PROVE  \E p \in NewC : Back(p) = q
  <2>1. q[1] \in Live /\ q[2] \in Live /\ q = <<q[1], q[2]>> /\ q \in DOMAIN counts
    OBVIOUS
  <2> DEFINE p == <<f[q[1]], f[q[2]]>>
  <2>2. p \in D \X D /\ Back(p) = q
    BY <1>3, <2>1
  <2>3. p \in DOMAIN counts'
    BY <1>3, <2>1, <2>2 DEF CountsReindex
  <2> QED
    BY <2>2, <2>3
<1>9. {Is(k) : k \in New} = {Was(k) : k \in Old}
  <2>1. \A k \in New : \E o \in Old : k = MapKey(f, o)
    BY <1>5
  <2> HIDE DEF Is, Was, Old, New
  <2> QED
    BY <1>6, <2>1
<1>10. {IsC(p) : p \in NewC} = {WasC(p) : p \in OldC}
  <2> HIDE DEF IsC, WasC, OldC, NewC, Back
  <2> QED
    BY <1>7, <1>8
<1> QED
  BY <1>9, <1>10 DEF Relations

LEMMA MemoryKept ==
  ASSUME KInv, Compact
  PROVE  \E held \in Enumerations({p \in DOMAIN stm : stm[p] \in Live}, Len(stm)) :
           [p \in DOMAIN stm' |-> kernels'[stm'[p]].centroid]
             = [p \in DOMAIN held |-> kernels[stm[held[p]]].centroid]
<1> DEFINE H == {p \in DOMAIN stm : stm[p] \in Live}
<1>1. PICK held \in Enumerations(H, Len(stm)) : \E kept : Moved(kept, held)
  BY CompactMoves
<1>2. \A n \in DOMAIN held : stm[held[n]] \in Live
  BY DEF Enumerations
<1>3. DOMAIN stm' = DOMAIN held
      /\ \A n \in DOMAIN held : kernels'[stm'[n]].centroid = kernels[stm[held[n]]].centroid
  BY <1>1, <1>2 DEF Moved
<1> QED
  BY <1>3

(***************************************************************************)
(* A compaction forgets the extinct and nothing else: edges, counts and    *)
(* memory of the survivors are the same, read through their centroids.     *)
(***************************************************************************)
THEOREM KernelCompactionPreserves == Spec => CompactionPreserves
<1> DEFINE Kept ==
       /\ Relations(kernels', edges', counts', DOMAIN kernels')
            = Relations(kernels, edges, counts, Live)
       /\ \E held \in Enumerations({p \in DOMAIN stm : stm[p] \in Live}, Len(stm)) :
            [p \in DOMAIN stm' |-> kernels'[stm'[p]].centroid]
              = [p \in DOMAIN held |-> kernels[stm[held[p]]].centroid]
<1> DEFINE Preserves == Len(kernels') < Len(kernels) => Kept
<1>1. KInv /\ [Next]_vars => Preserves
  <2> SUFFICES ASSUME KInv, [Next]_vars PROVE Preserves
    OBVIOUS
  <2>1. Len(kernels) \in Nat /\ kernels \in Seq(Kernel)
    BY KInvParts
  <2>2. ASSUME NEW x \in Input, NEW c \in Label, NEW t \in E!Time, NEW mode \in DecayMode,
               Tick(x, c, t, mode)
        PROVE  ~(Len(kernels') < Len(kernels))
    <3>1. Len(kernels') \in {Len(kernels), Len(kernels) + 1}
      BY <2>2, TickKernels DEF KInv, IInv
    <3> QED
      BY <2>1, <3>1
  <2>3. CASE Compact
    BY <2>3, RelationsKept, MemoryKept
  <2>4. ASSUME NEW i \in DOMAIN kernels, MarkExtinct(i)
        PROVE  ~(Len(kernels') < Len(kernels))
    <3>1. Len(kernels') = Len(kernels)
      BY <2>1, <2>4, LenProperties DEF MarkExtinct
    <3> QED
      BY <2>1, <3>1
  <2>5. ASSUME kernels' = kernels
        PROVE  ~(Len(kernels') < Len(kernels))
    BY <2>1, <2>5
  <2> HIDE DEF Kept
  <2> QED
    BY <2>2, <2>3, <2>4, <2>5 DEF Kept, Next, TrainNext, SetEdge, SaveLoad, vars
<1>2. [][Next]_vars /\ []KInv => [][Preserves]_vars
  BY <1>1, PTL
<1> QED
  BY <1>2, KernelIndexInvariant, PTL DEF Spec, CompactionPreserves

(***************************************************************************)
(* Propagation: what kernel j receives from the kernels that fire.         *)
(***************************************************************************)
Received(fired, j) ==
  SumFunctionOnSet([i \in fired |-> Gamma * E!WeightOf(edges, Canonical(i, j))], fired)

LEMMA ReceivedIsNat ==
  ASSUME KInv, NEW fired \in SUBSET (1 .. Len(kernels)), NEW j \in 1 .. Len(kernels)
  PROVE  /\ \A i \in fired : Gamma * E!WeightOf(edges, Canonical(i, j)) \in Nat
         /\ Received(fired, j) \in Nat
<1> DEFINE g == [i \in fired |-> Gamma * E!WeightOf(edges, Canonical(i, j))]
<1>1. \A k : E!WeightOf(edges, k) \in Nat
  <2>1. E!Edge = [w : Weight \ {0}, last : Nat] /\ Weight \subseteq Nat
    BY StoreVocabulary, ConfigAssumption DEF Weight
  <2>2. \A k \in DOMAIN edges : edges[k].w \in Nat
    BY <2>1, KInvParts DEF EdgesOK
  <2> QED
    BY <2>2 DEF E!WeightOf
<1>2. \A i \in fired : Gamma * E!WeightOf(edges, Canonical(i, j)) \in Nat
  BY <1>1, ProductIsNat, KernelConfigAssumption
<1>3. \A i \in fired : g[i] \in Nat
  BY <1>2
<1>4. IsFiniteSet(fired)
  <2> HIDE DEF g
  <2>1. Len(kernels) \in Nat
    BY KInvParts
  <2>2. IsFiniteSet(1 .. Len(kernels))
    BY <2>1, FS_Interval
  <2> QED
    BY <2>2, FS_Subset
<1> HIDE DEF g
<1>5. SumFunctionOnSet(g, fired) \in Nat
  BY <1>3, <1>4, SumIsNat
<1> QED
  BY <1>2, <1>5 DEF Received, g

\* The map that propagate returns: the kernels that have an edge to one that
\* fires, and what they receive.
LEMMA PropagateShape ==
  ASSUME KInv, NEW fired \in SUBSET (1 .. Len(kernels))
  PROVE  /\ DOMAIN Propagate(fired) = Reached(fired)
         /\ \A j \in 1 .. Len(kernels) :
              j \in Reached(fired) => Propagate(fired)[j] = Received(fired, j)
<1> DEFINE act == [i \in fired |-> 1]
<1>1. DOMAIN act = fired /\ \A i \in fired : act[i] = 1
  OBVIOUS
<1> HIDE DEF act
<1>2. Propagate(fired) = PropagateSoft(act)
  BY DEF Propagate, act
<1>3. DOMAIN Propagate(fired) = Reached(fired)
  BY <1>1, <1>2 DEF PropagateSoft
<1>4. ASSUME NEW j \in 1 .. Len(kernels), j \in Reached(fired)
      PROVE  Propagate(fired)[j] = Received(fired, j)
  <2> DEFINE gain(i) == Gamma * E!WeightOf(edges, Canonical(i, j))
             soft == [i \in fired |-> gain(i) * act[i]]
             hard == [i \in fired |-> gain(i)]
  <2>1. \A i \in fired : gain(i) \in Nat
    BY ReceivedIsNat
  <2> HIDE DEF gain
  <2>2. \A i \in fired : gain(i) * act[i] = gain(i)
    <3>1. \A m \in Nat : m * 1 = m
      OBVIOUS
    <3> QED
      BY <1>1, <2>1, <3>1
  <2>3. soft = hard /\ DOMAIN soft = fired
    BY <2>2
  <2>4. Propagate(fired)[j] = SumFunction(soft)
    BY <1>1, <1>2, <1>4 DEF PropagateSoft, gain
  <2> HIDE DEF soft, hard
  <2>5. Propagate(fired)[j] = SumFunctionOnSet(hard, fired)
    BY <2>3, <2>4 DEF SumFunction
  <2> QED
    BY <2>5 DEF Received, hard, gain
<1> QED
  BY <1>3, <1>4

\* The spread of a tick, from a clean scratch.
LEMMA SpreadShape ==
  ASSUME KInv, NEW sc, Fired(sc) \in SUBSET (1 .. Len(kernels)), NEW j \in 1 .. Len(kernels)
  PROVE  Spread(sc)[j] = IF j \in Reached(Fired(sc)) THEN Received(Fired(sc), j) ELSE 0
<1> DEFINE fired == Fired(sc)
<1>1. j \in DOMAIN Resized /\ Resized[j] = 0
  BY KInvParts, ResizedClean DEF Resized, KInv, IInv, Core
<1>2. j \in Touched(sc) <=> j \in Reached(fired)
  <2>1. j \in Node
    <3> DEFINE n == Len(kernels)
    <3>1. n \in Nat /\ n <= MaxKernels /\ MaxKernels \in Nat /\ Node = 1 .. MaxKernels
      BY KInvParts, KernelConfigAssumption
    <3>2. j \in 1 .. n
      OBVIOUS
    <3> HIDE DEF n
    <3> QED
      BY <3>1, <3>2
  <2> QED
    BY <1>1, <2>1 DEF Touched, Reached
<1>3. Spread(sc)[j] = IF j \in Touched(sc)
                      THEN Resized[j]
                             + SumFunction([i \in fired |->
                                              Gamma * E!WeightOf(edges, Canonical(i, j))])
                      ELSE Resized[j]
  BY <1>1 DEF Spread
<1>4. SumFunction([i \in fired |-> Gamma * E!WeightOf(edges, Canonical(i, j))])
        = Received(fired, j)
  BY DEF SumFunction, Received
<1>5. Received(fired, j) \in Nat
  BY ReceivedIsNat
<1> HIDE DEF fired
<1>6. 0 + Received(fired, j) = Received(fired, j)
  BY <1>5
<1> QED
  BY <1>1, <1>2, <1>3, <1>4, <1>6 DEF fired

LEMMA FiredShape ==
  ASSUME KInv, NEW x \in Input
  PROVE  /\ Scores(x) = ComputeScores(x)
         /\ Fired(ComputeScores(x)) \in SUBSET (1 .. Len(kernels))
<1>1. kernels \in Seq(Kernel) /\ CacheCoherent
  BY DEF KInv, IInv, Core
<1>2. DOMAIN ComputeScores(x) = 1 .. Len(kernels)
  BY <1>1, DirectScores
<1> QED
  BY <1>1, <1>2, ScoresAgree DEF Fired

(***************************************************************************)
(* The public propagate gives what a tick spreads, for any edges the       *)
(* caller has set: the tick reads its scratch and its cache, propagate     *)
(* computes afresh, and KInv leaves them nothing to differ in.             *)
(***************************************************************************)
THEOREM QueryPropagateMatchesTick == Spec => []PropagateMatchesTick
<1>1. KInv => PropagateMatchesTick
  <2> SUFFICES ASSUME KInv, NEW x \in Input, NEW j \in DOMAIN kernels
               PROVE  Spread(Scores(x))[j] = Lookup(GraphPropagate(x), j)
    BY DEF PropagateMatchesTick
  <2> DEFINE fired == Fired(ComputeScores(x))
  <2>1. j \in 1 .. Len(kernels)
    BY KInvParts
  <2>2. fired \in SUBSET (1 .. Len(kernels)) /\ Fired(Scores(x)) = fired
    BY FiredShape
  <2>3. GraphPropagate(x) = Propagate(fired)
    BY DEF GraphPropagate
  <2> HIDE DEF fired
  <2>4. Spread(Scores(x))[j] = IF j \in Reached(fired) THEN Received(fired, j) ELSE 0
    BY <2>1, <2>2, SpreadShape
  <2> QED
    BY <2>1, <2>2, <2>3, <2>4, PropagateShape DEF Lookup
<1> QED
  BY <1>1, KernelIndexInvariant, PTL

(***************************************************************************)
(* Prediction: a best match that does not fire itself was lifted over the  *)
(* threshold by a kernel that fires and has an edge to it.                 *)
(***************************************************************************)
LEMMA BestIsFiredOrReached ==
  ASSUME KInv, NEW x \in Input, Fired(ComputeScores(x)) # {}
  PROVE  LET fired == Fired(ComputeScores(x))
             best == BestMatch(Combined(x))
         IN  best \in 1 .. Len(kernels) /\ (best \in fired \/ best \in Reached(fired))
<1> DEFINE n == Len(kernels)
           sc == ComputeScores(x)
           fired == Fired(sc)
           got(i) == Lookup(GraphPropagate(x), i)
           all == Combined(x)
           best == BestMatch(all)
<1>1. /\ n \in Nat /\ DOMAIN kernels = 1 .. n /\ kernels \in Seq(Kernel)
      /\ Theta \in Nat
  BY KInvParts, KernelConfigAssumption
<1>2. DOMAIN sc = 1 .. n /\ \A i \in 1 .. n : sc[i] \in Nat
  BY <1>1, DirectScores
<1>3. fired \in SUBSET (1 .. n)
  BY FiredShape
<1>4. \A i \in 1 .. n : got(i) \in Nat /\ (i \notin Reached(fired) => got(i) = 0)
  <2>1. GraphPropagate(x) = Propagate(fired)
    BY DEF GraphPropagate
  <2>2. \A i \in 1 .. n : Received(fired, i) \in Nat
    BY <1>3, ReceivedIsNat
  <2> HIDE DEF fired
  <2> QED
    BY <1>3, <2>1, <2>2, PropagateShape DEF Lookup
<1>5. all = [i \in 1 .. n |-> sc[i] + got(i)]
  BY <1>1 DEF Combined
<1> HIDE DEF n, got, all, sc
<1>6. all \in [1 .. n -> Nat] /\ \A i \in 1 .. n : all[i] = sc[i] + got(i)
  BY <1>2, <1>4, <1>5
<1>7. PICK f \in 1 .. n : sc[f] >= Theta
  BY <1>2, <1>3 DEF Fired, sc
<1>8. best \in 1 .. n /\ \A j \in 1 .. n : all[j] <= all[best]
  <2>1. n \in Nat \ {0} /\ all \in [1 .. n -> Nat]
    BY <1>1, <1>6, <1>7
  <2> QED
    BY <2>1, BestMatchWins
<1> HIDE DEF best, fired
<1>9. all[best] >= Theta
  <2>1. /\ sc[f] \in Nat /\ got(f) \in Nat /\ all[f] = sc[f] + got(f)
        /\ all[f] \in Nat /\ all[best] \in Nat /\ all[f] <= all[best]
    BY <1>2, <1>4, <1>6, <1>7, <1>8
  <2> QED
    BY <1>1, <1>7, <2>1
<1>10. best \notin Reached(fired) => sc[best] >= Theta
  <2>1. /\ sc[best] \in Nat /\ all[best] = sc[best] + got(best)
        /\ best \notin Reached(fired) => got(best) = 0
    BY <1>2, <1>4, <1>6, <1>8
  <2> QED
    BY <1>9, <2>1
<1>11. sc[best] >= Theta => best \in fired
  BY <1>2, <1>8 DEF Fired, fired
<1> QED
  BY <1>8, <1>10, <1>11 DEF n, sc, all, best, fired

(***************************************************************************)
(* A trained graph predicts the label of a kernel that fires: activation   *)
(* crosses no edge between classes.                                        *)
(***************************************************************************)
THEOREM QueryPredictsFiredClass == TrainSpec => []PredictsFiredClass
<1>1. ASSUME KInv, EdgesJoinSameClass
      PROVE  PredictsFiredClass
  <2> SUFFICES ASSUME NEW x \in Input, Fired(ComputeScores(x)) # {}
               PROVE  Predict(x) \in {kernels[i].class : i \in Fired(ComputeScores(x))}
    BY DEF PredictsFiredClass
  <2> DEFINE fired == Fired(ComputeScores(x))
             best == BestMatch(Combined(x))
  <2>1. best \in 1 .. Len(kernels) /\ (best \in fired \/ best \in Reached(fired))
    BY <1>1, BestIsFiredOrReached
  <2>2. kernels # <<>>
    <3> HIDE DEF best
    <3>1. ~(best \in 1 .. 0) /\ Len(<< >>) = 0
      OBVIOUS
    <3> QED
      BY <2>1, <3>1
  <2>3. Predict(x) = kernels[best].class
    BY <2>2 DEF Predict
  <2> HIDE DEF best
  <2>4. CASE best \in fired
    BY <2>3, <2>4
  <2>5. CASE best \in Reached(fired)
    <3>1. PICK i \in fired : Canonical(i, best) \in DOMAIN edges
      BY <2>5 DEF Reached
    <3>2. kernels[i].class = kernels[best].class
      <4>1. Canonical(i, best) = <<i, best>> \/ Canonical(i, best) = <<best, i>>
        BY DEF Canonical
      <4> QED
        BY <1>1, <3>1, <4>1 DEF EdgesJoinSameClass
    <3> QED
      BY <2>3, <3>2
  <2> QED
    BY <2>1, <2>4, <2>5
<1> QED
  BY <1>1, TrainInvariant, PTL

(***************************************************************************)
(* Step 10 of tick is given by its result.  What kernel i ends up with     *)
(* depends only on the labels given before its turn, so there is exactly   *)
(* one result.                                                             *)
(***************************************************************************)
TakingTurns(ks, exc) == {i \in exc : ks[i].class = NoClass}

Settled(ks, exc, label, i) ==
  LET donors == Donors(ks, exc, label, i)
  IN  IF donors = {} THEN NoClass ELSE LabelAt(ks, label, i, Min(donors))

LEMMA SettledByEarlier ==
  ASSUME NEW ks, NEW exc, NEW a, NEW b, NEW i,
         DOMAIN a = DOMAIN b, \A j \in DOMAIN a : j < i => a[j] = b[j]
  PROVE  Settled(ks, exc, a, i) = Settled(ks, exc, b, i)
<1>1. \A j : LabelAt(ks, a, i, j) = LabelAt(ks, b, i, j)
  BY DEF LabelAt
<1>2. Partners(ks, exc, a, i) = Partners(ks, exc, b, i)
  BY <1>1 DEF Partners
<1>3. Donors(ks, exc, a, i) = Donors(ks, exc, b, i)
  BY <1>2 DEF Donors
<1> QED
  BY <1>1, <1>3 DEF Settled

LEMMA SettledIsLabel ==
  ASSUME NEW ks \in Seq(Kernel), NEW exc \in SUBSET DOMAIN ks,
         NEW label \in [TakingTurns(ks, exc) -> Label], NEW i
  PROVE  Settled(ks, exc, label, i) \in Label
<1> DEFINE donors == Donors(ks, exc, label, i)
<1>1. CASE donors = {}
  BY <1>1 DEF Settled, Label
<1>2. CASE donors # {}
  <2>1. donors \in SUBSET exc /\ exc \in SUBSET Nat
    BY SeqShape DEF Donors, Partners
  <2> HIDE DEF donors
  <2>2. \E m \in donors : \A y \in donors : m <= y
    BY <1>2, <2>1, LeastElement
  <2>3. Min(donors) \in donors
    BY <2>2 DEF Min
  <2>4. Min(donors) \in DOMAIN ks
    BY <2>1, <2>3
  <2>5. ks[Min(donors)].class \in Label
    BY <2>4, SeqShape DEF Kernel
  <2>6. LabelAt(ks, label, i, Min(donors)) \in Label
    BY <2>5 DEF LabelAt, Label
  <2> QED
    BY <1>2, <2>6 DEF Settled, donors
<1> QED
  BY <1>1, <1>2

LEMMA LabelPassDetermined ==
  ASSUME NEW ks \in Seq(Kernel), NEW exc \in SUBSET DOMAIN ks
  PROVE  \E label \in [TakingTurns(ks, exc) -> Label] :
           /\ Inherited(ks, exc, label)
           /\ \A other \in [TakingTurns(ks, exc) -> Label] :
                Inherited(ks, exc, other) => other = label
<1> DEFINE U == TakingTurns(ks, exc)
           SettledTo(label, n) == \A i \in U : i <= n => label[i] = Settled(ks, exc, label, i)
<1>1. Len(ks) \in Nat /\ \A i \in U : i \in Nat /\ 0 < i /\ i <= Len(ks)
  BY SeqShape DEF TakingTurns
<1>2. \A label \in [U -> Label] :
        Inherited(ks, exc, label) <=> SettledTo(label, Len(ks))
  BY <1>1 DEF Inherited, Settled
<1> HIDE DEF U
<1>3. ASSUME NEW a \in [U -> Label], NEW b \in [U -> Label],
             SettledTo(a, Len(ks)), SettledTo(b, Len(ks))
      PROVE  a = b
  <2> DEFINE P == {n \in Nat : \A i \in U : i <= n => a[i] = b[i]}
  <2>1. 0 \in P
    BY <1>1
  <2>2. ASSUME NEW n \in P PROVE n + 1 \in P
    <3> SUFFICES ASSUME NEW i \in U, i <= n + 1 PROVE a[i] = b[i]
      BY <2>2
    <3>1. \A j \in U : j < i => j <= n
      BY <1>1, <2>2
    <3>2. \A j \in U : j < i => a[j] = b[j]
      BY <2>2, <3>1
    <3>3. DOMAIN a = U /\ DOMAIN b = U
      OBVIOUS
    <3>4. Settled(ks, exc, a, i) = Settled(ks, exc, b, i)
      BY <3>2, <3>3, SettledByEarlier
    <3> QED
      BY <1>1, <1>3, <3>4
  <2>3. P = Nat
    <3> HIDE DEF P
    <3>1. P \in SUBSET Nat
      BY DEF P
    <3> QED
      BY <2>1, <2>2, <3>1, Induction
  <2>4. \A i \in U : a[i] = b[i]
    BY <1>1, <2>3
  <2> QED
    BY <2>4
<1>4. \E label \in [U -> Label] : SettledTo(label, Len(ks))
  <2> DEFINE P == {n \in Nat : \E label \in [U -> Label] : SettledTo(label, n)}
  <2>1. 0 \in P
    <3>1. [i \in U |-> NoClass] \in [U -> Label]
      BY DEF Label
    <3>2. \A i \in U : ~(i <= 0)
      BY <1>1
    <3> QED
      BY <3>1, <3>2
  <2>2. ASSUME NEW n \in P PROVE n + 1 \in P
    <3>1. PICK old \in [U -> Label] : SettledTo(old, n)
      BY <2>2
    <3> DEFINE new == [i \in U |-> IF i = n + 1 THEN Settled(ks, exc, old, i) ELSE old[i]]
    <3>2. \A i \in U : Settled(ks, exc, old, i) \in Label
      BY SettledIsLabel DEF U
    <3>3. new \in [U -> Label]
      BY <3>2
    <3>4. ASSUME NEW i \in U, i <= n + 1
          PROVE  new[i] = Settled(ks, exc, new, i)
      <4>1. \A j \in U : j < i => new[j] = old[j]
        BY <1>1, <2>2, <3>4
      <4>2. DOMAIN new = U /\ DOMAIN old = U
        OBVIOUS
      <4> HIDE DEF new
      <4>3. Settled(ks, exc, new, i) = Settled(ks, exc, old, i)
        BY <4>1, <4>2, SettledByEarlier
      <4>4. CASE i = n + 1
        BY <4>3, <4>4 DEF new
      <4>5. CASE i # n + 1
        <5>1. i <= n
          BY <1>1, <2>2, <3>4, <4>5
        <5>2. new[i] = old[i]
          BY <4>5 DEF new
        <5> QED
          BY <3>1, <4>3, <5>1, <5>2
      <4> QED
        BY <4>4, <4>5
    <3> HIDE DEF new
    <3>5. SettledTo(new, n + 1)
      BY <3>4
    <3> QED
      BY <2>2, <3>3, <3>5
  <2>3. P = Nat
    <3> HIDE DEF P
    <3>1. P \in SUBSET Nat
      BY DEF P
    <3> QED
      BY <2>1, <2>2, <3>1, Induction
  <2> QED
    BY <1>1, <2>3
<1>5. PICK label \in [U -> Label] : SettledTo(label, Len(ks))
  BY <1>4
<1> HIDE DEF SettledTo
<1>6. \A other \in [U -> Label] : Inherited(ks, exc, other) => other = label
  BY <1>2, <1>3, <1>5
<1>7. Inherited(ks, exc, label)
  BY <1>2, <1>5
<1> QED
  BY <1>6, <1>7 DEF U

(***************************************************************************)
(* A tick has exactly one outcome: TickOutcome, a function of the state    *)
(* and of the arguments.  Neither the labels of step 10 nor anything else  *)
(* leaves the model a choice, and it never fails to have an answer.  The   *)
(* last condition is the bound on the length of the vector.                *)
(***************************************************************************)
Inheritance(ks, exc) ==
  CHOOSE label \in [TakingTurns(ks, exc) -> Label] : Inherited(ks, exc, label)

TickOutcome(x, c, t, mode) ==
  LET won == Won(x, c, t)
      exc == Exc(x, c, t)
      label == Inheritance(won, exc)
  IN  <<Extinguish(Labelled(won, label), t),
        E!TickEdges(edges, Act(x, c, t), t, mode),
        StmUpdate(won, Best(x)),
        ZeroTouched(Scores(x)),
        Counted(won, exc, label),
        CacheAfter(Grew(x)),
        t>>

LEMMA TickByStages ==
  ASSUME NEW x, NEW c, NEW t, NEW mode
  PROVE  Tick(x, c, t, mode) <=>
         /\ t \in now .. MaxTick
         /\ Best(x) <= MaxKernels
         /\ stm' = StmUpdate(Won(x, c, t), Best(x))
         /\ edges' = E!TickEdges(edges, Act(x, c, t), t, mode)
         /\ \E label \in [TakingTurns(Won(x, c, t), Exc(x, c, t)) -> Label] :
              /\ Inherited(Won(x, c, t), Exc(x, c, t), label)
              /\ counts' = Counted(Won(x, c, t), Exc(x, c, t), label)
              /\ kernels' = Extinguish(Labelled(Won(x, c, t), label), t)
         /\ scratch' = ZeroTouched(Scores(x))
         /\ cache' = CacheAfter(Grew(x))
         /\ now' = t
BY DEF Tick, GrownKernels, Best, Won, Act, Exc, TakingTurns, Grew

THEOREM TickDetermined ==
  ASSUME IInv, NEW x \in Input, NEW c \in Label, NEW t \in E!Time, NEW mode,
         now <= t, Best(x) <= MaxKernels
  PROVE  Tick(x, c, t, mode) <=> vars' = TickOutcome(x, c, t, mode)
<1> DEFINE won == Won(x, c, t)
           exc == Exc(x, c, t)
<1>1. t \in now .. MaxTick /\ t \in Nat
  BY KernelConfigAssumption DEF IInv, Core, E!Time
<1>2. won \in Seq(Kernel) /\ exc \in SUBSET DOMAIN won
  <2>1. won \in Seq(Kernel) /\ Len(won) \in {Len(kernels), Len(kernels) + 1}
    BY <1>1, WonShape DEF IInv
  <2>2. exc \in SUBSET (1 .. Len(kernels)) /\ Len(kernels) \in Nat
    <3>1. DOMAIN Scores(x) = 1 .. Len(kernels)
      BY ScoresExact DEF IInv, Core
    <3> QED
      BY <3>1, SeqShape DEF Exc, CoExcited, IInv, Core
  <2>3. DOMAIN won = 1 .. Len(won)
    BY <2>1, SeqShape
  <2> HIDE DEF won, exc
  <2>4. 1 .. Len(kernels) \subseteq 1 .. Len(won)
    BY <2>1, <2>2
  <2> QED
    BY <2>1, <2>2, <2>3, <2>4
<1> HIDE DEF won, exc
<1> DEFINE label == Inheritance(won, exc)
<1>3. /\ label \in [TakingTurns(won, exc) -> Label]
      /\ Inherited(won, exc, label)
      /\ \A other \in [TakingTurns(won, exc) -> Label] :
           Inherited(won, exc, other) => other = label
  <2>1. PICK one \in [TakingTurns(won, exc) -> Label] :
          /\ Inherited(won, exc, one)
          /\ \A other \in [TakingTurns(won, exc) -> Label] :
               Inherited(won, exc, other) => other = one
    BY <1>2, LabelPassDetermined
  <2>2. label = one
    BY <2>1 DEF Inheritance
  <2> QED
    BY <2>1, <2>2
<1> HIDE DEF label
<1>4. (\E other \in [TakingTurns(won, exc) -> Label] :
         /\ Inherited(won, exc, other)
         /\ counts' = Counted(won, exc, other)
         /\ kernels' = Extinguish(Labelled(won, other), t))
      <=> /\ counts' = Counted(won, exc, label)
          /\ kernels' = Extinguish(Labelled(won, label), t)
  BY <1>3
<1>5. Tick(x, c, t, mode) <=>
        /\ stm' = StmUpdate(won, Best(x))
        /\ edges' = E!TickEdges(edges, Act(x, c, t), t, mode)
        /\ counts' = Counted(won, exc, label)
        /\ kernels' = Extinguish(Labelled(won, label), t)
        /\ scratch' = ZeroTouched(Scores(x))
        /\ cache' = CacheAfter(Grew(x))
        /\ now' = t
  BY <1>1, <1>4, TickByStages DEF won, exc
<1> QED
  BY <1>5 DEF vars, TickOutcome, won, exc, label

(***************************************************************************)
(* A compaction has exactly one outcome, too: the lists of the survivors   *)
(* and of the places that survivors hold in memory are what they are.      *)
(***************************************************************************)
Survivors(L, n) == CHOOSE kept \in Enumerations(L, n) : TRUE

CompactOutcome ==
  LET kept == Survivors(Live, Len(kernels))
      held == Survivors({p \in DOMAIN stm : stm[p] \in Live}, Len(stm))
  IN  <<Picked(kernels, kept),
        Rekey(OldToNew(kept), edges),
        StmReindex(kept, held),
        [n \in DOMAIN kept |-> IF n \in DOMAIN scratch THEN scratch[n] ELSE 0],
        CountsReindex(kept),
        NoCache,
        now>>

THEOREM CompactDetermined ==
  ASSUME TypeOK, Live # DOMAIN kernels
  PROVE  Compact <=> vars' = CompactOutcome
<1> DEFINE H == {p \in DOMAIN stm : stm[p] \in Live}
           kept == Survivors(Live, Len(kernels))
           held == Survivors(H, Len(stm))
<1>1. Len(kernels) \in Nat /\ Live \in SUBSET (1 .. Len(kernels))
  BY DEF TypeOK, Live
<1>2. Len(stm) \in Nat /\ H \in SUBSET (1 .. Len(stm))
  BY DEF TypeOK
<1>3. Enumerations(Live, Len(kernels)) = {kept}
  <2>1. PICK e : Enumerations(Live, Len(kernels)) = {e}
    BY <1>1, EnumerationDetermined
  <2> QED
    BY <2>1 DEF Survivors
<1>4. Enumerations(H, Len(stm)) = {held}
  <2> HIDE DEF H
  <2>1. PICK e : Enumerations(H, Len(stm)) = {e}
    BY <1>2, EnumerationDetermined
  <2> QED
    BY <2>1 DEF Survivors
<1> HIDE DEF kept, held
<1>5. Compact <=>
        /\ kernels' = Picked(kernels, kept)
        /\ edges' = Rekey(OldToNew(kept), edges)
        /\ stm' = StmReindex(kept, held)
        /\ counts' = CountsReindex(kept)
        /\ scratch' = [n \in DOMAIN kept |-> IF n \in DOMAIN scratch THEN scratch[n] ELSE 0]
        /\ cache' = NoCache /\ now' = now
  BY <1>3, <1>4 DEF Compact
<1> QED
  BY <1>5 DEF vars, CompactOutcome, kept, held

(***************************************************************************)
(* The calls a kernel graph makes on its store are calls that EdgeStore    *)
(* allows: every activation, index map and clock value it passes is one of *)
(* those the backends are shown to treat alike, and nothing else of the    *)
(* graph reaches the store.  So the graph runs on any backend that         *)
(* implements EdgeStore.                                                   *)
(***************************************************************************)
LEMMA StoreCalls ==
  /\ E!Activation = Activation /\ E!IndexMaps = IndexMaps /\ E!DecayMode = DecayMode
  /\ \A f, m : E!Rekey(f, m) = Rekey(f, m)
<1>1. E!Activation = Activation /\ E!DecayMode = DecayMode
  BY DEF Activation, E!Activation, DecayMode, E!DecayMode
<1>2. E!IndexMaps = IndexMaps
  BY DEF IndexMaps, E!IndexMaps, IsIndexMap, E!IsIndexMap, Range, E!Range
<1>3. \A f, m : E!Rekey(f, m) = Rekey(f, m)
  BY DEF Rekey, E!Rekey, Mapped, E!Mapped, MapKey, E!MapKey, Canonical, E!Canonical
<1> QED
  BY <1>1, <1>2, <1>3

DrivesEdgeStore == E!Spec

THEOREM KernelDrivesEdgeStore == Spec => DrivesEdgeStore
<1>1. Init => E!Init
  BY DEF Init, E!Init
<1>2. KInv /\ [Next]_vars => [E!Next]_(E!vars)
  <2> SUFFICES ASSUME KInv, [Next]_vars PROVE [E!Next]_(E!vars)
    OBVIOUS
  <2>1. ASSUME NEW x \in Input, NEW c \in Label, NEW t \in E!Time, NEW mode \in DecayMode,
               Tick(x, c, t, mode)
        PROVE  E!Next
    <3>1. t \in Nat /\ Best(x) <= MaxKernels
      BY <2>1, TickUnfolded DEF E!Time
    <3>2. Act(x, c, t) \in Activation
      BY <3>1, ActShape DEF KInv, IInv
    <3>3. E!Tick(Act(x, c, t), t, mode)
      BY <2>1, TickUnfolded DEF E!Tick
    <3> QED
      BY <3>2, <3>3, StoreCalls DEF E!Next
  <2>2. CASE Compact
    <3>1. PICK kept \in Enumerations(Live, Len(kernels)) : edges' = Rekey(OldToNew(kept), edges)
      BY <2>2 DEF Compact
    <3>2. OldToNew(kept) \in IndexMaps
      BY KInvParts, OldToNewShape
    <3>3. E!ReindexForCompact(OldToNew(kept))
      BY <2>2, <3>1, StoreCalls DEF E!ReindexForCompact, Compact
    <3> QED
      BY <3>2, <3>3, StoreCalls DEF E!Next
  <2>3. ASSUME NEW k \in ClientEdges, NEW w \in Weight, SetEdge(k, w)
        PROVE  E!Next
    <3>1. k \in E!Key /\ w \in E!Weight
      BY KernelConfigAssumption, StoreVocabulary
    <3> QED
      BY <2>3, <3>1 DEF SetEdge, E!Next
  <2>4. ASSUME NEW i \in DOMAIN kernels, MarkExtinct(i)
        PROVE  UNCHANGED E!vars
    BY <2>4 DEF MarkExtinct, E!vars
  <2>5. CASE SaveLoad
    BY <2>5 DEF SaveLoad, E!vars
  <2>6. CASE UNCHANGED vars
    BY <2>6 DEF vars, E!vars
  <2> QED
    BY <2>1, <2>2, <2>3, <2>4, <2>5, <2>6 DEF Next, TrainNext
<1> QED
  BY <1>1, <1>2, KernelIndexInvariant, PTL DEF Spec, DrivesEdgeStore, E!Spec
=============================================================================
