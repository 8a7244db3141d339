---------------------------- MODULE KernelGraph -----------------------------
(***************************************************************************)
(* KernelGraph (sokm-kernel/src/graph.rs): kernels, the edges between      *)
(* them, the short-term memory and the transient structures of a tick.     *)
(* Every one of them holds positions in the kernel vector, and tick,       *)
(* compact and the callers' direct mutations have to keep them in step.    *)
(*                                                                         *)
(* The edge store is the abstract one of EdgeStore.  Kernel i here is      *)
(* index i-1 of the code.  An input is a member of a small set, and the    *)
(* gaussian of an input and a centroid is a table Sim of levels.           *)
(***************************************************************************)
EXTENDS Sokm, CompactMap, FiniteSetsExt

CONSTANTS
  Input,            \* input vectors; a centroid is the input it was grown at
  Class,            \* class labels
  NoClass,          \* an unlabelled kernel, or an input without a label
  Never,            \* u64::MAX and u32::MAX: a rule that is switched off
  Sim,              \* Sim[x][c]: activation of a kernel centred at c by x
  SMax,             \* the activation at the centroid
  Theta,            \* KernelConfig::theta_k
  Gamma,            \* SokmConfig::gamma
  StmCapacity,      \* KernelConfig::stm_capacity
  P1Kernel,         \* KernelConfig::p1_kernel
  InheritThreshold, \* KernelConfig::label_inherit_threshold
  NoCache,          \* the centroid cache when cache_valid is false
  ClientEdges,      \* the edges the caller sets itself
  MaxKernels,       \* bound: kernels in the vector
  MaxExcitation,    \* u64::MAX, where excitation saturates
  MaxTick           \* bound: the last tick the caller's clock reaches

ASSUME KernelConfigAssumption ==
  /\ Node = 1 .. MaxKernels /\ MaxKernels \in Nat
  /\ NoClass \notin Class
  /\ Theta \in Nat \ {0} /\ Gamma \in Nat \ {0}
  /\ Sim \in [Input -> [Input -> Nat]]
  /\ \A x, y \in Input :
       /\ Sim[x][y] = Sim[y][x]
       /\ Sim[x][x] = SMax
       /\ Sim[x][y] \in Score \cup {0}
  /\ SMax \in Score /\ SMax > Theta
  /\ StmCapacity \in Nat \ {0}
  /\ P1Kernel \in Nat \cup {Never} /\ InheritThreshold \in Nat \cup {Never}
  /\ ClientEdges \subseteq Key
  /\ MaxTick \in Nat /\ MaxExcitation \in Nat \ {0}

VARIABLES
  kernels,  \* sequence of [centroid, class, excitation, last, extinct]
  edges,    \* the edge store
  stm,      \* Stm::indices
  scratch,  \* prop_scratch
  counts,   \* coactivation_counts
  cache,    \* centroids_cache when cache_valid, else NoCache
  now       \* the caller's clock

vars == <<kernels, edges, stm, scratch, counts, cache, now>>

E == INSTANCE EdgeStore

Label == Class \cup {NoClass}

Kernel ==
  [centroid : Input, class : Label, excitation : Nat, last : Nat,
   extinct : BOOLEAN]

Live == {i \in DOMAIN kernels : ~kernels[i].extinct}
Centroids == [i \in DOMAIN kernels |-> kernels[i].centroid]

(***************************************************************************)
(* Steps 1 to 3 of tick: direct scores, spread along the edges of the      *)
(* kernels that fire, and the excited check.                               *)
(***************************************************************************)
Cached == IF cache = NoCache THEN Centroids ELSE cache

\* Mutant: the extinct mask is not applied after the SIMD pass.
ScoresUnmasked(x) == [i \in DOMAIN kernels |-> Sim[x][Cached[i]]]

Scores(x) ==
  LET centroid == Cached
  IN  [i \in DOMAIN kernels |-> IF kernels[i].extinct THEN 0 ELSE Sim[x][centroid[i]]]

Fired(sc) == {i \in DOMAIN sc : sc[i] >= Theta}

Resized ==
  [j \in DOMAIN scratch \cup DOMAIN kernels |->
     IF j \in DOMAIN scratch THEN scratch[j] ELSE 0]

Touched(sc) ==
  {j \in DOMAIN Resized : \E i \in Fired(sc) : Canonical(i, j) \in DOMAIN edges}

Spread(sc) ==
  LET fired == Fired(sc)
      touched == Touched(sc)
      before == Resized
      sent(j) == SumFunction([i \in fired |->
                                Gamma * E!WeightOf(edges, Canonical(i, j))])
  IN  [j \in DOMAIN before |->
         IF j \in touched THEN before[j] + sent(j) ELSE before[j]]

\* Mutant: the entries of extinct kernels are skipped.
ZeroLive(sc) ==
  LET missed == Touched(sc) \ Live
  IN  [j \in DOMAIN Resized |->
         IF j \in missed THEN Spread(sc)[j]
         ELSE IF j \in Touched(sc) THEN 0 ELSE Resized[j]]

\* The pass at the end of the tick: only the entries that were written.
ZeroTouched(sc) ==
  LET touched == Touched(sc)
      before == Resized
  IN  [j \in DOMAIN before |-> IF j \in touched THEN 0 ELSE before[j]]

\* Mutant: a kernel has to be excited both ways.
ExcitedBothWays(sc, sp) == \E i \in DOMAIN sc : sc[i] >= Theta /\ sp[i] >= Theta

Excited(sc, sp) == \E i \in DOMAIN sc : sc[i] >= Theta \/ sp[i] >= Theta

(***************************************************************************)
(* Steps 4 to 8: growth, the best match, STM, and the same-class list.     *)
(***************************************************************************)
NewKernel(x, c, t) ==
  [centroid |-> x, class |-> c, excitation |-> 0, last |-> t, extinct |-> FALSE]

\* max_by keeps the last of equal scores.
BestMatch(sc) ==
  CHOOSE i \in DOMAIN sc :
    \A j \in DOMAIN sc : sc[j] < sc[i] \/ (sc[j] = sc[i] /\ j <= i)

\* increment_excitation is a saturating_add.
Win(ks, best, t) ==
  LET e == ks[best].excitation
  IN  [ks EXCEPT ![best] = [@ EXCEPT !.excitation = IF e < MaxExcitation THEN e + 1 ELSE e,
                                     !.last = t]]

\* Mutant: the excitations are read before the winner's is incremented.
EvictEarly(ks) ==
  CHOOSE p \in DOMAIN stm :
    \A q \in DOMAIN stm :
      \/ kernels[stm[p]].excitation < kernels[stm[q]].excitation
      \/ kernels[stm[p]].excitation = kernels[stm[q]].excitation /\ p <= q

\* min_by_key keeps the first of equal excitations.
EvictPos(ks) ==
  CHOOSE p \in DOMAIN stm :
    \A q \in DOMAIN stm :
      \/ ks[stm[p]].excitation < ks[stm[q]].excitation
      \/ ks[stm[p]].excitation = ks[stm[q]].excitation /\ p <= q

\* Mutant: the full memory is pushed to without an eviction.
StmPush(ks, i) == Append(stm, i)

StmUpdate(ks, i) ==
  Append(IF Len(stm) >= StmCapacity
         THEN SubSeq(stm, 1, EvictPos(ks) - 1)
                \o SubSeq(stm, EvictPos(ks) + 1, Len(stm))
         ELSE stm,
         i)

\* Mutant: None == None counts as the same class.
SameOption(ks, sc, c) == [i \in {i \in DOMAIN sc : sc[i] > 0 /\ ks[i].class = c} |-> sc[i]]

\* Mutant: strengthen is given every activated kernel.
AnyClass(ks, sc, c) == [i \in {i \in DOMAIN sc : sc[i] > 0} |-> sc[i]]

SameClass(ks, sc, c) ==
  [i \in {i \in DOMAIN sc : sc[i] > 0 /\ c # NoClass /\ ks[i].class = c} |-> sc[i]]

(***************************************************************************)
(* Step 10: label inheritance.  The unlabelled excited kernels take their  *)
(* turns in order, each walking the excited kernels in order; a kernel     *)
(* labelled earlier in the pass already lends its label.  The pass is      *)
(* given by its result: label[i] is what kernel i ends up with.            *)
(***************************************************************************)
\* Mutant: the extinct kernels take part.
CoExcitedExtinct(ks, sc, sp) ==
  {i \in DOMAIN sc : InheritThreshold # Never /\ (sc[i] > 0 \/ sp[i] > 0)}

CoExcited(ks, sc, sp) ==
  {i \in DOMAIN sc :
     InheritThreshold # Never /\ ~ks[i].extinct /\ (sc[i] > 0 \/ sp[i] > 0)}

LabelAt(ks, label, i, j) ==
  IF j \in DOMAIN label THEN IF j < i THEN label[j] ELSE NoClass ELSE ks[j].class

Partners(ks, exc, label, i) ==
  {j \in exc \ {i} : LabelAt(ks, label, i, j) # NoClass}

\* Mutant: the count is compared before it is incremented.
DonorsLate(ks, exc, label, i) ==
  {j \in Partners(ks, exc, label, i) : Lookup(counts, <<i, j>>) >= InheritThreshold}

Donors(ks, exc, label, i) ==
  {j \in Partners(ks, exc, label, i) : Lookup(counts, <<i, j>>) + 1 >= InheritThreshold}

Inherited(ks, exc, label) ==
  \A i \in DOMAIN label :
    LET donors == Donors(ks, exc, label, i)
    IN  label[i] = IF donors = {} THEN NoClass
                   ELSE LabelAt(ks, label, i, Min(donors))

\* Partners before the donor are counted, the donor's entry is removed, and
\* those after it are not reached.
Counted(ks, exc, label) ==
  LET before(i) ==
        {j \in Partners(ks, exc, label, i) :
           \A d \in Donors(ks, exc, label, i) : j < d}
      counted == {p \in (DOMAIN label) \X exc : p[2] \in before(p[1])}
      removed == {p \in (DOMAIN label) \X exc :
                    /\ p[2] \in Donors(ks, exc, label, p[1])
                    /\ p[2] = Min(Donors(ks, exc, label, p[1]))}
  IN  Without([p \in DOMAIN counts \cup counted |->
                 Lookup(counts, p) + IF p \in counted THEN 1 ELSE 0],
              removed)

Labelled(ks, label) ==
  [i \in DOMAIN ks |->
     IF i \in DOMAIN label THEN [ks[i] EXCEPT !.class = label[i]] ELSE ks[i]]

\* Mutant: one tick too few.
InactiveEarly(k, t) == P1Kernel # Never /\ Elapsed(t, k.last) >= P1Kernel

Inactive(k, t) == P1Kernel # Never /\ Elapsed(t, k.last) > P1Kernel

Extinguish(ks, t) ==
  [i \in DOMAIN ks |-> IF Inactive(ks[i], t) THEN [ks[i] EXCEPT !.extinct = TRUE]
                       ELSE ks[i]]

\* Mutant: growth leaves cache_valid as it is.
CacheKept(grew) == Cached

CacheAfter(grew) == IF grew THEN NoCache ELSE Cached

-----------------------------------------------------------------------------
Init ==
  /\ kernels = <<>> /\ edges = E!NoEdges /\ stm = <<>> /\ scratch = <<>>
  /\ counts = EmptyMap /\ cache = NoCache /\ now = 0

Tick(x, c, t, mode) ==
  LET sc    == Scores(x)
      sp    == Spread(sc)
      grew  == ~Excited(sc, sp)
      best  == IF grew THEN Len(kernels) + 1 ELSE BestMatch(sc)
      grown == IF grew THEN Append(kernels, NewKernel(x, c, t)) ELSE kernels
      ks    == Win(grown, best, t)
      act   == SameClass(ks, IF grew THEN Append(sc, SMax) ELSE sc, c)
      exc   == CoExcited(ks, sc, sp)
  IN /\ t \in now .. MaxTick
     /\ best <= MaxKernels
     /\ stm' = StmUpdate(ks, best)
     /\ edges' = E!TickEdges(edges, act, t, mode)
     /\ \E label \in [{i \in exc : ks[i].class = NoClass} -> Label] :
          /\ Inherited(ks, exc, label)
          /\ counts' = Counted(ks, exc, label)
          /\ kernels' = Extinguish(Labelled(ks, label), t)
     /\ scratch' = ZeroTouched(sc)
     /\ cache' = CacheAfter(grew)
     /\ now' = t

(***************************************************************************)
(* compact_with_map.  kept lists the live kernels, held the places of the  *)
(* memory that hold a live one.                                            *)
(***************************************************************************)
\* Mutant: Stm::reindex is not called.
StmNotReindexed(kept, held) == stm

\* Mutant: the memory is cleared.
StmCleared(kept, held) == <<>>

StmReindex(kept, held) == [n \in DOMAIN held |-> OldToNew(kept)[stm[held[n]]]]

\* Mutant: the counts keep their old indices.
CountsNotReindexed(kept) == counts

\* Mutant: the counts are dropped.
CountsCleared(kept) == EmptyMap

CountsReindex(kept) ==
  [p \in {p \in (DOMAIN kept) \X (DOMAIN kept) : <<kept[p[1]], kept[p[2]]>> \in DOMAIN counts} |->
     counts[<<kept[p[1]], kept[p[2]]>>]]

Compact ==
  /\ Live # DOMAIN kernels
  /\ \E kept \in Enumerations(Live, Len(kernels)),
        held \in Enumerations({p \in DOMAIN stm : stm[p] \in Live}, Len(stm)) :
       /\ kernels' = Picked(kernels, kept)
       /\ edges' = Rekey(OldToNew(kept), edges)
       /\ stm' = StmReindex(kept, held)
       /\ counts' = CountsReindex(kept)
       /\ scratch' = [n \in DOMAIN kept |->
                        IF n \in DOMAIN scratch THEN scratch[n] ELSE 0]
  /\ cache' = NoCache
  /\ UNCHANGED now

(***************************************************************************)
(* What a caller does between ticks: set_edge on existing kernels,         *)
(* mark_extinct through kernels_mut (EmotionalKernelGraph::mark_extinct),  *)
(* and a save and load, which keeps neither counts nor cache.              *)
(***************************************************************************)
SetEdge(k, w) ==
  /\ k[1] \in DOMAIN kernels /\ k[2] \in DOMAIN kernels
  /\ E!SetWeight(k, w)
  /\ UNCHANGED <<kernels, stm, scratch, counts, cache>>

MarkExtinct(i) ==
  /\ kernels' = [kernels EXCEPT ![i].extinct = TRUE]
  /\ cache' = NoCache
  /\ UNCHANGED <<edges, stm, scratch, counts, now>>

SaveLoad ==
  /\ counts' = EmptyMap /\ cache' = NoCache
  /\ UNCHANGED <<kernels, edges, stm, scratch, now>>

TrainNext ==
  \/ \E x \in Input, c \in Label, t \in E!Time, mode \in DecayMode : Tick(x, c, t, mode)
  \/ Compact

Next ==
  \/ TrainNext
  \/ \E k \in ClientEdges, w \in Weight : SetEdge(k, w)
  \/ \E i \in DOMAIN kernels : MarkExtinct(i)
  \/ SaveLoad

\* A training loop: ticks, and compactions between them.
TrainSpec == Init /\ [][TrainNext]_vars

Spec == Init /\ [][Next]_vars

-----------------------------------------------------------------------------
TypeOK ==
  /\ kernels \in Seq(Kernel) /\ Len(kernels) <= MaxKernels
  /\ E!TypeOK
  /\ stm \in Seq(Node) /\ Len(stm) <= StmCapacity
  /\ scratch \in Seq(Nat)
  /\ counts \in [DOMAIN counts -> Nat]
  /\ cache = NoCache \/ cache \in Seq(Input)

(***************************************************************************)
(* No index dangles: STM, edges and co-activation counts refer to kernels  *)
(* that are in the vector, and prop_scratch is at most one behind it.      *)
(***************************************************************************)
IndicesInRange ==
  /\ \A p \in DOMAIN stm : stm[p] \in DOMAIN kernels
  /\ \A k \in DOMAIN edges : k[1] \in DOMAIN kernels /\ k[2] \in DOMAIN kernels
  /\ \A p \in DOMAIN counts : p[1] \in DOMAIN kernels /\ p[2] \in DOMAIN kernels
  /\ Len(scratch) \in {Len(kernels) - 1, Len(kernels)}

(***************************************************************************)
(* prop_scratch is zero between ticks: a value left behind would excite a  *)
(* kernel in the next tick although no kernel with an edge to it fired.    *)
(***************************************************************************)
ScratchClean == \A j \in DOMAIN scratch : scratch[j] = 0

(***************************************************************************)
(* A cache that is believed valid mirrors the kernels, through growth,     *)
(* compaction, direct mutation and load.                                   *)
(***************************************************************************)
CacheCoherent == cache # NoCache => cache = Centroids

(***************************************************************************)
(* The live kernels are apart: none of them would fire for the centroid of *)
(* another.  A kernel is grown only where no live kernel explains the      *)
(* input; spread, stale caches and extinct kernels must not disturb that.  *)
(***************************************************************************)
LiveKernelsApart ==
  \A i, j \in Live : i # j => Sim[kernels[i].centroid][kernels[j].centroid] < Theta

(***************************************************************************)
(* Training alone links kernels of one class only; an edge keeps joining   *)
(* the kernels it was learned for when they are renumbered.                *)
(***************************************************************************)
EdgesJoinSameClass ==
  \A k \in DOMAIN edges :
    /\ kernels[k[1]].class # NoClass
    /\ kernels[k[1]].class = kernels[k[2]].class

(***************************************************************************)
(* A co-activation count that reaches the threshold is spent at once, also *)
(* when the partner was labelled earlier in the same pass.                 *)
(***************************************************************************)
CountsBelowThreshold == \A p \in DOMAIN counts : counts[p] < InheritThreshold

(***************************************************************************)
(* Rule 3, exactly: in training a kernel is extinct if and only if it has  *)
(* been inactive for more than p1_kernel ticks.  The kernel grown or       *)
(* matched at a tick, and one exactly p1_kernel ticks old, stay live, no   *)
(* later one does, and nothing touches a kernel that has become extinct.   *)
(***************************************************************************)
ExtinctIffIdle ==
  \A i \in DOMAIN kernels :
    kernels[i].extinct <=> P1Kernel # Never /\ Elapsed(now, kernels[i].last) > P1Kernel

(***************************************************************************)
(* An extinct kernel is out of the game until it is removed: it never      *)
(* wins, is never labelled and never comes back.                           *)
(***************************************************************************)
ExtinctFrozen ==
  [][Len(kernels') >= Len(kernels) =>
       \A i \in DOMAIN kernels \ Live : kernels'[i] = kernels[i]]_vars

(***************************************************************************)
(* STM forgets the weakest: a tick appends one kernel to the memory, the   *)
(* others keep their order, and at most one of their places is given up,   *)
(* of a kernel none of the others has been excited less than, the winner's *)
(* excitation of this very tick included.                                  *)
(***************************************************************************)
WeakestPlaces(ks) ==
  {p \in DOMAIN stm :
     \A q \in DOMAIN stm : ks[stm[p]].excitation <= ks[stm[q]].excitation}

StmForgetsWeakest ==
  [][Len(kernels') >= Len(kernels) =>
       \/ stm' = stm
       \/ \E i \in DOMAIN kernels' :
            \/ stm' = Append(stm, i)
            \/ \E p \in WeakestPlaces(kernels') :
                 stm' = Append(SubSeq(stm, 1, p - 1) \o SubSeq(stm, p + 1, Len(stm)), i)]_vars

(***************************************************************************)
(* Compaction only forgets extinct kernels: read through centroids, the    *)
(* edges, the STM and the counts of the surviving kernels are the same.    *)
(***************************************************************************)
Relations(ks, es, cs, S) ==
  <<{<<{ks[k[1]].centroid, ks[k[2]].centroid}, es[k]>> : k \in DOMAIN es \cap (S \X S)},
    {<<ks[p[1]].centroid, ks[p[2]].centroid, cs[p]>> : p \in DOMAIN cs \cap (S \X S)}>>

CompactionPreserves ==
  [][Len(kernels') < Len(kernels) =>
       /\ Relations(kernels', edges', counts', DOMAIN kernels')
            = Relations(kernels, edges, counts, Live)
       /\ \E held \in Enumerations({p \in DOMAIN stm : stm[p] \in Live}, Len(stm)) :
            [p \in DOMAIN stm' |-> kernels'[stm'[p]].centroid]
              = [p \in DOMAIN held |-> kernels[stm[held[p]]].centroid]]_vars

(***************************************************************************)
(* The layers that wrap a kernel graph see of it what KernelVector says: a *)
(* tick adds at most one kernel, at the end, some live kernel has won,     *)
(* labels are only ever inherited, and only a compaction renumbers.        *)
(***************************************************************************)
V == INSTANCE KernelVector WITH
       units <- [i \in DOMAIN kernels |->
                   [class |-> kernels[i].class, extinct |-> kernels[i].extinct]]

ImplementsVector == V!Spec
=============================================================================
