---------------------------- MODULE GestaltGraph ----------------------------
(***************************************************************************)
(* GestaltKernelGraph (sokm-multimodal/src/graph.rs): two kernel graphs,   *)
(* one for each modality, and cross edges between kernels that are active  *)
(* together.  The graphs are seen as KernelVector sees them.  Both grow,   *)
(* label, extinguish and renumber their kernels on their own; the cross    *)
(* edges refer to positions in both.                                       *)
(***************************************************************************)
EXTENDS CrossEdgeStore, CompactMap

CONSTANTS
  Class, NoClass,  \* labels, and no label
  ClientEdges,     \* the cross edges the caller sets and touches itself
  MaxKernels,      \* bound: kernels in each modality
  MaxTick          \* bound: the last tick the caller's clock reaches

Node == 1 .. MaxKernels

ASSUME GestaltAssumption ==
  /\ MaxKernels \in Nat
  /\ ClientEdges \subseteq Node \X Node
  /\ NoClass \notin Class
  /\ MaxTick \in Nat

VARIABLES
  units1, units2,  \* the kernels of modal1 and modal2
  cross,           \* the cross edges
  now              \* the caller's clock

vars == <<units1, units2, cross, now>>

V1 == INSTANCE KernelVector WITH units <- units1
V2 == INSTANCE KernelVector WITH units <- units2

Labels(us) == [i \in DOMAIN us |-> us[i].class]

\* Two kernels that exist and may be linked.
Alike(k) ==
  /\ k[1] \in DOMAIN units1 /\ units1[k[1]].class \in Class
  /\ k[2] \in DOMAIN units2 /\ units2[k[2]].class \in Class
  /\ RequireClassMatch => units1[k[1]].class = units2[k[2]].class

-----------------------------------------------------------------------------
\* Strengthen, decay whatever the decay mode, prune twice.
CrossTick(s, K, t) == PruneInactive(PruneBelow(ScaleAll(Strengthen(s, K, t))), t)

(***************************************************************************)
(* tick.  Both graphs tick with the same label and time; then the kernels  *)
(* are scored again, those grown in this tick included and those that have *)
(* just become extinct left out.  The winners score above 0.               *)
(***************************************************************************)
Activated(us, best) == {A \in SUBSET V1!Living(us) : best \in A}

Tick(c, t, grew1, best1, grew2, best2) ==
  /\ t \in now .. MaxTick
  /\ V1!Tick(c, grew1, best1)
  /\ V2!Tick(c, grew2, best2)
  /\ \E A1 \in Activated(units1', best1), A2 \in Activated(units2', best2) :
       cross' = CrossTick(cross,
                          Pairing(A1, A2, Labels(units1'), Labels(units2'), NoClass), t)
  /\ now' = t

Compact(kept1, kept2) ==
  /\ Len(kept1) + Len(kept2) < Len(units1) + Len(units2)
  /\ V1!CompactTo(kept1)
  /\ V2!CompactTo(kept2)
  /\ cross' = Reindex(cross, OldToNew(kept1), OldToNew(kept2))
  /\ UNCHANGED now

(***************************************************************************)
(* The three parts are public.  A caller compacts one modality and         *)
(* reindexes the cross edges with its map and the identity on the other    *)
(* side, marks kernels extinct, sets cross edges between existing kernels  *)
(* of one class, and touches any pair.                                     *)
(***************************************************************************)
Identity(us) == [i \in DOMAIN us |-> i]

CompactModal1(kept) ==
  /\ Len(kept) < Len(units1)
  /\ V1!CompactTo(kept)
  /\ cross' = Reindex(cross, OldToNew(kept), Identity(units2))
  /\ UNCHANGED <<units2, now>>

CompactModal2(kept) ==
  /\ Len(kept) < Len(units2)
  /\ V2!CompactTo(kept)
  /\ cross' = Reindex(cross, Identity(units1), OldToNew(kept))
  /\ UNCHANGED <<units1, now>>

Extinguish ==
  /\ \/ (\E i \in DOMAIN units1 : V1!MarkExtinct(i)) /\ UNCHANGED units2
     \/ (\E j \in DOMAIN units2 : V2!MarkExtinct(j)) /\ UNCHANGED units1
  /\ UNCHANGED <<cross, now>>

SetCross(k, w) ==
  /\ Alike(k)
  /\ cross' = Set(cross, k, w)
  /\ UNCHANGED <<units1, units2, now>>

TouchCross(k) ==
  /\ cross' = Touch(cross, {k}, now)
  /\ UNCHANGED <<units1, units2, now>>

-----------------------------------------------------------------------------
Init ==
  /\ V1!Init /\ V2!Init
  /\ cross = NewStore
  /\ now = 0

Next ==
  \/ \E c \in Class \cup {NoClass}, t \in now .. MaxTick,
        grew1, grew2 \in BOOLEAN, best1, best2 \in Node :
       Tick(c, t, grew1, best1, grew2, best2)
  \/ \E kept1 \in V1!Survivors, kept2 \in V2!Survivors : Compact(kept1, kept2)
  \/ \E kept \in V1!Survivors : CompactModal1(kept)
  \/ \E kept \in V2!Survivors : CompactModal2(kept)
  \/ Extinguish
  \/ \E k \in ClientEdges, w \in Weight : SetCross(k, w)
  \/ \E k \in ClientEdges : TouchCross(k)

Spec == Init /\ [][Next]_vars

-----------------------------------------------------------------------------
TypeOK ==
  /\ units1 \in Seq(V1!Unit) /\ units2 \in Seq(V2!Unit)
  /\ cross.weights \in [DOMAIN cross.weights -> Weight \ {0}]
  /\ cross.ticks \in [DOMAIN cross.ticks -> 0 .. now]
  /\ cross.reverse \in [DOMAIN cross.reverse -> Nat \ {0}]

(***************************************************************************)
(* The reverse index lists a source of a target exactly once iff there is  *)
(* an edge between them: recall from the second modality sees the edges    *)
(* that recall from the first one sees.                                    *)
(***************************************************************************)
ReverseIsInverse == cross.reverse = [k \in DOMAIN cross.weights |-> 1]

(***************************************************************************)
(* No phantom tick: an edge that is born has no activity from an earlier   *)
(* life, nor from a touch before it existed.                               *)
(***************************************************************************)
TicksHaveEdges == DOMAIN cross.ticks \subseteq DOMAIN cross.weights

(***************************************************************************)
(* A cross edge joins two kernels that exist, both labelled, and alike if  *)
(* the configuration asks for it, however the two sides are renumbered.    *)
(***************************************************************************)
EdgesJoinKernels == \A k \in DOMAIN cross.weights : Alike(k)

(***************************************************************************)
(* A compaction of either side or of both, each with a map of its own,     *)
(* keeps the weight and the last activity of every edge between survivors: *)
(* an end on a side that shrank moves to its rank there.                   *)
(***************************************************************************)
Rank(us, i) == Cardinality({j \in V1!Living(us) : j <= i})

\* Where kernel i of us ends up when us becomes shrunk, or stays.
MovedTo(us, shrunk, i) == IF Len(shrunk) < Len(us) THEN Rank(us, i) ELSE i

Staying1 == IF Len(units1') < Len(units1) THEN V1!Living(units1) ELSE DOMAIN units1
Staying2 == IF Len(units2') < Len(units2) THEN V1!Living(units2) ELSE DOMAIN units2

CompactionKeepsEdges ==
  [][Len(units1') < Len(units1) \/ Len(units2') < Len(units2) =>
       \A i \in Staying1, j \in Staying2 :
         LET k == <<MovedTo(units1, units1', i), MovedTo(units2, units2', j)>>
         IN  /\ Weigh(cross', k) = Weigh(cross, <<i, j>>)
             /\ LastActive(cross', k) = LastActive(cross, <<i, j>>)]_vars

(***************************************************************************)
(* The three maps implement edges that have a weight and a last activation *)
(* of their own: every tick, write, touch and renumbering acts on them by  *)
(* the per-edge law of CrossEdges, and no edge is born with an activation  *)
(* of an earlier life or of a touch before it existed.                     *)
(***************************************************************************)
EdgesOf(s) == [k \in DOMAIN s.weights |-> [w |-> s.weights[k], last |-> LastActive(s, k)]]

LiveEdges == EdgesOf(cross)

X == INSTANCE CrossEdges WITH edges <- LiveEdges
Implements == X!Spec
=============================================================================
