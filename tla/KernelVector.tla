---------------------------- MODULE KernelVector ----------------------------
(***************************************************************************)
(* What a kernel graph promises the layers that wrap one, the emotion      *)
(* layer and the cross-modal layer: they keep vectors and maps of their    *)
(* own by kernel position, and see of a graph its kernels' labels, which   *)
(* of them are extinct, and of a tick whether it grew and which kernel     *)
(* won (KernelTickReport).  KernelGraph implements this module.            *)
(***************************************************************************)
EXTENDS CompactMap

CONSTANTS
  Class,      \* class labels
  NoClass,    \* an unlabelled kernel
  MaxKernels  \* bound: kernels in the vector

VARIABLE units  \* sequence of [class, extinct]

Unit == [class : Class \cup {NoClass}, extinct : BOOLEAN]

Living(us) == {i \in DOMAIN us : ~us[i].extinct}

Survivors == Enumerations(Living(units), Len(units))

(***************************************************************************)
(* What a tick may turn kernel u into: a label is inherited but never      *)
(* changed, and an extinct kernel stays what it is.                        *)
(***************************************************************************)
Later(u) ==
  {v \in Unit : /\ u.extinct => v = u
                /\ u.class # NoClass => v.class = u.class}

Grown(c, grew) ==
  IF grew THEN Append(units, [class |-> c, extinct |-> FALSE]) ELSE units

\* best is the activated kernel: the new one, or one that was live; it is
\* live after the tick, too.
Tick(c, grew, best) ==
  LET us == Grown(c, grew)
  IN  /\ Len(us) <= MaxKernels
      /\ best \in Living(us)
      /\ grew => best = Len(us)
      /\ units' \in [DOMAIN us -> Unit]
      /\ \A i \in DOMAIN us : units'[i] \in Later(us[i])
      /\ best \in Living(units')

CompactTo(kept) == units' = Picked(units, kept)

MarkExtinct(i) == units' = [units EXCEPT ![i].extinct = TRUE]

-----------------------------------------------------------------------------
Init == units = <<>>

Next ==
  \/ \E c \in Class \cup {NoClass}, grew \in BOOLEAN, best \in 1 .. MaxKernels :
       Tick(c, grew, best)
  \/ \E kept \in Survivors : CompactTo(kept)
  \/ \E i \in DOMAIN units : MarkExtinct(i)

Spec == Init /\ [][Next]_units
=============================================================================
