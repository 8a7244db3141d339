--------------------------- MODULE GestaltRecall ----------------------------
(***************************************************************************)
(* Recall across modalities: activation of the kernels of one modality     *)
(* spread along the cross edges into the other (cross_propagate_soft and   *)
(* its reverse in sokm-multimodal/src/cross.rs, recall_from_modal1 and     *)
(* recall_from_modal2 in graph.rs).                                        *)
(*                                                                         *)
(* Forwards it reads the weights, backwards the lists of sources; a source *)
(* listed twice is counted twice.  The results are maps: their order,      *)
(* by descending score, is that of a HashMap where scores are equal.       *)
(***************************************************************************)
EXTENDS GestaltGraph

CONSTANTS
  Gamma,  \* CrossSokmConfig::gamma
  Score   \* the levels at which kernels are activated

ASSUME RecallAssumption == Gamma \in Nat \ {0} /\ Score \subseteq Nat \ {0}

\* scores is a map from the activated kernels to their scores.
CrossPropagateSoft(s, scores) ==
  LET sent == UNION {Targets(s, i) : i \in DOMAIN scores}
  IN  [j \in {k[2] : k \in sent} |->
         SumFunction([k \in {k \in sent : k[2] = j} |->
                        Gamma * Weigh(s, k) * scores[k[1]]])]

CrossPropagateSoftReverse(s, scores) ==
  LET sent == UNION {Sources(s, j) : j \in DOMAIN scores}
  IN  [i \in {k[1] : k \in sent} |->
         SumFunction([k \in {k \in sent : k[1] = i} |->
                        s.reverse[k] * Gamma * Weigh(s, k) * scores[k[2]]])]

\* The kernels that score above 0 for an input: any of the live ones.
Cues(us) == UNION {[A -> Score] : A \in SUBSET V1!Living(us)}

RecallFromModal1(cue) == CrossPropagateSoft(cross, cue)
RecallFromModal2(cue) == CrossPropagateSoftReverse(cross, cue)

-----------------------------------------------------------------------------
(***************************************************************************)
(* Recall is symmetric: a cue in one modality recalls a kernel of the      *)
(* other as strongly as that kernel, activated alike, recalls the cue; all *)
(* together, two cues evoke as much of each other in either direction.     *)
(* (cross.rs calls the two functions symmetric counterparts.)              *)
(***************************************************************************)
Evoked(recalled, cue) ==
  SumFunction([n \in DOMAIN cue |-> Lookup(recalled, n) * cue[n]])

RecallSymmetric ==
  \A cue1 \in Cues(units1), cue2 \in Cues(units2) :
    Evoked(RecallFromModal1(cue1), cue2) = Evoked(RecallFromModal2(cue2), cue1)
=============================================================================
