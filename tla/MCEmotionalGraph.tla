-------------------------- MODULE MCEmotionalGraph --------------------------
(***************************************************************************)
(* Constants of the runs of EmotionalGraph.                                *)
(***************************************************************************)
EXTENDS EmotionalGraph

MCBound == [d \in Dim |-> MaxLevel]
MCOptimal == [d \in Dim |-> 1]

MCFelt == [e \in Level |-> [k \in Score |-> e * k]]

\* lambda_e = 1/2, rounded away from 0
MCToward ==
  [e \in Level |-> [target \in Level |->
     IF target > e THEN e + (target - e + 1) \div 2 ELSE e - (e - target + 1) \div 2]]

\* DecayPolicy: every tick brings the global state a level closer to 0
MCFaded == [g \in Level |-> IF g > 0 THEN g - 1 ELSE IF g < 0 THEN g + 1 ELSE 0]
=============================================================================
