-------------------------- MODULE MCHashEdgeStore ---------------------------
(***************************************************************************)
(* Constants of the runs of HashEdgeStore.  Halving rounded up stands for  *)
(* the decay factor: 3 -> 2 -> 1, and 1 is below min_weight.               *)
(***************************************************************************)
EXTENDS HashEdgeStore

\* A self-loop, which cycles never link and which a compaction may rename.
MCTouches == {<<1, 1>>}

MCDecayed == [w \in Weight |-> (w + 1) \div 2]
=============================================================================
