--------------------------- MODULE MCKernelGraph ----------------------------
(***************************************************************************)
(* Constants of the runs of KernelGraph.  The inputs lie on a line a, b, c *)
(* and neighbours on it activate each other's kernels without firing them. *)
(***************************************************************************)
EXTENDS KernelQuery, TLC

MCDecayed == [w \in Weight |-> (w + 1) \div 2]

CONSTANTS a, b, c, c1, c2

MCSymmetry == Permutations({c1, c2})

MCPairs == {<<1, 2>>}

MCSim ==
  [x \in Input |->
     [y \in Input |-> IF x = y THEN SMax ELSE IF b \in {x, y} THEN 1 ELSE 0]]
=============================================================================
