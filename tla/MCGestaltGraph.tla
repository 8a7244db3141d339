--------------------------- MODULE MCGestaltGraph ---------------------------
(***************************************************************************)
(* Constants of the run of GestaltGraph.                                   *)
(***************************************************************************)
EXTENDS GestaltRecall, TLC

CONSTANTS c1, c2

MCPairs == {<<2, 1>>}

MCSymmetry == Permutations({c1, c2})

MCDecayed == [w \in Weight |-> IF w = 0 THEN 0 ELSE w - 1]
=============================================================================
