------------------------- MODULE MCSparseUnderGraph -------------------------
(***************************************************************************)
(* Constants of the runs of SparseUnderGraph.                              *)
(***************************************************************************)
EXTENDS SparseUnderGraph

MCDecayed == [w \in Weight |-> (w + 1) \div 2]
MCPairs == {k \in Key : k[1] # k[2]}
=============================================================================
