--------------------------- MODULE MCStoreParity ----------------------------
(***************************************************************************)
(* Constants of the runs of StoreParity.                                   *)
(***************************************************************************)
EXTENDS StoreParity

MCDecayed == [w \in Weight |-> (w + 1) \div 2]
MCPairs == {k \in Key : k[1] # k[2]}
MCTwoPairs == {<<0, 1>>, <<0, 2>>}
=============================================================================
