------------------------- MODULE MCSparseEdgeStore --------------------------
(***************************************************************************)
(* Constants of the runs of SparseEdgeStore.                               *)
(***************************************************************************)
EXTENDS SparseEdgeStore

MCDecayed == [w \in Weight |-> (w + 1) \div 2]

\* Four edges: with four CSR slots one may stay dead without a compaction.
MCFourKeys == {<<0, 1>>, <<0, 2>>, <<1, 2>>, <<0, 0>>}

\* A self-loop: the pairs are linked by cycles.
MCLoop == {<<0, 0>>}
=============================================================================
