----------------------------- MODULE MCTopoSort ----------------------------
(* Graphs whose edges lead to greater vertices: any acyclic graph is one of *)
(* them but for the names of its vertices.                                  *)
EXTENDS TopoSort

Forward == {e \in Vertices \X Vertices : e[1] < e[2]}
AllGraphs == SUBSET Forward

\* A first run, or one after a run that listed the vertices in their order.
Leftovers == {[v \in Vertices |-> 0], [v \in Vertices |-> v]}
=============================================================================
