--------------------------- MODULE MCDagScheduler ---------------------------
(* Instances of DagScheduler: families of small validated graphs. *)
EXTENDS DagScheduler

CONSTANTS n1, n2, n3, x, t, f

MCNode == {n1, n2, n3}
MCRank == [n \in MCNode |-> CASE n = n1 -> 3 [] n = n2 -> 1 [] n = n3 -> 2]

(* n1 is the entry and writes x; the condition of a conditional node is
   "$x == t". *)
CondOn(C) == [n \in MCNode |-> IF n \in C THEN [var |-> x, vals |-> {t}] ELSE NoCond]

NoEdgeCond == [e \in MCNode \X MCNode |-> NoCond]

MakeGraph(E, A, C) ==
  [ entry |-> n1, nodes |-> MCNode, edges |-> E, approval |-> A,
    condition |-> CondOn(C), edgeCondition |-> NoEdgeCond,
    outputs |-> [n \in MCNode |-> IF n = n1 THEN {x} ELSE {}] ]

Fork     == {<<n1, n2>>, <<n1, n3>>}
Triangle == {<<n1, n2>>, <<n1, n3>>, <<n2, n3>>}

(* Two definitions to edit between: a fork whose second branch is conditional,
   and a join that waits for both its predecessors. *)
MCTwoGraphs == {MakeGraph(Fork, {n2}, {n3}), MakeGraph(Triangle, {n3}, {n2})}
=============================================================================
