--------------------------- MODULE WorkflowGraph ---------------------------
(***************************************************************************)
(* The workflow 2.0 definition of launcher-workflow/src/graph.rs and the   *)
(* pure helpers the scheduler is built from (src/engine.rs): conditions,   *)
(* the variable store and the ready set.  A graph is a record              *)
(*   [entry, nodes, edges, approval, condition, edgeCondition, outputs]    *)
(* over a universe Node of node ids.                                       *)
(***************************************************************************)
EXTENDS Naturals, FiniteSets

CONSTANTS
  Node,      \* node ids
  Var,       \* names of run-scoped variables
  Value,     \* what a step may output
  Null,      \* a variable that was never written
  NoCond     \* "condition: None"

ASSUME NullAssumption == Null \notin Value

Store == [Var -> Value \cup {Null}]

EmptyStore == [v \in Var |-> Null]

(* `$var OP literal`: the operator and the literal are abstracted to the
   set of values for which the comparison is true. *)
ConditionExpr == [var : Var, vals : SUBSET Value]

Graph == [ entry         : Node,
           nodes         : SUBSET Node,
           edges         : SUBSET (Node \X Node),
           approval      : SUBSET Node,
           condition     : [Node -> ConditionExpr \cup {NoCond}],
           edgeCondition : [Node \X Node -> ConditionExpr \cup {NoCond}],
           outputs       : [Node -> SUBSET Var] ]

(* evaluate: a missing variable makes the condition false, never an error. *)
evaluate(cond, store) == store[cond.var] \in cond.vals

condition_holds(cond, store) == cond = NoCond \/ evaluate(cond, store)

incoming(g, n) == {e[1] : e \in {x \in g.edges : x[2] = n}}

(* Mutants of ready_nodes: wait for any edge; only finished nodes satisfy an
   edge; a finished node is ready again. *)
ready_nodes_any(g, finished, skipped) ==
  {n \in g.nodes \ (finished \cup skipped) :
     n = g.entry \/ incoming(g, n) \cap (finished \cup skipped) # {}}

ready_nodes_no_skips(g, finished, skipped) ==
  {n \in g.nodes \ (finished \cup skipped) :
     IF incoming(g, n) = {} THEN n = g.entry ELSE incoming(g, n) \subseteq finished}

ready_nodes_again(g, finished, skipped) ==
  {n \in g.nodes \ skipped :
     IF incoming(g, n) = {} THEN n = g.entry
     ELSE incoming(g, n) \subseteq finished \cup skipped}

(* Nodes whose incoming edges all come from finished or skipped nodes; a node
   without incoming edges is ready only when it is the entry node. *)
ready_nodes(g, finished, skipped) ==
  {n \in g.nodes \ (finished \cup skipped) :
     IF incoming(g, n) = {} THEN n = g.entry
     ELSE incoming(g, n) \subseteq finished \cup skipped}

(* Nodes mark_condition_skips adds: every node, ready or not and finished or
   not, whose own condition is false now. *)
condition_skips(g, skipped, store) ==
  {n \in g.nodes \ skipped :
     g.condition[n] # NoCond /\ ~evaluate(g.condition[n], store)}

apply_outputs(g, store, n, output) ==
  [v \in Var |-> IF v \in g.outputs[n] THEN output ELSE store[v]]

(***************************************************************************)
(* validate: nonempty, entry present, no dangling edge, no self loop, every*)
(* node reachable from the entry, no cycle.  Reachability and acyclicity   *)
(* are stated here by what they mean; GraphValidate compares the worklist  *)
(* and the coloured depth-first search of the code with these.             *)
(***************************************************************************)
ClosedUnder(g, S) == \A e \in g.edges : e[1] \in S => e[2] \in S

Reachable(g) ==
  \A S \in SUBSET g.nodes : g.entry \in S /\ ClosedUnder(g, S) => S = g.nodes

(* Every nonempty set of nodes has a member with no predecessor in the set. *)
Acyclic(g) ==
  \A S \in SUBSET g.nodes :
     S # {} => \E n \in S : \A e \in g.edges : e[2] = n => e[1] \notin S

Valid(g) ==
  /\ g.nodes # {}
  /\ g.entry \in g.nodes
  /\ \A e \in g.edges : e[1] \in g.nodes /\ e[2] \in g.nodes /\ e[1] # e[2]
  /\ Reachable(g)
  /\ Acyclic(g)
=============================================================================
