---------------------------- MODULE WorkflowEditor ----------------------------
(***************************************************************************)
(* The graph editor (launcher-workflow/editor.rs) behind the editor surface *)
(* of the application (editor_surface.rs): a working graph with bounded undo *)
(* and redo stacks, the rows projected from it, and the draft file it is     *)
(* saved to and opened from.                                                 *)
(***************************************************************************)
EXTENDS Naturals, Sequences, SequencesExt

CONSTANTS Nodes, Entry,   \* node ids; the entry node of every draft
          MaxUndo,        \* bound of the undo stack (100 in the code)
          MaxEdits,       \* bound: edits asked for in a behaviour
          None, Torn     \* no value; a file that does not parse

VARIABLES editor,   \* [graph, undo, redo], or None before the surface was opened
          rows,     \* what the surface shows: node -> it has a condition
          status,   \* the status line: "", "valid", "invalid", "saved"
          draft,    \* editor-draft.json: a graph, Torn or None
          trail,    \* the graphs before the accepted edits (only a property reads it)
          edits

vars == <<editor, rows, status, draft, trail, edits>>

G == INSTANCE WorkflowGraph WITH
        Node <- Nodes, Var <- {}, Value <- {}, Null <- None, NoCond <- None

Fresh == [entry |-> Entry, nodes |-> {Entry}, edges |-> {}, conds |-> {}]
validate(g) == G!Valid(g)

TypeOK ==
    /\ editor = None \/ (Len(editor.undo) <= MaxUndo /\ Entry \in editor.graph.nodes)
    /\ rows \in {None} \cup UNION {[n -> BOOLEAN] : n \in SUBSET Nodes}
    /\ draft \in {None, Torn} \/ validate(draft)
    /\ status \in {"", "valid", "invalid", "saved"}

Init ==
    /\ editor = None /\ rows = None /\ status = "" /\ trail = <<>> /\ edits = 0
    /\ draft \in {None, Torn}

-----------------------------------------------------------------------------
(* GraphEditor. *)

\* The stack forgets its oldest graph, and a new edit invalidates the redo branch.
Pushed(u) == IF Len(u) > MaxUndo THEN Tail(u) ELSE u
\* Bug: the redo branch stays.
push_undo_keeps_redo(e) == [e EXCEPT !.undo = Pushed(Append(@, e.graph))]
push_undo(e) == [e EXCEPT !.undo = Pushed(Append(@, e.graph)), !.redo = <<>>]

\* The operations, as [ok, graph]: a duplicate node, the entry node and an unknown
\* node are refused.
AddNode(g, n) == [ok |-> n \notin g.nodes, graph |-> [g EXCEPT !.nodes = @ \cup {n}]]
RemoveNode(g, n) ==
    [ok |-> n # g.entry,
     graph |-> [g EXCEPT !.nodes = @ \ {n}, !.conds = @ \ {n},
                         !.edges = {e \in @ : e[1] # n /\ e[2] # n}]]
AddEdge(g, a, b) == [ok |-> TRUE, graph |-> [g EXCEPT !.edges = @ \cup {<<a, b>>}]]
RemoveEdge(g, a, b) == [ok |-> TRUE, graph |-> [g EXCEPT !.edges = @ \ {<<a, b>>}]]
SetCondition(g, n, on) ==
    [ok |-> n \in g.nodes, graph |-> [g EXCEPT !.conds = IF on THEN @ \cup {n} ELSE @ \ {n}]]

Results(g) ==
    {AddNode(g, n) : n \in Nodes} \cup {RemoveNode(g, n) : n \in Nodes}
    \cup {AddEdge(g, a, b) : a, b \in Nodes} \cup {RemoveEdge(g, a, b) : a, b \in Nodes}
    \cup {SetCondition(g, n, on) : n \in Nodes, on \in BOOLEAN}

\* None of the two looks at the bound.
Undo(e) == [graph |-> Last(e.undo), undo |-> Front(e.undo), redo |-> Append(e.redo, e.graph)]
Redo(e) == [graph |-> Last(e.redo), redo |-> Front(e.redo), undo |-> Append(e.undo, e.graph)]

-----------------------------------------------------------------------------
(* The surface. *)

\* refresh: one row for each node.
Rows(g) == [n \in g.nodes |-> n \in g.conds]
status_text(g) == IF validate(g) THEN "valid" ELSE "invalid"

Show(e) == editor' = e /\ rows' = Rows(e.graph) /\ status' = status_text(e.graph)

\* ensure_editor: a draft that cannot be imported counts as none.
open_editor ==
    /\ editor = None
    /\ Show([graph |-> IF draft \in {None, Torn} THEN Fresh ELSE draft,
             undo |-> <<>>, redo |-> <<>>])
    /\ trail' = <<>> /\ UNCHANGED <<draft, edits>>

\* edit: the undo snapshot is pushed before the operation may be refused; a refused one
\* leaves the graph and the rows as they were.
edit ==
    /\ editor # None /\ edits < MaxEdits /\ edits' = edits + 1
    /\ \E r \in Results(editor.graph) :
          IF r.ok
            THEN Show([push_undo(editor) EXCEPT !.graph = r.graph])
                 /\ trail' = Append(trail, editor.graph)
            ELSE /\ editor' = push_undo(editor) /\ status' = status_text(editor.graph)
                 /\ UNCHANGED <<rows, trail>>
    /\ UNCHANGED draft

undo ==
    /\ editor # None /\ editor.undo # <<>>
    /\ Show(Undo(editor))
    /\ trail' = IF trail = <<>> THEN trail ELSE Front(trail)
    /\ UNCHANGED <<draft, edits>>

redo ==
    /\ editor # None /\ editor.redo # <<>>
    /\ Show(Redo(editor))
    /\ trail' = Append(trail, editor.graph)
    /\ UNCHANGED <<draft, edits>>

\* export_draft: only a valid graph is written.
export_draft ==
    /\ editor # None
    /\ IF validate(editor.graph) THEN draft' = editor.graph /\ status' = "saved"
       ELSE status' = "invalid" /\ UNCHANGED draft
    /\ UNCHANGED <<editor, rows, trail, edits>>

\* The process ends, perhaps in the middle of the write, which replaces the file in place.
Dies ==
    /\ editor # None /\ edits < MaxEdits /\ edits' = edits + 1
    /\ editor' = None /\ rows' = None /\ status' = "" /\ trail' = <<>>
    /\ draft' \in {draft} \cup (IF validate(editor.graph) THEN {Torn} ELSE {})

Next == open_editor \/ edit \/ undo \/ redo \/ export_draft \/ Dies

Spec == Init /\ [][Next]_vars

-----------------------------------------------------------------------------
\* An edit that was refused has pushed its snapshot too.
Leads(g, h) == h = g \/ \E r \in Results(g) : r.ok /\ r.graph = h

\* editor.rs, "bounded undo/redo stacks", "a new edit invalidates the redo branch": what can be
\* undone, the graph and what can be redone are one line of single edits, however edits, refused
\* edits, undos and redos alternated, and the two stacks together keep the bound, which redo
\* does not check.
OneTimeline ==
    editor # None =>
        LET past == Append(editor.undo, editor.graph)
            future == Append(editor.redo, editor.graph)
        IN /\ \A i \in 1 .. Len(editor.undo) : Leads(past[i], past[i + 1])
           /\ \A i \in 1 .. Len(editor.redo) : Leads(future[i + 1], future[i])
           /\ Len(editor.undo) + Len(editor.redo) <= MaxUndo

-----------------------------------------------------------------------------
\* What the source says of itself and does not keep: no run checks it, and the README lists it.

\* editor.rs:139, "undo: roll back one edit": undo restores the graph from before the last
\* edit the editor accepted.
UndoRollsBack ==
    [][editor # None /\ editor' # None /\ editor.undo # <<>> /\ editor' = Undo(editor) /\ trail # <<>>
       => editor'.graph = Last(trail)]_vars
=============================================================================
