----------------------------- MODULE TriggerQueue -----------------------------
(***************************************************************************)
(* The durable trigger queue (launcher-workflow/triggers.rs), its sources    *)
(* (trigger_sources.rs) and the trigger-service thread of the application    *)
(* (main.rs), which dequeues one event at a time and starts the workflow     *)
(* whose definition it finds in the workflows directory.                     *)
(***************************************************************************)
EXTENDS Naturals, Sequences

CONSTANTS Workflows,   \* workflow ids
          MaxEvents,   \* bound: events enqueued
          MaxFaults    \* bound: restarts and failing statements

Kinds == {"hotkey", "plugin", "schedule", "ai_mcp"}

VARIABLES table,     \* the rows in the order of their ids: [kind, workflow, consumed]
          defined,   \* workflows with a readable definition on disk
          service,   \* the thread: "down", "ready", or the event it has dequeued
          started,   \* ids of the events whose workflow was started, in that order
          faults

vars == <<table, defined, service, started, faults>>

Ids == 1 .. MaxEvents
Row == [kind : Kinds, workflow : Workflows, consumed : BOOLEAN]

TypeOK ==
    /\ table \in Seq(Row) /\ Len(table) <= MaxEvents
    /\ defined \subseteq Workflows /\ started \in Seq(Ids)
    /\ service.at \in {"down", "ready", "dequeued"}
    /\ service.at = "dequeued" => table[service.id].consumed

Init ==
    /\ table = <<>> /\ started = <<>> /\ faults = 0
    /\ defined \in SUBSET Workflows /\ service = [at |-> "down"]

\* enqueue, by any source, whether or not the service runs.
enqueue(kind, w) ==
    /\ Len(table) < MaxEvents
    /\ table' = Append(table, [kind |-> kind, workflow |-> w, consumed |-> FALSE])
    /\ UNCHANGED <<defined, service, started, faults>>

\* The thread opens the queue once; where that fails it ends.
open ==
    /\ service.at = "down"
    /\ service' = [at |-> "ready"]
    /\ UNCHANGED <<table, defined, started, faults>>

Pending == {i \in DOMAIN table : ~table[i].consumed}

\* Bug: the newest event first.
Next_newest == CHOOSE i \in Pending : \A j \in Pending : j <= i

Next_event == CHOOSE i \in Pending : \A j \in Pending : i <= j

\* The oldest event, marked consumed before anything is done about it; a failing
\* statement changes nothing and is tried again later.
dequeue ==
    /\ service.at = "ready" /\ Pending # {}
    /\ table' = [table EXCEPT ![Next_event].consumed = TRUE]
    /\ service' = [at |-> "dequeued", id |-> Next_event]
    /\ UNCHANGED <<defined, started, faults>>

\* The definition with the workflow's id is started; without one the event is gone.
start_workflow ==
    /\ service.at = "dequeued" /\ service' = [at |-> "ready"]
    /\ started' = IF table[service.id].workflow \in defined THEN Append(started, service.id) ELSE started
    /\ UNCHANGED <<table, defined, faults>>

Dies ==
    /\ service.at # "down" /\ faults < MaxFaults /\ faults' = faults + 1
    /\ service' = [at |-> "down"] /\ UNCHANGED <<table, defined, started>>

\* The user adds, removes or is just rewriting a definition.
Redefine(ws) ==
    /\ faults < MaxFaults /\ faults' = faults + 1 /\ defined' = ws
    /\ UNCHANGED <<table, service, started>>

Next ==
    \/ \E k \in Kinds, w \in Workflows : enqueue(k, w)
    \/ \E ws \in SUBSET Workflows : ws # defined /\ Redefine(ws)
    \/ open \/ dequeue \/ start_workflow \/ Dies

Spec == Init /\ [][Next]_vars

-----------------------------------------------------------------------------
\* triggers.rs, dequeue: "consume-once" and FIFO. Across crashes of the launcher, no event
\* starts a second run and none starts before an older one that starts at all.
OnceInOrder == \A i, j \in DOMAIN started : i < j => started[i] < started[j]
=============================================================================
