----------------------------- MODULE PluginRegistry -----------------------------
(***************************************************************************)
(* PluginRegistry (launcher-core/src/providers/plugin_registry.rs): what the  *)
(* host decided about its plugins (trust, capabilities, the switch), kept in   *)
(* plugins.db with a backup beside it, over restarts that may find the file    *)
(* damaged. PluginLifecycle has one plugin's failures and quarantine in depth; *)
(* here are the decisions, of several plugins, and the two files.              *)
(***************************************************************************)
EXTENDS Naturals, FiniteSets

CONSTANTS Plugins, Capabilities, Tools,
          Damages,        \* what a start may find: kinds of damage to plugins.db
          None, MaxCalls  \* bound on calls and restarts

VARIABLES db,        \* the tables of plugins.db
          backup,    \* of plugins.db.bak, or None
          due,       \* a call has changed plugins.db and has its backup before it
          aside,     \* damaged files that were set aside
          held,      \* the host's last words as plugins.db has them: [trust, decision,
                     \* enabled], each a set
          last,      \* those, and the words taken back since a backup was written
          calls

vars == <<db, backup, due, aside, held, last, calls>>

QUARANTINE_THRESHOLD == 3
TrustState == {"unknown", "known", "trusted"}
CapDecision == {"unset", "allow", "deny"}
Pairs == Plugins \X Capabilities

\* lifecycle_record of a plugin that has no row.
Absent == [enabled |-> TRUE, quarantined |-> FALSE, failures |-> 0, trust |-> "unknown", revision |-> 0]
Fresh == [plugins |-> [p \in Plugins |-> Absent], rows |-> {},
          capabilities |-> [x \in Pairs |-> "unset"], tools |-> {}]

\* A file of a version without these columns: everybody is unknown, at revision 0, and
\* the plugins switched off stay off.
migrate(off) ==
    [Fresh EXCEPT !.plugins = [p \in Plugins |-> [Absent EXCEPT !.enabled = p \notin off]], !.rows = off]

Init ==
    \E off \in SUBSET Plugins :
    /\ db = migrate(off) /\ backup \in {db, None} /\ due = FALSE /\ aside = 0 /\ calls = 0
    /\ held = [trust |-> [p \in Plugins |-> {"unknown"}], decision |-> [x \in Pairs |-> {"unset"}],
               enabled |-> [p \in Plugins |-> {p \notin off}]]
    /\ last = held

-----------------------------------------------------------------------------
Call == calls < MaxCalls /\ calls' = calls + 1 /\ ~due /\ UNCHANGED <<backup, aside>>

\* Every change but those of the tool tables is followed by a backup, then returns.
Changes(tables) == db' = tables /\ due' = TRUE /\ UNCHANGED <<held, last>>
\* Bug: a decision returns without its backup.
Says_without_backup(tables, word, doubt) == db' = tables /\ held' = word /\ last' = word /\ due' = FALSE
Says(tables, word, doubt) == db' = tables /\ held' = word /\ last' = doubt /\ due' = TRUE

\* A copy that fails is only logged, and a checkpoint that does not get through is not even
\* looked at: the older backup stays, and so does the doubt.
Copies(tables, words) == (backup' = tables /\ last' = words) \/ UNCHANGED <<backup, last>>

write_backup == due /\ due' = FALSE /\ Copies(db, held) /\ UNCHANGED <<db, aside, held, calls>>

\* INSERT ... ON CONFLICT DO UPDATE: a plugin without a row gets one of defaults.
Row(p, r) == [db EXCEPT !.plugins[p] = [r EXCEPT !.revision = @ + 1], !.rows = @ \cup {p}]

lifecycle_record(p) == db.plugins[p]
capability_decision(p, c) == db.capabilities[<<p, c>>]
trust(p) == db.plugins[p].trust

set_enabled(p, on) ==
    /\ Call
    /\ Says(Row(p, [db.plugins[p] EXCEPT !.enabled = on]),
            [held EXCEPT !.enabled[p] = {on}], [last EXCEPT !.enabled[p] = @ \cup {on}])

set_trust(p, t) ==
    /\ Call
    /\ Says(Row(p, [db.plugins[p] EXCEPT !.trust = t]),
            [held EXCEPT !.trust[p] = {t}], [last EXCEPT !.trust[p] = @ \cup {t}])

\* Discovery is not trust: unknown becomes known, nothing else changes.
note_manifest_observed(p) ==
    /\ Call
    /\ Changes(Row(p, [db.plugins[p] EXCEPT !.trust = IF trust(p) = "unknown" THEN "known" ELSE @]))

record_failure(p) ==
    /\ Call
    /\ Changes(Row(p, [db.plugins[p] EXCEPT
                  !.failures = @ + 1,
                  !.quarantined = lifecycle_record(p).failures + 1 >= QUARANTINE_THRESHOLD]))

\* The only change without a new revision; no row, no change.
record_success(p) ==
    /\ Call /\ Changes([db EXCEPT !.plugins[p] = [@ EXCEPT !.failures = 0, !.quarantined = FALSE]])

\* INSERT OR IGNORE ... 'unset': a request leaves a decision as it is, and reads as unset.
record_capability(p, c) == Call /\ Changes(db)

set_capability_decision(p, c, d) ==
    /\ Call
    /\ Says([db EXCEPT !.capabilities[<<p, c>>] = d],
            [held EXCEPT !.decision[<<p, c>>] = {d}], [last EXCEPT !.decision[<<p, c>>] = @ \cup {d}])

\* Metadata of the manifest, with its functions and limits: no backup follows.
upsert_tool(p, t) ==
    /\ Call /\ db' = [db EXCEPT !.tools = @ \cup {[plugin |-> p, tool |-> t, functions |-> FALSE, contract |-> FALSE]}]
    /\ \A row \in db.tools : <<row.plugin, row.tool>> # <<p, t>>
    /\ UNCHANGED <<due, held, last>>
Amends(p, t, column) ==
    /\ Call /\ UNCHANGED <<due, held, last>>
    /\ db' = [db EXCEPT !.tools = {IF row.plugin = p /\ row.tool = t THEN [row EXCEPT ![column] = TRUE] ELSE row : row \in @}]
upsert_tool_function(p, t) == Amends(p, t, "functions")
set_ui_contract(p, t) == Amends(p, t, "contract")
tool_ids(p) == {row.tool : row \in {r \in db.tools : r.plugin = p}}

-----------------------------------------------------------------------------
(* A start.                                                                *)

quarantine_corrupt_file == aside' = aside + 1

\* The copy, or an empty database when there is no backup or it cannot be copied.
try_restore_from_backup == IF backup = None THEN {Fresh} ELSE {backup, Fresh}

\* A file without the header ("header") or refused by open_conn ("inside") is set aside and
\* the backup takes its place. A missing or empty one is simply created anew. What the host
\* said since the last backup is then lost, and what it had said before may be back.
open(damage) ==
    /\ calls < MaxCalls /\ calls' = calls + 1 /\ due' = FALSE
    /\ CASE damage \in {"header", "inside"} ->
              db' \in try_restore_from_backup /\ held' = last /\ quarantine_corrupt_file
         [] damage = "empty" -> db' = Fresh /\ held' = last /\ UNCHANGED aside
         [] OTHER -> UNCHANGED <<db, held, aside>>
    /\ Copies(db', held')

Next ==
    \/ write_backup
    \/ \E damage \in Damages \cup {None} : open(damage)
    \/ \E p \in Plugins :
          \/ note_manifest_observed(p) \/ record_failure(p) \/ record_success(p)
          \/ \E on \in BOOLEAN : set_enabled(p, on)
          \/ \E t \in TrustState : set_trust(p, t)
          \/ \E c \in Capabilities : \/ record_capability(p, c)
                                     \/ \E d \in CapDecision : set_capability_decision(p, c, d)
          \/ \E t \in Tools : upsert_tool(p, t) \/ upsert_tool_function(p, t) \/ set_ui_contract(p, t)

Spec == Init /\ [][Next]_vars

TypeOK ==
    /\ \A p \in Plugins : trust(p) \in TrustState /\ tool_ids(p) \subseteq Tools
    /\ \A p \in Plugins : p \notin db.rows => lifecycle_record(p) = Absent
    /\ \A x \in Pairs : capability_decision(x[1], x[2]) \in CapDecision
    /\ aside \in 0 .. MaxCalls

-----------------------------------------------------------------------------
\* set_trust "is the ONLY path to Trusted", set_capability_decision "the ONLY writer of a
\* decision", and unset fails closed: whatever was observed, requested, migrated, damaged and
\* restored, and whichever backups failed, the registry trusts a plugin or allows it a
\* capability only when that was the host's last word on it, unless no backup was written
\* between the host's taking it back and the damage.
FailClosed ==
    /\ \A p \in Plugins : trust(p) = "trusted" => "trusted" \in last.trust[p]
    /\ \A x \in Pairs : capability_decision(x[1], x[2]) = "allow" => "allow" \in last.decision[x]

-----------------------------------------------------------------------------
\* What the source says of itself and does not keep: no run checks it, and the README lists it.

\* set_trust, "the ONLY path to Trusted": a backup that misses the revocation brings it back.
OnlyPath ==
    [][\A p \in Plugins : trust(p)' = "trusted" /\ trust(p) # "trusted" => due']_vars

\* PluginRegistry::open, "restore the last known-good backup first and only rebuild fresh when
\* no usable backup exists": a plugin that was switched off stays off.
SwitchKept == \A p \in Plugins : last.enabled[p] = {FALSE} => ~lifecycle_record(p).enabled

\* lifecycle_record, "installation_revision increments on EVERY persisted lifecycle mutation,
\* giving cache/diagnostics a monotonic change counter".
RevisionCounts ==
    [][\A p \in Plugins : db'.plugins[p] # db.plugins[p]
          => db'.plugins[p].revision > db.plugins[p].revision]_vars
=============================================================================
