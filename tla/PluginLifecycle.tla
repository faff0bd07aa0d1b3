--------------------------- MODULE PluginLifecycle ---------------------------
(***************************************************************************)
(* One external plugin: the provider that asks it (plugin.rs), the process   *)
(* behind its handle (launcher-plugin-host), and the registry that carries   *)
(* enablement, failures and quarantine over restarts, with its backup file    *)
(* (plugin_registry.rs). All calls hold the AppState mutex; the process may   *)
(* exit, the launcher die and the registry file rot at any time.              *)
(***************************************************************************)
EXTENDS Naturals, FiniteSets

CONSTANT MaxCalls      \* bound on calls, toggles and restarts

VARIABLES lifetime,    \* of the manifest
          row,         \* registry row: [enabled, quarantined, failures]
          backup,      \* plugins.db.bak
          dirty,       \* a change is committed and its copy to the backup is due
          provider,    \* flags cached by the provider: [disabled, quarantined, failures]
          process,     \* behind the handle; "exited" until the next use finds out
          strikes,     \* consecutive protocol failures (only the properties read it)
          lost,        \* of those, the ones that no row has counted any more, and
          unsaved,     \* the ones that came after the last copy (properties only, too)
          calls

ghosts == <<strikes, lost, unsaved>>
plugin == <<row, backup, dirty, provider, process, ghosts>>
vars == <<lifetime, plugin, calls>>

QUARANTINE_THRESHOLD == 3

Row == [enabled : BOOLEAN, quarantined : BOOLEAN, failures : Nat]
Default == [enabled |-> TRUE, quarantined |-> FALSE, failures |-> 0]

TypeOK ==
    /\ lifetime \in {"Ephemeral", "Resident"}
    /\ row \in Row /\ backup \in Row /\ dirty \in BOOLEAN
    /\ provider \in [disabled : BOOLEAN, quarantined : BOOLEAN, failures : Nat]
    /\ process \in {"none", "alive", "exited"}
    /\ lifetime = "Ephemeral" => process # "alive"
    /\ strikes \in Nat /\ lost \in 0 .. strikes /\ unsaved \in 0 .. strikes

\* set_registry: what the provider remembers when it is built.
Hydrated(r) == [disabled |-> ~r.enabled, quarantined |-> r.quarantined, failures |-> r.failures]

Init ==
    /\ lifetime \in {"Ephemeral", "Resident"}
    /\ row = Default /\ backup = Default /\ dirty = FALSE
    /\ provider = Hydrated(Default) /\ process = "none"
    /\ strikes = 0 /\ lost = 0 /\ unsaved = 0 /\ calls = 0

----------------------------------------------------------------------------
(* The registry.                                                           *)

\* A statement that succeeds, and afterwards a copy that only logs its error.
Mutate(r) == row' = r /\ dirty' = TRUE

refresh_backup ==
    /\ dirty /\ dirty' = FALSE
    /\ (backup' = row /\ unsaved' = 0) \/ UNCHANGED <<backup, unsaved>>
    /\ UNCHANGED <<lifetime, row, provider, process, strikes, lost, calls>>

\* A read that fails answers with the default.
state == {row, Default}

\* Bug: one failure too many.
Record_failure_late(r) ==
    [r EXCEPT !.failures = @ + 1, !.quarantined = r.failures >= QUARANTINE_THRESHOLD]

record_failure(r) ==
    [r EXCEPT !.failures = @ + 1, !.quarantined = r.failures + 1 >= QUARANTINE_THRESHOLD]

record_success(r) == [r EXCEPT !.failures = 0, !.quarantined = FALSE]

\* A new process: a file that SQLite refuses is set aside and replaced by the backup, which
\* every open and every change refreshes if it can; if that fails, too, all begins anew.
\* Bug: a restart forgives.
Opened_forgiving(corrupt) == IF corrupt THEN {backup, Default} ELSE {[row EXCEPT !.failures = 0]}
Opened(corrupt) == IF corrupt THEN {backup, Default} ELSE {row}

open(corrupt, copied) ==
    /\ calls < MaxCalls /\ calls' = calls + 1
    /\ row' \in Opened(corrupt) /\ backup' = (IF copied THEN row' ELSE backup) /\ dirty' = FALSE
    /\ \E st \in {row', Default} : provider' = Hydrated(st)
    /\ process' = "none"
    /\ lost' = IF ~corrupt THEN lost ELSE IF row' = backup THEN lost + unsaved ELSE strikes
    /\ unsaved' = IF corrupt \/ copied THEN 0 ELSE unsaved
    /\ UNCHANGED <<lifetime, strikes>>

----------------------------------------------------------------------------
(* A call.                                                                 *)

Call == calls < MaxCalls /\ calls' = calls + 1 /\ ~dirty /\ UNCHANGED <<lifetime, backup>>

Still == UNCHANGED <<row, dirty, provider, process, ghosts>>

\* ensure_running: a live process is reused unless it has idled out, an exited one replaced;
\* a spawn may fail, in which case nothing is counted and no cooldown starts.
SpawnFails == process' = "none" /\ UNCHANGED <<row, dirty, provider, ghosts>>

\* finish_invocation: one invocation of an ephemeral plugin is one process.
Finished == process' = IF lifetime = "Ephemeral" THEN "exited" ELSE "alive"

\* The answer came: only the memory of the provider forgets earlier failures.
Forgiven == Finished /\ strikes' = 0 /\ lost' = 0 /\ unsaved' = 0
Answered == Forgiven /\ UNCHANGED <<row, dirty>>

\* Timeout, crash or a malformed answer: the handle is dropped, which kills the process. An
\* error of record_failure comes before the row is written or before it is read back: it leaves
\* the backup alone, and the provider the flag it had.
Counted == row' = record_failure(row) /\ unsaved' = unsaved + 1 /\ UNCHANGED lost
Uncounted == UNCHANGED <<row, unsaved>> /\ lost' = lost + 1

Failed ==
    /\ process' = "none" /\ strikes' = strikes + 1
    /\ \E flag \in BOOLEAN :
          /\ \/ Counted /\ dirty' = TRUE /\ flag = row'.quarantined
             \/ (Counted \/ Uncounted) /\ UNCHANGED dirty /\ flag = provider.quarantined
          /\ provider' = [provider EXCEPT
                !.failures = @ + 1,
                !.quarantined = flag \/ provider.failures + 1 >= QUARANTINE_THRESHOLD]

\* The registry decides on every query, if it can be read; the empty text asks for the catalog and counts nothing.
query ==
    /\ Call
    /\ \E st \in state :
       IF st.quarantined \/ ~st.enabled THEN Still
       ELSE \/ SpawnFails \/ Failed
            \/ Answered /\ provider' = [provider EXCEPT !.failures = 0]

discover ==
    /\ Call
    /\ \E st \in state :
       IF st.quarantined \/ ~st.enabled THEN Still
       ELSE \/ SpawnFails
            \/ Finished /\ UNCHANGED <<row, dirty, provider, ghosts>>

\* The flags of the provider decide, which only a restart or a failure updates. A result
\* counts nothing; an error of the plugin itself clears the record, if it can be written.
execute_action ==
    /\ Call
    /\ IF provider.quarantined \/ provider.disabled THEN Still
       ELSE \/ SpawnFails \/ Failed
            \/ Answered /\ UNCHANGED provider
            \/ /\ Forgiven /\ (Mutate(record_success(row)) \/ UNCHANGED <<row, dirty>>)
               /\ provider' = [provider EXCEPT !.failures = 0]

\* The switch of the management window writes the registry only.
set_enabled(on) ==
    /\ Call /\ Mutate([row EXCEPT !.enabled = on]) /\ UNCHANGED <<provider, process, ghosts>>

Exit == process = "alive" /\ process' = "exited"
        /\ UNCHANGED <<lifetime, row, backup, dirty, provider, ghosts, calls>>

Next ==
    \/ refresh_backup \/ query \/ discover \/ execute_action \/ Exit
    \/ \E b \in BOOLEAN : set_enabled(b) \/ \E copied \in BOOLEAN : open(b, copied)

Spec == Init /\ [][Next]_vars

----------------------------------------------------------------------------

\* plugin.rs: a plugin that has failed three times running is quarantined, whatever mixture of
\* queries and actions failed, however often the launcher was restarted in between, from the
\* registry or from its backup. A failure may be missing only if the statement that counts it
\* failed, or the file that counted it was lost before a copy of it was made.
ThreeStrikes == strikes >= QUARANTINE_THRESHOLD + lost => row.quarantined

-----------------------------------------------------------------------------
\* What the source says of itself and does not keep: no run checks it, and the README lists it.

\* A quarantined plugin participates again once it is explicitly re-enabled (plugin.rs:8-9).
ReenableLifts == [][row.quarantined /\ ~row.enabled /\ row'.enabled => ~row'.quarantined]_vars
=============================================================================
