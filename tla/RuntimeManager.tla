------------------------------ MODULE RuntimeManager ------------------------------
(***************************************************************************)
(* The registry of persistent runtimes (launcher-runtime/runtime_manager.rs) *)
(* and the child processes it keeps (process.rs, windows.rs): one operation    *)
(* at a time on a runtime, eviction of idle ones, restarts within a budget;    *)
(* the process tree of a runtime is in a job that dies with its session.       *)
(***************************************************************************)
EXTENDS Naturals, FiniteSets

CONSTANTS Runtimes,     \* keys
          max_restarts,
          Policies,     \* of Never, OnCrash
          None,
          MaxSpawns     \* bound on spawns

VARIABLES policy,
          entries,         \* key -> [session, busy, idle], or None
          restart_counts,
          sessions,        \* session -> its process (see Process); sessions are numbered
          admitted,        \* key -> restarts that on_crash has allowed
          spawns

vars == <<policy, entries, restart_counts, sessions, admitted, spawns>>

\* A process is in its job once it is assigned; a child of it is in the same job. The
\* session is gone when nothing holds it any more.
Process == [child : {"suspended", "running", "exited"}, tree : BOOLEAN, stdout : BOOLEAN, job : BOOLEAN,
            state : {"Starting", "Running", "Crashed", "Stopped"}, held : BOOLEAN]
Suspended == [child |-> "suspended", tree |-> FALSE, stdout |-> TRUE, job |-> FALSE,
              state |-> "Starting", held |-> TRUE]

Init ==
    /\ policy \in Policies /\ entries = [k \in Runtimes |-> None]
    /\ restart_counts = [k \in Runtimes |-> 0] /\ admitted = [k \in Runtimes |-> 0]
    /\ sessions = [s \in {} |-> 0] /\ spawns = 0

TypeOK ==
    /\ policy \in Policies /\ restart_counts \in [Runtimes -> 0 .. max_restarts]
    /\ entries \in [Runtimes -> [session : DOMAIN sessions, busy : BOOLEAN, idle : BOOLEAN] \cup {None}]
    /\ \A s \in DOMAIN sessions : sessions[s] \in Process
    /\ spawns <= MaxSpawns

-----------------------------------------------------------------------------
(* A process and its session. *)

Dead(p) == [p EXCEPT !.child = "exited", !.tree = FALSE, !.stdout = FALSE, !.state = "Stopped"]

\* ProcessSession::kill, and the end of a shutdown: the child, then everything in the job.
kill(p) == IF p.job THEN Dead(p) ELSE [Dead(p) EXCEPT !.tree = p.tree]

\* Drop kills what it believes alive, the job its members in any case.
Job_kept(p) == p
Job_closed(p) == IF p.job THEN [p EXCEPT !.child = "exited", !.tree = FALSE, !.stdout = FALSE] ELSE p
drop(p) == [(IF p.state = "Running" THEN kill(p) ELSE Job_closed(p)) EXCEPT !.held = FALSE]

Drop(ss) == sessions' = [s \in DOMAIN sessions |-> IF s \in ss THEN drop(sessions[s]) ELSE sessions[s]]

\* On its own the process forks, closes its output, or exits.
Lives(s, p) == sessions' = [sessions EXCEPT ![s] = p] /\ UNCHANGED <<policy, entries, restart_counts, admitted, spawns>>
Forks(s) == sessions[s].child = "running" /\ ~sessions[s].tree /\ Lives(s, [sessions[s] EXCEPT !.tree = TRUE])
ClosesOutput(s) == sessions[s].child = "running" /\ sessions[s].stdout /\ Lives(s, [sessions[s] EXCEPT !.stdout = FALSE])
Exits(s) == sessions[s].child = "running" /\ Lives(s, [sessions[s] EXCEPT !.child = "exited", !.stdout = FALSE])

\* read_line: only a closed output is taken for a crash, whether or not the process lives.
read_line(s) ==
    /\ sessions[s].held /\ sessions[s].state = "Running" /\ ~sessions[s].stdout
    /\ Lives(s, [sessions[s] EXCEPT !.state = "Crashed"])
try_termination(s) ==
    /\ sessions[s].held /\ sessions[s].state \in {"Running", "Crashed"} /\ sessions[s].child = "exited"
    /\ Lives(s, [sessions[s] EXCEPT !.state = "Stopped"])

-----------------------------------------------------------------------------
(* The manager. A value that leaves it is dropped by its owner. *)

Entry(s) == [session |-> s, busy |-> TRUE, idle |-> FALSE]

\* spawn: suspended, into the job, resumed. A failure drops what there is, and a child that
\* is not in the job yet is not part of it.
SpawnSteps == {"assign_fails", "resume_fails", "resumed"}
Spawned(step) ==
    CASE step = "assign_fails" -> [Suspended EXCEPT !.held = FALSE]
      [] step = "resume_fails" -> drop([Suspended EXCEPT !.job = TRUE])
      [] OTHER -> [Suspended EXCEPT !.job = TRUE, !.child = "running", !.state = "Running"]

use_runtime(k, step) ==
    /\ IF entries[k] = None
         THEN /\ spawns < MaxSpawns /\ spawns' = spawns + 1
              /\ sessions' = [s \in 1 .. spawns + 1 |-> IF s = spawns + 1 THEN Spawned(step) ELSE sessions[s]]
              /\ entries' = [entries EXCEPT ![k] = IF step = "resumed" THEN Entry(spawns + 1) ELSE None]
         ELSE /\ ~entries[k].busy /\ step = "resumed"
              /\ entries' = [entries EXCEPT ![k] = Entry(@.session)] /\ UNCHANGED <<sessions, spawns>>
    /\ UNCHANGED <<policy, restart_counts, admitted>>

\* The guard's end.
Release(k) ==
    /\ entries[k] # None /\ entries[k].busy /\ entries' = [entries EXCEPT ![k].busy = FALSE, ![k].idle = FALSE]
    /\ UNCHANGED <<policy, restart_counts, sessions, admitted, spawns>>
Idles(k) ==
    /\ entries[k] # None /\ ~entries[k].busy /\ ~entries[k].idle /\ entries' = [entries EXCEPT ![k].idle = TRUE]
    /\ UNCHANGED <<policy, restart_counts, sessions, admitted, spawns>>

\* The entry goes whatever the policy says; the count only grows.
on_crash(k) ==
    /\ entries[k] # None /\ ~entries[k].busy /\ entries' = [entries EXCEPT ![k] = None]
    /\ Drop({entries[k].session})
    /\ IF policy = "Never" \/ restart_counts[k] + 1 > max_restarts
         THEN UNCHANGED <<restart_counts, admitted>>
         ELSE /\ restart_counts' = [restart_counts EXCEPT ![k] = @ + 1]
              /\ admitted' = [admitted EXCEPT ![k] = @ + 1]
    /\ UNCHANGED <<policy, spawns>>

\* The restart counts survive the eviction.
Evict(ks) ==
    /\ ks # {} /\ entries' = [k \in Runtimes |-> IF k \in ks THEN None ELSE entries[k]]
    /\ Drop({entries[k].session : k \in ks})
    /\ UNCHANGED <<policy, restart_counts, admitted, spawns>>

sweep_idle == Evict({k \in Runtimes : entries[k] # None /\ ~entries[k].busy /\ entries[k].idle})
release(k) == entries[k] # None /\ ~entries[k].busy /\ Evict({k})
shutdown_all == Evict({k \in Runtimes : entries[k] # None})

Next ==
    \/ sweep_idle \/ shutdown_all
    \/ \E k \in Runtimes : \/ Release(k) \/ Idles(k) \/ on_crash(k) \/ release(k)
                           \/ \E step \in SpawnSteps : use_runtime(k, step)
    \/ \E s \in DOMAIN sessions : Forks(s) \/ ClosesOutput(s) \/ Exits(s) \/ read_line(s) \/ try_termination(s)

Spec == Init /\ [][Next]_vars

-----------------------------------------------------------------------------
\* runtime_manager.rs: an entry has a session that nothing has dropped, in a job that will
\* bury it, and shares it with no other entry, through every eviction, crash and restart.
EntriesOwn ==
    \A k \in Runtimes : entries[k] # None =>
        /\ sessions[entries[k].session].held /\ sessions[entries[k].session].job
        /\ \A l \in Runtimes : entries[l] # None /\ entries[l].session = entries[k].session => l = k

\* process.rs, ProcessSession: nothing that was in the job of a session outlives it,
\* whatever the session believes of its process.
TreeDies == \A s \in DOMAIN sessions : ~sessions[s].held /\ sessions[s].job =>
                sessions[s].child = "exited" /\ ~sessions[s].tree

-----------------------------------------------------------------------------
\* What the source says of itself and does not keep: no run checks it, and the README lists it.

\* process.rs, Drop: "no orphaned process tree outlives the session".
NoOrphans == \A s \in DOMAIN sessions : ~sessions[s].held => sessions[s].child = "exited"
=============================================================================
