-------------------------- MODULE IndexCoordinator --------------------------
(***************************************************************************)
(* The incremental file index of launcher-indexer: the single-writer       *)
(* coordinator thread (src/coordinator.rs) with its queue, coalescer and   *)
(* dirty set (src/incremental.rs), one watcher thread per root             *)
(* (src/watcher.rs), the rows it keeps (apply_batch and rescan_root of     *)
(* src/lib.rs), and the file system all of them race with.                 *)
(*                                                                         *)
(* A root holds files and no directories.  What the index knows of a file  *)
(* is one number, its version; 0 is "absent" on disk and "no row" in the   *)
(* index.  Timers (the tick, the patrol interval, the backoff of a         *)
(* re-registration) are nondeterministic choices; a rescan reads the disk  *)
(* and commits in one step: a change between the two is, to every other    *)
(* thread, a change just after the commit.                                 *)
(***************************************************************************)
EXTENDS Naturals, Sequences, FiniteSets

CONSTANTS
  Root, File, RootOf,   \* the configured roots, the files they may hold
  QueueCapacity,        \* CoordinatorConfig.queue_capacity
  BatchSize,            \* CoordinatorConfig.batch_size
  Faults,               \* which of "exit", "vanish", "overflow" happen
  MaxVersion,           \* bound: versions of a file
  MaxEdits,             \* bound: changes to files
  MaxFaults             \* bound: watch errors, vanished roots, overflows

ASSUME IndexAssumption ==
  /\ RootOf \in [File -> Root]
  /\ QueueCapacity \in Nat \ {0} /\ BatchSize \in Nat \ {0}
  /\ Faults \subseteq {"exit", "vanish", "overflow"}
  /\ MaxVersion \in Nat \ {0} /\ MaxEdits \in Nat /\ MaxFaults \in Nat

VARIABLES
  there, disk,           \* roots that exist; version of each file on disk
  rows,                  \* version of each file in the table files
  opening, live, dying,  \* watcher threads of a root: started, watching, failed
  notify,                \* changes a live watcher has not reported yet
  chan,                  \* the coordinator's message channel
  pc, work,              \* where run_loop is; dirty roots the pass has left
  queue, coalescer,      \* BoundedQueue (one set of identities per event), Coalescer
  dirty, batch,          \* DirtyRootSet; the verified batch
  watched, rewatch,      \* Maintenance.watched, Maintenance.rewatch
  edits, faults,         \* how many changes so far; which faults so far
  blind                  \* history: files changed while nothing watched their root,
                         \* and not rescanned since

fs == <<there, disk, edits>>
watchers == <<opening, live, dying, notify>>
events == <<queue, coalescer, dirty>>
maint == <<watched, rewatch>>
vars == <<fs, rows, watchers, chan, pc, work, events, batch, maint, faults, blind>>

Version == 0..MaxVersion
FilesOf(r) == {f \in File : RootOf[f] = r}

CoordinatorMsg == [kind : {"Change"}, ids : SUBSET File]
                    \cup [kind : {"Overflow", "WatcherExited"}, root : Root]
Change(ids) == [kind |-> "Change", ids |-> ids]
Overflow(r) == [kind |-> "Overflow", root |-> r]
WatcherExited(r) == [kind |-> "WatcherExited", root |-> r]

TypeOK ==
  /\ there \subseteq Root /\ disk \in [File -> Version] /\ rows \in [File -> Version]
  /\ \A f \in File : RootOf[f] \notin there => disk[f] = 0
  /\ {opening, live, dying} \subseteq [Root -> 0..(MaxFaults + 1)]
  /\ notify \in [Root -> SUBSET SUBSET File]
  /\ \A r \in Root : live[r] = 0 => notify[r] = {}
  /\ chan \in Seq(CoordinatorMsg)
  /\ pc \in {"boot", "recv", "recover", "sweep", "batch", "commit"}
  /\ work \subseteq Root /\ (work # {} => pc \in {"boot", "recover"})
  /\ queue \in Seq(SUBSET File) /\ Len(queue) <= QueueCapacity
  /\ coalescer \subseteq File /\ dirty \subseteq Root
  /\ DOMAIN batch \subseteq File /\ \A f \in DOMAIN batch : batch[f] \in Version
  /\ watched \subseteq Root /\ rewatch \subseteq Root
  /\ edits \in 0..MaxEdits /\ faults \in Seq(Faults) /\ Len(faults) <= MaxFaults /\ blind \subseteq File

(* spawn and the head of run_loop on an empty index, every root present: the
   watcher threads are started, the roots are dirty and recovery_pass begins.
   A root that is missing at this point is not scheduled for anything; see
   the README. *)
Init ==
  /\ there = Root /\ disk \in [File -> {0, 1}] /\ rows = [f \in File |-> 0]
  /\ opening = [r \in Root |-> 1] /\ live = [r \in Root |-> 0] /\ dying = [r \in Root |-> 0]
  /\ notify = [r \in Root |-> {}] /\ chan = <<>>
  /\ pc = "boot" /\ work = Root
  /\ queue = <<>> /\ coalescer = {} /\ dirty = {} /\ batch = <<>>
  /\ watched = Root /\ rewatch = {}
  /\ edits = 0 /\ faults = <<>> /\ blind = {}

-----------------------------------------------------------------------------
Fault(kind) ==
  kind \in Faults /\ Len(faults) < MaxFaults /\ faults' = Append(faults, kind)

(* The file system. *)

(* A set of files of one root changes in one operation: one change for a
   create, write or delete, the old and the new path for a rename.  A live
   watcher is told; nobody else ever will be. *)
Touch(r, new) ==
  LET ids == {f \in FilesOf(r) : new[f] # disk[f]} IN
  /\ r \in there /\ edits < MaxEdits /\ ids # {}
  /\ disk' = new /\ edits' = edits + 1
  /\ notify' = IF live[r] > 0 THEN [notify EXCEPT ![r] = @ \cup {ids}] ELSE notify
  /\ blind' = IF live[r] > 0 THEN blind ELSE blind \cup ids
  /\ UNCHANGED <<there, rows, opening, live, dying, chan, pc, work, events, batch,
                 maint, faults>>

Write(f) == \E v \in Version : Touch(RootOf[f], [disk EXCEPT ![f] = v])

Rename(f, g) ==
  /\ RootOf[f] = RootOf[g] /\ disk[f] # 0 /\ disk[g] = 0
  /\ Touch(RootOf[f], [disk EXCEPT ![f] = 0, ![g] = disk[f]])

(* A root directory is deleted (a drive is unplugged): pending reads of its
   watchers fail, what they had not reported is lost. *)
RootVanishes(r) ==
  /\ Fault("vanish") /\ r \in there
  /\ there' = there \ {r}
  /\ disk' = [f \in File |-> IF RootOf[f] = r THEN 0 ELSE disk[f]]
  /\ dying' = [dying EXCEPT ![r] = @ + live[r]] /\ live' = [live EXCEPT ![r] = 0]
  /\ notify' = [notify EXCEPT ![r] = {}]
  /\ blind' = IF live[r] > 0 THEN blind ELSE blind \cup FilesOf(r)
  /\ UNCHANGED <<edits, rows, opening, chan, pc, work, events, batch, maint>>

RootReturns(r) ==
  /\ r \notin there /\ there' = there \cup {r}
  /\ \E new \in [FilesOf(r) -> {0, 1}] :
       disk' = [f \in File |-> IF RootOf[f] = r THEN new[f] ELSE disk[f]]
  /\ blind' = blind \cup FilesOf(r)
  /\ UNCHANGED <<edits, rows, watchers, chan, pc, work, events, batch, maint, faults>>

-----------------------------------------------------------------------------
(* The watcher threads. *)

(* CreateFileW and the first ReadDirectoryChangesW; on a missing root the
   thread fails instead. *)
WatcherOpens(r) ==
  /\ opening[r] > 0 /\ opening' = [opening EXCEPT ![r] = @ - 1]
  /\ IF r \in there THEN live' = [live EXCEPT ![r] = @ + 1] /\ UNCHANGED dying
                    ELSE dying' = [dying EXCEPT ![r] = @ + 1] /\ UNCHANGED live
  /\ UNCHANGED <<fs, rows, notify, chan, pc, work, events, batch, maint, faults, blind>>

WatcherSends(r) ==
  \E ids \in notify[r] :
    /\ notify' = [notify EXCEPT ![r] = @ \ {ids}] /\ chan' = Append(chan, Change(ids))
    /\ UNCHANGED <<fs, rows, opening, live, dying, pc, work, events, batch, maint,
                   faults, blind>>

(* ERROR_NOTIFY_ENUM_DIR or zero bytes: the kernel's buffer overflowed. *)
WatcherOverflows(r) ==
  /\ Fault("overflow") /\ notify[r] # {}
  /\ notify' = [notify EXCEPT ![r] = {}] /\ chan' = Append(chan, Overflow(r))
  /\ UNCHANGED <<fs, rows, opening, live, dying, pc, work, events, batch, maint, blind>>

(* Any other watch error of a live watcher. *)
WatcherFails(r) ==
  /\ Fault("exit") /\ live[r] > 0
  /\ live' = [live EXCEPT ![r] = @ - 1] /\ dying' = [dying EXCEPT ![r] = @ + 1]
  /\ notify' = IF live[r] = 1 THEN [notify EXCEPT ![r] = {}] ELSE notify
  /\ UNCHANGED <<fs, rows, opening, chan, pc, work, events, batch, maint, blind>>

WatcherReportsExit(r) ==
  /\ dying[r] > 0 /\ dying' = [dying EXCEPT ![r] = @ - 1]
  /\ chan' = Append(chan, WatcherExited(r))
  /\ UNCHANGED <<fs, rows, opening, live, notify, pc, work, events, batch, maint,
                 faults, blind>>

-----------------------------------------------------------------------------
(* The coordinator thread: recv, recovery_pass, sweep, bridge and batch, in
   this order in every iteration of run_loop. *)

(* A full queue is emptied, the roots of its events and of the rejected one
   are dirty.  The queue is drained in every iteration, so it is empty here. *)
PushChange(ids) ==
  IF Len(queue) < QueueCapacity
  THEN queue' = Append(queue, ids) /\ UNCHANGED <<coalescer, dirty>>
  ELSE /\ queue' = <<>> /\ UNCHANGED coalescer
       /\ dirty' = dirty \cup {RootOf[f] : f \in ids \cup UNION {queue[i] : i \in DOMAIN queue}}

(* An Overflow empties queue and coalescer, whoever's events they hold. *)
DropEvents(r) ==
  /\ queue' = <<>> /\ coalescer' = {} /\ dirty' = dirty \cup {r}
  /\ UNCHANGED rewatch

ScheduleRewatch(r) ==
  /\ dirty' = dirty \cup {r} /\ rewatch' = rewatch \cup {r}
  /\ UNCHANGED <<queue, coalescer>>

ToRecovery ==
  /\ pc = "recv" /\ pc' = "recover"
  /\ UNCHANGED <<fs, rows, watchers, batch, watched, faults, blind>>

Receive ==
  /\ ToRecovery /\ chan # <<>> /\ chan' = Tail(chan)
  /\ LET m == Head(chan) IN
       \/ m.kind = "Change" /\ PushChange(m.ids) /\ UNCHANGED rewatch
       \/ m.kind = "Overflow" /\ DropEvents(m.root)
       \/ m.kind = "WatcherExited" /\ ScheduleRewatch(m.root)
  /\ work' = dirty'

ReceiveTimesOut ==
  /\ ToRecovery /\ chan = <<>> /\ work' = dirty
  /\ UNCHANGED <<chan, events, rewatch>>

(* scan_into inserts what it finds under a root; rescan_root replaces the
   root's rows by it. *)
scan_into(r) == [f \in FilesOf(r) |-> disk[f]]

Rescanned(R) ==
  [f \in File |-> IF RootOf[f] \in R THEN scan_into(RootOf[f])[f] ELSE rows[f]]

(* recovery_pass for one root it drained from the dirty set.
   find_original_root returns an arbitrary indexed path under the root, and it
   is that path which is rescanned: a file has no entries, so its row is
   deleted and nothing is inserted.  Only a root without rows is scanned. *)
indexed(r) == {f \in FilesOf(r) : rows[f] # 0}

RecoverRoot(r) ==
  /\ pc \in {"boot", "recover"} /\ r \in work
  /\ work' = work \ {r} /\ dirty' = dirty \ {r}
  /\ \/ \E f \in indexed(r) : rows' = [rows EXCEPT ![f] = 0] /\ UNCHANGED blind
     \/ /\ indexed(r) = {} /\ r \in there
        /\ rows' = Rescanned({r}) /\ blind' = blind \ FilesOf(r)
     \/ indexed(r) = {} /\ r \notin there /\ UNCHANGED <<rows, blind>>
  /\ UNCHANGED <<fs, watchers, chan, pc, queue, coalescer, batch, maint, faults>>

EndRecovery ==
  /\ pc \in {"boot", "recover"} /\ work = {}
  /\ pc' = IF pc = "boot" THEN "recv" ELSE "sweep"
  /\ UNCHANGED <<fs, rows, watchers, chan, work, events, batch, maint, faults, blind>>

(* Maintenance::sweep: the existence patrol, when its second is over, drops
   missing roots from watched and schedules them; every scheduled root that is
   due and exists is rescanned first and given a new watcher thread second. *)
Sweep_watches_only ==
  \E missing \in {{}, watched \ there} :
    \E due \in SUBSET ((rewatch \cup missing) \cap there) :
      /\ pc = "sweep" /\ pc' = "batch"
      /\ watched' = (watched \ missing) \cup due
      /\ rewatch' = (rewatch \cup missing) \ due
      /\ opening' = [r \in Root |-> IF r \in due THEN opening[r] + 1 ELSE opening[r]]
      /\ UNCHANGED <<fs, rows, live, dying, notify, chan, work, events, batch, faults, blind>>

Sweep ==
  \E missing \in {{}, watched \ there} :
    \E due \in SUBSET ((rewatch \cup missing) \cap there) :
      /\ pc = "sweep" /\ pc' = "batch"
      /\ watched' = (watched \ missing) \cup due
      /\ rewatch' = (rewatch \cup missing) \ due
      /\ rows' = Rescanned(due) /\ blind' = {f \in blind : RootOf[f] \notin due}
      /\ opening' = [r \in Root |-> IF r \in due THEN opening[r] + 1 ELSE opening[r]]
      /\ UNCHANGED <<fs, live, dying, notify, chan, work, events, batch, faults>>

(* The bridge moves the queue's identities to the coalescer.  A batch is due
   when it is large enough or the tick is over; its identities are verified
   against the file system now and written later. *)
bridged == coalescer \cup UNION {queue[i] : i \in DOMAIN queue}

Bridge ==
  /\ pc = "batch" /\ queue' = <<>>
  /\ UNCHANGED <<fs, rows, watchers, chan, work, dirty, maint, faults, blind>>

NotDue ==
  /\ Bridge /\ Cardinality(bridged) < BatchSize
  /\ coalescer' = bridged /\ pc' = "recv" /\ UNCHANGED batch

Verify_full_only ==
  /\ Bridge /\ Cardinality(bridged) >= BatchSize
  /\ coalescer' = {} /\ batch' = [f \in bridged |-> disk[f]] /\ pc' = "commit"

Verify ==
  /\ Bridge /\ bridged # {}
  /\ coalescer' = {} /\ batch' = [f \in bridged |-> disk[f]] /\ pc' = "commit"

(* apply_batch: one transaction. *)
ApplyBatch ==
  /\ pc = "commit" /\ pc' = "recv"
  /\ rows' = [f \in File |-> IF f \in DOMAIN batch THEN batch[f] ELSE rows[f]]
  /\ batch' = <<>>
  /\ UNCHANGED <<fs, watchers, chan, work, events, maint, faults, blind>>

-----------------------------------------------------------------------------
Coordinator ==
  \/ Receive \/ ReceiveTimesOut \/ EndRecovery \/ Sweep \/ NotDue \/ Verify \/ ApplyBatch
  \/ \E r \in Root : RecoverRoot(r)

Watcher(r) == WatcherOpens(r) \/ WatcherSends(r) \/ WatcherReportsExit(r)

Next ==
  \/ Coordinator
  \/ \E r \in Root :
       \/ WatcherOpens(r) \/ WatcherSends(r) \/ WatcherReportsExit(r)
       \/ WatcherOverflows(r) \/ WatcherFails(r) \/ RootVanishes(r) \/ RootReturns(r)
  \/ \E f \in File : Write(f)
  \/ \E f, g \in File : Rename(f, g)

Spec == Init /\ [][Next]_vars

(* The threads run, the tick comes round, and a root that exists whenever its
   turn comes is due at last. *)
FairSpec ==
  /\ Spec /\ WF_vars(Coordinator) /\ SF_vars(Verify)
  /\ \A r \in Root : WF_vars(Watcher(r)) /\ SF_vars(Sweep /\ r \in there /\ r \notin rewatch')

-----------------------------------------------------------------------------
(* Properties. *)

InChannel(m) == \E i \in DOMAIN chan : chan[i] = m

(* Somebody still has to look at file f: a watcher that will report it, a
   message, the queue, the coalescer. *)
Reported(f) ==
  \/ \E ids \in notify[RootOf[f]] : f \in ids
  \/ \E i \in DOMAIN chan : chan[i].kind = "Change" /\ f \in chan[i].ids
  \/ \E i \in DOMAIN queue : f \in queue[i]
  \/ f \in coalescer
  \/ f \in DOMAIN batch /\ batch[f] = disk[f]

(* A rescan of root r is still to come. *)
RecoveryAhead(r) ==
  \/ dying[r] > 0 \/ InChannel(WatcherExited(r)) \/ InChannel(Overflow(r))
  \/ r \in dirty \cup work \cup rewatch

Overflowed == \E i \in DOMAIN faults : faults[i] = "overflow"

(* No update is lost: until a watcher's buffer overflows, a file whose row
   differs from the disk is known to somebody, whatever watchers failed, roots
   vanished and batches were under way when it changed; only a file that
   changed while nothing watched its root, and was not rescanned since, may go
   unnoticed. *)
NoLostUpdate ==
  \A f \in File : rows[f] # disk[f] =>
    Reported(f) \/ RecoveryAhead(RootOf[f]) \/ f \in blind \/ Overflowed

(* "never abandoned (self-healing on reappearance)": a root that was there at
   start has a watcher, or a report or schedule that leads to one. *)
NeverAbandoned ==
  \A r \in Root : \/ opening[r] + live[r] + dying[r] > 0
                  \/ InChannel(WatcherExited(r)) \/ r \in rewatch

(* Eventual consistency: when files stop changing, the rows of every root that
   is there become and stay what is on disk, except for files nobody watched
   and after an overflow. *)
EventuallyConsistent ==
  <>[](\A f \in File : RootOf[f] \in there => \/ rows[f] = disk[f]
                                              \/ f \in blind \/ Overflowed)

(* "The watcher is started BEFORE the first rescan and keeps collecting during
   it [...] no rebuild gap": without any fault, no change goes unnoticed once
   the start-up scan is over.  The watcher thread may open its root only after
   the scan, so this does not hold. *)
NoRebuildGap ==
  pc # "boot" => \A f \in File : rows[f] = disk[f] \/ Reported(f)

(* "delete everything under the root in the index, re-scan the REAL subtree":
   the recovery of a dirty root leaves its rows equal to the disk.  It rescans
   one indexed path instead of the root, so this does not hold. *)
RecoveryRescansRoot ==
  [][\A r \in work \ work' : r \in there => \A f \in FilesOf(r) : rows'[f] = disk[f]]_vars
=============================================================================
