---------------------------- MODULE DagScheduler ----------------------------
(***************************************************************************)
(* The durable workflow scheduler: run_graph of launcher-workflow          *)
(* src/scheduler.rs over the SQLite RunStore (src/durable.rs) and the      *)
(* SQLite ApprovalStore (src/approval.rs), for one run id.                 *)
(*                                                                         *)
(* Durable state survives Crash; everything the function keeps on its      *)
(* stack does not.  A store write and the pure computation before it are   *)
(* one step (a crash between the two is the crash before the step); the    *)
(* gate reads one approval per step and the batch executes one node per    *)
(* step (the executor sits behind a mutex), so decisions, cancellation and *)
(* crashes interleave with both.                                           *)
(***************************************************************************)
EXTENDS WorkflowGraph, Sequences

CONSTANTS
  Graphs,       \* the validated definitions the host may run
  Rank,         \* the order of node ids ("sort_by(a.0.cmp(&b.0))")
  NoCp,         \* no row for this run in workflow_runs
  NoResult,     \* an empty result slot
  Err,          \* a step that returned Err
  MaxVersion,   \* bound: version numbers of the definitions
  MaxFaults     \* bound: crashes, cancellations, failing SQLite statements
                \* and failing steps, together

ASSUME GraphsAssumption == Graphs \subseteq Graph /\ \A g \in Graphs : Valid(g)
ASSUME RankAssumption ==
  Rank \in [Node -> Nat] /\ \A m, n \in Node : Rank[m] = Rank[n] => m = n
ASSUME BoundsAssumption ==
  MaxVersion \in Nat \ {0} /\ MaxFaults \in Nat
ASSUME ResultAssumption ==
  NoResult \notin Value /\ Err \notin Value /\ NoResult # Err

VARIABLES
  graph, version,             \* the definition the host holds now
  cp,                         \* durable: workflow_runs row of this run
  approval, expiring,         \* durable: approvals rows; those with a deadline
  pc,                         \* where run_graph is; "idle" = not running
  finished, skipped, vars,    \* its locals
  togate, pending, batch,     \* runnable left to gate; gated_pending; to_execute
  results,                    \* the slots of the batch
  cancel,                     \* the host's AtomicBool
  stop,                       \* what the last run_graph call returned
  faults,                     \* how many faults happened so far
  blind,                      \* history: the load of this pass failed
  origin, cpOrigin            \* history: definitions the locals, `cp` stem from

durable == <<graph, version, cp, approval, expiring>>
history == <<blind, origin, cpOrigin>>
locals  == <<finished, skipped, vars, togate, pending, batch, results>>
allvars == <<durable, pc, locals, cancel, stop, faults, history>>

RunStatus == {"Running", "AwaitingApproval", "Paused", "Finished", "Failed"}

RunCheckpoint == [ status : RunStatus, version : 1..MaxVersion,
                   finished : SUBSET Node, skipped : SUBSET Node, vars : Store ]

ApprovalStatus == {"none", "pending", "approved", "rejected"}

TypeOK ==
  /\ graph \in Graphs /\ version \in 1..MaxVersion
  /\ cp \in RunCheckpoint \cup {NoCp}
  /\ approval \in [Node -> ApprovalStatus] /\ expiring \subseteq Node
  /\ pc \in {"idle", "top", "gate", "exec", "apply"}
  /\ finished \subseteq Node /\ skipped \subseteq Node /\ vars \in Store
  /\ togate \subseteq Node /\ pending \subseteq Node /\ batch \subseteq Node
  /\ results \in [Node -> Value \cup {NoResult, Err}]
  /\ cancel \in BOOLEAN
  /\ stop \in {"none", "Finished", "Paused", "AwaitingApproval", "Failed", "Stall"}
  /\ faults \in 0..MaxFaults
  /\ blind \in BOOLEAN /\ origin \subseteq Graphs /\ cpOrigin \subseteq Graphs

NoResults == [n \in Node |-> NoResult]

Init ==
  /\ graph \in Graphs /\ version = 1
  /\ cp = NoCp
  /\ approval = [n \in Node |-> "none"] /\ expiring = {}
  /\ pc = "idle"
  /\ finished = {} /\ skipped = {} /\ vars = EmptyStore
  /\ togate = {} /\ pending = {} /\ batch = {} /\ results = NoResults
  /\ cancel = FALSE /\ stop = "none"
  /\ faults = 0
  /\ blind = FALSE /\ origin = {} /\ cpOrigin = {}

Fault == faults < MaxFaults /\ faults' = faults + 1

-----------------------------------------------------------------------------
(* checkpoint(): one atomic upsert; a failing statement is only logged. *)
checkpoint(status, fin, skip, store) ==
  \/ /\ cp' = [status |-> status, version |-> version,
               finished |-> fin, skipped |-> skip, vars |-> store]
     /\ cpOrigin' = origin /\ UNCHANGED faults
  \/ /\ Fault
     /\ UNCHANGED <<cp, cpOrigin>>

(* run_graph returns: its locals are gone. *)
Return(why) ==
  /\ pc' = "idle" /\ stop' = why
  /\ finished' = {} /\ skipped' = {} /\ vars' = EmptyStore
  /\ togate' = {} /\ pending' = {} /\ batch' = {} /\ results' = NoResults
  /\ blind' = FALSE /\ origin' = {}

Resumable == cp # NoCp /\ cp.version = version

(* Entry of run_graph, with what load returned: the locals are those of the
   checkpoint or those of a fresh run. *)
Enter(resumes) ==
  /\ pc = "idle"
  /\ pc' = "top" /\ stop' = "none" /\ cancel' = FALSE
  /\ finished' = IF resumes THEN cp.finished ELSE {}
  /\ skipped' = IF resumes THEN cp.skipped ELSE {}
  /\ vars' = IF resumes THEN cp.vars ELSE EmptyStore
  /\ origin' = {graph} \cup (IF resumes THEN cpOrigin ELSE {})
  /\ UNCHANGED <<durable, togate, pending, batch, results, cpOrigin>>

(* Resume from the checkpoint when it names this version of the definition,
   whatever its status and whatever the definition holds; else start afresh. *)
Start == Enter(Resumable) /\ UNCHANGED <<faults, blind>>

(* "load(run_id).ok().flatten()": a load that fails is a run never begun. *)
StartBlind ==
  /\ cp # NoCp /\ Enter(FALSE)
  /\ Fault /\ blind' = TRUE

runnable ==
  {n \in ready_nodes(graph, finished, skipped) :
     condition_holds(graph.condition[n], vars)}

remaining == graph.nodes \ (finished \cup skipped)

NewSkips == condition_skips(graph, skipped, vars)

PauseAtTop ==
  /\ pc = "top" /\ cancel
  /\ checkpoint("Paused", finished, skipped, vars)
  /\ Return("Paused")
  /\ UNCHANGED <<graph, version, approval, expiring, cancel>>

(* Nothing runnable: finish, skip false branches and loop, or give up. *)
Finish ==
  /\ pc = "top" /\ ~cancel /\ runnable = {} /\ remaining = {}
  /\ checkpoint("Finished", finished, skipped \cup NewSkips, vars)
  /\ Return("Finished")
  /\ UNCHANGED <<graph, version, approval, expiring, cancel>>

SkipFalseBranches ==
  /\ pc = "top" /\ ~cancel /\ runnable = {} /\ remaining # {} /\ NewSkips # {}
  /\ skipped' = skipped \cup NewSkips
  /\ UNCHANGED <<durable, pc, finished, vars, togate, pending, batch, results,
                 cancel, stop, faults, history>>

Stall ==
  /\ pc = "top" /\ ~cancel /\ runnable = {} /\ remaining # {} /\ NewSkips = {}
  /\ checkpoint("Failed", finished, skipped, vars)
  /\ Return("Stall")
  /\ UNCHANGED <<graph, version, approval, expiring, cancel>>

(* "no runnable node and no progress": a pass over a validated graph never
   comes to the second branch (NoStall). *)
SkipOrStall == IF NewSkips # {} THEN SkipFalseBranches ELSE Stall

BeginGate ==
  /\ pc = "top" /\ ~cancel /\ runnable # {}
  /\ pc' = "gate" /\ togate' = runnable
  /\ UNCHANGED <<durable, finished, skipped, vars, pending, batch, results,
                 cancel, stop, faults, history>>

(* Mutants of the gate: pending counts as approved; INSERT OR REPLACE; no row. *)
ToExecute_unrejected(n) ==
  /\ n \notin graph.approval \/ approval[n] # "rejected"
  /\ batch' = batch \cup {n}
  /\ UNCHANGED <<skipped, pending, approval, faults>>

RequestApproval_unrecorded(n) ==
  /\ n \in graph.approval /\ approval[n] \in {"none", "pending"}
  /\ pending' = pending \cup {n}
  /\ UNCHANGED <<batch, skipped, faults, approval>>

(* One node of the approval gate.  A read that fails counts as undecided, and
   a request that fails leaves no row: the run waits either way. *)
ToExecute(n) ==
  /\ n \notin graph.approval \/ approval[n] = "approved"
  /\ batch' = batch \cup {n}
  /\ UNCHANGED <<skipped, pending, approval, faults>>

SkipRejected(n) ==
  /\ n \in graph.approval /\ approval[n] = "rejected"
  /\ skipped' = skipped \cup {n}
  /\ UNCHANGED <<batch, pending, approval, faults>>

RequestApproval(n) ==
  /\ n \in graph.approval /\ approval[n] \in {"none", "pending"}
  /\ approval' = [approval EXCEPT ![n] = "pending"]   \* INSERT OR IGNORE
  /\ pending' = pending \cup {n}
  /\ UNCHANGED <<batch, skipped, faults>>

ApprovalDbError(n) ==
  /\ n \in graph.approval
  /\ Fault
  /\ pending' = pending \cup {n}
  /\ UNCHANGED <<batch, skipped, approval>>

GateNode(n) ==
  /\ pc = "gate" /\ n \in togate /\ togate' = togate \ {n}
  /\ ToExecute(n) \/ SkipRejected(n) \/ RequestApproval(n) \/ ApprovalDbError(n)
  /\ UNCHANGED <<graph, version, cp, expiring, pc, finished, vars, results, cancel, stop,
                 history>>

AwaitApproval ==
  /\ pc = "gate" /\ togate = {} /\ pending # {}
  /\ checkpoint("AwaitingApproval", finished, skipped, vars)
  /\ Return("AwaitingApproval")
  /\ UNCHANGED <<graph, version, approval, expiring, cancel>>

PauseBeforeBatch ==
  /\ pc = "gate" /\ togate = {} /\ pending = {} /\ cancel
  /\ checkpoint("Paused", finished, skipped, vars)
  /\ Return("Paused")
  /\ UNCHANGED <<graph, version, approval, expiring, cancel>>

StartBatch ==
  /\ pc = "gate" /\ togate = {} /\ pending = {} /\ ~cancel
  /\ pc' = "exec"
  /\ UNCHANGED <<durable, locals, cancel, stop, faults, history>>

(* StepExecutor::execute, one node at a time, all with the variables of the
   start of the batch; the effect happens here. *)
Executes(n) == pc = "exec" /\ n \in batch /\ results[n] = NoResult

StepOk(n, v) ==
  /\ Executes(n)
  /\ results' = [results EXCEPT ![n] = v]
  /\ UNCHANGED <<durable, pc, finished, skipped, vars, togate, pending, batch,
                 cancel, stop, faults, history>>

StepErr(n) ==
  /\ Executes(n) /\ Fault
  /\ results' = [results EXCEPT ![n] = Err]
  /\ UNCHANGED <<durable, pc, finished, skipped, vars, togate, pending, batch,
                 cancel, stop, history>>

JoinBatch ==
  /\ pc = "exec" /\ \A n \in batch : results[n] # NoResult
  /\ pc' = "apply"
  /\ UNCHANGED <<durable, locals, cancel, stop, faults, history>>

(* Results are applied in node_id order, each followed by a checkpoint; the
   first Err ends the run and the results after it are not recorded. *)
NextResult(n) ==
  pc = "apply" /\ n \in batch /\ \A m \in batch : Rank[n] <= Rank[m]

ApplyOk(n) ==
  /\ NextResult(n) /\ results[n] # Err
  /\ vars' = apply_outputs(graph, vars, n, results[n])
  /\ finished' = finished \cup {n}
  /\ batch' = batch \ {n} /\ results' = [results EXCEPT ![n] = NoResult]
  /\ checkpoint("Running", finished', skipped, vars')
  /\ UNCHANGED <<graph, version, approval, expiring, pc, skipped, togate,
                 pending, cancel, stop, blind, origin>>

ApplyErr(n) ==
  /\ NextResult(n) /\ results[n] = Err
  /\ checkpoint("Failed", finished, skipped, vars)
  /\ Return("Failed")
  /\ UNCHANGED <<graph, version, approval, expiring, cancel>>

EndBatch ==
  /\ pc = "apply" /\ batch = {}
  /\ skipped' = skipped \cup NewSkips
  /\ pc' = "top"
  /\ UNCHANGED <<durable, finished, vars, togate, pending, batch, results,
                 cancel, stop, faults, history>>

-----------------------------------------------------------------------------
(* The host and the user. *)
RequestCancel ==
  /\ pc # "idle" /\ ~cancel /\ Fault /\ cancel' = TRUE
  /\ UNCHANGED <<durable, pc, locals, stop, history>>

decide(n, status) ==
  /\ approval[n] = "pending"
  /\ approval' = [approval EXCEPT ![n] = status]
  /\ UNCHANGED <<graph, version, cp, expiring, pc, locals, cancel, stop,
                 faults, history>>

(* request_with_expiry: INSERT OR IGNORE with a deadline. *)
request_with_expiry(n) ==
  /\ n \in graph.approval /\ approval[n] = "none"
  /\ approval' = [approval EXCEPT ![n] = "pending"]
  /\ expiring' = expiring \cup {n}
  /\ UNCHANGED <<graph, version, cp, pc, locals, cancel, stop, faults, history>>

expire_before ==
  /\ \E n \in expiring : approval[n] = "pending"
  /\ approval' = [n \in Node |-> IF n \in expiring /\ approval[n] = "pending"
                                 THEN "rejected" ELSE approval[n]]
  /\ UNCHANGED <<graph, version, cp, expiring, pc, locals, cancel, stop,
                 faults, history>>

(* The definition is edited between two passes.  The editor leaves the version
   as it is; a definition that was imported brings the version of its file. *)
EditGraph(g) ==
  /\ pc = "idle" /\ graph' = g /\ UNCHANGED version
  /\ UNCHANGED <<cp, approval, expiring, pc, locals, cancel, stop, faults, history>>

import_json(g) ==
  /\ pc = "idle" /\ graph' = g /\ version' \in 1..MaxVersion
  /\ UNCHANGED <<cp, approval, expiring, pc, locals, cancel, stop, faults, history>>

(* The process dies at any point of run_graph. *)
Crash ==
  /\ pc # "idle" /\ Fault
  /\ Return("none")
  /\ UNCHANGED <<durable, cancel, cpOrigin>>

Decide == \E n \in Node : decide(n, "approved") \/ decide(n, "rejected")

Pass ==
  \/ PauseAtTop \/ Finish \/ SkipOrStall \/ BeginGate
  \/ \E n \in Node : GateNode(n)
  \/ AwaitApproval \/ PauseBeforeBatch \/ StartBatch
  \/ \E n \in Node : StepErr(n) \/ \E v \in Value : StepOk(n, v)
  \/ JoinBatch
  \/ \E n \in Node : ApplyOk(n) \/ ApplyErr(n)
  \/ EndBatch

Next ==
  \/ Start \/ StartBlind \/ Pass
  \/ RequestCancel \/ Decide \/ expire_before \/ Crash
  \/ \E n \in Node : request_with_expiry(n)
  \/ \E g \in Graphs : EditGraph(g) \/ import_json(g)

Spec == Init /\ [][Next]_allvars

(* A host that keeps driving an unfinished run and a user who answers. *)
Ended == stop \in {"Finished", "Failed", "Stall"}

FairSpec ==
  /\ Spec /\ WF_allvars(Pass)
  /\ WF_allvars(Start /\ ~Ended)
  /\ WF_allvars(Decide)

-----------------------------------------------------------------------------
(* Properties. *)

Recorded == IF cp = NoCp THEN {} ELSE cp.finished

(* approval.rs: "only an APPROVED decision lets the scheduler execute the
   node".  Whatever order decisions, cancellations, failing SQLite statements,
   crashes, edits of the gates and resumed passes come in, a node that the
   definition gates is handed to the executor only if the durable decision is
   Approved; and as long as one definition did all the work, the gated nodes a
   pass and the checkpoint hold for finished were approved. *)
GatedOnlyIfApproved ==
  /\ \A n \in batch \cap graph.approval : approval[n] = "approved"
  /\ origin = {graph} =>
       \A n \in finished \cap graph.approval : approval[n] = "approved"
  /\ \A g \in Graphs : cpOrigin = {g} =>
       \A n \in Recorded \cap g.approval : approval[n] = "approved"

Closed(g, F, S) == \A n \in F : incoming(g, n) \subseteq F \cup S

(* Wait-all join.  What is handed to the executor has, under the definition of
   the pass, every predecessor finished or skipped, whatever definition of this
   version its checkpoint was written under; and as long as one definition did
   all the work, what the pass and the checkpoint record is closed under it. *)
PredecessorClosed ==
  /\ \A n \in batch : incoming(graph, n) \subseteq finished \cup skipped
  /\ origin = {graph} => Closed(graph, finished, skipped)
  /\ \A g \in Graphs :
       cp # NoCp /\ cpOrigin = {g} => Closed(g, cp.finished, cp.skipped)

(* A validated graph never ends in "no runnable node and no progress
   (scheduler stall)", whatever is skipped, rejected or lost on the way. *)
NoStall == stop # "Stall"

(* A pass hands no node to the executor that it knows to be finished, and knows
   what the checkpoint of this version records, unless the load of the
   checkpoint failed: after any crash, pause, failing step, lost write or edit. *)
NeverRepeatRecorded ==
  [][\A n \in Node :
       results[n] = NoResult /\ results'[n] # NoResult
       => n \notin finished /\ (Resumable /\ n \in cp.finished => blind)]_allvars

(* Progress is durable: only a pass that could not load the checkpoint of one
   version replaces it by one that lacks a finished or a skipped node. *)
CheckpointGrows ==
  [][cp # NoCp /\ cp' # NoCp /\ cp'.version = cp.version /\ ~blind
     => cp.finished \subseteq cp'.finished /\ cp.skipped \subseteq cp'.skipped
    ]_allvars

(* "a repeated scheduler pass never resets an existing decision": nothing, not
   even expiry or a new version of the graph, changes a decision once made. *)
DecisionsFinal ==
  [][\A n \in Node : approval[n] \in {"approved", "rejected"}
                     => approval'[n] = approval[n]]_allvars

(* Every run ends: with a host that keeps resuming it, a user who answers and
   finitely many faults, run_graph returns Finished or Failed. *)
RunEnds == <>Ended

-----------------------------------------------------------------------------
(* What the documents say and the code does not keep. *)

(* history/108: "what is finished is never executed again": a load that fails
   is taken for a run never begun, and the run repeats what it recorded. *)
FinishedNeverRepeat ==
  [][\A n \in Node :
       results[n] = NoResult /\ results'[n] # NoResult
       => ~(Resumable /\ n \in cp.finished)]_allvars

(* "Run v1 -> v1", never switched by itself: a run goes on under the definition
   it was begun with.  The version is all that is compared, and the editor does
   not change it. *)
OneDefinition == finished # {} => origin = {graph}

(* approval.rs: "Decisions are consume-once per (run, node)".  A decision is
   only read: when the result of a gated step is lost, the approval stays, and
   the next pass executes the step again on it. *)
ConsumeOnce ==
  [][\A n \in graph.approval :
       results[n] \in Value /\ results'[n] = NoResult
       => n \in Recorded' \/ approval'[n] # "approved"]_allvars
=============================================================================
