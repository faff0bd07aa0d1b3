------------------------ MODULE DagScheduler_proofs ------------------------
(***************************************************************************)
(* Proofs about DagScheduler for every set of graphs, nodes and values and *)
(* every bound on the faults.                                              *)
(***************************************************************************)
EXTENDS DagScheduler, TLAPS

(* What the program counter says about the locals of run_graph, and that a pass
   and a checkpoint stem from some definition, a pass from the one it runs. *)
PcShape ==
  /\ pc = "idle" => /\ finished = {} /\ skipped = {} /\ togate = {}
                    /\ pending = {} /\ batch = {} /\ ~blind /\ origin = {}
  /\ pc = "top" => togate = {} /\ batch = {}
  /\ pc \in {"exec", "apply"} => togate = {}
  /\ pc = "apply" => \A n \in batch : results[n] # NoResult
  /\ pc # "idle" => graph \in origin
  /\ cp # NoCp => cpOrigin # {}

(* Nodes in the gate or in the batch are ready and not finished. *)
BatchReady ==
  \A n \in togate \cup batch :
     n \notin finished /\ incoming(graph, n) \subseteq finished \cup skipped

(* A running pass knows everything the checkpoint of its version knows, unless
   it could not load it. *)
AheadOfCheckpoint ==
  pc # "idle" /\ ~blind /\ Resumable =>
     cp.finished \subseteq finished /\ cp.skipped \subseteq skipped

IInv ==
  TypeOK /\ PcShape /\ BatchReady /\ AheadOfCheckpoint
  /\ PredecessorClosed /\ GatedOnlyIfApproved

-----------------------------------------------------------------------------
(* The fields of the current graph. *)
LEMMA GraphFields ==
  ASSUME TypeOK
  PROVE  /\ graph.nodes \subseteq Node /\ graph.approval \subseteq Node
         /\ graph.outputs \in [Node -> SUBSET Var]
BY GraphsAssumption DEF TypeOK, Graph

(* A runnable node is an unsettled node whose predecessors are all settled. *)
LEMMA RunnableFacts ==
  ASSUME TypeOK, PredecessorClosed, NEW n \in runnable
  PROVE  /\ n \in Node /\ n \notin finished
         /\ incoming(graph, n) \subseteq finished \cup skipped
<1>1. n \in ready_nodes(graph, finished, skipped)
  BY DEF runnable
<1>2. /\ n \in graph.nodes \ (finished \cup skipped)
      /\ \/ incoming(graph, n) = {}
         \/ incoming(graph, n) \subseteq finished \cup skipped
  BY <1>1 DEF ready_nodes
<1> QED BY <1>2, GraphFields

LEMMA SkipsAreNodes == ASSUME TypeOK PROVE NewSkips \subseteq Node
BY GraphFields DEF NewSkips, condition_skips

LEMMA EmptyStoreType == EmptyStore \in Store
BY DEF EmptyStore, Store

LEMMA OutputsType ==
  ASSUME TypeOK, NEW n \in Node, NEW v \in Value
  PROVE  apply_outputs(graph, vars, n, v) \in Store
BY DEF TypeOK, apply_outputs, Store

(* A checkpoint written from well-typed arguments is well typed; when the write
   fails nothing changes. *)
LEMMA CheckpointType ==
  ASSUME TypeOK, PcShape, NEW st \in RunStatus, NEW F \in SUBSET Node,
         NEW S \in SUBSET Node, NEW s \in Store,
         checkpoint(st, F, S, s), version' = version
  PROVE  /\ cp' \in RunCheckpoint \cup {NoCp} /\ faults' \in 0..MaxFaults
         /\ cpOrigin' \subseteq Graphs
         /\ \/ cp' = cp /\ cpOrigin' = cpOrigin
            \/ /\ cp'.finished = F /\ cp'.skipped = S /\ cp'.version = version
               /\ cpOrigin' = origin
<1>1. CASE cp' = [status |-> st, version |-> version,
                  finished |-> F, skipped |-> S, vars |-> s]
           /\ cpOrigin' = origin /\ UNCHANGED faults
  BY <1>1 DEF RunCheckpoint, TypeOK
<1>2. CASE Fault /\ UNCHANGED <<cp, cpOrigin>>
  BY <1>2, BoundsAssumption DEF TypeOK, Fault
<1> QED BY <1>1, <1>2 DEF checkpoint

-----------------------------------------------------------------------------
LEMMA InitInv == Init => IInv
<1> SUFFICES ASSUME Init PROVE IInv
  OBVIOUS
<1>1. TypeOK
  <2>1. version \in 1..MaxVersion /\ faults \in 0..MaxFaults
    BY BoundsAssumption DEF Init
  <2>2. results \in [Node -> Value \cup {NoResult, Err}]
        /\ approval \in [Node -> ApprovalStatus]
    BY DEF Init, NoResults, ApprovalStatus
  <2>3. vars \in Store
    BY EmptyStoreType DEF Init
  <2> QED BY <2>1, <2>2, <2>3 DEF Init, TypeOK
<1>2. PcShape /\ BatchReady /\ AheadOfCheckpoint /\ PredecessorClosed
      /\ GatedOnlyIfApproved
  BY DEF Init, PcShape, BatchReady, AheadOfCheckpoint, PredecessorClosed,
         GatedOnlyIfApproved, Resumable, Recorded, Closed
<1> QED BY <1>1, <1>2 DEF IInv

(* Steps that write a checkpoint of the current locals (with more skips, for
   Finish) and return. *)
LEMMA ReturnInv ==
  ASSUME IInv, NEW st \in RunStatus, NEW S \in SUBSET Node, NEW why \in
         {"Finished", "Paused", "AwaitingApproval", "Failed", "Stall"},
         pc # "idle", skipped \subseteq S, checkpoint(st, finished, S, vars),
         Return(why),
         UNCHANGED <<graph, version, approval, expiring, cancel>>
  PROVE  IInv'
<1>0. TypeOK /\ PcShape
  BY DEF IInv
<1>1. /\ cp' \in RunCheckpoint \cup {NoCp} /\ faults' \in 0..MaxFaults
      /\ cpOrigin' \subseteq Graphs
      /\ \/ cp' = cp /\ cpOrigin' = cpOrigin
         \/ /\ cp'.finished = finished /\ cp'.skipped = S /\ cp'.version = version
            /\ cpOrigin' = origin
  BY <1>0, CheckpointType DEF TypeOK
<1>2. TypeOK'
  BY <1>0, <1>1, EmptyStoreType DEF TypeOK, Return, NoResults
<1>3. PcShape' /\ BatchReady' /\ AheadOfCheckpoint'
  BY <1>0, <1>1 DEF PcShape, BatchReady, AheadOfCheckpoint, Return
<1>4. PredecessorClosed'
  <2>1. CASE cp' = cp /\ cpOrigin' = cpOrigin
    BY <2>1 DEF IInv, PredecessorClosed, Closed, Return
  <2>2. CASE /\ cp'.finished = finished /\ cp'.skipped = S
             /\ cpOrigin' = origin
    BY <2>2, <1>0 DEF IInv, PredecessorClosed, Closed, Return, PcShape
  <2> QED BY <2>1, <2>2, <1>1
<1>5. GatedOnlyIfApproved'
  <2>1. CASE cp' = cp /\ cpOrigin' = cpOrigin
    BY <2>1 DEF IInv, GatedOnlyIfApproved, Return, Recorded
  <2>2. CASE cp'.finished = finished /\ cpOrigin' = origin
    BY <2>2, <1>0 DEF IInv, GatedOnlyIfApproved, Return, Recorded, PcShape
  <2> QED BY <2>1, <2>2, <1>1
<1> QED BY <1>2, <1>3, <1>4, <1>5 DEF IInv

(* The entry of run_graph restores what the checkpoint of this version holds,
   or nothing. *)
LEMMA EnterInv ==
  ASSUME IInv, NEW resumes \in BOOLEAN, resumes => Resumable, Enter(resumes),
         faults' \in 0..MaxFaults, blind' \in BOOLEAN,
         ~blind' => resumes = Resumable
  PROVE  IInv'
<1>0. TypeOK /\ PcShape
  BY DEF IInv
<1>a. /\ pc = "idle" /\ pc' = "top" /\ stop' = "none" /\ cancel' = FALSE
      /\ finished' = IF resumes THEN cp.finished ELSE {}
      /\ skipped' = IF resumes THEN cp.skipped ELSE {}
      /\ vars' = IF resumes THEN cp.vars ELSE EmptyStore
      /\ origin' = {graph} \cup (IF resumes THEN cpOrigin ELSE {})
      /\ UNCHANGED <<graph, version, cp, approval, expiring, togate, pending,
                     batch, results, cpOrigin>>
  BY DEF Enter, durable
<1>1. TypeOK'
  <2>1. resumes => cp \in RunCheckpoint
    BY <1>0 DEF TypeOK, Resumable
  <2>2. finished' \subseteq Node /\ skipped' \subseteq Node /\ vars' \in Store
    BY <1>a, <2>1, EmptyStoreType DEF RunCheckpoint
  <2>3. origin' \subseteq Graphs
    BY <1>0, <1>a DEF TypeOK
  <2> QED BY <1>0, <1>a, <2>2, <2>3 DEF TypeOK
<1>2. PcShape' /\ AheadOfCheckpoint' /\ BatchReady'
  BY <1>0, <1>a DEF PcShape, AheadOfCheckpoint, BatchReady, Resumable
<1>b. ASSUME origin' = {graph'}, resumes
      PROVE  cp # NoCp /\ cpOrigin = {graph} /\ graph \in Graphs
  BY <1>0, <1>a, <1>b DEF PcShape, Resumable, TypeOK
<1>3. PredecessorClosed'
  <2>1. origin' = {graph'} => Closed(graph', finished', skipped')
    <3>1. CASE resumes
      BY <1>a, <1>b, <3>1 DEF IInv, PredecessorClosed
    <3>2. CASE ~resumes
      BY <1>a, <3>2 DEF Closed
    <3> QED BY <3>1, <3>2
  <2> QED BY <1>0, <1>a, <2>1 DEF IInv, PredecessorClosed, PcShape
<1>4. GatedOnlyIfApproved'
  <2>1. ASSUME origin' = {graph'}
        PROVE  \A n \in finished' \cap graph'.approval : approval'[n] = "approved"
    <3>1. CASE resumes
      BY <1>a, <1>b, <2>1, <3>1 DEF IInv, GatedOnlyIfApproved, Recorded
    <3>2. CASE ~resumes
      BY <1>a, <3>2
    <3> QED BY <3>1, <3>2
  <2> QED BY <1>0, <1>a, <2>1 DEF IInv, GatedOnlyIfApproved, PcShape, Recorded
<1> QED BY <1>1, <1>2, <1>3, <1>4 DEF IInv

LEMMA StartInv == IInv /\ (Start \/ StartBlind) => IInv'
<1>1. ASSUME IInv, Start PROVE IInv'
  <2>1. Resumable \in BOOLEAN
    BY DEF Resumable
  <2> QED BY <1>1, <2>1, EnterInv DEF Start, IInv, TypeOK
<1>2. ASSUME IInv, StartBlind PROVE IInv'
  <2>1. faults' \in 0..MaxFaults
    BY <1>2, BoundsAssumption DEF StartBlind, Fault, IInv, TypeOK
  <2> QED BY <1>2, <2>1, EnterInv DEF StartBlind
<1> QED BY <1>1, <1>2

(* Marking condition skips, at the top of the loop or after a batch. *)
LEMMA SkipInv ==
  ASSUME IInv, pc # "idle", batch = {}, togate = {}, pc' = "top",
         skipped' = skipped \cup NewSkips,
         UNCHANGED <<durable, finished, vars, togate, pending, batch, results,
                     cancel, stop, faults, history>>
  PROVE  IInv'
<1>1. TypeOK'
  BY SkipsAreNodes DEF IInv, TypeOK, durable, history
<1>2. PcShape' /\ BatchReady' /\ AheadOfCheckpoint'
  BY DEF IInv, PcShape, BatchReady, AheadOfCheckpoint, durable, Resumable, history
<1>3. PredecessorClosed' /\ GatedOnlyIfApproved'
  BY DEF IInv, PredecessorClosed, Closed, GatedOnlyIfApproved, durable, Recorded,
         history
<1> QED BY <1>1, <1>2, <1>3 DEF IInv

LEMMA BeginGateInv == IInv /\ BeginGate => IInv'
<1> SUFFICES ASSUME IInv, BeginGate PROVE IInv'
  OBVIOUS
<1>1. \A n \in runnable : /\ n \in Node /\ n \notin finished
                          /\ incoming(graph, n) \subseteq finished \cup skipped
  BY RunnableFacts DEF IInv
<1>2. TypeOK'
  BY <1>1 DEF IInv, TypeOK, BeginGate, durable, history
<1>3. PcShape' /\ BatchReady' /\ AheadOfCheckpoint'
  BY <1>1 DEF IInv, PcShape, BatchReady, AheadOfCheckpoint, BeginGate, durable,
              Resumable, history
<1>4. PredecessorClosed' /\ GatedOnlyIfApproved'
  BY DEF IInv, PredecessorClosed, Closed, GatedOnlyIfApproved, BeginGate, durable,
         Recorded, history
<1> QED BY <1>2, <1>3, <1>4 DEF IInv

(* The approval gate: only an ungated or an approved node enters the batch. *)
LEMMA GateInv ==
  ASSUME IInv, NEW n \in Node, GateNode(n)
  PROVE  IInv'
<1>0. /\ pc = "gate" /\ pc' = pc /\ n \in togate /\ togate' = togate \ {n}
      /\ UNCHANGED <<graph, version, cp, expiring, finished, vars, results,
                     cancel, stop, history>>
  BY DEF GateNode
<1>1. /\ batch' \in {batch, batch \cup {n}} /\ skipped \subseteq skipped'
      /\ skipped' \subseteq Node /\ pending' \subseteq Node
      /\ batch' # batch => n \notin graph.approval \/ approval[n] = "approved"
      /\ faults' \in 0..MaxFaults
  BY BoundsAssumption DEF IInv, TypeOK, GateNode, ToExecute, SkipRejected,
                          RequestApproval, ApprovalDbError, Fault
<1>2. /\ approval' \in [Node -> ApprovalStatus]
      /\ \A m \in Node : approval[m] = "approved" => approval'[m] = "approved"
  BY DEF IInv, TypeOK, GateNode, ToExecute, SkipRejected, RequestApproval,
         ApprovalDbError, ApprovalStatus
<1>3. TypeOK'
  BY <1>0, <1>1, <1>2 DEF IInv, TypeOK, history
<1>4. PcShape' /\ BatchReady' /\ AheadOfCheckpoint'
  BY <1>0, <1>1 DEF IInv, PcShape, BatchReady, AheadOfCheckpoint, Resumable, history
<1>5. PredecessorClosed'
  BY <1>0, <1>1 DEF IInv, PredecessorClosed, Closed, BatchReady, history
<1>6. GatedOnlyIfApproved'
  <2>1. graph.approval \subseteq Node /\ \A g \in Graphs : g.approval \subseteq Node
    BY GraphFields, GraphsAssumption DEF IInv, Graph
  <2> QED BY <1>0, <1>1, <1>2, <2>1 DEF IInv, GatedOnlyIfApproved, Recorded, history
<1> QED BY <1>3, <1>4, <1>5, <1>6 DEF IInv

(* Executing and joining a batch leaves every recorded fact alone. *)
LEMMA ExecInv ==
  ASSUME IInv, pc \in {"gate", "exec"}, pc' \in {"exec", "apply"},
         togate = {}, results' \in [Node -> Value \cup {NoResult, Err}],
         pc' = "apply" => \A n \in batch : results'[n] # NoResult,
         faults' \in 0..MaxFaults,
         UNCHANGED <<durable, finished, skipped, vars, togate, pending, batch,
                     cancel, stop, history>>
  PROVE  IInv'
<1>1. TypeOK'
  BY DEF IInv, TypeOK, durable, history
<1>2. PcShape' /\ BatchReady' /\ AheadOfCheckpoint'
  BY DEF IInv, PcShape, BatchReady, AheadOfCheckpoint, durable, Resumable, history
<1>3. PredecessorClosed' /\ GatedOnlyIfApproved'
  BY DEF IInv, PredecessorClosed, Closed, GatedOnlyIfApproved, durable, Recorded,
         history
<1> QED BY <1>1, <1>2, <1>3 DEF IInv

(* Applying a result and writing the checkpoint that records it. *)
LEMMA ApplyOkInv ==
  ASSUME IInv, NEW n \in Node, ApplyOk(n)
  PROVE  IInv'
<1>0. /\ pc = "apply" /\ pc' = pc /\ n \in batch /\ batch' = batch \ {n}
      /\ finished' = finished \cup {n} /\ results[n] # Err
      /\ vars' = apply_outputs(graph, vars, n, results[n])
      /\ results' = [results EXCEPT ![n] = NoResult]
      /\ checkpoint("Running", finished', skipped, vars')
      /\ UNCHANGED <<graph, version, approval, expiring, skipped, togate,
                     pending, cancel, stop, blind, origin>>
  BY DEF ApplyOk, NextResult
<1>1. results[n] \in Value
  BY <1>0 DEF IInv, TypeOK, PcShape
<1>2. vars' \in Store /\ finished' \in SUBSET Node /\ skipped \in SUBSET Node
  BY <1>0, <1>1, OutputsType DEF IInv, TypeOK
<1>3. /\ cp' \in RunCheckpoint \cup {NoCp} /\ faults' \in 0..MaxFaults
      /\ cpOrigin' \subseteq Graphs
      /\ \/ cp' = cp /\ cpOrigin' = cpOrigin
         \/ /\ cp'.finished = finished' /\ cp'.skipped = skipped
            /\ cp'.version = version /\ cpOrigin' = origin
  BY <1>0, <1>2, CheckpointType DEF IInv, RunStatus
<1>4. TypeOK'
  BY <1>0, <1>2, <1>3 DEF IInv, TypeOK
<1>5. PcShape'
  BY <1>0, <1>3 DEF IInv, PcShape, TypeOK
<1>6. BatchReady' /\ AheadOfCheckpoint'
  BY <1>0, <1>3 DEF IInv, BatchReady, AheadOfCheckpoint, PcShape, Resumable
<1>7. origin = {graph} => Closed(graph, finished', skipped')
  BY <1>0 DEF IInv, BatchReady, PredecessorClosed, Closed
<1>8. PredecessorClosed'
  <2>1. \A m \in batch' : incoming(graph', m) \subseteq finished' \cup skipped'
    BY <1>0 DEF IInv, PredecessorClosed
  <2>2. ASSUME NEW g \in Graphs, cp' # NoCp, cpOrigin' = {g}
        PROVE  Closed(g, cp'.finished, cp'.skipped)
    <3>1. CASE cp' = cp /\ cpOrigin' = cpOrigin
      BY <2>2, <3>1 DEF IInv, PredecessorClosed
    <3>2. CASE /\ cp'.finished = finished' /\ cp'.skipped = skipped
               /\ cpOrigin' = origin
      BY <1>0, <1>7, <2>2, <3>2 DEF IInv, PcShape
    <3> QED BY <3>1, <3>2, <1>3
  <2> QED BY <1>0, <1>7, <2>1, <2>2 DEF PredecessorClosed
<1>9. GatedOnlyIfApproved'
  <2>1. origin = {graph} =>
          \A m \in finished' \cap graph.approval : approval[m] = "approved"
    BY <1>0 DEF IInv, GatedOnlyIfApproved
  <2>2. ASSUME NEW g \in Graphs, cpOrigin' = {g}, NEW m \in Recorded' \cap g.approval
        PROVE  approval[m] = "approved"
    <3>1. CASE cp' = cp /\ cpOrigin' = cpOrigin
      BY <2>2, <3>1 DEF IInv, GatedOnlyIfApproved, Recorded
    <3>2. CASE cp'.finished = finished' /\ cpOrigin' = origin
      BY <1>0, <2>1, <2>2, <3>2 DEF IInv, PcShape, Recorded
    <3> QED BY <3>1, <3>2, <1>3
  <2>3. \A m \in batch' \cap graph.approval : approval[m] = "approved"
    BY <1>0 DEF IInv, GatedOnlyIfApproved
  <2> QED BY <1>0, <2>1, <2>2, <2>3 DEF GatedOnlyIfApproved
<1> QED BY <1>4, <1>5, <1>6, <1>8, <1>9 DEF IInv

(* Decisions and expiry leave approved rows approved. *)
LEMMA ApprovalStoreInv ==
  ASSUME IInv, approval' \in [Node -> ApprovalStatus], expiring' \subseteq Node,
         \A n \in Node : approval[n] = "approved" => approval'[n] = "approved",
         UNCHANGED <<graph, version, cp, pc, locals, cancel, stop, faults, history>>
  PROVE  IInv'
<1>1. TypeOK'
  BY DEF IInv, TypeOK, locals, history
<1>2. PcShape' /\ BatchReady' /\ AheadOfCheckpoint' /\ PredecessorClosed'
  BY DEF IInv, PcShape, BatchReady, AheadOfCheckpoint, PredecessorClosed, Closed,
         Resumable, locals, history
<1>3. GatedOnlyIfApproved'
  <2>1. graph.approval \subseteq Node /\ \A g \in Graphs : g.approval \subseteq Node
    BY GraphFields, GraphsAssumption DEF IInv, Graph
  <2> QED BY <2>1 DEF IInv, GatedOnlyIfApproved, Recorded, locals, history
<1> QED BY <1>1, <1>2, <1>3 DEF IInv

(* An edit between two passes touches no local and no row: whatever definition
   the next pass runs, nothing is in the batch yet. *)
LEMMA EditInv ==
  ASSUME IInv, NEW g \in Graphs, EditGraph(g) \/ import_json(g)
  PROVE  IInv'
<1>1. /\ pc = "idle" /\ graph' = g /\ version' \in 1..MaxVersion
      /\ UNCHANGED <<cp, approval, expiring, pc, locals, cancel, stop, faults,
                     history>>
  BY DEF EditGraph, import_json, IInv, TypeOK
<1>2. TypeOK'
  BY <1>1 DEF IInv, TypeOK, locals, history
<1>3. PcShape' /\ BatchReady' /\ AheadOfCheckpoint'
  BY <1>1 DEF IInv, PcShape, BatchReady, AheadOfCheckpoint, locals, history
<1>4. PredecessorClosed' /\ GatedOnlyIfApproved'
  BY <1>1 DEF IInv, PcShape, PredecessorClosed, Closed, GatedOnlyIfApproved,
              Recorded, locals, history
<1> QED BY <1>2, <1>3, <1>4 DEF IInv

LEMMA HostInv ==
  ASSUME IInv, RequestCancel \/ Crash
  PROVE  IInv'
<1>1. CASE RequestCancel
  <2>1. cancel' \in BOOLEAN /\ faults' \in 0..MaxFaults
    BY <1>1, BoundsAssumption DEF RequestCancel, Fault, IInv, TypeOK
  <2>2. TypeOK'
    BY <1>1, <2>1 DEF RequestCancel, IInv, TypeOK, durable, locals, history
  <2>3. /\ PcShape' /\ BatchReady' /\ AheadOfCheckpoint'
        /\ PredecessorClosed' /\ GatedOnlyIfApproved'
    BY <1>1 DEF RequestCancel, IInv, PcShape, BatchReady, AheadOfCheckpoint,
                PredecessorClosed, Closed, GatedOnlyIfApproved, Recorded, Resumable,
                durable, locals, history
  <2> QED BY <2>2, <2>3 DEF IInv
<1>2. CASE Crash
  <2>1. faults' \in 0..MaxFaults
    BY <1>2, BoundsAssumption DEF Crash, Fault, IInv, TypeOK
  <2>2. TypeOK'
    BY <1>2, <2>1, EmptyStoreType
       DEF Crash, Return, NoResults, IInv, TypeOK, durable
  <2>3. PcShape' /\ BatchReady' /\ AheadOfCheckpoint'
    BY <1>2 DEF Crash, Return, IInv, PcShape, BatchReady, AheadOfCheckpoint, durable
  <2>4. PredecessorClosed' /\ GatedOnlyIfApproved'
    BY <1>2 DEF Crash, Return, IInv, PredecessorClosed, Closed,
                GatedOnlyIfApproved, Recorded, durable
  <2> QED BY <2>2, <2>3, <2>4 DEF IInv
<1> QED BY <1>1, <1>2

-----------------------------------------------------------------------------
(* Every action preserves the inductive invariant. *)
LEMMA StepInv == IInv /\ [Next]_allvars => IInv'
<1> SUFFICES ASSUME IInv, [Next]_allvars PROVE IInv'
  OBVIOUS
<1>t. TypeOK /\ PcShape
  BY DEF IInv
<1>1. CASE Start \/ StartBlind
  BY <1>1, StartInv
<1>2. CASE PauseAtTop
  BY <1>2, <1>t, ReturnInv DEF PauseAtTop, RunStatus, TypeOK
<1>3. CASE Finish
  BY <1>3, <1>t, ReturnInv, SkipsAreNodes DEF Finish, RunStatus, TypeOK
<1>4. CASE SkipFalseBranches
  BY <1>4, <1>t, SkipInv DEF SkipFalseBranches, PcShape
<1>5. CASE Stall
  BY <1>5, <1>t, ReturnInv DEF Stall, RunStatus, TypeOK
<1>6. CASE BeginGate
  BY <1>6, BeginGateInv
<1>7. CASE \E n \in Node : GateNode(n)
  BY <1>7, GateInv
<1>8. CASE AwaitApproval
  BY <1>8, <1>t, ReturnInv DEF AwaitApproval, RunStatus, TypeOK
<1>9. CASE PauseBeforeBatch
  BY <1>9, <1>t, ReturnInv DEF PauseBeforeBatch, RunStatus, TypeOK
<1>10. CASE StartBatch
  BY <1>10, <1>t, ExecInv DEF StartBatch, TypeOK, locals
<1>11. ASSUME NEW n \in Node, StepErr(n) \/ \E v \in Value : StepOk(n, v)
       PROVE  IInv'
  <2>1. /\ results' \in [Node -> Value \cup {NoResult, Err}]
        /\ faults' \in 0..MaxFaults
    BY <1>11, <1>t, BoundsAssumption DEF StepErr, StepOk, TypeOK, Fault
  <2>2. /\ pc = "exec" /\ pc' = "exec" /\ togate = {}
        /\ UNCHANGED <<durable, finished, skipped, vars, togate, pending, batch,
                       cancel, stop, history>>
    BY <1>11, <1>t DEF StepErr, StepOk, Executes, PcShape
  <2> QED BY <2>1, <2>2, ExecInv
<1>12. CASE JoinBatch
  BY <1>12, <1>t, ExecInv DEF JoinBatch, PcShape, TypeOK, locals
<1>13. ASSUME NEW n \in Node, ApplyOk(n) \/ ApplyErr(n)
       PROVE  IInv'
  <2>1. CASE ApplyOk(n)
    BY <2>1, ApplyOkInv
  <2>2. CASE ApplyErr(n)
    BY <2>2, <1>t, ReturnInv DEF ApplyErr, NextResult, RunStatus, TypeOK
  <2> QED BY <1>13, <2>1, <2>2
<1>14. CASE EndBatch
  BY <1>14, <1>t, SkipInv DEF EndBatch, PcShape
<1>15. CASE RequestCancel \/ Crash
  BY <1>15, HostInv
<1>20. CASE \E g \in Graphs : EditGraph(g) \/ import_json(g)
  BY <1>20, EditInv
<1>16. CASE Decide
  <2>1. PICK n \in Node : decide(n, "approved") \/ decide(n, "rejected")
    BY <1>16 DEF Decide
  <2> QED BY <2>1, <1>t, ApprovalStoreInv DEF decide, TypeOK, ApprovalStatus
<1>17. CASE expire_before
  BY <1>17, <1>t, ApprovalStoreInv DEF expire_before, TypeOK, ApprovalStatus
<1>18. CASE \E n \in Node : request_with_expiry(n)
  <2>1. PICK n \in Node : request_with_expiry(n)
    BY <1>18
  <2> QED BY <2>1, <1>t, ApprovalStoreInv
          DEF request_with_expiry, TypeOK, ApprovalStatus
<1>19. CASE UNCHANGED allvars
  <2>1. TypeOK'
    BY <1>19, <1>t DEF TypeOK, allvars, durable, locals, history
  <2>2. /\ PcShape' /\ BatchReady' /\ AheadOfCheckpoint'
        /\ PredecessorClosed' /\ GatedOnlyIfApproved'
    BY <1>19 DEF IInv, PcShape, BatchReady, AheadOfCheckpoint, PredecessorClosed,
                 Closed, GatedOnlyIfApproved, Recorded, Resumable, allvars, durable,
                 locals, history
  <2> QED BY <2>1, <2>2 DEF IInv
<1> QED
  BY <1>1, <1>2, <1>3, <1>4, <1>5, <1>6, <1>7, <1>8, <1>9, <1>10, <1>11, <1>12,
     <1>13, <1>14, <1>15, <1>16, <1>17, <1>18, <1>19, <1>20
     DEF Next, Pass, SkipOrStall

THEOREM Invariance == Spec => []IInv
BY InitInv, StepInv, PTL DEF Spec

(* Every variable keeps its type. *)
THEOREM TypeCorrect == Spec => []TypeOK
<1>1. IInv => TypeOK
  BY DEF IInv
<1> QED BY <1>1, Invariance, PTL

(* A gated node is executed only on an approved decision, whatever crashes,
   retries, lost writes, failing loads and edits happen; and what one definition
   did alone is recorded as finished only if approved. *)
THEOREM ApprovalSafety == Spec => []GatedOnlyIfApproved
<1>1. IInv => GatedOnlyIfApproved
  BY DEF IInv
<1> QED BY <1>1, Invariance, PTL

(* What is executed has settled predecessors under the definition that runs;
   what one definition did alone is closed, in memory and on disk. *)
THEOREM JoinSafety == Spec => []PredecessorClosed
<1>1. IInv => PredecessorClosed
  BY DEF IInv
<1> QED BY <1>1, Invariance, PTL

-----------------------------------------------------------------------------
(* What a single step may do to the recorded results. *)
LEMMA StepNeverRepeats ==
  ASSUME IInv, Next, NEW n \in Node, results[n] = NoResult, results'[n] # NoResult
  PROVE  n \notin finished /\ (Resumable /\ n \in cp.finished => blind)
<1>1. TypeOK
  BY DEF IInv
<1>2. CASE \E m \in Node : StepErr(m) \/ \E v \in Value : StepOk(m, v)
  <2>1. PICK m \in Node : StepErr(m) \/ \E v \in Value : StepOk(m, v)
    BY <1>2
  <2>2. m = n
    BY <2>1, <1>1 DEF StepErr, StepOk, TypeOK
  <2>3. pc = "exec" /\ n \in batch
    BY <2>1, <2>2 DEF StepErr, StepOk, Executes
  <2>4. n \notin finished
    BY <2>3 DEF IInv, BatchReady
  <2> QED BY <2>3, <2>4 DEF IInv, AheadOfCheckpoint
<1>3. CASE \E m \in Node : ApplyOk(m)
  BY <1>3, <1>1 DEF ApplyOk, TypeOK
<1>4. CASE \/ PauseAtTop \/ Finish \/ Stall \/ AwaitApproval \/ PauseBeforeBatch
           \/ Crash \/ \E m \in Node : ApplyErr(m)
  BY <1>4 DEF PauseAtTop, Finish, Stall, AwaitApproval, PauseBeforeBatch, Crash,
              ApplyErr, Return, NoResults
<1>5. CASE \/ Start \/ StartBlind \/ SkipFalseBranches \/ BeginGate \/ StartBatch \/ JoinBatch
           \/ EndBatch \/ \E m \in Node : GateNode(m)
  BY <1>5 DEF Start, StartBlind, Enter, SkipFalseBranches, BeginGate, StartBatch,
              JoinBatch, EndBatch, GateNode, locals
<1>6. CASE \/ RequestCancel \/ Decide \/ expire_before
           \/ \E m \in Node : request_with_expiry(m)
           \/ \E g \in Graphs : EditGraph(g) \/ import_json(g)
  BY <1>6 DEF RequestCancel, Decide, decide, expire_before, request_with_expiry,
              EditGraph, import_json, locals
<1> QED BY <1>2, <1>3, <1>4, <1>5, <1>6 DEF Next, Pass, SkipOrStall

(* A node that a pass knows to be finished never executes again, and what the
   checkpoint of its version records it knows unless it could not load it. *)
THEOREM RecordedNeverRepeats == Spec => NeverRepeatRecorded
<1>1. ASSUME IInv, [Next]_allvars
      PROVE  [\A n \in Node :
                results[n] = NoResult /\ results'[n] # NoResult
                => n \notin finished /\ (Resumable /\ n \in cp.finished => blind)
               ]_allvars
  BY <1>1, StepNeverRepeats
<1> QED BY <1>1, Invariance, PTL DEF Spec, NeverRepeatRecorded

(* Steps that write the checkpoint only add to the one of the same version. *)
LEMMA WriteGrows ==
  ASSUME IInv, pc # "idle", NEW st, NEW F, NEW S, NEW s, finished \subseteq F,
         skipped \subseteq S, checkpoint(st, F, S, s),
         cp # NoCp, cp' # NoCp, cp'.version = cp.version, ~blind
  PROVE  cp.finished \subseteq cp'.finished /\ cp.skipped \subseteq cp'.skipped
<1>1. CASE cp' = cp
  BY <1>1
<1>2. CASE cp' = [status |-> st, version |-> version,
                  finished |-> F, skipped |-> S, vars |-> s]
  <2>1. cp'.version = version /\ cp'.finished = F /\ cp'.skipped = S
    BY <1>2
  <2> QED BY <2>1 DEF IInv, AheadOfCheckpoint, Resumable
<1> QED BY <1>1, <1>2 DEF checkpoint

LEMMA StepGrows ==
  ASSUME IInv, Next, cp # NoCp, cp' # NoCp, cp'.version = cp.version, ~blind
  PROVE  cp.finished \subseteq cp'.finished /\ cp.skipped \subseteq cp'.skipped
<1>1. CASE \/ PauseAtTop \/ Stall \/ AwaitApproval \/ PauseBeforeBatch
           \/ \E n \in Node : ApplyErr(n)
  BY <1>1, WriteGrows DEF PauseAtTop, Stall, AwaitApproval, PauseBeforeBatch,
                          ApplyErr, NextResult
<1>2. CASE Finish
  BY <1>2, WriteGrows DEF Finish
<1>3. CASE \E n \in Node : ApplyOk(n)
  <2>1. PICK n \in Node : ApplyOk(n)
    BY <1>3
  <2>2. /\ pc # "idle" /\ finished \subseteq finished'
        /\ checkpoint("Running", finished', skipped, vars')
    BY <2>1 DEF ApplyOk, NextResult
  <2> QED BY <2>2, WriteGrows
<1>4. CASE \/ Start \/ StartBlind \/ SkipFalseBranches \/ BeginGate \/ StartBatch \/ JoinBatch
           \/ EndBatch \/ (\E n \in Node : GateNode(n)) \/ Crash \/ RequestCancel
           \/ \E n \in Node : StepErr(n) \/ \E v \in Value : StepOk(n, v)
  BY <1>4 DEF Start, StartBlind, Enter, SkipFalseBranches, BeginGate, StartBatch,
              JoinBatch, EndBatch, GateNode, Crash, RequestCancel, StepErr, StepOk, durable
<1>5. CASE \/ Decide \/ expire_before
           \/ (\E n \in Node : request_with_expiry(n))
           \/ \E g \in Graphs : EditGraph(g) \/ import_json(g)
  BY <1>5 DEF Decide, decide, expire_before, request_with_expiry, EditGraph,
              import_json
<1> QED BY <1>1, <1>2, <1>3, <1>4, <1>5 DEF Next, Pass, SkipOrStall

(* No pass that could load the checkpoint of its version loses recorded
   progress. *)
THEOREM ProgressIsDurable == Spec => CheckpointGrows
<1>1. ASSUME IInv, [Next]_allvars
      PROVE  [cp # NoCp /\ cp' # NoCp /\ cp'.version = cp.version /\ ~blind
              => /\ cp.finished \subseteq cp'.finished
                 /\ cp.skipped \subseteq cp'.skipped]_allvars
  BY <1>1, StepGrows
<1> QED BY <1>1, Invariance, PTL DEF Spec, CheckpointGrows

(* A decision, once made, is never changed. *)
THEOREM DecisionFinality == Spec => DecisionsFinal
<1>1. ASSUME TypeOK, Next, NEW n \in Node, approval[n] \in {"approved", "rejected"}
      PROVE  approval'[n] = approval[n]
  <2>1. CASE \E m \in Node : GateNode(m)
    BY <1>1, <2>1 DEF GateNode, ToExecute, SkipRejected, RequestApproval,
                      ApprovalDbError, TypeOK
  <2>2. CASE \/ Decide \/ expire_before
             \/ \E m \in Node : request_with_expiry(m)
    BY <1>1, <2>2 DEF Decide, decide, expire_before, request_with_expiry, TypeOK
  <2>3. CASE \/ PauseAtTop \/ Finish \/ Stall \/ AwaitApproval
             \/ PauseBeforeBatch \/ (\E m \in Node : ApplyErr(m) \/ ApplyOk(m))
             \/ \E g \in Graphs : EditGraph(g) \/ import_json(g)
    BY <2>3 DEF PauseAtTop, Finish, Stall, AwaitApproval, PauseBeforeBatch,
                ApplyErr, ApplyOk, EditGraph, import_json
  <2>4. CASE \/ Start \/ StartBlind \/ SkipFalseBranches \/ BeginGate \/ StartBatch \/ JoinBatch
             \/ EndBatch \/ Crash \/ RequestCancel
             \/ \E m \in Node : StepErr(m) \/ \E v \in Value : StepOk(m, v)
    BY <2>4 DEF Start, StartBlind, Enter, SkipFalseBranches, BeginGate, StartBatch,
                JoinBatch, EndBatch, Crash, RequestCancel, StepErr, StepOk, durable
  <2> QED BY <1>1, <2>1, <2>2, <2>3, <2>4 DEF Next, Pass, SkipOrStall
<1>2. ASSUME TypeOK, [Next]_allvars
      PROVE  [\A n \in Node : approval[n] \in {"approved", "rejected"}
                              => approval'[n] = approval[n]]_allvars
  BY <1>1, <1>2
<1> QED BY <1>2, TypeCorrect, PTL DEF Spec, DecisionsFinal

-----------------------------------------------------------------------------
(* In a validated graph an unsettled node is runnable or can be skipped: take
   an unsettled node without unsettled predecessors (there is one, the graph is
   acyclic); if it has no predecessor at all it is the entry, since every node
   is reachable from the entry. *)
LEMMA AlwaysProgress ==
  ASSUME TypeOK, remaining # {}
  PROVE  runnable # {} \/ NewSkips # {}
<1>1. Valid(graph) /\ graph \in Graph
  BY GraphsAssumption DEF TypeOK
<1>2. remaining \in SUBSET graph.nodes
  BY DEF remaining
<1>3. PICK n \in remaining : \A e \in graph.edges : e[2] = n => e[1] \notin remaining
  BY <1>1, <1>2 DEF Valid, Acyclic
<1>4. n \in graph.nodes \ (finished \cup skipped)
  BY <1>3 DEF remaining
<1>5. \A e \in graph.edges : e[1] \in graph.nodes
  BY <1>1 DEF Valid
<1>6. incoming(graph, n) \subseteq finished \cup skipped
  BY <1>3, <1>5 DEF incoming, remaining
<1>7. ASSUME incoming(graph, n) = {} PROVE n = graph.entry
  <2> SUFFICES ASSUME n # graph.entry PROVE FALSE
    OBVIOUS
  <2>1. \A e \in graph.edges : e[2] # n
    BY <1>7 DEF incoming
  <2>2. \A e \in graph.edges : e[2] \in graph.nodes
    BY <1>1 DEF Valid
  <2> DEFINE S == graph.nodes \ {n}
  <2>3. S \in SUBSET graph.nodes /\ graph.entry \in S
    BY <1>1 DEF Valid
  <2>4. ClosedUnder(graph, S)
    BY <2>1, <2>2 DEF ClosedUnder
  <2>5. S = graph.nodes
    BY <2>3, <2>4, <1>1 DEF Valid, Reachable
  <2> QED BY <2>5, <1>4
<1>8. n \in ready_nodes(graph, finished, skipped)
  BY <1>4, <1>6, <1>7 DEF ready_nodes
<1>9. CASE condition_holds(graph.condition[n], vars)
  BY <1>8, <1>9 DEF runnable
<1>10. CASE ~condition_holds(graph.condition[n], vars)
  BY <1>4, <1>10 DEF NewSkips, condition_skips, condition_holds
<1> QED BY <1>9, <1>10

(* A validated graph never stalls the scheduler. *)
THEOREM StallFree == Spec => []NoStall
<1>1. Init => NoStall
  BY DEF Init, NoStall
<1>2. ASSUME TypeOK, NoStall, [Next]_allvars PROVE NoStall'
  <2>1. ~Stall
    BY <1>2, AlwaysProgress DEF Stall
  <2>2. CASE \/ PauseAtTop \/ Finish \/ AwaitApproval \/ PauseBeforeBatch
             \/ (\E n \in Node : ApplyErr(n)) \/ Crash
             \/ Start \/ StartBlind
    BY <2>2 DEF PauseAtTop, Finish, AwaitApproval, PauseBeforeBatch, ApplyErr,
                Crash, Start, StartBlind, Enter, Return, NoStall
  <2>3. CASE \/ SkipFalseBranches \/ BeginGate \/ (\E n \in Node : GateNode(n))
             \/ StartBatch \/ JoinBatch \/ EndBatch \/ RequestCancel
             \/ (\E n \in Node : ApplyOk(n))
             \/ \E n \in Node : StepErr(n) \/ \E v \in Value : StepOk(n, v)
    BY <1>2, <2>3 DEF SkipFalseBranches, BeginGate, GateNode, StartBatch,
       JoinBatch, EndBatch, RequestCancel, ApplyOk, StepErr, StepOk, NoStall
  <2>4. CASE \/ Decide \/ expire_before \/ (\E n \in Node : request_with_expiry(n))
             \/ (\E g \in Graphs : EditGraph(g) \/ import_json(g))
             \/ UNCHANGED allvars
    BY <1>2, <2>4 DEF Decide, decide, expire_before, request_with_expiry,
       EditGraph, import_json, NoStall, allvars
  <2> QED BY <1>2, <2>1, <2>2, <2>3, <2>4 DEF Next, Pass, SkipOrStall
<1> QED BY <1>1, <1>2, TypeCorrect, PTL DEF Spec
=============================================================================
