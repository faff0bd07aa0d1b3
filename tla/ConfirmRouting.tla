---------------------------- MODULE ConfirmRouting ----------------------------
(***************************************************************************)
(* launcher-app: agent_service and workflow_service, which run agents and   *)
(* workflows on threads of their own and share one runtime surface, one     *)
(* Confirm and one Esc key.  What ties a key to a run are three global       *)
(* slots: ACTIVE_CANCEL (the newest agent run), APPROVAL_TX (the agent run   *)
(* that asks) and CONFIRM_TX (the newest workflow run).  Threads reach the   *)
(* screen only through closures queued for the event loop.                   *)
(*                                                                         *)
(* A channel's receiver is disconnected once its sender has left the slot.   *)
(***************************************************************************)
EXTENDS AgentLoop

CONSTANTS Workflows,     \* workflow runs
          Casts,         \* which runs and workflows may be started together
          None,
          MaxKeys,       \* bound on the keys the user presses
          MaxPauses,     \* bound on the pauses of one workflow run
          RunMemoryCap   \* MAX_RUNS_PER_SESSION

ASSUME RoutingAssumption ==
    /\ None \notin Runs \cup Workflows
    /\ MaxKeys \in Nat /\ MaxPauses \in Nat /\ RunMemoryCap \in Nat \ {0}

VARIABLES approvalSlot,  \* APPROVAL_TX: whose sender it holds
          cancelSlot,    \* ACTIVE_CANCEL
          confirmSlot,   \* CONFIRM_TX
          sink,          \* progress of each run's UiApprovalSink
          token,         \* runs with a confirmation waiting in their channel
          expired,       \* runs whose approval request is past its lifetime
          rows,          \* sessions in agents.db
          memory,        \* run memory: results of finished runs, oldest first
          wf,            \* [pc, tokens, pauses] of each workflow run
          screen, shown, \* what the runtime surface holds; is it visible
          uiq,           \* closures queued for the event loop
          keys,          \* keys pressed so far
          cast,          \* the runs and workflows the user will start
          unseen         \* runs confirmed while their plan was not on the screen

slots == <<approvalSlot, cancelSlot, confirmSlot>>
agent == <<run, cancelled, sink, token, expired, rows, memory, unseen>>
ui    == <<screen, shown, uiq, keys, cast>>
vars  == <<slots, agent, ui, wf>>

Blank == <<"blank", None>>

Closures == {"planning", "plan", "hide"} \X Runs

TypeOK ==
    /\ run \in [Runs -> RunTypes] /\ cancelled \subseteq Runs
    /\ approvalSlot \in Runs \cup {None} /\ cancelSlot \in Runs \cup {None}
    /\ confirmSlot \in Workflows \cup {None}
    /\ sink \in [Runs -> {"none", "queued", "waiting"}]
    /\ token \subseteq Runs /\ expired \subseteq Runs /\ rows \subseteq Runs
    /\ unseen \subseteq Runs
    /\ Len(memory) <= RunMemoryCap
    /\ wf \in [Workflows -> [pc : {"idle", "spawned", "running", "paused", "ended"},
                             tokens : 0 .. MaxKeys, pauses : 0 .. MaxPauses]]
    /\ screen \in {Blank} \cup Closures /\ shown \in BOOLEAN
    /\ cast \in Casts /\ uiq \in Seq(Closures) /\ keys \in 0 .. MaxKeys

Init ==
    /\ run = [r \in Runs |-> Idle(CHOOSE g \in Goals : TRUE)]
    /\ cancelled = {} /\ approvalSlot = None /\ cancelSlot = None /\ confirmSlot = None
    /\ sink = [r \in Runs |-> "none"]
    /\ token = {} /\ expired = {} /\ rows = {} /\ memory = <<>> /\ unseen = {}
    /\ wf = [w \in Workflows |-> [pc |-> "idle", tokens |-> 0, pauses |-> 0]]
    /\ screen = Blank /\ shown = FALSE /\ uiq = <<>> /\ keys = 0 /\ cast \in Casts

----------------------------------------------------------------------------
(* The agent service.                                                      *)

\* From the search box, which the surface hides while it is visible.
start_agent_run(r) ==
    /\ r \in cast /\ run[r].pc = "idle" /\ ~shown
    /\ \E g \in Goals : run' = [run EXCEPT ![r] = [Idle(g) EXCEPT !.pc = "spawned"]]
    /\ rows' = rows \cup {r}      \* without a store the run goes on and has no row
    /\ cancelSlot' = r
    /\ uiq' = Append(uiq, <<"planning", r>>)
    /\ UNCHANGED <<cancelled, approvalSlot, confirmSlot, sink, token, expired, memory,
                   unseen, screen, shown, keys, cast, wf>>

BeginRun(r) ==
    /\ run[r].pc = "spawned"
    /\ run' = [run EXCEPT ![r] = Observe(@)]
    /\ UNCHANGED <<slots, cancelled, sink, token, expired, rows, memory, unseen, ui, wf>>

RunLoop(r) ==
    /\ LoopStep(r)
    /\ UNCHANGED <<slots, sink, token, expired, rows, memory, unseen, ui, wf>>

\* request_approval: first the closure that shows the plan, then the slot.
ShowPlan(r) ==
    /\ run[r].pc = "ask" /\ sink[r] = "none"
    /\ sink' = [sink EXCEPT ![r] = "queued"]
    /\ uiq' = Append(uiq, <<"plan", r>>)
    /\ UNCHANGED <<slots, run, cancelled, token, expired, rows, memory, unseen,
                   screen, shown, keys, cast, wf>>

RegisterSender(r) ==
    /\ sink[r] = "queued"
    /\ sink' = [sink EXCEPT ![r] = "waiting"]
    /\ approvalSlot' = r
    /\ UNCHANGED <<cancelSlot, confirmSlot, run, cancelled, token, expired, rows, memory,
                   unseen, ui, wf>>

Expire(r) ==
    /\ sink[r] # "none" /\ r \notin expired
    /\ expired' = expired \cup {r}
    /\ UNCHANGED <<slots, run, cancelled, sink, token, rows, memory, unseen, ui, wf>>

Decision(r) ==
    IF r \in token /\ r \notin cancelled /\ r \notin expired
    THEN [kind |-> "approve"] ELSE [kind |-> "none"]

Request_never_expires(r) ==
    /\ sink[r] = "waiting"
    /\ r \in cancelled \cup token \/ approvalSlot # r
    /\ run' = [run EXCEPT ![r] = Answered(@, Decision(r), r \in expired)]
    /\ sink' = [sink EXCEPT ![r] = "none"]
    /\ token' = token \ {r}
    /\ approvalSlot' = None
    /\ UNCHANGED <<cancelSlot, confirmSlot, cancelled, expired, rows, memory, unseen, ui, wf>>

\* One pass of the waiting loop that ends it, and the slot cleared behind it.
request_approval(r) ==
    /\ sink[r] = "waiting"
    /\ \/ r \in cancelled \cup expired \cup token
       \/ approvalSlot # r                                \* disconnected
    /\ run' = [run EXCEPT ![r] = Answered(@, Decision(r), r \in expired)]
    /\ sink' = [sink EXCEPT ![r] = "none"]
    /\ token' = token \ {r}
    /\ approvalSlot' = None
    /\ UNCHANGED <<cancelSlot, confirmSlot, cancelled, expired, rows, memory, unseen, ui, wf>>

Record(mem, entry) ==
    Append(IF Len(mem) >= RunMemoryCap THEN Tail(mem) ELSE mem, entry)

FinishRun_keeps_slot(r) ==
    /\ run[r].pc = "stopped"
    /\ run' = [run EXCEPT ![r].pc = "ended"]
    /\ rows' = rows \ {r}
    /\ memory' = Record(memory, run[r].stop)
    /\ uiq' = Append(uiq, <<"hide", r>>)
    /\ UNCHANGED <<slots, cancelled, sink, token, expired, unseen, screen, shown, keys, cast, wf>>

\* The end of the thread: session row, run memory, surface, cancel slot.
FinishRun(r) ==
    /\ run[r].pc = "stopped"
    /\ run' = [run EXCEPT ![r].pc = "ended"]
    /\ rows' = rows \ {r}
    /\ memory' = Record(memory, run[r].stop)
    /\ uiq' = Append(uiq, <<"hide", r>>)
    /\ cancelSlot' = IF cancelSlot = r THEN None ELSE cancelSlot
    /\ UNCHANGED <<approvalSlot, confirmSlot, cancelled, sink, token, expired, unseen,
                   screen, shown, keys, cast, wf>>

----------------------------------------------------------------------------
(* The workflow service: the run itself is in WorkflowRunner; here it is    *)
(* running, paused for a confirmation, or over.                             *)

\* From the tray or an installed command, which show the surface with what it
\* last held (a thread's Weak::upgrade fails, so no progress ever reaches it),
\* or from a trigger, which does not; whatever is on the screen.
start_workflow(w) ==
    /\ w \in cast /\ wf[w].pc = "idle"
    /\ wf' = [wf EXCEPT ![w].pc = "spawned"]
    /\ shown' \in {TRUE, shown}
    /\ UNCHANGED <<slots, agent, screen, uiq, keys, cast>>

BeginWorkflow(w) ==
    /\ wf[w].pc = "spawned"
    /\ wf' = [wf EXCEPT ![w].pc = "running"]
    /\ confirmSlot' = w
    /\ UNCHANGED <<approvalSlot, cancelSlot, agent, ui>>

PauseOrEnd(w) ==
    /\ wf[w].pc = "running"
    /\ \/ wf[w].pauses < MaxPauses
          /\ wf' = [wf EXCEPT ![w].pc = "paused", ![w].pauses = @ + 1]
       \/ wf' = [wf EXCEPT ![w].pc = "ended"]
    /\ UNCHANGED <<slots, agent, ui>>

\* recv_timeout: a confirmation that is or was sent resumes the run; the
\* timeout or a lost sender leaves it paused for ever.
WaitConfirm(w) ==
    /\ wf[w].pc = "paused"
    /\ wf' = IF wf[w].tokens > 0
             THEN [wf EXCEPT ![w].pc = "running", ![w].tokens = @ - 1]
             ELSE [wf EXCEPT ![w].pc = "ended"]
    /\ UNCHANGED <<slots, agent, ui>>

----------------------------------------------------------------------------
(* The event loop of the UI.                                               *)

RunClosure ==
    /\ uiq # <<>>
    /\ IF Head(uiq)[1] = "hide" THEN shown' = FALSE /\ UNCHANGED screen
                                ELSE shown' = TRUE /\ screen' = Head(uiq)
    /\ uiq' = Tail(uiq)
    /\ UNCHANGED <<slots, agent, keys, cast, wf>>

\* Enter on the surface: confirm_active_run and confirm_active_approval.
workflow_confirm ==
    /\ shown /\ keys < MaxKeys
    /\ keys' = keys + 1
    /\ wf' = IF confirmSlot # None /\ wf[confirmSlot].pc # "ended"
             THEN [wf EXCEPT ![confirmSlot].tokens = @ + 1] ELSE wf
    /\ token'  = token \cup ({approvalSlot} \ {None})
    /\ unseen' = IF approvalSlot = None \/ screen = <<"plan", approvalSlot>>
                 THEN unseen ELSE unseen \cup {approvalSlot}
    /\ UNCHANGED <<slots, run, cancelled, sink, expired, rows, memory, screen,
                   shown, uiq, cast>>

\* Esc on the surface: hides it and cancels the newest agent run.
workflow_dismiss ==
    /\ shown /\ keys < MaxKeys
    /\ keys' = keys + 1
    /\ shown' = FALSE
    /\ cancelled' = cancelled \cup ({cancelSlot} \ {None})
    /\ UNCHANGED <<slots, run, sink, token, expired, rows, memory, unseen, screen, uiq, cast, wf>>

Agent(r) ==
    \/ BeginRun(r) \/ RunLoop(r) \/ ShowPlan(r) \/ RegisterSender(r)
    \/ request_approval(r) \/ FinishRun(r)

Workflow(w) == BeginWorkflow(w) \/ PauseOrEnd(w) \/ WaitConfirm(w)

Next ==
    \/ \E r \in Runs : start_agent_run(r) \/ Expire(r) \/ Agent(r)
    \/ \E w \in Workflows : start_workflow(w) \/ Workflow(w)
    \/ RunClosure \/ workflow_confirm \/ workflow_dismiss

Spec == Init /\ [][Next]_vars

\* Threads run, the model's call returns or times out, five minutes pass.
FairSpec ==
    /\ Spec
    /\ \A r \in Runs : WF_vars(Agent(r)) /\ WF_vars(Expire(r))

----------------------------------------------------------------------------
(* Properties.                                                             *)

\* A step the classifier holds destructive or sensitive, or that the model
\* flagged, is executed only in a run whose own request was granted: by the
\* pipeline, the gate, the sink and the slot together (agent_loop.rs
\* "BEFORE any execution"; approval.rs "authorizes exactly THAT plan").
RiskyOnlyApproved ==
    \A r \in Runs : \A i \in DOMAIN run[r].plan :
        LET step == run[r].plan[i] IN
        (step.flagged \/ classify(step) > 2) /\ run[r].calls[step.id] > 0 => run[r].granted

\* A step that succeeded, or whose effect is unsettled, is never executed
\* again, whatever fails after it and whatever is repeated (P210-007).
SucceededImmutable ==
    [][\A r \in Runs : \A s \in StepIds :
          run[r].status[s] \in {"Succeeded", "Unknown"}
            => run'[r].calls[s] = run[r].calls[s]]_vars

\* Nothing outlives its run: an ended run has no session row and no slot, and
\* only a run that is asking can be in the approval slot, so that a later key
\* press never reaches a finished run.
NothingLeftBehind ==
    /\ \A r \in Runs : run[r].pc = "ended" => r \notin rows /\ cancelSlot # r
    /\ approvalSlot # None => sink[approvalSlot] = "waiting"

\* Every agent run that was started comes to an end, whoever overwrites its
\* slot and whether or not the user ever answers.
RunsEnd == \A r \in Runs : run[r].pc = "spawned" ~> run[r].pc = "ended"

\* agent_service.rs: "only the shown plan is authorized, once".
OnlyShownPlan == \A r \in Runs : run[r].granted => r \notin unseen

-----------------------------------------------------------------------------
\* What the source says of itself and does not keep: no run checks it, and the README lists it.

\* The session ends in the state that the result of run_agent names: no
\* transition the loop relies on is refused and silently dropped
\* (agent_session.rs, G01: "must reach the Failed terminal").
SessionMatchesStop ==
    \A r \in Runs : run[r].stop # "none" => run[r].state = run[r].stop
=============================================================================
