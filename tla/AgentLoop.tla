------------------------------ MODULE AgentLoop ------------------------------
(***************************************************************************)
(* launcher-ai: the agent session, its approval gate and run_agent, which   *)
(* plans once, asks for an approval where the plan needs one, executes the  *)
(* steps in order and repeats the unsettled ones once after a failure.      *)
(*                                                                         *)
(* run[r] holds the locals of one call of run_agent.  Where the call waits  *)
(* for somebody (pc "llm", "ask", "exec") the other party answers in an      *)
(* action of its own.  The host owns approval (pc "ask") and the flag        *)
(* `cancelled`.                                                             *)
(***************************************************************************)
EXTENDS AgentPlanning

CONSTANTS Runs,            \* calls of run_agent
          Goals,           \* what users ask for
          LlmOutputs,      \* what the model may answer
          MaxTurns,        \* the session's turn budget
          StepIds,         \* identities of steps
          ReportsUnknown   \* whether the host's TurnExecutor overrides effect_state

(* A deserialized step; what its reference and its payload look like is free. *)
PlanStep ==
    [id : StepIds, ref : [vocab : STRING, slash : BOOLEAN, routed : BOOLEAN],
     flagged : BOOLEAN, big : BOOLEAN]

ASSUME AgentAssumption ==
    /\ MaxTurns \in Nat /\ ReportsUnknown \in BOOLEAN /\ Goals # {}
    /\ \A o \in LlmOutputs \ {NoAnswer, NotJson} : o.plan \in Seq(PlanStep)

VARIABLES run,        \* locals and session of each call
          cancelled   \* runs whose cancel flag is set

Statuses == {"Created", "Observing", "Planning", "Executing",
             "WaitingForConfirmation", "Replanning", "Completed", "Failed",
             "Cancelled", "BudgetExhausted"}

is_terminal(s) == s \in {"Completed", "Failed", "Cancelled", "BudgetExhausted"}

legal(from, to) ==
    IF to \in {"Cancelled", "BudgetExhausted"} THEN ~is_terminal(from)
    ELSE <<from, to>> \in {<<"Created", "Observing">>, <<"Observing", "Planning">>,
            <<"Planning", "Executing">>, <<"Planning", "Failed">>,
            <<"Executing", "Completed">>, <<"Executing", "Failed">>,
            <<"Executing", "Replanning">>, <<"Executing", "WaitingForConfirmation">>,
            <<"Replanning", "Planning">>, <<"Replanning", "Executing">>,
            <<"WaitingForConfirmation", "Executing">>,
            <<"WaitingForConfirmation", "Replanning">>}

max_turns == IF MaxTurns = 0 THEN 1 ELSE MaxTurns

CanTransition(s, to, consumes_turn) ==
    /\ ~is_terminal(s.state)
    /\ legal(s.state, to)
    /\ consumes_turn => s.turns < max_turns

\* The loop ignores the Result: a refused transition leaves the session alone.
transition(s, to, consumes_turn) ==
    IF CanTransition(s, to, consumes_turn)
    THEN [s EXCEPT !.state = to, !.turns = @ + (IF consumes_turn THEN 1 ELSE 0)]
    ELSE s

StepStatuses == {"none", "Succeeded", "Failed", "Unknown"}

Idle(goal) ==
    [pc |-> "idle", goal |-> goal, state |-> "Created", turns |-> 0, plan |-> <<>>,
     i |-> 1, status |-> [s \in StepIds |-> "none"], attempt |-> 0, stop |-> "none",
     granted |-> FALSE, calls |-> [s \in StepIds |-> 0]]

RunTypes ==
    [pc : {"idle", "spawned", "plan", "llm", "ask", "step", "exec", "stopped", "ended"},
     goal : Goals, state : Statuses, turns : 0 .. max_turns,
     plan : {<<>>} \cup {Flag(o.plan) : o \in LlmOutputs \ {NoAnswer, NotJson}},
     i : Nat, status : [StepIds -> StepStatuses], attempt : 0 .. 1,
     stop : {"none", "Completed", "Failed", "Cancelled"}, granted : BOOLEAN,
     calls : [StepIds -> 0 .. 2]]

\* Every way out of run_agent: the session's last transition, and the result.
Stop(s, result) == [transition(s, result, FALSE) EXCEPT !.pc = "stopped", !.stop = result]

----------------------------------------------------------------------------
(* The approval gate: one request, one decision, before it expires.        *)

needs_gate(plan) == \E i \in DOMAIN plan : plan[i].flagged

NoPlan == <<>>

\* decide: the plan to execute, or NoPlan for a refusal or an error.
decide(requested, decision, expired) ==
    IF expired THEN NoPlan
    ELSE CASE decision.kind = "approve" -> requested
           [] decision.kind = "edit"    ->
                 IF validate_document(decision.plan) THEN decision.plan ELSE NoPlan
           [] decision.kind \in {"reject", "none"} -> NoPlan

Execute(s, plan) == [transition(s, "Executing", TRUE) EXCEPT !.pc = "step", !.plan = plan]

\* What the loop does with the sink's answer; None or a foreign id is a refusal.
Answered(s, decision, expired) ==
    LET steps == decide(s.plan, decision, expired)
    IN  IF steps = NoPlan THEN Stop(s, "Cancelled")
        ELSE [Execute(s, steps) EXCEPT !.granted = TRUE]

----------------------------------------------------------------------------
(* run_agent, step by step.                                                *)

Observe(s) ==
    IF CanTransition(s, "Observing", TRUE)
    THEN [transition(transition(s, "Observing", TRUE), "Planning", FALSE)
            EXCEPT !.pc = "plan"]
    ELSE [transition(s, "BudgetExhausted", FALSE) EXCEPT !.pc = "stopped", !.stop = "Failed"]

CheckCancel(r) ==
    /\ run[r].pc = "plan"
    /\ run' = [run EXCEPT ![r] = IF r \in cancelled THEN Stop(@, "Cancelled")
                                  ELSE [@ EXCEPT !.pc = "llm"]]
    /\ UNCHANGED cancelled

Planned(s, outcome) ==
    IF outcome.kind # "proposal" THEN Stop(s, "Failed")
    ELSE IF needs_gate(outcome.plan) THEN [s EXCEPT !.pc = "ask", !.plan = outcome.plan]
    ELSE Execute(s, outcome.plan)

PlanReturns(r) ==
    /\ run[r].pc = "llm"
    /\ \E raw \in LlmOutputs :
            run' = [run EXCEPT ![r] = Planned(@, run_pipeline(@.goal, raw))]
    /\ UNCHANGED cancelled

Repeat_all(s, id) == FALSE

Settled(s, id) == s.status[id] \in {"Succeeded", "Unknown"}

NextStep(s, flag) ==
    IF s.i > Len(s.plan) THEN Stop(s, "Completed")
    ELSE IF flag THEN Stop(s, "Cancelled")
    ELSE IF Settled(s, s.plan[s.i].id) THEN [s EXCEPT !.i = @ + 1]
    ELSE [s EXCEPT !.pc = "exec", !.calls[s.plan[s.i].id] = @ + 1]

StepTurn(r) ==
    /\ run[r].pc = "step"
    /\ run' = [run EXCEPT ![r] = NextStep(@, r \in cancelled)]
    /\ UNCHANGED cancelled

Replan(s) ==
    [transition(transition(transition(s, "Replanning", FALSE), "Planning", TRUE),
                "Executing", FALSE)
        EXCEPT !.attempt = 1, !.i = 1, !.pc = "step"]

\* `unknown` is what effect_state answers about a failed call.
StepFails(s, unknown) ==
    LET t == [s EXCEPT !.status[s.plan[s.i].id] = IF unknown THEN "Unknown" ELSE "Failed"]
    IN  IF unknown \/ s.attempt > 0 THEN Stop(t, "Failed") ELSE Replan(t)

StepSucceeds(s) ==
    [s EXCEPT !.status[s.plan[s.i].id] = "Succeeded", !.i = @ + 1, !.pc = "step"]

ExecReturns(r) ==
    /\ run[r].pc = "exec"
    /\ \/ /\ run[r].plan[run[r].i].ref.routed
          /\ run' = [run EXCEPT ![r] = StepSucceeds(@)]
       \/ \E unknown \in {FALSE, ReportsUnknown} :
             run' = [run EXCEPT ![r] = StepFails(@, unknown)]
    /\ UNCHANGED cancelled

LoopStep(r) == CheckCancel(r) \/ PlanReturns(r) \/ StepTurn(r) \/ ExecReturns(r)
=============================================================================
