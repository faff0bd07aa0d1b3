----------------------------- MODULE BoundedAgent -----------------------------
(***************************************************************************)
(* run_bounded_agent (launcher-ai/src/agent.rs): turns of observe, plan and   *)
(* execute under five budgets, with the planners that propose (LlmPlanner,    *)
(* KeywordPlanner) and the host that resolves and runs what they propose       *)
(* (launcher-core/src/agent_host.rs). The model's answer, the catalog of each  *)
(* turn and the outcome of each execution are arbitrary.                      *)
(*                                                                         *)
(* A command is [provider, id, hit, actions]: whether its title or a keyword   *)
(* matches the goal, and a sequence of [id, disabled, confirm]. An answer is   *)
(* Down, Refused (by the strict parser), or a sequence of proposals            *)
(* [provider, command, action, input]; the input names an MCP server and tool   *)
(* that agree with the route, others, or none.                                *)
(***************************************************************************)
EXTENDS Naturals, Sequences, FiniteSets, FiniteSetsExt

CONSTANTS Catalogs, Answers, Down, Refused,
          max_proposals, fallback_keyword,   \* of LlmPlanner
          max_turns, max_proposals_per_turn, max_total_executions, max_failures, max_replans

VARIABLES status,       \* AgentRunStatus
          budget,       \* [turns, executions, failures, replans]
          expired,      \* max_wall_time has passed
          observation,  \* (command, action) pairs that failed so far
          catalog,      \* of this turn
          plan,         \* proposals of this turn still to execute
          turn,         \* this turn: [count, executed, failed]
          log           \* executions: [turn, route, ok]

vars == <<status, budget, expired, observation, catalog, plan, turn, log>>

\* The only host asks for no confirmation, so no run waits for one.
Terminal == {"Completed", "Failed", "BudgetExhausted"}
NoTurn == [count |-> 0, executed |-> 0, failed |-> 0]

-----------------------------------------------------------------------------
(* Planning.                                                               *)

\* The numbers of keep, all above 0, in their order; the elements of s at those positions.
Increasing(keep) == CHOOSE p \in UNION {[1 .. m -> keep] : m \in 0 .. Max(keep \cup {0})} :
                       /\ {p[i] : i \in DOMAIN p} = keep
                       /\ \A i, j \in DOMAIN p : i < j => p[i] < p[j]
Kept(s, keep) == [i \in DOMAIN Increasing(keep) |-> s[Increasing(keep)[i]]]

\* A planner sees every action of every command, those disabled too.
items_from_command(c) == {[provider |-> c.provider, command |-> c.id, action |-> c.actions[i].id] :
                             i \in DOMAIN c.actions}
Route(p) == [provider |-> p.provider, command |-> p.command, action |-> p.action]
route_exists(cat, p) == \E c \in Range(cat) : Route(p) \in items_from_command(c)

\* The first action that is not disabled; a command that has none is passed over.
Ready(c) == {i \in DOMAIN c.actions : ~c.actions[i].disabled}
primary_action(c) == c.actions[CHOOSE i \in Ready(c) : \A j \in Ready(c) : i <= j]
Proposed(c) == [provider |-> c.provider, command |-> c.id,
                action |-> primary_action(c).id, input |-> "none"]
KeywordPlan(cat) ==
    LET hits == Kept(cat, {i \in DOMAIN cat : cat[i].hit /\ Ready(cat[i]) # {}})
    IN [i \in DOMAIN hits |-> Proposed(hits[i])]

Take(s, n) == SubSeq(s, 1, IF Len(s) < n THEN Len(s) ELSE n)
fallback_or_empty(cat) == IF fallback_keyword THEN KeywordPlan(cat) ELSE <<>>

\* The answer is cut first; routes that are not in the catalog and inputs that name
\* another server or tool are discarded.
plan_with_diagnostics(answer, cat) ==
    IF answer \in {Down, Refused} THEN fallback_or_empty(cat)
    ELSE LET cut == Take(answer, max_proposals)
         IN Kept(cut, {i \in DOMAIN cut : route_exists(cat, cut[i]) /\ cut[i].input # "other"})

Pair(p) == <<p.command, p.action>>
\* Without what was observed to have failed, whoever provides it.
replan(answer, cat) ==
    LET all == plan_with_diagnostics(answer, cat)
    IN Kept(all, {i \in DOMAIN all : Pair(all[i]) \notin observation})

-----------------------------------------------------------------------------
(* The budgets.                                                            *)

can_start_turn == budget.turns < max_turns /\ ~expired
can_execute == budget.executions < max_total_executions /\ budget.failures < max_failures
can_replan == budget.replans < max_replans

Init ==
    /\ status = "Created" /\ expired = FALSE /\ observation = {} /\ catalog = <<>> /\ plan = <<>>
    /\ budget = [turns |-> 0, executions |-> 0, failures |-> 0, replans |-> 0]
    /\ turn = NoTurn /\ log = <<>>

BetweenTurns == status \in {"Created", "Replanning"}

StartTurn ==
    /\ BetweenTurns /\ can_start_turn
    /\ budget' = [budget EXCEPT !.turns = @ + 1]
    /\ \E cat \in Catalogs, answer \in Answers :
          /\ catalog' = cat
          /\ plan' = Take(IF status = "Replanning" THEN replan(answer, cat)
                          ELSE plan_with_diagnostics(answer, cat), max_proposals_per_turn)
    /\ turn' = [NoTurn EXCEPT !.count = Len(plan')]
    \* Nothing to propose is taken for the goal reached.
    /\ status' = IF plan' = <<>> THEN "Completed" ELSE "Executing"
    /\ UNCHANGED <<expired, observation, log>>

\* Turns or time are over: the run has Failed, not exhausted its budget.
NoMoreTurns ==
    /\ BetweenTurns /\ ~can_start_turn /\ status' = "Failed"
    /\ UNCHANGED <<budget, expired, observation, catalog, plan, turn, log>>

-----------------------------------------------------------------------------
(* Executing, one proposal at a time.                                      *)

\* What the host makes of a proposal: a run of one step. An action that is unknown or disabled
\* is not resolved; one that asks for confirmation pauses the run, which nobody resumes.
Resolves(p) == \E c \in Range(catalog) : /\ c.provider = p.provider /\ c.id = p.command
                                         /\ \E i \in Ready(c) : c.actions[i].id = p.action /\ ~c.actions[i].confirm
Outcomes(p) == IF Resolves(p) THEN BOOLEAN ELSE {FALSE}

\* Bug: the observation holds the failures of one turn only.
Observed_last_turn(p) == (IF turn.failed = 0 THEN {} ELSE observation) \cup {Pair(p)}
Observed(p) == observation \cup {Pair(p)}

Execute ==
    /\ status = "Executing" /\ plan # <<>> /\ can_execute
    /\ plan' = Tail(plan)
    /\ \E ok \in Outcomes(Head(plan)) :
          /\ log' = Append(log, [turn |-> budget.turns, pair |-> Pair(Head(plan)), ok |-> ok])
          /\ turn' = IF ok THEN [turn EXCEPT !.executed = @ + 1] ELSE [turn EXCEPT !.failed = @ + 1]
          /\ observation' = IF ok THEN observation ELSE Observed(Head(plan))
    /\ budget' = [budget EXCEPT !.executions = @ + 1]
    /\ UNCHANGED <<status, expired, catalog>>

\* The plan is done, or a budget stops it. Failures are counted once per turn.
EndTurn ==
    /\ status = "Executing" /\ (plan = <<>> \/ ~can_execute)
    /\ LET failures == IF turn.failed = 0 THEN budget.failures ELSE budget.failures + 1
       IN IF turn.failed = 0 /\ turn.executed = turn.count
            THEN status' = "Completed" /\ budget' = [budget EXCEPT !.failures = failures]
          ELSE IF can_replan
            THEN /\ status' = "Replanning"
                 /\ budget' = [budget EXCEPT !.failures = failures, !.replans = @ + 1]
          ELSE status' = "BudgetExhausted" /\ budget' = [budget EXCEPT !.failures = failures]
    /\ plan' = <<>> /\ turn' = NoTurn
    /\ UNCHANGED <<expired, observation, catalog, log>>

TimePasses ==
    /\ ~expired /\ status \notin Terminal /\ expired' = TRUE
    /\ UNCHANGED <<status, budget, observation, catalog, plan, turn, log>>

Loop == StartTurn \/ NoMoreTurns \/ Execute \/ EndTurn
Next == Loop \/ TimePasses

\* The loop is straight-line code on one thread; planner and host return.
Spec == Init /\ [][Next]_vars /\ WF_vars(Loop)

TypeOK ==
    /\ status \in Terminal \cup {"Created", "Executing", "Replanning"}
    /\ budget.turns <= max_turns /\ budget.replans <= max_replans
    /\ budget.executions = Len(log) /\ Len(log) <= max_total_executions
    /\ turn.executed + turn.failed + Len(plan) <= turn.count

-----------------------------------------------------------------------------
\* INV-AGENT-007 (files2/P1/59-mvp10-0.4.md:2225), "Replan never implicitly replays a failed
\* execution": whatever the model answers in later turns, an action that failed in one turn is
\* not executed in another, not even two turns later or after another failure.
NeverRevives ==
    \A i, j \in DOMAIN log :
        log[i].turn < log[j].turn /\ ~log[i].ok => log[j].pair # log[i].pair

\* agent.rs, "There is no hidden loop": every run ends, whatever it is answered.
RunEnds == <>(status \in Terminal)

-----------------------------------------------------------------------------
\* What the source says of itself and does not keep: no run checks it, and the README lists it.

\* agent.rs, "any one exhausting stops the agent": failed executions stay within max_failures.
FailuresBounded == Cardinality({i \in DOMAIN log : ~log[i].ok}) <= max_failures
=============================================================================
