--------------------------- MODULE WorkflowRunner ---------------------------
(***************************************************************************)
(* The step runner of launcher-workflow/src/lib.rs (WorkflowRunner::run,   *)
(* resume, advance and execute_step) with the failure policy of            *)
(* launcher-domain/src/workflow.rs and the variable store of src/v2.rs:    *)
(* one run of one definition, driven by a host that resolves and executes. *)
(*                                                                         *)
(* A definition is a record of functions on its steps 1..size; `Next`,     *)
(* `End` and step numbers are transition targets.                          *)
(***************************************************************************)
EXTENDS Integers, FiniteSets

CONSTANTS
  Defs,           \* the definitions run() accepts
  Var, Value,     \* variables (var.<name>) and action results
  NoCond,         \* a step without condition
  NoBinding,      \* a step without output binding
  NotFound,       \* the bound path is missing in the action result
  MaxVariables,   \* MAX_VARIABLES
  MaxSteps,       \* MAX_STEPS_PER_RUN
  MaxResumes      \* bound: confirmations the host sends

(* The failure classes a host reports; ConfirmationRequired is no policy row. *)
FailureClass == {"CapabilityDenied", "InvalidInput", "StaleContext", "Timeout",
                 "BusinessError", "ProtocolViolation", "PluginUnavailable",
                 "CommandNotFound"}

FailureAction == {"Stop", "Retry", "Skip", "ReResolve"}

StepRunStatus == {"Pending", "Resolving", "Executing", "WaitingForConfirmation",
                  "Complete", "Failed", "Skipped"}

Next_ == 0
End_  == -1

ConditionExpr == [var : Var, vals : SUBSET Value]

(* The records a definition can be; `override` merges the step's and the
   definition's rows of the failure policy. *)
IsDefinition(d) ==
  /\ d.size \in Nat \ {0} /\ d.entry \in 1..d.size
  /\ d.condition \in [1..d.size -> ConditionExpr \cup {NoCond}]
  /\ d.output \in [1..d.size -> Var \cup {NoBinding}]
  /\ d.on_success \in [1..d.size -> {Next_, End_} \cup 1..d.size]
  /\ d.on_failure \in [1..d.size -> {Next_, End_} \cup 1..d.size]
  /\ d.on_condition_false \in [1..d.size -> {Next_, End_} \cup 1..d.size]
  /\ d.confirmation \subseteq 1..d.size
  /\ d.policy \in [1..d.size -> [FailureClass -> FailureAction]]
  /\ d.max_attempts \in [1..d.size -> Nat]

(* The edges validate_graph follows: on_success and on_condition_false, or the
   linear successor when neither is given; on_failure is not one of them. *)
adj(d, i) ==
  LET explicit == {d.on_success[i], d.on_condition_false[i]} \ {Next_}
  IN  IF explicit # {} THEN explicit \ {End_}
      ELSE {i + 1} \cap (1..d.size)

(* No cycle, and every step reachable from the entry. *)
validate_graph(d) ==
  /\ \A S \in SUBSET (1..d.size) :
        S # {} => \E i \in S : adj(d, i) \cap S = {}
  /\ \A S \in SUBSET (1..d.size) :
        d.entry \in S /\ (\A i \in S : adj(d, i) \subseteq S) => S = 1..d.size

ASSUME DefsAssumption == \A d \in Defs : IsDefinition(d) /\ validate_graph(d)
ASSUME RunnerBounds ==
  MaxVariables \in Nat /\ MaxSteps \in Nat \ {0} /\ MaxResumes \in Nat
ASSUME NotFoundAssumption == NotFound \notin Value /\ NoBinding \notin Var

(* The frozen default matrix of action_for; Timeout is always Retry. *)
DefaultAction(class) ==
  CASE class = "StaleContext" -> "ReResolve"
    [] class \in {"Timeout", "PluginUnavailable"} -> "Retry"
    [] OTHER -> "Stop"

(* step override, else definition override, else the default. *)
action_for(stepRow, defRow, class) ==
  IF class \in DOMAIN stepRow THEN stepRow[class]
  ELSE IF class \in DOMAIN defRow THEN defRow[class]
  ELSE DefaultAction(class)

VARIABLES
  def,                  \* the definition of this run
  status,               \* WorkflowRunStatus
  step, attempt, why,   \* per step: status, attempt counter, skip reason
  variables,            \* the run's variables: a function from a subset of Var
  pc, current,          \* "idle" | "walk" | "resolve" | "execute"; step or 0
  executed, re_resolves, confirmed,   \* locals of advance and execute_step
  resumes,              \* how often the host resumed the run
  calls, ok,            \* history: host.execute calls per step; steps that succeeded
  paused                \* history: the step the last pause waits for (0: none)

runvars == <<status, step, attempt, why, variables>>
locals  == <<pc, current, executed, re_resolves, confirmed>>
history == <<calls, ok, paused>>
allvars == <<def, runvars, locals, resumes, history>>

Steps == 1..def.size

Partial == UNION {[D -> Value] : D \in SUBSET Var}

TypeOK ==
  /\ def \in Defs
  /\ status \in {"Created", "Running", "Paused", "Succeeded", "Failed", "Lost"}
  /\ step \in [Steps -> StepRunStatus] /\ attempt \in [Steps -> Nat]
  /\ why \in [Steps -> {"none", "ConditionFalse", "BranchNotSelected"}]
  /\ variables \in Partial
  /\ pc \in {"idle", "walk", "resolve", "execute"} /\ current \in {0} \cup Steps
  /\ executed \in 0..MaxSteps /\ re_resolves \in 0..2 /\ confirmed \in BOOLEAN
  /\ resumes \in 0..MaxResumes
  /\ calls \in [Steps -> Nat] /\ ok \subseteq Steps /\ paused \in {0} \cup Steps

(* fresh_run *)
Init ==
  /\ def \in Defs /\ status = "Created"
  /\ step = [i \in Steps |-> "Pending"] /\ attempt = [i \in Steps |-> 0]
  /\ why = [i \in Steps |-> "none"] /\ variables = <<>>
  /\ pc = "idle" /\ current = 0 /\ executed = 0 /\ re_resolves = 0
  /\ confirmed = FALSE /\ resumes = 0
  /\ calls = [i \in Steps |-> 0] /\ ok = {} /\ paused = 0

-----------------------------------------------------------------------------
Settled(i) == step[i] \in {"Complete", "Skipped"}

next_linear(i) == IF i + 1 <= def.size THEN i + 1 ELSE 0

(* Where a transition leads from step i; 0 leaves the walk. *)
Target(i, t) == IF t = Next_ THEN next_linear(i) ELSE IF t = End_ THEN 0 ELSE t

(* advance() starts at the entry step, for run() and resume() alike. *)
Advance(conf) ==
  /\ status' = "Running" /\ pc' = "walk" /\ current' = def.entry
  /\ executed' = 0 /\ re_resolves' = 0 /\ confirmed' = conf

Run ==
  /\ status = "Created" /\ Advance(FALSE)
  /\ UNCHANGED <<def, step, attempt, why, variables, resumes, history>>

resume ==
  /\ status = "Paused" /\ resumes < MaxResumes /\ resumes' = resumes + 1
  /\ Advance(TRUE)
  /\ UNCHANGED <<def, step, attempt, why, variables, history>>

(* advance() returns with the run in the given status. *)
Return(st) == pc' = "idle" /\ current' = 0 /\ status' = st

Visit(i) == pc = "walk" /\ current = i /\ i # 0

TooManySteps ==
  /\ pc = "walk" /\ current # 0 /\ executed = MaxSteps
  /\ Return("Failed")
  /\ UNCHANGED <<def, step, attempt, why, variables, executed, re_resolves,
                 confirmed, resumes, history>>

(* A settled step is not run again: the walk goes to its linear successor. *)
PassSettled(i) ==
  /\ Visit(i) /\ executed < MaxSteps /\ Settled(i)
  /\ executed' = executed + 1 /\ current' = next_linear(i)
  /\ UNCHANGED <<def, runvars, pc, re_resolves, confirmed, resumes, history>>

IsSet(v) == v \in DOMAIN variables

Truthy(c) == IsSet(c.var) /\ variables[c.var] \in c.vals

Gated(i) == Visit(i) /\ executed < MaxSteps /\ ~Settled(i) /\ def.condition[i] # NoCond

(* A condition that is not exactly true skips the step. *)
ConditionFalse(i) ==
  /\ Gated(i) /\ ~Truthy(def.condition[i])
  /\ executed' = executed + 1
  /\ step' = [step EXCEPT ![i] = "Skipped"]
  /\ why' = [why EXCEPT ![i] = "ConditionFalse"]
  /\ current' = Target(i, def.on_condition_false[i])
  /\ UNCHANGED <<def, status, attempt, variables, pc, re_resolves, confirmed,
                 resumes, history>>

(* Comparing an unset variable can be an evaluation error; the `?` drops the
   run object: no one sees it any more. *)
ConditionError(i) ==
  /\ Gated(i) /\ ~IsSet(def.condition[i].var)
  /\ Return("Lost") /\ executed' = executed + 1
  /\ UNCHANGED <<def, step, attempt, why, variables, re_resolves, confirmed,
                 resumes, history>>

EnterStep(i) ==
  /\ Visit(i) /\ executed < MaxSteps /\ ~Settled(i)
  /\ (def.condition[i] # NoCond => Truthy(def.condition[i]))
  /\ executed' = executed + 1
  /\ step' = [step EXCEPT ![i] = "Resolving"]
  /\ attempt' = [attempt EXCEPT ![i] = @ + 1]
  /\ pc' = "resolve" /\ re_resolves' = 0
  /\ UNCHANGED <<def, status, why, variables, current, confirmed, resumes, history>>

(* Mutants: a pause that leaves the run Running; execution without a pause. *)
PauseForConfirmation_running ==
  /\ pc = "resolve" /\ current \in def.confirmation /\ ~confirmed
  /\ step' = [step EXCEPT ![current] = "WaitingForConfirmation"]
  /\ Return("Running") /\ paused' = current
  /\ UNCHANGED <<def, attempt, why, variables, executed, re_resolves, confirmed,
                 resumes, calls, ok>>

ResolveOk_unconfirmed ==
  /\ pc = "resolve"
  /\ step' = [step EXCEPT ![current] = "Executing"]
  /\ pc' = "execute"
  /\ UNCHANGED <<def, status, attempt, why, variables, current, executed,
                 re_resolves, confirmed, resumes, history>>

(* Resolution succeeded; pause for a confirmation, or go on to execute. *)
PauseForConfirmation ==
  /\ pc = "resolve" /\ current \in def.confirmation /\ ~confirmed
  /\ step' = [step EXCEPT ![current] = "WaitingForConfirmation"]
  /\ Return("Paused") /\ paused' = current
  /\ UNCHANGED <<def, attempt, why, variables, executed, re_resolves, confirmed,
                 resumes, calls, ok>>

ResolveOk ==
  /\ pc = "resolve" /\ (current \in def.confirmation => confirmed)
  /\ step' = [step EXCEPT ![current] = "Executing"]
  /\ pc' = "execute"
  /\ UNCHANGED <<def, status, attempt, why, variables, current, executed,
                 re_resolves, confirmed, resumes, history>>

(* A failed resolution, with what the policy says of its class. *)
ResolveAgain(act) ==
  \/ /\ act = "ReResolve" /\ re_resolves < 2
     /\ re_resolves' = re_resolves + 1 /\ UNCHANGED attempt
  \/ /\ act = "Retry" /\ attempt[current] < def.max_attempts[current]
     /\ attempt' = [attempt EXCEPT ![current] = @ + 1] /\ UNCHANGED re_resolves

Exhausted(act) ==
  /\ ~(act = "ReResolve" /\ re_resolves < 2)
  /\ ~(act = "Retry" /\ attempt[current] < def.max_attempts[current])
  /\ act # "Skip"

SkipStep ==
  /\ step' = [step EXCEPT ![current] = "Skipped"]
  /\ pc' = "walk" /\ current' = Target(current, def.on_failure[current])
  /\ UNCHANGED <<status, attempt, re_resolves>>

FailStep ==
  /\ step' = [step EXCEPT ![current] = "Failed"]
  /\ Return("Failed")
  /\ UNCHANGED <<attempt, re_resolves>>

ResolveFails(class) ==
  LET act == def.policy[current][class] IN
  /\ pc = "resolve"
  /\ \/ ResolveAgain(act) /\ UNCHANGED <<step, status, pc, current>>
     \/ act = "Skip" /\ SkipStep
     \/ Exhausted(act) /\ FailStep
  /\ UNCHANGED <<def, why, variables, executed, confirmed, resumes, history>>

-----------------------------------------------------------------------------
(* The action runs: host.execute. *)

re_resolve_budget == attempt[current] <= 2

(* The entry of the recursive call records the next attempt. *)
ExecuteAgain(act) ==
  /\ \/ act = "Retry" /\ attempt[current] < def.max_attempts[current]
     \/ act = "ReResolve" /\ re_resolve_budget
  /\ step' = [step EXCEPT ![current] = "Resolving"]
  /\ attempt' = [attempt EXCEPT ![current] = @ + 1]
  /\ pc' = "resolve" /\ re_resolves' = 0
  /\ UNCHANGED <<status, current>>

GiveUp(act) ==
  /\ ~(act = "Retry" /\ attempt[current] < def.max_attempts[current])
  /\ ~(act = "ReResolve" /\ re_resolve_budget)
  /\ act # "Skip"
  /\ FailStep

ExecuteFails(class) ==
  LET act == def.policy[current][class] IN
  /\ pc = "execute"
  /\ calls' = [calls EXCEPT ![current] = @ + 1]
  /\ ExecuteAgain(act) \/ (act = "Skip" /\ SkipStep) \/ GiveUp(act)
  /\ UNCHANGED <<def, why, variables, executed, confirmed, resumes, ok, paused>>

(* VariableStore::set refuses every write at the limit, an overwrite too. *)
CanSet(val) ==
  val # NotFound /\ Cardinality(DOMAIN variables) < MaxVariables

Bind(v, val) ==
  [w \in DOMAIN variables \cup {v} |-> IF w = v THEN val ELSE variables[w]]

(* Mutant of ExecuteOk: a binding that fails is retried like a failed action. *)
ExecuteOk_retries_binding(val) ==
  LET target == def.output[current] IN
  /\ pc = "execute"
  /\ calls' = [calls EXCEPT ![current] = @ + 1]
  /\ ok' = ok \cup {current}
  /\ \/ /\ target = NoBinding \/ CanSet(val)
        /\ variables' = IF target = NoBinding THEN variables ELSE Bind(target, val)
        /\ step' = [step EXCEPT ![current] = "Complete"]
        /\ pc' = "walk" /\ current' = Target(current, def.on_success[current])
        /\ UNCHANGED <<status, attempt, re_resolves>>
     \/ /\ target # NoBinding /\ ~CanSet(val)
        /\ UNCHANGED variables
        /\ ExecuteAgain("Retry")
  /\ UNCHANGED <<def, why, executed, confirmed, resumes, paused>>

(* Success: bind the output, then follow on_success.  A binding that fails
   fails the step and the run and commits nothing. *)
ExecuteOk(val) ==
  LET target == def.output[current] IN
  /\ pc = "execute"
  /\ calls' = [calls EXCEPT ![current] = @ + 1]
  /\ ok' = ok \cup {current}
  /\ \/ /\ target = NoBinding \/ CanSet(val)
        /\ variables' = IF target = NoBinding THEN variables ELSE Bind(target, val)
        /\ step' = [step EXCEPT ![current] = "Complete"]
        /\ pc' = "walk" /\ current' = Target(current, def.on_success[current])
        /\ UNCHANGED <<status, attempt, re_resolves>>
     \/ /\ target # NoBinding /\ ~CanSet(val)
        /\ UNCHANGED variables
        /\ FailStep
  /\ UNCHANGED <<def, why, executed, confirmed, resumes, paused>>

(* The walk ended: what was never visited was not selected. *)
EndWalk ==
  /\ pc = "walk" /\ current = 0
  /\ step' = [i \in Steps |-> IF step[i] = "Pending" THEN "Skipped" ELSE step[i]]
  /\ why' = [i \in Steps |-> IF step[i] = "Pending" THEN "BranchNotSelected"
                             ELSE why[i]]
  /\ Return(IF \A i \in Steps : step'[i] \in {"Complete", "Skipped"}
            THEN "Succeeded" ELSE "Failed")
  /\ UNCHANGED <<def, attempt, variables, executed, re_resolves, confirmed,
                 resumes, history>>

Walk ==
  \/ TooManySteps \/ EndWalk
  \/ \E i \in Steps : \/ PassSettled(i) \/ ConditionFalse(i)
                      \/ ConditionError(i) \/ EnterStep(i)

Step ==
  \/ PauseForConfirmation \/ ResolveOk
  \/ \E class \in FailureClass : ResolveFails(class) \/ ExecuteFails(class)
  \/ \E val \in Value \cup {NotFound} : ExecuteOk(val)

Next == Run \/ resume \/ Walk \/ Step

Spec == Init /\ [][Next]_allvars

(* The runner thread keeps going; whether a confirmation comes is the user's. *)
FairSpec == Spec /\ WF_allvars(Run \/ Walk \/ Step)

-----------------------------------------------------------------------------
(* Properties. *)

(* INV-WORKFLOW-006, "FailurePolicy cannot be bypassed by branching": whatever
   on_failure says, a failed step means a failed run, and no later resume or
   transition turns the run into anything else. *)
FailureOutranksTransitions ==
  (\E i \in DOMAIN step : step[i] = "Failed") => status = "Failed"

(* INV-WORKFLOW-008, "A failed step must not partially commit variable
   mutations": every variable was written by a step that is Complete. *)
OnlyCompleteStepsCommit ==
  \A v \in DOMAIN variables :
     \E i \in Steps : step[i] = "Complete" /\ def.output[i] = v

(* "Confirmation policy: pause": in a run nobody ever confirmed, no step that
   requires a confirmation reaches the host, on any branch, retry or skip. *)
NothingUnconfirmed ==
  \A i \in def.confirmation : calls[i] > 0 => resumes > 0

(* Effects are bounded: retries and re-resolutions together never execute one
   step more often than the larger of max_attempts and three times. *)
CallsBounded ==
  \A i \in Steps : calls[i] <= def.max_attempts[i] \/ calls[i] <= 3

(* INV-WORKFLOW-009, "Branching cannot create implicit execution replay": a
   step whose action succeeded is never executed again, although every resume
   walks again from the entry and transitions may lead back. *)
NoReplay ==
  [][\A i \in Steps : calls'[i] # calls[i] => i \notin ok]_allvars

(* A run never stays Running: it pauses or ends, whatever the host answers. *)
RunStops == status = "Running" ~> status # "Running"

(* The comment at the confirmation gate: "pause, never auto-confirm".  One
   confirmation stays valid for every later step of the walk, so a step may run
   confirmed that never paused; this does not hold. *)
NeverAutoConfirm ==
  [][\A i \in def.confirmation : calls'[i] # calls[i] => paused = i]_allvars
=============================================================================
