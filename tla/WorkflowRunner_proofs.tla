----------------------- MODULE WorkflowRunner_proofs -----------------------
(***************************************************************************)
(* Proofs about WorkflowRunner for every set of definitions, every failure *)
(* policy and every behaviour of the host.                                 *)
(***************************************************************************)
EXTENDS WorkflowRunner, TLAPS

(* What the program counter says about the run and its current step. *)
PcShape ==
  /\ pc # "idle" => status = "Running"
  /\ pc \in {"resolve", "execute"} =>
        current \in Steps /\ step[current] \in {"Resolving", "Executing"}
  /\ pc = "execute" /\ current \in def.confirmation => confirmed
  /\ confirmed => resumes > 0

(* A step that succeeded is Complete, unless its output binding failed and took
   the run with it. *)
OkComplete == \A i \in ok : step[i] = "Complete" \/ status = "Failed"

IInv ==
  TypeOK /\ PcShape /\ OkComplete /\ FailureOutranksTransitions
  /\ OnlyCompleteStepsCommit /\ NothingUnconfirmed

-----------------------------------------------------------------------------
(* The fields of the definition of the run. *)
LEMMA DefFields == ASSUME TypeOK PROVE IsDefinition(def)
BY DefsAssumption DEF TypeOK

LEMMA TargetType ==
  ASSUME TypeOK, NEW i \in Steps, NEW tr \in {Next_, End_} \cup Steps
  PROVE  Target(i, tr) \in {0} \cup Steps /\ next_linear(i) \in {0} \cup Steps
BY DefFields DEF Target, next_linear, Steps, Next_, End_, IsDefinition

LEMMA Transitions ==
  ASSUME TypeOK, NEW i \in Steps
  PROVE  /\ def.on_success[i] \in {Next_, End_} \cup Steps
         /\ def.on_failure[i] \in {Next_, End_} \cup Steps
         /\ def.on_condition_false[i] \in {Next_, End_} \cup Steps
         /\ def.output[i] \in Var \cup {NoBinding}
         /\ def.entry \in Steps /\ def.confirmation \subseteq Steps
BY DefFields DEF IsDefinition, Steps

LEMMA BindType ==
  ASSUME variables \in Partial, NEW v \in Var, NEW val \in Value
  PROVE  /\ Bind(v, val) \in Partial
         /\ DOMAIN Bind(v, val) = DOMAIN variables \cup {v}
<1>1. PICK D \in SUBSET Var : variables \in [D -> Value]
  BY DEF Partial
<1>2. DOMAIN variables = D
  BY <1>1
<1>3. Bind(v, val) \in [D \cup {v} -> Value]
  BY <1>1, <1>2 DEF Bind
<1>4. D \cup {v} \in SUBSET Var
  BY <1>1
<1>5. Bind(v, val) \in Partial
  BY <1>3, <1>4 DEF Partial
<1> QED BY <1>2, <1>3, <1>5

-----------------------------------------------------------------------------
LEMMA InitInv == Init => IInv
<1> SUFFICES ASSUME Init PROVE IInv
  OBVIOUS
<1>1. variables \in Partial
  <2>1. variables \in [{} -> Value] /\ {} \in SUBSET Var
    BY DEF Init
  <2> QED BY <2>1 DEF Partial
<1>2. TypeOK
  <2>1. /\ executed \in 0..MaxSteps /\ re_resolves \in 0..2
        /\ resumes \in 0..MaxResumes
    BY RunnerBounds DEF Init
  <2>2. /\ step \in [Steps -> StepRunStatus] /\ attempt \in [Steps -> Nat]
        /\ why \in [Steps -> {"none", "ConditionFalse", "BranchNotSelected"}]
        /\ calls \in [Steps -> Nat]
    BY DEF Init, StepRunStatus
  <2> QED BY <1>1, <2>1, <2>2 DEF Init, TypeOK
<1>3. PcShape /\ OkComplete /\ FailureOutranksTransitions /\ OnlyCompleteStepsCommit
  BY DEF Init, PcShape, OkComplete, FailureOutranksTransitions,
         OnlyCompleteStepsCommit
<1>4. NothingUnconfirmed
  <2>1. def.confirmation \subseteq Steps
    BY <1>2, DefFields DEF IsDefinition, Steps
  <2>2. \A i \in Steps : calls[i] = 0
    BY DEF Init
  <2> QED BY <2>1, <2>2 DEF NothingUnconfirmed
<1> QED BY <1>2, <1>3, <1>4 DEF IInv

(* run() and resume() restart the walk at the entry step. *)
LEMMA StartInv == IInv /\ (Run \/ resume) => IInv'
<1> SUFFICES ASSUME IInv, Run \/ resume PROVE IInv'
  OBVIOUS
<1>0. status \in {"Created", "Paused"} /\ TypeOK
  BY DEF IInv, Run, resume
<1>1. /\ def' = def /\ step' = step /\ attempt' = attempt /\ why' = why
      /\ variables' = variables /\ calls' = calls /\ ok' = ok /\ paused' = paused
      /\ status' = "Running" /\ pc' = "walk" /\ current' = def.entry
      /\ executed' = 0 /\ re_resolves' = 0
  BY DEF Run, resume, Advance, history
<1>2. resumes' \in 0..MaxResumes /\ resumes' >= resumes
  <2>1. resumes' = resumes \/ (resumes < MaxResumes /\ resumes' = resumes + 1)
    BY DEF Run, resume, Advance
  <2>2. resumes \in 0..MaxResumes
    BY <1>0 DEF TypeOK
  <2> QED BY <2>1, <2>2, RunnerBounds
<1>3. confirmed' \in BOOLEAN
  BY DEF Run, resume, Advance
<1>4. def.entry \in Steps
  BY <1>0, DefFields DEF IsDefinition, Steps
<1>5. TypeOK'
  BY <1>0, <1>1, <1>2, <1>3, <1>4, RunnerBounds DEF TypeOK, Steps
<1>6. confirmed' => resumes' > 0
  BY <1>0 DEF Run, resume, Advance, TypeOK
<1>7. PcShape'
  BY <1>1, <1>6 DEF PcShape
<1>8. OkComplete' /\ FailureOutranksTransitions' /\ OnlyCompleteStepsCommit'
  BY <1>0, <1>1 DEF IInv, OkComplete, FailureOutranksTransitions,
                    OnlyCompleteStepsCommit, Steps
<1>9. NothingUnconfirmed'
  BY <1>0, <1>1, <1>2 DEF IInv, NothingUnconfirmed, TypeOK
<1> QED BY <1>5, <1>7, <1>8, <1>9 DEF IInv

(* Steps of the walk itself: only the visited, unsettled step changes, and never
   to Complete or Failed. *)
LEMMA WalkInv == IInv /\ Walk => IInv'
<1> SUFFICES ASSUME IInv, Walk PROVE IInv'
  OBVIOUS
<1>0. TypeOK /\ pc = "walk" /\ status = "Running"
  BY DEF IInv, PcShape, Walk, TooManySteps, EndWalk, PassSettled, ConditionFalse,
         ConditionError, EnterStep, Visit, Gated
<1>n. \A i \in Steps : step[i] # "Failed"
  BY <1>0 DEF IInv, FailureOutranksTransitions, TypeOK
<1>1. CASE TooManySteps
  <2>1. /\ UNCHANGED <<def, step, attempt, why, variables, executed, re_resolves,
                       confirmed, resumes, calls, ok, paused>>
        /\ pc' = "idle" /\ current' = 0 /\ status' = "Failed"
    BY <1>1 DEF TooManySteps, Return, history
  <2>2. TypeOK'
    BY <1>0, <2>1 DEF TypeOK, Steps
  <2> QED BY <2>1, <2>2 DEF IInv, PcShape, OkComplete, FailureOutranksTransitions,
                            OnlyCompleteStepsCommit, NothingUnconfirmed, Steps
<1>2. CASE EndWalk
  <2>1. /\ UNCHANGED <<def, attempt, variables, executed, re_resolves, confirmed,
                       resumes, calls, ok, paused>>
        /\ pc' = "idle" /\ current' = 0 /\ status' \in {"Succeeded", "Failed"}
        /\ step' = [i \in Steps |-> IF step[i] = "Pending" THEN "Skipped" ELSE step[i]]
        /\ why' = [i \in Steps |-> IF step[i] = "Pending" THEN "BranchNotSelected"
                                   ELSE why[i]]
    BY <1>2 DEF EndWalk, Return, history
  <2>2. /\ step' \in [Steps -> StepRunStatus]
        /\ \A i \in Steps : step'[i] # "Failed"
        /\ \A i \in Steps : step[i] = "Complete" => step'[i] = "Complete"
    BY <1>0, <1>n, <2>1 DEF TypeOK, StepRunStatus
  <2>3. why' \in [Steps -> {"none", "ConditionFalse", "BranchNotSelected"}]
    BY <1>0, <2>1 DEF TypeOK
  <2>4. TypeOK'
    BY <1>0, <2>1, <2>2, <2>3 DEF TypeOK, Steps
  <2>5. PcShape' /\ NothingUnconfirmed'
    BY <2>1 DEF IInv, PcShape, NothingUnconfirmed
  <2>6. FailureOutranksTransitions'
    BY <2>2, <2>4, <2>1 DEF FailureOutranksTransitions, TypeOK, Steps
  <2>7. OkComplete'
    BY <1>0, <2>1, <2>2 DEF IInv, OkComplete, TypeOK
  <2>8. OnlyCompleteStepsCommit'
    BY <2>1, <2>2 DEF IInv, OnlyCompleteStepsCommit, Steps
  <2> QED BY <2>4, <2>5, <2>6, <2>7, <2>8 DEF IInv
<1>3. ASSUME NEW i \in Steps, PassSettled(i)
      PROVE  IInv'
  <2>1. /\ UNCHANGED <<def, status, step, attempt, why, variables, pc, re_resolves,
                       confirmed, resumes, calls, ok, paused>>
        /\ current' = next_linear(i) /\ executed' = executed + 1
        /\ executed < MaxSteps
    BY <1>3 DEF PassSettled, history, runvars
  <2>2. current' \in {0} \cup Steps /\ executed' \in 0..MaxSteps
    BY <1>0, <2>1, TargetType, RunnerBounds DEF TypeOK
  <2>3. TypeOK'
    BY <1>0, <2>1, <2>2 DEF TypeOK, Steps
  <2> QED BY <1>0, <2>1, <2>3 DEF IInv, PcShape, OkComplete,
             FailureOutranksTransitions, OnlyCompleteStepsCommit,
             NothingUnconfirmed, Steps
<1>4. ASSUME NEW i \in Steps, ConditionFalse(i)
      PROVE  IInv'
  <2>1. /\ UNCHANGED <<def, status, attempt, variables, pc, re_resolves, confirmed,
                       resumes, calls, ok, paused>>
        /\ current' = Target(i, def.on_condition_false[i])
        /\ executed' = executed + 1 /\ executed < MaxSteps
        /\ step' = [step EXCEPT ![i] = "Skipped"] /\ step[i] # "Complete"
        /\ why' = [why EXCEPT ![i] = "ConditionFalse"]
    BY <1>4 DEF ConditionFalse, Gated, Settled, history
  <2>2. current' \in {0} \cup Steps /\ executed' \in 0..MaxSteps
    BY <1>0, <2>1, TargetType, Transitions, RunnerBounds DEF TypeOK
  <2>3. /\ step' \in [Steps -> StepRunStatus]
        /\ \A j \in Steps : step'[j] # "Failed"
        /\ \A j \in Steps : step[j] = "Complete" => step'[j] = "Complete"
    BY <1>0, <1>n, <2>1 DEF TypeOK, StepRunStatus
  <2>4. TypeOK'
    BY <1>0, <2>1, <2>2, <2>3 DEF TypeOK, Steps
  <2>5. PcShape' /\ NothingUnconfirmed'
    BY <1>0, <2>1 DEF IInv, PcShape, NothingUnconfirmed
  <2>6. FailureOutranksTransitions' /\ OkComplete'
    BY <1>0, <2>1, <2>3 DEF IInv, FailureOutranksTransitions, OkComplete, TypeOK
  <2>7. OnlyCompleteStepsCommit'
    BY <2>1, <2>3 DEF IInv, OnlyCompleteStepsCommit, Steps
  <2> QED BY <2>4, <2>5, <2>6, <2>7 DEF IInv
<1>5. ASSUME NEW i \in Steps, ConditionError(i)
      PROVE  IInv'
  <2>1. /\ UNCHANGED <<def, step, attempt, why, variables, re_resolves,
                       confirmed, resumes, calls, ok, paused>>
        /\ pc' = "idle" /\ current' = 0 /\ status' = "Lost"
        /\ executed' = executed + 1 /\ executed < MaxSteps
    BY <1>5 DEF ConditionError, Gated, Return, history
  <2>2. executed' \in 0..MaxSteps
    BY <1>0, <2>1, RunnerBounds DEF TypeOK
  <2>3. TypeOK'
    BY <1>0, <2>1, <2>2 DEF TypeOK, Steps
  <2> QED BY <1>0, <1>n, <2>1, <2>3 DEF IInv, PcShape, OkComplete, TypeOK,
             FailureOutranksTransitions, OnlyCompleteStepsCommit,
             NothingUnconfirmed, Steps
<1>6. ASSUME NEW i \in Steps, EnterStep(i)
      PROVE  IInv'
  <2>1. /\ UNCHANGED <<def, status, why, variables, current, confirmed, resumes,
                       calls, ok, paused>>
        /\ current = i /\ pc' = "resolve" /\ re_resolves' = 0
        /\ executed' = executed + 1 /\ executed < MaxSteps
        /\ step' = [step EXCEPT ![i] = "Resolving"] /\ step[i] # "Complete"
        /\ attempt' = [attempt EXCEPT ![i] = @ + 1]
    BY <1>6 DEF EnterStep, Visit, Settled, history
  <2>2. executed' \in 0..MaxSteps /\ attempt' \in [Steps -> Nat]
    BY <1>0, <2>1, RunnerBounds DEF TypeOK
  <2>3. /\ step' \in [Steps -> StepRunStatus]
        /\ \A j \in Steps : step'[j] # "Failed"
        /\ \A j \in Steps : step[j] = "Complete" => step'[j] = "Complete"
    BY <1>0, <1>n, <2>1 DEF TypeOK, StepRunStatus
  <2>4. TypeOK'
    BY <1>0, <2>1, <2>2, <2>3 DEF TypeOK, Steps
  <2>5. PcShape' /\ NothingUnconfirmed'
    BY <1>0, <2>1 DEF IInv, PcShape, NothingUnconfirmed, Steps, TypeOK
  <2>6. FailureOutranksTransitions' /\ OkComplete'
    BY <1>0, <2>1, <2>3 DEF IInv, FailureOutranksTransitions, OkComplete, TypeOK
  <2>7. OnlyCompleteStepsCommit'
    BY <2>1, <2>3 DEF IInv, OnlyCompleteStepsCommit, Steps
  <2> QED BY <2>4, <2>5, <2>6, <2>7 DEF IInv
<1> QED BY <1>1, <1>2, <1>3, <1>4, <1>5, <1>6 DEF Walk

(* What FailStep and SkipStep do to the current step. *)
LEMMA SettleType ==
  ASSUME TypeOK, current \in Steps, SkipStep \/ FailStep
  PROVE  /\ status' \in {"Running", "Failed"} \cup {status}
         /\ step' \in [Steps -> StepRunStatus] /\ attempt' = attempt
         /\ re_resolves' = re_resolves
         /\ pc' \in {"walk", "idle"} /\ current' \in {0} \cup Steps
<1>1. CASE SkipStep
  <2>1. current' \in {0} \cup Steps
    BY <1>1, TargetType, Transitions DEF SkipStep
  <2> QED BY <1>1, <2>1 DEF SkipStep, TypeOK, StepRunStatus
<1>2. CASE FailStep
  BY <1>2 DEF FailStep, Return, TypeOK, StepRunStatus
<1> QED BY <1>1, <1>2

(* The common shape of the steps of execute_step other than success: only the
   current step changes, it does not become Complete, and it becomes Failed only
   together with the run. *)
LEMMA StepShapeInv ==
  ASSUME IInv, TypeOK', pc \in {"resolve", "execute"}, NEW st \in StepRunStatus,
         st # "Complete", step' = [step EXCEPT ![current] = st],
         st = "Failed" => status' = "Failed",
         status' \in {"Running", "Paused", "Failed"},
         pc' # "idle" => status' = "Running",
         pc' \in {"resolve", "execute"} =>
            current' = current /\ st \in {"Resolving", "Executing"},
         pc' = "execute" => (current \in def.confirmation => confirmed),
         calls' = calls \/ (pc = "execute"
                            /\ calls' = [calls EXCEPT ![current] = @ + 1]),
         UNCHANGED <<def, variables, confirmed, resumes, ok>>
  PROVE  IInv'
<1>0. TypeOK /\ current \in Steps /\ step[current] # "Complete" /\ status = "Running"
  BY DEF IInv, PcShape
<1>n. \A i \in Steps : step[i] # "Failed"
  BY <1>0 DEF IInv, FailureOutranksTransitions, TypeOK
<1>1. /\ \A i \in Steps : step[i] = "Complete" => step'[i] = "Complete"
      /\ \A i \in Steps : step'[i] = "Failed" => st = "Failed"
      /\ step'[current] = st
  BY <1>0, <1>n DEF TypeOK
<1>2. PcShape'
  BY <1>0, <1>1 DEF IInv, PcShape, Steps
<1>3. OkComplete'
  BY <1>0, <1>1 DEF IInv, OkComplete, TypeOK
<1>4. FailureOutranksTransitions'
  BY <1>0, <1>1 DEF FailureOutranksTransitions, TypeOK, Steps
<1>5. OnlyCompleteStepsCommit'
  BY <1>1 DEF IInv, OnlyCompleteStepsCommit, Steps
<1>6. NothingUnconfirmed'
  <2>1. def.confirmation \subseteq Steps
    BY <1>0, Transitions
  <2>2. \A i \in Steps : calls'[i] # calls[i] => pc = "execute" /\ i = current
    BY <1>0 DEF TypeOK
  <2> QED BY <2>1, <2>2 DEF IInv, NothingUnconfirmed, PcShape
<1> QED BY <1>2, <1>3, <1>4, <1>5, <1>6 DEF IInv

LEMMA ResolveInv ==
  ASSUME IInv, \/ PauseForConfirmation \/ ResolveOk
               \/ \E class \in FailureClass : ResolveFails(class)
  PROVE  IInv'
<1>0. TypeOK /\ pc = "resolve" /\ current \in Steps /\ status = "Running"
      /\ step[current] \in {"Resolving", "Executing"}
  BY DEF IInv, PcShape, PauseForConfirmation, ResolveOk, ResolveFails
<1>1. CASE PauseForConfirmation
  <2>1. /\ step' = [step EXCEPT ![current] = "WaitingForConfirmation"]
        /\ pc' = "idle" /\ current' = 0 /\ status' = "Paused" /\ paused' = current
        /\ UNCHANGED <<def, attempt, why, variables, executed, re_resolves,
                       confirmed, resumes, calls, ok>>
    BY <1>1 DEF PauseForConfirmation, Return
  <2>2. TypeOK'
    BY <1>0, <2>1 DEF TypeOK, Steps, StepRunStatus
  <2> QED BY <1>0, <2>1, <2>2, StepShapeInv DEF StepRunStatus
<1>2. CASE ResolveOk
  <2>1. /\ step' = [step EXCEPT ![current] = "Executing"] /\ pc' = "execute"
        /\ current \in def.confirmation => confirmed
        /\ UNCHANGED <<def, status, attempt, why, variables, current, executed,
                       re_resolves, confirmed, resumes, calls, ok, paused>>
    BY <1>2 DEF ResolveOk, history
  <2>2. TypeOK'
    BY <1>0, <2>1 DEF TypeOK, Steps, StepRunStatus
  <2> QED BY <1>0, <2>1, <2>2, StepShapeInv DEF StepRunStatus
<1>3. ASSUME NEW class \in FailureClass, ResolveFails(class)
      PROVE  IInv'
  <2> DEFINE act == def.policy[current][class]
  <2>0. UNCHANGED <<def, why, variables, executed, confirmed, resumes, calls, ok,
                    paused>>
    BY <1>3 DEF ResolveFails, history
  <2>1. CASE ResolveAgain(act) /\ UNCHANGED <<step, status, pc, current>>
    <3>1. re_resolves' \in 0..2 /\ attempt' \in [Steps -> Nat]
      BY <1>0, <2>1 DEF ResolveAgain, TypeOK
    <3>2. TypeOK'
      BY <1>0, <2>0, <2>1, <3>1 DEF TypeOK, Steps
    <3> QED BY <1>0, <2>0, <2>1, <3>2 DEF IInv, PcShape, OkComplete, Steps,
               FailureOutranksTransitions, OnlyCompleteStepsCommit,
               NothingUnconfirmed
  <2>2. CASE SkipStep
    <3>1. TypeOK'
      BY <1>0, <2>0, <2>2, SettleType DEF TypeOK, Steps
    <3> QED BY <1>0, <2>0, <2>2, <3>1, StepShapeInv DEF SkipStep, StepRunStatus
  <2>3. CASE FailStep
    <3>1. TypeOK'
      BY <1>0, <2>0, <2>3, SettleType DEF TypeOK, Steps
    <3> QED BY <1>0, <2>0, <2>3, <3>1, StepShapeInv
            DEF FailStep, Return, StepRunStatus
  <2> QED BY <1>3, <2>1, <2>2, <2>3 DEF ResolveFails
<1> QED BY <1>1, <1>2, <1>3

LEMMA ExecuteFailsInv ==
  ASSUME IInv, NEW class \in FailureClass, ExecuteFails(class)
  PROVE  IInv'
<1> DEFINE act == def.policy[current][class]
<1>0. /\ TypeOK /\ pc = "execute" /\ current \in Steps /\ status = "Running"
      /\ calls' = [calls EXCEPT ![current] = @ + 1]
      /\ UNCHANGED <<def, why, variables, executed, confirmed, resumes, ok, paused>>
  BY DEF IInv, PcShape, ExecuteFails
<1>c. calls' \in [Steps -> Nat]
  BY <1>0 DEF TypeOK
<1>1. CASE ExecuteAgain(act)
  <2>1. /\ step' = [step EXCEPT ![current] = "Resolving"]
        /\ attempt' = [attempt EXCEPT ![current] = @ + 1]
        /\ pc' = "resolve" /\ re_resolves' = 0 /\ UNCHANGED <<status, current>>
    BY <1>1 DEF ExecuteAgain
  <2>2. attempt' \in [Steps -> Nat] /\ step' \in [Steps -> StepRunStatus]
    BY <1>0, <2>1 DEF TypeOK, StepRunStatus
  <2>3. TypeOK'
    BY <1>0, <1>c, <2>1, <2>2 DEF TypeOK, Steps
  <2> QED BY <1>0, <2>1, <2>3, StepShapeInv DEF StepRunStatus
<1>2. CASE SkipStep
  <2>1. TypeOK'
    BY <1>0, <1>c, <1>2, SettleType DEF TypeOK, Steps
  <2> QED BY <1>0, <1>2, <2>1, StepShapeInv DEF SkipStep, StepRunStatus
<1>3. CASE FailStep
  <2>1. TypeOK'
    BY <1>0, <1>c, <1>3, SettleType DEF TypeOK, Steps
  <2> QED BY <1>0, <1>3, <2>1, StepShapeInv DEF FailStep, Return, StepRunStatus
<1> QED BY <1>1, <1>2, <1>3 DEF ExecuteFails, GiveUp

(* Success: the binding and the status change together or not at all. *)
LEMMA ExecuteOkInv ==
  ASSUME IInv, NEW val \in Value \cup {NotFound}, ExecuteOk(val)
  PROVE  IInv'
<1> DEFINE target == def.output[current]
<1>0. /\ TypeOK /\ pc = "execute" /\ current \in Steps /\ status = "Running"
      /\ step[current] \in {"Resolving", "Executing"}
      /\ calls' = [calls EXCEPT ![current] = @ + 1] /\ ok' = ok \cup {current}
      /\ UNCHANGED <<def, why, executed, confirmed, resumes, paused>>
  BY DEF IInv, PcShape, ExecuteOk
<1>c. calls' \in [Steps -> Nat] /\ ok' \subseteq Steps
  BY <1>0 DEF TypeOK
<1>n. \A i \in Steps : step[i] # "Failed"
  BY <1>0 DEF IInv, FailureOutranksTransitions, TypeOK
<1>u. NothingUnconfirmed'
  <2>1. def.confirmation \subseteq Steps
    BY <1>0, Transitions
  <2>2. \A i \in Steps : calls'[i] # calls[i] => i = current
    BY <1>0 DEF TypeOK
  <2> QED BY <1>0, <2>1, <2>2 DEF IInv, NothingUnconfirmed, PcShape
<1>1. CASE /\ target = NoBinding \/ CanSet(val)
           /\ variables' = IF target = NoBinding THEN variables ELSE Bind(target, val)
           /\ step' = [step EXCEPT ![current] = "Complete"]
           /\ pc' = "walk" /\ current' = Target(current, def.on_success[current])
           /\ UNCHANGED <<status, attempt, re_resolves>>
  <2>1. current' \in {0} \cup Steps
    BY <1>0, <1>1, TargetType, Transitions
  <2>2. /\ variables' \in Partial
        /\ \A v \in DOMAIN variables' : v \in DOMAIN variables \/ v = target
    <3>1. CASE target = NoBinding
      BY <1>0, <1>1, <3>1 DEF TypeOK
    <3>2. CASE target # NoBinding
      <4>1. target \in Var /\ val \in Value
        BY <1>0, <1>1, <3>2, Transitions DEF CanSet
      <4>2. variables' = Bind(target, val)
        BY <1>1, <3>2
      <4>3. Bind(target, val) \in Partial /\ DOMAIN Bind(target, val) = DOMAIN variables \cup {target}
        BY <1>0, <4>1, BindType DEF TypeOK, Bind
      <4> QED BY <4>2, <4>3
    <3> QED BY <3>1, <3>2
  <2>3. /\ step' \in [Steps -> StepRunStatus] /\ step'[current] = "Complete"
        /\ \A i \in Steps : step'[i] # "Failed"
        /\ \A i \in Steps : step[i] = "Complete" => step'[i] = "Complete"
    BY <1>0, <1>1, <1>n DEF TypeOK, StepRunStatus
  <2>4. TypeOK'
    BY <1>0, <1>c, <1>1, <2>1, <2>2, <2>3 DEF TypeOK, Steps
  <2>5. PcShape'
    BY <1>0, <1>1 DEF IInv, PcShape
  <2>6. OkComplete' /\ FailureOutranksTransitions'
    BY <1>0, <1>1, <2>3, <2>4 DEF IInv, OkComplete, FailureOutranksTransitions,
                                  TypeOK, Steps
  <2>7. OnlyCompleteStepsCommit'
    BY <1>0, <2>2, <2>3 DEF IInv, OnlyCompleteStepsCommit, Steps
  <2> QED BY <1>u, <2>4, <2>5, <2>6, <2>7 DEF IInv
<1>2. CASE UNCHANGED variables /\ FailStep
  <2>1. /\ step' = [step EXCEPT ![current] = "Failed"]
        /\ pc' = "idle" /\ current' = 0 /\ status' = "Failed"
        /\ UNCHANGED <<attempt, re_resolves, variables>>
    BY <1>2 DEF FailStep, Return
  <2>2. /\ step' \in [Steps -> StepRunStatus]
        /\ \A i \in Steps : step[i] = "Complete" => step'[i] = "Complete"
    BY <1>0, <2>1 DEF TypeOK, StepRunStatus
  <2>3. TypeOK'
    BY <1>0, <1>c, <2>1, <2>2 DEF TypeOK, Steps
  <2>4. PcShape' /\ OkComplete' /\ FailureOutranksTransitions'
    BY <1>0, <2>1 DEF IInv, PcShape, OkComplete, FailureOutranksTransitions
  <2>5. OnlyCompleteStepsCommit'
    BY <1>0, <2>1, <2>2 DEF IInv, OnlyCompleteStepsCommit, Steps
  <2> QED BY <1>u, <2>3, <2>4, <2>5 DEF IInv
<1> QED BY <1>1, <1>2 DEF ExecuteOk

-----------------------------------------------------------------------------
(* Every action preserves the inductive invariant. *)
LEMMA StepInv == IInv /\ [Next]_allvars => IInv'
<1> SUFFICES ASSUME IInv, [Next]_allvars PROVE IInv'
  OBVIOUS
<1>1. CASE Run \/ resume
  BY <1>1, StartInv
<1>2. CASE Walk
  BY <1>2, WalkInv
<1>3. CASE Step
  BY <1>3, ResolveInv, ExecuteFailsInv, ExecuteOkInv DEF Step
<1>4. CASE UNCHANGED allvars
  <2>1. UNCHANGED <<def, status, step, attempt, why, variables, pc, current, executed,
                    re_resolves, confirmed, resumes, calls, ok, paused>>
    BY <1>4 DEF allvars, runvars, locals, history
  <2>2. TypeOK'
    BY <2>1 DEF IInv, TypeOK, Steps
  <2>3. PcShape'
    BY <2>1 DEF IInv, PcShape, Steps
  <2>4. OkComplete' /\ FailureOutranksTransitions' /\ OnlyCompleteStepsCommit'
        /\ NothingUnconfirmed'
    BY <2>1 DEF IInv, OkComplete, FailureOutranksTransitions,
                OnlyCompleteStepsCommit, NothingUnconfirmed, Steps
  <2> QED BY <2>2, <2>3, <2>4 DEF IInv
<1> QED BY <1>1, <1>2, <1>3, <1>4 DEF Next

THEOREM Invariance == Spec => []IInv
BY InitInv, StepInv, PTL DEF Spec

(* Every variable keeps its type. *)
THEOREM TypeCorrect == Spec => []TypeOK
<1>1. IInv => TypeOK
  BY DEF IInv
<1> QED BY <1>1, Invariance, PTL

(* INV-WORKFLOW-006: a failed step always means a failed run. *)
THEOREM FailureIsFinal == Spec => []FailureOutranksTransitions
<1>1. IInv => FailureOutranksTransitions
  BY DEF IInv
<1> QED BY <1>1, Invariance, PTL

(* INV-WORKFLOW-008: variables come from Complete steps only. *)
THEOREM CommitSafety == Spec => []OnlyCompleteStepsCommit
<1>1. IInv => OnlyCompleteStepsCommit
  BY DEF IInv
<1> QED BY <1>1, Invariance, PTL

(* No confirmation-gated step executes in a run nobody confirmed. *)
THEOREM ConfirmationSafety == Spec => []NothingUnconfirmed
<1>1. IInv => NothingUnconfirmed
  BY DEF IInv
<1> QED BY <1>1, Invariance, PTL

(* INV-WORKFLOW-009: a step that succeeded is never executed again. *)
THEOREM ReplaySafety == Spec => NoReplay
<1>1. ASSUME IInv, Next, NEW i \in Steps, calls'[i] # calls[i]
      PROVE  i \notin ok
  <2>0. TypeOK
    BY <1>1 DEF IInv
  <2>1. pc = "execute" /\ i = current
    <3>1. CASE \E class \in FailureClass : ExecuteFails(class)
      BY <1>1, <2>0, <3>1 DEF ExecuteFails, TypeOK
    <3>2. CASE \E val \in Value \cup {NotFound} : ExecuteOk(val)
      BY <1>1, <2>0, <3>2 DEF ExecuteOk, TypeOK
    <3>3. CASE Run \/ resume \/ Walk \/ PauseForConfirmation \/ ResolveOk
               \/ \E class \in FailureClass : ResolveFails(class)
      <4>1. calls' = calls
        BY <3>3 DEF Run, resume, Walk, TooManySteps, EndWalk, PassSettled,
           ConditionFalse, ConditionError, EnterStep, PauseForConfirmation,
           ResolveOk, ResolveFails, history
      <4> QED BY <1>1, <4>1
    <3> QED BY <1>1, <3>1, <3>2, <3>3 DEF Next, Step
  <2> QED BY <1>1, <2>1 DEF IInv, PcShape, OkComplete
<1>2. ASSUME IInv, [Next]_allvars
      PROVE  [\A i \in Steps : calls'[i] # calls[i] => i \notin ok]_allvars
  BY <1>1, <1>2
<1> QED BY <1>2, Invariance, PTL DEF Spec, NoReplay
=============================================================================
