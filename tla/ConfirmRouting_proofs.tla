----------------------- MODULE ConfirmRouting_proofs -----------------------
(***************************************************************************)
(* Proofs about ConfirmRouting and the run_agent of AgentLoop it composes,  *)
(* for any number of runs and workflows, any answers of the model and any    *)
(* keys of the user.                                                        *)
(***************************************************************************)
EXTENDS ConfirmRouting, SequenceTheorems, TLAPS

(* Flag leaves no step unflagged that the classifier holds risky. *)
RiskIsFlagged(plan) ==
    \A i \in DOMAIN plan : classify(plan[i]) > 2 => plan[i].flagged

Authorized(s) == needs_gate(s.plan) => s.granted

(* How often step j may have been called: once in each attempt that has come
   to it. *)
Reached(s, j) == s.attempt + (IF j < s.i \/ (j = s.i /\ s.pc # "step") THEN 1 ELSE 0)

Fresh(s) ==
    /\ s.i = 1 /\ s.attempt = 0 /\ ~s.granted
    /\ \A id \in StepIds : s.calls[id] = 0 /\ s.status[id] = "none"

RunOK(s) ==
    /\ s \in RunTypes
    /\ DistinctIds(s.plan)
    /\ s.pc \in {"idle", "spawned", "plan", "llm"} => s.plan = <<>>
    /\ s.pc \in {"idle", "spawned", "plan", "llm", "ask"} => Fresh(s)
    /\ s.pc \in {"step", "exec"} => Authorized(s) /\ s.i \in 1 .. Len(s.plan) + 1
    /\ s.pc = "exec" => s.i <= Len(s.plan)
    /\ (\E id \in StepIds : s.calls[id] > 0) => Authorized(s)
    /\ s.pc \in {"step", "exec"} =>
          /\ \A j \in 1 .. Len(s.plan) : s.calls[s.plan[j].id] <= Reached(s, j)
          /\ \A id \in StepIds : (\A j \in 1 .. Len(s.plan) : s.plan[j].id # id) => s.calls[id] = 0

RunsOK == \A r \in Runs : RunOK(run[r])

(* Only a run that asks has business with the user. *)
SinkAsks == \A r \in Runs : sink[r] # "none" => run[r].pc = "ask"

TokensCounted == \A w \in Workflows : wf[w].tokens <= keys

MemoryTyped == memory \in Seq({"none", "Completed", "Failed", "Cancelled"})

IInv == TypeOK /\ RunsOK /\ SinkAsks /\ TokensCounted /\ MemoryTyped /\ NothingLeftBehind

-----------------------------------------------------------------------------
(* The planning pipeline. *)

LEMMA RiskLevels ==
  ASSUME NEW step
  PROVE  classify(step) \in 0 .. 4 /\ (classify(step) > 2 => requires_approval(classify(step)))
BY DEF classify, requires_approval

(* Flag changes nothing but the flag, and that only for the worse. *)
LEMMA FlagStep ==
  ASSUME NEW x \in PlanStep, NEW b \in BOOLEAN,
         NEW y, y = [x EXCEPT !.flagged = @ \/ b]
  PROVE  /\ y \in PlanStep /\ y.id = x.id /\ y.ref = x.ref
         /\ y.flagged = (x.flagged \/ b)
<1>1. x.flagged \in BOOLEAN /\ (x.flagged \/ b) \in BOOLEAN
  BY DEF PlanStep
<1> QED BY <1>1 DEF PlanStep

LEMMA FlagPlan ==
  ASSUME NEW p \in Seq(PlanStep)
  PROVE  /\ Flag(p) \in Seq(PlanStep) /\ RiskIsFlagged(Flag(p))
         /\ DistinctIds(p) => DistinctIds(Flag(p))
<1>1. Len(p) \in Nat /\ DOMAIN p = 1 .. Len(p) /\ \A i \in DOMAIN p : p[i] \in PlanStep
  BY LenProperties, ElementOfSeq
<1>2. DOMAIN Flag(p) = DOMAIN p
  BY DEF Flag
<1>3. \A i \in DOMAIN p :
        /\ Flag(p)[i] \in PlanStep /\ Flag(p)[i].id = p[i].id /\ Flag(p)[i].ref = p[i].ref
        /\ Flag(p)[i].flagged = (p[i].flagged \/ requires_approval(classify(p[i])))
  <2>1. TAKE i \in DOMAIN p
  <2>2. Flag(p)[i] = [p[i] EXCEPT !.flagged = @ \/ requires_approval(classify(p[i]))]
    BY DEF Flag
  <2>3. requires_approval(classify(p[i])) \in BOOLEAN
    BY DEF requires_approval
  <2>4. p[i] \in PlanStep
    BY <1>1
  <2> QED BY <2>2, <2>3, <2>4, FlagStep
<1>4. Flag(p) \in Seq(PlanStep)
  <2>1. Flag(p) \in [1 .. Len(p) -> PlanStep]
    BY <1>1, <1>2, <1>3 DEF Flag
  <2> QED BY <1>1, <2>1, SeqDef
<1>5. RiskIsFlagged(Flag(p))
  <2>1. SUFFICES ASSUME NEW i \in DOMAIN p, classify(Flag(p)[i]) > 2
                 PROVE  Flag(p)[i].flagged
    BY <1>2 DEF RiskIsFlagged
  <2>2. classify(Flag(p)[i]) = classify(p[i])
    BY <1>3 DEF classify
  <2>3. requires_approval(classify(p[i]))
    BY <2>1, <2>2, RiskLevels
  <2> QED BY <1>3, <2>3
<1>6. DistinctIds(p) => DistinctIds(Flag(p))
  BY <1>2, <1>3 DEF DistinctIds
<1> QED BY <1>4, <1>5, <1>6

LEMMA PlanType ==
  ASSUME NEW s \in RunTypes
  PROVE  /\ s.plan \in Seq(PlanStep) /\ RiskIsFlagged(s.plan)
         /\ Len(s.plan) \in Nat /\ DOMAIN s.plan = 1 .. Len(s.plan)
         /\ \A j \in 1 .. Len(s.plan) : s.plan[j].id \in StepIds
<1>1. s.plan \in {<<>>} \cup {Flag(o.plan) : o \in LlmOutputs \ {NoAnswer, NotJson}}
  BY DEF RunTypes
<1>2. CASE s.plan = <<>>
  <2>1. s.plan \in Seq(PlanStep) /\ Len(s.plan) = 0
    BY <1>2, EmptySeq
  <2>2. DOMAIN s.plan = {}
    BY <2>1, LenProperties
  <2> QED BY <2>1, <2>2 DEF RiskIsFlagged
<1>3. CASE s.plan \in {Flag(o.plan) : o \in LlmOutputs \ {NoAnswer, NotJson}}
  <2>1. PICK o \in LlmOutputs \ {NoAnswer, NotJson} : s.plan = Flag(o.plan)
    BY <1>3
  <2>2. s.plan \in Seq(PlanStep) /\ RiskIsFlagged(s.plan)
    BY <2>1, FlagPlan, AgentAssumption
  <2>3. \A j \in 1 .. Len(s.plan) : s.plan[j] \in PlanStep
    BY <2>2, ElementOfSeq
  <2>4. \A x \in PlanStep : x.id \in StepIds
    BY DEF PlanStep
  <2> QED BY <2>2, <2>3, <2>4, LenProperties
<1> QED BY <1>1, <1>2, <1>3

(* What the pipeline proposes is flagged and has no step twice. *)
LEMMA Proposal ==
  ASSUME NEW goal, NEW raw \in LlmOutputs, run_pipeline(goal, raw).kind = "proposal"
  PROVE  LET plan == run_pipeline(goal, raw).plan
         IN  /\ plan \in {Flag(o.plan) : o \in LlmOutputs \ {NoAnswer, NotJson}}
             /\ DistinctIds(plan)
<1>1. /\ raw # NoAnswer /\ validate_llm_output(raw)
      /\ run_pipeline(goal, raw) = [kind |-> "proposal", plan |-> Flag(raw.plan)]
  BY DEF run_pipeline, Clarify, PlanFail
<1>2. raw # NotJson /\ DistinctIds(raw.plan)
  BY <1>1 DEF validate_llm_output, validate_proposal
<1>3. raw \in LlmOutputs \ {NoAnswer, NotJson} /\ raw.plan \in Seq(PlanStep)
  BY <1>1, <1>2, AgentAssumption
<1>4. run_pipeline(goal, raw).plan = Flag(raw.plan)
  BY <1>1
<1> QED BY <1>2, <1>3, <1>4, FlagPlan

-----------------------------------------------------------------------------
(* The session and the loop. *)

(* t is s in another state of the session: the locals of the loop agree. *)
Alike(s, t) ==
    /\ t \in RunTypes /\ t.pc = s.pc /\ t.goal = s.goal /\ t.plan = s.plan /\ t.i = s.i
    /\ t.status = s.status /\ t.attempt = s.attempt /\ t.stop = s.stop
    /\ t.granted = s.granted /\ t.calls = s.calls

LEMMA MaxTurnsType == max_turns \in Nat \ {0}
BY AgentAssumption DEF max_turns

LEMMA TransitionShape ==
  ASSUME NEW s \in RunTypes, NEW to \in Statuses, NEW consumes_turn \in BOOLEAN
  PROVE  Alike(s, transition(s, to, consumes_turn))
<1>1. CASE ~CanTransition(s, to, consumes_turn)
  BY <1>1 DEF transition, Alike
<1>2. CASE CanTransition(s, to, consumes_turn)
  <2> DEFINE n == s.turns + (IF consumes_turn THEN 1 ELSE 0)
             t == [s EXCEPT !.state = to, !.turns = n]
  <2>1. transition(s, to, consumes_turn) = t
    BY <1>2 DEF transition
  <2>2. s.turns \in 0 .. max_turns
    BY DEF RunTypes
  <2>3. n \in 0 .. max_turns
    BY <1>2, <2>2, MaxTurnsType DEF CanTransition
  <2> HIDE DEF n
  <2>4. t \in RunTypes
    BY <2>3 DEF RunTypes
  <2>5. Alike(s, t)
    BY <2>4 DEF Alike, RunTypes
  <2> QED BY <2>1, <2>5
<1> QED BY <1>1, <1>2

(* Nothing that succeeded, or whose effect is unsettled, is called again. *)
Frozen(s, t) ==
    \A id \in StepIds : s.status[id] \in {"Succeeded", "Unknown"} => t.calls[id] = s.calls[id]

LEMMA RunFields ==
  ASSUME NEW s \in RunTypes
  PROVE  /\ s.i \in Nat /\ s.attempt \in 0 .. 1 /\ s.granted \in BOOLEAN
         /\ s.calls \in [StepIds -> 0 .. 2] /\ s.status \in [StepIds -> StepStatuses]
         /\ s.turns \in 0 .. max_turns
         /\ s.pc \in {"idle", "spawned", "plan", "llm", "ask", "step", "exec", "stopped", "ended"}
         /\ s.stop \in {"none", "Completed", "Failed", "Cancelled"}
BY DEF RunTypes

LEMMA StopOK ==
  ASSUME NEW s, RunOK(s), NEW result \in {"Completed", "Failed", "Cancelled"}
  PROVE  /\ RunOK(Stop(s, result)) /\ Frozen(s, Stop(s, result))
         /\ Stop(s, result).pc = "stopped" /\ Stop(s, result).calls = s.calls
<1> DEFINE u == transition(s, result, FALSE)
           t == [u EXCEPT !.pc = "stopped", !.stop = result]
<1>1. s \in RunTypes /\ Alike(s, u)
  BY TransitionShape DEF RunOK, Statuses
<1>2. Stop(s, result) = t
  BY DEF Stop
<1> HIDE DEF u
<1>3. /\ t \in RunTypes /\ t.pc = "stopped" /\ t.plan = s.plan /\ t.granted = s.granted
      /\ t.calls = s.calls
  BY <1>1 DEF Alike, RunTypes
<1> HIDE DEF t
<1>4. RunOK(t) /\ Frozen(s, t)
  BY <1>3 DEF RunOK, Authorized, Frozen
<1> QED BY <1>2, <1>3, <1>4

(* The loop comes to its first step, with a plan that nobody had to approve or
   that somebody did. *)
LEMMA ExecuteOK ==
  ASSUME NEW s, RunOK(s), Fresh(s), NEW plan, DistinctIds(plan),
         plan \in {Flag(o.plan) : o \in LlmOutputs \ {NoAnswer, NotJson}},
         NEW t, \/ ~needs_gate(plan) /\ t = Execute(s, plan)
                \/ t = [Execute(s, plan) EXCEPT !.granted = TRUE]
  PROVE  RunOK(t) /\ Frozen(s, t) /\ t.pc = "step"
<1> DEFINE u == transition(s, "Executing", TRUE)
           v == [u EXCEPT !.pc = "step", !.plan = plan]
<1>1. s \in RunTypes /\ Alike(s, u)
  BY TransitionShape DEF RunOK, Statuses
<1>2. (~needs_gate(plan) /\ t = v) \/ t = [v EXCEPT !.granted = TRUE]
  BY DEF Execute
<1> HIDE DEF u
<1>3. /\ t \in RunTypes /\ t.pc = "step" /\ t.plan = plan /\ (needs_gate(plan) => t.granted)
      /\ t.calls = s.calls /\ t.i = s.i /\ t.attempt = s.attempt
  <2>1. /\ v \in RunTypes /\ v.pc = "step" /\ v.plan = plan /\ v.calls = s.calls
        /\ v.i = s.i /\ v.attempt = s.attempt
    BY <1>1 DEF Alike, RunTypes
  <2> HIDE DEF v
  <2>2. CASE ~needs_gate(plan) /\ t = v
    BY <2>1, <2>2
  <2>3. CASE t = [v EXCEPT !.granted = TRUE]
    BY <2>1, <2>3 DEF RunTypes
  <2> QED BY <1>2, <2>2, <2>3
<1>4. /\ Authorized(t) /\ t.i = 1 /\ t.attempt = 0 /\ \A id \in StepIds : t.calls[id] = 0
  BY <1>3 DEF Authorized, Fresh
<1>5. Len(t.plan) \in Nat /\ \A j \in 1 .. Len(t.plan) : t.plan[j].id \in StepIds
  BY <1>3, PlanType
<1>6. RunOK(t)
  BY <1>3, <1>4, <1>5 DEF RunOK, Reached
<1> QED BY <1>3, <1>6 DEF Frozen

LEMMA ObserveOK ==
  ASSUME NEW s, RunOK(s), s.pc = "spawned"
  PROVE  RunOK(Observe(s)) /\ Frozen(s, Observe(s)) /\ Observe(s).pc \in {"plan", "stopped"}
<1> DEFINE u == transition(transition(s, "Observing", TRUE), "Planning", FALSE)
           v == transition(s, "BudgetExhausted", FALSE)
<1>0. s \in RunTypes /\ Fresh(s) /\ s.plan = <<>>
  BY DEF RunOK
<1>1. Alike(s, transition(s, "Observing", TRUE))
  BY <1>0, TransitionShape DEF Statuses
<1>2. Alike(s, u)
  <2>1. Alike(transition(s, "Observing", TRUE), u)
    BY <1>1, TransitionShape DEF Statuses, Alike
  <2> QED BY <1>1, <2>1 DEF Alike
<1>3. Alike(s, v)
  BY <1>0, TransitionShape DEF Statuses
<1> HIDE DEF u, v
<1>4. \/ Observe(s) = [u EXCEPT !.pc = "plan"]
      \/ Observe(s) = [v EXCEPT !.pc = "stopped", !.stop = "Failed"]
  BY DEF Observe, u, v
<1>5. /\ Observe(s) \in RunTypes /\ Observe(s).pc \in {"plan", "stopped"}
      /\ Observe(s).plan = s.plan /\ Observe(s).granted = s.granted /\ Observe(s).i = s.i
      /\ Observe(s).calls = s.calls /\ Observe(s).status = s.status /\ Observe(s).attempt = s.attempt
  <2>1. CASE Observe(s) = [u EXCEPT !.pc = "plan"]
    <3>1. Observe(s) \in RunTypes /\ Observe(s).pc = "plan"
      BY <2>1, <1>2 DEF Alike, RunTypes
    <3>2. /\ Observe(s).plan = s.plan /\ Observe(s).granted = s.granted /\ Observe(s).i = s.i
          /\ Observe(s).calls = s.calls /\ Observe(s).status = s.status
          /\ Observe(s).attempt = s.attempt
      BY <2>1, <1>2 DEF Alike, RunTypes
    <3> QED BY <3>1, <3>2
  <2>2. CASE Observe(s) = [v EXCEPT !.pc = "stopped", !.stop = "Failed"]
    <3>1. Observe(s) \in RunTypes /\ Observe(s).pc = "stopped"
      BY <2>2, <1>3 DEF Alike, RunTypes
    <3>2. /\ Observe(s).plan = s.plan /\ Observe(s).granted = s.granted /\ Observe(s).i = s.i
          /\ Observe(s).calls = s.calls /\ Observe(s).status = s.status
          /\ Observe(s).attempt = s.attempt
      BY <2>2, <1>3 DEF Alike, RunTypes
    <3> QED BY <3>1, <3>2
  <2> QED BY <1>4, <2>1, <2>2
<1> QED BY <1>0, <1>5 DEF RunOK, Fresh, Authorized, Frozen

LEMMA PlannedOK ==
  ASSUME NEW s, RunOK(s), s.pc = "llm", NEW raw \in LlmOutputs
  PROVE  LET t == Planned(s, run_pipeline(s.goal, raw))
         IN  RunOK(t) /\ Frozen(s, t) /\ t.pc # "ended"
<1> DEFINE outcome == run_pipeline(s.goal, raw)
           t == Planned(s, outcome)
<1>0. s \in RunTypes /\ Fresh(s)
  BY DEF RunOK
<1>1. CASE outcome.kind # "proposal"
  <2>1. outcome \in {Clarify, PlanFail}
    BY <1>1 DEF run_pipeline
  <2>2. ~needs_gate(outcome.plan)
    BY <2>1 DEF needs_gate, Clarify, PlanFail
  <2> HIDE DEF outcome
  <2>3. t = Stop(s, "Failed")
    BY <1>1, <2>2 DEF Planned
  <2> QED BY <2>3, StopOK DEF outcome
<1>2. CASE outcome.kind = "proposal" /\ needs_gate(outcome.plan)
  <2>1. t = [s EXCEPT !.pc = "ask", !.plan = outcome.plan]
    BY <1>2 DEF Planned
  <2>2. /\ outcome.plan \in {Flag(o.plan) : o \in LlmOutputs \ {NoAnswer, NotJson}}
        /\ DistinctIds(outcome.plan)
    BY <1>2, Proposal
  <2> HIDE DEF outcome
  <2>3. /\ t \in RunTypes /\ t.pc = "ask" /\ t.plan = outcome.plan /\ t.granted = s.granted
        /\ t.calls = s.calls /\ t.i = s.i /\ t.attempt = s.attempt /\ t.status = s.status
    BY <1>0, <2>1, <2>2 DEF RunTypes
  <2>4. Fresh(t)
    BY <1>0, <2>3 DEF Fresh
  <2> HIDE DEF t
  <2>5. RunOK(t)
    BY <2>2, <2>3, <2>4 DEF RunOK, Fresh
  <2>6. Frozen(s, t)
    BY <2>3 DEF Frozen
  <2> QED BY <2>3, <2>5, <2>6 DEF t, outcome
<1>3. CASE outcome.kind = "proposal" /\ ~needs_gate(outcome.plan)
  <2>1. t = Execute(s, outcome.plan)
    BY <1>3 DEF Planned
  <2> QED BY <1>0, <1>3, <2>1, Proposal, ExecuteOK
<1> QED BY <1>1, <1>2, <1>3

LEMMA NextStepOK ==
  ASSUME NEW s, RunOK(s), s.pc = "step", NEW flag
  PROVE  /\ RunOK(NextStep(s, flag)) /\ Frozen(s, NextStep(s, flag))
         /\ NextStep(s, flag).pc # "ended"
<1> DEFINE id == s.plan[s.i].id
<1>0. /\ s \in RunTypes /\ s.i \in 1 .. Len(s.plan) + 1 /\ Authorized(s) /\ Len(s.plan) \in Nat
      /\ \A j \in 1 .. Len(s.plan) : s.plan[j].id \in StepIds
      /\ s.attempt \in 0 .. 1 /\ s.calls \in [StepIds -> 0 .. 2]
  BY PlanType, RunFields DEF RunOK
<1>1. CASE s.i > Len(s.plan) \/ flag
  <2>1. NextStep(s, flag) \in {Stop(s, "Completed"), Stop(s, "Cancelled")}
    BY <1>1 DEF NextStep
  <2> QED BY <2>1, StopOK
<1>2. CASE ~(s.i > Len(s.plan)) /\ ~flag /\ Settled(s, id)
  <2> DEFINE t == [s EXCEPT !.i = @ + 1]
  <2>1. NextStep(s, flag) = t
    BY <1>2 DEF NextStep
  <2>2. /\ t \in RunTypes /\ t.i = s.i + 1 /\ t.pc = "step" /\ t.plan = s.plan
        /\ t.granted = s.granted /\ t.calls = s.calls /\ t.attempt = s.attempt
    BY <1>0 DEF RunTypes
  <2> HIDE DEF t
  <2>3. \A j \in 1 .. Len(s.plan) : s.calls[s.plan[j].id] <= Reached(t, j)
    <3>1. TAKE j \in 1 .. Len(s.plan)
    <3>2. s.calls[s.plan[j].id] <= Reached(s, j)
      BY DEF RunOK
    <3>3. Reached(s, j) <= Reached(t, j) /\ Reached(s, j) \in Nat /\ Reached(t, j) \in Nat
      BY <1>0, <2>2 DEF Reached
    <3>4. s.calls[s.plan[j].id] \in 0 .. 2
      BY <1>0
    <3> QED BY <3>2, <3>3, <3>4
  <2>4. t.i \in 1 .. Len(t.plan) + 1
    BY <1>0, <1>2, <2>2
  <2>5. RunOK(t)
    BY <1>0, <2>2, <2>3, <2>4 DEF RunOK, Authorized
  <2> QED BY <2>1, <2>2, <2>5 DEF Frozen
<1>3. CASE ~(s.i > Len(s.plan)) /\ ~flag /\ ~Settled(s, id)
  <2> DEFINE t == [s EXCEPT !.pc = "exec", !.calls[id] = @ + 1]
  <2>1. NextStep(s, flag) = t
    BY <1>3 DEF NextStep
  <2>2. s.i \in 1 .. Len(s.plan) /\ id \in StepIds
    BY <1>0, <1>3
  <2>3. s.calls[id] <= s.attempt
    BY <1>0, <2>2 DEF RunOK, Reached
  <2>4. [s.calls EXCEPT ![id] = @ + 1] \in [StepIds -> 0 .. 2]
    BY <1>0, <2>2, <2>3
  <2>5. /\ t \in RunTypes /\ t.i = s.i /\ t.pc = "exec" /\ t.plan = s.plan
        /\ t.granted = s.granted /\ t.attempt = s.attempt /\ t.status = s.status
        /\ t.calls = [s.calls EXCEPT ![id] = @ + 1]
    BY <1>0, <2>4 DEF RunTypes
  <2> HIDE DEF t, id
  <2>6. /\ t.calls[id] = s.calls[id] + 1
        /\ \A x \in StepIds : x # id => t.calls[x] = s.calls[x]
    BY <1>0, <2>2, <2>5
  <2>7. \A j \in 1 .. Len(s.plan) : t.calls[s.plan[j].id] <= Reached(t, j)
    <3>1. TAKE j \in 1 .. Len(s.plan)
    <3>2. s.calls[s.plan[j].id] <= Reached(s, j) /\ s.calls[s.plan[j].id] \in 0 .. 2
      BY <1>0 DEF RunOK
    <3>3. CASE j = s.i
      BY <1>0, <2>2, <2>3, <2>5, <2>6, <3>2, <3>3 DEF Reached, id
    <3>4. CASE j # s.i
      <4>1. s.plan[j].id # id
        BY <1>0, <2>2, <3>4, PlanType DEF RunOK, DistinctIds, id
      <4>2. Reached(t, j) = Reached(s, j)
        BY <2>5, <3>4 DEF Reached
      <4> QED BY <1>0, <2>6, <3>2, <4>1, <4>2
    <3> QED BY <3>3, <3>4
  <2>8. \A x \in StepIds : (\A j \in 1 .. Len(s.plan) : s.plan[j].id # x) => t.calls[x] = 0
    BY <2>2, <2>6 DEF RunOK, id
  <2>9. RunOK(t)
    BY <1>0, <2>2, <2>5, <2>7, <2>8 DEF RunOK, Authorized
  <2>10. Frozen(s, t)
    BY <1>3, <2>6 DEF Frozen, Settled, id
  <2> QED BY <2>1, <2>5, <2>9, <2>10
<1> QED BY <1>1, <1>2, <1>3

LEMMA StepSucceedsOK ==
  ASSUME NEW s, RunOK(s), s.pc = "exec"
  PROVE  /\ RunOK(StepSucceeds(s)) /\ Frozen(s, StepSucceeds(s))
         /\ StepSucceeds(s).pc # "ended"
<1> DEFINE id == s.plan[s.i].id
           status == [s.status EXCEPT ![id] = "Succeeded"]
           t == [s EXCEPT !.status = status, !.i = @ + 1, !.pc = "step"]
<1>0. /\ s \in RunTypes /\ s.i \in 1 .. Len(s.plan) /\ Authorized(s) /\ Len(s.plan) \in Nat
      /\ s.attempt \in 0 .. 1 /\ s.calls \in [StepIds -> 0 .. 2] /\ id \in StepIds
      /\ s.status \in [StepIds -> StepStatuses]
  BY PlanType, RunFields DEF RunOK
<1>1. status \in [StepIds -> StepStatuses]
  BY <1>0 DEF StepStatuses
<1>9. StepSucceeds(s) = t
  BY DEF StepSucceeds
<1> HIDE DEF status, id
<1>2. /\ t \in RunTypes /\ t.i = s.i + 1 /\ t.pc = "step" /\ t.plan = s.plan
      /\ t.granted = s.granted /\ t.calls = s.calls /\ t.attempt = s.attempt
  <2>1. s \in RunTypes /\ s.i + 1 \in Nat
    BY <1>0
  <2>2. t \in RunTypes
    BY <1>1, <2>1 DEF RunTypes
  <2> QED BY <2>1, <2>2 DEF RunTypes
<1> HIDE DEF t
<1>3. \A j \in 1 .. Len(s.plan) : Reached(t, j) = Reached(s, j)
  BY <1>0, <1>2 DEF Reached
<1>4. RunOK(t)
  BY <1>0, <1>2, <1>3 DEF RunOK, Authorized
<1> QED BY <1>2, <1>4, <1>9 DEF Frozen

LEMMA ReplanOK ==
  ASSUME NEW s, RunOK(s), s.pc = "exec", s.attempt = 0
  PROVE  RunOK(Replan(s)) /\ Replan(s).calls = s.calls /\ Replan(s).pc = "step"
<1> DEFINE a == transition(s, "Replanning", FALSE)
           b == transition(a, "Planning", TRUE)
           c == transition(b, "Executing", FALSE)
           t == [c EXCEPT !.attempt = 1, !.i = 1, !.pc = "step"]
<1>0. /\ s \in RunTypes /\ s.i \in 1 .. Len(s.plan) /\ Authorized(s) /\ Len(s.plan) \in Nat
      /\ s.calls \in [StepIds -> 0 .. 2] /\ \A j \in 1 .. Len(s.plan) : s.plan[j].id \in StepIds
  BY PlanType, RunFields DEF RunOK
<1>1. Replan(s) = t
  BY DEF Replan
<1>2. Alike(s, a)
  BY <1>0, TransitionShape DEF Statuses
<1>3. Alike(a, b)
  BY <1>2, TransitionShape DEF Statuses, Alike
<1>4. Alike(b, c)
  BY <1>3, TransitionShape DEF Statuses, Alike
<1> HIDE DEF a, b, c
<1>5. Alike(s, c)
  BY <1>2, <1>3, <1>4 DEF Alike
<1>6. /\ t \in RunTypes /\ t.i = 1 /\ t.pc = "step" /\ t.plan = s.plan
      /\ t.granted = s.granted /\ t.calls = s.calls /\ t.attempt = 1
  <2>1. c \in RunTypes /\ 1 \in Nat /\ 1 \in 0 .. 1
    BY <1>5 DEF Alike
  <2>2. t \in RunTypes
    BY <2>1 DEF RunTypes
  <2>3. c.plan = s.plan /\ c.granted = s.granted /\ c.calls = s.calls
    BY <1>5 DEF Alike
  <2> QED BY <2>1, <2>2, <2>3 DEF RunTypes
<1> HIDE DEF t
<1>7. \A j \in 1 .. Len(s.plan) : s.calls[s.plan[j].id] <= Reached(t, j)
  <2>1. TAKE j \in 1 .. Len(s.plan)
  <2>2. s.calls[s.plan[j].id] <= Reached(s, j) /\ s.calls[s.plan[j].id] \in 0 .. 2
    BY <1>0 DEF RunOK
  <2>3. Reached(s, j) <= 1 /\ Reached(s, j) \in Nat /\ Reached(t, j) = 1
    BY <1>0, <1>6 DEF Reached
  <2> QED BY <2>2, <2>3
<1>8. RunOK(t)
  BY <1>0, <1>6, <1>7 DEF RunOK, Authorized
<1> QED BY <1>1, <1>6, <1>8

LEMMA StepFailsOK ==
  ASSUME NEW s, RunOK(s), s.pc = "exec", NEW unknown \in BOOLEAN
  PROVE  /\ RunOK(StepFails(s, unknown)) /\ Frozen(s, StepFails(s, unknown))
         /\ StepFails(s, unknown).pc # "ended"
<1> DEFINE id == s.plan[s.i].id
           t == [s EXCEPT !.status[id] = IF unknown THEN "Unknown" ELSE "Failed"]
<1>0. /\ s \in RunTypes /\ s.i \in 1 .. Len(s.plan) /\ id \in StepIds
      /\ s.status \in [StepIds -> StepStatuses] /\ s.attempt \in 0 .. 1
  BY PlanType, RunFields DEF RunOK
<1>1. [s.status EXCEPT ![id] = IF unknown THEN "Unknown" ELSE "Failed"]
        \in [StepIds -> StepStatuses]
  BY <1>0 DEF StepStatuses
<1>2. /\ t \in RunTypes /\ t.i = s.i /\ t.pc = s.pc /\ t.plan = s.plan
      /\ t.granted = s.granted /\ t.calls = s.calls /\ t.attempt = s.attempt
  BY <1>0, <1>1 DEF RunTypes
<1>3. StepFails(s, unknown) = IF unknown \/ s.attempt > 0 THEN Stop(t, "Failed") ELSE Replan(t)
  BY DEF StepFails
<1> HIDE DEF t, id
<1>4. RunOK(t)
  BY <1>2 DEF RunOK, Authorized, Reached
<1>5. /\ RunOK(Stop(t, "Failed")) /\ Stop(t, "Failed").calls = s.calls
      /\ Stop(t, "Failed").pc = "stopped"
  BY <1>2, <1>4, StopOK
<1>6. s.attempt = 0 => RunOK(Replan(t)) /\ Replan(t).calls = s.calls /\ Replan(t).pc = "step"
  BY <1>2, <1>4, ReplanOK
<1> QED BY <1>0, <1>3, <1>5, <1>6 DEF Frozen

(* What a person approves is what was shown: the plan that goes on is the plan
   that asked. *)
LEMMA AnsweredOK ==
  ASSUME NEW s, RunOK(s), s.pc = "ask", NEW decision, decision.kind \in {"approve", "none"},
         NEW late \in BOOLEAN
  PROVE  LET t == Answered(s, decision, late)
         IN  RunOK(t) /\ Frozen(s, t) /\ t.pc \in {"step", "stopped"}
<1> DEFINE steps == decide(s.plan, decision, late)
<1>1. steps \in {s.plan, NoPlan}
  BY DEF decide
<1>2. Answered(s, decision, late) = IF steps = NoPlan THEN Stop(s, "Cancelled")
                                    ELSE [Execute(s, steps) EXCEPT !.granted = TRUE]
  BY DEF Answered
<1> HIDE DEF steps
<1>3. CASE steps = NoPlan
  BY <1>2, <1>3, StopOK
<1>4. CASE steps # NoPlan
  <2>1. /\ steps = s.plan /\ DistinctIds(s.plan) /\ Fresh(s)
        /\ s.plan \in {Flag(o.plan) : o \in LlmOutputs \ {NoAnswer, NotJson}}
    BY <1>1, <1>4 DEF RunOK, RunTypes, NoPlan
  <2>2. Answered(s, decision, late) = [Execute(s, s.plan) EXCEPT !.granted = TRUE]
    BY <1>2, <1>4, <2>1
  <2> HIDE DEF steps
  <2>3. ASSUME NEW t, t = [Execute(s, s.plan) EXCEPT !.granted = TRUE]
        PROVE  RunOK(t) /\ Frozen(s, t) /\ t.pc = "step"
    BY <2>1, <2>3, ExecuteOK
  <2> QED BY <2>2, <2>3
<1> QED BY <1>3, <1>4

LEMMA IdleOK ==
  ASSUME NEW g \in Goals
  PROVE  /\ RunOK(Idle(g)) /\ Idle(g).pc = "idle"
         /\ RunOK([Idle(g) EXCEPT !.pc = "spawned"])
         /\ [Idle(g) EXCEPT !.pc = "spawned"].pc = "spawned"
<1> DEFINE t == [Idle(g) EXCEPT !.pc = "spawned"]
<1>1. /\ Idle(g) \in RunTypes /\ Idle(g).pc = "idle" /\ Idle(g).plan = <<>>
      /\ Fresh(Idle(g))
  BY MaxTurnsType DEF Idle, RunTypes, Statuses, StepStatuses, Fresh
<1>2. t \in RunTypes /\ t.pc = "spawned" /\ t.plan = <<>> /\ Fresh(t)
  BY <1>1 DEF RunTypes, Fresh
<1>3. DistinctIds(<<>>)
  BY DEF DistinctIds
<1> HIDE DEF t
<1>4. RunOK(t) /\ t.pc = "spawned"
  BY <1>2, <1>3 DEF RunOK, Fresh
<1>5. RunOK(Idle(g))
  BY <1>1, <1>3 DEF RunOK, Fresh
<1> QED BY <1>1, <1>4, <1>5 DEF t

-----------------------------------------------------------------------------
(* The steps of the composition. *)

StepFrozen == \A q \in Runs : Frozen(run[q], run'[q])

(* One run moves, whatever else does. *)
LEMMA RunChange ==
  ASSUME TypeOK, RunsOK, NEW r \in Runs, NEW t, RunOK(t), Frozen(run[r], t),
         run' = [run EXCEPT ![r] = t]
  PROVE  /\ run' \in [Runs -> RunTypes] /\ RunsOK' /\ StepFrozen
         /\ run'[r] = t /\ \A q \in Runs \ {r} : run'[q] = run[q]
<1>1. run \in [Runs -> RunTypes] /\ t \in RunTypes
  BY DEF TypeOK, RunOK
<1>2. run'[r] = t /\ \A q \in Runs \ {r} : run'[q] = run[q]
  BY <1>1
<1>3. run' \in [Runs -> RunTypes]
  BY <1>1
<1>4. \A q \in Runs : RunOK(run'[q])
  BY <1>2 DEF RunsOK
<1>5. \A q \in Runs : Frozen(run[q], run'[q])
  BY <1>2 DEF Frozen
<1> QED BY <1>2, <1>3, <1>4, <1>5 DEF RunsOK, StepFrozen

LEMMA RunsStay ==
  ASSUME UNCHANGED run
  PROVE  StepFrozen
BY DEF StepFrozen, Frozen

(* The thread of a run that asks nobody anything moves on. *)
LEMMA AgentMove ==
  ASSUME IInv, NEW r \in Runs, run[r].pc # "ask",
         NEW t, RunOK(t), Frozen(run[r], t), t.pc # "ended", run' = [run EXCEPT ![r] = t],
         UNCHANGED <<slots, cancelled, sink, token, expired, rows, memory, unseen, ui, wf>>
  PROVE  IInv' /\ StepFrozen
<1> USE DEF slots, ui
<1>1. /\ run' \in [Runs -> RunTypes] /\ RunsOK' /\ StepFrozen
      /\ run'[r] = t /\ \A q \in Runs \ {r} : run'[q] = run[q]
  BY RunChange DEF IInv
<1>2. TypeOK'
  BY <1>1 DEF IInv, TypeOK
<1>3. SinkAsks'
  BY <1>1 DEF IInv, SinkAsks
<1>4. NothingLeftBehind'
  BY <1>1 DEF IInv, NothingLeftBehind
<1>5. TokensCounted' /\ MemoryTyped'
  BY DEF IInv, TokensCounted, MemoryTyped
<1> QED BY <1>1, <1>2, <1>3, <1>4, <1>5 DEF IInv

LEMMA BeginRunStep ==
  ASSUME IInv, NEW r \in Runs, BeginRun(r)
  PROVE  IInv' /\ StepFrozen
<1>1. RunOK(run[r]) /\ run[r].pc = "spawned"
  BY DEF IInv, RunsOK, BeginRun
<1>2. run' = [run EXCEPT ![r] = Observe(run[r])]
  BY DEF BeginRun
<1>3. RunOK(Observe(run[r])) /\ Frozen(run[r], Observe(run[r])) /\ Observe(run[r]).pc # "ended"
  BY <1>1, ObserveOK
<1> QED BY <1>1, <1>2, <1>3, AgentMove DEF BeginRun

LEMMA RunLoopStep ==
  ASSUME IInv, NEW r \in Runs, RunLoop(r)
  PROVE  IInv' /\ StepFrozen
<1> DEFINE s == run[r]
<1>1. RunOK(s)
  BY DEF IInv, RunsOK
<1>2. UNCHANGED <<slots, cancelled, sink, token, expired, rows, memory, unseen, ui, wf>>
  BY DEF RunLoop, LoopStep, CheckCancel, PlanReturns, StepTurn, ExecReturns
<1>3. SUFFICES \E t : /\ RunOK(t) /\ Frozen(s, t) /\ t.pc # "ended" /\ s.pc # "ask"
                      /\ run' = [run EXCEPT ![r] = t]
  BY <1>2, AgentMove
<1>4. CASE CheckCancel(r)
  <2> DEFINE t == [s EXCEPT !.pc = "llm"]
  <2>1. s.pc = "plan" /\ run' = [run EXCEPT ![r] = IF r \in cancelled THEN Stop(s, "Cancelled")
                                                    ELSE t]
    BY <1>4 DEF CheckCancel
  <2>2. /\ t \in RunTypes /\ t.pc = "llm" /\ t.plan = s.plan /\ t.granted = s.granted
        /\ t.i = s.i /\ t.attempt = s.attempt /\ t.calls = s.calls /\ t.status = s.status
    BY <1>1 DEF RunOK, RunTypes
  <2> HIDE DEF t
  <2>3. RunOK(t) /\ Frozen(s, t)
    BY <1>1, <2>1, <2>2 DEF RunOK, Fresh, Frozen
  <2>4. RunOK(Stop(s, "Cancelled")) /\ Frozen(s, Stop(s, "Cancelled"))
        /\ Stop(s, "Cancelled").pc = "stopped"
    BY <1>1, StopOK
  <2> QED BY <2>1, <2>2, <2>3, <2>4
<1>5. CASE PlanReturns(r)
  <2>1. PICK raw \in LlmOutputs : run' = [run EXCEPT ![r] = Planned(s, run_pipeline(s.goal, raw))]
    BY <1>5 DEF PlanReturns
  <2>2. s.pc = "llm"
    BY <1>5 DEF PlanReturns
  <2> QED BY <1>1, <2>1, <2>2, PlannedOK
<1>6. CASE StepTurn(r)
  <2>1. s.pc = "step" /\ run' = [run EXCEPT ![r] = NextStep(s, r \in cancelled)]
    BY <1>6 DEF StepTurn
  <2> QED BY <1>1, <2>1, NextStepOK
<1>7. CASE ExecReturns(r)
  <2>1. s.pc = "exec"
    BY <1>7 DEF ExecReturns
  <2>2. \/ run' = [run EXCEPT ![r] = StepSucceeds(s)]
        \/ \E unknown \in BOOLEAN : run' = [run EXCEPT ![r] = StepFails(s, unknown)]
    BY <1>7, AgentAssumption DEF ExecReturns
  <2> QED BY <1>1, <2>1, <2>2, StepSucceedsOK, StepFailsOK
<1> QED BY <1>4, <1>5, <1>6, <1>7 DEF RunLoop, LoopStep

LEMMA StartStep ==
  ASSUME IInv, NEW r \in Runs, start_agent_run(r)
  PROVE  IInv' /\ StepFrozen
<1> USE DEF slots, ui
<1>1. PICK g \in Goals : run' = [run EXCEPT ![r] = [Idle(g) EXCEPT !.pc = "spawned"]]
  BY DEF start_agent_run
<1> DEFINE t == [Idle(g) EXCEPT !.pc = "spawned"]
<1>2. RunOK(t) /\ t.pc = "spawned"
  BY IdleOK
<1> HIDE DEF t
<1>3. RunOK(run[r]) /\ run[r].pc = "idle"
  BY DEF IInv, RunsOK, start_agent_run
<1>4. Frozen(run[r], t)
  BY <1>3 DEF RunOK, Fresh, Frozen
<1>5. /\ run' \in [Runs -> RunTypes] /\ RunsOK' /\ StepFrozen
      /\ run'[r] = t /\ \A q \in Runs \ {r} : run'[q] = run[q]
  BY <1>1, <1>2, <1>4, RunChange DEF IInv, t
<1>6. uiq' \in Seq(Closures)
  BY AppendProperties DEF IInv, TypeOK, start_agent_run, Closures
<1>7. TypeOK'
  BY <1>5, <1>6 DEF IInv, TypeOK, start_agent_run
<1>8. SinkAsks'
  BY <1>3, <1>5 DEF IInv, SinkAsks, start_agent_run
<1>9. NothingLeftBehind'
  BY <1>2, <1>5 DEF IInv, NothingLeftBehind, start_agent_run
<1>10. TokensCounted' /\ MemoryTyped'
  BY DEF IInv, TokensCounted, MemoryTyped, start_agent_run
<1> QED BY <1>5, <1>7, <1>8, <1>9, <1>10 DEF IInv

(* What the sink does until it is answered leaves the runs alone. *)
LEMMA SinkStep ==
  ASSUME IInv, NEW r \in Runs, ShowPlan(r) \/ RegisterSender(r) \/ Expire(r)
  PROVE  IInv' /\ StepFrozen
<1> USE DEF slots, ui
<1>1. UNCHANGED <<run, cancelled, token, rows, memory, unseen, cancelSlot, confirmSlot, screen, shown,
                  keys, cast, wf>>
  BY DEF ShowPlan, RegisterSender, Expire
<1>2. StepFrozen /\ RunsOK' /\ TokensCounted' /\ MemoryTyped'
  BY <1>1, RunsStay DEF IInv, RunsOK, TokensCounted, MemoryTyped
<1>3. CASE ShowPlan(r)
  <2>1. uiq' \in Seq(Closures)
    BY <1>3, AppendProperties DEF IInv, TypeOK, ShowPlan, Closures
  <2>2. TypeOK'
    BY <1>1, <1>3, <2>1 DEF IInv, TypeOK, ShowPlan
  <2>3. SinkAsks' /\ NothingLeftBehind'
    BY <1>1, <1>3 DEF IInv, TypeOK, ShowPlan, SinkAsks, NothingLeftBehind
  <2> QED BY <1>2, <2>2, <2>3 DEF IInv
<1>4. CASE RegisterSender(r)
  <2>1. TypeOK'
    BY <1>1, <1>4 DEF IInv, TypeOK, RegisterSender
  <2>2. SinkAsks' /\ NothingLeftBehind'
    BY <1>1, <1>4 DEF IInv, TypeOK, RegisterSender, SinkAsks, NothingLeftBehind
  <2> QED BY <1>2, <2>1, <2>2 DEF IInv
<1>5. CASE Expire(r)
  <2>1. TypeOK'
    BY <1>1, <1>5 DEF IInv, TypeOK, Expire
  <2>2. SinkAsks' /\ NothingLeftBehind'
    BY <1>1, <1>5 DEF IInv, Expire, SinkAsks, NothingLeftBehind
  <2> QED BY <1>2, <2>1, <2>2 DEF IInv
<1> QED BY <1>3, <1>4, <1>5

LEMMA AnswerStep ==
  ASSUME IInv, NEW r \in Runs, request_approval(r)
  PROVE  IInv' /\ StepFrozen
<1> USE DEF slots, ui
<1> DEFINE decision == Decision(r)
           late == r \in expired
           t == Answered(run[r], decision, late)
<1>1. RunOK(run[r]) /\ run[r].pc = "ask"
  BY DEF IInv, RunsOK, SinkAsks, request_approval
<1>2. decision.kind \in {"approve", "none"} /\ late \in BOOLEAN
  BY DEF Decision
<1>3. run' = [run EXCEPT ![r] = t]
  BY DEF request_approval
<1> HIDE DEF decision, late
<1>4. RunOK(t) /\ Frozen(run[r], t) /\ t.pc \in {"step", "stopped"}
  BY <1>1, <1>2, AnsweredOK
<1> HIDE DEF t
<1>5. /\ run' \in [Runs -> RunTypes] /\ RunsOK' /\ StepFrozen
      /\ run'[r] = t /\ \A q \in Runs \ {r} : run'[q] = run[q]
  BY <1>4, <1>3, RunChange DEF IInv
<1>6. /\ sink' = [sink EXCEPT ![r] = "none"] /\ token' = token \ {r} /\ approvalSlot' = None
      /\ UNCHANGED <<cancelSlot, confirmSlot, cancelled, expired, rows, memory, unseen, ui, wf>>
  BY DEF request_approval
<1>7. TypeOK'
  BY <1>5, <1>6 DEF IInv, TypeOK
<1>8. SinkAsks' /\ NothingLeftBehind'
  BY <1>4, <1>5, <1>6 DEF IInv, TypeOK, SinkAsks, NothingLeftBehind
<1>9. TokensCounted' /\ MemoryTyped'
  BY <1>6 DEF IInv, TokensCounted, MemoryTyped
<1> QED BY <1>5, <1>7, <1>8, <1>9 DEF IInv

LEMMA RecordType ==
  ASSUME NEW S, NEW mem \in Seq(S), Len(mem) <= RunMemoryCap, NEW entry \in S
  PROVE  Record(mem, entry) \in Seq(S) /\ Len(Record(mem, entry)) <= RunMemoryCap
<1> DEFINE kept == IF Len(mem) >= RunMemoryCap THEN Tail(mem) ELSE mem
<1>1. kept \in Seq(S) /\ Len(kept) \in Nat /\ Len(kept) + 1 <= RunMemoryCap
  <2>1. Len(mem) \in Nat /\ RunMemoryCap \in Nat \ {0}
    BY RoutingAssumption, LenProperties
  <2>2. CASE Len(mem) >= RunMemoryCap
    <3>1. mem # <<>>
      BY <2>1, <2>2, EmptySeq
    <3> QED BY <2>1, <2>2, <3>1, HeadTailProperties
  <2> QED BY <2>1, <2>2
<1>2. Record(mem, entry) = Append(kept, entry)
  BY DEF Record
<1> QED BY <1>1, <1>2, AppendProperties

LEMMA FinishStep ==
  ASSUME IInv, NEW r \in Runs, FinishRun(r)
  PROVE  IInv' /\ StepFrozen
<1> USE DEF slots, ui
<1> DEFINE s == run[r]
           t == [s EXCEPT !.pc = "ended"]
<1>1. RunOK(s) /\ s.pc = "stopped" /\ run' = [run EXCEPT ![r] = t]
  BY DEF IInv, RunsOK, FinishRun
<1>2. /\ t \in RunTypes /\ t.pc = "ended" /\ t.plan = s.plan /\ t.granted = s.granted
      /\ t.calls = s.calls
  BY <1>1 DEF RunOK, RunTypes
<1> HIDE DEF t
<1>3. RunOK(t) /\ Frozen(s, t)
  BY <1>1, <1>2 DEF RunOK, Authorized, Frozen
<1>4. /\ run' \in [Runs -> RunTypes] /\ RunsOK' /\ StepFrozen
      /\ run'[r] = t /\ \A q \in Runs \ {r} : run'[q] = run[q]
  BY <1>1, <1>3, RunChange DEF IInv
<1>5. uiq' \in Seq(Closures)
  BY AppendProperties DEF IInv, TypeOK, FinishRun, Closures
<1>6. s.stop \in {"none", "Completed", "Failed", "Cancelled"}
  BY <1>1, RunFields DEF RunOK
<1>7. MemoryTyped' /\ Len(memory') <= RunMemoryCap
  BY <1>6, RecordType DEF IInv, TypeOK, MemoryTyped, FinishRun
<1>8. TypeOK'
  BY <1>4, <1>5, <1>7 DEF IInv, TypeOK, FinishRun
<1>9. SinkAsks'
  BY <1>1, <1>4 DEF IInv, SinkAsks, FinishRun
<1>10. NothingLeftBehind'
  BY <1>4, RoutingAssumption DEF IInv, NothingLeftBehind, FinishRun
<1>11. TokensCounted'
  BY DEF IInv, TokensCounted, FinishRun
<1> QED BY <1>4, <1>7, <1>8, <1>9, <1>10, <1>11 DEF IInv

WorkflowType ==
    [pc : {"idle", "spawned", "running", "paused", "ended"},
     tokens : 0 .. MaxKeys, pauses : 0 .. MaxPauses]

LEMMA WorkflowMove ==
  ASSUME IInv, NEW w \in Workflows, NEW y \in WorkflowType, y.tokens <= wf[w].tokens,
         wf' = [wf EXCEPT ![w] = y], UNCHANGED keys
  PROVE  wf' \in [Workflows -> WorkflowType] /\ TokensCounted'
<1>1. /\ wf \in [Workflows -> WorkflowType] /\ keys \in 0 .. MaxKeys
      /\ \A v \in Workflows : wf[v].tokens <= keys
  BY DEF IInv, TypeOK, WorkflowType, TokensCounted
<1>2. wf'[w] = y /\ \A v \in Workflows \ {w} : wf'[v] = wf[v]
  BY <1>1
<1>3. wf' \in [Workflows -> WorkflowType]
  BY <1>1
<1>4. y.tokens \in 0 .. MaxKeys /\ wf[w].tokens \in 0 .. MaxKeys
  BY <1>1 DEF WorkflowType
<1>5. y.tokens <= keys
  BY <1>1, <1>4, RoutingAssumption
<1>6. \A v \in Workflows : wf'[v].tokens <= keys
  BY <1>1, <1>2, <1>5
<1> QED BY <1>3, <1>6 DEF TokensCounted

LEMMA WorkflowStep ==
  ASSUME IInv, NEW w \in Workflows, start_workflow(w) \/ Workflow(w)
  PROVE  IInv' /\ StepFrozen
<1> USE DEF slots, ui, agent
<1> DEFINE x == wf[w]
<1>1. /\ wf \in [Workflows -> WorkflowType] /\ x \in WorkflowType
      /\ x.tokens \in 0 .. MaxKeys /\ x.pauses \in 0 .. MaxPauses /\ x.tokens <= keys
      /\ keys \in 0 .. MaxKeys
  BY DEF IInv, TypeOK, WorkflowType, TokensCounted
<1>2. UNCHANGED <<agent, approvalSlot, cancelSlot, uiq, keys, cast>>
  BY DEF start_workflow, Workflow, BeginWorkflow, PauseOrEnd, WaitConfirm
<1>3. /\ StepFrozen /\ RunsOK' /\ SinkAsks' /\ MemoryTyped' /\ NothingLeftBehind'
  BY <1>2, RunsStay DEF IInv, RunsOK, SinkAsks, MemoryTyped, NothingLeftBehind
<1>4. wf' \in [Workflows -> WorkflowType] /\ TokensCounted'
  <2>1. CASE start_workflow(w)
    <3> DEFINE y == [x EXCEPT !.pc = "spawned"]
    <3>1. wf' = [wf EXCEPT ![w] = y]
      BY <2>1 DEF start_workflow
    <3>2. y \in WorkflowType /\ y.tokens = x.tokens
      BY <1>1 DEF WorkflowType
    <3> HIDE DEF y
    <3>3. y.tokens <= x.tokens
      BY <1>1, <3>2, RoutingAssumption
    <3> QED BY <1>2, <3>1, <3>2, <3>3, WorkflowMove
  <2>2. CASE BeginWorkflow(w)
    <3> DEFINE y == [x EXCEPT !.pc = "running"]
    <3>1. wf' = [wf EXCEPT ![w] = y]
      BY <2>2 DEF BeginWorkflow
    <3>2. y \in WorkflowType /\ y.tokens = x.tokens
      BY <1>1 DEF WorkflowType
    <3> HIDE DEF y
    <3>3. y.tokens <= x.tokens
      BY <1>1, <3>2, RoutingAssumption
    <3> QED BY <1>2, <3>1, <3>2, <3>3, WorkflowMove
  <2>3. CASE PauseOrEnd(w)
    <3> DEFINE y == [x EXCEPT !.pc = "paused", !.pauses = @ + 1]
               z == [x EXCEPT !.pc = "ended"]
    <3>1. (x.pauses < MaxPauses /\ wf' = [wf EXCEPT ![w] = y]) \/ wf' = [wf EXCEPT ![w] = z]
      BY <1>1, <2>3 DEF PauseOrEnd
    <3>2. x.pauses < MaxPauses => x.pauses + 1 \in 0 .. MaxPauses
      BY <1>1, RoutingAssumption
    <3>3. /\ x.pauses < MaxPauses => y \in WorkflowType /\ y.tokens = x.tokens
          /\ z \in WorkflowType /\ z.tokens = x.tokens
      BY <1>1, <3>2 DEF WorkflowType
    <3> HIDE DEF y, z
    <3> QED BY <1>1, <1>2, <3>1, <3>3, WorkflowMove
  <2>4. CASE WaitConfirm(w)
    <3> DEFINE y == [x EXCEPT !.pc = "running", !.tokens = @ - 1]
               z == [x EXCEPT !.pc = "ended"]
    <3>1. (x.tokens > 0 /\ wf' = [wf EXCEPT ![w] = y]) \/ wf' = [wf EXCEPT ![w] = z]
      BY <1>1, <2>4 DEF WaitConfirm
    <3>2. x.tokens > 0 => x.tokens - 1 \in 0 .. MaxKeys /\ x.tokens - 1 <= x.tokens
      BY <1>1, RoutingAssumption
    <3>3. /\ x.tokens > 0 => y \in WorkflowType /\ y.tokens <= x.tokens
          /\ z \in WorkflowType /\ z.tokens = x.tokens
      BY <1>1, <3>2 DEF WorkflowType
    <3> HIDE DEF y, z
    <3>4. z.tokens <= x.tokens
      BY <1>1, <3>3, RoutingAssumption
    <3> QED BY <1>1, <1>2, <3>1, <3>3, <3>4, WorkflowMove
  <2> QED BY <2>1, <2>2, <2>3, <2>4 DEF Workflow
<1>5. /\ confirmSlot' \in Workflows \cup {None}
      /\ screen' \in {Blank} \cup Closures /\ shown' \in BOOLEAN
  BY DEF IInv, TypeOK, start_workflow, Workflow, BeginWorkflow, PauseOrEnd, WaitConfirm
<1>6. TypeOK'
  BY <1>2, <1>4, <1>5 DEF IInv, TypeOK, WorkflowType
<1> QED BY <1>3, <1>4, <1>6 DEF IInv

(* A key or a closure changes no run: a key only leaves a token, a flag or a
   hidden surface behind. *)
LEMMA UiStep ==
  ASSUME IInv, RunClosure \/ workflow_confirm \/ workflow_dismiss
  PROVE  IInv' /\ StepFrozen
<1> USE DEF slots, ui, agent
<1>1. UNCHANGED <<slots, run, sink, expired, rows, memory, cast>>
  BY DEF RunClosure, workflow_confirm, workflow_dismiss
<1>2. StepFrozen /\ RunsOK' /\ SinkAsks' /\ MemoryTyped' /\ NothingLeftBehind'
  BY <1>1, RunsStay DEF IInv, RunsOK, SinkAsks, MemoryTyped, NothingLeftBehind
<1>3. CASE RunClosure
  <2>1. Head(uiq) \in Closures /\ Tail(uiq) \in Seq(Closures)
    BY <1>3, HeadTailProperties DEF IInv, TypeOK, RunClosure
  <2>2. TypeOK' /\ TokensCounted'
    BY <1>1, <1>3, <2>1 DEF IInv, TypeOK, TokensCounted, RunClosure
  <2> QED BY <1>2, <2>2 DEF IInv
<1>4. CASE workflow_confirm
  <2>1. keys \in 0 .. MaxKeys /\ keys < MaxKeys /\ keys' = keys + 1
    BY <1>4 DEF IInv, TypeOK, workflow_confirm
  <2>2. wf \in [Workflows -> WorkflowType] /\ \A v \in Workflows : wf[v].tokens <= keys
    BY DEF IInv, TypeOK, WorkflowType, TokensCounted
  <2>3. \A v \in Workflows : wf[v].tokens \in 0 .. MaxKeys
    BY <2>2 DEF WorkflowType
  <2>4. /\ wf' \in [Workflows -> WorkflowType]
        /\ \A v \in Workflows : wf'[v].tokens <= keys + 1
    <3>1. CASE UNCHANGED wf
      BY <2>1, <2>2, <2>3, <3>1, RoutingAssumption
    <3>2. CASE /\ confirmSlot # None
               /\ wf' = [wf EXCEPT ![confirmSlot].tokens = @ + 1]
      <4> DEFINE c == confirmSlot
                 y == [wf[c] EXCEPT !.tokens = @ + 1]
      <4>1. c \in Workflows
        BY <3>2 DEF IInv, TypeOK
      <4>2. wf[c].tokens + 1 \in 0 .. MaxKeys /\ wf[c].tokens + 1 <= keys + 1
        BY <2>1, <2>2, <2>3, <4>1, RoutingAssumption
      <4>3. y \in WorkflowType /\ y.tokens = wf[c].tokens + 1
        BY <2>2, <4>1, <4>2 DEF WorkflowType
      <4>4. wf' = [wf EXCEPT ![c] = y]
        BY <2>2, <3>2, <4>1
      <4> HIDE DEF y
      <4>5. wf'[c] = y /\ \A v \in Workflows \ {c} : wf'[v] = wf[v]
        BY <2>2, <4>1, <4>4
      <4>6. wf' \in [Workflows -> WorkflowType]
        BY <2>2, <4>3, <4>4
      <4>7. \A v \in Workflows \ {c} : wf[v].tokens <= keys + 1
        BY <2>1, <2>2, <2>3, RoutingAssumption
      <4> QED BY <4>2, <4>3, <4>5, <4>6, <4>7
    <3> QED BY <1>4, <3>1, <3>2 DEF workflow_confirm
  <2>5. TokensCounted'
    BY <2>1, <2>4 DEF TokensCounted
  <2>6. token' \subseteq Runs /\ unseen' \subseteq Runs
    BY <1>4 DEF IInv, TypeOK, workflow_confirm
  <2>7. keys' \in 0 .. MaxKeys
    BY <2>1, RoutingAssumption
  <2>8. TypeOK'
    BY <1>1, <1>4, <2>4, <2>6, <2>7 DEF IInv, TypeOK, WorkflowType, workflow_confirm
  <2> QED BY <1>2, <2>5, <2>8 DEF IInv
<1>5. CASE workflow_dismiss
  <2>1. keys' \in 0 .. MaxKeys /\ keys' = keys + 1 /\ keys \in 0 .. MaxKeys
    BY <1>5, RoutingAssumption DEF IInv, TypeOK, workflow_dismiss
  <2>2. \A v \in Workflows : wf[v].tokens \in 0 .. MaxKeys /\ wf[v].tokens <= keys
    BY DEF IInv, TypeOK, TokensCounted
  <2>3. TokensCounted'
    BY <1>5, <2>1, <2>2, RoutingAssumption DEF TokensCounted, workflow_dismiss
  <2>4. TypeOK'
    BY <1>1, <1>5, <2>1 DEF IInv, TypeOK, workflow_dismiss
  <2> QED BY <1>2, <2>3, <2>4 DEF IInv
<1> QED BY <1>3, <1>4, <1>5

-----------------------------------------------------------------------------

LEMMA InitInv == Init => IInv
<1> SUFFICES ASSUME Init PROVE IInv
  OBVIOUS
<1> DEFINE g == CHOOSE h \in Goals : TRUE
<1>1. g \in Goals
  BY AgentAssumption
<1> HIDE DEF g
<1>2. /\ RunOK(Idle(g)) /\ Idle(g).pc = "idle" /\ Idle(g) \in RunTypes
  BY <1>1, IdleOK DEF RunOK
<1>3. run = [r \in Runs |-> Idle(g)]
  BY DEF Init, g
<1>4. run \in [Runs -> RunTypes] /\ RunsOK
  BY <1>2, <1>3 DEF RunsOK
<1>5. TypeOK /\ MemoryTyped
  <2>1. Len(<<>>) = 0 /\ \A S : <<>> \in Seq(S)
    BY EmptySeq
  <2>2. wf \in [Workflows -> [pc : {"idle", "spawned", "running", "paused", "ended"},
                              tokens : 0 .. MaxKeys, pauses : 0 .. MaxPauses]]
    BY RoutingAssumption DEF Init
  <2>3. keys \in 0 .. MaxKeys /\ Len(memory) <= RunMemoryCap
    BY <2>1, RoutingAssumption DEF Init
  <2>4. screen \in {Blank} \cup Closures /\ shown \in BOOLEAN /\ uiq \in Seq(Closures)
    BY <2>1 DEF Init
  <2>5. sink \in [Runs -> {"none", "queued", "waiting"}]
    BY DEF Init
  <2> QED BY <1>4, <2>1, <2>2, <2>3, <2>4, <2>5 DEF Init, TypeOK, MemoryTyped
<1>6. SinkAsks /\ TokensCounted /\ NothingLeftBehind
  BY <1>2, <1>3 DEF Init, SinkAsks, TokensCounted, NothingLeftBehind
<1> QED BY <1>4, <1>5, <1>6 DEF IInv

LEMMA StepInv == IInv /\ [Next]_vars => IInv' /\ StepFrozen
<1> SUFFICES ASSUME IInv, [Next]_vars PROVE IInv' /\ StepFrozen
  OBVIOUS
<1>1. CASE UNCHANGED vars
  <2>1. StepFrozen
    BY <1>1, RunsStay DEF vars, agent
  <2> QED BY <1>1, <2>1 DEF vars, slots, agent, ui, IInv, TypeOK, RunsOK, SinkAsks,
                            TokensCounted, MemoryTyped, NothingLeftBehind
<1>2. CASE \E r \in Runs : start_agent_run(r) \/ Expire(r) \/ Agent(r)
  BY <1>2, StartStep, SinkStep, BeginRunStep, RunLoopStep, AnswerStep, FinishStep DEF Agent
<1>3. CASE \E w \in Workflows : start_workflow(w) \/ Workflow(w)
  BY <1>3, WorkflowStep
<1>4. CASE RunClosure \/ workflow_confirm \/ workflow_dismiss
  BY <1>4, UiStep
<1> QED BY <1>1, <1>2, <1>3, <1>4 DEF Next

LEMMA Invariance == Spec => []IInv
BY InitInv, StepInv, PTL DEF Spec

(* The state keeps its type, and the run memory its size. *)
THEOREM TypeCorrect == Spec => []TypeOK
BY Invariance, PTL DEF IInv

(* No flagged or risky step is called but in a run whose plan was approved. *)
THEOREM ApprovedOnly == Spec => []RiskyOnlyApproved
<1>1. IInv => RiskyOnlyApproved
  <2>1. SUFFICES ASSUME IInv, NEW r \in Runs, NEW i \in DOMAIN run[r].plan,
                        run[r].plan[i].flagged \/ classify(run[r].plan[i]) > 2,
                        run[r].calls[run[r].plan[i].id] > 0
                 PROVE  run[r].granted
    BY DEF RiskyOnlyApproved
  <2>2. RunOK(run[r]) /\ run[r] \in RunTypes
    BY <2>1 DEF IInv, RunsOK, RunOK
  <2>3. run[r].plan[i].flagged /\ run[r].plan[i].id \in StepIds
    BY <2>1, <2>2, PlanType DEF RiskIsFlagged
  <2>4. needs_gate(run[r].plan)
    BY <2>3 DEF needs_gate
  <2> QED BY <2>1, <2>2, <2>3, <2>4 DEF RunOK, Authorized
<1> QED BY <1>1, Invariance, PTL

(* A run that is over is in no slot and has no row, and the approval slot only
   ever holds a run that waits. *)
THEOREM NothingLeft == Spec => []NothingLeftBehind
BY Invariance, PTL DEF IInv

(* What succeeded, or whose effect is unsettled, is never called again. *)
THEOREM Immutable == Spec => SucceededImmutable
<1>1. IInv /\ [Next]_vars =>
        [\A r \in Runs : \A s \in StepIds :
            run[r].status[s] \in {"Succeeded", "Unknown"}
              => run'[r].calls[s] = run[r].calls[s]]_vars
  BY StepInv DEF StepFrozen, Frozen
<1> QED BY <1>1, Invariance, PTL DEF Spec, SucceededImmutable
=============================================================================
