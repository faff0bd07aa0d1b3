---------------------------- MODULE AgentPlanning ----------------------------
(***************************************************************************)
(* The planning pipeline of launcher-ai: from the user's words and the      *)
(* language model's answer to a validated plan.  All of it is pure.         *)
(*                                                                         *)
(* A goal is [verb, rest]: the keyword in front of it ("none" if there is   *)
(* none) and how long the text behind it is ("empty", "short": fewer than   *)
(* three bytes, "long").  An answer of the model is the model value         *)
(* NoAnswer (the call failed), NotJson (no object in it, or not one of a     *)
(* proposal), or [plan, confidence], where confidence is a percentage.       *)
(* A step is [id, ref, flagged, big]; a ref is [vocab, slash, routed]: the   *)
(* vocabulary prefix, whether it holds a path separator, and whether it has  *)
(* the three parts provider|command|action.                                 *)
(***************************************************************************)
EXTENDS Naturals, Sequences, SequencesExt, FiniteSets

CONSTANTS NoAnswer, NotJson,
          MinConfidence      \* ClarificationPolicy::min_confidence, in percent

\* The whole input is trimmed first, so a keyword with nothing behind it is
\* no longer followed by a blank and reads as a search for the keyword.
parse_intent(goal) ==
    IF goal.rest = "empty"
    THEN [intent |-> "Search", text |-> IF goal.verb = "none" THEN "empty" ELSE "long"]
    ELSE [intent |-> CASE goal.verb \in {"find", "search", "none"} -> "Search"
                       [] goal.verb = "open"     -> "Open"
                       [] goal.verb = "run"      -> "Execute"
                       [] goal.verb = "workflow" -> "Workflow",
          text   |-> goal.rest]

needs_clarification(parsed, confidence) ==
    \/ parsed.text = "empty"
    \/ parsed.intent = "Execute" /\ parsed.text = "short"
    \/ confidence < MinConfidence

\* Vocabulary the classifier does not know is taken for the worst.
classify(step) ==
    CASE step.ref.vocab \in {"search", "explain"}                   -> 0
      [] step.ref.vocab = "file"                                    -> 1
      [] step.ref.vocab \in {"file copy", "clipboard", "workflow"}  -> 2
      [] step.ref.vocab \in {"shell", "power"}                      -> 3
      [] OTHER                                                      -> 4

requires_approval(level) == level \in {3, 4}

DistinctIds(plan) == \A i, j \in DOMAIN plan : plan[i].id = plan[j].id => i = j

validate_proposal(p) ==
    /\ p.confidence \in 0 .. 100
    /\ p.plan # <<>>
    /\ DistinctIds(p.plan)
    /\ \A i \in DOMAIN p.plan : ~p.plan[i].ref.slash /\ ~p.plan[i].big

validate_llm_output(raw) == raw # NotJson /\ validate_proposal(raw)

Trust_flag(plan) == plan

\* The classification may only add the need for an approval.
Flag(plan) ==
    [i \in DOMAIN plan |->
        [plan[i] EXCEPT !.flagged = @ \/ requires_approval(classify(plan[i]))]]

\* PlanDocument::validate, applied to a plan that the user edited.
validate_document(plan) == plan # <<>> /\ Len(plan) <= 64 /\ DistinctIds(plan)

Clarify  == [kind |-> "clarify", plan |-> <<>>]
PlanFail == [kind |-> "error",   plan |-> <<>>]

\* Before the model is called the confidence is unknown and taken to be 1.0.
run_pipeline(goal, raw) ==
    IF needs_clarification(parse_intent(goal), 100) THEN Clarify
    ELSE IF raw = NoAnswer \/ ~validate_llm_output(raw) THEN PlanFail
    ELSE [kind |-> "proposal", plan |-> Flag(raw.plan)]
=============================================================================
