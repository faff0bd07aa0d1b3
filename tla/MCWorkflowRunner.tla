-------------------------- MODULE MCWorkflowRunner --------------------------
(* Small definitions for WorkflowRunner: three steps, one variable. *)
EXTENDS WorkflowRunner

CONSTANTS x, t, f

Three == 1..3
OnlyStep(i, a, b) == [j \in Three |-> IF j = i THEN a ELSE b]

(* The definition's rows: business errors are skipped, the rest is default. *)
DefRow == [c \in {"BusinessError"} |-> "Skip"]
NoRow  == <<>>

Policy(stepRow, defRow) ==
  [i \in Three |-> [c \in FailureClass |-> action_for(stepRow, defRow, c)]]

MakeDef(succ, fail, cfalse, conf) ==
  [ size |-> 3, entry |-> 1,
    condition |-> OnlyStep(2, [var |-> x, vals |-> {t}], NoCond),
    output |-> [j \in Three |-> IF j = 2 THEN NoBinding ELSE x],
    on_success |-> succ,
    on_failure |-> OnlyStep(2, fail, Next_),
    on_condition_false |-> OnlyStep(2, cfalse, Next_),
    confirmation |-> conf,
    policy |-> Policy(NoRow, DefRow),
    max_attempts |-> OnlyStep(2, 1, 2) ]

Targets == {Next_, End_} \cup Three

(* Every valid combination of success transitions, with a failure transition
   and a false-condition transition on the middle step. *)
MCAllDefs ==
  {d \in {MakeDef(s, fl, cf, {3}) : s \in [Three -> Targets],
                                    fl \in {Next_, End_, 1, 3}, cf \in {Next_, End_, 3}} :
     validate_graph(d)}

Linear == [j \in Three |-> Next_]

(* Two confirmation steps in a row; all failures stop or re-resolve. *)
MCTwoConfirm == {MakeDef(Linear, Next_, Next_, {1, 3})}
=============================================================================
