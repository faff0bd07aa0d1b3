--------------------------- MODULE MCConfirmRouting ---------------------------
EXTENDS ConfirmRouting

Ref(v, slash, routed) == [vocab |-> v, slash |-> slash, routed |-> routed]
Step(id, v, flagged)  == [id |-> id, ref |-> Ref(v, FALSE, TRUE),
                          flagged |-> flagged, big |-> FALSE]
Answer(plan) == [plan |-> plan, confidence |-> 80]

CONSTANTS r1, r2, w1

\* Two agents at once, or an agent beside a workflow.
MCCasts == {{r1, r2}, {r1, w1}}

\* A search, and a run of something too short to name a target.
MCGoals == {[verb |-> "none", rest |-> "long"], [verb |-> "run", rest |-> "short"]}

\* A plan that needs no approval, one whose risk only the classifier sees,
\* one that fails validation, a step that cannot be routed, and no answer.
MCLlmOutputs ==
    {NoAnswer, NotJson,
     Answer(<<Step("a", "search", FALSE)>>),
     Answer(<<Step("a", "search", FALSE), Step("b", "other", FALSE)>>),
     Answer(<<Step("a", "shell", FALSE), Step("a", "search", FALSE)>>)}
=============================================================================
