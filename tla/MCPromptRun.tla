----------------------------- MODULE MCPromptRun -----------------------------
(* Instances of PromptRun for TLC: two prompts and two models in "answers", three *)
(* prompts with one model in "rewinds".                                           *)
EXTENDS PromptRun

CONSTANTS m1, m2

OneModel == {m1}
TwoModels == {m1, m2}

VARIABLE part

PartsInit == Init /\ part \in {"answers", "rewinds"}

PartsNext ==
    /\ Next
    /\ UNCHANGED part
    /\ part = "answers" => asked' <= 2
    /\ part = "rewinds" => model' = Model0 /\ flips' + faults' <= 1    \* bounds

PartsSpec == PartsInit /\ [][PartsNext]_<<vars, part>> /\ WF_vars(RunStep)
=============================================================================
