------------------------------- MODULE MCEvalRun -------------------------------
(* Model-checking instance of EvalRun: a split of three questions, two       *)
(* configurations the fingerprint tells apart.                               *)
EXTENDS EvalRun

TwoConfigs == {"A", "B"}
===============================================================================
