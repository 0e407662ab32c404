----------------------------- MODULE MCEvalRun -----------------------------
(* An instance of EvalRun for TLC: a rollout thread on each of two ranks. *)
EXTENDS EvalRun

CONSTANTS t0, t1

MCHome == [t \in {t0, t1} |-> IF t = t0 THEN 0 ELSE 1]
MCNeeded == [p \in {1} |-> 2]
=============================================================================
