----------------------------- MODULE DialogEnv -----------------------------
(***************************************************************************)
(* MathThinkCWMDialogEnv of cwm/rl/envs/envs/math_think_dialog.py (kind    *)
(* "math") and LCBCWMThinkEnv of lcb.py (kind "lcb"): an answer is judged  *)
(* and, if it fails and attempts are left, asked for again.  With          *)
(* stop_think, thinking cut at its limit is ended by the environment, and  *)
(* a short answer follows.  What the model writes, and what the sandboxed  *)
(* judges find, is external.                                               *)
(***************************************************************************)
EXTENDS EnvApi

CONSTANT AnswerOnlyLen   \* answer_only_action_len

ASSUME DialogAssumption == AnswerOnlyLen \in Nat \ {0}

VARIABLE
  failedOutcomes   \* reasoning_found in the module's failed_code_exec_outcomes
                   \* (FALSE also while it has no such key)

DialogState == [steps |-> 0, tokens |-> 0, mode |-> "full"]

EndThinkingLen == 2    \* "..." and the token that ends thinking

(* max_action_len(state): the math environment subtracts what it has counted *)
BudgetNoReserve(s) ==
  LET left == IF cfg.kind = "math" THEN MaxActionLen - s.tokens ELSE MaxActionLen
  IN IF s.mode = "answer_only" THEN AnswerOnlyLen ELSE left
Budget(s) ==
  LET left == IF cfg.kind = "math" THEN MaxActionLen - s.tokens ELSE MaxActionLen
  IN IF s.mode = "answer_only" THEN AnswerOnlyLen
     ELSE IF cfg.stopThink \/ cfg.kind = "lcb" THEN left - AnswerOnlyLen - EndThinkingLen
     ELSE left

-----------------------------------------------------------------------------
(* outcomes *)

Default ==
  {"pass", "ours_pass", "math_verify_pass", "reasoning_found", "n_reasoning_tokens",
   "answer", "action_len"}
Reasoning == {"reasoning_found", "n_reasoning_tokens"}
CodeExec == {"parse", "compile", "pass", "public_pass"}
FailedCodeExec == {"parse", "compile", "pass", "public_pass"}

Judged == IF cfg.kind = "math" THEN Default ELSE CodeExec \cup Reasoning
(* of the transition that ends thinking, and of code that is not found *)
EndThinkingReasoning == IF cfg.kind = "math" THEN Default ELSE Reasoning
EndThinking == IF cfg.kind = "math" THEN Default ELSE FailedCodeExec \cup Reasoning
NotParsed == FailedCodeExec \cup Reasoning

-----------------------------------------------------------------------------
(* step() *)

Spent(n) == [st EXCEPT !.tokens = IF cfg.kind = "math" THEN @ + n ELSE @]

(* tools called in the answer: no attempt is counted, their results are *)
CallTools(n) ==
  /\ cfg.kind = "math" /\ cfg.tools
  /\ \E obs \in ObsLens :
       /\ st' = [Spent(n) EXCEPT !.tokens = @ + obs]
       /\ tr' = Goes(n, obs, Default)
  /\ UNCHANGED failedOutcomes

Stepped(n) == [Spent(n) EXCEPT !.steps = @ + 1]

(* use_think_tag: exactly one end of thinking, or the episode is over *)
NotOneEnd(n) ==
  /\ cfg.kind = "math" /\ cfg.thinkTag
  /\ st' = Stepped(n) /\ tr' = Fails(n, Default)
  /\ UNCHANGED failedOutcomes

(* The shared outcomes are merged last and win over reasoning_found(False). *)
StopThink(n) ==
  /\ cfg.stopThink /\ st.mode = "full"
  /\ st' = [Stepped(n) EXCEPT !.mode = "answer_only"]
  /\ tr' = [Goes(n, EndThinkingLen, EndThinking) EXCEPT
               !.found = cfg.kind = "lcb" /\ failedOutcomes]
  /\ UNCHANGED failedOutcomes

(* another attempt, unless this was the last one or what the model is told *)
(* about passed: all of it, or the public tests                            *)
Asks(s, t, shown) ==
  /\ st' = s
  /\ IF s.steps >= cfg.attempts \/ shown
     THEN tr' = [t EXCEPT !.terminal = TRUE]
     ELSE \E obs \in ObsLens : tr' = [t EXCEPT !.obs = obs]

Outcome(n, keys, pass, had) ==
  [Goes(n, 0, keys) EXCEPT !.pass = pass, !.found = had, !.had = had]

Judge(n) ==
  /\ \E pass, shown, had \in BOOLEAN :
       /\ IF cfg.kind = "math" THEN shown = pass ELSE pass => shown
       /\ Asks(Stepped(n), Outcome(n, Judged, pass, had), shown)
  /\ UNCHANGED failedOutcomes

(* tr.outcomes |= outcomes writes into the dictionary of the module *)
NoCode(n) ==
  /\ cfg.kind = "lcb"
  /\ \E had \in BOOLEAN :
       /\ Asks(Stepped(n), [Outcome(n, NotParsed, FALSE, had) EXCEPT !.shared = TRUE], FALSE)
       /\ failedOutcomes' = had
(* the same step of another rollout thread *)
OthersNoCode == cfg.kind = "lcb" /\ failedOutcomes' \in BOOLEAN

(* the fork server does not start a sandbox *)
JudgeRaises(n) == st' = Stepped(n) /\ tr' = Raised /\ UNCHANGED failedOutcomes

DialogStep(n) ==
  CallTools(n) \/ NotOneEnd(n) \/ StopThink(n) \/ Judge(n) \/ NoCode(n) \/ JudgeRaises(n)
=============================================================================
