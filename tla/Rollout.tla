------------------------------ MODULE Rollout ------------------------------
(***************************************************************************)
(* evals/main.py, rollout(): the attempts of one datum in one of the       *)
(* environments.  generate() answers with 1 to max_action_len tokens; with *)
(* no budget left, the empty or overlong answer it trims makes step() or   *)
(* the reward function raise.  Rewards are not kept.                       *)
(***************************************************************************)
EXTENDS SweEnv, DialogEnv

CONSTANTS
  Configs,      \* configurations of the environments
  MaxContext,   \* the context at which the loop of rollout() ends (131072)
  MaxAttempts   \* max_exceptions + 1

ASSUME RolloutAssumption ==
  /\ MaxContext \in Nat /\ PromptLen < MaxContext /\ MaxAttempts \in Nat \ {0}
  /\ \A c \in Configs : c.kind \in {"swe", "testgen", "math", "lcb"}
                       /\ c.attempts \in Nat \ {0}

VARIABLES
  attempt,   \* attempts begun
  phase,     \* where the rollout thread is
  traj,      \* the trajectory of the attempt
  sample     \* what it put in dump_queue, if anything yet

vars == <<cfg, st, tr, failedOutcomes, sandbox, submitted, attempt, phase, traj, sample>>

IsSwe == cfg.kind \in {"swe", "testgen"}
MaxLen(s) == IF IsSwe THEN MaxActionLen ELSE Budget(s)

Init ==
  /\ cfg \in Configs
  /\ st = (IF IsSwe THEN SweState ELSE DialogState)
  /\ tr = InitialTransition /\ traj = EmptyTraj
  /\ sandbox = FALSE /\ submitted = None
  /\ failedOutcomes = FALSE
  /\ attempt = 1 /\ phase = "start" /\ sample = {}

(* the except clause: another attempt, if one is left *)
Retried == IF attempt = MaxAttempts THEN "failed" ELSE "start"
RetriesForEver == phase' = "start" /\ UNCHANGED attempt
NextAttempt ==
  /\ phase' = Retried
  /\ attempt' = IF attempt = MaxAttempts THEN attempt ELSE attempt + 1

(* env.start(): the arguments of the datum may lack a key *)
Start ==
  /\ phase = "start" /\ cfg.complete
  /\ st' = (IF IsSwe THEN SweState ELSE DialogState)
  /\ tr' = InitialTransition /\ traj' = EmptyTraj
  /\ submitted' = None
  /\ phase' = "append"
  /\ UNCHANGED <<cfg, failedOutcomes, sandbox, attempt, sample>>

StartRaises ==
  /\ phase = "start" /\ ~cfg.complete
  /\ NextAttempt
  /\ UNCHANGED <<cfg, failedOutcomes, st, tr, sandbox, submitted, traj, sample>>

(* traj.append(tr), and the condition of the loop *)
Append ==
  /\ phase = "append"
  /\ traj' = Extended(traj)
  /\ phase' = IF tr.terminal \/ traj'.len >= MaxContext THEN "leave" ELSE "act"
  /\ UNCHANGED <<cfg, failedOutcomes, st, tr, sandbox, submitted, attempt, sample>>

Stays == phase' = IF tr'.raised THEN "raised" ELSE "append"

ActSwe ==
  /\ phase = "act" /\ IsSwe
  /\ \E n \in 1..MaxLen(st) : SweStep(n)
  /\ Stays
  /\ UNCHANGED <<cfg, failedOutcomes, attempt, traj, sample>>

ActDialog ==
  /\ phase = "act" /\ ~IsSwe
  /\ \E n \in 1..MaxLen(st) : DialogStep(n)
  /\ Stays
  /\ UNCHANGED <<cfg, sandbox, submitted, attempt, traj, sample>>

NoBudget ==
  /\ phase = "act" /\ MaxLen(st) <= 0
  /\ phase' = "raised"
  /\ UNCHANGED <<cfg, failedOutcomes, st, tr, sandbox, submitted, attempt, traj, sample>>

(* __exit__ of the state; a dialog state has nothing to close *)
Exit(running) == st' = st /\ sandbox' = running

(* pickled when it is put: the outcomes are those of that moment *)
Sample ==
  [had |-> tr.had, found |-> IF tr.shared THEN failedOutcomes ELSE tr.found,
   pass |-> tr.pass, judged |-> tr.judged, terminal |-> tr.terminal, keys |-> tr.keys]

Leave ==
  /\ phase = "leave"
  /\ IF IsSwe THEN Close(st) ELSE Exit(sandbox)
  /\ sample' = {Sample}
  /\ phase' = "done"
  /\ UNCHANGED <<cfg, failedOutcomes, tr, submitted, attempt, traj>>

RetryKeepsOrphan ==
  /\ phase = "raised"
  /\ Exit(IsSwe /\ Closed(st))
  /\ NextAttempt
  /\ UNCHANGED <<cfg, failedOutcomes, tr, submitted, traj, sample>>
(* An attempt that raised: a backend whose constructor raised is collected with *)
(* the exception, and its __del__ terminates the sandbox.                       *)
Retry ==
  /\ phase = "raised"
  /\ Exit(IsSwe /\ Closed(st) /\ st.backend)
  /\ NextAttempt
  /\ UNCHANGED <<cfg, failedOutcomes, tr, submitted, traj, sample>>

Others ==
  /\ phase \notin {"done", "failed"} /\ OthersNoCode
  /\ UNCHANGED <<cfg, st, tr, sandbox, submitted, attempt, phase, traj, sample>>

Finished == phase \in {"done", "failed"} /\ UNCHANGED vars

Step ==
  \/ Start \/ StartRaises \/ Append
  \/ ActSwe \/ ActDialog \/ NoBudget
  \/ Leave \/ Retry
Next == Step \/ Others \/ Finished

(* the thread runs, and generate() answers (EvalRun) *)
Spec == Init /\ [][Next]_vars /\ WF_vars(Step)

-----------------------------------------------------------------------------
(* No sandbox runs between attempts or after the rollout, whatever path ended *)
(* the episode (swerl_tool.py:185 close, modal_backend.py:248 __del__).       *)
SandboxReleased == phase \in {"start", "done", "failed"} => ~sandbox

(* What a tool environment grades is the last submission that succeeded in *)
(* this attempt (swerl_tool.py:539), and only that can pass.               *)
JudgedLast ==
  IsSwe => \A s \in sample :
    /\ s.judged \in {None, submitted}
    /\ s.pass => s.terminal /\ submitted # None /\ s.judged = submitted

(***************************************************************************)
(* num_tokens of a tool environment, which decides when its context is     *)
(* full (swerl_tool.py:386), is the context the model is asked with.  A    *)
(* dialog with one attempt and no tools writes at most max_action_len      *)
(* tokens, with those the environment writes to end thinking               *)
(* (math_think_dialog.py:402, lcb.py:508).                                 *)
(***************************************************************************)
WithinBudget ==
  /\ IsSwe /\ phase = "act" => st.tokens = traj.len
  /\ ~IsSwe /\ cfg.attempts = 1 /\ ~cfg.tools => traj.len <= PromptLen + MaxActionLen

(* The samples of a task have the same outcomes whatever ended the episode: *)
(* their aggregation reads the keys of the first in each (outcomes.py:336).  *)
OutcomesOf(kind) ==
  CASE kind = "math" -> Default
    [] kind = "lcb" -> CodeExec \cup Reasoning
    [] OTHER -> SweKeys
SameOutcomes == \A s \in sample : s.keys = OutcomesOf(cfg.kind)

(* A rollout ends with a sample or as failed: every loop of it is bounded by *)
(* turns, attempts, the budget or the context (main.py:159).                 *)
RolloutEnds == <>(phase \in {"done", "failed"})

(* The reasoning_found of a sample is about its own answer: n_reasoning_tokens *)
(* is 0 when there was no reasoning (outcomes.py:114), whatever other rollout *)
(* threads make of their answers meanwhile.                                   *)
OwnReasoning == \A s \in sample : s.found = s.had
=============================================================================
