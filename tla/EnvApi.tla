------------------------------- MODULE EnvApi -------------------------------
(***************************************************************************)
(* cwm/rl/envs/api.py: what an environment returns to a rollout, and the   *)
(* trajectory the rollout keeps of it.  Of a sequence of tokens only its   *)
(* length is kept, of the outcomes their keys and two values.  No          *)
(* environment asks for a context switch: there is one context.            *)
(***************************************************************************)
EXTENDS Integers

CONSTANTS
  PromptLen,      \* tokens of the prompt
  ObsLens,        \* lengths an observation may have
  MaxActionLen    \* max_action_len of the configuration

ASSUME EnvApiAssumption ==
  PromptLen \in Nat \ {0} /\ ObsLens \subseteq Nat \ {0} /\ MaxActionLen \in Nat \ {0}

VARIABLES
  cfg,   \* the environment and its configuration
  st,    \* its State
  tr     \* what start() or step() returned last

None == 0

(* judged: the submission an evaluation was made of.  found: the outcome      *)
(* reasoning_found, and shared: its dictionary is that of every failed parse. *)
(* had: history, whether the answer had any reasoning.                        *)
Transition(action, obs, terminal, keys, pass, judged) ==
  [raised |-> FALSE, action |-> action, obs |-> obs, terminal |-> terminal,
   keys |-> keys, pass |-> pass, judged |-> judged,
   found |-> FALSE, shared |-> FALSE, had |-> FALSE]

Raised == [Transition(0, 0, FALSE, {}, FALSE, None) EXCEPT !.raised = TRUE]

InitialTransition == Transition(0, PromptLen, FALSE, {}, FALSE, None)
Goes(action, obs, keys) == Transition(action, obs, FALSE, keys, FALSE, None)
Fails(action, keys) == Transition(action, 0, TRUE, keys, FALSE, None)

(* Trajectory.append; its context is what the next action is asked for *)
EmptyTraj == [len |-> 0, terminated |-> FALSE]
Extended(traj) == [len |-> traj.len + tr.action + tr.obs, terminated |-> tr.terminal]
=============================================================================
