------------------------------- MODULE SweEnv -------------------------------
(***************************************************************************)
(* The tool environments cwm/rl/envs/envs/swerl_tool.py (kind "swe") and   *)
(* swerl_testgen_tool.py (kind "testgen"), with the Modal sandbox of       *)
(* cwm/rl/swerl/modal_backend.py.  The sandbox is created at the first     *)
(* tool call; a patch (or test) submitted last is evaluated when the model *)
(* answers without a tool call.                                            *)
(*                                                                         *)
(* An answer is abstracted to what parse_tool_calls and the format rules   *)
(* make of it; what the container does is external.                        *)
(***************************************************************************)
EXTENDS EnvApi

CONSTANTS
  ContextSize,   \* context_size
  MaxTurns       \* max_turns

ASSUME SweAssumption == ContextSize \in Nat /\ MaxTurns \in Nat \ {0}

VARIABLES
  sandbox,   \* the sandbox runs
  submitted  \* history: the turn of the last submission that succeeded

SweState ==
  [steps |-> 0, tokens |-> PromptLen, patch |-> None, backend |-> FALSE, cleaned |-> FALSE]

SweKeys == {"pass"}

(* state.close(): without a backend there is nothing to destroy *)
Closed(s) == sandbox /\ (s.cleaned \/ ~s.backend)
Close(s) == st' = [s EXCEPT !.cleaned = TRUE] /\ sandbox' = Closed(s)

Ends(s, t) == Close(s) /\ tr' = t

(* a message to the model, and the tokens it will read *)
Feedback(s, n) ==
  \E obs \in ObsLens :
    st' = [s EXCEPT !.tokens = @ + obs] /\ tr' = Goes(n, obs, SweKeys)

-----------------------------------------------------------------------------
(* step(): the turn and its tokens are counted first *)

Counted(n) == [st EXCEPT !.steps = @ + 1, !.tokens = @ + n]
WithinLimits(s) == s.tokens <= ContextSize /\ s.steps < MaxTurns

(* testgen leaves a full context to the caller's close() *)
LimitReached(s, n) ==
  /\ ~WithinLimits(s)
  /\ IF cfg.kind = "testgen" /\ s.tokens > ContextSize
     THEN st' = s /\ tr' = Fails(n, SweKeys) /\ UNCHANGED sandbox
     ELSE Ends(s, Fails(n, SweKeys))
  /\ UNCHANGED submitted

(* eval() of the last submission, in a sandbox of its own; it may raise *)
Evaluates(s, n) ==
  \/ \E pass \in BOOLEAN : Ends(s, Transition(n, 0, TRUE, SweKeys, pass, s.patch))
  \/ Ends(s, Raised)

(* FormatError, or NoSuchToolError of a backend created for it.  final: the     *)
(* answer may be the final response (one end of thinking and, if the format is  *)
(* strict, a "##").                                                             *)
Answers(s, n, final) ==
  IF s.patch # None /\ (final \/ cfg.kind = "testgen") THEN Evaluates(s, n)
  ELSE IF cfg.kind = "testgen" \/ cfg.strict THEN Ends(s, Fails(n, SweKeys))
  ELSE Feedback(s, n) /\ sandbox' = s.backend

NoTool(s, n) ==
  /\ WithinLimits(s)
  /\ \E b \in {s, [s EXCEPT !.backend = TRUE]}, final \in BOOLEAN : Answers(b, n, final)
  /\ UNCHANGED submitted

(* With a tool call the backend is created if there is none.  When that fails,  *)
(* the sandbox may be running already, and tool_backend is still None.          *)
BackendFails(s, n) ==
  /\ WithinLimits(s) /\ ~s.backend
  /\ sandbox' \in BOOLEAN
  /\ st' = [s EXCEPT !.cleaned = TRUE] /\ tr' = Raised
  /\ UNCHANGED submitted

(* A tool that raises is a failed episode after sandbox_timeout, else an error. *)
ToolRaises(s, n) ==
  /\ WithinLimits(s)
  /\ st' = [s EXCEPT !.backend = TRUE, !.cleaned = TRUE] /\ sandbox' = FALSE
  /\ tr' \in {Fails(n, SweKeys), Raised}
  /\ UNCHANGED submitted

(* apply_tool(): success is the success of a submission *)
RecordsAny(s, success) == [s EXCEPT !.backend = TRUE, !.patch = s.steps]
Records(s, success) ==
  [s EXCEPT !.backend = TRUE, !.patch = IF success THEN s.steps ELSE @]

UseTool(s, n) ==
  /\ WithinLimits(s)
  /\ sandbox' = TRUE
  /\ \/ \E success \in BOOLEAN :
          /\ Feedback(Records(s, success), n)
          /\ submitted' = IF success THEN s.steps ELSE submitted
     \/ Feedback([s EXCEPT !.backend = TRUE], n) /\ UNCHANGED submitted

SweStep(n) ==
  LET s == Counted(n)
  IN LimitReached(s, n) \/ NoTool(s, n) \/ BackendFails(s, n) \/ ToolRaises(s, n) \/ UseTool(s, n)
=============================================================================
