---------------------------- MODULE ModalBackend ----------------------------
(***************************************************************************)
(* The container backend of the SWE environments: modal_backend.py with    *)
(* its client (remote/client.py), the session it keeps (remote/session.py) *)
(* and the tools that call it (tools.py).                                  *)
(*                                                                         *)
(* A call of run_client may fail before the server has the request, or     *)
(* after it has served it.  The sandbox may end at any time.  What bash    *)
(* does with the k-th command is a free choice, but it does not print the  *)
(* sentinel.  A start script is always sent, and its timeout is ignored:   *)
(* a session whose script is late is behind, its answers are those of the  *)
(* requests before.                                                        *)
(***************************************************************************)
EXTENDS Integers, Sequences

CONSTANTS
  Tools,        \* "bash", "plugin", "submit"
  MaxCreates,   \* attempts of MODAL_RETRY
  MaxWaits,     \* bound: iterations of create_session within MAX_WAITING_TIME
  MaxCommands   \* bound: commands of an episode

ASSUME ModalAssumption == Tools \subseteq {"bash", "plugin", "submit"}

VARIABLES
  be,        \* where the backend is
  sandbox,   \* "none", "up", "ended" or "terminated"
  attempts,  \* of the sandbox, then of the session
  session,   \* the session in SESSION_STORE
  ncmd,      \* commands sent
  tool,      \* the tool that called run_bash
  ran,       \* what became of each command: its exit code, an error, or
             \* "behind": answered with the output of what was sent before it
  bash,      \* the SessionOutput of the command
  result     \* the ToolCallResult

mvars == <<be, sandbox, attempts, session, ncmd, tool, ran, bash, result>>

(* code is the variable __EXIT_CODE__ of the bash of the session *)
NoSession == [made |-> FALSE, proc |-> "none", code |-> 0, behind |-> FALSE]
NoProc(s) == [s EXCEPT !.proc = "none", !.code = 0, !.behind = FALSE]
NoResult == [success |-> FALSE, of |-> 0, tool |-> "bash", behind |-> FALSE]

(* run_client: a call reaches a server that lives, or fails *)
Reachable == sandbox = "up"

-----------------------------------------------------------------------------
(* init_modal_sandbox and create_session *)

CreateSandbox ==
  /\ be = "create"
  /\ \/ sandbox' = "up" /\ be' = "session" /\ attempts' = 0
     \/ /\ attempts + 1 < MaxCreates /\ attempts' = attempts + 1   \* GRPCError
        /\ UNCHANGED <<sandbox, be>>
     \/ be' = "failed" /\ UNCHANGED <<sandbox, attempts>>            \* BackendInitError
  /\ UNCHANGED <<session, ncmd, tool, ran, bash, result>>

(* The server keeps the start script for the first command of the session. *)
Served == IF session.made THEN session ELSE [session EXCEPT !.made = TRUE]
CreateSession ==
  /\ be = "session" /\ Reachable
  /\ \/ /\ ~session.made /\ session' = Served                       \* answered
        /\ be' = "idle" /\ UNCHANGED attempts
     \/ /\ session' \in {session, Served}                           \* not up yet, answer lost,
        /\ \/ attempts < MaxWaits /\ attempts' = attempts + 1 /\ UNCHANGED be   \* exists already
           \/ attempts = MaxWaits /\ be' = "failed" /\ UNCHANGED attempts
  /\ UNCHANGED <<sandbox, ncmd, tool, ran, bash, result>>

SandboxGone ==
  /\ be = "session" /\ ~Reachable
  /\ be' = "failed"
  /\ UNCHANGED <<sandbox, attempts, session, ncmd, tool, ran, bash, result>>

-----------------------------------------------------------------------------
(* run_bash: run_session, then get_exitcode in a second call *)

CallTool(t) ==
  /\ be = "idle" /\ ncmd < MaxCommands
  /\ be' = "bash" /\ ncmd' = ncmd + 1 /\ tool' = t
  /\ UNCHANGED <<sandbox, attempts, session, ran, bash, result>>

(* communicate: a session without process starts one, with its script; an   *)
(* error stops it                                                           *)
Started ==
  IF session.proc = "alive" THEN {session}
  ELSE [made : {session.made}, proc : {"alive"}, code : {0, 1}, behind : BOOLEAN]

(* The last sentinel that was read is that of the command, or of the request *)
(* before it.                                                                *)
Exits == [ok |-> 0, nonzero |-> 1]
RunSession ==
  /\ be = "bash" /\ Reachable
  /\ \E s \in Started, how \in {"ok", "nonzero", "behind", "error"} :
       /\ how = "behind" => s.behind
       /\ ran' = Append(ran, how)
       /\ session' = CASE how = "error"  -> NoProc(s)
                      [] how = "behind" -> s
                      [] OTHER          -> [s EXCEPT !.code = Exits[how], !.behind = FALSE]
       /\ \/ bash' = (IF how = "error" THEN "error" ELSE "success") /\ be' = "code"
          \/ be' = "raised" /\ UNCHANGED bash                        \* the answer is lost
  /\ UNCHANGED <<sandbox, attempts, ncmd, tool, result>>

(* get_exitcode: the variable of the session, which is then that of echo; an *)
(* error or an output that is no number is None, and a session that is       *)
(* behind answers with the output of the command                             *)
Echoed(s) == [s EXCEPT !.code = 0, !.behind = FALSE]
ExitCodes(s) ==
  {<<-1, NoProc(s)>>, <<-1, Echoed(s)>>}
  \cup (IF s.behind THEN {<<c, s>> : c \in {-1, 0, 1}} ELSE {<<s.code, Echoed(s)>>})

(* bash_feedback_default, make_python_plugin, submit_diff_file *)
ToolSuccessLoose(t, status, code) == code = 0 \/ t = "bash"
ToolSuccess(t, status, code) ==
  CASE t = "bash"   -> status = "success"
    [] t = "plugin" -> status = "success" /\ code = 0
    [] t = "submit" -> ~(status = "error" \/ code # 0)

(* submit_diff_file also refuses what is no diff *)
ResultsWith(code) ==
  {[success |-> s, of |-> ncmd, tool |-> tool, behind |-> session.behind] :
     s \in {ToolSuccess(tool, bash, code)} \cup (IF tool = "submit" THEN {FALSE} ELSE {})}
GetExitCode ==
  /\ be = "code"
  /\ \/ /\ bash = "error" /\ result' \in ResultsWith(-1)
        /\ UNCHANGED session
     \/ /\ bash = "success" /\ Reachable
        /\ \E s \in Started : \E answer \in ExitCodes(s) :
             result' \in ResultsWith(answer[1]) /\ session' = answer[2]
  /\ be' = "idle"
  /\ UNCHANGED <<sandbox, attempts, ncmd, tool, ran, bash>>

(* run_client raises: the request or the answer of the exit code is lost *)
CallFails ==
  /\ be \in {"bash", "code"} /\ (be = "code" => bash = "success")
  /\ be' = "raised"
  /\ UNCHANGED <<sandbox, attempts, session, ncmd, tool, ran, bash, result>>

-----------------------------------------------------------------------------
(* destroy(), by the environment or by __del__; the sandbox's own timeout *)

Destroy ==
  /\ be \in {"idle", "raised", "failed"}
  /\ be' = "gone"
  /\ sandbox' = IF sandbox = "up" THEN "terminated" ELSE sandbox
  /\ UNCHANGED <<attempts, session, ncmd, tool, ran, bash, result>>

SandboxEnds ==
  /\ sandbox = "up" /\ sandbox' = "ended"
  /\ session' = NoSession
  /\ UNCHANGED <<be, attempts, ncmd, tool, ran, bash, result>>

BackendInit ==
  /\ be = "create" /\ sandbox = "none" /\ attempts = 0 /\ session = NoSession
  /\ ncmd = 0 /\ tool = "bash" /\ ran = <<>> /\ bash = "success" /\ result = NoResult
BackendNext ==
  \/ CreateSandbox \/ CreateSession \/ SandboxGone
  \/ \E t \in Tools : CallTool(t)
  \/ RunSession \/ GetExitCode \/ CallFails \/ Destroy \/ SandboxEnds
BackendSpec == BackendInit /\ [][BackendNext]_mvars

-----------------------------------------------------------------------------
(***************************************************************************)
(* A tool reports success only for a command that bash ran to its end, and *)
(* a plugin or a submission only when that very command returned 0, though *)
(* its exit code is asked for by a second call, which may find a session   *)
(* that was started afresh; only a session behind its late start script    *)
(* may report the success of a command it has not run.  Nothing is left    *)
(* when the backend is gone.                                               *)
(***************************************************************************)
SuccessIsOwn ==
  /\ result.success /\ ~result.behind =>
       /\ ran[result.of] \in {"ok", "nonzero"}
       /\ result.tool # "bash" => ran[result.of] = "ok"
  /\ be = "gone" => sandbox # "up"
=============================================================================
