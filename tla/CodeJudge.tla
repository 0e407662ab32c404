------------------------------ MODULE CodeJudge ------------------------------
(***************************************************************************)
(* LCBCodeGenEnv (rl/envs/envs/lcb.py) judging code: the code is extracted *)
(* from an answer, exec_lcbcodegen_tests (exec/code/eval/python.py) sends  *)
(* it to a sandbox and polls for the results, and there                    *)
(* runners/python_lcbcodegen.py loads it and runs the tests, the public    *)
(* ones first, up to the first that fails.                                 *)
(*                                                                         *)
(* What a program does is part of an answer.  Time is counted in units of  *)
(* the timeout of one test: what is slow takes nearly one.                 *)
(***************************************************************************)
EXTENDS Integers, Sequences, SequencesExt

CONSTANTS
  Problems,     \* [fn, expected, public, single]: with a function to call or not,
                \* the outputs of the tests, how many of them are public, and
                \* whether the environment wants a single block of code
  Answers,      \* per problem, sequences of fenced blocks [lang, code]; a code
                \* is [loads, defines, slow, runs]
  Number,       \* the value of each token that is a decimal
  JudgeAttempts \* max_attempts

(* What a test expects and a program gives: lines of tokens, or a value.  A  *)
(* program that loads ends somehow in each test.                            *)
OutputsOf(p) == IF p.fn THEN [kind : STRING, items : Seq(STRING)] ELSE Seq(Seq(STRING))
RunsFor(p) == [ends : {"ok", "raise", "hang", "exit"}, slow : BOOLEAN, out : OutputsOf(p)]
CodesFor(p) ==
  {c \in [loads : {"ok", "error", "hang", "exit"}, defines : BOOLEAN, slow : BOOLEAN,
          runs : Seq(RunsFor(p))] :
     c.loads = "ok" /\ c.defines => Len(c.runs) = Len(p.expected)}

ASSUME JudgeAssumption ==
  /\ \A p \in Problems : /\ p.public \in 1..Len(p.expected)
                          /\ p.expected \in Seq(OutputsOf(p))
                          /\ Answers[p] \subseteq Seq([lang : STRING, code : CodesFor(p)])
  /\ JudgeAttempts \in Nat \ {0}

VARIABLES
  problem,
  judge,     \* "ask", "spawn", "wait", "judge" or "over"
  steps,     \* step_id
  program,   \* the code that is judged
  runner,    \* "none", "load", "test", "answered" or "dead"
  elapsed,   \* time since the code was sent
  verdicts,  \* all_results: TRUE, or the code of the error that ended the tests
  results,   \* test_results
  said       \* outcomes, and the tests the model is told have failed

jvars == <<problem, judge, steps, program, runner, elapsed, verdicts, results, said>>

NTests == Len(problem.expected)
NoProgram == [loads |-> "ok", defines |-> TRUE, slow |-> FALSE, runs |-> <<>>]
Silent == [parse |-> TRUE, compile |-> TRUE, pass |-> FALSE, public |-> FALSE, failed |-> {}]

-----------------------------------------------------------------------------
(* extract_first_code and extract_single_code: blocks of the language, else *)
(* any block                                                                *)

OfLanguage(answer) == {i \in DOMAIN answer : answer[i].lang = "python"}
Candidates(answer) == IF OfLanguage(answer) = {} THEN DOMAIN answer ELSE OfLanguage(answer)
HasCode(answer) ==
  /\ Candidates(answer) # {}
  /\ problem.single => \A i, j \in Candidates(answer) : i = j
Code(answer) == answer[Min(Candidates(answer))].code

(* step() *)
Asked == IF steps + 1 >= JudgeAttempts THEN "over" ELSE "ask"
CannotParse(answer) ==
  /\ judge = "ask" /\ ~HasCode(answer)
  /\ steps' = steps + 1 /\ judge' = Asked
  /\ said' = [Silent EXCEPT !.parse = FALSE, !.compile = FALSE]
  /\ UNCHANGED <<problem, program, runner, elapsed, verdicts, results>>

Submit(answer) ==
  /\ judge = "ask" /\ HasCode(answer)
  /\ steps' = steps + 1 /\ judge' = "wait"
  /\ program' = Code(answer)
  /\ runner' = "load" /\ elapsed' = 0 /\ verdicts' = <<>> /\ results' = <<>>
  /\ UNCHANGED <<problem, said>>

-----------------------------------------------------------------------------
(* The runner.  A test that hangs, or exits where only Exception is caught, *)
(* ends the process: SIGALRM has no handler.                                *)

Takes(slow) == elapsed' = elapsed + (IF slow THEN 1 ELSE 0)
Answer(vs) == verdicts' = vs /\ runner' = "answered"
Dies == runner' = "dead" /\ UNCHANGED verdicts

(* compile_code and get_function *)
Load ==
  /\ runner = "load"
  /\ Takes(program.slow \/ program.loads = "hang")
  /\ CASE program.loads \in {"hang", "exit"} -> Dies
       [] program.loads = "error" \/ (program.loads = "ok" /\ ~program.defines) -> Answer(<<-1>>)
       [] program.loads = "ok" /\ program.defines -> runner' = "test" /\ UNCHANGED verdicts
  /\ UNCHANGED <<problem, judge, steps, program, results, said>>

(* grade_stdio: lines are equal, or all their tokens are equal decimals *)
Decimals(line) == [i \in DOMAIN line |-> Number[line[i]]]
IsDecimal(line) == \A i \in DOMAIN line : line[i] \in DOMAIN Number
LineAgrees(out, gt) ==
  out = gt \/ (IsDecimal(out) /\ IsDecimal(gt) /\ Decimals(out) = Decimals(gt))
PrintsAgreeShort(out, gt) == \A i \in DOMAIN out \cap DOMAIN gt : LineAgrees(out[i], gt[i])
PrintsAgree(out, gt) == Len(out) = Len(gt) /\ \A i \in DOMAIN gt : LineAgrees(out[i], gt[i])

(* grade_call: a tuple is a list, and the element of a list may stand alone *)
ReturnsAgree(ret, gt) ==
  LET value == IF ret.kind = "tuple" THEN [ret EXCEPT !.kind = "list"] ELSE ret
  IN \/ value = gt
     \/ /\ gt.kind = "list" /\ gt.items # <<>>
        /\ value = [kind |-> "atom", items |-> <<gt.items[1]>>]

Agrees(run, gt) ==
  run.ends \in (IF problem.fn THEN {"ok"} ELSE {"ok", "exit"})
  /\ IF problem.fn THEN ReturnsAgree(run.out, gt) ELSE PrintsAgree(run.out, gt)

RunTest ==
  /\ runner = "test"
  /\ LET k   == Len(verdicts) + 1
         run == program.runs[k]
     IN /\ Takes(run.slow \/ run.ends = "hang")
        /\ CASE run.ends = "hang" \/ (run.ends = "exit" /\ problem.fn) -> Dies
             [] run.ends = "raise" -> Answer(Append(verdicts, -4))
             [] run.ends \notin {"hang", "raise"} /\ ~(run.ends = "exit" /\ problem.fn) ->
                  IF ~Agrees(run, problem.expected[k]) THEN Answer(Append(verdicts, -2))
                  ELSE /\ verdicts' = Append(verdicts, 0)
                       /\ runner' = IF k = NTests THEN "answered" ELSE "test"
  /\ UNCHANGED <<problem, judge, steps, program, results, said>>

-----------------------------------------------------------------------------
(* exec_lcbcodegen_tests: one poll for all the tests; a process that died   *)
(* is reported with its stderr.  0 stands for True.                         *)

StatusOf(v) ==
  CASE v = 0  -> "SUCCESS"
    [] v = -1 -> "SYNTAX_ERROR"
    [] v = -2 -> "FAILURE"
    [] v = -4 -> "EXCEPTION"

Receive ==
  /\ judge = "wait" /\ runner \in {"answered", "dead"} /\ elapsed <= NTests
  /\ results' = IF runner = "dead" THEN <<"FAILURE">>
                ELSE [k \in DOMAIN verdicts |-> StatusOf(verdicts[k])]
  /\ judge' = "judge" /\ runner' = "none"
  /\ UNCHANGED <<problem, steps, program, elapsed, verdicts, said>>

PollTimesOut ==
  /\ judge = "wait" /\ elapsed >= NTests
  /\ results' = <<"TIMEOUT">>
  /\ judge' = "judge" /\ runner' = "none"
  /\ UNCHANGED <<problem, steps, program, elapsed, verdicts, said>>

(* spawn() or recv() raises *)
ExecRaises ==
  /\ judge = "wait"
  /\ results' = <<"UNKNOWN">>
  /\ judge' = "judge" /\ runner' = "none"
  /\ UNCHANGED <<problem, steps, program, elapsed, verdicts, said>>

-----------------------------------------------------------------------------
(* code_exec_outcomes, _terminal_condition and code_exec_feedback *)

AllSucceed(rs) == \A k \in DOMAIN rs : rs[k] = "SUCCESS"
Public == SubSeq(results, 1, Min({Len(results), problem.public}))
Outcomes ==
  [parse |-> TRUE, compile |-> \A k \in DOMAIN results : results[k] # "SYNTAX_ERROR",
   pass |-> AllSucceed(results), public |-> AllSucceed(Public),
   failed |-> {k \in DOMAIN Public : Public[k] # "SUCCESS"}]
Terminal == steps >= JudgeAttempts \/ Outcomes.public
Judge ==
  /\ judge = "judge"
  /\ said' = Outcomes
  /\ judge' = IF Terminal THEN "over" ELSE "ask"
  /\ UNCHANGED <<problem, steps, program, runner, elapsed, verdicts, results>>

JudgeInit ==
  /\ problem \in Problems /\ judge = "ask" /\ steps = 0 /\ program = NoProgram
  /\ runner = "none" /\ elapsed = 0 /\ verdicts = <<>> /\ results = <<>> /\ said = Silent
JudgeNext ==
  \/ \E answer \in Answers[problem] : CannotParse(answer) \/ Submit(answer)
  \/ Load \/ RunTest \/ Receive \/ PollTimesOut \/ ExecRaises \/ Judge
JudgeSpec == JudgeInit /\ [][JudgeNext]_jvars

-----------------------------------------------------------------------------
(* What a test shows of the program, by itself: it loads, and this test ends *)
(* in time with the right output, its decimals written in any way.           *)
SameToken(a, b) == a = b \/ ({a, b} \subseteq DOMAIN Number /\ Number[a] = Number[b])
SamePrint(out, gt) ==
  /\ Len(out) = Len(gt)
  /\ \A i \in DOMAIN gt :
       Len(out[i]) = Len(gt[i]) /\ \A j \in DOMAIN gt[i] : SameToken(out[i][j], gt[i][j])
SameReturn(ret, gt) ==
  \/ ret.items = gt.items
  \/ gt.kind = "list" /\ ret.items = SubSeq(gt.items, 1, 1)
Right(k) ==
  /\ program.loads = "ok" /\ program.defines
  /\ program.runs[k].ends \in (IF problem.fn THEN {"ok"} ELSE {"ok", "exit"})
  /\ IF problem.fn THEN SameReturn(program.runs[k].out, problem.expected[k])
                   ELSE SamePrint(program.runs[k].out, problem.expected[k])
Judged == judge \in {"ask", "over"} /\ results # <<>> /\ said.parse

(***************************************************************************)
(* A program that passes is right in every test, and public_pass says that *)
(* it is right in the public ones, wherever the runner stopped, died or    *)
(* was given up; what does not compile is right in none.                   *)
(***************************************************************************)
PassDeserved ==
  Judged =>
    /\ said.pass => \A k \in 1..NTests : Right(k)
    /\ said.public => \A k \in 1..problem.public : Right(k)
    /\ said.pass => said.public
    /\ ~said.compile => \A k \in 1..NTests : ~Right(k)
=============================================================================
