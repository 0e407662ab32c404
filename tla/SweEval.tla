------------------------------ MODULE SweEval ------------------------------
(***************************************************************************)
(* eval_cli.py: a pool of threads runs eval_instance_modal (eval.py) for   *)
(* every prediction, and main() writes a line per result to eval.jsonl,    *)
(* which a later run reads to skip what it holds.                          *)
(*                                                                         *)
(* The threads share the host directory of an instance.  The sandbox, git  *)
(* apply and patch(1) are external; a prediction changes some files, and   *)
(* its state is the set of those that have the change.  What the eval       *)
(* script prints is one of Logs.                                           *)
(***************************************************************************)
EXTENDS SweGrade

CONSTANTS
  Jobs,        \* the predictions
  DataSets,    \* the datasets that eval_cli may be given, as sets of predictions
  InstanceOf,  \* per job, its instance_id
  PatchOf,     \* per job, its patch; samples of an instance may have the same
  Files,       \* per job, the files its patch changes
  Strict,      \* per job, those where git apply finds the context
  Loose,       \* per job, those where patch(1) finds it with some fuzz
  ApplyCmds,   \* GIT_APPLY_CMDS, by how they treat a tree
  InitCmds,    \* per instance, whether it has init_commands outside the shell
  TestParser,  \* per instance, its test_parser
  RepoParser,  \* per instance, the parser of its repository
  F2P, P2P,    \* per instance, FAIL_TO_PASS and PASS_TO_PASS
  Logs,        \* the logs an eval script may print
  MaxWorkers,  \* max_workers
  NoJob, NoLog,
  MaxRuns      \* bound: how often eval_cli is started

Instances == {InstanceOf[j] : j \in Jobs}
Key(j) == <<InstanceOf[j], PatchOf[j]>>
WordsOf(ls) == UNION {ToSet(ls[i]) : i \in DOMAIN ls}
LogWords == UNION {WordsOf(ls) : ls \in Logs}

ASSUME EvalAssumption ==
  /\ MaxWorkers \in Nat \ {0} /\ MaxRuns \in Nat
  /\ IsFiniteSet(Jobs) /\ DataSets \subseteq SUBSET Jobs
  /\ \A j \in Jobs : Strict[j] \subseteq Loose[j] /\ Loose[j] \subseteq Files[j]
  /\ \A j, k \in Jobs : Key(j) = Key(k) =>
       Files[j] = Files[k] /\ Strict[j] = Strict[k] /\ Loose[j] = Loose[k]
  /\ ApplyCmds \in Seq({"git", "reject", "batch", "forward"})
  /\ \A i \in Instances : RepoParser[i] \in Parsers /\ IsFiniteSet(F2P[i]) /\ IsFiniteSet(P2P[i])
  /\ \A ls \in Logs : ls \in Seq(Seq(LogWords))

VARIABLES
  dataset,    \* the predictions that are evaluated
  at,         \* per job, where its thread is
  patchFile,  \* per instance, the job whose patch is in patch.diff
  logFile,    \* per instance, test_output.txt
  mine,       \* per job, the patch its sandbox was given
  files,      \* per job, the files of its sandbox that have the change
  box,        \* per job, its sandbox
  cmd,        \* per job, the next of ApplyCmds
  log,        \* per job, what its eval script printed
  outcome,    \* per job, the outcome of its EvalResult
  evalLines,  \* the lines of eval.jsonl, in order
  known,      \* existing_results_dict: per key, an outcome
  met,        \* the jobs that ran beside another of their instance
  runs        \* how often eval_cli was started

evars == <<dataset, at, patchFile, logFile, mine, files, box, cmd, log, outcome, evalLines, known,
           met, runs>>

Goes(j, from, to) == at[j] = from /\ at' = [at EXCEPT ![j] = to]
Active == {j \in Jobs : at[j] \notin {"queued", "returned", "recorded"}}

-----------------------------------------------------------------------------
(* run_eval: a result that is known is returned, else the directory of the *)
(* instance gets the patch.                                                *)

Cached(j) ==
  /\ at[j] = "queued" /\ Cardinality(Active) < MaxWorkers
  /\ Key(j) \in DOMAIN known /\ outcome' = [outcome EXCEPT ![j] = known[Key(j)]]
  /\ Goes(j, "queued", "returned")
  /\ UNCHANGED <<patchFile, logFile, mine, files, box, cmd, log, evalLines, known, met, runs>>

Beside(j) == {k \in Active : InstanceOf[k] = InstanceOf[j]}
WritePatch(j) ==
  /\ Goes(j, "queued", "read") /\ Cardinality(Active) < MaxWorkers
  /\ Key(j) \notin DOMAIN known
  /\ patchFile' = [patchFile EXCEPT ![InstanceOf[j]] = j]
  /\ met' = IF Beside(j) = {} THEN met ELSE met \cup Beside(j) \cup {j}
  /\ UNCHANGED <<logFile, mine, files, box, cmd, log, outcome, evalLines, known, runs>>

ReadPatch(j) ==
  /\ Goes(j, "read", "create")
  /\ mine' = [mine EXCEPT ![j] = patchFile[InstanceOf[j]]]
  /\ UNCHANGED <<patchFile, logFile, files, box, cmd, log, outcome, evalLines, known, met, runs>>

(* Sandbox.create, tried again after a GRPCError, and the entry point *)
Create(j) ==
  /\ Goes(j, "create", IF InitCmds[InstanceOf[j]] THEN "init" ELSE "apply")
  /\ box' = [box EXCEPT ![j] = "up"]
  /\ UNCHANGED <<patchFile, logFile, mine, files, cmd, log, outcome, evalLines, known, met, runs>>

(* the return statements and the except clause; finally releases the sandbox *)
Returns(j, o) ==
  /\ outcome' = [outcome EXCEPT ![j] = o]
  /\ box' = [box EXCEPT ![j] = IF @ = "up" THEN "released" ELSE @]
  /\ at' = [at EXCEPT ![j] = "returned"]

InitCommands(j) ==
  /\ at[j] = "init"
  /\ \/ Goes(j, "init", "apply") /\ UNCHANGED <<outcome, box>>
     \/ Returns(j, "env_error")
  /\ UNCHANGED <<patchFile, logFile, mine, files, cmd, log, evalLines, known, met, runs>>

(* whatever raises: the registry, creation that is refused ten times, exec *)
EnvError(j) ==
  /\ at[j] \in {"read", "create", "init", "apply", "run", "report"}
  /\ Returns(j, "env_error")
  /\ UNCHANGED <<patchFile, logFile, mine, files, cmd, log, evalLines, known, met, runs>>

-----------------------------------------------------------------------------
(***************************************************************************)
(* The tree after a command, and whether it returned 0.  git apply changes *)
(* all files or none, with --reject those it can; patch --batch takes a    *)
(* change that is there already for a reversed patch and takes it out,     *)
(* with --forward (or --force) it skips it.                                *)
(***************************************************************************)
AfterCmd(kind, p, t) ==
  CASE kind = "git"     -> IF t = {} /\ Strict[p] = Files[p] THEN Files[p] ELSE t
    [] kind = "reject"  -> t \cup Strict[p]
    [] kind = "batch"   -> (t \cup Loose[p]) \ t
    [] kind = "forward" -> t \cup Loose[p]
Succeeds(kind, p, t) ==
  CASE kind \in {"git", "reject"} -> t = {} /\ Strict[p] = Files[p]
    [] kind = "batch"   -> t \cup Loose[p] = Files[p]
    [] kind = "forward" -> t = {} /\ Loose[p] = Files[p]

ApplyPatch(j) ==
  /\ at[j] = "apply" /\ cmd[j] <= Len(ApplyCmds)
  /\ LET kind == ApplyCmds[cmd[j]] IN
     /\ files' = [files EXCEPT ![j] = AfterCmd(kind, mine[j], @)]
     /\ IF Succeeds(kind, mine[j], files[j])
        THEN Goes(j, "apply", "run") /\ UNCHANGED cmd
        ELSE cmd' = [cmd EXCEPT ![j] = @ + 1] /\ UNCHANGED at
  /\ UNCHANGED <<patchFile, logFile, mine, box, log, outcome, evalLines, known, met, runs>>

NotApplied(j) ==
  /\ at[j] = "apply" /\ cmd[j] > Len(ApplyCmds)
  /\ Returns(j, "fail")
  /\ UNCHANGED <<patchFile, logFile, mine, files, cmd, log, evalLines, known, met, runs>>

-----------------------------------------------------------------------------
(* The eval script: its output goes through the host file to the report. *)

WriteLog(j, to) ==
  /\ logFile' = [logFile EXCEPT ![InstanceOf[j]] = log'[j]]
  /\ at' = [at EXCEPT ![j] = to]
RunScript(j) ==
  /\ at[j] = "run"
  /\ \/ \E ls \in Logs :
          /\ log' = [log EXCEPT ![j] = [of |-> mine[j], files |-> files[j], lines |-> ls]]
          /\ WriteLog(j, "report") /\ UNCHANGED <<outcome, box>>
     \/ /\ Returns(j, "timeout")
        /\ logFile' = [logFile EXCEPT ![InstanceOf[j]] = NoLog] /\ UNCHANGED log
  /\ UNCHANGED <<patchFile, mine, files, cmd, evalLines, known, met, runs>>

ReadLog(j) ==
  LogsEval(TestParser[InstanceOf[j]], RepoParser[InstanceOf[j]],
           IF logFile[InstanceOf[j]] = NoLog THEN <<>> ELSE logFile[InstanceOf[j]].lines)
Verdict(j) ==
  IF ReadLog(j).err THEN "env_error"
  ELSE IF Resolved(ReadLog(j), F2P[InstanceOf[j]], P2P[InstanceOf[j]]) THEN "pass" ELSE "fail"
MakeReport(j) ==
  /\ at[j] = "report"
  /\ Returns(j, Verdict(j))
  /\ UNCHANGED <<patchFile, logFile, mine, files, cmd, log, evalLines, known, met, runs>>

-----------------------------------------------------------------------------
(* main(): the results as they complete; the next run after the end or a kill *)

RecordAll(j) ==
  /\ Goes(j, "returned", "recorded")
  /\ evalLines' = Append(evalLines, [key |-> Key(j), outcome |-> outcome[j]])
  /\ UNCHANGED <<patchFile, logFile, mine, files, box, cmd, log, outcome, known, met, runs>>
Record(j) ==
  /\ Goes(j, "returned", "recorded")
  /\ evalLines' = IF Key(j) \in DOMAIN known THEN evalLines
                  ELSE Append(evalLines, [key |-> Key(j), outcome |-> outcome[j]])
  /\ UNCHANGED <<patchFile, logFile, mine, files, box, cmd, log, outcome, known, met, runs>>

Forget ==
  /\ at' = [j \in Jobs |-> "queued"]
  /\ mine' = [j \in Jobs |-> NoJob] /\ files' = [j \in Jobs |-> {}]
  /\ box' = [j \in Jobs |-> "none"] /\ cmd' = [j \in Jobs |-> 1]
  /\ log' = [j \in Jobs |-> NoLog] /\ outcome' = [j \in Jobs |-> "none"]
LinesOf(key) == {n \in DOMAIN evalLines : evalLines[n].key = key}
RunAgain ==
  /\ runs < MaxRuns /\ runs' = runs + 1
  /\ known' = [key \in {r.key : r \in ToSet(evalLines)} |-> evalLines[Max(LinesOf(key))].outcome]
  /\ Forget /\ met' = {}
  /\ UNCHANGED <<dataset, patchFile, logFile, evalLines>>

EvalInit ==
  /\ dataset \in DataSets
  /\ at = [j \in Jobs |-> "queued"]
  /\ patchFile = [i \in Instances |-> NoJob] /\ logFile = [i \in Instances |-> NoLog]
  /\ mine = [j \in Jobs |-> NoJob] /\ files = [j \in Jobs |-> {}]
  /\ box = [j \in Jobs |-> "none"] /\ cmd = [j \in Jobs |-> 1]
  /\ log = [j \in Jobs |-> NoLog] /\ outcome = [j \in Jobs |-> "none"]
  /\ evalLines = <<>> /\ known = <<>> /\ met = {} /\ runs = 0

EvalJob(j) ==
  \/ Cached(j) \/ WritePatch(j) \/ ReadPatch(j) \/ Create(j) \/ InitCommands(j) \/ EnvError(j)
  \/ ApplyPatch(j) \/ NotApplied(j) \/ RunScript(j) \/ MakeReport(j) \/ Record(j)
EvalNext == RunAgain \/ \E j \in dataset : EvalJob(j) /\ UNCHANGED dataset
EvalSpec == EvalInit /\ [][EvalNext]_evars

-----------------------------------------------------------------------------
(***************************************************************************)
(* A prediction passes only on its own account: the tests ran in a tree    *)
(* with all of its patch and nothing else, each test that must pass was    *)
(* reported, and the last that was said of it in a line of its own is no   *)
(* failure (the summary at the end, FAIL: or ERROR: and the test, is kept   *)
(* under another name and tells nothing).  A prediction that ran beside     *)
(* another of its instance is left out: the two share the files of that    *)
(* instance, and either may be graded by those of the other.               *)
(***************************************************************************)
Names(line, t) == \E k \in DOMAIN line : line[k] = t /\ (k = 1 \/ ~Sums(line))
Said(lines, t) ==
  LET about == {i \in DOMAIN lines : Names(lines[i], t)}
  IN IF about = {} THEN {} ELSE {lines[Max(about)][k] : k \in DOMAIN lines[Max(about)]}
OwnAccount(j) ==
  /\ mine[j] = j /\ log[j].files = Files[j]
  /\ \A t \in F2P[InstanceOf[j]] \cup P2P[InstanceOf[j]] :
       /\ Said(log[j].lines, t) # {}
       /\ Said(log[j].lines, t) \cap {"FAILED", "ERROR", "F", "E", "FAIL", "FAIL:", "ERROR:"} = {}
PassEarned ==
  \A j \in Jobs \ met :
    at[j] \in {"returned", "recorded"} /\ outcome[j] = "pass" /\ log[j] # NoLog => OwnAccount(j)

(***************************************************************************)
(* However often eval_cli is killed and started again, eval.jsonl never    *)
(* holds more lines of an instance and a patch than there are predictions  *)
(* with them, and each prediction that is counted has a line there with    *)
(* the outcome it is counted with.                                         *)
(***************************************************************************)
Sharing(key) == {j \in dataset : Key(j) = key}
ResultsKept ==
  \A j \in dataset :
    /\ Cardinality(LinesOf(Key(j))) <= Cardinality(Sharing(Key(j)))
    /\ at[j] = "recorded" => \E n \in LinesOf(Key(j)) : evalLines[n].outcome = outcome[j]
=============================================================================
