------------------------------ MODULE SweGrade ------------------------------
(***************************************************************************)
(* How a test log becomes a verdict: eval_backend/utils/log_parsers.py and *)
(* grading.py.  A log is a sequence of lines, a line a sequence of words:  *)
(* names of tests, statuses and the marks the parsers look for.  Renaming  *)
(* of tests (options, colours, MouseButton) is left out.                   *)
(***************************************************************************)
EXTENDS Integers, Sequences, FiniteSets, SequencesExt

CONSTANTS
  Tests,     \* the names of tests, as "test_a (module.Class)"
  FirstWord  \* per test, the first word of its name

Status == {"FAILED", "PASSED", "SKIPPED", "ERROR", "XFAIL"}
NoTest == "None"

(* what a parser knows after some lines: the status map, django's prev_test *)
(* and whether it raised IndexError *)
Blank == [sm |-> <<>>, prev |-> NoTest, err |-> FALSE]
Is(acc, t, st) ==
  [acc EXCEPT !.sm = [u \in DOMAIN acc.sm \cup {t} |-> IF u = t THEN st ELSE acc.sm[u]]]
Raises(acc) == [acc EXCEPT !.err = TRUE]
Starts(line) == line # <<>> /\ line[1] \in Status
Ends(line) == line # <<>> /\ Last(line) \in Status

(* parse_log_pytest, parse_log_pytest_options, parse_log_matplotlib: the    *)
(* summary lines of pytest -rA, "PASSED name"                              *)
PytestLineKeeps(acc, line) ==
  IF Starts(line) /\ Len(line) > 1 /\ line[2] \notin DOMAIN acc.sm
  THEN Is(acc, line[2], line[1]) ELSE acc
PytestLine(acc, line) ==
  IF Starts(line) /\ Len(line) > 1 THEN Is(acc, line[2], line[1]) ELSE acc

(* parse_log_pytest_v2, parse_log_pytest_pydantic: older versions write     *)
(* "name PASSED"; a status alone on its line is not expected               *)
PytestV2Line(acc, line) ==
  IF Starts(line) THEN IF Len(line) > 1 THEN Is(acc, line[2], line[1]) ELSE Raises(acc)
  ELSE IF Ends(line) THEN Is(acc, line[1], line[2]) ELSE acc

SeabornLine(acc, line) ==
  IF Starts(line) /\ line[1] = "FAILED"
  THEN IF Len(line) > 1 THEN Is(acc, line[2], "FAILED") ELSE Raises(acc)
  ELSE IF Len(line) > 2 /\ line[2] = "PASSED" THEN Is(acc, line[1], "PASSED")
  ELSE IF Starts(line) /\ line[1] = "PASSED"
  THEN IF Len(line) > 1 THEN Is(acc, line[2], "PASSED") ELSE Raises(acc)
  ELSE acc

(* parse_log_sympy: "name E", "name F" or "name ok"; the headers of the     *)
(* failures name files, never a test                                       *)
SympyVerdict == [E |-> "ERROR", F |-> "FAILED", ok |-> "PASSED"]
SympyLine(acc, line) ==
  IF line # <<>> /\ line[1] \in Tests /\ Last(line) \in DOMAIN SympyVerdict
  THEN Is(acc, line[1], SympyVerdict[Last(line)]) ELSE acc

(* parse_log_django: "name ... ok", "FAIL: name", which is kept by the first *)
(* word of the name; a line that begins with ok belongs to the last test that *)
(* was begun                                                                  *)
DjangoVerdict == [ok |-> "PASSED", skipped |-> "SKIPPED", FAIL |-> "FAILED", ERROR |-> "ERROR"]
Summary == [mark \in {"FAIL:", "ERROR:"} |-> IF mark = "FAIL:" THEN "FAILED" ELSE "ERROR"]
KeyOf(word) == IF word \in Tests THEN FirstWord[word] ELSE word
Begun(line) == Len(line) >= 3 /\ line[2] = "..."
SaysOf(line) ==
  Begun(line) /\ line[3] \in DOMAIN DjangoVerdict /\ (Len(line) = 3 \/ line[3] = "skipped")
Sums(line) == line # <<>> /\ line[1] \in DOMAIN Summary
DjangoLine(acc, line) ==
  LET begun == IF Begun(line) THEN [acc EXCEPT !.prev = line[1]] ELSE acc
      said  == IF SaysOf(line) THEN Is(begun, line[1], DjangoVerdict[line[3]]) ELSE begun
      sums  == IF ~Sums(line) THEN said
               ELSE IF Len(line) = 1 THEN Raises(said)
               ELSE Is(said, KeyOf(line[2]), Summary[line[1]])
  IN IF line # <<>> /\ line[1] = "ok" /\ sums.prev # NoTest
     THEN Is(sums, sums.prev, "PASSED") ELSE sums

(* Its closing patterns: a test interrupted by what the server prints, in one *)
(* line or in several, before the line of its ok, has passed.  The matches of *)
(* a pattern do not overlap.                                                   *)
Oked(lines, i) == i + 1 \in DOMAIN lines /\ lines[i + 1] = <<"ok">>
Silenced(lines, i) ==
  {k \in i..Len(lines) : lines[k] # <<>> /\ Last(lines[k]) = "silenced)." /\ Oked(lines, k)}
Interrupts(line) == Begun(line) /\ line[3] = "Testing against Django"
Ahead(lines, i) ==
  {m \in 1..(i - 1) : Interrupts(lines[m]) /\ Silenced(lines, m) \ Silenced(lines, i) = {}}
Resumes(lines, i) ==
  \/ /\ lines[i][3] \in {"Internal Server Error", "System check"}
     /\ Len(lines[i]) = 3 /\ Oked(lines, i)
  \/ Interrupts(lines[i]) /\ Silenced(lines, i) # {} /\ Ahead(lines, i) = {}
Interrupted(lines) == {i \in DOMAIN lines : Begun(lines[i]) /\ Resumes(lines, i)}
Resumed(lines) == {lines[i][1] : i \in Interrupted(lines)}
Closing(acc, lines) ==
  [acc EXCEPT !.sm = [u \in DOMAIN acc.sm \cup Resumed(lines) |->
                        IF u \in Resumed(lines) THEN "PASSED" ELSE acc.sm[u]]]

Parsers == {"pytest", "pytest_v2", "seaborn", "sympy", "django"}
ParseLine(parser, acc, line) ==
  CASE parser = "pytest"    -> PytestLine(acc, line)
    [] parser = "pytest_v2" -> PytestV2Line(acc, line)
    [] parser = "seaborn"   -> SeabornLine(acc, line)
    [] parser = "sympy"     -> SympyLine(acc, line)
    [] parser = "django"    -> DjangoLine(acc, line)
ReadLines(parser, lines) ==
  FoldLeft(LAMBDA acc, line : ParseLine(parser, acc, line), Blank, lines)
Parsed(parser, lines) ==
  IF parser = "django" THEN Closing(ReadLines(parser, lines), lines) ELSE ReadLines(parser, lines)

-----------------------------------------------------------------------------
(* get_logs_eval: [found, sm, err].  With test_parser "pytest" the log must *)
(* say that the patch applied; without one, the parser of the repository   *)
(* reads what follows the last mark of the patch.                          *)

Mentions(lines, mark) == \E i \in DOMAIN lines : lines[i] = <<mark>>
AfterPatch(lines) ==
  LET marks == {i \in DOMAIN lines : lines[i] = <<"Applied Patch", "(pred)">>}
  IN SubSeq(lines, (IF marks = {} THEN 0 ELSE Max(marks)) + 1, Len(lines))
Applied(lines) ==
  /\ ~Mentions(lines, "Patch Apply Failed")
  /\ \E i \in DOMAIN lines : lines[i] # <<>> /\ lines[i][1] = "Applied Patch"

Unread == [found |-> FALSE, sm |-> <<>>, err |-> FALSE]
Reading(p) == [found |-> ~p.err, sm |-> p.sm, err |-> p.err]
LogsEval(testParser, repoParser, lines) ==
  CASE testParser = "pytest" ->
         IF Mentions(lines, "patch applied okay") THEN Reading(Parsed("pytest", lines)) ELSE Unread
    [] testParser = "none" ->
         IF Applied(lines) THEN Reading(Parsed(repoParser, AfterPatch(lines))) ELSE Unread
    [] testParser \notin {"pytest", "none"} -> [Unread EXCEPT !.err = TRUE]

-----------------------------------------------------------------------------
(* get_eval_tests_report, compute_*_to_pass, get_resolution_status *)

TestPassed(case, sm) == case \in DOMAIN sm /\ sm[case] \in {"PASSED", "XFAIL"}
TestFailedNever(case, sm) == case \in DOMAIN sm /\ sm[case] \in {"FAILED", "ERROR"}
TestFailed(case, sm) == case \notin DOMAIN sm \/ sm[case] \in {"FAILED", "ERROR"}

Split(cases, sm) ==
  [success |-> {c \in cases : TestPassed(c, sm)},
   failure |-> {c \in cases : ~TestPassed(c, sm) /\ TestFailed(c, sm)}]
Report(f2p, p2p, sm) == [f2p |-> Split(f2p, sm), p2p |-> Split(p2p, sm)]

(* a rate is [num, den]; with no test left it is 1 *)
Rate(r) ==
  LET total == Cardinality(r.success) + Cardinality(r.failure)
  IN IF total = 0 THEN [num |-> 1, den |-> 1]
     ELSE [num |-> Cardinality(r.success), den |-> total]
ResolutionStatus(report) ==
  LET f2p == Rate(report.f2p)
      p2p == Rate(report.p2p)
  IN IF f2p.num = f2p.den /\ p2p.num = p2p.den THEN "FULL"
     ELSE IF f2p.num \in 1..(f2p.den - 1) /\ p2p.num = p2p.den THEN "PARTIAL" ELSE "NO"

(* get_eval_report: its "resolved" *)
Resolved(read, f2p, p2p) ==
  read.found /\ ResolutionStatus(Report(f2p, p2p, read.sm)) = "FULL"
=============================================================================
