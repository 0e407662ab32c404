------------------------------ MODULE MCParts ------------------------------
(***************************************************************************)
(* The parts of the repository that work on their own, checked side by     *)
(* side: a behaviour chooses a part, and that part alone moves.            *)
(***************************************************************************)
EXTENDS IntervalSet, HostCache, DataPipeline, SweEval, ModalBackend, CodeJudge,
        MathJudge, Outcomes, Serving, PrefillChunks, Trajectory

CONSTANTS
  Parts,                 \* the parts that this run chooses from
  pa, pb,                \* contents of pages of the host cache
  la, lb, lc,            \* lines and items of the data pipeline
  j1, j2, j3, i1, i2,    \* predictions and instances of the evaluation
  ta, tb                 \* its tests

VARIABLE part  \* the part that moves

(* Host cache: prompts that share a first page, one a prefix of another. *)
MCPrompts == {<<pa>>, <<pa, pb>>, <<pa, pa>>, <<pb, pa>>, <<>>}

(* Data: three files, an empty one among them, a range and a list. *)
MCSources ==
  << [kind |-> "lines", vals |-> <<la, lb, la>>], [kind |-> "range", begin |-> 3, end |-> 5],
     [kind |-> "lines", vals |-> <<>>], [kind |-> "list", vals |-> <<lb, lc>>],
     [kind |-> "lines", vals |-> <<lc, la>>] >>
MCBytes == (la :> 2) @@ (lb :> 1) @@ (lc :> 3)
MCFilter ==
  (la :> "keep") @@ (lb :> "drop") @@ (lc :> "raise") @@ (3 :> "keep") @@ (4 :> "drop")

(* Evaluation: two samples of an instance with one patch, of two files, and   *)
(* one that only patch(1) applies; an instance whose log django's parser       *)
(* reads, and one with pytest as parser.                                       *)
MCDataSets == {{j1, j2}, {j1, j3}}
MCInstanceOf == (j1 :> i1) @@ (j2 :> i2) @@ (j3 :> i1)
MCPatchOf == (j1 :> "two files") @@ (j2 :> "fuzzy") @@ (j3 :> "two files")
MCFiles == (j1 :> {1, 2}) @@ (j2 :> {1}) @@ (j3 :> {1, 2})
MCStrict == (j1 :> {1, 2}) @@ (j2 :> {}) @@ (j3 :> {1, 2})
MCLoose == (j1 :> {1, 2}) @@ (j2 :> {1}) @@ (j3 :> {1, 2})
MCFirstWord == (ta :> "test_a") @@ (tb :> "test_b")
MCApplyCmds == <<"git", "reject", "batch", "git", "forward">>
MCInitCmds == (i1 :> TRUE) @@ (i2 :> FALSE)
MCTestParser == (i1 :> "none") @@ (i2 :> "pytest")
MCRepoParser == (i1 :> "django") @@ (i2 :> "seaborn")
MCF2P == (i1 :> {ta}) @@ (i2 :> {ta})
MCP2P == (i1 :> {tb}) @@ (i2 :> {})
MCLogs ==
  { << <<"patch applied okay">>, <<"PASSED", ta>>, <<"FAILED", tb>> >>,
    << <<"patch applied okay">>, <<"FAILED", ta>>, <<"PASSED", tb>> >>,
    << <<"Applied Patch", "(pred)">>, <<ta, "...", "ok">>, <<tb, "...", "noise">>, <<"ok">> >>,
    << <<"Applied Patch", "(pred)">>, <<tb, "...", "noise">>, <<"ok">> >>,
    << <<"Applied Patch", "(pred)">>, <<ta, "...", "ok">>, <<tb, "...", "FAIL">>, <<"FAIL:", tb>> >>,
    << <<"Applied Patch", "(pred)">>, <<ta, "...", "ok">>, <<tb, "...", "ok">>, <<"FAIL:", ta>> >>,
    << <<"Applied Patch", "(pred)">>, <<tb, "...", "Testing against Django">>,
       <<ta, "...", "ok">>, <<"silenced).">>, <<"ok">> >>,
    << <<"Applied Patch", "(test)">>, <<"Patch Apply Failed">>, <<tb, "...", "FAIL">> >> }

(* Code: a problem of each kind with a public and a private test, and        *)
(* programs that agree in value, are wrong, raise, hang, exit or are slow.    *)
MCNumber == ("1" :> 1) @@ ("1.0" :> 1) @@ ("2" :> 2)
Atom(x) == [kind |-> "atom", items |-> <<x>>]
List(kind, xs) == [kind |-> kind, items |-> xs]
Printing ==
  [fn |-> FALSE, public |-> 1, single |-> TRUE,
   expected |-> << << <<"1">> >>, << <<"1", "2">>, <<"x">> >> >>]
Calling ==
  [fn |-> TRUE, public |-> 1, single |-> FALSE,
   expected |-> << Atom("1"), List("list", <<"1", "2">>) >>]
MCProblems == {Printing, Calling}
RightOut(p) ==
  IF p.fn THEN << Atom("1"), List("tuple", <<"1", "2">>) >>
          ELSE << << <<"1.0">> >>, << <<"1.0", "2">>, <<"x">> >> >>
WrongOut(p) ==
  IF p.fn THEN << Atom("2"), List("list", <<"2">>) >>
          ELSE << << <<"1">>, <<"x">> >>, << <<"1", "2">>, <<"1">> >> >>
Ending(how, slow, out) == [ends |-> how, slow |-> slow, out |-> out]
RunsOf(p, k, slow) ==
  {Ending("ok", s, o) : s \in slow, o \in {RightOut(p)[k], WrongOut(p)[k]}}
  \cup {Ending(h, FALSE, RightOut(p)[k]) : h \in {"raise", "hang", "exit"}}
Source(loads, defines, slow, rs) ==
  [loads |-> loads, defines |-> defines, slow |-> slow, runs |-> rs]
Broken == Source("error", TRUE, FALSE, <<>>)
ProgramsOf(p, slow) ==
  {Source("ok", TRUE, s, <<r, q>>) : s \in slow, r \in RunsOf(p, 1, slow), q \in RunsOf(p, 2, slow)}
  \cup {Source(l, FALSE, FALSE, <<>>) : l \in {"ok", "exit", "hang"}} \cup {Broken}
Fence(lang, code) == [lang |-> lang, code |-> code]
Fences(langs) == [k \in DOMAIN langs |-> Fence(langs[k], Broken)]
AnswersWith(slow) ==
  [p \in MCProblems |->
     {<<Fence("python", c)>> : c \in ProgramsOf(p, slow)}
     \cup {Fences(ls) : ls \in {<<>>, <<"">>, <<"", "">>, <<"", "python">>, <<"python", "python">>}}]
MCAnswers == AnswersWith(BOOLEAN)
MCQuickAnswers == AnswersWith({FALSE})

(* Math: numbers written in several ways, an interval, pairs, matrices with   *)
(* a row and with a column, capitals, a percent sign, and a tower of powers    *)
(* that evalf does not finish.                                                *)
Half == <<"5.0000e-01">>
Interval01 == <<"(", "1/2", ",", "1", ")">>
RowOf(type, x) == <<type, "1", "&", x, "end">>
Column == <<"pmatrix", "1", "\\", "0.5", "end">>
TightColumn == <<"pmatrix", "1", "\\", "\\", "0.5", "end">>
RoundedRow == <<"pmatrix", "1", "&", "(", "0.5", ")", "end">>
Tower == <<"9^9^9">>
Halves == {<<"0.5">>, <<"1/2">>, <<"{", "1/2", "}">>}
Polys == {<<"1", "+", "x">>, <<"x", "+", "1">>}
MCExprs ==
  Halves \cup Polys \cup {RowOf("pmatrix", "0.5"), RowOf("pmatrix", "1/2"), RowOf("bmatrix", "0.5")}
  \cup {Interval01, <<"(", "0.5", ",", "1", ")">>, <<"[", "1/2", ",", "1", ")">>,
        <<"(", "1", ",", "1/2", ")">>, <<"(", "(", "1", ",", "1/2", ")", ")">>,
        <<"1/2", ",", "1">>, <<"1", ",", "1/2">>, <<"pmatrix", "1", "end">>, Column, TightColumn,
        RoundedRow, <<"X", "+", "1">>, <<"pi">>, <<"pi", "%">>, Tower, <<>>}
MCMeaning ==
  [e \in MCExprs \cup {AsJudged(f) : f \in MCExprs} |->
     CASE e \in Halves -> Half
       [] e = <<"(", "0.5", ",", "1", ")">> -> Interval01
       [] e \in {RowOf("pmatrix", "1/2"), RoundedRow} -> RowOf("pmatrix", "0.5")
       [] e \in Polys -> <<"1", "+", "x">>
       [] OTHER -> e]
MCTruths ==
  {<<"1/2">>, Interval01, <<"1/2", ",", "1">>, RowOf("pmatrix", "0.5"), <<"x", "+", "1">>,
   <<"pi">>, Tower}
MCLatexValue == [e \in Halves |-> Half]
MCNormalized == (<<"{", "1/2", "}">> :> <<"1/2">>)
MCSymbolized == (<<"pi">> :> <<"3.1416e+00">>)
MCLowered == "X" :> "x"
MCExpanded == [e \in Polys |-> {<<"1", "+", "x">>}]
MCEvaluated == [e \in Halves |-> {Half}]
MCFloat == (<<"0.5">> :> 5) @@ (Half :> 5) @@ (<<"1">> :> 10)
Parse(expr, val) == [expr |-> expr, val |-> val]
MCParses ==
  [e \in MCExprs |-> IF e = <<>> THEN {} ELSE {Parse(TRUE, MCMeaning[e]), Parse(FALSE, e)}]
MCDiverges == {Tower}
Boxed(e) == <<"box">> \o e \o <<"end box">>
Thought == <<"think end">>
MCReplies ==
  {Thought \o Boxed(e) : e \in MCExprs}
  \cup {Boxed(<<"0.5">>) \o Thought \o Boxed(<<"1/2">>), Boxed(<<"1/2">>), Boxed(<<"1/2">>) \o Thought,
        Thought \o Boxed(<<"1">>) \o Boxed(<<"1/2">>), Thought \o <<"box">> \o Boxed(<<"1/2">>),
        Thought \o <<"1/2">>,
        Thought \o Boxed(<<"1/2">>) \o <<"box", "0.5">>, Thought \o <<"box", "1/2">>}

(* Outcomes: answers that tie in votes, in length or in both, without        *)
(* reasoning or without an answer; subsets of one, two, all and too many.     *)
Drawing(pass, answer, len, used) ==
  [pass |-> pass, answer |-> answer, tokens |-> len, steps |-> used]
MCOutcome ==
  {Drawing(TRUE, "x", 1, 1), Drawing(TRUE, "x", 2, 2), Drawing(FALSE, "x", 2, 1),
   Drawing(FALSE, "y", 1, 1), Drawing(TRUE, "y", 0, 1), Drawing(FALSE, "none", 1, 2)}
Ask(agg, m, k) == [agg |-> agg, m |-> m, k |-> k]
MCAsks ==
  {Ask("@", 0, 2), Ask("@", 0, 3), Ask("mean", 0, 1), Ask("max@", 1, 2), Ask("short@", 1, 2),
   Ask("short@", 2, 2), Ask("short@", 2, 3), Ask("majority@", 0, 2), Ask("majority@", 0, 3),
   Ask("majority@", 0, 5)}

(* Serving: tools the model was trained with, under other names and out of    *)
(* order, one it was not, and one it was not offered; calls that do not parse. *)
Fd(api, params) == [api |-> api, params |-> params, schema |-> TRUE]
Bash == Fd("Bash", {"command"})
Edit == Fd("Edit", {"file_path", "old_string", "new_string"})
Look == Fd("look", {})
MCToolSets == {<<Bash, Edit, Look>>, <<Look, Bash>>, <<>>}
Says(segs, stops) == [segs |-> segs, stops |-> stops]
MCOutputs ==
  {Says(<<>>, FALSE)} \cup
  {Says(s, TRUE) :
     s \in {<<>>, <<Text("a")>>, <<EndOfThought, Text("a")>>,
           <<Text("t"), EndOfThought, Text("a"), ToolCall("bash", "run"), ToolCall("edit", "fix")>>,
           <<ToolCall("look", "at"), Text("b"), ToolCall("bash", "run")>>,
           <<ToolCall("bash", "run"), EndOfThought, Text("a")>>,
           <<ToolCall("edit", "malformed")>>, <<ToolCall("edit", "two blocks")>>,
           <<ToolCall("cat", "all")>>}} \cup
  {Says(<<Text("t"), ToolCall("bash", "run")>>, FALSE)}

(* Prefill: three prompts of which the host cache has none or some pages,    *)
(* shorter and longer than a call; with log-probabilities, which the second  *)
(* set asks of lanes of a single token too.                                  *)
MCLanes == {l \in [len : 1..5, ready : 0..2] : l.ready * PageTokens <= l.len}
LongLanes == {l \in MCLanes : l.len - CachedTokens(l) > 1}
Batch(ls, lp) == [lanes |-> ls, logprobs |-> lp]
MCBatches ==
  {Batch(<<x, y, z>>, FALSE) : x, y, z \in MCLanes}
  \cup {Batch(<<x, y, z>>, TRUE) : x, y, z \in LongLanes}
MCLogprobBatches == {Batch(<<x, y, z>>, TRUE) : x, y, z \in MCLanes}

(* The other parts start from one of their initial states and stay there. *)
Elsewhere(p, x, xs) == part # p => x = CHOOSE y \in xs : TRUE
Still(p, partvars) == IF part = p THEN TRUE ELSE UNCHANGED partvars

PartsInit ==
  /\ part \in Parts
  /\ Elsewhere("judge", problem, Problems) /\ Elsewhere("math", truth, Truths)
  /\ Elsewhere("swe", dataset, DataSets)
  /\ Elsewhere("outcomes", asked, Asks) /\ Elsewhere("prefill", new, Batches)
  /\ SetsInit /\ Init /\ DataInit /\ EvalInit /\ BackendInit /\ JudgeInit /\ MathInit
  /\ OutcomesInit /\ ServingInit /\ PrefillInit /\ TrajectoryInit
PartsNext ==
  /\ UNCHANGED part
  /\ \/ part = "sets" /\ SetsNext
     \/ part = "cache" /\ Next
     \/ part = "data" /\ DataNext
     \/ part = "swe" /\ EvalNext
     \/ part = "modal" /\ BackendNext
     \/ part = "judge" /\ JudgeNext
     \/ part = "math" /\ MathNext
     \/ part = "outcomes" /\ OutcomesNext
     \/ part = "serve" /\ ServingNext
     \/ part = "prefill" /\ PrefillNext
     \/ part = "traj" /\ TrajectoryNext
  /\ Still("sets", setvars) /\ Still("cache", vars) /\ Still("data", dvars)
  /\ Still("swe", evars) /\ Still("modal", mvars) /\ Still("judge", jvars)
  /\ Still("math", mathvars) /\ Still("outcomes", ovars) /\ Still("serve", svvars)
  /\ Still("prefill", pvars) /\ Still("traj", tvars)
PartsSpec ==
  PartsInit /\ [][PartsNext]_<<part, setvars, vars, dvars, evars, mvars, jvars, mathvars,
                              ovars, svvars, pvars, tvars>>
=============================================================================
