------------------------------ MODULE MathJudge ------------------------------
(***************************************************************************)
(* MathThinkCWMDialogEnv (rl/envs/envs/math_think_dialog.py) judging an    *)
(* answer: the box is extracted from what follows the thinking, and two    *)
(* sandboxed judges compare its contents with the truth:                   *)
(* compare_runner.py with math_process.py, and math_verify_runner.py.      *)
(*                                                                         *)
(* A reply is a sequence of tokens: EndThink, Box for "$\boxed{", EndBox   *)
(* for "}$", brackets, separators, and names for the rest.  What sympy and *)
(* math_verify make of an expression is external.                          *)
(***************************************************************************)
EXTENDS Integers, Sequences, FiniteSets, SequencesExt

CONSTANTS
  Truths,        \* expressions a problem may have as answer
  Replies,       \* what the model may write
  EndThink, Box, EndBox,
  Thinks,        \* think: the answer is what follows the thinking
  StrictParsing, \* strict_parsing: the box ends the reply
  UseThinkTag,   \* use_think_tag: a reply thinks once, or the episode is over
  LatexValue,    \* per expression that parse_latex evaluates, its value to five digits
  Normalized,    \* per expression that has one, its normal form
  Lowered,       \* per token with capitals, itself in lower case
  Symbolized,    \* per expression with symbols (pi, sqrt, infinity), their values put in
  Expanded,      \* per expression, what sympy parses and expands it to
  Evaluated,     \* per expression, its values in the FLOAT_FORMATS
  Float,         \* per expression that is a number, its value
  Diverges,      \* expressions that parse_latex or evalf does not finish
  Parses,        \* per expression, what math_verify extracts: [expr, val]
  Meaning,       \* what a reader takes an expression for
  MathAttempts   \* max_attempts

ASSUME MathAssumption == MathAttempts \in Nat \ {0}

VARIABLES
  truth,
  math,      \* "ask", "ours", "verify" or "over"
  tries,     \* step_id
  reply,     \* the last of past_actions
  boxed,     \* the expression that is judged
  ours,      \* CompareResult of the first judge: result and info
  mathSaid   \* the outcomes of the last reply

mathvars == <<truth, math, tries, reply, boxed, ours, mathSaid>>

NoOutcomes == [answered |-> FALSE, ours |-> FALSE, verify |-> FALSE, pass |-> FALSE]
NotJudged == [result |-> FALSE, info |-> "none"]

-----------------------------------------------------------------------------
(* _extract_reasoning_and_answer: exactly one box, at the end with strict   *)
(* parsing; the contents of its last \boxed (extract_result_from_boxed).    *)

Indices(s, t) == {i \in DOMAIN s : s[i] = t}
AfterThinking(r) ==
  IF ~Thinks THEN r ELSE SubSeq(r, Min(Indices(r, EndThink)) + 1, Len(r))

(* findall: a match goes from a Box to the first EndBox after it *)
Matches(s) ==
  FoldLeft(LAMBDA m, t : IF t = Box THEN [m EXCEPT !.open = TRUE]
                         ELSE IF t = EndBox /\ m.open THEN [open |-> FALSE, n |-> m.n + 1]
                         ELSE m,
           [open |-> FALSE, n |-> 0], s).n
EndsInBox(s) == IsSuffix(<<EndBox>>, s) \/ IsSuffix(<<EndBox, ".">>, s)
OneMatch(s) ==
  IF StrictParsing THEN EndsInBox(s) /\ Indices(s, Box) # {} ELSE Matches(s) = 1
HasAnswerLoose(r) ==
  (Thinks => Indices(r, EndThink) # {}) /\ Indices(AfterThinking(r), Box) # {}
HasAnswer(r) ==
  (Thinks => Indices(r, EndThink) # {}) /\ OneMatch(AfterThinking(r))

(* the match that is taken: lazy, so it starts at the first Box *)
Matched(s) ==
  LET from == Min(Indices(s, Box))
      ends == {i \in Indices(s, EndBox) : i > from}
  IN SubSeq(s, from, IF StrictParsing THEN Max(ends) ELSE Min(ends))

(* braces nest, so the box ends where its own brace is closed; one that is *)
(* not closed gives nothing                                                *)
Braces(s, i) ==
  Cardinality({k \in 1..i : s[k] = "{"}) - Cardinality({k \in 1..i : s[k] \in {"}", EndBox}})
Unbraced(s) ==
  LET n == Max({k \in 0..(Len(s) \div 2) : \A m \in 1..k : s[m] = "{" /\ s[Len(s) - m + 1] = "}"})
  IN SubSeq(s, n + 1, Len(s) - n)
Contents(s) ==
  LET inside == SubSeq(s, Max(Indices(s, Box)) + 1, Len(s))
      closed == {i \in DOMAIN inside : Braces(inside, i) < 0}
  IN IF closed = {} THEN <<>> ELSE Unbraced(SubSeq(inside, 1, Min(closed) - 1))

(* eval_answer: a value takes the place of what it is written as *)
EvalAnswer(e) == IF e \in DOMAIN LatexValue THEN LatexValue[e] ELSE e

-----------------------------------------------------------------------------
(* compare_expressions_complex *)

SplitAt(s, seps) ==
  FoldLeft(LAMBDA parts, t : IF t \in seps THEN Append(parts, <<>>)
                             ELSE [parts EXCEPT ![Len(parts)] = Append(@, t)],
           << <<>> >>, s)

MatrixTypes == {"pmatrix", "bmatrix"}
IsMatrix(e) == Len(e) >= 2 /\ e[1] \in MatrixTypes /\ Last(e) = "end"
(* process_matrix: the cells of all rows, one after the other.  It removes   *)
(* "\ " first and splits at each backslash that is left: one between two rows *)
(* with a blank between them, two, with an empty cell, without                *)
Cells(e) == SplitAt(SubSeq(e, 2, Len(e) - 1), {"&", "\\"})

(* process_range: the pairs of brackets around all of e, then the parts.   *)
(* A bracket that closes before the end, or nothing left, ends it.         *)
Opens == {"(", "["}
Closes == {")", "]"}
Depth(e, i) ==
  Cardinality({k \in 1..i : e[k] \in Opens}) - Cardinality({k \in 1..i : e[k] \in Closes})
Wraps(e) == e # <<>> /\ e[1] \in Opens /\ Last(e) \in Closes
ClosesEarly(e) == \E i \in 1..(Len(e) - 1) : Depth(e, i) = 0
Layers(e) ==
  {n \in 0..Len(e) : \A m \in 0..(n - 1) :
     LET inner == SubSeq(e, m + 1, Len(e) - m) IN Wraps(inner) /\ ~ClosesEarly(inner)}
Parted(e) ==
  LET n     == Max(Layers(e))
      inner == SubSeq(e, n + 1, Len(e) - n)
  IN IF inner = <<>> THEN [braces |-> <<>>, parts |-> <<inner>>]
     ELSE [braces |-> [k \in 1..n |-> <<e[k], e[Len(e) - k + 1]>>],
           parts  |-> IF Wraps(inner) THEN <<inner>> ELSE SplitAt(inner, {","})]

(* compare_expressions_v2: numbers by value, else any two forms that agree;  *)
(* a form that is a number is kept by its value, and the round brackets       *)
(* around a form are taken off once for each of the three FLOAT_FORMATS       *)
NoPercent(e) == SubSeq(e, 1, Max({0} \cup {i \in DOMAIN e : e[i] # "%"}))
LowerCase(e) == [k \in DOMAIN e |-> IF e[k] \in DOMAIN Lowered THEN Lowered[e[k]] ELSE e[k]]
NormalForm(e) == IF e \in DOMAIN Normalized THEN Normalized[e] ELSE e
WithSymbols(e) == IF e \in DOMAIN Symbolized THEN Symbolized[e] ELSE e
Expansions(e) == IF e \in DOMAIN Expanded THEN Expanded[e] ELSE {}
Values(e) == IF e \in DOMAIN Evaluated THEN Evaluated[e] ELSE {}
AsNumber(f) == IF f \in DOMAIN Float THEN CHOOSE g \in DOMAIN Float : Float[g] = Float[f] ELSE f
InRound(f) == Len(f) >= 3 /\ f[1] = "(" /\ Last(f) = ")"
Peeled(fs) == fs \cup {SubSeq(f, 2, Len(f) - 1) : f \in {g \in fs : InRound(g)}}
FormsOf(e) ==
  LET p == NoPercent(e)
      n == NormalForm(p)
      s == WithSymbols(n)
  IN {AsNumber(f) : f \in Peeled(Peeled(Peeled({e, p, n, s, LowerCase(s)} \cup Values(s))))}
     \cup Expansions(n)
Agree(e, f) ==
  IF e \in DOMAIN Float /\ f \in DOMAIN Float THEN Float[e] = Float[f]
  ELSE FormsOf(e) \cap FormsOf(f) # {}
AllAgree(es, fs) == Len(es) = Len(fs) /\ \A i \in DOMAIN es : Agree(es[i], fs[i])

RangesAgree(e, f) ==
  /\ AllAgree(Parted(e).parts, Parted(f).parts)
  /\ Len(Parted(e).parts) = 2 => Parted(e).braces = Parted(f).braces
Same(e, f) ==
  /\ IsMatrix(e) <=> IsMatrix(f)
  /\ IF IsMatrix(e) /\ e[1] = f[1] THEN AllAgree(Cells(e), Cells(f)) ELSE RangesAgree(e, f)

(* eval_answer: run_with_timeout leaves its executor only when the call has *)
(* ended, so that one that diverges is ended by the poll alone              *)
NeverAnswers(e) == {e, truth} \cap Diverges # {}

(* verify: any pair of what was extracted, of one kind and equal *)
Verified(e) ==
  \E g \in Parses[truth], t \in Parses[e] : g.expr = t.expr /\ g.val = t.val

-----------------------------------------------------------------------------
(* step() *)

After(o) ==
  /\ mathSaid' = o
  /\ math' = IF tries' >= MathAttempts \/ o.pass THEN "over" ELSE "ask"
ThinksOnce(r) == Cardinality(Indices(r, EndThink)) = 1

ThinkTagMissing(r) ==
  /\ math = "ask" /\ UseThinkTag /\ ~ThinksOnce(r)
  /\ tries' = tries + 1 /\ reply' = r
  /\ mathSaid' = NoOutcomes /\ math' = "over"
  /\ UNCHANGED <<truth, boxed, ours>>

Reply(r) ==
  /\ math = "ask" /\ (UseThinkTag => ThinksOnce(r))
  /\ tries' = tries + 1 /\ reply' = r
  /\ IF HasAnswer(r)
     THEN /\ boxed' = Contents(Matched(AfterThinking(r)))
          /\ math' = "ours" /\ UNCHANGED mathSaid
     ELSE After(NoOutcomes) /\ UNCHANGED boxed
  /\ ours' = NotJudged
  /\ UNCHANGED truth

(* exec_compare_values and exec_math_verify_compare_values, one after the   *)
(* other: the runner answers, or its exception does, or the poll times out  *)
OursAnswers ==
  /\ math = "ours" /\ ~NeverAnswers(boxed)
  /\ ours' \in {[result |-> Same(EvalAnswer(boxed), EvalAnswer(truth)), info |-> ""],
                [result |-> FALSE, info |-> "exception"]}
  /\ math' = "verify"
  /\ UNCHANGED <<truth, tries, reply, boxed, mathSaid>>
OursTimesOut ==
  /\ math = "ours"
  /\ ours' = [result |-> FALSE, info |-> "Timeout"]
  /\ math' = "verify"
  /\ UNCHANGED <<truth, tries, reply, boxed, mathSaid>>

Verify ==
  /\ math = "verify"
  /\ UNCHANGED <<truth, tries, reply, boxed, ours>>
  /\ \E v \in {Verified(boxed), FALSE} :
       After([answered |-> TRUE, ours |-> ours.result, verify |-> v, pass |-> ours.result \/ v])

(* spawn() raises, and step() with it *)
JudgeFails ==
  /\ math \in {"ours", "verify"}
  /\ math' = "over"
  /\ UNCHANGED <<truth, tries, reply, boxed, ours, mathSaid>>

MathInit ==
  /\ truth \in Truths /\ math = "ask" /\ tries = 0 /\ reply = <<>> /\ boxed = <<>>
  /\ ours = NotJudged /\ mathSaid = NoOutcomes
MathNext ==
  \/ \E r \in Replies : ThinkTagMissing(r) \/ Reply(r)
  \/ OursAnswers \/ OursTimesOut \/ Verify \/ JudgeFails
MathSpec == MathInit /\ [][MathNext]_mathvars

-----------------------------------------------------------------------------
(***************************************************************************)
(* An answer passes only when the reply closes one box after its thinking  *)
(* and what is in it is what the problem asks for, up to what the judge    *)
(* does not tell apart: capitals, a percent sign, and in which rows of a   *)
(* matrix its cells are.  It takes the same parts in no other structure,   *)
(* and no answer is one of several.                                        *)
(***************************************************************************)
InOneRow(e) == [k \in DOMAIN e |-> IF IsMatrix(e) /\ e[k] = "\\" THEN "&" ELSE e[k]]
AsJudged(e) == LowerCase(SelectSeq(InOneRow(e), LAMBDA t : t # "%"))
=============================================================================
