------------------------------- MODULE Outcomes -------------------------------
(***************************************************************************)
(* rl/envs/outcomes.py: the metrics of one prompt, made from the outcomes  *)
(* of the samples drawn for it, in the order in which they were recorded.  *)
(*                                                                         *)
(* A number is a fraction <<numerator, denominator>>.                      *)
(***************************************************************************)
EXTENDS Integers, Sequences, FiniteSets, Combinatorics, SequencesExt

CONSTANTS
  NSamples,   \* samples_per_prompt
  Asks,       \* aggregates that may be asked for "pass": [agg, m, k]
  Outcome,    \* outcomes of a sample: [pass, answer, tokens, steps]
  NoAnswer    \* an answer of None

ASSUME OutcomesAssumption ==
  /\ NSamples \in Nat \ {0}
  /\ \A o \in Outcome : o.tokens \in Nat /\ o.steps \in Nat

VARIABLES
  asked,    \* the aggregate
  samples,  \* the outcomes recorded so far
  metric,   \* its value
  stage     \* "run", "done", or "raised" when it divides by zero

ovars == <<asked, samples, metric, stage>>

-----------------------------------------------------------------------------
One == <<1, 1>>
Zero == <<0, 1>>
SumOver(S, f(_)) == FoldSet(LAMBDA x, acc : acc + f(x), 0, S)
Count(P(_)) == Cardinality({i \in DOMAIN samples : P(samples[i])})

(* pass_at_k: 1 minus the product of 1 - k / i *)
PassAtK(n, c, k) ==
  IF n - c < k THEN IF c > 0 THEN One ELSE Zero
  ELSE LET all  == FoldSet(LAMBDA i, acc : acc * i, 1, (n - c + 1)..n)
           none == FoldSet(LAMBDA i, acc : acc * (i - k), 1, (n - c + 1)..n)
       IN <<all - none, all>>

(* rank_score_at_k: each sample weighs as many subsets as it is the first of *)
RankScoreOneShort(n, k, scores) ==
  <<SumOver(1..(n - k), LAMBDA i : choose(n - i, k - 1) * scores[i]), choose(n, k)>>
RankScore(n, k, scores) ==
  <<SumOver(1..(n - k + 1), LAMBDA i : choose(n - i, k - 1) * scores[i]), choose(n, k)>>

(* sorted() is stable: by length, those of length 0 last *)
Ranks(len, i, j) ==
  LET late(x) == len[x] <= 0
  IN \/ ~late(i) /\ late(j)
     \/ late(i) = late(j) /\ (len[i] < len[j] \/ (len[i] = len[j] /\ i < j))
Ranked(S, len) == SetToSortSeq(S, LAMBDA i, j : Ranks(len, i, j))
Score(i) == IF samples[i].pass THEN 1 ELSE 0

ShortOne(k, len) ==
  LET order == Ranked(DOMAIN samples, len)
  IN RankScore(NSamples, k, [i \in DOMAIN order |-> Score(order[i])])

(* _short_m_at_k_impl: the best m of a subset vote.  An answer has its      *)
(* votes, the shortest of its lengths and its passes; None has -inf votes.  *)
Voters(S, m, len) ==
  LET order == Ranked(S, len) IN {order[i] : i \in 1..(IF m < Len(order) THEN m ELSE Len(order))}
VotesOf(a, V) == {i \in V : samples[i].answer = a}
Shortest(I, len) == CHOOSE x \in {len[i] : i \in I} : \A i \in I : x <= len[i]
Passes(I) == SumOver(I, Score)
Beats(a, b, V, len) ==
  LET x == VotesOf(a, V)
      y == VotesOf(b, V)
  IN IF a = NoAnswer \/ b = NoAnswer THEN b = NoAnswer
     ELSE \/ Cardinality(x) > Cardinality(y)
          \/ /\ Cardinality(x) = Cardinality(y)
             /\ \/ Shortest(x, len) < Shortest(y, len)
                \/ Shortest(x, len) = Shortest(y, len) /\ Passes(x) >= Passes(y)
Winner(V, len) ==
  LET answers == {samples[i].answer : i \in V}
  IN CHOOSE a \in answers : \A b \in answers : Beats(a, b, V, len)
WinnerPasses(V, len) ==
  LET a == Winner(V, len)
  IN IF a = NoAnswer THEN Zero ELSE <<Passes(VotesOf(a, V)), Cardinality(VotesOf(a, V))>>
Mean(S, f(_)) ==   \* of fractions
  LET den == FoldSet(LAMBDA x, acc : acc * f(x)[2], 1, S)
  IN <<SumOver(S, LAMBDA x : f(x)[1] * (den \div f(x)[2])), den * Cardinality(S)>>
ShortM(k, m, len) ==
  Mean(kSubset(k, DOMAIN samples), LAMBDA S : WinnerPasses(Voters(S, m, len), len))

(* aggregate_outcomes_from_spec.  majority@k draws the lengths at random. *)
Tokens == [i \in DOMAIN samples |-> samples[i].tokens]
RandomLengths == {len \in [DOMAIN samples -> 1..Len(samples)] :
                    \A i, j \in DOMAIN samples : i # j => len[i] # len[j]}
Metrics ==
  CASE asked.agg = "@" -> {PassAtK(NSamples, Count(LAMBDA o : o.pass), asked.k)}
    [] asked.agg = "max@" ->
         {PassAtK(NSamples, Count(LAMBDA o : o.pass /\ o.steps <= asked.m), asked.k)}
    [] asked.agg = "mean" -> {<<Count(LAMBDA o : o.pass), NSamples>>}
    [] asked.agg = "short@" /\ asked.m = 1 -> {ShortOne(asked.k, Tokens)}
    [] asked.agg = "short@" /\ asked.m # 1 -> {ShortM(asked.k, asked.m, Tokens)}
    [] asked.agg = "majority@" -> {ShortM(asked.k, asked.k, len) : len \in RandomLengths}

(* get_ks and validate_aggregation_spec look at the "@k" only; the others   *)
(* divide by the number of subsets, and there is none when k > n            *)
Validated == asked.agg = "@" => NSamples >= asked.k
DividesByZero == asked.agg \in {"short@", "majority@"} /\ asked.k > NSamples

Sampled(o) ==
  /\ stage = "run" /\ Len(samples) < NSamples
  /\ samples' = Append(samples, o)
  /\ UNCHANGED <<asked, metric, stage>>
AggregateFails ==
  /\ stage = "run" /\ Len(samples) = NSamples /\ DividesByZero
  /\ stage' = "raised"
  /\ UNCHANGED <<asked, samples, metric>>
Aggregate ==
  /\ stage = "run" /\ Len(samples) = NSamples /\ ~DividesByZero
  /\ stage' = "done" /\ metric' \in Metrics
  /\ UNCHANGED <<asked, samples>>

OutcomesInit ==
  asked \in Asks /\ Validated /\ samples = <<>> /\ metric = Zero /\ stage = "run"
OutcomesNext == AggregateFails \/ Aggregate \/ \E o \in Outcome : Sampled(o)
OutcomesSpec == OutcomesInit /\ [][OutcomesNext]_ovars

-----------------------------------------------------------------------------
(* What a drawn subset of samples may give, in twelfths. *)
Unit == 12
Drawn(S) == kSubset(asked.k, S)
NoLonger(i, j) ==
  \/ samples[j].tokens = 0
  \/ samples[i].tokens # 0 /\ samples[i].tokens <= samples[j].tokens
Panels(S) ==  \* the samples that vote
  IF asked.agg = "majority@" THEN {S}
  ELSE {V \in kSubset(IF asked.m < asked.k THEN asked.m ELSE asked.k, S) :
          \A i \in V, j \in S \ V : NoLonger(i, j)}
Favourites(V) ==
  LET answers == {samples[i].answer : i \in V} \ {NoAnswer}
      votes(a) == Cardinality(VotesOf(a, V))
  IN {a \in answers : \A b \in answers : votes(a) >= votes(b)}
Shares(V) ==
  IF Favourites(V) = {} THEN {0}
  ELSE {(Unit * Passes(VotesOf(a, V))) \div Cardinality(VotesOf(a, V)) : a \in Favourites(V)}
Gives(S) ==
  CASE asked.agg \in {"@", "mean"} -> {IF \E i \in S : samples[i].pass THEN Unit ELSE 0}
    [] asked.agg = "max@" ->
         {IF \E i \in S : samples[i].pass /\ samples[i].steps <= asked.m THEN Unit ELSE 0}
    [] asked.agg = "short@" /\ asked.m = 1 ->
         {Unit * Score(i) : i \in {x \in S : \A j \in S : NoLonger(x, j)}}
    [] OTHER -> UNION {Shares(V) : V \in Panels(S)}

(***************************************************************************)
(* A metric is the mean, over the subsets of k samples, of what a subset   *)
(* gives: whether one of it passes; whether one with the shortest          *)
(* reasoning passes; how often an answer passes that most of those who     *)
(* vote have given.  Where several qualify it lies between the extremes.   *)
(***************************************************************************)
EstimatesMean ==
  stage = "done" =>
    LET subsets == Drawn(DOMAIN samples)
        value   == Unit * metric[1] * Cardinality(subsets)
    IN /\ metric[2] * SumOver(subsets, LAMBDA S : Min(Gives(S))) <= value
       /\ value <= metric[2] * SumOver(subsets, LAMBDA S : Max(Gives(S)))
=============================================================================
