--------------------------- MODULE RolloutProofs ---------------------------
(***************************************************************************)
(* Proofs about Rollout, for any environments and options, any limits on   *)
(* turns, attempts, contexts and answers.                                  *)
(*                                                                         *)
(* The invariant says, at each phase of the rollout thread, what the state *)
(* of the environment and its last transition are worth: of a tool         *)
(* environment, that a running sandbox is one its close() would destroy,   *)
(* that its tokens are those of the trajectory once the transition is      *)
(* appended, and that its patch is the last submission that succeeded; of  *)
(* a dialog with one attempt, what it may still write.                     *)
(***************************************************************************)
EXTENDS Rollout, TLAPS

Keys == Default \cup CodeExec \cup Reasoning \cup SweKeys
SweRec == [steps : Nat, tokens : Nat, patch : Nat, backend : BOOLEAN, cleaned : BOOLEAN]
DialogRec == [steps : Nat, tokens : Nat, mode : {"full", "answer_only"}]
TransRec ==
  [raised : BOOLEAN, action : Nat, obs : Nat, terminal : BOOLEAN, keys : SUBSET Keys,
   pass : BOOLEAN, judged : Nat, found : BOOLEAN, shared : BOOLEAN, had : BOOLEAN]
SampleRec ==
  [had : BOOLEAN, found : BOOLEAN, pass : BOOLEAN, judged : Nat, terminal : BOOLEAN,
   keys : SUBSET Keys]

TypeOK ==
  /\ cfg \in Configs /\ tr \in TransRec /\ failedOutcomes \in BOOLEAN
  /\ IF IsSwe THEN st \in SweRec ELSE st \in DialogRec
  /\ sandbox \in BOOLEAN /\ submitted \in Nat /\ attempt \in 1..MaxAttempts
  /\ phase \in {"start", "append", "act", "leave", "raised", "done", "failed"}
  /\ traj \in [len : Nat, terminated : BOOLEAN] /\ sample \in SUBSET SampleRec

-----------------------------------------------------------------------------
(* The invariant.  The operators are about a state s, a transition t, a     *)
(* trajectory of length l, a sandbox that runs or not and a submission.     *)

(* in an episode of a tool environment *)
SweRuns(s, t, runs, sub) ==
  /\ runs => s.backend /\ ~s.cleaned
  /\ ~t.terminal => ~s.cleaned
  /\ s.patch = sub /\ t.judged \in {None, sub}
  /\ t.pass => t.terminal /\ sub # None /\ t.judged = sub

(* the tokens counted are those of the trajectory with the transition *)
SweCounts(s, t, l) == ~t.terminal => s.tokens = l + t.action + t.obs

SweInv ==
  /\ phase \in {"append", "act", "leave"} => SweRuns(st, tr, sandbox, submitted)
  /\ phase = "append" => SweCounts(st, tr, traj.len)
  /\ phase = "act" => ~tr.terminal /\ st.tokens = traj.len
  /\ phase = "raised" => (sandbox /\ st.backend => ~st.cleaned)

(* one attempt and no tools: the answer, or thinking and a short answer *)
OneAnswer == cfg.attempts = 1 /\ ~cfg.tools
AskedFirst(s, l) == s.mode = "full" /\ s.tokens = 0 /\ l = PromptLen
AskedAgain(s, l) == s.mode = "answer_only" /\ l + AnswerOnlyLen <= PromptLen + MaxActionLen
DialogRuns(s, t, l) ==
  /\ l <= PromptLen + MaxActionLen
  /\ ~t.terminal => AskedFirst(s, l) \/ AskedAgain(s, l)

DialogInv ==
  /\ ~sandbox
  /\ OneAnswer => /\ phase = "append" => DialogRuns(st, tr, traj.len + tr.action + tr.obs)
                  /\ phase = "act" => ~tr.terminal /\ DialogRuns(st, tr, traj.len)
                  /\ traj.len <= PromptLen + MaxActionLen

(* the outcomes a transition has, but for the first *)
KeysInv ==
  /\ phase = "append" => tr.keys = OutcomesOf(cfg.kind) \/ (tr = InitialTransition /\ traj.len = 0)
  /\ phase = "leave" => tr.keys = OutcomesOf(cfg.kind)

IInv ==
  /\ TypeOK /\ KeysInv /\ SandboxReleased
  /\ phase # "done" => sample = {}
  /\ IF IsSwe THEN SweInv ELSE DialogInv
  /\ JudgedLast /\ WithinBudget /\ SameOutcomes

-----------------------------------------------------------------------------
(* What environments return *)

(* One that raised says nothing. *)
LEMMA RaisedFacts == Raised \in TransRec /\ Raised.raised = TRUE
BY DEF Raised, Transition, TransRec, None

(* Of a dialog, transitions that carry outcomes as well. *)
OutcomeOk(t, n, K) ==
  t \in TransRec /\ t.raised = FALSE /\ t.obs = 0 /\ t.action = n /\ t.keys = K
(* The outcome of an episode by its transitions. *)
LEMMA OutcomeFacts ==
  ASSUME NEW n \in Nat, NEW K \in SUBSET Keys, NEW p \in BOOLEAN, NEW h \in BOOLEAN
  PROVE  OutcomeOk(Outcome(n, K, p, h), n, K)
<1> DEFINE g == Goes(n, 0, K)
           g1 == [g EXCEPT !.pass = p]
           g2 == [g1 EXCEPT !.found = h]
           g3 == [g2 EXCEPT !.had = h]
<1>1. /\ g \in TransRec /\ g.raised = FALSE /\ g.action = n /\ g.obs = 0
      /\ g.terminal = FALSE /\ g.keys = K /\ g.judged = None
  BY DEF Goes, Transition, TransRec, None
<1>2. Outcome(n, K, p, h) = g3
  BY DEF Outcome
<1> HIDE DEF g
<1>3. /\ g1 \in TransRec /\ g1.raised = FALSE /\ g1.action = n /\ g1.obs = 0
      /\ g1.terminal = FALSE /\ g1.keys = K /\ g1.judged = None
  BY <1>1 DEF TransRec
<1> HIDE DEF g1
<1>4. /\ g2 \in TransRec /\ g2.raised = FALSE /\ g2.action = n /\ g2.obs = 0
      /\ g2.terminal = FALSE /\ g2.keys = K /\ g2.judged = None
  BY <1>3 DEF TransRec
<1> HIDE DEF g2
<1>5. /\ g3 \in TransRec /\ g3.raised = FALSE /\ g3.action = n /\ g3.obs = 0
      /\ g3.terminal = FALSE /\ g3.keys = K /\ g3.judged = None
  BY <1>4 DEF TransRec
<1> HIDE DEF g3
<1>6. QED BY <1>2, <1>5 DEF OutcomeOk

-----------------------------------------------------------------------------
(* The tool environments *)

(* The state with the turn counted. *)
LEMMA CountedFacts ==
  ASSUME st \in SweRec, NEW n \in Nat
  PROVE  LET s == Counted(n)
         IN  /\ s \in SweRec /\ s.tokens = st.tokens + n /\ s.steps = st.steps + 1
             /\ s.patch = st.patch /\ s.backend = st.backend /\ s.cleaned = st.cleaned
<1> DEFINE s1 == [st EXCEPT !.steps = st.steps + 1]
           s2 == [s1 EXCEPT !.tokens = st.tokens + n]
<1>1. Counted(n) = s2 /\ st.steps + 1 \in Nat /\ st.tokens + n \in Nat
  BY DEF Counted, SweRec
<1>2. /\ s1 \in SweRec /\ s1.steps = st.steps + 1
      /\ s1.patch = st.patch /\ s1.backend = st.backend /\ s1.cleaned = st.cleaned
  BY <1>1 DEF SweRec
<1> HIDE DEF s1
<1>3. /\ s2 \in SweRec /\ s2.tokens = st.tokens + n /\ s2.steps = st.steps + 1
      /\ s2.patch = st.patch /\ s2.backend = st.backend /\ s2.cleaned = st.cleaned
  BY <1>1, <1>2 DEF SweRec
<1> HIDE DEF s2
<1>4. QED BY <1>1, <1>3

(* A message to the model counts its tokens, and ends nothing. *)
LEMMA FeedbackFacts ==
  ASSUME NEW s \in SweRec, NEW n \in Nat, Feedback(s, n), NEW l \in Nat, s.tokens = l + n
  PROVE  /\ st' \in SweRec /\ tr' \in TransRec
         /\ st'.patch = s.patch /\ st'.backend = s.backend /\ st'.cleaned = s.cleaned
         /\ tr'.raised = FALSE /\ tr'.terminal = FALSE /\ tr'.pass = FALSE /\ tr'.judged = None
         /\ tr'.keys = SweKeys /\ SweCounts(st', tr', l)
<1>1. PICK obs \in ObsLens : st' = [s EXCEPT !.tokens = @ + obs] /\ tr' = Goes(n, obs, SweKeys)
  BY DEF Feedback
<1>2. obs \in Nat /\ s.tokens + obs \in Nat
  BY EnvApiAssumption DEF SweRec
<1>3. /\ st' \in SweRec /\ st'.tokens = s.tokens + obs
      /\ st'.patch = s.patch /\ st'.backend = s.backend /\ st'.cleaned = s.cleaned
  BY <1>1, <1>2 DEF SweRec
<1>4. /\ tr' \in TransRec /\ tr'.raised = FALSE /\ tr'.terminal = FALSE /\ tr'.pass = FALSE
      /\ tr'.judged = None /\ tr'.keys = SweKeys /\ tr'.action = n /\ tr'.obs = obs
  <2>1. SweKeys \in SUBSET Keys /\ None \in Nat
    BY DEF Keys, None
  <2>2. tr' = Transition(n, obs, FALSE, SweKeys, FALSE, None)
    BY <1>1 DEF Goes
  <2>3. QED BY <1>2, <2>1, <2>2 DEF Transition, TransRec
<1>5. QED BY <1>2, <1>3, <1>4 DEF SweCounts, SweRec

(* The end of an episode: the state is cleaned, a sandbox it knows destroyed. *)
LEMMA CloseFacts ==
  ASSUME NEW s \in SweRec, Close(s), sandbox \in BOOLEAN, sandbox => s.backend /\ ~s.cleaned
  PROVE  /\ st' \in SweRec /\ st'.patch = s.patch /\ st'.cleaned = TRUE /\ st'.backend = s.backend
         /\ sandbox' = FALSE
BY DEF Close, Closed, SweRec

(* A step of a tool environment. *)
SweStepped(l) ==
  /\ st' \in SweRec /\ tr' \in TransRec /\ sandbox' \in BOOLEAN /\ submitted' \in Nat
  /\ tr'.raised => (sandbox' /\ st'.backend => ~st'.cleaned)
  /\ ~tr'.raised => /\ SweRuns(st', tr', sandbox', submitted') /\ SweCounts(st', tr', l)
                    /\ tr'.keys = SweKeys

(* Every step of a tool environment keeps its part of the invariant. *)
LEMMA SweStepFacts ==
  ASSUME st \in SweRec, sandbox \in BOOLEAN, submitted \in Nat, NEW l \in Nat, st.tokens = l,
         SweRuns(st, tr, sandbox, submitted), ~tr.terminal, NEW n \in Nat, SweStep(n)
  PROVE  SweStepped(l)
<1>1. PICK s \in SweRec : /\ s = Counted(n) /\ s.tokens = l + n /\ s.steps = st.steps + 1
                          /\ s.patch = submitted /\ s.backend = st.backend /\ ~s.cleaned
                          /\ (sandbox => s.backend)
  BY CountedFacts DEF SweRuns
<1>2. SweKeys \in SUBSET Keys /\ None \in Nat /\ s.patch \in Nat /\ s.steps \in Nat
  BY <1>1 DEF Keys, None, SweRec
<1>3. /\ Fails(n, SweKeys) \in TransRec /\ Fails(n, SweKeys).raised = FALSE
      /\ Fails(n, SweKeys).terminal = TRUE /\ Fails(n, SweKeys).pass = FALSE
      /\ Fails(n, SweKeys).judged = None /\ Fails(n, SweKeys).keys = SweKeys
  <2>1. Fails(n, SweKeys) = Transition(n, 0, TRUE, SweKeys, FALSE, None)
    BY DEF Fails
  <2>2. QED BY <1>2, <2>1 DEF Transition, TransRec
<1>4. CASE LimitReached(s, n)
  <2>1. tr' = Fails(n, SweKeys) /\ submitted' = submitted
    BY <1>4 DEF LimitReached, Ends
  <2>2. CASE st' = s /\ sandbox' = sandbox
    BY <2>1, <2>2, <1>1, <1>3 DEF SweStepped, SweRuns, SweCounts
  <2>3. CASE Close(s)
    <3>1. st' \in SweRec /\ st'.patch = s.patch /\ st'.cleaned = TRUE /\ sandbox' = FALSE
      BY <2>3, <1>1, CloseFacts
    <3>2. QED BY <2>1, <3>1, <1>1, <1>3 DEF SweStepped, SweRuns, SweCounts
  <2>4. QED BY <1>4, <2>2, <2>3 DEF LimitReached, Ends
<1>5. CASE NoTool(s, n)
  <2>1. PICK b \in SweRec, final \in BOOLEAN :
          /\ Answers(b, n, final) /\ b.patch = s.patch /\ b.tokens = s.tokens /\ ~b.cleaned
          /\ (s.backend => b.backend)
    <3>1. [s EXCEPT !.backend = TRUE] \in SweRec
      BY DEF SweRec
    <3>2. QED BY <3>1, <1>1, <1>5 DEF NoTool, SweRec
  <2>2. submitted' = submitted
    BY <1>5 DEF NoTool
  <2>3. CASE Evaluates(b, n) /\ b.patch # None
    <3>1. Close(b)
      BY <2>3 DEF Evaluates, Ends
    <3>2. st' \in SweRec /\ st'.patch = b.patch /\ st'.cleaned = TRUE /\ sandbox' = FALSE
      BY <3>1, <2>1, <1>1, CloseFacts
    <3>3. CASE tr' = Raised
      BY <3>2, <3>3, <2>2, RaisedFacts DEF SweStepped
    <3>4. CASE \E pass \in BOOLEAN : tr' = Transition(n, 0, TRUE, SweKeys, pass, b.patch)
      <4>1. PICK pass \in BOOLEAN : tr' = Transition(n, 0, TRUE, SweKeys, pass, b.patch)
        BY <3>4
      <4>2. /\ tr' \in TransRec /\ tr'.raised = FALSE /\ tr'.terminal = TRUE
            /\ tr'.keys = SweKeys /\ tr'.judged = b.patch
        BY <4>1, <1>2, <2>1 DEF Transition, TransRec, SweRec
      <4>3. QED BY <4>2, <3>2, <2>1, <2>2, <2>3, <1>1 DEF SweStepped, SweRuns, SweCounts
    <3>5. QED BY <2>3, <3>3, <3>4 DEF Evaluates, Ends
  <2>4. CASE Ends(b, Fails(n, SweKeys))
    <3>1. st' \in SweRec /\ st'.patch = b.patch /\ st'.cleaned = TRUE /\ sandbox' = FALSE
      BY <2>4, <2>1, <1>1, CloseFacts DEF Ends
    <3>2. QED BY <2>1, <2>2, <2>4, <3>1, <1>1, <1>3 DEF Ends, SweStepped, SweRuns, SweCounts
  <2>5. CASE Feedback(b, n) /\ sandbox' = b.backend
    <3>1. b.tokens = l + n
      BY <1>1, <2>1
    <3>2. /\ st' \in SweRec /\ tr' \in TransRec
          /\ st'.patch = b.patch /\ st'.backend = b.backend /\ st'.cleaned = b.cleaned
          /\ tr'.raised = FALSE /\ tr'.terminal = FALSE /\ tr'.pass = FALSE /\ tr'.judged = None
          /\ tr'.keys = SweKeys /\ SweCounts(st', tr', l)
      BY <2>5, <3>1, FeedbackFacts
    <3>3. sandbox' \in BOOLEAN
      BY <2>5 DEF SweRec
    <3>4. QED BY <3>2, <3>3, <2>1, <2>2, <2>5, <1>1 DEF SweStepped, SweRuns
  <2>6. QED BY <2>1, <2>3, <2>4, <2>5 DEF Answers
<1>6. CASE BackendFails(s, n)
  <2>1. /\ ~s.backend /\ sandbox' \in BOOLEAN /\ st' = [s EXCEPT !.cleaned = TRUE] /\ tr' = Raised
        /\ submitted' = submitted
    BY <1>6 DEF BackendFails
  <2>2. st' \in SweRec /\ st'.backend = s.backend
    BY <2>1 DEF SweRec
  <2>3. QED BY <2>1, <2>2, RaisedFacts DEF SweStepped
<1>7. CASE ToolRaises(s, n)
  <2>1. /\ st' = [s EXCEPT !.backend = TRUE, !.cleaned = TRUE] /\ sandbox' = FALSE
        /\ tr' \in {Fails(n, SweKeys), Raised} /\ submitted' = submitted
    BY <1>7 DEF ToolRaises
  <2>2. st' \in SweRec /\ st'.patch = s.patch
    <3> DEFINE b == [s EXCEPT !.backend = TRUE]
    <3>1. st' = [b EXCEPT !.cleaned = TRUE]
      BY <2>1
    <3>2. b \in SweRec /\ b.patch = s.patch
      BY DEF SweRec
    <3> HIDE DEF b
    <3>3. QED BY <3>1, <3>2 DEF SweRec
  <2>3. CASE tr' = Raised
    BY <2>1, <2>2, <2>3, RaisedFacts DEF SweStepped
  <2>4. CASE tr' = Fails(n, SweKeys)
    BY <2>1, <2>2, <2>4, <1>1, <1>3 DEF SweStepped, SweRuns, SweCounts
  <2>5. QED BY <2>1, <2>3, <2>4
<1>8. CASE UseTool(s, n)
  <2>1. sandbox' = TRUE
    BY <1>8 DEF UseTool
  <2>2. PICK b \in SweRec : /\ Feedback(b, n) /\ b.backend /\ ~b.cleaned /\ b.tokens = s.tokens
                            /\ b.patch = submitted' /\ submitted' \in Nat
    <3>1. CASE \E success \in BOOLEAN :
                 /\ Feedback(Records(s, success), n)
                 /\ submitted' = IF success THEN s.steps ELSE submitted
      <4>1. PICK success \in BOOLEAN :
                 /\ Feedback(Records(s, success), n)
                 /\ submitted' = IF success THEN s.steps ELSE submitted
        BY <3>1
      <4> DEFINE b1 == [s EXCEPT !.backend = TRUE]
                 b2 == [b1 EXCEPT !.patch = submitted']
      <4>2. submitted' \in Nat
        BY <4>1, <1>2
      <4>3. Records(s, success) = b2
        BY <4>1, <1>1 DEF Records
      <4>4. b1 \in SweRec /\ b1.backend /\ b1.cleaned = s.cleaned /\ b1.tokens = s.tokens
        BY DEF SweRec
      <4> HIDE DEF b1
      <4>5. /\ b2 \in SweRec /\ b2.backend /\ b2.cleaned = s.cleaned /\ b2.tokens = s.tokens
            /\ b2.patch = submitted'
        BY <4>2, <4>4 DEF SweRec
      <4> HIDE DEF b2
      <4>6. QED BY <4>1, <4>2, <4>3, <4>5, <1>1
    <3>2. CASE Feedback([s EXCEPT !.backend = TRUE], n) /\ UNCHANGED submitted
      <4> DEFINE b1 == [s EXCEPT !.backend = TRUE]
      <4>1. /\ b1 \in SweRec /\ b1.backend /\ b1.cleaned = s.cleaned /\ b1.tokens = s.tokens
            /\ b1.patch = s.patch
        BY DEF SweRec
      <4> HIDE DEF b1
      <4>2. Feedback(b1, n)
        BY <3>2 DEF b1
      <4>3. QED BY <3>2, <4>1, <4>2, <1>1
    <3>3. QED BY <1>8, <3>1, <3>2 DEF UseTool
  <2>3. b.tokens = l + n
    BY <2>2, <1>1
  <2>4. /\ st' \in SweRec /\ tr' \in TransRec
        /\ st'.patch = b.patch /\ st'.backend = b.backend /\ st'.cleaned = b.cleaned
        /\ tr'.raised = FALSE /\ tr'.terminal = FALSE /\ tr'.pass = FALSE /\ tr'.judged = None
        /\ tr'.keys = SweKeys /\ SweCounts(st', tr', l)
    BY <2>2, <2>3, FeedbackFacts
  <2>5. QED BY <2>1, <2>2, <2>4 DEF SweStepped, SweRuns
<1>9. QED BY <1>1, <1>4, <1>5, <1>6, <1>7, <1>8 DEF SweStep

-----------------------------------------------------------------------------
(* The dialogs *)

Dialogs == {"math", "lcb"}

(* The outcomes are those of the kind, whichever transition has them. *)
LEMMA SameKeys ==
  ASSUME cfg.kind \in Dialogs
  PROVE  /\ Judged = OutcomesOf(cfg.kind) /\ EndThinking = OutcomesOf(cfg.kind)
         /\ (cfg.kind = "lcb" => NotParsed = OutcomesOf(cfg.kind))
         /\ (cfg.kind = "math" => Default = OutcomesOf(cfg.kind))
         /\ OutcomesOf(cfg.kind) \in SUBSET Keys
BY DEF Dialogs, Judged, EndThinking, NotParsed, OutcomesOf, CodeExec, FailedCodeExec, Keys

(* The state with the turn counted, or its tokens alone. *)
LEMMA SpentFacts ==
  ASSUME st \in DialogRec, NEW n \in Nat
  PROVE  /\ Spent(n) \in DialogRec /\ Spent(n).steps = st.steps /\ Spent(n).mode = st.mode
         /\ Stepped(n) \in DialogRec /\ Stepped(n).steps = st.steps + 1 /\ Stepped(n).mode = st.mode
<1>1. Spent(n) \in DialogRec /\ Spent(n).steps = st.steps /\ Spent(n).mode = st.mode
  BY DEF Spent, DialogRec
<1>2. st.steps + 1 \in Nat /\ Stepped(n) = [Spent(n) EXCEPT !.steps = st.steps + 1]
  BY <1>1 DEF DialogRec, Stepped
<1>3. QED BY <1>1, <1>2 DEF DialogRec

(* An answer that is the last attempt ends the dialog; another is asked for. *)
LEMMA AsksFacts ==
  ASSUME NEW s \in DialogRec, NEW t \in TransRec, t.raised = FALSE, t.obs = 0, NEW shown,
         Asks(s, t, shown)
  PROVE  /\ st' = s /\ tr' \in TransRec /\ tr'.raised = FALSE /\ tr'.action = t.action
         /\ tr'.keys = t.keys
         /\ s.steps >= cfg.attempts => tr'.terminal = TRUE /\ tr'.obs = 0
<1>1. st' = s
  BY DEF Asks
<1>2. CASE tr' = [t EXCEPT !.terminal = TRUE]
  BY <1>1, <1>2 DEF TransRec
<1>3. CASE ~(s.steps >= cfg.attempts) /\ \E obs \in ObsLens : tr' = [t EXCEPT !.obs = obs]
  BY <1>1, <1>3, EnvApiAssumption DEF TransRec
<1>4. QED BY <1>2, <1>3 DEF Asks

(* A step of a dialog. *)
DialogStepped(l) ==
  /\ st' \in DialogRec /\ tr' \in TransRec /\ failedOutcomes' \in BOOLEAN
  /\ ~tr'.raised => tr'.keys = OutcomesOf(cfg.kind)
  /\ ~tr'.raised /\ OneAnswer => DialogRuns(st', tr', l + tr'.action + tr'.obs)

(* Every step of a dialog keeps its part of the invariant. *)
LEMMA DialogStepFacts ==
  ASSUME cfg.kind \in Dialogs, st \in DialogRec, failedOutcomes \in BOOLEAN, NEW l \in Nat,
         OneAnswer => ~tr.terminal /\ DialogRuns(st, tr, l),
         NEW n \in Nat, n <= Budget(st), DialogStep(n)
  PROVE  DialogStepped(l)
<1>1. PICK s \in DialogRec : s = Stepped(n) /\ s.steps = st.steps + 1 /\ s.mode = st.mode
  BY SpentFacts
<1>2. PICK K \in SUBSET Keys : K = OutcomesOf(cfg.kind)
  BY SameKeys
<1>3. OneAnswer => l + n <= PromptLen + MaxActionLen /\ s.steps >= cfg.attempts
  <2> SUFFICES ASSUME OneAnswer
               PROVE  l + n <= PromptLen + MaxActionLen /\ s.steps >= cfg.attempts
    OBVIOUS
  <2>1. s.steps >= cfg.attempts
    BY <1>1 DEF OneAnswer, DialogRec
  <2>2. CASE AskedFirst(st, l)
    <3>1. n <= MaxActionLen
      BY <2>2, EnvApiAssumption, DialogAssumption
      DEF AskedFirst, Budget, EndThinkingLen, Dialogs
    <3>2. QED BY <2>1, <2>2, <3>1, EnvApiAssumption DEF AskedFirst
  <2>3. CASE AskedAgain(st, l)
    <3>1. n <= AnswerOnlyLen
      BY <2>3 DEF AskedAgain, Budget
    <3>2. QED BY <2>1, <2>3, <3>1, EnvApiAssumption, DialogAssumption DEF AskedAgain
  <2>4. QED BY <2>2, <2>3 DEF DialogRuns
<1>4. CASE CallTools(n)
  <2>1. PICK obs \in ObsLens : /\ cfg.kind = "math" /\ cfg.tools
                               /\ st' = [Spent(n) EXCEPT !.tokens = @ + obs]
                               /\ tr' = Goes(n, obs, Default) /\ UNCHANGED failedOutcomes
    BY <1>4 DEF CallTools
  <2>2. obs \in Nat
    BY EnvApiAssumption
  <2>3. st' \in DialogRec
    BY <2>1, <2>2, SpentFacts DEF DialogRec
  <2>4. tr' \in TransRec /\ tr'.keys = OutcomesOf(cfg.kind)
    <3>1. tr' = Goes(n, obs, K) /\ None \in Nat
      BY <2>1, <1>2, SameKeys DEF None
    <3>2. QED BY <3>1, <1>2, <2>2 DEF Goes, Transition, TransRec
  <2>5. ~OneAnswer
    BY <2>1 DEF OneAnswer
  <2>6. QED BY <2>1, <2>3, <2>4, <2>5 DEF DialogStepped
<1>5. CASE NotOneEnd(n)
  <2>1. cfg.kind = "math" /\ st' = s /\ tr' = Fails(n, Default) /\ UNCHANGED failedOutcomes
    BY <1>1, <1>5 DEF NotOneEnd
  <2>2. /\ tr' \in TransRec /\ tr'.keys = K /\ tr'.action = n /\ tr'.obs = 0
        /\ tr'.terminal = TRUE
    <3>1. tr' = Fails(n, K) /\ None \in Nat
      BY <2>1, <1>2, SameKeys DEF None
    <3>2. QED BY <3>1, <1>2 DEF Fails, Transition, TransRec
  <2>3. OneAnswer => DialogRuns(st', tr', l + tr'.action + tr'.obs)
    BY <1>3, <2>2 DEF DialogRuns
  <2>4. QED BY <1>2, <2>1, <2>2, <2>3 DEF DialogStepped
<1>6. CASE StopThink(n)
  <2>1. /\ cfg.stopThink /\ st.mode = "full" /\ st' = [s EXCEPT !.mode = "answer_only"]
        /\ UNCHANGED failedOutcomes
    BY <1>1, <1>6 DEF StopThink
  <2>2. PICK f \in BOOLEAN : tr' = [Goes(n, EndThinkingLen, EndThinking) EXCEPT !.found = f]
    <3>1. (cfg.kind = "lcb" /\ failedOutcomes) \in BOOLEAN
      OBVIOUS
    <3>2. QED BY <3>1, <1>6 DEF StopThink
  <2>3. /\ tr' \in TransRec /\ tr'.keys = K /\ tr'.action = n /\ tr'.obs = 2
        /\ tr'.terminal = FALSE
    <3> DEFINE g == Goes(n, 2, K)
    <3>1. tr' = [g EXCEPT !.found = f] /\ None \in Nat
      BY <2>2, <1>2, SameKeys DEF None, EndThinkingLen
    <3>2. g \in TransRec /\ g.keys = K /\ g.action = n /\ g.obs = 2 /\ g.terminal = FALSE
      BY <3>1, <1>2 DEF Goes, Transition, TransRec
    <3> HIDE DEF g
    <3>3. QED BY <3>1, <3>2 DEF TransRec
  <2>4. st' \in DialogRec /\ st'.mode = "answer_only"
    BY <2>1 DEF DialogRec
  <2>5. ASSUME OneAnswer PROVE DialogRuns(st', tr', l + tr'.action + tr'.obs)
    <3>1. AskedFirst(st, l)
      BY <2>1, <2>5 DEF DialogRuns, AskedAgain
    <3>2. n + AnswerOnlyLen + 2 <= MaxActionLen
      BY <2>1, <3>1, EnvApiAssumption, DialogAssumption
      DEF AskedFirst, Budget, EndThinkingLen, Dialogs
    <3>3. QED BY <2>3, <2>4, <3>1, <3>2, EnvApiAssumption, DialogAssumption
      DEF DialogRuns, AskedFirst, AskedAgain
  <2>6. QED BY <1>2, <2>1, <2>3, <2>4, <2>5 DEF DialogStepped
<1>7. ASSUME NEW t \in TransRec, NEW shown, Asks(s, t, shown), t.raised = FALSE, t.obs = 0,
             t.action = n, t.keys = K, failedOutcomes' \in BOOLEAN
      PROVE  DialogStepped(l)
  <2>1. /\ st' = s /\ tr' \in TransRec /\ tr'.raised = FALSE /\ tr'.action = n /\ tr'.keys = K
        /\ s.steps >= cfg.attempts => tr'.terminal = TRUE /\ tr'.obs = 0
    BY <1>7, AsksFacts
  <2>2. OneAnswer => DialogRuns(st', tr', l + tr'.action + tr'.obs)
    BY <1>3, <2>1 DEF DialogRuns
  <2>3. QED BY <1>2, <1>7, <2>1, <2>2 DEF DialogStepped
<1>8. CASE Judge(n)
  <2>1. PICK pass, shown, had \in BOOLEAN : Asks(s, Outcome(n, Judged, pass, had), shown)
    BY <1>1, <1>8 DEF Judge
  <2>2. PICK t : t = Outcome(n, Judged, pass, had)
    OBVIOUS
  <2>3. t = Outcome(n, K, pass, had)
    BY <2>2, <1>2, SameKeys
  <2>4. OutcomeOk(t, n, K)
    BY <2>3, OutcomeFacts
  <2>5. failedOutcomes' \in BOOLEAN
    BY <1>8 DEF Judge
  <2>6. QED BY <2>1, <2>2, <2>4, <2>5, <1>7 DEF OutcomeOk
<1>9. CASE NoCode(n)
  <2>1. PICK had \in BOOLEAN :
          /\ Asks(s, [Outcome(n, NotParsed, FALSE, had) EXCEPT !.shared = TRUE], FALSE)
          /\ failedOutcomes' = had /\ cfg.kind = "lcb"
    BY <1>1, <1>9 DEF NoCode
  <2>2. PICK o : o = Outcome(n, NotParsed, FALSE, had)
    OBVIOUS
  <2>3. o = Outcome(n, K, FALSE, had)
    BY <2>1, <2>2, <1>2, SameKeys
  <2>4. OutcomeOk(o, n, K)
    BY <2>3, OutcomeFacts
  <2>5. PICK t : t = [o EXCEPT !.shared = TRUE]
    OBVIOUS
  <2>6. /\ t \in TransRec /\ t.raised = FALSE /\ t.obs = 0 /\ t.action = n /\ t.keys = K
    BY <2>4, <2>5 DEF TransRec, OutcomeOk
  <2>7. Asks(s, t, FALSE)
    BY <2>1, <2>2, <2>5
  <2>8. QED BY <2>1, <2>6, <2>7, <1>7
<1>10. CASE JudgeRaises(n)
  BY <1>1, <1>10, RaisedFacts DEF JudgeRaises, DialogStepped
<1>11. QED BY <1>4, <1>5, <1>6, <1>8, <1>9, <1>10 DEF DialogStep

-----------------------------------------------------------------------------
(* The rollout *)

(* The state, the transition and the trajectory of an episode's start. *)
LEMMA StartFacts ==
  /\ SweState \in SweRec /\ SweState.tokens = PromptLen /\ SweState.patch = None
  /\ SweState.backend = FALSE /\ SweState.cleaned = FALSE
  /\ DialogState \in DialogRec /\ DialogState.tokens = 0 /\ DialogState.mode = "full"
  /\ InitialTransition \in TransRec /\ InitialTransition.terminal = FALSE
  /\ InitialTransition.pass = FALSE /\ InitialTransition.judged = None
  /\ InitialTransition.action = 0 /\ InitialTransition.obs = PromptLen
  /\ EmptyTraj \in [len : Nat, terminated : BOOLEAN] /\ EmptyTraj.len = 0
BY EnvApiAssumption DEF SweState, SweRec, None, DialogState, DialogRec, InitialTransition,
   Transition, TransRec, EmptyTraj

(* An attempt is followed by the next, or is the last. *)
LEMMA NextAttemptFacts ==
  ASSUME attempt \in 1..MaxAttempts, NextAttempt
  PROVE  attempt' \in 1..MaxAttempts /\ phase' \in {"start", "failed"}
BY RolloutAssumption DEF NextAttempt, Retried

(* What the trajectory is after the transition. *)
LEMMA ExtendedFacts ==
  ASSUME tr \in TransRec, traj \in [len : Nat, terminated : BOOLEAN]
  PROVE  /\ Extended(traj) \in [len : Nat, terminated : BOOLEAN]
         /\ Extended(traj).len = traj.len + tr.action + tr.obs
BY DEF Extended, TransRec

(* A kind is of a tool environment or of a dialog. *)
LEMMA Kinds ==
  ASSUME cfg \in Configs
  PROVE  IsSwe \/ cfg.kind \in Dialogs
BY RolloutAssumption DEF IsSwe, Dialogs

(* The sample is of the transition that ended the episode. *)
LEMMA SampleFacts ==
  ASSUME tr \in TransRec, failedOutcomes \in BOOLEAN
  PROVE  /\ Sample \in SampleRec /\ Sample.judged = tr.judged /\ Sample.pass = tr.pass
         /\ Sample.terminal = tr.terminal /\ Sample.keys = tr.keys
BY DEF Sample, SampleRec, TransRec

(* The first episode has not begun. *)
LEMMA InitInv == Init => IInv
<1> SUFFICES ASSUME Init PROVE IInv
  OBVIOUS
<1>1. TypeOK
  <2>1. IF IsSwe THEN st \in SweRec ELSE st \in DialogRec
    BY StartFacts DEF Init
  <2>2. tr \in TransRec /\ traj \in [len : Nat, terminated : BOOLEAN]
    BY StartFacts DEF Init
  <2>3. attempt \in 1..MaxAttempts /\ submitted \in Nat
    BY RolloutAssumption DEF Init, None
  <2>4. QED BY <2>1, <2>2, <2>3 DEF Init, TypeOK
<1>2. /\ KeysInv /\ SandboxReleased /\ (phase # "done" => sample = {})
      /\ JudgedLast /\ SameOutcomes
  BY DEF Init, KeysInv, SandboxReleased, JudgedLast, SameOutcomes
<1>3. traj.len <= PromptLen + MaxActionLen
  BY StartFacts, EnvApiAssumption DEF Init
<1>4. (IF IsSwe THEN SweInv ELSE DialogInv) /\ WithinBudget
  BY <1>3 DEF Init, SweInv, DialogInv, WithinBudget
<1>5. QED BY <1>1, <1>2, <1>4 DEF IInv

(* Every step keeps the invariant. *)
LEMMA NextInv ==
  ASSUME IInv, [Next]_vars
  PROVE  IInv'
<1> USE DEF IInv
<1>1. CASE UNCHANGED vars
  BY <1>1 DEF vars, TypeOK, IsSwe, KeysInv, SandboxReleased, SweInv, DialogInv, OneAnswer,
     JudgedLast, WithinBudget, SameOutcomes
<1>2. CASE Start
  <2>1. /\ st' = (IF IsSwe THEN SweState ELSE DialogState)
        /\ tr' = InitialTransition /\ traj' = EmptyTraj /\ submitted' = None
        /\ phase' = "append" /\ cfg' = cfg /\ failedOutcomes' = failedOutcomes
        /\ sandbox' = FALSE /\ attempt' = attempt /\ sample' = {} /\ sandbox = FALSE
    BY <1>2 DEF Start, SandboxReleased, TypeOK
  <2>2. TypeOK'
    BY <2>1, StartFacts DEF TypeOK, IsSwe, None
  <2>3. KeysInv' /\ SandboxReleased' /\ JudgedLast' /\ SameOutcomes'
    BY <2>1, StartFacts DEF KeysInv, SandboxReleased, JudgedLast, SameOutcomes
  <2>4. traj'.len = 0 /\ 0 <= PromptLen + MaxActionLen /\ 0 + 0 + PromptLen = PromptLen
        /\ PromptLen <= PromptLen + MaxActionLen
    BY <2>1, StartFacts, EnvApiAssumption
  <2>5. WithinBudget'
    BY <2>1, <2>4 DEF WithinBudget
  <2>6. CASE IsSwe
    <3>1. SweRuns(st', tr', sandbox', submitted') /\ SweCounts(st', tr', traj'.len)
      BY <2>1, <2>4, <2>6, StartFacts DEF SweRuns, SweCounts
    <3>2. SweInv'
      BY <2>1, <3>1 DEF SweInv
    <3>3. IsSwe'
      BY <2>1, <2>6 DEF IsSwe
    <3>4. QED BY <2>1, <2>2, <2>3, <2>5, <3>2, <3>3
  <2>7. CASE ~IsSwe
    <3>1. DialogRuns(st', tr', traj'.len + tr'.action + tr'.obs)
      BY <2>1, <2>4, <2>7, StartFacts DEF DialogRuns, AskedFirst
    <3>2. DialogInv'
      BY <2>1, <2>4, <3>1 DEF DialogInv
    <3>3. ~IsSwe'
      BY <2>1, <2>7 DEF IsSwe
    <3>4. QED BY <2>1, <2>2, <2>3, <2>5, <3>2, <3>3
  <2>8. QED BY <2>6, <2>7
<1>3. CASE StartRaises
  <2>1. /\ attempt' \in 1..MaxAttempts /\ phase' \in {"start", "failed"} /\ phase = "start"
        /\ UNCHANGED <<cfg, failedOutcomes, st, tr, sandbox, submitted, traj, sample>>
    BY <1>3, NextAttemptFacts DEF StartRaises, TypeOK
  <2>2. QED BY <2>1 DEF TypeOK, IsSwe, KeysInv, SandboxReleased, SweInv, DialogInv, OneAnswer,
     JudgedLast, WithinBudget, SameOutcomes
<1>4. CASE Append
  <2>1. /\ phase = "append" /\ traj' = Extended(traj) /\ phase' \in {"leave", "act"}
        /\ phase' = "act" => ~tr.terminal
        /\ phase' = "leave" => tr.terminal \/ traj'.len >= MaxContext
        /\ UNCHANGED <<cfg, failedOutcomes, st, tr, sandbox, submitted, attempt, sample>>
        /\ sample = {}
    BY <1>4 DEF Append
  <2>2. /\ traj' \in [len : Nat, terminated : BOOLEAN]
        /\ traj'.len = traj.len + tr.action + tr.obs
    BY <2>1, ExtendedFacts DEF TypeOK
  <2>3. TypeOK'
    BY <2>1, <2>2 DEF TypeOK, IsSwe
  <2>4. KeysInv'
    <3>1. ASSUME phase' = "leave" PROVE ~ (tr = InitialTransition /\ traj.len = 0)
      <4>1. ASSUME tr = InitialTransition, traj.len = 0 PROVE FALSE
        <5>1. ~tr.terminal /\ traj'.len = PromptLen
          BY <4>1, <2>2, StartFacts, EnvApiAssumption
        <5>2. QED BY <5>1, <2>1, <3>1, RolloutAssumption, EnvApiAssumption
      <4>2. QED BY <4>1
    <3>2. tr' = tr /\ cfg' = cfg
      BY <2>1
    <3>3. QED BY <2>1, <3>1, <3>2 DEF KeysInv, OutcomesOf
  <2>5. SandboxReleased' /\ JudgedLast' /\ SameOutcomes'
    BY <2>1 DEF SandboxReleased, JudgedLast, SameOutcomes
  <2>6. CASE IsSwe
    <3>1. IsSwe' /\ SweRuns(st', tr', sandbox', submitted')
      BY <2>1, <2>6 DEF IsSwe, SweInv
    <3>2. phase' = "act" => st'.tokens = traj'.len
      BY <2>1, <2>2, <2>6 DEF SweInv, SweCounts
    <3>3. SweInv' /\ WithinBudget'
      BY <2>1, <3>1, <3>2 DEF SweInv, WithinBudget
    <3>4. QED BY <2>1, <2>3, <2>4, <2>5, <3>1, <3>3
  <2>7. CASE ~IsSwe
    <3>1. ~IsSwe' /\ (OneAnswer' <=> OneAnswer)
      BY <2>1, <2>7 DEF IsSwe, OneAnswer
    <3>2. OneAnswer => DialogRuns(st', tr', traj'.len)
      BY <2>1, <2>2, <2>7 DEF DialogInv
    <3>3. DialogInv' /\ WithinBudget'
      BY <2>1, <2>7, <3>1, <3>2 DEF DialogInv, DialogRuns, WithinBudget, OneAnswer
    <3>4. QED BY <2>1, <2>3, <2>4, <2>5, <3>1, <3>3
  <2>8. QED BY <2>6, <2>7
<1>5. CASE ActSwe
  <2>1. PICK n \in Nat : SweStep(n)
    <3>1. \A m : 1..m \subseteq Nat
      OBVIOUS
    <3>2. QED BY <1>5, <3>1 DEF ActSwe
  <2>2. /\ phase = "act" /\ IsSwe /\ phase' = IF tr'.raised THEN "raised" ELSE "append"
        /\ UNCHANGED <<cfg, failedOutcomes, attempt, traj, sample>> /\ sample = {}
    BY <1>5 DEF ActSwe, Stays
  <2>3. SweStepped(traj.len)
    BY <2>1, <2>2, SweStepFacts DEF TypeOK, SweInv
  <2>4. IsSwe' /\ OutcomesOf(cfg.kind) = SweKeys
    BY <2>2 DEF IsSwe, OutcomesOf
  <2>5. TypeOK'
    BY <2>2, <2>3, <2>4 DEF TypeOK, SweStepped
  <2>6. KeysInv'
    BY <2>2, <2>3, <2>4 DEF KeysInv, SweStepped, OutcomesOf
  <2>7. SandboxReleased' /\ JudgedLast' /\ SameOutcomes' /\ WithinBudget'
    BY <2>2, <2>4 DEF SandboxReleased, JudgedLast, SameOutcomes, WithinBudget
  <2>8. SweInv'
    BY <2>2, <2>3 DEF SweInv, SweStepped
  <2>9. QED BY <2>2, <2>4, <2>5, <2>6, <2>7, <2>8
<1>6. CASE ActDialog
  <2>1. PICK n \in 1..MaxLen(st) : DialogStep(n)
    BY <1>6 DEF ActDialog
  <2>2. /\ phase = "act" /\ ~IsSwe /\ phase' = IF tr'.raised THEN "raised" ELSE "append"
        /\ UNCHANGED <<cfg, sandbox, submitted, attempt, traj, sample>> /\ sample = {}
        /\ st \in DialogRec
    BY <1>6 DEF ActDialog, Stays, TypeOK
  <2>3. cfg.kind \in Dialogs
    BY <2>2, Kinds DEF TypeOK
  <2>4. n \in Nat /\ n <= Budget(st)
    <3>1. MaxLen(st) = Budget(st) /\ Budget(st) \in Int
      BY <2>2, EnvApiAssumption, DialogAssumption
      DEF MaxLen, Budget, DialogRec, EndThinkingLen
    <3>2. QED BY <3>1
  <2>5. DialogStepped(traj.len)
    BY <2>1, <2>2, <2>3, <2>4, DialogStepFacts DEF TypeOK, DialogInv
  <2>6. ~IsSwe' /\ (OneAnswer' <=> OneAnswer)
    BY <2>2 DEF IsSwe, OneAnswer
  <2>7. TypeOK'
    BY <2>2, <2>5, <2>6 DEF TypeOK, DialogStepped
  <2>8. KeysInv'
    BY <2>2, <2>5 DEF KeysInv, DialogStepped, OutcomesOf
  <2>9. DialogInv'
    BY <2>2, <2>5, <2>6 DEF DialogInv, DialogStepped
  <2>10. SandboxReleased' /\ JudgedLast' /\ SameOutcomes'
    BY <2>2, <2>6 DEF SandboxReleased, JudgedLast, SameOutcomes, DialogInv
  <2>11. WithinBudget'
    BY <2>6, <2>9 DEF WithinBudget, DialogInv, OneAnswer
  <2>12. QED BY <2>2, <2>6, <2>7, <2>8, <2>9, <2>10, <2>11
<1>7. CASE NoBudget
  <2>1. /\ phase = "act" /\ phase' = "raised"
        /\ UNCHANGED <<cfg, failedOutcomes, st, tr, sandbox, submitted, attempt, traj, sample>>
    BY <1>7 DEF NoBudget
  <2>2. SweInv => SweInv'
    BY <2>1 DEF SweInv, SweRuns
  <2>3. QED BY <2>1, <2>2 DEF TypeOK, IsSwe, KeysInv, SandboxReleased, DialogInv, OneAnswer,
     JudgedLast, WithinBudget, SameOutcomes
<1>8. CASE Leave
  <2>1. /\ phase = "leave" /\ phase' = "done" /\ sample' = {Sample}
        /\ UNCHANGED <<cfg, failedOutcomes, tr, submitted, attempt, traj>>
    BY <1>8 DEF Leave
  <2>2. /\ Sample \in SampleRec /\ Sample.judged = tr.judged /\ Sample.pass = tr.pass
        /\ Sample.terminal = tr.terminal /\ Sample.keys = tr.keys
    BY SampleFacts DEF TypeOK
  <2>3. SameOutcomes'
    <3>1. Sample.keys = OutcomesOf(cfg.kind) /\ OutcomesOf(cfg.kind)' = OutcomesOf(cfg.kind)
      BY <2>1, <2>2 DEF KeysInv, OutcomesOf
    <3>2. QED BY <2>1, <3>1 DEF SameOutcomes
  <2>4. KeysInv'
    BY <2>1 DEF KeysInv
  <2>5. CASE IsSwe
    <3>1. IsSwe' /\ Close(st) /\ st \in SweRec /\ SweRuns(st, tr, sandbox, submitted)
          /\ sandbox \in BOOLEAN
      BY <1>8, <2>1, <2>5 DEF Leave, IsSwe, TypeOK, SweInv
    <3>2. st' \in SweRec /\ sandbox' = FALSE
      BY <3>1, CloseFacts DEF SweRuns
    <3>3. TypeOK'
      BY <2>1, <2>2, <3>1, <3>2 DEF TypeOK
    <3>4. JudgedLast'
      BY <2>1, <2>2, <3>1 DEF JudgedLast, SweRuns
    <3>5. SandboxReleased' /\ WithinBudget' /\ SweInv'
      BY <2>1, <3>1, <3>2 DEF SandboxReleased, WithinBudget, SweInv
    <3>6. QED BY <2>1, <2>3, <2>4, <3>1, <3>3, <3>4, <3>5
  <2>6. CASE ~IsSwe
    <3>1. ~IsSwe' /\ st' = st /\ sandbox' = sandbox /\ (OneAnswer' <=> OneAnswer)
      BY <1>8, <2>1, <2>6 DEF Leave, IsSwe, Exit, OneAnswer
    <3>2. TypeOK'
      BY <2>1, <2>2, <2>6, <3>1 DEF TypeOK
    <3>3. DialogInv' /\ SandboxReleased' /\ JudgedLast'
      BY <2>1, <2>6, <3>1 DEF DialogInv, SandboxReleased, JudgedLast
    <3>4. WithinBudget'
      BY <3>1, <3>3 DEF WithinBudget, DialogInv, OneAnswer
    <3>5. QED BY <2>1, <2>3, <2>4, <3>1, <3>2, <3>3, <3>4
  <2>7. QED BY <2>5, <2>6
<1>9. CASE Retry
  <2>1. /\ phase = "raised" /\ attempt' \in 1..MaxAttempts /\ phase' \in {"start", "failed"}
        /\ st' = st /\ sandbox' = (IsSwe /\ Closed(st) /\ st.backend) /\ sample = {}
        /\ UNCHANGED <<cfg, failedOutcomes, tr, submitted, traj, sample>>
    BY <1>9, NextAttemptFacts DEF Retry, Exit, TypeOK
  <2>2. sandbox' = FALSE
    <3>1. CASE IsSwe
      <4>1. ~ (Closed(st) /\ st.backend)
        BY <3>1, <2>1 DEF SweInv, Closed, TypeOK, SweRec
      <4>2. QED BY <2>1, <4>1
    <3>2. CASE ~IsSwe
      BY <2>1, <3>2
    <3>3. QED BY <3>1, <3>2
  <2>3. TypeOK' /\ KeysInv' /\ SandboxReleased' /\ JudgedLast' /\ SameOutcomes'
    BY <2>1, <2>2 DEF TypeOK, IsSwe, KeysInv, SandboxReleased, JudgedLast, SameOutcomes
  <2>4. (IF IsSwe THEN SweInv ELSE DialogInv)' /\ WithinBudget'
    BY <2>1, <2>2 DEF IsSwe, SweInv, DialogInv, OneAnswer, WithinBudget
  <2>5. QED BY <2>1, <2>3, <2>4
<1>10. CASE Others
  <2>1. /\ failedOutcomes' \in BOOLEAN
        /\ UNCHANGED <<cfg, st, tr, sandbox, submitted, attempt, phase, traj, sample>>
    BY <1>10 DEF Others, OthersNoCode
  <2>2. QED BY <2>1 DEF TypeOK, IsSwe, KeysInv, SandboxReleased, SweInv, DialogInv, OneAnswer,
     JudgedLast, WithinBudget, SameOutcomes
<1>11. CASE Finished
  BY <1>1, <1>11 DEF Finished
<1>12. QED BY <1>1, <1>2, <1>3, <1>4, <1>5, <1>6, <1>7, <1>8, <1>9, <1>10, <1>11 DEF Next, Step

-----------------------------------------------------------------------------
(* The theorems *)

(* The invariant holds in every reachable state, the types with it. *)
THEOREM RolloutInv == Spec => []IInv
<1>1. Init => IInv
  BY InitInv
<1>2. IInv /\ [Next]_vars => IInv'
  BY NextInv
<1>3. QED BY <1>1, <1>2, PTL DEF Spec

(* No sandbox runs between the attempts of a rollout or after it, whatever *)
(* path ended the episode: a full context, an answer, a tool that raised,  *)
(* a sandbox whose creation failed.                                        *)
THEOREM SandboxesAreReleased == Spec => []SandboxReleased
<1>1. IInv => SandboxReleased
  BY DEF IInv
<1>2. QED BY <1>1, RolloutInv, PTL

(* What a tool environment grades is the last submission that succeeded in *)
(* the attempt, and only a grade of it can pass.                           *)
THEOREM LastIsJudged == Spec => []JudgedLast
<1>1. IInv => JudgedLast
  BY DEF IInv
<1>2. QED BY <1>1, RolloutInv, PTL

(* The tokens a tool environment counts are those of the trajectory; a     *)
(* dialog with one attempt and no tools keeps within max_action_len.       *)
THEOREM BudgetIsKept == Spec => []WithinBudget
<1>1. IInv => WithinBudget
  BY DEF IInv
<1>2. QED BY <1>1, RolloutInv, PTL

(* The outcomes of a sample are those of its kind of environment, whatever *)
(* ended its episode.                                                      *)
THEOREM OutcomesAreSame == Spec => []SameOutcomes
<1>1. IInv => SameOutcomes
  BY DEF IInv
<1>2. QED BY <1>1, RolloutInv, PTL
=============================================================================
