------------------------------ MODULE Trajectory ------------------------------
(***************************************************************************)
(* Transition and Trajectory of rl/envs/api.py, the loop that fills one,   *)
(* and lib/dump_traj.py, which writes it to a file and reads it back.      *)
(*                                                                         *)
(* A token is <<number of its transition, "action" or "observation",       *)
(* place>>.  The strings, outcomes and info of a transition are left out.  *)
(***************************************************************************)
EXTENDS Integers, Sequences, FiniteSets, SequencesExt

CONSTANTS
  EpisodeSteps,  \* bound: calls of env.step()
  ActionLens,    \* lengths of an action
  ReplyLens,     \* lengths of an observation
  Rewards,       \* what the reward function may give for a transition
  MaxSeqLen      \* max_seq_len

ASSUME TrajectoryAssumption ==
  /\ EpisodeSteps \in Nat /\ MaxSeqLen \in Nat
  /\ ActionLens \subseteq Nat \ {0} /\ ReplyLens \subseteq Nat /\ Rewards \subseteq Int

VARIABLES
  traj,      \* the Trajectory
  given,     \* whether the agent returns its log-probabilities
  episode,   \* "start", "run", "over", "reloaded" or "raised"
  file,      \* what was dumped
  reloaded   \* what was made of it

tvars == <<traj, given, episode, file, reloaded>>

NoReturn == <<>>   \* a truncation_return of None; one that is r is <<r>>
NoFile == [transitions |-> <<>>, tokens |-> TRUE, steps |-> 0, truncation |-> NoReturn, logps |-> <<>>]

-----------------------------------------------------------------------------
Zeros(n) == [i \in 1..n |-> 0]
RewardUnroll(n, r) == [Zeros(n) EXCEPT ![n] = r]
TokensOf(k, kind, n) == [i \in 1..n |-> <<k, kind, i>>]

(* the assertions of Transition.__init__ *)
IsTransition(t) ==
  /\ t.terminal => t.observation = <<>> /\ ~t.switch
  /\ t.rewards # <<>> => Len(t.rewards) = Len(t.action)

EmptyTrajectory ==
  [transitions |-> <<>>, tokens |-> << <<>> >>, logps |-> << <<>> >>, source |-> << <<>> >>,
   rewards |-> << <<>> >>, terminated |-> FALSE, truncation |-> NoReturn]
Context(t) == Last(t.tokens)

(* the last context of a field, extended *)
Extend(contexts, xs) == [contexts EXCEPT ![Len(contexts)] = @ \o xs]
Switched(contexts, t) == IF t.switch THEN Append(contexts, <<>>) ELSE contexts
Fill(contexts, t, acts, obs) == Extend(Switched(Extend(contexts, acts), t), obs)

AppendTransition(traj_, t, logps) ==
  LET n == Len(t.action)
      m == Len(t.observation)
  IN [traj_ EXCEPT
        !.transitions = Append(@, t),
        !.tokens      = Fill(@, t, t.action, t.observation),
        !.logps       = Fill(@, t, logps, Zeros(m)),
        !.source      = Fill(@, t, [i \in 1..n |-> "agent"], [i \in 1..m |-> "env"]),
        !.rewards     = Fill(@, t, t.rewards, Zeros(m)),
        !.terminated  = t.terminal]
Truncated(traj_, ret) == [traj_ EXCEPT !.truncation = ret]

(* transition_to_dict to rollout_to_dict: of a full dump or a minimal one;  *)
(* a trajectory that was not truncated has no truncation_return *)
RolloutToDict(t, full, step) ==
  [transitions |-> t.transitions, tokens |-> full, steps |-> step,
   truncation |-> t.truncation, logps |-> IF full THEN t.logps ELSE <<>>]

(* from_transitions: the log-probabilities are stored per context *)
FromTransitions(transitions) ==
  FoldLeft(LAMBDA acc, t : AppendTransition(acc, t, Zeros(Len(t.action))),
           EmptyTrajectory, transitions)
Fits(t, logps) ==
  /\ Len(logps) = Len(t.logps)
  /\ \A c \in DOMAIN logps : Len(logps[c]) = Len(t.logps[c])
Loadable(d) ==
  /\ d.tokens
  /\ \A k \in DOMAIN d.transitions : IsTransition(d.transitions[k])
  /\ Fits(FromTransitions(d.transitions), d.logps)
RolloutFromDict(d, keepSteps) ==
  [traj  |-> [FromTransitions(d.transitions) EXCEPT !.logps = d.logps, !.truncation = d.truncation],
   steps |-> IF keepSteps THEN d.steps ELSE -1]

(* return_to_go: the reverse cumulative sum across the contexts *)
Sum(xs) == FoldLeft(LAMBDA acc, x : acc + x, 0, xs)
HasReturn(t) == t.terminated # (t.truncation # NoReturn)
ReturnInContext(t, c, i) == Sum(t.truncation) + Sum(SubSeq(t.rewards[c], i, Len(t.rewards[c])))
ReturnToGo(t, c, i) ==
  Sum(t.truncation)
  + Sum(SubSeq(t.rewards[c], i, Len(t.rewards[c])))
  + Sum(FlattenSeq(SubSeq(t.rewards, c + 1, Len(t.rewards))))

-----------------------------------------------------------------------------
(* reference_rollout *)
StartEpisode(n, switch, lps) ==
  /\ episode = "start"
  /\ traj' = AppendTransition(traj, [action |-> <<>>, rewards |-> <<>>, terminal |-> FALSE,
                                     observation |-> TokensOf(1, "observation", n),
                                     switch |-> switch], <<>>)
  /\ given' = lps /\ episode' = "run"
  /\ UNCHANGED <<file, reloaded>>

Step(n, m, terminal, switch, r) ==
  LET k  == Len(traj.transitions) + 1
      tr == [action |-> TokensOf(k, "action", n), rewards |-> RewardUnroll(n, r),
             observation |-> TokensOf(k, "observation", m), terminal |-> terminal,
             switch |-> switch]
  IN /\ episode = "run" /\ k <= EpisodeSteps + 1
     /\ ~traj.terminated /\ Len(Context(traj)) < MaxSeqLen
     /\ n <= MaxSeqLen - Len(Context(traj))
     /\ IsTransition(tr)
     /\ traj' = AppendTransition(traj, tr, IF given THEN [i \in 1..n |-> k + i] ELSE Zeros(n))
     /\ UNCHANGED <<given, episode, file, reloaded>>

(* a trajectory that did not end may be truncated, or be left as it is *)
StopEpisode(truncation) ==
  /\ episode = "run" /\ episode' = "over"
  /\ traj.terminated => truncation = NoReturn
  /\ traj' = IF truncation = NoReturn THEN traj ELSE Truncated(traj, truncation)
  /\ UNCHANGED <<given, file, reloaded>>

Dump(full) ==
  /\ episode = "over" /\ file = NoFile
  /\ file' = RolloutToDict(traj, full, 1)
  /\ UNCHANGED <<traj, given, episode, reloaded>>

Reload(keepSteps) ==
  /\ episode = "over" /\ file # NoFile /\ Loadable(file)
  /\ reloaded' = RolloutFromDict(file, keepSteps) /\ episode' = "reloaded"
  /\ UNCHANGED <<traj, given, file>>
ReloadFails ==
  /\ episode = "over" /\ file # NoFile /\ ~Loadable(file)
  /\ episode' = "raised"
  /\ UNCHANGED <<traj, given, file, reloaded>>

TrajectoryInit ==
  /\ traj = EmptyTrajectory /\ given = FALSE /\ episode = "start" /\ file = NoFile
  /\ reloaded = [traj |-> EmptyTrajectory, steps |-> -1]
TrajectoryNext ==
  \/ \E n \in ReplyLens \ {0}, switch, lps \in BOOLEAN : StartEpisode(n, switch, lps)
  \/ \E n \in ActionLens, m \in ReplyLens, terminal, switch \in BOOLEAN, r \in Rewards :
       Step(n, m, terminal, switch, r)
  \/ \E ret \in {NoReturn} \cup {<<r>> : r \in Rewards} : StopEpisode(ret)
  \/ \E full \in BOOLEAN : Dump(full)
  \/ \E keep \in BOOLEAN : Reload(keep)
  \/ ReloadFails
TrajectorySpec == TrajectoryInit /\ [][TrajectoryNext]_tvars

-----------------------------------------------------------------------------
(* where the token of a transition belongs: behind the switches before it,  *)
(* an observation behind that of its own transition too                     *)
ContextOf(tok) ==
  LET past == IF tok[2] = "observation" THEN tok[1] ELSE tok[1] - 1
  IN 1 + Cardinality({k \in 1..past : traj.transitions[k].switch})
AllTokens ==
  FlattenSeq([k \in DOMAIN traj.transitions |->
                traj.transitions[k].action \o traj.transitions[k].observation])
Earned(tok) ==  \* from this token on
  LET t == traj.transitions
  IN Sum([k \in DOMAIN t |-> IF k > tok[1] \/ (k = tok[1] /\ tok[2] = "action")
                             THEN Sum(t[k].rewards) ELSE 0])

(***************************************************************************)
(* A trajectory keeps the episode: the tokens of its contexts are those of *)
(* the transitions in their order, cut where a switch asks for it; those   *)
(* of the agent are marked; the return from a token on is what the         *)
(* transitions earn after it, in later contexts too, and what was assumed  *)
(* for the rest.  A full dump that is read back gives the same trajectory. *)
(***************************************************************************)
KeepsEpisode ==
  /\ FlattenSeq(traj.tokens) = AllTokens
  /\ \A c \in DOMAIN traj.tokens : \A i \in DOMAIN traj.tokens[c] :
       LET tok == traj.tokens[c][i]
       IN /\ c = ContextOf(tok)
          /\ (traj.source[c][i] = "agent") = (tok[2] = "action")
          /\ traj.logps[c][i] = IF given /\ tok[2] = "action" THEN tok[1] + tok[3] ELSE 0
          /\ HasReturn(traj) =>
               ReturnToGo(traj, c, i) = Earned(tok) + Sum(traj.truncation)
  /\ episode = "reloaded" => file.tokens /\ reloaded.traj = traj
  /\ episode = "raised" => ~file.tokens
=============================================================================
