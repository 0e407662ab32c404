------------------------------ MODULE EvalRun ------------------------------
(***************************************************************************)
(* evals/main.py: one evaluation.  load_data puts what is missing of each  *)
(* problem in data_queue, the rollout threads of every rank turn each      *)
(* datum into a sample with calls of ImpGen.generate(), and the dump       *)
(* thread of rank 0 appends the samples to two files.  A crash loses all   *)
(* but the files; the next run counts the lines of all_metrics.jsonl.      *)
(*                                                                         *)
(* One tensor-parallel group is the whole world.  Problems are numbered in *)
(* the order of the chained datasets.                                      *)
(***************************************************************************)
EXTENDS ImpGen

CONSTANTS
  NProblems,     \* problems, numbered from 1
  Needed,        \* samples_per_prompt, per problem
  MaxAttempts,   \* max_exceptions + 1
  MaxQueue,      \* data_queue is refilled while it is not longer (200)
  MaxSteps,      \* bound: turns of a rollout
  MaxCrashes     \* bound

ASSUME EvalAssumption ==
  /\ IsFiniteSet(Threads)
  /\ NProblems \in Nat /\ Needed \in [1..NProblems -> Nat]
  /\ MaxAttempts \in Nat \ {0} /\ MaxQueue \in Nat
  /\ MaxSteps \in Nat \ {0} /\ MaxCrashes \in Nat

Problems == 1..NProblems
Done == 0      \* the None of data_queue and dump_queue
Idle == -2     \* no datum, no sample

VARIABLES
  metrics, trajs,  \* lines per problem: all_metrics.jsonl, trajectory file
  counts,          \* count_per_source, read at the start
  loader,          \* next problem, or NProblems + 1, or "over"
  left,            \* samples of it still to put
  dataq,           \* data_queue
  cur, attempt,    \* per thread: its datum or Done, attempts so far
  turns,           \* per thread, answers in this attempt
  dumpq,           \* dump_queue
  dump,            \* dump thread: "get", "metrics", "traj" or "exit"
  sample,          \* what it holds
  kills,           \* kill_counts
  failed,          \* per problem, rollouts given up in this process
  crashes

files == <<metrics, trajs>>
loading == <<counts, loader, left>>
rolling == <<cur, attempt, turns, failed>>
dumping == <<dumpq, dump, sample, kills>>
vars == <<igVars, files, loading, dataq, rolling, dumping, crashes>>

-----------------------------------------------------------------------------
(* load_data *)

MissingAll(p) == Needed[p]
Missing(p) == IF counts[p] < Needed[p] THEN Needed[p] - counts[p] ELSE 0

LoadPut ==
  /\ loader <= NProblems /\ left > 0 /\ Len(dataq) <= MaxQueue
  /\ dataq' = Append(dataq, loader)
  /\ left' = left - 1
  /\ UNCHANGED <<igVars, files, counts, loader, rolling, dumping, crashes>>

LoadNext ==
  /\ loader <= NProblems /\ left = 0
  /\ loader' = loader + 1
  /\ left' = IF loader < NProblems THEN Missing(loader + 1) ELSE Cardinality(Threads)
  /\ UNCHANGED <<igVars, files, counts, dataq, rolling, dumping, crashes>>

(* one None for each rollout thread of the world *)
LoadDone ==
  /\ loader = NProblems + 1 /\ left > 0
  /\ dataq' = Append(dataq, Done)
  /\ left' = left - 1
  /\ UNCHANGED <<igVars, files, counts, loader, rolling, dumping, crashes>>

Load == LoadPut \/ LoadNext \/ LoadDone

-----------------------------------------------------------------------------
(* rollout *)

GetDatum(t) ==
  /\ th[t] = "free" /\ cur[t] = Idle /\ dataq # <<>>
  /\ dataq' = Tail(dataq)
  /\ cur' = [cur EXCEPT ![t] = Head(dataq)]
  /\ attempt' = [attempt EXCEPT ![t] = 1]
  /\ turns' = [turns EXCEPT ![t] = 0]
  /\ th' = [th EXCEPT ![t] = IF Head(dataq) = Done THEN "done" ELSE "free"]
  /\ UNCHANGED <<ticket, calls, futures, tpq, syncq, stopq, mainVars,
                 files, loading, failed, dumping, crashes>>

(* done_queue.put comes first, then dump_queue.put_object(None) *)
Leave(t) ==
  /\ cur[t] = Done
  /\ dumpq' = Append(dumpq, Done)
  /\ cur' = [cur EXCEPT ![t] = Idle]
  /\ UNCHANGED <<igVars, files, loading, dataq, attempt, turns, failed,
                 dump, sample, kills, crashes>>

CallGenerate(t) ==
  /\ cur[t] \in Problems /\ turns[t] < MaxSteps
  /\ Register(t)
  /\ turns' = [turns EXCEPT ![t] = @ + 1]
  /\ UNCHANGED <<files, loading, dataq, cur, attempt, failed, dumping, crashes>>

PutPacket(t) == Put(t) /\ UNCHANGED <<files, loading, dataq, rolling, dumping, crashes>>

(* the thread is back at the head of its loop *)
Drop(t) ==
  /\ cur' = [cur EXCEPT ![t] = Idle]
  /\ attempt' = [attempt EXCEPT ![t] = 0]
  /\ turns' = [turns EXCEPT ![t] = 0]

(* the last transition is terminal: the sample is queued *)
Succeed(t) ==
  /\ th[t] = "free" /\ cur[t] \in Problems /\ turns[t] > 0
  /\ dumpq' = Append(dumpq, cur[t])
  /\ Drop(t)
  /\ UNCHANGED <<igVars, files, loading, dataq, failed, dump, sample, kills, crashes>>

(* env.start or env.step raises: another attempt, or the datum is given up *)
Raise(t) ==
  /\ th[t] = "free" /\ cur[t] \in Problems
  /\ IF attempt[t] < MaxAttempts
     THEN /\ attempt' = [attempt EXCEPT ![t] = @ + 1]
          /\ turns' = [turns EXCEPT ![t] = 0]
          /\ UNCHANGED <<cur, failed>>
     ELSE Drop(t) /\ failed' = [failed EXCEPT ![cur[t]] = @ + 1]
  /\ UNCHANGED <<igVars, files, loading, dataq, dumping, crashes>>

Rollout(t) ==
  GetDatum(t) \/ Leave(t) \/ CallGenerate(t) \/ PutPacket(t) \/ Succeed(t) \/ Raise(t)

-----------------------------------------------------------------------------
(* dump_samples *)

LastKill == Cardinality(Threads)

DumpGet ==
  /\ dump = "get" /\ dumpq # <<>>
  /\ dumpq' = Tail(dumpq)
  /\ IF Head(dumpq) = Done
     THEN /\ kills' = kills + 1
          /\ dump' = IF kills' >= LastKill THEN "exit" ELSE "get"
          /\ UNCHANGED sample
     ELSE dump' = "metrics" /\ sample' = Head(dumpq) /\ UNCHANGED kills
  /\ UNCHANGED <<igVars, files, loading, dataq, rolling, crashes>>

(* each line is flushed before the next step *)
DumpLineTrajFirst ==
  /\ dump \in {"metrics", "traj"}
  /\ IF dump = "metrics"
     THEN trajs' = [trajs EXCEPT ![sample] = @ + 1] /\ dump' = "traj"
          /\ UNCHANGED <<metrics, sample>>
     ELSE metrics' = [metrics EXCEPT ![sample] = @ + 1] /\ dump' = "get"
          /\ sample' = Idle /\ UNCHANGED trajs
  /\ UNCHANGED <<igVars, loading, dataq, rolling, dumpq, kills, crashes>>
DumpLine ==
  /\ dump \in {"metrics", "traj"}
  /\ IF dump = "metrics"
     THEN metrics' = [metrics EXCEPT ![sample] = @ + 1] /\ dump' = "traj"
          /\ UNCHANGED <<trajs, sample>>
     ELSE trajs' = [trajs EXCEPT ![sample] = @ + 1] /\ dump' = "get"
          /\ sample' = Idle /\ UNCHANGED metrics
  /\ UNCHANGED <<igVars, loading, dataq, rolling, dumpq, kills, crashes>>

Dump == DumpGet \/ DumpLine

-----------------------------------------------------------------------------
(* run_rl_evals: a process starts with the files it finds *)

Fresh(found, counts_, loader_, left_, dataq_, cur_, attempt_, turns_, failed_, dumpq_, dump_, sample_, kills_) ==
  /\ counts_ = found /\ loader_ = 0 /\ left_ = 0
  /\ dataq_ = <<>> /\ dumpq_ = <<>>
  /\ cur_ = [t \in Threads |-> Idle] /\ attempt_ = [t \in Threads |-> 0]
  /\ turns_ = [t \in Threads |-> 0] /\ failed_ = [p \in Problems |-> 0]
  /\ dump_ = "get" /\ sample_ = Idle /\ kills_ = 0

NoLines == [p \in Problems |-> 0]
Init ==
  /\ IgInit
  /\ Fresh(NoLines, counts, loader, left, dataq, cur, attempt, turns, failed,
           dumpq, dump, sample, kills)
  /\ metrics = NoLines /\ trajs = NoLines /\ crashes = 0

(* the joins at the end of run_rl_evals, and the aggregation *)
Joined ==
  /\ \A r \in Ranks : pc[r] = "ended"
  /\ loader = NProblems + 1 /\ left = 0
  /\ \A t \in Threads : th[t] = "done" /\ cur[t] = Idle
  /\ dump = "exit"

Finished == Joined /\ UNCHANGED vars

Crash ==
  /\ ~Joined /\ crashes < MaxCrashes
  /\ UNCHANGED files
  /\ crashes' = crashes + 1
  /\ IgRestart
  /\ Fresh(metrics, counts', loader', left', dataq', cur', attempt', turns', failed',
           dumpq', dump', sample', kills')

MainThread == Mains /\ UNCHANGED <<files, loading, dataq, rolling, dumping, crashes>>

Next ==
  \/ Load \/ Dump \/ MainThread \/ Crash \/ Finished
  \/ \E t \in Threads : Rollout(t)

Fairness ==
  /\ WF_vars(Load) /\ WF_vars(Dump)
  /\ \A t \in Threads : WF_vars(Rollout(t))
  /\ \A r \in Ranks :
       WF_vars(Main(r) /\ UNCHANGED <<files, loading, dataq, rolling, dumping, crashes>>)

Spec == Init /\ [][Next]_vars /\ Fairness

-----------------------------------------------------------------------------
(* Properties *)

Occurrences(q, p) == Cardinality({k \in DOMAIN q : q[k] = p})
ToLoad(p) ==
  IF p = loader THEN left ELSE IF p > loader THEN Missing(p) ELSE 0

(***************************************************************************)
(* Every sample a problem still needed when this process started is to be  *)
(* loaded, queued, rolled out, waiting to be dumped, dumped or given up,   *)
(* exactly once, whatever the earlier processes left: none is lost, none   *)
(* is sampled twice.  The dump thread leaves last: every rollout thread is *)
(* done then and nothing is left to dump.                                  *)
(***************************************************************************)
Accounted ==
  /\ \A p \in Problems :
       metrics[p] + (IF dump = "metrics" /\ sample = p THEN 1 ELSE 0)
         + Occurrences(dumpq, p) + Cardinality({t \in Threads : cur[t] = p})
         + Occurrences(dataq, p) + ToLoad(p) + failed[p] = Needed[p]
  /\ dump = "exit" => dumpq = <<>> /\ \A t \in Threads : th[t] = "done" /\ cur[t] = Idle

(* No trajectory without its line in all_metrics.jsonl, by which a resumed    *)
(* run counts; a trajectory that is missing while nothing of its problem is   *)
(* being written was lost by a crash between the two lines, one by each.      *)
TrajectoriesFollow ==
  \E hit \in [1..crashes -> Problems \cup {Idle}] :
    \A p \in Problems :
      metrics[p] - trajs[p] = (IF dump = "traj" /\ sample = p THEN 1 ELSE 0)
                              + Cardinality({c \in 1..crashes : hit[c] = p})

(* The evaluation ends: all threads are joined, on every rank.                *)
RunEnds == <>Joined
=============================================================================
