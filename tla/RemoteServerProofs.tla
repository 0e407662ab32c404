------------------------- MODULE RemoteServerProofs -------------------------
(***************************************************************************)
(* Proofs about RemoteServer, for any connections, slots and bounds.       *)
(*                                                                         *)
(* The inductive invariant says of each job what it holds: a place in a    *)
(* queue, a slot, a session, its lock.  From the lock follows what the     *)
(* bash of a session has still to run and to say, which is what OwnOutput  *)
(* needs: nothing between two commands, the start script alone before the  *)
(* first, and a job's own command while the job reads; and one answer more *)
(* in a session whose start script came late.                              *)
(***************************************************************************)
EXTENDS RemoteServer, SequenceTheorems, FiniteSetTheorems, TLAPS

Waiting == {"sem", "new"}
Outside == {"idle"} \cup Waiting
Holding == {"start", "script", "send", "read"}
Places == Outside \cup {"lock"} \cup Holding

Job == [at : Places, cmd : 0..MaxCommands, sess : 0..MaxSessions]
Answer == [status : {"unknown", "pending", "success", "error", "TypeError"},
           output : Seq(0..MaxCommands)]

TypeOK ==
  /\ job \in [Jobs -> Job]
  /\ sem \in Nat /\ semq \in Seq(Jobs)
  /\ store \in 0..nsess /\ nsess \in 0..MaxSessions
  /\ holder \in [Sessions -> Jobs \cup {NoOne}]
  /\ lockq \in [Sessions -> Seq(Jobs)]
  /\ proc \in [Sessions -> {"none", "runs", "exited"}]
  /\ sent \in [Sessions -> Seq(0..MaxCommands)]
  /\ out \in [Sessions -> Seq(0..MaxCommands)]
  /\ late \in SUBSET Sessions
  /\ tasks \in [Tasks -> Answer] /\ ntasks \in 0..MaxTasks
  /\ origin \in [Tasks -> [conn : BgConns \cup {NoOne}, cmd : 0..MaxCommands]]
  /\ request \in [BgConns -> [op : {"none", "run_session", "check_task_status"},
                              cmd : 0..MaxCommands]]
  /\ latest \in [BgConns -> 0..MaxTasks]
  /\ ncmd \in 0..MaxCommands

-----------------------------------------------------------------------------
(* The inductive invariant *)

(* a job that waits is in the queue it waits in *)
In(q, j) == \E i \in 1..Len(q) : q[i] = j
QueueInv ==
  \A j \in Jobs : /\ job[j].at = "sem" => In(semq, j)
                  /\ job[j].at = "lock" => In(lockq[job[j].sess], j)

(* a task submitted has a handler, one that was not does nothing *)
TaskInv ==
  \A k \in Tasks : /\ k <= ntasks => origin[k].conn \in BgConns
                   /\ k > ntasks => job[k].at = "idle"

(* a job has a session once it has its slot *)
SessInv == \A j \in Jobs : job[j].sess = NoSession <=> job[j].at \in Outside

(* a session's lock and the one job past it *)
LockInv ==
  /\ \A j \in Jobs : job[j].at \in Holding => holder[job[j].sess] = j
  /\ \A s \in Sessions : holder[s] # NoOne =>
       job[holder[s]].sess = s /\ job[holder[s]].at \in Holding

(* what bash has to run and to say *)
Quiet(s) == out[s] = <<>> /\ sent[s] = <<>>
Owes(s, c) == \/ out[s] = <<c>> /\ sent[s] = <<>>
              \/ out[s] = <<>> /\ sent[s] = <<c>>
Behind(s, n) == s \in late /\ Len(out[s]) + Len(sent[s]) <= n

AsExpected(jb) ==
  LET s == jb.sess
  IN /\ jb.at \in {"start", "send"} => Quiet(s) \/ Behind(s, 1)
     /\ jb.at = "script" => \/ Quiet(s) /\ proc[s] # "runs"
                            \/ Owes(s, StartScript) /\ proc[s] = "runs"
     /\ jb.at = "read" => Quiet(s) \/ Owes(s, jb.cmd) \/ Behind(s, 2)

BashInv ==
  /\ \A s \in Sessions : proc[s] = "none" => Quiet(s)
  /\ \A s \in Sessions : holder[s] = NoOne => Quiet(s) \/ Behind(s, 1)
  /\ \A j \in Jobs : AsExpected(job[j])

(* the slots in use *)
Inside == {j \in Jobs : job[j].at \notin Outside}
SlotInv == IsFiniteSet(Inside) /\ sem + Cardinality(Inside) = Slots

BaseInv == TypeOK /\ QueueInv /\ TaskInv /\ SessInv
IInv == BaseInv /\ LockInv /\ SlotInv /\ NoOrphan

-----------------------------------------------------------------------------
(* Queues *)

(* A queue that is joined keeps the others and has the newcomer. *)
LEMMA AppendFacts ==
  ASSUME NEW S, NEW q \in Seq(S), NEW x \in S
  PROVE  /\ Append(q, x) \in Seq(S)
         /\ In(Append(q, x), x)
         /\ \A i : In(q, i) => In(Append(q, x), i)
<1>1. Len(Append(q, x)) = Len(q) + 1 /\ Append(q, x)[Len(q) + 1] = x
      /\ \A n \in 1..Len(q) : Append(q, x)[n] = q[n]
  OBVIOUS
<1>2. QED BY <1>1 DEF In

(* A queue that its head leaves keeps the others. *)
LEMMA TailFacts ==
  ASSUME NEW S, NEW q \in Seq(S), NEW j, In(q, j)
  PROVE  /\ q # <<>> /\ Tail(q) \in Seq(S)
         /\ \A i : In(q, i) /\ i # Head(q) => In(Tail(q), i)
<1>1. q # <<>> /\ Tail(q) \in Seq(S) /\ Len(Tail(q)) = Len(q) - 1
  BY DEF In
<1>2. \A n \in 1..Len(Tail(q)) : Tail(q)[n] = q[n + 1]
  BY <1>1
<1>3. ASSUME NEW i, In(q, i), i # Head(q) PROVE In(Tail(q), i)
  <2>1. PICK n \in 1..Len(q) : q[n] = i
    BY <1>3 DEF In
  <2>2. n # 1
    BY <2>1, <1>3, <1>1
  <2>3. n - 1 \in 1..Len(Tail(q)) /\ Tail(q)[n - 1] = i
    BY <2>1, <2>2, <1>1, <1>2
  <2>4. QED BY <2>3 DEF In
<1>4. QED BY <1>1, <1>3

(* The number 0 names no job and no session. *)
LEMMA Names ==
  /\ NoOne \notin Jobs /\ NoSession \notin Sessions
  /\ Tasks \subseteq Jobs /\ AllConns \subseteq Jobs /\ AllConns \cap Tasks = {}
  /\ Conns \subseteq AllConns /\ BgConns \subseteq AllConns
  /\ \A s \in 0..MaxSessions : s \in Sessions <=> s # NoSession
BY ServerAssumption DEF NoOne, NoSession, Jobs, Tasks, AllConns, Sessions

-----------------------------------------------------------------------------
(* Types, queues and sessions *)

(* Nothing runs at first. *)
LEMMA InitBase == Init => BaseInv
<1> SUFFICES ASSUME Init PROVE BaseInv
  OBVIOUS
<1>1. TypeOK
  BY ServerAssumption DEF Init, TypeOK, Job, Answer, Idle, Result, NoRequest, Places,
     Outside, Waiting, Holding, NoSession, Tasks, Sessions, NoOne
<1>2. QueueInv /\ TaskInv /\ SessInv
  BY ServerAssumption, Names DEF Init, Idle, QueueInv, TaskInv, SessInv, Waiting, Outside,
     Tasks, NoSession
<1>3. QED BY <1>1, <1>2 DEF BaseInv

(* A job that idles is as Idle says, but for its command. *)
LEMMA IdleFacts ==
  ASSUME BaseInv, NEW j \in Jobs, job[j].at \in Outside
  PROVE  job[j].sess = NoSession
BY DEF BaseInv, SessInv

(* What a job may be made is a job. *)
LEMMA IdleType == Idle \in Job
BY ServerAssumption DEF Idle, Job, Places, Outside, Waiting, Holding, NoSession

(* A session stopped has no process and nothing to run or to say. *)
LEMMA StoppedType ==
  ASSUME TypeOK, NEW s, Stopped(s)
  PROVE  /\ sent' \in [Sessions -> Seq(0..MaxCommands)]
         /\ out' \in [Sessions -> Seq(0..MaxCommands)]
         /\ proc' \in [Sessions -> {"none", "runs", "exited"}]
         /\ late' \in SUBSET Sessions
<1>1. <<>> \in Seq(0..MaxCommands)
  OBVIOUS
<1>2. sent' \in [Sessions -> Seq(0..MaxCommands)]
  BY <1>1 DEF Stopped, TypeOK
<1>3. out' \in [Sessions -> Seq(0..MaxCommands)]
  BY <1>1 DEF Stopped, TypeOK
<1>4. proc' \in [Sessions -> {"none", "runs", "exited"}]
  BY DEF Stopped, TypeOK
<1>5. late' \in SUBSET Sessions
  BY DEF Stopped, TypeOK
<1>6. QED BY <1>2, <1>3, <1>4, <1>5

(* A part of a sequence is one over the same set. *)
LEMMA SubSeqType ==
  ASSUME NEW S, NEW q \in Seq(S), NEW m \in 1..(Len(q) + 1), NEW n \in Nat, n <= Len(q)
  PROVE  SubSeq(q, m, n) \in Seq(S)
<1>1. \A i \in m..n : q[i] \in S
  OBVIOUS
<1>2. QED BY <1>1, SubSeqProperties

(* What is read of the output leaves its tail. *)
LEMMA ReadType ==
  ASSUME TypeOK, NEW s \in Sessions, NEW n \in Nat, Read(s, n)
  PROVE  out' \in [Sessions -> Seq(0..MaxCommands)]
<1>1. out[s] \in Seq(0..MaxCommands) /\ Len(out[s]) \in Nat
  BY DEF TypeOK
<1>2. n + 1 \in 1..(Len(out[s]) + 1)
  <2>1. n <= Len(out[s])
    BY DEF Read
  <2>2. QED BY <2>1, <1>1
<1>3. \A l \in Nat : l <= Len(out[s]) => SubSeq(out[s], n + 1, l) \in Seq(0..MaxCommands)
  BY <1>1, <1>2, SubSeqType
<1>4. SubSeq(out[s], n + 1, Len(out[s])) \in Seq(0..MaxCommands)
  BY <1>1, <1>3
<1>5. QED BY <1>4 DEF Read, TypeOK

(* A report keeps the results typed. *)
LEMMA ReportType ==
  ASSUME TypeOK, NEW j, NEW result \in Answer, Report(j, result)
  PROVE  tasks' \in [Tasks -> Answer]
BY DEF Report, TypeOK

(* A job that has its session is in no queue but that of the lock. *)
LEMMA MoveBase ==
  ASSUME BaseInv, NEW j \in Jobs, NEW place \in {"start", "script", "send", "read"},
         job[j].at \notin Outside, job' = [job EXCEPT ![j].at = place], semq' = semq,
         \A i \in Jobs \ {j} : job[i].at = "lock" => In(lockq'[job[i].sess], i),
         ntasks' = ntasks, origin' = origin
  PROVE  job' \in [Jobs -> Job] /\ QueueInv' /\ TaskInv' /\ SessInv'
<1> USE DEF BaseInv
<1>1. /\ job' \in [Jobs -> Job]
      /\ job'[j].at = place /\ job'[j].sess = job[j].sess
      /\ \A i \in Jobs \ {j} : job'[i] = job[i]
  <2>1. [job[j] EXCEPT !.at = place] \in Job
    <3>1. job[j] \in Job /\ place \in Places
      BY DEF TypeOK, Places, Holding
    <3>2. QED BY <3>1 DEF Job
  <2>2. QED BY <2>1 DEF TypeOK, Job
<1>2. QueueInv'
  BY <1>1 DEF QueueInv, Waiting
<1>3. TaskInv'
  BY <1>1, Names DEF TaskInv, Outside
<1>4. SessInv'
  BY <1>1 DEF SessInv, Outside, Waiting
<1>5. QED BY <1>1, <1>2, <1>3, <1>4

(* A job that ends idles: it is in no queue and has no session. *)
LEMMA EndBase ==
  ASSUME BaseInv, NEW j \in Jobs, job' = [job EXCEPT ![j] = Idle],
         \A i \in Jobs \ {j} : job[i].at = "sem" => In(semq', i), lockq' = lockq,
         ntasks' = ntasks, origin' = origin
  PROVE  job' \in [Jobs -> Job] /\ QueueInv' /\ TaskInv' /\ SessInv'
<1> USE DEF BaseInv
<1>1. /\ job' \in [Jobs -> Job]
      /\ job'[j].at = "idle" /\ job'[j].sess = NoSession
      /\ \A i \in Jobs \ {j} : job'[i] = job[i]
  BY IdleType DEF TypeOK, Idle
<1>2. QueueInv'
  BY <1>1 DEF QueueInv, Waiting
<1>3. TaskInv'
  BY <1>1, Names DEF TaskInv
<1>4. SessInv'
  BY <1>1 DEF SessInv, Outside
<1>5. QED BY <1>1, <1>2, <1>3, <1>4

(* The slot is taken, or there is no session to take it for. *)
LEMMA ServeBase ==
  ASSUME BaseInv, NEW j \in Jobs, NEW rq, rq.cmd \in 0..MaxCommands, Serve(j, rq), sem > 0,
         job[j].at \in Outside, j \in Tasks => j <= ntasks,
         semq' \in Seq(Jobs),
         \A i \in Jobs \ {j} : job[i].at = "sem" => In(semq', i),
         ncmd' \in 0..MaxCommands,
         UNCHANGED <<store, nsess, proc, sent, out, late, ntasks, origin, request, latest>>
  PROVE  BaseInv'
<1> USE DEF BaseInv
<1>6. CASE rq.op # "run_session" \/ store = NoSession
  <2>1. /\ job' = [job EXCEPT ![j] = Idle] /\ UNCHANGED <<sem, holder, lockq>>
        /\ Report(j, Result(IF rq.op = "run_session" THEN "error" ELSE "TypeError"))
    BY <1>6 DEF Serve
  <2>2. tasks' \in [Tasks -> Answer]
    <3>1. Result(IF rq.op = "run_session" THEN "error" ELSE "TypeError") \in Answer
      BY DEF Result, Answer
    <3>2. QED BY <3>1, <2>1, ReportType
  <2>3. job' \in [Jobs -> Job] /\ QueueInv' /\ TaskInv' /\ SessInv'
    BY <2>1, EndBase
  <2>4. QED BY <2>1, <2>2, <2>3 DEF TypeOK
<1>7. CASE rq.op = "run_session" /\ store # NoSession
  <2> DEFINE new == [at |-> IF LockFree(store) THEN "start" ELSE "lock",
                     cmd |-> rq.cmd, sess |-> store]
  <2>1. /\ sem' = sem - 1 /\ job' = [job EXCEPT ![j] = new] /\ tasks' = tasks
        /\ IF LockFree(store) THEN holder' = [holder EXCEPT ![store] = j] /\ UNCHANGED lockq
           ELSE lockq' = [lockq EXCEPT ![store] = Append(lockq[store], j)] /\ UNCHANGED holder
    BY <1>7 DEF Serve
  <2>2. store \in Sessions /\ sem' \in Nat
    <3>1. store \in Sessions
      BY <1>7, Names, ServerAssumption DEF TypeOK, Sessions
    <3>2. sem' = sem - 1
      BY <2>1
    <3>3. QED BY <3>1, <3>2 DEF TypeOK
  <2>3. new \in Job /\ new.at \in {"start", "lock"} /\ new.sess = store
        /\ (new.at = "lock" <=> ~LockFree(store))
    BY <2>2, ServerAssumption DEF Job, Places, Holding, Sessions
  <2> HIDE DEF new
  <2>4. /\ job' \in [Jobs -> Job]
        /\ job'[j].at \in {"start", "lock"} /\ job'[j].sess = store
        /\ (job'[j].at = "lock" <=> ~LockFree(store))
        /\ \A i \in Jobs \ {j} : job'[i] = job[i]
    BY <2>1, <2>3 DEF TypeOK
  <2>5. /\ lockq' \in [Sessions -> Seq(Jobs)] /\ (~LockFree(store) => In(lockq'[store], j))
        /\ \A s \in Sessions, i \in Jobs : In(lockq[s], i) => In(lockq'[s], i)
    <3>1. lockq[store] \in Seq(Jobs)
      BY <2>2 DEF TypeOK
    <3>2. /\ Append(lockq[store], j) \in Seq(Jobs) /\ In(Append(lockq[store], j), j)
          /\ \A i : In(lockq[store], i) => In(Append(lockq[store], j), i)
      BY <3>1, AppendFacts
    <3>3. CASE LockFree(store)
      BY <3>3, <2>1 DEF TypeOK
    <3>4. CASE ~LockFree(store)
      <4>1. lockq' = [lockq EXCEPT ![store] = Append(lockq[store], j)]
        BY <3>4, <2>1
      <4>2. QED BY <4>1, <3>2, <2>2 DEF TypeOK
    <3>5. QED BY <3>3, <3>4
  <2>11. holder' \in [Sessions -> Jobs \cup {NoOne}]
    BY <2>1 DEF TypeOK
  <2>6. TypeOK'
    BY <2>1, <2>2, <2>4, <2>5, <2>11 DEF TypeOK
  <2>7. QueueInv'
    <3>1. ASSUME NEW i \in Jobs, job'[i].at = "lock" PROVE In(lockq'[job'[i].sess], i)
      <4>1. CASE i = j
        BY <4>1, <3>1, <2>4, <2>5
      <4>2. CASE i # j
        <5>1. job[i].at = "lock" /\ job'[i].sess = job[i].sess /\ In(lockq[job[i].sess], i)
          BY <4>2, <3>1, <2>4 DEF QueueInv
        <5>2. job[i].sess \in Sessions
          BY <5>1, Names DEF SessInv, TypeOK, Job, Outside, Waiting
        <5>3. QED BY <5>1, <5>2, <2>5
      <4>3. QED BY <4>1, <4>2
    <3>2. QED BY <3>1, <2>4 DEF QueueInv
  <2>8. TaskInv'
    <3>1. ASSUME NEW k \in Tasks, k > ntasks' PROVE job'[k].at = "idle"
      <4>1. k # j /\ k \in Jobs
        BY <3>1, Names, ServerAssumption DEF TypeOK, Tasks
      <4>2. QED BY <4>1, <3>1, <2>4 DEF TaskInv
    <3>2. QED BY <3>1 DEF TaskInv
  <2>9. SessInv'
    BY <2>4, <1>7 DEF SessInv, Outside, Waiting
  <2>10. QED BY <2>6, <2>7, <2>8, <2>9
<1>8. QED BY <1>6, <1>7

(* The semaphore is free and the request served, or the job joins its queue. *)
LEMMA AcquireBase ==
  ASSUME BaseInv, NEW j \in Jobs, NEW rq, rq.cmd \in 0..MaxCommands, Acquire(j, rq),
         job[j].at \in {"idle", "new"}, j \in Tasks => j <= ntasks,
         ncmd' \in 0..MaxCommands,
         UNCHANGED <<store, nsess, proc, sent, out, late, ntasks, origin, request, latest>>
  PROVE  BaseInv'
<1> USE DEF BaseInv
<1>1. CASE SlotFree
  <2>1. Serve(j, rq) /\ semq' = semq /\ sem > 0 /\ job[j].at \in Outside
    BY <1>1 DEF Acquire, SlotFree, Outside, Waiting
  <2>2. semq' \in Seq(Jobs) /\ \A i \in Jobs \ {j} : job[i].at = "sem" => In(semq', i)
    BY <2>1 DEF TypeOK, QueueInv
  <2>3. QED BY <2>1, <2>2, ServeBase
<1>2. CASE ~SlotFree
  <2> DEFINE new == [at |-> "sem", cmd |-> rq.cmd, sess |-> NoSession]
  <2>1. /\ semq' = Append(semq, j) /\ job' = [job EXCEPT ![j] = new]
        /\ UNCHANGED <<sem, holder, lockq, tasks>>
    BY <1>2 DEF Acquire
  <2>2. new \in Job /\ new.at = "sem" /\ new.sess = NoSession
    BY ServerAssumption DEF Job, Places, Outside, Waiting, NoSession
  <2> HIDE DEF new
  <2>3. semq' \in Seq(Jobs) /\ In(semq', j) /\ \A i : In(semq, i) => In(semq', i)
    BY <2>1, AppendFacts DEF TypeOK
  <2>4. TypeOK'
    BY <2>1, <2>2, <2>3 DEF TypeOK
  <2>5. QueueInv'
    BY <2>1, <2>2, <2>3 DEF QueueInv, TypeOK
  <2>6. TaskInv'
    <3>1. ASSUME NEW k \in Tasks, k > ntasks' PROVE job'[k].at = "idle"
      <4>1. k # j /\ k \in Jobs
        BY <3>1, Names, ServerAssumption DEF TypeOK, Tasks
      <4>2. QED BY <4>1, <3>1, <2>1 DEF TaskInv, TypeOK
    <3>2. QED BY <3>1 DEF TaskInv
  <2>7. SessInv'
    BY <2>1, <2>2 DEF SessInv, TypeOK, Outside, Waiting
  <2>8. QED BY <2>4, <2>5, <2>6, <2>7
<1>3. QED BY <1>1, <1>2

(* A job that is not idle is a connection or a task that was submitted. *)
LEMMA Submitted ==
  ASSUME BaseInv, NEW j \in Tasks, job[j].at # "idle"
  PROVE  j <= ntasks /\ Command(j).cmd \in 0..MaxCommands
<1>1. j <= ntasks
  BY ServerAssumption DEF BaseInv, TaskInv, TypeOK, Tasks
<1>2. origin[j].conn \in BgConns
  BY <1>1 DEF BaseInv, TaskInv
<1>3. QED BY <1>1, <1>2 DEF Command, BaseInv, TypeOK

(* The first step of a task. *)
LEMMA StartBase ==
  ASSUME BaseInv, NEW j \in Jobs, StartTask(j)
  PROVE  BaseInv'
<1>1. /\ j \in Tasks /\ job[j].at = "new" /\ Acquire(j, Command(j))
      /\ UNCHANGED <<store, nsess, proc, sent, out, late, ntasks, origin, request, latest, ncmd>>
  BY DEF StartTask, sessions, bash, handlers
<1>2. j <= ntasks /\ Command(j).cmd \in 0..MaxCommands
  BY <1>1, Submitted
<1>3. ncmd' \in 0..MaxCommands
  BY <1>1 DEF BaseInv, TypeOK
<1>4. QED BY <1>1, <1>2, <1>3, AcquireBase

(* The semaphore is handed over. *)
LEMMA EnterBase ==
  ASSUME BaseInv, NEW j \in Jobs, Enter(j)
  PROVE  BaseInv'
<1> DEFINE rq == IF j \in Tasks THEN Command(j) ELSE Run(job[j].cmd)
<1>1. /\ job[j].at = "sem" /\ sem > 0 /\ j = Head(semq) /\ semq' = Tail(semq) /\ Serve(j, rq)
      /\ UNCHANGED <<store, nsess, proc, sent, out, late, ntasks, origin, request, latest, ncmd>>
  BY DEF Enter, sessions, bash, handlers
<1>2. In(semq, j) /\ job[j].at \in Outside
  BY <1>1 DEF BaseInv, QueueInv, Outside, Waiting
<1>3. /\ semq' \in Seq(Jobs)
      /\ \A i \in Jobs \ {j} : job[i].at = "sem" => In(semq', i)
  BY <1>1, <1>2, TailFacts DEF BaseInv, TypeOK, QueueInv
<1>4. rq.cmd \in 0..MaxCommands /\ (j \in Tasks => j <= ntasks)
  <2>1. CASE j \in Tasks
    BY <2>1, <1>1, Submitted
  <2>2. CASE j \notin Tasks
    BY <2>2 DEF BaseInv, TypeOK, Job, Run
  <2>3. QED BY <2>1, <2>2
<1>5. ncmd' \in 0..MaxCommands
  BY <1>1 DEF BaseInv, TypeOK
<1> HIDE DEF rq
<1>6. QED BY <1>1, <1>2, <1>3, <1>4, <1>5, ServeBase

(* The requests that are answered at once leave the jobs alone. *)
LEMMA RequestBase ==
  ASSUME BaseInv, NEW c \in AllConns, Request(c)
  PROVE  BaseInv'
<1> USE DEF BaseInv
<1>1. CASE CreateSession(c)
  <2>1. TypeOK'
    BY <1>1, ServerAssumption DEF CreateSession, TypeOK, locks, bash, background, handlers
  <2>2. QED BY <2>1, <1>1 DEF CreateSession, QueueInv, TaskInv, SessInv, locks, background
<1>2. CASE StopSession(c)
  <2>0. /\ sent' \in [Sessions -> Seq(0..MaxCommands)]
        /\ out' \in [Sessions -> Seq(0..MaxCommands)]
        /\ proc' \in [Sessions -> {"none", "runs", "exited"}]
        /\ late' \in SUBSET Sessions
    BY <1>2, StoppedType DEF StopSession
  <2>1. TypeOK'
    BY <1>2, <2>0, ServerAssumption
    DEF StopSession, TypeOK, locks, background, handlers, NoSession
  <2>2. QED BY <2>1, <1>2 DEF StopSession, QueueInv, TaskInv, SessInv, locks, background
<1>3. CASE CheckTask(c)
  <2>1. Result("unknown") \in Answer
    BY DEF Result, Answer
  <2>2. tasks' \in [Tasks -> Answer]
    BY <1>3, <2>1 DEF CheckTask, TypeOK
  <2>3. request' \in [BgConns -> [op : {"none", "run_session", "check_task_status"},
                                  cmd : 0..MaxCommands]]
    BY <1>3, ServerAssumption DEF CheckTask, TypeOK
  <2>4. TypeOK'
    BY <1>3, <2>2, <2>3 DEF CheckTask, TypeOK, locks, sessions, bash
  <2>5. QED BY <2>4, <1>3 DEF CheckTask, QueueInv, TaskInv, SessInv, locks
<1>4. CASE RunSession(c)
  <2> DEFINE rq == Run(ncmd + 1)
  <2>1. /\ c \in Jobs /\ c \notin Tasks /\ ncmd + 1 \in 0..MaxCommands /\ rq.cmd = ncmd + 1
        /\ job[c].at \in {"idle", "new"}
    BY <1>4, Names, ServerAssumption DEF RunSession, TypeOK, Run, Reads, Idle
  <2>2. /\ Acquire(c, rq) /\ ncmd' \in 0..MaxCommands
        /\ UNCHANGED <<store, nsess, proc, sent, out, late, ntasks, origin, request, latest>>
    BY <1>4, <2>1 DEF RunSession, sessions, bash
  <2>3. QED BY <2>1, <2>2, AcquireBase
<1>5. CASE Submit(c)
  <2> DEFINE k == ntasks + 1
             new == [Idle EXCEPT !.at = "new"]
  <2>0. /\ c \in BgConns /\ ncmd < MaxCommands /\ ntasks < MaxTasks
        /\ ncmd \in 0..MaxCommands /\ ntasks \in 0..MaxTasks
    BY <1>5 DEF Submit, TypeOK
  <2>1. k \in Tasks /\ k \in Jobs /\ ncmd + 1 \in 0..MaxCommands /\ c \in BgConns
    <3>1. k \in Tasks
      BY <2>0, ServerAssumption DEF Tasks
    <3>2. QED BY <2>0, <3>1, Names, ServerAssumption
  <2>2. /\ new \in Job /\ new.at = "new" /\ new.sess = NoSession
        /\ job' = [job EXCEPT ![k] = new]
    BY <1>5, <2>1, ServerAssumption
    DEF Submit, Idle, Job, Places, Outside, Waiting, Holding, NoSession
  <2>3. UNCHANGED <<sem, semq, holder, lockq>>
    BY <1>5 DEF Submit, locks
  <2>4. /\ tasks' \in [Tasks -> Answer]
        /\ origin' \in [Tasks -> [conn : BgConns \cup {NoOne}, cmd : 0..MaxCommands]]
    BY <1>5, <2>1 DEF Submit, TypeOK, Answer, Result
  <2>5. /\ request' \in [BgConns -> [op : {"none", "run_session", "check_task_status"},
                                     cmd : 0..MaxCommands]]
        /\ latest' \in [BgConns -> 0..MaxTasks] /\ ntasks' \in 0..MaxTasks
    <3>1. /\ request' = [request EXCEPT ![c] = [op |-> "run_session", cmd |-> ncmd + 1]]
          /\ latest' = [latest EXCEPT ![c] = k] /\ ntasks' = k
      BY <1>5 DEF Submit, Run
    <3>2. k \in 0..MaxTasks
      BY <2>1, ServerAssumption DEF Tasks
    <3> HIDE DEF k
    <3>3. QED BY <3>1, <3>2, <2>1 DEF TypeOK
  <2>6. TypeOK'
    <3>1. /\ UNCHANGED <<store, nsess, proc, sent, out, late>> /\ ncmd' = ncmd + 1
          /\ job' \in [Jobs -> Job]
      BY <1>5, <2>1, <2>2 DEF Submit, TypeOK, sessions, bash
    <3>2. ncmd' \in 0..MaxCommands
      BY <3>1, <2>1
    <3>3. QED BY <2>3, <2>4, <2>5, <3>1, <3>2 DEF TypeOK
  <2>7. QueueInv'
    BY <2>2, <2>3 DEF QueueInv, TypeOK
  <2>8. TaskInv'
    <3>1. origin' = [origin EXCEPT ![k] = [conn |-> c, cmd |-> ncmd + 1]] /\ ntasks' = k
      BY <1>5 DEF Submit
    <3>2. QED BY <3>1, <2>1, <2>2 DEF TaskInv, TypeOK, Tasks
  <2>9. SessInv'
    BY <2>2 DEF SessInv, TypeOK, Outside, Waiting
  <2>10. QED BY <2>6, <2>7, <2>8, <2>9
<1>6. QED BY <1>1, <1>2, <1>3, <1>4, <1>5 DEF Request

(* A job that has its slot takes its lock, uses bash and gives both back. *)
LEMMA JobBase ==
  ASSUME BaseInv, NEW j \in Jobs, JobStep(j)
  PROVE  BaseInv'
<1> USE DEF BaseInv
<1>1. CASE StartTask(j) \/ Enter(j)
  BY <1>1, StartBase, EnterBase
<1>2. ASSUME job[j].at \notin Outside PROVE job[j].sess \in Sessions
  BY <1>2, Names DEF SessInv, TypeOK, Job
<1>3. CASE Lock(j)
  <2> DEFINE s == job[j].sess
  <2>1. /\ job[j].at = "lock" /\ Head(lockq[s]) = j
        /\ holder' = [holder EXCEPT ![s] = j]
        /\ lockq' = [lockq EXCEPT ![s] = Tail(lockq[s])]
        /\ job' = [job EXCEPT ![j].at = "start"]
        /\ UNCHANGED <<sem, semq, store, nsess, proc, sent, out, late, tasks, ntasks, origin,
                       request, latest, ncmd>>
    BY <1>3 DEF Lock, MayLock, sessions, bash, background, handlers
  <2>2. s \in Sessions /\ In(lockq[s], j) /\ lockq[s] \in Seq(Jobs)
    BY <2>1, <1>2 DEF QueueInv, Outside, Waiting, TypeOK
  <2>3. Tail(lockq[s]) \in Seq(Jobs) /\ \A i : In(lockq[s], i) /\ i # j => In(Tail(lockq[s]), i)
    BY <2>1, <2>2, TailFacts
  <2>4. lockq' \in [Sessions -> Seq(Jobs)] /\ holder' \in [Sessions -> Jobs \cup {NoOne}]
    BY <2>1, <2>2, <2>3 DEF TypeOK
  <2>5. \A i \in Jobs \ {j} : job[i].at = "lock" => In(lockq'[job[i].sess], i)
    <3> TAKE i \in Jobs \ {j}
    <3> HAVE job[i].at = "lock"
    <3>1. job[i].sess \in Sessions /\ In(lockq[job[i].sess], i)
      BY Names DEF SessInv, TypeOK, Job, Outside, Waiting, QueueInv
    <3>2. QED BY <3>1, <2>1, <2>2, <2>3 DEF TypeOK
  <2>6. job' \in [Jobs -> Job] /\ QueueInv' /\ TaskInv' /\ SessInv'
    BY <2>1, <2>5, MoveBase DEF Outside, Waiting
  <2>7. QED BY <2>1, <2>4, <2>6 DEF TypeOK
<1>4. ASSUME NEW place \in {"start", "script", "send", "read"}, job[j].at \notin Outside,
             job' = [job EXCEPT ![j].at = place],
             UNCHANGED <<sem, semq, holder, lockq, store, nsess, tasks, ntasks, origin,
                         request, latest, ncmd>>,
             proc' \in [Sessions -> {"none", "runs", "exited"}],
             sent' \in [Sessions -> Seq(0..MaxCommands)],
             out' \in [Sessions -> Seq(0..MaxCommands)],
             late' \in SUBSET Sessions
      PROVE  BaseInv'
  <2>1. \A i \in Jobs \ {j} : job[i].at = "lock" => In(lockq'[job[i].sess], i)
    BY <1>4 DEF QueueInv
  <2>2. job' \in [Jobs -> Job] /\ QueueInv' /\ TaskInv' /\ SessInv'
    BY <1>4, <2>1, MoveBase
  <2>3. QED BY <1>4, <2>2 DEF TypeOK
<1>5. CASE EnsureStarted(j)
  <2> DEFINE s == job[j].sess
  <2>1. /\ job[j].at = "start" /\ s \in Sessions
        /\ UNCHANGED <<sem, semq, holder, lockq, store, nsess, tasks, ntasks, origin,
                       request, latest, ncmd>>
    BY <1>5, <1>2 DEF EnsureStarted, locks, sessions, background, handlers, Outside, Waiting
  <2>2. CASE proc[s] # "none"
    BY <2>1, <2>2, <1>5, <1>4 DEF EnsureStarted, bash, TypeOK, Outside, Waiting
  <2>3. CASE proc[s] = "none"
    <3>1. /\ job' = [job EXCEPT ![j].at = "script"] /\ out' = out /\ late' = late
          /\ proc' = [proc EXCEPT ![s] = "runs"] /\ sent' = [sent EXCEPT ![s] = <<StartScript>>]
      BY <2>3, <1>5 DEF EnsureStarted
    <3>2. <<StartScript>> \in Seq(0..MaxCommands)
      BY ServerAssumption DEF StartScript
    <3>3. sent' \in [Sessions -> Seq(0..MaxCommands)]
      BY <3>1, <3>2 DEF TypeOK
    <3>4. proc' \in [Sessions -> {"none", "runs", "exited"}]
      BY <3>1 DEF TypeOK
    <3>5. QED BY <2>1, <3>1, <3>3, <3>4, <1>4 DEF TypeOK, Outside, Waiting
  <2>4. QED BY <2>2, <2>3
<1>6. CASE ScriptEnds(j)
  <2>1. /\ job[j].at = "script" /\ job[j].sess \in Sessions
        /\ job' = [job EXCEPT ![j].at = "send"]
        /\ UNCHANGED <<sem, semq, holder, lockq, store, nsess, tasks, ntasks, origin,
                       request, latest, ncmd, proc, sent>>
    BY <1>6, <1>2 DEF ScriptEnds, locks, sessions, background, handlers, Outside, Waiting
  <2>2. out' \in [Sessions -> Seq(0..MaxCommands)]
    <3>1. CASE \E n \in 1..(MaxCommands + 1) : Read(job[j].sess, n)
      BY <3>1, <2>1, ReadType, ServerAssumption
    <3>2. CASE UNCHANGED out
      BY <3>2 DEF TypeOK
    <3>3. QED BY <3>1, <3>2, <1>6 DEF ScriptEnds
  <2>3. late' \in SUBSET Sessions
    BY <1>6, <2>1 DEF ScriptEnds, TypeOK
  <2>4. QED BY <2>1, <2>2, <2>3, <1>4 DEF TypeOK, Outside, Waiting
<1>7. CASE Send(j)
  <2> DEFINE s == job[j].sess
  <2>1. /\ job[j].at = "send" /\ s \in Sessions /\ job' = [job EXCEPT ![j].at = "read"]
        /\ sent' = IF proc[s] = "exited" THEN sent
                   ELSE [sent EXCEPT ![s] = Append(sent[s], job[j].cmd)]
        /\ UNCHANGED <<sem, semq, holder, lockq, store, nsess, tasks, ntasks, origin,
                       request, latest, ncmd, proc, out, late>>
    BY <1>7, <1>2 DEF Send, locks, sessions, background, handlers, Outside, Waiting
  <2>2. Append(sent[s], job[j].cmd) \in Seq(0..MaxCommands)
    BY <2>1 DEF TypeOK, Job
  <2>3. sent' \in [Sessions -> Seq(0..MaxCommands)]
    BY <2>1, <2>2 DEF TypeOK
  <2>4. QED BY <2>1, <2>3, <1>4 DEF TypeOK, Outside, Waiting
<1>8. ASSUME Release(j), job[j].at \notin Outside, tasks' \in [Tasks -> Answer],
             proc' \in [Sessions -> {"none", "runs", "exited"}],
             sent' \in [Sessions -> Seq(0..MaxCommands)],
             out' \in [Sessions -> Seq(0..MaxCommands)],
             late' \in SUBSET Sessions
      PROVE  BaseInv'
  <2>1. /\ holder' = [holder EXCEPT ![job[j].sess] = NoOne] /\ sem' = sem + 1
        /\ job' = [job EXCEPT ![j] = Idle]
        /\ UNCHANGED <<semq, lockq, store, nsess, ntasks, origin, request, latest, ncmd>>
    BY <1>8 DEF Release, sessions, handlers
  <2>2. job' \in [Jobs -> Job] /\ QueueInv' /\ TaskInv' /\ SessInv'
    BY <2>1, EndBase DEF QueueInv
  <2>3. holder' \in [Sessions -> Jobs \cup {NoOne}]
    <3>1. NoOne \in Jobs \cup {NoOne}
      OBVIOUS
    <3> HIDE DEF NoOne
    <3>2. QED BY <2>1, <3>1 DEF TypeOK
  <2>5. sem' \in Nat
    BY <2>1 DEF TypeOK
  <2>6. QED BY <1>8, <2>1, <2>2, <2>3, <2>5 DEF TypeOK
<1>9. CASE ReadOutput(j)
  <2> DEFINE s == job[j].sess
  <2>1. job[j].at = "read" /\ s \in Sessions /\ Release(j) /\ job[j].at \notin Outside
    BY <1>9, <1>2 DEF ReadOutput, Outside, Waiting
  <2>2. PICK n \in 1..Len(out[s]) :
          /\ Report(j, Ok(SubSeq(out[s], 1, n)))
          /\ \/ Stopped(s)
             \/ Read(s, n) /\ UNCHANGED <<proc, sent>> /\ late' \in {late, late \ {s}}
    BY <1>9 DEF ReadOutput
  <2>3. out[s] \in Seq(0..MaxCommands) /\ n \in Nat /\ n <= Len(out[s])
    BY <2>1 DEF TypeOK
  <2>4. Ok(SubSeq(out[s], 1, n)) \in Answer
    <3>1. SubSeq(out[s], 1, n) \in Seq(0..MaxCommands)
      <4>1. 1 \in 1..(Len(out[s]) + 1)
        BY <2>3
      <4>2. QED BY <4>1, <2>3, SubSeqType
    <3>2. QED BY <3>1 DEF Ok, Answer
  <2>5. tasks' \in [Tasks -> Answer]
    BY <2>2, <2>4, ReportType
  <2>6. CASE Stopped(s)
    BY <2>1, <2>5, <2>6, StoppedType, <1>8
  <2>7. CASE Read(s, n) /\ UNCHANGED <<proc, sent>> /\ late' \in {late, late \ {s}}
    <3>1. out' \in [Sessions -> Seq(0..MaxCommands)]
      BY <2>1, <2>3, <2>7, ReadType
    <3>2. QED BY <3>1, <2>1, <2>5, <2>7, <1>8 DEF TypeOK
  <2>8. QED BY <2>2, <2>6, <2>7
<1>10. CASE ReadFails(j)
  <2>1. /\ job[j].at \notin Outside /\ Release(j)
        /\ Report(j, Result("error")) /\ Stopped(job[j].sess)
    BY <1>10 DEF ReadFails, Fail, Outside, Waiting
  <2>2. Result("error") \in Answer
    BY DEF Result, Answer
  <2>3. QED BY <2>1, <2>2, StoppedType, ReportType, <1>8
<1>11. QED BY <1>1, <1>3, <1>5, <1>6, <1>7, <1>9, <1>10 DEF JobStep

(* Bash changes its own state alone. *)
LEMMA BashBase ==
  ASSUME BaseInv, NEW s \in Sessions, BashRun(s)
  PROVE  BaseInv'
<1> USE DEF BaseInv
<1>1. /\ UNCHANGED <<job, late, sem, semq, holder, lockq, store, nsess, tasks, ntasks, origin,
                     request, latest, ncmd>>
      /\ sent[s] \in Seq(0..MaxCommands) /\ sent[s] # <<>> /\ out[s] \in Seq(0..MaxCommands)
  BY DEF BashRun, locks, sessions, background, handlers, TypeOK
<1>2. /\ Tail(sent[s]) \in Seq(0..MaxCommands) /\ <<>> \in Seq(0..MaxCommands)
      /\ Append(out[s], Head(sent[s])) \in Seq(0..MaxCommands)
  <2>1. Head(sent[s]) \in 0..MaxCommands /\ Tail(sent[s]) \in Seq(0..MaxCommands)
    BY <1>1, HeadTailProperties
  <2>2. Append(out[s], Head(sent[s])) \in Seq(0..MaxCommands)
    BY <1>1, <2>1, AppendProperties
  <2>3. <<>> \in Seq(0..MaxCommands)
    OBVIOUS
  <2>4. QED BY <2>1, <2>2, <2>3
<1>3. /\ sent' \in [Sessions -> Seq(0..MaxCommands)]
      /\ out' \in [Sessions -> Seq(0..MaxCommands)]
      /\ proc' \in [Sessions -> {"none", "runs", "exited"}]
  <2>1. CASE /\ out' = [out EXCEPT ![s] = Append(out[s], Head(sent[s]))]
             /\ sent' = [sent EXCEPT ![s] = Tail(sent[s])] /\ proc' = proc
    BY <2>1, <1>2 DEF TypeOK
  <2>2. CASE /\ proc' = [proc EXCEPT ![s] = "exited"]
             /\ sent' = [sent EXCEPT ![s] = <<>>] /\ out' = out
    BY <2>2, <1>2 DEF TypeOK
  <2>3. QED BY <2>1, <2>2 DEF BashRun
<1>4. QED BY <1>1, <1>3 DEF TypeOK, QueueInv, TaskInv, SessInv

(* Every step keeps the types, the queues and the sessions. *)
LEMMA NextBase == BaseInv /\ [Next]_vars => BaseInv'
<1> SUFFICES ASSUME BaseInv, [Next]_vars PROVE BaseInv'
  OBVIOUS
<1>1. CASE UNCHANGED vars
  BY <1>1 DEF vars, locks, bash, sessions, handlers, background, BaseInv, TypeOK,
     QueueInv, TaskInv, SessInv
<1>2. CASE Next
  BY <1>2, RequestBase, JobBase, BashBase DEF Next
<1>3. QED BY <1>1, <1>2

(* Every variable of the server has its type. *)
THEOREM ServerTypes == Spec => []TypeOK
<1>1. BaseInv => TypeOK
  BY DEF BaseInv
<1>2. QED BY InitBase, NextBase, <1>1, PTL DEF Spec

-----------------------------------------------------------------------------
(* What the steps do to jobs, locks and slots *)

(* A job with its slot names a session. *)
LEMMA SessFacts ==
  ASSUME BaseInv
  PROVE  \A j \in Jobs : job[j].at \notin Outside => job[j].sess \in Sessions
BY Names DEF BaseInv, SessInv, TypeOK, Job

(* A job moves alone, and what it holds changes only at four places. *)
Moved(j) ==
  /\ \A i \in Jobs \ {j} : job'[i] = job[i]
  /\ \/ /\ job[j].at \in Outside /\ job'[j].at \in Outside /\ job'[j].sess = NoSession
        /\ UNCHANGED <<sem, holder>>
     \/ /\ job[j].at \in Outside /\ job'[j].at = "lock" /\ job'[j].sess = store
        /\ store \in Sessions /\ sem > 0 /\ sem' = sem - 1 /\ UNCHANGED holder
     \/ /\ job[j].at \in Outside /\ job'[j].at = "start" /\ job'[j].sess = store
        /\ store \in Sessions /\ sem > 0 /\ sem' = sem - 1
        /\ holder[store] = NoOne /\ holder' = [holder EXCEPT ![store] = j]
     \/ /\ job[j].at = "lock" /\ job'[j].at = "start" /\ job'[j].sess = job[j].sess
        /\ holder[job[j].sess] = NoOne
        /\ holder' = [holder EXCEPT ![job[j].sess] = j] /\ UNCHANGED sem
     \/ /\ job[j].at \in Holding /\ job'[j].at \in Holding
        /\ job'[j].sess = job[j].sess /\ UNCHANGED <<sem, holder>>
     \/ /\ job[j].at \in Holding /\ job'[j].at = "idle" /\ job'[j].sess = NoSession
        /\ holder' = [holder EXCEPT ![job[j].sess] = NoOne] /\ sem' = sem + 1
  /\ UNCHANGED <<store, nsess>>

(* A request served leaves its job outside, or takes it to the lock or past it. *)
LEMMA ServeMoves ==
  ASSUME BaseInv, NEW j \in Jobs, NEW rq, Serve(j, rq), sem > 0, job[j].at \in Outside,
         UNCHANGED <<store, nsess>>
  PROVE  Moved(j)
<1> USE DEF BaseInv
<1>1. CASE rq.op # "run_session" \/ store = NoSession
  <2>1. job' = [job EXCEPT ![j] = Idle] /\ UNCHANGED <<sem, holder>>
    BY <1>1 DEF Serve
  <2>2. QED BY <2>1 DEF Moved, TypeOK, Idle, Outside
<1>2. CASE rq.op = "run_session" /\ store # NoSession
  <2> DEFINE new == [at |-> IF LockFree(store) THEN "start" ELSE "lock",
                     cmd |-> rq.cmd, sess |-> store]
  <2>1. /\ sem' = sem - 1 /\ job' = [job EXCEPT ![j] = new]
        /\ IF LockFree(store) THEN holder' = [holder EXCEPT ![store] = j]
           ELSE UNCHANGED holder
    BY <1>2 DEF Serve
  <2>2. store \in Sessions
    BY <1>2, Names, ServerAssumption DEF TypeOK, Sessions
  <2>3. new.sess = store /\ new.at = IF LockFree(store) THEN "start" ELSE "lock"
    OBVIOUS
  <2> HIDE DEF new
  <2>4. job'[j] = new /\ \A i \in Jobs \ {j} : job'[i] = job[i]
    BY <2>1 DEF TypeOK
  <2>5. LockFree(store) => holder[store] = NoOne
    BY DEF LockFree
  <2>6. QED BY <2>1, <2>2, <2>3, <2>4, <2>5 DEF Moved
<1>3. QED BY <1>1, <1>2

(* A job that asks for a slot is served or waits. *)
LEMMA AcquireMoves ==
  ASSUME BaseInv, NEW j \in Jobs, NEW rq, Acquire(j, rq), job[j].at \in Outside,
         UNCHANGED <<store, nsess>>
  PROVE  Moved(j)
<1>1. CASE SlotFree
  BY <1>1, ServeMoves DEF Acquire, SlotFree
<1>2. CASE ~SlotFree
  BY <1>2 DEF Acquire, Moved, BaseInv, TypeOK, Outside, Waiting
<1>3. QED BY <1>1, <1>2

(* A request leaves the jobs, the locks and the slots alone, or moves a job. *)
LEMMA RequestMoves ==
  ASSUME BaseInv, NEW c \in AllConns, Request(c)
  PROVE  \/ UNCHANGED <<job, sem, holder>>
         \/ (\E j \in Jobs : Moved(j)) /\ ~CreateSession(c) /\ ~StopSession(c)
<1> USE DEF BaseInv
<1>1. CASE CreateSession(c) \/ StopSession(c) \/ CheckTask(c)
  BY <1>1 DEF CreateSession, StopSession, CheckTask, locks
<1>2. CASE RunSession(c)
  <2>1. /\ Acquire(c, Run(ncmd + 1)) /\ UNCHANGED <<store, nsess>>
        /\ job[c].at \in Outside /\ c \in Jobs /\ ncmd' = ncmd + 1 /\ ncmd \in Nat
    BY <1>2, Names, ServerAssumption DEF RunSession, Reads, sessions, Outside, Idle, TypeOK
  <2>2. Moved(c)
    BY <2>1, AcquireMoves
  <2>3. ~CreateSession(c) /\ ~StopSession(c)
    BY <2>1 DEF CreateSession, StopSession, handlers
  <2>4. QED BY <2>1, <2>2, <2>3
<1>3. CASE Submit(c)
  <2> DEFINE k == ntasks + 1
             new == [Idle EXCEPT !.at = "new"]
  <2>1. /\ UNCHANGED <<sem, holder, store, nsess>> /\ job' = [job EXCEPT ![k] = new]
        /\ ntasks < MaxTasks /\ ncmd' = ncmd + 1 /\ ncmd \in Nat
    BY <1>3, ServerAssumption DEF Submit, locks, sessions, TypeOK
  <2>2. k \in Tasks /\ k > ntasks
    BY <2>1, ServerAssumption DEF TypeOK, Tasks
  <2>3. job[k].at = "idle" /\ k \in Jobs
    BY <2>2, Names DEF TaskInv
  <2>4. new.at \in Outside /\ new.sess = NoSession
    BY DEF Idle, Outside, Waiting
  <2>5. ~CreateSession(c) /\ ~StopSession(c)
    BY <2>1 DEF CreateSession, StopSession, handlers
  <2> HIDE DEF new, k
  <2>6. Moved(k)
    BY <2>1, <2>3, <2>4 DEF Moved, TypeOK, Outside
  <2>7. QED BY <2>3, <2>5, <2>6
<1>4. QED BY <1>1, <1>2, <1>3 DEF Request

(* A job's step moves that job. *)
LEMMA JobMoves ==
  ASSUME BaseInv, NEW j \in Jobs, JobStep(j)
  PROVE  Moved(j)
<1> USE DEF BaseInv
<1>1. CASE StartTask(j)
  <2>1. Acquire(j, Command(j)) /\ job[j].at \in Outside /\ UNCHANGED <<store, nsess>>
    BY <1>1 DEF StartTask, Outside, Waiting, sessions
  <2>2. QED BY <2>1, AcquireMoves
<1>2. CASE Enter(j)
  <2> DEFINE rq == IF j \in Tasks THEN Command(j) ELSE Run(job[j].cmd)
  <2>1. Serve(j, rq) /\ sem > 0 /\ job[j].at \in Outside /\ UNCHANGED <<store, nsess>>
    BY <1>2 DEF Enter, Outside, Waiting, sessions
  <2> HIDE DEF rq
  <2>2. QED BY <2>1, ServeMoves
<1>3. CASE Lock(j)
  BY <1>3 DEF Lock, MayLock, TypeOK, Job, Moved, sessions
<1>4. CASE EnsureStarted(j) \/ ScriptEnds(j) \/ Send(j)
  <2>1. /\ job[j].at \in Holding /\ UNCHANGED <<sem, holder, store, nsess>>
        /\ \E place \in Holding : job' = [job EXCEPT ![j].at = place]
    BY <1>4 DEF EnsureStarted, ScriptEnds, Send, Holding, locks, sessions
  <2>2. QED BY <2>1 DEF TypeOK, Job, Moved
<1>5. CASE ReadOutput(j) \/ ReadFails(j)
  <2>1. /\ job[j].at \in Holding /\ sem' = sem + 1 /\ job' = [job EXCEPT ![j] = Idle]
        /\ holder' = [holder EXCEPT ![job[j].sess] = NoOne] /\ UNCHANGED <<store, nsess>>
    BY <1>5 DEF ReadOutput, ReadFails, Release, Holding, sessions
  <2>2. QED BY <2>1 DEF TypeOK, Idle, Moved
<1>6. QED BY <1>1, <1>2, <1>3, <1>4, <1>5 DEF JobStep

(* The locks at first: nobody has one. *)
LEMMA InitLock == Init => LockInv
BY DEF Init, LockInv, Idle, Holding, NoOne

(* The locks stay when their jobs go on with the same session. *)
LEMMA LockSame ==
  ASSUME BaseInv, LockInv, UNCHANGED holder,
         \A i \in Jobs : job[i].at \in Holding \/ job'[i].at \in Holding =>
           job[i].at \in Holding /\ job'[i].at \in Holding /\ job'[i].sess = job[i].sess
  PROVE  LockInv'
<1>1. \A s \in Sessions : holder[s] # NoOne => holder[s] \in Jobs
  BY DEF BaseInv, TypeOK
<1>2. \A i \in Jobs : job'[i].at \in Holding => holder'[job'[i].sess] = i
  BY DEF LockInv
<1>3. ASSUME NEW s \in Sessions, holder'[s] # NoOne
      PROVE  job'[holder'[s]].sess = s /\ job'[holder'[s]].at \in Holding
  <2>1. holder'[s] = holder[s] /\ holder[s] \in Jobs
    BY <1>1, <1>3
  <2>2. job[holder[s]].sess = s /\ job[holder[s]].at \in Holding
    BY <1>3, <2>1 DEF LockInv
  <2>3. QED BY <2>1, <2>2
<1>4. QED BY <1>2, <1>3 DEF LockInv

(* A lock is taken when it is free and given back by its holder. *)
LEMMA MovedLock ==
  ASSUME BaseInv, LockInv, NEW j \in Jobs, Moved(j)
  PROVE  LockInv'
<1> USE DEF BaseInv
<1>0. /\ \A i \in Jobs : job[i].at \notin Outside => job[i].sess \in Sessions
      /\ \A i \in Jobs \ {j} : job'[i] = job[i]
  BY SessFacts DEF Moved
<1>1. CASE UNCHANGED holder /\ job[j].at \in Outside /\ job'[j].at \notin Holding
  BY <1>0, <1>1, LockSame DEF Holding, Outside, Waiting
<1>2. CASE /\ UNCHANGED holder /\ job[j].at \in Holding /\ job'[j].at \in Holding
           /\ job'[j].sess = job[j].sess
  BY <1>0, <1>2, LockSame
<1>3. ASSUME NEW r \in Sessions, job'[j].at = "start", job'[j].sess = r, holder[r] = NoOne,
             holder' = [holder EXCEPT ![r] = j]
      PROVE  LockInv'
  <2>1. holder'[r] = j /\ \A t \in Sessions \ {r} : holder'[t] = holder[t]
    BY <1>3 DEF TypeOK
  <2>2. \A i \in Jobs \ {j} : job[i].at \in Holding => job[i].sess # r
    BY <1>3, Names DEF LockInv
  <2>3. ASSUME NEW i \in Jobs, job'[i].at \in Holding PROVE holder'[job'[i].sess] = i
    <3>1. CASE i = j
      BY <3>1, <1>3, <2>1
    <3>2. CASE i # j
      <4>1. job'[i] = job[i] /\ holder[job[i].sess] = i /\ job[i].sess # r
        BY <3>2, <2>3, <1>0, <2>2 DEF LockInv
      <4>2. job[i].sess \in Sessions
        BY <4>1, <2>3, <1>0 DEF Holding, Outside, Waiting
      <4>3. QED BY <4>1, <4>2, <2>1
    <3>3. QED BY <3>1, <3>2
  <2>4. ASSUME NEW t \in Sessions, holder'[t] # NoOne
        PROVE  job'[holder'[t]].sess = t /\ job'[holder'[t]].at \in Holding
    <3>1. CASE t = r
      BY <3>1, <1>3, <2>1 DEF Holding
    <3>2. CASE t # r
      <4>1. holder'[t] = holder[t] /\ holder[t] \in Jobs
        BY <3>2, <2>1, <2>4 DEF TypeOK
      <4>2. job[holder[t]].sess = t /\ job[holder[t]].at \in Holding
        BY <4>1, <2>4 DEF LockInv
      <4>3. CASE holder[t] = j
        <5>1. job[j].at \notin Outside /\ job[j].at # "lock"
          BY <4>2, <4>3 DEF Holding, Outside, Waiting
        <5>2. UNCHANGED holder \/ job'[j].at = "idle"
          BY <5>1 DEF Moved
        <5>3. QED BY <5>2, <1>3, <2>1, Names
      <4>4. QED BY <4>1, <4>2, <4>3, <1>0
    <3>3. QED BY <3>1, <3>2
  <2>5. QED BY <2>3, <2>4 DEF LockInv
<1>4. CASE /\ job[j].at \in Holding /\ job'[j].at = "idle"
           /\ holder' = [holder EXCEPT ![job[j].sess] = NoOne]
  <2>1. job[j].sess \in Sessions /\ holder[job[j].sess] = j
    BY <1>4, <1>0 DEF LockInv, Outside, Waiting, Holding
  <2>2. \A i \in Jobs : job'[i].at \in Holding => holder'[job'[i].sess] = i
    <3> TAKE i \in Jobs
    <3> HAVE job'[i].at \in Holding
    <3>1. i # j /\ job'[i] = job[i] /\ holder[job[i].sess] = i /\ job[i].sess \in Sessions
      BY <1>0, <1>4, <1>0 DEF Holding, LockInv, Outside, Waiting
    <3>2. QED BY <3>1, <2>1, <1>4 DEF TypeOK
  <2>3. ASSUME NEW s \in Sessions, holder'[s] # NoOne
        PROVE  job'[holder'[s]].sess = s /\ job'[holder'[s]].at \in Holding
    <3>1. s # job[j].sess /\ holder'[s] = holder[s] /\ holder[s] \in Jobs
      BY <2>3, <2>1, <1>4 DEF TypeOK
    <3>2. job[holder[s]].sess = s /\ job[holder[s]].at \in Holding /\ holder[s] # j
      BY <3>1, <2>3 DEF LockInv
    <3>3. QED BY <3>1, <3>2, <1>0
  <2>4. QED BY <2>2, <2>3 DEF LockInv
<1>5. job[j].at = "lock" => job[j].sess \in Sessions
  BY <1>0 DEF Outside, Waiting
<1>6. QED BY <1>1, <1>2, <1>3, <1>4, <1>5 DEF Moved, Outside, Waiting, Holding

(* The locks are kept by every step. *)
LEMMA NextLock ==
  ASSUME BaseInv, LockInv, [Next]_vars
  PROVE  LockInv'
<1>1. CASE UNCHANGED <<job, holder>>
  BY <1>1 DEF LockInv
<1>2. ASSUME NEW c \in AllConns, Request(c) PROVE LockInv'
  BY <1>1, <1>2, RequestMoves, MovedLock
<1>3. ASSUME NEW j \in Jobs, JobStep(j) PROVE LockInv'
  BY <1>3, JobMoves, MovedLock
<1>4. ASSUME NEW s \in Sessions, BashRun(s) PROVE LockInv'
  BY <1>1, <1>4 DEF BashRun, locks
<1>5. CASE UNCHANGED vars
  BY <1>1, <1>5 DEF vars, locks
<1>6. QED BY <1>2, <1>3, <1>4, <1>5 DEF Next

(* The slots at first: all are free. *)
LEMMA InitSlots == Init => SlotInv
<1> SUFFICES ASSUME Init PROVE SlotInv
  OBVIOUS
<1>1. Inside = {} /\ sem = Slots
  BY DEF Init, Inside, Idle, Outside
<1>2. QED BY <1>1, FS_EmptySet, ServerAssumption DEF SlotInv

(* A slot is taken with a session and given back with the lock. *)
LEMMA MovedSlots ==
  ASSUME BaseInv, SlotInv, NEW j \in Jobs, Moved(j)
  PROVE  SlotInv'
<1> USE DEF BaseInv
<1>0. \A i \in Jobs \ {j} : job'[i] = job[i]
  BY DEF Moved
<1>1. CASE UNCHANGED sem /\ (job[j].at \in Outside <=> job'[j].at \in Outside)
  <2>1. Inside' = Inside
    BY <1>0, <1>1 DEF Inside
  <2>2. QED BY <1>1, <2>1 DEF SlotInv
<1>2. CASE job[j].at \in Outside /\ job'[j].at \notin Outside /\ sem' = sem - 1
  <2>1. Inside' = Inside \cup {j} /\ j \notin Inside
    BY <1>0, <1>2 DEF Inside
  <2>2. IsFiniteSet(Inside') /\ Cardinality(Inside') = Cardinality(Inside) + 1
    BY <2>1, FS_AddElement DEF SlotInv
  <2>3. Cardinality(Inside) \in Nat
    BY FS_CardinalityType DEF SlotInv
  <2>4. QED BY <1>2, <2>2, <2>3, ServerAssumption DEF SlotInv, TypeOK
<1>3. CASE job[j].at \notin Outside /\ job'[j].at \in Outside /\ sem' = sem + 1
  <2>1. Inside' = Inside \ {j} /\ j \in Inside
    BY <1>0, <1>3 DEF Inside
  <2>2. IsFiniteSet(Inside') /\ Cardinality(Inside') = Cardinality(Inside) - 1
    BY <2>1, FS_RemoveElement DEF SlotInv
  <2>3. Cardinality(Inside) \in Nat
    BY FS_CardinalityType DEF SlotInv
  <2>4. QED BY <1>3, <2>2, <2>3, ServerAssumption DEF SlotInv, TypeOK
<1>4. QED BY <1>1, <1>2, <1>3 DEF Moved, Outside, Waiting, Holding

(* The slots are kept by every step. *)
LEMMA NextSlots ==
  ASSUME BaseInv, SlotInv, [Next]_vars
  PROVE  SlotInv'
<1>1. CASE UNCHANGED <<job, sem>>
  BY <1>1 DEF SlotInv, Inside
<1>2. ASSUME NEW c \in AllConns, Request(c) PROVE SlotInv'
  BY <1>1, <1>2, RequestMoves, MovedSlots
<1>3. ASSUME NEW j \in Jobs, JobStep(j) PROVE SlotInv'
  BY <1>3, JobMoves, MovedSlots
<1>4. ASSUME NEW s \in Sessions, BashRun(s) PROVE SlotInv'
  BY <1>1, <1>4 DEF BashRun, locks
<1>5. CASE UNCHANGED vars
  BY <1>1, <1>5 DEF vars, locks
<1>6. QED BY <1>2, <1>3, <1>4, <1>5 DEF Next

(* Slots and locks are what the jobs past them hold. *)
LEMMA SlotsFromInv ==
  ASSUME BaseInv, LockInv, SlotInv
  PROVE  SlotsConserved
<1> DEFINE inside == {j \in Jobs : job[j].at \notin {"idle", "sem", "new"}}
<1>1. inside = Inside
  BY DEF Inside, Outside, Waiting
<1>2. ASSUME NEW s \in Sessions
      PROVE  {j \in inside : job[j].sess = s /\ job[j].at # "lock"} =
               (IF holder[s] = NoOne THEN {} ELSE {holder[s]})
  <2>1. \A j \in Jobs : j \in inside /\ job[j].at # "lock" <=> job[j].at \in Holding
    BY DEF BaseInv, TypeOK, Job, Places, Outside, Waiting, Holding
  <2>2. holder[s] # NoOne => holder[s] \in Jobs
    BY DEF BaseInv, TypeOK
  <2>3. \A j \in Jobs : job[j].at \in Holding /\ job[j].sess = s => j = holder[s] /\ j # NoOne
    BY Names DEF LockInv
  <2>4. holder[s] # NoOne => job[holder[s]].at \in Holding /\ job[holder[s]].sess = s
    BY DEF LockInv
  <2> HIDE DEF inside
  <2>5. inside \subseteq Jobs
    BY DEF inside
  <2>6. QED BY <2>1, <2>2, <2>3, <2>4, <2>5
<1>3. QED BY <1>1, <1>2 DEF SlotsConserved, SlotInv

-----------------------------------------------------------------------------
(* Processes and their sessions *)

(* A process lives as long as its session is stored or used. *)
LEMMA NextOrphan ==
  ASSUME BaseInv, NoOrphan, [Next]_vars
  PROVE  NoOrphan'
<1> USE DEF BaseInv
<1>1. CASE UNCHANGED vars
  BY <1>1 DEF vars, bash, sessions, NoOrphan
<1>5. ASSUME NEW j \in Jobs, Moved(j), proc' = proc, job'[j].sess = job[j].sess \/ job[j].sess = NoSession
      PROVE  NoOrphan'
  <2>1. store' = store /\ \A i \in Jobs : job[i].sess # NoSession => job'[i].sess = job[i].sess
    BY <1>5 DEF Moved
  <2>2. QED BY <1>5, <2>1, Names DEF NoOrphan
<1>2. ASSUME NEW c \in AllConns, Request(c) PROVE NoOrphan'
  <2>1. CASE CreateSession(c)
    <3>1. proc' = proc /\ store = NoSession /\ job' = job
      BY <2>1 DEF CreateSession, bash
    <3>2. QED BY <3>1, Names DEF NoOrphan
  <2>2. CASE StopSession(c)
    <3>1. proc' = [proc EXCEPT ![store] = "none"] /\ job' = job
      BY <2>2 DEF StopSession, Stopped
    <3>2. \A s \in Sessions : proc'[s] # "none" => s # store /\ proc[s] # "none"
      BY <3>1 DEF TypeOK
    <3>3. QED BY <3>1, <3>2 DEF NoOrphan
  <2>3. CASE CheckTask(c)
    BY <2>3 DEF CheckTask, sessions, bash, NoOrphan
  <2>4. CASE RunSession(c) \/ Submit(c)
    <3>1. PICK j \in Jobs : /\ Moved(j) /\ proc' = proc
                            /\ job[j].sess = NoSession
      <4>1. CASE RunSession(c)
        <5>1. /\ Acquire(c, Run(ncmd + 1)) /\ UNCHANGED <<store, nsess, proc>>
              /\ job[c] = Idle /\ c \in Jobs
          BY <4>1, Names DEF RunSession, Reads, sessions, bash
        <5>2. Moved(c)
          BY <5>1, AcquireMoves DEF Idle, Outside
        <5>3. QED BY <5>1, <5>2 DEF Idle
      <4>2. CASE Submit(c)
        <5> DEFINE k == ntasks + 1
                   new == [Idle EXCEPT !.at = "new"]
        <5>1. /\ UNCHANGED <<sem, holder, store, nsess, proc>>
              /\ job' = [job EXCEPT ![k] = new] /\ ntasks < MaxTasks
          BY <4>2 DEF Submit, locks, sessions, bash
        <5>2. k \in Tasks /\ k > ntasks
          BY <5>1, ServerAssumption DEF TypeOK, Tasks
        <5>3. job[k].at \in Outside /\ k \in Jobs
          BY <5>2, Names DEF TaskInv, Outside
        <5>4. new.at \in Outside /\ new.sess = NoSession
          BY DEF Idle, Outside, Waiting
        <5> HIDE DEF new, k
        <5>5. Moved(k) /\ job[k].sess = NoSession
          BY <5>1, <5>3, <5>4 DEF Moved, TypeOK, SessInv
        <5>6. QED BY <5>1, <5>3, <5>5
      <4>3. QED BY <2>4, <4>1, <4>2
    <3>2. QED BY <3>1, <1>5
  <2>5. QED BY <1>2, <2>1, <2>2, <2>3, <2>4 DEF Request
<1>3. ASSUME NEW j \in Jobs, JobStep(j) PROVE NoOrphan'
  <2>1. store' = store /\ (\A i \in Jobs \ {j} : job'[i] = job[i]) /\ Moved(j)
    BY <1>3, JobMoves DEF Moved
  <2>2. CASE StartTask(j) \/ Enter(j) \/ Lock(j) \/ ScriptEnds(j) \/ Send(j)
    <3>1. proc' = proc
      BY <2>2 DEF StartTask, Enter, Lock, ScriptEnds, Send, bash
    <3>2. job[j].sess = NoSession \/ job'[j].sess = job[j].sess
      <4>1. CASE StartTask(j) \/ Enter(j)
        BY <4>1, IdleFacts DEF StartTask, Enter, Outside, Waiting
      <4>2. CASE Lock(j) \/ ScriptEnds(j) \/ Send(j)
        BY <4>2 DEF Lock, ScriptEnds, Send, TypeOK, Job
      <4>3. QED BY <2>2, <4>1, <4>2
    <3>3. QED BY <2>1, <3>1, <3>2, <1>5
  <2>3. CASE EnsureStarted(j)
    <3>1. job'[j].sess = job[j].sess
      BY <2>3 DEF EnsureStarted, TypeOK, Job
    <3>2. \A s \in Sessions : s # job[j].sess => proc'[s] = proc[s]
      BY <2>3 DEF EnsureStarted, bash, TypeOK
    <3>3. ASSUME NEW s \in Sessions, proc'[s] # "none"
          PROVE  s = store' \/ \E i \in Jobs : job'[i].sess = s
      <4>1. CASE s = job[j].sess
        BY <4>1, <3>1
      <4>2. CASE s # job[j].sess
        BY <4>2, <3>2, <3>3, <2>1 DEF NoOrphan
      <4>3. QED BY <4>1, <4>2
    <3>4. QED BY <3>3 DEF NoOrphan
  <2>4. ASSUME NEW s \in Sessions, ReadOutput(j) \/ ReadFails(j), proc'[s] # "none"
        PROVE  s = store' \/ \E i \in Jobs : job'[i].sess = s
    <3>1. CASE Stopped(job[j].sess)
      <4>1. s # job[j].sess /\ proc[s] # "none"
        BY <2>4, <3>1 DEF Stopped, TypeOK
      <4>2. QED BY <4>1, <2>1 DEF NoOrphan
    <3>2. CASE ~Unused(job[j].sess, j) /\ proc' = proc
      BY <3>2, <2>1, <2>4 DEF Unused, NoOrphan
    <3>3. QED BY <2>4, <3>1, <3>2 DEF ReadOutput, ReadFails, Fail
  <2>5. QED BY <1>3, <2>2, <2>3, <2>4 DEF JobStep, NoOrphan
<1>4. ASSUME NEW s \in Sessions, BashRun(s) PROVE NoOrphan'
  <2>1. UNCHANGED <<job, store>> /\ \A t \in Sessions : proc'[t] # "none" => proc[t] # "none"
    BY <1>4 DEF BashRun, sessions, TypeOK
  <2>2. QED BY <2>1 DEF NoOrphan
<1>6. QED BY <1>1, <1>2, <1>3, <1>4 DEF Next

-----------------------------------------------------------------------------
(* What bash has to run and to say *)

(* Past the lock of a session there is one job. *)
LEMMA OneHolder ==
  ASSUME LockInv, NEW j \in Jobs, job[j].at \in Holding
  PROVE  \A i \in Jobs \ {j} : job[i].at \in Holding => job[i].sess # job[j].sess
BY DEF LockInv

(* What is said of a session depends on its bash alone. *)
LEMMA SaidOf ==
  ASSUME NEW s, proc'[s] = proc[s], sent'[s] = sent[s], out'[s] = out[s],
         (s \in late) <=> (s \in late')
  PROVE  /\ Quiet(s)' = Quiet(s) /\ Behind(s, 1)' = Behind(s, 1)
         /\ \A i \in Jobs : job'[i] = job[i] /\ job[i].sess = s =>
              AsExpected(job[i])' = AsExpected(job[i])
<1>1. /\ Quiet(s)' = Quiet(s) /\ \A n : Behind(s, n)' = Behind(s, n)
      /\ \A c : Owes(s, c)' = Owes(s, c)
  BY DEF Quiet, Behind, Owes
<1>2. ASSUME NEW i \in Jobs, job'[i] = job[i], job[i].sess = s
      PROVE  AsExpected(job[i])' = AsExpected(job[i])
  <2>1. /\ Quiet(job[i].sess)' = Quiet(s) /\ Behind(job[i].sess, 1)' = Behind(s, 1)
        /\ Behind(job[i].sess, 2)' = Behind(s, 2)
        /\ Owes(job[i].sess, StartScript)' = Owes(s, StartScript)
        /\ Owes(job[i].sess, job[i].cmd)' = Owes(s, job[i].cmd)
        /\ proc'[job'[i].sess] = proc[s]
    BY <1>2 DEF Quiet, Behind, Owes
  <2>2. QED BY <1>2, <2>1 DEF AsExpected
<1>3. QED BY <1>1, <1>2

(* A step that leaves bash alone keeps what is said of it, when its jobs go on. *)
LEMMA BashSame ==
  ASSUME BashInv, UNCHANGED <<proc, sent, out, late, holder>>,
         \A i \in Jobs : job'[i] = job[i] \/ job'[i].at \notin Holding
  PROVE  BashInv'
<1>1. \A s \in Sessions : Quiet(s)' = Quiet(s) /\ Behind(s, 1)' = Behind(s, 1)
  BY DEF Quiet, Behind
<1>2. ASSUME NEW i \in Jobs PROVE AsExpected(job[i])'
  <2>1. CASE job'[i] = job[i]
    <3>1. AsExpected(job[i])
      BY DEF BashInv
    <3>2. QED BY <3>1, <2>1, SaidOf
  <2>2. CASE job'[i].at \notin Holding
    BY <2>2 DEF AsExpected, Holding
  <2>3. QED BY <2>1, <2>2
<1>3. QED BY <1>1, <1>2 DEF BashInv

(* The bash of other sessions, and of their jobs, is as it was. *)
LEMMA BashElsewhere ==
  ASSUME BaseInv, LockInv, BashInv, NEW j \in Jobs, NEW s \in Sessions,
         \A i \in Jobs \ {j} : job[i].at \in Holding => job[i].sess # s,
         \A t \in Sessions \ {s} :
           /\ proc'[t] = proc[t] /\ sent'[t] = sent[t] /\ out'[t] = out[t]
           /\ holder'[t] = holder[t] /\ (t \in late <=> t \in late'),
         \A i \in Jobs \ {j} : job'[i] = job[i],
         proc'[s] = "none" => Quiet(s)',
         holder'[s] = NoOne => Quiet(s)' \/ Behind(s, 1)',
         AsExpected(job[j])'
  PROVE  BashInv'
<1>1. ASSUME NEW t \in Sessions
      PROVE  /\ proc'[t] = "none" => Quiet(t)'
             /\ holder'[t] = NoOne => Quiet(t)' \/ Behind(t, 1)'
  <2>1. CASE t = s
    BY <2>1
  <2>2. CASE t # s
    <3>1. Quiet(t)' = Quiet(t) /\ Behind(t, 1)' = Behind(t, 1)
      BY <2>2, SaidOf
    <3>2. QED BY <2>2, <3>1 DEF BashInv
  <2>3. QED BY <2>1, <2>2
<1>2. ASSUME NEW i \in Jobs \ {j} PROVE AsExpected(job[i])'
  <2>1. CASE job[i].at \in Holding
    <3>1. PICK t \in Sessions \ {s} : t = job[i].sess
      BY <2>1, SessFacts DEF Holding, Outside, Waiting
    <3>2. AsExpected(job[i])
      BY DEF BashInv
    <3>3. job'[i] = job[i]
      OBVIOUS
    <3>4. AsExpected(job[i])' = AsExpected(job[i])
      BY <3>1, <3>3, SaidOf
    <3>5. QED BY <3>2, <3>4
  <2>2. CASE job[i].at \notin Holding
    BY <2>2 DEF AsExpected, Holding
  <2>3. QED BY <2>1, <2>2
<1>3. QED BY <1>1, <1>2 DEF BashInv

(* A session stopped is quiet. *)
LEMMA StoppedQuiet ==
  ASSUME TypeOK, NEW s \in Sessions, Stopped(s)
  PROVE  /\ proc'[s] = "none" /\ Quiet(s)'
         /\ \A t \in Sessions \ {s} :
              /\ proc'[t] = proc[t] /\ sent'[t] = sent[t] /\ out'[t] = out[t]
              /\ (t \in late <=> t \in late')
BY DEF Stopped, TypeOK, Quiet

(* At first there is nothing to say. *)
LEMMA InitBash == Init => BashInv
BY DEF Init, BashInv, Quiet, AsExpected, Idle

(* A lock that was free finds its bash quiet, or one answer behind. *)
LEMMA MovedBash ==
  ASSUME BaseInv, LockInv, BashInv, NEW j \in Jobs, Moved(j), UNCHANGED <<proc, sent, out, late>>,
         job[j].at \notin Holding
  PROVE  BashInv'
<1>0. \A i \in Jobs \ {j} : job'[i] = job[i]
  BY DEF Moved
<1>1. CASE UNCHANGED holder /\ job'[j].at \notin Holding
  BY <1>0, <1>1, BashSame
<1>2. ASSUME NEW s \in Sessions, job'[j].at = "start", job'[j].sess = s, holder[s] = NoOne,
             holder' = [holder EXCEPT ![s] = j]
      PROVE  BashInv'
  <2>1. Quiet(s)' = Quiet(s) /\ Behind(s, 1)' = Behind(s, 1)
    BY SaidOf
  <2>2. Quiet(s)' \/ Behind(s, 1)'
    BY <1>2, <2>1 DEF BashInv
  <2>3. AsExpected(job[j])'
    BY <2>2, <1>2 DEF AsExpected
  <2>4. /\ \A i \in Jobs \ {j} : job[i].at \in Holding => job[i].sess # s
        /\ \A t \in Sessions \ {s} : holder'[t] = holder[t]
    BY <1>2, Names DEF LockInv, BaseInv, TypeOK
  <2>5. proc'[s] = "none" => Quiet(s)'
    BY <2>1 DEF BashInv
  <2>6. QED BY <1>0, <2>2, <2>3, <2>4, <2>5, BashElsewhere
<1>3. job[j].at = "lock" => job[j].sess \in Sessions
  BY SessFacts DEF Outside, Waiting
<1>4. \/ UNCHANGED holder /\ job'[j].at \in Outside \cup {"lock"}
      \/ \E r \in Sessions : /\ job'[j].at = "start" /\ job'[j].sess = r /\ holder[r] = NoOne
                             /\ holder' = [holder EXCEPT ![r] = j]
  BY <1>3 DEF Moved
<1>5. \A place \in Outside \cup {"lock"} : place \notin Holding
  BY DEF Outside, Waiting, Holding
<1>6. QED BY <1>1, <1>2, <1>4, <1>5

(* The requests leave bash alone, or stop it. *)
LEMMA RequestBash ==
  ASSUME BaseInv, LockInv, BashInv, NEW c \in AllConns, Request(c)
  PROVE  BashInv'
<1>2. CASE CreateSession(c) \/ CheckTask(c)
  <2>1. UNCHANGED <<proc, sent, out, late, holder, job>>
    BY <1>2 DEF CreateSession, CheckTask, bash, locks
  <2>2. QED BY <2>1, BashSame
<1>5. CASE RunSession(c)
  <2>1. /\ Acquire(c, Run(ncmd + 1)) /\ UNCHANGED <<store, nsess, proc, sent, out, late>>
        /\ job[c].at \in Outside /\ c \in Jobs
    BY <1>5, Names DEF RunSession, Reads, sessions, bash, Outside, Idle
  <2>2. Moved(c) /\ job[c].at \notin Holding
    BY <2>1, AcquireMoves DEF Outside, Waiting, Holding
  <2>3. QED BY <2>1, <2>2, MovedBash
<1>6. CASE Submit(c)
  <2>1. /\ UNCHANGED <<proc, sent, out, late, holder>>
        /\ \A i \in Jobs : job'[i] = job[i] \/ job'[i].at = "new"
    BY <1>6 DEF Submit, bash, locks, Idle, BaseInv, TypeOK
  <2>2. QED BY <2>1, BashSame DEF Holding
<1>3. CASE StopSession(c)
  <2>1. PICK s \in Sessions : s = store /\ Stopped(s) /\ job' = job /\ holder' = holder
    BY <1>3, Names, ServerAssumption DEF StopSession, BaseInv, TypeOK, Sessions, locks
  <2>2. /\ proc'[s] = "none" /\ Quiet(s)'
        /\ \A t \in Sessions \ {s} :
             /\ proc'[t] = proc[t] /\ sent'[t] = sent[t] /\ out'[t] = out[t]
             /\ (t \in late <=> t \in late')
    BY <2>1, StoppedQuiet DEF BaseInv
  <2>3. ASSUME NEW t \in Sessions
        PROVE  /\ proc'[t] = "none" => Quiet(t)'
               /\ holder'[t] = NoOne => Quiet(t)' \/ Behind(t, 1)'
    <3>1. CASE t = s
      BY <3>1, <2>2
    <3>2. CASE t # s
      <4>1. Quiet(t)' = Quiet(t) /\ Behind(t, 1)' = Behind(t, 1)
        BY <3>2, <2>2, SaidOf
      <4>2. QED BY <3>2, <4>1, <2>1, <2>2 DEF BashInv
    <3>3. QED BY <3>1, <3>2
  <2>4. ASSUME NEW i \in Jobs PROVE AsExpected(job[i])'
    <3>1. CASE job[i].sess = s
      BY <3>1, <2>1, <2>2 DEF AsExpected
    <3>2. CASE job[i].sess # s /\ job[i].at \in Holding
      <4>1. AsExpected(job[i]) /\ job'[i] = job[i]
        BY <2>1 DEF BashInv
      <4>2. PICK t \in Sessions \ {s} : t = job[i].sess
        BY <3>2, SessFacts DEF Holding, Outside, Waiting
      <4>3. AsExpected(job[i])' = AsExpected(job[i])
        BY <4>1, <4>2, <2>2, SaidOf
      <4>4. QED BY <4>1, <4>3
    <3>3. CASE job[i].at \notin Holding
      BY <3>3, <2>1 DEF AsExpected, Holding
    <3>4. QED BY <3>1, <3>2, <3>3
  <2>5. QED BY <2>3, <2>4 DEF BashInv
<1>4. QED BY <1>2, <1>3, <1>5, <1>6 DEF Request

(* how much is ahead *)
Lag(s) == Len(out[s]) + Len(sent[s])

(* A read shortens the output. *)
LEMMA ReadLag ==
  ASSUME TypeOK, TypeOK', NEW s \in Sessions, NEW n \in Nat, n > 0, Read(s, n), sent' = sent
  PROVE  /\ Lag(s)' = Lag(s) - n
         /\ \A t \in Sessions \ {s} : out'[t] = out[t]
<1>1. /\ n <= Len(out[s]) /\ out[s] \in Seq(0..MaxCommands)
      /\ out' = [out EXCEPT ![s] = SubSeq(out[s], n + 1, Len(out[s]))]
  BY DEF Read, TypeOK
<1>2. Len(SubSeq(out[s], n + 1, Len(out[s]))) = Len(out[s]) - n
  BY <1>1
<1>3. out'[s] = SubSeq(out[s], n + 1, Len(out[s])) /\ \A t \in Sessions \ {s} : out'[t] = out[t]
  BY <1>1 DEF TypeOK
<1>4. sent'[s] = sent[s] /\ Len(sent[s]) \in Nat /\ Len(out[s]) \in Nat
  <2>1. sent[s] \in Seq(0..MaxCommands)
    BY DEF TypeOK
  <2>2. QED BY <1>1, <2>1
<1>5. Len(out'[s]) + Len(sent'[s]) = (Len(out[s]) + Len(sent[s])) - n
  <2>1. PICK a \in Nat, b \in Nat : a = Len(out[s]) /\ b = Len(sent[s])
    BY <1>4
  <2>2. Len(out'[s]) = a - n /\ Len(sent'[s]) = b
    BY <2>1, <1>2, <1>3, <1>4
  <2>3. (a - n) + b = (a + b) - n
    BY <2>1
  <2>4. QED BY <2>1, <2>2, <2>3
<1>6. QED BY <1>3, <1>5 DEF Lag

(* What a read leaves of one answer is nothing, and of two at most one. *)
LEMMA ReadLeaves ==
  ASSUME TypeOK, TypeOK', NEW s \in Sessions, NEW n \in Nat, n > 0, Read(s, n), sent' = sent
  PROVE  /\ Lag(s) <= 1 => Quiet(s)'
         /\ Lag(s) <= 2 => Lag(s)' <= 1
         /\ \A t \in Sessions \ {s} : out'[t] = out[t]
<1>1. Lag(s)' = Lag(s) - n /\ \A t \in Sessions \ {s} : out'[t] = out[t]
  BY ReadLag
<1>2. Lag(s) \in Int
  BY DEF Lag, TypeOK
<1>3. Lag(s) <= 2 => Lag(s)' <= 1
  BY <1>1, <1>2
<1>4. ASSUME Lag(s) <= 1 PROVE Quiet(s)'
  <2>1. Lag(s)' <= 0
    BY <1>1, <1>2, <1>4
  <2>2. out'[s] \in Seq(0..MaxCommands) /\ sent'[s] \in Seq(0..MaxCommands)
    BY DEF TypeOK
  <2>3. Len(out'[s]) + Len(sent'[s]) <= 0
    BY <2>1 DEF Lag
  <2>4. PICK a \in Nat, b \in Nat : a = Len(out'[s]) /\ b = Len(sent'[s])
    BY <2>2
  <2>8. a + b <= 0
    BY <2>3, <2>4
  <2>5. a = 0 /\ b = 0
    BY <2>8
  <2>9. Len(out'[s]) = 0 /\ Len(sent'[s]) = 0
    BY <2>4, <2>5
  <2>6. out'[s] = <<>> /\ sent'[s] = <<>>
    BY <2>2, <2>9
  <2>7. QED BY <2>6 DEF Quiet
<1>5. QED BY <1>1, <1>3, <1>4

(* What is owed is one answer. *)
LEMMA OneLag ==
  ASSUME TypeOK, NEW s \in Sessions, NEW c, Quiet(s) \/ Owes(s, c)
  PROVE  Lag(s) <= 1
<1>1. Len(<<>>) = 0 /\ Len(<<c>>) = 1
  OBVIOUS
<1>2. CASE Quiet(s)
  <2>1. Len(out[s]) = 0 /\ Len(sent[s]) = 0
    BY <1>1, <1>2 DEF Quiet
  <2>2. QED BY ONLY <2>1 DEF Lag
<1>3. CASE Owes(s, c)
  <2>1. \/ Len(out[s]) = 0 /\ Len(sent[s]) = 1
        \/ Len(out[s]) = 1 /\ Len(sent[s]) = 0
    BY <1>1, <1>3 DEF Owes
  <2>2. CASE Len(out[s]) = 0 /\ Len(sent[s]) = 1
    BY ONLY <2>2 DEF Lag
  <2>3. CASE Len(out[s]) = 1 /\ Len(sent[s]) = 0
    BY ONLY <2>3 DEF Lag
  <2>4. QED BY <2>1, <2>2, <2>3
<1>4. QED BY <1>2, <1>3

(* A job finds nothing of another before its command, and leaves nothing behind; *)
(* a late session stays one answer behind at most.                              *)
LEMMA JobBash ==
  ASSUME BaseInv, BaseInv', LockInv, BashInv, NEW j \in Jobs, JobStep(j)
  PROVE  BashInv'
<1> DEFINE s == job[j].sess
<1>0. /\ \A i \in Jobs \ {j} : job'[i] = job[i]
      /\ job[j].at \notin Outside => s \in Sessions
      /\ AsExpected(job[j])
      /\ job[j].at \in Holding => holder[s] = j /\ j # NoOne
      /\ job[j].at \in Holding => \A i \in Jobs \ {j} : job[i].at \in Holding => job[i].sess # s
      /\ Moved(j) /\ TypeOK /\ TypeOK'
  BY JobMoves, SessFacts, Names, OneHolder DEF BashInv, LockInv, Moved, BaseInv
<1>t. job \in [Jobs -> Job]
  BY DEF BaseInv, TypeOK
<1>1. CASE StartTask(j) \/ Enter(j)
  <2>1. UNCHANGED <<proc, sent, out, late>> /\ job[j].at \in Outside
    BY <1>1 DEF StartTask, Enter, bash, Outside, Waiting
  <2>2. job[j].at \notin Holding
    BY <2>1 DEF Outside, Waiting, Holding
  <2>3. QED BY <2>1, <2>2, <1>0, MovedBash
<1>2. CASE Lock(j)
  <2>1. UNCHANGED <<proc, sent, out, late>> /\ job[j].at \notin Holding
    BY <1>2 DEF Lock, bash, Holding
  <2>2. QED BY <2>1, <1>0, MovedBash
<1>3. CASE EnsureStarted(j)
  <2>0. job[j].at = "start" /\ holder' = holder
    BY <1>3 DEF EnsureStarted, locks
  <2>4. late' = late
    BY <1>3 DEF EnsureStarted, bash
  <2>5. Quiet(s) \/ Behind(s, 1)
    BY <2>0, <1>0 DEF AsExpected
  <2>1. /\ job[j].at = "start" /\ s \in Sessions /\ UNCHANGED <<holder, late>>
        /\ holder[s] # NoOne /\ (Quiet(s) \/ Behind(s, 1))
    BY <2>0, <2>4, <2>5, <1>0 DEF Outside, Waiting, Holding
  <2>2. CASE proc[s] # "none"
    <3>0. job' = [job EXCEPT ![j].at = "send"] /\ UNCHANGED <<proc, sent, out>>
      BY <2>2, <1>3 DEF EnsureStarted, bash
    <3>1. job'[j].at = "send" /\ job'[j].sess = s /\ UNCHANGED <<proc, sent, out>>
      BY <3>0, <1>t DEF Job
    <3>2. Quiet(s)' \/ Behind(s, 1)'
      BY <2>1, <3>1 DEF Quiet, Behind
    <3>3. AsExpected(job[j])'
      BY <3>1, <3>2 DEF AsExpected
    <3>4. QED BY <2>1, <2>2, <3>1, <3>2, <3>3, <1>0, BashElsewhere DEF Holding
  <2>3. CASE proc[s] = "none"
    <3>0. /\ job' = [job EXCEPT ![j].at = "script"] /\ UNCHANGED out
          /\ proc' = [proc EXCEPT ![s] = "runs"]
          /\ sent' = [sent EXCEPT ![s] = <<StartScript>>]
      BY <2>3, <1>3 DEF EnsureStarted
    <3>1. job'[j].at = "script" /\ job'[j].sess = s
      BY <3>0, <1>t DEF Job
    <3>2. Quiet(s)
      BY <2>1, <2>3 DEF BashInv
    <3>3. /\ proc'[s] = "runs" /\ Owes(s, StartScript)'
          /\ \A t \in Sessions \ {s} : proc'[t] = proc[t] /\ sent'[t] = sent[t] /\ out'[t] = out[t]
      BY <2>1, <3>0, <3>1, <3>2, <1>0 DEF Quiet, Owes, TypeOK
    <3>4. AsExpected(job[j])'
      BY <3>1, <3>3 DEF AsExpected
    <3>5. QED BY <2>1, <3>3, <3>4, <1>0, BashElsewhere DEF Holding
  <2>6. QED BY <2>2, <2>3
<1>4. CASE ScriptEnds(j)
  <2>1. /\ job[j].at = "script" /\ s \in Sessions /\ UNCHANGED <<holder, proc, sent>>
        /\ job'[j].at = "send" /\ job'[j].sess = s
        /\ \/ Quiet(s) /\ proc[s] # "runs"
           \/ Owes(s, StartScript) /\ proc[s] = "runs"
    BY <1>4, <1>0 DEF ScriptEnds, locks, Outside, Waiting, AsExpected, TypeOK, Job
  <2>2. Lag(s) <= 1
    BY <2>1, <1>0, OneLag
  <2>3. /\ Quiet(s)' \/ Behind(s, 1)'
        /\ \A t \in Sessions \ {s} : out'[t] = out[t] /\ (t \in late <=> t \in late')
        /\ proc[s] = "none" => Quiet(s)'
    <3>1. CASE \E n \in 1..(MaxCommands + 1) : Read(s, n) /\ UNCHANGED late
      <4>1. PICK n \in 1..(MaxCommands + 1) : Read(s, n) /\ UNCHANGED late
        BY <3>1
      <4>2. n \in Nat /\ n > 0
        BY <4>1, ServerAssumption
      <4>3. Quiet(s)' /\ \A t \in Sessions \ {s} : out'[t] = out[t]
        BY <4>1, <4>2, <2>1, <2>2, <1>0, ReadLeaves
      <4>4. QED BY <4>1, <4>3
    <3>2. CASE /\ late' = IF proc[s] = "runs" THEN late \cup {s} ELSE late
               /\ UNCHANGED out
      <4>1. CASE proc[s] = "runs"
        BY <4>1, <3>2, <2>1, <2>2 DEF Behind, Lag
      <4>2. CASE proc[s] # "runs"
        BY <4>2, <3>2, <2>1 DEF Quiet
      <4>3. QED BY <4>1, <4>2
    <3>3. QED BY <3>1, <3>2, <1>4 DEF ScriptEnds
  <2>4. AsExpected(job[j])'
    BY <2>1, <2>3 DEF AsExpected
  <2>5. QED BY <2>1, <2>3, <2>4, <1>0, BashElsewhere DEF Holding
<1>5. CASE Send(j)
  <2>1. /\ job[j].at = "send" /\ s \in Sessions /\ UNCHANGED <<holder, proc, out, late>>
        /\ job'[j].at = "read" /\ job'[j].sess = s /\ job'[j].cmd = job[j].cmd
        /\ proc[s] # "none" /\ (Quiet(s) \/ Behind(s, 1))
        /\ sent' = IF proc[s] = "exited" THEN sent
                   ELSE [sent EXCEPT ![s] = Append(sent[s], job[j].cmd)]
    BY <1>5, <1>0 DEF Send, locks, Outside, Waiting, AsExpected, TypeOK, Job
  <2>2. \A t \in Sessions \ {s} : sent'[t] = sent[t]
    BY <2>1, <1>0 DEF TypeOK
  <2>3. Quiet(s)' \/ Owes(s, job[j].cmd)' \/ Behind(s, 2)'
    <3>1. CASE Quiet(s)
      <4>1. Append(sent[s], job[j].cmd) = <<job[j].cmd>>
        BY <3>1 DEF Quiet
      <4>2. QED BY <3>1, <4>1, <2>1, <1>0 DEF Quiet, Owes, TypeOK
    <3>2. CASE Behind(s, 1)
      <4>1. s \in late /\ sent[s] \in Seq(0..MaxCommands) /\ out[s] \in Seq(0..MaxCommands)
            /\ Len(out[s]) + Len(sent[s]) <= 1
        BY <3>2, <2>1, <1>0 DEF Behind, TypeOK
      <4>2. Len(Append(sent[s], job[j].cmd)) = Len(sent[s]) + 1
        BY <4>1, <1>0 DEF TypeOK, Job
      <4>3. Len(sent'[s]) <= Len(sent[s]) + 1 /\ Len(sent'[s]) \in Nat
        <5>1. CASE proc[s] = "exited"
          BY <5>1, <2>1, <4>1
        <5>2. CASE proc[s] # "exited"
          <6>1. sent'[s] = Append(sent[s], job[j].cmd)
            BY <5>2, <2>1, <1>0 DEF TypeOK
          <6>2. QED BY <6>1, <4>1, <4>2
        <5>3. QED BY <5>1, <5>2
      <4>4. out' = out /\ late' = late
        BY <2>1
      <4>5. PICK a \in Nat, b \in Nat, d \in Nat :
              a = Len(out[s]) /\ b = Len(sent[s]) /\ d = Len(sent'[s])
        BY <4>1, <4>3
      <4>6. Len(out'[s]) + Len(sent'[s]) <= 2 /\ s \in late'
        <5>1. a + b <= 1 /\ d <= b + 1
          BY <4>1, <4>3, <4>5
        <5>2. a + d <= 2
          BY <5>1
        <5>3. a = Len(out'[s]) /\ d = Len(sent'[s]) /\ s \in late'
          BY <4>1, <4>4, <4>5
        <5>4. Len(out'[s]) = a /\ Len(sent'[s]) = d
          BY <5>3
        <5>5. Len(out'[s]) + Len(sent'[s]) = a + d
          BY <5>4
        <5>6. QED BY <5>2, <5>3, <5>5
      <4>7. job'[j].sess = s
        BY <2>1
      <4>8. QED BY <4>6, <4>7 DEF Behind
    <3>3. QED BY <2>1, <3>1, <3>2
  <2>4. AsExpected(job[j])'
    BY <2>1, <2>3 DEF AsExpected, Owes
  <2>5. proc'[s] # "none" /\ holder'[s] # NoOne
    BY <2>1, <1>0 DEF Holding
  <2>6. QED BY <2>1, <2>2, <2>4, <2>5, <1>0, BashElsewhere DEF Holding
<1>6. ASSUME Release(j), job[j].at \in Holding, NEW r \in Sessions, r = s,
             Quiet(r)' \/ Behind(r, 1)', proc'[r] = "none" => Quiet(r)',
             \A t \in Sessions \ {r} :
               /\ proc'[t] = proc[t] /\ sent'[t] = sent[t] /\ out'[t] = out[t]
               /\ (t \in late <=> t \in late')
      PROVE  BashInv'
  <2>1. job'[j].at = "idle" /\ holder' = [holder EXCEPT ![r] = NoOne]
    BY <1>6, <1>0 DEF Release, Idle, TypeOK, Holding, Outside, Waiting
  <2>2. AsExpected(job[j])'
    BY <2>1 DEF AsExpected
  <2>3. \A t \in Sessions \ {r} : holder'[t] = holder[t]
    BY <2>1, <1>0 DEF TypeOK
  <2>4. QED BY <1>6, <2>2, <2>3, <1>0, BashElsewhere
<1>7. CASE ReadOutput(j)
  <2>1. PICK r \in Sessions : /\ r = s /\ job[j].at = "read" /\ Release(j) /\ proc[r] # "none"
                              /\ Quiet(r) \/ Owes(r, job[j].cmd) \/ Behind(r, 2)
    BY <1>7, <1>0 DEF ReadOutput, Outside, Waiting, AsExpected
  <2>2. PICK n \in 1..Len(out[r]) :
          \/ Stopped(r)
          \/ /\ Read(r, n) /\ UNCHANGED <<proc, sent>>
             /\ late' = IF out'[r] = <<>> /\ sent[r] = <<>> THEN late \ {r} ELSE late
    BY <1>7, <2>1 DEF ReadOutput
  <2>3. CASE Stopped(r)
    BY <2>1, <2>3, <1>0, <1>6, StoppedQuiet DEF Holding
  <2>4. CASE /\ Read(r, n) /\ UNCHANGED <<proc, sent>>
             /\ late' = IF out'[r] = <<>> /\ sent[r] = <<>> THEN late \ {r} ELSE late
    <3>1. n \in Nat /\ n > 0
      <4>1. Len(out[r]) \in Nat
        BY <1>0 DEF TypeOK
      <4>2. QED BY <4>1
    <3>2. /\ Lag(r) <= 1 => Quiet(r)'
          /\ Lag(r) <= 2 => Lag(r)' <= 1
          /\ \A t \in Sessions \ {r} : out'[t] = out[t]
      BY <3>1, <2>1, <2>4, <1>0, ReadLeaves
    <3>4. Quiet(r)' \/ Behind(r, 1)'
      <4>1. CASE Quiet(r) \/ Owes(r, job[j].cmd)
        BY <4>1, <3>2, <1>0, OneLag
      <4>2. CASE Behind(r, 2)
        <5>1. r \in late /\ Lag(r)' <= 1
          BY <4>2, <3>2 DEF Behind, Lag
        <5>2. CASE out'[r] = <<>> /\ sent[r] = <<>>
          BY <5>2, <2>4 DEF Quiet
        <5>3. CASE ~(out'[r] = <<>> /\ sent[r] = <<>>)
          BY <5>1, <5>3, <2>4 DEF Behind, Lag
        <5>4. QED BY <5>2, <5>3
      <4>3. QED BY <2>1, <4>1, <4>2
    <3>5. proc'[r] # "none"
      BY <2>1, <2>4
    <3>6. QED BY <3>2, <3>4, <3>5, <2>1, <2>4, <1>6 DEF Holding
  <2>5. QED BY <2>2, <2>3, <2>4
<1>8. CASE ReadFails(j)
  <2>1. PICK r \in Sessions : r = s /\ job[j].at \in Holding /\ Release(j) /\ Stopped(r)
    BY <1>8, <1>0 DEF ReadFails, Fail, Holding, Outside, Waiting
  <2>2. QED BY <2>1, <1>0, <1>6, StoppedQuiet
<1>9. QED BY <1>1, <1>2, <1>3, <1>4, <1>5, <1>7, <1>8 DEF JobStep

(* Bash answers or drops what is ahead, it adds nothing. *)
LEMMA RunLag ==
  ASSUME TypeOK, NEW s \in Sessions, BashRun(s)
  PROVE  /\ Len(out'[s]) + Len(sent'[s]) <= Len(out[s]) + Len(sent[s]) /\ late' = late
         /\ \A c : sent[s] = <<c>> /\ out[s] = <<>> =>
              \/ out'[s] = <<c>> /\ sent'[s] = <<>> /\ proc'[s] = "runs"
              \/ out'[s] = <<>> /\ sent'[s] = <<>> /\ proc'[s] = "exited"
<1>1. /\ proc[s] = "runs" /\ sent[s] # <<>> /\ late' = late
      /\ sent[s] \in Seq(0..MaxCommands) /\ out[s] \in Seq(0..MaxCommands)
  BY DEF BashRun, TypeOK
<1>2. /\ Len(Tail(sent[s])) = Len(sent[s]) - 1 /\ Len(sent[s]) \in Nat \ {0}
      /\ Head(sent[s]) \in 0..MaxCommands
      /\ Len(Append(out[s], Head(sent[s]))) = Len(out[s]) + 1 /\ Len(out[s]) \in Nat
  <2>1. Head(sent[s]) \in 0..MaxCommands
    BY <1>1, HeadTailProperties
  <2>2. Len(Append(out[s], Head(sent[s]))) = Len(out[s]) + 1
    BY <1>1, <2>1, AppendProperties
  <2>3. QED BY <1>1, <2>1, <2>2
<1>3. CASE /\ out' = [out EXCEPT ![s] = Append(out[s], Head(sent[s]))]
           /\ sent' = [sent EXCEPT ![s] = Tail(sent[s])] /\ proc' = proc
  <2>1. out'[s] = Append(out[s], Head(sent[s])) /\ sent'[s] = Tail(sent[s]) /\ proc'[s] = "runs"
    BY <1>1, <1>3 DEF TypeOK
  <2>2. \A c : sent[s] = <<c>> /\ out[s] = <<>> => out'[s] = <<c>> /\ sent'[s] = <<>>
    BY <2>1
  <2>3. Len(out'[s]) + Len(sent'[s]) <= Len(out[s]) + Len(sent[s])
    <3>1. PICK a \in Nat, b \in Nat : a = Len(out[s]) /\ b = Len(sent[s])
      BY <1>2
    <3>2. Len(out'[s]) = a + 1 /\ Len(sent'[s]) = b - 1
      <4>1. Len(out'[s]) = Len(out[s]) + 1 /\ Len(sent'[s]) = Len(sent[s]) - 1
        BY <2>1, <1>2
      <4>2. QED BY <3>1, <4>1
    <3>5. a \in Nat /\ b \in Nat
      BY <3>1
    <3>3. (a + 1) + (b - 1) <= a + b
      BY ONLY <3>5
    <3>4. QED BY <3>1, <3>2, <3>3
  <2>4. QED BY <1>1, <2>1, <2>2, <2>3
<1>4. CASE /\ proc' = [proc EXCEPT ![s] = "exited"]
           /\ sent' = [sent EXCEPT ![s] = <<>>] /\ out' = out
  <2>1. out'[s] = out[s] /\ sent'[s] = <<>> /\ proc'[s] = "exited"
    BY <1>4 DEF TypeOK
  <2>2. QED BY <1>1, <1>2, <2>1
<1>5. QED BY <1>3, <1>4 DEF BashRun

(* Bash runs what the holder of its session sent, once, and what a late start   *)
(* script left.                                                                *)
LEMMA BashBash ==
  ASSUME BaseInv, LockInv, BashInv, NEW s \in Sessions, BashRun(s)
  PROVE  BashInv'
<1>1. /\ proc[s] = "runs" /\ sent[s] # <<>> /\ UNCHANGED <<job, holder, late>> /\ TypeOK
      /\ proc'[s] # "none"
      /\ \A t \in Sessions \ {s} : proc'[t] = proc[t] /\ sent'[t] = sent[t] /\ out'[t] = out[t]
  BY DEF BashRun, locks, BaseInv, TypeOK
<1>2. /\ Len(out'[s]) + Len(sent'[s]) <= Len(out[s]) + Len(sent[s])
      /\ Len(out'[s]) + Len(sent'[s]) \in Int /\ Len(out[s]) + Len(sent[s]) \in Int
  <2>1. TypeOK'
    BY BashBase DEF BaseInv
  <2>2. /\ out[s] \in Seq(0..MaxCommands) /\ sent[s] \in Seq(0..MaxCommands)
        /\ out'[s] \in Seq(0..MaxCommands) /\ sent'[s] \in Seq(0..MaxCommands)
    BY <1>1, <2>1 DEF TypeOK
  <2>3. Len(out'[s]) + Len(sent'[s]) <= Len(out[s]) + Len(sent[s])
    BY <1>1, RunLag
  <2>8. PICK a \in Nat, b \in Nat : a = Len(out[s]) /\ b = Len(sent[s])
    BY <2>2
  <2>9. PICK x \in Nat, y \in Nat : x = Len(out'[s]) /\ y = Len(sent'[s])
    BY <2>2
  <2>4. /\ a = Len(out[s]) /\ b = Len(sent[s]) /\ a \in Nat /\ b \in Nat
        /\ x = Len(out'[s]) /\ y = Len(sent'[s]) /\ x \in Nat /\ y \in Nat
    BY <2>8, <2>9
  <2>5. x + y = Len(out'[s]) + Len(sent'[s]) /\ a + b = Len(out[s]) + Len(sent[s])
    BY <2>4
  <2>6. x + y \in Int /\ a + b \in Int
    BY <2>4
  <2>7. QED BY <2>3, <2>5, <2>6
<1>3. /\ Behind(s, 1) => Behind(s, 1)'
      /\ Behind(s, 2) => Behind(s, 2)'
  <2>1. late' = late
    BY <1>1
  <2>2. \A n \in {1, 2} : Len(out[s]) + Len(sent[s]) <= n => Len(out'[s]) + Len(sent'[s]) <= n
    <3>1. PICK a \in Int, b \in Int :
            a = Len(out[s]) + Len(sent[s]) /\ b = Len(out'[s]) + Len(sent'[s])
      BY <1>2
    <3>2. b <= a
      BY <3>1, <1>2
    <3>3. \A n \in {1, 2} : a <= n => b <= n
      BY <3>2
    <3>4. QED BY <3>1, <3>3
  <2>3. QED BY <2>1, <2>2 DEF Behind
<1>4. \A c : Owes(s, c) => \/ Owes(s, c)' /\ proc'[s] = "runs"
                           \/ Quiet(s)' /\ proc'[s] = "exited"
  BY <1>1, RunLag DEF Owes, Quiet
<1>5. ~Quiet(s)
  BY <1>1 DEF Quiet
<1>6. ASSUME NEW j \in Jobs, job[j].at \in Holding, job[j].sess = s PROVE AsExpected(job[j])'
  <2>1. AsExpected(job[j]) /\ job'[j] = job[j]
    BY <1>1 DEF BashInv
  <2>2. CASE job[j].at \in {"start", "send"}
    BY <2>1, <2>2, <1>3, <1>5, <1>6 DEF AsExpected
  <2>3. CASE job[j].at = "script"
    BY <2>1, <2>3, <1>4, <1>5, <1>6 DEF AsExpected
  <2>4. CASE job[j].at = "read"
    BY <2>1, <2>4, <1>3, <1>4, <1>5, <1>6 DEF AsExpected
  <2>5. QED BY <1>6, <2>2, <2>3, <2>4 DEF Holding
<1>7. ASSUME NEW j \in Jobs PROVE AsExpected(job[j])'
  <2>1. CASE job[j].at \in Holding /\ job[j].sess # s
    <3>1. PICK t \in Sessions \ {s} : t = job[j].sess
      BY <2>1, SessFacts DEF Holding, Outside, Waiting
    <3>2. AsExpected(job[j]) /\ job'[j] = job[j]
      BY <1>1 DEF BashInv
    <3>3. AsExpected(job[j])' = AsExpected(job[j])
      BY <3>1, <3>2, <1>1, SaidOf
    <3>4. QED BY <3>2, <3>3
  <2>2. CASE job[j].at \notin Holding
    BY <2>2, <1>1 DEF AsExpected, Holding
  <2>3. QED BY <2>1, <2>2, <1>6
<1>8. ASSUME NEW t \in Sessions
      PROVE  /\ proc'[t] = "none" => Quiet(t)'
             /\ holder'[t] = NoOne => Quiet(t)' \/ Behind(t, 1)'
  <2>1. CASE t = s
    BY <2>1, <1>1, <1>3, <1>5 DEF BashInv
  <2>2. CASE t # s
    <3>1. Quiet(t)' = Quiet(t) /\ Behind(t, 1)' = Behind(t, 1)
      BY <2>2, <1>1, SaidOf
    <3>2. QED BY <2>2, <3>1, <1>1 DEF BashInv
  <2>3. QED BY <2>1, <2>2
<1>9. QED BY <1>7, <1>8 DEF BashInv

(* Every step keeps what bash owes. *)
LEMMA NextBash ==
  ASSUME BaseInv, BaseInv', LockInv, BashInv, [Next]_vars
  PROVE  BashInv'
<1>1. CASE UNCHANGED vars
  <2>1. UNCHANGED <<proc, sent, out, late, holder, job>>
    BY <1>1 DEF vars, bash, locks
  <2>2. QED BY <2>1, BashSame
<1>2. CASE Next
  BY <1>2, RequestBash, JobBash, BashBash DEF Next
<1>3. QED BY <1>1, <1>2

(* What is ahead of a job that reads is its own. *)
LEMMA OwnFromInv == BaseInv /\ BashInv => OwnOutput
<1> SUFFICES ASSUME BaseInv, BashInv, NEW j \in Jobs, job[j].at = "read"
             PROVE  LET ahead == out[job[j].sess] \o sent[job[j].sess]
                    IN \/ ahead = <<>> \/ ahead = <<job[j].cmd>>
                       \/ job[j].sess \in late /\ Len(ahead) <= 2
  BY DEF OwnOutput
<1> DEFINE s == job[j].sess
           c == job[j].cmd
<1>1. Quiet(s) \/ Owes(s, c) \/ Behind(s, 2)
  BY DEF BashInv, AsExpected
<1>2. <<>> \o <<>> = <<>> /\ <<c>> \o <<>> = <<c>> /\ <<>> \o <<c>> = <<c>>
  OBVIOUS
<1>3. s \in Sessions
  BY SessFacts DEF Outside, Waiting
<1>4. out[s] \in Seq(0..MaxCommands) /\ sent[s] \in Seq(0..MaxCommands)
  BY <1>3 DEF BaseInv, TypeOK
<1>5. Len(out[s] \o sent[s]) = Len(out[s]) + Len(sent[s])
  BY <1>4
<1>6. QED BY <1>1, <1>2, <1>5 DEF Quiet, Owes, Behind

-----------------------------------------------------------------------------
(* The theorems *)

(* The strengthened invariant: it holds at first and every step keeps it. *)
THEOREM ServerInv == Spec => []IInv
<1>1. Init => IInv
  <2>1. Init => NoOrphan
    BY DEF Init, NoOrphan
  <2>2. QED BY <2>1, InitBase, InitLock, InitSlots DEF IInv
<1>2. IInv /\ [Next]_vars => IInv'
  BY NextBase, NextLock, NextSlots, NextOrphan DEF IInv
<1>3. QED BY <1>1, <1>2, PTL DEF Spec

(* A slot is held by each job between SEMAPHORE and its answer, the lock of a   *)
(* session by one of them at most, whatever fails, stops or times out: run_session *)
(* gives back what it took on every path.                                      *)
THEOREM SlotsAreConserved == Spec => []SlotsConserved
<1>1. IInv => SlotsConserved
  BY SlotsFromInv DEF IInv
<1>2. QED BY <1>1, ServerInv, PTL

(* No bash process outlives its session: one that runs belongs to the session   *)
(* stored or to one a job still uses, also when a session is stopped or replaced *)
(* while commands are under way.                                               *)
THEOREM NoOrphans == Spec => []NoOrphan
<1>1. IInv => NoOrphan
  BY DEF IInv
<1>2. QED BY <1>1, ServerInv, PTL

(* A job reads the output of its own command alone, whatever failed before in   *)
(* the session, since the process is forgotten after every failure; only after  *)
(* a start script that was given up and not done is a session one answer behind, *)
(* and never more than one.                                                    *)
THEOREM OutputIsOwn == Spec => []OwnOutput
<1> DEFINE OInv == BaseInv /\ LockInv /\ BashInv
<1>1. Init => OInv
  BY InitBase, InitLock, InitBash
<1>2. OInv /\ [Next]_vars => OInv'
  BY NextBase, NextLock, NextBash
<1>3. OInv => OwnOutput
  BY OwnFromInv
<1> HIDE DEF OInv
<1>4. QED BY <1>1, <1>2, <1>3, PTL DEF Spec

=============================================================================
