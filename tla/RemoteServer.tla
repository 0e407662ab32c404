---------------------------- MODULE RemoteServer ----------------------------
(***************************************************************************)
(* The server that runs in a SWE-RL sandbox and its bash session:          *)
(* cwm/rl/swerl/remote/{server,session,client}.py.                         *)
(*                                                                         *)
(* One coroutine per connection reads a request, runs it and answers;      *)
(* run_session takes a slot of SEMAPHORE, then the lock of the session,    *)
(* then sends the command and a sentinel to bash and reads until the       *)
(* sentinel or the timeout.  A background run is a task of its own whose   *)
(* result is asked for with check_task_status.  The event loop switches    *)
(* coroutines only where they await.                                       *)
(*                                                                         *)
(* There is one session id, as in modal_backend.py (SESSION_ID); the       *)
(* sessions it names one after the other are numbered.  get_exitcode is a  *)
(* run of another command, and a command is a number.  In the output a     *)
(* command stands for what it prints and the sentinel behind it.  A client *)
(* whose connection is lost is one that asks for nothing more: its handler *)
(* goes on to the answer all the same.                                     *)
(***************************************************************************)
EXTENDS Integers, Sequences, FiniteSets

CONSTANTS
  Conns,           \* connections that run in the foreground
  BgConns,         \* connections that submit and check background tasks
  Slots,           \* max_connections, the value of SEMAPHORE
  MaxCommands, MaxSessions, MaxTasks   \* bounds

ASSUME ServerAssumption ==
  /\ Conns \cap BgConns = {} /\ Slots \in Nat \ {0}
  /\ MaxCommands \in Nat /\ MaxSessions \in Nat /\ MaxTasks \in Nat
  /\ (Conns \cup BgConns) \cap 0..MaxTasks = {}

AllConns == Conns \cup BgConns
Tasks == 1..MaxTasks
Jobs == AllConns \cup Tasks
Sessions == 1..MaxSessions
NoSession == 0
NoOne == 0
StartScript == 0

VARIABLES
  job,       \* per connection or task: where it is, its command and session
  sem, semq, \* SEMAPHORE and the jobs that wait for it
  store,     \* SESSION_STORE: the session, or NoSession
  nsess,     \* sessions created
  holder, lockq,      \* per session, its lock and who waits
  proc,               \* per session, its bash: "none", "runs" or "exited"
  sent, out,          \* commands bash has to run, output to read
  late,               \* sessions in use before their start script was done
  tasks,              \* TASKS: results, "pending", or "unknown"
  ntasks, origin,     \* tasks submitted, and the request of each
  request, latest,    \* request and task_id of handle_client_loop, if it submits
  ncmd                \* commands so far

locks == <<sem, semq, holder, lockq>>
bash == <<proc, sent, out, late>>
sessions == <<store, nsess>>
handlers == <<request, latest, ncmd>>
background == <<tasks, ntasks, origin>>
vars == <<job, locks, sessions, bash, background, handlers>>

Idle == [at |-> "idle", cmd |-> 0, sess |-> NoSession]
NoRequest == [op |-> "none", cmd |-> 0]
Ok(lines) == [status |-> "success", output |-> lines]
Result(status) == [status |-> status, output |-> <<>>]

-----------------------------------------------------------------------------
(* handle_client_loop: a request that is answered without an await *)

(* a task made by create_task starts before the client can send again *)
Reads(c) ==
  /\ job[c] = Idle
  /\ \A k \in Tasks : job[k].at = "new" => origin[k].conn # c

(* it is an error while the session exists *)
CreateSession(c) ==
  /\ c \in Conns /\ Reads(c) /\ store = NoSession /\ nsess < MaxSessions
  /\ nsess' = nsess + 1 /\ store' = nsess + 1
  /\ UNCHANGED <<job, locks, bash, background, handlers>>

(* AsyncSession.stop: the process is terminated and forgotten *)
Stopped(s) ==
  /\ proc' = [proc EXCEPT ![s] = "none"]
  /\ sent' = [sent EXCEPT ![s] = <<>>]
  /\ out' = [out EXCEPT ![s] = <<>>]
  /\ late' = late \ {s}

(* the session is deleted with its last user, and __del__ stops the process *)
UnusedNever(s, j) == FALSE
Unused(s, j) == s # store /\ \A i \in Jobs \ {j} : job[i].sess # s

(* it is an error without a session *)
StopSession(c) ==
  /\ c \in Conns /\ Reads(c) /\ store # NoSession
  /\ Stopped(store) /\ store' = NoSession
  /\ UNCHANGED <<job, locks, nsess, background, handlers>>

(* a result is given once *)
CheckTask(c) ==
  /\ c \in BgConns /\ Reads(c)
  /\ request' = [request EXCEPT ![c] = [op |-> "check_task_status", cmd |-> 0]]
  /\ \E k \in Tasks :
       /\ k <= ntasks /\ origin[k].conn = c /\ tasks[k].status # "unknown"
       /\ tasks' = IF tasks[k].status = "pending" THEN tasks
                   ELSE [tasks EXCEPT ![k] = Result("unknown")]
  /\ UNCHANGED <<job, locks, sessions, bash, ntasks, origin, latest, ncmd>>

-----------------------------------------------------------------------------
(* handle_client_loop: run_session, at once or in a task *)

(* a task runs the request its handler has now, and stores the result under the *)
(* task_id it has now; a connection is answered                                *)
Command(k) == request[origin[k].conn]
Report(j, result) ==
  tasks' = IF j \in Tasks THEN [tasks EXCEPT ![latest[origin[j].conn]] = result] ELSE tasks

(* acquiring a semaphore or a lock suspends only if it is taken or others wait *)
SlotFree == sem > 0 /\ semq = <<>>
LockFree(s) == holder[s] = NoOne /\ lockq[s] = <<>>

(* action_fn(request), with a slot; a request without a session gives it back *)
Serve(j, rq) ==
  IF rq.op # "run_session" \/ store = NoSession
  THEN /\ job' = [job EXCEPT ![j] = Idle]
       /\ Report(j, Result(IF rq.op = "run_session" THEN "error" ELSE "TypeError"))
       /\ UNCHANGED <<sem, holder, lockq>>
  ELSE /\ sem' = sem - 1
       /\ job' = [job EXCEPT ![j] = [at |-> IF LockFree(store) THEN "start" ELSE "lock",
                                     cmd |-> rq.cmd, sess |-> store]]
       /\ IF LockFree(store) THEN holder' = [holder EXCEPT ![store] = j] /\ UNCHANGED lockq
          ELSE lockq' = [lockq EXCEPT ![store] = Append(@, j)] /\ UNCHANGED holder
       /\ UNCHANGED tasks

(* async with SEMAPHORE *)
Acquire(j, rq) ==
  IF SlotFree THEN Serve(j, rq) /\ UNCHANGED semq
  ELSE /\ semq' = Append(semq, j)
       /\ job' = [job EXCEPT ![j] = [at |-> "sem", cmd |-> rq.cmd, sess |-> NoSession]]
       /\ UNCHANGED <<sem, holder, lockq, tasks>>

Run(cmd) == [op |-> "run_session", cmd |-> cmd]

RunSession(c) ==
  /\ c \in Conns /\ Reads(c) /\ ncmd < MaxCommands
  /\ ncmd' = ncmd + 1
  /\ Acquire(c, Run(ncmd + 1))
  /\ UNCHANGED <<sessions, bash, ntasks, origin, request, latest>>

Submit(c) ==
  /\ c \in BgConns /\ Reads(c) /\ ncmd < MaxCommands /\ ntasks < MaxTasks
  /\ LET k == ntasks + 1
     IN /\ ntasks' = k
        /\ origin' = [origin EXCEPT ![k] = [conn |-> c, cmd |-> ncmd + 1]]
        /\ tasks' = [tasks EXCEPT ![k] = Result("pending")]
        /\ job' = [job EXCEPT ![k] = [Idle EXCEPT !.at = "new"]]
        /\ latest' = [latest EXCEPT ![c] = k]
  /\ ncmd' = ncmd + 1
  /\ request' = [request EXCEPT ![c] = Run(ncmd + 1)]
  /\ UNCHANGED <<locks, sessions, bash>>

(* the task's first step, up to the semaphore *)
StartTask(k) ==
  /\ k \in Tasks /\ job[k].at = "new"
  /\ Acquire(k, Command(k))
  /\ UNCHANGED <<sessions, bash, ntasks, origin, handlers>>

(* the semaphore is handed to the first that waits; the request is read then *)
Enter(j) ==
  /\ job[j].at = "sem" /\ sem > 0 /\ Head(semq) = j
  /\ semq' = Tail(semq)
  /\ Serve(j, IF j \in Tasks THEN Command(j) ELSE Run(job[j].cmd))
  /\ UNCHANGED <<sessions, bash, ntasks, origin, handlers>>

MayLockAny(j) == Head(lockq[job[j].sess]) = j
MayLock(j) == holder[job[j].sess] = NoOne /\ Head(lockq[job[j].sess]) = j

(* the lock is handed to the first that waits *)
Lock(j) ==
  /\ job[j].at = "lock" /\ MayLock(j)
  /\ holder' = [holder EXCEPT ![job[j].sess] = j]
  /\ lockq' = [lockq EXCEPT ![job[j].sess] = Tail(@)]
  /\ job' = [job EXCEPT ![j].at = "start"]
  /\ UNCHANGED <<sem, semq, sessions, bash, background, handlers>>

-----------------------------------------------------------------------------
(* AsyncSession.communicate *)

(* ensure_started: a new process is given the start script first *)
EnsureStarted(j) ==
  /\ job[j].at = "start"
  /\ LET s == job[j].sess
     IN IF proc[s] # "none"
        THEN job' = [job EXCEPT ![j].at = "send"] /\ UNCHANGED bash
        ELSE /\ job' = [job EXCEPT ![j].at = "script"]
             /\ proc' = [proc EXCEPT ![s] = "runs"]
             /\ sent' = [sent EXCEPT ![s] = <<StartScript>>]
             /\ UNCHANGED <<out, late>>
  /\ UNCHANGED <<locks, sessions, background, handlers>>

(* _read takes the output up to a sentinel: of one command, or of several *)
Read(s, n) ==
  /\ proc[s] # "none" /\ n <= Len(out[s])
  /\ out' = [out EXCEPT ![s] = SubSeq(@, n + 1, Len(@))]

(* the script's sentinel is read, or its failure is ignored: a timeout, after   *)
(* which bash still runs it, or an exit                                         *)
ScriptEnds(j) ==
  /\ job[j].at = "script"
  /\ job' = [job EXCEPT ![j].at = "send"]
  /\ \/ \E n \in 1..(MaxCommands + 1) : Read(job[j].sess, n) /\ UNCHANGED late
     \/ /\ late' = IF proc[job[j].sess] = "runs" THEN late \cup {job[j].sess} ELSE late
        /\ UNCHANGED out
  /\ UNCHANGED <<locks, sessions, proc, sent, background, handlers>>

(* _send; an exited bash reads nothing *)
Send(j) ==
  /\ job[j].at = "send" /\ proc[job[j].sess] # "none"
  /\ sent' = IF proc[job[j].sess] = "exited" THEN sent
             ELSE [sent EXCEPT ![job[j].sess] = Append(@, job[j].cmd)]
  /\ job' = [job EXCEPT ![j].at = "read"]
  /\ UNCHANGED <<locks, sessions, proc, out, late, background, handlers>>

Release(j) ==
  /\ holder' = [holder EXCEPT ![job[j].sess] = NoOne]
  /\ sem' = sem + 1
  /\ job' = [job EXCEPT ![j] = Idle]
  /\ UNCHANGED <<semq, lockq, sessions, ntasks, origin, handlers>>

ReadOutput(j) ==
  /\ job[j].at = "read"
  /\ LET s == job[j].sess
     IN /\ proc[s] # "none"
        /\ \E n \in 1..Len(out[s]) :
             /\ Report(j, Ok(SubSeq(out[s], 1, n)))
             /\ IF Unused(s, j) THEN Stopped(s)
                ELSE /\ Read(s, n) /\ UNCHANGED <<proc, sent>>
                     /\ late' = IF out'[s] = <<>> /\ sent[s] = <<>> THEN late \ {s} ELSE late
  /\ Release(j)

(* timeout, exit of bash, too long an output, or the session was stopped: the   *)
(* session forgets the process, "to avoid undefined behavior"                   *)
FailKeeps(j) == UNCHANGED bash
Fail(j) == Stopped(job[j].sess)
ReadFails(j) ==
  /\ \/ job[j].at = "read"
     \/ job[j].at = "send" /\ proc[job[j].sess] = "none"
  /\ Report(j, Result("error"))
  /\ Fail(j)
  /\ Release(j)

JobStep(j) ==
  \/ StartTask(j) \/ Enter(j) \/ Lock(j) \/ EnsureStarted(j) \/ ScriptEnds(j)
  \/ Send(j) \/ ReadOutput(j) \/ ReadFails(j)

-----------------------------------------------------------------------------
(* bash runs what it is sent, in order; a command may end it *)

BashRun(s) ==
  /\ proc[s] = "runs" /\ sent[s] # <<>>
  /\ \/ /\ out' = [out EXCEPT ![s] = Append(@, Head(sent[s]))]
        /\ sent' = [sent EXCEPT ![s] = Tail(@)]
        /\ UNCHANGED proc
     \/ /\ proc' = [proc EXCEPT ![s] = "exited"]
        /\ sent' = [sent EXCEPT ![s] = <<>>]
        /\ UNCHANGED out
  /\ UNCHANGED <<job, late, locks, sessions, background, handlers>>

-----------------------------------------------------------------------------
Init ==
  /\ job = [j \in Jobs |-> Idle]
  /\ sem = Slots /\ semq = <<>>
  /\ holder = [s \in Sessions |-> NoOne] /\ lockq = [s \in Sessions |-> <<>>]
  /\ store = NoSession /\ nsess = 0
  /\ proc = [s \in Sessions |-> "none"]
  /\ sent = [s \in Sessions |-> <<>>] /\ out = [s \in Sessions |-> <<>>]
  /\ late = {}
  /\ tasks = [k \in Tasks |-> Result("unknown")]
  /\ ntasks = 0 /\ origin = [k \in Tasks |-> [conn |-> NoOne, cmd |-> 0]]
  /\ request = [c \in BgConns |-> NoRequest] /\ latest = [c \in BgConns |-> 0]
  /\ ncmd = 0

Request(c) ==
  CreateSession(c) \/ StopSession(c) \/ CheckTask(c) \/ RunSession(c) \/ Submit(c)

Next ==
  \/ \E c \in AllConns : Request(c)
  \/ \E j \in Jobs : JobStep(j)
  \/ \E s \in Sessions : BashRun(s)

(* The event loop runs what is ready, and every read has a timeout. *)
Fairness == \A j \in Jobs : WF_vars(JobStep(j))

Spec == Init /\ [][Next]_vars /\ Fairness

-----------------------------------------------------------------------------
(* Properties *)

(***************************************************************************)
(* "Sends a command to the process and reads the output until the command  *)
(* is done": while a job reads, the session has nothing to read but the    *)
(* output of its own command, whatever timed out, exited or was stopped    *)
(* before in the same session.  A start script that was given up and is    *)
(* not done yet is the exception: its session is one answer behind until a *)
(* read catches up or a failure stops it, and never more than one.         *)
(***************************************************************************)
OwnOutput ==
  \A j \in Jobs : job[j].at = "read" =>
    LET ahead == out[job[j].sess] \o sent[job[j].sess]
    IN \/ ahead = <<>> \/ ahead = <<job[j].cmd>>
       \/ job[j].sess \in late /\ Len(ahead) <= 2

(* Slots and locks are taken and given back together: a slot is held by each *)
(* job between SEMAPHORE and its answer, a lock by one of them at most.       *)
SlotsConserved ==
  LET inside == {j \in Jobs : job[j].at \notin {"idle", "sem", "new"}}
  IN /\ sem + Cardinality(inside) = Slots
     /\ \A s \in Sessions :
          {j \in inside : job[j].sess = s /\ job[j].at # "lock"} =
            (IF holder[s] = NoOne THEN {} ELSE {holder[s]})

(* No process outlives its session: one that runs belongs to the session in    *)
(* SESSION_STORE or to one a job still uses.                                   *)
NoOrphan ==
  \A s \in Sessions : proc[s] # "none" => s = store \/ \E j \in Jobs : job[j].sess = s


(* "Helper function to repeatedly check a background task until it succeeds":  *)
(* a task runs the command it was submitted with, and its result is what       *)
(* run_session made of it.                                                     *)
TaskRunsItsCommand ==
  \A k \in Tasks :
    /\ tasks[k].status # "TypeError"
    /\ job[k].at \notin {"idle", "new", "sem"} => job[k].cmd = origin[k].cmd
=============================================================================
