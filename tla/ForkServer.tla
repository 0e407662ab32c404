----------------------------- MODULE ForkServer -----------------------------
(***************************************************************************)
(* cwm/exec/code/lib: sandboxes for untrusted code.                        *)
(*                                                                         *)
(* The main process owns a ForkServer; its threads call spawn() and kill() *)
(* through a pipe that a single execution server (_run) reads.  That       *)
(* server forks a child for every vPID.  A child of the BUBBLEWRAP and     *)
(* FORK executors starts the command itself; one of PERSISTENT_BUBBLEWRAP  *)
(* passes it to a bwrap fork server that is used again once its child has  *)
(* said on the busy pipe that the command ended.  The threads here are     *)
(* users of Runner: with reuse_sandbox they keep a process over several    *)
(* calls; without it they behave as the one-shot users of spawn (python.py,*)
(* compare.py, tool_executor.py): spawn, send, wait, kill.                 *)
(*                                                                         *)
(* A command may die, never answer, or fail to start at any moment; the    *)
(* main process may be killed.  A bwrap fork server is named by the vPID   *)
(* it was first forked for.                                                *)
(***************************************************************************)
EXTENDS Integers, Sequences, FiniteSets, FiniteSetsExt, Functions

CONSTANTS
  Threads,      \* users of the fork server
  Reusers,      \* those whose Runner has reuse_sandbox
  ExecutorsOf,  \* the executors they ask for: "bwrap" (or fork), "persistent"
  LimitsOf,     \* the resource limits they ask for
  MaxTries,     \* retries + 1 of spawn
  MaxDone,      \* commands a bwrap fork server runs before it is dropped (20)
  MaxCalls,     \* bound: calls of Runner.run per thread
  MaxVpid       \* bound: vPIDs handed out

ASSUME ForkServerAssumption ==
  /\ Reusers \subseteq Threads
  /\ ExecutorsOf \in [Threads -> SUBSET {"bwrap", "persistent"}]
  /\ DOMAIN LimitsOf = Threads
  /\ MaxTries \in Nat \ {0} /\ MaxDone \in Nat \ {0}
  /\ MaxCalls \in [Threads -> Nat] /\ MaxVpid \in Nat

Vpids == 1 .. MaxVpid
None  == 0

VARIABLES
  main,     \* the main process: "up", "exit" (stop() was called), "dead"
  user,     \* thread -> its Runner
  cmds,     \* the command pipe
  nextVpid,
  fs,       \* the execution server: "up" or "ended"
  pids,     \* vPIDs it knows
  servers,  \* its bwrapforkservers: name -> [busy, done, lim]
  srv,      \* vPID -> the bwrap fork server of its child, or None
  child,    \* vPID -> its child process
  said,     \* vPIDs whose child has written "1" on the busy pipe
  box,      \* vPID -> its sandboxed command
  in,       \* vPID -> the call in its input pipe, or None
  out,      \* vPID -> its output pipe
  up,       \* bwrap fork servers whose process runs
  sock,     \* bwrap fork server -> the command in its socket
  work,     \* bwrap fork server -> the command it waits for
  resp      \* bwrap fork server -> the command of its unread response

mainVars == <<main, user, nextVpid>>
fsVars   == <<fs, pids, servers, srv>>
srvVars  == <<up, sock, work, resp>>
vars == <<mainVars, cmds, fsVars, child, said, box, in, out, srvVars>>

Alive == {"boot", "up"}
Canary == [k |-> "canary", call |-> None]
DoneMsg == [k |-> "done", call |-> None]
Answer(c) == [k |-> "return", call |-> c]

(* Every write end of the output pipe is closed: the child, the command    *)
(* and the bwrap fork server that holds the descriptors are gone.          *)
Closed(v) == /\ child[v] = "gone" /\ box[v] \notin Alive
             /\ \A s \in up : sock[s] # v /\ work[s] # v

(* ---- Runner and spawn(): the threads of the main process -------------- *)

\* For a Runner: pc, its process (vpid, None if there is none), the number
\* of the call, the tries of the spawn under way, whether this call spawned.
NewUser(t) == [pc |-> IF t \in Reusers THEN "spawn" ELSE "rest", vp |-> None,
               call |-> 0, try |-> 0, spawned |-> FALSE]

\* run() begins: the process is there, or it is spawned for this call alone.
Call(t) == LET u == user[t] IN
  /\ u.pc = "rest" /\ u.call < MaxCalls[t]
  /\ user' = [user EXCEPT ![t] =
       [u EXCEPT !.call = @ + 1, !.try = 0, !.spawned = (u.vp = None),
                 !.pc = IF u.vp = None THEN "spawn" ELSE "send"]]
  /\ UNCHANGED <<main, nextVpid, cmds, fsVars, child, said, box, in, out, srvVars>>

\* A try of spawn(): a new vPID, the command sent under the lock.
Try(t) == LET u == user[t] IN
  /\ u.pc = "spawn" /\ u.try < MaxTries /\ nextVpid <= MaxVpid
  /\ \E x \in ExecutorsOf[t] :
       cmds' = Append(cmds, [op |-> "spawn", v |-> nextVpid, exec |-> x, lim |-> LimitsOf[t]])
  /\ nextVpid' = nextVpid + 1
  /\ user' = [user EXCEPT ![t] = [u EXCEPT !.pc = "canary", !.vp = nextVpid,
                                           !.try = @ + 1]]
  /\ UNCHANGED <<main, fsVars, child, said, box, in, out, srvVars>>

\* The caller closes its ends of the pipes and sends the kill.
Kill(v) == /\ cmds' = Append(cmds, [op |-> "kill", v |-> v])
           /\ in' = [in EXCEPT ![v] = None]
           /\ out' = [out EXCEPT ![v] = <<>>]

\* The user after spawn() has returned or raised.  A spawn at rest is that
\* of the constructor, or the one that replaces a process in run().
InRun(u) == u.spawned
Spawned(u) == [u EXCEPT !.pc = IF InRun(u) THEN "send" ELSE "rest", !.try = 0]
Raised(u)  == [u EXCEPT !.pc = "rest", !.vp = None, !.try = 0, !.spawned = FALSE]

\* The right canary: the process is handed to the caller.
Chirp(t) == LET u == user[t] IN
  /\ u.pc = "canary" /\ out[u.vp] # <<>> /\ Head(out[u.vp]) = Canary
  /\ out' = [out EXCEPT ![u.vp] = Tail(@)]
  /\ user' = [user EXCEPT ![t] = Spawned(u)]
  /\ UNCHANGED <<main, nextVpid, cmds, fsVars, child, said, box, in, srvVars>>

\* The poll timed out, or another message came first: kill and try again.
Retry(t) == LET u == user[t] IN
  /\ u.pc = "canary"
  /\ IF out[u.vp] = <<>> THEN ~Closed(u.vp) ELSE Head(out[u.vp]) # Canary
  /\ Kill(u.vp)
  /\ user' = [user EXCEPT ![t] = [u EXCEPT !.pc = "spawn", !.vp = None]]
  /\ UNCHANGED <<main, nextVpid, fsVars, child, said, box, srvVars>>

\* All tries are used up: RuntimeError.
GiveUp(t) == LET u == user[t] IN
  /\ u.pc = "spawn" /\ u.try = MaxTries
  /\ user' = [user EXCEPT ![t] = Raised(u)]
  /\ UNCHANGED <<main, nextVpid, cmds, fsVars, child, said, box, in, out, srvVars>>

\* The pipe is at its end: poll() is true, recv() raises EOFError, which
\* leaves spawn() without a kill.
SpawnEof(t) == LET u == user[t] IN
  /\ u.pc = "canary" /\ out[u.vp] = <<>> /\ Closed(u.vp)
  /\ user' = [user EXCEPT ![t] = Raised(u)]
  /\ UNCHANGED <<main, nextVpid, cmds, fsVars, child, said, box, in, out, srvVars>>

\* The finally of run() when cleanup is set: shutdown, and a new process if
\* this one was not spawned for the call.
CleanedUp(u) == [u EXCEPT !.pc = IF u.spawned THEN "rest" ELSE "spawn",
                          !.vp = None, !.try = 0, !.spawned = FALSE]
CleanupOnlySpawned(t) ==
  IF user[t].spawned THEN Kill(user[t].vp) /\ user' = [user EXCEPT ![t] = CleanedUp(@)]
  ELSE user' = [user EXCEPT ![t].pc = "rest"] /\ UNCHANGED <<cmds, in, out>>
Cleanup(t) == /\ Kill(user[t].vp)
              /\ user' = [user EXCEPT ![t] = CleanedUp(@)]

\* The arguments are sent; a pipe nobody reads any more raises.
Send(t) == LET u == user[t] IN
  /\ u.pc = "send"
  /\ IF Closed(u.vp)
       THEN Cleanup(t)
       ELSE /\ in' = [in EXCEPT ![u.vp] = u.call]
            /\ user' = [user EXCEPT ![t] = [u EXCEPT !.pc = "wait"]]
            /\ UNCHANGED <<cmds, out>>
  /\ UNCHANGED <<main, nextVpid, fsVars, child, said, box, srvVars>>

\* "return" and "except" keep a process that was there before the call.
Receive(t) == LET u == user[t] IN
  /\ u.pc = "wait" /\ out[u.vp] # <<>>
  /\ IF Head(out[u.vp]).k = "return" /\ ~u.spawned
       THEN /\ out' = [out EXCEPT ![u.vp] = Tail(@)]
            /\ user' = [user EXCEPT ![t] = [u EXCEPT !.pc = "rest"]]
            /\ UNCHANGED <<cmds, in>>
       ELSE Cleanup(t)
  /\ UNCHANGED <<main, nextVpid, fsVars, child, said, box, srvVars>>

\* TimeoutError, or EOFError from recv().
NoAnswer(t) == LET u == user[t] IN
  /\ u.pc = "wait" /\ out[u.vp] = <<>>
  /\ Cleanup(t)
  /\ UNCHANGED <<main, nextVpid, fsVars, child, said, box, srvVars>>

User(t) == /\ main = "up"
           /\ \/ Call(t) \/ Try(t) \/ Chirp(t) \/ Retry(t) \/ GiveUp(t) \/ SpawnEof(t)
              \/ Send(t) \/ Receive(t) \/ NoAnswer(t)

\* atexit: stop(), once no thread is in a call.
Stop == /\ main = "up" /\ \A t \in Threads : user[t].pc = "rest"
        /\ main' = "exit"
        /\ cmds' = Append(cmds, [op |-> "exit", v |-> None])
        /\ UNCHANGED <<user, nextVpid, fsVars, child, said, box, in, out, srvVars>>

(* ---- _run: the execution server --------------------------------------- *)

\* The last idle server with these limits, or a new one named by the vPID.
Idle(l) == {s \in DOMAIN servers : servers[s].busy = None /\ servers[s].lim = l}
Chosen(c) == IF c.exec # "persistent" THEN None
             ELSE IF Idle(c.lim) # {} THEN Max(Idle(c.lim)) ELSE c.v

Spawn == LET c == Head(cmds)
             s == Chosen(c) IN
  /\ fs = "up" /\ cmds # <<>> /\ c.op = "spawn"
  /\ cmds' = Tail(cmds)
  /\ srv' = [srv EXCEPT ![c.v] = s]
  /\ pids' = pids \union {c.v}
  /\ child' = [child EXCEPT ![c.v] = "boot"]
  /\ servers' = IF s = None THEN servers
                ELSE IF s \in DOMAIN servers THEN [servers EXCEPT ![s].busy = c.v]
                ELSE [x \in DOMAIN servers \union {s} |->
                        IF x = s THEN [busy |-> c.v, done |-> 0, lim |-> c.lim]
                        ELSE servers[x]]
  /\ up' = IF s = c.v THEN up \union {s} ELSE up
  /\ UNCHANGED <<mainVars, fs, said, box, in, out, sock, work, resp>>

\* What is left in the sockets of dead servers: nobody takes a command, but a
\* response can still be read until the socket is closed.
Lost(f, ss) == [s \in Vpids |-> IF s \in ss THEN None ELSE f[s]]

\* SIGKILL to the children vs and the bwrap fork servers ss: the commands
\* die with the process that started them.
KillAllKeepsServers(vs, ss) ==
  /\ child' = [v \in Vpids |-> IF v \in vs THEN "gone" ELSE child[v]]
  /\ box' = [v \in Vpids |-> IF v \in vs /\ srv[v] = None /\ box[v] \in Alive
                             THEN "dead" ELSE box[v]]
  /\ srv' = Lost(srv, vs) /\ said' = said \ vs
  /\ UNCHANGED srvVars
KillAll(vs, ss) ==
  /\ child' = [v \in Vpids |-> IF v \in vs THEN "gone" ELSE child[v]]
  /\ srv' = Lost(srv, vs) /\ said' = said \ vs
  /\ sock' = Lost(sock, ss) /\ work' = Lost(work, ss) /\ resp' = Lost(resp, ss)
  /\ up' = up \ ss
  /\ box' = [v \in Vpids |->
               IF box[v] \in Alive /\ \/ v \in vs /\ srv[v] = None
                                      \/ \E s \in ss \intersect up : work[s] = v
               THEN "dead" ELSE box[v]]

\* kill: a server whose command ended is free again, until it has run
\* MaxDone of them; otherwise it is killed with the child.
FreesUnasked(v) == servers[srv[v]].done + 1 < MaxDone
Frees(v) == v \in said /\ servers[srv[v]].done + 1 < MaxDone
KillCmd == LET v == Head(cmds).v
               s == srv[v] IN
  /\ fs = "up" /\ cmds # <<>> /\ Head(cmds).op = "kill"
  /\ cmds' = Tail(cmds)
  /\ IF v \notin pids THEN UNCHANGED <<child, box, said, srvVars, pids, servers, srv>>
     ELSE /\ pids' = pids \ {v}
          /\ IF s = None THEN KillAll({v}, {}) /\ UNCHANGED servers
             ELSE IF Frees(v)
             THEN /\ KillAll({v}, {})
                  /\ servers' = [servers EXCEPT ![s].busy = None, ![s].done = @ + 1]
             ELSE /\ KillAll({v}, {s})
                  /\ servers' = Restrict(servers, DOMAIN servers \ {s})
  /\ UNCHANGED <<mainVars, fs, in, out>>

\* exit, or the main process was killed and the server finds the pipe at its
\* end or its parent gone: the finally kills them all.  What the server does
\* of the queue between the two is what it may do before the main process is
\* killed, so that both are one step here.
End == /\ fs = "up"
       /\ \/ cmds # <<>> /\ Head(cmds).op = "exit" /\ UNCHANGED main
          \/ main = "up" /\ main' = "dead"
       /\ fs' = "ended" /\ cmds' = <<>>
       /\ KillAll(pids, DOMAIN servers)
       /\ UNCHANGED <<user, nextVpid, pids, servers, in, out>>

(* ---- the children, the bwrap fork servers and the commands ------------- *)

\* execute_bwrap / execute_fork start the command; execute_bwrapforkserver
\* sends it to its server.
ChildStarts(v) ==
  /\ child[v] = "boot"
  /\ IF srv[v] = None
       THEN box' = [box EXCEPT ![v] = "boot"] /\ UNCHANGED sock
       ELSE srv[v] \in up /\ sock' = [sock EXCEPT ![srv[v]] = v] /\ UNCHANGED box
  /\ child' = [child EXCEPT ![v] = "wait"]
  /\ UNCHANGED <<mainVars, cmds, fsVars, said, in, out, up, work, resp>>

\* Popen, or the socket of a dead server, raises: the child ends silently.
ChildFails(v) ==
  /\ \/ child[v] = "boot"
     \/ child[v] = "wait" /\ srv[v] # None /\ srv[v] \notin up /\ resp[srv[v]] = None
  /\ child' = [child EXCEPT ![v] = "gone"]
  /\ UNCHANGED <<mainVars, cmds, fsVars, said, box, in, out, srvVars>>

\* The child reads the response of its server and says so on the busy pipe,
\* before it sends "done".
ChildReads(v) ==
  /\ child[v] = "wait" /\ srv[v] # None /\ resp[srv[v]] # None
  /\ resp' = [resp EXCEPT ![srv[v]] = None]
  /\ said' = said \union {v}
  /\ child' = [child EXCEPT ![v] = "said"]
  /\ UNCHANGED <<mainVars, cmds, fsVars, box, in, out, up, sock, work>>

\* A pipe whose reader has closed it takes nothing.
Held(v) == \E t \in Threads : user[t].vp = v
Put(v, m) == out' = IF Held(v) THEN [out EXCEPT ![v] = Append(@, m)] ELSE out

ChildDone(v) ==
  /\ \/ child[v] = "said"
     \/ child[v] = "wait" /\ srv[v] = None /\ box[v] = "dead"
  /\ child' = [child EXCEPT ![v] = "gone"]
  /\ Put(v, DoneMsg)
  /\ UNCHANGED <<mainVars, cmds, fsVars, said, box, in, srvVars>>

\* bwrapforkserver.py: one command at a time, one response each.
ServerTakes(s) ==
  /\ s \in up /\ work[s] = None /\ sock[s] # None
  /\ work' = [work EXCEPT ![s] = sock[s]]
  /\ sock' = [sock EXCEPT ![s] = None]
  /\ box' = [box EXCEPT ![sock[s]] = "boot"]
  /\ UNCHANGED <<mainVars, cmds, fsVars, child, said, in, out, up, resp>>

ServerResponds(s) ==
  /\ s \in up /\ work[s] # None /\ box[work[s]] = "dead"
  /\ resp' = [resp EXCEPT ![s] = work[s]]
  /\ work' = [work EXCEPT ![s] = None]
  /\ UNCHANGED <<mainVars, cmds, fsVars, child, said, box, in, out, up, sock>>

\* It may also die, with its command.
ServerDies(s) ==
  /\ s \in up
  /\ up' = up \ {s}
  /\ box' = [v \in Vpids |-> IF work[s] = v /\ box[v] \in Alive THEN "dead" ELSE box[v]]
  /\ sock' = Lost(sock, {s}) /\ work' = Lost(work, {s})
  /\ UNCHANGED <<mainVars, cmds, fsVars, child, said, in, out, resp>>

\* runner.py: the canary, then an answer to each call; it may end any time,
\* as it does when it finds a pipe closed.
BoxChirps(v) ==
  /\ box[v] = "boot" /\ Held(v)
  /\ box' = [box EXCEPT ![v] = "up"]
  /\ Put(v, Canary)
  /\ UNCHANGED <<mainVars, cmds, fsVars, child, said, in, srvVars>>

BoxAnswers(v) ==
  /\ box[v] = "up" /\ in[v] # None
  /\ Put(v, Answer(in[v]))
  /\ in' = [in EXCEPT ![v] = None]
  /\ UNCHANGED <<mainVars, cmds, fsVars, child, said, box, srvVars>>

BoxEnds(v) ==
  /\ box[v] \in Alive
  /\ box' = [box EXCEPT ![v] = "dead"]
  /\ UNCHANGED <<mainVars, cmds, fsVars, child, said, in, out, srvVars>>

Init ==
  /\ main = "up" /\ user = [t \in Threads |-> NewUser(t)]
  /\ cmds = <<>> /\ nextVpid = 1 /\ fs = "up" /\ pids = {} /\ servers = <<>>
  /\ srv = [v \in Vpids |-> None] /\ child = [v \in Vpids |-> "none"] /\ said = {}
  /\ box = [v \in Vpids |-> "none"] /\ in = [v \in Vpids |-> None]
  /\ out = [v \in Vpids |-> <<>>] /\ up = {} /\ sock = [v \in Vpids |-> None]
  /\ work = [v \in Vpids |-> None] /\ resp = [v \in Vpids |-> None]

Next ==
  \/ \E t \in Threads : User(t)
  \/ Stop
  \/ Spawn \/ KillCmd \/ End
  \/ \E v \in Vpids : ChildStarts(v) \/ ChildFails(v) \/ ChildReads(v)
                      \/ ChildDone(v) \/ BoxChirps(v) \/ BoxAnswers(v) \/ BoxEnds(v)
  \/ \E s \in Vpids : ServerTakes(s) \/ ServerResponds(s) \/ ServerDies(s)

Spec == Init /\ [][Next]_vars

(* ---- properties --------------------------------------------------------- *)

(* A bwrap fork server belongs to one child at a time (the assertion at    *)
(* server.py:391 that the server of a known vPID is busy): one that _run   *)
(* takes for idle has no command, no answer to come and none left unread   *)
(* in its socket, and what waits there is always that of its own child.    *)
ServersNotShared ==
  /\ \A v \in pids : srv[v] # None =>
       srv[v] \in DOMAIN servers /\ servers[srv[v]].busy = v
  /\ \A s \in DOMAIN servers : \A x \in {sock[s], work[s], resp[s]} :
       x # None => x = servers[s].busy

(* Once the execution server has handled the kill of a vPID nothing of it  *)
(* runs, whatever the child, the bwrap fork server or the command was      *)
(* doing: no child, no command, and no server it has forgotten.  When it   *)
(* ends (exit, or the main process died) no process is left behind: those  *)
(* of known vPIDs, and idle servers as well.                               *)
Dead(v) == child[v] \in {"none", "gone"} /\ box[v] \notin Alive
KilledIsDead ==
  /\ fs = "up" => (\A v \in Vpids \ pids : Dead(v)) /\ up \subseteq DOMAIN servers
  /\ fs = "ended" => (\A v \in Vpids : Dead(v)) /\ up = {}

(* Runner.run never returns the answer of an earlier call, though the      *)
(* process is kept over calls that raise or time out: the only answer in   *)
(* the pipe of its process is that of the call it waits for.               *)
AnswerOfCall ==
  \A t \in Threads : LET u == user[t] IN
    u.vp # None => \A m \in Range(out[u.vp]) :
      m.k = "return" => u.pc = "wait" /\ m.call = u.call
=============================================================================
