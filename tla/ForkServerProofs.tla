-------------------------- MODULE ForkServerProofs --------------------------
(***************************************************************************)
(* Proofs about ForkServer, for any threads, executors, limits and bounds. *)
(*                                                                         *)
(* Two inductive invariants, each over types of its own side.  Server side *)
(* (ForkInv): how a vPID, its child, its command and the bwrap fork server *)
(* it was given stand to each other in each phase of the child; a fork     *)
(* server at work is busy with that vPID, and a vPID whose spawn waits in  *)
(* the queue was never used.  User side (UserInv): whom a pipe belongs to, *)
(* and that it carries at most one answer, to the call under way.          *)
(***************************************************************************)
EXTENDS ForkServer, SequenceTheorems, WellFoundedInduction, TLAPS

Pipe0 == 0..MaxVpid
Limits == {LimitsOf[t] : t \in Threads}
Cmd == [op : {"spawn"}, v : Vpids, exec : {"bwrap", "persistent"}, lim : Limits]
         \cup [op : {"kill"}, v : Vpids] \cup [op : {"exit"}, v : {None}]
Msg == [k : {"canary", "done", "return"}, call : Nat]
Server == [busy : Pipe0, done : Nat, lim : Limits]
Runner == [pc : {"rest", "spawn", "canary", "send", "wait"}, vp : Pipe0, call : Nat,
           try : Nat, spawned : BOOLEAN]

(* the execution server and what it starts *)
ForkTypes ==
  /\ fs \in {"up", "ended"} /\ pids \subseteq Vpids /\ said \subseteq Vpids /\ up \subseteq Vpids
  /\ DOMAIN servers \subseteq Vpids /\ \A s \in DOMAIN servers : servers[s] \in Server
  /\ srv \in [Vpids -> Pipe0]
  /\ child \in [Vpids -> {"none", "boot", "wait", "said", "gone"}]
  /\ box \in [Vpids -> {"none", "boot", "up", "dead"}]
  /\ sock \in [Vpids -> Pipe0] /\ work \in [Vpids -> Pipe0] /\ resp \in [Vpids -> Pipe0]

(* the command pipe, with the vPIDs handed out *)
QueueTypes == cmds \in Seq(Cmd) /\ nextVpid \in 1..(MaxVpid + 1)

(* the threads and their pipes *)
UserTypes ==
  /\ main \in {"up", "exit", "dead"} /\ user \in [Threads -> Runner]
  /\ in \in [Vpids -> Nat] /\ out \in [Vpids -> Seq(Msg)]

TypeOK == ForkTypes /\ QueueTypes /\ UserTypes

-----------------------------------------------------------------------------
(* The server side *)

(* a vPID not spawned yet, with its spawn in the queue or not handed out *)
Fresh(v) == v \notin pids /\ v \notin DOMAIN servers
QueueInv ==
  /\ \A v \in Vpids : v >= nextVpid => Fresh(v)
  /\ \A i \in 1..Len(cmds) : cmds[i].op = "spawn" =>
       /\ cmds[i].v < nextVpid /\ Fresh(cmds[i].v)
       /\ \A k \in 1..Len(cmds) : cmds[k].op = "spawn" /\ cmds[k].v = cmds[i].v => k = i

(* nothing of a command is under way in the bwrap fork server s *)
Clear(s) == sock[s] = None /\ work[s] = None /\ resp[s] = None

(* what a bwrap fork server does is for the vPID it is busy with *)
ServerOk(s) ==
  /\ \A x \in {sock[s], work[s], resp[s]} :
       x # None => s \in DOMAIN servers /\ servers[s].busy = x
  /\ work[s] # None => sock[s] = None
  /\ resp[s] # None => sock[s] = None /\ work[s] = None
  /\ s \notin up => sock[s] = None /\ work[s] = None
ServerInv == \A s \in Vpids : ServerOk(s)

(* a vPID, its child and its command *)
ChildOk(v) ==
  /\ v \in said => child[v] \in {"said", "gone"} /\ v \in pids
  /\ srv[v] # None =>
       /\ v \in pids /\ srv[v] \in DOMAIN servers /\ servers[srv[v]].busy = v
       /\ child[v] # "wait" => Clear(srv[v]) /\ box[v] \notin Alive
       /\ box[v] \in Alive => work[srv[v]] = v
ChildInv == \A v \in Vpids : ChildOk(v)

(* the execution server knows all that runs; a busy server is that of its vPID *)
RunInv ==
  /\ KilledIsDead
  /\ fs = "up" => \A s \in DOMAIN servers :
       servers[s].busy # None => servers[s].busy \in pids /\ srv[servers[s].busy] = s

ForkInv == ForkTypes /\ QueueTypes /\ QueueInv /\ ServerInv /\ ChildInv /\ RunInv

-----------------------------------------------------------------------------
(* The user side *)

IsAnswer(m) == m.k = "return"
Answers(q) == {i \in 1..Len(q) : IsAnswer(q[i])}

OwnerInv ==
  /\ \A t \in Threads :
       /\ user[t].pc = "spawn" => user[t].vp = None
       /\ user[t].pc \in {"canary", "send", "wait"} => user[t].vp # None
       /\ user[t].vp # None => user[t].vp < nextVpid
  /\ \A t, w \in Threads : user[t].vp # None /\ user[t].vp = user[w].vp => t = w
  /\ \A v \in Vpids : ~Held(v) => in[v] = None /\ out[v] = <<>>

(* a runner, the call in its process and what the process has said *)
PipeOk(u, call, q) ==
  /\ call # None => u.pc = "wait" /\ call = u.call /\ Answers(q) = {}
  /\ \A i \in Answers(q) : /\ u.pc = "wait" /\ q[i].call = u.call
                           /\ \A k \in Answers(q) : k = i
PipeInv ==
  \A t \in Threads : LET v == user[t].vp IN v # None => PipeOk(user[t], in[v], out[v])

UserInv == UserTypes /\ QueueTypes /\ OwnerInv /\ PipeInv

-----------------------------------------------------------------------------
(* Operators *)

(* A nonempty set of natural numbers has a least one. *)
LEMMA LeastNumber ==
  ASSUME NEW T, T \subseteq Nat, T # {}
  PROVE  \E x \in T : \A y \in T : x <= y
<1> DEFINE R == OpToRel(<, Nat)
<1>1. IsWellFoundedOn(R, Nat)
  BY NatLessThanWellFounded
<1>2. \A x, y \in Nat : y < x => <<y, x>> \in R
  BY DEF OpToRel
<1> HIDE DEF R
<1>3. PICK x \in T : \A y \in T : <<y, x>> \notin R
  BY <1>1, WFMin
<1>4. ASSUME NEW y \in T PROVE x <= y
  <2>1. x \in Nat /\ y \in Nat
    OBVIOUS
  <2>2. ~ (y < x)
    BY <1>2, <1>3, <2>1
  <2>3. QED BY <2>1, <2>2
<1>5. QED BY <1>4

(* Max takes a member of a nonempty set of vPIDs. *)
LEMMA MaxMember ==
  ASSUME NEW T, T \subseteq Vpids, T # {}
  PROVE  Max(T) \in T
<1> DEFINE D == {MaxVpid - x : x \in T}
<1>1. D \subseteq Nat /\ D # {}
  <2>1. \A x \in T : MaxVpid - x \in Nat
    BY ForkServerAssumption DEF Vpids
  <2>2. QED BY <2>1
<1>2. PICK d \in D : \A e \in D : d <= e
  <2> HIDE DEF D
  <2>1. QED BY <1>1, LeastNumber
<1>3. PICK m \in T : d = MaxVpid - m
  OBVIOUS
<1>4. \A y \in T : m >= y
  <2> TAKE y \in T
  <2>1. MaxVpid - y \in D /\ m \in Int /\ y \in Int /\ MaxVpid \in Int
    BY ForkServerAssumption DEF Vpids
  <2>2. QED BY <2>1, <1>2, <1>3
<1>5. QED BY <1>4 DEF Max

(* What is put at the end of a queue comes after what is there. *)
LEMMA AppendFacts ==
  ASSUME NEW S, NEW q \in Seq(S), NEW x \in S
  PROVE  /\ Append(q, x) \in Seq(S) /\ Len(Append(q, x)) = Len(q) + 1 /\ Len(q) \in Nat
         /\ \A i \in 1..Len(q) : Append(q, x)[i] = q[i]
         /\ Append(q, x)[Len(q) + 1] = x
OBVIOUS

(* What is taken from the front of a queue moves the rest up by one. *)
LEMMA TailFacts ==
  ASSUME NEW S, NEW q \in Seq(S), q # <<>>
  PROVE  /\ Tail(q) \in Seq(S) /\ Len(q) \in Nat /\ Len(q) >= 1 /\ Len(Tail(q)) = Len(q) - 1
         /\ Head(q) = q[1] /\ Head(q) \in S
         /\ \A i \in 1..Len(Tail(q)) : Tail(q)[i] = q[i + 1] /\ i + 1 \in 1..Len(q)
<1>1. Tail(q) \in Seq(S) /\ Len(q) \in Nat /\ Len(q) >= 1 /\ Len(Tail(q)) = Len(q) - 1
  OBVIOUS
<1>2. Head(q) = q[1] /\ Head(q) \in S
  OBVIOUS
<1>3. \A i \in 1..Len(Tail(q)) : Tail(q)[i] = q[i + 1] /\ i + 1 \in 1..Len(q)
  BY <1>1
<1>4. QED BY <1>1, <1>2, <1>3

(* A command for the execution server may be put in its queue or taken from it. *)
LEMMA CmdTypes ==
  ASSUME QueueTypes
  PROVE  /\ \A c \in Cmd : Append(cmds, c) \in Seq(Cmd)
         /\ cmds # <<>> => Tail(cmds) \in Seq(Cmd) /\ Head(cmds) \in Cmd
         /\ \A v \in Vpids : [op |-> "kill", v |-> v] \in Cmd
         /\ [op |-> "exit", v |-> None] \in Cmd
BY TailFacts, AppendFacts DEF QueueTypes, Cmd

-----------------------------------------------------------------------------
(* The user side *)

(* The pipe of a vPID is that of one thread at most. *)
LEMMA HeldFacts ==
  ASSUME UserTypes, NEW t \in Threads, user[t].vp # None
  PROVE  user[t].vp \in Vpids /\ Held(user[t].vp)
BY ForkServerAssumption DEF UserTypes, Runner, Pipe0, Vpids, None, Held

(* A step of a thread that keeps its process, or has none, and uses its pipe alone. *)
LEMMA UserTurns ==
  ASSUME UserInv, NEW t \in Threads, NEW u \in Runner, user' = [user EXCEPT ![t] = u],
         u.vp = user[t].vp, UNCHANGED <<main, cmds, nextVpid>>,
         u.pc = "spawn" => u.vp = None, u.pc \in {"canary", "send", "wait"} => u.vp # None,
         in' \in [Vpids -> Nat], out' \in [Vpids -> Seq(Msg)],
         \A v \in Vpids : v # u.vp => in'[v] = in[v] /\ out'[v] = out[v],
         u.vp # None => PipeOk(u, in'[u.vp], out'[u.vp])
  PROVE  UserInv'
<1> USE DEF UserInv
<1>1. /\ user' \in [Threads -> Runner] /\ user'[t] = u
      /\ \A w \in Threads \ {t} : user'[w] = user[w]
      /\ \A w \in Threads : user'[w].vp = user[w].vp
  BY DEF UserTypes
<1>2. UserTypes' /\ QueueTypes'
  BY <1>1 DEF UserTypes, QueueTypes
<1>3. \A v \in Vpids : Held(v)' <=> Held(v)
  BY <1>1 DEF Held
<1>4. OwnerInv'
  <2>1. \A v \in Vpids : ~Held(v)' => in'[v] = None /\ out'[v] = <<>>
    <3>1. ASSUME NEW v \in Vpids, ~Held(v)' PROVE in'[v] = None /\ out'[v] = <<>>
      <4>1. ~Held(v) /\ in[v] = None /\ out[v] = <<>>
        BY <1>3, <3>1 DEF OwnerInv
      <4>2. v # u.vp
        BY <3>1, <4>1 DEF Held
      <4>3. QED BY <4>1, <4>2
    <3>2. QED BY <3>1
  <2>2. QED BY <1>1, <2>1 DEF OwnerInv
<1>5. ASSUME NEW w \in Threads, user[w].vp # None
      PROVE  PipeOk(user'[w], in'[user[w].vp], out'[user[w].vp])
  <2>1. CASE w = t
    BY <2>1, <1>1, <1>5
  <2>2. CASE w # t
    <3>1. user[w].vp \in Vpids /\ user[w].vp # u.vp
      BY <2>2, <1>5, HeldFacts DEF OwnerInv
    <3>2. PipeOk(user[w], in[user[w].vp], out[user[w].vp])
      BY <1>5 DEF PipeInv
    <3>3. QED BY <2>2, <3>1, <3>2, <1>1
  <2>3. QED BY <2>1, <2>2
<1>6. PipeInv'
  BY <1>1, <1>5 DEF PipeInv
<1>7. QED BY <1>2, <1>4, <1>6

(* A step of a thread that gives its process up: its pipe is closed. *)
LEMMA UserDrops ==
  ASSUME UserInv, NEW t \in Threads, NEW u \in Runner, user' = [user EXCEPT ![t] = u],
         user[t].vp # None, u.vp = None, u.pc \in {"spawn", "rest"},
         in' = [in EXCEPT ![user[t].vp] = None], out' = [out EXCEPT ![user[t].vp] = <<>>],
         UNCHANGED <<main, nextVpid>>, cmds' \in Seq(Cmd)
  PROVE  UserInv'
<1> USE DEF UserInv
<1> DEFINE o == user[t].vp
<1>0. o \in Vpids
  BY HeldFacts
<1>1. /\ user' \in [Threads -> Runner] /\ user'[t] = u
      /\ \A w \in Threads \ {t} : user'[w] = user[w]
  BY DEF UserTypes
<1>2. /\ in' \in [Vpids -> Nat] /\ out' \in [Vpids -> Seq(Msg)]
      /\ in'[o] = None /\ out'[o] = <<>>
      /\ \A v \in Vpids \ {o} : in'[v] = in[v] /\ out'[v] = out[v]
  <2>1. <<>> \in Seq(Msg) /\ None \in Nat
    BY DEF None
  <2>2. QED BY <1>0, <2>1 DEF UserTypes
<1>3. UserTypes' /\ QueueTypes'
  BY <1>1, <1>2 DEF UserTypes, QueueTypes
<1>4. \A w \in Threads \ {t} : user[w].vp # None => user[w].vp \in Vpids \ {o}
  BY HeldFacts DEF OwnerInv
<1>5. OwnerInv'
  <2>1. ASSUME NEW v \in Vpids, ~Held(v)' PROVE in'[v] = None /\ out'[v] = <<>>
    <3>1. CASE v = o
      BY <3>1, <1>2
    <3>2. CASE v # o
      <4>1. ~Held(v)
        BY <2>1, <3>2, <1>1 DEF Held
      <4>2. QED BY <4>1, <3>2, <1>2 DEF OwnerInv
    <3>3. QED BY <3>1, <3>2
  <2>2. QED BY <1>1, <2>1 DEF OwnerInv
<1>6. ASSUME NEW w \in Threads, user'[w].vp # None
      PROVE  PipeOk(user'[w], in'[user'[w].vp], out'[user'[w].vp])
  <2>1. w # t
    BY <1>1, <1>6
  <2>2. user'[w] = user[w] /\ user[w].vp \in Vpids \ {o}
    BY <2>1, <1>1, <1>4, <1>6
  <2>3. QED BY <2>2, <1>2, <1>6 DEF PipeInv
<1>7. QED BY <1>3, <1>5, <1>6 DEF PipeInv

(* A step that puts one message in the pipe of a vPID somebody holds. *)
LEMMA UserPuts ==
  ASSUME UserInv, NEW v \in Vpids, NEW m \in Msg, Put(v, m),
         UNCHANGED <<main, user, nextVpid, cmds>>,
         \/ ~IsAnswer(m) /\ in' = in
         \/ m = Answer(in[v]) /\ in[v] # None /\ in' = [in EXCEPT ![v] = None]
  PROVE  UserInv'
<1> USE DEF UserInv
<1>1. \A x \in Vpids : Held(x)' <=> Held(x)
  BY DEF Held
<1>2. /\ in' \in [Vpids -> Nat] /\ \A x \in Vpids : x # v => in'[x] = in[x]
      /\ in'[v] = in[v] \/ in'[v] = None
  BY DEF UserTypes, None
<1>3. CASE ~Held(v)
  <2>1. out' = out
    BY <1>3 DEF Put
  <2>2. in' = in
    BY <1>3, <1>2 DEF OwnerInv, UserTypes
  <2>3. QED BY <2>1, <2>2, <1>1
    DEF UserTypes, QueueTypes, OwnerInv, PipeInv, Answers, IsAnswer
<1>4. CASE Held(v)
  <2>1. out' = [out EXCEPT ![v] = Append(out[v], m)] /\ out[v] \in Seq(Msg)
    BY <1>4 DEF Put, UserTypes
  <2>2. PICK t \in Threads : user[t].vp = v
    BY <1>4 DEF Held
  <2>3. v # None
    BY DEF Vpids, None
  <2>4. /\ out' \in [Vpids -> Seq(Msg)] /\ out'[v] = Append(out[v], m)
        /\ \A x \in Vpids : x # v => out'[x] = out[x]
    <3>1. Append(out[v], m) \in Seq(Msg)
      BY <2>1, AppendFacts
    <3>2. QED BY <3>1, <2>1 DEF UserTypes
  <2>5. UserTypes' /\ QueueTypes'
    BY <1>2, <2>4 DEF UserTypes, QueueTypes
  <2>6. OwnerInv'
    <3>1. \A x \in Vpids : ~Held(x)' => in'[x] = None /\ out'[x] = <<>>
      BY <1>1, <1>2, <1>4, <2>4 DEF OwnerInv
    <3>2. QED BY <3>1 DEF OwnerInv
  <2>7. ASSUME NEW i \in Answers(out'[v])
        PROVE  \/ i \in Answers(out[v]) /\ out'[v][i] = out[v][i]
               \/ i = Len(out[v]) + 1 /\ out'[v][i] = m /\ IsAnswer(m)
    BY <2>1, <2>4, AppendFacts DEF Answers
  <2>8. PipeInv'
    <3> SUFFICES ASSUME NEW w \in Threads, user[w].vp # None
                 PROVE  PipeOk(user[w], in'[user[w].vp], out'[user[w].vp])
      BY DEF PipeInv
    <3>0. PipeOk(user[w], in[user[w].vp], out[user[w].vp])
      BY DEF PipeInv
    <3>1. CASE user[w].vp # v
      <4>1. user[w].vp \in Vpids
        BY HeldFacts
      <4>2. QED BY <3>0, <3>1, <4>1, <1>2, <2>4
    <3>2. CASE user[w].vp = v /\ ~IsAnswer(m) /\ in' = in
      <4>1. \A i \in Answers(out'[v]) : i \in Answers(out[v]) /\ out'[v][i] = out[v][i]
        BY <2>7, <3>2
      <4>2. QED BY <4>1, <3>0, <3>2 DEF PipeOk
    <3>3. CASE user[w].vp = v /\ m = Answer(in[v]) /\ in[v] # None /\ in' = [in EXCEPT ![v] = None]
      <4>1. user[w].pc = "wait" /\ in[v] = user[w].call /\ Answers(out[v]) = {}
        BY <3>0, <3>3 DEF PipeOk
      <4>2. in'[v] = None /\ m.call = user[w].call
        BY <3>3, <4>1 DEF UserTypes, Answer
      <4>3. \A i \in Answers(out'[v]) : i = Len(out[v]) + 1 /\ out'[v][i] = m
        BY <2>7, <4>1
      <4>4. QED BY <4>1, <4>2, <4>3, <3>3 DEF PipeOk
    <3>4. QED BY <3>1, <3>2, <3>3
  <2>9. QED BY <2>5, <2>6, <2>8
<1>5. QED BY <1>3, <1>4

(* A step that reads the first message of the pipe a thread holds. *)
LEMMA TailAnswers ==
  ASSUME NEW q \in Seq(Msg), q # <<>>
  PROVE  /\ Tail(q) \in Seq(Msg)
         /\ \A i \in Answers(Tail(q)) : i + 1 \in Answers(q) /\ Tail(q)[i] = q[i + 1]
         /\ IsAnswer(Head(q)) => 1 \in Answers(q)
<1>1. /\ Tail(q) \in Seq(Msg) /\ Len(q) \in Nat /\ Len(q) >= 1 /\ Head(q) = q[1]
      /\ \A i \in 1..Len(Tail(q)) : Tail(q)[i] = q[i + 1] /\ i + 1 \in 1..Len(q)
  BY TailFacts
<1>2. QED BY <1>1 DEF Answers

(* No thread has a process at first, and the pipes are empty. *)
LEMMA InitUser == Init => UserInv
<1> SUFFICES ASSUME Init PROVE UserInv
  OBVIOUS
<1>1. UserTypes
  BY ForkServerAssumption DEF Init, UserTypes, NewUser, Runner, Pipe0, None
<1>2. QueueTypes
  BY ForkServerAssumption DEF Init, QueueTypes
<1>3. OwnerInv /\ PipeInv
  BY DEF Init, OwnerInv, PipeInv, NewUser, None
<1>4. QED BY <1>1, <1>2, <1>3 DEF UserInv

(* At rest, at its canary and before it sends, a process owes no answer. *)
LEMMA NothingOwed ==
  ASSUME UserInv, NEW t \in Threads, user[t].vp # None, user[t].pc # "wait"
  PROVE  in[user[t].vp] = None /\ Answers(out[user[t].vp]) = {}
<1>1. PipeOk(user[t], in[user[t].vp], out[user[t].vp])
  BY DEF UserInv, PipeInv
<1>2. QED BY <1>1 DEF PipeOk

(* Nothing is owed where no call is in and no answer is out. *)
LEMMA PipeEmpty == \A u, q : Answers(q) = {} => PipeOk(u, None, q)
BY DEF PipeOk

(* A runner that gives its process up has none. *)
Reset(u, p) == [u EXCEPT !.pc = p, !.vp = None, !.try = 0, !.spawned = FALSE]
(* A runner between two programs. *)
LEMMA RunnerReset ==
  ASSUME NEW u \in Runner, NEW p \in {"rest", "spawn", "canary", "send", "wait"}
  PROVE  Reset(u, p) \in Runner /\ Reset(u, p).pc = p /\ Reset(u, p).vp = None
<1> DEFINE n1 == [u EXCEPT !.pc = p]
           n2 == [n1 EXCEPT !.vp = None]
           n3 == [n2 EXCEPT !.try = 0]
           n4 == [n3 EXCEPT !.spawned = FALSE]
<1>1. Reset(u, p) = n4
  BY DEF Reset
<1>2. n1 \in Runner /\ n1.pc = p
  BY DEF Runner
<1> HIDE DEF n1
<1>3. n2 \in Runner /\ n2.vp = None /\ n2.pc = n1.pc
  BY <1>2, ForkServerAssumption DEF Runner, Pipe0, None
<1> HIDE DEF n2
<1>4. n3 \in Runner /\ n3.vp = n2.vp /\ n3.pc = n2.pc
  BY <1>3 DEF Runner
<1> HIDE DEF n3
<1>5. n4 \in Runner /\ n4.vp = n3.vp /\ n4.pc = n3.pc
  BY <1>4 DEF Runner
<1> HIDE DEF n4
<1>6. QED BY <1>1, <1>2, <1>3, <1>4, <1>5

(* The runner's step at the end of a call. *)
LEMMA CleanupUser ==
  ASSUME UserInv, NEW t \in Threads, user[t].pc \in {"send", "wait"}, Cleanup(t),
         UNCHANGED <<main, nextVpid>>
  PROVE  UserInv'
<1>1. user[t].vp # None /\ user[t].vp \in Vpids /\ user[t] \in Runner
  BY HeldFacts DEF UserInv, OwnerInv, UserTypes
<1>2. /\ CleanedUp(user[t]) \in Runner /\ CleanedUp(user[t]).vp = None
      /\ CleanedUp(user[t]).pc \in {"spawn", "rest"}
  <2> DEFINE p == IF user[t].spawned THEN "rest" ELSE "spawn"
  <2>1. p \in {"rest", "spawn"}
    OBVIOUS
  <2>2. CleanedUp(user[t]) = Reset(user[t], p)
    BY DEF CleanedUp, Reset
  <2> HIDE DEF p
  <2>3. QED BY <2>1, <2>2, <1>1, RunnerReset
<1>3. cmds' \in Seq(Cmd)
  BY <1>1, CmdTypes DEF Cleanup, Kill, UserInv
<1>4. user' = [user EXCEPT ![t] = CleanedUp(user[t])]
  BY DEF Cleanup
<1>5. QED BY <1>1, <1>2, <1>3, <1>4, UserDrops DEF Cleanup, Kill

(* A thread's step. *)
LEMMA ThreadUser ==
  ASSUME UserInv, NEW t \in Threads, User(t)
  PROVE  UserInv'
<1> USE DEF UserInv
<1> DEFINE u == user[t]
<1>0. /\ u \in Runner /\ (u.vp # None => u.vp \in Vpids)
      /\ in \in [Vpids -> Nat] /\ out \in [Vpids -> Seq(Msg)]
  BY HeldFacts DEF UserTypes
<1>1. CASE Call(t)
  <2> DEFINE n == [u EXCEPT !.call = u.call + 1, !.try = 0, !.spawned = (u.vp = None),
                            !.pc = IF u.vp = None THEN "spawn" ELSE "send"]
  <2>1. u.pc = "rest" /\ user' = [user EXCEPT ![t] = n] /\ UNCHANGED <<main, cmds, nextVpid, in, out>>
    BY <1>1 DEF Call
  <2>2. /\ n \in Runner /\ n.vp = u.vp
        /\ n.pc = IF u.vp = None THEN "spawn" ELSE "send"
    <3> DEFINE n1 == [u EXCEPT !.call = u.call + 1]
               n2 == [n1 EXCEPT !.try = 0]
               n3 == [n2 EXCEPT !.spawned = (u.vp = None)]
               p == IF u.vp = None THEN "spawn" ELSE "send"
    <3>1. n = [n3 EXCEPT !.pc = p] /\ p \in {"spawn", "send"} /\ u.call + 1 \in Nat
      BY <1>0 DEF Runner
    <3>2. n1 \in Runner /\ n1.vp = u.vp
      BY <1>0, <3>1 DEF Runner
    <3> HIDE DEF n1
    <3>3. n2 \in Runner /\ n2.vp = u.vp
      BY <3>2 DEF Runner
    <3> HIDE DEF n2
    <3>4. n3 \in Runner /\ n3.vp = u.vp
      BY <3>3 DEF Runner
    <3> HIDE DEF n, n3, p
    <3>5. n \in Runner /\ n.vp = u.vp /\ n.pc = p
      BY <3>1, <3>4 DEF Runner
    <3>6. QED BY <3>5 DEF p
  <2>3. u.vp # None => PipeOk(n, in[u.vp], out[u.vp])
    BY <2>1, NothingOwed, PipeEmpty
  <2> HIDE DEF n
  <2>4. QED BY <1>0, <2>1, <2>2, <2>3, UserTurns
<1>2. CASE Try(t)
  <2> DEFINE n == [u EXCEPT !.pc = "canary", !.vp = nextVpid, !.try = u.try + 1]
  <2>1. /\ u.pc = "spawn" /\ nextVpid <= MaxVpid /\ nextVpid' = nextVpid + 1
        /\ user' = [user EXCEPT ![t] = n] /\ UNCHANGED <<main, in, out>>
    BY <1>2 DEF Try
  <2>2. PICK x \in ExecutorsOf[t] :
          cmds' = Append(cmds, [op |-> "spawn", v |-> nextVpid, exec |-> x, lim |-> LimitsOf[t]])
    BY <1>2 DEF Try
  <2>3. nextVpid \in Vpids /\ nextVpid # None /\ u.vp = None /\ nextVpid' \in 1..(MaxVpid + 1)
    BY <2>1, ForkServerAssumption DEF QueueTypes, Vpids, None, OwnerInv
  <2>4. [op |-> "spawn", v |-> nextVpid, exec |-> x, lim |-> LimitsOf[t]] \in Cmd
    BY <2>2, <2>3, ForkServerAssumption DEF Cmd, Limits
  <2>5. QueueTypes'
    BY <2>2, <2>3, <2>4, CmdTypes DEF QueueTypes
  <2>6. n \in Runner /\ n.vp = nextVpid /\ n.pc = "canary"
    <3> DEFINE n1 == [u EXCEPT !.pc = "canary"]
               n2 == [n1 EXCEPT !.vp = nextVpid]
    <3>1. n = [n2 EXCEPT !.try = u.try + 1] /\ u.try + 1 \in Nat /\ nextVpid \in Pipe0
      BY <1>0, <2>3 DEF Runner, Pipe0, Vpids
    <3>2. n1 \in Runner /\ n1.pc = "canary"
      BY <1>0 DEF Runner
    <3> HIDE DEF n1
    <3>3. n2 \in Runner /\ n2.pc = "canary" /\ n2.vp = nextVpid
      BY <3>1, <3>2 DEF Runner
    <3> HIDE DEF n, n2
    <3>4. QED BY <3>1, <3>3 DEF Runner
  <2> HIDE DEF n
  <2>7. /\ user' \in [Threads -> Runner] /\ user'[t] = n
        /\ \A w \in Threads \ {t} : user'[w] = user[w]
    BY <2>1, <2>6 DEF UserTypes
  <2>8. UserTypes'
    BY <2>1, <2>7 DEF UserTypes
  <2>9. \A w \in Threads : user[w].vp # None => user[w].vp # nextVpid /\ user[w].vp \in Vpids
                                              /\ user[w].vp < nextVpid'
    BY <2>1, HeldFacts DEF OwnerInv, QueueTypes, Vpids
  <2>10. in[nextVpid] = None /\ out[nextVpid] = <<>>
    BY <2>3, <2>9 DEF OwnerInv, Held
  <2>11. OwnerInv'
    <3>1. \A v \in Vpids : ~Held(v)' => in'[v] = None /\ out'[v] = <<>>
      <4>1. ASSUME NEW v \in Vpids, ~Held(v)' PROVE ~Held(v)
        BY <4>1, <2>3, <2>7 DEF Held, Vpids, None
      <4>2. QED BY <4>1, <2>1 DEF OwnerInv
    <3>2. nextVpid < nextVpid'
      BY <2>1 DEF QueueTypes
    <3>3. ASSUME NEW w \in Threads
          PROVE  /\ user'[w].pc = "spawn" => user'[w].vp = None
                 /\ user'[w].pc \in {"canary", "send", "wait"} => user'[w].vp # None
                 /\ user'[w].vp # None => user'[w].vp < nextVpid'
      <4>1. CASE w = t
        BY <4>1, <2>3, <2>6, <2>7, <3>2
      <4>2. CASE w # t
        BY <4>2, <2>7, <2>9 DEF OwnerInv
      <4>3. QED BY <4>1, <4>2
    <3>4. \A w, z \in Threads : user'[w].vp # None /\ user'[w].vp = user'[z].vp => w = z
      BY <2>6, <2>7, <2>9 DEF OwnerInv
    <3>5. QED BY <3>1, <3>3, <3>4 DEF OwnerInv
  <2>12. ASSUME NEW w \in Threads, user'[w].vp # None
         PROVE  PipeOk(user'[w], in'[user'[w].vp], out'[user'[w].vp])
    <3>1. CASE w = t
      <4>1. Answers(<<>>) = {}
        BY DEF Answers
      <4>2. QED BY <3>1, <4>1, <2>1, <2>6, <2>7, <2>10, PipeEmpty
    <3>2. CASE w # t
      BY <3>2, <2>1, <2>7, <2>12 DEF PipeInv
    <3>3. QED BY <3>1, <3>2
  <2>13. QED BY <2>5, <2>8, <2>11, <2>12 DEF PipeInv
<1>3. CASE Chirp(t)
  <2>1. /\ u.pc = "canary" /\ out[u.vp] # <<>> /\ out' = [out EXCEPT ![u.vp] = Tail(out[u.vp])]
        /\ user' = [user EXCEPT ![t] = Spawned(u)] /\ UNCHANGED <<main, cmds, nextVpid, in>>
    BY <1>3 DEF Chirp
  <2>2. u.vp # None /\ u.vp \in Vpids
    BY <2>1, <1>0 DEF OwnerInv
  <2>3. in[u.vp] = None /\ Answers(out[u.vp]) = {}
    BY <2>1, <2>2, NothingOwed
  <2>4. Tail(out[u.vp]) \in Seq(Msg) /\ Answers(Tail(out[u.vp])) = {}
    BY <1>0, <2>1, <2>2, <2>3, TailAnswers
  <2>5. Spawned(u) \in Runner /\ Spawned(u).vp = u.vp /\ Spawned(u).pc \in {"send", "rest"}
    BY <1>0 DEF Spawned, Runner
  <2>6. /\ out' \in [Vpids -> Seq(Msg)] /\ out'[u.vp] = Tail(out[u.vp])
        /\ \A v \in Vpids : v # u.vp => out'[v] = out[v]
    BY <1>0, <2>1, <2>2, <2>4
  <2>7. PipeOk(Spawned(u), in'[u.vp], out'[u.vp])
    BY <2>1, <2>3, <2>4, <2>6, PipeEmpty
  <2>8. QED BY <1>0, <2>1, <2>2, <2>5, <2>6, <2>7, UserTurns
<1>4. CASE Retry(t)
  <2> DEFINE n == [u EXCEPT !.pc = "spawn", !.vp = None]
  <2>1. /\ u.pc = "canary" /\ Kill(u.vp) /\ user' = [user EXCEPT ![t] = n]
        /\ UNCHANGED <<main, nextVpid>>
    BY <1>4 DEF Retry
  <2>2. u.vp # None /\ u.vp \in Vpids
    BY <2>1, <1>0 DEF OwnerInv
  <2>3. n \in Runner /\ n.vp = None /\ n.pc = "spawn"
    <3> DEFINE n1 == [u EXCEPT !.pc = "spawn"]
    <3>1. n = [n1 EXCEPT !.vp = None] /\ None \in Pipe0
      BY ForkServerAssumption DEF Pipe0, None
    <3>2. n1 \in Runner /\ n1.pc = "spawn"
      BY <1>0 DEF Runner
    <3> HIDE DEF n, n1
    <3>3. QED BY <3>1, <3>2 DEF Runner
  <2>4. cmds' \in Seq(Cmd)
    BY <2>1, <2>2, CmdTypes DEF Kill
  <2> HIDE DEF n
  <2>5. QED BY <2>1, <2>2, <2>3, <2>4, UserDrops DEF Kill
<1>5. CASE GiveUp(t)
  <2>1. /\ u.pc = "spawn" /\ user' = [user EXCEPT ![t] = Raised(u)]
        /\ UNCHANGED <<main, cmds, nextVpid, in, out>> /\ u.vp = None
    BY <1>5 DEF GiveUp, OwnerInv
  <2>2. Raised(u) \in Runner /\ Raised(u).vp = None /\ Raised(u).pc = "rest"
    <3>1. Raised(u) = Reset(u, "rest")
      BY DEF Raised, Reset
    <3>2. QED BY <1>0, <3>1, RunnerReset
  <2>3. QED BY <1>0, <2>1, <2>2, UserTurns
<1>6. CASE SpawnEof(t)
  <2>1. /\ u.pc = "canary" /\ user' = [user EXCEPT ![t] = Raised(u)] /\ out[u.vp] = <<>>
        /\ UNCHANGED <<main, cmds, nextVpid, in, out>>
    BY <1>6 DEF SpawnEof
  <2>2. u.vp # None /\ u.vp \in Vpids
    BY <2>1, <1>0 DEF OwnerInv
  <2>3. Raised(u) \in Runner /\ Raised(u).vp = None /\ Raised(u).pc = "rest"
    <3>1. Raised(u) = Reset(u, "rest")
      BY DEF Raised, Reset
    <3>2. QED BY <1>0, <3>1, RunnerReset
  <2>4. in[u.vp] = None
    BY <2>1, <2>2, NothingOwed
  <2>5. in' = [in EXCEPT ![u.vp] = None] /\ out' = [out EXCEPT ![u.vp] = <<>>]
    BY <1>0, <2>1, <2>2, <2>4
  <2>6. QED BY <2>1, <2>2, <2>3, <2>5, UserDrops DEF QueueTypes
<1>7. CASE Send(t)
  <2>1. u.pc = "send" /\ UNCHANGED <<main, nextVpid>>
    BY <1>7 DEF Send
  <2>2. CASE Cleanup(t)
    BY <2>1, <2>2, CleanupUser
  <2>3. CASE /\ in' = [in EXCEPT ![u.vp] = u.call]
             /\ user' = [user EXCEPT ![t] = [u EXCEPT !.pc = "wait"]] /\ UNCHANGED <<cmds, out>>
    <3> DEFINE n == [u EXCEPT !.pc = "wait"]
    <3>1. u.vp # None /\ u.vp \in Vpids
      BY <2>1, <1>0 DEF OwnerInv
    <3>2. n \in Runner /\ n.vp = u.vp /\ n.pc = "wait" /\ n.call = u.call /\ u.call \in Nat
      BY <1>0 DEF Runner
    <3> HIDE DEF n
    <3>3. /\ in' \in [Vpids -> Nat] /\ in'[u.vp] = u.call
          /\ \A v \in Vpids : v # u.vp => in'[v] = in[v]
      BY <1>0, <2>3, <3>1, <3>2
    <3>4. PipeOk(n, in'[u.vp], out'[u.vp])
      <4>1. Answers(out[u.vp]) = {}
        BY <2>1, <3>1, NothingOwed
      <4>2. QED BY <4>1, <3>2, <3>3, <2>3 DEF PipeOk
    <3>5. user' = [user EXCEPT ![t] = n]
      BY <2>3 DEF n
    <3>6. /\ out' \in [Vpids -> Seq(Msg)] /\ UNCHANGED <<main, cmds, nextVpid>>
          /\ \A v \in Vpids : v # n.vp => in'[v] = in[v] /\ out'[v] = out[v]
          /\ n.vp # None => PipeOk(n, in'[n.vp], out'[n.vp])
      BY <1>0, <2>1, <2>3, <3>2, <3>3, <3>4
    <3>7. QED BY <3>1, <3>2, <3>3, <3>5, <3>6, UserTurns
  <2>4. QED BY <1>7, <2>2, <2>3 DEF Send
<1>8. CASE Receive(t)
  <2>1. u.pc = "wait" /\ out[u.vp] # <<>> /\ UNCHANGED <<main, nextVpid>>
    BY <1>8 DEF Receive
  <2>2. CASE Cleanup(t)
    BY <2>1, <2>2, CleanupUser
  <2>3. CASE /\ Head(out[u.vp]).k = "return"
             /\ out' = [out EXCEPT ![u.vp] = Tail(out[u.vp])]
             /\ user' = [user EXCEPT ![t] = [u EXCEPT !.pc = "rest"]] /\ UNCHANGED <<cmds, in>>
    <3> DEFINE n == [u EXCEPT !.pc = "rest"]
               q == out[u.vp]
    <3>1. u.vp # None /\ u.vp \in Vpids
      BY <2>1, <1>0 DEF OwnerInv
    <3>2. n \in Runner /\ n.vp = u.vp /\ n.pc = "rest"
      BY <1>0 DEF Runner
    <3> HIDE DEF n
    <3>3. PipeOk(u, in[u.vp], q)
      BY <3>1 DEF PipeInv
    <3>4. 1 \in Answers(q) /\ q \in Seq(Msg)
      BY <1>0, <2>1, <2>3, <3>1, TailAnswers DEF IsAnswer
    <3>5. in[u.vp] = None /\ \A i \in Answers(q) : i = 1
      BY <3>3, <3>4 DEF PipeOk
    <3>6. Tail(q) \in Seq(Msg) /\ Answers(Tail(q)) = {}
      <4>1. Tail(q) \in Seq(Msg) /\ \A i \in Answers(Tail(q)) : i + 1 \in Answers(q)
        BY <2>1, <3>4, TailAnswers
      <4>2. \A i \in Answers(Tail(q)) : i \in 1..Len(Tail(q))
        BY DEF Answers
      <4>3. QED BY <4>1, <4>2, <3>5
    <3>7. /\ out' \in [Vpids -> Seq(Msg)] /\ out'[u.vp] = Tail(q)
          /\ \A v \in Vpids : v # u.vp => out'[v] = out[v]
      BY <1>0, <2>3, <3>1, <3>6
    <3>8. PipeOk(n, in'[u.vp], out'[u.vp])
      BY <2>3, <3>5, <3>6, <3>7, PipeEmpty
    <3>9. user' = [user EXCEPT ![t] = n]
      BY <2>3 DEF n
    <3>10. /\ in' \in [Vpids -> Nat] /\ UNCHANGED <<main, cmds, nextVpid>>
           /\ \A v \in Vpids : v # n.vp => in'[v] = in[v] /\ out'[v] = out[v]
           /\ n.vp # None => PipeOk(n, in'[n.vp], out'[n.vp])
      BY <1>0, <2>1, <2>3, <3>2, <3>7, <3>8
    <3>11. QED BY <3>1, <3>2, <3>7, <3>9, <3>10, UserTurns
  <2>4. QED BY <1>8, <2>2, <2>3 DEF Receive
<1>9. CASE NoAnswer(t)
  BY <1>9, CleanupUser DEF NoAnswer
<1>10. QED BY <1>1, <1>2, <1>3, <1>4, <1>5, <1>6, <1>7, <1>8, <1>9 DEF User

(* Every step keeps the user side: the others put messages in the pipes held. *)
LEMMA NextUser ==
  ASSUME UserInv, [Next]_vars
  PROVE  UserInv'
<1> USE DEF UserInv
<1>1. CASE UNCHANGED vars
  BY <1>1 DEF vars, mainVars, UserTypes, QueueTypes, OwnerInv, Held, PipeInv
<1>2. ASSUME NEW t \in Threads, User(t) PROVE UserInv'
  BY <1>2, ThreadUser
<1>3. ASSUME UNCHANGED <<user, nextVpid, in, out>>, cmds' \in Seq(Cmd),
             main' \in {"up", "exit", "dead"}
      PROVE  UserInv'
  BY <1>3 DEF UserTypes, QueueTypes, OwnerInv, Held, PipeInv
<1>4. CASE Stop
  BY <1>4, <1>3, CmdTypes DEF Stop
<1>5. CASE Spawn \/ KillCmd
  <2>1. cmds # <<>> /\ cmds' = Tail(cmds) /\ UNCHANGED <<main, user, nextVpid, in, out>>
    BY <1>5 DEF Spawn, KillCmd, mainVars
  <2>2. QED BY <2>1, <1>3, CmdTypes DEF UserTypes
<1>6. CASE End
  BY <1>6, <1>3 DEF End, UserTypes
<1>7. ASSUME NEW v \in Vpids,
             \/ ChildStarts(v) \/ ChildFails(v) \/ ChildReads(v) \/ BoxEnds(v)
             \/ ServerTakes(v) \/ ServerResponds(v) \/ ServerDies(v)
      PROVE  UserInv'
  <2>1. UNCHANGED <<main, user, nextVpid, cmds, in, out>>
    BY <1>7 DEF ChildStarts, ChildFails, ChildReads, BoxEnds, ServerTakes, ServerResponds,
       ServerDies, mainVars
  <2>2. QED BY <2>1, <1>3 DEF QueueTypes, UserTypes
<1>8. ASSUME NEW v \in Vpids, ChildDone(v) \/ BoxChirps(v) \/ BoxAnswers(v)
      PROVE  UserInv'
  <2>1. UNCHANGED <<main, user, nextVpid, cmds>>
    BY <1>8 DEF ChildDone, BoxChirps, BoxAnswers, mainVars
  <2>2. CASE ChildDone(v) \/ BoxChirps(v)
    <3>1. DoneMsg \in Msg /\ Canary \in Msg /\ ~IsAnswer(DoneMsg) /\ ~IsAnswer(Canary)
      BY DEF DoneMsg, Canary, Msg, IsAnswer, None
    <3>2. in' = in /\ (Put(v, DoneMsg) \/ Put(v, Canary))
      BY <2>2 DEF ChildDone, BoxChirps
    <3>3. QED BY <2>1, <3>1, <3>2, UserPuts
  <2>3. CASE BoxAnswers(v)
    <3>1. Answer(in[v]) \in Msg
      BY DEF Answer, Msg, UserTypes
    <3>2. QED BY <2>1, <2>3, <3>1, UserPuts DEF BoxAnswers
  <2>4. QED BY <1>8, <2>2, <2>3
<1>9. QED BY <1>1, <1>2, <1>4, <1>5, <1>6, <1>7, <1>8 DEF Next

(* The only answer a thread can read is that of the call it waits for. *)
LEMMA AnswerFromInv == UserInv => AnswerOfCall
<1> SUFFICES ASSUME UserInv, NEW t \in Threads, user[t].vp # None,
                    NEW m \in Range(out[user[t].vp]), m.k = "return"
             PROVE  user[t].pc = "wait" /\ m.call = user[t].call
  BY DEF AnswerOfCall
<1>1. user[t].vp \in Vpids /\ out[user[t].vp] \in Seq(Msg)
  BY HeldFacts DEF UserInv, UserTypes
<1>2. PICK i \in 1..Len(out[user[t].vp]) : m = out[user[t].vp][i]
  BY <1>1 DEF Range
<1>3. i \in Answers(out[user[t].vp])
  BY <1>2 DEF Answers, IsAnswer
<1>4. PipeOk(user[t], in[user[t].vp], out[user[t].vp])
  BY DEF UserInv, PipeInv
<1>5. QED BY <1>2, <1>3, <1>4 DEF PipeOk

-----------------------------------------------------------------------------
(* The server side *)

forkSide == <<fsVars, child, said, box, srvVars>>

(* What a thread does to the command pipe: nothing, a kill, or a spawn of a new vPID. *)
LEMMA ThreadCmds ==
  ASSUME UserInv, NEW t \in Threads, User(t)
  PROVE  /\ UNCHANGED forkSide
         /\ \/ UNCHANGED <<cmds, nextVpid>>
            \/ \E c \in Cmd : /\ c.op # "spawn" /\ cmds' = Append(cmds, c) /\ nextVpid' = nextVpid
            \/ \E c \in Cmd : /\ c.op = "spawn" /\ c.v = nextVpid /\ cmds' = Append(cmds, c)
                              /\ nextVpid' = nextVpid + 1
<1> USE DEF UserInv
<1>1. UNCHANGED forkSide
  BY DEF User, Call, Try, Chirp, Retry, GiveUp, SpawnEof, Send, Receive, NoAnswer, forkSide
<1>2. ASSUME user[t].pc \in {"canary", "send", "wait"}, Kill(user[t].vp)
      PROVE  \E c \in Cmd : c.op # "spawn" /\ cmds' = Append(cmds, c)
  <2>1. user[t].vp \in Vpids
    BY <1>2, HeldFacts DEF OwnerInv
  <2> DEFINE c == [op |-> "kill", v |-> user[t].vp]
  <2>2. c \in Cmd /\ c.op # "spawn"
    BY <2>1, CmdTypes
  <2>3. QED BY <2>2, <1>2 DEF Kill
<1>3. CASE Call(t) \/ Chirp(t) \/ GiveUp(t) \/ SpawnEof(t)
  BY <1>1, <1>3 DEF Call, Chirp, GiveUp, SpawnEof
<1>4. CASE Retry(t) \/ Send(t) \/ Receive(t) \/ NoAnswer(t)
  BY <1>1, <1>2, <1>4 DEF Retry, Send, Receive, NoAnswer, Cleanup
<1>5. CASE Try(t)
  <2>1. PICK x \in ExecutorsOf[t] :
          cmds' = Append(cmds, [op |-> "spawn", v |-> nextVpid, exec |-> x, lim |-> LimitsOf[t]])
    BY <1>5 DEF Try
  <2>2. nextVpid \in Vpids /\ nextVpid' = nextVpid + 1
    BY <1>5, ForkServerAssumption DEF Try, QueueTypes, Vpids
  <2>3. [op |-> "spawn", v |-> nextVpid, exec |-> x, lim |-> LimitsOf[t]] \in Cmd
    BY <2>1, <2>2, ForkServerAssumption DEF Cmd, Limits
  <2>4. QED BY <1>1, <2>1, <2>2, <2>3
<1>6. QED BY <1>3, <1>4, <1>5 DEF User

(* A kill or an exit put in the queue, or the spawn of a new vPID, keeps it. *)
LEMMA QueueAppend ==
  ASSUME QueueTypes, QueueInv, UNCHANGED <<pids, servers>>, NEW c \in Cmd,
         cmds' = Append(cmds, c),
         \/ c.op # "spawn" /\ nextVpid' = nextVpid
         \/ c.op = "spawn" /\ c.v = nextVpid /\ nextVpid' = nextVpid + 1 /\ nextVpid \in Vpids
  PROVE  QueueTypes' /\ QueueInv'
<1>1. nextVpid \in Nat /\ nextVpid' \in 1..(MaxVpid + 1) /\ nextVpid <= nextVpid'
  BY ForkServerAssumption DEF QueueTypes, Vpids
<1>2. /\ cmds' \in Seq(Cmd) /\ Len(cmds') = Len(cmds) + 1 /\ Len(cmds) \in Nat
      /\ \A i \in 1..Len(cmds) : cmds'[i] = cmds[i]
      /\ cmds'[Len(cmds) + 1] = c
  BY AppendFacts DEF QueueTypes
<1>3. \A v : Fresh(v)' <=> Fresh(v)
  BY DEF Fresh
<1>9. \A k \in 1..Len(cmds') : k \in 1..Len(cmds) \/ k = Len(cmds) + 1
  BY <1>2
<1>4. \A v \in Vpids : v >= nextVpid' => Fresh(v)'
  BY <1>1, <1>3 DEF QueueInv, Vpids
<1>5. ASSUME NEW i \in 1..Len(cmds'), cmds'[i].op = "spawn"
      PROVE  /\ cmds'[i].v < nextVpid' /\ Fresh(cmds[i].v)'
             /\ \A k \in 1..Len(cmds') : cmds'[k].op = "spawn" /\ cmds'[k].v = cmds'[i].v => k = i
  <2>1. \A k \in 1..Len(cmds) : cmds[k].op = "spawn" =>
          cmds[k].v \in Vpids /\ cmds[k].v < nextVpid /\ Fresh(cmds[k].v)
    <3>1. \A x \in Cmd : x.op = "spawn" => x.v \in Vpids
      BY DEF Cmd
    <3>2. \A k \in 1..Len(cmds) : cmds[k] \in Cmd
      BY DEF QueueTypes
    <3>3. QED BY <3>1, <3>2 DEF QueueInv
  <2>2. CASE i \in 1..Len(cmds)
    <3>1. cmds'[i] = cmds[i] /\ cmds[i].v < nextVpid /\ cmds[i].v \in Vpids /\ Fresh(cmds[i].v)
      BY <2>1, <2>2, <1>2, <1>5
    <3>2. ASSUME NEW k \in 1..Len(cmds'), cmds'[k].op = "spawn", cmds'[k].v = cmds'[i].v
          PROVE  k = i
      <4>1. CASE k \in 1..Len(cmds)
        BY <4>1, <3>1, <3>2, <1>2, <1>5, <2>2 DEF QueueInv
      <4>2. CASE k = Len(cmds) + 1
        BY <4>2, <3>1, <3>2, <1>1, <1>2 DEF Vpids
      <4>3. QED BY <4>1, <4>2, <3>2, <1>9
    <3>3. QED BY <3>1, <3>2, <1>1, <1>3 DEF Vpids, Fresh
  <2>3. CASE i = Len(cmds) + 1
    <3>1. c.op = "spawn" /\ cmds'[i] = c /\ c.v = nextVpid /\ nextVpid \in Vpids
          /\ nextVpid' = nextVpid + 1
      BY <2>3, <1>2, <1>5
    <3>2. Fresh(nextVpid)
      BY <3>1, <1>1 DEF QueueInv
    <3>3. ASSUME NEW k \in 1..Len(cmds'), cmds'[k].op = "spawn", cmds'[k].v = cmds'[i].v
          PROVE  k = i
      <4>1. CASE k \in 1..Len(cmds)
        BY <4>1, <3>1, <3>3, <2>1, <1>1, <1>2 DEF Vpids
      <4>2. QED BY <4>1, <2>3, <3>3, <1>9
    <3>4. QED BY <3>1, <3>2, <3>3, <1>1 DEF Fresh
  <2>4. QED BY <2>2, <2>3, <1>5, <1>9
<1>6. QED BY <1>1, <1>2, <1>4, <1>5 DEF QueueTypes, QueueInv

(* What is taken from the front of the queue leaves the rest fresh. *)
LEMMA QueueTail ==
  ASSUME QueueTypes, QueueInv, cmds # <<>>, cmds' = Tail(cmds), nextVpid' = nextVpid,
         \A v \in Vpids : Fresh(v) =>
           Fresh(v)' \/ (Head(cmds).op = "spawn" /\ v = Head(cmds).v)
  PROVE  /\ QueueTypes' /\ QueueInv' /\ Head(cmds) \in Cmd
         /\ Head(cmds).op = "spawn" => Fresh(Head(cmds).v)
<1>1. /\ cmds' \in Seq(Cmd) /\ Len(cmds) \in Nat /\ Len(cmds) >= 1 /\ Len(cmds') = Len(cmds) - 1
      /\ Head(cmds) = cmds[1] /\ Head(cmds) \in Cmd
      /\ \A i \in 1..Len(cmds') : cmds'[i] = cmds[i + 1] /\ i + 1 \in 1..Len(cmds)
  BY TailFacts DEF QueueTypes
<1>2. \A k \in 1..Len(cmds) : cmds[k].op = "spawn" => cmds[k].v \in Vpids
  <2>1. \A x \in Cmd : x.op = "spawn" => x.v \in Vpids
    BY DEF Cmd
  <2>2. QED BY <2>1 DEF QueueTypes
<1>3. 1 \in 1..Len(cmds)
  BY <1>1
<1>4. ASSUME NEW v \in Vpids, v >= nextVpid PROVE Fresh(v)'
  <2>1. Fresh(v)
    BY <1>4 DEF QueueInv
  <2>2. Head(cmds).op = "spawn" => Head(cmds).v < nextVpid /\ Head(cmds).v \in Vpids
    BY <1>1, <1>2, <1>3 DEF QueueInv
  <2>3. QED BY <2>1, <2>2, <1>4 DEF QueueTypes, Vpids
<1>5. ASSUME NEW i \in 1..Len(cmds'), cmds'[i].op = "spawn"
      PROVE  /\ cmds'[i].v < nextVpid' /\ Fresh(cmds[i].v)'
             /\ \A k \in 1..Len(cmds') : cmds'[k].op = "spawn" /\ cmds'[k].v = cmds'[i].v => k = i
  <2>1. /\ i + 1 \in 1..Len(cmds) /\ cmds'[i] = cmds[i + 1] /\ i + 1 # 1
        /\ cmds[i + 1].v < nextVpid /\ Fresh(cmds[i + 1].v) /\ cmds[i + 1].v \in Vpids
    BY <1>1, <1>2, <1>5 DEF QueueInv
  <2>2. ~ (cmds[1].op = "spawn" /\ cmds[1].v = cmds[i + 1].v)
    BY <2>1, <1>1, <1>3, <1>5 DEF QueueInv
  <2>3. PICK x \in Vpids : x = cmds[i + 1].v /\ Fresh(x)
    BY <2>1
  <2>4. Fresh(x)'
    BY <2>2, <2>3, <1>1
  <2>5. \A k \in 1..Len(cmds') : cmds'[k].op = "spawn" /\ cmds'[k].v = cmds'[i].v => k = i
    <3> SUFFICES ASSUME NEW k \in 1..Len(cmds'), cmds'[k].op = "spawn", cmds'[k].v = cmds'[i].v
                 PROVE  k = i
      OBVIOUS
    <3>1. k + 1 \in 1..Len(cmds) /\ cmds'[k] = cmds[k + 1]
      BY <1>1
    <3>2. k + 1 = i + 1
      BY <3>1, <2>1, <1>5 DEF QueueInv
    <3>3. k \in Int /\ i \in Int
      BY <1>1
    <3>4. QED BY <3>2, <3>3
  <2>6. cmds'[i].v = x /\ x < nextVpid'
    BY <2>1, <2>3
  <2>7. Fresh(cmds[i].v)'
    BY <2>4, <2>6 DEF Fresh
  <2>8. QED BY <2>5, <2>6, <2>7
<1>6. Head(cmds).op = "spawn" => Fresh(Head(cmds).v)
  BY <1>1, <1>3 DEF QueueInv
<1>7. QED BY <1>1, <1>4, <1>5, <1>6 DEF QueueTypes, QueueInv

(* What runs is known to an execution server that is up. *)
LEMMA AliveFacts ==
  ASSUME ForkTypes, RunInv
  PROVE  /\ \A v \in Vpids : child[v] \notin {"none", "gone"} \/ box[v] \in Alive =>
              fs = "up" /\ v \in pids
         /\ \A s \in up : fs = "up" /\ s \in DOMAIN servers
BY DEF ForkTypes, RunInv, KilledIsDead, Dead

(* Nothing runs yet. *)
LEMMA InitFork == Init => ForkInv
<1> SUFFICES ASSUME Init PROVE ForkInv
  OBVIOUS
<1>0. DOMAIN servers = {} /\ None \in Pipe0 /\ None \notin Vpids
  BY ForkServerAssumption DEF Init, Pipe0, None, Vpids
<1>1. ForkTypes
  BY <1>0 DEF Init, ForkTypes
<1>2. QueueTypes /\ QueueInv
  BY <1>0, ForkServerAssumption DEF Init, QueueTypes, QueueInv, Fresh
<1>3. ServerInv /\ ChildInv
  BY <1>0 DEF Init, ServerInv, ServerOk, ChildInv, ChildOk
<1>4. RunInv
  BY <1>0 DEF Init, RunInv, KilledIsDead, Dead, Alive
<1>5. QED BY <1>1, <1>2, <1>3, <1>4 DEF ForkInv

(* A step that leaves the queue, the vPIDs and the servers known keeps the queue. *)
LEMMA QueueSame ==
  ASSUME QueueTypes, QueueInv, UNCHANGED <<cmds, nextVpid, pids, servers>>
  PROVE  QueueTypes' /\ QueueInv'
BY DEF QueueTypes, QueueInv, Fresh

(* A step of nobody there. *)
LEMMA ForkSame ==
  ASSUME ForkInv, UNCHANGED forkSide, QueueTypes' /\ QueueInv'
  PROVE  ForkInv'
BY DEF ForkInv, forkSide, fsVars, srvVars, ForkTypes, ServerInv, ServerOk, Clear, ChildInv, ChildOk,
   RunInv, KilledIsDead, Dead

(* The server of a vPID is its alone: the servers of two vPIDs differ. *)
LEMMA ServersDiffer ==
  ASSUME ForkInv, NEW v \in Vpids, NEW w \in Vpids, v # w, srv[v] # None
  PROVE  srv[v] # srv[w]
BY DEF ForkInv, ChildInv, ChildOk

(* What a bwrap fork server does is for the child it was given to. *)
LEMMA ServedChild ==
  ASSUME ForkInv, NEW s \in Vpids, NEW x \in {sock[s], work[s], resp[s]}, x # None, fs = "up"
  PROVE  /\ x \in Vpids /\ x \in pids /\ srv[x] = s /\ child[x] = "wait"
         /\ s \in DOMAIN servers /\ servers[s].busy = x
<1>1. s \in DOMAIN servers /\ servers[s].busy = x
  BY DEF ForkInv, ServerInv, ServerOk
<1>2. x \in pids /\ srv[x] = s
  BY <1>1 DEF ForkInv, RunInv
<1>3. x \in Vpids /\ s # None
  BY <1>2 DEF ForkInv, ForkTypes, Vpids, None
<1>4. ~ Clear(s)
  BY DEF Clear
<1>5. QED BY <1>1, <1>2, <1>3, <1>4 DEF ForkInv, ChildInv, ChildOk

(* A child starts its command, or gives it to its server. *)
LEMMA ChildStartsFork ==
  ASSUME ForkInv, NEW v \in Vpids, ChildStarts(v)
  PROVE  ForkInv'
<1> USE DEF ForkInv
<1>0. /\ child[v] = "boot" /\ fs = "up" /\ v \in pids /\ v \notin said
      /\ UNCHANGED <<cmds, nextVpid, fs, pids, servers, srv, said, up, work, resp>>
      /\ child' = [child EXCEPT ![v] = "wait"]
  BY AliveFacts DEF ChildStarts, fsVars, mainVars, ChildInv, ChildOk
<1>1. QueueTypes' /\ QueueInv'
  BY <1>0, QueueSame
<1>2. /\ child'[v] = "wait" /\ \A w \in Vpids : w # v => child'[w] = child[w]
      /\ child' \in [Vpids -> {"none", "boot", "wait", "said", "gone"}]
  BY <1>0 DEF ForkTypes
<1>3. CASE srv[v] = None
  <2>1. /\ sock' = sock /\ box'[v] = "boot" /\ \A w \in Vpids : w # v => box'[w] = box[w]
        /\ box' \in [Vpids -> {"none", "boot", "up", "dead"}]
    BY <1>3 DEF ChildStarts, ForkTypes
  <2>2. ForkTypes'
    BY <1>0, <1>2, <2>1 DEF ForkTypes
  <2>3. ServerInv'
    BY <1>0, <2>1 DEF ServerInv, ServerOk
  <2>4. ChildInv'
    BY <1>0, <1>2, <1>3, <2>1 DEF ChildInv, ChildOk, Clear
  <2>5. RunInv'
    BY <1>0, <1>2, <2>1 DEF RunInv, KilledIsDead, Dead
  <2>6. QED BY <1>1, <2>2, <2>3, <2>4, <2>5
<1>4. CASE srv[v] # None
  <2> DEFINE s == srv[v]
  <2>1. /\ s \in up /\ sock' = [sock EXCEPT ![s] = v] /\ box' = box /\ s \in Vpids
    BY <1>4 DEF ChildStarts, ForkTypes
  <2>2. /\ sock' \in [Vpids -> Pipe0] /\ sock'[s] = v
        /\ \A x \in Vpids : x # s => sock'[x] = sock[x]
    BY <2>1 DEF ForkTypes, Vpids, Pipe0
  <2>3. Clear(s) /\ s \in DOMAIN servers /\ servers[s].busy = v /\ box[v] \notin Alive
    BY <1>0, <1>4 DEF ChildInv, ChildOk
  <2>4. ForkTypes'
    BY <1>0, <1>2, <2>1, <2>2 DEF ForkTypes
  <2>5. ServerInv'
    BY <1>0, <2>1, <2>2, <2>3 DEF ServerInv, ServerOk, Clear
  <2>6. ChildInv'
    <3>1. ASSUME NEW w \in Vpids, w # v PROVE ChildOk(w)'
      <4>1. srv[w] # s /\ (srv[w] # None => srv[w] \in Vpids)
        BY <3>1, <1>4, ServersDiffer DEF ForkTypes, ChildInv, ChildOk
      <4>2. QED BY <4>1, <3>1, <1>0, <1>2, <2>1, <2>2 DEF ChildInv, ChildOk, Clear
    <3>2. ChildOk(v)'
      BY <1>0, <1>2, <2>1, <2>3 DEF ChildInv, ChildOk
    <3>3. QED BY <3>1, <3>2 DEF ChildInv
  <2>7. RunInv'
    BY <1>0, <1>2, <2>1 DEF RunInv, KilledIsDead, Dead
  <2>8. QED BY <1>1, <2>4, <2>5, <2>6, <2>7
<1>5. QED BY <1>3, <1>4

(* A child ends without a word, or after its last message. *)
LEMMA ChildEndsFork ==
  ASSUME ForkInv, NEW v \in Vpids, ChildFails(v) \/ ChildDone(v)
  PROVE  ForkInv'
<1> USE DEF ForkInv
<1>1. /\ UNCHANGED <<cmds, nextVpid, fs, pids, servers, srv, said, box, up, sock, work, resp>>
      /\ child' = [child EXCEPT ![v] = "gone"]
  BY DEF ChildFails, ChildDone, fsVars, srvVars, mainVars
<1>2. srv[v] # None => Clear(srv[v]) /\ box[v] \notin Alive
  <2>1. CASE child[v] # "wait"
    BY <2>1 DEF ChildInv, ChildOk
  <2>2. CASE child[v] = "wait" /\ srv[v] # None
    <3>1. srv[v] \notin up /\ resp[srv[v]] = None /\ srv[v] \in Vpids
      BY <2>2 DEF ChildFails, ChildDone, ForkTypes, ChildInv, ChildOk
    <3>2. QED BY <3>1, <2>2 DEF ServerInv, ServerOk, Clear, ChildInv, ChildOk, None, Vpids
  <2>3. QED BY <2>1, <2>2
<1>3. QueueTypes' /\ QueueInv'
  BY <1>1, QueueSame
<1>4. ForkTypes'
  BY <1>1 DEF ForkTypes
<1>5. ServerInv'
  BY <1>1 DEF ServerInv, ServerOk
<1>6. ChildInv'
  BY <1>1, <1>2 DEF ChildInv, ChildOk, Clear, ForkTypes
<1>7. RunInv'
  BY <1>1 DEF RunInv, KilledIsDead, Dead, ForkTypes
<1>8. QED BY <1>3, <1>4, <1>5, <1>6, <1>7

(* A child reads the response to its command. *)
LEMMA ChildReadsFork ==
  ASSUME ForkInv, NEW v \in Vpids, ChildReads(v)
  PROVE  ForkInv'
<1> USE DEF ForkInv
<1> DEFINE s == srv[v]
<1>1. /\ UNCHANGED <<cmds, nextVpid, fs, pids, servers, srv, box, up, sock, work>>
      /\ child[v] = "wait" /\ s # None /\ resp[s] # None
      /\ resp' = [resp EXCEPT ![s] = None] /\ said' = said \union {v}
      /\ child' = [child EXCEPT ![v] = "said"]
  BY DEF ChildReads, fsVars, mainVars
<1>2. s \in Vpids /\ v \in pids /\ fs = "up" /\ servers[s].busy = v
  BY <1>1, AliveFacts DEF ForkTypes, ChildInv, ChildOk
<1>3. sock[s] = None /\ work[s] = None /\ box[v] \notin Alive
  BY <1>1, <1>2 DEF ServerInv, ServerOk, ChildInv, ChildOk, Vpids, None
<1>4. /\ resp' \in [Vpids -> Pipe0] /\ resp'[s] = None
      /\ \A x \in Vpids : x # s => resp'[x] = resp[x]
  <2>1. None \in Pipe0
    BY ForkServerAssumption DEF None, Pipe0
  <2>2. QED BY <1>1, <1>2, <2>1 DEF ForkTypes
<1>5. /\ child'[v] = "said" /\ \A w \in Vpids : w # v => child'[w] = child[w]
      /\ child' \in [Vpids -> {"none", "boot", "wait", "said", "gone"}]
  BY <1>1 DEF ForkTypes
<1>6. QueueTypes' /\ QueueInv'
  BY <1>1, QueueSame
<1>7. ForkTypes'
  BY <1>1, <1>4, <1>5 DEF ForkTypes
<1>8. ServerInv'
  BY <1>1, <1>3, <1>4 DEF ServerInv, ServerOk
<1>9. ChildInv'
  <2>1. ASSUME NEW w \in Vpids, w # v PROVE ChildOk(w)'
    <3>1. srv[w] # s /\ (srv[w] # None => srv[w] \in Vpids)
      BY <2>1, <1>1, ServersDiffer DEF ForkTypes, ChildInv, ChildOk
    <3>2. QED BY <3>1, <2>1, <1>1, <1>4, <1>5 DEF ChildInv, ChildOk, Clear
  <2>2. ChildOk(v)'
    BY <1>1, <1>2, <1>3, <1>4, <1>5 DEF ChildInv, ChildOk, Clear
  <2>3. QED BY <2>1, <2>2 DEF ChildInv
<1>10. RunInv'
  BY <1>1, <1>2, <1>5 DEF RunInv, KilledIsDead, Dead
<1>11. QED BY <1>6, <1>7, <1>8, <1>9, <1>10

(* A command comes up, or ends. *)
LEMMA BoxFork ==
  ASSUME ForkInv, NEW v \in Vpids, BoxChirps(v) \/ BoxEnds(v)
  PROVE  ForkInv'
<1> USE DEF ForkInv
<1>1. /\ UNCHANGED <<cmds, nextVpid, fs, pids, servers, srv, said, child, up, sock, work, resp>>
      /\ \A w \in Vpids : box'[w] \in Alive => box[w] \in Alive
      /\ box' \in [Vpids -> {"none", "boot", "up", "dead"}]
  <2>1. UNCHANGED <<cmds, nextVpid, fs, pids, servers, srv, said, child, up, sock, work, resp>>
    BY DEF BoxChirps, BoxEnds, fsVars, srvVars, mainVars
  <2>2. box[v] \in Alive /\ (box' = [box EXCEPT ![v] = "up"] \/ box' = [box EXCEPT ![v] = "dead"])
    BY DEF BoxChirps, BoxEnds, Alive
  <2>3. QED BY <2>1, <2>2 DEF ForkTypes
<1>2. QueueTypes' /\ QueueInv'
  BY <1>1, QueueSame
<1>3. ForkTypes'
  BY <1>1 DEF ForkTypes
<1>4. ServerInv'
  BY <1>1 DEF ServerInv, ServerOk
<1>5. ChildInv'
  BY <1>1 DEF ChildInv, ChildOk, Clear
<1>6. RunInv'
  BY <1>1 DEF RunInv, KilledIsDead, Dead
<1>7. QED BY <1>2, <1>3, <1>4, <1>5, <1>6

(* A bwrap fork server takes its command. *)
LEMMA ServerTakesFork ==
  ASSUME ForkInv, NEW s \in Vpids, ServerTakes(s)
  PROVE  ForkInv'
<1> USE DEF ForkInv
<1> DEFINE x == sock[s]
<1>1. /\ UNCHANGED <<cmds, nextVpid, fs, pids, servers, srv, said, child, up, resp>>
      /\ s \in up /\ work[s] = None /\ x # None
      /\ work' = [work EXCEPT ![s] = x] /\ sock' = [sock EXCEPT ![s] = None]
      /\ box' = [box EXCEPT ![x] = "boot"]
  BY DEF ServerTakes, fsVars, mainVars
<1>2. /\ x \in Vpids /\ x \in pids /\ srv[x] = s /\ child[x] = "wait" /\ fs = "up"
      /\ s \in DOMAIN servers /\ servers[s].busy = x
  <2>1. fs = "up"
    BY <1>1, AliveFacts
  <2>2. QED BY <1>1, <2>1, ServedChild
<1>3. /\ work' \in [Vpids -> Pipe0] /\ work'[s] = x /\ sock' \in [Vpids -> Pipe0] /\ sock'[s] = None
      /\ \A y \in Vpids : y # s => work'[y] = work[y] /\ sock'[y] = sock[y]
  <2>1. None \in Pipe0 /\ x \in Pipe0
    BY ForkServerAssumption DEF None, Pipe0, ForkTypes
  <2>2. QED BY <1>1, <2>1 DEF ForkTypes
<1>4. /\ box' \in [Vpids -> {"none", "boot", "up", "dead"}]
      /\ \A w \in Vpids : w # x => box'[w] = box[w]
  BY <1>1, <1>2 DEF ForkTypes
<1>5. resp[s] = None
  BY <1>1 DEF ServerInv, ServerOk
<1>6. QueueTypes' /\ QueueInv'
  BY <1>1, QueueSame
<1>7. ForkTypes'
  BY <1>1, <1>3, <1>4 DEF ForkTypes
<1>8. ServerInv'
  BY <1>1, <1>2, <1>3, <1>5 DEF ServerInv, ServerOk
<1>9. ChildInv'
  <2>1. ASSUME NEW w \in Vpids, w # x PROVE ChildOk(w)'
    <3>1. srv[w] # s /\ (srv[w] # None => srv[w] \in Vpids)
      BY <2>1, <1>2, ServersDiffer DEF ForkTypes, ChildInv, ChildOk, Vpids, None
    <3>2. QED BY <3>1, <2>1, <1>1, <1>3, <1>4 DEF ChildInv, ChildOk, Clear
  <2>2. ASSUME NEW w \in Vpids, w = x PROVE ChildOk(w)'
    BY <2>2, <1>1, <1>2, <1>3 DEF ChildInv, ChildOk
  <2>3. QED BY <2>1, <2>2 DEF ChildInv
<1>10. RunInv'
  BY <1>1, <1>2, <1>4 DEF RunInv, KilledIsDead, Dead
<1>11. QED BY <1>6, <1>7, <1>8, <1>9, <1>10

(* A bwrap fork server answers a command that ended. *)
LEMMA ServerRespondsFork ==
  ASSUME ForkInv, NEW s \in Vpids, ServerResponds(s)
  PROVE  ForkInv'
<1> USE DEF ForkInv
<1> DEFINE x == work[s]
<1>1. /\ UNCHANGED <<cmds, nextVpid, fs, pids, servers, srv, said, child, box, up, sock>>
      /\ s \in up /\ x # None /\ box[x] = "dead"
      /\ work' = [work EXCEPT ![s] = None] /\ resp' = [resp EXCEPT ![s] = x]
  BY DEF ServerResponds, fsVars, mainVars
<1>2. /\ x \in Vpids /\ x \in pids /\ srv[x] = s /\ child[x] = "wait" /\ fs = "up"
      /\ s \in DOMAIN servers /\ servers[s].busy = x
  <2>1. fs = "up"
    BY <1>1, AliveFacts
  <2>2. QED BY <1>1, <2>1, ServedChild
<1>3. /\ work' \in [Vpids -> Pipe0] /\ work'[s] = None /\ resp' \in [Vpids -> Pipe0] /\ resp'[s] = x
      /\ \A y \in Vpids : y # s => work'[y] = work[y] /\ resp'[y] = resp[y]
  <2>1. None \in Pipe0 /\ x \in Pipe0
    BY ForkServerAssumption DEF None, Pipe0, ForkTypes
  <2>2. QED BY <1>1, <2>1 DEF ForkTypes
<1>4. sock[s] = None /\ box[x] \notin Alive
  BY <1>1 DEF ServerInv, ServerOk, Alive
<1>5. QueueTypes' /\ QueueInv'
  BY <1>1, QueueSame
<1>6. ForkTypes'
  BY <1>1, <1>3 DEF ForkTypes
<1>7. ServerInv'
  BY <1>1, <1>2, <1>3, <1>4 DEF ServerInv, ServerOk
<1>8. ChildInv'
  <2>1. ASSUME NEW w \in Vpids, w # x PROVE ChildOk(w)'
    <3>1. srv[w] # s /\ (srv[w] # None => srv[w] \in Vpids)
      BY <2>1, <1>2, ServersDiffer DEF ForkTypes, ChildInv, ChildOk, Vpids, None
    <3>2. QED BY <3>1, <2>1, <1>1, <1>3 DEF ChildInv, ChildOk, Clear
  <2>2. ASSUME NEW w \in Vpids, w = x PROVE ChildOk(w)'
    BY <2>2, <1>1, <1>2, <1>4 DEF ChildInv, ChildOk
  <2>3. QED BY <2>1, <2>2 DEF ChildInv
<1>9. RunInv'
  BY <1>1 DEF RunInv, KilledIsDead, Dead
<1>10. QED BY <1>5, <1>6, <1>7, <1>8, <1>9

(* A bwrap fork server dies with its command. *)
LEMMA ServerDiesFork ==
  ASSUME ForkInv, NEW s \in Vpids, ServerDies(s)
  PROVE  ForkInv'
<1> USE DEF ForkInv
<1>1. /\ UNCHANGED <<cmds, nextVpid, fs, pids, servers, srv, said, child, resp>>
      /\ s \in up /\ up' = up \ {s}
  BY DEF ServerDies, fsVars, mainVars
<1>2. /\ box' \in [Vpids -> {"none", "boot", "up", "dead"}]
      /\ \A w \in Vpids : box'[w] \in Alive => box[w] \in Alive /\ work[s] # w
  <2>1. "dead" \notin Alive
    BY DEF Alive
  <2>2. QED BY <2>1 DEF ServerDies, ForkTypes
<1>3. /\ work' \in [Vpids -> Pipe0] /\ work'[s] = None /\ sock' \in [Vpids -> Pipe0] /\ sock'[s] = None
      /\ \A y \in Vpids : y # s => work'[y] = work[y] /\ sock'[y] = sock[y]
  <2>1. None \in Pipe0
    BY ForkServerAssumption DEF None, Pipe0
  <2>2. QED BY <2>1 DEF ForkTypes, ServerDies, Lost
<1>4. QueueTypes' /\ QueueInv'
  BY <1>1, QueueSame
<1>5. ForkTypes'
  BY <1>1, <1>2, <1>3 DEF ForkTypes
<1>6. ServerInv'
  BY <1>1, <1>3 DEF ServerInv, ServerOk
<1>7. ChildInv'
  <2>1. ASSUME NEW w \in Vpids PROVE ChildOk(w)'
    <3>1. srv[w] # None => srv[w] \in Vpids
      BY DEF ForkTypes, ChildInv, ChildOk
    <3>2. QED BY <3>1, <1>1, <1>2, <1>3 DEF ChildInv, ChildOk, Clear
  <2>2. QED BY <2>1 DEF ChildInv
<1>8. RunInv'
  BY <1>1, <1>2 DEF RunInv, KilledIsDead, Dead
<1>9. QED BY <1>4, <1>5, <1>6, <1>7, <1>8

(* The execution server forks the child of a new vPID, with an idle bwrap  *)
(* fork server or a new one if the executor asks for one.                  *)
LEMMA SpawnFork ==
  ASSUME ForkInv, Spawn
  PROVE  ForkInv'
<1> USE DEF ForkInv
<1>1. PICK c \in Cmd : c = Head(cmds) /\ c.op = "spawn" /\ cmds # <<>> /\ cmds' = Tail(cmds)
  BY CmdTypes DEF Spawn
<1>2. c.v \in Vpids /\ c.lim \in Limits
  BY <1>1 DEF Cmd
<1>3. PICK v \in Vpids : v = c.v
  BY <1>2
<1>4. PICK s : s = Chosen(c)
  OBVIOUS
<1>5. /\ fs = "up" /\ UNCHANGED <<nextVpid, fs, said, box, sock, work, resp>>
      /\ srv' = [srv EXCEPT ![v] = s] /\ pids' = pids \union {v}
      /\ child' = [child EXCEPT ![v] = "boot"]
      /\ servers' = IF s = None THEN servers
                    ELSE IF s \in DOMAIN servers THEN [servers EXCEPT ![s].busy = v]
                    ELSE [x \in DOMAIN servers \union {s} |->
                            IF x = s THEN [busy |-> v, done |-> 0, lim |-> c.lim]
                            ELSE servers[x]]
      /\ up' = IF s = v THEN up \union {s} ELSE up
  BY <1>1, <1>3, <1>4 DEF Spawn, mainVars
<1>6. \/ s = None
      \/ s \in DOMAIN servers /\ servers[s].busy = None
      \/ s = v
  <2>1. Idle(c.lim) \subseteq Vpids
    BY DEF Idle, ForkTypes
  <2>2. Idle(c.lim) # {} => Max(Idle(c.lim)) \in Idle(c.lim)
    BY <2>1, MaxMember
  <2>3. QED BY <2>2, <1>3, <1>4 DEF Chosen, Idle
<1>7. v # None /\ v \in Pipe0 /\ s \in Pipe0 /\ (s # None => s \in Vpids)
  <2>1. MaxVpid \in Nat /\ DOMAIN servers \subseteq Vpids
    BY ForkServerAssumption DEF ForkTypes
  <2>2. s = None \/ s \in Vpids
    BY <1>6, <2>1
  <2>3. Pipe0 = Vpids \union {None} /\ v # None
    BY <2>1 DEF Vpids, None, Pipe0
  <2>. QED BY <2>2, <2>3
<1>8. DOMAIN servers' \subseteq DOMAIN servers \union {v} /\ DOMAIN servers \subseteq DOMAIN servers'
  BY <1>5, <1>6
<1>9. QueueTypes' /\ QueueInv' /\ v \notin pids /\ v \notin DOMAIN servers
  <2>1. \A w \in Vpids : Fresh(w) => Fresh(w)' \/ w = v
    BY <1>5, <1>8 DEF Fresh
  <2>2. \A w \in Vpids : Fresh(w) =>
          Fresh(w)' \/ (Head(cmds).op = "spawn" /\ w = Head(cmds).v)
    BY <2>1, <1>1, <1>3
  <2>3. nextVpid' = nextVpid
    BY <1>5
  <2>4. Fresh(v)
    BY <1>1, <1>3, <2>2, <2>3, QueueTail
  <2>5. QueueTypes' /\ QueueInv'
    BY <1>1, <2>2, <2>3, QueueTail
  <2>6. QED BY <2>4, <2>5 DEF Fresh
<1>10. srv[v] = None /\ v \notin said /\ box[v] \notin Alive /\ v \notin up /\ Clear(v)
  BY <1>5, <1>9 DEF ChildInv, ChildOk, RunInv, KilledIsDead, Dead, ServerInv, ServerOk, Clear
<1>11. s # None => /\ s \in DOMAIN servers' /\ servers'[s].busy = v /\ servers'[s] \in Server
                   /\ Clear(s)
  <2>1. CASE s \in DOMAIN servers /\ servers[s].busy = None
    <3>1. servers' = [servers EXCEPT ![s] = [@ EXCEPT !.busy = v]] /\ servers[s] \in Server
      BY <2>1, <1>5, <1>7 DEF ForkTypes, Vpids, None
    <3>2. servers'[s] = [servers[s] EXCEPT !.busy = v] /\ DOMAIN servers' = DOMAIN servers
      BY <3>1, <2>1
    <3>3. servers'[s].busy = v /\ servers'[s] \in Server
      BY <3>1, <3>2, <1>7 DEF Server
    <3>4. Clear(s)
      BY <2>1, <1>7 DEF ServerInv, ServerOk, Clear, ForkTypes
    <3>5. QED BY <2>1, <3>2, <3>3, <3>4
  <2>2. CASE s = v
    <3>1. s \in DOMAIN servers' /\ servers'[s] = [busy |-> v, done |-> 0, lim |-> c.lim]
      BY <2>2, <1>5, <1>7, <1>9
    <3>2. QED BY <3>1, <1>2, <1>7, <1>10, <2>2 DEF Server
  <2>3. QED BY <1>6, <2>1, <2>2
<1>12. \A x \in DOMAIN servers : x # s => servers'[x] = servers[x]
  BY <1>5, <1>9
<1>13. \A x \in DOMAIN servers' : x = s \/ x \in DOMAIN servers
  BY <1>5
<1>14. /\ srv' \in [Vpids -> Pipe0] /\ srv'[v] = s
       /\ child' \in [Vpids -> {"none", "boot", "wait", "said", "gone"}] /\ child'[v] = "boot"
       /\ \A w \in Vpids : w # v => srv'[w] = srv[w] /\ child'[w] = child[w]
  BY <1>5, <1>7 DEF ForkTypes
<1>15. \A w \in Vpids : srv[w] # None => srv[w] # s /\ srv[w] \in DOMAIN servers
  BY <1>6, <1>9, <1>7 DEF ChildInv, ChildOk, Vpids, None
<1>16. ForkTypes'
  <2>1. ASSUME NEW x \in DOMAIN servers' PROVE servers'[x] \in Server
    <3>1. x \in Vpids /\ x # None
      BY <1>8 DEF ForkTypes, Vpids, None
    <3>2. QED BY <3>1, <1>11, <1>12, <1>13 DEF ForkTypes
  <2>2. up' \subseteq Vpids /\ pids' \subseteq Vpids /\ DOMAIN servers' \subseteq Vpids
    BY <1>5, <1>8 DEF ForkTypes
  <2>3. QED BY <2>1, <2>2, <1>5, <1>14 DEF ForkTypes
<1>17. ServerInv'
  <2>1. ASSUME NEW x \in Vpids PROVE ServerOk(x)'
    <3>1. CASE x = s
      <4>1. Clear(x)
        BY <3>1, <1>7, <1>11 DEF Vpids, None
      <4>2. QED BY <4>1, <1>5 DEF Clear, ServerOk
    <3>2. CASE x # s
      <4>1. ServerOk(x)
        BY DEF ServerInv
      <4>2. (x \in up' <=> x \in up) /\ UNCHANGED <<sock, work, resp>>
        BY <3>2, <1>5
      <4>3. x \in DOMAIN servers => x \in DOMAIN servers' /\ servers'[x] = servers[x]
        BY <3>2, <1>8, <1>12
      <4>4. QED BY <4>1, <4>2, <4>3 DEF ServerOk
    <3>3. QED BY <3>1, <3>2
  <2>2. QED BY <2>1 DEF ServerInv
<1>18. ChildInv'
  <2>1. ASSUME NEW w \in Vpids, w # v PROVE ChildOk(w)'
    BY <2>1, <1>5, <1>8, <1>12, <1>14, <1>15 DEF ChildInv, ChildOk, Clear
  <2>2. ChildOk(v)'
    BY <1>5, <1>10, <1>11, <1>14 DEF ChildOk, Clear
  <2>3. QED BY <2>1, <2>2 DEF ChildInv
<1>19. RunInv'
  <2>1. KilledIsDead'
    <3>1. up' \subseteq DOMAIN servers'
      BY <1>5, <1>7, <1>8, <1>11 DEF RunInv, KilledIsDead
    <3>2. \A w \in Vpids \ pids' : Dead(w)'
      BY <1>5, <1>14 DEF RunInv, KilledIsDead, Dead
    <3>3. QED BY <3>1, <3>2, <1>5 DEF KilledIsDead
  <2>2. ASSUME NEW x \in DOMAIN servers', servers'[x].busy # None
        PROVE  servers'[x].busy \in pids' /\ srv'[servers'[x].busy] = x
    <3>1. CASE x = s
      BY <3>1, <1>5, <1>7, <1>11, <1>14, <2>2 DEF ForkTypes, Vpids, None
    <3>2. CASE x # s
      <4>1. x \in DOMAIN servers /\ servers'[x] = servers[x]
        BY <3>2, <1>12, <1>13
      <4>2. servers[x].busy \in pids /\ srv[servers[x].busy] = x
        BY <4>1, <2>2, <1>5 DEF RunInv
      <4>3. QED BY <4>1, <4>2, <1>5, <1>9, <1>14 DEF ForkTypes
    <3>3. QED BY <3>1, <3>2
  <2>3. QED BY <2>1, <2>2 DEF RunInv
<1>20. QED BY <1>9, <1>16, <1>17, <1>18, <1>19

(* The kill of children and servers: what is gone, and what is as it was. *)
LEMMA KillAllFacts ==
  ASSUME ForkTypes, NEW vs, NEW ss, KillAll(vs, ss)
  PROVE  /\ child' \in [Vpids -> {"none", "boot", "wait", "said", "gone"}]
         /\ srv' \in [Vpids -> Pipe0] /\ sock' \in [Vpids -> Pipe0]
         /\ work' \in [Vpids -> Pipe0] /\ resp' \in [Vpids -> Pipe0]
         /\ box' \in [Vpids -> {"none", "boot", "up", "dead"}]
         /\ up' = up \ ss /\ said' = said \ vs
         /\ \A v \in Vpids : /\ v \in vs => child'[v] = "gone" /\ srv'[v] = None
                             /\ v \notin vs => child'[v] = child[v] /\ srv'[v] = srv[v]
         /\ \A s \in Vpids : /\ s \in ss => sock'[s] = None /\ work'[s] = None /\ resp'[s] = None
                             /\ s \notin ss => /\ sock'[s] = sock[s] /\ work'[s] = work[s]
                                               /\ resp'[s] = resp[s]
         /\ \A v \in Vpids : box'[v] \in Alive =>
              /\ box[v] \in Alive /\ ~ (v \in vs /\ srv[v] = None)
              /\ \A s \in ss \intersect up : work[s] # v
<1>1. None \in Pipe0 /\ "dead" \notin Alive
  BY ForkServerAssumption DEF None, Pipe0, Alive
<1>2. /\ child' \in [Vpids -> {"none", "boot", "wait", "said", "gone"}]
      /\ \A v \in Vpids : /\ v \in vs => child'[v] = "gone"
                          /\ v \notin vs => child'[v] = child[v]
  BY DEF KillAll, ForkTypes
<1>3. /\ srv' \in [Vpids -> Pipe0]
      /\ \A v \in Vpids : /\ v \in vs => srv'[v] = None
                          /\ v \notin vs => srv'[v] = srv[v]
  BY <1>1 DEF KillAll, ForkTypes, Lost
<1>4. /\ sock' \in [Vpids -> Pipe0] /\ work' \in [Vpids -> Pipe0] /\ resp' \in [Vpids -> Pipe0]
      /\ \A s \in Vpids : /\ s \in ss => sock'[s] = None /\ work'[s] = None /\ resp'[s] = None
                          /\ s \notin ss => /\ sock'[s] = sock[s] /\ work'[s] = work[s]
                                            /\ resp'[s] = resp[s]
  BY <1>1 DEF KillAll, ForkTypes, Lost
<1>5. /\ box' \in [Vpids -> {"none", "boot", "up", "dead"}]
      /\ \A v \in Vpids : box'[v] \in Alive =>
           /\ box[v] \in Alive /\ ~ (v \in vs /\ srv[v] = None)
           /\ \A s \in ss \intersect up : work[s] # v
  BY <1>1 DEF KillAll, ForkTypes
<1>6. up' = up \ ss /\ said' = said \ vs
  BY DEF KillAll
<1>7. QED BY <1>2, <1>3, <1>4, <1>5, <1>6

(* The kill of one child alone. *)
LEMMA KillOneFacts ==
  ASSUME ForkTypes, NEW v \in Vpids, KillAll({v}, {}), srv[v] = None \/ box[v] \notin Alive
  PROVE  /\ child' \in [Vpids -> {"none", "boot", "wait", "said", "gone"}]
         /\ srv' \in [Vpids -> Pipe0] /\ sock' \in [Vpids -> Pipe0]
         /\ work' \in [Vpids -> Pipe0] /\ resp' \in [Vpids -> Pipe0]
         /\ box' \in [Vpids -> {"none", "boot", "up", "dead"}]
         /\ up' = up /\ said' = said \ {v}
         /\ child'[v] = "gone" /\ srv'[v] = None /\ box'[v] \notin Alive
         /\ \A w \in Vpids : w # v => child'[w] = child[w] /\ srv'[w] = srv[w]
         /\ \A s \in Vpids : sock'[s] = sock[s] /\ work'[s] = work[s] /\ resp'[s] = resp[s]
         /\ \A w \in Vpids : box'[w] \in Alive => box[w] \in Alive
<1>1. PICK vs : vs = {v}
  OBVIOUS
<1>2. PICK ss : ss = {}
  OBVIOUS
<1>3. KillAll(vs, ss) /\ v \in vs /\ (\A w : w # v => w \notin vs) /\ (\A s : s \notin ss)
  BY <1>1, <1>2
<1>4. /\ child' \in [Vpids -> {"none", "boot", "wait", "said", "gone"}]
      /\ srv' \in [Vpids -> Pipe0] /\ sock' \in [Vpids -> Pipe0]
      /\ work' \in [Vpids -> Pipe0] /\ resp' \in [Vpids -> Pipe0]
      /\ box' \in [Vpids -> {"none", "boot", "up", "dead"}]
  BY <1>3, KillAllFacts
<1>5. up' = up /\ said' = said \ {v}
  <2>1. up' = up \ ss /\ said' = said \ vs
    BY <1>3, KillAllFacts
  <2>2. QED BY <2>1, <1>1, <1>2
<1>6. \A w \in Vpids : /\ w \in vs => child'[w] = "gone" /\ srv'[w] = None
                       /\ w \notin vs => child'[w] = child[w] /\ srv'[w] = srv[w]
  BY <1>3, KillAllFacts
<1>7. \A s \in Vpids : /\ s \in ss => sock'[s] = None /\ work'[s] = None /\ resp'[s] = None
                       /\ s \notin ss => /\ sock'[s] = sock[s] /\ work'[s] = work[s]
                                         /\ resp'[s] = resp[s]
  BY <1>3, KillAllFacts
<1>8. ASSUME NEW w \in Vpids, box'[w] \in Alive
      PROVE  box[w] \in Alive /\ ~ (w \in vs /\ srv[w] = None)
  <2>1. \A x \in Vpids : box'[x] \in Alive =>
          /\ box[x] \in Alive /\ ~ (x \in vs /\ srv[x] = None)
          /\ \A s \in ss \intersect up : work[s] # x
    BY <1>3, KillAllFacts
  <2>2. QED BY <2>1, <1>8
<1>9. box'[v] \notin Alive
  BY <1>3, <1>8
<1>10. QED BY <1>3, <1>4, <1>5, <1>6, <1>7, <1>8, <1>9

(* The kill of a vPID: its child and its command are gone, and its bwrap   *)
(* fork server is idle again or dropped with them.                         *)
LEMMA KillFork ==
  ASSUME ForkInv, KillCmd
  PROVE  ForkInv'
<1> USE DEF ForkInv
<1>1. /\ fs = "up" /\ cmds # <<>> /\ cmds' = Tail(cmds) /\ Head(cmds).op = "kill"
      /\ nextVpid' = nextVpid /\ fs' = fs
  BY DEF KillCmd, mainVars
<1>2. PICK v \in Vpids : v = Head(cmds).v
  <2>1. Head(cmds) \in Cmd
    BY <1>1, CmdTypes
  <2>2. QED BY <2>1, <1>1 DEF Cmd
<1>3. v # None
  BY DEF Vpids, None
<1>4. ASSUME pids' \subseteq pids, DOMAIN servers' \subseteq DOMAIN servers
      PROVE  QueueTypes' /\ QueueInv'
  <2>1. \A w \in Vpids : Fresh(w) => Fresh(w)'
    BY <1>4 DEF Fresh
  <2>2. QED BY <2>1, <1>1, QueueTail
<1>5. CASE v \notin pids
  <2>1. UNCHANGED <<pids, servers, srv, child, box, said, up, sock, work, resp>>
    BY <1>2, <1>5 DEF KillCmd, srvVars
  <2>2. UNCHANGED forkSide
    BY <2>1, <1>1 DEF forkSide, fsVars, srvVars
  <2>3. QED BY <1>4, <2>1, <2>2, ForkSame
<1>6. CASE v \in pids /\ srv[v] = None
  <2>1. pids' = pids \ {v} /\ KillAll({v}, {}) /\ servers' = servers
    BY <1>2, <1>6 DEF KillCmd
  <2>2. /\ child' \in [Vpids -> {"none", "boot", "wait", "said", "gone"}]
        /\ srv' \in [Vpids -> Pipe0] /\ sock' \in [Vpids -> Pipe0]
        /\ work' \in [Vpids -> Pipe0] /\ resp' \in [Vpids -> Pipe0]
        /\ box' \in [Vpids -> {"none", "boot", "up", "dead"}]
        /\ up' = up /\ said' = said \ {v}
        /\ child'[v] = "gone" /\ srv'[v] = None /\ box'[v] \notin Alive
        /\ \A w \in Vpids : w # v => child'[w] = child[w] /\ srv'[w] = srv[w]
        /\ \A s \in Vpids : sock'[s] = sock[s] /\ work'[s] = work[s] /\ resp'[s] = resp[s]
        /\ \A w \in Vpids : box'[w] \in Alive => box[w] \in Alive
    BY <2>1, <1>6, KillOneFacts
  <2>3. ForkTypes'
    BY <2>1, <2>2, <1>1 DEF ForkTypes
  <2>4. ServerInv'
    BY <2>1, <2>2 DEF ServerInv, ServerOk
  <2>5. ChildInv'
    <3>1. ASSUME NEW w \in Vpids, w # v PROVE ChildOk(w)'
      <4>1. srv[w] # None => srv[w] \in Vpids
        BY DEF ForkTypes, ChildInv, ChildOk
      <4>2. QED BY <4>1, <3>1, <2>1, <2>2 DEF ChildInv, ChildOk, Clear
    <3>2. ChildOk(v)'
      BY <2>1, <2>2 DEF ChildOk
    <3>3. QED BY <3>1, <3>2 DEF ChildInv
  <2>6. RunInv'
    <3>1. KilledIsDead'
      BY <2>1, <2>2, <1>1 DEF RunInv, KilledIsDead, Dead
    <3>2. ASSUME NEW s \in DOMAIN servers, servers[s].busy # None
          PROVE  servers[s].busy \in pids' /\ srv'[servers[s].busy] = s
      <4>1. servers[s].busy \in pids /\ srv[servers[s].busy] = s /\ s # None
        BY <3>2, <1>1 DEF RunInv, ForkTypes, Vpids, None
      <4>2. servers[s].busy # v
        BY <4>1, <1>6
      <4>3. QED BY <4>1, <4>2, <2>1, <2>2 DEF ForkTypes
    <3>3. QED BY <3>1, <3>2, <2>1 DEF RunInv
  <2>7. QED BY <1>4, <2>1, <2>3, <2>4, <2>5, <2>6
<1>7. CASE v \in pids /\ srv[v] # None
  <2>1. PICK s \in Vpids : s = srv[v]
    BY <1>7 DEF ForkTypes, ChildInv, ChildOk
  <2>2. s \in DOMAIN servers /\ servers[s].busy = v /\ servers[s] \in Server /\ s # None
    BY <1>7, <2>1 DEF ForkTypes, ChildInv, ChildOk
  <2>3. \A w \in Vpids : w # v /\ srv[w] # None => srv[w] # s /\ srv[w] \in Vpids
    BY <1>7, <2>1, ServersDiffer DEF ForkTypes, ChildInv, ChildOk
  <2>4. ASSUME NEW x \in DOMAIN servers, x # s, servers[x].busy # None
        PROVE  servers[x].busy \in pids \ {v} /\ srv[servers[x].busy] = x
    BY <2>1, <2>4, <1>1 DEF RunInv
  <2>5. CASE Frees(v)
    <3>1. /\ pids' = pids \ {v} /\ KillAll({v}, {})
          /\ servers' = [servers EXCEPT ![s].busy = None, ![s].done = @ + 1]
      BY <1>2, <1>7, <2>1, <2>5 DEF KillCmd
    <3>2. Clear(s) /\ box[v] \notin Alive
      BY <1>7, <2>1, <2>5 DEF Frees, ChildInv, ChildOk
    <3>3. /\ DOMAIN servers' = DOMAIN servers /\ servers'[s].busy = None /\ servers'[s] \in Server
          /\ \A x \in DOMAIN servers : x # s => servers'[x] = servers[x]
      <4> DEFINE r1 == [servers[s] EXCEPT !.busy = None]
                 r2 == [r1 EXCEPT !.done = servers[s].done + 1]
      <4>1. servers' = [servers EXCEPT ![s] = r2]
        BY <3>1, <2>2 DEF Server
      <4>2. r1 \in Server /\ r1.busy = None
        BY <2>2, ForkServerAssumption DEF Server, None, Pipe0
      <4>3. servers[s].done + 1 \in Nat
        BY <2>2 DEF Server
      <4> HIDE DEF r1
      <4>4. r2 \in Server /\ r2.busy = None
        BY <4>2, <4>3 DEF Server
      <4> HIDE DEF r2
      <4>5. QED BY <4>1, <4>4, <2>2
    <3>4. /\ child' \in [Vpids -> {"none", "boot", "wait", "said", "gone"}]
          /\ srv' \in [Vpids -> Pipe0] /\ sock' \in [Vpids -> Pipe0]
          /\ work' \in [Vpids -> Pipe0] /\ resp' \in [Vpids -> Pipe0]
          /\ box' \in [Vpids -> {"none", "boot", "up", "dead"}]
          /\ up' = up /\ said' = said \ {v}
          /\ child'[v] = "gone" /\ srv'[v] = None /\ box'[v] \notin Alive
          /\ \A w \in Vpids : w # v => child'[w] = child[w] /\ srv'[w] = srv[w]
          /\ \A x \in Vpids : sock'[x] = sock[x] /\ work'[x] = work[x] /\ resp'[x] = resp[x]
          /\ \A w \in Vpids : box'[w] \in Alive => box[w] \in Alive
      BY <3>1, <3>2, KillOneFacts
    <3>5. ForkTypes'
      <4>1. \A x \in DOMAIN servers' : servers'[x] \in Server
        BY <3>3 DEF ForkTypes
      <4>2. QED BY <4>1, <3>1, <3>3, <3>4, <1>1 DEF ForkTypes
    <3>6. ServerInv'
      <4>1. ASSUME NEW x \in Vpids, x # s PROVE ServerOk(x)'
        BY <4>1, <3>3, <3>4 DEF ServerInv, ServerOk
      <4>2. ServerOk(s)'
        BY <3>2, <3>4 DEF ServerOk, Clear
      <4>3. QED BY <4>1, <4>2 DEF ServerInv
    <3>7. ChildInv'
      <4>1. ASSUME NEW w \in Vpids, w # v PROVE ChildOk(w)'
        BY <4>1, <2>3, <3>1, <3>3, <3>4 DEF ChildInv, ChildOk, Clear
      <4>2. ChildOk(v)'
        BY <3>1, <3>4 DEF ChildOk
      <4>3. QED BY <4>1, <4>2 DEF ChildInv
    <3>8. RunInv'
      <4>1. KilledIsDead'
        BY <3>1, <3>3, <3>4, <1>1 DEF RunInv, KilledIsDead, Dead
      <4>2. ASSUME NEW x \in DOMAIN servers', servers'[x].busy # None
            PROVE  servers'[x].busy \in pids' /\ srv'[servers'[x].busy] = x
        <5>1. x # s /\ servers'[x] = servers[x] /\ x \in DOMAIN servers
          BY <4>2, <3>3
        <5>2. QED BY <5>1, <4>2, <2>4, <3>1, <3>4 DEF ForkTypes
      <4>3. QED BY <4>1, <4>2 DEF RunInv
    <3>9. QED BY <1>4, <3>1, <3>3, <3>5, <3>6, <3>7, <3>8
  <2>6. CASE ~Frees(v)
    <3>1. /\ pids' = pids \ {v} /\ KillAll({v}, {s})
          /\ servers' = Restrict(servers, DOMAIN servers \ {s})
      BY <1>2, <1>7, <2>1, <2>6 DEF KillCmd
    <3>2. /\ DOMAIN servers' = DOMAIN servers \ {s}
          /\ \A x \in DOMAIN servers : x # s => servers'[x] = servers[x]
      BY <3>1 DEF Restrict
    <3>3. /\ child' \in [Vpids -> {"none", "boot", "wait", "said", "gone"}]
          /\ srv' \in [Vpids -> Pipe0] /\ sock' \in [Vpids -> Pipe0]
          /\ work' \in [Vpids -> Pipe0] /\ resp' \in [Vpids -> Pipe0]
          /\ box' \in [Vpids -> {"none", "boot", "up", "dead"}]
          /\ up' = up \ {s} /\ said' = said \ {v}
          /\ child'[v] = "gone" /\ srv'[v] = None
          /\ \A w \in Vpids : w # v => child'[w] = child[w] /\ srv'[w] = srv[w]
          /\ sock'[s] = None /\ work'[s] = None /\ resp'[s] = None
          /\ \A x \in Vpids : x # s => sock'[x] = sock[x] /\ work'[x] = work[x] /\ resp'[x] = resp[x]
          /\ \A w \in Vpids : box'[w] \in Alive => box[w] \in Alive /\ (s \in up => work[s] # w)
      BY <3>1, KillAllFacts
    <3>4. box'[v] \notin Alive
      BY <3>3, <1>7, <2>1, <1>3 DEF ChildInv, ChildOk, ServerInv, ServerOk
    <3>5. ForkTypes'
      <4>1. \A x \in DOMAIN servers' : servers'[x] \in Server
        BY <3>2 DEF ForkTypes
      <4>2. QED BY <4>1, <3>1, <3>2, <3>3, <1>1 DEF ForkTypes
    <3>6. ServerInv'
      <4>1. ASSUME NEW x \in Vpids, x # s PROVE ServerOk(x)'
        BY <4>1, <3>2, <3>3 DEF ServerInv, ServerOk
      <4>2. ServerOk(s)'
        BY <3>3 DEF ServerOk
      <4>3. QED BY <4>1, <4>2 DEF ServerInv
    <3>7. ChildInv'
      <4>1. ASSUME NEW w \in Vpids, w # v PROVE ChildOk(w)'
        <5>1. ChildOk(w) /\ (w \in pids => w \in pids')
          BY <4>1, <3>1 DEF ChildInv
        <5>2. srv[w] # None => /\ srv[w] \in Vpids /\ srv[w] \in DOMAIN servers'
                               /\ servers'[srv[w]] = servers[srv[w]] /\ work'[srv[w]] = work[srv[w]]
                               /\ sock'[srv[w]] = sock[srv[w]] /\ resp'[srv[w]] = resp[srv[w]]
          BY <4>1, <5>1, <2>3, <3>2, <3>3 DEF ChildOk
        <5>3. /\ child'[w] = child[w] /\ srv'[w] = srv[w] /\ (w \in said' => w \in said)
              /\ (box'[w] \in Alive => box[w] \in Alive)
          BY <4>1, <3>3
        <5>4. QED BY <5>1, <5>2, <5>3 DEF ChildOk, Clear
      <4>2. ChildOk(v)'
        BY <3>1, <3>3 DEF ChildOk
      <4>3. QED BY <4>1, <4>2 DEF ChildInv
    <3>8. RunInv'
      <4>1. KilledIsDead'
        BY <3>1, <3>2, <3>3, <3>4, <1>1 DEF RunInv, KilledIsDead, Dead
      <4>2. ASSUME NEW x \in DOMAIN servers', servers'[x].busy # None
            PROVE  servers'[x].busy \in pids' /\ srv'[servers'[x].busy] = x
        <5>1. x # s /\ servers'[x] = servers[x] /\ x \in DOMAIN servers
          BY <4>2, <3>2
        <5>2. QED BY <5>1, <4>2, <2>4, <3>1, <3>3 DEF ForkTypes
      <4>3. QED BY <4>1, <4>2 DEF RunInv
    <3>9. QED BY <1>4, <3>1, <3>2, <3>5, <3>6, <3>7, <3>8
  <2>7. QED BY <2>5, <2>6
<1>8. QED BY <1>5, <1>6, <1>7

(* The end of the execution server: it kills all it knows, and that is all *)
(* there is.                                                               *)
LEMMA EndFork ==
  ASSUME ForkInv, End
  PROVE  ForkInv'
<1> USE DEF ForkInv
<1>1. /\ fs = "up" /\ fs' = "ended" /\ cmds' = <<>> /\ KillAll(pids, DOMAIN servers)
      /\ UNCHANGED <<nextVpid, pids, servers>>
  BY DEF End
<1>2. /\ child' \in [Vpids -> {"none", "boot", "wait", "said", "gone"}]
      /\ srv' \in [Vpids -> Pipe0] /\ sock' \in [Vpids -> Pipe0]
      /\ work' \in [Vpids -> Pipe0] /\ resp' \in [Vpids -> Pipe0]
      /\ box' \in [Vpids -> {"none", "boot", "up", "dead"}]
      /\ up' = up \ DOMAIN servers /\ said' = said \ pids
      /\ \A v \in Vpids : /\ v \in pids => child'[v] = "gone" /\ srv'[v] = None
                          /\ v \notin pids => child'[v] = child[v] /\ srv'[v] = srv[v]
      /\ \A s \in Vpids : /\ s \in DOMAIN servers => sock'[s] = None /\ work'[s] = None /\ resp'[s] = None
                          /\ s \notin DOMAIN servers => /\ sock'[s] = sock[s] /\ work'[s] = work[s]
                                                        /\ resp'[s] = resp[s]
      /\ \A v \in Vpids : box'[v] \in Alive =>
           /\ box[v] \in Alive /\ ~ (v \in pids /\ srv[v] = None)
           /\ \A s \in DOMAIN servers \intersect up : work[s] # v
  BY <1>1, KillAllFacts
<1>3. up' = {} /\ said' = {}
  BY <1>1, <1>2 DEF RunInv, KilledIsDead, ChildInv, ChildOk, ForkTypes
<1>4. \A s \in Vpids : sock'[s] = None /\ work'[s] = None /\ resp'[s] = None
  BY <1>2 DEF ServerInv, ServerOk
<1>5. \A v \in Vpids : srv'[v] = None
  BY <1>2 DEF ChildInv, ChildOk
<1>6. \A v \in Vpids : Dead(v)'
  <2> SUFFICES ASSUME NEW v \in Vpids PROVE Dead(v)'
    OBVIOUS
  <2>1. child'[v] \in {"none", "gone"}
    BY <1>1, <1>2 DEF RunInv, KilledIsDead, Dead
  <2>2. box'[v] \notin Alive
    <3> SUFFICES ASSUME box'[v] \in Alive PROVE FALSE
      OBVIOUS
    <3>1. box[v] \in Alive /\ v \in pids /\ srv[v] # None
      BY <1>2, AliveFacts
    <3>2. srv[v] \in DOMAIN servers /\ work[srv[v]] = v /\ srv[v] \in Vpids /\ v # None
      BY <3>1 DEF ChildInv, ChildOk, ForkTypes, Vpids, None
    <3>3. srv[v] \in up
      BY <3>2 DEF ServerInv, ServerOk
    <3>4. QED BY <3>2, <3>3, <1>2
  <2>3. QED BY <2>1, <2>2 DEF Dead
<1>7. QueueTypes' /\ QueueInv'
  <2>1. Len(cmds') = 0 /\ cmds' \in Seq(Cmd)
    BY <1>1
  <2>2. QED BY <2>1, <1>1 DEF QueueTypes, QueueInv, Fresh
<1>8. ForkTypes'
  BY <1>1, <1>2, <1>3 DEF ForkTypes
<1>9. ServerInv'
  BY <1>3, <1>4 DEF ServerInv, ServerOk
<1>10. ChildInv'
  BY <1>3, <1>5 DEF ChildInv, ChildOk
<1>11. RunInv'
  BY <1>1, <1>3, <1>6 DEF RunInv, KilledIsDead
<1>12. QED BY <1>7, <1>8, <1>9, <1>10, <1>11

(* Every step keeps the server side. *)
LEMMA NextFork ==
  ASSUME ForkInv, UserInv, [Next]_vars
  PROVE  ForkInv'
<1> USE DEF ForkInv
<1>1. CASE UNCHANGED vars
  <2>1. UNCHANGED forkSide /\ UNCHANGED <<cmds, nextVpid, pids, servers>>
    BY <1>1 DEF vars, forkSide, mainVars, fsVars
  <2>2. QED BY <2>1, QueueSame, ForkSame
<1>2. ASSUME NEW t \in Threads, User(t) PROVE ForkInv'
  <2>1. UNCHANGED forkSide /\ UNCHANGED <<pids, servers>>
    BY <1>2, ThreadCmds DEF forkSide, fsVars
  <2>2. CASE UNCHANGED <<cmds, nextVpid>>
    BY <2>1, <2>2, QueueSame, ForkSame
  <2>3. CASE \E c \in Cmd : c.op # "spawn" /\ cmds' = Append(cmds, c) /\ nextVpid' = nextVpid
    BY <2>1, <2>3, QueueAppend, ForkSame
  <2>4. CASE \E c \in Cmd : /\ c.op = "spawn" /\ c.v = nextVpid /\ cmds' = Append(cmds, c)
                            /\ nextVpid' = nextVpid + 1
    <3>1. PICK c \in Cmd : /\ c.op = "spawn" /\ c.v = nextVpid /\ cmds' = Append(cmds, c)
                           /\ nextVpid' = nextVpid + 1
      BY <2>4
    <3>2. nextVpid \in Vpids
      BY <3>1 DEF Cmd
    <3>3. QED BY <2>1, <3>1, <3>2, QueueAppend, ForkSame
  <2>5. QED BY <1>2, <2>2, <2>3, <2>4, ThreadCmds
<1>3. CASE Stop
  <2> DEFINE c == [op |-> "exit", v |-> None]
  <2>1. UNCHANGED forkSide /\ UNCHANGED <<pids, servers, nextVpid>> /\ cmds' = Append(cmds, c)
    BY <1>3 DEF Stop, forkSide, fsVars
  <2>2. c \in Cmd /\ c.op # "spawn"
    BY CmdTypes
  <2>3. QED BY <2>1, <2>2, QueueAppend, ForkSame
<1>4. CASE Spawn \/ KillCmd \/ End
  BY <1>4, SpawnFork, KillFork, EndFork
<1>5. ASSUME NEW v \in Vpids, BoxAnswers(v) PROVE ForkInv'
  <2>1. UNCHANGED forkSide /\ UNCHANGED <<cmds, nextVpid, pids, servers>>
    BY <1>5 DEF BoxAnswers, forkSide, fsVars, mainVars
  <2>2. QED BY <2>1, QueueSame, ForkSame
<1>6. ASSUME NEW v \in Vpids,
             \/ ChildStarts(v) \/ ChildFails(v) \/ ChildReads(v) \/ ChildDone(v)
             \/ BoxChirps(v) \/ BoxEnds(v)
             \/ ServerTakes(v) \/ ServerResponds(v) \/ ServerDies(v)
      PROVE  ForkInv'
  BY <1>6, ChildStartsFork, ChildEndsFork, ChildReadsFork, BoxFork, ServerTakesFork,
     ServerRespondsFork, ServerDiesFork
<1>7. QED BY <1>1, <1>2, <1>3, <1>4, <1>5, <1>6 DEF Next

(* An idle bwrap fork server has nothing of an earlier child, and a server *)
(* at work belongs to one.                                                 *)
LEMMA ServersFromInv == ForkInv => ServersNotShared
<1> SUFFICES ASSUME ForkInv PROVE ServersNotShared
  OBVIOUS
<1>1. ASSUME NEW v \in pids, srv[v] # None
      PROVE  srv[v] \in DOMAIN servers /\ servers[srv[v]].busy = v
  BY <1>1 DEF ForkInv, ForkTypes, ChildInv, ChildOk
<1>2. ASSUME NEW s \in DOMAIN servers, NEW x \in {sock[s], work[s], resp[s]}, x # None
      PROVE  x = servers[s].busy
  BY <1>2 DEF ForkInv, ForkTypes, ServerInv, ServerOk
<1>3. QED BY <1>1, <1>2 DEF ServersNotShared

-----------------------------------------------------------------------------
(* The theorems *)

IInv == ForkInv /\ UserInv

(* In every reachable state the two invariants hold: the vPIDs, the        *)
(* children and the bwrap fork servers of _run stand to each other as      *)
(* ForkInv says, and a pipe belongs to one thread and carries one answer.  *)
THEOREM ForkServerInv == Spec => []IInv
<1>1. Init => IInv
  BY InitFork, InitUser DEF IInv
<1>2. IInv /\ [Next]_vars => IInv'
  <2> SUFFICES ASSUME ForkInv, UserInv, [Next]_vars PROVE ForkInv' /\ UserInv'
    BY DEF IInv
  <2>1. QED BY NextFork, NextUser
<1>3. QED BY <1>1, <1>2, PTL DEF Spec

(* Every variable keeps its type. *)
THEOREM ForkServerTypes == Spec => []TypeOK
<1>1. IInv => TypeOK
  BY DEF IInv, ForkInv, UserInv, TypeOK
<1>2. QED BY <1>1, ForkServerInv, PTL

(* _run never gives a bwrap fork server to two children, nor to a second   *)
(* one while a command or an answer of the first is left in it (the        *)
(* assertion at server.py:391).                                            *)
THEOREM ServersAreNotShared == Spec => []ServersNotShared
<1>1. IInv => ServersNotShared
  BY ServersFromInv DEF IInv
<1>2. QED BY <1>1, ForkServerInv, PTL

(* After a kill nothing of the vPID runs, and when the execution server    *)
(* ends nothing runs at all.                                               *)
THEOREM KilledAreDead == Spec => []KilledIsDead
<1>1. IInv => KilledIsDead
  BY DEF IInv, ForkInv, RunInv
<1>2. QED BY <1>1, ForkServerInv, PTL

(* Runner.run never returns the answer of an earlier call. *)
THEOREM AnswersAreOfTheCall == Spec => []AnswerOfCall
<1>1. IInv => AnswerOfCall
  BY AnswerFromInv DEF IInv
<1>2. QED BY <1>1, ForkServerInv, PTL

=============================================================================
