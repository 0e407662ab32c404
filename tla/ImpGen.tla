------------------------------- MODULE ImpGen -------------------------------
(***************************************************************************)
(* cwm/rl/lib/impgen/impgen.py: threads on every rank of a tensor-parallel *)
(* group call generate(); the main thread of each rank repeats work(),     *)
(* which agrees with the other ranks on the requests that enter FastGen,   *)
(* takes one step of the generator and completes the future of its answer; *)
(* and, once the rollout threads of the rank are done, stop().             *)
(*                                                                         *)
(* moodist.Queue is external: a put on a queue located on every rank is an *)
(* atomic broadcast, each rank takes the same objects in the same order.   *)
(* FastGen runs in step on the ranks: the first rank to make its k-th      *)
(* next() chooses the outcome, the others find the same one.               *)
(***************************************************************************)
EXTENDS Integers, Sequences, FiniteSets

CONSTANTS
  TpSize,        \* ranks of the group
  Threads, Home, \* the threads that call generate(), and their ranks
  HandoverFrequency,  \* handover_frequency; 0 never hands over
  MaxHandovers,  \* bound: consecutive handovers while requests are in FastGen
  MaxIdle        \* bound: flags of _sync_queue a rank may be behind

ASSUME ImpGenAssumption ==
  /\ TpSize \in Nat \ {0} /\ Home \in [Threads -> 0..(TpSize - 1)]
  /\ HandoverFrequency \in Nat /\ MaxHandovers \in Nat /\ MaxIdle \in Nat \ {0}

Ranks == 0..(TpSize - 1)
Nil == -1   \* the None that ends a queue, and the None of a handover

VARIABLES
  th,        \* per thread: "free", "put", "wait" or "done" (in done_queue)
  ticket,    \* per thread, the thread_id it puts or waits for, or Nil
  calls,     \* i, per rank
  futures,   \* _futures, per rank
  tpq,       \* _tp_queue, per rank
  syncq,     \* _sync_queue, per rank but 0
  stopq,     \* _stop_queue; a rank is in it iff its done is set
  pc,        \* main thread: "sync", "next", "loop", "ended" or "failed"
  packets,   \* packets of _sync_q, per rank
  inflight,  \* _in_flight, per rank
  pend,      \* what is in _q or in FastGen, per rank, a sequence
  fed,       \* how many objects a rank has fed to _q
  outs,      \* outcomes of next() other ranks have reached first
  iters,     \* num_iters of FastGen._generate
  handed     \* consecutive handovers

threadVars == <<th, ticket, calls>>
mainVars == <<pc, packets, inflight, pend, fed, outs, iters, handed>>
igVars == <<threadVars, futures, tpq, syncq, stopq, mainVars>>

-----------------------------------------------------------------------------
(* generate_future: the future is registered, then the packet is broadcast *)

ThreadIdOfCall(r) == calls[r]
ThreadId(r) == calls[r] * TpSize + r

Register(t) ==
  /\ th[t] = "free"
  /\ th' = [th EXCEPT ![t] = "put"]
  /\ ticket' = [ticket EXCEPT ![t] = ThreadId(Home[t])]
  /\ calls' = [calls EXCEPT ![Home[t]] = @ + 1]
  /\ futures' = [futures EXCEPT ![Home[t]] = @ \cup {ThreadId(Home[t])}]
  /\ UNCHANGED <<tpq, syncq, stopq, mainVars>>

Put(t) ==
  /\ th[t] = "put"
  /\ th' = [th EXCEPT ![t] = "wait"]
  /\ tpq' = [r \in Ranks |-> Append(tpq[r], ticket[t])]
  /\ UNCHANGED <<ticket, calls, futures, syncq, stopq, mainVars>>

-----------------------------------------------------------------------------
(* _sync_q: rank 0 announces each packet it takes, and the end *)

Take(r) ==
  /\ packets' = [packets EXCEPT ![r] = Append(@, Head(tpq[r]))]
  /\ tpq' = [tpq EXCEPT ![r] = Tail(@)]
  /\ UNCHANGED <<threadVars, futures, stopq, pc, inflight, pend, fed, outs, iters, handed>>

(* work() goes on to the generator if a request is in flight *)
Synced(r) ==
  /\ pend' = [pend EXCEPT ![r] = @ \o packets[r]]
  /\ fed' = [fed EXCEPT ![r] = @ + Len(packets[r])]
  /\ inflight' = [inflight EXCEPT ![r] = @ + Len(packets[r])]
  /\ packets' = [packets EXCEPT ![r] = <<>>]
  /\ pc' = [pc EXCEPT ![r] = IF inflight'[r] = 0 THEN "loop" ELSE "next"]
  /\ UNCHANGED <<threadVars, futures, tpq, stopq, outs, iters, handed>>

Announce(flag) ==
  /\ \A r \in Ranks \ {0} : Len(syncq[r]) < MaxIdle
  /\ syncq' = [r \in Ranks \ {0} |-> Append(syncq[r], flag)]

SyncLead ==
  /\ pc[0] = "sync"
  /\ \/ tpq[0] # <<>> /\ Announce(TRUE) /\ Take(0)
     \/ tpq[0] = <<>> /\ Announce(FALSE) /\ Synced(0)

SyncFollowOwn(r) ==
  /\ pc[r] = "sync" /\ r # 0 /\ syncq[r] # <<>>
  /\ syncq' = [syncq EXCEPT ![r] = Tail(@)]
  /\ \/ tpq[r] # <<>> /\ Take(r)
     \/ tpq[r] = <<>> /\ Synced(r)
SyncFollow(r) ==
  /\ pc[r] = "sync" /\ r # 0 /\ syncq[r] # <<>>
  /\ syncq' = [syncq EXCEPT ![r] = Tail(@)]
  /\ \/ Head(syncq[r]) /\ tpq[r] # <<>> /\ Take(r)
     \/ ~Head(syncq[r]) /\ Synced(r)

-----------------------------------------------------------------------------
(* next(_generator): a packet, a handover (None) or StopIteration *)

Requests(r) == {pend[r][k] : k \in DOMAIN pend[r]} \ {Nil}
NoneRead(r) == \E k \in DOMAIN pend[r] : pend[r][k] = Nil
Packet(p) == [kind |-> "packet", id |-> p]
Handover == [kind |-> "none", id |-> Nil]
Stop == [kind |-> "stop", id |-> Nil]

(* Requests take any number of iterations, but every HandoverFrequency of them *)
(* one hands over.  Without requests, the iteration that reads None is the last *)
(* one: the loop starts it unless it was handed over in it.                     *)
HandsOver(r) ==
  /\ HandoverFrequency > 0
  /\ IF Requests(r) # {} THEN handed < MaxHandovers
     ELSE handed = 0 /\ iters + 1 = HandoverFrequency
Outcomes(r) ==
  {Packet(p) : p \in Requests(r)}
    \cup {h \in {Handover} : HandsOver(r)}
    \cup {s \in {Stop} : Requests(r) = {} /\ NoneRead(r) /\ ~HandsOver(r)}

(* the ranks agree on the outcome; the first one chooses it *)
Outcome(r, o) ==
  IF outs[r] # <<>>
  THEN /\ o = Head(outs[r]).what
       /\ outs' = [outs EXCEPT ![r] = Tail(@)] /\ UNCHANGED <<iters, handed>>
  ELSE /\ o \in Outcomes(r)
       /\ outs' = [s \in Ranks |->
                     IF s = r THEN outs[s] ELSE Append(outs[s], [what |-> o, fed |-> fed[r]])]
       /\ handed' = IF o = Handover THEN handed + 1 ELSE 0
       /\ IF o.kind = "packet" THEN iters' \in iters..(HandoverFrequency - 1) \cup {iters}
          ELSE iters' = 0

(* the thread whose future is set resumes *)
Answer(r, id) ==
  LET Resumes(t) == Home[t] = r /\ id \in futures[r] /\ ticket[t] = id /\ th[t] = "wait"
  IN /\ futures' = [futures EXCEPT ![r] = @ \ {id}]
     /\ th' = [t \in Threads |-> IF Resumes(t) THEN "free" ELSE th[t]]
     /\ ticket' = [t \in Threads |-> IF Resumes(t) THEN Nil ELSE ticket[t]]

NewInflight(r, o) == IF o.kind = "packet" THEN inflight[r] - 1 ELSE inflight[r]

(* the answered request leaves FastGen *)
Without(s, x) ==
  IF \E k \in DOMAIN s : s[k] = x
  THEN LET at == CHOOSE k \in DOMAIN s : s[k] = x
       IN [k \in 1..(Len(s) - 1) |-> IF k < at THEN s[k] ELSE s[k + 1]]
  ELSE s

Step(r) ==
  /\ pc[r] = "next"
  /\ \E o \in Outcomes(r) \cup {outs[r][k].what : k \in DOMAIN outs[r]} :
       /\ Outcome(r, o)
       /\ inflight' = [inflight EXCEPT ![r] = NewInflight(r, o)]
       /\ pend' = [pend EXCEPT ![r] = IF o.kind = "packet"
                                      THEN Without(@, o.id) ELSE @]
       /\ IF o.kind = "packet" THEN Answer(r, o.id) ELSE UNCHANGED <<th, ticket, futures>>
       /\ pc' = [pc EXCEPT ![r] =
            IF o.kind # "stop" THEN "loop"
            ELSE IF inflight[r] = 1 /\ futures[r] = {} THEN "ended" ELSE "failed"]
  /\ UNCHANGED <<calls, tpq, syncq, stopq, packets, fed>>

-----------------------------------------------------------------------------
(* stop(), called by the loop around work() while the threads are done *)

ThreadsDone(r) == \A t \in Threads : Home[t] = r => th[t] = "done"

PutsNoneEarly(r) == r = 0
PutsNoneOnce(r) == r = 0 /\ r \notin stopq /\ stopq \cup {r} = Ranks
PutsNone(r) == r = 0 /\ stopq \cup {r} = Ranks

Loop(r) ==
  /\ pc[r] = "loop"
  /\ pc' = [pc EXCEPT ![r] = "sync"]
  /\ IF ThreadsDone(r)
     THEN /\ stopq' = stopq \cup {r}
          /\ tpq' = [s \in Ranks |-> IF PutsNone(r) THEN Append(tpq[s], Nil) ELSE tpq[s]]
     ELSE UNCHANGED <<stopq, tpq>>
  /\ UNCHANGED <<threadVars, futures, syncq, packets, inflight, pend, fed, outs, iters, handed>>

-----------------------------------------------------------------------------
(* the state of a new group of processes, in given variables *)
IgFresh(th_, ticket_, calls_, futures_, tpq_, syncq_, stopq_, pc_, packets_, inflight_, pend_, fed_, outs_, iters_, handed_) ==
  /\ th_ = [t \in Threads |-> "free"] /\ ticket_ = [t \in Threads |-> Nil]
  /\ calls_ = [r \in Ranks |-> 0] /\ futures_ = [r \in Ranks |-> {}]
  /\ tpq_ = [r \in Ranks |-> <<>>] /\ syncq_ = [r \in Ranks \ {0} |-> <<>>]
  /\ stopq_ = {}
  /\ pc_ = [r \in Ranks |-> "sync"] /\ packets_ = [r \in Ranks |-> <<>>]
  /\ inflight_ = [r \in Ranks |-> 0] /\ pend_ = [r \in Ranks |-> <<>>]
  /\ fed_ = [r \in Ranks |-> 0] /\ outs_ = [r \in Ranks |-> <<>>] /\ iters_ = 0 /\ handed_ = 0

IgInit == IgFresh(th, ticket, calls, futures, tpq, syncq, stopq,
                  pc, packets, inflight, pend, fed, outs, iters, handed)
IgRestart == IgFresh(th', ticket', calls', futures', tpq', syncq', stopq',
                     pc', packets', inflight', pend', fed', outs', iters', handed')

Main(r) == (r = 0 /\ SyncLead) \/ SyncFollow(r) \/ Step(r) \/ Loop(r)
Mains == \E r \in Ranks : Main(r)

-----------------------------------------------------------------------------
(* Properties *)

(***************************************************************************)
(* A waiting thread will be answered: its future is registered on its rank *)
(* alone, and its rank has one packet with that thread_id to come, which   *)
(* no other thread waits for.                                              *)
(***************************************************************************)
CallsPending ==
  \A t \in Threads : th[t] = "wait" =>
    LET id == ticket[t]  r == Home[t]
        ahead == tpq[r] \o packets[r] \o pend[r]
    IN /\ id \in futures[r]
       /\ \A s \in Ranks \ {r} : id \notin futures[s]
       /\ Cardinality({k \in DOMAIN ahead : ahead[k] = id}) = 1
       /\ \A u \in Threads \ {t} : th[u] = "wait" => ticket[u] # id

(***************************************************************************)
(* "tp ranks will have the same _q, as required by fastgen": when a rank   *)
(* takes a step of the generator that another rank took first.  When it is *)
(* the first, "This should never block to wait for requests, since         *)
(* _in_flight > 0".                                                        *)
(***************************************************************************)
SameInputs ==
  \A r \in Ranks : pc[r] = "next" =>
    IF outs[r] = <<>> THEN pend[r] # <<>> ELSE fed[r] = Head(outs[r]).fed

(* The assertions of work() at StopIteration: nothing is left in flight, and  *)
(* no thread of the rank still waits for an answer.                           *)
StopsClean == \A r \in Ranks : pc[r] # "failed"
=============================================================================
