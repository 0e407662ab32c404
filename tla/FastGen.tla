------------------------------ MODULE FastGen ------------------------------
(***************************************************************************)
(* The continuous-batching scheduler of cwm/fastgen/generate.py.           *)
(*                                                                         *)
(* One generator (FastGen._generate) runs, in a loop, the phases           *)
(*    prepare -> decode -> add -> prefill -> finish                        *)
(* over an array of generation lanes.  Each lane owns cache blocks; when   *)
(* blocks run out the shortest lane is parked and its blocks are reused.   *)
(* Clients put packets, and finally None, on the input queue.              *)
(*                                                                         *)
(* Token values are abstracted away: a lane is its request, the number of  *)
(* tokens generated so far and its blocks.  Whether the new tokens contain *)
(* a stop token or complete the stop string is a free choice.              *)
(***************************************************************************)
EXTENDS Integers, Sequences, FiniteSets

CONSTANTS
  Reqs,             \* packets; a packet is identified with its thread_id
  EOQ,              \* the None a client queues to end generation
  NoReq,            \* the thread_id of a dead lane
  PromptLen,        \* [Reqs -> Nat], len(pkt.tokens)
  MaxGen,           \* [Reqs -> Nat], pkt.max_gen
  TopP,             \* the packets whose top_p differs from 1
  NBlocks,          \* max_seq // page_len
  PageLen,          \* page_len
  SyncFreq,         \* sync_freq
  MaxBatch,         \* max_batch
  Buffer,           \* the 128 tokens of slack _add_lanes asks for
  MinPrefill,       \* min_prefill, in tokens
  MinPrefillBatch   \* min_prefill_batch, in lanes

MaxSeq == NBlocks * PageLen
Slots  == 0..(MaxBatch - 1)
Blocks == 0..(NBlocks - 1)

(* The assertions __init__ makes about its arguments. *)
ASSUME ConstantAssumption ==
  /\ NBlocks \in Nat \ {0} /\ PageLen \in Nat \ {0}
  /\ MaxBatch \in Nat \ {0} /\ SyncFreq \in Nat \ {0}
  /\ Buffer \in Nat \ {0} /\ MinPrefill \in Nat /\ MinPrefillBatch \in Nat
  /\ MaxBatch * PageLen <= NBlocks * PageLen
  /\ SyncFreq < PageLen

ASSUME RequestAssumption ==
  /\ EOQ \notin Reqs /\ NoReq \notin Reqs /\ TopP \subseteq Reqs
  /\ PromptLen \in [Reqs -> Nat \ {0}]
  /\ MaxGen \in [Reqs -> Nat]

VARIABLES
  q,        \* the input queue
  sent,     \* the packets clients have put so far, and EOQ
  pc,       \* the phase of _generate the generator is in
  eoq,      \* None has been read from the queue
  nactive,  \* number of active lanes
  lane,     \* self.lane: per-slot host data
  dev,      \* the per-slot device tensors seqlen, maxlen, blktbl
  topp,     \* top_p_lanes
  free,     \* free_blocks
  parking,  \* parked lanes, oldest first
  idx,      \* the loop index of _prepare_lanes, _add_lanes and of the finish loop
  decr,     \* the slots ordered by decreasing length (_prepare_lanes)
  toks,     \* tokens to prefill (_add_lanes)
  fresh,    \* per slot, the number of new tokens of this iteration (tokens_list)
  answers   \* how often each packet has been yielded

vars == <<q, sent, pc, eoq, nactive, lane, dev, topp, free, parking, idx, decr,
          toks, fresh, answers>>

-----------------------------------------------------------------------------
(* Lanes *)

MinOf(a, b) == IF a <= b THEN a ELSE b

DeadLane == [id |-> NoReq, ntok |-> 0, blocks |-> <<>>]
DeadRow  == [seqlen |-> 0, maxlen |-> 0, blktbl |-> [b \in Blocks |-> 0]]

(* Lane.from_pkt *)
NewLane(r) == [id |-> r, ntok |-> 0, blocks |-> <<>>]
LaneMaxLen(r) == MinOf(PromptLen[r] + MaxGen[r], MaxSeq)

LaneLen(l) == PromptLen[l.id] + l.ntok
BlockSet(l) == {l.blocks[k] : k \in DOMAIN l.blocks}
Avail(l) == Len(l.blocks) * PageLen

(* Lane.free and Lane.set_blocks *)
Freed(l) == [l EXCEPT !.blocks = <<>>]
WithBlocks(l, bs) == [l EXCEPT !.blocks = bs]

(* Lane.add_block on lane i of L, and the k-th entry of row i of D *)
Grown(L, i, b) == [L EXCEPT ![i].blocks = Append(@, b)]
Tabled(D, i, k, b) == [D EXCEPT ![i].blktbl[k] = b]

(* free_blocks as __init__ builds it *)
InitialFreeOffByOne == 0..NBlocks
InitialFree == Blocks

(* ISet.take(n): the n smallest elements of S, listed in increasing order. *)
Taken(S, n) ==
  {bs \in [1..n -> S] :
     /\ \A j, k \in 1..n : j < k => bs[j] < bs[k]
     /\ \A x \in S : (\A k \in 1..n : bs[k] # x) => \A k \in 1..n : bs[k] < x}

(***************************************************************************)
(* _kill_lane(i): the blocks of lane i are freed and the last active lane  *)
(* takes its slot.  Slot nactive - 1 is dead afterwards, in both branches. *)
(***************************************************************************)
Last == nactive - 1
KilledFreeForgets(i) == free
KilledFree(i) == free \cup BlockSet(lane[i])
KilledLane(i) == [lane EXCEPT ![i] = lane[Last], ![Last] = DeadLane]
KilledDevStays(i) == [dev EXCEPT ![Last] = DeadRow]
KilledDev(i)  == [dev EXCEPT ![i] = dev[Last], ![Last] = DeadRow]
KilledTopP(i) ==
  IF i = Last THEN topp \ {i}
  ELSE IF Last \in topp THEN (topp \ {Last}) \cup {i}
  ELSE topp

-----------------------------------------------------------------------------
(* Clients: put on the queue passed to generate(). *)

Put(r) ==
  /\ r \in Reqs \ sent /\ EOQ \notin sent
  /\ q' = Append(q, r)
  /\ sent' = sent \cup {r}
  /\ UNCHANGED <<pc, eoq, nactive, lane, dev, topp, free, parking, idx, decr,
                 toks, fresh, answers>>

PutEOQ ==
  /\ EOQ \notin sent
  /\ q' = Append(q, EOQ)
  /\ sent' = sent \cup {EOQ}
  /\ UNCHANGED <<pc, eoq, nactive, lane, dev, topp, free, parking, idx, decr,
                 toks, fresh, answers>>

-----------------------------------------------------------------------------
(* _generate: the loop test, then _prepare_lanes sorts the lanes. *)

MoreWork == ~eoq \/ parking # <<>> \/ nactive > 0

IncreasingOrder ==
  {p \in [0..Last -> 0..Last] :
     \A j, k \in 0..Last : j < k =>
        \/ LaneLen(lane[p[j]]) < LaneLen(lane[p[k]])
        \/ LaneLen(lane[p[j]]) = LaneLen(lane[p[k]]) /\ p[j] < p[k]}

DecreasingOrder ==
  {p \in [0..Last -> 0..Last] :
     \A j, k \in 0..Last : j < k =>
        \/ LaneLen(lane[p[j]]) > LaneLen(lane[p[k]])
        \/ LaneLen(lane[p[j]]) = LaneLen(lane[p[k]]) /\ p[j] < p[k]}

Iterate ==
  /\ pc = "loop" /\ MoreWork
  /\ decr' \in DecreasingOrder
  /\ idx' = 0
  /\ fresh' = [i \in Slots |-> 0]
  /\ pc' = "prepare"
  /\ UNCHANGED <<q, sent, eoq, nactive, lane, dev, topp, free, parking, toks, answers>>

Return ==
  /\ pc = "loop" /\ ~MoreWork
  /\ pc' = "stopped"
  /\ UNCHANGED <<q, sent, eoq, nactive, lane, dev, topp, free, parking, idx, decr,
                 toks, fresh, answers>>

-----------------------------------------------------------------------------
(* _prepare_lanes: one action per branch of the loop body. *)

Visited == lane[decr[idx]]
Roomy   == LaneLen(Visited) + SyncFreq <= Avail(Visited)
Starved == free = {} /\ Last > 0

PrepareSkip ==
  /\ pc = "prepare" /\ idx < nactive /\ Roomy
  /\ idx' = idx + 1
  /\ UNCHANGED <<q, sent, pc, eoq, nactive, lane, dev, topp, free, parking, decr,
                 toks, fresh, answers>>

(* A free block goes to the visited lane, in its block table row too. *)
PrepareGrow ==
  /\ pc = "prepare" /\ idx < nactive /\ ~Roomy /\ free # {}
  /\ \E bs \in Taken(free, 1) :
       /\ free' = free \ {bs[1]}
       /\ lane' = Grown(lane, decr[idx], bs[1])
       /\ dev'  = Tabled(dev, decr[idx], Len(Visited.blocks), bs[1])
  /\ UNCHANGED <<q, sent, pc, eoq, nactive, topp, parking, idx, decr, toks, fresh,
                 answers>>

(* No free block: the shortest lane is parked.  It was the visited one. *)
PrepareParkSelf ==
  /\ pc = "prepare" /\ idx < nactive /\ ~Roomy /\ Starved /\ idx = Last
  /\ free' = KilledFree(decr[Last])
  /\ parking' = Append(parking, Freed(lane[decr[Last]]))
  /\ lane' = KilledLane(decr[Last])
  /\ dev' = KilledDev(decr[Last])
  /\ topp' = KilledTopP(decr[Last])
  /\ nactive' = Last
  /\ pc' = "decode"
  /\ UNCHANGED <<q, sent, eoq, idx, decr, toks, fresh, answers>>

(* decr after the kill: the lane of slot Last has moved to slot decr[Last]. *)
FixedDecr ==
  [n \in DOMAIN decr |-> IF n \in idx..(Last - 1) /\ decr[n] = Last
                         THEN decr[Last] ELSE decr[n]]

(* Another lane is parked; the visited one then takes one of its blocks. *)
PreparePark ==
  /\ pc = "prepare" /\ idx < nactive /\ ~Roomy /\ Starved /\ idx < Last
  /\ LET d  == FixedDecr[idx]
         kl == KilledLane(decr[Last])
         kd == KilledDev(decr[Last])
     IN \E bs \in Taken(KilledFree(decr[Last]), 1) :
          /\ free' = KilledFree(decr[Last]) \ {bs[1]}
          /\ lane' = Grown(kl, d, bs[1])
          /\ dev'  = Tabled(kd, d, Len(kl[d].blocks), bs[1])
  /\ parking' = Append(parking, Freed(lane[decr[Last]]))
  /\ topp' = KilledTopP(decr[Last])
  /\ decr' = FixedDecr
  /\ nactive' = Last
  /\ UNCHANGED <<q, sent, pc, eoq, idx, toks, fresh, answers>>

(* One lane holds every block: decode until it hits maxlen. *)
PrepareFull ==
  /\ pc = "prepare" /\ idx < nactive /\ ~Roomy /\ free = {} /\ Last = 0
  /\ idx' = nactive
  /\ UNCHANGED <<q, sent, pc, eoq, nactive, lane, dev, topp, free, parking, decr,
                 toks, fresh, answers>>

PrepareEnd ==
  /\ pc = "prepare" /\ idx >= nactive
  /\ pc' = IF nactive > 0 THEN "decode" ELSE "add"
  /\ idx' = nactive /\ toks' = 0
  /\ UNCHANGED <<q, sent, eoq, nactive, lane, dev, topp, free, parking, decr, fresh,
                 answers>>

-----------------------------------------------------------------------------
(***************************************************************************)
(* _decode: every active lane gains nsteps = min(max_seq - maxsl,          *)
(* sync_freq) tokens, where maxsl is the maximum of the whole seqlen       *)
(* tensor, the dead slots included.                                        *)
(***************************************************************************)
NSteps ==
  {n \in 0..SyncFreq :
     /\ \A i \in Slots : dev[i].seqlen + n <= MaxSeq
     /\ n = SyncFreq \/ \E i \in Slots : dev[i].seqlen + n = MaxSeq}

Decode ==
  /\ pc = "decode"
  /\ \E n \in NSteps :
       /\ dev' = [i \in Slots |->
                    IF i < nactive THEN [dev[i] EXCEPT !.seqlen = @ + n] ELSE dev[i]]
       /\ fresh' = [i \in Slots |-> IF i < nactive THEN n ELSE 0]
  /\ pc' = "add" /\ idx' = nactive /\ toks' = 0
  /\ UNCHANGED <<q, sent, eoq, nactive, lane, topp, free, parking, decr, answers>>

-----------------------------------------------------------------------------
(* _add_lanes: one action per branch of the loop body; AddEnd leaves it. *)

AskRoundsDown(l) == LaneLen(l) \div PageLen
AskSlackInPages(l) == LaneLen(l) \div PageLen + 1 + Buffer * PageLen
Ask(l) == (LaneLen(l) + Buffer + PageLen - 1) \div PageLen
Fits(l) == Ask(l) <= Cardinality(free)

(* lane l gets its blocks and slot idx *)
Admit(l) ==
  /\ \E bs \in Taken(free, Ask(l)) :
       /\ free' = free \ {bs[k] : k \in DOMAIN bs}
       /\ lane' = [lane EXCEPT ![idx] = WithBlocks(l, bs)]
  /\ toks' = toks + LaneLen(l)
  /\ idx' = idx + 1

AddParked ==
  /\ pc = "add" /\ idx < MaxBatch /\ parking # <<>>
  /\ Fits(Head(parking))
  /\ Admit(Head(parking))
  /\ parking' = Tail(parking)
  /\ UNCHANGED <<q, sent, pc, eoq, nactive, dev, topp, decr, fresh, answers>>

AddFromQueue ==
  /\ pc = "add" /\ idx < MaxBatch /\ parking = <<>> /\ ~eoq
  /\ q # <<>> /\ Head(q) # EOQ
  /\ q' = Tail(q)
  /\ LET l == NewLane(Head(q)) IN
       \/ Fits(l) /\ Admit(l) /\ UNCHANGED <<pc, parking>>
       \/ /\ ~Fits(l) /\ parking' = Append(parking, l) /\ pc' = "added"
          /\ UNCHANGED <<free, lane, toks, idx>>
  /\ UNCHANGED <<sent, eoq, nactive, dev, topp, decr, fresh, answers>>

AddReadNone ==
  /\ pc = "add" /\ idx < MaxBatch /\ parking = <<>> /\ ~eoq
  /\ q # <<>> /\ Head(q) = EOQ
  /\ q' = Tail(q) /\ eoq' = TRUE /\ pc' = "added"
  /\ UNCHANGED <<sent, nactive, lane, dev, topp, free, parking, idx, decr, toks,
                 fresh, answers>>

(* q.get(block = (idx = 0)): an empty queue ends the loop unless idle *)
AddBreak ==
  /\ pc = "add"
  /\ \/ idx = MaxBatch
     \/ parking # <<>> /\ ~Fits(Head(parking))
     \/ parking = <<>> /\ eoq
     \/ parking = <<>> /\ ~eoq /\ q = <<>> /\ idx # 0
  /\ pc' = "added"
  /\ UNCHANGED <<q, sent, eoq, nactive, lane, dev, topp, free, parking, idx, decr,
                 toks, fresh, answers>>

TooFewWhenIdle == toks < MinPrefill /\ idx - nactive < MinPrefillBatch /\ ~eoq

TooFew ==
  /\ toks < MinPrefill /\ idx - nactive < MinPrefillBatch
  /\ ~eoq /\ nactive > 0

(* the lanes of slots nactive..idx-1, put back in front of the parking *)
Undone == [k \in 1..(idx - nactive) |-> Freed(lane[nactive + k - 1])] \o parking

(* Too little to prefill while others decode: the new lanes are parked again. *)
AddUndo ==
  /\ pc = "added" /\ TooFew
  /\ free' = free \cup UNION {BlockSet(lane[i]) : i \in nactive..(idx - 1)}
  /\ parking' = Undone
  /\ lane' = [i \in Slots |-> IF i \in nactive..(idx - 1) THEN Freed(lane[i]) ELSE lane[i]]
  /\ idx' = Last
  /\ pc' = "finish"
  /\ UNCHANGED <<q, sent, eoq, nactive, dev, topp, decr, toks, fresh, answers>>

AddNone ==
  /\ pc = "added" /\ ~TooFew /\ idx = nactive
  /\ idx' = Last
  /\ pc' = "finish"
  /\ UNCHANGED <<q, sent, eoq, nactive, lane, dev, topp, free, parking, decr, toks,
                 fresh, answers>>

-----------------------------------------------------------------------------
(* _prefill: the rows of the added lanes are written, one token is drawn. *)

Prefill ==
  /\ pc = "added" /\ ~TooFew /\ idx > nactive
  /\ dev' = [i \in Slots |->
               IF i \in nactive..(idx - 1)
               THEN [seqlen |-> LaneLen(lane[i]) + 1,
                     maxlen |-> LaneMaxLen(lane[i].id),
                     blktbl |-> [b \in Blocks |->
                                   IF b < Len(lane[i].blocks) THEN lane[i].blocks[b + 1]
                                   ELSE dev[i].blktbl[b]]]
               ELSE dev[i]]
  /\ topp' = topp \cup {i \in nactive..(idx - 1) : lane[i].id \in TopP}
  /\ fresh' = [i \in Slots |-> IF i \in nactive..(idx - 1) THEN 1 ELSE fresh[i]]
  /\ nactive' = idx
  /\ idx' = idx - 1
  /\ pc' = "finish"
  /\ UNCHANGED <<q, sent, eoq, lane, free, parking, decr, toks, answers>>

-----------------------------------------------------------------------------
(***************************************************************************)
(* The finish loop, in reverse slot order.  A lane ends when it is too     *)
(* long, or when its new tokens hold a stop token or complete its stop     *)
(* string, which is left open: a lane that is not too long may go either   *)
(* way.                                                                    *)
(***************************************************************************)
TooLong(i) == dev[i].seqlen >= dev[i].maxlen
Extended(i) == [lane EXCEPT ![i].ntok = @ + fresh[i]]

FinishKeep ==
  /\ pc = "finish" /\ idx >= 0 /\ ~TooLong(idx)
  /\ lane' = Extended(idx)
  /\ idx' = idx - 1
  /\ UNCHANGED <<q, sent, pc, eoq, nactive, dev, topp, free, parking, decr, toks,
                 fresh, answers>>

FinishYield ==
  /\ pc = "finish" /\ idx >= 0
  /\ lane' = Extended(idx)
  /\ answers' = [answers EXCEPT ![lane[idx].id] = @ + 1]
  /\ pc' = "yielded"
  /\ UNCHANGED <<q, sent, eoq, nactive, dev, topp, free, parking, idx, decr, toks, fresh>>

(* resumed by the caller: the lane is killed *)
FinishKill ==
  /\ pc = "yielded"
  /\ free' = KilledFree(idx)
  /\ lane' = KilledLane(idx)
  /\ dev' = KilledDev(idx)
  /\ topp' = KilledTopP(idx)
  /\ nactive' = Last
  /\ idx' = idx - 1
  /\ pc' = "finish"
  /\ UNCHANGED <<q, sent, eoq, parking, decr, toks, fresh, answers>>

FinishEnd ==
  /\ pc = "finish" /\ idx < 0
  /\ pc' = "loop"
  /\ UNCHANGED <<q, sent, eoq, nactive, lane, dev, topp, free, parking, idx, decr,
                 toks, fresh, answers>>

-----------------------------------------------------------------------------
Init ==
  /\ q = <<>> /\ sent = {}
  /\ pc = "loop" /\ eoq = FALSE
  /\ nactive = 0
  /\ lane = [i \in Slots |-> DeadLane]
  /\ dev = [i \in Slots |-> DeadRow]
  /\ topp = {} /\ free = InitialFree /\ parking = <<>>
  /\ idx = 0 /\ decr = [i \in {} |-> 0] /\ toks = 0
  /\ fresh = [i \in Slots |-> 0]
  /\ answers = [r \in Reqs |-> 0]

Client == PutEOQ \/ \E r \in Reqs : Put(r)

Prepare == \/ PrepareSkip \/ PrepareGrow \/ PrepareParkSelf \/ PreparePark
           \/ PrepareFull \/ PrepareEnd
AddLanes == AddParked \/ AddFromQueue \/ AddReadNone \/ AddBreak \/ AddUndo \/ AddNone
Finish == FinishKeep \/ FinishYield \/ FinishKill \/ FinishEnd

Generator == Iterate \/ Return \/ Prepare \/ Decode \/ AddLanes \/ Prefill \/ Finish

Stopped == pc = "stopped" /\ EOQ \in sent /\ UNCHANGED vars

Next == Client \/ Generator \/ Stopped

Spec == Init /\ [][Next]_vars

(* The caller keeps asking the generator for its next item. *)
FairSpec == Spec /\ WF_vars(Generator)

-----------------------------------------------------------------------------
(* Properties *)

Lanes == [id : Reqs \cup {NoReq}, ntok : Nat, blocks : Seq(Blocks)]
Rows  == [seqlen : Nat, maxlen : Nat, blktbl : [Blocks -> Blocks]]

QueueType == q \in Seq(Reqs \cup {EOQ}) /\ sent \subseteq Reqs \cup {EOQ}

ControlType ==
  /\ pc \in {"loop", "prepare", "decode", "add", "added", "finish", "yielded", "stopped"}
  /\ nactive \in 0..MaxBatch /\ idx \in -1..MaxBatch /\ toks \in Nat

LaneType ==
  /\ lane \in [Slots -> Lanes] /\ dev \in [Slots -> Rows]
  /\ topp \subseteq Slots /\ free \subseteq Blocks /\ parking \in Seq(Lanes)

CountType == fresh \in [Slots -> Nat] /\ answers \in [Reqs -> Nat]

(* Every variable of the generator stays in its type. *)
TypeOK == QueueType /\ ControlType /\ LaneType /\ CountType /\ eoq \in BOOLEAN

(* The slots that hold blocks: the active ones, and in _add_lanes the new ones. *)
Held == 0..(IF pc \in {"add", "added"} THEN idx ELSE nactive) - 1

NoRepeat(bs) == \A j, k \in DOMAIN bs : j # k => bs[j] # bs[k]

Partition(F, L, H) ==
  /\ F \cup UNION {BlockSet(L[i]) : i \in H} = Blocks
  /\ \A i \in H : BlockSet(L[i]) \cap F = {} /\ NoRepeat(L[i].blocks)
  /\ \A i, j \in H : i # j => BlockSet(L[i]) \cap BlockSet(L[j]) = {}

(***************************************************************************)
(* Every cache block is either free or in exactly one place of exactly one *)
(* lane, whatever sequence of parking, unparking, growing, undoing and     *)
(* killing lanes led here; a lane that holds no slot holds no block.       *)
(***************************************************************************)
BlocksPartitioned ==
  /\ Partition(free, lane, Held)
  /\ \A i \in Slots \ Held : lane[i].blocks = <<>>
  /\ \A k \in DOMAIN parking : parking[k].blocks = <<>>

(***************************************************************************)
(* When _decode runs, the device tensors describe the same lanes as the    *)
(* host: killing lanes moves slots around on both sides alike.  A lane     *)
(* that needs top_p sampling is known to _sample, whatever slot it is in.  *)
(***************************************************************************)
DeviceMirrorsHost ==
  pc = "decode" =>
    \A i \in Slots :
      IF i < nactive
      THEN /\ dev[i].seqlen = LaneLen(lane[i])
           /\ dev[i].maxlen = LaneMaxLen(lane[i].id)
           /\ \A b \in DOMAIN lane[i].blocks : dev[i].blktbl[b - 1] = lane[i].blocks[b]
           /\ lane[i].id \in TopP => i \in topp
      ELSE dev[i] = DeadRow /\ lane[i].blocks = <<>>

(***************************************************************************)
(* The assertions at the end of _prepare_lanes and at the start of         *)
(* _decode: each lane has the blocks for sync_freq more tokens (or for     *)
(* max_seq), and no lane has reached max_seq; so every position that       *)
(* decode has written lies in a block of the lane.                         *)
(***************************************************************************)
WritesInBlocks ==
  /\ pc = "decode" =>
       /\ nactive > 0 /\ \A i \in Slots : dev[i].seqlen < MaxSeq
       /\ \A i \in 0..Last : MinOf(MaxSeq, LaneLen(lane[i]) + SyncFreq) <= Avail(lane[i])
  /\ pc \in {"add", "added", "finish"} =>
       \A i \in 0..Last : dev[i].seqlen - 1 <= Avail(lane[i])

Count(S, P(_)) == Cardinality({x \in S : P(x)})

(***************************************************************************)
(* A packet put on the queue is in exactly one place: the queue, the       *)
(* parking, a lane, or it has been yielded once.  None is lost or answered *)
(* twice, through any sequence of moves.                                   *)
(***************************************************************************)
Accounted ==
  \A r \in Reqs :
    Count(DOMAIN q, LAMBDA k : q[k] = r)
      + Count(DOMAIN parking, LAMBDA k : parking[k].id = r)
      + Count(Held, LAMBDA i : lane[i].id = r)
      + answers[r]
    = (IF r \in sent THEN 1 ELSE 0)
      + (IF pc = "yielded" /\ lane[idx].id = r THEN 1 ELSE 0)

(* "evict short lanes first": a lane parked for its blocks is a shortest one. *)
EvictShortFirst ==
  [][pc = "prepare" /\ nactive' < nactive =>
       \A i \in 0..(nactive' - 1) :
          LaneLen(parking'[Len(parking')]) <= LaneLen(lane'[i])]_vars

(* api.GenAPI.generate: a completion for each prompt, and one only, *)
EveryPacketAnswered == []Accounted /\ \A r \in Reqs : r \in sent ~> answers[r] = 1

(* and after None the in-flight generations complete and generate returns. *)
GenerateReturns == EOQ \in sent ~> pc = "stopped"
=============================================================================
