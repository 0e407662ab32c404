--------------------------- MODULE FastGenProofs ---------------------------
(* Proofs about the scheduler of FastGen, for every value of its constants. *)
EXTENDS FastGen, SequenceTheorems, FiniteSetTheorems, TLAPS

(***************************************************************************)
(* The order in which _prepare_lanes visits lanes stays usable: the part   *)
(* of decr still to visit names distinct active slots, although parking a  *)
(* lane moves another one into its slot.                                   *)
(***************************************************************************)
DecrInv ==
  pc = "prepare" =>
    /\ idx \in 0..nactive
    /\ \A n \in idx..Last : n \in DOMAIN decr /\ decr[n] \in 0..Last
    /\ \A m, n \in idx..Last : decr[m] = decr[n] => m = n

(* The loop index of the other phases lies in the range the phase walks. *)
IdxInv ==
  /\ pc \in {"add", "added"} => idx \in nactive..MaxBatch
  /\ pc = "finish" => idx \in -1..Last
  /\ pc = "yielded" => idx \in 0..Last

(* Slots that hold blocks, and parked lanes, belong to a request. *)
RequestInv ==
  /\ \A i \in Held : lane[i].id \in Reqs
  /\ \A k \in DOMAIN parking : parking[k].id \in Reqs

IInv == TypeOK /\ DecrInv /\ IdxInv /\ RequestInv

-----------------------------------------------------------------------------
(* The initial state satisfies the invariant. *)
LEMMA InitIInv == Init => IInv
  <1>. SUFFICES ASSUME Init PROVE IInv
    OBVIOUS
  <1>. USE ConstantAssumption, RequestAssumption
  <1>1. DeadLane \in Lanes /\ DeadRow \in Rows
    BY DEF Lanes, Rows, DeadLane, DeadRow, Blocks
  <1>2. TypeOK
    <2>1. QueueType /\ CountType
      BY DEF Init, QueueType, CountType
    <2>2. ControlType
      BY DEF Init, ControlType
    <2>3. LaneType
      BY <1>1 DEF Init, LaneType, InitialFree
    <2>4. eoq \in BOOLEAN
      BY DEF Init
    <2>. QED BY <2>1, <2>2, <2>3, <2>4 DEF TypeOK
  <1>3. DecrInv /\ IdxInv
    BY DEF Init, DecrInv, IdxInv
  <1>4. RequestInv
    BY DEF Init, RequestInv, Held
  <1>. QED BY <1>2, <1>3, <1>4 DEF IInv

-----------------------------------------------------------------------------
(* Facts about lanes and the operators that change them. *)

(* A lane of a request has a length. *)
LEMMA LaneLenType ==
  ASSUME NEW l \in Lanes, l.id \in Reqs
  PROVE  LaneLen(l) \in Nat /\ Ask(l) \in Nat /\ LaneMaxLen(l.id) \in Nat
  <1>1. LaneLen(l) \in Nat
    BY RequestAssumption DEF Lanes, LaneLen
  <1>2. Ask(l) \in Nat
    BY <1>1, ConstantAssumption DEF Ask
  <1>3. LaneMaxLen(l.id) \in Nat
    BY ConstantAssumption, RequestAssumption DEF LaneMaxLen, MinOf, MaxSeq
  <1>. QED BY <1>1, <1>2, <1>3

(* ISet.take returns a list of elements of the set. *)
LEMMA TakenType ==
  ASSUME NEW S \in SUBSET Int, NEW n \in Nat, NEW bs \in Taken(S, n)
  PROVE  /\ bs \in Seq(S) /\ Len(bs) = n
         /\ \A j, k \in 1..n : bs[j] = bs[k] => j = k
  <1>1. bs \in [1..n -> S]
    BY DEF Taken
  <1>2. bs \in Seq(S) /\ Len(bs) = n
    BY <1>1
  <1>3. \A j, k \in 1..n : bs[j] = bs[k] => j = k
    <2>. SUFFICES ASSUME NEW j \in 1..n, NEW k \in 1..n, bs[j] = bs[k], j < k PROVE FALSE
      OBVIOUS
    <2>1. bs[j] < bs[k]
      BY DEF Taken
    <2>2. bs[j] \in Int /\ bs[k] \in Int
      BY <1>1
    <2>. QED BY <2>1, <2>2
  <1>. QED BY <1>2, <1>3

(* _kill_lane(i) keeps types; the lane of the last slot moves to slot i. *)
LEMMA KilledFacts ==
  ASSUME LaneType, nactive \in 1..MaxBatch, NEW i \in 0..Last
  PROVE  /\ KilledFree(i) \subseteq Blocks /\ KilledTopP(i) \subseteq Slots
         /\ KilledLane(i) \in [Slots -> Lanes] /\ KilledDev(i) \in [Slots -> Rows]
         /\ \A j \in 0..(Last - 1) :
              KilledLane(i)[j] = IF j = i THEN lane[Last] ELSE lane[j]
         /\ \A j \in Slots : j >= Last => KilledLane(i)[j] =
              IF j = Last THEN DeadLane ELSE lane[j]
  <1>. USE ConstantAssumption
  <1>1. i \in Slots /\ Last \in Slots
    BY DEF Slots, Last
  <1>2. DeadLane \in Lanes /\ DeadRow \in Rows
    BY DEF Lanes, Rows, DeadLane, DeadRow, Blocks
  <1>3. KilledFree(i) \subseteq Blocks
    <2>1. lane[i].blocks \in Seq(Blocks)
      BY <1>1 DEF LaneType, Lanes
    <2>2. BlockSet(lane[i]) \subseteq Blocks
      BY <2>1 DEF BlockSet
    <2>. QED BY <2>2 DEF KilledFree, LaneType
  <1>4. KilledTopP(i) \subseteq Slots
    BY <1>1 DEF KilledTopP, LaneType
  <1>5. KilledLane(i) \in [Slots -> Lanes]
    BY <1>1, <1>2 DEF KilledLane, LaneType
  <1>6. KilledDev(i) \in [Slots -> Rows]
    BY <1>1, <1>2 DEF KilledDev, LaneType
  <1>7. \A j \in 0..(Last - 1) :
          KilledLane(i)[j] = IF j = i THEN lane[Last] ELSE lane[j]
    BY <1>1 DEF KilledLane, LaneType, Slots, Last
  <1>8. \A j \in Slots : j >= Last => KilledLane(i)[j] =
          IF j = Last THEN DeadLane ELSE lane[j]
    BY <1>1 DEF KilledLane, LaneType, Slots, Last
  <1>. QED BY <1>3, <1>4, <1>5, <1>6, <1>7, <1>8

-----------------------------------------------------------------------------
(* Steps of the clients and of the loop test. *)

LEMMA ClientStep == IInv /\ Client => IInv'
  <1>. SUFFICES ASSUME IInv, Client PROVE IInv'
    OBVIOUS
  <1>. USE DEF IInv, TypeOK
  <1>1. UNCHANGED <<pc, eoq, nactive, lane, dev, topp, free, parking, idx, decr,
                    toks, fresh, answers>>
    BY DEF Client, Put, PutEOQ
  <1>2. QueueType'
    BY DEF Client, Put, PutEOQ, QueueType
  <1>3. ControlType' /\ LaneType' /\ CountType'
    BY <1>1 DEF ControlType, LaneType, CountType
  <1>4. eoq' \in BOOLEAN
    BY <1>1
  <1>5. DecrInv' /\ IdxInv' /\ RequestInv'
    BY <1>1 DEF DecrInv, IdxInv, RequestInv, Held, Last
  <1>. QED BY <1>2, <1>3, <1>4, <1>5

(* The steps of the loop around an iteration. *)
LEMMA LoopStep == IInv /\ (Iterate \/ Return \/ Stopped) => IInv'
  <1>. SUFFICES ASSUME IInv, Iterate \/ Return \/ Stopped PROVE IInv'
    OBVIOUS
  <1>. USE ConstantAssumption DEF IInv, TypeOK
  <1>0. UNCHANGED <<q, sent, eoq, nactive, lane, dev, topp, free, parking, toks, answers>>
    BY DEF Iterate, Return, Stopped, vars
  <1>1. QueueType' /\ LaneType'
    BY <1>0 DEF QueueType, LaneType
  <1>2. ControlType'
    BY <1>0 DEF Iterate, Return, Stopped, vars, ControlType
  <1>3. CountType'
    BY <1>0 DEF Iterate, Return, Stopped, vars, CountType, Slots
  <1>4. eoq' \in BOOLEAN
    BY <1>0
  <1>5. DecrInv'
    <2>1. CASE Iterate
      <3>1. /\ decr' \in [0..Last -> 0..Last] /\ idx' = 0 /\ nactive' = nactive
            /\ nactive \in Nat /\ Last' = Last /\ Last = nactive - 1
        BY <2>1, <1>0 DEF Iterate, DecreasingOrder, ControlType, Last
      <3>2. ASSUME NEW m \in 0..Last, NEW n \in 0..Last, m < n
            PROVE  decr'[m] # decr'[n]
        <4>1. decr'[m] \in 0..Last /\ decr'[n] \in 0..Last
          BY <3>1
        <4>2. LaneLen(lane[decr'[m]]) \in Nat
          <5>1. decr'[m] \in Held /\ decr'[m] \in Slots
            BY <2>1, <3>1, <4>1 DEF Iterate, Held, Slots, ControlType
          <5>2. lane[decr'[m]] \in Lanes /\ lane[decr'[m]].id \in Reqs
            BY <5>1 DEF LaneType, RequestInv
          <5>. QED BY <5>2, LaneLenType
        <4>3. \/ LaneLen(lane[decr'[m]]) > LaneLen(lane[decr'[n]])
              \/ decr'[m] < decr'[n]
          BY <2>1, <3>2 DEF Iterate, DecreasingOrder
        <4>. QED BY <4>1, <4>2, <4>3
      <3>3. \A m, n \in 0..Last : decr'[m] = decr'[n] => m = n
        <4>. SUFFICES ASSUME NEW m \in 0..Last, NEW n \in 0..Last,
                             decr'[m] = decr'[n], m # n
                      PROVE  FALSE
          OBVIOUS
        <4>1. m < n \/ n < m
          BY <3>1
        <4>. QED BY <4>1, <3>2
      <3>. QED BY <3>1, <3>3 DEF DecrInv
    <2>2. CASE Return \/ Stopped
      BY <2>2 DEF Return, Stopped, vars, DecrInv, Last
    <2>. QED BY <2>1, <2>2
  <1>6. IdxInv' /\ RequestInv'
    BY <1>0 DEF Iterate, Return, Stopped, vars, IdxInv, RequestInv, Held
  <1>. QED BY <1>1, <1>2, <1>3, <1>4, <1>5, <1>6

-----------------------------------------------------------------------------
(* Steps of _prepare_lanes. *)

(* A block appended to a lane, and entered in its block table, keeps types. *)
LEMMA GrownFacts ==
  ASSUME NEW L \in [Slots -> Lanes], NEW D \in [Slots -> Rows],
         NEW i \in Slots, NEW b \in Blocks, NEW k
  PROVE  /\ Grown(L, i, b) \in [Slots -> Lanes]
         /\ \A j \in Slots : Grown(L, i, b)[j].id = L[j].id
         /\ Tabled(D, i, k, b) \in [Slots -> Rows]
  <1>1. Append(L[i].blocks, b) \in Seq(Blocks)
    BY DEF Lanes
  <1>2. Grown(L, i, b) \in [Slots -> Lanes]
    BY <1>1 DEF Lanes, Grown
  <1>3. \A j \in Slots : Grown(L, i, b)[j].id = L[j].id
    BY DEF Lanes, Grown
  <1>4. Tabled(D, i, k, b) \in [Slots -> Rows]
    BY DEF Rows, Tabled
  <1>. QED BY <1>2, <1>3, <1>4

(* A parked lane is a lane of the same request. *)
LEMMA ParkedFacts ==
  ASSUME NEW l \in Lanes
  PROVE  Freed(l) \in Lanes /\ Freed(l).id = l.id /\ Freed(l).blocks = <<>>
  <1>1. <<>> \in Seq(Blocks)
    OBVIOUS
  <1>. QED BY <1>1 DEF Freed, Lanes

(* The iteration starts. *)
LEMMA PrepareStep == IInv /\ Prepare => IInv'
  <1>. SUFFICES ASSUME IInv, Prepare PROVE IInv'
    OBVIOUS
  <1>. USE ConstantAssumption DEF IInv, TypeOK
  <1>0. /\ pc = "prepare" /\ nactive \in 0..MaxBatch /\ idx \in 0..nactive
        /\ Held = 0..Last /\ Last = nactive - 1
        /\ UNCHANGED <<q, sent, eoq, fresh, answers>>
    BY DEF Prepare, PrepareSkip, PrepareGrow, PrepareParkSelf, PreparePark, PrepareFull,
           PrepareEnd, ControlType, DecrInv, Held, Last
  <1>1. QueueType' /\ CountType'
    BY <1>0 DEF QueueType, CountType
  <1>2. eoq' \in BOOLEAN
    BY <1>0
  <1>3. CASE PrepareSkip \/ PrepareFull \/ PrepareEnd
    <2>1. UNCHANGED <<nactive, lane, dev, topp, free, parking, decr>>
      BY <1>3 DEF PrepareSkip, PrepareFull, PrepareEnd
    <2>2. ControlType'
      BY <1>0, <1>3 DEF PrepareSkip, PrepareFull, PrepareEnd, ControlType
    <2>3. LaneType'
      BY <2>1 DEF LaneType
    <2>4. DecrInv'
      BY <1>0, <1>3 DEF PrepareSkip, PrepareFull, PrepareEnd, DecrInv, Last
    <2>5. IdxInv'
      BY <1>0, <1>3 DEF PrepareSkip, PrepareFull, PrepareEnd, IdxInv
    <2>6. Held' = Held
      BY <1>0, <1>3 DEF PrepareSkip, PrepareFull, PrepareEnd, Held
    <2>7. RequestInv'
      BY <2>1, <2>6 DEF RequestInv
    <2>. QED BY <1>1, <1>2, <2>2, <2>3, <2>4, <2>5, <2>7
  <1>4. CASE PrepareGrow
    <2>1. idx \in 0..Last /\ decr[idx] \in 0..Last /\ decr[idx] \in Slots
      BY <1>0, <1>4 DEF PrepareGrow, DecrInv, Slots
    <2>2. PICK bs \in Taken(free, 1) :
            /\ free' = free \ {bs[1]}
            /\ lane' = Grown(lane, decr[idx], bs[1])
            /\ dev'  = Tabled(dev, decr[idx], Len(Visited.blocks), bs[1])
      BY <1>4 DEF PrepareGrow
    <2>3. bs[1] \in Blocks
      BY DEF Taken, LaneType
    <2>4. UNCHANGED <<pc, nactive, topp, parking, idx, decr>>
      BY <1>4 DEF PrepareGrow
    <2>5. toks' \in Nat
      BY <1>4 DEF PrepareGrow, ControlType
    <2>6. ControlType'
      BY <2>4, <2>5 DEF ControlType
    <2>7. LaneType' /\ \A j \in Slots : lane'[j].id = lane[j].id
      <3>1. lane \in [Slots -> Lanes] /\ dev \in [Slots -> Rows]
        BY DEF LaneType
      <3>2. /\ lane' \in [Slots -> Lanes] /\ dev' \in [Slots -> Rows]
            /\ \A j \in Slots : lane'[j].id = lane[j].id
        BY <2>1, <2>2, <2>3, <3>1, GrownFacts
      <3>. QED BY <2>2, <2>4, <3>2 DEF LaneType
    <2>8. DecrInv' /\ IdxInv'
      BY <2>4 DEF DecrInv, IdxInv, Last
    <2>9. Held' = Held /\ Held \subseteq Slots
      BY <1>0, <2>4 DEF Held, Slots
    <2>10. RequestInv'
      BY <2>4, <2>7, <2>9 DEF RequestInv
    <2>. QED BY <1>1, <1>2, <2>6, <2>7, <2>8, <2>10
  <1>5. CASE PrepareParkSelf
    <2>. DEFINE p == decr[Last]
    <2>1. Last \in idx..Last /\ nactive \in 1..MaxBatch /\ Last \in Nat
      BY <1>0, <1>5 DEF PrepareParkSelf
    <2>2. p \in 0..Last /\ p \in Slots
      BY <1>0, <2>1 DEF DecrInv, Slots
    <2>3. /\ KilledFree(p) \subseteq Blocks /\ KilledTopP(p) \subseteq Slots
          /\ KilledLane(p) \in [Slots -> Lanes] /\ KilledDev(p) \in [Slots -> Rows]
          /\ \A j \in 0..(Last - 1) : KilledLane(p)[j] = IF j = p THEN lane[Last] ELSE lane[j]
      BY <2>1, <2>2, KilledFacts
    <2>4. Freed(lane[p]) \in Lanes /\ Freed(lane[p]).id \in Reqs
      BY <1>0, <2>2, ParkedFacts DEF LaneType, RequestInv
    <2>5. parking' = Append(parking, Freed(lane[p])) /\ parking \in Seq(Lanes)
      BY <1>5 DEF PrepareParkSelf, LaneType
    <2>6. LaneType'
      BY <1>5, <2>3, <2>4, <2>5 DEF PrepareParkSelf, LaneType
    <2>7. ControlType'
      BY <1>5, <2>1 DEF PrepareParkSelf, ControlType
    <2>8. DecrInv' /\ IdxInv'
      BY <1>5 DEF PrepareParkSelf, DecrInv, IdxInv
    <2>9. RequestInv'
      <3>1. Held' = 0..(Last - 1) /\ lane' = KilledLane(p)
        BY <1>5 DEF PrepareParkSelf, Held
      <3>2. \A j \in Held' : lane'[j].id \in Reqs
        <4>. SUFFICES ASSUME NEW j \in 0..(Last - 1) PROVE KilledLane(p)[j].id \in Reqs
          BY <3>1
        <4>1. j \in 0..Last /\ Last \in 0..Last
          BY <2>1
        <4>2. lane[j].id \in Reqs /\ lane[Last].id \in Reqs
          BY <1>0, <4>1 DEF RequestInv
        <4>. QED BY <2>3, <4>2
      <3>3. \A k \in DOMAIN parking' : parking'[k].id \in Reqs
        BY <2>4, <2>5 DEF RequestInv
      <3>. QED BY <3>2, <3>3 DEF RequestInv
    <2>. QED BY <1>1, <1>2, <2>6, <2>7, <2>8, <2>9
  <1>6. CASE PreparePark
    <2>. DEFINE p == decr[Last]
                d == FixedDecr[idx]
                kl == KilledLane(p)
                kd == KilledDev(p)
    <2>1. Last \in idx..Last /\ nactive \in 1..MaxBatch /\ Last \in Nat /\ idx \in 0..(Last - 1)
      BY <1>0, <1>6 DEF PreparePark
    <2>2. p \in 0..Last /\ p \in Slots
      BY <1>0, <2>1 DEF DecrInv, Slots
    <2>3. /\ KilledFree(p) \subseteq Blocks /\ KilledTopP(p) \subseteq Slots
          /\ KilledLane(p) \in [Slots -> Lanes] /\ KilledDev(p) \in [Slots -> Rows]
          /\ \A j \in 0..(Last - 1) : kl[j] = IF j = p THEN lane[Last] ELSE lane[j]
      BY <2>1, <2>2, KilledFacts
    <2>4. Freed(lane[p]) \in Lanes /\ Freed(lane[p]).id \in Reqs
      BY <1>0, <2>2, ParkedFacts DEF LaneType, RequestInv
    <2>5. parking' = Append(parking, Freed(lane[p])) /\ parking \in Seq(Lanes)
      BY <1>6 DEF PreparePark, LaneType
    <2>6. PICK bs \in Taken(KilledFree(p), 1) :
            /\ free' = KilledFree(p) \ {bs[1]}
            /\ lane' = Grown(kl, d, bs[1])
            /\ dev'  = Tabled(kd, d, Len(kl[d].blocks), bs[1])
      BY <1>6 DEF PreparePark
    <2>7. bs[1] \in Blocks
      BY <2>3 DEF Taken
    <2>8. /\ \A n \in idx..(Last - 1) : n \in DOMAIN FixedDecr /\ FixedDecr[n] \in 0..(Last - 1)
          /\ \A m, n \in idx..(Last - 1) : FixedDecr[m] = FixedDecr[n] => m = n
      <3>1. \A n \in idx..(Last - 1) : /\ n \in DOMAIN decr /\ decr[n] \in 0..Last
                                       /\ decr[n] # p
        BY <1>0, <2>1 DEF DecrInv
      <3>2. \A n \in idx..(Last - 1) :
              n \in DOMAIN FixedDecr /\ FixedDecr[n] = IF decr[n] = Last THEN p ELSE decr[n]
        BY <3>1 DEF FixedDecr
      <3>3. \A m, n \in idx..(Last - 1) : decr[m] = decr[n] => m = n
        BY <1>0, <2>1 DEF DecrInv
      <3>4. \A n \in idx..(Last - 1) : FixedDecr[n] \in 0..(Last - 1)
        BY <2>1, <2>2, <3>1, <3>2
      <3>5. \A m, n \in idx..(Last - 1) : FixedDecr[m] = FixedDecr[n] => m = n
        BY <3>1, <3>2, <3>3
      <3>. QED BY <3>2, <3>4, <3>5
    <2>9. d \in 0..(Last - 1) /\ d \in Slots
      BY <1>0, <2>1, <2>8 DEF Slots
    <2>10. /\ lane' \in [Slots -> Lanes] /\ dev' \in [Slots -> Rows]
           /\ \A j \in Slots : lane'[j].id = kl[j].id
      BY <2>3, <2>6, <2>7, <2>9, GrownFacts
    <2>11. /\ nactive' = Last /\ pc' = pc /\ idx' = idx /\ decr' = FixedDecr
           /\ topp' = KilledTopP(p) /\ toks' = toks
      BY <1>6 DEF PreparePark
    <2>12. LaneType'
      BY <2>3, <2>4, <2>5, <2>6, <2>10, <2>11 DEF LaneType
    <2>13. ControlType'
      BY <1>0, <2>1, <2>11 DEF ControlType
    <2>14. DecrInv'
      BY <1>0, <2>1, <2>8, <2>11 DEF DecrInv, Last
    <2>15. IdxInv'
      BY <1>0, <2>11 DEF IdxInv
    <2>16. RequestInv'
      <3>1. Held' = 0..(Last - 1) /\ Held' \subseteq Slots
        BY <1>0, <2>1, <2>11 DEF Held, Slots
      <3>2. \A j \in Held' : lane'[j].id \in Reqs
        BY <1>0, <2>1, <2>3, <2>10, <3>1 DEF RequestInv
      <3>3. \A k \in DOMAIN parking' : parking'[k].id \in Reqs
        BY <2>4, <2>5 DEF RequestInv
      <3>. QED BY <3>2, <3>3 DEF RequestInv
    <2>. QED BY <1>1, <1>2, <2>12, <2>13, <2>14, <2>15, <2>16
  <1>. QED BY <1>3, <1>4, <1>5, <1>6 DEF Prepare

-----------------------------------------------------------------------------
(* Steps of _decode and _add_lanes. *)

LEMMA DecodeStep == IInv /\ Decode => IInv'
  <1>. SUFFICES ASSUME IInv, Decode PROVE IInv'
    OBVIOUS
  <1>. USE ConstantAssumption DEF IInv, TypeOK
  <1>0. /\ pc = "decode" /\ nactive \in 0..MaxBatch /\ pc' = "add" /\ idx' = nactive
        /\ UNCHANGED <<q, sent, eoq, nactive, lane, topp, free, parking, answers>>
        /\ toks' = 0
    BY DEF Decode, ControlType
  <1>1. PICK n \in NSteps :
          /\ dev' = [i \in Slots |->
                       IF i < nactive THEN [dev[i] EXCEPT !.seqlen = @ + n] ELSE dev[i]]
          /\ fresh' = [i \in Slots |-> IF i < nactive THEN n ELSE 0]
    BY DEF Decode
  <1>2. n \in Nat
    BY DEF NSteps
  <1>3. QueueType' /\ eoq' \in BOOLEAN
    <2>1. QueueType'
      BY <1>0 DEF QueueType
    <2>2. eoq' \in BOOLEAN
      BY <1>0
    <2>. QED BY <2>1, <2>2
  <1>4. ControlType' /\ IdxInv' /\ DecrInv'
    BY <1>0 DEF ControlType, IdxInv, DecrInv
  <1>5. LaneType'
    <2>1. ASSUME NEW i \in Slots
          PROVE  [dev[i] EXCEPT !.seqlen = @ + n] \in Rows
      <3>1. dev[i] \in Rows
        BY DEF LaneType
      <3>. QED BY <1>2, <3>1 DEF Rows
    <2>2. dev' \in [Slots -> Rows]
      BY <1>1, <2>1 DEF LaneType
    <2>. QED BY <1>0, <2>2 DEF LaneType
  <1>6. CountType'
    BY <1>0, <1>1, <1>2 DEF CountType
  <1>7. RequestInv'
    BY <1>0 DEF RequestInv, Held
  <1>. QED BY <1>3, <1>4, <1>5, <1>6, <1>7

(* A lane that gets its blocks takes slot idx and leaves the others alone. *)
LEMMA AdmitFacts ==
  ASSUME LaneType, toks \in Nat, idx \in Slots,
         NEW l \in Lanes, l.id \in Reqs, Admit(l)
  PROVE  /\ lane' \in [Slots -> Lanes] /\ free' \subseteq Blocks
         /\ toks' \in Nat /\ idx' = idx + 1
         /\ lane'[idx].id = l.id /\ \A j \in Slots \ {idx} : lane'[j] = lane[j]
  <1>. USE ConstantAssumption
  <1>1. LaneLen(l) \in Nat /\ Ask(l) \in Nat
    BY LaneLenType
  <1>2. PICK bs \in Taken(free, Ask(l)) :
          /\ free' = free \ {bs[k] : k \in DOMAIN bs}
          /\ lane' = [lane EXCEPT ![idx] = WithBlocks(l, bs)]
    BY DEF Admit
  <1>3. bs \in [1..Ask(l) -> Blocks]
    BY DEF Taken, LaneType
  <1>4. bs \in Seq(Blocks)
    BY <1>1, <1>3
  <1>5. WithBlocks(l, bs) \in Lanes /\ WithBlocks(l, bs).id = l.id
    BY <1>4 DEF WithBlocks, Lanes
  <1>6. free' \subseteq Blocks
    BY <1>2 DEF LaneType
  <1>7. /\ lane' \in [Slots -> Lanes]
        /\ lane'[idx].id = l.id /\ \A j \in Slots \ {idx} : lane'[j] = lane[j]
    BY <1>2, <1>5 DEF LaneType
  <1>8. toks' \in Nat /\ idx' = idx + 1
    BY <1>1 DEF Admit
  <1>. QED BY <1>6, <1>7, <1>8

(* Admitting a lane in the loop of _add_lanes preserves the invariant. *)
LEMMA AdmitStep ==
  ASSUME IInv, pc = "add", idx < MaxBatch,
         NEW l \in Lanes, l.id \in Reqs, Admit(l),
         UNCHANGED <<sent, pc, eoq, nactive, dev, topp, decr, fresh, answers>>,
         QueueType', parking' \in Seq(Lanes),
         \A k \in DOMAIN parking' : parking'[k].id \in Reqs
  PROVE  IInv'
  <1>. USE ConstantAssumption DEF IInv, TypeOK
  <1>1. idx \in nactive..(MaxBatch - 1) /\ nactive \in 0..MaxBatch /\ idx \in Slots
    BY DEF IdxInv, ControlType, Slots
  <1>2. /\ lane' \in [Slots -> Lanes] /\ free' \subseteq Blocks
        /\ toks' \in Nat /\ idx' = idx + 1
        /\ lane'[idx].id = l.id /\ \A j \in Slots \ {idx} : lane'[j] = lane[j]
    BY <1>1, AdmitFacts DEF ControlType
  <1>3. LaneType'
    BY <1>2 DEF LaneType
  <1>4. ControlType' /\ DecrInv' /\ IdxInv'
    <2>1. idx + 1 \in nactive..MaxBatch /\ idx + 1 \in -1..MaxBatch
      BY <1>1
    <2>2. ControlType'
      BY <1>2, <2>1 DEF ControlType
    <2>3. DecrInv'
      BY DEF DecrInv
    <2>4. IdxInv'
      BY <1>2, <2>1 DEF IdxInv
    <2>. QED BY <2>2, <2>3, <2>4
  <1>5. CountType'
    BY DEF CountType
  <1>6. eoq' \in BOOLEAN
    OBVIOUS
  <1>7. RequestInv'
    <2>1. Held = 0..(idx - 1) /\ Held' = 0..idx /\ Held' \subseteq Slots
      BY <1>1, <1>2 DEF Held, Slots
    <2>2. ASSUME NEW j \in Held'
          PROVE  lane'[j].id \in Reqs
      <3>1. CASE j = idx
        BY <1>2, <3>1
      <3>2. CASE j # idx
        <4>1. j \in Held /\ j \in Slots
          BY <1>1, <2>1, <3>2
        <4>. QED BY <1>2, <3>2, <4>1 DEF RequestInv
      <3>. QED BY <3>1, <3>2
    <2>. QED BY <2>2 DEF RequestInv
  <1>. QED BY <1>3, <1>4, <1>5, <1>6, <1>7

(* One iteration of the loop of _add_lanes, or the end of that loop. *)
LEMMA AddStep == IInv /\ (AddParked \/ AddFromQueue \/ AddReadNone \/ AddBreak) => IInv'
  <1>. SUFFICES ASSUME IInv, AddParked \/ AddFromQueue \/ AddReadNone \/ AddBreak PROVE IInv'
    OBVIOUS
  <1>. USE ConstantAssumption, RequestAssumption DEF IInv, TypeOK
  <1>0. parking \in Seq(Lanes) /\ q \in Seq(Reqs \cup {EOQ})
    BY DEF LaneType, QueueType
  <1>1. CASE AddParked
    <2>1. Head(parking) \in Lanes /\ Head(parking).id \in Reqs /\ Tail(parking) \in Seq(Lanes)
      BY <1>0, <1>1 DEF AddParked, RequestInv
    <2>2. \A k \in DOMAIN Tail(parking) : Tail(parking)[k].id \in Reqs
      BY <1>0, <1>1 DEF AddParked, RequestInv
    <2>3. QueueType'
      BY <1>1 DEF AddParked, QueueType
    <2>. QED BY <1>1, <2>1, <2>2, <2>3, AdmitStep DEF AddParked
  <1>2. CASE AddFromQueue
    <2>. DEFINE l == NewLane(Head(q))
    <2>1. Head(q) \in Reqs /\ Tail(q) \in Seq(Reqs \cup {EOQ})
      BY <1>0, <1>2 DEF AddFromQueue
    <2>2. l \in Lanes /\ l.id \in Reqs
      BY <2>1 DEF NewLane, Lanes
    <2>3. QueueType'
      BY <1>2, <2>1 DEF AddFromQueue, QueueType
    <2>4. CASE Admit(l) /\ UNCHANGED <<pc, parking>>
      <3>1. UNCHANGED <<sent, pc, eoq, nactive, dev, topp, decr, fresh, answers, parking>>
        BY <1>2, <2>4 DEF AddFromQueue
      <3>2. pc = "add" /\ idx < MaxBatch
        BY <1>2 DEF AddFromQueue
      <3>3. \A k \in DOMAIN parking' : parking'[k].id \in Reqs
        BY <3>1 DEF RequestInv
      <3>. HIDE DEF l
      <3>. QED BY <1>0, <2>2, <2>3, <2>4, <3>1, <3>2, <3>3, AdmitStep
    <2>5. CASE parking' = Append(parking, l) /\ pc' = "added" /\ UNCHANGED <<free, lane, toks, idx>>
      <3>0. UNCHANGED <<sent, eoq, nactive, dev, topp, decr, fresh, answers, free, lane, toks, idx>>
        BY <1>2, <2>5 DEF AddFromQueue
      <3>1. LaneType'
        BY <1>0, <2>2, <2>5, <3>0 DEF LaneType
      <3>2. ControlType' /\ DecrInv' /\ IdxInv'
        BY <1>2, <2>5, <3>0 DEF AddFromQueue, ControlType, DecrInv, IdxInv
      <3>3. CountType'
        BY <3>0 DEF CountType
      <3>4. eoq' \in BOOLEAN
        BY <3>0
      <3>5. RequestInv'
        <4>1. Held' = Held
          BY <1>2, <2>5, <3>0 DEF AddFromQueue, Held
        <4>2. \A k \in DOMAIN parking' : parking'[k].id \in Reqs
          BY <1>0, <2>2, <2>5 DEF RequestInv
        <4>. QED BY <3>0, <4>1, <4>2 DEF RequestInv
      <3>. QED BY <2>3, <3>1, <3>2, <3>3, <3>4, <3>5
    <2>. QED BY <1>2, <2>4, <2>5 DEF AddFromQueue
  <1>3. CASE AddReadNone \/ AddBreak
    <2>0. /\ pc = "add" /\ pc' = "added"
          /\ UNCHANGED <<sent, nactive, lane, dev, topp, free, parking, idx, decr, toks,
                         fresh, answers>>
      <3>1. CASE AddReadNone
        BY <3>1 DEF AddReadNone
      <3>2. CASE AddBreak
        BY <3>2 DEF AddBreak
      <3>. QED BY <1>3, <3>1, <3>2
    <2>1. QueueType'
      <3>1. ASSUME AddReadNone PROVE q' \in Seq(Reqs \cup {EOQ})
        <4>1. q # <<>> /\ q' = Tail(q)
          BY <3>1 DEF AddReadNone
        <4>. QED BY <1>0, <4>1
      <3>2. ASSUME AddBreak PROVE q' \in Seq(Reqs \cup {EOQ})
        <4>1. q' = q
          BY <3>2 DEF AddBreak
        <4>. QED BY <1>0, <4>1
      <3>3. q' \in Seq(Reqs \cup {EOQ})
        BY <1>3, <3>1, <3>2
      <3>. QED BY <2>0, <3>3 DEF QueueType
    <2>2. LaneType' /\ CountType'
      BY <2>0 DEF LaneType, CountType
    <2>3. ControlType' /\ DecrInv' /\ IdxInv'
      BY <2>0 DEF ControlType, DecrInv, IdxInv
    <2>4. eoq' \in BOOLEAN
      <3>1. CASE AddReadNone
        BY <3>1 DEF AddReadNone
      <3>2. CASE AddBreak
        BY <3>2 DEF AddBreak
      <3>. QED BY <1>3, <3>1, <3>2
    <2>5. RequestInv'
      <3>1. Held' = Held
        BY <2>0 DEF Held
      <3>. QED BY <2>0, <3>1 DEF RequestInv
    <2>. QED BY <2>1, <2>2, <2>3, <2>4, <2>5
  <1>. QED BY <1>1, <1>2, <1>3

(* The new lanes given up: they are parked again, in order, without blocks. *)
LEMMA AddUndoStep == IInv /\ AddUndo => IInv'
  <1>. SUFFICES ASSUME IInv, AddUndo PROVE IInv'
    OBVIOUS
  <1>. USE ConstantAssumption DEF IInv, TypeOK
  <1>0. /\ nactive \in 1..MaxBatch /\ idx \in nactive..MaxBatch /\ Held = 0..(idx - 1)
        /\ parking \in Seq(Lanes) /\ lane \in [Slots -> Lanes] /\ pc = "added"
    BY DEF AddUndo, TooFew, ControlType, IdxInv, LaneType, Held
  <1>1. /\ pc' = "finish" /\ idx' = Last
        /\ UNCHANGED <<q, sent, eoq, nactive, dev, topp, decr, toks, fresh, answers>>
    BY DEF AddUndo
  <1>2. QueueType' /\ CountType'
    BY <1>1 DEF QueueType, CountType
  <1>3. ControlType' /\ IdxInv' /\ DecrInv'
    BY <1>0, <1>1 DEF ControlType, IdxInv, DecrInv, Last
  <1>4. eoq' \in BOOLEAN
    BY <1>1
  <1>5. \A i \in nactive..(idx - 1) : /\ i \in Slots /\ lane[i] \in Lanes /\ lane[i].id \in Reqs
                                      /\ Freed(lane[i]) \in Lanes
                                      /\ Freed(lane[i]).id = lane[i].id
    <2>. SUFFICES ASSUME NEW i \in nactive..(idx - 1)
                  PROVE  /\ i \in Slots /\ lane[i] \in Lanes /\ lane[i].id \in Reqs
                         /\ Freed(lane[i]) \in Lanes /\ Freed(lane[i]).id = lane[i].id
      OBVIOUS
    <2>1. i \in Slots /\ i \in Held
      BY <1>0 DEF Slots
    <2>2. lane[i] \in Lanes /\ lane[i].id \in Reqs
      BY <1>0, <2>1 DEF RequestInv
    <2>. QED BY <2>1, <2>2, ParkedFacts
  <1>6. /\ parking' \in Seq(Lanes)
        /\ \A k \in DOMAIN parking' : parking'[k].id \in Reqs
    <2>. DEFINE new == [k \in 1..(idx - nactive) |-> Freed(lane[nactive + k - 1])]
    <2>1. \A k \in 1..(idx - nactive) : nactive + k - 1 \in nactive..(idx - 1)
      BY <1>0
    <2>2. new \in [1..(idx - nactive) -> Lanes]
      BY <1>5, <2>1
    <2>3. new \in Seq(Lanes) /\ Len(new) = idx - nactive
      <3>1. idx - nactive \in Nat
        BY <1>0
      <3>. HIDE DEF new
      <3>. QED BY <2>2, <3>1
    <2>4. \A k \in 1..(idx - nactive) : new[k].id \in Reqs
      BY <1>5, <2>1
    <2>5. parking' = new \o parking
      BY DEF AddUndo, Undone
    <2>. HIDE DEF new
    <2>6. parking' \in Seq(Lanes)
      BY <1>0, <2>3, <2>5
    <2>7. \A k \in DOMAIN parking' : parking'[k].id \in Reqs
      BY <1>0, <2>3, <2>4, <2>5 DEF RequestInv
    <2>. QED BY <2>6, <2>7
  <1>7. free' \subseteq Blocks
    <2>1. \A i \in nactive..(idx - 1) : BlockSet(lane[i]) \subseteq Blocks
      BY <1>5 DEF BlockSet, Lanes
    <2>. QED BY <2>1 DEF AddUndo, LaneType
  <1>8. lane' \in [Slots -> Lanes] /\ \A i \in 0..Last : lane'[i] = lane[i]
    <2>1. lane' = [i \in Slots |-> IF i \in nactive..(idx - 1) THEN Freed(lane[i]) ELSE lane[i]]
      BY DEF AddUndo
    <2>2. lane' \in [Slots -> Lanes]
      BY <1>0, <1>5, <2>1
    <2>3. \A i \in 0..Last : i \in Slots /\ i \notin nactive..(idx - 1)
      BY <1>0 DEF Slots, Last
    <2>. QED BY <2>1, <2>2, <2>3
  <1>9. LaneType'
    BY <1>1, <1>6, <1>7, <1>8 DEF LaneType
  <1>10. RequestInv'
    <2>1. Held' = 0..Last /\ Held' \subseteq Held
      BY <1>0, <1>1 DEF Held, Last
    <2>. QED BY <1>6, <1>8, <2>1 DEF RequestInv
  <1>. QED BY <1>2, <1>3, <1>4, <1>9, <1>10

(* No lane is added. *)
LEMMA AddNoneStep == IInv /\ AddNone => IInv'
  <1>. SUFFICES ASSUME IInv, AddNone PROVE IInv'
    OBVIOUS
  <1>. USE ConstantAssumption DEF IInv, TypeOK
  <1>1. /\ pc = "added" /\ pc' = "finish" /\ idx = nactive /\ idx' = Last
        /\ UNCHANGED <<q, sent, eoq, nactive, lane, dev, topp, free, parking, decr, toks,
                       fresh, answers>>
    BY DEF AddNone
  <1>2. QueueType' /\ LaneType' /\ CountType'
    BY <1>1 DEF QueueType, LaneType, CountType
  <1>3. ControlType' /\ IdxInv' /\ DecrInv'
    BY <1>1 DEF ControlType, IdxInv, DecrInv, Last
  <1>4. eoq' \in BOOLEAN
    BY <1>1
  <1>5. RequestInv'
    <2>1. Held' = Held
      BY <1>1 DEF Held
    <2>. QED BY <1>1, <2>1 DEF RequestInv
  <1>. QED BY <1>2, <1>3, <1>4, <1>5

-----------------------------------------------------------------------------
(* The step of _prefill. *)

LEMMA PrefillStep == IInv /\ Prefill => IInv'
  <1>. SUFFICES ASSUME IInv, Prefill PROVE IInv'
    OBVIOUS
  <1>. USE ConstantAssumption DEF IInv, TypeOK
  <1>0. /\ pc = "added" /\ nactive \in 0..MaxBatch /\ idx \in (nactive + 1)..MaxBatch
        /\ Held = 0..(idx - 1) /\ lane \in [Slots -> Lanes] /\ dev \in [Slots -> Rows]
    BY DEF Prefill, ControlType, IdxInv, LaneType, Held
  <1>1. /\ pc' = "finish" /\ nactive' = idx /\ idx' = idx - 1
        /\ UNCHANGED <<q, sent, eoq, lane, free, parking, decr, toks, answers>>
    BY DEF Prefill
  <1>2. QueueType' /\ eoq' \in BOOLEAN
    <2>1. QueueType'
      BY <1>1 DEF QueueType
    <2>2. eoq' \in BOOLEAN
      BY <1>1
    <2>. QED BY <2>1, <2>2
  <1>3. ControlType' /\ IdxInv' /\ DecrInv'
    BY <1>0, <1>1 DEF ControlType, IdxInv, DecrInv, Last
  <1>4. CountType'
    <2>1. fresh' = [i \in Slots |-> IF i \in nactive..(idx - 1) THEN 1 ELSE fresh[i]]
      BY DEF Prefill
    <2>. QED BY <1>1, <2>1 DEF CountType
  <1>5. dev' \in [Slots -> Rows]
    <2>. DEFINE row(i) == [seqlen |-> LaneLen(lane[i]) + 1,
                           maxlen |-> LaneMaxLen(lane[i].id),
                           blktbl |-> [b \in Blocks |->
                                         IF b < Len(lane[i].blocks) THEN lane[i].blocks[b + 1]
                                         ELSE dev[i].blktbl[b]]]
    <2>1. ASSUME NEW i \in nactive..(idx - 1) PROVE row(i) \in Rows
      <3>1. i \in Slots /\ i \in Held
        BY <1>0 DEF Slots
      <3>2. lane[i] \in Lanes /\ lane[i].id \in Reqs /\ dev[i] \in Rows
        BY <1>0, <3>1 DEF RequestInv
      <3>3. LaneLen(lane[i]) \in Nat /\ LaneMaxLen(lane[i].id) \in Nat
        BY <3>2, LaneLenType
      <3>4. lane[i].blocks \in Seq(Blocks) /\ dev[i].blktbl \in [Blocks -> Blocks]
        BY <3>2 DEF Lanes, Rows
      <3>5. \A b \in Blocks : (IF b < Len(lane[i].blocks) THEN lane[i].blocks[b + 1]
                               ELSE dev[i].blktbl[b]) \in Blocks
        <4>. SUFFICES ASSUME NEW b \in Blocks, b < Len(lane[i].blocks)
                      PROVE  lane[i].blocks[b + 1] \in Blocks
          BY <3>4
        <4>1. b \in Nat
          BY DEF Blocks
        <4>2. Len(lane[i].blocks) \in Nat
          BY <3>4
        <4>3. b + 1 \in 1..Len(lane[i].blocks)
          BY <4>1, <4>2
        <4>. QED BY <3>4, <4>3
      <3>. QED BY <3>3, <3>5 DEF Rows
    <2>2. dev' = [i \in Slots |-> IF i \in nactive..(idx - 1) THEN row(i) ELSE dev[i]]
      BY DEF Prefill
    <2>. HIDE DEF row
    <2>3. \A i \in Slots : (IF i \in nactive..(idx - 1) THEN row(i) ELSE dev[i]) \in Rows
      BY <1>0, <2>1
    <2>. QED BY <2>2, <2>3
  <1>6. topp' \subseteq Slots
    <2>1. topp' = topp \cup {i \in nactive..(idx - 1) : lane[i].id \in TopP}
      BY DEF Prefill
    <2>2. topp \subseteq Slots /\ nactive..(idx - 1) \subseteq Slots
      BY <1>0 DEF LaneType, Slots
    <2>. QED BY <2>1, <2>2
  <1>7. LaneType'
    BY <1>1, <1>5, <1>6 DEF LaneType
  <1>8. RequestInv'
    <2>1. Held' = Held
      BY <1>0, <1>1 DEF Held
    <2>. QED BY <1>1, <2>1 DEF RequestInv
  <1>. QED BY <1>2, <1>3, <1>4, <1>7, <1>8

-----------------------------------------------------------------------------
(* Steps of the finish loop. *)

LEMMA FinishStep == IInv /\ Finish => IInv'
  <1>. SUFFICES ASSUME IInv, Finish PROVE IInv'
    OBVIOUS
  <1>. USE ConstantAssumption DEF IInv, TypeOK
  <1>0. /\ nactive \in 0..MaxBatch /\ lane \in [Slots -> Lanes] /\ fresh \in [Slots -> Nat]
        /\ pc \in {"finish", "yielded"} /\ Held = 0..Last /\ idx \in -1..Last
        /\ UNCHANGED <<q, sent, eoq, parking, decr, toks, fresh>>
    BY DEF Finish, FinishKeep, FinishYield, FinishKill, FinishEnd, ControlType, LaneType,
           CountType, IdxInv, Held, Last
  <1>1. QueueType' /\ eoq' \in BOOLEAN
    <2>1. QueueType'
      BY <1>0 DEF QueueType
    <2>2. eoq' \in BOOLEAN
      BY <1>0
    <2>. QED BY <2>1, <2>2
  <1>2. CASE FinishKeep \/ FinishYield
    <2>1. /\ idx \in Slots /\ idx \in Held /\ lane' = Extended(idx)
          /\ UNCHANGED <<nactive, dev, topp, free>>
      BY <1>0, <1>2 DEF FinishKeep, FinishYield, Slots, Last
    <2>2. /\ lane' \in [Slots -> Lanes] /\ \A j \in Slots : lane'[j].id = lane[j].id
      <3>1. lane[idx].ntok + fresh[idx] \in Nat /\ lane[idx] \in Lanes
        BY <1>0, <2>1 DEF Lanes
      <3>2. [lane[idx] EXCEPT !.ntok = @ + fresh[idx]] \in Lanes
        BY <3>1 DEF Lanes
      <3>3. lane' = [lane EXCEPT ![idx] = [lane[idx] EXCEPT !.ntok = @ + fresh[idx]]]
        BY <2>1 DEF Extended
      <3>4. \A j \in Slots : lane'[j].id = lane[j].id
        BY <1>0, <2>1, <3>1, <3>3 DEF Lanes
      <3>. QED BY <1>0, <2>1, <3>2, <3>3, <3>4
    <2>3. LaneType'
      BY <1>0, <2>1, <2>2 DEF LaneType
    <2>4. ControlType' /\ IdxInv' /\ DecrInv'
      BY <1>0, <1>2 DEF FinishKeep, FinishYield, ControlType, IdxInv, DecrInv, Last
    <2>5. CountType'
      <3>1. answers \in [Reqs -> Nat] /\ lane[idx].id \in Reqs
        BY <2>1 DEF CountType, RequestInv
      <3>2. answers' \in [Reqs -> Nat]
        BY <1>2, <3>1 DEF FinishKeep, FinishYield
      <3>. QED BY <1>0, <3>2 DEF CountType
    <2>6. RequestInv'
      <3>1. Held' = Held /\ Held \subseteq Slots
        BY <1>0, <1>2 DEF FinishKeep, FinishYield, Held, Slots, Last
      <3>. QED BY <1>0, <2>2, <3>1 DEF RequestInv
    <2>. QED BY <1>1, <2>3, <2>4, <2>5, <2>6
  <1>3. CASE FinishKill
    <2>1. nactive \in 1..MaxBatch /\ idx \in 0..Last
      BY <1>0, <1>3 DEF FinishKill, IdxInv, Last
    <2>2. /\ KilledFree(idx) \subseteq Blocks /\ KilledTopP(idx) \subseteq Slots
          /\ KilledLane(idx) \in [Slots -> Lanes] /\ KilledDev(idx) \in [Slots -> Rows]
          /\ \A j \in 0..(Last - 1) :
               KilledLane(idx)[j] = IF j = idx THEN lane[Last] ELSE lane[j]
      BY <2>1, KilledFacts
    <2>3. LaneType'
      BY <1>0, <1>3, <2>2 DEF FinishKill, LaneType
    <2>4. ControlType' /\ IdxInv' /\ DecrInv'
      BY <1>0, <1>3, <2>1 DEF FinishKill, ControlType, IdxInv, DecrInv, Last
    <2>5. CountType'
      BY <1>0, <1>3 DEF FinishKill, CountType
    <2>6. RequestInv'
      <3>1. Held' = 0..(Last - 1) /\ lane' = KilledLane(idx) /\ Last \in Held
        BY <1>0, <1>3, <2>1 DEF FinishKill, Held, Last
      <3>2. \A j \in Held' : j \in Held /\ lane'[j].id \in Reqs
        BY <1>0, <2>2, <3>1 DEF RequestInv
      <3>. QED BY <1>0, <3>2 DEF RequestInv
    <2>. QED BY <1>1, <2>3, <2>4, <2>5, <2>6
  <1>4. CASE FinishEnd
    <2>1. /\ pc = "finish" /\ pc' = "loop"
          /\ UNCHANGED <<nactive, lane, dev, topp, free, idx, answers>>
      BY <1>4 DEF FinishEnd
    <2>2. LaneType' /\ CountType'
      BY <1>0, <2>1 DEF LaneType, CountType
    <2>3. ControlType' /\ IdxInv' /\ DecrInv'
      BY <1>0, <2>1 DEF ControlType, IdxInv, DecrInv
    <2>4. RequestInv'
      <3>1. Held' = Held
        BY <2>1 DEF Held
      <3>. QED BY <1>0, <2>1, <3>1 DEF RequestInv
    <2>. QED BY <1>1, <2>2, <2>3, <2>4
  <1>. QED BY <1>2, <1>3, <1>4 DEF Finish

-----------------------------------------------------------------------------
(* The invariant is inductive. *)
LEMMA NextIInv == IInv /\ [Next]_vars => IInv'
  <1>. SUFFICES ASSUME IInv, [Next]_vars PROVE IInv'
    OBVIOUS
  <1>1. CASE Client
    BY <1>1, ClientStep
  <1>2. CASE Iterate \/ Return \/ Stopped
    BY <1>2, LoopStep
  <1>3. CASE Prepare
    BY <1>3, PrepareStep
  <1>4. CASE Decode
    BY <1>4, DecodeStep
  <1>5. CASE AddLanes
    BY <1>5, AddStep, AddUndoStep, AddNoneStep DEF AddLanes
  <1>6. CASE Prefill
    BY <1>6, PrefillStep
  <1>7. CASE Finish
    BY <1>7, FinishStep
  <1>8. CASE UNCHANGED vars
    <2>1. UNCHANGED <<q, sent, pc, eoq, nactive, lane, dev, topp, free, parking, idx, decr,
                      toks, fresh, answers>>
      BY <1>8 DEF vars
    <2>2. QueueType' = QueueType /\ ControlType' = ControlType /\ LaneType' = LaneType
      BY <2>1 DEF QueueType, ControlType, LaneType
    <2>3. CountType' = CountType /\ (eoq \in BOOLEAN)' = (eoq \in BOOLEAN)
      BY <2>1 DEF CountType
    <2>4. DecrInv' = DecrInv /\ IdxInv' = IdxInv /\ RequestInv' = RequestInv
      BY <2>1 DEF DecrInv, IdxInv, RequestInv, Held, Last
    <2>. QED BY <2>2, <2>3, <2>4 DEF IInv, TypeOK
  <1>. QED BY <1>1, <1>2, <1>3, <1>4, <1>5, <1>6, <1>7, <1>8 DEF Next, Generator

(***************************************************************************)
(* In every run of the scheduler, for any number of lanes, blocks and      *)
(* packets, every variable keeps its type: the loops of _prepare_lanes,    *)
(* _add_lanes and the finish loop never index a lane that is not there.    *)
(***************************************************************************)
THEOREM TypeCorrect == Spec => []TypeOK
  <1>1. Init => IInv
    BY InitIInv
  <1>2. IInv /\ [Next]_vars => IInv'
    BY NextIInv
  <1>3. IInv => TypeOK
    BY DEF IInv
  <1>. QED BY <1>1, <1>2, <1>3, PTL DEF Spec

-----------------------------------------------------------------------------
(***************************************************************************)
(* No cache block is lost or shared: BlocksPartitioned is inductive once   *)
(* the types and loop indices of IInv are known.                           *)
(***************************************************************************)
BInv == IInv /\ BlocksPartitioned

-----------------------------------------------------------------------------
(* The blocks of a lane after each operation on it. *)

LEMMA BlockSetFacts ==
  ASSUME NEW l \in Lanes, NEW bs \in Seq(Blocks)
  PROVE  /\ l.blocks \in Seq(Blocks) /\ BlockSet(l) \subseteq Blocks
         /\ l.blocks = <<>> => BlockSet(l) = {}
         /\ BlockSet(WithBlocks(l, bs)) = {bs[k] : k \in DOMAIN bs}
         /\ WithBlocks(l, bs).blocks = bs
  <1>1. l.blocks \in Seq(Blocks)
    BY DEF Lanes
  <1>2. BlockSet(l) \subseteq Blocks /\ (l.blocks = <<>> => BlockSet(l) = {})
    BY <1>1 DEF BlockSet
  <1>3. WithBlocks(l, bs).blocks = bs
    BY DEF WithBlocks, Lanes
  <1>4. BlockSet(WithBlocks(l, bs)) = {bs[k] : k \in DOMAIN bs}
    BY <1>3 DEF BlockSet
  <1>. QED BY <1>1, <1>2, <1>3, <1>4

(* Appending a block adds it to the lane's set; a new one is not a repeat. *)
LEMMA AppendFacts ==
  ASSUME NEW L \in [Slots -> Lanes], NEW i \in Slots, NEW b \in Blocks
  PROVE  /\ BlockSet(Grown(L, i, b)[i]) = BlockSet(L[i]) \cup {b}
         /\ (b \notin BlockSet(L[i]) /\ NoRepeat(L[i].blocks)) => NoRepeat(Grown(L, i, b)[i].blocks)
         /\ \A j \in Slots : j # i => Grown(L, i, b)[j] = L[j]
  <1>. DEFINE bs == L[i].blocks
              cs == Append(bs, b)
  <1>1. bs \in Seq(Blocks)
    BY DEF Lanes
  <1>2. Grown(L, i, b)[i].blocks = cs
    BY DEF Grown, Lanes
  <1>3. \A j \in Slots : j # i => Grown(L, i, b)[j] = L[j]
    BY DEF Grown
  <1>4. /\ DOMAIN cs = 1..(Len(bs) + 1) /\ DOMAIN bs = 1..Len(bs) /\ Len(bs) \in Nat
        /\ cs[Len(bs) + 1] = b /\ \A k \in 1..Len(bs) : cs[k] = bs[k]
    BY <1>1
  <1>. HIDE DEF cs
  <1>5. BlockSet(Grown(L, i, b)[i]) = {cs[k] : k \in DOMAIN cs}
    BY <1>2 DEF BlockSet
  <1>6. {cs[k] : k \in DOMAIN cs} = {bs[k] : k \in DOMAIN bs} \cup {b}
    BY <1>4
  <1>7. (b \notin {bs[k] : k \in DOMAIN bs} /\ NoRepeat(bs)) => NoRepeat(cs)
    <2>. SUFFICES ASSUME b \notin {bs[k] : k \in DOMAIN bs}, NoRepeat(bs),
                         NEW j \in DOMAIN cs, NEW k \in DOMAIN cs, j # k
                  PROVE  cs[j] # cs[k]
      BY DEF NoRepeat
    <2>. HIDE DEF bs
    <2>1. \A m \in DOMAIN cs : m \in DOMAIN bs \/ m = Len(bs) + 1
      BY <1>4
    <2>2. \A m \in DOMAIN bs : cs[m] = bs[m] /\ bs[m] # b
      BY <1>4
    <2>3. \A m, n \in DOMAIN bs : m # n => bs[m] # bs[n]
      BY DEF NoRepeat
    <2>. QED BY <1>4, <2>1, <2>2, <2>3
  <1>. QED BY <1>2, <1>3, <1>5, <1>6, <1>7 DEF BlockSet

-----------------------------------------------------------------------------
(* What each operation does to the partition. *)

(* A free block goes to one of the lanes. *)
LEMMA GrowPartition ==
  ASSUME NEW L \in [Slots -> Lanes], NEW H \in SUBSET Slots, NEW F,
         Partition(F, L, H), NEW i \in H, NEW b \in F
  PROVE  Partition(F \ {b}, Grown(L, i, b), H)
  <1>. DEFINE G == Grown(L, i, b)
  <1>1. b \in Blocks /\ i \in Slots
    BY DEF Partition
  <1>2. /\ BlockSet(G[i]) = BlockSet(L[i]) \cup {b}
        /\ (b \notin BlockSet(L[i]) /\ NoRepeat(L[i].blocks)) => NoRepeat(G[i].blocks)
        /\ \A j \in Slots : j # i => G[j] = L[j]
    BY <1>1, AppendFacts
  <1>. HIDE DEF G
  <1>3. \A j \in H : b \notin BlockSet(L[j])
    BY DEF Partition
  <1>4. \A j \in H : NoRepeat(G[j].blocks) /\ BlockSet(G[j]) \cap (F \ {b}) = {}
    BY <1>2, <1>3 DEF Partition
  <1>5. \A j, k \in H : j # k => BlockSet(G[j]) \cap BlockSet(G[k]) = {}
    BY <1>2, <1>3 DEF Partition
  <1>6. (F \ {b}) \cup UNION {BlockSet(G[j]) : j \in H} = Blocks
    <2>1. \A x \in Blocks : x \in F \ {b} \/ \E j \in H : x \in BlockSet(G[j])
      BY <1>2 DEF Partition
    <2>2. \A j \in H : BlockSet(G[j]) \subseteq Blocks
      BY <1>1, <1>2 DEF Partition
    <2>3. F \subseteq Blocks
      BY DEF Partition
    <2>. QED BY <2>1, <2>2, <2>3
  <1>. QED BY <1>4, <1>5, <1>6 DEF Partition, G

(* _kill_lane(i): its blocks become free, the last lane takes its slot. *)
LEMMA KillPartition ==
  ASSUME LaneType, nactive \in 1..MaxBatch, NEW i \in 0..Last,
         Partition(free, lane, 0..Last)
  PROVE  Partition(KilledFree(i), KilledLane(i), 0..(Last - 1))
  <1>. DEFINE K == KilledLane(i)
              H == 0..(Last - 1)
  <1>1. /\ \A j \in H : K[j] = IF j = i THEN lane[Last] ELSE lane[j]
        /\ Last \in Nat /\ i \in 0..Last /\ KilledFree(i) \subseteq Blocks
    BY KilledFacts DEF Last
  <1>2. KilledFree(i) = free \cup BlockSet(lane[i])
    BY DEF KilledFree
  <1>. HIDE DEF K
  <1>3. \A j \in H : \E m \in 0..Last : m # i /\ K[j] = lane[m]
    BY <1>1
  <1>4. \A m \in 0..Last : m # i => \E j \in H : K[j] = lane[m]
    <2>. SUFFICES ASSUME NEW m \in 0..Last, m # i PROVE \E j \in H : K[j] = lane[m]
      OBVIOUS
    <2>1. CASE m = Last
      <3>1. i \in H /\ K[i] = lane[m]
        BY <1>1, <2>1
      <3>. QED BY <3>1
    <2>2. CASE m # Last
      <3>1. m \in H /\ K[m] = lane[m]
        BY <1>1, <2>2
      <3>. QED BY <3>1
    <2>. QED BY <2>1, <2>2
  <1>5. \A j \in H : NoRepeat(K[j].blocks) /\ BlockSet(K[j]) \cap KilledFree(i) = {}
    BY <1>2, <1>3 DEF Partition
  <1>6. \A j, k \in H : j # k => BlockSet(K[j]) \cap BlockSet(K[k]) = {}
    <2>. SUFFICES ASSUME NEW j \in H, NEW k \in H, j # k
                  PROVE  BlockSet(K[j]) \cap BlockSet(K[k]) = {}
      OBVIOUS
    <2>1. \E m, n \in 0..Last : m # n /\ K[j] = lane[m] /\ K[k] = lane[n]
      BY <1>1
    <2>. QED BY <2>1 DEF Partition
  <1>7. KilledFree(i) \cup UNION {BlockSet(K[j]) : j \in H} = Blocks
    <2>1. \A x \in Blocks : x \in KilledFree(i) \/ \E j \in H : x \in BlockSet(K[j])
      <3>. SUFFICES ASSUME NEW x \in Blocks, x \notin KilledFree(i)
                    PROVE  \E j \in H : x \in BlockSet(K[j])
        OBVIOUS
      <3>1. PICK m \in 0..Last : m # i /\ x \in BlockSet(lane[m])
        BY <1>2 DEF Partition
      <3>. QED BY <1>4, <3>1
    <2>2. \A j \in H : BlockSet(K[j]) \subseteq Blocks
      BY <1>3 DEF Partition
    <2>. QED BY <1>1, <2>1, <2>2
  <1>. QED BY <1>5, <1>6, <1>7 DEF Partition, K

(* Free blocks, all different, go to the slot after the lanes that hold some. *)
LEMMA AdmitPartition ==
  ASSUME LaneType, toks \in Nat, idx \in Slots,
         NEW l \in Lanes, l.id \in Reqs, Admit(l),
         Partition(free, lane, 0..(idx - 1))
  PROVE  Partition(free', lane', 0..idx)
  <1>. USE ConstantAssumption
  <1>1. Ask(l) \in Nat
    BY LaneLenType
  <1>2. PICK bs \in Taken(free, Ask(l)) :
          /\ free' = free \ {bs[k] : k \in DOMAIN bs}
          /\ lane' = [lane EXCEPT ![idx] = WithBlocks(l, bs)]
    BY DEF Admit
  <1>. DEFINE B == {bs[k] : k \in DOMAIN bs}
  <1>3. bs \in [1..Ask(l) -> free] /\ free \subseteq Blocks
    BY DEF Taken, LaneType
  <1>4. bs \in Seq(Blocks) /\ B \subseteq free
    <2>1. bs \in [1..Ask(l) -> Blocks]
      BY <1>3
    <2>2. bs \in Seq(Blocks)
      BY <1>1, <2>1
    <2>. QED BY <1>3, <2>2
  <1>5. NoRepeat(bs)
    <2>1. free \in SUBSET Int
      BY <1>3 DEF Blocks
    <2>2. /\ Len(bs) = Ask(l) /\ DOMAIN bs = 1..Ask(l)
          /\ \A j, k \in 1..Ask(l) : bs[j] = bs[k] => j = k
      BY <1>1, <1>3, <2>1, TakenType
    <2>. QED BY <2>2 DEF NoRepeat
  <1>6. /\ idx \in Nat /\ idx \in 0..idx /\ 0..idx \subseteq Slots
        /\ \A j \in 0..idx : j # idx => j \in 0..(idx - 1)
        /\ \A j \in 0..(idx - 1) : j \in 0..idx /\ j # idx
    BY DEF Slots
  <1>7. /\ BlockSet(lane'[idx]) = B /\ lane'[idx].blocks = bs
        /\ \A j \in 0..(idx - 1) : lane'[j] = lane[j]
    BY <1>2, <1>4, <1>6, BlockSetFacts DEF LaneType
  <1>. HIDE DEF B
  <1>8. free' = free \ B
    BY <1>2 DEF B
  <1>9. \A j \in 0..idx : NoRepeat(lane'[j].blocks) /\ BlockSet(lane'[j]) \cap free' = {}
    BY <1>5, <1>6, <1>7, <1>8 DEF Partition
  <1>10. \A j, k \in 0..idx : j # k => BlockSet(lane'[j]) \cap BlockSet(lane'[k]) = {}
    BY <1>4, <1>6, <1>7 DEF Partition
  <1>11. free' \cup UNION {BlockSet(lane'[j]) : j \in 0..idx} = Blocks
    <2>1. \A x \in Blocks : x \in free' \/ \E j \in 0..idx : x \in BlockSet(lane'[j])
      BY <1>6, <1>7, <1>8 DEF Partition
    <2>2. \A j \in 0..idx : BlockSet(lane'[j]) \subseteq Blocks
      BY <1>3, <1>4, <1>6, <1>7 DEF Partition
    <2>3. free' \subseteq Blocks
      BY <1>3, <1>8
    <2>. QED BY <2>1, <2>2, <2>3
  <1>. QED BY <1>9, <1>10, <1>11 DEF Partition

(* Slots n..m-1 give their blocks back. *)
LEMMA GiveBackPartition ==
  ASSUME NEW L, NEW M, NEW F, NEW n \in Nat, NEW m \in Nat, n <= m,
         Partition(F, L, 0..(m - 1)),
         \A j \in 0..(n - 1) : M[j] = L[j]
  PROVE  Partition(F \cup UNION {BlockSet(L[j]) : j \in n..(m - 1)}, M, 0..(n - 1))
  <1>. DEFINE G == F \cup UNION {BlockSet(L[j]) : j \in n..(m - 1)}
  <1>1. /\ \A j \in 0..(n - 1) : j \in 0..(m - 1) /\ j \notin n..(m - 1)
        /\ \A j \in n..(m - 1) : j \in 0..(m - 1)
        /\ \A j \in 0..(m - 1) : j \in 0..(n - 1) \/ j \in n..(m - 1)
    OBVIOUS
  <1>2. \A j \in 0..(n - 1) : NoRepeat(M[j].blocks) /\ BlockSet(M[j]) \cap G = {}
    BY <1>1 DEF Partition
  <1>3. \A j, k \in 0..(n - 1) : j # k => BlockSet(M[j]) \cap BlockSet(M[k]) = {}
    BY <1>1 DEF Partition
  <1>4. G \cup UNION {BlockSet(M[j]) : j \in 0..(n - 1)} = Blocks
    <2>1. \A x \in Blocks : x \in G \/ \E j \in 0..(n - 1) : x \in BlockSet(M[j])
      BY <1>1 DEF Partition
    <2>2. \A j \in 0..(n - 1) : BlockSet(M[j]) \subseteq Blocks
      BY <1>1 DEF Partition
    <2>3. G \subseteq Blocks
      BY <1>1 DEF Partition
    <2>. QED BY <2>1, <2>2, <2>3
  <1>. QED BY <1>2, <1>3, <1>4 DEF Partition

(* The partition depends on the blocks of the lanes only. *)
LEMMA SamePartition ==
  ASSUME NEW L, NEW M, NEW F, NEW H, Partition(F, L, H),
         \A j \in H : M[j].blocks = L[j].blocks
  PROVE  Partition(F, M, H)
  <1>1. \A j \in H : BlockSet(M[j]) = BlockSet(L[j])
    BY DEF BlockSet
  <1>2. \A j \in H : BlockSet(M[j]) \cap F = {} /\ NoRepeat(M[j].blocks)
    BY <1>1 DEF Partition
  <1>3. \A j, k \in H : j # k => BlockSet(M[j]) \cap BlockSet(M[k]) = {}
    BY <1>1 DEF Partition
  <1>4. {BlockSet(M[j]) : j \in H} = {BlockSet(L[j]) : j \in H}
    BY <1>1
  <1>5. F \cup UNION {BlockSet(M[j]) : j \in H} = Blocks
    BY <1>4 DEF Partition
  <1>. QED BY <1>2, <1>3, <1>5 DEF Partition

-----------------------------------------------------------------------------
(* The steps. *)

LEMMA InitBlocks == Init => BlocksPartitioned
  <1>. SUFFICES ASSUME Init PROVE BlocksPartitioned
    OBVIOUS
  <1>1. /\ Held = {} /\ free = Blocks /\ parking = <<>>
        /\ \A i \in Slots : lane[i].blocks = <<>>
    BY DEF Init, Held, InitialFree, DeadLane
  <1>. QED BY <1>1 DEF BlocksPartitioned, Partition

(* Steps that move no block and change no loop index that matters. *)
LEMMA IdleBlocks ==
  ASSUME BlocksPartitioned, Held' = Held, UNCHANGED <<lane, free, parking>>
  PROVE  BlocksPartitioned'
  BY DEF BlocksPartitioned, Partition

(* A block is moved from the free ones to a lane. *)
LEMMA GrowBlocks ==
  ASSUME BInv, PrepareGrow
  PROVE  BlocksPartitioned'
  <1>. USE DEF BInv, IInv, TypeOK
  <1>1. /\ nactive \in 0..MaxBatch /\ idx \in 0..Last /\ decr[idx] \in 0..Last
        /\ Held = 0..Last /\ Held' = Held /\ Held \subseteq Slots
        /\ lane \in [Slots -> Lanes] /\ free \subseteq Blocks
        /\ parking' = parking
    BY ConstantAssumption DEF PrepareGrow, ControlType, DecrInv, Held, Last, Slots, LaneType
  <1>2. PICK bs \in Taken(free, 1) :
          free' = free \ {bs[1]} /\ lane' = Grown(lane, decr[idx], bs[1])
    BY DEF PrepareGrow
  <1>3. bs[1] \in free
    BY DEF Taken
  <1>4. Partition(free', lane', Held')
    BY <1>1, <1>2, <1>3, GrowPartition DEF BlocksPartitioned
  <1>5. \A i \in Slots \ Held' : lane'[i] = lane[i]
    BY <1>1, <1>2, <1>3, AppendFacts
  <1>. QED BY <1>1, <1>4, <1>5 DEF BlocksPartitioned

(* A killed lane, whose blocks become free, leaves the slots above it empty. *)
LEMMA KillBlocks ==
  ASSUME LaneType, nactive \in 1..MaxBatch, NEW i \in 0..Last,
         Partition(free, lane, 0..Last),
         \A j \in Slots \ (0..Last) : lane[j].blocks = <<>>
  PROVE  /\ Partition(KilledFree(i), KilledLane(i), 0..(Last - 1))
         /\ \A j \in Slots \ (0..(Last - 1)) : KilledLane(i)[j].blocks = <<>>
  <1>1. Partition(KilledFree(i), KilledLane(i), 0..(Last - 1))
    BY KillPartition
  <1>2. ASSUME NEW j \in Slots \ (0..(Last - 1))
        PROVE  KilledLane(i)[j].blocks = <<>>
    <2>1. /\ j \in Slots /\ j >= Last /\ Last \in Nat /\ (j # Last => j \notin 0..Last)
      BY ConstantAssumption DEF Slots, Last
    <2>2. KilledLane(i)[j] = IF j = Last THEN DeadLane ELSE lane[j]
      BY <2>1, KilledFacts
    <2>. QED BY <2>1, <2>2 DEF DeadLane
  <1>. QED BY <1>1, <1>2

(* A lane put in the parking holds no block. *)
LEMMA ParkBlocks ==
  ASSUME parking \in Seq(Lanes), NEW l \in Lanes,
         \A k \in DOMAIN parking : parking[k].blocks = <<>>,
         parking' = Append(parking, Freed(l))
  PROVE  \A k \in DOMAIN parking' : parking'[k].blocks = <<>>
  <1>1. Freed(l) \in Lanes /\ Freed(l).blocks = <<>>
    BY ParkedFacts
  <1>. QED BY <1>1

(* The blocks of the lane that parks itself are free again. *)
LEMMA ParkSelfBlocks ==
  ASSUME BInv, PrepareParkSelf
  PROVE  BlocksPartitioned'
  <1>. USE DEF BInv, IInv, TypeOK
  <1>1. /\ nactive \in 1..MaxBatch /\ decr[Last] \in 0..Last /\ Held = 0..Last
        /\ Held' = 0..(Last - 1)
    BY ConstantAssumption DEF PrepareParkSelf, ControlType, DecrInv, Held, Last
  <1>2. decr[Last] \in Slots /\ lane[decr[Last]] \in Lanes
    BY <1>1, ConstantAssumption DEF LaneType, Slots, Last
  <1>3. /\ free' = KilledFree(decr[Last]) /\ lane' = KilledLane(decr[Last])
        /\ parking' = Append(parking, Freed(lane[decr[Last]]))
    BY DEF PrepareParkSelf
  <1>4. Partition(free', lane', Held') /\ \A j \in Slots \ Held' : lane'[j].blocks = <<>>
    BY <1>1, <1>3, KillBlocks DEF BlocksPartitioned
  <1>5. \A k \in DOMAIN parking' : parking'[k].blocks = <<>>
    BY <1>2, <1>3, ParkBlocks DEF BlocksPartitioned, LaneType
  <1>. QED BY <1>4, <1>5 DEF BlocksPartitioned

(* The blocks of the lane parked for another are free again. *)
LEMMA ParkOtherBlocks ==
  ASSUME BInv, PreparePark
  PROVE  BlocksPartitioned'
  <1>. USE ConstantAssumption DEF BInv, IInv, TypeOK
  <1>. DEFINE p == decr[Last]
              d == FixedDecr[idx]
  <1>1. /\ nactive \in 1..MaxBatch /\ idx \in 0..(Last - 1) /\ Last \in Nat
        /\ Held = 0..Last /\ Held' = 0..(Last - 1)
    BY DEF PreparePark, ControlType, DecrInv, Held, Last
  <1>2. /\ p \in 0..Last /\ decr[idx] \in 0..Last /\ decr[idx] # p
        /\ idx \in DOMAIN decr
    BY <1>1 DEF PreparePark, DecrInv, Last
  <1>3. d \in 0..(Last - 1)
    <2>1. d = IF decr[idx] = Last THEN p ELSE decr[idx]
      BY <1>1, <1>2 DEF FixedDecr
    <2>. QED BY <1>1, <1>2, <2>1
  <1>4. p \in Slots /\ lane[p] \in Lanes /\ 0..(Last - 1) \subseteq Slots
    BY <1>1, <1>2 DEF LaneType, Slots, Last
  <1>5. PICK bs \in Taken(KilledFree(p), 1) :
          free' = KilledFree(p) \ {bs[1]} /\ lane' = Grown(KilledLane(p), d, bs[1])
    BY DEF PreparePark
  <1>6. parking' = Append(parking, Freed(lane[p]))
    BY DEF PreparePark
  <1>. HIDE DEF p, d
  <1>7. bs[1] \in KilledFree(p)
    BY DEF Taken
  <1>8. /\ Partition(KilledFree(p), KilledLane(p), 0..(Last - 1))
        /\ \A j \in Slots \ (0..(Last - 1)) : KilledLane(p)[j].blocks = <<>>
    BY <1>1, <1>2, KillBlocks DEF BlocksPartitioned
  <1>9. KilledLane(p) \in [Slots -> Lanes] /\ KilledFree(p) \subseteq Blocks
    BY <1>1, <1>2, KilledFacts
  <1>10. Partition(free', lane', Held')
    BY <1>1, <1>3, <1>4, <1>5, <1>7, <1>8, <1>9, GrowPartition
  <1>11. \A j \in Slots \ Held' : lane'[j] = KilledLane(p)[j]
    BY <1>1, <1>3, <1>4, <1>5, <1>7, <1>9, AppendFacts
  <1>12. \A k \in DOMAIN parking' : parking'[k].blocks = <<>>
    BY <1>4, <1>6, ParkBlocks DEF BlocksPartitioned, LaneType
  <1>. QED BY <1>1, <1>8, <1>10, <1>11, <1>12 DEF BlocksPartitioned

(* A lane admitted in slot idx, from the parking or from the queue. *)
LEMMA AdmitBlocks ==
  ASSUME BInv, pc = "add", idx < MaxBatch, UNCHANGED <<pc, nactive>>,
         NEW l \in Lanes, l.id \in Reqs, Admit(l),
         \A k \in DOMAIN parking' : parking'[k].blocks = <<>>
  PROVE  BlocksPartitioned'
  <1>. USE ConstantAssumption DEF BInv, IInv, TypeOK
  <1>1. idx \in Slots /\ toks \in Nat /\ Held = 0..(idx - 1)
    BY DEF IdxInv, ControlType, Slots, Held
  <1>2. /\ idx' = idx + 1 /\ \A j \in Slots \ {idx} : lane'[j] = lane[j]
    BY <1>1, AdmitFacts
  <1>3. Held' = 0..idx
    BY <1>1, <1>2 DEF Held, Slots
  <1>4. Partition(free', lane', Held')
    BY <1>1, <1>3, AdmitPartition DEF BlocksPartitioned
  <1>5. ASSUME NEW j \in Slots \ Held' PROVE lane'[j].blocks = <<>>
    <2>1. j \in Slots /\ j # idx /\ j \notin Held
      BY <1>1, <1>3 DEF Slots
    <2>. QED BY <1>2, <2>1 DEF BlocksPartitioned
  <1>. QED BY <1>4, <1>5 DEF BlocksPartitioned

(* A lane is added with its blocks. *)
LEMMA AddBlocks ==
  ASSUME BInv, AddParked \/ AddFromQueue
  PROVE  BlocksPartitioned'
  <1>. USE DEF BInv, IInv, TypeOK
  <1>0. /\ parking \in Seq(Lanes) /\ q \in Seq(Reqs \cup {EOQ})
        /\ \A k \in DOMAIN parking : parking[k].blocks = <<>>
    BY DEF LaneType, QueueType, BlocksPartitioned
  <1>1. CASE AddParked
    <2>1. Head(parking) \in Lanes /\ Head(parking).id \in Reqs /\ parking # <<>>
      BY <1>0, <1>1 DEF AddParked, RequestInv
    <2>2. \A k \in DOMAIN Tail(parking) : Tail(parking)[k].blocks = <<>>
      BY <1>0, <2>1
    <2>3. /\ pc = "add" /\ idx < MaxBatch /\ UNCHANGED <<pc, nactive>>
          /\ Admit(Head(parking)) /\ parking' = Tail(parking)
      BY <1>1 DEF AddParked
    <2>. QED BY <2>1, <2>2, <2>3, AdmitBlocks
  <1>2. CASE AddFromQueue
    <2>. DEFINE l == NewLane(Head(q))
    <2>1. Head(q) \in Reqs
      BY <1>0, <1>2 DEF AddFromQueue
    <2>2. l \in Lanes /\ l.id \in Reqs /\ l.blocks = <<>>
      BY <2>1 DEF NewLane, Lanes
    <2>3. pc = "add" /\ idx < MaxBatch /\ nactive' = nactive
      BY <1>2 DEF AddFromQueue
    <2>4. CASE Admit(l) /\ UNCHANGED <<pc, parking>>
      <3>1. \A k \in DOMAIN parking' : parking'[k].blocks = <<>>
        BY <1>0, <2>4
      <3>. HIDE DEF l
      <3>. QED BY <2>2, <2>3, <2>4, <3>1, AdmitBlocks
    <2>5. CASE /\ parking' = Append(parking, l) /\ pc' = "added"
               /\ UNCHANGED <<free, lane, toks, idx>>
      <3>1. Held' = Held
        BY <2>3, <2>5 DEF Held
      <3>. HIDE DEF l
      <3>2. \A k \in DOMAIN parking' : parking'[k].blocks = <<>>
        BY <1>0, <2>2, <2>5
      <3>. QED BY <2>5, <3>1, <3>2 DEF BlocksPartitioned, Partition
    <2>. QED BY <1>2, <2>4, <2>5 DEF AddFromQueue
  <1>. QED BY <1>1, <1>2

(* Two sequences of lanes without blocks, one after the other. *)
LEMMA ConcatNoBlocks ==
  ASSUME NEW s \in Seq(Lanes), NEW t \in Seq(Lanes),
         \A k \in DOMAIN s : s[k].blocks = <<>>, \A k \in DOMAIN t : t[k].blocks = <<>>
  PROVE  \A k \in DOMAIN (s \o t) : (s \o t)[k].blocks = <<>>
  <1>. SUFFICES ASSUME NEW k \in DOMAIN (s \o t) PROVE (s \o t)[k].blocks = <<>>
    OBVIOUS
  <1>1. CASE k \in DOMAIN s
    <2>1. (s \o t)[k] = s[k]
      BY <1>1
    <2>. QED BY <1>1, <2>1
  <1>2. CASE k \notin DOMAIN s
    <2>1. k - Len(s) \in DOMAIN t /\ (s \o t)[k] = t[k - Len(s)]
      BY <1>2
    <2>. QED BY <2>1
  <1>. QED BY <1>1, <1>2

(* The addition is undone, and its blocks are free again. *)
LEMMA UndoBlocks ==
  ASSUME BInv, AddUndo
  PROVE  BlocksPartitioned'
  <1>. USE ConstantAssumption DEF BInv, IInv, TypeOK
  <1>1. /\ nactive \in 1..MaxBatch /\ idx \in nactive..MaxBatch /\ Held = 0..(idx - 1)
        /\ Held' = 0..(nactive - 1) /\ idx \in Nat /\ nactive \in Nat /\ nactive <= idx
        /\ lane \in [Slots -> Lanes] /\ parking \in Seq(Lanes)
    BY DEF AddUndo, TooFew, ControlType, IdxInv, LaneType, Held
  <1>2. /\ free' = free \cup UNION {BlockSet(lane[i]) : i \in nactive..(idx - 1)}
        /\ lane' = [i \in Slots |-> IF i \in nactive..(idx - 1) THEN Freed(lane[i]) ELSE lane[i]]
        /\ parking' = Undone
    BY DEF AddUndo
  <1>3. \A j \in 0..(nactive - 1) : lane'[j] = lane[j]
    BY <1>1, <1>2 DEF Slots
  <1>4. Partition(free', lane', Held')
    BY <1>1, <1>2, <1>3, GiveBackPartition DEF BlocksPartitioned
  <1>5. \A j \in nactive..(idx - 1) :
          j \in Slots /\ Freed(lane[j]) \in Lanes /\ Freed(lane[j]).blocks = <<>>
    <2>. SUFFICES ASSUME NEW j \in nactive..(idx - 1)
                  PROVE  j \in Slots /\ Freed(lane[j]) \in Lanes /\ Freed(lane[j]).blocks = <<>>
      OBVIOUS
    <2>1. j \in Slots
      BY <1>1 DEF Slots
    <2>. QED BY <1>1, <2>1, ParkedFacts
  <1>6. \A j \in Slots \ Held' : lane'[j].blocks = <<>>
    <2>. SUFFICES ASSUME NEW j \in Slots \ Held' PROVE lane'[j].blocks = <<>>
      OBVIOUS
    <2>1. CASE j \in nactive..(idx - 1)
      BY <1>2, <1>5, <2>1
    <2>2. CASE j \notin nactive..(idx - 1)
      <3>1. j \notin Held /\ lane'[j] = lane[j]
        BY <1>1, <1>2, <2>2 DEF Slots
      <3>. QED BY <3>1 DEF BlocksPartitioned
    <2>. QED BY <2>1, <2>2
  <1>7. \A k \in DOMAIN parking' : parking'[k].blocks = <<>>
    <2>. DEFINE new == [k \in 1..(idx - nactive) |-> Freed(lane[nactive + k - 1])]
    <2>1. \A k \in 1..(idx - nactive) : nactive + k - 1 \in nactive..(idx - 1)
      BY <1>1
    <2>2. \A k \in 1..(idx - nactive) : new[k].blocks = <<>>
      BY <1>5, <2>1
    <2>3. new \in [1..(idx - nactive) -> Lanes]
      BY <1>5, <2>1
    <2>4. parking' = new \o parking
      BY <1>2 DEF Undone
    <2>. HIDE DEF new
    <2>5. new \in Seq(Lanes) /\ Len(new) = idx - nactive
      <3>1. idx - nactive \in Nat
        BY <1>1
      <3>. QED BY <2>3, <3>1
    <2>6. \A k \in DOMAIN parking : parking[k].blocks = <<>>
      BY DEF BlocksPartitioned
    <2>7. DOMAIN new = 1..(idx - nactive) /\ parking \in Seq(Lanes)
      BY <1>1, <2>3
    <2>. QED BY <2>2, <2>4, <2>5, <2>6, <2>7, ConcatNoBlocks
  <1>. QED BY <1>4, <1>6, <1>7 DEF BlocksPartitioned

(* The blocks of the lanes that ended are free again. *)
LEMMA FinishBlocks ==
  ASSUME BInv, Finish
  PROVE  BlocksPartitioned'
  <1>. USE ConstantAssumption DEF BInv, IInv, TypeOK
  <1>0. /\ pc \in {"finish", "yielded"} /\ nactive \in 0..MaxBatch /\ Held = 0..Last
        /\ idx \in -1..Last /\ parking' = parking /\ lane \in [Slots -> Lanes]
    BY DEF Finish, FinishKeep, FinishYield, FinishKill, FinishEnd, ControlType, IdxInv,
           Held, Last, LaneType
  <1>1. CASE FinishKeep \/ FinishYield
    <2>1. lane' = Extended(idx) /\ free' = free /\ Held' = Held /\ Held \subseteq Slots
      BY <1>0, <1>1 DEF FinishKeep, FinishYield, Held, Slots, Last
    <2>2. \A j \in Slots : lane'[j].blocks = lane[j].blocks
      BY <1>0, <2>1 DEF Extended, Lanes
    <2>3. Partition(free, lane', Held)
      BY <2>1, <2>2, SamePartition DEF BlocksPartitioned
    <2>. QED BY <1>0, <2>1, <2>2, <2>3 DEF BlocksPartitioned
  <1>2. CASE FinishKill
    <2>1. nactive \in 1..MaxBatch /\ idx \in 0..Last /\ Held' = 0..(Last - 1)
      BY <1>0, <1>2 DEF FinishKill, IdxInv, Held, Last
    <2>2. free' = KilledFree(idx) /\ lane' = KilledLane(idx)
      BY <1>2 DEF FinishKill
    <2>3. Partition(free', lane', Held') /\ \A j \in Slots \ Held' : lane'[j].blocks = <<>>
      BY <1>0, <2>1, <2>2, KillBlocks DEF BlocksPartitioned
    <2>. QED BY <1>0, <2>3 DEF BlocksPartitioned
  <1>3. CASE FinishEnd
    <2>1. Held' = Held /\ UNCHANGED <<lane, free, parking>>
      BY <1>3 DEF FinishEnd, Held
    <2>. QED BY <2>1, IdleBlocks
  <1>. QED BY <1>1, <1>2, <1>3 DEF Finish

(* The iteration starts with the blocks as they are. *)
LEMMA PrepareBlocks ==
  ASSUME BInv, Prepare
  PROVE  BlocksPartitioned'
  <1>1. CASE PrepareSkip \/ PrepareFull \/ PrepareEnd
    <2>1. Held' = Held /\ UNCHANGED <<lane, free, parking>>
      BY <1>1 DEF PrepareSkip, PrepareFull, PrepareEnd, Held
    <2>. QED BY <2>1, IdleBlocks DEF BInv
  <1>. QED BY <1>1, GrowBlocks, ParkSelfBlocks, ParkOtherBlocks DEF Prepare

(* The actions that add lanes. *)
LEMMA AddLanesBlocks ==
  ASSUME BInv, AddLanes
  PROVE  BlocksPartitioned'
  <1>1. CASE AddReadNone
    <2>1. Held' = Held /\ UNCHANGED <<lane, free, parking>>
      BY <1>1 DEF AddReadNone, Held
    <2>. QED BY <2>1, IdleBlocks DEF BInv
  <1>2. CASE AddBreak
    <2>1. Held' = Held /\ UNCHANGED <<lane, free, parking>>
      BY <1>2 DEF AddBreak, Held
    <2>. QED BY <2>1, IdleBlocks DEF BInv
  <1>3. CASE AddNone
    <2>1. Held' = Held /\ UNCHANGED <<lane, free, parking>>
      BY <1>3 DEF AddNone, Held
    <2>. QED BY <2>1, IdleBlocks DEF BInv
  <1>. QED BY <1>1, <1>2, <1>3, AddBlocks, UndoBlocks DEF AddLanes

(* Each step keeps the partition. *)
LEMMA NextBlocks == BInv /\ [Next]_vars => BlocksPartitioned'
  <1>. SUFFICES ASSUME BInv, [Next]_vars PROVE BlocksPartitioned'
    OBVIOUS
  <1>1. CASE Client
    <2>1. Held' = Held /\ UNCHANGED <<lane, free, parking>>
      BY <1>1 DEF Client, Put, PutEOQ, Held
    <2>. QED BY <2>1, IdleBlocks DEF BInv
  <1>2. CASE Iterate \/ Return \/ Decode \/ Prefill
    <2>1. Held' = Held /\ UNCHANGED <<lane, free, parking>>
      BY <1>2 DEF Iterate, Return, Decode, Prefill, Held
    <2>. QED BY <2>1, IdleBlocks DEF BInv
  <1>3. CASE Stopped \/ UNCHANGED vars
    <2>1. Held' = Held /\ UNCHANGED <<lane, free, parking>>
      BY <1>3 DEF Stopped, vars, Held
    <2>. QED BY <2>1, IdleBlocks DEF BInv
  <1>. QED BY <1>1, <1>2, <1>3, PrepareBlocks, AddLanesBlocks, FinishBlocks
          DEF Next, Generator

(***************************************************************************)
(* In every run of the scheduler, for any number of lanes, blocks and      *)
(* packets, the free blocks and the blocks of the lanes partition the      *)
(* cache: no block leaks and none is written by two lanes.                 *)
(***************************************************************************)
THEOREM BlocksCorrect == Spec => []BlocksPartitioned
  <1>1. Init => BInv
    BY InitIInv, InitBlocks DEF BInv
  <1>2. BInv /\ [Next]_vars => BInv'
    BY NextIInv, NextBlocks DEF BInv
  <1>3. BInv => BlocksPartitioned
    BY DEF BInv
  <1>. QED BY <1>1, <1>2, <1>3, PTL DEF Spec

-----------------------------------------------------------------------------
(***************************************************************************)
(* What _decode finds: the device rows describe the lanes of the host, and *)
(* each lane owns the blocks it is about to write.  The two follow from an *)
(* invariant of all phases that says how far the device is ahead of the    *)
(* host in each slot, which lanes may have reached their limit, and which  *)
(* lanes _prepare_lanes has still to look at.                              *)
(***************************************************************************)

(***************************************************************************)
(* The slots whose new tokens are on the device and not yet in the lane,   *)
(* and those whose length has not been compared with maxlen since.         *)
(***************************************************************************)
Behind(i) ==
  \/ pc \in {"add", "added"}
  \/ (pc = "finish" /\ i <= idx)
  \/ (pc = "yielded" /\ i < idx)

Unjudged(i) == Behind(i) \/ (pc = "yielded" /\ i <= idx)

Ahead(i) == IF Behind(i) THEN fresh[i] ELSE 0

(* Row d describes lane l, with n tokens the lane does not know of yet. *)
Describes(d, l, n) ==
  /\ d.seqlen = LaneLen(l) + n
  /\ d.maxlen = LaneMaxLen(l.id)
  /\ \A b \in DOMAIN l.blocks : d.blktbl[b - 1] = l.blocks[b]

MirrorInv ==
  /\ \A i \in 0..Last : Describes(dev[i], lane[i], Ahead(i))
  /\ \A i \in Slots : i >= nactive => dev[i] = DeadRow

TopPInv == \A i \in 0..Last : lane[i].id \in TopP => i \in topp

LimitInv == \A i \in 0..Last : Unjudged(i) \/ dev[i].seqlen < dev[i].maxlen

(* The blocks of lane l hold sync_freq more tokens, or the whole sequence. *)
Enough(l) == MinOf(MaxSeq, LaneLen(l) + SyncFreq) <= Avail(l)

(* The slots _prepare_lanes visits from position n of its order on. *)
From(n) == {decr[m] : m \in n..Last}

RoomInv ==
  /\ pc = "prepare" => \A i \in 0..Last : i \in From(idx) \/ Enough(lane[i])
  /\ pc = "decode" => nactive > 0 /\ \A i \in 0..Last : Enough(lane[i])
  /\ pc \in {"add", "added", "finish", "yielded"} =>
       \A i \in 0..Last : dev[i].seqlen <= Avail(lane[i])
  /\ pc \in {"add", "added"} =>
       \A i \in nactive..(idx - 1) : LaneLen(lane[i]) + 1 <= Avail(lane[i])

(* A lane that is not to be visited from n on is as long as the one at n. *)
OrderInv ==
  pc = "prepare" =>
    \A n \in idx..Last : \A i \in 0..Last :
      i \in From(n) \/ LaneLen(lane[i]) >= LaneLen(lane[decr[n]])

DInv == BInv /\ MirrorInv /\ TopPInv /\ LimitInv /\ RoomInv /\ OrderInv
(* The part of the invariant this module adds. *)
Dev == MirrorInv /\ TopPInv /\ LimitInv /\ RoomInv /\ OrderInv

-----------------------------------------------------------------------------
(* Facts about lanes, blocks and rows. *)

(***************************************************************************)
(* A list of different blocks is no longer than the cache; it is shorter   *)
(* when some block is not in it, and as long when none is missing.         *)
(***************************************************************************)
LEMMA BlockCount ==
  ASSUME NEW bs \in Seq(Blocks), NoRepeat(bs)
  PROVE  /\ Len(bs) <= NBlocks
         /\ \A b \in Blocks : (\A k \in DOMAIN bs : bs[k] # b) => Len(bs) < NBlocks
         /\ (\A b \in Blocks : \E k \in DOMAIN bs : bs[k] = b) => Len(bs) = NBlocks
  <1>. DEFINE S == 1..Len(bs)
  <1>1. Len(bs) \in Nat /\ bs \in [S -> Blocks] /\ DOMAIN bs = S
    OBVIOUS
  <1>2. IsFiniteSet(Blocks) /\ Cardinality(Blocks) = NBlocks /\ NBlocks \in Nat
    BY ConstantAssumption, FS_Interval DEF Blocks
  <1>3. IsFiniteSet(S) /\ Cardinality(S) = Len(bs)
    BY <1>1, FS_Interval
  <1>4. bs \in Injection(S, Blocks)
    BY <1>1 DEF Injection, IsInjective, NoRepeat
  <1>5. Len(bs) <= NBlocks
    BY <1>2, <1>3, <1>4, FS_Injection
  <1>6. Len(bs) = NBlocks <=> bs \in Surjection(S, Blocks)
    BY <1>2, <1>3, <1>4, FS_Injection
  <1>7. bs \in Surjection(S, Blocks) <=> \A b \in Blocks : \E k \in S : bs[k] = b
    BY <1>1 DEF Surjection
  <1>. QED BY <1>1, <1>2, <1>5, <1>6, <1>7

(* While some block is free, a lane that holds blocks has room in its row. *)
LEMMA RowHasRoom ==
  ASSUME NEW L \in [Slots -> Lanes], NEW F, NEW H \in SUBSET Slots,
         Partition(F, L, H), NEW i \in H
  PROVE  /\ L[i].blocks \in Seq(Blocks) /\ NoRepeat(L[i].blocks)
         /\ Len(L[i].blocks) \in Nat /\ Len(L[i].blocks) <= NBlocks
         /\ \A b \in F : Len(L[i].blocks) < NBlocks
  <1>1. L[i].blocks \in Seq(Blocks) /\ NoRepeat(L[i].blocks)
    BY DEF Lanes, Partition
  <1>2. Len(L[i].blocks) \in Nat /\ Len(L[i].blocks) <= NBlocks
    BY <1>1, BlockCount
  <1>3. ASSUME NEW b \in F PROVE Len(L[i].blocks) < NBlocks
    <2>1. b \in Blocks /\ \A k \in DOMAIN L[i].blocks : L[i].blocks[k] # b
      BY DEF Partition, BlockSet
    <2>. QED BY <1>1, <2>1, BlockCount
  <1>. QED BY <1>1, <1>2, <1>3

(***************************************************************************)
(* _kill_lane(i): slot j below the last then has the lane, the row and the *)
(* top_p flag that slot Src(i, j) had; slot Last and those above are dead. *)
(***************************************************************************)
Src(i, j) == IF j = i THEN Last ELSE j

(* The rows of the device after a lane is killed. *)
LEMMA KilledRows ==
  ASSUME LaneType, nactive \in 1..MaxBatch, NEW i \in 0..Last
  PROVE  /\ \A j \in 0..(Last - 1) :
              /\ Src(i, j) \in 0..Last /\ Src(i, j) # i
              /\ KilledLane(i)[j] = lane[Src(i, j)] /\ KilledDev(i)[j] = dev[Src(i, j)]
              /\ Src(i, j) \in topp => j \in KilledTopP(i)
         /\ \A j \in Slots : j >= Last =>
              KilledDev(i)[j] = IF j = Last THEN DeadRow ELSE dev[j]
         /\ 0..Last \subseteq Slots
  <1>. USE ConstantAssumption
  <1>1. /\ i \in Slots /\ Last \in Slots /\ Last \in Nat /\ 0..Last \subseteq Slots
        /\ \A j \in 0..(Last - 1) : j \in Slots /\ j # Last
    BY DEF Slots, Last
  <1>2. ASSUME NEW j \in 0..(Last - 1)
        PROVE  /\ Src(i, j) \in 0..Last /\ Src(i, j) # i
               /\ KilledLane(i)[j] = lane[Src(i, j)] /\ KilledDev(i)[j] = dev[Src(i, j)]
    BY <1>1 DEF KilledLane, KilledDev, LaneType, Src
  <1>3. ASSUME NEW j \in 0..(Last - 1), Src(i, j) \in topp PROVE j \in KilledTopP(i)
    BY <1>1, <1>3 DEF KilledTopP, Src
  <1>4. \A j \in Slots : j >= Last =>
          KilledDev(i)[j] = IF j = Last THEN DeadRow ELSE dev[j]
    BY <1>1 DEF KilledDev, LaneType, Slots
  <1>. QED BY <1>1, <1>2, <1>3, <1>4

(***************************************************************************)
(* A block appended to a lane and entered in its row at the next place:    *)
(* the row still describes the lane, and the lane has more room.           *)
(***************************************************************************)
LEMMA GrownRow ==
  ASSUME NEW L \in [Slots -> Lanes], NEW D \in [Slots -> Rows],
         NEW i \in Slots, NEW b \in Blocks, Len(L[i].blocks) < NBlocks,
         NEW n \in Nat, Describes(D[i], L[i], n)
  PROVE  Describes(Tabled(D, i, Len(L[i].blocks), b)[i], Grown(L, i, b)[i], n)
  <1>. DEFINE bs == L[i].blocks
              k  == Len(L[i].blocks)
              T  == Tabled(D, i, k, b)[i]
              G  == Grown(L, i, b)[i]
  <1>. USE ConstantAssumption
  <1>1. bs \in Seq(Blocks) /\ k \in Nat /\ k \in Blocks /\ D[i] \in Rows
    <2>1. bs \in Seq(Blocks)
      BY DEF Lanes
    <2>2. Len(bs) \in Nat
      BY <2>1
    <2>. QED BY <2>1, <2>2 DEF Blocks
  <1>2. /\ G.id = L[i].id /\ G.ntok = L[i].ntok /\ G.blocks = Append(bs, b)
    BY DEF Grown, Lanes
  <1>3. /\ T.seqlen = D[i].seqlen /\ T.maxlen = D[i].maxlen
        /\ T.blktbl = [D[i].blktbl EXCEPT ![k] = b]
    BY DEF Tabled, Rows
  <1>4. T.seqlen = LaneLen(G) + n /\ T.maxlen = LaneMaxLen(G.id)
    BY <1>2, <1>3 DEF Describes, LaneLen
  <1>. HIDE DEF T, G
  <1>5. ASSUME NEW m \in DOMAIN G.blocks PROVE T.blktbl[m - 1] = G.blocks[m]
    <2>1. m \in 1..(k + 1)
      BY <1>1, <1>2
    <2>2. D[i].blktbl \in [Blocks -> Blocks] /\ m - 1 \in Blocks
      <3>1. m - 1 \in Blocks
        <4>1. PICK top : top = k
          OBVIOUS
        <4>2. top \in 0..(NBlocks - 1) /\ m \in 1..(top + 1)
          BY <1>1, <2>1, <4>1 DEF Blocks
        <4>. QED BY ONLY <4>2, ConstantAssumption DEF Blocks
      <3>2. D[i].blktbl \in [Blocks -> Blocks]
        BY <1>1 DEF Rows
      <3>. QED BY <3>1, <3>2
    <2>3. CASE m = k + 1
      BY <1>1, <1>2, <1>3, <2>2, <2>3
    <2>4. CASE m # k + 1
      <3>1. m \in 1..k /\ m \in DOMAIN bs /\ Append(bs, b)[m] = bs[m]
        BY <1>1, <2>1, <2>4
      <3>2. D[i].blktbl[m - 1] = bs[m]
        BY <3>1 DEF Describes
      <3>. QED BY <1>1, <1>2, <1>3, <2>2, <3>1, <3>2
    <2>. QED BY <2>3, <2>4
  <1>. QED BY <1>4, <1>5 DEF Describes, T, G

(* What the invariant gives about the lanes that hold blocks. *)
LEMMA HeldFacts ==
  ASSUME BInv
  PROVE  /\ Held \subseteq Slots /\ Partition(free, lane, Held)
         /\ lane \in [Slots -> Lanes] /\ dev \in [Slots -> Rows]
         /\ nactive \in 0..MaxBatch /\ Last = nactive - 1 /\ 0..Last \subseteq Slots
         /\ 0..Last \subseteq Held
         /\ \A i \in Held : /\ lane[i] \in Lanes /\ lane[i].id \in Reqs
                            /\ LaneLen(lane[i]) \in Nat /\ Avail(lane[i]) \in Nat
                            /\ Len(lane[i].blocks) \in Nat
                            /\ Len(lane[i].blocks) <= NBlocks
  <1>. USE ConstantAssumption DEF BInv, IInv, TypeOK
  <1>1. /\ Held \subseteq Slots /\ 0..Last \subseteq Slots /\ 0..Last \subseteq Held
        /\ nactive \in 0..MaxBatch /\ Last = nactive - 1
    BY DEF Held, Slots, ControlType, IdxInv, Last
  <1>2. /\ Partition(free, lane, Held)
        /\ lane \in [Slots -> Lanes] /\ dev \in [Slots -> Rows]
    BY DEF BlocksPartitioned, LaneType
  <1>3. ASSUME NEW i \in Held
        PROVE  /\ lane[i] \in Lanes /\ lane[i].id \in Reqs
               /\ LaneLen(lane[i]) \in Nat /\ Avail(lane[i]) \in Nat
               /\ Len(lane[i].blocks) \in Nat /\ Len(lane[i].blocks) <= NBlocks
    <2>1. lane[i] \in Lanes /\ lane[i].id \in Reqs
      BY <1>1, <1>2 DEF RequestInv
    <2>2. Len(lane[i].blocks) \in Nat /\ Len(lane[i].blocks) <= NBlocks
      BY <1>1, <1>2, RowHasRoom
    <2>3. Avail(lane[i]) \in Nat
      BY <2>2 DEF Avail
    <2>. QED BY <2>1, <2>2, <2>3, LaneLenType
  <1>. QED BY <1>1, <1>2, <1>3

-----------------------------------------------------------------------------
(* The initial state, the steps of the clients and of the loop test. *)

LEMMA InitDev == Init => Dev
  <1>. SUFFICES ASSUME Init PROVE Dev
    OBVIOUS
  <1>1. /\ nactive = 0 /\ 0..Last = {} /\ pc = "loop"
        /\ \A i \in Slots : dev[i] = DeadRow
    BY DEF Init, Last
  <1>. QED BY <1>1 DEF Dev, MirrorInv, TopPInv, LimitInv, RoomInv, OrderInv

(* A step that leaves lanes and device alone. *)
LEMMA QuietDev ==
  ASSUME Dev, UNCHANGED <<pc, nactive, lane, dev, topp, idx, decr, fresh>>
  PROVE  Dev'
  <1>1. MirrorInv' /\ TopPInv' /\ LimitInv'
    BY DEF Dev, MirrorInv, TopPInv, LimitInv, Behind, Unjudged, Ahead, Last
  <1>2. RoomInv' /\ OrderInv'
    BY DEF Dev, RoomInv, OrderInv, From, Last
  <1>. QED BY <1>1, <1>2 DEF Dev

(***************************************************************************)
(* Steps between phases in which the device is not ahead of the host: the  *)
(* rows keep describing the lanes.                                         *)
(***************************************************************************)
Settled == {"loop", "prepare", "decode", "stopped"}

(* The mirror with no operation in progress. *)
LEMMA SettledDev ==
  ASSUME Dev, pc \in Settled, pc' \in Settled, UNCHANGED <<nactive, lane, dev, topp>>
  PROVE  MirrorInv' /\ TopPInv' /\ LimitInv'
  <1>1. \A i : ~Behind(i) /\ ~Unjudged(i) /\ Ahead(i) = 0
    BY DEF Settled, Behind, Unjudged, Ahead
  <1>2. \A i : Ahead(i)' = 0
    BY DEF Settled, Behind, Ahead
  <1>3. MirrorInv'
    BY <1>1, <1>2 DEF Dev, MirrorInv, Last
  <1>4. TopPInv' /\ LimitInv'
    BY <1>1 DEF Dev, TopPInv, LimitInv, Last
  <1>. QED BY <1>3, <1>4

(* An order of the active slots that visits none twice visits them all. *)
LEMMA OrderIsFull ==
  ASSUME nactive \in Nat, NEW p \in [0..Last -> 0..Last],
         \A m, n \in 0..Last : p[m] = p[n] => m = n
  PROVE  \A i \in 0..Last : \E n \in 0..Last : p[n] = i
  <1>1. IsFiniteSet(0..Last)
    BY FS_Interval DEF Last
  <1>2. p \in Injection(0..Last, 0..Last)
    BY DEF Injection, IsInjective
  <1>3. p \in Surjection(0..Last, 0..Last)
    BY <1>1, <1>2, FS_Injection
  <1>. QED BY <1>3 DEF Surjection

(* An iteration begins, or the generator returns. *)
LEMMA LoopDev ==
  ASSUME DInv, Iterate \/ Return
  PROVE  Dev'
  <1>. USE DEF DInv
  <1>1. CASE Return
    <2>1. MirrorInv' /\ TopPInv' /\ LimitInv'
      BY <1>1, SettledDev DEF Return, Settled, Dev
    <2>2. RoomInv' /\ OrderInv'
      BY <1>1 DEF Return, RoomInv, OrderInv
    <2>. QED BY <2>1, <2>2 DEF Dev
  <1>2. CASE Iterate
    <2>1. MirrorInv' /\ TopPInv' /\ LimitInv'
      BY <1>2, SettledDev DEF Iterate, Settled, Dev
    <2>2. /\ nactive \in Nat /\ Last' = Last /\ idx' = 0 /\ pc' = "prepare"
          /\ lane' = lane
      BY <1>2, HeldFacts, ConstantAssumption DEF Iterate, Last
    <2>3. /\ decr' \in [0..Last -> 0..Last]
          /\ \A j, k \in 0..Last : j < k =>
               \/ LaneLen(lane[decr'[j]]) > LaneLen(lane[decr'[k]])
               \/ LaneLen(lane[decr'[j]]) = LaneLen(lane[decr'[k]]) /\ decr'[j] < decr'[k]
      BY <1>2 DEF Iterate, DecreasingOrder
    <2>4. \A i \in 0..Last : LaneLen(lane[i]) \in Nat
      BY HeldFacts
    <2>5. \A j, k \in 0..Last : j < k => /\ LaneLen(lane[decr'[j]]) >= LaneLen(lane[decr'[k]])
                                         /\ decr'[j] # decr'[k]
      BY <2>3, <2>4
    <2>6. \A j, k \in 0..Last : decr'[j] = decr'[k] => j = k
      <3>. SUFFICES ASSUME NEW j \in 0..Last, NEW k \in 0..Last, j # k
                    PROVE  decr'[j] # decr'[k]
        OBVIOUS
      <3>1. j < k \/ k < j
        BY <2>2
      <3>. QED BY <2>5, <3>1
    <2>7. \A i \in 0..Last : \E n \in 0..Last : decr'[n] = i
      BY <2>2, <2>3, <2>6, OrderIsFull
    <2>8. RoomInv'
      <3>1. \A i \in 0..Last : i \in From(0)'
        BY <2>2, <2>7 DEF From
      <3>. QED BY <2>2, <3>1 DEF RoomInv
    <2>9. OrderInv'
      <3>. SUFFICES ASSUME NEW n \in 0..Last, NEW i \in 0..Last, i \notin From(n)'
                    PROVE  LaneLen(lane[i]) >= LaneLen(lane[decr'[n]])
        BY <2>2 DEF OrderInv
      <3>1. PICK m \in 0..Last : decr'[m] = i
        BY <2>7
      <3>2. m \notin n..Last
        BY <2>2, <3>1 DEF From
      <3>. QED BY <2>2, <2>5, <3>1, <3>2
    <2>. QED BY <2>1, <2>8, <2>9 DEF Dev
  <1>. QED BY <1>1, <1>2

-----------------------------------------------------------------------------
(* Steps of _prepare_lanes. *)

(* What holds while the lanes are being prepared. *)
LEMMA PreparedFacts ==
  ASSUME DInv, pc = "prepare"
  PROVE  /\ nactive \in 0..MaxBatch /\ Last = nactive - 1 /\ idx \in 0..nactive
         /\ Held = 0..Last /\ 0..Last \subseteq Slots
         /\ \A i : ~Behind(i) /\ ~Unjudged(i) /\ Ahead(i) = 0
         /\ \A i \in 0..Last : Describes(dev[i], lane[i], 0)
         /\ \A n \in idx..Last : decr[n] \in 0..Last
  <1>1. \A i : ~Behind(i) /\ ~Unjudged(i) /\ Ahead(i) = 0
    BY DEF Behind, Unjudged, Ahead
  <1>2. \A i \in 0..Last : Describes(dev[i], lane[i], 0)
    BY <1>1 DEF DInv, MirrorInv
  <1>3. Held = 0..Last /\ idx \in 0..nactive /\ \A n \in idx..Last : decr[n] \in 0..Last
    BY DEF Held, Last, DInv, BInv, IInv, DecrInv
  <1>. QED BY <1>1, <1>2, <1>3, HeldFacts DEF DInv

(* A lane that passes the test of the loop has enough blocks. *)
LEMMA RoomyIsEnough ==
  ASSUME NEW l \in Lanes, LaneLen(l) \in Nat, Avail(l) \in Nat,
         LaneLen(l) + SyncFreq <= Avail(l)
  PROVE  Enough(l)
  <1>1. SyncFreq \in Nat /\ MaxSeq \in Nat
    BY ConstantAssumption DEF MaxSeq
  <1>. QED BY <1>1 DEF Enough, MinOf

(* A lane that needs no block. *)
LEMMA SkipDev ==
  ASSUME DInv, PrepareSkip
  PROVE  Dev'
  <1>. USE DEF DInv
  <1>1. /\ pc = "prepare" /\ idx \in 0..Last /\ idx' = idx + 1 /\ Last' = Last
        /\ UNCHANGED <<pc, nactive, lane, dev, topp, decr>>
    BY PreparedFacts, HeldFacts, ConstantAssumption DEF PrepareSkip, Last
  <1>2. MirrorInv' /\ TopPInv' /\ LimitInv'
    BY <1>1, SettledDev DEF Settled, Dev
  <1>3. nactive \in Nat /\ Last \in Int /\ decr[idx] \in 0..Last /\ decr[idx] \in Held
    BY <1>1, PreparedFacts, ConstantAssumption
  <1>4. Enough(lane[decr[idx]])
    <2>1. LaneLen(lane[decr[idx]]) + SyncFreq <= Avail(lane[decr[idx]])
      BY DEF PrepareSkip, Roomy, Visited
    <2>. QED BY <1>3, <2>1, HeldFacts, RoomyIsEnough
  <1>5. \A i : i \in From(idx) => i \in From(idx + 1) \/ i = decr[idx]
    BY <1>1, <1>3 DEF From
  <1>6. RoomInv'
    <2>1. \A i \in 0..Last : i \in From(idx + 1) \/ Enough(lane[i])
      BY <1>1, <1>4, <1>5 DEF RoomInv
    <2>. QED BY <1>1, <2>1 DEF RoomInv, From
  <1>7. OrderInv'
    BY <1>1, <1>3 DEF OrderInv, From
  <1>. QED BY <1>2, <1>6, <1>7 DEF Dev

(* One lane that cannot grow with no free block left holds the whole cache. *)
LEMMA FullDev ==
  ASSUME DInv, PrepareFull
  PROVE  Dev'
  <1>. USE DEF DInv
  <1>1. /\ pc = "prepare" /\ Last = 0 /\ free = {} /\ idx' = nactive /\ Last' = Last
        /\ UNCHANGED <<pc, nactive, lane, dev, topp, decr>>
    BY DEF PrepareFull, Last
  <1>2. MirrorInv' /\ TopPInv' /\ LimitInv'
    BY <1>1, SettledDev DEF Settled, Dev
  <1>3. Held = {0} /\ 0 \in Held /\ nactive = 1
    BY <1>1, PreparedFacts
  <1>4. Len(lane[0].blocks) = NBlocks
    <2>1. lane[0].blocks \in Seq(Blocks) /\ NoRepeat(lane[0].blocks)
      BY <1>3, HeldFacts, RowHasRoom
    <2>2. \A b \in Blocks : b \in BlockSet(lane[0])
      BY <1>1, <1>3, HeldFacts DEF Partition
    <2>. QED BY <2>1, <2>2, BlockCount DEF BlockSet
  <1>5. Enough(lane[0])
    <2>1. Avail(lane[0]) = MaxSeq /\ MaxSeq \in Nat /\ SyncFreq \in Nat
      BY <1>4, ConstantAssumption DEF Avail, MaxSeq
    <2>2. LaneLen(lane[0]) \in Nat
      BY <1>3, HeldFacts
    <2>. QED BY <2>1, <2>2 DEF Enough, MinOf
  <1>6. RoomInv'
    BY <1>1, <1>5 DEF RoomInv
  <1>7. OrderInv'
    BY <1>1, <1>3 DEF OrderInv
  <1>. QED BY <1>2, <1>6, <1>7 DEF Dev

(* Every lane has been prepared. *)
LEMMA EndDev ==
  ASSUME DInv, PrepareEnd
  PROVE  Dev'
  <1>. USE DEF DInv
  <1>1. /\ pc = "prepare" /\ idx = nactive /\ idx' = nactive /\ Last' = Last
        /\ UNCHANGED <<nactive, lane, dev, topp, decr, fresh>>
        /\ pc' = IF nactive > 0 THEN "decode" ELSE "add"
        /\ nactive \in Nat /\ Last = nactive - 1
    BY PreparedFacts, ConstantAssumption DEF PrepareEnd, Last
  <1>2. \A i \in 0..Last : Enough(lane[i])
    BY <1>1 DEF RoomInv, From
  <1>3. CASE nactive > 0
    <2>1. MirrorInv' /\ TopPInv' /\ LimitInv'
      BY <1>1, <1>3, SettledDev DEF Settled, Dev
    <2>2. RoomInv' /\ OrderInv'
      BY <1>1, <1>2, <1>3 DEF RoomInv, OrderInv
    <2>. QED BY <2>1, <2>2 DEF Dev
  <1>4. CASE nactive = 0
    <2>1. 0..Last = {} /\ nactive..(idx' - 1) = {} /\ pc' = "add"
      BY <1>1, <1>4
    <2>2. MirrorInv' /\ TopPInv' /\ LimitInv'
      BY <1>1, <2>1 DEF MirrorInv, TopPInv, LimitInv
    <2>3. RoomInv' /\ OrderInv'
      BY <1>1, <2>1 DEF RoomInv, OrderInv
    <2>. QED BY <2>2, <2>3 DEF Dev
  <1>. QED BY <1>1, <1>3, <1>4

(***************************************************************************)
(* One lane grows by a free block: rows and lanes keep agreeing, lengths   *)
(* and limits stay, and the other lanes are not touched.                   *)
(***************************************************************************)
LEMMA GrowRows ==
  ASSUME NEW L \in [Slots -> Lanes], NEW D \in [Slots -> Rows], NEW F,
         NEW H \in SUBSET Slots, Partition(F, L, H), NEW i \in H, NEW b \in F,
         \A j \in H : Describes(D[j], L[j], 0),
         NEW G, G = Grown(L, i, b),
         NEW T, T = Tabled(D, i, Len(L[i].blocks), b)
  PROVE  /\ \A j \in H : /\ Describes(T[j], G[j], 0)
                         /\ G[j].id = L[j].id /\ LaneLen(G[j]) = LaneLen(L[j])
                         /\ T[j].seqlen = D[j].seqlen /\ T[j].maxlen = D[j].maxlen
         /\ \A j \in Slots : j # i => G[j] = L[j] /\ T[j] = D[j]
  <1>1. b \in Blocks
    BY DEF Partition
  <1>2. Len(L[i].blocks) < NBlocks
    BY RowHasRoom
  <1>3. Describes(T[i], G[i], 0)
    <2>1. 0 \in Nat
      OBVIOUS
    <2>. QED BY <1>1, <1>2, <2>1, GrownRow
  <1>4. \A j \in Slots : j # i => G[j] = L[j] /\ T[j] = D[j]
    BY DEF Grown, Tabled
  <1>5. G[i].id = L[i].id /\ G[i].ntok = L[i].ntok
    BY DEF Grown, Lanes
  <1>6. T[i].seqlen = D[i].seqlen /\ T[i].maxlen = D[i].maxlen
    BY DEF Tabled, Rows
  <1>7. LaneLen(G[i]) = LaneLen(L[i])
    BY <1>5 DEF LaneLen
  <1>. QED BY <1>3, <1>4, <1>5, <1>6, <1>7

(* A lane gets the blocks it needs. *)
LEMMA GrowDev ==
  ASSUME DInv, PrepareGrow
  PROVE  Dev'
  <1>. USE DEF DInv
  <1>. DEFINE d == decr[idx]
  <1>1. /\ pc = "prepare" /\ idx \in 0..Last /\ Last' = Last
        /\ UNCHANGED <<pc, nactive, topp, decr, idx>> /\ Held = 0..Last
        /\ d \in 0..Last /\ 0..Last \subseteq Slots
    <2>1. /\ pc = "prepare" /\ idx < nactive
          /\ UNCHANGED <<pc, nactive, topp, decr, idx>> /\ Last' = Last
      BY DEF PrepareGrow, Last
    <2>2. /\ nactive \in 0..MaxBatch /\ Last = nactive - 1 /\ idx \in 0..nactive
          /\ Held = 0..Last /\ 0..Last \subseteq Slots
          /\ \A n \in idx..Last : decr[n] \in 0..Last
      BY <2>1, PreparedFacts
    <2>3. idx \in 0..Last /\ idx \in idx..Last
      BY <2>1, <2>2, ConstantAssumption
    <2>. QED BY <2>1, <2>2, <2>3
  <1>2. PICK bs \in Taken(free, 1) :
          /\ lane' = Grown(lane, d, bs[1])
          /\ dev'  = Tabled(dev, d, Len(lane[d].blocks), bs[1])
    BY DEF PrepareGrow, Visited
  <1>3. bs[1] \in free
    BY DEF Taken
  <1>4. /\ \A j \in 0..Last : /\ Describes(dev'[j], lane'[j], 0)
                              /\ lane'[j].id = lane[j].id /\ LaneLen(lane'[j]) = LaneLen(lane[j])
                              /\ dev'[j].seqlen = dev[j].seqlen
                              /\ dev'[j].maxlen = dev[j].maxlen
        /\ \A j \in Slots : j # d => lane'[j] = lane[j] /\ dev'[j] = dev[j]
    <2>. HIDE DEF d
    <2>1. /\ Partition(free, lane, 0..Last)
          /\ lane \in [Slots -> Lanes] /\ dev \in [Slots -> Rows]
          /\ \A j \in 0..Last : Describes(dev[j], lane[j], 0)
      BY <1>1, HeldFacts, PreparedFacts
    <2>2. PICK H \in SUBSET Slots : H = 0..Last
      BY <1>1
    <2>3. PICK b \in free : b = bs[1]
      BY <1>3
    <2>4. lane' = Grown(lane, d, b) /\ dev' = Tabled(dev, d, Len(lane[d].blocks), b)
      BY <1>2, <2>3
    <2>5. Partition(free, lane, H) /\ d \in H /\ \A j \in H : Describes(dev[j], lane[j], 0)
      BY <1>1, <2>1, <2>2
    <2>6. /\ \A j \in H : /\ Describes(dev'[j], lane'[j], 0)
                           /\ lane'[j].id = lane[j].id /\ LaneLen(lane'[j]) = LaneLen(lane[j])
                           /\ dev'[j].seqlen = dev[j].seqlen
                           /\ dev'[j].maxlen = dev[j].maxlen
          /\ \A j \in Slots : j # d => lane'[j] = lane[j] /\ dev'[j] = dev[j]
      BY <2>1, <2>4, <2>5, GrowRows
    <2>. QED BY <2>2, <2>6
  <1>5. MirrorInv'
    <2>1. \A i : Ahead(i)' = 0
      BY <1>1 DEF Behind, Ahead
    <2>2. \A i \in Slots : i >= nactive => i # d
      BY <1>1, PreparedFacts
    <2>. QED BY <1>1, <1>4, <2>1, <2>2 DEF MirrorInv
  <1>6. TopPInv' /\ LimitInv'
    BY <1>1, <1>4, PreparedFacts DEF TopPInv, LimitInv
  <1>7. RoomInv'
    <2>1. d \in From(idx)
      BY <1>1, PreparedFacts DEF From
    <2>2. \A i \in 0..Last : i \in From(idx) \/ Enough(lane'[i])
      BY <1>1, <1>4, <2>1 DEF RoomInv
    <2>. QED BY <1>1, <2>2 DEF RoomInv, From
  <1>8. OrderInv'
    <2>1. \A n \in idx..Last : decr[n] \in 0..Last
      BY <1>1, PreparedFacts
    <2>. QED BY <1>1, <1>4, <2>1 DEF OrderInv, From
  <1>. QED BY <1>5, <1>6, <1>7, <1>8 DEF Dev

(***************************************************************************)
(* A lane is killed while the others are prepared: those that remain keep  *)
(* their rows, flags and limits under the new numbering of the slots.      *)
(***************************************************************************)
LEMMA KilledDevFacts ==
  ASSUME DInv, pc = "prepare", nactive \in 1..MaxBatch, NEW i \in 0..Last
  PROVE  /\ \A j \in 0..(Last - 1) :
              /\ Describes(KilledDev(i)[j], KilledLane(i)[j], 0)
              /\ KilledLane(i)[j].id \in TopP => j \in KilledTopP(i)
              /\ KilledDev(i)[j].seqlen < KilledDev(i)[j].maxlen
         /\ \A j \in Slots : j >= Last => KilledDev(i)[j] = DeadRow
  <1>. USE DEF DInv
  <1>1. LaneType
    BY DEF BInv, IInv, TypeOK
  <1>2. ASSUME NEW j \in 0..(Last - 1)
        PROVE  /\ Describes(KilledDev(i)[j], KilledLane(i)[j], 0)
               /\ KilledLane(i)[j].id \in TopP => j \in KilledTopP(i)
               /\ KilledDev(i)[j].seqlen < KilledDev(i)[j].maxlen
    <2>1. /\ Src(i, j) \in 0..Last
          /\ KilledLane(i)[j] = lane[Src(i, j)] /\ KilledDev(i)[j] = dev[Src(i, j)]
          /\ Src(i, j) \in topp => j \in KilledTopP(i)
      BY <1>1, KilledRows
    <2>. QED BY <2>1, PreparedFacts DEF TopPInv, LimitInv
  <1>3. ASSUME NEW j \in Slots, j >= Last PROVE KilledDev(i)[j] = DeadRow
    <2>1. KilledDev(i)[j] = IF j = Last THEN DeadRow ELSE dev[j]
      BY <1>1, <1>3, KilledRows
    <2>2. j # Last => j >= nactive
      BY <1>3, ConstantAssumption DEF Last, Slots
    <2>. QED BY <2>1, <2>2 DEF MirrorInv
  <1>. QED BY <1>2, <1>3

(* The lane that needs a block is parked itself. *)
LEMMA ParkSelfDev ==
  ASSUME DInv, PrepareParkSelf
  PROVE  Dev'
  <1>. USE DEF DInv
  <1>. DEFINE p == decr[Last]
  <1>1. /\ pc = "prepare" /\ idx = Last /\ nactive \in 1..MaxBatch /\ Last' = Last - 1
        /\ Last \in Nat /\ Last > 0 /\ p \in 0..Last /\ Held = 0..Last
        /\ nactive' = Last /\ pc' = "decode"
        /\ lane' = KilledLane(p) /\ dev' = KilledDev(p) /\ topp' = KilledTopP(p)
    BY PreparedFacts, ConstantAssumption DEF PrepareParkSelf, Starved, Last
  <1>. HIDE DEF p
  <1>2. /\ \A j \in 0..(Last - 1) :
              /\ Describes(dev'[j], lane'[j], 0)
              /\ lane'[j].id \in TopP => j \in topp'
              /\ dev'[j].seqlen < dev'[j].maxlen
        /\ \A j \in Slots : j >= Last => dev'[j] = DeadRow
    BY <1>1, KilledDevFacts
  <1>3. MirrorInv'
    <2>1. \A i : Ahead(i)' = 0
      BY <1>1 DEF Behind, Ahead
    <2>. QED BY <1>1, <1>2, <2>1 DEF MirrorInv
  <1>4. TopPInv' /\ LimitInv' /\ OrderInv'
    BY <1>1, <1>2 DEF TopPInv, LimitInv, OrderInv
  <1>5. RoomInv'
    <2>1. ASSUME NEW j \in 0..(Last - 1) PROVE Enough(lane'[j])
      <3>1. Src(p, j) \in 0..Last /\ Src(p, j) # p /\ lane'[j] = lane[Src(p, j)]
        BY <1>1, KilledRows DEF BInv, IInv, TypeOK
      <3>2. From(idx) = {p}
        BY <1>1 DEF From, p
      <3>. QED BY <1>1, <3>1, <3>2 DEF RoomInv
    <2>. QED BY <1>1, <2>1 DEF RoomInv
  <1>. QED BY <1>3, <1>4, <1>5 DEF Dev

(* Another lane is parked for it. *)
LEMMA ParkDev ==
  ASSUME DInv, PreparePark
  PROVE  Dev'
  <1>. USE DEF DInv
  <1>. DEFINE p  == decr[Last]
              d  == FixedDecr[idx]
              kl == KilledLane(p)
              kd == KilledDev(p)
  <1>1. /\ pc = "prepare" /\ idx \in 0..(Last - 1) /\ nactive \in 1..MaxBatch
        /\ Last' = Last - 1 /\ Last \in Nat /\ p \in 0..Last /\ Held = 0..Last
        /\ 0..Last \subseteq Slots
        /\ nactive' = Last /\ topp' = KilledTopP(p) /\ decr' = FixedDecr
        /\ UNCHANGED <<pc, idx>>
    BY PreparedFacts, ConstantAssumption DEF PreparePark, Last
  <1>2. \A n \in idx..(Last - 1) :
          /\ n \in DOMAIN decr /\ decr[n] \in 0..Last /\ decr[n] # p
          /\ FixedDecr[n] = IF decr[n] = Last THEN p ELSE decr[n]
          /\ FixedDecr[n] \in 0..(Last - 1)
    <2>1. \A n \in idx..(Last - 1) : n \in DOMAIN decr /\ decr[n] \in 0..Last /\ decr[n] # p
      BY <1>1 DEF BInv, IInv, DecrInv
    <2>2. \A n \in idx..(Last - 1) : FixedDecr[n] = IF decr[n] = Last THEN p ELSE decr[n]
      BY <2>1 DEF FixedDecr
    <2>3. \A n \in idx..(Last - 1) : FixedDecr[n] \in 0..(Last - 1)
      BY <1>1, <2>1, <2>2
    <2>. QED BY <2>1, <2>2, <2>3
  <1>3. PICK bs \in Taken(KilledFree(p), 1) :
          /\ lane' = Grown(kl, d, bs[1])
          /\ dev'  = Tabled(kd, d, Len(kl[d].blocks), bs[1])
    BY DEF PreparePark
  <1>4. bs[1] \in KilledFree(p)
    BY DEF Taken
  <1>5. d \in 0..(Last - 1) /\ 0..(Last - 1) \subseteq Slots
    BY <1>1, <1>2
  <1>. HIDE DEF p, d
  <1>6. /\ kl \in [Slots -> Lanes] /\ kd \in [Slots -> Rows]
        /\ Partition(KilledFree(p), kl, 0..(Last - 1))
    BY <1>1, KilledFacts, KillPartition, HeldFacts DEF BInv, IInv, TypeOK
  <1>7. /\ \A j \in 0..(Last - 1) :
              /\ Describes(kd[j], kl[j], 0)
              /\ kl[j].id \in TopP => j \in topp'
              /\ kd[j].seqlen < kd[j].maxlen
        /\ \A j \in Slots : j >= Last => kd[j] = DeadRow
    BY <1>1, KilledDevFacts
  <1>8. /\ \A j \in 0..(Last - 1) :
              /\ Describes(dev'[j], lane'[j], 0)
              /\ lane'[j].id = kl[j].id /\ LaneLen(lane'[j]) = LaneLen(kl[j])
              /\ dev'[j].seqlen = kd[j].seqlen /\ dev'[j].maxlen = kd[j].maxlen
        /\ \A j \in Slots : j # d => lane'[j] = kl[j] /\ dev'[j] = kd[j]
    <2>. HIDE DEF kl, kd
    <2>1. PICK L \in [Slots -> Lanes], D \in [Slots -> Rows] : L = kl /\ D = kd
      BY <1>6
    <2>2. PICK H \in SUBSET Slots : H = 0..(Last - 1)
      BY <1>5
    <2>3. PICK F : F = KilledFree(p)
      OBVIOUS
    <2>4. PICK b \in F : b = bs[1]
      BY <1>4, <2>3
    <2>5. /\ Partition(F, L, H) /\ d \in H /\ \A j \in H : Describes(D[j], L[j], 0)
          /\ lane' = Grown(L, d, b) /\ dev' = Tabled(D, d, Len(L[d].blocks), b)
      BY <1>3, <1>5, <1>6, <1>7, <2>1, <2>2, <2>3, <2>4
    <2>6. /\ \A j \in H : /\ Describes(dev'[j], lane'[j], 0)
                           /\ lane'[j].id = L[j].id /\ LaneLen(lane'[j]) = LaneLen(L[j])
                           /\ dev'[j].seqlen = D[j].seqlen
                           /\ dev'[j].maxlen = D[j].maxlen
          /\ \A j \in Slots : j # d => lane'[j] = L[j] /\ dev'[j] = D[j]
      BY <2>5, GrowRows
    <2>. QED BY <2>1, <2>2, <2>6
  <1>9. MirrorInv'
    <2>1. \A i : Ahead(i)' = 0
      BY <1>1 DEF Behind, Ahead
    <2>2. \A i \in Slots : i >= Last => i # d /\ dev'[i] = DeadRow
      BY <1>1, <1>5, <1>7, <1>8 DEF Slots
    <2>. QED BY <1>1, <1>8, <2>1, <2>2 DEF MirrorInv
  <1>10. TopPInv' /\ LimitInv'
    BY <1>1, <1>7, <1>8 DEF TopPInv, LimitInv
  <1>11. \A j \in 0..(Last - 1) : /\ Src(p, j) \in 0..Last /\ Src(p, j) # p
                                  /\ kl[j] = lane[Src(p, j)]
    BY <1>1, KilledRows DEF BInv, IInv, TypeOK
  (* a slot that still has to be visited still has to be, under its new number *)
  <1>12. ASSUME NEW n \in idx..(Last - 1), NEW j \in 0..(Last - 1), Src(p, j) \in From(n)
         PROVE  j \in From(n)'
    <2>1. PICK m \in n..Last : decr[m] = Src(p, j)
      BY <1>12 DEF From
    <2>2. m # Last
      BY <1>11, <2>1 DEF p
    <2>3. m \in n..(Last - 1) /\ m \in idx..(Last - 1)
      BY <1>1, <2>1, <2>2
    <2>4. FixedDecr[m] = j
      BY <1>1, <1>2, <2>1, <2>3 DEF Src
    <2>. QED BY <1>1, <2>3, <2>4 DEF From
  <1>13. RoomInv'
    <2>1. ASSUME NEW j \in 0..(Last - 1) PROVE j \in From(idx)' \/ Enough(lane'[j])
      <3>1. CASE j = d
        BY <1>1, <3>1 DEF From, d
      <3>2. CASE j # d
        <4>1. Src(p, j) \in From(idx) \/ Enough(lane[Src(p, j)])
          BY <1>1, <1>11, <2>1 DEF RoomInv
        <4>2. lane'[j] = lane[Src(p, j)]
          <5>1. j \in Slots
            BY <1>5, <2>1
          <5>2. lane'[j] = kl[j]
            BY <1>8, <3>2, <5>1
          <5>. QED BY <1>11, <2>1, <5>2
        <4>3. idx \in idx..(Last - 1)
          BY <1>1
        <4>. QED BY <1>1, <1>12, <2>1, <4>1, <4>2, <4>3 DEF From
      <3>. QED BY <3>1, <3>2
    <2>. QED BY <1>1, <2>1 DEF RoomInv, From
  <1>14. OrderInv'
    <2>1. ASSUME NEW n \in idx..(Last - 1), NEW j \in 0..(Last - 1), j \notin From(n)'
          PROVE  LaneLen(lane'[j]) >= LaneLen(lane'[FixedDecr[n]])
      <3>1. Src(p, j) \notin From(n) /\ Src(p, j) \in 0..Last /\ n \in idx..Last
        BY <1>1, <1>11, <1>12, <2>1
      <3>2. LaneLen(lane[Src(p, j)]) >= LaneLen(lane[decr[n]])
        BY <1>1, <3>1 DEF OrderInv
      <3>3. FixedDecr[n] \in 0..(Last - 1) /\ Src(p, FixedDecr[n]) = decr[n]
        BY <1>1, <1>2 DEF Src
      <3>4. /\ LaneLen(lane'[j]) = LaneLen(lane[Src(p, j)])
            /\ LaneLen(lane'[FixedDecr[n]]) = LaneLen(lane[decr[n]])
        BY <1>8, <1>11, <3>3
      <3>. QED BY <3>2, <3>4
    <2>. QED BY <1>1, <2>1 DEF OrderInv
  <1>. QED BY <1>9, <1>10, <1>13, <1>14 DEF Dev

-----------------------------------------------------------------------------
(* Steps of _decode and _add_lanes. *)

(* The quotient rounds down by less than one divisor. *)
LEMMA DivBound ==
  ASSUME NEW x \in Nat, NEW d \in Nat \ {0}
  PROVE  /\ x \div d \in Nat /\ (x \div d) * d <= x /\ x < (x \div d) * d + d
  <1>1. x \div d \in Nat
    OBVIOUS
  <1>2. x = d * (x \div d) + (x % d) /\ x % d \in 0..(d - 1)
    OBVIOUS
  <1>. QED BY <1>1, <1>2

(* The blocks _add_lanes asks for hold the prompt and one token more. *)
LEMMA AskHolds ==
  ASSUME NEW l \in Lanes, l.id \in Reqs
  PROVE  LaneLen(l) + 1 <= Ask(l) * PageLen
  <1>1. LaneLen(l) \in Nat /\ Ask(l) \in Nat /\ PageLen \in Nat \ {0} /\ Buffer \in Nat \ {0}
    BY LaneLenType, ConstantAssumption
  <1>2. LaneLen(l) + Buffer + PageLen - 1 \in Nat
    BY <1>1
  <1>3. LaneLen(l) + Buffer + PageLen - 1 < Ask(l) * PageLen + PageLen
    BY <1>1, <1>2, DivBound DEF Ask
  <1>4. Ask(l) * PageLen \in Nat
    BY <1>1
  <1>. QED BY <1>1, <1>3, <1>4

(***************************************************************************)
(* _decode: every lane gains the same number of tokens; its blocks hold    *)
(* them, because the step stops at max_seq.                                *)
(***************************************************************************)
LEMMA DecodeDev ==
  ASSUME DInv, Decode
  PROVE  Dev'
  <1>. USE DEF DInv
  <1>1. PICK n \in NSteps :
          /\ dev' = [i \in Slots |->
                       IF i < nactive THEN [dev[i] EXCEPT !.seqlen = @ + n] ELSE dev[i]]
          /\ fresh' = [i \in Slots |-> IF i < nactive THEN n ELSE 0]
    BY DEF Decode
  <1>2. /\ pc = "decode" /\ pc' = "add" /\ idx' = nactive /\ Last' = Last
        /\ UNCHANGED <<nactive, lane, topp>>
        /\ nactive \in Nat /\ Last = nactive - 1 /\ 0..Last \subseteq Slots
        /\ \A i \in 0..Last : i < nactive /\ i \in Held
    BY HeldFacts, ConstantAssumption DEF Decode, Last
  <1>3. n \in Nat /\ n <= SyncFreq /\ \A i \in Slots : dev[i].seqlen + n <= MaxSeq
    BY ConstantAssumption DEF NSteps
  <1>4. ASSUME NEW i \in 0..Last
        PROVE  /\ dev'[i].seqlen = dev[i].seqlen + n /\ dev'[i].maxlen = dev[i].maxlen
               /\ dev'[i].blktbl = dev[i].blktbl /\ fresh'[i] = n
               /\ Describes(dev[i], lane[i], 0)
    <2>1. i \in Slots /\ i < nactive /\ dev[i] \in Rows
      BY <1>2, HeldFacts
    <2>2. dev'[i] = [dev[i] EXCEPT !.seqlen = @ + n] /\ fresh'[i] = n
      BY <1>1, <2>1
    <2>3. ~Behind(i) /\ Ahead(i) = 0
      BY <1>2 DEF Behind, Ahead
    <2>. QED BY <2>1, <2>2, <2>3 DEF Rows, MirrorInv
  <1>5. MirrorInv'
    <2>1. ASSUME NEW i \in 0..Last PROVE Describes(dev'[i], lane[i], Ahead(i)')
      <3>1. Ahead(i)' = n
        BY <1>2, <1>4 DEF Ahead, Behind
      <3>2. LaneLen(lane[i]) \in Nat
        BY <1>2, HeldFacts
      <3>. QED BY <1>3, <1>4, <3>1, <3>2 DEF Describes
    <2>2. \A i \in Slots : i >= nactive => dev'[i] = DeadRow
      BY <1>1, <1>2 DEF MirrorInv, Slots
    <2>. QED BY <1>2, <2>1, <2>2 DEF MirrorInv
  <1>6. TopPInv' /\ LimitInv' /\ OrderInv'
    BY <1>2 DEF TopPInv, LimitInv, OrderInv, Unjudged, Behind
  <1>7. RoomInv'
    <2>1. ASSUME NEW i \in 0..Last PROVE dev'[i].seqlen <= Avail(lane[i])
      <3>1. /\ LaneLen(lane[i]) \in Nat /\ Avail(lane[i]) \in Nat /\ i \in Slots
            /\ MaxSeq \in Nat /\ SyncFreq \in Nat
        BY <1>2, HeldFacts, ConstantAssumption DEF MaxSeq
      <3>2. dev[i].seqlen = LaneLen(lane[i])
        BY <1>4, <3>1 DEF Describes
      <3>3. Enough(lane[i])
        BY <1>2 DEF RoomInv
      <3>4. dev[i].seqlen + n <= MaxSeq /\ dev'[i].seqlen = dev[i].seqlen + n
        BY <1>3, <1>4, <3>1
      <3>. QED BY <1>3, <3>1, <3>2, <3>3, <3>4 DEF Enough, MinOf
    <2>2. nactive..(idx' - 1) = {}
      BY <1>2
    <2>. QED BY <1>2, <2>1, <2>2 DEF RoomInv
  <1>. QED BY <1>5, <1>6, <1>7 DEF Dev

(* A lane admitted to slot idx: the active lanes are not touched. *)
LEMMA AdmitDev ==
  ASSUME DInv, pc = "add", idx < MaxBatch,
         NEW l \in Lanes, l.id \in Reqs, Admit(l),
         UNCHANGED <<pc, nactive, dev, topp, fresh>>
  PROVE  Dev'
  <1>. USE DEF DInv
  <1>1. /\ idx \in nactive..(MaxBatch - 1) /\ nactive \in Nat /\ MaxBatch \in Nat
        /\ idx \in Slots /\ Last = nactive - 1 /\ LaneType /\ toks \in Nat
    BY HeldFacts, ConstantAssumption DEF BInv, IInv, IdxInv, TypeOK, ControlType, Slots
  <1>2. /\ lane' \in [Slots -> Lanes] /\ idx' = idx + 1 /\ lane'[idx].id = l.id
        /\ \A j \in Slots \ {idx} : lane'[j] = lane[j]
    BY <1>1, AdmitFacts
  <1>3. /\ Last' = Last /\ \A j \in 0..Last : lane'[j] = lane[j] /\ Behind(j) /\ Behind(j)'
        /\ \A j \in nactive..(idx - 1) : lane'[j] = lane[j]
    BY <1>1, <1>2 DEF Last, Slots, Behind
  <1>4. MirrorInv'
    <2>1. \A j \in 0..Last : Ahead(j)' = Ahead(j)
      BY <1>3 DEF Ahead
    <2>. QED BY <1>3, <2>1 DEF MirrorInv
  <1>5. TopPInv' /\ LimitInv' /\ OrderInv'
    BY <1>3 DEF TopPInv, LimitInv, OrderInv, Unjudged
  <1>6. LaneLen(lane'[idx]) + 1 <= Avail(lane'[idx])
    <2>1. PICK bs \in Taken(free, Ask(l)) : lane' = [lane EXCEPT ![idx] = WithBlocks(l, bs)]
      BY DEF Admit
    <2>2. Ask(l) \in Nat /\ bs \in [1..Ask(l) -> free] /\ free \subseteq Blocks
      BY <1>1, LaneLenType DEF Taken, LaneType
    <2>3. bs \in [1..Ask(l) -> Blocks]
      BY <2>2
    <2>4. bs \in Seq(Blocks) /\ Len(bs) = Ask(l)
      BY <2>2, <2>3
    <2>5. lane'[idx] = WithBlocks(l, bs) /\ lane'[idx].blocks = bs
      BY <1>1, <2>1, <2>4, BlockSetFacts DEF LaneType
    <2>6. LaneLen(lane'[idx]) = LaneLen(l)
      BY <2>5 DEF WithBlocks, Lanes, LaneLen
    <2>. QED BY <2>4, <2>5, <2>6, AskHolds DEF Avail
  <1>7. RoomInv'
    <2>1. \A j \in nactive..idx : j = idx \/ j \in nactive..(idx - 1)
      BY <1>1
    <2>2. \A j \in nactive..idx : LaneLen(lane'[j]) + 1 <= Avail(lane'[j])
      BY <1>3, <1>6, <2>1 DEF RoomInv
    <2>3. idx' - 1 = idx
      BY <1>1, <1>2
    <2>. QED BY <1>3, <2>2, <2>3 DEF RoomInv
  <1>. QED BY <1>4, <1>5, <1>7 DEF Dev

(* The loop of _add_lanes goes on, or ends, without a new lane. *)
LEMMA NoAdmitDev ==
  ASSUME DInv, pc = "add", pc' = "added",
         UNCHANGED <<nactive, lane, dev, topp, idx, fresh>>
  PROVE  Dev'
  <1>. USE DEF DInv
  <1>1. Last' = Last /\ \A j : Behind(j) /\ Behind(j)' /\ Ahead(j)' = Ahead(j)
    BY DEF Last, Behind, Ahead
  <1>2. MirrorInv' /\ TopPInv'
    BY <1>1 DEF MirrorInv, TopPInv
  <1>3. LimitInv' /\ OrderInv'
    BY <1>1 DEF LimitInv, OrderInv, Unjudged
  <1>4. RoomInv'
    BY <1>1 DEF RoomInv
  <1>. QED BY <1>2, <1>3, <1>4 DEF Dev

(* The loop that adds requests. *)
LEMMA AddLoopDev ==
  ASSUME DInv, AddParked \/ AddFromQueue \/ AddReadNone \/ AddBreak
  PROVE  Dev'
  <1>. USE DEF DInv, BInv, IInv, TypeOK
  <1>0. parking \in Seq(Lanes) /\ q \in Seq(Reqs \cup {EOQ})
    BY DEF LaneType, QueueType
  <1>1. CASE AddParked
    <2>1. Head(parking) \in Lanes /\ Head(parking).id \in Reqs
      BY <1>0, <1>1 DEF AddParked, RequestInv
    <2>2. /\ pc = "add" /\ idx < MaxBatch /\ Admit(Head(parking))
          /\ UNCHANGED <<pc, nactive, dev, topp, fresh>>
      BY <1>1 DEF AddParked
    <2>. QED BY <2>1, <2>2, AdmitDev
  <1>2. CASE AddFromQueue
    <2>. DEFINE l == NewLane(Head(q))
    <2>1. Head(q) \in Reqs
      BY <1>0, <1>2 DEF AddFromQueue
    <2>2. l \in Lanes /\ l.id \in Reqs
      BY <2>1 DEF NewLane, Lanes
    <2>3. /\ pc = "add" /\ idx < MaxBatch /\ UNCHANGED <<nactive, dev, topp, fresh>>
      BY <1>2 DEF AddFromQueue
    <2>4. \/ Admit(l) /\ pc' = pc
          \/ pc' = "added" /\ UNCHANGED <<lane, idx>>
      BY <1>2 DEF AddFromQueue
    <2>. HIDE DEF l
    <2>. QED BY <2>2, <2>3, <2>4, AdmitDev, NoAdmitDev
  <1>3. CASE AddReadNone
    BY <1>3, NoAdmitDev DEF AddReadNone
  <1>4. CASE AddBreak
    BY <1>4, NoAdmitDev DEF AddBreak
  <1>. QED BY <1>1, <1>2, <1>3, <1>4

(* The loop of _add_lanes leaves no new lane: the finish loop starts. *)
LEMMA ToFinishDev ==
  ASSUME DInv, pc = "added", pc' = "finish", idx' = Last,
         UNCHANGED <<nactive, dev, topp, fresh>>,
         \A j \in 0..Last : lane'[j] = lane[j]
  PROVE  Dev'
  <1>. USE DEF DInv
  <1>1. /\ Last' = Last /\ \A j \in 0..Last : Behind(j) /\ Behind(j)' /\ Ahead(j)' = Ahead(j)
    BY HeldFacts DEF Last, Behind, Ahead
  <1>2. MirrorInv' /\ TopPInv'
    BY <1>1 DEF MirrorInv, TopPInv
  <1>3. LimitInv' /\ OrderInv'
    BY <1>1 DEF LimitInv, OrderInv, Unjudged
  <1>4. RoomInv'
    BY <1>1 DEF RoomInv
  <1>. QED BY <1>2, <1>3, <1>4 DEF Dev

(* No lane is added, or the addition is undone. *)
LEMMA NoneAddedDev ==
  ASSUME DInv, AddUndo \/ AddNone
  PROVE  Dev'
  <1>1. CASE AddUndo
    <2>1. \A j \in 0..Last : lane'[j] = lane[j]
      BY <1>1, HeldFacts DEF AddUndo, DInv
    <2>. QED BY <1>1, <2>1, ToFinishDev DEF AddUndo
  <1>2. CASE AddNone
    BY <1>2, ToFinishDev DEF AddNone
  <1>. QED BY <1>1, <1>2

-----------------------------------------------------------------------------
(* The step of _prefill and those of the finish loop. *)

(* _prefill writes a row for each new lane and draws its first token. *)
LEMMA PrefillDev ==
  ASSUME DInv, Prefill
  PROVE  Dev'
  <1>. USE DEF DInv
  <1>1. /\ pc = "added" /\ pc' = "finish" /\ idx' = idx - 1 /\ nactive' = idx
        /\ Last' = idx - 1 /\ lane' = lane /\ Last = nactive - 1
        /\ nactive \in Nat /\ idx \in (nactive + 1)..MaxBatch /\ MaxBatch \in Nat
        /\ Held = 0..(idx - 1)
    BY HeldFacts, ConstantAssumption
       DEF Prefill, Last, BInv, IInv, IdxInv, Held
  <1>2. /\ 0..(idx - 1) \subseteq Slots
        /\ \A i \in 0..(idx - 1) : (i \in 0..Last /\ i \notin nactive..(idx - 1))
                                     \/ (i \in nactive..(idx - 1) /\ i \notin 0..Last)
    BY <1>1, HeldFacts
  <1>3. \A i \in 0..Last : dev'[i] = dev[i] /\ fresh'[i] = fresh[i] /\ i \in 0..(idx - 1)
    BY <1>1, <1>2 DEF Prefill
  <1>4. ASSUME NEW i \in nactive..(idx - 1)
        PROVE  /\ dev'[i].seqlen = LaneLen(lane[i]) + 1 /\ fresh'[i] = 1
               /\ Describes(dev'[i], lane[i], 1)
               /\ lane[i].id \in TopP => i \in topp'
               /\ LaneLen(lane[i]) + 1 <= Avail(lane[i])
    <2>1. i \in Slots /\ i \in Held
      BY <1>1, <1>2
    <2>2. /\ dev'[i].seqlen = LaneLen(lane[i]) + 1
          /\ dev'[i].maxlen = LaneMaxLen(lane[i].id)
          /\ dev'[i].blktbl = [b \in Blocks |->
                                 IF b < Len(lane[i].blocks) THEN lane[i].blocks[b + 1]
                                 ELSE dev[i].blktbl[b]]
          /\ fresh'[i] = 1
      BY <2>1 DEF Prefill
    <2>3. ASSUME NEW b \in DOMAIN lane[i].blocks
          PROVE  dev'[i].blktbl[b - 1] = lane[i].blocks[b]
      <3>1. /\ Len(lane[i].blocks) \in Nat /\ Len(lane[i].blocks) <= NBlocks
            /\ lane[i].blocks \in Seq(Blocks) /\ NBlocks \in Nat
        BY <2>1, HeldFacts, ConstantAssumption DEF Lanes
      <3>2. b \in 1..Len(lane[i].blocks)
        BY <3>1
      <3>3. b - 1 \in Blocks /\ b - 1 < Len(lane[i].blocks) /\ (b - 1) + 1 = b
        BY <3>1, <3>2 DEF Blocks
      <3>. QED BY <2>2, <3>3
    <2>4. lane[i].id \in TopP => i \in topp'
      BY DEF Prefill
    <2>5. LaneLen(lane[i]) + 1 <= Avail(lane[i])
      BY <1>1 DEF RoomInv
    <2>. QED BY <2>2, <2>3, <2>4, <2>5 DEF Describes
  <1>5. \A i \in 0..(idx - 1) : Behind(i) /\ Behind(i)'
    BY <1>1 DEF Behind
  <1>6. MirrorInv'
    <2>1. ASSUME NEW i \in 0..(idx - 1) PROVE Describes(dev'[i], lane[i], Ahead(i)')
      <3>1. Ahead(i)' = fresh'[i] /\ Ahead(i) = fresh[i]
        BY <1>5 DEF Ahead
      <3>2. CASE i \in 0..Last
        BY <1>3, <3>1, <3>2 DEF MirrorInv
      <3>3. CASE i \in nactive..(idx - 1)
        BY <1>4, <3>1, <3>3
      <3>. QED BY <1>2, <3>2, <3>3
    <2>2. ASSUME NEW i \in Slots, i >= idx PROVE dev'[i] = DeadRow
      <3>1. i >= nactive /\ i \notin nactive..(idx - 1)
        BY <1>1, <2>2 DEF Slots
      <3>2. dev'[i] = dev[i]
        BY <3>1 DEF Prefill
      <3>. QED BY <3>1, <3>2 DEF MirrorInv
    <2>. QED BY <1>1, <2>1, <2>2 DEF MirrorInv
  <1>7. TopPInv'
    <2>1. topp \subseteq topp'
      BY DEF Prefill
    <2>. QED BY <1>1, <1>2, <1>4, <2>1 DEF TopPInv
  <1>8. LimitInv' /\ OrderInv'
    BY <1>1, <1>5 DEF LimitInv, OrderInv, Unjudged
  <1>9. RoomInv'
    <2>1. \A i \in 0..Last : dev[i].seqlen <= Avail(lane[i])
      BY <1>1 DEF RoomInv
    <2>. QED BY <1>1, <1>2, <1>3, <1>4, <2>1 DEF RoomInv
  <1>. QED BY <1>6, <1>7, <1>8, <1>9 DEF Dev

(* The finish loop takes over the new tokens of a lane. *)
LEMMA ExtendDev ==
  ASSUME DInv, FinishKeep \/ FinishYield
  PROVE  Dev'
  <1>. USE DEF DInv
  <1>1. /\ pc = "finish" /\ idx \in 0..Last /\ lane' = Extended(idx) /\ Last' = Last
        /\ UNCHANGED <<nactive, dev, topp, fresh>>
        /\ Held = 0..Last /\ 0..Last \subseteq Slots /\ Last \in Int
        /\ \/ pc' = "yielded" /\ idx' = idx
           \/ pc' = "finish" /\ idx' = idx - 1 /\ dev[idx].seqlen < dev[idx].maxlen
    <2>1. /\ pc = "finish" /\ idx \in 0..Last /\ lane' = Extended(idx) /\ Last' = Last
          /\ UNCHANGED <<nactive, dev, topp, fresh>>
      BY HeldFacts DEF FinishKeep, FinishYield, BInv, IInv, IdxInv, Last
    <2>2. Held = 0..Last /\ 0..Last \subseteq Slots /\ Last \in Int
      BY <2>1, HeldFacts, ConstantAssumption DEF Held, Last
    <2>3. dev[idx] \in Rows
      BY <2>1, <2>2, HeldFacts
    <2>4. \/ pc' = "yielded" /\ idx' = idx
          \/ pc' = "finish" /\ idx' = idx - 1 /\ dev[idx].seqlen < dev[idx].maxlen
      BY <2>3 DEF FinishKeep, FinishYield, TooLong, Rows
    <2>. QED BY <2>1, <2>2, <2>4
  <1>2. /\ fresh[idx] \in Nat /\ lane[idx] \in Lanes /\ lane \in [Slots -> Lanes]
        /\ idx \in Slots /\ LaneLen(lane[idx]) \in Nat /\ lane[idx].id \in Reqs
    BY <1>1, HeldFacts DEF BInv, IInv, TypeOK, CountType
  <1>3. /\ \A j \in Slots : j # idx => lane'[j] = lane[j]
        /\ lane'[idx].id = lane[idx].id /\ lane'[idx].blocks = lane[idx].blocks
        /\ lane'[idx].ntok = lane[idx].ntok + fresh[idx]
    BY <1>1, <1>2 DEF Extended, Lanes
  <1>4. /\ LaneLen(lane'[idx]) = LaneLen(lane[idx]) + fresh[idx]
        /\ Avail(lane'[idx]) = Avail(lane[idx])
    <2>1. PromptLen[lane[idx].id] \in Nat /\ lane[idx].ntok \in Nat
      BY <1>2, RequestAssumption DEF Lanes
    <2>. QED BY <1>2, <1>3, <2>1 DEF LaneLen, Avail
  <1>5. /\ \A i \in 0..Last : i # idx => (Behind(i)' <=> Behind(i))
        /\ \A i \in 0..Last : i = idx => Behind(i) /\ ~Behind(i)'
        /\ \A i \in 0..Last : i # idx => (Unjudged(i)' <=> Unjudged(i))
        /\ \A i \in 0..Last : i = idx => Unjudged(i)' \/ dev[i].seqlen < dev[i].maxlen
    <2>. SUFFICES ASSUME NEW i \in 0..Last
                  PROVE  /\ i # idx => (Behind(i)' <=> Behind(i)) /\ (Unjudged(i)' <=> Unjudged(i))
                         /\ i = idx => /\ Behind(i) /\ ~Behind(i)'
                                       /\ Unjudged(i)' \/ dev[i].seqlen < dev[i].maxlen
      OBVIOUS
    <2>1. i \in Int /\ idx \in Int
      BY <1>1
    <2>2. CASE i = idx
      BY <1>1, <2>1, <2>2 DEF Behind, Unjudged
    <2>3. CASE i # idx
      <3>1. Behind(i)' <=> Behind(i)
        BY <1>1, <2>1, <2>3 DEF Behind
      <3>2. Unjudged(i)' <=> Unjudged(i)
        BY <1>1, <2>1, <2>3 DEF Behind, Unjudged
      <3>. QED BY <2>3, <3>1, <3>2
    <2>. QED BY <2>2, <2>3
  <1>6. MirrorInv'
    <2>1. ASSUME NEW i \in 0..Last PROVE Describes(dev[i], lane'[i], Ahead(i)')
      <3>0. Describes(dev[i], lane[i], Ahead(i))
        BY DEF MirrorInv
      <3>1. CASE i = idx
        <4>1. Ahead(i) = fresh[i] /\ Ahead(i)' = 0
          BY <1>5, <2>1, <3>1 DEF Ahead
        <4>. QED BY <1>2, <1>3, <1>4, <3>0, <3>1, <4>1 DEF Describes
      <3>2. CASE i # idx
        <4>1. Ahead(i)' = Ahead(i) /\ lane'[i] = lane[i]
          BY <1>1, <1>3, <1>5, <2>1, <3>2 DEF Ahead
        <4>. QED BY <3>0, <4>1
      <3>. QED BY <3>1, <3>2
    <2>. QED BY <1>1, <2>1 DEF MirrorInv
  <1>7. TopPInv' /\ LimitInv' /\ OrderInv'
    BY <1>1, <1>3, <1>5 DEF TopPInv, LimitInv, OrderInv
  <1>8. RoomInv'
    <2>1. \A i \in 0..Last : dev[i].seqlen <= Avail(lane'[i])
      BY <1>1, <1>3, <1>4 DEF RoomInv
    <2>. QED BY <1>1, <2>1 DEF RoomInv
  <1>. QED BY <1>6, <1>7, <1>8 DEF Dev

(***************************************************************************)
(* The lane yielded is killed: the lane that takes its slot has been seen  *)
(* by the loop already, so nothing of it is pending.                       *)
(***************************************************************************)
LEMMA KillDev ==
  ASSUME DInv, FinishKill
  PROVE  Dev'
  <1>. USE DEF DInv
  <1>1. /\ pc = "yielded" /\ pc' = "finish" /\ idx \in 0..Last /\ idx' = idx - 1
        /\ nactive \in 1..MaxBatch /\ Last = nactive - 1 /\ Last' = Last - 1
        /\ nactive' = Last /\ lane' = KilledLane(idx) /\ dev' = KilledDev(idx)
        /\ topp' = KilledTopP(idx) /\ fresh' = fresh /\ Last \in Nat
    <2>1. /\ pc = "yielded" /\ pc' = "finish" /\ idx \in 0..Last /\ idx' = idx - 1
          /\ nactive \in 0..MaxBatch /\ Last = nactive - 1
      BY HeldFacts DEF FinishKill, BInv, IInv, IdxInv
    <2>. QED BY <2>1, ConstantAssumption DEF FinishKill, Last
  <1>2. LaneType
    BY DEF BInv, IInv, TypeOK
  <1>3. ASSUME NEW j \in 0..(Last - 1)
        PROVE  /\ Src(idx, j) \in 0..Last /\ Src(idx, j) # idx
               /\ lane'[j] = lane[Src(idx, j)] /\ dev'[j] = dev[Src(idx, j)]
               /\ Src(idx, j) \in topp => j \in topp'
               /\ Ahead(j)' = Ahead(Src(idx, j))
               /\ ~Unjudged(j)' => ~Unjudged(Src(idx, j))
    <2>1. /\ Src(idx, j) \in 0..Last /\ Src(idx, j) # idx
          /\ lane'[j] = lane[Src(idx, j)] /\ dev'[j] = dev[Src(idx, j)]
          /\ Src(idx, j) \in topp => j \in topp'
      BY <1>1, <1>2, KilledRows
    <2>2. (Behind(j)' <=> Behind(Src(idx, j))) /\ (~Unjudged(j)' => ~Unjudged(Src(idx, j)))
      BY <1>1, <1>3 DEF Src, Behind, Unjudged
    <2>3. Ahead(j)' = Ahead(Src(idx, j))
      <3>1. CASE j = idx
        BY <1>1, <1>3, <3>1 DEF Src, Ahead, Behind
      <3>2. CASE j # idx
        BY <1>1, <2>2, <3>2 DEF Src, Ahead
      <3>. QED BY <3>1, <3>2
    <2>. QED BY <2>1, <2>2, <2>3
  <1>4. MirrorInv'
    <2>1. ASSUME NEW j \in Slots, j >= Last PROVE dev'[j] = DeadRow
      <3>1. dev'[j] = IF j = Last THEN DeadRow ELSE dev[j]
        BY <1>1, <1>2, <2>1, KilledRows
      <3>2. j # Last => j >= nactive
        BY <1>1, <2>1 DEF Slots
      <3>. QED BY <3>1, <3>2 DEF MirrorInv
    <2>. QED BY <1>1, <1>3, <2>1 DEF MirrorInv
  <1>5. TopPInv' /\ LimitInv' /\ OrderInv'
    <2>1. TopPInv'
      BY <1>1, <1>3 DEF TopPInv
    <2>2. LimitInv'
      BY <1>1, <1>3 DEF LimitInv
    <2>. QED BY <1>1, <2>1, <2>2 DEF OrderInv
  <1>6. RoomInv'
    <2>1. \A j \in 0..Last : dev[j].seqlen <= Avail(lane[j])
      BY <1>1 DEF RoomInv
    <2>. QED BY <1>1, <1>3, <2>1 DEF RoomInv
  <1>. QED BY <1>4, <1>5, <1>6 DEF Dev

(* The lanes that ended are gone. *)
LEMMA FinishEndDev ==
  ASSUME DInv, FinishEnd
  PROVE  Dev'
  <1>. USE DEF DInv
  <1>1. /\ pc = "finish" /\ idx < 0 /\ pc' = "loop" /\ Last' = Last
        /\ UNCHANGED <<nactive, lane, dev, topp, idx, fresh>>
    BY DEF FinishEnd, Last
  <1>2. \A i \in 0..Last : ~Behind(i) /\ ~Unjudged(i) /\ Ahead(i) = 0 /\ Ahead(i)' = 0
    <2>1. idx \in Int /\ Last \in Int
      BY <1>1, HeldFacts, ConstantAssumption DEF BInv, IInv, TypeOK, ControlType
    <2>. QED BY <1>1, <2>1 DEF Behind, Unjudged, Ahead
  <1>3. MirrorInv' /\ TopPInv'
    BY <1>1, <1>2 DEF MirrorInv, TopPInv
  <1>4. LimitInv' /\ RoomInv' /\ OrderInv'
    BY <1>1, <1>2 DEF LimitInv, RoomInv, OrderInv
  <1>. QED BY <1>3, <1>4 DEF Dev

-----------------------------------------------------------------------------
(* The invariant is inductive, and what follows from it. *)

LEMMA NextDev == DInv /\ [Next]_vars => Dev'
  <1>. SUFFICES ASSUME DInv, [Next]_vars PROVE Dev'
    OBVIOUS
  <1>1. CASE Client \/ Stopped \/ UNCHANGED vars
    <2>1. UNCHANGED <<pc, nactive, lane, dev, topp, idx, decr, fresh>>
      BY <1>1 DEF Client, Put, PutEOQ, Stopped, vars
    <2>. QED BY <2>1, QuietDev DEF DInv, Dev
  <1>2. CASE Prepare
    BY <1>2, SkipDev, GrowDev, ParkSelfDev, ParkDev, FullDev, EndDev DEF Prepare
  <1>3. CASE AddLanes
    BY <1>3, AddLoopDev, NoneAddedDev DEF AddLanes
  <1>4. CASE Finish
    BY <1>4, ExtendDev, KillDev, FinishEndDev DEF Finish
  <1>. QED BY <1>1, <1>2, <1>3, <1>4, LoopDev, DecodeDev, PrefillDev DEF Next, Generator

(* The invariant holds of every behaviour of the scheduler. *)
THEOREM DeviceInv == Spec => []DInv
  <1>1. Init => DInv
    BY InitIInv, InitBlocks, InitDev DEF DInv, BInv, Dev
  <1>2. DInv /\ [Next]_vars => DInv'
    BY NextIInv, NextBlocks, NextDev DEF DInv, BInv, Dev
  <1>. QED BY <1>1, <1>2, PTL DEF Spec

(***************************************************************************)
(* In every run of the scheduler, for any number of lanes, blocks and      *)
(* packets, _decode finds device rows that describe the host's lanes,      *)
(* whatever lanes were killed, parked or moved to another slot before.     *)
(***************************************************************************)
THEOREM DeviceIsMirror == Spec => []DeviceMirrorsHost
  <1>1. DInv => DeviceMirrorsHost
    <2>. SUFFICES ASSUME DInv, pc = "decode", NEW i \in Slots
                  PROVE  IF i < nactive
                         THEN /\ dev[i].seqlen = LaneLen(lane[i])
                              /\ dev[i].maxlen = LaneMaxLen(lane[i].id)
                              /\ \A b \in DOMAIN lane[i].blocks :
                                   dev[i].blktbl[b - 1] = lane[i].blocks[b]
                              /\ lane[i].id \in TopP => i \in topp
                         ELSE dev[i] = DeadRow /\ lane[i].blocks = <<>>
      BY DEF DeviceMirrorsHost
    <2>. USE DEF DInv
    <2>1. /\ nactive \in Nat /\ Last = nactive - 1 /\ Held = 0..Last /\ i \in Nat
      BY HeldFacts, ConstantAssumption DEF Held, Last, Slots
    <2>2. CASE i < nactive
      <3>1. i \in 0..Last /\ i \in Held
        BY <2>1, <2>2
      <3>2. Ahead(i) = 0 /\ LaneLen(lane[i]) \in Nat
        BY <3>1, HeldFacts DEF Ahead, Behind
      <3>. QED BY <2>2, <3>1, <3>2 DEF MirrorInv, TopPInv, Describes
    <2>3. CASE ~(i < nactive)
      <3>1. i >= nactive /\ i \in Slots \ Held
        BY <2>1, <2>3
      <3>. QED BY <2>3, <3>1 DEF MirrorInv, BInv, BlocksPartitioned
    <2>. QED BY <2>2, <2>3
  <1>. QED BY <1>1, DeviceInv, PTL

(***************************************************************************)
(* The assertions of _prepare_lanes and _decode hold: each lane owns the   *)
(* blocks of every position that decode or prefill has written.            *)
(***************************************************************************)
THEOREM WritesStayInBlocks == Spec => []WritesInBlocks
  <1>1. DInv => WritesInBlocks
    <2>. SUFFICES ASSUME DInv PROVE WritesInBlocks
      OBVIOUS
    <2>. USE DEF DInv
    <2>1. /\ nactive \in Nat /\ Last = nactive - 1 /\ 0..Last \subseteq Slots
          /\ \A i \in 0..Last : /\ dev[i] \in Rows /\ Avail(lane[i]) \in Nat
                                /\ lane[i].id \in Reqs /\ lane[i] \in Lanes
      BY HeldFacts, ConstantAssumption
    <2>2. ASSUME pc = "decode", NEW i \in Slots PROVE dev[i].seqlen < MaxSeq
      <3>0. MaxSeq \in Nat \ {0} /\ i \in Nat
        BY ConstantAssumption DEF MaxSeq, Slots
      <3>1. CASE i >= nactive
        BY <3>0, <3>1 DEF MirrorInv, DeadRow
      <3>2. CASE ~(i >= nactive)
        <4>1. i \in 0..Last
          BY <2>1, <3>0, <3>2
        <4>2. dev[i].seqlen < dev[i].maxlen /\ dev[i].maxlen = LaneMaxLen(lane[i].id)
          BY <2>2, <4>1 DEF LimitInv, Unjudged, Behind, MirrorInv, Describes
        <4>3. LaneMaxLen(lane[i].id) <= MaxSeq /\ LaneMaxLen(lane[i].id) \in Nat
          <5>1. PromptLen[lane[i].id] + MaxGen[lane[i].id] \in Nat
            BY <2>1, <4>1, RequestAssumption
          <5>. QED BY <3>0, <5>1 DEF LaneMaxLen, MinOf
        <4>4. dev[i].seqlen \in Nat
          BY <2>1, <4>1 DEF Rows
        <4>. QED BY <3>0, <4>2, <4>3, <4>4
      <3>. QED BY <3>1, <3>2
    <2>3. ASSUME pc = "decode"
          PROVE  /\ nactive > 0
                 /\ \A i \in 0..Last : MinOf(MaxSeq, LaneLen(lane[i]) + SyncFreq) <= Avail(lane[i])
      BY <2>3 DEF RoomInv, Enough
    <2>4. ASSUME pc \in {"add", "added", "finish"}, NEW i \in 0..Last
          PROVE  dev[i].seqlen - 1 <= Avail(lane[i])
      <3>1. dev[i].seqlen <= Avail(lane[i])
        BY <2>4 DEF RoomInv
      <3>2. dev[i].seqlen \in Nat /\ Avail(lane[i]) \in Nat
        BY <2>1 DEF Rows
      <3>. QED BY <3>1, <3>2
    <2>. QED BY <2>2, <2>3, <2>4 DEF WritesInBlocks
  <1>. QED BY <1>1, DeviceInv, PTL

(* The lane a step parks is no longer than any that stays. *)
LEMMA ParkedIsShortest ==
  ASSUME DInv, PrepareParkSelf \/ PreparePark,
         NEW i \in 0..(nactive' - 1)
  PROVE  LaneLen(parking'[Len(parking')]) <= LaneLen(lane'[i])
  <1>. USE DEF DInv
  <1>. DEFINE p == decr[Last]
  <1>1. /\ pc = "prepare" /\ nactive \in 1..MaxBatch /\ idx \in 0..Last /\ Last \in Nat
        /\ p \in 0..Last /\ Held = 0..Last /\ 0..Last \subseteq Slots
        /\ nactive' = Last /\ parking' = Append(parking, Freed(lane[p]))
    BY PreparedFacts, ConstantAssumption DEF PrepareParkSelf, PreparePark, Starved
  <1>2. LaneLen(lane'[i]) = LaneLen(KilledLane(p)[i])
    <2>1. i \in 0..(Last - 1) /\ i \in Slots
      BY <1>1
    <2>2. KilledLane(p) \in [Slots -> Lanes]
      BY <1>1, KilledFacts DEF BInv, IInv, TypeOK
    <2>3. CASE PrepareParkSelf
      BY <2>3 DEF PrepareParkSelf
    <2>4. CASE PreparePark
      <3>1. PICK bs \in Taken(KilledFree(p), 1) :
              lane' = Grown(KilledLane(p), FixedDecr[idx], bs[1])
        BY <2>4 DEF PreparePark
      <3>2. lane'[i].id = KilledLane(p)[i].id /\ lane'[i].ntok = KilledLane(p)[i].ntok
        BY <2>1, <2>2, <3>1 DEF Grown, Lanes
      <3>. QED BY <3>2 DEF LaneLen
    <2>. QED BY <2>3, <2>4
  <1>. HIDE DEF p
  <1>3. Src(p, i) \in 0..Last /\ Src(p, i) # p /\ KilledLane(p)[i] = lane[Src(p, i)]
    BY <1>1, KilledRows DEF BInv, IInv, TypeOK
  <1>4. LaneLen(lane[Src(p, i)]) >= LaneLen(lane[p])
    <2>1. Last \in idx..Last /\ From(Last) = {p}
      BY <1>1 DEF From, p
    <2>. QED BY <1>1, <1>3, <2>1 DEF OrderInv, p
  <1>5. LaneLen(parking'[Len(parking')]) = LaneLen(lane[p])
    <2>1. lane[p] \in Lanes /\ parking \in Seq(Lanes)
      BY <1>1, HeldFacts DEF BInv, IInv, TypeOK, LaneType
    <2>2. parking'[Len(parking')] = Freed(lane[p])
      BY <1>1, <2>1
    <2>. QED BY <2>1, <2>2 DEF Freed, LaneLen, Lanes
  <1>6. LaneLen(lane[p]) \in Nat /\ LaneLen(lane[Src(p, i)]) \in Nat
    BY <1>1, <1>3, HeldFacts
  <1>. QED BY <1>2, <1>3, <1>4, <1>5, <1>6

(***************************************************************************)
(* "evict short lanes first": in every run, for any number of lanes, the   *)
(* lane _prepare_lanes parks for its blocks is a shortest one, although    *)
(* slots have been renumbered since it sorted them.                        *)
(***************************************************************************)
THEOREM ShortAreEvicted == Spec => EvictShortFirst
  <1>. DEFINE A == pc = "prepare" /\ nactive' < nactive =>
                     \A i \in 0..(nactive' - 1) :
                        LaneLen(parking'[Len(parking')]) <= LaneLen(lane'[i])
  <1>1. DInv /\ [Next]_vars => [A]_vars
    <2>. SUFFICES ASSUME DInv, Next, pc = "prepare", nactive' < nactive
                  PROVE  PrepareParkSelf \/ PreparePark
      BY ParkedIsShortest DEF vars
    <2>1. ~UNCHANGED nactive
      BY HeldFacts, ConstantAssumption DEF DInv
    <2>. QED BY <2>1 DEF Next, Client, Put, PutEOQ, Stopped, vars, Generator, Iterate, Return,
                Prepare, PrepareSkip, PrepareGrow, PrepareFull, PrepareEnd, Decode,
                AddLanes, AddParked, AddFromQueue, AddReadNone, AddBreak, AddUndo, AddNone,
                Prefill, Finish, FinishKeep, FinishYield, FinishKill, FinishEnd
  <1>. QED BY <1>1, DeviceInv, PTL DEF Spec, EvictShortFirst
=============================================================================
