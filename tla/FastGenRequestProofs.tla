----------------------- MODULE FastGenRequestProofs -----------------------
(***************************************************************************)
(* What becomes of the requests, and of the pages copied to the host.      *)
(*                                                                         *)
(* A packet is in one place at a time, which is why it is neither lost nor *)
(* answered twice; and because no two lanes have the same packet, the lane *)
(* that writes a block whose copy is running is never the one that handed  *)
(* the page over.                                                          *)
(***************************************************************************)
EXTENDS FastGenProofs, FastGenHost

QueuedIds == {q[k] : k \in DOMAIN q}
ParkedIds == {parking[k].id : k \in DOMAIN parking}
PlacedIds == {lane[i].id : i \in Held}

(* No place holds a packet twice, and no packet is in two places. *)
OnceInv ==
  /\ \A j, k \in DOMAIN q : q[j] = q[k] => j = k
  /\ \A j, k \in DOMAIN parking : parking[j].id = parking[k].id => j = k
  /\ \A i, j \in Held : lane[i].id = lane[j].id => i = j
  /\ QueuedIds \cap ParkedIds = {} /\ QueuedIds \cap PlacedIds = {}
  /\ ParkedIds \cap PlacedIds = {}

(* The packet whose answer the caller has and whose lane is not killed yet. *)
Yielding(r) == pc = "yielded" /\ lane[idx].id = r

Pending == QueuedIds \cup ParkedIds \cup PlacedIds

(* A packet that was put is in one of the places until it is answered. *)
AnswerInv ==
  /\ Pending \subseteq sent
  /\ \A r \in Reqs :
       answers[r] = IF r \in sent /\ (r \in Pending => Yielding(r)) THEN 1 ELSE 0

RInv == DInv /\ OnceInv /\ AnswerInv

(* The blocks of lane l that are full once n - 1 tokens have been written. *)
FullBlocks(l, n) == {l.blocks[k] : k \in {m \in DOMAIN l.blocks : m * PageLen <= n - 1}}

(***************************************************************************)
(* Copies in flight: none while lanes are added; those of a lane that is   *)
(* still there are of pages that it has filled.                            *)
(***************************************************************************)
CopyInv ==
  /\ pc \in {"add", "added"} => ~ready /\ copying = {}
  /\ \A c \in copying : \A i \in 0..Last :
       lane[i].id = c[2] => c[1] \in FullBlocks(lane[i], dev[i].seqlen)
  /\ pc \in {"finish", "yielded"} => \A c \in copying : \E i \in 0..Last : lane[i].id = c[2]
  /\ \A t \in torn : t[1][2] # t[2]

HInv == RInv /\ CopyInv

-----------------------------------------------------------------------------
(* What the moves of a packet do to the places. *)

(* A packet goes to the end of the queue. *)
LEMMA QueueAppend ==
  ASSUME q \in Seq(Reqs \cup {EOQ}), OnceInv, NEW r, r \notin QueuedIds,
         q' = Append(q, r)
  PROVE  /\ QueuedIds' = QueuedIds \cup {r}
         /\ (\A j, k \in DOMAIN q : q[j] = q[k] => j = k)'
  <1>1. /\ Len(q) \in Nat /\ DOMAIN q = 1..Len(q) /\ DOMAIN q' = 1..(Len(q) + 1)
        /\ q'[Len(q) + 1] = r /\ \A k \in 1..Len(q) : q'[k] = q[k]
    OBVIOUS
  <1>2. QueuedIds' = QueuedIds \cup {r}
    BY <1>1 DEF QueuedIds
  <1>3. ASSUME NEW j \in DOMAIN q', NEW k \in DOMAIN q', q'[j] = q'[k] PROVE j = k
    <2>1. \A m \in 1..Len(q) : q'[m] # r
      BY <1>1 DEF QueuedIds
    <2>2. (j \in 1..Len(q) \/ j = Len(q) + 1) /\ (k \in 1..Len(q) \/ k = Len(q) + 1)
      BY <1>1, <1>3
    <2>. QED BY <1>1, <1>3, <2>1, <2>2 DEF OnceInv
  <1>. QED BY <1>2, <1>3

(* The head of the queue leaves it. *)
LEMMA QueueTail ==
  ASSUME q \in Seq(Reqs \cup {EOQ}), OnceInv, q # <<>>, q' = Tail(q)
  PROVE  /\ Head(q) \in QueuedIds /\ QueuedIds' = QueuedIds \ {Head(q)}
         /\ (\A j, k \in DOMAIN q : q[j] = q[k] => j = k)'
  <1>1. /\ Len(q) \in Nat \ {0} /\ DOMAIN q = 1..Len(q) /\ DOMAIN q' = 1..(Len(q) - 1)
        /\ \A k \in 1..(Len(q) - 1) : q'[k] = q[k + 1] /\ k + 1 \in 1..Len(q)
        /\ Head(q) = q[1] /\ 1 \in DOMAIN q
    BY HeadTailProperties
  <1>2. \A k \in DOMAIN q : k = 1 \/ (k - 1 \in DOMAIN q' /\ q'[k - 1] = q[k])
    <2>. SUFFICES ASSUME NEW k \in DOMAIN q, k # 1
                  PROVE  k - 1 \in DOMAIN q' /\ q'[k - 1] = q[k]
      OBVIOUS
    <2>1. k - 1 \in 1..(Len(q) - 1) /\ (k - 1) + 1 = k
      BY <1>1
    <2>. QED BY <1>1, <2>1
  <1>3. \A k \in DOMAIN q : q[k] = q[1] => k = 1
    BY <1>1 DEF OnceInv
  <1>4. ASSUME NEW x \in QueuedIds' PROVE x \in QueuedIds /\ x # q[1]
    <2>1. PICK k \in 1..(Len(q) - 1) : x = q'[k]
      BY <1>1, <1>4 DEF QueuedIds
    <2>2. x = q[k + 1] /\ k + 1 \in DOMAIN q /\ k + 1 # 1
      BY <1>1, <2>1
    <2>. QED BY <1>3, <2>2 DEF QueuedIds
  <1>5. ASSUME NEW x \in QueuedIds, x # q[1] PROVE x \in QueuedIds'
    <2>1. PICK k \in DOMAIN q : x = q[k]
      BY <1>5 DEF QueuedIds
    <2>2. k - 1 \in DOMAIN q' /\ q'[k - 1] = x
      BY <1>2, <1>5, <2>1
    <2>. QED BY <2>2 DEF QueuedIds
  <1>6. ASSUME NEW j \in DOMAIN q', NEW k \in DOMAIN q', q'[j] = q'[k] PROVE j = k
    <2>1. j + 1 = k + 1
      BY <1>1, <1>6 DEF OnceInv
    <2>. QED BY <1>1, <2>1
  <1>. QED BY <1>1, <1>4, <1>5, <1>6 DEF QueuedIds

(* A lane is parked behind the others. *)
LEMMA ParkAppend ==
  ASSUME parking \in Seq(Lanes), OnceInv, NEW l \in Lanes, l.id \notin ParkedIds,
         parking' = Append(parking, l)
  PROVE  /\ ParkedIds' = ParkedIds \cup {l.id}
         /\ (\A j, k \in DOMAIN parking : parking[j].id = parking[k].id => j = k)'
  <1>. DEFINE n == Len(parking)
  <1>1. /\ n \in Nat /\ DOMAIN parking = 1..n /\ DOMAIN parking' = 1..(n + 1)
        /\ parking'[n + 1] = l /\ \A k \in 1..n : parking'[k] = parking[k]
    OBVIOUS
  <1>. HIDE DEF n
  <1>2. ParkedIds' = ParkedIds \cup {l.id}
    <2>1. \A k \in DOMAIN parking' : k = n + 1 \/ k \in DOMAIN parking
      BY <1>1
    <2>2. \A k \in DOMAIN parking : k \in DOMAIN parking' /\ parking'[k] = parking[k]
      BY <1>1
    <2>3. n + 1 \in DOMAIN parking' /\ parking'[n + 1] = l
      BY <1>1
    <2>. QED BY <2>1, <2>2, <2>3 DEF ParkedIds
  <1>3. ASSUME NEW j \in DOMAIN parking', NEW k \in DOMAIN parking',
               parking'[j].id = parking'[k].id
        PROVE  j = k
    <2>1. \A m \in 1..n : parking'[m].id # l.id
      BY <1>1 DEF ParkedIds
    <2>2. (j \in 1..n \/ j = n + 1) /\ (k \in 1..n \/ k = n + 1)
      BY <1>1, <1>3
    <2>. QED BY <1>1, <1>3, <2>1, <2>2 DEF OnceInv
  <1>. QED BY <1>2, <1>3

(* The lane parked longest leaves the parking. *)
LEMMA ParkTail ==
  ASSUME parking \in Seq(Lanes), OnceInv, parking # <<>>, parking' = Tail(parking)
  PROVE  /\ Head(parking).id \in ParkedIds /\ ParkedIds' = ParkedIds \ {Head(parking).id}
         /\ (\A j, k \in DOMAIN parking : parking[j].id = parking[k].id => j = k)'
  <1>. DEFINE n == Len(parking)
  <1>1. /\ n \in Nat \ {0} /\ DOMAIN parking = 1..n /\ DOMAIN parking' = 1..(n - 1)
        /\ \A k \in 1..(n - 1) : parking'[k] = parking[k + 1] /\ k + 1 \in 1..n
        /\ Head(parking) = parking[1] /\ 1 \in DOMAIN parking
    BY HeadTailProperties
  <1>. HIDE DEF n
  <1>2. \A k \in DOMAIN parking : k = 1 \/ (k - 1 \in DOMAIN parking' /\ parking'[k - 1] = parking[k])
    <2>. SUFFICES ASSUME NEW k \in DOMAIN parking, k # 1
                  PROVE  k - 1 \in DOMAIN parking' /\ parking'[k - 1] = parking[k]
      OBVIOUS
    <2>1. k - 1 \in 1..(n - 1) /\ (k - 1) + 1 = k
      BY <1>1
    <2>. QED BY <1>1, <2>1
  <1>3. \A k \in DOMAIN parking : parking[k].id = parking[1].id => k = 1
    BY <1>1 DEF OnceInv
  <1>4. ASSUME NEW x \in ParkedIds' PROVE x \in ParkedIds /\ x # parking[1].id
    <2>1. PICK k \in 1..(n - 1) : x = parking'[k].id
      BY <1>1, <1>4 DEF ParkedIds
    <2>2. x = parking[k + 1].id /\ k + 1 \in DOMAIN parking /\ k + 1 # 1
      BY <1>1, <2>1
    <2>. QED BY <1>3, <2>2 DEF ParkedIds
  <1>5. ASSUME NEW x \in ParkedIds, x # parking[1].id PROVE x \in ParkedIds'
    BY <1>2, <1>5 DEF ParkedIds
  <1>6. ASSUME NEW j \in DOMAIN parking', NEW k \in DOMAIN parking',
               parking'[j].id = parking'[k].id
        PROVE  j = k
    <2>1. j + 1 = k + 1
      BY <1>1, <1>6 DEF OnceInv
    <2>. QED BY <1>1, <2>1
  <1>7. parking[1].id \in ParkedIds
    BY <1>1 DEF ParkedIds
  <1>8. ParkedIds' = ParkedIds \ {parking[1].id}
    BY <1>4, <1>5
  <1>. QED BY <1>1, <1>6, <1>7, <1>8

(* The lanes keep their packets. *)
LEMMA PlaceSame ==
  ASSUME OnceInv, Held' = Held, \A i \in Held : lane'[i].id = lane[i].id
  PROVE  PlacedIds' = PlacedIds /\ (\A i, j \in Held : lane[i].id = lane[j].id => i = j)'
  <1>1. PlacedIds' = PlacedIds
    BY DEF PlacedIds
  <1>. QED BY <1>1 DEF OnceInv

(* The lane of slot i is killed and the last one moves into its slot. *)
LEMMA PlaceKill ==
  ASSUME OnceInv, Last \in Nat, NEW i \in 0..Last, Held = 0..Last, Held' = 0..(Last - 1),
         \A j \in 0..(Last - 1) : lane'[j].id = lane[Src(i, j)].id
  PROVE  /\ PlacedIds' = PlacedIds \ {lane[i].id} /\ lane[i].id \in PlacedIds
         /\ (\A j, k \in Held : lane[j].id = lane[k].id => j = k)'
  <1>1. \A j \in 0..(Last - 1) : Src(i, j) \in 0..Last /\ Src(i, j) # i
    BY DEF Src
  <1>2. \A j, k \in 0..(Last - 1) : Src(i, j) = Src(i, k) => j = k
    BY DEF Src
  <1>3. \A m \in 0..Last : m # i => \E j \in 0..(Last - 1) : Src(i, j) = m
    <2>. SUFFICES ASSUME NEW m \in 0..Last, m # i PROVE \E j \in 0..(Last - 1) : Src(i, j) = m
      OBVIOUS
    <2>1. CASE m = Last
      <3>1. i \in 0..(Last - 1) /\ Src(i, i) = m
        BY <2>1 DEF Src
      <3>. QED BY <3>1
    <2>2. CASE m # Last
      <3>1. m \in 0..(Last - 1) /\ Src(i, m) = m
        BY <2>2 DEF Src
      <3>. QED BY <3>1
    <2>. QED BY <2>1, <2>2
  <1>4. PlacedIds' = {lane[Src(i, j)].id : j \in 0..(Last - 1)}
    BY DEF PlacedIds
  <1>5. PlacedIds' = PlacedIds \ {lane[i].id}
    <2>1. ASSUME NEW x \in PlacedIds' PROVE x \in PlacedIds /\ x # lane[i].id
      <3>1. PICK j \in 0..(Last - 1) : x = lane[Src(i, j)].id
        BY <1>4, <2>1
      <3>. QED BY <1>1, <3>1 DEF PlacedIds, OnceInv
    <2>2. ASSUME NEW x \in PlacedIds, x # lane[i].id PROVE x \in PlacedIds'
      <3>1. PICK m \in 0..Last : x = lane[m].id
        BY <2>2 DEF PlacedIds
      <3>2. m # i
        BY <2>2, <3>1
      <3>. QED BY <1>3, <1>4, <3>1, <3>2
    <2>. QED BY <2>1, <2>2
  <1>6. \A j, k \in 0..(Last - 1) : lane'[j].id = lane'[k].id => j = k
    BY <1>1, <1>2 DEF OnceInv
  <1>. QED BY <1>5, <1>6 DEF PlacedIds

(* A packet gets the slot behind the lanes that hold blocks. *)
LEMMA PlaceAdd ==
  ASSUME OnceInv, idx \in Nat, Held = 0..(idx - 1), Held' = 0..idx,
         NEW r, r \notin PlacedIds, lane'[idx].id = r,
         \A j \in 0..(idx - 1) : lane'[j] = lane[j]
  PROVE  /\ PlacedIds' = PlacedIds \cup {r}
         /\ (\A i, j \in Held : lane[i].id = lane[j].id => i = j)'
  <1>1. /\ idx \in 0..idx /\ \A j \in 0..idx : j = idx \/ j \in 0..(idx - 1)
        /\ \A j \in 0..(idx - 1) : j \in 0..idx /\ j # idx
    OBVIOUS
  <1>2. PlacedIds' = PlacedIds \cup {r}
    BY <1>1 DEF PlacedIds
  <1>3. \A i, j \in 0..idx : lane'[i].id = lane'[j].id => i = j
    BY <1>1 DEF OnceInv, PlacedIds
  <1>. QED BY <1>2, <1>3

-----------------------------------------------------------------------------
(* The steps of FastGen keep every packet in one place. *)

(* Types the moves rely on. *)
LEMMA PlaceFacts ==
  ASSUME RInv
  PROVE  /\ q \in Seq(Reqs \cup {EOQ}) /\ parking \in Seq(Lanes) /\ lane \in [Slots -> Lanes]
         /\ answers \in [Reqs -> Nat] /\ Held \subseteq Slots
         /\ QueuedIds \subseteq Reqs \cup {EOQ} /\ ParkedIds \subseteq Reqs
         /\ PlacedIds \subseteq Reqs /\ EOQ \notin Reqs /\ idx \in Int
         /\ pc = "yielded" => idx \in Held /\ lane[idx].id \in PlacedIds
  <1>. USE DEF RInv, DInv, BInv, IInv, TypeOK
  <1>1. /\ q \in Seq(Reqs \cup {EOQ}) /\ parking \in Seq(Lanes) /\ lane \in [Slots -> Lanes]
        /\ answers \in [Reqs -> Nat] /\ EOQ \notin Reqs /\ idx \in Int
    BY RequestAssumption, ConstantAssumption DEF QueueType, LaneType, CountType, ControlType
  <1>2. Held \subseteq Slots
    BY HeldFacts
  <1>3. /\ QueuedIds \subseteq Reqs \cup {EOQ} /\ ParkedIds \subseteq Reqs
        /\ PlacedIds \subseteq Reqs
    BY <1>1 DEF QueuedIds, ParkedIds, PlacedIds, RequestInv
  <1>4. pc = "yielded" => idx \in Held /\ lane[idx].id \in PlacedIds
    BY DEF IdxInv, Held, Last, PlacedIds
  <1>. QED BY <1>1, <1>2, <1>3, <1>4

(* Packets moved between places: nobody is answered. *)
LEMMA MovedAnswers ==
  ASSUME RInv, UNCHANGED <<sent, answers>>,
         \A r \in Reqs : r \in Pending' <=> r \in Pending,
         Pending' \subseteq Pending,
         \A r \in Reqs : Yielding(r)' <=> Yielding(r)
  PROVE  AnswerInv'
  BY DEF RInv, AnswerInv

(* Steps that move no packet. *)
LEMMA StillRequests ==
  ASSUME RInv, UNCHANGED <<q, parking, sent, answers>>, Held' = Held,
         \A i \in Held : lane'[i].id = lane[i].id,
         pc # "yielded", pc' # "yielded"
  PROVE  OnceInv' /\ AnswerInv'
  <1>. USE DEF RInv
  <1>1. PlacedIds' = PlacedIds /\ (\A i, j \in Held : lane[i].id = lane[j].id => i = j)'
    BY PlaceSame
  <1>2. QueuedIds' = QueuedIds /\ ParkedIds' = ParkedIds
    BY DEF QueuedIds, ParkedIds
  <1>3. OnceInv'
    BY <1>1, <1>2 DEF OnceInv
  <1>4. AnswerInv'
    BY <1>1, <1>2, MovedAnswers DEF Pending, Yielding
  <1>. QED BY <1>3, <1>4

(* A client queues a request, or the None. *)
LEMMA ClientRequests ==
  ASSUME RInv, Client
  PROVE  OnceInv' /\ AnswerInv'
  <1>. USE DEF RInv
  <1>1. PICK r \in Reqs \cup {EOQ} :
          /\ r \notin sent /\ q' = Append(q, r) /\ sent' = sent \cup {r}
          /\ UNCHANGED <<pc, nactive, lane, parking, idx, answers>>
    BY DEF Client, Put, PutEOQ
  <1>2. r \notin Pending
    BY <1>1 DEF AnswerInv
  <1>3. /\ QueuedIds' = QueuedIds \cup {r}
        /\ (\A j, k \in DOMAIN q : q[j] = q[k] => j = k)'
    BY <1>1, <1>2, PlaceFacts, QueueAppend DEF Pending
  <1>4. Held' = Held /\ PlacedIds' = PlacedIds /\ ParkedIds' = ParkedIds
    BY <1>1 DEF Held, PlacedIds, ParkedIds
  <1>5. OnceInv'
    BY <1>1, <1>2, <1>3, <1>4 DEF OnceInv, Pending
  <1>6. /\ Pending' = Pending \cup {r} /\ \A x : Yielding(x)' <=> Yielding(x)
        /\ ~Yielding(r)
    BY <1>1, <1>2, <1>3, <1>4, PlaceFacts DEF Pending, Yielding
  <1>7. AnswerInv'
    <2>1. Pending' \subseteq sent'
      BY <1>1, <1>6 DEF AnswerInv
    <2>2. ASSUME NEW x \in Reqs
          PROVE  answers'[x] = IF x \in sent' /\ (x \in Pending' => Yielding(x)') THEN 1 ELSE 0
      <3>1. CASE x = r
        BY <1>1, <1>6, <2>2, <3>1 DEF AnswerInv
      <3>2. CASE x # r
        BY <1>1, <1>6, <2>2, <3>2 DEF AnswerInv
      <3>. QED BY <3>1, <3>2
    <2>. QED BY <2>1, <2>2 DEF AnswerInv
  <1>. QED BY <1>5, <1>7

(* A killed lane is parked. *)
LEMMA ParkRequests ==
  ASSUME RInv, PrepareParkSelf \/ PreparePark
  PROVE  OnceInv' /\ AnswerInv'
  <1>. USE DEF RInv
  <1>. DEFINE p == decr[Last]
  <1>1. /\ pc = "prepare" /\ pc' \in {"prepare", "decode"} /\ idx \in 0..Last
        /\ Last \in Nat /\ nactive \in 1..MaxBatch /\ p \in 0..Last
        /\ Held = 0..Last /\ Held' = 0..(Last - 1) /\ 0..Last \subseteq Slots
        /\ parking' = Append(parking, Freed(lane[p])) /\ UNCHANGED <<q, sent, answers>>
    BY PreparedFacts, ConstantAssumption
       DEF PrepareParkSelf, PreparePark, Starved, Held
  <1>2. \A j \in 0..(Last - 1) : lane'[j].id = lane[Src(p, j)].id
    <2>1. KilledLane(p) \in [Slots -> Lanes]
      BY <1>1, KilledFacts DEF DInv, BInv, IInv, TypeOK
    <2>2. \A j \in 0..(Last - 1) : KilledLane(p)[j] = lane[Src(p, j)] /\ j \in Slots
      BY <1>1, KilledRows DEF DInv, BInv, IInv, TypeOK
    <2>3. CASE PrepareParkSelf
      BY <2>2, <2>3 DEF PrepareParkSelf
    <2>4. CASE PreparePark
      <3>1. PICK bs \in Taken(KilledFree(p), 1) :
              lane' = Grown(KilledLane(p), FixedDecr[idx], bs[1])
        BY <2>4 DEF PreparePark
      <3>2. \A j \in Slots : lane'[j].id = KilledLane(p)[j].id
        BY <2>1, <3>1 DEF Grown, Lanes
      <3>. QED BY <2>2, <3>2
    <2>. QED BY <2>3, <2>4
  <1>. HIDE DEF p
  <1>3. /\ PlacedIds' = PlacedIds \ {lane[p].id} /\ lane[p].id \in PlacedIds
        /\ (\A j, k \in Held : lane[j].id = lane[k].id => j = k)'
    BY <1>1, <1>2, PlaceKill
  <1>4. Freed(lane[p]) \in Lanes /\ Freed(lane[p]).id = lane[p].id
    BY <1>1, PlaceFacts, ParkedFacts
  <1>5. /\ ParkedIds' = ParkedIds \cup {lane[p].id}
        /\ (\A j, k \in DOMAIN parking : parking[j].id = parking[k].id => j = k)'
    <2>1. lane[p].id \notin ParkedIds
      BY <1>3 DEF OnceInv
    <2>. QED BY <1>1, <1>4, <2>1, PlaceFacts, ParkAppend
  <1>6. QueuedIds' = QueuedIds
    BY <1>1 DEF QueuedIds
  <1>7. OnceInv'
    BY <1>1, <1>3, <1>5, <1>6 DEF OnceInv
  <1>8. AnswerInv'
    <2>1. Pending' = Pending
      BY <1>3, <1>5, <1>6 DEF Pending
    <2>. QED BY <1>1, <2>1, MovedAnswers DEF Yielding
  <1>. QED BY <1>7, <1>8

(* A lane is admitted, from the parking or from the queue. *)
LEMMA AdmitRequests ==
  ASSUME RInv, pc = "add", pc' = "add", nactive' = nactive, idx < MaxBatch,
         UNCHANGED <<sent, answers>>,
         NEW l \in Lanes, l.id \in Reqs, Admit(l),
         \/ /\ parking # <<>> /\ l = Head(parking) /\ parking' = Tail(parking) /\ q' = q
         \/ /\ q # <<>> /\ l.id = Head(q) /\ q' = Tail(q) /\ parking' = parking
  PROVE  OnceInv' /\ AnswerInv'
  <1>. USE DEF RInv
  <1>1. /\ idx \in Nat /\ idx \in Slots /\ Held = 0..(idx - 1) /\ LaneType /\ toks \in Nat
        /\ 0..(idx - 1) \subseteq Slots
    BY HeldFacts, ConstantAssumption
       DEF DInv, BInv, IInv, IdxInv, TypeOK, ControlType, Slots, Held
  <1>2. /\ idx' = idx + 1 /\ lane'[idx].id = l.id
        /\ \A j \in 0..(idx - 1) : lane'[j] = lane[j]
    BY <1>1, AdmitFacts
  <1>3. Held' = 0..idx
    BY <1>1, <1>2 DEF Held
  <1>4. \/ /\ l.id \in ParkedIds /\ ParkedIds' = ParkedIds \ {l.id} /\ QueuedIds' = QueuedIds
           /\ (\A j, k \in DOMAIN parking : parking[j].id = parking[k].id => j = k)'
           /\ q' = q
        \/ /\ l.id \in QueuedIds /\ QueuedIds' = QueuedIds \ {l.id} /\ ParkedIds' = ParkedIds
           /\ (\A j, k \in DOMAIN q : q[j] = q[k] => j = k)'
           /\ parking' = parking
    <2>1. CASE parking # <<>> /\ l = Head(parking) /\ parking' = Tail(parking) /\ q' = q
      BY <2>1, PlaceFacts, ParkTail DEF QueuedIds
    <2>2. CASE q # <<>> /\ l.id = Head(q) /\ q' = Tail(q) /\ parking' = parking
      BY <2>2, PlaceFacts, QueueTail DEF ParkedIds
    <2>. QED BY <2>1, <2>2
  <1>5. l.id \notin PlacedIds
    BY <1>4 DEF OnceInv
  <1>6. /\ PlacedIds' = PlacedIds \cup {l.id}
        /\ (\A i, j \in Held : lane[i].id = lane[j].id => i = j)'
    BY <1>1, <1>2, <1>3, <1>5, PlaceAdd
  <1>7. OnceInv'
    <2>1. (\A j, k \in DOMAIN parking : parking[j].id = parking[k].id => j = k)'
      BY <1>4 DEF OnceInv
    <2>2. (\A j, k \in DOMAIN q : q[j] = q[k] => j = k)'
      BY <1>4 DEF OnceInv
    <2>3. /\ QueuedIds' \cap ParkedIds' = {} /\ QueuedIds' \cap PlacedIds' = {}
          /\ ParkedIds' \cap PlacedIds' = {}
      BY <1>4, <1>6 DEF OnceInv
    <2>. QED BY <1>6, <2>1, <2>2, <2>3 DEF OnceInv
  <1>8. AnswerInv'
    <2>1. Pending' = Pending
      BY <1>4, <1>6 DEF Pending
    <2>. QED BY <2>1, MovedAnswers DEF Yielding
  <1>. QED BY <1>7, <1>8

(* The loop of _add_lanes. *)
LEMMA AddRequests ==
  ASSUME RInv, AddParked \/ AddFromQueue \/ AddReadNone \/ AddBreak
  PROVE  OnceInv' /\ AnswerInv'
  <1>. USE DEF RInv
  <1>1. CASE AddParked
    <2>1. Head(parking) \in Lanes /\ Head(parking).id \in Reqs
      BY <1>1, PlaceFacts DEF AddParked, DInv, BInv, IInv, RequestInv
    <2>2. /\ pc = "add" /\ pc' = "add" /\ nactive' = nactive /\ idx < MaxBatch
          /\ UNCHANGED <<sent, answers, q>> /\ Admit(Head(parking))
          /\ parking # <<>> /\ parking' = Tail(parking)
      BY <1>1 DEF AddParked
    <2>. QED BY <2>1, <2>2, AdmitRequests
  <1>2. CASE AddFromQueue
    <2>. DEFINE l == NewLane(Head(q))
    <2>1. Head(q) \in Reqs /\ Head(q) \in QueuedIds
      BY <1>2, PlaceFacts DEF AddFromQueue, QueuedIds
    <2>2. l \in Lanes /\ l.id = Head(q)
      BY <2>1 DEF NewLane, Lanes
    <2>3. /\ pc = "add" /\ idx < MaxBatch /\ q # <<>> /\ q' = Tail(q)
          /\ UNCHANGED <<sent, answers, nactive>>
      BY <1>2 DEF AddFromQueue
    <2>4. \/ Admit(l) /\ UNCHANGED <<pc, parking>>
          \/ parking' = Append(parking, l) /\ pc' = "added" /\ UNCHANGED <<lane, idx>>
      BY <1>2 DEF AddFromQueue
    <2>. HIDE DEF l
    <2>5. CASE Admit(l) /\ UNCHANGED <<pc, parking>>
      BY <2>1, <2>2, <2>3, <2>5, AdmitRequests
    <2>6. CASE parking' = Append(parking, l) /\ pc' = "added" /\ UNCHANGED <<lane, idx>>
      <3>1. Held' = Held /\ PlacedIds' = PlacedIds
        BY <2>3, <2>6 DEF Held, PlacedIds
      <3>2. /\ QueuedIds' = QueuedIds \ {l.id}
            /\ (\A j, k \in DOMAIN q : q[j] = q[k] => j = k)'
        BY <2>2, <2>3, PlaceFacts, QueueTail
      <3>3. /\ ParkedIds' = ParkedIds \cup {l.id}
            /\ (\A j, k \in DOMAIN parking : parking[j].id = parking[k].id => j = k)'
        <4>1. l.id \notin ParkedIds
          BY <2>1, <2>2 DEF OnceInv
        <4>. QED BY <2>2, <2>6, <4>1, PlaceFacts, ParkAppend
      <3>4. OnceInv'
        BY <2>1, <2>2, <2>6, <3>1, <3>2, <3>3 DEF OnceInv
      <3>5. Pending' = Pending
        BY <2>1, <2>2, <3>1, <3>2, <3>3 DEF Pending
      <3>6. AnswerInv'
        BY <2>3, <2>6, <3>5, MovedAnswers DEF Yielding
      <3>. QED BY <3>4, <3>6
    <2>. QED BY <2>4, <2>5, <2>6
  <1>3. CASE AddReadNone
    <2>1. /\ pc = "add" /\ pc' = "added" /\ q # <<>> /\ Head(q) = EOQ /\ q' = Tail(q)
          /\ UNCHANGED <<sent, answers, nactive, lane, idx, parking>>
      BY <1>3 DEF AddReadNone
    <2>2. Held' = Held /\ PlacedIds' = PlacedIds /\ ParkedIds' = ParkedIds
      BY <2>1 DEF Held, PlacedIds, ParkedIds
    <2>3. /\ QueuedIds' = QueuedIds \ {EOQ}
          /\ (\A j, k \in DOMAIN q : q[j] = q[k] => j = k)'
      BY <2>1, PlaceFacts, QueueTail
    <2>4. OnceInv'
      BY <2>1, <2>2, <2>3 DEF OnceInv
    <2>5. Pending' \subseteq Pending /\ \A r \in Reqs : r \in Pending' <=> r \in Pending
      BY <2>2, <2>3, PlaceFacts DEF Pending
    <2>6. AnswerInv'
      BY <2>1, <2>5, MovedAnswers DEF Yielding
    <2>. QED BY <2>4, <2>6
  <1>4. CASE AddBreak
    <2>1. Held' = Held
      BY <1>4 DEF AddBreak, Held
    <2>. QED BY <1>4, <2>1, StillRequests DEF AddBreak
  <1>. QED BY <1>1, <1>2, <1>3, <1>4

(* The new lanes are parked again, in front of the others. *)
LEMMA UndoRequests ==
  ASSUME RInv, AddUndo
  PROVE  OnceInv' /\ AnswerInv'
  <1>. USE DEF RInv
  <1>. DEFINE n == idx - nactive
  <1>1. /\ pc = "added" /\ pc' = "finish" /\ nactive \in Nat \ {0} /\ n \in Nat
        /\ Last = nactive - 1 /\ Held = 0..(idx - 1) /\ Held' = 0..(nactive - 1)
        /\ UNCHANGED <<q, sent, answers, nactive>> /\ parking' = Undone
        /\ Held \subseteq Slots /\ idx \in Int
    <2>1. /\ pc = "added" /\ pc' = "finish" /\ nactive # 0
          /\ UNCHANGED <<q, sent, answers, nactive>> /\ parking' = Undone
      BY DEF AddUndo, TooFew
    <2>2. nactive \in Nat /\ idx \in Int /\ nactive <= idx
      BY <2>1 DEF DInv, BInv, IInv, IdxInv, TypeOK, ControlType
    <2>3. Held \subseteq Slots /\ Last = nactive - 1
      BY HeldFacts DEF DInv
    <2>4. Held = 0..(idx - 1) /\ Held' = 0..(nactive - 1)
      BY <2>1 DEF Held, Last
    <2>. QED BY <2>1, <2>2, <2>3, <2>4
  <1>2. \A j \in 0..(nactive - 1) : lane'[j] = lane[j] /\ j \in Held
    <2>1. \A j \in 0..(nactive - 1) : j \in Held /\ j \in Slots /\ j \notin nactive..(idx - 1)
      BY <1>1
    <2>. QED BY <2>1 DEF AddUndo
  <1>. DEFINE s == [k \in 1..n |-> Freed(lane[nactive + k - 1])]
              m == Len(parking)
  <1>3. \A k \in 1..n : /\ nactive + k - 1 \in Held /\ nactive + k - 1 >= nactive
                        /\ s[k] \in Lanes /\ s[k].id = lane[nactive + k - 1].id
    <2>. SUFFICES ASSUME NEW k \in 1..n
                  PROVE  /\ nactive + k - 1 \in Held /\ nactive + k - 1 >= nactive
                         /\ s[k] \in Lanes /\ s[k].id = lane[nactive + k - 1].id
      OBVIOUS
    <2>1. nactive + k - 1 \in Held /\ nactive + k - 1 >= nactive
      BY <1>1
    <2>2. lane[nactive + k - 1] \in Lanes
      BY <2>1, PlaceFacts
    <2>. QED BY <2>1, <2>2, ParkedFacts
  <1>4. s \in Seq(Lanes) /\ Len(s) = n /\ parking' = s \o parking
    <2>1. parking' = s \o parking
      BY <1>1 DEF Undone
    <2>2. s \in [1..n -> Lanes]
      BY <1>3
    <2>. HIDE DEF s, n
    <2>3. s \in Seq(Lanes) /\ Len(s) = n
      BY <1>1, <2>2
    <2>. QED BY <2>1, <2>3
  <1>. HIDE DEF s
  <1>5. /\ m \in Nat /\ DOMAIN parking = 1..m /\ DOMAIN parking' = 1..(n + m)
        /\ \A k \in 1..n : parking'[k] = s[k]
        /\ \A k \in 1..m : parking'[n + k] = parking[k] /\ n + k \in 1..(n + m)
    <2>. HIDE DEF n
    <2>1. parking \in Seq(Lanes) /\ n \in Nat
      BY <1>1, PlaceFacts
    <2>2. m \in Nat /\ DOMAIN parking = 1..m
      BY <2>1
    <2>3. \A k \in 1..m : n + k \in 1..(n + m)
      BY <2>1, <2>2
    <2>. HIDE DEF m
    <2>4. Len(parking) = m
      BY <2>1, <2>2
    <2>5. /\ parking' \in Seq(Lanes) /\ Len(parking') = Len(s) + Len(parking)
          /\ \A k \in 1..(Len(s) + Len(parking)) :
               parking'[k] = IF k <= Len(s) THEN s[k] ELSE parking[k - Len(s)]
      BY <1>4, <2>1, ConcatProperties
    <2>6. DOMAIN parking' = 1..(n + m)
      BY <1>4, <2>4, <2>5
    <2>7. /\ \A k \in 1..n : k \in 1..(n + m) /\ k <= n
          /\ \A k \in 1..m : ~(n + k <= n) /\ n + k - n = k
      BY <2>1, <2>2
    <2>8. \A k \in 1..n : parking'[k] = s[k]
      BY <1>4, <2>4, <2>5, <2>7
    <2>9. \A k \in 1..m : parking'[n + k] = parking[k]
      BY <1>4, <2>3, <2>4, <2>5, <2>7
    <2>. QED BY <2>2, <2>3, <2>6, <2>8, <2>9
  <1>. HIDE DEF m
  <1>6. \A k \in DOMAIN parking' :
          k \in 1..n \/ (k - n \in DOMAIN parking /\ parking'[k] = parking[k - n] /\ k \notin 1..n)
    <2>. SUFFICES ASSUME NEW k \in 1..(n + m), k \notin 1..n
                  PROVE  k - n \in 1..m /\ parking'[k] = parking[k - n]
      BY <1>5
    <2>1. k - n \in 1..m /\ n + (k - n) = k
      BY <1>1, <1>5
    <2>. QED BY <1>5, <2>1
  <1>. DEFINE U == {lane[i].id : i \in nactive..(idx - 1)}
  <1>7. /\ U \subseteq PlacedIds /\ PlacedIds' = PlacedIds \ U
    <2>1. \A i \in nactive..(idx - 1) : i \in Held
      BY <1>1
    <2>2. U \subseteq PlacedIds
      BY <2>1 DEF PlacedIds
    <2>3. PlacedIds' = {lane[i].id : i \in 0..(nactive - 1)}
      BY <1>1, <1>2 DEF PlacedIds
    <2>4. ASSUME NEW i \in 0..(nactive - 1) PROVE lane[i].id \notin U /\ lane[i].id \in PlacedIds
      <3>1. \A j \in nactive..(idx - 1) : j # i /\ j \in Held
        BY <1>1, <2>1
      <3>. QED BY <1>2, <3>1 DEF OnceInv, PlacedIds
    <2>5. ASSUME NEW x \in PlacedIds, x \notin U PROVE x \in PlacedIds'
      <3>1. PICK i \in 0..(idx - 1) : x = lane[i].id
        BY <1>1 DEF PlacedIds
      <3>2. i \notin nactive..(idx - 1)
        BY <2>5, <3>1
      <3>3. i \in 0..(nactive - 1)
        BY <1>1, <3>1, <3>2
      <3>. QED BY <2>3, <3>1, <3>3
    <2>. QED BY <2>2, <2>3, <2>4, <2>5
  <1>8. ParkedIds' = ParkedIds \cup U
    <2>1. ASSUME NEW x \in ParkedIds' PROVE x \in ParkedIds \cup U
      <3>1. PICK k \in DOMAIN parking' : x = parking'[k].id
        BY <2>1 DEF ParkedIds
      <3>2. CASE k \in 1..n
        <4>1. x = lane[nactive + k - 1].id /\ nactive + k - 1 \in nactive..(idx - 1)
          <5>1. x = s[k].id /\ s[k].id = lane[nactive + k - 1].id
            BY <1>3, <1>5, <3>1, <3>2
          <5>2. nactive \in Nat /\ idx \in Int /\ n = idx - nactive
            BY <1>1
          <5>3. nactive + k - 1 \in nactive..(idx - 1)
            BY <3>2, <5>2
          <5>. QED BY <5>1, <5>3
        <4>. QED BY <4>1
      <3>3. CASE k - n \in DOMAIN parking /\ parking'[k] = parking[k - n]
        BY <3>1, <3>3 DEF ParkedIds
      <3>. QED BY <1>6, <3>2, <3>3
    <2>2. ASSUME NEW x \in ParkedIds PROVE x \in ParkedIds'
      <3>1. PICK k \in 1..m : x = parking[k].id
        BY <1>5, <2>2 DEF ParkedIds
      <3>. QED BY <1>5, <3>1 DEF ParkedIds
    <2>3. ASSUME NEW x \in U PROVE x \in ParkedIds'
      <3>1. PICK i \in nactive..(idx - 1) : x = lane[i].id
        BY <2>3
      <3>2. i - nactive + 1 \in 1..n /\ nactive + (i - nactive + 1) - 1 = i
            /\ i - nactive + 1 \in 1..(n + m)
        BY <1>1, <1>5, <3>1
      <3>3. s[i - nactive + 1].id = lane[i].id
        BY <1>3, <3>2
      <3>. QED BY <1>5, <3>1, <3>2, <3>3 DEF ParkedIds
    <2>. QED BY <2>1, <2>2, <2>3
  <1>9. ASSUME NEW j \in DOMAIN parking', NEW k \in DOMAIN parking',
               parking'[j].id = parking'[k].id
        PROVE  j = k
    <2>1. \A i \in 1..n : parking'[i].id = lane[nactive + i - 1].id /\ nactive + i - 1 \in Held
                          /\ parking'[i].id \in PlacedIds
      BY <1>3, <1>5 DEF PlacedIds
    <2>2. \A i \in DOMAIN parking' : i \notin 1..n => parking'[i].id \in ParkedIds
      BY <1>6 DEF ParkedIds
    <2>3. j \in 1..n <=> k \in 1..n
      BY <1>9, <2>1, <2>2 DEF OnceInv
    <2>4. CASE j \in 1..n /\ k \in 1..n
      <3>1. nactive + j - 1 = nactive + k - 1
        BY <1>9, <2>1, <2>4 DEF OnceInv
      <3>. QED BY <1>1, <2>4, <3>1
    <2>5. CASE j \notin 1..n /\ k \notin 1..n
      <3>1. j - n = k - n
        BY <1>6, <1>9, <2>5 DEF OnceInv
      <3>. QED BY <1>1, <1>5, <3>1
    <2>. QED BY <2>3, <2>4, <2>5
  <1>10. QueuedIds' = QueuedIds /\ \A i, j \in Held' : lane'[i].id = lane'[j].id => i = j
    BY <1>1, <1>2 DEF OnceInv, QueuedIds
  <1>11. OnceInv'
    <2>1. /\ QueuedIds' \cap ParkedIds' = {} /\ QueuedIds' \cap PlacedIds' = {}
          /\ ParkedIds' \cap PlacedIds' = {}
      BY <1>7, <1>8, <1>10 DEF OnceInv
    <2>2. (\A j, k \in DOMAIN q : q[j] = q[k] => j = k)'
      BY <1>1 DEF OnceInv
    <2>. QED BY <1>9, <1>10, <2>1, <2>2 DEF OnceInv
  <1>12. AnswerInv'
    <2>1. Pending' = Pending
      BY <1>7, <1>8, <1>10 DEF Pending
    <2>. QED BY <1>1, <2>1, MovedAnswers DEF Yielding
  <1>. QED BY <1>11, <1>12

(* Steps that move no packet from place to place. *)
LEMMA QuietRequests ==
  ASSUME RInv,
         \/ Iterate \/ Return \/ PrepareSkip \/ PrepareGrow \/ PrepareFull \/ PrepareEnd
         \/ Decode \/ AddNone \/ Prefill \/ FinishKeep \/ FinishEnd
  PROVE  OnceInv' /\ AnswerInv'
  <1>. USE DEF RInv
  <1>1. /\ nactive \in Nat /\ lane \in [Slots -> Lanes] /\ Held \subseteq Slots
        /\ pc \in {"add", "added"} => idx \in Int
    BY HeldFacts, ConstantAssumption DEF DInv, BInv, IInv, TypeOK, ControlType
  <1>2. CASE Iterate \/ Return \/ PrepareSkip \/ PrepareFull \/ FinishEnd
    <2>1. Held' = Held
      BY <1>2 DEF Iterate, Return, PrepareSkip, PrepareFull, FinishEnd, Held, Last
    <2>. QED BY <1>2, <2>1, StillRequests
         DEF Iterate, Return, PrepareSkip, PrepareFull, FinishEnd
  <1>3. CASE PrepareEnd \/ Decode
    <2>1. Held' = Held
      BY <1>1, <1>3 DEF PrepareEnd, Decode, Held, Last
    <2>. QED BY <1>3, <2>1, StillRequests DEF PrepareEnd, Decode
  <1>4. CASE AddNone \/ Prefill
    <2>1. Held' = Held
      BY <1>1, <1>4 DEF AddNone, Prefill, Held, Last
    <2>. QED BY <1>4, <2>1, StillRequests DEF AddNone, Prefill
  <1>5. CASE PrepareGrow
    <2>1. PICK bs \in Taken(free, 1) : lane' = Grown(lane, decr[idx], bs[1])
      BY <1>5 DEF PrepareGrow
    <2>2. \A i \in Slots : lane'[i].id = lane[i].id
      BY <1>1, <2>1 DEF Grown, Lanes
    <2>3. Held' = Held
      BY <1>5 DEF PrepareGrow, Held
    <2>. QED BY <1>1, <1>5, <2>2, <2>3, StillRequests DEF PrepareGrow
  <1>6. CASE FinishKeep
    <2>1. \A i \in Slots : lane'[i].id = lane[i].id
      BY <1>1, <1>6 DEF FinishKeep, Extended, Lanes
    <2>2. Held' = Held
      BY <1>6 DEF FinishKeep, Held, Last
    <2>. QED BY <1>1, <1>6, <2>1, <2>2, StillRequests DEF FinishKeep
  <1>. QED BY <1>2, <1>3, <1>4, <1>5, <1>6

(* The caller gets a packet's answer. *)
LEMMA YieldRequests ==
  ASSUME RInv, FinishYield
  PROVE  OnceInv' /\ AnswerInv'
  <1>. USE DEF RInv
  <1>. DEFINE x == lane[idx].id
  <1>1. /\ pc = "finish" /\ pc' = "yielded" /\ idx \in 0..Last /\ idx' = idx
        /\ Held = 0..Last /\ Held' = Held /\ Held \subseteq Slots
        /\ UNCHANGED <<q, sent, parking>> /\ answers' = [answers EXCEPT ![x] = @ + 1]
        /\ lane \in [Slots -> Lanes] /\ answers \in [Reqs -> Nat]
    BY PlaceFacts, HeldFacts, ConstantAssumption
       DEF FinishYield, DInv, BInv, IInv, IdxInv, Held, Last
  <1>2. \A i \in Slots : lane'[i].id = lane[i].id
    BY <1>1 DEF FinishYield, Extended, Lanes
  <1>3. x \in PlacedIds /\ x \in Reqs
    <2>1. x \in PlacedIds
      BY <1>1 DEF PlacedIds
    <2>. QED BY <2>1, PlaceFacts
  <1>4. PlacedIds' = PlacedIds /\ (\A i, j \in Held : lane[i].id = lane[j].id => i = j)'
    BY <1>1, <1>2, PlaceSame
  <1>5. QueuedIds' = QueuedIds /\ ParkedIds' = ParkedIds
    BY <1>1 DEF QueuedIds, ParkedIds
  <1>6. OnceInv'
    BY <1>1, <1>4, <1>5 DEF OnceInv
  <1>7. /\ Pending' = Pending /\ x \in Pending
        /\ \A r : ~Yielding(r) /\ (Yielding(r)' <=> r = x)
    <2>1. lane'[idx'].id = x
      BY <1>1, <1>2
    <2>. QED BY <1>1, <1>3, <1>4, <1>5, <2>1 DEF Pending, Yielding
  <1>. HIDE DEF x
  <1>8. AnswerInv'
    <2>1. Pending' \subseteq sent'
      BY <1>1, <1>7 DEF AnswerInv
    <2>2. ASSUME NEW r \in Reqs
          PROVE  answers'[r] = IF r \in sent' /\ (r \in Pending' => Yielding(r)') THEN 1 ELSE 0
      <3>1. CASE r = x
        <4>1. answers[x] = 0 /\ x \in sent
          BY <1>3, <1>7 DEF AnswerInv
        <4>. QED BY <1>1, <1>3, <1>7, <3>1, <4>1
      <3>2. CASE r # x
        BY <1>1, <1>7, <3>2 DEF AnswerInv
      <3>. QED BY <3>1, <3>2
    <2>. QED BY <2>1, <2>2 DEF AnswerInv
  <1>. QED BY <1>6, <1>8

(* The lane of an answered packet is killed. *)
LEMMA KillRequests ==
  ASSUME RInv, FinishKill
  PROVE  OnceInv' /\ AnswerInv'
  <1>. USE DEF RInv
  <1>1. /\ pc = "yielded" /\ pc' = "finish" /\ idx \in 0..Last /\ Last \in Nat
        /\ nactive \in 1..MaxBatch
        /\ Held = 0..Last /\ Held' = 0..(Last - 1) /\ lane' = KilledLane(idx)
        /\ UNCHANGED <<q, sent, parking, answers>>
    BY HeldFacts, ConstantAssumption
       DEF FinishKill, DInv, BInv, IInv, IdxInv, Held, Last
  <1>. DEFINE i == idx
              x == lane[i].id
  <1>2. \A j \in 0..(Last - 1) : lane'[j].id = lane[Src(i, j)].id
    BY <1>1, KilledRows DEF DInv, BInv, IInv, TypeOK
  <1>3. /\ PlacedIds' = PlacedIds \ {x} /\ x \in PlacedIds
        /\ (\A j, k \in Held : lane[j].id = lane[k].id => j = k)'
    <2>. HIDE DEF i
    <2>1. i \in 0..Last
      BY <1>1 DEF i
    <2>. QED BY <1>1, <1>2, <2>1, PlaceKill
  <1>4. QueuedIds' = QueuedIds /\ ParkedIds' = ParkedIds
    BY <1>1 DEF QueuedIds, ParkedIds
  <1>5. OnceInv'
    BY <1>1, <1>3, <1>4 DEF OnceInv
  <1>6. /\ Pending' = Pending \ {x} /\ x \in Pending /\ \A r : Yielding(r) <=> r = x
        /\ \A r : ~Yielding(r)'
    BY <1>1, <1>3, <1>4 DEF Pending, Yielding, OnceInv
  <1>. HIDE DEF x
  <1>7. AnswerInv'
    BY <1>1, <1>6 DEF AnswerInv
  <1>. QED BY <1>5, <1>7

(* No request is in FastGen at the start. *)
LEMMA InitRequests == Init => OnceInv /\ AnswerInv
  <1>. SUFFICES ASSUME Init PROVE OnceInv /\ AnswerInv
    OBVIOUS
  <1>1. QueuedIds = {} /\ ParkedIds = {} /\ PlacedIds = {} /\ Held = {}
    BY DEF Init, QueuedIds, ParkedIds, PlacedIds, Held
  <1>. QED BY <1>1 DEF Init, OnceInv, AnswerInv, Pending

(* Each step keeps the requests and their answers. *)
LEMMA NextRequests == RInv /\ [Next]_vars => OnceInv' /\ AnswerInv'
  <1>. SUFFICES ASSUME RInv, [Next]_vars PROVE OnceInv' /\ AnswerInv'
    OBVIOUS
  <1>1. CASE Stopped \/ UNCHANGED vars
    <2>1. /\ QueuedIds' = QueuedIds /\ ParkedIds' = ParkedIds /\ PlacedIds' = PlacedIds
          /\ Held' = Held /\ UNCHANGED vars
      BY <1>1 DEF Stopped, vars, QueuedIds, ParkedIds, PlacedIds, Held
    <2>2. OnceInv'
      BY <2>1 DEF RInv, OnceInv, vars
    <2>3. AnswerInv'
      BY <2>1, MovedAnswers DEF Pending, Yielding, vars
    <2>. QED BY <2>2, <2>3
  <1>. QED BY <1>1, ClientRequests, ParkRequests, AddRequests, UndoRequests, QuietRequests,
              YieldRequests, KillRequests
           DEF Next, Generator, Prepare, AddLanes, Finish

(* The invariant holds of every behaviour of the scheduler. *)
THEOREM RequestsInv == Spec => []RInv
  <1>1. Init => RInv
    BY InitIInv, InitBlocks, InitDev, InitRequests DEF RInv, DInv, BInv, Dev
  <1>2. RInv /\ [Next]_vars => RInv'
    BY NextIInv, NextBlocks, NextDev, NextRequests DEF RInv, DInv, BInv, Dev
  <1>. QED BY <1>1, <1>2, PTL DEF Spec

(* A place holds a packet once or not at all. *)
LEMMA CountOnce ==
  ASSUME NEW S, NEW f, NEW r, \A j, k \in S : f[j] = r /\ f[k] = r => j = k
  PROVE  Cardinality({k \in S : f[k] = r}) = IF \E k \in S : f[k] = r THEN 1 ELSE 0
  <1>1. CASE \E k \in S : f[k] = r
    <2>1. PICK k \in S : f[k] = r
      BY <1>1
    <2>2. {j \in S : f[j] = r} = {k}
      BY <2>1
    <2>. QED BY <2>1, <2>2, FS_Singleton
  <1>2. CASE ~\E k \in S : f[k] = r
    <2>1. {j \in S : f[j] = r} = {}
      BY <1>2
    <2>. QED BY <1>2, <2>1, FS_EmptySet
  <1>. QED BY <1>1, <1>2

(***************************************************************************)
(* In every run, for any packets, lanes and blocks, a packet that was put  *)
(* is in the queue, in the parking, in a lane or answered, in one of them  *)
(* and once: none is lost or answered twice, however lanes are parked,     *)
(* added again, undone or killed.                                          *)
(***************************************************************************)
THEOREM PacketsAreAccounted == Spec => []Accounted
  <1>1. RInv => Accounted
    <2>. SUFFICES ASSUME RInv, NEW r \in Reqs
                  PROVE  Cardinality({k \in DOMAIN q : q[k] = r})
                           + Cardinality({k \in DOMAIN parking : parking[k].id = r})
                           + Cardinality({i \in Held : lane[i].id = r})
                           + answers[r]
                         = (IF r \in sent THEN 1 ELSE 0)
                           + (IF pc = "yielded" /\ lane[idx].id = r THEN 1 ELSE 0)
      BY DEF Accounted, Count
    <2>. USE DEF RInv
    <2>1. Cardinality({k \in DOMAIN q : q[k] = r}) = IF r \in QueuedIds THEN 1 ELSE 0
      <3>. DEFINE S == DOMAIN q
      <3>1. \A j, k \in S : q[j] = r /\ q[k] = r => j = k
        BY DEF OnceInv
      <3>2. (\E k \in S : q[k] = r) <=> r \in QueuedIds
        BY DEF QueuedIds
      <3>. HIDE DEF S
      <3>3. Cardinality({k \in S : q[k] = r}) = IF \E k \in S : q[k] = r THEN 1 ELSE 0
        BY <3>1, CountOnce
      <3>. QED BY <3>2, <3>3 DEF S
    <2>2. Cardinality({k \in DOMAIN parking : parking[k].id = r})
            = IF r \in ParkedIds THEN 1 ELSE 0
      <3>. DEFINE f == [k \in DOMAIN parking |-> parking[k].id]
                  S == DOMAIN parking
      <3>1. \A j, k \in S : f[j] = r /\ f[k] = r => j = k
        BY DEF OnceInv
      <3>2. (\E k \in S : f[k] = r) <=> r \in ParkedIds
        BY DEF ParkedIds
      <3>3. {k \in S : parking[k].id = r} = {k \in S : f[k] = r}
        OBVIOUS
      <3>. HIDE DEF f, S
      <3>4. Cardinality({k \in S : f[k] = r}) = IF \E k \in S : f[k] = r THEN 1 ELSE 0
        BY <3>1, CountOnce
      <3>. QED BY <3>2, <3>3, <3>4 DEF S
    <2>3. Cardinality({i \in Held : lane[i].id = r}) = IF r \in PlacedIds THEN 1 ELSE 0
      <3>. DEFINE f == [k \in Held |-> lane[k].id]
      <3>1. \A j, k \in Held : f[j] = r /\ f[k] = r => j = k
        BY DEF OnceInv
      <3>2. (\E k \in Held : f[k] = r) <=> r \in PlacedIds
        BY DEF PlacedIds
      <3>3. {k \in Held : lane[k].id = r} = {k \in Held : f[k] = r}
        OBVIOUS
      <3>. HIDE DEF f
      <3>4. Cardinality({k \in Held : f[k] = r}) = IF \E k \in Held : f[k] = r THEN 1 ELSE 0
        BY <3>1, CountOnce
      <3>. QED BY <3>2, <3>3, <3>4
    <2>4. answers[r] = IF r \in sent /\ (r \in Pending => Yielding(r)) THEN 1 ELSE 0
      BY DEF AnswerInv
    <2>5. /\ r \in Pending => r \in sent
          /\ ~(r \in QueuedIds /\ r \in ParkedIds) /\ ~(r \in QueuedIds /\ r \in PlacedIds)
          /\ ~(r \in ParkedIds /\ r \in PlacedIds)
          /\ r \in Pending <=> r \in QueuedIds \/ r \in ParkedIds \/ r \in PlacedIds
          /\ Yielding(r) => r \in PlacedIds
      BY PlaceFacts DEF AnswerInv, OnceInv, Pending, Yielding
    <2>. QED BY <2>1, <2>2, <2>3, <2>4, <2>5 DEF Yielding
  <1>. QED BY <1>1, RequestsInv, PTL

-----------------------------------------------------------------------------
(* The copies to the host. *)

(* Pages are counted in the order of the tokens they begin with. *)
LEMMA PageOrder ==
  ASSUME NEW x \in Int, NEW y \in Int, NEW d \in Nat \ {0}
  PROVE  x <= y <=> x * d <= y * d
  <1>1. ASSUME x <= y PROVE x * d <= y * d
    <2>1. (y - x) \in Nat /\ (y - x) * d = y * d - x * d
      BY <1>1
    <2>2. (y - x) * d \in Nat
      BY <2>1
    <2>. QED BY <2>1, <2>2
  <1>2. ASSUME ~(x <= y) PROVE ~(x * d <= y * d)
    <2>1. (x - y) \in Nat \ {0} /\ (x - y) * d = x * d - y * d
      BY <1>2
    <2>2. (x - y) * d > 0
      BY <2>1
    <2>. QED BY <2>1, <2>2
  <1>. QED BY <1>1, <1>2

(* Steps that start no copy, and leave each lane the blocks it had filled. *)
LEMMA KeptCopies ==
  ASSUME HInv, copying' \subseteq copying, torn' = torn,
         pc' \notin {"add", "added"},
         \A j \in 0..Last' : \E i \in 0..Last :
           /\ lane'[j].id = lane[i].id
           /\ FullBlocks(lane[i], dev[i].seqlen) \subseteq FullBlocks(lane'[j], dev'[j].seqlen),
         pc' \in {"finish", "yielded"} =>
           /\ pc \in {"finish", "yielded"}
           /\ \A i \in 0..Last : \E j \in 0..Last' : lane'[j].id = lane[i].id
  PROVE  CopyInv'
  <1>. USE DEF HInv
  <1>1. ASSUME NEW c \in copying', NEW j \in 0..Last', lane'[j].id = c[2]
        PROVE  c[1] \in FullBlocks(lane'[j], dev'[j].seqlen)
    <2>1. PICK i \in 0..Last :
            /\ lane'[j].id = lane[i].id
            /\ FullBlocks(lane[i], dev[i].seqlen) \subseteq FullBlocks(lane'[j], dev'[j].seqlen)
      OBVIOUS
    <2>. QED BY <1>1, <2>1 DEF CopyInv
  <1>2. ASSUME pc' \in {"finish", "yielded"}, NEW c \in copying'
        PROVE  \E j \in 0..Last' : lane'[j].id = c[2]
    <2>1. PICK i \in 0..Last : lane[i].id = c[2]
      BY <1>2 DEF CopyInv
    <2>. QED BY <1>2, <2>1
  <1>3. \A t \in torn' : t[1][2] # t[2]
    BY DEF CopyInv
  <1>4. ASSUME NEW c \in copying', NEW j \in 0..Last'
        PROVE  (lane[j].id = c[2] => c[1] \in FullBlocks(lane[j], dev[j].seqlen))'
    BY <1>1, <1>4 DEF FullBlocks
  <1>. QED BY <1>2, <1>3, <1>4 DEF CopyInv

(* Steps that leave no copy in flight. *)
LEMMA NoCopies ==
  ASSUME copying' = {}, ready' = FALSE, \A t \in torn' : t[1][2] # t[2]
  PROVE  CopyInv'
  BY DEF CopyInv

(* A block appended to a lane leaves the blocks it has filled in place. *)
LEMMA GrownFull ==
  ASSUME NEW L \in [Slots -> Lanes], NEW D \in [Slots -> Rows], NEW i \in Slots,
         NEW b \in Blocks, NEW k, NEW j \in Slots
  PROVE  /\ Grown(L, i, b)[j].id = L[j].id
         /\ FullBlocks(L[j], D[j].seqlen)
              \subseteq FullBlocks(Grown(L, i, b)[j], Tabled(D, i, k, b)[j].seqlen)
  <1>1. Tabled(D, i, k, b)[j].seqlen = D[j].seqlen
    BY DEF Tabled, Rows
  <1>2. Grown(L, i, b)[j].id = L[j].id
    BY DEF Grown, Lanes
  <1>3. /\ DOMAIN L[j].blocks \subseteq DOMAIN Grown(L, i, b)[j].blocks
        /\ \A m \in DOMAIN L[j].blocks : Grown(L, i, b)[j].blocks[m] = L[j].blocks[m]
    <2>1. L[j].blocks \in Seq(Blocks)
      BY DEF Lanes
    <2>2. Grown(L, i, b)[j].blocks = L[j].blocks \/ Grown(L, i, b)[j].blocks = Append(L[j].blocks, b)
      BY DEF Grown, Lanes
    <2>. QED BY <2>1, <2>2
  <1>. QED BY <1>1, <1>2, <1>3 DEF FullBlocks

(* Steps of the generator that neither start copies nor wait for them. *)
LEMMA OtherCopies ==
  ASSUME HInv, Other, UNCHANGED <<copying, ready, torn>>
  PROVE  CopyInv'
  <1>. USE DEF HInv, RInv
  <1>1. CASE AddLanes
    <2>1. pc \in {"add", "added"}
      BY <1>1 DEF AddLanes, AddParked, AddFromQueue, AddReadNone, AddBreak, AddUndo, AddNone
    <2>. QED BY <2>1, NoCopies DEF CopyInv
  <1>2. CASE Client \/ Stopped
    <2>1. UNCHANGED <<pc, nactive, lane, dev>>
      BY <1>2 DEF Client, Put, PutEOQ, Stopped, vars
    <2>. QED BY <2>1 DEF CopyInv, Last, FullBlocks
  <1>3. CASE Iterate \/ Return \/ PrepareSkip \/ PrepareFull \/ FinishEnd
    <2>1. UNCHANGED <<nactive, lane, dev>> /\ Last' = Last
          /\ pc' \notin {"add", "added", "finish", "yielded"}
      BY <1>3 DEF Iterate, Return, PrepareSkip, PrepareFull, FinishEnd, Last
    <2>. QED BY <2>1, KeptCopies
  <1>4. CASE FinishKeep \/ FinishYield
    <2>1. /\ UNCHANGED <<nactive, dev>> /\ Last' = Last /\ lane' = Extended(idx)
          /\ pc = "finish" /\ pc' \in {"finish", "yielded"} /\ lane \in [Slots -> Lanes]
          /\ 0..Last \subseteq Slots
      BY <1>4, HeldFacts DEF FinishKeep, FinishYield, Last, DInv
    <2>2. \A i \in 0..Last : lane'[i].id = lane[i].id /\ lane'[i].blocks = lane[i].blocks
      BY <2>1 DEF Extended, Lanes
    <2>3. \A i \in 0..Last :
            FullBlocks(lane'[i], dev'[i].seqlen) = FullBlocks(lane[i], dev[i].seqlen)
      BY <2>1, <2>2 DEF FullBlocks
    <2>. QED BY <2>1, <2>2, <2>3, KeptCopies
  <1>5. CASE PrepareGrow
    <2>. DEFINE d == decr[idx]
                n == Len(lane[d].blocks)
    <2>1. /\ d \in 0..Last /\ 0..Last \subseteq Slots /\ pc' = "prepare" /\ Last' = Last
          /\ lane \in [Slots -> Lanes] /\ dev \in [Slots -> Rows] /\ free \subseteq Blocks
      BY <1>5, PreparedFacts, HeldFacts
         DEF PrepareGrow, Last, DInv, BInv, IInv, TypeOK, LaneType, ControlType
    <2>2. PICK bs \in Taken(free, 1) :
            lane' = Grown(lane, d, bs[1]) /\ dev' = Tabled(dev, d, n, bs[1])
      BY <1>5 DEF PrepareGrow, Visited
    <2>3. PICK b \in Blocks : b = bs[1]
      BY <2>1 DEF Taken
    <2>. HIDE DEF d, n
    <2>4. \A j \in 0..Last :
            /\ lane'[j].id = lane[j].id
            /\ FullBlocks(lane[j], dev[j].seqlen) \subseteq FullBlocks(lane'[j], dev'[j].seqlen)
      <3>. SUFFICES ASSUME NEW j \in 0..Last
                    PROVE  /\ lane'[j].id = lane[j].id
                           /\ FullBlocks(lane[j], dev[j].seqlen)
                                \subseteq FullBlocks(lane'[j], dev'[j].seqlen)
        OBVIOUS
      <3>1. lane' = Grown(lane, d, b) /\ dev' = Tabled(dev, d, n, b) /\ d \in Slots /\ j \in Slots
        BY <2>1, <2>2, <2>3
      <3>2. PICK i \in Slots, L \in [Slots -> Lanes], D \in [Slots -> Rows] :
              i = d /\ L = lane /\ D = dev
        BY <2>1, <3>1
      <3>3. /\ Grown(L, i, b)[j].id = L[j].id
            /\ FullBlocks(L[j], D[j].seqlen)
                 \subseteq FullBlocks(Grown(L, i, b)[j], Tabled(D, i, n, b)[j].seqlen)
        BY <3>1, GrownFull
      <3>. QED BY <3>1, <3>2, <3>3
    <2>. QED BY <2>1, <2>4, KeptCopies
  <1>6. CASE PrepareParkSelf \/ PreparePark
    <2>. DEFINE p == decr[Last]
    <2>1. /\ nactive \in 1..MaxBatch /\ p \in 0..Last /\ LaneType /\ Last \in Nat
          /\ Last' = Last - 1 /\ pc' \in {"prepare", "decode"} /\ 0..Last \subseteq Slots
      <3>1. /\ pc = "prepare" /\ idx < nactive /\ (idx = Last \/ idx < Last)
            /\ nactive' = Last /\ Last > 0 /\ pc' \in {"prepare", "decode"}
        BY <1>6 DEF PrepareParkSelf, PreparePark, Starved
      <3>2. LaneType
        BY DEF DInv, BInv, IInv, TypeOK
      <3>. QED BY <3>1, <3>2, PreparedFacts, ConstantAssumption DEF Last
    <2>. HIDE DEF p
    <2>2. /\ KilledLane(p) \in [Slots -> Lanes] /\ KilledDev(p) \in [Slots -> Rows]
          /\ KilledFree(p) \subseteq Blocks
      BY <2>1, KilledFacts
    <2>3. \A j \in 0..Last' : /\ Src(p, j) \in 0..Last /\ j \in Slots
                              /\ KilledLane(p)[j] = lane[Src(p, j)]
                              /\ KilledDev(p)[j] = dev[Src(p, j)]
      <3>1. \A j \in 0..(Last - 1) : /\ Src(p, j) \in 0..Last
                                     /\ KilledLane(p)[j] = lane[Src(p, j)]
                                     /\ KilledDev(p)[j] = dev[Src(p, j)]
        BY <2>1, KilledRows
      <3>. QED BY <2>1, <3>1
    <2>4. \A j \in 0..Last' :
            /\ lane'[j].id = KilledLane(p)[j].id
            /\ FullBlocks(KilledLane(p)[j], KilledDev(p)[j].seqlen)
                 \subseteq FullBlocks(lane'[j], dev'[j].seqlen)
      <3>1. CASE PrepareParkSelf
        BY <3>1 DEF PrepareParkSelf, p
      <3>2. CASE PreparePark
        <4>. DEFINE d == FixedDecr[idx]
                    n == Len(KilledLane(p)[d].blocks)
        <4>1. PICK bs \in Taken(KilledFree(p), 1) :
                /\ lane' = Grown(KilledLane(p), d, bs[1])
                /\ dev' = Tabled(KilledDev(p), d, n, bs[1])
          BY <3>2 DEF PreparePark, p
        <4>2. PICK b \in Blocks : b = bs[1]
          BY <2>2 DEF Taken
        <4>3. d \in Slots
          <5>1. idx \in DOMAIN decr /\ decr[idx] \in 0..Last
            <6>1. pc = "prepare" /\ idx \in idx..Last
              BY <3>2, PreparedFacts DEF PreparePark
            <6>2. DecrInv
              BY DEF DInv, BInv, IInv
            <6>. QED BY <6>1, <6>2 DEF DecrInv
          <5>. QED BY <2>1, <5>1 DEF FixedDecr, p
        <4>. HIDE DEF d, n
        <4>4. PICK L \in [Slots -> Lanes], D \in [Slots -> Rows] :
                L = KilledLane(p) /\ D = KilledDev(p)
          BY <2>2
        <4>5. lane' = Grown(L, d, b) /\ dev' = Tabled(D, d, n, b)
          BY <4>1, <4>2, <4>4
        <4>6. \A j \in Slots : /\ lane'[j].id = L[j].id
                               /\ FullBlocks(L[j], D[j].seqlen)
                                    \subseteq FullBlocks(lane'[j], dev'[j].seqlen)
          <5>. SUFFICES ASSUME NEW j \in Slots
                        PROVE  /\ lane'[j].id = L[j].id
                               /\ FullBlocks(L[j], D[j].seqlen)
                                    \subseteq FullBlocks(lane'[j], dev'[j].seqlen)
            OBVIOUS
          <5>1. /\ L \in [Slots -> Lanes] /\ D \in [Slots -> Rows] /\ d \in Slots
                /\ b \in Blocks
            BY <4>2, <4>3, <4>4
          <5>2. /\ Grown(L, d, b)[j].id = L[j].id
                /\ FullBlocks(L[j], D[j].seqlen)
                     \subseteq FullBlocks(Grown(L, d, b)[j], Tabled(D, d, n, b)[j].seqlen)
            BY <5>1, GrownFull
          <5>. QED BY <4>5, <5>2
        <4>. QED BY <2>3, <4>4, <4>6
      <3>. QED BY <1>6, <3>1, <3>2
    <2>5. \A j \in 0..Last' : \E i \in 0..Last :
            /\ lane'[j].id = lane[i].id
            /\ FullBlocks(lane[i], dev[i].seqlen) \subseteq FullBlocks(lane'[j], dev'[j].seqlen)
      BY <2>3, <2>4
    <2>. QED BY <2>1, <2>5, KeptCopies
  <1>. QED BY <1>1, <1>2, <1>3, <1>4, <1>5, <1>6 DEF Other

(* Prefill starts the copies of the pages its lanes have filled. *)
LEMMA PrefillCopies ==
  ASSUME HInv, HPrefill
  PROVE  CopyInv'
  <1>. USE DEF HInv, RInv
  <1>1. /\ pc = "added" /\ pc' = "finish" /\ nactive' = idx /\ Last' = idx - 1
        /\ Held = 0..(idx - 1) /\ Held \subseteq Slots /\ idx \in Nat /\ nactive \in Nat
        /\ UNCHANGED <<lane, torn>> /\ copying = {}
        /\ copying' = UNION {PagedOut(lane[i]) : i \in nactive..(idx - 1)}
    BY HeldFacts, ConstantAssumption
       DEF HPrefill, Prefill, Held, Last, CopyInv, DInv, BInv, IInv, IdxInv, TypeOK, ControlType
  <1>2. \A i \in nactive..(idx - 1) : i \in Held /\ dev'[i].seqlen = LaneLen(lane[i]) + 1
    <2>1. \A i \in nactive..(idx - 1) : i \in Held /\ i \in Slots
      BY <1>1
    <2>. QED BY <2>1 DEF HPrefill, Prefill
  <1>3. ASSUME NEW c \in copying'
        PROVE  \E i \in nactive..(idx - 1) :
                 lane[i].id = c[2] /\ c[1] \in FullBlocks(lane[i], LaneLen(lane[i]) + 1)
    <2>1. PICK i \in nactive..(idx - 1) : c \in PagedOut(lane[i])
      BY <1>1, <1>3
    <2>2. PICK k \in 1..(LaneLen(lane[i]) \div PageLen) : c = <<lane[i].blocks[k], lane[i].id>>
      BY <2>1 DEF PagedOut
    <2>3. /\ LaneLen(lane[i]) \in Nat /\ Len(lane[i].blocks) \in Nat /\ PageLen \in Nat \ {0}
          /\ LaneLen(lane[i]) + 1 <= Len(lane[i].blocks) * PageLen
          /\ lane[i].blocks \in Seq(Blocks)
      BY <1>1, <1>2, HeldFacts, ConstantAssumption DEF DInv, RoomInv, Avail, Lanes
    <2>. DEFINE n == LaneLen(lane[i])
                d == n \div PageLen
    <2>4. d \in Nat /\ d * PageLen <= n
      BY <2>3, DivBound
    <2>. HIDE DEF d
    <2>5. k \in 1..d
      BY DEF d
    <2>6. k * PageLen <= d * PageLen /\ k * PageLen \in Nat /\ d * PageLen \in Nat
      BY <2>3, <2>4, <2>5, PageOrder
    <2>7. k * PageLen <= n
      <3>. DEFINE x == k * PageLen
                  y == d * PageLen
      <3>1. x <= y /\ y <= n /\ x \in Nat /\ y \in Nat /\ n \in Nat
        BY <2>3, <2>4, <2>6
      <3>. HIDE DEF x, y, n
      <3>2. x <= n
        BY <3>1
      <3>. QED BY <3>2 DEF x
    <2>8. k \in DOMAIN lane[i].blocks
      <3>1. k * PageLen <= Len(lane[i].blocks) * PageLen
        BY <2>3, <2>6, <2>7
      <3>2. k <= Len(lane[i].blocks)
        BY <2>3, <2>5, <3>1, PageOrder
      <3>. QED BY <2>3, <2>5, <3>2
    <2>9. c[1] \in FullBlocks(lane[i], n + 1)
      BY <2>2, <2>3, <2>7, <2>8 DEF FullBlocks
    <2>. QED BY <2>2, <2>9
  <1>4. ASSUME NEW c \in copying', NEW j \in 0..(idx - 1), lane[j].id = c[2]
        PROVE  c[1] \in FullBlocks(lane[j], dev'[j].seqlen)
    <2>1. PICK i \in nactive..(idx - 1) :
            lane[i].id = c[2] /\ c[1] \in FullBlocks(lane[i], LaneLen(lane[i]) + 1)
      BY <1>3
    <2>2. j = i
      BY <1>1, <1>2, <1>4, <2>1 DEF OnceInv
    <2>. QED BY <1>2, <2>1, <2>2
  <1>5. \A c \in copying' : \E i \in 0..(idx - 1) : lane[i].id = c[2]
    BY <1>1, <1>2, <1>3
  <1>6. \A c \in copying' : \A i \in 0..Last' :
          lane'[i].id = c[2] => c[1] \in FullBlocks(lane'[i], dev'[i].seqlen)
    BY <1>1, <1>4
  <1>. QED BY <1>1, <1>5, <1>6 DEF CopyInv, FullBlocks

(* A lane decodes behind the pages it has filled. *)
LEMMA DecodeCopies ==
  ASSUME HInv, HDecode
  PROVE  CopyInv'
  <1>. USE DEF HInv, RInv
  <1>1. /\ Last' = Last /\ UNCHANGED <<lane, nactive>> /\ pc' = "add" /\ Held = 0..Last
        /\ 0..Last \subseteq Slots
    BY HeldFacts DEF HDecode, Decode, Last, Held, DInv
  <1>2. ASSUME NEW c \in copying, NEW i \in 0..Last, c[2] = lane[i].id
        PROVE  c[1] \notin DecodeWrites(i)
    <2>. SUFFICES ASSUME c[1] \in DecodeWrites(i) PROVE FALSE
      OBVIOUS
    <2>1. PICK k \in DOMAIN lane[i].blocks :
            k * PageLen <= dev[i].seqlen - 1 /\ c[1] = lane[i].blocks[k]
      BY <1>2 DEF CopyInv, FullBlocks
    <2>2. PICK p \in (dev[i].seqlen - 1)..(dev'[i].seqlen - 2) :
            c[1] = dev[i].blktbl[p \div PageLen]
      BY DEF DecodeWrites
    <2>3. /\ PageLen \in Nat \ {0} /\ dev[i] \in Rows /\ dev[i].seqlen \in Nat
          /\ Len(lane[i].blocks) \in Nat /\ lane[i].blocks \in Seq(Blocks)
          /\ NoRepeat(lane[i].blocks) /\ LaneLen(lane[i]) \in Nat \ {0}
      <3>1. i \in Held /\ lane[i] \in Lanes /\ lane[i].id \in Reqs
        BY <1>1, HeldFacts DEF DInv
      <3>2. LaneLen(lane[i]) \in Nat \ {0}
        BY <3>1, RequestAssumption DEF LaneLen, Lanes
      <3>. QED BY <1>1, <3>1, <3>2, HeldFacts, ConstantAssumption DEF DInv, Partition, Rows, Lanes
    <2>4. dev[i].seqlen = LaneLen(lane[i])
          /\ \A b \in DOMAIN lane[i].blocks : dev[i].blktbl[b - 1] = lane[i].blocks[b]
      BY <2>3 DEF HDecode, Decode, DInv, MirrorInv, Describes, Ahead, Behind
    <2>5. dev'[i].seqlen <= Len(lane[i].blocks) * PageLen /\ dev'[i].seqlen \in Nat
      <3>1. Dev'
        BY DecodeDev DEF HDecode
      <3>2. dev'[i].seqlen <= Avail(lane[i])
        BY <1>1, <3>1 DEF Dev, RoomInv, Avail
      <3>3. dev'[i].seqlen \in Nat
        <4>1. PICK m \in NSteps : dev' = [j \in Slots |->
                   IF j < nactive THEN [dev[j] EXCEPT !.seqlen = @ + m] ELSE dev[j]]
          BY DEF HDecode, Decode
        <4>2. m \in Nat /\ i \in Slots
          BY <1>1, ConstantAssumption DEF NSteps
        <4>. QED BY <2>3, <4>1, <4>2 DEF Rows
      <3>. QED BY <3>2, <3>3 DEF Avail
    <2>6. p \in Nat /\ p >= dev[i].seqlen - 1 /\ p < Len(lane[i].blocks) * PageLen
      <3>. DEFINE a == Len(lane[i].blocks) * PageLen
                  n == dev[i].seqlen
                  m == dev'[i].seqlen
      <3>1. a \in Nat /\ m \in Nat /\ n \in Nat \ {0} /\ m <= a
        BY <2>3, <2>4, <2>5
      <3>2. p \in (n - 1)..(m - 2)
        BY <2>2
      <3>. HIDE DEF a, n, m
      <3>3. p \in Nat /\ p >= n - 1 /\ p < a
        BY <3>1, <3>2
      <3>. QED BY <3>3 DEF a, n
    <2>. DEFINE b == p \div PageLen
                n == Len(lane[i].blocks)
    <2>7. b \in Nat /\ b * PageLen <= p /\ p < b * PageLen + PageLen
      BY <2>3, <2>6, DivBound
    <2>. HIDE DEF b
    <2>8. b + 1 \in DOMAIN lane[i].blocks
      <3>1. ~(n * PageLen <= b * PageLen) /\ n * PageLen \in Nat /\ b * PageLen \in Nat
        BY <2>3, <2>6, <2>7
      <3>2. b < n
        BY <2>3, <2>7, <3>1, PageOrder
      <3>. QED BY <2>3, <2>7, <3>2
    <2>9. dev[i].blktbl[b] = lane[i].blocks[b + 1]
      <3>1. (b + 1) - 1 = b
        BY <2>7
      <3>. QED BY <2>4, <2>8, <3>1
    <2>10. k = b + 1
      BY <2>1, <2>2, <2>3, <2>8, <2>9 DEF NoRepeat, b
    <2>11. k * PageLen = b * PageLen + PageLen /\ b * PageLen \in Nat
      BY <2>3, <2>7, <2>10
    <2>. QED BY <2>1, <2>3, <2>6, <2>7, <2>11
  <1>3. \A t \in torn' : t[1][2] # t[2]
    <2>. SUFFICES ASSUME NEW t \in torn', t \notin torn PROVE t[1][2] # t[2]
      BY DEF CopyInv
    <2>1. PICK v \in {w \in copying \X (0..Last) : w[1][1] \in DecodeWrites(w[2])} :
            t = <<v[1], lane[v[2]].id>>
      BY DEF HDecode
    <2>2. v[1] \in copying /\ v[2] \in 0..Last /\ v[1][1] \in DecodeWrites(v[2])
      BY <2>1
    <2>. QED BY <1>2, <2>1, <2>2
  <1>. QED BY <1>3, NoCopies DEF HDecode, Sync

(* Each step keeps the copies. *)
LEMMA NextCopies == HInv /\ [HNext]_hvars => CopyInv'
  <1>. SUFFICES ASSUME HInv, [HNext]_hvars PROVE CopyInv'
    OBVIOUS
  <1>1. CASE (\E c \in copying : CopyDone(c)) \/ UNCHANGED hvars
    <2>1. UNCHANGED <<vars, ready, torn>> /\ copying' \subseteq copying
      BY <1>1 DEF CopyDone, hvars
    <2>2. Last' = Last /\ UNCHANGED <<pc, lane, dev>>
      BY <2>1 DEF vars, Last
    <2>. QED BY <2>1, <2>2 DEF HInv, CopyInv, FullBlocks
  <1>2. CASE HPrepareEnd
    <2>1. CASE nactive = 0
      BY <1>2, <2>1, NoCopies DEF HPrepareEnd, Sync, HInv, CopyInv
    <2>2. CASE nactive # 0
      <3>1. nactive > 0
        BY <2>2, HeldFacts, ConstantAssumption DEF HInv, RInv, DInv
      <3>2. /\ pc' = "decode" /\ UNCHANGED <<nactive, lane, dev, copying, torn>> /\ Last' = Last
        BY <1>2, <2>2, <3>1 DEF HPrepareEnd, PrepareEnd, Last
      <3>. QED BY <3>2, KeptCopies
    <2>. QED BY <2>1, <2>2
  <1>3. CASE HFinishKill
    BY <1>3, NoCopies DEF HFinishKill, Sync, HInv, CopyInv
  <1>. QED BY <1>1, <1>2, <1>3, PrefillCopies, DecodeCopies, OtherCopies DEF HNext

(* With the copies, the scheduler still takes the steps of FastGen only. *)
LEMMA HostStep == [HNext]_hvars => [Next]_vars
  <1>. SUFFICES ASSUME [HNext]_hvars PROVE [Next]_vars
    OBVIOUS
  <1>1. CASE (\E c \in copying : CopyDone(c)) \/ UNCHANGED hvars
    BY <1>1 DEF CopyDone, hvars
  <1>2. CASE HDecode \/ HPrepareEnd \/ HPrefill \/ HFinishKill
    BY <1>2 DEF HDecode, HPrepareEnd, HPrefill, HFinishKill, Next, Generator, Prepare, Finish
  <1>3. CASE Other
    BY <1>3 DEF Other, Next, Generator, Prepare, Finish
  <1>. QED BY <1>1, <1>2, <1>3 DEF HNext

(* The scheduler with its copies implements the scheduler without them. *)
THEOREM HostImplementsScheduler == HSpec => Spec
  <1>1. HInit => Init
    BY DEF HInit
  <1>. QED BY <1>1, HostStep, PTL DEF HSpec, Spec

(* The invariant holds of every behaviour of the scheduler with its copies. *)
THEOREM HostInv == HSpec => []HInv
  <1>1. HInit => HInv
    <2>. SUFFICES ASSUME HInit PROVE HInv
      OBVIOUS
    <2>1. RInv
      BY InitIInv, InitBlocks, InitDev, InitRequests DEF HInit, RInv, DInv, BInv, Dev
    <2>. QED BY <2>1 DEF HInit, HInv, CopyInv
  <1>2. HInv /\ [HNext]_hvars => HInv'
    <2>. SUFFICES ASSUME HInv, [HNext]_hvars PROVE HInv'
      OBVIOUS
    <2>1. RInv'
      BY HostStep, NextIInv, NextBlocks, NextDev, NextRequests DEF HInv, RInv, DInv, BInv, Dev
    <2>. QED BY <2>1, NextCopies DEF HInv
  <1>. QED BY <1>1, <1>2, PTL DEF HSpec

(***************************************************************************)
(* In every run, for any packets, lanes and blocks: a prefill finds no     *)
(* copy of an earlier one running; lanes that finish still hold the blocks *)
(* being copied; and a lane never writes a page that it handed over.       *)
(***************************************************************************)
THEOREM CacheIsCoherent == HSpec => []PrefillFindsCoherentCache
  <1>1. HInv => PrefillFindsCoherentCache
    <2>. SUFFICES ASSUME HInv PROVE PrefillFindsCoherentCache
      OBVIOUS
    <2>1. \A l, n : FullBlocks(l, n) \subseteq BlockSet(l)
      BY DEF FullBlocks, BlockSet
    <2>. QED BY <2>1 DEF HInv, CopyInv, PrefillFindsCoherentCache
  <1>. QED BY <1>1, HostInv, PTL
=============================================================================
