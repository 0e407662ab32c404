---------------------------- MODULE EvalRunProofs ----------------------------
(***************************************************************************)
(* Proofs about an evaluation, for every number of ranks, threads,         *)
(* problems and crashes.                                                   *)
(***************************************************************************)
EXTENDS EvalRun, SequenceTheorems, FiniteSetTheorems, TLAPS

-----------------------------------------------------------------------------
(* How often an object is in a queue. *)

(* The places of x in s are finitely many. *)
LEMMA PlacesFinite ==
  ASSUME NEW T, NEW s \in Seq(T), NEW x
  PROVE  /\ IsFiniteSet({k \in DOMAIN s : s[k] = x}) /\ Occurrences(s, x) \in Nat
         /\ Occurrences(s, x) = 0 <=> \A k \in DOMAIN s : s[k] # x
  <1>. DEFINE D == {k \in DOMAIN s : s[k] = x}
  <1>1. DOMAIN s = 1..Len(s) /\ Len(s) \in Nat
    OBVIOUS
  <1>2. IsFiniteSet(1..Len(s))
    BY <1>1, FS_Interval
  <1>3. D \in SUBSET (1..Len(s))
    BY <1>1
  <1>4. IsFiniteSet(D)
    BY <1>2, <1>3, FS_Subset
  <1>5. Cardinality(D) \in Nat /\ (Cardinality(D) = 0 <=> D = {})
    BY <1>4, FS_CardinalityType, FS_EmptySet
  <1>. QED BY <1>4, <1>5 DEF Occurrences

(* An object appended is counted once more. *)
LEMMA CountAppend ==
  ASSUME NEW T, NEW s \in Seq(T), NEW y \in T, NEW x
  PROVE  Occurrences(Append(s, y), x) = Occurrences(s, x) + (IF y = x THEN 1 ELSE 0)
  <1>. DEFINE D == {k \in DOMAIN s : s[k] = x}
              t == Append(s, y)
              n == Len(s)
  <1>1. /\ n \in Nat /\ DOMAIN s = 1..n /\ DOMAIN t = 1..(n + 1)
        /\ t[n + 1] = y /\ \A k \in 1..n : t[k] = s[k]
    OBVIOUS
  <1>. HIDE DEF t, n
  <1>. DEFINE E == {k \in DOMAIN t : t[k] = x}
  <1>2. E = IF y = x THEN D \cup {n + 1} ELSE D
    <2>1. \A k \in DOMAIN t : k = n + 1 \/ k \in 1..n
      BY <1>1
    <2>2. \A k \in DOMAIN s : k \in DOMAIN t /\ k # n + 1
      BY <1>1
    <2>. QED BY <1>1, <2>1, <2>2
  <1>3. IsFiniteSet(D) /\ Cardinality(D) \in Nat /\ n + 1 \notin D
    <2>1. n + 1 \notin D
      BY <1>1
    <2>. QED BY <2>1, PlacesFinite DEF Occurrences
  <1>8. Occurrences(s, x) = Cardinality(D)
    BY DEF Occurrences
  <1>9. Occurrences(t, x) = Cardinality(E)
    BY DEF Occurrences
  <1>. HIDE DEF D, E
  <1>4. Cardinality(D \cup {n + 1}) = Cardinality(D) + 1
    BY <1>3, FS_AddElement
  <1>5. Occurrences(t, x) = Occurrences(s, x) + (IF y = x THEN 1 ELSE 0)
    <2>1. CASE y = x
      BY <1>2, <1>4, <1>8, <1>9, <2>1
    <2>2. CASE y # x
      BY <1>2, <1>3, <1>8, <1>9, <2>2
    <2>. QED BY <2>1, <2>2
  <1>. QED BY <1>5 DEF t

(* The object taken from the head is counted once less. *)
LEMMA CountTail ==
  ASSUME NEW T, NEW s \in Seq(T), s # <<>>, NEW x
  PROVE  Occurrences(Tail(s), x) = Occurrences(s, x) - (IF Head(s) = x THEN 1 ELSE 0)
  <1>. DEFINE D == {k \in DOMAIN s : s[k] = x}
              t == Tail(s)
              E == {k \in DOMAIN t : t[k] = x}
              n == Len(s)
  <1>1. /\ n \in Nat \ {0} /\ DOMAIN s = 1..n /\ DOMAIN t = 1..(n - 1)
        /\ \A k \in 1..(n - 1) : t[k] = s[k + 1] /\ k + 1 \in 1..n
        /\ Head(s) = s[1] /\ 1 \in DOMAIN s
    BY HeadTailProperties
  <1>2. t \in Seq(T) /\ IsFiniteSet(E) /\ IsFiniteSet(D) /\ Cardinality(D) \in Nat
    <2>1. t \in Seq(T)
      BY HeadTailProperties
    <2>. QED BY <2>1, PlacesFinite DEF Occurrences
  <1>. HIDE DEF t, n
  <1>. DEFINE f == [k \in E |-> k + 1]
              G == D \ {1}
  <1>3. f \in Bijection(E, G)
    <2>1. \A k \in E : k \in Int /\ k + 1 \in D /\ k + 1 # 1
      BY <1>1
    <2>2. \A m \in G : m - 1 \in E /\ m = (m - 1) + 1
      <3>. SUFFICES ASSUME NEW m \in G PROVE m - 1 \in E /\ m = (m - 1) + 1
        OBVIOUS
      <3>1. m \in 1..n /\ m # 1 /\ s[m] = x
        BY <1>1
      <3>2. m - 1 \in 1..(n - 1) /\ m = (m - 1) + 1
        BY <1>1, <3>1
      <3>. QED BY <1>1, <3>1, <3>2
    <2>. HIDE DEF E, D
    <2>3. f \in [E -> G]
      BY <2>1
    <2>4. \A a, b \in E : f[a] = f[b] => a = b
      BY <2>1
    <2>5. \A m \in G : \E k \in E : f[k] = m
      BY <2>2
    <2>. HIDE DEF f, G
    <2>. QED BY <2>3, <2>4, <2>5 DEF Bijection, Injection, Surjection, IsInjective
  <1>. HIDE DEF f
  <1>8. Occurrences(s, x) = Cardinality(D) /\ Occurrences(t, x) = Cardinality(E)
    BY DEF Occurrences
  <1>4. Cardinality(E) = Cardinality(G)
    <2>1. ExistsBijection(E, G)
      BY <1>3 DEF ExistsBijection
    <2>. HIDE DEF E, G
    <2>. QED BY <1>2, <2>1, FS_Bijection
  <1>5. 1 \in D <=> Head(s) = x
    BY <1>1
  <1>. HIDE DEF D, E
  <1>6. Cardinality(G) = IF 1 \in D THEN Cardinality(D) - 1 ELSE Cardinality(D)
    BY <1>2, FS_RemoveElement
  <1>7. Occurrences(t, x) = Occurrences(s, x) - (IF Head(s) = x THEN 1 ELSE 0)
    BY <1>2, <1>4, <1>5, <1>6, <1>8
  <1>. QED BY <1>7 DEF t

-----------------------------------------------------------------------------
(* How many threads have x. *)

Holders(f, x) == {t \in Threads : f[t] = x}

(* The threads that hold a datum are a number of threads. *)
LEMMA HoldersFinite ==
  ASSUME NEW f, NEW x
  PROVE  IsFiniteSet(Holders(f, x)) /\ Cardinality(Holders(f, x)) \in Nat
         /\ Cardinality(Threads) \in Nat
  <1>1. Holders(f, x) \in SUBSET Threads
    BY DEF Holders
  <1>. QED BY <1>1, EvalAssumption, FS_Subset, FS_CardinalityType

(* A thread that takes another datum leaves one count and enters another. *)
LEMMA CountHolders ==
  ASSUME NEW f, NEW g, NEW t \in Threads, \A u \in Threads \ {t} : g[u] = f[u], NEW x
  PROVE  Cardinality(Holders(g, x)) =
           Cardinality(Holders(f, x)) - (IF f[t] = x THEN 1 ELSE 0)
                                      + (IF g[t] = x THEN 1 ELSE 0)
  <1>. DEFINE F == Holders(f, x)
              R == F \ {t}
  <1>1. IsFiniteSet(F) /\ Cardinality(F) \in Nat
    BY HoldersFinite
  <1>2. Holders(g, x) = IF g[t] = x THEN R \cup {t} ELSE R
    BY DEF Holders
  <1>3. t \in F <=> f[t] = x
    BY DEF Holders
  <1>. HIDE DEF F
  <1>4. IsFiniteSet(R) /\ Cardinality(R) = Cardinality(F) - (IF f[t] = x THEN 1 ELSE 0)
    BY <1>1, <1>3, FS_RemoveElement
  <1>5. t \notin R
    OBVIOUS
  <1>. HIDE DEF R
  <1>6. Cardinality(R \cup {t}) = Cardinality(R) + 1
    BY <1>4, <1>5, FS_AddElement
  <1>7. Cardinality(R) \in Nat
    BY <1>4, FS_CardinalityType
  <1>. QED BY <1>1, <1>2, <1>4, <1>6, <1>7 DEF F

-----------------------------------------------------------------------------
(* Where the samples of an evaluation are. *)

ThreadType ==
  /\ th \in [Threads -> {"free", "put", "wait", "done"}]
  /\ cur \in [Threads -> Problems \cup {Done, Idle}]
Data == Problems \cup {Done}
QueueType == dataq \in Seq(Data) /\ dumpq \in Seq(Data)
LoadType ==
  /\ loader \in 0..(NProblems + 1) /\ left \in Nat /\ counts \in [Problems -> Nat]
  /\ loader = 0 => left = 0
LineType ==
  /\ metrics \in [Problems -> Nat] /\ trajs \in [Problems -> Nat]
  /\ failed \in [Problems -> Nat] /\ crashes \in Nat
DumpType ==
  /\ dump \in {"get", "metrics", "traj", "exit"} /\ kills \in Nat
  /\ dump \in {"metrics", "traj"} => sample \in Problems
  /\ dump \in {"get", "exit"} => sample = Idle

EvalType == ThreadType /\ QueueType /\ LoadType /\ LineType /\ DumpType

(* A thread that calls generate() has a problem; one that is done has none. *)
ThreadInv ==
  \A t \in Threads :
    /\ th[t] \in {"put", "wait"} => cur[t] \in Problems
    /\ th[t] = "done" => cur[t] \in {Done, Idle}
    /\ cur[t] = Done => th[t] = "done"

(* The threads that have left, and put None in dump_queue before. *)
HasLeft(t) == th[t] = "done" /\ cur[t] = Idle
Gone == {t \in Threads : HasLeft(t)}

(***************************************************************************)
(* The None of each thread that has left was read or is to be read; when   *)
(* all have left, nothing follows the last one.                            *)
(***************************************************************************)
LeaveInv ==
  /\ kills + Occurrences(dumpq, Done) = Cardinality(Gone)
  /\ dump = "exit" => kills >= Cardinality(Threads)
  /\ Gone = Threads => dumpq = <<>> \/ dumpq[Len(dumpq)] = Done

(* Where the samples problem p needs are. *)
Writing(p) == IF dump = "metrics" /\ sample = p THEN 1 ELSE 0
AccountOf(p) ==
  metrics[p] + Writing(p)
    + Occurrences(dumpq, p) + Cardinality(Holders(cur, p))
    + Occurrences(dataq, p) + ToLoad(p) + failed[p]

AccountInv == \A p \in Problems : AccountOf(p) = Needed[p]

EInv == EvalType /\ ThreadInv /\ LeaveInv /\ AccountInv

(* The kinds of objects in data_queue and dump_queue. *)
LEMMA DataFacts ==
  /\ NProblems \in Nat /\ Problems = 1..NProblems /\ Done \notin Problems /\ Idle \notin Problems
  /\ Done # Idle /\ \A p \in Problems : Needed[p] \in Nat /\ p \in Int /\ p \in Data
  /\ Done \in Data /\ \A d \in Data : d \in Problems \/ d = Done
  BY EvalAssumption DEF Problems, Done, Idle, Data

(* The places of a problem's samples are counted by numbers. *)
LEMMA PlaceTypes ==
  ASSUME EvalType, NEW p \in Problems
  PROVE  /\ metrics[p] \in Nat /\ trajs[p] \in Nat /\ failed[p] \in Nat /\ counts[p] \in Nat
         /\ Occurrences(dumpq, p) \in Nat /\ Occurrences(dataq, p) \in Nat
         /\ Cardinality(Holders(cur, p)) \in Nat /\ ToLoad(p) \in Nat /\ Missing(p) \in Nat
         /\ Occurrences(dumpq, Done) \in Nat
  <1>1. /\ metrics[p] \in Nat /\ trajs[p] \in Nat /\ failed[p] \in Nat /\ counts[p] \in Nat
        /\ left \in Nat
    BY DEF EvalType, LineType, LoadType
  <1>2. dumpq \in Seq(Data) /\ dataq \in Seq(Data)
    BY DEF EvalType, QueueType
  <1>3. /\ Occurrences(dumpq, p) \in Nat /\ Occurrences(dataq, p) \in Nat
        /\ Occurrences(dumpq, Done) \in Nat
    BY <1>2, PlacesFinite
  <1>4. Missing(p) \in Nat
    BY <1>1, DataFacts DEF Missing
  <1>5. ToLoad(p) \in Nat
    BY <1>1, <1>4 DEF ToLoad
  <1>. QED BY <1>1, <1>3, <1>4, <1>5, HoldersFinite

(* The threads' steps outside the run of FastGen do not change who has left. *)
LEMMA SameGone ==
  ASSUME \A t \in Threads : HasLeft(t)' <=> HasLeft(t)
  PROVE  Gone' = Gone
  BY DEF Gone

(* One thread leaves. *)
LEMMA OneGone ==
  ASSUME NEW t \in Threads, ~HasLeft(t), HasLeft(t)',
         \A u \in Threads \ {t} : HasLeft(u)' <=> HasLeft(u)
  PROVE  Gone' = Gone \cup {t} /\ Cardinality(Gone') = Cardinality(Gone) + 1
  <1>1. Gone' = Gone \cup {t} /\ t \notin Gone
    BY DEF Gone
  <1>2. Gone \in SUBSET Threads
    BY DEF Gone
  <1>3. IsFiniteSet(Gone)
    BY <1>2, EvalAssumption, FS_Subset
  <1>4. Cardinality(Gone \cup {t}) = Cardinality(Gone) + 1
    BY <1>1, <1>3, FS_AddElement
  <1>. QED BY <1>1, <1>4

-----------------------------------------------------------------------------
(* load_data *)

(* A step that leaves these alone keeps the types of what is in them. *)
LEMMA KeepsTypes ==
  /\ ThreadType /\ UNCHANGED <<th, cur>> => ThreadType'
  /\ QueueType /\ UNCHANGED <<dataq, dumpq>> => QueueType'
  /\ LoadType /\ UNCHANGED <<loader, left, counts>> => LoadType'
  /\ LineType /\ UNCHANGED <<metrics, trajs, failed, crashes>> => LineType'
  /\ DumpType /\ UNCHANGED <<dump, kills, sample>> => DumpType'
  <1>1. ThreadType /\ UNCHANGED <<th, cur>> => ThreadType'
    BY DEF ThreadType
  <1>2. QueueType /\ UNCHANGED <<dataq, dumpq>> => QueueType'
    BY DEF QueueType
  <1>3. LoadType /\ UNCHANGED <<loader, left, counts>> => LoadType'
    BY DEF LoadType
  <1>4. LineType /\ UNCHANGED <<metrics, trajs, failed, crashes>> => LineType'
    BY DEF LineType
  <1>5. DumpType /\ UNCHANGED <<dump, kills, sample>> => DumpType'
    BY DEF DumpType
  <1>. QED BY <1>1, <1>2, <1>3, <1>4, <1>5

(* A sample the loader has put is counted in the queue. *)
LEMMA LoadKeepsAccount ==
  ASSUME EvalType, NEW p \in Problems,
         UNCHANGED <<metrics, failed, dump, sample, dumpq, cur>>,
         Occurrences(dataq', p) \in Nat, ToLoad(p)' \in Nat,
         Occurrences(dataq', p) + ToLoad(p)' = Occurrences(dataq, p) + ToLoad(p)
  PROVE  AccountOf(p)' = AccountOf(p)
  <1>1. /\ metrics[p] \in Nat /\ failed[p] \in Nat /\ Occurrences(dumpq, p) \in Nat
        /\ Occurrences(dataq, p) \in Nat /\ Cardinality(Holders(cur, p)) \in Nat
        /\ ToLoad(p) \in Nat
    BY PlaceTypes
  <1>2. Writing(p)' = Writing(p) /\ Writing(p) \in Nat
    BY DEF Writing
  <1>3. AccountOf(p)' = metrics[p] + Writing(p) + Occurrences(dumpq, p)
           + Cardinality(Holders(cur, p)) + Occurrences(dataq', p) + ToLoad(p)' + failed[p]
    BY <1>2 DEF AccountOf
  <1>4. AccountOf(p) = metrics[p] + Writing(p) + Occurrences(dumpq, p)
           + Cardinality(Holders(cur, p)) + Occurrences(dataq, p) + ToLoad(p) + failed[p]
    BY DEF AccountOf
  <1>. QED BY <1>1, <1>2, <1>3, <1>4

(* load_data: a sample to load becomes one in data_queue. *)
LEMMA LoadEval ==
  ASSUME EInv, Load
  PROVE  EInv'
  <1>. USE DataFacts
  <1>0. EvalType /\ ThreadInv /\ LeaveInv /\ AccountInv
    BY DEF EInv
  <1>1. /\ UNCHANGED <<th, cur, metrics, trajs, counts, failed, dumpq, dump, sample, kills,
                       crashes>>
    BY DEF Load, LoadPut, LoadNext, LoadDone, igVars, threadVars, files, rolling, dumping
  <1>2. ThreadInv' /\ LeaveInv' /\ ThreadType' /\ LineType' /\ DumpType'
    BY <1>0, <1>1, KeepsTypes DEF ThreadInv, LeaveInv, Gone, HasLeft, EvalType
  <1>3. loader \in 0..(NProblems + 1) /\ left \in Nat /\ (loader = 0 => left = 0)
        /\ dataq \in Seq(Data) /\ dumpq \in Seq(Data)
        /\ counts \in [Problems -> Nat]
    BY <1>0 DEF EvalType, QueueType, LoadType
  <1>4. \A p \in Problems : Missing(p)' = Missing(p) /\ Missing(p) \in Nat
    BY <1>0, <1>1, PlaceTypes DEF Missing
  <1>. DEFINE Good == /\ dataq' \in Seq(Data) /\ left' \in Nat
                      /\ loader' \in 0..(NProblems + 1) /\ (loader' = 0 => left' = 0)
              Same(p) == /\ Occurrences(dataq', p) + ToLoad(p)' = Occurrences(dataq, p) + ToLoad(p)
                         /\ ToLoad(p)' \in Nat /\ Occurrences(dataq', p) \in Nat
  <1>5. ASSUME Good, \A p \in Problems : Same(p) PROVE EInv'
    <2>1. QueueType' /\ LoadType'
      BY <1>1, <1>3, <1>5 DEF QueueType, LoadType
    <2>2. ASSUME NEW p \in Problems PROVE AccountOf(p)' = AccountOf(p)
      BY <1>0, <1>1, <1>5, <2>2, LoadKeepsAccount
    <2>. QED BY <1>0, <1>2, <2>1, <2>2 DEF EInv, EvalType, AccountInv
  <1>6. CASE LoadPut
    <2>1. /\ loader \in Problems /\ loader' = loader /\ left' = left - 1 /\ left' \in Nat
          /\ dataq' = Append(dataq, loader) /\ dataq' \in Seq(Data)
      BY <1>3, <1>6 DEF LoadPut
    <2>2. ASSUME NEW p \in Problems
          PROVE  Same(p)
      <3>0. Occurrences(dataq, p) \in Nat /\ ToLoad(p) \in Nat
        BY <1>0, <2>2, PlaceTypes
      <3>1. loader \in Data
        BY <2>1
      <3>2. Occurrences(Append(dataq, loader), p) = Occurrences(dataq, p) + (IF loader = p THEN 1 ELSE 0)
        BY <1>3, <3>1, CountAppend
      <3>3. ToLoad(p)' = ToLoad(p) - (IF loader = p THEN 1 ELSE 0) /\ ToLoad(p)' \in Nat
        BY <1>3, <1>4, <2>1, <2>2 DEF ToLoad
      <3>4. Occurrences(dataq', p) = Occurrences(dataq, p) + (IF loader = p THEN 1 ELSE 0)
        BY <2>1, <3>2
      <3>5. CASE loader = p
        BY <3>0, <3>3, <3>4, <3>5
      <3>6. CASE loader # p
        BY <3>0, <3>3, <3>4, <3>6
      <3>. QED BY <3>5, <3>6
    <2>3. Good
      BY <1>3, <2>1
    <2>. QED BY <1>5, <2>2, <2>3
  <1>7. CASE LoadNext
    <2>1. /\ left = 0 /\ loader' = loader + 1 /\ loader' \in 1..(NProblems + 1) /\ dataq' = dataq
          /\ left' = IF loader < NProblems THEN Missing(loader + 1) ELSE Cardinality(Threads)
          /\ left' \in Nat
      <3>1. loader < NProblems => loader + 1 \in Problems
        BY <1>3
      <3>2. loader < NProblems => Missing(loader + 1) \in Nat
        BY <3>1, <1>4
      <3>3. Cardinality(Threads) \in Nat
        BY HoldersFinite
      <3>. QED BY <1>3, <1>7, <3>2, <3>3 DEF LoadNext
    <2>2. ASSUME NEW p \in Problems
          PROVE  Same(p)
      <3>1. ToLoad(p) \in Nat /\ Occurrences(dataq, p) \in Nat
        BY <1>0, <2>2, PlaceTypes
      <3>2. ToLoad(p)' = ToLoad(p)
        <4>1. CASE p = loader + 1
          BY <1>3, <1>4, <2>1, <2>2, <4>1, DataFacts DEF ToLoad
        <4>2. CASE p # loader + 1
          BY <1>3, <1>4, <2>1, <2>2, <4>2, DataFacts DEF ToLoad
        <4>. QED BY <4>1, <4>2
      <3>. QED BY <2>1, <3>1, <3>2
    <2>3. Good
      BY <1>3, <2>1
    <2>. QED BY <1>5, <2>2, <2>3
  <1>8. CASE LoadDone
    <2>1. /\ loader = NProblems + 1 /\ loader' = loader /\ left' = left - 1 /\ left' \in Nat
          /\ dataq' = Append(dataq, Done) /\ dataq' \in Seq(Data)
      BY <1>3, <1>8 DEF LoadDone
    <2>2. ASSUME NEW p \in Problems
          PROVE  Same(p)
      <3>0. Occurrences(dataq, p) \in Nat /\ ToLoad(p) \in Nat
        BY <1>0, <2>2, PlaceTypes
      <3>. DEFINE d == Done
      <3>1. d \in Data /\ d # p
        BY <2>2
      <3>. HIDE DEF d
      <3>2. Occurrences(Append(dataq, d), p) = Occurrences(dataq, p) + (IF d = p THEN 1 ELSE 0)
        BY <1>3, <3>1, CountAppend
      <3>3. ToLoad(p)' = ToLoad(p)
        BY <1>3, <1>4, <2>1, <2>2 DEF ToLoad
      <3>4. Occurrences(dataq', p) = Occurrences(dataq, p)
        BY <2>1, <3>0, <3>1, <3>2 DEF d
      <3>. QED BY <3>0, <3>3, <3>4
    <2>3. Good
      BY <1>3, <2>1
    <2>. QED BY <1>5, <2>2, <2>3
  <1>. QED BY <1>6, <1>7, <1>8 DEF Load

-----------------------------------------------------------------------------
(* rollout *)

(* A step of one thread changes the state of that thread alone. *)
OthersKept(t) == \A u \in Threads \ {t} : th'[u] = th[u] /\ cur'[u] = cur[u]

(* The threads keep their data, and their states where it matters. *)
LEMMA ThreadsKept ==
  ASSUME NEW t \in Threads, OthersKept(t), ThreadInv,
         th'[t] \in {"put", "wait"} => cur'[t] \in Problems,
         th'[t] = "done" => cur'[t] \in {Done, Idle}, cur'[t] = Done => th'[t] = "done"
  PROVE  ThreadInv'
  BY DEF ThreadInv, OthersKept

(* Who has left is the same when the thread that steps stays. *)
LEMMA StaysIn ==
  ASSUME NEW t \in Threads, OthersKept(t), ~HasLeft(t), ~HasLeft(t)'
  PROVE  Gone' = Gone /\ Gone # Threads
  <1>1. \A u \in Threads : HasLeft(u)' <=> HasLeft(u)
    BY DEF OthersKept, HasLeft
  <1>. QED BY <1>1, SameGone DEF Gone

(* No thread has left, and none is counted as gone. *)
LEMMA LeaveKept ==
  ASSUME LeaveInv, Gone' = Gone, UNCHANGED <<dumpq, dump, kills>>
  PROVE  LeaveInv'
  BY DEF LeaveInv

(* A datum leaves data_queue for the thread that takes it. *)
LEMMA GetDatumEval ==
  ASSUME EInv, NEW t \in Threads, GetDatum(t)
  PROVE  EInv'
  <1>0. EvalType /\ ThreadInv /\ LeaveInv /\ AccountInv
    BY DEF EInv
  <1>1. /\ UNCHANGED <<metrics, trajs, counts, loader, left, failed, dumpq, dump, sample, kills,
                       crashes>>
        /\ th[t] = "free" /\ cur[t] = Idle /\ dataq # <<>> /\ dataq' = Tail(dataq)
        /\ cur' = [cur EXCEPT ![t] = Head(dataq)]
        /\ th' = [th EXCEPT ![t] = IF Head(dataq) = Done THEN "done" ELSE "free"]
    BY DEF GetDatum, files, loading, dumping
  <1>2. PICK d : d = Head(dataq)
    OBVIOUS
  <1>3. dataq \in Seq(Data) /\ dumpq \in Seq(Data) /\ d \in Data /\ dataq' \in Seq(Data)
    BY <1>0, <1>1, <1>2, HeadTailProperties DEF EvalType, QueueType
  <1>4. /\ th \in [Threads -> {"free", "put", "wait", "done"}]
        /\ cur \in [Threads -> Problems \cup {Done, Idle}]
    BY <1>0 DEF EvalType, ThreadType
  <1>5. /\ cur'[t] = d /\ th'[t] = (IF d = Done THEN "done" ELSE "free") /\ OthersKept(t)
    BY <1>1, <1>2, <1>4 DEF OthersKept
  <1>6. ThreadType'
    BY <1>1, <1>2, <1>3, <1>4, DataFacts DEF ThreadType
  <1>7. EvalType'
    BY <1>0, <1>1, <1>3, <1>6, KeepsTypes DEF EvalType, QueueType
  <1>8. ThreadInv'
    BY <1>0, <1>3, <1>5, ThreadsKept, DataFacts
  <1>9. LeaveInv'
    <2>1. ~HasLeft(t) /\ ~HasLeft(t)'
      BY <1>1, <1>3, <1>5, DataFacts DEF HasLeft
    <2>. QED BY <1>0, <1>1, <1>5, <2>1, StaysIn, LeaveKept
  <1>10. ASSUME NEW p \in Problems PROVE AccountOf(p)' = AccountOf(p)
    <2>1. /\ metrics[p] \in Nat /\ failed[p] \in Nat /\ Occurrences(dumpq, p) \in Nat
          /\ Occurrences(dataq, p) \in Nat /\ Cardinality(Holders(cur, p)) \in Nat
          /\ ToLoad(p) \in Nat
      BY <1>0, <1>10, PlaceTypes
    <2>2. PICK k \in Int : k = IF d = p THEN 1 ELSE 0
      OBVIOUS
    <2>3. Occurrences(dataq', p) = Occurrences(dataq, p) - k
      BY <1>1, <1>2, <1>3, <2>2, CountTail
    <2>4. Cardinality(Holders(cur', p)) = Cardinality(Holders(cur, p)) + k
      <3>1. \A u \in Threads \ {t} : cur'[u] = cur[u]
        BY <1>5 DEF OthersKept
      <3>2. Cardinality(Holders(cur', p)) =
              Cardinality(Holders(cur, p)) - (IF cur[t] = p THEN 1 ELSE 0)
                                           + (IF cur'[t] = p THEN 1 ELSE 0)
        BY <3>1, CountHolders
      <3>3. cur[t] # p
        BY <1>1, <1>10, DataFacts
      <3>. QED BY <1>5, <2>1, <2>2, <3>2, <3>3
    <2>5. Writing(p)' = Writing(p) /\ Writing(p) \in Nat /\ ToLoad(p)' = ToLoad(p)
      BY <1>1 DEF Writing, ToLoad, Missing
    <2>6. AccountOf(p)' = metrics[p] + Writing(p) + Occurrences(dumpq, p)
             + (Cardinality(Holders(cur, p)) + k) + (Occurrences(dataq, p) - k) + ToLoad(p) + failed[p]
      BY <1>1, <2>3, <2>4, <2>5 DEF AccountOf
    <2>7. AccountOf(p) = metrics[p] + Writing(p) + Occurrences(dumpq, p)
             + Cardinality(Holders(cur, p)) + Occurrences(dataq, p) + ToLoad(p) + failed[p]
      BY DEF AccountOf
    <2>. QED BY <2>1, <2>2, <2>5, <2>6, <2>7
  <1>. QED BY <1>0, <1>7, <1>8, <1>9, <1>10 DEF EInv, AccountInv

(* The threads' steps in generate() move no sample. *)
LEMMA CallingEval ==
  ASSUME EInv, NEW t \in Threads, CallGenerate(t) \/ PutPacket(t)
  PROVE  EInv'
  <1>0. EvalType /\ ThreadInv /\ LeaveInv /\ AccountInv
    BY DEF EInv
  <1>1. /\ UNCHANGED <<metrics, trajs, counts, loader, left, dataq, cur, failed, dumpq, dump,
                       sample, kills, crashes>>
        /\ th[t] \in {"free", "put"} /\ cur[t] \in Problems
        /\ \E s \in {"put", "wait"} : th' = [th EXCEPT ![t] = s]
    BY <1>0 DEF CallGenerate, PutPacket, Register, Put, files, loading, dumping, rolling, ThreadInv
  <1>2. th \in [Threads -> {"free", "put", "wait", "done"}]
    BY <1>0 DEF EvalType, ThreadType
  <1>3. th'[t] \in {"put", "wait"} /\ cur'[t] = cur[t] /\ OthersKept(t)
    BY <1>1, <1>2 DEF OthersKept
  <1>4. ThreadType'
    BY <1>0, <1>1, <1>2 DEF EvalType, ThreadType
  <1>5. EvalType'
    BY <1>0, <1>1, <1>4, KeepsTypes DEF EvalType
  <1>6. ThreadInv'
    BY <1>0, <1>1, <1>3, ThreadsKept, DataFacts
  <1>7. LeaveInv'
    <2>1. ~HasLeft(t) /\ ~HasLeft(t)'
      BY <1>1, <1>3 DEF HasLeft
    <2>. QED BY <1>0, <1>1, <1>3, <2>1, StaysIn, LeaveKept
  <1>8. AccountInv'
    BY <1>0, <1>1 DEF AccountInv, AccountOf, Writing, ToLoad, Missing, Holders
  <1>. QED BY <1>5, <1>6, <1>7, <1>8 DEF EInv

(* A thread leaves: its None is the last object of dump_queue. *)
LEMMA LeaveEval ==
  ASSUME EInv, NEW t \in Threads, Leave(t)
  PROVE  EInv'
  <1>0. EvalType /\ ThreadInv /\ LeaveInv /\ AccountInv
    BY DEF EInv
  <1>1. /\ UNCHANGED <<th, metrics, trajs, counts, loader, left, dataq, failed, dump, sample,
                       kills, crashes>>
        /\ th[t] = "done" /\ cur[t] = Done /\ cur' = [cur EXCEPT ![t] = Idle]
    BY <1>0 DEF Leave, igVars, threadVars, files, loading, ThreadInv
  <1>2. PICK d : d = Done
    OBVIOUS
  <1>3. /\ dumpq \in Seq(Data) /\ d \in Data /\ dumpq' = Append(dumpq, d)
        /\ cur \in [Threads -> Problems \cup {Done, Idle}] /\ kills \in Nat
    BY <1>0, <1>2, DataFacts DEF Leave, EvalType, QueueType, ThreadType, DumpType
  <1>4. /\ dumpq' \in Seq(Data) /\ Len(dumpq') = Len(dumpq) + 1 /\ dumpq'[Len(dumpq')] = d
        /\ cur'[t] = Idle /\ OthersKept(t) /\ cur' \in [Threads -> Problems \cup {Done, Idle}]
    BY <1>1, <1>3 DEF OthersKept
  <1>5. EvalType'
    BY <1>0, <1>1, <1>4, KeepsTypes DEF EvalType, ThreadType, QueueType
  <1>6. ThreadInv'
    BY <1>0, <1>1, <1>4, ThreadsKept, DataFacts
  <1>7. LeaveInv'
    <2>1. ~HasLeft(t) /\ HasLeft(t)' /\ \A u \in Threads \ {t} : HasLeft(u)' <=> HasLeft(u)
      BY <1>1, <1>4, DataFacts DEF HasLeft, OthersKept
    <2>2. Cardinality(Gone') = Cardinality(Gone) + 1
      BY <2>1, OneGone
    <2>3. Occurrences(Append(dumpq, d), d) = Occurrences(dumpq, d) + (IF d = d THEN 1 ELSE 0)
      BY <1>3, CountAppend
    <2>4. Occurrences(dumpq, d) \in Nat
      BY <1>3, PlacesFinite
    <2>5. kills + Occurrences(dumpq, d) = Cardinality(Gone)
      BY <1>0, <1>2 DEF LeaveInv
    <2>6. kills' + Occurrences(dumpq', d) = Cardinality(Gone')
      BY <1>1, <1>3, <2>2, <2>3, <2>4, <2>5
    <2>. QED BY <1>0, <1>1, <1>2, <1>4, <2>6 DEF LeaveInv
  <1>8. ASSUME NEW p \in Problems PROVE AccountOf(p)' = AccountOf(p)
    <2>0. d # p /\ Done # p /\ Idle # p
      BY <1>2, <1>8, DataFacts
    <2>1. Occurrences(Append(dumpq, d), p) = Occurrences(dumpq, p) + (IF d = p THEN 1 ELSE 0)
      BY <1>3, CountAppend
    <2>2. Occurrences(dumpq, p) \in Nat
      BY <1>0, <1>8, PlaceTypes
    <2>3. Occurrences(dumpq', p) = Occurrences(dumpq, p)
      BY <1>3, <2>0, <2>1, <2>2
    <2>4. Holders(cur', p) = Holders(cur, p)
      BY <1>1, <1>4, <2>0 DEF Holders, OthersKept
    <2>5. Writing(p)' = Writing(p) /\ ToLoad(p)' = ToLoad(p)
      BY <1>1 DEF Writing, ToLoad, Missing
    <2>. QED BY <1>1, <2>3, <2>4, <2>5 DEF AccountOf
  <1>. QED BY <1>0, <1>5, <1>6, <1>7, <1>8 DEF EInv, AccountInv

(* A sample goes from its thread to dump_queue. *)
LEMMA SucceedEval ==
  ASSUME EInv, NEW t \in Threads, Succeed(t)
  PROVE  EInv'
  <1>0. EvalType /\ ThreadInv /\ LeaveInv /\ AccountInv
    BY DEF EInv
  <1>1. /\ UNCHANGED <<th, metrics, trajs, counts, loader, left, dataq, failed, dump, sample,
                       kills, crashes>>
        /\ th[t] = "free" /\ cur[t] \in Problems /\ cur' = [cur EXCEPT ![t] = Idle]
        /\ dumpq' = Append(dumpq, cur[t])
    BY DEF Succeed, Drop, igVars, threadVars, files, loading
  <1>2. PICK d : d = cur[t]
    OBVIOUS
  <1>3. /\ dumpq \in Seq(Data) /\ d \in Data /\ dumpq' = Append(dumpq, d) /\ d \in Problems
        /\ cur \in [Threads -> Problems \cup {Done, Idle}]
    BY <1>0, <1>1, <1>2, DataFacts DEF EvalType, QueueType, ThreadType
  <1>4. /\ dumpq' \in Seq(Data) /\ cur'[t] = Idle /\ OthersKept(t) /\ th'[t] = "free"
        /\ cur' \in [Threads -> Problems \cup {Done, Idle}]
    BY <1>1, <1>3 DEF OthersKept
  <1>5. EvalType'
    BY <1>0, <1>1, <1>4, KeepsTypes DEF EvalType, ThreadType, QueueType
  <1>6. ThreadInv'
    BY <1>0, <1>1, <1>4, ThreadsKept, DataFacts
  <1>7. LeaveInv'
    <2>1. ~HasLeft(t) /\ ~HasLeft(t)'
      BY <1>1, <1>4 DEF HasLeft
    <2>2. Gone' = Gone /\ Gone # Threads
      BY <1>4, <2>1, StaysIn
    <2>3. PICK n : n = Done
      OBVIOUS
    <2>4. Occurrences(Append(dumpq, d), n) = Occurrences(dumpq, n) + (IF d = n THEN 1 ELSE 0)
      BY <1>3, CountAppend
    <2>5. Occurrences(dumpq, n) \in Nat /\ d # n
      BY <1>3, <2>3, PlacesFinite, DataFacts
    <2>6. Occurrences(dumpq', Done) = Occurrences(dumpq, Done)
      BY <1>3, <2>3, <2>4, <2>5
    <2>. QED BY <1>0, <1>1, <2>2, <2>6 DEF LeaveInv
  <1>8. ASSUME NEW p \in Problems PROVE AccountOf(p)' = AccountOf(p)
    <2>1. /\ metrics[p] \in Nat /\ failed[p] \in Nat /\ Occurrences(dumpq, p) \in Nat
          /\ Occurrences(dataq, p) \in Nat /\ Cardinality(Holders(cur, p)) \in Nat
          /\ ToLoad(p) \in Nat
      BY <1>0, <1>8, PlaceTypes
    <2>2. PICK k \in Int : k = IF d = p THEN 1 ELSE 0
      OBVIOUS
    <2>3. Occurrences(dumpq', p) = Occurrences(dumpq, p) + k
      <3>1. Occurrences(Append(dumpq, d), p) = Occurrences(dumpq, p) + (IF d = p THEN 1 ELSE 0)
        BY <1>3, CountAppend
      <3>. QED BY <1>3, <2>2, <3>1
    <2>4. Cardinality(Holders(cur', p)) = Cardinality(Holders(cur, p)) - k
      <3>1. \A u \in Threads \ {t} : cur'[u] = cur[u]
        BY <1>4 DEF OthersKept
      <3>2. Cardinality(Holders(cur', p)) =
              Cardinality(Holders(cur, p)) - (IF cur[t] = p THEN 1 ELSE 0)
                                           + (IF cur'[t] = p THEN 1 ELSE 0)
        BY <3>1, CountHolders
      <3>3. cur'[t] # p
        BY <1>4, <1>8, DataFacts
      <3>. QED BY <1>2, <2>1, <2>2, <3>2, <3>3
    <2>5. Writing(p)' = Writing(p) /\ Writing(p) \in Nat /\ ToLoad(p)' = ToLoad(p)
      BY <1>1 DEF Writing, ToLoad, Missing
    <2>6. AccountOf(p)' = metrics[p] + Writing(p) + (Occurrences(dumpq, p) + k)
             + (Cardinality(Holders(cur, p)) - k) + Occurrences(dataq, p) + ToLoad(p) + failed[p]
      BY <1>1, <2>3, <2>4, <2>5 DEF AccountOf
    <2>7. AccountOf(p) = metrics[p] + Writing(p) + Occurrences(dumpq, p)
             + Cardinality(Holders(cur, p)) + Occurrences(dataq, p) + ToLoad(p) + failed[p]
      BY DEF AccountOf
    <2>. QED BY <2>1, <2>2, <2>5, <2>6, <2>7
  <1>. QED BY <1>0, <1>5, <1>6, <1>7, <1>8 DEF EInv, AccountInv

(* Another attempt keeps the datum, a datum given up is counted as failed. *)
LEMMA RaiseEval ==
  ASSUME EInv, NEW t \in Threads, Raise(t)
  PROVE  EInv'
  <1>0. EvalType /\ ThreadInv /\ LeaveInv /\ AccountInv
    BY DEF EInv
  <1>1. /\ UNCHANGED <<th, metrics, trajs, counts, loader, left, dataq, dumpq, dump, sample,
                       kills, crashes>>
        /\ th[t] = "free" /\ cur[t] \in Problems
        /\ \/ UNCHANGED <<cur, failed>>
           \/ /\ cur' = [cur EXCEPT ![t] = Idle]
              /\ failed' = [failed EXCEPT ![cur[t]] = @ + 1]
    BY DEF Raise, Drop, igVars, threadVars, files, loading, dumping
  <1>2. CASE UNCHANGED <<cur, failed>>
    <2>1. EvalType'
      BY <1>0, <1>1, <1>2, KeepsTypes DEF EvalType
    <2>2. ThreadInv' /\ LeaveInv'
      BY <1>0, <1>1, <1>2 DEF ThreadInv, LeaveInv, Gone, HasLeft
    <2>3. AccountInv'
      BY <1>0, <1>1, <1>2 DEF AccountInv, AccountOf, Writing, ToLoad, Missing, Holders
    <2>. QED BY <2>1, <2>2, <2>3 DEF EInv
  <1>3. CASE cur' = [cur EXCEPT ![t] = Idle] /\ failed' = [failed EXCEPT ![cur[t]] = @ + 1]
    <2>2. PICK d : d = cur[t]
      OBVIOUS
    <2>3. /\ d \in Problems /\ cur \in [Threads -> Problems \cup {Done, Idle}]
          /\ failed \in [Problems -> Nat] /\ failed' = [failed EXCEPT ![d] = @ + 1]
      BY <1>0, <1>1, <1>3, <2>2 DEF EvalType, LineType, ThreadType
    <2>4. /\ cur'[t] = Idle /\ OthersKept(t) /\ th'[t] = "free"
          /\ cur' \in [Threads -> Problems \cup {Done, Idle}] /\ failed' \in [Problems -> Nat]
      BY <1>1, <1>3, <2>3 DEF OthersKept
    <2>5. EvalType'
      BY <1>0, <1>1, <2>4, KeepsTypes DEF EvalType, ThreadType, LineType
    <2>6. ThreadInv'
      BY <1>0, <1>1, <2>4, ThreadsKept, DataFacts
    <2>7. LeaveInv'
      <3>1. ~HasLeft(t) /\ ~HasLeft(t)'
        BY <1>1, <2>4 DEF HasLeft
      <3>. QED BY <1>0, <1>1, <2>4, <3>1, StaysIn, LeaveKept
    <2>8. ASSUME NEW p \in Problems PROVE AccountOf(p)' = AccountOf(p)
      <3>1. /\ metrics[p] \in Nat /\ failed[p] \in Nat /\ Occurrences(dumpq, p) \in Nat
            /\ Occurrences(dataq, p) \in Nat /\ Cardinality(Holders(cur, p)) \in Nat
            /\ ToLoad(p) \in Nat
        BY <1>0, <2>8, PlaceTypes
      <3>2. PICK k \in Int : k = IF d = p THEN 1 ELSE 0
        OBVIOUS
      <3>3. failed'[p] = failed[p] + k
        BY <2>3, <2>8, <3>1, <3>2
      <3>4. Cardinality(Holders(cur', p)) = Cardinality(Holders(cur, p)) - k
        <4>1. \A u \in Threads \ {t} : cur'[u] = cur[u]
          BY <2>4 DEF OthersKept
        <4>2. Cardinality(Holders(cur', p)) =
                Cardinality(Holders(cur, p)) - (IF cur[t] = p THEN 1 ELSE 0)
                                             + (IF cur'[t] = p THEN 1 ELSE 0)
          BY <4>1, CountHolders
        <4>3. cur'[t] # p
          BY <2>4, <2>8, DataFacts
        <4>. QED BY <2>2, <3>1, <3>2, <4>2, <4>3
      <3>5. Writing(p)' = Writing(p) /\ Writing(p) \in Nat /\ ToLoad(p)' = ToLoad(p)
        BY <1>1 DEF Writing, ToLoad, Missing
      <3>6. AccountOf(p)' = metrics[p] + Writing(p) + Occurrences(dumpq, p)
               + (Cardinality(Holders(cur, p)) - k) + Occurrences(dataq, p) + ToLoad(p) + (failed[p] + k)
        BY <1>1, <3>3, <3>4, <3>5 DEF AccountOf
      <3>7. AccountOf(p) = metrics[p] + Writing(p) + Occurrences(dumpq, p)
               + Cardinality(Holders(cur, p)) + Occurrences(dataq, p) + ToLoad(p) + failed[p]
        BY DEF AccountOf
      <3>. QED BY <3>1, <3>2, <3>5, <3>6, <3>7
    <2>. QED BY <1>0, <2>5, <2>6, <2>7, <2>8 DEF EInv, AccountInv
  <1>. QED BY <1>1, <1>2, <1>3

-----------------------------------------------------------------------------
(* dump_samples *)

LEMMA DumpGetEval ==
  ASSUME EInv, DumpGet
  PROVE  EInv'
  <1>0. EvalType /\ ThreadInv /\ LeaveInv /\ AccountInv
    BY DEF EInv
  <1>1. /\ UNCHANGED <<th, cur, metrics, trajs, counts, loader, left, dataq, failed, crashes>>
        /\ dump = "get" /\ dumpq # <<>> /\ dumpq' = Tail(dumpq)
    BY DEF DumpGet, igVars, threadVars, files, loading, rolling
  <1>2. PICK d : d = Head(dumpq)
    OBVIOUS
  <1>3. dumpq \in Seq(Data) /\ d \in Data /\ dumpq' \in Seq(Data) /\ kills \in Nat
    BY <1>0, <1>1, <1>2, HeadTailProperties DEF EvalType, QueueType, DumpType
  <1>4. /\ d = Done => /\ kills' = kills + 1 /\ sample' = Idle
                       /\ \/ dump' = "exit" /\ kills' >= Cardinality(Threads)
                          \/ dump' = "get"
        /\ d # Done => dump' = "metrics" /\ sample' = d /\ kills' = kills
    BY <1>0, <1>1, <1>2 DEF DumpGet, LastKill, EvalType, DumpType
  <1>5. d = Done \/ (d \in Problems /\ d # Done)
    BY <1>3, DataFacts
  <1>6. EvalType'
    <2>1. DumpType'
      BY <1>3, <1>4, <1>5 DEF DumpType
    <2>. QED BY <1>0, <1>1, <1>3, <2>1, KeepsTypes DEF EvalType, QueueType
  <1>7. ThreadInv' /\ Gone' = Gone
    BY <1>0, <1>1 DEF ThreadInv, Gone, HasLeft
  <1>8. LeaveInv'
    <2>1. PICK n : n = Done
      OBVIOUS
    <2>2. Occurrences(Tail(dumpq), n) = Occurrences(dumpq, n) - (IF Head(dumpq) = n THEN 1 ELSE 0)
      BY <1>1, <1>3, CountTail
    <2>3. Occurrences(dumpq, n) \in Nat
      BY <1>3, PlacesFinite
    <2>4. kills + Occurrences(dumpq, n) = Cardinality(Gone)
      BY <1>0, <2>1 DEF LeaveInv
    <2>5. kills' + Occurrences(dumpq', n) = Cardinality(Gone')
      BY <1>1, <1>2, <1>3, <1>4, <1>5, <1>7, <2>1, <2>2, <2>3, <2>4
    <2>6. dump' = "exit" => kills' >= Cardinality(Threads)
      BY <1>4, <1>5
    <2>7. dumpq[Len(dumpq)] = Done => dumpq' = <<>> \/ dumpq'[Len(dumpq')] = Done
      <3>1. Len(dumpq) \in Nat \ {0} /\ Len(dumpq') = Len(dumpq) - 1
            /\ \A k \in 1..(Len(dumpq) - 1) : dumpq'[k] = dumpq[k + 1]
        BY <1>1, <1>3
      <3>2. CASE Len(dumpq) = 1
        <4>1. Len(dumpq') = 0
          BY <3>1, <3>2
        <4>. QED BY <1>3, <4>1, EmptySeq
      <3>3. CASE Len(dumpq) # 1
        <4>1. Len(dumpq) - 1 \in 1..(Len(dumpq) - 1)
          BY <3>1, <3>3
        <4>2. dumpq'[Len(dumpq) - 1] = dumpq[(Len(dumpq) - 1) + 1]
          BY <3>1, <4>1
        <4>. QED BY <3>1, <4>2
      <3>. QED BY <3>2, <3>3
    <2>8. Gone' = Threads => dumpq' = <<>> \/ dumpq'[Len(dumpq')] = Done
      BY <1>0, <1>1, <1>7, <2>7 DEF LeaveInv
    <2>. QED BY <2>1, <2>5, <2>6, <2>8 DEF LeaveInv
  <1>9. ASSUME NEW p \in Problems PROVE AccountOf(p)' = AccountOf(p)
    <2>1. /\ metrics[p] \in Nat /\ failed[p] \in Nat /\ Occurrences(dumpq, p) \in Nat
          /\ Occurrences(dataq, p) \in Nat /\ Cardinality(Holders(cur, p)) \in Nat
          /\ ToLoad(p) \in Nat
      BY <1>0, <1>9, PlaceTypes
    <2>2. PICK k \in Int : k = IF d = p THEN 1 ELSE 0
      OBVIOUS
    <2>3. Occurrences(dumpq', p) = Occurrences(dumpq, p) - k
      <3>1. Occurrences(Tail(dumpq), p) = Occurrences(dumpq, p) - (IF Head(dumpq) = p THEN 1 ELSE 0)
        BY <1>1, <1>3, CountTail
      <3>. QED BY <1>1, <1>2, <2>2, <3>1
    <2>4. Writing(p) = 0 /\ Writing(p)' = k
      <3>1. d = p => d # Done
        BY <1>9, DataFacts
      <3>. QED BY <1>1, <1>4, <1>5, <2>2, <3>1 DEF Writing
    <2>5. ToLoad(p)' = ToLoad(p) /\ Holders(cur, p)' = Holders(cur, p)
      BY <1>1 DEF ToLoad, Missing, Holders
    <2>6. AccountOf(p)' = metrics[p] + k + (Occurrences(dumpq, p) - k)
             + Cardinality(Holders(cur, p)) + Occurrences(dataq, p) + ToLoad(p) + failed[p]
      BY <1>1, <2>3, <2>4, <2>5 DEF AccountOf
    <2>7. AccountOf(p) = metrics[p] + 0 + Occurrences(dumpq, p)
             + Cardinality(Holders(cur, p)) + Occurrences(dataq, p) + ToLoad(p) + failed[p]
      BY <2>4 DEF AccountOf
    <2>. QED BY <2>1, <2>2, <2>6, <2>7
  <1>. QED BY <1>0, <1>6, <1>7, <1>8, <1>9 DEF EInv, AccountInv

(* A line of all_metrics.jsonl turns a sample into one that counts. *)
LEMMA DumpLineEval ==
  ASSUME EInv, DumpLine
  PROVE  EInv'
  <1>0. EvalType /\ ThreadInv /\ LeaveInv /\ AccountInv
    BY DEF EInv
  <1>1. /\ UNCHANGED <<th, cur, counts, loader, left, dataq, failed, dumpq, kills, crashes>>
        /\ \/ /\ dump = "metrics" /\ dump' = "traj" /\ UNCHANGED <<trajs, sample>>
              /\ metrics' = [metrics EXCEPT ![sample] = @ + 1]
           \/ /\ dump = "traj" /\ dump' = "get" /\ sample' = Idle /\ UNCHANGED metrics
              /\ trajs' = [trajs EXCEPT ![sample] = @ + 1]
    BY DEF DumpLine, igVars, threadVars, loading, rolling
  <1>2. /\ metrics \in [Problems -> Nat] /\ trajs \in [Problems -> Nat] /\ sample \in Problems
        /\ failed \in [Problems -> Nat] /\ crashes \in Nat /\ kills \in Nat
    BY <1>0, <1>1 DEF EvalType, LineType, DumpType
  <1>3. EvalType'
    <2>1. LineType'
      BY <1>1, <1>2 DEF LineType
    <2>2. DumpType'
      BY <1>1, <1>2 DEF DumpType
    <2>. QED BY <1>0, <1>1, <2>1, <2>2, KeepsTypes DEF EvalType
  <1>4. ThreadInv' /\ LeaveInv'
    BY <1>0, <1>1 DEF ThreadInv, LeaveInv, Gone, HasLeft
  <1>5. ASSUME NEW p \in Problems PROVE AccountOf(p)' = AccountOf(p)
    <2>1. /\ metrics[p] \in Nat /\ failed[p] \in Nat /\ Occurrences(dumpq, p) \in Nat
          /\ Occurrences(dataq, p) \in Nat /\ Cardinality(Holders(cur, p)) \in Nat
          /\ ToLoad(p) \in Nat
      BY <1>0, <1>5, PlaceTypes
    <2>2. /\ Writing(p) \in Nat /\ Writing(p)' \in Nat /\ metrics'[p] \in Nat
          /\ metrics'[p] + Writing(p)' = metrics[p] + Writing(p)
      BY <1>1, <1>2, <1>5 DEF Writing
    <2>3. ToLoad(p)' = ToLoad(p) /\ Holders(cur, p)' = Holders(cur, p)
      BY <1>1 DEF ToLoad, Missing, Holders
    <2>4. AccountOf(p)' = metrics'[p] + Writing(p)' + Occurrences(dumpq, p)
             + Cardinality(Holders(cur, p)) + Occurrences(dataq, p) + ToLoad(p) + failed[p]
      BY <1>1, <2>3 DEF AccountOf
    <2>5. AccountOf(p) = metrics[p] + Writing(p) + Occurrences(dumpq, p)
             + Cardinality(Holders(cur, p)) + Occurrences(dataq, p) + ToLoad(p) + failed[p]
      BY DEF AccountOf
    <2>. QED BY <2>1, <2>2, <2>4, <2>5
  <1>. QED BY <1>0, <1>3, <1>4, <1>5 DEF EInv, AccountInv

-----------------------------------------------------------------------------
(* The main threads and a crash. *)

(* The main threads change of the rollout threads only that some resume. *)
LEMMA MainThreadSteps ==
  ASSUME MainThread, ThreadType
  PROVE  /\ \A t \in Threads : th'[t] = th[t] \/ (th[t] = "wait" /\ th'[t] = "free")
         /\ th' \in [Threads -> {"free", "put", "wait", "done"}]
  <1>1. PICK r \in Ranks : Main(r)
    BY DEF MainThread, Mains
  <1>2. th \in [Threads -> {"free", "put", "wait", "done"}]
    BY DEF ThreadType
  <1>3. CASE SyncLead \/ SyncFollow(r) \/ Loop(r)
    <2>1. th' = th
      BY <1>3 DEF SyncLead, SyncFollow, Loop, Take, Synced, threadVars
    <2>. QED BY <1>2, <2>1
  <1>4. CASE Step(r)
    <2>1. PICK o : IF o.kind = "packet" THEN Answer(r, o.id) ELSE UNCHANGED <<th, ticket, futures>>
      BY <1>4 DEF Step
    <2>2. CASE th' = th
      BY <1>2, <2>2
    <2>3. CASE Answer(r, o.id)
      BY <1>2, <2>3 DEF Answer
    <2>. QED BY <2>1, <2>2, <2>3
  <1>. QED BY <1>1, <1>3, <1>4 DEF Main

(* The main threads touch neither the data nor the samples. *)
LEMMA MainThreadEval ==
  ASSUME EInv, MainThread
  PROVE  EInv'
  <1>0. EvalType /\ ThreadInv /\ LeaveInv /\ AccountInv
    BY DEF EInv
  <1>1. UNCHANGED <<cur, metrics, trajs, counts, loader, left, dataq, failed, dumpq, dump, sample,
                    kills, crashes>>
    BY DEF MainThread, files, loading, rolling, dumping
  <1>2. /\ \A t \in Threads : th'[t] = th[t] \/ (th[t] = "wait" /\ th'[t] = "free")
        /\ th' \in [Threads -> {"free", "put", "wait", "done"}]
    BY <1>0, MainThreadSteps DEF EvalType
  <1>3. EvalType'
    <2>1. ThreadType'
      BY <1>0, <1>1, <1>2 DEF EvalType, ThreadType
    <2>. QED BY <1>0, <1>1, <2>1, KeepsTypes DEF EvalType
  <1>4. ThreadInv'
    BY <1>0, <1>1, <1>2, DataFacts DEF ThreadInv
  <1>5. LeaveInv'
    <2>1. \A t \in Threads : HasLeft(t)' <=> HasLeft(t)
      BY <1>1, <1>2 DEF HasLeft
    <2>. QED BY <1>0, <1>1, <2>1, SameGone, LeaveKept
  <1>6. AccountInv'
    BY <1>0, <1>1 DEF AccountInv, AccountOf, Writing, ToLoad, Missing, Holders
  <1>. QED BY <1>3, <1>4, <1>5, <1>6 DEF EInv

(* The first process finds no lines. *)
LEMMA InitEval ==
  ASSUME Init
  PROVE  EInv
  <1>1. /\ metrics \in [Problems -> Nat] /\ trajs \in [Problems -> Nat] /\ crashes \in Nat
        /\ counts = metrics /\ loader = 0 /\ left = 0 /\ dataq = <<>> /\ dumpq = <<>>
        /\ th = [t \in Threads |-> "free"] /\ cur = [t \in Threads |-> Idle]
        /\ failed = [p \in Problems |-> 0] /\ dump = "get" /\ sample = Idle /\ kills = 0
    BY DEF Init, NoLines, Fresh, IgInit, IgFresh
  <1>2. \A p \in Problems : metrics[p] \in Nat /\ metrics[p] <= Needed[p]
    BY DataFacts DEF Init, NoLines
  <1>3. EvalType
    <2>1. ThreadType
      BY <1>1 DEF ThreadType
    <2>2. QueueType
      BY <1>1 DEF QueueType
    <2>3. LoadType
      BY <1>1, DataFacts DEF LoadType
    <2>4. LineType /\ DumpType
      BY <1>1 DEF LineType, DumpType
    <2>. QED BY <2>1, <2>2, <2>3, <2>4 DEF EvalType
  <1>4. ThreadInv
    BY <1>1, DataFacts DEF ThreadInv
  <1>5. \A x : Occurrences(<<>>, x) = 0
    <2>1. \A x : {k \in DOMAIN <<>> : <<>>[k] = x} = {}
      OBVIOUS
    <2>. QED BY <2>1, FS_EmptySet DEF Occurrences
  <1>6. LeaveInv
    <2>1. Gone = {}
      BY <1>1 DEF Gone, HasLeft
    <2>2. Occurrences(dumpq, Done) = 0
      BY <1>1, <1>5
    <2>. QED BY <1>1, <2>1, <2>2, FS_EmptySet DEF LeaveInv
  <1>7. ASSUME NEW p \in Problems PROVE AccountOf(p) = Needed[p]
    <2>1. Holders(cur, p) = {}
      BY <1>1, <1>7, DataFacts DEF Holders
    <2>2. Cardinality(Holders(cur, p)) = 0
      BY <2>1, FS_EmptySet
    <2>3. Writing(p) = 0
      BY <1>1 DEF Writing
    <2>4. ToLoad(p) = Needed[p] - metrics[p]
      <3>1. p # loader /\ p > loader /\ Needed[p] \in Nat
        BY <1>1, <1>7, DataFacts
      <3>2. Missing(p) = Needed[p] - metrics[p]
        BY <1>1, <1>2, <1>7, <3>1 DEF Missing
      <3>. QED BY <3>1, <3>2 DEF ToLoad
    <2>5. Occurrences(dumpq, p) = 0 /\ Occurrences(dataq, p) = 0 /\ failed[p] = 0
      BY <1>1, <1>5, <1>7
    <2>6. AccountOf(p) = metrics[p] + 0 + 0 + 0 + 0 + (Needed[p] - metrics[p]) + 0
      BY <2>2, <2>3, <2>4, <2>5 DEF AccountOf
    <2>. QED BY <1>2, <1>7, <2>6, DataFacts
  <1>. QED BY <1>3, <1>4, <1>6, <1>7 DEF EInv, AccountInv

(* A later process loads what the files lack: no problem has more lines than it needs. *)
LEMMA CrashEval ==
  ASSUME EInv, Crash
  PROVE  EInv'
  <1>1. /\ metrics' \in [Problems -> Nat] /\ trajs' \in [Problems -> Nat] /\ crashes' \in Nat
        /\ counts' = metrics' /\ loader' = 0 /\ left' = 0 /\ dataq' = <<>> /\ dumpq' = <<>>
        /\ th' = [t \in Threads |-> "free"] /\ cur' = [t \in Threads |-> Idle]
        /\ failed' = [p \in Problems |-> 0] /\ dump' = "get" /\ sample' = Idle /\ kills' = 0
    BY DEF EInv, EvalType, LineType, Crash, files, Fresh, IgRestart, IgFresh
  <1>2. \A p \in Problems : metrics'[p] \in Nat /\ metrics'[p] <= Needed[p]
    <2>1. EvalType /\ AccountInv /\ metrics' = metrics
      BY DEF EInv, Crash, files
    <2>2. ASSUME NEW p \in Problems PROVE metrics[p] \in Nat /\ metrics[p] <= Needed[p]
      <3>1. /\ metrics[p] \in Nat /\ failed[p] \in Nat /\ Occurrences(dumpq, p) \in Nat
            /\ Occurrences(dataq, p) \in Nat /\ Cardinality(Holders(cur, p)) \in Nat
            /\ ToLoad(p) \in Nat
        BY <2>1, <2>2, PlaceTypes
      <3>2. Writing(p) \in Nat
        BY DEF Writing
      <3>3. Needed[p] = metrics[p] + Writing(p) + Occurrences(dumpq, p)
               + Cardinality(Holders(cur, p)) + Occurrences(dataq, p) + ToLoad(p) + failed[p]
        BY <2>1, <2>2 DEF AccountInv, AccountOf
      <3>. QED BY <3>1, <3>2, <3>3
    <2>. QED BY <2>1, <2>2
  <1>3. EvalType'
    <2>1. ThreadType'
      BY <1>1 DEF ThreadType
    <2>2. QueueType'
      BY <1>1 DEF QueueType
    <2>3. LoadType'
      BY <1>1, DataFacts DEF LoadType
    <2>4. LineType' /\ DumpType'
      BY <1>1 DEF LineType, DumpType
    <2>. QED BY <2>1, <2>2, <2>3, <2>4 DEF EvalType
  <1>4. ThreadInv'
    BY <1>1, DataFacts DEF ThreadInv
  <1>5. \A x : Occurrences(<<>>, x) = 0
    <2>1. \A x : {k \in DOMAIN <<>> : <<>>[k] = x} = {}
      OBVIOUS
    <2>. QED BY <2>1, FS_EmptySet DEF Occurrences
  <1>6. LeaveInv'
    <2>1. Gone' = {}
      BY <1>1 DEF Gone, HasLeft
    <2>2. Occurrences(dumpq', Done) = 0
      BY <1>1, <1>5
    <2>. QED BY <1>1, <2>1, <2>2, FS_EmptySet DEF LeaveInv
  <1>7. ASSUME NEW p \in Problems PROVE AccountOf(p)' = Needed[p]
    <2>1. Holders(cur', p) = {}
      BY <1>1, <1>7, DataFacts DEF Holders
    <2>2. Cardinality(Holders(cur', p)) = 0
      BY <2>1, FS_EmptySet
    <2>3. Writing(p)' = 0
      BY <1>1 DEF Writing
    <2>4. ToLoad(p)' = Needed[p] - metrics'[p]
      <3>1. p # loader' /\ p > loader' /\ Needed[p] \in Nat
        BY <1>1, <1>7, DataFacts
      <3>2. Missing(p)' = Needed[p] - metrics'[p]
        BY <1>1, <1>2, <1>7, <3>1 DEF Missing
      <3>. QED BY <3>1, <3>2 DEF ToLoad
    <2>5. Occurrences(dumpq', p) = 0 /\ Occurrences(dataq', p) = 0 /\ failed'[p] = 0
      BY <1>1, <1>5, <1>7
    <2>6. AccountOf(p)' = metrics'[p] + 0 + 0 + 0 + 0 + (Needed[p] - metrics'[p]) + 0
      BY <2>2, <2>3, <2>4, <2>5 DEF AccountOf
    <2>. QED BY <1>2, <1>7, <2>6, DataFacts
  <1>. QED BY <1>3, <1>4, <1>6, <1>7 DEF EInv, AccountInv

-----------------------------------------------------------------------------
(* Every step keeps the invariant. *)

LEMMA EvalStep ==
  ASSUME EInv, [Next]_vars
  PROVE  EInv'
  <1>1. CASE Load
    BY <1>1, LoadEval
  <1>2. CASE Dump
    BY <1>2, DumpGetEval, DumpLineEval DEF Dump
  <1>3. CASE MainThread
    BY <1>3, MainThreadEval
  <1>4. CASE Crash
    BY <1>4, CrashEval
  <1>5. ASSUME NEW t \in Threads, Rollout(t) PROVE EInv'
    BY <1>5, GetDatumEval, CallingEval, LeaveEval, SucceedEval, RaiseEval DEF Rollout
  <1>6. CASE UNCHANGED vars
    <2>1. UNCHANGED <<th, cur, metrics, trajs, counts, loader, left, dataq, failed, dumpq, dump,
                      sample, kills, crashes>>
      BY <1>6 DEF vars, igVars, threadVars, files, loading, rolling, dumping
    <2>2. EvalType /\ ThreadInv /\ LeaveInv /\ AccountInv
      BY DEF EInv
    <2>3. EvalType'
      BY <2>1, <2>2, KeepsTypes DEF EvalType
    <2>4. ThreadInv' /\ LeaveInv'
      BY <2>1, <2>2 DEF ThreadInv, LeaveInv, Gone, HasLeft
    <2>5. AccountInv'
      BY <2>1, <2>2 DEF AccountInv, AccountOf, Writing, ToLoad, Missing, Holders
    <2>. QED BY <2>3, <2>4, <2>5 DEF EInv
  <1>. QED BY <1>1, <1>2, <1>3, <1>4, <1>5, <1>6 DEF Next, Finished

(* Whatever runs and crashes, every sample a problem needs is in one place.   *)
THEOREM EvalInv == Spec => []EInv
  <1>1. Init => EInv
    BY InitEval
  <1>2. EInv /\ [Next]_vars => EInv'
    BY EvalStep
  <1>. QED BY <1>1, <1>2, PTL DEF Spec

(* When the dump thread has read a None of every thread, none is left to read, *)
(* so all have left, and nothing follows the last None.                        *)
LEMMA ExitIsLast ==
  ASSUME EInv, dump = "exit"
  PROVE  dumpq = <<>> /\ \A t \in Threads : th[t] = "done" /\ cur[t] = Idle
  <1>1. EvalType /\ LeaveInv
    BY DEF EInv
  <1>2. Gone \in SUBSET Threads /\ IsFiniteSet(Threads)
    BY EvalAssumption DEF Gone
  <1>3. Cardinality(Gone) <= Cardinality(Threads)
        /\ (Cardinality(Gone) = Cardinality(Threads) => Gone = Threads)
        /\ Cardinality(Gone) \in Nat /\ Cardinality(Threads) \in Nat
    BY <1>2, FS_Subset, FS_CardinalityType
  <1>4. PICK n : n = Done
    OBVIOUS
  <1>5. dumpq \in Seq(Data) /\ kills \in Nat
    BY <1>1 DEF EvalType, QueueType, DumpType
  <1>6. /\ Occurrences(dumpq, n) \in Nat
        /\ Occurrences(dumpq, n) = 0 <=> \A k \in DOMAIN dumpq : dumpq[k] # n
    BY <1>5, PlacesFinite
  <1>7. kills + Occurrences(dumpq, n) = Cardinality(Gone) /\ kills >= Cardinality(Threads)
    BY <1>1, <1>4 DEF LeaveInv
  <1>8. Occurrences(dumpq, n) = 0 /\ Gone = Threads
    BY <1>3, <1>5, <1>6, <1>7
  <1>9. dumpq = <<>>
    <2>1. dumpq = <<>> \/ dumpq[Len(dumpq)] = n
      BY <1>1, <1>4, <1>8 DEF LeaveInv
    <2>2. dumpq # <<>> => Len(dumpq) \in DOMAIN dumpq
      BY <1>5
    <2>. QED BY <1>6, <1>8, <2>1, <2>2
  <1>. QED BY <1>8, <1>9 DEF Gone, HasLeft

(* Every sample is accounted for, and the dump thread leaves last.            *)
THEOREM SamplesAreAccounted == Spec => []Accounted
  <1>1. EInv => Accounted
    <2>. SUFFICES ASSUME EInv PROVE Accounted
      OBVIOUS
    <2>1. ASSUME NEW p \in Problems
          PROVE  metrics[p] + (IF dump = "metrics" /\ sample = p THEN 1 ELSE 0)
                   + Occurrences(dumpq, p) + Cardinality({t \in Threads : cur[t] = p})
                   + Occurrences(dataq, p) + ToLoad(p) + failed[p] = Needed[p]
      BY <2>1 DEF EInv, AccountInv, AccountOf, Writing, Holders
    <2>. QED BY <2>1, ExitIsLast DEF Accounted
  <1>. QED BY <1>1, EvalInv, PTL

-----------------------------------------------------------------------------
(* The trajectory file. *)

Half(p) == IF dump = "traj" /\ sample = p THEN 1 ELSE 0
HitBy(h, n, p) == Cardinality({c \in 1..n : h[c] = p})
Ahead(h) == \A p \in Problems : metrics[p] - trajs[p] = Half(p) + HitBy(h, crashes, p)
Hits(n) == [1..n -> Problems \cup {Idle}]

(* The property with the hits of the crashes named. *)
LEMMA FollowsByHits == TrajectoriesFollow <=> \E h \in Hits(crashes) : Ahead(h)
  BY DEF TrajectoriesFollow, Half, HitBy, Ahead, Hits

Hit(h, n, x) == [c \in 1..(n + 1) |-> IF c = n + 1 THEN x ELSE h[c]]

(* One more crash is counted for the problem it hits. *)
LEMMA OneMoreHit ==
  ASSUME NEW n \in Nat, NEW h, NEW x, NEW p
  PROVE  HitBy(Hit(h, n, x), n + 1, p) = HitBy(h, n, p) + (IF x = p THEN 1 ELSE 0)
  <1>. DEFINE g == Hit(h, n, x)
  <1>0. (\A c \in 1..n : g[c] = h[c]) /\ g[n + 1] = x
    BY DEF Hit
  <1>. HIDE DEF g
  <1>. DEFINE D == {c \in 1..n : h[c] = p}
  <1>1. D \in SUBSET (1..n) /\ IsFiniteSet(1..n)
    BY FS_Interval
  <1>2. IsFiniteSet(D) /\ Cardinality(D) \in Nat
    BY <1>1, FS_Subset, FS_CardinalityType
  <1>3. {c \in 1..(n + 1) : g[c] = p} = IF g[n + 1] = p THEN D \cup {n + 1} ELSE D
    <2>1. 1..(n + 1) = (1..n) \cup {n + 1}
      OBVIOUS
    <2>. QED BY <1>0, <2>1
  <1>4. n + 1 \notin D
    OBVIOUS
  <1>5. HitBy(h, n, p) = Cardinality(D)
    BY DEF HitBy
  <1>. HIDE DEF D
  <1>6. Cardinality(D \cup {n + 1}) = Cardinality(D) + 1
    BY <1>2, <1>4, FS_AddElement
  <1>7. HitBy(g, n + 1, p) = Cardinality(IF g[n + 1] = p THEN D \cup {n + 1} ELSE D)
    BY <1>3 DEF HitBy
  <1>8. HitBy(g, n + 1, p) = HitBy(h, n, p) + (IF x = p THEN 1 ELSE 0)
    <2>1. CASE x = p
      BY <1>0, <1>2, <1>5, <1>6, <1>7, <2>1
    <2>2. CASE x # p
      BY <1>0, <1>2, <1>5, <1>7, <2>2
    <2>. QED BY <2>1, <2>2
  <1>. QED BY <1>8 DEF g

(* A problem is hit a number of times. *)
LEMMA HitByType ==
  ASSUME NEW n \in Nat, NEW h, NEW p
  PROVE  HitBy(h, n, p) \in Nat
  <1>1. {c \in 1..n : h[c] = p} \in SUBSET (1..n) /\ IsFiniteSet(1..n)
    BY FS_Interval
  <1>. QED BY <1>1, FS_Subset, FS_CardinalityType DEF HitBy

(* Between crashes, the two files and the dump thread move together.          *)
LEMMA SameHits ==
  ASSUME EvalType, TrajectoriesFollow, crashes' = crashes,
         \A p \in Problems : /\ metrics'[p] \in Nat /\ trajs'[p] \in Nat
                             /\ metrics'[p] - trajs'[p] - Half(p)' = metrics[p] - trajs[p] - Half(p)
  PROVE  TrajectoriesFollow'
  <1>1. PICK h \in Hits(crashes) : Ahead(h)
    BY FollowsByHits
  <1>2. \A p \in Problems : Half(p) \in Nat /\ Half(p)' \in Nat
    BY DEF Half
  <1>3. \A p \in Problems : metrics'[p] - trajs'[p] = Half(p)' + HitBy(h, crashes, p)
    <2>. SUFFICES ASSUME NEW p \in Problems
                  PROVE  metrics'[p] - trajs'[p] = Half(p)' + HitBy(h, crashes, p)
      OBVIOUS
    <2>1. metrics[p] - trajs[p] = Half(p) + HitBy(h, crashes, p)
      BY <1>1 DEF Ahead
    <2>2. HitBy(h, crashes, p) \in Nat
      BY HitByType DEF EvalType, LineType
    <2>3. metrics[p] \in Nat /\ trajs[p] \in Nat
      BY PlaceTypes
    <2>4. /\ metrics'[p] \in Nat /\ trajs'[p] \in Nat
          /\ metrics'[p] - trajs'[p] - Half(p)' = metrics[p] - trajs[p] - Half(p)
      OBVIOUS
    <2>. QED BY <1>2, <2>1, <2>2, <2>3, <2>4
  <1>. QED BY <1>1, <1>3 DEF TrajectoriesFollow, Half, HitBy, Hits

(* A crash between the two lines hits the problem of the sample. *)
LEMMA CrashHits ==
  ASSUME EvalType, TrajectoriesFollow, Crash
  PROVE  TrajectoriesFollow'
  <1>1. PICK h \in Hits(crashes) : Ahead(h)
    BY FollowsByHits
  <1>2. metrics' = metrics /\ trajs' = trajs /\ crashes' = crashes + 1 /\ dump' = "get"
    BY DEF Crash, files, Fresh
  <1>3. crashes \in Nat /\ (dump = "traj" => sample \in Problems)
    BY DEF EvalType, LineType, DumpType
  <1>4. PICK x : x = IF dump = "traj" THEN sample ELSE Idle
    OBVIOUS
  <1>5. PICK g : g = Hit(h, crashes, x)
    OBVIOUS
  <1>6. g \in Hits(crashes')
    <2>1. \A c \in 1..(crashes + 1) : c = crashes + 1 \/ c \in 1..crashes
      BY <1>3
    <2>. QED BY <1>1, <1>2, <1>3, <1>4, <1>5, <2>1 DEF Hits, Hit
  <1>7. ASSUME NEW p \in Problems
        PROVE  metrics'[p] - trajs'[p] = Half(p)' + HitBy(g, crashes', p)
    <2>1. metrics[p] - trajs[p] = Half(p) + HitBy(h, crashes, p)
      BY <1>1, <1>7 DEF Ahead
    <2>2. HitBy(g, crashes + 1, p) = HitBy(h, crashes, p) + (IF x = p THEN 1 ELSE 0)
      BY <1>3, <1>5, OneMoreHit
    <2>5. HitBy(h, crashes, p) \in Nat
      BY <1>3, HitByType
    <2>3. Half(p) = (IF x = p THEN 1 ELSE 0) /\ Half(p)' = 0
      BY <1>2, <1>4, <1>7, DataFacts DEF Half
    <2>4. metrics[p] \in Nat /\ trajs[p] \in Nat
      BY <1>7, PlaceTypes
    <2>. QED BY <1>2, <2>1, <2>2, <2>3, <2>4, <2>5
  <1>. QED BY <1>6, <1>7 DEF TrajectoriesFollow, Half, HitBy, Hits

(* Each step keeps the trajectories behind the lines but for the hits. *)
LEMMA FollowsStep ==
  ASSUME EInv, TrajectoriesFollow, [Next]_vars
  PROVE  TrajectoriesFollow'
  <1>1. EvalType /\ EInv'
    BY EvalStep DEF EInv
  <1>2. \A p \in Problems : metrics[p] \in Nat /\ trajs[p] \in Nat
                            /\ metrics'[p] \in Nat /\ trajs'[p] \in Nat
    BY <1>1 DEF EInv, EvalType, LineType
  <1>3. CASE UNCHANGED <<metrics, trajs, crashes, dump, sample>>
    BY <1>1, <1>2, <1>3, SameHits DEF Half
  <1>4. CASE DumpGet
    <2>1. UNCHANGED <<metrics, trajs, crashes>> /\ dump # "traj" /\ dump' # "traj"
      BY <1>4 DEF DumpGet, files
    <2>. QED BY <1>1, <1>2, <2>1, SameHits DEF Half
  <1>5. CASE DumpLine
    <2>1. /\ crashes' = crashes
          /\ \/ /\ dump = "metrics" /\ dump' = "traj" /\ UNCHANGED <<trajs, sample>>
                /\ metrics' = [metrics EXCEPT ![sample] = @ + 1]
             \/ /\ dump = "traj" /\ dump' = "get" /\ UNCHANGED metrics
                /\ trajs' = [trajs EXCEPT ![sample] = @ + 1]
      BY <1>5 DEF DumpLine
    <2>2. /\ metrics \in [Problems -> Nat] /\ trajs \in [Problems -> Nat] /\ sample \in Problems
      BY <1>1, <2>1 DEF EvalType, LineType, DumpType
    <2>3. ASSUME NEW p \in Problems
          PROVE  metrics'[p] - trajs'[p] - Half(p)' = metrics[p] - trajs[p] - Half(p)
      <3>1. CASE dump = "metrics"
        BY <2>1, <2>2, <2>3, <3>1 DEF Half
      <3>2. CASE dump = "traj"
        BY <2>1, <2>2, <2>3, <3>2 DEF Half
      <3>. QED BY <2>1, <3>1, <3>2
    <2>. QED BY <1>1, <1>2, <2>1, <2>3, SameHits
  <1>6. CASE Crash
    BY <1>1, <1>6, CrashHits
  <1>7. CASE Load
    BY <1>3, <1>7 DEF Load, LoadPut, LoadNext, LoadDone, files, dumping
  <1>8. CASE MainThread
    BY <1>3, <1>8 DEF MainThread, files, dumping
  <1>9. ASSUME NEW t \in Threads, Rollout(t) PROVE TrajectoriesFollow'
    <2>1. UNCHANGED <<metrics, trajs, crashes, dump, sample>>
      BY <1>9 DEF Rollout, GetDatum, Leave, CallGenerate, PutPacket, Succeed, Raise, files, dumping
    <2>. QED BY <1>3, <2>1
  <1>10. CASE UNCHANGED vars
    BY <1>3, <1>10 DEF vars, files, dumping
  <1>. QED BY <1>4, <1>5, <1>6, <1>7, <1>8, <1>9, <1>10 DEF Next, Dump, Finished

(* A trajectory follows its line, but for one by each crash between the two.  *)
THEOREM TrajectoriesFollowLines == Spec => []TrajectoriesFollow
  <1>1. Init => TrajectoriesFollow
    <2>. SUFFICES ASSUME Init PROVE TrajectoriesFollow
      OBVIOUS
    <2>1. metrics = NoLines /\ trajs = NoLines /\ crashes = 0 /\ dump = "get"
      BY DEF Init, Fresh
    <2>2. PICK h : h = [c \in 1..crashes |-> Idle]
      OBVIOUS
    <2>3. h \in Hits(crashes)
      BY <2>2 DEF Hits
    <2>4. \A p : {c \in 1..crashes : h[c] = p} = {}
      BY <2>1
    <2>5. \A p : HitBy(h, crashes, p) = 0
      BY <2>4, FS_EmptySet DEF HitBy
    <2>6. Ahead(h)
      BY <2>1, <2>5 DEF Ahead, Half, NoLines
    <2>. QED BY <2>3, <2>6, FollowsByHits
  <1>2. EInv /\ TrajectoriesFollow /\ [Next]_vars => TrajectoriesFollow'
    BY FollowsStep
  <1>. QED BY <1>1, <1>2, EvalInv, PTL DEF Spec

-----------------------------------------------------------------------------
(* Occurrences in what a queue becomes. *)

(* A sequence after another one. *)
LEMMA CountConcat ==
  ASSUME NEW T, NEW s \in Seq(T), NEW t \in Seq(T), NEW x
  PROVE  Occurrences(s \o t, x) = Occurrences(s, x) + Occurrences(t, x)
  <1>. DEFINE D == {k \in DOMAIN s : s[k] = x}
              E == {k \in DOMAIN t : t[k] = x}
              n == Len(s)
              m == Len(t)
              u == s \o t
              U == {k \in DOMAIN u : u[k] = x}
              f == [k \in E |-> k + n]
              G == {k + n : k \in E}
  <1>1. /\ n \in Nat /\ m \in Nat /\ DOMAIN s = 1..n /\ DOMAIN t = 1..m /\ u \in Seq(T)
        /\ DOMAIN u = 1..(n + m)
        /\ \A k \in 1..(n + m) : u[k] = IF k <= n THEN s[k] ELSE t[k - n]
    <2>1. /\ n \in Nat /\ m \in Nat /\ DOMAIN s = 1..n /\ DOMAIN t = 1..m
      OBVIOUS
    <2>2. /\ u \in Seq(T) /\ Len(u) = n + m
          /\ \A k \in 1..(n + m) : u[k] = IF k <= n THEN s[k] ELSE t[k - n]
      BY ConcatProperties
    <2>. HIDE DEF u, n, m
    <2>3. DOMAIN u = 1..(n + m)
      BY <2>2
    <2>. QED BY <2>1, <2>2, <2>3
  <1>2. /\ IsFiniteSet(D) /\ IsFiniteSet(E) /\ Cardinality(D) \in Nat /\ Cardinality(E) \in Nat
        /\ Occurrences(s, x) = Cardinality(D) /\ Occurrences(t, x) = Cardinality(E)
        /\ Occurrences(u, x) = Cardinality(U)
    BY PlacesFinite DEF Occurrences
  <1>. HIDE DEF u, n, m
  <1>3. U = D \cup G /\ D \cap G = {}
    <2>1. ASSUME NEW k \in U PROVE k \in D \/ k \in G
      <3>1. k \in 1..(n + m) /\ u[k] = x
        BY <1>1
      <3>2. CASE k <= n
        BY <1>1, <3>1, <3>2
      <3>3. CASE ~(k <= n)
        <4>1. k - n \in 1..m /\ k = (k - n) + n
          BY <1>1, <3>1, <3>3
        <4>2. k - n \in E
          BY <1>1, <3>1, <3>3, <4>1
        <4>. QED BY <4>1, <4>2
      <3>. QED BY <3>2, <3>3
    <2>2. ASSUME NEW k \in D PROVE k \in U /\ k <= n
      BY <1>1
    <2>3. ASSUME NEW k \in E PROVE k + n \in U /\ ~(k + n <= n)
      <3>1. k + n \in 1..(n + m) /\ ~(k + n <= n) /\ (k + n) - n = k
        BY <1>1
      <3>. QED BY <1>1, <3>1
    <2>. QED BY <2>1, <2>2, <2>3
  <1>4. f \in Bijection(E, G)
    <2>1. \A k \in E : k \in Int
      BY <1>1
    <2>. HIDE DEF E
    <2>2. f \in [E -> G]
      OBVIOUS
    <2>3. \A a, b \in E : f[a] = f[b] => a = b
      BY <1>1, <2>1
    <2>4. \A k \in G : \E a \in E : f[a] = k
      OBVIOUS
    <2>. HIDE DEF f, G
    <2>. QED BY <2>2, <2>3, <2>4 DEF Bijection, Injection, Surjection, IsInjective
  <1>5. IsFiniteSet(G) /\ Cardinality(G) = Cardinality(E)
    <2>1. ExistsBijection(E, G)
      BY <1>4 DEF ExistsBijection
    <2>. HIDE DEF E, G
    <2>. QED BY <1>2, <2>1, FS_Bijection
  <1>. HIDE DEF D, E, G, U
  <1>6. Cardinality(D \cup G) = Cardinality(D) + Cardinality(G) - Cardinality(D \cap G)
    BY <1>2, <1>5, FS_Union
  <1>7. Cardinality(D \cap G) = 0
    BY <1>3, FS_EmptySet
  <1>8. Occurrences(u, x) = Occurrences(s, x) + Occurrences(t, x)
    BY <1>2, <1>3, <1>5, <1>6, <1>7
  <1>. QED BY <1>8 DEF u

(* What leaves a queue is one occurrence of the object, if there is any. *)
LEMMA CountWithout ==
  ASSUME NEW T, NEW s \in Seq(T), NEW x
  PROVE  /\ Without(s, x) \in Seq(T)
         /\ \A y : y # x => Occurrences(Without(s, x), y) = Occurrences(s, y)
         /\ Occurrences(s, x) = 0 => Without(s, x) = s
         /\ (\E k \in DOMAIN s : s[k] = x) => Len(Without(s, x)) = Len(s) - 1
  <1>1. CASE ~ \E k \in DOMAIN s : s[k] = x
    BY <1>1 DEF Without
  <1>2. CASE \E k \in DOMAIN s : s[k] = x
    <2>. DEFINE a == CHOOSE k \in DOMAIN s : s[k] = x
                n == Len(s)
                t == [k \in 1..(n - 1) |-> IF k < a THEN s[k] ELSE s[k + 1]]
    <2>1. a \in DOMAIN s /\ s[a] = x
      BY <1>2
    <2>2. Without(s, x) = t
      BY <1>2 DEF Without
    <2>3. n \in Nat \ {0} /\ DOMAIN s = 1..n /\ a \in 1..n
      BY <2>1
    <2>. HIDE DEF a, n
    <2>4. \A k \in 1..(n - 1) : k \in 1..n /\ k + 1 \in 1..n
      BY <2>3
    <2>5. \A k \in 1..(n - 1) : t[k] = IF k < a THEN s[k] ELSE s[k + 1]
      OBVIOUS
    <2>6. \A k \in 1..(n - 1) : t[k] \in T
      BY <2>3, <2>4
    <2>7. t \in Seq(T) /\ Len(t) = n - 1 /\ DOMAIN t = 1..(n - 1)
      BY <2>3, <2>6
    <2>. HIDE DEF t
    <2>8. ASSUME NEW y, y # x PROVE Occurrences(t, y) = Occurrences(s, y)
      <3>. DEFINE D == {k \in DOMAIN s : s[k] = y}
                  E == {k \in DOMAIN t : t[k] = y}
                  f == [k \in E |-> IF k < a THEN k ELSE k + 1]
      <3>1. IsFiniteSet(D) /\ IsFiniteSet(E)
        BY <2>7, PlacesFinite
      <3>2. \A k \in E : /\ k \in Int /\ f[k] \in D /\ f[k] = IF k < a THEN k ELSE k + 1
        BY <2>3, <2>4, <2>5, <2>7
      <3>3. ASSUME NEW j \in D PROVE \E k \in E : f[k] = j
        <4>1. j \in 1..n /\ s[j] = y /\ j # a
          BY <2>1, <2>3, <2>8
        <4>2. CASE j < a
          <5>1. j \in 1..(n - 1)
            BY <2>3, <4>1, <4>2
          <5>2. j \in E
            BY <2>5, <2>7, <4>1, <4>2, <5>1
          <5>. QED BY <4>2, <5>2
        <4>3. CASE ~(j < a)
          <5>1. j - 1 \in 1..(n - 1) /\ ~(j - 1 < a) /\ (j - 1) + 1 = j
            BY <2>3, <4>1, <4>3
          <5>2. j - 1 \in E
            BY <2>5, <2>7, <4>1, <5>1
          <5>. QED BY <5>1, <5>2
        <4>. QED BY <4>2, <4>3
      <3>. HIDE DEF D, E
      <3>4. f \in [E -> D]
        BY <3>2
      <3>5. \A j, k \in E : f[j] = f[k] => j = k
        BY <2>3, <3>2
      <3>. HIDE DEF f
      <3>6. f \in Bijection(E, D)
        BY <3>3, <3>4, <3>5 DEF Bijection, Injection, Surjection, IsInjective
      <3>7. Cardinality(E) = Cardinality(D)
        <4>1. ExistsBijection(E, D)
          BY <3>6 DEF ExistsBijection
        <4>. QED BY <3>1, <4>1, FS_Bijection
      <3>. QED BY <3>7 DEF Occurrences, D, E
    <2>9. Occurrences(s, x) # 0
      BY <2>1, PlacesFinite
    <2>10. Len(Without(s, x)) = Len(s) - 1
      BY <2>2, <2>7 DEF n
    <2>. QED BY <2>2, <2>7, <2>8, <2>9, <2>10
  <1>. QED BY <1>1, <1>2

-----------------------------------------------------------------------------
(***************************************************************************)
(* The calls of generate(): a thread_id is given once, to one rank; what   *)
(* is on the way to the generator of a rank, or was chosen by another      *)
(* rank, was given and put.                                                *)
(***************************************************************************)
Objects == Nat \cup {Nil}
Outcome0 == {Packet(x) : x \in Nat} \cup {Handover, Stop}
Decided == [what : Outcome0, fed : Nat]

IdOf(c, r) == c * TpSize + r
OnTheWay(r, x) == Occurrences(tpq[r], x) + Occurrences(packets[r], x) + Occurrences(pend[r], x)
Unused(x) == \A r \in Ranks : /\ OnTheWay(r, x) = 0
                              /\ \A k \in DOMAIN outs[r] : outs[r][k].what # Packet(x)
Calling(t) == th[t] \in {"put", "wait"}

CallType ==
  /\ th \in [Threads -> {"free", "put", "wait", "done"}] /\ ticket \in [Threads -> Objects]
  /\ calls \in [Ranks -> Nat] /\ futures \in [Ranks -> SUBSET Nat]
  /\ tpq \in [Ranks -> Seq(Objects)] /\ packets \in [Ranks -> Seq(Objects)]
  /\ pend \in [Ranks -> Seq(Objects)] /\ outs \in [Ranks -> Seq(Decided)]
  /\ fed \in [Ranks -> Nat]

FutureInv == \A r \in Ranks : \A x \in futures[r] : \E c \in Nat : c < calls[r] /\ x = IdOf(c, r)
FreshInv == \A s \in Ranks : \A c \in Nat : c >= calls[s] => Unused(IdOf(c, s))
CallerInv ==
  \A t \in Threads : Calling(t) =>
    /\ ticket[t] \in futures[Home[t]]
    /\ th[t] = "put" => Unused(ticket[t])
    /\ th[t] = "wait" => OnTheWay(Home[t], ticket[t]) = 1
    /\ \A u \in Threads \ {t} : Calling(u) => ticket[u] # ticket[t]

CallInv == CallType /\ FutureInv /\ FreshInv /\ CallerInv

(* A thread_id is of one call of one rank. *)
LEMMA IdUnique ==
  ASSUME NEW c \in Nat, NEW d \in Nat, NEW r \in Ranks, NEW s \in Ranks
  PROVE  IdOf(c, r) \in Nat /\ (IdOf(c, r) = IdOf(d, s) => c = d /\ r = s)
  <1>1. TpSize \in Nat \ {0} /\ r \in 0..(TpSize - 1) /\ s \in 0..(TpSize - 1)
    BY ImpGenAssumption DEF Ranks
  <1>2. \A a, b, x, y \in Nat : a < b /\ x < TpSize => a * TpSize + x < b * TpSize + y
    <2>. SUFFICES ASSUME NEW a \in Nat, NEW b \in Nat, NEW x \in Nat, NEW y \in Nat, a < b, x < TpSize
                  PROVE  a * TpSize + x < b * TpSize + y
      OBVIOUS
    <2>1. PICK e \in Nat : b = a + 1 + e
      <3>1. b - a - 1 \in Nat /\ b = a + 1 + (b - a - 1)
        OBVIOUS
      <3>. QED BY <3>1
    <2>2. b * TpSize = a * TpSize + TpSize + e * TpSize
      BY <1>1, <2>1
    <2>3. e * TpSize \in Nat /\ a * TpSize \in Nat
      BY <1>1
    <2>. QED BY <1>1, <2>2, <2>3
  <1>3. c * TpSize \in Nat /\ d * TpSize \in Nat
    BY <1>1
  <1>4. c < d \/ d < c \/ c = d
    OBVIOUS
  <1>5. r \in Nat /\ s \in Nat /\ r < TpSize /\ s < TpSize
    BY <1>1
  <1>6. c < d => c * TpSize + r < d * TpSize + s
    BY <1>2, <1>5
  <1>7. d < c => d * TpSize + s < c * TpSize + r
    BY <1>2, <1>5
  <1>. QED BY <1>3, <1>4, <1>5, <1>6, <1>7 DEF IdOf

(* The queues of a rank, and how often an object is in them. *)
LEMMA CallFacts ==
  ASSUME CallType, NEW r \in Ranks
  PROVE  /\ tpq[r] \in Seq(Objects) /\ packets[r] \in Seq(Objects) /\ pend[r] \in Seq(Objects)
         /\ \A x : /\ Occurrences(tpq[r], x) \in Nat /\ Occurrences(packets[r], x) \in Nat
                   /\ Occurrences(pend[r], x) \in Nat /\ OnTheWay(r, x) \in Nat
         /\ futures[r] \subseteq Nat /\ calls[r] \in Nat /\ outs[r] \in Seq(Decided)
  <1>1. /\ tpq[r] \in Seq(Objects) /\ packets[r] \in Seq(Objects) /\ pend[r] \in Seq(Objects)
        /\ futures[r] \subseteq Nat /\ calls[r] \in Nat /\ outs[r] \in Seq(Decided)
    BY DEF CallType
  <1>2. \A x : /\ Occurrences(tpq[r], x) \in Nat /\ Occurrences(packets[r], x) \in Nat
               /\ Occurrences(pend[r], x) \in Nat
    BY <1>1, PlacesFinite
  <1>. QED BY <1>1, <1>2 DEF OnTheWay

(* A number on the way or chosen is not the None that ends a queue. *)
LEMMA NumbersAreNotNil == Nil \notin Nat /\ Nil \in Objects
  BY DEF Nil, Objects

(* The threads and the thread_ids stay, and so does what is on the way. *)
LEMMA QueuesKept ==
  ASSUME CallInv, CallType', UNCHANGED <<th, ticket, calls, futures, outs>>,
         \A r \in Ranks, x \in Nat : OnTheWay(r, x)' = OnTheWay(r, x)
  PROVE  CallInv'
  <1>0. CallType /\ FutureInv /\ FreshInv /\ CallerInv
    BY DEF CallInv
  <1>1. FutureInv'
    BY <1>0 DEF FutureInv
  <1>2. \A x \in Nat : Unused(x)' <=> Unused(x)
    BY DEF Unused
  <1>3. FreshInv'
    <2>1. ASSUME NEW s \in Ranks, NEW c \in Nat, c >= calls[s] PROVE Unused(IdOf(c, s))'
      <3>1. IdOf(c, s) \in Nat
        BY <2>1, IdUnique
      <3>2. Unused(IdOf(c, s))
        BY <1>0, <2>1 DEF FreshInv
      <3>. QED BY <1>2, <3>1, <3>2
    <2>. QED BY <2>1 DEF FreshInv
  <1>4. CallerInv'
    <2>. SUFFICES ASSUME NEW t \in Threads, Calling(t)'
                  PROVE  (/\ ticket[t] \in futures[Home[t]]
                          /\ th[t] = "put" => Unused(ticket[t])
                          /\ th[t] = "wait" => OnTheWay(Home[t], ticket[t]) = 1
                          /\ \A u \in Threads \ {t} : Calling(u) => ticket[u] # ticket[t])'
      BY DEF CallerInv
    <2>1. /\ ticket[t] \in futures[Home[t]]
          /\ th[t] = "put" => Unused(ticket[t])
          /\ th[t] = "wait" => OnTheWay(Home[t], ticket[t]) = 1
          /\ \A u \in Threads \ {t} : Calling(u) => ticket[u] # ticket[t]
      BY <1>0 DEF CallerInv, Calling
    <2>2. PICK x : x = ticket[t]
      OBVIOUS
    <2>3. Home[t] \in Ranks
      BY ImpGenAssumption DEF Ranks
    <2>4. x \in Nat
      BY <1>0, <2>1, <2>2, <2>3, CallFacts
    <2>5. ticket'[t] = x
      BY <2>2
    <2>. QED BY <1>2, <2>1, <2>2, <2>3, <2>4, <2>5 DEF Calling
  <1>. QED BY <1>1, <1>3, <1>4 DEF CallInv

(* The steps of the threads outside generate(). *)
LEMMA CallersKept ==
  ASSUME CallInv, UNCHANGED <<ticket, calls, futures, tpq, packets, pend, outs, fed>>,
         th' \in [Threads -> {"free", "put", "wait", "done"}],
         \A t \in Threads : th'[t] = th[t] \/ (th[t] = "free" /\ th'[t] = "done")
  PROVE  CallInv'
  <1>0. CallType /\ FutureInv /\ FreshInv /\ CallerInv
    BY DEF CallInv
  <1>1. CallType' /\ FutureInv'
    BY <1>0 DEF CallType, FutureInv
  <1>2. \A x : Unused(x)' = Unused(x) /\ \A r : OnTheWay(r, x)' = OnTheWay(r, x)
    BY DEF Unused, OnTheWay
  <1>3. FreshInv'
    BY <1>0, <1>2 DEF FreshInv
  <1>4. \A t \in Threads : Calling(t)' => Calling(t) /\ th'[t] = th[t]
    BY DEF Calling
  <1>5. CallerInv'
    BY <1>0, <1>2, <1>4 DEF CallerInv
  <1>. QED BY <1>1, <1>3, <1>5 DEF CallInv

(* What a thread registers is new everywhere. *)
LEMMA RegisterCalls ==
  ASSUME CallInv, NEW t \in Threads, Register(t)
  PROVE  CallInv'
  <1>0. CallType /\ FutureInv /\ FreshInv /\ CallerInv
    BY DEF CallInv
  <1>1. PICK r \in Ranks : r = Home[t]
    BY ImpGenAssumption DEF Ranks
  <1>2. PICK c \in Nat : c = calls[r]
    BY <1>0, <1>1, CallFacts
  <1>3. PICK x : x = IdOf(c, r)
    OBVIOUS
  <1>4. x \in Nat
    BY <1>3, IdUnique
  <1>5. x = ThreadId(r)
    BY <1>2, <1>3 DEF ThreadId, IdOf
  <1>6. /\ th[t] = "free" /\ th' = [th EXCEPT ![t] = "put"] /\ ticket' = [ticket EXCEPT ![t] = x]
        /\ calls' = [calls EXCEPT ![r] = @ + 1] /\ futures' = [futures EXCEPT ![r] = @ \cup {x}]
        /\ UNCHANGED <<tpq, packets, pend, outs, fed>>
    BY <1>1, <1>5 DEF Register, mainVars
  <1>7. CallType'
    <2>1. th' \in [Threads -> {"free", "put", "wait", "done"}] /\ ticket' \in [Threads -> Objects]
      BY <1>0, <1>4, <1>6 DEF CallType, Objects
    <2>2. calls' \in [Ranks -> Nat]
      BY <1>0, <1>6 DEF CallType
    <2>3. futures' \in [Ranks -> SUBSET Nat]
      BY <1>0, <1>4, <1>6 DEF CallType
    <2>. QED BY <1>0, <1>6, <2>1, <2>2, <2>3 DEF CallType
  <1>8. /\ calls'[r] = c + 1 /\ \A s \in Ranks : s # r => calls'[s] = calls[s]
        /\ futures'[r] = futures[r] \cup {x} /\ \A s \in Ranks : s # r => futures'[s] = futures[s]
        /\ \A s \in Ranks : calls[s] \in Nat
        /\ th'[t] = "put" /\ ticket'[t] = x
        /\ \A u \in Threads : u # t => th'[u] = th[u] /\ ticket'[u] = ticket[u]
    BY <1>0, <1>2, <1>6 DEF CallType
  <1>9. FutureInv'
    <2>. SUFFICES ASSUME NEW s \in Ranks, NEW y \in futures'[s]
                  PROVE  \E d \in Nat : d < calls'[s] /\ y = IdOf(d, s)
      BY DEF FutureInv, IdOf
    <2>1. CASE s = r /\ y = x
      BY <1>3, <1>8, <2>1
    <2>2. CASE ~(s = r /\ y = x)
      <3>1. PICK d \in Nat : d < calls[s] /\ y = IdOf(d, s)
        BY <1>0, <1>8, <2>2 DEF FutureInv
      <3>2. d < calls'[s]
        BY <1>2, <1>8, <3>1
      <3>. QED BY <3>1, <3>2
    <2>. QED BY <2>1, <2>2
  <1>10. \A y : (Unused(y)' <=> Unused(y)) /\ \A s : OnTheWay(s, y)' = OnTheWay(s, y)
    BY <1>6 DEF Unused, OnTheWay
  <1>11. FreshInv'
    <2>1. ASSUME NEW s \in Ranks, NEW d \in Nat, d >= calls'[s] PROVE Unused(IdOf(d, s))
      <3>1. d >= calls[s]
        BY <1>2, <1>8, <2>1
      <3>. QED BY <1>0, <3>1 DEF FreshInv
    <2>. QED BY <1>10, <2>1 DEF FreshInv, IdOf
  <1>12. Unused(x)
    <2>1. c >= calls[r]
      BY <1>2
    <2>. QED BY <1>0, <1>3, <2>1 DEF FreshInv
  <1>13. \A s \in Ranks : x \notin futures[s]
    <2>. SUFFICES ASSUME NEW s \in Ranks, x \in futures[s] PROVE FALSE
      OBVIOUS
    <2>1. PICK d \in Nat : d < calls[s] /\ x = IdOf(d, s)
      BY <1>0 DEF FutureInv
    <2>2. IdOf(c, r) = IdOf(d, s) => c = d /\ r = s
      BY IdUnique
    <2>3. c = d /\ r = s /\ c \in Nat
      BY <1>2, <1>3, <2>1, <2>2
    <2>4. calls[s] = c
      BY <1>2, <2>3
    <2>5. c < c
      BY <2>1, <2>3, <2>4
    <2>. QED BY <2>3, <2>5
  <1>14. \A u \in Threads \ {t} : Calling(u)' => Calling(u) /\ ticket[u] # x
    <2>. SUFFICES ASSUME NEW u \in Threads \ {t}, Calling(u)' PROVE Calling(u) /\ ticket[u] # x
      OBVIOUS
    <2>1. Calling(u)
      BY <1>8 DEF Calling
    <2>2. Home[u] \in Ranks
      BY ImpGenAssumption DEF Ranks
    <2>. QED BY <1>0, <1>13, <2>1, <2>2 DEF CallerInv
  <1>15. CallerInv'
    <2>. SUFFICES ASSUME NEW u \in Threads, Calling(u)'
                  PROVE  (/\ ticket[u] \in futures[Home[u]]
                          /\ th[u] = "put" => Unused(ticket[u])
                          /\ th[u] = "wait" => OnTheWay(Home[u], ticket[u]) = 1
                          /\ \A w \in Threads \ {u} : Calling(w) => ticket[w] # ticket[u])'
      BY DEF CallerInv
    <2>1. CASE u = t
      <3>1. \A w \in Threads \ {u} : Calling(w)' => ticket'[w] # x
        BY <1>8, <1>14, <2>1
      <3>2. (Unused(ticket[u]))'
        BY <1>8, <1>10, <1>12, <2>1
      <3>. QED BY <1>1, <1>8, <2>1, <3>1, <3>2
    <2>2. CASE u # t
      <3>1. Calling(u) /\ ticket[u] # x /\ th'[u] = th[u] /\ ticket'[u] = ticket[u]
        BY <1>8, <1>14, <2>2
      <3>2. /\ ticket[u] \in futures[Home[u]] /\ (th[u] = "put" => Unused(ticket[u]))
            /\ th[u] = "wait" => OnTheWay(Home[u], ticket[u]) = 1
            /\ \A w \in Threads \ {u} : Calling(w) => ticket[w] # ticket[u]
        BY <1>0, <3>1 DEF CallerInv
      <3>3. ticket[u] \in futures'[Home[u]]
        <4>1. Home[u] \in Ranks
          BY ImpGenAssumption DEF Ranks
        <4>2. \A s \in Ranks : futures[s] \subseteq futures'[s]
          BY <1>8
        <4>. QED BY <3>2, <4>1, <4>2
      <3>4. \A w \in Threads \ {u} : Calling(w)' => ticket'[w] # ticket[u]
        BY <1>8, <1>14, <3>1, <3>2
      <3>5. PICK y, h : y = ticket[u] /\ h = Home[u]
        OBVIOUS
      <3>6. ticket'[u] = y
        BY <3>1, <3>5
      <3>7. th'[u] = "put" => Unused(y)'
        BY <1>10, <3>1, <3>2, <3>5
      <3>8. th'[u] = "wait" => OnTheWay(h, y)' = 1
        BY <1>10, <3>1, <3>2, <3>5
      <3>. QED BY <3>3, <3>4, <3>5, <3>6, <3>7, <3>8
    <2>. QED BY <2>1, <2>2
  <1>. QED BY <1>7, <1>9, <1>11, <1>15 DEF CallInv

(* The packet is then on the way on every rank, once. *)
LEMMA PutCalls ==
  ASSUME CallInv, NEW t \in Threads, Put(t)
  PROVE  CallInv'
  <1>0. CallType /\ FutureInv /\ FreshInv /\ CallerInv
    BY DEF CallInv
  <1>1. PICK x : x = ticket[t]
    OBVIOUS
  <1>2. /\ th[t] = "put" /\ th' = [th EXCEPT ![t] = "wait"]
        /\ tpq' = [r \in Ranks |-> Append(tpq[r], x)]
        /\ UNCHANGED <<ticket, calls, futures, packets, pend, outs, fed>>
    BY <1>1 DEF Put, mainVars
  <1>3. Home[t] \in Ranks /\ x \in futures[Home[t]] /\ x \in Nat /\ Unused(x)
        /\ \A u \in Threads \ {t} : Calling(u) => ticket[u] # x
    <2>1. Home[t] \in Ranks
      BY ImpGenAssumption DEF Ranks
    <2>2. Calling(t)
      BY <1>2 DEF Calling
    <2>3. x \in futures[Home[t]] /\ Unused(x)
          /\ \A u \in Threads \ {t} : Calling(u) => ticket[u] # x
      BY <1>0, <1>1, <1>2, <2>2 DEF CallerInv
    <2>. QED BY <1>0, <2>1, <2>3, CallFacts
  <1>4. /\ th'[t] = "wait" /\ \A u \in Threads : u # t => th'[u] = th[u]
        /\ \A u \in Threads : Calling(u)' <=> Calling(u)
    BY <1>0, <1>2 DEF CallType, Calling
  <1>5. CallType'
    <2>1. th' \in [Threads -> {"free", "put", "wait", "done"}]
      BY <1>0, <1>2 DEF CallType
    <2>2. tpq' \in [Ranks -> Seq(Objects)]
      <3>1. x \in Objects /\ tpq \in [Ranks -> Seq(Objects)]
        BY <1>0, <1>3 DEF CallType, Objects
      <3>. QED BY <1>2, <3>1
    <2>. QED BY <1>0, <1>2, <2>1, <2>2 DEF CallType
  <1>6. FutureInv'
    BY <1>0, <1>2 DEF FutureInv
  <1>7. \A r \in Ranks : \A y : OnTheWay(r, y)' = OnTheWay(r, y) + (IF x = y THEN 1 ELSE 0)
    <2>. SUFFICES ASSUME NEW r \in Ranks, NEW y
                  PROVE  OnTheWay(r, y)' = OnTheWay(r, y) + (IF x = y THEN 1 ELSE 0)
      OBVIOUS
    <2>1. tpq[r] \in Seq(Objects) /\ x \in Objects
      BY <1>0, <1>3, CallFacts DEF Objects
    <2>2. Occurrences(Append(tpq[r], x), y) = Occurrences(tpq[r], y) + (IF x = y THEN 1 ELSE 0)
      BY <2>1, CountAppend
    <2>3. tpq'[r] = Append(tpq[r], x)
      BY <1>2
    <2>4. /\ Occurrences(tpq[r], y) \in Nat /\ Occurrences(packets[r], y) \in Nat
          /\ Occurrences(pend[r], y) \in Nat
      BY <1>0, CallFacts
    <2>5. OnTheWay(r, y)' = Occurrences(tpq'[r], y) + Occurrences(packets[r], y) + Occurrences(pend[r], y)
      BY <1>2 DEF OnTheWay
    <2>. QED BY <2>2, <2>3, <2>4, <2>5 DEF OnTheWay
  <1>8. \A y : y # x => /\ Unused(y)' <=> Unused(y)
                        /\ \A r \in Ranks : OnTheWay(r, y)' = OnTheWay(r, y)
    <2>1. \A y : y # x => \A r \in Ranks : OnTheWay(r, y)' = OnTheWay(r, y)
      BY <1>0, <1>7, CallFacts
    <2>. QED BY <1>2, <2>1 DEF Unused
  <1>9. FreshInv'
    <2>1. ASSUME NEW s \in Ranks, NEW c \in Nat, c >= calls[s] PROVE Unused(IdOf(c, s))'
      <3>1. PICK d \in Nat : d < calls[Home[t]] /\ x = IdOf(d, Home[t])
        BY <1>0, <1>3 DEF FutureInv
      <3>2. IdOf(c, s) # x
        <4>1. IdOf(d, Home[t]) = IdOf(c, s) => d = c /\ Home[t] = s
          BY <1>3, IdUnique
        <4>2. calls[Home[t]] \in Nat
          BY <1>0, <1>3, CallFacts
        <4>. QED BY <2>1, <3>1, <4>1, <4>2
      <3>3. Unused(IdOf(c, s))
        BY <1>0, <2>1 DEF FreshInv
      <3>. QED BY <1>8, <3>2, <3>3
    <2>. QED BY <1>2, <2>1 DEF FreshInv
  <1>10. CallerInv'
    <2>. SUFFICES ASSUME NEW u \in Threads, Calling(u)'
                  PROVE  (/\ ticket[u] \in futures[Home[u]]
                          /\ th[u] = "put" => Unused(ticket[u])
                          /\ th[u] = "wait" => OnTheWay(Home[u], ticket[u]) = 1
                          /\ \A w \in Threads \ {u} : Calling(w) => ticket[w] # ticket[u])'
      BY DEF CallerInv
    <2>1. PICK y : y = ticket[u] /\ y = ticket'[u]
      BY <1>2
    <2>2. Calling(u)
      BY <1>4
    <2>3. /\ y \in futures[Home[u]] /\ (th[u] = "put" => Unused(y))
          /\ th[u] = "wait" => OnTheWay(Home[u], y) = 1
          /\ \A w \in Threads \ {u} : Calling(w) => ticket[w] # y
      BY <1>0, <2>1, <2>2 DEF CallerInv
    <2>4. \A w \in Threads \ {u} : Calling(w)' => ticket'[w] # y
      BY <1>2, <1>4, <2>3
    <2>5. CASE u = t
      <3>1. PICK h \in Ranks : h = Home[u]
        BY <1>3, <2>5
      <3>2. OnTheWay(h, y) = 0 /\ x = y
        BY <1>1, <1>3, <2>1, <2>5 DEF Unused
      <3>3. OnTheWay(h, y)' = 1
        BY <1>7, <3>2
      <3>. QED BY <1>2, <1>4, <2>1, <2>3, <2>4, <2>5, <3>1, <3>3
    <2>6. CASE u # t
      <3>1. y # x /\ th'[u] = th[u]
        BY <1>3, <1>4, <2>1, <2>2, <2>6
      <3>2. PICK h \in Ranks : h = Home[u]
        BY ImpGenAssumption DEF Ranks
      <3>3. (Unused(y)' <=> Unused(y)) /\ OnTheWay(h, y)' = OnTheWay(h, y)
        BY <1>8, <3>1
      <3>4. th'[u] = "wait" => OnTheWay(h, y)' = 1
        BY <2>3, <3>1, <3>2, <3>3
      <3>. QED BY <1>2, <2>1, <2>3, <2>4, <3>1, <3>2, <3>3, <3>4
    <2>. QED BY <2>5, <2>6
  <1>. QED BY <1>5, <1>6, <1>9, <1>10 DEF CallInv

(* A rank takes an object of its queue, or feeds what it took. *)
LEMMA TakeCalls ==
  ASSUME CallInv, NEW r \in Ranks, tpq[r] # <<>>, Take(r)
  PROVE  CallInv'
  <1>0. CallType
    BY DEF CallInv
  <1>1. PICK h, q, p : h = Head(tpq[r]) /\ q = Tail(tpq[r]) /\ p = Append(packets[r], h)
    OBVIOUS
  <1>2. /\ packets' = [packets EXCEPT ![r] = p] /\ tpq' = [tpq EXCEPT ![r] = q]
        /\ UNCHANGED <<th, ticket, calls, futures, outs, pend, fed>>
    BY <1>1 DEF Take, threadVars
  <1>3. /\ tpq[r] \in Seq(Objects) /\ packets[r] \in Seq(Objects) /\ h \in Objects
        /\ q \in Seq(Objects) /\ p \in Seq(Objects)
    <2>1. tpq[r] \in Seq(Objects) /\ packets[r] \in Seq(Objects)
      BY <1>0, CallFacts
    <2>2. h \in Objects /\ q \in Seq(Objects)
      BY <1>1, <2>1, HeadTailProperties
    <2>. QED BY <1>1, <2>1, <2>2
  <1>4. /\ packets'[r] = p /\ tpq'[r] = q
        /\ \A s \in Ranks : s # r => packets'[s] = packets[s] /\ tpq'[s] = tpq[s]
    BY <1>0, <1>2 DEF CallType
  <1>5. CallType'
    BY <1>0, <1>2, <1>3 DEF CallType
  <1>6. ASSUME NEW s \in Ranks, NEW x \in Nat PROVE OnTheWay(s, x)' = OnTheWay(s, x)
    <2>1. CASE s # r
      BY <1>2, <1>4, <2>1 DEF OnTheWay
    <2>2. CASE s = r
      <3>1. Occurrences(q, x) = Occurrences(tpq[r], x) - (IF h = x THEN 1 ELSE 0)
        BY <1>1, <1>3, CountTail
      <3>2. Occurrences(p, x) = Occurrences(packets[r], x) + (IF h = x THEN 1 ELSE 0)
        BY <1>1, <1>3, CountAppend
      <3>3. /\ Occurrences(tpq[r], x) \in Nat /\ Occurrences(packets[r], x) \in Nat
            /\ Occurrences(pend[r], x) \in Nat
        BY <1>0, CallFacts
      <3>4. OnTheWay(r, x)' = Occurrences(q, x) + Occurrences(p, x) + Occurrences(pend[r], x)
        BY <1>2, <1>4 DEF OnTheWay
      <3>. QED BY <2>2, <3>1, <3>2, <3>3, <3>4 DEF OnTheWay
    <2>. QED BY <2>1, <2>2
  <1>. QED BY <1>2, <1>5, <1>6, QueuesKept

(* What a rank took is fed to the generator, and still on the way. *)
LEMMA SyncedCalls ==
  ASSUME CallInv, NEW r \in Ranks, Synced(r)
  PROVE  CallInv'
  <1>0. CallType
    BY DEF CallInv
  <1>1. PICK p, n : p = pend[r] \o packets[r] /\ n = fed[r] + Len(packets[r])
    OBVIOUS
  <1>2. /\ pend' = [pend EXCEPT ![r] = p] /\ packets' = [packets EXCEPT ![r] = <<>>]
        /\ fed' = [fed EXCEPT ![r] = n]
        /\ UNCHANGED <<th, ticket, calls, futures, outs, tpq>>
    BY <1>1 DEF Synced, threadVars
  <1>3. /\ pend[r] \in Seq(Objects) /\ packets[r] \in Seq(Objects) /\ p \in Seq(Objects) /\ n \in Nat
    <2>1. pend[r] \in Seq(Objects) /\ packets[r] \in Seq(Objects) /\ fed[r] \in Nat
      BY <1>0 DEF CallType
    <2>. QED BY <1>1, <2>1
  <1>4. /\ packets'[r] = <<>> /\ pend'[r] = p
        /\ \A s \in Ranks : s # r => packets'[s] = packets[s] /\ pend'[s] = pend[s]
    BY <1>0, <1>2 DEF CallType
  <1>5. CallType'
    BY <1>0, <1>2, <1>3 DEF CallType
  <1>6. ASSUME NEW s \in Ranks, NEW x \in Nat PROVE OnTheWay(s, x)' = OnTheWay(s, x)
    <2>1. CASE s # r
      BY <1>2, <1>4, <2>1 DEF OnTheWay
    <2>2. CASE s = r
      <3>1. Occurrences(p, x) = Occurrences(pend[r], x) + Occurrences(packets[r], x)
        BY <1>1, <1>3, CountConcat
      <3>2. Occurrences(<<>>, x) = 0
        <4>1. {k \in DOMAIN <<>> : <<>>[k] = x} = {}
          OBVIOUS
        <4>. QED BY <4>1, FS_EmptySet DEF Occurrences
      <3>3. /\ Occurrences(tpq[r], x) \in Nat /\ Occurrences(packets[r], x) \in Nat
            /\ Occurrences(pend[r], x) \in Nat
        BY <1>0, CallFacts
      <3>4. OnTheWay(r, x)' = Occurrences(tpq[r], x) + Occurrences(<<>>, x) + Occurrences(p, x)
        BY <1>2, <1>4 DEF OnTheWay
      <3>. QED BY <2>2, <3>1, <3>2, <3>3, <3>4 DEF OnTheWay
    <2>. QED BY <2>1, <2>2
  <1>. QED BY <1>2, <1>5, <1>6, QueuesKept

(* The None is no call. *)
LEMMA LoopCalls ==
  ASSUME CallInv, NEW r \in Ranks, Loop(r)
  PROVE  CallInv'
  <1>0. CallType
    BY DEF CallInv
  <1>1. /\ UNCHANGED <<th, ticket, calls, futures, outs, packets, pend, fed>>
        /\ \/ tpq' = tpq
           \/ tpq' = [s \in Ranks |-> IF PutsNone(r) THEN Append(tpq[s], Nil) ELSE tpq[s]]
    BY DEF Loop, threadVars
  <1>2. ASSUME NEW s \in Ranks
        PROVE  /\ tpq[s] \in Seq(Objects) /\ tpq'[s] \in Seq(Objects)
               /\ tpq'[s] = tpq[s] \/ tpq'[s] = Append(tpq[s], Nil)
    <2>1. tpq[s] \in Seq(Objects) /\ Nil \in Objects
      BY <1>0, CallFacts, NumbersAreNotNil
    <2>2. tpq'[s] = tpq[s] \/ tpq'[s] = Append(tpq[s], Nil)
      BY <1>1
    <2>. QED BY <2>1, <2>2
  <1>3. CallType'
    <2>1. tpq' = [s \in Ranks |-> tpq'[s]]
      BY <1>0, <1>1 DEF CallType
    <2>. QED BY <1>0, <1>1, <1>2, <2>1 DEF CallType
  <1>4. ASSUME NEW s \in Ranks, NEW x \in Nat PROVE OnTheWay(s, x)' = OnTheWay(s, x)
    <2>1. Occurrences(tpq'[s], x) = Occurrences(tpq[s], x)
      <3>1. tpq[s] \in Seq(Objects) /\ Nil \in Objects /\ Nil # x
        BY <1>0, CallFacts, NumbersAreNotNil
      <3>2. Occurrences(Append(tpq[s], Nil), x) = Occurrences(tpq[s], x) + (IF Nil = x THEN 1 ELSE 0)
        BY <3>1, CountAppend
      <3>3. Occurrences(tpq[s], x) \in Nat
        BY <1>0, CallFacts
      <3>4. CASE tpq'[s] = tpq[s]
        BY <3>4
      <3>5. CASE tpq'[s] = Append(tpq[s], Nil)
        BY <3>1, <3>2, <3>3, <3>5
      <3>. QED BY <1>2, <3>4, <3>5
    <2>. QED BY <1>1, <2>1 DEF OnTheWay
  <1>. QED BY <1>1, <1>3, <1>4, QueuesKept

(* What the generator yields was on the way, or another rank had it first. *)
LEMMA ChosenFacts ==
  ASSUME CallInv, NEW r \in Ranks, NEW o \in Outcomes(r) \cup {outs[r][k].what : k \in DOMAIN outs[r]},
         Outcome(r, o)
  PROVE  /\ o \in Outcome0 /\ outs' \in [Ranks -> Seq(Decided)]
         /\ o.kind = "packet" => o.id \in Nat /\ o = Packet(o.id) /\ ~Unused(o.id)
         /\ \A s \in Ranks : \A k \in DOMAIN outs'[s] :
              outs'[s][k].what = o \/ \E j \in DOMAIN outs[s] : outs'[s][k].what = outs[s][j].what
  <1>0. CallType
    BY DEF CallInv
  <1>1. \A s \in Ranks : outs[s] \in Seq(Decided) /\ fed[s] \in Nat
    BY <1>0 DEF CallType
  <1>2. CASE outs[r] # <<>>
    <2>1. PICK q, d, t : q = outs[r] /\ d = Head(q) /\ t = Tail(q)
      OBVIOUS
    <2>2. /\ q \in Seq(Decided) /\ d \in Decided /\ t \in Seq(Decided) /\ 1 \in DOMAIN q /\ d = q[1]
          /\ \A k \in DOMAIN t : k + 1 \in DOMAIN q /\ t[k] = q[k + 1]
      <3>1. q \in Seq(Decided) /\ q # <<>>
        BY <1>1, <1>2, <2>1
      <3>2. /\ Len(q) \in Nat \ {0} /\ DOMAIN q = 1..Len(q) /\ d = q[1] /\ t \in Seq(Decided)
            /\ DOMAIN t = 1..(Len(q) - 1) /\ \A k \in 1..(Len(q) - 1) : t[k] = q[k + 1]
        BY <2>1, <3>1, HeadTailProperties
      <3>3. 1 \in 1..Len(q) /\ \A k \in 1..(Len(q) - 1) : k + 1 \in 1..Len(q)
        BY <3>2
      <3>. QED BY <3>1, <3>2, <3>3
    <2>3. o = d.what /\ outs' = [outs EXCEPT ![r] = t]
      BY <1>2, <2>1 DEF Outcome
    <2>4. o \in Outcome0
      BY <2>2, <2>3 DEF Decided
    <2>5. outs' \in [Ranks -> Seq(Decided)] /\ outs'[r] = t
          /\ \A s \in Ranks : s # r => outs'[s] = outs[s]
      BY <1>0, <2>2, <2>3 DEF CallType
    <2>6. ASSUME NEW s \in Ranks, NEW k \in DOMAIN outs'[s]
          PROVE  \E j \in DOMAIN outs[s] : outs'[s][k].what = outs[s][j].what
      <3>1. CASE s = r
        <4>1. k \in DOMAIN t /\ outs'[s][k] = t[k]
          BY <2>5, <3>1
        <4>2. k + 1 \in DOMAIN outs[s] /\ outs'[s][k] = outs[s][k + 1]
          BY <2>1, <2>2, <3>1, <4>1
        <4>. QED BY <4>2
      <3>2. CASE s # r
        BY <2>5, <3>2
      <3>. QED BY <3>1, <3>2
    <2>7. ASSUME o.kind = "packet" PROVE o.id \in Nat /\ o = Packet(o.id) /\ ~Unused(o.id)
      <3>1. PICK x \in Nat : o = Packet(x)
        BY <2>4, <2>7 DEF Outcome0, Handover, Stop
      <3>2. o.id = x
        BY <3>1 DEF Packet
      <3>3. outs[r][1].what = Packet(x) /\ 1 \in DOMAIN outs[r]
        BY <2>1, <2>2, <2>3, <3>1
      <3>. QED BY <3>1, <3>2, <3>3 DEF Unused
    <2>. QED BY <2>4, <2>5, <2>6, <2>7
  <1>3. CASE outs[r] = <<>>
    <2>1. PICK d : d = [what |-> o, fed |-> fed[r]]
      OBVIOUS
    <2>2. /\ o \in Outcomes(r)
          /\ outs' = [s \in Ranks |-> IF s = r THEN outs[s] ELSE Append(outs[s], d)]
      BY <1>3, <2>1 DEF Outcome
    <2>3. ASSUME o.kind = "packet" PROVE o.id \in Nat /\ o = Packet(o.id) /\ ~Unused(o.id)
      <3>1. PICK x \in Requests(r) : o = Packet(x)
        BY <2>2, <2>3 DEF Outcomes, Handover, Stop
      <3>2. PICK k \in DOMAIN pend[r] : pend[r][k] = x /\ x # Nil
        BY DEF Requests
      <3>3. pend[r] \in Seq(Objects)
        BY <1>0, CallFacts
      <3>4. x \in Nat
        <4>1. x \in Objects
          BY <3>2, <3>3
        <4>. QED BY <3>2, <4>1 DEF Objects
      <3>5. Occurrences(pend[r], x) # 0
        BY <3>2, <3>3, PlacesFinite
      <3>6. OnTheWay(r, x) # 0
        <4>1. /\ Occurrences(tpq[r], x) \in Nat /\ Occurrences(packets[r], x) \in Nat
              /\ Occurrences(pend[r], x) \in Nat
          BY <1>0, CallFacts
        <4>. QED BY <3>5, <4>1 DEF OnTheWay
      <3>7. o.id = x
        BY <3>1 DEF Packet
      <3>. QED BY <3>1, <3>4, <3>6, <3>7 DEF Unused
    <2>4. o \in Outcome0
      <3>1. CASE o.kind = "packet"
        BY <2>3, <3>1 DEF Outcome0
      <3>2. CASE o.kind # "packet"
        BY <2>2, <3>2 DEF Outcomes, Outcome0, Packet
      <3>. QED BY <3>1, <3>2
    <2>5. d \in Decided /\ d.what = o
      BY <1>1, <2>1, <2>4 DEF Decided
    <2>6. \A s \in Ranks : outs'[s] = outs[s] \/ outs'[s] = Append(outs[s], d)
      BY <2>2
    <2>7. ASSUME NEW s \in Ranks
          PROVE  /\ outs'[s] \in Seq(Decided)
                 /\ \A k \in DOMAIN outs'[s] :
                      outs'[s][k].what = o \/ \E j \in DOMAIN outs[s] : outs'[s][k].what = outs[s][j].what
      <3>1. PICK q, u : q = outs[s] /\ u = outs'[s]
        OBVIOUS
      <3>2. q \in Seq(Decided) /\ (u = q \/ u = Append(q, d))
        BY <1>1, <2>6, <3>1
      <3>3. CASE u = q
        BY <3>1, <3>2, <3>3
      <3>4. CASE u = Append(q, d)
        <4>1. /\ u \in Seq(Decided) /\ Len(q) \in Nat /\ DOMAIN q = 1..Len(q)
              /\ DOMAIN u = 1..(Len(q) + 1) /\ u[Len(q) + 1] = d
              /\ \A k \in 1..Len(q) : u[k] = q[k]
          BY <2>5, <3>2, <3>4
        <4>2. \A k \in DOMAIN u : k = Len(q) + 1 \/ k \in DOMAIN q
          BY <4>1
        <4>. QED BY <2>5, <3>1, <4>1, <4>2
      <3>. QED BY <3>2, <3>3, <3>4
    <2>8. outs' \in [Ranks -> Seq(Decided)]
      BY <2>2, <2>7
    <2>. QED BY <2>3, <2>4, <2>7, <2>8
  <1>. QED BY <1>2, <1>3

(* The answer frees the caller, and takes its packet off the way of its rank. *)
LEMMA StepCalls ==
  ASSUME CallInv, NEW r \in Ranks, Step(r)
  PROVE  CallInv'
  <1>0. CallType /\ FutureInv /\ FreshInv /\ CallerInv
    BY DEF CallInv
  <1>1. PICK o \in Outcomes(r) \cup {outs[r][k].what : k \in DOMAIN outs[r]} :
          /\ Outcome(r, o)
          /\ pend' = [pend EXCEPT ![r] = IF o.kind = "packet" THEN Without(@, o.id) ELSE @]
          /\ IF o.kind = "packet" THEN Answer(r, o.id) ELSE UNCHANGED <<th, ticket, futures>>
    BY DEF Step
  <1>2. UNCHANGED <<calls, tpq, packets, fed>>
    BY DEF Step
  <1>3. /\ o \in Outcome0 /\ outs' \in [Ranks -> Seq(Decided)]
        /\ o.kind = "packet" => o.id \in Nat /\ o = Packet(o.id) /\ ~Unused(o.id)
        /\ \A s \in Ranks : \A k \in DOMAIN outs'[s] :
             outs'[s][k].what = o \/ \E j \in DOMAIN outs[s] : outs'[s][k].what = outs[s][j].what
    BY <1>1, ChosenFacts
  <1>. DEFINE Answers(x, s) == o.kind = "packet" /\ x = o.id /\ s = r
  <1>4. /\ pend' \in [Ranks -> Seq(Objects)]
        /\ \A s \in Ranks : \A y : ~Answers(y, s) => OnTheWay(s, y)' = OnTheWay(s, y)
    <2>1. PICK p : p = IF o.kind = "packet" THEN Without(pend[r], o.id) ELSE pend[r]
      OBVIOUS
    <2>2. pend[r] \in Seq(Objects)
      BY <1>0, CallFacts
    <2>3. /\ p \in Seq(Objects)
          /\ \A y : ~Answers(y, r) => Occurrences(p, y) = Occurrences(pend[r], y)
      <3>1. CASE o.kind = "packet"
        BY <2>1, <2>2, <3>1, CountWithout
      <3>2. CASE o.kind # "packet"
        BY <2>1, <2>2, <3>2
      <3>. QED BY <3>1, <3>2
    <2>4. pend' = [pend EXCEPT ![r] = p]
      BY <1>1, <2>1
    <2>5. pend' \in [Ranks -> Seq(Objects)] /\ pend'[r] = p
          /\ \A s \in Ranks : s # r => pend'[s] = pend[s]
      BY <1>0, <2>3, <2>4 DEF CallType
    <2>6. ASSUME NEW s \in Ranks, NEW y, ~Answers(y, s) PROVE OnTheWay(s, y)' = OnTheWay(s, y)
      <3>1. Occurrences(pend'[s], y) = Occurrences(pend[s], y)
        BY <2>3, <2>5, <2>6
      <3>. QED BY <1>2, <3>1 DEF OnTheWay
    <2>. QED BY <2>5, <2>6
  <1>5. ASSUME NEW y, Unused(y) PROVE Unused(y)'
    <2>1. \A s : ~Answers(y, s)
      BY <1>3, <1>5
    <2>2. o # Packet(y)
      <3>1. CASE o.kind = "packet"
        <4>1. o.id # y
          BY <1>3, <1>5, <3>1
        <4>. QED BY <4>1 DEF Packet
      <3>2. CASE o.kind # "packet"
        BY <3>2 DEF Packet
      <3>. QED BY <3>1, <3>2
    <2>3. ASSUME NEW s \in Ranks, NEW k \in DOMAIN outs'[s] PROVE outs'[s][k].what # Packet(y)
      BY <1>3, <1>5, <2>2, <2>3 DEF Unused
    <2>4. ASSUME NEW s \in Ranks PROVE OnTheWay(s, y)' = 0
      BY <1>4, <1>5, <2>1, <2>4 DEF Unused
    <2>. QED BY <2>3, <2>4 DEF Unused
  <1>6. /\ th' \in [Threads -> {"free", "put", "wait", "done"}] /\ ticket' \in [Threads -> Objects]
        /\ futures' \in [Ranks -> SUBSET Nat]
        /\ \A s \in Ranks : /\ futures'[s] \subseteq futures[s]
                            /\ \A y \in futures[s] : ~Answers(y, s) => y \in futures'[s]
        /\ \A t \in Threads : Calling(t)' =>
             Calling(t) /\ th'[t] = th[t] /\ ticket'[t] = ticket[t] /\ ~Answers(ticket[t], Home[t])
    <2>1. CASE o.kind = "packet"
      <3>. DEFINE Resumes(t) == Home[t] = r /\ o.id \in futures[r] /\ ticket[t] = o.id /\ th[t] = "wait"
      <3>1. /\ futures' = [futures EXCEPT ![r] = @ \ {o.id}]
            /\ th' = [t \in Threads |-> IF Resumes(t) THEN "free" ELSE th[t]]
            /\ ticket' = [t \in Threads |-> IF Resumes(t) THEN Nil ELSE ticket[t]]
        BY <1>1, <2>1 DEF Answer
      <3>2. /\ th' \in [Threads -> {"free", "put", "wait", "done"}] /\ ticket' \in [Threads -> Objects]
        BY <1>0, <3>1, NumbersAreNotNil DEF CallType
      <3>3. /\ futures' \in [Ranks -> SUBSET Nat]
            /\ \A s \in Ranks : /\ futures'[s] \subseteq futures[s]
                                /\ \A y \in futures[s] : ~Answers(y, s) => y \in futures'[s]
        BY <1>0, <2>1, <3>1 DEF CallType
      <3>4. ASSUME NEW t \in Threads, Calling(t)'
            PROVE  Calling(t) /\ th'[t] = th[t] /\ ticket'[t] = ticket[t] /\ ~Answers(ticket[t], Home[t])
        <4>1. ~Resumes(t) /\ th'[t] = th[t] /\ ticket'[t] = ticket[t] /\ Calling(t)
          BY <3>1, <3>4 DEF Calling
        <4>2. ASSUME Answers(ticket[t], Home[t]) PROVE FALSE
          <5>1. ticket[t] = o.id /\ Home[t] = r /\ o.id \in futures[r]
            BY <1>0, <4>1, <4>2 DEF CallerInv
          <5>2. th[t] # "wait"
            BY <4>1, <5>1
          <5>3. Unused(o.id)
            BY <1>0, <4>1, <5>1, <5>2 DEF CallerInv, Calling
          <5>. QED BY <1>3, <2>1, <5>3
        <4>. QED BY <4>1, <4>2
      <3>. QED BY <3>2, <3>3, <3>4
    <2>2. CASE o.kind # "packet"
      <3>1. UNCHANGED <<th, ticket, futures>>
        BY <1>1, <2>2
      <3>. QED BY <1>0, <2>2, <3>1 DEF CallType, Calling
    <2>. QED BY <2>1, <2>2
  <1>. HIDE DEF Answers
  <1>7. CallType'
    BY <1>0, <1>2, <1>3, <1>4, <1>6 DEF CallType
  <1>8. FutureInv'
    <2>. SUFFICES ASSUME NEW s \in Ranks, NEW x \in futures'[s]
                  PROVE  \E c \in Nat : c < calls'[s] /\ x = IdOf(c, s)
      BY DEF FutureInv, IdOf
    <2>1. x \in futures[s]
      BY <1>6
    <2>. QED BY <1>0, <1>2, <2>1 DEF FutureInv
  <1>9. FreshInv'
    <2>1. ASSUME NEW s \in Ranks, NEW c \in Nat, c >= calls[s] PROVE Unused(IdOf(c, s))'
      <3>1. PICK y : y = IdOf(c, s)
        OBVIOUS
      <3>2. Unused(y)
        BY <1>0, <2>1, <3>1 DEF FreshInv
      <3>3. Unused(y)'
        BY <1>5, <3>2
      <3>. QED BY <3>1, <3>3 DEF IdOf
    <2>. QED BY <1>2, <2>1 DEF FreshInv, IdOf
  <1>10. CallerInv'
    <2>. SUFFICES ASSUME NEW t \in Threads, Calling(t)'
                  PROVE  (/\ ticket[t] \in futures[Home[t]]
                          /\ th[t] = "put" => Unused(ticket[t])
                          /\ th[t] = "wait" => OnTheWay(Home[t], ticket[t]) = 1
                          /\ \A u \in Threads \ {t} : Calling(u) => ticket[u] # ticket[t])'
      BY DEF CallerInv
    <2>1. PICK x, h : x = ticket[t] /\ h = Home[t]
      OBVIOUS
    <2>2. Calling(t) /\ th'[t] = th[t] /\ ticket'[t] = x /\ ~Answers(x, h) /\ h \in Ranks
      <3>1. h \in Ranks
        BY <2>1, ImpGenAssumption DEF Ranks
      <3>. QED BY <1>6, <2>1, <3>1
    <2>3. /\ x \in futures[h] /\ (th[t] = "put" => Unused(x))
          /\ th[t] = "wait" => OnTheWay(h, x) = 1
          /\ \A u \in Threads \ {t} : Calling(u) => ticket[u] # x
      BY <1>0, <2>1, <2>2 DEF CallerInv
    <2>4. x \in futures'[h] /\ OnTheWay(h, x)' = OnTheWay(h, x)
      BY <1>4, <1>6, <2>2, <2>3
    <2>5. \A u \in Threads \ {t} : Calling(u)' => ticket'[u] # x
      BY <1>6, <2>3
    <2>6. th'[t] = "put" => Unused(x)'
      BY <1>5, <2>2, <2>3
    <2>. QED BY <2>1, <2>2, <2>3, <2>4, <2>5, <2>6
  <1>. QED BY <1>7, <1>8, <1>9, <1>10 DEF CallInv

(* A new group of processes has no calls. *)
LEMMA FreshCalls == IgInit => CallInv
  <1>. SUFFICES ASSUME IgInit PROVE CallInv
    OBVIOUS
  <1>1. /\ th = [t \in Threads |-> "free"] /\ ticket = [t \in Threads |-> Nil]
        /\ calls = [r \in Ranks |-> 0] /\ futures = [r \in Ranks |-> {}]
        /\ tpq = [r \in Ranks |-> <<>>] /\ packets = [r \in Ranks |-> <<>>]
        /\ pend = [r \in Ranks |-> <<>>] /\ fed = [r \in Ranks |-> 0] /\ outs = [r \in Ranks |-> <<>>]
    BY DEF IgInit, IgFresh
  <1>2. CallType
    BY <1>1, NumbersAreNotNil DEF CallType
  <1>3. \A x : Occurrences(<<>>, x) = 0
    <2>1. \A x : {k \in DOMAIN <<>> : <<>>[k] = x} = {}
      OBVIOUS
    <2>. QED BY <2>1, FS_EmptySet DEF Occurrences
  <1>4. \A x : Unused(x)
    <2>. SUFFICES ASSUME NEW x, NEW r \in Ranks
                  PROVE  OnTheWay(r, x) = 0 /\ \A k \in DOMAIN outs[r] : outs[r][k].what # Packet(x)
      BY DEF Unused
    <2>1. tpq[r] = <<>> /\ packets[r] = <<>> /\ pend[r] = <<>> /\ outs[r] = <<>>
      BY <1>1
    <2>2. OnTheWay(r, x) = 0 + 0 + 0
      BY <1>3, <2>1 DEF OnTheWay
    <2>. QED BY <2>1, <2>2
  <1>5. FutureInv /\ FreshInv
    BY <1>1, <1>4 DEF FutureInv, FreshInv
  <1>6. CallerInv
    BY <1>1 DEF CallerInv, Calling
  <1>. QED BY <1>2, <1>5, <1>6 DEF CallInv

(* The same after a crash. *)
LEMMA RestartCalls == IgInit' => CallInv'
  <1>1. IgInit => CallInv
    BY FreshCalls
  <1>. QED BY <1>1, PTL

(* Each step keeps the calls. *)
LEMMA CallsStep ==
  ASSUME CallInv, [Next]_vars
  PROVE  CallInv'
  <1>0. CallType
    BY DEF CallInv
  <1>1. CASE UNCHANGED igVars
    <2>1. /\ UNCHANGED <<th, ticket, calls, futures, tpq, packets, pend, outs, fed>>
      BY <1>1 DEF igVars, threadVars, mainVars
    <2>. QED BY <1>0, <2>1, CallersKept DEF CallType
  <1>2. CASE Crash
    <2>1. IgInit'
      BY <1>2 DEF Crash, IgRestart, IgInit, IgFresh
    <2>. QED BY <2>1, RestartCalls
  <1>3. CASE MainThread
    <2>1. PICK r \in Ranks : Main(r)
      BY <1>3 DEF MainThread, Mains
    <2>2. CASE r = 0 /\ SyncLead
      <3>1. 0 \in Ranks
        BY <2>1, <2>2
      <3>2. (tpq[0] # <<>> /\ Take(0)) \/ Synced(0)
        BY <2>2 DEF SyncLead
      <3>. QED BY <3>1, <3>2, TakeCalls, SyncedCalls
    <2>3. CASE SyncFollow(r)
      <3>1. (tpq[r] # <<>> /\ Take(r)) \/ Synced(r)
        BY <2>3 DEF SyncFollow
      <3>. QED BY <3>1, TakeCalls, SyncedCalls
    <2>4. CASE Step(r)
      BY <2>4, StepCalls
    <2>5. CASE Loop(r)
      BY <2>5, LoopCalls
    <2>. QED BY <2>1, <2>2, <2>3, <2>4, <2>5 DEF Main
  <1>4. ASSUME NEW t \in Threads, GetDatum(t) PROVE CallInv'
    <2>1. /\ UNCHANGED <<ticket, calls, futures, tpq, packets, pend, outs, fed>>
          /\ th[t] = "free" /\ th' = [th EXCEPT ![t] = IF Head(dataq) = Done THEN "done" ELSE "free"]
      BY <1>4 DEF GetDatum, mainVars
    <2>2. PICK v \in {"done", "free"} : th' = [th EXCEPT ![t] = v]
      BY <2>1
    <2>3. /\ th' \in [Threads -> {"free", "put", "wait", "done"}]
          /\ \A u \in Threads : th'[u] = th[u] \/ (th[u] = "free" /\ th'[u] = "done")
      BY <1>0, <2>1, <2>2 DEF CallType
    <2>. QED BY <2>1, <2>3, CallersKept
  <1>5. ASSUME NEW t \in Threads, CallGenerate(t) PROVE CallInv'
    BY <1>5, RegisterCalls DEF CallGenerate
  <1>6. ASSUME NEW t \in Threads, PutPacket(t) PROVE CallInv'
    BY <1>6, PutCalls DEF PutPacket
  <1>7. ASSUME NEW t \in Threads, Leave(t) \/ Succeed(t) \/ Raise(t) PROVE CallInv'
    BY <1>1, <1>7 DEF Leave, Succeed, Raise
  <1>8. CASE Load \/ Dump
    BY <1>1, <1>8 DEF Load, LoadPut, LoadNext, LoadDone, Dump, DumpGet, DumpLine
  <1>9. CASE UNCHANGED vars
    BY <1>1, <1>9 DEF vars
  <1>. QED BY <1>2, <1>3, <1>4, <1>5, <1>6, <1>7, <1>8, <1>9 DEF Next, Rollout, Finished

(***************************************************************************)
(* The calls of generate() through every crash: the future of each caller  *)
(* is registered, its packet is nowhere before the put and on the way to   *)
(* its rank once after it, and no other caller has its thread_id.          *)
(***************************************************************************)
THEOREM CallsInv == Spec => []CallInv
  <1>1. Init => CallInv
    BY FreshCalls DEF Init
  <1>2. CallInv /\ [Next]_vars => CallInv'
    BY CallsStep
  <1>. QED BY <1>1, <1>2, PTL DEF Spec

(* A waiting thread is answered by one packet still to come, and by no other. *)
THEOREM CallsArePending == Spec => []CallsPending
  <1>1. CallInv => CallsPending
    <2>. SUFFICES ASSUME CallInv, NEW t \in Threads, th[t] = "wait"
                  PROVE  LET i == ticket[t]  h == Home[t]
                             all == tpq[h] \o packets[h] \o pend[h]
                         IN /\ i \in futures[h]
                            /\ \A s \in Ranks \ {h} : i \notin futures[s]
                            /\ Cardinality({k \in DOMAIN all : all[k] = i}) = 1
                            /\ \A u \in Threads \ {t} : th[u] = "wait" => ticket[u] # i
      BY DEF CallsPending
    <2>. DEFINE id == ticket[t]
                r == Home[t]
                ahead == tpq[r] \o packets[r] \o pend[r]
    <2>1. CallType /\ FutureInv /\ CallerInv /\ r \in Ranks
      BY ImpGenAssumption DEF CallInv, Ranks
    <2>2. /\ id \in futures[r] /\ OnTheWay(r, id) = 1
          /\ \A u \in Threads \ {t} : th[u] = "wait" => ticket[u] # id
      BY <2>1 DEF CallerInv, Calling
    <2>3. ASSUME NEW s \in Ranks \ {r}, id \in futures[s] PROVE FALSE
      <3>1. PICK c \in Nat : id = IdOf(c, r)
        BY <2>1, <2>2 DEF FutureInv
      <3>2. PICK d \in Nat : id = IdOf(d, s)
        BY <2>1, <2>3 DEF FutureInv
      <3>3. IdOf(c, r) = IdOf(d, s) => r = s
        BY <2>1, IdUnique
      <3>. QED BY <2>3, <3>1, <3>2, <3>3
    <2>4. Occurrences(ahead, id) = 1
      <3>1. PICK a, b, p, ab : /\ a = tpq[r] /\ b = packets[r] /\ p = pend[r] /\ ab = a \o b
                               /\ ahead = ab \o p
        OBVIOUS
      <3>2. a \in Seq(Objects) /\ b \in Seq(Objects) /\ p \in Seq(Objects) /\ ab \in Seq(Objects)
        BY <2>1, <3>1, CallFacts
      <3>3. Occurrences(ab, id) = Occurrences(a, id) + Occurrences(b, id)
        BY <3>1, <3>2, CountConcat
      <3>4. Occurrences(ab \o p, id) = Occurrences(ab, id) + Occurrences(p, id)
        BY <3>2, CountConcat
      <3>. QED BY <2>2, <3>1, <3>3, <3>4 DEF OnTheWay
    <2>. QED BY <2>2, <2>3, <2>4 DEF Occurrences
  <1>. QED BY <1>1, CallsInv, PTL

-----------------------------------------------------------------------------
(* What a queue has between two places. *)

Part(s, a, b) == SubSeq(s, a + 1, b)

(* The elements of a part. *)
LEMMA PartFacts ==
  ASSUME NEW S, NEW s \in Seq(S), NEW a \in Nat, NEW b \in Nat, a <= b, b <= Len(s)
  PROVE  /\ Part(s, a, b) \in Seq(S) /\ Len(Part(s, a, b)) = b - a
         /\ \A i \in 1..(b - a) : Part(s, a, b)[i] = s[a + i]
  <1>1. \A i \in (a + 1)..b : s[i] \in S
    OBVIOUS
  <1>. DEFINE u == SubSeq(s, a + 1, b)
  <1>2. /\ u \in Seq(S) /\ Len(u) = IF a + 1 <= b THEN b - (a + 1) + 1 ELSE 0
        /\ \A i \in 1..(b - (a + 1) + 1) : u[i] = s[a + 1 + i - 1]
    BY <1>1, SubSeqProperties
  <1>. HIDE DEF u
  <1>3. Len(u) = b - a /\ \A i \in 1..(b - a) : u[i] = s[a + i]
    <2>1. \A i \in 1..(b - a) : i \in 1..(b - (a + 1) + 1) /\ a + 1 + i - 1 = a + i
      OBVIOUS
    <2>. QED BY <1>2, <2>1
  <1>4. Part(s, a, b) = u
    BY DEF Part, u
  <1>. QED BY <1>2, <1>3, <1>4

(* A part without elements. *)
LEMMA PartEmpty ==
  ASSUME NEW S, NEW s \in Seq(S), NEW a \in Nat, NEW b \in Nat, a <= b, b <= Len(s)
  PROVE  Part(s, a, b) = <<>> <=> a = b
  <1>1. Part(s, a, b) \in Seq(S) /\ Len(Part(s, a, b)) = b - a
    BY PartFacts
  <1>2. \A u \in Seq(S) : u = <<>> <=> Len(u) = 0
    OBVIOUS
  <1>. QED BY <1>1, <1>2

(* A queue grows: the part up to its end does, the others stay. *)
LEMMA PartAppend ==
  ASSUME NEW S, NEW s \in Seq(S), NEW x \in S, NEW a \in Nat, NEW b \in Nat, a <= b, b <= Len(s)
  PROVE  /\ Part(Append(s, x), a, b) = Part(s, a, b)
         /\ Part(Append(s, x), a, Len(s) + 1) = Append(Part(s, a, Len(s)), x)
  <1>. DEFINE t == Append(s, x)
              n == Len(s)
  <1>1. /\ t \in Seq(S) /\ n \in Nat /\ Len(t) = n + 1 /\ t[n + 1] = x
        /\ \A i \in 1..n : t[i] = s[i]
    BY AppendProperties
  <1>. HIDE DEF t
  <1>t. t \in Seq(S)
    BY <1>1
  <1>2. Part(t, a, b) = Part(s, a, b)
    <2>. DEFINE p == Part(s, a, b)
                q == Part(t, a, b)
    <2>1. p \in Seq(S) /\ Len(p) = b - a /\ \A i \in 1..(b - a) : p[i] = s[a + i]
      BY PartFacts
    <2>2. b <= Len(t)
      BY <1>1
    <2>3. q \in Seq(S) /\ Len(q) = b - a /\ \A i \in 1..(b - a) : q[i] = t[a + i]
      <3>1. /\ Part(t, a, b) \in Seq(S) /\ Len(Part(t, a, b)) = b - a
            /\ \A i \in 1..(b - a) : Part(t, a, b)[i] = t[a + i]
        BY <1>t, <2>2, PartFacts
      <3>. QED BY <3>1
    <2>. HIDE DEF p, q
    <2>4. \A i \in 1..(b - a) : a + i \in 1..n
      BY <1>1
    <2>5. \A i \in 1..Len(q) : q[i] = p[i]
      BY <1>1, <2>1, <2>3, <2>4
    <2>6. q = p
      BY <2>1, <2>3, <2>5, SeqEqual
    <2>. QED BY <2>6 DEF p, q
  <1>3. Part(t, a, n + 1) = Append(Part(s, a, n), x)
    <2>. DEFINE p == Part(s, a, n)
                q == Part(t, a, n + 1)
    <2>0. n <= Len(s) /\ a <= n /\ n + 1 <= Len(t) /\ a <= n + 1 /\ n + 1 \in Nat
      BY <1>1
    <2>1. p \in Seq(S) /\ Len(p) = n - a /\ \A i \in 1..(n - a) : p[i] = s[a + i]
      BY <1>1, <2>0, PartFacts
    <2>2. q \in Seq(S) /\ Len(q) = n + 1 - a /\ \A i \in 1..(n + 1 - a) : q[i] = t[a + i]
      <3>1. PICK c \in Nat : c = n + 1
        BY <1>1
      <3>2. a <= c /\ c <= Len(t)
        BY <2>0, <3>1
      <3>3. /\ Part(t, a, c) \in Seq(S) /\ Len(Part(t, a, c)) = c - a
            /\ \A i \in 1..(c - a) : Part(t, a, c)[i] = t[a + i]
        BY <1>t, <3>2, PartFacts
      <3>. QED BY <3>1, <3>3
    <2>. HIDE DEF p, q
    <2>. DEFINE u == Append(p, x)
    <2>3. /\ u \in Seq(S) /\ Len(u) = n - a + 1 /\ u[n - a + 1] = x
          /\ \A i \in 1..(n - a) : u[i] = p[i]
      BY <2>1, AppendProperties
    <2>. HIDE DEF u
    <2>4. ASSUME NEW i \in 1..Len(q) PROVE q[i] = u[i]
      <3>1. CASE i = n - a + 1
        <4>1. a + i = n + 1 /\ i \in 1..(n + 1 - a)
          BY <1>1, <3>1
        <4>. QED BY <1>1, <2>2, <2>3, <3>1, <4>1
      <3>2. CASE i # n - a + 1
        <4>1. i \in 1..(n - a) /\ i \in 1..(n + 1 - a) /\ a + i \in 1..n
          BY <1>1, <2>0, <2>2, <3>2
        <4>. QED BY <1>1, <2>1, <2>2, <2>3, <4>1
      <3>. QED BY <3>1, <3>2
    <2>5. Len(q) = Len(u)
      BY <1>1, <2>2, <2>3
    <2>6. q = u
      BY <2>2, <2>3, <2>4, <2>5, SeqEqual
    <2>. QED BY <2>6 DEF p, q, u
  <1>. QED BY <1>2, <1>3 DEF t

(* The head of a part, and the part after it. *)
LEMMA PartHead ==
  ASSUME NEW S, NEW s \in Seq(S), NEW a \in Nat, NEW b \in Nat, a < b, b <= Len(s)
  PROVE  /\ Head(Part(s, a, b)) = s[a + 1] /\ s[a + 1] \in S
         /\ Tail(Part(s, a, b)) = Part(s, a + 1, b)
  <1>1. a + 1 \in 1..Len(s) /\ b \in (a + 1)..Len(s)
    OBVIOUS
  <1>. QED BY <1>1, HeadTailOfSubSeq DEF Part

(* One element more. *)
LEMMA PartNext ==
  ASSUME NEW S, NEW s \in Seq(S), NEW a \in Nat, NEW b \in Nat, a <= b, b < Len(s)
  PROVE  Part(s, a, b + 1) = Append(Part(s, a, b), s[b + 1])
  <1>. DEFINE p == Part(s, a, b)
              q == Part(s, a, b + 1)
              x == s[b + 1]
              u == Append(p, x)
  <1>0. Len(s) \in Nat /\ b <= Len(s) /\ b + 1 <= Len(s) /\ b + 1 \in Nat /\ a <= b + 1
        /\ b + 1 \in 1..Len(s)
    OBVIOUS
  <1>1. p \in Seq(S) /\ Len(p) = b - a /\ \A i \in 1..(b - a) : p[i] = s[a + i]
    BY <1>0, PartFacts
  <1>2. q \in Seq(S) /\ Len(q) = b + 1 - a /\ \A i \in 1..(b + 1 - a) : q[i] = s[a + i]
    <2>1. PICK c \in Nat : c = b + 1
      BY <1>0
    <2>2. a <= c /\ c <= Len(s)
      BY <1>0, <2>1
    <2>3. /\ Part(s, a, c) \in Seq(S) /\ Len(Part(s, a, c)) = c - a
          /\ \A i \in 1..(c - a) : Part(s, a, c)[i] = s[a + i]
      BY <2>2, PartFacts
    <2>. QED BY <2>1, <2>3
  <1>3. x \in S
    BY <1>0
  <1>. HIDE DEF p, q, x
  <1>4. /\ u \in Seq(S) /\ Len(u) = b - a + 1 /\ u[b - a + 1] = x
        /\ \A i \in 1..(b - a) : u[i] = p[i]
    BY <1>1, <1>3, AppendProperties
  <1>. HIDE DEF u
  <1>5. ASSUME NEW i \in 1..Len(q) PROVE q[i] = u[i]
    <2>1. CASE i = b - a + 1
      <3>1. a + i = b + 1 /\ i \in 1..(b + 1 - a)
        BY <2>1
      <3>. QED BY <1>2, <1>4, <2>1, <3>1 DEF x
    <2>2. CASE i # b - a + 1
      <3>1. i \in 1..(b - a) /\ i \in 1..(b + 1 - a)
        BY <1>2, <2>2
      <3>. QED BY <1>1, <1>2, <1>4, <3>1
    <2>. QED BY <2>1, <2>2
  <1>6. Len(q) = Len(u)
    BY <1>2, <1>4
  <1>7. q = u
    BY <1>2, <1>4, <1>5, <1>6, SeqEqual
  <1>. QED BY <1>7 DEF p, q, x, u

(* Two parts in a row. *)
LEMMA PartConcat ==
  ASSUME NEW S, NEW s \in Seq(S), NEW a \in Nat, NEW b \in Nat, NEW c \in Nat,
         a <= b, b <= c, c <= Len(s)
  PROVE  Part(s, a, b) \o Part(s, b, c) = Part(s, a, c)
  <1>. DEFINE p == Part(s, a, b)
              q == Part(s, b, c)
              w == Part(s, a, c)
              u == p \o q
  <1>0. Len(s) \in Nat /\ b <= Len(s) /\ a <= c
    OBVIOUS
  <1>1. p \in Seq(S) /\ Len(p) = b - a /\ \A i \in 1..(b - a) : p[i] = s[a + i]
    BY <1>0, PartFacts
  <1>2. q \in Seq(S) /\ Len(q) = c - b /\ \A i \in 1..(c - b) : q[i] = s[b + i]
    BY <1>0, PartFacts
  <1>3. w \in Seq(S) /\ Len(w) = c - a /\ \A i \in 1..(c - a) : w[i] = s[a + i]
    BY <1>0, PartFacts
  <1>. HIDE DEF p, q, w
  <1>4. /\ u \in Seq(S) /\ Len(u) = (b - a) + (c - b)
        /\ \A i \in 1..((b - a) + (c - b)) : u[i] = IF i <= b - a THEN p[i] ELSE q[i - (b - a)]
    <2>1. /\ u \in Seq(S) /\ Len(u) = Len(p) + Len(q)
          /\ \A i \in 1..(Len(p) + Len(q)) : u[i] = IF i <= Len(p) THEN p[i] ELSE q[i - Len(p)]
      BY <1>1, <1>2, ConcatProperties
    <2>. QED BY <1>1, <1>2, <2>1
  <1>. HIDE DEF u
  <1>5. ASSUME NEW i \in 1..Len(w) PROVE w[i] = u[i]
    <2>0. i \in 1..(c - a) /\ i \in 1..((b - a) + (c - b)) /\ w[i] = s[a + i]
      BY <1>3
    <2>1. CASE i <= b - a
      <3>1. i \in 1..(b - a)
        BY <2>0, <2>1
      <3>. QED BY <1>1, <1>4, <2>0, <2>1, <3>1
    <2>2. CASE ~(i <= b - a)
      <3>1. i - (b - a) \in 1..(c - b) /\ b + (i - (b - a)) = a + i
        BY <2>0, <2>2
      <3>. QED BY <1>2, <1>4, <2>0, <2>2, <3>1
    <2>. QED BY <2>1, <2>2
  <1>6. Len(w) = Len(u)
    BY <1>3, <1>4
  <1>7. w = u
    BY <1>3, <1>4, <1>5, <1>6, SeqEqual
  <1>. QED BY <1>7 DEF p, q, w, u

(* What a queue has after its first a objects. *)
LEMMA RestEmpty ==
  ASSUME NEW S, NEW s \in Seq(S), NEW a \in 0..Len(s)
  PROVE  Part(s, a, Len(s)) = <<>> <=> a = Len(s)
  <1>1. PICK b \in Nat : b = Len(s)
    OBVIOUS
  <1>2. a \in Nat /\ a <= b /\ b <= Len(s)
    BY <1>1
  <1>3. Part(s, a, b) = <<>> <=> a = b
    BY <1>2, PartEmpty
  <1>. QED BY <1>1, <1>3

(* The head and the tail of what is left. *)
LEMMA RestHead ==
  ASSUME NEW S, NEW s \in Seq(S), NEW a \in 0..Len(s), a # Len(s)
  PROVE  /\ Head(Part(s, a, Len(s))) = s[a + 1] /\ s[a + 1] \in S
         /\ Tail(Part(s, a, Len(s))) = Part(s, a + 1, Len(s))
  <1>1. PICK b \in Nat : b = Len(s)
    OBVIOUS
  <1>2. a \in Nat /\ a < b /\ b <= Len(s)
    BY <1>1
  <1>3. /\ Head(Part(s, a, b)) = s[a + 1] /\ s[a + 1] \in S
        /\ Tail(Part(s, a, b)) = Part(s, a + 1, b)
    BY <1>2, PartHead
  <1>. QED BY <1>1, <1>3

-----------------------------------------------------------------------------
(***************************************************************************)
(* The history of a group of processes: F are the flags rank 0 announced,  *)
(* T[a] says how many packets the first a flags let a rank take, M[a] how  *)
(* many steps of the generator; D are the decisions of the generator, P[k] *)
(* says how many of the first k are packets, and Q[k] is what is left in   *)
(* FastGen after them; O are the objects put in the queues.                *)
(***************************************************************************)
Fed(D, k) == IF k = 0 THEN 0 ELSE D[k].fed
Answered(o) == IF o.kind = "packet" THEN 1 ELSE 0
After(q, o) == IF o.kind = "packet" THEN Without(q, o.id) ELSE q
Input(D, O, Q, k) == Q[k - 1] \o Part(O, Fed(D, k - 1), D[k].fed)

(* What the generator may choose with q in it. *)
Chosen(o, q) ==
  /\ o.kind = "packet" => \E i \in DOMAIN q : q[i] = o.id
  /\ o.kind = "stop" => \A i \in DOMAIN q : q[i] = Nil
  /\ o.kind = "none" => HandoverFrequency > 0

HistType(F, T, M, D, P, O, Q) ==
  /\ F \in Seq(BOOLEAN) /\ T \in [0..Len(F) -> Nat] /\ M \in [0..Len(F) -> Nat]
  /\ D \in Seq(Decided) /\ P \in [0..Len(D) -> Nat] /\ Q \in [0..Len(D) -> Seq(Objects)]
  /\ O \in Seq(Objects)

(* A step follows a FALSE if some request was in flight then. *)
Schedule(F, T, M, D, P) ==
  /\ T[0] = 0 /\ M[0] = 0
  /\ \A a \in 1..Len(F) :
       /\ M[a - 1] \in 0..Len(D)
       /\ F[a] => T[a] = T[a - 1] + 1 /\ M[a] = M[a - 1]
       /\ ~F[a] => /\ T[a] = T[a - 1]
                   /\ M[a] = M[a - 1] + (IF T[a] = P[M[a - 1]] THEN 0 ELSE 1)
       /\ M[a] = M[a - 1] + 1 /\ M[a] <= Len(D) => D[M[a]].fed = T[a]
  /\ \A a, b \in 0..Len(F) : a <= b => M[a] <= M[b]

Decisions(D, P, O, Q) ==
  /\ P[0] = 0 /\ Q[0] = <<>>
  /\ \A k \in 1..Len(D) :
       /\ Fed(D, k - 1) <= D[k].fed /\ D[k].fed <= Len(O)
       /\ P[k] = P[k - 1] + Answered(D[k].what)
       /\ Q[k] = After(Input(D, O, Q, k), D[k].what)
       /\ Len(Q[k]) + P[k] = D[k].fed
       /\ Chosen(D[k].what, Input(D, O, Q, k))

(* Rank r has read a flags and made n steps. *)
Lags(r, a, n, F, D) ==
  /\ a \in 0..Len(F) /\ n \in 0..Len(D)
  /\ IF r = 0 THEN a = Len(F) ELSE syncq[r] = Part(F, a, Len(F))
  /\ outs[r] = Part(D, n, Len(D))
Ran(r, a, n, T, M, D, P, O, Q) ==
  /\ n <= M[a] /\ fed[r] <= T[a] /\ T[a] <= Len(O)
  /\ tpq[r] = Part(O, T[a], Len(O)) /\ packets[r] = Part(O, fed[r], T[a])
  /\ Fed(D, n) <= fed[r] /\ pend[r] = Q[n] \o Part(O, Fed(D, n), fed[r])
  /\ inflight[r] = fed[r] - P[n]
  /\ pc[r] \in {"sync", "loop"} => M[a] = n
  /\ pc[r] = "next" => fed[r] = T[a] /\ a > 0 /\ M[a - 1] = n /\ M[a] = n + 1

MainType ==
  /\ syncq \in [Ranks \ {0} -> Seq(BOOLEAN)] /\ inflight \in [Ranks -> Int]
  /\ pc \in [Ranks -> {"sync", "next", "loop", "ended", "failed"}]

Agree(F, T, M, D, P, O, Q, at, n) ==
  /\ MainType /\ HistType(F, T, M, D, P, O, Q)
  /\ Schedule(F, T, M, D, P) /\ Decisions(D, P, O, Q)
  /\ at \in [Ranks -> Nat] /\ n \in [Ranks -> Nat]
  /\ \A r \in Ranks : Lags(r, at[r], n[r], F, D) /\ Ran(r, at[r], n[r], T, M, D, P, O, Q)
  /\ \E r \in Ranks : n[r] = Len(D)

AgreeInv == \E F, T, M, D, P, O, Q, at, n : Agree(F, T, M, D, P, O, Q, at, n)

(* The length of a concatenation. *)
LEMMA ConcatLength ==
  ASSUME NEW S, NEW s \in Seq(S), NEW t \in Seq(S)
  PROVE  s \o t \in Seq(S) /\ Len(s \o t) = Len(s) + Len(t)
  BY ConcatProperties

(* There is a rank 0. *)
LEMMA RankZero == 0 \in Ranks
  BY ImpGenAssumption DEF Ranks

(* The fields of a decision. *)
LEMMA DecidedFacts ==
  ASSUME NEW d \in Decided
  PROVE  /\ d.fed \in Nat /\ d.what \in Outcome0 /\ d.what.kind \in {"packet", "none", "stop"}
         /\ d.what.kind = "packet" => d.what.id \in Nat
  BY DEF Decided, Outcome0, Packet, Handover, Stop

(* What is in FastGen, in all. *)
LEMMA PendLength ==
  ASSUME NEW F, NEW T, NEW M, NEW D, NEW P, NEW O, NEW Q, HistType(F, T, M, D, P, O, Q),
         Decisions(D, P, O, Q), NEW k \in 0..Len(D),
         NEW f \in Nat, Fed(D, k) <= f, f <= Len(O)
  PROVE  /\ Fed(D, k) \in Nat /\ Part(O, Fed(D, k), f) \in Seq(Objects)
         /\ Q[k] \o Part(O, Fed(D, k), f) \in Seq(Objects)
         /\ Len(Q[k] \o Part(O, Fed(D, k), f)) = f - P[k]
  <1>0. /\ O \in Seq(Objects) /\ Q \in [0..Len(D) -> Seq(Objects)] /\ P \in [0..Len(D) -> Nat]
        /\ D \in Seq(Decided)
    BY DEF HistType
  <1>1. /\ O \in Seq(Objects) /\ Q[k] \in Seq(Objects) /\ P[k] \in Nat /\ D \in Seq(Decided)
        /\ Len(D) \in Nat
    BY <1>0
  <1>2. Fed(D, k) \in Nat /\ Len(Q[k]) + P[k] = Fed(D, k)
    <2>1. CASE k = 0
      BY <2>1 DEF Fed, Decisions
    <2>2. CASE k # 0
      <3>1. k \in 1..Len(D)
        BY <1>1, <2>2
      <3>2. D[k] \in Decided
        BY <1>1, <3>1
      <3>. QED BY <2>2, <3>1, <3>2, DecidedFacts DEF Fed, Decisions
    <2>. QED BY <2>1, <2>2
  <1>3. PICK g \in Nat : g = Fed(D, k)
    BY <1>2
  <1>4. PICK p, q : p = Part(O, g, f) /\ q = Q[k]
    OBVIOUS
  <1>5. p \in Seq(Objects) /\ Len(p) = f - g
    <2>1. g <= f /\ f <= Len(O) /\ O \in Seq(Objects)
      BY <1>1, <1>3
    <2>. QED BY <1>4, <2>1, PartFacts
  <1>6. q \o p \in Seq(Objects) /\ Len(q \o p) = Len(q) + Len(p) /\ Len(q) \in Nat
    <2>1. q \in Seq(Objects)
      BY <1>1, <1>4
    <2>2. p \in Seq(Objects)
      BY <1>5
    <2>3. q \o p \in Seq(Objects) /\ Len(q \o p) = Len(q) + Len(p)
      BY <2>1, <2>2, ConcatLength
    <2>4. Len(q) \in Nat
      BY <2>1
    <2>. QED BY <2>3, <2>4
  <1>7. Len(q \o p) = f - P[k]
    <2>1. PICK x, y, z, w : x = Len(p) /\ y = Len(q) /\ z = P[k] /\ w = Len(q \o p)
      OBVIOUS
    <2>2. x = f - g /\ y + z = g /\ z \in Nat /\ y \in Nat /\ w = y + x
      BY <1>1, <1>2, <1>3, <1>4, <1>5, <1>6, <2>1
    <2>3. w = f - z
      BY <2>2
    <2>. QED BY <2>1, <2>3
  <1>. QED BY <1>2, <1>3, <1>4, <1>5, <1>6, <1>7

Stands(r, a, n, F, T, M, D, P, O, Q) ==
  /\ a \in 0..Len(F) /\ n \in 0..Len(D) /\ a \in Nat /\ n \in Nat /\ Len(F) \in Nat
  /\ T[a] \in Nat /\ M[a] \in Nat /\ P[n] \in Nat /\ fed[r] \in Nat /\ Fed(D, n) \in Nat
  /\ O \in Seq(Objects) /\ Len(O) \in Nat /\ Len(D) \in Nat
  /\ pend[r] \in Seq(Objects) /\ Len(pend[r]) = inflight[r] /\ inflight[r] = fed[r] - P[n]
  /\ Len(packets[r]) = T[a] - fed[r] /\ Q[n] \in Seq(Objects)

(* Where a rank is in the history, in numbers. *)
LEMMA RunFacts ==
  ASSUME NEW F, NEW T, NEW M, NEW D, NEW P, NEW O, NEW Q, HistType(F, T, M, D, P, O, Q),
         Decisions(D, P, O, Q), CallType, MainType, NEW r \in Ranks,
         NEW a, NEW n, Lags(r, a, n, F, D), Ran(r, a, n, T, M, D, P, O, Q)
  PROVE  Stands(r, a, n, F, T, M, D, P, O, Q)
  <1>1. /\ a \in 0..Len(F) /\ n \in 0..Len(D) /\ a \in Nat /\ n \in Nat /\ Len(F) \in Nat
        /\ Len(D) \in Nat /\ O \in Seq(Objects) /\ Len(O) \in Nat
    BY DEF Lags, HistType
  <1>2. T[a] \in Nat /\ M[a] \in Nat /\ P[n] \in Nat /\ fed[r] \in Nat /\ Q[n] \in Seq(Objects)
    BY <1>1 DEF HistType, CallType
  <1>3. /\ fed[r] <= T[a] /\ T[a] <= Len(O) /\ packets[r] = Part(O, fed[r], T[a])
        /\ Fed(D, n) <= fed[r] /\ pend[r] = Q[n] \o Part(O, Fed(D, n), fed[r])
        /\ inflight[r] = fed[r] - P[n]
    BY DEF Ran
  <1>4. PICK f \in Nat : f = fed[r]
    BY <1>2
  <1>5. PICK t \in Nat : t = T[a]
    BY <1>2
  <1>6. f <= t /\ t <= Len(O) /\ f <= Len(O)
    BY <1>1, <1>3, <1>4, <1>5
  <1>7. Len(packets[r]) = t - f
    <2>1. Len(Part(O, f, t)) = t - f
      BY <1>1, <1>6, PartFacts
    <2>. QED BY <1>3, <1>4, <1>5, <2>1
  <1>8. /\ Fed(D, n) \in Nat /\ Q[n] \o Part(O, Fed(D, n), f) \in Seq(Objects)
        /\ Len(Q[n] \o Part(O, Fed(D, n), f)) = f - P[n]
    <2>1. n \in 0..Len(D) /\ Fed(D, n) <= f /\ f <= Len(O)
      BY <1>1, <1>3, <1>4, <1>6
    <2>. QED BY <2>1, PendLength
  <1>. QED BY <1>1, <1>2, <1>3, <1>4, <1>5, <1>7, <1>8 DEF Stands

(* The ranks take their steps with the same requests in FastGen. *)
LEMMA AgreeIsSame == CallType /\ AgreeInv => SameInputs
  <1>. SUFFICES ASSUME CallType, AgreeInv, NEW r \in Ranks, pc[r] = "next"
                PROVE  IF outs[r] = <<>> THEN pend[r] # <<>> ELSE fed[r] = Head(outs[r]).fed
    BY DEF SameInputs
  <1>1. PICK F, T, M, D, P, O, Q, at, n : Agree(F, T, M, D, P, O, Q, at, n)
    BY DEF AgreeInv
  <1>2. PICK a, m : a = at[r] /\ m = n[r]
    OBVIOUS
  <1>3. /\ MainType /\ HistType(F, T, M, D, P, O, Q) /\ Schedule(F, T, M, D, P)
        /\ Decisions(D, P, O, Q) /\ Lags(r, a, m, F, D) /\ Ran(r, a, m, T, M, D, P, O, Q)
    BY <1>1, <1>2 DEF Agree
  <1>4. /\ a \in 0..Len(F) /\ m \in 0..Len(D) /\ a \in Nat /\ m \in Nat /\ Len(F) \in Nat
        /\ Len(D) \in Nat /\ D \in Seq(Decided) /\ T[a] \in Nat /\ P[m] \in Nat /\ fed[r] \in Nat
        /\ pend[r] \in Seq(Objects) /\ Len(pend[r]) = fed[r] - P[m]
    <2>1. Stands(r, a, m, F, T, M, D, P, O, Q)
      BY <1>3, RunFacts
    <2>2. D \in Seq(Decided)
      BY <1>3 DEF HistType
    <2>3. pend[r] \in Seq(Objects) /\ Len(pend[r]) = fed[r] - P[m]
      BY <2>1 DEF Stands
    <2>. QED BY <2>1, <2>2, <2>3 DEF Stands
  <1>5. fed[r] = T[a] /\ a > 0 /\ M[a - 1] = m /\ M[a] = m + 1
    BY <1>3 DEF Ran
  <1>6. a \in 1..Len(F)
    BY <1>4, <1>5
  <1>7. T[a] # P[m] /\ (m + 1 <= Len(D) => D[m + 1].fed = T[a])
    <2>1. /\ F[a] => M[a] = M[a - 1]
          /\ ~F[a] => M[a] = M[a - 1] + (IF T[a] = P[M[a - 1]] THEN 0 ELSE 1)
          /\ M[a] = M[a - 1] + 1 /\ M[a] <= Len(D) => D[M[a]].fed = T[a]
      BY <1>3, <1>6 DEF Schedule
    <2>. QED BY <1>4, <1>5, <2>1
  <1>8. outs[r] = Part(D, m, Len(D))
    BY <1>3 DEF Lags
  <1>9. CASE m = Len(D)
    <2>1. outs[r] = <<>>
      BY <1>4, <1>8, <1>9, RestEmpty
    <2>2. pend[r] # <<>>
      BY <1>4, <1>5, <1>7
    <2>. QED BY <2>1, <2>2
  <1>10. CASE m # Len(D)
    <2>1. m < Len(D)
      BY <1>4, <1>10
    <2>2. outs[r] # <<>>
      BY <1>4, <1>8, <1>10, RestEmpty
    <2>3. Head(outs[r]) = D[m + 1]
      BY <1>4, <1>8, <1>10, RestHead
    <2>. QED BY <1>4, <1>5, <1>7, <2>1, <2>2, <2>3
  <1>. QED BY <1>9, <1>10

-----------------------------------------------------------------------------
(* What a rank does with a flag, in a history that has it. *)

Sorts(a, m, T, M, D, P, O, Q) ==
  /\ a \in Nat /\ m \in Nat /\ T[a] \in Nat /\ M[a] \in Nat /\ P[m] \in Nat
  /\ Fed(D, m) \in Nat /\ Q[m] \in Seq(Objects) /\ O \in Seq(Objects) /\ Len(O) \in Nat

(* It takes the next object. *)
LEMMA TakeRuns ==
  ASSUME CallType, MainType, NEW r \in Ranks, NEW a, NEW m,
         NEW T, NEW M, NEW D, NEW P, NEW O, NEW Q,
         Sorts(a, m, T, M, D, P, O, Q), Ran(r, a, m, T, M, D, P, O, Q),
         T[a + 1] = T[a] + 1, M[a + 1] = M[a], pc[r] = "sync", tpq[r] # <<>>, Take(r)
  PROVE  Ran(r, a + 1, m, T, M, D, P, O, Q)'
  <1>1. PICK f \in Nat, t \in Nat, l \in Nat : f = fed[r] /\ t = T[a] /\ l = Len(O)
    BY DEF CallType, Sorts
  <1>2. O \in Seq(Objects)
    BY DEF Sorts
  <1>3. /\ m <= M[a] /\ f <= t /\ t <= l /\ tpq[r] = Part(O, t, l) /\ packets[r] = Part(O, f, t)
        /\ Fed(D, m) <= f /\ pend[r] = Q[m] \o Part(O, Fed(D, m), f)
        /\ inflight[r] = f - P[m] /\ M[a] = m
    BY <1>1 DEF Ran
  <1>4. /\ packets' = [packets EXCEPT ![r] = Append(@, Head(tpq[r]))]
        /\ tpq' = [tpq EXCEPT ![r] = Tail(@)] /\ UNCHANGED <<pc, inflight, pend, fed>>
    BY DEF Take
  <1>5. packets'[r] = Append(packets[r], Head(tpq[r])) /\ tpq'[r] = Tail(tpq[r])
    BY <1>4 DEF CallType
  <1>6. t # l
    BY <1>1, <1>2, <1>3, PartEmpty
  <1>7. t < l /\ l <= Len(O)
    BY <1>1, <1>3, <1>6
  <1>8. Head(tpq[r]) = O[t + 1] /\ Tail(tpq[r]) = Part(O, t + 1, l)
    BY <1>2, <1>3, <1>7, PartHead
  <1>9. Append(packets[r], O[t + 1]) = Part(O, f, t + 1)
    <2>1. t < Len(O)
      BY <1>1, <1>7
    <2>. QED BY <1>2, <1>3, <2>1, PartNext
  <1>10. T[a + 1] = t + 1 /\ M[a + 1] = m /\ f <= t + 1 /\ t + 1 <= l
    BY <1>1, <1>3, <1>7
  <1>. QED BY <1>1, <1>3, <1>4, <1>5, <1>8, <1>9, <1>10 DEF Ran, Sorts

(* It feeds what it took, and goes on to the generator if a request is in flight. *)
LEMMA SyncedRuns ==
  ASSUME CallType, MainType, NEW r \in Ranks, NEW a, NEW m,
         NEW T, NEW M, NEW D, NEW P, NEW O, NEW Q,
         Sorts(a, m, T, M, D, P, O, Q), Ran(r, a, m, T, M, D, P, O, Q),
         T[a + 1] = T[a], M[a + 1] = M[a] + (IF T[a + 1] = P[M[a]] THEN 0 ELSE 1),
         pc[r] = "sync", Synced(r)
  PROVE  Ran(r, a + 1, m, T, M, D, P, O, Q)'
  <1>1. PICK f \in Nat, t \in Nat, l \in Nat, g \in Nat :
          f = fed[r] /\ t = T[a] /\ l = Len(O) /\ g = Fed(D, m)
    BY DEF CallType, Sorts
  <1>2. O \in Seq(Objects) /\ Q[m] \in Seq(Objects) /\ P[m] \in Nat /\ a \in Nat /\ m \in Nat
    BY DEF Sorts
  <1>3. /\ m <= M[a] /\ f <= t /\ t <= l /\ tpq[r] = Part(O, t, l) /\ packets[r] = Part(O, f, t)
        /\ g <= f /\ pend[r] = Q[m] \o Part(O, g, f)
        /\ inflight[r] = f - P[m] /\ M[a] = m
    BY <1>1 DEF Ran
  <1>4. /\ pend' = [pend EXCEPT ![r] = @ \o packets[r]] /\ packets' = [packets EXCEPT ![r] = <<>>]
        /\ fed' = [fed EXCEPT ![r] = @ + Len(packets[r])]
        /\ inflight' = [inflight EXCEPT ![r] = @ + Len(packets[r])]
        /\ pc' = [pc EXCEPT ![r] = IF inflight'[r] = 0 THEN "loop" ELSE "next"]
        /\ tpq' = tpq
    BY DEF Synced
  <1>5. /\ pend'[r] = pend[r] \o packets[r] /\ packets'[r] = <<>>
        /\ fed'[r] = f + Len(packets[r]) /\ inflight'[r] = inflight[r] + Len(packets[r])
        /\ pc'[r] = IF inflight'[r] = 0 THEN "loop" ELSE "next"
    BY <1>1, <1>4 DEF CallType, MainType
  <1>6. t <= Len(O) /\ f <= Len(O) /\ g <= t
    BY <1>1, <1>3
  <1>7. Len(packets[r]) = t - f /\ packets[r] \in Seq(Objects) /\ Part(O, g, f) \in Seq(Objects)
    <2>1. /\ O \in Seq(Objects) /\ g <= f /\ f <= Len(O) /\ f <= t /\ t <= Len(O)
      BY <1>2, <1>3, <1>6
    <2>2. Part(O, g, f) \in Seq(Objects)
      BY <2>1, PartFacts
    <2>3. Part(O, f, t) \in Seq(Objects) /\ Len(Part(O, f, t)) = t - f
      BY <2>1, PartFacts
    <2>. QED BY <1>3, <2>2, <2>3
  <1>8. fed'[r] = t /\ inflight'[r] = t - P[m]
    <2>1. PICK w, x : w = Len(packets[r]) /\ x = P[m]
      OBVIOUS
    <2>2. w = t - f /\ x \in Nat /\ fed'[r] = f + w /\ inflight'[r] = (f - x) + w
      BY <1>2, <1>3, <1>5, <1>7, <2>1
    <2>3. f + w = t /\ (f - x) + w = t - x
      BY <2>2
    <2>. QED BY <2>1, <2>2, <2>3
  <1>9. pend'[r] = Q[m] \o Part(O, g, t)
    <2>1. pend'[r] = Q[m] \o (Part(O, g, f) \o packets[r])
      <3>1. PICK x, y, z : x = Q[m] /\ y = Part(O, g, f) /\ z = packets[r]
        OBVIOUS
      <3>2. x \in Seq(Objects) /\ y \in Seq(Objects) /\ z \in Seq(Objects)
        BY <1>2, <1>7, <3>1
      <3>3. (x \o y) \o z = x \o (y \o z)
        BY <3>2, ConcatAssociative
      <3>. QED BY <1>3, <1>5, <3>1, <3>3
    <2>2. Part(O, g, f) \o Part(O, f, t) = Part(O, g, t)
      <3>1. g <= f /\ f <= t /\ t <= Len(O)
        BY <1>3, <1>6
      <3>2. O \in Seq(Objects)
        BY <1>2
      <3>. QED BY <3>1, <3>2, PartConcat
    <2>. QED BY <1>3, <2>1, <2>2
  <1>10. Part(O, t, t) = <<>>
    BY <1>2, <1>6, PartEmpty
  <1>11. /\ T[a + 1] = t /\ pc'[r] \in {"loop", "next"} /\ (a + 1) - 1 = a /\ a + 1 > 0
         /\ M[a + 1] = m + (IF t = P[m] THEN 0 ELSE 1) /\ (inflight'[r] = 0 <=> t = P[m])
    <2>1. T[a + 1] = t /\ M[a + 1] = m + (IF t = P[m] THEN 0 ELSE 1)
      BY <1>1, <1>3
    <2>2. (a + 1) - 1 = a /\ a + 1 > 0
      BY <1>2
    <2>3. inflight'[r] = 0 <=> t = P[m]
      BY <1>2, <1>8
    <2>. QED BY <1>5, <2>1, <2>2, <2>3
  <1>12. /\ pc'[r] = "next" => M[a + 1] = m + 1
         /\ pc'[r] \in {"sync", "loop"} => M[a + 1] = m
         /\ m <= M[a + 1]
    BY <1>2, <1>5, <1>11
  <1>13. /\ fed'[r] <= T[a + 1] /\ T[a + 1] <= Len(O) /\ Fed(D, m) <= fed'[r]
         /\ tpq'[r] = Part(O, T[a + 1], Len(O)) /\ packets'[r] = Part(O, fed'[r], T[a + 1])
         /\ pend'[r] = Q[m] \o Part(O, Fed(D, m), fed'[r])
    <2>1. fed'[r] = t /\ T[a + 1] = t /\ Len(O) = l /\ Fed(D, m) = g
      BY <1>1, <1>8, <1>11
    <2>2. tpq'[r] = Part(O, t, l) /\ packets'[r] = Part(O, t, t)
      BY <1>3, <1>4, <1>5, <1>10
    <2>. QED BY <1>6, <1>9, <2>1, <2>2
  <1>14. pc'[r] = "next" =>
           fed'[r] = T[a + 1] /\ a + 1 > 0 /\ M[(a + 1) - 1] = m /\ M[a + 1] = m + 1
    BY <1>1, <1>3, <1>8, <1>11, <1>12
  <1>. QED BY <1>8, <1>12, <1>13, <1>14 DEF Ran

(* The other ranks are where they were, whatever the history adds. *)
LEMMA OtherRuns ==
  ASSUME NEW s \in Ranks, NEW a, NEW m, NEW T, NEW M, NEW D, NEW P, NEW O, NEW Q,
         NEW T2, NEW M2, NEW D2, NEW P2, NEW Q2,
         Ran(s, a, m, T, M, D, P, O, Q),
         T2[a] = T[a], M2[a] = M[a], a > 0 => M2[a - 1] = M[a - 1],
         Fed(D2, m) = Fed(D, m), P2[m] = P[m], Q2[m] = Q[m],
         tpq'[s] = tpq[s], packets'[s] = packets[s], pend'[s] = pend[s], fed'[s] = fed[s],
         inflight'[s] = inflight[s], pc'[s] = pc[s]
  PROVE  Ran(s, a, m, T2, M2, D2, P2, O, Q2)'
  <1>1. /\ m <= M2[a] /\ fed'[s] <= T2[a] /\ T2[a] <= Len(O)
        /\ tpq'[s] = Part(O, T2[a], Len(O)) /\ packets'[s] = Part(O, fed'[s], T2[a])
        /\ Fed(D2, m) <= fed'[s] /\ inflight'[s] = fed'[s] - P2[m]
    BY DEF Ran
  <1>2. pend'[s] = Q2[m] \o Part(O, Fed(D2, m), fed'[s])
    BY DEF Ran
  <1>3. /\ pc'[s] \in {"sync", "loop"} => M2[a] = m
        /\ pc'[s] = "next" => fed'[s] = T2[a] /\ a > 0 /\ M2[a - 1] = m /\ M2[a] = m + 1
    BY DEF Ran
  <1>. QED BY <1>1, <1>2, <1>3 DEF Ran

(* Rank 0 announces a flag when it has made every step decided. *)
Longer(F, T, flag) ==
  [a \in 0..(Len(F) + 1) |-> IF a <= Len(F) THEN T[a] ELSE T[Len(F)] + (IF flag THEN 1 ELSE 0)]
MoreSteps(F, M, P, flag, t) ==
  [a \in 0..(Len(F) + 1) |-> IF a <= Len(F) THEN M[a]
     ELSE M[Len(F)] + (IF flag \/ t = P[M[Len(F)]] THEN 0 ELSE 1)]

Announces(F, T, M, P, flag, F2, T2, M2) ==
  /\ F2 = Append(F, flag) /\ T2 = Longer(F, T, flag)
  /\ M2 = MoreSteps(F, M, P, flag, T2[Len(F) + 1])

(* A flag prolongs the schedule. *)
LEMMA FlagsGrow ==
  ASSUME NEW F, NEW T, NEW M, NEW D, NEW P, NEW O, NEW Q, HistType(F, T, M, D, P, O, Q),
         Schedule(F, T, M, D, P), NEW flag \in BOOLEAN, M[Len(F)] = Len(D),
         NEW G, NEW T2, NEW M2, Announces(F, T, M, P, flag, G, T2, M2)
  PROVE  /\ HistType(G, T2, M2, D, P, O, Q) /\ Schedule(G, T2, M2, D, P)
         /\ \A a \in 0..Len(F) : T2[a] = T[a] /\ M2[a] = M[a]
  <1>1. PICK l : l = Len(F)
    OBVIOUS
  <1>2. /\ F \in Seq(BOOLEAN) /\ T \in [0..l -> Nat] /\ M \in [0..l -> Nat]
        /\ P \in [0..Len(D) -> Nat] /\ Len(D) \in Nat /\ l \in Nat
    BY <1>1 DEF HistType
  <1>3. /\ G \in Seq(BOOLEAN) /\ Len(G) = l + 1 /\ G[l + 1] = flag
        /\ \A a \in 1..l : G[a] = F[a]
    BY <1>1, <1>2, AppendProperties DEF Announces
  <1>4. /\ T2 = [a \in 0..(l + 1) |-> IF a <= l THEN T[a] ELSE T[l] + (IF flag THEN 1 ELSE 0)]
        /\ M2 = [a \in 0..(l + 1) |-> IF a <= l THEN M[a]
                   ELSE M[l] + (IF flag \/ T2[l + 1] = P[M[l]] THEN 0 ELSE 1)]
    BY <1>1 DEF Announces, Longer, MoreSteps
  <1>0. l + 1 \in 0..(l + 1) /\ ~(l + 1 <= l)
        /\ \A a \in 0..l : a \in 0..(l + 1) /\ a <= l
    BY <1>2
  <1>5. \A a \in 0..l : T2[a] = T[a] /\ M2[a] = M[a] /\ T[a] \in Nat /\ M[a] \in Nat
    <2>1. \A a \in 0..l : T2[a] = T[a] /\ M2[a] = M[a]
      BY <1>0, <1>4
    <2>. QED BY <1>2, <2>1
  <1>6. /\ T2[l + 1] = T[l] + (IF flag THEN 1 ELSE 0)
        /\ M2[l + 1] = M[l] + (IF flag \/ T2[l + 1] = P[M[l]] THEN 0 ELSE 1)
    BY <1>0, <1>4
  <1>7. T2 \in [0..(l + 1) -> Nat]
    <2>1. \A a \in 0..(l + 1) : T2[a] \in Nat
      <3>1. l \in 0..l /\ T[l] \in Nat
        BY <1>2
      <3>2. T2[l + 1] \in Nat
        BY <1>6, <3>1
      <3>3. \A a \in 0..(l + 1) : a \in 0..l \/ a = l + 1
        BY <1>2
      <3>. QED BY <1>5, <3>2, <3>3
    <2>. QED BY <1>4, <2>1
  <1>8. M2 \in [0..(l + 1) -> Nat]
    <2>1. \A a \in 0..(l + 1) : M2[a] \in Nat
      <3>1. l \in 0..l /\ M[l] \in Nat
        BY <1>2
      <3>2. M2[l + 1] \in Nat
        BY <1>6, <3>1
      <3>3. \A a \in 0..(l + 1) : a \in 0..l \/ a = l + 1
        BY <1>2
      <3>. QED BY <1>5, <3>2, <3>3
    <2>. QED BY <1>4, <2>1
  <1>9. HistType(G, T2, M2, D, P, O, Q)
    BY <1>3, <1>7, <1>8 DEF HistType
  <1>10. M[l] = Len(D) /\ l \in 0..l
    BY <1>1, <1>2
  <1>11. ASSUME NEW a \in 1..(l + 1)
         PROVE  /\ M2[a - 1] \in 0..Len(D)
                /\ G[a] => T2[a] = T2[a - 1] + 1 /\ M2[a] = M2[a - 1]
                /\ ~G[a] => /\ T2[a] = T2[a - 1]
                            /\ M2[a] = M2[a - 1] + (IF T2[a] = P[M2[a - 1]] THEN 0 ELSE 1)
                /\ M2[a] = M2[a - 1] + 1 /\ M2[a] <= Len(D) => D[M2[a]].fed = T2[a]
    <2>1. CASE a = l + 1
      <3>1. a - 1 = l /\ T2[a - 1] = T[l] /\ M2[a - 1] = M[l] /\ G[a] = flag /\ T[l] \in Nat
        BY <1>2, <1>3, <1>5, <1>10, <2>1
      <3>2. M2[a] = M2[a - 1] + 1 => ~(M2[a] <= Len(D))
        BY <1>2, <1>10, <3>1
      <3>3. M2[a - 1] \in 0..Len(D)
        BY <1>2, <1>10, <3>1
      <3>4. flag => T2[a] = T2[a - 1] + 1 /\ M2[a] = M2[a - 1]
        BY <1>2, <1>6, <1>10, <2>1, <3>1
      <3>5. ~flag => /\ T2[a] = T2[a - 1]
                     /\ M2[a] = M2[a - 1] + (IF T2[a] = P[M2[a - 1]] THEN 0 ELSE 1)
        BY <1>2, <1>6, <1>10, <2>1, <3>1
      <3>. QED BY <3>1, <3>2, <3>3, <3>4, <3>5
    <2>2. CASE a # l + 1
      <3>1. a \in 1..l /\ a \in 0..l /\ a - 1 \in 0..l
        BY <1>2, <2>2
      <3>2. /\ M2[a - 1] = M[a - 1] /\ M2[a] = M[a] /\ T2[a - 1] = T[a - 1] /\ T2[a] = T[a]
            /\ G[a] = F[a]
        BY <1>3, <1>5, <3>1
      <3>3. /\ M[a - 1] \in 0..Len(D)
            /\ F[a] => T[a] = T[a - 1] + 1 /\ M[a] = M[a - 1]
            /\ ~F[a] => /\ T[a] = T[a - 1]
                        /\ M[a] = M[a - 1] + (IF T[a] = P[M[a - 1]] THEN 0 ELSE 1)
            /\ M[a] = M[a - 1] + 1 /\ M[a] <= Len(D) => D[M[a]].fed = T[a]
        BY <1>1, <3>1 DEF Schedule
      <3>. QED BY <3>2, <3>3
    <2>. QED BY <2>1, <2>2
  <1>12. ASSUME NEW a \in 0..(l + 1), NEW b \in 0..(l + 1), a <= b PROVE M2[a] <= M2[b]
    <2>1. \A c, d \in 0..l : c <= d => M[c] <= M[d]
      BY <1>1 DEF Schedule
    <2>2. CASE b = l + 1
      <3>1. M2[b] >= M[l]
        BY <1>2, <1>6, <1>10, <2>2
      <3>2. CASE a = l + 1
        BY <1>2, <1>8, <2>2, <3>2
      <3>3. CASE a # l + 1
        <4>1. a \in 0..l /\ a <= l
          BY <1>2, <3>3
        <4>2. M2[a] <= M[l]
          BY <1>5, <1>10, <2>1, <4>1
        <4>3. M2[a] \in Nat /\ M2[b] \in Nat /\ M[l] \in Nat
          BY <1>5, <1>8, <1>10
        <4>. QED BY <3>1, <4>2, <4>3
      <3>. QED BY <3>2, <3>3
    <2>3. CASE b # l + 1
      <3>1. a \in 0..l /\ b \in 0..l
        BY <1>2, <1>12, <2>3
      <3>. QED BY <1>5, <1>12, <2>1, <3>1
    <2>. QED BY <2>2, <2>3
  <1>13. T2[0] = 0 /\ M2[0] = 0
    <2>1. 0 \in 0..l /\ T[0] = 0 /\ M[0] = 0
      BY <1>2 DEF Schedule
    <2>. QED BY <1>5, <2>1
  <1>14. Schedule(G, T2, M2, D, P)
    BY <1>3, <1>11, <1>12, <1>13 DEF Schedule
  <1>. QED BY <1>1, <1>5, <1>9, <1>14

(* A rank that does nothing is where it was in a longer schedule. *)
LEMMA RunSame ==
  ASSUME NEW s \in Ranks, NEW a, NEW m, NEW T, NEW M, NEW D, NEW P, NEW O, NEW Q,
         NEW T2, NEW M2, Ran(s, a, m, T, M, D, P, O, Q),
         T2[a] = T[a], M2[a] = M[a], a > 0 => M2[a - 1] = M[a - 1]
  PROVE  Ran(s, a, m, T2, M2, D, P, O, Q)
  BY DEF Ran

(* Rank r reads the next flag of the history. *)
OneMore(at, r, at2) == at2 = [at EXCEPT ![r] = @ + 1]

(* A rank reads a flag; the others are where they were. *)
LEMMA MoveRuns ==
  ASSUME CallType, MainType, NEW F, NEW T, NEW M, NEW D, NEW P, NEW O, NEW Q,
         HistType(F, T, M, D, P, O, Q), Schedule(F, T, M, D, P), Decisions(D, P, O, Q),
         NEW r \in Ranks, NEW at \in [Ranks -> Nat], NEW n \in [Ranks -> Nat],
         \A s \in Ranks : /\ n[s] \in 0..Len(D) /\ at[s] \in 0..Len(F)
                          /\ Ran(s, at[s], n[s], T, M, D, P, O, Q),
         at[r] # Len(F), pc[r] = "sync",
         (F[at[r] + 1] /\ tpq[r] # <<>> /\ Take(r)) \/ (~F[at[r] + 1] /\ Synced(r)),
         NEW at2, OneMore(at, r, at2)
  PROVE  /\ at2 \in [Ranks -> Nat] /\ at2[r] = at[r] + 1 /\ at2[r] \in 0..Len(F)
         /\ \A s \in Ranks : s # r => at2[s] = at[s]
         /\ \A s \in Ranks : Ran(s, at2[s], n[s], T, M, D, P, O, Q)'
         /\ pc' \in [Ranks -> {"sync", "next", "loop", "ended", "failed"}]
         /\ inflight' \in [Ranks -> Int] /\ outs' = outs
  <1>1. PICK a, m : a = at[r] /\ m = n[r]
    OBVIOUS
  <1>2. /\ F \in Seq(BOOLEAN) /\ T \in [0..Len(F) -> Nat] /\ M \in [0..Len(F) -> Nat]
        /\ P \in [0..Len(D) -> Nat] /\ Q \in [0..Len(D) -> Seq(Objects)] /\ O \in Seq(Objects)
        /\ Len(F) \in Nat /\ Len(O) \in Nat /\ Len(D) \in Nat /\ D \in Seq(Decided)
    BY DEF HistType
  <1>3. a \in 0..Len(F) /\ m \in 0..Len(D) /\ a + 1 \in 1..Len(F) /\ (a + 1) - 1 = a
        /\ a \in Nat /\ m \in Nat
    <2>1. a \in 0..Len(F) /\ m \in 0..Len(D) /\ a # Len(F)
      BY <1>1
    <2>2. Len(F) \in Nat /\ Len(D) \in Nat
      BY <1>2
    <2>. QED BY <2>1, <2>2
  <1>4. Ran(r, a, m, T, M, D, P, O, Q)
    BY <1>1
  <1>5. Sorts(a, m, T, M, D, P, O, Q)
    <2>1. T[a] \in Nat /\ M[a] \in Nat /\ P[m] \in Nat /\ Q[m] \in Seq(Objects)
      BY <1>2, <1>3
    <2>2. Fed(D, m) \in Nat
      <3>1. CASE m = 0
        BY <3>1 DEF Fed
      <3>2. CASE m # 0
        <4>1. D[m] \in Decided
          BY <1>2, <1>3, <3>2
        <4>. QED BY <3>2, <4>1, DecidedFacts DEF Fed
      <3>. QED BY <3>1, <3>2
    <2>. QED BY <1>2, <1>3, <2>1, <2>2 DEF Sorts
  <1>6. /\ F[a + 1] => T[a + 1] = T[a] + 1 /\ M[a + 1] = M[a]
        /\ ~F[a + 1] => /\ T[a + 1] = T[a]
                    /\ M[a + 1] = M[a] + (IF T[a + 1] = P[M[a]] THEN 0 ELSE 1)
    <2>1. \A b \in 1..Len(F) :
            /\ F[b] => T[b] = T[b - 1] + 1 /\ M[b] = M[b - 1]
            /\ ~F[b] => /\ T[b] = T[b - 1]
                        /\ M[b] = M[b - 1] + (IF T[b] = P[M[b - 1]] THEN 0 ELSE 1)
      BY DEF Schedule
    <2>. QED BY <1>3, <2>1
  <1>7. Ran(r, a + 1, m, T, M, D, P, O, Q)'
    <2>1. CASE F[a + 1] /\ tpq[r] # <<>> /\ Take(r)
      <3>1. T[a + 1] = T[a] + 1 /\ M[a + 1] = M[a]
        BY <1>6, <2>1
      <3>. QED BY <1>4, <1>5, <2>1, <3>1, TakeRuns
    <2>2. CASE ~F[a + 1] /\ Synced(r)
      <3>1. T[a + 1] = T[a] /\ M[a + 1] = M[a] + (IF T[a + 1] = P[M[a]] THEN 0 ELSE 1)
        BY <1>6, <2>2
      <3>. QED BY <1>4, <1>5, <2>2, <3>1, SyncedRuns
    <2>. QED BY <1>1, <2>1, <2>2
  <1>8. /\ at2 \in [Ranks -> Nat] /\ at2[r] = a + 1 /\ at2[r] \in 0..Len(F)
        /\ \A s \in Ranks : s # r => at2[s] = at[s]
    BY <1>1, <1>3 DEF OneMore
  <1>9. /\ \A s \in Ranks : s # r =>
             /\ tpq'[s] = tpq[s] /\ packets'[s] = packets[s] /\ pend'[s] = pend[s]
             /\ fed'[s] = fed[s] /\ inflight'[s] = inflight[s] /\ pc'[s] = pc[s]
        /\ pc' \in [Ranks -> {"sync", "next", "loop", "ended", "failed"}]
        /\ inflight' \in [Ranks -> Int] /\ outs' = outs
    <2>1. CASE Take(r)
      BY <2>1 DEF Take, CallType, MainType
    <2>2. CASE Synced(r)
      <3>1. /\ pend' = [pend EXCEPT ![r] = @ \o packets[r]] /\ packets' = [packets EXCEPT ![r] = <<>>]
            /\ fed' = [fed EXCEPT ![r] = @ + Len(packets[r])]
            /\ inflight' = [inflight EXCEPT ![r] = @ + Len(packets[r])]
            /\ pc' = [pc EXCEPT ![r] = IF inflight'[r] = 0 THEN "loop" ELSE "next"]
            /\ tpq' = tpq /\ outs' = outs
        BY <2>2 DEF Synced
      <3>2. Len(packets[r]) \in Nat
        BY DEF CallType
      <3>3. inflight' \in [Ranks -> Int] /\ \A s \in Ranks : s # r => inflight'[s] = inflight[s]
        BY <3>1, <3>2 DEF MainType
      <3>4. /\ pc' \in [Ranks -> {"sync", "next", "loop", "ended", "failed"}]
            /\ \A s \in Ranks : s # r => pc'[s] = pc[s]
        BY <3>1 DEF MainType
      <3>5. \A s \in Ranks : s # r =>
              /\ tpq'[s] = tpq[s] /\ packets'[s] = packets[s] /\ pend'[s] = pend[s] /\ fed'[s] = fed[s]
        BY <3>1 DEF CallType
      <3>. QED BY <3>1, <3>3, <3>4, <3>5
    <2>. QED BY <2>1, <2>2
  <1>10. ASSUME NEW s \in Ranks PROVE Ran(s, at2[s], n[s], T, M, D, P, O, Q)'
    <2>1. CASE s = r
      BY <1>1, <1>7, <1>8, <2>1
    <2>2. CASE s # r
      <3>1. PICK b, k : b = at[s] /\ k = n[s]
        OBVIOUS
      <3>2. Ran(s, b, k, T, M, D, P, O, Q)'
        BY <1>9, <2>2, <3>1, OtherRuns
      <3>. QED BY <1>8, <2>2, <3>1, <3>2
    <2>. QED BY <2>1, <2>2
  <1>. QED BY <1>1, <1>8, <1>9, <1>10

(* What the history says of one rank. *)
LEMMA AgreeRank ==
  ASSUME NEW F, NEW T, NEW M, NEW D, NEW P, NEW O, NEW Q, NEW at, NEW n,
         Agree(F, T, M, D, P, O, Q, at, n), NEW r \in Ranks
  PROVE  /\ Lags(r, at[r], n[r], F, D) /\ Ran(r, at[r], n[r], T, M, D, P, O, Q)
         /\ at[r] \in 0..Len(F) /\ n[r] \in 0..Len(D) /\ n[r] <= M[at[r]] /\ M[at[r]] \in Nat
         /\ r = 0 => at[r] = Len(F)
         /\ r # 0 => syncq[r] = Part(F, at[r], Len(F))
         /\ outs[r] = Part(D, n[r], Len(D))
         /\ pc[r] \in {"sync", "loop"} => M[at[r]] = n[r]
  <1>1. Lags(r, at[r], n[r], F, D) /\ Ran(r, at[r], n[r], T, M, D, P, O, Q)
        /\ M \in [0..Len(F) -> Nat]
    BY DEF Agree, HistType
  <1>2. PICK a, m : a = at[r] /\ m = n[r]
    OBVIOUS
  <1>3. Lags(r, a, m, F, D) /\ Ran(r, a, m, T, M, D, P, O, Q)
    BY <1>1, <1>2
  <1>4. /\ a \in 0..Len(F) /\ m \in 0..Len(D) /\ (r = 0 => a = Len(F))
        /\ r # 0 => syncq[r] = Part(F, a, Len(F))
        /\ outs[r] = Part(D, m, Len(D))
    BY <1>3 DEF Lags
  <1>5. m <= M[a] /\ (pc[r] \in {"sync", "loop"} => M[a] = m)
    BY <1>3 DEF Ran
  <1>6. M[a] \in Nat
    BY <1>1, <1>4
  <1>. QED BY <1>1, <1>2, <1>4, <1>5, <1>6

(* Rank 0 has made every step decided when it does not wait for the generator. *)
LEMMA LeadIsAhead ==
  ASSUME NEW F, NEW T, NEW M, NEW D, NEW P, NEW O, NEW Q, NEW at, NEW n,
         Agree(F, T, M, D, P, O, Q, at, n), pc[0] \in {"sync", "loop"}
  PROVE  /\ at[0] = Len(F) /\ M[Len(F)] = n[0] /\ n[0] = Len(D)
         /\ \A r \in Ranks : n[r] <= n[0]
  <1>1. /\ HistType(F, T, M, D, P, O, Q) /\ Schedule(F, T, M, D, P)
        /\ n \in [Ranks -> Nat]
    BY DEF Agree
  <1>2. PICK l \in Nat : l = Len(F)
    BY <1>1 DEF HistType
  <1>3. 0 \in Ranks /\ at[0] = l /\ M[l] = n[0] /\ n[0] \in 0..Len(D) /\ Len(D) \in Nat
    <2>1. 0 \in Ranks
      BY RankZero
    <2>2. at[0] = l /\ M[l] = n[0] /\ n[0] \in 0..Len(D)
      BY <1>2, <2>1, AgreeRank
    <2>. QED BY <1>1, <2>1, <2>2 DEF HistType
  <1>4. ASSUME NEW r \in Ranks PROVE n[r] <= n[0]
    <2>0. n[r] <= M[at[r]] /\ at[r] \in 0..Len(F)
      BY AgreeRank
    <2>1. n[r] <= M[at[r]] /\ at[r] \in 0..l /\ l \in 0..l /\ at[r] <= l
      BY <1>2, <2>0
    <2>2. M[at[r]] <= M[l] /\ M[at[r]] \in Nat /\ M[l] \in Nat
      BY <1>1, <1>2, <2>1 DEF Schedule, HistType
    <2>. QED BY <1>1, <1>3, <2>1, <2>2
  <1>5. n[0] = Len(D)
    <2>1. PICK r \in Ranks : n[r] = Len(D)
      BY DEF Agree
    <2>. QED BY <1>1, <1>3, <1>4, <2>1
  <1>. QED BY <1>2, <1>3, <1>4, <1>5

(* Rank 0 announces a flag and does what it says. *)
LEMMA LeadAgrees ==
  ASSUME CallType, NEW F, NEW T, NEW M, NEW D, NEW P, NEW O, NEW Q, NEW at, NEW n,
         Agree(F, T, M, D, P, O, Q, at, n), SyncLead
  PROVE  /\ M[Len(F)] = Len(D) /\ n[0] = Len(D) /\ at[0] = Len(F) /\ (\A r \in Ranks : n[r] <= n[0])
         /\ \E flag \in BOOLEAN : \E G, T2, M2, at2 :
              /\ Announces(F, T, M, P, flag, G, T2, M2) /\ OneMore(at, 0, at2)
              /\ Agree(G, T2, M2, D, P, O, Q, at2, n)'
  <1>1. /\ MainType /\ HistType(F, T, M, D, P, O, Q) /\ Schedule(F, T, M, D, P) /\ Decisions(D, P, O, Q)
        /\ at \in [Ranks -> Nat] /\ n \in [Ranks -> Nat]
        /\ \A r \in Ranks : Lags(r, at[r], n[r], F, D) /\ Ran(r, at[r], n[r], T, M, D, P, O, Q)
    BY DEF Agree
  <1>2. PICK l \in Nat : l = Len(F)
    BY <1>1 DEF HistType
  <1>3. 0 \in Ranks /\ pc[0] = "sync"
    BY RankZero DEF SyncLead
  <1>4. \A r \in Ranks : n[r] <= n[0]
    BY <1>3, LeadIsAhead
  <1>5. at[0] = l /\ M[l] = n[0] /\ n[0] = Len(D) /\ M[l] = Len(D)
    BY <1>2, <1>3, LeadIsAhead
  <1>6. PICK flag \in BOOLEAN :
          /\ syncq' = [s \in Ranks \ {0} |-> Append(syncq[s], flag)]
          /\ (flag /\ tpq[0] # <<>> /\ Take(0)) \/ (~flag /\ Synced(0))
    BY DEF SyncLead, Announce
  <1>7. PICK G, T2, M2, at2 :
          Announces(F, T, M, P, flag, G, T2, M2) /\ OneMore(at, 0, at2)
    BY DEF Announces, OneMore
  <1>8. /\ HistType(G, T2, M2, D, P, O, Q) /\ Schedule(G, T2, M2, D, P)
        /\ \A a \in 0..l : T2[a] = T[a] /\ M2[a] = M[a]
    <2>1. M[Len(F)] = Len(D)
      BY <1>2, <1>5
    <2>2. /\ HistType(G, T2, M2, D, P, O, Q) /\ Schedule(G, T2, M2, D, P)
          /\ \A a \in 0..Len(F) : T2[a] = T[a] /\ M2[a] = M[a]
      <3>1. HistType(F, T, M, D, P, O, Q) /\ Schedule(F, T, M, D, P)
        BY <1>1
      <3>. QED BY <1>7, <2>1, <3>1, FlagsGrow
    <2>. QED BY <1>2, <2>2
  <1>9. G = Append(F, flag) /\ Len(G) = l + 1 /\ G[l + 1] = flag /\ F \in Seq(BOOLEAN)
    BY <1>1, <1>2, <1>7 DEF HistType, Announces
  <1>10. ASSUME NEW s \in Ranks
         PROVE  /\ n[s] \in 0..Len(D) /\ at[s] \in 0..Len(G) /\ at[s] \in 0..l
                /\ Ran(s, at[s], n[s], T2, M2, D, P, O, Q)
    <2>1. PICK a, m : a = at[s] /\ m = n[s]
      OBVIOUS
    <2>2. a \in 0..l /\ m \in 0..Len(D) /\ Ran(s, a, m, T, M, D, P, O, Q)
      BY <1>1, <1>2, <2>1 DEF Lags
    <2>3. T2[a] = T[a] /\ M2[a] = M[a] /\ (a > 0 => M2[a - 1] = M[a - 1])
      <3>1. a > 0 => a - 1 \in 0..l
        BY <1>2, <2>2
      <3>. QED BY <1>8, <2>2, <3>1
    <2>4. Ran(s, a, m, T2, M2, D, P, O, Q)
      BY <2>2, <2>3, RunSame
    <2>. QED BY <1>2, <1>9, <2>1, <2>2, <2>4
  <1>11. /\ at2 \in [Ranks -> Nat] /\ at2[0] = l + 1 /\ at2[0] \in 0..Len(G)
         /\ \A s \in Ranks : s # 0 => at2[s] = at[s]
         /\ \A s \in Ranks : Ran(s, at2[s], n[s], T2, M2, D, P, O, Q)'
         /\ pc' \in [Ranks -> {"sync", "next", "loop", "ended", "failed"}]
         /\ inflight' \in [Ranks -> Int] /\ outs' = outs
    <2>1. at[0] # Len(G) /\ G[at[0] + 1] = flag
      BY <1>2, <1>5, <1>9
    <2>2. \A s \in Ranks : /\ n[s] \in 0..Len(D) /\ at[s] \in 0..Len(G)
                           /\ Ran(s, at[s], n[s], T2, M2, D, P, O, Q)
      BY <1>10
    <2>3. /\ at2 \in [Ranks -> Nat] /\ at2[0] = at[0] + 1 /\ at2[0] \in 0..Len(G)
          /\ \A s \in Ranks : s # 0 => at2[s] = at[s]
          /\ \A s \in Ranks : Ran(s, at2[s], n[s], T2, M2, D, P, O, Q)'
          /\ pc' \in [Ranks -> {"sync", "next", "loop", "ended", "failed"}]
          /\ inflight' \in [Ranks -> Int] /\ outs' = outs
      <3>1. pc[0] = "sync" /\ 0 \in Ranks /\ at \in [Ranks -> Nat] /\ n \in [Ranks -> Nat]
            /\ OneMore(at, 0, at2)
        BY <1>1, <1>3, <1>7
      <3>2. MainType /\ Decisions(D, P, O, Q)
        BY <1>1
      <3>3. HistType(G, T2, M2, D, P, O, Q) /\ Schedule(G, T2, M2, D, P)
        BY <1>8
      <3>4. (G[at[0] + 1] /\ tpq[0] # <<>> /\ Take(0)) \/ (~G[at[0] + 1] /\ Synced(0))
        BY <1>6, <2>1
      <3>. QED BY <2>1, <2>2, <3>1, <3>2, <3>3, <3>4, MoveRuns
    <2>. QED BY <1>5, <2>3
  <1>12. MainType'
    <2>1. syncq' \in [Ranks \ {0} -> Seq(BOOLEAN)]
      BY <1>1, <1>6 DEF MainType
    <2>. QED BY <1>11, <2>1 DEF MainType
  <1>13. ASSUME NEW s \in Ranks PROVE Lags(s, at2[s], n[s], G, D)'
    <2>1. n[s] \in 0..Len(D) /\ outs[s] = Part(D, n[s], Len(D)) /\ at[s] \in 0..l
      BY <1>1, <1>2 DEF Lags
    <2>2. CASE s = 0
      BY <1>2, <1>9, <1>11, <2>1, <2>2 DEF Lags
    <2>3. CASE s # 0
      <3>1. PICK a : a = at[s] /\ a = at2[s]
        BY <1>11, <2>3
      <3>2. syncq[s] = Part(F, a, l) /\ a \in Nat /\ a <= l /\ a \in 0..(l + 1)
        <4>1. syncq[s] = Part(F, at[s], Len(F))
          BY <2>3, AgreeRank
        <4>2. a \in 0..l
          BY <2>1, <3>1
        <4>3. a \in Nat /\ a <= l /\ a \in 0..(l + 1)
          BY <4>2
        <4>. QED BY <1>2, <3>1, <4>1, <4>3
      <3>3. Part(G, a, l + 1) = Append(Part(F, a, l), flag)
        BY <1>2, <1>9, <3>2, PartAppend
      <3>4. syncq'[s] = Part(G, a, l + 1)
        BY <1>6, <2>3, <3>2, <3>3
      <3>. QED BY <1>9, <1>11, <2>1, <2>3, <3>1, <3>2, <3>4 DEF Lags
    <2>. QED BY <2>2, <2>3
  <1>14. Agree(G, T2, M2, D, P, O, Q, at2, n)'
    <2>1. \E r \in Ranks : n[r] = Len(D)
      BY DEF Agree
    <2>. QED BY <1>1, <1>8, <1>11, <1>12, <1>13, <2>1 DEF Agree
  <1>. QED BY <1>2, <1>3, <1>4, <1>5, <1>7, <1>14

(* A rank reads the flag rank 0 announced. *)
LEMMA FollowAgrees ==
  ASSUME CallType, NEW F, NEW T, NEW M, NEW D, NEW P, NEW O, NEW Q, NEW at, NEW n,
         Agree(F, T, M, D, P, O, Q, at, n), NEW r \in Ranks, SyncFollow(r)
  PROVE  \E at2 : OneMore(at, r, at2) /\ Agree(F, T, M, D, P, O, Q, at2, n)'
  <1>1. /\ MainType /\ HistType(F, T, M, D, P, O, Q) /\ Schedule(F, T, M, D, P) /\ Decisions(D, P, O, Q)
        /\ at \in [Ranks -> Nat] /\ n \in [Ranks -> Nat]
        /\ \A s \in Ranks : Lags(s, at[s], n[s], F, D) /\ Ran(s, at[s], n[s], T, M, D, P, O, Q)
    BY DEF Agree
  <1>2. PICK l, a : l = Len(F) /\ a = at[r] /\ l \in Nat
    <2>1. Len(F) \in Nat
      BY <1>1 DEF HistType
    <2>. QED BY <2>1
  <1>3. /\ pc[r] = "sync" /\ r # 0 /\ syncq[r] # <<>> /\ syncq' = [syncq EXCEPT ![r] = Tail(@)]
        /\ (Head(syncq[r]) /\ tpq[r] # <<>> /\ Take(r)) \/ (~Head(syncq[r]) /\ Synced(r))
    BY DEF SyncFollow
  <1>4. syncq[r] = Part(F, a, l) /\ a \in 0..l /\ F \in Seq(BOOLEAN) /\ r \in Ranks \ {0}
    BY <1>1, <1>2, <1>3 DEF Lags, HistType
  <1>5. /\ a # l /\ Head(syncq[r]) = F[a + 1] /\ F[a + 1] \in BOOLEAN
        /\ Tail(syncq[r]) = Part(F, a + 1, l)
    <2>1. a # l
      BY <1>2, <1>3, <1>4, RestEmpty
    <2>2. /\ Head(syncq[r]) = F[a + 1] /\ F[a + 1] \in BOOLEAN
          /\ Tail(syncq[r]) = Part(F, a + 1, l)
      BY <1>2, <1>4, <2>1, RestHead
    <2>. QED BY <2>1, <2>2
  <1>6. PICK at2 : OneMore(at, r, at2)
    BY DEF OneMore
  <1>7. /\ at2 \in [Ranks -> Nat] /\ at2[r] = a + 1 /\ at2[r] \in 0..l
        /\ \A s \in Ranks : s # r => at2[s] = at[s]
        /\ \A s \in Ranks : Ran(s, at2[s], n[s], T, M, D, P, O, Q)'
        /\ pc' \in [Ranks -> {"sync", "next", "loop", "ended", "failed"}]
        /\ inflight' \in [Ranks -> Int] /\ outs' = outs
    <2>1. \A s \in Ranks : /\ n[s] \in 0..Len(D) /\ at[s] \in 0..Len(F)
                           /\ Ran(s, at[s], n[s], T, M, D, P, O, Q)
      BY <1>1 DEF Lags
    <2>3. (F[at[r] + 1] /\ tpq[r] # <<>> /\ Take(r)) \/ (~F[at[r] + 1] /\ Synced(r))
      BY <1>2, <1>3, <1>5
    <2>4. at[r] # Len(F)
      BY <1>2, <1>5
    <2>5. pc[r] = "sync" /\ at \in [Ranks -> Nat] /\ n \in [Ranks -> Nat]
      BY <1>1, <1>3
    <2>6. MainType /\ HistType(F, T, M, D, P, O, Q) /\ Schedule(F, T, M, D, P) /\ Decisions(D, P, O, Q)
      BY <1>1
    <2>7. /\ at2 \in [Ranks -> Nat] /\ at2[r] = at[r] + 1 /\ at2[r] \in 0..Len(F)
          /\ \A s \in Ranks : s # r => at2[s] = at[s]
          /\ \A s \in Ranks : Ran(s, at2[s], n[s], T, M, D, P, O, Q)'
          /\ pc' \in [Ranks -> {"sync", "next", "loop", "ended", "failed"}]
          /\ inflight' \in [Ranks -> Int] /\ outs' = outs
      BY <1>6, <2>1, <2>3, <2>4, <2>5, <2>6, MoveRuns
    <2>. QED BY <1>2, <2>7
  <1>8. syncq' \in [Ranks \ {0} -> Seq(BOOLEAN)] /\ syncq'[r] = Part(F, a + 1, l)
        /\ \A s \in Ranks \ {0} : s # r => syncq'[s] = syncq[s]
    <2>1. Tail(syncq[r]) \in Seq(BOOLEAN)
      BY <1>1, <1>3, <1>4, HeadTailProperties DEF MainType
    <2>. QED BY <1>1, <1>3, <1>4, <1>5, <2>1 DEF MainType
  <1>9. MainType'
    BY <1>7, <1>8 DEF MainType
  <1>10. ASSUME NEW s \in Ranks PROVE Lags(s, at2[s], n[s], F, D)'
    <2>1. Lags(s, at[s], n[s], F, D)
      BY <1>1
    <2>2. CASE s = r
      BY <1>2, <1>3, <1>7, <1>8, <2>1, <2>2 DEF Lags
    <2>3. CASE s # r
      BY <1>7, <1>8, <2>1, <2>3 DEF Lags
    <2>. QED BY <2>2, <2>3
  <1>11. Agree(F, T, M, D, P, O, Q, at2, n)'
    <2>1. \E s \in Ranks : n[s] = Len(D)
      BY DEF Agree
    <2>. QED BY <1>1, <1>7, <1>9, <1>10, <2>1 DEF Agree
  <1>. QED BY <1>6, <1>11

(* The main thread goes on to the end of its loop, or is where it was. *)
LEMMA AgreeKept ==
  ASSUME NEW F, NEW T, NEW M, NEW D, NEW P, NEW O, NEW Q, NEW at, NEW n,
         Agree(F, T, M, D, P, O, Q, at, n), UNCHANGED <<packets, inflight, pend, fed, outs, tpq, syncq>>,
         pc' \in [Ranks -> {"sync", "next", "loop", "ended", "failed"}],
         \A r \in Ranks : pc'[r] = pc[r] \/ (pc[r] = "loop" /\ pc'[r] = "sync")
  PROVE  Agree(F, T, M, D, P, O, Q, at, n)'
  <1>1. MainType'
    BY DEF Agree, MainType
  <1>2. ASSUME NEW r \in Ranks
        PROVE  Lags(r, at[r], n[r], F, D)' /\ Ran(r, at[r], n[r], T, M, D, P, O, Q)'
    <2>1. PICK a, m : a = at[r] /\ m = n[r]
      OBVIOUS
    <2>2. Lags(r, a, m, F, D) /\ Ran(r, a, m, T, M, D, P, O, Q)
      BY <2>1 DEF Agree
    <2>3. Lags(r, a, m, F, D)'
      BY <2>2 DEF Lags
    <2>4. /\ pc'[r] \in {"sync", "loop"} => pc[r] \in {"sync", "loop"}
          /\ pc'[r] = "next" => pc[r] = "next"
      OBVIOUS
    <2>5. Ran(r, a, m, T, M, D, P, O, Q)'
      BY <2>2, <2>4 DEF Ran
    <2>. QED BY <2>1, <2>3, <2>5
  <1>. QED BY <1>1, <1>2 DEF Agree

(* An object is put in the queues of all ranks. *)
Grows(O, x, O2) == O2 = Append(O, x)
(* The object put is at the end of what is left to take. *)
LEMMA PartGrows ==
  ASSUME NEW S, NEW s \in Seq(S), NEW x \in S, NEW a \in Nat, a <= Len(s), NEW s2, Grows(s, x, s2)
  PROVE  Part(s2, a, Len(s) + 1) = Append(Part(s, a, Len(s)), x)
  <1>1. PICK b \in Nat : b = Len(s)
    OBVIOUS
  <1>. QED BY <1>1, PartAppend DEF Grows

(* It is in no part taken before. *)
LEMMA PartStays ==
  ASSUME NEW S, NEW s \in Seq(S), NEW x \in S, NEW a \in Nat, NEW b \in Nat, a <= b, b <= Len(s),
         NEW s2, Grows(s, x, s2)
  PROVE  Part(s2, a, b) = Part(s, a, b)
  BY PartAppend DEF Grows

(* A rank finds it in its queue. *)
LEMMA ObjectRuns ==
  ASSUME NEW O \in Seq(Objects), NEW x \in Objects, NEW r \in Ranks, NEW a, NEW m,
         NEW T, NEW M, NEW D, NEW P, NEW Q, NEW O2,
         T[a] \in Nat, Fed(D, m) \in Nat, fed[r] \in Nat,
         Grows(O, x, O2), Ran(r, a, m, T, M, D, P, O, Q),
         tpq'[r] = Append(tpq[r], x), UNCHANGED <<packets, inflight, pend, fed>>,
         pc'[r] = pc[r] \/ (pc[r] = "loop" /\ pc'[r] = "sync")
  PROVE  Ran(r, a, m, T, M, D, P, O2, Q)'
  <1>1. PICK f \in Nat, t \in Nat, l \in Nat, g \in Nat :
          f = fed[r] /\ t = T[a] /\ l = Len(O) /\ g = Fed(D, m)
    OBVIOUS
  <1>2. /\ m <= M[a] /\ f <= t /\ t <= l /\ tpq[r] = Part(O, t, l) /\ packets[r] = Part(O, f, t)
        /\ g <= f /\ pend[r] = Q[m] \o Part(O, g, f) /\ inflight[r] = f - P[m]
    BY <1>1 DEF Ran
  <1>3. /\ Part(O2, f, t) = Part(O, f, t) /\ Part(O2, g, f) = Part(O, g, f)
        /\ Part(O2, t, l + 1) = Append(Part(O, t, l), x)
    <2>1. t <= Len(O) /\ f <= Len(O) /\ f <= t /\ g <= f
      BY <1>1, <1>2
    <2>2. Part(O2, f, t) = Part(O, f, t)
      BY <1>1, <2>1, PartStays
    <2>3. Part(O2, g, f) = Part(O, g, f)
      BY <1>1, <2>1, PartStays
    <2>4. Part(O2, t, Len(O) + 1) = Append(Part(O, t, Len(O)), x)
      BY <1>1, <2>1, PartGrows
    <2>. QED BY <1>1, <2>2, <2>3, <2>4
  <1>4. Len(O2) = l + 1 /\ t <= l + 1
    BY <1>1, <1>2 DEF Grows
  <1>5. /\ tpq'[r] = Part(O2, T[a], Len(O2)) /\ packets'[r] = Part(O2, fed'[r], T[a])
        /\ pend'[r] = Q[m] \o Part(O2, Fed(D, m), fed'[r])
    BY <1>1, <1>2, <1>3, <1>4
  <1>6. /\ m <= M[a] /\ fed'[r] <= T[a] /\ T[a] <= Len(O2) /\ Fed(D, m) <= fed'[r]
        /\ inflight'[r] = fed'[r] - P[m]
    BY <1>1, <1>2, <1>4
  <1>7. /\ pc'[r] \in {"sync", "loop"} => M[a] = m
        /\ pc'[r] = "next" => fed'[r] = T[a] /\ a > 0 /\ M[a - 1] = m /\ M[a] = m + 1
    BY DEF Ran
  <1>. QED BY <1>5, <1>6, <1>7 DEF Ran

(* A decision is of a number of objects. *)
LEMMA FedFacts ==
  ASSUME NEW D \in Seq(Decided), NEW k \in 0..Len(D)
  PROVE  Fed(D, k) \in Nat
  <1>1. CASE k = 0
    BY <1>1 DEF Fed
  <1>2. CASE k # 0
    <2>1. D[k] \in Decided
      BY <1>2
    <2>. QED BY <1>2, <2>1, DecidedFacts DEF Fed
  <1>. QED BY <1>1, <1>2

(* An object put prolongs the history. *)
LEMMA ObjectAgrees ==
  ASSUME CallType, NEW F, NEW T, NEW M, NEW D, NEW P, NEW O, NEW Q, NEW at, NEW n,
         Agree(F, T, M, D, P, O, Q, at, n), NEW x \in Objects, NEW O2, Grows(O, x, O2),
         UNCHANGED <<packets, inflight, pend, fed, outs, syncq>>,
         \A r \in Ranks : tpq'[r] = Append(tpq[r], x),
         pc' \in [Ranks -> {"sync", "next", "loop", "ended", "failed"}],
         \A r \in Ranks : pc'[r] = pc[r] \/ (pc[r] = "loop" /\ pc'[r] = "sync")
  PROVE  Agree(F, T, M, D, P, O2, Q, at, n)'
  <1>3. HistType(F, T, M, D, P, O, Q) /\ Decisions(D, P, O, Q) /\ Schedule(F, T, M, D, P)
    BY DEF Agree
  <1>4. /\ O \in Seq(Objects) /\ D \in Seq(Decided) /\ O2 \in Seq(Objects) /\ Len(O2) = Len(O) + 1
        /\ Len(O) \in Nat /\ Len(D) \in Nat /\ T \in [0..Len(F) -> Nat]
    <2>1. O \in Seq(Objects) /\ D \in Seq(Decided) /\ T \in [0..Len(F) -> Nat]
      BY <1>3 DEF HistType
    <2>. QED BY <2>1 DEF Grows
  <1>5. HistType(F, T, M, D, P, O2, Q)
    BY <1>3, <1>4 DEF HistType
  <1>6. Decisions(D, P, O2, Q)
    <2>1. ASSUME NEW k \in 1..Len(D)
          PROVE  /\ Input(D, O2, Q, k) = Input(D, O, Q, k) /\ D[k].fed <= Len(O2)
      <3>1. /\ k - 1 \in 0..Len(D) /\ D[k] \in Decided
        BY <1>4
      <3>2. PICK f \in Nat, g \in Nat : f = D[k].fed /\ g = Fed(D, k - 1)
        <4>1. Fed(D, k - 1) \in Nat
          BY <1>4, <3>1, FedFacts
        <4>2. D[k].fed \in Nat
          BY <3>1, DecidedFacts
        <4>. QED BY <4>1, <4>2
      <3>3. g <= f /\ f <= Len(O)
        BY <1>3, <3>2 DEF Decisions
      <3>4. Part(O2, g, f) = Part(O, g, f)
        BY <1>4, <3>2, <3>3, PartStays
      <3>5. Input(D, O2, Q, k) = Input(D, O, Q, k)
        BY <3>2, <3>4 DEF Input
      <3>6. D[k].fed <= Len(O2)
        BY <1>4, <3>2, <3>3
      <3>. QED BY <3>5, <3>6
    <2>2. /\ P[0] = 0 /\ Q[0] = <<>>
          /\ \A k \in 1..Len(D) :
               /\ Fed(D, k - 1) <= D[k].fed
               /\ P[k] = P[k - 1] + Answered(D[k].what)
               /\ Q[k] = After(Input(D, O, Q, k), D[k].what)
               /\ Len(Q[k]) + P[k] = D[k].fed
               /\ Chosen(D[k].what, Input(D, O, Q, k))
      BY <1>3 DEF Decisions
    <2>. QED BY <2>1, <2>2 DEF Decisions
  <1>7. MainType'
    BY DEF Agree, MainType
  <1>8. ASSUME NEW r \in Ranks
        PROVE  Lags(r, at[r], n[r], F, D)' /\ Ran(r, at[r], n[r], T, M, D, P, O2, Q)'
    <2>1. PICK a, m : a = at[r] /\ m = n[r]
      OBVIOUS
    <2>2. Lags(r, a, m, F, D) /\ Ran(r, a, m, T, M, D, P, O, Q)
      BY <2>1 DEF Agree
    <2>3. Lags(r, a, m, F, D)'
      BY <2>2 DEF Lags
    <2>4. T[a] \in Nat /\ Fed(D, m) \in Nat /\ fed[r] \in Nat
      <3>1. a \in 0..Len(F) /\ m \in 0..Len(D)
        BY <2>2 DEF Lags
      <3>2. T[a] \in Nat /\ fed[r] \in Nat
        BY <1>4, <3>1 DEF CallType
      <3>. QED BY <1>4, <3>1, <3>2, FedFacts
    <2>5. Ran(r, a, m, T, M, D, P, O2, Q)'
      BY <1>4, <2>2, <2>4, ObjectRuns
    <2>. QED BY <2>1, <2>3, <2>5
  <1>. QED BY <1>3, <1>5, <1>6, <1>7, <1>8 DEF Agree

(* A rank takes the step a decision of the history says. *)
LEMMA StepRuns ==
  ASSUME CallType, MainType, NEW r \in Ranks, NEW a, NEW m, NEW o,
         NEW T, NEW M, NEW D, NEW P, NEW O, NEW Q, NEW D2, NEW P2, NEW Q2,
         Sorts(a, m, T, M, D, P, O, Q), Ran(r, a, m, T, M, D, P, O, Q),
         P2[m + 1] = P[m] + Answered(o), Fed(D2, m + 1) = fed[r], Q2[m + 1] = After(pend[r], o),
         Q2[m + 1] \in Seq(Objects),
         pc[r] = "next", pend'[r] = After(pend[r], o), inflight'[r] = inflight[r] - Answered(o),
         UNCHANGED <<tpq, packets, fed>>, pc'[r] \in {"loop", "ended", "failed"}
  PROVE  Ran(r, a, m + 1, T, M, D2, P2, O, Q2)'
  <1>1. PICK f \in Nat, t \in Nat, l \in Nat : f = fed[r] /\ t = T[a] /\ l = Len(O)
    BY DEF CallType, Sorts
  <1>2. /\ f <= t /\ t <= l /\ tpq[r] = Part(O, t, l) /\ packets[r] = Part(O, f, t)
        /\ inflight[r] = f - P[m] /\ M[a] = m + 1
    BY <1>1 DEF Ran
  <1>3. Part(O, f, f) = <<>>
    <2>1. f <= Len(O) /\ O \in Seq(Objects)
      BY <1>1, <1>2 DEF Sorts
    <2>. QED BY <2>1, PartEmpty
  <1>4. pend'[r] = Q2[m + 1] \o Part(O, f, f)
    <2>1. PICK q \in Seq(Objects) : q = Q2[m + 1]
      OBVIOUS
    <2>2. q \o <<>> = q
      BY ConcatEmptySeq
    <2>. QED BY <1>3, <2>1, <2>2
  <1>5. inflight'[r] = f - P2[m + 1]
    <2>1. P[m] \in Nat /\ Answered(o) \in Nat
      BY DEF Sorts, Answered
    <2>. QED BY <1>1, <1>2, <2>1
  <1>6. /\ m + 1 <= M[a] /\ fed'[r] = f /\ tpq'[r] = tpq[r] /\ packets'[r] = packets[r]
    BY <1>1, <1>2 DEF Sorts
  <1>7. /\ fed'[r] <= T[a] /\ T[a] <= Len(O) /\ Fed(D2, m + 1) <= fed'[r]
        /\ tpq'[r] = Part(O, T[a], Len(O)) /\ packets'[r] = Part(O, fed'[r], T[a])
        /\ pend'[r] = Q2[m + 1] \o Part(O, Fed(D2, m + 1), fed'[r])
    <2>1. T[a] = t /\ Len(O) = l /\ Fed(D2, m + 1) = f /\ f <= f
      BY <1>1
    <2>2. fed'[r] <= T[a] /\ T[a] <= Len(O) /\ Fed(D2, m + 1) <= fed'[r]
      BY <1>2, <1>6, <2>1
    <2>3. tpq'[r] = Part(O, T[a], Len(O)) /\ packets'[r] = Part(O, fed'[r], T[a])
      BY <1>2, <1>6, <2>1
    <2>4. pend'[r] = Q2[m + 1] \o Part(O, Fed(D2, m + 1), fed'[r])
      BY <1>4, <1>6, <2>1
    <2>. QED BY <2>2, <2>3, <2>4
  <1>8. /\ pc'[r] \in {"sync", "loop"} => M[a] = m + 1
        /\ pc'[r] # "next"
    BY <1>2
  <1>. QED BY <1>1, <1>5, <1>6, <1>7, <1>8 DEF Ran

(* What a step does to the queues of its rank, when it takes outcome o. *)
Takes(r, o) ==
  /\ pend' = [pend EXCEPT ![r] = After(@, o)]
  /\ inflight' = [inflight EXCEPT ![r] = @ - Answered(o)]
  /\ pc' \in [Ranks -> {"sync", "next", "loop", "ended", "failed"}]
  /\ pc'[r] \in {"loop", "ended", "failed"} /\ \A s \in Ranks : s # r => pc'[s] = pc[s]
  /\ UNCHANGED <<tpq, packets, fed, syncq>>

(* The decision that rank r is the first to take. *)
Decides(D, P, Q, d, q, D2, P2, Q2) ==
  /\ D2 = Append(D, d)
  /\ P2 = [k \in 0..(Len(D) + 1) |-> IF k <= Len(D) THEN P[k] ELSE P[Len(D)] + Answered(d.what)]
  /\ Q2 = [k \in 0..(Len(D) + 1) |-> IF k <= Len(D) THEN Q[k] ELSE q]

Prolongs(l, D, P, Q, d, q, D2, P2, Q2) ==
  /\ D2 \in Seq(Decided) /\ Len(D2) = l + 1 /\ D2[l + 1] = d
  /\ P2 \in [0..(l + 1) -> Nat] /\ Q2 \in [0..(l + 1) -> Seq(Objects)]
  /\ P2[l + 1] = P[l] + Answered(d.what) /\ Q2[l + 1] = q
  /\ \A k \in 0..l : P2[k] = P[k] /\ Q2[k] = Q[k] /\ Fed(D2, k) = Fed(D, k)
  /\ \A k \in 1..l : D2[k] = D[k]

(* The history with one more decision. *)
LEMMA DecidesFacts ==
  ASSUME NEW D \in Seq(Decided), NEW P \in [0..Len(D) -> Nat], NEW Q \in [0..Len(D) -> Seq(Objects)],
         NEW d \in Decided, NEW q \in Seq(Objects), NEW D2, NEW P2, NEW Q2,
         Decides(D, P, Q, d, q, D2, P2, Q2)
  PROVE  Prolongs(Len(D), D, P, Q, d, q, D2, P2, Q2)
  <1>0. PICK l : l = Len(D)
    OBVIOUS
  <1>1. l \in Nat /\ l \in 0..l /\ l + 1 \in 0..(l + 1) /\ ~(l + 1 <= l)
        /\ \A k \in 0..l : k \in 0..(l + 1) /\ k <= l
    BY <1>0
  <1>2. /\ D2 \in Seq(Decided) /\ Len(D2) = l + 1 /\ D2[l + 1] = d
        /\ \A k \in 1..l : D2[k] = D[k]
    BY <1>0, AppendProperties DEF Decides
  <1>3. /\ P2 = [k \in 0..(l + 1) |-> IF k <= l THEN P[k] ELSE P[l] + Answered(d.what)]
        /\ Q2 = [k \in 0..(l + 1) |-> IF k <= l THEN Q[k] ELSE q]
    BY <1>0 DEF Decides
  <1>4. /\ P2[l + 1] = P[l] + Answered(d.what) /\ Q2[l + 1] = q
        /\ \A k \in 0..l : P2[k] = P[k] /\ Q2[k] = Q[k]
    BY <1>1, <1>3
  <1>5. \A k \in 0..(l + 1) : k \in 0..l \/ k = l + 1
    BY <1>1
  <1>6. P2 \in [0..(l + 1) -> Nat]
    <2>1. \A k \in 0..l : P2[k] \in Nat
      BY <1>0, <1>4
    <2>2. P2[l + 1] \in Nat
      <3>1. P[l] \in Nat
        BY <1>0, <1>1
      <3>. QED BY <1>4, <3>1 DEF Answered
    <2>3. \A k \in 0..(l + 1) : P2[k] \in Nat
      BY <1>5, <2>1, <2>2
    <2>. QED BY <1>3, <2>3
  <1>7. Q2 \in [0..(l + 1) -> Seq(Objects)]
    <2>1. \A k \in 0..l : Q2[k] \in Seq(Objects)
      BY <1>0, <1>4
    <2>3. \A k \in 0..(l + 1) : Q2[k] \in Seq(Objects)
      BY <1>4, <1>5, <2>1
    <2>. QED BY <1>3, <2>3
  <1>8. ASSUME NEW k \in 0..l PROVE Fed(D2, k) = Fed(D, k)
    <2>1. CASE k = 0
      BY <2>1 DEF Fed
    <2>2. CASE k # 0
      <3>1. D2[k] = D[k]
        BY <1>1, <1>2, <2>2
      <3>. QED BY <2>2, <3>1 DEF Fed
    <2>. QED BY <2>1, <2>2
  <1>. QED BY <1>0, <1>2, <1>4, <1>6, <1>7, <1>8 DEF Prolongs

(* The decision is one of what is in FastGen then: p, and q after it. *)
Follows(D, O, Q, d, p, q) ==
  /\ Fed(D, Len(D)) <= d.fed /\ d.fed <= Len(O)
  /\ p = Q[Len(D)] \o Part(O, Fed(D, Len(D)), d.fed)
  /\ q = After(p, d.what) /\ Chosen(d.what, p)

(* A decision answers at most one of what is in FastGen. *)
LEMMA FollowsLength ==
  ASSUME NEW F, NEW T, NEW M, NEW D, NEW P, NEW O, NEW Q, HistType(F, T, M, D, P, O, Q),
         Decisions(D, P, O, Q), NEW d \in Decided, NEW p, NEW q, Follows(D, O, Q, d, p, q)
  PROVE  Len(q) + (P[Len(D)] + Answered(d.what)) = d.fed
  <1>0. PICK l : l = Len(D)
    OBVIOUS
  <1>1. l \in 0..Len(D) /\ P[l] \in Nat
    BY <1>0 DEF HistType
  <1>2. PICK f \in Nat : f = d.fed
    BY DecidedFacts
  <1>3. PICK c, x : c = Part(O, Fed(D, l), f) /\ x = P[l]
    OBVIOUS
  <1>4. Fed(D, l) <= f /\ f <= Len(O) /\ p = Q[l] \o c /\ q = After(p, d.what) /\ Chosen(d.what, p)
    BY <1>0, <1>2, <1>3 DEF Follows
  <1>5. p \in Seq(Objects) /\ Len(p) = f - x
    <2>1. /\ Q[l] \o Part(O, Fed(D, l), f) \in Seq(Objects)
          /\ Len(Q[l] \o Part(O, Fed(D, l), f)) = f - P[l]
      <3>1. l \in 0..Len(D) /\ Fed(D, l) <= f /\ f <= Len(O)
        BY <1>1, <1>4
      <3>. QED BY <3>1, PendLength
    <2>. QED BY <1>3, <1>4, <2>1
  <1>6. CASE d.what.kind = "packet"
    <2>1. q = Without(p, d.what.id) /\ Answered(d.what) = 1
      BY <1>4, <1>6 DEF After, Answered
    <2>2. \E i \in DOMAIN p : p[i] = d.what.id
      BY <1>4, <1>6 DEF Chosen
    <2>3. Len(q) = Len(p) - 1
      BY <1>5, <2>1, <2>2, CountWithout
    <2>4. Len(q) + (x + 1) = f
      BY <1>1, <1>2, <1>3, <1>5, <2>3
    <2>. QED BY <1>0, <1>2, <1>3, <2>1, <2>4
  <1>7. CASE d.what.kind # "packet"
    <2>1. q = p /\ Answered(d.what) = 0
      BY <1>4, <1>7 DEF After, Answered
    <2>2. Len(q) + (x + 0) = f
      BY <1>1, <1>2, <1>3, <1>5, <2>1
    <2>. QED BY <1>0, <1>2, <1>3, <2>1, <2>2
  <1>. QED BY <1>6, <1>7

(* The decision prolongs the history. *)
LEMMA DecisionsGrow ==
  ASSUME NEW F, NEW T, NEW M, NEW D, NEW P, NEW O, NEW Q, HistType(F, T, M, D, P, O, Q),
         Decisions(D, P, O, Q), NEW d \in Decided, NEW p, NEW q \in Seq(Objects),
         NEW D2, NEW P2, NEW Q2, Decides(D, P, Q, d, q, D2, P2, Q2), Follows(D, O, Q, d, p, q)
  PROVE  HistType(F, T, M, D2, P2, O, Q2) /\ Decisions(D2, P2, O, Q2)
  <1>0. PICK l : l = Len(D)
    OBVIOUS
  <1>1. /\ D \in Seq(Decided) /\ P \in [0..Len(D) -> Nat] /\ Q \in [0..Len(D) -> Seq(Objects)]
        /\ l \in Nat /\ l \in 0..l
    BY <1>0 DEF HistType
  <1>f. /\ Fed(D, l) <= d.fed /\ d.fed <= Len(O) /\ p = Q[l] \o Part(O, Fed(D, l), d.fed)
        /\ q = After(p, d.what) /\ Chosen(d.what, p)
    BY <1>0 DEF Follows
  <1>2. /\ D2 \in Seq(Decided) /\ Len(D2) = l + 1 /\ D2[l + 1] = d
        /\ P2 \in [0..(l + 1) -> Nat] /\ Q2 \in [0..(l + 1) -> Seq(Objects)]
        /\ P2[l + 1] = P[l] + Answered(d.what) /\ Q2[l + 1] = q
        /\ \A k \in 0..l : P2[k] = P[k] /\ Q2[k] = Q[k] /\ Fed(D2, k) = Fed(D, k)
        /\ \A k \in 1..l : D2[k] = D[k]
    <2>1. Prolongs(l, D, P, Q, d, q, D2, P2, Q2)
      BY <1>0, <1>1, DecidesFacts
    <2>. QED BY <2>1 DEF Prolongs
  <1>3. HistType(F, T, M, D2, P2, O, Q2)
    BY <1>2 DEF HistType
  <1>4. Len(q) + P2[l + 1] = d.fed
    <2>1. Len(q) + (P[l] + Answered(d.what)) = d.fed
      BY <1>0, FollowsLength
    <2>. QED BY <1>2, <2>1
  <1>5. ASSUME NEW k \in 1..(l + 1)
        PROVE  /\ Fed(D2, k - 1) <= D2[k].fed /\ D2[k].fed <= Len(O)
               /\ P2[k] = P2[k - 1] + Answered(D2[k].what)
               /\ Q2[k] = After(Input(D2, O, Q2, k), D2[k].what)
               /\ Len(Q2[k]) + P2[k] = D2[k].fed
               /\ Chosen(D2[k].what, Input(D2, O, Q2, k))
    <2>1. CASE k = l + 1
      <3>1. k - 1 = l /\ D2[k] = d /\ Fed(D2, l) = Fed(D, l) /\ Q2[l] = Q[l] /\ P2[l] = P[l]
            /\ Q2[k] = q /\ P2[k] = P[l] + Answered(d.what)
        BY <1>1, <1>2, <2>1
      <3>2. Input(D2, O, Q2, k) = p
        BY <1>f, <3>1 DEF Input
      <3>. QED BY <1>4, <1>f, <2>1, <3>1, <3>2
    <2>2. CASE k # l + 1
      <3>1. k \in 1..l /\ k \in 0..l /\ k - 1 \in 0..l
        BY <1>1, <2>2
      <3>2. /\ D2[k] = D[k] /\ Fed(D2, k - 1) = Fed(D, k - 1) /\ Q2[k - 1] = Q[k - 1] /\ P2[k - 1] = P[k - 1]
            /\ Q2[k] = Q[k] /\ P2[k] = P[k]
        BY <1>2, <3>1
      <3>3. Input(D2, O, Q2, k) = Input(D, O, Q, k)
        BY <3>2 DEF Input
      <3>4. /\ Fed(D, k - 1) <= D[k].fed /\ D[k].fed <= Len(O)
            /\ P[k] = P[k - 1] + Answered(D[k].what)
            /\ Q[k] = After(Input(D, O, Q, k), D[k].what)
            /\ Len(Q[k]) + P[k] = D[k].fed
            /\ Chosen(D[k].what, Input(D, O, Q, k))
        BY <1>0, <3>1 DEF Decisions
      <3>. QED BY <3>2, <3>3, <3>4
    <2>. QED BY <2>1, <2>2
  <1>6. P2[0] = 0 /\ Q2[0] = <<>>
    <2>1. 0 \in 0..l
      BY <1>1
    <2>. QED BY <1>2, <2>1 DEF Decisions
  <1>7. Decisions(D2, P2, O, Q2)
    BY <1>2, <1>5, <1>6 DEF Decisions
  <1>. QED BY <1>3, <1>7

(* The flag at a place is the one the next step of the generator waits for. *)
LEMMA ScheduleGrows ==
  ASSUME NEW F, NEW T, NEW M, NEW D, NEW P, NEW O, NEW Q, HistType(F, T, M, D, P, O, Q),
         Schedule(F, T, M, D, P), NEW d \in Decided, NEW q \in Seq(Objects), NEW l, l = Len(D),
         NEW D2, NEW P2, NEW Q2, Decides(D, P, Q, d, q, D2, P2, Q2),
         NEW a \in 1..Len(F), M[a - 1] = l, M[a] = l + 1, d.fed = T[a]
  PROVE  Schedule(F, T, M, D2, P2)
  <1>1. /\ D \in Seq(Decided) /\ P \in [0..Len(D) -> Nat] /\ Q \in [0..Len(D) -> Seq(Objects)]
        /\ l \in Nat /\ M \in [0..Len(F) -> Nat] /\ Len(F) \in Nat
    BY DEF HistType
  <1>2. /\ Len(D2) = l + 1 /\ D2[l + 1] = d
        /\ \A k \in 0..l : P2[k] = P[k]
        /\ \A k \in 1..l : D2[k] = D[k]
    <2>1. Prolongs(l, D, P, Q, d, q, D2, P2, Q2)
      BY <1>1, DecidesFacts
    <2>. QED BY <2>1 DEF Prolongs
  <1>3. \A b, c \in 0..Len(F) : b <= c => M[b] <= M[c]
    BY DEF Schedule
  <1>4. ASSUME NEW b \in 1..Len(F)
        PROVE  /\ M[b - 1] \in 0..Len(D2)
               /\ F[b] => T[b] = T[b - 1] + 1 /\ M[b] = M[b - 1]
               /\ ~F[b] => /\ T[b] = T[b - 1]
                           /\ M[b] = M[b - 1] + (IF T[b] = P2[M[b - 1]] THEN 0 ELSE 1)
               /\ M[b] = M[b - 1] + 1 /\ M[b] <= Len(D2) => D2[M[b]].fed = T[b]
    <2>1. /\ M[b - 1] \in 0..l
          /\ F[b] => T[b] = T[b - 1] + 1 /\ M[b] = M[b - 1]
          /\ ~F[b] => /\ T[b] = T[b - 1]
                      /\ M[b] = M[b - 1] + (IF T[b] = P[M[b - 1]] THEN 0 ELSE 1)
          /\ M[b] = M[b - 1] + 1 /\ M[b] <= l => D[M[b]].fed = T[b]
      BY DEF Schedule
    <2>2. P2[M[b - 1]] = P[M[b - 1]] /\ M[b - 1] \in 0..Len(D2)
      <3>1. M[b - 1] \in 0..l /\ Len(D2) = l + 1 /\ l \in Nat /\ \A k \in 0..l : P2[k] = P[k]
        BY <1>1, <1>2, <2>1
      <3>. QED BY <3>1
    <2>3. ASSUME M[b] = M[b - 1] + 1, M[b] <= Len(D2) PROVE D2[M[b]].fed = T[b]
      <3>1. CASE M[b] <= l
        <4>1. M[b] \in 1..l
          BY <1>1, <2>1, <2>3, <3>1
        <4>2. D2[M[b]] = D[M[b]]
          BY <1>2, <4>1
        <4>. QED BY <2>1, <2>3, <3>1, <4>2
      <3>2. CASE ~(M[b] <= l)
        <4>1. M[b] = l + 1 /\ M[b - 1] = l
          BY <1>1, <1>2, <2>1, <2>3, <3>2
        <4>2. b = a
          <5>1. a \in 0..Len(F) /\ a - 1 \in 0..Len(F) /\ b \in 0..Len(F) /\ b - 1 \in 0..Len(F)
            BY <1>1
          <5>2. ~(a <= b - 1)
            <6>1. a <= b - 1 => M[a] <= M[b - 1]
              BY <1>3, <5>1
            <6>. QED BY <1>1, <4>1, <6>1
          <5>3. ~(b <= a - 1)
            <6>1. b <= a - 1 => M[b] <= M[a - 1]
              BY <1>3, <5>1
            <6>. QED BY <1>1, <4>1, <6>1
          <5>. QED BY <1>1, <5>2, <5>3
        <4>. QED BY <1>2, <4>1, <4>2
      <3>. QED BY <3>1, <3>2
    <2>. QED BY <2>1, <2>2, <2>3
  <1>5. T[0] = 0 /\ M[0] = 0
    BY DEF Schedule
  <1>. QED BY <1>3, <1>4, <1>5 DEF Schedule

(* Who is answered, and how the main thread goes on. *)
Resolves(r, o) == IF o.kind = "packet" THEN Answer(r, o.id) ELSE UNCHANGED <<th, ticket, futures>>
GoesOn(r, o) ==
  pc'[r] = IF o.kind # "stop" THEN "loop"
           ELSE IF inflight[r] = 1 /\ futures[r] = {} THEN "ended" ELSE "failed"

(* What Step does, in these words. *)
LEMMA StepTakes ==
  ASSUME CallInv, MainType, NEW r \in Ranks, Step(r)
  PROVE  \E o \in Outcomes(r) \cup {outs[r][k].what : k \in DOMAIN outs[r]} :
           /\ Outcome(r, o) /\ Takes(r, o) /\ o \in Outcome0
           /\ Resolves(r, o) /\ GoesOn(r, o)
  <1>1. PICK o \in Outcomes(r) \cup {outs[r][k].what : k \in DOMAIN outs[r]} :
          /\ Outcome(r, o)
          /\ inflight' = [inflight EXCEPT ![r] = NewInflight(r, o)]
          /\ pend' = [pend EXCEPT ![r] = IF o.kind = "packet" THEN Without(@, o.id) ELSE @]
          /\ pc' = [pc EXCEPT ![r] = IF o.kind # "stop" THEN "loop"
                                     ELSE IF inflight[r] = 1 /\ futures[r] = {} THEN "ended" ELSE "failed"]
          /\ Resolves(r, o)
    BY DEF Step, Resolves
  <1>2. pend' = [pend EXCEPT ![r] = After(@, o)]
    BY <1>1 DEF After
  <1>3. inflight' = [inflight EXCEPT ![r] = @ - Answered(o)]
    <2>1. inflight[r] \in Int
      BY DEF MainType
    <2>2. NewInflight(r, o) = inflight[r] - Answered(o)
      BY <2>1 DEF NewInflight, Answered
    <2>. QED BY <1>1, <2>2
  <1>4. PICK v \in {"loop", "ended", "failed"} : pc' = [pc EXCEPT ![r] = v]
    BY <1>1
  <1>5. /\ pc' \in [Ranks -> {"sync", "next", "loop", "ended", "failed"}]
        /\ pc'[r] \in {"loop", "ended", "failed"} /\ \A s \in Ranks : s # r => pc'[s] = pc[s]
    BY <1>4 DEF MainType
  <1>6. UNCHANGED <<tpq, packets, fed, syncq>>
    BY DEF Step
  <1>7. o \in Outcome0
    BY <1>1, ChosenFacts
  <1>8. GoesOn(r, o)
    BY <1>1 DEF MainType, GoesOn
  <1>9. Takes(r, o)
    BY <1>2, <1>3, <1>5, <1>6 DEF Takes
  <1>. QED BY <1>1, <1>7, <1>8, <1>9

(* The ranks that do not step, and the one that does. *)
AllRan(F, T, M, D, P, O, Q, at, n) ==
  \A s \in Ranks : /\ n[s] \in 0..Len(D) /\ at[s] \in 0..Len(F)
                   /\ Ran(s, at[s], n[s], T, M, D, P, O, Q)
Keeps(D, P, Q, D2, P2, Q2) ==
  \A k \in 0..Len(D) : P2[k] = P[k] /\ Q2[k] = Q[k] /\ Fed(D2, k) = Fed(D, k)

(* The ranks after a step, in a history that has it. *)
LEMMA TakesRuns ==
  ASSUME CallType, MainType, NEW r \in Ranks, NEW o, Takes(r, o), pc[r] = "next",
         NEW F, NEW T, NEW M, NEW D, NEW P, NEW O, NEW Q, HistType(F, T, M, D, P, O, Q),
         NEW D2, NEW P2, NEW Q2, NEW at, NEW n \in [Ranks -> Nat], NEW n2,
         AllRan(F, T, M, D, P, O, Q, at, n), Keeps(D, P, Q, D2, P2, Q2),
         P2[n[r] + 1] = P[n[r]] + Answered(o), Fed(D2, n[r] + 1) = fed[r],
         Q2[n[r] + 1] = After(pend[r], o), Q2[n[r] + 1] \in Seq(Objects),
         OneMore(n, r, n2)
  PROVE  \A s \in Ranks : Ran(s, at[s], n2[s], T, M, D2, P2, O, Q2)'
  <1>. SUFFICES ASSUME NEW s \in Ranks PROVE Ran(s, at[s], n2[s], T, M, D2, P2, O, Q2)'
    OBVIOUS
  <1>1. PICK a, m : a = at[s] /\ m = n[s]
    OBVIOUS
  <1>2. a \in 0..Len(F) /\ m \in 0..Len(D) /\ Ran(s, a, m, T, M, D, P, O, Q)
    BY <1>1 DEF AllRan
  <1>3. /\ pend' = [pend EXCEPT ![r] = After(@, o)] /\ inflight' = [inflight EXCEPT ![r] = @ - Answered(o)]
        /\ pc'[r] \in {"loop", "ended", "failed"} /\ \A u \in Ranks : u # r => pc'[u] = pc[u]
        /\ UNCHANGED <<tpq, packets, fed>>
    BY DEF Takes
  <1>4. CASE s = r
    <2>1. Sorts(a, m, T, M, D, P, O, Q)
      <3>1. /\ a \in Nat /\ m \in Nat /\ T[a] \in Nat /\ M[a] \in Nat /\ P[m] \in Nat
            /\ Q[m] \in Seq(Objects) /\ O \in Seq(Objects) /\ Len(O) \in Nat /\ D \in Seq(Decided)
        <4>1. /\ F \in Seq(BOOLEAN) /\ T \in [0..Len(F) -> Nat] /\ M \in [0..Len(F) -> Nat]
              /\ D \in Seq(Decided) /\ P \in [0..Len(D) -> Nat] /\ Q \in [0..Len(D) -> Seq(Objects)]
              /\ O \in Seq(Objects)
          BY DEF HistType
        <4>2. T[a] \in Nat /\ M[a] \in Nat /\ P[m] \in Nat /\ Q[m] \in Seq(Objects)
          BY <1>2, <4>1
        <4>. QED BY <1>2, <4>1, <4>2
      <3>2. Fed(D, m) \in Nat
        BY <1>2, <3>1, FedFacts
      <3>. QED BY <3>1, <3>2 DEF Sorts
    <2>2. /\ P2[m + 1] = P[m] + Answered(o) /\ Fed(D2, m + 1) = fed[r]
          /\ Q2[m + 1] = After(pend[r], o) /\ Q2[m + 1] \in Seq(Objects)
      BY <1>1, <1>4
    <2>3. pend'[r] = After(pend[r], o) /\ inflight'[r] = inflight[r] - Answered(o)
      BY <1>3 DEF CallType, MainType
    <2>4. Ran(r, a, m, T, M, D, P, O, Q)
      BY <1>2, <1>4
    <2>5. Ran(r, a, m + 1, T, M, D2, P2, O, Q2)'
      BY <1>3, <2>1, <2>2, <2>3, <2>4, StepRuns
    <2>6. n2[s] = m + 1
      BY <1>1, <1>4 DEF OneMore
    <2>. QED BY <1>1, <1>4, <2>5, <2>6
  <1>5. CASE s # r
    <2>1. P2[m] = P[m] /\ Q2[m] = Q[m] /\ Fed(D2, m) = Fed(D, m)
      BY <1>2 DEF Keeps
    <2>2. /\ tpq'[s] = tpq[s] /\ packets'[s] = packets[s] /\ pend'[s] = pend[s] /\ fed'[s] = fed[s]
          /\ inflight'[s] = inflight[s] /\ pc'[s] = pc[s]
      BY <1>3, <1>5 DEF CallType, MainType
    <2>3. Ran(s, a, m, T, M, D2, P2, O, Q2)'
      BY <1>2, <2>1, <2>2, OtherRuns
    <2>4. n2[s] = m
      BY <1>1, <1>5 DEF OneMore
    <2>. QED BY <1>1, <2>3, <2>4
  <1>. QED BY <1>4, <1>5

(* Where the history has a rank that is about to step. *)
OfNext(r, a, m, F, T, M, D, O, Q) ==
  /\ a \in 1..Len(F) /\ fed[r] = T[a] /\ M[a - 1] = m /\ M[a] = m + 1
  /\ m \in 0..Len(D) /\ m \in Nat /\ fed[r] <= Len(O) /\ Fed(D, m) <= fed[r]
  /\ pend[r] = Q[m] \o Part(O, Fed(D, m), fed[r])
  /\ outs[r] = Part(D, m, Len(D)) /\ (m + 1 <= Len(D) => D[m + 1].fed = fed[r])

(* A rank about to step has read the flag that says so. *)
LEMMA NextFacts ==
  ASSUME CallType, NEW F, NEW T, NEW M, NEW D, NEW P, NEW O, NEW Q, NEW at, NEW n,
         Agree(F, T, M, D, P, O, Q, at, n), NEW r \in Ranks, pc[r] = "next"
  PROVE  OfNext(r, at[r], n[r], F, T, M, D, O, Q)
  <1>1. PICK a, m : a = at[r] /\ m = n[r]
    OBVIOUS
  <1>2. /\ Lags(r, a, m, F, D) /\ Ran(r, a, m, T, M, D, P, O, Q)
        /\ Schedule(F, T, M, D, P) /\ HistType(F, T, M, D, P, O, Q)
    BY <1>1 DEF Agree
  <1>3. a \in 0..Len(F) /\ m \in 0..Len(D) /\ outs[r] = Part(D, m, Len(D)) /\ Len(F) \in Nat
    BY <1>2 DEF Lags, HistType
  <1>4. /\ fed[r] = T[a] /\ a > 0 /\ M[a - 1] = m /\ M[a] = m + 1
        /\ T[a] <= Len(O) /\ Fed(D, m) <= fed[r] /\ pend[r] = Q[m] \o Part(O, Fed(D, m), fed[r])
    BY <1>2 DEF Ran
  <1>5. a \in 1..Len(F)
    BY <1>3, <1>4
  <1>6. M[a] = M[a - 1] + 1 /\ M[a] <= Len(D) => D[M[a]].fed = T[a]
    BY <1>2, <1>5 DEF Schedule
  <1>7. m + 1 <= Len(D) => D[m + 1].fed = fed[r]
    BY <1>4, <1>6
  <1>8. m \in Nat
    BY <1>2, <1>3 DEF HistType
  <1>. QED BY <1>1, <1>3, <1>4, <1>5, <1>7, <1>8 DEF OfNext

(* The outcome another rank chose is the next decision. *)
LEMMA FollowerTakes ==
  ASSUME CallType, NEW F, NEW T, NEW M, NEW D, NEW P, NEW O, NEW Q, NEW at, NEW n,
         Agree(F, T, M, D, P, O, Q, at, n), NEW r \in Ranks, NEW o, pc[r] = "next",
         outs[r] # <<>>, Outcome(r, o)
  PROVE  /\ n[r] \in Nat /\ n[r] + 1 \in 1..Len(D) /\ o = D[n[r] + 1].what /\ n[r] # Len(D)
         /\ outs' = [outs EXCEPT ![r] = Tail(@)] /\ Tail(outs[r]) = Part(D, n[r] + 1, Len(D))
         /\ P[n[r] + 1] = P[n[r]] + Answered(o) /\ Fed(D, n[r] + 1) = fed[r]
         /\ Q[n[r] + 1] = After(pend[r], o) /\ Q[n[r] + 1] \in Seq(Objects)
         /\ Chosen(o, pend[r])
  <1>1. HistType(F, T, M, D, P, O, Q) /\ Decisions(D, P, O, Q)
    BY DEF Agree
  <1>2. PICK m : m = n[r]
    OBVIOUS
  <1>3. /\ m \in 0..Len(D) /\ m \in Nat /\ fed[r] <= Len(O) /\ Fed(D, m) <= fed[r]
        /\ pend[r] = Q[m] \o Part(O, Fed(D, m), fed[r])
        /\ outs[r] = Part(D, m, Len(D)) /\ (m + 1 <= Len(D) => D[m + 1].fed = fed[r])
    <2>1. OfNext(r, at[r], m, F, T, M, D, O, Q)
      BY <1>2, NextFacts
    <2>. QED BY <2>1 DEF OfNext
  <1>4. D \in Seq(Decided) /\ Len(D) \in Nat /\ Q \in [0..Len(D) -> Seq(Objects)]
    BY <1>1 DEF HistType
  <1>5. m # Len(D) /\ Head(outs[r]) = D[m + 1] /\ Tail(outs[r]) = Part(D, m + 1, Len(D))
    <2>1. m # Len(D)
      BY <1>3, <1>4, RestEmpty
    <2>. QED BY <1>3, <1>4, <2>1, RestHead
  <1>6. m + 1 \in 1..Len(D) /\ m + 1 \in 0..Len(D) /\ D[m + 1].fed = fed[r] /\ (m + 1) - 1 = m /\ m + 1 # 0
    BY <1>3, <1>4, <1>5
  <1>7. o = D[m + 1].what /\ outs' = [outs EXCEPT ![r] = Tail(@)]
    BY <1>5 DEF Outcome
  <1>8. /\ P[m + 1] = P[m] + Answered(o) /\ Fed(D, m + 1) = fed[r] /\ Q[m + 1] = After(pend[r], o)
        /\ Q[m + 1] \in Seq(Objects) /\ Chosen(o, pend[r])
    <2>1. Input(D, O, Q, m + 1) = pend[r]
      BY <1>3, <1>6 DEF Input
    <2>2. /\ P[m + 1] = P[(m + 1) - 1] + Answered(D[m + 1].what)
          /\ Q[m + 1] = After(Input(D, O, Q, m + 1), D[m + 1].what)
          /\ Chosen(D[m + 1].what, Input(D, O, Q, m + 1))
      BY <1>1, <1>6 DEF Decisions
    <2>. QED BY <1>4, <1>6, <1>7, <2>1, <2>2 DEF Fed
  <1>. QED BY <1>2, <1>3, <1>5, <1>6, <1>7, <1>8

(* It takes the outcome another rank chose. *)
LEMMA FollowerAgrees ==
  ASSUME CallType, NEW F, NEW T, NEW M, NEW D, NEW P, NEW O, NEW Q, NEW at, NEW n,
         Agree(F, T, M, D, P, O, Q, at, n), NEW r \in Ranks, NEW o, pc[r] = "next",
         outs[r] # <<>>, Outcome(r, o), Takes(r, o), NEW n2, OneMore(n, r, n2)
  PROVE  Agree(F, T, M, D, P, O, Q, at, n2)'
  <1>1. /\ MainType /\ HistType(F, T, M, D, P, O, Q) /\ Schedule(F, T, M, D, P) /\ Decisions(D, P, O, Q)
        /\ at \in [Ranks -> Nat] /\ n \in [Ranks -> Nat]
        /\ \A s \in Ranks : Lags(s, at[s], n[s], F, D) /\ Ran(s, at[s], n[s], T, M, D, P, O, Q)
    BY DEF Agree
  <1>2. PICK m : m = n[r]
    OBVIOUS
  <1>3. m \in Nat /\ m + 1 \in 1..Len(D) /\ m + 1 \in 0..Len(D) /\ Len(D) \in Nat
    <2>1. m \in Nat /\ m + 1 \in 1..Len(D)
      BY <1>2, FollowerTakes
    <2>. QED BY <1>1, <2>1 DEF HistType
  <1>4. m # Len(D) /\ Tail(outs[r]) = Part(D, m + 1, Len(D)) /\ outs' = [outs EXCEPT ![r] = Tail(@)]
    BY <1>2, FollowerTakes
  <1>8. /\ P[m + 1] = P[m] + Answered(o) /\ Fed(D, m + 1) = fed[r] /\ Q[m + 1] = After(pend[r], o)
        /\ Q[m + 1] \in Seq(Objects)
    BY <1>2, FollowerTakes
  <1>9. \A s \in Ranks : Ran(s, at[s], n2[s], T, M, D, P, O, Q)'
    <2>1. AllRan(F, T, M, D, P, O, Q, at, n)
      BY <1>1 DEF Lags, AllRan
    <2>2. /\ P[n[r] + 1] = P[n[r]] + Answered(o) /\ Fed(D, n[r] + 1) = fed[r]
          /\ Q[n[r] + 1] = After(pend[r], o) /\ Q[n[r] + 1] \in Seq(Objects)
      BY <1>2, <1>8
    <2>3. MainType /\ HistType(F, T, M, D, P, O, Q) /\ n \in [Ranks -> Nat]
      BY <1>1
    <2>4. Keeps(D, P, Q, D, P, Q)
      BY DEF Keeps
    <2>. QED BY <2>1, <2>2, <2>3, <2>4, TakesRuns
  <1>10. n2 \in [Ranks -> Nat] /\ n2[r] = m + 1 /\ \A s \in Ranks : s # r => n2[s] = n[s]
    BY <1>1, <1>2, <1>3 DEF OneMore
  <1>11. ASSUME NEW s \in Ranks PROVE Lags(s, at[s], n2[s], F, D)'
    <2>0. Lags(s, at[s], n[s], F, D) /\ syncq' = syncq
      BY <1>1 DEF Takes
    <2>1. CASE s = r
      <3>1. outs'[s] = Part(D, m + 1, Len(D))
        BY <1>4, <2>1 DEF CallType
      <3>. QED BY <1>3, <1>10, <2>0, <2>1, <3>1 DEF Lags
    <2>2. CASE s # r
      <3>1. outs'[s] = outs[s] /\ n2[s] = n[s]
        BY <1>4, <1>10, <2>2 DEF CallType
      <3>. QED BY <2>0, <3>1 DEF Lags
    <2>. QED BY <2>1, <2>2
  <1>12. \E s \in Ranks : n2[s] = Len(D)
    <2>1. PICK s \in Ranks : n[s] = Len(D)
      BY DEF Agree
    <2>2. s # r
      BY <1>2, <1>4, <2>1
    <2>. QED BY <1>10, <2>1, <2>2
  <1>13. MainType'
    <2>1. inflight' = [inflight EXCEPT ![r] = @ - Answered(o)] /\ Answered(o) \in Int /\ syncq' = syncq
          /\ pc' \in [Ranks -> {"sync", "next", "loop", "ended", "failed"}]
      BY DEF Takes, Answered
    <2>2. inflight' \in [Ranks -> Int]
      BY <1>1, <2>1 DEF MainType
    <2>. QED BY <1>1, <2>1, <2>2 DEF MainType
  <1>. QED BY <1>1, <1>9, <1>10, <1>11, <1>12, <1>13 DEF Agree

(* The outcomes are those the history allows. *)
LEMMA ChosenFits ==
  ASSUME NEW r \in Ranks, NEW o \in Outcomes(r)
  PROVE  Chosen(o, pend[r])
  <1>1. CASE o \in {Packet(x) : x \in Requests(r)}
    BY <1>1 DEF Chosen, Packet, Requests
  <1>2. CASE o \in {h \in {Handover} : HandsOver(r)}
    BY <1>2 DEF Chosen, Handover, HandsOver
  <1>3. CASE o \in {s \in {Stop} : Requests(r) = {} /\ NoneRead(r) /\ ~HandsOver(r)}
    <2>1. o.kind = "stop" /\ Requests(r) = {}
      BY <1>3 DEF Stop
    <2>. QED BY <2>1 DEF Chosen, Requests
  <1>. QED BY <1>1, <1>2, <1>3 DEF Outcomes

(* It is the first to step, and chooses. *)
LEMMA FirstAgrees ==
  ASSUME CallType, NEW F, NEW T, NEW M, NEW D, NEW P, NEW O, NEW Q, NEW at, NEW n,
         Agree(F, T, M, D, P, O, Q, at, n), NEW r \in Ranks, NEW o \in Outcome0, pc[r] = "next",
         outs[r] = <<>>, Outcome(r, o), Takes(r, o), NEW n2, OneMore(n, r, n2)
  PROVE  \E D2, P2, Q2 : /\ Decides(D, P, Q, [what |-> o, fed |-> fed[r]], After(pend[r], o), D2, P2, Q2)
                          /\ Agree(F, T, M, D2, P2, O, Q2, at, n2)'
  <1>1. /\ MainType /\ HistType(F, T, M, D, P, O, Q) /\ Schedule(F, T, M, D, P) /\ Decisions(D, P, O, Q)
        /\ at \in [Ranks -> Nat] /\ n \in [Ranks -> Nat]
        /\ \A s \in Ranks : Lags(s, at[s], n[s], F, D) /\ Ran(s, at[s], n[s], T, M, D, P, O, Q)
    BY DEF Agree
  <1>2. PICK m, a, p, q : m = n[r] /\ a = at[r] /\ p = pend[r] /\ q = After(p, o)
    OBVIOUS
  <1>3. OfNext(r, a, m, F, T, M, D, O, Q)
    BY <1>2, NextFacts
  <1>4. /\ D \in Seq(Decided) /\ P \in [0..Len(D) -> Nat] /\ Q \in [0..Len(D) -> Seq(Objects)]
        /\ Len(D) \in Nat
    BY <1>1 DEF HistType
  <1>5. m = Len(D) /\ m \in Nat
    <2>1. outs[r] = Part(D, m, Len(D)) /\ m \in 0..Len(D)
      BY <1>3 DEF OfNext
    <2>. QED BY <1>4, <2>1, RestEmpty
  <1>6. PICK d : d = [what |-> o, fed |-> fed[r]]
    OBVIOUS
  <1>7. d \in Decided /\ d.what = o /\ d.fed = fed[r]
    <2>1. fed[r] \in Nat
      BY DEF CallType
    <2>. QED BY <1>6, <2>1 DEF Decided
  <1>8. /\ o \in Outcomes(r)
        /\ outs' = [s \in Ranks |-> IF s = r THEN outs[s] ELSE Append(outs[s], d)]
    BY <1>6 DEF Outcome
  <1>9. q \in Seq(Objects)
    <2>1. p \in Seq(Objects)
      BY <1>2 DEF CallType
    <2>. QED BY <1>2, <2>1, CountWithout DEF After
  <1>10. Follows(D, O, Q, d, p, q)
    <2>1. Chosen(o, p)
      BY <1>2, <1>8, ChosenFits
    <2>2. fed[r] <= Len(O) /\ Fed(D, m) <= fed[r] /\ p = Q[m] \o Part(O, Fed(D, m), fed[r])
      BY <1>2, <1>3 DEF OfNext
    <2>. QED BY <1>2, <1>5, <1>7, <2>1, <2>2 DEF Follows
  <1>11. PICK D2, P2, Q2 : Decides(D, P, Q, d, q, D2, P2, Q2)
    BY DEF Decides
  <1>12. HistType(F, T, M, D2, P2, O, Q2) /\ Decisions(D2, P2, O, Q2)
    BY <1>1, <1>7, <1>9, <1>10, <1>11, DecisionsGrow
  <1>13. Prolongs(m, D, P, Q, d, q, D2, P2, Q2)
    BY <1>4, <1>5, <1>7, <1>9, <1>11, DecidesFacts
  <1>14. Schedule(F, T, M, D2, P2)
    <2>1. a \in 1..Len(F) /\ M[a - 1] = m /\ M[a] = m + 1 /\ d.fed = T[a]
      BY <1>3, <1>7 DEF OfNext
    <2>. QED BY <1>1, <1>5, <1>7, <1>9, <1>11, <2>1, ScheduleGrows
  <1>15. n2 \in [Ranks -> Nat] /\ n2[r] = m + 1 /\ \A s \in Ranks : s # r => n2[s] = n[s]
    BY <1>1, <1>2, <1>5 DEF OneMore
  <1>16. \A s \in Ranks : Ran(s, at[s], n2[s], T, M, D2, P2, O, Q2)'
    <2>1. AllRan(F, T, M, D, P, O, Q, at, n)
      BY <1>1 DEF Lags, AllRan
    <2>2. Keeps(D, P, Q, D2, P2, Q2)
      BY <1>5, <1>13 DEF Prolongs, Keeps
    <2>3. /\ P2[m + 1] = P[m] + Answered(o) /\ Q2[m + 1] = q /\ D2[m + 1] = d
      BY <1>7, <1>13 DEF Prolongs
    <2>4. Fed(D2, m + 1) = fed[r]
      BY <1>5, <1>7, <2>3 DEF Fed
    <2>5. /\ P2[n[r] + 1] = P[n[r]] + Answered(o) /\ Fed(D2, n[r] + 1) = fed[r]
          /\ Q2[n[r] + 1] = After(pend[r], o) /\ Q2[n[r] + 1] \in Seq(Objects)
      BY <1>2, <1>9, <2>3, <2>4
    <2>6. MainType /\ HistType(F, T, M, D, P, O, Q) /\ n \in [Ranks -> Nat]
      BY <1>1
    <2>. QED BY <2>1, <2>2, <2>5, <2>6, TakesRuns
  <1>17. D2 \in Seq(Decided) /\ Len(D2) = m + 1 /\ Grows(D, d, D2)
    BY <1>11, <1>13 DEF Prolongs, Decides, Grows
  <1>18. ASSUME NEW s \in Ranks PROVE Lags(s, at[s], n2[s], F, D2)'
    <2>0. Lags(s, at[s], n[s], F, D) /\ syncq' = syncq
      BY <1>1 DEF Takes
    <2>1. CASE s = r
      <3>1. outs'[s] = <<>> /\ n2[s] = m + 1
        BY <1>8, <1>15, <2>1
      <3>2. PICK k \in Nat : k = m + 1
        BY <1>5
      <3>3. Part(D2, k, k) = <<>>
        <4>1. k <= Len(D2)
          BY <1>17, <3>2
        <4>. QED BY <1>17, <4>1, PartEmpty
      <3>4. k \in 0..Len(D2) /\ n2[s] = k /\ Len(D2) = k
        BY <1>17, <3>1, <3>2
      <3>5. outs'[s] = Part(D2, n2[s], Len(D2)) /\ n2[s] \in 0..Len(D2)
        BY <3>1, <3>3, <3>4
      <3>. QED BY <2>0, <3>5 DEF Lags
    <2>2. CASE s # r
      <3>1. PICK k : k = n[s]
        OBVIOUS
      <3>2. outs[s] = Part(D, k, Len(D)) /\ k \in 0..Len(D) /\ n2[s] = k
        BY <1>15, <2>0, <2>2, <3>1 DEF Lags
      <3>3. outs'[s] = Append(outs[s], d)
        BY <1>8, <2>2
      <3>4. k \in Nat /\ k <= Len(D) /\ k \in 0..(m + 1)
        BY <1>4, <1>5, <3>2
      <3>5. Part(D2, k, Len(D) + 1) = Append(Part(D, k, Len(D)), d)
        BY <1>4, <1>7, <1>17, <3>4, PartGrows
      <3>6. outs'[s] = Part(D2, n2[s], Len(D2)) /\ n2[s] \in 0..Len(D2)
        BY <1>5, <1>17, <3>2, <3>3, <3>4, <3>5
      <3>. QED BY <2>0, <3>6 DEF Lags
    <2>. QED BY <2>1, <2>2
  <1>19. \E s \in Ranks : n2[s] = Len(D2)
    BY <1>15, <1>17
  <1>20. MainType'
    <2>1. inflight' = [inflight EXCEPT ![r] = @ - Answered(o)] /\ Answered(o) \in Int /\ syncq' = syncq
          /\ pc' \in [Ranks -> {"sync", "next", "loop", "ended", "failed"}]
      BY DEF Takes, Answered
    <2>2. inflight' \in [Ranks -> Int]
      BY <1>1, <2>1 DEF MainType
    <2>. QED BY <1>1, <2>1, <2>2 DEF MainType
  <1>21. Agree(F, T, M, D2, P2, O, Q2, at, n2)'
    BY <1>1, <1>12, <1>14, <1>15, <1>16, <1>18, <1>19, <1>20 DEF Agree
  <1>22. Decides(D, P, Q, [what |-> o, fed |-> fed[r]], After(pend[r], o), D2, P2, Q2)
    BY <1>2, <1>6, <1>11
  <1>. QED BY <1>21, <1>22

(* Every step is one of the shared history. *)
LEMMA StepAgrees ==
  ASSUME CallInv, AgreeInv, NEW r \in Ranks, Step(r)
  PROVE  AgreeInv'
  <1>1. PICK F, T, M, D, P, O, Q, at, n : Agree(F, T, M, D, P, O, Q, at, n)
    BY DEF AgreeInv
  <1>2. CallType /\ MainType /\ pc[r] = "next"
    BY <1>1 DEF CallInv, Agree, Step
  <1>3. PICK o \in Outcome0 : Outcome(r, o) /\ Takes(r, o)
    BY <1>2, StepTakes
  <1>4. PICK n2 : OneMore(n, r, n2)
    BY DEF OneMore
  <1>5. CASE outs[r] # <<>>
    <2>1. Agree(F, T, M, D, P, O, Q, at, n2)'
      BY <1>1, <1>2, <1>3, <1>4, <1>5, FollowerAgrees
    <2>. QED BY <2>1 DEF AgreeInv
  <1>6. CASE outs[r] = <<>>
    <2>1. PICK D2, P2, Q2 : Agree(F, T, M, D2, P2, O, Q2, at, n2)'
      BY <1>1, <1>2, <1>3, <1>4, <1>6, FirstAgrees
    <2>. QED BY <2>1 DEF AgreeInv
  <1>. QED BY <1>5, <1>6

(* A new group of processes has no history. *)
NoHistory(D, O, Q) == D = <<>> /\ O = <<>> /\ Q[0] = <<>>

(* There is nothing in it yet. *)
LEMMA FreshHistory ==
  IgInit => \E F, T, M, D, P, O, Q, at, n : Agree(F, T, M, D, P, O, Q, at, n) /\ NoHistory(D, O, Q)
  <1>. SUFFICES ASSUME IgInit
                PROVE  \E F, T, M, D, P, O, Q, at, n : Agree(F, T, M, D, P, O, Q, at, n) /\ NoHistory(D, O, Q)
    OBVIOUS
  <1>1. /\ tpq = [r \in Ranks |-> <<>>] /\ syncq = [r \in Ranks \ {0} |-> <<>>]
        /\ pc = [r \in Ranks |-> "sync"] /\ packets = [r \in Ranks |-> <<>>]
        /\ inflight = [r \in Ranks |-> 0] /\ pend = [r \in Ranks |-> <<>>]
        /\ fed = [r \in Ranks |-> 0] /\ outs = [r \in Ranks |-> <<>>]
    BY DEF IgInit, IgFresh
  <1>2. PICK E, Z, Q, at : /\ E = <<>> /\ Z = [k \in {0} |-> 0] /\ Q = [k \in {0} |-> <<>>]
                           /\ at = [r \in Ranks |-> 0]
    OBVIOUS
  <1>3. /\ E \in Seq(BOOLEAN) /\ E \in Seq(Decided) /\ E \in Seq(Objects) /\ Len(E) = 0
        /\ 0..0 = {0} /\ Z \in [0..0 -> Nat] /\ Q \in [0..0 -> Seq(Objects)] /\ Z[0] = 0 /\ Q[0] = <<>>
        /\ 1..0 = {}
    BY <1>2
  <1>4. HistType(E, Z, Z, E, Z, E, Q)
    BY <1>3 DEF HistType
  <1>5. Schedule(E, Z, Z, E, Z)
    BY <1>3 DEF Schedule
  <1>6. Decisions(E, Z, E, Q)
    BY <1>3 DEF Decisions
  <1>7. MainType
    BY <1>1 DEF MainType
  <1>8. Part(E, 0, 0) = <<>> /\ Fed(E, 0) = 0
    <2>1. 0 <= Len(E)
      BY <1>3
    <2>2. Part(E, 0, 0) = <<>>
      BY <1>3, <2>1, PartEmpty
    <2>. QED BY <2>2 DEF Fed
  <1>9. at \in [Ranks -> Nat] /\ \A r \in Ranks : at[r] = 0
    BY <1>2
  <1>10. ASSUME NEW r \in Ranks
         PROVE  Lags(r, at[r], at[r], E, E) /\ Ran(r, at[r], at[r], Z, Z, E, Z, E, Q)
    <2>1. /\ tpq[r] = <<>> /\ packets[r] = <<>> /\ pend[r] = <<>> /\ outs[r] = <<>>
          /\ fed[r] = 0 /\ inflight[r] = 0 /\ pc[r] = "sync" /\ (r # 0 => syncq[r] = <<>>)
      BY <1>1
    <2>2. Lags(r, 0, 0, E, E)
      BY <1>3, <1>8, <2>1 DEF Lags
    <2>3. Ran(r, 0, 0, Z, Z, E, Z, E, Q)
      <3>1. <<>> \o <<>> = <<>>
        OBVIOUS
      <3>. QED BY <1>3, <1>8, <2>1, <3>1 DEF Ran
    <2>. QED BY <1>9, <2>2, <2>3
  <1>11. Agree(E, Z, Z, E, Z, E, Q, at, at)
    BY <1>3, <1>4, <1>5, <1>6, <1>7, <1>9, <1>10, RankZero DEF Agree
  <1>12. NoHistory(E, E, Q)
    BY <1>2, <1>3 DEF NoHistory
  <1>. QED BY <1>11, <1>12

(* So the ranks agree. *)
LEMMA FreshAgrees == IgInit => AgreeInv
  BY FreshHistory DEF AgreeInv

(* The same after a crash. *)
LEMMA RestartAgrees == IgInit' => AgreeInv'
  <1>1. IgInit => AgreeInv
    BY FreshAgrees
  <1>. QED BY <1>1, PTL

(* Each step keeps the shared history. *)
LEMMA AgreeStep ==
  ASSUME CallInv, AgreeInv, [Next]_vars
  PROVE  AgreeInv'
  <1>0. CallType
    BY DEF CallInv
  <1>a. PICK F, T, M, D, P, O, Q, at, n : Agree(F, T, M, D, P, O, Q, at, n)
    BY DEF AgreeInv
  <1>b. MainType
    BY <1>a DEF Agree
  <1>1. ASSUME UNCHANGED <<tpq, syncq, mainVars>> PROVE AgreeInv'
    <2>1. /\ UNCHANGED <<packets, inflight, pend, fed, outs, tpq, syncq>>
          /\ pc' \in [Ranks -> {"sync", "next", "loop", "ended", "failed"}]
          /\ \A r \in Ranks : pc'[r] = pc[r]
      BY <1>1, <1>b DEF mainVars, MainType
    <2>2. Agree(F, T, M, D, P, O, Q, at, n)'
      BY <1>a, <2>1, AgreeKept
    <2>. QED BY <2>2 DEF AgreeInv
  <1>2. CASE Crash
    <2>1. IgInit'
      BY <1>2 DEF Crash, IgRestart, IgInit, IgFresh
    <2>. QED BY <2>1, RestartAgrees
  <1>3. CASE MainThread
    <2>1. PICK r \in Ranks : Main(r)
      BY <1>3 DEF MainThread, Mains
    <2>2. CASE r = 0 /\ SyncLead
      <3>1. \E flag \in BOOLEAN : \E G, T2, M2, at2 : Agree(G, T2, M2, D, P, O, Q, at2, n)'
        BY <1>0, <1>a, <2>2, LeadAgrees
      <3>. QED BY <3>1 DEF AgreeInv
    <2>3. CASE SyncFollow(r)
      <3>1. \E at2 : Agree(F, T, M, D, P, O, Q, at2, n)'
        BY <1>0, <1>a, <2>3, FollowAgrees
      <3>. QED BY <3>1 DEF AgreeInv
    <2>4. CASE Step(r)
      BY <2>4, StepAgrees
    <2>5. CASE Loop(r)
      <3>1. /\ pc[r] = "loop" /\ pc' = [pc EXCEPT ![r] = "sync"]
            /\ UNCHANGED <<syncq, packets, inflight, pend, fed, outs>>
            /\ tpq' = tpq \/ tpq' = [s \in Ranks |-> IF PutsNone(r) THEN Append(tpq[s], Nil) ELSE tpq[s]]
        BY <2>5 DEF Loop
      <3>2. /\ pc' \in [Ranks -> {"sync", "next", "loop", "ended", "failed"}]
            /\ \A s \in Ranks : pc'[s] = pc[s] \/ (pc[s] = "loop" /\ pc'[s] = "sync")
        BY <1>b, <3>1 DEF MainType
      <3>3. CASE tpq' = tpq
        <4>1. Agree(F, T, M, D, P, O, Q, at, n)'
          BY <1>a, <3>1, <3>2, <3>3, AgreeKept
        <4>. QED BY <4>1 DEF AgreeInv
      <3>4. CASE tpq' # tpq
        <4>1. tpq' = [s \in Ranks |-> IF PutsNone(r) THEN Append(tpq[s], Nil) ELSE tpq[s]]
          BY <3>1, <3>4
        <4>2. PutsNone(r)
          <5>1. ~PutsNone(r) => tpq' = tpq
            BY <1>0, <4>1 DEF CallType
          <5>. QED BY <3>4, <5>1
        <4>3. \A s \in Ranks : tpq'[s] = Append(tpq[s], Nil)
          BY <4>1, <4>2
        <4>4. PICK O2 : Grows(O, Nil, O2)
          BY DEF Grows
        <4>5. Agree(F, T, M, D, P, O2, Q, at, n)'
          BY <1>0, <1>a, <3>1, <3>2, <4>3, <4>4, NumbersAreNotNil, ObjectAgrees
        <4>. QED BY <4>5 DEF AgreeInv
      <3>. QED BY <3>3, <3>4
    <2>. QED BY <2>1, <2>2, <2>3, <2>4, <2>5 DEF Main
  <1>4. ASSUME NEW t \in Threads, GetDatum(t) PROVE AgreeInv'
    BY <1>1, <1>4 DEF GetDatum
  <1>5. ASSUME NEW t \in Threads, CallGenerate(t) PROVE AgreeInv'
    BY <1>1, <1>5 DEF CallGenerate, Register
  <1>6. ASSUME NEW t \in Threads, PutPacket(t) PROVE AgreeInv'
    <2>1. /\ tpq' = [r \in Ranks |-> Append(tpq[r], ticket[t])]
          /\ UNCHANGED <<syncq, pc, packets, inflight, pend, fed, outs>>
      BY <1>6 DEF PutPacket, Put, mainVars
    <2>2. ticket[t] \in Objects /\ \A r \in Ranks : tpq'[r] = Append(tpq[r], ticket[t])
      BY <1>0, <2>1 DEF CallType
    <2>3. /\ pc' \in [Ranks -> {"sync", "next", "loop", "ended", "failed"}]
          /\ \A r \in Ranks : pc'[r] = pc[r]
      BY <1>b, <2>1 DEF MainType
    <2>4. PICK O2 : Grows(O, ticket[t], O2)
      BY DEF Grows
    <2>5. Agree(F, T, M, D, P, O2, Q, at, n)'
      BY <1>0, <1>a, <2>1, <2>2, <2>3, <2>4, ObjectAgrees
    <2>. QED BY <2>5 DEF AgreeInv
  <1>7. ASSUME NEW t \in Threads, Leave(t) \/ Succeed(t) \/ Raise(t) PROVE AgreeInv'
    BY <1>1, <1>7 DEF Leave, Succeed, Raise, igVars
  <1>8. CASE Load \/ Dump
    BY <1>1, <1>8 DEF Load, LoadPut, LoadNext, LoadDone, Dump, DumpGet, DumpLine, igVars
  <1>9. CASE UNCHANGED vars
    BY <1>1, <1>9 DEF vars, igVars
  <1>. QED BY <1>2, <1>3, <1>4, <1>5, <1>6, <1>7, <1>8, <1>9 DEF Next, Rollout, Finished

(***************************************************************************)
(* The ranks of a group read one schedule of flags and one list of         *)
(* decisions, each as far as it has come.                                  *)
(***************************************************************************)
THEOREM HistoryIsShared == Spec => []AgreeInv
  <1>1. Init => AgreeInv
    BY FreshAgrees DEF Init
  <1>2. CallInv /\ AgreeInv /\ [Next]_vars => AgreeInv'
    BY AgreeStep
  <1>. QED BY <1>1, <1>2, CallsInv, PTL DEF Spec

(* The ranks step the generator with the same requests, and never wait there. *)
THEOREM InputsAreSame == Spec => []SameInputs
  <1>1. CallInv /\ AgreeInv => SameInputs
    BY AgreeIsSame DEF CallInv
  <1>. QED BY <1>1, CallsInv, HistoryIsShared, PTL

-----------------------------------------------------------------------------
(***************************************************************************)
(* What a rank that made the first k steps still has to answer, anywhere   *)
(* between the queue and the generator.                                    *)
(***************************************************************************)
Left(D, O, Q, k) ==
  {Q[k][i] : i \in DOMAIN Q[k]} \cup {O[i] : i \in (Fed(D, k) + 1)..Len(O)}

In(y, s) == \E i \in DOMAIN s : s[i] = y

(* Where the objects of a rank are. *)
OfQueues(r, y) == In(y, tpq[r]) \/ In(y, packets[r]) \/ In(y, pend[r])

(* The objects of a part. *)
LEMMA InPart ==
  ASSUME NEW S, NEW s \in Seq(S), NEW a \in Nat, NEW b \in Nat, a <= b, b <= Len(s), NEW y
  PROVE  In(y, Part(s, a, b)) <=> \E i \in (a + 1)..b : s[i] = y
  <1>. DEFINE p == Part(s, a, b)
  <1>1. p \in Seq(S) /\ Len(p) = b - a /\ \A i \in 1..(b - a) : p[i] = s[a + i]
    BY PartFacts
  <1>. HIDE DEF p
  <1>2. DOMAIN p = 1..(b - a)
    BY <1>1
  <1>3. ASSUME NEW i \in DOMAIN p, p[i] = y PROVE \E j \in (a + 1)..b : s[j] = y
    <2>1. a + i \in (a + 1)..b /\ s[a + i] = y
      BY <1>1, <1>2, <1>3
    <2>. QED BY <2>1
  <1>4. ASSUME NEW j \in (a + 1)..b, s[j] = y PROVE \E i \in DOMAIN p : p[i] = y
    <2>1. j - a \in 1..(b - a) /\ a + (j - a) = j
      OBVIOUS
    <2>. QED BY <1>1, <1>2, <1>4, <2>1
  <1>5. In(y, p) <=> \E i \in (a + 1)..b : s[i] = y
    BY <1>3, <1>4 DEF In
  <1>. QED BY <1>5 DEF p

(* The objects of a concatenation. *)
LEMMA InConcat ==
  ASSUME NEW S, NEW s \in Seq(S), NEW t \in Seq(S), NEW y
  PROVE  In(y, s \o t) <=> In(y, s) \/ In(y, t)
  <1>. DEFINE u == s \o t
  <1>1. /\ u \in Seq(S) /\ Len(u) = Len(s) + Len(t) /\ Len(s) \in Nat /\ Len(t) \in Nat
        /\ \A i \in 1..(Len(s) + Len(t)) : u[i] = IF i <= Len(s) THEN s[i] ELSE t[i - Len(s)]
    BY ConcatProperties
  <1>. HIDE DEF u
  <1>2. DOMAIN u = 1..(Len(s) + Len(t)) /\ DOMAIN s = 1..Len(s) /\ DOMAIN t = 1..Len(t)
    BY <1>1
  <1>3. ASSUME NEW i \in DOMAIN u, u[i] = y PROVE In(y, s) \/ In(y, t)
    <2>1. CASE i <= Len(s)
      <3>1. i \in DOMAIN s /\ s[i] = y
        BY <1>1, <1>2, <1>3, <2>1
      <3>. QED BY <3>1 DEF In
    <2>2. CASE ~(i <= Len(s))
      <3>1. i - Len(s) \in DOMAIN t /\ t[i - Len(s)] = y
        BY <1>1, <1>2, <1>3, <2>2
      <3>. QED BY <3>1 DEF In
    <2>. QED BY <2>1, <2>2
  <1>4. ASSUME NEW i \in DOMAIN s, s[i] = y PROVE In(y, u)
    <2>1. i \in DOMAIN u /\ u[i] = y
      BY <1>1, <1>2, <1>4
    <2>. QED BY <2>1 DEF In
  <1>5. ASSUME NEW i \in DOMAIN t, t[i] = y PROVE In(y, u)
    <2>1. Len(s) + i \in DOMAIN u /\ ~(Len(s) + i <= Len(s)) /\ (Len(s) + i) - Len(s) = i
      BY <1>1, <1>2
    <2>2. u[Len(s) + i] = y
      BY <1>1, <1>2, <1>5, <2>1
    <2>. QED BY <2>1, <2>2 DEF In
  <1>6. In(y, u) <=> In(y, s) \/ In(y, t)
    BY <1>3, <1>4, <1>5 DEF In
  <1>. QED BY <1>6 DEF u

(* What is left, object by object. *)
LEMMA LeftIs ==
  ASSUME NEW D, NEW O, NEW Q, NEW k, NEW y
  PROVE  y \in Left(D, O, Q, k) <=>
           In(y, Q[k]) \/ \E i \in (Fed(D, k) + 1)..Len(O) : O[i] = y
  BY DEF Left, In

(* The packets fed before a decision were put. *)
LEMMA FedLimit ==
  ASSUME NEW F, NEW T, NEW M, NEW D, NEW P, NEW O, NEW Q, HistType(F, T, M, D, P, O, Q),
         Decisions(D, P, O, Q), NEW k \in 0..Len(D)
  PROVE  Fed(D, k) \in Nat /\ Fed(D, k) <= Len(O)
  <1>1. D \in Seq(Decided) /\ O \in Seq(Objects) /\ Len(D) \in Nat
    BY DEF HistType
  <1>2. Fed(D, k) \in Nat
    BY <1>1, FedFacts
  <1>3. CASE k = 0
    BY <1>1, <1>3 DEF Fed
  <1>4. CASE k # 0
    <2>1. k \in 1..Len(D)
      BY <1>1, <1>4
    <2>2. D[k].fed <= Len(O)
      BY <2>1 DEF Decisions
    <2>. QED BY <1>2, <1>4, <2>2 DEF Fed
  <1>. QED BY <1>2, <1>3, <1>4

(* What a rank has not fed yet is in its queues. *)
LEMMA UnfedInQueues ==
  ASSUME CallType, NEW F, NEW T, NEW M, NEW D, NEW P, NEW O, NEW Q, NEW at, NEW n,
         Agree(F, T, M, D, P, O, Q, at, n), NEW r \in Ranks, NEW y
  PROVE  (\E i \in (fed[r] + 1)..Len(O) : O[i] = y) <=> In(y, tpq[r]) \/ In(y, packets[r])
  <1>1. PICK a, m : a = at[r] /\ m = n[r]
    OBVIOUS
  <1>2. /\ MainType /\ HistType(F, T, M, D, P, O, Q) /\ Decisions(D, P, O, Q)
        /\ Lags(r, a, m, F, D) /\ Ran(r, a, m, T, M, D, P, O, Q)
    BY <1>1 DEF Agree
  <1>3. Stands(r, a, m, F, T, M, D, P, O, Q)
    BY <1>2, RunFacts
  <1>4. PICK f \in Nat, t \in Nat, l \in Nat : f = fed[r] /\ t = T[a] /\ l = Len(O)
    BY <1>3 DEF Stands
  <1>5. f <= t /\ t <= l /\ tpq[r] = Part(O, t, l) /\ packets[r] = Part(O, f, t)
    BY <1>2, <1>4 DEF Ran
  <1>6. O \in Seq(Objects) /\ l = Len(O)
    BY <1>3, <1>4 DEF Stands
  <1>7. In(y, tpq[r]) <=> \E i \in (t + 1)..l : O[i] = y
    <2>1. t <= l /\ l <= Len(O)
      BY <1>5, <1>6
    <2>. QED BY <1>5, <1>6, <2>1, InPart
  <1>8. In(y, packets[r]) <=> \E i \in (f + 1)..t : O[i] = y
    <2>1. f <= t /\ t <= Len(O)
      BY <1>5, <1>6
    <2>. QED BY <1>5, <1>6, <2>1, InPart
  <1>9. \A i : i \in (f + 1)..l <=> i \in (f + 1)..t \/ i \in (t + 1)..l
    BY <1>5
  <1>. QED BY <1>4, <1>7, <1>8, <1>9

(* What a rank has left is in its queues, and nothing else is. *)
LEMMA LeftInQueues ==
  ASSUME CallType, NEW F, NEW T, NEW M, NEW D, NEW P, NEW O, NEW Q, NEW at, NEW n,
         Agree(F, T, M, D, P, O, Q, at, n), NEW r \in Ranks, NEW y
  PROVE  y \in Left(D, O, Q, n[r]) <=> OfQueues(r, y)
  <1>1. PICK a, m : a = at[r] /\ m = n[r]
    OBVIOUS
  <1>2. /\ MainType /\ HistType(F, T, M, D, P, O, Q) /\ Decisions(D, P, O, Q)
        /\ Lags(r, a, m, F, D) /\ Ran(r, a, m, T, M, D, P, O, Q)
    BY <1>1 DEF Agree
  <1>3. Stands(r, a, m, F, T, M, D, P, O, Q)
    BY <1>2, RunFacts
  <1>4. PICK f \in Nat, l \in Nat, g \in Nat : f = fed[r] /\ l = Len(O) /\ g = Fed(D, m)
    BY <1>3 DEF Stands
  <1>5. f <= l /\ g <= f /\ pend[r] = Q[m] \o Part(O, g, f)
    <2>1. T[a] \in Nat
      BY <1>3 DEF Stands
    <2>2. f <= T[a] /\ T[a] <= l /\ g <= f /\ pend[r] = Q[m] \o Part(O, g, f)
      BY <1>2, <1>4 DEF Ran
    <2>. QED BY <2>1, <2>2
  <1>6. O \in Seq(Objects) /\ Q[m] \in Seq(Objects) /\ l = Len(O)
    BY <1>3, <1>4 DEF Stands
  <1>7. (\E i \in (f + 1)..l : O[i] = y) <=> In(y, tpq[r]) \/ In(y, packets[r])
    <2>1. (\E i \in (fed[r] + 1)..Len(O) : O[i] = y) <=> In(y, tpq[r]) \/ In(y, packets[r])
      BY UnfedInQueues
    <2>. QED BY <1>4, <2>1
  <1>8. In(y, pend[r]) <=> In(y, Q[m]) \/ \E i \in (g + 1)..f : O[i] = y
    <2>1. g <= f /\ f <= Len(O)
      BY <1>5, <1>6
    <2>2. In(y, Part(O, g, f)) <=> \E i \in (g + 1)..f : O[i] = y
      BY <1>6, <2>1, InPart
    <2>3. Part(O, g, f) \in Seq(Objects)
      BY <1>6, <2>1, PartFacts
    <2>4. In(y, Q[m] \o Part(O, g, f)) <=> In(y, Q[m]) \/ In(y, Part(O, g, f))
      BY <1>6, <2>3, InConcat
    <2>. QED BY <1>5, <2>2, <2>4
  <1>9. \A i : i \in (g + 1)..l <=> i \in (g + 1)..f \/ i \in (f + 1)..l
    BY <1>5
  <1>10. y \in Left(D, O, Q, m) <=> In(y, Q[m]) \/ \E i \in (g + 1)..l : O[i] = y
    BY <1>4, LeftIs
  <1>. QED BY <1>1, <1>7, <1>8, <1>9, <1>10 DEF OfQueues

(* An object put is left to every rank. *)
LEMMA LeftGrows ==
  ASSUME NEW F, NEW T, NEW M, NEW D, NEW P, NEW O, NEW Q, HistType(F, T, M, D, P, O, Q),
         Decisions(D, P, O, Q), NEW k \in 0..Len(D), NEW x \in Objects, NEW O2, Grows(O, x, O2), NEW y
  PROVE  y \in Left(D, O2, Q, k) <=> y \in Left(D, O, Q, k) \/ y = x
  <1>1. PICK g \in Nat, l \in Nat : g = Fed(D, k) /\ l = Len(O)
    <2>1. Fed(D, k) \in Nat /\ Len(O) \in Nat
      BY FedLimit DEF HistType
    <2>. QED BY <2>1
  <1>2. g <= l /\ O \in Seq(Objects)
    BY <1>1, FedLimit DEF HistType
  <1>3. Len(O2) = l + 1 /\ O2[l + 1] = x /\ \A i \in 1..l : O2[i] = O[i]
    BY <1>1, <1>2, AppendProperties DEF Grows
  <1>4. (\E i \in (g + 1)..(l + 1) : O2[i] = y) <=> (\E i \in (g + 1)..l : O[i] = y) \/ y = x
    <2>1. \A i : i \in (g + 1)..(l + 1) <=> i \in (g + 1)..l \/ i = l + 1
      BY <1>2
    <2>2. \A i \in (g + 1)..l : i \in 1..l
      OBVIOUS
    <2>. QED BY <1>3, <2>1, <2>2
  <1>5. y \in Left(D, O, Q, k) <=> In(y, Q[k]) \/ \E i \in (g + 1)..l : O[i] = y
    BY <1>1, LeftIs
  <1>6. y \in Left(D, O2, Q, k) <=> In(y, Q[k]) \/ \E i \in (g + 1)..(l + 1) : O2[i] = y
    BY <1>1, <1>3, LeftIs
  <1>. QED BY <1>4, <1>5, <1>6

(* What is there after an answer was there before it. *)
LEMMA InWithout ==
  ASSUME NEW S, NEW s \in Seq(S), NEW o, NEW y, In(y, After(s, o))
  PROVE  In(y, s)
  <1>1. CASE o.kind # "packet"
    BY <1>1 DEF After
  <1>2. CASE o.kind = "packet" /\ ~ In(o.id, s)
    BY <1>2 DEF After, Without, In
  <1>3. CASE o.kind = "packet" /\ In(o.id, s)
    <2>. DEFINE a == CHOOSE k \in DOMAIN s : s[k] = o.id
                t == [k \in 1..(Len(s) - 1) |-> IF k < a THEN s[k] ELSE s[k + 1]]
    <2>1. After(s, o) = t
      BY <1>3 DEF After, Without, In
    <2>. HIDE DEF a
    <2>2. PICK k \in 1..(Len(s) - 1) : t[k] = y
      BY <2>1 DEF In
    <2>3. k \in DOMAIN s /\ k + 1 \in DOMAIN s /\ (y = s[k] \/ y = s[k + 1])
      BY <2>2
    <2>. QED BY <2>3 DEF In
  <1>. QED BY <1>1, <1>2, <1>3

(* An object is there when it is counted. *)
LEMMA InOccurs ==
  ASSUME NEW T, NEW s \in Seq(T), NEW x
  PROVE  In(x, s) <=> Occurrences(s, x) # 0
  BY PlacesFinite DEF In

(* What was there once is gone after its answer. *)
LEMMA WithoutOnce ==
  ASSUME NEW T, NEW s \in Seq(T), NEW x, Occurrences(s, x) = 1
  PROVE  ~In(x, Without(s, x))
  <1>. DEFINE E == {k \in DOMAIN s : s[k] = x}
              a == CHOOSE k \in DOMAIN s : s[k] = x
              t == [k \in 1..(Len(s) - 1) |-> IF k < a THEN s[k] ELSE s[k + 1]]
  <1>1. PICK p : E = {p}
    <2>1. IsFiniteSet(E)
      BY PlacesFinite
    <2>2. Cardinality(E) = 1
      BY DEF Occurrences
    <2>. QED BY <2>1, <2>2, FS_Singleton
  <1>2. p \in DOMAIN s /\ s[p] = x /\ \A k \in DOMAIN s : s[k] = x => k = p
    BY <1>1
  <1>3. a = p
    BY <1>2
  <1>4. Without(s, x) = t
    BY <1>2 DEF Without
  <1>. HIDE DEF a, E
  <1>5. ASSUME NEW k \in 1..(Len(s) - 1) PROVE t[k] # x
    <2>1. DOMAIN s = 1..Len(s) /\ Len(s) \in Nat
      OBVIOUS
    <2>2. k \in DOMAIN s /\ k + 1 \in DOMAIN s
      BY <2>1
    <2>3. CASE k < a
      <3>1. k # p
        BY <1>2, <1>3, <2>1, <2>3
      <3>. QED BY <1>2, <2>2, <2>3, <3>1
    <2>4. CASE ~(k < a)
      <3>1. k + 1 # p
        BY <1>2, <1>3, <2>1, <2>4
      <3>. QED BY <1>2, <2>2, <2>4, <3>1
    <2>. QED BY <2>3, <2>4
  <1>. QED BY <1>4, <1>5 DEF In

(* A decision leaves what is left before it. *)
LEMMA LeftStays ==
  ASSUME NEW D, NEW P, NEW O, NEW Q, NEW d, NEW q, NEW D2, NEW P2, NEW Q2,
         NEW l \in Nat, Prolongs(l, D, P, Q, d, q, D2, P2, Q2), NEW k \in 0..l
  PROVE  Left(D2, O, Q2, k) = Left(D, O, Q, k)
  <1>1. Q2[k] = Q[k] /\ Fed(D2, k) = Fed(D, k)
    BY DEF Prolongs
  <1>. QED BY <1>1 DEF Left

(* A step adds nothing to what its rank has left, and takes what it answers. *)
LEMMA LeftShrinks ==
  ASSUME CallType, NEW F, NEW T, NEW M, NEW D, NEW P, NEW O, NEW Q, NEW at, NEW n,
         Agree(F, T, M, D, P, O, Q, at, n), NEW r \in Ranks, NEW o,
         NEW D2, NEW Q2, NEW m, m = n[r] + 1, Q2[m] = After(pend[r], o), Fed(D2, m) = fed[r]
  PROVE  /\ Left(D2, O, Q2, m) \subseteq Left(D, O, Q, n[r])
         /\ o.kind = "packet" /\ In(o.id, pend[r]) /\ OnTheWay(r, o.id) = 1 => o.id \notin Left(D2, O, Q2, m)
  <1>1. /\ tpq[r] \in Seq(Objects) /\ packets[r] \in Seq(Objects) /\ pend[r] \in Seq(Objects)
    BY CallFacts
  <1>2. \A y : y \in Left(D2, O, Q2, m) <=>
                In(y, After(pend[r], o)) \/ In(y, tpq[r]) \/ In(y, packets[r])
    <2>. SUFFICES ASSUME NEW y
                  PROVE  y \in Left(D2, O, Q2, m) <=>
                           In(y, After(pend[r], o)) \/ In(y, tpq[r]) \/ In(y, packets[r])
      OBVIOUS
    <2>1. y \in Left(D2, O, Q2, m) <=>
            In(y, After(pend[r], o)) \/ \E i \in (fed[r] + 1)..Len(O) : O[i] = y
      BY LeftIs
    <2>. QED BY <2>1, UnfedInQueues
  <1>3. ASSUME NEW y \in Left(D2, O, Q2, m) PROVE y \in Left(D, O, Q, n[r])
    <2>1. In(y, After(pend[r], o)) => In(y, pend[r])
      BY <1>1, InWithout
    <2>2. OfQueues(r, y)
      BY <1>2, <1>3, <2>1 DEF OfQueues
    <2>. QED BY <2>2, LeftInQueues
  <1>4. ASSUME o.kind = "packet", In(o.id, pend[r]), OnTheWay(r, o.id) = 1
        PROVE  o.id \notin Left(D2, O, Q2, m)
    <2>1. PICK x : x = o.id
      OBVIOUS
    <2>2. PICK a \in Nat, b \in Nat, c \in Nat :
            a = Occurrences(tpq[r], x) /\ b = Occurrences(packets[r], x) /\ c = Occurrences(pend[r], x)
      BY CallFacts
    <2>3. c # 0 /\ (a = 0 => ~In(x, tpq[r])) /\ (b = 0 => ~In(x, packets[r]))
      <3>1. In(x, pend[r])
        BY <1>4, <2>1
      <3>. QED BY <1>1, <2>2, <3>1, InOccurs
    <2>4. a + b + c = 1
      BY <1>4, <2>1, <2>2 DEF OnTheWay
    <2>5. a = 0 /\ b = 0 /\ c = 1
      BY <2>3, <2>4
    <2>6. ~In(x, tpq[r])
      BY <2>3, <2>5
    <2>7. ~In(x, packets[r])
      BY <2>3, <2>5
    <2>8. ~In(x, After(pend[r], o))
      BY <1>1, <1>4, <2>1, <2>2, <2>5, WithoutOnce DEF After
    <2>. QED BY <1>2, <2>1, <2>6, <2>7, <2>8
  <1>. QED BY <1>3, <1>4

-----------------------------------------------------------------------------
(***************************************************************************)
(* How a group ends.  Every thread_id in a queue is of some rank, and one  *)
(* that its own rank still has to answer has a thread waiting; a future is *)
(* of a thread in generate(); a rank that stopped has no thread left.      *)
(***************************************************************************)
Flows(D, O, Q) ==
  \A j, k \in 0..Len(D) : j <= k => Left(D, O, Q, k) \subseteq Left(D, O, Q, j)
Owned(O) == \A i \in DOMAIN O : O[i] # Nil => \E h \in Ranks : \E c \in Nat : O[i] = IdOf(c, h)
Waits(r, y) == \E t \in Threads : Home[t] = r /\ th[t] = "wait" /\ ticket[t] = y
Awaited(D, O, Q, n) ==
  \A r \in Ranks : \A c \in Nat : IdOf(c, r) \in Left(D, O, Q, n[r]) => Waits(r, IdOf(c, r))

FutureHeld ==
  \A r \in Ranks : \A x \in futures[r] :
    \E t \in Threads : Home[t] = r /\ Calling(t) /\ ticket[t] = x
StopHeld == stopq \subseteq Ranks /\ \A r \in stopq : ThreadsDone(r)

(* Before the None is put, every decision is an answer. *)
Open(D, O) ==
  /\ \A i \in DOMAIN O : O[i] # Nil
  /\ \A k \in 1..Len(D) : D[k].what.kind = "packet"
  /\ \A r \in Ranks : pc[r] \notin {"ended", "failed"}

(* Then the None is all there is for decision K + 1, which stops the ranks. *)
Closed(K, D, O, Q, n) ==
  /\ K \in 0..Len(D) /\ Len(D) <= K + 1
  /\ Q[K] = <<>> /\ Fed(D, K) + 1 = Len(O) /\ O[Len(O)] = Nil
  /\ \A k \in 1..K : D[k].what.kind = "packet"
  /\ Len(D) = K + 1 => D[K + 1].what = Stop
  /\ \A t \in Threads : th[t] = "done"
  /\ K <= n[0] /\ pc[0] # "loop"
  /\ \A r \in Ranks : pc[r] # "failed" /\ (n[r] = K + 1 => pc[r] = "ended")

Ending(D, O, Q, n) == Open(D, O) \/ \E K : Closed(K, D, O, Q, n)

Ends(F, T, M, D, P, O, Q, at, n) ==
  /\ Agree(F, T, M, D, P, O, Q, at, n)
  /\ Flows(D, O, Q) /\ Owned(O) /\ Awaited(D, O, Q, n) /\ Ending(D, O, Q, n)

EndInv ==
  /\ FutureHeld /\ StopHeld
  /\ \E F, T, M, D, P, O, Q, at, n : Ends(F, T, M, D, P, O, Q, at, n)

(* The futures when a thread registers, puts, or leaves the calls alone. *)
LEMMA FuturesKept ==
  ASSUME FutureHeld, UNCHANGED futures,
         \A t \in Threads : Calling(t) => Calling(t)' /\ ticket'[t] = ticket[t]
  PROVE  FutureHeld'
  BY DEF FutureHeld

(* The future registered is of the thread that calls. *)
LEMMA RegisterHeld ==
  ASSUME CallInv, FutureHeld, NEW t \in Threads, Register(t)
  PROVE  FutureHeld'
  <1>1. PICK r, x : r = Home[t] /\ x = ThreadId(r)
    OBVIOUS
  <1>2. /\ th[t] = "free" /\ th' = [th EXCEPT ![t] = "put"] /\ ticket' = [ticket EXCEPT ![t] = x]
        /\ futures' = [futures EXCEPT ![r] = @ \cup {x}]
    BY <1>1 DEF Register
  <1>3. CallType
    BY DEF CallInv
  <1>4. /\ \A u \in Threads : Calling(u) => Calling(u)' /\ ticket'[u] = ticket[u]
        /\ Calling(t)' /\ ticket'[t] = x
    BY <1>2, <1>3 DEF CallType, Calling
  <1>5. \A s \in Ranks : \A y \in futures'[s] : y \in futures[s] \/ (s = r /\ y = x)
    BY <1>2, <1>3 DEF CallType
  <1>. QED BY <1>1, <1>4, <1>5 DEF FutureHeld

(* The answer takes the future of the thread it frees. *)
LEMMA AnswerHeld ==
  ASSUME CallInv, FutureHeld, NEW r \in Ranks, NEW x, Answer(r, x)
  PROVE  FutureHeld'
  <1>. DEFINE Resumes(t) == Home[t] = r /\ x \in futures[r] /\ ticket[t] = x /\ th[t] = "wait"
  <1>1. /\ futures' = [futures EXCEPT ![r] = @ \ {x}]
        /\ th' = [t \in Threads |-> IF Resumes(t) THEN "free" ELSE th[t]]
        /\ ticket' = [t \in Threads |-> IF Resumes(t) THEN Nil ELSE ticket[t]]
    BY DEF Answer
  <1>2. CallType
    BY DEF CallInv
  <1>3. \A s \in Ranks : \A y \in futures'[s] : y \in futures[s] /\ ~(s = r /\ y = x)
    BY <1>1, <1>2 DEF CallType
  <1>4. \A t \in Threads : Resumes(t) => Home[t] = r /\ ticket[t] = x
    OBVIOUS
  <1>5. \A t \in Threads : ~Resumes(t) => th'[t] = th[t] /\ ticket'[t] = ticket[t]
    BY <1>1
  <1>. HIDE DEF Resumes
  <1>6. ASSUME NEW s \in Ranks, NEW y \in futures'[s]
        PROVE  \E t \in Threads : Home[t] = s /\ Calling(t)' /\ ticket'[t] = y
    <2>1. PICK t \in Threads : Home[t] = s /\ Calling(t) /\ ticket[t] = y
      BY <1>3 DEF FutureHeld
    <2>2. ~Resumes(t)
      BY <1>3, <1>4, <2>1
    <2>. QED BY <1>5, <2>1, <2>2 DEF Calling
  <1>. QED BY <1>6 DEF FutureHeld

(* A rank stops once its threads are done, and they stay so. *)
LEMMA StopKept ==
  ASSUME StopHeld, UNCHANGED stopq, \A t \in Threads : th[t] = "done" => th'[t] = "done"
  PROVE  StopHeld'
  BY DEF StopHeld, ThreadsDone

(* Nobody waits in vain for what the calls of other threads do. *)
LEMMA AwaitKept ==
  ASSUME NEW D, NEW O, NEW Q, NEW n, Awaited(D, O, Q, n),
         NEW D2, NEW Q2, NEW n2,
         \A r \in Ranks : Left(D2, O, Q2, n2[r]) \subseteq Left(D, O, Q, n[r]),
         \A t \in Threads : th[t] = "wait" =>
           \/ th'[t] = "wait" /\ ticket'[t] = ticket[t]
           \/ ticket[t] \notin Left(D2, O, Q2, n2[Home[t]])
  PROVE  Awaited(D2, O, Q2, n2)'
  <1>. SUFFICES ASSUME NEW r \in Ranks, NEW c \in Nat, IdOf(c, r) \in Left(D2, O, Q2, n2[r])
                PROVE  Waits(r, IdOf(c, r))'
    BY DEF Awaited, IdOf
  <1>1. PICK y : y = IdOf(c, r)
    OBVIOUS
  <1>2. Waits(r, y)
    BY <1>1 DEF Awaited
  <1>3. PICK t \in Threads : Home[t] = r /\ th[t] = "wait" /\ ticket[t] = y
    BY <1>2 DEF Waits
  <1>4. th'[t] = "wait" /\ ticket'[t] = y
    BY <1>1, <1>3
  <1>5. Waits(r, y)'
    BY <1>3, <1>4 DEF Waits
  <1>. QED BY <1>1, <1>5 DEF IdOf

(* No rank has failed before or after the None is put. *)
LEMMA EndsClean == EndInv => StopsClean
  BY DEF EndInv, Ends, Ending, Open, Closed, StopsClean

(* The decisions and the objects stay, and so do the threads that wait. *)
LEMMA EndsKept ==
  ASSUME NEW F, NEW T, NEW M, NEW D, NEW P, NEW O, NEW Q, NEW at, NEW n,
         Ends(F, T, M, D, P, O, Q, at, n),
         NEW G, NEW T2, NEW M2, NEW at2, Agree(G, T2, M2, D, P, O, Q, at2, n)',
         \A t \in Threads : th[t] = "wait" => th'[t] = "wait" /\ ticket'[t] = ticket[t],
         Ending(D, O, Q, n)'
  PROVE  Ends(G, T2, M2, D, P, O, Q, at2, n)'
  <1>1. Flows(D, O, Q) /\ Owned(O) /\ Awaited(D, O, Q, n)
    BY DEF Ends
  <1>2. Awaited(D, O, Q, n)'
    BY <1>1, AwaitKept
  <1>. QED BY <1>1, <1>2 DEF Ends, Flows, Owned, Left

(* The main thread of a rank that has no step to take moves on. *)
LEMMA EndingKept ==
  ASSUME NEW D, NEW O, NEW Q, NEW n, Ending(D, O, Q, n), NEW r \in Ranks,
         pc[r] \in {"sync", "loop"}, pc'[r] \in {"sync", "next", "loop"},
         \A s \in Ranks : s # r => pc'[s] = pc[s],
         pc'[0] = "loop" => pc[0] = "loop" \/ ~ \E K : Closed(K, D, O, Q, n),
         \A t \in Threads : th[t] = "done" => th'[t] = "done"
  PROVE  Ending(D, O, Q, n)'
  <1>1. CASE Open(D, O)
    <2>1. \A s \in Ranks : pc'[s] \notin {"ended", "failed"}
      BY <1>1 DEF Open
    <2>. QED BY <1>1, <2>1 DEF Ending, Open
  <1>2. CASE \E K : Closed(K, D, O, Q, n)
    <2>1. PICK K : Closed(K, D, O, Q, n)
      BY <1>2
    <2>2. \A s \in Ranks : pc'[s] # "failed" /\ (n[s] = K + 1 => pc'[s] = "ended")
      BY <2>1 DEF Closed
    <2>3. pc'[0] # "loop"
      BY <2>1 DEF Closed
    <2>4. Closed(K, D, O, Q, n)'
      BY <2>1, <2>2, <2>3 DEF Closed, Fed
    <2>. QED BY <2>4 DEF Ending
  <1>. QED BY <1>1, <1>2 DEF Ending

(* A step of the other threads. *)
LEMMA QuietEnds ==
  ASSUME EndInv, UNCHANGED <<tpq, syncq, stopq, mainVars>>, FutureHeld',
         \A t \in Threads : th[t] = "wait" => th'[t] = "wait" /\ ticket'[t] = ticket[t],
         \A t \in Threads : th[t] = "done" => th'[t] = "done"
  PROVE  EndInv'
  <1>1. PICK F, T, M, D, P, O, Q, at, n : Ends(F, T, M, D, P, O, Q, at, n)
    BY DEF EndInv
  <1>2. Agree(F, T, M, D, P, O, Q, at, n) /\ Ending(D, O, Q, n)
    BY <1>1 DEF Ends
  <1>3. /\ UNCHANGED <<packets, inflight, pend, fed, outs, tpq, syncq, pc>>
        /\ pc' \in [Ranks -> {"sync", "next", "loop", "ended", "failed"}]
    BY <1>2 DEF mainVars, Agree, MainType
  <1>4. Agree(F, T, M, D, P, O, Q, at, n)'
    BY <1>2, <1>3, AgreeKept
  <1>5. Ending(D, O, Q, n)'
    <2>1. Open(D, O) => Open(D, O)'
      BY <1>3 DEF Open
    <2>2. ASSUME NEW K, Closed(K, D, O, Q, n) PROVE Closed(K, D, O, Q, n)'
      BY <1>3, <2>2 DEF Closed, Fed
    <2>. QED BY <1>2, <2>1, <2>2 DEF Ending
  <1>6. Ends(F, T, M, D, P, O, Q, at, n)'
    BY <1>1, <1>4, <1>5, EndsKept
  <1>7. StopHeld'
    BY StopKept DEF EndInv
  <1>. QED BY <1>6, <1>7 DEF EndInv

(* What is left after another object. *)
LEMMA FlowsGrow ==
  ASSUME NEW F, NEW T, NEW M, NEW D, NEW P, NEW O, NEW Q, HistType(F, T, M, D, P, O, Q),
         Decisions(D, P, O, Q), NEW x \in Objects, NEW O2, Grows(O, x, O2), Flows(D, O, Q)
  PROVE  Flows(D, O2, Q)
  <1>1. \A k \in 0..Len(D) : \A y : y \in Left(D, O2, Q, k) <=> y \in Left(D, O, Q, k) \/ y = x
    BY LeftGrows
  <1>. QED BY <1>1 DEF Flows

(* The object put is of a rank, or the None. *)
LEMMA OwnedGrows ==
  ASSUME NEW O \in Seq(Objects), NEW x, NEW O2, Grows(O, x, O2), Owned(O),
         x # Nil => \E h \in Ranks : \E c \in Nat : x = IdOf(c, h)
  PROVE  Owned(O2)
  <1>1. \A i \in DOMAIN O2 : (i \in DOMAIN O /\ O2[i] = O[i]) \/ O2[i] = x
    BY DEF Grows
  <1>. QED BY <1>1 DEF Owned

(* A packet is put while its thread waits for the answer. *)
LEMMA PutEnds ==
  ASSUME CallInv, EndInv, NEW t \in Threads, Put(t)
  PROVE  EndInv'
  <1>1. PICK F, T, M, D, P, O, Q, at, n : Ends(F, T, M, D, P, O, Q, at, n)
    BY DEF EndInv
  <1>2. /\ Agree(F, T, M, D, P, O, Q, at, n) /\ Flows(D, O, Q) /\ Owned(O)
        /\ Awaited(D, O, Q, n) /\ Ending(D, O, Q, n)
    BY <1>1 DEF Ends
  <1>3. /\ MainType /\ HistType(F, T, M, D, P, O, Q) /\ Decisions(D, P, O, Q) /\ O \in Seq(Objects)
        /\ \A r \in Ranks : n[r] \in 0..Len(D)
    <2>1. /\ MainType /\ HistType(F, T, M, D, P, O, Q) /\ Decisions(D, P, O, Q)
      BY <1>2 DEF Agree
    <2>2. \A r \in Ranks : n[r] \in 0..Len(D)
      BY <1>2 DEF Agree, Lags
    <2>. QED BY <2>1, <2>2 DEF HistType
  <1>4. CallType /\ FutureInv /\ CallerInv
    BY DEF CallInv
  <1>5. PICK x, h : x = ticket[t] /\ h = Home[t]
    OBVIOUS
  <1>6. /\ th[t] = "put" /\ th' = [th EXCEPT ![t] = "wait"]
        /\ tpq' = [r \in Ranks |-> Append(tpq[r], x)]
        /\ UNCHANGED <<ticket, futures, syncq, stopq, pc, packets, inflight, pend, fed, outs>>
    BY <1>5 DEF Put, mainVars
  <1>7. /\ th'[t] = "wait" /\ \A u \in Threads : u # t => th'[u] = th[u]
    BY <1>4, <1>6 DEF CallType
  <1>8. h \in Ranks /\ x \in Nat /\ \E c \in Nat : x = IdOf(c, h)
    <2>1. h \in Ranks
      BY <1>5, ImpGenAssumption DEF Ranks
    <2>2. Calling(t)
      BY <1>6 DEF Calling
    <2>3. x \in futures[h]
      BY <1>4, <1>5, <2>2 DEF CallerInv
    <2>4. \E c \in Nat : x = IdOf(c, h)
      BY <1>4, <2>1, <2>3 DEF FutureInv
    <2>. QED BY <1>4, <2>1, <2>3, <2>4, CallFacts
  <1>9. x \in Objects /\ x # Nil
    BY <1>8, NumbersAreNotNil DEF Objects
  <1>10. PICK O2 : Grows(O, x, O2)
    BY DEF Grows
  <1>11. Agree(F, T, M, D, P, O2, Q, at, n)'
    <2>1. /\ UNCHANGED <<packets, inflight, pend, fed, outs, syncq>>
          /\ \A r \in Ranks : tpq'[r] = Append(tpq[r], x)
          /\ pc' \in [Ranks -> {"sync", "next", "loop", "ended", "failed"}]
          /\ \A r \in Ranks : pc'[r] = pc[r]
      BY <1>3, <1>6 DEF MainType
    <2>. QED BY <1>2, <1>4, <1>9, <1>10, <2>1, ObjectAgrees
  <1>12. Flows(D, O2, Q) /\ Owned(O2)
    <2>1. Flows(D, O2, Q)
      BY <1>2, <1>3, <1>9, <1>10, FlowsGrow
    <2>2. Owned(O2)
      BY <1>2, <1>3, <1>8, <1>10, OwnedGrows
    <2>. QED BY <2>1, <2>2
  <1>13. Awaited(D, O2, Q, n)'
    <2>. SUFFICES ASSUME NEW r \in Ranks, NEW c \in Nat, IdOf(c, r) \in Left(D, O2, Q, n[r])
                  PROVE  Waits(r, IdOf(c, r))'
      BY DEF Awaited, IdOf, Left, Fed
    <2>1. PICK y : y = IdOf(c, r)
      OBVIOUS
    <2>2. y \in Left(D, O, Q, n[r]) \/ y = x
      BY <1>3, <1>9, <1>10, <2>1, LeftGrows
    <2>3. CASE y = x
      <3>1. r = h
        <4>1. PICK d \in Nat : x = IdOf(d, h)
          BY <1>8
        <4>2. IdOf(c, r) = IdOf(d, h)
          BY <2>1, <2>3, <4>1
        <4>. QED BY <1>8, <4>2, IdUnique
      <3>2. Waits(r, y)'
        BY <1>5, <1>6, <1>7, <2>3, <3>1 DEF Waits
      <3>. QED BY <2>1, <3>2 DEF IdOf
    <2>4. CASE y \in Left(D, O, Q, n[r])
      <3>1. PICK u \in Threads : Home[u] = r /\ th[u] = "wait" /\ ticket[u] = y
        BY <1>2, <2>1, <2>4 DEF Awaited, Waits
      <3>2. th'[u] = "wait" /\ ticket'[u] = y
        BY <1>6, <1>7, <3>1
      <3>3. Waits(r, y)'
        BY <3>1, <3>2 DEF Waits
      <3>. QED BY <2>1, <3>3 DEF IdOf
    <2>. QED BY <2>2, <2>3, <2>4
  <1>14. Open(D, O2)'
    <2>1. Open(D, O)
      BY <1>2, <1>6 DEF Ending, Closed
    <2>2. \A i \in DOMAIN O2 : (i \in DOMAIN O /\ O2[i] = O[i]) \/ O2[i] = x
      BY <1>3, <1>10 DEF Grows
    <2>. QED BY <1>6, <1>9, <2>1, <2>2 DEF Open
  <1>15. Ends(F, T, M, D, P, O2, Q, at, n)'
    BY <1>11, <1>12, <1>13, <1>14 DEF Ends, Ending, Flows, Owned, Left, Fed, IdOf
  <1>16. FutureHeld' /\ StopHeld'
    <2>1. \A u \in Threads : Calling(u) => Calling(u)' /\ ticket'[u] = ticket[u]
      BY <1>6, <1>7 DEF Calling
    <2>2. \A u \in Threads : th[u] = "done" => th'[u] = "done"
      BY <1>6, <1>7
    <2>. QED BY <1>6, <2>1, <2>2, FuturesKept, StopKept DEF EndInv
  <1>. QED BY <1>15, <1>16 DEF EndInv

(* The None is all there is for a rank that made the steps before it. *)
LEMMA LastObject ==
  ASSUME CallType, NEW F, NEW T, NEW M, NEW D, NEW P, NEW O, NEW Q, NEW at, NEW n,
         Agree(F, T, M, D, P, O, Q, at, n), NEW r \in Ranks, Closed(n[r], D, O, Q, n)
  PROVE  /\ P[n[r]] \in Nat /\ P[n[r]] + 1 = Len(O) /\ Fed(D, n[r]) = P[n[r]]
         /\ inflight[r] = fed[r] - P[n[r]] /\ Len(packets[r]) = T[at[r]] - fed[r]
         /\ T[at[r]] \in Nat /\ fed[r] \in Nat /\ T[at[r]] <= Len(O) /\ Fed(D, n[r]) <= fed[r]
         /\ fed[r] <= T[at[r]] /\ O \in Seq(Objects) /\ tpq[r] = Part(O, T[at[r]], Len(O))
         /\ pend[r] = Part(O, Fed(D, n[r]), fed[r])
  <1>1. PICK a, m : a = at[r] /\ m = n[r]
    OBVIOUS
  <1>2. /\ MainType /\ HistType(F, T, M, D, P, O, Q) /\ Decisions(D, P, O, Q)
        /\ Lags(r, a, m, F, D) /\ Ran(r, a, m, T, M, D, P, O, Q)
    BY <1>1 DEF Agree
  <1>3. Stands(r, a, m, F, T, M, D, P, O, Q)
    BY <1>2, RunFacts
  <1>4. /\ m \in 0..Len(D) /\ P[m] \in Nat /\ inflight[r] = fed[r] - P[m] /\ m \in Nat
        /\ Len(packets[r]) = T[a] - fed[r] /\ T[a] \in Nat /\ fed[r] \in Nat /\ O \in Seq(Objects)
        /\ Fed(D, m) \in Nat /\ Len(D) \in Nat
    BY <1>3 DEF Stands
  <1>5. Q[m] = <<>> /\ Fed(D, m) + 1 = Len(O)
    BY <1>1 DEF Closed
  <1>6. Fed(D, m) = P[m]
    <2>1. CASE m = 0
      BY <1>2, <2>1 DEF Decisions, Fed
    <2>2. CASE m # 0
      <3>1. m \in 1..Len(D)
        BY <1>4, <2>2
      <3>2. Len(Q[m]) + P[m] = D[m].fed
        BY <1>2, <3>1 DEF Decisions
      <3>. QED BY <1>4, <1>5, <2>2, <3>2 DEF Fed
    <2>. QED BY <2>1, <2>2
  <1>7. /\ fed[r] <= T[a] /\ T[a] <= Len(O) /\ tpq[r] = Part(O, T[a], Len(O)) /\ Fed(D, m) <= fed[r]
        /\ pend[r] = Q[m] \o Part(O, Fed(D, m), fed[r])
    BY <1>2 DEF Ran
  <1>8. pend[r] = Part(O, Fed(D, m), fed[r])
    <2>1. PICK p : p = Part(O, Fed(D, m), fed[r])
      OBVIOUS
    <2>2. p \in Seq(Objects)
      <3>1. fed[r] <= Len(O)
        BY <1>4, <1>7
      <3>. QED BY <1>4, <1>7, <2>1, <3>1, PartFacts
    <2>3. <<>> \o p = p
      BY <2>2
    <2>. QED BY <1>5, <1>7, <2>1, <2>3
  <1>. QED BY <1>1, <1>4, <1>5, <1>6, <1>7, <1>8

(* Rank 0 announces a flag; with the None fed it goes on to the generator. *)
LEMMA LeadEnds ==
  ASSUME CallInv, EndInv, SyncLead
  PROVE  EndInv'
  <1>1. PICK F, T, M, D, P, O, Q, at, n : Ends(F, T, M, D, P, O, Q, at, n)
    BY DEF EndInv
  <1>2. Agree(F, T, M, D, P, O, Q, at, n) /\ Ending(D, O, Q, n)
    BY <1>1 DEF Ends
  <1>3. CallType /\ MainType /\ 0 \in Ranks /\ HistType(F, T, M, D, P, O, Q)
    BY <1>2, RankZero DEF CallInv, Agree
  <1>4. PICK G, T2, M2, at2 : Agree(G, T2, M2, D, P, O, Q, at2, n)'
    BY <1>2, <1>3, LeadAgrees
  <1>5. pc[0] = "sync" /\ (Take(0) \/ (tpq[0] = <<>> /\ Synced(0))) /\ UNCHANGED <<th, ticket, futures, stopq>>
    <2>1. pc[0] = "sync" /\ (Take(0) \/ (tpq[0] = <<>> /\ Synced(0)))
      BY DEF SyncLead
    <2>. QED BY <2>1 DEF Take, Synced, threadVars
  <1>6. n[0] = Len(D)
    BY <1>2, <1>5, LeadIsAhead
  <1>7. /\ pc'[0] \in {"sync", "next", "loop"} /\ \A s \in Ranks : s # 0 => pc'[s] = pc[s]
    BY <1>3, <1>5 DEF Take, Synced, MainType
  <1>8. ASSUME NEW K, Closed(K, D, O, Q, n) PROVE pc'[0] # "loop"
    <2>1. K \in 0..Len(D) /\ Len(D) <= K + 1 /\ n[0] # K + 1 /\ Len(D) \in Nat
      BY <1>3, <1>5, <1>8 DEF Closed, HistType
    <2>2. n[0] = K
      BY <1>6, <2>1
    <2>3. Closed(n[0], D, O, Q, n)
      BY <1>8, <2>2
    <2>4. CASE Take(0)
      BY <1>5, <2>4 DEF Take
    <2>5. CASE tpq[0] = <<>> /\ Synced(0)
      <3>1. PICK p \in Nat, f \in Nat, t \in Nat, l \in Nat :
              p = P[n[0]] /\ f = fed[0] /\ t = T[at[0]] /\ l = Len(O)
        BY <1>2, <1>3, <2>3, LastObject
      <3>2. /\ p + 1 = l /\ inflight[0] = f - p /\ Len(packets[0]) = t - f /\ t <= l /\ O \in Seq(Objects)
            /\ tpq[0] = Part(O, t, l)
        BY <1>2, <1>3, <2>3, <3>1, LastObject
      <3>3. t = l
        BY <2>5, <3>1, <3>2, RestEmpty
      <3>4. inflight'[0] = (f - p) + (t - f)
        BY <1>3, <2>5, <3>2 DEF Synced, MainType
      <3>5. inflight'[0] # 0
        BY <3>2, <3>3, <3>4
      <3>6. pc'[0] = "next"
        BY <1>3, <2>5, <3>5 DEF Synced, MainType
      <3>. QED BY <3>6
    <2>. QED BY <1>5, <2>4, <2>5
  <1>9. Ending(D, O, Q, n)'
    BY <1>2, <1>3, <1>5, <1>7, <1>8, EndingKept
  <1>10. Ends(G, T2, M2, D, P, O, Q, at2, n)'
    BY <1>1, <1>4, <1>5, <1>9, EndsKept
  <1>11. FutureHeld' /\ StopHeld'
    BY <1>5, FuturesKept, StopKept DEF EndInv, Calling
  <1>. QED BY <1>10, <1>11 DEF EndInv

(* A rank reads a flag. *)
LEMMA FollowEnds ==
  ASSUME CallInv, EndInv, NEW r \in Ranks, SyncFollow(r)
  PROVE  EndInv'
  <1>1. PICK F, T, M, D, P, O, Q, at, n : Ends(F, T, M, D, P, O, Q, at, n)
    BY DEF EndInv
  <1>2. Agree(F, T, M, D, P, O, Q, at, n) /\ Ending(D, O, Q, n)
    BY <1>1 DEF Ends
  <1>3. CallType /\ MainType
    BY <1>2 DEF CallInv, Agree
  <1>4. PICK at2 : Agree(F, T, M, D, P, O, Q, at2, n)'
    BY <1>2, <1>3, FollowAgrees
  <1>5. r # 0 /\ pc[r] = "sync" /\ (Take(r) \/ Synced(r)) /\ UNCHANGED <<th, ticket, futures, stopq>>
    BY DEF SyncFollow, Take, Synced, threadVars
  <1>6. /\ pc'[r] \in {"sync", "next", "loop"} /\ \A s \in Ranks : s # r => pc'[s] = pc[s]
    BY <1>3, <1>5 DEF Take, Synced, MainType
  <1>7. pc'[0] = pc[0]
    BY <1>5, <1>6, RankZero
  <1>8. Ending(D, O, Q, n)'
    BY <1>2, <1>5, <1>6, <1>7, EndingKept
  <1>9. Ends(F, T, M, D, P, O, Q, at2, n)'
    BY <1>1, <1>4, <1>5, <1>8, EndsKept
  <1>10. FutureHeld' /\ StopHeld'
    BY <1>5, FuturesKept, StopKept DEF EndInv, Calling
  <1>. QED BY <1>9, <1>10 DEF EndInv

(* With every thread done, rank 0 has nothing left: what it has is of a rank *)
(* that made no more steps, and has it too, with a thread that waits.        *)
LEMMA NothingLeft ==
  ASSUME NEW F, NEW T, NEW M, NEW D, NEW P, NEW O, NEW Q, NEW at, NEW n,
         Ends(F, T, M, D, P, O, Q, at, n), Open(D, O), pc[0] = "loop",
         \A t \in Threads : th[t] = "done"
  PROVE  Left(D, O, Q, n[0]) = {}
  <1>1. /\ Agree(F, T, M, D, P, O, Q, at, n) /\ Flows(D, O, Q) /\ Owned(O) /\ Awaited(D, O, Q, n)
    BY DEF Ends
  <1>2. /\ HistType(F, T, M, D, P, O, Q) /\ Q[0] = <<>> /\ n \in [Ranks -> Nat]
    BY <1>1 DEF Agree, Decisions
  <1>3. \A r \in Ranks : n[r] \in 0..Len(D)
    BY <1>1 DEF Agree, Lags
  <1>4. \A r \in Ranks : n[r] <= n[0]
    BY <1>1, LeadIsAhead
  <1>5. SUFFICES ASSUME NEW y \in Left(D, O, Q, n[0]) PROVE FALSE
    OBVIOUS
  <1>6. y \in Left(D, O, Q, 0)
    <2>1. 0 \in 0..Len(D) /\ n[0] \in 0..Len(D) /\ 0 <= n[0]
      BY <1>2, <1>3, RankZero DEF HistType
    <2>. QED BY <1>1, <1>5, <2>1 DEF Flows
  <1>7. PICK i \in DOMAIN O : O[i] = y
    <2>1. ~In(y, Q[0])
      BY <1>2 DEF In
    <2>2. PICK i \in (Fed(D, 0) + 1)..Len(O) : O[i] = y
      BY <1>6, <2>1, LeftIs
    <2>3. i \in 1..Len(O)
      BY <2>2 DEF Fed
    <2>4. DOMAIN O = 1..Len(O)
      BY <1>2 DEF HistType
    <2>. QED BY <2>2, <2>3, <2>4
  <1>8. PICK h \in Ranks, c \in Nat : y = IdOf(c, h)
    <2>1. y # Nil
      BY <1>7 DEF Open
    <2>. QED BY <1>1, <1>7, <2>1 DEF Owned
  <1>9. y \in Left(D, O, Q, n[h])
    <2>1. n[h] \in 0..Len(D) /\ n[0] \in 0..Len(D) /\ n[h] <= n[0]
      BY <1>3, <1>4, RankZero
    <2>. QED BY <1>1, <1>5, <2>1 DEF Flows
  <1>10. Waits(h, y)
    BY <1>1, <1>8, <1>9 DEF Awaited
  <1>. QED BY <1>10 DEF Waits

(* The None is put. *)
LEMMA NoneEnds ==
  ASSUME CallInv, NEW F, NEW T, NEW M, NEW D, NEW P, NEW O, NEW Q, NEW at, NEW n,
         Ends(F, T, M, D, P, O, Q, at, n), StopHeld, pc[0] = "loop", ThreadsDone(0), PutsNone(0),
         pc' = [pc EXCEPT ![0] = "sync"],
         \A s \in Ranks : tpq'[s] = Append(tpq[s], Nil),
         UNCHANGED <<th, ticket, packets, inflight, pend, fed, outs, syncq>>
  PROVE  \E O2 : Ends(F, T, M, D, P, O2, Q, at, n)'
  <1>1. /\ Agree(F, T, M, D, P, O, Q, at, n) /\ Flows(D, O, Q) /\ Owned(O)
        /\ Awaited(D, O, Q, n) /\ Ending(D, O, Q, n) /\ CallType /\ 0 \in Ranks
    BY RankZero DEF Ends, CallInv
  <1>2. /\ MainType /\ HistType(F, T, M, D, P, O, Q) /\ Decisions(D, P, O, Q) /\ O \in Seq(Objects)
        /\ Len(D) \in Nat /\ \A r \in Ranks : n[r] \in 0..Len(D)
    <2>1. /\ MainType /\ HistType(F, T, M, D, P, O, Q) /\ Decisions(D, P, O, Q)
      BY <1>1 DEF Agree
    <2>2. \A r \in Ranks : n[r] \in 0..Len(D)
      BY <1>1 DEF Agree, Lags
    <2>. QED BY <2>1, <2>2 DEF HistType
  <1>3. Open(D, O)
    BY <1>1 DEF Ending, Closed
  <1>4. ASSUME NEW t \in Threads PROVE th[t] = "done"
    <2>1. Home[t] \in Ranks
      BY ImpGenAssumption DEF Ranks
    <2>2. Home[t] \in stopq \cup {0}
      BY <2>1 DEF PutsNone
    <2>. QED BY <2>2 DEF StopHeld, ThreadsDone
  <1>5. Left(D, O, Q, n[0]) = {} /\ n[0] = Len(D)
    <2>1. Left(D, O, Q, n[0]) = {}
      BY <1>3, <1>4, NothingLeft
    <2>2. n[0] = Len(D)
      BY <1>1, LeadIsAhead
    <2>. QED BY <2>1, <2>2
  <1>6. PICK l \in Nat : l = Len(D)
    BY <1>2
  <1>7. Q[l] = <<>> /\ Fed(D, l) = Len(O)
    <2>1. l \in 0..Len(D)
      BY <1>6
    <2>2. PICK g \in Nat, e \in Nat : g = Fed(D, l) /\ e = Len(O)
      <3>1. Fed(D, l) \in Nat
        BY <1>2, <2>1, FedLimit
      <3>. QED BY <1>2, <3>1
    <2>3. g <= e
      BY <1>2, <2>1, <2>2, FedLimit
    <2>4. Q[l] \in Seq(Objects)
      BY <1>2, <2>1 DEF HistType
    <2>5. /\ \A i \in DOMAIN Q[l] : Q[l][i] \in Left(D, O, Q, l)
          /\ \A i \in (g + 1)..e : O[i] \in Left(D, O, Q, l)
      BY <2>2 DEF Left
    <2>6. DOMAIN Q[l] = {}
      BY <1>5, <1>6, <2>5
    <2>7. Q[l] = <<>>
      <3>1. PICK q : q = Q[l]
        OBVIOUS
      <3>2. q \in Seq(Objects) /\ DOMAIN q = {}
        BY <2>4, <2>6, <3>1
      <3>3. Len(q) = 0
        <4>1. Len(q) \in Nat /\ DOMAIN q = 1..Len(q)
          BY <3>2
        <4>2. Len(q) \notin 1..Len(q)
          BY <3>2, <4>1
        <4>. QED BY <4>1, <4>2
      <3>. QED BY <3>1, <3>2, <3>3
    <2>8. e \notin (g + 1)..e
      BY <1>5, <1>6, <2>5
    <2>9. g = e
      BY <2>3, <2>8
    <2>. QED BY <2>2, <2>7, <2>9
  <1>8. PICK O2 : Grows(O, Nil, O2)
    BY DEF Grows
  <1>9. Len(O2) = Len(O) + 1 /\ O2[Len(O2)] = Nil
    BY <1>2, <1>8 DEF Grows
  <1>10. /\ pc'[0] = "sync" /\ \A r \in Ranks : r # 0 => pc'[r] = pc[r]
         /\ pc' \in [Ranks -> {"sync", "next", "loop", "ended", "failed"}]
    BY <1>1, <1>2 DEF MainType
  <1>11. Agree(F, T, M, D, P, O2, Q, at, n)'
    <2>1. \A r \in Ranks : pc'[r] = pc[r] \/ (pc[r] = "loop" /\ pc'[r] = "sync")
      BY <1>10
    <2>. QED BY <1>1, <1>8, <1>10, <2>1, NumbersAreNotNil, ObjectAgrees
  <1>12. Flows(D, O2, Q) /\ Owned(O2)
    <2>1. Flows(D, O2, Q)
      BY <1>1, <1>2, <1>8, NumbersAreNotNil, FlowsGrow
    <2>2. Owned(O2)
      BY <1>1, <1>2, <1>8, OwnedGrows
    <2>. QED BY <2>1, <2>2
  <1>13. Awaited(D, O2, Q, n)'
    <2>. SUFFICES ASSUME NEW r \in Ranks, NEW c \in Nat, IdOf(c, r) \in Left(D, O2, Q, n[r])
                  PROVE  Waits(r, IdOf(c, r))'
      BY DEF Awaited, IdOf, Left, Fed
    <2>1. PICK y : y = IdOf(c, r)
      OBVIOUS
    <2>2. y # Nil
      BY <2>1, IdUnique, NumbersAreNotNil
    <2>3. y \in Left(D, O, Q, n[r])
      BY <1>2, <1>8, <2>1, <2>2, NumbersAreNotNil, LeftGrows
    <2>4. Waits(r, y)
      BY <1>1, <2>1, <2>3 DEF Awaited
    <2>. QED BY <1>4, <2>4 DEF Waits
  <1>14. Closed(l, D, O2, Q, n)'
    <2>1. l \in 0..Len(D) /\ Len(D) <= l + 1 /\ Len(D) # l + 1 /\ l <= n[0]
      BY <1>2, <1>5, <1>6
    <2>2. \A r \in Ranks : pc'[r] # "failed" /\ n[r] # l + 1
      BY <1>2, <1>3, <1>6, <1>10 DEF Open
    <2>3. \A k \in 1..l : D[k].what.kind = "packet"
      BY <1>3, <1>6 DEF Open
    <2>. QED BY <1>4, <1>7, <1>9, <1>10, <2>1, <2>2, <2>3 DEF Closed, Fed
  <1>. QED BY <1>11, <1>12, <1>13, <1>14 DEF Ends, Ending, Flows, Owned, Left, Fed, IdOf

(* A rank calls stop() or goes round. *)
LEMMA LoopEnds ==
  ASSUME CallInv, EndInv, NEW r \in Ranks, Loop(r)
  PROVE  EndInv'
  <1>1. PICK F, T, M, D, P, O, Q, at, n : Ends(F, T, M, D, P, O, Q, at, n)
    BY DEF EndInv
  <1>2. Agree(F, T, M, D, P, O, Q, at, n) /\ Ending(D, O, Q, n) /\ CallType /\ MainType
    BY <1>1 DEF Ends, Agree, CallInv
  <1>3. /\ pc[r] = "loop" /\ pc' = [pc EXCEPT ![r] = "sync"]
        /\ UNCHANGED <<th, ticket, futures, syncq, packets, inflight, pend, fed, outs>>
        /\ stopq' = stopq \/ (ThreadsDone(r) /\ stopq' = stopq \cup {r})
    BY DEF Loop, threadVars
  <1>4. /\ pc'[r] = "sync" /\ \A s \in Ranks : s # r => pc'[s] = pc[s]
        /\ pc' \in [Ranks -> {"sync", "next", "loop", "ended", "failed"}]
    BY <1>2, <1>3 DEF MainType
  <1>5. FutureHeld' /\ StopHeld'
    <2>1. FutureHeld'
      BY <1>3, FuturesKept DEF EndInv, Calling
    <2>2. StopHeld'
      BY <1>3 DEF EndInv, StopHeld, ThreadsDone
    <2>. QED BY <2>1, <2>2
  <1>6. CASE ThreadsDone(r) /\ PutsNone(r)
    <2>1. r = 0
      BY <1>6 DEF PutsNone
    <2>2. \A s \in Ranks : tpq'[s] = Append(tpq[s], Nil)
      BY <1>6 DEF Loop
    <2>3. StopHeld /\ ThreadsDone(0) /\ PutsNone(0)
      BY <1>6, <2>1 DEF EndInv
    <2>4. \E O2 : Ends(F, T, M, D, P, O2, Q, at, n)'
      BY <1>1, <1>3, <2>1, <2>2, <2>3, NoneEnds
    <2>. QED BY <1>5, <2>4 DEF EndInv
  <1>7. CASE ~(ThreadsDone(r) /\ PutsNone(r))
    <2>1. tpq' = tpq
      BY <1>2, <1>7 DEF Loop, CallType
    <2>2. Agree(F, T, M, D, P, O, Q, at, n)'
      <3>1. \A s \in Ranks : pc'[s] = pc[s] \/ (pc[s] = "loop" /\ pc'[s] = "sync")
        BY <1>3, <1>4
      <3>. QED BY <1>2, <1>3, <1>4, <2>1, <3>1, AgreeKept
    <2>3. pc'[0] = "loop" => pc[0] = "loop"
      BY <1>3, <1>4, RankZero
    <2>4. Ending(D, O, Q, n)'
      BY <1>2, <1>3, <1>4, <2>3, EndingKept
    <2>5. Ends(F, T, M, D, P, O, Q, at, n)'
      BY <1>1, <1>3, <2>2, <2>4, EndsKept
    <2>. QED BY <1>5, <2>5 DEF EndInv
  <1>. QED BY <1>6, <1>7

(* Before the None is put, the generator answers. *)
LEMMA OpenAnswers ==
  ASSUME HandoverFrequency = 0, CallType,
         NEW F, NEW T, NEW M, NEW D, NEW P, NEW O, NEW Q, NEW at, NEW n,
         Agree(F, T, M, D, P, O, Q, at, n), Flows(D, O, Q), Open(D, O),
         NEW r \in Ranks, NEW o \in Outcomes(r)
  PROVE  o.kind = "packet"
  <1>1. CASE o \in {Packet(p) : p \in Requests(r)}
    BY <1>1 DEF Packet
  <1>2. CASE o \in {h \in {Handover} : HandsOver(r)}
    BY <1>2 DEF HandsOver
  <1>3. CASE o \in {s \in {Stop} : Requests(r) = {} /\ NoneRead(r) /\ ~HandsOver(r)}
    <2>1. OfQueues(r, Nil)
      BY <1>3 DEF NoneRead, OfQueues, In
    <2>2. Nil \in Left(D, O, Q, n[r])
      BY <2>1, LeftInQueues
    <2>3. Nil \in Left(D, O, Q, 0)
      <3>1. n[r] \in 0..Len(D) /\ 0 \in 0..Len(D) /\ 0 <= n[r]
        BY DEF Agree, Lags
      <3>. QED BY <2>2, <3>1 DEF Flows
    <2>4. Q[0] = <<>> /\ DOMAIN O = 1..Len(O)
      BY DEF Agree, Decisions, HistType
    <2>5. ~In(Nil, Q[0])
      BY <2>4 DEF In
    <2>6. PICK i \in (Fed(D, 0) + 1)..Len(O) : O[i] = Nil
      BY <2>3, <2>5, LeftIs
    <2>7. i \in DOMAIN O
      BY <2>4, <2>6 DEF Fed
    <2>. QED BY <2>6, <2>7 DEF Open
  <1>. QED BY <1>1, <1>2, <1>3 DEF Outcomes

(* Then the rank finds the None alone in flight. *)
LEMMA NoneIsAlone ==
  ASSUME CallType, NEW F, NEW T, NEW M, NEW D, NEW P, NEW O, NEW Q, NEW at, NEW n,
         Agree(F, T, M, D, P, O, Q, at, n), NEW r \in Ranks, pc[r] = "next",
         Closed(n[r], D, O, Q, n)
  PROVE  inflight[r] = 1 /\ Requests(r) = {}
  <1>1. PICK a, m : a = at[r] /\ m = n[r]
    OBVIOUS
  <1>2. a \in 1..Len(F) /\ fed[r] = T[a] /\ M[a - 1] = m /\ M[a] = m + 1 /\ m \in Nat
    <2>1. OfNext(r, a, m, F, T, M, D, O, Q)
      BY <1>1, NextFacts
    <2>. QED BY <2>1 DEF OfNext
  <1>3. T[a] # P[m]
    <2>1. /\ F[a] => M[a] = M[a - 1]
          /\ ~F[a] => M[a] = M[a - 1] + (IF T[a] = P[M[a - 1]] THEN 0 ELSE 1)
      BY <1>2 DEF Agree, Schedule
    <2>. QED BY <1>2, <2>1
  <1>4. PICK p \in Nat, f \in Nat, l \in Nat : p = P[m] /\ f = fed[r] /\ l = Len(O)
    <2>1. P[m] \in Nat /\ fed[r] \in Nat /\ O \in Seq(Objects)
      BY <1>1, LastObject
    <2>. QED BY <2>1
  <1>5. /\ p + 1 = l /\ Fed(D, m) = p /\ inflight[r] = f - p /\ f <= l /\ p <= f
        /\ O \in Seq(Objects) /\ pend[r] = Part(O, p, f)
    <2>1. /\ P[m] + 1 = Len(O) /\ Fed(D, m) = P[m] /\ inflight[r] = fed[r] - P[m] /\ T[a] <= Len(O)
          /\ Fed(D, m) <= fed[r] /\ O \in Seq(Objects) /\ pend[r] = Part(O, Fed(D, m), fed[r])
      BY <1>1, LastObject
    <2>. QED BY <1>2, <1>4, <2>1
  <1>6. f = l /\ f - p = 1
    BY <1>2, <1>3, <1>4, <1>5
  <1>7. \A i \in DOMAIN pend[r] : pend[r][i] = Nil
    <2>1. PICK q : q = Part(O, p, f)
      OBVIOUS
    <2>2. q \in Seq(Objects) /\ Len(q) = 1 /\ \A i \in 1..1 : q[i] = O[p + i]
      <3>1. p <= f /\ f <= Len(O)
        BY <1>4, <1>5
      <3>2. /\ Part(O, p, f) \in Seq(Objects) /\ Len(Part(O, p, f)) = f - p
            /\ \A i \in 1..(f - p) : Part(O, p, f)[i] = O[p + i]
        <4>1. O \in Seq(Objects)
          BY <1>5
        <4>. QED BY <3>1, <4>1, PartFacts
      <3>. QED BY <1>6, <2>1, <3>2
    <2>3. DOMAIN q = 1..1
      BY <2>2
    <2>4. O[p + 1] = Nil
      BY <1>1, <1>4, <1>5 DEF Closed
    <2>5. \A i \in DOMAIN q : q[i] = Nil
      <3>. SUFFICES ASSUME NEW i \in DOMAIN q PROVE q[i] = Nil
        OBVIOUS
      <3>1. i = 1 /\ i \in 1..1
        BY <2>3
      <3>. QED BY <2>2, <2>4, <3>1
    <2>. QED BY <1>5, <2>1, <2>5
  <1>. QED BY <1>5, <1>6, <1>7 DEF Requests

(* The thread that is answered waits for nothing any more. *)
LEMMA AwaitStep ==
  ASSUME CallInv, NEW F, NEW T, NEW M, NEW D, NEW P, NEW O, NEW Q, NEW at, NEW n,
         Agree(F, T, M, D, P, O, Q, at, n), Awaited(D, O, Q, n), NEW r \in Ranks, NEW o,
         Resolves(r, o), Chosen(o, pend[r]), NEW n2, OneMore(n, r, n2),
         NEW D2, NEW Q2, Q2[n[r] + 1] = After(pend[r], o), Fed(D2, n[r] + 1) = fed[r],
         \A s \in Ranks : Left(D2, O, Q2, n[s]) = Left(D, O, Q, n[s])
  PROVE  Awaited(D2, O, Q2, n2)'
  <1>1. CallType /\ CallerInv
    BY DEF CallInv
  <1>2. n2[r] = n[r] + 1 /\ \A s \in Ranks : s # r => n2[s] = n[s]
    BY DEF Agree, OneMore
  <1>3. /\ Left(D2, O, Q2, n2[r]) \subseteq Left(D, O, Q, n[r])
        /\ o.kind = "packet" /\ In(o.id, pend[r]) /\ OnTheWay(r, o.id) = 1
             => o.id \notin Left(D2, O, Q2, n2[r])
    <2>1. PICK m : m = n[r] + 1
      OBVIOUS
    <2>2. /\ Left(D2, O, Q2, m) \subseteq Left(D, O, Q, n[r])
          /\ o.kind = "packet" /\ In(o.id, pend[r]) /\ OnTheWay(r, o.id) = 1
               => o.id \notin Left(D2, O, Q2, m)
      BY <1>1, <2>1, LeftShrinks
    <2>. QED BY <1>2, <2>1, <2>2
  <1>4. \A s \in Ranks : Left(D2, O, Q2, n2[s]) \subseteq Left(D, O, Q, n[s])
    BY <1>2, <1>3
  <1>5. ASSUME NEW t \in Threads, th[t] = "wait"
        PROVE  \/ th'[t] = "wait" /\ ticket'[t] = ticket[t]
               \/ ticket[t] \notin Left(D2, O, Q2, n2[Home[t]])
    <2>1. CASE o.kind # "packet"
      BY <1>5, <2>1 DEF Resolves
    <2>2. CASE o.kind = "packet"
      <3>. DEFINE Resumes(u) == Home[u] = r /\ o.id \in futures[r] /\ ticket[u] = o.id /\ th[u] = "wait"
      <3>1. /\ th' = [u \in Threads |-> IF Resumes(u) THEN "free" ELSE th[u]]
            /\ ticket' = [u \in Threads |-> IF Resumes(u) THEN Nil ELSE ticket[u]]
        BY <2>2 DEF Resolves, Answer
      <3>2. CASE Resumes(t)
        <4>1. OnTheWay(r, o.id) = 1
          BY <1>1, <1>5, <3>2 DEF CallerInv, Calling
        <4>2. In(o.id, pend[r])
          BY <2>2 DEF Chosen, In
        <4>3. o.id \notin Left(D2, O, Q2, n2[r])
          BY <1>3, <2>2, <4>1, <4>2
        <4>. QED BY <3>2, <4>3
      <3>3. CASE ~Resumes(t)
        BY <1>5, <3>1, <3>3
      <3>. QED BY <3>2, <3>3
    <2>. QED BY <2>1, <2>2
  <1>. QED BY <1>4, <1>5, AwaitKept

(* A step once the None is put. *)
LEMMA ClosedStep ==
  ASSUME NEW K, NEW D, NEW O, NEW Q, NEW n, Closed(K, D, O, Q, n), NEW r \in Ranks,
         n \in [Ranks -> Nat], NEW n2, OneMore(n, r, n2), pc[r] = "next",
         \A s \in Ranks : s # r => pc'[s] = pc[s],
         \A t \in Threads : th[t] = "done" => th'[t] = "done",
         NEW D2, NEW Q2, Len(D2) \in Nat, K \in 0..Len(D2), Len(D2) <= K + 1,
         Q2[K] = Q[K], Fed(D2, K) = Fed(D, K), \A k \in 1..K : D2[k] = D[k],
         Len(D2) = K + 1 => D2[K + 1].what = Stop,
         \/ pc'[r] = "ended"
         \/ pc'[r] = "loop" /\ r # 0 /\ n[r] # K
  PROVE  Closed(K, D2, O, Q2, n2)'
  <1>1. n2[r] = n[r] + 1 /\ \A s \in Ranks : s # r => n2[s] = n[s]
    BY DEF OneMore
  <1>2. K \in Nat /\ 0 \in Ranks /\ \A s \in Ranks : n[s] \in Nat
    BY RankZero
  <1>3. K <= n2[0]
    <2>1. K <= n[0] /\ n[0] \in Nat
      BY <1>2 DEF Closed
    <2>2. n2[0] = n[0] \/ n2[0] = n[0] + 1
      BY <1>1, <1>2
    <2>. QED BY <1>2, <2>1, <2>2
  <1>4. pc'[0] # "loop"
    BY <1>2 DEF Closed
  <1>5. ASSUME NEW s \in Ranks PROVE pc'[s] # "failed" /\ (n2[s] = K + 1 => pc'[s] = "ended")
    <2>1. CASE s = r
      BY <1>1, <1>2, <2>1
    <2>2. CASE s # r
      BY <1>1, <2>2 DEF Closed
    <2>. QED BY <2>1, <2>2
  <1>6. /\ Q2[K] = <<>> /\ Fed(D2, K) + 1 = Len(O) /\ O[Len(O)] = Nil
        /\ \A k \in 1..K : D2[k].what.kind = "packet"
        /\ \A t \in Threads : th'[t] = "done"
    BY DEF Closed
  <1>. QED BY <1>3, <1>4, <1>5, <1>6 DEF Closed, Fed

(* An answer leaves the threads that are done, and takes its future. *)
LEMMA AnswersKeep ==
  ASSUME CallInv, FutureHeld, NEW r \in Ranks, NEW o, Resolves(r, o)
  PROVE  FutureHeld' /\ \A t \in Threads : th[t] = "done" => th'[t] = "done"
  <1>1. CASE o.kind = "packet"
    <2>1. PICK x : x = o.id
      OBVIOUS
    <2>2. Answer(r, x)
      BY <1>1, <2>1 DEF Resolves
    <2>3. FutureHeld'
      BY <2>2, AnswerHeld
    <2>4. \A t \in Threads : th[t] = "done" => th'[t] = "done"
      BY <2>2 DEF Answer
    <2>. QED BY <2>3, <2>4
  <1>2. CASE o.kind # "packet"
    <2>1. UNCHANGED <<th, ticket, futures>>
      BY <1>2 DEF Resolves
    <2>. QED BY <2>1, FuturesKept DEF Calling
  <1>. QED BY <1>1, <1>2

(* A rank takes the outcome another rank chose. *)
LEMMA FollowerEnds ==
  ASSUME CallInv, FutureHeld,
         NEW F, NEW T, NEW M, NEW D, NEW P, NEW O, NEW Q, NEW at, NEW n,
         Ends(F, T, M, D, P, O, Q, at, n), NEW r \in Ranks, NEW o, pc[r] = "next", outs[r] # <<>>,
         Outcome(r, o), Takes(r, o), Resolves(r, o), GoesOn(r, o), NEW n2, OneMore(n, r, n2)
  PROVE  Ends(F, T, M, D, P, O, Q, at, n2)'
  <1>1. /\ Agree(F, T, M, D, P, O, Q, at, n) /\ Flows(D, O, Q) /\ Owned(O)
        /\ Awaited(D, O, Q, n) /\ Ending(D, O, Q, n) /\ CallType
    BY DEF Ends, CallInv
  <1>2. /\ n \in [Ranks -> Nat] /\ Len(D) \in Nat
    BY <1>1 DEF Agree, HistType
  <1>3. Agree(F, T, M, D, P, O, Q, at, n2)'
    BY <1>1, FollowerAgrees
  <1>4. /\ n[r] + 1 \in 1..Len(D) /\ o = D[n[r] + 1].what
        /\ Fed(D, n[r] + 1) = fed[r] /\ Q[n[r] + 1] = After(pend[r], o) /\ Chosen(o, pend[r])
    BY <1>1, FollowerTakes
  <1>5. Awaited(D, O, Q, n2)'
    BY <1>1, <1>4, AwaitStep
  <1>6. \A t \in Threads : th[t] = "done" => th'[t] = "done"
    BY AnswersKeep
  <1>7. /\ \A s \in Ranks : s # r => pc'[s] = pc[s]
        /\ o.kind = "packet" => pc'[r] = "loop"
    BY DEF Takes, GoesOn
  <1>8. Ending(D, O, Q, n2)'
    <2>1. CASE Open(D, O)
      <3>1. o.kind = "packet"
        BY <1>4, <2>1 DEF Open
      <3>2. \A s \in Ranks : pc'[s] \notin {"ended", "failed"}
        BY <1>7, <2>1, <3>1 DEF Open
      <3>. QED BY <2>1, <3>2 DEF Ending, Open
    <2>2. CASE \E K : Closed(K, D, O, Q, n)
      <3>1. PICK K : Closed(K, D, O, Q, n)
        BY <2>2
      <3>2. /\ K \in 0..Len(D) /\ Len(D) <= K + 1 /\ K <= n[0] /\ n[r] # K + 1
            /\ Len(D) = K + 1 => D[K + 1].what = Stop
        BY <3>1 DEF Closed
      <3>3. n[r] \in Nat /\ n[r] <= K
        BY <1>2, <1>4, <3>2
      <3>4. \/ pc'[r] = "ended"
            \/ pc'[r] = "loop" /\ r # 0 /\ n[r] # K
        <4>1. CASE n[r] = K
          <5>1. Len(D) = K + 1
            BY <1>2, <1>4, <3>2, <4>1
          <5>2. o = Stop
            BY <1>4, <3>2, <4>1, <5>1
          <5>3. inflight[r] = 1
            BY <1>1, <3>1, <4>1, NoneIsAlone
          <5>4. futures[r] = {}
            BY <3>1 DEF FutureHeld, Closed, Calling
          <5>. QED BY <5>2, <5>3, <5>4 DEF GoesOn, Stop
        <4>2. CASE n[r] # K
          <5>1. r # 0
            BY <3>2, <3>3, <4>2
          <5>2. n[r] + 1 \in 1..K
            BY <1>4, <3>2, <3>3, <4>2
          <5>3. o.kind = "packet"
            BY <1>4, <3>1, <5>2 DEF Closed
          <5>. QED BY <1>7, <4>2, <5>1, <5>3
        <4>. QED BY <4>1, <4>2
      <3>5. Closed(K, D, O, Q, n2)'
        BY <1>2, <1>6, <1>7, <3>1, <3>2, <3>4, ClosedStep
      <3>. QED BY <3>5 DEF Ending
    <2>. QED BY <1>1, <2>1, <2>2 DEF Ending
  <1>. QED BY <1>1, <1>3, <1>5, <1>8 DEF Ends, Flows, Owned, Left

(* A rank is the first to step, and chooses. *)
LEMMA FirstEnds ==
  ASSUME HandoverFrequency = 0, CallInv, FutureHeld,
         NEW F, NEW T, NEW M, NEW D, NEW P, NEW O, NEW Q, NEW at, NEW n,
         Ends(F, T, M, D, P, O, Q, at, n), NEW r \in Ranks, NEW o \in Outcome0, pc[r] = "next",
         outs[r] = <<>>, Outcome(r, o), Takes(r, o), Resolves(r, o), GoesOn(r, o),
         NEW n2, OneMore(n, r, n2)
  PROVE  \E D2, P2, Q2 : Ends(F, T, M, D2, P2, O, Q2, at, n2)'
  <1>1. /\ Agree(F, T, M, D, P, O, Q, at, n) /\ Flows(D, O, Q) /\ Owned(O)
        /\ Awaited(D, O, Q, n) /\ Ending(D, O, Q, n) /\ CallType
    BY DEF Ends, CallInv
  <1>2. /\ n \in [Ranks -> Nat] /\ D \in Seq(Decided) /\ P \in [0..Len(D) -> Nat]
        /\ Q \in [0..Len(D) -> Seq(Objects)] /\ \A s \in Ranks : n[s] \in 0..Len(D)
    BY <1>1 DEF Agree, HistType, Lags
  <1>3. PICK l \in Nat : l = Len(D)
    BY <1>2
  <1>4. n[r] = l
    <2>1. outs[r] = Part(D, n[r], Len(D)) /\ n[r] \in Nat /\ n[r] \in 0..Len(D)
      BY <1>1, <1>2 DEF Agree, Lags
    <2>. QED BY <1>2, <1>3, <2>1, RestEmpty
  <1>5. PICK d, q : d = [what |-> o, fed |-> fed[r]] /\ q = After(pend[r], o)
    OBVIOUS
  <1>6. PICK D2, P2, Q2 : Decides(D, P, Q, d, q, D2, P2, Q2) /\ Agree(F, T, M, D2, P2, O, Q2, at, n2)'
    BY <1>1, <1>5, FirstAgrees
  <1>7. d \in Decided /\ d.what = o /\ d.fed = fed[r] /\ q \in Seq(Objects)
    <2>1. fed[r] \in Nat /\ pend[r] \in Seq(Objects)
      BY <1>1 DEF CallType
    <2>2. q \in Seq(Objects)
      BY <1>5, <2>1, CountWithout DEF After
    <2>. QED BY <1>5, <2>1, <2>2 DEF Decided
  <1>8. Prolongs(l, D, P, Q, d, q, D2, P2, Q2)
    BY <1>2, <1>3, <1>6, <1>7, DecidesFacts
  <1>9. /\ Len(D2) = l + 1 /\ D2[l + 1] = d /\ Q2[l + 1] = q /\ Fed(D2, l + 1) = fed[r]
        /\ \A k \in 1..l : D2[k] = D[k]
        /\ \A k \in 0..l : Q2[k] = Q[k] /\ Fed(D2, k) = Fed(D, k)
    <2>1. /\ Len(D2) = l + 1 /\ D2[l + 1] = d /\ Q2[l + 1] = q
          /\ \A k \in 1..l : D2[k] = D[k]
          /\ \A k \in 0..l : Q2[k] = Q[k] /\ Fed(D2, k) = Fed(D, k)
      BY <1>8 DEF Prolongs
    <2>2. Fed(D2, l + 1) = fed[r]
      BY <1>3, <1>7, <2>1 DEF Fed
    <2>. QED BY <2>1, <2>2
  <1>10. \A k \in 0..l : Left(D2, O, Q2, k) = Left(D, O, Q, k)
    BY <1>8, LeftStays
  <1>11. Chosen(o, pend[r]) /\ o \in Outcomes(r)
    <2>1. o \in Outcomes(r)
      BY DEF Outcome
    <2>. QED BY <2>1, ChosenFits
  <1>12. Awaited(D2, O, Q2, n2)'
    <2>1. Q2[n[r] + 1] = After(pend[r], o) /\ Fed(D2, n[r] + 1) = fed[r]
      BY <1>4, <1>5, <1>9
    <2>2. \A s \in Ranks : Left(D2, O, Q2, n[s]) = Left(D, O, Q, n[s])
      BY <1>2, <1>3, <1>10
    <2>. QED BY <1>1, <1>11, <2>1, <2>2, AwaitStep
  <1>13. Flows(D2, O, Q2)
    <2>1. Left(D2, O, Q2, l + 1) \subseteq Left(D, O, Q, l)
      <3>1. PICK m : m = n[r] + 1
        OBVIOUS
      <3>2. m = l + 1 /\ Q2[m] = After(pend[r], o) /\ Fed(D2, m) = fed[r]
        BY <1>4, <1>5, <1>9, <3>1
      <3>3. Left(D2, O, Q2, m) \subseteq Left(D, O, Q, n[r])
        BY <1>1, <3>1, <3>2, LeftShrinks
      <3>. QED BY <1>4, <3>2, <3>3
    <2>2. \A j, k \in 0..l : j <= k => Left(D2, O, Q2, k) \subseteq Left(D2, O, Q2, j)
      BY <1>1, <1>3, <1>10 DEF Flows
    <2>3. \A j \in 0..l : Left(D2, O, Q2, l + 1) \subseteq Left(D2, O, Q2, j)
      <3>. SUFFICES ASSUME NEW j \in 0..l PROVE Left(D2, O, Q2, l + 1) \subseteq Left(D2, O, Q2, j)
        OBVIOUS
      <3>1. l \in 0..l /\ j <= l
        OBVIOUS
      <3>2. Left(D2, O, Q2, l) \subseteq Left(D2, O, Q2, j) /\ Left(D2, O, Q2, l) = Left(D, O, Q, l)
        BY <1>10, <2>2, <3>1
      <3>. QED BY <2>1, <3>2
    <2>4. \A k \in 0..(l + 1) : k \in 0..l \/ k = l + 1
      OBVIOUS
    <2>5. ASSUME NEW j \in 0..(l + 1), NEW k \in 0..(l + 1), j <= k
          PROVE  Left(D2, O, Q2, k) \subseteq Left(D2, O, Q2, j)
      <3>1. CASE k \in 0..l
        <4>1. j \in 0..l
          BY <2>5, <3>1
        <4>. QED BY <2>2, <2>5, <3>1, <4>1
      <3>2. CASE k = l + 1
        BY <2>3, <2>4, <3>2
      <3>. QED BY <2>4, <3>1, <3>2
    <2>. QED BY <1>9, <2>5 DEF Flows
  <1>14. \A t \in Threads : th[t] = "done" => th'[t] = "done"
    BY AnswersKeep
  <1>15. /\ \A s \in Ranks : s # r => pc'[s] = pc[s]
         /\ o.kind = "packet" => pc'[r] = "loop"
    BY DEF Takes, GoesOn
  <1>16. Ending(D2, O, Q2, n2)'
    <2>1. CASE Open(D, O)
      <3>1. o.kind = "packet"
        BY <1>1, <1>11, <2>1, OpenAnswers
      <3>2. \A s \in Ranks : pc'[s] \notin {"ended", "failed"}
        BY <1>15, <2>1, <3>1 DEF Open
      <3>3. ASSUME NEW k \in 1..Len(D2) PROVE D2[k].what.kind = "packet"
        <4>1. k = l + 1 \/ k \in 1..l
          BY <1>9
        <4>2. CASE k = l + 1
          BY <1>7, <1>9, <3>1, <4>2
        <4>3. CASE k \in 1..l
          BY <1>3, <1>9, <2>1, <4>3 DEF Open
        <4>. QED BY <4>1, <4>2, <4>3
      <3>. QED BY <2>1, <3>2, <3>3 DEF Ending, Open
    <2>2. CASE \E K : Closed(K, D, O, Q, n)
      <3>1. PICK K : Closed(K, D, O, Q, n)
        BY <2>2
      <3>2. K = l
        <4>1. K \in 0..l /\ l <= K + 1 /\ l # K + 1
          BY <1>3, <1>4, <3>1 DEF Closed
        <4>. QED BY <4>1
      <3>3. Closed(n[r], D, O, Q, n)
        BY <1>4, <3>1, <3>2
      <3>4. inflight[r] = 1 /\ Requests(r) = {}
        BY <1>1, <3>3, NoneIsAlone
      <3>5. o = Stop
        <4>1. o \notin {Packet(p) : p \in Requests(r)}
          BY <3>4
        <4>2. o \notin {h \in {Handover} : HandsOver(r)}
          BY DEF HandsOver
        <4>. QED BY <1>11, <4>1, <4>2 DEF Outcomes
      <3>6. futures[r] = {}
        BY <3>1 DEF FutureHeld, Closed, Calling
      <3>7. pc'[r] = "ended"
        BY <3>4, <3>5, <3>6 DEF GoesOn, Stop
      <3>8. /\ Len(D2) \in Nat /\ K \in 0..Len(D2) /\ Len(D2) <= K + 1
            /\ Q2[K] = Q[K] /\ Fed(D2, K) = Fed(D, K) /\ (\A k \in 1..K : D2[k] = D[k])
            /\ D2[K + 1].what = Stop
        <4>1. l \in 0..l /\ l \in 0..(l + 1)
          OBVIOUS
        <4>. QED BY <1>7, <1>9, <3>2, <3>5, <4>1
      <3>9. Closed(K, D2, O, Q2, n2)'
        BY <1>2, <1>14, <1>15, <3>1, <3>7, <3>8, ClosedStep
      <3>. QED BY <3>9 DEF Ending
    <2>. QED BY <1>1, <2>1, <2>2 DEF Ending
  <1>17. Ends(F, T, M, D2, P2, O, Q2, at, n2)'
    BY <1>1, <1>6, <1>12, <1>13, <1>16 DEF Ends, Flows, Owned, Left
  <1>. QED BY <1>17

(* A rank takes a step of the generator. *)
LEMMA StepEnds ==
  ASSUME HandoverFrequency = 0, CallInv, EndInv, NEW r \in Ranks, Step(r)
  PROVE  EndInv'
  <1>1. PICK F, T, M, D, P, O, Q, at, n : Ends(F, T, M, D, P, O, Q, at, n)
    BY DEF EndInv
  <1>2. FutureHeld /\ StopHeld /\ MainType /\ pc[r] = "next"
    BY <1>1 DEF EndInv, Ends, Agree, Step
  <1>3. PICK o \in Outcome0 : Outcome(r, o) /\ Takes(r, o) /\ Resolves(r, o) /\ GoesOn(r, o)
    BY <1>2, StepTakes
  <1>4. PICK n2 : OneMore(n, r, n2)
    BY DEF OneMore
  <1>5. FutureHeld' /\ StopHeld'
    <2>1. FutureHeld' /\ \A t \in Threads : th[t] = "done" => th'[t] = "done"
      BY <1>2, <1>3, AnswersKeep
    <2>2. UNCHANGED stopq
      BY DEF Step
    <2>. QED BY <1>2, <2>1, <2>2, StopKept
  <1>6. CASE outs[r] # <<>>
    <2>1. Ends(F, T, M, D, P, O, Q, at, n2)'
      BY <1>1, <1>2, <1>3, <1>4, <1>6, FollowerEnds
    <2>. QED BY <1>5, <2>1 DEF EndInv
  <1>7. CASE outs[r] = <<>>
    <2>1. PICK D2, P2, Q2 : Ends(F, T, M, D2, P2, O, Q2, at, n2)'
      BY <1>1, <1>2, <1>3, <1>4, <1>7, FirstEnds
    <2>. QED BY <1>5, <2>1 DEF EndInv
  <1>. QED BY <1>6, <1>7

(* A new group has nothing to end. *)
LEMMA FreshEnds == IgInit => EndInv
  <1>. SUFFICES ASSUME IgInit PROVE EndInv
    OBVIOUS
  <1>1. PICK F, T, M, D, P, O, Q, at, n : Agree(F, T, M, D, P, O, Q, at, n) /\ NoHistory(D, O, Q)
    BY FreshHistory
  <1>2. D = <<>> /\ O = <<>> /\ Q[0] = <<>> /\ Len(D) = 0 /\ Len(O) = 0 /\ DOMAIN O = {} /\ 1..0 = {}
    BY <1>1 DEF NoHistory
  <1>3. \A r \in Ranks : n[r] = 0
    BY <1>1, <1>2 DEF Agree, Lags
  <1>4. Left(D, O, Q, 0) = {}
    <2>1. DOMAIN Q[0] = {} /\ (Fed(D, 0) + 1)..Len(O) = {}
      BY <1>2 DEF Fed
    <2>. QED BY <2>1 DEF Left
  <1>5. Flows(D, O, Q) /\ Owned(O) /\ Awaited(D, O, Q, n)
    <2>1. Flows(D, O, Q)
      <3>1. \A j \in 0..Len(D) : j = 0
        BY <1>2
      <3>. QED BY <3>1 DEF Flows
    <2>2. Owned(O)
      BY <1>2 DEF Owned
    <2>3. Awaited(D, O, Q, n)
      BY <1>3, <1>4 DEF Awaited
    <2>. QED BY <2>1, <2>2, <2>3
  <1>6. Open(D, O) /\ FutureHeld /\ StopHeld
    <2>1. pc = [r \in Ranks |-> "sync"] /\ futures = [r \in Ranks |-> {}] /\ stopq = {}
      BY DEF IgInit, IgFresh
    <2>. QED BY <1>2, <2>1 DEF Open, FutureHeld, StopHeld
  <1>7. Ends(F, T, M, D, P, O, Q, at, n)
    BY <1>1, <1>5, <1>6 DEF Ends, Ending
  <1>. QED BY <1>6, <1>7 DEF EndInv

(* The same after a crash. *)
LEMMA RestartEnds == IgInit' => EndInv'
  <1>1. IgInit => EndInv
    BY FreshEnds
  <1>. QED BY <1>1, PTL

(* Without handovers, each step keeps how a group ends. *)
LEMMA EndStep ==
  ASSUME HandoverFrequency = 0, CallInv, EndInv, [Next]_vars
  PROVE  EndInv'
  <1>0. CallType /\ FutureHeld
    BY DEF CallInv, EndInv
  <1>1. ASSUME UNCHANGED <<th, ticket, futures, tpq, syncq, stopq, mainVars>> PROVE EndInv'
    <2>1. FutureHeld'
      BY <1>0, <1>1, FuturesKept DEF Calling
    <2>. QED BY <1>1, <2>1, QuietEnds
  <1>2. CASE Crash
    <2>1. IgInit'
      BY <1>2 DEF Crash, IgRestart, IgInit, IgFresh
    <2>. QED BY <2>1, RestartEnds
  <1>3. CASE MainThread
    BY <1>3, LeadEnds, FollowEnds, StepEnds, LoopEnds DEF MainThread, Mains, Main
  <1>4. ASSUME NEW t \in Threads, GetDatum(t) PROVE EndInv'
    <2>1. /\ UNCHANGED <<ticket, futures, tpq, syncq, stopq, mainVars>> /\ th[t] = "free"
          /\ th' = [th EXCEPT ![t] = IF Head(dataq) = Done THEN "done" ELSE "free"]
      BY <1>4 DEF GetDatum
    <2>2. \A u \in Threads : th[u] # "free" => th'[u] = th[u]
      BY <1>0, <2>1 DEF CallType
    <2>3. FutureHeld'
      <3>1. \A u \in Threads : Calling(u) => Calling(u)' /\ ticket'[u] = ticket[u]
        BY <2>1, <2>2 DEF Calling
      <3>. QED BY <1>0, <2>1, <3>1, FuturesKept
    <2>. QED BY <2>1, <2>2, <2>3, QuietEnds
  <1>5. ASSUME NEW t \in Threads, CallGenerate(t) PROVE EndInv'
    <2>1. /\ Register(t) /\ UNCHANGED <<tpq, syncq, stopq, mainVars>> /\ th[t] = "free"
          /\ \A u \in Threads : u # t => th'[u] = th[u] /\ ticket'[u] = ticket[u]
      BY <1>0, <1>5 DEF CallGenerate, Register, CallType
    <2>2. FutureHeld'
      BY <1>0, <2>1, RegisterHeld
    <2>3. \A u \in Threads : th[u] \in {"wait", "done"} => th'[u] = th[u] /\ ticket'[u] = ticket[u]
      BY <2>1
    <2>. QED BY <2>1, <2>2, <2>3, QuietEnds
  <1>6. ASSUME NEW t \in Threads, PutPacket(t) PROVE EndInv'
    BY <1>6, PutEnds DEF PutPacket
  <1>7. ASSUME NEW t \in Threads, Leave(t) \/ Succeed(t) \/ Raise(t) PROVE EndInv'
    BY <1>1, <1>7 DEF Leave, Succeed, Raise, igVars, threadVars
  <1>8. CASE Load \/ Dump
    BY <1>1, <1>8 DEF Load, LoadPut, LoadNext, LoadDone, Dump, DumpGet, DumpLine, igVars, threadVars
  <1>9. CASE UNCHANGED vars
    BY <1>1, <1>9 DEF vars, igVars, threadVars
  <1>. QED BY <1>2, <1>3, <1>4, <1>5, <1>6, <1>7, <1>8, <1>9 DEF Next, Rollout, Finished

(***************************************************************************)
(* Without handovers, the generator stops when everything has been         *)
(* answered and the None alone is in flight: the two assertions of work()  *)
(* at StopIteration hold.  With handovers they fail.                       *)
(***************************************************************************)
THEOREM StopsAreClean ==
  ASSUME HandoverFrequency = 0
  PROVE  Spec => []StopsClean
  <1>1. Init => EndInv
    BY FreshEnds DEF Init
  <1>2. CallInv /\ EndInv /\ [Next]_vars => EndInv'
    BY EndStep
  <1>3. EndInv => StopsClean
    BY EndsClean
  <1>. QED BY <1>1, <1>2, <1>3, CallsInv, PTL DEF Spec
=============================================================================
