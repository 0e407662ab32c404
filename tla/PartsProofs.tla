---------------------------- MODULE PartsProofs ----------------------------
(***************************************************************************)
(* Proofs about the parts that MCParts checks together, for every value of *)
(* their constants: the prefix cache on the host, the container backend,   *)
(* the judge of programs and the offline evaluation of patches.            *)
(***************************************************************************)
EXTENDS HostCache, ModalBackend, CodeJudge, SweEval, SequenceTheorems, FiniteSetTheorems,
        WellFoundedInduction, TLAPS

-----------------------------------------------------------------------------
NodeRec == [path : Seq(Pages), up : Nat, clock : Nat, buf : Nat \ {0}]
LaneRec == [path : Seq(Pages), ready : Nat, bufs : Seq(Nat \ {0})]

CacheType ==
  /\ pc \in {"maintain", "evict", "prepare", "prefill"}
  /\ tree \in [DOMAIN tree -> NodeRec] /\ IsFiniteSet(DOMAIN tree)
  /\ DOMAIN tree \subseteq 1..(nextId - 1) /\ frozen \subseteq DOMAIN tree
  /\ clock \in Nat /\ nextId \in Nat \ {0} /\ numNodes \in Nat /\ toEvict \in Nat
  /\ freeBufs \in Seq(Nat \ {0}) /\ content \in Seq(Seq(Pages)) /\ batch \in Seq(LaneRec)

(***************************************************************************)
(* The tree: a node continues the path of its parent, is younger than it   *)
(* and was not used after it.                                              *)
(***************************************************************************)
TreeInv ==
  \A n \in DOMAIN tree :
    LET len == Len(tree[n].path)  u == tree[n].up
    IN /\ len \in 1..n /\ tree[n].clock <= clock
       /\ u = Root => len = 1
       /\ u # Root => /\ u \in DOMAIN tree /\ u < n /\ tree[n].clock <= tree[u].clock
                      /\ len > 1 /\ tree[u].path = Prefix(tree[n].path, len - 1)

(* Each buffer belongs to one node or is free, once. *)
BufInv ==
  /\ \A m, n \in DOMAIN tree : tree[m].buf = tree[n].buf => m = n
  /\ \A j, k \in DOMAIN freeBufs : freeBufs[j] = freeBufs[k] => j = k
  /\ LiveBufs \cap Range(freeBufs) = {}
  /\ LiveBufs \cup Range(freeBufs) = 1..Len(content)

(* A node that is not of this batch has its own data. *)
ContentInv == \A n \in DOMAIN tree \ frozen : content[tree[n].buf] = tree[n].path

(* The node of the k-th page of lane l, ready or still to be filled. *)
IsNodeOf(n, l, k) ==
  /\ tree[n].buf = batch[l].bufs[k] /\ tree[n].path = Prefix(batch[l].path, k)
  /\ n \in frozen <=> k > batch[l].ready

BatchInv ==
  /\ pc \in {"maintain", "evict"} => batch = <<>>
  /\ \A l \in DOMAIN batch :
       /\ batch[l].ready <= Len(batch[l].path) /\ Len(batch[l].bufs) = Len(batch[l].path)
       /\ \A k \in DOMAIN batch[l].path : \E n \in DOMAIN tree : IsNodeOf(n, l, k)
  /\ \A n \in frozen : \E w \in PagesOut : IsNodeOf(n, w[1], w[2])
  /\ \A v, w \in PagesOut :
       v # w => batch[v[1]].bufs[v[2]] # batch[w[1]].bufs[w[2]]

CountInv ==
  /\ IF pc = "evict" THEN numNodes + toEvict = Cardinality(DOMAIN tree) /\ numNodes <= Limit
     ELSE numNodes = Cardinality(DOMAIN tree)
  /\ pc = "prepare" /\ batch = <<>> => Cardinality(DOMAIN tree) <= Limit

CInv == CacheType /\ TreeInv /\ BufInv /\ ContentInv /\ BatchInv /\ CountInv

-----------------------------------------------------------------------------
(* Numbers and sequences. *)

(* A nonempty set of numbers has a smallest one. *)
LEMMA Smallest ==
  ASSUME NEW S \in SUBSET Nat, S # {}
  PROVE  \E x \in S : \A y \in S : x <= y
  <1>. DEFINE R == OpToRel(<, Nat)
  <1>1. IsWellFoundedOn(R, Nat)
    BY NatLessThanWellFounded
  <1>2. \A x, y \in Nat : y < x => <<y, x>> \in R
    BY DEF OpToRel
  <1>. HIDE DEF R
  <1>3. PICK x \in S : \A y \in S : <<y, x>> \notin R
    BY <1>1, WFMin
  <1>4. \A y \in S : x <= y
    <2>. SUFFICES ASSUME NEW y \in S PROVE x <= y
      OBVIOUS
    <2>1. x \in Nat /\ y \in Nat
      OBVIOUS
    <2>2. ~(y < x)
      BY <1>2, <1>3, <2>1
    <2>. QED BY <2>1, <2>2
  <1>. QED BY <1>4

(* The node used least recently, and the deepest of those. *)
LEMMA VictimFirst ==
  ASSUME CacheType, TreeInv, DOMAIN tree # {}
  PROVE  Victim \in DOMAIN tree /\ \A m \in DOMAIN tree \ {Victim} : Before(Victim, m)
  <1>. DEFINE D == DOMAIN tree
              len(n) == Len(tree[n].path)
  <1>1. \A n \in D : n \in Nat /\ tree[n].clock \in Nat /\ len(n) \in Nat /\ len(n) <= n
                   /\ n < nextId
    <2>1. \A n \in D : tree[n] \in NodeRec /\ n \in 1..(nextId - 1) /\ nextId \in Nat
      BY DEF CacheType
    <2>2. \A n \in D : len(n) \in 1..n
      BY DEF TreeInv
    <2>3. \A n \in D : tree[n].clock \in Nat
      BY <2>1 DEF NodeRec
    <2>. HIDE DEF D, len
    <2>. QED BY <2>1, <2>2, <2>3
  <1>2. nextId \in Nat
    BY DEF CacheType
  <1>3. PICK a \in D : \A m \in D : tree[a].clock <= tree[m].clock
    <2>. DEFINE C == {tree[n].clock : n \in D}
    <2>1. C \in SUBSET Nat /\ C # {}
      BY <1>1
    <2>2. PICK x \in C : \A y \in C : x <= y
      BY <2>1, Smallest
    <2>. QED BY <2>2
  <1>. DEFINE E == {n \in D : tree[n].clock = tree[a].clock}
  <1>4. PICK b \in E : \A m \in E : len(b) >= len(m)
    <2>. DEFINE L == {nextId - len(n) : n \in E}
    <2>1. L \in SUBSET Nat /\ L # {}
      BY <1>1, <1>2
    <2>2. PICK x \in L : \A y \in L : x <= y
      BY <2>1, Smallest
    <2>3. PICK b \in E : x = nextId - len(b)
      BY <2>2
    <2>4. \A m \in E : nextId - len(b) <= nextId - len(m)
      BY <2>2, <2>3
    <2>5. \A m \in E : len(m) \in Nat
      BY <1>1
    <2>. HIDE DEF L, E, len
    <2>. QED BY <1>2, <2>3, <2>4, <2>5
  <1>. DEFINE F == {n \in E : len(n) = len(b)}
  <1>5. PICK c \in F : \A m \in F : c <= m
    <2>1. F \in SUBSET Nat /\ F # {}
      BY <1>1
    <2>. QED BY <2>1, Smallest
  <1>6. ASSUME NEW m \in D \ {c} PROVE Before(c, m)
    <2>1. /\ tree[c].clock = tree[a].clock /\ len(c) = len(b) /\ c \in D
          /\ tree[a].clock <= tree[m].clock
          /\ tree[m].clock \in Nat /\ tree[c].clock \in Nat /\ len(m) \in Nat /\ len(c) \in Nat
          /\ c \in Nat /\ m \in Nat /\ m # c
      BY <1>1, <1>3, <1>6
    <2>2. tree[m].clock = tree[a].clock => len(b) >= len(m)
      BY <1>4, <1>6
    <2>3. tree[m].clock = tree[a].clock /\ len(m) = len(b) => c <= m
      BY <1>5, <1>6
    <2>. QED BY <2>1, <2>2, <2>3 DEF Before
  <1>7. c \in D
    OBVIOUS
  <1>. HIDE DEF D, F
  <1>8. \E n \in D : \A m \in D \ {n} : Before(n, m)
    BY <1>6, <1>7
  <1>. QED BY <1>8 DEF Victim, D

(* A node has no child that was used as late and is deeper, so the victim has none. *)
LEMMA VictimIsLeaf ==
  ASSUME CacheType, TreeInv, DOMAIN tree # {}
  PROVE  Kids(Victim) = {}
  <1>1. Victim \in DOMAIN tree /\ \A m \in DOMAIN tree \ {Victim} : Before(Victim, m)
    BY VictimFirst
  <1>2. PICK v : v = Victim
    OBVIOUS
  <1>3. SUFFICES ASSUME NEW m \in DOMAIN tree, tree[m].up = v PROVE FALSE
    BY <1>2 DEF Kids
  <1>4. /\ v \in DOMAIN tree /\ v \in Nat /\ m \in Nat /\ v # Root
        /\ tree[m].path \in Seq(Pages) /\ tree[m].clock \in Nat /\ tree[v].clock \in Nat
    <2>1. v \in DOMAIN tree /\ v \in 1..(nextId - 1) /\ m \in 1..(nextId - 1) /\ nextId \in Nat
      BY <1>1, <1>2 DEF CacheType
    <2>2. tree[m] \in NodeRec /\ tree[v] \in NodeRec
      BY <2>1 DEF CacheType
    <2>. QED BY <2>1, <2>2 DEF NodeRec, Root
  <1>5. /\ v < m /\ tree[m].clock <= tree[v].clock /\ Len(tree[m].path) > 1
        /\ tree[v].path = Prefix(tree[m].path, Len(tree[m].path) - 1)
    BY <1>3, <1>4 DEF TreeInv
  <1>6. Len(tree[v].path) = Len(tree[m].path) - 1
    <2>0. Len(tree[m].path) \in Nat
      BY <1>4
    <2>3. PICK k : k = Len(tree[m].path) - 1
      OBVIOUS
    <2>1. k \in Int /\ k = Len(tree[m].path) - 1
      BY <2>0, <2>3
    <2>2. \A i \in 1..k : tree[m].path[i] \in Pages
      BY <1>4, <2>0, <2>1
    <2>. QED BY <1>4, <1>5, <2>0, <2>1, <2>2, SubSeqProperties DEF Prefix
  <1>7. Before(v, m)
    BY <1>1, <1>2, <1>4, <1>5
  <1>. QED BY <1>4, <1>5, <1>6, <1>7 DEF Before

-----------------------------------------------------------------------------
(* Paths. *)

LEMMA PrefixFacts ==
  ASSUME NEW p \in Seq(Pages), NEW k \in 0..Len(p)
  PROVE  /\ Prefix(p, k) \in Seq(Pages) /\ Len(Prefix(p, k)) = k
         /\ \A i \in 1..k : Prefix(p, k)[i] = p[i]
  <1>1. Len(p) \in Nat /\ \A i \in 1..k : p[i] \in Pages
    OBVIOUS
  <1>2. k \in Int /\ k - 1 + 1 = k /\ k \in Nat
    BY <1>1
  <1>3. /\ SubSeq(p, 1, k) \in Seq(Pages) /\ Len(SubSeq(p, 1, k)) = IF 1 <= k THEN k - 1 + 1 ELSE 0
        /\ \A i \in 1..(k - 1 + 1) : SubSeq(p, 1, k)[i] = p[1 + i - 1]
    BY <1>1, <1>2, SubSeqProperties
  <1>4. \A i \in 1..k : 1 + i - 1 = i
    BY <1>2
  <1>. QED BY <1>2, <1>3, <1>4 DEF Prefix

(* A sequence of the first elements is the prefix. *)
LEMMA IsPrefixOf ==
  ASSUME NEW p \in Seq(Pages), NEW s \in Seq(Pages), NEW k \in 0..Len(p), Len(s) = k,
         \A i \in 1..k : s[i] = p[i]
  PROVE  s = Prefix(p, k)
  <1>1. /\ Prefix(p, k) \in Seq(Pages) /\ Len(Prefix(p, k)) = k
        /\ \A i \in 1..k : Prefix(p, k)[i] = p[i]
    BY PrefixFacts
  <1>2. PICK q : q = Prefix(p, k)
    OBVIOUS
  <1>3. q \in Seq(Pages) /\ Len(q) = Len(s) /\ \A i \in 1..Len(s) : q[i] = s[i]
    BY <1>1, <1>2
  <1>4. q = s
    BY <1>3, SeqEqual
  <1>. QED BY <1>2, <1>4

(* The prefix of a prefix. *)
LEMMA PrefixOfPrefix ==
  ASSUME NEW p \in Seq(Pages), NEW k \in 1..Len(p)
  PROVE  Prefix(Prefix(p, k), k - 1) = Prefix(p, k - 1)
  <1>1. PICK s : s = Prefix(p, k)
    OBVIOUS
  <1>2. Len(p) \in Nat
    OBVIOUS
  <1>3. PICK j : j = k - 1
    OBVIOUS
  <1>4. j \in 0..Len(p) /\ k \in 0..Len(p) /\ j \in 0..k
    BY <1>2, <1>3
  <1>5. s \in Seq(Pages) /\ Len(s) = k /\ \A i \in 1..k : s[i] = p[i]
    BY <1>1, <1>4, PrefixFacts
  <1>6. /\ Prefix(s, j) \in Seq(Pages) /\ Len(Prefix(s, j)) = j
        /\ \A i \in 1..j : Prefix(s, j)[i] = s[i]
    BY <1>4, <1>5, PrefixFacts
  <1>7. \A i \in 1..j : Prefix(s, j)[i] = p[i]
    BY <1>3, <1>4, <1>5, <1>6
  <1>8. Prefix(s, j) = Prefix(p, j)
    <2>1. PICK u : u = Prefix(s, j)
      OBVIOUS
    <2>2. u \in Seq(Pages) /\ Len(u) = j /\ \A i \in 1..j : u[i] = p[i]
      BY <1>6, <1>7, <2>1
    <2>3. u = Prefix(p, j)
      BY <1>4, <2>2, IsPrefixOf
    <2>. QED BY <2>1, <2>3
  <1>. QED BY <1>1, <1>3, <1>8

-----------------------------------------------------------------------------
(* The nodes found for a prompt. *)

LEMMA OldestMember ==
  ASSUME NEW S \in SUBSET Nat, S # {}
  PROVE  Oldest(S) \in S
  <1>1. \E m \in S : \A n \in S : m <= n
    BY Smallest
  <1>. QED BY <1>1 DEF Oldest

(* The recursive function of prepare_lane's loop is defined. *)
LEMMA TrailIs ==
  ASSUME NEW p, Len(p) \in Nat
  PROVE  \E f : /\ f = [k \in 0..Len(p) |-> IF k = 0 THEN <<>> ELSE Descend(f[k - 1], p, k)]
               /\ Trail(p) = f[Len(p)]
  <1>. DEFINE Body(g, k) == IF k = 0 THEN <<>> ELSE Descend(g[k - 1], p, k)
              Upto(m) == \E g : g = [k \in 0..m |-> Body(g, k)]
              S == {m \in 0..Len(p) : ~Upto(m)}
  <1>1. S = {}
    <2>. SUFFICES ASSUME S # {} PROVE FALSE
      OBVIOUS
    <2>1. S \in SUBSET Nat
      OBVIOUS
    <2>2. PICK m \in S : \A y \in S : m <= y
      BY <2>1, Smallest
    <2>3. CASE m = 0
      <3>1. PICK g : g = [k \in 0..0 |-> <<>>]
        OBVIOUS
      <3>2. g = [k \in 0..0 |-> Body(g, k)]
        BY <3>1
      <3>. QED BY <2>2, <2>3, <3>2
    <2>4. CASE m # 0
      <3>1. m \in Nat /\ m - 1 \in 0..Len(p) /\ m - 1 \notin S
        BY <2>2, <2>4
      <3>2. PICK g : g = [k \in 0..(m - 1) |-> Body(g, k)]
        BY <3>1
      <3>3. PICK h : h = [k \in 0..m |-> IF k = m THEN Body(g, m) ELSE g[k]]
        OBVIOUS
      <3>. HIDE DEF S
      <3>4. \A k \in 0..m : h[k] = Body(h, k)
        <4>1. \A k \in 0..m : k = m \/ k \in 0..(m - 1)
          BY <3>1
        <4>2. \A k \in 0..(m - 1) : h[k] = g[k] /\ g[k] = Body(g, k)
          BY <3>1, <3>2, <3>3
        <4>3. \A k \in 1..m : k - 1 \in 0..(m - 1)
          BY <3>1
        <4>4. \A k \in 0..m : Body(h, k) = Body(g, k)
          BY <4>2, <4>3, <3>1
        <4>5. h[m] = Body(g, m)
          BY <3>1, <3>3
        <4>. HIDE DEF Body
        <4>. QED BY <4>1, <4>2, <4>4, <4>5
      <3>5. h = [k \in 0..m |-> Body(h, k)]
        BY <3>3, <3>4
      <3>. QED BY <2>2, <3>5 DEF S
    <2>. QED BY <2>3, <2>4
  <1>2. Upto(Len(p))
    BY <1>1
  <1>3. PICK f : f = (CHOOSE g : g = [k \in 0..Len(p) |-> Body(g, k)])
    OBVIOUS
  <1>4. f = [k \in 0..Len(p) |-> Body(f, k)]
    BY <1>2, <1>3
  <1>5. Trail(p) = f[Len(p)]
    BY <1>3 DEF Trail
  <1>. QED BY <1>4, <1>5

(* Nodes of the first pages of p, none of them of this batch. *)
IsTrail(t, p) ==
  /\ t \in Seq(DOMAIN tree \ frozen) /\ Len(t) <= Len(p)
  /\ \A i \in 1..Len(t) : /\ tree[t[i]].path = Prefix(p, i)
                          /\ tree[t[i]].up = IF i = 1 THEN Root ELSE t[i - 1]

(* Descend finds a trail of the path, not longer than asked. *)
LEMMA DescendsRight ==
  ASSUME CacheType, TreeInv, NEW p \in Seq(Pages), NEW k \in 1..Len(p), NEW t,
         IsTrail(t, p), Len(t) <= k - 1
  PROVE  IsTrail(Descend(t, p, k), p) /\ Len(Descend(t, p, k)) <= k
  <1>. DEFINE M == Match(Below(t), p[k])
  <1>0. t \in Seq(DOMAIN tree \ frozen) /\ Len(t) \in Nat /\ Len(p) \in Nat /\ k \in Nat
    BY DEF IsTrail
  <1>1. CASE ~(Len(t) = k - 1 /\ M # {})
    <2>1. Descend(t, p, k) = t
      BY <1>1 DEF Descend
    <2>. QED BY <1>0, <2>1
  <1>2. CASE Len(t) = k - 1 /\ M # {}
    <2>1. PICK m : m = Oldest(M)
      OBVIOUS
    <2>2. M \subseteq DOMAIN tree \ frozen /\ M \in SUBSET Nat
      BY DEF Match, Kids, CacheType
    <2>3. m \in M
      BY <1>2, <2>1, <2>2, OldestMember
    <2>4. /\ m \in DOMAIN tree \ frozen /\ tree[m].up = Below(t)
          /\ Last(tree[m].path) = p[k]
      BY <2>2, <2>3 DEF Match, Kids
    <2>. HIDE DEF M
    <2>5. Descend(t, p, k) = Append(t, m)
      BY <1>2, <2>1 DEF Descend, M
    <2>6. tree[m].path \in Seq(Pages)
      BY <2>4 DEF CacheType, NodeRec
    <2>7. PICK s : s = tree[m].path
      OBVIOUS
    <2>8. s \in Seq(Pages) /\ Len(s) \in Nat /\ s[Len(s)] = p[k] /\ Len(s) >= 1
      BY <2>4, <2>6, <2>7 DEF Last, TreeInv
    <2>9. Len(s) = k /\ \A i \in 1..(k - 1) : s[i] = p[i]
      <3>1. CASE k = 1
        <4>1. t = <<>>
          BY <1>0, <1>2, <3>1
        <4>2. tree[m].up = Root
          BY <2>4, <4>1 DEF Below
        <4>. QED BY <2>4, <2>7, <3>1, <4>2 DEF TreeInv
      <3>2. CASE k # 1
        <4>1. PICK j : j = k - 1
          OBVIOUS
        <4>2. j \in 1..Len(p) /\ j \in 0..Len(p) /\ Len(t) = j /\ t # <<>> /\ j \in 1..Len(t)
          BY <1>0, <1>2, <3>2, <4>1
        <4>3. tree[m].up = t[j] /\ t[j] \in DOMAIN tree
          BY <1>0, <2>4, <4>2 DEF Below, Last
        <4>4. t[j] # Root
          BY <4>3 DEF Root, CacheType
        <4>5. Len(s) > 1 /\ tree[t[j]].path = Prefix(s, Len(s) - 1)
          BY <2>4, <2>7, <4>3, <4>4 DEF TreeInv
        <4>6. tree[t[j]].path = Prefix(p, j)
          BY <4>2 DEF IsTrail
        <4>7. PICK n : n = Len(s) - 1
          OBVIOUS
        <4>8. n \in 0..Len(s)
          BY <2>8, <4>5, <4>7
        <4>9. Len(Prefix(s, n)) = n /\ \A i \in 1..n : Prefix(s, n)[i] = s[i]
          BY <2>8, <4>8, PrefixFacts
        <4>10. Len(Prefix(p, j)) = j /\ \A i \in 1..j : Prefix(p, j)[i] = p[i]
          BY <4>2, PrefixFacts
        <4>11. Prefix(s, n) = Prefix(p, j)
          BY <4>5, <4>6, <4>7
        <4>12. n = j
          BY <4>9, <4>10, <4>11
        <4>13. \A i \in 1..j : s[i] = p[i]
          BY <4>9, <4>10, <4>11, <4>12
        <4>14. Len(s) = k
          BY <1>0, <2>8, <4>1, <4>7, <4>12
        <4>. QED BY <4>1, <4>13, <4>14
      <3>. QED BY <3>1, <3>2
    <2>10. s = Prefix(p, k)
      <3>1. \A i \in 1..k : i = k \/ i \in 1..(k - 1)
        BY <1>0
      <3>2. \A i \in 1..k : s[i] = p[i]
        BY <2>8, <2>9, <3>1
      <3>3. k \in 0..Len(p)
        BY <1>0
      <3>. QED BY <2>8, <2>9, <3>2, <3>3, IsPrefixOf
    <2>11. PICK a : a = Append(t, m)
      OBVIOUS
    <2>12. /\ a \in Seq(DOMAIN tree \ frozen) /\ Len(a) = k /\ a[k] = m
           /\ \A i \in 1..(k - 1) : a[i] = t[i] /\ i \in 1..Len(t)
      BY <1>0, <1>2, <2>4, <2>11
    <2>13. ASSUME NEW i \in 1..k
           PROVE  /\ tree[a[i]].path = Prefix(p, i)
                  /\ tree[a[i]].up = IF i = 1 THEN Root ELSE a[i - 1]
      <3>1. CASE i = k
        <4>1. tree[m].up = IF k = 1 THEN Root ELSE t[k - 1]
          <5>1. k = 1 <=> t = <<>>
            BY <1>0, <1>2
          <5>. QED BY <1>2, <2>4, <5>1 DEF Below, Last
        <4>2. k # 1 => a[k - 1] = t[k - 1]
          BY <1>0, <2>12
        <4>. QED BY <2>7, <2>10, <2>12, <3>1, <4>1, <4>2
      <3>2. CASE i # k
        <4>1. i \in 1..(k - 1) /\ (i # 1 => i - 1 \in 1..(k - 1))
          BY <1>0, <2>13, <3>2
        <4>2. i \in 1..Len(t) /\ a[i] = t[i] /\ (i # 1 => a[i - 1] = t[i - 1])
          BY <2>12, <4>1
        <4>. QED BY <4>2 DEF IsTrail
      <3>. QED BY <3>1, <3>2
    <2>. QED BY <1>0, <2>5, <2>11, <2>12, <2>13 DEF IsTrail
  <1>. QED BY <1>1, <1>2

(* The nodes that prepare_lane finds for a prompt are those of its first pages. *)
LEMMA TrailFacts ==
  ASSUME CacheType, TreeInv, NEW p \in Seq(Pages)
  PROVE  IsTrail(Trail(p), p)
  <1>0. Len(p) \in Nat
    OBVIOUS
  <1>1. PICK f : /\ f = [k \in 0..Len(p) |-> IF k = 0 THEN <<>> ELSE Descend(f[k - 1], p, k)]
                 /\ Trail(p) = f[Len(p)]
    BY <1>0, TrailIs
  <1>. DEFINE Good(k) == IsTrail(f[k], p) /\ Len(f[k]) <= k
              S == {k \in 0..Len(p) : ~Good(k)}
  <1>2. Good(0)
    <2>1. f[0] = <<>>
      BY <1>0, <1>1
    <2>. QED BY <1>0, <2>1 DEF IsTrail
  <1>3. ASSUME NEW k \in 1..Len(p), Good(k - 1) PROVE Good(k)
    <2>1. PICK t : t = f[k - 1]
      OBVIOUS
    <2>2. IsTrail(t, p) /\ Len(t) <= k - 1
      BY <1>3, <2>1
    <2>3. f[k] = Descend(t, p, k)
      BY <1>0, <1>1, <1>3, <2>1
    <2>. QED BY <1>3, <2>2, <2>3, DescendsRight
  <1>4. S = {}
    <2>. SUFFICES ASSUME S # {} PROVE FALSE
      OBVIOUS
    <2>1. S \in SUBSET Nat
      OBVIOUS
    <2>2. PICK m \in S : \A y \in S : m <= y
      BY <2>1, Smallest
    <2>3. m # 0 /\ m \in 0..Len(p) /\ ~Good(m)
      BY <1>2, <2>2
    <2>4. m - 1 \in 0..Len(p) /\ m - 1 \notin S /\ m \in 1..Len(p)
      BY <1>0, <2>2, <2>3
    <2>5. Good(m - 1)
      BY <2>4
    <2>. HIDE DEF Good
    <2>. QED BY <1>3, <2>3, <2>4, <2>5
  <1>5. Good(Len(p))
    BY <1>0, <1>4
  <1>. QED BY <1>1, <1>5

-----------------------------------------------------------------------------
(* The steps but prepare_lane. *)

LEMMA KeptByTree ==
  /\ TreeInv /\ UNCHANGED <<tree, clock>> => TreeInv'
  /\ BufInv /\ UNCHANGED <<tree, freeBufs, content>> => BufInv'
  /\ ContentInv /\ UNCHANGED <<tree, frozen, content>> => ContentInv'
  <1>1. TreeInv /\ UNCHANGED <<tree, clock>> => TreeInv'
    BY DEF TreeInv
  <1>2. BufInv /\ UNCHANGED <<tree, freeBufs, content>> => BufInv'
    BY DEF BufInv, LiveBufs
  <1>3. ContentInv /\ UNCHANGED <<tree, frozen, content>> => ContentInv'
    BY DEF ContentInv
  <1>. QED BY <1>1, <1>2, <1>3

(* Outside a batch nothing is frozen. *)
LEMMA NothingFrozen ==
  ASSUME BatchInv, batch = <<>>
  PROVE  frozen = {} /\ PagesOut = {}
  <1>1. PagesOut = {}
    BY DEF PagesOut
  <1>. QED BY <1>1 DEF BatchInv

(* Without a batch and frozen nodes, there is nothing to say of them. *)
LEMMA NoBatch ==
  ASSUME batch' = <<>>, frozen' = {}
  PROVE  BatchInv'
  <1>1. PagesOut' = {}
    BY DEF PagesOut
  <1>. QED BY <1>1 DEF BatchInv

(* One node is evicted, or one clock updated. *)
LEMMA MaintainStep ==
  ASSUME CInv, Maintain
  PROVE  CInv'
  <1>0. CacheType /\ TreeInv /\ BufInv /\ ContentInv /\ BatchInv /\ CountInv
    BY DEF CInv
  <1>1. /\ UNCHANGED <<tree, frozen, clock, nextId, freeBufs, content, batch>> /\ pc = "maintain"
        /\ IF numNodes <= Limit THEN pc' = "prepare" /\ UNCHANGED <<numNodes, toEvict>>
           ELSE toEvict' = numNodes - Target /\ numNodes' = Target /\ pc' = "evict"
    BY DEF Maintain
  <1>2. Limit \in Nat /\ Target \in Nat /\ Target <= Limit /\ numNodes \in Nat /\ toEvict \in Nat
    BY <1>0, CacheAssumption DEF CacheType
  <1>3. pc' \in {"evict", "prepare"} /\ numNodes' \in Nat /\ toEvict' \in Nat
    BY <1>1, <1>2
  <1>4. CacheType'
    BY <1>0, <1>1, <1>3 DEF CacheType
  <1>5. TreeInv' /\ BufInv' /\ ContentInv'
    BY <1>0, <1>1, KeptByTree
  <1>6. batch = <<>> /\ frozen = {}
    BY <1>0, <1>1, NothingFrozen DEF BatchInv
  <1>7. BatchInv'
    BY <1>1, <1>6, NoBatch
  <1>8. CountInv'
    <2>1. numNodes = Cardinality(DOMAIN tree)
      BY <1>0, <1>1 DEF CountInv
    <2>. QED BY <1>1, <1>2, <2>1 DEF CountInv
  <1>. QED BY <1>4, <1>5, <1>7, <1>8 DEF CInv

(* The eviction ends with enough pages free. *)
LEMMA EvictEndStep ==
  ASSUME CInv, EvictEnd
  PROVE  CInv'
  <1>0. CacheType /\ TreeInv /\ BufInv /\ ContentInv /\ BatchInv /\ CountInv
    BY DEF CInv
  <1>1. /\ UNCHANGED <<tree, frozen, clock, nextId, freeBufs, content, batch, numNodes, toEvict>>
        /\ pc = "evict" /\ pc' = "prepare" /\ toEvict = 0
    BY DEF EvictEnd
  <1>2. CacheType'
    BY <1>0, <1>1 DEF CacheType
  <1>3. TreeInv' /\ BufInv' /\ ContentInv'
    BY <1>0, <1>1, KeptByTree
  <1>4. batch = <<>> /\ frozen = {}
    BY <1>0, <1>1, NothingFrozen DEF BatchInv
  <1>5. BatchInv'
    BY <1>1, <1>4, NoBatch
  <1>6. CountInv'
    BY <1>0, <1>1, CacheAssumption DEF CountInv, CacheType
  <1>. QED BY <1>2, <1>3, <1>5, <1>6 DEF CInv

(* The operation ends. *)
LEMMA BatchEndStep ==
  ASSUME CInv, BatchEnd
  PROVE  CInv'
  <1>0. CacheType /\ TreeInv /\ BufInv /\ ContentInv /\ BatchInv /\ CountInv
    BY DEF CInv
  <1>1. /\ UNCHANGED <<tree, frozen, clock, nextId, freeBufs, content, batch, numNodes, toEvict>>
        /\ pc = "prepare" /\ pc' = "prefill"
    BY DEF BatchEnd
  <1>2. CacheType' /\ CountInv'
    BY <1>0, <1>1 DEF CacheType, CountInv
  <1>3. TreeInv' /\ BufInv' /\ ContentInv'
    BY <1>0, <1>1, KeptByTree
  <1>4. BatchInv'
    BY <1>0, <1>1 DEF BatchInv, IsNodeOf, PagesOut
  <1>. QED BY <1>2, <1>3, <1>4 DEF CInv

(* What EvictOne removes has no child, and its buffer is free after it.      *)
LEMMA EvictOneStep ==
  ASSUME CInv, EvictOne
  PROVE  CInv'
  <1>0. CacheType /\ TreeInv /\ BufInv /\ ContentInv /\ BatchInv /\ CountInv
    BY DEF CInv
  <1>1. PICK v : v = Victim
    OBVIOUS
  <1>2. /\ UNCHANGED <<pc, frozen, clock, nextId, content, batch, numNodes>>
        /\ pc = "evict" /\ toEvict > 0 /\ toEvict' = toEvict - 1
        /\ tree' = [n \in DOMAIN tree \ {v} |-> tree[n]]
        /\ freeBufs' = Append(freeBufs, tree[v].buf)
    BY <1>1 DEF EvictOne
  <1>3. /\ numNodes + toEvict = Cardinality(DOMAIN tree) /\ IsFiniteSet(DOMAIN tree)
        /\ numNodes \in Nat /\ toEvict \in Nat /\ numNodes <= Limit
    BY <1>0, <1>2 DEF CountInv, CacheType
  <1>4. DOMAIN tree # {}
    BY <1>2, <1>3, FS_EmptySet
  <1>5. v \in DOMAIN tree /\ \A m \in DOMAIN tree : tree[m].up # v
    BY <1>0, <1>1, <1>4, VictimFirst, VictimIsLeaf DEF Kids
  <1>6. DOMAIN tree' = DOMAIN tree \ {v} /\ \A n \in DOMAIN tree' : tree'[n] = tree[n]
    BY <1>2
  <1>7. batch = <<>> /\ frozen = {}
    BY <1>0, <1>2, NothingFrozen DEF BatchInv
  <1>8. IsFiniteSet(DOMAIN tree') /\ Cardinality(DOMAIN tree') = Cardinality(DOMAIN tree) - 1
    BY <1>3, <1>5, <1>6, FS_RemoveElement
  <1>9. \A n \in DOMAIN tree : tree[n] \in NodeRec /\ tree[n].buf \in Nat \ {0}
    BY <1>0 DEF CacheType, NodeRec
  <1>10. PICK b : b = tree[v].buf
    OBVIOUS
  <1>11. /\ b \in Nat \ {0} /\ freeBufs \in Seq(Nat \ {0}) /\ freeBufs' = Append(freeBufs, b)
         /\ freeBufs' \in Seq(Nat \ {0})
    BY <1>0, <1>2, <1>5, <1>9, <1>10 DEF CacheType
  <1>12. CacheType'
    <2>1. tree' \in [DOMAIN tree' -> NodeRec]
      BY <1>2, <1>9
    <2>2. toEvict' \in Nat /\ frozen' \subseteq DOMAIN tree'
      BY <1>2, <1>3, <1>7
    <2>. QED BY <1>0, <1>2, <1>6, <1>8, <1>11, <2>1, <2>2 DEF CacheType
  <1>13. TreeInv'
    BY <1>0, <1>2, <1>5, <1>6 DEF TreeInv
  <1>14. BufInv'
    <2>1. /\ Len(freeBufs) \in Nat /\ DOMAIN freeBufs = 1..Len(freeBufs)
          /\ DOMAIN freeBufs' = 1..(Len(freeBufs) + 1) /\ freeBufs'[Len(freeBufs) + 1] = b
          /\ \A k \in DOMAIN freeBufs : freeBufs'[k] = freeBufs[k]
      BY <1>11
    <2>2. \A k \in DOMAIN freeBufs' : k \in DOMAIN freeBufs \/ k = Len(freeBufs) + 1
      BY <2>1
    <2>3. \A k \in DOMAIN freeBufs : k \in DOMAIN freeBufs' /\ k # Len(freeBufs) + 1
      BY <2>1
    <2>4. Len(freeBufs) + 1 \in DOMAIN freeBufs'
      BY <2>1
    <2>5. b \in LiveBufs /\ LiveBufs' = LiveBufs \ {b}
      BY <1>0, <1>5, <1>6, <1>10 DEF LiveBufs, BufInv
    <2>6. Range(freeBufs') = Range(freeBufs) \cup {b}
      BY <2>1, <2>2, <2>3, <2>4 DEF Range
    <2>7. LiveBufs' \cap Range(freeBufs') = {} /\ LiveBufs' \cup Range(freeBufs') = 1..Len(content')
      BY <1>0, <1>2, <2>5, <2>6 DEF BufInv
    <2>8. \A j, k \in DOMAIN freeBufs' : freeBufs'[j] = freeBufs'[k] => j = k
      <3>1. \A k \in DOMAIN freeBufs : freeBufs[k] # b
        BY <1>0, <2>5 DEF BufInv, Range
      <3>. QED BY <1>0, <2>1, <2>2, <3>1 DEF BufInv
    <2>9. \A m, n \in DOMAIN tree' : tree'[m].buf = tree'[n].buf => m = n
      BY <1>0, <1>6 DEF BufInv
    <2>. QED BY <2>7, <2>8, <2>9 DEF BufInv
  <1>15. ContentInv'
    BY <1>0, <1>2, <1>6 DEF ContentInv
  <1>16. BatchInv'
    BY <1>2, <1>7, NoBatch
  <1>17. CountInv'
    BY <1>2, <1>3, <1>8 DEF CountInv
  <1>. QED BY <1>12, <1>13, <1>14, <1>15, <1>16, <1>17 DEF CInv

(* The pages of the batch are written, each to its own buffer. *)
LEMMA PrefillStep ==
  ASSUME CInv, Prefill
  PROVE  CInv'
  <1>0. CacheType /\ TreeInv /\ BufInv /\ ContentInv /\ BatchInv /\ CountInv
    BY DEF CInv
  <1>1. /\ UNCHANGED <<tree, nextId, numNodes, toEvict, freeBufs>> /\ pc = "prefill"
        /\ frozen' = {} /\ clock' = clock + 1 /\ batch' = <<>> /\ pc' = "maintain"
    BY DEF Prefill
  <1>. DEFINE Out(b) == {w \in PagesOut : batch[w[1]].bufs[w[2]] = b}
              PageWritten(w) == Prefix(batch[w[1]].path, w[2])
  <1>2. content' = [b \in DOMAIN content |->
                      IF Out(b) = {} THEN content[b] ELSE PageWritten(CHOOSE w \in Out(b) : TRUE)]
    BY DEF Prefill
  <1>3. content \in Seq(Seq(Pages)) /\ DOMAIN content = 1..Len(content) /\ Len(content) \in Nat
    BY <1>0 DEF CacheType
  <1>4. \A w \in PagesOut : /\ w[1] \in DOMAIN batch /\ w[2] \in 0..Len(batch[w[1]].path)
                            /\ batch[w[1]].path \in Seq(Pages)
    <2>. SUFFICES ASSUME NEW l \in DOMAIN batch, NEW k \in (batch[l].ready + 1)..Len(batch[l].path)
                  PROVE  k \in 0..Len(batch[l].path) /\ batch[l].path \in Seq(Pages)
      BY DEF PagesOut
    <2>1. batch[l] \in LaneRec
      BY <1>0 DEF CacheType
    <2>2. batch[l].path \in Seq(Pages) /\ batch[l].ready \in Nat
      BY <2>1 DEF LaneRec
    <2>. QED BY <2>2
  <1>5. \A w \in PagesOut : PageWritten(w) \in Seq(Pages)
    BY <1>4, PrefixFacts
  <1>6. content' \in Seq(Seq(Pages)) /\ Len(content') = Len(content) /\ DOMAIN content' = DOMAIN content
    <2>1. ASSUME NEW b \in DOMAIN content PROVE content'[b] \in Seq(Pages)
      <3>1. CASE Out(b) = {}
        <4>1. content'[b] = content[b]
          BY <1>2, <2>1, <3>1
        <4>2. content[b] \in Seq(Pages)
          BY <1>3, <2>1
        <4>. QED BY <4>1, <4>2
      <3>2. CASE Out(b) # {}
        <4>1. PICK w : w = CHOOSE x \in Out(b) : TRUE
          OBVIOUS
        <4>2. w \in Out(b)
          BY <3>2, <4>1
        <4>3. content'[b] = PageWritten(w)
          BY <1>2, <2>1, <3>2, <4>1
        <4>. QED BY <1>5, <4>2, <4>3
      <3>. QED BY <3>1, <3>2
    <2>2. PICK c : c = content'
      OBVIOUS
    <2>. HIDE DEF Out, PageWritten
    <2>3. DOMAIN c = 1..Len(content) /\ c = [b \in 1..Len(content) |-> c[b]]
      BY <1>2, <1>3, <2>2
    <2>4. \A b \in 1..Len(content) : c[b] \in Seq(Pages)
      BY <1>3, <2>1, <2>2
    <2>5. PICK n \in Nat : n = Len(content)
      BY <1>3
    <2>6. c \in [1..n -> Seq(Pages)]
      BY <2>3, <2>4, <2>5
    <2>7. c \in Seq(Seq(Pages)) /\ Len(c) = n
      BY <2>6
    <2>. QED BY <1>3, <2>2, <2>3, <2>5, <2>7
  <1>7. CacheType'
    BY <1>0, <1>1, <1>6 DEF CacheType
  <1>8. TreeInv'
    <2>1. clock \in Nat /\ \A n \in DOMAIN tree : tree[n].clock \in Nat
      BY <1>0 DEF CacheType, NodeRec
    <2>. QED BY <1>0, <1>1, <2>1 DEF TreeInv
  <1>9. BufInv'
    BY <1>0, <1>1, <1>6 DEF BufInv, LiveBufs
  <1>10. ContentInv'
    <2>. SUFFICES ASSUME NEW n \in DOMAIN tree PROVE content'[tree[n].buf] = tree[n].path
      BY <1>1 DEF ContentInv
    <2>1. PICK b : b = tree[n].buf
      OBVIOUS
    <2>2. b \in LiveBufs /\ b \in DOMAIN content
      BY <1>0, <1>3, <2>1 DEF LiveBufs, BufInv
    <2>3. CASE n \in frozen
      <3>1. PICK w \in PagesOut : IsNodeOf(n, w[1], w[2])
        BY <1>0, <2>3 DEF BatchInv
      <3>2. w \in Out(b) /\ PageWritten(w) = tree[n].path
        BY <2>1, <3>1 DEF IsNodeOf
      <3>3. \A v \in Out(b) : v = w
        BY <1>0, <3>2 DEF BatchInv
      <3>4. content'[b] = PageWritten(w)
        BY <1>2, <2>2, <3>2, <3>3
      <3>. QED BY <2>1, <3>2, <3>4
    <2>4. CASE n \notin frozen
      <3>1. Out(b) = {}
        <4>. SUFFICES ASSUME NEW l \in DOMAIN batch,
                             NEW k \in (batch[l].ready + 1)..Len(batch[l].path),
                             batch[l].bufs[k] = b
                      PROVE  FALSE
          BY DEF PagesOut
        <4>1. batch[l] \in LaneRec
          BY <1>0 DEF CacheType
        <4>2. k \in DOMAIN batch[l].path /\ k > batch[l].ready
          BY <4>1 DEF LaneRec
        <4>3. PICK m \in DOMAIN tree : IsNodeOf(m, l, k)
          BY <1>0, <4>2 DEF BatchInv
        <4>4. m = n
          BY <1>0, <2>1, <4>3 DEF IsNodeOf, BufInv
        <4>. QED BY <2>4, <4>2, <4>3, <4>4 DEF IsNodeOf
      <3>2. content'[b] = content[b]
        BY <1>2, <2>2, <3>1
      <3>. QED BY <1>0, <2>1, <2>4, <3>2 DEF ContentInv
    <2>. QED BY <2>3, <2>4
  <1>11. BatchInv'
    BY <1>1, NoBatch
  <1>12. CountInv'
    BY <1>0, <1>1 DEF CountInv
  <1>. QED BY <1>7, <1>8, <1>9, <1>10, <1>11, <1>12 DEF CInv

-----------------------------------------------------------------------------
(* prepare_lane *)

(* Taking m buffers leaves f on the stack and builds the rest, at the end of c. *)
TakesBufs(m, f, c) ==
  LET x == IF m > Len(freeBufs) THEN m - Len(freeBufs) ELSE 0
  IN f = SubSeq(freeBufs, 1, Len(freeBufs) - m) /\ c = content \o [j \in 1..x |-> <<>>]

(* The buffers of m new nodes: those taken from the stack, and new ones. *)
LEMMA NewBufFacts ==
  ASSUME CacheType, BufInv, NEW m \in Nat, NEW f, NEW c, TakesBufs(m, f, c)
  PROVE  /\ f \in Seq(Nat \ {0}) /\ c \in Seq(Seq(Pages)) /\ Len(content) <= Len(c)
         /\ \A b \in 1..Len(content) : c[b] = content[b]
         /\ \A j \in DOMAIN f : j \in DOMAIN freeBufs /\ f[j] = freeBufs[j]
         /\ \A j \in 1..m : NewBuf(j) \in 1..Len(c) /\ NewBuf(j) \notin LiveBufs \cup Range(f)
         /\ \A i, j \in 1..m : NewBuf(i) = NewBuf(j) => i = j
         /\ \A b \in 1..Len(c) :
              b \in LiveBufs \cup Range(f) \/ \E j \in 1..m : NewBuf(j) = b
  <1>0. PICK s, C, F : s = freeBufs /\ C = Len(content) /\ F = Len(freeBufs)
    OBVIOUS
  <1>1. /\ s = freeBufs /\ C = Len(content) /\ F = Len(freeBufs)
        /\ s \in Seq(Nat \ {0}) /\ C \in Nat /\ F \in Nat
    BY <1>0 DEF CacheType
  <1>2. /\ DOMAIN s = 1..F /\ Len(s) = F /\ \A j \in 1..F : s[j] \in Nat \ {0}
        /\ \A j, k \in 1..F : s[j] = s[k] => j = k
        /\ \A j \in 1..F : s[j] \in 1..C /\ s[j] \notin LiveBufs
        /\ LiveBufs \subseteq 1..C
        /\ \A b \in 1..C : b \in LiveBufs \/ \E j \in 1..F : s[j] = b
    <2>1. DOMAIN s = 1..F /\ Len(s) = F /\ \A j \in 1..F : s[j] \in Nat \ {0}
      BY <1>1
    <2>2. Range(freeBufs) = {s[j] : j \in 1..F}
      BY <1>1, <2>1 DEF Range
    <2>3. \A j, k \in 1..F : s[j] = s[k] => j = k
      BY <1>1, <2>1 DEF BufInv
    <2>4. LiveBufs \cap Range(freeBufs) = {} /\ LiveBufs \cup Range(freeBufs) = 1..C
      BY <1>1 DEF BufInv
    <2>. QED BY <2>1, <2>2, <2>3, <2>4
  <1>30. PICK x : x = IF m > F THEN m - F ELSE 0
    OBVIOUS
  <1>3. x \in Nat /\ (m > F => x = m - F) /\ (m <= F => x = 0)
    BY <1>1, <1>30
  <1>4. c \in Seq(Seq(Pages)) /\ Len(c) = C + x /\ \A b \in 1..C : c[b] = content[b]
    <2>1. PICK e : e = [j \in 1..x |-> <<>>]
      OBVIOUS
    <2>2. <<>> \in Seq(Pages)
      OBVIOUS
    <2>3. e \in [1..x -> Seq(Pages)]
      BY <2>1, <2>2
    <2>4. e \in Seq(Seq(Pages)) /\ Len(e) = x
      BY <1>3, <2>1, <2>3
    <2>5. content \in Seq(Seq(Pages)) /\ c = content \o e
      BY <1>1, <1>30, <2>1 DEF CacheType, TakesBufs
    <2>6. /\ c \in Seq(Seq(Pages)) /\ Len(c) = Len(content) + Len(e)
          /\ \A i \in 1..(Len(content) + Len(e)) :
               c[i] = IF i <= Len(content) THEN content[i] ELSE e[i - Len(content)]
      BY <2>4, <2>5, ConcatProperties
    <2>7. \A b \in 1..C : b \in 1..(C + x) /\ b <= C
      BY <1>1, <1>3
    <2>. QED BY <1>1, <2>4, <2>6, <2>7
  <1>50. PICK n : n = F - m
    OBVIOUS
  <1>5. n \in Int /\ n = F - m
    BY <1>1, <1>50
  <1>6. /\ f \in Seq(Nat \ {0}) /\ DOMAIN f = 1..n /\ \A j \in 1..n : f[j] = s[j]
        /\ 1..n \subseteq 1..F
    <2>1. 1..n \subseteq 1..F
      BY <1>1, <1>5
    <2>2. \A j \in 1..n : s[j] \in Nat \ {0}
      BY <1>2, <2>1
    <2>3. f = SubSeq(s, 1, n)
      BY <1>1, <1>5 DEF TakesBufs
    <2>4. /\ f \in Seq(Nat \ {0}) /\ Len(f) = IF 1 <= n THEN n - 1 + 1 ELSE 0
          /\ \A j \in 1..(n - 1 + 1) : f[j] = s[1 + j - 1]
      <3>1. \A i \in 1..n : s[i] \in Nat \ {0}
        BY <2>2
      <3>. QED BY <1>5, <2>3, <3>1, SubSeqProperties
    <2>5. DOMAIN f = 1..n
      BY <1>5, <2>4
    <2>6. n - 1 + 1 = n /\ \A j \in 1..n : 1 + j - 1 = j
      BY <1>5
    <2>. QED BY <2>1, <2>4, <2>5, <2>6
  <1>7. Range(f) = {s[j] : j \in 1..n}
    BY <1>6 DEF Range
  <1>8. \A j \in 1..m : /\ j <= F => F - j + 1 \in 1..F /\ F - j + 1 > n /\ NewBuf(j) = s[F - j + 1]
                        /\ j > F => NewBuf(j) = C + j - F
    BY <1>1, <1>5 DEF NewBuf
  <1>9. ASSUME NEW j \in 1..m
        PROVE  NewBuf(j) \in 1..Len(c) /\ NewBuf(j) \notin LiveBufs \cup Range(f)
    <2>1. CASE j <= F
      <3>1. PICK i \in 1..F : NewBuf(j) = s[i] /\ i > n
        BY <1>8, <2>1
      <3>2. i \in 1..F /\ i \notin 1..n
        BY <1>5, <3>1
      <3>3. s[i] \notin Range(f)
        <4>1. \A j1 \in 1..F : s[i] = s[j1] => i = j1
          BY <1>2, <3>2
        <4>2. 1..n \subseteq 1..F
          BY <1>6
        <4>3. \A j1 \in 1..n : s[j1] # s[i]
          BY <3>2, <4>1, <4>2
        <4>. QED BY <1>7, <4>3
      <3>4. s[i] \in 1..Len(c)
        BY <1>1, <1>2, <1>3, <1>4, <3>2
      <3>. QED BY <1>2, <3>1, <3>2, <3>3, <3>4
    <2>2. CASE j > F
      <3>1. NewBuf(j) = C + j - F
        BY <1>8, <2>2
      <3>4. x = m - F /\ j \in Nat /\ j <= m
        BY <1>1, <1>3, <2>2
      <3>2. NewBuf(j) \in Nat /\ NewBuf(j) > C /\ NewBuf(j) <= C + x
        BY <1>1, <2>2, <3>1, <3>4
      <3>3. LiveBufs \cup Range(f) \subseteq 1..C
        <4>1. \A k \in 1..n : s[k] \in 1..C
          BY <1>2, <1>6
        <4>2. Range(f) \subseteq 1..C
          BY <1>7, <4>1
        <4>3. LiveBufs \subseteq 1..C
          BY <1>2
        <4>. QED BY <4>2, <4>3
      <3>. QED BY <1>1, <1>4, <3>2, <3>3
    <2>. QED BY <1>1, <2>1, <2>2
  <1>10. ASSUME NEW i \in 1..m, NEW j \in 1..m, NewBuf(i) = NewBuf(j) PROVE i = j
    <2>1. CASE i <= F /\ j <= F
      <3>0. PICK a, b : a = F - i + 1 /\ b = F - j + 1
        OBVIOUS
      <3>1. a \in Int /\ b \in Int /\ i = F - a + 1 /\ j = F - b + 1 /\ a = F - i + 1 /\ b = F - j + 1
        BY <1>1, <3>0
      <3>2. a \in 1..F /\ b \in 1..F /\ s[a] = s[b]
        <4>1. s[F - i + 1] = s[F - j + 1] /\ F - i + 1 \in 1..F /\ F - j + 1 \in 1..F
          BY <1>8, <1>10, <2>1
        <4>. QED BY <3>0, <4>1
      <3>3. a = b
        BY <1>2, <3>2
      <3>. QED BY <3>1, <3>3
    <2>2. CASE i > F /\ j > F
      BY <1>1, <1>8, <1>10, <2>2
    <2>3. \A k \in 1..m : k <= F => NewBuf(k) <= C
      <3>1. \A k \in 1..F : s[k] <= C
        BY <1>2
      <3>. QED BY <1>8, <3>1
    <2>4. \A k \in 1..m : k > F => NewBuf(k) > C
      BY <1>1, <1>8
    <2>5. \A k \in 1..m : NewBuf(k) \in Int
      BY <1>9
    <2>. QED BY <1>1, <1>10, <2>1, <2>2, <2>3, <2>4, <2>5
  <1>11. ASSUME NEW b \in 1..Len(c)
         PROVE  b \in LiveBufs \cup Range(f) \/ \E j \in 1..m : NewBuf(j) = b
    <2>1. CASE b <= C
      <3>1. b \in LiveBufs \/ \E i \in 1..F : s[i] = b
        BY <1>2, <2>1
      <3>2. ASSUME NEW i \in 1..F, s[i] = b PROVE b \in Range(f) \/ \E j \in 1..m : NewBuf(j) = b
        <4>1. CASE i \in 1..n
          BY <1>7, <3>2, <4>1
        <4>2. CASE i \notin 1..n
          <5>0. PICK j : j = F - i + 1
            OBVIOUS
          <5>1. j \in Int /\ j = F - i + 1
            BY <1>1, <5>0
          <5>2. j \in 1..m /\ j <= F /\ F - j + 1 = i
            BY <1>1, <1>5, <3>2, <4>2, <5>1
          <5>. QED BY <1>8, <3>2, <5>2
        <4>. QED BY <4>1, <4>2
      <3>. QED BY <3>1, <3>2
    <2>2. CASE b > C
      <3>0. PICK j : j = b - C + F
        OBVIOUS
      <3>1. j \in Int /\ j = b - C + F /\ b \in Int /\ b <= C + x
        BY <1>1, <1>3, <1>4, <3>0
      <3>2. j > F /\ C + j - F = b /\ j <= F + x
        BY <1>1, <1>3, <2>2, <3>1
      <3>3. j \in 1..m
        BY <1>1, <1>3, <3>1, <3>2
      <3>. QED BY <1>8, <3>2, <3>3
    <2>. QED BY <1>1, <2>1, <2>2
  <1>12. Len(content) <= Len(c)
    BY <1>1, <1>3, <1>4
  <1>13. \A j \in DOMAIN f : j \in DOMAIN freeBufs /\ f[j] = freeBufs[j]
    BY <1>1, <1>2, <1>6
  <1>. QED BY <1>1, <1>4, <1>6, <1>9, <1>10, <1>11, <1>12, <1>13

(* The node of the k-th page of a prompt whose first r pages were found. *)
NodeAt(k, r) == nextId + (k - r - 1)

(***************************************************************************)
(* What prepare_lane does, page by page: t are the nodes found for the     *)
(* first pages of p, fresh the ids of the others.                          *)
(***************************************************************************)
Inserts(p, t, fresh) ==
  /\ pc = "prepare" /\ UNCHANGED <<pc, clock, toEvict>>
  /\ IsTrail(t, p) /\ fresh = nextId..(nextId + (Len(p) - Len(t)) - 1)
  /\ fresh \cap DOMAIN tree = {} /\ DOMAIN tree' = DOMAIN tree \cup fresh
  /\ tree' = [n \in DOMAIN tree' |-> tree'[n]]
  /\ frozen' = frozen \cup fresh
  /\ nextId' = nextId + (Len(p) - Len(t)) /\ numNodes' = numNodes + (Len(p) - Len(t))
  /\ TakesBufs(Len(p) - Len(t), freeBufs', content')
  /\ \A n \in DOMAIN tree : tree'[n] = Touched(n, t)
  /\ \A n \in fresh : \E k \in (Len(t) + 1)..Len(p) : n = NodeAt(k, Len(t))
  /\ \A k \in (Len(t) + 1)..Len(p) :
       /\ NodeAt(k, Len(t)) \in fresh
       /\ tree'[NodeAt(k, Len(t))] =
            [path |-> Prefix(p, k), clock |-> clock, buf |-> NewBuf(k - Len(t)),
             up |-> IF k > Len(t) + 1 THEN NodeAt(k - 1, Len(t)) ELSE Below(t)]
  /\ batch' = Append(batch, [path |-> p, ready |-> Len(t),
       bufs |-> [k \in 1..Len(p) |-> IF k <= Len(t) THEN tree[t[k]].buf ELSE NewBuf(k - Len(t))]])

(* Prepare inserts the nodes it makes. *)
LEMMA PrepareInserts ==
  ASSUME CInv, NEW p \in Prompts, PrepareLane(p)
  PROVE  \E t, fresh : Inserts(p, t, fresh)
  <1>0. CacheType /\ TreeInv /\ p \in Seq(Pages)
    BY CacheAssumption DEF CInv
  <1>1. PICK t : t = Trail(p)
    OBVIOUS
  <1>2. IsTrail(t, p)
    BY <1>0, <1>1, TrailFacts
  <1>3. PICK q, r : q = Len(p) /\ r = Len(t)
    OBVIOUS
  <1>4. q \in Nat /\ r \in Nat /\ r <= q /\ nextId \in Nat \ {0} /\ t \in Seq(DOMAIN tree)
    BY <1>0, <1>2, <1>3 DEF IsTrail, CacheType
  <1>5. PICK fresh : fresh = nextId..(nextId + (q - r) - 1)
    OBVIOUS
  <1>6. PICK m : m = q - r
    OBVIOUS
  <1>. DEFINE node(n) == [path |-> Prefix(p, r + n - nextId + 1),
                          up |-> IF n > nextId THEN n - 1 ELSE IF r = 0 THEN Root ELSE t[r],
                          clock |-> clock,
                          buf |-> NewBuf(n - nextId + 1)]
  <1>7. /\ pc = "prepare" /\ UNCHANGED <<pc, clock, toEvict>>
        /\ tree' = [n \in DOMAIN tree \cup fresh |-> IF n \in fresh THEN node(n) ELSE Touched(n, t)]
        /\ frozen' = frozen \cup fresh
        /\ nextId' = nextId + (q - r) /\ numNodes' = numNodes + (q - r)
        /\ freeBufs' = SubSeq(freeBufs, 1, Len(freeBufs) - (q - r))
        /\ content' = content \o [j \in 1..(IF q - r > Len(freeBufs)
                                            THEN q - r - Len(freeBufs) ELSE 0) |-> <<>>]
        /\ batch' = Append(batch, [path |-> p, ready |-> r,
             bufs |-> [k \in 1..q |-> IF k <= r THEN tree[t[k]].buf ELSE NewBuf(k - r)]])
    <2>1. fresh = nextId..(nextId + q - r - 1)
      BY <1>4, <1>5
    <2>. QED BY <1>1, <1>3, <2>1 DEF PrepareLane
  <1>8. TakesBufs(q - r, freeBufs', content')
    BY <1>7 DEF TakesBufs
  <1>9. fresh \cap DOMAIN tree = {}
    BY <1>0, <1>4, <1>5 DEF CacheType
  <1>10. \A n \in DOMAIN tree : tree'[n] = Touched(n, t)
    BY <1>7, <1>9
  <1>11. ASSUME NEW n \in fresh PROVE \E k \in (r + 1)..q : n = NodeAt(k, r)
    <2>1. PICK k : k = n - nextId + r + 1
      OBVIOUS
    <2>2. k \in (r + 1)..q /\ n = NodeAt(k, r)
      BY <1>4, <1>5, <2>1 DEF NodeAt
    <2>. QED BY <2>2
  <1>12. ASSUME NEW k \in (r + 1)..q
         PROVE  /\ NodeAt(k, r) \in fresh
                /\ tree'[NodeAt(k, r)] =
                     [path |-> Prefix(p, k), clock |-> clock, buf |-> NewBuf(k - r),
                      up |-> IF k > r + 1 THEN NodeAt(k - 1, r) ELSE Below(t)]
    <2>1. PICK n : n = NodeAt(k, r)
      OBVIOUS
    <2>2. n \in fresh /\ n \in Int /\ n = nextId + (k - r - 1)
      BY <1>4, <1>5, <2>1 DEF NodeAt
    <2>3. tree'[n] = node(n)
      BY <1>7, <2>2
    <2>4. r + n - nextId + 1 = k /\ n - nextId + 1 = k - r
      BY <1>4, <2>2
    <2>5. (n > nextId) = (k > r + 1) /\ (k > r + 1 => n - 1 = NodeAt(k - 1, r))
      BY <1>4, <2>2 DEF NodeAt
    <2>6. Below(t) = IF r = 0 THEN Root ELSE t[r]
      <3>1. t = <<>> <=> r = 0
        BY <1>3, <1>4
      <3>. QED BY <1>3, <3>1 DEF Below, Last
    <2>7. (IF n > nextId THEN n - 1 ELSE IF r = 0 THEN Root ELSE t[r])
            = IF k > r + 1 THEN NodeAt(k - 1, r) ELSE Below(t)
      BY <2>5, <2>6
    <2>. QED BY <2>1, <2>2, <2>3, <2>4, <2>7
  <1>13. Inserts(p, t, fresh)
    <2>1. /\ pc = "prepare" /\ UNCHANGED <<pc, clock, toEvict>> /\ IsTrail(t, p)
          /\ fresh \cap DOMAIN tree = {} /\ frozen' = frozen \cup fresh
          /\ DOMAIN tree' = DOMAIN tree \cup fresh /\ tree' = [n \in DOMAIN tree' |-> tree'[n]]
      BY <1>2, <1>7, <1>9
    <2>2. q = Len(p) /\ r = Len(t)
      BY <1>3
    <2>3. /\ nextId' = nextId + (q - r) /\ numNodes' = numNodes + (q - r)
          /\ batch' = Append(batch, [path |-> p, ready |-> r,
               bufs |-> [k \in 1..q |-> IF k <= r THEN tree[t[k]].buf ELSE NewBuf(k - r)]])
      BY <1>7
    <2>. QED BY <1>5, <1>8, <1>10, <1>11, <1>12, <2>1, <2>2, <2>3 DEF Inserts
  <1>. QED BY <1>13

(* A node that Prepare makes. *)
LEMMA NewNode ==
  ASSUME NEW p, NEW t, NEW fresh, Inserts(p, t, fresh), NEW k \in (Len(t) + 1)..Len(p)
  PROVE  LET n == NodeAt(k, Len(t))
         IN /\ n \in fresh /\ tree'[n].path = Prefix(p, k) /\ tree'[n].clock = clock
            /\ tree'[n].buf = NewBuf(k - Len(t))
            /\ tree'[n].up = IF k > Len(t) + 1 THEN NodeAt(k - 1, Len(t)) ELSE Below(t)
  <1>1. PICK n, u : /\ n = NodeAt(k, Len(t))
                    /\ u = IF k > Len(t) + 1 THEN NodeAt(k - 1, Len(t)) ELSE Below(t)
    OBVIOUS
  <1>2. n \in fresh /\ tree'[n] = [path |-> Prefix(p, k), clock |-> clock,
                                  buf |-> NewBuf(k - Len(t)), up |-> u]
    BY <1>1 DEF Inserts
  <1>. QED BY <1>1, <1>2

(* The numbers of an insertion. *)
LEMMA InsertNodes ==
  ASSUME CInv, NEW p \in Seq(Pages), NEW t, NEW fresh, Inserts(p, t, fresh)
  PROVE  /\ Len(p) \in Nat /\ Len(t) \in Nat /\ Len(t) <= Len(p) /\ nextId \in Nat \ {0}
         /\ Len(t) < nextId /\ Below(t) \in Nat /\ Below(t) < nextId
         /\ Below(t) = Root <=> Len(t) = 0
         /\ \A i \in 1..Len(t) : t[i] \in DOMAIN tree /\ t[i] \notin frozen
         /\ \A n \in DOMAIN tree :
              /\ n \in Nat /\ n < nextId /\ tree[n] \in NodeRec /\ tree'[n] \in NodeRec
              /\ tree'[n].path = tree[n].path /\ tree'[n].up = tree[n].up
              /\ tree'[n].buf = tree[n].buf
              /\ tree'[n].clock = IF \E i \in 1..Len(t) : n = t[i] THEN clock ELSE tree[n].clock
         /\ \A k \in (Len(t) + 1)..Len(p) :
              /\ NodeAt(k, Len(t)) \in Nat /\ nextId <= NodeAt(k, Len(t))
              /\ Prefix(p, k) \in Seq(Pages) /\ Len(Prefix(p, k)) = k
              /\ NewBuf(k - Len(t)) \in Nat \ {0}
              /\ k > Len(t) + 1 => NodeAt(k - 1, Len(t)) = NodeAt(k, Len(t)) - 1
              /\ k = Len(t) + 1 => NodeAt(k, Len(t)) = nextId
  <1>0. CacheType /\ TreeInv /\ BufInv /\ IsTrail(t, p)
    BY DEF CInv, Inserts
  <1>1. PICK q, r : q = Len(p) /\ r = Len(t)
    OBVIOUS
  <1>2. /\ q \in Nat /\ r \in Nat /\ r <= q /\ nextId \in Nat \ {0} /\ t \in Seq(DOMAIN tree \ frozen)
        /\ q = Len(p) /\ r = Len(t)
    BY <1>0, <1>1 DEF IsTrail, CacheType
  <1>3. \A i \in 1..r : t[i] \in DOMAIN tree /\ t[i] \notin frozen
    BY <1>2
  <1>4. ASSUME NEW n \in DOMAIN tree PROVE n \in Nat /\ n < nextId /\ tree[n] \in NodeRec /\ n > 0
    BY <1>0 DEF CacheType
  <1>5. r < nextId /\ Below(t) \in Nat /\ Below(t) < nextId /\ (Below(t) = Root <=> r = 0)
    <2>1. CASE r = 0
      <3>1. t = <<>>
        <4>1. PICK S : S = DOMAIN tree \ frozen
          OBVIOUS
        <4>2. t \in Seq(S) /\ Len(t) = 0
          BY <1>2, <2>1, <4>1
        <4>. QED BY <4>2, EmptySeq
      <3>. QED BY <1>2, <2>1, <3>1 DEF Below, Root
    <2>2. CASE r # 0
      <3>1. t # <<>> /\ r \in 1..r /\ r \in 0..q
        BY <1>2, <2>2
      <3>2. Below(t) = t[r]
        BY <1>2, <3>1 DEF Below, Last
      <3>3. PICK n \in DOMAIN tree : n = t[r]
        BY <1>3, <3>1
      <3>4. tree[n].path = Prefix(p, r)
        BY <1>0, <1>2, <3>1, <3>3 DEF IsTrail
      <3>5. Len(tree[n].path) = r
        BY <1>2, <3>1, <3>4, PrefixFacts
      <3>6. r <= n
        BY <1>0, <3>5 DEF TreeInv
      <3>. QED BY <1>2, <1>4, <2>2, <3>2, <3>3, <3>6 DEF Root
    <2>. QED BY <2>1, <2>2
  <1>6. ASSUME NEW n \in DOMAIN tree
        PROVE  /\ tree'[n] \in NodeRec /\ tree'[n].path = tree[n].path
               /\ tree'[n].up = tree[n].up /\ tree'[n].buf = tree[n].buf
               /\ tree'[n].clock = IF \E i \in 1..r : n = t[i] THEN clock ELSE tree[n].clock
    <2>1. n \in {t[k] : k \in DOMAIN t} <=> \E i \in 1..r : n = t[i]
      BY <1>2
    <2>2. tree'[n] = IF \E i \in 1..r : n = t[i] THEN [tree[n] EXCEPT !.clock = clock] ELSE tree[n]
      BY <2>1 DEF Inserts, Touched
    <2>3. tree[n] \in NodeRec /\ clock \in Nat
      BY <1>0, <1>4 DEF CacheType
    <2>. QED BY <2>2, <2>3 DEF NodeRec
  <1>7. ASSUME NEW k \in (r + 1)..q
        PROVE  /\ NodeAt(k, r) \in Nat /\ nextId <= NodeAt(k, r)
               /\ Prefix(p, k) \in Seq(Pages) /\ Len(Prefix(p, k)) = k
               /\ NewBuf(k - r) \in Nat \ {0}
               /\ k > r + 1 => NodeAt(k - 1, r) = NodeAt(k, r) - 1
               /\ k = r + 1 => NodeAt(k, r) = nextId
    <2>1. k \in 0..q /\ k \in Nat
      BY <1>2
    <2>2. Prefix(p, k) \in Seq(Pages) /\ Len(Prefix(p, k)) = k
      BY <1>2, <2>1, PrefixFacts
    <2>3. PICK m, j : m = q - r /\ j = k - r
      OBVIOUS
    <2>4. m \in Nat /\ j \in 1..m /\ TakesBufs(m, freeBufs', content')
      BY <1>2, <2>3 DEF Inserts
    <2>5. PICK f, c : f = freeBufs' /\ c = content'
      OBVIOUS
    <2>6. NewBuf(j) \in 1..Len(c) /\ c \in Seq(Seq(Pages))
      BY <1>0, <2>4, <2>5, NewBufFacts
    <2>7. NewBuf(k - r) \in Nat \ {0}
      BY <2>3, <2>6
    <2>8. /\ NodeAt(k, r) \in Nat /\ nextId <= NodeAt(k, r)
          /\ k > r + 1 => NodeAt(k - 1, r) = NodeAt(k, r) - 1
          /\ k = r + 1 => NodeAt(k, r) = nextId
      <3>1. r \in Nat /\ nextId \in Nat /\ k \in Nat /\ k >= r + 1
        BY <1>2, <2>1
      <3>. QED BY <3>1 DEF NodeAt
    <2>. QED BY <2>2, <2>7, <2>8
  <1>. QED BY <1>2, <1>3, <1>4, <1>5, <1>6, <1>7

(* The tree below the nodes found stays in order, and so do the new nodes below them. *)
LEMMA InsertTree ==
  ASSUME CInv, NEW p \in Seq(Pages), NEW t, NEW fresh, Inserts(p, t, fresh)
  PROVE  TreeInv'
  <1>0. CacheType /\ TreeInv /\ IsTrail(t, p) /\ DOMAIN tree' = DOMAIN tree \cup fresh /\ clock' = clock
    BY DEF CInv, Inserts
  <1>1. PICK q, r : q = Len(p) /\ r = Len(t)
    OBVIOUS
  <1>2. /\ q \in Nat /\ r \in Nat /\ r <= q /\ nextId \in Nat \ {0}
        /\ r < nextId /\ Below(t) \in Nat /\ Below(t) < nextId /\ (Below(t) = Root <=> r = 0)
        /\ \A i \in 1..r : t[i] \in DOMAIN tree /\ t[i] \notin frozen
    BY <1>1, InsertNodes
  <1>3. \A n \in DOMAIN tree :
              /\ n \in Nat /\ n < nextId /\ tree[n] \in NodeRec /\ tree'[n] \in NodeRec
              /\ tree'[n].path = tree[n].path /\ tree'[n].up = tree[n].up
              /\ tree'[n].clock = IF \E i \in 1..r : n = t[i] THEN clock ELSE tree[n].clock
    BY <1>1, InsertNodes
  <1>4. \A k \in (r + 1)..q :
              /\ NodeAt(k, r) \in Nat /\ nextId <= NodeAt(k, r)
              /\ Prefix(p, k) \in Seq(Pages) /\ Len(Prefix(p, k)) = k
              /\ k > r + 1 => NodeAt(k - 1, r) = NodeAt(k, r) - 1
              /\ k = r + 1 => NodeAt(k, r) = nextId
    BY <1>1, InsertNodes
  <1>5. \A k \in (r + 1)..q :
              /\ NodeAt(k, r) \in fresh /\ tree'[NodeAt(k, r)].path = Prefix(p, k)
              /\ tree'[NodeAt(k, r)].clock = clock
              /\ tree'[NodeAt(k, r)].up = IF k > r + 1 THEN NodeAt(k - 1, r) ELSE Below(t)
    BY <1>1, NewNode
  <1>6. \A n \in fresh : \E k \in (r + 1)..q : n = NodeAt(k, r)
    BY <1>1 DEF Inserts
  <1>7. \A n \in DOMAIN tree : tree[n].clock \in Nat /\ tree[n].clock <= clock /\ clock \in Nat
    BY <1>0, <1>3 DEF NodeRec, TreeInv, CacheType
  <1>. DEFINE Good(n) == LET len == Len(tree'[n].path)  u == tree'[n].up
                         IN /\ len \in 1..n /\ tree'[n].clock <= clock
                            /\ u = Root => len = 1
                            /\ u # Root => /\ u \in DOMAIN tree' /\ u < n
                                           /\ tree'[n].clock <= tree'[u].clock
                                           /\ len > 1 /\ tree'[u].path = Prefix(tree'[n].path, len - 1)
  <1>8. ASSUME NEW n \in DOMAIN tree PROVE Good(n)
    <2>1. PICK u, len : u = tree[n].up /\ len = Len(tree[n].path)
      OBVIOUS
    <2>2. /\ len \in 1..n /\ tree[n].clock <= clock
          /\ u = Root => len = 1
          /\ u # Root => /\ u \in DOMAIN tree /\ u < n /\ tree[n].clock <= tree[u].clock
                         /\ len > 1 /\ tree[u].path = Prefix(tree[n].path, len - 1)
      BY <1>0, <2>1 DEF TreeInv
    <2>3. tree'[n].path = tree[n].path /\ tree'[n].up = u
      BY <1>3, <2>1
    <2>4. tree'[n].clock <= clock
      BY <1>3, <1>7
    <2>5. ASSUME u # Root
          PROVE  u \in DOMAIN tree' /\ tree'[u].path = tree[u].path /\ tree'[n].clock <= tree'[u].clock
      <3>1. u \in DOMAIN tree /\ tree[n].clock <= tree[u].clock
        BY <2>2, <2>5
      <3>2. CASE \E i \in 1..r : n = t[i]
        <4>1. PICK i \in 1..r : n = t[i]
          BY <3>2
        <4>2. u = IF i = 1 THEN Root ELSE t[i - 1]
          BY <1>0, <1>1, <2>1, <4>1 DEF IsTrail
        <4>3. i - 1 \in 1..r /\ u = t[i - 1]
          BY <1>2, <2>5, <4>1, <4>2
        <4>4. tree'[u].clock = clock
          BY <1>3, <3>1, <4>3
        <4>. QED BY <1>0, <1>3, <2>4, <3>1, <4>4
      <3>3. CASE ~\E i \in 1..r : n = t[i]
        <4>1. tree'[n].clock = tree[n].clock
          BY <1>3, <3>3
        <4>2. tree[u].clock <= tree'[u].clock
          BY <1>3, <1>7, <3>1
        <4>3. tree'[u].clock \in Nat /\ tree[u].clock \in Nat /\ tree[n].clock \in Nat
          BY <1>3, <1>7, <3>1
        <4>. QED BY <1>0, <1>3, <3>1, <4>1, <4>2, <4>3
      <3>. QED BY <3>2, <3>3
    <2>. QED BY <2>1, <2>2, <2>3, <2>4, <2>5
  <1>9. ASSUME NEW n \in fresh PROVE Good(n)
    <2>1. PICK k \in (r + 1)..q : n = NodeAt(k, r)
      BY <1>6
    <2>2. k \in Nat /\ n \in Nat /\ nextId <= n /\ k >= r + 1
      BY <1>2, <1>4, <2>1
    <2>3. tree'[n].path = Prefix(p, k) /\ Len(Prefix(p, k)) = k /\ tree'[n].clock = clock
      BY <1>4, <1>5, <2>1
    <2>4. CASE k = r + 1
      <3>1. tree'[n].up = Below(t) /\ n = nextId
        BY <1>4, <1>5, <2>1, <2>4
      <3>2. k \in 1..n
        BY <1>2, <2>2, <2>4, <3>1
      <3>3. CASE r = 0
        <4>1. k = 1 /\ tree'[n].up = Root
          BY <1>2, <2>4, <3>1, <3>3
        <4>. QED BY <1>7, <2>3, <3>2, <4>1, <1>0 DEF CacheType
      <3>4. CASE r # 0
        <4>1. PICK u : u = t[r]
          OBVIOUS
        <4>2. r \in 1..r /\ u \in DOMAIN tree /\ u < nextId
          BY <1>2, <1>3, <3>4, <4>1
        <4>3. tree'[n].up = u /\ u # Root
          <5>1. PICK S : S = DOMAIN tree
            OBVIOUS
          <5>2. t # <<>>
            BY <1>1, <3>4
          <5>. QED BY <1>1, <1>2, <3>1, <3>4, <4>1, <5>2 DEF Below, Last
        <4>4. tree'[u].path = Prefix(p, r) /\ tree'[u].clock = clock
          BY <1>0, <1>1, <1>3, <4>1, <4>2 DEF IsTrail
        <4>5. Prefix(Prefix(p, k), k - 1) = Prefix(p, k - 1) /\ k - 1 = r
          <5>1. k \in 1..Len(p) /\ k - 1 = r
            BY <1>1, <1>2, <2>1, <2>4
          <5>. QED BY <5>1, PrefixOfPrefix
        <4>6. clock \in Nat
          BY <1>0 DEF CacheType
        <4>. QED BY <1>0, <1>2, <2>2, <2>3, <2>4, <3>1, <3>2, <3>4, <4>2, <4>3, <4>4, <4>5, <4>6
      <3>. QED BY <3>3, <3>4
    <2>5. CASE k > r + 1
      <3>1. PICK j, u : j = k - 1 /\ u = NodeAt(j, r)
        OBVIOUS
      <3>2. j \in (r + 1)..q /\ u \in fresh /\ u = n - 1 /\ tree'[n].up = u
        <4>1. j \in (r + 1)..q /\ j \in Nat
          BY <1>2, <2>1, <2>5, <3>1
        <4>2. u = n - 1 /\ tree'[n].up = u
          <5>1. NodeAt(k - 1, r) = NodeAt(k, r) - 1
            BY <1>4, <2>5
          <5>2. tree'[n].up = NodeAt(k - 1, r)
            BY <1>5, <2>1, <2>5
          <5>. QED BY <2>1, <3>1, <5>1, <5>2
        <4>3. u \in fresh
          BY <1>5, <3>1, <4>1
        <4>. QED BY <4>1, <4>2, <4>3
      <3>3. tree'[u].path = Prefix(p, j) /\ tree'[u].clock = clock /\ nextId <= u
        BY <1>4, <1>5, <3>1, <3>2
      <3>4. n >= k
        <4>1. n = nextId + (k - r - 1)
          BY <2>1 DEF NodeAt
        <4>. QED BY <1>2, <2>2, <4>1
      <3>5. Prefix(Prefix(p, k), k - 1) = Prefix(p, j)
        <4>1. k \in 1..Len(p)
          BY <1>1, <1>2, <2>1
        <4>. QED BY <3>1, <4>1, PrefixOfPrefix
      <3>6. clock \in Nat /\ u # Root /\ u < n
        <4>1. clock \in Nat
          BY <1>0 DEF CacheType
        <4>2. u # 0 /\ u < n
          BY <1>2, <2>2, <3>2, <3>3
        <4>. QED BY <4>1, <4>2 DEF Root
      <3>. QED BY <1>0, <1>2, <2>2, <2>3, <2>5, <3>2, <3>3, <3>4, <3>5, <3>6
    <2>. QED BY <1>2, <2>1, <2>2, <2>4, <2>5
  <1>10. \A n \in DOMAIN tree' : Good(n)
    BY <1>0, <1>8, <1>9
  <1>. QED BY <1>0, <1>10 DEF TreeInv

(* The new nodes take free buffers and new ones, and leave the others free. *)
LEMMA InsertBufs ==
  ASSUME CInv, NEW p \in Seq(Pages), NEW t, NEW fresh, Inserts(p, t, fresh)
  PROVE  /\ CacheType' /\ BufInv' /\ ContentInv'
         /\ \A k \in (Len(t) + 1)..Len(p) : NewBuf(k - Len(t)) \notin LiveBufs
         /\ \A j, k \in (Len(t) + 1)..Len(p) : NewBuf(j - Len(t)) = NewBuf(k - Len(t)) => j = k
  <1>0. /\ CacheType /\ BufInv /\ ContentInv /\ DOMAIN tree' = DOMAIN tree \cup fresh
        /\ frozen' = frozen \cup fresh /\ fresh \cap DOMAIN tree = {} /\ UNCHANGED <<pc, clock, toEvict>>
    BY DEF CInv, Inserts
  <1>1. PICK q, r, m, f, c :
          q = Len(p) /\ r = Len(t) /\ m = q - r /\ f = freeBufs' /\ c = content'
    OBVIOUS
  <1>2. /\ q \in Nat /\ r \in Nat /\ r <= q /\ nextId \in Nat \ {0} /\ m \in Nat
        /\ \A i \in 1..r : t[i] \in DOMAIN tree
    <2>1. /\ Len(p) \in Nat /\ Len(t) \in Nat /\ Len(t) <= Len(p) /\ nextId \in Nat \ {0}
          /\ \A i \in 1..Len(t) : t[i] \in DOMAIN tree
      BY InsertNodes
    <2>2. q \in Nat /\ r \in Nat /\ r <= q /\ m = q - r
      BY <1>1, <2>1
    <2>. QED BY <1>1, <2>1, <2>2
  <1>3. \A n \in DOMAIN tree : tree'[n].buf = tree[n].buf /\ tree'[n].path = tree[n].path
                               /\ tree'[n] \in NodeRec /\ tree[n] \in NodeRec
    BY InsertNodes
  <1>4. \A k \in (r + 1)..q : tree'[NodeAt(k, r)].buf = NewBuf(k - r)
    BY <1>1, NewNode
  <1>5. \A n \in fresh : \E k \in (r + 1)..q : n = NodeAt(k, r)
    BY <1>1 DEF Inserts
  <1>6. /\ f \in Seq(Nat \ {0}) /\ c \in Seq(Seq(Pages)) /\ Len(content) <= Len(c)
        /\ \A b \in 1..Len(content) : c[b] = content[b]
        /\ \A j \in DOMAIN f : j \in DOMAIN freeBufs /\ f[j] = freeBufs[j]
        /\ \A j \in 1..m : NewBuf(j) \in 1..Len(c) /\ NewBuf(j) \notin LiveBufs \cup Range(f)
        /\ \A i, j \in 1..m : NewBuf(i) = NewBuf(j) => i = j
        /\ \A b \in 1..Len(c) : b \in LiveBufs \cup Range(f) \/ \E j \in 1..m : NewBuf(j) = b
    <2>1. TakesBufs(m, f, c)
      BY <1>1 DEF Inserts
    <2>. QED BY <1>0, <1>2, <2>1, NewBufFacts
  <1>7. \A k \in (r + 1)..q : k - r \in 1..m /\ k \in Nat
    BY <1>1, <1>2
  <1>8. \A k \in (r + 1)..q : NewBuf(k - r) \in 1..Len(c) /\ NewBuf(k - r) \notin LiveBufs \cup Range(f)
    BY <1>6, <1>7
  <1>9. \A j, k \in (r + 1)..q : NewBuf(j - r) = NewBuf(k - r) => j = k
    <2>1. ASSUME NEW j \in (r + 1)..q, NEW k \in (r + 1)..q, NewBuf(j - r) = NewBuf(k - r)
          PROVE  j = k
      <3>1. j - r = k - r
        BY <1>6, <1>7, <2>1
      <3>. QED BY <1>2, <1>7, <3>1
    <2>. QED BY <2>1
  <1>10. \A b \in 1..Len(c) : b \in LiveBufs \cup Range(f) \/ \E n \in fresh : tree'[n].buf = b
    <2>1. ASSUME NEW j \in 1..m PROVE \E n \in fresh : tree'[n].buf = NewBuf(j)
      <3>1. PICK k : k = j + r
        OBVIOUS
      <3>2. k \in (r + 1)..q /\ k - r = j
        BY <1>1, <1>2, <3>1
      <3>3. NodeAt(k, r) \in fresh
        BY <1>1, <3>2 DEF Inserts
      <3>. QED BY <1>4, <3>2, <3>3
    <2>. QED BY <1>6, <2>1
  <1>11. CacheType'
    <2>1. \A n \in DOMAIN tree' : tree'[n] \in NodeRec
      <3>1. ASSUME NEW n \in fresh PROVE tree'[n] \in NodeRec
        <4>1. PICK k \in (r + 1)..q : n = NodeAt(k, r)
          BY <1>5
        <4>2. /\ tree'[n] = [path |-> Prefix(p, k), clock |-> clock, buf |-> NewBuf(k - r),
                            up |-> IF k > r + 1 THEN NodeAt(k - 1, r) ELSE Below(t)]
          BY <1>1, <4>1 DEF Inserts
        <4>3. Prefix(p, k) \in Seq(Pages) /\ NewBuf(k - r) \in Nat \ {0} /\ Below(t) \in Nat
          BY <1>1, <4>1, InsertNodes
        <4>4. k > r + 1 => NodeAt(k - 1, r) \in Nat
          <5>1. k \in Nat /\ r \in Nat /\ nextId \in Nat
            BY <1>2, <1>7, <4>1
          <5>. QED BY <5>1 DEF NodeAt
        <4>5. clock \in Nat
          BY <1>0 DEF CacheType
        <4>. QED BY <4>2, <4>3, <4>4, <4>5 DEF NodeRec
      <3>. QED BY <1>0, <1>3, <3>1
    <2>2. tree' = [n \in DOMAIN tree' |-> tree'[n]]
      BY DEF Inserts
    <2>3. tree' \in [DOMAIN tree' -> NodeRec]
      BY <2>1, <2>2
    <2>4. /\ fresh = nextId..(nextId + m - 1) /\ nextId' = nextId + m /\ numNodes' = numNodes + m
          /\ IsFiniteSet(DOMAIN tree) /\ DOMAIN tree \subseteq 1..(nextId - 1) /\ numNodes \in Nat
          /\ frozen \subseteq DOMAIN tree
      BY <1>0, <1>1 DEF Inserts, CacheType
    <2>5. IsFiniteSet(fresh)
      BY <1>2, <2>4, FS_Interval
    <2>6. IsFiniteSet(DOMAIN tree')
      BY <1>0, <2>4, <2>5, FS_Union
    <2>7. DOMAIN tree' \subseteq 1..(nextId' - 1) /\ nextId' \in Nat \ {0} /\ numNodes' \in Nat
      BY <1>0, <1>2, <2>4
    <2>8. frozen' \subseteq DOMAIN tree'
      BY <1>0, <2>4
    <2>9. batch' \in Seq(LaneRec)
      <3>1. PICK bufs : bufs = [k \in 1..q |-> IF k <= r THEN tree[t[k]].buf ELSE NewBuf(k - r)]
        OBVIOUS
      <3>2. batch' = Append(batch, [path |-> p, ready |-> r, bufs |-> bufs])
        BY <1>1, <3>1 DEF Inserts
      <3>3. ASSUME NEW k \in 1..q PROVE bufs[k] \in Nat \ {0}
        <4>1. CASE k <= r
          BY <1>2, <1>3, <3>1, <4>1 DEF NodeRec
        <4>2. CASE ~(k <= r)
          <5>1. k \in (r + 1)..q
            BY <1>2, <4>2
          <5>2. NewBuf(k - r) \in Nat \ {0}
            BY <1>1, <5>1, InsertNodes
          <5>. QED BY <3>1, <4>2, <5>2
        <4>. QED BY <4>1, <4>2
      <3>4. bufs \in [1..q -> Nat \ {0}]
        BY <3>1, <3>3
      <3>5. bufs \in Seq(Nat \ {0})
        BY <1>2, <3>4
      <3>6. [path |-> p, ready |-> r, bufs |-> bufs] \in LaneRec
        BY <1>2, <3>5 DEF LaneRec
      <3>7. batch \in Seq(LaneRec)
        BY <1>0 DEF CacheType
      <3>. QED BY <3>2, <3>6, <3>7
    <2>10. pc' \in {"maintain", "evict", "prepare", "prefill"} /\ clock' \in Nat /\ toEvict' \in Nat
      BY <1>0 DEF CacheType
    <2>11. freeBufs' \in Seq(Nat \ {0}) /\ content' \in Seq(Seq(Pages))
      BY <1>1, <1>6
    <2>. QED BY <2>3, <2>6, <2>7, <2>8, <2>9, <2>10, <2>11 DEF CacheType
  <1>12. \A n \in fresh : tree'[n].buf \in 1..Len(c) /\ tree'[n].buf \notin LiveBufs \cup Range(f)
    BY <1>4, <1>5, <1>8
  <1>13. \A n \in DOMAIN tree : tree[n].buf \in LiveBufs /\ tree[n].buf \in 1..Len(content)
    BY <1>0 DEF LiveBufs, BufInv
  <1>14. LiveBufs' = LiveBufs \cup {tree'[n].buf : n \in fresh}
    BY <1>0, <1>3 DEF LiveBufs
  <1>15. \A j \in DOMAIN f : f[j] \in Range(freeBufs) /\ f[j] \in Range(f)
    BY <1>6 DEF Range
  <1>16. BufInv'
    <2>1. ASSUME NEW a \in DOMAIN tree', NEW n \in DOMAIN tree', tree'[a].buf = tree'[n].buf PROVE a = n
      <3>1. CASE a \in DOMAIN tree /\ n \in DOMAIN tree
        BY <1>0, <1>3, <2>1, <3>1 DEF BufInv
      <3>2. CASE a \in fresh /\ n \in fresh
        <4>1. PICK j \in (r + 1)..q : a = NodeAt(j, r)
          BY <1>5, <3>2
        <4>2. PICK k \in (r + 1)..q : n = NodeAt(k, r)
          BY <1>5, <3>2
        <4>. QED BY <1>4, <1>9, <2>1, <4>1, <4>2
      <3>. QED BY <1>0, <1>3, <1>12, <1>13, <2>1, <3>1, <3>2
    <2>2. \A j, k \in DOMAIN f : f[j] = f[k] => j = k
      BY <1>0, <1>6 DEF BufInv
    <2>3. \A b \in Range(f) : b \in Range(freeBufs)
      BY <1>6 DEF Range
    <2>4. LiveBufs' \cap Range(f) = {}
      BY <1>0, <1>12, <1>14, <2>3 DEF BufInv
    <2>5. LiveBufs' \cup Range(f) = 1..Len(c)
      <3>1. LiveBufs \cup Range(f) \subseteq 1..Len(content)
        BY <1>0, <2>3 DEF BufInv
      <3>2. 1..Len(content) \subseteq 1..Len(c)
        <4>1. Len(content) \in Nat /\ Len(c) \in Nat
          BY <1>0, <1>6 DEF CacheType
        <4>. QED BY <1>6, <4>1
      <3>. QED BY <1>10, <1>12, <1>14, <3>1, <3>2
    <2>. QED BY <1>1, <2>1, <2>2, <2>4, <2>5 DEF BufInv
  <1>17. ContentInv'
    <2>1. ASSUME NEW n \in DOMAIN tree' \ frozen' PROVE c[tree'[n].buf] = tree'[n].path
      <3>1. n \in DOMAIN tree \ frozen
        BY <1>0, <2>1
      <3>2. content[tree[n].buf] = tree[n].path
        BY <1>0, <3>1 DEF ContentInv
      <3>3. c[tree[n].buf] = content[tree[n].buf]
        BY <1>6, <1>13, <3>1
      <3>. QED BY <1>3, <3>1, <3>2, <3>3
    <2>. QED BY <1>1, <2>1 DEF ContentInv
  <1>. QED BY <1>1, <1>8, <1>9, <1>11, <1>16, <1>17

(* The lanes of the batch are over their nodes, each writes its own buffers. *)
LEMMA InsertBatch ==
  ASSUME CInv, NEW p \in Seq(Pages), NEW t, NEW fresh, Inserts(p, t, fresh)
  PROVE  BatchInv'
  <1>0. /\ CacheType /\ BatchInv /\ BufInv /\ DOMAIN tree' = DOMAIN tree \cup fresh
        /\ frozen' = frozen \cup fresh /\ fresh \cap DOMAIN tree = {} /\ pc' = "prepare"
        /\ IsTrail(t, p) /\ frozen \subseteq DOMAIN tree
    BY DEF CInv, Inserts, CacheType
  <1>1. PICK q, r, l0 : q = Len(p) /\ r = Len(t) /\ l0 = Len(batch) + 1
    OBVIOUS
  <1>2. /\ q \in Nat /\ r \in Nat /\ r <= q
        /\ \A i \in 1..r : t[i] \in DOMAIN tree /\ t[i] \notin frozen
    BY <1>1, InsertNodes
  <1>3. \A n \in DOMAIN tree : tree'[n].buf = tree[n].buf /\ tree'[n].path = tree[n].path
    BY InsertNodes
  <1>4. \A k \in (r + 1)..q : /\ tree'[NodeAt(k, r)].buf = NewBuf(k - r)
                              /\ tree'[NodeAt(k, r)].path = Prefix(p, k) /\ NodeAt(k, r) \in fresh
    BY <1>1, NewNode
  <1>5. \A n \in fresh : \E k \in (r + 1)..q : n = NodeAt(k, r)
    BY <1>1 DEF Inserts
  <1>6. PICK bufs : bufs = [k \in 1..q |-> IF k <= r THEN tree[t[k]].buf ELSE NewBuf(k - r)]
    OBVIOUS
  <1>7. PICK lane : lane = [path |-> p, ready |-> r, bufs |-> bufs]
    OBVIOUS
  <1>8. /\ DOMAIN batch' = DOMAIN batch \cup {l0} /\ l0 \notin DOMAIN batch
        /\ \A l \in DOMAIN batch : batch'[l] = batch[l]
        /\ batch'[l0].path = p /\ batch'[l0].ready = r /\ batch'[l0].bufs = bufs
    <2>1. batch' = Append(batch, lane)
      BY <1>1, <1>6, <1>7 DEF Inserts
    <2>2. Len(batch) \in Nat /\ DOMAIN batch = 1..Len(batch)
      BY <1>0 DEF CacheType
    <2>3. DOMAIN batch' = 1..(Len(batch) + 1) /\ batch'[Len(batch) + 1] = lane
          /\ \A l \in 1..Len(batch) : batch'[l] = batch[l]
      BY <1>0, <2>1 DEF CacheType
    <2>4. 1..(Len(batch) + 1) = 1..Len(batch) \cup {Len(batch) + 1}
          /\ Len(batch) + 1 \notin 1..Len(batch)
      BY <2>2
    <2>. QED BY <1>1, <1>7, <2>2, <2>3, <2>4
  <1>9. /\ \A k \in 1..r : bufs[k] = tree[t[k]].buf
        /\ \A k \in (r + 1)..q : bufs[k] = NewBuf(k - r)
    BY <1>2, <1>6
  <1>10. Len(bufs) = q /\ DOMAIN p = 1..q
    BY <1>1, <1>2, <1>6
  <1>11. PagesOut' = PagesOut \cup {<<l0, k>> : k \in (r + 1)..q}
    <2>1. \A l \in DOMAIN batch : batch'[l].ready = batch[l].ready /\ batch'[l].path = batch[l].path
      BY <1>8
    <2>. QED BY <1>1, <1>8, <2>1 DEF PagesOut
  <1>12. ASSUME NEW n \in DOMAIN tree, NEW l \in DOMAIN batch, NEW k, IsNodeOf(n, l, k)
         PROVE  IsNodeOf(n, l, k)'
    BY <1>0, <1>3, <1>8, <1>12 DEF IsNodeOf
  <1>13. ASSUME NEW k \in 1..q PROVE \E n \in DOMAIN tree' : IsNodeOf(n, l0, k)'
    <2>1. CASE k <= r
      <3>1. k \in 1..r
        BY <1>2, <2>1
      <3>2. PICK n : n = t[k]
        OBVIOUS
      <3>3. n \in DOMAIN tree /\ n \notin frozen /\ tree[n].path = Prefix(p, k)
        BY <1>0, <1>1, <1>2, <3>1, <3>2 DEF IsTrail
      <3>4. IsNodeOf(n, l0, k)'
        BY <1>0, <1>2, <1>3, <1>8, <1>9, <3>1, <3>2, <3>3 DEF IsNodeOf
      <3>. QED BY <1>0, <3>3, <3>4
    <2>2. CASE ~(k <= r)
      <3>1. k \in (r + 1)..q /\ k > r
        BY <1>2, <2>2
      <3>2. PICK n : n = NodeAt(k, r)
        OBVIOUS
      <3>3. n \in fresh /\ tree'[n].buf = bufs[k] /\ tree'[n].path = Prefix(p, k)
        BY <1>4, <1>9, <3>1, <3>2
      <3>4. IsNodeOf(n, l0, k)'
        BY <1>0, <1>8, <3>1, <3>3 DEF IsNodeOf
      <3>. QED BY <1>0, <3>3, <3>4
    <2>. QED BY <2>1, <2>2
  <1>14. \A l \in DOMAIN batch' :
            /\ batch'[l].ready <= Len(batch'[l].path) /\ Len(batch'[l].bufs) = Len(batch'[l].path)
            /\ \A k \in DOMAIN batch'[l].path : \E n \in DOMAIN tree' : IsNodeOf(n, l, k)'
    <2>1. ASSUME NEW l \in DOMAIN batch, NEW k \in DOMAIN batch[l].path
          PROVE  \E n \in DOMAIN tree' : IsNodeOf(n, l, k)'
      <3>1. PICK n \in DOMAIN tree : IsNodeOf(n, l, k)
        BY <1>0 DEF BatchInv
      <3>. QED BY <1>0, <1>12, <3>1
    <2>2. \A l \in DOMAIN batch : /\ batch[l].ready <= Len(batch[l].path)
                                  /\ Len(batch[l].bufs) = Len(batch[l].path)
      BY <1>0 DEF BatchInv
    <2>. QED BY <1>1, <1>2, <1>8, <1>10, <1>13, <2>1, <2>2
  <1>15. \A n \in frozen' : \E w \in PagesOut' : IsNodeOf(n, w[1], w[2])'
    <2>1. ASSUME NEW n \in frozen PROVE \E w \in PagesOut' : IsNodeOf(n, w[1], w[2])'
      <3>1. PICK w \in PagesOut : IsNodeOf(n, w[1], w[2])
        BY <1>0 DEF BatchInv
      <3>2. PICK l, k : l = w[1] /\ k = w[2]
        OBVIOUS
      <3>3. l \in DOMAIN batch /\ n \in DOMAIN tree /\ IsNodeOf(n, l, k)
        BY <1>0, <3>1, <3>2 DEF PagesOut
      <3>4. IsNodeOf(n, l, k)'
        BY <1>12, <3>3
      <3>. QED BY <1>11, <3>1, <3>2, <3>4
    <2>2. ASSUME NEW n \in fresh PROVE \E w \in PagesOut' : IsNodeOf(n, w[1], w[2])'
      <3>1. PICK k \in (r + 1)..q : n = NodeAt(k, r)
        BY <1>5
      <3>2. tree'[n].buf = bufs[k] /\ tree'[n].path = Prefix(p, k) /\ k > r
        BY <1>2, <1>4, <1>9, <3>1
      <3>3. IsNodeOf(n, l0, k)'
        BY <1>0, <1>8, <3>2 DEF IsNodeOf
      <3>4. PICK w : w = <<l0, k>>
        OBVIOUS
      <3>5. w \in PagesOut' /\ w[1] = l0 /\ w[2] = k
        BY <1>11, <3>1, <3>4
      <3>. QED BY <3>3, <3>5
    <2>. QED BY <1>0, <2>1, <2>2
  <1>16. \A w \in PagesOut : /\ w[1] \in DOMAIN batch
                             /\ batch'[w[1]].bufs[w[2]] = batch[w[1]].bufs[w[2]]
                             /\ batch[w[1]].bufs[w[2]] \in LiveBufs
    <2>. SUFFICES ASSUME NEW l \in DOMAIN batch, NEW k \in (batch[l].ready + 1)..Len(batch[l].path)
                  PROVE  batch'[l].bufs[k] = batch[l].bufs[k] /\ batch[l].bufs[k] \in LiveBufs
      BY DEF PagesOut
    <2>1. batch[l] \in LaneRec
      BY <1>0 DEF CacheType
    <2>2. k \in DOMAIN batch[l].path
      BY <2>1 DEF LaneRec
    <2>3. PICK n \in DOMAIN tree : IsNodeOf(n, l, k)
      BY <1>0, <2>2 DEF BatchInv
    <2>4. batch[l].bufs[k] \in LiveBufs
      BY <2>3 DEF IsNodeOf, LiveBufs
    <2>. QED BY <1>8, <2>4
  <1>17. /\ \A k \in (r + 1)..q : NewBuf(k - r) \notin LiveBufs
         /\ \A j, k \in (r + 1)..q : NewBuf(j - r) = NewBuf(k - r) => j = k
    BY <1>1, InsertBufs
  <1>18. \A v, w \in PagesOut' : v # w => batch'[v[1]].bufs[v[2]] # batch'[w[1]].bufs[w[2]]
    <2>. DEFINE N == {<<l0, k>> : k \in (r + 1)..q}
    <2>1. \A w \in N : /\ batch'[w[1]].bufs[w[2]] = NewBuf(w[2] - r)
                       /\ w[1] = l0 /\ w[2] \in (r + 1)..q /\ w = <<l0, w[2]>>
      BY <1>8, <1>9
    <2>2. \A v, w \in PagesOut : v # w => batch'[v[1]].bufs[v[2]] # batch'[w[1]].bufs[w[2]]
      BY <1>0, <1>16 DEF BatchInv
    <2>3. ASSUME NEW v \in N, NEW w \in N, v # w
          PROVE  batch'[v[1]].bufs[v[2]] # batch'[w[1]].bufs[w[2]]
      BY <1>17, <2>1, <2>3
    <2>4. ASSUME NEW v \in PagesOut, NEW w \in N
          PROVE  batch'[v[1]].bufs[v[2]] # batch'[w[1]].bufs[w[2]]
      BY <1>16, <1>17, <2>1
    <2>5. PagesOut' = PagesOut \cup N
      BY <1>11
    <2>. HIDE DEF N
    <2>. QED BY <2>2, <2>3, <2>4, <2>5
  <1>. QED BY <1>0, <1>14, <1>15, <1>18 DEF BatchInv

(* prepare_lane counts the nodes it inserts. *)
LEMMA PrepareLaneStep ==
  ASSUME CInv, NEW p \in Prompts, PrepareLane(p)
  PROVE  CInv'
  <1>1. PICK t, fresh : Inserts(p, t, fresh)
    BY PrepareInserts
  <1>2. p \in Seq(Pages)
    BY CacheAssumption
  <1>3. CacheType' /\ TreeInv' /\ BufInv' /\ ContentInv' /\ BatchInv'
    BY <1>1, <1>2, InsertTree, InsertBufs, InsertBatch
  <1>4. CountInv'
    <2>1. CacheType /\ CountInv
      BY DEF CInv
    <2>2. PICK m : m = Len(p) - Len(t)
      OBVIOUS
    <2>3. m \in Nat /\ nextId \in Nat
      BY <1>1, <1>2, <2>2, InsertNodes
    <2>4. /\ fresh = nextId..(nextId + m - 1) /\ fresh \cap DOMAIN tree = {}
          /\ DOMAIN tree' = DOMAIN tree \cup fresh /\ pc = "prepare" /\ pc' = "prepare"
          /\ numNodes' = numNodes + m
      BY <1>1, <2>2 DEF Inserts
    <2>5. IsFiniteSet(fresh) /\ Cardinality(fresh) = m
      BY <2>3, <2>4, FS_Interval
    <2>6. IsFiniteSet(DOMAIN tree) /\ Cardinality(DOMAIN tree) = numNodes /\ numNodes \in Nat
      BY <2>1, <2>4 DEF CacheType, CountInv
    <2>7. /\ Cardinality(DOMAIN tree \cup fresh) =
               Cardinality(DOMAIN tree) + Cardinality(fresh) - Cardinality(DOMAIN tree \cap fresh)
      BY <2>5, <2>6, FS_Union
    <2>8. Cardinality(DOMAIN tree \cap fresh) = 0
      <3>1. DOMAIN tree \cap fresh = {}
        BY <2>4
      <3>. QED BY <3>1, FS_EmptySet
    <2>9. numNodes' = Cardinality(DOMAIN tree')
      BY <2>3, <2>4, <2>5, <2>6, <2>7, <2>8
    <2>10. batch' # <<>>
      <3>1. batch \in Seq(LaneRec)
        BY <2>1 DEF CacheType
      <3>2. PICK lane : batch' = Append(batch, lane)
        BY <1>1 DEF Inserts
      <3>. QED BY <3>1, <3>2
    <2>. QED BY <2>4, <2>9, <2>10 DEF CountInv
  <1>. QED BY <1>3, <1>4 DEF CInv

(***************************************************************************)
(* The invariant of the host cache, for any limit, prompts and batches.    *)
(***************************************************************************)
THEOREM CacheInv == Spec => []CInv
  <1>1. Init => CInv
    <2>. SUFFICES ASSUME Init PROVE CInv
      OBVIOUS
    <2>1. /\ pc = "maintain" /\ tree = [n \in {} |-> 0] /\ frozen = {}
          /\ clock = 0 /\ nextId = 1 /\ numNodes = 0 /\ toEvict = 0 /\ batch = <<>>
          /\ freeBufs = [j \in 1..Limit |-> j] /\ content = [j \in 1..Limit |-> <<>>]
      BY DEF Init
    <2>2. Limit \in Nat
      BY CacheAssumption
    <2>3. DOMAIN tree = {} /\ IsFiniteSet(DOMAIN tree) /\ Cardinality(DOMAIN tree) = 0
      BY <2>1, FS_EmptySet
    <2>4. freeBufs \in Seq(Nat \ {0}) /\ content \in Seq(Seq(Pages)) /\ Len(content) = Limit
      <3>1. <<>> \in Seq(Pages)
        OBVIOUS
      <3>2. content \in [1..Limit -> Seq(Pages)] /\ freeBufs \in [1..Limit -> Nat \ {0}]
        BY <2>1, <2>2, <3>1
      <3>. QED BY <2>1, <2>2, <3>2
    <2>5. CacheType
      <3>1. tree \in [DOMAIN tree -> NodeRec]
        BY <2>1
      <3>. QED BY <2>1, <2>3, <2>4, <3>1 DEF CacheType
    <2>6. TreeInv /\ ContentInv
      BY <2>3 DEF TreeInv, ContentInv
    <2>7. BufInv
      <3>1. LiveBufs = {} /\ Range(freeBufs) = 1..Limit
        BY <2>1, <2>3 DEF LiveBufs, Range
      <3>. QED BY <2>1, <2>3, <2>4, <3>1 DEF BufInv
    <2>8. BatchInv
      BY <2>1 DEF BatchInv, PagesOut
    <2>9. CountInv
      BY <2>1, <2>3 DEF CountInv
    <2>. QED BY <2>5, <2>6, <2>7, <2>8, <2>9 DEF CInv
  <1>2. CInv /\ [Next]_vars => CInv'
    <2>. SUFFICES ASSUME CInv, [Next]_vars PROVE CInv'
      OBVIOUS
    <2>1. CASE Maintain
      BY <2>1, MaintainStep
    <2>2. CASE EvictOne
      BY <2>2, EvictOneStep
    <2>3. CASE EvictEnd
      BY <2>3, EvictEndStep
    <2>4. CASE \E p \in Prompts : PrepareLane(p)
      BY <2>4, PrepareLaneStep
    <2>5. CASE BatchEnd
      BY <2>5, BatchEndStep
    <2>6. CASE Prefill
      BY <2>6, PrefillStep
    <2>7. CASE UNCHANGED vars
      <3>1. UNCHANGED <<pc, tree, frozen, clock, nextId, numNodes, toEvict, freeBufs, content, batch>>
        BY <2>7 DEF vars
      <3>2. CInv
        OBVIOUS
      <3>. QED BY <3>1, <3>2 DEF CInv, CacheType, TreeInv, BufInv, ContentInv, BatchInv, CountInv,
                                 LiveBufs, IsNodeOf, PagesOut
    <2>. QED BY <2>1, <2>2, <2>3, <2>4, <2>5, <2>6, <2>7 DEF Next, Rest
  <1>. QED BY <1>1, <1>2, PTL DEF Spec

-----------------------------------------------------------------------------
(* The properties of the cache. *)

(***************************************************************************)
(* PageInsCoherent: a page that a prefill reads from the host cache holds  *)
(* the keys and values of the prompt's tokens up to it.                    *)
(***************************************************************************)
THEOREM PagesAreTheirs == Spec => []PageInsCoherent
  <1>1. CInv => PageInsCoherent
    <2>. SUFFICES ASSUME CInv, NEW l \in DOMAIN batch, NEW k \in 1..batch[l].ready
                  PROVE  content[batch[l].bufs[k]] = Prefix(batch[l].path, k)
      BY DEF PageInsCoherent
    <2>0. CacheType /\ BatchInv /\ ContentInv
      BY DEF CInv
    <2>1. batch[l] \in LaneRec /\ batch[l].ready <= Len(batch[l].path)
      BY <2>0 DEF CacheType, BatchInv
    <2>2. k \in DOMAIN batch[l].path /\ ~(k > batch[l].ready)
      BY <2>1 DEF LaneRec
    <2>3. PICK n \in DOMAIN tree : IsNodeOf(n, l, k)
      BY <2>0, <2>2 DEF BatchInv
    <2>4. n \notin frozen
      BY <2>2, <2>3 DEF IsNodeOf
    <2>. QED BY <2>0, <2>3, <2>4 DEF IsNodeOf, ContentInv
  <1>. QED BY <1>1, CacheInv, PTL

(***************************************************************************)
(* BuffersOwned: no buffer is lost, free twice or shared, and no two pages *)
(* of a batch are written to the same one.                                 *)
(***************************************************************************)
THEOREM BuffersHaveOwners == Spec => []BuffersOwned
  <1>1. CInv => BuffersOwned
    <2>. SUFFICES ASSUME CInv PROVE BuffersOwned
      OBVIOUS
    <2>0. CacheType /\ BatchInv /\ BufInv
      BY DEF CInv
    <2>1. Cardinality(LiveBufs) = Cardinality(DOMAIN tree)
      <3>1. PICK f : f = [n \in DOMAIN tree |-> tree[n].buf]
        OBVIOUS
      <3>2. f \in Bijection(DOMAIN tree, LiveBufs)
        <4>1. f \in [DOMAIN tree -> LiveBufs]
          BY <3>1 DEF LiveBufs
        <4>2. \A m, n \in DOMAIN tree : f[m] = f[n] => m = n
          BY <2>0, <3>1 DEF BufInv
        <4>3. \A b \in LiveBufs : \E n \in DOMAIN tree : f[n] = b
          BY <3>1 DEF LiveBufs
        <4>4. f \in Injection(DOMAIN tree, LiveBufs)
          BY <4>1, <4>2 DEF Injection, IsInjective
        <4>5. f \in Surjection(DOMAIN tree, LiveBufs)
          BY <4>1, <4>3 DEF Surjection
        <4>. QED BY <4>4, <4>5 DEF Bijection
      <3>3. IsFiniteSet(DOMAIN tree)
        BY <2>0 DEF CacheType
      <3>. QED BY <3>2, <3>3, FS_Bijection DEF ExistsBijection
    <2>2. Cardinality(LiveBufs \cup Range(freeBufs)) = Len(content)
      <3>1. Len(content) \in Nat /\ LiveBufs \cup Range(freeBufs) = 1..Len(content)
        BY <2>0 DEF CacheType, BufInv
      <3>2. Cardinality(1..Len(content)) = Len(content)
        <4>1. PICK n \in Nat : n = Len(content)
          BY <3>1
        <4>2. Cardinality(1..n) = n
          BY FS_Interval
        <4>. QED BY <4>1, <4>2
      <3>. QED BY <3>1, <3>2
    <2>3. ASSUME NEW l \in DOMAIN batch PROVE Range(batch[l].bufs) \subseteq LiveBufs
      <3>1. batch[l] \in LaneRec /\ Len(batch[l].bufs) = Len(batch[l].path)
        BY <2>0 DEF CacheType, BatchInv
      <3>2. DOMAIN batch[l].bufs = DOMAIN batch[l].path
        BY <3>1 DEF LaneRec
      <3>3. \A k \in DOMAIN batch[l].path : batch[l].bufs[k] \in LiveBufs
        BY <2>0 DEF BatchInv, IsNodeOf, LiveBufs
      <3>. QED BY <3>2, <3>3 DEF Range
    <2>. QED BY <2>0, <2>1, <2>2, <2>3 DEF BuffersOwned, BufInv, BatchInv
  <1>. QED BY <1>1, CacheInv, PTL

(***************************************************************************)
(* EvictsLeaves: maintain() pops a node without children, and the number   *)
(* it keeps is that of the nodes of the tree.                              *)
(***************************************************************************)
THEOREM LeavesAreEvicted == Spec => []EvictsLeaves
  <1>1. CInv => EvictsLeaves
    <2>. SUFFICES ASSUME CInv PROVE EvictsLeaves
      OBVIOUS
    <2>0. CacheType /\ TreeInv /\ CountInv
      BY DEF CInv
    <2>1. pc = "evict" /\ toEvict > 0 => Kids(Victim) = {}
      <3>. SUFFICES ASSUME pc = "evict", toEvict > 0 PROVE Kids(Victim) = {}
        OBVIOUS
      <3>1. numNodes + toEvict = Cardinality(DOMAIN tree) /\ numNodes \in Nat /\ toEvict \in Nat
        BY <2>0 DEF CountInv, CacheType
      <3>2. DOMAIN tree # {}
        BY <3>1, FS_EmptySet
      <3>. QED BY <2>0, <3>2, VictimIsLeaf
    <2>. QED BY <2>0, <2>1 DEF EvictsLeaves, CountInv
  <1>. QED BY <1>1, CacheInv, PTL

-----------------------------------------------------------------------------
(***************************************************************************)
(* The container backend: while the exit code is asked for, the session is  *)
(* behind, or its variable holds the exit code of the last command.         *)
(***************************************************************************)
Sessions == [made : BOOLEAN, proc : {"none", "alive"}, code : {0, 1}, behind : BOOLEAN]
Endings == {"ok", "nonzero", "behind", "error"}

BackendType ==
  /\ be \in {"create", "session", "idle", "bash", "code", "raised", "failed", "gone"}
  /\ sandbox \in {"none", "up", "ended", "terminated"}
  /\ ncmd \in Nat /\ tool \in {"bash", "plugin", "submit"}
  /\ ran \in Seq(Endings)
  /\ session \in Sessions
  /\ bash \in {"success", "error"}
  /\ result \in [success : BOOLEAN, of : Nat, tool : {"bash", "plugin", "submit"}, behind : BOOLEAN]

(* Bash ran the last command to its end, and the session holds its exit code. *)
HoldsCode ==
  /\ session.proc = "alive"
  /\ \/ ran[ncmd] = "ok" /\ session.code = 0
     \/ ran[ncmd] = "nonzero" /\ session.code = 1

CommandInv ==
  /\ be \in {"create", "session"} => ncmd = 0 /\ ran = <<>>
  /\ be \in {"idle", "code"} => ncmd = Len(ran)
  /\ be = "bash" => ncmd = Len(ran) + 1
  /\ be = "code" /\ bash = "success" =>
       ncmd > 0 /\ (sandbox = "up" /\ ~session.behind => HoldsCode)
  /\ be = "gone" => sandbox # "up"

ResultInv ==
  result.success /\ ~result.behind =>
    /\ result.of \in 1..Len(ran) /\ ran[result.of] \in {"ok", "nonzero"}
    /\ result.tool # "bash" => ran[result.of] = "ok"

MInv == BackendType /\ CommandInv /\ ResultInv

(* A call of the backend. *)
LEMMA BackendStep ==
  ASSUME MInv, BackendNext
  PROVE  MInv'
  <1>0. BackendType /\ CommandInv /\ ResultInv
    BY DEF MInv
  <1>a. /\ Served \in Sessions /\ NoSession \in Sessions
    BY <1>0 DEF BackendType, Served, NoSession, Sessions
  <1>c. ASSUME NEW s \in Sessions PROVE NoProc(s) \in Sessions /\ Echoed(s) \in Sessions
    BY DEF NoProc, Echoed, Sessions
  <1>b. ASSUME NEW s \in Started
        PROVE  s \in Sessions /\ s.proc = "alive" /\ (session.proc = "alive" => s = session)
    <2>1. session \in Sessions
      BY <1>0 DEF BackendType
    <2>2. CASE session.proc = "alive"
      BY <1>b, <2>1, <2>2 DEF Started
    <2>3. CASE session.proc # "alive"
      BY <1>b, <2>1, <2>3 DEF Started, Sessions
    <2>. QED BY <2>2, <2>3
  <1>1. CASE CreateSandbox
    BY <1>0, <1>1 DEF MInv, BackendType, CommandInv, ResultInv, CreateSandbox
  <1>2. CASE CreateSession
    <2>1. session' \in Sessions
      BY <1>0, <1>a, <1>2 DEF BackendType, CreateSession
    <2>. QED BY <1>0, <1>2, <2>1 DEF MInv, BackendType, CommandInv, ResultInv, CreateSession
  <1>3. CASE SandboxGone
    BY <1>0, <1>3 DEF MInv, BackendType, CommandInv, ResultInv, SandboxGone
  <1>4. ASSUME NEW t \in Tools, CallTool(t) PROVE MInv'
    BY <1>0, <1>4, ModalAssumption DEF MInv, BackendType, CommandInv, ResultInv, CallTool
  <1>5. CASE RunSession
    <2>1. PICK s \in Started, how \in {"ok", "nonzero", "behind", "error"} :
            /\ ran' = Append(ran, how)
            /\ how = "behind" => s.behind
            /\ session' = CASE how = "error"  -> NoProc(s)
                           [] how = "behind" -> s
                           [] OTHER          -> [s EXCEPT !.code = Exits[how], !.behind = FALSE]
            /\ \/ bash' = (IF how = "error" THEN "error" ELSE "success") /\ be' = "code"
               \/ be' = "raised" /\ UNCHANGED bash
      BY <1>5, Zenon DEF RunSession
    <2>2. /\ be = "bash" /\ sandbox = "up" /\ UNCHANGED <<sandbox, attempts, ncmd, tool, result>>
      BY <1>5 DEF RunSession, Reachable
    <2>3. ncmd \in Nat /\ ncmd = Len(ran) + 1 /\ ran \in Seq(Endings)
      BY <1>0, <2>2 DEF BackendType, CommandInv
    <2>4. /\ ran' \in Seq(Endings) /\ Len(ran') = ncmd /\ ran'[ncmd] = how
          /\ \A k \in 1..Len(ran) : ran'[k] = ran[k] /\ k \in 1..Len(ran')
      BY <2>1, <2>3 DEF Endings
    <2>5. s \in Sessions /\ s.proc = "alive"
      BY <1>b, <2>1
    <2>6. session' \in Sessions /\ (how # "error" /\ ~session'.behind => HoldsCode')
      <3>1. CASE how = "error"
        BY <1>c, <2>1, <2>5, <3>1
      <3>2. CASE how = "behind"
        BY <2>1, <2>5, <3>2
      <3>3. CASE how = "ok"
        BY <2>1, <2>2, <2>4, <2>5, <3>3 DEF HoldsCode, Sessions, Exits
      <3>4. CASE how = "nonzero"
        BY <2>1, <2>2, <2>4, <2>5, <3>4 DEF HoldsCode, Sessions, Exits
      <3>. QED BY <2>1, <3>1, <3>2, <3>3, <3>4
    <2>7. BackendType'
      BY <1>0, <2>1, <2>2, <2>4, <2>6 DEF BackendType
    <2>8. ncmd > 0
      BY <2>3
    <2>9. CommandInv'
      BY <1>0, <2>1, <2>2, <2>4, <2>6, <2>8 DEF CommandInv
    <2>10. ResultInv'
      BY <1>0, <2>2, <2>4 DEF ResultInv
    <2>. QED BY <2>7, <2>9, <2>10 DEF MInv
  <1>6. CASE GetExitCode
    <2>1. /\ be = "code" /\ be' = "idle" /\ UNCHANGED <<sandbox, attempts, ncmd, tool, ran, bash>>
      BY <1>6 DEF GetExitCode
    <2>2. /\ ncmd = Len(ran) /\ ncmd \in Nat
          /\ bash = "success" => ncmd > 0 /\ (sandbox = "up" /\ ~session.behind => HoldsCode)
          /\ tool \in {"bash", "plugin", "submit"} /\ bash \in {"success", "error"}
          /\ session \in Sessions
      BY <1>0, <2>1 DEF CommandInv, BackendType
    <2>3. /\ session' \in Sessions
          /\ \E c : /\ result' \in ResultsWith(c)
                    /\ bash = "error" => c = -1
                    /\ (bash = "success" /\ ~session.behind) => HoldsCode /\ c \in {session.code, -1}
      <3>1. CASE bash = "error" /\ result' \in ResultsWith(-1) /\ UNCHANGED session
        BY <2>2, <3>1
      <3>2. CASE /\ bash = "success" /\ Reachable
                 /\ \E s \in Started : \E answer \in ExitCodes(s) :
                      result' \in ResultsWith(answer[1]) /\ session' = answer[2]
        <4>1. PICK s \in Started : \E answer \in ExitCodes(s) :
                result' \in ResultsWith(answer[1]) /\ session' = answer[2]
          BY <3>2
        <4>2. PICK answer \in ExitCodes(s) : result' \in ResultsWith(answer[1]) /\ session' = answer[2]
          BY <4>1
        <4>3. s \in Sessions
          BY <1>b, <4>1
        <4>4. answer[2] \in Sessions /\ (~s.behind => answer[1] \in {s.code, -1})
          BY <1>c, <4>2, <4>3 DEF ExitCodes
        <4>5. ~session.behind => HoldsCode /\ s = session
          BY <1>b, <2>2, <3>2, <4>1 DEF Reachable, HoldsCode
        <4>. QED BY <3>2, <4>2, <4>4, <4>5
      <3>. QED BY <1>6, <3>1, <3>2 DEF GetExitCode
    <2>4. PICK c : /\ result' \in ResultsWith(c)
                   /\ bash = "error" => c = -1
                   /\ (bash = "success" /\ ~session.behind) => HoldsCode /\ c \in {session.code, -1}
      BY <2>3
    <2>5. PICK s \in BOOLEAN :
            /\ result' = [success |-> s, of |-> ncmd, tool |-> tool, behind |-> session.behind]
            /\ s => ToolSuccess(tool, bash, c)
      BY <2>2, <2>4 DEF ResultsWith, ToolSuccess
    <2>6. s => bash = "success" /\ (tool # "bash" => c = 0)
      BY <2>2, <2>5 DEF ToolSuccess
    <2>7. s /\ ~session.behind =>
            ncmd > 0 /\ ran[ncmd] \in {"ok", "nonzero"} /\ (tool # "bash" => ran[ncmd] = "ok")
      BY <2>2, <2>4, <2>6 DEF HoldsCode
    <2>8. BackendType'
      <3>1. session.behind \in BOOLEAN
        BY <2>2 DEF Sessions
      <3>. QED BY <1>0, <2>1, <2>2, <2>3, <2>5, <3>1 DEF BackendType
    <2>9. CommandInv'
      BY <2>1, <2>2 DEF CommandInv
    <2>10. ResultInv'
      BY <2>1, <2>2, <2>5, <2>7 DEF ResultInv
    <2>. QED BY <2>8, <2>9, <2>10 DEF MInv
  <1>7. CASE CallFails
    BY <1>0, <1>7 DEF MInv, BackendType, CommandInv, ResultInv, CallFails
  <1>8. CASE Destroy
    BY <1>0, <1>8 DEF MInv, BackendType, CommandInv, ResultInv, Destroy
  <1>9. CASE SandboxEnds
    <2>1. session' \in Sessions /\ sandbox' # "up"
      BY <1>a, <1>9 DEF SandboxEnds
    <2>. QED BY <1>0, <1>9, <2>1 DEF MInv, BackendType, CommandInv, ResultInv, SandboxEnds
  <1>. QED BY <1>1, <1>2, <1>3, <1>4, <1>5, <1>6, <1>7, <1>8, <1>9 DEF BackendNext

(***************************************************************************)
(* SuccessIsOwn: unless the session is behind a late start script, the     *)
(* exit code that decides on a success is that of the command, whatever    *)
(* calls were lost and whenever the sandbox ended.                         *)
(***************************************************************************)
THEOREM SuccessIsOfCommand == BackendSpec => []SuccessIsOwn
  <1>1. BackendInit => MInv
    BY DEF BackendInit, MInv, BackendType, CommandInv, ResultInv, NoSession, NoResult, Sessions
  <1>2. MInv /\ [BackendNext]_mvars => MInv'
    <2>1. MInv /\ UNCHANGED mvars => MInv'
      BY DEF MInv, BackendType, CommandInv, HoldsCode, ResultInv, mvars
    <2>. QED BY <2>1, BackendStep
  <1>3. MInv => SuccessIsOwn
    BY DEF MInv, ResultInv, CommandInv, SuccessIsOwn
  <1>. QED BY <1>1, <1>2, <1>3, PTL DEF BackendSpec

-----------------------------------------------------------------------------
(***************************************************************************)
(* Judging code: what the runner answers is right of the program, test by  *)
(* test, up to the first that is not.                                      *)
(***************************************************************************)
Loads == program.loads = "ok" /\ program.defines
Codes == {0, -1, -2, -4}
NVerdicts == Len(verdicts)

JudgeType ==
  /\ problem \in Problems /\ program \in CodesFor(problem) \cup {NoProgram}
  /\ steps \in Nat /\ verdicts \in Seq(Codes)
  /\ results \in Seq({"SUCCESS", "SYNTAX_ERROR", "FAILURE", "EXCEPTION", "TIMEOUT", "UNKNOWN"})

RunnerInv ==
  /\ judge = "wait" => program \in CodesFor(problem)
  /\ runner = "load" => verdicts = <<>>
  /\ runner = "test" => /\ Loads /\ NVerdicts < NTests
                        /\ \A k \in 1..NVerdicts : verdicts[k] = 0 /\ Right(k)
  /\ runner = "answered" =>
       \/ ~Loads /\ verdicts = <<-1>>
       \/ /\ Loads /\ NVerdicts \in 1..NTests
          /\ \A k \in 1..NVerdicts : verdicts[k] # -1 /\ (verdicts[k] = 0 => Right(k))
          /\ verdicts[NVerdicts] = 0 => NVerdicts = NTests
  /\ runner # "none" => judge = "wait"
  /\ judge = "wait" => runner # "none"

(* The results speak of the program that is judged. *)
ResultsInv ==
  results # <<>> =>
    /\ \A k \in DOMAIN results : results[k] = "SUCCESS" => Right(k)
    /\ AllSucceed(results) => Len(results) = NTests
    /\ (\E k \in DOMAIN results : results[k] = "SYNTAX_ERROR") => ~Loads

SaidInv == Judged => said = Outcomes

JInv == JudgeType /\ RunnerInv /\ ResultsInv /\ SaidInv

(* Two lines that agree have the same tokens, up to the way decimals are written. *)
LEMMA LinesAgree ==
  ASSUME NEW out \in Seq(STRING), NEW gt \in Seq(STRING), LineAgrees(out, gt)
  PROVE  Len(out) = Len(gt) /\ \A j \in DOMAIN gt : SameToken(out[j], gt[j])
  <1>1. CASE out = gt
    BY <1>1 DEF SameToken
  <1>2. CASE IsDecimal(out) /\ IsDecimal(gt) /\ Decimals(out) = Decimals(gt)
    <2>1. DOMAIN out = DOMAIN Decimals(out) /\ DOMAIN gt = DOMAIN Decimals(gt)
      BY DEF Decimals
    <2>2. DOMAIN out = DOMAIN gt
      BY <1>2, <2>1
    <2>3. Len(out) = Len(gt)
      BY <2>2
    <2>4. \A j \in DOMAIN gt : Number[out[j]] = Number[gt[j]]
      BY <1>2, <2>2 DEF Decimals
    <2>. QED BY <1>2, <2>2, <2>3, <2>4 DEF IsDecimal, SameToken
  <1>. QED BY <1>1, <1>2 DEF LineAgrees

(* A test that the runner accepts is right. *)
LEMMA AgreesIsRight ==
  ASSUME JudgeType, program \in CodesFor(problem), Loads, NEW k \in 1..NTests,
         Agrees(program.runs[k], problem.expected[k])
  PROVE  Right(k)
  <1>1. PICK out, gt : out = program.runs[k].out /\ gt = problem.expected[k]
    OBVIOUS
  <1>2. problem \in Problems /\ problem.expected \in Seq(OutputsOf(problem)) /\ NTests = Len(problem.expected)
    BY JudgeAssumption DEF JudgeType, NTests
  <1>3. program.runs \in Seq(RunsFor(problem)) /\ Len(program.runs) = Len(problem.expected)
    BY DEF CodesFor, Loads
  <1>4. gt \in OutputsOf(problem)
    BY <1>1, <1>2
  <1>5. program.runs[k] \in RunsFor(problem)
    BY <1>2, <1>3
  <1>6. out \in OutputsOf(problem)
    BY <1>1, <1>5 DEF RunsFor
  <1>7. CASE problem.fn
    <2>1. out \in [kind : STRING, items : Seq(STRING)] /\ gt \in [kind : STRING, items : Seq(STRING)]
      BY <1>4, <1>6, <1>7 DEF OutputsOf
    <2>2. ReturnsAgree(out, gt)
      BY <1>1, <1>7 DEF Agrees
    <2>3. PICK value : value = IF out.kind = "tuple" THEN [out EXCEPT !.kind = "list"] ELSE out
      OBVIOUS
    <2>4. value.items = out.items
      BY <2>1, <2>3
    <2>5. value = gt \/ (gt.kind = "list" /\ gt.items # <<>> /\ value = [kind |-> "atom", items |-> <<gt.items[1]>>])
      BY <2>2, <2>3 DEF ReturnsAgree
    <2>6. SameReturn(out, gt)
      <3>1. CASE value = gt
        BY <2>4, <3>1 DEF SameReturn
      <3>2. CASE gt.kind = "list" /\ gt.items # <<>> /\ value = [kind |-> "atom", items |-> <<gt.items[1]>>]
        <4>1. out.items = <<gt.items[1]>>
          BY <2>4, <3>2
        <4>2. PICK s \in Seq(STRING) : s = gt.items
          BY <2>1
        <4>3. SubSeq(s, 1, 1) = <<s[1]>>
          <5>1. Len(s) >= 1 /\ s[1] \in STRING
            BY <3>2, <4>2
          <5>2. PICK q : q = SubSeq(s, 1, 1)
            OBVIOUS
          <5>3. \A i \in 1..1 : s[i] \in STRING
            BY <5>1
          <5>4. q \in Seq(STRING) /\ Len(q) = 1 /\ q[1] = s[1]
            BY <5>2, <5>3, SubSeqProperties
          <5>5. q = <<s[1]>>
            BY <5>4
          <5>. QED BY <5>2, <5>5
        <4>. QED BY <3>2, <4>1, <4>2, <4>3 DEF SameReturn
      <3>. QED BY <2>5, <3>1, <3>2
    <2>. QED BY <1>1, <1>7, <2>6 DEF Right, Agrees, Loads
  <1>8. CASE ~problem.fn
    <2>1. out \in Seq(Seq(STRING)) /\ gt \in Seq(Seq(STRING))
      BY <1>4, <1>6, <1>8 DEF OutputsOf
    <2>2. Len(out) = Len(gt) /\ \A i \in DOMAIN gt : LineAgrees(out[i], gt[i])
      BY <1>1, <1>8 DEF Agrees, PrintsAgree
    <2>3. ASSUME NEW i \in DOMAIN gt
          PROVE  Len(out[i]) = Len(gt[i]) /\ \A j \in DOMAIN gt[i] : SameToken(out[i][j], gt[i][j])
      <3>1. out[i] \in Seq(STRING) /\ gt[i] \in Seq(STRING)
        BY <2>1, <2>2
      <3>. QED BY <2>2, <3>1, LinesAgree
    <2>4. SamePrint(out, gt)
      BY <2>2, <2>3 DEF SamePrint
    <2>. QED BY <1>1, <1>8, <2>4 DEF Right, Agrees, Loads
  <1>9. problem.fn \/ ~problem.fn
    OBVIOUS
  <1>. QED BY <1>7, <1>8, <1>9

(* Steps that leave the verdict and the program alone. *)
LEMMA KeptJudgement ==
  ASSUME JInv, UNCHANGED <<problem, program, results>>
  PROVE  ResultsInv' /\ \A k : Right(k)' = Right(k)
  <1>1. \A k : Right(k)' = Right(k)
    BY DEF Right, SameReturn, SamePrint, SameToken, Loads
  <1>2. Loads' = Loads /\ NTests' = NTests
    BY DEF Loads, NTests
  <1>. QED BY <1>1, <1>2 DEF JInv, ResultsInv, AllSucceed

(* A program that does not parse has no test run. *)
LEMMA CannotParseStep ==
  ASSUME JInv, NEW answer \in Answers[problem], CannotParse(answer)
  PROVE  JInv'
  <1>0. JudgeType /\ RunnerInv
    BY DEF JInv
  <1>1. /\ judge = "ask" /\ steps' = steps + 1 /\ judge' \in {"over", "ask"} /\ ~said'.parse
        /\ UNCHANGED <<problem, program, runner, elapsed, verdicts, results>>
    BY DEF CannotParse, Asked, Silent
  <1>2. ResultsInv' /\ SaidInv'
    BY <1>1, KeptJudgement DEF SaidInv, Judged
  <1>3. JudgeType'
    BY <1>0, <1>1 DEF JudgeType
  <1>4. RunnerInv'
    BY <1>0, <1>1 DEF RunnerInv
  <1>. QED BY <1>2, <1>3, <1>4 DEF JInv

(* A program is submitted. *)
LEMMA SubmitStep ==
  ASSUME JInv, NEW answer \in Answers[problem], Submit(answer)
  PROVE  JInv'
  <1>0. JudgeType
    BY DEF JInv
  <1>1. /\ judge' = "wait" /\ program' = Code(answer) /\ runner' = "load" /\ verdicts' = <<>>
        /\ results' = <<>> /\ steps' = steps + 1 /\ problem' = problem /\ HasCode(answer)
    BY DEF Submit
  <1>2. PICK C : C = Candidates(answer)
    OBVIOUS
  <1>3. /\ answer \in Seq([lang : STRING, code : CodesFor(problem)])
    BY <1>0, JudgeAssumption DEF JudgeType
  <1>4. C # {} /\ C \in SUBSET Nat /\ C \subseteq DOMAIN answer
    BY <1>1, <1>2, <1>3 DEF HasCode, Candidates, OfLanguage
  <1>5. \E i \in C : \A j \in C : i <= j
    BY <1>4, Smallest
  <1>6. Min(C) \in DOMAIN answer
    BY <1>4, <1>5 DEF Min
  <1>7. answer[Min(C)] \in [lang : STRING, code : CodesFor(problem)]
    <2>1. PICK i : i = Min(C)
      OBVIOUS
    <2>2. i \in DOMAIN answer
      BY <1>6, <2>1
    <2>3. answer[i] \in [lang : STRING, code : CodesFor(problem)]
      <3>1. PICK S : S = [lang : STRING, code : CodesFor(problem)]
        OBVIOUS
      <3>2. answer \in Seq(S)
        BY <1>3, <3>1
      <3>3. answer[i] \in S
        BY <2>2, <3>2
      <3>. QED BY <3>1, <3>3
    <2>. QED BY <2>1, <2>3
  <1>8. program' \in CodesFor(problem)
    BY <1>1, <1>2, <1>7 DEF Code
  <1>9. JudgeType'
    BY <1>0, <1>1, <1>8 DEF JudgeType
  <1>. QED BY <1>1, <1>8, <1>9 DEF JInv, RunnerInv, ResultsInv, SaidInv, Judged

(* A program is loaded in the child. *)
LEMMA LoadStep ==
  ASSUME JInv, Load
  PROVE  JInv'
  <1>0. JudgeType /\ RunnerInv
    BY DEF JInv
  <1>1. /\ runner = "load" /\ UNCHANGED <<problem, judge, steps, program, results, said>>
        /\ judge = "wait" /\ program \in CodesFor(problem) /\ verdicts = <<>>
    BY <1>0 DEF Load, RunnerInv
  <1>2. ResultsInv' /\ SaidInv'
    BY <1>1, KeptJudgement DEF SaidInv, Judged
  <1>3. program.loads \in {"ok", "error", "hang", "exit"} /\ program.defines \in BOOLEAN
    BY <1>1 DEF CodesFor
  <1>4. \/ runner' = "dead" /\ verdicts' = verdicts
        \/ runner' = "answered" /\ verdicts' = <<-1>> /\ ~Loads
        \/ runner' = "test" /\ verdicts' = verdicts /\ Loads
    BY <1>3 DEF Load, Dies, Answer, Loads
  <1>5. NTests > 0
    <2>1. problem.public \in 1..Len(problem.expected) /\ problem.expected \in Seq(OutputsOf(problem))
      BY <1>0, JudgeAssumption DEF JudgeType
    <2>. QED BY <2>1 DEF NTests
  <1>6. JudgeType' /\ Loads' = Loads
    <2>1. <<-1>> \in Seq(Codes)
      BY DEF Codes
    <2>2. verdicts' \in Seq(Codes)
      BY <1>0, <1>4, <2>1 DEF JudgeType
    <2>. QED BY <1>0, <1>1, <2>2 DEF JudgeType, Loads
  <1>7. RunnerInv'
    BY <1>1, <1>4, <1>5, <1>6 DEF RunnerInv, NVerdicts, NTests
  <1>. QED BY <1>2, <1>6, <1>7 DEF JInv

(* A test runs in the child. *)
LEMMA RunTestStep ==
  ASSUME JInv, RunTest
  PROVE  JInv'
  <1>0. JudgeType /\ RunnerInv
    BY DEF JInv
  <1>1. /\ runner = "test" /\ UNCHANGED <<problem, judge, steps, program, results, said>>
        /\ judge = "wait" /\ program \in CodesFor(problem)
        /\ Loads /\ NVerdicts < NTests /\ \A k \in 1..NVerdicts : verdicts[k] = 0 /\ Right(k)
    BY <1>0 DEF RunTest, RunnerInv
  <1>2. ResultsInv' /\ SaidInv' /\ \A k : Right(k)' = Right(k)
    BY <1>1, KeptJudgement DEF SaidInv, Judged
  <1>3. PICK n : n = Len(verdicts) + 1
    OBVIOUS
  <1>4. verdicts \in Seq(Codes) /\ NVerdicts \in Nat /\ NTests \in Nat /\ n \in 1..NTests /\ n = NVerdicts + 1
    <2>1. problem.expected \in Seq(OutputsOf(problem))
      BY <1>0, JudgeAssumption DEF JudgeType
    <2>2. verdicts \in Seq(Codes)
      BY <1>0 DEF JudgeType
    <2>3. NVerdicts \in Nat /\ NTests \in Nat
      BY <2>1, <2>2 DEF NVerdicts, NTests
    <2>. QED BY <1>1, <1>3, <2>2, <2>3 DEF NVerdicts
  <1>5. \/ runner' = "dead" /\ verdicts' = verdicts
        \/ \E c \in {-4, -2} : verdicts' = Append(verdicts, c) /\ runner' = "answered"
        \/ /\ verdicts' = Append(verdicts, 0) /\ Agrees(program.runs[n], problem.expected[n])
           /\ runner' = IF n = NTests THEN "answered" ELSE "test"
    BY <1>3 DEF RunTest, Dies, Answer
  <1>6. CASE runner' = "dead" /\ verdicts' = verdicts
    BY <1>0, <1>1, <1>2, <1>6 DEF JInv, JudgeType, RunnerInv
  <1>7. ASSUME NEW c \in Codes, verdicts' = Append(verdicts, c)
        PROVE  /\ JudgeType' /\ Len(verdicts') = n /\ verdicts'[n] = c
               /\ \A k \in 1..NVerdicts : verdicts'[k] = verdicts[k]
               /\ \A k \in 1..n : k \in 1..NVerdicts \/ k = n
    <2>1. verdicts' \in Seq(Codes) /\ Len(verdicts') = n /\ verdicts'[n] = c
          /\ \A k \in 1..NVerdicts : verdicts'[k] = verdicts[k]
      BY <1>3, <1>4, <1>7 DEF NVerdicts
    <2>. QED BY <1>0, <1>1, <1>4, <2>1 DEF JudgeType
  <1>8. Loads' = Loads /\ NTests' = NTests
    BY <1>1 DEF Loads, NTests
  <1>9. CASE \E c \in {-4, -2} : verdicts' = Append(verdicts, c) /\ runner' = "answered"
    <2>1. PICK c \in {-4, -2} : verdicts' = Append(verdicts, c) /\ runner' = "answered"
      BY <1>9
    <2>2. c \in Codes /\ c # 0 /\ c # -1
      BY DEF Codes
    <2>3. /\ JudgeType' /\ Len(verdicts') = n /\ verdicts'[n] = c
          /\ \A k \in 1..NVerdicts : verdicts'[k] = verdicts[k]
          /\ \A k \in 1..n : k \in 1..NVerdicts \/ k = n
      BY <1>7, <2>1, <2>2
    <2>4. \A k \in 1..n : verdicts'[k] # -1 /\ (verdicts'[k] = 0 => Right(k)')
      BY <1>1, <1>2, <2>2, <2>3
    <2>5. RunnerInv'
      BY <1>1, <1>4, <1>8, <2>1, <2>2, <2>3, <2>4 DEF RunnerInv, NVerdicts
    <2>. QED BY <1>2, <2>3, <2>5 DEF JInv
  <1>10. CASE /\ verdicts' = Append(verdicts, 0) /\ Agrees(program.runs[n], problem.expected[n])
              /\ runner' = IF n = NTests THEN "answered" ELSE "test"
    <2>1. Right(n)
      BY <1>0, <1>1, <1>4, <1>10, AgreesIsRight
    <2>2. 0 \in Codes
      BY DEF Codes
    <2>3. /\ JudgeType' /\ Len(verdicts') = n /\ verdicts'[n] = 0
          /\ \A k \in 1..NVerdicts : verdicts'[k] = verdicts[k]
          /\ \A k \in 1..n : k \in 1..NVerdicts \/ k = n
      BY <1>7, <1>10, <2>2
    <2>4. \A k \in 1..n : verdicts'[k] = 0 /\ Right(k)'
      BY <1>1, <1>2, <2>1, <2>3
    <2>5. RunnerInv'
      BY <1>1, <1>4, <1>8, <1>10, <2>3, <2>4 DEF RunnerInv, NVerdicts
    <2>. QED BY <1>2, <2>3, <2>5 DEF JInv
  <1>. QED BY <1>5, <1>6, <1>9, <1>10

(* A result is received, or the time is over. *)
LEMMA ReceiveStep ==
  ASSUME JInv, Receive
  PROVE  JInv'
  <1>0. JudgeType /\ RunnerInv
    BY DEF JInv
  <1>1. /\ judge = "wait" /\ runner \in {"answered", "dead"} /\ judge' = "judge" /\ runner' = "none"
        /\ results' = IF runner = "dead" THEN <<"FAILURE">>
                      ELSE [k \in DOMAIN verdicts |-> StatusOf(verdicts[k])]
        /\ UNCHANGED <<problem, steps, program, elapsed, verdicts, said>>
    BY DEF Receive
  <1>2. /\ \A k : Right(k)' = Right(k)
        /\ Loads' = Loads /\ NTests' = NTests
    BY <1>1 DEF Right, SameReturn, SamePrint, SameToken, Loads, NTests
  <1>3. /\ verdicts \in Seq(Codes) /\ DOMAIN verdicts = 1..NVerdicts /\ NVerdicts \in Nat
        /\ NTests \in Nat /\ NTests > 0
    <2>1. problem.expected \in Seq(OutputsOf(problem)) /\ problem.public \in 1..Len(problem.expected)
      BY <1>0, JudgeAssumption DEF JudgeType
    <2>2. verdicts \in Seq(Codes)
      BY <1>0 DEF JudgeType
    <2>. QED BY <2>1, <2>2 DEF NVerdicts, NTests
  <1>4. \A v \in Codes : /\ StatusOf(v) \in {"SUCCESS", "SYNTAX_ERROR", "FAILURE", "EXCEPTION"}
                         /\ StatusOf(v) = "SUCCESS" <=> v = 0
                         /\ StatusOf(v) = "SYNTAX_ERROR" <=> v = -1
    BY DEF Codes, StatusOf
  <1>5. /\ results' \in Seq({"SUCCESS", "SYNTAX_ERROR", "FAILURE", "EXCEPTION", "TIMEOUT", "UNKNOWN"})
        /\ ResultsInv'
    <2>1. CASE runner = "dead"
      <3>1. results' = <<"FAILURE">>
        BY <1>1, <2>1
      <3>. QED BY <3>1 DEF ResultsInv, AllSucceed
    <2>2. CASE runner = "answered"
      <3>1. results' = [k \in 1..NVerdicts |-> StatusOf(verdicts[k])]
        BY <1>1, <1>3, <2>2
      <3>2. \A k \in 1..NVerdicts : verdicts[k] \in Codes
        BY <1>3
      <3>3. results' \in Seq({"SUCCESS", "SYNTAX_ERROR", "FAILURE", "EXCEPTION", "TIMEOUT", "UNKNOWN"})
            /\ Len(results') = NVerdicts /\ DOMAIN results' = 1..NVerdicts
        BY <1>3, <1>4, <3>1, <3>2
      <3>4. \A k \in 1..NVerdicts : /\ results'[k] = "SUCCESS" <=> verdicts[k] = 0
                                    /\ results'[k] = "SYNTAX_ERROR" <=> verdicts[k] = -1
        BY <1>4, <3>1, <3>2
      <3>5. CASE ~Loads /\ verdicts = <<-1>>
        <4>1. NVerdicts = 1 /\ verdicts[1] = -1
          BY <3>5 DEF NVerdicts
        <4>. QED BY <1>2, <3>3, <3>4, <3>5, <4>1 DEF ResultsInv, AllSucceed
      <3>6. CASE /\ Loads /\ NVerdicts \in 1..NTests
                 /\ \A k \in 1..NVerdicts : verdicts[k] # -1 /\ (verdicts[k] = 0 => Right(k))
                 /\ verdicts[NVerdicts] = 0 => NVerdicts = NTests
        <4>1. NVerdicts \in 1..NVerdicts
          BY <1>3, <3>6
        <4>2. DOMAIN results' = 1..NVerdicts /\ Len(results') = NVerdicts
          BY <3>3
        <4>3. \A k \in 1..NVerdicts : results'[k] # "SYNTAX_ERROR" /\ (results'[k] = "SUCCESS" => Right(k))
          BY <3>4, <3>6
        <4>4. results'[NVerdicts] = "SUCCESS" => NVerdicts = NTests
          BY <1>3, <3>4, <3>6, <4>1
        <4>5. AllSucceed(results') => Len(results') = NTests
          BY <4>1, <4>2, <4>4 DEF AllSucceed
        <4>6. \A k \in DOMAIN results' : results'[k] = "SUCCESS" => Right(k)'
          BY <1>2, <4>2, <4>3
        <4>. QED BY <1>2, <3>3, <4>2, <4>3, <4>5, <4>6 DEF ResultsInv
      <3>. QED BY <1>0, <2>2, <3>3, <3>5, <3>6 DEF RunnerInv
    <2>. QED BY <1>1, <2>1, <2>2
  <1>6. JudgeType'
    BY <1>0, <1>1, <1>5 DEF JudgeType
  <1>. QED BY <1>1, <1>5, <1>6 DEF JInv, RunnerInv, SaidInv, Judged

(* The runner did not answer: nothing is claimed of the program. *)
LEMMA NoAnswerStep ==
  ASSUME JInv, PollTimesOut \/ ExecRaises
  PROVE  JInv'
  <1>0. JudgeType
    BY DEF JInv
  <1>1. PICK r \in {"TIMEOUT", "UNKNOWN"} : results' = <<r>>
    BY DEF PollTimesOut, ExecRaises
  <1>2. /\ judge' = "judge" /\ runner' = "none"
        /\ UNCHANGED <<problem, steps, program, elapsed, verdicts, said>>
    BY DEF PollTimesOut, ExecRaises
  <1>3. ResultsInv' /\ results' \in Seq({"SUCCESS", "SYNTAX_ERROR", "FAILURE", "EXCEPTION", "TIMEOUT", "UNKNOWN"})
    BY <1>1 DEF ResultsInv, AllSucceed
  <1>4. JudgeType'
    BY <1>0, <1>2, <1>3 DEF JudgeType
  <1>. QED BY <1>2, <1>3, <1>4 DEF JInv, RunnerInv, SaidInv, Judged

(* The results are judged. *)
LEMMA JudgeStep ==
  ASSUME JInv, Judge
  PROVE  JInv'
  <1>0. JudgeType /\ RunnerInv
    BY DEF JInv
  <1>1. /\ judge = "judge" /\ said' = Outcomes /\ judge' \in {"over", "ask"}
        /\ UNCHANGED <<problem, steps, program, runner, elapsed, verdicts, results>>
    BY DEF Judge
  <1>2. ResultsInv'
    BY <1>1, KeptJudgement
  <1>3. SaidInv'
    BY <1>1 DEF SaidInv, Outcomes, Public, AllSucceed
  <1>4. JudgeType' /\ RunnerInv'
    BY <1>0, <1>1 DEF JudgeType, RunnerInv
  <1>. QED BY <1>2, <1>3, <1>4 DEF JInv

(* The public results are the first ones. *)
LEMMA PublicFacts ==
  ASSUME JudgeType
  PROVE  /\ problem.public \in 1..NTests /\ NTests \in Nat /\ Len(results) \in Nat
         /\ \E n \in Nat : /\ n <= Len(results) /\ n <= problem.public
                           /\ n = Len(results) \/ n = problem.public
                           /\ Len(Public) = n /\ DOMAIN Public = 1..n
                           /\ \A k \in 1..n : Public[k] = results[k]
  <1>1. problem.public \in 1..NTests /\ NTests \in Nat
    <2>1. problem.expected \in Seq(OutputsOf(problem)) /\ problem.public \in 1..Len(problem.expected)
      BY JudgeAssumption DEF JudgeType
    <2>. QED BY <2>1 DEF NTests
  <1>2. PICK m : m = Len(results)
    OBVIOUS
  <1>3. /\ results \in Seq({"SUCCESS", "SYNTAX_ERROR", "FAILURE", "EXCEPTION", "TIMEOUT", "UNKNOWN"})
        /\ m \in Nat
    BY <1>2 DEF JudgeType
  <1>4. PICK n : n = Min({m, problem.public})
    OBVIOUS
  <1>5. n \in Nat /\ n <= m /\ n <= problem.public /\ n \in {m, problem.public}
    <2>1. \E x \in {m, problem.public} : \A y \in {m, problem.public} : x <= y
      BY <1>1, <1>3
    <2>2. n \in {m, problem.public} /\ \A y \in {m, problem.public} : n <= y
      BY <1>4, <2>1 DEF Min
    <2>. QED BY <1>1, <1>3, <2>2
  <1>6. Public = SubSeq(results, 1, n)
    BY <1>2, <1>4 DEF Public
  <1>7. Len(Public) = n /\ DOMAIN Public = 1..n /\ \A k \in 1..n : Public[k] = results[k]
    BY <1>2, <1>3, <1>5, <1>6
  <1>. QED BY <1>1, <1>2, <1>3, <1>5, <1>7

(***************************************************************************)
(* PassDeserved: code passes only when every test is right, and the public *)
(* verdict says no less of the public tests.                               *)
(***************************************************************************)
THEOREM PassIsDeserved == JudgeSpec => []PassDeserved
  <1>1. JudgeInit => JInv
    <2>. SUFFICES ASSUME JudgeInit PROVE JInv
      OBVIOUS
    <2>1. JudgeType
      BY DEF JudgeInit, JudgeType
    <2>. QED BY <2>1 DEF JudgeInit, JInv, RunnerInv, ResultsInv, SaidInv, Judged
  <1>2. JInv /\ [JudgeNext]_jvars => JInv'
    <2>1. JInv /\ UNCHANGED jvars => JInv'
      <3>. SUFFICES ASSUME JInv, UNCHANGED jvars PROVE JInv'
        OBVIOUS
      <3>1. UNCHANGED <<problem, judge, steps, program, runner, elapsed, verdicts, results, said>>
        BY DEF jvars
      <3>2. ResultsInv' /\ \A k : Right(k)' = Right(k)
        BY <3>1, KeptJudgement
      <3>3. JudgeType' /\ RunnerInv'
        BY <3>1, <3>2 DEF JInv, JudgeType, RunnerInv, Loads, NVerdicts, NTests
      <3>4. SaidInv'
        BY <3>1 DEF JInv, SaidInv, Judged, Outcomes, Public, AllSucceed
      <3>. QED BY <3>2, <3>3, <3>4 DEF JInv
    <2>. QED BY <2>1, CannotParseStep, SubmitStep, LoadStep, RunTestStep, ReceiveStep,
                NoAnswerStep, JudgeStep DEF JudgeNext
  <1>3. JInv => PassDeserved
    <2>. SUFFICES ASSUME JInv, Judged PROVE /\ said.pass => \A k \in 1..NTests : Right(k)
                                            /\ said.public => \A k \in 1..problem.public : Right(k)
                                            /\ said.pass => said.public
                                            /\ ~said.compile => \A k \in 1..NTests : ~Right(k)
      BY DEF PassDeserved
    <2>1. JudgeType /\ ResultsInv /\ said = Outcomes /\ results # <<>>
      BY DEF JInv, SaidInv, Judged
    <2>2. /\ said.pass = AllSucceed(results) /\ said.public = AllSucceed(Public)
          /\ said.compile = \A k \in DOMAIN results : results[k] # "SYNTAX_ERROR"
      BY <2>1 DEF Outcomes
    <2>3. DOMAIN results = 1..Len(results)
      BY <2>1 DEF JudgeType
    <2>4. PICK n \in Nat : /\ n <= Len(results) /\ n <= problem.public
                           /\ n = Len(results) \/ n = problem.public
                           /\ Len(Public) = n /\ DOMAIN Public = 1..n
                           /\ \A k \in 1..n : Public[k] = results[k]
      BY <2>1, PublicFacts
    <2>5. problem.public \in 1..NTests /\ NTests \in Nat /\ Len(results) \in Nat
      BY <2>1, PublicFacts
    <2>6. said.pass => \A k \in 1..NTests : Right(k)
      BY <2>1, <2>2, <2>3 DEF ResultsInv, AllSucceed
    <2>7. said.public => \A k \in 1..problem.public : Right(k)
      <3>. SUFFICES ASSUME AllSucceed(Public) PROVE \A k \in 1..problem.public : Right(k)
        BY <2>2
      <3>1. \A k \in 1..n : results[k] = "SUCCESS" /\ k \in DOMAIN results
        <4>1. \A k \in 1..n : k \in DOMAIN Public
          BY <2>4
        <4>2. \A k \in 1..n : Public[k] = "SUCCESS"
          BY <4>1 DEF AllSucceed
        <4>3. \A k \in 1..n : k \in 1..Len(results)
          BY <2>4, <2>5
        <4>. QED BY <2>3, <2>4, <4>2, <4>3
      <3>2. n = problem.public
        <4>1. CASE n = Len(results)
          <5>1. AllSucceed(results)
            BY <2>3, <3>1, <4>1 DEF AllSucceed
          <5>2. Len(results) = NTests
            BY <2>1, <5>1 DEF ResultsInv
          <5>. QED BY <2>4, <2>5, <4>1, <5>2
        <4>. QED BY <2>4, <4>1
      <3>. QED BY <2>1, <3>1, <3>2 DEF ResultsInv
    <2>8. said.pass => said.public
      <3>. SUFFICES ASSUME AllSucceed(results) PROVE AllSucceed(Public)
        BY <2>2
      <3>1. \A k \in 1..n : k \in 1..Len(results)
        BY <2>4, <2>5
      <3>2. \A k \in 1..n : results[k] = "SUCCESS"
        BY <2>3, <3>1 DEF AllSucceed
      <3>3. \A k \in 1..n : Public[k] = "SUCCESS"
        BY <2>4, <3>2
      <3>. QED BY <2>4, <3>3 DEF AllSucceed
    <2>9. ~said.compile => \A k \in 1..NTests : ~Right(k)
      BY <2>1, <2>2 DEF ResultsInv, Right, Loads
    <2>. QED BY <2>6, <2>7, <2>8, <2>9
  <1>. QED BY <1>1, <1>2, <1>3, PTL DEF JudgeSpec

-----------------------------------------------------------------------------
(***************************************************************************)
(* The evaluation of patches: a line of a key that is not known was        *)
(* written in this run, by one of the predictions recorded, and a          *)
(* prediction whose thread has begun has the known outcome or none is      *)
(* known.                                                                  *)
(***************************************************************************)
Stages == {"queued", "read", "create", "init", "apply", "run", "report", "returned", "recorded"}
Verdicts == {"none", "pass", "fail", "env_error", "timeout"}
Keys == {Key(j) : j \in Jobs}
LineRec == [key : Keys, outcome : Verdicts]

LinesType ==
  /\ dataset \in SUBSET Jobs
  /\ at \in [Jobs -> Stages] /\ outcome \in [Jobs -> Verdicts]
  /\ evalLines \in Seq(LineRec)
  /\ \A k \in DOMAIN known :
       known[k] \in Verdicts /\ \E n \in LinesOf(k) : evalLines[n].outcome = known[k]

KnownInv(j) ==
  \/ at[j] = "queued" \/ Key(j) \notin DOMAIN known
  \/ at[j] \in {"returned", "recorded"} /\ outcome[j] = known[Key(j)]

Written(key) == {i \in Sharing(key) : at[i] = "recorded"}
NewLines(j) ==
  Key(j) \notin DOMAIN known => Cardinality(LinesOf(Key(j))) <= Cardinality(Written(Key(j)))

LinesInv == (\A j \in Jobs : KnownInv(j)) /\ \A j \in dataset : NewLines(j)

LInv == LinesType /\ LinesInv /\ ResultsKept

(* A nonempty set of the first numbers has a largest one, which Max returns. *)
LEMMA LargestIsMax ==
  ASSUME NEW n \in Int, NEW s \in SUBSET (1..n), s # {}
  PROVE  Max(s) \in s
  <1>. DEFINE D == {n - x : x \in s}
  <1>1. D \in SUBSET Nat /\ D # {}
    <2>1. \A x \in s : n - x \in Nat
      OBVIOUS
    <2>. QED BY <2>1
  <1>2. PICK d \in D : \A y \in D : d <= y
    BY <1>1, Smallest
  <1>3. PICK m \in s : d = n - m
    BY <1>2
  <1>4. ASSUME NEW x \in s PROVE m >= x
    <2>1. n - m <= n - x
      BY <1>2, <1>3
    <2>2. m \in Int /\ x \in Int
      OBVIOUS
    <2>. QED BY <2>1, <2>2
  <1>. QED BY <1>4 DEF Max

(* The lines of a key are among the first numbers. *)
LEMMA LinesAreFinite ==
  ASSUME evalLines \in Seq(LineRec), NEW k
  PROVE  /\ Len(evalLines) \in Nat /\ DOMAIN evalLines = 1..Len(evalLines)
         /\ LinesOf(k) \in SUBSET (1..Len(evalLines)) /\ IsFiniteSet(LinesOf(k))
         /\ Cardinality(LinesOf(k)) \in Nat
  <1>1. Len(evalLines) \in Nat /\ DOMAIN evalLines = 1..Len(evalLines)
    BY LenProperties
  <1>2. LinesOf(k) \in SUBSET (1..Len(evalLines))
    BY <1>1 DEF LinesOf
  <1>3. IsFiniteSet(1..Len(evalLines))
    BY <1>1, FS_Interval
  <1>4. IsFiniteSet(LinesOf(k))
    BY <1>2, <1>3, FS_Subset
  <1>. QED BY <1>1, <1>2, <1>4, FS_CardinalityType

(* So are the predictions that were recorded among those of the dataset. *)
LEMMA SharesAreFinite ==
  ASSUME dataset \in SUBSET Jobs, NEW k
  PROVE  /\ IsFiniteSet(Sharing(k)) /\ IsFiniteSet(Written(k))
         /\ Cardinality(Sharing(k)) \in Nat /\ Cardinality(Written(k)) \in Nat
         /\ Cardinality(Written(k)) <= Cardinality(Sharing(k))
  <1>1. IsFiniteSet(Jobs)
    BY EvalAssumption
  <1>2. Sharing(k) \in SUBSET Jobs /\ Written(k) \in SUBSET Sharing(k)
    BY DEF Sharing, Written
  <1>3. IsFiniteSet(Sharing(k))
    BY <1>1, <1>2, FS_Subset
  <1>4. IsFiniteSet(Written(k)) /\ Cardinality(Written(k)) <= Cardinality(Sharing(k))
    BY <1>2, <1>3, FS_Subset
  <1>. QED BY <1>3, <1>4, FS_CardinalityType

(* A step of the thread of a prediction that is neither known nor written. *)
LEMMA ThreadStep ==
  ASSUME LInv, UNCHANGED <<dataset, evalLines, known>>, NEW j \in Jobs,
         NEW s \in Stages \ {"queued", "recorded"}, at' = [at EXCEPT ![j] = s],
         at[j] \notin {"returned", "recorded"}, at[j] = "queued" => Key(j) \notin DOMAIN known,
         NEW o \in Verdicts, outcome' = outcome \/ outcome' = [outcome EXCEPT ![j] = o]
  PROVE  LInv'
  <1>0. LinesType /\ LinesInv /\ ResultsKept
    BY DEF LInv
  <1>1. at'[j] = s /\ \A i \in Jobs : i # j => at'[i] = at[i] /\ outcome'[i] = outcome[i]
    BY <1>0 DEF LinesType
  <1>2. LinesType'
    <2>1. at' \in [Jobs -> Stages] /\ outcome' \in [Jobs -> Verdicts]
      BY <1>0 DEF LinesType
    <2>. QED BY <1>0, <2>1 DEF LinesType, LinesOf
  <1>3. \A i \in Jobs : KnownInv(i)'
    <2>1. KnownInv(j)'
      BY <1>0 DEF KnownInv, LinesInv
    <2>2. ASSUME NEW i \in Jobs, i # j PROVE KnownInv(i)'
      <3>1. KnownInv(i)
        BY <1>0 DEF LinesInv
      <3>. QED BY <1>1, <2>2, <3>1 DEF KnownInv
    <2>. QED BY <2>1, <2>2
  <1>4. \A i \in Jobs : at'[i] = "recorded" <=> at[i] = "recorded"
    BY <1>1
  <1>5. \A i \in dataset : NewLines(i)'
    <2>1. dataset \subseteq Jobs
      BY <1>0 DEF LinesType
    <2>2. \A k : Written(k)' = Written(k) /\ LinesOf(k)' = LinesOf(k)
      BY <1>4, <2>1 DEF Written, Sharing, LinesOf
    <2>. QED BY <1>0, <2>2 DEF LinesInv, NewLines
  <1>6. ResultsKept'
    <2>1. \A i \in dataset : at'[i] = "recorded" => at[i] = "recorded" /\ outcome'[i] = outcome[i]
      BY <1>0, <1>1, <1>4 DEF LinesType
    <2>2. \A k : Sharing(k)' = Sharing(k) /\ LinesOf(k)' = LinesOf(k)
      BY DEF Sharing, LinesOf
    <2>. QED BY <1>0, <2>1, <2>2 DEF ResultsKept
  <1>. QED BY <1>2, <1>3, <1>5, <1>6 DEF LInv, LinesInv

(* A result that was logged is read again. *)
LEMMA CachedStep ==
  ASSUME LInv, NEW j \in Jobs, Cached(j), UNCHANGED dataset
  PROVE  LInv'
  <1>0. LinesType /\ LinesInv /\ ResultsKept
    BY DEF LInv
  <1>1. PICK o : o = known[Key(j)]
    OBVIOUS
  <1>2. /\ Key(j) \in DOMAIN known /\ outcome' = [outcome EXCEPT ![j] = o] /\ o \in Verdicts
        /\ at[j] = "queued" /\ at' = [at EXCEPT ![j] = "returned"] /\ UNCHANGED <<evalLines, known>>
    BY <1>0, <1>1 DEF Cached, Goes, LinesType
  <1>4. /\ at'[j] = "returned" /\ outcome'[j] = o
        /\ \A i \in Jobs : i # j => at'[i] = at[i] /\ outcome'[i] = outcome[i]
    BY <1>0, <1>2 DEF LinesType
  <1>5. LinesType'
    <2>1. at' \in [Jobs -> Stages]
      BY <1>0, <1>2 DEF LinesType, Stages
    <2>2. outcome' \in [Jobs -> Verdicts]
      BY <1>0, <1>2 DEF LinesType
    <2>. QED BY <1>0, <1>2, <2>1, <2>2 DEF LinesType, LinesOf
  <1>6. \A i \in Jobs : KnownInv(i)'
    <2>1. KnownInv(j)'
      BY <1>1, <1>2, <1>4 DEF KnownInv
    <2>2. ASSUME NEW i \in Jobs, i # j PROVE KnownInv(i)'
      <3>1. KnownInv(i)
        BY <1>0 DEF LinesInv
      <3>. QED BY <1>2, <1>4, <2>2, <3>1 DEF KnownInv
    <2>. QED BY <2>1, <2>2
  <1>7. \A i \in Jobs : at'[i] = "recorded" <=> at[i] = "recorded"
    BY <1>2, <1>4
  <1>8. \A i \in dataset : NewLines(i)'
    <2>1. dataset \subseteq Jobs
      BY <1>0 DEF LinesType
    <2>2. \A k : Written(k)' = Written(k) /\ LinesOf(k)' = LinesOf(k)
      BY <1>2, <1>7, <2>1 DEF Written, Sharing, LinesOf
    <2>. QED BY <1>0, <1>2, <2>2 DEF LinesInv, NewLines
  <1>9. ResultsKept'
    <2>1. \A i \in dataset : at'[i] = "recorded" => at[i] = "recorded" /\ outcome'[i] = outcome[i]
      BY <1>0, <1>4, <1>7 DEF LinesType
    <2>2. \A k : Sharing(k)' = Sharing(k) /\ LinesOf(k)' = LinesOf(k)
      BY <1>2 DEF Sharing, LinesOf
    <2>. QED BY <1>0, <1>2, <2>1, <2>2 DEF ResultsKept
  <1>. QED BY <1>0, <1>2, <1>5, <1>6, <1>8, <1>9 DEF LInv, LinesInv

(* The lines of each key after one line more. *)
LEMMA LineMore ==
  ASSUME evalLines \in Seq(LineRec), NEW e \in LineRec, evalLines' = Append(evalLines, e), NEW k
  PROVE  LET new == Len(evalLines) + 1
         IN /\ new \notin LinesOf(k) /\ evalLines'[new] = e
            /\ LinesOf(k)' = IF k = e.key THEN LinesOf(k) \cup {new} ELSE LinesOf(k)
            /\ \A i \in LinesOf(k) : evalLines'[i] = evalLines[i]
  <1>1. PICK n : n = Len(evalLines)
    OBVIOUS
  <1>2. /\ n \in Nat /\ DOMAIN evalLines = 1..n /\ DOMAIN evalLines' = 1..(n + 1)
        /\ evalLines'[n + 1] = e /\ \A i \in 1..n : evalLines'[i] = evalLines[i]
    BY <1>1
  <1>3. n + 1 \notin LinesOf(k)
    BY <1>2 DEF LinesOf
  <1>4. \A i : i \in 1..(n + 1) <=> i \in 1..n \/ i = n + 1
    BY <1>2
  <1>5. LinesOf(k)' = IF k = e.key THEN LinesOf(k) \cup {n + 1} ELSE LinesOf(k)
    <2>1. \A i : i \in LinesOf(k)' <=> i \in LinesOf(k) \/ (i = n + 1 /\ k = e.key)
      BY <1>2, <1>3, <1>4 DEF LinesOf
    <2>. QED BY <2>1
  <1>6. \A i \in LinesOf(k) : evalLines'[i] = evalLines[i]
    BY <1>2 DEF LinesOf
  <1>. QED BY <1>1, <1>2, <1>3, <1>5, <1>6

(* main() writes the line of a prediction that was not known. *)
LEMMA RecordStep ==
  ASSUME LInv, NEW j \in dataset, Record(j), UNCHANGED dataset
  PROVE  LInv'
  <1>0. LinesType /\ LinesInv /\ ResultsKept /\ j \in Jobs /\ dataset \subseteq Jobs
    BY DEF LInv, LinesType
  <1>1. at[j] = "returned" /\ at' = [at EXCEPT ![j] = "recorded"] /\ UNCHANGED <<outcome, known>>
    BY DEF Record, Goes
  <1>2. at'[j] = "recorded" /\ \A i \in Jobs : i # j => at'[i] = at[i]
    BY <1>0, <1>1 DEF LinesType
  <1>3. \A i \in Jobs : KnownInv(i)'
    <2>1. ASSUME NEW i \in Jobs PROVE KnownInv(i)'
      <3>1. KnownInv(i)
        BY <1>0 DEF LinesInv
      <3>2. CASE i = j
        BY <1>1, <1>2, <3>1, <3>2 DEF KnownInv
      <3>3. CASE i # j
        BY <1>1, <1>2, <3>1, <3>3 DEF KnownInv
      <3>. QED BY <3>2, <3>3
    <2>. QED BY <2>1
  <1>4. at' \in [Jobs -> Stages]
    BY <1>0, <1>1 DEF LinesType, Stages
  <1>5. \A k : Sharing(k)' = Sharing(k)
    BY DEF Sharing
  <1>6. \A k : Written(k)' = IF k = Key(j) THEN Written(k) \cup {j} ELSE Written(k)
    <2>1. ASSUME NEW k, NEW i PROVE i \in Written(k)' <=> i \in Written(k) \/ (i = j /\ k = Key(j))
      <3>1. CASE i = j
        BY <1>1, <1>2, <3>1 DEF Written, Sharing
      <3>2. CASE i # j
        BY <1>0, <1>2, <3>2 DEF Written, Sharing
      <3>. QED BY <3>1, <3>2
    <2>. QED BY <2>1
  <1>7. CASE Key(j) \in DOMAIN known
    <2>1. evalLines' = evalLines
      BY <1>7 DEF Record
    <2>2. \A k : LinesOf(k)' = LinesOf(k)
      BY <2>1 DEF LinesOf
    <2>3. \E n \in LinesOf(Key(j)) : evalLines[n].outcome = outcome[j]
      <3>1. KnownInv(j)
        BY <1>0 DEF LinesInv
      <3>2. outcome[j] = known[Key(j)]
        BY <1>1, <1>7, <3>1 DEF KnownInv
      <3>. QED BY <1>0, <1>7, <3>2 DEF LinesType
    <2>4. ResultsKept'
      <3>1. ASSUME NEW i \in dataset, at'[i] = "recorded"
            PROVE  \E n \in LinesOf(Key(i)) : evalLines[n].outcome = outcome[i]
        <4>1. CASE i = j
          BY <2>3, <4>1
        <4>2. CASE i # j
          <5>1. at[i] = "recorded"
            BY <1>0, <1>2, <3>1, <4>2
          <5>. QED BY <1>0, <5>1 DEF ResultsKept
        <4>. QED BY <4>1, <4>2
      <3>2. \A i \in dataset : Cardinality(LinesOf(Key(i))) <= Cardinality(Sharing(Key(i)))
        BY <1>0 DEF ResultsKept
      <3>. QED BY <1>1, <1>5, <2>1, <2>2, <3>1, <3>2 DEF ResultsKept
    <2>5. \A i \in dataset : NewLines(i)'
      <3>1. ASSUME NEW i \in dataset, Key(i) \notin DOMAIN known
            PROVE  Written(Key(i))' = Written(Key(i))
        BY <1>6, <1>7, <3>1
      <3>. QED BY <1>0, <1>1, <2>2, <3>1 DEF LinesInv, NewLines
    <2>6. LinesType'
      BY <1>0, <1>1, <1>4, <2>1, <2>2 DEF LinesType
    <2>. QED BY <1>3, <2>4, <2>5, <2>6 DEF LInv, LinesInv
  <1>8. CASE Key(j) \notin DOMAIN known
    <2>1. PICK e, new : e = [key |-> Key(j), outcome |-> outcome[j]] /\ new = Len(evalLines) + 1
      OBVIOUS
    <2>2. evalLines' = Append(evalLines, e)
      BY <1>8, <2>1 DEF Record
    <2>3. e \in LineRec /\ e.key = Key(j) /\ e.outcome = outcome[j] /\ evalLines \in Seq(LineRec)
      BY <1>0, <2>1 DEF LinesType, LineRec, Keys
    <2>4. ASSUME NEW k
          PROVE  /\ new \notin LinesOf(k) /\ evalLines'[new] = e
                 /\ LinesOf(k)' = IF k = Key(j) THEN LinesOf(k) \cup {new} ELSE LinesOf(k)
                 /\ \A i \in LinesOf(k) : evalLines'[i] = evalLines[i]
      BY <2>1, <2>2, <2>3, LineMore
    <2>5. Cardinality(LinesOf(Key(j))') <= Cardinality(Written(Key(j))')
      <3>1. PICK L, W : L = LinesOf(Key(j)) /\ W = Written(Key(j))
        OBVIOUS
      <3>2. IsFiniteSet(L) /\ Cardinality(L) \in Nat /\ IsFiniteSet(W) /\ Cardinality(W) \in Nat
        BY <1>0, <2>3, <3>1, LinesAreFinite, SharesAreFinite
      <3>3. new \notin L /\ j \notin W
        BY <1>1, <2>4, <3>1 DEF Written
      <3>4. LinesOf(Key(j))' = L \cup {new} /\ Written(Key(j))' = W \cup {j}
        BY <1>6, <2>4, <3>1
      <3>5. Cardinality(L \cup {new}) = Cardinality(L) + 1
        BY <3>2, <3>3, FS_AddElement
      <3>6. Cardinality(W \cup {j}) = Cardinality(W) + 1
        BY <3>2, <3>3, FS_AddElement
      <3>7. Cardinality(L) <= Cardinality(W)
        BY <1>0, <1>8, <3>1 DEF LinesInv, NewLines
      <3>. QED BY <3>2, <3>4, <3>5, <3>6, <3>7
    <2>6. \A i \in dataset : NewLines(i)'
      <3>1. ASSUME NEW i \in dataset, Key(i) \notin DOMAIN known
            PROVE  Cardinality(LinesOf(Key(i))') <= Cardinality(Written(Key(i))')
        <4>1. CASE Key(i) = Key(j)
          BY <2>5, <4>1
        <4>2. CASE Key(i) # Key(j)
          <5>1. LinesOf(Key(i))' = LinesOf(Key(i)) /\ Written(Key(i))' = Written(Key(i))
            BY <1>6, <2>4, <4>2
          <5>. QED BY <1>0, <3>1, <5>1 DEF LinesInv, NewLines
        <4>. QED BY <4>1, <4>2
      <3>. QED BY <1>1, <3>1 DEF NewLines
    <2>7. LinesType'
      <3>1. evalLines' \in Seq(LineRec)
        BY <2>2, <2>3
      <3>2. ASSUME NEW k \in DOMAIN known
            PROVE  known[k] \in Verdicts /\ \E n \in LinesOf(k)' : evalLines'[n].outcome = known[k]
        <4>1. PICK n \in LinesOf(k) : evalLines[n].outcome = known[k]
          BY <1>0, <3>2 DEF LinesType
        <4>2. n \in LinesOf(k)' /\ evalLines'[n] = evalLines[n]
          BY <2>4, <4>1
        <4>. QED BY <1>0, <3>2, <4>1, <4>2 DEF LinesType
      <3>. QED BY <1>0, <1>1, <1>4, <3>1, <3>2 DEF LinesType
    <2>8. ResultsKept'
      <3>1. ASSUME NEW i \in dataset
            PROVE  Cardinality(LinesOf(Key(i))') <= Cardinality(Sharing(Key(i))')
        <4>1. CASE Key(i) = Key(j)
          <5>1. PICK a, b, c : /\ a = Cardinality(LinesOf(Key(j))') /\ b = Cardinality(Written(Key(j))')
                               /\ c = Cardinality(Sharing(Key(j)))
            OBVIOUS
          <5>2. Written(Key(j))' \in SUBSET Sharing(Key(j)) /\ IsFiniteSet(Sharing(Key(j)))
            BY <1>0, <1>5, SharesAreFinite DEF Written
          <5>3. b <= c /\ b \in Nat /\ c \in Nat
            BY <5>1, <5>2, FS_Subset, FS_CardinalityType
          <5>4. a <= b /\ a \in Nat
            <6>1. LinesOf(Key(j))' = LinesOf(Key(j)) \cup {new} /\ IsFiniteSet(LinesOf(Key(j)))
              BY <2>3, <2>4, LinesAreFinite
            <6>. QED BY <2>5, <5>1, <6>1, FS_AddElement, FS_CardinalityType
          <5>5. a <= c
            BY <5>3, <5>4
          <5>. QED BY <1>5, <4>1, <5>1, <5>5
        <4>2. CASE Key(i) # Key(j)
          <5>1. LinesOf(Key(i))' = LinesOf(Key(i))
            BY <2>4, <4>2
          <5>. QED BY <1>0, <1>5, <5>1 DEF ResultsKept
        <4>. QED BY <4>1, <4>2
      <3>2. ASSUME NEW i \in dataset, at'[i] = "recorded"
            PROVE  \E n \in LinesOf(Key(i))' : evalLines'[n].outcome = outcome[i]
        <4>1. CASE i = j
          <5>1. new \in LinesOf(Key(i))' /\ evalLines'[new].outcome = outcome[i]
            BY <2>3, <2>4, <4>1
          <5>. QED BY <5>1
        <4>2. CASE i # j
          <5>1. at[i] = "recorded"
            BY <1>0, <1>2, <3>2, <4>2
          <5>2. PICK n \in LinesOf(Key(i)) : evalLines[n].outcome = outcome[i]
            BY <1>0, <5>1 DEF ResultsKept
          <5>3. n \in LinesOf(Key(i))' /\ evalLines'[n] = evalLines[n]
            BY <2>4, <5>2
          <5>. QED BY <5>2, <5>3
        <4>. QED BY <4>1, <4>2
      <3>. QED BY <1>1, <3>1, <3>2 DEF ResultsKept
    <2>. QED BY <1>3, <2>6, <2>7, <2>8 DEF LInv, LinesInv
  <1>. QED BY <1>7, <1>8

(* An instance whose result is missing is run again. *)
LEMMA RunAgainStep ==
  ASSUME LInv, RunAgain
  PROVE  LInv'
  <1>0. LinesType /\ LinesInv /\ ResultsKept
    BY DEF LInv
  <1>1. /\ at' = [j \in Jobs |-> "queued"] /\ outcome' = [j \in Jobs |-> "none"]
        /\ known' = [key \in {r.key : r \in ToSet(evalLines)} |-> evalLines[Max(LinesOf(key))].outcome]
        /\ UNCHANGED <<dataset, evalLines>>
    BY DEF RunAgain, Forget
  <1>2. evalLines \in Seq(LineRec) /\ \A k : LinesOf(k)' = LinesOf(k)
    BY <1>0, <1>1 DEF LinesType, LinesOf
  <1>3. \A k : k \in DOMAIN known' <=> LinesOf(k) # {}
    BY <1>1 DEF LinesOf, ToSet
  <1>4. ASSUME NEW k \in DOMAIN known'
        PROVE  known'[k] \in Verdicts /\ \E n \in LinesOf(k) : evalLines[n].outcome = known'[k]
    <2>1. PICK n : n = Max(LinesOf(k))
      OBVIOUS
    <2>2. known'[k] = evalLines[n].outcome
      BY <1>1, <1>4, <2>1
    <2>3. LinesOf(k) \in SUBSET (1..Len(evalLines)) /\ Len(evalLines) \in Int
      BY <1>2, LinesAreFinite
    <2>4. n \in LinesOf(k)
      BY <1>3, <1>4, <2>1, <2>3, LargestIsMax
    <2>5. evalLines[n] \in LineRec
      BY <1>2, <2>4 DEF LinesOf
    <2>. QED BY <2>2, <2>4, <2>5 DEF LineRec
  <1>5. LinesType'
    BY <1>0, <1>1, <1>2, <1>4 DEF LinesType, Stages, Verdicts
  <1>6. \A j \in Jobs : KnownInv(j)'
    BY <1>1 DEF KnownInv
  <1>7. \A j \in dataset : NewLines(j)'
    <2>1. ASSUME NEW j \in dataset, Key(j) \notin DOMAIN known'
          PROVE  Cardinality(LinesOf(Key(j))') <= Cardinality(Written(Key(j))')
      <3>1. PICK w : w = Written(Key(j))'
        OBVIOUS
      <3>2. w = {}
        BY <1>0, <1>1, <3>1 DEF Written, Sharing, LinesType
      <3>3. LinesOf(Key(j))' = {}
        BY <1>2, <1>3, <2>1
      <3>4. Cardinality({}) = 0
        BY FS_EmptySet
      <3>. QED BY <3>1, <3>2, <3>3, <3>4
    <2>. QED BY <1>1, <2>1 DEF NewLines
  <1>8. ResultsKept'
    BY <1>0, <1>1, <1>2 DEF LinesType, ResultsKept, Sharing
  <1>. QED BY <1>1, <1>5, <1>6, <1>7, <1>8 DEF LInv, LinesInv

(* Whatever the thread does between its start and its return. *)
LEMMA JobStep ==
  ASSUME LInv, NEW j \in Jobs, UNCHANGED dataset,
         \/ WritePatch(j) \/ ReadPatch(j) \/ Create(j) \/ InitCommands(j) \/ EnvError(j)
         \/ ApplyPatch(j) \/ NotApplied(j) \/ RunScript(j) \/ MakeReport(j)
  PROVE  LInv'
  <1>1. UNCHANGED <<evalLines, known>>
    BY DEF WritePatch, ReadPatch, Create, InitCommands, EnvError, ApplyPatch, NotApplied, RunScript,
           MakeReport
  <1>2. at[j] \notin {"returned", "recorded"} /\ (at[j] = "queued" => Key(j) \notin DOMAIN known)
    BY DEF WritePatch, ReadPatch, Create, InitCommands, EnvError, ApplyPatch, NotApplied, RunScript,
           MakeReport, Goes
  <1>3. \/ UNCHANGED <<at, outcome>>
        \/ \E s \in Stages \ {"queued", "recorded"}, o \in Verdicts :
             /\ at' = [at EXCEPT ![j] = s]
             /\ outcome' = outcome \/ outcome' = [outcome EXCEPT ![j] = o]
    <2>1. CASE WritePatch(j) \/ ReadPatch(j) \/ Create(j)
      <3>1. outcome' = outcome /\ \E s \in {"read", "create", "init", "apply"} : at' = [at EXCEPT ![j] = s]
        BY <2>1 DEF WritePatch, ReadPatch, Create, Goes
      <3>. QED BY <3>1 DEF Stages, Verdicts
    <2>2. CASE InitCommands(j) \/ EnvError(j) \/ NotApplied(j) \/ RunScript(j)
      <3>1. \E s \in {"apply", "report", "returned"}, o \in {"env_error", "fail", "timeout"} :
             /\ at' = [at EXCEPT ![j] = s]
             /\ outcome' = outcome \/ outcome' = [outcome EXCEPT ![j] = o]
        BY <2>2 DEF InitCommands, EnvError, NotApplied, RunScript, Goes, Returns, WriteLog
      <3>. QED BY <3>1 DEF Stages, Verdicts
    <2>3. CASE ApplyPatch(j)
      <3>1. outcome' = outcome /\ (at' = at \/ at' = [at EXCEPT ![j] = "run"])
        BY <2>3 DEF ApplyPatch, Goes
      <3>. QED BY <3>1 DEF Stages, Verdicts
    <2>4. CASE MakeReport(j)
      <3>1. Verdict(j) \in Verdicts
        BY DEF Verdict, Verdicts
      <3>2. at' = [at EXCEPT ![j] = "returned"] /\ outcome' = [outcome EXCEPT ![j] = Verdict(j)]
        BY <2>4 DEF MakeReport, Returns
      <3>. QED BY <3>1, <3>2 DEF Stages
    <2>. QED BY <2>1, <2>2, <2>3, <2>4
  <1>4. CASE UNCHANGED <<at, outcome>>
    <2>1. LinesType' /\ LinesInv' /\ ResultsKept'
      BY <1>1, <1>4
      DEF LInv, LinesType, LinesInv, KnownInv, NewLines, Written, ResultsKept, Sharing, LinesOf
    <2>. QED BY <2>1 DEF LInv
  <1>5. CASE \E s \in Stages \ {"queued", "recorded"}, o \in Verdicts :
               /\ at' = [at EXCEPT ![j] = s]
               /\ outcome' = outcome \/ outcome' = [outcome EXCEPT ![j] = o]
    BY <1>1, <1>2, <1>5, ThreadStep
  <1>. QED BY <1>3, <1>4, <1>5

(***************************************************************************)
(* ResultsKept: eval.jsonl has no more lines of an instance and a patch    *)
(* than the dataset has predictions with them, and one with the outcome of *)
(* each prediction that is counted, however often eval_cli is killed       *)
(* between the end of a thread and its line, and started again.            *)
(***************************************************************************)
THEOREM ResultsAreKept == EvalSpec => []ResultsKept
  <1>1. EvalInit => LInv
    <2>1. SUFFICES ASSUME EvalInit PROVE LInv
      OBVIOUS
    <2>2. /\ at = [j \in Jobs |-> "queued"] /\ outcome = [j \in Jobs |-> "none"]
          /\ evalLines = <<>> /\ known = <<>> /\ dataset \in SUBSET Jobs
      BY <2>1, EvalAssumption DEF EvalInit
    <2>3. \A k : LinesOf(k) = {}
      BY <2>2 DEF LinesOf
    <2>4. LinesType /\ \A j \in Jobs : KnownInv(j)
      BY <2>2 DEF LinesType, KnownInv, Stages, Verdicts
    <2>5. \A k : Cardinality(LinesOf(k)) <= Cardinality(Sharing(k))
                /\ Cardinality(LinesOf(k)) <= Cardinality(Written(k))
      <3>1. ASSUME NEW k
            PROVE  Cardinality(LinesOf(k)) = 0
                   /\ Cardinality(Sharing(k)) \in Nat /\ Cardinality(Written(k)) \in Nat
        BY <2>2, <2>3, FS_EmptySet, SharesAreFinite
      <3>. QED BY <3>1
    <2>6. \A j \in dataset : NewLines(j)
      BY <2>5 DEF NewLines
    <2>7. ResultsKept
      BY <2>2, <2>5 DEF ResultsKept
    <2>. QED BY <2>4, <2>6, <2>7 DEF LInv, LinesInv
  <1>2. LInv /\ [EvalNext]_evars => LInv'
    <2>1. LInv /\ UNCHANGED evars => LInv'
      BY DEF LInv, LinesType, LinesInv, KnownInv, NewLines, Written, ResultsKept, Sharing, LinesOf, evars
    <2>2. LInv /\ RunAgain => LInv'
      BY RunAgainStep
    <2>3. ASSUME LInv, NEW j \in dataset, EvalJob(j), UNCHANGED dataset PROVE LInv'
      <3>1. j \in Jobs
        BY <2>3 DEF LInv, LinesType
      <3>. QED BY <2>3, <3>1, CachedStep, RecordStep, JobStep DEF EvalJob
    <2>. QED BY <2>1, <2>2, <2>3 DEF EvalNext
  <1>. QED BY <1>1, <1>2, PTL DEF EvalSpec, LInv

=============================================================================
