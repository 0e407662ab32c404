---------------------------- MODULE FoldProofs ----------------------------
(***************************************************************************)
(* Proofs about the parts whose state is summed, joined or folded from     *)
(* sequences of any length, for every value of their constants: the split  *)
(* of a prefill into calls, the trajectory of an episode, the verdict that *)
(* a parser reads from a log, and the conversation a prompt repeats.       *)
(*                                                                         *)
(* What a fold returns follows from the recursive function it is defined   *)
(* by.  That there is such a function, and what its values are, is shown   *)
(* by induction on the number of elements, which Smallest stands for.      *)
(***************************************************************************)
EXTENDS PrefillChunks, Trajectory, SweEval, Serving, SequenceTheorems, FiniteSetTheorems,
        WellFoundedInduction, TLAPS

-----------------------------------------------------------------------------
(* Induction on numbers, and the recursive functions behind folds. *)

(* A nonempty set of numbers has a smallest one. *)
LEMMA Smallest ==
  ASSUME NEW S \in SUBSET Nat, S # {}
  PROVE  \E x \in S : \A y \in S : x <= y
  <1>. DEFINE R == OpToRel(<, Nat)
  <1>1. IsWellFoundedOn(R, Nat)
    BY NatLessThanWellFounded
  <1>2. \A x, y \in Nat : y < x => <<y, x>> \in R
    BY DEF OpToRel
  <1>. HIDE DEF R
  <1>3. PICK x \in S : \A y \in S : <<y, x>> \notin R
    BY <1>1, WFMin
  <1>4. \A y \in S : x <= y
    <2>. SUFFICES ASSUME NEW y \in S PROVE x <= y
      OBVIOUS
    <2>1. x \in Nat /\ y \in Nat
      OBVIOUS
    <2>2. ~(y < x)
      BY <1>2, <1>3, <2>1
    <2>. QED BY <2>1, <2>2
  <1>. QED BY <1>4

(* A set of numbers that has 0 and with every number the next has them all. *)
LEMMA Induct ==
  ASSUME NEW S, 0 \in S, \A k \in Nat : k \in S => k + 1 \in S
  PROVE  \A k \in Nat : k \in S
  <1>. DEFINE U == {k \in Nat : k \notin S}
  <1>1. ASSUME U # {} PROVE FALSE
    <2>1. PICK x \in U : \A y \in U : x <= y
      BY <1>1, Smallest
    <2>2. x \in Nat /\ x # 0 /\ x \notin S
      BY <2>1
    <2>3. x - 1 \in Nat /\ (x - 1) + 1 = x /\ ~(x <= x - 1)
      BY <2>2
    <2>4. x - 1 \in S
      BY <2>1, <2>3
    <2>. QED BY <2>2, <2>3, <2>4
  <1>. QED BY <1>1

(* A nonempty set of the first numbers has a largest one, which Max returns. *)
LEMMA MaxFacts ==
  ASSUME NEW n \in Int, NEW s \in SUBSET (1..n), s # {}
  PROVE  Max(s) \in s /\ \A x \in s : x <= Max(s)
  <1>. DEFINE D == {n - x : x \in s}
  <1>1. D \in SUBSET Nat /\ D # {}
    <2>1. \A x \in s : n - x \in Nat
      OBVIOUS
    <2>. QED BY <2>1
  <1>2. PICK d \in D : \A y \in D : d <= y
    BY <1>1, Smallest
  <1>3. PICK m \in s : d = n - m
    BY <1>2
  <1>4. \A x \in s : m >= x
    <2>. SUFFICES ASSUME NEW x \in s PROVE m >= x
      OBVIOUS
    <2>1. n - m <= n - x
      BY <1>2, <1>3
    <2>2. m \in Int /\ x \in Int
      OBVIOUS
    <2>. QED BY <2>1, <2>2
  <1>5. Max(s) \in s /\ \A x \in s : Max(s) >= x
    BY <1>4 DEF Max
  <1>. QED BY <1>5

(* The recursive functions by which n elements are folded from the left. *)
FoldsOf(n, T, base, step) ==
  {f \in [SUBSET (1..n) -> T] :
     \A s \in SUBSET (1..n) :
       f[s] = IF s = {} THEN base ELSE step[<<f[s \ {Max(s)}], Max(s)>>]}

(* There is one. *)
LEMMA FoldExists ==
  ASSUME NEW n \in Nat, NEW T, NEW base \in T, NEW step \in [T \X (1..n) -> T]
  PROVE  FoldsOf(n, T, base, step) # {}
  <1>. DEFINE Body(f, s) == IF s = {} THEN base ELSE step[<<f[s \ {Max(s)}], Max(s)>>]
              P(k) == \E f \in [SUBSET (1..k) -> T] : \A s \in SUBSET (1..k) : f[s] = Body(f, s)
              S == {k \in Nat : k <= n => P(k)}
  <1>1. 0 \in S
    <2>0. \A s \in SUBSET (1..0) : s = {}
      OBVIOUS
    <2>1. PICK f : f = [s \in SUBSET (1..0) |-> base]
      OBVIOUS
    <2>2. f \in [SUBSET (1..0) -> T] /\ \A s \in SUBSET (1..0) : s = {} /\ f[s] = base
      BY <2>0, <2>1
    <2>3. P(0)
      BY <2>2
    <2>. QED BY <2>3
  <1>2. ASSUME NEW k \in Nat, k \in S PROVE k + 1 \in S
    <2>a. k + 1 \in Nat /\ (k + 1 <= n => k <= n)
      OBVIOUS
    <2>b. SUFFICES ASSUME k + 1 <= n PROVE P(k + 1)
      <3>. HIDE DEF P
      <3>. QED BY <2>a
    <2>c. P(k)
      <3>. HIDE DEF P
      <3>. QED BY <1>2, <2>a, <2>b
    <2>1. PICK g \in [SUBSET (1..k) -> T] : \A s \in SUBSET (1..k) : g[s] = Body(g, s)
      BY <2>c
    <2>2. PICK f : f = [s \in SUBSET (1..(k + 1)) |->
                         IF k + 1 \in s THEN step[<<g[s \ {k + 1}], k + 1>>] ELSE g[s]]
      OBVIOUS
    <2>3. \A s \in SUBSET (1..(k + 1)) : s \ {k + 1} \in SUBSET (1..k)
      OBVIOUS
    <2>4. \A s \in SUBSET (1..(k + 1)) : k + 1 \notin s => s \in SUBSET (1..k)
      OBVIOUS
    <2>5. f \in [SUBSET (1..(k + 1)) -> T]
      <3>1. k + 1 \in 1..n
        BY <2>b
      <3>2. \A s \in SUBSET (1..(k + 1)) : step[<<g[s \ {k + 1}], k + 1>>] \in T
        BY <2>3, <3>1
      <3>3. \A s \in SUBSET (1..(k + 1)) : k + 1 \notin s => g[s] \in T
        BY <2>4
      <3>. QED BY <2>2, <3>2, <3>3
    <2>6. \A s \in SUBSET (1..k) : s \in SUBSET (1..(k + 1)) /\ k + 1 \notin s /\ f[s] = g[s]
      BY <2>2
    <2>7. ASSUME NEW s \in SUBSET (1..(k + 1)) PROVE f[s] = Body(f, s)
      <3>1. CASE k + 1 \in s
        <4>1. Max(s) = k + 1
          <5>1. Max(s) \in s /\ \A x \in s : x <= Max(s)
            <6>1. k + 1 \in Int /\ s # {}
              BY <3>1
            <6>. QED BY <6>1, MaxFacts
          <5>2. k + 1 <= Max(s) /\ Max(s) \in 1..(k + 1)
            BY <3>1, <5>1
          <5>. QED BY <5>2
        <4>2. f[s] = step[<<g[s \ {k + 1}], k + 1>>]
          BY <2>2, <3>1
        <4>3. g[s \ {k + 1}] = f[s \ {k + 1}]
          BY <2>3, <2>6
        <4>. QED BY <3>1, <4>1, <4>2, <4>3
      <3>2. CASE k + 1 \notin s
        <4>1. s \in SUBSET (1..k) /\ s \ {Max(s)} \in SUBSET (1..k)
          BY <2>4, <3>2
        <4>2. f[s] = g[s] /\ f[s \ {Max(s)}] = g[s \ {Max(s)}]
          BY <2>6, <4>1
        <4>. QED BY <2>1, <4>1, <4>2
      <3>. QED BY <3>1, <3>2
    <2>. QED BY <2>5, <2>7
  <1>. HIDE DEF S
  <1>3. n \in S
    BY <1>1, <1>2, Induct
  <1>4. PICK f \in [SUBSET (1..n) -> T] : \A s \in SUBSET (1..n) : f[s] = Body(f, s)
    <2>1. n <= n
      OBVIOUS
    <2>2. P(n)
      BY <1>3, <2>1 DEF S
    <2>. QED BY <2>2
  <1>. QED BY <1>4 DEF FoldsOf

(* The first k numbers, as a fold takes them. *)
LEMMA UpTo ==
  ASSUME NEW n \in Nat, NEW k \in 1..n
  PROVE  1..k \in SUBSET (1..n) /\ 1..k # {} /\ (1..k) \ {k} = 1..(k - 1) /\ Max(1..k) = k
  <1>1. 1..k \in SUBSET (1..n) /\ k \in 1..k /\ 1..k # {} /\ (1..k) \ {k} = 1..(k - 1)
    OBVIOUS
  <1>2. k \in Int /\ 1..k \in SUBSET (1..k)
    OBVIOUS
  <1>3. Max(1..k) \in 1..k /\ \A x \in 1..k : x <= Max(1..k)
    BY <1>1, <1>2, MaxFacts
  <1>4. PICK m : m = Max(1..k)
    OBVIOUS
  <1>5. m = k
    BY <1>1, <1>3, <1>4
  <1>. QED BY <1>1, <1>4, <1>5

-----------------------------------------------------------------------------
(***************************************************************************)
(* The split of a batch into prefill calls. The sums of add_lanes are      *)
(* folds: the sum over a set is the number of elements of a disjoint       *)
(* union, which grows with the set by the laws of cardinality.             *)
(***************************************************************************)
(* The sum of the second components, as the number of elements of a disjoint union. *)
Units(w, s) == UNION {{j} \X (1..w[j]) : j \in s}

(* The units of one element are as many as its number. *)
LEMMA UnitsOfOne ==
  ASSUME NEW j, NEW w \in Nat
  PROVE  IsFiniteSet({j} \X (1..w)) /\ Cardinality({j} \X (1..w)) = w
  <1>. DEFINE h == [k \in 1..w |-> <<j, k>>]
  <1>1. IsFiniteSet(1..w) /\ Cardinality(1..w) = w
    BY FS_Interval
  <1>2. h \in Bijection(1..w, {j} \X (1..w))
    <2>1. h \in [1..w -> {j} \X (1..w)]
      OBVIOUS
    <2>2. \A a, b \in 1..w : h[a] = h[b] => a = b
      OBVIOUS
    <2>3. \A p \in {j} \X (1..w) : \E a \in 1..w : h[a] = p
      OBVIOUS
    <2>. HIDE DEF h
    <2>. QED BY <2>1, <2>2, <2>3 DEF Bijection, Injection, Surjection, IsInjective
  <1>3. ExistsBijection(1..w, {j} \X (1..w))
    BY <1>2 DEF ExistsBijection
  <1>. QED BY <1>1, <1>3, FS_Bijection

(* They are finitely many. *)
LEMMA UnitsFinite ==
  ASSUME NEW n \in Nat, NEW w \in [1..n -> Nat], NEW s \in SUBSET (1..n)
  PROVE  IsFiniteSet(Units(w, s))
  <1>. DEFINE F == {k \in Nat : k <= n => IsFiniteSet(Units(w, 1..k))}
  <1>1. 0 \in F
    <2>1. Units(w, 1..0) = {}
      BY DEF Units
    <2>. QED BY <2>1, FS_EmptySet
  <1>2. ASSUME NEW k \in Nat, k \in F PROVE k + 1 \in F
    <2>1. Units(w, 1..(k + 1)) = Units(w, 1..k) \cup ({k + 1} \X (1..w[k + 1]))
      <3>1. 1..(k + 1) = (1..k) \cup {k + 1}
        OBVIOUS
      <3>. QED BY <3>1 DEF Units
    <2>2. ASSUME k + 1 <= n PROVE IsFiniteSet(Units(w, 1..(k + 1)))
      <3>1. w[k + 1] \in Nat /\ k <= n
        BY <2>2
      <3>2. IsFiniteSet({k + 1} \X (1..w[k + 1]))
        BY <3>1, UnitsOfOne
      <3>3. IsFiniteSet(Units(w, 1..k))
        BY <1>2, <3>1
      <3>4. IsFiniteSet(Units(w, 1..k) \cup ({k + 1} \X (1..w[k + 1])))
        BY <3>2, <3>3, FS_Union
      <3>. QED BY <2>1, <3>4
    <2>. QED BY <2>2
  <1>. HIDE DEF F
  <1>3. n \in F
    BY <1>1, <1>2, Induct
  <1>4. \A t \in SUBSET (1..n) : IsFiniteSet(Units(w, t))
    <2>1. SUFFICES ASSUME NEW t \in SUBSET (1..n) PROVE IsFiniteSet(Units(w, t))
      OBVIOUS
    <2>2. IsFiniteSet(Units(w, 1..n))
      BY <1>3 DEF F
    <2>3. Units(w, t) \in SUBSET Units(w, 1..n)
      BY DEF Units
    <2>. QED BY <2>2, <2>3, FS_Subset
  <1>. QED BY <1>4

(* One element more adds its number. *)
LEMMA UnitsStep ==
  ASSUME NEW n \in Nat, NEW w \in [1..n -> Nat], NEW s \in SUBSET (1..n),
         NEW x \in s, NEW t, \A y : y \in t <=> y \in s /\ y # x
  PROVE  Cardinality(Units(w, s)) - Cardinality(Units(w, t)) = w[x]
  <1>. DEFINE A == Units(w, t)  B == {x} \X (1..w[x])
  <1>0. t = s \ {x}
    OBVIOUS
  <1>1. Units(w, s) = A \cup B
    BY <1>0 DEF Units
  <1>2. A \cap B = {}
    BY <1>0 DEF Units
  <1>3. IsFiniteSet(A) /\ Cardinality(A) \in Nat
    BY <1>0, UnitsFinite, FS_CardinalityType
  <1>4. IsFiniteSet(B) /\ Cardinality(B) = w[x] /\ w[x] \in Nat
    BY UnitsOfOne
  <1>. HIDE DEF A, B
  <1>5. Cardinality(Units(w, s)) = Cardinality(A) + Cardinality(B) - Cardinality(A \cap B)
    BY <1>1, <1>3, <1>4, FS_Union
  <1>6. Cardinality(A \cap B) = 0
    BY <1>2, FS_EmptySet
  <1>7. PICK a, b, c : a = Cardinality(A) /\ b = Cardinality(B) /\ c = Cardinality(A \cap B)
    OBVIOUS
  <1>8. Cardinality(Units(w, s)) - Cardinality(A) = w[x]
    BY <1>3, <1>4, <1>5, <1>6, <1>7
  <1>. QED BY <1>8 DEF A

(* The sum by a fold over the set, in whatever order it takes the elements. *)
LEMMA TokensBeforeIs ==
  ASSUME NEW n \in Nat, NEW sq, NEW w \in [1..n -> Nat], \A j \in 1..n : w[j] = sq[j][2],
         NEW f, NEW i, f..(i - 1) \in SUBSET (1..n)
  PROVE  TokensBefore(i, f, sq) = Cardinality(Units(w, f..(i - 1)))
  <1>u. ASSUME NEW s \in SUBSET (f..(i - 1)), NEW x \in s, NEW t,
               \A y : y \in t <=> y \in s /\ y # x
        PROVE  Cardinality(Units(w, s)) - Cardinality(Units(w, t)) = w[x]
    <2>1. s \in SUBSET (1..n)
      OBVIOUS
    <2>. QED BY <1>u, <2>1, UnitsStep
  <1>. DEFINE S == f..(i - 1)
  <1>0. S \in SUBSET (1..n)
    OBVIOUS
  <1>. DEFINE IsFold(h) == h = [s \in SUBSET S |->
                              IF s = {} THEN 0
                              ELSE LET x == CHOOSE x \in s : TRUE IN sq[x][2] + h[s \ {x}]]
              it == CHOOSE h : IsFold(h)
              g == [s \in SUBSET S |-> Cardinality(Units(w, s))]
  <1>1. TokensBefore(i, f, sq) = it[S]
    BY DEF TokensBefore, Total, MapThenSumSet, MapThenFoldSet
  <1>. HIDE DEF S
  <1>2. Units(w, {}) = {} /\ Cardinality(Units(w, {})) = 0
    BY FS_EmptySet DEF Units
  <1>3. \A s \in SUBSET S : s # {} => (CHOOSE x \in s : TRUE) \in s
    OBVIOUS
  <1>4. \A s \in SUBSET S : \A x \in s :
          Cardinality(Units(w, s)) = sq[x][2] + Cardinality(Units(w, s \ {x}))
    <2>1. ASSUME NEW s \in SUBSET S, NEW x \in s
          PROVE  Cardinality(Units(w, s)) = sq[x][2] + Cardinality(Units(w, s \ {x}))
      <3>2. PICK t : t = s \ {x}
        OBVIOUS
      <3>3. s \in SUBSET (1..n)
        BY <1>0
      <3>4. \A y : y \in t <=> y \in s /\ y # x
        BY <3>2
      <3>5. Cardinality(Units(w, s)) - Cardinality(Units(w, t)) = w[x]
        BY <1>u, <2>1, <3>4 DEF S
      <3>6. t \in SUBSET (1..n) /\ x \in 1..n /\ w[x] = sq[x][2] /\ w[x] \in Nat
        BY <3>3, <3>4
      <3>7. Cardinality(Units(w, s)) \in Nat /\ Cardinality(Units(w, t)) \in Nat
        BY <3>3, <3>6, UnitsFinite, FS_CardinalityType
      <3>8. Cardinality(Units(w, s)) = sq[x][2] + Cardinality(Units(w, t))
        BY <3>5, <3>6, <3>7
      <3>. QED BY <3>2, <3>8
    <2>. QED BY <2>1
  <1>5. IsFold(g)
    BY <1>2, <1>3, <1>4, ZenonT(60)
  <1>6. IsFold(it)
    <2>. HIDE DEF IsFold
    <2>. QED BY <1>5
  <1>. DEFINE E == {k \in Nat : \A s \in SUBSET S : Cardinality(s) = k => it[s] = g[s]}
  <1>. HIDE DEF it
  <1>7. IsFiniteSet(S)
    <2>1. IsFiniteSet(1..n)
      BY FS_Interval
    <2>. QED BY <1>0, <2>1, FS_Subset
  <1>8. 0 \in E
    <2>1. \A s \in SUBSET S : Cardinality(s) = 0 => s = {}
      BY <1>7, FS_Subset, FS_EmptySet
    <2>2. it[{}] = 0 /\ g[{}] = 0
      BY <1>2, <1>6
    <2>. HIDE DEF g
    <2>. QED BY <2>1, <2>2
  <1>9. ASSUME NEW k \in Nat, k \in E PROVE k + 1 \in E
    <2>1. SUFFICES ASSUME NEW s \in SUBSET S, Cardinality(s) = k + 1 PROVE it[s] = g[s]
      <3>. HIDE DEF g
      <3>. QED OBVIOUS
    <2>2. s # {}
      <3>1. Cardinality({}) = 0 /\ k + 1 # 0
        BY FS_EmptySet
      <3>. QED BY <2>1, <3>1
    <2>3. PICK x : x = CHOOSE y \in s : TRUE
      OBVIOUS
    <2>4. x \in s
      BY <2>2, <2>3
    <2>5. Cardinality(s \ {x}) = k
      <3>1. IsFiniteSet(s)
        BY <1>7, FS_Subset
      <3>2. Cardinality(s \ {x}) = Cardinality(s) - 1
        BY <2>4, <3>1, FS_RemoveElement
      <3>. QED BY <2>1, <3>2
    <2>6. it[s \ {x}] = g[s \ {x}]
      <3>. HIDE DEF g
      <3>. QED BY <1>9, <2>5
    <2>7. it[s] = sq[x][2] + it[s \ {x}]
      BY <1>6, <2>2, <2>3
    <2>8. g[s] = sq[x][2] + g[s \ {x}]
      BY <1>5, <2>2, <2>3
    <2>. QED BY <2>6, <2>7, <2>8
  <1>. HIDE DEF E
  <1>10. Cardinality(S) \in E
    BY <1>7, <1>8, <1>9, Induct, FS_CardinalityType
  <1>11. it[S] = g[S]
    <2>. HIDE DEF g
    <2>. QED BY <1>10 DEF E
  <1>. QED BY <1>1, <1>11 DEF S

(* The tokens before lane i of those from lane f on: none, and with each lane its own more. *)
LEMMA TokensBeforeFacts ==
  ASSUME NEW n \in Nat, NEW sq, \A j \in 1..n : sq[j][2] \in Nat, NEW f \in 1..n
  PROVE  /\ TokensBefore(f, f, sq) = 0
         /\ \A i \in f..n : /\ TokensBefore(i, f, sq) \in Nat
                            /\ TokensBefore(i + 1, f, sq) = TokensBefore(i, f, sq) + sq[i][2]
  <1>0. PICK w : w = [j \in 1..n |-> sq[j][2]]
    OBVIOUS
  <1>w. w \in [1..n -> Nat] /\ \A j \in 1..n : w[j] = sq[j][2]
    BY <1>0
  <1>1. \A i \in f..(n + 1) : /\ TokensBefore(i, f, sq) = Cardinality(Units(w, f..(i - 1)))
                              /\ TokensBefore(i, f, sq) \in Nat
    <2>1. SUFFICES ASSUME NEW i \in f..(n + 1)
                   PROVE  /\ TokensBefore(i, f, sq) = Cardinality(Units(w, f..(i - 1)))
                          /\ TokensBefore(i, f, sq) \in Nat
      OBVIOUS
    <2>2. f..(i - 1) \in SUBSET (1..n)
      OBVIOUS
    <2>3. TokensBefore(i, f, sq) = Cardinality(Units(w, f..(i - 1)))
      BY <1>w, <2>2, TokensBeforeIs, SMTT(60)
    <2>. QED BY <1>w, <2>2, <2>3, UnitsFinite, FS_CardinalityType
  <1>2. TokensBefore(f, f, sq) = 0
    <2>1. f \in f..(n + 1) /\ f..(f - 1) = {}
      OBVIOUS
    <2>2. Units(w, f..(f - 1)) = {}
      BY <2>1 DEF Units
    <2>. QED BY <1>1, <2>1, <2>2, FS_EmptySet
  <1>3. ASSUME NEW i \in f..n
        PROVE  TokensBefore(i + 1, f, sq) = TokensBefore(i, f, sq) + sq[i][2]
    <2>1. /\ f..i \in SUBSET (1..n) /\ i \in f..i /\ (f..i) \ {i} = f..(i - 1)
          /\ i \in f..(n + 1) /\ i + 1 \in f..(n + 1) /\ (i + 1) - 1 = i
      OBVIOUS
    <2>2. Cardinality(Units(w, f..i)) - Cardinality(Units(w, f..(i - 1))) = w[i]
      <3>1. PICK s, t : s = f..i /\ t = f..(i - 1)
        OBVIOUS
      <3>2. s \in SUBSET (1..n) /\ i \in s /\ \A y : y \in t <=> y \in s /\ y # i
        BY <2>1, <3>1
      <3>3. Cardinality(Units(w, s)) - Cardinality(Units(w, t)) = w[i]
        BY <1>w, <3>2, UnitsStep, SMTT(60)
      <3>. QED BY <3>1, <3>3
    <2>3. /\ TokensBefore(i + 1, f, sq) = Cardinality(Units(w, f..i))
          /\ TokensBefore(i, f, sq) = Cardinality(Units(w, f..(i - 1)))
          /\ TokensBefore(i, f, sq) \in Nat /\ TokensBefore(i + 1, f, sq) \in Nat
          /\ w[i] \in Nat /\ w[i] = sq[i][2]
      BY <1>1, <1>w, <2>1
    <2>. QED BY <2>2, <2>3
  <1>4. \A i \in f..n : i \in f..(n + 1)
    OBVIOUS
  <1>. QED BY <1>1, <1>2, <1>3, <1>4

(* What the lanes have that the host cache does not, and where it begins in tokens_list. *)
First(i) == CachedTokens(new.lanes[i])
NewToks(i) == NToks(i) - First(i)
Spans == [i \in Added |-> <<First(i), NewToks(i)>>]
Offset(i) == TokensBefore(i, 1, Spans)

(* Tokens of the lane that the calls have processed, beyond the cached ones. *)
Processed(i) == info[i][1] - First(i)
Filled(i) == IF i < fidx THEN NToks(i) ELSE info[i][1]
OwnRow(i) == [after |-> <<i, NToks(i) - 1>>, sees |-> [p \in 0..(NToks(i) - 1) |-> <<i, p>>]]
(* Consecutive tokens of a lane, from position c + 1 on. *)
TokensFrom(i, c, m) == [k \in 1..m |-> <<i, c + k>>]
Scored(i) == IF i < fidx THEN NewToks(i) - 1 ELSE Processed(i)

(* Of fst_idx, which the last cut may have split, a part is left: more than one
   token when the last of the call before is processed again. *)
SplitInv ==
  /\ fidx \in Added /\ fst = start[fidx] /\ lst = fst + MaxPrefill
  /\ info \in [Added -> Nat \X Nat] /\ start \in [Added -> Nat]
  /\ \A i \in Added :
       i >= fidx => /\ First(i) <= info[i][1] /\ info[i][1] + info[i][2] = NToks(i)
                    /\ start[i] = Offset(i) + Processed(i)
                    /\ Twice < info[i][2] /\ (i > fidx => Processed(i) = 0)

(* The lanes before it are complete; of the others the blocks hold what is cached and processed. *)
FilledInv ==
  /\ \A i \in Added : Own(i, Held(i), 0..(Filled(i) - 1))
  /\ rows = [i \in 1..(fidx - 1) |-> OwnRow(i)]
  /\ DOMAIN lps = Added
  /\ new.logprobs => \A i \in Added : lps[i] = TokensFrom(i, First(i), Scored(i))

PrefillInv ==
  /\ new \in Batches /\ pf \in {"split", "done"}
  /\ pf = "split" => SplitInv /\ FilledInv
  /\ pf = "done" => LanesServed

(* The quotient rounds down. *)
LEMMA Quotient ==
  ASSUME NEW a \in Nat, NEW b \in Nat \ {0}
  PROVE  a \div b \in Nat /\ b * (a \div b) \in Nat /\ b * (a \div b) <= a
  <1>1. a \div b \in Int /\ a \div b >= 0
    OBVIOUS
  <1>2. b * (a \div b) \in Int /\ b * (a \div b) <= a
    OBVIOUS
  <1>3. b * (a \div b) \in Nat
    OBVIOUS
  <1>. QED BY <1>1, <1>2, <1>3

(* The lanes of a batch: some of the tokens are cached, and one at least is to be processed. *)
LEMMA LaneFacts ==
  ASSUME PrefillAssumption, new \in Batches
  PROVE  /\ Len(new.lanes) \in Nat \ {0} /\ Added = 1..Len(new.lanes) /\ new.logprobs \in BOOLEAN
         /\ \A i \in Added :
              /\ NToks(i) \in Nat /\ Ready(i) \in Nat /\ Ready(i) <= NToks(i)
              /\ First(i) \in Nat /\ First(i) <= Ready(i) /\ First(i) < NToks(i)
              /\ NewToks(i) \in Nat \ {0} /\ First(i) + NewToks(i) = NToks(i)
  <1>. DEFINE R == [len : Nat \ {0}, ready : Nat]
  <1>1. new.lanes \in Seq(R) /\ new.lanes # <<>> /\ new.logprobs \in BOOLEAN
    BY DEF PrefillAssumption
  <1>2. Len(new.lanes) \in Nat \ {0} /\ Added = 1..Len(new.lanes)
    BY <1>1, EmptySeq, LenProperties DEF Added
  <1>3. ASSUME NEW i \in Added
        PROVE  /\ NToks(i) \in Nat /\ Ready(i) \in Nat /\ Ready(i) <= NToks(i)
               /\ First(i) \in Nat /\ First(i) <= Ready(i) /\ First(i) < NToks(i)
               /\ NewToks(i) \in Nat \ {0} /\ First(i) + NewToks(i) = NToks(i)
    <2>1. new.lanes[i] \in R
      BY <1>1, <1>2, ElementOfSeq
    <2>2. PICK r : r = PageTokens * new.lanes[i].ready
      OBVIOUS
    <2>3. r \in Nat
      <3>1. PICK x, y : x = PageTokens /\ y = new.lanes[i].ready
        OBVIOUS
      <3>2. x \in Nat /\ y \in Nat /\ r = x * y
        BY <2>1, <2>2, <3>1 DEF PrefillAssumption
      <3>. QED BY <3>2
    <2>4. r <= new.lanes[i].len
      BY <2>2 DEF PrefillAssumption, Added
    <2>5. new.lanes[i].len \in Nat \ {0}
      BY <2>1
    <2>6. Ready(i) = r /\ NToks(i) = new.lanes[i].len
      BY <2>2 DEF Ready, NToks
    <2>7. First(i) = IF r = NToks(i) THEN NToks(i) - 1 ELSE r
      BY <2>2, <2>6 DEF First, CachedTokens
    <2>8. NewToks(i) = NToks(i) - First(i)
      BY DEF NewToks
    <2>9. PICK l, f : l = NToks(i) /\ f = First(i)
      OBVIOUS
    <2>10. /\ l \in Nat \ {0} /\ r \in Nat /\ r <= l
           /\ f \in Nat /\ f <= r /\ f < l /\ l - f \in Nat \ {0} /\ f + (l - f) = l
      <3>1. l \in Nat \ {0} /\ r \in Nat /\ r <= l
        BY <2>3, <2>4, <2>5, <2>6, <2>9
      <3>2. f = IF r = l THEN l - 1 ELSE r
        BY <2>7, <2>9
      <3>3. CASE r = l
        BY <3>1, <3>2, <3>3
      <3>4. CASE r # l
        BY <3>1, <3>2, <3>4
      <3>. QED BY <3>3, <3>4
    <2>. QED BY <2>6, <2>8, <2>9, <2>10
  <1>. QED BY <1>1, <1>2, <1>3

(* Complete pages lie within the lane. *)
LEMMA OutPagesFacts ==
  ASSUME PrefillAssumption, new \in Batches, NEW i \in Added
  PROVE  OutPages(i) \subseteq 0..(NToks(i) - 1)
  <1>1. NToks(i) \in Nat /\ Ready(i) \in Nat
    BY LaneFacts
  <1>2. PICK q : q = NToks(i) \div PageTokens
    OBVIOUS
  <1>3. PageTokens \in Nat \ {0}
    BY DEF PrefillAssumption
  <1>4. q \in Nat /\ PageTokens * q <= NToks(i) /\ PageTokens * q \in Nat
    BY <1>1, <1>2, <1>3, Quotient
  <1>5. OutPages(i) = Ready(i)..(PageTokens * q - 1)
    BY <1>2 DEF OutPages
  <1>. QED BY <1>1, <1>4, <1>5

(* Where the lanes begin in tokens_list. *)
LEMMA OffsetFacts ==
  ASSUME PrefillAssumption, new \in Batches
  PROVE  /\ Offset(1) = 0
         /\ \A i \in Added : /\ Offset(i) \in Nat /\ Offset(i + 1) \in Nat
                             /\ Offset(i + 1) = Offset(i) + NewToks(i)
         /\ \A i, j \in 1..(Len(new.lanes) + 1) : i <= j => Offset(i) <= Offset(j)
  <1>. DEFINE n == Len(new.lanes)
  <1>1. n \in Nat /\ 1 \in 1..n /\ Added = 1..n /\ \A i \in Added : NewToks(i) \in Nat
    BY LaneFacts
  <1>. HIDE DEF n
  <1>2. \A i \in Added : Spans[i][2] = NewToks(i)
    BY DEF Spans
  <1>3. \A i \in 1..n : Spans[i][2] \in Nat
    BY <1>1, <1>2
  <1>4. /\ TokensBefore(1, 1, Spans) = 0
        /\ \A i \in 1..n : /\ TokensBefore(i, 1, Spans) \in Nat
                           /\ TokensBefore(i + 1, 1, Spans) = TokensBefore(i, 1, Spans) + Spans[i][2]
    BY <1>1, <1>3, TokensBeforeFacts
  <1>5. Offset(1) = 0 /\ \A i \in 1..n : Offset(i) \in Nat /\ Offset(i + 1) = Offset(i) + NewToks(i)
    BY <1>1, <1>2, <1>4 DEF Offset
  <1>. DEFINE S == {k \in Nat : k <= n => /\ Offset(k + 1) \in Nat
                                          /\ \A i \in 1..(k + 1) : Offset(i) <= Offset(k + 1)}
  <1>6. 0 \in S
    BY <1>5
  <1>7. ASSUME NEW k \in Nat, k \in S PROVE k + 1 \in S
    <2>1. SUFFICES ASSUME k + 1 <= n
                   PROVE  /\ Offset(k + 1 + 1) \in Nat
                          /\ \A i \in 1..(k + 1 + 1) : Offset(i) <= Offset(k + 1 + 1)
      OBVIOUS
    <2>2. k + 1 \in 1..n /\ k <= n
      BY <1>1, <2>1
    <2>3. /\ Offset(k + 1 + 1) = Offset(k + 1) + NewToks(k + 1)
          /\ Offset(k + 1) \in Nat /\ NewToks(k + 1) \in Nat
      BY <1>1, <1>5, <2>2
    <2>4. \A i \in 1..(k + 1) : Offset(i) <= Offset(k + 1)
      BY <1>7, <2>2
    <2>5. \A i \in 1..(k + 1) : Offset(i) \in Nat
      BY <1>1, <1>5, <2>2
    <2>6. \A i \in 1..(k + 1 + 1) : i \in 1..(k + 1) \/ i = k + 1 + 1
      OBVIOUS
    <2>7. PICK o : o = Offset(k + 1 + 1)
      OBVIOUS
    <2>8. o \in Nat /\ \A i \in 1..(k + 1) : Offset(i) <= o
      BY <2>3, <2>4, <2>5, <2>7
    <2>. QED BY <2>6, <2>7, <2>8
  <1>. HIDE DEF S
  <1>8. \A k \in Nat : k \in S
    BY <1>6, <1>7, Induct
  <1>9. ASSUME NEW i \in 1..(n + 1), NEW j \in 1..(n + 1), i <= j PROVE Offset(i) <= Offset(j)
    <2>1. j - 1 \in Nat /\ j - 1 <= n /\ i \in 1..((j - 1) + 1) /\ (j - 1) + 1 = j
      BY <1>1, <1>9
    <2>2. j - 1 \in S
      BY <1>8, <2>1
    <2>. QED BY <2>1, <2>2 DEF S
  <1>10. \A i \in 1..n : Offset(i + 1) \in Nat
    <2>1. ASSUME NEW i \in 1..n PROVE Offset(i + 1) \in Nat
      <3>1. PICK o, p, w : o = Offset(i) /\ p = Offset(i + 1) /\ w = NewToks(i)
        OBVIOUS
      <3>2. o \in Nat /\ w \in Nat /\ p = o + w
        BY <1>1, <1>5, <3>1
      <3>. QED BY <3>1, <3>2
    <2>. QED BY <2>1
  <1>. QED BY <1>1, <1>5, <1>9, <1>10 DEF n

(* The tokens of lane i that are to be processed, in their order. *)
PartOf(i) == [k \in 1..NewToks(i) |-> <<i, First(i) + k - 1>>]

(* tokens_list has the parts of the lanes, one after the other. *)
LEMMA TokensFacts ==
  ASSUME PrefillAssumption, new \in Batches
  PROVE  /\ TokensList \in Seq(Added \X Nat) /\ Len(TokensList) = Offset(Len(new.lanes) + 1)
         /\ \A i \in Added : \A m \in 1..NewToks(i) : TokensList[Offset(i) + m] = <<i, First(i) + m - 1>>
  <1>. DEFINE n == Len(new.lanes)
              T == Seq(Added \X Nat)
              sq == [i \in Added |-> i]
              IsFold(f) == f = [s \in SUBSET DOMAIN sq |->
                              IF s = {} THEN <<>>
                              ELSE LET x == Max(s)
                                   IN f[s \ {x}] \o
                                        [k \in 1..(NToks(sq[x]) - CachedTokens(new.lanes[sq[x]])) |->
                                           <<sq[x], CachedTokens(new.lanes[sq[x]]) + k - 1>>]]
              it == CHOOSE f : IsFold(f)
              Eq(f) == f = [s \in SUBSET (1..n) |->
                              IF s = {} THEN <<>> ELSE f[s \ {Max(s)}] \o PartOf(Max(s))]
  <1>1. n \in Nat /\ Added = 1..n
    BY LaneFacts
  <1>2. ASSUME NEW i \in Added
        PROVE  PartOf(i) \in T /\ Len(PartOf(i)) = NewToks(i)
    <2>1. NewToks(i) \in Nat /\ First(i) \in Nat
      BY LaneFacts
    <2>2. \A k \in 1..NewToks(i) : <<i, First(i) + k - 1>> \in Added \X Nat
      BY <2>1
    <2>. QED BY <2>1, <2>2 DEF PartOf
  <1>3. TokensList = it[1..n]
    <2>1. TokensList = it[DOMAIN sq]
      BY DEF TokensList, FoldLeft, MapThenFoldSet
    <2>2. DOMAIN sq = 1..n
      BY <1>1
    <2>. HIDE DEF it, sq, n
    <2>. QED BY <2>1, <2>2
  <1>4. ASSUME NEW f PROVE IsFold(f) <=> Eq(f)
    <2>1. DOMAIN sq = 1..n
      BY <1>1
    <2>2. ASSUME NEW s \in SUBSET (1..n), s # {}
          PROVE  PartOf(Max(s)) = [k \in 1..(NToks(sq[Max(s)]) - CachedTokens(new.lanes[sq[Max(s)]])) |->
                                     <<sq[Max(s)], CachedTokens(new.lanes[sq[Max(s)]]) + k - 1>>]
      <3>1. PICK x : x = Max(s)
        OBVIOUS
      <3>2. x \in Added
        <4>. HIDE DEF n, sq
        <4>1. n \in Int
          BY <1>1
        <4>2. Max(s) \in s
          BY <2>2, <4>1, MaxFacts
        <4>. QED BY <1>1, <3>1, <4>2
      <3>3. sq[x] = x
        BY <3>2
      <3>. HIDE DEF sq
      <3>. QED BY <3>1, <3>3 DEF PartOf, NewToks, First
    <2>. HIDE DEF n, sq
    <2>. QED BY <2>1, <2>2
  <1>5. \E f : Eq(f)
    <2>1. PICK step : step = [p \in T \X (1..n) |-> p[1] \o PartOf(p[2])]
      OBVIOUS
    <2>2. step \in [T \X (1..n) -> T]
      <3>1. \A p \in T \X (1..n) : p[1] \o PartOf(p[2]) \in T
        BY <1>1, <1>2
      <3>. HIDE DEF T
      <3>. QED BY <2>1, <3>1
    <2>3. <<>> \in T
      OBVIOUS
    <2>a. n \in Nat
      BY <1>1
    <2>b. FoldsOf(n, T, <<>>, step) # {}
      <3>. HIDE DEF T, n
      <3>. QED BY <2>2, <2>3, <2>a, FoldExists
    <2>4. PICK f \in [SUBSET (1..n) -> T] :
            \A s \in SUBSET (1..n) :
              f[s] = IF s = {} THEN <<>> ELSE step[<<f[s \ {Max(s)}], Max(s)>>]
      <3>. HIDE DEF T, n
      <3>. QED BY <2>b DEF FoldsOf
    <2>5. ASSUME NEW s \in SUBSET (1..n), s # {}
          PROVE  step[<<f[s \ {Max(s)}], Max(s)>>] = f[s \ {Max(s)}] \o PartOf(Max(s))
      <3>. HIDE DEF T, n
      <3>1. Max(s) \in 1..n
        <4>1. n \in Int
          BY <1>1
        <4>2. Max(s) \in s
          BY <2>5, <4>1, MaxFacts
        <4>. QED BY <4>2
      <3>2. f[s \ {Max(s)}] \in T
        BY <2>4
      <3>. QED BY <2>1, <3>1, <3>2
    <2>. HIDE DEF T, n
    <2>6. f = [s \in SUBSET (1..n) |-> IF s = {} THEN <<>> ELSE f[s \ {Max(s)}] \o PartOf(Max(s))]
      BY <2>4, <2>5
    <2>. QED BY <2>6
  <1>6. Eq(it)
    <2>1. IsFold(it)
      <3>. HIDE DEF IsFold, Eq
      <3>. QED BY <1>4, <1>5
    <2>. HIDE DEF IsFold, Eq, it
    <2>. QED BY <1>4, <2>1
  <1>. HIDE DEF it, IsFold
  <1>7. it[1..0] = <<>> /\ \A k \in 1..n : it[1..k] = it[1..(k - 1)] \o PartOf(k)
    <2>1. 1..0 = {} /\ 1..0 \in SUBSET (1..n)
      OBVIOUS
    <2>2. ASSUME NEW k \in 1..n PROVE it[1..k] = it[1..(k - 1)] \o PartOf(k)
      <3>. HIDE DEF n
      <3>1. n \in Nat
        BY <1>1
      <3>2. 1..k \in SUBSET (1..n) /\ 1..k # {} /\ (1..k) \ {k} = 1..(k - 1) /\ Max(1..k) = k
        BY <3>1, UpTo
      <3>. QED BY <1>6, <3>2
    <2>. QED BY <1>6, <2>1, <2>2
  <1>. DEFINE P(k) == /\ it[1..k] \in T /\ Len(it[1..k]) = Offset(k + 1)
                      /\ \A i \in 1..k : \A m \in 1..NewToks(i) :
                           it[1..k][Offset(i) + m] = <<i, First(i) + m - 1>>
              S == {k \in Nat : k <= n => P(k)}
  <1>. HIDE DEF Eq, n
  <1>8. 0 \in S
    <2>1. Offset(0 + 1) = 0
      BY OffsetFacts
    <2>2. P(0)
      BY <1>7, <2>1
    <2>. QED BY <2>2
  <1>9. ASSUME NEW k \in Nat, k \in S PROVE k + 1 \in S
    <2>1. SUFFICES ASSUME k + 1 <= n PROVE P(k + 1)
      <3>. HIDE DEF P
      <3>. QED OBVIOUS
    <2>2. k + 1 \in 1..n /\ k <= n /\ (k + 1) - 1 = k
      BY <1>1, <2>1
    <2>3. P(k)
      <3>. HIDE DEF P
      <3>. QED BY <1>9, <2>2
    <2>4. PICK a, b, c : a = it[1..k] /\ b = PartOf(k + 1) /\ c = it[1..(k + 1)]
      OBVIOUS
    <2>5. a \in T /\ b \in T /\ c = a \o b /\ Len(a) = Offset(k + 1) /\ Len(b) = NewToks(k + 1)
      BY <1>1, <1>2, <1>7, <2>2, <2>3, <2>4
    <2>6. /\ c \in T /\ Len(c) = Len(a) + Len(b) /\ Len(a) \in Nat /\ Len(b) \in Nat
          /\ \A j \in 1..(Len(a) + Len(b)) : c[j] = IF j <= Len(a) THEN a[j] ELSE b[j - Len(a)]
      <3>1. /\ a \o b \in Seq(Added \X Nat) /\ Len(a \o b) = Len(a) + Len(b)
            /\ \A j \in 1..(Len(a) + Len(b)) : (a \o b)[j] = IF j <= Len(a) THEN a[j] ELSE b[j - Len(a)]
        BY <2>5, ConcatProperties
      <3>2. Len(a) \in Nat /\ Len(b) \in Nat
        BY <2>5, LenProperties
      <3>. QED BY <2>5, <3>1, <3>2
    <2>7. Len(c) = Offset(k + 1 + 1)
      BY <1>1, <2>2, <2>5, <2>6, OffsetFacts
    <2>8. ASSUME NEW i \in 1..(k + 1), NEW m \in 1..NewToks(i)
          PROVE  c[Offset(i) + m] = <<i, First(i) + m - 1>>
      <3>1. /\ i \in Added /\ i + 1 \in 1..(n + 1) /\ Offset(i) \in Nat /\ NewToks(i) \in Nat
            /\ Offset(i + 1) = Offset(i) + NewToks(i)
        <4>1. i \in Added /\ i + 1 \in 1..(n + 1)
          BY <1>1, <2>2
        <4>. QED BY <4>1, LaneFacts, OffsetFacts
      <3>2. CASE i <= k
        <4>1. i + 1 <= k + 1 /\ k + 1 \in 1..(n + 1) /\ i \in 1..k
          BY <1>1, <2>2, <3>2
        <4>2. Offset(i + 1) <= Offset(k + 1)
          BY <3>1, <4>1, OffsetFacts DEF n
        <4>3. Offset(i) + m \in 1..Len(a)
          <5>1. PICK o, p, w, l : o = Offset(i) /\ p = Offset(i + 1) /\ w = NewToks(i) /\ l = Len(a)
            OBVIOUS
          <5>2. o \in Nat /\ w \in Nat /\ p = o + w /\ p <= l /\ l \in Nat /\ m \in 1..w
            BY <2>5, <2>6, <3>1, <4>2, <5>1
          <5>. QED BY <5>1, <5>2
        <4>4. c[Offset(i) + m] = a[Offset(i) + m]
          BY <2>6, <4>3
        <4>. QED BY <2>3, <2>4, <4>1, <4>4
      <3>3. CASE i = k + 1
        <4>1. Len(a) = Offset(i) /\ Len(b) = NewToks(i)
          BY <2>5, <3>3
        <4>2. Offset(i) + m \in 1..(Len(a) + Len(b)) /\ ~(Offset(i) + m <= Len(a))
              /\ (Offset(i) + m) - Len(a) = m
          BY <3>1, <4>1
        <4>3. c[Offset(i) + m] = b[m]
          BY <2>6, <4>2
        <4>4. b[m] = <<i, First(i) + m - 1>>
          BY <2>4, <3>3 DEF PartOf
        <4>. QED BY <4>3, <4>4
      <3>. QED BY <2>2, <3>2, <3>3
    <2>. QED BY <2>4, <2>6, <2>7, <2>8
  <1>. HIDE DEF S
  <1>10. n \in S
    BY <1>1, <1>8, <1>9, Induct
  <1>11. P(n)
    <2>1. n <= n
      BY <1>1
    <2>. HIDE DEF P
    <2>. QED BY <1>10, <2>1 DEF S
  <1>. QED BY <1>1, <1>3, <1>11 DEF n

(* What is left of the lanes, from fst_idx on, in tokens_list. *)
LEMMA LeftFacts ==
  ASSUME PrefillAssumption, new \in Batches, SplitInv
  PROVE  \A i \in fidx..Len(new.lanes) :
           /\ info[i][1] \in Nat /\ info[i][2] \in Nat \ {0} /\ start[i] \in Nat
           /\ start[i] + info[i][2] = Offset(i + 1)
           /\ start[i] + info[i][2] <= Len(TokensList) /\ start[fidx] <= start[i]
           /\ i < Len(new.lanes) => start[i + 1] = start[i] + info[i][2]
           /\ \A m \in 1..info[i][2] : TokensList[start[i] + m] = <<i, info[i][1] + m - 1>>
  <1>. DEFINE n == Len(new.lanes)
  <1>1. n \in Nat \ {0} /\ Added = 1..n /\ fidx \in 1..n
    BY LaneFacts DEF SplitInv
  <1>2. \A i \in fidx..n :
          /\ i \in Added /\ i >= fidx /\ info[i] \in Nat \X Nat /\ start[i] \in Nat
          /\ First(i) \in Nat /\ NewToks(i) \in Nat /\ First(i) + NewToks(i) = NToks(i)
          /\ First(i) <= info[i][1] /\ info[i][1] + info[i][2] = NToks(i)
          /\ start[i] = Offset(i) + (info[i][1] - First(i)) /\ Twice < info[i][2]
          /\ i > fidx => info[i][1] = First(i)
    <2>1. SUFFICES ASSUME NEW i \in fidx..n
          PROVE  /\ i \in Added /\ i >= fidx /\ info[i] \in Nat \X Nat /\ start[i] \in Nat
                 /\ First(i) \in Nat /\ NewToks(i) \in Nat /\ First(i) + NewToks(i) = NToks(i)
                 /\ First(i) <= info[i][1] /\ info[i][1] + info[i][2] = NToks(i)
                 /\ start[i] = Offset(i) + (info[i][1] - First(i)) /\ Twice < info[i][2]
                 /\ i > fidx => info[i][1] = First(i)
      OBVIOUS
    <2>2. i \in Added /\ i >= fidx
      BY <1>1
    <2>3. First(i) \in Nat /\ NewToks(i) \in Nat /\ First(i) + NewToks(i) = NToks(i)
      BY <2>2, LaneFacts
    <2>4. info[i] \in Nat \X Nat /\ start[i] \in Nat
      BY <2>2 DEF SplitInv
    <2>5. /\ First(i) <= info[i][1] /\ info[i][1] + info[i][2] = NToks(i)
          /\ start[i] = Offset(i) + (info[i][1] - First(i)) /\ Twice < info[i][2]
          /\ i > fidx => info[i][1] - First(i) = 0
      BY <2>2 DEF SplitInv, Processed
    <2>. QED BY <2>2, <2>3, <2>4, <2>5
  <1>. HIDE DEF n
  <1>3. \A i \in Added : Offset(i) \in Nat /\ Offset(i + 1) = Offset(i) + NewToks(i)
    BY OffsetFacts
  <1>4. \A i, j \in 1..(n + 1) : i <= j => Offset(i) <= Offset(j)
    BY OffsetFacts DEF n
  <1>5. Len(TokensList) = Offset(n + 1)
    BY TokensFacts DEF n
  <1>6. ASSUME NEW i \in fidx..n
        PROVE  /\ info[i][1] \in Nat /\ info[i][2] \in Nat \ {0} /\ start[i] \in Nat
               /\ start[i] + info[i][2] = Offset(i + 1)
               /\ start[i] + info[i][2] <= Len(TokensList) /\ start[fidx] <= start[i]
               /\ i < n => start[i + 1] = start[i] + info[i][2]
               /\ \A m \in 1..info[i][2] : TokensList[start[i] + m] = <<i, info[i][1] + m - 1>>
    <2>1. Twice \in Nat
      BY DEF Twice
    <2>2. PICK a, b, o, c : a = info[i][1] /\ b = info[i][2] /\ o = Offset(i) /\ c = First(i)
      OBVIOUS
    <2>3. /\ a \in Nat /\ b \in Nat \ {0} /\ o \in Nat /\ c \in Nat /\ start[i] = o + (a - c)
          /\ c <= a /\ Offset(i + 1) = o + NewToks(i) /\ c + NewToks(i) = a + b /\ NewToks(i) \in Nat
      <3>1. /\ i \in Added /\ info[i] \in Nat \X Nat /\ Twice < info[i][2]
            /\ start[i] = Offset(i) + (info[i][1] - First(i))
            /\ First(i) <= info[i][1] /\ First(i) + NewToks(i) = info[i][1] + info[i][2]
            /\ First(i) \in Nat /\ NewToks(i) \in Nat
        BY <1>2
      <3>2. Offset(i) \in Nat /\ Offset(i + 1) = Offset(i) + NewToks(i)
        BY <1>3, <3>1
      <3>. QED BY <2>1, <2>2, <3>1, <3>2
    <2>4. start[i] + b = Offset(i + 1) /\ start[i] \in Nat
      <3>1. PICK e, s, x : e = NewToks(i) /\ s = start[i] /\ x = Offset(i + 1)
        OBVIOUS
      <3>2. s = o + (a - c) /\ x = o + e /\ c + e = a + b /\ e \in Nat
        BY <2>3, <3>1
      <3>3. s + b = x /\ s \in Nat
        BY <2>3, <3>2
      <3>. QED BY <3>1, <3>3
    <2>5. i + 1 \in 1..(n + 1) /\ n + 1 \in 1..(n + 1) /\ i + 1 <= n + 1 /\ fidx \in 1..(n + 1)
          /\ i \in 1..(n + 1) /\ i \in Added /\ fidx \in fidx..n
      BY <1>1
    <2>6. start[i] + b <= Len(TokensList)
      BY <1>4, <1>5, <2>4, <2>5
    <2>7. start[fidx] <= start[i]
      <3>1. CASE i = fidx
        BY <2>4, <3>1
      <3>2. CASE i > fidx
        <4>1. fidx + 1 \in 1..(n + 1) /\ fidx + 1 <= i /\ fidx \in Added
          BY <1>1, <3>2
        <4>2. Offset(fidx + 1) <= Offset(i)
          BY <1>4, <2>5, <4>1
        <4>3. Offset(fidx + 1) = Offset(fidx) + NewToks(fidx) /\ Offset(fidx) \in Nat
          BY <1>3, <4>1
        <4>4. /\ First(fidx) \in Nat /\ NewToks(fidx) \in Nat /\ info[fidx] \in Nat \X Nat
              /\ info[fidx][1] + info[fidx][2] = First(fidx) + NewToks(fidx)
              /\ start[fidx] = Offset(fidx) + (info[fidx][1] - First(fidx))
          BY <1>2, <2>5
        <4>5. PICK s, f, e, p, q, x, y : /\ s = start[fidx] /\ f = First(fidx) /\ e = NewToks(fidx)
                                         /\ p = info[fidx][1] /\ q = info[fidx][2]
                                         /\ x = Offset(fidx) /\ y = Offset(fidx + 1)
          OBVIOUS
        <4>6. f \in Nat /\ e \in Nat /\ p \in Nat /\ q \in Nat /\ x \in Nat /\ y = x + e
              /\ p + q = f + e /\ s = x + (p - f)
          BY <4>3, <4>4, <4>5
        <4>7. s <= y /\ y <= o /\ s \in Int /\ y \in Int
          <5>1. s <= y /\ s \in Int /\ y \in Int
            BY <4>6
          <5>2. y <= o
            BY <2>2, <4>2, <4>5
          <5>. QED BY <5>1, <5>2
        <4>8. o <= start[i] /\ start[i] \in Int
          BY <2>3, <2>4
        <4>. QED BY <2>3, <4>5, <4>7, <4>8
      <3>. QED BY <1>1, <3>1, <3>2
    <2>8. i < n => start[i + 1] = start[i] + b
      <3>1. ASSUME i < n PROVE start[i + 1] = start[i] + b
        <4>1. i + 1 \in fidx..n /\ i + 1 > fidx /\ i + 1 \in Added
          BY <1>1, <3>1
        <4>2. start[i + 1] = Offset(i + 1) + (info[i + 1][1] - First(i + 1))
              /\ info[i + 1][1] = First(i + 1) /\ First(i + 1) \in Nat
          BY <1>2, <4>1
        <4>3. Offset(i + 1) \in Nat
          BY <1>3, <4>1
        <4>. QED BY <2>4, <4>2, <4>3
      <3>. QED BY <3>1
    <2>9. ASSUME NEW m \in 1..b PROVE TokensList[start[i] + m] = <<i, a + m - 1>>
      <3>1. (a - c) + m \in 1..NewToks(i) /\ start[i] + m = o + ((a - c) + m)
            /\ c + ((a - c) + m) - 1 = a + m - 1
        <4>1. PICK s, w : s = start[i] /\ w = NewToks(i)
          OBVIOUS
        <4>2. a \in Nat /\ b \in Nat /\ o \in Nat /\ c \in Nat /\ s = o + (a - c) /\ c <= a /\ w \in Nat /\ c + w = a + b
          BY <2>3, <4>1
        <4>3. (a - c) + m \in 1..w /\ s + m = o + ((a - c) + m)
          BY <4>2
        <4>4. c + ((a - c) + m) - 1 = a + m - 1
          BY <4>2
        <4>. QED BY <4>1, <4>3, <4>4
      <3>2. \A k \in 1..NewToks(i) : TokensList[Offset(i) + k] = <<i, First(i) + k - 1>>
        BY <2>5, TokensFacts
      <3>. QED BY <2>2, <3>1, <3>2
    <2>. QED BY <2>2, <2>3, <2>4, <2>6, <2>7, <2>8, <2>9
  <1>. QED BY <1>6 DEF n

(* What a call on lanes fidx..t with the tokens up to end processes: the lanes before t to
   their end, lane t as far as seqs says. *)
Call(t, end, toks, seqs) ==
  /\ t \in fidx..Len(new.lanes)
  /\ \A i \in fidx..t : seqs[i][1] = info[i][1] /\ (i < t => seqs[i][2] = info[i][2])
  /\ \A i \in Added : seqs[i][2] \in Nat
  /\ seqs[t][2] <= info[t][2]
  /\ end \in Nat /\ end <= Len(TokensList) /\ start[t] + seqs[t][2] <= end
  /\ toks = SubSeq(TokensList, fst + 1, end)

(* Each lane of a call finds its own tokens in the call. *)
LEMMA CallTokens ==
  ASSUME PrefillAssumption, new \in Batches, SplitInv, NEW t, NEW end, NEW toks, NEW seqs,
         Call(t, end, toks, seqs), NEW i \in fidx..t
  PROVE  \A m \in 1..seqs[i][2] : toks[TokensBefore(i, fidx, seqs) + m] = <<i, info[i][1] + m - 1>>
  <1>. DEFINE n == Len(new.lanes)
  <1>1. n \in Nat \ {0} /\ Added = 1..n /\ fidx \in 1..n /\ t \in fidx..n /\ fst = start[fidx]
    BY LaneFacts DEF SplitInv, Call
  <1>. HIDE DEF n
  <1>2. /\ TokensBefore(fidx, fidx, seqs) = 0
        /\ \A j \in fidx..n : /\ TokensBefore(j, fidx, seqs) \in Nat
                              /\ TokensBefore(j + 1, fidx, seqs) = TokensBefore(j, fidx, seqs) + seqs[j][2]
    <2>1. \A j \in 1..n : seqs[j][2] \in Nat
      BY <1>1 DEF Call
    <2>. QED BY <1>1, <2>1, TokensBeforeFacts
  <1>3. \A j \in fidx..n : /\ start[j] \in Nat /\ info[j][2] \in Nat /\ start[fidx] <= start[j]
                           /\ j < n => start[j + 1] = start[j] + info[j][2]
                           /\ start[j] + info[j][2] <= Len(TokensList)
    BY LeftFacts DEF n
  <1>. DEFINE S == {k \in Nat : fidx + k <= t =>
                      /\ TokensBefore(fidx + k, fidx, seqs) = start[fidx + k] - start[fidx]
                      /\ \A j \in fidx..(fidx + k) : start[j] <= start[fidx + k]}
  <1>4. 0 \in S
    BY <1>1, <1>2, <1>3
  <1>5. ASSUME NEW k \in Nat, k \in S PROVE k + 1 \in S
    <2>1. SUFFICES ASSUME fidx + (k + 1) <= t
                   PROVE  /\ TokensBefore(fidx + (k + 1), fidx, seqs) = start[fidx + (k + 1)] - start[fidx]
                          /\ \A j \in fidx..(fidx + (k + 1)) : start[j] <= start[fidx + (k + 1)]
      OBVIOUS
    <2>2. PICK j : j = fidx + k
      OBVIOUS
    <2>3. /\ j \in fidx..n /\ j \in fidx..t /\ j < t /\ j < n /\ fidx + (k + 1) = j + 1
          /\ fidx \in fidx..n /\ j + 1 \in fidx..n
      BY <1>1, <2>1, <2>2
    <2>4. TokensBefore(j, fidx, seqs) = start[j] - start[fidx] /\ \A l \in fidx..j : start[l] <= start[j]
      BY <1>5, <2>2, <2>3
    <2>5. TokensBefore(j + 1, fidx, seqs) = TokensBefore(j, fidx, seqs) + info[j][2]
      BY <1>2, <2>3 DEF Call
    <2>6. start[j] \in Nat /\ start[fidx] \in Nat /\ info[j][2] \in Nat /\ start[j + 1] = start[j] + info[j][2]
      BY <1>3, <2>3
    <2>7. \A l \in fidx..(j + 1) : l \in fidx..j \/ l = j + 1
      BY <1>1, <2>3
    <2>8. \A l \in fidx..j : start[l] \in Nat
      BY <1>1, <1>3, <2>3
    <2>9. \A l \in fidx..(j + 1) : start[l] <= start[j + 1]
      BY <2>4, <2>6, <2>7, <2>8
    <2>10. TokensBefore(j + 1, fidx, seqs) = start[j + 1] - start[fidx]
      <3>1. PICK x, y, u, v, w : /\ x = start[j] /\ y = start[fidx] /\ u = start[j + 1] /\ w = info[j][2]
                                 /\ v = TokensBefore(j + 1, fidx, seqs)
        OBVIOUS
      <3>2. x \in Nat /\ y \in Nat /\ w \in Nat /\ u = x + w /\ v = (x - y) + w
        BY <2>4, <2>5, <2>6, <3>1
      <3>3. v = u - y
        BY <3>2
      <3>. QED BY <3>1, <3>3
    <2>. QED BY <2>3, <2>9, <2>10
  <1>. HIDE DEF S
  <1>6. \A k \in Nat : k \in S
    BY <1>4, <1>5, Induct
  <1>7. ASSUME NEW j \in fidx..t
        PROVE  /\ TokensBefore(j, fidx, seqs) = start[j] - start[fidx]
               /\ \A l \in fidx..j : start[l] <= start[j]
    <2>1. j - fidx \in Nat /\ fidx + (j - fidx) = j
      BY <1>1
    <2>2. j - fidx \in S
      BY <1>6, <2>1
    <2>. QED BY <2>1, <2>2 DEF S
  <1>8. SUFFICES ASSUME NEW m \in 1..seqs[i][2]
                 PROVE  toks[TokensBefore(i, fidx, seqs) + m] = <<i, info[i][1] + m - 1>>
    OBVIOUS
  <1>9. PICK s, f, q, b : s = start[i] /\ f = start[fidx] /\ q = seqs[i][2] /\ b = TokensBefore(i, fidx, seqs)
    OBVIOUS
  <1>10. /\ i \in fidx..n /\ fidx \in fidx..n /\ t \in fidx..n /\ i \in fidx..t /\ t \in fidx..t
         /\ s \in Nat /\ f \in Nat /\ f <= s /\ b = s - f /\ fst = f
    <2>1. i \in fidx..n /\ fidx \in fidx..n /\ t \in fidx..n /\ i \in fidx..t /\ t \in fidx..t
      BY <1>1
    <2>. QED BY <1>1, <1>3, <1>7, <1>9, <2>1
  <1>11. q \in Nat /\ q <= info[i][2] /\ s + q <= end /\ m \in 1..q
    <2>1. q \in Nat
      BY <1>1, <1>9, <1>10 DEF Call
    <2>2. CASE i = t
      BY <1>9, <2>1, <2>2 DEF Call
    <2>3. CASE i < t
      <3>1. q = info[i][2] /\ start[i + 1] = s + q /\ i + 1 \in fidx..t
        <4>1. i + 1 \in fidx..t /\ i < n
          BY <1>1, <1>10, <2>3
        <4>2. q = info[i][2]
          BY <1>9, <1>10, <2>3 DEF Call
        <4>3. start[i + 1] = start[i] + info[i][2]
          BY <1>3, <1>10, <4>1
        <4>. QED BY <1>9, <4>1, <4>2, <4>3
      <3>2. start[i + 1] <= start[t]
        BY <1>7, <1>10, <3>1
      <3>3. start[t] + seqs[t][2] <= end /\ seqs[t][2] \in Nat /\ start[t] \in Nat /\ end \in Nat
        BY <1>1, <1>3, <1>10 DEF Call
      <3>4. s + q <= start[t]
        BY <3>1, <3>2
      <3>5. s + q <= end
        <4>1. PICK x, y : x = start[t] /\ y = seqs[t][2]
          OBVIOUS
        <4>. QED BY <1>10, <2>1, <3>3, <3>4, <4>1
      <3>. QED BY <1>9, <2>1, <3>1, <3>5
    <2>. QED BY <1>9, <1>10, <2>2, <2>3, <1>1
  <1>12. TokensList[s + m] = <<i, info[i][1] + m - 1>>
    <2>1. m \in 1..info[i][2]
      BY <1>3, <1>10, <1>11
    <2>. QED BY <1>9, <1>10, <2>1, LeftFacts DEF n
  <1>13. toks[b + m] = TokensList[s + m]
    <2>1. TokensList \in Seq(Added \X Nat) /\ end \in Nat /\ end <= Len(TokensList) /\ toks = SubSeq(TokensList, f + 1, end)
      BY <1>10, TokensFacts DEF Call
    <2>2. PICK T : T = TokensList
      OBVIOUS
    <2>3. \A k \in (f + 1)..end : T[k] \in Added \X Nat
      <3>1. T \in Seq(Added \X Nat) /\ Len(T) \in Nat
        BY <2>1, <2>2, LenProperties
      <3>2. \A k \in (f + 1)..end : k \in 1..Len(T)
        BY <1>10, <2>1, <2>2, <3>1
      <3>. QED BY <3>1, <3>2, ElementOfSeq
    <2>4. f + 1 \in Int /\ end \in Int /\ b + m \in 1..(end - (f + 1) + 1) /\ (f + 1) + (b + m) - 1 = s + m
      BY <1>10, <1>11, <2>1
    <2>5. \A k \in 1..(end - (f + 1) + 1) : SubSeq(T, f + 1, end)[k] = T[(f + 1) + k - 1]
      BY <2>3, <2>4, SubSeqProperties
    <2>. QED BY <2>1, <2>2, <2>4, <2>5
  <1>. QED BY <1>9, <1>12, <1>13

(* After a call the blocks of one of its lanes have one more part of its tokens; the row of a
   lane that the call completes, and the log-probabilities, are those of its own tokens. *)
LEMMA CallLane ==
  ASSUME PrefillAssumption, new \in Batches, SplitInv, FilledInv, NEW t, NEW end, NEW toks, NEW seqs,
         Call(t, end, toks, seqs), NEW i \in fidx..t
  PROVE  /\ Own(i, Blocks(i, fidx, toks, seqs), 0..(info[i][1] + seqs[i][2] - 1))
         /\ info[i][1] + seqs[i][2] = NToks(i) => Row(i, fidx, toks, seqs) = OwnRow(i)
         /\ PromptLogprobs(i, fidx, toks, seqs) = TokensFrom(i, info[i][1], seqs[i][2] - 1)
  <1>1. PICK a, q, b : a = info[i][1] /\ q = seqs[i][2] /\ b = TokensBefore(i, fidx, seqs)
    OBVIOUS
  <1>2. /\ i \in Added /\ i >= fidx /\ i \in fidx..Len(new.lanes) /\ fidx \in Nat
        /\ a \in Nat /\ q \in Nat /\ b \in Nat /\ seqs[i][1] = a /\ NToks(i) \in Nat
        /\ First(i) \in Nat /\ First(i) < NToks(i) /\ First(i) <= a /\ a < NToks(i)
    <2>1. /\ Len(new.lanes) \in Nat /\ Added = 1..Len(new.lanes) /\ fidx \in Added
          /\ t \in fidx..Len(new.lanes)
      BY LaneFacts DEF SplitInv, Call
    <2>2. i \in Added /\ i >= fidx /\ i \in fidx..Len(new.lanes) /\ fidx \in Nat
      <3>1. PICK m \in Nat : m = Len(new.lanes)
        BY <2>1
      <3>2. fidx \in 1..m /\ t \in fidx..m /\ i \in fidx..t /\ Added = 1..m
        BY <2>1, <3>1
      <3>3. fidx \in Nat /\ i \in 1..m /\ i \in fidx..m /\ i >= fidx
        BY <3>2
      <3>. QED BY <3>1, <3>2, <3>3
    <2>3. a \in Nat /\ info[i][2] \in Nat \ {0}
      BY <1>1, <2>2, LeftFacts
    <2>4. q \in Nat /\ seqs[i][1] = a
      BY <1>1, <2>2 DEF Call
    <2>5. NToks(i) \in Nat /\ First(i) \in Nat /\ First(i) < NToks(i)
      BY <2>2, LaneFacts
    <2>6. First(i) <= a /\ a + info[i][2] = NToks(i)
      BY <1>1, <2>2 DEF SplitInv
    <2>7. b \in Nat
      <3>1. \A j \in 1..Len(new.lanes) : seqs[j][2] \in Nat
        BY <2>1 DEF Call
      <3>2. fidx \in 1..Len(new.lanes)
        BY <2>1
      <3>3. TokensBefore(i, fidx, seqs) \in Nat
        BY <2>1, <2>2, <3>1, <3>2, TokensBeforeFacts
      <3>. QED BY <1>1, <3>3
    <2>8. a < NToks(i)
      BY <2>3, <2>5, <2>6
    <2>. QED BY <2>2, <2>3, <2>4, <2>5, <2>6, <2>7, <2>8
  <1>3. \A m \in 1..q : toks[b + m] = <<i, a + m - 1>>
    BY <1>1, CallTokens
  <1>4. Written(i, fidx, toks, seqs) = [p \in a..(a + q - 1) |-> <<i, p>>]
    <2>1. Written(i, fidx, toks, seqs) = [p \in a..(a + q - 1) |-> toks[b + p - a + 1]]
      BY <1>1, <1>2 DEF Written
    <2>2. ASSUME NEW p \in a..(a + q - 1) PROVE toks[b + p - a + 1] = <<i, p>>
      <3>0. a \in Int /\ q \in Int /\ b \in Int /\ p \in a..(a + q - 1)
        BY <1>2
      <3>1. (p - a) + 1 \in 1..q /\ b + p - a + 1 = b + ((p - a) + 1) /\ a + ((p - a) + 1) - 1 = p
        BY ONLY <3>0
      <3>. QED BY <1>3, <3>1
    <2>. QED BY <2>1, <2>2
  <1>5. Own(i, Held(i), 0..(a - 1))
    <2>1. Filled(i) = a
      BY <1>1, <1>2 DEF Filled
    <2>. QED BY <1>2, <2>1 DEF FilledInv
  <1>6. Own(i, Blocks(i, fidx, toks, seqs), 0..(a + q - 1))
    <2>1. PICK w, h : w = [p \in a..(a + q - 1) |-> <<i, p>>] /\ h = Held(i)
      OBVIOUS
    <2>2. Blocks(i, fidx, toks, seqs) = Over(w, h)
      BY <1>4, <2>1 DEF Blocks
    <2>3. ASSUME NEW p \in 0..(a + q - 1)
          PROVE  p \in DOMAIN Over(w, h) /\ Over(w, h)[p] = <<i, p>>
      <3>1. CASE p \in a..(a + q - 1)
        BY <2>1, <3>1 DEF Over
      <3>2. CASE p \in 0..(a - 1)
        <4>1. p \in DOMAIN h /\ h[p] = <<i, p>>
          BY <1>5, <2>1, <3>2 DEF Own
        <4>2. p \notin DOMAIN w
          BY <1>2, <2>1, <3>2
        <4>. QED BY <4>1, <4>2 DEF Over
      <3>. QED BY <1>2, <3>1, <3>2
    <2>. QED BY <2>2, <2>3 DEF Own
  <1>7. ASSUME a + q = NToks(i) PROVE Row(i, fidx, toks, seqs) = OwnRow(i)
    <2>1. q \in 1..q /\ q # 0 /\ a + q - 1 = NToks(i) - 1
      <3>1. PICK l : l = NToks(i)
        OBVIOUS
      <3>2. a \in Nat /\ q \in Nat /\ l \in Nat /\ a < l /\ a + q = l
        BY <1>2, <1>7, <3>1
      <3>3. q \in 1..q /\ q # 0 /\ a + q - 1 = l - 1
        BY <3>2
      <3>. QED BY <3>1, <3>3
    <2>2. toks[b + q] = <<i, NToks(i) - 1>>
      BY <1>3, <2>1
    <2>3. \A p \in 0..(NToks(i) - 1) : At(Blocks(i, fidx, toks, seqs), p) = <<i, p>>
      BY <1>6, <2>1 DEF Own, At
    <2>4. Row(i, fidx, toks, seqs) =
            [after |-> toks[b + q], sees |-> [p \in 0..(a + q - 1) |-> At(Blocks(i, fidx, toks, seqs), p)]]
      BY <1>1, <1>2, <2>1 DEF Row
    <2>. QED BY <2>1, <2>2, <2>3, <2>4 DEF OwnRow
  <1>8. PromptLogprobs(i, fidx, toks, seqs) = TokensFrom(i, a, q - 1)
    <2>1. PromptLogprobs(i, fidx, toks, seqs) = [k \in 1..(q - 1) |-> toks[b + k + 1]]
      BY <1>1 DEF PromptLogprobs
    <2>2. ASSUME NEW k \in 1..(q - 1) PROVE toks[b + k + 1] = <<i, a + k>>
      <3>1. k + 1 \in 1..q /\ b + k + 1 = b + (k + 1) /\ a + (k + 1) - 1 = a + k
        BY <1>2
      <3>. QED BY <1>3, <3>1
    <2>. QED BY <2>1, <2>2 DEF TokensFrom
  <1>. QED BY <1>1, <1>6, <1>7, <1>8

(* A run of tokens of lane i from position c + 1 on, and a run that follows it. *)
IsRun(s, i, c) == Len(s) \in Nat /\ s = TokensFrom(i, c, Len(s))

(* Joined, they are one run. *)
LEMMA RunsJoin ==
  ASSUME NEW i, NEW c \in Nat, NEW x, NEW y, IsRun(x, i, c), IsRun(y, i, c + Len(x))
  PROVE  IsRun(x \o y, i, c) /\ Len(x \o y) = Len(x) + Len(y)
  <1>. DEFINE S == {i} \X Nat
  <1>1. PICK d, e, z : d = Len(x) /\ e = Len(y) /\ z = TokensFrom(i, c, d + e)
    OBVIOUS
  <1>2. /\ x = [k \in 1..d |-> <<i, c + k>>] /\ d \in Nat
        /\ y = [k \in 1..e |-> <<i, (c + d) + k>>] /\ e \in Nat
        /\ z = [k \in 1..(d + e) |-> <<i, c + k>>]
    BY <1>1 DEF TokensFrom, IsRun
  <1>3. x \in Seq(S) /\ y \in Seq(S) /\ z \in Seq(S) /\ Len(z) = d + e
    <2>1. d \in Nat /\ e \in Nat /\ d + e \in Nat
      BY <1>2
    <2>2. /\ \A k \in 1..d : <<i, c + k>> \in S
          /\ \A k \in 1..e : <<i, (c + d) + k>> \in S
          /\ \A k \in 1..(d + e) : <<i, c + k>> \in S
      BY <2>1
    <2>. HIDE DEF S
    <2>3. [k \in 1..d |-> <<i, c + k>>] \in Seq(S)
      BY <2>1, <2>2
    <2>4. [k \in 1..e |-> <<i, (c + d) + k>>] \in Seq(S)
      BY <2>1, <2>2
    <2>5. /\ [k \in 1..(d + e) |-> <<i, c + k>>] \in Seq(S)
          /\ Len([k \in 1..(d + e) |-> <<i, c + k>>]) = d + e
      BY <2>1, <2>2
    <2>. QED BY <1>2, <2>3, <2>4, <2>5
  <1>4. /\ x \o y \in Seq(S) /\ Len(x \o y) = d + e
        /\ \A k \in 1..(d + e) : (x \o y)[k] = IF k <= d THEN x[k] ELSE y[k - d]
    <2>. HIDE DEF S
    <2>. QED BY <1>1, <1>3, ConcatProperties
  <1>5. ASSUME NEW k \in 1..(d + e) PROVE (x \o y)[k] = z[k]
    <2>1. CASE k <= d
      <3>1. k \in 1..d
        BY <1>2, <2>1
      <3>. QED BY <1>2, <1>4, <3>1
    <2>2. CASE ~(k <= d)
      <3>1. k - d \in 1..e /\ (c + d) + (k - d) = c + k
        BY <1>2, <2>2
      <3>. QED BY <1>2, <1>4, <2>2, <3>1
    <2>. QED BY <2>1, <2>2
  <1>. HIDE DEF S
  <1>6. x \o y = z
    <2>1. PICK u : u = x \o y
      OBVIOUS
    <2>2. u \in Seq(S) /\ Len(u) = Len(z) /\ \A k \in 1..Len(u) : u[k] = z[k]
      BY <1>3, <1>4, <1>5, <2>1
    <2>3. u = z
      BY <1>3, <2>2, SeqEqual
    <2>. QED BY <2>1, <2>3
  <1>7. Len(x \o y) = d + e /\ d + e \in Nat
    BY <1>2, <1>4
  <1>8. IsRun(x \o y, i, c)
    BY <1>1, <1>6, <1>7 DEF IsRun
  <1>. QED BY <1>1, <1>7, <1>8

(* Such a run has the length it is made with. *)
LEMMA RunIs ==
  ASSUME NEW i, NEW c, NEW m \in Nat
  PROVE  IsRun(TokensFrom(i, c, m), i, c) /\ Len(TokensFrom(i, c, m)) = m
  BY DEF TokensFrom, IsRun

(* The rows that are there and those that the lanes fidx..t are to give. *)
LEMMA RowsJoin ==
  ASSUME NEW t \in Nat, NEW f \in 1..(t + 1), NEW got, NEW r,
         r = [i \in 1..(f - 1) |-> OwnRow(i)],
         got = [k \in 1..(t - f + 1) |-> OwnRow(f + k - 1)]
  PROVE  r \o got = [i \in 1..t |-> OwnRow(i)]
  <1>. DEFINE S == {OwnRow(i) : i \in 1..t}
              z == [i \in 1..t |-> OwnRow(i)]
  <1>1. f - 1 \in Nat /\ t - f + 1 \in Nat /\ (f - 1) + (t - f + 1) = t
    OBVIOUS
  <1>2. r \in Seq(S) /\ Len(r) = f - 1
    <2>1. \A i \in 1..(f - 1) : OwnRow(i) \in S
      OBVIOUS
    <2>. HIDE DEF S
    <2>. QED BY <1>1, <2>1
  <1>3. got \in Seq(S) /\ Len(got) = t - f + 1
    <2>1. \A k \in 1..(t - f + 1) : OwnRow(f + k - 1) \in S
      <3>1. \A k \in 1..(t - f + 1) : f + k - 1 \in 1..t
        OBVIOUS
      <3>. QED BY <3>1
    <2>. HIDE DEF S
    <2>. QED BY <1>1, <2>1
  <1>4. z \in Seq(S) /\ Len(z) = t
    <2>1. \A i \in 1..t : OwnRow(i) \in S
      OBVIOUS
    <2>. HIDE DEF S
    <2>. QED BY <2>1
  <1>. HIDE DEF S
  <1>5. /\ r \o got \in Seq(S) /\ Len(r \o got) = t
        /\ \A k \in 1..t : (r \o got)[k] = IF k <= f - 1 THEN r[k] ELSE got[k - (f - 1)]
    BY <1>1, <1>2, <1>3, ConcatProperties
  <1>6. ASSUME NEW k \in 1..t PROVE (r \o got)[k] = z[k]
    <2>1. CASE k <= f - 1
      <3>1. k \in 1..(f - 1)
        BY <2>1
      <3>. QED BY <1>5, <3>1
    <2>2. CASE ~(k <= f - 1)
      <3>1. k - (f - 1) \in 1..(t - f + 1) /\ f + (k - (f - 1)) - 1 = k
        BY <2>2
      <3>. QED BY <1>5, <2>2, <3>1
    <2>. QED BY <2>1, <2>2
  <1>. HIDE DEF z
  <1>7. PICK u : u = r \o got
    OBVIOUS
  <1>8. u \in Seq(S) /\ Len(u) = Len(z) /\ \A k \in 1..Len(u) : u[k] = z[k]
    BY <1>4, <1>5, <1>6, <1>7
  <1>9. u = z
    BY <1>4, <1>8, SeqEqual
  <1>. QED BY <1>7, <1>9 DEF z

(* The lane that the end of a call cuts, and the assertions about it. *)
LEMMA SplitFacts ==
  ASSUME PrefillAssumption, new \in Batches, SplitInv, More
  PROVE  /\ SplitLane \in fidx..Len(new.lanes) /\ start[SplitLane] < lst
         /\ Cut \in Nat /\ CutsLane /\ Cut = lst - start[SplitLane]
  <1>. DEFINE n == Len(new.lanes)
              L == {i \in fidx..n : start[i] < lst}
  <1>1. n \in Nat /\ fidx \in 1..n
    BY LaneFacts DEF SplitInv
  <1>2. lst = start[fidx] + MaxPrefill /\ MaxPrefill \in Nat /\ MaxPrefill > 2 /\ lst < Len(TokensList)
    BY DEF SplitInv, More, PrefillAssumption
  <1>3. SplitLane = Max(L)
    BY DEF SplitLane
  <1>. HIDE DEF n
  <1>4. \A i \in fidx..n : /\ start[i] \in Nat /\ info[i][2] \in Nat
                           /\ i < n => start[i + 1] = start[i] + info[i][2]
                           /\ i = n => start[i] + info[i][2] = Len(TokensList)
    <2>1. \A i \in fidx..n : /\ start[i] \in Nat /\ info[i][2] \in Nat
                             /\ i < n => start[i + 1] = start[i] + info[i][2]
                             /\ start[i] + info[i][2] = Offset(i + 1)
      BY LeftFacts DEF n
    <2>2. Len(TokensList) = Offset(n + 1)
      BY TokensFacts DEF n
    <2>. QED BY <2>1, <2>2
  <1>5. fidx \in L /\ L \in SUBSET (1..n) /\ lst \in Nat
    <2>1. fidx \in fidx..n /\ start[fidx] \in Nat
      BY <1>1, <1>4
    <2>. QED BY <1>1, <1>2, <2>1
  <1>. HIDE DEF L
  <1>6. Max(L) \in L /\ \A i \in L : i <= Max(L)
    <2>1. n \in Int /\ L # {}
      BY <1>1, <1>5
    <2>. QED BY <1>5, <2>1, MaxFacts
  <1>7. PICK t : t = SplitLane
    OBVIOUS
  <1>8. t \in fidx..n /\ start[t] < lst /\ start[t] \in Nat /\ info[t][2] \in Nat /\ Cut = lst - start[t]
    <2>1. t \in L
      BY <1>3, <1>6, <1>7
    <2>2. t \in fidx..n /\ start[t] < lst
      BY <2>1 DEF L
    <2>. QED BY <1>4, <1>7, <2>2 DEF Cut
  <1>9. lst <= start[t] + info[t][2]
    <2>1. CASE t = n
      <3>1. start[t] + info[t][2] = Len(TokensList)
        BY <1>4, <1>8, <2>1
      <3>. QED BY <1>2, <1>5, <3>1, <1>8
    <2>2. CASE t < n
      <3>1. t + 1 \in fidx..n /\ ~(t + 1 <= t)
        BY <1>1, <1>8, <2>2
      <3>2. t + 1 \notin L
        BY <1>3, <1>6, <1>7, <3>1
      <3>3. ~(start[t + 1] < lst) /\ start[t + 1] \in Nat
        BY <1>4, <3>1, <3>2 DEF L
      <3>4. start[t + 1] = start[t] + info[t][2]
        BY <1>4, <1>8, <2>2
      <3>. QED BY <1>5, <3>3, <3>4
    <2>. QED BY <1>1, <1>8, <2>1, <2>2
  <1>10. Cut \in Nat /\ 0 < Cut /\ Cut <= info[t][2]
    <2>1. PICK s, z : s = start[t] /\ z = info[t][2]
      OBVIOUS
    <2>2. s \in Nat /\ z \in Nat /\ s < lst /\ lst <= s + z /\ lst \in Int /\ Cut = lst - s
      BY <1>4, <1>5, <1>8, <1>9, <2>1
    <2>. QED BY <2>1, <2>2
  <1>. QED BY <1>7, <1>8, <1>10 DEF n, CutsLane

(* A batch that asks for log-probabilities has more than one token to       *)
(* process of each lane.  Without it a call that is cut there gives a lane  *)
(* the last token of another (run prefill_logprobs).                        *)
LogprobsOfSeveral ==
  \A b \in Batches : b.logprobs =>
    \A i \in DOMAIN b.lanes : b.lanes[i].len - CachedTokens(b.lanes[i]) > 1

(* The first call has everything before it. *)
LEMMA PrefillStarts ==
  ASSUME PrefillAssumption, LogprobsOfSeveral, PrefillInit
  PROVE  PrefillInv
  <1>1. new \in Batches /\ pf = "split" /\ fidx = 1 /\ fst = 0 /\ lst = MaxPrefill /\ rows = <<>>
        /\ mode = {"in", "out"}
        /\ kv = [i \in Added |-> <<>>] /\ lps = kv /\ info = Spans
    BY DEF PrefillInit, Spans, First, NewToks
  <1>2. 1 \in Added /\ Added = 1..Len(new.lanes) /\ Len(new.lanes) \in Nat
    BY <1>1, LaneFacts
  <1>3. \A i \in Added : /\ NToks(i) \in Nat /\ Ready(i) \in Nat /\ First(i) \in Nat /\ First(i) <= Ready(i)
                         /\ NewToks(i) \in Nat \ {0} /\ First(i) + NewToks(i) = NToks(i)
    BY <1>1, LaneFacts
  <1>4. \A i \in Added : info[i] = <<First(i), NewToks(i)>> /\ Processed(i) = 0
    BY <1>1, <1>3 DEF Spans, Processed
  <1>5. start = [i \in Added |-> Offset(i)]
    <2>1. start = [i \in Added |-> TokensBefore(i, 1, info)]
      BY DEF PrefillInit, TokensBefore
    <2>. QED BY <1>1, <2>1 DEF Offset
  <1>6. Offset(1) = 0 /\ \A i \in Added : Offset(i) \in Nat
    BY <1>1, OffsetFacts
  <1>7. \A i \in Added : Twice < NewToks(i)
    <2>1. CASE new.logprobs
      <3>1. \A i \in Added : NewToks(i) > 1
        BY <1>1, <2>1 DEF LogprobsOfSeveral, NewToks, NToks, First, Added
      <3>. QED BY <1>3, <2>1, <3>1 DEF Twice
    <2>2. CASE ~new.logprobs
      BY <1>3, <2>2 DEF Twice
    <2>. QED BY <2>1, <2>2
  <1>8. SplitInv
    <2>1. info \in [Added -> Nat \X Nat]
      BY <1>1, <1>3 DEF Spans
    <2>2. start \in [Added -> Nat]
      BY <1>5, <1>6
    <2>3. fidx \in Added /\ fst = start[fidx] /\ lst = fst + MaxPrefill
      BY <1>1, <1>2, <1>5, <1>6 DEF PrefillAssumption
    <2>4. ASSUME NEW i \in Added
          PROVE  /\ First(i) <= info[i][1] /\ info[i][1] + info[i][2] = NToks(i)
                 /\ start[i] = Offset(i) + Processed(i)
                 /\ Twice < info[i][2] /\ Processed(i) = 0
      BY <1>3, <1>4, <1>5, <1>6, <1>7
    <2>. QED BY <2>1, <2>2, <2>3, <2>4 DEF SplitInv
  <1>9. FilledInv
    <2>1. ASSUME NEW i \in Added PROVE Own(i, Held(i), 0..(Filled(i) - 1))
      <3>1. Filled(i) = First(i)
        BY <1>1, <1>2, <1>4 DEF Filled
      <3>2. 0..(First(i) - 1) \subseteq 0..(Ready(i) - 1)
        BY <1>3
      <3>3. InPages(i) = [p \in 0..(Ready(i) - 1) |-> <<i, p>>]
        BY <1>1 DEF InPages
      <3>. QED BY <3>1, <3>2, <3>3 DEF Own, Held, Over
    <2>2. rows = [i \in 1..(fidx - 1) |-> OwnRow(i)]
      <3>1. 1..(fidx - 1) = {}
        BY <1>1
      <3>. QED BY <1>1, <3>1
    <2>3. DOMAIN lps = Added
      BY <1>1
    <2>4. ASSUME NEW i \in Added PROVE lps[i] = TokensFrom(i, First(i), Scored(i))
      <3>1. 1..Scored(i) = {}
        BY <1>1, <1>2, <1>4 DEF Scored
      <3>. QED BY <1>1, <3>1 DEF TokensFrom
    <2>. QED BY <2>1, <2>2, <2>3, <2>4 DEF FilledInv
  <1>. QED BY <1>1, <1>8, <1>9 DEF PrefillInv

(* The last call serves the lanes that are left. *)
LEMMA LastChunkStep ==
  ASSUME PrefillAssumption, PrefillInv, LastChunk
  PROVE  PrefillInv'
  <1>. DEFINE n == Len(new.lanes)  end == Len(TokensList)  toks == SubSeq(TokensList, fst + 1, end)
  <1>1. /\ new \in Batches /\ pf = "split" /\ SplitInv /\ FilledInv /\ mode' = mode \cup {"out"}
        /\ PrefillCall(fidx, n, toks, info, TRUE) /\ pf' = "done" /\ new' = new
    BY DEF PrefillInv, LastChunk
  <1>2. n \in Nat /\ n \in Added /\ Added = 1..n /\ fidx \in 1..n /\ fidx \in Nat
    <2>1. n \in Nat \ {0} /\ Added = 1..n
      BY <1>1, LaneFacts
    <2>2. fidx \in Added
      BY <1>1 DEF SplitInv
    <2>. HIDE DEF n
    <2>. QED BY <2>1, <2>2
  <1>3. Call(n, end, toks, info)
    <2>1. n \in fidx..n /\ TokensList \in Seq(Added \X Nat)
      BY <1>1, <1>2, TokensFacts
    <2>2. end \in Nat /\ end <= end
      BY <2>1, LenProperties
    <2>3. info \in [Added -> Nat \X Nat]
      BY <1>1 DEF SplitInv
    <2>4. \A i \in Added : info[i][2] \in Nat
      BY <2>3
    <2>5. start[n] + info[n][2] <= end
      BY <1>1, <2>1, LeftFacts
    <2>6. info[n][2] <= info[n][2]
      <3>1. PICK x : x = info[n][2]
        OBVIOUS
      <3>2. x \in Nat
        BY <1>2, <2>4, <3>1
      <3>. QED BY <3>1, <3>2
    <2>. HIDE DEF n, end
    <2>. QED BY <2>1, <2>2, <2>4, <2>5, <2>6 DEF Call, n, end
  <1>. DEFINE B(i) == Blocks(i, fidx, toks, info)
              blocks == [i \in Added |-> IF fidx <= i /\ i <= n THEN B(i) ELSE Held(i)]
              got == [k \in 1..(n - fidx + 1) |-> Row(fidx + k - 1, fidx, toks, info)]
              P(i) == PromptLogprobs(i, fidx, toks, info)
  <1>4. /\ kv' = blocks /\ rows' = rows \o got
        /\ lps' = [i \in Added |-> IF new.logprobs /\ fidx <= i /\ i <= n THEN lps[i] \o P(i) ELSE lps[i]]
        /\ paged' = [i \in Added |-> [p \in OutPages(i) |-> At(blocks[i], p)]]
    BY <1>1 DEF PrefillCall
  <1>. HIDE DEF n, end, toks, B, P
  <1>5. \A i \in fidx..n : /\ Own(i, B(i), 0..(NToks(i) - 1)) /\ Row(i, fidx, toks, info) = OwnRow(i)
                           /\ P(i) = TokensFrom(i, info[i][1], info[i][2] - 1)
                           /\ i \in Added /\ info[i][1] + info[i][2] = NToks(i)
    <2>1. SUFFICES ASSUME NEW i \in fidx..n
          PROVE  /\ Own(i, B(i), 0..(NToks(i) - 1)) /\ Row(i, fidx, toks, info) = OwnRow(i)
                 /\ P(i) = TokensFrom(i, info[i][1], info[i][2] - 1)
                 /\ i \in Added /\ info[i][1] + info[i][2] = NToks(i)
      OBVIOUS
    <2>2. i \in Added /\ i >= fidx
      BY <1>2
    <2>3. info[i][1] + info[i][2] = NToks(i)
      BY <1>1, <2>2 DEF SplitInv
    <2>4. /\ Own(i, B(i), 0..(info[i][1] + info[i][2] - 1))
          /\ info[i][1] + info[i][2] = NToks(i) => Row(i, fidx, toks, info) = OwnRow(i)
          /\ P(i) = TokensFrom(i, info[i][1], info[i][2] - 1)
      BY <1>1, <1>3, CallLane DEF B, P
    <2>5. info[i][1] + info[i][2] - 1 = NToks(i) - 1
      <3>1. info[i][1] \in Nat /\ info[i][2] \in Nat
        BY <1>1, LeftFacts DEF n
      <3>2. PICK x, y, z : x = info[i][1] /\ y = info[i][2] /\ z = NToks(i)
        OBVIOUS
      <3>3. x \in Nat /\ y \in Nat /\ x + y = z
        BY <2>3, <3>1, <3>2
      <3>4. x + y - 1 = z - 1
        BY ONLY <3>3
      <3>. QED BY <3>2, <3>4
    <2>6. Own(i, B(i), 0..(NToks(i) - 1))
      BY <2>4, <2>5
    <2>. QED BY <2>2, <2>3, <2>4, <2>6
  <1>6. ASSUME NEW i \in Added PROVE Own(i, kv'[i], 0..(NToks(i) - 1))
    <2>1. CASE fidx <= i
      <3>1. i \in fidx..n /\ kv'[i] = B(i)
        BY <1>2, <1>4, <2>1
      <3>. QED BY <1>5, <3>1
    <2>2. CASE ~(fidx <= i)
      <3>1. i < fidx /\ kv'[i] = Held(i)
        BY <1>2, <1>4, <2>2
      <3>2. Filled(i) = NToks(i)
        BY <3>1 DEF Filled
      <3>. QED BY <1>1, <3>1, <3>2 DEF FilledInv
    <2>. QED BY <2>1, <2>2
  <1>7. ASSUME NEW i \in Added PROVE Own(i, paged'[i], OutPages(i))
    <2>1. OutPages(i) \subseteq 0..(NToks(i) - 1)
      BY <1>1, OutPagesFacts
    <2>2. kv'[i] = blocks[i] /\ paged'[i] = [p \in OutPages(i) |-> At(blocks[i], p)]
      BY <1>4
    <2>. HIDE DEF blocks
    <2>. QED BY <1>6, <2>1, <2>2 DEF Own, At
  <1>8. rows' = [i \in 1..n |-> OwnRow(i)]
    <2>1. rows = [i \in 1..(fidx - 1) |-> OwnRow(i)]
      BY <1>1 DEF FilledInv
    <2>2. got = [k \in 1..(n - fidx + 1) |-> OwnRow(fidx + k - 1)]
      <3>1. \A k \in 1..(n - fidx + 1) : fidx + k - 1 \in fidx..n
        BY <1>2
      <3>. QED BY <1>5, <3>1
    <2>. HIDE DEF got
    <2>3. fidx \in 1..(n + 1)
      BY <1>2
    <2>4. rows \o got = [i \in 1..n |-> OwnRow(i)]
      BY <1>2, <2>1, <2>2, <2>3, RowsJoin
    <2>. QED BY <1>4, <2>4
  <1>9. ASSUME new.logprobs, NEW i \in Added
        PROVE  lps'[i] = TokensFrom(i, First(i), NToks(i) - 1 - First(i))
    <2>0. /\ NToks(i) \in Nat /\ First(i) \in Nat /\ First(i) + NewToks(i) = NToks(i) /\ NewToks(i) \in Nat \ {0}
          /\ lps[i] = TokensFrom(i, First(i), Scored(i))
      BY <1>1, <1>9, LaneFacts DEF FilledInv
    <2>1. CASE fidx <= i
      <3>1. i \in fidx..n /\ lps'[i] = lps[i] \o P(i)
        BY <1>2, <1>4, <1>9, <2>1
      <3>2. PICK a, q, c, d : a = info[i][1] /\ q = info[i][2] /\ c = First(i) /\ d = a - c
        OBVIOUS
      <3>3. Scored(i) = d
        BY <1>2, <2>1, <3>2 DEF Scored, Processed
      <3>4. c <= a /\ a + q = NToks(i) /\ Twice < q
        BY <1>1, <2>1, <3>2 DEF SplitInv
      <3>5. a \in Nat /\ q \in Nat \ {0}
        BY <1>1, <3>1, <3>2, LeftFacts DEF n
      <3>6. d \in Nat /\ c \in Nat /\ q - 1 \in Nat /\ c + d = a /\ d + (q - 1) = NToks(i) - 1 - c
        <4>1. PICK l : l = NToks(i)
          OBVIOUS
        <4>2. l \in Nat /\ c \in Nat /\ c <= a /\ a + q = l
          BY <2>0, <3>2, <3>4, <4>1
        <4>3. /\ d \in Nat /\ c \in Nat /\ q - 1 \in Nat /\ c + d = a /\ d + (q - 1) = l - 1 - c
          <5>1. d = a - c
            BY <3>2
          <5>2. d \in Nat /\ q - 1 \in Nat /\ c + d = a
            BY <3>5, <4>2, <5>1
          <5>3. d + (q - 1) = l - 1 - c
            BY <3>5, <4>2, <5>1
          <5>. QED BY <4>2, <5>2, <5>3
        <4>. QED BY <4>1, <4>3
      <3>7. TokensFrom(i, c, d) \o TokensFrom(i, a, q - 1) = TokensFrom(i, c, NToks(i) - 1 - c)
        <4>1. PICK x, y : x = TokensFrom(i, c, d) /\ y = TokensFrom(i, a, q - 1)
          OBVIOUS
        <4>2. IsRun(x, i, c) /\ IsRun(y, i, c + Len(x)) /\ Len(x) = d /\ Len(y) = q - 1
          BY <3>6, <4>1, RunIs
        <4>a. c \in Nat /\ IsRun(x, i, c) /\ IsRun(y, i, c + Len(x))
          BY <3>6, <4>2
        <4>b. IsRun(x \o y, i, c) /\ Len(x \o y) = Len(x) + Len(y)
          BY ONLY <4>a, RunsJoin
        <4>3. IsRun(x \o y, i, c) /\ Len(x \o y) = d + (q - 1)
          BY <4>2, <4>b
        <4>. QED BY <3>6, <4>1, <4>3 DEF IsRun
      <3>8. lps[i] = TokensFrom(i, c, d) /\ P(i) = TokensFrom(i, a, q - 1)
        BY <1>5, <2>0, <3>1, <3>2, <3>3
      <3>. QED BY <3>1, <3>2, <3>7, <3>8
    <2>2. CASE ~(fidx <= i)
      <3>1. lps'[i] = lps[i]
        BY <1>4, <2>2
      <3>2. i < fidx
        BY <1>2, <2>2
      <3>3. Scored(i) = NewToks(i) - 1 /\ NewToks(i) - 1 = NToks(i) - 1 - First(i)
        BY <2>0, <3>2 DEF Scored
      <3>. QED BY <2>0, <3>1, <3>3
    <2>. QED BY <2>1, <2>2
  <1>10. LanesServed'
    <2>1. Len(rows') = Len(new.lanes)
      BY <1>2, <1>8 DEF n
    <2>2. \A i \in Added : rows'[i] = [after |-> <<i, NToks(i) - 1>>, sees |-> [p \in 0..(NToks(i) - 1) |-> <<i, p>>]]
      BY <1>2, <1>8 DEF OwnRow
    <2>3. Added' = Added /\ \A i : NToks(i)' = NToks(i) /\ OutPages(i)' = OutPages(i)
      BY <1>1 DEF Added, NToks, OutPages, Ready
    <2>4. \A i : CachedTokens(new'.lanes[i]) = First(i)
      BY <1>1 DEF First
    <2>. QED BY <1>1, <1>6, <1>7, <1>9, <2>1, <2>2, <2>3, <2>4 DEF LanesServed, TokensFrom
  <1>. QED BY <1>1, <1>10 DEF PrefillInv

(* A call that is not the last serves the lanes before the one it cuts. *)
LEMMA ChunkStep ==
  ASSUME PrefillAssumption, LogprobsOfSeveral, PrefillInv, Chunk
  PROVE  PrefillInv'
  <1>. DEFINE n == Len(new.lanes)
  <1>1. new \in Batches /\ pf = "split" /\ SplitInv /\ FilledInv /\ More /\ new' = new /\ pf' = pf
    BY DEF PrefillInv, Chunk
  <1>2. n \in Nat /\ Added = 1..n /\ fidx \in 1..n /\ fidx \in Nat /\ fidx \in Added
    <2>1. n \in Nat \ {0} /\ Added = 1..n
      BY <1>1, LaneFacts
    <2>2. fidx \in Added
      BY <1>1 DEF SplitInv
    <2>. HIDE DEF n
    <2>. QED BY <2>1, <2>2
  <1>3. PICK t, q, end, seqs, toks :
          /\ t = SplitLane /\ q = KeepsOne(Cut) /\ end = lst - (Cut - q)
          /\ seqs = [info EXCEPT ![t][2] = q] /\ toks = SubSeq(TokensList, fst + 1, end)
    OBVIOUS
  <1>4. /\ mode' = mode \ {"out", "in"} /\ PrefillCall(fidx, t, toks, seqs, FALSE)
        /\ info' = [info EXCEPT ![t] = <<@[1] + (q - Twice), @[2] - (q - Twice)>>]
        /\ start' = [start EXCEPT ![t] = @ + (q - Twice)]
        /\ fidx' = t /\ fst' = end - Twice /\ lst' = end - Twice + MaxPrefill
    BY <1>3 DEF Chunk
  <1>5. /\ t \in fidx..n /\ Cut \in Nat /\ 0 < Cut /\ Cut <= info[t][2] /\ Cut = lst - start[t]
    BY <1>1, <1>3, SplitFacts DEF CutsLane
  <1>6. PICK a, z, s : a = info[t][1] /\ z = info[t][2] /\ s = start[t]
    OBVIOUS
  <1>7. /\ a \in Nat /\ z \in Nat /\ s \in Nat /\ s + z <= Len(TokensList) /\ Twice < z /\ a + z = NToks(t)
        /\ First(t) <= a /\ s = Offset(t) + (a - First(t)) /\ t \in Added /\ Twice \in {0, 1}
        /\ lst \in Int /\ Len(TokensList) \in Nat
    <2>1. t \in Added /\ t >= fidx
      BY <1>2, <1>5
    <2>2. a \in Nat /\ z \in Nat /\ s \in Nat /\ s + z <= Len(TokensList)
      BY <1>1, <1>5, <1>6, LeftFacts DEF n
    <2>3. Twice < z /\ a + z = NToks(t) /\ First(t) <= a /\ s = Offset(t) + (a - First(t))
      BY <1>1, <1>6, <2>1 DEF SplitInv, Processed
    <2>4. Twice \in {0, 1}
      BY DEF Twice
    <2>5. Len(TokensList) \in Nat
      <3>1. TokensList \in Seq(Added \X Nat)
        BY <1>1, TokensFacts
      <3>. QED BY <3>1, LenProperties
    <2>6. lst \in Int
      <3>1. start[fidx] \in Nat /\ lst = start[fidx] + MaxPrefill /\ MaxPrefill \in Nat
        BY <1>1, <1>2 DEF SplitInv, PrefillAssumption
      <3>. QED BY <3>1
    <2>. QED BY <2>1, <2>2, <2>3, <2>4, <2>5, <2>6
  <1>8. q \in Nat /\ q < z /\ Twice <= q /\ end = s + q /\ end \in Nat /\ end <= Len(TokensList)
    <2>1. q = IF Cut = z THEN Cut - 1 ELSE Cut
      BY <1>3, <1>6 DEF KeepsOne
    <2>2. PICK c, w, l : c = Cut /\ w = Twice /\ l = lst
      OBVIOUS
    <2>3. /\ c \in Nat /\ 0 < c /\ c <= z /\ z \in Nat /\ w \in {0, 1} /\ w < z /\ c = l - s
          /\ l \in Int /\ s \in Nat /\ end = l - (c - q) /\ q = IF c = z THEN c - 1 ELSE c
      BY <1>3, <1>5, <1>6, <1>7, <2>1, <2>2
    <2>4. q \in Nat /\ q < z /\ w <= q /\ end = s + q
      BY <2>3
    <2>5. end \in Nat /\ end <= Len(TokensList)
      BY <1>7, <2>4
    <2>. QED BY <2>2, <2>4, <2>5
  <1>9. info \in [Added -> Nat \X Nat] /\ start \in [Added -> Nat]
    BY <1>1 DEF SplitInv
  <1>10. /\ \A i \in Added : i # t => seqs[i] = info[i]
         /\ seqs[t] = <<a, q>>
    <2>1. \A i \in Added : i # t => seqs[i] = info[i]
      BY <1>3, <1>9
    <2>2. seqs[t] = [info[t] EXCEPT ![2] = q]
      BY <1>3, <1>7, <1>9
    <2>3. info[t] = <<a, z>>
      BY <1>6, <1>7, <1>9
    <2>. QED BY <2>1, <2>2, <2>3
  <1>11. Call(t, end, toks, seqs)
    <2>1. \A i \in fidx..t : i \in Added
      BY <1>2, <1>5
    <2>2. \A i \in fidx..t : seqs[i][1] = info[i][1] /\ (i < t => seqs[i][2] = info[i][2])
      <3>1. ASSUME NEW i \in fidx..t PROVE seqs[i][1] = info[i][1] /\ (i < t => seqs[i][2] = info[i][2])
        <4>1. CASE i = t
          BY <1>6, <1>10, <4>1, <1>2, <1>5
        <4>2. CASE i # t
          BY <1>10, <2>1, <4>2
        <4>. QED BY <4>1, <4>2
      <3>. QED BY <3>1
    <2>3. \A i \in Added : seqs[i][2] \in Nat
      <3>1. \A i \in Added : info[i][2] \in Nat
        BY <1>9
      <3>. QED BY <1>8, <1>10, <3>1
    <2>4. seqs[t][2] <= info[t][2]
      BY <1>6, <1>7, <1>8, <1>10
    <2>5. start[t] + seqs[t][2] <= end
      BY <1>6, <1>8, <1>10
    <2>. QED BY <1>3, <1>5, <1>8, <2>2, <2>3, <2>4, <2>5 DEF Call
  <1>12. PICK d : d = q - Twice
    OBVIOUS
  <1>13. d \in Nat /\ d <= q /\ d + Twice = q
    BY <1>7, <1>8, <1>12
  <1>14. /\ \A i \in Added : i # t => info'[i] = info[i] /\ start'[i] = start[i]
         /\ info'[t] = <<a + d, z - d>> /\ start'[t] = s + d
         /\ info' \in [Added -> Nat \X Nat] /\ start' \in [Added -> Nat]
    <2>1. z - d \in Nat /\ a + d \in Nat /\ s + d \in Nat
      BY <1>7, <1>8, <1>13
    <2>2. info' = [info EXCEPT ![t] = <<a + d, z - d>>] /\ start' = [start EXCEPT ![t] = s + d]
      BY <1>4, <1>6, <1>12
    <2>. QED BY <1>7, <1>9, <2>1, <2>2
  <1>15. /\ Added' = Added /\ Len(new'.lanes) = n /\ Twice' = Twice
         /\ \A i : NToks(i)' = NToks(i) /\ First(i)' = First(i) /\ NewToks(i)' = NewToks(i) /\ Offset(i)' = Offset(i)
    <2>1. Added' = Added /\ \A i : NToks(i)' = NToks(i) /\ First(i)' = First(i)
      BY <1>1 DEF Added, NToks, First
    <2>2. \A i : NewToks(i)' = NewToks(i)
      BY <2>1 DEF NewToks
    <2>3. Spans' = Spans
      BY <2>1, <2>2 DEF Spans
    <2>4. \A i : Offset(i)' = Offset(i)
      BY <2>3 DEF Offset
    <2>. QED BY <1>1, <2>1, <2>2, <2>4 DEF Twice
  <1>. HIDE DEF n
  <1>16. SplitInv'
    <2>1. fidx' \in Added /\ fst' = start'[fidx'] /\ lst' = fst' + MaxPrefill
      <3>1. end - Twice = s + d
        <4>1. PICK w : w = Twice
          OBVIOUS
        <4>2. s \in Nat /\ q \in Nat /\ d \in Nat /\ w \in Nat /\ d + w = q /\ end = s + q
          BY <1>7, <1>8, <1>13, <4>1, SMTT(40)
        <4>3. end - w = s + d
          BY <4>2
        <4>. QED BY <4>1, <4>3
      <3>. QED BY <1>4, <1>7, <1>14, <3>1
    <2>2. ASSUME NEW i \in Added, i >= t
          PROVE  /\ First(i) <= info'[i][1] /\ info'[i][1] + info'[i][2] = NToks(i)
                 /\ start'[i] = Offset(i) + (info'[i][1] - First(i))
                 /\ Twice < info'[i][2] /\ (i > t => info'[i][1] - First(i) = 0)
      <3>1. CASE i = t
        <4>1. PICK w, l, f, o : w = Twice /\ l = NToks(t) /\ f = First(t) /\ o = Offset(t)
          OBVIOUS
        <4>2. l \in Nat /\ f \in Nat /\ o \in Nat
          BY <1>1, <1>7, <4>1, LaneFacts, OffsetFacts
        <4>3. /\ a \in Nat /\ z \in Nat /\ s \in Nat /\ d \in Nat /\ q \in Nat /\ w \in Nat
              /\ a + z = l /\ f <= a /\ s = o + (a - f) /\ d + w = q /\ q < z
          BY <1>7, <1>8, <1>13, <4>1
        <4>4. f <= a + d /\ (a + d) + (z - d) = l /\ s + d = o + ((a + d) - f) /\ w < z - d
          BY <4>2, <4>3
        <4>5. ~(t > t)
          BY <1>2, <1>5
        <4>. QED BY <1>14, <3>1, <4>1, <4>4, <4>5
      <3>2. CASE i # t
        <4>1. i > fidx /\ i >= fidx
          BY <1>2, <1>5, <2>2, <3>2
        <4>2. /\ First(i) <= info[i][1] /\ info[i][1] + info[i][2] = NToks(i)
              /\ start[i] = Offset(i) + (info[i][1] - First(i))
              /\ Twice < info[i][2] /\ info[i][1] - First(i) = 0
          BY <1>1, <4>1 DEF SplitInv, Processed
        <4>. QED BY <1>14, <3>2, <4>2
      <3>. QED BY <3>1, <3>2
    <2>. QED BY <1>4, <1>14, <1>15, <2>1, <2>2 DEF SplitInv, Processed
  <1>. DEFINE B(i) == Blocks(i, fidx, toks, seqs)
              got == [k \in 1..(t - fidx + 1) |-> Row(fidx + k - 1, fidx, toks, seqs)]
              P(i) == PromptLogprobs(i, fidx, toks, seqs)
  <1>17. /\ kv' = [i \in Added |-> IF fidx <= i /\ i <= t THEN B(i) ELSE Held(i)]
         /\ rows' = rows \o Front(got)
         /\ lps' = [i \in Added |-> IF new.logprobs /\ fidx <= i /\ i <= t THEN lps[i] \o P(i) ELSE lps[i]]
    BY <1>4 DEF PrefillCall
  <1>18. \A i \in fidx..t : /\ Own(i, B(i), 0..(info[i][1] + seqs[i][2] - 1))
                            /\ info[i][1] + seqs[i][2] = NToks(i) => Row(i, fidx, toks, seqs) = OwnRow(i)
                            /\ P(i) = TokensFrom(i, info[i][1], seqs[i][2] - 1)
    BY <1>1, <1>11, CallLane
  <1>. HIDE DEF B, P
  <1>19. \A i \in fidx..(t - 1) : /\ i \in Added /\ i \in fidx..t /\ i < t /\ i >= fidx /\ i # t
                                  /\ seqs[i][2] = info[i][2] /\ info[i][1] + info[i][2] = NToks(i)
                                  /\ info[i][1] \in Nat /\ info[i][2] \in Nat \ {0} /\ NToks(i) \in Nat
    <2>1. SUFFICES ASSUME NEW i \in fidx..(t - 1)
          PROVE  /\ i \in Added /\ i \in fidx..t /\ i < t /\ i >= fidx /\ i # t
                 /\ seqs[i][2] = info[i][2] /\ info[i][1] + info[i][2] = NToks(i)
                 /\ info[i][1] \in Nat /\ info[i][2] \in Nat \ {0} /\ NToks(i) \in Nat
      OBVIOUS
    <2>2. i \in Added /\ i \in fidx..t /\ i < t /\ i >= fidx /\ i # t /\ i \in fidx..n
      BY <1>2, <1>5
    <2>3. seqs[i][2] = info[i][2]
      BY <1>10, <2>2
    <2>4. info[i][1] + info[i][2] = NToks(i)
      BY <1>1, <2>2 DEF SplitInv
    <2>5. info[i][1] \in Nat /\ info[i][2] \in Nat \ {0}
      BY <1>1, <2>2, LeftFacts DEF n
    <2>6. NToks(i) \in Nat
      BY <1>1, <2>2, LaneFacts
    <2>. QED BY <2>2, <2>3, <2>4, <2>5, <2>6
  <1>20. ASSUME NEW i \in Added PROVE Own(i, Held(i)', 0..(Filled(i)' - 1))
    <2>1. Held(i)' = Over(<<>>, kv'[i])
      BY <1>4 DEF Held, InPages
    <2>2. ASSUME NEW S, Own(i, kv'[i], S) PROVE Own(i, Held(i)', S)
      BY <2>1, <2>2 DEF Own, Over
    <2>3. CASE i < fidx
      <3>1. kv'[i] = Held(i) /\ Filled(i)' = NToks(i) /\ Filled(i) = NToks(i)
        BY <1>2, <1>4, <1>5, <1>15, <1>17, <2>3 DEF Filled
      <3>. QED BY <1>1, <2>2, <3>1 DEF FilledInv
    <2>4. CASE fidx <= i /\ i < t
      <3>1. i \in fidx..(t - 1)
        BY <1>2, <1>5, <2>4
      <3>2. kv'[i] = B(i) /\ Filled(i)' = NToks(i)
        BY <1>4, <1>15, <1>17, <2>4, <1>19, <3>1 DEF Filled
      <3>3. PICK x, y, l : x = info[i][1] /\ y = seqs[i][2] /\ l = NToks(i)
        OBVIOUS
      <3>4. x + y = l /\ x \in Nat /\ y \in Nat /\ l \in Nat
        BY <1>19, <3>1, <3>3
      <3>5. Own(i, B(i), 0..(x + y - 1)) /\ x + y - 1 = l - 1
        BY <1>18, <1>19, <3>1, <3>3, <3>4
      <3>. QED BY <2>2, <3>2, <3>3, <3>5
    <2>5. CASE i = t
      <3>1. fidx <= t /\ t <= t /\ ~(t < t) /\ t \in fidx..t
        BY <1>2, <1>5
      <3>2. PICK m : m = a + d
        OBVIOUS
      <3>3. kv'[t] = B(t) /\ Filled(t)' = m
        BY <1>4, <1>7, <1>14, <1>17, <3>1, <3>2 DEF Filled
      <3>4. Own(t, B(t), 0..(a + q - 1))
        BY <1>6, <1>10, <1>18, <3>1
      <3>5. 0..(m - 1) \subseteq 0..(a + q - 1)
        <4>1. a \in Nat /\ d \in Nat /\ q \in Nat /\ d <= q
          BY <1>7, <1>8, <1>13
        <4>. QED BY <3>2, <4>1
      <3>6. Own(t, kv'[t], 0..(m - 1))
        BY <3>3, <3>4, <3>5 DEF Own
      <3>7. kv'[i] = kv'[t] /\ Filled(i)' = m
        BY <2>5, <3>3
      <3>8. Own(i, Held(i)', 0..(m - 1))
        BY <2>2, <2>5, <3>6, <3>7
      <3>. QED BY <3>7, <3>8
    <2>6. CASE i > t
      <3>1. ~(i < t) /\ ~(i <= t) /\ ~(i < fidx) /\ i # t
        BY <1>2, <1>5, <2>6
      <3>2. kv'[i] = Held(i) /\ Filled(i)' = info[i][1] /\ Filled(i) = info[i][1]
        BY <1>4, <1>14, <1>17, <3>1 DEF Filled
      <3>. QED BY <1>1, <2>2, <3>2 DEF FilledInv
    <2>. QED BY <1>2, <1>5, <2>3, <2>4, <2>5, <2>6
  <1>21. rows' = [i \in 1..(t - 1) |-> OwnRow(i)]
    <2>1. rows = [i \in 1..(fidx - 1) |-> OwnRow(i)]
      BY <1>1 DEF FilledInv
    <2>2. PICK m : m = t - 1
      OBVIOUS
    <2>3. m \in Nat /\ fidx \in 1..(m + 1) /\ t - fidx = m - fidx + 1 /\ t \in Nat /\ m - fidx + 1 \in Nat
      BY <1>2, <1>5, <2>2
    <2>4. \A k \in 1..(m - fidx + 1) : got[k] = OwnRow(fidx + k - 1)
      <3>1. \A i \in fidx..(t - 1) : Row(i, fidx, toks, seqs) = OwnRow(i)
        BY <1>18, <1>19
      <3>2. \A k \in 1..(m - fidx + 1) : fidx + k - 1 \in fidx..(t - 1) /\ k \in 1..(t - fidx + 1)
        BY <1>2, <2>2, <2>3
      <3>. QED BY <3>1, <3>2
    <2>5. Len(got) = t - fidx + 1
      BY <2>3, <1>2
    <2>. HIDE DEF got
    <2>6. Front(got) = [k \in 1..(m - fidx + 1) |-> OwnRow(fidx + k - 1)]
      <3>1. PICK g, e : g = got /\ e = m - fidx + 1
        OBVIOUS
      <3>. DEFINE S == {g[k] : k \in 1..e}
      <3>2. e \in Nat /\ Len(g) - 1 = e /\ Front(got) = SubSeq(g, 1, e)
        BY <1>2, <2>3, <2>5, <3>1 DEF Front
      <3>3. \A k \in 1..e : g[k] \in S
        OBVIOUS
      <3>4. 1 \in Int /\ e \in Int
        BY <3>2
      <3>. HIDE DEF S
      <3>5. /\ SubSeq(g, 1, e) \in Seq(S) /\ Len(SubSeq(g, 1, e)) = IF 1 <= e THEN e - 1 + 1 ELSE 0
            /\ \A k \in 1..(e - 1 + 1) : SubSeq(g, 1, e)[k] = g[1 + k - 1]
        BY <3>3, <3>4, SubSeqProperties
      <3>6. PICK u : u = SubSeq(g, 1, e)
        OBVIOUS
      <3>7. u \in Seq(S) /\ Len(u) = e /\ \A k \in 1..e : u[k] = g[k]
        BY <3>2, <3>5, <3>6
      <3>8. u = [k \in 1..e |-> OwnRow(fidx + k - 1)]
        BY <2>4, <3>1, <3>7
      <3>. QED BY <3>1, <3>2, <3>6, <3>8
    <2>7. rows \o Front(got) = [i \in 1..m |-> OwnRow(i)]
      <3>1. PICK g : g = Front(got)
        OBVIOUS
      <3>. QED BY <2>1, <2>2, <2>3, <2>6, RowsJoin
    <2>. QED BY <1>17, <2>2, <2>7
  <1>22. ASSUME new.logprobs, NEW i \in Added PROVE lps'[i] = TokensFrom(i, First(i), Scored(i)')
    <2>0. lps[i] = TokensFrom(i, First(i), Scored(i))
      BY <1>1, <1>22 DEF FilledInv
    <2>1. CASE i < fidx
      <3>1. lps'[i] = lps[i] /\ Scored(i)' = NewToks(i) - 1 /\ Scored(i) = NewToks(i) - 1
        BY <1>2, <1>4, <1>5, <1>15, <1>17, <2>1 DEF Scored
      <3>. QED BY <2>0, <3>1
    <2>2. CASE fidx <= i /\ i <= t
      <3>1. i \in fidx..t /\ i >= fidx /\ ~(i < fidx) /\ lps'[i] = lps[i] \o P(i) /\ i \in fidx..n
        <4>1. i \in fidx..t /\ i >= fidx /\ ~(i < fidx) /\ i \in fidx..n
          BY <1>2, <1>5, <2>2
        <4>2. lps'[i] = lps[i] \o P(i)
          BY <1>17, <1>22, <2>2, Zenon
        <4>. QED BY <4>1, <4>2
      <3>2. PICK x, y, c, e : x = info[i][1] /\ y = seqs[i][2] /\ c = First(i) /\ e = x - c
        OBVIOUS
      <3>3. /\ x \in Nat /\ y \in Nat \ {0} /\ c \in Nat /\ c <= x /\ e \in Nat /\ y - 1 \in Nat /\ x = c + e
            /\ Scored(i) = e
        <4>1. x \in Nat /\ info[i][2] \in Nat \ {0}
          BY <1>1, <3>1, <3>2, LeftFacts DEF n
        <4>2. c \in Nat /\ c <= x
          BY <1>1, <3>1, <3>2, LaneFacts DEF SplitInv
        <4>3. y \in Nat \ {0}
          <5>1. CASE i = t
            <6>1. Twice = 1
              BY <1>22 DEF Twice
            <6>2. y = q
              BY <1>10, <3>2, <5>1
            <6>. QED BY <1>8, <6>1, <6>2
          <5>2. CASE i # t
            <6>1. y = info[i][2]
              BY <1>10, <3>2, <5>2
            <6>. QED BY <4>1, <6>1
          <5>. QED BY <5>1, <5>2
        <4>4. Scored(i) = e
          BY <3>1, <3>2 DEF Scored, Processed
        <4>5. e = x - c
          BY <3>2
        <4>6. e \in Nat /\ y - 1 \in Nat /\ x = c + e
          BY <4>1, <4>2, <4>3, <4>5
        <4>. QED BY <4>1, <4>2, <4>3, <4>4, <4>6
      <3>4. Scored(i)' = e + (y - 1)
        <4>1. CASE i = t
          <5>1. Twice = 1 /\ y = q /\ x = a /\ info'[t] = <<a + d, z - d>> /\ ~(t < t)
            BY <1>2, <1>5, <1>6, <1>10, <1>14, <1>22, <3>2, <4>1 DEF Twice
          <5>2. Scored(i)' = (a + d) - c
            BY <1>4, <1>15, <3>2, <4>1, <5>1 DEF Scored, Processed
          <5>3. (a + d) - c = e + (y - 1)
            <6>1. a \in Nat /\ d \in Nat /\ q \in Nat /\ c \in Nat /\ e \in Nat /\ d + 1 = q /\ a = c + e /\ y = q
              BY <1>7, <1>8, <1>13, <3>3, <5>1
            <6>. QED BY <6>1
          <5>. QED BY <5>2, <5>3
        <4>2. CASE i # t
          <5>1. i \in fidx..(t - 1)
            BY <1>2, <1>5, <3>1, <4>2
          <5>2. Scored(i)' = NewToks(i) - 1
            BY <1>4, <1>15, <1>19, <5>1 DEF Scored
          <5>3. x + y = NToks(i)
            BY <1>19, <3>2, <5>1
          <5>4. NewToks(i) \in Nat /\ c + NewToks(i) = NToks(i)
            BY <1>1, <3>2, LaneFacts
          <5>5. PICK w : w = NewToks(i)
            OBVIOUS
          <5>6. w \in Nat /\ c + w = x + y
            BY <5>3, <5>4, <5>5
          <5>7. w - 1 = e + (y - 1)
            BY <3>3, <5>6
          <5>. QED BY <5>2, <5>5, <5>7
        <4>. QED BY <4>1, <4>2
      <3>5. PICK u, v : u = TokensFrom(i, c, e) /\ v = TokensFrom(i, x, y - 1)
        OBVIOUS
      <3>6. IsRun(u, i, c) /\ IsRun(v, i, c + Len(u)) /\ Len(u) = e /\ Len(v) = y - 1
        BY <3>3, <3>5, RunIs
      <3>7. IsRun(u \o v, i, c) /\ Len(u \o v) = e + (y - 1)
        BY <3>3, <3>6, RunsJoin
      <3>8. lps[i] = u /\ P(i) = v
        BY <1>18, <2>0, <3>1, <3>2, <3>3, <3>5
      <3>. QED BY <3>1, <3>2, <3>4, <3>7, <3>8 DEF IsRun
    <2>3. CASE i > t
      <3>1. ~(i < t) /\ ~(i <= t) /\ ~(i < fidx) /\ i # t
        BY <1>2, <1>5, <2>3
      <3>2. lps'[i] = lps[i] /\ info'[i] = info[i]
        BY <1>14, <1>17, <3>1
      <3>3. Scored(i)' = info[i][1] - First(i) /\ Scored(i) = info[i][1] - First(i)
        BY <1>4, <1>15, <3>1, <3>2 DEF Scored, Processed
      <3>. QED BY <2>0, <3>2, <3>3
    <2>. QED BY <1>2, <1>5, <2>1, <2>2, <2>3
  <1>23. FilledInv'
    <2>1. rows' = [i \in 1..(fidx' - 1) |-> OwnRow(i)']
      BY <1>4, <1>15, <1>21 DEF OwnRow
    <2>2. DOMAIN lps' = Added
      BY <1>17
    <2>. QED BY <1>1, <1>15, <1>20, <1>22, <2>1, <2>2 DEF FilledInv
  <1>. QED BY <1>1, <1>16, <1>23 DEF PrefillInv

(* Every step keeps the invariant. *)
LEMMA PrefillKept ==
  ASSUME PrefillAssumption, LogprobsOfSeveral, PrefillInv, [PrefillNext]_pvars
  PROVE  PrefillInv'
  <1>1. CASE UNCHANGED pvars
    <2>1. /\ Added' = Added /\ Twice' = Twice
          /\ \A i : /\ NToks(i)' = NToks(i) /\ First(i)' = First(i) /\ NewToks(i)' = NewToks(i)
                    /\ OutPages(i)' = OutPages(i) /\ InPages(i)' = InPages(i)
      BY <1>1 DEF pvars, Added, NToks, First, NewToks, Twice, OutPages, Ready, InPages
    <2>2. Spans' = Spans
      BY <2>1 DEF Spans
    <2>3. \A i : /\ Offset(i)' = Offset(i) /\ Processed(i)' = Processed(i) /\ Filled(i)' = Filled(i)
                 /\ OwnRow(i)' = OwnRow(i) /\ Scored(i)' = Scored(i) /\ Held(i)' = Held(i)
      BY <1>1, <2>1, <2>2 DEF pvars, Offset, Processed, Filled, OwnRow, Scored, Held
    <2>4. SplitInv => SplitInv'
      BY <1>1, <2>1, <2>3 DEF pvars, SplitInv
    <2>5. FilledInv => FilledInv'
      BY <1>1, <2>1, <2>3 DEF pvars, FilledInv
    <2>6. LanesServed => LanesServed'
      BY <1>1, <2>1 DEF pvars, LanesServed
    <2>. QED BY <1>1, <2>4, <2>5, <2>6 DEF PrefillInv, pvars
  <1>2. CASE Chunk
    BY <1>2, ChunkStep
  <1>3. CASE LastChunk
    BY <1>3, LastChunkStep
  <1>. QED BY <1>1, <1>2, <1>3 DEF PrefillNext

(* Wherever the calls of a prefill are cut, its assertions hold and every lane is served with
   its own tokens: generate.py, _prefill. *)
THEOREM PrefillServesLanes == LogprobsOfSeveral => (PrefillSpec => []PrefillsOwnTokens)
  <1>1. SUFFICES ASSUME LogprobsOfSeveral PROVE PrefillSpec => []PrefillsOwnTokens
    OBVIOUS
  <1>2. PrefillInit => PrefillInv
    BY <1>1, PrefillAssumption, PrefillStarts
  <1>3. PrefillInv /\ [PrefillNext]_pvars => PrefillInv'
    BY <1>1, PrefillAssumption, PrefillKept
  <1>4. PrefillInv => PrefillsOwnTokens
    BY PrefillAssumption, SplitFacts DEF PrefillInv, PrefillsOwnTokens
  <1>. QED BY <1>2, <1>3, <1>4, PTL DEF PrefillSpec

-----------------------------------------------------------------------------
(* The partial sums of a sequence. *)
Runs(c, w) ==
  /\ c \in [0..Len(w) -> Int] /\ c[0] = 0
  /\ \A k \in 1..Len(w) : c[k] = c[k - 1] + w[k]

(* Sum is the last of them. *)
LEMMA SumRuns ==
  ASSUME NEW w \in Seq(Int)
  PROVE  \E c : Runs(c, w) /\ Sum(w) = c[Len(w)]
  <1>. DEFINE n == Len(w)
              IsFold(f) == f = [s \in SUBSET DOMAIN w |->
                                  IF s = {} THEN 0 ELSE LET x == Max(s) IN f[s \ {x}] + w[x]]
              it == CHOOSE f : IsFold(f)
              Eq(f) == f = [s \in SUBSET (1..n) |-> IF s = {} THEN 0 ELSE f[s \ {Max(s)}] + w[Max(s)]]
  <1>1. n \in Nat /\ DOMAIN w = 1..n /\ \A i \in 1..n : w[i] \in Int
    BY LenProperties, ElementOfSeq
  <1>2. Sum(w) = it[1..n]
    <2>1. Sum(w) = it[DOMAIN w]
      BY DEF Sum, FoldLeft, MapThenFoldSet
    <2>. HIDE DEF it, n
    <2>. QED BY <1>1, <2>1
  <1>3. ASSUME NEW f PROVE IsFold(f) <=> Eq(f)
    <2>. HIDE DEF n
    <2>. QED BY <1>1
  <1>4. \E f : Eq(f)
    <2>. HIDE DEF n
    <2>1. PICK step : step = [p \in Int \X (1..n) |-> p[1] + w[p[2]]]
      OBVIOUS
    <2>2. step \in [Int \X (1..n) -> Int]
      BY <1>1, <2>1
    <2>3. 0 \in Int
      OBVIOUS
    <2>4. FoldsOf(n, Int, 0, step) # {}
      BY <1>1, <2>2, <2>3, FoldExists
    <2>5. PICK f \in [SUBSET (1..n) -> Int] :
            \A s \in SUBSET (1..n) : f[s] = IF s = {} THEN 0 ELSE step[<<f[s \ {Max(s)}], Max(s)>>]
      BY <2>4 DEF FoldsOf
    <2>6. ASSUME NEW s \in SUBSET (1..n), s # {}
          PROVE  step[<<f[s \ {Max(s)}], Max(s)>>] = f[s \ {Max(s)}] + w[Max(s)]
      <3>1. Max(s) \in 1..n
        <4>1. n \in Int
          BY <1>1
        <4>2. Max(s) \in s
          BY <2>6, <4>1, MaxFacts
        <4>. QED BY <4>2
      <3>2. f[s \ {Max(s)}] \in Int
        BY <2>5
      <3>. QED BY <2>1, <3>1, <3>2
    <2>7. f = [s \in SUBSET (1..n) |-> IF s = {} THEN 0 ELSE f[s \ {Max(s)}] + w[Max(s)]]
      BY <2>5, <2>6
    <2>. QED BY <2>7
  <1>5. Eq(it)
    <2>1. IsFold(it)
      <3>. HIDE DEF IsFold, Eq
      <3>. QED BY <1>3, <1>4
    <2>. HIDE DEF IsFold, Eq, it
    <2>. QED BY <1>3, <2>1
  <1>. HIDE DEF it, IsFold, n
  <1>6. it[1..0] = 0 /\ \A k \in 1..n : it[1..k] = it[1..(k - 1)] + w[k]
    <2>1. 1..0 = {} /\ 1..0 \in SUBSET (1..n)
      OBVIOUS
    <2>2. ASSUME NEW k \in 1..n PROVE it[1..k] = it[1..(k - 1)] + w[k]
      <3>1. 1..k \in SUBSET (1..n) /\ 1..k # {} /\ (1..k) \ {k} = 1..(k - 1) /\ Max(1..k) = k
        BY <1>1, UpTo
      <3>. QED BY <1>5, <3>1
    <2>. QED BY <1>5, <2>1, <2>2
  <1>. HIDE DEF Eq
  <1>. DEFINE S == {k \in Nat : k <= n => it[1..k] \in Int}
  <1>7. 0 \in S
    BY <1>6
  <1>8. ASSUME NEW k \in Nat, k \in S PROVE k + 1 \in S
    <2>1. SUFFICES ASSUME k + 1 <= n PROVE it[1..(k + 1)] \in Int
      OBVIOUS
    <2>2. k + 1 \in 1..n /\ (k + 1) - 1 = k /\ k <= n
      BY <1>1, <2>1
    <2>3. it[1..k] \in Int /\ w[k + 1] \in Int
      BY <1>1, <1>8, <2>2
    <2>4. it[1..(k + 1)] = it[1..k] + w[k + 1]
      BY <1>6, <2>2
    <2>. QED BY <2>3, <2>4
  <1>. HIDE DEF S
  <1>9. \A k \in Nat : k \in S
    BY <1>7, <1>8, Induct
  <1>10. PICK c : c = [k \in 0..n |-> it[1..k]]
    OBVIOUS
  <1>11. c \in [0..n -> Int]
    BY <1>1, <1>9, <1>10 DEF S
  <1>12. c[0] = 0 /\ \A k \in 1..n : c[k] = c[k - 1] + w[k]
    <2>1. \A k \in 0..n : c[k] = it[1..k]
      BY <1>10
    <2>2. 0 \in 0..n /\ \A k \in 1..n : k \in 0..n /\ k - 1 \in 0..n
      BY <1>1
    <2>. QED BY <1>6, <2>1, <2>2
  <1>13. Sum(w) = c[n]
    <2>1. n \in 0..n
      BY <1>1
    <2>. QED BY <1>2, <1>10, <2>1
  <1>. QED BY <1>11, <1>12, <1>13 DEF Runs, n

(* The partial sums of two sequences that begin alike are the same. *)
LEMMA RunsAlike ==
  ASSUME NEW c, NEW w, NEW d, NEW v, Runs(c, w), Runs(d, v), NEW n \in Nat, n <= Len(w), n <= Len(v),
         Len(w) \in Nat, Len(v) \in Nat, \A i \in 1..n : w[i] = v[i]
  PROVE  c[n] = d[n]
  <1>. DEFINE S == {k \in Nat : k <= n => c[k] = d[k]}
  <1>1. 0 \in S
    BY DEF Runs
  <1>2. ASSUME NEW k \in Nat, k \in S PROVE k + 1 \in S
    <2>1. SUFFICES ASSUME k + 1 <= n PROVE c[k + 1] = d[k + 1]
      OBVIOUS
    <2>2. k + 1 \in 1..n /\ k + 1 \in 1..Len(w) /\ k + 1 \in 1..Len(v) /\ (k + 1) - 1 = k /\ k <= n
      BY <2>1
    <2>3. c[k + 1] = c[k] + w[k + 1] /\ d[k + 1] = d[k] + v[k + 1]
      BY <2>2 DEF Runs
    <2>. QED BY <1>2, <2>2, <2>3
  <1>. HIDE DEF S
  <1>3. n \in S
    BY <1>1, <1>2, Induct
  <1>4. n <= n
    OBVIOUS
  <1>. QED BY <1>3, <1>4 DEF S

(* So any partial sums give the sum. *)
LEMMA SumIs ==
  ASSUME NEW w \in Seq(Int), NEW c, Runs(c, w)
  PROVE  Sum(w) = c[Len(w)]
  <1>1. PICK d : Runs(d, w) /\ Sum(w) = d[Len(w)]
    BY SumRuns
  <1>2. Len(w) \in Nat /\ Len(w) <= Len(w)
    BY LenProperties
  <1>3. d[Len(w)] = c[Len(w)]
    BY <1>1, <1>2, RunsAlike
  <1>. QED BY <1>1, <1>3

(* Sums of integers: of none, of one, of two sequences joined, of zeros. *)
LEMMA SumFacts ==
  /\ Sum(<<>>) = 0
  /\ \A r \in Int : Sum(<<r>>) = r
  /\ \A w \in Seq(Int) : Sum(w) \in Int
  /\ \A x, y \in Seq(Int) : Sum(x \o y) = Sum(x) + Sum(y)
  /\ \A n \in Nat : Zeros(n) \in Seq(Int) /\ Len(Zeros(n)) = n /\ Sum(Zeros(n)) = 0
  <1>1. Sum(<<>>) = 0
    <2>1. <<>> \in Seq(Int) /\ Len(<<>>) = 0
      OBVIOUS
    <2>2. PICK c : Runs(c, <<>>) /\ Sum(<<>>) = c[Len(<<>>)]
      BY <2>1, SumRuns
    <2>. QED BY <2>1, <2>2 DEF Runs
  <1>2. ASSUME NEW r \in Int PROVE Sum(<<r>>) = r
    <2>1. <<r>> \in Seq(Int) /\ Len(<<r>>) = 1 /\ <<r>>[1] = r
      OBVIOUS
    <2>2. PICK c : Runs(c, <<r>>) /\ Sum(<<r>>) = c[Len(<<r>>)]
      BY <2>1, SumRuns
    <2>3. c[0] = 0 /\ c[1] = c[1 - 1] + r
      BY <2>1, <2>2 DEF Runs
    <2>. QED BY <2>1, <2>2, <2>3
  <1>3. ASSUME NEW w \in Seq(Int) PROVE Sum(w) \in Int
    <2>1. PICK c : Runs(c, w) /\ Sum(w) = c[Len(w)]
      BY SumRuns
    <2>2. Len(w) \in 0..Len(w)
      BY LenProperties
    <2>. QED BY <2>1, <2>2 DEF Runs
  <1>4. ASSUME NEW x \in Seq(Int), NEW y \in Seq(Int) PROVE Sum(x \o y) = Sum(x) + Sum(y)
    <2>1. PICK c : Runs(c, x) /\ Sum(x) = c[Len(x)]
      BY SumRuns
    <2>2. PICK d : Runs(d, y) /\ Sum(y) = d[Len(y)]
      BY SumRuns
    <2>3. PICK p, q, z : p = Len(x) /\ q = Len(y) /\ z = x \o y
      OBVIOUS
    <2>4. /\ p \in Nat /\ q \in Nat /\ z \in Seq(Int) /\ Len(z) = p + q
          /\ \A j \in 1..(p + q) : z[j] = IF j <= p THEN x[j] ELSE y[j - p]
      BY <2>3, LenProperties, ConcatProperties
    <2>5. PICK e : e = [k \in 0..(p + q) |-> IF k <= p THEN c[k] ELSE c[p] + d[k - p]]
      OBVIOUS
    <2>6. c \in [0..p -> Int] /\ d \in [0..q -> Int] /\ c[0] = 0 /\ d[0] = 0
          /\ (\A k \in 1..p : c[k] = c[k - 1] + x[k]) /\ \A k \in 1..q : d[k] = d[k - 1] + y[k]
      BY <2>1, <2>2, <2>3 DEF Runs
    <2>7. e \in [0..(p + q) -> Int]
      <3>1. ASSUME NEW k \in 0..(p + q)
            PROVE  (IF k <= p THEN c[k] ELSE c[p] + d[k - p]) \in Int
        <4>1. CASE k <= p
          BY <2>4, <2>6, <4>1
        <4>2. CASE ~(k <= p)
          <5>1. p \in 0..p /\ k - p \in 0..q
            BY <2>4, <4>2
          <5>2. c[p] \in Int /\ d[k - p] \in Int
            BY <2>6, <5>1
          <5>. QED BY <4>2, <5>2
        <4>. QED BY <4>1, <4>2
      <3>. QED BY <2>5, <3>1
    <2>8. ASSUME NEW k \in 1..(p + q) PROVE e[k] = e[k - 1] + z[k]
      <3>1. k \in 0..(p + q) /\ k - 1 \in 0..(p + q) /\ k \in Int
        BY <2>4
      <3>2. CASE k <= p
        <4>1. k \in 1..p /\ k - 1 <= p
          BY <2>4, <3>2
        <4>. QED BY <2>4, <2>5, <2>6, <3>1, <3>2, <4>1
      <3>3. CASE k = p + 1
        <4>1. ~(k <= p) /\ k - 1 = p /\ k - p = 1 /\ 1 \in 1..q /\ p \in 0..p /\ 1 \in 0..q
          BY <2>4, <3>3
        <4>2. e[k] = c[p] + d[1] /\ e[k - 1] = c[p] /\ z[k] = y[1]
          BY <2>4, <2>5, <3>1, <4>1
        <4>3. d[1] = d[1 - 1] + y[1] /\ d[1] \in Int
          BY <2>6, <4>1
        <4>4. y[1] \in Int
          BY <2>3, <4>1, ElementOfSeq
        <4>5. d[1] = y[1]
          BY <2>6, <4>3, <4>4
        <4>. QED BY <4>2, <4>5
      <3>4. CASE k > p + 1
        <4>1. ~(k <= p) /\ ~(k - 1 <= p) /\ k - p \in 1..q /\ k - 1 - p = k - p - 1
              /\ k - p - 1 \in 0..q /\ p \in 0..p
          BY <2>4, <3>4
        <4>2. e[k] = c[p] + d[k - p] /\ e[k - 1] = c[p] + d[k - p - 1] /\ z[k] = y[k - p]
          BY <2>4, <2>5, <3>1, <4>1
        <4>3. d[k - p] = d[k - p - 1] + y[k - p]
          BY <2>6, <4>1
        <4>4. y[k - p] \in Int /\ c[p] \in Int /\ d[k - p - 1] \in Int
          BY <2>3, <2>6, <4>1, ElementOfSeq
        <4>5. PICK f, g, h : f = c[p] /\ g = d[k - p - 1] /\ h = y[k - p]
          OBVIOUS
        <4>6. e[k] = f + (g + h) /\ e[k - 1] = f + g /\ z[k] = h /\ f \in Int /\ g \in Int /\ h \in Int
          BY <4>2, <4>3, <4>4, <4>5
        <4>. QED BY <4>6
      <3>. QED BY <2>4, <3>1, <3>2, <3>3, <3>4
    <2>9. Runs(e, z)
      <3>1. e[0] = 0
        BY <2>4, <2>5, <2>6
      <3>. QED BY <2>4, <2>7, <2>8, <3>1 DEF Runs
    <2>10. Sum(z) = e[p + q]
      BY <2>4, <2>9, SumIs
    <2>11. e[p + q] = c[p] + d[q]
      <3>1. CASE q = 0
        <4>1. p + q \in 0..(p + q) /\ p + q <= p /\ p + q = p /\ c[p] \in Int
          BY <2>4, <2>6, <3>1
        <4>. QED BY <2>5, <2>6, <3>1, <4>1
      <3>2. CASE q > 0
        <4>1. p + q \in 0..(p + q) /\ ~(p + q <= p) /\ (p + q) - p = q
          BY <2>4, <3>2
        <4>. QED BY <2>5, <4>1
      <3>. QED BY <2>4, <3>1, <3>2
    <2>. QED BY <2>1, <2>2, <2>3, <2>10, <2>11
  <1>5. ASSUME NEW n \in Nat PROVE Zeros(n) \in Seq(Int) /\ Len(Zeros(n)) = n /\ Sum(Zeros(n)) = 0
    <2>1. Zeros(n) \in Seq(Int) /\ Len(Zeros(n)) = n /\ \A i \in 1..n : Zeros(n)[i] = 0
      BY DEF Zeros
    <2>2. PICK c : c = [k \in 0..n |-> 0]
      OBVIOUS
    <2>3. Runs(c, Zeros(n))
      BY <2>1, <2>2 DEF Runs
    <2>4. Sum(Zeros(n)) = c[n]
      BY <2>1, <2>3, SumIs
    <2>. QED BY <2>1, <2>2, <2>4
  <1>. QED BY <1>1, <1>2, <1>3, <1>4, <1>5

(* What a step makes of a first value, n times: the values in a row. *)
Chains(n, T, base, step) ==
  {c \in [0..n -> T] : c[0] = base /\ \A k \in 1..n : c[k] = step[<<c[k - 1], k>>]}

(* There is such a row. *)
LEMMA Chain ==
  ASSUME NEW n \in Nat, NEW T, NEW base \in T, NEW step \in [T \X (1..n) -> T]
  PROVE  Chains(n, T, base, step) # {}
  <1>1. FoldsOf(n, T, base, step) # {}
    BY FoldExists
  <1>2. PICK f \in [SUBSET (1..n) -> T] :
          \A s \in SUBSET (1..n) : f[s] = IF s = {} THEN base ELSE step[<<f[s \ {Max(s)}], Max(s)>>]
    BY <1>1 DEF FoldsOf
  <1>3. PICK c : c = [k \in 0..n |-> f[1..k]]
    OBVIOUS
  <1>4. \A k \in 0..n : 1..k \in SUBSET (1..n) /\ c[k] = f[1..k]
    BY <1>3
  <1>5. c \in [0..n -> T]
    BY <1>2, <1>3, <1>4
  <1>6. c[0] = base
    <2>1. 1..0 = {} /\ 0 \in 0..n
      OBVIOUS
    <2>. QED BY <1>2, <1>4, <2>1
  <1>7. ASSUME NEW k \in 1..n PROVE c[k] = step[<<c[k - 1], k>>]
    <2>1. 1..k \in SUBSET (1..n) /\ 1..k # {} /\ (1..k) \ {k} = 1..(k - 1) /\ Max(1..k) = k
      BY UpTo
    <2>2. f[1..k] = step[<<f[1..(k - 1)], k>>]
      BY <1>2, <2>1
    <2>3. k \in 0..n /\ k - 1 \in 0..n
      OBVIOUS
    <2>. QED BY <1>4, <2>2, <2>3
  <1>. QED BY <1>5, <1>6, <1>7 DEF Chains

(* The sequences that joining the members of w goes through. *)
Joins(c, w, S) ==
  /\ c \in [0..Len(w) -> Seq(S)] /\ c[0] = <<>>
  /\ \A k \in 1..Len(w) : c[k] = c[k - 1] \o w[k]

(* FlattenSeq is the last of them. *)
LEMMA FlattenJoins ==
  ASSUME NEW S, NEW w \in Seq(Seq(S))
  PROVE  \E c : Joins(c, w, S) /\ FlattenSeq(w) = c[Len(w)]
  <1>1. PICK n : n = Len(w)
    OBVIOUS
  <1>2. n \in Nat /\ \A i \in 1..n : w[i] \in Seq(S)
    BY <1>1, LenProperties, ElementOfSeq
  <1>3. PICK step : step = [p \in Seq(S) \X (1..n) |-> p[1] \o w[p[2]]]
    OBVIOUS
  <1>4. step \in [Seq(S) \X (1..n) -> Seq(S)]
    BY <1>2, <1>3
  <1>5. <<>> \in Seq(S)
    OBVIOUS
  <1>6. PICK c \in [0..n -> Seq(S)] : c[0] = <<>> /\ \A k \in 1..n : c[k] = step[<<c[k - 1], k>>]
    <2>1. Chains(n, Seq(S), <<>>, step) # {}
      BY <1>2, <1>4, <1>5, Chain
    <2>. QED BY <2>1 DEF Chains
  <1>7. ASSUME NEW k \in 1..n PROVE c[k] = c[k - 1] \o w[k]
    <2>1. k - 1 \in 0..n
      BY <1>2
    <2>2. c[k - 1] \in Seq(S)
      BY <1>6, <2>1
    <2>3. <<c[k - 1], k>> \in Seq(S) \X (1..n) /\ c[k] = step[<<c[k - 1], k>>]
      BY <1>6, <2>2
    <2>. QED BY <1>3, <2>3
  <1>8. Joins(c, w, S)
    BY <1>1, <1>6, <1>7 DEF Joins
  <1>9. FlattenSeq(w) = c[n]
    <2>1. CASE n = 0
      <3>1. w = <<>>
        BY <1>1, <2>1, EmptySeq
      <3>. QED BY <1>1, <1>6, <2>1, <3>1 DEF FlattenSeq
    <2>2. CASE n # 0
      <3>. DEFINE IsFlat(f) == f = [i \in 1..n |-> IF i = 1 THEN w[i] ELSE f[i - 1] \o w[i]]
                  it == CHOOSE f : IsFlat(f)
      <3>1. FlattenSeq(w) = it[n]
        BY <1>1, <2>2 DEF FlattenSeq
      <3>2. \E f : IsFlat(f)
        <4>1. PICK f : f = [i \in 1..n |-> c[i]]
          OBVIOUS
        <4>2. ASSUME NEW i \in 1..n PROVE f[i] = IF i = 1 THEN w[i] ELSE f[i - 1] \o w[i]
          <5>1. CASE i = 1
            <6>0. 1 \in 1..n /\ 1 - 1 = 0
              BY <5>1
            <6>1. c[1] = <<>> \o w[1]
              BY <1>6, <1>7, <6>0
            <6>2. w[1] \in Seq(S)
              BY <1>2, <5>1
            <6>. QED BY <4>1, <5>1, <6>1, <6>2
          <5>2. CASE i # 1
            <6>1. i - 1 \in 1..n
              BY <1>2, <5>2
            <6>. QED BY <1>7, <4>1, <5>2, <6>1
          <5>. QED BY <5>1, <5>2
        <4>3. f = [i \in 1..n |-> IF i = 1 THEN w[i] ELSE f[i - 1] \o w[i]]
          BY <4>1, <4>2
        <4>. QED BY <4>3
      <3>3. IsFlat(it)
        <4>. HIDE DEF IsFlat
        <4>. QED BY <3>2
      <3>4. \A i \in 1..n : it[i] = IF i = 1 THEN w[i] ELSE it[i - 1] \o w[i]
        <4>. HIDE DEF it
        <4>. QED BY <3>3
      <3>. HIDE DEF it
      <3>. DEFINE U == {k \in Nat : k + 1 <= n => it[k + 1] = c[k + 1]}
      <3>5. 0 \in U
        <4>1. 1 \in 1..n /\ w[1] \in Seq(S) /\ 1 - 1 = 0
          BY <1>2, <2>2
        <4>2. it[1] = w[1] /\ c[1] = <<>> \o w[1]
          BY <1>6, <1>7, <3>4, <4>1
        <4>. QED BY <4>1, <4>2
      <3>6. ASSUME NEW k \in Nat, k \in U PROVE k + 1 \in U
        <4>1. SUFFICES ASSUME k + 1 + 1 <= n PROVE it[k + 1 + 1] = c[k + 1 + 1]
          OBVIOUS
        <4>2. PICK j : j = k + 1 + 1
          OBVIOUS
        <4>3. j \in 1..n /\ j # 1 /\ j - 1 = k + 1 /\ k + 1 <= n
          BY <1>2, <4>1, <4>2
        <4>4. it[j - 1] = c[j - 1]
          BY <3>6, <4>3
        <4>5. it[j] = it[j - 1] \o w[j] /\ c[j] = c[j - 1] \o w[j]
          BY <1>7, <3>4, <4>3
        <4>. QED BY <4>2, <4>4, <4>5
      <3>. HIDE DEF U
      <3>7. n - 1 \in U /\ (n - 1) + 1 = n /\ n <= n
        <4>1. n - 1 \in Nat /\ (n - 1) + 1 = n /\ n <= n
          BY <1>2, <2>2
        <4>. QED BY <3>5, <3>6, <4>1, Induct
      <3>8. it[n] = c[n]
        BY <3>7 DEF U
      <3>. QED BY <3>1, <3>8
    <2>. QED BY <2>1, <2>2
  <1>. QED BY <1>1, <1>8, <1>9

(* Two sequences of sequences that begin alike go through the same. *)
LEMMA JoinsAlike ==
  ASSUME NEW S, NEW c, NEW w, NEW d, NEW v, Joins(c, w, S), Joins(d, v, S), NEW n \in Nat,
         n <= Len(w), n <= Len(v), Len(w) \in Nat, Len(v) \in Nat, \A i \in 1..n : w[i] = v[i]
  PROVE  c[n] = d[n]
  <1>. DEFINE U == {k \in Nat : k <= n => c[k] = d[k]}
  <1>1. 0 \in U
    BY DEF Joins
  <1>2. ASSUME NEW k \in Nat, k \in U PROVE k + 1 \in U
    <2>1. SUFFICES ASSUME k + 1 <= n PROVE c[k + 1] = d[k + 1]
      OBVIOUS
    <2>2. k + 1 \in 1..n /\ k + 1 \in 1..Len(w) /\ k + 1 \in 1..Len(v) /\ (k + 1) - 1 = k /\ k <= n
      BY <2>1
    <2>3. c[k + 1] = c[k] \o w[k + 1] /\ d[k + 1] = d[k] \o v[k + 1]
      BY <2>2 DEF Joins
    <2>. QED BY <1>2, <2>2, <2>3
  <1>. HIDE DEF U
  <1>3. n \in U
    BY <1>1, <1>2, Induct
  <1>4. n <= n
    OBVIOUS
  <1>. QED BY <1>3, <1>4 DEF U

(* The members of none joined, of one more, and of the last one extended. *)
LEMMA FlattenFacts ==
  ASSUME NEW S
  PROVE  /\ FlattenSeq(<<>>) = <<>>
         /\ \A w \in Seq(Seq(S)) : FlattenSeq(w) \in Seq(S)
         /\ \A w \in Seq(Seq(S)), x \in Seq(S) : FlattenSeq(Append(w, x)) = FlattenSeq(w) \o x
         /\ \A w \in Seq(Seq(S)), x \in Seq(S) :
              w # <<>> => FlattenSeq(Extend(w, x)) = FlattenSeq(w) \o x
  <1>1. FlattenSeq(<<>>) = <<>>
    BY DEF FlattenSeq
  <1>2. ASSUME NEW w \in Seq(Seq(S)) PROVE FlattenSeq(w) \in Seq(S)
    <2>1. PICK c : Joins(c, w, S) /\ FlattenSeq(w) = c[Len(w)]
      BY FlattenJoins
    <2>2. Len(w) \in 0..Len(w)
      BY LenProperties
    <2>. QED BY <2>1, <2>2 DEF Joins
  <1>3. ASSUME NEW w \in Seq(Seq(S)), NEW x \in Seq(S)
        PROVE  FlattenSeq(Append(w, x)) = FlattenSeq(w) \o x
    <2>1. PICK n, v : n = Len(w) /\ v = Append(w, x)
      OBVIOUS
    <2>2. n \in Nat /\ v \in Seq(Seq(S)) /\ Len(v) = n + 1 /\ v[n + 1] = x
          /\ \A i \in 1..n : v[i] = w[i]
      BY <2>1
    <2>3. PICK c : Joins(c, w, S) /\ FlattenSeq(w) = c[n]
      BY <2>1, FlattenJoins
    <2>4. PICK d : Joins(d, v, S) /\ FlattenSeq(v) = d[n + 1]
      BY <2>2, FlattenJoins
    <2>5. d[n] = c[n]
      <3>1. n <= Len(w) /\ n <= Len(v) /\ Len(w) \in Nat /\ Len(v) \in Nat /\ \A i \in 1..n : w[i] = v[i]
        BY <2>1, <2>2
      <3>. QED BY <2>2, <2>3, <2>4, <3>1, JoinsAlike
    <2>6. d[n + 1] = d[n] \o v[n + 1]
      <3>1. n + 1 \in 1..Len(v) /\ (n + 1) - 1 = n
        BY <2>2
      <3>. QED BY <2>4, <3>1 DEF Joins
    <2>. QED BY <2>1, <2>2, <2>3, <2>4, <2>5, <2>6
  <1>4. ASSUME NEW w \in Seq(Seq(S)), NEW x \in Seq(S), w # <<>>
        PROVE  FlattenSeq(Extend(w, x)) = FlattenSeq(w) \o x
    <2>1. PICK n, v : n = Len(w) /\ v = Extend(w, x)
      OBVIOUS
    <2>2. n \in Nat /\ n # 0 /\ n \in 1..n /\ w[n] \in Seq(S)
      BY <1>4, <2>1, EmptySeq, LenProperties, ElementOfSeq
    <2>3. v = [w EXCEPT ![n] = w[n] \o x] /\ w[n] \o x \in Seq(S)
      BY <2>1, <2>2 DEF Extend
    <2>4. v \in Seq(Seq(S)) /\ Len(v) = n /\ \A i \in 1..n : v[i] = IF i = n THEN w[n] \o x ELSE w[i]
      <3>1. n \in 1..Len(w)
        BY <2>1, <2>2
      <3>. QED BY <2>1, <2>3, <3>1, ExceptSeq
    <2>5. PICK c : Joins(c, w, S) /\ FlattenSeq(w) = c[n]
      BY <2>1, FlattenJoins
    <2>6. PICK d : Joins(d, v, S) /\ FlattenSeq(v) = d[n]
      BY <2>4, FlattenJoins
    <2>7. PICK m : m = n - 1
      OBVIOUS
    <2>8. m \in Nat /\ m <= n /\ \A i \in 1..m : i \in 1..n /\ i # n
      BY <2>2, <2>7
    <2>9. d[m] = c[m]
      <3>1. m <= Len(w) /\ m <= Len(v) /\ Len(w) \in Nat /\ Len(v) \in Nat /\ \A i \in 1..m : w[i] = v[i]
        BY <2>1, <2>2, <2>4, <2>8
      <3>. QED BY <2>5, <2>6, <2>8, <3>1, JoinsAlike
    <2>10. d[n] = d[m] \o v[n] /\ c[n] = c[m] \o w[n] /\ c[m] \in Seq(S)
      <3>1. n \in 1..Len(v) /\ n \in 1..Len(w) /\ m \in 0..Len(w)
        BY <2>1, <2>2, <2>4, <2>7
      <3>. QED BY <2>5, <2>6, <2>7, <3>1 DEF Joins
    <2>11. v[n] = w[n] \o x
      BY <2>2, <2>4
    <2>12. c[m] \o (w[n] \o x) = (c[m] \o w[n]) \o x
      <3>1. PICK a, b : a = c[m] /\ b = w[n]
        OBVIOUS
      <3>2. a \in Seq(S) /\ b \in Seq(S) /\ x \in Seq(S)
        BY <2>2, <2>10, <3>1
      <3>3. (a \o b) \o x = a \o (b \o x)
        BY ONLY <3>2, ConcatAssociative, SMTT(30)
      <3>. QED BY <3>1, <3>3
    <2>. QED BY <2>1, <2>5, <2>6, <2>9, <2>10, <2>11, <2>12
  <1>. QED BY <1>1, <1>2, <1>3, <1>4

(* What is left of x and y joined from a place of the one or the other. *)
EndsJoin(x, y) ==
  /\ \A i \in 1..Len(x) : SubSeq(x \o y, i, Len(x \o y)) = SubSeq(x, i, Len(x)) \o y
  /\ \A j \in 1..Len(y) : SubSeq(x \o y, Len(x) + j, Len(x \o y)) = SubSeq(y, j, Len(y))

(* So it is. *)
LEMMA SuffixJoin ==
  ASSUME NEW X, NEW x \in Seq(X), NEW y \in Seq(X)
  PROVE  EndsJoin(x, y)
  <1>1. PICK p, q, z : p = Len(x) /\ q = Len(y) /\ z = x \o y
    OBVIOUS
  <1>2. /\ p \in Nat /\ q \in Nat /\ z \in Seq(X) /\ Len(z) = p + q
        /\ \A j \in 1..(p + q) : z[j] = IF j <= p THEN x[j] ELSE y[j - p]
    BY <1>1, LenProperties, ConcatProperties
  <1>3. (\A i \in 1..p : x[i] \in X) /\ (\A i \in 1..q : y[i] \in X) /\ \A i \in 1..(p + q) : z[i] \in X
    BY <1>1, <1>2, ElementOfSeq
  <1>4. PICK e : e = p + q
    OBVIOUS
  <1>5. ASSUME NEW i \in 1..p PROVE SubSeq(z, i, e) = SubSeq(x, i, p) \o y
    <2>1. PICK u, v, r : u = SubSeq(z, i, e) /\ v = SubSeq(x, i, p) /\ r = p - i + 1
      OBVIOUS
    <2>2. u \in Seq(X) /\ Len(u) = e - i + 1 /\ \A k \in 1..(e - i + 1) : u[k] = z[i + k - 1]
      <3>1. i \in Int /\ e \in Int /\ i <= e /\ \A k \in i..e : z[k] \in X
        BY <1>2, <1>3, <1>4
      <3>. QED BY <2>1, <3>1, SubSeqProperties
    <2>3. v \in Seq(X) /\ Len(v) = r /\ \A k \in 1..r : v[k] = x[i + k - 1]
      <3>1. i \in Int /\ p \in Int /\ i <= p /\ \A k \in i..p : x[k] \in X
        BY <1>2, <1>3
      <3>. QED BY <2>1, <3>1, SubSeqProperties
    <2>4. PICK w : w = v \o y
      OBVIOUS
    <2>5. w \in Seq(X) /\ Len(w) = r + q
          /\ \A k \in 1..(r + q) : w[k] = IF k <= r THEN v[k] ELSE y[k - r]
      <3>1. v \in Seq(X) /\ y \in Seq(X) /\ Len(v) = r /\ Len(y) = q
        BY <1>1, <2>3
      <3>2. /\ v \o y \in Seq(X) /\ Len(v \o y) = Len(v) + Len(y)
            /\ \A k \in 1..(Len(v) + Len(y)) :
                 (v \o y)[k] = IF k <= Len(v) THEN v[k] ELSE y[k - Len(v)]
        BY ONLY <3>1, ConcatProperties
      <3>. QED BY <2>4, <3>1, <3>2
    <2>6. ASSUME NEW k \in 1..(r + q) PROVE u[k] = w[k]
      <3>1. PICK d : d = i + k - 1
        OBVIOUS
      <3>2. k \in 1..(e - i + 1) /\ d \in 1..(p + q) /\ (d <= p <=> k <= r) /\ d - p = k - r /\ k \in Int
        BY <1>2, <1>4, <2>1, <3>1
      <3>3. u[k] = z[d]
        BY <2>2, <3>1, <3>2
      <3>4. CASE k <= r
        <4>1. k \in 1..r
          BY <3>2, <3>4
        <4>2. v[k] = x[d]
          BY <2>3, <3>1, <4>1
        <4>. QED BY <1>2, <2>5, <3>2, <3>3, <3>4, <4>2
      <3>5. CASE ~(k <= r)
        <4>1. z[d] = y[d - p]
          BY <1>2, <3>2, <3>5
        <4>2. w[k] = y[k - r]
          BY <2>5, <3>5
        <4>. QED BY <3>2, <3>3, <4>1, <4>2
      <3>. QED BY <3>4, <3>5
    <2>7. Len(u) = r + q
      BY <1>2, <1>4, <2>1, <2>2
    <2>8. u = w
      BY <2>2, <2>5, <2>6, <2>7, SeqEqual
    <2>. QED BY <2>1, <2>4, <2>8
  <1>6. ASSUME NEW j \in 1..q PROVE SubSeq(z, p + j, e) = SubSeq(y, j, q)
    <2>1. PICK m : m = p + j
      OBVIOUS
    <2>2. PICK u, v, r : u = SubSeq(z, m, e) /\ v = SubSeq(y, j, q) /\ r = q - j + 1
      OBVIOUS
    <2>3. u \in Seq(X) /\ Len(u) = e - m + 1 /\ \A k \in 1..(e - m + 1) : u[k] = z[m + k - 1]
      <3>1. m \in Int /\ e \in Int /\ m <= e /\ \A k \in m..e : z[k] \in X
        BY <1>2, <1>3, <1>4, <2>1
      <3>. QED BY <2>2, <3>1, SubSeqProperties
    <2>4. v \in Seq(X) /\ Len(v) = r /\ \A k \in 1..r : v[k] = y[j + k - 1]
      <3>1. j \in Int /\ q \in Int /\ j <= q /\ \A k \in j..q : y[k] \in X
        BY <1>2, <1>3
      <3>. QED BY <2>2, <3>1, SubSeqProperties
    <2>5. e - m + 1 = r /\ r \in Nat
      BY <1>2, <1>4, <2>1, <2>2
    <2>6. ASSUME NEW k \in 1..r PROVE u[k] = v[k]
      <3>1. PICK d, f : d = m + k - 1 /\ f = j + k - 1
        OBVIOUS
      <3>2. d \in 1..(p + q) /\ ~(d <= p) /\ d - p = f
        BY <1>2, <2>1, <2>2, <3>1
      <3>3. z[d] = y[f]
        BY <1>2, <3>2
      <3>4. u[k] = z[d] /\ v[k] = y[f]
        BY <2>3, <2>4, <2>5, <3>1
      <3>. QED BY <3>3, <3>4
    <2>7. u = v
      BY <2>3, <2>4, <2>5, <2>6, SeqEqual
    <2>. QED BY <2>1, <2>2, <2>7
  <1>. QED BY <1>1, <1>2, <1>4, <1>5, <1>6 DEF EndsJoin

(* What is left of zeros from a place on sums to 0, and of a reward that    *)
(* stands in the last place to the reward.                                  *)
LEMMA UnrollFacts ==
  /\ \A n \in Nat : \A j \in 1..n : Sum(SubSeq(Zeros(n), j, n)) = 0
  /\ \A n \in Nat \ {0}, r \in Int :
       /\ RewardUnroll(n, r) \in Seq(Int) /\ Len(RewardUnroll(n, r)) = n /\ Sum(RewardUnroll(n, r)) = r
       /\ \A j \in 1..n : Sum(SubSeq(RewardUnroll(n, r), j, n)) = r
  <1>1. ASSUME NEW n \in Nat, NEW j \in 1..n PROVE Sum(SubSeq(Zeros(n), j, n)) = 0
    <2>1. PICK u : u = SubSeq(Zeros(n), j, n)
      OBVIOUS
    <2>2. u \in Seq(Int) /\ Len(u) = n - j + 1 /\ \A k \in 1..(n - j + 1) : u[k] = Zeros(n)[j + k - 1]
      <3>1. j \in Int /\ n \in Int /\ j <= n /\ \A k \in j..n : Zeros(n)[k] \in Int
        BY DEF Zeros
      <3>. QED BY <2>1, <3>1, SubSeqProperties
    <2>3. PICK m : m = n - j + 1
      OBVIOUS
    <2>4. m \in Nat /\ \A k \in 1..m : j + k - 1 \in 1..n
      BY <2>3
    <2>5. \A k \in 1..m : u[k] = 0
      BY <2>2, <2>3, <2>4 DEF Zeros
    <2>6. Zeros(m) \in Seq(Int) /\ Len(Zeros(m)) = m /\ \A k \in 1..m : Zeros(m)[k] = 0
      BY <2>4 DEF Zeros
    <2>7. u = Zeros(m)
      BY <2>2, <2>3, <2>5, <2>6, SeqEqual
    <2>8. Sum(Zeros(m)) = 0
      BY <2>4, SumFacts
    <2>. QED BY <2>1, <2>7, <2>8
  <1>2. ASSUME NEW n \in Nat \ {0}, NEW r \in Int
        PROVE  /\ RewardUnroll(n, r) \in Seq(Int) /\ Len(RewardUnroll(n, r)) = n
               /\ \A i \in 1..n : RewardUnroll(n, r)[i] = IF i = n THEN r ELSE 0
    <2>1. Zeros(n) \in Seq(Int) /\ Len(Zeros(n)) = n /\ \A i \in 1..n : Zeros(n)[i] = 0
      BY DEF Zeros
    <2>2. PICK z, u : z = Zeros(n) /\ u = [z EXCEPT ![n] = r]
      OBVIOUS
    <2>3. z \in Seq(Int) /\ n \in 1..Len(z) /\ r \in Int
      BY <2>1, <2>2
    <2>4. u \in Seq(Int) /\ Len(u) = n /\ \A i \in 1..n : u[i] = IF i = n THEN r ELSE 0
      <3>1. /\ u \in Seq(Int) /\ Len(u) = Len(z)
            /\ \A i \in 1..Len(z) : u[i] = IF i = n THEN r ELSE z[i]
        BY ONLY <2>2, <2>3, ExceptSeq
      <3>. QED BY <2>1, <2>2, <3>1
    <2>. QED BY <2>2, <2>4 DEF RewardUnroll
  <1>3. ASSUME NEW n \in Nat \ {0}, NEW r \in Int, NEW j \in 1..n
        PROVE  Sum(SubSeq(RewardUnroll(n, r), j, n)) = r
    <2>1. PICK x, u : x = RewardUnroll(n, r) /\ u = SubSeq(x, j, n)
      OBVIOUS
    <2>2. x \in Seq(Int) /\ Len(x) = n /\ \A i \in 1..n : x[i] = IF i = n THEN r ELSE 0
      <3>1. /\ RewardUnroll(n, r) \in Seq(Int) /\ Len(RewardUnroll(n, r)) = n
            /\ \A i \in 1..n : RewardUnroll(n, r)[i] = IF i = n THEN r ELSE 0
        BY <1>2
      <3>. QED BY <2>1, <3>1
    <2>3. u \in Seq(Int) /\ Len(u) = n - j + 1 /\ \A k \in 1..(n - j + 1) : u[k] = x[j + k - 1]
      <3>1. j \in Int /\ n \in Int /\ j <= n /\ \A k \in j..n : x[k] \in Int
        BY <2>2
      <3>. QED BY <2>1, <3>1, SubSeqProperties
    <2>4. PICK m : m = n - j
      OBVIOUS
    <2>5. m \in Nat /\ n - j + 1 = m + 1 /\ Len(u) = m + 1
          /\ (\A k \in 1..(m + 1) : j + k - 1 \in 1..n /\ (j + k - 1 = n <=> k = m + 1))
      BY <2>3, <2>4
    <2>6. \A k \in 1..(m + 1) : u[k] = IF k = m + 1 THEN r ELSE 0
      BY <2>2, <2>3, <2>5
    <2>7. PICK w : w = Zeros(m) \o <<r>>
      OBVIOUS
    <2>8. Zeros(m) \in Seq(Int) /\ Len(Zeros(m)) = m /\ (\A k \in 1..m : Zeros(m)[k] = 0)
          /\ <<r>> \in Seq(Int) /\ Len(<<r>>) = 1 /\ <<r>>[1] = r
      BY <2>5 DEF Zeros
    <2>9. w \in Seq(Int) /\ Len(w) = m + 1
          /\ \A k \in 1..(m + 1) : w[k] = IF k <= m THEN Zeros(m)[k] ELSE <<r>>[k - m]
      BY <2>7, <2>8, ConcatProperties
    <2>10. ASSUME NEW k \in 1..(m + 1) PROVE w[k] = IF k = m + 1 THEN r ELSE 0
      <3>1. CASE k = m + 1
        <4>1. ~(k <= m) /\ k - m = 1
          BY <2>5, <3>1
        <4>. QED BY <2>8, <2>9, <3>1, <4>1
      <3>2. CASE k # m + 1
        <4>1. k <= m /\ k \in 1..m
          BY <2>5, <3>2
        <4>. QED BY <2>8, <2>9, <3>2, <4>1
      <3>. QED BY <3>1, <3>2
    <2>11. u = w
      <3>1. Len(u) = Len(w) /\ \A k \in 1..Len(u) : u[k] = w[k]
        BY <2>5, <2>6, <2>9, <2>10
      <3>. QED BY <2>3, <2>9, <3>1, SeqEqual
    <2>12. Sum(w) = Sum(Zeros(m)) + Sum(<<r>>) /\ Sum(Zeros(m)) = 0 /\ Sum(<<r>>) = r
      BY <2>5, <2>7, <2>8, SumFacts
    <2>. QED BY <2>1, <2>11, <2>12
  <1>4. ASSUME NEW n \in Nat \ {0}, NEW r \in Int PROVE Sum(RewardUnroll(n, r)) = r
    <2>1. SubSeq(RewardUnroll(n, r), 1, n) = RewardUnroll(n, r)
      BY <1>2, SubSeqFull
    <2>2. 1 \in 1..n
      OBVIOUS
    <2>. QED BY <1>3, <2>1, <2>2
  <1>. QED BY <1>1, <1>2, <1>3, <1>4

(* D is C, its last context extended by x. *)
Extended(X, C, x, D) ==
  /\ Len(C) \in Nat /\ 1 <= Len(C) /\ C[Len(C)] \in Seq(X)
  /\ D \in Seq(Seq(X)) /\ Len(D) = Len(C) /\ D # <<>>
  /\ \A c \in 1..Len(C) : D[c] = IF c = Len(C) THEN C[c] \o x ELSE C[c]

(* Extend does that. *)
LEMMA ExtendFacts ==
  ASSUME NEW X, NEW C \in Seq(Seq(X)), C # <<>>, NEW x \in Seq(X)
  PROVE  Extended(X, C, x, Extend(C, x))
  <1>1. PICK n, v : n = Len(C) /\ v = Extend(C, x)
    OBVIOUS
  <1>2. n \in Nat /\ n # 0 /\ n \in 1..n /\ C[n] \in Seq(X)
    BY <1>1, EmptySeq, LenProperties, ElementOfSeq
  <1>3. v = [C EXCEPT ![n] = C[n] \o x] /\ C[n] \o x \in Seq(X)
    BY <1>1, <1>2 DEF Extend
  <1>4. v \in Seq(Seq(X)) /\ Len(v) = n /\ \A c \in 1..n : v[c] = IF c = n THEN C[n] \o x ELSE C[c]
    <2>1. n \in 1..Len(C)
      BY <1>1, <1>2
    <2>. QED BY <1>1, <1>3, <2>1, ExceptSeq
  <1>5. v # <<>>
    BY <1>2, <1>4
  <1>6. \A c \in 1..n : v[c] = IF c = n THEN C[c] \o x ELSE C[c]
    BY <1>4
  <1>. QED BY <1>1, <1>2, <1>4, <1>5, <1>6 DEF Extended

(* F is C filled by a transition that switches or not: what it is made of, *)
(* and all of it.                                                          *)
Filling(X, C, switch, a, o, n, F) ==
  /\ n \in Nat /\ 1 <= n /\ C[n] \in Seq(X)
  /\ F \in Seq(Seq(X)) /\ F # <<>>
  /\ Len(F) = IF switch THEN n + 1 ELSE n
  /\ \A c \in 1..(n - 1) : F[c] = C[c]
  /\ switch => F[n] = C[n] \o a /\ F[n + 1] = o
  /\ ~switch => F[n] = (C[n] \o a) \o o
  /\ FlattenSeq(F) = FlattenSeq(C) \o (a \o o)

(* Fill does that. *)
LEMMA FillFacts ==
  ASSUME NEW X, NEW C \in Seq(Seq(X)), C # <<>>, NEW t, t.switch \in BOOLEAN,
         NEW a \in Seq(X), NEW o \in Seq(X)
  PROVE  Filling(X, C, t.switch, a, o, Len(C), Fill(C, t, a, o))
  <1>0. PICK n, F : n = Len(C) /\ F = Fill(C, t, a, o)
    OBVIOUS
  <1>1. PICK D : D = Extend(C, a)
    OBVIOUS
  <1>2. /\ n \in Nat /\ 1 <= n /\ C[n] \in Seq(X)
        /\ D \in Seq(Seq(X)) /\ Len(D) = n /\ D # <<>>
        /\ \A c \in 1..n : D[c] = IF c = n THEN C[c] \o a ELSE C[c]
    <2>1. Extended(X, C, a, D)
      BY <1>1, ExtendFacts
    <2>. QED BY <1>0, <2>1 DEF Extended
  <1>3. PICK E : E = Switched(D, t)
    OBVIOUS
  <1>4. <<>> \in Seq(X) /\ n \in 1..n /\ \A c \in 1..(n - 1) : c \in 1..n /\ c # n /\ c # n + 1
    BY <1>2
  <1>5. F = Extend(E, o)
    BY <1>0, <1>1, <1>3 DEF Fill
  <1>6. FlattenSeq(D) = FlattenSeq(C) \o a /\ FlattenSeq(C) \in Seq(X)
    BY <1>1, FlattenFacts
  <1>7. (FlattenSeq(C) \o a) \o o = FlattenSeq(C) \o (a \o o)
    <2>1. PICK f : f = FlattenSeq(C)
      OBVIOUS
    <2>2. f \in Seq(X) /\ a \in Seq(X) /\ o \in Seq(X)
      BY <1>6, <2>1
    <2>3. (f \o a) \o o = f \o (a \o o)
      BY ONLY <2>2, ConcatAssociative, SMTT(30)
    <2>. QED BY <2>1, <2>3
  <1>8. ASSUME t.switch PROVE Filling(X, C, t.switch, a, o, n, F)
    <2>1. E = Append(D, <<>>)
      BY <1>3, <1>8 DEF Switched
    <2>2. E \in Seq(Seq(X)) /\ Len(E) = n + 1 /\ E # <<>> /\ E[n + 1] = <<>>
          /\ \A c \in 1..n : E[c] = D[c]
      <3>1. E \in Seq(Seq(X)) /\ Len(E) = n + 1 /\ E[n + 1] = <<>>
        <4>1. D \in Seq(Seq(X)) /\ Len(D) = n /\ <<>> \in Seq(X)
          BY <1>2, <1>4
        <4>. QED BY ONLY <2>1, <4>1, AppendProperties
      <3>2. \A c \in 1..n : E[c] = D[c]
        BY <1>2, <2>1
      <3>3. n + 1 # 0
        BY <1>2
      <3>. QED BY <3>1, <3>2, <3>3
    <2>3. /\ F \in Seq(Seq(X)) /\ Len(F) = n + 1 /\ F # <<>>
          /\ \A c \in 1..(n + 1) : F[c] = IF c = n + 1 THEN E[c] \o o ELSE E[c]
      <3>1. Extended(X, E, o, F)
        BY <1>5, <2>2, ExtendFacts
      <3>. QED BY <2>2, <3>1 DEF Extended
    <2>4. F[n + 1] = o
      <3>1. n + 1 \in 1..(n + 1) /\ <<>> \o o = o
        BY <1>2
      <3>. QED BY <2>2, <2>3, <3>1
    <2>5. \A c \in 1..n : F[c] = D[c]
      <3>1. \A c \in 1..n : c \in 1..(n + 1) /\ c # n + 1
        BY <1>2
      <3>. QED BY <2>2, <2>3, <3>1
    <2>6. F[n] = C[n] \o a /\ \A c \in 1..(n - 1) : F[c] = C[c]
      BY <1>2, <1>4, <2>5
    <2>7. FlattenSeq(E) = FlattenSeq(D) \o <<>> /\ FlattenSeq(F) = FlattenSeq(E) \o o
      <3>1. FlattenSeq(E) = FlattenSeq(D) \o <<>>
        <4>1. D \in Seq(Seq(X)) /\ <<>> \in Seq(X)
          BY <1>2
        <4>. QED BY ONLY <2>1, <4>1, FlattenFacts
      <3>2. FlattenSeq(F) = FlattenSeq(E) \o o
        BY <1>5, <2>2, FlattenFacts
      <3>. QED BY <3>1, <3>2
    <2>8. FlattenSeq(D) \o <<>> = FlattenSeq(D)
      <3>1. FlattenSeq(D) \in Seq(X)
        BY <1>2, FlattenFacts
      <3>. QED BY <3>1
    <2>. QED BY <1>2, <1>6, <1>7, <1>8, <2>3, <2>4, <2>6, <2>7, <2>8 DEF Filling
  <1>9. ASSUME ~t.switch PROVE Filling(X, C, t.switch, a, o, n, F)
    <2>1. E = D
      BY <1>3, <1>9 DEF Switched
    <2>2. /\ F \in Seq(Seq(X)) /\ Len(F) = n /\ F # <<>>
          /\ \A c \in 1..n : F[c] = IF c = n THEN D[c] \o o ELSE D[c]
      <3>1. Extended(X, D, o, F)
        BY <1>2, <1>5, <2>1, ExtendFacts
      <3>. QED BY <1>2, <3>1 DEF Extended
    <2>3. F[n] = (C[n] \o a) \o o /\ \A c \in 1..(n - 1) : F[c] = C[c]
      BY <1>2, <1>4, <2>2
    <2>4. FlattenSeq(F) = FlattenSeq(D) \o o
      BY <1>2, <1>5, <2>1, FlattenFacts
    <2>. QED BY <1>2, <1>6, <1>7, <1>9, <2>2, <2>3, <2>4 DEF Filling
  <1>. QED BY <1>0, <1>8, <1>9

(* The place behind which a transition of n tokens of action is observed. *)
Behind(C, t, n) == IF t.switch THEN 0 ELSE Len(C[Len(C)]) + n

(* F is C filled by a transition, place by place: n and m contexts, p tokens *)
(* in the last one before, the observation behind b tokens.                  *)
Places(X, C, switch, a, o, F, n, m, p, b) ==
  /\ n \in Nat /\ 1 <= n /\ m \in Nat /\ n <= m /\ p \in Nat /\ b \in Nat
  /\ F \in Seq(Seq(X)) /\ F # <<>>
  /\ m = (IF switch THEN n + 1 ELSE n)
  /\ \A c \in 1..(n - 1) : Len(F[c]) = Len(C[c])
  /\ switch => Len(F[n]) = p + Len(a) /\ Len(F[m]) = Len(o)
  /\ ~switch => Len(F[n]) = p + Len(a) + Len(o)
  /\ \A c \in 1..n : \A i \in 1..Len(C[c]) : F[c][i] = C[c][i]
  /\ \A j \in 1..Len(a) : F[n][p + j] = a[j]
  /\ \A j \in 1..Len(o) : F[m][b + j] = o[j]

(* Fill does that. *)
LEMMA FillPlaces ==
  ASSUME NEW X, NEW C \in Seq(Seq(X)), C # <<>>, NEW t, t.switch \in BOOLEAN,
         NEW a \in Seq(X), NEW o \in Seq(X), NEW F, F = Fill(C, t, a, o)
  PROVE  Places(X, C, t.switch, a, o, F, Len(C), Len(F), Len(C[Len(C)]), Behind(C, t, Len(a)))
  <1>0. PICK n, m, p, b : n = Len(C) /\ m = Len(F) /\ p = Len(C[n]) /\ b = Behind(C, t, Len(a))
    OBVIOUS
  <1>1. /\ n \in Nat /\ 1 <= n /\ C[n] \in Seq(X)
        /\ F \in Seq(Seq(X)) /\ F # <<>>
        /\ m = (IF t.switch THEN n + 1 ELSE n)
        /\ \A c \in 1..(n - 1) : F[c] = C[c]
        /\ t.switch => F[n] = C[n] \o a /\ F[n + 1] = o
        /\ ~t.switch => F[n] = (C[n] \o a) \o o
    <2>1. Filling(X, C, t.switch, a, o, n, F)
      BY <1>0, FillFacts
    <2>. QED BY <1>0, <2>1 DEF Filling
  <1>2. PICK q, r, x, y : q = Len(a) /\ r = Len(o) /\ x = C[n] /\ y = x \o a
    OBVIOUS
  <1>3. /\ p \in Nat /\ q \in Nat /\ r \in Nat /\ p = Len(x) /\ x \in Seq(X)
        /\ y \in Seq(X) /\ Len(y) = p + q
        /\ \A i \in 1..(p + q) : y[i] = IF i <= p THEN x[i] ELSE a[i - p]
    <2>1. x \in Seq(X) /\ p = Len(x)
      BY <1>0, <1>1, <1>2
    <2>2. p \in Nat /\ q \in Nat /\ r \in Nat
      BY <1>2, <2>1, LenProperties
    <2>. QED BY <1>2, <2>1, <2>2, ConcatProperties
  <1>4. PICK s : s = p + q
    OBVIOUS
  <1>5. PICK z : z = y \o o
    OBVIOUS
  <1>6. /\ s \in Nat /\ Len(z) = s + r
        /\ \A i \in 1..(s + r) : z[i] = IF i <= s THEN y[i] ELSE o[i - s]
    <2>1. y \in Seq(X) /\ o \in Seq(X) /\ Len(y) = s /\ Len(o) = r /\ z = y \o o
      BY <1>2, <1>3, <1>4, <1>5
    <2>2. s \in Nat
      BY <1>3, <1>4
    <2>. QED BY ONLY <2>1, <2>2, ConcatProperties
  <1>7. (\A i \in 1..p : i \in 1..(p + q) /\ i <= p /\ i \in 1..(s + r) /\ i <= s)
        /\ (\A j \in 1..q : p + j \in 1..(p + q) /\ ~(p + j <= p) /\ (p + j) - p = j
                      /\ p + j \in 1..(s + r) /\ p + j <= s)
        /\ (\A j \in 1..r : s + j \in 1..(s + r) /\ ~(s + j <= s) /\ (s + j) - s = j)
    BY <1>3, <1>4, <1>6
  <1>8. (\A i \in 1..p : y[i] = x[i] /\ z[i] = x[i])
        /\ (\A j \in 1..q : y[p + j] = a[j] /\ z[p + j] = a[j])
    <2>1. ASSUME NEW i \in 1..p PROVE y[i] = x[i] /\ z[i] = x[i]
      BY <1>3, <1>6, <1>7
    <2>2. ASSUME NEW j \in 1..q PROVE y[p + j] = a[j] /\ z[p + j] = a[j]
      <3>1. PICK k : k = p + j
        OBVIOUS
      <3>2. k \in 1..(p + q) /\ ~(k <= p) /\ k - p = j /\ k \in 1..(s + r) /\ k <= s
        BY <1>7, <3>1
      <3>3. y[k] = a[k - p] /\ z[k] = y[k]
        BY <1>3, <1>6, <3>2
      <3>. QED BY <3>1, <3>2, <3>3
    <2>. QED BY <2>1, <2>2
  <1>9. \A j \in 1..r : z[s + j] = o[j]
    BY <1>6, <1>7
  <1>10. \A c \in 1..n : c \in 1..(n - 1) \/ c = n
    BY <1>1
  <1>11. ASSUME NEW v, \A i \in 1..p : v[i] = x[i], F[n] = v, NEW c \in 1..n, NEW i \in 1..Len(C[c])
         PROVE  F[c][i] = C[c][i]
    <2>1. CASE c \in 1..(n - 1)
      BY <1>1, <2>1
    <2>2. CASE c = n
      <3>1. i \in 1..p
        BY <1>0, <2>2
      <3>. QED BY <1>2, <1>11, <2>2, <3>1
    <2>. QED BY <1>10, <2>1, <2>2
  <1>12. ASSUME t.switch PROVE Places(X, C, t.switch, a, o, F, n, m, p, b)
    <2>1. F[n] = y /\ F[m] = o /\ m = n + 1 /\ b = 0
      BY <1>0, <1>1, <1>2, <1>12 DEF Behind
    <2>2. \A c \in 1..n : \A i \in 1..Len(C[c]) : F[c][i] = C[c][i]
      BY <1>8, <1>11, <2>1
    <2>3. \A j \in 1..r : F[m][b + j] = o[j]
      BY <2>1
    <2>4. Len(F[n]) = p + q /\ Len(F[m]) = r /\ \A j \in 1..q : F[n][p + j] = a[j]
      BY <1>2, <1>3, <1>8, <2>1
    <2>5. n <= m /\ m \in Nat /\ b \in Nat
      BY <1>1, <2>1
    <2>6. \A c \in 1..(n - 1) : Len(F[c]) = Len(C[c])
      BY <1>1
    <2>. QED BY <1>1, <1>2, <1>3, <1>12, <2>2, <2>3, <2>4, <2>5, <2>6 DEF Places
  <1>13. ASSUME ~t.switch PROVE Places(X, C, t.switch, a, o, F, n, m, p, b)
    <2>1. F[n] = z /\ m = n /\ b = s
      BY <1>0, <1>1, <1>2, <1>4, <1>5, <1>13 DEF Behind
    <2>2. \A c \in 1..n : \A i \in 1..Len(C[c]) : F[c][i] = C[c][i]
      BY <1>8, <1>11, <2>1
    <2>3. \A j \in 1..r : F[m][b + j] = o[j]
      BY <1>9, <2>1
    <2>4. Len(F[n]) = p + q + r /\ \A j \in 1..q : F[n][p + j] = a[j]
      BY <1>4, <1>6, <1>8, <2>1
    <2>5. n <= m /\ m \in Nat /\ b \in Nat
      BY <1>1, <1>6, <2>1
    <2>6. \A c \in 1..(n - 1) : Len(F[c]) = Len(C[c])
      BY <1>1
    <2>. QED BY <1>1, <1>2, <1>3, <1>13, <2>2, <2>3, <2>4, <2>5, <2>6 DEF Places
  <1>. QED BY <1>0, <1>12, <1>13

(* Every place of a filled field is an old one, one of the action or one of *)
(* the observation.                                                         *)
Covers(C, a, o, F, n, m, p, b) ==
  \A c \in 1..m : \A i \in 1..Len(F[c]) :
    \/ c \in 1..n /\ i \in 1..Len(C[c])
    \/ c = n /\ \E j \in 1..Len(a) : i = p + j
    \/ c = m /\ \E j \in 1..Len(o) : i = b + j

(* Fill leaves no other. *)
LEMMA FillCovers ==
  ASSUME NEW X, NEW C, NEW switch \in BOOLEAN, NEW a \in Seq(X), NEW o \in Seq(X), NEW F,
         NEW n, NEW m, NEW p, NEW b, Places(X, C, switch, a, o, F, n, m, p, b),
         b = (IF switch THEN 0 ELSE p + Len(a)), p = Len(C[n])
  PROVE  Covers(C, a, o, F, n, m, p, b)
  <1>0. SUFFICES ASSUME NEW c \in 1..m, NEW i \in 1..Len(F[c])
                 PROVE  \/ c \in 1..n /\ i \in 1..Len(C[c])
                        \/ c = n /\ \E j \in 1..Len(a) : i = p + j
                        \/ c = m /\ \E j \in 1..Len(o) : i = b + j
    BY DEF Covers
  <1>1. /\ n \in Nat /\ 1 <= n /\ m \in Nat /\ n <= m /\ p \in Nat
        /\ m = (IF switch THEN n + 1 ELSE n)
        /\ \A d \in 1..(n - 1) : Len(F[d]) = Len(C[d])
        /\ switch => Len(F[n]) = p + Len(a) /\ Len(F[m]) = Len(o)
        /\ ~switch => Len(F[n]) = p + Len(a) + Len(o)
    BY DEF Places
  <1>2. PICK q, r : q = Len(a) /\ r = Len(o)
    OBVIOUS
  <1>3. q \in Nat /\ r \in Nat
    BY <1>2, LenProperties
  <1>4. c \in 1..(n - 1) \/ c = n \/ (c = m /\ switch)
    BY <1>1
  <1>5. n \in 1..n /\ \A d \in 1..(n - 1) : d \in 1..n
    BY <1>1
  <1>6. CASE c \in 1..(n - 1)
    BY <1>1, <1>5, <1>6
  <1>7. CASE c = n /\ i <= p
    <2>1. i \in 1..p
      BY <1>1, <1>7
    <2>. QED BY <1>5, <1>7, <2>1
  <1>8. CASE c = n /\ ~(i <= p) /\ i <= p + q
    <2>1. PICK j : j = i - p
      OBVIOUS
    <2>2. j \in 1..q /\ i = p + j
      BY <1>1, <1>3, <1>8, <2>1
    <2>. QED BY <1>2, <1>8, <2>2
  <1>9. CASE c = n /\ ~(i <= p + q)
    <2>0. PICK l : l = Len(F[n])
      OBVIOUS
    <2>1. ~switch /\ l = p + q + r /\ i \in 1..l
      <3>1. CASE switch
        <4>1. l = p + q /\ i \in 1..l
          BY <1>1, <1>2, <1>9, <2>0, <3>1
        <4>. QED BY <1>3, <1>9, <4>1
      <3>. QED BY <1>1, <1>2, <1>9, <2>0, <3>1
    <2>2. PICK g, s, j : g = i /\ s = p + q /\ j = g - s
      OBVIOUS
    <2>3. j \in 1..r /\ i = (p + q) + j
      <3>1. s \in Nat /\ ~(g <= s)
        BY <1>1, <1>3, <1>9, <2>2
      <3>2. l = s + r /\ g \in 1..l
        BY <2>1, <2>2
      <3>3. j = g - s /\ r \in Nat
        BY <1>3, <2>2
      <3>4. j \in 1..r /\ g = s + j
        BY ONLY <3>1, <3>2, <3>3
      <3>. QED BY <2>2, <3>4
    <2>4. b = p + q /\ m = n
      BY <1>1, <1>2, <2>1
    <2>. QED BY <1>2, <1>9, <2>3, <2>4
  <1>10. CASE c = m /\ switch
    <2>1. i \in 1..r /\ b = 0 /\ i = 0 + i
      BY <1>1, <1>2, <1>10
    <2>. QED BY <1>2, <1>10, <2>1
  <1>. QED BY <1>4, <1>6, <1>7, <1>8, <1>9, <1>10

(* The contexts behind c, joined. *)
Later(C, c) == FlattenSeq(SubSeq(C, c + 1, Len(C)))

(* What a transition makes of them. *)
LaterFilled(X, C, switch, a, o, n, F, m) ==
  /\ Later(C, n) = <<>> /\ Later(F, m) = <<>>
  /\ switch => Later(F, n) = o
  /\ \A c \in 1..(n - 1) : Later(C, c) \in Seq(X) /\ Later(F, c) = Later(C, c) \o (a \o o)

(* Fill does that. *)
LEMMA LaterFacts ==
  ASSUME NEW X, NEW C \in Seq(Seq(X)), C # <<>>, NEW t, t.switch \in BOOLEAN,
         NEW a \in Seq(X), NEW o \in Seq(X), NEW F, F = Fill(C, t, a, o)
  PROVE  LaterFilled(X, C, t.switch, a, o, Len(C), F, Len(F))
  <1>1. PICK n, m : n = Len(C) /\ m = Len(F)
    OBVIOUS
  <1>2. /\ n \in Nat /\ 1 <= n /\ C[n] \in Seq(X)
        /\ F \in Seq(Seq(X)) /\ F # <<>>
        /\ m = (IF t.switch THEN n + 1 ELSE n)
        /\ \A c \in 1..(n - 1) : F[c] = C[c]
        /\ t.switch => F[n] = C[n] \o a /\ F[n + 1] = o
        /\ ~t.switch => F[n] = (C[n] \o a) \o o
    <2>1. Filling(X, C, t.switch, a, o, n, F)
      BY <1>1, FillFacts
    <2>. QED BY <1>1, <2>1 DEF Filling
  <1>3. Later(C, n) = <<>> /\ Later(F, m) = <<>>
    <2>1. n \in Int /\ m \in Int /\ n + 1 \in Int /\ m + 1 \in Int /\ n < n + 1 /\ m < m + 1
      BY <1>2
    <2>2. SubSeq(C, n + 1, n) = <<>> /\ SubSeq(F, m + 1, m) = <<>>
      BY <2>1, SubSeqEmpty
    <2>3. FlattenSeq(<<>>) = <<>>
      BY FlattenFacts
    <2>. QED BY <1>1, <2>2, <2>3 DEF Later
  <1>4. ASSUME t.switch PROVE Later(F, n) = o
    <2>1. PICK u : u = SubSeq(F, m, m)
      OBVIOUS
    <2>2. m = n + 1 /\ m \in Int /\ F[m] = o /\ m \in 1..m
      BY <1>2, <1>4
    <2>3. \A k \in m..m : F[k] \in Seq(X)
      BY <2>2
    <2>4. u \in Seq(Seq(X)) /\ Len(u) = 1 /\ u[1] = o
      <3>1. u \in Seq(Seq(X)) /\ Len(u) = m - m + 1 /\ \A i \in 1..(m - m + 1) : u[i] = F[m + i - 1]
        <4>1. m \in Int /\ m <= m
          BY <2>2
        <4>. QED BY ONLY <2>1, <2>3, <4>1, SubSeqProperties
      <3>2. m - m + 1 = 1 /\ 1 \in 1..(m - m + 1) /\ m + 1 - 1 = m
        BY <2>2
      <3>. QED BY <2>2, <3>1, <3>2
    <2>5. PICK e : e = Append(<<>>, o)
      OBVIOUS
    <2>6. <<>> \in Seq(Seq(X)) /\ e \in Seq(Seq(X)) /\ Len(e) = 1 /\ e[1] = o
      BY <2>5
    <2>7. u = e
      <3>1. Len(u) = Len(e) /\ \A i \in 1..Len(u) : u[i] = e[i]
        BY <2>4, <2>6
      <3>. QED BY <2>4, <2>6, <3>1, SeqEqual
    <2>8. FlattenSeq(e) = FlattenSeq(<<>>) \o o /\ FlattenSeq(<<>>) = <<>>
      BY <2>5, <2>6, FlattenFacts
    <2>9. Later(F, n) = FlattenSeq(u)
      BY <1>1, <2>1, <2>2 DEF Later
    <2>10. <<>> \o o = o
      OBVIOUS
    <2>11. FlattenSeq(e) = <<>> \o o
      BY <2>8
    <2>. QED BY <2>7, <2>9, <2>10, <2>11
  <1>5. ASSUME NEW c \in 1..(n - 1)
        PROVE  Later(C, c) \in Seq(X) /\ Later(F, c) = Later(C, c) \o (a \o o)
    <2>1. PICK s, l, k : s = c + 1 /\ l = n - c /\ k = m - c
      OBVIOUS
    <2>2. s \in Int /\ n \in Int /\ m \in Int /\ s <= n /\ s <= m /\ n - s + 1 = l /\ m - s + 1 = k
          /\ l \in Nat /\ k \in Nat /\ 1 <= l /\ k = (IF t.switch THEN l + 1 ELSE l)
      BY <1>2, <2>1
    <2>3. PICK D, G : D = SubSeq(C, s, n) /\ G = SubSeq(F, s, m)
      OBVIOUS
    <2>4. D \in Seq(Seq(X)) /\ Len(D) = l /\ \A i \in 1..l : D[i] = C[s + i - 1]
      <3>1. \A i \in s..n : C[i] \in Seq(X)
        <4>1. \A i \in s..n : i \in 1..Len(C)
          BY <1>1, <1>2, <2>1
        <4>. QED BY <4>1, ElementOfSeq
      <3>. QED BY <2>2, <2>3, <3>1, SubSeqProperties
    <2>5. G \in Seq(Seq(X)) /\ Len(G) = k /\ \A i \in 1..k : G[i] = F[s + i - 1]
      <3>1. \A i \in s..m : F[i] \in Seq(X)
        <4>1. \A i \in s..m : i \in 1..Len(F)
          BY <1>1, <1>2, <2>1
        <4>. QED BY <1>2, <4>1, ElementOfSeq
      <3>2. s \in Int /\ m \in Int /\ s <= m /\ m - s + 1 = k /\ G = SubSeq(F, s, m)
        BY <2>2, <2>3
      <3>3. G \in Seq(Seq(X)) /\ Len(G) = m - s + 1 /\ \A i \in 1..(m - s + 1) : G[i] = F[s + i - 1]
        BY ONLY <3>1, <3>2, SubSeqProperties
      <3>. QED BY <3>2, <3>3
    <2>6. D # <<>>
      BY <2>2, <2>4
    <2>7. PICK E : E = Fill(D, t, a, o)
      OBVIOUS
    <2>8. /\ E \in Seq(Seq(X)) /\ Len(E) = k
          /\ \A i \in 1..(l - 1) : E[i] = D[i]
          /\ t.switch => E[l] = D[l] \o a /\ E[l + 1] = o
          /\ ~t.switch => E[l] = (D[l] \o a) \o o
          /\ FlattenSeq(E) = FlattenSeq(D) \o (a \o o)
      <3>1. Filling(X, D, t.switch, a, o, l, E)
        BY <2>4, <2>6, <2>7, FillFacts
      <3>. QED BY <2>2, <3>1 DEF Filling
    <2>9. ASSUME NEW i \in 1..k PROVE G[i] = E[i]
      <3>1. PICK j : j = s + i - 1
        OBVIOUS
      <3>2. G[i] = F[j]
        BY <2>5, <3>1
      <3>3. i \in 1..(l - 1) \/ i = l \/ (i = l + 1 /\ t.switch)
        BY <2>2
      <3>4. CASE i \in 1..(l - 1)
        <4>1. j \in 1..(n - 1) /\ i \in 1..l
          BY <1>2, <2>1, <2>2, <3>1, <3>4
        <4>. QED BY <1>2, <2>4, <2>8, <3>1, <3>2, <3>4, <4>1
      <3>5. CASE i = l
        <4>1. j = n /\ l \in 1..l
          BY <1>2, <2>1, <2>2, <3>1, <3>5
        <4>2. D[l] = C[n]
          BY <2>4, <3>1, <3>5, <4>1
        <4>. QED BY <1>2, <2>8, <3>2, <3>5, <4>1, <4>2
      <3>6. CASE i = l + 1 /\ t.switch
        <4>1. j = n + 1
          BY <1>2, <2>1, <2>2, <3>1, <3>6
        <4>. QED BY <1>2, <2>8, <3>2, <3>6, <4>1
      <3>. QED BY <3>3, <3>4, <3>5, <3>6
    <2>10. G = E
      BY <2>5, <2>8, <2>9, SeqEqual
    <2>11. FlattenSeq(D) \in Seq(X)
      BY <2>4, FlattenFacts
    <2>12. Later(C, c) = FlattenSeq(D) /\ Later(F, c) = FlattenSeq(G)
      BY <1>1, <2>1, <2>3 DEF Later
    <2>. QED BY <2>8, <2>10, <2>11, <2>12
  <1>. QED BY <1>1, <1>3, <1>4, <1>5 DEF LaterFilled

(* The rewards from place i of context c on. *)
ToGo(R, c, i) == Sum(SubSeq(R[c], i, Len(R[c]))) + Sum(Later(R, c))

(* A transition adds its rewards to those from every place before it; from  *)
(* a place of its action there are its own; from its observation, none.     *)
ToGoGrows(R, a, k, F, n, m, p, b) ==
  /\ \A c \in 1..n : \A i \in 1..Len(R[c]) : ToGo(F, c, i) = ToGo(R, c, i) + Sum(a)
  /\ \A j \in 1..Len(a) : ToGo(F, n, p + j) = Sum(SubSeq(a, j, Len(a)))
  /\ \A j \in 1..k : ToGo(F, m, b + j) = 0

(* Fill does that. *)
LEMMA ToGoFill ==
  ASSUME NEW R \in Seq(Seq(Int)), R # <<>>, NEW t, t.switch \in BOOLEAN,
         NEW a \in Seq(Int), NEW o \in Seq(Int), NEW F, F = Fill(R, t, a, o),
         Sum(o) = 0, \A j \in 1..Len(o) : Sum(SubSeq(o, j, Len(o))) = 0
  PROVE  ToGoGrows(R, a, Len(o), F, Len(R), Len(F), Len(R[Len(R)]), Behind(R, t, Len(a)))
  <1>0. PICK n, m, p, b : n = Len(R) /\ m = Len(F) /\ p = Len(R[n]) /\ b = Behind(R, t, Len(a))
    OBVIOUS
  <1>1. /\ n \in Nat /\ 1 <= n /\ R[n] \in Seq(Int)
        /\ F \in Seq(Seq(Int)) /\ F # <<>>
        /\ m = (IF t.switch THEN n + 1 ELSE n)
        /\ \A c \in 1..(n - 1) : F[c] = R[c]
        /\ t.switch => F[n] = R[n] \o a /\ F[n + 1] = o
        /\ ~t.switch => F[n] = (R[n] \o a) \o o
    <2>1. Filling(Int, R, t.switch, a, o, n, F)
      BY <1>0, FillFacts
    <2>. QED BY <1>0, <2>1 DEF Filling
  <1>2. /\ Later(R, n) = <<>> /\ Later(F, m) = <<>>
        /\ t.switch => Later(F, n) = o
        /\ \A c \in 1..(n - 1) : Later(R, c) \in Seq(Int) /\ Later(F, c) = Later(R, c) \o (a \o o)
    <2>1. LaterFilled(Int, R, t.switch, a, o, n, F, m)
      BY <1>0, LaterFacts
    <2>. QED BY <2>1 DEF LaterFilled
  <1>3. PICK x, q, y : x = R[n] /\ q = Len(a) /\ y = x \o a
    OBVIOUS
  <1>4. x \in Seq(Int) /\ y \in Seq(Int) /\ p = Len(x) /\ p \in Nat /\ q \in Nat /\ Len(y) = p + q
    <2>1. x \in Seq(Int) /\ p = Len(x)
      BY <1>0, <1>1, <1>3
    <2>. QED BY <1>3, <2>1, LenProperties, ConcatProperties
  <1>e. EndsJoin(x, a) /\ EndsJoin(y, o)
    BY <1>4, SuffixJoin
  <1>5. Sum(<<>>) = 0 /\ (\A w \in Seq(Int) : Sum(w) \in Int)
        /\ \A v, w \in Seq(Int) : Sum(v \o w) = Sum(v) + Sum(w)
    BY SumFacts
  <1>6. PICK A : A = Sum(a)
    OBVIOUS
  <1>7. A \in Int /\ a \o o \in Seq(Int) /\ Sum(a \o o) = A
    <2>1. Sum(a \o o) = A + 0 /\ A \in Int
      BY <1>5, <1>6
    <2>2. a \o o \in Seq(Int)
      BY ConcatProperties
    <2>. QED BY <2>1, <2>2
  <1>8. ASSUME NEW c \in 1..n, NEW i \in 1..Len(R[c])
        PROVE  ToGo(F, c, i) = ToGo(R, c, i) + A
    <2>1. CASE c \in 1..(n - 1)
      <3>1. F[c] = R[c] /\ Sum(Later(F, c)) = Sum(Later(R, c)) + A
        BY <1>1, <1>2, <1>5, <1>7, <2>1
      <3>2. PICK f, g : f = Sum(SubSeq(R[c], i, Len(R[c]))) /\ g = Sum(Later(R, c))
        OBVIOUS
      <3>3. f \in Int
        <4>1. R[c] \in Seq(Int) /\ Len(R[c]) \in Int /\ i \in Int
          BY <1>0, <1>1, ElementOfSeq, LenProperties
        <4>2. \A k \in i..Len(R[c]) : R[c][k] \in Int
          <5>1. \A k \in i..Len(R[c]) : k \in 1..Len(R[c])
            BY <4>1
          <5>. QED BY <4>1, <5>1, ElementOfSeq
        <4>3. SubSeq(R[c], i, Len(R[c])) \in Seq(Int)
          BY <4>1, <4>2, SubSeqProperties
        <4>. QED BY <1>5, <3>2, <4>3
      <3>4. g \in Int
        BY <1>2, <1>5, <2>1, <3>2
      <3>5. ToGo(F, c, i) = f + (g + A) /\ ToGo(R, c, i) = f + g
        BY <3>1, <3>2 DEF ToGo
      <3>. QED BY <1>7, <3>3, <3>4, <3>5
    <2>2. CASE c = n
      <3>1. i \in 1..p
        BY <1>0, <2>2
      <3>2. PICK u : u = SubSeq(x, i, p)
        OBVIOUS
      <3>3. u \in Seq(Int)
        <4>1. p \in Int /\ i \in Int /\ \A k \in i..p : x[k] \in Int
          <5>1. \A k \in i..p : k \in 1..Len(x)
            BY <1>4, <3>1
          <5>. QED BY <1>4, <5>1, <3>1, ElementOfSeq
        <4>. QED BY <3>2, <4>1, SubSeqProperties
      <3>4. ToGo(R, c, i) = Sum(u) + 0 /\ Sum(u) \in Int
        BY <1>0, <1>2, <1>3, <1>5, <2>2, <3>2, <3>3 DEF ToGo
      <3>5. SubSeq(y, i, Len(y)) = u \o a
        BY <1>3, <1>4, <3>1, <3>2, <1>e DEF EndsJoin
      <3>6. u \o a \in Seq(Int) /\ Sum(u \o a) = Sum(u) + A
        BY <1>5, <1>6, <3>3, ConcatProperties
      <3>7. CASE t.switch
        <4>1. F[c] = y /\ Later(F, c) = o
          BY <1>1, <1>2, <1>3, <2>2, <3>7
        <4>2. ToGo(F, c, i) = (Sum(u) + A) + 0
          BY <3>5, <3>6, <4>1 DEF ToGo
        <4>. QED BY <1>7, <3>4, <4>2
      <3>8. CASE ~t.switch
        <4>1. F[c] = y \o o /\ Later(F, c) = <<>>
          BY <1>1, <1>2, <1>3, <2>2, <3>8
        <4>2. i \in 1..Len(y)
          BY <1>4, <3>1
        <4>3. SubSeq(y \o o, i, Len(y \o o)) = (u \o a) \o o
          BY <1>4, <3>5, <4>2, <1>e DEF EndsJoin
        <4>4. Sum((u \o a) \o o) = (Sum(u) + A) + 0
          BY <1>5, <3>6
        <4>5. ToGo(F, c, i) = ((Sum(u) + A) + 0) + 0
          BY <1>5, <4>1, <4>3, <4>4 DEF ToGo
        <4>. QED BY <1>7, <3>4, <4>5
      <3>. QED BY <3>7, <3>8
    <2>3. c \in 1..(n - 1) \/ c = n
      BY <1>1
    <2>. QED BY <2>1, <2>2, <2>3
  <1>9. ASSUME NEW j \in 1..q PROVE ToGo(F, n, p + j) = Sum(SubSeq(a, j, q))
    <2>1. SubSeq(y, p + j, Len(y)) = SubSeq(a, j, q)
      BY <1>3, <1>4, <1>e DEF EndsJoin
    <2>2. PICK u, k : u = SubSeq(a, j, q) /\ k = p + j
      OBVIOUS
    <2>3. u \in Seq(Int)
      <3>1. j \in Int /\ q \in Int /\ \A i \in j..q : a[i] \in Int
        <4>1. \A i \in j..q : i \in 1..Len(a)
          BY <1>3, <1>4
        <4>. QED BY <1>4, <4>1, ElementOfSeq
      <3>. QED BY <2>2, <3>1, SubSeqProperties
    <2>4. Sum(u) \in Int
      BY <1>5, <2>3
    <2>5. CASE t.switch
      <3>1. F[n] = y /\ Later(F, n) = o
        BY <1>1, <1>2, <1>3, <2>5
      <3>2. ToGo(F, n, k) = Sum(u) + 0
        BY <2>1, <2>2, <3>1 DEF ToGo
      <3>. QED BY <2>2, <2>4, <3>2
    <2>6. CASE ~t.switch
      <3>1. F[n] = y \o o /\ Later(F, n) = <<>>
        BY <1>1, <1>2, <1>3, <2>6
      <3>2. k \in 1..Len(y)
        BY <1>4, <2>2
      <3>3. SubSeq(y \o o, k, Len(y \o o)) = u \o o
        BY <1>4, <2>1, <2>2, <3>2, <1>e DEF EndsJoin
      <3>4. Sum(u \o o) = Sum(u) + 0
        BY <1>5, <2>3
      <3>5. ToGo(F, n, k) = (Sum(u) + 0) + 0
        BY <1>5, <3>1, <3>3, <3>4 DEF ToGo
      <3>. QED BY <2>2, <2>4, <3>5
    <2>. QED BY <2>5, <2>6
  <1>10. ASSUME NEW j \in 1..Len(o) PROVE ToGo(F, m, b + j) = 0
    <2>1. CASE t.switch
      <3>1. F[m] = o /\ b + j = j
        BY <1>0, <1>1, <2>1 DEF Behind
      <3>. QED BY <1>2, <1>5, <3>1 DEF ToGo
    <2>2. CASE ~t.switch
      <3>1. F[m] = y \o o /\ b = Len(y)
        BY <1>0, <1>1, <1>3, <1>4, <2>2 DEF Behind
      <3>2. SubSeq(y \o o, b + j, Len(y \o o)) = SubSeq(o, j, Len(o))
        BY <1>4, <3>1, <1>e DEF EndsJoin
      <3>3. m \in Nat /\ F[m] = y \o o
        BY <1>1, <3>1
      <3>4. ToGo(F, m, b + j) = 0 + 0
        <4>1. PICK k : k = b + j
          OBVIOUS
        <4>2. SubSeq(F[m], k, Len(F[m])) = SubSeq(o, j, Len(o))
          BY <3>2, <3>3, <4>1
        <4>. QED BY <1>2, <1>5, <4>1, <4>2 DEF ToGo
      <3>. QED BY <3>4
    <2>. QED BY <2>1, <2>2
  <1>. QED BY <1>0, <1>3, <1>6, <1>8, <1>9, <1>10 DEF ToGoGrows

(* The tokens, transitions and trajectories there are. *)
Tokens == Nat \X {"action", "observation"} \X Nat
Transitions ==
  {t \in [action : Seq(Tokens), rewards : Seq(Int), terminal : BOOLEAN,
          observation : Seq(Tokens), switch : BOOLEAN] :
     IsTransition(t) /\ Len(t.rewards) = Len(t.action)}
Trajectories ==
  [transitions : Seq(Transitions), tokens : Seq(Seq(Tokens)), logps : Seq(Seq(Int)),
   source : Seq(Seq({"agent", "env"})), rewards : Seq(Seq(Int)), terminated : BOOLEAN,
   truncation : Seq(Int)]

(* Two fields have as many contexts, of the same lengths. *)
SameShape(C, D) == Len(C) = Len(D) /\ \A c \in 1..Len(C) : Len(C[c]) = Len(D[c])
Shaped(x) ==
  /\ x.tokens # <<>> /\ SameShape(x.tokens, x.logps) /\ SameShape(x.tokens, x.source)
  /\ SameShape(x.tokens, x.rewards)

(* Of two fields of one shape the last contexts end alike. *)
LEMMA ShapeFacts ==
  ASSUME NEW X, NEW Y, NEW C \in Seq(Seq(X)), NEW D \in Seq(Seq(Y)), C # <<>>, SameShape(C, D)
  PROVE  D # <<>> /\ Len(D) = Len(C) /\ Len(D[Len(C)]) = Len(C[Len(C)])
  <1>1. Len(C) \in Nat /\ Len(C) # 0
    BY EmptySeq, LenProperties
  <1>2. Len(C) \in 1..Len(C)
    BY <1>1
  <1>. QED BY <1>1, <1>2 DEF SameShape

(* A transition fills two fields of one shape to one shape. *)
LEMMA ShapeFill ==
  ASSUME NEW X, NEW Y, NEW C \in Seq(Seq(X)), NEW D \in Seq(Seq(Y)), C # <<>>, SameShape(C, D),
         NEW t, t.switch \in BOOLEAN, NEW a \in Seq(X), NEW o \in Seq(X), NEW d \in Seq(Y),
         NEW e \in Seq(Y), Len(a) = Len(d), Len(o) = Len(e)
  PROVE  SameShape(Fill(C, t, a, o), Fill(D, t, d, e))
  <1>1. PICK n, F, G, m, p, b : n = Len(C) /\ F = Fill(C, t, a, o) /\ G = Fill(D, t, d, e)
                             /\ m = Len(F) /\ p = Len(C[n]) /\ b = Behind(C, t, Len(a))
    OBVIOUS
  <1>2. PICK q, r : q = Len(a) /\ r = Len(o)
    OBVIOUS
  <1>3. D # <<>> /\ n = Len(D) /\ p = Len(D[n])
    BY <1>1, ShapeFacts
  <1>4. /\ n \in Nat /\ m = (IF t.switch THEN n + 1 ELSE n)
        /\ \A c \in 1..(n - 1) : Len(F[c]) = Len(C[c])
        /\ t.switch => Len(F[n]) = p + q /\ Len(F[m]) = r
        /\ ~t.switch => Len(F[n]) = p + q + r
    <2>1. Places(X, C, t.switch, a, o, F, Len(C), Len(F), Len(C[Len(C)]), Behind(C, t, Len(a)))
      <3>1. C \in Seq(Seq(X)) /\ C # <<>> /\ t.switch \in BOOLEAN /\ a \in Seq(X) /\ o \in Seq(X)
            /\ F = Fill(C, t, a, o)
        BY <1>1
      <3>. QED BY ONLY <3>1, FillPlaces
    <2>2. Places(X, C, t.switch, a, o, F, n, m, p, b)
      BY <1>1, <2>1
    <2>. QED BY <1>2, <2>2 DEF Places
  <1>5. /\ Len(G) = (IF t.switch THEN n + 1 ELSE n)
        /\ \A c \in 1..(n - 1) : Len(G[c]) = Len(D[c])
        /\ t.switch => Len(G[n]) = p + q /\ Len(G[Len(G)]) = r
        /\ ~t.switch => Len(G[n]) = p + q + r
    <2>1. Places(Y, D, t.switch, d, e, G, Len(D), Len(G), Len(D[Len(D)]), Behind(D, t, Len(d)))
      <3>1. D \in Seq(Seq(Y)) /\ D # <<>> /\ t.switch \in BOOLEAN /\ d \in Seq(Y) /\ e \in Seq(Y)
            /\ G = Fill(D, t, d, e)
        BY <1>1, <1>3
      <3>. QED BY ONLY <3>1, FillPlaces
    <2>2. Places(Y, D, t.switch, d, e, G, n, Len(G), p, Behind(D, t, Len(d)))
      BY <1>3, <2>1
    <2>. QED BY <1>2, <2>2 DEF Places
  <1>6. ASSUME NEW c \in 1..m PROVE Len(F[c]) = Len(G[c])
    <2>1. c \in 1..(n - 1) \/ c = n \/ (c = m /\ t.switch)
      BY <1>4
    <2>2. CASE c \in 1..(n - 1)
      <3>1. c \in 1..n
        BY <1>4, <2>2
      <3>. QED BY <1>1, <1>4, <1>5, <2>2, <3>1 DEF SameShape
    <2>3. CASE c = n
      BY <1>4, <1>5, <2>3
    <2>4. CASE c = m /\ t.switch
      BY <1>4, <1>5, <2>4
    <2>. QED BY <2>1, <2>2, <2>3, <2>4
  <1>7. m = Len(F) /\ Len(G) = m
    BY <1>1, <1>4, <1>5
  <1>. QED BY <1>1, <1>6, <1>7 DEF SameShape

(* A trajectory with one transition more, field by field. *)
LEMMA AppendIs ==
  ASSUME NEW x \in Trajectories, NEW t, NEW l
  PROVE  AppendTransition(x, t, l) =
           [transitions |-> Append(x.transitions, t),
            tokens      |-> Fill(x.tokens, t, t.action, t.observation),
            logps       |-> Fill(x.logps, t, l, Zeros(Len(t.observation))),
            source      |-> Fill(x.source, t, [i \in 1..Len(t.action) |-> "agent"],
                                 [i \in 1..Len(t.observation) |-> "env"]),
            rewards     |-> Fill(x.rewards, t, t.rewards, Zeros(Len(t.observation))),
            terminated  |-> t.terminal,
            truncation  |-> x.truncation]
  <1>1. PICK a, b, c, d, e, f, g :
          a = x.transitions /\ b = x.tokens /\ c = x.logps /\ d = x.source /\ e = x.rewards
          /\ f = x.terminated /\ g = x.truncation
    OBVIOUS
  <1>2. x = [transitions |-> a, tokens |-> b, logps |-> c, source |-> d, rewards |-> e,
             terminated |-> f, truncation |-> g]
    BY <1>1 DEF Trajectories
  <1>3. PICK B, C, D, E :
          /\ B = Fill(b, t, t.action, t.observation)
          /\ C = Fill(c, t, l, Zeros(Len(t.observation)))
          /\ D = Fill(d, t, [i \in 1..Len(t.action) |-> "agent"],
                      [i \in 1..Len(t.observation) |-> "env"])
          /\ E = Fill(e, t, t.rewards, Zeros(Len(t.observation)))
    OBVIOUS
  <1>4. AppendTransition(x, t, l) =
          [x EXCEPT !.transitions = Append(a, t), !.tokens = B, !.logps = C, !.source = D,
                    !.rewards = E, !.terminated = t.terminal]
    BY <1>1, <1>3 DEF AppendTransition
  <1>5. AppendTransition(x, t, l) =
          [transitions |-> Append(a, t), tokens |-> B, logps |-> C, source |-> D,
           rewards |-> E, terminated |-> t.terminal, truncation |-> g]
    BY <1>2, <1>4
  <1>. QED BY <1>1, <1>3, <1>5

(* It is a trajectory, of one shape. *)
LEMMA AppendShaped ==
  ASSUME NEW x \in Trajectories, Shaped(x), NEW t \in Transitions, NEW l \in Seq(Int),
         Len(l) = Len(t.action), NEW y, y = AppendTransition(x, t, l)
  PROVE  y \in Trajectories /\ Shaped(y)
  <1>1. PICK a, o, r, n, m : a = t.action /\ o = t.observation /\ r = t.rewards
                             /\ n = Len(a) /\ m = Len(o)
    OBVIOUS
  <1>2. /\ a \in Seq(Tokens) /\ o \in Seq(Tokens) /\ r \in Seq(Int) /\ t.switch \in BOOLEAN
        /\ t.terminal \in BOOLEAN /\ Len(r) = n /\ Len(l) = n /\ n \in Nat /\ m \in Nat
    BY <1>1, LenProperties DEF Transitions
  <1>3. PICK z, g, e : z = Zeros(m) /\ g = [i \in 1..n |-> "agent"] /\ e = [i \in 1..m |-> "env"]
    OBVIOUS
  <1>4. PICK A : A = {"agent", "env"}
    OBVIOUS
  <1>5. z \in Seq(Int) /\ Len(z) = m /\ g \in Seq(A) /\ Len(g) = n /\ e \in Seq(A) /\ Len(e) = m
    BY <1>2, <1>3, <1>4 DEF Zeros
  <1>6. PICK T, L, S, R : T = x.tokens /\ L = x.logps /\ S = x.source /\ R = x.rewards
    OBVIOUS
  <1>7. T \in Seq(Seq(Tokens)) /\ L \in Seq(Seq(Int)) /\ S \in Seq(Seq(A)) /\ R \in Seq(Seq(Int))
        /\ x.transitions \in Seq(Transitions) /\ x.truncation \in Seq(Int)
    BY <1>4, <1>6 DEF Trajectories
  <1>8. T # <<>> /\ SameShape(T, L) /\ SameShape(T, S) /\ SameShape(T, R)
    BY <1>6 DEF Shaped
  <1>9. L # <<>> /\ S # <<>> /\ R # <<>>
    BY <1>7, <1>8, ShapeFacts
  <1>10. y = [transitions |-> Append(x.transitions, t), tokens |-> Fill(T, t, a, o),
              logps |-> Fill(L, t, l, z), source |-> Fill(S, t, g, e),
              rewards |-> Fill(R, t, r, z), terminated |-> t.terminal,
              truncation |-> x.truncation]
    BY <1>1, <1>3, <1>6, AppendIs
  <1>11. Fill(T, t, a, o) \in Seq(Seq(Tokens)) /\ Fill(T, t, a, o) # <<>>
    <2>1. Filling(Tokens, T, t.switch, a, o, Len(T), Fill(T, t, a, o))
      BY <1>2, <1>7, <1>8, FillFacts
    <2>. QED BY <2>1 DEF Filling
  <1>12. Fill(L, t, l, z) \in Seq(Seq(Int))
    <2>1. Filling(Int, L, t.switch, l, z, Len(L), Fill(L, t, l, z))
      BY <1>2, <1>5, <1>7, <1>9, FillFacts
    <2>. QED BY <2>1 DEF Filling
  <1>13. Fill(S, t, g, e) \in Seq(Seq(A))
    <2>1. Filling(A, S, t.switch, g, e, Len(S), Fill(S, t, g, e))
      BY <1>2, <1>5, <1>7, <1>9, FillFacts
    <2>. QED BY <2>1 DEF Filling
  <1>14. Fill(R, t, r, z) \in Seq(Seq(Int))
    <2>1. Filling(Int, R, t.switch, r, z, Len(R), Fill(R, t, r, z))
      BY <1>2, <1>5, <1>7, <1>9, FillFacts
    <2>. QED BY <2>1 DEF Filling
  <1>15. SameShape(Fill(T, t, a, o), Fill(L, t, l, z))
    <2>1. T \in Seq(Seq(Tokens)) /\ L \in Seq(Seq(Int)) /\ T # <<>> /\ SameShape(T, L)
          /\ t.switch \in BOOLEAN /\ a \in Seq(Tokens) /\ o \in Seq(Tokens) /\ l \in Seq(Int)
          /\ z \in Seq(Int) /\ Len(a) = Len(l) /\ Len(o) = Len(z)
      BY <1>1, <1>2, <1>5, <1>7, <1>8
    <2>. QED BY ONLY <2>1, ShapeFill
  <1>16. SameShape(Fill(T, t, a, o), Fill(S, t, g, e))
    <2>1. T \in Seq(Seq(Tokens)) /\ S \in Seq(Seq(A)) /\ T # <<>> /\ SameShape(T, S)
          /\ t.switch \in BOOLEAN /\ a \in Seq(Tokens) /\ o \in Seq(Tokens) /\ g \in Seq(A)
          /\ e \in Seq(A) /\ Len(a) = Len(g) /\ Len(o) = Len(e)
      BY <1>1, <1>2, <1>5, <1>7, <1>8
    <2>. QED BY ONLY <2>1, ShapeFill
  <1>17. SameShape(Fill(T, t, a, o), Fill(R, t, r, z))
    <2>1. T \in Seq(Seq(Tokens)) /\ R \in Seq(Seq(Int)) /\ T # <<>> /\ SameShape(T, R)
          /\ t.switch \in BOOLEAN /\ a \in Seq(Tokens) /\ o \in Seq(Tokens) /\ r \in Seq(Int)
          /\ z \in Seq(Int) /\ Len(a) = Len(r) /\ Len(o) = Len(z)
      BY <1>1, <1>2, <1>5, <1>7, <1>8
    <2>. QED BY ONLY <2>1, ShapeFill
  <1>18. Append(x.transitions, t) \in Seq(Transitions)
    BY <1>7
  <1>19. y \in Trajectories
    BY <1>2, <1>4, <1>7, <1>10, <1>11, <1>12, <1>13, <1>14, <1>18 DEF Trajectories
  <1>20. Shaped(y)
    BY <1>10, <1>11, <1>15, <1>16, <1>17 DEF Shaped
  <1>. QED BY <1>19, <1>20

(* The trajectory without a transition. *)
LEMMA EmptyShaped == EmptyTrajectory \in Trajectories /\ Shaped(EmptyTrajectory)
  <1>1. PICK e : e = << <<>> >>
    OBVIOUS
  <1>2. e \in Seq(Seq(Tokens)) /\ e \in Seq(Seq(Int)) /\ e \in Seq(Seq({"agent", "env"})) /\ e # <<>>
        /\ SameShape(e, e)
    BY <1>1 DEF SameShape
  <1>3. EmptyTrajectory = [transitions |-> <<>>, tokens |-> e, logps |-> e, source |-> e,
                           rewards |-> e, terminated |-> FALSE, truncation |-> <<>>]
    BY <1>1 DEF EmptyTrajectory, NoReturn
  <1>4. <<>> \in Seq(Transitions) /\ <<>> \in Seq(Int)
    OBVIOUS
  <1>5. EmptyTrajectory \in Trajectories
    BY <1>2, <1>3, <1>4 DEF Trajectories
  <1>6. Shaped(EmptyTrajectory)
    BY <1>2, <1>3 DEF Shaped
  <1>. QED BY <1>5, <1>6

(* The trajectories that loading transitions goes through. *)
LoadRuns(c, w) ==
  /\ c \in [0..Len(w) -> {x \in Trajectories : Shaped(x)}] /\ c[0] = EmptyTrajectory
  /\ \A k \in 1..Len(w) : c[k] = AppendTransition(c[k - 1], w[k], Zeros(Len(w[k].action)))

(* FromTransitions is the last of them. *)
LEMMA FromLoads ==
  ASSUME NEW w \in Seq(Transitions)
  PROVE  \E c : LoadRuns(c, w) /\ FromTransitions(w) = c[Len(w)]
  <1>. DEFINE n == Len(w)
              Shapes == {x \in Trajectories : Shaped(x)}
              Add(x, t) == AppendTransition(x, t, Zeros(Len(t.action)))
              IsFold(f) == f = [s \in SUBSET DOMAIN w |->
                                  IF s = {} THEN EmptyTrajectory
                                  ELSE LET x == Max(s) IN Add(f[s \ {x}], w[x])]
              it == CHOOSE f : IsFold(f)
              Eq(f) == f = [s \in SUBSET (1..n) |-> IF s = {} THEN EmptyTrajectory
                                                    ELSE Add(f[s \ {Max(s)}], w[Max(s)])]
  <1>1. n \in Nat /\ DOMAIN w = 1..n /\ \A i \in 1..n : w[i] \in Transitions
    BY LenProperties, ElementOfSeq
  <1>2. FromTransitions(w) = it[1..n]
    <2>1. FromTransitions(w) = it[DOMAIN w]
      BY DEF FromTransitions, FoldLeft, MapThenFoldSet
    <2>. HIDE DEF it, n
    <2>. QED BY <1>1, <2>1
  <1>3. ASSUME NEW f PROVE IsFold(f) <=> Eq(f)
    <2>. HIDE DEF n, Add
    <2>. QED BY <1>1
  <1>4. ASSUME NEW x \in Shapes, NEW t \in Transitions PROVE Add(x, t) \in Shapes
    <2>1. t.action \in Seq(Tokens)
      BY DEF Transitions
    <2>2. PICK l, y : l = Zeros(Len(t.action)) /\ y = AppendTransition(x, t, l)
      OBVIOUS
    <2>3. l \in Seq(Int) /\ Len(l) = Len(t.action)
      <3>1. Len(t.action) \in Nat
        BY <2>1, LenProperties
      <3>. QED BY <2>2, <3>1 DEF Zeros
    <2>4. y \in Trajectories /\ Shaped(y)
      BY <2>2, <2>3, AppendShaped
    <2>. QED BY <2>2, <2>4
  <1>5. EmptyTrajectory \in Shapes
    BY EmptyShaped
  <1>. HIDE DEF Shapes, Add
  <1>6. \E f : Eq(f)
    <2>. HIDE DEF n
    <2>1. PICK step : step = [p \in Shapes \X (1..n) |-> Add(p[1], w[p[2]])]
      OBVIOUS
    <2>2. step \in [Shapes \X (1..n) -> Shapes]
      BY <1>1, <1>4, <2>1
    <2>3. FoldsOf(n, Shapes, EmptyTrajectory, step) # {}
      BY <1>1, <1>5, <2>2, FoldExists
    <2>4. PICK f \in [SUBSET (1..n) -> Shapes] :
            \A s \in SUBSET (1..n) :
              f[s] = IF s = {} THEN EmptyTrajectory ELSE step[<<f[s \ {Max(s)}], Max(s)>>]
      BY <2>3 DEF FoldsOf
    <2>5. ASSUME NEW s \in SUBSET (1..n), s # {}
          PROVE  step[<<f[s \ {Max(s)}], Max(s)>>] = Add(f[s \ {Max(s)}], w[Max(s)])
      <3>1. Max(s) \in 1..n
        <4>1. n \in Int
          BY <1>1
        <4>2. Max(s) \in s
          BY <2>5, <4>1, MaxFacts
        <4>. QED BY <4>2
      <3>2. f[s \ {Max(s)}] \in Shapes
        BY <2>4
      <3>. QED BY <2>1, <3>1, <3>2
    <2>6. f = [s \in SUBSET (1..n) |-> IF s = {} THEN EmptyTrajectory
                                       ELSE Add(f[s \ {Max(s)}], w[Max(s)])]
      BY <2>4, <2>5
    <2>. QED BY <2>6
  <1>7. Eq(it)
    <2>1. IsFold(it)
      <3>. HIDE DEF IsFold, Eq
      <3>. QED BY <1>3, <1>6
    <2>. HIDE DEF IsFold, Eq, it
    <2>. QED BY <1>3, <2>1
  <1>. HIDE DEF it, IsFold, n
  <1>8. it[1..0] = EmptyTrajectory /\ \A k \in 1..n : it[1..k] = Add(it[1..(k - 1)], w[k])
    <2>1. 1..0 = {} /\ 1..0 \in SUBSET (1..n)
      OBVIOUS
    <2>2. ASSUME NEW k \in 1..n PROVE it[1..k] = Add(it[1..(k - 1)], w[k])
      <3>1. 1..k \in SUBSET (1..n) /\ 1..k # {} /\ (1..k) \ {k} = 1..(k - 1) /\ Max(1..k) = k
        BY <1>1, UpTo
      <3>. QED BY <1>7, <3>1
    <2>. QED BY <1>7, <2>1, <2>2
  <1>. HIDE DEF Eq
  <1>. DEFINE S == {k \in Nat : k <= n => it[1..k] \in Shapes}
  <1>9. 0 \in S
    BY <1>5, <1>8
  <1>10. ASSUME NEW k \in Nat, k \in S PROVE k + 1 \in S
    <2>1. SUFFICES ASSUME k + 1 <= n PROVE it[1..(k + 1)] \in Shapes
      OBVIOUS
    <2>2. k + 1 \in 1..n /\ (k + 1) - 1 = k /\ k <= n
      BY <1>1, <2>1
    <2>3. it[1..k] \in Shapes /\ w[k + 1] \in Transitions
      BY <1>1, <1>10, <2>2
    <2>4. it[1..(k + 1)] = Add(it[1..k], w[k + 1])
      BY <1>8, <2>2
    <2>. QED BY <1>4, <2>3, <2>4
  <1>. HIDE DEF S
  <1>11. \A k \in Nat : k \in S
    BY <1>9, <1>10, Induct
  <1>12. PICK c : c = [k \in 0..n |-> it[1..k]]
    OBVIOUS
  <1>13. c \in [0..n -> Shapes]
    BY <1>1, <1>11, <1>12 DEF S
  <1>14. c[0] = EmptyTrajectory /\ \A k \in 1..n : c[k] = Add(c[k - 1], w[k])
    <2>1. \A k \in 0..n : c[k] = it[1..k]
      BY <1>12
    <2>2. 0 \in 0..n /\ \A k \in 1..n : k \in 0..n /\ k - 1 \in 0..n
      BY <1>1
    <2>. QED BY <1>8, <2>1, <2>2
  <1>15. FromTransitions(w) = c[n]
    <2>1. n \in 0..n
      BY <1>1
    <2>. QED BY <1>2, <1>12, <2>1
  <1>. QED BY <1>13, <1>14, <1>15 DEF LoadRuns, Shapes, Add, n

(* Loading none, some, and one more. *)
LEMMA FromFacts ==
  /\ FromTransitions(<<>>) = EmptyTrajectory
  /\ \A w \in Seq(Transitions) : FromTransitions(w) \in Trajectories /\ Shaped(FromTransitions(w))
  /\ \A w \in Seq(Transitions), t \in Transitions :
       FromTransitions(Append(w, t)) = AppendTransition(FromTransitions(w), t, Zeros(Len(t.action)))
  <1>1. FromTransitions(<<>>) = EmptyTrajectory
    <2>1. <<>> \in Seq(Transitions) /\ Len(<<>>) = 0
      OBVIOUS
    <2>2. PICK c : LoadRuns(c, <<>>) /\ FromTransitions(<<>>) = c[Len(<<>>)]
      BY <2>1, FromLoads
    <2>. QED BY <2>1, <2>2 DEF LoadRuns
  <1>2. ASSUME NEW w \in Seq(Transitions)
        PROVE  FromTransitions(w) \in Trajectories /\ Shaped(FromTransitions(w))
    <2>1. PICK c : LoadRuns(c, w) /\ FromTransitions(w) = c[Len(w)]
      BY FromLoads
    <2>2. Len(w) \in 0..Len(w)
      BY LenProperties
    <2>3. c[Len(w)] \in {x \in Trajectories : Shaped(x)}
      BY <2>1, <2>2 DEF LoadRuns
    <2>. QED BY <2>1, <2>3
  <1>3. ASSUME NEW w \in Seq(Transitions), NEW t \in Transitions
        PROVE  FromTransitions(Append(w, t)) =
                 AppendTransition(FromTransitions(w), t, Zeros(Len(t.action)))
    <2>1. PICK n, v : n = Len(w) /\ v = Append(w, t)
      OBVIOUS
    <2>2. n \in Nat /\ v \in Seq(Transitions) /\ Len(v) = n + 1 /\ v[n + 1] = t
          /\ \A i \in 1..n : v[i] = w[i]
      BY <2>1
    <2>3. PICK c : LoadRuns(c, w) /\ FromTransitions(w) = c[n]
      BY <2>1, FromLoads
    <2>4. PICK d : LoadRuns(d, v) /\ FromTransitions(v) = d[n + 1]
      BY <2>2, FromLoads
    <2>5. c[0] = EmptyTrajectory
          /\ \A k \in 1..n : c[k] = AppendTransition(c[k - 1], w[k], Zeros(Len(w[k].action)))
      BY <2>1, <2>3 DEF LoadRuns
    <2>6. d[0] = EmptyTrajectory
          /\ \A k \in 1..(n + 1) : d[k] = AppendTransition(d[k - 1], v[k], Zeros(Len(v[k].action)))
      BY <2>2, <2>4 DEF LoadRuns
    <2>. DEFINE S == {k \in Nat : k <= n => c[k] = d[k]}
    <2>7. 0 \in S
      BY <2>5, <2>6
    <2>8. ASSUME NEW k \in Nat, k \in S PROVE k + 1 \in S
      <3>1. SUFFICES ASSUME k + 1 <= n PROVE c[k + 1] = d[k + 1]
        OBVIOUS
      <3>2. k + 1 \in 1..n /\ k + 1 \in 1..(n + 1) /\ (k + 1) - 1 = k /\ k <= n
        BY <2>2, <3>1
      <3>3. c[k] = d[k] /\ v[k + 1] = w[k + 1]
        BY <2>2, <2>8, <3>2
      <3>4. c[k + 1] = AppendTransition(c[k], w[k + 1], Zeros(Len(w[k + 1].action)))
        BY <2>5, <3>2
      <3>5. d[k + 1] = AppendTransition(d[k], v[k + 1], Zeros(Len(v[k + 1].action)))
        BY <2>6, <3>2
      <3>. QED BY <3>3, <3>4, <3>5
    <2>. HIDE DEF S
    <2>9. n \in S /\ n <= n
      <3>1. \A k \in Nat : k \in S => k + 1 \in S
        BY ONLY <2>8
      <3>2. \A k \in Nat : k \in S
        BY ONLY <2>7, <3>1, Induct
      <3>. QED BY <2>2, <3>2
    <2>10. c[n] = d[n]
      BY <2>9 DEF S
    <2>11. n + 1 \in 1..(n + 1) /\ (n + 1) - 1 = n
      BY <2>2
    <2>12. d[n + 1] = AppendTransition(d[n], v[n + 1], Zeros(Len(v[n + 1].action)))
      BY <2>6, <2>11
    <2>. QED BY <2>1, <2>2, <2>3, <2>4, <2>10, <2>12
  <1>. QED BY <1>1, <1>2, <1>3

(* What transition k of T earns from a token on, and what all of them do. *)
Share(T, tok, k) ==
  IF k > tok[1] \/ (k = tok[1] /\ tok[2] = "action") THEN Sum(T[k].rewards) ELSE 0
Earns(T, tok) == Sum([k \in DOMAIN T |-> Share(T, tok, k)])

(* It is a number, and one transition more adds its share. *)
LEMMA EarnsMore ==
  ASSUME NEW T \in Seq(Transitions), NEW t \in Transitions, NEW tok \in Tokens
  PROVE  /\ Earns(T, tok) \in Int /\ Sum(t.rewards) \in Int
         /\ Earns(Append(T, t), tok) = Earns(T, tok) + Share(Append(T, t), tok, Len(T) + 1)
  <1>1. PICK n, v : n = Len(T) /\ v = Append(T, t)
    OBVIOUS
  <1>2. n \in Nat /\ v \in Seq(Transitions) /\ Len(v) = n + 1 /\ v[n + 1] = t
        /\ \A i \in 1..n : v[i] = T[i]
    BY <1>1
  <1>3. ASSUME NEW w \in Seq(Transitions), NEW k \in 1..Len(w) PROVE Share(w, tok, k) \in Int
    <2>1. w[k].rewards \in Seq(Int)
      <3>1. w[k] \in Transitions
        BY ElementOfSeq
      <3>. QED BY <3>1 DEF Transitions
    <2>2. Sum(w[k].rewards) \in Int
      BY <2>1, SumFacts
    <2>. QED BY <2>2 DEF Share
  <1>4. PICK x, y, e : x = [k \in 1..n |-> Share(T, tok, k)] /\ e = Share(v, tok, n + 1)
                       /\ y = [k \in 1..(n + 1) |-> Share(v, tok, k)]
    OBVIOUS
  <1>5. DOMAIN T = 1..n /\ DOMAIN v = 1..(n + 1)
    BY <1>1, <1>2, LenProperties
  <1>6. Earns(T, tok) = Sum(x) /\ Earns(v, tok) = Sum(y)
    BY <1>4, <1>5 DEF Earns
  <1>7. (\A k \in 1..n : Share(T, tok, k) \in Int) /\ \A k \in 1..(n + 1) : Share(v, tok, k) \in Int
    BY <1>1, <1>2, <1>3
  <1>8. e \in Int
    <2>1. n + 1 \in 1..(n + 1)
      BY <1>2
    <2>. QED BY <1>4, <1>7, <2>1
  <1>9. x \in Seq(Int) /\ Len(x) = n /\ y \in Seq(Int) /\ Len(y) = n + 1
    BY <1>2, <1>4, <1>7
  <1>10. PICK z : z = x \o <<e>>
    OBVIOUS
  <1>11. <<e>> \in Seq(Int) /\ Len(<<e>>) = 1 /\ <<e>>[1] = e
    BY <1>8
  <1>12. z \in Seq(Int) /\ Len(z) = n + 1
         /\ \A k \in 1..(n + 1) : z[k] = IF k <= n THEN x[k] ELSE <<e>>[k - n]
    BY <1>9, <1>10, <1>11, ConcatProperties
  <1>13. ASSUME NEW k \in 1..(n + 1) PROVE y[k] = z[k]
    <2>1. CASE k <= n
      <3>1. k \in 1..n
        BY <1>2, <2>1
      <3>2. Share(v, tok, k) = Share(T, tok, k)
        BY <1>2, <3>1 DEF Share
      <3>. QED BY <1>4, <1>12, <2>1, <3>1, <3>2
    <2>2. CASE ~(k <= n)
      <3>1. k = n + 1 /\ k - n = 1
        BY <1>2, <2>2
      <3>. QED BY <1>4, <1>11, <1>12, <2>2, <3>1
    <2>. QED BY <2>1, <2>2
  <1>14. y = z
    BY <1>9, <1>12, <1>13, SeqEqual
  <1>15. Sum(z) = Sum(x) + Sum(<<e>>) /\ Sum(<<e>>) = e /\ Sum(x) \in Int
    BY <1>8, <1>9, <1>10, <1>11, SumFacts
  <1>16. t.rewards \in Seq(Int)
    BY DEF Transitions
  <1>17. Sum(t.rewards) \in Int
    BY <1>16, SumFacts
  <1>. QED BY <1>1, <1>4, <1>6, <1>14, <1>15, <1>17

(* No transition earns anything from a token that is later. *)
LEMMA EarnsNothing ==
  ASSUME NEW T \in Seq(Transitions), NEW tok, tok[1] \in Nat, tok[1] > Len(T)
  PROVE  Earns(T, tok) = 0
  <1>1. PICK n, x : n = Len(T) /\ x = [k \in 1..n |-> Share(T, tok, k)]
    OBVIOUS
  <1>2. n \in Nat /\ DOMAIN T = 1..n
    BY <1>1, LenProperties
  <1>3. ASSUME NEW k \in 1..n PROVE Share(T, tok, k) = 0
    <2>1. PICK a : a = tok[1]
      OBVIOUS
    <2>2. ~(k > a) /\ k # a
      BY <1>1, <1>2, <2>1
    <2>. QED BY <2>1, <2>2 DEF Share
  <1>4. x = Zeros(n)
    BY <1>1, <1>3 DEF Zeros
  <1>5. Earns(T, tok) = Sum(x)
    BY <1>1, <1>2 DEF Earns
  <1>. QED BY <1>2, <1>4, <1>5, SumFacts

(* The contexts behind the first n of some transitions. *)
Contexts(T, n) == 1 + Cardinality({k \in 1..n : T[k].switch})
Place(T, tok) == Contexts(T, IF tok[2] = "observation" THEN tok[1] ELSE tok[1] - 1)

(* One transition more leaves those behind the others, and is behind the   *)
(* last of them if it switches.                                            *)
LEMMA ContextsMore ==
  ASSUME NEW T \in Seq(Transitions), NEW t \in Transitions, NEW n, n = Len(T)
  PROVE  /\ \A i \in 0..n : Contexts(Append(T, t), i) = Contexts(T, i)
         /\ Contexts(T, n) \in Nat
         /\ Contexts(Append(T, t), n + 1) = Contexts(T, n) + (IF t.switch THEN 1 ELSE 0)
  <1>1. PICK v : v = Append(T, t)
    OBVIOUS
  <1>2. n \in Nat /\ Len(v) = n + 1 /\ v[n + 1] = t /\ \A i \in 1..n : v[i] = T[i]
    BY <1>1
  <1>3. ASSUME NEW i \in 0..n PROVE Contexts(v, i) = Contexts(T, i)
    <2>1. \A k \in 1..i : k \in 1..n
      BY <1>2
    <2>2. {k \in 1..i : v[k].switch} = {k \in 1..i : T[k].switch}
      BY <1>2, <2>1
    <2>. QED BY <2>2 DEF Contexts
  <1>4. PICK A, B : A = {k \in 1..n : T[k].switch} /\ B = {k \in 1..(n + 1) : v[k].switch}
    OBVIOUS
  <1>5. IsFiniteSet(A) /\ n + 1 \notin A
    <2>1. IsFiniteSet(1..n)
      BY <1>2, FS_Interval
    <2>2. A \subseteq 1..n
      BY <1>4
    <2>3. IsFiniteSet(A)
      BY <2>1, <2>2, FS_Subset
    <2>. QED BY <1>2, <2>2, <2>3
  <1>6. Cardinality(A) \in Nat /\ Contexts(T, n) = 1 + Cardinality(A)
        /\ Contexts(v, n + 1) = 1 + Cardinality(B)
    BY <1>4, <1>5, FS_CardinalityType DEF Contexts
  <1>7. CASE t.switch
    <2>1. B = A \cup {n + 1}
      <3>1. \A k \in 1..n : k \in 1..(n + 1) /\ v[k].switch = T[k].switch
        BY <1>2
      <3>2. \A k \in 1..(n + 1) : k \in 1..n \/ k = n + 1
        BY <1>2
      <3>3. n + 1 \in 1..(n + 1) /\ v[n + 1].switch
        BY <1>2, <1>7
      <3>. QED BY <1>4, <3>1, <3>2, <3>3
    <2>2. Cardinality(B) = Cardinality(A) + 1
      BY <1>5, <2>1, FS_AddElement
    <2>3. Contexts(T, n) \in Nat /\ Contexts(v, n + 1) = Contexts(T, n) + 1
      BY <1>6, <2>2
    <2>. QED BY <1>1, <1>3, <1>7, <2>3
  <1>8. CASE ~t.switch
    <2>1. B = A
      <3>1. \A k \in 1..n : k \in 1..(n + 1) /\ v[k].switch = T[k].switch
        BY <1>2
      <3>2. \A k \in 1..(n + 1) : k \in 1..n \/ (k = n + 1 /\ ~v[k].switch)
        BY <1>2, <1>8
      <3>. QED BY <1>4, <3>1, <3>2
    <2>2. Contexts(T, n) \in Nat /\ Contexts(v, n + 1) = Contexts(T, n) + 0
      BY <1>6, <2>1
    <2>. QED BY <1>1, <1>3, <1>8, <2>2
  <1>. QED BY <1>7, <1>8

(* The tokens of some transitions, in their order. *)
AllOf(T) == FlattenSeq([k \in DOMAIN T |-> T[k].action \o T[k].observation])

(* One transition more adds its own. *)
LEMMA AllMore ==
  /\ AllOf(<<>>) = <<>>
  /\ \A T \in Seq(Transitions), t \in Transitions :
       AllOf(Append(T, t)) = AllOf(T) \o (t.action \o t.observation)
  <1>1. AllOf(<<>>) = <<>>
    <2>1. [k \in DOMAIN <<>> |-> <<>>[k].action \o <<>>[k].observation] = <<>>
      OBVIOUS
    <2>2. FlattenSeq(<<>>) = <<>>
      BY FlattenFacts
    <2>. QED BY <2>1, <2>2 DEF AllOf
  <1>2. ASSUME NEW T \in Seq(Transitions), NEW t \in Transitions
        PROVE  AllOf(Append(T, t)) = AllOf(T) \o (t.action \o t.observation)
    <2>1. PICK n, v : n = Len(T) /\ v = Append(T, t)
      OBVIOUS
    <2>2. n \in Nat /\ v \in Seq(Transitions) /\ Len(v) = n + 1 /\ v[n + 1] = t
          /\ \A i \in 1..n : v[i] = T[i]
      BY <2>1
    <2>3. ASSUME NEW s \in Transitions PROVE s.action \o s.observation \in Seq(Tokens)
      <3>1. s.action \in Seq(Tokens) /\ s.observation \in Seq(Tokens)
        BY DEF Transitions
      <3>. QED BY <3>1, ConcatProperties
    <2>4. PICK x, y, e : x = [k \in 1..n |-> T[k].action \o T[k].observation]
                         /\ y = [k \in 1..(n + 1) |-> v[k].action \o v[k].observation]
                         /\ e = t.action \o t.observation
      OBVIOUS
    <2>5. (\A k \in 1..n : T[k] \in Transitions) /\ \A k \in 1..(n + 1) : v[k] \in Transitions
      BY <2>1, <2>2, ElementOfSeq
    <2>6. x \in Seq(Seq(Tokens)) /\ Len(x) = n /\ y \in Seq(Seq(Tokens)) /\ Len(y) = n + 1
          /\ e \in Seq(Tokens)
      BY <2>2, <2>3, <2>4, <2>5
    <2>7. PICK z : z = Append(x, e)
      OBVIOUS
    <2>8. z \in Seq(Seq(Tokens)) /\ Len(z) = n + 1 /\ z[n + 1] = e /\ \A k \in 1..n : z[k] = x[k]
      BY <2>6, <2>7
    <2>9. ASSUME NEW k \in 1..(n + 1) PROVE y[k] = z[k]
      <3>1. CASE k \in 1..n
        BY <2>2, <2>4, <2>8, <3>1
      <3>2. CASE k = n + 1
        BY <2>2, <2>4, <2>8, <3>2
      <3>. QED BY <2>2, <3>1, <3>2
    <2>10. y = z
      BY <2>6, <2>8, <2>9, SeqEqual
    <2>11. FlattenSeq(z) = FlattenSeq(x) \o e
      BY <2>6, <2>7, FlattenFacts
    <2>12. DOMAIN T = 1..n /\ DOMAIN v = 1..(n + 1)
      BY <2>1, <2>2, LenProperties
    <2>13. AllOf(T) = FlattenSeq(x) /\ AllOf(v) = FlattenSeq(y)
      BY <2>4, <2>12 DEF AllOf
    <2>. QED BY <2>1, <2>4, <2>10, <2>11, <2>13
  <1>. QED BY <1>1, <1>2

(* The token at place i of context c is where it belongs, marked, with its  *)
(* log-probability and the rewards that come after it.                      *)
PlaceKept(x, gives, c, i) ==
  LET tok == x.tokens[c][i]
  IN /\ tok \in Tokens /\ tok[1] \in 1..Len(x.transitions)
     /\ c = Place(x.transitions, tok)
     /\ (x.source[c][i] = "agent") = (tok[2] = "action")
     /\ x.logps[c][i] = IF gives /\ tok[2] = "action" THEN tok[1] + tok[3] ELSE 0
     /\ ToGo(x.rewards, c, i) = Earns(x.transitions, tok)

(* The trajectory is what loading its transitions gives, but for the        *)
(* log-probabilities and the truncation.                                    *)
Reloads(x) ==
  x = [FromTransitions(x.transitions) EXCEPT !.logps = x.logps, !.truncation = x.truncation]

(* A trajectory keeps the episode, of an agent that returns its             *)
(* log-probabilities or does not.                                           *)
Kept(x, gives) ==
  /\ x \in Trajectories /\ Shaped(x) /\ gives \in BOOLEAN
  /\ Len(x.tokens) = Contexts(x.transitions, Len(x.transitions))
  /\ FlattenSeq(x.tokens) = AllOf(x.transitions)
  /\ \A c \in 1..Len(x.tokens) : \A i \in 1..Len(x.tokens[c]) : PlaceKept(x, gives, c, i)
  /\ Reloads(x)

(* A transition t with number k and log-probabilities l: its tokens are its *)
(* own, and what is left of its rewards is all of them from every place.    *)
Numbered(t, k, l, gives) ==
  /\ t \in Transitions /\ l \in Seq(Int) /\ Len(l) = Len(t.action)
  /\ \A j \in 1..Len(t.action) :
       /\ t.action[j][1] = k /\ t.action[j][2] = "action"
       /\ l[j] = (IF gives THEN t.action[j][1] + t.action[j][3] ELSE 0)
       /\ Sum(SubSeq(t.rewards, j, Len(t.rewards))) = Sum(t.rewards)
  /\ \A j \in 1..Len(t.observation) : t.observation[j][1] = k /\ t.observation[j][2] = "observation"

(* The trajectory before the episode. *)
LEMMA EmptyKept == ASSUME NEW gives \in BOOLEAN PROVE Kept(EmptyTrajectory, gives)
  <1>1. PICK x, e : x = EmptyTrajectory /\ e = << <<>> >>
    OBVIOUS
  <1>2. x \in Trajectories /\ Shaped(x)
    BY <1>1, EmptyShaped
  <1>3. x.tokens = e /\ x.transitions = <<>>
    BY <1>1 DEF EmptyTrajectory
  <1>4. Len(e) = 1 /\ Len(e[1]) = 0 /\ Len(<<>>) = 0
    BY <1>1
  <1>5. Contexts(<<>>, 0) = 1
    <2>1. {k \in 1..0 : <<>>[k].switch} = {}
      OBVIOUS
    <2>. QED BY <2>1, FS_EmptySet DEF Contexts
  <1>6. FlattenSeq(e) = <<>>
    <2>1. e = Append(<<>>, <<>>) /\ <<>> \in Seq(Seq(Tokens)) /\ <<>> \in Seq(Tokens)
      BY <1>1
    <2>2. FlattenSeq(e) = FlattenSeq(<<>>) \o <<>> /\ FlattenSeq(<<>>) = <<>>
      BY <2>1, FlattenFacts
    <2>. QED BY <2>2
  <1>7. AllOf(<<>>) = <<>>
    BY AllMore
  <1>8. Reloads(x)
    <2>1. FromTransitions(x.transitions) = x
      BY <1>1, <1>3, FromFacts
    <2>2. [x EXCEPT !.logps = x.logps, !.truncation = x.truncation] = x
      BY <1>2 DEF Trajectories
    <2>. QED BY <2>1, <2>2 DEF Reloads
  <1>9. \A c \in 1..Len(x.tokens) : \A i \in 1..Len(x.tokens[c]) : PlaceKept(x, gives, c, i)
    <2>1. \A c \in 1..Len(e) : \A i \in 1..Len(e[c]) : FALSE
      BY <1>4
    <2>. QED BY <1>3, <2>1
  <1>. QED BY <1>1, <1>2, <1>3, <1>4, <1>5, <1>6, <1>7, <1>8, <1>9 DEF Kept

(* Loading gives the trajectory with a transition more as well. *)
LEMMA ReloadsMore ==
  ASSUME NEW x \in Trajectories, Reloads(x), NEW t \in Transitions, NEW l,
         NEW y, y = AppendTransition(x, t, l)
  PROVE  Reloads(y)
  <1>1. PICK f : f = FromTransitions(x.transitions)
    OBVIOUS
  <1>2. x.transitions \in Seq(Transitions)
    BY DEF Trajectories
  <1>3. f \in Trajectories /\ x = [f EXCEPT !.logps = x.logps, !.truncation = x.truncation]
    BY <1>1, <1>2, FromFacts DEF Reloads
  <1>4. x.transitions = f.transitions /\ x.tokens = f.tokens /\ x.source = f.source
        /\ x.rewards = f.rewards
    BY <1>3 DEF Trajectories
  <1>5. PICK a, b, c, d, e, g, z :
          /\ a = Append(x.transitions, t) /\ b = Fill(x.tokens, t, t.action, t.observation)
          /\ c = Fill(x.logps, t, l, Zeros(Len(t.observation)))
          /\ g = Fill(f.logps, t, Zeros(Len(t.action)), Zeros(Len(t.observation)))
          /\ d = Fill(x.source, t, [i \in 1..Len(t.action) |-> "agent"],
                      [i \in 1..Len(t.observation) |-> "env"])
          /\ e = Fill(x.rewards, t, t.rewards, Zeros(Len(t.observation))) /\ z = t.terminal
    OBVIOUS
  <1>6. y = [transitions |-> a, tokens |-> b, logps |-> c, source |-> d, rewards |-> e,
             terminated |-> z, truncation |-> x.truncation]
    <2>1. AppendTransition(x, t, l) =
            [transitions |-> Append(x.transitions, t),
             tokens      |-> Fill(x.tokens, t, t.action, t.observation),
             logps       |-> Fill(x.logps, t, l, Zeros(Len(t.observation))),
             source      |-> Fill(x.source, t, [i \in 1..Len(t.action) |-> "agent"],
                                  [i \in 1..Len(t.observation) |-> "env"]),
             rewards     |-> Fill(x.rewards, t, t.rewards, Zeros(Len(t.observation))),
             terminated  |-> t.terminal,
             truncation  |-> x.truncation]
      BY AppendIs
    <2>. QED BY <1>5, <2>1
  <1>7. AppendTransition(f, t, Zeros(Len(t.action))) =
          [transitions |-> a, tokens |-> b, logps |-> g, source |-> d, rewards |-> e,
           terminated |-> z, truncation |-> f.truncation]
    <2>1. PICK k : k = Zeros(Len(t.action))
      OBVIOUS
    <2>2. AppendTransition(f, t, k) =
            [transitions |-> Append(f.transitions, t),
             tokens      |-> Fill(f.tokens, t, t.action, t.observation),
             logps       |-> Fill(f.logps, t, k, Zeros(Len(t.observation))),
             source      |-> Fill(f.source, t, [i \in 1..Len(t.action) |-> "agent"],
                                  [i \in 1..Len(t.observation) |-> "env"]),
             rewards     |-> Fill(f.rewards, t, t.rewards, Zeros(Len(t.observation))),
             terminated  |-> t.terminal,
             truncation  |-> f.truncation]
      BY <1>3, AppendIs
    <2>. QED BY <1>4, <1>5, <2>1, <2>2
  <1>8. FromTransitions(y.transitions) = AppendTransition(f, t, Zeros(Len(t.action)))
    <2>1. y.transitions = Append(x.transitions, t)
      BY <1>5, <1>6
    <2>. QED BY <1>1, <1>2, <2>1, FromFacts
  <1>9. y.logps = c /\ y.truncation = x.truncation
    BY <1>6
  <1>10. PICK h : h = FromTransitions(y.transitions)
    OBVIOUS
  <1>11. [h EXCEPT !.logps = c, !.truncation = x.truncation] = y
    <2>1. h = [transitions |-> a, tokens |-> b, logps |-> g, source |-> d, rewards |-> e,
               terminated |-> z, truncation |-> f.truncation]
      BY <1>7, <1>8, <1>10
    <2>2. PICK u, v : u = x.truncation /\ v = f.truncation
      OBVIOUS
    <2>3. h = [transitions |-> a, tokens |-> b, logps |-> g, source |-> d, rewards |-> e,
               terminated |-> z, truncation |-> v]
      BY <2>1, <2>2
    <2>4. y = [transitions |-> a, tokens |-> b, logps |-> c, source |-> d, rewards |-> e,
               terminated |-> z, truncation |-> u]
      BY <1>6, <2>2
    <2>5. [h EXCEPT !.logps = c, !.truncation = u] =
            [transitions |-> a, tokens |-> b, logps |-> c, source |-> d, rewards |-> e,
             terminated |-> z, truncation |-> u]
      <3>1. PICK k : k = [h EXCEPT !.logps = c]
        OBVIOUS
      <3>2. k = [transitions |-> a, tokens |-> b, logps |-> c, source |-> d, rewards |-> e,
                 terminated |-> z, truncation |-> v]
        BY ONLY <2>3, <3>1
      <3>3. [h EXCEPT !.logps = c, !.truncation = u] = [k EXCEPT !.truncation = u]
        BY ONLY <3>1
      <3>4. [k EXCEPT !.truncation = u] =
              [transitions |-> a, tokens |-> b, logps |-> c, source |-> d, rewards |-> e,
               terminated |-> z, truncation |-> u]
        BY ONLY <3>2
      <3>. QED BY <3>3, <3>4
    <2>. QED BY <2>2, <2>4, <2>5
  <1>. QED BY <1>9, <1>10, <1>11 DEF Reloads

(* One transition more is kept as well. *)
LEMMA KeptMore ==
  ASSUME NEW x, NEW gives, Kept(x, gives), NEW N, N = Len(x.transitions), NEW t, NEW l,
         Numbered(t, N + 1, l, gives), NEW y, y = AppendTransition(x, t, l)
  PROVE  Kept(y, gives)
  <1>1. x \in Trajectories /\ Shaped(x) /\ gives \in BOOLEAN
        /\ Len(x.tokens) = Contexts(x.transitions, N) /\ FlattenSeq(x.tokens) = AllOf(x.transitions)
        /\ Reloads(x)
    BY DEF Kept
  <1>2. t \in Transitions /\ l \in Seq(Int) /\ Len(l) = Len(t.action)
    BY DEF Numbered
  <1>3. PICK H, V : H = x.transitions /\ V = y.transitions
    OBVIOUS
  <1>4. PICK T, L, S, R : T = x.tokens /\ L = x.logps /\ S = x.source /\ R = x.rewards
    OBVIOUS
  <1>5. PICK a, o, r, q, w : a = t.action /\ o = t.observation /\ r = t.rewards
                             /\ q = Len(a) /\ w = Len(o)
    OBVIOUS
  <1>6. PICK z, g, e, A : z = Zeros(w) /\ g = [i \in 1..q |-> "agent"] /\ e = [i \in 1..w |-> "env"]
                          /\ A = {"agent", "env"}
    OBVIOUS
  <1>7. y \in Trajectories /\ Shaped(y)
    BY <1>1, <1>2, AppendShaped
  <1>8. H \in Seq(Transitions) /\ T \in Seq(Seq(Tokens)) /\ L \in Seq(Seq(Int))
        /\ S \in Seq(Seq(A)) /\ R \in Seq(Seq(Int)) /\ N \in Nat
    <2>1. H \in Seq(Transitions) /\ T \in Seq(Seq(Tokens)) /\ L \in Seq(Seq(Int))
          /\ S \in Seq(Seq(A)) /\ R \in Seq(Seq(Int))
      BY <1>1, <1>3, <1>4, <1>6 DEF Trajectories
    <2>. QED BY <1>3, <2>1, LenProperties
  <1>9. /\ a \in Seq(Tokens) /\ o \in Seq(Tokens) /\ r \in Seq(Int) /\ t.switch \in BOOLEAN
        /\ Len(r) = q /\ Len(l) = q /\ q \in Nat /\ w \in Nat
    BY <1>2, <1>5, LenProperties DEF Transitions
  <1>10. z \in Seq(Int) /\ Len(z) = w /\ g \in Seq(A) /\ Len(g) = q /\ e \in Seq(A) /\ Len(e) = w
    BY <1>6, <1>9 DEF Zeros
  <1>11. PICK T1, L1, S1, R1 : T1 = Fill(T, t, a, o) /\ L1 = Fill(L, t, l, z)
                               /\ S1 = Fill(S, t, g, e) /\ R1 = Fill(R, t, r, z)
    OBVIOUS
  <1>12. V = Append(H, t) /\ y.tokens = T1 /\ y.logps = L1 /\ y.source = S1 /\ y.rewards = R1
    <2>1. y = [transitions |-> Append(H, t), tokens |-> T1, logps |-> L1, source |-> S1,
               rewards |-> R1, terminated |-> t.terminal, truncation |-> x.truncation]
      BY <1>1, <1>3, <1>4, <1>5, <1>6, <1>11, AppendIs
    <2>. QED BY <1>3, <2>1
  <1>13. T # <<>> /\ SameShape(T, L) /\ SameShape(T, S) /\ SameShape(T, R)
         /\ SameShape(T1, L1) /\ SameShape(T1, S1) /\ SameShape(T1, R1)
    BY <1>1, <1>4, <1>7, <1>12 DEF Shaped
  <1>14. PICK n, m, p, b : n = Len(T) /\ m = Len(T1) /\ p = Len(T[n]) /\ b = Behind(T, t, q)
    OBVIOUS
  <1>15. /\ L # <<>> /\ S # <<>> /\ R # <<>> /\ Len(L) = n /\ Len(S) = n /\ Len(R) = n
         /\ Len(L[n]) = p /\ Len(S[n]) = p /\ Len(R[n]) = p
    <2>1. L # <<>> /\ Len(L) = n /\ Len(L[n]) = p
      <3>1. T \in Seq(Seq(Tokens)) /\ L \in Seq(Seq(Int)) /\ T # <<>> /\ SameShape(T, L)
        BY <1>8, <1>13
      <3>2. L # <<>> /\ Len(L) = Len(T) /\ Len(L[Len(T)]) = Len(T[Len(T)])
        BY ONLY <3>1, ShapeFacts
      <3>. QED BY <1>14, <3>2
    <2>2. S # <<>> /\ Len(S) = n /\ Len(S[n]) = p
      <3>1. T \in Seq(Seq(Tokens)) /\ S \in Seq(Seq(A)) /\ T # <<>> /\ SameShape(T, S)
        BY <1>8, <1>13
      <3>2. S # <<>> /\ Len(S) = Len(T) /\ Len(S[Len(T)]) = Len(T[Len(T)])
        BY ONLY <3>1, ShapeFacts
      <3>. QED BY <1>14, <3>2
    <2>3. R # <<>> /\ Len(R) = n /\ Len(R[n]) = p
      <3>1. T \in Seq(Seq(Tokens)) /\ R \in Seq(Seq(Int)) /\ T # <<>> /\ SameShape(T, R)
        BY <1>8, <1>13
      <3>2. R # <<>> /\ Len(R) = Len(T) /\ Len(R[Len(T)]) = Len(T[Len(T)])
        BY ONLY <3>1, ShapeFacts
      <3>. QED BY <1>14, <3>2
    <2>. QED BY <2>1, <2>2, <2>3
  <1>16. Behind(L, t, q) = b /\ Behind(S, t, q) = b /\ Behind(R, t, q) = b
         /\ b = (IF t.switch THEN 0 ELSE p + q)
    BY <1>14, <1>15 DEF Behind
  <1>17. Len(L1) = m /\ Len(S1) = m /\ Len(R1) = m
    BY <1>13, <1>14 DEF SameShape
  <1>18. Places(Tokens, T, t.switch, a, o, T1, n, m, p, b)
    <2>1. Places(Tokens, T, t.switch, a, o, T1, Len(T), Len(T1), Len(T[Len(T)]), Behind(T, t, Len(a)))
      BY ONLY <1>8, <1>9, <1>11, <1>13, FillPlaces
    <2>. QED BY <1>5, <1>14, <2>1
  <1>19. Places(Int, L, t.switch, l, z, L1, n, m, p, b)
    <2>1. Places(Int, L, t.switch, l, z, L1, Len(L), Len(L1), Len(L[Len(L)]), Behind(L, t, Len(l)))
      <3>1. L \in Seq(Seq(Int)) /\ L # <<>> /\ t.switch \in BOOLEAN /\ l \in Seq(Int) /\ z \in Seq(Int)
            /\ L1 = Fill(L, t, l, z)
        BY <1>2, <1>8, <1>9, <1>10, <1>11, <1>15
      <3>. QED BY ONLY <3>1, FillPlaces
    <2>. QED BY <1>9, <1>15, <1>16, <1>17, <2>1
  <1>20. Places(A, S, t.switch, g, e, S1, n, m, p, b)
    <2>1. Places(A, S, t.switch, g, e, S1, Len(S), Len(S1), Len(S[Len(S)]), Behind(S, t, Len(g)))
      <3>1. S \in Seq(Seq(A)) /\ S # <<>> /\ t.switch \in BOOLEAN /\ g \in Seq(A) /\ e \in Seq(A)
            /\ S1 = Fill(S, t, g, e)
        BY <1>8, <1>9, <1>10, <1>11, <1>15
      <3>. QED BY ONLY <3>1, FillPlaces
    <2>. QED BY <1>10, <1>15, <1>16, <1>17, <2>1
  <1>21. PICK W : W = Sum(r)
    OBVIOUS
  <1>22. /\ \A c \in 1..n : \A i \in 1..Len(R[c]) : ToGo(R1, c, i) = ToGo(R, c, i) + W
         /\ \A j \in 1..q : ToGo(R1, n, p + j) = W
         /\ \A j \in 1..w : ToGo(R1, m, b + j) = 0
    <2>1. Sum(z) = 0 /\ \A j \in 1..Len(z) : Sum(SubSeq(z, j, Len(z))) = 0
      <3>1. Sum(z) = 0
        BY <1>6, <1>9, SumFacts
      <3>2. \A j \in 1..w : Sum(SubSeq(z, j, w)) = 0
        BY <1>6, <1>9, UnrollFacts
      <3>. QED BY <1>10, <3>1, <3>2
    <2>2. ToGoGrows(R, r, Len(z), R1, Len(R), Len(R1), Len(R[Len(R)]), Behind(R, t, Len(r)))
      <3>1. R \in Seq(Seq(Int)) /\ R # <<>> /\ t.switch \in BOOLEAN /\ r \in Seq(Int) /\ z \in Seq(Int)
            /\ R1 = Fill(R, t, r, z)
        BY <1>8, <1>9, <1>10, <1>11, <1>15
      <3>. QED BY ONLY <2>1, <3>1, ToGoFill
    <2>3. ToGoGrows(R, r, w, R1, n, m, p, b)
      BY <1>9, <1>10, <1>15, <1>16, <1>17, <2>2
    <2>4. \A j \in 1..q : Sum(SubSeq(r, j, Len(r))) = W
      BY <1>5, <1>21 DEF Numbered
    <2>. QED BY <1>9, <1>21, <2>3, <2>4 DEF ToGoGrows
  <1>23. /\ \A i \in 0..N : Contexts(V, i) = Contexts(H, i)
         /\ Contexts(V, N + 1) = Contexts(H, N) + (IF t.switch THEN 1 ELSE 0)
         /\ n = Contexts(H, N)
    <2>1. H \in Seq(Transitions) /\ t \in Transitions /\ N = Len(H)
      BY <1>2, <1>3, <1>8
    <2>2. /\ \A i \in 0..N : Contexts(Append(H, t), i) = Contexts(H, i)
          /\ Contexts(Append(H, t), N + 1) = Contexts(H, N) + (IF t.switch THEN 1 ELSE 0)
      BY ONLY <2>1, ContextsMore
    <2>3. n = Contexts(H, N)
      BY <1>1, <1>3, <1>4, <1>14
    <2>. QED BY <1>12, <2>2, <2>3
  <1>24. ASSUME NEW tok \in Tokens
         PROVE  /\ Earns(H, tok) \in Int /\ W \in Int
                /\ Earns(V, tok) = Earns(H, tok)
                     + (IF N + 1 > tok[1] \/ (N + 1 = tok[1] /\ tok[2] = "action") THEN W ELSE 0)
    <2>1. Earns(H, tok) \in Int /\ Sum(t.rewards) \in Int
          /\ Earns(Append(H, t), tok) = Earns(H, tok) + Share(Append(H, t), tok, Len(H) + 1)
      BY <1>2, <1>8, EarnsMore
    <2>2. V[N + 1] = t /\ N = Len(H)
      BY <1>3, <1>8, <1>12
    <2>. QED BY <1>5, <1>12, <1>21, <2>1, <2>2 DEF Share
  <1>25. n \in Nat /\ 1 <= n /\ m = (IF t.switch THEN n + 1 ELSE n) /\ n <= m
    BY <1>18 DEF Places
  <1>26. Len(V) = N + 1 /\ V \in Seq(Transitions)
    BY <1>2, <1>3, <1>8, <1>12
  <1>27. ASSUME NEW c \in 1..n, NEW i \in 1..Len(T[c]) PROVE PlaceKept(y, gives, c, i)
    <2>1. T1[c][i] = T[c][i] /\ L1[c][i] = L[c][i] /\ S1[c][i] = S[c][i] /\ i \in 1..Len(R[c])
      <3>1. i \in 1..Len(L[c]) /\ i \in 1..Len(S[c]) /\ i \in 1..Len(R[c])
        <4>1. Len(L[c]) = Len(T[c]) /\ Len(S[c]) = Len(T[c]) /\ Len(R[c]) = Len(T[c])
          BY <1>13, <1>14 DEF SameShape
        <4>. QED BY <4>1
      <3>2. T1[c][i] = T[c][i]
        BY <1>18 DEF Places
      <3>3. L1[c][i] = L[c][i]
        BY <1>19, <3>1 DEF Places
      <3>4. S1[c][i] = S[c][i]
        BY <1>20, <3>1 DEF Places
      <3>. QED BY <3>1, <3>2, <3>3, <3>4
    <2>2. PICK tok : tok = T[c][i]
      OBVIOUS
    <2>3. PlaceKept(x, gives, c, i)
      BY <1>4, <1>14 DEF Kept
    <2>4. /\ tok \in Tokens /\ tok[1] \in 1..N /\ c = Place(H, tok)
          /\ (S[c][i] = "agent") = (tok[2] = "action")
          /\ L[c][i] = IF gives /\ tok[2] = "action" THEN tok[1] + tok[3] ELSE 0
          /\ ToGo(R, c, i) = Earns(H, tok)
      BY <1>3, <1>4, <2>2, <2>3 DEF PlaceKept
    <2>5. Place(V, tok) = Place(H, tok)
      <3>1. tok[1] \in 0..N /\ tok[1] - 1 \in 0..N
        <4>1. PICK f : f = tok[1]
          OBVIOUS
        <4>2. f \in 1..N
          BY <2>4, <4>1
        <4>3. f \in 0..N /\ f - 1 \in 0..N
          BY <1>8, <4>2
        <4>. QED BY <4>1, <4>3
      <3>. QED BY <1>23, <3>1 DEF Place
    <2>6. ToGo(R1, c, i) = Earns(V, tok)
      <3>1. N + 1 > tok[1]
        <4>1. PICK f : f = tok[1]
          OBVIOUS
        <4>2. f \in 1..N
          BY <2>4, <4>1
        <4>3. N + 1 > f
          BY <1>8, <4>2
        <4>. QED BY <4>1, <4>3
      <3>. QED BY <1>22, <1>24, <2>1, <2>4, <3>1
    <2>7. tok[1] \in 1..Len(V)
      <3>1. \A h \in 1..N : h \in 1..Len(V)
        BY <1>8, <1>26
      <3>. QED BY <2>4, <3>1
    <2>. QED BY <1>3, <1>12, <2>1, <2>2, <2>4, <2>5, <2>6, <2>7 DEF PlaceKept
  <1>28. ASSUME NEW j \in 1..q PROVE PlaceKept(y, gives, n, p + j)
    <2>1. PICK i : i = p + j
      OBVIOUS
    <2>2. T1[n][i] = a[j] /\ L1[n][i] = l[j] /\ S1[n][i] = g[j]
      BY <1>5, <1>9, <1>10, <1>18, <1>19, <1>20, <2>1 DEF Places
    <2>3. PICK tok : tok = a[j]
      OBVIOUS
    <2>4. /\ tok \in Tokens /\ tok[1] = N + 1 /\ tok[2] = "action" /\ g[j] = "agent"
          /\ l[j] = IF gives THEN tok[1] + tok[3] ELSE 0
      <3>1. tok \in Tokens
        BY <1>5, <1>9, <2>3, ElementOfSeq
      <3>2. g[j] = "agent"
        BY <1>6
      <3>. QED BY <1>5, <2>3, <3>1, <3>2 DEF Numbered
    <2>5. Place(V, tok) = n
      <3>1. (N + 1) - 1 = N /\ N \in 0..N
        BY <1>8
      <3>2. Place(V, tok) = Contexts(V, N)
        BY <2>4, <3>1 DEF Place
      <3>. QED BY <1>23, <3>1, <3>2
    <2>6. Earns(V, tok) = W
      <3>1. N + 1 > Len(H) /\ N + 1 \in Nat
        BY <1>3, <1>8
      <3>2. Earns(H, tok) = 0
        BY <1>8, <2>4, <3>1, EarnsNothing
      <3>3. W \in Int /\ Earns(V, tok) = 0 + W
        BY <1>24, <2>4, <3>2
      <3>. QED BY <3>3
    <2>7. tok[1] \in 1..Len(V)
      BY <1>8, <1>26, <2>4
    <2>8. ToGo(R1, n, i) = W
      BY <1>22, <2>1
    <2>. QED BY <1>3, <1>12, <2>1, <2>2, <2>3, <2>4, <2>5, <2>6, <2>7, <2>8 DEF PlaceKept
  <1>29. ASSUME NEW j \in 1..w PROVE PlaceKept(y, gives, m, b + j)
    <2>1. PICK i : i = b + j
      OBVIOUS
    <2>2. T1[m][i] = o[j] /\ L1[m][i] = z[j] /\ S1[m][i] = e[j]
      BY <1>5, <1>9, <1>10, <1>18, <1>19, <1>20, <2>1 DEF Places
    <2>3. PICK tok : tok = o[j]
      OBVIOUS
    <2>4. tok \in Tokens /\ tok[1] = N + 1 /\ tok[2] = "observation" /\ e[j] = "env" /\ z[j] = 0
      <3>1. tok \in Tokens
        BY <1>5, <1>9, <2>3, ElementOfSeq
      <3>2. e[j] = "env" /\ z[j] = 0
        BY <1>6 DEF Zeros
      <3>. QED BY <1>5, <2>3, <3>1, <3>2 DEF Numbered
    <2>5. Place(V, tok) = m
      <3>1. Place(V, tok) = Contexts(V, N + 1)
        BY <2>4 DEF Place
      <3>. QED BY <1>23, <1>25, <3>1
    <2>6. Earns(V, tok) = 0
      <3>1. N + 1 > Len(H) /\ N + 1 \in Nat /\ ~(N + 1 > N + 1)
        BY <1>3, <1>8
      <3>2. Earns(H, tok) = 0
        BY <1>8, <2>4, <3>1, EarnsNothing
      <3>3. Earns(V, tok) = 0 + 0
        BY <1>24, <2>4, <3>1, <3>2
      <3>. QED BY <3>3
    <2>7. tok[1] \in 1..Len(V)
      BY <1>8, <1>26, <2>4
    <2>8. ToGo(R1, m, i) = 0
      BY <1>22, <2>1
    <2>. QED BY <1>3, <1>12, <2>1, <2>2, <2>3, <2>4, <2>5, <2>6, <2>7, <2>8 DEF PlaceKept
  <1>30. ASSUME NEW c \in 1..m, NEW i \in 1..Len(T1[c]) PROVE PlaceKept(y, gives, c, i)
    <2>1. \/ c \in 1..n /\ i \in 1..Len(T[c])
          \/ c = n /\ \E j \in 1..Len(a) : i = p + j
          \/ c = m /\ \E j \in 1..Len(o) : i = b + j
      <3>1. b = (IF t.switch THEN 0 ELSE p + Len(a))
        BY <1>5, <1>16
      <3>2. t.switch \in BOOLEAN /\ a \in Seq(Tokens) /\ o \in Seq(Tokens) /\ p = Len(T[n])
        BY <1>9, <1>14
      <3>3. Covers(T, a, o, T1, n, m, p, b)
        BY ONLY <1>18, <3>1, <3>2, FillCovers
      <3>. QED BY <3>3 DEF Covers
    <2>. QED BY <1>5, <1>27, <1>28, <1>29, <2>1
  <1>31. m = Contexts(V, N + 1)
    BY <1>23, <1>25
  <1>32. FlattenSeq(T1) = AllOf(V)
    <2>1. FlattenSeq(T1) = FlattenSeq(T) \o (a \o o)
      <3>1. Filling(Tokens, T, t.switch, a, o, Len(T), Fill(T, t, a, o))
        BY <1>8, <1>9, <1>13, FillFacts
      <3>. QED BY <1>11, <3>1 DEF Filling
    <2>2. AllOf(V) = AllOf(H) \o (a \o o)
      BY <1>2, <1>5, <1>8, <1>12, AllMore
    <2>. QED BY <1>1, <1>3, <1>4, <2>1, <2>2
  <1>33. Reloads(y)
    BY <1>1, <1>2, ReloadsMore
  <1>. QED BY <1>1, <1>3, <1>7, <1>12, <1>14, <1>26, <1>30, <1>31, <1>32, <1>33 DEF Kept

(* The inductive invariant of the episode: the trajectory keeps it, and     *)
(* until it is over nothing was dumped; what was dumped is the trajectory;  *)
(* what was read back is the trajectory, from a full dump; reading back a   *)
(* full dump does not fail.                                                 *)
EpisodeInv ==
  /\ Kept(traj, given)
  /\ episode = "start" => traj = EmptyTrajectory
  /\ episode \in {"start", "run"} => file = NoFile
  /\ file = NoFile \/ \E full \in BOOLEAN : file = RolloutToDict(traj, full, 1)
  /\ episode = "reloaded" => file.tokens /\ reloaded.traj = traj
  /\ episode = "raised" => ~file.tokens

(* The first transition, which only observes. *)
LEMMA StartKept ==
  ASSUME EpisodeInv, NEW n \in ReplyLens \ {0}, NEW switch \in BOOLEAN, NEW gives \in BOOLEAN,
         StartEpisode(n, switch, gives)
  PROVE  EpisodeInv'
  <1>1. PICK t : t = [action |-> <<>>, rewards |-> <<>>, terminal |-> FALSE,
                      observation |-> TokensOf(1, "observation", n), switch |-> switch]
    OBVIOUS
  <1>2. episode = "start" /\ traj' = AppendTransition(traj, t, <<>>) /\ given' = gives
        /\ episode' = "run" /\ file' = file /\ reloaded' = reloaded
    BY <1>1 DEF StartEpisode
  <1>3. traj = EmptyTrajectory /\ file = NoFile
    BY <1>2 DEF EpisodeInv
  <1>4. n \in Nat
    BY TrajectoryAssumption
  <1>5. TokensOf(1, "observation", n) \in Seq(Tokens) /\ Len(TokensOf(1, "observation", n)) = n
        /\ \A j \in 1..n : TokensOf(1, "observation", n)[j] = <<1, "observation", j>>
    BY <1>4 DEF TokensOf, Tokens
  <1>6. t \in Transitions
    <2>1. <<>> \in Seq(Tokens) /\ <<>> \in Seq(Int) /\ Len(<<>>) = Len(<<>>)
      OBVIOUS
    <2>. QED BY <1>1, <1>5, <2>1 DEF Transitions, IsTransition
  <1>7. Numbered(t, 1, <<>>, gives)
    <2>1. t.action = <<>> /\ Len(<<>>) = 0 /\ <<>> \in Seq(Int)
      BY <1>1
    <2>2. \A j \in 1..Len(t.action) : FALSE
      BY <2>1
    <2>3. \A j \in 1..Len(t.observation) : t.observation[j][1] = 1 /\ t.observation[j][2] = "observation"
      BY <1>1, <1>5
    <2>. QED BY <1>6, <2>1, <2>2, <2>3 DEF Numbered
  <1>8. Kept(traj, gives)
    BY <1>3, EmptyKept
  <1>9. Len(traj.transitions) = 0
    BY <1>3 DEF EmptyTrajectory
  <1>10. Kept(traj', gives)
    <2>1. Numbered(t, 0 + 1, <<>>, gives)
      BY <1>7
    <2>2. PICK N, y : N = Len(traj.transitions) /\ y = traj'
      OBVIOUS
    <2>3. Numbered(t, N + 1, <<>>, gives) /\ y = AppendTransition(traj, t, <<>>)
      BY <1>2, <1>9, <2>1, <2>2
    <2>. QED BY <1>8, <2>2, <2>3, KeptMore
  <1>. QED BY <1>2, <1>3, <1>10 DEF EpisodeInv

(* A step of the environment. *)
LEMMA StepKept ==
  ASSUME EpisodeInv, NEW n \in ActionLens, NEW m \in ReplyLens, NEW terminal \in BOOLEAN,
         NEW switch \in BOOLEAN, NEW r \in Rewards, Step(n, m, terminal, switch, r)
  PROVE  EpisodeInv'
  <1>1. PICK N, k : N = Len(traj.transitions) /\ k = N + 1
    OBVIOUS
  <1>2. PICK t, l : /\ t = [action |-> TokensOf(k, "action", n), rewards |-> RewardUnroll(n, r),
                            observation |-> TokensOf(k, "observation", m), terminal |-> terminal,
                            switch |-> switch]
                    /\ l = IF given THEN [i \in 1..n |-> k + i] ELSE Zeros(n)
    OBVIOUS
  <1>3. episode = "run" /\ IsTransition(t) /\ traj' = AppendTransition(traj, t, l)
        /\ given' = given /\ episode' = episode /\ file' = file /\ reloaded' = reloaded
    BY <1>1, <1>2 DEF Step
  <1>4. n \in Nat \ {0} /\ m \in Nat /\ r \in Int
    BY TrajectoryAssumption
  <1>5. Kept(traj, given) /\ traj.transitions \in Seq(Transitions) /\ given \in BOOLEAN /\ file = NoFile
    BY <1>3 DEF EpisodeInv, Kept, Trajectories
  <1>6. N \in Nat /\ k \in Nat
    <2>1. N \in Nat
      BY <1>1, <1>5, LenProperties
    <2>. QED BY <1>1, <2>1
  <1>7. ASSUME NEW kind \in {"action", "observation"}, NEW i \in Nat
        PROVE  /\ TokensOf(k, kind, i) \in Seq(Tokens) /\ Len(TokensOf(k, kind, i)) = i
               /\ \A j \in 1..i : TokensOf(k, kind, i)[j] = <<k, kind, j>>
    BY <1>6 DEF TokensOf, Tokens
  <1>8. PICK a, o, w : a = TokensOf(k, "action", n) /\ o = TokensOf(k, "observation", m)
                       /\ w = RewardUnroll(n, r)
    OBVIOUS
  <1>9. /\ a \in Seq(Tokens) /\ Len(a) = n /\ (\A j \in 1..n : a[j] = <<k, "action", j>>)
        /\ o \in Seq(Tokens) /\ Len(o) = m /\ (\A j \in 1..m : o[j] = <<k, "observation", j>>)
    BY <1>4, <1>7, <1>8
  <1>10. w \in Seq(Int) /\ Len(w) = n /\ Sum(w) = r /\ \A j \in 1..n : Sum(SubSeq(w, j, n)) = r
    BY <1>4, <1>8, UnrollFacts
  <1>11. t = [action |-> a, rewards |-> w, observation |-> o, terminal |-> terminal,
              switch |-> switch]
    BY <1>2, <1>8
  <1>12. t \in Transitions
    BY <1>3, <1>9, <1>10, <1>11 DEF Transitions
  <1>13. l \in Seq(Int) /\ Len(l) = n /\ \A j \in 1..n : l[j] = IF given THEN k + j ELSE 0
    <2>1. CASE given
      <3>1. l = [i \in 1..n |-> k + i]
        BY <1>2, <2>1
      <3>2. \A i \in 1..n : k + i \in Int
        BY <1>6
      <3>. QED BY <1>4, <2>1, <3>1, <3>2
    <2>2. CASE ~given
      <3>1. l = [i \in 1..n |-> 0]
        BY <1>2, <2>2 DEF Zeros
      <3>. QED BY <1>4, <2>2, <3>1
    <2>. QED BY <2>1, <2>2
  <1>14. Numbered(t, k, l, given)
    <2>1. t.action = a /\ t.observation = o /\ t.rewards = w
      BY <1>11
    <2>2. ASSUME NEW j \in 1..n
          PROVE  a[j][1] = k /\ a[j][2] = "action" /\ l[j] = IF given THEN a[j][1] + a[j][3] ELSE 0
      BY <1>9, <1>13
    <2>3. t \in Transitions /\ l \in Seq(Int) /\ Len(l) = Len(t.action)
      BY <1>9, <1>12, <1>13, <2>1
    <2>4. ASSUME NEW j \in 1..Len(t.action)
          PROVE  /\ t.action[j][1] = k /\ t.action[j][2] = "action"
                 /\ l[j] = (IF given THEN t.action[j][1] + t.action[j][3] ELSE 0)
      <3>1. j \in 1..n
        BY <1>9, <2>1
      <3>. QED BY <2>1, <2>2, <3>1
    <2>5. ASSUME NEW j \in 1..Len(t.action)
          PROVE  Sum(SubSeq(t.rewards, j, Len(t.rewards))) = Sum(t.rewards)
      <3>1. j \in 1..n
        BY <1>9, <2>1
      <3>. QED BY <1>10, <2>1, <3>1
    <2>6. ASSUME NEW j \in 1..Len(t.observation)
          PROVE  t.observation[j][1] = k /\ t.observation[j][2] = "observation"
      BY <1>9, <2>1
    <2>. QED BY <2>3, <2>4, <2>5, <2>6 DEF Numbered
  <1>15. Kept(traj', given)
    <2>1. PICK y : y = traj'
      OBVIOUS
    <2>2. y = AppendTransition(traj, t, l) /\ Numbered(t, N + 1, l, given)
      BY <1>1, <1>3, <1>14, <2>1
    <2>. QED BY <1>1, <1>5, <2>1, <2>2, KeptMore
  <1>. QED BY <1>3, <1>5, <1>15 DEF EpisodeInv

(* A truncated trajectory is kept. *)
LEMMA TruncatedKept ==
  ASSUME NEW x, NEW gives, Kept(x, gives), NEW ret \in Seq(Int)
  PROVE  Kept(Truncated(x, ret), gives)
  <1>1. PICK y : y = Truncated(x, ret)
    OBVIOUS
  <1>2. PICK a, b, c, d, e, f, g :
          a = x.transitions /\ b = x.tokens /\ c = x.logps /\ d = x.source /\ e = x.rewards
          /\ f = x.terminated /\ g = x.truncation
    OBVIOUS
  <1>3. x \in Trajectories /\ Reloads(x)
    BY DEF Kept
  <1>4. x = [transitions |-> a, tokens |-> b, logps |-> c, source |-> d, rewards |-> e,
             terminated |-> f, truncation |-> g]
    BY <1>2, <1>3 DEF Trajectories
  <1>5. y = [transitions |-> a, tokens |-> b, logps |-> c, source |-> d, rewards |-> e,
             terminated |-> f, truncation |-> ret]
    BY <1>1, <1>4 DEF Truncated
  <1>6. y \in Trajectories
    <2>1. a \in Seq(Transitions) /\ b \in Seq(Seq(Tokens)) /\ c \in Seq(Seq(Int))
          /\ d \in Seq(Seq({"agent", "env"})) /\ e \in Seq(Seq(Int)) /\ f \in BOOLEAN
      BY <1>2, <1>3 DEF Trajectories
    <2>. QED BY <1>5, <2>1 DEF Trajectories
  <1>7. y.transitions = x.transitions /\ y.tokens = x.tokens /\ y.logps = x.logps
        /\ y.source = x.source /\ y.rewards = x.rewards
    BY <1>2, <1>5
  <1>8. Shaped(y)
    BY <1>7 DEF Kept, Shaped
  <1>9. Reloads(y)
    <2>1. PICK h : h = FromTransitions(a)
      OBVIOUS
    <2>2. x = [h EXCEPT !.logps = c, !.truncation = g]
      BY <1>2, <1>3, <2>1 DEF Reloads
    <2>3. a \in Seq(Transitions)
      BY <1>2, <1>3 DEF Trajectories
    <2>4. h \in Trajectories
      BY <2>1, <2>3, FromFacts
    <2>5. h = [transitions |-> h.transitions, tokens |-> h.tokens, logps |-> h.logps,
               source |-> h.source, rewards |-> h.rewards, terminated |-> h.terminated,
               truncation |-> h.truncation]
      BY <2>4 DEF Trajectories
    <2>6. [h EXCEPT !.logps = c, !.truncation = ret] = [x EXCEPT !.truncation = ret]
      BY <2>2, <2>4 DEF Trajectories
    <2>7. [x EXCEPT !.truncation = ret] = y
      BY <1>4, <1>5
    <2>8. y.logps = c /\ y.truncation = ret /\ y.transitions = a
      BY <1>5
    <2>. QED BY <2>1, <2>6, <2>7, <2>8 DEF Reloads
  <1>10. ASSUME NEW c1 \in 1..Len(x.tokens), NEW i \in 1..Len(x.tokens[c1])
         PROVE  PlaceKept(y, gives, c1, i)
    <2>1. PlaceKept(x, gives, c1, i)
      BY DEF Kept
    <2>. QED BY <1>7, <2>1 DEF PlaceKept
  <1>. QED BY <1>1, <1>6, <1>7, <1>8, <1>9, <1>10 DEF Kept

(* A full dump of a trajectory that is kept can be read back. *)
LEMMA FullLoads ==
  ASSUME NEW x, NEW gives, Kept(x, gives), NEW d, d = RolloutToDict(x, TRUE, 1)
  PROVE  Loadable(d)
  <1>1. d.tokens = TRUE /\ d.transitions = x.transitions /\ d.logps = x.logps
    BY DEF RolloutToDict
  <1>2. x \in Trajectories /\ x.transitions \in Seq(Transitions) /\ Shaped(x) /\ Reloads(x)
        /\ x.logps \in Seq(Seq(Int))
    BY DEF Kept, Trajectories
  <1>3. ASSUME NEW k \in DOMAIN x.transitions PROVE IsTransition(x.transitions[k])
    <2>1. x.transitions[k] \in Transitions
      BY <1>2, LenProperties, ElementOfSeq
    <2>. QED BY <2>1 DEF Transitions
  <1>4. PICK f : f = FromTransitions(x.transitions)
    OBVIOUS
  <1>5. f \in Trajectories /\ Shaped(f) /\ f.tokens = x.tokens
    <2>1. f \in Trajectories /\ Shaped(f)
      BY <1>2, <1>4, FromFacts
    <2>2. x = [f EXCEPT !.logps = x.logps, !.truncation = x.truncation]
      BY <1>2, <1>4 DEF Reloads
    <2>3. x.tokens = f.tokens
      BY <2>1, <2>2 DEF Trajectories
    <2>. QED BY <2>1, <2>3
  <1>6. Len(x.logps) = Len(f.logps)
        /\ \A c \in 1..Len(x.tokens) : Len(x.logps[c]) = Len(f.logps[c])
    BY <1>2, <1>5 DEF Shaped, SameShape
  <1>7. DOMAIN x.logps = 1..Len(x.tokens)
    BY <1>2, LenProperties DEF Shaped, SameShape
  <1>8. Fits(f, x.logps)
    BY <1>6, <1>7 DEF Fits
  <1>. QED BY <1>1, <1>3, <1>4, <1>8 DEF Loadable

(* Reading back. *)
LEMMA ReloadKept ==
  ASSUME EpisodeInv, NEW keep \in BOOLEAN, Reload(keep)
  PROVE  EpisodeInv'
  <1>1. episode' = "reloaded" /\ reloaded' = RolloutFromDict(file, keep) /\ file # NoFile
        /\ Loadable(file) /\ traj' = traj /\ given' = given /\ file' = file
    BY DEF Reload
  <1>2. PICK full \in BOOLEAN : file = RolloutToDict(traj, full, 1)
    BY <1>1 DEF EpisodeInv
  <1>3. full = TRUE
    <2>1. file.tokens = full
      BY <1>2 DEF RolloutToDict
    <2>. QED BY <1>1, <2>1 DEF Loadable
  <1>4. file.transitions = traj.transitions /\ file.logps = traj.logps
        /\ file.truncation = traj.truncation /\ file.tokens
    BY <1>2, <1>3 DEF RolloutToDict
  <1>5. reloaded'.traj = [FromTransitions(file.transitions) EXCEPT !.logps = file.logps,
                                                                  !.truncation = file.truncation]
    BY <1>1 DEF RolloutFromDict
  <1>6. Reloads(traj)
    BY DEF EpisodeInv, Kept
  <1>7. reloaded'.traj = traj
    BY <1>4, <1>5, <1>6 DEF Reloads
  <1>. QED BY <1>1, <1>2, <1>4, <1>7 DEF EpisodeInv

(* Every step keeps the invariant. *)
LEMMA EpisodeStep == EpisodeInv /\ [TrajectoryNext]_tvars => EpisodeInv'
  <1>. SUFFICES ASSUME EpisodeInv, [TrajectoryNext]_tvars PROVE EpisodeInv'
    OBVIOUS
  <1>1. ASSUME NEW n \in ReplyLens \ {0}, NEW switch \in BOOLEAN, NEW gives \in BOOLEAN,
               StartEpisode(n, switch, gives)
        PROVE  EpisodeInv'
    BY <1>1, StartKept
  <1>2. ASSUME NEW n \in ActionLens, NEW m \in ReplyLens, NEW terminal \in BOOLEAN,
               NEW switch \in BOOLEAN, NEW r \in Rewards, Step(n, m, terminal, switch, r)
        PROVE  EpisodeInv'
    BY <1>2, StepKept
  <1>3. ASSUME NEW ret \in {NoReturn} \cup {<<r>> : r \in Rewards}, StopEpisode(ret)
        PROVE  EpisodeInv'
    <2>1. ret \in Seq(Int)
      <3>1. \A r \in Rewards : <<r>> \in Seq(Int)
        BY TrajectoryAssumption
      <3>2. <<>> \in Seq(Int)
        OBVIOUS
      <3>3. ret = <<>> \/ \E r \in Rewards : ret = <<r>>
        BY <1>3 DEF NoReturn
      <3>. QED BY <3>1, <3>2, <3>3
    <2>2. Kept(traj, given) /\ Kept(Truncated(traj, ret), given)
      BY <2>1, TruncatedKept DEF EpisodeInv
    <2>3. episode = "run" /\ episode' = "over" /\ given' = given /\ file' = file
          /\ traj' = (IF ret = NoReturn THEN traj ELSE Truncated(traj, ret))
      BY <1>3 DEF StopEpisode
    <2>4. file = NoFile
      BY <2>3 DEF EpisodeInv
    <2>5. Kept(traj', given)
      BY <2>2, <2>3
    <2>. QED BY <2>3, <2>4, <2>5 DEF EpisodeInv
  <1>4. ASSUME NEW full \in BOOLEAN, Dump(full) PROVE EpisodeInv'
    BY <1>4 DEF Dump, EpisodeInv
  <1>5. ASSUME NEW keep \in BOOLEAN, Reload(keep) PROVE EpisodeInv'
    BY <1>5, ReloadKept
  <1>6. CASE ReloadFails
    <2>1. episode' = "raised" /\ file # NoFile /\ ~Loadable(file) /\ traj' = traj /\ given' = given
          /\ file' = file
      BY <1>6 DEF ReloadFails
    <2>2. PICK full \in BOOLEAN : file = RolloutToDict(traj, full, 1)
      BY <2>1 DEF EpisodeInv
    <2>3. full = FALSE
      <3>1. Kept(traj, given)
        BY DEF EpisodeInv
      <3>2. CASE full = TRUE
        BY <2>1, <2>2, <3>1, <3>2, FullLoads
      <3>. QED BY <3>2
    <2>4. ~file.tokens
      BY <2>2, <2>3 DEF RolloutToDict
    <2>. QED BY <2>1, <2>2, <2>4 DEF EpisodeInv
  <1>7. CASE UNCHANGED tvars
    BY <1>7 DEF EpisodeInv, tvars
  <1>. QED BY <1>1, <1>2, <1>3, <1>4, <1>5, <1>6, <1>7 DEF TrajectoryNext

(* The invariant says all that was promised. *)
LEMMA EpisodeKept == EpisodeInv => KeepsEpisode
  <1>. SUFFICES ASSUME EpisodeInv PROVE KeepsEpisode
    OBVIOUS
  <1>1. Kept(traj, given)
    BY DEF EpisodeInv
  <1>2. FlattenSeq(traj.tokens) = AllTokens
    BY <1>1 DEF Kept, AllOf, AllTokens
  <1>3. traj.tokens \in Seq(Seq(Tokens)) /\ traj.rewards \in Seq(Seq(Int))
        /\ traj.transitions \in Seq(Transitions) /\ traj.truncation \in Seq(Int) /\ Shaped(traj)
    BY <1>1 DEF Kept, Trajectories
  <1>4. DOMAIN traj.tokens = 1..Len(traj.tokens)
        /\ \A c \in 1..Len(traj.tokens) : traj.tokens[c] \in Seq(Tokens)
    BY <1>3, LenProperties, ElementOfSeq
  <1>5. \A c \in 1..Len(traj.tokens) : DOMAIN traj.tokens[c] = 1..Len(traj.tokens[c])
    BY <1>4, LenProperties
  <1>6. ASSUME NEW c \in 1..Len(traj.tokens), NEW i \in 1..Len(traj.tokens[c]),
               NEW tok, tok = traj.tokens[c][i]
        PROVE  /\ c = ContextOf(tok)
               /\ (traj.source[c][i] = "agent") = (tok[2] = "action")
               /\ traj.logps[c][i] = IF given /\ tok[2] = "action" THEN tok[1] + tok[3] ELSE 0
               /\ ReturnToGo(traj, c, i) = Earned(tok) + Sum(traj.truncation)
    <2>1. PlaceKept(traj, given, c, i)
      BY <1>1 DEF Kept
    <2>2. /\ tok \in Tokens /\ c = Place(traj.transitions, tok)
          /\ (traj.source[c][i] = "agent") = (tok[2] = "action")
          /\ traj.logps[c][i] = IF given /\ tok[2] = "action" THEN tok[1] + tok[3] ELSE 0
          /\ ToGo(traj.rewards, c, i) = Earns(traj.transitions, tok)
      BY <1>6, <2>1 DEF PlaceKept
    <2>3. Place(traj.transitions, tok) = ContextOf(tok)
      BY DEF Place, Contexts, ContextOf
    <2>4. Earns(traj.transitions, tok) = Earned(tok)
      BY DEF Earns, Share, Earned
    <2>5. PICK A, B, D : /\ A = Sum(SubSeq(traj.rewards[c], i, Len(traj.rewards[c])))
                         /\ B = Sum(Later(traj.rewards, c)) /\ D = Sum(traj.truncation)
      OBVIOUS
    <2>6. A \in Int
      <3>1. PICK R, q : R = traj.rewards[c] /\ q = Len(R)
        OBVIOUS
      <3>2. R \in Seq(Int)
        <4>1. c \in 1..Len(traj.rewards)
          BY <1>3 DEF Shaped, SameShape
        <4>. QED BY <1>3, <3>1, <4>1, ElementOfSeq
      <3>3. q \in Nat /\ i \in Int
        BY <3>1, <3>2, LenProperties
      <3>4. \A k \in i..q : R[k] \in Int
        <4>1. i >= 1
          OBVIOUS
        <4>2. \A k \in i..q : k \in 1..Len(R)
          BY <3>1, <3>3, <4>1
        <4>. QED BY <3>2, <4>2, ElementOfSeq
      <3>5. SubSeq(R, i, q) \in Seq(Int)
        BY <3>3, <3>4, SubSeqProperties
      <3>. QED BY <2>5, <3>1, <3>5, SumFacts
    <2>7. B \in Int
      <3>1. PICK R, n, s : R = traj.rewards /\ n = Len(R) /\ s = c + 1
        OBVIOUS
      <3>2. R \in Seq(Seq(Int)) /\ n \in Nat /\ s \in Int /\ s >= 1
        <4>1. R \in Seq(Seq(Int)) /\ n \in Nat
          BY <1>3, <3>1, LenProperties
        <4>. QED BY <3>1, <4>1
      <3>3. \A k \in s..n : R[k] \in Seq(Int)
        <4>1. \A k \in s..n : k \in 1..Len(R)
          BY <3>1, <3>2
        <4>. QED BY <3>2, <4>1, ElementOfSeq
      <3>4. SubSeq(R, s, n) \in Seq(Seq(Int))
        BY <3>2, <3>3, SubSeqProperties
      <3>5. Later(R, c) \in Seq(Int)
        BY <3>1, <3>4, FlattenFacts DEF Later
      <3>. QED BY <2>5, <3>1, <3>5, SumFacts
    <2>8. D \in Int
      BY <1>3, <2>5, SumFacts
    <2>9. ToGo(traj.rewards, c, i) = A + B /\ ReturnToGo(traj, c, i) = (D + A) + B
      BY <2>5 DEF ToGo, ReturnToGo, Later
    <2>10. ReturnToGo(traj, c, i) = Earned(tok) + D
      <3>1. Earned(tok) = A + B
        BY <2>2, <2>4, <2>9
      <3>2. (D + A) + B = (A + B) + D
        BY ONLY <2>6, <2>7, <2>8
      <3>. QED BY <2>9, <3>1, <3>2
    <2>. QED BY <2>2, <2>3, <2>5, <2>10
  <1>7. (episode = "reloaded" => file.tokens /\ reloaded.traj = traj)
        /\ (episode = "raised" => ~file.tokens)
    BY DEF EpisodeInv
  <1>8. ASSUME NEW c \in DOMAIN traj.tokens, NEW i \in DOMAIN traj.tokens[c]
        PROVE  LET tok == traj.tokens[c][i]
               IN /\ c = ContextOf(tok)
                  /\ (traj.source[c][i] = "agent") = (tok[2] = "action")
                  /\ traj.logps[c][i] = IF given /\ tok[2] = "action" THEN tok[1] + tok[3] ELSE 0
                  /\ HasReturn(traj) =>
                       ReturnToGo(traj, c, i) = Earned(tok) + Sum(traj.truncation)
    <2>1. c \in 1..Len(traj.tokens) /\ i \in 1..Len(traj.tokens[c])
      BY <1>4, <1>5
    <2>. QED BY <1>6, <2>1
  <1>. QED BY <1>2, <1>7, <1>8 DEF KeepsEpisode

(***************************************************************************)
(* A trajectory keeps the episode.                                         *)
(***************************************************************************)
THEOREM TrajectoryKeeps == TrajectorySpec => []KeepsEpisode
  <1>1. TrajectoryInit => EpisodeInv
    <2>. SUFFICES ASSUME TrajectoryInit PROVE EpisodeInv
      OBVIOUS
    <2>1. traj = EmptyTrajectory /\ given = FALSE /\ episode = "start" /\ file = NoFile
      BY DEF TrajectoryInit
    <2>2. Kept(EmptyTrajectory, FALSE)
      BY EmptyKept
    <2>. QED BY <2>1, <2>2 DEF EpisodeInv
  <1>. QED BY <1>1, EpisodeStep, EpisodeKept, PTL DEF TrajectorySpec

-----------------------------------------------------------------------------
(***************************************************************************)
(* What a prediction is graded by.  A line alarms when it has a word of    *)
(* failure; the parser of the repository takes it for a failure of a test  *)
(* when it has the form that FailsAt describes.                            *)
(***************************************************************************)
Alarms == {"FAILED", "ERROR", "F", "E", "FAIL", "FAIL:", "ERROR:"}
Alarming(line) == \E k \in DOMAIN line : line[k] \in Alarms
FailsAt(parser, line, t) ==
  CASE parser = "pytest"    -> Len(line) > 1 /\ line[1] \in {"FAILED", "ERROR"} /\ line[2] = t
    [] parser = "pytest_v2" -> \/ Len(line) > 1 /\ line[1] \in {"FAILED", "ERROR"} /\ line[2] = t
                               \/ /\ ~Starts(line) /\ Ends(line)
                                  /\ line[1] = t /\ line[2] \in {"FAILED", "ERROR"}
    [] parser = "seaborn"   -> Len(line) > 1 /\ line[1] = "FAILED" /\ line[2] = t
    [] parser = "sympy"     -> /\ line # <<>> /\ line[1] = t /\ t \in Tests
                               /\ Last(line) \in {"E", "F"}
    [] parser = "django"    -> /\ SaysOf(line) /\ line[1] = t /\ t # "ok"
                               /\ line[3] \in {"FAIL", "ERROR"}

(* The part of a log that is read for instance i, and the parser that reads it. *)
IsRead(i, ls) ==
  \/ TestParser[i] = "pytest" /\ Mentions(ls, "patch applied okay")
  \/ TestParser[i] = "none" /\ Applied(ls)
PartRead(i, ls) == IF TestParser[i] = "pytest" THEN ls ELSE AfterPatch(ls)
ParserOf(i) == IF TestParser[i] = "pytest" THEN "pytest" ELSE RepoParser[i]
MustPass(i) == F2P[i] \cup P2P[i]

(* A line that names a test and alarms is a failure of it to the parser; no  *)
(* stray ok follows before the next test begins, which django's parser would *)
(* take for an ok of the test that failed; and a test that django's parser   *)
(* takes for interrupted and resumed does not fail later.                    *)
Clear(parser, ls, ts) ==
  /\ \A i \in DOMAIN ls, t \in ts : Names(ls[i], t) /\ Alarming(ls[i]) => FailsAt(parser, ls[i], t)
  /\ parser = "django" =>
       \A i, j \in DOMAIN ls, t \in ts :
         i < j /\ Names(ls[i], t) /\ Alarming(ls[i]) /\ ls[j] # <<>> /\ ls[j][1] = "ok" =>
           \E b \in (i + 1)..j : Begun(ls[b])
  /\ parser = "django" =>
       \A i \in Interrupted(ls), j \in DOMAIN ls, t \in ts :
         ls[i][1] = t /\ Names(ls[j], t) /\ Alarming(ls[j]) => j < i

(* What the notes of the hazards exclude: git takes all of a patch or nothing *)
(* where patch(1) takes all of it (else patch --batch reverses what git apply *)
(* --reject has applied); and the logs are clear.                             *)
WholePatches == \A j \in Jobs : Loose[j] = Files[j] => Strict[j] \in {{}, Files[j]}
ClearLogs ==
  \A i \in Instances, ls \in Logs :
    IsRead(i, ls) => Clear(ParserOf(i), PartRead(i, ls), MustPass(i))

-----------------------------------------------------------------------------
(***************************************************************************)
(* What a parser knows: statuses of some words, the test it saw begun.      *)
(***************************************************************************)
Vocab == LogWords \cup Status \cup {NoTest} \cup {FirstWord[t] : t \in Tests}
Accs == [sm : UNION {[D -> Vocab] : D \in SUBSET Vocab}, prev : Vocab, err : BOOLEAN]

(* A status for t, and nothing else, is set in acc. *)
Sets(acc, t, st, b) ==
  /\ b \in Accs /\ DOMAIN b.sm = DOMAIN acc.sm \cup {t} /\ b.sm[t] = st
  /\ \A u \in DOMAIN acc.sm : u # t => b.sm[u] = acc.sm[u]
  /\ b.prev = acc.prev

(* Is does that. *)
LEMMA IsSets ==
  ASSUME NEW acc \in Accs, NEW t \in Vocab, NEW st \in Vocab
  PROVE  Sets(acc, t, st, Is(acc, t, st))
  <1>1. PICK s, p, e : s = acc.sm /\ p = acc.prev /\ e = acc.err
    OBVIOUS
  <1>2. acc = [sm |-> s, prev |-> p, err |-> e] /\ p \in Vocab /\ e \in BOOLEAN
        /\ s \in UNION {[D -> Vocab] : D \in SUBSET Vocab}
    BY <1>1 DEF Accs
  <1>3. PICK D \in SUBSET Vocab : s \in [D -> Vocab]
    BY <1>2
  <1>4. PICK f : f = [u \in DOMAIN s \cup {t} |-> IF u = t THEN st ELSE s[u]]
    OBVIOUS
  <1>5. f \in [D \cup {t} -> Vocab] /\ D \cup {t} \in SUBSET Vocab
    BY <1>3, <1>4
  <1>6. Is(acc, t, st) = [acc EXCEPT !.sm = f]
    BY <1>1, <1>4 DEF Is
  <1>7. Is(acc, t, st) = [sm |-> f, prev |-> p, err |-> e]
    BY <1>2, <1>6
  <1>8. [sm |-> f, prev |-> p, err |-> e] \in Accs
    BY <1>2, <1>5 DEF Accs
  <1>9. DOMAIN f = DOMAIN s \cup {t} /\ f[t] = st /\ \A u \in DOMAIN s : u # t => f[u] = s[u]
    BY <1>4
  <1>. QED BY <1>1, <1>7, <1>8, <1>9 DEF Sets

(* A line that is an error for the parser changes neither. *)
LEMMA RaisesKeeps ==
  ASSUME NEW acc \in Accs
  PROVE  Raises(acc) \in Accs /\ Raises(acc).sm = acc.sm /\ Raises(acc).prev = acc.prev
  BY DEF Raises, Accs

(* The parser knows nothing at first. *)
LEMMA BlankIs == Blank \in Accs /\ DOMAIN Blank.sm = {} /\ Blank.prev = NoTest
  <1>1. <<>> \in [{} -> Vocab] /\ {} \in SUBSET Vocab /\ NoTest \in Vocab /\ DOMAIN <<>> = {}
    BY DEF Vocab
  <1>2. <<>> \in UNION {[D -> Vocab] : D \in SUBSET Vocab}
    BY <1>1
  <1>. QED BY <1>1, <1>2 DEF Blank, Accs

(* The words of a line. *)
LEMMA LineFacts ==
  ASSUME NEW line \in Seq(Vocab)
  PROVE  /\ Len(line) \in Nat /\ DOMAIN line = 1..Len(line)
         /\ (line # <<>> <=> Len(line) >= 1)
         /\ \A k \in 1..Len(line) :
              line[k] \in Vocab /\ (k = 1 \/ ~Sums(line) => Names(line, line[k]))
         /\ line # <<>> => Last(line) = line[Len(line)] /\ Last(line) \in Vocab
         /\ Starts(line) => line # <<>> /\ line[1] \in Status /\ ~Sums(line)
         /\ ~Starts(line) /\ Ends(line) => Len(line) > 1
  <1>1. Len(line) \in Nat /\ DOMAIN line = 1..Len(line) /\ (line # <<>> <=> Len(line) >= 1)
    BY LenProperties, EmptySeq
  <1>2. \A k \in 1..Len(line) : line[k] \in Vocab
    BY ElementOfSeq
  <1>3. \A k \in 1..Len(line) : k = 1 \/ ~Sums(line) => Names(line, line[k])
    BY <1>1 DEF Names
  <1>4. line # <<>> => Last(line) = line[Len(line)] /\ Len(line) \in 1..Len(line)
    BY <1>1 DEF Last
  <1>5. Starts(line) => line # <<>> /\ line[1] \in Status /\ ~Sums(line)
    BY DEF Starts, Sums, Summary, Status
  <1>6. ASSUME ~Starts(line), Ends(line) PROVE Len(line) > 1
    <2>1. line # <<>> /\ Last(line) \in Status
      BY <1>6 DEF Ends
    <2>2. line[1] \notin Status
      BY <1>6, <2>1 DEF Starts
    <2>3. Len(line) # 1
      BY <1>4, <2>1, <2>2
    <2>. QED BY <1>1, <2>1, <2>3
  <1>. QED BY <1>1, <1>2, <1>3, <1>4, <1>5, <1>6

(* A line tells nothing of the tests that it does not name. *)
Quiet(acc, line, b) ==
  /\ b \in Accs /\ b.prev = acc.prev
  /\ \A t : ~Names(line, t) /\ t \in DOMAIN b.sm => t \in DOMAIN acc.sm /\ b.sm[t] = acc.sm[t]

(* So it is when the status of a word of the line is set, or none. *)
LEMMA SetsQuietly ==
  ASSUME NEW acc \in Accs, NEW line, NEW u \in Vocab, Names(line, u), NEW st \in Vocab
  PROVE  LET b == Is(acc, u, st) IN Quiet(acc, line, b) /\ u \in DOMAIN b.sm /\ b.sm[u] = st
  <1>1. PICK b : b = Is(acc, u, st)
    OBVIOUS
  <1>2. Sets(acc, u, st, b)
    BY <1>1, IsSets
  <1>3. /\ b \in Accs /\ DOMAIN b.sm = DOMAIN acc.sm \cup {u} /\ b.sm[u] = st
        /\ \A v \in DOMAIN acc.sm : v # u => b.sm[v] = acc.sm[v]
        /\ b.prev = acc.prev
    BY <1>2 DEF Sets
  <1>4. ASSUME NEW t, ~Names(line, t), t \in DOMAIN b.sm
        PROVE  t \in DOMAIN acc.sm /\ b.sm[t] = acc.sm[t]
    <2>1. t # u
      BY <1>4
    <2>. QED BY <1>3, <1>4, <2>1
  <1>. QED BY <1>1, <1>3, <1>4 DEF Quiet

(* Nor does a line tell anything when it raises or is passed over. *)
LEMMA RaisesQuietly ==
  ASSUME NEW acc \in Accs, NEW line
  PROVE  Quiet(acc, line, Raises(acc)) /\ Quiet(acc, line, acc)
  BY RaisesKeeps DEF Quiet

(* What a line does: it tells the failure of a test that it has a form for, *)
(* nothing of the tests it does not name, but for an ok of the test begun.  *)
Tells(parser, line, b) ==
  \A t : FailsAt(parser, line, t) => t \in DOMAIN b.sm /\ b.sm[t] \in {"FAILED", "ERROR"}

(* A line of pytest. *)
LEMMA PytestStep ==
  ASSUME NEW acc \in Accs, NEW line \in Seq(Vocab), NEW b, b = PytestLine(acc, line)
  PROVE  Quiet(acc, line, b) /\ Tells("pytest", line, b)
  <1>1. /\ Len(line) \in Nat /\ (line # <<>> <=> Len(line) >= 1)
        /\ \A k \in 1..Len(line) :
             line[k] \in Vocab /\ (k = 1 \/ ~Sums(line) => Names(line, line[k]))
        /\ Starts(line) => line # <<>> /\ line[1] \in Status /\ ~Sums(line)
    BY LineFacts
  <1>2. CASE Starts(line) /\ Len(line) > 1
    <2>1. line[1] \in Vocab /\ line[2] \in Vocab /\ Names(line, line[2])
      BY <1>1, <1>2
    <2>2. b = Is(acc, line[2], line[1])
      BY <1>2 DEF PytestLine
    <2>3. Quiet(acc, line, b) /\ line[2] \in DOMAIN b.sm /\ b.sm[line[2]] = line[1]
      BY <2>1, <2>2, SetsQuietly
    <2>4. ASSUME NEW t, FailsAt("pytest", line, t)
          PROVE  t \in DOMAIN b.sm /\ b.sm[t] \in {"FAILED", "ERROR"}
      <3>1. line[1] \in {"FAILED", "ERROR"} /\ line[2] = t
        BY <2>4 DEF FailsAt
      <3>. QED BY <2>3, <3>1
    <2>. QED BY <2>3, <2>4 DEF Tells
  <1>3. CASE ~(Starts(line) /\ Len(line) > 1)
    <2>1. b = acc
      BY <1>3 DEF PytestLine
    <2>2. ASSUME NEW t, FailsAt("pytest", line, t) PROVE FALSE
      <3>1. Len(line) > 1 /\ line[1] \in {"FAILED", "ERROR"}
        BY <2>2 DEF FailsAt
      <3>. QED BY <1>1, <1>3, <3>1 DEF Starts, Status
    <2>3. Tells("pytest", line, b)
      BY <2>2 DEF Tells
    <2>. QED BY <2>1, <2>3, RaisesQuietly
  <1>. QED BY <1>2, <1>3

(* A line of a newer or an older version of pytest. *)
LEMMA PytestV2Step ==
  ASSUME NEW acc \in Accs, NEW line \in Seq(Vocab), NEW b, b = PytestV2Line(acc, line)
  PROVE  Quiet(acc, line, b) /\ Tells("pytest_v2", line, b)
  <1>1. /\ Len(line) \in Nat /\ (line # <<>> <=> Len(line) >= 1)
        /\ \A k \in 1..Len(line) :
             line[k] \in Vocab /\ (k = 1 \/ ~Sums(line) => Names(line, line[k]))
        /\ Starts(line) => line # <<>> /\ line[1] \in Status /\ ~Sums(line)
        /\ ~Starts(line) /\ Ends(line) => Len(line) > 1
    BY LineFacts
  <1>2. ASSUME NEW t
        PROVE  FailsAt("pytest_v2", line, t) <=>
                 \/ Len(line) > 1 /\ line[1] \in {"FAILED", "ERROR"} /\ line[2] = t
                 \/ /\ ~Starts(line) /\ Ends(line)
                    /\ line[1] = t /\ line[2] \in {"FAILED", "ERROR"}
    BY DEF FailsAt
  <1>3. Len(line) > 1 /\ line[1] \in {"FAILED", "ERROR"} => Starts(line)
    BY <1>1 DEF Starts, Status
  <1>4. CASE Starts(line) /\ Len(line) > 1
    <2>1. line[1] \in Vocab /\ line[2] \in Vocab /\ Names(line, line[2])
      BY <1>1, <1>4
    <2>2. b = Is(acc, line[2], line[1])
      BY <1>4 DEF PytestV2Line
    <2>3. Quiet(acc, line, b) /\ line[2] \in DOMAIN b.sm /\ b.sm[line[2]] = line[1]
      BY <2>1, <2>2, SetsQuietly
    <2>. QED BY <1>2, <1>4, <2>3 DEF Tells
  <1>5. CASE Starts(line) /\ ~(Len(line) > 1)
    <2>1. b = Raises(acc)
      BY <1>5 DEF PytestV2Line
    <2>2. Tells("pytest_v2", line, b)
      BY <1>2, <1>5 DEF Tells
    <2>. QED BY <2>1, <2>2, RaisesQuietly
  <1>6. CASE ~Starts(line) /\ Ends(line)
    <2>1. line[1] \in Vocab /\ line[2] \in Vocab /\ Names(line, line[1])
      BY <1>1, <1>6
    <2>2. b = Is(acc, line[1], line[2])
      BY <1>6 DEF PytestV2Line
    <2>3. Quiet(acc, line, b) /\ line[1] \in DOMAIN b.sm /\ b.sm[line[1]] = line[2]
      BY <2>1, <2>2, SetsQuietly
    <2>. QED BY <1>2, <1>3, <1>6, <2>3 DEF Tells
  <1>7. CASE ~Starts(line) /\ ~Ends(line)
    <2>1. b = acc
      BY <1>7 DEF PytestV2Line
    <2>2. Tells("pytest_v2", line, b)
      BY <1>2, <1>3, <1>7 DEF Tells
    <2>. QED BY <2>1, <2>2, RaisesQuietly
  <1>. QED BY <1>4, <1>5, <1>6, <1>7

(* A line of seaborn's tests. *)
LEMMA SeabornStep ==
  ASSUME NEW acc \in Accs, NEW line \in Seq(Vocab), NEW b, b = SeabornLine(acc, line)
  PROVE  Quiet(acc, line, b) /\ Tells("seaborn", line, b)
  <1>1. /\ Len(line) \in Nat /\ (line # <<>> <=> Len(line) >= 1)
        /\ \A k \in 1..Len(line) :
             line[k] \in Vocab /\ (k = 1 \/ ~Sums(line) => Names(line, line[k]))
        /\ Starts(line) => line # <<>> /\ line[1] \in Status /\ ~Sums(line)
    BY LineFacts
  <1>2. ASSUME NEW t
        PROVE  FailsAt("seaborn", line, t) <=> Len(line) > 1 /\ line[1] = "FAILED" /\ line[2] = t
    BY DEF FailsAt
  <1>3. Len(line) > 1 /\ line[1] = "FAILED" => Starts(line)
    BY <1>1 DEF Starts, Status
  <1>4. "FAILED" \in Vocab /\ "PASSED" \in Vocab
    BY DEF Vocab, Status
  <1>5. CASE Starts(line) /\ line[1] = "FAILED" /\ Len(line) > 1
    <2>1. line[2] \in Vocab /\ Names(line, line[2])
      BY <1>1, <1>5
    <2>2. b = Is(acc, line[2], "FAILED")
      BY <1>5 DEF SeabornLine
    <2>3. Quiet(acc, line, b) /\ line[2] \in DOMAIN b.sm /\ b.sm[line[2]] = "FAILED"
      BY <1>4, <2>1, <2>2, SetsQuietly
    <2>. QED BY <1>2, <1>5, <2>3 DEF Tells
  <1>6. CASE ~(Starts(line) /\ line[1] = "FAILED" /\ Len(line) > 1)
    <2>1. Tells("seaborn", line, b)
      BY <1>2, <1>3, <1>6 DEF Tells
    <2>2. \/ b = acc \/ b = Raises(acc)
          \/ Len(line) > 2 /\ b = Is(acc, line[1], "PASSED")
          \/ Starts(line) /\ Len(line) > 1 /\ b = Is(acc, line[2], "PASSED")
      BY <1>6 DEF SeabornLine
    <2>3. CASE b = acc \/ b = Raises(acc)
      BY <2>1, <2>3, RaisesQuietly
    <2>4. CASE Len(line) > 2 /\ b = Is(acc, line[1], "PASSED")
      <3>1. line[1] \in Vocab /\ Names(line, line[1])
        BY <1>1, <2>4
      <3>. QED BY <1>4, <2>1, <2>4, <3>1, SetsQuietly
    <2>5. CASE Starts(line) /\ Len(line) > 1 /\ b = Is(acc, line[2], "PASSED")
      <3>1. line[2] \in Vocab /\ Names(line, line[2])
        BY <1>1, <2>5
      <3>. QED BY <1>4, <2>1, <2>5, <3>1, SetsQuietly
    <2>. QED BY <2>2, <2>3, <2>4, <2>5
  <1>. QED BY <1>5, <1>6

(* A line of sympy's tests. *)
LEMMA SympyStep ==
  ASSUME NEW acc \in Accs, NEW line \in Seq(Vocab), NEW b, b = SympyLine(acc, line)
  PROVE  Quiet(acc, line, b) /\ Tells("sympy", line, b)
  <1>1. /\ Len(line) \in Nat /\ (line # <<>> <=> Len(line) >= 1)
        /\ \A k \in 1..Len(line) :
             line[k] \in Vocab /\ (k = 1 \/ ~Sums(line) => Names(line, line[k]))
    BY LineFacts
  <1>2. ASSUME NEW t
        PROVE  FailsAt("sympy", line, t) <=>
                 line # <<>> /\ line[1] = t /\ t \in Tests /\ Last(line) \in {"E", "F"}
    BY DEF FailsAt
  <1>3. /\ DOMAIN SympyVerdict = {"E", "F", "ok"}
        /\ SympyVerdict["E"] = "ERROR" /\ SympyVerdict["F"] = "FAILED" /\ SympyVerdict["ok"] = "PASSED"
    BY DEF SympyVerdict
  <1>4. {"ERROR", "FAILED", "PASSED"} \subseteq Vocab
    BY DEF Vocab, Status
  <1>5. CASE line # <<>> /\ line[1] \in Tests /\ Last(line) \in DOMAIN SympyVerdict
    <2>1. PICK st : st = SympyVerdict[Last(line)]
      OBVIOUS
    <2>2. st \in Vocab /\ (Last(line) \in {"E", "F"} => st \in {"FAILED", "ERROR"})
      BY <1>3, <1>4, <1>5, <2>1
    <2>3. line[1] \in Vocab /\ Names(line, line[1])
      BY <1>1, <1>5
    <2>4. b = Is(acc, line[1], st)
      BY <1>5, <2>1 DEF SympyLine
    <2>5. Quiet(acc, line, b) /\ line[1] \in DOMAIN b.sm /\ b.sm[line[1]] = st
      BY <2>2, <2>3, <2>4, SetsQuietly
    <2>. QED BY <1>2, <2>2, <2>5 DEF Tells
  <1>6. CASE ~(line # <<>> /\ line[1] \in Tests /\ Last(line) \in DOMAIN SympyVerdict)
    <2>1. b = acc
      BY <1>6 DEF SympyLine
    <2>2. Tells("sympy", line, b)
      BY <1>2, <1>3, <1>6 DEF Tells
    <2>. QED BY <2>1, <2>2, RaisesQuietly
  <1>. QED BY <1>5, <1>6

(* A line that begins a test changes what django's parser saw begun. *)
Begins(acc, line) == IF Begun(line) THEN [acc EXCEPT !.prev = line[1]] ELSE acc
BeginsAfter(acc, line) == IF Begun(line) THEN line[1] ELSE acc.prev

(* What it says of a test with its name. *)
Says(a, line) == IF SaysOf(line) THEN Is(a, line[1], DjangoVerdict[line[3]]) ELSE a
(* What the summary at the end says, of the first word of the name. *)
SumsUp(a, line) ==
  IF ~Sums(line) THEN a
  ELSE IF Len(line) = 1 THEN Raises(a) ELSE Is(a, KeyOf(line[2]), Summary[line[1]])
(* What a line that begins with ok tells of the test begun. *)
Oks(a, line) ==
  IF line # <<>> /\ line[1] = "ok" /\ a.prev # NoTest THEN Is(a, a.prev, "PASSED") ELSE a

(* django's line is the four in a row. *)
LEMMA DjangoIs ==
  ASSUME NEW acc, NEW line
  PROVE  DjangoLine(acc, line) = Oks(SumsUp(Says(Begins(acc, line), line), line), line)
  BY DEF DjangoLine, Oks, SumsUp, Says, Begins

(* Beginning a test changes only which one was begun. *)
LEMMA BeginsKeeps ==
  ASSUME NEW acc \in Accs, NEW line \in Seq(Vocab)
  PROVE  /\ Begins(acc, line) \in Accs /\ Begins(acc, line).sm = acc.sm
         /\ Begins(acc, line).prev = BeginsAfter(acc, line)
  <1>1. CASE Begun(line)
    <2>1. line[1] \in Vocab
      BY <1>1, LineFacts DEF Begun
    <2>. QED BY <1>1, <2>1 DEF Begins, BeginsAfter, Accs
  <1>2. CASE ~Begun(line)
    BY <1>2 DEF Begins, BeginsAfter
  <1>. QED BY <1>1, <1>2

(* The failures that django's lines tell by name. *)
LEMMA SaysStep ==
  ASSUME NEW a \in Accs, NEW line \in Seq(Vocab), NEW b, b = Says(a, line)
  PROVE  Quiet(a, line, b) /\ Tells("django", line, b)
  <1>1. /\ Len(line) \in Nat
        /\ \A k \in 1..Len(line) :
             line[k] \in Vocab /\ (k = 1 \/ ~Sums(line) => Names(line, line[k]))
    BY LineFacts
  <1>2. ASSUME NEW t
        PROVE  FailsAt("django", line, t) <=>
                 SaysOf(line) /\ line[1] = t /\ t # "ok" /\ line[3] \in {"FAIL", "ERROR"}
    BY DEF FailsAt
  <1>3. /\ DOMAIN DjangoVerdict = {"ok", "skipped", "FAIL", "ERROR"}
        /\ DjangoVerdict["ok"] = "PASSED" /\ DjangoVerdict["skipped"] = "SKIPPED"
        /\ DjangoVerdict["FAIL"] = "FAILED" /\ DjangoVerdict["ERROR"] = "ERROR"
    BY DEF DjangoVerdict
  <1>4. {"ERROR", "FAILED", "PASSED", "SKIPPED"} \subseteq Vocab
    BY DEF Vocab, Status
  <1>5. CASE SaysOf(line)
    <2>1. PICK st : st = DjangoVerdict[line[3]]
      OBVIOUS
    <2>2. Len(line) >= 3 /\ line[3] \in DOMAIN DjangoVerdict
      BY <1>5 DEF SaysOf, Begun
    <2>3. st \in Vocab /\ (line[3] \in {"FAIL", "ERROR"} => st \in {"FAILED", "ERROR"})
      BY <1>3, <1>4, <2>1, <2>2
    <2>4. line[1] \in Vocab /\ Names(line, line[1])
      BY <1>1, <2>2
    <2>5. b = Is(a, line[1], st)
      BY <1>5, <2>1 DEF Says
    <2>6. Quiet(a, line, b) /\ line[1] \in DOMAIN b.sm /\ b.sm[line[1]] = st
      BY <2>3, <2>4, <2>5, SetsQuietly
    <2>. QED BY <1>2, <2>3, <2>6 DEF Tells
  <1>6. CASE ~SaysOf(line)
    <2>1. b = a
      BY <1>6 DEF Says
    <2>2. Tells("django", line, b)
      BY <1>2, <1>6 DEF Tells
    <2>. QED BY <2>1, <2>2, RaisesQuietly
  <1>. QED BY <1>5, <1>6

(* What is known in b was known in a, or is a failure. *)
KnownOrFails(a, b) ==
  \A t \in DOMAIN b.sm :
    (t \in DOMAIN a.sm /\ b.sm[t] = a.sm[t]) \/ b.sm[t] \in {"FAILED", "ERROR"}

(* The summary tells of failures only. *)
LEMMA SumsStep ==
  ASSUME NEW a \in Accs, NEW line \in Seq(Vocab), Tells("django", line, a),
         NEW b, b = SumsUp(a, line)
  PROVE  b \in Accs /\ b.prev = a.prev /\ Tells("django", line, b) /\ KnownOrFails(a, b)
  <1>1. Len(line) \in Nat /\ (line # <<>> <=> Len(line) >= 1)
        /\ \A k \in 1..Len(line) : line[k] \in Vocab
    BY LineFacts
  <1>2. CASE ~Sums(line) \/ Len(line) = 1
    <2>1. b \in Accs /\ b.prev = a.prev /\ b.sm = a.sm
      BY <1>2, RaisesKeeps DEF SumsUp
    <2>. QED BY <2>1 DEF Tells, KnownOrFails
  <1>3. CASE Sums(line) /\ Len(line) # 1
    <2>1. PICK u, st : u = KeyOf(line[2]) /\ st = Summary[line[1]]
      OBVIOUS
    <2>2. line # <<>> /\ line[1] \in {"FAIL:", "ERROR:"}
      BY <1>3 DEF Sums, Summary
    <2>3. st \in {"FAILED", "ERROR"} /\ st \in Vocab
      BY <2>1, <2>2 DEF Summary, Vocab, Status
    <2>4. line[2] \in Vocab
      <3>1. PICK n : n = Len(line)
        OBVIOUS
      <3>2. n \in Nat /\ n >= 1 /\ n # 1
        BY <1>1, <1>3, <2>2, <3>1
      <3>3. 2 \in 1..n
        BY <3>2
      <3>. QED BY <1>1, <3>1, <3>3
    <2>5. u \in Vocab
      <3>1. u = IF line[2] \in Tests THEN FirstWord[line[2]] ELSE line[2]
        BY <2>1 DEF KeyOf
      <3>2. line[2] \in Tests => FirstWord[line[2]] \in Vocab
        BY DEF Vocab
      <3>. QED BY <2>4, <3>1, <3>2
    <2>6. b = Is(a, u, st)
      BY <1>3, <2>1 DEF SumsUp
    <2>7. Sets(a, u, st, b)
      BY <2>3, <2>5, <2>6, IsSets
    <2>8. /\ b \in Accs /\ b.prev = a.prev
          /\ DOMAIN b.sm = DOMAIN a.sm \cup {u} /\ b.sm[u] \in {"FAILED", "ERROR"}
          /\ \A v \in DOMAIN a.sm : v # u => b.sm[v] = a.sm[v]
      BY <2>3, <2>7 DEF Sets
    <2>9. KnownOrFails(a, b)
      BY <2>8 DEF KnownOrFails
    <2>10. ASSUME NEW t, FailsAt("django", line, t)
           PROVE  t \in DOMAIN b.sm /\ b.sm[t] \in {"FAILED", "ERROR"}
      <3>1. t \in DOMAIN a.sm /\ a.sm[t] \in {"FAILED", "ERROR"}
        BY <2>10 DEF Tells
      <3>2. t \in DOMAIN b.sm
        BY <2>8, <3>1
      <3>. QED BY <2>9, <3>1, <3>2 DEF KnownOrFails
    <2>. QED BY <2>8, <2>9, <2>10 DEF Tells
  <1>. QED BY <1>2, <1>3

(* What a line does for any parser. *)
Steps(parser, acc, line, b) ==
  /\ b \in Accs
  /\ b.prev = IF parser = "django" THEN BeginsAfter(acc, line) ELSE acc.prev
  /\ Tells(parser, line, b)
  /\ \A t : ~Names(line, t) /\ t \in DOMAIN b.sm =>
       \/ t \in DOMAIN acc.sm /\ b.sm[t] = acc.sm[t]
       \/ parser = "django" /\ b.sm[t] \in {"FAILED", "ERROR"}
       \/ /\ parser = "django" /\ line # <<>> /\ line[1] = "ok" /\ ~Begun(line)
          /\ t = acc.prev /\ t # NoTest

(* The four other parsers do it so. *)
LEMMA QuietSteps ==
  ASSUME NEW acc, NEW line, NEW b, Quiet(acc, line, b), NEW parser, parser # "django",
         Tells(parser, line, b)
  PROVE  Steps(parser, acc, line, b)
  BY DEF Quiet, Steps

(* django's does, where an ok may tell of the test begun. *)
LEMMA DjangoStep ==
  ASSUME NEW acc \in Accs, NEW line \in Seq(Vocab), NEW b, b = DjangoLine(acc, line)
  PROVE  Steps("django", acc, line, b)
  <1>1. PICK a, q, s : a = Begins(acc, line) /\ q = Says(a, line) /\ s = SumsUp(q, line)
    OBVIOUS
  <1>2. a \in Accs /\ a.sm = acc.sm /\ a.prev = BeginsAfter(acc, line)
    BY <1>1, BeginsKeeps
  <1>3. Quiet(a, line, q) /\ Tells("django", line, q)
    BY <1>1, <1>2, SaysStep
  <1>4. s \in Accs /\ s.prev = q.prev /\ Tells("django", line, s) /\ KnownOrFails(q, s)
    <2>1. q \in Accs
      BY <1>3 DEF Quiet
    <2>. QED BY <1>1, <1>3, <2>1, SumsStep
  <1>5. /\ s.prev = BeginsAfter(acc, line)
        /\ \A t : ~Names(line, t) /\ t \in DOMAIN s.sm =>
             (t \in DOMAIN acc.sm /\ s.sm[t] = acc.sm[t]) \/ s.sm[t] \in {"FAILED", "ERROR"}
        /\ DjangoLine(acc, line) = Oks(s, line)
    BY <1>1, <1>2, <1>3, <1>4, DjangoIs DEF Quiet, KnownOrFails
  <1>6. CASE line # <<>> /\ line[1] = "ok" /\ s.prev # NoTest
    <2>1. PICK p : p = s.prev
      OBVIOUS
    <2>2. p \in Vocab /\ "PASSED" \in Vocab
      BY <1>4, <2>1 DEF Accs, Vocab, Status
    <2>3. b = Is(s, p, "PASSED")
      BY <1>5, <1>6, <2>1 DEF Oks
    <2>4. Sets(s, p, "PASSED", b)
      BY <1>4, <2>2, <2>3, IsSets
    <2>5. /\ b \in Accs /\ DOMAIN b.sm = DOMAIN s.sm \cup {p}
          /\ \A u \in DOMAIN s.sm : u # p => b.sm[u] = s.sm[u]
          /\ b.prev = s.prev
      BY <2>4 DEF Sets
    <2>6. ASSUME NEW t PROVE ~FailsAt("django", line, t)
      BY <1>6 DEF FailsAt
    <2>7. Begun(line) => Names(line, p)
      <3>1. ASSUME Begun(line) PROVE Names(line, p)
        <4>1. p = line[1] /\ line # <<>>
          BY <1>5, <1>6, <2>1, <3>1 DEF BeginsAfter
        <4>. QED BY <1>6, <4>1, LineFacts
      <3>. QED BY <3>1
    <2>8. ~Begun(line) => p = acc.prev
      BY <1>5, <2>1 DEF BeginsAfter
    <2>9. ASSUME NEW t, ~Names(line, t), t \in DOMAIN b.sm
          PROVE  \/ t \in DOMAIN acc.sm /\ b.sm[t] = acc.sm[t]
                 \/ b.sm[t] \in {"FAILED", "ERROR"}
                 \/ /\ line # <<>> /\ line[1] = "ok" /\ ~Begun(line)
                    /\ t = acc.prev /\ t # NoTest
      <3>1. CASE t = p
        BY <1>6, <2>1, <2>7, <2>8, <2>9, <3>1
      <3>2. CASE t # p
        <4>1. t \in DOMAIN s.sm /\ b.sm[t] = s.sm[t]
          BY <2>5, <2>9, <3>2
        <4>. QED BY <1>5, <2>9, <4>1
      <3>. QED BY <3>1, <3>2
    <2>10. Tells("django", line, b)
      BY <2>6 DEF Tells
    <2>11. b.prev = BeginsAfter(acc, line)
      BY <1>5, <2>5
    <2>. QED BY <2>5, <2>9, <2>10, <2>11 DEF Steps
  <1>7. CASE ~(line # <<>> /\ line[1] = "ok" /\ s.prev # NoTest)
    <2>1. b = s
      BY <1>5, <1>7 DEF Oks
    <2>. QED BY <1>4, <1>5, <2>1 DEF Steps
  <1>. QED BY <1>6, <1>7

(* A line read by any of them. *)
LEMMA ParseStep ==
  ASSUME NEW parser \in Parsers, NEW acc \in Accs, NEW line \in Seq(Vocab)
  PROVE  Steps(parser, acc, line, ParseLine(parser, acc, line))
  <1>1. PICK b : b = ParseLine(parser, acc, line)
    OBVIOUS
  <1>2. CASE parser = "pytest"
    <2>1. b = PytestLine(acc, line)
      BY <1>1, <1>2 DEF ParseLine
    <2>2. Quiet(acc, line, b) /\ Tells("pytest", line, b)
      BY <2>1, PytestStep
    <2>. QED BY <1>1, <1>2, <2>2, QuietSteps
  <1>3. CASE parser = "pytest_v2"
    <2>1. b = PytestV2Line(acc, line)
      BY <1>1, <1>3 DEF ParseLine
    <2>2. Quiet(acc, line, b) /\ Tells("pytest_v2", line, b)
      BY <2>1, PytestV2Step
    <2>. QED BY <1>1, <1>3, <2>2, QuietSteps
  <1>4. CASE parser = "seaborn"
    <2>1. b = SeabornLine(acc, line)
      BY <1>1, <1>4 DEF ParseLine
    <2>2. Quiet(acc, line, b) /\ Tells("seaborn", line, b)
      BY <2>1, SeabornStep
    <2>. QED BY <1>1, <1>4, <2>2, QuietSteps
  <1>5. CASE parser = "sympy"
    <2>1. b = SympyLine(acc, line)
      BY <1>1, <1>5 DEF ParseLine
    <2>2. Quiet(acc, line, b) /\ Tells("sympy", line, b)
      BY <2>1, SympyStep
    <2>. QED BY <1>1, <1>5, <2>2, QuietSteps
  <1>6. CASE parser = "django"
    <2>1. b = DjangoLine(acc, line)
      BY <1>1, <1>6 DEF ParseLine
    <2>. QED BY <1>1, <1>6, <2>1, DjangoStep
  <1>. QED BY <1>2, <1>3, <1>4, <1>5, <1>6 DEF Parsers

-----------------------------------------------------------------------------
(***************************************************************************)
(* What a parser knows after each line of a log.                           *)
(***************************************************************************)
ParseRuns(c, parser, w) ==
  /\ c \in [0..Len(w) -> Accs] /\ c[0] = Blank
  /\ \A k \in 1..Len(w) : c[k] = ParseLine(parser, c[k - 1], w[k])

(* ReadLines is what it knows after the last. *)
LEMMA FromLines ==
  ASSUME NEW parser \in Parsers, NEW w \in Seq(Seq(Vocab))
  PROVE  \E c : ParseRuns(c, parser, w) /\ ReadLines(parser, w) = c[Len(w)]
  <1>. DEFINE n == Len(w)
              IsFold(f) == f = [s \in SUBSET DOMAIN w |->
                                  IF s = {} THEN Blank
                                  ELSE LET x == Max(s) IN ParseLine(parser, f[s \ {x}], w[x])]
              it == CHOOSE f : IsFold(f)
              Eq(f) == f = [s \in SUBSET (1..n) |->
                              IF s = {} THEN Blank
                              ELSE ParseLine(parser, f[s \ {Max(s)}], w[Max(s)])]
  <1>1. n \in Nat /\ DOMAIN w = 1..n /\ \A i \in 1..n : w[i] \in Seq(Vocab)
    BY LenProperties, ElementOfSeq
  <1>2. ReadLines(parser, w) = it[1..n]
    <2>1. ReadLines(parser, w) = it[DOMAIN w]
      BY DEF ReadLines, FoldLeft, MapThenFoldSet
    <2>. HIDE DEF it, n
    <2>. QED BY <1>1, <2>1
  <1>3. ASSUME NEW f PROVE IsFold(f) <=> Eq(f)
    <2>. HIDE DEF n
    <2>. QED BY <1>1
  <1>4. ASSUME NEW a \in Accs, NEW line \in Seq(Vocab) PROVE ParseLine(parser, a, line) \in Accs
    BY ParseStep DEF Steps
  <1>5. Blank \in Accs
    BY BlankIs
  <1>6. \E f : Eq(f)
    <2>. HIDE DEF n
    <2>1. PICK step : step = [p \in Accs \X (1..n) |-> ParseLine(parser, p[1], w[p[2]])]
      OBVIOUS
    <2>2. step \in [Accs \X (1..n) -> Accs]
      <3>1. \A p \in Accs \X (1..n) : ParseLine(parser, p[1], w[p[2]]) \in Accs
        BY <1>1, <1>4
      <3>. QED BY <2>1, <3>1
    <2>3. FoldsOf(n, Accs, Blank, step) # {}
      BY <1>1, <1>5, <2>2, FoldExists
    <2>4. PICK f \in [SUBSET (1..n) -> Accs] :
            \A s \in SUBSET (1..n) :
              f[s] = IF s = {} THEN Blank ELSE step[<<f[s \ {Max(s)}], Max(s)>>]
      BY <2>3 DEF FoldsOf
    <2>5. ASSUME NEW s \in SUBSET (1..n), s # {}
          PROVE  step[<<f[s \ {Max(s)}], Max(s)>>] =
                   ParseLine(parser, f[s \ {Max(s)}], w[Max(s)])
      <3>1. Max(s) \in 1..n
        <4>1. n \in Int
          BY <1>1
        <4>2. Max(s) \in s
          BY <2>5, <4>1, MaxFacts
        <4>. QED BY <4>2
      <3>2. f[s \ {Max(s)}] \in Accs
        BY <2>4
      <3>. QED BY <2>1, <3>1, <3>2
    <2>6. f = [s \in SUBSET (1..n) |-> IF s = {} THEN Blank
                                       ELSE ParseLine(parser, f[s \ {Max(s)}], w[Max(s)])]
      BY <2>4, <2>5
    <2>. QED BY <2>6
  <1>7. Eq(it)
    <2>1. IsFold(it)
      <3>. HIDE DEF IsFold, Eq
      <3>. QED BY <1>3, <1>6
    <2>. HIDE DEF IsFold, Eq, it
    <2>. QED BY <1>3, <2>1
  <1>. HIDE DEF it, IsFold, n
  <1>8. it[1..0] = Blank /\ \A k \in 1..n : it[1..k] = ParseLine(parser, it[1..(k - 1)], w[k])
    <2>1. 1..0 = {} /\ 1..0 \in SUBSET (1..n)
      OBVIOUS
    <2>2. ASSUME NEW k \in 1..n PROVE it[1..k] = ParseLine(parser, it[1..(k - 1)], w[k])
      <3>1. 1..k \in SUBSET (1..n) /\ 1..k # {} /\ (1..k) \ {k} = 1..(k - 1) /\ Max(1..k) = k
        BY <1>1, UpTo
      <3>. QED BY <1>7, <3>1
    <2>. QED BY <1>7, <2>1, <2>2
  <1>. HIDE DEF Eq
  <1>. DEFINE S == {k \in Nat : k <= n => it[1..k] \in Accs}
  <1>9. 0 \in S
    BY <1>5, <1>8
  <1>10. ASSUME NEW k \in Nat, k \in S PROVE k + 1 \in S
    <2>1. SUFFICES ASSUME k + 1 <= n PROVE it[1..(k + 1)] \in Accs
      OBVIOUS
    <2>2. k + 1 \in 1..n /\ (k + 1) - 1 = k /\ k <= n
      BY <1>1, <2>1
    <2>3. it[1..k] \in Accs /\ w[k + 1] \in Seq(Vocab)
      BY <1>1, <1>10, <2>2
    <2>4. it[1..(k + 1)] = ParseLine(parser, it[1..k], w[k + 1])
      BY <1>8, <2>2
    <2>. QED BY <1>4, <2>3, <2>4
  <1>. HIDE DEF S
  <1>11. \A k \in Nat : k \in S
    BY <1>9, <1>10, Induct
  <1>12. PICK c : c = [k \in 0..n |-> it[1..k]]
    OBVIOUS
  <1>13. c \in [0..n -> Accs]
    <2>1. \A k \in 0..n : k \in Nat /\ k <= n
      BY <1>1
    <2>2. \A k \in 0..n : it[1..k] \in Accs
      BY <1>11, <2>1 DEF S
    <2>. QED BY <1>12, <2>2
  <1>14. c[0] = Blank /\ \A k \in 1..n : c[k] = ParseLine(parser, c[k - 1], w[k])
    <2>1. \A k \in 0..n : c[k] = it[1..k]
      BY <1>12
    <2>2. 0 \in 0..n /\ \A k \in 1..n : k \in 0..n /\ k - 1 \in 0..n
      BY <1>1
    <2>. QED BY <1>8, <2>1, <2>2
  <1>15. ReadLines(parser, w) = c[n]
    <2>1. n \in 0..n
      BY <1>1
    <2>. QED BY <1>2, <1>12, <2>1
  <1>. QED BY <1>13, <1>14, <1>15 DEF ParseRuns, n

(* After k lines the test begun is that of the last line that begins one,  *)
(* and a test that is known is known to have failed, or it was named and   *)
(* the last line that names it does not alarm.                             *)
LastBegun(a, w, k) ==
  \/ a.prev = NoTest
  \/ \E b \in 1..k : Begun(w[b]) /\ a.prev = w[b][1] /\ \A j \in (b + 1)..k : ~Begun(w[j])
LastSaid(w, k, t) ==
  \E m \in 1..k : /\ Names(w[m], t) /\ \A j \in (m + 1)..k : ~Names(w[j], t)
                  /\ ~Alarming(w[m])
LastNamed(a, w, k, t) == a.sm[t] \in {"FAILED", "ERROR"} \/ LastSaid(w, k, t)
Tracked(parser, a, w, k, ts) ==
  /\ parser = "django" => LastBegun(a, w, k)
  /\ \A t \in ts : t \in DOMAIN a.sm => LastNamed(a, w, k, t)

(* The next line begins a test, or the last one stays. *)
LEMMA BegunStep ==
  ASSUME NEW w, NEW k \in Nat, NEW a, LastBegun(a, w, k),
         NEW b, b.prev = BeginsAfter(a, w[k + 1])
  PROVE  LastBegun(b, w, k + 1)
  <1>1. CASE Begun(w[k + 1])
    <2>1. b.prev = w[k + 1][1]
      BY <1>1 DEF BeginsAfter
    <2>2. k + 1 \in 1..(k + 1) /\ \A j \in ((k + 1) + 1)..(k + 1) : FALSE
      OBVIOUS
    <2>. QED BY <1>1, <2>1, <2>2 DEF LastBegun
  <1>2. CASE ~Begun(w[k + 1])
    <2>1. b.prev = a.prev
      BY <1>2 DEF BeginsAfter
    <2>2. CASE a.prev = NoTest
      BY <2>1, <2>2 DEF LastBegun
    <2>3. CASE a.prev # NoTest
      <3>1. PICK m \in 1..k : Begun(w[m]) /\ a.prev = w[m][1] /\ \A j \in (m + 1)..k : ~Begun(w[j])
        BY <2>3 DEF LastBegun
      <3>2. m \in 1..(k + 1) /\ \A j \in (m + 1)..(k + 1) : j \in (m + 1)..k \/ j = k + 1
        OBVIOUS
      <3>3. \A j \in (m + 1)..(k + 1) : ~Begun(w[j])
        BY <1>2, <3>1, <3>2
      <3>. QED BY <2>1, <3>1, <3>2, <3>3 DEF LastBegun
    <2>. QED BY <2>2, <2>3
  <1>. QED BY <1>1, <1>2

(* The last of the first k lines that names t. *)
LEMMA LastNaming ==
  ASSUME NEW w, NEW k \in Nat, NEW t, NEW b \in 1..k, Names(w[b], t)
  PROVE  \E m \in 1..k : b <= m /\ Names(w[m], t) /\ \A j \in (m + 1)..k : ~Names(w[j], t)
  <1>. DEFINE s == {j \in 1..k : Names(w[j], t)}
  <1>1. s \in SUBSET (1..k) /\ b \in s
    OBVIOUS
  <1>2. k \in Int /\ s # {}
    BY <1>1
  <1>3. Max(s) \in s /\ \A x \in s : x <= Max(s)
    <2>. HIDE DEF s
    <2>. QED BY <1>1, <1>2, MaxFacts
  <1>4. PICK m : m = Max(s)
    OBVIOUS
  <1>5. m \in 1..k /\ Names(w[m], t) /\ b <= m
    BY <1>1, <1>3, <1>4
  <1>6. ASSUME NEW j \in (m + 1)..k PROVE ~Names(w[j], t)
    <2>1. j \in 1..k /\ ~(j <= m)
      BY <1>5
    <2>. QED BY <1>3, <1>4, <2>1
  <1>. QED BY <1>5, <1>6

(* One more line. *)
LEMMA TrackStep ==
  ASSUME NEW parser, NEW w \in Seq(Seq(Vocab)), NEW ts, Clear(parser, w, ts),
         NEW k \in Nat, k + 1 <= Len(w), NEW a, Tracked(parser, a, w, k, ts),
         NEW b, Steps(parser, a, w[k + 1], b)
  PROVE  Tracked(parser, b, w, k + 1, ts)
  <1>1. Len(w) \in Nat /\ DOMAIN w = 1..Len(w) /\ k + 1 \in 1..Len(w)
    BY LenProperties
  <1>2. /\ b.prev = IF parser = "django" THEN BeginsAfter(a, w[k + 1]) ELSE a.prev
        /\ Tells(parser, w[k + 1], b)
        /\ \A t : ~Names(w[k + 1], t) /\ t \in DOMAIN b.sm =>
             \/ t \in DOMAIN a.sm /\ b.sm[t] = a.sm[t]
             \/ b.sm[t] \in {"FAILED", "ERROR"}
             \/ /\ parser = "django" /\ w[k + 1] # <<>> /\ w[k + 1][1] = "ok" /\ ~Begun(w[k + 1])
                /\ t = a.prev /\ t # NoTest
    BY DEF Steps
  <1>3. ASSUME parser = "django" PROVE LastBegun(b, w, k + 1)
    <2>1. LastBegun(a, w, k) /\ b.prev = BeginsAfter(a, w[k + 1])
      BY <1>2, <1>3 DEF Tracked
    <2>. QED BY <2>1, BegunStep
  <1>4. ASSUME NEW t \in ts, t \in DOMAIN b.sm PROVE LastNamed(b, w, k + 1, t)
    <2>1. CASE Names(w[k + 1], t)
      <3>1. k + 1 \in 1..(k + 1) /\ \A j \in ((k + 1) + 1)..(k + 1) : FALSE
        OBVIOUS
      <3>2. CASE Alarming(w[k + 1])
        <4>1. FailsAt(parser, w[k + 1], t)
          BY <1>1, <2>1, <3>2 DEF Clear
        <4>. QED BY <1>2, <4>1 DEF Tells, LastNamed
      <3>3. CASE ~Alarming(w[k + 1])
        BY <2>1, <3>1, <3>3 DEF LastNamed, LastSaid
      <3>. QED BY <3>2, <3>3
    <2>2. CASE ~Names(w[k + 1], t) /\ t \in DOMAIN a.sm /\ b.sm[t] = a.sm[t]
      <3>1. LastNamed(a, w, k, t)
        BY <2>2 DEF Tracked
      <3>2. CASE a.sm[t] \in {"FAILED", "ERROR"}
        BY <2>2, <3>2 DEF LastNamed
      <3>3. CASE LastSaid(w, k, t)
        <4>1. PICK m \in 1..k : /\ Names(w[m], t) /\ \A j \in (m + 1)..k : ~Names(w[j], t)
                                /\ ~Alarming(w[m])
          BY <3>3 DEF LastSaid
        <4>2. m \in 1..(k + 1) /\ \A j \in (m + 1)..(k + 1) : j \in (m + 1)..k \/ j = k + 1
          OBVIOUS
        <4>3. \A j \in (m + 1)..(k + 1) : ~Names(w[j], t)
          BY <2>2, <4>1, <4>2
        <4>. QED BY <4>1, <4>2, <4>3 DEF LastNamed, LastSaid
      <3>. QED BY <3>1, <3>2, <3>3 DEF LastNamed
    <2>3. CASE /\ ~Names(w[k + 1], t) /\ parser = "django" /\ w[k + 1] # <<>>
               /\ w[k + 1][1] = "ok" /\ ~Begun(w[k + 1]) /\ t = a.prev /\ t # NoTest
      <3>1. LastBegun(a, w, k)
        BY <2>3 DEF Tracked
      <3>2. PICK g \in 1..k : Begun(w[g]) /\ t = w[g][1] /\ \A j \in (g + 1)..k : ~Begun(w[j])
        BY <2>3, <3>1 DEF LastBegun
      <3>3. Names(w[g], t)
        <4>1. g \in 1..Len(w)
          BY <1>1
        <4>2. w[g] \in Seq(Vocab)
          BY <4>1, ElementOfSeq
        <4>3. Len(w[g]) \in Nat /\ Len(w[g]) >= 3
          BY <3>2, <4>2, LineFacts DEF Begun
        <4>. QED BY <3>2, <4>2, <4>3, LineFacts
      <3>4. PICK m \in 1..k : g <= m /\ Names(w[m], t) /\ \A j \in (m + 1)..k : ~Names(w[j], t)
        BY <3>3, LastNaming
      <3>5. m \in 1..(k + 1) /\ \A j \in (m + 1)..(k + 1) : j \in (m + 1)..k \/ j = k + 1
        OBVIOUS
      <3>6. \A j \in (m + 1)..(k + 1) : ~Names(w[j], t)
        BY <2>3, <3>4, <3>5
      <3>7. ASSUME Alarming(w[m]) PROVE FALSE
        <4>1. m \in DOMAIN w /\ k + 1 \in DOMAIN w /\ m < k + 1
          BY <1>1
        <4>2. PICK h \in (m + 1)..(k + 1) : Begun(w[h])
          BY <2>3, <3>4, <3>7, <4>1 DEF Clear
        <4>3. h # k + 1
          BY <2>3, <4>2
        <4>4. h \in (g + 1)..k
          BY <3>4, <4>3
        <4>. QED BY <3>2, <4>2, <4>4
      <3>. QED BY <3>4, <3>5, <3>6, <3>7 DEF LastNamed, LastSaid
    <2>4. CASE b.sm[t] \in {"FAILED", "ERROR"}
      BY <2>4 DEF LastNamed
    <2>. QED BY <1>2, <1>4, <2>1, <2>2, <2>3, <2>4
  <1>. QED BY <1>3, <1>4 DEF Tracked

(* All of them. *)
LEMMA ReadTracks ==
  ASSUME NEW parser \in Parsers, NEW w \in Seq(Seq(Vocab)), NEW ts, Clear(parser, w, ts)
  PROVE  Tracked(parser, ReadLines(parser, w), w, Len(w), ts)
  <1>1. PICK c : ParseRuns(c, parser, w) /\ ReadLines(parser, w) = c[Len(w)]
    BY FromLines
  <1>2. PICK n : n = Len(w)
    OBVIOUS
  <1>3. n \in Nat /\ \A i \in 1..n : w[i] \in Seq(Vocab)
    BY <1>2, LenProperties, ElementOfSeq
  <1>4. /\ c \in [0..n -> Accs] /\ c[0] = Blank
        /\ \A k \in 1..n : c[k] = ParseLine(parser, c[k - 1], w[k])
    BY <1>1, <1>2 DEF ParseRuns
  <1>. DEFINE S == {k \in Nat : k <= n => Tracked(parser, c[k], w, k, ts)}
  <1>5. 0 \in S
    <2>1. DOMAIN Blank.sm = {} /\ Blank.prev = NoTest
      BY BlankIs
    <2>. QED BY <1>4, <2>1 DEF Tracked, LastBegun
  <1>6. ASSUME NEW k \in Nat, k \in S PROVE k + 1 \in S
    <2>1. SUFFICES ASSUME k + 1 <= n PROVE Tracked(parser, c[k + 1], w, k + 1, ts)
      OBVIOUS
    <2>2. k + 1 \in 1..n /\ (k + 1) - 1 = k /\ k \in 0..n
      BY <1>3, <2>1
    <2>3. PICK a, b : a = c[k] /\ b = c[k + 1]
      OBVIOUS
    <2>4. a \in Accs /\ w[k + 1] \in Seq(Vocab) /\ b = ParseLine(parser, a, w[k + 1])
      BY <1>3, <1>4, <2>2, <2>3
    <2>5. Steps(parser, a, w[k + 1], b)
      BY <2>4, ParseStep
    <2>6. Tracked(parser, a, w, k, ts)
      BY <1>3, <1>6, <2>2, <2>3
    <2>7. k + 1 <= Len(w)
      BY <1>2, <2>1
    <2>8. Tracked(parser, b, w, k + 1, ts)
      BY <2>5, <2>6, <2>7, TrackStep
    <2>. QED BY <2>3, <2>8
  <1>. HIDE DEF S
  <1>7. n \in S
    BY <1>3, <1>5, <1>6, Induct
  <1>8. n <= n
    BY <1>3
  <1>. QED BY <1>1, <1>2, <1>3, <1>7, <1>8 DEF S

(* So what is known at the end of a test that has not failed was said last, *)
(* also of one that was interrupted and resumed.                            *)
LEMMA ParsedSaid ==
  ASSUME NEW parser \in Parsers, NEW w \in Seq(Seq(Vocab)), NEW ts, Clear(parser, w, ts),
         NEW t \in ts, t \in DOMAIN Parsed(parser, w).sm,
         Parsed(parser, w).sm[t] \notin {"FAILED", "ERROR"}
  PROVE  LastSaid(w, Len(w), t)
  <1>1. PICK a, e : a = ReadLines(parser, w) /\ e = Parsed(parser, w)
    OBVIOUS
  <1>2. Tracked(parser, a, w, Len(w), ts)
    BY <1>1, ReadTracks
  <1>3. ASSUME t \in DOMAIN a.sm, e.sm[t] = a.sm[t] PROVE LastSaid(w, Len(w), t)
    BY <1>1, <1>2, <1>3 DEF Tracked, LastNamed
  <1>4. CASE parser # "django"
    <2>1. e = a
      BY <1>1, <1>4 DEF Parsed
    <2>. QED BY <1>1, <1>3, <2>1
  <1>5. CASE parser = "django"
    <2>1. PICK f : f = [u \in DOMAIN a.sm \cup Resumed(w) |->
                          IF u \in Resumed(w) THEN "PASSED" ELSE a.sm[u]]
      OBVIOUS
    <2>2. e.sm = f
      <3>1. a \in Accs
        <4>1. PICK c : ParseRuns(c, parser, w) /\ ReadLines(parser, w) = c[Len(w)]
          BY FromLines
        <4>2. Len(w) \in Nat
          BY LenProperties
        <4>3. Len(w) \in 0..Len(w)
          BY <4>2
        <4>. QED BY <1>1, <4>1, <4>3 DEF ParseRuns
      <3>2. e = [a EXCEPT !.sm = f]
        BY <1>1, <1>5, <2>1 DEF Parsed, Closing
      <3>. QED BY <3>1, <3>2 DEF Accs
    <2>3. CASE t \notin Resumed(w)
      <3>1. t \in DOMAIN a.sm /\ e.sm[t] = a.sm[t]
        BY <1>1, <2>1, <2>2, <2>3
      <3>. QED BY <1>3, <3>1
    <2>4. CASE t \in Resumed(w)
      <3>1. PICK g \in Interrupted(w) : w[g][1] = t
        BY <2>4 DEF Resumed
      <3>2. PICK n : n = Len(w)
        OBVIOUS
      <3>3. n \in Nat /\ DOMAIN w = 1..n /\ g \in 1..n /\ Begun(w[g])
        BY <3>1, <3>2, LenProperties DEF Interrupted
      <3>4. Names(w[g], t)
        <4>1. w[g] \in Seq(Vocab)
          BY <3>2, <3>3, ElementOfSeq
        <4>2. Len(w[g]) \in Nat /\ Len(w[g]) >= 3
          BY <3>3, <4>1, LineFacts DEF Begun
        <4>. QED BY <3>1, <4>1, <4>2, LineFacts
      <3>5. PICK m \in 1..n : g <= m /\ Names(w[m], t) /\ \A j \in (m + 1)..n : ~Names(w[j], t)
        BY <3>3, <3>4, LastNaming
      <3>6. ~(m < g)
        BY <3>3, <3>5
      <3>7. ~Alarming(w[m])
        BY <1>5, <3>1, <3>3, <3>5, <3>6 DEF Clear
      <3>. QED BY <3>2, <3>5, <3>7 DEF LastSaid
    <2>. QED BY <2>3, <2>4
  <1>. QED BY <1>4, <1>5

-----------------------------------------------------------------------------
(* From what a parser knows to the verdict. *)

(* No test of a set fails when their rate is 1. *)
LEMMA FullRate ==
  ASSUME NEW cases, IsFiniteSet(cases), NEW sm,
         Rate(Split(cases, sm)).num = Rate(Split(cases, sm)).den
  PROVE  \A t \in cases : t \in DOMAIN sm /\ sm[t] \notin {"FAILED", "ERROR"}
  <1>1. PICK good, bad : /\ good = {c \in cases : TestPassed(c, sm)}
                         /\ bad = {c \in cases : ~TestPassed(c, sm) /\ TestFailed(c, sm)}
    OBVIOUS
  <1>2. IsFiniteSet(good) /\ IsFiniteSet(bad)
    BY <1>1, FS_Subset
  <1>3. PICK g, b : g = Cardinality(good) /\ b = Cardinality(bad)
    OBVIOUS
  <1>4. g \in Nat /\ b \in Nat /\ (b = 0 <=> bad = {})
    BY <1>2, <1>3, FS_CardinalityType, FS_EmptySet
  <1>5. Split(cases, sm) = [success |-> good, failure |-> bad]
    BY <1>1 DEF Split
  <1>6. b = 0
    <2>1. CASE g + b = 0
      BY <1>4, <2>1
    <2>2. CASE g + b # 0
      <3>1. Rate(Split(cases, sm)) = [num |-> g, den |-> g + b]
        BY <1>3, <1>5, <2>2 DEF Rate
      <3>2. g = g + b
        BY <3>1
      <3>. QED BY <1>4, <3>2
    <2>. QED BY <2>1, <2>2
  <1>7. ASSUME NEW t \in cases PROVE t \in DOMAIN sm /\ sm[t] \notin {"FAILED", "ERROR"}
    <2>1. TestPassed(t, sm) \/ ~TestFailed(t, sm)
      BY <1>1, <1>4, <1>6
    <2>. QED BY <2>1 DEF TestPassed, TestFailed
  <1>. QED BY <1>7

(* What is read of a log that is resolved. *)
LEMMA ResolvedRead ==
  ASSUME NEW i \in Instances, NEW ls, NEW e, e = LogsEval(TestParser[i], RepoParser[i], ls),
         Resolved(e, F2P[i], P2P[i])
  PROVE  /\ IsRead(i, ls) /\ e.sm = Parsed(ParserOf(i), PartRead(i, ls)).sm
         /\ \A t \in MustPass(i) : t \in DOMAIN e.sm /\ e.sm[t] \notin {"FAILED", "ERROR"}
  <1>1. e.found /\ ResolutionStatus(Report(F2P[i], P2P[i], e.sm)) = "FULL"
    BY DEF Resolved
  <1>2. /\ Rate(Split(F2P[i], e.sm)).num = Rate(Split(F2P[i], e.sm)).den
        /\ Rate(Split(P2P[i], e.sm)).num = Rate(Split(P2P[i], e.sm)).den
    BY <1>1 DEF ResolutionStatus, Report
  <1>3. IsFiniteSet(F2P[i]) /\ IsFiniteSet(P2P[i])
    BY EvalAssumption
  <1>4. \A t \in MustPass(i) : t \in DOMAIN e.sm /\ e.sm[t] \notin {"FAILED", "ERROR"}
    BY <1>2, <1>3, FullRate DEF MustPass
  <1>5. CASE TestParser[i] = "pytest"
    <2>1. e = IF Mentions(ls, "patch applied okay") THEN Reading(Parsed("pytest", ls)) ELSE Unread
      BY <1>5 DEF LogsEval
    <2>2. Mentions(ls, "patch applied okay")
      <3>1. ASSUME ~Mentions(ls, "patch applied okay") PROVE FALSE
        <4>1. e = Unread
          BY <2>1, <3>1
        <4>. QED BY <1>1, <4>1 DEF Unread
      <3>. QED BY <3>1
    <2>3. e.sm = Parsed("pytest", ls).sm
      <3>1. e = Reading(Parsed("pytest", ls))
        BY <2>1, <2>2
      <3>. QED BY <3>1 DEF Reading
    <2>. QED BY <1>4, <1>5, <2>2, <2>3 DEF IsRead, ParserOf, PartRead
  <1>6. CASE TestParser[i] = "none"
    <2>1. e = IF Applied(ls) THEN Reading(Parsed(RepoParser[i], AfterPatch(ls))) ELSE Unread
      BY <1>6 DEF LogsEval
    <2>2. Applied(ls)
      BY <1>1, <2>1 DEF Unread
    <2>3. e.sm = Parsed(RepoParser[i], AfterPatch(ls)).sm
      BY <2>1, <2>2 DEF Reading
    <2>. QED BY <1>4, <1>6, <2>2, <2>3 DEF IsRead, ParserOf, PartRead
  <1>7. CASE TestParser[i] \notin {"pytest", "none"}
    <2>1. e = [Unread EXCEPT !.err = TRUE]
      BY <1>7 DEF LogsEval
    <2>. QED BY <1>1, <2>1 DEF Unread
  <1>. QED BY <1>5, <1>6, <1>7

(* The part that is read is the end of the log. *)
EndOf(w, ls, s) ==
  /\ w \in Seq(Seq(Vocab)) /\ s \in Nat /\ Len(w) \in Nat /\ Len(ls) = s + Len(w)
  /\ DOMAIN ls = 1..Len(ls) /\ \A m \in 1..Len(w) : w[m] = ls[s + m]

(* It is after the last mark of the patch. *)
LEMMA ReadIsEnd ==
  ASSUME NEW i, NEW ls \in Logs
  PROVE  \E s : EndOf(PartRead(i, ls), ls, s)
  <1>1. ls \in Seq(Seq(Vocab))
    <2>1. ls \in Seq(Seq(LogWords))
      BY EvalAssumption
    <2>2. LogWords \subseteq Vocab
      BY DEF Vocab
    <2>3. Seq(LogWords) \subseteq Seq(Vocab)
      BY <2>2
    <2>4. Seq(Seq(LogWords)) \subseteq Seq(Seq(Vocab))
      BY <2>3
    <2>. QED BY <2>1, <2>4
  <1>2. Len(ls) \in Nat /\ DOMAIN ls = 1..Len(ls)
    BY <1>1, LenProperties
  <1>3. CASE TestParser[i] = "pytest"
    <2>1. PartRead(i, ls) = ls
      BY <1>3 DEF PartRead
    <2>2. Len(ls) = 0 + Len(ls) /\ \A m \in 1..Len(ls) : ls[m] = ls[0 + m]
      BY <1>2
    <2>. QED BY <1>1, <1>2, <2>1, <2>2 DEF EndOf
  <1>4. CASE TestParser[i] # "pytest"
    <2>1. PICK marks : marks = {k \in DOMAIN ls : ls[k] = <<"Applied Patch", "(pred)">>}
      OBVIOUS
    <2>2. PICK n, s : n = Len(ls) /\ s = IF marks = {} THEN 0 ELSE Max(marks)
      OBVIOUS
    <2>3. n \in Nat /\ s \in 0..n
      <3>0. marks \in SUBSET DOMAIN ls
        BY <2>1
      <3>1. marks \in SUBSET (1..n) /\ n \in Int
        BY <1>2, <2>2, <3>0
      <3>2. marks # {} => Max(marks) \in marks
        BY <3>1, MaxFacts
      <3>. QED BY <1>2, <2>2, <3>1, <3>2
    <2>4. PICK w : w = PartRead(i, ls)
      OBVIOUS
    <2>5. w = SubSeq(ls, s + 1, n)
      BY <1>4, <2>1, <2>2, <2>4 DEF PartRead, AfterPatch
    <2>6. /\ w \in Seq(Seq(Vocab))
          /\ Len(w) = n - s
          /\ \A m \in 1..(n - s) : w[m] = ls[s + m]
      <3>1. PICK f : f = s + 1
        OBVIOUS
      <3>2. f \in Int /\ n \in Int /\ \A j \in f..n : ls[j] \in Seq(Vocab)
        <4>1. \A j \in 1..n : ls[j] \in Seq(Vocab)
          BY <1>1, <2>2, ElementOfSeq
        <4>. QED BY <2>3, <3>1, <4>1
      <3>3. w = SubSeq(ls, f, n)
        BY <2>5, <3>1
      <3>4. /\ w \in Seq(Seq(Vocab))
            /\ Len(w) = IF f <= n THEN n - f + 1 ELSE 0
            /\ \A m \in 1..(n - f + 1) : w[m] = ls[f + m - 1]
        BY ONLY <3>2, <3>3, SubSeqProperties
      <3>5. n - f + 1 = n - s /\ (~(f <= n) => n - s = 0)
            /\ \A m \in 1..(n - s) : f + m - 1 = s + m
        BY <2>3, <3>1
      <3>. QED BY <3>4, <3>5
    <2>7. n - s \in Nat /\ n = s + (n - s) /\ s \in Nat
      BY <2>3
    <2>8. EndOf(w, ls, s)
      BY <1>2, <2>2, <2>6, <2>7 DEF EndOf
    <2>. QED BY <2>4, <2>8
  <1>. QED BY <1>3, <1>4

(* A test that must pass is named, and no word of failure is in the last line *)
(* that names it.                                                             *)
LEMMA ResolvedSaid ==
  ASSUME ClearLogs, NEW i \in Instances, NEW ls \in Logs,
         Resolved(LogsEval(TestParser[i], RepoParser[i], ls), F2P[i], P2P[i]), NEW t \in MustPass(i)
  PROVE  Said(ls, t) # {} /\ Said(ls, t) \cap Alarms = {}
  <1>1. PICK e, w, p : /\ e = LogsEval(TestParser[i], RepoParser[i], ls)
                       /\ w = PartRead(i, ls) /\ p = ParserOf(i)
    OBVIOUS
  <1>2. /\ IsRead(i, ls) /\ e.sm = Parsed(p, w).sm
        /\ t \in DOMAIN e.sm /\ e.sm[t] \notin {"FAILED", "ERROR"}
    <2>1. Resolved(e, F2P[i], P2P[i])
      BY <1>1
    <2>. QED BY <1>1, <2>1, ResolvedRead
  <1>3. PICK s : EndOf(w, ls, s)
    BY <1>1, ReadIsEnd
  <1>4. Clear(p, w, MustPass(i))
    BY <1>1, <1>2 DEF ClearLogs
  <1>5. p \in Parsers
    BY <1>1, EvalAssumption DEF ParserOf, Parsers
  <1>6. w \in Seq(Seq(Vocab))
    BY <1>3 DEF EndOf
  <1>7. LastSaid(w, Len(w), t)
    BY <1>2, <1>4, <1>5, <1>6, ParsedSaid
  <1>9. PICK m \in 1..Len(w) : /\ Names(w[m], t) /\ \A j \in (m + 1)..Len(w) : ~Names(w[j], t)
                               /\ ~Alarming(w[m])
    BY <1>7 DEF LastSaid
  <1>10. ~Alarming(w[m])
    BY <1>9
  <1>11. PICK n, o : n = Len(ls) /\ o = Len(w)
    OBVIOUS
  <1>12. /\ s \in Nat /\ o \in Nat /\ n = s + o /\ DOMAIN ls = 1..n
         /\ \A j \in 1..o : w[j] = ls[s + j]
    BY <1>3, <1>11 DEF EndOf
  <1>13. PICK l : l = s + m
    OBVIOUS
  <1>14. m \in 1..o /\ l \in 1..n /\ ls[l] = w[m]
    BY <1>9, <1>11, <1>12, <1>13
  <1>15. ASSUME NEW j \in 1..n, j > l PROVE ~Names(ls[j], t)
    <2>1. j - s \in (m + 1)..o /\ j - s \in 1..o /\ s + (j - s) = j
      BY <1>12, <1>13, <1>14, <1>15
    <2>2. ls[j] = w[j - s]
      BY <1>12, <2>1
    <2>. QED BY <1>9, <1>11, <2>1, <2>2
  <1>16. PICK about : about = {j \in DOMAIN ls : Names(ls[j], t)}
    OBVIOUS
  <1>17. l \in about /\ about \in SUBSET (1..n) /\ \A j \in about : Names(ls[j], t)
    BY <1>9, <1>12, <1>14, <1>16
  <1>18. Max(about) = l
    <2>1. n \in Int /\ about # {}
      BY <1>12, <1>17
    <2>2. Max(about) \in about /\ \A x \in about : x <= Max(about)
      BY <1>17, <2>1, MaxFacts
    <2>3. PICK x : x = Max(about)
      OBVIOUS
    <2>4. x \in 1..n /\ l <= x /\ ~(x > l)
      BY <1>15, <1>17, <2>2, <2>3
    <2>5. x = l
      BY <1>14, <2>4
    <2>. QED BY <2>3, <2>5
  <1>19. Said(ls, t) = {ls[l][k] : k \in DOMAIN ls[l]}
    <2>1. Said(ls, t) = IF about = {} THEN {} ELSE {ls[Max(about)][k] : k \in DOMAIN ls[Max(about)]}
      BY <1>16 DEF Said
    <2>. QED BY <1>17, <1>18, <2>1
  <1>20. Said(ls, t) # {}
    BY <1>9, <1>14, <1>19 DEF Names
  <1>21. Said(ls, t) \cap Alarms = {}
    BY <1>10, <1>14, <1>19 DEF Alarming
  <1>. QED BY <1>20, <1>21

-----------------------------------------------------------------------------
(***************************************************************************)
(* The invariant: from the patch file to the sandbox, to the tree, to the  *)
(* log, to the verdict, what belongs to a job is its own, unless it ran    *)
(* beside another of its instance, as all of that instance that run at     *)
(* once have.  While commands that failed are behind it, the tree of a     *)
(* patch that patch(1) takes whole is clean.                               *)
(***************************************************************************)
OnJobs(f) == f = [j \in Jobs |-> f[j]]
OnInstances(f) == f = [i \in Instances |-> f[i]]
EarnedShape ==
  /\ OnJobs(at) /\ OnJobs(mine) /\ OnJobs(files) /\ OnJobs(log) /\ OnJobs(outcome)
  /\ OnInstances(patchFile) /\ OnInstances(logFile)
  /\ cmd \in [Jobs -> Nat \ {0}]

Passes(j, lines) ==
  Resolved(LogsEval(TestParser[InstanceOf[j]], RepoParser[InstanceOf[j]], lines),
           F2P[InstanceOf[j]], P2P[InstanceOf[j]])
OwnPatch(j) ==
  /\ at[j] = "read" => patchFile[InstanceOf[j]] = j
  /\ at[j] \in {"create", "init", "apply", "run", "report"} => mine[j] = j
OwnTree(j) ==
  /\ at[j] \in {"queued", "read", "create", "init"} => files[j] = {}
  /\ at[j] = "apply" => files[j] \subseteq Loose[j] /\ (Loose[j] = Files[j] => files[j] = {})
  /\ at[j] \in {"run", "report"} => files[j] = Files[j]
OwnLog(j) ==
  /\ at[j] \in {"queued", "read", "create", "init", "apply", "run"} => log[j] = NoLog
  /\ at[j] = "report" =>
       logFile[InstanceOf[j]] = log[j] /\ log[j].files = Files[j] /\ log[j].lines \in Logs
OwnPass(j) ==
  at[j] \in {"returned", "recorded"} /\ outcome[j] = "pass" /\ log[j] # NoLog =>
    mine[j] = j /\ log[j].files = Files[j] /\ log[j].lines \in Logs /\ Passes(j, log[j].lines)
Earning(j) == OwnPatch(j) /\ OwnTree(j) /\ OwnLog(j) /\ OwnPass(j)
Apart ==
  \A j, k \in Active : j # k /\ InstanceOf[j] = InstanceOf[k] => j \in met /\ k \in met
EarnedInv ==
  /\ dataset \in SUBSET Jobs /\ EarnedShape /\ Apart
  /\ \A j \in Jobs : j \in met \/ Earning(j)

(* What the invariant says of a job is as it was. *)
Unmoved(j) ==
  /\ at'[j] = at[j] /\ mine'[j] = mine[j] /\ files'[j] = files[j]
  /\ log'[j] = log[j] /\ outcome'[j] = outcome[j]
Untouched(j) ==
  /\ Unmoved(j)
  /\ j \in Active =>
       /\ patchFile'[InstanceOf[j]] = patchFile[InstanceOf[j]]
       /\ logFile'[InstanceOf[j]] = logFile[InstanceOf[j]]

(* The files of an instance are written by a job that starts or runs. *)
Ended == {"returned", "recorded"}
SharedKept(k) ==
  /\ met' = met /\ patchFile' = patchFile
  /\ at[k] = "queued" => at'[k] \in Ended
  /\ at[k] \in Ended => at'[k] \in Ended
  /\ \/ logFile' = logFile
     \/ at[k] = "run" /\ \E v : logFile' = [logFile EXCEPT ![InstanceOf[k]] = v]

(* A step of a job keeps the shapes and does not move the others. *)
LEMMA OneJobMoves ==
  ASSUME EarnedShape, NEW k \in Jobs, EvalJob(k)
  PROVE  /\ EarnedShape' /\ \A j \in Jobs \ {k} : Unmoved(j)
         /\ WritePatch(k) \/ SharedKept(k)
  <1>1. InstanceOf[k] \in Instances
    BY DEF Instances
  <1>3. CASE Cached(k)
    BY <1>3 DEF Cached, Goes, EarnedShape, OnJobs, OnInstances, Unmoved, SharedKept, Ended
  <1>4. CASE WritePatch(k)
    BY <1>1, <1>4 DEF WritePatch, Goes, EarnedShape, OnJobs, OnInstances, Unmoved
  <1>5. CASE ReadPatch(k)
    BY <1>5 DEF ReadPatch, Goes, EarnedShape, OnJobs, OnInstances, Unmoved, SharedKept, Ended
  <1>6. CASE Create(k)
    BY <1>6 DEF Create, Goes, EarnedShape, OnJobs, OnInstances, Unmoved, SharedKept, Ended
  <1>7. CASE InitCommands(k)
    BY <1>7
    DEF InitCommands, Goes, Returns, EarnedShape, OnJobs, OnInstances, Unmoved, SharedKept, Ended
  <1>8. CASE EnvError(k)
    BY <1>8 DEF EnvError, Returns, EarnedShape, OnJobs, OnInstances, Unmoved, SharedKept, Ended
  <1>9. CASE ApplyPatch(k)
    <2>1. /\ files' = [files EXCEPT ![k] = AfterCmd(ApplyCmds[cmd[k]], mine[k], @)]
          /\ UNCHANGED <<patchFile, logFile, mine, log, outcome, met>> /\ at[k] = "apply"
          /\ \/ at' = [at EXCEPT ![k] = "run"] /\ cmd' = cmd
             \/ at' = at /\ cmd' = [cmd EXCEPT ![k] = @ + 1]
      BY <1>9 DEF ApplyPatch, Goes
    <2>2. cmd' \in [Jobs -> Nat \ {0}]
      BY <2>1 DEF EarnedShape
    <2>. QED BY <2>1, <2>2 DEF EarnedShape, OnJobs, OnInstances, Unmoved, SharedKept, Ended
  <1>10. CASE NotApplied(k)
    BY <1>10 DEF NotApplied, Returns, EarnedShape, OnJobs, OnInstances, Unmoved, SharedKept, Ended
  <1>11. CASE RunScript(k)
    <2>1. EarnedShape' /\ \A j \in Jobs \ {k} : Unmoved(j)
      BY <1>1, <1>11 DEF RunScript, WriteLog, Returns, EarnedShape, OnJobs, OnInstances, Unmoved
    <2>2. /\ met' = met /\ patchFile' = patchFile /\ at[k] = "run"
          /\ \E v : logFile' = [logFile EXCEPT ![InstanceOf[k]] = v]
      BY <1>11 DEF RunScript, WriteLog
    <2>. QED BY <2>1, <2>2 DEF SharedKept, Ended
  <1>12. CASE MakeReport(k)
    BY <1>12 DEF MakeReport, Returns, EarnedShape, OnJobs, OnInstances, Unmoved, SharedKept, Ended
  <1>13. CASE Record(k)
    BY <1>13 DEF Record, Goes, EarnedShape, OnJobs, OnInstances, Unmoved, SharedKept, Ended
  <1>. QED BY <1>3, <1>4, <1>5, <1>6, <1>7, <1>8, <1>9, <1>10, <1>11, <1>12, <1>13 DEF EvalJob

(* Nor does it touch one that does not run beside another of its instance. *)
LEMMA OneJobSteps ==
  ASSUME EarnedShape, Apart, NEW k \in Jobs, EvalJob(k)
  PROVE  /\ EarnedShape' /\ Apart' /\ met \subseteq met'
         /\ \A j \in Jobs \ {k} : j \in met' \/ Untouched(j)
  <1>1. /\ EarnedShape' /\ \A j \in Jobs \ {k} : Unmoved(j)
        /\ WritePatch(k) \/ SharedKept(k)
    BY OneJobMoves
  <1>2. \A j \in Jobs : j # k => (j \in Active' <=> j \in Active)
    BY <1>1 DEF Unmoved, Active
  <1>3. Active \subseteq Jobs /\ Active' \subseteq Jobs
    BY DEF Active
  <1>4. \A j \in Jobs : InstanceOf[j] \in Instances
    BY DEF Instances
  <1>5. OnInstances(patchFile) /\ OnInstances(logFile)
    BY DEF EarnedShape
  <1>6. CASE WritePatch(k)
    <2>1. /\ met' = IF Beside(k) = {} THEN met ELSE met \cup Beside(k) \cup {k}
          /\ patchFile' = [patchFile EXCEPT ![InstanceOf[k]] = k] /\ logFile' = logFile
          /\ at[k] = "queued"
      BY <1>6 DEF WritePatch, Goes
    <2>2. met \subseteq met' /\ k \notin Active
      BY <2>1 DEF Active
    <2>3. ASSUME NEW j \in Active, InstanceOf[j] = InstanceOf[k] PROVE j \in met' /\ k \in met'
      <3>1. j \in Beside(k)
        BY <2>3 DEF Beside
      <3>. QED BY <2>1, <3>1
    <2>4. Apart'
      <3>1. ASSUME NEW j \in Active', NEW l \in Active', j # l, InstanceOf[j] = InstanceOf[l]
            PROVE  j \in met' /\ l \in met'
        <4>1. CASE j = k
          BY <1>2, <1>3, <2>3, <3>1, <4>1
        <4>2. CASE l = k
          BY <1>2, <1>3, <2>3, <3>1, <4>2
        <4>3. CASE j # k /\ l # k
          BY <1>2, <1>3, <2>2, <3>1, <4>3 DEF Apart
        <4>. QED BY <4>1, <4>2, <4>3
      <3>. QED BY <3>1 DEF Apart
    <2>5. ASSUME NEW j \in Jobs \ {k}, j \notin met' PROVE Untouched(j)
      <3>1. j \in Active => InstanceOf[j] # InstanceOf[k]
        BY <2>3, <2>5
      <3>2. j \in Active => patchFile'[InstanceOf[j]] = patchFile[InstanceOf[j]]
        BY <1>4, <1>5, <2>1, <3>1 DEF OnInstances
      <3>. QED BY <1>1, <2>1, <3>2 DEF Untouched
    <2>. QED BY <1>1, <2>2, <2>4, <2>5
  <1>7. CASE SharedKept(k)
    <2>1. met' = met /\ patchFile' = patchFile /\ (k \in Active' => k \in Active)
      BY <1>7 DEF SharedKept, Active, Ended
    <2>2. Active' \subseteq Active
      BY <1>2, <1>3, <2>1
    <2>3. Apart'
      BY <2>1, <2>2 DEF Apart
    <2>4. ASSUME NEW j \in Jobs \ {k}, j \notin met' PROVE Untouched(j)
      <3>1. CASE logFile' = logFile
        BY <1>1, <2>1, <3>1 DEF Untouched
      <3>2. CASE at[k] = "run" /\ \E v : logFile' = [logFile EXCEPT ![InstanceOf[k]] = v]
        <4>1. k \in Active
          BY <3>2 DEF Active
        <4>2. j \in Active => InstanceOf[j] # InstanceOf[k]
          BY <2>1, <2>4, <4>1 DEF Apart
        <4>3. j \in Active => logFile'[InstanceOf[j]] = logFile[InstanceOf[j]]
          BY <1>4, <1>5, <3>2, <4>2 DEF OnInstances
        <4>. QED BY <1>1, <2>1, <4>3 DEF Untouched
      <3>. QED BY <1>7, <3>1, <3>2 DEF SharedKept
    <2>. QED BY <1>1, <2>1, <2>3, <2>4
  <1>. QED BY <1>1, <1>6, <1>7

(* What is not touched keeps the invariant. *)
LEMMA UntouchedEarns ==
  ASSUME NEW j \in Jobs, Earning(j), Untouched(j)
  PROVE  Earning(j)'
  <1>1. at[j] \in {"read", "report"} => j \in Active
    BY DEF Active
  <1>. QED BY <1>1 DEF Earning, OwnPatch, OwnTree, OwnLog, OwnPass, Untouched, Unmoved

(* A command that fails leaves the tree of a patch that patch(1) takes whole *)
(* clean, one that succeeds leaves all of the patch.                         *)
LEMMA CommandStep ==
  ASSUME WholePatches, NEW j \in Jobs, NEW kind \in {"git", "reject", "batch", "forward"}, NEW t,
         t \subseteq Loose[j], Loose[j] = Files[j] => t = {}
  PROVE  /\ Succeeds(kind, j, t) => AfterCmd(kind, j, t) = Files[j]
         /\ ~Succeeds(kind, j, t) =>
              /\ AfterCmd(kind, j, t) \subseteq Loose[j]
              /\ Loose[j] = Files[j] => AfterCmd(kind, j, t) = {}
  <1>1. /\ Strict[j] \subseteq Loose[j] /\ Loose[j] \subseteq Files[j]
        /\ Loose[j] = Files[j] => Strict[j] \in {{}, Files[j]}
    BY EvalAssumption DEF WholePatches
  <1>2. CASE kind = "git"
    BY <1>1, <1>2 DEF Succeeds, AfterCmd
  <1>3. CASE kind = "reject"
    BY <1>1, <1>3 DEF Succeeds, AfterCmd
  <1>4. CASE kind = "batch"
    BY <1>1, <1>4 DEF Succeeds, AfterCmd
  <1>5. CASE kind = "forward"
    BY <1>1, <1>5 DEF Succeeds, AfterCmd
  <1>. QED BY <1>2, <1>3, <1>4, <1>5

(* A step of the job itself. *)
LEMMA OwnJobStep ==
  ASSUME WholePatches, EarnedShape, NEW j \in Jobs, Earning(j), EvalJob(j)
  PROVE  Earning(j)'
  <1>1. InstanceOf[j] \in Instances
    BY DEF Instances
  <1>2. CASE Cached(j)
    <2>1. at[j] = "queued" /\ at'[j] = "returned" /\ log'[j] = log[j]
      BY <1>2 DEF Cached, Goes, EarnedShape, OnJobs
    <2>. QED BY <2>1 DEF Earning, OwnPatch, OwnTree, OwnLog, OwnPass
  <1>3. CASE WritePatch(j)
    <2>1. /\ at[j] = "queued" /\ at'[j] = "read" /\ patchFile'[InstanceOf[j]] = j
          /\ log'[j] = log[j] /\ files'[j] = files[j]
      BY <1>1, <1>3 DEF WritePatch, Goes, EarnedShape, OnJobs, OnInstances
    <2>. QED BY <2>1 DEF Earning, OwnPatch, OwnTree, OwnLog, OwnPass
  <1>4. CASE ReadPatch(j)
    <2>1. /\ at[j] = "read" /\ at'[j] = "create" /\ mine'[j] = patchFile[InstanceOf[j]]
          /\ log'[j] = log[j] /\ files'[j] = files[j]
      BY <1>4 DEF ReadPatch, Goes, EarnedShape, OnJobs
    <2>. QED BY <2>1 DEF Earning, OwnPatch, OwnTree, OwnLog, OwnPass
  <1>5. CASE Create(j)
    <2>1. /\ at[j] = "create" /\ at'[j] \in {"init", "apply"}
          /\ mine'[j] = mine[j] /\ log'[j] = log[j] /\ files'[j] = files[j]
      BY <1>5 DEF Create, Goes, EarnedShape, OnJobs
    <2>. QED BY <2>1 DEF Earning, OwnPatch, OwnTree, OwnLog, OwnPass
  <1>6. CASE InitCommands(j)
    <2>1. /\ at[j] = "init" /\ mine'[j] = mine[j] /\ log'[j] = log[j] /\ files'[j] = files[j]
          /\ \/ at'[j] = "apply"
             \/ at'[j] = "returned" /\ outcome'[j] = "env_error"
      BY <1>6 DEF InitCommands, Goes, Returns, EarnedShape, OnJobs
    <2>. QED BY <2>1 DEF Earning, OwnPatch, OwnTree, OwnLog, OwnPass
  <1>7. CASE EnvError(j)
    <2>1. at'[j] = "returned" /\ outcome'[j] = "env_error"
      BY <1>7 DEF EnvError, Returns, EarnedShape, OnJobs
    <2>. QED BY <2>1 DEF Earning, OwnPatch, OwnTree, OwnLog, OwnPass
  <1>8. CASE ApplyPatch(j)
    <2>1. PICK kind, t : kind = ApplyCmds[cmd[j]] /\ t = files[j]
      OBVIOUS
    <2>2. at[j] = "apply" /\ cmd[j] <= Len(ApplyCmds)
      BY <1>8 DEF ApplyPatch
    <2>3. mine[j] = j /\ t \subseteq Loose[j] /\ (Loose[j] = Files[j] => t = {}) /\ log[j] = NoLog
      BY <2>1, <2>2 DEF Earning, OwnPatch, OwnTree, OwnLog
    <2>4. /\ files'[j] = AfterCmd(kind, j, t) /\ mine'[j] = j /\ log'[j] = NoLog
          /\ IF Succeeds(kind, j, t) THEN at'[j] = "run" ELSE at'[j] = "apply"
      BY <1>8, <2>1, <2>2, <2>3 DEF ApplyPatch, Goes, EarnedShape, OnJobs
    <2>5. kind \in {"git", "reject", "batch", "forward"}
      <3>1. cmd[j] \in Nat \ {0}
        BY DEF EarnedShape
      <3>2. ApplyCmds \in Seq({"git", "reject", "batch", "forward"})
        BY EvalAssumption
      <3>3. Len(ApplyCmds) \in Nat
        BY <3>2, LenProperties
      <3>4. cmd[j] \in 1..Len(ApplyCmds)
        BY <2>2, <3>1, <3>3
      <3>. QED BY <2>1, <3>2, <3>4, ElementOfSeq
    <2>6. /\ Succeeds(kind, j, t) => AfterCmd(kind, j, t) = Files[j]
          /\ ~Succeeds(kind, j, t) =>
               /\ AfterCmd(kind, j, t) \subseteq Loose[j]
               /\ Loose[j] = Files[j] => AfterCmd(kind, j, t) = {}
      BY <2>3, <2>5, CommandStep
    <2>. QED BY <2>4, <2>6 DEF Earning, OwnPatch, OwnTree, OwnLog, OwnPass
  <1>9. CASE NotApplied(j)
    <2>1. at'[j] = "returned" /\ outcome'[j] = "fail"
      BY <1>9 DEF NotApplied, Returns, EarnedShape, OnJobs
    <2>. QED BY <2>1 DEF Earning, OwnPatch, OwnTree, OwnLog, OwnPass
  <1>10. CASE RunScript(j)
    <2>1. at[j] = "run" /\ mine[j] = j /\ files[j] = Files[j]
      BY <1>10 DEF RunScript, Earning, OwnPatch, OwnTree
    <2>2. mine'[j] = j /\ files'[j] = Files[j]
      BY <1>10, <2>1 DEF RunScript
    <2>3. CASE \E ls \in Logs :
                 /\ log' = [log EXCEPT ![j] = [of |-> mine[j], files |-> files[j], lines |-> ls]]
                 /\ WriteLog(j, "report")
      <3>1. PICK ls \in Logs :
              /\ log' = [log EXCEPT ![j] = [of |-> mine[j], files |-> files[j], lines |-> ls]]
              /\ WriteLog(j, "report")
        BY <2>3
      <3>2. log'[j] = [of |-> j, files |-> Files[j], lines |-> ls]
        BY <2>1, <3>1 DEF EarnedShape, OnJobs
      <3>3. at'[j] = "report" /\ logFile'[InstanceOf[j]] = log'[j]
        BY <1>1, <3>1 DEF WriteLog, EarnedShape, OnJobs, OnInstances
      <3>4. log'[j].files = Files[j] /\ log'[j].lines \in Logs
        BY <3>2
      <3>. QED BY <2>2, <3>3, <3>4 DEF Earning, OwnPatch, OwnTree, OwnLog, OwnPass
    <2>4. CASE Returns(j, "timeout")
      <3>1. at'[j] = "returned" /\ outcome'[j] = "timeout"
        BY <2>4 DEF Returns, EarnedShape, OnJobs
      <3>. QED BY <3>1 DEF Earning, OwnPatch, OwnTree, OwnLog, OwnPass
    <2>. QED BY <1>10, <2>3, <2>4 DEF RunScript
  <1>11. CASE MakeReport(j)
    <2>1. /\ at[j] = "report" /\ at'[j] = "returned" /\ outcome'[j] = Verdict(j)
          /\ mine'[j] = mine[j] /\ log'[j] = log[j]
      BY <1>11 DEF MakeReport, Returns, EarnedShape, OnJobs
    <2>2. /\ mine[j] = j /\ logFile[InstanceOf[j]] = log[j]
          /\ log[j].files = Files[j] /\ log[j].lines \in Logs
      BY <2>1 DEF Earning, OwnPatch, OwnLog
    <2>3. ASSUME Verdict(j) = "pass", log[j] # NoLog PROVE Passes(j, log[j].lines)
      <3>1. Resolved(ReadLog(j), F2P[InstanceOf[j]], P2P[InstanceOf[j]])
        BY <2>3 DEF Verdict
      <3>2. ReadLog(j) = LogsEval(TestParser[InstanceOf[j]], RepoParser[InstanceOf[j]], log[j].lines)
        BY <2>2, <2>3 DEF ReadLog
      <3>. QED BY <3>1, <3>2 DEF Passes
    <2>. QED BY <2>1, <2>2, <2>3 DEF Earning, OwnPatch, OwnTree, OwnLog, OwnPass
  <1>12. CASE Record(j)
    <2>1. /\ at[j] = "returned" /\ at'[j] = "recorded" /\ outcome'[j] = outcome[j]
          /\ mine'[j] = mine[j] /\ log'[j] = log[j]
      BY <1>12 DEF Record, Goes, EarnedShape, OnJobs
    <2>. QED BY <2>1 DEF Earning, OwnPatch, OwnTree, OwnLog, OwnPass
  <1>. QED BY <1>2, <1>3, <1>4, <1>5, <1>6, <1>7, <1>8, <1>9, <1>10, <1>11, <1>12 DEF EvalJob

(* Nothing is anybody's at first. *)
LEMMA EarnedInit == ASSUME EvalInit PROVE EarnedInv
  <1>1. dataset \in SUBSET Jobs
    BY EvalAssumption DEF EvalInit
  <1>2. EarnedShape /\ Apart
    BY DEF EvalInit, EarnedShape, OnJobs, OnInstances, Apart, Active
  <1>3. \A j \in Jobs : Earning(j)
    BY DEF EvalInit, Earning, OwnPatch, OwnTree, OwnLog, OwnPass
  <1>. QED BY <1>1, <1>2, <1>3 DEF EarnedInv

(* Each step keeps the invariant. *)
LEMMA EarnedNext ==
  ASSUME WholePatches, EarnedInv, [EvalNext]_evars
  PROVE  EarnedInv'
  <1>1. /\ dataset \in SUBSET Jobs /\ EarnedShape /\ Apart
        /\ \A j \in Jobs : j \in met \/ Earning(j)
    BY DEF EarnedInv
  <1>2. CASE RunAgain
    <2>1. /\ at' = [j \in Jobs |-> "queued"] /\ mine' = [j \in Jobs |-> NoJob]
          /\ files' = [j \in Jobs |-> {}] /\ log' = [j \in Jobs |-> NoLog]
          /\ outcome' = [j \in Jobs |-> "none"] /\ patchFile' = patchFile /\ logFile' = logFile
          /\ cmd' = [j \in Jobs |-> 1] /\ dataset' = dataset
      BY <1>2 DEF RunAgain, Forget
    <2>2. EarnedShape' /\ Apart'
      BY <1>1, <2>1 DEF EarnedShape, OnJobs, OnInstances, Apart, Active
    <2>3. \A j \in Jobs : Earning(j)'
      BY <2>1 DEF Earning, OwnPatch, OwnTree, OwnLog, OwnPass
    <2>. QED BY <1>1, <2>1, <2>2, <2>3 DEF EarnedInv
  <1>3. CASE \E k \in dataset : EvalJob(k) /\ UNCHANGED dataset
    <2>1. PICK k \in Jobs : EvalJob(k) /\ UNCHANGED dataset
      BY <1>1, <1>3
    <2>2. /\ EarnedShape' /\ Apart' /\ met \subseteq met'
          /\ \A j \in Jobs \ {k} : j \in met' \/ Untouched(j)
      BY <1>1, <2>1, OneJobSteps
    <2>3. ASSUME NEW j \in Jobs, j \notin met' PROVE Earning(j)'
      <3>1. Earning(j)
        BY <1>1, <2>2, <2>3
      <3>2. CASE j = k
        BY <1>1, <2>1, <3>1, <3>2, OwnJobStep
      <3>3. CASE j # k
        BY <2>2, <2>3, <3>1, <3>3, UntouchedEarns
      <3>. QED BY <3>2, <3>3
    <2>. QED BY <1>1, <2>1, <2>2, <2>3 DEF EarnedInv
  <1>4. CASE UNCHANGED evars
    <2>1. EarnedShape' /\ Apart' /\ dataset' = dataset /\ met' = met
      BY <1>1, <1>4 DEF evars, EarnedShape, OnJobs, OnInstances, Apart, Active
    <2>2. ASSUME NEW j \in Jobs, Earning(j) PROVE Earning(j)'
      BY <1>4, <2>2 DEF evars, Earning, OwnPatch, OwnTree, OwnLog, OwnPass
    <2>. QED BY <1>1, <2>1, <2>2 DEF EarnedInv
  <1>. QED BY <1>2, <1>3, <1>4 DEF EvalNext

(* A pass was earned. *)
LEMMA EarnedEnds == ASSUME ClearLogs, EarnedInv PROVE PassEarned
  <1>1. ASSUME NEW j \in Jobs \ met, at[j] \in {"returned", "recorded"}, outcome[j] = "pass",
               log[j] # NoLog
        PROVE  /\ mine[j] = j /\ log[j].files = Files[j]
               /\ \A t \in F2P[InstanceOf[j]] \cup P2P[InstanceOf[j]] :
                    Said(log[j].lines, t) # {} /\ Said(log[j].lines, t) \cap Alarms = {}
    <2>1. mine[j] = j /\ log[j].files = Files[j] /\ log[j].lines \in Logs /\ Passes(j, log[j].lines)
      BY <1>1 DEF EarnedInv, Earning, OwnPass
    <2>2. PICK i, ls : i = InstanceOf[j] /\ ls = log[j].lines
      OBVIOUS
    <2>3. i \in Instances /\ ls \in Logs
      BY <2>1, <2>2 DEF Instances
    <2>4. Resolved(LogsEval(TestParser[i], RepoParser[i], ls), F2P[i], P2P[i])
      BY <2>1, <2>2 DEF Passes
    <2>5. ASSUME NEW t \in MustPass(i) PROVE Said(ls, t) # {} /\ Said(ls, t) \cap Alarms = {}
      BY <2>3, <2>4, ResolvedSaid
    <2>. QED BY <2>1, <2>2, <2>5 DEF MustPass
  <1>. QED BY <1>1 DEF PassEarned, OwnAccount, Alarms

(***************************************************************************)
(* A prediction that does not run beside another of its instance passes    *)
(* only on its own account: its tests ran in a tree with all of its patch  *)
(* and nothing else, each test that must pass was reported, and the last   *)
(* line of its own that names it says no failure - provided that git takes *)
(* all or nothing of a patch that patch(1) takes whole, and that the logs  *)
(* are clear to the parser that reads them.                                *)
(***************************************************************************)
THEOREM PassIsEarned == WholePatches /\ ClearLogs => (EvalSpec => []PassEarned)
  <1>1. SUFFICES ASSUME WholePatches, ClearLogs PROVE EvalSpec => []PassEarned
    OBVIOUS
  <1>2. EvalInit => EarnedInv
    BY EarnedInit
  <1>3. EarnedInv /\ [EvalNext]_evars => EarnedInv'
    BY <1>1, EarnedNext
  <1>4. EarnedInv => PassEarned
    BY <1>1, EarnedEnds
  <1>. QED BY <1>2, <1>3, <1>4, PTL DEF EvalSpec

-----------------------------------------------------------------------------
(***************************************************************************)
(* What the model is shown of a conversation.  Only takes the elements of a *)
(* set from a sequence; what it returns is found by induction on sequences. *)
(***************************************************************************)

(* A set that has the empty sequence, and with each sequence the longer ones. *)
LEMMA SeqInduct ==
  ASSUME NEW S, NEW P, <<>> \in P, \A s \in Seq(S), x \in S : s \in P => Append(s, x) \in P
  PROVE  \A s \in Seq(S) : s \in P
  <1>. DEFINE U == {n \in Nat : \A s \in Seq(S) : Len(s) = n => s \in P}
  <1>1. 0 \in U
    <2>1. \A s \in Seq(S) : Len(s) = 0 => s = <<>>
      BY EmptySeq
    <2>. QED BY <2>1
  <1>2. ASSUME NEW k \in Nat, k \in U PROVE k + 1 \in U
    <2>1. SUFFICES ASSUME NEW s \in Seq(S), Len(s) = k + 1 PROVE s \in P
      OBVIOUS
    <2>2. s # <<>>
      BY <2>1, EmptySeq
    <2>3. PICK r \in Seq(S), x \in S : s = Append(r, x)
      BY <2>2, SequenceEmptyOrAppend
    <2>4. Len(r) \in Nat /\ Len(s) = Len(r) + 1
      BY <2>3, LenProperties, AppendProperties
    <2>5. Len(r) = k
      BY <2>1, <2>4
    <2>. QED BY <1>2, <2>3, <2>5
  <1>. HIDE DEF U
  <1>3. \A n \in Nat : n \in U
    BY <1>1, <1>2, Induct
  <1>. QED BY <1>3, LenProperties DEF U

(* What is picked of one element more. *)
OnlyGrows(S, A) ==
  \A w \in Seq(S), x \in S :
    Only(Append(w, x), A) = IF x \in A THEN Append(Only(w, A), x) ELSE Only(w, A)

(* What is picked of none, of some, and of one more. *)
LEMMA OnlyFacts ==
  ASSUME NEW S, NEW A
  PROVE  /\ Only(<<>>, A) = <<>> /\ OnlyGrows(S, A)
         /\ \A w \in Seq(S) : Only(w, A) \in Seq(S)
  <1>. DEFINE Piece(x) == IF x \in A THEN <<x>> ELSE <<>>
              Pieces(w) == [i \in DOMAIN w |-> Piece(w[i])]
  <1>1. \A w : Only(w, A) = FlattenSeq(Pieces(w))
    BY DEF Only
  <1>2. \A x \in S : Piece(x) \in Seq(S)
    OBVIOUS
  <1>3. Pieces(<<>>) = <<>>
    OBVIOUS
  <1>4. ASSUME NEW w \in Seq(S)
        PROVE  /\ Pieces(w) \in Seq(Seq(S)) /\ Len(Pieces(w)) = Len(w)
               /\ \A i \in 1..Len(w) : Pieces(w)[i] = Piece(w[i])
    <2>1. Len(w) \in Nat /\ DOMAIN w = 1..Len(w) /\ \A i \in 1..Len(w) : w[i] \in S
      BY LenProperties, ElementOfSeq
    <2>. HIDE DEF Piece
    <2>2. \A i \in 1..Len(w) : Piece(w[i]) \in Seq(S)
      BY <1>2, <2>1
    <2>. QED BY <2>1, <2>2
  <1>5. ASSUME NEW w \in Seq(S), NEW x \in S
        PROVE  Pieces(Append(w, x)) = Append(Pieces(w), Piece(x))
    <2>. HIDE DEF Piece
    <2>1. PICK n, v : n = Len(w) /\ v = Append(w, x)
      OBVIOUS
    <2>2. n \in Nat /\ v \in Seq(S) /\ Len(v) = n + 1 /\ v[n + 1] = x /\ \A i \in 1..n : v[i] = w[i]
      BY <2>1, LenProperties, AppendProperties
    <2>. HIDE DEF Pieces
    <2>3. PICK a, b : a = Pieces(v) /\ b = Append(Pieces(w), Piece(x))
      OBVIOUS
    <2>4. a \in Seq(Seq(S)) /\ Len(a) = n + 1 /\ \A i \in 1..(n + 1) : a[i] = Piece(v[i])
      BY <1>4, <2>2, <2>3
    <2>5. /\ Pieces(w) \in Seq(Seq(S)) /\ Len(Pieces(w)) = n
          /\ (\A i \in 1..n : Pieces(w)[i] = Piece(w[i])) /\ Piece(x) \in Seq(S)
      BY <1>2, <1>4, <2>1
    <2>6. /\ b \in Seq(Seq(S)) /\ Len(b) = n + 1 /\ b[n + 1] = Piece(x)
          /\ \A i \in 1..n : b[i] = Pieces(w)[i]
      BY <2>3, <2>5, AppendProperties
    <2>7. ASSUME NEW i \in 1..(n + 1) PROVE a[i] = b[i]
      <3>1. CASE i = n + 1
        BY <2>2, <2>4, <2>6, <3>1
      <3>2. CASE i # n + 1
        <4>1. i \in 1..n
          BY <2>2, <3>2
        <4>. QED BY <2>2, <2>4, <2>5, <2>6, <4>1
      <3>. QED BY <3>1, <3>2
    <2>8. a = b
      BY <2>4, <2>6, <2>7, SeqEqual
    <2>. QED BY <2>1, <2>3, <2>8
  <1>. HIDE DEF Pieces
  <1>6. Only(<<>>, A) = <<>>
    BY <1>1, <1>3, FlattenFacts
  <1>7. ASSUME NEW w \in Seq(S) PROVE Only(w, A) \in Seq(S)
    BY <1>1, <1>4, FlattenFacts
  <1>8. ASSUME NEW w \in Seq(S), NEW x \in S
        PROVE  Only(Append(w, x), A) = IF x \in A THEN Append(Only(w, A), x) ELSE Only(w, A)
    <2>1. Only(Append(w, x), A) = Only(w, A) \o Piece(x)
      <3>1. FlattenSeq(Append(Pieces(w), Piece(x))) = FlattenSeq(Pieces(w)) \o Piece(x)
        <4>1. Pieces(w) \in Seq(Seq(S)) /\ Piece(x) \in Seq(S)
          BY <1>2, <1>4
        <4>. HIDE DEF Piece
        <4>. QED BY <4>1, FlattenFacts
      <3>. HIDE DEF Piece
      <3>. QED BY <1>1, <1>5, <3>1
    <2>2. Only(w, A) \in Seq(S)
      BY <1>7
    <2>3. Only(w, A) \o <<>> = Only(w, A) /\ Append(Only(w, A), x) = Only(w, A) \o <<x>>
      BY <2>2, ConcatEmptySeq, AppendIsConcat
    <2>. QED BY <2>1, <2>3
  <1>. QED BY <1>6, <1>7, <1>8 DEF OnlyGrows

(* It picks elements of the set, all of them where there are no others. *)
LEMMA OnlyPicks ==
  ASSUME NEW S, NEW A, NEW w \in Seq(S)
  PROVE  /\ Only(w, A) \in Seq(S \cap A)
         /\ S \subseteq A => Only(w, A) = w
         /\ S \cap A = {} => Only(w, A) = <<>>
  <1>1. Only(<<>>, A) = <<>> /\ \A s \in Seq(S) : Only(s, A) \in Seq(S)
    BY OnlyFacts
  <1>2. ASSUME NEW s \in Seq(S), NEW x \in S
        PROVE  Only(Append(s, x), A) = IF x \in A THEN Append(Only(s, A), x) ELSE Only(s, A)
    <2>1. OnlyGrows(S, A)
      BY OnlyFacts
    <2>. QED BY <2>1 DEF OnlyGrows
  <1>. DEFINE P == {s \in Seq(S) : /\ Only(s, A) \in Seq(S \cap A)
                                   /\ S \subseteq A => Only(s, A) = s
                                   /\ S \cap A = {} => Only(s, A) = <<>>}
  <1>3. <<>> \in P
    <2>1. <<>> \in Seq(S) /\ <<>> \in Seq(S \cap A)
      BY EmptySeq
    <2>. QED BY <1>1, <2>1
  <1>4. ASSUME NEW s \in Seq(S), NEW x \in S, s \in P PROVE Append(s, x) \in P
    <2>1. Append(s, x) \in Seq(S)
      OBVIOUS
    <2>2. CASE x \in A
      <3>1. Only(Append(s, x), A) = Append(Only(s, A), x)
        BY <1>2, <2>2
      <3>2. Only(s, A) \in Seq(S \cap A) /\ x \in S \cap A
        BY <1>4, <2>2
      <3>3. Append(Only(s, A), x) \in Seq(S \cap A)
        BY <3>2, AppendProperties
      <3>. QED BY <1>4, <2>1, <2>2, <3>1, <3>3
    <2>3. CASE x \notin A
      <3>1. Only(Append(s, x), A) = Only(s, A)
        BY <1>2, <2>3
      <3>. QED BY <1>4, <2>1, <2>3, <3>1
    <2>. QED BY <2>2, <2>3
  <1>. HIDE DEF P
  <1>5. w \in P
    BY <1>3, <1>4, SeqInduct
  <1>. QED BY <1>5 DEF P

(* Joined before or after its last element is appended, it is the same. *)
LEMMA ConcatAppend ==
  ASSUME NEW S, NEW x \in S, NEW a \in Seq(S), NEW b \in Seq(S)
  PROVE  a \o Append(b, x) = Append(a \o b, x)
  BY SMT

(* Of two sequences joined, it picks from the one and then from the other. *)
LEMMA OnlyJoins ==
  ASSUME NEW S, NEW A, NEW u \in Seq(S), NEW w \in Seq(S)
  PROVE  Only(u \o w, A) = Only(u, A) \o Only(w, A)
  <1>1. Only(<<>>, A) = <<>> /\ \A s \in Seq(S) : Only(s, A) \in Seq(S)
    BY OnlyFacts
  <1>2. ASSUME NEW s \in Seq(S), NEW x \in S
        PROVE  Only(Append(s, x), A) = IF x \in A THEN Append(Only(s, A), x) ELSE Only(s, A)
    <2>1. OnlyGrows(S, A)
      BY OnlyFacts
    <2>. QED BY <2>1 DEF OnlyGrows
  <1>. DEFINE P == {s \in Seq(S) : Only(u \o s, A) = Only(u, A) \o Only(s, A)}
  <1>3. <<>> \in P
    <2>1. u \o <<>> = u /\ Only(u, A) \o <<>> = Only(u, A)
      BY <1>1, ConcatEmptySeq
    <2>. QED BY <1>1, <2>1
  <1>4. ASSUME NEW s \in Seq(S), NEW x \in S, s \in P PROVE Append(s, x) \in P
    <2>1. Append(s, x) \in Seq(S) /\ u \o s \in Seq(S) /\ Only(u, A) \in Seq(S) /\ Only(s, A) \in Seq(S)
      BY <1>1, AppendProperties, ConcatProperties
    <2>2. \A a, b \in Seq(S) : a \o Append(b, x) = Append(a \o b, x)
      BY ConcatAppend
    <2>3. u \o Append(s, x) = Append(u \o s, x)
      BY <2>2
    <2>4. Only(u, A) \o Append(Only(s, A), x) = Append(Only(u, A) \o Only(s, A), x)
      BY <2>1, <2>2
    <2>5. Only(u \o s, A) = Only(u, A) \o Only(s, A)
      BY <1>4
    <2>6. CASE x \in A
      <3>1. Only(Append(u \o s, x), A) = Append(Only(u \o s, A), x)
        BY <1>2, <2>1, <2>6
      <3>2. Only(Append(s, x), A) = Append(Only(s, A), x)
        BY <1>2, <2>6
      <3>. QED BY <2>1, <2>3, <2>4, <2>5, <3>1, <3>2
    <2>7. CASE x \notin A
      <3>1. Only(Append(u \o s, x), A) = Only(u \o s, A)
        BY <1>2, <2>1, <2>7
      <3>2. Only(Append(s, x), A) = Only(s, A)
        BY <1>2, <2>7
      <3>. QED BY <2>1, <2>3, <2>5, <3>1, <3>2
    <2>. QED BY <2>6, <2>7
  <1>. HIDE DEF P
  <1>5. w \in P
    BY <1>3, <1>4, SeqInduct
  <1>. QED BY <1>5 DEF P

(* What is picked from what was picked is in both sets. *)
LEMMA OnlyTwice ==
  ASSUME NEW S, NEW A, NEW B, NEW w \in Seq(S)
  PROVE  Only(Only(w, A), B) = Only(w, A \cap B)
  <1>1. /\ \A X : Only(<<>>, X) = <<>>
        /\ \A X : \A s \in Seq(S) : Only(s, X) \in Seq(S)
    BY OnlyFacts
  <1>2. ASSUME NEW X, NEW s \in Seq(S), NEW x \in S
        PROVE  Only(Append(s, x), X) = IF x \in X THEN Append(Only(s, X), x) ELSE Only(s, X)
    <2>1. OnlyGrows(S, X)
      BY OnlyFacts
    <2>. QED BY <2>1 DEF OnlyGrows
  <1>. DEFINE P == {s \in Seq(S) : Only(Only(s, A), B) = Only(s, A \cap B)}
  <1>3. <<>> \in P
    BY <1>1
  <1>4. ASSUME NEW s \in Seq(S), NEW x \in S, s \in P PROVE Append(s, x) \in P
    <2>1. Append(s, x) \in Seq(S) /\ Only(s, A) \in Seq(S)
      <3>1. Only(s, A) \in Seq(S)
        BY <1>1
      <3>. QED BY <3>1, AppendProperties
    <2>2. Only(Only(s, A), B) = Only(s, A \cap B)
      BY <1>4
    <2>3. CASE x \notin A
      <3>1. Only(Append(s, x), A) = Only(s, A)
        BY <1>2, <2>3
      <3>2. Only(Append(s, x), A \cap B) = Only(s, A \cap B)
        BY <1>2, <2>3
      <3>. QED BY <2>1, <2>2, <3>1, <3>2
    <2>4. CASE x \in A
      <3>1. Only(Append(s, x), A) = Append(Only(s, A), x)
        BY <1>2, <2>4
      <3>2. Only(Append(Only(s, A), x), B) =
              IF x \in B THEN Append(Only(Only(s, A), B), x) ELSE Only(Only(s, A), B)
        BY <1>2, <2>1
      <3>3. Only(Append(s, x), A \cap B) =
              IF x \in A \cap B THEN Append(Only(s, A \cap B), x) ELSE Only(s, A \cap B)
        BY <1>2
      <3>4. Only(Only(Append(s, x), A), B) = Only(Append(s, x), A \cap B)
        <4>1. x \in B <=> x \in A \cap B
          BY <2>4
        <4>. QED BY <2>2, <3>1, <3>2, <3>3, <4>1
      <3>. QED BY <2>1, <3>4
    <2>. QED BY <2>3, <2>4
  <1>. HIDE DEF P
  <1>5. w \in P
    BY <1>3, <1>4, SeqInduct
  <1>. QED BY <1>5 DEF P

(* Sets that have the same of the elements pick the same. *)
LEMMA OnlyAlike ==
  ASSUME NEW S, NEW A, NEW B, NEW w \in Seq(S), A \cap S = B \cap S
  PROVE  Only(w, A) = Only(w, B)
  <1>1. \A i \in DOMAIN w : w[i] \in S
    BY LenProperties, ElementOfSeq
  <1>2. \A i \in DOMAIN w : w[i] \in A <=> w[i] \in B
    BY <1>1
  <1>3. [i \in DOMAIN w |-> IF w[i] \in A THEN <<w[i]>> ELSE <<>>] =
        [i \in DOMAIN w |-> IF w[i] \in B THEN <<w[i]>> ELSE <<>>]
    BY <1>2
  <1>. QED BY <1>3 DEF Only

-----------------------------------------------------------------------------
(***************************************************************************)
(* Calls: how they leave an answer and return to the prompt.               *)
(***************************************************************************)
ToolForms == [name : Strings, api : Strings]
CallForms == [api : Strings, args : Strings]
Prepared == {PrepareTools(fds) : fds \in ToolSets}

(* A client whose tools keep their names: of the tools it offers, in one     *)
(* request or in two, those of one name in the API have one name in the      *)
(* prompt, and those of one name in the prompt one in the API.               *)
ToolsAgree ==
  \A S, T \in Prepared : \A i \in DOMAIN S, j \in DOMAIN T :
    S[i].name = T[j].name <=> S[i].api = T[j].api

(* The kinds of segments. *)
LEMMA SegmentKinds ==
  /\ Callable \subseteq Calls /\ Calls \subseteq Segments /\ Texts \subseteq Segments
  /\ Calls \cap Texts = {} /\ Callable \cap Texts = {}
  <1>1. Words \subseteq Strings
    BY ServingAssumption
  <1>2. Callable \subseteq Calls
    BY <1>1 DEF Callable, Calls
  <1>3. Calls \subseteq Segments /\ Texts \subseteq Segments
    BY DEF Calls, Segments, Texts
  <1>4. \A x \in Calls : x \notin Texts
    BY DEF Calls, Texts
  <1>. QED BY <1>2, <1>3, <1>4

(* What prepare_tools gives. *)
LEMMA PreparedForms ==
  ASSUME NEW tools \in Prepared
  PROVE  tools \in Seq(ToolForms)
  <1>1. PICK fds \in ToolSets : tools = PrepareTools(fds)
    BY DEF Prepared
  <1>2. fds \in Seq(Definitions)
    BY ServingAssumption
  <1>3. PICK v : v = Only(fds, {fd \in ToSet(fds) : fd.schema})
    OBVIOUS
  <1>4. v \in Seq(Definitions)
    BY <1>2, <1>3, OnlyFacts
  <1>5. ASSUME NEW fd \in Definitions PROVE FromFd(fd) \in ToolForms
    <2>1. fd.api \in Strings
      BY DEF Definitions
    <2>2. ASSUME fd.api \in DOMAIN Trained PROVE Trained[fd.api].name \in Strings
      <3>1. fd.api \in {"Bash", "Edit", "Write"}
        BY <2>2 DEF Trained
      <3>2. Trained["Bash"].name = "bash" /\ Trained["Edit"].name = "edit" /\ Trained["Write"].name = "create"
        BY DEF Trained
      <3>3. {"bash", "edit", "create"} \subseteq Strings
        BY DEF Strings
      <3>. QED BY <3>1, <3>2, <3>3
    <2>. QED BY <2>1, <2>2 DEF FromFd, IsTrained, ToolForms
  <1>6. tools = [i \in DOMAIN v |-> FromFd(v[i])]
    BY <1>1, <1>3 DEF PrepareTools
  <1>7. Len(v) \in Nat /\ DOMAIN v = 1..Len(v) /\ \A i \in 1..Len(v) : FromFd(v[i]) \in ToolForms
    BY <1>4, <1>5, LenProperties, ElementOfSeq
  <1>. QED BY <1>6, <1>7

(* The tool that a name stands for has that name. *)
LEMMA ToolIs ==
  ASSUME NEW tools \in Seq(ToolForms)
  PROVE  /\ \A name : ByName(tools, name) # {} =>
              \E i \in DOMAIN tools : /\ tools[i].name = name /\ tools[i] \in ToolForms
                                      /\ LastOf(tools, ByName(tools, name)) = tools[i]
         /\ \A api : ByApi(tools, api) # {} =>
              \E i \in DOMAIN tools : /\ tools[i].api = api /\ tools[i] \in ToolForms
                                      /\ LastOf(tools, ByApi(tools, api)) = tools[i]
  <1>1. Len(tools) \in Nat /\ Len(tools) \in Int /\ DOMAIN tools = 1..Len(tools)
        /\ \A i \in 1..Len(tools) : tools[i] \in ToolForms
    BY LenProperties, ElementOfSeq
  <1>2. ASSUME NEW places \in SUBSET DOMAIN tools, places # {} PROVE Max(places) \in places
    BY <1>1, <1>2, MaxFacts
  <1>3. ASSUME NEW name, ByName(tools, name) # {}
        PROVE  \E i \in DOMAIN tools : /\ tools[i].name = name /\ tools[i] \in ToolForms
                                       /\ LastOf(tools, ByName(tools, name)) = tools[i]
    <2>1. Max(ByName(tools, name)) \in ByName(tools, name)
      BY <1>2, <1>3 DEF ByName
    <2>. QED BY <1>1, <2>1 DEF ByName, LastOf
  <1>4. ASSUME NEW api, ByApi(tools, api) # {}
        PROVE  \E i \in DOMAIN tools : /\ tools[i].api = api /\ tools[i] \in ToolForms
                                       /\ LastOf(tools, ByApi(tools, api)) = tools[i]
    <2>1. Max(ByApi(tools, api)) \in ByApi(tools, api)
      BY <1>2, <1>4 DEF ByApi
    <2>. QED BY <1>1, <2>1 DEF ByApi, LastOf
  <1>. QED BY <1>3, <1>4

(* What one call becomes, in the answer and in the prompt. *)
LEMMA ParseForms ==
  ASSUME NEW tools \in Seq(ToolForms), NEW seg \in Segments
  PROVE  /\ ParseCall(seg, tools) \in Seq(CallForms)
         /\ Known(seg, tools) =>
              ParseCall(seg, tools) =
                <<[api |-> LastOf(tools, ByName(tools, seg.tool)).api, args |-> seg.body]>>
  <1>1. CASE ByName(tools, seg.tool) = {}
    <2>1. ParseCall(seg, tools) = <<>> /\ ~Known(seg, tools)
      BY <1>1 DEF ParseCall, Known
    <2>. QED BY <2>1
  <1>2. CASE ByName(tools, seg.tool) # {}
    <2>1. PICK tool : tool = LastOf(tools, ByName(tools, seg.tool))
      OBVIOUS
    <2>2. tool \in ToolForms /\ tool.name = seg.tool
      BY <1>2, <2>1, ToolIs
    <2>3. PICK args : args = Arguments(tool, seg.body)
      OBVIOUS
    <2>4. ParseCall(seg, tools) = [i \in DOMAIN args |-> [api |-> tool.api, args |-> args[i]]]
      BY <1>2, <2>1, <2>3 DEF ParseCall
    <2>5. seg.body \in Strings /\ tool.api \in Strings
      BY <2>2 DEF Segments, ToolForms
    <2>6. args = <<>> \/ args = <<"one block">> \/ args = <<seg.body>>
      BY <2>3 DEF Arguments
    <2>7. Known(seg, tools) => args = <<seg.body>>
      BY <2>2, <2>3 DEF Arguments, Known
    <2>8. ASSUME NEW x \in Strings
          PROVE  [i \in DOMAIN <<x>> |-> [api |-> tool.api, args |-> <<x>>[i]]] =
                   <<[api |-> tool.api, args |-> x]>>
      OBVIOUS
    <2>9. [i \in DOMAIN <<>> |-> [api |-> tool.api, args |-> <<>>[i]]] = <<>>
      OBVIOUS
    <2>10. \A x \in Strings : <<[api |-> tool.api, args |-> x]>> \in Seq(CallForms)
      BY <2>5 DEF CallForms
    <2>11. ParseCall(seg, tools) \in Seq(CallForms)
      <3>1. CASE args = <<>>
        <4>1. ParseCall(seg, tools) = <<>>
          BY <2>4, <2>9, <3>1
        <4>. QED BY <4>1
      <3>2. CASE args # <<>>
        <4>1. PICK x \in Strings : args = <<x>>
          <5>1. "one block" \in Strings
            BY DEF Strings
          <5>2. CASE args = <<"one block">>
            BY <5>1, <5>2
          <5>3. CASE args = <<seg.body>>
            BY <2>5, <5>3
          <5>. QED BY <2>6, <3>2, <5>2, <5>3
        <4>2. ParseCall(seg, tools) = <<[api |-> tool.api, args |-> x]>>
          BY <2>4, <2>8, <4>1
        <4>. QED BY <2>10, <4>2
      <3>. QED BY <3>1, <3>2
    <2>12. ASSUME Known(seg, tools)
           PROVE  ParseCall(seg, tools) = <<[api |-> tool.api, args |-> seg.body]>>
      <3>1. args = <<seg.body>>
        BY <2>7, <2>12
      <3>. QED BY <2>4, <2>5, <2>8, <3>1
    <2>. QED BY <2>1, <2>11, <2>12
  <1>. QED BY <1>1, <1>2

(* A call in the prompt is a call, or none. *)
LEMMA FormatForms ==
  ASSUME NEW tools \in Seq(ToolForms), NEW c \in CallForms
  PROVE  FormatCall(c, tools) \in Seq(Calls)
  <1>1. CASE ByApi(tools, c.api) = {}
    <2>1. FormatCall(c, tools) = <<>>
      BY <1>1 DEF FormatCall
    <2>. QED BY <2>1
  <1>2. CASE ByApi(tools, c.api) # {}
    <2>1. PICK tool : tool = LastOf(tools, ByApi(tools, c.api))
      OBVIOUS
    <2>2. tool \in ToolForms
      BY <1>2, <2>1, ToolIs
    <2>3. ToolCall(tool.name, c.args) \in Calls
      BY <2>2 DEF ToolForms, CallForms, ToolCall, Calls
    <2>4. FormatCall(c, tools) = <<ToolCall(tool.name, c.args)>>
      BY <1>2, <2>1 DEF FormatCall
    <2>. QED BY <2>3, <2>4
  <1>. QED BY <1>1, <1>2

(* So are all of them, and what parse_calls makes of an answer has its form. *)
LEMMA CallsForms ==
  ASSUME NEW tools \in Seq(ToolForms)
  PROVE  /\ \A segs \in Seq(Segments) :
              /\ ParseCalls(segs, tools).content \in Seq(Segments)
              /\ ParseCalls(segs, tools).calls \in Seq(CallForms)
         /\ \A calls \in Seq(CallForms) : FormatCalls(calls, tools) \in Seq(Calls)
  <1>1. ASSUME NEW segs \in Seq(Segments)
        PROVE  /\ ParseCalls(segs, tools).content \in Seq(Segments)
               /\ ParseCalls(segs, tools).calls \in Seq(CallForms)
    <2>1. PICK found : found = Only(segs, Callable)
      OBVIOUS
    <2>2. found \in Seq(Segments) /\ Only(segs, Segments \ Callable) \in Seq(Segments)
      BY <2>1, OnlyFacts
    <2>3. PICK w : w = [i \in DOMAIN found |-> ParseCall(found[i], tools)]
      OBVIOUS
    <2>4. /\ ParseCalls(segs, tools).content = Only(segs, Segments \ Callable)
          /\ ParseCalls(segs, tools).calls = FlattenSeq(w)
      BY <2>1, <2>3 DEF ParseCalls
    <2>5. Len(found) \in Nat /\ DOMAIN found = 1..Len(found)
          /\ \A i \in 1..Len(found) : ParseCall(found[i], tools) \in Seq(CallForms)
      BY <2>2, LenProperties, ElementOfSeq, ParseForms
    <2>6. w \in Seq(Seq(CallForms))
      BY <2>3, <2>5
    <2>7. FlattenSeq(w) \in Seq(CallForms)
      BY <2>6, FlattenFacts
    <2>. QED BY <2>2, <2>4, <2>7
  <1>2. ASSUME NEW calls \in Seq(CallForms) PROVE FormatCalls(calls, tools) \in Seq(Calls)
    <2>1. PICK w : w = [i \in DOMAIN calls |-> FormatCall(calls[i], tools)]
      OBVIOUS
    <2>2. Len(calls) \in Nat /\ DOMAIN calls = 1..Len(calls)
          /\ \A i \in 1..Len(calls) : FormatCall(calls[i], tools) \in Seq(Calls)
      BY LenProperties, ElementOfSeq, FormatForms
    <2>3. w \in Seq(Seq(Calls))
      BY <2>1, <2>2
    <2>4. FlattenSeq(w) \in Seq(Calls)
      BY <2>3, FlattenFacts
    <2>. QED BY <2>1, <2>4 DEF FormatCalls
  <1>. QED BY <1>1, <1>2

(* A call of a known tool returns to the prompt when the tool is offered. *)
LEMMA CallReturns ==
  ASSUME ToolsAgree, NEW tools \in Prepared, NEW off \in Prepared, NEW seg \in Segments,
         Known(seg, tools), NEW c, c = [api |-> LastOf(tools, ByName(tools, seg.tool)).api,
                                        args |-> seg.body]
  PROVE  FormatCall(c, off) = IF Known(seg, off) THEN <<seg>> ELSE <<>>
  <1>1. tools \in Seq(ToolForms) /\ off \in Seq(ToolForms)
    BY PreparedForms
  <1>2. PICK i \in DOMAIN tools : tools[i].name = seg.tool
                                  /\ LastOf(tools, ByName(tools, seg.tool)) = tools[i]
    <2>1. ByName(tools, seg.tool) # {}
      BY DEF Known
    <2>. QED BY <1>1, <2>1, ToolIs
  <1>3. c.api = tools[i].api /\ c.args = seg.body
    BY <1>2
  <1>4. \A j \in DOMAIN off : off[j].name = seg.tool <=> off[j].api = c.api
    <2>1. ASSUME NEW j \in DOMAIN off
          PROVE  off[j].name = tools[i].name <=> off[j].api = tools[i].api
      BY DEF ToolsAgree
    <2>. QED BY <1>2, <1>3, <2>1
  <1>5. ByName(off, seg.tool) = ByApi(off, c.api)
    BY <1>4 DEF ByName, ByApi
  <1>6. Known(seg, off) <=> ByApi(off, c.api) # {}
    BY <1>5 DEF Known
  <1>7. CASE ByApi(off, c.api) = {}
    <2>1. FormatCall(c, off) = <<>>
      BY <1>7 DEF FormatCall
    <2>. QED BY <1>6, <1>7, <2>1
  <1>8. CASE ByApi(off, c.api) # {}
    <2>1. PICK j \in DOMAIN off : off[j].api = c.api /\ LastOf(off, ByApi(off, c.api)) = off[j]
      BY <1>1, <1>8, ToolIs
    <2>2. off[j].name = seg.tool
      BY <1>4, <2>1
    <2>3. FormatCall(c, off) = <<ToolCall(seg.tool, seg.body)>>
      BY <1>3, <1>8, <2>1, <2>2 DEF FormatCall
    <2>4. ToolCall(seg.tool, seg.body) = seg
      <3>1. seg \in [kind : {"call"}, tool : Words, body : Strings]
        BY DEF Known, Callable
      <3>. QED BY <3>1 DEF ToolCall
    <2>. QED BY <1>6, <1>8, <2>3, <2>4
  <1>. QED BY <1>7, <1>8

(* What the model wrote is found again in its answer as the prompt shows it. *)
ShownIn(body, segs, tools, off) ==
  /\ Only(body, Texts) = Only(segs, Texts)
  /\ LET cs == Only(segs, Calls)
     IN (\A i \in DOMAIN cs : Known(cs[i], tools)) =>
          /\ Only(body, Calls) = Only(cs, {s \in ToSet(cs) : Known(s, off)})
          /\ Len(ParseCalls(segs, tools).calls) = Len(cs)
          /\ \A i \in 1..Len(cs) : ParseCalls(segs, tools).calls[i].api =
                                     LastOf(tools, ByName(tools, cs[i].tool)).api

(* The texts and the calls of a message in the prompt, apart. *)
LEMMA TextsShown ==
  ASSUME NEW segs \in Seq(Segments), NEW fc \in Seq(Calls), NEW content,
         content = Only(segs, Segments \ Callable)
  PROVE  /\ Only(content \o fc, Texts) = Only(segs, Texts)
         /\ Only(content \o fc, Calls) = Only(segs, Calls \ Callable) \o fc
  <1>1. content \in Seq(Segments) /\ fc \in Seq(Segments)
    <2>1. content \in Seq(Segments)
      BY OnlyFacts
    <2>. QED BY <2>1, SegmentKinds, SeqMonotonic
  <1>2. /\ Only(content \o fc, Texts) = Only(content, Texts) \o Only(fc, Texts)
        /\ Only(content \o fc, Calls) = Only(content, Calls) \o Only(fc, Calls)
    BY ONLY <1>1, OnlyJoins, ZenonT(30)
  <1>3. Only(content, Texts) = Only(segs, Texts)
    <2>1. Only(content, Texts) = Only(segs, (Segments \ Callable) \cap Texts)
      BY OnlyTwice
    <2>2. ((Segments \ Callable) \cap Texts) \cap Segments = Texts \cap Segments
      BY SegmentKinds
    <2>3. Only(segs, (Segments \ Callable) \cap Texts) = Only(segs, Texts)
      BY <2>2, OnlyAlike
    <2>. QED BY <2>1, <2>3
  <1>4. Only(content, Calls) = Only(segs, Calls \ Callable)
    <2>1. Only(content, Calls) = Only(segs, (Segments \ Callable) \cap Calls)
      BY OnlyTwice
    <2>2. ((Segments \ Callable) \cap Calls) \cap Segments = (Calls \ Callable) \cap Segments
      BY SegmentKinds
    <2>3. Only(segs, (Segments \ Callable) \cap Calls) = Only(segs, Calls \ Callable)
      BY <2>2, OnlyAlike
    <2>. QED BY <2>1, <2>3
  <1>5. Only(fc, Texts) = <<>> /\ Only(fc, Calls) = fc
    <2>1. Calls \cap Texts = {} /\ Calls \subseteq Calls
      BY SegmentKinds
    <2>. QED BY <2>1, OnlyPicks
  <1>6. Only(segs, Texts) \in Seq(Segments)
    BY OnlyFacts
  <1>7. Only(segs, Texts) \o <<>> = Only(segs, Texts)
    BY <1>6, ConcatEmptySeq
  <1>. QED BY <1>2, <1>3, <1>4, <1>5, <1>7

(* So it is: parse_calls and format_calls undo each other. *)
LEMMA AnswerShown ==
  ASSUME ToolsAgree, NEW segs \in Seq(Segments), NEW tools \in Prepared, NEW off \in Prepared
  PROVE  ShownIn(ParseCalls(segs, tools).content \o FormatCalls(ParseCalls(segs, tools).calls, off),
                 segs, tools, off)
  <1>1. tools \in Seq(ToolForms) /\ off \in Seq(ToolForms)
    BY PreparedForms
  <1>2. PICK content, calls, fc :
          /\ content = ParseCalls(segs, tools).content
          /\ calls = ParseCalls(segs, tools).calls /\ fc = FormatCalls(calls, off)
    OBVIOUS
  <1>3. calls \in Seq(CallForms) /\ fc \in Seq(Calls)
    BY <1>1, <1>2, CallsForms
  <1>4. content = Only(segs, Segments \ Callable)
    BY <1>2 DEF ParseCalls
  <1>5. /\ Only(content \o fc, Texts) = Only(segs, Texts)
        /\ Only(content \o fc, Calls) = Only(segs, Calls \ Callable) \o fc
    BY <1>3, <1>4, TextsShown
  <1>6. PICK cs : cs = Only(segs, Calls)
    OBVIOUS
  <1>7. ASSUME \A i \in DOMAIN cs : Known(cs[i], tools)
        PROVE  /\ Only(content \o fc, Calls) = Only(cs, {s \in ToSet(cs) : Known(s, off)})
               /\ Len(calls) = Len(cs)
               /\ \A i \in 1..Len(cs) :
                    calls[i].api = LastOf(tools, ByName(tools, cs[i].tool)).api
    <2>1. PICK n : n = Len(cs)
      OBVIOUS
    <2>2. cs \in Seq(Segments) /\ n \in Nat /\ DOMAIN cs = 1..n /\ \A i \in 1..n : cs[i] \in Segments
      <3>1. cs \in Seq(Segments)
        BY <1>6, OnlyFacts
      <3>. QED BY <2>1, <3>1, LenProperties, ElementOfSeq
    <2>3. cs \in Seq(Callable)
      <3>1. \A i \in 1..n : cs[i] \in Callable
        BY <1>7, <2>2 DEF Known
      <3>2. cs = [i \in 1..n |-> cs[i]]
        BY <2>2, LenProperties
      <3>. QED BY <2>2, <3>1, <3>2
    <2>4. Only(segs, Callable) = cs
      <3>1. Only(cs, Callable) = Only(segs, Calls \cap Callable)
        BY <1>6, OnlyTwice
      <3>2. Calls \cap Callable = Callable
        BY SegmentKinds
      <3>3. Only(cs, Callable) = cs
        BY <2>3, OnlyPicks
      <3>. QED BY <3>1, <3>2, <3>3
    <2>5. Only(segs, Calls \ Callable) = <<>>
      <3>1. Only(cs, Calls \ Callable) = Only(segs, Calls \cap (Calls \ Callable))
        BY <1>6, OnlyTwice
      <3>2. Calls \cap (Calls \ Callable) = Calls \ Callable
        OBVIOUS
      <3>3. Only(cs, Calls \ Callable) = <<>>
        <4>1. Callable \cap (Calls \ Callable) = {}
          OBVIOUS
        <4>. QED BY <2>3, <4>1, OnlyPicks
      <3>. QED BY <3>1, <3>2, <3>3
    <2>6. PICK g : g = [i \in 1..n |-> [api |-> LastOf(tools, ByName(tools, cs[i].tool)).api,
                                        args |-> cs[i].body]]
      OBVIOUS
    <2>7. ASSUME NEW i \in 1..n
          PROVE  ParseCall(cs[i], tools) = <<g[i]>> /\ g[i] \in CallForms
      <3>1. ParseCall(cs[i], tools) = <<g[i]>>
        BY <1>1, <1>7, <2>2, <2>6, ParseForms
      <3>2. g[i].api \in Strings /\ g[i].args \in Strings
        <4>1. ByName(tools, cs[i].tool) # {}
          BY <1>7, <2>2 DEF Known
        <4>2. LastOf(tools, ByName(tools, cs[i].tool)) \in ToolForms
          BY <1>1, <4>1, ToolIs
        <4>. QED BY <2>2, <2>6, <4>2 DEF ToolForms, Segments
      <3>3. g[i] = [api |-> g[i].api, args |-> g[i].args]
        BY <2>6
      <3>. QED BY <3>1, <3>2, <3>3 DEF CallForms
    <2>8. g \in Seq(CallForms) /\ Len(g) = n /\ DOMAIN g = 1..n
      <3>1. g = [i \in 1..n |-> g[i]]
        BY <2>6
      <3>. QED BY <2>2, <2>7, <3>1
    <2>9. calls = g
      <3>1. calls = FlattenSeq([i \in DOMAIN cs |-> ParseCall(cs[i], tools)])
        BY <1>2, <2>4 DEF ParseCalls
      <3>2. [i \in DOMAIN cs |-> ParseCall(cs[i], tools)] =
            [i \in DOMAIN g |-> IF g[i] \in CallForms THEN <<g[i]>> ELSE <<>>]
        BY <2>2, <2>7, <2>8
      <3>3. calls = Only(g, CallForms)
        BY <3>1, <3>2 DEF Only
      <3>4. Only(g, CallForms) = g
        BY <2>8, OnlyPicks
      <3>. QED BY <3>3, <3>4
    <2>10. fc = Only(cs, {s \in ToSet(cs) : Known(s, off)})
      <3>1. PICK A : A = {s \in ToSet(cs) : Known(s, off)}
        OBVIOUS
      <3>2. ASSUME NEW i \in 1..n
            PROVE  FormatCall(g[i], off) = IF cs[i] \in A THEN <<cs[i]>> ELSE <<>>
        <4>1. FormatCall(g[i], off) = IF Known(cs[i], off) THEN <<cs[i]>> ELSE <<>>
          <5>1. g[i] = [api |-> LastOf(tools, ByName(tools, cs[i].tool)).api, args |-> cs[i].body]
            BY <2>6
          <5>2. Known(cs[i], tools) /\ cs[i] \in Segments
            BY <1>7, <2>2
          <5>. QED BY <5>1, <5>2, CallReturns
        <4>2. cs[i] \in A <=> Known(cs[i], off)
          BY <2>2, <3>1 DEF ToSet
        <4>. QED BY <4>1, <4>2
      <3>3. [i \in DOMAIN g |-> FormatCall(g[i], off)] =
            [i \in DOMAIN cs |-> IF cs[i] \in A THEN <<cs[i]>> ELSE <<>>]
        BY <2>2, <2>8, <3>2
      <3>4. fc = FlattenSeq([i \in DOMAIN g |-> FormatCall(g[i], off)])
        BY <1>2, <2>9 DEF FormatCalls
      <3>5. fc = Only(cs, A)
        BY <3>3, <3>4 DEF Only
      <3>. QED BY <3>1, <3>5
    <2>11. <<>> \o fc = fc
      BY <1>3, ConcatEmptySeq
    <2>12. \A i \in 1..n : calls[i].api = LastOf(tools, ByName(tools, cs[i].tool)).api
      BY <2>6, <2>9
    <2>. QED BY <1>5, <2>1, <2>5, <2>8, <2>9, <2>10, <2>11, <2>12
  <1>. QED BY <1>2, <1>5, <1>6, <1>7 DEF ShownIn

-----------------------------------------------------------------------------
(***************************************************************************)
(* The conversation: p has the places of the answers in the history h. The *)
(* results of an answer's calls come right behind it, but while it is open *)
(* those of the last are still to come.                                    *)
(***************************************************************************)
Messages == [role : {"system", "user", "assistant", "tool"}, content : Seq(Segments),
             calls : Seq(CallForms), tool : Strings]
Writings == [segs : Seq(Segments), tools : Prepared]
IsAnswer(m, w) ==
  /\ m.role = "assistant" /\ m.content = ParseCalls(w.segs, w.tools).content
  /\ m.calls = ParseCalls(w.segs, w.tools).calls
HasResult(h, spot, c) == spot \in 1..Len(h) /\ h[spot].role = "tool" /\ h[spot].tool = c.api
Results(h, spot, open) ==
  \/ open /\ spot = Len(h)
  \/ \A i \in 1..Len(h[spot].calls) : HasResult(h, spot + i, h[spot].calls[i])
AnswersAt(p, h, w, open) ==
  /\ p \in [1..Len(w) -> 1..Len(h)]
  /\ \A k, l \in 1..Len(w) : k < l => p[k] < p[l]
  /\ \A k \in 1..Len(w) : IsAnswer(h[p[k]], w[k]) /\ Results(h, p[k], open)
  /\ \A i \in 1..Len(h) : h[i].role = "assistant" => \E k \in 1..Len(w) : p[k] = i
OneSystem(h) == Len(h) >= 1 /\ \A i \in 1..Len(h) : h[i].role = "system" <=> i = 1

ServingInv ==
  /\ history \in Seq(Messages) /\ OneSystem(history) /\ written \in Seq(Writings)
  /\ completions \in Seq(Outputs)
  /\ sv = "generate" => offered \in Prepared /\ prompt = EncodeDialog(history, offered)
  /\ \E p : AnswersAt(p, history, written, sv = "answered")

(* An answer is one place more. *)
LEMMA PlacesAnswer ==
  ASSUME NEW h \in Seq(Messages), NEW w \in Seq(Writings), NEW p, AnswersAt(p, h, w, FALSE),
         NEW m \in Messages, NEW x \in Writings, IsAnswer(m, x)
  PROVE  \E q : AnswersAt(q, Append(h, m), Append(w, x), TRUE)
  <1>1. PICK H, n, g, v : H = Len(h) /\ n = Len(w) /\ g = Append(h, m) /\ v = Append(w, x)
    OBVIOUS
  <1>2. /\ H \in Nat /\ n \in Nat /\ Len(g) = H + 1 /\ Len(v) = n + 1
        /\ g[H + 1] = m /\ v[n + 1] = x
        /\ (\A i \in 1..H : g[i] = h[i]) /\ \A k \in 1..n : v[k] = w[k]
    BY <1>1, LenProperties, AppendProperties
  <1>3. PICK q : q = [k \in 1..(n + 1) |-> IF k = n + 1 THEN H + 1 ELSE p[k]]
    OBVIOUS
  <1>4. /\ q[n + 1] = H + 1 /\ n + 1 \in 1..(n + 1)
        /\ \A k \in 1..n : q[k] = p[k] /\ k \in 1..(n + 1) /\ p[k] \in 1..H
    <2>1. \A k \in 1..n : k # n + 1 /\ k \in 1..(n + 1)
      BY <1>2
    <2>2. n + 1 \in 1..(n + 1)
      BY <1>2
    <2>3. \A k \in 1..n : p[k] \in 1..H
      BY <1>1 DEF AnswersAt
    <2>. QED BY <1>3, <2>1, <2>2, <2>3
  <1>5. \A k \in 1..(n + 1) : k = n + 1 \/ k \in 1..n
    BY <1>2
  <1>6. q \in [1..(n + 1) -> 1..(H + 1)]
    <2>1. \A k \in 1..(n + 1) : q[k] \in 1..(H + 1)
      <3>1. \A k \in 1..n : q[k] \in 1..H
        BY ONLY <1>4
      <3>. QED BY ONLY <1>2, <1>4, <1>5, <3>1
    <2>. QED BY <1>3, <2>1
  <1>7. ASSUME NEW k \in 1..(n + 1), NEW l \in 1..(n + 1), k < l PROVE q[k] < q[l]
    <2>1. k \in 1..n
      BY <1>2, <1>7
    <2>2. CASE l = n + 1
      BY <1>2, <1>4, <2>1, <2>2
    <2>3. CASE l \in 1..n
      <3>1. p[k] < p[l]
        BY <1>1, <1>7, <2>1, <2>3 DEF AnswersAt
      <3>. QED BY <1>4, <2>1, <2>3, <3>1
    <2>. QED BY <1>5, <2>2, <2>3
  <1>8. ASSUME NEW k \in 1..(n + 1) PROVE IsAnswer(g[q[k]], v[k]) /\ Results(g, q[k], TRUE)
    <2>1. CASE k = n + 1
      <3>1. g[q[k]] = m /\ v[k] = x /\ q[k] = Len(g)
        BY <1>2, <1>4, <2>1
      <3>. QED BY <3>1 DEF Results
    <2>2. CASE k \in 1..n
      <3>1. PICK spot : spot = p[k]
        OBVIOUS
      <3>2. q[k] = spot /\ spot \in 1..H /\ g[spot] = h[spot] /\ v[k] = w[k]
        BY <1>2, <1>4, <2>2, <3>1
      <3>3. IsAnswer(h[spot], w[k]) /\ Results(h, spot, FALSE)
        BY <1>1, <2>2, <3>1 DEF AnswersAt
      <3>4. ASSUME NEW i \in 1..Len(h[spot].calls)
            PROVE  HasResult(g, spot + i, h[spot].calls[i])
        <4>1. HasResult(h, spot + i, h[spot].calls[i])
          BY <3>3 DEF Results
        <4>2. spot + i \in 1..H
          BY <1>1, <4>1 DEF HasResult
        <4>3. spot + i \in 1..Len(g) /\ g[spot + i] = h[spot + i]
          BY <1>2, <4>2
        <4>. QED BY <4>1, <4>3 DEF HasResult
      <3>5. Results(g, spot, TRUE)
        BY <3>2, <3>4 DEF Results
      <3>. QED BY <3>2, <3>3, <3>5
    <2>. QED BY <1>5, <2>1, <2>2
  <1>9. ASSUME NEW i \in 1..(H + 1), g[i].role = "assistant" PROVE \E k \in 1..(n + 1) : q[k] = i
    <2>1. CASE i = H + 1
      BY <1>4, <2>1
    <2>2. CASE i # H + 1
      <3>1. i \in 1..H
        BY <1>2, <2>2
      <3>2. PICK k \in 1..n : p[k] = i
        BY <1>1, <1>2, <1>9, <3>1 DEF AnswersAt
      <3>. QED BY <1>4, <3>2
    <2>. QED BY <2>1, <2>2
  <1>10. AnswersAt(q, g, v, TRUE)
    BY <1>2, <1>6, <1>7, <1>8, <1>9 DEF AnswersAt
  <1>. QED BY <1>1, <1>10

(* What the client adds has no answer, and a result for each call. *)
LEMMA PlacesTold ==
  ASSUME NEW h \in Seq(Messages), NEW w \in Seq(Writings), NEW p, AnswersAt(p, h, w, TRUE),
         NEW msgs \in Seq(Messages), \A i \in 1..Len(msgs) : msgs[i].role # "assistant",
         \A i \in 1..Len(h[Len(h)].calls) : HasResult(msgs, i, h[Len(h)].calls[i])
  PROVE  AnswersAt(p, h \o msgs, w, FALSE)
  <1>1. PICK H, M, g, n : H = Len(h) /\ M = Len(msgs) /\ g = h \o msgs /\ n = Len(w)
    OBVIOUS
  <1>2. /\ H \in Nat /\ M \in Nat /\ Len(g) = H + M
        /\ \A i \in 1..(H + M) : g[i] = IF i <= H THEN h[i] ELSE msgs[i - H]
    BY <1>1, LenProperties, ConcatProperties
  <1>3. \A i \in 1..H : i \in 1..(H + M) /\ g[i] = h[i]
    BY <1>2
  <1>4. ASSUME NEW i \in 1..M PROVE H + i \in 1..(H + M) /\ g[H + i] = msgs[i]
    <2>1. H + i \in 1..(H + M) /\ ~(H + i <= H) /\ (H + i) - H = i
      BY <1>2
    <2>. QED BY <1>2, <2>1
  <1>5. p \in [1..n -> 1..(H + M)] /\ \A k \in 1..n : p[k] \in 1..H
    <2>1. p \in [1..n -> 1..H]
      BY <1>1 DEF AnswersAt
    <2>. QED BY <1>3, <2>1
  <1>6. ASSUME NEW k \in 1..n PROVE IsAnswer(g[p[k]], w[k]) /\ Results(g, p[k], FALSE)
    <2>1. PICK spot : spot = p[k]
      OBVIOUS
    <2>2. spot \in 1..H /\ g[spot] = h[spot]
      BY <1>3, <1>5, <2>1
    <2>3. IsAnswer(h[spot], w[k]) /\ Results(h, spot, TRUE)
      BY <1>1, <2>1 DEF AnswersAt
    <2>4. ASSUME NEW i \in 1..Len(h[spot].calls) PROVE HasResult(g, spot + i, h[spot].calls[i])
      <3>1. CASE spot = H
        <4>1. HasResult(msgs, i, h[spot].calls[i])
          BY <1>1, <3>1
        <4>2. i \in 1..M
          BY <1>1, <4>1 DEF HasResult
        <4>3. spot + i \in 1..Len(g) /\ g[spot + i] = msgs[i]
          BY <1>2, <1>4, <3>1, <4>2
        <4>. QED BY <4>1, <4>3 DEF HasResult
      <3>2. CASE spot # H
        <4>1. HasResult(h, spot + i, h[spot].calls[i])
          BY <1>1, <2>3, <3>2 DEF Results
        <4>2. spot + i \in 1..H
          BY <1>1, <4>1 DEF HasResult
        <4>3. spot + i \in 1..Len(g) /\ g[spot + i] = h[spot + i]
          BY <1>2, <1>3, <4>2
        <4>. QED BY <4>1, <4>3 DEF HasResult
      <3>. QED BY <3>1, <3>2
    <2>5. Results(g, spot, FALSE)
      BY <2>2, <2>4 DEF Results
    <2>. QED BY <2>1, <2>2, <2>3, <2>5
  <1>7. ASSUME NEW i \in 1..(H + M), g[i].role = "assistant" PROVE \E k \in 1..n : p[k] = i
    <2>1. CASE i <= H
      <3>1. i \in 1..H /\ h[i].role = "assistant"
        BY <1>2, <1>7, <2>1
      <3>. QED BY <1>1, <3>1 DEF AnswersAt
    <2>2. CASE ~(i <= H)
      <3>1. i - H \in 1..M /\ g[i] = msgs[i - H]
        BY <1>2, <2>2
      <3>. QED BY <1>1, <1>7, <3>1
    <2>. QED BY <2>1, <2>2
  <1>8. \A k, l \in 1..n : k < l => p[k] < p[l]
    BY <1>1 DEF AnswersAt
  <1>. QED BY <1>1, <1>2, <1>5, <1>6, <1>7, <1>8 DEF AnswersAt

(* With no result to come, nothing is open. *)
LEMMA PlacesClosed ==
  ASSUME NEW h, NEW w, NEW p, AnswersAt(p, h, w, FALSE)
  PROVE  AnswersAt(p, h, w, TRUE)
  <1>1. \A spot : Results(h, spot, FALSE) => Results(h, spot, TRUE)
    BY DEF Results
  <1>. QED BY <1>1 DEF AnswersAt

(* The part of an answer behind the thinking. *)
LEMMA ContentForms ==
  ASSUME NEW segs \in Seq(Segments)
  PROVE  ContentOf(segs) \in Seq(Segments)
  <1>1. PICK ends, n : ends = {i \in DOMAIN segs : segs[i] = EndOfThought} /\ n = Len(segs)
    OBVIOUS
  <1>2. n \in Nat /\ DOMAIN segs = 1..n /\ \A i \in 1..n : segs[i] \in Segments
    BY <1>1, LenProperties, ElementOfSeq
  <1>3. CASE ~thinking \/ ends = {}
    <2>1. ContentOf(segs) = segs
      BY <1>1, <1>3 DEF ContentOf
    <2>. QED BY <2>1
  <1>4. CASE thinking /\ ends # {}
    <2>1. ends \in SUBSET Nat /\ ends \subseteq 1..n
      BY <1>1, <1>2
    <2>2. \E x \in ends : \A y \in ends : x <= y
      BY <1>4, <2>1, Smallest
    <2>3. Min(ends) \in ends
      BY <2>2 DEF Min
    <2>4. PICK m : m = Min(ends) + 1
      OBVIOUS
    <2>5. m \in Int /\ n \in Int /\ \A i \in m..n : segs[i] \in Segments
      <3>1. PICK e : e = Min(ends)
        OBVIOUS
      <3>2. e \in 1..n /\ m = e + 1
        BY <2>1, <2>3, <2>4, <3>1
      <3>3. m \in Int /\ n \in Int /\ \A i \in m..n : i \in 1..n
        BY <1>2, <3>2
      <3>. QED BY <1>2, <3>3
    <2>6. SubSeq(segs, m, n) \in Seq(Segments)
      BY <2>5, SubSeqProperties
    <2>7. ContentOf(segs) = SubSeq(segs, m, n)
      BY <1>1, <1>4, <2>4 DEF ContentOf
    <2>. QED BY <2>6, <2>7
  <1>. QED BY <1>3, <1>4

(* The messages of the client. *)
LEMMA MessageForms ==
  ASSUME NEW role \in {"system", "user", "tool"}, NEW t \in Strings
  PROVE  Message(role, <<Text(t)>>) \in Messages
  <1>1. "" \in Strings
    BY DEF Strings
  <1>2. Text(t) \in Segments
    BY <1>1 DEF Text, Segments
  <1>3. <<Text(t)>> \in Seq(Segments) /\ <<>> \in Seq(CallForms)
    BY <1>2
  <1>. QED BY <1>1, <1>3 DEF Message, Messages

(* A conversation begins so. *)
LEMMA ServingStarts == ServingInit => ServingInv
  <1>. SUFFICES ASSUME ServingInit PROVE ServingInv
    OBVIOUS
  <1>1. PICK a, b : /\ a = Message("system", <<Text("system")>>) /\ b = Message("user", <<Text("user")>>)
                    /\ history = <<a, b>>
    BY DEF ServingInit
  <1>2. a \in Messages /\ b \in Messages /\ a.role = "system" /\ b.role = "user"
    <2>1. "system" \in Strings /\ "user" \in Strings
      BY DEF Strings
    <2>2. a \in Messages /\ b \in Messages
      BY <1>1, <2>1, MessageForms
    <2>. QED BY <1>1, <2>2 DEF Message
  <1>3. history \in Seq(Messages) /\ Len(history) = 2 /\ history[1] = a /\ history[2] = b
    BY <1>1, <1>2
  <1>4. \A i \in 1..2 : i = 1 \/ i = 2
    OBVIOUS
  <1>5. OneSystem(history)
    BY <1>2, <1>3, <1>4 DEF OneSystem
  <1>6. written = <<>> /\ completions = <<>> /\ sv = "client"
    BY DEF ServingInit
  <1>7. PICK p : p = [k \in 1..0 |-> 1]
    OBVIOUS
  <1>8. AnswersAt(p, history, written, sv = "answered")
    <2>1. Len(written) = 0 /\ (\A k \in 1..0 : FALSE) /\ p \in [1..0 -> 1..2]
      BY <1>6, <1>7
    <2>2. \A i \in 1..2 : history[i].role # "assistant"
      BY <1>2, <1>3, <1>4
    <2>. QED BY <1>3, <2>1, <2>2 DEF AnswersAt
  <1>9. written \in Seq(Writings) /\ completions \in Seq(Outputs)
    BY <1>6
  <1>. QED BY <1>3, <1>5, <1>6, <1>8, <1>9 DEF ServingInv

(* What the client says keeps the invariant. *)
LEMMA ToldStep ==
  ASSUME ServingInv, NEW msgs \in Seq(Messages), Told(msgs),
         \A i \in 1..Len(msgs) : msgs[i].role \in {"user", "tool"},
         \A i \in 1..Len(history[Len(history)].calls) :
           HasResult(msgs, i, history[Len(history)].calls[i])
  PROVE  ServingInv'
  <1>1. /\ sv = "answered" /\ sv' = "client" /\ history' = history \o msgs
        /\ written' = written /\ completions' = completions
    BY DEF Told
  <1>2. history \in Seq(Messages) /\ OneSystem(history) /\ written \in Seq(Writings)
    BY DEF ServingInv
  <1>3. PICK p : AnswersAt(p, history, written, TRUE)
    BY <1>1 DEF ServingInv
  <1>4. \A i \in 1..Len(msgs) : msgs[i].role # "assistant" /\ msgs[i].role # "system"
    OBVIOUS
  <1>5. AnswersAt(p, history \o msgs, written, FALSE)
    BY <1>2, <1>3, <1>4, PlacesTold
  <1>6. PICK H, M, g : H = Len(history) /\ M = Len(msgs) /\ g = history \o msgs
    OBVIOUS
  <1>7. /\ H \in Nat /\ M \in Nat /\ Len(g) = H + M /\ g \in Seq(Messages)
        /\ \A i \in 1..(H + M) : g[i] = IF i <= H THEN history[i] ELSE msgs[i - H]
    BY <1>2, <1>6, LenProperties, ConcatProperties
  <1>8. OneSystem(g)
    <2>1. ASSUME NEW i \in 1..(H + M) PROVE g[i].role = "system" <=> i = 1
      <3>1. CASE i <= H
        <4>1. i \in 1..H /\ g[i] = history[i]
          BY <1>7, <3>1
        <4>. QED BY <1>2, <1>6, <4>1 DEF OneSystem
      <3>2. CASE ~(i <= H)
        <4>1. i - H \in 1..M /\ g[i] = msgs[i - H] /\ 1 <= H /\ i # 1
          BY <1>2, <1>6, <1>7, <3>2 DEF OneSystem
        <4>. QED BY <1>4, <1>6, <4>1
      <3>. QED BY <3>1, <3>2
    <2>2. H + M >= 1
      BY <1>2, <1>6, <1>7 DEF OneSystem
    <2>. QED BY <1>7, <2>1, <2>2 DEF OneSystem
  <1>9. \E q : AnswersAt(q, history', written', sv' = "answered")
    BY <1>1, <1>5
  <1>10. completions \in Seq(Outputs)
    BY DEF ServingInv
  <1>. QED BY <1>1, <1>2, <1>6, <1>7, <1>8, <1>9, <1>10 DEF ServingInv

(* A request that is answered or refused keeps the invariant; *)
LEMMA RequestStep ==
  ASSUME ServingInv, NEW fds \in ToolSets, NEW think, NEW n, Request(fds, think, n)
  PROVE  ServingInv'
  <1>1. /\ sv = "client" /\ history' = history /\ written' = written /\ completions' = <<>>
        /\ offered' = PrepareTools(fds)
        /\ \/ sv' = "failed"
           \/ sv' = "generate" /\ prompt' = EncodeDialog(history, offered')
    BY DEF Request
  <1>2. offered' \in Prepared
    BY <1>1 DEF Prepared
  <1>3. /\ history \in Seq(Messages) /\ OneSystem(history) /\ written \in Seq(Writings)
        /\ \E p : AnswersAt(p, history, written, FALSE)
    BY <1>1 DEF ServingInv
  <1>4. <<>> \in Seq(Outputs)
    BY EmptySeq
  <1>5. (sv' = "answered") = FALSE
    BY <1>1
  <1>6. \E p : AnswersAt(p, history', written', sv' = "answered")
    BY <1>1, <1>3, <1>5
  <1>. QED BY <1>1, <1>2, <1>3, <1>4, <1>6 DEF ServingInv

(* a completion more, or one without tokens, keeps it; *)
LEMMA ModelStep ==
  ASSUME ServingInv, (\E o \in Outputs : Generate(o)) \/ RespondFails
  PROVE  ServingInv'
  <1>1. /\ sv = "generate" /\ history' = history /\ written' = written
        /\ offered' = offered /\ prompt' = prompt /\ sv' \in {"generate", "failed"}
    BY DEF Generate, RespondFails
  <1>2. completions' \in Seq(Outputs)
    <2>1. completions \in Seq(Outputs)
      BY DEF ServingInv
    <2>2. completions' = completions \/ \E o \in Outputs : completions' = Append(completions, o)
      BY DEF Generate, RespondFails
    <2>. QED BY <2>1, <2>2, AppendProperties
  <1>3. /\ history \in Seq(Messages) /\ OneSystem(history) /\ written \in Seq(Writings)
        /\ offered \in Prepared /\ prompt = EncodeDialog(history, offered)
        /\ \E p : AnswersAt(p, history, written, FALSE)
    BY <1>1 DEF ServingInv
  <1>4. (sv' = "answered") = FALSE
    BY <1>1
  <1>5. \E p : AnswersAt(p, history', written', sv' = "answered")
    BY <1>1, <1>3, <1>4
  <1>. QED BY <1>1, <1>2, <1>3, <1>5 DEF ServingInv

(* the answer that the client takes is one place more; *)
LEMMA RespondStep ==
  ASSUME ServingInv, Respond
  PROVE  ServingInv'
  <1>1. /\ sv = "generate" /\ sv' = "answered" /\ completions' = completions
    BY DEF Respond
  <1>2. PICK i \in DOMAIN completions :
          /\ history' = Append(history, Choice(completions[i]))
          /\ written' = Append(written, [segs |-> ContentOf(completions[i].segs), tools |-> offered])
    BY DEF Respond
  <1>3. PICK o, m, x : /\ o = completions[i] /\ m = Choice(o)
                       /\ x = [segs |-> ContentOf(o.segs), tools |-> offered]
    OBVIOUS
  <1>4. /\ history \in Seq(Messages) /\ OneSystem(history) /\ written \in Seq(Writings)
        /\ completions \in Seq(Outputs) /\ offered \in Prepared
    BY <1>1 DEF ServingInv
  <1>5. PICK p : AnswersAt(p, history, written, FALSE)
    BY <1>1 DEF ServingInv
  <1>6. o.segs \in Seq(Segments)
    <2>1. o \in Outputs
      BY <1>3, <1>4, LenProperties, ElementOfSeq
    <2>. QED BY <2>1, ServingAssumption
  <1>7. ContentOf(o.segs) \in Seq(Segments)
    BY <1>6, ContentForms
  <1>8. x \in Writings
    BY <1>3, <1>4, <1>7 DEF Writings
  <1>9. PICK a : a = ParseCalls(ContentOf(o.segs), offered)
    OBVIOUS
  <1>10. a.content \in Seq(Segments) /\ a.calls \in Seq(CallForms)
    BY <1>4, <1>7, <1>9, PreparedForms, CallsForms
  <1>11. m = [role |-> "assistant", content |-> a.content, calls |-> a.calls, tool |-> ""]
    BY <1>3, <1>9 DEF Choice, Message
  <1>12. m \in Messages /\ m.role = "assistant"
    <2>1. "" \in Strings
      BY DEF Strings
    <2>. QED BY <1>10, <1>11, <2>1 DEF Messages
  <1>13. IsAnswer(m, x)
    <2>1. x.segs = ContentOf(o.segs) /\ x.tools = offered
      BY <1>3
    <2>2. ParseCalls(x.segs, x.tools) = a
      BY <1>9, <2>1
    <2>3. m.role = "assistant" /\ m.content = a.content /\ m.calls = a.calls
      BY <1>11
    <2>. QED BY <2>2, <2>3 DEF IsAnswer
  <1>14. \E q : AnswersAt(q, Append(history, m), Append(written, x), TRUE)
    BY <1>4, <1>5, <1>8, <1>12, <1>13, PlacesAnswer
  <1>15. history' = Append(history, m) /\ written' = Append(written, x)
    BY <1>2, <1>3
  <1>16. Append(history, m) \in Seq(Messages) /\ Append(written, x) \in Seq(Writings)
    BY <1>4, <1>8, <1>12, AppendProperties
  <1>17. OneSystem(Append(history, m))
    <2>1. PICK H, g : H = Len(history) /\ g = Append(history, m)
      OBVIOUS
    <2>2. H \in Nat /\ Len(g) = H + 1 /\ g[H + 1] = m /\ \A k \in 1..H : g[k] = history[k]
      BY <1>4, <1>12, <2>1, LenProperties, AppendProperties
    <2>3. H >= 1 /\ \A k \in 1..H : history[k].role = "system" <=> k = 1
      BY <1>4, <2>1 DEF OneSystem
    <2>4. ASSUME NEW k \in 1..(H + 1) PROVE g[k].role = "system" <=> k = 1
      <3>1. CASE k = H + 1
        <4>1. k # 1 /\ g[k].role = "assistant"
          BY <1>12, <2>2, <2>3, <3>1
        <4>. QED BY <4>1
      <3>2. CASE k # H + 1
        <4>1. k \in 1..H
          BY <2>2, <3>2
        <4>. QED BY <2>2, <2>3, <4>1
      <3>. QED BY <3>1, <3>2
    <2>5. H + 1 >= 1
      BY <2>2
    <2>. QED BY <2>1, <2>2, <2>4, <2>5 DEF OneSystem
  <1>18. \E q : AnswersAt(q, history', written', sv' = "answered")
    BY <1>1, <1>14, <1>15
  <1>. QED BY <1>1, <1>4, <1>15, <1>16, <1>17, <1>18 DEF ServingInv

(* and what the client says to it closes it. *)
LEMMA ClientStep ==
  ASSUME ServingInv, RunCalls \/ Speak \/ SendAsIs
  PROVE  ServingInv'
  <1>1. PICK H, calls : H = Len(history) /\ calls = history[H].calls
    OBVIOUS
  <1>2. Last(history).calls = calls /\ history[Len(history)].calls = calls
    BY <1>1 DEF Last
  <1>3. calls \in Seq(CallForms)
    <2>1. history \in Seq(Messages) /\ H \in 1..H
      BY <1>1, LenProperties DEF ServingInv, OneSystem
    <2>2. history[H] \in Messages
      BY <1>1, <2>1, ElementOfSeq
    <2>. QED BY <1>1, <2>2 DEF Messages
  <1>4. CASE RunCalls
    <2>1. PICK msgs : msgs = [i \in DOMAIN calls |-> ResultOf(calls[i])]
      OBVIOUS
    <2>2. Told(msgs)
      BY <1>2, <1>4, <2>1 DEF RunCalls
    <2>3. PICK n : n = Len(calls)
      OBVIOUS
    <2>4. n \in Nat /\ DOMAIN calls = 1..n /\ \A i \in 1..n : calls[i] \in CallForms
      BY <1>3, <2>3, LenProperties, ElementOfSeq
    <2>5. ASSUME NEW i \in 1..n
          PROVE  /\ ResultOf(calls[i]) \in Messages /\ ResultOf(calls[i]).role = "tool"
                 /\ ResultOf(calls[i]).tool = calls[i].api
      <3>1. PICK m : m = Message("tool", <<Text("result")>>)
        OBVIOUS
      <3>2. m \in Messages /\ m.role = "tool"
        <4>1. "result" \in Strings
          BY DEF Strings
        <4>2. m \in Messages
          BY <3>1, <4>1, MessageForms
        <4>. QED BY <3>1, <4>2 DEF Message
      <3>3. ResultOf(calls[i]) = [m EXCEPT !.tool = calls[i].api] /\ calls[i].api \in Strings
        BY <2>4, <3>1 DEF ResultOf, CallForms
      <3>. QED BY <3>2, <3>3 DEF Messages
    <2>6. msgs \in Seq(Messages) /\ Len(msgs) = n /\ \A i \in 1..n : msgs[i] = ResultOf(calls[i])
      BY <2>1, <2>4, <2>5
    <2>7. \A i \in 1..Len(msgs) : msgs[i].role \in {"user", "tool"}
      BY <2>5, <2>6
    <2>8. \A i \in 1..Len(calls) : HasResult(msgs, i, calls[i])
      BY <2>3, <2>5, <2>6 DEF HasResult
    <2>. QED BY <1>2, <2>2, <2>6, <2>7, <2>8, ToldStep
  <1>5. ASSUME NEW msgs \in Seq(Messages), \A i \in 1..Len(msgs) : msgs[i].role \in {"user", "tool"},
               calls = <<>>, Told(msgs)
        PROVE  ServingInv'
    <2>1. \A i \in 1..Len(calls) : HasResult(msgs, i, calls[i])
      BY <1>5, EmptySeq
    <2>. QED BY <1>2, <1>5, <2>1, ToldStep
  <1>6. CASE Speak
    <2>1. PICK m : m = Message("user", <<Text("user")>>)
      OBVIOUS
    <2>2. m \in Messages /\ m.role = "user"
      <3>1. "user" \in Strings
        BY DEF Strings
      <3>2. m \in Messages
        BY <2>1, <3>1, MessageForms
      <3>. QED BY <2>1, <3>2 DEF Message
    <2>3. PICK msgs : msgs = <<m>>
      OBVIOUS
    <2>4. msgs \in Seq(Messages) /\ \A i \in 1..Len(msgs) : msgs[i].role \in {"user", "tool"}
      BY <2>2, <2>3
    <2>5. calls = <<>> /\ Told(msgs)
      BY <1>2, <1>6, <2>1, <2>3 DEF Speak
    <2>. QED BY <1>5, <2>4, <2>5
  <1>7. CASE SendAsIs
    <2>1. PICK msgs : msgs = <<>>
      OBVIOUS
    <2>2. msgs \in Seq(Messages) /\ \A i \in 1..Len(msgs) : msgs[i].role \in {"user", "tool"}
      BY <2>1, EmptySeq
    <2>3. calls = <<>> /\ Told(msgs)
      BY <1>2, <1>7, <2>1 DEF SendAsIs
    <2>. QED BY <1>5, <2>2, <2>3
  <1>. QED BY <1>4, <1>6, <1>7

(* Every step keeps the invariant. *)
LEMMA ServingStep == ServingInv /\ [ServingNext]_svvars => ServingInv'
  <1>. SUFFICES ASSUME ServingInv, [ServingNext]_svvars PROVE ServingInv'
    OBVIOUS
  <1>1. CASE \E fds \in ToolSets, think \in BOOLEAN, n \in 1..MaxChoices : Request(fds, think, n)
    BY <1>1, RequestStep
  <1>2. CASE (\E o \in Outputs : Generate(o)) \/ RespondFails
    BY <1>2, ModelStep
  <1>3. CASE Respond
    BY <1>3, RespondStep
  <1>4. CASE RunCalls \/ Speak \/ SendAsIs
    BY <1>4, ClientStep
  <1>5. CASE UNCHANGED svvars
    <2>1. /\ history' = history /\ written' = written /\ completions' = completions
          /\ sv' = sv /\ offered' = offered /\ prompt' = prompt
      BY <1>5 DEF svvars
    <2>. QED BY <2>1 DEF ServingInv
  <1>. QED BY <1>1, <1>2, <1>3, <1>4, <1>5 DEF ServingNext

-----------------------------------------------------------------------------
(* The places of the answers in the prompt, counted. *)
LEMMA CountPlaces ==
  ASSUME NEW n \in Nat, NEW q \in [1..n -> Int], \A k, l \in 1..n : k < l => q[k] < q[l]
  PROVE  /\ Cardinality({q[l] : l \in 1..n}) = n
         /\ \A k \in 1..n : Cardinality({i \in {q[l] : l \in 1..n} : i <= q[k]}) = k
  <1>1. ASSUME NEW m \in Nat, m <= n PROVE Cardinality({q[l] : l \in 1..m}) = m
    <2>1. PICK T : T = {q[l] : l \in 1..m}
      OBVIOUS
    <2>2. PICK f : f = [l \in 1..m |-> q[l]]
      OBVIOUS
    <2>3. \A l \in 1..m : l \in 1..n /\ f[l] = q[l]
      BY <1>1, <2>2
    <2>4. f \in Bijection(1..m, T)
      <3>1. f \in [1..m -> T] /\ \A t \in T : \E l \in 1..m : f[l] = t
        BY <2>1, <2>2
      <3>2. ASSUME NEW a \in 1..m, NEW b \in 1..m, f[a] = f[b] PROVE a = b
        <4>1. q[a] = q[b] /\ a \in 1..n /\ b \in 1..n /\ q[a] \in Int /\ q[b] \in Int
          BY <2>3, <3>2
        <4>2. ~(a < b) /\ ~(b < a)
          BY <4>1
        <4>. QED BY <4>2
      <3>3. f \in Injection(1..m, T)
        BY <3>1, <3>2 DEF Injection, IsInjective
      <3>4. f \in Surjection(1..m, T)
        BY <3>1 DEF Surjection
      <3>. QED BY <3>3, <3>4 DEF Bijection
    <2>5. ExistsBijection(1..m, T)
      BY <2>4 DEF ExistsBijection
    <2>6. IsFiniteSet(1..m) /\ Cardinality(1..m) = m
      <3>1. 1 \in Int /\ m \in Int /\ ~(1 > m) => m - 1 + 1 = m
        OBVIOUS
      <3>2. IsFiniteSet(1..m) /\ Cardinality(1..m) = IF 1 > m THEN 0 ELSE m - 1 + 1
        BY FS_Interval
      <3>. QED BY <3>2
    <2>. QED BY <2>1, <2>5, <2>6, FS_Bijection
  <1>2. ASSUME NEW k \in 1..n PROVE {i \in {q[l] : l \in 1..n} : i <= q[k]} = {q[l] : l \in 1..k}
    <2>1. ASSUME NEW l \in 1..n PROVE q[l] <= q[k] <=> l <= k
      <3>1. q[l] \in Int /\ q[k] \in Int
        OBVIOUS
      <3>2. (l < k => q[l] < q[k]) /\ (k < l => q[k] < q[l])
        OBVIOUS
      <3>3. l < k \/ l = k \/ k < l
        OBVIOUS
      <3>. QED BY <3>1, <3>2, <3>3
    <2>2. \A l \in 1..n : l \in 1..k <=> l <= k
      OBVIOUS
    <2>3. \A l \in 1..k : l \in 1..n
      OBVIOUS
    <2>. QED BY <2>1, <2>2, <2>3
  <1>3. n \in Nat /\ n <= n /\ \A k \in 1..n : k \in Nat /\ k <= n
    OBVIOUS
  <1>. QED BY <1>1, <1>2, <1>3

(* How far the tools put the history back. *)
Shift(tools) == IF tools = <<>> THEN 0 ELSE 1

(* The prompt has the history behind its first message, and the tools. *)
ToldAt(told, h, d) ==
  /\ told \in Seq(Messages) /\ Len(told) = Len(h) + d
  /\ \A i \in 2..Len(h) : told[i + d] = h[i]
  /\ \A i \in 1..Len(told) : i < 2 + d => told[i].role = "system"

(* WithTools makes it so. *)
LEMMA ToldIs ==
  ASSUME NEW h \in Seq(Messages), OneSystem(h), NEW tools
  PROVE  ToldAt(WithTools(h, tools), h, Shift(tools))
  <1>1. PICK n : n = Len(h)
    OBVIOUS
  <1>2. n \in Nat /\ n >= 1 /\ DOMAIN h = 1..n /\ (\A i \in 1..n : h[i] \in Messages)
        /\ \A i \in 1..n : h[i].role = "system" <=> i = 1
    BY <1>1, LenProperties, ElementOfSeq DEF OneSystem
  <1>3. CASE tools = <<>>
    <2>1. WithTools(h, tools) = h /\ Shift(tools) = 0
      BY <1>3 DEF WithTools, Shift
    <2>2. \A i \in 2..n : i + 0 = i
      OBVIOUS
    <2>3. \A i \in 1..n : i < 2 => h[i].role = "system"
      BY <1>2
    <2>4. n + 0 = n /\ 2 + 0 = 2
      BY <1>2
    <2>. QED BY <1>1, <2>1, <2>2, <2>3, <2>4 DEF ToldAt
  <1>4. CASE tools # <<>>
    <2>1. LastSystem(h) = 1
      <3>1. {i \in DOMAIN h : h[i].role = "system"} = {1}
        BY <1>2
      <3>2. Max({1}) \in {1}
        <4>1. 1 \in Int /\ {1} \in SUBSET (1..1) /\ {1} # {}
          OBVIOUS
        <4>. QED BY <4>1, MaxFacts
      <3>. QED BY <3>1, <3>2 DEF LastSystem
    <2>2. PICK m : m = Message("system", <<Text("tools")>>)
      OBVIOUS
    <2>3. m \in Messages /\ m.role = "system"
      <3>1. "tools" \in Strings
        BY DEF Strings
      <3>2. m \in Messages
        BY <2>2, <3>1, MessageForms
      <3>. QED BY <2>2, <3>2 DEF Message
    <2>4. PICK a, b : a = SubSeq(h, 1, 1) /\ b = SubSeq(h, 2, n)
      OBVIOUS
    <2>5. WithTools(h, tools) = (a \o <<m>>) \o b
      <3>1. 1 + 1 = 2 /\ 2 - 1 = 1
        OBVIOUS
      <3>. QED BY <1>1, <1>4, <2>1, <2>2, <2>4, <3>1 DEF WithTools, InsertAt
    <2>6. a \in Seq(Messages) /\ Len(a) = 1 /\ a[1] = h[1]
      <3>1. 1 \in Int /\ \A i \in 1..1 : h[i] \in Messages
        BY <1>2
      <3>2. /\ SubSeq(h, 1, 1) \in Seq(Messages) /\ Len(SubSeq(h, 1, 1)) = IF 1 <= 1 THEN 1 - 1 + 1 ELSE 0
            /\ \A i \in 1..(1 - 1 + 1) : SubSeq(h, 1, 1)[i] = h[1 + i - 1]
        BY <3>1, SubSeqProperties
      <3>. QED BY <2>4, <3>2
    <2>7. b \in Seq(Messages) /\ Len(b) = n - 1 /\ \A i \in 1..(n - 1) : b[i] = h[i + 1]
      <3>1. 2 \in Int /\ n \in Int /\ \A i \in 2..n : h[i] \in Messages
        BY <1>2
      <3>2. /\ SubSeq(h, 2, n) \in Seq(Messages)
            /\ Len(SubSeq(h, 2, n)) = IF 2 <= n THEN n - 2 + 1 ELSE 0
            /\ \A i \in 1..(n - 2 + 1) : SubSeq(h, 2, n)[i] = h[2 + i - 1]
        BY <3>1, SubSeqProperties
      <3>3. n - 2 + 1 = n - 1 /\ (~(2 <= n) => n - 1 = 0) /\ \A i \in 1..(n - 1) : 2 + i - 1 = i + 1
        BY <1>2
      <3>. QED BY <2>4, <3>2, <3>3
    <2>8. PICK c : c = a \o <<m>>
      OBVIOUS
    <2>9. c \in Seq(Messages) /\ Len(c) = 2 /\ c[1] = h[1] /\ c[2] = m
      <3>1. <<m>> \in Seq(Messages) /\ Len(<<m>>) = 1 /\ <<m>>[1] = m
        BY <2>3
      <3>2. /\ a \o <<m>> \in Seq(Messages) /\ Len(a \o <<m>>) = Len(a) + Len(<<m>>)
            /\ \A i \in 1..(Len(a) + Len(<<m>>)) :
                 (a \o <<m>>)[i] = IF i <= Len(a) THEN a[i] ELSE <<m>>[i - Len(a)]
        BY <2>6, <3>1, ConcatProperties
      <3>. QED BY <2>6, <2>8, <3>1, <3>2
    <2>10. PICK told : told = c \o b
      OBVIOUS
    <2>11. /\ told \in Seq(Messages) /\ Len(told) = 2 + (n - 1)
           /\ \A i \in 1..(2 + (n - 1)) : told[i] = IF i <= 2 THEN c[i] ELSE b[i - 2]
      <3>1. c \in Seq(Messages) /\ b \in Seq(Messages)
        BY <2>7, <2>9
      <3>2. /\ c \o b \in Seq(Messages) /\ Len(c \o b) = Len(c) + Len(b)
            /\ \A i \in 1..(Len(c) + Len(b)) :
                 (c \o b)[i] = IF i <= Len(c) THEN c[i] ELSE b[i - Len(c)]
        BY ONLY <3>1, ConcatProperties
      <3>3. Len(c) = 2 /\ Len(b) = n - 1
        BY <2>7, <2>9
      <3>. QED BY <2>10, <3>2, <3>3
    <2>12. ASSUME NEW i \in 2..n PROVE told[i + 1] = h[i]
      <3>1. i + 1 \in 1..(2 + (n - 1)) /\ ~(i + 1 <= 2) /\ (i + 1) - 2 = i - 1
        BY <1>2
      <3>2. i - 1 \in 1..(n - 1) /\ (i - 1) + 1 = i
        BY <1>2
      <3>. QED BY <2>7, <2>11, <3>1, <3>2
    <2>13. ASSUME NEW i \in 1..(n + 1), i < 3 PROVE told[i].role = "system"
      <3>1. i \in 1..(2 + (n - 1)) /\ i <= 2 /\ (i = 1 \/ i = 2)
        BY <1>2, <2>13
      <3>2. h[1].role = "system"
        BY <1>2
      <3>. QED BY <2>3, <2>9, <2>11, <3>1, <3>2
    <2>14. 2 + (n - 1) = n + 1 /\ 2 + 1 = 3
      BY <1>2
    <2>15. Shift(tools) = 1 /\ WithTools(h, tools) = told
      BY <1>4, <2>5, <2>8, <2>10 DEF Shift
    <2>. QED BY <1>1, <2>11, <2>12, <2>13, <2>14, <2>15 DEF ToldAt
  <1>. QED BY <1>3, <1>4

(* A message in the prompt: its header and what follows it. *)
HeaderOf(m) == IF m.role = "tool" THEN <<"tool", m.tool>> ELSE <<m.role>>
BodyOf(m, tools) == m.content \o FormatCalls(m.calls, tools)
LEMMA ConvertIs ==
  \A m, tools : Convert(m, tools) = [header |-> HeaderOf(m), body |-> BodyOf(m, tools)]
  BY DEF Convert, HeaderOf, BodyOf

(* The model is shown what it did. *)
LEMMA ServingShows == ASSUME ToolsAgree, ServingInv PROVE ShownWhatItDid
  <1>. SUFFICES ASSUME sv = "generate" PROVE ShownWhatItDid
    BY DEF ShownWhatItDid
  <1>1. /\ history \in Seq(Messages) /\ OneSystem(history) /\ written \in Seq(Writings)
        /\ offered \in Prepared /\ prompt = EncodeDialog(history, offered)
    BY DEF ServingInv
  <1>2. PICK p : AnswersAt(p, history, written, FALSE)
    BY DEF ServingInv
  <1>3. PICK H, n, d, told : /\ H = Len(history) /\ n = Len(written) /\ d = Shift(offered)
                             /\ told = WithTools(history, offered)
    OBVIOUS
  <1>4. H \in Nat /\ n \in Nat /\ d \in {0, 1} /\ DOMAIN written = 1..n
    BY <1>1, <1>3, LenProperties DEF Shift
  <1>5. /\ told \in Seq(Messages) /\ Len(told) = H + d
        /\ \A i \in 2..H : told[i + d] = history[i]
        /\ \A i \in 1..Len(told) : i < 2 + d => told[i].role = "system"
    BY <1>1, <1>3, ToldIs DEF ToldAt
  <1>6. DOMAIN told = 1..(H + d)
    BY <1>5, LenProperties
  <1>7. /\ DOMAIN prompt = 1..(H + d)
        /\ \A i \in 1..(H + d) : prompt[i] = Convert(told[i], offered)
    BY <1>1, <1>3, <1>6 DEF EncodeDialog
  <1>8. ASSUME NEW i \in 1..(H + d)
        PROVE  prompt[i].header = <<"assistant">> <=> told[i].role = "assistant"
    <2>1. prompt[i].header = IF told[i].role = "tool" THEN <<"tool", told[i].tool>> ELSE <<told[i].role>>
      <3>1. prompt[i] = Convert(told[i], offered)
        BY <1>7
      <3>2. Convert(told[i], offered) = [header |-> HeaderOf(told[i]), body |-> BodyOf(told[i], offered)]
        BY ONLY ConvertIs
      <3>3. prompt[i].header = HeaderOf(told[i])
        BY <3>1, <3>2
      <3>. QED BY <3>3 DEF HeaderOf
    <2>2. CASE told[i].role = "tool"
      <3>1. prompt[i].header = <<"tool", told[i].tool>>
        BY <2>1, <2>2
      <3>. QED BY <2>2, <3>1
    <2>3. CASE told[i].role # "tool"
      <3>1. prompt[i].header = <<told[i].role>>
        BY <2>1, <2>3
      <3>. QED BY <3>1
    <2>. QED BY <2>2, <2>3
  <1>9. ASSUME NEW k \in 1..n
        PROVE  /\ p[k] \in 2..H /\ IsAnswer(history[p[k]], written[k])
               /\ Results(history, p[k], FALSE)
    <2>1. p[k] \in 1..H /\ IsAnswer(history[p[k]], written[k]) /\ Results(history, p[k], FALSE)
      BY <1>2, <1>3 DEF AnswersAt
    <2>2. p[k] # 1
      <3>1. history[p[k]].role # "system"
        BY <2>1 DEF IsAnswer
      <3>. QED BY <1>1, <1>3, <2>1, <3>1 DEF OneSystem
    <2>3. PICK x : x = p[k]
      OBVIOUS
    <2>4. x \in 2..H
      BY <1>4, <2>1, <2>2, <2>3
    <2>. QED BY <2>1, <2>3, <2>4
  <1>10. PICK q : q = [k \in 1..n |-> p[k] + d]
    OBVIOUS
  <1>11. ASSUME NEW k \in 1..n
         PROVE  q[k] = p[k] + d /\ q[k] \in 1..(H + d) /\ q[k] \in Int
    <2>1. p[k] + d \in 1..(H + d)
      <3>1. PICK x : x = p[k]
        OBVIOUS
      <3>2. x \in 2..H
        BY <1>9, <3>1
      <3>3. x + d \in 1..(H + d)
        BY <1>4, <3>2
      <3>. QED BY <3>1, <3>3
    <2>. QED BY <1>10, <2>1
  <1>12. q \in [1..n -> Int] /\ \A k, l \in 1..n : k < l => q[k] < q[l]
    <2>1. q \in [1..n -> Int]
      BY <1>10, <1>11
    <2>2. ASSUME NEW k \in 1..n, NEW l \in 1..n, k < l PROVE q[k] < q[l]
      <3>1. p[k] < p[l] /\ p[k] \in Int /\ p[l] \in Int
        BY <1>2, <1>3, <1>9, <2>2 DEF AnswersAt
      <3>. QED BY <1>4, <1>11, <3>1
    <2>. QED BY <2>1, <2>2
  <1>13. PICK Q : Q = {q[l] : l \in 1..n}
    OBVIOUS
  <1>14. Positions(<<"assistant">>) = Q
    <2>1. ASSUME NEW k \in 1..n PROVE q[k] \in Positions(<<"assistant">>)
      <3>1. told[q[k]] = history[p[k]] /\ history[p[k]].role = "assistant"
        BY <1>5, <1>9, <1>11 DEF IsAnswer
      <3>. QED BY <1>7, <1>8, <1>11, <3>1 DEF Positions
    <2>2. ASSUME NEW i \in Positions(<<"assistant">>) PROVE i \in Q
      <3>1. i \in 1..(H + d) /\ told[i].role = "assistant"
        BY <1>7, <1>8, <2>2 DEF Positions
      <3>2. ~(i < 2 + d)
        BY <1>5, <3>1
      <3>3. PICK j : j = i - d
        OBVIOUS
      <3>4. j \in 2..H /\ j \in 1..H /\ j + d = i
        BY <1>4, <3>1, <3>2, <3>3
      <3>5. history[j].role = "assistant"
        BY <1>5, <3>1, <3>4
      <3>6. PICK k \in 1..n : p[k] = j
        BY <1>2, <1>3, <3>4, <3>5 DEF AnswersAt
      <3>7. q[k] = i
        BY <1>11, <3>4, <3>6
      <3>. QED BY <1>13, <3>7
    <2>. QED BY <1>13, <2>1, <2>2
  <1>15. /\ Cardinality(Q) = n
         /\ \A k \in 1..n : Cardinality({i \in Q : i <= q[k]}) = k
    BY <1>4, <1>12, <1>13, CountPlaces
  <1>16. ASSUME NEW k \in 1..n PROVE AnswerAt(k) = q[k]
    <2>1. AnswerAt(k) = CHOOSE i \in Q : Cardinality({j \in Q : j <= i}) = k
      BY <1>14 DEF AnswerAt
    <2>2. q[k] \in Q /\ Cardinality({j \in Q : j <= q[k]}) = k
      BY <1>13, <1>15
    <2>3. ASSUME NEW i \in Q, Cardinality({j \in Q : j <= i}) = k PROVE i = q[k]
      <3>1. PICK l \in 1..n : i = q[l]
        BY <1>13
      <3>2. Cardinality({j \in Q : j <= q[l]}) = l
        BY <1>15
      <3>. QED BY <2>3, <3>1, <3>2
    <2>. QED BY <2>1, <2>2, <2>3
  <1>17. ASSUME NEW k \in 1..n
         PROVE  LET spot    == AnswerAt(k)
                    wrote == written[k]
                    calls == Only(wrote.segs, Calls)
                    api(call) == LastOf(wrote.tools, ByName(wrote.tools, call.tool)).api
                IN /\ Only(prompt[spot].body, Texts) = Only(wrote.segs, Texts)
                   /\ (\A i \in DOMAIN calls : Known(calls[i], wrote.tools)) =>
                        /\ Only(prompt[spot].body, Calls)
                             = Only(calls, {s \in ToSet(calls) : Known(s, offered)})
                        /\ \A i \in DOMAIN calls :
                             spot + i \in DOMAIN prompt
                             /\ prompt[spot + i].header = <<"tool", api(calls[i])>>
    <2>1. PICK spot, segs, tools, m, cs :
            /\ spot = AnswerAt(k) /\ segs = written[k].segs /\ tools = written[k].tools
            /\ m = history[p[k]] /\ cs = Only(segs, Calls)
      OBVIOUS
    <2>2. spot = p[k] + d /\ spot \in 1..(H + d) /\ told[spot] = m
      <3>1. spot = q[k]
        BY <1>16, <2>1
      <3>2. q[k] = p[k] + d /\ q[k] \in 1..(H + d) /\ p[k] \in 2..H
        BY <1>9, <1>11
      <3>3. told[p[k] + d] = history[p[k]]
        BY <1>5, <3>2
      <3>. QED BY <2>1, <3>1, <3>2, <3>3
    <2>3. segs \in Seq(Segments) /\ tools \in Prepared
      <3>1. written[k] \in Writings
        BY <1>1, <1>3, ElementOfSeq
      <3>. QED BY <2>1, <3>1 DEF Writings
    <2>4. m.content = ParseCalls(segs, tools).content /\ m.calls = ParseCalls(segs, tools).calls
      BY <1>9, <2>1 DEF IsAnswer
    <2>5. prompt[spot].body = m.content \o FormatCalls(m.calls, offered)
      <3>1. prompt[spot] = Convert(m, offered)
        BY <1>7, <2>2
      <3>2. Convert(m, offered) = [header |-> HeaderOf(m), body |-> BodyOf(m, offered)]
        BY ONLY ConvertIs
      <3>3. prompt[spot].body = BodyOf(m, offered)
        BY <3>1, <3>2
      <3>. QED BY <3>3 DEF BodyOf
    <2>6. ShownIn(prompt[spot].body, segs, tools, offered)
      BY <1>1, <2>3, <2>4, <2>5, AnswerShown
    <2>7. cs \in Seq(Segments) /\ DOMAIN cs = 1..Len(cs)
      <3>1. cs \in Seq(Segments)
        BY <2>1, <2>3, OnlyFacts
      <3>. QED BY <3>1, LenProperties
    <2>8. ASSUME \A i \in DOMAIN cs : Known(cs[i], tools), NEW i \in DOMAIN cs
          PROVE  /\ spot + i \in DOMAIN prompt
                 /\ prompt[spot + i].header = <<"tool", LastOf(tools, ByName(tools, cs[i].tool)).api>>
      <3>1. i \in 1..Len(m.calls) /\ m.calls[i].api = LastOf(tools, ByName(tools, cs[i].tool)).api
        BY <2>1, <2>4, <2>6, <2>7, <2>8 DEF ShownIn
      <3>2. HasResult(history, p[k] + i, m.calls[i])
        BY <1>9, <2>1, <3>1 DEF Results
      <3>3. PICK j : j = p[k] + i
        OBVIOUS
      <3>4. j \in 1..H /\ history[j].role = "tool" /\ history[j].tool = m.calls[i].api
        BY <1>3, <3>2, <3>3 DEF HasResult
      <3>5. j \in 2..H /\ spot + i = j + d /\ j + d \in 1..(H + d)
        <4>1. PICK x : x = p[k]
          OBVIOUS
        <4>2. x \in 2..H /\ j = x + i /\ spot = x + d
          BY <1>9, <2>2, <3>3, <4>1
        <4>3. i \in Int /\ i >= 1
          BY <3>1
        <4>4. x \in Int /\ x >= 2 /\ j \in Int /\ j <= H /\ d \in Int /\ d >= 0
          BY <1>4, <3>4, <4>2
        <4>5. j >= 2 /\ spot + i = j + d
          BY ONLY <4>2, <4>3, <4>4
        <4>6. j + d \in 1..(H + d)
          BY ONLY <1>4, <4>4, <4>5
        <4>7. j \in 2..H
          BY <1>4, <4>4, <4>5
        <4>. QED BY <4>5, <4>6, <4>7
      <3>6. told[j + d] = history[j]
        BY <1>5, <3>5
      <3>7. prompt[spot + i].header = <<"tool", history[j].tool>>
        <4>1. prompt[spot + i] = Convert(history[j], offered)
          BY <1>7, <3>5, <3>6
        <4>2. prompt[spot + i].header = IF history[j].role = "tool" THEN <<"tool", history[j].tool>>
                                       ELSE <<history[j].role>>
          <5>1. Convert(history[j], offered)
                  = [header |-> HeaderOf(history[j]), body |-> BodyOf(history[j], offered)]
            BY ONLY ConvertIs
          <5>2. prompt[spot + i].header = HeaderOf(history[j])
            BY <4>1, <5>1
          <5>. QED BY <5>2 DEF HeaderOf
        <4>. QED BY <3>4, <4>2
      <3>. QED BY <1>7, <3>1, <3>4, <3>5, <3>7
    <2>. QED BY <2>1, <2>6, <2>8 DEF ShownIn
  <1>. QED BY <1>3, <1>4, <1>14, <1>15, <1>17 DEF ShownWhatItDid

(* For every conversation of a client whose tools keep their names: the      *)
(* model is shown each of its answers and its results, in order, as it       *)
(* wrote them.                                                               *)
THEOREM ConversationKept == ToolsAgree => (ServingSpec => []ShownWhatItDid)
  <1>. SUFFICES ASSUME ToolsAgree PROVE ServingSpec => []ShownWhatItDid
    OBVIOUS
  <1>1. ServingInit => ServingInv
    BY ServingStarts
  <1>2. ServingInv /\ [ServingNext]_svvars => ServingInv'
    BY ServingStep
  <1>3. ServingInv => ShownWhatItDid
    BY ServingShows
  <1>. QED BY <1>1, <1>2, <1>3, PTL DEF ServingSpec
=============================================================================
