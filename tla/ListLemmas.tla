----------------------------- MODULE ListLemmas -----------------------------
(***************************************************************************)
(* Lemmas about loops over lists and sums over finite sets.  Induction is  *)
(* used in the form of the least element of a set of numbers, since the    *)
(* provers cannot instantiate the theorems that take a predicate.          *)
(***************************************************************************)
EXTENDS Lists, Integers, SequencesExt, FiniteSetTheorems, WellFoundedInduction, TLAPS

-----------------------------------------------------------------------------
(* A set of numbers that is not empty has a least one.                     *)
LEMMA LeastExists ==
  ASSUME NEW T \in SUBSET Nat, T # {}
  PROVE  \E x \in T : \A y \in T : x <= y
<1>1. PICK x \in T : \A y \in T : ~(<<y, x>> \in OpToRel(<, Nat))
  BY NatLessThanWellFounded, WFMin
<1>2. x \in Nat /\ \A y \in T : y \in Nat /\ ~(y < x)
  BY <1>1 DEF OpToRel
<1>3. \A y \in T : x <= y
  BY <1>2
<1> QED
  BY <1>1, <1>3

(* A set of numbers, none above n, has a greatest one.                     *)
LEMMA GreatestExists ==
  ASSUME NEW n \in Nat, NEW I \in SUBSET (0..n), I # {}
  PROVE  \E j \in I : \A k \in I : k <= j
<1> DEFINE T == {n - j : j \in I}
<1>1. PICK x \in T : \A y \in T : x <= y
  <2>1. T \subseteq Nat
    OBVIOUS
  <2>2. T # {}
    OBVIOUS
  <2> HIDE DEF T
  <2> QED
    BY <2>1, <2>2, LeastExists
<1>2. PICK j \in I : x = n - j
  BY <1>1
<1>3. \A k \in I : n - j <= n - k
  BY <1>1, <1>2
<1> QED
  BY <1>3

(* Induction up to n: a set of numbers with 0 that contains the successor  *)
(* of each of its elements below n.                                        *)
LEMMA UpTo ==
  ASSUME NEW n \in Nat, NEW S, 0 \in S, \A i \in 0..n : i \in S /\ i < n => i + 1 \in S
  PROVE  \A i \in 0..n : i \in S
<1> SUFFICES ASSUME (0..n) \ S # {} PROVE FALSE
  OBVIOUS
<1>1. PICK x \in (0..n) \ S : \A y \in (0..n) \ S : x <= y
  <2>1. (0..n) \ S \in SUBSET Nat
    OBVIOUS
  <2> QED
    BY <2>1, LeastExists
<1>2. x \in Nat /\ x # 0 /\ x - 1 \in 0..n /\ x - 1 < n
  BY <1>1
<1>3. x - 1 \in S
  BY <1>1, <1>2
<1> QED
  BY <1>1, <1>2, <1>3

(* f is the loop that begins with first and makes n steps in T.            *)
IsLoop(f, n, T, first, next) ==
  /\ f \in [0..n -> T]
  /\ f[0] = first
  /\ \A i \in 1..n : f[i] = next[i][f[i - 1]]

(* A loop whose steps stay in a set exists.                                *)
LEMMA LoopExists ==
  ASSUME NEW n \in Nat, NEW T, NEW first \in T, NEW next \in [1..n -> [T -> T]]
  PROVE  \E f : IsLoop(f, n, T, first, next)
<1> DEFINE Loop(f, k) == IsLoop(f, k, T, first, next)
           S == {k \in 0..n : \E f : Loop(f, k)}
<1> USE DEF IsLoop
<1>1. 0 \in S
  <2> DEFINE g == [i \in 0..0 |-> first]
  <2>1. g \in [0..0 -> T] /\ Loop(g, 0)
    OBVIOUS
  <2> HIDE DEF Loop, g
  <2> QED
    BY <2>1
<1>2. ASSUME NEW k \in 0..n, k \in S, k < n PROVE k + 1 \in S
  <2>1. PICK f : Loop(f, k)
    BY <1>2
  <2> DEFINE g == [i \in 0..(k + 1) |-> IF i = k + 1 THEN next[k + 1][f[k]] ELSE f[i]]
  <2>2. next[k + 1][f[k]] \in T
    <3>1. k + 1 \in 1..n /\ f[k] \in T
      BY <1>2, <2>1
    <3>2. next[k + 1] \in [T -> T]
      BY <3>1
    <3> QED
      BY <3>1, <3>2
  <2>3. g \in [0..(k + 1) -> T]
    BY <1>2, <2>1, <2>2
  <2>4. g[0] = first
    BY <1>2, <2>1
  <2>5. \A i \in 1..(k + 1) : g[i] = next[i][g[i - 1]]
    <3> SUFFICES ASSUME NEW i \in 1..(k + 1) PROVE g[i] = next[i][g[i - 1]]
      OBVIOUS
    <3>1. g[i - 1] = f[i - 1]
      BY <1>2
    <3>2. CASE i = k + 1
      <4>1. g[i] = next[k + 1][f[k]] /\ i - 1 = k
        BY <1>2, <3>2
      <4> QED
        BY <3>1, <3>2, <4>1
    <3>3. CASE i # k + 1
      <4>1. i \in 1..k /\ g[i] = f[i]
        BY <1>2, <3>3
      <4> QED
        BY <2>1, <3>1, <4>1
    <3> QED
      BY <3>2, <3>3
  <2>6. Loop(g, k + 1)
    BY <2>3, <2>4, <2>5
  <2> HIDE DEF Loop, g
  <2> QED
    BY <1>2, <2>3, <2>6
<1> HIDE DEF Loop
<1>3. n \in S
  <2> HIDE DEF S
  <2>1. \A k \in 0..n : k \in S
    BY <1>1, <1>2, UpTo
  <2> QED
    BY <2>1
<1> QED
  BY <1>3 DEF Loop

-----------------------------------------------------------------------------
(* t is what the walk over the first n elements of s keeps of them: at[i]  *)
(* is the place in s that the i-th element of t comes from.                *)
KeepsOf(t, at, s, n, S) ==
  /\ at \in [1..Len(t) -> 1..n]
  /\ \A i \in 1..Len(t) : t[i] = s[at[i]] /\ i <= at[i]
  /\ \A i, j \in 1..Len(t) : i < j => at[i] < at[j]
  /\ \A k \in 1..n : s[k] \in S <=> \E i \in 1..Len(t) : at[i] = k

(* One more element is walked over.                                        *)
LEMMA KeepsOneMore ==
  ASSUME NEW T, NEW s \in Seq(T), NEW S, NEW n \in 0..Len(s), n < Len(s),
         NEW t \in Seq(T), NEW at, KeepsOf(t, at, s, n, S)
  PROVE  IF s[n + 1] \in S
         THEN /\ Append(t, s[n + 1]) \in Seq(T)
              /\ \E up : KeepsOf(Append(t, s[n + 1]), up, s, n + 1, S)
         ELSE KeepsOf(t, at, s, n + 1, S)
<1>1. CASE s[n + 1] \notin S
  BY <1>1 DEF KeepsOf
<1>2. CASE s[n + 1] \in S
  <2> DEFINE m == Len(t) + 1
             u == Append(t, s[n + 1])
             up == [i \in 1..m |-> IF i = m THEN n + 1 ELSE at[i]]
  <2>1. s[n + 1] \in T /\ u \in Seq(T) /\ Len(u) = m /\ u[m] = s[n + 1]
    OBVIOUS
  <2>2. \A i \in 1..Len(t) : u[i] = t[i] /\ up[i] = at[i]
    OBVIOUS
  <2>3. up \in [1..Len(u) -> 1..(n + 1)]
    BY <2>1 DEF KeepsOf
  <2>4. \A i \in 1..Len(u) : u[i] = s[up[i]] /\ i <= up[i]
    <3> SUFFICES ASSUME NEW i \in 1..m PROVE u[i] = s[up[i]] /\ i <= up[i]
      BY <2>1
    <3>1. CASE i = m
      <4>1. Len(t) <= n
        BY DEF KeepsOf
      <4> QED
        BY <2>1, <3>1, <4>1
    <3>2. CASE i # m
      BY <2>2, <3>2 DEF KeepsOf
    <3> QED
      BY <3>1, <3>2
  <2>5. \A i, j \in 1..Len(u) : i < j => up[i] < up[j]
    <3> SUFFICES ASSUME NEW i \in 1..m, NEW j \in 1..m, i < j PROVE up[i] < up[j]
      BY <2>1
    <3>1. i \in 1..Len(t) /\ at[i] \in 1..n /\ up[i] = at[i]
      BY DEF KeepsOf
    <3>2. CASE j = m
      BY <3>1, <3>2
    <3>3. CASE j # m
      <4>1. j \in 1..Len(t) /\ up[j] = at[j]
        BY <3>3, <2>2
      <4>2. at[i] < at[j]
        BY <3>1, <4>1 DEF KeepsOf
      <4> QED
        BY <3>1, <4>1, <4>2
    <3> QED
      BY <3>2, <3>3
  <2>6. ASSUME NEW k \in 1..(n + 1)
        PROVE  s[k] \in S <=> \E i \in 1..Len(u) : up[i] = k
    <3>1. CASE k = n + 1
      <4>1. m \in 1..Len(u) /\ up[m] = n + 1
        BY <2>1
      <4> QED
        BY <1>2, <3>1, <4>1
    <3>2. CASE k # n + 1
      <4>1. k \in 1..n
        BY <3>2
      <4>2. s[k] \in S <=> \E i \in 1..Len(t) : at[i] = k
        BY <4>1 DEF KeepsOf
      <4>3. \A i \in 1..Len(u) : up[i] = k => i \in 1..Len(t) /\ at[i] = k
        BY <2>1, <3>2
      <4>4. \A i \in 1..Len(t) : i \in 1..Len(u) /\ up[i] = at[i]
        BY <2>1, <2>2
      <4> QED
        BY <4>2, <4>3, <4>4
    <3> QED
      BY <3>1, <3>2
  <2> HIDE DEF u, up, m
  <2>7. KeepsOf(u, up, s, n + 1, S)
    BY <2>3, <2>4, <2>5, <2>6 DEF KeepsOf
  <2>8. u \in Seq(T) /\ \E x : KeepsOf(u, x, s, n + 1, S)
    BY <2>1, <2>7
  <2> QED
    BY <1>2, <2>8 DEF u
<1> QED
  BY <1>1, <1>2

(* What the loop keeps of a list.                                          *)
LEMMA KeptFacts ==
  ASSUME NEW T, NEW s \in Seq(T), NEW S
  PROVE  /\ Kept(s, S) \in Seq(T)
         /\ \E at : KeepsOf(Kept(s, S), at, s, Len(s), S)
<1> DEFINE n == Len(s)
           step == [i \in 1..n |->
                      [t \in Seq(T) |-> IF s[i] \in S THEN Append(t, s[i]) ELSE t]]
           Walk(f) == f = [i \in 0..n |-> IF i = 0 THEN <<>>
                                          ELSE IF s[i] \in S THEN Append(f[i - 1], s[i])
                                          ELSE f[i - 1]]
<1>1. n \in Nat /\ <<>> \in Seq(T) /\ step \in [1..n -> [Seq(T) -> Seq(T)]]
  OBVIOUS
<1>2. \E f : Walk(f)
  <2> HIDE DEF step, n
  <2>1. PICK f : IsLoop(f, n, Seq(T), <<>>, step)
    BY <1>1, LoopExists
  <2> USE <2>1 DEF IsLoop
  <2>2. ASSUME NEW i \in 1..n
        PROVE  f[i] = IF s[i] \in S THEN Append(f[i - 1], s[i]) ELSE f[i - 1]
    <3>1. i - 1 \in 0..n
      BY <1>1
    <3>2. f[i - 1] \in Seq(T) /\ f[i] = step[i][f[i - 1]]
      BY <2>1, <3>1
    <3> QED
      BY <3>2 DEF step
  <2>3. \A i \in 0..n : f[i] = IF i = 0 THEN <<>>
                               ELSE IF s[i] \in S THEN Append(f[i - 1], s[i])
                               ELSE f[i - 1]
    <3> SUFFICES ASSUME NEW i \in 0..n
                 PROVE  f[i] = IF i = 0 THEN <<>>
                               ELSE IF s[i] \in S THEN Append(f[i - 1], s[i])
                               ELSE f[i - 1]
      OBVIOUS
    <3>1. CASE i = 0
      BY <2>1, <3>1
    <3>2. CASE i # 0
      <4>1. i \in 1..n
        BY <1>1, <3>2
      <4> QED
        BY <2>2, <3>2, <4>1
    <3> QED
      BY <3>1, <3>2
  <2>4. f = [i \in 0..n |-> f[i]]
    BY <2>1
  <2>5. Walk(f)
    BY <2>3, <2>4
  <2> QED
    BY <2>5
<1> DEFINE F == CHOOSE f : Walk(f)
<1>3. F = [i \in 0..n |-> IF i = 0 THEN <<>>
                          ELSE IF s[i] \in S THEN Append(F[i - 1], s[i])
                          ELSE F[i - 1]]
  <2>1. Walk(F)
    <3> HIDE DEF Walk
    <3> QED
      BY <1>2
  <2> QED
    BY <2>1
<1>4. Kept(s, S) = F[n]
  BY DEF Kept
<1> DEFINE Good == {i \in 0..n : F[i] \in Seq(T) /\ \E at : KeepsOf(F[i], at, s, i, S)}
<1> HIDE DEF F, step, Walk
<1>5. 0 \in Good
  <2>1. F[0] = <<>>
    BY <1>1, <1>3
  <2>2. KeepsOf(<<>>, [i \in {} |-> 0], s, 0, S)
    BY DEF KeepsOf
  <2>3. 0 \in 0..n /\ F[0] \in Seq(T) /\ \E at : KeepsOf(F[0], at, s, 0, S)
    BY <1>1, <2>1, <2>2
  <2> QED
    BY <2>3
<1>6. ASSUME NEW i \in 0..n, i \in Good, i < n PROVE i + 1 \in Good
  <2>1. F[i + 1] = IF s[i + 1] \in S THEN Append(F[i], s[i + 1]) ELSE F[i]
    <3> DEFINE j == i + 1
    <3>1. j \in 0..n /\ j # 0 /\ j - 1 = i
      BY <1>1, <1>6
    <3> HIDE DEF j
    <3>2. F[j] = IF s[j] \in S THEN Append(F[j - 1], s[j]) ELSE F[j - 1]
      BY <1>3, <3>1
    <3> QED
      BY <3>1, <3>2 DEF j
  <2>2. PICK at : KeepsOf(F[i], at, s, i, S)
    BY <1>6
  <2>3. F[i] \in Seq(T)
    BY <1>6
  <2>4. F[i + 1] \in Seq(T) /\ \E up : KeepsOf(F[i + 1], up, s, i + 1, S)
    BY <1>6, <2>1, <2>2, <2>3, KeepsOneMore
  <2> QED
    BY <1>6, <2>4
<1>7. n \in Good
  <2> HIDE DEF Good, n
  <2>1. \A i \in 0..n : i \in Good
    BY <1>1, <1>5, <1>6, UpTo
  <2> QED
    BY <1>1, <2>1
<1> QED
  BY <1>4, <1>7

(* t has the elements of s that are in S, and is no longer than s.         *)
ElementsOf(t, s, S) ==
  /\ Len(t) <= Len(s)
  /\ \A c : (\E i \in 1..Len(t) : t[i] = c) <=> c \in S /\ \E k \in 1..Len(s) : s[k] = c

(* The elements of what is kept, and its length.                           *)
LEMMA KeptElements ==
  ASSUME NEW T, NEW s \in Seq(T), NEW S
  PROVE  Kept(s, S) \in Seq(T) /\ ElementsOf(Kept(s, S), s, S)
<1> DEFINE t == Kept(s, S)
<1>1. PICK at : t \in Seq(T) /\ KeepsOf(t, at, s, Len(s), S)
  BY KeptFacts
<1> HIDE DEF t
<1>2. Len(t) <= Len(s)
  BY <1>1 DEF KeepsOf
<1>3. \A i \in 1..Len(t) : at[i] \in 1..Len(s) /\ t[i] = s[at[i]] /\ s[at[i]] \in S
  BY <1>1 DEF KeepsOf
<1>4. \A k \in 1..Len(s) : s[k] \in S => \E i \in 1..Len(t) : t[i] = s[k]
  BY <1>1 DEF KeepsOf
<1>5. \A c : (\E i \in 1..Len(t) : t[i] = c) <=> c \in S /\ \E k \in 1..Len(s) : s[k] = c
  BY <1>3, <1>4
<1> QED
  BY <1>1, <1>2, <1>5 DEF t, ElementsOf

(* A list without repetitions.                                             *)
Distinct(s) == \A i, j \in 1..Len(s) : s[i] = s[j] => i = j

(* What stands in front of what in s, and is in S, does so in t, and no    *)
(* element of t stands in front of another without doing so in s.          *)
OrderOf(t, s, S) ==
  /\ \A i, j \in 1..Len(s) :
       i < j /\ s[i] \in S /\ s[j] \in S
         => \E k, l \in 1..Len(t) : k < l /\ t[k] = s[i] /\ t[l] = s[j]
  /\ \A k, l \in 1..Len(t) :
       k < l => \E i, j \in 1..Len(s) : i < j /\ t[k] = s[i] /\ t[l] = s[j]

(* What is kept of a list without repetitions has none, in the same order. *)
LEMMA KeptOrder ==
  ASSUME NEW T, NEW s \in Seq(T), NEW S, Distinct(s)
  PROVE  Distinct(Kept(s, S)) /\ OrderOf(Kept(s, S), s, S)
<1> DEFINE t == Kept(s, S)
<1>1. PICK at : t \in Seq(T) /\ KeepsOf(t, at, s, Len(s), S)
  BY KeptFacts
<1> HIDE DEF t
<1>2. \A i, j \in 1..Len(t) : at[i] = at[j] => i = j
  BY <1>1 DEF KeepsOf
<1>3. Distinct(t)
  BY <1>1, <1>2 DEF KeepsOf, Distinct
<1>4. ASSUME NEW i \in 1..Len(s), NEW j \in 1..Len(s), i < j, s[i] \in S, s[j] \in S
      PROVE  \E k, l \in 1..Len(t) : k < l /\ t[k] = s[i] /\ t[l] = s[j]
  <2>1. PICK k \in 1..Len(t), l \in 1..Len(t) : at[k] = i /\ at[l] = j
    BY <1>1, <1>4 DEF KeepsOf
  <2>2. ~(l < k) /\ l # k
    BY <1>1, <1>4, <2>1 DEF KeepsOf
  <2>3. k < l
    BY <1>1, <2>1, <2>2
  <2> QED
    BY <1>1, <2>1, <2>3 DEF KeepsOf
<1>5. ASSUME NEW k \in 1..Len(t), NEW l \in 1..Len(t), k < l
      PROVE  \E i, j \in 1..Len(s) : i < j /\ t[k] = s[i] /\ t[l] = s[j]
  BY <1>1, <1>5 DEF KeepsOf
<1> QED
  BY <1>3, <1>4, <1>5 DEF t, OrderOf

-----------------------------------------------------------------------------
Pick(s) == CHOOSE x \in s : TRUE

(* h sums up f over each of the sets in D, taking out elements one by one. *)
SumsUp(h, D, f) ==
  h = [s \in D |-> IF s = {} THEN 0 ELSE f[Pick(s)] + h[s \ {Pick(s)}]]

Counts(f, S) == \A x \in S : f[x] \in Nat

SameOn(f, g, S) == \A x \in S : f[x] = g[x]

IsSum(h, S, f) == SumsUp(h, SUBSET S, f)

TakesOut(h, T, f) ==
  /\ h[{}] = 0
  /\ \A s \in SUBSET T : h[s] \in Nat
  /\ \A s \in SUBSET T : \A y \in s : h[s] = f[y] + h[s \ {y}]

(* The sets of at most k elements of T, and what is left of a set without  *)
(* the element that is picked.                                             *)
Small(T, k) == {s \in SUBSET T : Cardinality(s) <= k}

(* A subset of a finite set: its size, and its size without one element.   *)
LEMMA Sizes ==
  ASSUME NEW T, IsFiniteSet(T), NEW s \in SUBSET T
  PROVE  /\ IsFiniteSet(s) /\ Cardinality(s) \in Nat /\ Cardinality(s) <= Cardinality(T)
         /\ Cardinality(s) = 0 <=> s = {}
         /\ \A y \in s : s \ {y} \in SUBSET T /\ Cardinality(s \ {y}) = Cardinality(s) - 1
         /\ s # {} => Pick(s) \in s
<1>1. IsFiniteSet(s) /\ Cardinality(s) <= Cardinality(T)
  BY FS_Subset
<1>2. Cardinality(s) \in Nat
  BY <1>1, FS_CardinalityType
<1>3. Cardinality(s) = 0 <=> s = {}
  BY <1>1, FS_EmptySet
<1>4. ASSUME NEW y \in s
      PROVE  s \ {y} \in SUBSET T /\ Cardinality(s \ {y}) = Cardinality(s) - 1
  BY <1>1, FS_RemoveElement
<1>5. s # {} => Pick(s) \in s
  BY DEF Pick
<1> QED
  BY <1>1, <1>2, <1>3, <1>4, <1>5

(* Induction over the subsets of a finite set by their size.               *)
LEMMA BySize ==
  ASSUME NEW T, IsFiniteSet(T), NEW G,
         \A s \in SUBSET T : (\A y \in s : s \ {y} \in G) => s \in G
  PROVE  \A s \in SUBSET T : s \in G
<1> DEFINE S == {k \in 0..Cardinality(T) : \A s \in Small(T, k) : s \in G}
<1>1. Cardinality(T) \in Nat
  BY FS_CardinalityType
<1>2. 0 \in S
  <2>1. ASSUME NEW s \in Small(T, 0) PROVE s \in G
    <3>1. s \in SUBSET T /\ s = {}
      BY Sizes DEF Small
    <3> QED
      BY <3>1
  <2> QED
    BY <1>1, <2>1
<1>3. ASSUME NEW k \in 0..Cardinality(T), k \in S, k < Cardinality(T) PROVE k + 1 \in S
  <2>1. ASSUME NEW s \in Small(T, k + 1) PROVE s \in G
    <3>1. ASSUME NEW y \in s PROVE s \ {y} \in G
      <4>1. s \ {y} \in Small(T, k)
        BY Sizes DEF Small
      <4> QED
        BY <1>3, <4>1
    <3> QED
      BY <3>1 DEF Small
  <2> QED
    BY <1>1, <1>3, <2>1
<1>4. Cardinality(T) \in S
  <2> HIDE DEF S
  <2>1. \A k \in 0..Cardinality(T) : k \in S
    BY <1>1, <1>2, <1>3, UpTo
  <2> QED
    BY <1>1, <2>1
<1>5. \A s \in SUBSET T : s \in Small(T, Cardinality(T))
  BY Sizes DEF Small
<1> QED
  BY <1>4, <1>5

(* The sums over the subsets of a finite set exist.                        *)
LEMMA SumsExist ==
  ASSUME NEW T, IsFiniteSet(T), NEW f, Counts(f, T)
  PROVE  \E h : IsSum(h, T, f)
<1> DEFINE n == Cardinality(T)
           S == {k \in 0..n : \E h : SumsUp(h, Small(T, k), f)}
<1>1. n \in Nat
  BY FS_CardinalityType
<1>2. 0 \in S
  <2>1. \A s \in Small(T, 0) : s = {}
    BY Sizes DEF Small
  <2> DEFINE h == [s \in Small(T, 0) |-> 0]
  <2>2. h = [s \in Small(T, 0) |-> IF s = {} THEN 0 ELSE f[Pick(s)] + h[s \ {Pick(s)}]]
    BY <2>1
  <2> HIDE DEF h
  <2>3. SumsUp(h, Small(T, 0), f)
    BY <2>2 DEF SumsUp
  <2> QED
    BY <1>1, <2>3
<1>3. ASSUME NEW k \in 0..n, k \in S, k < n PROVE k + 1 \in S
  <2>1. PICK g : SumsUp(g, Small(T, k), f)
    BY <1>3
  <2> DEFINE h == [s \in Small(T, k + 1) |-> IF s = {} THEN 0 ELSE f[Pick(s)] + g[s \ {Pick(s)}]]
  <2>2. ASSUME NEW s \in Small(T, k + 1), s # {}
        PROVE  h[s \ {Pick(s)}] = g[s \ {Pick(s)}]
    <3> DEFINE r == s \ {Pick(s)}
    <3>1. r \in Small(T, k) /\ r \in Small(T, k + 1)
      <4>1. s \in SUBSET T /\ Cardinality(s) <= k + 1
        BY DEF Small
      <4>2. r \in SUBSET T /\ Cardinality(r) = Cardinality(s) - 1 /\ Cardinality(s) \in Nat
        BY <2>2, <4>1, Sizes
      <4> HIDE DEF r
      <4> QED
        BY <4>1, <4>2 DEF Small
    <3> HIDE DEF r
    <3>2. h[r] = IF r = {} THEN 0 ELSE f[Pick(r)] + g[r \ {Pick(r)}]
      BY <3>1
    <3> HIDE DEF h
    <3>3. g[r] = IF r = {} THEN 0 ELSE f[Pick(r)] + g[r \ {Pick(r)}]
      BY <2>1, <3>1 DEF SumsUp
    <3>4. h[r] = g[r]
      BY <3>2, <3>3
    <3> QED
      BY <3>4 DEF r
  <2>3. h = [s \in Small(T, k + 1) |-> IF s = {} THEN 0 ELSE f[Pick(s)] + h[s \ {Pick(s)}]]
    <3>1. \A s \in Small(T, k + 1) :
            (IF s = {} THEN 0 ELSE f[Pick(s)] + g[s \ {Pick(s)}])
              = (IF s = {} THEN 0 ELSE f[Pick(s)] + h[s \ {Pick(s)}])
      <4> HIDE DEF h
      <4> QED
        BY <2>2
    <3>2. \A q : (\A s \in Small(T, k + 1) :
                    (IF s = {} THEN 0 ELSE f[Pick(s)] + g[s \ {Pick(s)}]) = q[s])
                 => h = [s \in Small(T, k + 1) |-> q[s]]
      OBVIOUS
    <3> DEFINE q == [s \in Small(T, k + 1) |-> IF s = {} THEN 0 ELSE f[Pick(s)] + h[s \ {Pick(s)}]]
    <3>3. \A s \in Small(T, k + 1) :
            q[s] = IF s = {} THEN 0 ELSE f[Pick(s)] + h[s \ {Pick(s)}]
      OBVIOUS
    <3>4. q = [s \in Small(T, k + 1) |-> q[s]]
      OBVIOUS
    <3> HIDE DEF q, h
    <3>5. h = q
      BY <3>1, <3>2, <3>3, <3>4
    <3> QED
      BY <3>5 DEF q
  <2> HIDE DEF h
  <2>4. SumsUp(h, Small(T, k + 1), f)
    BY <2>3 DEF SumsUp
  <2> QED
    BY <1>1, <1>3, <2>4
<1>4. n \in S
  <2> HIDE DEF S, n
  <2>1. \A k \in 0..n : k \in S
    BY <1>1, <1>2, <1>3, UpTo
  <2> QED
    BY <1>1, <2>1
<1>5. Small(T, n) = SUBSET T
  BY Sizes DEF Small
<1> QED
  BY <1>4, <1>5 DEF IsSum

(* Whatever element is taken out first, the sum is the same.               *)
LEMMA SumsRemove ==
  ASSUME NEW T, IsFiniteSet(T), NEW f, Counts(f, T), NEW h, IsSum(h, T, f)
  PROVE  TakesOut(h, T, f)
<1> USE DEF Counts, IsSum
<1>1. h[{}] = 0
  BY DEF SumsUp
<1>2. ASSUME NEW s \in SUBSET T, s # {} PROVE h[s] = f[Pick(s)] + h[s \ {Pick(s)}]
  BY <1>2 DEF SumsUp
<1> DEFINE H == {s \in SUBSET T : h[s] \in Nat}
<1>5. ASSUME NEW s \in SUBSET T, \A y \in s : s \ {y} \in H PROVE s \in H
  <2>1. CASE s = {}
    BY <1>1, <2>1
  <2>2. CASE s # {}
    <3>1. Pick(s) \in s /\ Pick(s) \in T
      BY <2>2 DEF Pick
    <3>2. f[Pick(s)] \in Nat /\ h[s \ {Pick(s)}] \in Nat
      BY <1>5, <3>1
    <3>3. f[Pick(s)] + h[s \ {Pick(s)}] \in Nat
      BY <3>2
    <3> QED
      BY <1>2, <2>2, <3>3
  <2> QED
    BY <2>1, <2>2
<1>6. \A s \in SUBSET T : s \in H
  <2> HIDE DEF H
  <2> QED
    BY <1>5, BySize
<1> DEFINE G == {s \in SUBSET T : \A y \in s : h[s] = f[y] + h[s \ {y}]}
<1>3. ASSUME NEW s \in SUBSET T, \A y \in s : s \ {y} \in G PROVE s \in G
  <2>1. CASE s = {}
    BY <1>1, <2>1
  <2>2. CASE s # {}
    <3> DEFINE x == Pick(s)
    <3>1. x \in s
      BY <2>2 DEF Pick
    <3> HIDE DEF x
    <3>2. h[s] = f[x] + h[s \ {x}]
      BY <1>2, <2>2 DEF x
    <3>4. ASSUME NEW y \in s PROVE h[s] = f[y] + h[s \ {y}]
      <4>1. CASE y = x
        BY <3>2, <4>1
      <4>2. CASE y # x
        <5> DEFINE r == (s \ {x}) \ {y}
        <5>1. r = (s \ {y}) \ {x}
          OBVIOUS
        <5>2. h[s \ {x}] = f[y] + h[r]
          BY <1>3, <3>1, <4>2
        <5>3. h[s \ {y}] = f[x] + h[r]
          <6> HIDE DEF r
          <6>1. x \in s \ {y} /\ s \ {y} \in G
            BY <1>3, <3>1, <4>2
          <6> QED
            BY <5>1, <6>1
        <5>4. f[x] \in Nat /\ f[y] \in Nat /\ r \in SUBSET T
          BY <3>1
        <5> DEFINE z == h[r]
        <5> HIDE DEF r
        <5>5. z \in Nat
          BY <1>6, <5>4
        <5> HIDE DEF z
        <5>6. f[x] + (f[y] + z) = f[y] + (f[x] + z)
          BY <5>4, <5>5
        <5> QED
          BY <3>2, <5>2, <5>3, <5>6 DEF z
      <4> QED
        BY <4>1, <4>2
    <3> QED
      BY <3>4
  <2> QED
    BY <2>1, <2>2
<1>4. \A s \in SUBSET T : s \in G
  <2> HIDE DEF G
  <2> QED
    BY <1>3, BySize
<1> QED
  BY <1>1, <1>4, <1>6 DEF TakesOut

(* Sums of functions that agree on a set are equal on it.                  *)
LEMMA SumsAgree ==
  ASSUME NEW T, IsFiniteSet(T), NEW A, NEW B, T \subseteq A, T \subseteq B,
         NEW f, NEW g, SameOn(f, g, T),
         NEW h, IsSum(h, A, f), NEW k, IsSum(k, B, g)
  PROVE  h[T] = k[T]
<1> USE DEF SameOn, IsSum
<1> DEFINE G == {s \in SUBSET T : h[s] = k[s]}
<1>1. ASSUME NEW s \in SUBSET T, \A y \in s : s \ {y} \in G PROVE s \in G
  <2>1. s \in SUBSET A /\ s \in SUBSET B
    OBVIOUS
  <2>2. CASE s = {}
    BY <2>1, <2>2 DEF SumsUp
  <2>3. CASE s # {}
    <3>1. Pick(s) \in s /\ Pick(s) \in T
      BY <2>3 DEF Pick
    <3>2. h[s] = f[Pick(s)] + h[s \ {Pick(s)}]
      BY <2>1, <2>3 DEF SumsUp
    <3>3. k[s] = g[Pick(s)] + k[s \ {Pick(s)}]
      BY <2>1, <2>3 DEF SumsUp
    <3>4. f[Pick(s)] = g[Pick(s)] /\ h[s \ {Pick(s)}] = k[s \ {Pick(s)}]
      BY <1>1, <3>1
    <3> QED
      BY <3>2, <3>3, <3>4
  <2> QED
    BY <2>2, <2>3
<1> HIDE DEF G
<1>2. \A s \in SUBSET T : s \in G
  BY <1>1, BySize
<1> QED
  BY <1>2 DEF G

(* The sum of f over a set, as the community modules define it.            *)
Sum(f, S) == MapThenSumSet(LAMBDA c : f[c], S)

(* A sum has such a function behind it.                                    *)
LEMMA SumIs ==
  ASSUME NEW S, IsFiniteSet(S), NEW f, Counts(f, S)
  PROVE  \E h : IsSum(h, S, f) /\ Sum(f, S) = h[S]
<1>1. \E h : IsSum(h, S, f)
  BY SumsExist
<1> QED
  BY <1>1 DEF Sum, MapThenSumSet, MapThenFoldSet, SumsUp, IsSum, Pick

(* Sums of natural numbers: one element more, one element less, and what   *)
(* they depend on.                                                         *)
LEMMA SumFacts ==
  ASSUME NEW S, IsFiniteSet(S), NEW f, Counts(f, S)
  PROVE  /\ Sum(f, S) \in Nat
         /\ S = {} => Sum(f, S) = 0
         /\ \A y \in S : /\ f[y] \in Nat /\ Sum(f, S \ {y}) \in Nat
                         /\ Sum(f, S) = f[y] + Sum(f, S \ {y})
<1>1. PICK h : IsSum(h, S, f) /\ Sum(f, S) = h[S]
  BY SumIs
<1>2. TakesOut(h, S, f)
  BY <1>1, SumsRemove
<1>3. ASSUME NEW y \in S
      PROVE  /\ f[y] \in Nat /\ Sum(f, S \ {y}) \in Nat
             /\ Sum(f, S) = f[y] + Sum(f, S \ {y})
  <2> DEFINE R == S \ {y}
  <2>1. R \subseteq R /\ R \subseteq S /\ IsFiniteSet(R) /\ Counts(f, R) /\ SameOn(f, f, R)
    BY FS_Subset DEF Counts, SameOn
  <2> HIDE DEF R
  <2>2. PICK k : IsSum(k, R, f) /\ Sum(f, R) = k[R]
    BY <2>1, SumIs
  <2>3. k[R] = h[R]
    BY <1>1, <2>1, <2>2, SumsAgree
  <2>4. h[S] = f[y] + h[R] /\ h[R] \in Nat /\ f[y] \in Nat
    BY <1>2, <2>1 DEF TakesOut, R, Counts
  <2> QED
    BY <1>1, <2>2, <2>3, <2>4 DEF R
<1>4. S = {} => Sum(f, S) = 0
  BY <1>1, <1>2 DEF TakesOut
<1>5. Sum(f, S) \in Nat
  BY <1>1, <1>2 DEF TakesOut
<1> QED
  BY <1>3, <1>4, <1>5

(* Functions that agree on a finite set have the same sum over it.         *)
LEMMA SumSame ==
  ASSUME NEW S, IsFiniteSet(S), NEW f, NEW g, Counts(f, S), SameOn(f, g, S)
  PROVE  Sum(f, S) = Sum(g, S)
<1>1. PICK h : IsSum(h, S, f) /\ Sum(f, S) = h[S]
  BY SumIs
<1>2. PICK k : IsSum(k, S, g) /\ Sum(g, S) = k[S]
  <2>1. Counts(g, S)
    BY DEF Counts, SameOn
  <2> QED
    BY <2>1, SumIs
<1>3. S \subseteq S
  OBVIOUS
<1> QED
  BY <1>1, <1>2, <1>3, SumsAgree

(* The rest of a list behind its first m elements.                         *)
LEMMA SuffixIs ==
  ASSUME NEW T, NEW s \in Seq(T), NEW m \in 0..Len(s)
  PROVE  /\ SubSeq(s, m + 1, Len(s)) \in Seq(T)
         /\ Len(SubSeq(s, m + 1, Len(s))) = Len(s) - m
         /\ \A i \in 1..(Len(s) - m) : SubSeq(s, m + 1, Len(s))[i] = s[m + i]
  OBVIOUS

(* t is s without the element c, which s has: the rest in its order.       *)
WithoutOne(t, s, c) ==
  /\ Distinct(t) /\ Len(t) + 1 = Len(s)
  /\ \A x : (\E i \in 1..Len(t) : t[i] = x) <=> x # c /\ \E i \in 1..Len(s) : s[i] = x
  /\ \A i, j \in 1..Len(s) :
       i < j /\ s[i] # c /\ s[j] # c
         => \E k, l \in 1..Len(t) : k < l /\ t[k] = s[i] /\ t[l] = s[j]

(* Removing the first, and only, occurrence of an element.                 *)
LEMMA RemoveFirstIs ==
  ASSUME NEW T, NEW s \in Seq(T), Distinct(s), NEW p \in 1..Len(s)
  PROVE  RemoveFirst(s, s[p]) \in Seq(T) /\ WithoutOne(RemoveFirst(s, s[p]), s, s[p])
<1> DEFINE t == SubSeq(s, 1, p - 1) \o SubSeq(s, p + 1, Len(s))
<1>1. RemoveFirst(s, s[p]) = t
  <2> DEFINE I == {i \in 1..Len(s) : s[i] = s[p]}
  <2>1. I = {p}
    BY DEF Distinct
  <2>2. (IF I # {} THEN Min(I) ELSE 0) = p
    BY <2>1 DEF Min
  <2>3. \E i \in 1..Len(s) : s[i] = s[p]
    OBVIOUS
  <2> QED
    BY <2>2, <2>3 DEF RemoveFirst, RemoveAt, SelectInSeq
<1> DEFINE from(i) == IF i < p THEN i ELSE i + 1
           to(i) == IF i < p THEN i ELSE i - 1
<1> DEFINE a == SubSeq(s, 1, p - 1)
           b == SubSeq(s, p + 1, Len(s))
<1>12. a \in Seq(T) /\ Len(a) = p - 1 /\ \A i \in 1..(p - 1) : a[i] = s[i]
  OBVIOUS
<1>13. /\ b \in Seq(T) /\ Len(b) = Len(s) - p
       /\ \A i \in 1..(Len(s) - p) : b[i] = s[p + i]
  OBVIOUS
<1>14. t = a \o b /\ Len(s) \in Nat
  OBVIOUS
<1> HIDE DEF a, b, t
<1>2. t \in Seq(T) /\ Len(t) + 1 = Len(s) /\ Len(s) \in Nat
  BY <1>12, <1>13, <1>14
<1>3. ASSUME NEW i \in 1..Len(t) PROVE t[i] = s[from(i)]
  <2>1. CASE i < p
    BY <1>12, <1>13, <1>14, <2>1
  <2>2. CASE ~(i < p)
    <3>1. i - (p - 1) \in 1..(Len(s) - p) /\ t[i] = b[i - (p - 1)]
      <4>1. i - (p - 1) \in 1..(Len(s) - p) /\ i \in Nat /\ p - 1 < i
        BY <1>2, <2>2
      <4>2. a \in Seq(T) /\ b \in Seq(T) /\ Len(a) = p - 1 /\ i \in 1..(Len(a) + Len(b))
        BY <1>2, <1>12, <1>13, <2>2
      <4>3. (a \o b)[i] = b[i - Len(a)]
        BY <4>1, <4>2
      <4> QED
        BY <1>14, <4>1, <4>2, <4>3
    <3>2. p + (i - (p - 1)) = i + 1
      BY <1>2
    <3> QED
      BY <1>13, <2>2, <3>1, <3>2
  <2> QED
    BY <2>1, <2>2
<1>4. \A i \in 1..Len(t) : from(i) \in 1..Len(s) /\ from(i) # p
  BY <1>2
<1>5. \A i, j \in 1..Len(t) : from(i) = from(j) => i = j
  BY <1>2
<1>6. \A i \in 1..Len(s) : i # p => to(i) \in 1..Len(t) /\ from(to(i)) = i
  BY <1>2
<1>7. \A i, j \in 1..Len(s) : i < j /\ i # p /\ j # p => to(i) < to(j)
  BY <1>2
<1> HIDE DEF from, to
<1>8. Distinct(t)
  BY <1>3, <1>4, <1>5 DEF Distinct
<1>9. \A i \in 1..Len(s) : i # p => to(i) \in 1..Len(t) /\ t[to(i)] = s[i]
  BY <1>3, <1>6
<1>10. ASSUME NEW x
       PROVE  (\E i \in 1..Len(t) : t[i] = x) <=> x # s[p] /\ \E i \in 1..Len(s) : s[i] = x
  <2>1. \A i \in 1..Len(t) : t[i] # s[p] /\ \E k \in 1..Len(s) : s[k] = t[i]
    BY <1>3, <1>4 DEF Distinct
  <2> QED
    BY <1>9, <2>1
<1>11. \A i, j \in 1..Len(s) :
         i < j /\ s[i] # s[p] /\ s[j] # s[p]
           => \E k, l \in 1..Len(t) : k < l /\ t[k] = s[i] /\ t[l] = s[j]
  BY <1>7, <1>9
<1> QED
  BY <1>1, <1>2, <1>8, <1>10, <1>11 DEF WithoutOne

(* A list without repetitions is as long as the set of its elements.       *)
LEMMA DistinctLength ==
  ASSUME NEW T, NEW s \in Seq(T), Distinct(s)
  PROVE  IsFiniteSet({s[i] : i \in 1..Len(s)}) /\ Cardinality({s[i] : i \in 1..Len(s)}) = Len(s)
<1> DEFINE R == {s[i] : i \in 1..Len(s)}
           b == [i \in 1..Len(s) |-> s[i]]
<1>1. b \in Bijection(1..Len(s), R)
  BY DEF Distinct, Bijection, Injection, Surjection, IsInjective
<1>2. IsFiniteSet(1..Len(s)) /\ Cardinality(1..Len(s)) = Len(s)
  <2> DEFINE n == Len(s)
  <2>1. n \in Nat /\ 1 \in Int /\ n \in Int
    OBVIOUS
  <2> HIDE DEF n
  <2>2. IsFiniteSet(1..n) /\ Cardinality(1..n) = IF 1 > n THEN 0 ELSE n - 1 + 1
    BY <2>1, FS_Interval
  <2>3. Cardinality(1..n) = n
    BY <2>1, <2>2
  <2> QED
    BY <2>2, <2>3 DEF n
<1> HIDE DEF R, b
<1>3. IsFiniteSet(R) /\ Cardinality(R) = Cardinality(1..Len(s))
  BY <1>1, <1>2, FS_Bijection DEF ExistsBijection
<1> QED
  BY <1>2, <1>3 DEF R
=============================================================================
