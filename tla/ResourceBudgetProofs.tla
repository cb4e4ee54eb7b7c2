------------------------ MODULE ResourceBudgetProofs ------------------------
(***************************************************************************)
(* Proofs about ResourceBudget for any callers, demands and capacity.      *)
(***************************************************************************)
EXTENDS ResourceBudget, ListLemmas

Needs == [Callers -> [cpu : Nat, memory : Nat]]

(* The fields under the mutex.                                             *)
Books == [used : [cpu : Int, memory : Int], active : Int, waiting : Seq(Callers),
          state : [Callers -> CallerStates]]

LeasedIn(b) == {c \in Callers : b.state[c] \in {"granted", "holding"}}

CPUs(nd) == [c \in Callers |-> nd[c].cpu]
Memories(nd) == [c \in Callers |-> nd[c].memory]

(* The counters are the sums over the outstanding leases.                  *)
Counted(b, nd) ==
  /\ IsFiniteSet(LeasedIn(b))
  /\ b.used = [cpu |-> Sum(CPUs(nd), LeasedIn(b)), memory |-> Sum(Memories(nd), LeasedIn(b))]
  /\ b.active = Cardinality(LeasedIn(b))
  /\ b.used.cpu <= CPUSlots /\ b.used.memory <= MemoryBytes /\ b.active <= MaxActive

(* The list holds each queued caller once, and nobody else.                *)
Listed(b) ==
  /\ Distinct(b.waiting)
  /\ \A c \in Callers : (\E i \in 1..Len(b.waiting) : b.waiting[i] = c) <=> b.state[c] = "queued"

Sound(b, nd) == b \in Books /\ Counted(b, nd) /\ Listed(b)

(* The head of the list is live only if it does not fit.                   *)
HeadBlocked(b, nd, cn) ==
  (b.waiting # <<>> /\ ~cn[Head(b.waiting)]) => ~Fits(b, nd[Head(b.waiting)])

(* The budget's invariant; Accounting and NoWaiterLost follow from Sound.  *)
IInv ==
  /\ TypeOK
  /\ Sound(Current, need) /\ Len(waiting) <= limit
  /\ HeadBlocked(Current, need, cancelled)
  /\ closed => waiting = <<>>
  /\ DrainedExactlyOnce

-----------------------------------------------------------------------------
(* Demands are numbers that can be summed up.                              *)
LEMMA Demanded ==
  ASSUME NEW nd \in Needs, NEW S \in SUBSET Callers
  PROVE  /\ Counts(CPUs(nd), S) /\ Counts(Memories(nd), S)
         /\ \A c \in Callers : CPUs(nd)[c] = nd[c].cpu /\ Memories(nd)[c] = nd[c].memory
BY DEF Needs, Counts, CPUs, Memories

(* Books stay books when counters and the state of a caller are set.       *)
LEMMA BooksExcept ==
  ASSUME NEW b \in Books, NEW u \in [cpu : Int, memory : Int], NEW a \in Int,
         NEW c \in Callers, NEW s \in CallerStates
  PROVE  [b EXCEPT !.used = u, !.active = a, !.state[c] = s] \in Books
BY DEF Books

(* g are the books b with a lease of c more, or less; c is now in state s. *)
Charged(g, b, nd, c, s) ==
  /\ g \in Books /\ Counted(g, nd) /\ LeasedIn(g) = LeasedIn(b) \cup {c}
  /\ g.waiting = b.waiting /\ g.state = [b.state EXCEPT ![c] = s]

Refunded(g, b, nd, c, s) ==
  /\ g \in Books /\ Counted(g, nd) /\ LeasedIn(g) = LeasedIn(b) \ {c}
  /\ g.waiting = b.waiting /\ g.state = [b.state EXCEPT ![c] = s]

(* Charging a demand that fits counts one more lease.                      *)
LEMMA GrantCounted ==
  ASSUME NEW nd \in Needs, NEW b \in Books, Counted(b, nd),
         NEW c \in Callers, c \notin LeasedIn(b), Fits(b, nd[c]),
         NEW s, s \in {"granted", "holding"}, NEW g, g = Grant(b, c, nd[c], s)
  PROVE  Charged(g, b, nd, c, s)
<1> DEFINE L == LeasedIn(b)
           M == L \cup {c}
<1>1. /\ g.used = Plus(b.used, nd[c]) /\ g.active = b.active + 1
      /\ g.waiting = b.waiting /\ g.state = [b.state EXCEPT ![c] = s]
  BY DEF Grant, Books
<1>2. nd[c] \in [cpu : Nat, memory : Nat] /\ s \in CallerStates
  BY DEF Needs, CallerStates
<1>3. g \in Books
  <2>1. Plus(b.used, nd[c]) \in [cpu : Int, memory : Int]
    BY <1>2 DEF Books, Plus
  <2>2. b.active + 1 \in Int
    BY DEF Books
  <2> QED
    BY <1>2, <2>1, <2>2, BooksExcept DEF Grant
<1>4. LeasedIn(g) = M
  BY <1>1 DEF LeasedIn, Books
<1>5. M \in SUBSET Callers /\ M \ {c} = L /\ c \in M
  BY DEF LeasedIn
<1>6. IsFiniteSet(M) /\ Cardinality(M) = Cardinality(L) + 1
  BY FS_AddElement DEF Counted
<1> HIDE DEF L, M
<1>7. Sum(CPUs(nd), M) = nd[c].cpu + Sum(CPUs(nd), L) /\ Sum(CPUs(nd), L) \in Nat
  <2>1. Counts(CPUs(nd), M) /\ Counts(Memories(nd), M)
    BY <1>5, Demanded
  <2>2. CPUs(nd)[c] = nd[c].cpu /\ Memories(nd)[c] = nd[c].memory
    BY Demanded
  <2> QED
    BY <1>5, <1>6, <2>1, <2>2, SumFacts
<1>8. Sum(Memories(nd), M) = nd[c].memory + Sum(Memories(nd), L) /\ Sum(Memories(nd), L) \in Nat
  <2>1. Counts(CPUs(nd), M) /\ Counts(Memories(nd), M)
    BY <1>5, Demanded
  <2>2. CPUs(nd)[c] = nd[c].cpu /\ Memories(nd)[c] = nd[c].memory
    BY Demanded
  <2> QED
    BY <1>5, <1>6, <2>1, <2>2, SumFacts
<1>9. /\ b.used.cpu = Sum(CPUs(nd), L) /\ b.used.memory = Sum(Memories(nd), L)
      /\ b.active = Cardinality(L) /\ b.active \in Int
  BY DEF Counted, L, Books
<1>10. g.used = [cpu |-> Sum(CPUs(nd), M), memory |-> Sum(Memories(nd), M)]
  BY <1>1, <1>2, <1>7, <1>8, <1>9 DEF Plus
<1>11. g.used.cpu <= CPUSlots /\ g.used.memory <= MemoryBytes /\ g.active <= MaxActive
  BY <1>1, <1>2, <1>7, <1>8, <1>9, CapacityAssumption DEF Plus, Fits
<1>12. Counted(g, nd)
  BY <1>1, <1>4, <1>6, <1>9, <1>10, <1>11 DEF Counted
<1> QED
  BY <1>1, <1>3, <1>4, <1>12 DEF L, M, Charged

(* Giving a demand back counts one lease less.                             *)
LEMMA ReleasedCounted ==
  ASSUME NEW nd \in Needs, nd = need, NEW b \in Books, Counted(b, nd),
         NEW c \in LeasedIn(b), NEW s, s \in {"idle", "released"}, NEW g, g = Released(b, c, s)
  PROVE  Refunded(g, b, nd, c, s)
<1> DEFINE L == LeasedIn(b)
           M == L \ {c}
<1>1. /\ g.used = Minus(b.used, nd[c]) /\ g.active = b.active - 1
      /\ g.waiting = b.waiting /\ g.state = [b.state EXCEPT ![c] = s]
  BY DEF Released, Books
<1>2. c \in Callers /\ nd[c] \in [cpu : Nat, memory : Nat] /\ s \in CallerStates
  BY DEF Needs, CallerStates, LeasedIn
<1>3. g \in Books
  <2>1. Minus(b.used, nd[c]) \in [cpu : Int, memory : Int]
    BY <1>2 DEF Books, Minus
  <2>2. b.active - 1 \in Int
    BY DEF Books
  <2> QED
    BY <1>2, <2>1, <2>2, BooksExcept DEF Released
<1>4. LeasedIn(g) = M
  BY <1>1, <1>2 DEF LeasedIn, Books
<1>5. L \in SUBSET Callers /\ c \in L
  BY DEF LeasedIn
<1>6. IsFiniteSet(L) /\ IsFiniteSet(M) /\ Cardinality(M) = Cardinality(L) - 1
  BY FS_RemoveElement DEF Counted
<1>7. Cardinality(L) \in Nat
  BY <1>6, FS_CardinalityType
<1> HIDE DEF L
<1>8. Sum(CPUs(nd), L) = nd[c].cpu + Sum(CPUs(nd), M) /\ Sum(CPUs(nd), M) \in Nat
  BY <1>5, <1>6, Demanded, SumFacts
<1>9. Sum(Memories(nd), L) = nd[c].memory + Sum(Memories(nd), M) /\ Sum(Memories(nd), M) \in Nat
  BY <1>5, <1>6, Demanded, SumFacts
<1> HIDE DEF M
<1>10. /\ b.used.cpu = Sum(CPUs(nd), L) /\ b.used.memory = Sum(Memories(nd), L)
       /\ b.active = Cardinality(L)
       /\ b.used.cpu <= CPUSlots /\ b.used.memory <= MemoryBytes /\ b.active <= MaxActive
  BY DEF Counted, L, Books
<1>11. g.used = [cpu |-> Sum(CPUs(nd), M), memory |-> Sum(Memories(nd), M)]
  BY <1>1, <1>2, <1>8, <1>9, <1>10 DEF Minus
<1>12. g.used.cpu <= CPUSlots /\ g.used.memory <= MemoryBytes /\ g.active <= MaxActive
  BY <1>1, <1>2, <1>7, <1>8, <1>9, <1>10, <1>11, CapacityAssumption
<1>13. Counted(g, nd)
  BY <1>1, <1>4, <1>6, <1>10, <1>11, <1>12 DEF Counted
<1> QED
  BY <1>1, <1>3, <1>4, <1>13 DEF L, M, Refunded

-----------------------------------------------------------------------------
(* What the reaping pass of dispatch leaves of the books b.                *)
Reaping(b, r) ==
  /\ r.used = b.used /\ r.active = b.active
  /\ LeasedIn(r) = LeasedIn(b)
  /\ Len(r.waiting) <= Len(b.waiting)
  /\ \A i \in 1..Len(r.waiting) : ~cancelled[r.waiting[i]]
  /\ \A c \in Callers :
       r.state[c] = IF b.state[c] = "queued" /\ cancelled[c] THEN "refused" ELSE b.state[c]
  /\ \A i, j \in 1..Len(b.waiting) :
       i < j /\ ~cancelled[b.waiting[i]] /\ ~cancelled[b.waiting[j]]
         => \E k, l \in 1..Len(r.waiting) :
              k < l /\ r.waiting[k] = b.waiting[i] /\ r.waiting[l] = b.waiting[j]

(* Reaping takes the expired waiters off the list, and nothing else.       *)
LEMMA ReapedSound ==
  ASSUME NEW nd \in Needs, NEW b, Sound(b, nd)
  PROVE  Sound(Reaped(b), nd) /\ Reaping(b, Reaped(b))
<1> DEFINE live == {c \in Callers : ~cancelled[c]}
           ws == Kept(b.waiting, live)
           st == [c \in Callers |-> IF c \in ToSet(b.waiting) /\ cancelled[c]
                                    THEN "refused" ELSE b.state[c]]
           r == Reaped(b)
<1> USE DEF Sound
<1>1. b \in Books /\ b.waiting \in Seq(Callers) /\ b.state \in [Callers -> CallerStates]
  BY DEF Books
<1>2. ws \in Seq(Callers) /\ ElementsOf(ws, b.waiting, live)
  BY <1>1, KeptElements
<1>3. Distinct(ws) /\ OrderOf(ws, b.waiting, live)
  BY <1>1, KeptOrder DEF Listed
<1>4. \A c \in Callers : c \in ToSet(b.waiting) <=> b.state[c] = "queued"
  BY <1>1 DEF Listed, ToSet
<1> HIDE DEF ws
<1>5. /\ r.used = b.used /\ r.active = b.active /\ r.waiting = ws /\ r.state = st
      /\ r \in Books
  <2>1. st \in [Callers -> CallerStates]
    BY <1>1 DEF CallerStates
  <2>2. r = [b EXCEPT !.waiting = ws, !.state = st]
    BY DEF Reaped, ws
  <2> HIDE DEF r, st
  <2> QED
    BY <1>1, <1>2, <2>1, <2>2 DEF Books
<1>6. \A c \in Callers :
        r.state[c] = IF b.state[c] = "queued" /\ cancelled[c] THEN "refused" ELSE b.state[c]
  BY <1>4, <1>5
<1> HIDE DEF r, st
<1>7. LeasedIn(r) = LeasedIn(b)
  BY <1>6 DEF LeasedIn
<1>8. Counted(r, nd)
  BY <1>5, <1>7 DEF Counted
<1>9. ASSUME NEW c \in Callers
      PROVE  (\E i \in 1..Len(r.waiting) : r.waiting[i] = c) <=> r.state[c] = "queued"
  <2>1. (\E k \in 1..Len(b.waiting) : b.waiting[k] = c) <=> b.state[c] = "queued"
    BY DEF Listed
  <2> QED
    BY <1>2, <1>5, <1>6, <2>1 DEF ElementsOf
<1>10. Listed(r)
  BY <1>3, <1>5, <1>9 DEF Listed
<1>11. Len(ws) <= Len(b.waiting) /\ \A i \in 1..Len(ws) : ~cancelled[ws[i]]
  BY <1>2 DEF ElementsOf
<1>12. Reaping(b, r)
  <2>1. \A i \in 1..Len(b.waiting) : b.waiting[i] \in Callers
    BY <1>1
  <2>2. \A i, j \in 1..Len(b.waiting) :
          i < j /\ ~cancelled[b.waiting[i]] /\ ~cancelled[b.waiting[j]]
            => \E k, l \in 1..Len(ws) : k < l /\ ws[k] = b.waiting[i] /\ ws[l] = b.waiting[j]
    BY <1>3, <2>1 DEF OrderOf
  <2> HIDE DEF live
  <2> QED
    BY <1>5, <1>6, <1>7, <1>11, <2>2 DEF Reaping
<1> QED
  BY <1>5, <1>8, <1>10, <1>12 DEF r

(* The granting loop of dispatch, from books to books.                     *)
LEMMA GrantedLoop ==
  ASSUME need \in Needs, NEW b \in Books
  PROVE  LET after == GrantedUpTo(b)
         IN /\ after \in [0..Len(b.waiting) -> Books]
            /\ after[0] = b
            /\ \A i \in 1..Len(b.waiting) :
                 after[i] = Grant(after[i - 1], b.waiting[i], need[b.waiting[i]], "granted")
<1> DEFINE n == Len(b.waiting)
           Granted(x, i) == Grant(x, b.waiting[i], need[b.waiting[i]], "granted")
           step == [i \in 1..n |-> [x \in Books |-> Granted(x, i)]]
           Walk(f) == f = [i \in 0..n |-> IF i = 0 THEN b ELSE Granted(f[i - 1], i)]
<1>1. n \in Nat /\ \A i \in 1..n : b.waiting[i] \in Callers
  BY DEF Books
<1>2. ASSUME NEW x \in Books, NEW i \in 1..n PROVE Granted(x, i) \in Books
  <2> DEFINE c == b.waiting[i]
  <2>1. c \in Callers /\ need[c] \in [cpu : Nat, memory : Nat] /\ "granted" \in CallerStates
    BY <1>1 DEF Needs, CallerStates
  <2> HIDE DEF c
  <2>2. Plus(x.used, need[c]) \in [cpu : Int, memory : Int] /\ x.active + 1 \in Int
    BY <2>1 DEF Books, Plus
  <2>3. Grant(x, c, need[c], "granted") \in Books
    BY <2>1, <2>2, BooksExcept DEF Grant
  <2> QED
    BY <2>3 DEF c
<1> HIDE DEF Granted, n
<1>3. step \in [1..n -> [Books -> Books]]
  BY <1>2
<1> HIDE DEF step
<1>4. PICK f : IsLoop(f, n, Books, b, step)
  BY <1>1, <1>3, LoopExists
<1>5. ASSUME NEW i \in 1..n PROVE f[i] = Granted(f[i - 1], i)
  <2>1. i - 1 \in 0..n
    BY <1>1
  <2>2. f[i - 1] \in Books /\ f[i] = step[i][f[i - 1]]
    BY <1>4, <2>1 DEF IsLoop
  <2> QED
    BY <2>2 DEF step
<1>6. Walk(f)
  <2>1. f = [i \in 0..n |-> f[i]] /\ f[0] = b
    BY <1>4 DEF IsLoop
  <2>2. \A i \in 0..n : f[i] = IF i = 0 THEN b ELSE Granted(f[i - 1], i)
    <3>1. \A i \in 0..n : i = 0 \/ i \in 1..n
      BY <1>1
    <3>2. f[0] = b
      BY <2>1
    <3> QED
      BY <1>5, <3>1, <3>2
  <2> QED
    BY <2>1, <2>2
<1> DEFINE F == CHOOSE g : Walk(g)
<1>7. F = [i \in 0..n |-> IF i = 0 THEN b ELSE Granted(F[i - 1], i)]
  <2>1. Walk(F)
    <3> HIDE DEF Walk
    <3> QED
      BY <1>6
  <2> QED
    BY <2>1
<1>8. GrantedUpTo(b) = F
  BY DEF GrantedUpTo, Granted, n
<1> HIDE DEF F, Walk
<1>9. F[0] = b /\ \A i \in 1..n : F[i] = Granted(F[i - 1], i)
  BY <1>1, <1>7
<1> DEFINE Good == {i \in 0..n : F[i] \in Books}
<1>10. 0 \in Good /\ \A i \in 0..n : i \in Good /\ i < n => i + 1 \in Good
  <2>1. ASSUME NEW i \in 0..n, F[i] \in Books, i < n PROVE F[i + 1] \in Books
    <3> DEFINE j == i + 1
    <3>1. j \in 1..n /\ j - 1 = i
      BY <1>1, <2>1
    <3> HIDE DEF j
    <3>2. F[j] = Granted(F[i], j)
      BY <1>9, <3>1
    <3>3. F[j] \in Books
      BY <1>2, <2>1, <3>1, <3>2
    <3> QED
      BY <3>3 DEF j
  <2> QED
    BY <1>1, <1>9, <2>1
<1>11. \A i \in 0..n : i \in Good
  <2> HIDE DEF Good
  <2> QED
    BY <1>1, <1>10, UpTo
<1>12. F \in [0..n -> Books]
  BY <1>7, <1>11
<1> QED
  BY <1>8, <1>9, <1>12 DEF Granted, n

(* g are the books b with the first k waiters granted.                     *)
GrantedTo(g, b, nd, k) ==
  /\ g \in Books /\ Counted(g, nd) /\ g.waiting = b.waiting
  /\ \A c \in Callers :
       g.state[c] = IF \E i \in 1..k : b.waiting[i] = c THEN "granted" ELSE b.state[c]

(* As long as they fit, the waiters are granted one by one, each of them   *)
(* once.                                                                   *)
LEMMA GrantedCounted ==
  ASSUME need \in Needs, NEW nd \in Needs, NEW b, Sound(b, nd),
         \A c \in Callers : b.state[c] = "queued" => nd[c] = need[c],
         NEW m \in 0..Len(b.waiting),
         \A i \in 1..m : Fits(GrantedUpTo(b)[i - 1], need[b.waiting[i]])
  PROVE  \A k \in 0..m : GrantedTo(GrantedUpTo(b)[k], b, nd, k)
<1> DEFINE F == GrantedUpTo(b)
           n == Len(b.waiting)
           Good == {k \in 0..m : GrantedTo(F[k], b, nd, k)}
<1> USE DEF Sound
<1>1. /\ F \in [0..n -> Books] /\ F[0] = b
      /\ \A i \in 1..n : F[i] = Grant(F[i - 1], b.waiting[i], need[b.waiting[i]], "granted")
  BY GrantedLoop
<1>2. /\ n \in Nat /\ m \in Nat /\ m <= n /\ Distinct(b.waiting)
      /\ \A i \in 1..n : /\ b.waiting[i] \in Callers /\ b.state[b.waiting[i]] = "queued"
                         /\ nd[b.waiting[i]] = need[b.waiting[i]]
  BY DEF Books, Listed
<1> HIDE DEF F, n
<1>3. 0 \in Good
  <2>1. GrantedTo(F[0], b, nd, 0)
    BY <1>1 DEF GrantedTo
  <2> QED
    BY <1>2, <2>1
<1>4. ASSUME NEW k \in 0..m, k \in Good, k < m PROVE k + 1 \in Good
  <2> DEFINE j == k + 1
             c == b.waiting[j]
             g == F[k]
  <2>1. j \in 1..n /\ j \in 1..m /\ j - 1 = k /\ j \in 0..m
    BY <1>2, <1>4
  <2> HIDE DEF j
  <2>2. c \in Callers /\ b.state[c] = "queued" /\ nd[c] = need[c]
    BY <1>2, <2>1
  <2>3. F[j] = Grant(g, c, nd[c], "granted") /\ Fits(g, nd[c])
    BY <1>1, <2>1, <2>2 DEF F
  <2>4. GrantedTo(g, b, nd, k)
    BY <1>4
  <2>5. ~\E i \in 1..k : b.waiting[i] = c
    <3> SUFFICES ASSUME NEW i \in 1..k, b.waiting[i] = b.waiting[j] PROVE FALSE
      OBVIOUS
    <3>1. i \in 1..n /\ i # j
      BY <1>2, <2>1
    <3> QED
      BY <1>2, <2>1, <3>1 DEF Distinct, n
  <2>6. g.state[c] = "queued"
    BY <2>2, <2>4, <2>5 DEF GrantedTo
  <2> HIDE DEF c, g
  <2>7. g \in Books /\ Counted(g, nd) /\ c \notin LeasedIn(g) /\ "granted" \in {"granted", "holding"}
    BY <2>4, <2>6 DEF GrantedTo, LeasedIn
  <2>8. /\ F[j] \in Books /\ Counted(F[j], nd)
        /\ F[j].waiting = g.waiting /\ F[j].state = [g.state EXCEPT ![c] = "granted"]
    <3>1. Charged(F[j], g, nd, c, "granted")
      BY <2>2, <2>3, <2>7, GrantCounted
    <3> QED
      BY <3>1 DEF Charged
  <2>9. ASSUME NEW d \in Callers
        PROVE  F[j].state[d] = IF \E i \in 1..j : b.waiting[i] = d THEN "granted" ELSE b.state[d]
    <3>1. g.state \in [Callers -> CallerStates]
      BY <2>7 DEF Books
    <3>2. g.state[d] = IF \E i \in 1..k : b.waiting[i] = d THEN "granted" ELSE b.state[d]
      BY <2>4 DEF GrantedTo
    <3>3. CASE d = c
      <4>1. F[j].state[d] = "granted" /\ \E i \in 1..j : b.waiting[i] = d
        BY <2>1, <2>8, <3>1, <3>3 DEF c
      <4> QED
        BY <4>1
    <3>4. CASE d # c
      <4>1. F[j].state[d] = g.state[d]
        BY <2>8, <3>1, <3>4
      <4>2. \A i \in 1..j : b.waiting[i] = d => i \in 1..k
        BY <2>1, <3>4 DEF c
      <4>3. \A i \in 1..k : i \in 1..j
        BY <2>1
      <4> QED
        BY <3>2, <4>1, <4>2, <4>3
    <3> QED
      BY <3>3, <3>4
  <2>10. GrantedTo(F[j], b, nd, j)
    BY <2>4, <2>8, <2>9 DEF GrantedTo
  <2> QED
    BY <2>1, <2>10 DEF j
<1>5. \A k \in 0..m : k \in Good
  <2> HIDE DEF Good
  <2> QED
    BY <1>2, <1>3, <1>4, UpTo
<1> QED
  BY <1>5 DEF F

(* What dispatch makes of the books b: leases are kept, the expired are    *)
(* refused, the live are granted in order, or go on waiting.               *)
Outcome(b, d) ==
  /\ Len(d.waiting) <= Len(b.waiting)
  /\ \A c \in Callers : b.state[c] # "queued" => d.state[c] = b.state[c]
  /\ \A c \in Callers :
       b.state[c] = "queued" => d.state[c] \in IF cancelled[c] THEN {"refused"} ELSE {"granted", "queued"}
  /\ \A i, j \in 1..Len(b.waiting) :
       i < j /\ ~cancelled[b.waiting[i]] /\ d.state[b.waiting[j]] = "granted"
         => d.state[b.waiting[i]] = "granted"

(* dispatch grants the longest prefix of the live waiters that fits.       *)
LEMMA DispatchedIs ==
  ASSUME need \in Needs, ~closed, NEW nd \in Needs, NEW b, Sound(b, nd),
         \A c \in Callers : b.state[c] = "queued" => nd[c] = need[c]
  PROVE  \E m, g :
           /\ m \in 0..Len(Reaped(b).waiting) /\ GrantedTo(g, Reaped(b), nd, m)
           /\ Dispatched(b) = [g EXCEPT !.waiting = SubSeq(Reaped(b).waiting, m + 1,
                                                           Len(Reaped(b).waiting))]
           /\ m < Len(Reaped(b).waiting) => ~Fits(g, need[Reaped(b).waiting[m + 1]])
<1> DEFINE live == Reaped(b)
           ws == live.waiting
           after == GrantedUpTo(live)
           N == {k \in 0..Len(ws) : \A i \in 1..k : Fits(after[i - 1], need[ws[i]])}
           m == Max(N)
<1>1. Sound(live, nd) /\ Reaping(b, live)
  BY ReapedSound
<1>2. Len(ws) \in Nat
  BY <1>1 DEF Sound, Books
<1>3. N \in SUBSET (0..Len(ws)) /\ N # {}
  <2>1. 0 \in N
    BY <1>2
  <2> QED
    BY <2>1
<1>4. Dispatched(b) = [after[m] EXCEPT !.waiting = SubSeq(ws, m + 1, Len(ws))]
  BY DEF Dispatched
<1>5. \A c \in Callers : live.state[c] = "queued" => nd[c] = need[c]
  BY <1>1 DEF Reaping
<1>6. m \in N /\ \A k \in N : k <= m
  <2> HIDE DEF N
  <2>1. PICK x \in N : \A k \in N : k <= x
    BY <1>2, <1>3, GreatestExists
  <2>2. x \in N /\ \A k \in N : x >= k
    BY <1>2, <1>3, <2>1
  <2>3. m \in N /\ \A k \in N : m >= k
    BY <2>2 DEF Max
  <2> QED
    BY <1>2, <1>3, <2>3
<1> HIDE DEF m
<1>7. m \in 0..Len(ws) /\ \A i \in 1..m : Fits(after[i - 1], need[ws[i]])
  BY <1>6
<1>8. GrantedTo(after[m], live, nd, m)
  <2>1. \A k \in 0..m : GrantedTo(GrantedUpTo(live)[k], live, nd, k)
    <3> HIDE DEF live
    <3> QED
      BY <1>1, <1>5, <1>7, GrantedCounted
  <2> QED
    BY <1>2, <1>7, <2>1
<1>9. m < Len(ws) => ~Fits(after[m], need[ws[m + 1]])
  <2> SUFFICES ASSUME m < Len(ws), Fits(after[m], need[ws[m + 1]]) PROVE FALSE
    OBVIOUS
  <2> HIDE DEF after, ws
  <2>1. \A i \in 1..(m + 1) : Fits(after[i - 1], need[ws[i]])
    <3> SUFFICES ASSUME NEW i \in 1..(m + 1) PROVE Fits(after[i - 1], need[ws[i]])
      OBVIOUS
    <3>1. CASE i = m + 1
      <4>1. i - 1 = m
        BY <1>2, <1>7, <3>1
      <4> QED
        BY <3>1, <4>1
    <3>2. CASE i # m + 1
      BY <1>2, <1>7, <3>2
    <3> QED
      BY <3>1, <3>2
  <2>2. m + 1 \in N
    BY <1>2, <1>7, <2>1
  <2> QED
    BY <1>2, <1>6, <1>7, <2>2
<1> HIDE DEF after
<1> QED
  BY <1>4, <1>7, <1>8, <1>9

(* dispatch keeps the books sound, serves the list in order, and leaves a  *)
(* head that does not fit.                                                 *)
LEMMA DispatchedSound ==
  ASSUME need \in Needs, ~closed, NEW nd \in Needs, NEW b, Sound(b, nd),
         \A c \in Callers : b.state[c] = "queued" => nd[c] = need[c],
         NEW d, d = Dispatched(b)
  PROVE  Sound(d, nd) /\ HeadBlocked(d, nd, cancelled) /\ Outcome(b, d)
<1> DEFINE live == Reaped(b)
           ws == live.waiting
           n == Len(ws)
<1>1. PICK m, g :
        /\ m \in 0..n /\ GrantedTo(g, live, nd, m)
        /\ d = [g EXCEPT !.waiting = SubSeq(ws, m + 1, n)]
        /\ m < n => ~Fits(g, need[ws[m + 1]])
  BY DispatchedIs
<1>2. Sound(live, nd) /\ Reaping(b, live)
  BY ReapedSound
<1> HIDE DEF live
<1>3. ws \in Seq(Callers) /\ n \in Nat /\ live.state \in [Callers -> CallerStates]
  BY <1>2 DEF Sound, Books
<1>4. /\ g \in Books /\ Counted(g, nd)
      /\ \A c \in Callers :
           g.state[c] = IF \E i \in 1..m : ws[i] = c THEN "granted" ELSE live.state[c]
  BY <1>1 DEF GrantedTo
<1> DEFINE rest == SubSeq(ws, m + 1, n)
<1>5. rest \in Seq(Callers) /\ Len(rest) = n - m /\ \A i \in 1..(n - m) : rest[i] = ws[m + i]
  <2> HIDE DEF ws
  <2>1. ws \in Seq(Callers) /\ m \in 0..Len(ws)
    BY <1>1, <1>3
  <2> QED
    BY <2>1, SuffixIs
<1>6. /\ d.used = g.used /\ d.active = g.active /\ d.state = g.state /\ d.waiting = rest
      /\ d \in Books
  <2>1. d = [g EXCEPT !.waiting = rest]
    BY <1>1
  <2> HIDE DEF rest
  <2> QED
    BY <1>4, <1>5, <2>1 DEF Books
<1> HIDE DEF rest, ws, n
<1>7. Distinct(ws) /\ \A c \in Callers : (\E i \in 1..n : ws[i] = c) <=> live.state[c] = "queued"
  BY <1>2 DEF Sound, Listed, n, ws
<1>8. Counted(d, nd)
  <2>1. LeasedIn(d) = LeasedIn(g)
    BY <1>6 DEF LeasedIn
  <2> QED
    BY <1>4, <1>6, <2>1 DEF Counted
<1>9. Distinct(rest)
  <2> SUFFICES ASSUME NEW i \in 1..(n - m), NEW j \in 1..(n - m), rest[i] = rest[j] PROVE i = j
    BY <1>5 DEF Distinct
  <2>1. m + i \in 1..n /\ m + j \in 1..n /\ ws[m + i] = ws[m + j]
    BY <1>1, <1>3, <1>5
  <2>2. m + i = m + j
    BY <1>7, <2>1 DEF Distinct, n
  <2> QED
    BY <1>1, <1>3, <2>2
<1>10. ASSUME NEW c \in Callers
       PROVE  (\E i \in 1..Len(rest) : rest[i] = c) <=> d.state[c] = "queued"
  <2>1. CASE \E i \in 1..Len(rest) : rest[i] = c
    <3>1. PICK i \in 1..(n - m) : ws[m + i] = c
      BY <1>5, <2>1
    <3>2. m + i \in 1..n
      BY <1>1, <1>3
    <3>3. ~\E k \in 1..m : ws[k] = c
      <4> SUFFICES ASSUME NEW k \in 1..m, ws[k] = c PROVE FALSE
        OBVIOUS
      <4>1. k \in 1..n /\ k # m + i
        BY <1>1, <1>3
      <4> QED
        BY <1>7, <3>1, <3>2, <4>1 DEF Distinct, n
    <3>4. live.state[c] = "queued"
      BY <1>7, <3>1, <3>2
    <3> QED
      BY <1>4, <1>6, <2>1, <3>3, <3>4
  <2>2. CASE d.state[c] = "queued"
    <3>1. live.state[c] = "queued" /\ ~\E i \in 1..m : ws[i] = c
      BY <1>4, <1>6, <2>2
    <3>2. PICK k \in 1..n : ws[k] = c
      BY <1>7, <3>1
    <3>3. k - m \in 1..(n - m) /\ m + (k - m) = k
      BY <1>1, <1>3, <3>1, <3>2
    <3>4. rest[k - m] = c
      BY <1>5, <3>2, <3>3
    <3> QED
      BY <1>5, <2>2, <3>3, <3>4
  <2> QED
    BY <2>1, <2>2
<1>11. Sound(d, nd)
  BY <1>6, <1>8, <1>9, <1>10 DEF Sound, Listed
<1>12. HeadBlocked(d, nd, cancelled)
  <2> SUFFICES ASSUME d.waiting # <<>> PROVE ~Fits(d, nd[Head(d.waiting)])
    BY DEF HeadBlocked
  <2>1. n - m # 0
    BY <1>5, <1>6
  <2>2. m < n /\ m + 1 \in 1..n /\ 1 \in 1..(n - m)
    BY <1>1, <1>3, <2>1
  <2>3. Head(rest) = ws[m + 1]
    BY <1>5, <1>6, <2>2
  <2>4. ~Fits(g, need[ws[m + 1]])
    BY <1>1, <2>2 DEF ws, n
  <2>5. nd[ws[m + 1]] = need[ws[m + 1]]
    <3>1. ws[m + 1] \in Callers /\ live.state[ws[m + 1]] = "queued"
      BY <1>3, <1>7, <2>2 DEF n
    <3>2. b.state[ws[m + 1]] = "queued"
      BY <1>2, <3>1 DEF Reaping
    <3> QED
      BY <3>1, <3>2
  <2> QED
    BY <1>6, <2>3, <2>4, <2>5 DEF Fits
<1>13. Outcome(b, d)
  <2>1. Len(d.waiting) <= Len(b.waiting)
    <3>1. Len(ws) <= Len(b.waiting) /\ Len(b.waiting) \in Nat
      BY <1>2 DEF Reaping, Sound, Books, ws
    <3> QED
      BY <1>1, <1>3, <1>5, <1>6, <3>1 DEF n
  <2>2. ASSUME NEW c \in Callers
        PROVE  /\ b.state[c] # "queued" => d.state[c] = b.state[c]
               /\ b.state[c] = "queued" =>
                    d.state[c] \in IF cancelled[c] THEN {"refused"} ELSE {"granted", "queued"}
               /\ (\E i \in 1..m : ws[i] = c) <=> d.state[c] = "granted" /\ b.state[c] = "queued"
    <3>1. live.state[c] = IF b.state[c] = "queued" /\ cancelled[c] THEN "refused" ELSE b.state[c]
      BY <1>2 DEF Reaping
    <3>2. (\E i \in 1..m : ws[i] = c) => live.state[c] = "queued"
      <4>1. \A i \in 1..m : i \in 1..n
        BY <1>1, <1>3
      <4> QED
        BY <1>7, <4>1
    <3> QED
      BY <1>4, <1>6, <3>1, <3>2
  <2>3. ASSUME NEW i \in 1..Len(b.waiting), NEW j \in 1..Len(b.waiting), i < j,
               ~cancelled[b.waiting[i]], d.state[b.waiting[j]] = "granted"
        PROVE  d.state[b.waiting[i]] = "granted"
    <3>1. /\ b.waiting[i] \in Callers /\ b.state[b.waiting[i]] = "queued"
          /\ b.waiting[j] \in Callers /\ b.state[b.waiting[j]] = "queued"
      <4>1. b.waiting \in Seq(Callers) /\ Listed(b)
        BY DEF Sound, Books
      <4> QED
        BY <4>1 DEF Listed
    <3>2. PICK l0 \in 1..m : ws[l0] = b.waiting[j]
      BY <2>2, <2>3, <3>1
    <3>3. ~cancelled[b.waiting[j]]
      BY <2>2, <2>3, <3>1
    <3>4. PICK k \in 1..n, l \in 1..n : k < l /\ ws[k] = b.waiting[i] /\ ws[l] = b.waiting[j]
      BY <1>2, <2>3, <3>3 DEF Reaping, ws, n
    <3>5. l0 \in 1..n
      BY <1>1, <1>3
    <3>6. l = l0
      BY <1>7, <3>2, <3>4, <3>5 DEF Distinct, n
    <3>7. k \in 1..m
      BY <1>1, <1>3, <3>4, <3>6
    <3> QED
      BY <2>2, <3>1, <3>4, <3>7
  <2> QED
    BY <2>1, <2>2, <2>3 DEF Outcome
<1> QED
  BY <1>11, <1>12, <1>13

-----------------------------------------------------------------------------
(* The counters do not depend on the demands of callers without a lease.   *)
LEMMA CountedSame ==
  ASSUME NEW nd \in Needs, NEW ne \in Needs, NEW b, Counted(b, nd),
         \A c \in LeasedIn(b) : nd[c] = ne[c]
  PROVE  Counted(b, ne)
<1> DEFINE L == LeasedIn(b)
<1>1. IsFiniteSet(L) /\ L \in SUBSET Callers
  BY DEF Counted, LeasedIn
<1>2. SameOn(CPUs(nd), CPUs(ne), L) /\ SameOn(Memories(nd), Memories(ne), L)
  BY <1>1 DEF SameOn, CPUs, Memories
<1>3. Counts(CPUs(nd), L) /\ Counts(Memories(nd), L)
  BY <1>1, Demanded
<1> HIDE DEF L
<1>4. Sum(CPUs(nd), L) = Sum(CPUs(ne), L) /\ Sum(Memories(nd), L) = Sum(Memories(ne), L)
  BY <1>1, <1>2, <1>3, SumSame
<1> QED
  BY <1>4 DEF Counted, L

(* Counters that are sums are natural numbers.                             *)
LEMMA CountedType ==
  ASSUME NEW nd \in Needs, NEW b, Counted(b, nd)
  PROVE  /\ b.used \in [cpu : Nat, memory : Nat] /\ b.active \in Nat
         /\ b.active = 0 <=> LeasedIn(b) = {}
<1> DEFINE L == LeasedIn(b)
<1>1. IsFiniteSet(L) /\ L \in SUBSET Callers
  BY DEF Counted, LeasedIn
<1>2. Counts(CPUs(nd), L) /\ Counts(Memories(nd), L)
  BY <1>1, Demanded
<1> HIDE DEF L
<1>3. Sum(CPUs(nd), L) \in Nat /\ Sum(Memories(nd), L) \in Nat
  BY <1>1, <1>2, SumFacts
<1>4. Cardinality(L) \in Nat /\ (Cardinality(L) = 0 <=> L = {})
  BY <1>1, FS_CardinalityType, FS_EmptySet
<1> QED
  BY <1>3, <1>4 DEF Counted, L

(* The caller's state set, nothing else.                                   *)
WithState(b, c, s) == [b EXCEPT !.state[c] = s]

(* c stands apart from list and leases in the books b.                     *)
Apart(b, c) == b.state[c] \notin {"queued", "granted", "holding"}

(* A caller that is neither queued nor leased may be set to another such   *)
(* state.                                                                  *)
LEMMA StateSet ==
  ASSUME NEW nd \in Needs, NEW b, Sound(b, nd), NEW c \in Callers,
         Apart(b, c),
         NEW s, s \in {"idle", "refused", "released"},
         NEW g, g = WithState(b, c, s)
  PROVE  /\ Sound(g, nd) /\ LeasedIn(g) = LeasedIn(b)
         /\ g.used = b.used /\ g.active = b.active /\ g.waiting = b.waiting
         /\ g.state = [b.state EXCEPT ![c] = s]
<1> USE DEF WithState, Apart
<1>1. /\ g \in Books /\ g.used = b.used /\ g.active = b.active /\ g.waiting = b.waiting
      /\ g.state = [b.state EXCEPT ![c] = s]
  <2>1. b \in Books /\ s \in CallerStates
    BY DEF Sound, CallerStates
  <2> QED
    BY <2>1 DEF Books
<1>2. /\ \A d \in Callers : d # c => g.state[d] = b.state[d]
      /\ g.state[c] = s
  BY <1>1 DEF Sound, Books
<1>3. LeasedIn(g) = LeasedIn(b)
  BY <1>2 DEF LeasedIn
<1>4. Counted(g, nd)
  BY <1>1, <1>3 DEF Counted, Sound
<1>5. Listed(g)
  <2>1. \A d \in Callers : g.state[d] = "queued" <=> b.state[d] = "queued"
    BY <1>2
  <2> QED
    BY <1>1, <2>1 DEF Listed, Sound
<1> QED
  BY <1>1, <1>3, <1>4, <1>5 DEF Sound

(* The next state is what Become says.                                     *)
LEMMA BecomeIs ==
  ASSUME NEW b \in Books, Become(b)
  PROVE  /\ Current' = b
         /\ used' = b.used /\ active' = b.active /\ waiting' = b.waiting /\ state' = b.state
BY DEF Become, Current, Books

(* The budget's present books.                                             *)
LEMMA CurrentIs ==
  /\ Current.used = used /\ Current.active = active
  /\ Current.waiting = waiting /\ Current.state = state
  /\ LeasedIn(Current) = Leased
BY DEF Current, LeasedIn, Leased

(* A step that leaves sound books behind keeps the invariant.              *)
LEMMA Restored ==
  ASSUME NEW b, Become(b), limit' = limit, limit \in MaxWaitings,
         need' \in Needs, cancelled' \in [Callers -> BOOLEAN], closed' \in BOOLEAN,
         Sound(b, need'), Len(b.waiting) <= limit, HeadBlocked(b, need', cancelled'),
         closed' => b.waiting = <<>>,
         drained' = IF closed' /\ LeasedIn(b) = {} THEN 1 ELSE 0
  PROVE  IInv'
<1>1. b \in Books
  BY DEF Sound
<1>2. /\ Current' = b
      /\ used' = b.used /\ active' = b.active /\ waiting' = b.waiting /\ state' = b.state
  BY <1>1, BecomeIs
<1>3. Leased' = LeasedIn(b)
  BY <1>2 DEF Leased, LeasedIn
<1>4. b.used \in [cpu : Nat, memory : Nat] /\ b.active \in Nat
  BY CountedType DEF Sound
<1>5. TypeOK'
  BY <1>1, <1>2, <1>4 DEF TypeOK, Books, Needs
<1>6. Sound(Current', need') /\ Len(waiting') <= limit'
  BY <1>2
<1>7. HeadBlocked(Current', need', cancelled') /\ (closed' => waiting' = <<>>)
  BY <1>2
<1>8. DrainedExactlyOnce'
  BY <1>3 DEF DrainedExactlyOnce
<1>9. Sound(Current, need)'
  BY <1>6 DEF Sound, Counted, Listed
<1>10. HeadBlocked(Current, need, cancelled)'
  BY <1>7 DEF HeadBlocked, Fits
<1> QED
  BY <1>5, <1>6, <1>7, <1>8, <1>9, <1>10 DEF IInv

(* What NoBypass says of one step.                                         *)
InTurn ==
  \A e \in Leased' \ Leased, c \in ToSet(waiting) :
    ~cancelled[c] /\ Before(c, e) => c \in Leased'

(* Those on the list are the queued callers.                               *)
LEMMA Queued ==
  ASSUME IInv
  PROVE  /\ need \in Needs /\ cancelled \in [Callers -> BOOLEAN] /\ waiting \in Seq(Callers)
         /\ state \in [Callers -> CallerStates] /\ closed \in BOOLEAN /\ limit \in MaxWaitings
         /\ limit \in Nat
         /\ \A i \in 1..Len(waiting) : waiting[i] \in Callers /\ state[waiting[i]] = "queued"
         /\ \A c \in Callers : state[c] = "queued" <=> c \in ToSet(waiting)
<1>1. Listed(Current) /\ TypeOK
  BY DEF IInv, Sound
<1>2. waiting \in Seq(Callers) /\ DOMAIN waiting = 1..Len(waiting)
  BY <1>1 DEF TypeOK
<1>3. \A c \in Callers : (\E i \in 1..Len(waiting) : waiting[i] = c) <=> state[c] = "queued"
  BY <1>1, CurrentIs DEF Listed
<1>4. \A i \in 1..Len(waiting) : waiting[i] \in Callers /\ state[waiting[i]] = "queued"
  BY <1>2, <1>3
<1>5. \A c \in Callers : state[c] = "queued" <=> c \in ToSet(waiting)
  BY <1>2, <1>3 DEF ToSet
<1>6. /\ need \in Needs /\ cancelled \in [Callers -> BOOLEAN] /\ closed \in BOOLEAN
      /\ state \in [Callers -> CallerStates] /\ limit \in MaxWaitings
  BY <1>1 DEF TypeOK, Needs
<1>7. limit \in Nat
  BY <1>6, CapacityAssumption
<1> QED
  BY <1>2, <1>4, <1>5, <1>6, <1>7

(* The books b have no new leases, and a list from which only expired      *)
(* waiters were taken.                                                     *)
Thinned(b) ==
  /\ LeasedIn(b) \subseteq Leased
  /\ \A c \in Callers : b.state[c] = "queued" => state[c] = "queued"
  /\ \A c \in Callers : state[c] = "queued" /\ ~cancelled[c] => b.state[c] = "queued"
  /\ \A i, j \in 1..Len(waiting) :
       i < j /\ b.state[waiting[i]] = "queued" /\ b.state[waiting[j]] = "queued"
         => \E k, l \in 1..Len(b.waiting) :
              k < l /\ b.waiting[k] = waiting[i] /\ b.waiting[l] = waiting[j]

(* dispatch serves the list in its order, also when expired waiters were   *)
(* taken off it before.                                                    *)
LEMMA OrderServed ==
  ASSUME IInv, NEW b, Thinned(b), NEW d, Outcome(b, d)
  PROVE  \A e \in LeasedIn(d) \ Leased, c \in ToSet(waiting) :
           ~cancelled[c] /\ Before(c, e) => c \in LeasedIn(d)
<1> USE DEF Thinned
<1> SUFFICES ASSUME NEW e \in LeasedIn(d) \ Leased, NEW c \in ToSet(waiting),
                    ~cancelled[c], Before(c, e)
             PROVE  c \in LeasedIn(d)
  OBVIOUS
<1>1. e \in Callers /\ d.state[e] \in {"granted", "holding"}
  BY DEF LeasedIn
<1>2. b.state[e] = "queued"
  <2> SUFFICES ASSUME b.state[e] # "queued" PROVE FALSE
    OBVIOUS
  <2>1. d.state[e] = b.state[e]
    BY <1>1 DEF Outcome
  <2> QED
    BY <1>1, <2>1 DEF LeasedIn
<1>3. d.state[e] = "granted"
  BY <1>1, <1>2 DEF Outcome
<1>4. e \in ToSet(waiting) /\ c \in Callers /\ state[c] = "queued"
  BY <1>1, <1>2, Queued DEF ToSet
<1>5. b.state[c] = "queued"
  BY <1>4
<1>6. PICK i \in 1..Len(waiting), j \in 1..Len(waiting) : i < j /\ waiting[i] = c /\ waiting[j] = e
  BY <1>4, Queued DEF Before
<1>7. PICK k \in 1..Len(b.waiting), l \in 1..Len(b.waiting) :
        k < l /\ b.waiting[k] = c /\ b.waiting[l] = e
  BY <1>2, <1>5, <1>6
<1>8. d.state[c] = "granted"
  BY <1>3, <1>7 DEF Outcome
<1> QED
  BY <1>4, <1>8 DEF LeasedIn

(* A step that hands out no lease serves in turn.                          *)
LEMMA NoneServed == ASSUME Leased' \subseteq Leased PROVE InTurn
BY DEF InTurn

(* The books as they are.                                                  *)
LEMMA CurrentThinned == ASSUME IInv PROVE Thinned(Current)
BY CurrentIs DEF Thinned

(* Letting waiters in, after a change that made room.                      *)
LEMMA DispatchStep ==
  ASSUME IInv, ~closed, NEW b, need' \in Needs, Sound(b, need'), Len(b.waiting) <= limit,
         \A c \in Callers : b.state[c] = "queued" => need'[c] = need[c],
         Thinned(b), Become(Dispatched(b)), drained' = 0,
         UNCHANGED <<limit, closed, cancelled>>
  PROVE  IInv' /\ InTurn
<1> DEFINE d == Dispatched(b)
<1>1. need \in Needs /\ limit \in Nat /\ limit \in MaxWaitings
      /\ cancelled' \in [Callers -> BOOLEAN] /\ closed' \in BOOLEAN
  BY Queued
<1>2. Sound(d, need') /\ HeadBlocked(d, need', cancelled) /\ Outcome(b, d)
  BY <1>1, DispatchedSound
<1>3. Become(d)
  OBVIOUS
<1> HIDE DEF d
<1>4. Len(d.waiting) <= limit
  <2>1. Len(d.waiting) \in Nat /\ Len(b.waiting) \in Nat
    BY <1>2 DEF Sound, Books
  <2> QED
    BY <1>1, <1>2, <2>1 DEF Outcome
<1>5. IInv'
  BY <1>1, <1>2, <1>3, <1>4, Restored
<1>6. Leased' = LeasedIn(d)
  BY <1>2, <1>3, BecomeIs DEF Sound, Leased, LeasedIn
<1>7. \A e \in LeasedIn(d) \ Leased, x \in ToSet(waiting) :
        ~cancelled[x] /\ Before(x, e) => x \in LeasedIn(d)
  BY <1>2, OrderServed
<1> QED
  BY <1>5, <1>6, <1>7 DEF InTurn

(* Giving a lease back, and letting waiters in.                            *)
LEMMA ReleaseStep ==
  ASSUME IInv, NEW c \in Callers, state[c] \in {"granted", "holding"},
         NEW s, s \in {"idle", "released"}, ReleaseLease(c, s),
         UNCHANGED <<limit, closed, need, cancelled>>
  PROVE  IInv' /\ InTurn
<1> DEFINE b == Released(Current, c, s)
<1>1. Sound(Current, need) /\ c \in LeasedIn(Current)
  BY CurrentIs DEF IInv, Leased
<1>2. Refunded(b, Current, need, c, s)
  BY <1>1, Queued, ReleasedCounted DEF Sound
<1>3. /\ b.waiting = waiting /\ LeasedIn(b) = Leased \ {c}
      /\ \A d \in Callers : b.state[d] = IF d = c THEN s ELSE state[d]
  BY <1>2, CurrentIs, Queued DEF Refunded
<1>4. Sound(b, need)
  <2>1. Distinct(waiting)
    BY <1>1, CurrentIs DEF Sound, Listed
  <2>2. ASSUME NEW d \in Callers
        PROVE  (\E i \in 1..Len(waiting) : waiting[i] = d) <=> b.state[d] = "queued"
    BY <1>1, <1>3, CurrentIs DEF Sound, Listed
  <2> QED
    BY <1>2, <1>3, <2>1, <2>2 DEF Sound, Refunded, Listed
<1>5. b.active = 0 <=> LeasedIn(b) = {}
  BY <1>4, Queued, CountedType DEF Sound
<1>6. drained = 0 /\ Leased # {}
  BY <1>1, CurrentIs DEF IInv, DrainedExactlyOnce
<1>7. /\ need' \in Needs /\ cancelled' \in [Callers -> BOOLEAN] /\ closed' \in BOOLEAN
      /\ limit \in MaxWaitings /\ need' = need
  BY Queued
<1> HIDE DEF b
<1>8. CASE closed /\ b.active = 0
  <2>1. Become(b) /\ drained' = 1 /\ waiting = <<>>
    BY <1>6, <1>8 DEF ReleaseLease, b, IInv
  <2>2. IInv'
    <3>1. HeadBlocked(b, need', cancelled')
      BY <1>3, <2>1 DEF HeadBlocked
    <3> QED
      BY <1>3, <1>4, <1>5, <1>7, <1>8, <2>1, <3>1, Restored DEF IInv
  <2>3. Leased' \subseteq Leased
    BY <1>3, <1>4, <2>1, BecomeIs DEF Sound, Leased, LeasedIn
  <2> QED
    BY <2>2, <2>3, NoneServed
<1>9. CASE ~(closed /\ b.active = 0)
  <2> DEFINE d == Dispatched(b)
  <2>1. Become(d) /\ drained' = 0
    BY <1>6, <1>9 DEF ReleaseLease, b
  <2>2. CASE closed
    <3>1. d = b /\ waiting = <<>>
      BY <2>2 DEF Dispatched, IInv
    <3>2. HeadBlocked(b, need', cancelled')
      BY <1>3, <3>1 DEF HeadBlocked
    <3>3. Become(b)
      BY <2>1, <3>1
    <3>4. IInv'
      BY <1>3, <1>4, <1>5, <1>7, <1>9, <2>1, <2>2, <3>1, <3>2, <3>3, Restored DEF IInv
    <3>5. Leased' \subseteq Leased
      BY <1>3, <1>4, <3>3, BecomeIs DEF Sound, Leased, LeasedIn
    <3> QED
      BY <3>4, <3>5, NoneServed
  <2>3. CASE ~closed
    <3>1. Thinned(b)
      <4>1. LeasedIn(b) \subseteq Leased
        BY <1>3
      <4>2. \A x \in Callers : b.state[x] = "queued" <=> state[x] = "queued"
        BY <1>3
      <4>3. \A i, j \in 1..Len(waiting) :
              i < j => \E k, l \in 1..Len(b.waiting) :
                         k < l /\ b.waiting[k] = waiting[i] /\ b.waiting[l] = waiting[j]
        BY <1>3
      <4> QED
        BY <4>1, <4>2, <4>3 DEF Thinned
    <3>2. Len(b.waiting) <= limit
      BY <1>3 DEF IInv
    <3> QED
      BY <1>4, <1>7, <2>1, <2>3, <3>1, <3>2, DispatchStep
  <2> QED
    BY <2>2, <2>3
<1> QED
  BY <1>8, <1>9

-----------------------------------------------------------------------------
(* Asking: the books after dispatch, with the caller's old lease forgotten. *)
Asked(c) == [Dispatched(Current) EXCEPT !.state[c] = "idle"]

(* What dispatch leaves to a caller that asks for a demand.                *)
LEMMA AskedSound ==
  ASSUME IInv, ~closed, NEW c \in Callers, state[c] \in {"idle", "released"},
         NEW nd \in Needs, \A e \in Callers : e # c => nd[e] = need[e],
         NEW cn, \A e \in Callers : e # c => cn[e] = cancelled[e],
         NEW b, b = Asked(c)
  PROVE  /\ Sound(b, nd) /\ HeadBlocked(b, nd, cn) /\ Len(b.waiting) <= limit
         /\ b.state[c] = "idle" /\ LeasedIn(b) = LeasedIn(Dispatched(Current))
         /\ Outcome(Current, Dispatched(Current))
         /\ \A e \in Callers : e # c => b.state[e] = Dispatched(Current).state[e]
<1> DEFINE d == Dispatched(Current)
<1>1. Sound(d, need) /\ HeadBlocked(d, need, cancelled) /\ Outcome(Current, d)
  BY Queued, DispatchedSound DEF IInv
<1> HIDE DEF d
<1>2. d.state[c] = state[c]
  BY <1>1, CurrentIs DEF Outcome
<1>3. b = [d EXCEPT !.state[c] = "idle"]
  BY DEF Asked, d
<1>4. /\ Sound(b, need) /\ LeasedIn(b) = LeasedIn(d)
      /\ b.used = d.used /\ b.active = d.active /\ b.waiting = d.waiting
      /\ b.state = [d.state EXCEPT ![c] = "idle"]
  <2>1. need \in Needs /\ Apart(d, c)
    BY <1>2, Queued DEF Apart
  <2>2. b = WithState(d, c, "idle")
    BY <1>3 DEF WithState
  <2> QED
    BY <1>1, <2>1, <2>2, StateSet
<1>5. b.state[c] = "idle" /\ \A e \in Callers : e # c => b.state[e] = d.state[e]
  BY <1>1, <1>4 DEF Sound, Books
<1>6. Sound(b, nd)
  <2>1. \A e \in LeasedIn(b) : need[e] = nd[e]
    BY <1>5 DEF LeasedIn
  <2>2. Counted(b, nd)
    BY <1>4, <2>1, Queued, CountedSame DEF Sound
  <2> QED
    BY <1>4, <2>2 DEF Sound
<1>7. HeadBlocked(b, nd, cn)
  <2> SUFFICES ASSUME b.waiting # <<>>, ~cn[Head(b.waiting)]
               PROVE  ~Fits(b, nd[Head(b.waiting)])
    BY DEF HeadBlocked
  <2> DEFINE h == Head(b.waiting)
  <2>1. b.waiting \in Seq(Callers)
    BY <1>4 DEF Sound, Books
  <2>2. 1 \in 1..Len(b.waiting) /\ h = b.waiting[1] /\ h \in Callers
    BY <2>1
  <2>3. b.state[h] = "queued"
    BY <1>4, <2>2 DEF Sound, Listed
  <2>4. h # c /\ nd[h] = need[h] /\ cn[h] = cancelled[h]
    BY <1>5, <2>2, <2>3
  <2>5. ~Fits(d, need[h])
    BY <1>1, <1>4, <2>4 DEF HeadBlocked
  <2> QED
    BY <1>4, <2>4, <2>5 DEF Fits
<1>8. Len(b.waiting) <= limit
  <2>1. Len(d.waiting) \in Nat /\ Len(waiting) \in Nat /\ limit \in Nat
    BY <1>1, Queued DEF Sound, Books
  <2> QED
    BY <1>1, <1>4, <2>1, CurrentIs DEF Outcome, IInv
<1> QED
  BY <1>1, <1>4, <1>5, <1>6, <1>7, <1>8 DEF d

(* A lease granted at once: nobody is left waiting.                        *)
LEMMA AcquireNow ==
  ASSUME IInv, ~closed, NEW c \in Callers, state[c] \in {"idle", "released"},
         need' \in Needs, \A e \in Callers : e # c => need'[e] = need[e],
         cancelled' \in [Callers -> BOOLEAN],
         \A e \in Callers : e # c => cancelled'[e] = cancelled[e],
         AtOnce(Asked(c), need'[c]), Become(Grant(Asked(c), c, need'[c], "holding")),
         UNCHANGED <<limit, closed, drained>>
  PROVE  IInv' /\ InTurn
<1> DEFINE b == Asked(c)
           d == Dispatched(Current)
           g == Grant(b, c, need'[c], "holding")
<1>1. /\ Sound(b, need') /\ HeadBlocked(b, need', cancelled') /\ Len(b.waiting) <= limit
      /\ b.state[c] = "idle" /\ LeasedIn(b) = LeasedIn(d) /\ Outcome(Current, d)
      /\ \A e \in Callers : e # c => b.state[e] = d.state[e]
  BY AskedSound
<1>2. b.waiting = <<>> /\ Fits(b, need'[c]) /\ Become(g)
  BY DEF AtOnce
<1> HIDE DEF b, d
<1>4. c \notin LeasedIn(b) /\ b \in Books /\ Counted(b, need')
  BY <1>1 DEF LeasedIn, Sound
<1>5. Charged(g, b, need', c, "holding")
  BY <1>2, <1>4, GrantCounted
<1> HIDE DEF g
<1>6. /\ g.waiting = <<>> /\ LeasedIn(g) = LeasedIn(b) \cup {c}
      /\ \A e \in Callers : g.state[e] = IF e = c THEN "holding" ELSE b.state[e]
  BY <1>2, <1>4, <1>5 DEF Charged, Books
<1>7. \A e \in Callers : b.state[e] # "queued"
  BY <1>1, <1>2 DEF Sound, Listed
<1>8. Sound(g, need')
  <2>1. Listed(g)
    BY <1>6, <1>7 DEF Listed, Distinct
  <2> QED
    BY <1>5, <2>1 DEF Sound, Charged
<1>9. drained' = 0 /\ LeasedIn(g) # {} /\ Len(g.waiting) <= limit
  BY <1>6, Queued DEF IInv, DrainedExactlyOnce
<1>10. HeadBlocked(g, need', cancelled')
  BY <1>6 DEF HeadBlocked
<1>11. IInv'
  BY <1>2, <1>6, <1>8, <1>9, <1>10, Queued, Restored
<1>12. Leased' = LeasedIn(g)
  BY <1>2, <1>8, BecomeIs DEF Sound, Leased, LeasedIn
<1>13. ASSUME NEW x \in ToSet(waiting), ~cancelled[x] PROVE x \in LeasedIn(g)
  <2>1. x \in Callers /\ state[x] = "queued" /\ x # c
    BY Queued DEF ToSet
  <2>2. d.state[x] = "granted"
    BY <1>1, <1>7, <1>13, <2>1, CurrentIs DEF Outcome
  <2> QED
    BY <1>1, <1>6, <2>1, <2>2 DEF LeasedIn
<1> QED
  BY <1>11, <1>12, <1>13 DEF InTurn

(* A call refused as busy: the reaping it did stays done.                  *)
LEMMA AcquireBusy ==
  ASSUME IInv, ~closed, NEW c \in Callers, state[c] \in {"idle", "released"},
         need' \in Needs, \A e \in Callers : e # c => need'[e] = need[e],
         cancelled' \in [Callers -> BOOLEAN],
         \A e \in Callers : e # c => cancelled'[e] = cancelled[e],
         Become(Asked(c)), UNCHANGED <<limit, closed, drained>>
  PROVE  IInv' /\ InTurn
<1> DEFINE b == Asked(c)
           d == Dispatched(Current)
<1>1. /\ Sound(b, need') /\ HeadBlocked(b, need', cancelled') /\ Len(b.waiting) <= limit
      /\ b.state[c] = "idle" /\ LeasedIn(b) = LeasedIn(d) /\ Outcome(Current, d)
  BY AskedSound
<1>2. Become(b)
  OBVIOUS
<1> HIDE DEF b, d
<1>3. \A e \in Leased : e \in LeasedIn(d)
  BY <1>1, CurrentIs DEF Outcome, Leased, LeasedIn
<1>4. drained' = IF closed' /\ LeasedIn(b) = {} THEN 1 ELSE 0
  BY DEF IInv, DrainedExactlyOnce
<1>5. IInv'
  BY <1>1, <1>2, <1>4, Queued, Restored
<1>6. Leased' = LeasedIn(d)
  BY <1>1, <1>2, BecomeIs DEF Sound, Leased, LeasedIn
<1>7. \A e \in LeasedIn(d) \ Leased, x \in ToSet(waiting) :
        ~cancelled[x] /\ Before(x, e) => x \in LeasedIn(d)
  BY <1>1, CurrentThinned, OrderServed
<1> QED
  BY <1>5, <1>6, <1>7 DEF InTurn

(* The caller takes its place at the end of the list.                      *)
Joined(c) == [Asked(c) EXCEPT !.waiting = Append(@, c), !.state[c] = "queued"]

(* A call that has to wait: it is the head only if it does not fit.        *)
LEMMA AcquireWaits ==
  ASSUME IInv, ~closed, NEW c \in Callers, state[c] \in {"idle", "released"},
         need' \in Needs, \A e \in Callers : e # c => need'[e] = need[e],
         cancelled' \in [Callers -> BOOLEAN],
         \A e \in Callers : e # c => cancelled'[e] = cancelled[e],
         ~AtOnce(Asked(c), need'[c]), Len(Asked(c).waiting) < limit,
         Become(Joined(c)), UNCHANGED <<limit, closed, drained>>
  PROVE  IInv' /\ InTurn
<1> DEFINE b == Asked(c)
           d == Dispatched(Current)
           g == Joined(c)
           ws == b.waiting
           n == Len(ws)
<1>1. /\ Sound(b, need') /\ HeadBlocked(b, need', cancelled') /\ n <= limit
      /\ b.state[c] = "idle" /\ LeasedIn(b) = LeasedIn(d) /\ Outcome(Current, d)
  BY AskedSound
<1>2. Become(g) /\ ~AtOnce(b, need'[c]) /\ n < limit
  OBVIOUS
<1>3. g = [b EXCEPT !.waiting = Append(ws, c), !.state[c] = "queued"]
  BY DEF Joined
<1> HIDE DEF b, d, g
<1>4. b \in Books /\ ws \in Seq(Callers) /\ n \in Nat /\ limit \in Nat
  BY <1>1, Queued DEF Sound, Books
<1>5. /\ g.used = b.used /\ g.active = b.active /\ g.waiting = Append(ws, c)
      /\ g.state = [b.state EXCEPT ![c] = "queued"] /\ g \in Books
  <2>1. Append(ws, c) \in Seq(Callers) /\ "queued" \in CallerStates
    BY <1>4 DEF CallerStates
  <2> HIDE DEF ws
  <2> QED
    BY <1>3, <1>4, <2>1 DEF Books
<1>6. /\ Len(g.waiting) = n + 1 /\ g.waiting[n + 1] = c
      /\ \A i \in 1..n : g.waiting[i] = ws[i] /\ ws[i] \in Callers /\ ws[i] # c
  <2>1. \A i \in 1..n : ws[i] \in Callers /\ b.state[ws[i]] = "queued"
    BY <1>1, <1>4 DEF Sound, Listed
  <2>2. \A i \in 1..n : ws[i] # c
    BY <1>1, <2>1
  <2> QED
    BY <1>4, <1>5, <2>1, <2>2
<1>7. \A e \in Callers : g.state[e] = IF e = c THEN "queued" ELSE b.state[e]
  BY <1>4, <1>5 DEF Books
<1>8. LeasedIn(g) = LeasedIn(b)
  BY <1>1, <1>7 DEF LeasedIn
<1>9. Distinct(g.waiting)
  <2>1. \A i \in 1..(n + 1) : i \in 1..n \/ i = n + 1
    BY <1>4
  <2>2. \A i, j \in 1..n : ws[i] = ws[j] => i = j
    BY <1>1 DEF Sound, Listed, Distinct
  <2> HIDE DEF ws, n
  <2> QED
    BY <1>6, <2>1, <2>2 DEF Distinct
<1>10. ASSUME NEW e \in Callers
       PROVE  (\E i \in 1..Len(g.waiting) : g.waiting[i] = e) <=> g.state[e] = "queued"
  <2>1. (\E i \in 1..n : ws[i] = e) <=> b.state[e] = "queued"
    BY <1>1 DEF Sound, Listed
  <2>2. \A i \in 1..(n + 1) : i \in 1..n \/ i = n + 1
    BY <1>4
  <2>3. n + 1 \in 1..(n + 1) /\ \A i \in 1..n : i \in 1..(n + 1)
    BY <1>4
  <2> HIDE DEF ws, n
  <2> QED
    BY <1>6, <1>7, <2>1, <2>2, <2>3
<1>11. Sound(g, need')
  BY <1>1, <1>5, <1>8, <1>9, <1>10 DEF Sound, Counted, Listed
<1>12. HeadBlocked(g, need', cancelled')
  <2>1. \A r : Fits(g, r) <=> Fits(b, r)
    BY <1>5 DEF Fits
  <2>2. CASE ws = <<>>
    <3>1. Head(g.waiting) = c
      BY <1>5, <2>2
    <3>2. ~Fits(b, need'[c])
      BY <1>2, <2>2 DEF AtOnce
    <3> QED
      BY <2>1, <3>1, <3>2 DEF HeadBlocked
  <2>3. CASE ws # <<>>
    <3>1. Head(g.waiting) = Head(ws)
      BY <1>4, <1>5, <2>3
    <3> QED
      BY <1>1, <2>1, <2>3, <3>1 DEF HeadBlocked
  <2> QED
    BY <2>2, <2>3
<1>13. drained' = IF closed' /\ LeasedIn(g) = {} THEN 1 ELSE 0
  BY DEF IInv, DrainedExactlyOnce
<1>14. Len(g.waiting) <= limit
  BY <1>2, <1>4, <1>6
<1>15. IInv'
  BY <1>2, <1>11, <1>12, <1>13, <1>14, Queued, Restored
<1>16. Leased' = LeasedIn(d)
  BY <1>1, <1>2, <1>8, <1>11, BecomeIs DEF Sound, Leased, LeasedIn
<1>17. \A e \in LeasedIn(d) \ Leased, x \in ToSet(waiting) :
         ~cancelled[x] /\ Before(x, e) => x \in LeasedIn(d)
  BY <1>1, CurrentThinned, OrderServed
<1> QED
  BY <1>15, <1>16, <1>17 DEF InTurn

(* Acquire keeps the invariant, and serves in turn.                        *)
LEMMA AcquireStep ==
  ASSUME IInv, NEW c \in Callers, NEW r \in Demands, Acquire(c, r)
  PROVE  IInv' /\ InTurn
<1>1. /\ state[c] \in {"idle", "released"} /\ ~closed
      /\ need' = [need EXCEPT ![c] = r] /\ cancelled' = [cancelled EXCEPT ![c] = FALSE]
      /\ UNCHANGED <<limit, closed, drained>>
  BY DEF Acquire, Admissible
<1>2. \/ AtOnce(Asked(c), r) /\ Become(Grant(Asked(c), c, r, "holding"))
      \/ Become(Asked(c))
      \/ ~AtOnce(Asked(c), r) /\ Len(Asked(c).waiting) < limit /\ Become(Joined(c))
  BY DEF Acquire, Asked, Joined
<1>3. /\ need' \in Needs /\ need'[c] = r /\ \A e \in Callers : e # c => need'[e] = need[e]
      /\ cancelled' \in [Callers -> BOOLEAN]
      /\ \A e \in Callers : e # c => cancelled'[e] = cancelled[e]
  BY <1>1, Queued, DemandAssumption DEF Needs
<1>4. CASE AtOnce(Asked(c), r) /\ Become(Grant(Asked(c), c, r, "holding"))
  BY <1>1, <1>3, <1>4, AcquireNow
<1>5. CASE Become(Asked(c))
  BY <1>1, <1>3, <1>5, AcquireBusy
<1>6. CASE ~AtOnce(Asked(c), r) /\ Len(Asked(c).waiting) < limit /\ Become(Joined(c))
  BY <1>1, <1>3, <1>6, AcquireWaits
<1> QED
  BY <1>2, <1>4, <1>5, <1>6

-----------------------------------------------------------------------------
(* An expiry is known to nobody.                                           *)
LEMMA ExpireStep == ASSUME IInv, NEW c \in Callers, Expire(c) PROVE IInv' /\ InTurn
<1>1. /\ UNCHANGED <<limit, used, active, waiting, closed, drained, state, need>>
      /\ cancelled' = [cancelled EXCEPT ![c] = TRUE]
  BY DEF Expire
<1>2. Current' = Current /\ Leased' = Leased
  BY <1>1 DEF Current, Leased
<1>3. TypeOK' /\ DrainedExactlyOnce'
  BY <1>1, <1>2 DEF IInv, TypeOK, DrainedExactlyOnce
<1>4. Sound(Current, need)'
  BY <1>1, <1>2 DEF IInv, Sound, Counted, Listed
<1>5. HeadBlocked(Current, need, cancelled)'
  <2>1. HeadBlocked(Current, need, cancelled) /\ Current.waiting = waiting
    BY CurrentIs DEF IInv
  <2>2. waiting # <<>> => Head(waiting) \in Callers
    BY Queued
  <2>3. waiting # <<>> /\ ~cancelled'[Head(waiting)] => ~cancelled[Head(waiting)]
    BY <1>1, <2>2, Queued
  <2> QED
    BY <1>1, <1>2, <2>1, <2>3 DEF HeadBlocked, Fits
<1>6. IInv'
  BY <1>1, <1>3, <1>4, <1>5 DEF IInv
<1> QED
  BY <1>2, <1>6, NoneServed

(* A grant taken up.                                                       *)
LEMMA TakenStep ==
  ASSUME IInv, NEW c \in Callers, state[c] = "granted",
         Become(WithState(Current, c, "holding")), UNCHANGED <<limit, closed, drained, need, cancelled>>
  PROVE  IInv' /\ InTurn
<1> DEFINE b == WithState(Current, c, "holding")
<1>1. Current \in Books /\ "holding" \in CallerStates
  BY DEF IInv, Sound, CallerStates
<1>2. /\ b \in Books /\ b.used = used /\ b.active = active /\ b.waiting = waiting
      /\ b.state = [state EXCEPT ![c] = "holding"]
  BY <1>1, CurrentIs DEF WithState, Books
<1>3. \A e \in Callers : b.state[e] = IF e = c THEN "holding" ELSE state[e]
  BY <1>2, Queued
<1> HIDE DEF b
<1>4. LeasedIn(b) = Leased
  BY <1>3 DEF LeasedIn, Leased
<1>5. Sound(b, need)
  <2>1. \A e \in Callers : b.state[e] = "queued" <=> state[e] = "queued"
    BY <1>3
  <2>2. Counted(Current, need) /\ Listed(Current)
    BY DEF IInv, Sound
  <2>3. Counted(b, need)
    BY <1>2, <1>4, <2>2, CurrentIs DEF Counted
  <2>4. Listed(b)
    BY <1>2, <2>1, <2>2, CurrentIs DEF Listed
  <2> QED
    BY <1>2, <2>3, <2>4 DEF Sound
<1>6. HeadBlocked(b, need, cancelled)
  BY <1>2, CurrentIs DEF IInv, HeadBlocked, Fits
<1>7. Become(b) /\ drained' = IF closed' /\ LeasedIn(b) = {} THEN 1 ELSE 0
  BY <1>4 DEF b, IInv, DrainedExactlyOnce
<1>8. Len(b.waiting) <= limit /\ (closed' => b.waiting = <<>>)
  BY <1>2 DEF IInv
<1>9. IInv'
  BY <1>5, <1>6, <1>7, <1>8, Queued, Restored
<1>10. Leased' \subseteq Leased
  BY <1>2, <1>4, <1>7, BecomeIs DEF Leased, LeasedIn
<1> QED
  BY <1>9, <1>10, NoneServed

(* A refusal noticed.                                                      *)
LEMMA WakeRefusedStep == ASSUME IInv, NEW c \in Callers, WakeRefused(c) PROVE IInv' /\ InTurn
<1> DEFINE b == WithState(Current, c, "idle")
<1>1. /\ state[c] = "refused" /\ Become(b)
      /\ UNCHANGED <<limit, closed, drained, need, cancelled>>
  BY DEF WakeRefused, WithState
<1> HIDE DEF b
<1>2. Sound(Current, need) /\ Apart(Current, c) /\ b = WithState(Current, c, "idle")
  BY <1>1, CurrentIs DEF IInv, Apart, b
<1>3. /\ Sound(b, need) /\ LeasedIn(b) = Leased
      /\ b.used = used /\ b.active = active /\ b.waiting = waiting
  <2>1. need \in Needs
    BY Queued
  <2>2. /\ Sound(b, need) /\ LeasedIn(b) = LeasedIn(Current)
        /\ b.used = Current.used /\ b.active = Current.active /\ b.waiting = Current.waiting
        /\ b.state = [Current.state EXCEPT ![c] = "idle"]
    BY <1>2, <2>1, StateSet
  <2> QED
    BY <2>2, CurrentIs
<1>4. HeadBlocked(b, need, cancelled)
  BY <1>3, CurrentIs DEF IInv, HeadBlocked, Fits
<1>5. drained' = IF closed' /\ LeasedIn(b) = {} THEN 1 ELSE 0
  BY <1>1, <1>3 DEF IInv, DrainedExactlyOnce
<1>6. Len(b.waiting) <= limit /\ (closed' => b.waiting = <<>>)
  BY <1>1, <1>3 DEF IInv
<1>7. IInv'
  BY <1>1, <1>3, <1>4, <1>5, <1>6, Queued, Restored
<1>8. Leased' \subseteq Leased
  BY <1>1, <1>3, BecomeIs DEF Sound, Leased, LeasedIn
<1> QED
  BY <1>7, <1>8, NoneServed

(* A waiter that leaves the list lets those behind it in.                  *)
LEMMA WakeExpiredStep == ASSUME IInv, NEW c \in Callers, WakeExpired(c) PROVE IInv' /\ InTurn
<1> DEFINE ws == RemoveFirst(waiting, c)
           b == [Current EXCEPT !.waiting = ws, !.state[c] = "idle"]
<1>1. /\ state[c] = "queued" /\ cancelled[c] /\ Become(Dispatched(b))
      /\ UNCHANGED <<limit, closed, drained, need, cancelled>>
  BY CurrentIs DEF WakeExpired
<1>2. Current \in Books /\ Distinct(waiting)
      /\ \A e \in Callers : (\E i \in 1..Len(waiting) : waiting[i] = e) <=> state[e] = "queued"
  BY CurrentIs DEF IInv, Sound, Listed
<1>3. PICK p \in 1..Len(waiting) : waiting[p] = c
  BY <1>1, <1>2
<1>4. ~closed
  <2>1. waiting # <<>>
    BY <1>3
  <2> QED
    BY <2>1 DEF IInv
<1>5. ws \in Seq(Callers) /\ WithoutOne(ws, waiting, c)
  BY <1>2, <1>3, Queued, RemoveFirstIs
<1> HIDE DEF ws
<1>6. /\ b \in Books /\ b.used = used /\ b.active = active /\ b.waiting = ws
      /\ b.state = [state EXCEPT ![c] = "idle"]
  <2>1. "idle" \in CallerStates
    BY DEF CallerStates
  <2> QED
    BY <1>2, <1>5, <2>1, CurrentIs DEF Books
<1> HIDE DEF b
<1>7. \A e \in Callers : b.state[e] = IF e = c THEN "idle" ELSE state[e]
  BY <1>6, Queued
<1>8. LeasedIn(b) = Leased
  BY <1>1, <1>7 DEF LeasedIn, Leased
<1>9. Sound(b, need)
  <2>1. Counted(b, need)
    BY <1>6, <1>8, CurrentIs DEF IInv, Sound, Counted
  <2>2. ASSUME NEW e \in Callers
        PROVE  (\E i \in 1..Len(ws) : ws[i] = e) <=> b.state[e] = "queued"
    BY <1>2, <1>5, <1>7 DEF WithoutOne
  <2> QED
    BY <1>5, <1>6, <2>1, <2>2 DEF Sound, Listed, WithoutOne
<1>10. Len(b.waiting) <= limit
  <2>1. Len(ws) \in Nat /\ Len(waiting) \in Nat
    BY <1>5, Queued
  <2> QED
    BY <1>5, <1>6, <2>1, Queued DEF WithoutOne, IInv
<1>11. Thinned(b)
  <2>1. \A e \in Callers : /\ b.state[e] = "queued" => state[e] = "queued"
                           /\ state[e] = "queued" /\ ~cancelled[e] => b.state[e] = "queued"
    BY <1>1, <1>7
  <2>2. \A i, j \in 1..Len(waiting) :
          i < j /\ b.state[waiting[i]] = "queued" /\ b.state[waiting[j]] = "queued"
            => \E k, l \in 1..Len(ws) : k < l /\ ws[k] = waiting[i] /\ ws[l] = waiting[j]
    <3>1. b.state[c] # "queued"
      BY <1>7
    <3> QED
      BY <1>5, <3>1 DEF WithoutOne
  <2> QED
    BY <1>6, <1>8, <2>1, <2>2 DEF Thinned
<1>12. drained' = 0 /\ need' \in Needs /\ need' = need
  BY <1>1, <1>4, Queued DEF IInv, DrainedExactlyOnce
<1> QED
  BY <1>1, <1>4, <1>9, <1>10, <1>11, <1>12, DispatchStep

(* Waking up.                                                              *)
LEMMA WakeStep == ASSUME IInv, NEW c \in Callers, Wake(c) PROVE IInv' /\ InTurn
<1>1. CASE WakeGranted(c) /\ cancelled[c]
  <2>1. state[c] = "granted" /\ ReleaseLease(c, "idle") /\ UNCHANGED <<limit, closed, need, cancelled>>
    BY <1>1 DEF WakeGranted
  <2> QED
    BY <2>1, ReleaseStep
<1>2. CASE WakeGranted(c) /\ ~cancelled[c]
  <2>1. /\ state[c] = "granted" /\ Become(WithState(Current, c, "holding"))
        /\ UNCHANGED <<limit, closed, drained, need, cancelled>>
    BY <1>2 DEF WakeGranted, WithState
  <2> QED
    BY <2>1, TakenStep
<1> QED
  BY <1>1, <1>2, WakeRefusedStep, WakeExpiredStep DEF Wake

(* A lease given back by its owner.                                        *)
LEMMA ReleaseAction == ASSUME IInv, NEW c \in Callers, Release(c) PROVE IInv' /\ InTurn
<1>1. /\ state[c] = "holding" /\ ReleaseLease(c, "released")
      /\ UNCHANGED <<limit, closed, need, cancelled>>
  BY DEF Release, Unreleased
<1> QED
  BY <1>1, ReleaseStep

(* The sums over the leases, with one of them apart.                       *)
LEMMA OneApart ==
  ASSUME NEW nd \in Needs, NEW L \in SUBSET Callers, IsFiniteSet(L), NEW c \in L,
         NEW M, M = L \ {c}
  PROVE  /\ Sum(CPUs(nd), L) = nd[c].cpu + Sum(CPUs(nd), M) /\ Sum(CPUs(nd), M) \in Nat
         /\ Sum(Memories(nd), L) = nd[c].memory + Sum(Memories(nd), M)
         /\ Sum(Memories(nd), M) \in Nat
<1>1. Counts(CPUs(nd), L) /\ Counts(Memories(nd), L)
  BY Demanded
<1>2. CPUs(nd)[c] = nd[c].cpu /\ Memories(nd)[c] = nd[c].memory
  BY Demanded
<1>3. Sum(CPUs(nd), L) = nd[c].cpu + Sum(CPUs(nd), M) /\ Sum(CPUs(nd), M) \in Nat
  BY <1>1, <1>2, SumFacts
<1>4. Sum(Memories(nd), L) = nd[c].memory + Sum(Memories(nd), M) /\ Sum(Memories(nd), M) \in Nat
  BY <1>1, <1>2, SumFacts
<1> QED
  BY <1>3, <1>4

(* Charging less for a lease counts the same leases.                       *)
LEMMA ShrunkCounted ==
  ASSUME NEW nd \in Needs, NEW ne \in Needs, NEW b \in Books, Counted(b, nd),
         NEW c \in LeasedIn(b), \A e \in Callers : e # c => ne[e] = nd[e],
         ne[c].cpu <= nd[c].cpu, ne[c].memory <= nd[c].memory,
         NEW g, g = [b EXCEPT !.used = Plus(Minus(b.used, nd[c]), ne[c])]
  PROVE  /\ g \in Books /\ Counted(g, ne) /\ LeasedIn(g) = LeasedIn(b)
         /\ g.waiting = b.waiting /\ g.state = b.state
<1> DEFINE L == LeasedIn(b)
           M == L \ {c}
<1>1. c \in Callers /\ nd[c] \in [cpu : Nat, memory : Nat] /\ ne[c] \in [cpu : Nat, memory : Nat]
  BY DEF Needs, LeasedIn
<1>2. /\ g.used = Plus(Minus(b.used, nd[c]), ne[c]) /\ g.active = b.active
      /\ g.waiting = b.waiting /\ g.state = b.state /\ g \in Books
  <2>1. b.used \in [cpu : Int, memory : Int]
    BY DEF Books
  <2>2. Minus(b.used, nd[c]) \in [cpu : Int, memory : Int]
    BY <1>1, <2>1 DEF Minus
  <2>3. Plus(Minus(b.used, nd[c]), ne[c]) \in [cpu : Int, memory : Int]
    <3> DEFINE u == Minus(b.used, nd[c])
    <3> HIDE DEF u
    <3>1. u \in [cpu : Int, memory : Int]
      BY <2>2 DEF u
    <3>2. Plus(u, ne[c]) \in [cpu : Int, memory : Int]
      BY <1>1, <3>1 DEF Plus
    <3> QED
      BY <3>2 DEF u
  <2> QED
    BY <2>3 DEF Books
<1>3. LeasedIn(g) = L
  BY <1>2 DEF LeasedIn
<1>4. L \in SUBSET Callers /\ M \in SUBSET Callers /\ c \in L /\ IsFiniteSet(L) /\ IsFiniteSet(M)
  BY FS_Subset DEF LeasedIn, Counted
<1>5. SameOn(CPUs(nd), CPUs(ne), M) /\ SameOn(Memories(nd), Memories(ne), M)
  BY <1>4 DEF SameOn, CPUs, Memories
<1> HIDE DEF L
<1>6. /\ Sum(CPUs(nd), L) = nd[c].cpu + Sum(CPUs(nd), M) /\ Sum(CPUs(nd), M) \in Nat
      /\ Sum(Memories(nd), L) = nd[c].memory + Sum(Memories(nd), M) /\ Sum(Memories(nd), M) \in Nat
  BY <1>4, OneApart
<1>7. /\ Sum(CPUs(ne), L) = ne[c].cpu + Sum(CPUs(ne), M)
      /\ Sum(Memories(ne), L) = ne[c].memory + Sum(Memories(ne), M)
  BY <1>4, OneApart
<1> HIDE DEF M
<1>8. Sum(CPUs(nd), M) = Sum(CPUs(ne), M) /\ Sum(Memories(nd), M) = Sum(Memories(ne), M)
  BY <1>4, <1>5, Demanded, SumSame
<1>9. /\ b.used = [cpu |-> Sum(CPUs(nd), L), memory |-> Sum(Memories(nd), L)]
      /\ b.active = Cardinality(L)
      /\ b.used.cpu <= CPUSlots /\ b.used.memory <= MemoryBytes /\ b.active <= MaxActive
  BY DEF Counted, L
<1>10. g.used = [cpu |-> Sum(CPUs(ne), L), memory |-> Sum(Memories(ne), L)]
  BY <1>1, <1>2, <1>6, <1>7, <1>8, <1>9 DEF Plus, Minus
<1>11. g.used.cpu <= CPUSlots /\ g.used.memory <= MemoryBytes
  BY <1>1, <1>6, <1>7, <1>8, <1>9, <1>10, CapacityAssumption
<1>12. Counted(g, ne)
  BY <1>2, <1>3, <1>4, <1>9, <1>10, <1>11 DEF Counted
<1> QED
  BY <1>2, <1>3, <1>12 DEF L

(* A lease made smaller lets waiters in.                                   *)
LEMMA ShrinkStep ==
  ASSUME IInv, NEW c \in Callers, NEW r \in Demands, Shrink(c, r)
  PROVE  IInv' /\ InTurn
<1> DEFINE b == [Current EXCEPT !.used = Plus(Minus(Current.used, need[c]), need'[c])]
<1>1. /\ state[c] = "holding" /\ r.cpu <= need[c].cpu /\ r.memory <= need[c].memory
      /\ need' = [need EXCEPT ![c] = r]
      /\ UNCHANGED <<limit, closed, drained, cancelled>>
  BY DEF Shrink, Unreleased
<1>2. /\ need' \in Needs /\ need'[c] = r /\ \A e \in Callers : e # c => need'[e] = need[e]
  BY <1>1, Queued, DemandAssumption DEF Needs
<1>3. Become(Dispatched(b))
  BY <1>2 DEF Shrink
<1>4. Sound(Current, need) /\ c \in LeasedIn(Current)
  BY <1>1, CurrentIs DEF IInv, Leased
<1>5. need'[c].cpu <= need[c].cpu /\ need'[c].memory <= need[c].memory
  BY <1>1, <1>2
<1>6. /\ b \in Books /\ Counted(b, need') /\ LeasedIn(b) = LeasedIn(Current)
      /\ b.waiting = Current.waiting /\ b.state = Current.state
  <2>1. Current \in Books /\ Counted(Current, need) /\ need \in Needs
    BY <1>4, Queued DEF Sound
  <2> QED
    BY <1>2, <1>4, <1>5, <2>1, ShrunkCounted
<1> HIDE DEF b
<1>7. Sound(b, need') /\ b.waiting = waiting /\ b.state = state /\ LeasedIn(b) = Leased
  BY <1>4, <1>6, CurrentIs DEF Sound, Listed
<1>8. drained' = 0 /\ Leased # {}
  BY <1>1, <1>4, CurrentIs DEF IInv, DrainedExactlyOnce
<1>9. CASE closed
  <2>1. Become(b) /\ waiting = <<>>
    BY <1>3, <1>9 DEF Dispatched, IInv
  <2>2. HeadBlocked(b, need', cancelled') /\ Len(b.waiting) <= limit
    BY <1>7, <2>1 DEF HeadBlocked, IInv
  <2>3. IInv'
    BY <1>1, <1>2, <1>7, <1>8, <2>1, <2>2, Queued, Restored
  <2>4. Leased' \subseteq Leased
    BY <1>7, <2>1, BecomeIs DEF Sound, Leased, LeasedIn
  <2> QED
    BY <2>3, <2>4, NoneServed
<1>10. CASE ~closed
  <2>1. Thinned(b) /\ Len(b.waiting) <= limit
    BY <1>7 DEF Thinned, IInv
  <2>2. \A e \in Callers : b.state[e] = "queued" => need'[e] = need[e]
    <3>1. b.state[c] # "queued"
      BY <1>1, <1>7
    <3> QED
      BY <1>2, <3>1
  <2> QED
    BY <1>1, <1>2, <1>3, <1>7, <1>8, <1>10, <2>1, <2>2, DispatchStep
<1> QED
  BY <1>9, <1>10

(* Closing refuses those on the list.                                      *)
LEMMA CloseStep == ASSUME IInv, Close PROVE IInv' /\ InTurn
<1> DEFINE st == [c \in Callers |-> IF c \in ToSet(waiting) THEN "refused" ELSE state[c]]
           b == [Current EXCEPT !.waiting = <<>>, !.state = st]
<1>1. /\ ~closed /\ closed' = TRUE /\ Become(b)
      /\ drained' = IF active = 0 THEN drained + 1 ELSE drained
      /\ UNCHANGED <<limit, need, cancelled>>
  BY CurrentIs DEF Close
<1>2. st \in [Callers -> CallerStates] /\ <<>> \in Seq(Callers)
  BY Queued DEF CallerStates
<1>3. \A c \in Callers : st[c] = IF state[c] = "queued" THEN "refused" ELSE state[c]
  BY Queued
<1> HIDE DEF st
<1>4. Current \in Books /\ Counted(Current, need)
  BY DEF IInv, Sound
<1>5. /\ b \in Books /\ b.used = used /\ b.active = active /\ b.waiting = <<>> /\ b.state = st
  BY <1>2, <1>4, CurrentIs DEF Books
<1> HIDE DEF b
<1>6. LeasedIn(b) = Leased
  BY <1>3, <1>5 DEF LeasedIn, Leased
<1>7. Sound(b, need)
  <2>1. Counted(b, need)
    BY <1>4, <1>5, <1>6, CurrentIs DEF Counted
  <2>2. Listed(b)
    BY <1>3, <1>5 DEF Listed, Distinct
  <2> QED
    BY <1>5, <2>1, <2>2 DEF Sound
<1>8. active = 0 <=> Leased = {}
  BY <1>4, Queued, CurrentIs, CountedType
<1>9. drained' = IF closed' /\ LeasedIn(b) = {} THEN 1 ELSE 0
  BY <1>1, <1>6, <1>8 DEF IInv, DrainedExactlyOnce
<1>10. HeadBlocked(b, need', cancelled') /\ Len(b.waiting) <= limit
  BY <1>5, Queued DEF HeadBlocked
<1>11. IInv'
  BY <1>1, <1>5, <1>7, <1>9, <1>10, Queued, Restored
<1>12. Leased' \subseteq Leased
  BY <1>1, <1>5, <1>6, BecomeIs DEF Leased, LeasedIn
<1> QED
  BY <1>11, <1>12, NoneServed

(* Every step keeps the invariant and serves in turn.                      *)
LEMMA StepInvariant == ASSUME IInv, Next PROVE IInv' /\ InTurn
BY AcquireStep, ShrinkStep, ExpireStep, WakeStep, ReleaseAction, CloseStep DEF Next

(* A step that changes nothing does so, too.                               *)
LEMMA StutterInvariant == ASSUME IInv, UNCHANGED vars PROVE IInv' /\ InTurn
<1>1. Current' = Current /\ Leased' = Leased
  BY DEF vars, Current, Leased
<1>2. TypeOK' /\ DrainedExactlyOnce'
  BY <1>1 DEF vars, IInv, TypeOK, DrainedExactlyOnce
<1>3. Sound(Current, need)'
  BY <1>1 DEF vars, IInv, Sound, Counted, Listed
<1>4. HeadBlocked(Current, need, cancelled)'
  BY <1>1 DEF vars, IInv, HeadBlocked, Fits
<1>5. IInv'
  BY <1>2, <1>3, <1>4 DEF vars, IInv
<1> QED
  BY <1>1, <1>5, NoneServed

(* A new budget is empty.                                                  *)
LEMMA InitInvariant == ASSUME Init PROVE IInv
<1>1. /\ limit \in MaxWaitings /\ used = NoNeed /\ active = 0 /\ waiting = <<>>
      /\ closed = FALSE /\ drained = 0 /\ state = [c \in Callers |-> "idle"]
      /\ need = [c \in Callers |-> NoNeed] /\ cancelled = [c \in Callers |-> FALSE]
  BY DEF Init
<1>2. TypeOK
  <2>1. NoNeed \in [cpu : Nat, memory : Nat]
    BY DEF NoNeed
  <2>2. <<>> \in Seq(Callers) /\ "idle" \in CallerStates
    BY DEF CallerStates
  <2>3. state \in [Callers -> CallerStates] /\ need \in [Callers -> [cpu : Nat, memory : Nat]]
    BY <1>1, <2>1, <2>2
  <2> QED
    BY <1>1, <2>1, <2>2, <2>3 DEF TypeOK
<1>3. Leased = {} /\ LeasedIn(Current) = {}
  BY <1>1, CurrentIs DEF Leased
<1>4. need \in Needs
  BY <1>2 DEF TypeOK, Needs
<1>5. Sound(Current, need)
  <2>1. Current \in Books
    BY <1>2 DEF TypeOK, Books, Current
  <2>2. IsFiniteSet({}) /\ Cardinality({}) = 0
    BY FS_EmptySet
  <2>3. Counts(CPUs(need), {}) /\ Counts(Memories(need), {})
    BY DEF Counts
  <2>4. Sum(CPUs(need), {}) = 0 /\ Sum(Memories(need), {}) = 0
    BY <2>2, <2>3, SumFacts
  <2>5. Counted(Current, need)
    BY <1>1, <1>3, <2>2, <2>4, CurrentIs, CapacityAssumption DEF Counted, NoNeed
  <2>6. Listed(Current)
    BY <1>1, CurrentIs DEF Listed, Distinct
  <2> QED
    BY <2>1, <2>5, <2>6 DEF Sound
<1>6. Len(waiting) <= limit
  BY <1>1, CapacityAssumption
<1>7. HeadBlocked(Current, need, cancelled)
  BY <1>1, CurrentIs DEF HeadBlocked
<1>8. DrainedExactlyOnce
  BY <1>1 DEF DrainedExactlyOnce
<1> QED
  BY <1>1, <1>2, <1>5, <1>6, <1>7, <1>8 DEF IInv

-----------------------------------------------------------------------------
(* The cpu a set of callers needs, summed up as the invariant does it.  *)
LEMMA CPUSum ==
  ASSUME NEW nd \in Needs, NEW L \in SUBSET Callers, IsFiniteSet(L)
  PROVE  MapThenSumSet(LAMBDA c : nd[c].cpu, L) = Sum(CPUs(nd), L)
<1> DEFINE Walk(g) == g = [s \in SUBSET L |-> IF s = {} THEN 0
                                              ELSE nd[Pick(s)].cpu + g[s \ {Pick(s)}]]
<1>1. Counts(CPUs(nd), L)
  BY Demanded
<1>2. PICK h : IsSum(h, L, CPUs(nd)) /\ Sum(CPUs(nd), L) = h[L]
  BY <1>1, SumIs
<1>3. \A s \in SUBSET L : s # {} => CPUs(nd)[Pick(s)] = nd[Pick(s)].cpu
  BY DEF Pick, CPUs
<1>4. \A g : IsSum(g, L, CPUs(nd)) <=> Walk(g)
  BY <1>3 DEF IsSum, SumsUp
<1>5. Walk(h)
  BY <1>2, <1>4
<1>6. PICK k : Walk(k) /\ MapThenSumSet(LAMBDA c : nd[c].cpu, L) = k[L]
  BY <1>5 DEF MapThenSumSet, MapThenFoldSet, Pick
<1> HIDE DEF Walk
<1>7. IsSum(k, L, CPUs(nd))
  BY <1>4, <1>6
<1>8. SameOn(CPUs(nd), CPUs(nd), L) /\ L \subseteq L
  BY DEF SameOn
<1>9. k[L] = h[L]
  BY <1>2, <1>7, <1>8, SumsAgree
<1> QED
  BY <1>2, <1>6, <1>9

(* The memory a set of callers needs, summed up as the invariant does it.  *)
LEMMA MemorySum ==
  ASSUME NEW nd \in Needs, NEW L \in SUBSET Callers, IsFiniteSet(L)
  PROVE  MapThenSumSet(LAMBDA c : nd[c].memory, L) = Sum(Memories(nd), L)
<1> DEFINE Walk(g) == g = [s \in SUBSET L |-> IF s = {} THEN 0
                                              ELSE nd[Pick(s)].memory + g[s \ {Pick(s)}]]
<1>1. Counts(Memories(nd), L)
  BY Demanded
<1>2. PICK h : IsSum(h, L, Memories(nd)) /\ Sum(Memories(nd), L) = h[L]
  BY <1>1, SumIs
<1>3. \A s \in SUBSET L : s # {} => Memories(nd)[Pick(s)] = nd[Pick(s)].memory
  BY DEF Pick, Memories
<1>4. \A g : IsSum(g, L, Memories(nd)) <=> Walk(g)
  BY <1>3 DEF IsSum, SumsUp
<1>5. Walk(h)
  BY <1>2, <1>4
<1>6. PICK k : Walk(k) /\ MapThenSumSet(LAMBDA c : nd[c].memory, L) = k[L]
  BY <1>5 DEF MapThenSumSet, MapThenFoldSet, Pick
<1> HIDE DEF Walk
<1>7. IsSum(k, L, Memories(nd))
  BY <1>4, <1>6
<1>8. SameOn(Memories(nd), Memories(nd), L) /\ L \subseteq L
  BY DEF SameOn
<1>9. k[L] = h[L]
  BY <1>2, <1>7, <1>8, SumsAgree
<1> QED
  BY <1>2, <1>6, <1>9

(* The counters, with the sums written as Accounting has them.             *)
LEMMA FollowsAccounting == ASSUME IInv PROVE Accounting
<1>1. TypeOK /\ Counted(Current, need) /\ Len(waiting) <= limit
  BY DEF IInv, Sound
<1>2. need \in Needs /\ Leased \in SUBSET Callers /\ IsFiniteSet(Leased)
  BY <1>1, Queued, CurrentIs DEF Counted, Leased
<1>3. /\ MapThenSumSet(LAMBDA c : need[c].cpu, Leased) = Sum(CPUs(need), Leased)
      /\ MapThenSumSet(LAMBDA c : need[c].memory, Leased) = Sum(Memories(need), Leased)
  BY <1>2, CPUSum, MemorySum
<1>4. used = [cpu |-> Sum(CPUs(need), Leased), memory |-> Sum(Memories(need), Leased)]
  BY <1>1, CurrentIs DEF Counted
<1>5. active = Cardinality(Leased) /\ active <= MaxActive
      /\ used.cpu <= CPUSlots /\ used.memory <= MemoryBytes
  BY <1>1, CurrentIs DEF Counted
<1> QED
  BY <1>1, <1>3, <1>4, <1>5 DEF Accounting

(* The list is without repetition, and holds the queued callers.           *)
LEMMA FollowsNoWaiterLost == ASSUME IInv PROVE NoWaiterLost
<1>1. Distinct(waiting) /\ waiting \in Seq(Callers)
  BY Queued, CurrentIs DEF IInv, Sound, Listed
<1>2. ToSet(waiting) = {waiting[i] : i \in 1..Len(waiting)}
  BY <1>1 DEF ToSet
<1>3. Len(waiting) = Cardinality(ToSet(waiting))
  BY <1>1, <1>2, DistinctLength
<1>4. ToSet(waiting) \subseteq Callers
  BY <1>1, <1>2
<1>5. ToSet(waiting) = {c \in Callers : state[c] = "queued"}
  BY <1>4, Queued
<1> QED
  BY <1>3, <1>5 DEF NoWaiterLost

(* A live head does not fit.                                               *)
LEMMA FollowsHead == ASSUME IInv PROVE HeadDoesNotFit
BY CurrentIs DEF IInv, HeadBlocked, HeadDoesNotFit

(* For any callers, demands, capacity and bounds: the invariant holds in   *)
(* every reachable state of the budget.                                    *)
THEOREM BudgetInductive == Spec => []IInv
<1>1. IInv /\ [Next]_vars => IInv'
  BY StepInvariant, StutterInvariant
<1> QED
  BY InitInvariant, <1>1, PTL DEF Spec

(* The counters are the sums over the outstanding leases and within the    *)
(* capacity: nothing is charged or refunded twice.                         *)
THEOREM BudgetAccounts == Spec => []Accounting
<1>1. IInv => Accounting
  BY FollowsAccounting
<1> QED
  BY BudgetInductive, <1>1, PTL

(* Every caller that sleeps is on the list once, and nobody else.          *)
THEOREM WaitersKept == Spec => []NoWaiterLost
<1>1. IInv => NoWaiterLost
  BY FollowsNoWaiterLost
<1> QED
  BY BudgetInductive, <1>1, PTL

(* No wake-up is lost: a live head really does not fit.                    *)
THEOREM HeadServed == Spec => []HeadDoesNotFit
<1>1. IInv => HeadDoesNotFit
  BY FollowsHead
<1> QED
  BY BudgetInductive, <1>1, PTL

(* The drained channel is closed once, when a closed budget has no leases. *)
THEOREM DrainedOnce == Spec => []DrainedExactlyOnce
<1>1. IInv => DrainedExactlyOnce
  BY DEF IInv
<1> QED
  BY BudgetInductive, <1>1, PTL

(* No step gives a lease to a caller past a live waiter ahead of it.       *)
THEOREM NobodyBypassed == Spec => NoBypass
<1>1. IInv /\ [Next]_vars => [InTurn]_vars
  BY StepInvariant
<1>2. [InTurn]_vars => [\A d \in Leased' \ Leased, c \in ToSet(waiting) :
                          ~cancelled[c] /\ Before(c, d) => c \in Leased']_vars
  BY DEF InTurn
<1> QED
  BY BudgetInductive, <1>1, <1>2, PTL DEF Spec, NoBypass
=============================================================================
