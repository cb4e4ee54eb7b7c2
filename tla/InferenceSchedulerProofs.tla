---------------------- MODULE InferenceSchedulerProofs ----------------------
(***************************************************************************)
(* The scheduler releases every request once and refuses no free identity, *)
(* ends what has expired in its sweeps and admits by arrival: for any      *)
(* requests, arrivals, configuration, works and bounds.                    *)
(***************************************************************************)
EXTENDS InferenceScheduler, ListLemmas

-----------------------------------------------------------------------------
(* Lists of requests.                                                      *)

List(s) == s \in Seq(Requests) /\ Distinct(s)

Apart(s, t) == Range(s) \cap Range(t) = {}

(* The range of a list, by positions.                                      *)
LEMMA RangeIs ==
  ASSUME NEW s \in Seq(Requests)
  PROVE  /\ Range(s) \subseteq Requests
         /\ \A c : c \in Range(s) <=> \E i \in 1..Len(s) : s[i] = c
  BY DEF Range

(* t holds the requests of s outside gone, in their order.                 *)
Thinned(t, s, gone) ==
  /\ List(t) /\ Len(t) <= Len(s)
  /\ Range(t) = Range(s) \ gone
  /\ \A k, l \in 1..Len(t) :
       k < l => \E i, j \in 1..Len(s) : i < j /\ t[k] = s[i] /\ t[l] = s[j]

(* compactEntries keeps just the entries that are not dead, in order.      *)
LEMMA KeepThins ==
  ASSUME NEW s, List(s), NEW gone
  PROVE  Thinned(Keep(s, gone), s, gone)
<1> DEFINE S == Requests \ gone
           t == Kept(s, S)
<1>1. s \in Seq(Requests) /\ Distinct(s)
  BY DEF List
<1> HIDE DEF S
<1>2. t \in Seq(Requests) /\ ElementsOf(t, s, S)
  BY <1>1, KeptElements
<1>3. Distinct(t) /\ OrderOf(t, s, S)
  BY <1>1, KeptOrder
<1> HIDE DEF t
<1>4. Len(t) <= Len(s) /\ \A c : (\E i \in 1..Len(t) : t[i] = c)
                                   <=> c \in S /\ \E k \in 1..Len(s) : s[k] = c
  BY <1>2 DEF ElementsOf
<1>5. \A c : c \in Range(s) <=> \E i \in 1..Len(s) : s[i] = c
  BY <1>1, RangeIs
<1>6. \A c : c \in Range(t) <=> \E i \in 1..Len(t) : t[i] = c
  BY <1>2, RangeIs
<1>7. Range(t) = Range(s) \ gone
  <2>1. \A c : c \in Range(t) <=> c \in Range(s) /\ c \in S
    BY <1>4, <1>5, <1>6
  <2>2. Range(s) \subseteq Requests
    BY <1>1, RangeIs
  <2> QED
    BY <2>1, <2>2 DEF S
<1>8. \A k, l \in 1..Len(t) :
        k < l => \E i, j \in 1..Len(s) : i < j /\ t[k] = s[i] /\ t[l] = s[j]
  BY <1>3 DEF OrderOf
<1>9. Thinned(t, s, gone)
  BY <1>2, <1>3, <1>4, <1>7, <1>8 DEF Thinned, List
<1> QED
  BY <1>9 DEF Keep, t, S

(* One list behind another.                                                *)
LEMMA Joined ==
  ASSUME NEW s, List(s), NEW t, List(t), Apart(s, t)
  PROVE  /\ List(s \o t) /\ Range(s \o t) = Range(s) \cup Range(t)
         /\ Len(s \o t) = Len(s) + Len(t)
<1> DEFINE u == s \o t
<1>1. /\ s \in Seq(Requests) /\ t \in Seq(Requests) /\ u \in Seq(Requests)
      /\ Len(u) = Len(s) + Len(t) /\ Len(s) \in Nat /\ Len(t) \in Nat
      /\ \A i \in 1..Len(s) : u[i] = s[i]
      /\ \A i \in 1..Len(t) : u[Len(s) + i] = t[i]
  BY DEF List
<1> HIDE DEF u
<1>2. \A i \in 1..Len(u) : i \in 1..Len(s) \/ (i - Len(s) \in 1..Len(t) /\ u[i] = t[i - Len(s)])
  <2> SUFFICES ASSUME NEW i \in 1..Len(u), i \notin 1..Len(s)
               PROVE  i - Len(s) \in 1..Len(t) /\ u[i] = t[i - Len(s)]
    OBVIOUS
  <2>1. i - Len(s) \in 1..Len(t) /\ Len(s) + (i - Len(s)) = i
    BY <1>1
  <2> QED
    BY <1>1, <2>1
<1>3. Range(u) = Range(s) \cup Range(t)
  <2>1. \A i \in 1..Len(s) : i \in 1..Len(u)
    BY <1>1
  <2>2. \A i \in 1..Len(t) : Len(s) + i \in 1..Len(u)
    BY <1>1
  <2>3. /\ \A c : c \in Range(s) <=> \E i \in 1..Len(s) : s[i] = c
        /\ \A c : c \in Range(t) <=> \E i \in 1..Len(t) : t[i] = c
        /\ \A c : c \in Range(u) <=> \E i \in 1..Len(u) : u[i] = c
    BY <1>1, RangeIs
  <2>4. \A c \in Range(u) : c \in Range(s) \/ c \in Range(t)
    BY <1>1, <1>2, <2>3
  <2>5. \A c \in Range(s) : c \in Range(u)
    BY <1>1, <2>1, <2>3
  <2>6. \A c \in Range(t) : c \in Range(u)
    <3> SUFFICES ASSUME NEW i \in 1..Len(t) PROVE t[i] \in Range(u)
      BY <2>3
    <3> QED
      BY <1>1, <2>2, <2>3
  <2> QED
    BY <2>4, <2>5, <2>6
<1>4. \A i \in 1..Len(s), j \in 1..Len(t) : s[i] # t[j]
  <2>1. \A i \in 1..Len(s), j \in 1..Len(t) : s[i] \in Range(s) /\ t[j] \in Range(t)
    BY <1>1, RangeIs
  <2> QED
    BY <2>1 DEF Apart
<1>5. Distinct(u)
  <2> SUFFICES ASSUME NEW i \in 1..Len(u), NEW j \in 1..Len(u), u[i] = u[j] PROVE i = j
    BY DEF Distinct
  <2>1. CASE i \in 1..Len(s) /\ j \in 1..Len(s)
    BY <1>1, <2>1 DEF List, Distinct
  <2>2. CASE i \in 1..Len(s) /\ j \notin 1..Len(s)
    BY <1>1, <1>2, <1>4, <2>2
  <2>3. CASE i \notin 1..Len(s) /\ j \in 1..Len(s)
    BY <1>1, <1>2, <1>4, <2>3
  <2>4. CASE i \notin 1..Len(s) /\ j \notin 1..Len(s)
    <3>1. i - Len(s) \in 1..Len(t) /\ j - Len(s) \in 1..Len(t)
          /\ t[i - Len(s)] = t[j - Len(s)]
      BY <1>2, <2>4
    <3>2. i - Len(s) = j - Len(s)
      BY <3>1 DEF List, Distinct
    <3> QED
      BY <1>1, <3>2
  <2> QED
    BY <2>1, <2>2, <2>3, <2>4
<1> QED
  BY <1>1, <1>3, <1>5 DEF u, List

(* A list cut in two: the front, and the rest.                             *)
CutAt(a, b, q, r) ==
  /\ List(a) /\ List(b) /\ Apart(a, b) /\ Range(q) = Range(a) \cup Range(b)
  /\ Len(a) = r /\ Len(b) = Len(q) - r
  /\ \A i \in 1..r : a[i] = q[i]
  /\ \A i \in 1..(Len(q) - r) : b[i] = q[r + i]

(* Admission cuts the queue in two lists that share nothing. *)
LEMMA Cut ==
  ASSUME NEW q, List(q), NEW r \in 0..Len(q)
  PROVE  CutAt(SubSeq(q, 1, r), SubSeq(q, r + 1, Len(q)), q, r)
<1> DEFINE a == SubSeq(q, 1, r)
           b == SubSeq(q, r + 1, Len(q))
<1>1. /\ q \in Seq(Requests) /\ a \in Seq(Requests) /\ b \in Seq(Requests)
      /\ Len(q) \in Nat /\ Len(a) = r /\ Len(b) = Len(q) - r
      /\ \A i \in 1..r : a[i] = q[i]
      /\ \A i \in 1..(Len(q) - r) : b[i] = q[r + i]
  BY DEF List
<1> HIDE DEF a, b
<1>2. \A i \in 1..Len(q) : i \in 1..r \/ (i - r \in 1..Len(b) /\ b[i - r] = q[i])
  <2> SUFFICES ASSUME NEW i \in 1..Len(q), i \notin 1..r
               PROVE  i - r \in 1..Len(b) /\ b[i - r] = q[i]
    OBVIOUS
  <2>1. i - r \in 1..Len(b) /\ r + (i - r) = i
    BY <1>1
  <2> QED
    BY <1>1, <2>1
<1>3. \A i \in 1..r : i \in 1..Len(q)
  BY <1>1
<1>4. \A i \in 1..Len(b) : r + i \in 1..Len(q) /\ r + i \notin 1..r
  BY <1>1
<1>5. Distinct(a)
  BY <1>1, <1>3 DEF List, Distinct
<1>6. Distinct(b)
  <2> SUFFICES ASSUME NEW i \in 1..Len(b), NEW j \in 1..Len(b), b[i] = b[j] PROVE i = j
    BY DEF Distinct
  <2>1. r + i = r + j
    BY <1>1, <1>4 DEF List, Distinct
  <2> QED
    BY <1>1, <2>1
<1>7. Range(q) = Range(a) \cup Range(b)
  <2>1. /\ \A c : c \in Range(a) <=> \E i \in 1..r : a[i] = c
        /\ \A c : c \in Range(b) <=> \E i \in 1..Len(b) : b[i] = c
        /\ \A c : c \in Range(q) <=> \E i \in 1..Len(q) : q[i] = c
    BY <1>1, RangeIs
  <2>2. \A c \in Range(q) : c \in Range(a) \/ c \in Range(b)
    <3> SUFFICES ASSUME NEW i \in 1..Len(q) PROVE q[i] \in Range(a) \/ q[i] \in Range(b)
      BY <2>1
    <3>1. CASE i \in 1..r
      BY <1>1, <2>1, <3>1
    <3>2. CASE i \notin 1..r
      BY <1>2, <2>1, <3>2
    <3> QED
      BY <3>1, <3>2
  <2>3. \A c \in Range(a) : c \in Range(q)
    <3> SUFFICES ASSUME NEW i \in 1..r PROVE a[i] \in Range(q)
      BY <2>1
    <3> QED
      BY <1>1, <1>3, <2>1
  <2>4. \A c \in Range(b) : c \in Range(q)
    <3> SUFFICES ASSUME NEW i \in 1..Len(b) PROVE b[i] \in Range(q)
      BY <2>1
    <3> QED
      BY <1>1, <1>4, <2>1
  <2> QED
    BY <2>2, <2>3, <2>4
<1>8. Apart(a, b)
  <2>1. \A i \in 1..r, j \in 1..Len(b) : a[i] # b[j]
    BY <1>1, <1>3, <1>4 DEF List, Distinct
  <2>2. \A c : ~(c \in Range(a) /\ c \in Range(b))
    BY <1>1, <2>1, RangeIs
  <2> QED
    BY <2>2 DEF Apart
<1> QED
  BY <1>1, <1>5, <1>6, <1>7, <1>8 DEF CutAt, List, a, b

(* A new element between the places before p and the rest.                 *)
InsertedAt(t, s, p, e) ==
  /\ List(t) /\ Len(t) = Len(s) + 1 /\ Range(t) = Range(s) \cup {e}
  /\ \A i \in 1..(p - 1) : t[i] = s[i]
  /\ t[p] = e
  /\ \A i \in p..Len(s) : t[i + 1] = s[i]

(* insertEntry: one element more, the others in their order. *)
LEMMA Inserted ==
  ASSUME NEW s, List(s), NEW e \in Requests, e \notin Range(s), NEW p \in 1..(Len(s) + 1)
  PROVE  InsertedAt(InsertAt(s, p, e), s, p, e)
<1> DEFINE a == SubSeq(s, 1, p - 1)
           b == SubSeq(s, p, Len(s))
           one == <<e>>
<1>1. s \in Seq(Requests) /\ Len(s) \in Nat /\ p - 1 \in 0..Len(s) /\ (p - 1) + 1 = p
  BY DEF List
<1>2. CutAt(a, b, s, p - 1)
  BY <1>1, Cut
<1>3. List(one) /\ Range(one) = {e} /\ Len(one) = 1 /\ one[1] = e
  BY DEF List, Distinct, Range
<1> HIDE DEF a, b, one
<1>4. Apart(one, b) /\ Apart(a, b) /\ Apart(a, one) /\ List(a) /\ List(b)
      /\ Range(s) = Range(a) \cup Range(b)
  BY <1>2, <1>3 DEF CutAt, Apart
<1>5. List(a \o one) /\ Range(a \o one) = Range(a) \cup {e} /\ Len(a \o one) = p
  <2>1. List(a \o one) /\ Range(a \o one) = Range(a) \cup Range(one)
        /\ Len(a \o one) = Len(a) + Len(one)
    BY <1>3, <1>4, Joined
  <2>2. Len(a) = p - 1
    BY <1>2 DEF CutAt
  <2> QED
    BY <1>1, <1>3, <2>1, <2>2
<1>6. Apart(a \o one, b)
  BY <1>3, <1>4, <1>5 DEF Apart
<1>7. /\ List((a \o one) \o b) /\ Range((a \o one) \o b) = Range(a \o one) \cup Range(b)
      /\ Len((a \o one) \o b) = Len(a \o one) + Len(b)
  BY <1>4, <1>5, <1>6, Joined
<1> DEFINE t == (a \o one) \o b
<1>8. InsertAt(s, p, e) = t
  BY DEF InsertAt, a, b, one
<1>9. Len(t) = Len(s) + 1
  BY <1>1, <1>2, <1>5, <1>7 DEF CutAt
<1>10. /\ \A i \in 1..(p - 1) : t[i] = s[i]
       /\ t[p] = e
       /\ \A i \in p..Len(s) : t[i + 1] = s[i]
  <2>1. /\ a \in Seq(Requests) /\ b \in Seq(Requests) /\ one \in Seq(Requests)
        /\ Len(a) = p - 1 /\ Len(b) = Len(s) - (p - 1)
        /\ \A i \in 1..(p - 1) : a[i] = s[i]
        /\ \A i \in 1..(Len(s) - (p - 1)) : b[i] = s[(p - 1) + i]
    BY <1>2, <1>3 DEF CutAt, List
  <2>2. \A i \in 1..(p - 1) : (a \o one)[i] = a[i] /\ t[i] = (a \o one)[i]
    BY <1>1, <1>3, <2>1
  <2>3. (a \o one)[p] = e /\ t[p] = (a \o one)[p]
    <3>1. (a \o one)[p] = one[1]
      <4>1. p = Len(a) + 1 /\ Len(a) \in Nat /\ Len(one) = 1
        BY <1>1, <1>3, <2>1
      <4> DEFINE u == a \o one
      <4>2. \A j \in 1..Len(one) : u[Len(a) + j] = one[j]
        BY <2>1
      <4> HIDE DEF u
      <4>3. 1 \in 1..Len(one)
        BY <4>1
      <4>4. u[p] = one[1]
        BY <4>1, <4>2, <4>3
      <4> QED
        BY <4>4 DEF u
    <3>2. a \o one \in Seq(Requests) /\ p \in 1..Len(a \o one)
      BY <1>1, <1>5 DEF List
    <3>3. t[p] = (a \o one)[p]
      BY <2>1, <3>2
    <3> QED
      BY <1>3, <3>1, <3>3
  <2>4. ASSUME NEW i \in p..Len(s) PROVE t[i + 1] = s[i]
    <3>1. i + 1 - p \in 1..(Len(s) - (p - 1)) /\ (p - 1) + (i + 1 - p) = i
      BY <1>1
    <3>2. t[i + 1] = b[i + 1 - p]
      <4>1. a \o one \in Seq(Requests) /\ Len(a \o one) = p
        BY <1>5 DEF List
      <4> QED
        BY <1>1, <2>1, <3>1, <4>1
    <3> QED
      BY <2>1, <3>1, <3>2
  <2> QED
    BY <2>1, <2>2, <2>3, <2>4
<1> HIDE DEF t
<1>11. List(t) /\ Range(t) = Range(s) \cup {e}
  BY <1>4, <1>5, <1>7 DEF t
<1> QED
  BY <1>8, <1>9, <1>10, <1>11 DEF InsertedAt

(* A list without its head.                                                *)
LEMMA TailIs ==
  ASSUME NEW s, List(s), s # <<>>
  PROVE  /\ List(Tail(s)) /\ Head(s) \in Requests
         /\ Head(s) \notin Range(Tail(s)) /\ Range(s) = Range(Tail(s)) \cup {Head(s)}
<1> DEFINE t == Tail(s)
<1>1. /\ s \in Seq(Requests) /\ t \in Seq(Requests) /\ Len(s) \in Nat /\ Len(s) > 0
      /\ Len(t) = Len(s) - 1 /\ Head(s) = s[1] /\ Head(s) \in Requests
      /\ \A i \in 1..Len(t) : t[i] = s[i + 1]
  BY DEF List
<1> HIDE DEF t
<1>2. \A i \in 1..Len(t) : i + 1 \in 1..Len(s) /\ i + 1 # 1
  BY <1>1
<1>3. 1 \in 1..Len(s)
  BY <1>1
<1>4. Distinct(t)
  <2> SUFFICES ASSUME NEW i \in 1..Len(t), NEW j \in 1..Len(t), t[i] = t[j] PROVE i = j
    BY DEF Distinct
  <2>1. i + 1 = j + 1
    BY <1>1, <1>2 DEF List, Distinct
  <2> QED
    BY <1>1, <2>1
<1>5. \A i \in 1..Len(t) : t[i] # s[1]
  BY <1>1, <1>2, <1>3 DEF List, Distinct
<1>6. \A i \in 1..Len(s) : i = 1 \/ (i - 1 \in 1..Len(t) /\ t[i - 1] = s[i])
  <2> SUFFICES ASSUME NEW i \in 1..Len(s), i # 1
               PROVE  i - 1 \in 1..Len(t) /\ t[i - 1] = s[i]
    OBVIOUS
  <2>1. i - 1 \in 1..Len(t) /\ (i - 1) + 1 = i
    BY <1>1
  <2> QED
    BY <1>1, <2>1
<1>7. Head(s) \notin Range(t)
  BY <1>1, <1>5, RangeIs
<1>8. Range(s) = Range(t) \cup {Head(s)}
  <2>1. /\ \A c : c \in Range(t) <=> \E i \in 1..Len(t) : t[i] = c
        /\ \A c : c \in Range(s) <=> \E i \in 1..Len(s) : s[i] = c
    BY <1>1, RangeIs
  <2>2. \A c \in Range(s) : c \in Range(t) \/ c = Head(s)
    <3> SUFFICES ASSUME NEW i \in 1..Len(s) PROVE s[i] \in Range(t) \/ s[i] = Head(s)
      BY <2>1
    <3> QED
      BY <1>1, <1>6, <2>1
  <2>3. \A c \in Range(t) : c \in Range(s)
    <3> SUFFICES ASSUME NEW i \in 1..Len(t) PROVE t[i] \in Range(s)
      BY <2>1
    <3> QED
      BY <1>1, <1>2, <2>1
  <2>4. Head(s) \in Range(s)
    BY <1>1, <1>3, <2>1
  <2> QED
    BY <2>2, <2>3, <2>4
<1> QED
  BY <1>1, <1>4, <1>7, <1>8 DEF t, List

(* A request stands at most once in a list.                                *)
LEMMA Once ==
  ASSUME NEW s, List(s), NEW i
  PROVE  Cardinality({k \in DOMAIN s : s[k] = i}) = IF i \in Range(s) THEN 1 ELSE 0
<1> DEFINE K == {k \in DOMAIN s : s[k] = i}
<1>1. s \in Seq(Requests) /\ DOMAIN s = 1..Len(s) /\ Distinct(s)
  BY DEF List
<1>2. CASE i \in Range(s)
  <2>1. PICK k \in 1..Len(s) : s[k] = i
    BY <1>1, <1>2, RangeIs
  <2>2. K = {k}
    BY <1>1, <2>1 DEF Distinct
  <2> QED
    BY <1>2, <2>2, FS_Singleton
<1>3. CASE i \notin Range(s)
  <2>1. K = {}
    BY <1>1, <1>3, RangeIs
  <2> QED
    BY <1>3, <2>1, FS_EmptySet
<1> QED
  BY <1>2, <1>3

-----------------------------------------------------------------------------
(* Arithmetic.                                                             *)
LEMMA ModIs ==
  ASSUME NEW a \in Nat, NEW n \in Nat, n > 0
  PROVE  a % n \in 0..(n - 1)
  OBVIOUS

(* What the smaller of two numbers is. *)
LEMMA LeastIs ==
  ASSUME NEW a \in Int, NEW b \in Int
  PROVE  /\ Least(a, b) \in Int /\ Least(a, b) <= a /\ Least(a, b) <= b
         /\ Least(a, b) = a \/ Least(a, b) = b
  BY DEF Least

-----------------------------------------------------------------------------
(* The inductive invariant.                                                *)

(* A request waits, runs or is released by Close, in one place each.       *)
Placed == List(waiting) /\ List(running) /\ List(closing) /\ Apart(waiting, running)

(* Only a closed scheduler releases outside the mutex, and it is empty.    *)
Shut ==
  /\ closing # <<>> => closed
  /\ closed => step = Idle /\ waiting = <<>> /\ running = <<>>

(* Entries are noted as dead only within a Step, and never while waiting.  *)
Noted ==
  /\ step = Idle => dead = {}
  /\ dead \cap Range(waiting) = {}

(* The queue is sorted by arrival.                                         *)
InOrder ==
  \A i, j \in 1..Len(waiting) : i < j => Arrival[waiting[i]] <= Arrival[waiting[j]]

(* A visit is always to an entry that runs.                                *)
VisitWithin ==
  InRound => /\ step.idx < Len(running) /\ step.visited < Len(running)
             /\ step.lastUsed < Len(running)

Live == Held \cup Range(closing)

IInv ==
  /\ TypeOK /\ Placed /\ Shut /\ Noted /\ InOrder /\ VisitWithin
  /\ index = Held /\ ReleasedOnce

Steps == [phase : {"idle", "decode", "prefill", "sweep"}, idx : 0..MaxActive,
          visited : 0..MaxActive, budget : 0..(DecodeBudget + PrefillBudget),
          lastUsed : -1..MaxActive]

(* Where a new entry is put: behind all that do not arrive later.          *)
LEMMA PlaceIs ==
  ASSUME waiting \in Seq(Requests), InOrder, NEW i \in Requests
  PROVE  /\ Place(i) \in 1..(Len(waiting) + 1)
         /\ \A k \in 1..(Place(i) - 1) : Arrival[waiting[k]] <= Arrival[i]
         /\ \A k \in Place(i)..Len(waiting) : Arrival[i] <= Arrival[waiting[k]]
<1> DEFINE n == Len(waiting)
           K == {k \in DOMAIN waiting : Arrival[waiting[k]] <= Arrival[i]}
<1>1. n \in Nat /\ DOMAIN waiting = 1..n
  OBVIOUS
<1>2. Arrival[i] \in Nat /\ \A k \in 1..n : Arrival[waiting[k]] \in Nat
  BY ConfigAssumption
<1>3. \E m \in 0..n : K = 1..m
  <2>1. CASE K = {}
    <3>1. 0 \in 0..n /\ K = 1..0
      BY <1>1, <2>1
    <3> QED
      BY <3>1
  <2>2. CASE K # {}
    <3>1. K \in SUBSET (0..n)
      BY <1>1
    <3> HIDE DEF K
    <3>2. PICK m \in K : \A k \in K : k <= m
      BY <1>1, <2>2, <3>1, GreatestExists
    <3>3. m \in 1..n /\ Arrival[waiting[m]] <= Arrival[i]
      BY <1>1, <3>2 DEF K
    <3>4. \A k \in 1..m : k \in 1..n /\ Arrival[waiting[k]] <= Arrival[waiting[m]]
      BY <1>1, <1>2, <3>3 DEF InOrder
    <3>5. \A k \in 1..m : k \in K
      <4>1. \A k \in 1..m : Arrival[waiting[k]] <= Arrival[i]
        BY <1>2, <3>3, <3>4
      <4> QED
        BY <1>1, <3>4, <4>1 DEF K
    <3>6. K = 1..m
      <4>1. \A k \in K : k \in 1..m
        <5>1. \A k \in K : k \in 1..n
          BY <1>1 DEF K
        <5> QED
          BY <1>1, <3>2, <3>3, <5>1
      <4> QED
        BY <3>2, <3>3, <3>5, <4>1
    <3> QED
      BY <1>1, <3>3, <3>6
  <2> QED
    BY <2>1, <2>2
<1>4. PICK m \in 0..n : K = 1..m
  BY <1>3
<1>5. Place(i) = m + 1
  <2>1. m \in Nat /\ 1 \in Int /\ m \in Int
    BY <1>1, <1>4
  <2>2. Cardinality(1..m) = IF 1 > m THEN 0 ELSE m - 1 + 1
    BY <2>1, FS_Interval
  <2>3. Cardinality(1..m) = m
    BY <2>1, <2>2
  <2> QED
    BY <1>4, <2>3 DEF Place
<1> HIDE DEF K
<1>6. \A k \in 1..n : k \in K <=> Arrival[waiting[k]] <= Arrival[i]
  BY <1>1 DEF K
<1> HIDE DEF n
<1>7. \A k \in 1..m : Arrival[waiting[k]] <= Arrival[i]
  BY <1>1, <1>4, <1>6
<1>8. \A k \in (m + 1)..n : Arrival[i] <= Arrival[waiting[k]]
  BY <1>1, <1>2, <1>4, <1>6
<1> QED
  BY <1>1, <1>4, <1>5, <1>7, <1>8 DEF n

(* Releasing what lives closes each work once, and frees its identity.     *)
LEMMA ReleaseOnce ==
  ASSUME closes \in [Requests -> 0..2], ReleasedOnce, NEW gone, gone \subseteq Live,
         Release(gone), Live' = Live \ gone
  PROVE  closes' \in [Requests -> 0..2] /\ ReleasedOnce' /\ index' = index \ gone
<1>1. \A i \in Requests : closes[i] = IF i \in Live THEN 0 ELSE 1
  BY DEF ReleasedOnce, Live
<1>2. closes' = [i \in Requests |-> Least(2, closes[i] + (IF i \in gone THEN 1 ELSE 0))]
  BY DEF Release
<1>3. ASSUME NEW i \in Requests
      PROVE  closes'[i] \in 0..2 /\ closes'[i] = IF i \in Live \ gone THEN 0 ELSE 1
  <2>1. closes'[i] = Least(2, closes[i] + (IF i \in gone THEN 1 ELSE 0))
    BY <1>2
  <2>2. CASE i \in gone
    <3>1. closes[i] = 0 /\ closes'[i] = Least(2, closes[i] + 1)
      BY <1>1, <2>1, <2>2
    <3> QED
      BY <2>2, <3>1 DEF Least
  <2>3. CASE i \notin gone
    <3>1. closes'[i] = Least(2, closes[i] + 0)
      BY <2>1, <2>3
    <3> QED
      BY <1>1, <2>3, <3>1 DEF Least
  <2> QED
    BY <2>2, <2>3
<1>4. closes' \in [Requests -> 0..2]
  BY <1>2, <1>3
<1>5. ReleasedOnce'
  <2>1. \A i \in Requests : closes'[i] = IF i \in Live' THEN 0 ELSE 1
    BY <1>3
  <2> QED
    BY <2>1 DEF ReleasedOnce, Live
<1> QED
  BY <1>4, <1>5 DEF Release

(* A round that begins with n running entries.                             *)
LEMMA RoundIs ==
  ASSUME NEW n \in 0..MaxActive, decodeCursor' \in Nat, prefillCursor' \in Nat,
         \/ step' = PrefillRound(n)
         \/ step' = FirstRound(n)
         \/ step' = Sweep
  PROVE  /\ step' \in Steps /\ step' # Idle /\ step'.phase # "idle"
         /\ InRound' => step'.idx < n /\ step'.visited < n /\ step'.lastUsed < n
<1>1. MaxActive \in Nat /\ DecodeBudget \in Nat /\ PrefillBudget \in Nat /\ n \in Nat
  BY ConfigAssumption
<1>3. CASE step' = Sweep
  BY <1>1, <1>3 DEF Sweep, Idle, Steps, InRound
<1>4. ASSUME NEW phase \in {"decode", "prefill"}, NEW cursor \in Nat,
             NEW budget \in {DecodeBudget, PrefillBudget},
             n > 0, step' = Round(phase, cursor, n, budget)
      PROVE  /\ step' \in Steps /\ step' # Idle /\ step'.phase # "idle"
             /\ InRound' => step'.idx < n /\ step'.visited < n /\ step'.lastUsed < n
  <2> DEFINE x == cursor % n
  <2>1. x \in 0..(n - 1)
    BY <1>1, <1>4, ModIs
  <2>2. step' = [phase |-> phase, idx |-> x, visited |-> 0, budget |-> budget, lastUsed |-> -1]
    BY <1>4 DEF Round
  <2> HIDE DEF x
  <2>3. /\ x \in 0..MaxActive /\ 0 \in 0..MaxActive /\ -1 \in -1..MaxActive
        /\ budget \in 0..(DecodeBudget + PrefillBudget)
    BY <1>1, <2>1
  <2>4. step' \in Steps
    BY <2>2, <2>3 DEF Steps
  <2>5. step'.idx = x /\ step'.visited = 0 /\ step'.lastUsed = -1 /\ step'.phase = phase
    BY <2>2
  <2>6. step'.idx < n /\ step'.visited < n /\ step'.lastUsed < n
    BY <1>1, <1>4, <2>1, <2>5
  <2>7. step'.phase # "idle" /\ step' # Idle
    BY <2>5 DEF Idle
  <2> QED
    BY <2>4, <2>6, <2>7
<1> QED
  <2>1. CASE n > 0 /\ step' = Round("prefill", prefillCursor', n, PrefillBudget)
    BY <1>4, <2>1
  <2>2. CASE n > 0 /\ step' = Round("decode", decodeCursor', n, DecodeBudget)
    BY <1>4, <2>2
  <2> QED
    BY <1>3, <2>1, <2>2 DEF FirstRound, PrefillRound

(* The end of a visit leads to the next entry, round or sweep.             *)
LEMMA VisitIs ==
  ASSUME TypeOK, VisitWithin, InRound, running' = running,
         NEW used \in 0..step.budget, NextVisit(used)
  PROVE  /\ decodeCursor' \in 0..MaxActive /\ prefillCursor' \in 0..MaxActive
         /\ step' \in Steps /\ step' # Idle /\ VisitWithin'
<1> DEFINE n == Len(running)
           left == step.budget - used
           last == IF used > 0 THEN step.idx ELSE step.lastUsed
           start == (IF step.phase = "decode" THEN decodeCursor ELSE prefillCursor) % n
           behind == Behind(last, start, n)
           over == left = 0 \/ step.visited + 1 = n
<1>1. /\ n \in 0..MaxActive /\ n \in Nat /\ MaxActive \in Nat
      /\ DecodeBudget \in Nat /\ PrefillBudget \in Nat
      /\ decodeCursor \in 0..MaxActive /\ prefillCursor \in 0..MaxActive
  BY ConfigAssumption DEF TypeOK
<1>2. /\ step \in Steps /\ step.idx \in 0..(n - 1) /\ step.visited \in 0..(n - 1)
      /\ step.lastUsed \in -1..(n - 1) /\ step.budget \in 0..(DecodeBudget + PrefillBudget)
      /\ n > 0
  <2>1. step \in Steps
    BY DEF TypeOK, Steps
  <2>2. /\ step.idx \in 0..MaxActive /\ step.visited \in 0..MaxActive
        /\ step.lastUsed \in -1..MaxActive /\ step.budget \in 0..(DecodeBudget + PrefillBudget)
    BY <2>1 DEF Steps
  <2>3. step.idx < n /\ step.visited < n /\ step.lastUsed < n
    BY DEF VisitWithin
  <2> HIDE DEF n
  <2> QED
    BY <1>1, <2>1, <2>2, <2>3
<1>3. left \in 0..(DecodeBudget + PrefillBudget) /\ last \in -1..(n - 1)
  BY <1>1, <1>2
<1>4. start \in 0..(n - 1)
  BY <1>1, <1>2, ModIs
<1> HIDE DEF n, left, last, start
<1>5. behind \in 0..(n - 1)
  <2> DEFINE x == (IF last >= 0 THEN last ELSE start) + 1
  <2>1. x \in Nat
    BY <1>1, <1>2, <1>3, <1>4
  <2> HIDE DEF x
  <2>2. x % n \in 0..(n - 1)
    BY <1>1, <1>2, <2>1, ModIs
  <2> QED
    BY <2>2 DEF Behind, x
<1>6. (step.idx + 1) % n \in 0..(n - 1)
  <2> DEFINE x == step.idx + 1
  <2>1. x \in Nat
    BY <1>1, <1>2
  <2> HIDE DEF x
  <2>2. x % n \in 0..(n - 1)
    BY <1>1, <1>2, <2>1, ModIs
  <2> QED
    BY <2>2 DEF x
<1> HIDE DEF behind, over
<1>7. /\ decodeCursor' = IF over /\ step.phase = "decode" THEN behind ELSE decodeCursor
      /\ prefillCursor' = IF over /\ step.phase = "prefill" THEN behind ELSE prefillCursor
      /\ step' = IF ~over
                 THEN [step EXCEPT !.idx = (@ + 1) % n, !.visited = @ + 1, !.budget = left,
                                   !.lastUsed = last]
                 ELSE IF step.phase = "decode" THEN PrefillRound(n) ELSE Sweep
  BY DEF NextVisit, n, left, last, start, behind, over
<1>8. decodeCursor' \in 0..MaxActive /\ prefillCursor' \in 0..MaxActive
  BY <1>1, <1>5, <1>7
<1>9. CASE over
  <2>1. step' = PrefillRound(n) \/ step' = Sweep
    BY <1>7, <1>9
  <2>2. decodeCursor' \in Nat /\ prefillCursor' \in Nat
    BY <1>1, <1>8
  <2>3. /\ step' \in Steps /\ step' # Idle
        /\ InRound' => step'.idx < n /\ step'.visited < n /\ step'.lastUsed < n
    BY <1>1, <2>1, <2>2, RoundIs
  <2> QED
    BY <1>8, <2>3 DEF VisitWithin, n
<1>10. CASE ~over
  <2>1. step.visited + 1 # n
    BY <1>10 DEF over
  <2>2. step.phase \in {"decode", "prefill"}
    BY DEF InRound
  <2>3. step' = [phase |-> step.phase, idx |-> (step.idx + 1) % n, visited |-> step.visited + 1,
                 budget |-> left, lastUsed |-> last]
    BY <1>2, <1>7, <1>10 DEF Steps
  <2>4. step' \in Steps /\ step' # Idle
    BY <1>1, <1>2, <1>3, <1>6, <2>1, <2>2, <2>3 DEF Steps, Idle
  <2>5. step'.idx < n /\ step'.visited < n /\ step'.lastUsed < n
    BY <1>1, <1>2, <1>3, <1>6, <2>1, <2>3
  <2> QED
    BY <1>8, <2>4, <2>5 DEF VisitWithin, n
<1> QED
  BY <1>9, <1>10

-----------------------------------------------------------------------------
(* The actions.                                                            *)

Works == [Requests -> [prefill : 0..MaxPrompt, decode : 0..MaxTokens]]

ServedOK == served = Nobody \/ served \in [phase : {"decode", "prefill"}, who : Requests]

(* Nothing is done yet, and nobody is there.                               *)
LEMMA InitHolds == Init => IInv
<1> SUFFICES ASSUME Init PROVE IInv
  OBVIOUS
<1>1. /\ waiting = <<>> /\ running = <<>> /\ closing = <<>> /\ index = {} /\ dead = {}
      /\ step = Idle
  BY DEF Init
<1>2. List(<<>>) /\ Range(<<>>) = {} /\ Len(<<>>) = 0
  BY DEF List, Distinct, Range
<1>3. TypeOK
  <2>1. step \in Steps
    BY <1>1, ConfigAssumption DEF Idle, Steps
  <2>2. work \in Works /\ closes \in [Requests -> 0..2]
    BY BoundsAssumption DEF Init, Works
  <2>3. /\ <<>> \in Seq(Requests) /\ 0 \in 0..MaxActive /\ Len(running) <= MaxActive
        /\ FALSE \in BOOLEAN
    BY <1>1, <1>2, ConfigAssumption
  <2>4. /\ decodeCursor = 0 /\ prefillCursor = 0 /\ closed = FALSE /\ expired = {}
        /\ served = Nobody
    BY DEF Init
  <2> QED
    BY <1>1, <2>1, <2>2, <2>3, <2>4 DEF TypeOK, Steps, Works
<1>4. Placed /\ Shut /\ Noted /\ InOrder
  BY <1>1, <1>2 DEF Init, Placed, Apart, Shut, Noted, InOrder
<1>5. VisitWithin
  BY <1>1 DEF VisitWithin, InRound, Idle
<1>6. index = Held /\ ReleasedOnce
  <2>1. Held = {} /\ Range(closing) = {}
    BY <1>1, <1>2 DEF Held
  <2> QED
    BY <1>1, <2>1 DEF Init, ReleasedOnce
<1> QED
  BY <1>3, <1>4, <1>5, <1>6 DEF IInv

(* Inside a Step the scheduler is open.                                    *)
LEMMA OpenInStep ==
  ASSUME IInv, step # Idle \/ ~closed
  PROVE  closed = FALSE /\ closing = <<>> /\ Range(closing) = {}
<1>1. closed = FALSE
  BY DEF IInv, Shut, TypeOK
<1>2. closing = <<>>
  BY <1>1 DEF IInv, Shut
<1> QED
  BY <1>1, <1>2 DEF Range

(* A visit that releases some entries that are alive, or none.             *)
LEMMA VisitKeeps ==
  ASSUME IInv, InRound, UNCHANGED <<waiting, running, closed, closing, expired>>,
         NEW used \in 0..step.budget, NextVisit(used),
         NEW gone, gone \subseteq Range(running) \ dead, dead' = dead \cup gone,
         Release(gone), work' \in Works, ServedOK'
  PROVE  IInv'
<1>1. step # Idle /\ closing = <<>> /\ Range(closing) = {}
  <2>1. step # Idle
    BY DEF InRound, Idle
  <2> QED
    BY <2>1, OpenInStep
<1>2. TypeOK /\ VisitWithin /\ List(running) /\ Apart(waiting, running)
  BY DEF IInv, Placed
<1>3. /\ decodeCursor' \in 0..MaxActive /\ prefillCursor' \in 0..MaxActive
      /\ step' \in Steps /\ step' # Idle /\ VisitWithin'
  BY <1>2, VisitIs
<1>4. Held' = Held \ gone
  BY <1>2 DEF Held, Apart
<1>5. gone \subseteq Live /\ Live' = Live \ gone
  BY <1>1, <1>4 DEF Live, Held
<1>6. closes' \in [Requests -> 0..2] /\ ReleasedOnce' /\ index' = index \ gone
  <2>1. closes \in [Requests -> 0..2] /\ ReleasedOnce
    BY DEF IInv, TypeOK
  <2> QED
    BY <1>5, <2>1, ReleaseOnce
<1>7. TypeOK'
  <2>1. Range(running) \subseteq Requests
    BY <1>2, RangeIs DEF List
  <2>2. index' \subseteq Requests /\ dead' \subseteq Requests
    BY <1>2, <1>6, <2>1 DEF TypeOK
  <2> QED
    BY <1>2, <1>3, <1>6, <2>2 DEF TypeOK, Steps, Works, ServedOK
<1>8. Placed' /\ InOrder'
  BY DEF IInv, Placed, InOrder, List, Apart
<1>9. Shut'
  BY <1>1, OpenInStep DEF Shut
<1>10. Noted'
  BY <1>2, <1>3 DEF IInv, Noted, Apart
<1>11. index' = Held'
  BY <1>4, <1>6 DEF IInv
<1> QED
  BY <1>3, <1>6, <1>7, <1>8, <1>9, <1>10, <1>11 DEF IInv

(* The entry a visit is to runs.                                           *)
LEMMA VisitedRuns ==
  ASSUME IInv, InRound
  PROVE  /\ Visited \in Range(running) /\ Visited \in Requests
         /\ step.budget \in Nat /\ 0 \in 0..step.budget
         /\ work \in Works /\ ServedOK
<1>1. /\ running \in Seq(Requests) /\ step.idx \in Nat /\ step.budget \in Nat
      /\ step.idx < Len(running) /\ work \in Works /\ ServedOK
  BY ConfigAssumption DEF IInv, TypeOK, VisitWithin, Works, ServedOK
<1>2. step.idx + 1 \in 1..Len(running)
  BY <1>1
<1>3. Visited \in Range(running) /\ Visited \in Requests
  BY <1>1, <1>2, RangeIs DEF Visited
<1> QED
  BY <1>1, <1>3

(* A visit that calls nothing releases nobody. *)
LEMMA PassByKeeps ==
  ASSUME IInv, PassBy PROVE IInv'
<1>1. InRound /\ NextVisit(0) /\ UNCHANGED <<waiting, running, closed, closing, expired>>
  BY DEF PassBy
<1>2. 0 \in 0..step.budget /\ work' \in Works /\ ServedOK'
  BY <1>1, VisitedRuns DEF PassBy, ServedOK
<1>3. Release({})
  <2>1. closes \in [Requests -> 0..2] /\ closes' = closes /\ index' = index
    BY DEF IInv, TypeOK, PassBy
  <2>2. \A i \in Requests : closes[i] = Least(2, closes[i] + (IF i \in {} THEN 1 ELSE 0))
    BY <2>1 DEF Least
  <2>3. closes' = [i \in Requests |-> Least(2, closes[i] + (IF i \in {} THEN 1 ELSE 0))]
    BY <2>1, <2>2
  <2> QED
    BY <2>1, <2>3 DEF Release
<1>4. {} \subseteq Range(running) \ dead /\ dead' = dead \cup {}
  BY DEF PassBy
<1> QED
  BY <1>1, <1>2, <1>3, <1>4, VisitKeeps

(* A negative remainder releases the entry visited. *)
LEMMA MiscountKeeps ==
  ASSUME IInv, Miscount PROVE IInv'
<1> DEFINE gone == {Visited}
<1>1. InRound /\ NextVisit(0) /\ UNCHANGED <<waiting, running, closed, closing, expired>>
  BY DEF Miscount
<1>2. 0 \in 0..step.budget /\ work' \in Works /\ ServedOK'
  BY <1>1, VisitedRuns DEF Miscount, ServedOK
<1>3. gone \subseteq Range(running) \ dead /\ dead' = dead \cup gone /\ Release(gone)
  BY <1>1, VisitedRuns DEF Miscount, Alive
<1> HIDE DEF gone
<1> QED
  BY <1>1, <1>2, <1>3, VisitKeeps

(* What a turn moves is neither more than its budget nor more than is left.*)
LEMMA TurnMoves ==
  ASSUME IInv, InRound, NEW i \in Requests,
         NEW a \in Answers(i, TurnLimit(step.phase, i), TokensLeft(step.phase, i)),
         NEW used, used = IF a.count \in 0..TurnLimit(step.phase, i) THEN a.count ELSE 0
  PROVE  used \in 0..step.budget /\ Advanced(step.phase, i, used) \in Works
<1> DEFINE limit == TurnLimit(step.phase, i)
           left == TokensLeft(step.phase, i)
<1>1. /\ work \in Works /\ step.budget \in Nat /\ DecodeBudget \in Nat
      /\ work[i].prefill \in 0..MaxPrompt /\ work[i].decode \in 0..MaxTokens
      /\ MaxPrompt \in Nat /\ MaxTokens \in Nat
      /\ work[i] = [prefill |-> work[i].prefill, decode |-> work[i].decode]
  <2>1. work \in Works /\ step \in Steps
    BY DEF IInv, TypeOK, Works, Steps
  <2>2. step.budget \in 0..(DecodeBudget + PrefillBudget)
    BY <2>1 DEF Steps
  <2>3. work[i] \in [prefill : 0..MaxPrompt, decode : 0..MaxTokens]
    BY <2>1 DEF Works
  <2> QED
    BY <2>1, <2>2, <2>3, ConfigAssumption, BoundsAssumption
<1>2. limit \in Nat /\ limit <= step.budget /\ left \in Nat
  BY <1>1 DEF TurnLimit, TokensLeft, Least
<1>3. /\ step.phase = "prefill" => limit <= work[i].prefill /\ left = work[i].prefill
      /\ step.phase # "prefill" /\ i \notin Long => left = work[i].decode
  BY <1>1 DEF TurnLimit, TokensLeft, Least
<1> HIDE DEF limit, left
<1>4. used \in 0..limit /\ used <= left
  <2>1. \/ a \in [count : 0..Least(limit, left), failed : BOOLEAN]
        \/ a \in [count : {-1, limit + 1}, failed : {FALSE}]
        \/ a = [count |-> Least(limit, left), failed |-> FALSE]
    BY DEF Answers, limit, left
  <2>2. Least(limit, left) \in Nat /\ Least(limit, left) <= limit /\ Least(limit, left) <= left
    BY <1>2 DEF Least
  <2>3. a.count \in 0..Least(limit, left) \/ a.count \in {-1, limit + 1}
    <3> DEFINE m == Least(limit, left)
    <3> HIDE DEF m
    <3>1. ASSUME a \in [count : 0..m, failed : BOOLEAN]
          PROVE  a.count \in 0..m
      BY <3>1
    <3>2. ASSUME a \in [count : {-1, limit + 1}, failed : {FALSE}]
          PROVE  a.count \in {-1, limit + 1}
      BY <3>2
    <3>3. ASSUME a = [count |-> m, failed |-> FALSE], m \in Nat
          PROVE  a.count \in 0..m
      BY <3>3
    <3> QED
      BY <2>1, <2>2, <3>1, <3>2, <3>3 DEF m
  <2>4. used = IF a.count \in 0..limit THEN a.count ELSE 0
    BY DEF limit
  <2> QED
    BY <1>2, <2>2, <2>3, <2>4
<1>5. used \in Nat /\ used <= limit
  BY <1>2, <1>4
<1>6. Advanced(step.phase, i, used) \in Works
  <2>1. CASE step.phase = "prefill"
    <3>1. Advanced(step.phase, i, used) = [work EXCEPT ![i].prefill = @ - used]
      BY <2>1 DEF Advanced
    <3>2. work[i].prefill - used \in 0..MaxPrompt
      BY <1>1, <1>3, <1>4, <1>5, <2>1
    <3> DEFINE x == work[i].prefill - used
    <3>3. [work[i] EXCEPT !.prefill = x] = [prefill |-> x, decode |-> work[i].decode]
      BY <1>1
    <3>4. Advanced(step.phase, i, used) = [work EXCEPT ![i] = [work[i] EXCEPT !.prefill = x]]
      BY <1>1, <3>1 DEF Works
    <3> HIDE DEF x
    <3>5. [prefill |-> x, decode |-> work[i].decode] \in [prefill : 0..MaxPrompt, decode : 0..MaxTokens]
      BY <1>1, <3>2 DEF x
    <3> QED
      BY <1>1, <3>3, <3>4, <3>5 DEF Works
  <2>2. CASE step.phase # "prefill" /\ i \in Long
    BY <1>1, <2>2 DEF Advanced
  <2>3. CASE step.phase # "prefill" /\ i \notin Long
    <3>1. Advanced(step.phase, i, used) = [work EXCEPT ![i].decode = @ - used]
      BY <2>3 DEF Advanced
    <3>2. work[i].decode - used \in 0..MaxTokens
      BY <1>1, <1>3, <1>4, <1>5, <2>3
    <3> DEFINE x == work[i].decode - used
    <3>3. [work[i] EXCEPT !.decode = x] = [prefill |-> work[i].prefill, decode |-> x]
      BY <1>1
    <3>4. Advanced(step.phase, i, used) = [work EXCEPT ![i] = [work[i] EXCEPT !.decode = x]]
      BY <1>1, <3>1 DEF Works
    <3> HIDE DEF x
    <3>5. [prefill |-> work[i].prefill, decode |-> x] \in [prefill : 0..MaxPrompt, decode : 0..MaxTokens]
      BY <1>1, <3>2 DEF x
    <3> QED
      BY <1>1, <3>3, <3>4, <3>5 DEF Works
  <2> QED
    BY <2>1, <2>2, <2>3
<1> QED
  BY <1>1, <1>2, <1>5, <1>6

(* A turn releases the entry visited or nobody. *)
LEMMA TurnKeeps ==
  ASSUME IInv, Turn PROVE IInv'
<1> DEFINE i == Visited
           limit == TurnLimit(step.phase, i)
           used(a) == IF a.count \in 0..limit THEN a.count ELSE 0
           over(a) == \/ ~(a.count \in 0..limit) \/ a.failed \/ i \in expired
                      \/ Spent(work'[i])
<1>1. InRound /\ Alive(i) /\ UNCHANGED <<waiting, running, closed, closing, expired>>
  BY DEF Turn
<1>2. PICK a \in Answers(i, limit, TokensLeft(step.phase, i)) :
        /\ work' = Advanced(step.phase, i, used(a))
        /\ served' = IF used(a) > 0 THEN [phase |-> step.phase, who |-> i] ELSE served
        /\ dead' = IF over(a) THEN dead \cup {i} ELSE dead
        /\ Release(IF over(a) THEN {i} ELSE {})
        /\ NextVisit(used(a))
  BY DEF Turn
<1> DEFINE u == used(a)
           gone == IF over(a) THEN {i} ELSE {}
<1>3. i \in Range(running) /\ i \in Requests /\ ServedOK
  BY <1>1, VisitedRuns
<1>4. u \in 0..step.budget /\ Advanced(step.phase, i, u) \in Works
  <2>1. u = IF a.count \in 0..TurnLimit(step.phase, i) THEN a.count ELSE 0
    OBVIOUS
  <2>2. i \in Requests /\ a \in Answers(i, TurnLimit(step.phase, i), TokensLeft(step.phase, i))
    BY <1>2, <1>3
  <2> HIDE DEF u, i, limit
  <2> QED
    BY <1>1, <2>1, <2>2, TurnMoves
<1>5. work' \in Works
  BY <1>2, <1>4
<1>6. ServedOK'
  <2>1. step.phase \in {"decode", "prefill"}
    BY <1>1 DEF InRound
  <2>2. served' = [phase |-> step.phase, who |-> i] \/ served' = served
    BY <1>2
  <2> HIDE DEF i
  <2> QED
    BY <1>3, <2>1, <2>2 DEF ServedOK
<1>7. gone \subseteq Range(running) \ dead /\ dead' = dead \cup gone
  BY <1>1, <1>2, <1>3 DEF Alive
<1>8. Release(gone) /\ NextVisit(u)
  BY <1>2
<1> HIDE DEF u, gone, i
<1> QED
  BY <1>1, <1>4, <1>5, <1>6, <1>7, <1>8, VisitKeeps

(* A context that is done changes nothing until it is read. *)
LEMMA ExpireKeeps ==
  ASSUME IInv, NEW i \in Requests, Expire(i) PROVE IInv'
<1>1. /\ UNCHANGED <<waiting, running, index, decodeCursor, prefillCursor, closed, closing, step,
                     dead, work, closes, served>>
      /\ expired' \subseteq expired \cup {i}
  BY DEF Expire
<1>2. TypeOK'
  BY <1>1 DEF IInv, TypeOK
<1>3. Placed' /\ Shut' /\ Noted' /\ InOrder' /\ VisitWithin'
  BY <1>1 DEF IInv, Placed, Shut, Noted, InOrder, VisitWithin, InRound, List, Apart
<1>4. index' = Held' /\ ReleasedOnce'
  BY <1>1 DEF IInv, Held, ReleasedOnce
<1> QED
  BY <1>2, <1>3, <1>4 DEF IInv

(* Close releases the next of what it took out. *)
LEMMA CloseNextKeeps ==
  ASSUME IInv, CloseNext PROVE IInv'
<1> DEFINE h == Head(closing)
<1>1. /\ closing # <<>> /\ closing' = Tail(closing)
      /\ closes' = [closes EXCEPT ![h] = Least(2, @ + 1)]
      /\ UNCHANGED <<waiting, running, index, decodeCursor, prefillCursor, closed, step, dead,
                     work, expired, served>>
  BY DEF CloseNext
<1>2. /\ List(closing') /\ h \in Requests /\ h \notin Range(closing')
      /\ Range(closing) = Range(closing') \cup {h}
  <2>1. List(closing)
    BY DEF IInv, Placed
  <2> QED
    BY <1>1, <2>1, TailIs
<1>3. closed /\ step = Idle /\ Held = {} /\ Held' = {}
  <2>1. closed /\ step = Idle /\ waiting = <<>> /\ running = <<>>
    BY <1>1 DEF IInv, Shut
  <2> QED
    BY <1>1, <2>1 DEF Held, Range
<1> HIDE DEF h
<1>4. /\ closes \in [Requests -> 0..2]
      /\ \A i \in Requests : closes[i] = IF i \in Range(closing) THEN 0 ELSE 1
  BY <1>3 DEF IInv, TypeOK, ReleasedOnce
<1>5. closes[h] = 0 /\ Least(2, closes[h] + 1) = 1
  BY <1>2, <1>4 DEF Least
<1>6. closes' = [closes EXCEPT ![h] = 1]
  BY <1>1, <1>2, <1>4, <1>5
<1>7. closes' \in [Requests -> 0..2]
  BY <1>2, <1>4, <1>6
<1>8. ReleasedOnce'
  <2>1. \A i \in Requests : closes'[i] = IF i \in Range(closing') THEN 0 ELSE 1
    BY <1>2, <1>4, <1>6
  <2> QED
    BY <1>3, <2>1 DEF ReleasedOnce
<1>9. TypeOK'
  BY <1>1, <1>2, <1>7 DEF IInv, TypeOK, List
<1>10. Placed' /\ Noted' /\ InOrder' /\ VisitWithin'
  BY <1>1, <1>2 DEF IInv, Placed, Noted, InOrder, VisitWithin, InRound, List, Apart
<1>11. Shut'
  BY <1>1, <1>3 DEF IInv, Shut
<1>12. index' = Held'
  BY <1>1, <1>3 DEF IInv
<1> QED
  BY <1>8, <1>9, <1>10, <1>11, <1>12 DEF IInv

(* Close takes out all that waits or runs. *)
LEMMA CloseKeeps ==
  ASSUME IInv, Close PROVE IInv'
<1>1. /\ step = Idle /\ ~closed /\ closed' = TRUE /\ closing' = waiting \o running
      /\ waiting' = <<>> /\ running' = <<>> /\ index' = {}
      /\ UNCHANGED <<decodeCursor, prefillCursor, step, dead, work, expired, closes, served>>
  BY DEF Close
<1>2. Range(closing) = {} /\ dead = {}
  BY <1>1, OpenInStep DEF IInv, Noted
<1>3. /\ List(closing') /\ Range(closing') = Range(waiting) \cup Range(running)
  <2>1. List(waiting) /\ List(running) /\ Apart(waiting, running)
    BY DEF IInv, Placed
  <2> QED
    BY <1>1, <2>1, Joined
<1>4. List(<<>>) /\ Range(<<>>) = {} /\ Len(<<>>) = 0
  BY DEF List, Distinct, Range
<1>5. Held' = {} /\ Live' = Live
  BY <1>1, <1>2, <1>3, <1>4 DEF Held, Live
<1>6. ReleasedOnce'
  <2>1. \A i \in Requests : closes'[i] = IF i \in Live' THEN 0 ELSE 1
    BY <1>1, <1>5 DEF IInv, ReleasedOnce, Live
  <2> QED
    BY <2>1 DEF ReleasedOnce, Live
<1>7. TypeOK'
  <2>1. <<>> \in Seq(Requests) /\ Len(running') <= MaxActive
    BY <1>1, <1>4, ConfigAssumption
  <2> QED
    BY <1>1, <1>3, <2>1 DEF IInv, TypeOK, List
<1>8. Placed' /\ Shut' /\ Noted' /\ InOrder'
  BY <1>1, <1>2, <1>3, <1>4 DEF Placed, Apart, Shut, Noted, InOrder
<1>9. VisitWithin'
  BY <1>1 DEF VisitWithin, InRound, Idle
<1> QED
  BY <1>1, <1>5, <1>6, <1>7, <1>8, <1>9 DEF IInv

(* A request that is added to a sorted queue keeps it sorted.              *)
LEMMA AddSorts ==
  ASSUME List(waiting), InOrder, NEW i \in Requests, i \notin Range(waiting),
         waiting' = InsertAt(waiting, Place(i), i)
  PROVE  List(waiting') /\ InOrder' /\ Range(waiting') = Range(waiting) \cup {i}
<1> DEFINE p == Place(i)
           n == Len(waiting)
<1>1. waiting \in Seq(Requests) /\ n \in Nat
  BY DEF List
<1>2. /\ p \in 1..(n + 1)
      /\ \A k \in 1..(p - 1) : Arrival[waiting[k]] <= Arrival[i]
      /\ \A k \in p..n : Arrival[i] <= Arrival[waiting[k]]
  BY <1>1, PlaceIs
<1> HIDE DEF p
<1>3. InsertedAt(waiting', waiting, p, i)
  <2>1. InsertedAt(InsertAt(waiting, p, i), waiting, p, i)
    BY <1>2, Inserted
  <2> QED
    BY <2>1 DEF p
<1>4. /\ List(waiting') /\ Len(waiting') = n + 1 /\ Range(waiting') = Range(waiting) \cup {i}
      /\ \A k \in 1..(p - 1) : waiting'[k] = waiting[k]
      /\ waiting'[p] = i
      /\ \A k \in p..n : waiting'[k + 1] = waiting[k]
  BY <1>3 DEF InsertedAt
<1> HIDE DEF n
<1> DEFINE A(k) == Arrival[waiting[k]]
           B(k) == Arrival[waiting'[k]]
<1>5. Arrival[i] \in Nat /\ \A k \in 1..n : A(k) \in Nat
  BY <1>1, ConfigAssumption DEF n
<1>6. \A k \in 1..(n + 1) :
        \/ k < p /\ k \in 1..n /\ B(k) = A(k) /\ A(k) <= Arrival[i]
        \/ k = p /\ B(k) = Arrival[i]
        \/ k > p /\ k - 1 \in p..n /\ k - 1 \in 1..n /\ B(k) = A(k - 1) /\ Arrival[i] <= A(k - 1)
  <2> SUFFICES ASSUME NEW k \in 1..(n + 1)
               PROVE  \/ k < p /\ k \in 1..n /\ B(k) = A(k) /\ A(k) <= Arrival[i]
                      \/ k = p /\ B(k) = Arrival[i]
                      \/ /\ k > p /\ k - 1 \in p..n /\ k - 1 \in 1..n
                         /\ B(k) = A(k - 1) /\ Arrival[i] <= A(k - 1)
    OBVIOUS
  <2>1. CASE k < p
    <3>1. k \in 1..(p - 1) /\ k \in 1..n
      BY <1>1, <1>2, <2>1
    <3> QED
      BY <1>2, <1>4, <2>1, <3>1
  <2>2. CASE k = p
    BY <1>4, <2>2
  <2>3. CASE k > p
    <3>1. k - 1 \in p..n /\ k - 1 \in 1..n /\ (k - 1) + 1 = k
      BY <1>1, <1>2, <2>3
    <3> QED
      BY <1>2, <1>4, <2>3, <3>1
  <2> QED
    BY <1>1, <1>2, <2>1, <2>2, <2>3
<1>7. \A k, l \in 1..n : k < l => A(k) <= A(l)
  BY DEF InOrder, n
<1> HIDE DEF A, B
<1>8. \A k, l \in 1..(n + 1) : k < l => B(k) <= B(l)
  <2> SUFFICES ASSUME NEW k \in 1..(n + 1), NEW l \in 1..(n + 1), k < l PROVE B(k) <= B(l)
    OBVIOUS
  <2>1. CASE k < p /\ l < p
    BY <1>1, <1>2, <1>6, <1>7, <2>1
  <2>2. CASE k < p /\ l = p
    BY <1>1, <1>2, <1>5, <1>6, <2>2
  <2>3. CASE k < p /\ l > p
    <3>1. /\ k \in 1..n /\ B(k) = A(k) /\ A(k) <= Arrival[i]
          /\ l - 1 \in 1..n /\ B(l) = A(l - 1) /\ Arrival[i] <= A(l - 1)
      <4>1. k \in Nat /\ l \in Nat /\ p \in Nat
        BY <1>1, <1>2
      <4>2. k \in 1..n /\ B(k) = A(k) /\ A(k) <= Arrival[i]
        BY <1>6, <2>3, <4>1
      <4>3. l - 1 \in 1..n /\ B(l) = A(l - 1) /\ Arrival[i] <= A(l - 1)
        BY <1>6, <2>3, <4>1
      <4> QED
        BY <4>2, <4>3
    <3> QED
      BY <1>5, <3>1
  <2>4. CASE k = p /\ l > p
    BY <1>1, <1>2, <1>5, <1>6, <2>4
  <2>5. CASE k > p /\ l > p
    <3>1. /\ k - 1 \in 1..n /\ B(k) = A(k - 1) /\ l - 1 \in 1..n /\ B(l) = A(l - 1)
      BY <1>1, <1>2, <1>6, <2>5
    <3>2. k - 1 < l - 1
      BY <1>1
    <3> QED
      BY <1>7, <3>1, <3>2
  <2> QED
    BY <1>1, <1>2, <2>1, <2>2, <2>3, <2>4, <2>5
<1>9. InOrder'
  BY <1>4, <1>8 DEF InOrder, B
<1> QED
  BY <1>4, <1>9

(* Add takes a free identity, with a work that was never closed. *)
LEMMA AddKeeps ==
  ASSUME IInv, NEW i \in Requests, Add(i) PROVE IInv'
<1>1. /\ step = Idle /\ ~closed /\ i \notin index
      /\ waiting' = InsertAt(waiting, Place(i), i)
      /\ index' = index \cup {i}
      /\ closes' = [closes EXCEPT ![i] = 0]
      /\ expired' = expired \ {i}
      /\ UNCHANGED <<running, decodeCursor, prefillCursor, closed, closing, step, dead, served>>
  BY DEF Add
<1>2. work' \in Works
  <2>1. PICK p \in 0..MaxPrompt, d \in (IF i \in Long THEN {MaxTokens} ELSE 0..MaxTokens) :
          work' = [work EXCEPT ![i] = [prefill |-> p, decode |-> d]]
    BY DEF Add
  <2>2. d \in 0..MaxTokens
    BY BoundsAssumption
  <2>3. work \in Works
    BY DEF IInv, TypeOK, Works
  <2> QED
    BY <2>1, <2>2, <2>3 DEF Works
<1>3. /\ dead = {} /\ Range(closing) = {} /\ closing = <<>>
      /\ List(waiting) /\ List(running) /\ Apart(waiting, running) /\ index = Held /\ InOrder
  BY <1>1, OpenInStep DEF IInv, Noted, Placed
<1>4. i \notin Range(waiting) /\ i \notin Range(running)
  BY <1>1, <1>3 DEF Held
<1>5. List(waiting') /\ InOrder' /\ Range(waiting') = Range(waiting) \cup {i}
  BY <1>1, <1>3, <1>4, AddSorts
<1>6. Held' = Held \cup {i} /\ Range(closing') = {}
  BY <1>1, <1>3, <1>5 DEF Held
<1>7. closes' \in [Requests -> 0..2] /\ ReleasedOnce'
  <2>1. /\ closes \in [Requests -> 0..2]
        /\ \A j \in Requests : closes[j] = IF j \in Held THEN 0 ELSE 1
    BY <1>3 DEF IInv, TypeOK, ReleasedOnce
  <2>2. closes' \in [Requests -> 0..2]
    BY <1>1, <2>1
  <2>3. \A j \in Requests : closes'[j] = IF j \in Held' THEN 0 ELSE 1
    BY <1>1, <1>6, <2>1
  <2> QED
    BY <1>6, <2>2, <2>3 DEF ReleasedOnce
<1>8. TypeOK'
  BY <1>1, <1>2, <1>5, <1>7 DEF IInv, TypeOK, List, Works
<1>9. Placed' /\ Shut' /\ Noted'
  BY <1>1, <1>3, <1>4, <1>5 DEF IInv, Placed, Apart, List, Shut, Noted
<1>10. VisitWithin'
  BY <1>1 DEF VisitWithin, InRound, Idle
<1>11. index' = Held'
  BY <1>1, <1>3, <1>6
<1> QED
  BY <1>5, <1>7, <1>8, <1>9, <1>10, <1>11 DEF IInv

(* The compacted queue is still sorted.                                    *)
LEMMA ThinnedSorted ==
  ASSUME InOrder, NEW gone, NEW t, Thinned(t, waiting, gone)
  PROVE  \A k, l \in 1..Len(t) : k < l => Arrival[t[k]] <= Arrival[t[l]]
<1> SUFFICES ASSUME NEW k \in 1..Len(t), NEW l \in 1..Len(t), k < l
             PROVE  Arrival[t[k]] <= Arrival[t[l]]
  OBVIOUS
<1>1. PICK i \in 1..Len(waiting), j \in 1..Len(waiting) :
        i < j /\ t[k] = waiting[i] /\ t[l] = waiting[j]
  BY DEF Thinned
<1> QED
  BY <1>1 DEF InOrder

(* The closing sweep, which no expired request outlives.                   *)
LEMMA EndStepKeeps ==
  ASSUME IInv, EndStep PROVE IInv' /\ index' \cap expired = {}
<1> DEFINE gone == Leaving
<1>1. /\ step.phase = "sweep" /\ waiting' = Keep(waiting, gone)
      /\ running' = Keep(running, dead \cup gone) /\ Release(gone) /\ dead' = {}
      /\ CursorsWithin(Len(running')) /\ step' = Idle
      /\ UNCHANGED <<closed, closing, work, expired, served>>
  BY DEF EndStep
<1>2. /\ closed = FALSE /\ closing = <<>> /\ Range(closing) = {}
      /\ List(waiting) /\ List(running) /\ Apart(waiting, running)
  <2>1. step # Idle
    BY <1>1 DEF Idle
  <2>2. closed = FALSE /\ closing = <<>> /\ Range(closing) = {}
    BY <2>1, OpenInStep
  <2> QED
    BY <2>2 DEF IInv, Placed
<1>3. /\ gone \subseteq Held /\ Range(waiting) \cap expired \subseteq gone
      /\ (Range(running) \ dead) \cap expired \subseteq gone
  BY DEF Leaving, Held, Alive
<1> HIDE DEF gone
<1>4. Thinned(waiting', waiting, gone)
  BY <1>1, <1>2, KeepThins
<1>5. Thinned(running', running, dead \cup gone)
  <2> DEFINE out == dead \cup gone
  <2> HIDE DEF out
  <2>1. Thinned(Keep(running, out), running, out)
    BY <1>2, KeepThins
  <2> QED
    BY <1>1, <2>1 DEF out
<1>6. /\ List(waiting') /\ Range(waiting') = Range(waiting) \ gone
      /\ List(running') /\ Range(running') = Range(running) \ (dead \cup gone)
      /\ Len(running') <= Len(running)
  BY <1>4, <1>5 DEF Thinned
<1>7. Held' = Held \ gone /\ Range(closing') = {}
  BY <1>1, <1>2, <1>6 DEF Held
<1>8. closes' \in [Requests -> 0..2] /\ ReleasedOnce' /\ index' = index \ gone
  <2>1. /\ closes \in [Requests -> 0..2] /\ ReleasedOnce /\ gone \subseteq Live
        /\ Live' = Live \ gone
    BY <1>2, <1>3, <1>7 DEF IInv, TypeOK, Live
  <2> QED
    BY <1>1, <2>1, ReleaseOnce
<1>9. Len(running') \in Nat /\ Len(running') <= MaxActive /\ MaxActive \in Nat
  BY <1>2, <1>6, ConfigAssumption DEF IInv, TypeOK, List
<1>10. decodeCursor' \in 0..MaxActive /\ prefillCursor' \in 0..MaxActive
  <2> DEFINE n == Len(running')
  <2>1. decodeCursor \in Nat /\ prefillCursor \in Nat
    BY <1>9 DEF IInv, TypeOK
  <2>2. /\ decodeCursor' = IF n = 0 THEN 0 ELSE decodeCursor % n
        /\ prefillCursor' = IF n = 0 THEN 0 ELSE prefillCursor % n
    BY <1>1 DEF CursorsWithin
  <2>3. n \in Nat /\ n <= MaxActive /\ MaxActive \in Nat
    BY <1>9
  <2> HIDE DEF n
  <2>4. n # 0 => decodeCursor % n \in 0..(n - 1) /\ prefillCursor % n \in 0..(n - 1)
    BY <2>1, <2>3, ModIs
  <2> QED
    BY <2>2, <2>3, <2>4
<1>11. TypeOK'
  <2>1. step' \in Steps
    BY <1>1, ConfigAssumption DEF Idle, Steps
  <2>2. index' \subseteq Requests /\ dead' \subseteq Requests
    BY <1>1, <1>8 DEF IInv, TypeOK
  <2> QED
    BY <1>1, <1>2, <1>6, <1>8, <1>9, <1>10, <2>1, <2>2 DEF IInv, TypeOK, List, Steps
<1>12. Placed' /\ Shut' /\ Noted'
  BY <1>1, <1>2, <1>6 DEF IInv, Placed, Apart, List, Shut, Noted
<1>13. InOrder'
  <2>1. InOrder
    BY DEF IInv
  <2>2. \A k, l \in 1..Len(waiting') : k < l => Arrival[waiting'[k]] <= Arrival[waiting'[l]]
    BY <1>4, <2>1, ThinnedSorted
  <2> QED
    BY <2>2 DEF InOrder
<1>14. VisitWithin'
  BY <1>1 DEF VisitWithin, InRound, Idle
<1>15. index' = Held' /\ index' \cap expired = {}
  BY <1>3, <1>7, <1>8 DEF IInv, Held
<1> QED
  BY <1>8, <1>11, <1>12, <1>13, <1>14, <1>15 DEF IInv

(* Whoever is admitted arrived no later than whoever goes on waiting.      *)
Admits ==
  \A i \in Range(waiting'), j \in Range(running') \ Range(running) : Arrival[j] <= Arrival[i]

(* The opening sweep and the admission.                                    *)
LEMMA BeginStepKeeps ==
  ASSUME IInv, BeginStep PROVE IInv' /\ Admits /\ index' \cap expired = {}
<1> DEFINE gone == Withdrawn
           queue == Keep(waiting, gone)
           stay == Keep(running, gone)
           room == Room(Len(stay), Len(queue))
           front == SubSeq(queue, 1, room)
           rest == SubSeq(queue, room + 1, Len(queue))
           done == {i \in Range(running') : Finished(i)}
           out == gone \cup done
<1>1. /\ step = Idle /\ ~closed /\ running' = stay \o front /\ waiting' = rest
      /\ dead' = out /\ Release(out) /\ CursorsWithin(Len(stay))
      /\ step' = FirstRound(Len(running'))
      /\ UNCHANGED <<closed, closing, work, expired, served>>
  BY DEF BeginStep
<1>2. /\ closed = FALSE /\ closing = <<>> /\ Range(closing) = {} /\ dead = {}
      /\ List(waiting) /\ List(running) /\ Apart(waiting, running)
      /\ Len(running) <= MaxActive /\ Len(running) \in Nat
  <2>1. closed = FALSE /\ closing = <<>> /\ Range(closing) = {}
    BY <1>1, OpenInStep
  <2>2. dead = {} /\ List(waiting) /\ List(running) /\ Apart(waiting, running)
    BY <1>1 DEF IInv, Placed, Noted
  <2>3. running \in Seq(Requests) /\ Len(running) <= MaxActive
    BY DEF IInv, TypeOK
  <2> QED
    BY <2>1, <2>2, <2>3
<1>3. /\ gone = (Range(waiting) \cup Range(running)) \cap expired
      /\ done \subseteq Range(running')
  BY DEF Withdrawn
<1> HIDE DEF gone, done
<1>4. Thinned(queue, waiting, gone) /\ Thinned(stay, running, gone)
  BY <1>2, KeepThins
<1> HIDE DEF queue, stay
<1>5. /\ List(queue) /\ Range(queue) = Range(waiting) \ gone
      /\ List(stay) /\ Range(stay) = Range(running) \ gone
      /\ Len(stay) <= Len(running) /\ Len(queue) \in Nat /\ Len(stay) \in Nat
  BY <1>4 DEF Thinned, List
<1>6. room \in 0..Len(queue) /\ Len(stay) + room <= MaxActive /\ MaxActive \in Nat
  BY <1>2, <1>5, ConfigAssumption DEF Room, Least
<1> HIDE DEF room
<1>7. CutAt(front, rest, queue, room)
  BY <1>5, <1>6, Cut
<1> HIDE DEF front, rest
<1>8. /\ List(front) /\ List(rest) /\ Apart(front, rest)
      /\ Range(queue) = Range(front) \cup Range(rest) /\ Len(front) = room
  BY <1>7 DEF CutAt
<1>9. Apart(stay, front)
  BY <1>2, <1>5, <1>8 DEF Apart
<1>10. /\ List(running') /\ Range(running') = Range(stay) \cup Range(front)
       /\ Len(running') = Len(stay) + Len(front)
  BY <1>1, <1>5, <1>8, <1>9, Joined
<1>11. Len(running') \in 0..MaxActive
  BY <1>5, <1>6, <1>8, <1>10
<1>12. /\ Range(waiting') = Range(rest) /\ List(waiting')
       /\ Range(rest) \cap Range(running') = {} /\ Range(rest) \cap out = {}
  BY <1>1, <1>2, <1>3, <1>5, <1>8, <1>10 DEF Apart
<1>13. Held' = Held \ out /\ out \subseteq Held /\ Range(closing') = {}
  <2>1. Held = Range(waiting) \cup Range(running)
    BY <1>2 DEF Held
  <2>2. Held' = Range(rest) \cup (Range(running') \ out)
    BY <1>1, <1>12 DEF Held
  <2>3. gone \subseteq Held /\ Held \ gone = Range(queue) \cup Range(stay)
    BY <1>3, <1>5, <2>1
  <2>4. Held \ gone = Range(rest) \cup Range(running')
    BY <1>8, <1>10, <2>3
  <2>5. Held \ out = Range(rest) \cup (Range(running') \ out)
    BY <1>12, <2>4
  <2> QED
    BY <1>1, <1>2, <1>3, <2>2, <2>3, <2>4, <2>5
<1>14. closes' \in [Requests -> 0..2] /\ ReleasedOnce' /\ index' = index \ out
  <2>1. /\ closes \in [Requests -> 0..2] /\ ReleasedOnce /\ out \subseteq Live
        /\ Live' = Live \ out
    BY <1>2, <1>13 DEF IInv, TypeOK, Live
  <2> HIDE DEF out
  <2> QED
    BY <1>1, <2>1, ReleaseOnce
<1>15. decodeCursor' \in 0..MaxActive /\ prefillCursor' \in 0..MaxActive
  <2> DEFINE n == Len(stay)
  <2>1. decodeCursor \in Nat /\ prefillCursor \in Nat
    BY <1>6 DEF IInv, TypeOK
  <2>2. /\ decodeCursor' = IF n = 0 THEN 0 ELSE decodeCursor % n
        /\ prefillCursor' = IF n = 0 THEN 0 ELSE prefillCursor % n
    BY <1>1 DEF CursorsWithin
  <2>3. n \in Nat /\ n <= MaxActive /\ MaxActive \in Nat
    BY <1>2, <1>5, <1>6
  <2> HIDE DEF n
  <2>4. n # 0 => decodeCursor % n \in 0..(n - 1) /\ prefillCursor % n \in 0..(n - 1)
    BY <2>1, <2>3, ModIs
  <2> QED
    BY <2>2, <2>3, <2>4
<1>16. step' \in Steps /\ step' # Idle /\ VisitWithin'
  <2> DEFINE n == Len(running')
  <2>1. n \in 0..MaxActive /\ step' = FirstRound(n)
    BY <1>1, <1>11
  <2>2. decodeCursor' \in Nat /\ prefillCursor' \in Nat
    BY <1>6, <1>15
  <2> HIDE DEF n
  <2>3. /\ step' \in Steps /\ step' # Idle
        /\ InRound' => step'.idx < n /\ step'.visited < n /\ step'.lastUsed < n
    BY <2>1, <2>2, RoundIs
  <2> QED
    BY <2>3 DEF VisitWithin, n
<1>17. TypeOK'
  <2>1. index' \subseteq Requests /\ dead' \subseteq Requests
    <3>1. index \subseteq Requests /\ Range(waiting) \subseteq Requests
          /\ Range(running) \subseteq Requests
      BY <1>2, RangeIs DEF IInv, TypeOK, List
    <3>2. Held \subseteq Requests
      BY <3>1 DEF Held
    <3> QED
      BY <1>1, <1>13, <1>14, <3>1, <3>2
  <2>2. Len(running') <= MaxActive
    BY <1>6, <1>11
  <2> QED
    BY <1>1, <1>2, <1>10, <1>12, <1>14, <1>15, <1>16, <2>1, <2>2
       DEF IInv, TypeOK, List, Steps
<1>18. Placed' /\ Shut' /\ Noted'
  <2>1. Placed'
    BY <1>1, <1>10, <1>12 DEF IInv, Placed, Apart, List
  <2> QED
    BY <1>1, <1>2, <1>12, <1>16, <2>1 DEF Shut, Noted
<1>19. \A k, l \in 1..Len(queue) : k < l => Arrival[queue[k]] <= Arrival[queue[l]]
  <2>1. InOrder
    BY DEF IInv
  <2> QED
    BY <1>4, <2>1, ThinnedSorted
<1>20. /\ Len(rest) = Len(queue) - room
       /\ \A i \in 1..room : front[i] = queue[i]
       /\ \A i \in 1..(Len(queue) - room) : rest[i] = queue[room + i]
  BY <1>7 DEF CutAt
<1>21. InOrder'
  <2> SUFFICES ASSUME NEW k \in 1..Len(rest), NEW l \in 1..Len(rest), k < l
               PROVE  Arrival[rest[k]] <= Arrival[rest[l]]
    BY <1>1 DEF InOrder
  <2>1. room + k \in 1..Len(queue) /\ room + l \in 1..Len(queue) /\ room + k < room + l
    BY <1>5, <1>6, <1>20
  <2>2. rest[k] = queue[room + k] /\ rest[l] = queue[room + l]
    BY <1>20
  <2> QED
    BY <1>19, <2>1, <2>2
<1>22. Admits
  <2> SUFFICES ASSUME NEW i \in Range(rest), NEW j \in Range(running') \ Range(running)
               PROVE  Arrival[j] <= Arrival[i]
    BY <1>12 DEF Admits
  <2>1. j \in Range(front)
    BY <1>5, <1>10
  <2>2. PICK k \in 1..room : front[k] = j
    BY <1>8, <2>1, RangeIs DEF List
  <2>3. PICK l \in 1..Len(rest) : rest[l] = i
    BY <1>8, RangeIs DEF List
  <2>4. k \in 1..Len(queue) /\ room + l \in 1..Len(queue) /\ k < room + l
    BY <1>5, <1>6, <1>20
  <2>5. j = queue[k] /\ i = queue[room + l]
    BY <1>20, <2>2, <2>3
  <2> QED
    BY <1>19, <2>4, <2>5
<1>23. index' = Held' /\ index' \cap expired = {}
  <2>1. index = Held /\ index' = Held \ out
    BY <1>14 DEF IInv
  <2>2. Held \cap expired \subseteq out
    BY <1>2, <1>3 DEF Held
  <2> QED
    BY <1>13, <2>1, <2>2
<1> QED
  BY <1>14, <1>16, <1>17, <1>18, <1>21, <1>22, <1>23 DEF IInv

-----------------------------------------------------------------------------
(* The theorems.                                                           *)

(* A step that changes nothing. *)
LEMMA StutterKeeps ==
  ASSUME IInv, UNCHANGED vars PROVE IInv'
<1>1. UNCHANGED <<waiting, running, index, decodeCursor, prefillCursor, closed, closing, step,
                  dead, work, expired, closes, served>>
  BY DEF vars
<1>2. TypeOK'
  BY <1>1 DEF IInv, TypeOK
<1>3. Placed' /\ Shut' /\ Noted' /\ InOrder' /\ VisitWithin'
  BY <1>1 DEF IInv, Placed, Shut, Noted, InOrder, VisitWithin, InRound, List, Apart
<1>4. index' = Held' /\ ReleasedOnce'
  BY <1>1 DEF IInv, Held, ReleasedOnce
<1> QED
  BY <1>2, <1>3, <1>4 DEF IInv

(* Every step keeps the invariant.                                         *)
LEMMA StepKeeps == IInv /\ [Next]_vars => IInv'
<1> SUFFICES ASSUME IInv, [Next]_vars PROVE IInv'
  OBVIOUS
<1>1. ASSUME NEW i \in Requests, Add(i) PROVE IInv'
  BY <1>1, AddKeeps
<1>2. ASSUME NEW i \in Requests, Expire(i) PROVE IInv'
  BY <1>2, ExpireKeeps
<1>3. CASE BeginStep
  BY <1>3, BeginStepKeeps
<1>4. CASE PassBy
  BY <1>4, PassByKeeps
<1>5. CASE Miscount
  BY <1>5, MiscountKeeps
<1>6. CASE Turn
  BY <1>6, TurnKeeps
<1>7. CASE EndStep
  BY <1>7, EndStepKeeps
<1>8. CASE Close
  BY <1>8, CloseKeeps
<1>9. CASE CloseNext
  BY <1>9, CloseNextKeeps
<1>10. CASE UNCHANGED vars
  BY <1>10, StutterKeeps
<1> QED
  BY <1>1, <1>2, <1>3, <1>4, <1>5, <1>6, <1>7, <1>8, <1>9, <1>10 DEF Next

(* Each request is in one place, its index entry and its work in step with *)
(* it, in every state of every Step.                                       *)
THEOREM SchedulerInductive == Spec => []IInv
<1>1. Init => IInv
  BY InitHolds
<1>2. IInv /\ [Next]_vars => IInv'
  BY StepKeeps
<1> QED
  BY <1>1, <1>2, PTL DEF Spec

(* Whichever way a request ends, its work is closed exactly once, and not  *)
(* while it waits, runs or is still to be released by Close.               *)
THEOREM ReleasesOnce == Spec => []ReleasedOnce
<1>1. IInv => ReleasedOnce
  BY DEF IInv
<1> QED
  BY <1>1, SchedulerInductive, PTL

(* An entry that is listed is listed once, in one list.                    *)
LEMMA ExactHolds == IInv => IndexExact
<1> SUFFICES ASSUME IInv PROVE IndexExact
  OBVIOUS
<1>1. /\ List(waiting) /\ List(running) /\ List(closing) /\ Apart(waiting, running)
      /\ closing # <<>> => waiting = <<>> /\ running = <<>>
  BY DEF IInv, Placed, Shut
<1>2. ASSUME NEW i \in Requests
      PROVE  Cardinality({k \in DOMAIN waiting : waiting[k] = i})
               + Cardinality({k \in DOMAIN running : running[k] = i})
               + Cardinality({k \in DOMAIN closing : closing[k] = i}) <= 1
  <2> DEFINE w == Cardinality({k \in DOMAIN waiting : waiting[k] = i})
             r == Cardinality({k \in DOMAIN running : running[k] = i})
             c == Cardinality({k \in DOMAIN closing : closing[k] = i})
  <2>1. /\ w = IF i \in Range(waiting) THEN 1 ELSE 0
        /\ r = IF i \in Range(running) THEN 1 ELSE 0
        /\ c = IF i \in Range(closing) THEN 1 ELSE 0
    BY <1>1, Once
  <2>2. /\ ~(i \in Range(waiting) /\ i \in Range(running))
        /\ i \in Range(closing) => i \notin Range(waiting) /\ i \notin Range(running)
    BY <1>1 DEF Apart, Range
  <2> HIDE DEF w, r, c
  <2>3. w + r + c <= 1
    BY <2>1, <2>2
  <2> QED
    BY <2>3 DEF w, r, c
<1> QED
  BY <1>2 DEF IInv, IndexExact

(* The index that refuses a second request under one identity names just   *)
(* the entries that are queued or running, each of them in one place.      *)
THEOREM IndexIsExact == Spec => []IndexExact
<1>1. IInv => IndexExact
  BY ExactHolds
<1> QED
  BY <1>1, SchedulerInductive, PTL

(* Only the two sweeps begin and end a Step.                               *)
LEMMA SweepsEnd ==
  ASSUME IInv, [Next]_vars, (step = Idle) # (step' = Idle)
  PROVE  index' \cap expired = {}
<1>1. CASE BeginStep
  BY <1>1, BeginStepKeeps
<1>2. CASE EndStep
  BY <1>2, EndStepKeeps
<1>3. ASSUME InRound, running' = running, NEW used \in 0..step.budget, NextVisit(used)
      PROVE  FALSE
  <2>1. step # Idle
    BY <1>3 DEF InRound, Idle
  <2>2. step' # Idle
    BY <1>3, VisitIs DEF IInv
  <2> QED
    BY <2>1, <2>2
<1>4. CASE PassBy \/ Miscount
  <2>1. InRound /\ running' = running /\ NextVisit(0)
    BY <1>4 DEF PassBy, Miscount
  <2>2. 0 \in 0..step.budget
    BY <2>1, VisitedRuns
  <2> QED
    BY <1>3, <2>1, <2>2
<1>5. CASE Turn
  <2>1. InRound /\ running' = running /\ Visited \in Requests
    <3>1. InRound /\ running' = running
      BY <1>5 DEF Turn
    <3> QED
      BY <3>1, VisitedRuns
  <2>2. PICK a \in Answers(Visited, TurnLimit(step.phase, Visited),
                           TokensLeft(step.phase, Visited)) :
          NextVisit(IF a.count \in 0..TurnLimit(step.phase, Visited) THEN a.count ELSE 0)
    BY <1>5 DEF Turn
  <2> DEFINE u == IF a.count \in 0..TurnLimit(step.phase, Visited) THEN a.count ELSE 0
  <2>3. u = IF a.count \in 0..TurnLimit(step.phase, Visited) THEN a.count ELSE 0
    OBVIOUS
  <2> HIDE DEF u
  <2>4. u \in 0..step.budget
    BY <2>1, <2>3, TurnMoves
  <2> QED
    BY <1>3, <2>1, <2>2, <2>4 DEF u
<1>6. CASE \E i \in Requests : Add(i) \/ Expire(i)
  BY <1>6 DEF Add, Expire
<1>7. CASE Close \/ CloseNext \/ UNCHANGED vars
  BY <1>7 DEF Close, CloseNext, vars
<1> QED
  BY <1>1, <1>2, <1>4, <1>5, <1>6, <1>7 DEF Next

(* No turns begin, and no Step returns, with a request whose context was   *)
(* done when the sweep read it, wherever the request stood then.           *)
THEOREM ExpiredEnd == Spec => ExpiredEndsWithSweep
<1>1. IInv /\ [Next]_vars => ((step = Idle) # (step' = Idle) => index' \cap expired = {})
  BY SweepsEnd
<1> QED
  BY <1>1, SchedulerInductive, PTL DEF Spec, ExpiredEndsWithSweep

(* Only the beginning of a Step admits.                                    *)
LEMMA AllAdmit ==
  ASSUME IInv, [Next]_vars PROVE Admits
<1>1. CASE BeginStep
  BY <1>1, BeginStepKeeps
<1>2. CASE running' = running
  BY <1>2 DEF Admits
<1>3. CASE EndStep
  <2>1. running' = Keep(running, dead \cup Leaving) /\ List(running)
    BY <1>3 DEF EndStep, IInv, Placed
  <2> DEFINE out == dead \cup Leaving
  <2> HIDE DEF out
  <2>2. Thinned(Keep(running, out), running, out)
    BY <2>1, KeepThins
  <2>3. Range(running') \subseteq Range(running)
    BY <2>1, <2>2 DEF Thinned, out
  <2> QED
    BY <2>3 DEF Admits
<1>4. CASE Close
  BY <1>4 DEF Close, Admits, Range
<1> QED
  BY <1>1, <1>2, <1>3, <1>4
     DEF Next, Add, Expire, PassBy, Miscount, Turn, CloseNext, vars

(* First come, first served: a request is admitted only when none that     *)
(* arrived earlier goes on waiting.                                        *)
THEOREM AdmitsByArrival == Spec => AdmittedByArrival
<1>1. IInv /\ [Next]_vars => Admits
  BY AllAdmit
<1>2. Admits <=> \A i \in Range(waiting'), j \in Range(running') \ Range(running) :
                   Arrival[j] <= Arrival[i]
  BY DEF Admits
<1> QED
  BY <1>1, <1>2, SchedulerInductive, PTL DEF Spec, AdmittedByArrival
==============================================================================
