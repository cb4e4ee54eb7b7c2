------------------------- MODULE WorkerPoolsProofs -------------------------
(***************************************************************************)
(* The worker pools implement ForkJoin, for any number of workers, tiles,  *)
(* callers and calls.                                                      *)
(*                                                                         *)
(* Three facts carry it.  The shares of the workers are a partition of the *)
(* tiles, whichever way a pool divides.  What each worker holds follows    *)
(* from the submitter's two counters (the pools of channels) or from the   *)
(* generation it has seen (the pools that signal), and nothing is in hand  *)
(* between runs.  And the count the signalling pools wait for is the       *)
(* number of workers that have come back in this generation.               *)
(***************************************************************************)
EXTENDS WorkerPools, FiniteSetTheorems, TLAPS

(* Where the run is that holds the pool.                                   *)
Stage == IF tiles = -1 THEN "none" ELSE pc[mutex]

Outside == {"out", "run", "close", "again", "shut", "join"}
Inside == {"send", "await", "own", "last", "asleep", "store", "signal", "clear"}

(* In the callback, its barrier included.                                  *)
Working == {"work", "arrived", "reset", "bump", "waiting"}

(* Between two jobs.                                                       *)
Resting == {"idle", "asleep", "gen", "gone"}

(* The signalling pools have told every worker of the run.                 *)
Shared == Stage \in {"asleep", "await", "clear"}

(* Back from the present generation, and counted.                          *)
Reported == {w \in Workers : seen[w] = phase /\ at[w] \in Resting}

Issued(w) == IF HasChannels THEN w < sent ELSE Shared

Finished(w) == Issued(w) /\ ~Handed(w)

Completed == UNION {Share(w) : w \in {v \in Workers : Finished(v)}}

-----------------------------------------------------------------------------
(* The invariant. *)

TypeOK ==
  /\ kind \in {"channel", "cond", "spin", "gemm"} /\ n \in PoolSizes
  /\ pc \in [Callers -> Outside \cup Inside]
  /\ mutex \in Callers \cup {NoOne} /\ closing \in BOOLEAN /\ closed \in BOOLEAN
  /\ tiles \in -1..MaxTiles /\ tail \in BOOLEAN /\ wave \in BOOLEAN
  /\ sent \in Nat /\ got \in Nat /\ failed \in BOOLEAN
  /\ at \in [AllWorkers -> Working \cup Resting \cup {"fetch", "report"}]
  /\ queued \subseteq Workers /\ ready \subseteq Workers
  /\ fn \in BOOLEAN /\ phase \in Nat /\ done \in Nat
  /\ seen \in [AllWorkers -> Nat]

(* The caller in a run holds runMu, the pool is open, and nothing is left  *)
(* of a run that is over.                                                  *)
Locked ==
  /\ \A c \in Callers : pc[c] \in Inside => mutex = c /\ tiles # -1
  /\ tiles # -1 => mutex \in Callers /\ pc[mutex] \in Inside /\ ~closed
  /\ Stage \in {"own", "last"} => kind = "gemm"
  /\ Stage = "asleep" => kind = "cond"
  /\ Stage \in {"store", "signal", "clear"} => kind = "spin"
  /\ tail => kind = "gemm"
  /\ tiles = -1 => sent = 0 /\ got = 0 /\ ~failed /\ ran = {} /\ ~tail

(* Only a closed pool loses workers, and a Close that is over left none.   *)
Leaving ==
  /\ \A w \in AllWorkers \ Workers : at[w] = "gone"
  /\ \A w \in Workers : at[w] = "gone" => closed
  /\ closed /\ mutex = NoOne => \A w \in Workers : at[w] = "gone"

(* A worker's job is in its channel, in its hands, or answered for by one  *)
(* token.                                                                  *)
Awaited(w) ==
  \/ w \in queued /\ w \notin ready /\ at[w] = "idle"
  \/ w \notin queued /\ w \notin ready /\ at[w] \in Working \cup {"report"}
  \/ w \notin queued /\ w \in ready /\ at[w] = "idle"

Unused(w) == w \notin queued /\ w \notin ready /\ at[w] \in {"idle", "gone"}

Channelled ==
  HasChannels =>
    /\ got <= sent /\ sent <= n /\ ~fn
    /\ \A w \in Workers : IF got <= w /\ w < sent THEN Awaited(w) ELSE Unused(w)

(* The generation is the one every worker has seen until it is shared, and *)
(* the count is of those who came back.                                    *)
Signalled ==
  ~HasChannels =>
    /\ queued = {}
    /\ fn <=> Stage \in {"signal", "asleep", "await", "clear"}
    /\ Stage \in {"store", "signal"} => done = 0
    /\ Shared => done = Cardinality(Reported)
    /\ Stage = "clear" => done >= n
    /\ \A w \in Workers :
         /\ at[w] \notin Resting => seen[w] = phase /\ Shared
         /\ ~Shared /\ (kind = "spin" \/ ~closed) => seen[w] = phase

(* Enough jobs are out to cover the run.                                   *)
Covered == \A i \in Between(0, tiles) : \E w \in 0..(sent - 1) : i \in Share(w)

(* What was worked on is what the workers have finished.                   *)
Results ==
  /\ Stage \in Inside \ {"own", "last"} => ran = Completed
  /\ HasChannels /\ Stage \in {"send", "await"} =>
       Jobs >= 1 /\ sent <= Jobs /\ (kind = "gemm" => Jobs > 1)
  /\ HasChannels /\ Stage = "await" /\ ~failed => Covered
  /\ Stage = "own" => got = sent /\ ran = IF Jobs <= 1 THEN {} ELSE Between(0, tiles)
  /\ Stage = "last" => got = sent /\ ran = Want

Inv == TypeOK /\ Locked /\ Leaving /\ Channelled /\ Signalled /\ Results

-----------------------------------------------------------------------------
(* Arithmetic. *)

(* What a quotient is, with the products both ways round.                  *)
LEMMA DivIs ==
  ASSUME NEW a \in Nat, NEW b \in Nat, b > 0
  PROVE  /\ a \div b \in Nat
         /\ b * (a \div b) <= a /\ a < b * ((a \div b) + 1)
         /\ b * (a \div b) = (a \div b) * b
         /\ b * ((a \div b) + 1) = ((a \div b) + 1) * b
OBVIOUS

(* A product grows with its first factor.                                  *)
LEMMA Grows ==
  ASSUME NEW a \in Nat, NEW b \in Nat, NEW c \in Nat, a <= b
  PROVE  a * c <= b * c /\ a * c \in Nat /\ b * c \in Nat
OBVIOUS

(* Of two products with one factor in common the larger has the larger     *)
(* other.                                                                  *)
LEMMA Cancels ==
  ASSUME NEW a \in Nat, NEW b \in Nat, NEW c \in Nat, a * c < b * c
  PROVE  a < b
OBVIOUS

(* Bounds of the form w * t / k leave no number below t out.               *)
LEMMA Spreads ==
  ASSUME NEW t \in Nat, NEW k \in Nat, k > 0, NEW i \in Nat, i < t
  PROVE  \E w \in 0..(k - 1) :
           /\ (w * t) \div k <= i
           /\ w # k - 1 => i < ((w + 1) * t) \div k
<1> DEFINE m == (i + 1) * k - 1
           w == m \div t
<1>1. m \in Nat /\ (i + 1) * k = m + 1 /\ (i + 1) * k \in Nat
  OBVIOUS
<1>2. w \in Nat /\ w * t <= m /\ m < (w + 1) * t
  <2> HIDE DEF m
  <2> QED
    BY <1>1, DivIs
<1> HIDE DEF m, w
<1>3. w < k
  <2>1. (i + 1) * k <= t * k
    BY Grows
  <2>2. w * t < k * t
    BY <1>1, <1>2, <2>1
  <2> QED
    BY <1>2, <2>2, Cancels
<1>4. (w * t) \div k <= i
  <2> DEFINE a == w * t
             q == a \div k
  <2>1. a \in Nat /\ a < (i + 1) * k
    BY <1>1, <1>2, Grows
  <2>2. q \in Nat /\ q * k <= a
    <3> HIDE DEF a
    <3> QED
      BY <2>1, DivIs
  <2> HIDE DEF q
  <2>3. q * k < (i + 1) * k
    BY <2>1, <2>2, <1>1
  <2>4. q < i + 1
    BY <2>2, <2>3, Cancels
  <2> QED
    BY <2>2, <2>4 DEF q
<1>5. i < ((w + 1) * t) \div k
  <2> DEFINE a == (w + 1) * t
             q == a \div k
  <2>1. a \in Nat /\ (i + 1) * k <= a
    BY <1>1, <1>2
  <2>2. q \in Nat /\ a < (q + 1) * k
    <3> HIDE DEF a
    <3> QED
      BY <2>1, DivIs
  <2> HIDE DEF q
  <2>3. (i + 1) * k < (q + 1) * k
    BY <2>1, <2>2, <1>1
  <2>4. i + 1 < q + 1
    BY <2>2, <2>3, Cancels
  <2> QED
    BY <2>2, <2>4 DEF q
<1>6. w \in 0..(k - 1)
  BY <1>2, <1>3
<1> QED
  BY <1>4, <1>5, <1>6

(* They never overlap.                                                     *)
LEMMA SpreadsGrow ==
  ASSUME NEW t \in Nat, NEW k \in Nat, k > 0, NEW v \in Nat, NEW w \in Nat, v < w
  PROVE  ((v + 1) * t) \div k <= (w * t) \div k
<1> DEFINE a == (v + 1) * t
           b == w * t
<1>1. a \in Nat /\ b \in Nat /\ a <= b
  BY Grows
<1> HIDE DEF a, b
<1> DEFINE p == a \div k
           q == b \div k
<1>2. p \in Nat /\ q \in Nat /\ p * k <= a /\ b < (q + 1) * k
  BY <1>1, DivIs
<1> HIDE DEF p, q
<1>3. p * k < (q + 1) * k
  BY <1>1, <1>2
<1>4. p < q + 1
  BY <1>2, <1>3, Cancels
<1>5. p <= q
  BY <1>2, <1>4
<1> QED
  BY <1>5 DEF p, q, a, b

-----------------------------------------------------------------------------
(* How a run is split. *)

(* A share is made of tiles of the run.                                    *)
LEMMA ShareWithin ==
  ASSUME TypeOK, NEW w \in Workers
  PROVE  Share(w) \subseteq Between(0, tiles)
<1>1. \A a, b : Between(a, b) \subseteq Between(0, tiles)
  BY DEF Between, TypeOK
<1>2. Strided(w) \subseteq Between(0, tiles)
  BY DEF Strided
<1>3. CASE kind = "gemm"
  BY <1>1, <1>3 DEF Share
<1>4. CASE kind = "spin"
  BY <1>1, <1>2, <1>4 DEF Share, Spread
<1>5. CASE kind \in {"channel", "cond"}
  BY <1>1, <1>5 DEF Share, Even
<1> QED
  BY <1>3, <1>4, <1>5 DEF TypeOK

(* The numbers the shares are computed from.                               *)
LEMMA Numbers ==
  ASSUME TypeOK, tiles # -1
  PROVE  /\ n \in Nat /\ n > 0 /\ tiles \in Nat /\ tiles <= MaxTiles /\ MaxTiles \in Nat
         /\ Workers = 0..(n - 1)
         /\ Jobs \in Nat /\ Jobs <= n
         /\ kind = "gemm" => Jobs <= tiles
         /\ kind # "gemm" => Jobs = n
<1>1. n \in Nat /\ n > 0 /\ tiles \in Nat /\ tiles <= MaxTiles /\ MaxTiles \in Nat
  BY PoolAssumption DEF TypeOK
<1> QED
  BY <1>1 DEF Workers, Jobs, Lesser

(* Rounded up, the chunks reach the end.                                   *)
LEMMA ChunkIs ==
  ASSUME TypeOK, tiles # -1, Jobs >= 1
  PROVE  Chunk \in Nat /\ tiles <= Jobs * Chunk /\ (tiles > 0 => Chunk > 0)
<1> DEFINE a == tiles + Jobs - 1
           q == a \div Jobs
<1>1. a \in Nat /\ Jobs \in Nat /\ Jobs > 0 /\ tiles \in Nat
  BY Numbers
<1> HIDE DEF a
<1>2. q \in Nat /\ a < Jobs * (q + 1)
  BY <1>1, DivIs
<1>3. Chunk = q
  BY DEF Chunk, a
<1> HIDE DEF q
<1>4. Jobs * (q + 1) = Jobs * q + Jobs /\ Jobs * q \in Nat
  BY <1>1, <1>2
<1>5. tiles <= Jobs * q
  BY <1>1, <1>2, <1>4 DEF a
<1>6. q = 0 => Jobs * q = 0
  BY <1>1
<1> QED
  BY <1>1, <1>2, <1>3, <1>5, <1>6

(* Chunks of one size do not overlap.                                      *)
LEMMA ChunksApart ==
  ASSUME NEW q \in Nat, NEW v \in Nat, NEW w \in Nat, v < w
  PROVE  (v + 1) * q <= w * q
BY Grows

(* Of two workers the one with the smaller number has the smaller tiles,   *)
(* or both take every n-th of their own.                                   *)
LEMMA ShareOrdered ==
  ASSUME TypeOK, tiles # -1, kind = "gemm" => Jobs >= 1,
         NEW v \in Workers, NEW w \in Workers, v < w, NEW i \in Share(v)
  PROVE  i \notin Share(w)
<1>1. /\ n \in Nat /\ n > 0 /\ tiles \in Nat /\ MaxTiles \in Nat
      /\ v \in Nat /\ w \in Nat /\ v < w /\ v # n - 1 /\ w < n
  BY Numbers
<1>2. CASE kind = "gemm"
  <2>1. Chunk \in Nat
    BY <1>2, ChunkIs
  <2> DEFINE a == (v + 1) * Chunk
             b == w * Chunk
  <2>2. a <= b
    BY <1>1, <2>1, ChunksApart
  <2>3. a \in Nat /\ b \in Nat
    BY <1>1, <2>1, Grows
  <2>4. i \in Nat /\ i < a
    BY <1>2 DEF Share, Between
  <2>5. ASSUME i \in Share(w) PROVE b <= i
    BY <1>2, <2>5 DEF Share, Between
  <2> QED
    BY <2>2, <2>3, <2>4, <2>5
<1>3. CASE kind \in {"channel", "cond"}
  <2> DEFINE q == tiles \div n
             a == (v + 1) * q
             b == w * q
  <2>1. q \in Nat
    BY <1>1, DivIs
  <2>2. a <= b /\ a \in Nat /\ b \in Nat
    <3> HIDE DEF q
    <3> QED
      BY <1>1, <2>1, ChunksApart, Grows
  <2>4. i \in Nat /\ i < a
    BY <1>1, <1>3 DEF Share, Even, Between
  <2>5. ASSUME i \in Share(w) PROVE b <= i
    BY <1>3, <2>5 DEF Share, Even, Between
  <2> HIDE DEF a, b
  <2> QED
    BY <2>2, <2>4, <2>5
<1>4. CASE kind = "spin" /\ ~wave
  <2> DEFINE a == ((v + 1) * tiles) \div n
             b == (w * tiles) \div n
  <2>1. (v + 1) * tiles \in Nat /\ w * tiles \in Nat
    BY <1>1, Grows
  <2>2. a \in Nat /\ b \in Nat
    BY <1>1, <2>1, DivIs
  <2>3. a <= b
    BY <1>1, SpreadsGrow
  <2>4. i \in Nat /\ i < a
    BY <1>1, <1>4 DEF Share, Spread, Between
  <2>5. ASSUME i \in Share(w) PROVE b <= i
    BY <1>4, <2>5 DEF Share, Spread, Between
  <2> HIDE DEF a, b
  <2> QED
    BY <2>2, <2>3, <2>4, <2>5
<1>5. CASE kind = "spin" /\ wave
  <2>1. i % n = v
    BY <1>5 DEF Share, Strided
  <2>2. ASSUME i \in Share(w) PROVE i % n = w
    BY <1>5, <2>2 DEF Share, Strided
  <2> QED
    BY <1>1, <2>1, <2>2
<1> QED
  BY <1>2, <1>3, <1>4, <1>5 DEF TypeOK

(* No tile is in two shares.                                               *)
LEMMA ShareApart ==
  ASSUME TypeOK, tiles # -1, kind = "gemm" => Jobs >= 1,
         NEW v \in Workers, NEW w \in Workers, v # w
  PROVE  \A i \in Share(v) : i \notin Share(w)
<1>1. v < w \/ w < v
  BY Numbers
<1> QED
  BY <1>1, ShareOrdered

(* Every tile is in the share of a worker that has a job.                  *)
LEMMA ShareCovers ==
  ASSUME TypeOK, tiles # -1, Jobs >= 1, NEW i \in Between(0, tiles)
  PROVE  \E w \in 0..(Jobs - 1) : i \in Share(w)
<1>1. /\ n \in Nat /\ n > 0 /\ tiles \in Nat /\ MaxTiles \in Nat /\ tiles <= MaxTiles
      /\ Jobs \in Nat /\ i \in Nat /\ i < tiles /\ i \in 0..(MaxTiles - 1)
  BY Numbers DEF Between
<1>2. CASE kind = "gemm"
  <2> DEFINE q == Chunk
             w == i \div q
  <2>1. q \in Nat /\ q > 0 /\ tiles <= Jobs * q
    BY <1>1, ChunkIs
  <2> HIDE DEF q
  <2>2. w \in Nat /\ w * q <= i /\ i < (w + 1) * q
    BY <1>1, <2>1, DivIs
  <2> HIDE DEF w
  <2>3. w * q < Jobs * q
    BY <1>1, <2>1, <2>2, Grows
  <2>4. w \in 0..(Jobs - 1)
    <3>1. w < Jobs
      BY <1>1, <2>1, <2>2, <2>3, Cancels
    <3> QED
      BY <1>1, <2>2, <3>1
  <2>5. i \in Between(w * q, (w + 1) * q)
    BY <1>1, <2>2 DEF Between
  <2>6. i \in Share(w)
    BY <1>2, <2>5 DEF Share, q
  <2> QED
    BY <2>4, <2>6
<1>3. CASE kind \in {"channel", "cond"}
  <2> DEFINE q == tiles \div n
  <2>1. q \in Nat
    BY <1>1, DivIs
  <2>2. Jobs = n
    BY <1>3, Numbers
  <2>3. CASE i < (n - 1) * q
    <3> DEFINE w == i \div q
    <3>1. q > 0
      <4> HIDE DEF q
      <4>1. q = 0 => (n - 1) * q = 0
        BY <1>1
      <4> QED
        BY <1>1, <2>1, <2>3, <4>1
    <3>2. w \in Nat /\ w * q <= i /\ i < (w + 1) * q
      <4> HIDE DEF q
      <4> QED
        BY <1>1, <2>1, <3>1, DivIs
    <3> HIDE DEF w, q
    <3>3. w < n - 1
      <4>1. w * q < (n - 1) * q
        BY <1>1, <2>1, <2>3, <3>2, Grows
      <4> QED
        BY <1>1, <2>1, <3>2, <4>1, Cancels
    <3>4. i \in Between(w * q, (w + 1) * q)
      BY <1>1, <3>2 DEF Between
    <3>5. w # n - 1 /\ w \in 0..(Jobs - 1)
      BY <1>1, <2>2, <3>2, <3>3
    <3>6. i \in Share(w)
      BY <1>3, <3>4, <3>5 DEF Share, Even, q
    <3> QED
      BY <3>5, <3>6
  <2>4. CASE ~(i < (n - 1) * q)
    <3>1. (n - 1) * q <= i
      <4> HIDE DEF q
      <4>1. (n - 1) * q \in Nat
        BY <1>1, <2>1, Grows
      <4> QED
        BY <1>1, <2>4, <4>1
    <3>2. i \in Between((n - 1) * q, tiles)
      BY <1>1, <3>1 DEF Between
    <3>3. i \in Share(n - 1)
      BY <1>3, <3>2 DEF Share, Even
    <3>4. n - 1 \in 0..(Jobs - 1)
      BY <1>1, <2>2
    <3> QED
      BY <3>3, <3>4
  <2> QED
    BY <2>3, <2>4
<1>4. CASE kind = "spin" /\ ~wave
  <2>1. Jobs = n
    BY <1>4, Numbers
  <2>2. PICK w \in 0..(n - 1) :
          /\ (w * tiles) \div n <= i
          /\ w # n - 1 => i < ((w + 1) * tiles) \div n
    BY <1>1, Spreads
  <2> DEFINE b == IF w = n - 1 THEN tiles ELSE ((w + 1) * tiles) \div n
  <2>3. i < b
    BY <1>1, <2>2
  <2> HIDE DEF b
  <2>4. i \in Between((w * tiles) \div n, b)
    BY <1>1, <2>2, <2>3 DEF Between
  <2>5. i \in Share(w)
    BY <1>4, <2>4 DEF Share, Spread, b
  <2> QED
    BY <2>1, <2>2, <2>5
<1>5. CASE kind = "spin" /\ wave
  <2> DEFINE w == i % n
  <2>1. w \in 0..(n - 1)
    BY <1>1
  <2>2. i \in Share(w)
    BY <1>5 DEF Share, Strided
  <2>3. Jobs = n
    BY <1>5, Numbers
  <2> HIDE DEF w
  <2> QED
    BY <2>1, <2>2, <2>3
<1> QED
  BY <1>2, <1>3, <1>4, <1>5 DEF TypeOK

(* When a worker's share is empty, so is that of every later one.          *)
LEMMA ShareEnds ==
  ASSUME TypeOK, tiles # -1, kind = "gemm", Jobs >= 1,
         NEW k \in Nat, k < Jobs, Share(k) = {}, NEW i \in Between(0, tiles)
  PROVE  \E w \in 0..(k - 1) : i \in Share(w)
<1>1. /\ tiles \in Nat /\ MaxTiles \in Nat /\ tiles <= MaxTiles
      /\ Jobs \in Nat /\ i \in Nat /\ i < tiles
  BY Numbers DEF Between
<1>2. Chunk \in Nat /\ Chunk > 0
  BY <1>1, ChunkIs
<1>3. PICK w \in 0..(Jobs - 1) : i \in Share(w)
  BY ShareCovers
<1>4. CASE w < k
  BY <1>1, <1>3, <1>4
<1>5. CASE k <= w
  <2> DEFINE a == k * Chunk
             b == (k + 1) * Chunk
  <2>1. a \in Nat /\ a <= w * Chunk
    BY <1>1, <1>2, <1>5, Grows
  <2>2. b = a + Chunk
    BY <1>2
  <2>3. w * Chunk <= i /\ w * Chunk \in Nat
    BY <1>2, <1>3, Grows DEF Share, Between
  <2> HIDE DEF b
  <2>4. a <= i /\ a < tiles /\ a < b /\ a \in 0..(MaxTiles - 1)
    BY <1>1, <1>2, <2>1, <2>2, <2>3
  <2> HIDE DEF a
  <2>5. a \in Between(a, b)
    BY <2>1, <2>4 DEF Between
  <2>6. a \in Share(k)
    BY <2>5 DEF Share, a, b
  <2> QED
    BY <2>6
<1> QED
  BY <1>1, <1>3, <1>4, <1>5

-----------------------------------------------------------------------------
(* What follows from what does not change. *)

(* The split of a run is what it was while the run is.                     *)
LEMMA SplitKept ==
  ASSUME UNCHANGED <<kind, n, tiles, wave>>
  PROVE  /\ Workers' = Workers /\ Jobs' = Jobs /\ HasChannels' = HasChannels
         /\ Between(0, tiles)' = Between(0, tiles)
         /\ \A w : Share(w)' = Share(w)
<1>1. Workers' = Workers /\ Jobs' = Jobs /\ HasChannels' = HasChannels
  BY DEF Workers, Jobs, Lesser, HasChannels
<1>2. \A a, b : Between(a, b)' = Between(a, b)
  BY DEF Between
<1>3. Between(0, tiles)' = Between(0, tiles)
  BY DEF Between
<1>4. Chunk' = Chunk
  BY <1>1 DEF Chunk
<1>5. ASSUME NEW w PROVE Share(w)' = Share(w)
  <2>1. Even(w)' = Even(w)
    BY DEF Even, Between
  <2>2. Spread(w)' = Spread(w)
    BY DEF Spread, Between
  <2>3. Strided(w)' = Strided(w)
    BY <1>3 DEF Strided
  <2>4. Between(w * Chunk, (w + 1) * Chunk)' = Between(w * Chunk, (w + 1) * Chunk)
    BY <1>4 DEF Between
  <2> QED
    BY <2>1, <2>2, <2>3, <2>4 DEF Share
<1> QED
  BY <1>1, <1>3, <1>5

(* The same jobs in hand are the same tiles in hand.                       *)
LEMMA BusyKept ==
  ASSUME UNCHANGED <<kind, n, tiles, wave>>, \A w \in Workers : Handed(w)' <=> Handed(w)
  PROVE  Busy' = Busy
<1>1. Workers' = Workers /\ \A w \in Workers : Share(w)' = Share(w)
  BY SplitKept
<1>2. {w \in Workers : Handed(w)}' = {w \in Workers : Handed(w)}
  BY <1>1
<1> QED
  BY <1>1, <1>2 DEF Busy
(* The same jobs finished are the same tiles finished.                     *)
LEMMA CompletedKept ==
  ASSUME UNCHANGED <<kind, n, tiles, wave>>, \A w \in Workers : Finished(w)' <=> Finished(w)
  PROVE  Completed' = Completed
<1>1. Workers' = Workers /\ \A w \in Workers : Share(w)' = Share(w)
  BY SplitKept
<1>2. {w \in Workers : Finished(w)}' = {w \in Workers : Finished(w)}
  BY <1>1
<1> QED
  BY <1>1, <1>2 DEF Completed

(* The facts about the workers are kept by a step that touches neither the *)
(* workers nor the run.                                                    *)
LEMMA WorkersKept ==
  ASSUME Channelled, Signalled, Results,
         UNCHANGED <<kind, n, tiles, tail, wave, sent, got, failed, ran, at, queued, ready,
                     fn, phase, done, seen, closed, Stage>>
  PROVE  /\ Channelled' /\ Signalled' /\ Results'
         /\ Busy' = Busy /\ Want' = Want /\ Alive' = Alive
<1>1. /\ Workers' = Workers /\ Jobs' = Jobs /\ HasChannels' = HasChannels
      /\ Between(0, tiles)' = Between(0, tiles)
      /\ \A w : Share(w)' = Share(w)
  BY SplitKept
<1>2. \A w \in Workers : /\ Handed(w)' <=> Handed(w)
                         /\ Awaited(w)' <=> Awaited(w)
                         /\ Unused(w)' <=> Unused(w)
  BY <1>1 DEF Handed, Awaited, Unused
<1>3. Shared' <=> Shared
  BY DEF Shared
<1>4. \A w \in Workers : Finished(w)' <=> Finished(w)
  BY <1>1, <1>2, <1>3 DEF Finished, Issued
<1>5. Busy' = Busy /\ Completed' = Completed
  BY <1>2, <1>4, BusyKept, CompletedKept
<1>6. Channelled'
  BY <1>1, <1>2 DEF Channelled
<1>7. Reported' = Reported
  BY <1>1 DEF Reported
<1>8. Signalled'
  BY <1>1, <1>3, <1>7 DEF Signalled
<1>9. Want' = Want
  BY <1>1 DEF Want, Tail
<1>10. Alive' = Alive
  BY DEF Alive
<1>11. Results'
  <2>1. Covered' <=> Covered
    BY <1>1 DEF Covered
  <2> QED
    BY <1>1, <1>5, <1>9, <2>1 DEF Results
<1> QED
  BY <1>5, <1>6, <1>8, <1>9, <1>10, <1>11

(* A call that is in no run moves on outside of one.                       *)
LEMMA StageKept ==
  ASSUME TypeOK, Locked, NEW c \in Callers, NEW s \in Outside, pc[c] \in Outside,
         pc' = [pc EXCEPT ![c] = s], UNCHANGED <<mutex, tiles>>
  PROVE  /\ Stage' = Stage /\ pc' \in [Callers -> Outside \cup Inside]
         /\ \A d \in Callers : pc'[d] \in Inside => pc[d] \in Inside /\ pc'[d] = pc[d]
<1>1. pc' \in [Callers -> Outside \cup Inside]
  BY DEF TypeOK
<1>2. Outside \cap Inside = {}
  BY DEF Outside, Inside
<1>3. \A d \in Callers : pc'[d] \in Inside => pc[d] \in Inside /\ pc'[d] = pc[d]
  BY <1>2 DEF TypeOK
<1>4. tiles # -1 => mutex # c /\ mutex \in Callers
  BY <1>2 DEF Locked
<1> QED
  BY <1>1, <1>3, <1>4 DEF Stage, TypeOK

(* Such a step keeps the invariant and leaves the run as it is.            *)
LEMMA OutsideStep ==
  ASSUME Inv, NEW c \in Callers, NEW s \in Outside, pc[c] \in Outside,
         pc' = [pc EXCEPT ![c] = s], closing' \in BOOLEAN,
         UNCHANGED <<pool, mutex, closed, job, progress, ran, at, channels, signal, seen>>
  PROVE  /\ Inv'
         /\ Caller' = Caller /\ Busy' = Busy /\ Want' = Want /\ Alive' = Alive
<1> USE DEF Inv
<1>1. /\ Stage' = Stage /\ pc' \in [Callers -> Outside \cup Inside]
      /\ \A d \in Callers : pc'[d] \in Inside => pc[d] \in Inside /\ pc'[d] = pc[d]
  BY StageKept DEF pool, job
<1>2. UNCHANGED <<kind, n, tiles, tail, wave, sent, got, failed, ran, at, queued, ready,
                  fn, phase, done, seen, closed, Stage, mutex>>
  BY <1>1 DEF pool, job, progress, channels, signal
<1>3. /\ Channelled' /\ Signalled' /\ Results'
      /\ Busy' = Busy /\ Want' = Want /\ Alive' = Alive
  BY <1>2, WorkersKept
<1>4. Workers' = Workers
  BY <1>2 DEF Workers
<1>5. TypeOK'
  BY <1>1, <1>2, <1>4 DEF TypeOK
<1>6. Locked'
  <2>1. tiles # -1 => pc'[mutex] \in Inside
    <3>1. Outside \cap Inside = {}
      BY DEF Outside, Inside
    <3> QED
      BY <3>1 DEF Locked, TypeOK
  <2> QED
    BY <1>1, <1>2, <2>1 DEF Locked
<1>7. Leaving'
  BY <1>2, <1>4 DEF Leaving
<1>8. Caller' = Caller
  BY <1>2 DEF Caller
<1> QED
  BY <1>3, <1>5, <1>6, <1>7, <1>8

-----------------------------------------------------------------------------
(* The steps of ForkJoin. *)

(* A step that changes nothing ForkJoin sees.                              *)
LEMMA Stutters ==
  ASSUME UNCHANGED <<Caller, Want, Busy, ran, Alive, closed, answer>>,
         (closed \/ closing)' = (closed \/ closing)
  PROVE  [Promise!Next]_(Promise!vars)
BY DEF Promise!vars

(* A call begins.                                                          *)
LEMMA Calls ==
  ASSUME NEW c \in Callers, answer' = [answer EXCEPT ![c] = "none"],
         UNCHANGED <<Caller, Want, Busy, ran, Alive, closed, closing>>
  PROVE  [Promise!Next]_(Promise!vars)
BY DEF Promise!Next, Promise!Call, Promise!Tell

(* A call is refused, or given up before it ran.                           *)
LEMMA Refuses ==
  ASSUME NEW c \in Callers, NEW a \in {"refused", "cancelled"},
         a = "refused" => closed \/ closing, answer' = [answer EXCEPT ![c] = a],
         UNCHANGED <<Caller, Want, Busy, ran, Alive, closed, closing>>
  PROVE  [Promise!Next]_(Promise!vars)
BY DEF Promise!Next, Promise!Refuse, Promise!Tell

(* A run begins.                                                           *)
LEMMA Begins ==
  ASSUME NEW c \in Callers, Caller = NoOne, ~closed, Caller' = c,
         Want' \subseteq 0..MaxTiles, ran' = {},
         UNCHANGED <<Busy, Alive, closed, closing, answer>>
  PROVE  [Promise!Next]_(Promise!vars)
<1>1. Promise!Begin(c, Want')
  BY DEF Promise!Begin
<1> QED
  BY <1>1 DEF Promise!Next

(* Jobs are handed out.                                                    *)
LEMMA Hands ==
  ASSUME Caller # NoOne, NEW S, S \subseteq Want \ (Busy \cup ran), S \subseteq 0..MaxTiles,
         Busy' = Busy \cup S,
         UNCHANGED <<Caller, Want, ran, Alive, closed, closing, answer>>
  PROVE  [Promise!Next]_(Promise!vars)
<1>1. Promise!Hand(S)
  BY DEF Promise!Hand
<1> QED
  BY <1>1 DEF Promise!Next

(* A worker is through with a job.                                         *)
LEMMA Finishes ==
  ASSUME NEW S, S \subseteq Busy, S \subseteq 0..MaxTiles, Busy' = Busy \ S, ran' = ran \cup S,
         UNCHANGED <<Caller, Want, Alive, closed, closing, answer>>
  PROVE  [Promise!Next]_(Promise!vars)
<1>1. Promise!Finish(S)
  BY DEF Promise!Finish
<1> QED
  BY <1>1 DEF Promise!Next

(* The caller works itself.                                                *)
LEMMA Serves ==
  ASSUME Caller # NoOne, Busy = {}, NEW S, S \subseteq Want \ ran, S \subseteq 0..MaxTiles,
         ran' = ran \cup S,
         UNCHANGED <<Caller, Want, Busy, Alive, closed, closing, answer>>
  PROVE  [Promise!Next]_(Promise!vars)
<1>1. Promise!Self(S)
  BY DEF Promise!Self
<1> QED
  BY <1>1 DEF Promise!Next

(* A run ends.                                                             *)
LEMMA Returns ==
  ASSUME Caller # NoOne, Busy = {}, NEW a \in {"done", "cancelled"}, a = "done" => ran = Want,
         Caller' = NoOne, Want' = {}, ran' = {}, answer' = [answer EXCEPT ![Caller] = a],
         UNCHANGED <<Busy, Alive, closed, closing>>
  PROVE  [Promise!Next]_(Promise!vars)
<1>1. Promise!Return(a)
  BY DEF Promise!Return, Promise!Tell
<1> QED
  BY <1>1 DEF Promise!Next

(* The pool is closing, or closed.                                         *)
LEMMA Stops ==
  ASSUME closed' \/ closing', closed' \in BOOLEAN, closed' # closed => Caller = NoOne /\ closed',
         UNCHANGED <<Caller, Want, Busy, ran, Alive, answer>>
  PROVE  [Promise!Next]_(Promise!vars)
<1>1. Promise!Stop
  BY DEF Promise!Stop
<1> QED
  BY <1>1 DEF Promise!Next

(* A worker leaves.                                                        *)
LEMMA Leaves ==
  ASSUME closed, Busy = {}, NEW w \in AllWorkers, Alive' = Alive \ {w},
         UNCHANGED <<Caller, Want, Busy, ran, closed, closing, answer>>
  PROVE  [Promise!Next]_(Promise!vars)
<1>1. Promise!Leave(w)
  BY DEF Promise!Leave
<1> QED
  BY <1>1 DEF Promise!Next

(* Close returns.                                                          *)
LEMMA Closes ==
  ASSUME NEW c \in Callers, closed, Alive = {}, answer' = [answer EXCEPT ![c] = "closed"],
         UNCHANGED <<Caller, Want, Busy, ran, Alive, closed, closing>>
  PROVE  [Promise!Next]_(Promise!vars)
<1>1. Promise!Closed(c)
  BY DEF Promise!Closed, Promise!Tell
<1> QED
  BY <1>1 DEF Promise!Next

-----------------------------------------------------------------------------
(* The calls that are in no run. *)

(* What a step of the pool has to show.                                    *)
Kept == Inv' /\ [Promise!Next]_(Promise!vars)

(* A call begins.                                                          *)
LEMMA BeginKeeps ==
  ASSUME Inv, NEW c \in Callers, NEW what \in {"run", "close"}, Begin(c, what)
  PROVE  Kept
<1>1. /\ pc[c] \in Outside /\ what \in Outside /\ pc' = [pc EXCEPT ![c] = what]
      /\ answer' = [answer EXCEPT ![c] = "none"] /\ closing' = closing /\ closing' \in BOOLEAN
      /\ UNCHANGED <<pool, mutex, closed, job, progress, ran, at, channels, signal, seen>>
  BY DEF Begin, Goto, Outside, locks, Inv, TypeOK
<1>2. /\ Inv' /\ Caller' = Caller /\ Busy' = Busy /\ Want' = Want /\ Alive' = Alive
  BY <1>1, OutsideStep
<1>3. [Promise!Next]_(Promise!vars)
  BY <1>1, <1>2, Calls
<1> QED
  BY <1>2, <1>3 DEF Kept

(* A context ends.                                                         *)
LEMMA ExpireKeeps ==
  ASSUME Inv, NEW c \in Callers, Expire(c)
  PROVE  Kept
<1>1. UNCHANGED <<kind, n, tiles, tail, wave, sent, got, failed, ran, at, queued, ready,
                  fn, phase, done, seen, closed, closing, pc, mutex, answer>>
  BY DEF Expire, pool, job, progress, channels, signal, locks
<1>2. Stage' = Stage /\ Workers' = Workers /\ Caller' = Caller
  BY <1>1 DEF Stage, Workers, Caller
<1>3. /\ Channelled' /\ Signalled' /\ Results'
      /\ Busy' = Busy /\ Want' = Want /\ Alive' = Alive
  BY <1>1, <1>2, WorkersKept DEF Inv
<1>4. TypeOK'
  BY <1>1, <1>2 DEF TypeOK, Inv
<1>5. Locked' /\ Leaving'
  BY <1>1, <1>2 DEF Locked, Leaving, Inv
<1>6. [Promise!Next]_(Promise!vars)
  BY <1>1, <1>2, <1>3, Stutters
<1> QED
  BY <1>3, <1>4, <1>5, <1>6 DEF Inv, Kept

(* A run is refused, or its context is done before it begins.              *)
LEMMA RefusedKeeps ==
  ASSUME Inv, NEW c \in Callers, Refused(c) \/ Late(c)
  PROVE  Kept
<1>1. PICK a \in {"refused", "cancelled"} :
        /\ a = "refused" => closed \/ closing
        /\ Answer(c, a) /\ pc[c] = "run"
        /\ UNCHANGED <<pool, locks, job, progress, ran, at, channels, signal, seen>>
  BY DEF Refused, Late
<1>2. /\ pc[c] \in Outside /\ "out" \in Outside /\ pc' = [pc EXCEPT ![c] = "out"]
      /\ answer' = [answer EXCEPT ![c] = a]
      /\ closing' = closing /\ closing' \in BOOLEAN
      /\ UNCHANGED <<pool, mutex, closed, job, progress, ran, at, channels, signal, seen>>
  BY <1>1 DEF Answer, Goto, Outside, locks, Inv, TypeOK
<1>3. /\ Inv' /\ Caller' = Caller /\ Busy' = Busy /\ Want' = Want /\ Alive' = Alive
  BY <1>2, OutsideStep
<1>4. [Promise!Next]_(Promise!vars)
  BY <1>1, <1>2, <1>3, Refuses
<1> QED
  BY <1>3, <1>4 DEF Kept

(* The pool begins to close, or a later Close waits for it.                *)
LEMMA ClosingKeeps ==
  ASSUME Inv, NEW c \in Callers, Closing(c) \/ Again(c)
  PROVE  Kept
<1>1. PICK s \in {"again", "shut", "join"} :
        /\ pc[c] \in Outside /\ pc' = [pc EXCEPT ![c] = s]
        /\ closing' = closing \/ closing' = TRUE
        /\ UNCHANGED <<answer, pool, mutex, closed, job, progress, ran, at, channels,
                       signal, seen>>
  BY DEF Closing, Again, Goto, Outside, locks
<1>2. s \in Outside /\ closing' \in BOOLEAN
  BY <1>1 DEF Outside, Inv, TypeOK
<1>3. /\ Inv' /\ Caller' = Caller /\ Busy' = Busy /\ Want' = Want /\ Alive' = Alive
  BY <1>1, <1>2, OutsideStep
<1>4. [Promise!Next]_(Promise!vars)
  <2>1. CASE closing' = closing
    BY <1>1, <1>3, <2>1, Stutters
  <2>2. CASE closing' = TRUE
    <3>1. /\ (closed' \/ closing') /\ closed' \in BOOLEAN /\ closed' = closed
          /\ UNCHANGED <<ran, answer>>
      BY <1>1, <2>2 DEF Inv, TypeOK
    <3> QED
      BY <1>3, <3>1, Stops
  <2> QED
    BY <1>1, <2>1, <2>2
<1> QED
  BY <1>3, <1>4 DEF Kept

(* When every worker is gone, nobody is alive, and the pool was closed.    *)
LEMMA GoneIs ==
  ASSUME Inv, \A w \in Workers : at[w] = "gone"
  PROVE  Alive = {} /\ closed
<1>1. Alive = {}
  BY DEF Alive, Leaving, Inv
<1>2. 0 \in Workers
  BY PoolAssumption DEF Workers, Inv, TypeOK
<1> QED
  BY <1>1, <1>2 DEF Leaving, Inv

(* A Close after the last one returns.                                     *)
LEMMA AlreadyClosedKeeps ==
  ASSUME Inv, NEW c \in Callers, AlreadyClosed(c)
  PROVE  Kept
<1>1. /\ pc[c] \in Outside /\ "out" \in Outside /\ pc' = [pc EXCEPT ![c] = "out"]
      /\ answer' = [answer EXCEPT ![c] = "closed"]
      /\ closing' = closing /\ closing' \in BOOLEAN
      /\ UNCHANGED <<pool, mutex, closed, job, progress, ran, at, channels, signal, seen>>
  BY DEF AlreadyClosed, Answer, Goto, Outside, locks, Inv, TypeOK
<1>2. /\ Inv' /\ Caller' = Caller /\ Busy' = Busy /\ Want' = Want /\ Alive' = Alive
  BY <1>1, OutsideStep
<1>3. closed /\ mutex = NoOne
  BY DEF AlreadyClosed
<1>4. Alive = {}
  BY <1>3, GoneIs DEF Inv, Leaving
<1>5. [Promise!Next]_(Promise!vars)
  BY <1>1, <1>2, <1>3, <1>4, Closes
<1> QED
  BY <1>2, <1>5 DEF Kept

(* Close has waited for the workers, and lets go of the pool.              *)
LEMMA JoinedKeeps ==
  ASSUME Inv, NEW c \in Callers, Joined(c)
  PROVE  Kept
<1>1. /\ pc[c] = "join" /\ \A w \in Workers : at[w] = "gone"
      /\ pc' = [pc EXCEPT ![c] = "out"] /\ answer' = [answer EXCEPT ![c] = "closed"]
      /\ mutex' = IF mutex = c THEN NoOne ELSE mutex
      /\ UNCHANGED <<kind, n, tiles, tail, wave, sent, got, failed, ran, at, queued, ready,
                     fn, phase, done, seen, closed, closing>>
  BY DEF Joined, Answer, Goto, pool, job, progress, channels, signal
<1>2. Alive = {} /\ closed
  BY <1>1, GoneIs
<1>3. tiles = -1
  BY <1>2 DEF Inv, Locked
<1>4. Stage' = Stage /\ Caller' = Caller /\ Workers' = Workers
  BY <1>1, <1>3 DEF Stage, Caller, Workers
<1>5. /\ Channelled' /\ Signalled' /\ Results'
      /\ Busy' = Busy /\ Want' = Want /\ Alive' = Alive
  BY <1>1, <1>4, WorkersKept DEF Inv
<1>6. TypeOK'
  <2>1. pc' \in [Callers -> Outside \cup Inside] /\ mutex' \in Callers \cup {NoOne}
    BY <1>1 DEF Inv, TypeOK, Outside
  <2> QED
    BY <1>1, <1>4, <2>1 DEF TypeOK, Inv
<1>7. Locked'
  <2>1. \A d \in Callers : pc'[d] \in Inside => pc[d] \in Inside
    BY <1>1 DEF Inv, TypeOK, Inside
  <2>2. \A d \in Callers : pc'[d] \notin Inside
    BY <1>3, <2>1 DEF Inv, Locked
  <2> QED
    BY <1>1, <1>3, <1>4, <2>2 DEF Locked, Inv
<1>8. Leaving'
  BY <1>1, <1>4 DEF Leaving, Inv
<1>9. [Promise!Next]_(Promise!vars)
  BY <1>1, <1>2, <1>4, <1>5, Closes
<1> QED
  BY <1>5, <1>6, <1>7, <1>8, <1>9 DEF Inv, Kept

-----------------------------------------------------------------------------
(* The pool is opened to a run, and shut. *)

(* Nothing is handed to anyone, nothing is in hand.                        *)
LEMMA NoneBusy ==
  ASSUME \A w \in Workers : ~Handed(w)
  PROVE  Busy = {}
BY DEF Busy

(* Nothing is in hand before the jobs are shared, nor when every job that  *)
(* was submitted has been awaited.                                         *)
LEMMA NoneHanded ==
  ASSUME Inv, IF HasChannels THEN got = sent ELSE ~Shared
  PROVE  \A w \in Workers : ~Handed(w)
<1> SUFFICES ASSUME NEW w \in Workers PROVE ~Handed(w)
  OBVIOUS
<1>1. w \in Nat
  BY PoolAssumption DEF Workers, Inv, TypeOK
<1>2. CASE HasChannels
  <2>1. Unused(w)
    BY <1>1, <1>2 DEF Inv, Channelled, TypeOK
  <2> QED
    BY <1>2, <2>1 DEF Unused, Handed
<1>3. CASE ~HasChannels
  <2>1. queued = {} /\ at[w] \in Resting
    BY <1>3 DEF Inv, Signalled
  <2>2. fn => Stage = "signal"
    BY <1>3 DEF Inv, Signalled, Shared
  <2>3. fn => tiles # -1
    BY <2>2 DEF Stage
  <2>4. fn => seen[w] = phase
    BY <1>3, <2>3 DEF Inv, Signalled, Locked
  <2> QED
    BY <1>3, <2>1, <2>4 DEF Handed, Resting
<1> QED
  BY <1>2, <1>3

(* What the pool is between runs.                                          *)
LEMMA BetweenRuns ==
  ASSUME Inv, tiles = -1
  PROVE  /\ Stage = "none" /\ ~Shared /\ Caller = NoOne /\ Busy = {}
         /\ sent = 0 /\ got = 0 /\ ~failed /\ ran = {} /\ ~tail /\ ~fn
         /\ \A w \in Workers : ~Handed(w)
         /\ HasChannels => \A w \in Workers : Unused(w)
         /\ ~HasChannels => queued = {} /\ \A w \in Workers : at[w] \in Resting
         /\ \A c \in Callers : pc[c] \notin Inside
<1>1. Stage = "none" /\ ~Shared /\ Caller = NoOne
  BY DEF Stage, Shared, Caller
<1>2. sent = 0 /\ got = 0 /\ ~failed /\ ran = {} /\ ~tail
  BY DEF Inv, Locked
<1>3. \A w \in Workers : ~Handed(w)
  BY <1>1, <1>2, NoneHanded
<1>4. Busy = {}
  BY <1>3, NoneBusy
<1>5. ~fn
  BY <1>1 DEF Inv, Channelled, Signalled, TypeOK
<1>6. HasChannels => \A w \in Workers : Unused(w)
  <2>1. \A w \in Workers : w \in Nat
    BY PoolAssumption DEF Workers, Inv, TypeOK
  <2> QED
    BY <1>2, <2>1 DEF Inv, Channelled
<1>7. ~HasChannels => queued = {} /\ \A w \in Workers : at[w] \in Resting
  BY <1>1 DEF Inv, Signalled
<1>8. \A c \in Callers : pc[c] \notin Inside
  BY DEF Inv, Locked
<1> QED
  BY <1>1, <1>2, <1>3, <1>4, <1>5, <1>6, <1>7, <1>8

(* runMu is free between runs only.                                        *)
LEMMA FreeBetween ==
  ASSUME Inv, mutex = NoOne
  PROVE  tiles = -1
BY PoolAssumption DEF Inv, Locked

(* The tiles of a run.                                                     *)
LEMMA WantWithin ==
  Want \subseteq 0..MaxTiles
BY PoolAssumption DEF Want, Between, Tail

(* A run begins.                                                           *)
LEMMA AdmitKeeps ==
  ASSUME Inv, NEW c \in Callers, Admit(c)
  PROVE  Kept
<1>0. PICK t \in 0..MaxTiles, b \in BOOLEAN, f \in BOOLEAN :
        /\ b => kind = "gemm"
        /\ tiles' = t /\ tail' = b /\ wave' = f
        /\ Goto(c, IF kind = "gemm" /\ Lesser(n, t) <= 1 THEN "own" ELSE "send")
  BY DEF Admit
<1>1. /\ pc[c] = "run" /\ mutex = NoOne /\ ~closed /\ mutex' = c
      /\ tiles' = t /\ tail' \in BOOLEAN /\ wave' \in BOOLEAN /\ (tail' => kind = "gemm")
      /\ pc' = [pc EXCEPT ![c] =
                  IF kind = "gemm" /\ Lesser(n, t) <= 1 THEN "own" ELSE "send"]
      /\ UNCHANGED <<kind, n, sent, got, failed, ran, at, queued, ready, fn, phase, done, seen,
                     closed, closing, answer>>
  BY <1>0 DEF Admit, Goto, pool, progress, channels, signal
<1>2. tiles = -1
  BY <1>1, FreeBetween
<1>3. /\ Stage = "none" /\ ~Shared /\ Caller = NoOne /\ Busy = {}
      /\ sent = 0 /\ got = 0 /\ ~failed /\ ran = {} /\ ~tail /\ ~fn
      /\ \A w \in Workers : ~Handed(w)
      /\ HasChannels => \A w \in Workers : Unused(w)
      /\ ~HasChannels => queued = {} /\ \A w \in Workers : at[w] \in Resting
      /\ \A d \in Callers : pc[d] \notin Inside
  BY <1>2, BetweenRuns
<1> DEFINE s == IF kind = "gemm" /\ Lesser(n, t) <= 1 THEN "own" ELSE "send"
<1>4. s \in {"own", "send"} /\ s \in Inside /\ (s = "own" => kind = "gemm")
      /\ (s = "own" => Lesser(n, t) <= 1)
      /\ (kind = "gemm" /\ s = "send" => ~(Lesser(n, t) <= 1))
  BY DEF Inside
<1>5. pc' = [pc EXCEPT ![c] = s]
  BY <1>1
<1> HIDE DEF s
<1>6. pc' \in [Callers -> Outside \cup Inside] /\ pc'[c] = s
      /\ \A d \in Callers : d # c => pc'[d] \notin Inside
  BY <1>3, <1>4, <1>5 DEF Inv, TypeOK
<1>7. tiles' # -1 /\ tiles' \in -1..MaxTiles /\ t \in Nat
  BY <1>1 DEF Inv, TypeOK
<1>8. Stage' = s /\ ~Shared'
  BY <1>1, <1>4, <1>6, <1>7 DEF Stage, Shared
<1>9. Workers' = Workers /\ HasChannels' = HasChannels
      /\ n \in Nat /\ n > 0
  BY <1>1, PoolAssumption DEF Workers, HasChannels, Inv, TypeOK
<1>10. TypeOK'
  BY <1>1, <1>6, <1>7, <1>9 DEF Inv, TypeOK
<1>11. Locked'
  BY <1>1, <1>3, <1>4, <1>6, <1>7, <1>8 DEF Locked
<1>12. Leaving'
  BY <1>1, <1>9 DEF Inv, Leaving
<1>13. \A w \in Workers : (Unused(w)' <=> Unused(w)) /\ (Handed(w)' <=> Handed(w))
  BY <1>1, <1>9 DEF Unused, Handed
<1>14. Channelled'
  <2>1. \A w \in Workers : ~(0 <= w /\ w < 0)
    BY <1>9 DEF Workers
  <2> QED
    BY <1>1, <1>3, <1>9, <1>13, <2>1 DEF Channelled
<1>15. Signalled'
  <2> SUFFICES ASSUME ~HasChannels PROVE Signalled'
    BY <1>9 DEF Signalled
  <2>1. kind # "gemm"
    BY DEF HasChannels
  <2>2. Stage' = "send"
    BY <1>4, <1>8, <2>1
  <2>3. \A w \in Workers : seen[w] = phase
    BY <1>1, <1>3 DEF Inv, Signalled
  <2> QED
    BY <1>1, <1>3, <1>8, <1>9, <2>2, <2>3 DEF Signalled
<1>16. Jobs' = IF kind = "gemm" THEN Lesser(n, t) ELSE n
  BY <1>1 DEF Jobs
<1>17. Results'
  <2>1. Completed' = {}
    <3>1. \A w \in Workers : ~Finished(w)'
      <4>1. \A w \in Workers : ~(w < 0)
        BY <1>9 DEF Workers
      <4> QED
        BY <1>1, <1>3, <1>8, <1>9, <4>1 DEF Finished, Issued
    <3> QED
      BY <1>9, <3>1 DEF Completed
  <2>2. s = "send" => Jobs' >= 1 /\ (kind' = "gemm" => Jobs' > 1)
    BY <1>1, <1>4, <1>7, <1>9, <1>16 DEF Lesser
  <2>3. s = "own" => Jobs' <= 1
    BY <1>4, <1>16
  <2>4. s = "send" => Jobs' \in Nat
    BY <1>7, <1>9, <1>16 DEF Lesser
  <2> QED
    BY <1>1, <1>3, <1>4, <1>8, <2>1, <2>2, <2>3, <2>4 DEF Results
<1>18. [Promise!Next]_(Promise!vars)
  <2>1. Busy' = Busy
    <3>1. Busy' = {}
      BY <1>3, <1>9, <1>13 DEF Busy
    <3> QED
      BY <1>3, <3>1
  <2>2. Want' \subseteq 0..MaxTiles
    BY PoolAssumption DEF Want, Between, Tail
  <2>3. Caller' = c /\ Alive' = Alive
    BY <1>1, <1>7 DEF Caller, Alive
  <2> QED
    BY <1>1, <1>3, <2>1, <2>2, <2>3, Begins
<1> QED
  BY <1>10, <1>11, <1>12, <1>14, <1>15, <1>17, <1>18 DEF Inv, Kept

(* The pool is closed, and the workers are told.                           *)
LEMMA ShutKeeps ==
  ASSUME Inv, NEW c \in Callers, Shut(c)
  PROVE  Kept
<1>1. /\ pc[c] \in {"close", "shut"} /\ mutex = NoOne /\ ~closed /\ mutex' = c /\ closed' = TRUE
      /\ pc' = [pc EXCEPT ![c] = "join"]
      /\ IF kind = "cond"
         THEN fn' = FALSE /\ phase' = phase + 1 /\ at' = WakeWorkers(at)
         ELSE UNCHANGED <<fn, phase, at>>
      /\ UNCHANGED <<kind, n, tiles, tail, wave, sent, got, failed, ran, queued, ready, done, seen,
                     closing, answer>>
  BY DEF Shut, Goto, pool, progress, channels, job
<1>2. tiles = -1 /\ tiles' = -1
  BY <1>1, FreeBetween
<1>3. /\ Stage = "none" /\ ~Shared /\ Caller = NoOne /\ Busy = {}
      /\ sent = 0 /\ got = 0 /\ ~failed /\ ran = {} /\ ~tail /\ ~fn
      /\ \A w \in Workers : ~Handed(w)
      /\ HasChannels => \A w \in Workers : Unused(w)
      /\ ~HasChannels => queued = {} /\ \A w \in Workers : at[w] \in Resting
      /\ \A d \in Callers : pc[d] \notin Inside
  BY <1>2, BetweenRuns
<1>4. /\ Workers' = Workers /\ HasChannels' = HasChannels /\ Stage' = "none" /\ ~Shared'
      /\ Caller' = NoOne /\ ~fn' /\ fn' \in BOOLEAN /\ phase' \in Nat
  <2>1. /\ Workers' = Workers /\ HasChannels' = HasChannels /\ Stage' = "none" /\ ~Shared'
        /\ Caller' = NoOne
    BY <1>1, <1>2 DEF Workers, HasChannels, Stage, Shared, Caller
  <2>2. ~fn' /\ fn' \in BOOLEAN
    BY <1>1, <1>3 DEF Inv, TypeOK
  <2>3. phase' \in Nat
    <3>1. CASE kind = "cond"
      BY <1>1, <3>1 DEF Inv, TypeOK
    <3>2. CASE kind # "cond"
      BY <1>1, <3>2 DEF Inv, TypeOK
    <3> QED
      BY <3>1, <3>2
  <2> QED
    BY <2>1, <2>2, <2>3
<1>5. /\ at' \in [AllWorkers -> Working \cup Resting \cup {"fetch", "report"}]
      /\ \A w \in AllWorkers : /\ at'[w] = "gone" <=> at[w] = "gone"
                               /\ at[w] \in Resting => at'[w] \in Resting
  <2>1. CASE kind = "cond"
    BY <1>1, <2>1 DEF WakeWorkers, Inv, TypeOK, Resting
  <2>2. CASE kind # "cond"
    BY <1>1, <2>2 DEF Inv, TypeOK
  <2> QED
    BY <2>1, <2>2
<1>6. Workers \subseteq AllWorkers
  BY DEF Workers, AllWorkers, Inv, TypeOK
<1>7. pc' \in [Callers -> Outside \cup Inside] /\ \A d \in Callers : pc'[d] \notin Inside
  BY <1>1, <1>3 DEF Inv, TypeOK, Outside, Inside
<1>8. TypeOK'
  BY <1>1, <1>4, <1>5, <1>7 DEF Inv, TypeOK
<1>9. Locked'
  BY <1>1, <1>2, <1>3, <1>4, <1>7 DEF Locked
<1>10. Leaving'
  BY <1>1, <1>4, <1>5, <1>6, PoolAssumption DEF Inv, Leaving
<1>11. Channelled'
  <2> SUFFICES ASSUME HasChannels PROVE Channelled'
    BY <1>4 DEF Channelled
  <2>1. at' = at
    BY <1>1 DEF HasChannels
  <2>2. \A w \in Workers : (Awaited(w)' <=> Awaited(w)) /\ (Unused(w)' <=> Unused(w))
    BY <1>1, <2>1 DEF Unused, Awaited
  <2> QED
    BY <1>1, <1>4, <2>2 DEF Channelled, Inv
<1>12. Signalled'
  <2> SUFFICES ASSUME ~HasChannels PROVE Signalled'
    BY <1>4 DEF Signalled
  <2>1. \A w \in Workers : kind = "spin" => seen[w] = phase'
    BY <1>1, <1>3 DEF Inv, Signalled
  <2>2. \A w \in Workers : at'[w] \in Resting
    BY <1>3, <1>5, <1>6
  <2> QED
    BY <1>1, <1>3, <1>4, <2>1, <2>2 DEF Signalled
<1>13. Results'
  BY <1>4 DEF Results, Inside
<1>14. Busy' = {}
  <2>1. \A w \in Workers : ~Handed(w)'
    <3>1. CASE HasChannels
      <4>1. at' = at
        BY <1>1, <3>1 DEF HasChannels
      <4> QED
        BY <1>1, <1>3, <1>4, <4>1 DEF Handed
    <3>2. CASE ~HasChannels
      BY <1>1, <1>3, <1>4, <1>5, <1>6, <3>2 DEF Handed, Resting
    <3> QED
      BY <3>1, <3>2
  <2> QED
    BY <1>4, <2>1 DEF Busy
<1>15. [Promise!Next]_(Promise!vars)
  <2>1. Want' = Want
    BY <1>1 DEF Want, Between, Tail
  <2>2. Alive' = Alive
    BY <1>5 DEF Alive
  <2>3. /\ (closed' \/ closing') /\ closed' \in BOOLEAN
        /\ closed' # closed => Caller = NoOne /\ closed'
        /\ UNCHANGED <<Caller, Want, Busy, ran, Alive, answer>>
    BY <1>1, <1>3, <1>4, <1>14, <2>1, <2>2
  <2> QED
    BY <1>1, <2>3, Stops
<1> QED
  BY <1>8, <1>9, <1>10, <1>11, <1>12, <1>13, <1>15 DEF Inv, Kept

-----------------------------------------------------------------------------
(* The caller in a run. *)

(* Who is in a run holds the pool.                                         *)
LEMMA InsideIs ==
  ASSUME Inv, NEW c \in Callers, pc[c] \in Inside
  PROVE  /\ mutex = c /\ tiles # -1 /\ Stage = pc[c] /\ Caller = c /\ Caller # NoOne
         /\ ~closed /\ n \in Nat /\ n > 0 /\ Workers = 0..(n - 1) /\ Jobs \in Nat /\ Jobs <= n
<1>1. mutex = c /\ tiles # -1
  BY DEF Inv, Locked
<1>2. Stage = pc[c] /\ Caller = c /\ Caller # NoOne /\ ~closed
  BY <1>1, PoolAssumption DEF Stage, Caller, Inv, Locked
<1> QED
  BY <1>1, <1>2, Numbers DEF Inv

(* It goes from one point of the run to another.                           *)
LEMMA GoesOn ==
  ASSUME Inv, NEW c \in Callers, pc[c] \in Inside, NEW s \in Inside,
         pc' = [pc EXCEPT ![c] = s], UNCHANGED <<kind, n, mutex, tiles, tail, closed>>,
         s \in {"own", "last"} => kind = "gemm",
         s = "asleep" => kind = "cond",
         s \in {"store", "signal", "clear"} => kind = "spin"
  PROVE  /\ Locked' /\ Stage' = s /\ Caller' = Caller /\ Workers' = Workers
         /\ pc' \in [Callers -> Outside \cup Inside]
<1>1. mutex = c /\ tiles # -1 /\ ~closed
  BY InsideIs
<1>2. pc' \in [Callers -> Outside \cup Inside] /\ pc'[c] = s
  BY DEF Inv, TypeOK
<1>3. Stage' = s /\ Caller' = Caller
  BY <1>1, <1>2 DEF Stage, Caller
<1>4. \A d \in Callers : pc'[d] \in Inside => d = c
  BY <1>1 DEF Inv, Locked, TypeOK
<1>5. tail' => kind' = "gemm"
  BY DEF Inv, Locked
<1>6. Locked'
  BY <1>1, <1>2, <1>3, <1>4, <1>5 DEF Locked
<1>7. Workers' = Workers
  BY DEF Workers
<1> QED
  BY <1>2, <1>3, <1>6, <1>7

(* A worker's tiles are in nobody else's.                                  *)
LEMMA OthersApart ==
  ASSUME Inv, tiles # -1, kind = "gemm" => Jobs >= 1, NEW w \in Workers,
         NEW P, P \subseteq Workers, w \notin P
  PROVE  Share(w) \cap UNION {Share(v) : v \in P} = {}
<1>1. \A v \in P : \A i \in Share(w) : i \notin Share(v)
  BY ShareApart DEF Inv
<1> QED
  BY <1>1

(* A run ends with nothing in hand.                                        *)
LEMMA ReturnKeeps ==
  ASSUME Inv, NEW c \in Callers, pc[c] \in Inside, NEW a \in {"done", "cancelled"}, Return(c, a),
         a = "done" => ran = Want,
         \A w \in Workers : ~Handed(w),
         HasChannels => got = sent,
         ~HasChannels => ~fn' /\ \A w \in Workers : seen[w] = phase /\ at[w] \in Resting,
         fn' \in BOOLEAN, HasChannels => fn' = fn,
         UNCHANGED <<kind, n, at, queued, ready, phase, done, seen>>
  PROVE  Kept
<1>1. /\ pc' = [pc EXCEPT ![c] = "out"] /\ answer' = [answer EXCEPT ![c] = a]
      /\ mutex' = NoOne /\ tiles' = -1 /\ tail' = FALSE /\ wave' = FALSE
      /\ sent' = 0 /\ got' = 0 /\ failed' = FALSE /\ ran' = {}
      /\ closing' = closing /\ closed' = closed
  BY DEF Return, Answer, Goto
<1>2. /\ mutex = c /\ tiles # -1 /\ Caller = c /\ Caller # NoOne /\ ~closed
      /\ n \in Nat /\ n > 0 /\ Workers = 0..(n - 1)
  BY InsideIs
<1>3. /\ Stage' = "none" /\ Caller' = NoOne /\ Workers' = Workers
      /\ HasChannels' = HasChannels /\ ~Shared'
  BY <1>1 DEF Stage, Caller, Workers, HasChannels, Shared
<1>4. "out" \in Outside /\ "out" \notin Inside
  BY DEF Outside, Inside
<1>5. pc' \in [Callers -> Outside \cup Inside] /\ \A d \in Callers : pc'[d] \notin Inside
  BY <1>1, <1>2, <1>4 DEF Inv, TypeOK, Locked
<1>6. TypeOK'
  <2>1. closing' \in BOOLEAN /\ closed' \in BOOLEAN /\ tail' \in BOOLEAN /\ wave' \in BOOLEAN
        /\ failed' \in BOOLEAN
    BY <1>1 DEF Inv, TypeOK
  <2>2. mutex' \in Callers \cup {NoOne} /\ tiles' \in -1..MaxTiles /\ sent' \in Nat /\ got' \in Nat
    BY <1>1, PoolAssumption
  <2> QED
    BY <1>3, <1>5, <2>1, <2>2 DEF Inv, TypeOK
<1>7. Locked'
  BY <1>1, <1>3, <1>5 DEF Locked
<1>8. Leaving'
  BY <1>1, <1>2, <1>3 DEF Inv, Leaving
<1>9. Channelled'
  <2> SUFFICES ASSUME HasChannels PROVE Channelled'
    BY <1>3 DEF Channelled
  <2>1. \A w \in Workers : Unused(w)
    <3>1. \A w \in Workers : ~(got <= w /\ w < sent)
      BY <1>2 DEF Inv, TypeOK
    <3> QED
      BY <3>1 DEF Inv, Channelled
  <2>2. \A w \in Workers : Unused(w)'
    BY <2>1 DEF Unused
  <2>3. \A w \in Workers : ~(0 <= w /\ w < 0)
    BY <1>2
  <2>4. ~fn'
    BY DEF Inv, Channelled
  <2> QED
    BY <1>1, <1>2, <1>3, <2>2, <2>3, <2>4 DEF Channelled
<1>10. Signalled'
  <2> SUFFICES ASSUME ~HasChannels PROVE Signalled'
    BY <1>3 DEF Signalled
  <2>1. queued = {}
    BY DEF Inv, Signalled
  <2> QED
    BY <1>3, <2>1 DEF Signalled
<1>11. Results'
  BY <1>3 DEF Results, Inside
<1>12. Busy = {} /\ Busy' = {}
  <2>1. \A w \in Workers : ~Handed(w)'
    BY <1>3 DEF Handed
  <2> QED
    BY <1>3, <2>1 DEF Busy
<1>13. Want' = {}
  <2>1. Between(0, tiles)' = {}
    <3>1. \A i \in 0..(MaxTiles - 1) : ~(0 <= i /\ i < -1)
      BY PoolAssumption
    <3> QED
      BY <1>1, <3>1 DEF Between
  <2> QED
    BY <1>1, <2>1 DEF Want
<1>14. Alive' = Alive
  BY DEF Alive
<1>15. [Promise!Next]_(Promise!vars)
  BY <1>1, <1>2, <1>3, <1>12, <1>13, <1>14, Returns
<1> QED
  BY <1>6, <1>7, <1>8, <1>9, <1>10, <1>11, <1>15 DEF Inv, Kept

-----------------------------------------------------------------------------
(* The caller on channels. *)

(* A job goes into a worker's channel.                                     *)
LEMMA SubmitKeeps ==
  ASSUME Inv, NEW c \in Callers, Submit(c)
  PROVE  Kept
<1>1. /\ HasChannels /\ pc[c] = "send" /\ sent < Jobs /\ sent \notin queued
      /\ queued' = queued \cup {sent} /\ sent' = sent + 1
      /\ UNCHANGED <<kind, n, pc, answer, mutex, closing, closed, tiles, tail, wave, got, failed,
                     ran, at, ready, fn, phase, done, seen>>
  BY DEF Submit, pool, callers, locks, job, signal
<1>2. "send" \in Inside
  BY DEF Inside
<1>3. /\ mutex = c /\ tiles # -1 /\ Stage = "send" /\ Caller = c /\ Caller # NoOne /\ ~closed
      /\ n \in Nat /\ n > 0 /\ Workers = 0..(n - 1) /\ Jobs \in Nat /\ Jobs <= n
  BY <1>1, <1>2, InsideIs
<1>0. PICK k : k = sent
  OBVIOUS
<1>4. k \in Workers /\ sent \in Nat /\ got \in Nat /\ got <= sent
  BY <1>0, <1>1, <1>3 DEF Inv, TypeOK, Channelled
<1>5. /\ Stage' = Stage /\ Caller' = Caller /\ Workers' = Workers /\ HasChannels' = HasChannels
      /\ Jobs' = Jobs /\ (Shared' <=> Shared)
  BY <1>0, <1>1 DEF Stage, Caller, Workers, HasChannels, Jobs, Lesser, Shared
<1>6. TypeOK'
  <2>1. sent' \in Nat /\ queued' \subseteq Workers'
    BY <1>0, <1>1, <1>4, <1>5 DEF Inv, TypeOK
  <2> QED
    BY <1>0, <1>1, <1>5, <2>1 DEF Inv, TypeOK
<1>7. Locked'
  BY <1>0, <1>1, <1>3, <1>5 DEF Inv, Locked
<1>8. Leaving'
  BY <1>0, <1>1, <1>5 DEF Inv, Leaving
<1>9. Unused(k) /\ at[k] = "idle" /\ ~Handed(k)
  <2>1. Unused(k)
    BY <1>0, <1>1, <1>4 DEF Inv, Channelled
  <2>2. at[k] = "idle"
    BY <1>3, <1>4, <2>1 DEF Inv, Leaving, Unused
  <2> QED
    BY <1>0, <1>1, <2>1, <2>2 DEF Handed, Unused
<1>10. Channelled'
  <2>1. Awaited(k)'
    BY <1>0, <1>1, <1>9 DEF Awaited, Unused
  <2>2. \A w \in Workers \ {k} : (Awaited(w)' <=> Awaited(w)) /\ (Unused(w)' <=> Unused(w))
    BY <1>0, <1>1 DEF Awaited, Unused
  <2>3. \A w \in Workers \ {k} : (w < sent' <=> w < sent)
    BY <1>0, <1>1, <1>3, <1>4
  <2>4. got' <= sent' /\ sent' <= n' /\ ~fn' /\ got' <= sent /\ sent < sent'
    BY <1>0, <1>1, <1>3, <1>4 DEF Inv, Channelled
  <2>5. \A w \in Workers : IF got' <= w /\ w < sent' THEN Awaited(w)' ELSE Unused(w)'
    BY <1>0, <1>1, <2>1, <2>2, <2>3, <2>4 DEF Inv, Channelled
  <2> QED
    BY <1>5, <2>4, <2>5 DEF Channelled
<1>11. Signalled'
  BY <1>0, <1>1, <1>5 DEF Signalled
<1>12. Handed(k)' /\ \A w \in Workers \ {k} : Handed(w)' <=> Handed(w)
  BY <1>0, <1>1, <1>5 DEF Handed
<1>13. \A w \in Workers : Finished(w)' <=> Finished(w)
  <2>1. ~Finished(k) /\ ~Finished(k)'
    BY <1>0, <1>1, <1>4, <1>12 DEF Finished, Issued
  <2>2. \A w \in Workers \ {k} : w < sent' <=> w < sent
    BY <1>0, <1>1, <1>3, <1>4
  <2>3. ASSUME NEW w \in Workers \ {k} PROVE Finished(w)' <=> Finished(w)
    BY <1>5, <1>12, <2>2, <2>3 DEF Finished, Issued
  <2> QED
    BY <2>1, <2>3
<1>14. Completed' = Completed
  BY <1>0, <1>1, <1>13, CompletedKept
<1>15. ran = Completed /\ Jobs >= 1 /\ (kind = "gemm" => Jobs > 1)
  BY <1>0, <1>1, <1>2, <1>3 DEF Inv, Results
<1>16. Results'
  <2>1. sent' <= Jobs' /\ Jobs' >= 1 /\ (kind' = "gemm" => Jobs' > 1)
    BY <1>0, <1>1, <1>3, <1>4, <1>5, <1>15
  <2> QED
    BY <1>0, <1>1, <1>3, <1>5, <1>14, <1>15, <2>1 DEF Results
<1>17. Busy' = Busy \cup Share(k)
  <2>1. \A w : Share(w)' = Share(w)
    BY <1>0, <1>1, SplitKept
  <2> QED
    BY <1>4, <1>5, <1>12, <2>1 DEF Busy
<1>18. Share(k) \subseteq Want \ (Busy \cup ran)
  <2>1. Share(k) \subseteq Want
    BY <1>4, ShareWithin DEF Inv, Want
  <2>2. Share(k) \cap Busy = {}
    <3> DEFINE P == {w \in Workers : Handed(w)}
    <3>1. P \subseteq Workers /\ k \notin P /\ Busy = UNION {Share(w) : w \in P}
      BY <1>9 DEF Busy
    <3> HIDE DEF P
    <3> QED
      BY <1>3, <1>4, <1>15, <3>1, OthersApart
  <2>3. Share(k) \cap ran = {}
    <3> DEFINE P == {w \in Workers : Finished(w)}
    <3>1. ~Finished(k)
      BY <1>0, <1>1, <1>4 DEF Finished, Issued
    <3>2. P \subseteq Workers /\ k \notin P /\ ran = UNION {Share(w) : w \in P}
      BY <1>15, <3>1 DEF Completed
    <3> HIDE DEF P
    <3> QED
      BY <1>3, <1>4, <1>15, <3>2, OthersApart
  <2> QED
    BY <2>1, <2>2, <2>3
<1>19. [Promise!Next]_(Promise!vars)
  <2>1. Want' = Want /\ Alive' = Alive
    BY <1>0, <1>1 DEF Want, Between, Tail, Alive
  <2>2. Share(k) \subseteq 0..MaxTiles
    BY <1>18, WantWithin
  <2> QED
    BY <1>0, <1>1, <1>3, <1>5, <1>17, <1>18, <2>1, <2>2, Hands
<1> QED
  BY <1>6, <1>7, <1>8, <1>10, <1>11, <1>16, <1>19 DEF Inv, Kept

(* On channels only the counters, the channels and the workers say what    *)
(* is in hand.                                                             *)
LEMMA ChannelsKept ==
  ASSUME Inv, HasChannels,
         UNCHANGED <<kind, n, tiles, wave, tail, sent, at, queued, fn>>
  PROVE  /\ Busy' = Busy /\ Completed' = Completed /\ Want' = Want /\ Alive' = Alive
         /\ HasChannels' = HasChannels /\ Workers' = Workers /\ Jobs' = Jobs
         /\ \A w : Share(w)' = Share(w)
         /\ Between(0, tiles)' = Between(0, tiles)
         /\ \A w \in Workers : Handed(w)' <=> Handed(w)
<1>1. /\ Workers' = Workers /\ Jobs' = Jobs /\ HasChannels' = HasChannels
      /\ Between(0, tiles)' = Between(0, tiles)
      /\ \A w : Share(w)' = Share(w)
  BY SplitKept
<1>2. \A w \in Workers : Handed(w)' <=> Handed(w)
  BY <1>1 DEF Handed
<1>3. \A w \in Workers : Finished(w)' <=> Finished(w)
  BY <1>1, <1>2 DEF Finished, Issued
<1>4. Busy' = Busy /\ Completed' = Completed
  BY <1>2, <1>3, BusyKept, CompletedKept
<1>5. Want' = Want /\ Alive' = Alive
  BY <1>1 DEF Want, Tail, Alive
<1> QED
  BY <1>1, <1>2, <1>4, <1>5

(* The jobs submitted cover the run, or the run has failed.                *)
LEMMA SubmittedKeeps ==
  ASSUME Inv, NEW c \in Callers, Submitted(c)
  PROVE  Kept
<1>1. /\ HasChannels /\ pc[c] = "send" /\ pc' = [pc EXCEPT ![c] = "await"]
      /\ \/ sent = Jobs /\ failed' = failed
         \/ failed' = TRUE
         \/ kind = "gemm" /\ sent < Jobs /\ Share(sent) = {} /\ failed' = failed
      /\ UNCHANGED <<kind, n, answer, mutex, closing, closed, tiles, tail, wave, sent, got,
                     ran, at, queued, ready, fn, phase, done, seen>>
  BY DEF Submitted, Goto, pool, channels, locks, job, signal
<1>2. "send" \in Inside /\ "await" \in Inside
  BY DEF Inside
<1>3. /\ mutex = c /\ tiles # -1 /\ Stage = "send" /\ Jobs \in Nat
  BY <1>1, <1>2, InsideIs
<1>4. /\ Locked' /\ Stage' = "await" /\ Caller' = Caller /\ Workers' = Workers
      /\ pc' \in [Callers -> Outside \cup Inside]
  BY <1>1, <1>2, GoesOn
<1>5. /\ Busy' = Busy /\ Completed' = Completed /\ Want' = Want /\ Alive' = Alive
      /\ HasChannels' = HasChannels /\ Jobs' = Jobs
      /\ \A w : Share(w)' = Share(w)
      /\ Between(0, tiles)' = Between(0, tiles)
  BY <1>1, ChannelsKept
<1>6. TypeOK'
  <2>1. failed' \in BOOLEAN
    BY <1>1 DEF Inv, TypeOK
  <2> QED
    BY <1>1, <1>4, <2>1 DEF Inv, TypeOK
<1>7. Leaving'
  BY <1>1, <1>4 DEF Inv, Leaving
<1>8. Channelled'
  BY <1>1, <1>4, <1>5 DEF Inv, Channelled, Awaited, Unused
<1>9. Signalled'
  BY <1>1, <1>5 DEF Signalled
<1>10. ran = Completed /\ Jobs >= 1 /\ sent <= Jobs /\ (kind = "gemm" => Jobs > 1)
  BY <1>1, <1>2, <1>3 DEF Inv, Results
<1>11. ~failed' => Covered
  <2> SUFFICES ASSUME ~failed', NEW i \in Between(0, tiles)
               PROVE  \E w \in 0..(sent - 1) : i \in Share(w)
    BY DEF Covered
  <2>1. CASE sent = Jobs
    BY <1>3, <1>10, <2>1, ShareCovers DEF Inv
  <2>2. CASE kind = "gemm" /\ sent < Jobs /\ Share(sent) = {}
    <3>1. sent \in Nat
      BY DEF Inv, TypeOK
    <3> QED
      BY <1>3, <1>10, <2>2, <3>1, ShareEnds DEF Inv
  <2> QED
    BY <1>1, <2>1, <2>2
<1>12. Results'
  <2>1. ~failed' => Covered'
    BY <1>1, <1>5, <1>11 DEF Covered
  <2> QED
    BY <1>1, <1>4, <1>5, <1>10, <2>1 DEF Results
<1>13. [Promise!Next]_(Promise!vars)
  BY <1>1, <1>4, <1>5, Stutters
<1> QED
  BY <1>4, <1>6, <1>7, <1>8, <1>9, <1>12, <1>13 DEF Inv, Kept

(* A worker's token is received.                                           *)
LEMMA CollectKeeps ==
  ASSUME Inv, NEW c \in Callers, Collect(c)
  PROVE  Kept
<1>1. /\ HasChannels /\ pc[c] = "await" /\ got < sent /\ got \in ready
      /\ ready' = ready \ {got} /\ got' = got + 1 /\ failed' \in BOOLEAN /\ (failed => failed')
      /\ UNCHANGED <<kind, n, pc, answer, mutex, closing, closed, tiles, tail, wave, sent,
                     ran, at, queued, fn, phase, done, seen>>
  BY DEF Collect, pool, callers, locks, job, signal
<1>2. "await" \in Inside
  BY DEF Inside
<1>3. /\ mutex = c /\ tiles # -1 /\ Stage = "await" /\ n \in Nat /\ Workers = 0..(n - 1)
  BY <1>1, <1>2, InsideIs
<1>4. /\ Busy' = Busy /\ Completed' = Completed /\ Want' = Want /\ Alive' = Alive
      /\ HasChannels' = HasChannels /\ Workers' = Workers /\ Jobs' = Jobs
      /\ \A w : Share(w)' = Share(w)
      /\ Between(0, tiles)' = Between(0, tiles)
  BY <1>1, ChannelsKept
<1>5. Stage' = Stage /\ Caller' = Caller
  BY <1>1 DEF Stage, Caller
<1>6. got \in Nat /\ sent \in Nat /\ sent <= n /\ got \in Workers /\ ~fn
  BY <1>1, <1>3 DEF Inv, TypeOK, Channelled
<1>7. TypeOK'
  <2>1. got' \in Nat /\ ready' \subseteq Workers'
    BY <1>1, <1>4, <1>6 DEF Inv, TypeOK
  <2> QED
    BY <1>1, <1>4, <2>1 DEF Inv, TypeOK
<1>8. Locked'
  BY <1>1, <1>3, <1>5 DEF Inv, Locked
<1>9. Leaving'
  BY <1>1, <1>4 DEF Inv, Leaving
<1>0. PICK k : k = got
  OBVIOUS
<1>10. Channelled'
  <2>1. Awaited(k)
    BY <1>0, <1>1, <1>6 DEF Inv, Channelled
  <2>2. Unused(k)'
    BY <1>0, <1>1, <2>1 DEF Awaited, Unused
  <2>3. \A w \in Workers \ {k} : (Awaited(w)' <=> Awaited(w)) /\ (Unused(w)' <=> Unused(w))
    BY <1>0, <1>1 DEF Awaited, Unused
  <2>4. \A w \in Workers \ {k} : (got' <= w <=> got <= w)
    BY <1>0, <1>1, <1>3, <1>6
  <2>5. got' <= sent' /\ sent' <= n' /\ ~fn' /\ ~(got' <= k) /\ k < sent
    BY <1>0, <1>1, <1>6
  <2>6. \A w \in Workers : IF got' <= w /\ w < sent' THEN Awaited(w)' ELSE Unused(w)'
    BY <1>0, <1>1, <2>2, <2>3, <2>4, <2>5 DEF Inv, Channelled
  <2> QED
    BY <1>4, <2>5, <2>6 DEF Channelled
<1>11. Signalled'
  BY <1>1, <1>4 DEF Signalled
<1>12. Results'
  <2>1. /\ ran = Completed /\ Jobs >= 1 /\ sent <= Jobs /\ (kind = "gemm" => Jobs > 1)
        /\ (~failed => Covered)
    BY <1>1, <1>2, <1>3 DEF Inv, Results
  <2>2. ~failed' => Covered'
    BY <1>1, <1>4, <2>1 DEF Covered
  <2> QED
    BY <1>1, <1>3, <1>4, <1>5, <2>1, <2>2 DEF Results
<1>13. [Promise!Next]_(Promise!vars)
  BY <1>1, <1>4, <1>5, Stutters
<1> QED
  BY <1>7, <1>8, <1>9, <1>10, <1>11, <1>12, <1>13 DEF Inv, Kept

(* With every token in, and no failure, all the tiles were worked on.      *)
LEMMA AllRan ==
  ASSUME Inv, HasChannels, Stage = "await", got = sent, ~failed
  PROVE  ran = Between(0, tiles)
<1>1. tiles # -1 /\ "await" \in Inside
  BY DEF Stage, Inside
<1>2. /\ n \in Nat /\ Workers = 0..(n - 1)
  BY <1>1, Numbers DEF Inv
<1>3. sent \in Nat /\ sent <= n
  BY DEF Inv, TypeOK, Channelled
<1>4. ran = Completed /\ Covered
  BY <1>1 DEF Inv, Results
<1>5. \A w \in Workers : ~Handed(w)
  BY NoneHanded
<1>6. \A w \in 0..(sent - 1) : w \in Workers /\ Finished(w)
  BY <1>2, <1>3, <1>5 DEF Finished, Issued
<1>7. \A w \in Workers : Share(w) \subseteq Between(0, tiles)
  BY ShareWithin DEF Inv
<1> QED
  BY <1>4, <1>6, <1>7 DEF Covered, Completed

(* The last token is in: the caller goes on to its own part, or returns.   *)
LEMMA CollectedKeeps ==
  ASSUME Inv, NEW c \in Callers, Collected(c)
  PROVE  Kept
<1>1. /\ HasChannels /\ pc[c] = "await" /\ got = sent
      /\ \/ /\ ~failed /\ tail /\ Goto(c, "own")
            /\ UNCHANGED <<answer, calls, expired, locks, job, progress, ran>>
         \/ /\ failed \/ ~tail
            /\ Return(c, IF failed THEN "cancelled" ELSE "done")
      /\ UNCHANGED <<kind, n, at, queued, ready, fn, phase, done, seen>>
  BY DEF Collected, pool, channels, signal
<1>2. "await" \in Inside /\ "own" \in Inside
  BY DEF Inside
<1>3. /\ mutex = c /\ tiles # -1 /\ Stage = "await"
  BY <1>1, <1>2, InsideIs
<1>4. \A w \in Workers : ~Handed(w)
  BY <1>1, NoneHanded
<1>5. CASE /\ ~failed /\ tail /\ Goto(c, "own")
           /\ UNCHANGED <<answer, calls, expired, locks, job, progress, ran>>
  <2>1. /\ pc' = [pc EXCEPT ![c] = "own"] /\ kind = "gemm"
        /\ UNCHANGED <<kind, n, answer, mutex, closing, closed, tiles, tail, wave, sent, got,
                       failed, ran, at, queued, ready, fn, phase, done, seen>>
    BY <1>1, <1>5 DEF Goto, locks, job, progress, Inv, Locked
  <2>2. /\ Locked' /\ Stage' = "own" /\ Caller' = Caller /\ Workers' = Workers
        /\ pc' \in [Callers -> Outside \cup Inside]
    BY <1>1, <1>2, <2>1, GoesOn
  <2>3. /\ Busy' = Busy /\ Want' = Want /\ Alive' = Alive
        /\ HasChannels' = HasChannels /\ Jobs' = Jobs
        /\ Between(0, tiles)' = Between(0, tiles)
    BY <1>1, <2>1, ChannelsKept
  <2>4. TypeOK'
    BY <2>1, <2>2 DEF Inv, TypeOK
  <2>5. Leaving'
    BY <2>1, <2>2 DEF Inv, Leaving
  <2>6. Channelled'
    BY <2>1, <2>2, <2>3 DEF Inv, Channelled, Awaited, Unused
  <2>7. Signalled'
    BY <1>1, <2>3 DEF Signalled
  <2>8. ran = Between(0, tiles)
    BY <1>1, <1>3, <1>5, AllRan
  <2>9. Jobs > 1 /\ Jobs \in Nat
    BY <1>1, <1>3, <2>1, Numbers DEF Inv, Results
  <2>10. Results'
    BY <1>1, <2>1, <2>2, <2>3, <2>8, <2>9 DEF Results
  <2>11. [Promise!Next]_(Promise!vars)
    BY <2>1, <2>2, <2>3, Stutters
  <2> QED
    BY <2>2, <2>4, <2>5, <2>6, <2>7, <2>10, <2>11 DEF Inv, Kept
<1>6. CASE /\ failed \/ ~tail
           /\ Return(c, IF failed THEN "cancelled" ELSE "done")
  <2> DEFINE a == IF failed THEN "cancelled" ELSE "done"
  <2>1. a \in {"done", "cancelled"} /\ Return(c, a)
    BY <1>6
  <2>2. a = "done" => ran = Want
    <3>1. ~failed => ran = Want
      <4>1. ~failed => ~tail
        BY <1>6
      <4> QED
        BY <1>1, <1>3, <4>1, AllRan DEF Want
    <3> QED
      BY <3>1
  <2>3. fn' \in BOOLEAN /\ fn' = fn
    BY <1>1 DEF Inv, TypeOK
  <2> HIDE DEF a
  <2> QED
    BY <1>1, <1>2, <1>4, <2>1, <2>2, <2>3, ReturnKeeps
<1> QED
  BY <1>1, <1>5, <1>6

-----------------------------------------------------------------------------
(* The caller's own part. *)

(* The caller works on the tail, or on everything.                         *)
LEMMA OwnPartKeeps ==
  ASSUME Inv, NEW c \in Callers, OwnPart(c)
  PROVE  Kept
<1>1. /\ pc[c] = "own"
      /\ \/ Return(c, "cancelled")
         \/ /\ ran' = ran \cup Own /\ Goto(c, "last")
            /\ UNCHANGED <<answer, calls, expired, locks, job, progress>>
      /\ UNCHANGED <<kind, n, at, queued, ready, fn, phase, done, seen>>
  BY DEF OwnPart, pool, channels, signal
<1>2. "own" \in Inside /\ "last" \in Inside
  BY DEF Inside
<1>3. /\ mutex = c /\ tiles # -1 /\ Stage = "own" /\ Caller # NoOne /\ Jobs \in Nat
  BY <1>1, <1>2, InsideIs
<1>4. HasChannels /\ kind = "gemm"
  BY <1>3 DEF Inv, Locked, HasChannels
<1>5. got = sent /\ ran = (IF Jobs <= 1 THEN {} ELSE Between(0, tiles))
  BY <1>3 DEF Inv, Results
<1>6. \A w \in Workers : ~Handed(w)
  BY <1>4, <1>5, NoneHanded
<1>7. CASE Return(c, "cancelled")
  <2>1. fn' \in BOOLEAN /\ fn' = fn
    BY <1>1 DEF Inv, TypeOK
  <2> QED
    BY <1>1, <1>2, <1>4, <1>5, <1>6, <1>7, <2>1, ReturnKeeps
<1>8. CASE /\ ran' = ran \cup Own /\ Goto(c, "last")
           /\ UNCHANGED <<answer, calls, expired, locks, job, progress>>
  <2>1. /\ pc' = [pc EXCEPT ![c] = "last"]
        /\ UNCHANGED <<kind, n, answer, mutex, closing, closed, tiles, tail, wave, sent, got,
                       failed, at, queued, ready, fn, phase, done, seen>>
    BY <1>1, <1>8 DEF Goto, locks, job, progress
  <2>2. /\ Locked' /\ Stage' = "last" /\ Caller' = Caller /\ Workers' = Workers
        /\ pc' \in [Callers -> Outside \cup Inside]
    BY <1>1, <1>2, <1>4, <2>1, GoesOn
  <2>3. /\ Busy' = Busy /\ Want' = Want /\ Alive' = Alive
        /\ HasChannels' = HasChannels
    BY <1>4, <2>1, ChannelsKept
  <2>4. TypeOK'
    BY <2>1, <2>2 DEF Inv, TypeOK
  <2>5. Leaving'
    BY <2>1, <2>2 DEF Inv, Leaving
  <2>6. Channelled'
    BY <2>1, <2>2, <2>3 DEF Inv, Channelled, Awaited, Unused
  <2>7. Signalled'
    BY <1>4, <2>3 DEF Signalled
  <2>8. Own \subseteq Want \ ran /\ ran' = Want
    <3>1. Tail \notin Between(0, tiles)
      BY PoolAssumption DEF Tail, Between
    <3> QED
      BY <1>3, <1>5, <1>8, <3>1 DEF Own, Want
  <2>9. Results'
    BY <1>5, <2>1, <2>2, <2>3, <2>8 DEF Results
  <2>10. [Promise!Next]_(Promise!vars)
    <3>1. Busy = {} /\ Own \subseteq 0..MaxTiles
      BY <1>6, <2>8, NoneBusy, WantWithin
    <3> QED
      BY <1>3, <1>8, <2>1, <2>2, <2>3, <2>8, <3>1, Serves
  <2> QED
    BY <2>2, <2>4, <2>5, <2>6, <2>7, <2>9, <2>10 DEF Inv, Kept
<1> QED
  BY <1>1, <1>7, <1>8

(* After its own part the caller returns.                                  *)
LEMMA LastKeeps ==
  ASSUME Inv, NEW c \in Callers, Last(c)
  PROVE  Kept
<1> DEFINE a == IF c \in expired THEN "cancelled" ELSE "done"
<1>1. /\ pc[c] = "last" /\ Return(c, a) /\ a \in {"done", "cancelled"}
      /\ UNCHANGED <<kind, n, at, queued, ready, fn, phase, done, seen>>
  BY DEF Last, pool, channels, signal
<1> HIDE DEF a
<1>2. pc[c] \in Inside
  BY <1>1 DEF Inside
<1>3. Stage = "last"
  BY <1>1, <1>2, InsideIs
<1>4. HasChannels /\ got = sent /\ ran = Want
  BY <1>3 DEF Inv, Locked, HasChannels, Results
<1>5. \A w \in Workers : ~Handed(w)
  BY <1>4, NoneHanded
<1>6. fn' \in BOOLEAN /\ fn' = fn
  BY <1>1 DEF Inv, TypeOK
<1> QED
  BY <1>1, <1>2, <1>4, <1>5, <1>6, ReturnKeeps

-----------------------------------------------------------------------------
(* The caller that signals. *)

(* Until the generation moves every worker has seen it.                    *)
LEMMA BeforeSharing ==
  ASSUME Inv, ~HasChannels, Stage \in {"send", "store", "signal"}
  PROVE  /\ tiles # -1 /\ ~closed /\ ~Shared /\ Busy = {} /\ ran = {} /\ queued = {}
         /\ \A w \in Workers : ~Handed(w) /\ ~Finished(w) /\ seen[w] = phase /\ at[w] \in Resting
<1>1. tiles # -1 /\ ~Shared /\ Stage \in Inside \ {"own", "last"}
  BY DEF Stage, Shared, Inside
<1>2. ~closed
  BY <1>1 DEF Inv, Locked
<1>3. \A w \in Workers : ~Handed(w)
  BY <1>1, NoneHanded
<1>4. Busy = {}
  BY <1>3, NoneBusy
<1>5. \A w \in Workers : ~Finished(w)
  BY <1>1 DEF Finished, Issued
<1>6. ran = {}
  BY <1>1, <1>5 DEF Inv, Results, Completed
<1>7. queued = {} /\ \A w \in Workers : seen[w] = phase /\ at[w] \in Resting
  BY <1>1, <1>2 DEF Inv, Signalled
<1> QED
  BY <1>1, <1>2, <1>3, <1>4, <1>5, <1>6, <1>7

(* The shares of all the workers are the run.                              *)
LEMMA AllShares ==
  ASSUME Inv, ~HasChannels, tiles # -1
  PROVE  /\ UNION {Share(w) : w \in Workers} = Between(0, tiles)
         /\ Want = Between(0, tiles)
<1>1. Jobs = n /\ Jobs >= 1 /\ Workers = 0..(n - 1) /\ ~tail
  BY Numbers DEF Inv, HasChannels, Locked
<1>2. \A i \in Between(0, tiles) : \E w \in Workers : i \in Share(w)
  BY <1>1, ShareCovers DEF Inv
<1>3. \A w \in Workers : Share(w) \subseteq Between(0, tiles)
  BY ShareWithin DEF Inv
<1> QED
  BY <1>1, <1>2, <1>3 DEF Want

(* The caller resets the count, then sets the job.                         *)
LEMMA PrepareKeeps ==
  ASSUME Inv, NEW c \in Callers, pc[c] \in {"send", "store"}, kind = "spin",
         NEW s \in {"store", "signal"}, pc' = [pc EXCEPT ![c] = s],
         fn' = (s = "signal"), done' = 0,
         UNCHANGED <<kind, n, answer, mutex, closing, closed, tiles, tail, wave, sent, got,
                     failed, ran, at, queued, ready, phase, seen>>
  PROVE  Kept
<1>1. pc[c] \in Inside /\ s \in Inside /\ ~HasChannels
  BY DEF Inside, HasChannels
<1>2. tiles # -1 /\ Stage = pc[c]
  BY <1>1, InsideIs
<1>3. /\ ~closed /\ ~Shared /\ Busy = {} /\ ran = {} /\ queued = {}
      /\ \A w \in Workers : seen[w] = phase /\ at[w] \in Resting
  BY <1>1, <1>2, BeforeSharing
<1>4. /\ Locked' /\ Stage' = s /\ Caller' = Caller /\ Workers' = Workers
      /\ pc' \in [Callers -> Outside \cup Inside]
  BY <1>1, GoesOn
<1>5. ~HasChannels' /\ ~Shared'
  BY <1>4 DEF HasChannels, Shared
<1>6. TypeOK'
  <2>1. fn' \in BOOLEAN /\ done' \in Nat
    OBVIOUS
  <2> QED
    BY <1>4, <2>1 DEF Inv, TypeOK
<1>7. Leaving'
  BY <1>4 DEF Inv, Leaving
<1>8. Channelled'
  BY <1>5 DEF Channelled
<1>9. Signalled'
  BY <1>3, <1>4, <1>5 DEF Signalled
<1>10. \A w \in Workers : ~Handed(w)' /\ ~Finished(w)'
  BY <1>3, <1>5 DEF Handed, Finished, Issued, Resting
<1>11. Results'
  <2>1. Completed' = {}
    BY <1>4, <1>10 DEF Completed
  <2> QED
    BY <1>3, <1>4, <1>5, <2>1 DEF Results
<1>12. [Promise!Next]_(Promise!vars)
  <2>1. Busy' = Busy
    BY <1>3, <1>4, <1>10 DEF Busy
  <2>2. Want' = Want /\ Alive' = Alive
    BY DEF Want, Between, Tail, Alive
  <2> QED
    BY <1>4, <2>1, <2>2, Stutters
<1> QED
  BY <1>4, <1>6, <1>7, <1>8, <1>9, <1>11, <1>12 DEF Inv, Kept

(* The generation moves, and every worker has its job.                     *)
LEMMA SharingKeeps ==
  ASSUME Inv, NEW c \in Callers, pc[c] \in {"send", "signal"}, ~HasChannels,
         NEW s \in {"asleep", "await"}, pc' = [pc EXCEPT ![c] = s], s = "asleep" => kind = "cond",
         fn' = TRUE, done' = 0, phase' = phase + 1,
         at' \in [AllWorkers -> Working \cup Resting \cup {"fetch", "report"}],
         \A w \in AllWorkers : /\ at'[w] = "gone" <=> at[w] = "gone"
                               /\ at[w] \in Resting => at'[w] \in Resting,
         UNCHANGED <<kind, n, answer, mutex, closing, closed, tiles, tail, wave, sent, got,
                     failed, ran, queued, ready, seen>>
  PROVE  Kept
<1>1. pc[c] \in Inside /\ s \in Inside
  BY DEF Inside
<1>2. tiles # -1 /\ Stage = pc[c] /\ Caller # NoOne
  BY <1>1, InsideIs
<1>3. /\ ~closed /\ ~Shared /\ Busy = {} /\ ran = {} /\ queued = {}
      /\ \A w \in Workers : seen[w] = phase /\ at[w] \in Resting
  BY <1>1, <1>2, BeforeSharing
<1>4. /\ Locked' /\ Stage' = s /\ Caller' = Caller /\ Workers' = Workers
      /\ pc' \in [Callers -> Outside \cup Inside]
  BY <1>1, GoesOn
<1>5. ~HasChannels' /\ Shared'
  BY <1>4 DEF HasChannels, Shared
<1>6. phase \in Nat /\ Workers \subseteq AllWorkers
  BY DEF Inv, TypeOK, Workers, AllWorkers
<1>7. TypeOK'
  <2>1. fn' \in BOOLEAN /\ done' \in Nat /\ phase' \in Nat
    BY <1>6
  <2> QED
    BY <1>4, <2>1 DEF Inv, TypeOK
<1>8. Leaving'
  BY <1>4, <1>6 DEF Inv, Leaving
<1>9. Channelled'
  BY <1>5 DEF Channelled
<1>10. \A w \in Workers : seen'[w] # phase' /\ at'[w] \in Resting
  BY <1>3, <1>6
<1>11. Reported' = {}
  BY <1>4, <1>10 DEF Reported
<1>12. Signalled'
  <2>1. done' = Cardinality(Reported')
    BY <1>11, FS_EmptySet
  <2> QED
    BY <1>3, <1>4, <1>5, <1>10, <2>1 DEF Signalled
<1>13. \A w \in Workers : Handed(w)' /\ ~Finished(w)'
  BY <1>5, <1>10 DEF Handed, Finished
<1>14. Results'
  <2>1. Completed' = {}
    BY <1>4, <1>13 DEF Completed
  <2> QED
    BY <1>3, <1>4, <1>5, <2>1 DEF Results
<1>15. [Promise!Next]_(Promise!vars)
  <2>1. \A w : Share(w)' = Share(w)
    BY SplitKept
  <2>2. Busy' = UNION {Share(w) : w \in Workers}
    BY <1>4, <1>13, <2>1 DEF Busy
  <2>3. Busy' = Want /\ Want \subseteq 0..MaxTiles
    BY <1>2, <2>2, AllShares, WantWithin
  <2>4. Want' = Want
    BY DEF Want, Between, Tail
  <2>5. Alive' = Alive
    BY DEF Alive
  <2>6. Want \subseteq Want \ (Busy \cup ran) /\ Busy' = Busy \cup Want
    BY <1>3, <2>3
  <2> QED
    BY <1>2, <1>4, <2>3, <2>4, <2>5, <2>6, Hands
<1> QED
  BY <1>4, <1>7, <1>8, <1>9, <1>12, <1>14, <1>15 DEF Inv, Kept

(* The caller waits.                                                       *)
LEMMA WaitingKeeps ==
  ASSUME Inv, NEW c \in Callers, pc[c] \in {"asleep", "await", "clear"}, ~HasChannels,
         NEW s \in {"asleep", "await", "clear"}, pc' = [pc EXCEPT ![c] = s],
         s = "asleep" => kind = "cond", s = "clear" => kind = "spin" /\ done >= n,
         UNCHANGED <<kind, n, answer, mutex, closing, closed, tiles, tail, wave, sent, got,
                     failed, ran, at, queued, ready, fn, phase, done, seen>>
  PROVE  Kept
<1>1. pc[c] \in Inside /\ s \in Inside /\ s \notin {"own", "last", "store", "signal"}
  BY DEF Inside
<1>2. tiles # -1 /\ Stage = pc[c]
  BY <1>1, InsideIs
<1>3. /\ Locked' /\ Stage' = s /\ Caller' = Caller /\ Workers' = Workers
      /\ pc' \in [Callers -> Outside \cup Inside]
  BY <1>1, GoesOn
<1>4. ~HasChannels' /\ Shared /\ Shared'
  BY <1>2, <1>3 DEF HasChannels, Shared
<1>5. \A w \in Workers : (Handed(w)' <=> Handed(w)) /\ (Finished(w)' <=> Finished(w))
  BY <1>4 DEF Handed, Finished, Issued
<1>6. Busy' = Busy /\ Completed' = Completed
  BY <1>5, BusyKept, CompletedKept
<1>7. TypeOK'
  BY <1>3 DEF Inv, TypeOK
<1>8. Leaving'
  BY <1>3 DEF Inv, Leaving
<1>9. Channelled'
  BY <1>4 DEF Channelled
<1>10. Signalled'
  <2>1. Reported' = Reported
    BY <1>3 DEF Reported
  <2> QED
    BY <1>2, <1>3, <1>4, <2>1 DEF Inv, Signalled
<1>11. Results'
  <2>1. ran = Completed
    BY <1>1, <1>2 DEF Inv, Results
  <2> QED
    BY <1>1, <1>3, <1>4, <1>6, <2>1 DEF Results
<1>12. [Promise!Next]_(Promise!vars)
  <2>1. Want' = Want /\ Alive' = Alive
    BY DEF Want, Between, Tail, Alive
  <2> QED
    BY <1>3, <1>6, <2>1, Stutters
<1> QED
  BY <1>3, <1>7, <1>8, <1>9, <1>10, <1>11, <1>12 DEF Inv, Kept

(* When the count is full every worker has come back.                      *)
LEMMA AllReported ==
  ASSUME Inv, ~HasChannels, Shared, done >= n
  PROVE  /\ \A w \in Workers : seen[w] = phase /\ at[w] \in Resting /\ ~Handed(w)
         /\ ran = Want
<1>1. tiles # -1 /\ Stage \in Inside \ {"own", "last"}
  BY DEF Stage, Shared, Inside
<1>2. n \in Nat /\ n > 0 /\ Workers = 0..(n - 1)
  BY <1>1, Numbers DEF Inv
<1>3. IsFiniteSet(Workers) /\ Cardinality(Workers) = n
  BY <1>2, FS_Interval
<1>4. Reported \in SUBSET Workers
  BY DEF Reported
<1>5. Cardinality(Reported) <= n /\ Cardinality(Reported) \in Nat
      /\ (Cardinality(Reported) = n => Reported = Workers)
  BY <1>3, <1>4, FS_Subset, FS_CardinalityType
<1>6. done = Cardinality(Reported) /\ queued = {}
  BY DEF Inv, Signalled
<1>7. Reported = Workers
  BY <1>2, <1>5, <1>6
<1>8. \A w \in Workers : seen[w] = phase /\ at[w] \in Resting
  BY <1>7 DEF Reported
<1>9. \A w \in Workers : ~Handed(w)
  BY <1>6, <1>8 DEF Handed, Resting
<1>10. \A w \in Workers : Finished(w)
  BY <1>9 DEF Finished, Issued
<1>11. ran = UNION {Share(w) : w \in Workers}
  BY <1>1, <1>10 DEF Inv, Results, Completed
<1> QED
  BY <1>1, <1>8, <1>9, <1>11, AllShares

(* The job is set and every worker woken.                                  *)
LEMMA BroadcastKeeps ==
  ASSUME Inv, NEW c \in Callers, Broadcast(c)
  PROVE  Kept
<1>1. /\ kind = "cond" /\ pc[c] = "send" /\ fn' = TRUE /\ done' = 0 /\ phase' = phase + 1
      /\ at' = WakeWorkers(at) /\ pc' = [pc EXCEPT ![c] = "asleep"]
      /\ UNCHANGED <<kind, n, answer, mutex, closing, closed, tiles, tail, wave, sent, got,
                     failed, ran, queued, ready, seen>>
  BY DEF Broadcast, Goto, pool, locks, job, progress, channels
<1>2. /\ at' \in [AllWorkers -> Working \cup Resting \cup {"fetch", "report"}]
      /\ \A w \in AllWorkers : /\ at'[w] = "gone" <=> at[w] = "gone"
                               /\ at[w] \in Resting => at'[w] \in Resting
  BY <1>1 DEF WakeWorkers, Inv, TypeOK, Resting
<1>3. ~HasChannels
  BY <1>1 DEF HasChannels
<1> QED
  BY <1>1, <1>2, <1>3, SharingKeeps

(* The caller of Run wakes: it sleeps again, or returns.                   *)
LEMMA RecheckKeeps ==
  ASSUME Inv, NEW c \in Callers, Recheck(c)
  PROVE  Kept
<1>1. /\ kind = "cond" /\ pc[c] = "await"
      /\ UNCHANGED <<kind, n, at, queued, ready, phase, done, seen>>
  BY DEF Recheck, pool, channels
<1>2. ~HasChannels /\ pc[c] \in Inside
  BY <1>1 DEF HasChannels, Inside
<1>3. CASE /\ done < n /\ Goto(c, "asleep")
           /\ UNCHANGED <<answer, calls, expired, locks, job, progress, ran, fn>>
  <2>1. /\ pc' = [pc EXCEPT ![c] = "asleep"]
        /\ UNCHANGED <<kind, n, answer, mutex, closing, closed, tiles, tail, wave, sent, got,
                       failed, ran, at, queued, ready, fn, phase, done, seen>>
    BY <1>1, <1>3 DEF Goto, locks, job, progress
  <2> QED
    BY <1>1, <1>2, <2>1, WaitingKeeps
<1>4. CASE done = n /\ fn' = FALSE /\ Return(c, "done")
  <2>1. Shared /\ n \in Nat
    BY <1>1, <1>2, InsideIs DEF Shared
  <2>2. /\ \A w \in Workers : seen[w] = phase /\ at[w] \in Resting /\ ~Handed(w)
        /\ ran = Want
    BY <1>2, <1>4, <2>1, AllReported
  <2> QED
    BY <1>1, <1>2, <1>4, <2>2, ReturnKeeps
<1> QED
  BY <1>3, <1>4 DEF Recheck

(* The spinning pool resets the count and sets the job.                    *)
LEMMA SpinPrepareKeeps ==
  ASSUME Inv, NEW c \in Callers, SpinReset(c) \/ SpinStore(c)
  PROVE  Kept
<1>1. CASE SpinReset(c)
  <2>1. /\ kind = "spin" /\ pc[c] = "send" /\ done' = 0 /\ pc' = [pc EXCEPT ![c] = "store"]
        /\ UNCHANGED <<kind, n, answer, mutex, closing, closed, tiles, tail, wave, sent, got,
                       failed, ran, at, queued, ready, fn, phase, seen>>
    BY <1>1 DEF SpinReset, Goto, pool, locks, job, progress, channels
  <2>2. ~fn
    <3>1. pc[c] \in Inside /\ ~HasChannels
      BY <2>1 DEF Inside, HasChannels
    <3>2. Stage = "send"
      BY <2>1, <3>1, InsideIs
    <3> QED
      BY <3>1, <3>2 DEF Inv, Signalled
  <2>3. fn' = ("store" = "signal")
    BY <2>1, <2>2 DEF Inv, TypeOK
  <2> QED
    BY <2>1, <2>3, PrepareKeeps
<1>2. CASE SpinStore(c)
  <2>1. /\ kind = "spin" /\ pc[c] = "store" /\ fn' = TRUE /\ pc' = [pc EXCEPT ![c] = "signal"]
        /\ UNCHANGED <<kind, n, answer, mutex, closing, closed, tiles, tail, wave, sent, got,
                       failed, ran, at, queued, ready, phase, done, seen>>
    BY <1>2 DEF SpinStore, Goto, pool, locks, job, progress, channels
  <2>2. done = 0
    <3>1. pc[c] \in Inside /\ ~HasChannels
      BY <2>1 DEF Inside, HasChannels
    <3>2. Stage = "store"
      BY <2>1, <3>1, InsideIs
    <3> QED
      BY <3>1, <3>2 DEF Inv, Signalled
  <2> QED
    BY <2>1, <2>2, PrepareKeeps
<1> QED
  BY <1>1, <1>2

(* The generation counter moves.                                           *)
LEMMA SpinSignalKeeps ==
  ASSUME Inv, NEW c \in Callers, SpinSignal(c)
  PROVE  Kept
<1>1. /\ kind = "spin" /\ pc[c] = "signal" /\ phase' = phase + 1
      /\ pc' = [pc EXCEPT ![c] = "await"]
      /\ UNCHANGED <<kind, n, answer, mutex, closing, closed, tiles, tail, wave, sent, got,
                     failed, ran, at, queued, ready, fn, done, seen>>
  BY DEF SpinSignal, Goto, pool, locks, job, progress, channels
<1>2. pc[c] \in Inside /\ ~HasChannels
  BY <1>1 DEF Inside, HasChannels
<1>3. Stage = "signal"
  BY <1>1, <1>2, InsideIs
<1>4. fn' = TRUE /\ done' = 0
  BY <1>1, <1>2, <1>3 DEF Inv, Signalled, TypeOK
<1>5. /\ at' \in [AllWorkers -> Working \cup Resting \cup {"fetch", "report"}]
      /\ \A w \in AllWorkers : /\ at'[w] = "gone" <=> at[w] = "gone"
                               /\ at[w] \in Resting => at'[w] \in Resting
  BY <1>1 DEF Inv, TypeOK
<1> QED
  BY <1>1, <1>2, <1>4, <1>5, SharingKeeps

(* The caller sees the full count.                                         *)
LEMMA SpinWaitKeeps ==
  ASSUME Inv, NEW c \in Callers, SpinWait(c)
  PROVE  Kept
<1>1. /\ kind = "spin" /\ pc[c] = "await" /\ done >= n
      /\ pc' = [pc EXCEPT ![c] = "clear"]
      /\ UNCHANGED <<kind, n, answer, mutex, closing, closed, tiles, tail, wave, sent, got,
                     failed, ran, at, queued, ready, fn, phase, done, seen>>
  BY DEF SpinWait, Goto, pool, locks, job, progress, channels, signal
<1>2. ~HasChannels
  BY <1>1 DEF HasChannels
<1> QED
  BY <1>1, <1>2, WaitingKeeps

(* The job is cleared, and the run returns.                                *)
LEMMA SpinClearKeeps ==
  ASSUME Inv, NEW c \in Callers, SpinClear(c)
  PROVE  Kept
<1>1. /\ kind = "spin" /\ pc[c] = "clear" /\ fn' = FALSE /\ Return(c, "done")
      /\ UNCHANGED <<kind, n, at, queued, ready, phase, done, seen>>
  BY DEF SpinClear, pool, channels
<1>2. ~HasChannels /\ pc[c] \in Inside
  BY <1>1 DEF HasChannels, Inside
<1>3. Stage = "clear" /\ Shared
  BY <1>1, <1>2, InsideIs DEF Shared
<1>4. done >= n
  BY <1>2, <1>3 DEF Inv, Signalled
<1>5. /\ \A w \in Workers : seen[w] = phase /\ at[w] \in Resting /\ ~Handed(w)
      /\ ran = Want
  BY <1>2, <1>3, <1>4, AllReported
<1> QED
  BY <1>1, <1>2, <1>5, ReturnKeeps

-----------------------------------------------------------------------------
(* The workers. *)

(* What a worker's step leaves alone.                                      *)
rest == <<kind, n, pc, answer, mutex, closing, closed, tiles, tail, wave, sent, got, failed>>

(* The call in hand and the split of the run do not depend on the workers. *)
LEMMA RestKept ==
  ASSUME Inv, UNCHANGED rest
  PROVE  /\ Stage' = Stage /\ (Shared' <=> Shared) /\ Caller' = Caller /\ Want' = Want
         /\ Workers' = Workers /\ HasChannels' = HasChannels /\ Jobs' = Jobs
         /\ \A w : Share(w)' = Share(w)
         /\ Between(0, tiles)' = Between(0, tiles)
         /\ (ran' = ran => Locked')
<1> USE DEF rest
<1>1. /\ Workers' = Workers /\ Jobs' = Jobs /\ HasChannels' = HasChannels
      /\ Between(0, tiles)' = Between(0, tiles)
      /\ \A w : Share(w)' = Share(w)
  BY SplitKept
<1>2. Stage' = Stage /\ (Shared' <=> Shared) /\ Caller' = Caller
  BY DEF Stage, Shared, Caller
<1>3. Want' = Want
  BY <1>1 DEF Want, Tail
<1>4. ran' = ran => Locked'
  BY <1>2 DEF Inv, Locked
<1> QED
  BY <1>1, <1>2, <1>3, <1>4

(* A worker moves, the others stay.                                        *)
LEMMA Moves ==
  ASSUME Inv, UNCHANGED rest, NEW w \in Workers,
         NEW s \in Working \cup Resting \cup {"fetch", "report"}, at' = [at EXCEPT ![w] = s]
  PROVE  /\ at' \in [AllWorkers -> Working \cup Resting \cup {"fetch", "report"}]
         /\ w \in AllWorkers /\ w \in Nat /\ at'[w] = s
         /\ \A v \in AllWorkers : v # w => at'[v] = at[v]
         /\ Workers \subseteq AllWorkers
         /\ at[w] # "gone" /\ s # "gone" => Leaving' /\ Alive' = Alive
<1>1. w \in AllWorkers /\ w \in Nat /\ Workers \subseteq AllWorkers
  BY PoolAssumption DEF Workers, AllWorkers, Inv, TypeOK
<1>2. /\ at' \in [AllWorkers -> Working \cup Resting \cup {"fetch", "report"}]
      /\ at'[w] = s
      /\ \A v \in AllWorkers : v # w => at'[v] = at[v]
  BY <1>1 DEF Inv, TypeOK
<1>3. ASSUME at[w] # "gone", s # "gone"
      PROVE  Leaving' /\ Alive' = Alive
  <2>1. \A v \in AllWorkers : at'[v] = "gone" <=> at[v] = "gone"
    BY <1>2, <1>3
  <2>2. Workers' = Workers
    BY RestKept
  <2>3. Leaving'
    BY <1>1, <2>1, <2>2 DEF Inv, Leaving, rest
  <2>4. Alive' = Alive
    BY <2>1 DEF Alive
  <2> QED
    BY <2>3, <2>4
<1> QED
  BY <1>1, <1>2, <1>3

(* A worker with a job in its hands keeps it.                              *)
LEMMA HoldsKeeps ==
  ASSUME Inv, UNCHANGED rest, UNCHANGED <<ran, queued, ready, fn, phase, done, seen>>,
         NEW w \in Workers, at[w] \in Working \cup {"fetch"}, NEW s \in Working \cup {"fetch"},
         HasChannels => s \in Working, at' = [at EXCEPT ![w] = s]
  PROVE  Kept
<1>1. at[w] \notin Resting /\ s \notin Resting /\ at[w] # "gone" /\ s # "gone"
      /\ at[w] # "idle" /\ s # "report" /\ at[w] # "report"
  BY DEF Working, Resting
<1>2. /\ Stage' = Stage /\ (Shared' <=> Shared) /\ Caller' = Caller /\ Want' = Want
      /\ Workers' = Workers /\ HasChannels' = HasChannels /\ Jobs' = Jobs
      /\ \A v : Share(v)' = Share(v)
      /\ Between(0, tiles)' = Between(0, tiles)
      /\ Locked'
  BY RestKept
<1>3. /\ at' \in [AllWorkers -> Working \cup Resting \cup {"fetch", "report"}]
      /\ w \in AllWorkers /\ at'[w] = s
      /\ \A v \in AllWorkers : v # w => at'[v] = at[v]
      /\ Workers \subseteq AllWorkers
      /\ Leaving' /\ Alive' = Alive
  BY <1>1, Moves
<1>4. TypeOK'
  BY <1>2, <1>3 DEF Inv, TypeOK, rest
<1>5. \A v \in Workers : Handed(v)' <=> Handed(v)
  <2>1. Handed(w) /\ Handed(w)'
    BY <1>3 DEF Handed, Working
  <2>2. \A v \in Workers \ {w} : at'[v] = at[v]
    BY <1>3
  <2>3. \A v \in Workers \ {w} : Handed(v)' <=> Handed(v)
    BY <1>2, <2>2 DEF Handed
  <2> QED
    BY <2>1, <2>3
<1>6. \A v \in Workers : Finished(v)' <=> Finished(v)
  BY <1>2, <1>5 DEF Finished, Issued, rest
<1>7. Busy' = Busy /\ Completed' = Completed
  BY <1>5, <1>6, BusyKept, CompletedKept DEF rest
<1>8. Channelled'
  <2> SUFFICES ASSUME HasChannels PROVE Channelled'
    BY <1>2 DEF Channelled
  <2>1. ~Unused(w)
    BY <1>1 DEF Unused, Resting
  <2>2. got <= w /\ w < sent /\ Awaited(w)
    BY <2>1 DEF Inv, Channelled
  <2>3. Awaited(w)'
    BY <1>1, <1>3, <2>2 DEF Awaited
  <2>4. \A v \in Workers \ {w} : at'[v] = at[v]
    BY <1>3
  <2>5. \A v \in Workers \ {w} : (Awaited(v)' <=> Awaited(v)) /\ (Unused(v)' <=> Unused(v))
    BY <2>4 DEF Awaited, Unused
  <2>6. got' = got /\ sent' = sent /\ n' = n /\ fn' = fn
    BY DEF rest
  <2>7. \A v \in Workers : IF got' <= v /\ v < sent' THEN Awaited(v)' ELSE Unused(v)'
    BY <2>2, <2>3, <2>5, <2>6 DEF Inv, Channelled
  <2> QED
    BY <1>2, <2>6, <2>7 DEF Inv, Channelled
<1>9. Signalled'
  <2> SUFFICES ASSUME ~HasChannels PROVE Signalled'
    BY <1>2 DEF Signalled
  <2>1. \A v \in Workers : at'[v] \in Resting <=> at[v] \in Resting
    BY <1>1, <1>3
  <2>2. Reported' = Reported
    BY <1>2, <2>1 DEF Reported
  <2> QED
    BY <1>2, <2>1, <2>2 DEF Inv, Signalled, rest
<1>10. Results'
  <2>1. Covered' <=> Covered
    BY <1>2 DEF Covered, rest
  <2> QED
    BY <1>2, <1>7, <2>1 DEF Inv, Results, rest
<1>11. [Promise!Next]_(Promise!vars)
  BY <1>2, <1>3, <1>7, Stutters DEF rest
<1> QED
  BY <1>2, <1>3, <1>4, <1>8, <1>9, <1>10, <1>11 DEF Inv, Kept

(* A worker of a signalling pool rests on.                                 *)
LEMMA RestsKeeps ==
  ASSUME Inv, ~HasChannels, UNCHANGED rest, UNCHANGED <<ran, queued, ready, fn, phase, done, seen>>,
         NEW w \in Workers, at[w] \in {"idle", "gen"}, NEW s \in {"idle", "asleep", "gen"},
         at' = [at EXCEPT ![w] = s]
  PROVE  Kept
<1>1. at[w] \in Resting /\ s \in Resting /\ at[w] # "gone" /\ s # "gone"
  BY DEF Resting
<1>2. /\ Stage' = Stage /\ (Shared' <=> Shared) /\ Caller' = Caller /\ Want' = Want
      /\ Workers' = Workers /\ HasChannels' = HasChannels
      /\ Locked'
  BY RestKept
<1>3. /\ at' \in [AllWorkers -> Working \cup Resting \cup {"fetch", "report"}]
      /\ w \in AllWorkers /\ at'[w] = s
      /\ \A v \in AllWorkers : v # w => at'[v] = at[v]
      /\ Workers \subseteq AllWorkers
      /\ Leaving' /\ Alive' = Alive
  BY <1>1, Moves
<1>4. TypeOK'
  BY <1>2, <1>3 DEF Inv, TypeOK, rest
<1>5. \A v \in Workers : Handed(v)' <=> Handed(v)
  <2>1. Handed(w)' <=> Handed(w)
    BY <1>2, <1>3 DEF Handed
  <2>2. \A v \in Workers \ {w} : at'[v] = at[v]
    BY <1>3
  <2>3. \A v \in Workers \ {w} : Handed(v)' <=> Handed(v)
    BY <1>2, <2>2 DEF Handed
  <2> QED
    BY <2>1, <2>3
<1>6. \A v \in Workers : Finished(v)' <=> Finished(v)
  BY <1>2, <1>5 DEF Finished, Issued, rest
<1>7. Busy' = Busy /\ Completed' = Completed
  BY <1>5, <1>6, BusyKept, CompletedKept DEF rest
<1>8. Channelled'
  BY <1>2 DEF Channelled
<1>9. Signalled'
  <2>1. \A v \in Workers : at'[v] \in Resting <=> at[v] \in Resting
    BY <1>1, <1>3
  <2>2. Reported' = Reported
    BY <1>2, <2>1 DEF Reported
  <2> QED
    BY <1>2, <2>1, <2>2 DEF Inv, Signalled, rest
<1>10. Results'
  <2>1. Stage \notin {"own", "last"}
    BY DEF Inv, Locked, HasChannels
  <2> QED
    BY <1>2, <1>7, <2>1 DEF Inv, Results, rest
<1>11. [Promise!Next]_(Promise!vars)
  BY <1>2, <1>3, <1>7, Stutters DEF rest
<1> QED
  BY <1>2, <1>3, <1>4, <1>8, <1>9, <1>10, <1>11 DEF Inv, Kept

(* A worker sees that the generation has moved.                            *)
LEMMA TakesKeeps ==
  ASSUME Inv, ~HasChannels, UNCHANGED rest, UNCHANGED <<ran, queued, ready, fn, phase, done>>,
         NEW w \in Workers, at[w] \in {"idle", "gen"}, phase # seen[w], fn,
         seen' = [seen EXCEPT ![w] = phase],
         NEW s \in {"work", "fetch"}, at' = [at EXCEPT ![w] = s]
  PROVE  Kept
<1>1. at[w] \in Resting /\ s \notin Resting /\ at[w] # "gone" /\ s # "gone"
      /\ s \in Working \cup {"fetch"}
  BY DEF Resting, Working
<1>2. /\ Stage' = Stage /\ (Shared' <=> Shared) /\ Caller' = Caller /\ Want' = Want
      /\ Workers' = Workers /\ HasChannels' = HasChannels
      /\ Locked'
  BY RestKept
<1>3. /\ at' \in [AllWorkers -> Working \cup Resting \cup {"fetch", "report"}]
      /\ w \in AllWorkers /\ at'[w] = s
      /\ \A v \in AllWorkers : v # w => at'[v] = at[v]
      /\ Workers \subseteq AllWorkers
      /\ Leaving' /\ Alive' = Alive
  BY <1>1, Moves
<1>4. /\ seen' \in [AllWorkers -> Nat] /\ seen'[w] = phase
      /\ \A v \in AllWorkers : v # w => seen'[v] = seen[v]
  BY <1>3 DEF Inv, TypeOK
<1>5. TypeOK'
  BY <1>2, <1>3, <1>4 DEF Inv, TypeOK, rest
<1>6. Shared
  <2>1. Stage \in {"signal", "asleep", "await", "clear"} /\ tiles # -1
    BY DEF Inv, Signalled, Stage
  <2>2. ~closed
    BY <2>1 DEF Inv, Locked
  <2> QED
    BY <2>2 DEF Inv, Signalled
<1>7. \A v \in Workers \ {w} : at'[v] = at[v] /\ seen'[v] = seen[v]
  BY <1>3, <1>4
<1>8. \A v \in Workers : Handed(v)' <=> Handed(v)
  <2>1. Handed(w) /\ Handed(w)'
    BY <1>3 DEF Handed
  <2>2. \A v \in Workers \ {w} : Handed(v)' <=> Handed(v)
    BY <1>2, <1>7 DEF Handed
  <2> QED
    BY <2>1, <2>2
<1>9. \A v \in Workers : Finished(v)' <=> Finished(v)
  BY <1>2, <1>8 DEF Finished, Issued, rest
<1>10. Busy' = Busy /\ Completed' = Completed
  BY <1>8, <1>9, BusyKept, CompletedKept DEF rest
<1>11. Channelled'
  BY <1>2 DEF Channelled
<1>12. Signalled'
  <2>1. Reported' = Reported
    <3>1. ~(seen[w] = phase) /\ at'[w] \notin Resting
      BY <1>1, <1>3
    <3> QED
      BY <1>2, <1>7, <3>1 DEF Reported
  <2>2. \A v \in Workers : at'[v] \notin Resting => seen'[v] = phase'
    BY <1>4, <1>7 DEF Inv, Signalled
  <2> QED
    BY <1>2, <1>6, <2>1, <2>2 DEF Inv, Signalled, rest
<1>13. Results'
  <2>1. Stage \notin {"own", "last"}
    BY DEF Inv, Locked, HasChannels
  <2> QED
    BY <1>2, <1>10, <2>1 DEF Inv, Results, rest
<1>14. [Promise!Next]_(Promise!vars)
  BY <1>2, <1>3, <1>10, Stutters DEF rest
<1> QED
  BY <1>2, <1>3, <1>5, <1>11, <1>12, <1>13, <1>14 DEF Inv, Kept

(* A worker leaves the closed pool.                                        *)
LEMMA LeavesKeeps ==
  ASSUME Inv, closed, UNCHANGED rest, UNCHANGED <<ran, queued, ready, fn, phase, done>>,
         NEW w \in Workers, at[w] \in Resting, at' = [at EXCEPT ![w] = "gone"],
         \/ seen' = seen
         \/ seen' = [seen EXCEPT ![w] = phase]
  PROVE  Kept
<1>1. "gone" \in Resting
  BY DEF Resting
<1>2. /\ Stage' = Stage /\ (Shared' <=> Shared) /\ Caller' = Caller /\ Want' = Want
      /\ Workers' = Workers /\ HasChannels' = HasChannels
      /\ Locked'
  BY RestKept
<1>3. /\ at' \in [AllWorkers -> Working \cup Resting \cup {"fetch", "report"}]
      /\ w \in AllWorkers /\ at'[w] = "gone"
      /\ \A v \in AllWorkers : v # w => at'[v] = at[v]
      /\ Workers \subseteq AllWorkers
  BY <1>1, Moves
<1>4. /\ seen' \in [AllWorkers -> Nat]
      /\ \A v \in AllWorkers : seen'[v] = seen[v] \/ seen'[v] = phase
  BY <1>3 DEF Inv, TypeOK
<1>5. TypeOK'
  BY <1>2, <1>3, <1>4 DEF Inv, TypeOK, rest
<1>6. tiles = -1
  BY DEF Inv, Locked
<1>7. /\ Stage = "none" /\ ~Shared /\ Busy = {} /\ ~fn /\ sent = 0 /\ got = 0
      /\ HasChannels => \A v \in Workers : Unused(v)
      /\ ~HasChannels => queued = {} /\ \A v \in Workers : at[v] \in Resting
  BY <1>6, BetweenRuns
<1>8. Leaving'
  BY <1>2, <1>3 DEF Inv, Leaving, rest
<1>9. Alive' = Alive \ {w}
  BY <1>3 DEF Alive
<1>10. Channelled'
  <2> SUFFICES ASSUME HasChannels PROVE Channelled'
    BY <1>2 DEF Channelled
  <2>1. \A v \in Workers : v # w => at'[v] = at[v]
    BY <1>3
  <2>2. \A v \in Workers : Unused(v)'
    BY <1>3, <1>7, <2>1 DEF Unused
  <2>3. \A v \in Workers : ~(0 <= v /\ v < 0)
    BY DEF Workers, Inv, TypeOK
  <2>4. n' = n /\ sent' = 0 /\ got' = 0 /\ sent <= n
    BY <1>7 DEF rest, Inv, Channelled
  <2> QED
    BY <1>2, <1>7, <2>2, <2>3, <2>4 DEF Channelled
<1>11. Signalled'
  <2> SUFFICES ASSUME ~HasChannels PROVE Signalled'
    BY <1>2 DEF Signalled
  <2>1. \A v \in Workers : at'[v] \in Resting
    BY <1>1, <1>3, <1>7
  <2>2. \A v \in Workers : kind = "spin" => seen'[v] = phase
    BY <1>3, <1>4, <1>7 DEF Inv, Signalled
  <2>3. closed' = closed /\ kind' = kind
    BY DEF rest
  <2> QED
    BY <1>2, <1>7, <2>1, <2>2, <2>3 DEF Signalled
<1>12. Results'
  BY <1>2, <1>7 DEF Results, Inside
<1>13. Busy' = {}
  <2>1. \A v \in Workers : ~Handed(v)'
    <3>1. CASE HasChannels
      <4>1. \A v \in Workers : at'[v] \in {"idle", "gone"} /\ v \notin queued
        BY <1>3, <1>7, <3>1 DEF Unused
      <4> QED
        BY <1>2, <3>1, <4>1 DEF Handed
    <3>2. CASE ~HasChannels
      <4>1. \A v \in Workers : at'[v] \in Resting
        BY <1>1, <1>3, <1>7, <3>2
      <4> QED
        BY <1>7, <3>2, <4>1 DEF Handed, Resting
    <3> QED
      BY <3>1, <3>2
  <2> QED
    BY <1>2, <2>1 DEF Busy
<1>14. [Promise!Next]_(Promise!vars)
  BY <1>2, <1>3, <1>7, <1>9, <1>13, Leaves DEF rest
<1> QED
  BY <1>2, <1>5, <1>8, <1>10, <1>11, <1>12, <1>14 DEF Inv, Kept

(* A worker is counted, and the last one may wake the others and the       *)
(* caller.                                                                 *)
LEMMA CountedKeeps ==
  ASSUME Inv, ~HasChannels, NEW w \in Workers, at[w] = "report", done' = done + 1,
         at' \in [AllWorkers -> Working \cup Resting \cup {"fetch", "report"}], at'[w] = "idle",
         \A v \in AllWorkers : v # w => \/ at'[v] = at[v]
                                        \/ at[v] = "asleep" /\ at'[v] = "idle",
         \/ pc' = pc
         \/ pc' = WakeCallers(pc),
         UNCHANGED <<kind, n, answer, mutex, closing, closed, tiles, tail, wave, sent, got, failed,
                     ran, queued, ready, fn, phase, seen>>
  PROVE  Kept
<1>1. at[w] \notin Resting /\ "idle" \in Resting /\ "asleep" \in Resting
  BY DEF Resting
<1>2. w \in AllWorkers /\ Workers \subseteq AllWorkers /\ Workers' = Workers /\ ~HasChannels'
  BY DEF Workers, AllWorkers, HasChannels, Inv, TypeOK
<1>3. seen[w] = phase /\ Shared
  BY <1>1 DEF Inv, Signalled
<1>4. tiles # -1 /\ mutex \in Callers /\ pc[mutex] = Stage
      /\ Stage \in {"asleep", "await", "clear"}
  BY <1>3 DEF Shared, Stage, Inv, Locked
<1>5. /\ pc' \in [Callers -> Outside \cup Inside]
      /\ \A c \in Callers : \/ pc'[c] = pc[c]
                            \/ pc[c] = "asleep" /\ pc'[c] = "await"
  <2>1. "await" \in Inside
    BY DEF Inside
  <2> QED
    BY <2>1 DEF WakeCallers, Inv, TypeOK
<1>6. /\ Stage' = pc'[mutex]
      /\ Stage' = Stage \/ (Stage = "asleep" /\ Stage' = "await")
  BY <1>4, <1>5 DEF Stage
<1>7. Shared' /\ Stage' \in {"asleep", "await", "clear"} /\ (Stage' = "clear" => Stage = "clear")
      /\ (Stage' = "asleep" => Stage = "asleep")
  BY <1>4, <1>6 DEF Shared
<1>8. TypeOK'
  <2>1. done' \in Nat
    BY DEF Inv, TypeOK
  <2> QED
    BY <1>2, <1>5, <2>1 DEF Inv, TypeOK
<1>9. Locked'
  <2>1. "await" \in Inside /\ "asleep" \in Inside
        /\ \A s \in {"asleep", "await", "clear"} : s \in Inside
    BY DEF Inside
  <2>2. \A c \in Callers : pc'[c] \in Inside => pc[c] \in Inside
    BY <1>5, <2>1
  <2>3. pc'[mutex] \in Inside
    BY <1>6, <1>7, <2>1
  <2>4. Stage' = "clear" => kind = "spin"
    BY <1>7 DEF Inv, Locked
  <2>5. Stage' = "asleep" => kind = "cond"
    BY <1>7 DEF Inv, Locked
  <2> QED
    BY <1>4, <1>7, <2>2, <2>3, <2>4, <2>5 DEF Inv, Locked
<1>10. \A v \in AllWorkers : /\ at'[v] = "gone" <=> at[v] = "gone"
                             /\ v # w => (at'[v] \in Resting <=> at[v] \in Resting)
  BY <1>1
<1>11. Leaving'
  BY <1>2, <1>10 DEF Inv, Leaving
<1>12. queued = {} /\ queued' = {}
  BY DEF Inv, Signalled
<1>13. \A v \in Workers : Handed(v)' <=> Handed(v)
  <2>1. ~Handed(w) /\ ~Handed(w)'
    BY <1>3, <1>12 DEF Handed
  <2>2. ASSUME NEW v \in Workers, v # w PROVE Handed(v)' <=> Handed(v)
    <3>1. at'[v] \in Working \cup {"fetch"} <=> at[v] \in Working \cup {"fetch"}
      BY <1>2, <2>2 DEF Working
    <3> QED
      BY <1>2, <1>12, <3>1 DEF Handed, Working
  <2> QED
    BY <2>1, <2>2
<1>14. \A v \in Workers : Finished(v)' <=> Finished(v)
  BY <1>2, <1>3, <1>7, <1>13 DEF Finished, Issued
<1>15. Busy' = Busy /\ Completed' = Completed
  BY <1>13, <1>14, BusyKept, CompletedKept
<1>16. Channelled'
  BY <1>2 DEF Channelled
<1>17. done' = Cardinality(Reported')
  <2>1. done = Cardinality(Reported) /\ w \notin Reported
    BY <1>1, <1>3 DEF Inv, Signalled, Reported
  <2>2. Reported' = Reported \cup {w}
    BY <1>1, <1>2, <1>3, <1>10 DEF Reported
  <2>3. IsFiniteSet(Reported)
    <3>1. n \in Int
      BY PoolAssumption DEF Inv, TypeOK
    <3>2. IsFiniteSet(Workers) /\ Reported \in SUBSET Workers
      BY <3>1, FS_Interval DEF Workers, Reported
    <3> QED
      BY <3>2, FS_Subset
  <2> DEFINE R == Reported
  <2> HIDE DEF R
  <2>4. Cardinality(R \cup {w}) = Cardinality(R) + 1
    <3>1. IsFiniteSet(R) /\ w \notin R
      BY <2>1, <2>3 DEF R
    <3> QED
      BY <3>1, FS_AddElement
  <2>5. Reported' = R \cup {w} /\ done = Cardinality(R)
    BY <2>1, <2>2 DEF R
  <2> QED
    BY <2>4, <2>5
<1>18. Signalled'
  <2>1. \A v \in Workers : at'[v] \notin Resting => at[v] \notin Resting
    BY <1>1, <1>2, <1>10
  <2>2. Stage = "clear" => done >= n
    BY DEF Inv, Signalled
  <2>3. Stage' = "clear" => done' >= n'
    BY <1>7, <2>2, PoolAssumption DEF Inv, TypeOK
  <2>4. fn
    BY <1>4 DEF Inv, Signalled
  <2> QED
    BY <1>2, <1>7, <1>12, <1>17, <2>1, <2>3, <2>4 DEF Inv, Signalled
<1>19. Results'
  <2>1. ran = Completed
    BY <1>4 DEF Inv, Results, Inside
  <2> QED
    BY <1>2, <1>7, <1>15, <2>1 DEF Results
<1>20. [Promise!Next]_(Promise!vars)
  <2>1. Want' = Want /\ Caller' = Caller
    BY DEF Want, Between, Tail, Caller
  <2>2. Alive' = Alive
    BY <1>10 DEF Alive
  <2> QED
    BY <1>15, <2>1, <2>2, Stutters
<1> QED
  BY <1>8, <1>9, <1>11, <1>16, <1>18, <1>19, <1>20 DEF Inv, Kept

(* A worker takes its job from its channel, or puts its token there.       *)
LEMMA ChannelKeeps ==
  ASSUME Inv, NEW w \in Workers, Receive(w) \/ Post(w)
  PROVE  Kept
<1> DEFINE s == IF at[w] = "idle" THEN "work" ELSE "idle"
<1>1. /\ HasChannels /\ s \in Working \cup Resting /\ at' = [at EXCEPT ![w] = s]
      /\ \/ at[w] = "idle" /\ w \in queued /\ queued' = queued \ {w} /\ ready' = ready
         \/ at[w] = "report" /\ w \notin ready /\ ready' = ready \cup {w} /\ queued' = queued
      /\ UNCHANGED rest /\ UNCHANGED <<ran, fn, phase, done, seen>>
  BY DEF Receive, Post, Move, Working, Resting, rest, pool, callers, locks, job, progress, signal
<1>2. (at[w] = "idle" => s = "work") /\ (at[w] = "report" => s = "idle") /\ s # "gone"
      /\ at[w] # "gone"
  BY <1>1
<1> HIDE DEF s
<1>3. /\ Stage' = Stage /\ (Shared' <=> Shared) /\ Caller' = Caller /\ Want' = Want
      /\ Workers' = Workers /\ HasChannels' = HasChannels /\ Jobs' = Jobs
      /\ \A v : Share(v)' = Share(v)
      /\ Between(0, tiles)' = Between(0, tiles)
      /\ Locked'
  BY <1>1, RestKept
<1>4. /\ at' \in [AllWorkers -> Working \cup Resting \cup {"fetch", "report"}]
      /\ w \in AllWorkers /\ at'[w] = s
      /\ \A v \in AllWorkers : v # w => at'[v] = at[v]
      /\ Workers \subseteq AllWorkers
      /\ Leaving' /\ Alive' = Alive
  BY <1>1, <1>2, Moves
<1>5. queued' \subseteq Workers /\ ready' \subseteq Workers
      /\ \A v \in Workers \ {w} : /\ v \in queued' <=> v \in queued
                                  /\ v \in ready' <=> v \in ready
                                  /\ at'[v] = at[v]
  BY <1>1, <1>4 DEF Inv, TypeOK
<1>6. TypeOK'
  BY <1>1, <1>3, <1>4, <1>5 DEF Inv, TypeOK, rest
<1>7. ~Unused(w)
  BY <1>1 DEF Unused
<1>8. got <= w /\ w < sent /\ Awaited(w)
  BY <1>1, <1>7 DEF Inv, Channelled
<1>9. Awaited(w)' /\ (Handed(w)' <=> Handed(w))
  BY <1>1, <1>2, <1>3, <1>4, <1>8 DEF Awaited, Handed, Working
<1>10. \A v \in Workers : Handed(v)' <=> Handed(v)
  <2>1. \A v \in Workers \ {w} : Handed(v)' <=> Handed(v)
    BY <1>1, <1>3, <1>5 DEF Handed
  <2> QED
    BY <1>9, <2>1
<1>11. \A v \in Workers : Finished(v)' <=> Finished(v)
  BY <1>1, <1>3, <1>10 DEF Finished, Issued, rest
<1>12. Busy' = Busy /\ Completed' = Completed
  BY <1>1, <1>10, <1>11, BusyKept, CompletedKept DEF rest
<1>13. Channelled'
  <2>1. \A v \in Workers \ {w} : (Awaited(v)' <=> Awaited(v)) /\ (Unused(v)' <=> Unused(v))
    BY <1>5 DEF Awaited, Unused
  <2>2. got' = got /\ sent' = sent /\ n' = n /\ fn' = fn
    BY <1>1 DEF rest
  <2>3. \A v \in Workers : IF got' <= v /\ v < sent' THEN Awaited(v)' ELSE Unused(v)'
    BY <1>1, <1>8, <1>9, <2>1, <2>2 DEF Inv, Channelled
  <2> QED
    BY <1>1, <1>3, <2>2, <2>3 DEF Inv, Channelled
<1>14. Signalled'
  BY <1>1, <1>3 DEF Signalled
<1>15. Results'
  <2>1. Covered' <=> Covered
    BY <1>1, <1>3 DEF Covered, rest
  <2> QED
    BY <1>1, <1>3, <1>12, <2>1 DEF Inv, Results, rest
<1>16. [Promise!Next]_(Promise!vars)
  BY <1>1, <1>3, <1>4, <1>12, Stutters DEF rest
<1> QED
  BY <1>3, <1>4, <1>6, <1>13, <1>14, <1>15, <1>16 DEF Inv, Kept

(* A worker whose channel is closed and empty leaves.                      *)
LEMMA ChannelEndsKeeps ==
  ASSUME Inv, NEW w \in Workers, ChannelEnds(w)
  PROVE  Kept
<1>1. /\ closed /\ at[w] \in Resting /\ at' = [at EXCEPT ![w] = "gone"] /\ seen' = seen
      /\ UNCHANGED rest /\ UNCHANGED <<ran, queued, ready, fn, phase, done>>
  BY DEF ChannelEnds, Move, Resting, rest, pool, callers, locks, job, progress, channels, signal
<1> QED
  BY <1>1, LeavesKeeps

(* A worker waits for the phase to move, takes the job, or leaves.         *)
LEMMA CheckKeeps ==
  ASSUME Inv, NEW w \in Workers, Check(w)
  PROVE  Kept
<1>1. /\ kind = "cond" /\ at[w] = "idle"
      /\ UNCHANGED rest /\ UNCHANGED <<ran, queued, ready, fn, phase, done>>
  BY DEF Check, rest, pool, callers, locks, job, progress, channels, signal
<1>2. ~HasChannels /\ at[w] \in Resting
  BY <1>1 DEF HasChannels, Resting
<1>3. CASE phase = seen[w] /\ Move(w, "asleep") /\ UNCHANGED seen
  BY <1>1, <1>2, <1>3, RestsKeeps DEF Move
<1>4. CASE phase # seen[w] /\ seen' = [seen EXCEPT ![w] = phase] /\ fn /\ Move(w, "work")
  BY <1>1, <1>2, <1>4, TakesKeeps DEF Move
<1>5. CASE phase # seen[w] /\ seen' = [seen EXCEPT ![w] = phase] /\ ~fn /\ Move(w, "gone")
  <2>1. ~Shared
    BY <1>2, <1>5 DEF Inv, Signalled, Shared
  <2>2. closed
    BY <1>2, <1>5, <2>1 DEF Inv, Signalled
  <2> QED
    BY <1>1, <1>2, <1>5, <2>2, LeavesKeeps DEF Move
<1> QED
  BY <1>3, <1>4, <1>5 DEF Check

(* A worker reports under CondPool.mu.                                     *)
LEMMA CountKeeps ==
  ASSUME Inv, NEW w \in Workers, Count(w)
  PROVE  Kept
<1>1. /\ kind = "cond" /\ at[w] = "report" /\ done' = done + 1
      /\ UNCHANGED <<kind, n, answer, mutex, closing, closed, tiles, tail, wave, sent, got, failed,
                     ran, queued, ready, fn, phase, seen>>
  BY DEF Count, pool, locks, job, progress, channels
<1>2. ~HasChannels /\ w \in AllWorkers
  BY <1>1 DEF HasChannels, Workers, AllWorkers, Inv, TypeOK
<1>3. "idle" \in Resting
  BY DEF Resting
<1>4. CASE at' = [WakeWorkers(at) EXCEPT ![w] = "idle"] /\ pc' = WakeCallers(pc)
  <2>1. /\ at' \in [AllWorkers -> Working \cup Resting \cup {"fetch", "report"}]
        /\ at'[w] = "idle"
        /\ \A v \in AllWorkers : v # w => \/ at'[v] = at[v]
                                          \/ at[v] = "asleep" /\ at'[v] = "idle"
    BY <1>2, <1>3, <1>4 DEF WakeWorkers, Inv, TypeOK
  <2> QED
    BY <1>1, <1>2, <1>4, <2>1, CountedKeeps
<1>5. CASE Move(w, "idle") /\ UNCHANGED pc
  <2>1. /\ at' \in [AllWorkers -> Working \cup Resting \cup {"fetch", "report"}]
        /\ at'[w] = "idle"
        /\ \A v \in AllWorkers : v # w => at'[v] = at[v]
    BY <1>2, <1>3, <1>5 DEF Move, Inv, TypeOK
  <2> QED
    BY <1>1, <1>2, <1>5, <2>1, CountedKeeps
<1> QED
  BY <1>4, <1>5 DEF Count

(* A spinning worker looks at the stop flag, at the generation, and at the *)
(* job.                                                                    *)
LEMMA LoadKeeps ==
  ASSUME Inv, NEW w \in Workers, LoadStop(w) \/ LoadGen(w) \/ LoadFn(w)
  PROVE  Kept
<1>1. /\ kind = "spin"
      /\ UNCHANGED rest /\ UNCHANGED <<ran, queued, ready, fn, phase, done>>
  BY DEF LoadStop, LoadGen, LoadFn, rest, pool, callers, locks, job, progress, channels, signal
<1>2. ~HasChannels /\ "idle" \in Resting /\ w \in AllWorkers
  BY <1>1 DEF HasChannels, Resting, Workers, AllWorkers, Inv, TypeOK
<1>3. CASE LoadStop(w)
  <2>1. at[w] = "idle" /\ seen' = seen
        /\ at' = [at EXCEPT ![w] = IF closed THEN "gone" ELSE "gen"]
    BY <1>3 DEF LoadStop, Move
  <2>2. CASE closed
    BY <1>1, <1>2, <2>1, <2>2, LeavesKeeps
  <2>3. CASE ~closed
    BY <1>1, <1>2, <2>1, <2>3, RestsKeeps
  <2> QED
    BY <2>2, <2>3
<1>4. CASE LoadGen(w)
  <2>1. at[w] = "gen" /\ seen' = [seen EXCEPT ![w] = phase]
        /\ at' = [at EXCEPT ![w] = IF phase = seen[w] THEN "idle" ELSE "fetch"]
    BY <1>4 DEF LoadGen, Move
  <2>2. CASE phase = seen[w]
    <3>1. seen' = seen
      BY <1>2, <2>1, <2>2 DEF Inv, TypeOK
    <3> QED
      BY <1>1, <1>2, <2>1, <2>2, <3>1, RestsKeeps
  <2>3. CASE phase # seen[w]
    <3>1. Shared
      BY <1>1, <1>2, <2>3 DEF Inv, Signalled
    <3>2. fn
      BY <1>2, <3>1 DEF Inv, Signalled, Shared
    <3> QED
      BY <1>1, <1>2, <2>1, <2>3, <3>2, TakesKeeps
  <2> QED
    BY <2>2, <2>3
<1>5. CASE LoadFn(w)
  <2>1. at[w] = "fetch" /\ seen' = seen
    BY <1>5 DEF LoadFn
  <2>2. fn
    <3>1. Shared
      BY <1>2, <2>1 DEF Inv, Signalled, Resting
    <3> QED
      BY <1>2, <3>1 DEF Inv, Signalled, Shared
  <2>3. at' = [at EXCEPT ![w] = "work"]
    BY <1>5, <2>2 DEF LoadFn, Move
  <2>4. "work" \in Working
    BY DEF Working
  <2> QED
    BY <1>1, <1>2, <2>1, <2>3, <2>4, HoldsKeeps
<1> QED
  BY <1>3, <1>4, <1>5

(* A spinning worker reports.                                              *)
LEMMA AddKeeps ==
  ASSUME Inv, NEW w \in Workers, Add(w)
  PROVE  Kept
<1>1. /\ kind = "spin" /\ at[w] = "report" /\ done' = done + 1 /\ at' = [at EXCEPT ![w] = "idle"]
      /\ UNCHANGED <<kind, n, answer, mutex, closing, closed, tiles, tail, wave, sent, got, failed,
                     ran, queued, ready, fn, phase, seen, pc>>
  BY DEF Add, Move, pool, callers, locks, job, progress, channels
<1>2. ~HasChannels /\ w \in AllWorkers /\ "idle" \in Resting
  BY <1>1 DEF HasChannels, Workers, AllWorkers, Inv, TypeOK, Resting
<1>3. /\ at' \in [AllWorkers -> Working \cup Resting \cup {"fetch", "report"}]
      /\ at'[w] = "idle"
      /\ \A v \in AllWorkers : v # w => at'[v] = at[v]
  BY <1>1, <1>2 DEF Inv, TypeOK
<1> QED
  BY <1>1, <1>2, <1>3, CountedKeeps

(* The barrier moves a worker inside its job.                              *)
LEMMA BarrierKeeps ==
  ASSUME Inv, NEW w \in Workers,
         Arrive(w) \/ AddCount(w) \/ ResetCount(w) \/ Bump(w) \/ Released(w)
  PROVE  Kept
<1>1. /\ at[w] \in Working
      /\ UNCHANGED rest /\ UNCHANGED <<ran, queued, ready, fn, phase, done, seen>>
  BY DEF Arrive, AddCount, ResetCount, Bump, Released, BarrierStep, Working, rest, pool, callers,
         locks, job, progress, channels, signal
<1>2. PICK s \in Working : at' = [at EXCEPT ![w] = s]
  <2>1. CASE Arrive(w)
    BY <2>1 DEF Arrive, Move, Working
  <2>2. CASE AddCount(w)
    BY <2>2 DEF AddCount, Move, Working
  <2>3. CASE ResetCount(w)
    BY <2>3 DEF ResetCount, Move, Working
  <2>4. CASE Bump(w)
    BY <2>4 DEF Bump, Through, Move, Working
  <2>5. CASE Released(w)
    BY <2>5 DEF Released, Through, Move, Working
  <2> QED
    BY <2>1, <2>2, <2>3, <2>4, <2>5
<1> QED
  BY <1>1, <1>2, HoldsKeeps

(* The shares of a set of workers and of one more.                         *)
LEMMA UnionWithOne ==
  ASSUME NEW P, NEW w
  PROVE  UNION {Share(v) : v \in P \cup {w}} = (UNION {Share(v) : v \in P}) \cup Share(w)
  OBVIOUS

(* A worker is through with its share.                                     *)
LEMMA WorkedKeeps ==
  ASSUME Inv, NEW w \in Workers, Worked(w)
  PROVE  Kept
<1>1. /\ at[w] = "work" /\ ran' = ran \cup Share(w) /\ at' = [at EXCEPT ![w] = "report"]
      /\ UNCHANGED rest /\ UNCHANGED <<queued, ready, fn, phase, done, seen>>
  BY DEF Worked, Move, rest, pool, callers, locks, job, progress, channels, signal
<1>2. at[w] \notin Resting /\ "report" \notin Resting /\ at[w] # "gone" /\ at[w] # "idle"
  BY <1>1 DEF Resting
<1>3. /\ Stage' = Stage /\ (Shared' <=> Shared) /\ Caller' = Caller /\ Want' = Want
      /\ Workers' = Workers /\ HasChannels' = HasChannels /\ Jobs' = Jobs
      /\ \A v : Share(v)' = Share(v)
      /\ Between(0, tiles)' = Between(0, tiles)
  BY <1>1, RestKept
<1>4. /\ at' \in [AllWorkers -> Working \cup Resting \cup {"fetch", "report"}]
      /\ w \in AllWorkers /\ at'[w] = "report"
      /\ \A v \in AllWorkers : v # w => at'[v] = at[v]
      /\ Workers \subseteq AllWorkers
      /\ Leaving' /\ Alive' = Alive
  BY <1>1, <1>2, Moves
<1>5. TypeOK'
  BY <1>1, <1>3, <1>4 DEF Inv, TypeOK, rest
<1>6. \A v \in Workers \ {w} : at'[v] = at[v]
  BY <1>4
<1>7. HasChannels => got <= w /\ w < sent /\ Awaited(w) /\ w \notin queued
  <2>1. ~Unused(w)
    BY <1>1 DEF Unused
  <2> QED
    BY <1>1, <1>2, <2>1 DEF Inv, Channelled, Awaited
<1>8. ~HasChannels => seen[w] = phase /\ Shared /\ queued = {}
  BY <1>2 DEF Inv, Signalled
<1>9. tiles # -1 /\ Stage \in Inside \ {"own", "last"}
  <2>1. CASE HasChannels
    <3>1. sent # 0 /\ got # sent
      <4>1. w \in Nat /\ sent \in Nat /\ got \in Nat
        BY PoolAssumption DEF Workers, Inv, TypeOK
      <4> QED
        BY <1>7, <2>1, <4>1
    <3>2. tiles # -1
      BY <3>1 DEF Inv, Locked
    <3>3. Stage \in Inside
      BY <3>2 DEF Inv, Locked, Stage
    <3> QED
      BY <3>1, <3>2, <3>3 DEF Inv, Results
  <2>2. CASE ~HasChannels
    BY <1>8, <2>2 DEF Shared, Stage, Inside
  <2> QED
    BY <2>1, <2>2
<1>10. ran = Completed
  BY <1>9 DEF Inv, Results
<1>11. kind = "gemm" => Jobs >= 1
  <2>1. kind = "gemm" => HasChannels /\ Stage \in {"send", "await"}
    BY <1>9 DEF HasChannels, Inside, Inv, Locked
  <2> QED
    BY <2>1 DEF Inv, Results
<1>12. Locked'
  BY <1>1, <1>3, <1>9 DEF Inv, Locked, rest
<1>13. Channelled'
  <2> SUFFICES ASSUME HasChannels PROVE Channelled'
    BY <1>3 DEF Channelled
  <2>1. Awaited(w)'
    BY <1>1, <1>2, <1>4, <1>7 DEF Awaited
  <2>2. \A v \in Workers \ {w} : (Awaited(v)' <=> Awaited(v)) /\ (Unused(v)' <=> Unused(v))
    BY <1>1, <1>6 DEF Awaited, Unused
  <2>3. got' = got /\ sent' = sent /\ n' = n /\ fn' = fn
    BY <1>1 DEF rest
  <2>4. \A v \in Workers : IF got' <= v /\ v < sent' THEN Awaited(v)' ELSE Unused(v)'
    BY <1>7, <2>1, <2>2, <2>3 DEF Inv, Channelled
  <2> QED
    BY <1>3, <2>3, <2>4 DEF Inv, Channelled
<1>14. Signalled'
  <2> SUFFICES ASSUME ~HasChannels PROVE Signalled'
    BY <1>3 DEF Signalled
  <2>1. \A v \in Workers : at'[v] \in Resting <=> at[v] \in Resting
    BY <1>2, <1>4, <1>6
  <2>2. Reported' = Reported
    BY <1>1, <1>3, <2>1 DEF Reported
  <2> QED
    BY <1>1, <1>3, <2>1, <2>2 DEF Inv, Signalled, rest
<1>15. Handed(w) /\ ~Handed(w)' /\ \A v \in Workers \ {w} : Handed(v)' <=> Handed(v)
  <2>1. Handed(w)
    BY <1>1 DEF Handed
  <2>2. ~Handed(w)'
    BY <1>1, <1>3, <1>4, <1>7, <1>8 DEF Handed
  <2>3. \A v \in Workers \ {w} : Handed(v)' <=> Handed(v)
    BY <1>1, <1>3, <1>6 DEF Handed
  <2> QED
    BY <2>1, <2>2, <2>3
<1>16. Finished(w)' /\ \A v \in Workers \ {w} : Finished(v)' <=> Finished(v)
  <2>1. \A v \in Workers : Issued(v)' <=> Issued(v)
    BY <1>1, <1>3 DEF Issued, rest
  <2>2. Issued(w)
    BY <1>7, <1>8 DEF Issued
  <2> QED
    BY <1>15, <2>1, <2>2 DEF Finished
<1>17. Completed' = Completed \cup Share(w)
  <2>1. {v \in Workers : Finished(v)}' = {v \in Workers : Finished(v)} \cup {w}
    BY <1>3, <1>16
  <2> QED
    BY <1>3, <2>1 DEF Completed
<1>18. Results'
  <2>1. ran' = Completed'
    BY <1>1, <1>10, <1>17
  <2>2. Covered' <=> Covered
    BY <1>1, <1>3 DEF Covered, rest
  <2> QED
    BY <1>1, <1>3, <1>9, <2>1, <2>2 DEF Inv, Results, rest
<1>19. Busy' = Busy \ Share(w)
  <2> DEFINE P == {v \in Workers : Handed(v)} \ {w}
  <2>1. P \subseteq Workers /\ w \notin P
    OBVIOUS
  <2>2. {v \in Workers : Handed(v)} = P \cup {w}
    BY <1>15
  <2>3. {v \in Workers : Handed(v)}' = P
    BY <1>3, <1>15
  <2>4. Busy' = UNION {Share(v) : v \in P}
    BY <1>3, <2>3 DEF Busy
  <2>5. Busy = UNION {Share(v) : v \in P \cup {w}}
    BY <2>2 DEF Busy
  <2> HIDE DEF P
  <2>6. Share(w) \cap UNION {Share(v) : v \in P} = {}
    BY <1>9, <1>11, <2>1, OthersApart
  <2>7. Busy = (UNION {Share(v) : v \in P}) \cup Share(w)
    BY <2>5, UnionWithOne
  <2> QED
    BY <2>4, <2>6, <2>7
<1>20. [Promise!Next]_(Promise!vars)
  <2>1. Share(w) \subseteq Busy
    BY <1>15 DEF Busy
  <2>2. Share(w) \subseteq 0..MaxTiles
    BY ShareWithin, WantWithin DEF Inv, Want
  <2> QED
    BY <1>1, <1>3, <1>4, <1>19, <2>1, <2>2, Finishes DEF rest
<1> QED
  BY <1>4, <1>5, <1>12, <1>13, <1>14, <1>18, <1>20 DEF Inv, Kept

-----------------------------------------------------------------------------
(* The theorems. *)

(* A new pool satisfies the invariant, and promises what ForkJoin begins   *)
(* with.                                                                   *)
LEMMA InitOK ==
  ASSUME Init
  PROVE  Inv /\ Promise!Init
<1>1. Stage = "none" /\ ~Shared /\ Caller = NoOne
  BY DEF Init, Stage, Shared, Caller
<1>2. n \in Nat /\ n > 0 /\ kind \in {"channel", "cond", "spin", "gemm"}
      /\ Workers = 0..(n - 1) /\ Workers \subseteq AllWorkers
  BY PoolAssumption DEF Init, Workers, AllWorkers
<1>3. at \in [AllWorkers -> {"idle", "gone"}]
      /\ \A w \in AllWorkers : at[w] = IF w < n THEN "idle" ELSE "gone"
  BY DEF Init
<1>4. \A w \in Workers : at[w] = "idle"
  BY <1>2, <1>3
<1>5. TypeOK
  <2>1. at \in [AllWorkers -> Working \cup Resting \cup {"fetch", "report"}]
    BY <1>3 DEF Resting
  <2>2. pc \in [Callers -> Outside \cup Inside] /\ seen \in [AllWorkers -> Nat]
    BY DEF Init, Outside
  <2>3. tiles \in -1..MaxTiles
    BY PoolAssumption DEF Init
  <2> QED
    BY <1>2, <2>1, <2>2, <2>3 DEF Init, TypeOK
<1>6. Locked
  BY <1>1 DEF Init, Locked, Inside
<1>7. Leaving
  <2>1. \A w \in AllWorkers \ Workers : ~(w < n)
    <3>1. \A w \in AllWorkers : w \in Nat
      BY PoolAssumption DEF AllWorkers
    <3> QED
      BY <1>2, <3>1
  <2> QED
    BY <1>3, <1>4, <2>1 DEF Init, Leaving
<1>8. Channelled
  BY <1>2, <1>4 DEF Init, Channelled, Unused
<1>9. Signalled
  <2>1. \A w \in Workers : seen[w] = phase
    BY <1>2 DEF Init
  <2> QED
    BY <1>1, <1>4, <2>1 DEF Init, Signalled, Resting
<1>10. Results
  BY <1>1 DEF Results, Inside
<1>11. Inv
  BY <1>5, <1>6, <1>7, <1>8, <1>9, <1>10 DEF Inv
<1>12. Busy = {}
  <2>1. tiles = -1
    BY DEF Init
  <2> QED
    BY <1>11, <2>1, BetweenRuns
<1>13. Want = {}
  <2>1. \A i \in 0..(MaxTiles - 1) : ~(i < -1)
    BY PoolAssumption
  <2> QED
    BY <2>1 DEF Init, Want, Between
<1>14. Alive \in SUBSET AllWorkers
  BY DEF Alive
<1> QED
  BY <1>1, <1>11, <1>12, <1>13, <1>14 DEF Init, Promise!Init

(* Every step of the pool keeps the invariant and is a step of ForkJoin,   *)
(* or none of its business.                                                *)
LEMMA StepOK ==
  ASSUME Inv, [Next]_vars
  PROVE  Kept
<1>1. CASE \E c \in Runners : Begin(c, "run")
  BY <1>1, BeginKeeps, PoolAssumption
<1>2. CASE \E c \in Callers : Begin(c, "close") \/ Expire(c)
  BY <1>2, BeginKeeps, ExpireKeeps
<1>3. ASSUME NEW c \in Callers, Step(c) PROVE Kept
  <2>1. CASE Refused(c) \/ Late(c) \/ Admit(c)
    BY <2>1, RefusedKeeps, AdmitKeeps
  <2>2. CASE Submit(c) \/ Submitted(c) \/ Collect(c) \/ Collected(c) \/ OwnPart(c) \/ Last(c)
    BY <2>2, SubmitKeeps, SubmittedKeeps, CollectKeeps, CollectedKeeps, OwnPartKeeps, LastKeeps
  <2>3. CASE Broadcast(c) \/ Recheck(c)
    BY <2>3, BroadcastKeeps, RecheckKeeps
  <2>4. CASE SpinReset(c) \/ SpinStore(c) \/ SpinSignal(c) \/ SpinWait(c) \/ SpinClear(c)
    BY <2>4, SpinPrepareKeeps, SpinSignalKeeps, SpinWaitKeeps, SpinClearKeeps
  <2>5. CASE Closing(c) \/ Again(c) \/ AlreadyClosed(c) \/ Shut(c) \/ Joined(c)
    BY <2>5, ClosingKeeps, AlreadyClosedKeeps, ShutKeeps, JoinedKeeps
  <2> QED
    BY <1>3, <2>1, <2>2, <2>3, <2>4, <2>5 DEF Step
<1>4. ASSUME NEW w \in Workers, Work(w) PROVE Kept
  <2>1. CASE Receive(w) \/ ChannelEnds(w) \/ Post(w)
    BY <2>1, ChannelKeeps, ChannelEndsKeeps
  <2>2. CASE Check(w) \/ Count(w)
    BY <2>2, CheckKeeps, CountKeeps
  <2>3. CASE LoadStop(w) \/ LoadGen(w) \/ LoadFn(w) \/ Add(w)
    BY <2>3, LoadKeeps, AddKeeps
  <2>4. CASE Worked(w)
    BY <2>4, WorkedKeeps
  <2>5. CASE Arrive(w) \/ AddCount(w) \/ ResetCount(w) \/ Bump(w) \/ Released(w)
    BY <2>5, BarrierKeeps
  <2> QED
    BY <1>4, <2>1, <2>2, <2>3, <2>4, <2>5 DEF Work
<1>5. CASE UNCHANGED vars
  <2>1. /\ UNCHANGED rest
        /\ UNCHANGED <<ran, at, queued, ready, fn, phase, done, seen>>
    BY <1>5 DEF vars, rest, pool, callers, locks, job, progress, channels, signal
  <2>2. /\ Stage' = Stage /\ Caller' = Caller /\ Workers' = Workers /\ Locked'
    BY <2>1, RestKept
  <2>3. /\ Channelled' /\ Signalled' /\ Results'
        /\ Busy' = Busy /\ Want' = Want /\ Alive' = Alive
    BY <2>1, <2>2, WorkersKept DEF rest, Inv
  <2>4. TypeOK' /\ Leaving'
    BY <2>1, <2>2 DEF Inv, TypeOK, Leaving, rest
  <2>5. [Promise!Next]_(Promise!vars)
    BY <2>1, <2>2, <2>3, Stutters DEF rest
  <2> QED
    BY <2>2, <2>3, <2>4, <2>5 DEF Inv, Kept
<1> QED
  BY <1>1, <1>2, <1>3, <1>4, <1>5 DEF Next

(* The invariant of the pools holds always: a caller in a run holds the    *)
(* pool and the pool is open, every job is in one place, the count is of   *)
(* those who came back, and what was worked on is what was finished.       *)
THEOREM PoolInductive == Spec => []Inv
<1>1. Init => Inv
  BY InitOK
<1>2. Inv /\ [Next]_vars => Inv'
  BY StepOK DEF Kept
<1> QED
  BY <1>1, <1>2, PTL DEF Spec

(* Every pool keeps the promise of ForkJoin, whatever the number of its    *)
(* workers, tiles, callers and calls: no tile is left out or worked on     *)
(* twice, a run returns with nothing in hand, without an error only when   *)
(* all of it was done, a closed pool runs nothing, and Close returns when  *)
(* every worker is gone.                                                   *)
THEOREM PoolsForkAndJoin == Spec => ImplementsForkJoin
<1>1. Init => Promise!Init
  BY InitOK
<1>2. Inv /\ [Next]_vars => [Promise!Next]_(Promise!vars)
  BY StepOK DEF Kept
<1> QED
  BY <1>1, <1>2, PoolInductive, PTL DEF Spec, ImplementsForkJoin, Promise!Spec
=============================================================================
