----------------------------- MODULE WorkerPools -----------------------------
(***************************************************************************)
(* The pools of persistent workers that split one matrix product at a time:*)
(*   "channel"  ime2.WorkerPool: one job channel and one done channel each *)
(*   "cond"     ime2.CondPool: one condition variable for everybody        *)
(*   "spin"     aipool.AIWorkerPool: a generation counter workers spin on, *)
(*              whose callback may walk in pairs through Q4KPairBarrier    *)
(*   "gemm"     simd.GEMMPool: channels again, a cancellable context, and  *)
(*              fewer jobs than workers                                    *)
(* The kind and the number of workers are chosen when the pool is made.    *)
(* Rows are counted in tiles, the unit each pool partitions by.            *)
(*                                                                         *)
(* A critical section of CondPool.mu or GEMMPool.stateMu does not block in *)
(* the middle and is one action; every atomic access of the spinning pool  *)
(* is an action of its own.                                                *)
(***************************************************************************)
EXTENDS Integers, FiniteSets

CONSTANTS
  Callers,     \* goroutines that call Close
  Runners,     \* those of them that call Run as well
  Kinds,       \* the kinds of pool
  PoolSizes,   \* how many workers a pool may have
  MaxTiles,    \* bound: most tiles in a run
  MaxCalls     \* bound: calls of Run and Close in all

NoOne == "no one"

AllWorkers == UNION {0..(k - 1) : k \in PoolSizes}

ASSUME PoolAssumption ==
  /\ NoOne \notin Callers /\ Runners \subseteq Callers
  /\ PoolSizes \subseteq Nat \ {0}
  /\ MaxTiles \in Nat /\ MaxCalls \in Nat
  /\ Kinds \subseteq {"channel", "cond", "spin", "gemm"}

VARIABLES
  kind, n,   \* the pool
  pc,        \* where each caller is
  answer,    \* how its last call ended
  calls,     \* calls made
  expired,   \* callers whose context is done (gemm)
  mutex,     \* who holds runMu
  closing,   \* GEMMPool.closing
  closed,    \* closed; AIWorkerPool.stop
  tiles,     \* the size of the run; -1 between runs
  tail,      \* it has rows beyond the last full tile (gemm)
  wave,      \* the spinning workers pair up (spin)
  sent, got, \* jobs submitted and awaited (channel, gemm)
  failed,    \* firstErr
  ran,       \* the tiles worked on in this run
  at,        \* where each worker is
  queued,    \* workers whose job channel holds a job
  ready,     \* workers whose done channel holds a token
  fn,        \* whether CondPool.fn or AIWorkerPool.fn is set
  phase,     \* CondPool.phase, AIWorkerPool.gen
  seen,      \* each worker's myPhase, lastGen
  done,      \* CondPool.done, AIWorkerPool.done
  turns,     \* barrier waits each worker has before it
  count, turn, \* Q4KPairBarrier.count and phase, for each pair
  mine         \* the barrier phase each worker read on arrival

pool == <<kind, n>>
callers == <<pc, answer, calls, expired>>
locks == <<mutex, closing, closed>>
job == <<tiles, tail, wave>>
progress == <<sent, got, failed>>
channels == <<queued, ready>>
signal == <<fn, phase, done>>
barrier == <<turns, count, turn, mine>>
vars == <<pool, callers, locks, job, progress, ran, at, channels, signal, seen, barrier>>

Workers == 0..(n - 1)

Pair(w) == w \div 2

(* The tail is an item of its own.                                         *)
Tail == MaxTiles

Init ==
  /\ kind \in Kinds /\ n \in PoolSizes
  /\ pc = [c \in Callers |-> "out"]
  /\ answer = [c \in Callers |-> "none"]
  /\ calls = 0 /\ expired = {}
  /\ mutex = NoOne /\ closing = FALSE /\ closed = FALSE
  /\ tiles = -1 /\ tail = FALSE /\ wave = FALSE
  /\ sent = 0 /\ got = 0 /\ failed = FALSE /\ ran = {}
  /\ at = [w \in AllWorkers |-> IF w < n THEN "idle" ELSE "gone"]
  /\ queued = {} /\ ready = {}
  /\ fn = FALSE /\ phase = 0 /\ done = 0
  /\ seen = [w \in AllWorkers |-> 0]
  /\ turns = [w \in AllWorkers |-> 0]
  /\ count = [p \in {Pair(w) : w \in AllWorkers} |-> 0]
  /\ turn = [p \in {Pair(w) : w \in AllWorkers} |-> 0]
  /\ mine = [w \in AllWorkers |-> 0]

-----------------------------------------------------------------------------
(* How a run is split. *)

Lesser(a, b) == IF a < b THEN a ELSE b

(* useWorkers; one or none means the caller works alone.                   *)
Jobs == IF kind = "gemm" THEN Lesser(n, tiles) ELSE n

Between(a, b) == {i \in 0..(MaxTiles - 1) : a <= i /\ i < b /\ i < tiles}

(* Mutant of Chunk: rounded down, the last tiles are lost.                  *)
ChunkDown == tiles \div Jobs

(* tileChunk, panelChunk: rounded up, so the last workers may get nothing. *)
Chunk == (tiles + Jobs - 1) \div Jobs

(* GemmINT8PackedPool: rounded down, the last worker takes the rest.       *)
Even(w) == Between(w * (tiles \div n), IF w = n - 1 THEN tiles ELSE (w + 1) * (tiles \div n))

(* runAIGemmWorkerWithActMode.                                             *)
Spread(w) == Between((w * tiles) \div n, IF w = n - 1 THEN tiles ELSE ((w + 1) * tiles) \div n)

(* runAIGemmWorkerTCMBWaveMode.                                            *)
Strided(w) == {i \in Between(0, tiles) : i % n = w}

Share(w) ==
  CASE kind = "gemm" -> Between(w * Chunk, (w + 1) * Chunk)
    [] kind = "spin" -> IF wave THEN Strided(w) ELSE Spread(w)
    [] OTHER -> Even(w)

Own == (IF Jobs <= 1 THEN Between(0, tiles) ELSE {}) \cup (IF tail THEN {Tail} ELSE {})

(* The two of a pair must come to the barrier equally often.               *)
WaveFits(t) == n % 2 = 0 /\ t >= n /\ (t % n) % 2 = 0

-----------------------------------------------------------------------------
(* Calls. *)

Goto(c, s) == pc' = [pc EXCEPT ![c] = s]

(* Leave a call that has no run.                                           *)
Answer(c, a) ==
  /\ Goto(c, "out")
  /\ answer' = [answer EXCEPT ![c] = a]
  /\ UNCHANGED <<calls, expired>>

Begin(c, what) ==
  /\ pc[c] = "out" /\ calls < MaxCalls
  /\ Goto(c, what) /\ calls' = calls + 1
  /\ answer' = [answer EXCEPT ![c] = "none"]
  /\ expired' = expired \ {c}
  /\ UNCHANGED <<pool, locks, job, progress, ran, at, channels, signal, seen, barrier>>

Expire(c) ==
  /\ kind = "gemm" /\ pc[c] \in {"run", "send", "await", "own", "last"}
  /\ expired' = expired \cup {c}
  /\ UNCHANGED <<pool, pc, answer, calls, locks, job, progress, ran, at, channels, signal,
                 seen, barrier>>

(* runMu is taken and the pool is not open: a refusal, or nothing at all.  *)
Refused(c) ==
  /\ pc[c] = "run" /\ mutex = NoOne
  /\ closed \/ closing
  /\ Answer(c, "refused")
  /\ UNCHANGED <<pool, locks, job, progress, ran, at, channels, signal, seen, barrier>>

Late(c) ==
  /\ pc[c] = "run" /\ mutex = NoOne /\ ~closed /\ ~closing
  /\ c \in expired
  /\ Answer(c, "cancelled")
  /\ UNCHANGED <<pool, locks, job, progress, ran, at, channels, signal, seen, barrier>>

(* Arguments are valid; a gemm of fewer than two jobs is runDirect.        *)
Admit(c) ==
  /\ pc[c] = "run" /\ mutex = NoOne /\ ~closed /\ ~closing /\ c \notin expired
  /\ mutex' = c
  /\ \E t \in 0..MaxTiles, b \in BOOLEAN, f \in BOOLEAN :
       /\ t > 0 \/ kind = "gemm"
       /\ b => kind = "gemm"
       /\ f => kind = "spin" /\ WaveFits(t)
       /\ tiles' = t /\ tail' = b /\ wave' = f
       /\ Goto(c, IF kind = "gemm" /\ Lesser(n, t) <= 1 THEN "own" ELSE "send")
  /\ UNCHANGED <<pool, answer, calls, expired, closing, closed, progress, ran, at, channels,
                 signal, seen, barrier>>

(* Leave a run and runMu.                                                  *)
Return(c, a) ==
  /\ Answer(c, a)
  /\ mutex' = NoOne
  /\ tiles' = -1 /\ tail' = FALSE /\ wave' = FALSE
  /\ sent' = 0 /\ got' = 0 /\ failed' = FALSE
  /\ ran' = {}
  /\ UNCHANGED <<closing, closed>>

-----------------------------------------------------------------------------
(* Run on channels: "channel" and "gemm". *)

HasChannels == kind \in {"channel", "gemm"}

(* The channel has room: the worker's last token has been received.        *)
Submit(c) ==
  /\ HasChannels /\ pc[c] = "send"
  /\ sent < Jobs /\ c \notin expired
  /\ kind = "gemm" => Share(sent) # {}
  /\ sent \notin queued
  /\ queued' = queued \cup {sent}
  /\ sent' = sent + 1
  /\ UNCHANGED <<pool, callers, locks, job, got, failed, ran, at, ready, signal, seen, barrier>>

(* Every job is submitted, the rest have no rows, or the context is done.  *)
Submitted(c) ==
  /\ HasChannels /\ pc[c] = "send"
  /\ \/ sent = Jobs /\ UNCHANGED failed
     \/ sent < Jobs /\ c \in expired /\ failed' = TRUE
     \/ kind = "gemm" /\ sent < Jobs /\ c \notin expired /\ Share(sent) = {} /\ UNCHANGED failed
  /\ Goto(c, "await")
  /\ UNCHANGED <<pool, answer, calls, expired, locks, job, sent, got, ran, at, channels, signal,
                 seen, barrier>>

Collect(c) ==
  /\ HasChannels /\ pc[c] = "await"
  /\ got < sent /\ got \in ready
  /\ ready' = ready \ {got}
  /\ got' = got + 1
  /\ failed' = (failed \/ c \in expired)
  /\ UNCHANGED <<pool, callers, locks, job, sent, ran, at, queued, signal, seen, barrier>>

(* Mutant of Collected: an error is returned as soon as it is known, with   *)
(* jobs still in hand.                                                     *)
CollectedEarly(c) ==
  /\ HasChannels /\ pc[c] = "await" /\ (got = sent \/ failed)
  /\ \/ /\ ~failed /\ tail
        /\ Goto(c, "own")
        /\ UNCHANGED <<answer, calls, expired, locks, job, progress, ran>>
     \/ /\ failed \/ ~tail
        /\ Return(c, IF failed THEN "cancelled" ELSE "done")
  /\ UNCHANGED <<pool, at, channels, signal, seen, barrier>>

Collected(c) ==
  /\ HasChannels /\ pc[c] = "await" /\ got = sent
  /\ \/ /\ ~failed /\ tail
        /\ Goto(c, "own")
        /\ UNCHANGED <<answer, calls, expired, locks, job, progress, ran>>
     \/ /\ failed \/ ~tail
        /\ Return(c, IF failed THEN "cancelled" ELSE "done")
  /\ UNCHANGED <<pool, at, channels, signal, seen, barrier>>

(* The caller's own part, on the scratch of the first worker, with a look  *)
(* at the context before and after.                                        *)
OwnPart(c) ==
  /\ pc[c] = "own"
  /\ \/ c \in expired /\ Return(c, "cancelled")
     \/ /\ c \notin expired
        /\ ran' = ran \cup Own /\ Goto(c, "last")
        /\ UNCHANGED <<answer, calls, expired, locks, job, progress>>
  /\ UNCHANGED <<pool, at, channels, signal, seen, barrier>>

Last(c) ==
  /\ pc[c] = "last"
  /\ Return(c, IF c \in expired THEN "cancelled" ELSE "done")
  /\ UNCHANGED <<pool, at, channels, signal, seen, barrier>>

-----------------------------------------------------------------------------
(* Run on a condition variable. *)

(* cond.Broadcast wakes every sleeper. *)
WakeWorkers(f) == [w \in AllWorkers |-> IF f[w] = "asleep" THEN "idle" ELSE f[w]]

WakeCallers(f) == [c \in Callers |-> IF f[c] = "asleep" THEN "await" ELSE f[c]]

(* Set the job, wake everybody and sleep.                                  *)
Broadcast(c) ==
  /\ kind = "cond" /\ pc[c] = "send"
  /\ fn' = TRUE /\ done' = 0 /\ phase' = phase + 1
  /\ at' = WakeWorkers(at)
  /\ Goto(c, "asleep")
  /\ UNCHANGED <<pool, answer, calls, expired, locks, job, progress, ran, channels, seen, barrier>>

Recheck(c) ==
  /\ kind = "cond" /\ pc[c] = "await"
  /\ \/ /\ done < n
        /\ Goto(c, "asleep")
        /\ UNCHANGED <<answer, calls, expired, locks, job, progress, ran, fn>>
     \/ /\ done = n
        /\ fn' = FALSE
        /\ Return(c, "done")
  /\ UNCHANGED <<pool, at, channels, phase, done, seen, barrier>>

-----------------------------------------------------------------------------
(* Run on a spinning generation counter, one atomic access at a time. *)

SpinReset(c) ==
  /\ kind = "spin" /\ pc[c] = "send"
  /\ done' = 0
  /\ Goto(c, "store")
  /\ UNCHANGED <<pool, answer, calls, expired, locks, job, progress, ran, at, channels, fn,
                 phase, seen, barrier>>

(* The callback carries a barrier of its own.                              *)
SpinStore(c) ==
  /\ kind = "spin" /\ pc[c] = "store"
  /\ fn' = TRUE
  /\ count' = [p \in DOMAIN count |-> 0] /\ turn' = [p \in DOMAIN turn |-> 0]
  /\ Goto(c, "signal")
  /\ UNCHANGED <<pool, answer, calls, expired, locks, job, progress, ran, at, channels, phase,
                 done, seen, turns, mine>>

SpinSignal(c) ==
  /\ kind = "spin" /\ pc[c] = "signal"
  /\ phase' = phase + 1
  /\ Goto(c, "await")
  /\ UNCHANGED <<pool, answer, calls, expired, locks, job, progress, ran, at, channels, fn, done,
                 seen, barrier>>

SpinWait(c) ==
  /\ kind = "spin" /\ pc[c] = "await" /\ done >= n
  /\ Goto(c, "clear")
  /\ UNCHANGED <<pool, answer, calls, expired, locks, job, progress, ran, at, channels, signal,
                 seen, barrier>>

SpinClear(c) ==
  /\ kind = "spin" /\ pc[c] = "clear"
  /\ fn' = FALSE
  /\ Return(c, "done")
  /\ UNCHANGED <<pool, at, channels, phase, done, seen, barrier>>

-----------------------------------------------------------------------------
(* Close. *)

(* The first Close of a gemm pool turns new runs away before it waits for  *)
(* the present one; a later one waits for runMu, then for the workers.     *)
Closing(c) ==
  /\ kind = "gemm" /\ pc[c] = "close"
  /\ \/ closing /\ Goto(c, "again") /\ UNCHANGED closing
     \/ ~closing /\ Goto(c, "shut") /\ closing' = TRUE
  /\ UNCHANGED <<pool, answer, calls, expired, mutex, closed, job, progress, ran, at, channels,
                 signal, seen, barrier>>

Again(c) ==
  /\ pc[c] = "again" /\ mutex = NoOne
  /\ Goto(c, "join")
  /\ UNCHANGED <<pool, answer, calls, expired, locks, job, progress, ran, at, channels, signal,
                 seen, barrier>>

AlreadyClosed(c) ==
  /\ kind # "gemm" /\ pc[c] = "close" /\ mutex = NoOne /\ closed
  /\ Answer(c, "closed")
  /\ UNCHANGED <<pool, locks, job, progress, ran, at, channels, signal, seen, barrier>>

(* Mutant of Shut: CondPool.Close does not broadcast.                       *)
ShutQuietly(c) ==
  /\ pc[c] = (IF kind = "gemm" THEN "shut" ELSE "close")
  /\ mutex = NoOne /\ ~closed
  /\ mutex' = c /\ closed' = TRUE
  /\ Goto(c, "join")
  /\ IF kind = "cond" THEN fn' = FALSE /\ phase' = phase + 1 ELSE UNCHANGED <<fn, phase>>
  /\ UNCHANGED <<pool, answer, calls, expired, closing, job, progress, ran, at, channels, done,
                 seen, barrier>>

(* Tell the workers: close the channels, wake the sleepers with no job, or *)
(* set the stop flag.                                                      *)
Shut(c) ==
  /\ pc[c] = (IF kind = "gemm" THEN "shut" ELSE "close")
  /\ mutex = NoOne /\ ~closed
  /\ mutex' = c /\ closed' = TRUE
  /\ Goto(c, "join")
  /\ IF kind = "cond"
     THEN fn' = FALSE /\ phase' = phase + 1 /\ at' = WakeWorkers(at)
     ELSE UNCHANGED <<fn, phase, at>>
  /\ UNCHANGED <<pool, answer, calls, expired, closing, job, progress, ran, channels, done, seen,
                 barrier>>

(* workers.Wait; what the workers used is released here.                   *)
Joined(c) ==
  /\ pc[c] = "join"
  /\ \A w \in Workers : at[w] = "gone"
  /\ Answer(c, "closed")
  /\ mutex' = IF mutex = c THEN NoOne ELSE mutex
  /\ UNCHANGED <<pool, closing, closed, job, progress, ran, at, channels, signal, seen, barrier>>

-----------------------------------------------------------------------------
(* Workers. *)

Move(w, s) == at' = [at EXCEPT ![w] = s]

Receive(w) ==
  /\ HasChannels /\ at[w] = "idle" /\ w \in queued
  /\ queued' = queued \ {w}
  /\ Move(w, "work")
  /\ UNCHANGED <<pool, callers, locks, job, progress, ran, ready, signal, seen, barrier>>

(* The range over a closed and empty channel ends.                         *)
ChannelEnds(w) ==
  /\ HasChannels /\ at[w] = "idle" /\ w \notin queued /\ closed
  /\ Move(w, "gone")
  /\ UNCHANGED <<pool, callers, locks, job, progress, ran, channels, signal, seen, barrier>>

Post(w) ==
  /\ HasChannels /\ at[w] = "report" /\ w \notin ready
  /\ ready' = ready \cup {w}
  /\ Move(w, "idle")
  /\ UNCHANGED <<pool, callers, locks, job, progress, ran, queued, signal, seen, barrier>>

(* Under CondPool.mu: sleep while the phase is the one already served.     *)
Check(w) ==
  /\ kind = "cond" /\ at[w] = "idle"
  /\ \/ phase = seen[w] /\ Move(w, "asleep") /\ UNCHANGED seen
     \/ /\ phase # seen[w]
        /\ seen' = [seen EXCEPT ![w] = phase]
        /\ Move(w, IF fn THEN "work" ELSE "gone")
  /\ UNCHANGED <<pool, callers, locks, job, progress, ran, channels, signal, barrier>>

(* Mutant of Count: the last one signals, and one sleeper of them wakes.    *)
CountSignals(w) ==
  /\ kind = "cond" /\ at[w] = "report"
  /\ done' = done + 1
  /\ \/ done' = n /\ Move(w, "idle") /\ pc' = WakeCallers(pc)
     \/ /\ done' = n
        /\ \E v \in {u \in Workers : at[u] = "asleep"} :
             at' = [at EXCEPT ![v] = "idle", ![w] = "idle"]
        /\ UNCHANGED pc
     \/ done' < n /\ Move(w, "idle") /\ UNCHANGED pc
  /\ UNCHANGED <<pool, answer, calls, expired, locks, job, progress, ran, channels, fn, phase,
                 seen, barrier>>

(* Only the last one broadcasts, and wakes the caller of Run.              *)
Count(w) ==
  /\ kind = "cond" /\ at[w] = "report"
  /\ done' = done + 1
  /\ IF done' = n
     THEN at' = [WakeWorkers(at) EXCEPT ![w] = "idle"] /\ pc' = WakeCallers(pc)
     ELSE Move(w, "idle") /\ UNCHANGED pc
  /\ UNCHANGED <<pool, answer, calls, expired, locks, job, progress, ran, channels, fn, phase,
                 seen, barrier>>

LoadStop(w) ==
  /\ kind = "spin" /\ at[w] = "idle"
  /\ Move(w, IF closed THEN "gone" ELSE "gen")
  /\ UNCHANGED <<pool, callers, locks, job, progress, ran, channels, signal, seen, barrier>>

LoadGen(w) ==
  /\ kind = "spin" /\ at[w] = "gen"
  /\ seen' = [seen EXCEPT ![w] = phase]
  /\ Move(w, IF phase = seen[w] THEN "idle" ELSE "fetch")
  /\ UNCHANGED <<pool, callers, locks, job, progress, ran, channels, signal, barrier>>

(* A wave is one barrier wait more than it has tiles.                      *)
LoadFn(w) ==
  /\ kind = "spin" /\ at[w] = "fetch"
  /\ IF fn
     THEN /\ turns' = [turns EXCEPT ![w] = IF wave THEN Cardinality(Share(w)) + 1 ELSE 0]
          /\ Move(w, "work")
     ELSE Move(w, "report") /\ UNCHANGED turns
  /\ UNCHANGED <<pool, callers, locks, job, progress, ran, channels, signal, seen, count, turn,
                 mine>>

Add(w) ==
  /\ kind = "spin" /\ at[w] = "report"
  /\ done' = done + 1
  /\ Move(w, "idle")
  /\ UNCHANGED <<pool, callers, locks, job, progress, ran, channels, fn, phase, seen, barrier>>

(* The callback returns.                                                   *)
Worked(w) ==
  /\ at[w] = "work" /\ turns[w] = 0
  /\ ran' = ran \cup Share(w)
  /\ Move(w, "report")
  /\ UNCHANGED <<pool, callers, locks, job, progress, channels, signal, seen, barrier>>

-----------------------------------------------------------------------------
(* Q4KPairBarrier.Wait, inside the callback. *)

BarrierStep(w) ==
  UNCHANGED <<pool, callers, locks, job, progress, ran, channels, signal, seen>>

Arrive(w) ==
  /\ at[w] = "work" /\ turns[w] > 0
  /\ mine' = [mine EXCEPT ![w] = turn[Pair(w)]]
  /\ Move(w, "arrived")
  /\ BarrierStep(w)
  /\ UNCHANGED <<turns, count, turn>>

AddCount(w) ==
  /\ at[w] = "arrived"
  /\ count' = [count EXCEPT ![Pair(w)] = @ + 1]
  /\ Move(w, IF count'[Pair(w)] = 2 THEN "reset" ELSE "waiting")
  /\ BarrierStep(w)
  /\ UNCHANGED <<turns, turn, mine>>

ResetCount(w) ==
  /\ at[w] = "reset"
  /\ count' = [count EXCEPT ![Pair(w)] = 0]
  /\ Move(w, "bump")
  /\ BarrierStep(w)
  /\ UNCHANGED <<turns, turn, mine>>

Through(w) ==
  /\ turns' = [turns EXCEPT ![w] = @ - 1]
  /\ Move(w, "work")

Bump(w) ==
  /\ at[w] = "bump"
  /\ turn' = [turn EXCEPT ![Pair(w)] = @ + 1]
  /\ Through(w)
  /\ BarrierStep(w)
  /\ UNCHANGED <<count, mine>>

Released(w) ==
  /\ at[w] = "waiting" /\ turn[Pair(w)] # mine[w]
  /\ Through(w)
  /\ BarrierStep(w)
  /\ UNCHANGED <<count, turn, mine>>

-----------------------------------------------------------------------------

Step(c) ==
  \/ Refused(c) \/ Late(c) \/ Admit(c)
  \/ Submit(c) \/ Submitted(c) \/ Collect(c) \/ Collected(c) \/ OwnPart(c) \/ Last(c)
  \/ Broadcast(c) \/ Recheck(c)
  \/ SpinReset(c) \/ SpinStore(c) \/ SpinSignal(c) \/ SpinWait(c) \/ SpinClear(c)
  \/ Closing(c) \/ Again(c) \/ AlreadyClosed(c) \/ Shut(c) \/ Joined(c)

Work(w) ==
  \/ Receive(w) \/ ChannelEnds(w) \/ Post(w)
  \/ Check(w) \/ Count(w)
  \/ LoadStop(w) \/ LoadGen(w) \/ LoadFn(w) \/ Add(w)
  \/ Worked(w)
  \/ Arrive(w) \/ AddCount(w) \/ ResetCount(w) \/ Bump(w) \/ Released(w)

Next ==
  \/ \E c \in Runners : Begin(c, "run")
  \/ \E c \in Callers : Begin(c, "close") \/ Expire(c) \/ Step(c)
  \/ \E w \in Workers : Work(w)

Spec == Init /\ [][Next]_vars

(* A goroutine that can go on does: Go schedules every runnable goroutine  *)
(* and hands a mutex to a waiter that has waited long.  Nobody has to call,*)
(* and no context has to end.                                              *)
Fairness ==
  /\ \A c \in Callers : WF_vars(Step(c))
  /\ \A w \in AllWorkers : WF_vars(Work(w))

FairSpec == Spec /\ Fairness

-----------------------------------------------------------------------------
(* Properties. *)

(* Handed out by the submitter and not finished.                           *)
Handed(w) ==
  \/ w \in queued
  \/ at[w] \in {"work", "fetch", "arrived", "reset", "bump", "waiting"}
  \/ ~HasChannels /\ fn /\ phase # seen[w]

Busy == UNION {Share(w) : w \in {v \in Workers : Handed(v)}}

Caller == IF tiles = -1 THEN NoOne ELSE mutex

Want == Between(0, tiles) \cup (IF tail THEN {Tail} ELSE {})

Alive == {w \in AllWorkers : at[w] # "gone"}

(* Every kind of pool keeps the promise of ForkJoin: no tile is left out   *)
(* or worked on twice whatever the numbers, a run does not return, the     *)
(* caller does not use a worker's scratch and a worker does not leave      *)
(* while a job is in hand, cancelled or not, and Close returns only when   *)
(* every worker is gone.                                                   *)
Promise == INSTANCE ForkJoin WITH
  Workers <- AllWorkers,
  Items <- 0..MaxTiles,
  run <- Caller,
  want <- Want,
  busy <- Busy,
  alive <- Alive,
  stopping <- closed \/ closing,
  stopped <- closed

ImplementsForkJoin == Promise!Spec

(* Every Run and every Close returns: no wake-up is lost, no worker waits  *)
(* for a token nobody sends, and the two of a pair meet at the barrier as  *)
(* often as each other.                                                    *)
CallsReturn == \A c \in Callers : pc[c] # "out" ~> pc[c] = "out"
=============================================================================
