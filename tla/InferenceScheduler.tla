------------------------ MODULE InferenceScheduler ------------------------
(***************************************************************************)
(* Decode-first scheduling of resumable inference sessions:                *)
(* runtime/inferencesched/scheduler.go, with the sessions behind the Work  *)
(* interface as model/gemma4_scheduled_work.go adapts them.                *)
(*                                                                         *)
(* Add, Step and the first half of Close hold one mutex; a request's       *)
(* context may expire at any time, in the middle of a Step as well.  A     *)
(* Step is therefore not one action: it sweeps and admits, then gives      *)
(* turns to the running requests one by one (first to decode, then to      *)
(* prefill), then sweeps again.  A sweep reads every context once, so it   *)
(* is one action.  Close releases what it took outside the mutex.          *)
(***************************************************************************)
EXTENDS Lists, Integers, SequencesExt

CONSTANTS
  Requests,       \* the request identities callers use; one may come back
  Arrival,        \* Request.ArrivalSeq of each
  MaxActive,      \* Config.MaxActive
  DecodeBudget,   \* Config.DecodeBudget
  PrefillBudget,  \* Config.PrefillBudget
  MaxPrompt,      \* bound: most tokens left to prefill when added
  MaxTokens,      \* bound: most tokens to decode
  Long,           \* requests that decode beyond the horizon of the model
  Faulty,         \* requests whose work stalls, fails or miscounts
  Cancellable     \* requests whose context may expire

(* Config.Validate.                                                        *)
ASSUME ConfigAssumption ==
  /\ MaxActive \in Nat \ {0}
  /\ DecodeBudget \in Nat /\ PrefillBudget \in Nat
  /\ Arrival \in [Requests -> Nat]

ASSUME BoundsAssumption == MaxPrompt \in Nat /\ MaxTokens \in Nat

VARIABLES
  waiting,        \* Scheduler.waiting
  running,        \* Scheduler.running
  index,          \* the keys of Scheduler.index
  decodeCursor,   \* Scheduler.decodeCursor
  prefillCursor,  \* Scheduler.prefillCursor
  closed,         \* Scheduler.closed
  closing,        \* the entries Close has still to release
  step,           \* where the current Step stands
  dead,           \* the entries this Step has released
  work,           \* what each request's work has left to do
  expired,        \* the requests whose context is done
  closes,         \* how often each request's present work was closed, up to 2
  served          \* the last turn that moved tokens

vars == <<waiting, running, index, decodeCursor, prefillCursor, closed, closing, step, dead,
          work, expired, closes, served>>

Nobody == [phase |-> "idle", who |-> "nobody"]

Idle == [phase |-> "idle", idx |-> 0, visited |-> 0, budget |-> 0, lastUsed |-> -1]

(* Every variable in its range; a token budget is never overspent, and no  *)
(* more requests run than the configuration allows.                        *)
TypeOK ==
  /\ waiting \in Seq(Requests) /\ running \in Seq(Requests) /\ closing \in Seq(Requests)
  /\ Len(running) <= MaxActive
  /\ index \subseteq Requests /\ dead \subseteq Requests /\ expired \subseteq Requests
  /\ decodeCursor \in 0..MaxActive /\ prefillCursor \in 0..MaxActive
  /\ closed \in BOOLEAN
  /\ step \in [phase : {"idle", "decode", "prefill", "sweep"}, idx : 0..MaxActive,
               visited : 0..MaxActive, budget : 0..(DecodeBudget + PrefillBudget),
               lastUsed : -1..MaxActive]
  /\ work \in [Requests -> [prefill : 0..MaxPrompt, decode : 0..MaxTokens]]
  /\ closes \in [Requests -> 0..2]
  /\ served = Nobody \/ served \in [phase : {"decode", "prefill"}, who : Requests]

Init ==
  /\ waiting = <<>> /\ running = <<>> /\ closing = <<>>
  /\ index = {} /\ dead = {} /\ expired = {}
  /\ decodeCursor = 0 /\ prefillCursor = 0
  /\ closed = FALSE
  /\ step = Idle
  /\ work = [i \in Requests |-> [prefill |-> 0, decode |-> 0]]
  /\ closes = [i \in Requests |-> 1]
  /\ served = Nobody

-----------------------------------------------------------------------------
(* The works.                                                              *)

Least(a, b) == IF a < b THEN a ELSE b

(* Gemma4DecodeSession: prefill first, then decode up to MaxTokens or a    *)
(* stop token.  A full prompt-cache hit leaves nothing to prefill, and     *)
(* MaxTokens = 0 leaves nothing to decode.                                 *)
Spent(w) == w.prefill = 0 /\ w.decode = 0

Finished(i) == Spent(work[i])

Wants(phase, i) ==
  /\ ~Finished(i)
  /\ (work[i].prefill = 0) <=> (phase = "decode")

(* What a turn of at most limit tokens may answer: how many it moved and   *)
(* whether it failed.  The session moves as many as it can; a work of some *)
(* other kind may move fewer, fail, or claim a count that cannot be.       *)
Answers(i, limit, left) ==
  IF i \in Faulty
  THEN [count : 0..Least(limit, left), failed : BOOLEAN]
         \cup [count : {-1, limit + 1}, failed : {FALSE}]
  ELSE {[count |-> Least(limit, left), failed |-> FALSE]}

TokensLeft(phase, i) ==
  IF phase = "prefill" THEN work[i].prefill
  ELSE IF i \in Long THEN DecodeBudget ELSE work[i].decode

(* runPrefill asks for no more than remains; runDecode for all it has.     *)
TurnLimit(phase, i) ==
  IF phase = "prefill" THEN Least(step.budget, work[i].prefill) ELSE step.budget

Advanced(phase, i, n) ==
  IF phase = "prefill" THEN [work EXCEPT ![i].prefill = @ - n]
  ELSE IF i \in Long THEN work
  ELSE [work EXCEPT ![i].decode = @ - n]

-----------------------------------------------------------------------------
(* The entries.                                                            *)

Alive(i) == i \notin dead

(* compactEntries: the entries that are not dead, in order.                *)
Keep(s, gone) == Kept(s, Requests \ gone)

(* Mutant of Release: the name stays taken.                                *)
ReleaseKeepsName(gone) ==
  /\ closes' = [i \in Requests |-> Least(2, closes[i] + (IF i \in gone THEN 1 ELSE 0))]
  /\ index' = index

(* cancelEntry, finishEntry, errorEntry: close the work and free the name; *)
(* the caller notes the entry as dead until the lists are compacted.  They *)
(* differ in what they report (Cancel only raises the adapter's flag).     *)
Release(gone) ==
  /\ closes' = [i \in Requests |-> Least(2, closes[i] + (IF i \in gone THEN 1 ELSE 0))]
  /\ index' = index \ gone

(* Mutant of Place: behind everybody.                                      *)
PlaceLast(i) == Len(waiting) + 1

(* The place of a new entry: behind every entry that does not arrive       *)
(* later, as order breaks ties and the new entry has the highest.          *)
Place(i) == Cardinality({k \in DOMAIN waiting : Arrival[waiting[k]] <= Arrival[i]}) + 1

(* Add, for an identity that is not in the index.  An identity is free     *)
(* again as soon as its entry has left the index.                          *)
Add(i) ==
  /\ step = Idle /\ ~closed
  /\ i \notin index
  /\ waiting' = InsertAt(waiting, Place(i), i)
  /\ index' = index \cup {i}
  /\ \E p \in 0..MaxPrompt, d \in (IF i \in Long THEN {MaxTokens} ELSE 0..MaxTokens) :
       work' = [work EXCEPT ![i] = [prefill |-> p, decode |-> d]]
  /\ expired' = expired \ {i}
  /\ closes' = [closes EXCEPT ![i] = 0]
  /\ UNCHANGED <<running, decodeCursor, prefillCursor, closed, closing, step, dead, served>>

(* The caller of Add cancels its context, or its deadline passes.          *)
Expire(i) ==
  /\ i \in Cancellable /\ i \in index \ expired
  /\ expired' = expired \cup {i}
  /\ UNCHANGED <<waiting, running, index, decodeCursor, prefillCursor, closed, closing, step,
                 dead, work, closes, served>>

-----------------------------------------------------------------------------
(* Step.                                                                   *)

(* Entering runDecode or runPrefill with the n running entries.            *)
Round(phase, cursor, n, budget) ==
  [phase |-> phase, idx |-> cursor % n, visited |-> 0, budget |-> budget, lastUsed |-> -1]

Sweep == [Idle EXCEPT !.phase = "sweep"]

PrefillRound(n) ==
  IF PrefillBudget > 0 /\ n > 0 THEN Round("prefill", prefillCursor', n, PrefillBudget) ELSE Sweep

FirstRound(n) ==
  IF DecodeBudget > 0 /\ n > 0 THEN Round("decode", decodeCursor', n, DecodeBudget)
  ELSE PrefillRound(n)

(* compact: the cursors stay within the running list.                      *)
CursorsWithin(n) ==
  /\ decodeCursor' = IF n = 0 THEN 0 ELSE decodeCursor % n
  /\ prefillCursor' = IF n = 0 THEN 0 ELSE prefillCursor % n

(* Mutant of Room: the bound off by one.                                   *)
RoomForOneMore(n, q) == Least(MaxActive + 1 - n, q)

(* How many of q waiting entries are admitted when n are running.          *)
Room(n, q) == Least(MaxActive - n, q)

(* Mutant of Withdrawn: only the waiting are asked.                        *)
WithdrawnWaiting == Range(waiting) \cap expired

(* cancelDoneWaiting, cancelDoneRunning at the beginning of a Step.        *)
Withdrawn == (Range(waiting) \cup Range(running)) \cap expired

(* Take the mutex; cancel what has expired, waiting or running; compact;   *)
(* admit from the front of the queue; release what is finished already.    *)
BeginStep ==
  LET gone == Withdrawn
      queue == Keep(waiting, gone)
      stay == Keep(running, gone)
      room == Room(Len(stay), Len(queue))
      done == {i \in Range(running') : Finished(i)}
  IN /\ step = Idle /\ ~closed
     /\ running' = stay \o SubSeq(queue, 1, room)
     /\ waiting' = SubSeq(queue, room + 1, Len(queue))
     /\ dead' = gone \cup done
     /\ Release(gone \cup done)
     /\ CursorsWithin(Len(stay))
     /\ step' = FirstRound(Len(running'))
     /\ UNCHANGED <<closed, closing, work, expired, served>>

(* Mutant of Behind: the next round begins where this one ended.           *)
BehindNobody(last, start, n) == (IF last >= 0 THEN last ELSE start) % n

(* Where the next round begins: behind the last entry served, or behind    *)
(* the first one visited when none was.                                    *)
Behind(last, start, n) == ((IF last >= 0 THEN last ELSE start) + 1) % n

(* The end of a visit: on to the next entry, or, when all were visited or  *)
(* the budget is spent, the cursor is set and the Step goes on.            *)
NextVisit(used) ==
  LET n == Len(running)
      left == step.budget - used
      last == IF used > 0 THEN step.idx ELSE step.lastUsed
      start == (IF step.phase = "decode" THEN decodeCursor ELSE prefillCursor) % n
      behind == Behind(last, start, n)
      over == left = 0 \/ step.visited + 1 = n
  IN /\ decodeCursor' = IF over /\ step.phase = "decode" THEN behind ELSE decodeCursor
     /\ prefillCursor' = IF over /\ step.phase = "prefill" THEN behind ELSE prefillCursor
     /\ step' = IF ~over
                THEN [step EXCEPT !.idx = (@ + 1) % n, !.visited = @ + 1, !.budget = left,
                                  !.lastUsed = last]
                ELSE IF step.phase = "decode" THEN PrefillRound(n) ELSE Sweep

Visited == running[step.idx + 1]

InRound == step.phase \in {"decode", "prefill"}

(* A visit that calls nothing: the entry is dead, or its work belongs to   *)
(* the other half of the Step.                                             *)
PassBy ==
  /\ InRound
  /\ ~Alive(Visited) \/ ~Wants(step.phase, Visited)
  /\ NextVisit(0)
  /\ UNCHANGED <<waiting, running, index, closed, closing, dead, work, expired, closes, served>>

(* A work that reports a negative remainder is released with an error.     *)
Miscount ==
  /\ InRound
  /\ Alive(Visited) /\ Visited \in Faulty
  /\ dead' = dead \cup {Visited}
  /\ Release({Visited})
  /\ NextVisit(0)
  /\ UNCHANGED <<waiting, running, closed, closing, work, expired, served>>

(* A turn: Decode or Prefill, the answer checked (validateProgress), the   *)
(* tokens counted, the entry released when the call failed, when the work  *)
(* is finished, or when its context is done.                               *)
Turn ==
  LET i == Visited
      limit == TurnLimit(step.phase, i)
  IN /\ InRound
     /\ Alive(i) /\ Wants(step.phase, i)
     /\ \E a \in Answers(i, limit, TokensLeft(step.phase, i)) :
          LET valid == a.count \in 0..limit
              used == IF valid THEN a.count ELSE 0
              gone == ~valid \/ a.failed \/ i \in expired \/ Spent(work'[i])
          IN /\ work' = Advanced(step.phase, i, used)
             /\ served' = IF used > 0 THEN [phase |-> step.phase, who |-> i] ELSE served
             /\ dead' = IF gone THEN dead \cup {i} ELSE dead
             /\ Release(IF gone THEN {i} ELSE {})
             /\ NextVisit(used)
     /\ UNCHANGED <<waiting, running, closed, closing, expired>>

(* Mutant of Leaving: the entries released in a turn are released again.   *)
LeavingAgain ==
  {i \in Range(running) : i \in expired \/ Finished(i)} \cup (Range(waiting) \cap expired)

(* cancelDoneWaiting and finishOrCancelRunning at the end of a Step.       *)
Leaving ==
  {i \in Range(running) : Alive(i) /\ (i \in expired \/ Finished(i))}
    \cup (Range(waiting) \cap expired)

(* The closing sweep: cancel the waiting that have expired, release the    *)
(* running that are finished or expired, compact, give the mutex back.     *)
EndStep ==
  LET gone == Leaving
  IN /\ step.phase = "sweep"
     /\ waiting' = Keep(waiting, gone)
     /\ running' = Keep(running, dead \cup gone)
     /\ Release(gone)
     /\ dead' = {}
     /\ CursorsWithin(Len(running'))
     /\ step' = Idle
     /\ UNCHANGED <<closed, closing, work, expired, served>>

-----------------------------------------------------------------------------
(* Close: under the mutex it empties the scheduler, ...                    *)
Close ==
  /\ step = Idle /\ ~closed
  /\ closed' = TRUE
  /\ closing' = waiting \o running
  /\ waiting' = <<>> /\ running' = <<>> /\ index' = {}
  /\ UNCHANGED <<decodeCursor, prefillCursor, step, dead, work, expired, closes, served>>

(* ... and outside the mutex it releases what it took, one by one; a work  *)
(* that fails to close does not keep it from the next.                     *)
CloseNext ==
  /\ closing # <<>>
  /\ closing' = Tail(closing)
  /\ closes' = [closes EXCEPT ![Head(closing)] = Least(2, @ + 1)]
  /\ UNCHANGED <<waiting, running, index, decodeCursor, prefillCursor, closed, step, dead, work,
                 expired, served>>

Stepping == BeginStep \/ PassBy \/ Miscount \/ Turn \/ EndStep

Next ==
  \/ \E i \in Requests : Add(i) \/ Expire(i)
  \/ BeginStep
  \/ PassBy
  \/ Miscount
  \/ Turn
  \/ EndStep
  \/ Close
  \/ CloseNext

Spec == Init /\ [][Next]_vars

(* The owner of the scheduler keeps calling Step, as the tests do, and a   *)
(* Step that has begun goes on: it waits for nobody.                       *)
FairSpec == Spec /\ WF_vars(Stepping)

-----------------------------------------------------------------------------
(* What a request may rely on.                                             *)

Held == Range(waiting) \cup (Range(running) \ dead)

(* Close "releases them exactly once": whichever way a request ends        *)
(* (finished, failed, expired before, during or after a turn, scheduler    *)
(* closed), its work is closed exactly once, and not before.               *)
ReleasedOnce ==
  \A i \in Requests : closes[i] = IF i \in Held \cup Range(closing) THEN 0 ELSE 1

(* The index that refuses a second request under one identity names just   *)
(* the entries that are queued or running, each of them in one place.      *)
IndexExact ==
  /\ TypeOK
  /\ index = Held
  /\ \A i \in Requests :
       Cardinality({k \in DOMAIN waiting : waiting[k] = i})
         + Cardinality({k \in DOMAIN running : running[k] = i})
         + Cardinality({k \in DOMAIN closing : closing[k] = i}) <= 1

(* An expired context ends its request at the next sweep of a Step: no     *)
(* turns begin, and no Step returns, with a request whose context was done *)
(* when the sweep read it, wherever the request stood then.                *)
ExpiredEndsWithSweep ==
  [][(step = Idle) # (step' = Idle) => index' \cap expired = {}]_vars

(* First come, first served: a request is admitted only when none that     *)
(* arrived earlier goes on waiting.                                        *)
AdmittedByArrival ==
  [][\A i \in Range(waiting'), j \in Range(running') \ Range(running) :
       Arrival[j] <= Arrival[i]]_vars

(* A running request that wants a turn gets one that moves tokens, or ends. *)
EveryoneServed ==
  \A i \in Requests \ Faulty, p \in {"decode", "prefill"} :
    (i \in Held \ Range(waiting) /\ Wants(p, i))
      ~> (served = [phase |-> p, who |-> i] \/ i \notin index)
=============================================================================
