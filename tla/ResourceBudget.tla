--------------------------- MODULE ResourceBudget ---------------------------
(***************************************************************************)
(* Cooperative admission by CPU slots and estimated memory:                *)
(* runtime/resourcebudget/budget.go.                                       *)
(*                                                                         *)
(* A caller asks for a demand under a context of its own.  It is granted   *)
(* at once, refused, or appended to the FIFO list of waiters; a waiter     *)
(* sleeps outside the mutex until its channel is closed or its context     *)
(* expires, and only then takes the mutex again to find out what happened. *)
(* Every critical section of the mutex is one action.                      *)
(***************************************************************************)
EXTENDS Integers, SequencesExt, Lists

CONSTANTS
  Callers,      \* the goroutines that call Acquire
  Demands,      \* the reservations they ask for, records [cpu, memory]
  CPUSlots,     \* Config.Capacity.CPUSlots
  MemoryBytes,  \* Config.Capacity.MemoryBytes
  MaxActive,    \* Config.MaxActive
  MaxWaitings   \* the values Config.MaxWaiting may have

(* New and valid(): a positive capacity and active bound, demands that are *)
(* nonnegative in both dimensions and not empty.                           *)
ASSUME CapacityAssumption ==
  /\ CPUSlots \in Nat \ {0} /\ MemoryBytes \in Nat \ {0}
  /\ MaxActive \in Nat \ {0} /\ MaxWaitings \subseteq Nat

ASSUME DemandAssumption ==
  \A r \in Demands :
    /\ r \in [cpu : Nat, memory : Nat]
    /\ r.cpu > 0 \/ r.memory > 0

VARIABLES
  limit,     \* Budget.cfg.MaxWaiting
  used,      \* Budget.used
  active,    \* Budget.active
  waiting,   \* Budget.waiting, the callers that own the waiters
  closed,    \* Budget.closed
  drained,   \* how often close(b.drained) ran; the second call would panic
  state,     \* where each caller's latest Acquire stands
  need,      \* the demand of the caller's waiter or lease
  cancelled  \* whether the context of the caller's latest Acquire has expired

vars == <<limit, used, active, waiting, closed, drained, state, need, cancelled>>

(* "idle": no call.  "queued": waiting, channel open.  "granted": w.lease  *)
(* set by dispatch, the caller not yet awake.  "refused": w.err set, not   *)
(* yet awake.  "holding": Acquire returned the lease.  "released": the     *)
(* caller still has the pointer of a released lease.                       *)
CallerStates == {"idle", "queued", "granted", "refused", "holding", "released"}

Leased == {c \in Callers : state[c] \in {"granted", "holding"}}

NoNeed == [cpu |-> 0, memory |-> 0]

TypeOK ==
  /\ limit \in MaxWaitings
  /\ used \in [cpu : Nat, memory : Nat]
  /\ active \in Nat
  /\ waiting \in Seq(Callers)
  /\ closed \in BOOLEAN
  /\ drained \in Nat
  /\ state \in [Callers -> CallerStates]
  /\ need \in [Callers -> [cpu : Nat, memory : Nat]]
  /\ cancelled \in [Callers -> BOOLEAN]

Init ==
  /\ limit \in MaxWaitings
  /\ used = NoNeed
  /\ active = 0
  /\ waiting = <<>>
  /\ closed = FALSE
  /\ drained = 0
  /\ state = [c \in Callers |-> "idle"]
  /\ need = [c \in Callers |-> NoNeed]
  /\ cancelled = [c \in Callers |-> FALSE]

-----------------------------------------------------------------------------
(* The fields the mutex protects, as one value: dispatch and release are   *)
(* steps inside critical sections that go on afterwards.                   *)
Current == [used |-> used, active |-> active, waiting |-> waiting, state |-> state]

Become(b) ==
  \E x \in {b} :
    /\ used' = x.used /\ active' = x.active
    /\ waiting' = x.waiting /\ state' = x.state

Plus(u, r) == [cpu |-> u.cpu + r.cpu, memory |-> u.memory + r.memory]
Minus(u, r) == [cpu |-> u.cpu - r.cpu, memory |-> u.memory - r.memory]

(* Mutant of Fits: the memory dimension is not reserved together with CPU.  *)
FitsCPUOnly(b, r) == b.active < MaxActive /\ r.cpu <= CPUSlots - b.used.cpu

(* fits: one more lease, and the demand within what is left.               *)
Fits(b, r) ==
  /\ b.active < MaxActive
  /\ r.cpu <= CPUSlots - b.used.cpu
  /\ r.memory <= MemoryBytes - b.used.memory

(* grant: charge the demand to the budget; s is how c learns of it.        *)
Grant(b, c, r, s) ==
  [b EXCEPT !.used = Plus(@, r), !.active = @ + 1, !.state[c] = s]

(* Mutant of Reaped: a reaped waiter is told, but stays on the list.       *)
ReapedInPlace(b) ==
  [b EXCEPT !.state = [c \in Callers |->
                         IF c \in ToSet(b.waiting) /\ cancelled[c]
                         THEN "refused" ELSE @[c]]]

(* dispatch, first pass: waiters whose context expired are refused.        *)
Reaped(b) ==
  [b EXCEPT !.waiting = Kept(@, {c \in Callers : ~cancelled[c]}),
            !.state = [c \in Callers |->
                         IF c \in ToSet(b.waiting) /\ cancelled[c]
                         THEN "refused" ELSE @[c]]]

(* dispatch, second pass: the first n waiters are granted, in order.       *)
GrantedUpTo(b) ==
  LET after[n \in 0..Len(b.waiting)] ==
        IF n = 0 THEN b
        ELSE LET c == b.waiting[n] IN Grant(after[n - 1], c, need[c], "granted")
  IN after

(* dispatch: it stops at the first waiter that does not fit.               *)
Dispatched(b) ==
  IF closed THEN b
  ELSE LET live == Reaped(b)
           ws == live.waiting
           after == GrantedUpTo(live)
           n == Max({k \in 0..Len(ws) :
                       \A i \in 1..k : Fits(after[i - 1], need[ws[i]])})
       IN [after[n] EXCEPT !.waiting = SubSeq(ws, n + 1, Len(ws))]

(* release: give the demand back; the last lease of a closed budget closes *)
(* the drained channel, any other release lets waiters in.                 *)
Released(b, c, s) ==
  [b EXCEPT !.used = Minus(@, need[c]), !.active = @ - 1, !.state[c] = s]

(* Mutant of ReleaseLease: a release does not let waiters in.              *)
ReleaseLeaseQuietly(c, s) ==
  LET b == Released(Current, c, s)
  IN Become(b) /\ drained' = IF closed /\ b.active = 0 THEN drained + 1 ELSE drained

(* Mutant of ReleaseLease: a closed budget is not told that it drained.    *)
ReleaseLeaseUndrained(c, s) ==
  Become(Dispatched(Released(Current, c, s))) /\ drained' = drained

ReleaseLease(c, s) ==
  LET b == Released(Current, c, s)
  IN IF closed /\ b.active = 0
     THEN Become(b) /\ drained' = drained + 1
     ELSE Become(Dispatched(b)) /\ drained' = drained

-----------------------------------------------------------------------------
(* What Acquire refuses at once: a closed budget, and a demand that could  *)
(* never fit.                                                              *)
Admissible(r) == ~closed /\ r.cpu <= CPUSlots /\ r.memory <= MemoryBytes

(* Mutant of AtOnce: a call that fits does not queue behind the waiters.   *)
AtOnceIfFits(b, r) == Fits(b, r)

(* The FIFO decision: nobody waits, and the demand fits.                   *)
AtOnce(b, r) == b.waiting = <<>> /\ Fits(b, r)

(* Acquire, first critical section.  Calls refused before any change (an   *)
(* expired context, an inadmissible demand) are no steps.  Expired waiters *)
(* are reaped before the FIFO decision, and stay reaped when the call      *)
(* itself is refused with ErrBusy.                                         *)
Acquire(c, r) ==
  /\ state[c] \in {"idle", "released"}
  /\ Admissible(r)
  /\ need' = [need EXCEPT ![c] = r]
  /\ cancelled' = [cancelled EXCEPT ![c] = FALSE]
  /\ LET b == [Dispatched(Current) EXCEPT !.state[c] = "idle"]
     IN \/ /\ AtOnce(b, r)
           /\ Become(Grant(b, c, r, "holding"))
        \/ /\ ~AtOnce(b, r)
           /\ Len(b.waiting) >= limit
           /\ Become(b)
        \/ /\ ~AtOnce(b, r)
           /\ Len(b.waiting) < limit
           /\ Become([b EXCEPT !.waiting = Append(@, c), !.state[c] = "queued"])
  /\ UNCHANGED <<limit, closed, drained>>

(* The context of a call expires.  Nothing is told to the budget.          *)
Expire(c) ==
  /\ state[c] \in {"queued", "granted", "holding"}
  /\ ~cancelled[c]
  /\ cancelled' = [cancelled EXCEPT ![c] = TRUE]
  /\ UNCHANGED <<limit, used, active, waiting, closed, drained, state, need>>

(* Acquire, second critical section, after the select: a grant that raced  *)
(* with the expiry of the context is given back.                           *)
WakeGranted(c) ==
  /\ state[c] = "granted"
  /\ IF cancelled[c]
     THEN ReleaseLease(c, "idle")
     ELSE Become([Current EXCEPT !.state[c] = "holding"]) /\ drained' = drained
  /\ UNCHANGED <<limit, closed, need, cancelled>>

WakeRefused(c) ==
  /\ state[c] = "refused"
  /\ Become([Current EXCEPT !.state[c] = "idle"])
  /\ UNCHANGED <<limit, closed, drained, need, cancelled>>

(* Mutant of WakeExpired: the waiters behind the one that left stay asleep. *)
WakeExpiredQuietly(c) ==
  /\ state[c] = "queued" /\ cancelled[c]
  /\ Become([Current EXCEPT !.waiting = RemoveFirst(@, c), !.state[c] = "idle"])
  /\ UNCHANGED <<limit, closed, drained, need, cancelled>>

(* The context expired and nothing was decided: leave the list.            *)
WakeExpired(c) ==
  /\ state[c] = "queued" /\ cancelled[c]
  /\ Become(Dispatched([Current EXCEPT !.waiting = RemoveFirst(@, c), !.state[c] = "idle"]))
  /\ UNCHANGED <<limit, closed, drained, need, cancelled>>

Wake(c) == WakeGranted(c) \/ WakeRefused(c) \/ WakeExpired(c)

(* Mutant of Unreleased: l.released is not looked at.                      *)
EverGranted(c) == state[c] \in {"holding", "released"}

(* Lease.Release is idempotent: a second call finds l.released set.        *)
Unreleased(c) == state[c] = "holding"

Release(c) ==
  /\ state[c] \in {"holding", "released"} /\ Unreleased(c)
  /\ ReleaseLease(c, "released")
  /\ UNCHANGED <<limit, closed, need, cancelled>>

(* Lease.Shrink: a smaller demand, not empty, in one critical section.     *)
Shrink(c, r) ==
  /\ Unreleased(c)
  /\ r # need[c] /\ r.cpu <= need[c].cpu /\ r.memory <= need[c].memory
  /\ need' = [need EXCEPT ![c] = r]
  /\ Become(Dispatched([Current EXCEPT !.used = Plus(Minus(@, need[c]), r)]))
  /\ UNCHANGED <<limit, closed, drained, cancelled>>

(* Mutant of Close: nobody closes drained if there is no lease.            *)
CloseUndrained ==
  /\ ~closed
  /\ closed' = TRUE
  /\ Become([Current EXCEPT !.waiting = <<>>,
                            !.state = [c \in Callers |->
                                         IF c \in ToSet(waiting) THEN "refused" ELSE @[c]]])
  /\ UNCHANGED <<limit, drained, need, cancelled>>

(* Close: every waiter is refused; leases are left to their owners.        *)
Close ==
  /\ ~closed
  /\ closed' = TRUE
  /\ Become([Current EXCEPT !.waiting = <<>>,
                            !.state = [c \in Callers |->
                                         IF c \in ToSet(waiting) THEN "refused" ELSE @[c]]])
  /\ drained' = IF active = 0 THEN drained + 1 ELSE drained
  /\ UNCHANGED <<limit, need, cancelled>>

Next ==
  \/ \E c \in Callers, r \in Demands : Acquire(c, r) \/ Shrink(c, r)
  \/ \E c \in Callers : Expire(c) \/ Wake(c) \/ Release(c)
  \/ Close

(* A woken goroutine gets the mutex, and the owner of a lease releases it  *)
(* once its work has drained; contexts need not expire and the budget need *)
(* not be closed.                                                          *)
Fairness ==
  \A c \in Callers : WF_vars(Wake(c) \/ Release(c))

Spec == Init /\ [][Next]_vars /\ Fairness

-----------------------------------------------------------------------------
(* The counters are exactly what the outstanding leases add up to: no path *)
(* (grant, grant lost to an expiry, shrink, release, repeated release)     *)
(* charges or refunds twice.  And they stay within the capacity in every   *)
(* dimension, as Acquire's comment "atomically reserves BOTH dimensions or  *)
(* neither" has it.                                                        *)
Accounting ==
  /\ TypeOK
  /\ used = [cpu |-> MapThenSumSet(LAMBDA c : need[c].cpu, Leased),
             memory |-> MapThenSumSet(LAMBDA c : need[c].memory, Leased)]
  /\ active = Cardinality(Leased)
  /\ used.cpu <= CPUSlots /\ used.memory <= MemoryBytes
  /\ active <= MaxActive /\ Len(waiting) <= limit

(* Every caller that sleeps with an open channel is on the list exactly    *)
(* once, and nobody else is: no waiter is lost or granted twice.           *)
NoWaiterLost ==
  /\ ToSet(waiting) = {c \in Callers : state[c] = "queued"}
  /\ Len(waiting) = Cardinality(ToSet(waiting))

(* No lost wake-up: while the head of the list is live, it really does not *)
(* fit, whichever path freed capacity or took an earlier head away.        *)
HeadDoesNotFit ==
  (waiting # <<>> /\ ~cancelled[Head(waiting)]) => ~Fits(Current, need[Head(waiting)])

(* The drained channel is closed once, exactly when admission is closed    *)
(* and the last lease is gone.                                             *)
DrainedExactlyOnce ==
  drained = IF closed /\ Leased = {} THEN 1 ELSE 0

(* "small requests never bypass a waiting head": a step that gives a lease *)
(* to d leaves no live waiter that registered before d without one.        *)
Before(c, d) ==
  \/ d \notin ToSet(waiting)
  \/ \E i, j \in DOMAIN waiting : i < j /\ waiting[i] = c /\ waiting[j] = d

NoBypass ==
  [][\A d \in Leased' \ Leased, c \in ToSet(waiting) :
       ~cancelled[c] /\ Before(c, d) => c \in Leased']_vars

(* Under the owners' obligation to release, every waiting call returns,    *)
(* however many smaller requests keep arriving.                            *)
EveryWaiterReturns ==
  \A c \in Callers : (state[c] = "queued") ~> (state[c] # "queued")

(* Shutdown returns once owners have drained.                              *)
ShutdownCompletes == closed ~> (drained = 1)
=============================================================================
