-------------------------- MODULE StageOwnerProofs --------------------------
(***************************************************************************)
(* Proofs about StageOwner for any threads, resources, other client and    *)
(* driver faults: its invariant is inductive, nothing is used after it is  *)
(* destroyed, and the owner implements its lease.                          *)
(***************************************************************************)
EXTENDS StageOwner, VulkanLifetimeProofs

(***************************************************************************)
(* The inductive invariant: the package's, and four parts of the owner's.  *)
(* What each thread may be calling where it is; the other client's calls   *)
(* and deferred frees are never about the owner's resources; native work   *)
(* of the owner runs only under a runner's gate, and not once its drain has*)
(* succeeded; and the owner's list of resources agrees with the package's, *)
(* up to the resource whose close has just returned.                       *)
(***************************************************************************)
Inside == {"infer", "settle", "teardown", "held"}

Calling(t) ==
  \/ stage[t] = "infer" /\ call[t].op \in {"run", "touch"} /\ call[t].on \in OwnedSet
  \/ stage[t] = "settle" /\ call[t].op = "drain"
  \/ stage[t] = "teardown" /\ call[t].op = "close" /\ call[t].on = Owned[next]

ThreadSound(t) ==
  /\ gate = t <=> stage[t] \in Inside
  /\ stage[t] \in {"entering", "infer", "settle"} => t \in Runners
  /\ stage[t] \in {"closing", "teardown"} => t \in Closers /\ stopping
  /\ stage[t] = "teardown" => next # 0
  /\ Answered(t) \/ Calling(t)

OtherApart ==
  /\ call[Raw].on \notin OwnedSet
  /\ deferred \cap OwnedSet = {}

Drained(t) == stage[t] = "settle" /\ Answered(t) /\ ret[t] = "ok"

NativeSound ==
  /\ pending.owner \in OwnedSet => gate \in Runners
  /\ \A t \in Threads : Drained(t) => pending.owner \notin OwnedSet

(* The close of Owned[next] has returned success to t. *)
HasClosed(t) == stage[t] = "teardown" /\ Answered(t) /\ ret[t] = "ok"

Unlisted(r) == \E t \in Closers : stage[t] = "held" \/ (HasClosed(t) /\ r = Owned[next])

BooksSound ==
  /\ \A r \in OwnedSet :
       /\ res[r] \in {"live", "closed"}
       /\ res[r] = "closed" => stopping /\ gate \notin Runners
       /\ res[r] = "live" => r \in left
       /\ r \in left => res[r] = "live" \/ Unlisted(r)
  /\ \A t \in Closers : HasClosed(t) => res[Owned[next]] = "closed"
  /\ closed <=> left = {}
  /\ closed => gate = NoOne

OwnerInv ==
  /\ OwnerTypeOK
  /\ \A t \in Threads : ThreadSound(t)
  /\ OtherApart /\ NativeSound /\ BooksSound

IInv == PackageInv /\ OwnerInv

-----------------------------------------------------------------------------
(* A set of positions, none above n, has a greatest one.                   *)
LEMMA LastExists ==
  ASSUME NEW n \in Nat, NEW I \in SUBSET (1..n), I # {}
  PROVE  \E j \in I : \A k \in I : k <= j
<1> DEFINE T == {n - j : j \in I}
<1>1. T \subseteq Nat
  OBVIOUS
<1>2. T # {}
  OBVIOUS
<1>3. PICK x \in T : \A y \in T : ~(<<y, x>> \in OpToRel(<, Nat))
  BY <1>1, <1>2, NatLessThanWellFounded, WFMin
<1>4. \A y \in T : ~(y < x)
  BY <1>1, <1>3 DEF OpToRel
<1>5. PICK j \in I : x = n - j
  BY <1>3
<1>6. \A k \in I : ~(n - k < n - j) /\ k \in Int
  BY <1>4, <1>5
<1>7. \A k \in I : k <= j
  BY <1>6
<1> QED
  BY <1>7

(* The owner's resources exist from the start and are resources.           *)
LEMMA OwnedFacts ==
  /\ OwnedSet \subseteq Built \cap Resources /\ OwnedSet # {} /\ NoOne \notin OwnedSet
  /\ Len(Owned) \in Nat /\ \A i \in 1..Len(Owned) : Owned[i] \in OwnedSet
<1>1. Owned \in Seq(Built) /\ Len(Owned) \in Nat /\ Len(Owned) # 0
  BY OwnerAssumption
<1>2. \A i \in 1..Len(Owned) : Owned[i] \in Built /\ Owned[i] \in OwnedSet
  BY <1>1 DEF OwnedSet
<1>3. OwnedSet # {}
  BY <1>1, <1>2
<1> QED
  BY <1>1, <1>2, <1>3, ResourceAssumption DEF OwnedSet

(* The loop over the resources goes to the last one before i that is still *)
(* owned, and ends when there is none.                                     *)
LEMMA BeforeFacts ==
  ASSUME NEW i \in 1..(Len(Owned) + 1)
  PROVE  /\ Before(i) \in 0..(i - 1)
         /\ Before(i) # 0 => Owned[Before(i)] \in left'
         /\ Before(i) = 0 => \A j \in 1..(i - 1) : Owned[j] \notin left'
<1> DEFINE I == {j \in 1..(i - 1) : Owned[j] \in left'}
<1>1. i \in Nat /\ i - 1 \in Nat
  BY OwnedFacts
<1>2. CASE I = {}
  BY <1>1, <1>2 DEF Before
<1>3. CASE I # {}
  <2>1. \E j \in I : \A k \in I : k <= j
    BY <1>1, <1>3, LastExists
  <2>2. Before(i) = CHOOSE j \in I : \A k \in I : k <= j
    BY <1>3 DEF Before
  <2>3. Before(i) \in I
    BY <2>1, <2>2
  <2> QED
    BY <1>1, <2>3
<1> QED
  BY <1>2, <1>3

(* Threads are callers, other than the other client, and only one has the  *)
(* gate.                                                                   *)
LEMMA ThreadFacts ==
  /\ Threads \subseteq Callers /\ Raw \in Callers \ Threads
  /\ Runners \cap Closers = {} /\ NoOne \notin Threads /\ Threads = Runners \cup Closers
BY OwnerAssumption, ResourceAssumption DEF Threads

(* Two threads inside the gate are the same thread.                        *)
LEMMA OneInside ==
  ASSUME OwnerInv, NEW t \in Threads, NEW u \in Threads, gate = t, t # u
  PROVE  stage[u] \notin Inside /\ Answered(u)
BY DEF OwnerInv, ThreadSound, Calling, Inside

-----------------------------------------------------------------------------
(* Steps of the package.                                                   *)

(* Whose calls may do what: only a thread inside the gate makes any; only  *)
(* a runner submits the owner's work, and only a closer closes the owner's *)
(* resources, the next one.                                                *)
LEMMA WhoCalls ==
  ASSUME IInv, NEW c \in Callers, call[c] # NoCall
  PROVE  /\ c \in Threads => gate = c /\ Calling(c)
         /\ call[c].on \in OwnedSet /\ call[c].op = "run" => c \in Runners /\ gate = c
         /\ call[c].on \in OwnedSet => call[c].op \notin {"dispatch", "free"}
         /\ call[c].on \in OwnedSet /\ call[c].op = "close" =>
              /\ c \in Closers /\ gate = c /\ stopping
              /\ stage[c] = "teardown" /\ call[c].on = Owned[next]
<1>1. CASE c = Raw
  BY <1>1, ThreadFacts DEF IInv, OwnerInv, OtherApart
<1>2. CASE c # Raw
  <2>1. c \in Threads
    BY <1>2, OwnerAssumption DEF Threads
  <2>2. ThreadSound(c)
    BY <2>1 DEF IInv, OwnerInv
  <2>3. gate = c /\ Calling(c)
    BY <2>2 DEF ThreadSound, Calling, Answered, Inside
  <2> QED
    BY <2>1, <2>2, <2>3 DEF Calling, ThreadSound
<1> QED
  BY <1>1, <1>2

(* A step of the package that serves a caller keeps the owner's part.      *)
LEMMA ServedOwner ==
  ASSUME IInv, NEW c \in Callers, Footprint(c), call[c] # NoCall, UNCHANGED owner
  PROVE  OwnerInv'
<1>1. UNCHANGED <<stage, gate, stopping, closed, left, next>>
  BY DEF owner
<1>2. /\ \A d \in Callers \ {c} : call'[d] = call[d] /\ ret'[d] = ret[d]
      /\ (call'[c] = call[c] /\ ret'[c] = ret[c] /\ res' = res) \/ call'[c] = NoCall
  BY DEF Footprint
<1>3. OwnerTypeOK'
  BY <1>1 DEF IInv, OwnerInv, OwnerTypeOK
<1>4. ASSUME NEW t \in Threads PROVE ThreadSound(t)'
  <2>1. ThreadSound(t) /\ t \in Callers
    BY ThreadFacts DEF IInv, OwnerInv
  <2>2. call'[t] = call[t] \/ call'[t] = NoCall
    BY <1>2, <2>1
  <2> QED
    BY <1>1, <2>1, <2>2 DEF ThreadSound, Calling, Answered
<1>5. OtherApart'
  <2>1. call'[Raw] = call[Raw] \/ call'[Raw] = NoCall
    BY <1>2, ThreadFacts
  <2>2. NoCall.on \notin OwnedSet
    BY OwnedFacts DEF NoCall
  <2>3. \A b \in deferred' : b \in deferred \/ (call[c].op = "free" /\ call[c].on = b)
    BY DEF Footprint
  <2>4. deferred' \cap OwnedSet = {}
    BY <2>3, WhoCalls DEF IInv, OwnerInv, OtherApart
  <2> QED
    BY <2>1, <2>2, <2>4 DEF OtherApart, IInv, OwnerInv
<1>6. NativeSound'
  <2>1. NoJob.owner \notin OwnedSet
    BY OwnedFacts DEF NoJob
  <2>2. ASSUME pending'.owner \in OwnedSet
        PROVE  \/ pending' = pending /\ gate \in Runners
               \/ c \in Runners /\ gate = c /\ call[c].op = "run"
    <3>1. CASE pending' \in {pending, NoJob}
      BY <2>1, <2>2, <3>1 DEF IInv, OwnerInv, NativeSound
    <3>2. CASE call[c].op \in {"dispatch", "run"} /\ pending'.owner = call[c].on
      BY <2>2, <3>2, WhoCalls
    <3> QED
      BY <3>1, <3>2 DEF Footprint
  <2>3. ASSUME NEW t \in Threads, Drained(t)', pending'.owner \in OwnedSet PROVE FALSE
    <3>1. stage[t] = "settle" /\ gate = t /\ t \in Callers
      BY <1>1, <2>3, ThreadFacts DEF Drained, IInv, OwnerInv, ThreadSound, Inside
    <3>2. CASE t = c
      <4>1. call[c].op = "drain" /\ call'[c] = NoCall /\ ret'[c] = "ok"
        BY <2>3, <3>1, <3>2, WhoCalls DEF Drained, Answered, Calling
      <4>2. pending' = NoJob
        BY <4>1 DEF Footprint
      <4> QED
        BY <2>1, <2>3, <4>2
    <3>3. CASE t # c
      <4>1. Drained(t)
        BY <1>1, <1>2, <2>3, <3>1, <3>3 DEF Drained, Answered
      <4>2. c \notin Threads
        BY <3>1, <3>3, WhoCalls
      <4>3. pending' = pending
        BY <2>2, <2>3, <4>2, ThreadFacts
      <4> QED
        BY <2>3, <4>1, <4>3 DEF IInv, OwnerInv, NativeSound
    <3> QED
      BY <3>2, <3>3
  <2>4. pending'.owner \in OwnedSet => gate' \in Runners
    BY <1>1, <2>2
  <2> QED
    BY <2>3, <2>4 DEF NativeSound
<1>7. BooksSound'
  <2>1. ASSUME NEW r \in OwnedSet
        PROVE  \/ res'[r] = res[r]
               \/ /\ res[r] = "live" /\ res'[r] = "closed"
                  /\ c \in Closers /\ gate = c /\ stopping
                  /\ stage[c] = "teardown" /\ r = Owned[next] /\ call[c].op = "close"
    <3>1. r \in Resources /\ res[r] # "none" /\ r \notin deferred
      BY OwnedFacts DEF IInv, OwnerInv, BooksSound, OtherApart
    <3>2. \/ res'[r] = res[r]
          \/ res[r] = "live" /\ res'[r] = "closed" /\ Removes(c, r)
      BY <3>1 DEF Footprint
    <3> QED
      BY <2>1, <3>2, WhoCalls DEF Removes
  <2>2. ASSUME NEW t \in Closers, HasClosed(t)
        PROVE  HasClosed(t)' /\ t # c
    <3>1. t # c /\ t \in Callers
      BY <2>2, ThreadFacts DEF HasClosed, Answered
    <3> QED
      BY <1>1, <1>2, <2>2, <3>1 DEF HasClosed, Answered
  <2>3. \A r : Unlisted(r) => Unlisted(r)'
    BY <1>1, <2>2 DEF Unlisted
  <2>4. ASSUME c \in Closers, stage[c] = "teardown", call[c].op = "close",
               res[Owned[next]] = "live", res'[Owned[next]] = "closed"
        PROVE  HasClosed(c)'
    <3>1. call[c].on = Owned[next]
      BY <2>4, ThreadFacts, WhoCalls DEF Calling
    <3>2. call'[c] = NoCall
      BY <1>2, <2>4
    <3>3. ret'[c] = "ok"
      BY <2>4, <3>1, <3>2 DEF Footprint
    <3> QED
      BY <1>1, <2>4, <3>2, <3>3 DEF HasClosed, Answered
  <2>5. ASSUME NEW r \in OwnedSet
        PROVE  /\ res'[r] \in {"live", "closed"}
               /\ res'[r] = "closed" => stopping' /\ gate' \notin Runners
               /\ res'[r] = "live" => r \in left'
               /\ r \in left' => res'[r] = "live" \/ Unlisted(r)'
    <3>1. CASE res'[r] = res[r]
      BY <1>1, <2>3, <2>5, <3>1 DEF IInv, OwnerInv, BooksSound
    <3>2. CASE res'[r] # res[r]
      <4>1. Unlisted(r)'
        BY <1>1, <2>1, <2>4, <2>5, <3>2 DEF Unlisted
      <4> QED
        BY <1>1, <2>1, <2>5, <3>2, <4>1, ThreadFacts DEF IInv, OwnerInv, BooksSound
    <3> QED
      BY <3>1, <3>2
  <2>6. ASSUME NEW t \in Closers, HasClosed(t)' PROVE res'[Owned[next']] = "closed"
    <3>1. t \in Callers /\ stage[t] = "teardown" /\ next' = next /\ t \in Threads
      BY <1>1, <2>6, ThreadFacts DEF HasClosed
    <3>2. Owned[next] \in OwnedSet
      BY <3>1, OwnedFacts DEF IInv, OwnerInv, OwnerTypeOK, ThreadSound
    <3>3. CASE t = c
      <4>1. call[c].op = "close" /\ call[c].on = Owned[next] /\ call'[c] = NoCall
            /\ ret'[c] = "ok"
        BY <2>6, <3>1, <3>3, WhoCalls DEF HasClosed, Answered, Calling
      <4> QED
        BY <3>1, <4>1 DEF Footprint
    <3>4. CASE t # c
      <4>1. HasClosed(t)
        BY <1>1, <1>2, <2>6, <3>1, <3>4 DEF HasClosed, Answered
      <4>2. res[Owned[next]] = "closed"
        BY <4>1 DEF IInv, OwnerInv, BooksSound
      <4> QED
        BY <2>1, <3>1, <3>2, <4>2
    <3> QED
      BY <3>3, <3>4
  <2>7. (closed <=> left = {})' /\ (closed => gate = NoOne)'
    BY <1>1 DEF IInv, OwnerInv, BooksSound
  <2> QED
    BY <2>5, <2>6, <2>7 DEF BooksSound
<1> QED
  BY <1>3, <1>4, <1>5, <1>6, <1>7 DEF OwnerInv

(* A step that leaves what the owner's part speaks of leaves that part.    *)
LEMMA Elsewhere ==
  ASSUME OwnerInv, UNCHANGED <<pending, res, deferred, call, ret, owner>>
  PROVE  OwnerInv'
BY DEF OwnerInv, OwnerTypeOK, ThreadSound, Calling, Answered, OtherApart, NativeSound, Drained,
       BooksSound, Unlisted, HasClosed, owner

(* A call of the other client is about its own resources.                  *)
LEMMA OtherCalls ==
  ASSUME IInv, Client(Raw, Resources \ OwnedSet), UNCHANGED owner
  PROVE  IInv'
<1>1. Raw \in Callers \ Threads
  BY ThreadFacts
<1>2. /\ PackageInv'
      /\ \E op \in Background \cup Bounded, on \in (Resources \ OwnedSet) \cup {NoOne},
            bufs \in SUBSET Buffers : Call(Raw, op, on, bufs)
  BY <1>1, ClientSound DEF IInv
<1>3. UNCHANGED <<device, ret, owner>> /\ call'[Raw].on \notin OwnedSet
      /\ \A d \in Threads : call'[d] = call[d]
  <2>1. PICK op \in Background \cup Bounded, on \in (Resources \ OwnedSet) \cup {NoOne},
             bufs \in SUBSET Buffers : Call(Raw, op, on, bufs)
    BY <1>2
  <2>2. /\ call'[Raw] = [op |-> op, on |-> on, bufs |-> bufs]
        /\ \A d \in Callers \ {Raw} : call'[d] = call[d]
    BY <1>1, <2>1 DEF Call, IInv, PackageInv, CallsSound, CallTypes
  <2> QED
    BY <2>1, <2>2, <1>1, ThreadFacts, OwnedFacts DEF Call
<1>4. OwnerTypeOK' /\ OtherApart'
  BY <1>3 DEF IInv, OwnerInv, OwnerTypeOK, OtherApart, owner, device
<1>5. \A t \in Threads : ThreadSound(t)'
  BY <1>3 DEF IInv, OwnerInv, ThreadSound, Calling, Answered, owner
<1>6. NativeSound'
  BY <1>3 DEF IInv, OwnerInv, NativeSound, Drained, Answered, owner, device
<1>7. BooksSound'
  <2>1. Closers \subseteq Threads
    BY DEF Threads
  <2> QED
    BY <1>3, <2>1 DEF IInv, OwnerInv, BooksSound, Unlisted, HasClosed, Answered, owner, device
<1> QED
  BY <1>2, <1>4, <1>5, <1>6, <1>7 DEF IInv, OwnerInv

(* Every step of the package.                                              *)
LEMMA PackageSteps ==
  ASSUME IInv, PackageStep, UNCHANGED owner
  PROVE  IInv' /\ Frozen
<1>1. CASE GpuDone
  <2>1. /\ PackageInv' /\ gpu' = NoJob
        /\ UNCHANGED <<pending, uncertain, lost, res, deferred, bound, charged, budget, calls>>
    BY <1>1, GpuDoneSound DEF IInv
  <2>2. OwnerInv'
    BY <2>1, Elsewhere DEF calls, IInv
  <2> QED
    BY <2>1, <2>2 DEF IInv, Frozen, Quarantined
<1>2. ASSUME NEW c \in Callers, Serve(c) \/ Finish(c) \/ GiveUp(c) PROVE IInv' /\ Frozen
  <2>1. StepSound(c) /\ call[c] # NoCall
    BY <1>2, ServeSound, FinishSound, OnlyCallers DEF IInv
  <2> QED
    BY <2>1, ServedOwner DEF IInv, StepSound
<1>3. ASSUME NEW c \in Callers, Expire(c) PROVE IInv' /\ Frozen
  <2>1. PackageInv' /\ UNCHANGED <<device, lane, call, ret>>
    BY <1>3, ExpireSound DEF IInv
  <2>2. OwnerInv'
    BY <2>1, Elsewhere DEF device, IInv
  <2> QED
    BY <2>1, <2>2 DEF IInv, Frozen, Quarantined, device
<1> QED
  BY <1>1, <1>2, <1>3 DEF PackageStep

-----------------------------------------------------------------------------
(* Steps of the owner's threads.                                           *)

(* The package's part is kept by a step that leaves its state alone.       *)
LEMMA PackageIdle ==
  ASSUME PackageInv, UNCHANGED <<device, lane, call, expired>>, ret' \in [Callers -> Results]
  PROVE  PackageInv'
<1>1. DeviceSound'
  BY DEF PackageInv, DeviceSound, DeviceTypes, PendingLive, Charged, LiveBuffers, Live, device
<1>2. CallsSound'
  BY DEF PackageInv, CallsSound, CallTypes, CallKinds
<1>3. LaneSound'
  BY DEF PackageInv, LaneSound, HoldsLane, Waiting, Quarantined, Live, device
<1> QED
  BY <1>1, <1>2, <1>3 DEF PackageInv

(* A call of a thread on a resource of the owner, or a drain.              *)
LEMMA ThreadCalls ==
  ASSUME IInv, NEW t \in Threads, NEW op, NEW on, Call(t, op, on, {}),
         \/ op = "drain" /\ on = NoOne
         \/ op = "run" /\ on \in OwnedSet \cap Plans
         \/ op = "touch" /\ on \in OwnedSet \cap Buffers
         \/ op = "close" /\ on \in OwnedSet
  PROVE  /\ PackageInv' /\ UNCHANGED <<device, lane, expired, ret>>
         /\ Answered(t) /\ ~Answered(t)' /\ call'[t].op = op /\ call'[t].on = on
         /\ \A d \in Callers \ {t} : call'[d] = call[d]
<1>1. t \in Callers /\ op \in Background \cup Bounded /\ on \in Resources \cup {NoOne}
      /\ {} \in SUBSET Buffers
  BY ThreadFacts, OwnedFacts DEF Background, Bounded
<1>2. PackageInv'
  <2>1. op = "close" => on \in Resources
    BY OwnedFacts
  <2>2. op \in {"free", "touch"} => on \in Buffers
    OBVIOUS
  <2>3. op = "dispatch" => on \in Kernels
    OBVIOUS
  <2>4. op \in {"run", "rebind"} => on \in Plans
    OBVIOUS
  <2> QED
    BY <1>1, <2>1, <2>2, <2>3, <2>4, CallSound DEF IInv
<1>3. /\ call'[t] = [op |-> op, on |-> on, bufs |-> {}]
      /\ \A d \in Callers \ {t} : call'[d] = call[d]
  BY <1>1 DEF Call, IInv, PackageInv, CallsSound, CallTypes
<1>4. ~Answered(t)'
  <2>1. call'[t].op # "none" /\ NoCall.op = "none"
    BY <1>3 DEF NoCall
  <2> QED
    BY <2>1 DEF Answered
<1> QED
  BY <1>2, <1>3, <1>4 DEF Call, Answered

(* What the owner's part says of the other threads is kept by a step of t  *)
(* that keeps the gate, takes it when it is free or gives it back.         *)
LEMMA OthersKept ==
  ASSUME OwnerInv, NEW t \in Threads, NEW u \in Threads \ {t},
         stage'[u] = stage[u], call'[u] = call[u],
         gate' = gate \/ (gate \in {NoOne, t} /\ gate' \in {NoOne, t}),
         stopping => stopping', next' = next \/ gate = t \/ (gate = NoOne /\ gate' = t)
  PROVE  ThreadSound(u)'
<1>1. ThreadSound(u) /\ u # NoOne
  BY ThreadFacts DEF OwnerInv
<1>2. gate' = u <=> gate = u
  BY <1>1, ThreadFacts
<1>3. next' # next => stage[u] # "teardown"
  BY <1>1, ThreadFacts DEF ThreadSound, Inside
<1> QED
  BY <1>1, <1>2, <1>3 DEF ThreadSound, Calling, Answered

(* Steps that only move a thread outside the gate, or stop the owner.      *)
LEMMA OutsideSteps ==
  ASSUME IInv, NEW t \in Threads,
         \/ t \in Runners /\ (Enter(t) \/ Refused(t))
         \/ t \in Closers /\ (BeginClose(t) \/ AlreadyClosed(t))
         \/ Withdraw(t)
  PROVE  IInv'
<1>1. /\ UNCHANGED <<vars, gate, closed, left, next>> /\ (stopping => stopping')
      /\ stopping' \in BOOLEAN
  BY DEF Enter, Refused, BeginClose, AlreadyClosed, Withdraw, IInv, OwnerInv, OwnerTypeOK
<1>2. /\ stage[t] \notin Inside /\ stage'[t] \notin Inside
      /\ stage'[t] \in {"out", "entering", "closing"}
      /\ stage'[t] = "entering" => t \in Runners
      /\ stage'[t] = "closing" => t \in Closers /\ stopping'
      /\ stage' = [stage EXCEPT ![t] = stage'[t]]
  BY DEF Enter, Refused, BeginClose, AlreadyClosed, Withdraw, Goto, Inside, IInv, OwnerInv,
         OwnerTypeOK
<1>3. \A u \in Threads \ {t} : stage'[u] = stage[u]
  BY <1>2 DEF IInv, OwnerInv, OwnerTypeOK
<1>4. PackageInv'
  BY <1>1, PackageIdle DEF vars, device, calls, IInv, PackageInv, CallsSound, CallTypes
<1>5. OwnerTypeOK'
  BY <1>1, <1>2 DEF IInv, OwnerInv, OwnerTypeOK
<1>6. ASSUME NEW u \in Threads PROVE ThreadSound(u)'
  <2>1. CASE u = t
    BY <1>1, <1>2, <2>1 DEF IInv, OwnerInv, ThreadSound, Calling, Answered, Inside, vars, calls
  <2>2. CASE u # t
    BY <1>1, <1>3, <2>2, OthersKept DEF IInv, vars, calls
  <2> QED
    BY <2>1, <2>2
<1>7. OtherApart'
  BY <1>1 DEF IInv, OwnerInv, OtherApart, vars, device, calls
<1>8. NativeSound'
  <2>1. ASSUME NEW u \in Threads, Drained(u)' PROVE Drained(u)
    <3>1. u # t
      BY <1>2, <2>1 DEF Drained, Inside
    <3> QED
      BY <1>1, <1>3, <2>1, <3>1 DEF Drained, Answered, vars, calls
  <2> QED
    BY <1>1, <2>1 DEF IInv, OwnerInv, NativeSound, vars, device
<1>9. BooksSound'
  <2>1. \A u \in Closers : /\ HasClosed(u) <=> HasClosed(u)'
                           /\ stage[u] = "held" <=> stage'[u] = "held"
    <3>1. Closers \subseteq Threads
      BY ThreadFacts
    <3> QED
      BY <1>1, <1>2, <1>3, <3>1 DEF HasClosed, Answered, Inside, vars, calls
  <2>2. \A r : Unlisted(r) => Unlisted(r)'
    BY <1>1, <2>1 DEF Unlisted
  <2> QED
    BY <1>1, <2>1, <2>2 DEF IInv, OwnerInv, BooksSound, vars, device
<1> QED
  BY <1>4, <1>5, <1>6, <1>7, <1>8, <1>9 DEF IInv, OwnerInv

(* Calls inside the gate of a runner: use, settle, drain again.            *)
LEMMA RunnerCalls ==
  ASSUME IInv, NEW t \in Runners, Use(t) \/ Settle(t) \/ DrainAgain(t)
  PROVE  IInv'
<1>1. t \in Threads /\ t \in Callers /\ t \notin Closers
  BY ThreadFacts
<1>2. PICK op \in {"run", "touch", "drain"}, on \in OwnedSet \cup {NoOne} :
        /\ Call(t, op, on, {})
        /\ \/ op = "drain" /\ on = NoOne
           \/ op = "run" /\ on \in OwnedSet \cap Plans
           \/ op = "touch" /\ on \in OwnedSet \cap Buffers
        /\ op # "drain" => stage'[t] = "infer"
        /\ op = "drain" => stage'[t] = "settle"
        /\ stage[t] \in {"infer", "settle"}
        /\ stage' = [stage EXCEPT ![t] = stage'[t]]
        /\ UNCHANGED <<gate, stopping, closed, left, next>>
  <2>1. stage \in [Threads -> {"out", "entering", "infer", "settle", "closing", "teardown", "held"}]
    BY DEF IInv, OwnerInv, OwnerTypeOK
  <2>2. CASE Use(t)
    <3>1. stage[t] = "infer" /\ UNCHANGED owner
      BY <2>2 DEF Use
    <3>2. stage' = [stage EXCEPT ![t] = stage'[t]]
      BY <2>1, <3>1 DEF owner
    <3>3. CASE \E p \in OwnedSet \cap Plans : Call(t, "run", p, {})
      BY <3>1, <3>2, <3>3 DEF owner
    <3>4. CASE \E b \in OwnedSet \cap Buffers : Call(t, "touch", b, {})
      BY <3>1, <3>2, <3>4 DEF owner
    <3> QED
      BY <2>2, <3>3, <3>4 DEF Use
  <2>3. CASE Settle(t)
    BY <1>1, <2>1, <2>3 DEF Settle, Goto
  <2>4. CASE DrainAgain(t)
    <3>1. stage[t] = "settle" /\ UNCHANGED owner /\ Call(t, "drain", NoOne, {})
      BY <2>4 DEF DrainAgain
    <3>2. stage' = [stage EXCEPT ![t] = stage'[t]]
      BY <2>1, <3>1 DEF owner
    <3> QED
      BY <3>1, <3>2 DEF owner
  <2> QED
    BY <2>2, <2>3, <2>4
<1>3. /\ PackageInv' /\ UNCHANGED <<device, lane, expired, ret>>
      /\ ~Answered(t)' /\ call'[t].op = op /\ call'[t].on = on
      /\ \A d \in Callers \ {t} : call'[d] = call[d]
  BY <1>1, <1>2, ThreadCalls
<1>4. stage'[t] \in {"infer", "settle"} /\ \A u \in Threads \ {t} : stage'[u] = stage[u]
  BY <1>2 DEF IInv, OwnerInv, OwnerTypeOK
<1>5. OwnerTypeOK'
  BY <1>2, <1>4 DEF IInv, OwnerInv, OwnerTypeOK
<1>6. ASSUME NEW u \in Threads PROVE ThreadSound(u)'
  <2>1. CASE u = t
    BY <1>1, <1>2, <1>3, <1>4, <2>1
    DEF IInv, OwnerInv, ThreadSound, Calling, Inside
  <2>2. CASE u # t
    BY <1>1, <1>2, <1>3, <1>4, <2>2, OthersKept, ThreadFacts DEF IInv
  <2> QED
    BY <2>1, <2>2
<1>7. OtherApart'
  BY <1>1, <1>3, ThreadFacts DEF IInv, OwnerInv, OtherApart, device
<1>8. NativeSound'
  <2>1. ASSUME NEW u \in Threads, Drained(u)' PROVE Drained(u)
    <3>1. u # t
      BY <1>3, <2>1 DEF Drained
    <3> QED
      BY <1>3, <1>4, <2>1, <3>1, ThreadFacts DEF Drained, Answered
  <2> QED
    BY <1>2, <1>3, <2>1 DEF IInv, OwnerInv, NativeSound, device
<1>9. BooksSound'
  <2>1. \A u \in Closers : /\ HasClosed(u) <=> HasClosed(u)'
                           /\ stage[u] = "held" <=> stage'[u] = "held"
    <3>1. \A u \in Closers : u \in Threads \ {t} /\ u \in Callers \ {t}
      BY <1>1, ThreadFacts
    <3> QED
      BY <1>3, <1>4, <3>1 DEF HasClosed, Answered
  <2>2. \A r : Unlisted(r) => Unlisted(r)'
    BY <1>2, <2>1 DEF Unlisted
  <2> QED
    BY <1>2, <1>3, <2>1, <2>2 DEF IInv, OwnerInv, BooksSound, device
<1> QED
  BY <1>3, <1>5, <1>6, <1>7, <1>8, <1>9 DEF IInv, OwnerInv

(* Taking the gate for an inference: nobody's gate, so nobody inside.      *)
LEMMA AdmitStep ==
  ASSUME IInv, NEW t \in Runners, Admit(t)
  PROVE  IInv'
<1>1. t \in Threads /\ t \in Callers /\ t \notin Closers
  BY ThreadFacts
<1>2. /\ stage[t] = "entering" /\ gate = NoOne /\ gate' = t /\ ~stopping /\ ~closed
      /\ UNCHANGED <<device, lane, call, expired, stopping, closed, left, next>>
      /\ ret' = [ret EXCEPT ![t] = "ok"]
  BY DEF Admit
<1>3. stage'[t] = "infer" /\ \A u \in Threads \ {t} : stage'[u] = stage[u]
  BY <1>1 DEF Admit, Goto, IInv, OwnerInv, OwnerTypeOK
<1>4. PackageInv'
  <2>1. ret' \in [Callers -> Results]
    BY <1>2 DEF IInv, PackageInv, CallsSound, CallTypes, Results
  <2> QED
    BY <1>2, <2>1, PackageIdle DEF IInv
<1>5. OwnerTypeOK'
  BY <1>1, <1>2 DEF Admit, Goto, IInv, OwnerInv, OwnerTypeOK
<1>6. Answered(t)
  BY <1>1, <1>2 DEF IInv, OwnerInv, ThreadSound, Calling
<1>7. ASSUME NEW u \in Threads PROVE ThreadSound(u)'
  <2>1. CASE u = t
    BY <1>1, <1>2, <1>3, <1>6, <2>1
    DEF IInv, OwnerInv, ThreadSound, Calling, Answered, Inside
  <2>2. CASE u # t
    BY <1>1, <1>2, <1>3, <2>2, OthersKept DEF IInv
  <2> QED
    BY <2>1, <2>2
<1>8. OtherApart'
  BY <1>2 DEF IInv, OwnerInv, OtherApart, device
<1>9. \A u \in Threads : stage'[u] \notin {"settle", "teardown", "held"}
  <2>1. \A u \in Threads : stage[u] \notin Inside
    BY <1>2, ThreadFacts DEF IInv, OwnerInv, ThreadSound
  <2> QED
    BY <1>3, <2>1 DEF Inside
<1>10. NativeSound'
  <2>1. pending.owner \notin OwnedSet
    BY <1>2, ThreadFacts DEF IInv, OwnerInv, NativeSound
  <2> QED
    BY <1>2, <2>1 DEF NativeSound, device
<1>11. BooksSound'
  <2>1. \A u \in Closers : stage[u] \notin {"held", "teardown"} /\ ~HasClosed(u)'
    BY <1>2, <1>9, ThreadFacts DEF HasClosed, IInv, OwnerInv, ThreadSound, Inside
  <2>2. \A r : ~Unlisted(r)
    BY <2>1 DEF Unlisted, HasClosed
  <2>3. \A r \in OwnedSet : res[r] = "live"
    BY <1>2, <2>2 DEF IInv, OwnerInv, BooksSound
  <2> QED
    BY <1>2, <2>1, <2>3 DEF IInv, OwnerInv, BooksSound, device
<1> QED
  BY <1>4, <1>5, <1>7, <1>8, <1>10, <1>11 DEF IInv, OwnerInv

(* Giving the gate back after a successful drain.                          *)
LEMMA LeaveStep ==
  ASSUME IInv, NEW t \in Runners, Leave(t)
  PROVE  IInv'
<1>1. t \in Threads /\ t \in Callers /\ t \notin Closers
  BY ThreadFacts
<1>2. /\ stage[t] = "settle" /\ Answered(t) /\ ret[t] = "ok" /\ gate' = NoOne
      /\ UNCHANGED <<vars, stopping, closed, left, next>>
  BY DEF Leave
<1>3. gate = t
  BY <1>1, <1>2 DEF IInv, OwnerInv, ThreadSound, Inside
<1>4. stage'[t] = "out" /\ \A u \in Threads \ {t} : stage'[u] = stage[u]
  BY <1>1 DEF Leave, Goto, IInv, OwnerInv, OwnerTypeOK
<1>5. PackageInv'
  BY <1>2, PackageIdle DEF vars, device, calls, IInv, PackageInv, CallsSound, CallTypes
<1>6. OwnerTypeOK'
  BY <1>1, <1>2 DEF Leave, Goto, IInv, OwnerInv, OwnerTypeOK
<1>7. ASSUME NEW u \in Threads PROVE ThreadSound(u)'
  <2>1. CASE u = t
    BY <1>1, <1>2, <1>4, <2>1, ThreadFacts DEF ThreadSound, Answered, Inside, vars, calls
  <2>2. CASE u # t
    BY <1>1, <1>2, <1>3, <1>4, <2>2, OthersKept DEF IInv, vars, calls
  <2> QED
    BY <2>1, <2>2
<1>8. OtherApart'
  BY <1>2 DEF IInv, OwnerInv, OtherApart, vars, device, calls
<1>9. pending.owner \notin OwnedSet
  BY <1>1, <1>2 DEF IInv, OwnerInv, NativeSound, Drained
<1>10. NativeSound'
  BY <1>2, <1>9 DEF NativeSound, vars, device
<1>11. BooksSound'
  <2>1. \A u \in Closers : /\ HasClosed(u) <=> HasClosed(u)'
                           /\ stage[u] = "held" <=> stage'[u] = "held"
    <3>1. \A u \in Closers : u \in Threads \ {t}
      BY <1>1, ThreadFacts
    <3> QED
      BY <1>2, <1>4, <3>1 DEF HasClosed, Answered, vars, calls
  <2>2. \A r : Unlisted(r) => Unlisted(r)'
    BY <1>2, <2>1 DEF Unlisted
  <2>3. NoOne \notin Runners
    BY ThreadFacts
  <2> QED
    BY <1>2, <2>1, <2>2, <2>3 DEF IInv, OwnerInv, BooksSound, vars, device
<1> QED
  BY <1>5, <1>6, <1>7, <1>8, <1>10, <1>11 DEF IInv, OwnerInv

(* A thread that keeps its gate for ever.                                  *)
LEMMA QuarantineStep ==
  ASSUME IInv, NEW t \in Threads, Quarantine(t)
  PROVE  IInv'
<1>1. /\ stage[t] \in {"infer", "settle", "teardown"} /\ Answered(t)
      /\ UNCHANGED <<vars, gate, stopping, closed, left, next>>
  BY DEF Quarantine
<1>2. stage'[t] = "held" /\ \A u \in Threads \ {t} : stage'[u] = stage[u]
  BY DEF Quarantine, Goto, IInv, OwnerInv, OwnerTypeOK
<1>3. gate = t
  BY <1>1 DEF IInv, OwnerInv, ThreadSound, Inside
<1>4. PackageInv'
  BY <1>1, PackageIdle DEF vars, device, calls, IInv, PackageInv, CallsSound, CallTypes
<1>5. OwnerTypeOK'
  BY <1>1 DEF Quarantine, Goto, IInv, OwnerInv, OwnerTypeOK
<1>6. ASSUME NEW u \in Threads PROVE ThreadSound(u)'
  <2>1. CASE u = t
    BY <1>1, <1>2, <1>3, <2>1 DEF ThreadSound, Answered, Inside, vars, calls
  <2>2. CASE u # t
    BY <1>1, <1>2, <2>2, OthersKept DEF IInv, vars, calls
  <2> QED
    BY <2>1, <2>2
<1>7. OtherApart'
  BY <1>1 DEF IInv, OwnerInv, OtherApart, vars, device, calls
<1>8. NativeSound'
  <2>1. ASSUME NEW u \in Threads, Drained(u)' PROVE Drained(u)
    <3>1. u # t
      BY <1>2, <2>1 DEF Drained
    <3> QED
      BY <1>1, <1>2, <2>1, <3>1 DEF Drained, Answered, vars, calls
  <2> QED
    BY <1>1, <2>1 DEF IInv, OwnerInv, NativeSound, vars, device
<1>9. BooksSound'
  <2>1. \A u \in Closers \ {t} : /\ HasClosed(u) <=> HasClosed(u)'
                                 /\ stage[u] = "held" <=> stage'[u] = "held"
    <3>1. Closers \subseteq Threads
      BY ThreadFacts
    <3> QED
      BY <1>1, <1>2, <3>1 DEF HasClosed, Answered, vars, calls
  <2>2. ~HasClosed(t)' /\ (t \in Closers => \A r : Unlisted(r)')
    BY <1>2 DEF HasClosed, Unlisted
  <2>3. \A r : Unlisted(r) => Unlisted(r)'
    BY <1>1, <2>1, <2>2 DEF Unlisted
  <2> QED
    BY <1>1, <2>1, <2>2, <2>3 DEF IInv, OwnerInv, BooksSound, vars, device
<1> QED
  BY <1>4, <1>5, <1>6, <1>7, <1>8, <1>9 DEF IInv, OwnerInv

(* Taking the gate to close the resources, from the last one.              *)
LEMMA TeardownStep ==
  ASSUME IInv, NEW t \in Closers, Teardown(t)
  PROVE  IInv'
<1>1. t \in Threads /\ t \in Callers /\ t \notin Runners
  BY ThreadFacts
<1>2. /\ stage[t] = "closing" /\ gate = NoOne /\ gate' = t /\ ~closed /\ left' = left
      /\ next' = Before(Len(Owned) + 1) /\ Call(t, "close", Owned[next'], {})
      /\ UNCHANGED <<stopping, closed>>
  BY DEF Teardown
<1>3. next' \in 1..Len(Owned) /\ Owned[next'] \in OwnedSet
  <2>1. Len(Owned) + 1 \in 1..(Len(Owned) + 1)
    BY OwnedFacts
  <2>2. /\ next' \in 0..Len(Owned)
        /\ next' = 0 => \A j \in 1..Len(Owned) : Owned[j] \notin left
    BY <1>2, <2>1, BeforeFacts, OwnedFacts
  <2>3. left # {} /\ left \subseteq OwnedSet
    BY <1>2 DEF IInv, OwnerInv, BooksSound, OwnerTypeOK
  <2>4. next' # 0
    BY <2>2, <2>3 DEF OwnedSet
  <2> QED
    BY <2>2, <2>4, OwnedFacts
<1>4. /\ PackageInv' /\ UNCHANGED <<device, lane, expired, ret>>
      /\ ~Answered(t)' /\ call'[t].op = "close" /\ call'[t].on = Owned[next']
      /\ \A d \in Callers \ {t} : call'[d] = call[d]
  BY <1>1, <1>2, <1>3, ThreadCalls
<1>5. stage'[t] = "teardown" /\ \A u \in Threads \ {t} : stage'[u] = stage[u]
  BY <1>1 DEF Teardown, Goto, IInv, OwnerInv, OwnerTypeOK
<1>6. OwnerTypeOK'
  BY <1>1, <1>2, <1>3 DEF Teardown, Goto, IInv, OwnerInv, OwnerTypeOK
<1>7. ASSUME NEW u \in Threads PROVE ThreadSound(u)'
  <2>1. CASE u = t
    BY <1>1, <1>2, <1>3, <1>4, <1>5, <2>1
    DEF IInv, OwnerInv, ThreadSound, Calling, Inside
  <2>2. CASE u # t
    BY <1>1, <1>2, <1>4, <1>5, <2>2, OthersKept, ThreadFacts DEF IInv
  <2> QED
    BY <2>1, <2>2
<1>8. OtherApart'
  BY <1>1, <1>4, ThreadFacts DEF IInv, OwnerInv, OtherApart, device
<1>9. \A u \in Threads : stage[u] \notin Inside
  BY <1>2, ThreadFacts DEF IInv, OwnerInv, ThreadSound
<1>10. NativeSound'
  <2>1. pending.owner \notin OwnedSet
    BY <1>2, ThreadFacts DEF IInv, OwnerInv, NativeSound
  <2> QED
    BY <1>4, <2>1 DEF NativeSound, device
<1>11. BooksSound'
  <2>1. \A r : ~Unlisted(r)
    BY <1>9, ThreadFacts DEF Unlisted, HasClosed, Inside
  <2>2. \A r \in OwnedSet : r \in left => res[r] = "live"
    BY <2>1 DEF IInv, OwnerInv, BooksSound
  <2>3. \A u \in Closers : ~HasClosed(u)'
    <3>1. \A u \in Closers \ {t} : stage'[u] # "teardown"
      BY <1>5, <1>9, ThreadFacts DEF Inside
    <3> QED
      BY <1>4, <3>1 DEF HasClosed
  <2>4. closed <=> left = {}
    BY DEF IInv, OwnerInv, BooksSound
  <2>5. stopping
    BY <1>1, <1>2 DEF IInv, OwnerInv, ThreadSound
  <2> QED
    BY <1>1, <1>2, <1>4, <2>2, <2>3, <2>4, <2>5 DEF IInv, OwnerInv, BooksSound, device
<1> QED
  BY <1>4, <1>6, <1>7, <1>8, <1>10, <1>11 DEF IInv, OwnerInv

(* What the close that has returned leaves of the owner's list: exactly    *)
(* the resources that are live.                                            *)
LEMMA CloseNextBooks ==
  ASSUME IInv, NEW t \in Closers, CloseNext(t)
  PROVE  /\ left' \subseteq OwnedSet
         /\ \A r \in OwnedSet : res[r] = "live" <=> r \in left'
         /\ next' \in 0..Len(Owned)
         /\ next' # 0 => Owned[next'] \in left'
<1>1. t \in Threads /\ t \in Callers
  BY ThreadFacts
<1>2. /\ stage[t] = "teardown" /\ Answered(t) /\ next' = Before(next)
      /\ left' = IF ret[t] = "ok" THEN left \ {Owned[next]} ELSE left
  BY DEF CloseNext
<1>3. gate = t /\ next \in 1..Len(Owned)
  BY <1>1, <1>2, OwnedFacts DEF IInv, OwnerInv, OwnerTypeOK, ThreadSound, Inside
<1>4. left' \subseteq OwnedSet
  BY <1>2 DEF IInv, OwnerInv, OwnerTypeOK
<1>5. next' \in 0..Len(Owned) /\ (next' # 0 => Owned[next'] \in left')
  <2>1. next \in 1..(Len(Owned) + 1)
    BY <1>3, OwnedFacts
  <2> QED
    BY <1>2, <1>3, <2>1, BeforeFacts, OwnedFacts
<1>6. ASSUME NEW r, Unlisted(r) PROVE HasClosed(t) /\ r = Owned[next]
  <2>1. PICK u \in Closers : stage[u] = "held" \/ (HasClosed(u) /\ r = Owned[next])
    BY <1>6 DEF Unlisted
  <2>2. u = t
    BY <1>1, <1>3, <2>1, OneInside, ThreadFacts DEF Inside, HasClosed, IInv
  <2> QED
    BY <1>2, <2>1, <2>2
<1>7. ASSUME NEW r \in OwnedSet PROVE res[r] = "live" <=> r \in left'
  <2>1. /\ res[r] \in {"live", "closed"}
        /\ res[r] = "live" => r \in left
        /\ r \in left => res[r] = "live" \/ Unlisted(r)
        /\ HasClosed(t) => res[Owned[next]] = "closed"
    BY <1>7 DEF IInv, OwnerInv, BooksSound
  <2>2. HasClosed(t) <=> ret[t] = "ok"
    BY <1>2 DEF HasClosed
  <2> QED
    BY <1>2, <1>6, <2>1, <2>2
<1> QED
  BY <1>4, <1>5, <1>7

(* A resource has been closed or kept: the one before it, or the end.      *)
LEMMA CloseNextStep ==
  ASSUME IInv, NEW t \in Closers, CloseNext(t)
  PROVE  IInv'
<1>1. t \in Threads /\ t \in Callers /\ t \notin Runners /\ t # NoOne
  BY ThreadFacts
<1>2. /\ left' \subseteq OwnedSet /\ next' \in 0..Len(Owned)
      /\ \A r \in OwnedSet : res[r] = "live" <=> r \in left'
      /\ next' # 0 => Owned[next'] \in left'
  BY CloseNextBooks
<1>3. /\ stage[t] = "teardown" /\ Answered(t) /\ gate = t /\ stopping /\ ~closed
  <2>1. stage[t] = "teardown" /\ Answered(t)
    BY DEF CloseNext
  <2>2. gate = t /\ stopping
    BY <1>1, <2>1 DEF IInv, OwnerInv, ThreadSound, Inside
  <2> QED
    BY <1>1, <2>1, <2>2 DEF IInv, OwnerInv, BooksSound
<1>4. pending.owner \notin OwnedSet
  BY <1>1, <1>3 DEF IInv, OwnerInv, NativeSound
<1>5. ASSUME UNCHANGED res,
             closed' <=> left' = {}, closed' => gate' = NoOne, stopping' = stopping,
             gate' \in {t, NoOne}, \A u \in Closers : ~HasClosed(u)'
      PROVE  BooksSound'
  <2>1. \A r \in OwnedSet : res[r] \in {"live", "closed"}
    BY DEF IInv, OwnerInv, BooksSound
  <2>2. gate' \notin Runners
    BY <1>1, <1>5, ThreadFacts
  <2> QED
    BY <1>2, <1>3, <1>5, <2>1, <2>2 DEF BooksSound
<1>6. \A u \in Closers \ {t} : stage[u] # "teardown"
  BY <1>1, <1>3, OneInside, ThreadFacts DEF IInv, Inside
<1>7. CASE /\ next' # 0 /\ Call(t, "close", Owned[next'], {})
           /\ UNCHANGED <<stage, gate, stopping, closed>>
  <2>1. Owned[next'] \in OwnedSet
    BY <1>2, <1>7
  <2>2. /\ PackageInv' /\ UNCHANGED <<device, lane, expired, ret>>
        /\ ~Answered(t)' /\ call'[t].op = "close" /\ call'[t].on = Owned[next']
        /\ \A d \in Callers \ {t} : call'[d] = call[d]
    BY <1>1, <1>7, <2>1, ThreadCalls
  <2>3. OwnerTypeOK'
    BY <1>2, <1>7 DEF IInv, OwnerInv, OwnerTypeOK
  <2>4. ASSUME NEW u \in Threads PROVE ThreadSound(u)'
    <3>1. CASE u = t
      BY <1>1, <1>3, <1>7, <2>1, <2>2, <3>1
      DEF IInv, OwnerInv, ThreadSound, Calling, Inside
    <3>2. CASE u # t
      BY <1>1, <1>3, <1>7, <2>2, <3>2, OthersKept, ThreadFacts DEF IInv
    <3> QED
      BY <3>1, <3>2
  <2>5. OtherApart'
    BY <1>1, <2>2, ThreadFacts DEF IInv, OwnerInv, OtherApart, device
  <2>6. NativeSound'
    BY <1>4, <2>2 DEF NativeSound, device
  <2>7. \A u \in Closers : ~HasClosed(u)'
    BY <1>6, <1>7, <2>2 DEF HasClosed
  <2>8. BooksSound'
    BY <1>1, <1>2, <1>3, <1>5, <1>7, <2>2, <2>7 DEF device
  <2> QED
    BY <2>2, <2>3, <2>4, <2>5, <2>6, <2>8 DEF IInv, OwnerInv
<1>8. CASE /\ next' = 0 /\ closed' = (left' = {}) /\ gate' = NoOne /\ Goto(t, "out")
           /\ UNCHANGED <<vars, stopping>>
  <2>1. stage'[t] = "out" /\ \A u \in Threads \ {t} : stage'[u] = stage[u]
    BY <1>1, <1>8 DEF Goto, IInv, OwnerInv, OwnerTypeOK
  <2>2. PackageInv'
    BY <1>8, PackageIdle DEF vars, device, calls, IInv, PackageInv, CallsSound, CallTypes
  <2>3. OwnerTypeOK'
    BY <1>1, <1>2, <1>8 DEF Goto, IInv, OwnerInv, OwnerTypeOK
  <2>4. ASSUME NEW u \in Threads PROVE ThreadSound(u)'
    <3>1. CASE u = t
      BY <1>1, <1>3, <1>8, <2>1, <3>1 DEF ThreadSound, Answered, Inside, vars, calls
    <3>2. CASE u # t
      BY <1>1, <1>3, <1>8, <2>1, <3>2, OthersKept DEF IInv, vars, calls
    <3> QED
      BY <3>1, <3>2
  <2>5. OtherApart'
    BY <1>8 DEF IInv, OwnerInv, OtherApart, vars, device, calls
  <2>6. NativeSound'
    BY <1>4, <1>8 DEF NativeSound, vars, device
  <2>7. \A u \in Closers : ~HasClosed(u)'
    BY <1>6, <2>1, ThreadFacts DEF HasClosed
  <2>8. BooksSound'
    BY <1>5, <1>8, <2>7 DEF vars, device
  <2> QED
    BY <2>2, <2>3, <2>4, <2>5, <2>6, <2>8 DEF IInv, OwnerInv
<1> QED
  BY <1>7, <1>8 DEF CloseNext

-----------------------------------------------------------------------------
(* The invariant is inductive.                                             *)
LEMMA OwnerStart == OwnerInit => IInv
<1> SUFFICES ASSUME OwnerInit PROVE IInv
  OBVIOUS
<1>1. PackageInv
  BY PackageInit DEF OwnerInit
<1>2. \A r \in OwnedSet : res[r] = "live"
  BY OwnedFacts DEF OwnerInit, Init
<1>3. OwnerTypeOK
  <2>1. next \in 0..Len(Owned)
    BY OwnedFacts DEF OwnerInit
  <2> QED
    BY <2>1 DEF OwnerInit, OwnerTypeOK
<1>4. \A t \in Threads : ThreadSound(t)
  BY ThreadFacts DEF OwnerInit, Init, ThreadSound, Answered, Inside
<1>5. OtherApart /\ NativeSound
  BY ThreadFacts, OwnedFacts
  DEF OwnerInit, Init, OtherApart, NativeSound, Drained, NoCall, NoJob
<1>6. BooksSound
  BY <1>2, OwnedFacts, ThreadFacts DEF OwnerInit, BooksSound, HasClosed, Unlisted
<1> QED
  BY <1>1, <1>3, <1>4, <1>5, <1>6 DEF IInv, OwnerInv

(* No step of the owner, the other client or the package breaks it.        *)
LEMMA OwnerStep == IInv /\ [OwnerNext]_allVars => IInv'
<1> SUFFICES ASSUME IInv, [OwnerNext]_allVars PROVE IInv'
  OBVIOUS
<1>1. ASSUME NEW t \in Runners, RunnerStep(t) PROVE IInv'
  <2>1. t \in Threads
    BY ThreadFacts
  <2> QED
    BY <1>1, <2>1, OutsideSteps, RunnerCalls, AdmitStep, LeaveStep, QuarantineStep DEF RunnerStep
<1>2. ASSUME NEW t \in Closers, CloserStep(t) PROVE IInv'
  <2>1. t \in Threads
    BY ThreadFacts
  <2> QED
    BY <1>2, <2>1, OutsideSteps, TeardownStep, CloseNextStep, QuarantineStep DEF CloserStep
<1>3. CASE Client(Raw, Resources \ OwnedSet) /\ UNCHANGED owner
  BY <1>3, OtherCalls
<1>4. CASE PackageStep /\ UNCHANGED owner
  BY <1>4, PackageSteps
<1>5. CASE UNCHANGED allVars
  <2>1. UNCHANGED <<vars, owner>>
    BY <1>5 DEF allVars
  <2>2. PackageInv'
    BY <2>1, PackageIdle DEF vars, device, calls, IInv, PackageInv, CallsSound, CallTypes
  <2>3. OwnerInv'
    BY <2>1, Elsewhere DEF vars, device, calls, IInv
  <2> QED
    BY <2>2, <2>3 DEF IInv
<1> QED
  BY <1>1, <1>2, <1>3, <1>4, <1>5 DEF OwnerNext

(* The invariant of the owner and the package holds in every reachable     *)
(* state.                                                                  *)
THEOREM OwnerInductive == OwnerSpec => []IInv
BY OwnerStart, OwnerStep, PTL DEF OwnerSpec

-----------------------------------------------------------------------------
(* Nothing the device executes is ever destroyed under it, and the host    *)
(* never touches what is destroyed or in use, whatever the threads of the  *)
(* owner and the other client call and however the driver fails            *)
(* (vulkan_lifetime.go:93-119, vulkan_buf.go:196-224, 262-318).            *)
THEOREM NothingUsedAfterFree == OwnerSpec => []NoUseAfterFree
<1>1. IInv => NoUseAfterFree
  BY PackageSafe DEF IInv
<1> QED
  BY <1>1, OwnerInductive, PTL

(* The package's ledger, the gate and the owner's list of resources are    *)
(* exact in every state: a Close that fails half way loses no resource     *)
(* (vulkan_encoder.go:771-808, whisper_vulkan.go:217-264).                 *)
THEOREM OwnerBooksAgree == OwnerSpec => []OwnerSound
<1>1. IInv => OwnerSound
  <2> SUFFICES ASSUME IInv PROVE OwnerSound
    OBVIOUS
  <2>1. OwnerTypeOK /\ LedgerExact
    BY PackageSafe DEF IInv, OwnerInv
  <2>2. \A t \in Threads : gate = t <=> stage[t] \in Inside
    BY DEF IInv, OwnerInv, ThreadSound
  <2>3. {r \in OwnedSet : res[r] = "live"} \subseteq left /\ (closed => left = {})
    BY DEF IInv, OwnerInv, BooksSound
  <2> QED
    BY <2>1, <2>2, <2>3 DEF OwnerSound, Inside
<1> QED
  BY <1>1, OwnerInductive, PTL

(* The steps of the owner's threads leave the device alone.                *)
LEMMA OwnerStepsFrozen ==
  ASSUME [OwnerNext]_allVars, ~(PackageStep /\ UNCHANGED owner)
  PROVE  Frozen
<1>1. UNCHANGED device
  BY DEF OwnerNext, RunnerStep, CloserStep, Enter, Withdraw, Refused, Admit, Use, Settle,
         DrainAgain, Leave, Quarantine, BeginClose, AlreadyClosed, Teardown, CloseNext,
         Client, Call, allVars, vars
<1> QED
  BY <1>1 DEF Frozen, Quarantined, device

(* A device that is lost, or whose submission is in doubt, stays so, and   *)
(* the package neither destroys, builds, rebinds, charges nor submits      *)
(* anything more (vulkan_lifetime.go:62-72, 133-141).                      *)
THEOREM QuarantineNeverEnds == OwnerSpec => QuarantineIsFinal
<1>1. IInv /\ [OwnerNext]_allVars => [Frozen]_vars
  BY PackageSteps, OwnerStepsFrozen
<1>2. Frozen <=>
        (Quarantined =>
          /\ Quarantined'
          /\ UNCHANGED <<pending, res, bound, charged, budget>>
          /\ gpu' \in {gpu, NoJob})
  BY DEF Frozen
<1> QED
  BY <1>1, <1>2, OwnerInductive, PTL DEF OwnerSpec, QuarantineIsFinal

-----------------------------------------------------------------------------
(* Refinement: every step of the owner is a step of the lease or none.     *)

Native == gpu.owner \in OwnedSet
Gone == {r \in OwnedSet : res[r] = "closed"}

(* What the package retains of the owner, a runner with the gate submitted;*)
(* resources are closed only after Close, with no runner at the gate.      *)
LEMMA GoneFacts ==
  ASSUME IInv
  PROVE  /\ Native => pending.owner \in OwnedSet /\ gate \in Runners /\ Gone = {}
         /\ Gone # {} => stopping /\ gate \notin Runners
<1>1. Native => pending.owner \in OwnedSet
  BY OwnedFacts DEF Native, IInv, PackageInv, DeviceSound, NoJob
<1> QED
  BY <1>1 DEF Gone, IInv, OwnerInv, NativeSound, BooksSound

(* A step that changes nothing the lease speaks of is a stutter.           *)
LEMMA LeaseStutter ==
  ASSUME UNCHANGED <<gate, gpu, stopping, res, closed>>
  PROVE  UNCHANGED Lease!vars
BY DEF Lease!vars

(* A step that serves a caller submits, completes, destroys or is nothing. *)
LEMMA ServedLease ==
  ASSUME IInv, NEW c \in Callers, Footprint(c), call[c] # NoCall, UNCHANGED owner
  PROVE  [Lease!Next]_(Lease!vars)
<1>1. UNCHANGED <<stage, gate, stopping, closed, left, next>>
  BY DEF owner
<1>2. ASSUME NEW r \in OwnedSet, res'[r] # res[r]
      PROVE  /\ res[r] = "live" /\ res'[r] = "closed" /\ r = Owned[next]
             /\ gate \in Closers /\ stopping
  <2>1. r \in Resources /\ res[r] # "none" /\ r \notin deferred
    BY OwnedFacts DEF IInv, OwnerInv, BooksSound, OtherApart
  <2>2. res[r] = "live" /\ res'[r] = "closed" /\ Removes(c, r)
    BY <1>2, <2>1 DEF Footprint
  <2> QED
    BY <2>2, WhoCalls DEF Removes
<1>3. CASE \E r \in OwnedSet : res'[r] # res[r]
  <2>1. PICK r \in OwnedSet : res'[r] # res[r]
    BY <1>3
  <2>2. gate \in Closers /\ stopping /\ gate # NoOne
    BY <1>2, <2>1, ThreadFacts
  <2>3. Gone' = Gone \cup {r}
    BY <1>2, <2>1 DEF Gone
  <2>4. ~Native /\ ~Native'
    <3>1. ~Native
      BY <2>2, GoneFacts, ThreadFacts
    <3>2. gpu' \in {gpu, NoJob}
      BY <2>1 DEF Footprint
    <3> QED
      BY <3>1, <3>2, OwnedFacts DEF Native, NoJob
  <2>5. Lease!Destroy(r)
    BY <1>1, <2>2, <2>3, <2>4 DEF Lease!Destroy, Native, Gone
  <2> QED
    BY <2>5 DEF Lease!Next
<1>4. CASE \A r \in OwnedSet : res'[r] = res[r]
  <2>1. Gone' = Gone
    BY <1>4 DEF Gone
  <2>2. CASE Native' <=> Native
    BY <1>1, <2>1, <2>2 DEF Lease!vars, Native, Gone
  <2>3. CASE Native /\ ~Native'
    <3>1. Lease!Complete
      BY <1>1, <2>1, <2>3 DEF Lease!Complete, Native, Gone
    <3> QED
      BY <3>1 DEF Lease!Next
  <2>4. CASE ~Native /\ Native'
    <3>1. /\ call[c].op \in {"dispatch", "run"} /\ gpu' = pending'
          /\ pending'.owner = call[c].on
      BY <2>4, OwnedFacts DEF Footprint, Native, NoJob
    <3>2. gate \in Runners /\ Gone = {}
      BY <2>4, <3>1, WhoCalls, GoneFacts DEF Native
    <3>3. Lease!Submit
      BY <1>1, <2>1, <2>4, <3>2 DEF Lease!Submit, Native, Gone
    <3> QED
      BY <3>3 DEF Lease!Next
  <2> QED
    BY <2>2, <2>3, <2>4
<1> QED
  BY <1>3, <1>4

(* Every step of the package is a step of the lease, or nothing to it.     *)
LEMMA PackageLease ==
  ASSUME IInv, PackageStep, UNCHANGED owner
  PROVE  [Lease!Next]_(Lease!vars)
<1>1. CASE GpuDone
  <2>1. gpu' = NoJob /\ UNCHANGED <<res, gate, stopping, closed>>
    BY <1>1 DEF GpuDone, owner
  <2>2. ~Native' /\ Gone' = Gone
    BY <2>1, OwnedFacts DEF Native, Gone, NoJob
  <2>3. CASE Native
    <3>1. Lease!Complete
      BY <2>1, <2>2, <2>3 DEF Lease!Complete, Native, Gone
    <3> QED
      BY <3>1 DEF Lease!Next
  <2>4. CASE ~Native
    BY <2>1, <2>2, <2>4 DEF Lease!vars, Native, Gone
  <2> QED
    BY <2>3, <2>4
<1>2. ASSUME NEW c \in Callers, Serve(c) \/ Finish(c) \/ GiveUp(c)
      PROVE  [Lease!Next]_(Lease!vars)
  <2>1. StepSound(c) /\ call[c] # NoCall
    BY <1>2, ServeSound, FinishSound, OnlyCallers DEF IInv
  <2> QED
    BY <2>1, ServedLease DEF StepSound
<1>3. ASSUME NEW c \in Callers, Expire(c) PROVE UNCHANGED Lease!vars
  BY <1>3, LeaseStutter DEF Expire, device, owner
<1> QED
  BY <1>1, <1>2, <1>3 DEF PackageStep

(* The gate given back is the lease given back: nothing of the owner runs, *)
(* and it is closed exactly when all its resources are gone.               *)
LEMMA ReleaseStep ==
  ASSUME IInv, NEW t \in Threads,
         \/ t \in Runners /\ Leave(t)
         \/ t \in Closers /\ CloseNext(t) /\ next' = 0
  PROVE  Lease!Release
<1>1. t # NoOne /\ (t \in Runners <=> t \notin Closers)
  BY ThreadFacts
<1>2. CASE t \in Runners /\ Leave(t)
  <2>1. gate = t /\ gate' = NoOne /\ UNCHANGED <<vars, stopping, closed>>
    BY <1>2 DEF Leave, IInv, OwnerInv, ThreadSound, Inside
  <2>2. ~Native
    BY <1>2, GoneFacts DEF Leave, IInv, OwnerInv, NativeSound, Drained
  <2>3. closed' = FALSE
    BY <1>1, <2>1 DEF IInv, OwnerInv, OwnerTypeOK, BooksSound
  <2>4. (gate \in Closers /\ Gone = OwnedSet) = FALSE
    BY <1>1, <1>2, <2>1
  <2>5. closed' = (gate \in Closers /\ Gone = OwnedSet)
    BY <2>3, <2>4
  <2> QED
    BY <1>1, <2>1, <2>2, <2>5 DEF Lease!Release, Native, Gone, vars, device
<1>3. CASE t \in Closers /\ CloseNext(t) /\ next' = 0
  <2>1. stage[t] = "teardown"
    BY <1>3 DEF CloseNext
  <2>2. gate = t
    BY <2>1 DEF IInv, OwnerInv, ThreadSound, Inside
  <2>3. gate' = NoOne /\ closed' = (left' = {}) /\ UNCHANGED <<vars, stopping>>
    BY <1>3 DEF CloseNext
  <2>4. ~Native
    BY <1>1, <1>3, <2>2, GoneFacts
  <2>5. left' \subseteq OwnedSet /\ \A r \in OwnedSet : res[r] = "live" <=> r \in left'
    BY <1>3, CloseNextBooks
  <2>6. \A r \in OwnedSet : res[r] \in {"live", "closed"}
    BY DEF IInv, OwnerInv, BooksSound
  <2>7. left' = {} <=> Gone = OwnedSet
    BY <2>5, <2>6 DEF Gone
  <2> QED
    BY <1>1, <1>3, <2>2, <2>3, <2>4, <2>7 DEF Lease!Release, Native, Gone, vars, device
<1> QED
  BY <1>2, <1>3

(* The owner starts where the lease starts.                                *)
LEMMA LeaseStart == OwnerInit => Lease!Init
<1> SUFFICES ASSUME OwnerInit PROVE Lease!Init
  OBVIOUS
<1>1. \A r \in OwnedSet : res[r] = "live"
  BY OwnedFacts DEF OwnerInit, Init
<1>2. gpu.owner \notin OwnedSet
  BY OwnedFacts DEF OwnerInit, Init, NoJob
<1> QED
  BY <1>1, <1>2 DEF Lease!Init, OwnerInit

(* Every step of the owner is a step of the lease or a stutter.            *)
LEMMA LeaseStep == IInv /\ [OwnerNext]_allVars => [Lease!Next]_(Lease!vars)
<1> SUFFICES ASSUME IInv, [OwnerNext]_allVars PROVE [Lease!Next]_(Lease!vars)
  OBVIOUS
<1>1. ASSUME NEW t \in Runners, RunnerStep(t) PROVE [Lease!Next]_(Lease!vars)
  <2>1. CASE Enter(t) \/ Withdraw(t) \/ Refused(t) \/ Use(t) \/ Settle(t) \/ DrainAgain(t)
             \/ Quarantine(t)
    BY <2>1, LeaseStutter DEF Enter, Withdraw, Refused, Use, Settle, DrainAgain, Quarantine,
                              Call, vars, device, owner
  <2>2. CASE Admit(t)
    <3>1. Lease!Lease(t)
      BY <2>2 DEF Admit, Lease!Lease, device
    <3> QED
      BY <3>1 DEF Lease!Next
  <2>3. CASE Leave(t)
    BY <2>3, ReleaseStep DEF Lease!Next, Threads
  <2> QED
    BY <1>1, <2>1, <2>2, <2>3 DEF RunnerStep
<1>2. ASSUME NEW t \in Closers, CloserStep(t) PROVE [Lease!Next]_(Lease!vars)
  <2>1. CASE Withdraw(t) \/ AlreadyClosed(t) \/ Quarantine(t)
    BY <2>1, LeaseStutter DEF Withdraw, AlreadyClosed, Quarantine, vars, device
  <2>2. CASE BeginClose(t)
    <3>1. Lease!Stop
      BY <2>2 DEF BeginClose, Lease!Stop, vars, device
    <3> QED
      BY <3>1 DEF Lease!Next
  <2>3. CASE Teardown(t)
    <3>1. Lease!Lease(t)
      BY <2>3, ThreadFacts DEF Teardown, Call, Lease!Lease, device
    <3> QED
      BY <3>1 DEF Lease!Next
  <2>4. CASE CloseNext(t) /\ next' # 0
    BY <2>4, LeaseStutter DEF CloseNext, Call, device
  <2>5. CASE CloseNext(t) /\ next' = 0
    BY <2>5, ReleaseStep DEF Lease!Next, Threads
  <2> QED
    BY <1>2, <2>1, <2>2, <2>3, <2>4, <2>5 DEF CloserStep
<1>3. CASE Client(Raw, Resources \ OwnedSet) /\ UNCHANGED owner
  BY <1>3, LeaseStutter DEF Client, Call, device, owner
<1>4. CASE PackageStep /\ UNCHANGED owner
  BY <1>4, PackageLease
<1>5. CASE UNCHANGED allVars
  BY <1>5, LeaseStutter DEF allVars, vars, device, owner
<1> QED
  BY <1>1, <1>2, <1>3, <1>4, <1>5 DEF OwnerNext

(* The owner implements its lease: one holder at a time, given back only   *)
(* when no work of the model survives, and its resources destroyed only by *)
(* a closer that holds it, after Close, with nothing executing             *)
(* (whisper_vulkan.go:151-190, 217-264).                                   *)
THEOREM OwnerImplementsLease == OwnerSpec => ImplementsLease
BY LeaseStart, LeaseStep, OwnerInductive, PTL DEF OwnerSpec, ImplementsLease, Lease!Spec
=============================================================================
