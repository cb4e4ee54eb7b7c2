------------------------ MODULE VulkanLifetimeProofs ------------------------
(***************************************************************************)
(* What every step of the Vulkan package and of a client of it preserves,  *)
(* for any callers, resources, budgets and driver faults.  A composition   *)
(* that only takes these steps on the package's state inherits it.         *)
(***************************************************************************)
EXTENDS VulkanLifetime, FiniteSetTheorems, TLAPS

(***************************************************************************)
(* The inductive invariant.  The device part: the retained submission's    *)
(* resources are live, which is what the device may be using; the ledger   *)
(* counts the live buffers.  The calls part: a call names resources of the *)
(* kind its method belongs to.  The lane part ties them: whoever holds the *)
(* lane waits for a submission that nobody has doubted, or touches a live  *)
(* buffer that is not part of one.                                         *)
(***************************************************************************)
LiveBuffers == {b \in Buffers : res[b] = "live"}

DeviceTypes ==
  /\ pending \in Jobs /\ gpu \in Jobs
  /\ uncertain \in BOOLEAN /\ lost \in BOOLEAN
  /\ res \in [Resources -> {"none", "live", "closed"}]
  /\ bound \in [Plans -> SUBSET Buffers]
  /\ charged \in Nat /\ budget \in Nat

PendingLive ==
  pending # NoJob =>
    /\ Live({pending.owner} \cup pending.bufs)
    /\ pending.owner \in Plans => Live(Stages[pending.owner])

Charged ==
  /\ IsFiniteSet(LiveBuffers)
  /\ charged = Cardinality(LiveBuffers)
  /\ charged <= budget

DeviceSound ==
  /\ DeviceTypes /\ PendingLive /\ Charged
  /\ deferred \subseteq pending.bufs
  /\ gpu \in {pending, NoJob}

CallTypes ==
  /\ call \in [Callers -> [op : Background \cup Bounded,
                           on : Resources \cup {NoOne},
                           bufs : SUBSET Buffers] \cup {NoCall}]
  /\ expired \in [Callers -> BOOLEAN]
  /\ ret \in [Callers -> Results]

CallKinds(c) ==
  /\ call[c].op = "close" => call[c].on \in Resources
  /\ call[c].op \in {"free", "touch"} => call[c].on \in Buffers
  /\ call[c].op = "dispatch" => call[c].on \in Kernels
  /\ call[c].op \in {"run", "rebind"} => call[c].on \in Plans
  /\ expired[c] => call[c].op \in Bounded

CallsSound == CallTypes /\ \A c \in Callers : CallKinds(c)

HoldsLane(c) ==
  \/ Waiting(c) /\ pending # NoJob /\ ~Quarantined
  \/ call[c].op = "touch" /\ Live({call[c].on}) /\ call[c].on \notin pending.bufs

LaneSound ==
  /\ lane \in Callers \cup {NoOne}
  /\ \A c \in Callers : lane = c => HoldsLane(c)

PackageInv == DeviceSound /\ CallsSound /\ LaneSound

-----------------------------------------------------------------------------
(* A job is the empty one exactly when nothing owns it.                    *)
LEMMA JobFacts ==
  ASSUME NEW j \in Jobs
  PROVE  /\ j.owner \in Objects \cup {NoOne} /\ j.bufs \subseteq Buffers
         /\ j.owner \in Objects <=> j # NoJob
         /\ j = NoJob => j.owner = NoOne /\ j.bufs = {}
BY ResourceAssumption DEF Jobs, NoJob, Resources

(* A call is well typed, and one that is made has a name.                  *)
LEMMA CallFacts ==
  ASSUME CallTypes, NEW c \in Callers
  PROVE  /\ call[c].op \in Background \cup Bounded \cup {"none"}
         /\ call[c].on \in Resources \cup {NoOne} /\ call[c].bufs \subseteq Buffers
         /\ call[c] = NoCall <=> call[c].op = "none"
         /\ NoCall.op = "none"
BY DEF CallTypes, NoCall, Background, Bounded

(* The end of a call leaves the other calls as they are.                   *)
LEMMA ReturnCalls ==
  ASSUME CallsSound, NEW c \in Callers, NEW r \in Results, Return(c, r)
  PROVE  CallsSound'
<1>1. CallTypes'
  BY DEF CallsSound, CallTypes, Return
<1>2. ASSUME NEW d \in Callers PROVE CallKinds(d)'
  BY DEF CallsSound, CallTypes, CallKinds, Return, NoCall
<1> QED
  BY <1>1, <1>2 DEF CallsSound

(* Whoever returns from a call with the lane, or with nobody holding it,   *)
(* leaves it free.                                                         *)
LEMMA ReturnLane ==
  ASSUME LaneSound, NEW c \in Callers, NEW r, Return(c, r), lane \in {c, NoOne}
  PROVE  LaneSound' /\ lane' = NoOne
<1>1. lane' = NoOne
  BY DEF Return
<1>2. NoOne \notin Callers
  BY ResourceAssumption
<1> QED
  BY <1>1, <1>2 DEF LaneSound

(* A call that ends without touching the device keeps the invariant, the   *)
(* lane being the caller's, another's or nobody's.                         *)
LEMMA RefuseInv ==
  ASSUME PackageInv, NEW c \in Callers, NEW r \in Results, Refuse(c, r)
  PROVE  PackageInv'
<1>1. Return(c, r) /\ UNCHANGED device
  BY DEF Refuse
<1>2. DeviceSound'
  BY <1>1 DEF PackageInv, DeviceSound, DeviceTypes, PendingLive, Charged, LiveBuffers, Live, device
<1>3. CallsSound'
  BY <1>1, ReturnCalls DEF PackageInv
<1>4. CASE lane \in {c, NoOne}
  BY <1>1, <1>2, <1>3, <1>4, ReturnLane DEF PackageInv
<1>5. CASE lane \notin {c, NoOne}
  <2>1. lane' = lane
    BY <1>1, <1>5 DEF Return
  <2>2. ASSUME NEW d \in Callers, lane' = d PROVE HoldsLane(d)'
    <3>1. d # c /\ HoldsLane(d)
      BY <1>5, <2>1, <2>2 DEF PackageInv, LaneSound
    <3>2. call'[d] = call[d]
      BY <1>1, <3>1 DEF Return, PackageInv, CallsSound, CallTypes
    <3> QED
      BY <1>1, <2>1, <3>1, <3>2 DEF HoldsLane, Waiting, Quarantined, Live, device
  <2> QED
    BY <1>2, <1>3, <2>1, <2>2 DEF PackageInv, LaneSound
<1> QED
  BY <1>4, <1>5

(* A call that ends well or badly after a sound change of the device.      *)
LEMMA ActedInv ==
  ASSUME PackageInv, NEW c \in Callers, NEW r \in Results, Return(c, r),
         lane \in {c, NoOne}, DeviceSound'
  PROVE  PackageInv' /\ lane' = NoOne
BY ReturnCalls, ReturnLane DEF PackageInv

(* A caller that keeps the lane after a sound change of the device.        *)
LEMMA KeptInv ==
  ASSUME PackageInv, NEW c \in Callers, Keep(c), DeviceSound', HoldsLane(c)'
  PROVE  PackageInv'
BY DEF PackageInv, Keep, LaneSound, CallsSound, CallTypes, CallKinds

-----------------------------------------------------------------------------
(* Destroying live resources that the retained submission does not use, or *)
(* settling it, keeps the ledger exact.                                    *)
LEMMA DestroyCharged ==
  ASSUME DeviceSound, NEW S \in SUBSET Resources, Destroy(S), UNCHANGED budget,
         S \cap Buffers \subseteq LiveBuffers
  PROVE  /\ Charged' /\ charged' \in Nat
         /\ res' \in [Resources -> {"none", "live", "closed"}]
         /\ \A r \in Resources \ S : res'[r] = res[r]
<1> DEFINE D == S \cap Buffers
<1>1. /\ res' \in [Resources -> {"none", "live", "closed"}]
      /\ \A r \in Resources \ S : res'[r] = res[r]
      /\ \A r \in S : res'[r] = "closed"
  BY DEF Destroy, DeviceSound, DeviceTypes
<1>2. LiveBuffers' = LiveBuffers \ D
  BY <1>1 DEF LiveBuffers, Resources
<1>3. IsFiniteSet(LiveBuffers) /\ charged = Cardinality(LiveBuffers) /\ charged <= budget
  BY DEF DeviceSound, Charged
<1>4. IsFiniteSet(D) /\ Cardinality(D) \in Nat
  BY <1>3, FS_Subset, FS_CardinalityType
<1>5. IsFiniteSet(LiveBuffers') /\ Cardinality(LiveBuffers') \in Nat
  BY <1>2, <1>3, FS_Subset, FS_CardinalityType
<1>6. Cardinality(LiveBuffers) = Cardinality(LiveBuffers') + Cardinality(D)
  <2>1. LiveBuffers = LiveBuffers' \cup D /\ LiveBuffers' \cap D = {}
    BY <1>2
  <2>2. Cardinality(LiveBuffers' \cap D) = 0
    BY <2>1, FS_EmptySet
  <2>3. Cardinality(LiveBuffers' \cup D)
          = Cardinality(LiveBuffers') + Cardinality(D) - Cardinality(LiveBuffers' \cap D)
    BY <1>4, <1>5, FS_Union
  <2> QED
    BY <1>4, <1>5, <2>1, <2>2, <2>3
<1>7. charged' = charged - Cardinality(D)
  BY DEF Destroy
<1>8. charged' = Cardinality(LiveBuffers') /\ charged' <= budget'
  BY <1>3, <1>4, <1>5, <1>6, <1>7 DEF DeviceSound, DeviceTypes
<1> QED
  BY <1>1, <1>5, <1>8 DEF Charged

(* A resource that is built is one more to charge, if it is a buffer.      *)
LEMMA BuildCharged ==
  ASSUME DeviceSound, NEW r \in Resources, res[r] = "none",
         res' = [res EXCEPT ![r] = "live"], UNCHANGED budget,
         IF r \in Buffers THEN charged < budget /\ charged' = charged + 1
                          ELSE charged' = charged
  PROVE  /\ Charged' /\ charged' \in Nat
         /\ res' \in [Resources -> {"none", "live", "closed"}]
         /\ \A q \in Resources : res[q] = "live" => res'[q] = "live"
<1>1. /\ res' \in [Resources -> {"none", "live", "closed"}]
      /\ \A q \in Resources : res'[q] = IF q = r THEN "live" ELSE res[q]
  BY DEF DeviceSound, DeviceTypes
<1>2. IsFiniteSet(LiveBuffers) /\ charged = Cardinality(LiveBuffers) /\ charged <= budget
      /\ r \notin LiveBuffers /\ charged \in Nat /\ budget \in Nat
  BY DEF DeviceSound, DeviceTypes, Charged, LiveBuffers
<1>3. CASE r \in Buffers
  <2>1. LiveBuffers' = LiveBuffers \cup {r}
    BY <1>1, <1>3 DEF LiveBuffers, Resources
  <2> DEFINE L == LiveBuffers
             M == LiveBuffers'
  <2>2. IsFiniteSet(L) /\ r \notin L /\ M = L \cup {r} /\ charged = Cardinality(L)
    BY <1>2, <2>1
  <2> HIDE DEF L, M
  <2>3. IsFiniteSet(M) /\ Cardinality(M) = Cardinality(L) + 1
    BY <2>2, FS_AddElement
  <2>4. charged' = charged + 1 /\ charged < budget /\ budget' = budget
    BY <1>3
  <2>5. charged' = Cardinality(M) /\ charged' \in Nat /\ charged' <= budget'
    BY <1>2, <2>2, <2>3, <2>4
  <2>6. Charged'
    BY <2>3, <2>5 DEF Charged, M
  <2> QED
    BY <1>1, <2>5, <2>6
<1>4. CASE r \notin Buffers
  <2>1. LiveBuffers' = LiveBuffers
    BY <1>1, <1>4 DEF LiveBuffers, Resources
  <2> QED
    BY <1>1, <1>2, <1>4, <2>1 DEF Charged
<1> QED
  BY <1>3, <1>4

(* What the package retains stays live as long as none of it is destroyed. *)
LEMMA PendingStaysLive ==
  ASSUME DeviceSound, UNCHANGED pending,
         \A r \in Resources : res[r] = "live" /\ (UsesBuffer(r) \/ UsesObject(r)) => res'[r] = "live"
  PROVE  PendingLive'
<1> SUFFICES ASSUME pending # NoJob PROVE PendingLive'
  BY DEF PendingLive
<1>1. pending.owner \in Objects /\ pending.bufs \subseteq Buffers
  BY JobFacts DEF DeviceSound, DeviceTypes
<1>2. pending.owner \in Plans => Stages[pending.owner] \subseteq Kernels
  BY ResourceAssumption
<1> QED
  BY <1>1, <1>2 DEF DeviceSound, PendingLive, Live, UsesBuffer, UsesObject, Objects, Resources

-----------------------------------------------------------------------------
(* A device in quarantine, which no step may change but for the end of what*)
(* it executes.                                                            *)
Frozen ==
  Quarantined =>
    /\ Quarantined'
    /\ UNCHANGED <<pending, res, bound, charged, budget>>
    /\ gpu' \in {gpu, NoJob}

(* The call of c closes or frees r. *)
Removes(c, r) == call[c].op \in {"close", "free"} /\ call[c].on = r

(* What a step for caller c may do beyond ending or keeping its own call.  *)
(* The device is only given work by a dispatch or a run of c, when it has  *)
(* none.  Resources are only closed by a close or a free of c, or because  *)
(* their free was deferred; a buffer's free is only deferred by a free.    *)
(* A drain that reports success leaves nothing pending, and a close        *)
(* reports success exactly when its resource is closed.                    *)
Footprint(c) ==
  /\ \A d \in Callers \ {c} : call'[d] = call[d] /\ ret'[d] = ret[d]
  /\ (call'[c] = call[c] /\ ret'[c] = ret[c] /\ res' = res) \/ call'[c] = NoCall
  /\ \/ pending' \in {pending, NoJob} /\ gpu' \in {gpu, NoJob}
     \/ /\ call[c].op \in {"dispatch", "run"} /\ pending'.owner = call[c].on
        /\ pending = NoJob /\ gpu = NoJob /\ gpu' \in {pending', NoJob}
        /\ Live({call[c].on}) /\ res' = res
  /\ \A r \in Resources :
       \/ res'[r] = res[r]
       \/ res[r] = "none" /\ res'[r] = "live"
       \/ /\ res[r] = "live" /\ res'[r] = "closed"
          /\ r \in deferred \/ Removes(c, r)
  /\ \A b \in deferred' : b \in deferred \/ (call[c].op = "free" /\ call[c].on = b)
  /\ call[c].op = "drain" /\ call'[c] = NoCall /\ ret'[c] = "ok" => pending' = NoJob
  /\ call[c].op = "close" /\ call'[c] = NoCall =>
       (ret'[c] = "ok" <=> res'[call[c].on] = "closed")

(* What each step for c is shown to keep and to do. *)
StepSound(c) == PackageInv' /\ Frozen /\ Footprint(c)

(* The calls around the one that returns. *)
LEMMA ReturnOthers ==
  ASSUME CallsSound, NEW c \in Callers, NEW r, Return(c, r)
  PROVE  /\ call'[c] = NoCall /\ ret'[c] = r
         /\ \A d \in Callers \ {c} : call'[d] = call[d] /\ ret'[d] = ret[d]
BY DEF CallsSound, CallTypes, Return

(* A refusal changes nothing but the call.                                 *)
LEMMA RefuseSound ==
  ASSUME PackageInv, NEW c \in Callers, NEW r \in Results, Refuse(c, r),
         call[c].op = "drain" /\ r = "ok" => pending = NoJob,
         call[c].op = "close" => (r = "ok" <=> res[call[c].on] = "closed")
  PROVE  StepSound(c)
<1>1. Return(c, r) /\ UNCHANGED device
  BY DEF Refuse
<1>2. PackageInv'
  BY RefuseInv
<1>3. /\ call'[c] = NoCall /\ ret'[c] = r
      /\ \A d \in Callers \ {c} : call'[d] = call[d] /\ ret'[d] = ret[d]
  BY <1>1, ReturnOthers DEF PackageInv
<1>4. Frozen
  BY <1>1 DEF Frozen, Quarantined, device
<1>5. Footprint(c)
  BY <1>1, <1>3 DEF Footprint, device
<1> QED
  BY <1>2, <1>4, <1>5 DEF StepSound

(* Building a resource: alloc, newKernel, newPlan.                         *)
LEMMA BuildSound ==
  ASSUME PackageInv, NEW c \in Callers, lane = NoOne, Return(c, "ok"), ~Busy,
         call[c].op \in {"alloc", "newKernel", "newPlan"},
         NEW r \in Resources, res[r] = "none", res' = [res EXCEPT ![r] = "live"],
         IF r \in Buffers THEN charged < budget /\ charged' = charged + 1
                          ELSE charged' = charged,
         bound' \in [Plans -> SUBSET Buffers],
         UNCHANGED <<pending, uncertain, lost, deferred, budget, gpu>>
  PROVE  StepSound(c)
<1>1. DeviceSound
  BY DEF PackageInv
<1>2. /\ Charged' /\ charged' \in Nat
      /\ res' \in [Resources -> {"none", "live", "closed"}]
      /\ \A q \in Resources : res[q] = "live" => res'[q] = "live"
  BY <1>1, BuildCharged
<1>3. PendingLive'
  BY <1>1, <1>2, PendingStaysLive
<1>4. DeviceSound'
  BY <1>1, <1>2, <1>3 DEF DeviceSound, DeviceTypes
<1>5. PackageInv'
  BY <1>4, ActedInv DEF Results
<1>6. Frozen
  BY DEF Frozen, Busy
<1>7. \A q \in Resources : res'[q] = res[q] \/ (res[q] = "none" /\ res'[q] = "live")
  BY <1>1 DEF DeviceSound, DeviceTypes
<1>8. Footprint(c)
  BY <1>7, ReturnOthers DEF Footprint, PackageInv
<1> QED
  BY <1>5, <1>6, <1>8 DEF StepSound

(* Changing what a plan binds, or the budget: rebind, budget.              *)
LEMMA AdjustSound ==
  ASSUME PackageInv, NEW c \in Callers, lane = NoOne, Return(c, "ok"), ~Busy,
         call[c].op \in {"rebind", "budget"},
         bound' \in [Plans -> SUBSET Buffers], budget' \in Nat, charged <= budget',
         UNCHANGED <<pending, uncertain, lost, res, deferred, charged, gpu>>
  PROVE  StepSound(c)
<1>1. DeviceSound'
  BY DEF PackageInv, DeviceSound, DeviceTypes, PendingLive, Charged, LiveBuffers, Live
<1>2. PackageInv'
  BY <1>1, ActedInv DEF Results
<1>3. Frozen
  BY DEF Frozen, Busy
<1>4. Footprint(c)
  BY ReturnOthers DEF Footprint, PackageInv
<1> QED
  BY <1>2, <1>3, <1>4 DEF StepSound

(* The package answers with a result, and refuses a busy device with an    *)
(* error.                                                                  *)
LEMMA RefusalType == Refusal \in Results \ {"ok"}
BY DEF Refusal, Results

(* Construction, rebinding and the memory budget.                          *)
LEMMA ConstructionSound ==
  ASSUME PackageInv, NEW c \in Callers,
         Alloc(c) \/ NewKernel(c) \/ NewPlan(c) \/ Rebind(c) \/ SetMemoryBudget(c)
  PROVE  StepSound(c)
<1>1. ASSUME Refuse(c, Refusal), call[c].op \notin {"drain", "close"} PROVE StepSound(c)
  BY <1>1, RefuseSound, RefusalType
<1>2. CallTypes /\ CallKinds(c) /\ DeviceSound
  BY DEF PackageInv, CallsSound
<1>3. CASE Alloc(c)
  <2>1. CASE Refuse(c, Refusal)
    BY <1>1, <1>3, <2>1 DEF Alloc, Turn
  <2>2. ASSUME NEW b \in Buffers, ~Busy, res[b] = "none", charged < budget,
               res' = [res EXCEPT ![b] = "live"], charged' = charged + 1, Return(c, "ok"),
               UNCHANGED <<pending, uncertain, lost, deferred, bound, budget, gpu>>
        PROVE  StepSound(c)
    <3>1. lane = NoOne /\ call[c].op = "alloc" /\ bound' \in [Plans -> SUBSET Buffers]
      BY <1>2, <1>3, <2>2 DEF Alloc, Turn, DeviceSound, DeviceTypes
    <3> QED
      BY <2>2, <3>1, BuildSound DEF Resources
  <2> QED
    BY <1>3, <2>1, <2>2 DEF Alloc
<1>4. CASE NewKernel(c)
  <2>1. CASE Refuse(c, Refusal)
    BY <1>1, <1>4, <2>1 DEF NewKernel, Turn
  <2>2. ASSUME NEW k \in Kernels, ~Busy, res[k] = "none",
               res' = [res EXCEPT ![k] = "live"], Return(c, "ok"),
               UNCHANGED <<pending, uncertain, lost, deferred, bound, charged, budget, gpu>>
        PROVE  StepSound(c)
    <3>1. lane = NoOne /\ call[c].op = "newKernel" /\ bound' \in [Plans -> SUBSET Buffers]
      BY <1>2, <1>4, <2>2 DEF NewKernel, Turn, DeviceSound, DeviceTypes
    <3>2. k \in Resources \ Buffers
      BY ResourceAssumption DEF Resources, Objects
    <3> QED
      BY <2>2, <3>1, <3>2, BuildSound
  <2> QED
    BY <1>4, <2>1, <2>2 DEF NewKernel
<1>5. CASE NewPlan(c)
  <2>1. CASE Refuse(c, Refusal)
    BY <1>1, <1>5, <2>1 DEF NewPlan, Turn
  <2>2. ASSUME NEW p \in Plans, ~Busy, res[p] = "none",
               res' = [res EXCEPT ![p] = "live"], bound' = [bound EXCEPT ![p] = call[c].bufs],
               Return(c, "ok"),
               UNCHANGED <<pending, uncertain, lost, deferred, charged, budget, gpu>>
        PROVE  StepSound(c)
    <3>1. lane = NoOne /\ call[c].op = "newPlan"
      BY <1>5 DEF NewPlan, Turn
    <3>2. p \in Resources \ Buffers
      BY ResourceAssumption DEF Resources, Objects
    <3>3. bound' \in [Plans -> SUBSET Buffers]
      BY <1>2, <2>2, CallFacts DEF DeviceSound, DeviceTypes
    <3> QED
      BY <2>2, <3>1, <3>2, <3>3, BuildSound
  <2> QED
    BY <1>5, <2>1, <2>2 DEF NewPlan
<1>6. CASE Rebind(c)
  <2>1. CASE Refuse(c, Refusal)
    BY <1>1, <1>6, <2>1 DEF Rebind, Turn
  <2>2. CASE ~Refuse(c, Refusal)
    <3>1. /\ lane = NoOne /\ call[c].op = "rebind" /\ ~Busy /\ Return(c, "ok")
          /\ bound' = [bound EXCEPT ![call[c].on] = call[c].bufs]
          /\ UNCHANGED <<pending, uncertain, lost, res, deferred, charged, budget, gpu>>
      BY <1>6, <2>2 DEF Rebind, Turn
    <3>2. bound' \in [Plans -> SUBSET Buffers] /\ budget' \in Nat /\ charged <= budget'
      BY <1>2, <3>1, CallFacts DEF DeviceSound, DeviceTypes, Charged
    <3> QED
      BY <3>1, <3>2, AdjustSound
  <2> QED
    BY <2>1, <2>2
<1>7. CASE SetMemoryBudget(c)
  <2>1. CASE Refuse(c, Refusal)
    BY <1>1, <1>7, <2>1 DEF SetMemoryBudget, Turn
  <2>2. ASSUME NEW n \in Budgets, ~Busy, charged <= n, budget' = n, Return(c, "ok"),
               UNCHANGED <<pending, uncertain, lost, res, deferred, bound, charged, gpu>>
        PROVE  StepSound(c)
    <3>1. lane = NoOne /\ call[c].op = "budget"
      BY <1>7 DEF SetMemoryBudget, Turn
    <3>2. bound' \in [Plans -> SUBSET Buffers] /\ budget' \in Nat /\ charged <= budget'
      BY <1>2, <2>2, ResourceAssumption DEF DeviceSound, DeviceTypes
    <3> QED
      BY <2>2, <3>1, <3>2, AdjustSound
  <2> QED
    BY <1>7, <2>1, <2>2 DEF SetMemoryBudget
<1> QED
  BY <1>3, <1>4, <1>5, <1>6, <1>7

(* Destruction: a free of a buffer in use is deferred; a free or a close of*)
(* anything the retained submission does not use destroys it.              *)
LEMMA DestructionSound ==
  ASSUME PackageInv, NEW c \in Callers, Free(c) \/ Close(c)
  PROVE  StepSound(c)
<1> DEFINE r == call[c].on
<1>1. CallTypes /\ CallKinds(c) /\ DeviceSound
  BY DEF PackageInv, CallsSound
<1>2. lane = NoOne /\ r \in Resources /\ call[c].op \in {"free", "close"}
  BY <1>1 DEF Free, Close, Turn, CallKinds, Resources
<1>3. ASSUME ~Quarantined, Live({r}), ~UsesBuffer(r) /\ (~UsesObject(r) \/ r \in Buffers),
             Destroy({r}), Return(c, "ok"), bound' \in [Plans -> SUBSET Buffers],
             UNCHANGED <<pending, uncertain, lost, budget, gpu>>
      PROVE  StepSound(c)
  <2>1. ~UsesBuffer(r) /\ ~UsesObject(r)
    <3>1. r \in Buffers => ~UsesObject(r)
      <4>1. pending.owner \in Objects \cup {NoOne}
        BY <1>1, JobFacts DEF DeviceSound, DeviceTypes
      <4> QED
        BY <4>1, ResourceAssumption DEF UsesObject, Resources, Objects
    <3> QED
      BY <1>3, <3>1
  <2>2. {r} \cap Buffers \subseteq LiveBuffers /\ res[r] = "live"
    BY <1>3 DEF Live, LiveBuffers
  <2>3. /\ Charged' /\ charged' \in Nat
        /\ res' \in [Resources -> {"none", "live", "closed"}]
        /\ \A q \in Resources \ {r} : res'[q] = res[q]
    BY <1>1, <1>2, <1>3, <2>2, DestroyCharged
  <2>4. PendingLive'
    BY <1>1, <1>3, <2>1, <2>3, PendingStaysLive
  <2>5. DeviceSound' /\ deferred' \subseteq deferred
    BY <1>1, <1>3, <2>3, <2>4 DEF DeviceSound, DeviceTypes, Destroy
  <2>6. PackageInv'
    BY <1>2, <1>3, <2>5, ActedInv DEF Results
  <2>7. Frozen
    BY <1>3 DEF Frozen
  <2>8. res'[r] = "closed"
    BY <1>2, <1>3 DEF Destroy
  <2>9. Footprint(c)
    BY <1>2, <1>3, <2>2, <2>3, <2>5, <2>8, ReturnOthers DEF Footprint, Removes, PackageInv
  <2> QED
    BY <2>6, <2>7, <2>9 DEF StepSound
<1>4. CASE Free(c)
  <2>1. r \in Buffers /\ call[c].op = "free"
    BY <1>1, <1>4 DEF Free, Turn, CallKinds
  <2>2. CASE Refuse(c, "ok")
    BY <1>4, <2>1, <2>2, RefuseSound DEF Results
  <2>3. ASSUME UsesBuffer(r), deferred' = deferred \cup {r}, Return(c, "ok"),
               UNCHANGED <<pending, uncertain, lost, res, bound, charged, budget, gpu>>
        PROVE  StepSound(c)
    <3>1. DeviceSound'
      BY <1>1, <2>3 DEF DeviceSound, DeviceTypes, PendingLive, Charged, LiveBuffers, Live, UsesBuffer
    <3>2. PackageInv'
      BY <1>2, <2>3, <3>1, ActedInv DEF Results
    <3>3. Frozen
      BY <2>3 DEF Frozen, Quarantined
    <3>4. Footprint(c)
      BY <2>1, <2>3, ReturnOthers DEF Footprint, Removes, PackageInv
    <3> QED
      BY <3>2, <3>3, <3>4 DEF StepSound
  <2>4. ASSUME ~UsesBuffer(r), ~Quarantined, Live({r}), Destroy({r}), Return(c, "ok"),
               UNCHANGED <<pending, uncertain, lost, bound, budget, gpu>>
        PROVE  StepSound(c)
    <3>1. bound' \in [Plans -> SUBSET Buffers]
      BY <1>1, <2>4 DEF DeviceSound, DeviceTypes
    <3> QED
      BY <1>3, <2>1, <2>4, <3>1
  <2> QED
    BY <1>4, <2>2, <2>3, <2>4 DEF Free
<1>5. CASE Close(c)
  <2>1. call[c].op = "close"
    BY <1>5 DEF Close, Turn
  <2>2. CASE res[r] = "closed" /\ Refuse(c, "ok")
    BY <2>1, <2>2, RefuseSound DEF Results
  <2>3. CASE res[r] # "closed" /\ Refuse(c, Refusal)
    BY <2>1, <2>3, RefuseSound, RefusalType
  <2>4. ASSUME Live({r}), ~Quarantined, ~UsesBuffer(r), ~UsesObject(r), Destroy({r}),
               bound' = IF r \in Plans THEN [bound EXCEPT ![r] = {}] ELSE bound,
               Return(c, "ok"), UNCHANGED <<pending, uncertain, lost, budget, gpu>>
        PROVE  StepSound(c)
    <3>1. bound' \in [Plans -> SUBSET Buffers]
      BY <1>1, <2>4 DEF DeviceSound, DeviceTypes
    <3> QED
      BY <1>3, <2>4, <3>1
  <2> QED
    BY <1>5, <2>2, <2>3, <2>4 DEF Close
<1> QED
  BY <1>4, <1>5

(* A submission of live resources to an idle device: it is never given,    *)
(* retained and in doubt, or retained and waited for.                      *)
LEMMA SubmitSound ==
  ASSUME PackageInv, NEW c \in Callers, lane = NoOne, call[c].op \in {"dispatch", "run"},
         ~Busy, NEW bufs \in SUBSET Buffers, Live({call[c].on} \cup bufs),
         call[c].on \in Plans => Live(Stages[call[c].on]),
         Submit(c, call[c].on, bufs)
  PROVE  StepSound(c)
<1> DEFINE o == call[c].on
           job == [owner |-> o, bufs |-> bufs]
<1>1. DeviceSound /\ pending = NoJob /\ gpu = NoJob
  BY DEF PackageInv, DeviceSound, Busy
<1>2. o \in Objects /\ job \in Jobs /\ job # NoJob /\ NoJob \in Jobs
  <2>1. o \in Objects
    BY DEF PackageInv, CallsSound, CallKinds, Objects
  <2> QED
    BY <2>1, ResourceAssumption DEF Jobs, NoJob, Resources
<1>3. Frozen
  BY DEF Frozen, Busy
<1>4. ASSUME pending' = job, gpu' \in {job, NoJob}, uncertain' \in BOOLEAN, lost' \in BOOLEAN,
             UNCHANGED <<res, deferred, bound, charged, budget>>
      PROVE  DeviceSound'
  <2>1. PendingLive'
    BY <1>4 DEF PendingLive, Live
  <2>2. deferred = {}
    BY <1>1 DEF DeviceSound, NoJob
  <2> QED
    BY <1>1, <1>2, <1>4, <2>1, <2>2
    DEF DeviceSound, DeviceTypes, Charged, LiveBuffers
<1>5. ASSUME "record" \in DriverFaults, MayBeLost, Return(c, IF lost' THEN "fatal" ELSE "error"),
             UNCHANGED <<pending, uncertain, res, deferred, bound, charged, budget, gpu>>
      PROVE  StepSound(c)
  <2>1. DeviceSound'
    BY <1>1, <1>5 DEF DeviceSound, DeviceTypes, PendingLive, Charged, LiveBuffers, Live, MayBeLost
  <2>2. PackageInv'
    BY <1>5, <2>1, ActedInv DEF Results
  <2>3. Footprint(c)
    BY <1>5, ReturnOthers DEF Footprint, PackageInv
  <2> QED
    BY <1>3, <2>2, <2>3 DEF StepSound
<1>6. ASSUME MayBeLost, pending' = job, uncertain' = TRUE, gpu' \in {job, NoJob},
             Return(c, "fatal"), UNCHANGED <<res, deferred, bound, charged, budget>>
      PROVE  StepSound(c)
  <2>1. DeviceSound'
    BY <1>1, <1>4, <1>6 DEF MayBeLost, DeviceSound, DeviceTypes
  <2>2. PackageInv'
    BY <1>6, <2>1, ActedInv DEF Results
  <2>3. Footprint(c)
    BY <1>1, <1>6, ReturnOthers DEF Footprint, PackageInv, Live
  <2> QED
    BY <1>3, <2>2, <2>3 DEF StepSound
<1>7. ASSUME pending' = job, gpu' = job, Keep(c),
             UNCHANGED <<uncertain, lost, res, deferred, bound, charged, budget>>
      PROVE  StepSound(c)
  <2>1. DeviceSound'
    BY <1>1, <1>4, <1>7 DEF DeviceSound, DeviceTypes
  <2>2. HoldsLane(c)'
    BY <1>2, <1>7 DEF HoldsLane, Waiting, Keep, Busy, Quarantined
  <2>3. PackageInv'
    BY <1>7, <2>1, <2>2, KeptInv
  <2>4. Footprint(c)
    BY <1>1, <1>7 DEF Footprint, Keep, Live
  <2> QED
    BY <1>3, <2>3, <2>4 DEF StepSound
<1> QED
  BY <1>5, <1>6, <1>7 DEF Submit

(* A caller that only takes the lane. *)
LEMMA KeepSound ==
  ASSUME PackageInv, NEW c \in Callers, Keep(c), UNCHANGED device,
         \/ call[c].op = "drain" /\ pending # NoJob /\ ~Quarantined
         \/ call[c].op = "touch" /\ Live({call[c].on}) /\ ~UsesBuffer(call[c].on)
  PROVE  StepSound(c)
<1>1. DeviceSound'
  BY DEF PackageInv, DeviceSound, DeviceTypes, PendingLive, Charged, LiveBuffers, Live, device
<1>2. HoldsLane(c)'
  BY DEF HoldsLane, Waiting, Keep, Quarantined, Live, UsesBuffer, device
<1>3. PackageInv'
  BY <1>1, <1>2, KeptInv
<1>4. Frozen /\ Footprint(c)
  <2>1. call[c] # NoCall
    BY DEF NoCall
  <2> QED
    BY <2>1 DEF Frozen, Footprint, Quarantined, Keep, device
<1> QED
  BY <1>3, <1>4 DEF StepSound

(* What the package does for a caller that has called.                     *)
LEMMA ServeSound ==
  ASSUME PackageInv, NEW c \in Callers, Serve(c)
  PROVE  StepSound(c)
<1>1. CallTypes /\ CallKinds(c) /\ DeviceSound
  BY DEF PackageInv, CallsSound
<1>2. CASE Touch(c)
  <2>1. call[c].op = "touch"
    BY <1>2 DEF Touch, Turn
  <2>2. CASE Refuse(c, IF Live({call[c].on}) THEN Refusal ELSE "error")
    BY <2>1, <2>2, RefuseSound, RefusalType DEF Results
  <2>3. CASE Keep(c) /\ UNCHANGED device /\ Live({call[c].on}) /\ ~UsesBuffer(call[c].on)
    BY <2>1, <2>3, KeepSound
  <2> QED
    BY <1>2, <2>2, <2>3 DEF Touch
<1>3. CASE Dispatch(c)
  <2>1. lane = NoOne /\ call[c].op = "dispatch" /\ call[c].bufs \in SUBSET Buffers
    BY <1>1, <1>3, CallFacts DEF Dispatch, Turn
  <2>2. call[c].on \notin Plans
    BY <1>1, <2>1, ResourceAssumption DEF CallKinds
  <2>3. CASE Refuse(c, Refusal)
    BY <2>1, <2>3, RefuseSound, RefusalType
  <2>4. CASE ~Busy /\ Live({call[c].on} \cup call[c].bufs) /\ Submit(c, call[c].on, call[c].bufs)
    BY <2>1, <2>2, <2>4, SubmitSound
  <2> QED
    BY <1>3, <2>3, <2>4 DEF Dispatch
<1>4. CASE Run(c)
  <2>1. lane = NoOne /\ call[c].op = "run" /\ bound[call[c].on] \in SUBSET Buffers
    BY <1>1, <1>4 DEF Run, Turn, CallKinds, DeviceSound, DeviceTypes
  <2>2. CASE Refuse(c, Refusal)
    BY <2>1, <2>2, RefuseSound, RefusalType
  <2>3. CASE /\ ~Busy
             /\ Live({call[c].on} \cup Stages[call[c].on] \cup bound[call[c].on])
             /\ Submit(c, call[c].on, bound[call[c].on])
    <3>1. Live({call[c].on} \cup bound[call[c].on]) /\ Live(Stages[call[c].on])
      BY <2>3 DEF Live
    <3> QED
      BY <2>1, <2>3, <3>1, SubmitSound
  <2> QED
    BY <1>4, <2>2, <2>3 DEF Run
<1>5. CASE Drain(c)
  <2>1. call[c].op = "drain"
    BY <1>5 DEF Drain, Turn
  <2>2. CASE Refuse(c, "fatal")
    BY <2>1, <2>2, RefuseSound DEF Results
  <2>3. CASE ~Busy /\ Refuse(c, "ok")
    BY <2>1, <2>3, RefuseSound DEF Results, Busy
  <2>4. CASE ~Quarantined /\ pending # NoJob /\ Keep(c) /\ UNCHANGED device
    BY <2>1, <2>4, KeepSound
  <2> QED
    BY <1>5, <2>2, <2>3, <2>4 DEF Drain
<1> QED
  BY <1>2, <1>3, <1>4, <1>5, ConstructionSound, DestructionSound DEF Serve

-----------------------------------------------------------------------------
(* A wait that ends well settles the submission and destroys what was to be*)
(* freed with it.                                                          *)
LEMMA WaitDoneSound ==
  ASSUME PackageInv, NEW c \in Callers, WaitDone(c)
  PROVE  StepSound(c)
<1> DEFINE S == deferred \cap pending.bufs
           r == IF expired[c] THEN "retry" ELSE "ok"
<1>1. DeviceSound /\ lane = c /\ call[c].op \in {"dispatch", "run", "drain"}
  BY DEF PackageInv, WaitDone, Waiting
<1>2. pending # NoJob /\ ~Quarantined
  BY <1>1 DEF PackageInv, LaneSound, HoldsLane
<1>3. /\ pending' = NoJob /\ gpu = NoJob /\ Destroy(S) /\ Return(c, r)
      /\ UNCHANGED <<uncertain, lost, bound, budget, gpu>>
  BY DEF WaitDone
<1>4. S \in SUBSET Resources /\ S \cap Buffers \subseteq LiveBuffers
  <2>1. pending.bufs \subseteq Buffers
    BY <1>1, JobFacts DEF DeviceSound, DeviceTypes
  <2> QED
    BY <1>1, <1>2, <2>1 DEF DeviceSound, PendingLive, Live, LiveBuffers, Resources
<1>5. /\ Charged' /\ charged' \in Nat
      /\ res' \in [Resources -> {"none", "live", "closed"}]
      /\ \A q \in Resources \ S : res'[q] = res[q]
  BY <1>1, <1>3, <1>4, DestroyCharged
<1>6. deferred' = {}
  BY <1>1, <1>3 DEF Destroy, DeviceSound
<1>7. DeviceSound'
  BY <1>1, <1>3, <1>5, <1>6 DEF DeviceSound, DeviceTypes, PendingLive, NoJob, Jobs
<1>8. PackageInv'
  BY <1>1, <1>3, <1>7, ActedInv DEF Results
<1>9. Frozen
  BY <1>2 DEF Frozen
<1>10. \A q \in Resources :
         res'[q] = res[q] \/ (q \in deferred /\ res[q] = "live" /\ res'[q] = "closed")
  <2>1. \A q \in S : res[q] = "live" /\ res'[q] = "closed"
    <3>1. \A q \in S : res'[q] = "closed"
      BY <1>3, <1>4 DEF Destroy
    <3>2. S \subseteq Buffers
      BY <1>1, JobFacts DEF DeviceSound, DeviceTypes
    <3> QED
      BY <1>4, <3>1, <3>2 DEF LiveBuffers
  <2> QED
    BY <1>5, <2>1
<1>11. Footprint(c)
  BY <1>1, <1>3, <1>6, <1>10, ReturnOthers DEF Footprint, PackageInv
<1> QED
  BY <1>8, <1>9, <1>11 DEF StepSound

(* The end of a lane holder's wait or access, and of a call that gives up. *)
LEMMA FinishSound ==
  ASSUME PackageInv, NEW c \in Callers, Finish(c) \/ GiveUp(c)
  PROVE  StepSound(c)
<1>1. CallTypes /\ CallKinds(c) /\ DeviceSound
  BY DEF PackageInv, CallsSound
<1>2. ASSUME NEW r \in {"retry", "fatal", "error"}, Refuse(c, r), call[c].op # "close"
      PROVE  StepSound(c)
  BY <1>2, RefuseSound DEF Results
<1>3. CASE TouchEnds(c)
  <2>1. call[c].op = "touch"
    BY <1>3 DEF TouchEnds
  <2>2. CASE Refuse(c, "ok")
    BY <2>1, <2>2, RefuseSound DEF Results
  <2>3. CASE Refuse(c, "error") \/ Refuse(c, "retry")
    BY <1>2, <2>1, <2>3
  <2> QED
    BY <1>3, <2>2, <2>3 DEF TouchEnds
<1>4. CASE WaitExpires(c)
  BY <1>2, <1>4 DEF WaitExpires, Waiting
<1>5. CASE GiveUp(c)
  BY <1>1, <1>2, <1>5 DEF GiveUp, CallKinds, Bounded
<1>6. CASE WaitFails(c)
  <2>1. lane = c /\ call[c].op \in {"dispatch", "run", "drain"} /\ ~Quarantined
    BY <1>6 DEF WaitFails, Waiting, PackageInv, LaneSound, HoldsLane
  <2>2. /\ Return(c, "fatal") /\ uncertain' = TRUE /\ lost' \in BOOLEAN
        /\ UNCHANGED <<pending, res, deferred, bound, charged, budget, gpu>>
    BY <1>1, <1>6 DEF WaitFails, MayBeLost, DeviceSound, DeviceTypes
  <2>3. DeviceSound'
    BY <1>1, <2>2 DEF DeviceSound, DeviceTypes, PendingLive, Charged, LiveBuffers, Live
  <2>4. PackageInv'
    BY <2>1, <2>2, <2>3, ActedInv DEF Results
  <2>5. Frozen
    BY <2>1 DEF Frozen
  <2>6. Footprint(c)
    BY <2>1, <2>2, ReturnOthers DEF Footprint, PackageInv
  <2> QED
    BY <2>4, <2>5, <2>6 DEF StepSound
<1> QED
  BY <1>3, <1>4, <1>5, <1>6, WaitDoneSound DEF Finish

(* Making a well-formed call.                                              *)
LEMMA CallSound ==
  ASSUME PackageInv, NEW c \in Callers, NEW op \in Background \cup Bounded,
         NEW on \in Resources \cup {NoOne}, NEW bufs \in SUBSET Buffers, Call(c, op, on, bufs),
         op = "close" => on \in Resources,
         op \in {"free", "touch"} => on \in Buffers,
         op = "dispatch" => on \in Kernels,
         op \in {"run", "rebind"} => on \in Plans
  PROVE  PackageInv'
<1>1. UNCHANGED <<device, lane, expired, ret>> /\ call[c] = NoCall
  BY DEF Call
<1>2. DeviceSound'
  BY <1>1 DEF PackageInv, DeviceSound, DeviceTypes, PendingLive, Charged, LiveBuffers, Live, device
<1>3. /\ call'[c] = [op |-> op, on |-> on, bufs |-> bufs]
      /\ \A d \in Callers \ {c} : call'[d] = call[d]
  BY DEF Call, PackageInv, CallsSound, CallTypes
<1>4. CallTypes'
  BY <1>1 DEF Call, PackageInv, CallsSound, CallTypes
<1>5. ~expired[c]
  BY <1>1 DEF PackageInv, CallsSound, CallKinds, NoCall, Bounded
<1>6. \A d \in Callers : CallKinds(d)'
  BY <1>1, <1>3, <1>5 DEF CallKinds, PackageInv, CallsSound
<1>7. LaneSound'
  <2>1. lane # c
    <3>1. call[c].op = "none"
      BY <1>1 DEF NoCall
    <3> QED
      BY <3>1 DEF PackageInv, LaneSound, HoldsLane, Waiting
  <2>2. ASSUME NEW d \in Callers, lane' = d PROVE HoldsLane(d)'
    <3>1. HoldsLane(d) /\ call'[d] = call[d]
      BY <1>1, <1>3, <2>1, <2>2 DEF PackageInv, LaneSound
    <3> QED
      BY <1>1, <2>2, <3>1 DEF HoldsLane, Waiting, Quarantined, Live, device
  <2> QED
    BY <1>1, <2>2 DEF PackageInv, LaneSound
<1> QED
  BY <1>2, <1>4, <1>6, <1>7 DEF PackageInv, CallsSound

(* Any client that keeps to resources that exist.                          *)
LEMMA ClientSound ==
  ASSUME PackageInv, NEW c \in Callers, NEW S \in SUBSET Resources, Client(c, S)
  PROVE  /\ PackageInv'
         /\ \E op \in Background \cup Bounded, on \in S \cup {NoOne}, bufs \in SUBSET Buffers :
              Call(c, op, on, bufs)
<1> USE DEF Background, Bounded
<1>1. CASE \E op \in {"alloc", "newKernel", "drain", "budget"} : Call(c, op, NoOne, {})
  BY <1>1, CallSound
<1>2. CASE \E r \in S : Call(c, "close", r, {})
  BY <1>2, CallSound
<1>3. CASE \E b \in S \cap Buffers, op \in {"free", "touch"} : Call(c, op, b, {})
  <2>1. PICK b \in S \cap Buffers, op \in {"free", "touch"} : Call(c, op, b, {})
    BY <1>3
  <2> QED
    BY <2>1, CallSound DEF Resources
<1>4. ASSUME NEW bufs \in SUBSET (S \cap Buffers) \ {{}},
             \/ \E k \in S \cap Kernels : Call(c, "dispatch", k, bufs)
             \/ Call(c, "newPlan", NoOne, bufs)
             \/ \E p \in S \cap Plans : Call(c, "rebind", p, bufs) \/ Call(c, "run", p, {})
      PROVE  /\ PackageInv'
             /\ \E op \in Background \cup Bounded, on \in S \cup {NoOne}, b \in SUBSET Buffers :
                  Call(c, op, on, b)
  <2>1. bufs \in SUBSET Buffers /\ {} \in SUBSET Buffers
    OBVIOUS
  <2>2. CASE \E k \in S \cap Kernels : Call(c, "dispatch", k, bufs)
    BY <2>1, <2>2, CallSound
  <2>3. CASE Call(c, "newPlan", NoOne, bufs)
    BY <2>1, <2>3, CallSound
  <2>4. CASE \E p \in S \cap Plans : Call(c, "rebind", p, bufs)
    BY <2>1, <2>4, CallSound
  <2>5. CASE \E p \in S \cap Plans : Call(c, "run", p, {})
    BY <2>1, <2>5, CallSound
  <2> QED
    BY <1>4, <2>2, <2>3, <2>4, <2>5
<1> QED
  BY <1>1, <1>2, <1>3, <1>4 DEF Client

(* The end of a context, and of the device's work.                         *)
LEMMA ExpireSound ==
  ASSUME PackageInv, NEW c \in Callers, Expire(c)
  PROVE  PackageInv' /\ UNCHANGED <<device, lane, call, ret>>
<1>1. UNCHANGED <<device, lane, call, ret>>
  BY DEF Expire
<1>2. DeviceSound'
  BY <1>1 DEF PackageInv, DeviceSound, DeviceTypes, PendingLive, Charged, LiveBuffers, Live, device
<1>3. CallsSound'
  BY <1>1 DEF Expire, PackageInv, CallsSound, CallTypes, CallKinds
<1>4. LaneSound'
  BY <1>1 DEF PackageInv, LaneSound, HoldsLane, Waiting, Quarantined, Live, device
<1> QED
  BY <1>1, <1>2, <1>3, <1>4 DEF PackageInv

(* The device completes its work and frees nothing by that.                *)
LEMMA GpuDoneSound ==
  ASSUME PackageInv, GpuDone
  PROVE  /\ PackageInv' /\ gpu' = NoJob
         /\ UNCHANGED <<pending, uncertain, lost, res, deferred, bound, charged, budget, calls>>
<1>1. gpu' = NoJob /\ NoJob \in Jobs
      /\ UNCHANGED <<pending, uncertain, lost, res, deferred, bound, charged, budget, calls>>
  BY DEF GpuDone, Jobs
<1>2. DeviceSound'
  BY <1>1 DEF PackageInv, DeviceSound, DeviceTypes, PendingLive, Charged, LiveBuffers, Live
<1>3. CallsSound'
  BY <1>1 DEF PackageInv, CallsSound, CallTypes, CallKinds, calls
<1>4. LaneSound'
  BY <1>1 DEF PackageInv, LaneSound, HoldsLane, Waiting, Quarantined, Live, calls
<1> QED
  BY <1>1, <1>2, <1>3, <1>4 DEF PackageInv

(* The package only serves those who have called. *)
LEMMA OnlyCallers ==
  ASSUME PackageInv, NEW c \in Callers, Serve(c) \/ Finish(c) \/ GiveUp(c)
  PROVE  call[c] # NoCall
<1>1. call[c].op # "none"
  BY DEF Serve, Alloc, NewKernel, NewPlan, Rebind, SetMemoryBudget, Free, Close, Touch, Dispatch,
         Run, Drain, Turn, Finish, TouchEnds, WaitDone, WaitExpires, WaitFails, Waiting, GiveUp,
         PackageInv, CallsSound, CallKinds, Bounded
<1> QED
  BY <1>1 DEF NoCall

-----------------------------------------------------------------------------
(* The invariant holds initially, and gives what the runs check.           *)
LEMMA PackageInit == Init => PackageInv
<1> SUFFICES ASSUME Init PROVE PackageInv
  OBVIOUS
<1>1. LiveBuffers = Built \cap Buffers
  BY DEF Init, LiveBuffers, Resources
<1>2. IsFiniteSet(LiveBuffers) /\ charged = Cardinality(LiveBuffers) /\ charged \in Nat
  BY <1>1, ResourceAssumption, FS_CardinalityType DEF Init
<1>3. bound \in [Plans -> SUBSET Buffers] /\ budget \in Nat
  BY ResourceAssumption DEF Init
<1>4. DeviceSound
  BY <1>2, <1>3 DEF Init, DeviceSound, DeviceTypes, PendingLive, Charged, Jobs, NoJob
<1>5. CallsSound
  BY DEF Init, CallsSound, CallTypes, CallKinds, NoCall, Results
<1>6. LaneSound
  BY ResourceAssumption DEF Init, LaneSound
<1> QED
  BY <1>4, <1>5, <1>6 DEF PackageInv

(* The invariant gives the types, the exact ledger and that nothing freed  *)
(* is in use.                                                              *)
LEMMA PackageSafe == PackageInv => TypeOK /\ LedgerExact /\ NoUseAfterFree
<1> SUFFICES ASSUME PackageInv PROVE TypeOK /\ LedgerExact /\ NoUseAfterFree
  OBVIOUS
<1> USE DEF PackageInv
<1>1. pending.bufs \subseteq Buffers
  BY JobFacts DEF DeviceSound, DeviceTypes
<1>2. TypeOK
  BY <1>1 DEF TypeOK, DeviceSound, DeviceTypes, CallsSound, CallTypes, LaneSound
<1>3. deferred \subseteq {b \in pending.bufs : res[b] = "live"}
  <2>1. pending = NoJob => deferred = {}
    BY DEF DeviceSound, NoJob
  <2> QED
    BY <2>1 DEF DeviceSound, PendingLive, Live
<1>4. LedgerExact
  BY <1>2, <1>3 DEF LedgerExact, DeviceSound, Charged, LiveBuffers
<1>5. NoUseAfterFree
  <2>1. gpu # NoJob => gpu = pending /\ pending # NoJob
    BY DEF DeviceSound
  <2>2. gpu.owner \in Plans => gpu # NoJob
    BY ResourceAssumption DEF NoJob, Resources, Objects
  <2>3. gpu.bufs \subseteq pending.bufs
    BY DEF DeviceSound, NoJob
  <2>4. ASSUME NEW c \in Callers, lane = c, call[c].op = "touch"
        PROVE  Live({call[c].on}) /\ call[c].on \notin gpu.bufs
    BY <2>3, <2>4 DEF LaneSound, HoldsLane, Waiting
  <2> QED
    BY <2>1, <2>2, <2>4 DEF NoUseAfterFree, DeviceSound, PendingLive
<1> QED
  BY <1>2, <1>4, <1>5
=============================================================================
