--------------------------- MODULE VulkanLifetime ---------------------------
(***************************************************************************)
(* Lifetimes of native Vulkan resources: backends/vulkan/vulkan_lifetime.go,*)
(* vulkan_buf.go, vulkan_dispatch.go, vulkan_plan.go, vulkan_memory.go.    *)
(*                                                                         *)
(* Every package call takes the one lane, a channel of capacity 1, checks, *)
(* acts and gives it back; the body of a call is one action.  Two things   *)
(* last while the lane is held: the wait for a submission's fence, and the *)
(* host's access to mapped memory.  A wait that ends before the fence      *)
(* leaves the submission pending, and the device goes on using its         *)
(* resources: `gpu` is what the device really holds, `pending` what the    *)
(* package believes.                                                       *)
(***************************************************************************)
EXTENDS Integers, FiniteSets

CONSTANTS
  Callers,      \* goroutines that call the package
  Kernels,      \* VkComputeKernel objects
  Plans,        \* VkF32Plan objects
  Stages,       \* the kernels each plan records, in [Plans -> SUBSET Kernels]
  Buffers,      \* VkBuf objects and arenas (an arena is one VkBuf), of one size
  Bindings,     \* the buffers the built plans bind, in [Plans -> SUBSET Buffers]
  Built,        \* resources that exist in the initial state
  Budgets,      \* values VulkanSetMemoryBudget is called with (MaxAllocations)
  DriverFaults  \* "record", "submit", "wait": where driver calls may fail

Objects == Kernels \cup Plans
Resources == Objects \cup Buffers

NoOne == "no one"

ASSUME ResourceAssumption ==
  /\ Kernels \cap Plans = {} /\ Objects \cap Buffers = {}
  /\ NoOne \notin Callers \cup Resources
  /\ Stages \in [Plans -> SUBSET Kernels]
  /\ Bindings \in [Plans -> SUBSET (Built \cap Buffers)]
  /\ Built \subseteq Resources /\ IsFiniteSet(Built \cap Buffers)
  /\ Budgets # {} /\ Budgets \subseteq Nat \ {0}   \* 0 would lift the cap

NoJob == [owner |-> NoOne, bufs |-> {}]
NoCall == [op |-> "none", on |-> NoOne, bufs |-> {}]

VARIABLES
  lane,      \* who holds vkLane
  pending,   \* vkPending: the retained submission
  uncertain, \* vkPending.uncertain
  lost,      \* vkLost
  res,       \* each resource: "none", "live" or "closed"
  deferred,  \* buffers with deferredFree set
  bound,     \* the buffers the stages of a plan bind
  charged,   \* vkMemoryUsed.allocations
  budget,    \* vkMemoryBudget.MaxAllocations
  gpu,       \* what the device is executing
  call,      \* the call each caller is in
  expired,   \* whether the context (or the wait budget) of that call has ended
  ret        \* what its latest call returned

device == <<pending, uncertain, lost, res, deferred, bound, charged, budget, gpu>>
calls == <<lane, call, expired, ret>>
vars == <<device, calls>>

(* "retry": the context ended (perhaps joined with ErrVulkanInFlight).     *)
(* "fatal": ErrVulkanUncertain or ErrVulkanDeviceLost.  "error": any other.*)
Results == {"ok", "retry", "fatal", "error"}

Jobs == [owner : Objects, bufs : SUBSET Buffers] \cup {NoJob}

(* Calls with a context or a budget of their own, and calls without one.   *)
Bounded == {"dispatch", "run", "drain", "newPlan", "rebind", "touch"}
Background == {"free", "close", "alloc", "newKernel", "budget"}

TypeOK ==
  /\ lane \in Callers \cup {NoOne}
  /\ pending \in Jobs /\ gpu \in Jobs
  /\ uncertain \in BOOLEAN /\ lost \in BOOLEAN
  /\ res \in [Resources -> {"none", "live", "closed"}]
  /\ deferred \subseteq Buffers
  /\ bound \in [Plans -> SUBSET Buffers]
  /\ charged \in Nat /\ budget \in Nat
  /\ call \in [Callers -> [op : Background \cup Bounded,
                           on : Resources \cup {NoOne},
                           bufs : SUBSET Buffers] \cup {NoCall}]
  /\ expired \in [Callers -> BOOLEAN]
  /\ ret \in [Callers -> Results]

Init ==
  /\ lane = NoOne
  /\ pending = NoJob /\ gpu = NoJob
  /\ uncertain = FALSE /\ lost = FALSE
  /\ res = [r \in Resources |-> IF r \in Built THEN "live" ELSE "none"]
  /\ deferred = {}
  /\ bound = [p \in Plans |-> IF p \in Built THEN Bindings[p] ELSE {}]
  /\ charged = Cardinality(Built \cap Buffers)
  /\ budget \in Budgets /\ charged <= budget
  /\ call = [c \in Callers |-> NoCall]
  /\ expired = [c \in Callers |-> FALSE]
  /\ ret = [c \in Callers |-> "ok"]

-----------------------------------------------------------------------------
(* Guards of the package. *)

(* vkQuarantineLocked and vkStatusLocked. *)
Quarantined == lost \/ uncertain
Busy == Quarantined \/ pending # NoJob

UsesBuffer(b) == b \in pending.bufs

(* Mutant of UsesObject: the kernels a plan records are not retained.      *)
OwnerOnly(o) == pending.owner = o

(* vkUsesKernelLocked, and the same question in VkF32Plan.Close. *)
UsesObject(o) ==
  \/ pending.owner = o
  \/ pending.owner \in Plans /\ o \in Stages[pending.owner]

(* vkAcquire: the lane is free for c, whose context, if any, is alive. *)
Turn(c, op) ==
  /\ call[c].op = op
  /\ lane = NoOne
  /\ ~expired[c]

(* Mutant of Return: the path of an ended context does not release.        *)
ReturnLeaksLane(c, r) ==
  /\ call' = [call EXCEPT ![c] = NoCall]
  /\ expired' = [expired EXCEPT ![c] = FALSE]
  /\ ret' = [ret EXCEPT ![c] = r]
  /\ lane' = IF lane = c /\ r # "retry" THEN NoOne ELSE lane

(* The deferred vkRelease and the return to the caller. *)
Return(c, r) ==
  /\ call' = [call EXCEPT ![c] = NoCall]
  /\ expired' = [expired EXCEPT ![c] = FALSE]
  /\ ret' = [ret EXCEPT ![c] = r]
  /\ lane' = IF lane = c THEN NoOne ELSE lane

Refuse(c, r) == Return(c, r) /\ UNCHANGED device

Refusal == IF Quarantined THEN "fatal" ELSE "error"

(* The lane stays with c over a fence wait or a host access. *)
Keep(c) == lane' = c /\ UNCHANGED <<call, expired, ret>>

Live(S) == \A r \in S : res[r] = "live"

-----------------------------------------------------------------------------
(* Making a call, and the end of its context. *)

Call(c, op, on, bufs) ==
  /\ call[c] = NoCall
  /\ call' = [call EXCEPT ![c] = [op |-> op, on |-> on, bufs |-> bufs]]
  /\ UNCHANGED <<device, lane, expired, ret>>

Expire(c) ==
  /\ call[c].op \in Bounded
  /\ ~expired[c]
  /\ expired' = [expired EXCEPT ![c] = TRUE]
  /\ UNCHANGED <<device, lane, call, ret>>

(* vkAcquire, or a ctx.Err check before the driver is given the work. *)
GiveUp(c) ==
  /\ expired[c] /\ lane # c
  /\ Refuse(c, "retry")

-----------------------------------------------------------------------------
(* Construction, rebinding and the memory budget. *)

(* vkBufAllocFlagsLocked; a failed driver call rolls everything back. *)
Alloc(c) ==
  /\ Turn(c, "alloc")
  /\ \/ Refuse(c, Refusal)
     \/ \E b \in Buffers :
          /\ ~Busy /\ res[b] = "none" /\ charged < budget
          /\ res' = [res EXCEPT ![b] = "live"]
          /\ charged' = charged + 1
          /\ Return(c, "ok")
          /\ UNCHANGED <<pending, uncertain, lost, deferred, bound, budget, gpu>>

NewKernel(c) ==
  /\ Turn(c, "newKernel")
  /\ \/ Refuse(c, Refusal)
     \/ \E k \in Kernels :
          /\ ~Busy /\ res[k] = "none"
          /\ res' = [res EXCEPT ![k] = "live"]
          /\ Return(c, "ok")
          /\ UNCHANGED <<pending, uncertain, lost, deferred, bound, charged, budget, gpu>>

(* NewVkF32Plan: every stage is validated before anything is created. *)
NewPlan(c) ==
  /\ Turn(c, "newPlan")
  /\ \/ Refuse(c, Refusal)
     \/ \E p \in Plans :
          /\ ~Busy /\ res[p] = "none"
          /\ Live(Stages[p] \cup call[c].bufs)
          /\ res' = [res EXCEPT ![p] = "live"]
          /\ bound' = [bound EXCEPT ![p] = call[c].bufs]
          /\ Return(c, "ok")
          /\ UNCHANGED <<pending, uncertain, lost, deferred, charged, budget, gpu>>

(* VkF32Plan.Rebind: all or nothing. *)
Rebind(c) ==
  /\ Turn(c, "rebind")
  /\ LET p == call[c].on
         may == ~Busy /\ Live({p} \cup Stages[p] \cup call[c].bufs)
     IN \/ ~may /\ Refuse(c, Refusal)
        \/ /\ may
           /\ bound' = [bound EXCEPT ![p] = call[c].bufs]
           /\ Return(c, "ok")
           /\ UNCHANGED <<pending, uncertain, lost, res, deferred, charged, budget, gpu>>

SetMemoryBudget(c) ==
  /\ Turn(c, "budget")
  /\ \E n \in Budgets :
       LET may == ~Busy /\ charged <= n
       IN \/ ~may /\ Refuse(c, Refusal)
          \/ /\ may
             /\ budget' = n
             /\ Return(c, "ok")
             /\ UNCHANGED <<pending, uncertain, lost, res, deferred, bound, charged, gpu>>

-----------------------------------------------------------------------------
(* Destruction. *)

(* freeLocked, once the buffers are known to be live and the device sane. *)
Destroy(S) ==
  /\ res' = [r \in Resources |-> IF r \in S THEN "closed" ELSE res[r]]
  /\ charged' = charged - Cardinality(S \cap Buffers)
  /\ deferred' = deferred \ S

(* VkBuf.Free: defers to the end of the submission, ignores a refusal. *)
Free(c) ==
  /\ Turn(c, "free")
  /\ LET b == call[c].on
     IN \/ /\ UsesBuffer(b)
           /\ deferred' = deferred \cup {b}
           /\ Return(c, "ok")
           /\ UNCHANGED <<pending, uncertain, lost, res, bound, charged, budget, gpu>>
        \/ /\ ~UsesBuffer(b) /\ (Quarantined \/ ~Live({b}))
           /\ Refuse(c, "ok")
        \/ /\ ~UsesBuffer(b) /\ ~Quarantined /\ Live({b})
           /\ Destroy({b})
           /\ Return(c, "ok")
           /\ UNCHANGED <<pending, uncertain, lost, bound, budget, gpu>>

(* Mutant of Close: the quarantine is not looked at.                       *)
CloseQuarantined(c) ==
  /\ Turn(c, "close")
  /\ LET r == call[c].on
         inUse == UsesBuffer(r) \/ UsesObject(r)
     IN \/ res[r] = "closed" /\ Refuse(c, "ok")
        \/ res[r] # "closed" /\ inUse /\ Refuse(c, Refusal)
        \/ /\ Live({r}) /\ ~inUse
           /\ Destroy({r})
           /\ bound' = IF r \in Plans THEN [bound EXCEPT ![r] = {}] ELSE bound
           /\ Return(c, "ok")
           /\ UNCHANGED <<pending, uncertain, lost, budget, gpu>>

(* FreeChecked, VkTensorArena.Close, VkComputeKernel.Close, VkF32Plan.Close. *)
Close(c) ==
  /\ Turn(c, "close")
  /\ LET r == call[c].on
         inUse == UsesBuffer(r) \/ UsesObject(r)
     IN \/ res[r] = "closed" /\ Refuse(c, "ok")
        \/ res[r] # "closed" /\ (Quarantined \/ inUse) /\ Refuse(c, Refusal)
        \/ /\ Live({r}) /\ ~Quarantined /\ ~inUse
           /\ Destroy({r})
           /\ bound' = IF r \in Plans THEN [bound EXCEPT ![r] = {}] ELSE bound
           /\ Return(c, "ok")
           /\ UNCHANGED <<pending, uncertain, lost, budget, gpu>>

-----------------------------------------------------------------------------
(* Host access to mapped memory: UploadChecked, DownloadChecked,           *)
(* VkTensorF32.transfer and withCPU, whose callback runs inside the lane.  *)

Touch(c) ==
  /\ Turn(c, "touch")
  /\ LET b == call[c].on
         may == Live({b}) /\ ~Quarantined /\ ~UsesBuffer(b)
     IN \/ ~may /\ Refuse(c, IF Live({b}) THEN Refusal ELSE "error")
        \/ may /\ Keep(c) /\ UNCHANGED device

TouchEnds(c) ==
  /\ lane = c /\ call[c].op = "touch"
  /\ \E r \in {"ok", "error"} \cup (IF expired[c] THEN {"retry"} ELSE {}) : Refuse(c, r)

-----------------------------------------------------------------------------
(* Submission and the bounded wait. *)

(* vkDriverError: any driver failure may be the loss of the device. *)
MayBeLost == lost' \in {lost, TRUE}

(* Recording after validation, then vkSubmitLocked. *)
Submit(c, owner, bufs) ==
  LET job == [owner |-> owner, bufs |-> bufs]
  IN \/ /\ "record" \in DriverFaults
        /\ MayBeLost
        /\ Return(c, IF lost' THEN "fatal" ELSE "error")
        /\ UNCHANGED <<pending, uncertain, res, deferred, bound, charged, budget, gpu>>
     \/ /\ "submit" \in DriverFaults
        /\ MayBeLost
        /\ pending' = job /\ uncertain' = TRUE
        /\ gpu' \in {job, NoJob}
        /\ Return(c, "fatal")
        /\ UNCHANGED <<res, deferred, bound, charged, budget>>
     \/ /\ pending' = job /\ gpu' = job
        /\ Keep(c)
        /\ UNCHANGED <<uncertain, lost, res, deferred, bound, charged, budget>>

Dispatch(c) ==
  /\ Turn(c, "dispatch")
  /\ LET k == call[c].on
         bufs == call[c].bufs
         may == ~Busy /\ Live({k} \cup bufs)
     IN \/ ~may /\ Refuse(c, Refusal)
        \/ may /\ Submit(c, k, bufs)

Run(c) ==
  /\ Turn(c, "run")
  /\ LET p == call[c].on
         may == ~Busy /\ Live({p} \cup Stages[p] \cup bound[p])
     IN \/ ~may /\ Refuse(c, Refusal)
        \/ may /\ Submit(c, p, bound[p])

(* VulkanDrain up to its wait. *)
Drain(c) ==
  /\ Turn(c, "drain")
  /\ \/ Quarantined /\ Refuse(c, "fatal")
     \/ ~Busy /\ Refuse(c, "ok")
     \/ ~Quarantined /\ pending # NoJob /\ Keep(c) /\ UNCHANGED device

Waiting(c) == lane = c /\ call[c].op \in {"dispatch", "run", "drain"}

(* Mutant of WaitDone: the deferred frees are forgotten with the           *)
(* submission that deferred them.                                          *)
WaitDoneForgets(c) ==
  /\ Waiting(c) /\ gpu = NoJob
  /\ pending' = NoJob
  /\ Return(c, IF expired[c] THEN "retry" ELSE "ok")
  /\ UNCHANGED <<uncertain, lost, res, deferred, bound, charged, budget, gpu>>

(* The fence is signalled: vkFinishPendingLocked.  A completion that races *)
(* the end of the context is settled, but not reported as success.         *)
WaitDone(c) ==
  /\ Waiting(c) /\ gpu = NoJob
  /\ pending' = NoJob
  /\ Destroy(deferred \cap pending.bufs)
  /\ Return(c, IF expired[c] THEN "retry" ELSE "ok")
  /\ UNCHANGED <<uncertain, lost, bound, budget, gpu>>

(* The context or the budget ends first: the submission is retained. *)
WaitExpires(c) ==
  /\ Waiting(c) /\ expired[c]
  /\ Refuse(c, "retry")

WaitFails(c) ==
  /\ Waiting(c) /\ "wait" \in DriverFaults
  /\ uncertain' = TRUE /\ MayBeLost
  /\ Return(c, "fatal")
  /\ UNCHANGED <<pending, res, deferred, bound, charged, budget, gpu>>

(* The device finishes, whatever the package believes. *)
GpuDone ==
  /\ gpu # NoJob
  /\ gpu' = NoJob
  /\ UNCHANGED <<pending, uncertain, lost, res, deferred, bound, charged, budget, calls>>

-----------------------------------------------------------------------------
(* What the package does for a caller once it has called. *)
Serve(c) ==
  \/ Alloc(c) \/ NewKernel(c) \/ NewPlan(c) \/ Rebind(c) \/ SetMemoryBudget(c)
  \/ Free(c) \/ Close(c) \/ Touch(c)
  \/ Dispatch(c) \/ Run(c) \/ Drain(c)

Finish(c) == TouchEnds(c) \/ WaitDone(c) \/ WaitExpires(c) \/ WaitFails(c)

(* A client that makes any call on the resources S it owns. *)
Client(c, S) ==
  \/ \E op \in {"alloc", "newKernel", "drain", "budget"} : Call(c, op, NoOne, {})
  \/ \E r \in S : res[r] # "none" /\ Call(c, "close", r, {})
  \/ \E b \in S \cap Buffers, op \in {"free", "touch"} : res[b] # "none" /\ Call(c, op, b, {})
  \/ \E bufs \in SUBSET (S \cap Buffers) \ {{}} :
       \/ \E k \in S \cap Kernels : res[k] # "none" /\ Call(c, "dispatch", k, bufs)
       \/ S \cap Plans # {} /\ Call(c, "newPlan", NoOne, bufs)
       \/ \E p \in S \cap Plans :
            /\ res[p] # "none"
            /\ \/ Call(c, "rebind", p, bufs)
               \/ Call(c, "run", p, {})

PackageStep == GpuDone \/ \E c \in Callers : Serve(c) \/ Finish(c) \/ Expire(c) \/ GiveUp(c)

-----------------------------------------------------------------------------
(* Safety. *)

(* What the device executes is never destroyed under it, whoever closes,   *)
(* frees or rebinds what and however the wait for it ended; and the host   *)
(* never reads or writes mapped memory that is destroyed or in use by the  *)
(* device (vulkan_lifetime.go:93-119, vulkan_buf.go:196-224, 262-318).     *)
NoUseAfterFree ==
  /\ gpu # NoJob => Live({gpu.owner} \cup gpu.bufs)
  /\ gpu.owner \in Plans => Live(Stages[gpu.owner])
  /\ \A c \in Callers : lane = c /\ call[c].op = "touch" =>
       /\ Live({call[c].on})
       /\ call[c].on \notin gpu.bufs

(* The ledger counts every buffer whose memory is still held, deferred and *)
(* quarantined ones included, and stays within the budget in force; a      *)
(* deferred free always has a retained submission that will serve it; and  *)
(* the device runs nothing but the retained submission                     *)
(* (vulkan_memory.go:16-32, vulkan_lifetime.go:120-131).                   *)
LedgerExact ==
  /\ TypeOK
  /\ charged = Cardinality({b \in Buffers : res[b] = "live"})
  /\ charged <= budget
  /\ deferred \subseteq {b \in pending.bufs : res[b] = "live"}
  /\ gpu \in {pending, NoJob}

(* Once the device is lost or a submission is uncertain the package never  *)
(* again destroys, builds, rebinds or submits anything, nor forgets it:    *)
(* only the process's end recovers (vulkan_lifetime.go:62-72, 133-141).    *)
QuarantineIsFinal ==
  [][Quarantined =>
       /\ Quarantined'
       /\ UNCHANGED <<pending, res, bound, charged, budget>>
       /\ gpu' \in {gpu, NoJob}]_vars
=============================================================================
