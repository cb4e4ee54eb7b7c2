----------------------------- MODULE StageOwner -----------------------------
(***************************************************************************)
(* The owner of a resident Vulkan model as a speech stage:                 *)
(* runtime/speechjob/whisper_vulkan.go over model/whisper/vulkan_encoder.go*)
(* (community1_vulkan.go over community1/vulkan_diarization.go follows the *)
(* same protocol), composed with the Vulkan package and with one client    *)
(* that calls the package on resources of its own.                         *)
(*                                                                         *)
(* An inference takes the owner's gate, uses the device through bounded    *)
(* calls, and then drains until the device is known to be idle before it   *)
(* gives the gate back.  What it cannot prove idle it holds for ever.  The *)
(* encoder's own gate is only ever taken under the owner's and is folded   *)
(* into it.                                                                *)
(***************************************************************************)
EXTENDS VulkanLifetime, Sequences

CONSTANTS
  Runners,  \* goroutines that run the stage
  Closers,  \* goroutines that close its owner
  Raw,      \* the other client
  Owned     \* VulkanEncoder.resources, in construction order

Threads == Runners \cup Closers

OwnedSet == {Owned[i] : i \in 1..Len(Owned)}

ASSUME OwnerAssumption ==
  /\ Callers = Runners \cup Closers \cup {Raw} /\ Raw \notin Runners \cup Closers
  /\ Runners \cap Closers = {}
  /\ Owned \in Seq(Built) /\ Owned # <<>> /\ Cardinality(OwnedSet) = Len(Owned)

VARIABLES
  stage,    \* where each thread is
  gate,     \* who holds the gate
  stopping, \* status.Stopping
  closed,   \* status.Closed
  left,     \* the resources that are still in VulkanEncoder.resources
  next      \* the index in Owned of the resource being closed

owner == <<stage, gate, stopping, closed, left, next>>
allVars == <<vars, owner>>

OwnerTypeOK ==
  /\ stage \in [Threads -> {"out", "entering", "infer", "settle", "closing",
                            "teardown", "held"}]
  /\ gate \in Threads \cup {NoOne}
  /\ stopping \in BOOLEAN /\ closed \in BOOLEAN
  /\ left \subseteq OwnedSet
  /\ next \in 0..Len(Owned)

OwnerInit ==
  /\ Init
  /\ stage = [t \in Threads |-> "out"]
  /\ gate = NoOne
  /\ stopping = FALSE /\ closed = FALSE
  /\ left = OwnedSet
  /\ next = 0

Answered(t) == call[t] = NoCall

Goto(t, s) == stage' = [stage EXCEPT ![t] = s]

-----------------------------------------------------------------------------
(* Inference: wrap, with VulkanEncoder.forwardHidden inside. *)

Enter(t) ==
  /\ stage[t] = "out"
  /\ Goto(t, "entering")
  /\ UNCHANGED <<vars, gate, stopping, closed, left, next>>

(* The context ends while waiting in acquire, for the gate of either path. *)
Withdraw(t) ==
  /\ stage[t] \in {"entering", "closing"}
  /\ Goto(t, "out")
  /\ UNCHANGED <<vars, gate, stopping, closed, left, next>>

(* ErrClosed gives the gate straight back. *)
Refused(t) ==
  /\ stage[t] = "entering" /\ gate = NoOne
  /\ stopping \/ closed
  /\ Goto(t, "out")
  /\ UNCHANGED <<vars, gate, stopping, closed, left, next>>

Admit(t) ==
  /\ stage[t] = "entering" /\ gate = NoOne
  /\ ~stopping /\ ~closed
  /\ gate' = t
  /\ Goto(t, "infer")
  /\ ret' = [ret EXCEPT ![t] = "ok"]
  /\ UNCHANGED <<device, lane, call, expired, stopping, closed, left, next>>

(* Uploads, plan runs and downloads, as long as each has succeeded. *)
Use(t) ==
  /\ stage[t] = "infer" /\ Answered(t) /\ ret[t] = "ok"
  /\ \/ \E p \in OwnedSet \cap Plans : Call(t, "run", p, {})
     \/ \E b \in OwnedSet \cap Buffers : Call(t, "touch", b, {})
  /\ UNCHANGED owner

(* The inference returns, with or without an error: settle(err). *)
Settle(t) ==
  /\ stage[t] = "infer" /\ Answered(t) /\ ret[t] # "fatal"
  /\ Call(t, "drain", NoOne, {})
  /\ Goto(t, "settle")
  /\ UNCHANGED <<gate, stopping, closed, left, next>>

(* Mutant of DrainAgain: polls with the context of the request, not a fresh*)
(* one.                                                                    *)
DrainWithRequestContext(t) ==
  /\ stage[t] = "settle" /\ Answered(t) /\ ret[t] = "retry"
  /\ call' = [call EXCEPT ![t] = [op |-> "drain", on |-> NoOne, bufs |-> {}]]
  /\ expired' = [expired EXCEPT ![t] = TRUE]
  /\ UNCHANGED <<device, lane, ret, owner>>

DrainAgain(t) ==
  /\ stage[t] = "settle" /\ Answered(t) /\ ret[t] = "retry"
  /\ Call(t, "drain", NoOne, {})
  /\ UNCHANGED owner

(* Mutant of Leave: a drain that timed out also releases the lease.        *)
LeaveUndrained(t) ==
  /\ stage[t] = "settle" /\ Answered(t) /\ ret[t] \in {"ok", "retry"}
  /\ gate' = NoOne
  /\ Goto(t, "out")
  /\ UNCHANGED <<vars, stopping, closed, left, next>>

Leave(t) ==
  /\ stage[t] = "settle" /\ Answered(t) /\ ret[t] = "ok"
  /\ gate' = NoOne
  /\ Goto(t, "out")
  /\ UNCHANGED <<vars, stopping, closed, left, next>>

(* quarantine: a fatal or unknown error, or a panic of the inference, the  *)
(* drain or the teardown.  The thread keeps its gate for ever.             *)
Quarantine(t) ==
  /\ Answered(t)
  /\ \/ stage[t] = "infer" /\ ret[t] = "fatal"
     \/ stage[t] = "settle" /\ ret[t] \in {"fatal", "error"}
     \/ stage[t] \in {"infer", "settle", "teardown"}
  /\ Goto(t, "held")
  /\ UNCHANGED <<vars, gate, stopping, closed, left, next>>

-----------------------------------------------------------------------------
(* VulkanWhisperStage.Close over VulkanEncoder.Close. *)

(* The last resource before index i that is still owned, or 0. *)
Before(i) ==
  LET I == {j \in 1..(i - 1) : Owned[j] \in left'}
  IN IF I = {} THEN 0 ELSE CHOOSE j \in I : \A k \in I : k <= j

BeginClose(t) ==
  /\ stage[t] = "out" /\ ~closed
  /\ stopping' = TRUE
  /\ Goto(t, "closing")
  /\ UNCHANGED <<vars, gate, closed, left, next>>

AlreadyClosed(t) ==
  /\ stage[t] = "closing" /\ gate = NoOne /\ closed
  /\ Goto(t, "out")
  /\ UNCHANGED <<vars, gate, stopping, closed, left, next>>

Teardown(t) ==
  /\ stage[t] = "closing" /\ gate = NoOne /\ ~closed
  /\ gate' = t
  /\ Goto(t, "teardown")
  /\ left' = left
  /\ next' = Before(Len(Owned) + 1)
  /\ Call(t, "close", Owned[next'], {})
  /\ UNCHANGED <<stopping, closed>>

(* One resource has been closed, or is kept for a later Close; then the    *)
(* one before it, or the end.                                              *)
CloseNext(t) ==
  /\ stage[t] = "teardown" /\ Answered(t)
  /\ left' = IF ret[t] = "ok" THEN left \ {Owned[next]} ELSE left
  /\ next' = Before(next)
  /\ \/ /\ next' # 0
        /\ Call(t, "close", Owned[next'], {})
        /\ UNCHANGED <<stage, gate, stopping, closed>>
     \/ /\ next' = 0
        /\ closed' = (left' = {})
        /\ gate' = NoOne
        /\ Goto(t, "out")
        /\ UNCHANGED <<vars, stopping>>

-----------------------------------------------------------------------------
RunnerStep(t) ==
  \/ Enter(t) \/ Withdraw(t) \/ Refused(t) \/ Admit(t) \/ Use(t)
  \/ Settle(t) \/ DrainAgain(t) \/ Leave(t) \/ Quarantine(t)

CloserStep(t) ==
  \/ BeginClose(t) \/ Withdraw(t) \/ AlreadyClosed(t) \/ Teardown(t) \/ CloseNext(t)
  \/ Quarantine(t)

OwnerNext ==
  \/ \E t \in Runners : RunnerStep(t)
  \/ \E t \in Closers : CloserStep(t)
  \/ Client(Raw, Resources \ OwnedSet) /\ UNCHANGED owner
  \/ PackageStep /\ UNCHANGED owner

OwnerSpec == OwnerInit /\ [][OwnerNext]_allVars

-----------------------------------------------------------------------------
(* Safety. *)

(* The books agree: the package's ledger is exact; the gate is held exactly*)
(* by the thread that infers, settles, tears down or is quarantined; and a *)
(* resource the owner has dropped from its list has really been destroyed, *)
(* so that a Close which fails half way loses none of them                 *)
(* (vulkan_encoder.go:771-808, whisper_vulkan.go:217-264).                 *)
OwnerSound ==
  /\ OwnerTypeOK /\ LedgerExact
  /\ \A t \in Threads :
       gate = t <=> stage[t] \in {"infer", "settle", "teardown", "held"}
  /\ {r \in OwnedSet : res[r] = "live"} \subseteq left
  /\ closed => left = {}

-----------------------------------------------------------------------------
(* Refinement. *)

Lease == INSTANCE StageLease WITH
  Owned <- OwnedSet,
  Nobody <- NoOne,
  holder <- gate,
  native <- gpu.owner \in OwnedSet,
  gone <- {r \in OwnedSet : res[r] = "closed"}

(* The owner implements its lease, whatever the other client does to the   *)
(* shared device: the gate never comes back while work of this model may   *)
(* still be executing (whisper_vulkan.go:151-190), and no resource of the  *)
(* model is destroyed before Close or while it is in use (:217-264).       *)
ImplementsLease == Lease!Spec

-----------------------------------------------------------------------------
(* Liveness. *)

(* The device finishes what it runs, or the driver reports its loss; the   *)
(* lane and the gate are Go channels, which serve their senders in order;  *)
(* every fence wait has a budget and every host access returns; and a      *)
(* thread that settles polls without a pause, so that its polls cannot     *)
(* miss the fence for ever.                                                *)
Fairness ==
  /\ WF_allVars(GpuDone /\ UNCHANGED owner)
  /\ \A c \in Callers :
       /\ SF_allVars(Serve(c) /\ UNCHANGED owner)
       /\ WF_allVars((TouchEnds(c) \/ WaitExpires(c) \/ GiveUp(c)) /\ UNCHANGED owner)
       /\ WF_allVars(lane = c /\ Expire(c) /\ UNCHANGED owner)
  /\ \A t \in Runners :
       /\ SF_allVars(WaitDone(t) /\ UNCHANGED owner)
       /\ WF_allVars(DrainAgain(t) \/ Leave(t) \/ Quarantine(t))

FairSpec == OwnerSpec /\ Fairness

(* No call of the package blocks for ever, whatever the device does: a     *)
(* lane holder waits at most for its budget (vulkan_lifetime.go:164-224).  *)
CallsReturn == \A c \in Callers : call[c] # NoCall ~> call[c] = NoCall

(* Once the other client is quiet, an inference that has returned gives    *)
(* its lease back or is quarantined: it does not drain for ever            *)
(* (whisper_vulkan.go:151-190; exclusive use is asked for at :35-39).      *)
Settles ==
  <>[](call[Raw] = NoCall) =>
    \A t \in Runners : stage[t] = "settle" ~> stage[t] \in {"out", "held"}
=============================================================================
