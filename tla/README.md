# go-pherence: specification and proofs

TLA+ models of the stateful core of go-pherence, the TLC runs that check them
and TLAPS proofs about them. Every definition that stands for code is listed in
`PROJECT.json` under `map` with the lines it models. Paths below are relative to
the repository (`src/`).

## 1. The system

go-pherence is a Go inference toolkit: model code, kernels and loaders, and a
layer of services that run models for callers. The numerics are data to us. What
keeps state across calls, goroutines, crashes and restarts is this:

| Component | Code | State | Operations | What makes it hard |
|---|---|---|---|---|
| Resource budget | `runtime/resourcebudget/budget.go` | CPU slots and memory in use, FIFO of waiters, closed flag | Acquire, Release, Shrink, Close, Shutdown | grants race expiring contexts; waiters that leave must let others in; idempotent release; closing while leases are out |
| Speech queue | `runtime/speechjob/queue.go` | journal in memory and in `queue.json`, poison, one worker | Enqueue, Cancel, Forget, Delete, Start, Shutdown, Close, OpenQueue | the worker drops the mutex for admission and for the run; half-finished saves; crashes between rename and sync; restart must not replay |
| Speech store | `runtime/speechjob/{store,execute,retention,media_release}.go` | one directory per recording: manifest, input, payloads; one admission slot | Create, Rename, Rebind, ReleaseMedia, Delete, Run, Cancel, Open | every operation is several file operations; Run works on a copy outside the mutex; payload orphans; repeated operations |
| Queue HTTP API | `runtime/speechjob/httpapi` | mutation gate, upload slots | enqueue, cancel, retention, upload, progress | a gate held across calls into queue and store |
| Whisper window journal | `runtime/speechjob/whisper.go` | per-window journal inside a stage | append, resume, release | resume after a crash inside a stage |
| Vulkan stage owners | `runtime/speechjob/{whisper,community1}_vulkan.go`, `model/whisper/vulkan_encoder.go` | gate, stopping, quarantined; the encoder's resources | infer, settle, Close | an inference may return while its work is still executing; teardown that fails halfway |
| Diarization owner | `runtime/speechjob/community1{,_owner}.go` | gate, loaded model | infer, Close | closing under concurrent stages |
| Context mutex | `internal/contextmutex/mutex.go` | one-token channel | Lock, LockContext, Unlock | a cancelled context must not take the lock |
| Inference scheduler | `runtime/inferencesched/scheduler.go` | waiting and running work, index of identities, round-robin cursors | Add, Step, Close | contexts that expire inside a Step; cursors into a list that is compacted; fairness; closing each work once |
| Prompt cache, KV cache | `runtime/promptcache`, `runtime/kv` | entries with references, staging | lookup, insert, evict, release | eviction against use, stale identities |
| Expert residency | `backends/nvidia/runtime/expert_pool.go`, `runtime/expertstream`, `runtime/memory`, `backends/placement` | slots, pins, budgets | acquire, evict, prefetch | limits, pins, partial loads |
| Worker pools | `backends/simd/runtime/gemm_pool.go`, `backends/spacemit/ime2/worker_pool.go`, `backends/spacemit/aicpu/aipool` | workers, job and done channels, condition variable, generation counter, pair barrier | Run, Close | lost wake-ups, partitions that round, cancellation with jobs in hand, a second Close, barriers used again at once |
| Vulkan lifetimes | `backends/vulkan/vulkan_{lifetime,buf,memory,dispatch,plan,arena}.go` | the lane, the retained submission, lost and uncertain, deferred frees, the ledger | allocate, build, rebind, dispatch, run, drain, free, close, host access | a wait that ends before the device; a submission nobody knows the state of; destruction and host access while the device works |
| Vulkan training workspaces | `backends/training`, `backends/vulkan/vulkan_training_shared_workspace.go` | reference counts | retain, release | use after close |
| Servers | `cmd/llm/llmserver`, `cmd/audio/*` | start and stop order | serve, shut down | order of teardown |
| Models, kernels, loaders, tools, web UI | `model`, `loader`, kernels, `benchmarks`, `scripts`, `webui` | - | - | numerics and formats, not control |

How they meet: a speech server opens a `Store`, opens a `Queue` over it, gives
the queue an admission callback (`Budget.Admission`, or `SerialAdmission` over a
context mutex) and starts the one worker. The HTTP API calls both the queue and
the store. The worker calls admission, then the store's `Run`, whose stages use
the models. A stage whose encoder is resident on a GPU goes through an owner; the
owner and every other user of the device share the one lane and the one retained
submission of the Vulkan package. CPU matrix products are split over a pool.

What each component must guarantee is stated by the properties of section 4; the
hazards they answer are in `PROJECT.json` under `hazards`, each at its line.

## 2. Modules

| Module | Models | Role |
|---|---|---|
| `ResourceBudget` | `budget.go` | one action per critical section of the mutex |
| `SpeechQueue` | `queue.go` | one action per critical section and per call the worker makes outside it |
| `TicketLifecycle` | - | what the queue promises, without journal, worker or failures |
| `SpeechQueueTickets` | - | the refinement mapping from `SpeechQueue` to `TicketLifecycle` |
| `SpeechQueueProofs` | - | type correctness of the queue, the safety of its journals, that it implements `TicketLifecycle`, and proofs about the worker and about what callers were told |
| `SpeechStore` | `store.go`, `execute.go`, `retention.go`, `media_release.go` | every operation as the sequence of disks it goes through |
| `SpeechStoreProofs` | - | the store's two inductive invariants and what follows from them |
| `Lists` | the loops of `dispatch` and `compactEntries` | the one list operator that keeps a subsequence, as a recursive function |
| `ListLemmas` | - | what that operator keeps, and lemmas on lists without repetition |
| `ResourceBudgetProofs` | - | the proofs about the budget |
| `InferenceScheduler` | `scheduler.go`, the work of `model/gemma4_scheduled_work.go` | one action per sweep and per turn of a Step |
| `InferenceSchedulerProofs` | - | the scheduler's invariant and what follows from it |
| `VulkanLifetime` | `backends/vulkan`: lifetime, buffers, kernels, plans, arenas, ledger | one action per call of the package, its wait apart |
| `StageOwner` | `whisper_vulkan.go` over `vulkan_encoder.go` | composes the owner with `VulkanLifetime` and another client |
| `StageLease` | - | what the owner promises: the abstract specification |
| `VulkanLifetimeProofs` | - | the package's invariant and that every call of any caller preserves it |
| `StageOwnerProofs` | - | the invariant of owner and package together, and the refinement of `StageLease` |
| `WorkerPools` | `gemm_pool.go`, `worker_pool.go`, `aipool` | the four pools, one action per blocking step or atomic access |
| `ForkJoin` | - | what every pool promises: the abstract specification |
| `WorkerPoolsProofs` | - | the pools' invariant, and that every pool implements `ForkJoin` |
| `MC*` | - | the instances TLC checks |

Each specification module also holds a few operators whose comment begins with
"Mutant of": the definition after it with a plausible mistake. No specification
uses them; each shows that a property can be violated by such a mistake.
`PROJECT.json` pairs one of them with each property; the others were tried against
the remaining conjuncts of the properties that have several.

### ResourceBudget

`used`, `active`, `waiting`, `closed` are the fields of `Budget`. `drained`
counts the `close(b.drained)` calls, because a second one panics. `state[c]`
says where the latest `Acquire` of caller `c` stands, `need[c]` is the demand of
its waiter or lease, `cancelled[c]` says that its context is done: contexts
expire without telling the budget. `dispatch` and `release` run inside larger
critical sections, so they are operators on the record of the protected fields
(`Current`), and the actions apply them in the code's order. `Snapshot` only
reads; `Shutdown` is `Close` and a wait for `drained`.

### SpeechQueue

`mem` is `Queue.state`, `file` is `queue.json`, and `possible` is the set of
journals that a power loss may leave there: `save` renames and then syncs the
directory, and only the sync makes the rename durable. A save can succeed, fail
before the rename (no step for an API call, a poisoned queue for the worker) or
be uncertain after it (poisoned). A process that dies inside a save leaves the
same disk as an uncertain one. `pc`, `entry`, `late` and `outcome` are the worker:
it copies an entry under the mutex, waits for admission without it, claims the
ticket under the mutex, and checks and runs the job without it. `job` is the
manifest of each recording, as far as the queue looks at it: hashes of input,
configuration and plan are one value. `minted`, `runs`, `owed` and `withdrawn`
are history variables. Reading calls (`List`) are left out, as are metadata
limits and error codes. A job the owner deleted does not come back: identifiers
are random tokens.

### SpeechStore

`disk[j]` is the directory of a recording. `place`, `manifest` and `files` are
what the kernel shows; `places`, `manifests`, `durable` and `loose` say what a
power loss may leave, entry by entry, as POSIX allows; a directory sync collapses
them. Where only processes die the two agree. An operation computes the sequence
`ds` of disks it goes through, and a step goes to its last element (`Wholly`) or,
if a file operation fails or the process dies, to an earlier one (`Partly`,
`Stops`). With `Faults = {}` an operation that stops means that the crash comes
next (`dying`). `pc`, `who`, `m`, `cancel` are `Run`: it takes the admission slot
under the mutex (`Admit`), verifies its dependencies, publishes Running
(`Begin`), and for every stage publishes the active stage (`NextStage`), lets the
stage write (`StageWrites`: link without replacing, sync) and publishes the
checkpoint (`RecordStage`); `terminal` is `Fail`, `Interrupt` or `StageFails`
followed by `End`. A key is the configuration and the earlier payloads, as in
`checkpointKey`. Payload bytes are taken from `Outputs`, with two of them a stage
need not be deterministic. Size limits, temporary files and the walk that adds
up usage are abstracted to failures of the operation; `RemoveAll` is one step.

### InferenceScheduler

`waiting`, `running`, `index`, the two cursors and `closed` are the fields of
`Scheduler`. Entries are named by their identities, which is exact because `Add`
refuses an identity that is in the index and a Step holds the mutex from its first
sweep to its last. `step` is the part of the Step that is under way, with the
locals of `runDecode` or `runPrefill`; `dead` is the set of entries the Step has
released and not compacted yet. A context may expire between any two turns, so a
Step is `BeginStep` (cancel, compact, admit, release the finished), then one
`Turn`, `PassBy` or `Miscount` per visited entry, then `EndStep`. A sweep reads
each context once, and an expiry inside it has the effect of one before or after
it, so a sweep is one action. `closing` is what Close took out under the mutex and
releases outside it. `work[i]` counts the tokens left to prefill and to decode.
The session behind the Gemma4 adapter moves as many tokens as it may; a request
in `Faulty` may move fewer, fail, or answer a count that `validateProgress`
refuses. `Long` requests decode for ever: without them no bound on tokens would
tell a request that waits long from one that starves. `served` records the last turn
that moved tokens. Left out: the step reports, `Work.Cancel` (it raises a flag nobody
reads), errors of `Work.Close` (reported only), and the overflow of `addOrder`,
which would need 2^64 calls.

### VulkanLifetime

A call takes the one lane, checks, acts and gives the lane back, so the body of a
call is one action (`Alloc`, `NewKernel`, `NewPlan`, `Rebind`, `SetMemoryBudget`,
`Free`, `Close`). Two things last while the lane is held and are split: the wait
for a fence (`Dispatch`, `Run` and `Drain`, then `WaitDone`, `WaitExpires` or
`WaitFails`) and the host's access to mapped memory (`Touch`, `TouchEnds`). `lane`,
`pending`, `uncertain`, `lost`, `deferred` and `charged` are the package's
variables. `gpu` is what the device really executes: a submission whose wait ended
early stays there until `GpuDone`, and one whose submission failed may or may not
be there. `Submit` fails while recording, at the fence reset, or in
`vkQueueSubmit`; any driver failure may be the loss of the device. An arena is its
one buffer, all buffers have one size, so the ledger counts allocations. Tensors
inside an arena, heaps, bindings' alignment and the contents of kernels are left
out. A context that ends between two checks before submission has the effect of one
that ended before the first.

### StageOwner

`stage[t]` is where a goroutine stands in `wrap` or `Close`; `gate`, `stopping` and
`closed` are the fields of the owner's state. An inference is any sequence of plan
runs and host accesses while each succeeds (`forwardHidden` makes one of them), may
fail or panic at any time, and then settles: it polls `VulkanDrain` with contexts of
its own until the device is idle (`Leave`), or keeps its gate for ever
(`Quarantine`), which is how the code keeps the executor from admitting another job.
`Teardown` and `CloseNext` are the reverse loop of `VulkanEncoder.Close`; `left`
is what its list still holds. The encoder's own gate is only taken under the
owner's. `Raw` is a client that makes any call on resources of its own on the same
device. `StageLease` is the promise: one lease at a time, returned only when no work
of the owner is executing, and destruction only under the lease of a closer.

### WorkerPools

`kind` and `n` are chosen at the start. Rows or columns are counted in the tile a
pool partitions by, so that a tail which is no full tile is an item of its own (the
`gemm` pool computes it in the caller). The channels of a worker hold one element:
`queued` and `ready` are the workers whose channel is full. A critical section of a
mutex that does not wait is one action; `sync.Cond` has a set of sleepers
(`asleep`); every atomic load, store and add of the spinning pool and of its pair
barrier is an action. The calls that close all job channels of a pool are one
action, and arguments are valid: the validation of shapes happens before anything is
submitted. `ForkJoin` is the promise: one run at a time, every item worked on
exactly once and none in hand when the run returns, cancelled or not; the caller
works itself (on the scratch of the first worker, `gemm_pool.go:397`) only while no
worker does; Close returns when no worker is left.

## 3. Fairness

* `ResourceBudget`: a woken goroutine gets the mutex (`Wake`), and the owner of
  a lease releases it (`Release`), which is the obligation the comment on `Lease`
  puts on it. Contexts need not expire and nobody needs to close the budget.
* `SpeechQueue`: the worker goroutine is scheduled (`WF(Work)`). The callbacks it
  waits for return: queue.md, "The callback and admission release must drain
  before the worker moves on." API calls, timeouts, Start and Shutdown need not happen.
* `SpeechStore`: the goroutine that called `Run` is scheduled and its stage
  returns (`WF(Execute)`), which types.go demands of a stage.

* `InferenceScheduler`: somebody keeps calling Step (`WF(Stepping)`), which is the
  contract of a scheduler without a goroutine of its own. Nobody has to add requests, and contexts need not expire.
* `StageOwner`: the device finishes what it runs or its loss is reported; the lane
  and the gate are Go channels, which serve their senders in order
  (`SF(Serve)`); every fence wait has a budget of at most 30 s; host accesses return.
  A settling goroutine polls again at once (a poll that times out has used its
  whole period, so the sleep of `settle` is empty), which gives `SF(WaitDone)`.
  Nobody has to call, and no context has to end while the lane is not held.
* `WorkerPools`: every goroutine that can take a step does (`WF` of each caller and
  each worker): Go schedules runnable goroutines, hands a mutex to a waiter that has
  waited long, and the spinning workers yield or have a core each. Nobody has to
  call, and no context has to end.

## 4. Runs

| Run | Instance | Shows |
|---|---|---|
| `ResourceBudget` | 3 callers, 3 demands, 2 slots, 3 units of memory, 1 or 2 waiting places | exact accounting without oversubscription, no lost waiter or wake-up, FIFO without bypass, drained closed once; every waiting call returns, Shutdown completes |
| `SpeechQueueKill` | 2 jobs, 2 tickets, all faults, process deaths, fair worker | acknowledged work is served, withdrawn work never runs, no ticket hangs in running, order, poison freezes the queue, Shutdown drains |
| `SpeechQueuePower` | 2 jobs, 2 configurations, 2 tickets, power losses | claims and acknowledgements survive a power loss, nothing is replayed, journals load, a ticket runs the configuration it was issued for, refinement of `TicketLifecycle` |
| `SpeechQueueReopen` | 1 job, failing sync and power loss | violation, see section 6 |
| `SpeechStoreAll` | 1 recording, 2 configurations, 2 stages, 2 attempts, failing files, deaths and power losses, fair executor | acknowledged recordings survive, reported progress is committed, every manifest loads and has matching checkpoints, stages run under a durable claim, the slot comes back |
| `SpeechStorePower` | 1 recording, 2 configurations, 2 titles, 2 outputs, power losses | completions and deletions are final, media behind every manifest, Run undoes no change of the owner |
| `SpeechStoreRetry` | 1 recording, failing files and power loss | violation, see section 6 |
| `InferenceSchedulerAll` | 3 requests (one endless, one faulty), 2 places, decode budget 2, prefill budget 1, all contexts may expire | every work released exactly once, index exact, expired requests end at the next sweep, admission by arrival, everybody served |
| `InferenceSchedulerStarves` | 4 requests (one endless), 4 places, decode budget 2, no expiring contexts | violation, see section 6 |
| `StageOwnerSafety` | 2 inferences and 2 closers (both symmetric), another client; an encoder of arena, kernel and plan; 1 kernel, 1 buffer and 1 plan of the client; all driver faults | nothing destroyed or touched under the device, exact ledger and lists, a quarantine is final, the owner implements `StageLease` |
| `StageOwnerLiveness` | 1 inference, 1 closer, another client | every package call returns; an inference settles or is quarantined once the other client is quiet |
| `WorkerPools` | all four pools, 2 and 3 workers, up to 4 tiles, 3 calls of 3 goroutines (2 of them run) | every pool implements `ForkJoin`, every Run and Close returns |

Why the bounds are enough. Budget: with one waiting place three callers are a
lease holder, a waiter and a refused one, with two places a holder and a list whose
head blocks another; the demands fill a dimension, fit in one dimension but not the
other, and use no CPU. Queue: two tickets are one that is withdrawn, lost or
interrupted and the one that replaces it or competes with it; two jobs give an
order. The faults and crashes of a run can happen any number of times. Store: two
attempts are a failed one and its retry, two stages are one whose payload a
release removes and one that depends on it. Scheduler: with two places and three
requests one waits while two run, the endless one takes a whole budget and the
others end in every possible way; identities come back without bound.
Owner: one inference
that drains, one that waits for the gate, a Close that waits with it, a second Close behind the first, and a client
whose submission occupies the device or whose buffers compete for the budget; each
kind of resource exists once on either side, and wait, submit and record may fail at
any time. Pools: with three workers four tiles are two each and nothing for the
last; with two workers they are a wave of two rounds; fewer tiles than workers and
none occur too; three calls are two runs and a Close, a run between two Closes, or
a Close that arrives while another waits. `MaxCalls` bounds the calls of a pool's life and `MaxTiles`
the size of a run. `MaxPrompt` and `MaxTokens` (in `Add`) bound the length of a request. `MaxTickets` (guard of `Enqueue`) and
`MaxAttempts` (guard of `Admit`), with `MaxCalls` and `MaxTiles`, are the only
bounds the code does not have.

Deadlock is not checked: a closed queue, store or budget with nothing left to do
is a legitimate end, and the bounds stop the models. A closed scheduler or pool and a
quarantined device are ends too.

`Runners` and `Closers` are symmetric in `StageOwnerSafety`; no run with a liveness property uses
symmetry.

`Settles` has a condition: the other client must be quiet in the end. The comment at
`whisper_vulkan.go:35-39` asks for exclusive use of the device; with a client that
submits for ever TLC finds polls that expire for ever, each while waiting for the
lane or for the other client's work.

## 5. Proofs

All theorems hold for every value of the constants that satisfies the module's
named assumption (`QueueAssumption`, `CapacityAssumption`, ...), which TLC evaluates
on its instances. `PROJECT.json` lists them under `theorems`. Each inductive
invariant was first checked by TLC on the instances of section 4.

### Speech queue

* `TypeCorrect`, `Inductive`: `AtMostOnce` alone is not inductive, since whether a
  ticket runs once depends on what every restart can find. `IInv` adds, for the
  memory and for every journal in `possible`: tickets were minted and are distinct
  (`Sound`, `TicketsBacked`), a pending ticket has not run, and a ticket that
  holds the claim has not run and is pending nowhere (`ClaimIsDurable`,
  `ClaimFresh`). All saves go through `DerivedSound`: a journal that makes nothing
  pending inherits soundness. From it `NeverReplayed`, `ClaimsDurable`,
  `JournalsAlwaysLoad`.
* `WorkerInductive` adds what ties the worker to the rest: memory and file differ
  only in a poisoned or closed queue, the entry the worker copied is behind no
  earlier pending one, its claim stands in the memory until the outcome is
  recorded, and nobody takes the recording away between the check and the end of
  the stages. From it `FirstComeFirstServed`, `RunsAsEnqueued`; `PoisonIsFinal`.
* `ToldInductive` is about what callers were told, and needs the hypothesis
  `Durable`: where the power may fail, that is the only crash and directory syncs
  do not fail. `SpeechQueueReopen` shows that it cannot be dropped. From it
  `IntentSurvives`, `WithdrawnStaysWithdrawn`, `StatesAlwaysTrue`. The hypothesis
  holds of both passing runs: process deaths with failing files, and power losses
  without them.
* `ImplementsPromise`: `Spec => TicketPromise`. Every step moves every ticket
  forward in `TicketLifecycle` or leaves it (`NextFacts`), and only the ticket the
  worker is at can be executing.

### Vulkan lifetimes and the stage owner

* `OwnerInductive`: neither part's invariant is inductive alone. `PackageInv` says
  of the device that what executes is the retained submission or nothing the host
  knows of, that everything a retained submission uses is live, that the ledger is
  the number of live buffers, and of every caller what it may hold at the point
  where it stands; the caller at the head of the lane waits for a submission nobody
  has doubted or touches a buffer outside it. `OwnerInv` says where each goroutine
  of the owner may stand while which call is out, that it drains before it gives
  the gate back, and that its list agrees with what is live, up to the one resource
  whose close just returned. `VulkanLifetimeProofs` shows once, for an arbitrary
  caller, that each call preserves `PackageInv`; owner and client reuse it.
* From it `NothingUsedAfterFree`, `OwnerBooksAgree` (also after a Close that failed
  half way), `QuarantineNeverEnds`, and `OwnerImplementsLease`.

### Resource budget

* `BudgetInductive`, then all five safety properties: `BudgetAccounts`,
  `WaitersKept`, `HeadServed`, `DrainedOnce`, `NobodyBypassed`. The counters are
  sums over the callers that hold a lease (`MapThenSumSet`, unfolded one
  lease at a time), the list of waiters has no repetition, and a live head does not fit.
* What `dispatch` computes for a list of any length would need induction over the
  list, which these provers cannot do with the library's theorems (they take an
  operator as a parameter). The lemmas of `ListLemmas` are proved without it: the
  positions that violate the claim are a set of naturals, a set of naturals that is
  not empty has a least element, and the recursive function's equation refutes it.

### Speech store

* `StoreInductive`: for any faults and crashes, `IInv` says of every directory
  (`Fine`), for every manifest and place a crash may leave: what was acknowledged is
  found, no manifest has fewer checkpoints than were reported, every manifest is
  `GoodManifests`, a manifest is only ever written into a directory whose entry is
  synced; and of Run's copy that it agrees with the directory in what only the owner
  changes. An operation is a sequence of disks, so each lemma shows that every disk of
  the sequence is fine, and `Lands` does the stopping anywhere for all of them.
* From it `CreatedRecordingsSurvive`, `ReportedProgressSurvives`,
  `EveryManifestSound`, `StagesAreClaimed`, `CopyStaysCurrent`.
* `SteadyInductive` is about media and endings and needs the hypothesis `Steady`:
  where the power may fail, no file operation fails and no process dies on its own.
  It holds of every instance with process deaths and failing files and of every
  instance with power losses alone. The invariant (`SInv`) says that every manifest of
  a directory that may be found has its media among the files that last (`Backed`),
  that an acknowledged completion is the only manifest of the only place (`Ended`),
  that a directory is settled whenever an operation may begin, and that a run in
  progress has the media of its copy, which it may be about to publish. From it
  `EndingsAreFinal` and `MediaStayBacked`. The hypothesis is needed: with both kinds of
  crash, or a failing sync and a power loss, a manifest renamed but not synced is read,
  reported and built on, and TLC finds both properties violated (section 6 has the
  case a comment speaks of).

### Inference scheduler

* `SchedulerInductive`: `ReleasedOnce` speaks of the lists, which say nothing of how
  often a work was closed, so `IInv` ties them together. `Placed`: the three lists are
  without repetition, and nobody both waits and runs. `Shut`: something is left for
  Close to release only in a closed scheduler, whose lists are empty and in which no
  Step is under way. `Noted`: what a Step has released never waits, and nothing is
  noted between Steps. `InOrder`: the queue is sorted by arrival. `VisitWithin`: the
  position a round has reached is within the running list. Then the index is what is
  held, and a work was closed just when its request is not.
* A sweep keeps of each list what `compactEntries` keeps (`KeepThins`, from
  `ListLemmas`), and admission cuts the queue in two (`Cut`) and joins the front to the
  running (`Joined`). A turn, a miscount and a visit that passes by are one lemma
  (`VisitKeeps`); `TurnMoves` shows that no answer of a faulty work overdraws a budget.
  `PlaceIs` shows that `insertEntry` puts a request behind all that do not arrive later.
* From it `ReleasesOnce`, `IndexIsExact`, `ExpiredEnd` and `AdmitsByArrival`.

### Worker pools

* `PoolInductive`, then `PoolsForkAndJoin`: `Spec => ImplementsForkJoin`. `ForkJoin`
  says nothing of channels, generations or counters, so `Inv` says what they mean.
  `Locked`: a caller inside a run holds the pool, which is open, and no run leaves
  anything behind. `Channelled`: the submitter's two counters say where every worker of
  the channel pools is; between `got` and `sent` its job is in its channel, in its hands
  or answered by one token, and the others are idle. `Signalled`: until the generation is
  shared every worker has seen it, and then the counter is the number of workers that
  have come back. `Results`: what has been worked on is the union of the shares of the
  workers that finished, and a run that submitted everything has covered its tiles.
* The shares are partitions. The solver does little with `\div` when the divisor is a
  variable, so each quotient is pinned by two inequalities (`DivIs`) and the lemmas
  compare products with a common factor. A tile has at most one worker (shares are apart)
  and at least one (they cover), for the rounded-up chunks, the even split, and the
  strided and spread tiles of the paired workers.
* `StepOK` has one lemma per action (`...Keeps`), which preserves `Inv` and is a step of
  `ForkJoin` or a stutter. The proofs are about every pool size; the pair barrier of the
  spinning pool only moves a worker within its callback, so safety does not rest on it
  (that nobody is stuck there is liveness, `CallsReturn`).

### Only model-checked

All liveness: fairness and ENABLED are beyond the prover. The properties of section 6
that fail. Every safety property of the passing runs and all three refinements are
proved, some under the hypotheses `Durable` and `Steady` named above.

## 6. Findings

* `SpeechQueueReopen`: queue.md and the comment on `Enqueue` say that an
  acknowledgement means durable intent. If a save got through its rename but its
  directory sync failed, the queue is poisoned and must be reopened. `open` reads
  the renamed journal and does not write it again unless an entry was running, so
  the directory is still not synced when `Enqueue` returns the pending ticket. A
  power loss then forgets an acknowledged ticket. With directory syncs that work,
  `SpeechQueuePower` shows the acknowledgement is durable.
* `SpeechStoreRetry`: the comment on `ReleaseMedia` says that a crash leaves only
  redundant media and that repeating the call finishes the cleanup. A repeated
  call skips the save when the manifest already says released, also when that
  manifest was renamed but never synced, and removes the input; a power loss may
  keep the removal and drop the rename. Where directory syncs work,
  `SpeechStorePower` shows that every manifest has its media.

* `InferenceSchedulerStarves`: the benchmark report lists fairness as a gate the
  scheduler passed, and two tests check that requests take turns while none of
  them leaves. The cursors are indices into `running`; `compact` removes entries
  before them and then only takes them modulo the new length. With four places and a
  decode budget of two, running `[x a b c]` and the cursor at `a`: `a` and `b`
  finish in one Step, the cursor becomes 3, the list `[x c]`, and 3 mod 2 is `c`. Two
  new short requests fill the list and the same happens again, so `x` is never
  served as long as short requests come. TLC finds this cycle. It needs two
  removals in one Step before the end of the list: with two places
  `InferenceSchedulerAll` shows that everybody is served, and TLC finds no
  violation when `MaxActive` is raised to 3 in that instance. Requests that have nothing to prefill
  are those restored by a full prompt-cache hit; the same cursor arithmetic serves
  the prefill half.

The first two need a directory sync that did not happen followed by a power loss, under
the file-system rules of POSIX; a file system that keeps the order of metadata
changes hides the second.

## 7. Plan

1. `ResourceBudget`, `SpeechQueue` with `TicketLifecycle` and its proofs,
   `SpeechStore`, `InferenceScheduler`, `VulkanLifetime` with `StageOwner` and
   `StageLease`, `WorkerPools` with `ForkJoin`: done.
2. Proofs of the safety properties of queue, budget, store, scheduler, Vulkan
   owner and worker pools, with the refinements of `TicketLifecycle`, `StageLease` and
   `ForkJoin`: done.
3. Expert pool and its pins; training workspaces.
4. An abstract specification of the store (a recording as an atomic value) and the
   refinement from `SpeechStore`.

## 8. Not modelled

Almost all of the 363,811 lines are numerics: generated PTX and SPIR-V, assembly
and hand-written kernels, model code, loaders and file formats. Their correctness is
a question about floating-point and layouts that tests against reference outputs
answer, and they have no state that outlives a call. No honest model covers a large
share of those lines; what is modelled is where state is kept across calls,
goroutines, devices and crashes.

Of the code that does keep state: the HTTP API and the servers call the queue and
the store, whose models admit any sequence of calls; the window journal is inside
what the store model treats as one payload; the context mutex and the host
diarization owner follow the same channel protocol as the lane and the gate, and
`community1_vulkan.go` is `whisper_vulkan.go` with another model; the prompt cache
and the KV stores are maps under one mutex without a wait; expert residency and the
training workspaces are in the plan.
