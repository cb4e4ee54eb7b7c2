---------------------------- MODULE SpeechQueue ----------------------------
(***************************************************************************)
(* The explicit durable queue of runtime/speechjob/queue.go: one journal   *)
(* of tickets, one worker, API callers, process deaths and power losses.   *)
(*                                                                         *)
(* The journal lives twice: in memory (Queue.state) and in queue.json.     *)
(* save renames a synced temporary file over queue.json and then syncs the *)
(* directory.  Until that sync a power loss may still restore an earlier   *)
(* journal, so the disk is a pair: what the kernel shows now, and the set  *)
(* of journals a power loss may leave.  Each critical section of q.mu, and *)
(* each call the worker makes outside it, is one action.                   *)
(***************************************************************************)
EXTENDS Integers, FiniteSets

CONSTANTS
  Jobs,        \* recordings of the media store
  Configs,     \* configurations a recording can be bound to
  MaxEntries,  \* QueueConfig.MaxEntries
  MaxTickets,  \* bound: Enqueue mints no more tickets than this
  Faults,      \* failures that may happen, a subset of FaultKinds
  Crashes      \* how the process may end, a subset of CrashKinds

FaultKinds == {
  "write",      \* a journal save fails before its rename
  "sync",       \* a journal save fails after its rename
  "store",      \* a manifest publication of Store.Run fails, or may have
  "admission"}  \* the admission callback or its release panics
CrashKinds == {"kill", "power"}

ASSUME QueueAssumption ==
  /\ Jobs # {} /\ Configs # {}
  /\ MaxEntries \in Nat \ {0} /\ MaxTickets \in Nat
  /\ Faults \subseteq FaultKinds /\ Crashes \subseteq CrashKinds

VARIABLES
  mem,       \* Queue.state
  file,      \* queue.json as the running kernel shows it
  possible,  \* the journals a power loss may leave in queue.json
  poison,    \* Queue.poison # nil
  phase,     \* "down" (no owner), "open", "stopping" (Shutdown was called)
  ctxDone,   \* q.ctx is done
  wake,      \* the wake channel holds its one token
  pc,        \* where the worker goroutine stands
  entry,     \* the entry the worker picked, a copy
  late,      \* the context of that entry was cancelled or timed out
  outcome,   \* the final status the worker is about to record
  job,       \* the media store's manifests
  minted,    \* history: tickets minted so far; tokens never repeat
  runs,      \* history: how often each ticket started Store.Run's stages
  owed,      \* history: acknowledged tickets nobody touched since
  withdrawn  \* history: tickets that Cancel reported as withdrawn unstarted

disk == <<file, possible>>
owner == <<phase, ctxDone, wake>>
worker == <<pc, entry, late, outcome>>
history == <<minted, runs, owed, withdrawn>>
vars == <<mem, file, possible, poison, phase, ctxDone, wake, pc, entry, late,
          outcome, job, minted, runs, owed, withdrawn>>

-----------------------------------------------------------------------------
Tickets == 1..MaxTickets
Terminal == {"succeeded", "failed", "cancelled", "interrupted"}

(* QueueEntry.  The hashes of input and configuration are the              *)
(* configuration; ErrorCode is left out.  "none": the job has no entry.    *)
FilledEntries == [status : {"pending", "running"} \cup Terminal, ticket : Tickets,
                  seq : Nat, config : Configs, attempts : Nat]

NoEntry == [status |-> "none", ticket |-> 0, seq |-> 0,
            config |-> CHOOSE c \in Configs : TRUE, attempts |-> 0]

Entries == FilledEntries \cup {NoEntry}

(* What the worker copies when it picks an entry.                          *)
WorkEntries == [job : Jobs, ticket : 0..MaxTickets, seq : Nat,
                config : Configs, attempts : Nat]

(* queueState                                                              *)
Journals == [next : Nat, at : [Jobs -> Entries]]

NoWork == [job |-> CHOOSE j \in Jobs : TRUE, ticket |-> 0, seq |-> 0,
           config |-> NoEntry.config, attempts |-> 0]

EmptyJournal == [next |-> 1, at |-> [j \in Jobs |-> NoEntry]]

Manifests == [status : {"absent", "queued", "running", "failed", "cancelled",
                        "complete", "deleted"},
              attempts : Nat, config : Configs]

(* "picked": in the admission callback.  "refused": admission failed.      *)
(* "admitted": it holds a release function.  "expired": admitted too late. *)
(* "claimed": the claim is saved.  "checked": job and plan match.          *)
(* "running": inside Store.Run's stages.  "finish": about to record        *)
(* outcome.  "uncertain": recorded, poison still to be set.  "release":    *)
(* the deferred release is next.                                           *)
WorkerPCs == {"off", "pick", "asleep", "picked", "refused", "admitted", "expired",
              "claimed", "checked", "running", "finish", "uncertain", "release", "done"}

(* q.active # "": the loop of work is inside execute.                      *)
Active == pc \notin {"off", "pick", "asleep", "done"}

TypeOK ==
  /\ mem \in Journals /\ file \in Journals
  /\ possible \subseteq Journals
  /\ poison \in BOOLEAN /\ ctxDone \in BOOLEAN /\ wake \in BOOLEAN /\ late \in BOOLEAN
  /\ phase \in {"down", "open", "stopping"}
  /\ pc \in WorkerPCs
  /\ entry \in WorkEntries
  /\ outcome \in Terminal
  /\ job \in [Jobs -> Manifests]
  /\ minted \in 0..MaxTickets
  /\ runs \in [Tickets -> Nat]
  /\ owed \subseteq Tickets /\ withdrawn \subseteq Tickets

(* No queue.json yet; an absent journal reads as the empty one.            *)
Init ==
  /\ mem = EmptyJournal /\ file = EmptyJournal /\ possible = {EmptyJournal}
  /\ poison = FALSE /\ phase = "down" /\ ctxDone = FALSE /\ wake = FALSE
  /\ pc = "off" /\ late = FALSE /\ outcome = "failed"
  /\ entry = NoWork
  /\ job = [j \in Jobs |-> [status |-> "absent", attempts |-> 0, config |-> NoEntry.config]]
  /\ minted = 0 /\ runs = [t \in Tickets |-> 0] /\ owed = {} /\ withdrawn = {}

-----------------------------------------------------------------------------
(* Mutant of Saved: the directory is not synced after the rename.          *)
SavedUnsynced(new) ==
  /\ mem' = new /\ file' = new /\ possible' = possible \cup {new}

(* save: a whole new journal replaces the old one.  Only a save that got   *)
(* through its directory sync updates the memory, too.                     *)
Saved(new) ==
  /\ mem' = new /\ file' = new /\ possible' = {new}

NotSaved == "write" \in Faults /\ UNCHANGED <<mem, file, possible>>

(* Renamed, but the directory sync failed or never returned; if the queue  *)
(* lives on, it is poisoned.                                               *)
Uncertain(new) ==
  /\ "sync" \in Faults \/ Crashes # {}
  /\ file' = new /\ possible' = possible \cup {new}
  /\ poison' = TRUE /\ mem' = mem

(* Mutant of ApiSave: the journal is written later.                        *)
ApiSaveLazily(new) == mem' = new /\ UNCHANGED <<file, possible, poison>>

(* A save of an API call.  One that fails before its rename changes        *)
(* nothing, so it is no step.                                              *)
ApiSave(new) == Uncertain(new) \/ (Saved(new) /\ poison' = poison)

(* Mutant of WorkerSaveFails: a failed save is ignored.                    *)
WorkerSaveFailsQuietly(new) == Uncertain(new) \/ (NotSaved /\ poison' = poison)

(* A save of the worker: any failure stops the queue.                      *)
WorkerSaveFails(new) == Uncertain(new) \/ (NotSaved /\ poison' = TRUE)
WorkerSave(new) == WorkerSaveFails(new) \/ (Saved(new) /\ poison' = poison)

WithEntry(j, e) == [mem EXCEPT !.at[j] = e]
WithStatus(j, s) == [mem EXCEPT !.at[j].status = s]

(* Mutant of Ready: a poisoned queue still serves.                         *)
ReadyPoisoned == phase = "open"

(* ready                                                                   *)
Ready == phase = "open" /\ ~poison

Status(j) == mem.at[j].status
Ticket(j) == mem.at[j].ticket

-----------------------------------------------------------------------------
(* Enqueue, for a job with no entry or a terminal one.                     *)
Enqueueable(j, retry) ==
  /\ Status(j) = "none" => Cardinality({k \in Jobs : Status(k) # "none"}) < MaxEntries
  /\ Status(j) = "none" \/ (Status(j) \in Terminal /\ retry)
  /\ job[j].status \in {"queued", "failed", "cancelled"}
  /\ job[j].status = "queued" \/ retry

(* Mutant of NewEntry: the sequence number is taken after its increment.   *)
NewEntryAhead(j) == [status |-> "pending", ticket |-> minted + 1, seq |-> mem.next + 1,
                     config |-> job[j].config, attempts |-> job[j].attempts]

NewEntry(j) == [status |-> "pending", ticket |-> minted + 1, seq |-> mem.next,
                config |-> job[j].config, attempts |-> job[j].attempts]

(* Mutant of Enqueue: the sleeping worker is not woken.                    *)
EnqueueQuietly(j, retry) ==
  /\ Ready /\ Enqueueable(j, retry)
  /\ minted < MaxTickets /\ minted' = minted + 1
  /\ ApiSave([WithEntry(j, NewEntry(j)) EXCEPT !.next = @ + 1])
  /\ owed' = IF poison' THEN owed ELSE owed \cup {minted + 1}
  /\ UNCHANGED <<owner, worker, job, runs, withdrawn>>

Enqueue(j, retry) ==
  /\ Ready /\ Enqueueable(j, retry)
  /\ minted < MaxTickets /\ minted' = minted + 1
  /\ ApiSave([WithEntry(j, NewEntry(j)) EXCEPT !.next = @ + 1])
  /\ IF poison' THEN UNCHANGED <<wake, owed>>
                ELSE wake' = TRUE /\ owed' = owed \cup {minted + 1}
  /\ UNCHANGED <<phase, ctxDone, worker, job, runs, withdrawn>>

(* Enqueue, for a job that is pending: the same ticket is acknowledged.    *)
EnqueueAgain(j) ==
  /\ Ready /\ Status(j) = "pending"
  /\ owed' = owed \cup {Ticket(j)}
  /\ UNCHANGED <<mem, disk, poison, owner, worker, job, minted, runs, withdrawn>>

(* Cancel of a pending entry is durable; it also signals the worker if     *)
(* that is busy with the job.                                              *)
CancelPending(j) ==
  /\ Ready /\ Status(j) = "pending"
  /\ ApiSave(WithStatus(j, "cancelled"))
  /\ owed' = owed \ {Ticket(j)}
  /\ IF poison' THEN UNCHANGED <<withdrawn, late>>
     ELSE /\ withdrawn' = withdrawn \cup {Ticket(j)}
          /\ late' = (late \/ (Active /\ entry.job = j))
  /\ UNCHANGED <<owner, pc, entry, outcome, job, minted, runs>>

(* Cancel of a running entry only signals.                                 *)
CancelRunning(j) ==
  /\ Ready /\ Status(j) = "running"
  /\ Active /\ entry.job = j
  /\ late' = TRUE
  /\ UNCHANGED <<mem, disk, poison, owner, pc, entry, outcome, job, history>>

(* Cancel of an entry that was withdrawn already reports it once more.     *)
CancelAgain(j) ==
  /\ Ready /\ Status(j) = "cancelled" /\ runs[Ticket(j)] = 0
  /\ withdrawn' = withdrawn \cup {Ticket(j)}
  /\ UNCHANGED <<mem, disk, poison, owner, worker, job, minted, runs, owed>>

Cancel(j) == CancelPending(j) \/ CancelRunning(j) \/ CancelAgain(j)

(* forget: terminal entries only.                                          *)
Forget(j) ==
  /\ Ready /\ Status(j) \in Terminal
  /\ ApiSave(WithEntry(j, NoEntry))
  /\ UNCHANGED <<owner, worker, job, history>>

(* Delete: forget, then Store.Delete, in one critical section.  A delete   *)
(* whose second half fails is a Forget.  The store refuses while it runs.  *)
StoreBusy == pc = "running"

(* Mutant of Delete: the recording goes first, and its entry is kept.      *)
DeleteJobOnly(j) ==
  /\ Ready /\ ~StoreBusy
  /\ Status(j) \in Terminal \cup {"none"} /\ job[j].status # "absent"
  /\ job' = [job EXCEPT ![j].status = "deleted"]
  /\ UNCHANGED <<mem, disk, poison, owner, worker, history>>

Delete(j) ==
  /\ Ready /\ ~StoreBusy
  /\ \/ Status(j) \in Terminal /\ Saved(WithEntry(j, NoEntry))
     \/ Status(j) = "none" /\ UNCHANGED <<mem, disk>>
  /\ job[j].status \notin {"absent", "deleted"}
  /\ job' = [job EXCEPT ![j].status = "deleted"]
  /\ UNCHANGED <<poison, owner, worker, history>>

(* Store.Create and Store.Rebind, called by the owner of the store while   *)
(* the queue is at work.                                                   *)
Upload(j, c) ==
  /\ phase # "down" /\ ~StoreBusy
  /\ job[j].status = "absent"
  /\ job' = [job EXCEPT ![j] = [status |-> "queued", attempts |-> 0, config |-> c]]
  /\ UNCHANGED <<mem, disk, poison, owner, worker, history>>

Rebind(j, c) ==
  /\ phase # "down" /\ ~(StoreBusy /\ entry.job = j)
  /\ job[j].status \in {"failed", "cancelled"} /\ job[j].config # c
  /\ job' = [job EXCEPT ![j].config = c]
  /\ UNCHANGED <<mem, disk, poison, owner, worker, history>>

-----------------------------------------------------------------------------
(* Start authorises the one worker.                                        *)
Start ==
  /\ Ready /\ pc = "off"
  /\ pc' = "pick" /\ ctxDone' = FALSE
  /\ UNCHANGED <<mem, disk, poison, phase, wake, entry, late, outcome, job, history>>

(* The context given to Start ends: the worker leaves, the queue stays.    *)
StartContextEnds ==
  /\ phase # "down" /\ pc # "off" /\ ~ctxDone
  /\ ctxDone' = TRUE
  /\ UNCHANGED <<mem, disk, poison, phase, wake, worker, job, history>>

Shutdown ==
  /\ phase = "open"
  /\ phase' = "stopping" /\ ctxDone' = TRUE
  /\ UNCHANGED <<mem, disk, poison, wake, worker, job, history>>

(* What a process that ends leaves behind: nothing but the disk.           *)
MemoryLost ==
  /\ mem' = EmptyJournal /\ poison' = FALSE
  /\ phase' = "down" /\ ctxDone' = FALSE /\ wake' = FALSE
  /\ pc' = "off" /\ entry' = NoWork /\ late' = FALSE /\ outcome' = "failed"
  /\ UNCHANGED <<job, history>>

(* Close refuses until the worker is done.                                 *)
Close == phase # "down" /\ pc \in {"off", "done"} /\ MemoryLost /\ UNCHANGED disk

Kill == "kill" \in Crashes /\ phase # "down" /\ MemoryLost /\ UNCHANGED disk

(* Mutant of Interrupted: what was running is enqueued again as it is now. *)
InterruptedRequeued(j) ==
  [j EXCEPT !.at = [k \in Jobs |-> IF j.at[k].status = "running"
                                   THEN [j.at[k] EXCEPT !.status = "pending",
                                                        !.attempts = job[k].attempts]
                                   ELSE j.at[k]]]

(* OpenStore's recover and OpenQueue's open: what was running is           *)
(* interrupted, and the journal is saved again only if that changed it.    *)
Interrupted(j) ==
  [j EXCEPT !.at = [k \in Jobs |-> IF j.at[k].status = "running"
                                   THEN [j.at[k] EXCEPT !.status = "interrupted"]
                                   ELSE j.at[k]]]

(* The power may also fail while open saves.                               *)
PowerLoss ==
  /\ "power" \in Crashes
  /\ \/ file' \in possible
     \/ phase = "down" /\ file' = Interrupted(file)
  /\ possible' = {file'}
  /\ MemoryLost

Open ==
  /\ phase = "down"
  /\ job' = [j \in Jobs |-> IF job[j].status = "running"
                            THEN [job[j] EXCEPT !.status = "failed"] ELSE job[j]]
  /\ LET new == Interrupted(file)
     IN \/ /\ new = file
           /\ mem' = file /\ phase' = "open" /\ UNCHANGED disk
        \/ /\ new # file
           /\ Saved(new) /\ phase' = "open"
        \/ /\ new # file /\ ("sync" \in Faults \/ "kill" \in Crashes)
           /\ file' = new /\ possible' = possible \cup {new}
           /\ UNCHANGED <<mem, phase>>
  /\ UNCHANGED <<poison, ctxDone, wake, worker, history>>

-----------------------------------------------------------------------------
(* Mutant of First: any pending entry.                                     *)
FirstAny(j) == Status(j) = "pending"

(* work: the pending entry with the smallest sequence number.              *)
First(j) ==
  /\ Status(j) = "pending"
  /\ \A k \in Jobs : Status(k) = "pending" => mem.at[j].seq <= mem.at[k].seq

Pick ==
  /\ pc = "pick" /\ ~ctxDone /\ ~poison
  /\ \/ /\ \A j \in Jobs : Status(j) # "pending"
        /\ pc' = "asleep" /\ UNCHANGED <<entry, late>>
     \/ \E j \in Jobs :
          /\ First(j)
          /\ entry' = [job |-> j, ticket |-> Ticket(j), seq |-> mem.at[j].seq,
                       config |-> mem.at[j].config, attempts |-> mem.at[j].attempts]
          /\ late' = FALSE /\ pc' = "picked"
  /\ UNCHANGED <<mem, disk, poison, owner, outcome, job, history>>

(* Mutant of WorkerLeaves: the sleeping worker does not see its context.   *)
WorkerLeavesAwake ==
  /\ pc = "pick" /\ (ctxDone \/ poison)
  /\ pc' = "done"
  /\ UNCHANGED <<mem, disk, poison, owner, entry, late, outcome, job, history>>

WorkerLeaves ==
  /\ \/ pc = "pick" /\ (ctxDone \/ poison)
     \/ pc = "asleep" /\ ctxDone
  /\ pc' = "done"
  /\ UNCHANGED <<mem, disk, poison, owner, entry, late, outcome, job, history>>

WorkerWakes ==
  /\ pc = "asleep" /\ wake
  /\ wake' = FALSE /\ pc' = "pick"
  /\ UNCHANGED <<mem, disk, poison, phase, ctxDone, entry, late, outcome, job, history>>

(* The admission callback returns a release function, returns an error, or *)
(* panics.                                                                 *)
Admission ==
  /\ pc = "picked"
  /\ \/ pc' \in {"admitted", "refused"} /\ poison' = poison
     \/ "admission" \in Faults /\ pc' = "pick" /\ poison' = TRUE
  /\ UNCHANGED <<mem, disk, owner, entry, late, outcome, job, history>>

(* The entries that still carry the picked ticket with a given status.     *)
Holding(s) == {j \in Jobs : Ticket(j) = entry.ticket /\ Status(j) = s}

(* JobTimeout passes; admission counts.                                    *)
Timeout ==
  /\ Active /\ ~late
  /\ late' = TRUE
  /\ UNCHANGED <<mem, disk, poison, owner, pc, entry, outcome, job, history>>

(* finish(entry, QueueFailed, "admission_failed", true)                    *)
RecordRefusal ==
  /\ pc \in {"refused", "expired"}
  /\ pc' = IF pc = "refused" THEN "pick" ELSE "release"
  /\ \/ /\ poison \/ ctxDone \/ Holding("pending") = {}
        /\ UNCHANGED <<mem, disk, poison, owed>>
     \/ /\ ~poison /\ ~ctxDone
        /\ \E j \in Holding("pending") : WorkerSave(WithStatus(j, "failed"))
        /\ owed' = owed \ {entry.ticket}
  /\ UNCHANGED <<owner, entry, late, outcome, job, minted, runs, withdrawn>>

(* execute, after admission: the claim, if the ticket is still pending.    *)
Claim ==
  /\ pc = "admitted" /\ ~ctxDone /\ ~poison /\ ~late
  /\ \E j \in Holding("pending") :
       LET new == WithStatus(j, "running")
       IN \/ Saved(new) /\ poison' = poison /\ pc' = "claimed"
          \/ WorkerSaveFails(new) /\ pc' = "release"
  /\ owed' = owed \ {entry.ticket}
  /\ UNCHANGED <<owner, entry, late, outcome, job, minted, runs, withdrawn>>

NoClaim ==
  /\ pc = "admitted"
  /\ \/ (ctxDone \/ poison \/ Holding("pending") = {}) /\ pc' = "release"
     \/ ~ctxDone /\ ~poison /\ Holding("pending") # {} /\ late /\ pc' = "expired"
  /\ UNCHANGED <<mem, disk, poison, owner, entry, late, outcome, job, history>>

-----------------------------------------------------------------------------
RecordLater(s) == outcome' = s /\ pc' = "finish"

(* After the claim the job must still be the one that was enqueued, and    *)
(* Resolve must still give its plan.                                       *)
Unchanged ==
  LET m == job[entry.job]
  IN /\ m.config = entry.config /\ m.attempts = entry.attempts
     /\ m.status \in {"queued", "failed", "cancelled"}

Check ==
  /\ pc = "claimed"
  /\ \/ Unchanged /\ pc' = "checked" /\ outcome' = outcome
     \/ RecordLater("failed")
  /\ UNCHANGED <<mem, disk, poison, owner, entry, late, job, history>>

(* Mutant of StartRun: the configuration is not compared again.            *)
StartRunUnchecked ==
  /\ pc = "checked"
  /\ job[entry.job].status \in {"queued", "failed", "cancelled"}
  /\ job' = [job EXCEPT ![entry.job].status = "running", ![entry.job].attempts = @ + 1]
  /\ runs' = [runs EXCEPT ![entry.ticket] = @ + 1]
  /\ pc' = "running"
  /\ UNCHANGED <<mem, disk, poison, owner, entry, late, outcome, minted, owed, withdrawn>>

(* Store.Run up to its publication of Running.  It compares configurations *)
(* again, and may refuse for reasons of its own (released or corrupt media,*)
(* a context that is done).                                                *)
StartRun ==
  /\ pc = "checked"
  /\ job[entry.job].config = entry.config
  /\ job[entry.job].status \in {"queued", "failed", "cancelled"}
  /\ job' = [job EXCEPT ![entry.job].status = "running", ![entry.job].attempts = @ + 1]
  /\ runs' = [runs EXCEPT ![entry.ticket] = @ + 1]
  /\ pc' = "running"
  /\ UNCHANGED <<mem, disk, poison, owner, entry, late, outcome, minted, owed, withdrawn>>

RunRefused ==
  /\ pc = "checked"
  /\ \/ RecordLater("failed") /\ job' = job
     \/ (late \/ ctxDone) /\ RecordLater("cancelled") /\ job' = job
     \/ /\ "store" \in Faults /\ RecordLater("interrupted")
        /\ job' \in {job, [job EXCEPT ![entry.job].status = "running",
                                      ![entry.job].attempts = @ + 1]}
  /\ UNCHANGED <<mem, disk, poison, owner, entry, late, history>>

(* Store.Run returns: complete, failed, cancelled, or uncertain.           *)
EndRun ==
  /\ pc = "running"
  /\ \E s \in {"complete", "failed", "cancelled", "running"} :
       /\ job' = [job EXCEPT ![entry.job].status = s]
       /\ \/ s = "complete" /\ RecordLater("succeeded")
          \/ s = "failed" /\ RecordLater("failed")
          \/ s = "cancelled" /\ (late \/ ctxDone) /\ RecordLater("cancelled")
          \/ "store" \in Faults /\ RecordLater("interrupted")
  /\ UNCHANGED <<mem, disk, poison, owner, entry, late, history>>

(* finish(entry, status, code, false)                                      *)
Finish ==
  /\ pc = "finish"
  /\ pc' = IF outcome = "interrupted" THEN "uncertain" ELSE "release"
  /\ \/ /\ poison \/ Holding("running") = {}
        /\ UNCHANGED <<mem, disk, poison>>
     \/ /\ ~poison
        /\ \E j \in Holding("running") : WorkerSave(WithStatus(j, outcome))
  /\ UNCHANGED <<owner, entry, late, outcome, job, history>>

(* A job whose manifest is uncertain stops the queue, after its ticket was *)
(* recorded.                                                               *)
StopUncertain ==
  /\ pc = "uncertain"
  /\ poison' = TRUE /\ pc' = "release"
  /\ UNCHANGED <<mem, disk, owner, entry, late, outcome, job, history>>

(* The deferred release, and the end of the loop's turn.                   *)
Release ==
  /\ pc = "release"
  /\ pc' = "pick"
  /\ \/ poison' = poison
     \/ "admission" \in Faults /\ poison' = TRUE
  /\ UNCHANGED <<mem, disk, owner, entry, late, outcome, job, history>>

-----------------------------------------------------------------------------
Work == Pick \/ WorkerLeaves \/ WorkerWakes \/ Admission \/ RecordRefusal \/ Claim
        \/ NoClaim \/ Check \/ StartRun \/ RunRefused \/ EndRun \/ Finish
        \/ StopUncertain \/ Release

Call(j) ==
  \/ \E retry \in BOOLEAN : Enqueue(j, retry)
  \/ EnqueueAgain(j) \/ Cancel(j) \/ Forget(j) \/ Delete(j)
  \/ \E c \in Configs : Upload(j, c) \/ Rebind(j, c)

(* Where a directory sync cannot fail, a save that got no further than its *)
(* rename means that the process died there.                               *)
DiedInSave == phase # "down" /\ mem # file /\ "sync" \notin Faults

Next ==
  \/ /\ ~DiedInSave
     /\ \/ Work \/ Timeout
        \/ \E j \in Jobs : Call(j)
        \/ Start \/ StartContextEnds \/ Shutdown \/ Close
        \/ Open
  \/ Kill \/ PowerLoss

Spec == Init /\ [][Next]_vars

(* The scheduler runs the worker, and the callbacks it waits for return:   *)
(* "The callback and admission release must drain".                        *)
FairSpec == Spec /\ WF_vars(Work)

-----------------------------------------------------------------------------
(* open's own check: what any restart can find is a journal it accepts,    *)
(* with distinct tickets and distinct sequence numbers below next.         *)
Loadable(p) ==
  /\ \A j \in Jobs : p.at[j].status # "none" => p.at[j].seq \in 1..(p.next - 1)
  /\ \A j, k \in Jobs :
       p.at[j].status # "none" /\ p.at[k].status # "none" /\ j # k =>
         p.at[j].seq # p.at[k].seq /\ p.at[j].ticket # p.at[k].ticket

JournalsLoad == \A p \in possible : Loadable(p)

(* "never automatically retried": whatever dies, and however a save fails, *)
(* a ticket starts the stages of its job at most once.                     *)
AtMostOnce == \A t \in Tickets : runs[t] <= 1

(* "It never silently runs work whose durable claim is uncertain": while   *)
(* the worker has a claim, every journal a restart can find shows it.      *)
ClaimIsDurable ==
  pc \in {"claimed", "checked", "running"} =>
    \A p \in possible : \E j \in Jobs :
      p.at[j].ticket = entry.ticket /\ p.at[j].status = "running"

(* "Acknowledgement means intent is durable": a ticket Enqueue returned    *)
(* and nobody tried to change is pending in every journal a restart finds. *)
AcknowledgedIntentSurvives ==
  \A t \in owed, p \in IF "power" \in Crashes THEN possible ELSE {file} : \E j \in Jobs :
    p.at[j].ticket = t /\ p.at[j].status = "pending"

(* "Cancel durably withdraws pending work": it never runs, even if the     *)
(* worker had picked it, and even after a restart.                         *)
WithdrawnNeverRuns == \A t \in withdrawn : runs[t] = 0

(* A ticket recorded as succeeded has a complete recording behind it.      *)
SucceededIsComplete ==
  \A j \in Jobs : file.at[j].status = "succeeded" => job[j].status = "complete"

(* An entry shown as running is the one the worker is at, unless the queue *)
(* is poisoned: no ticket hangs in running.                                *)
RunningHasWorker ==
  \A j \in Jobs : phase # "down" /\ Status(j) = "running" =>
    \/ poison
    \/ pc \in {"claimed", "checked", "running", "finish"} /\ entry.ticket = Ticket(j)

(* What the queue tells about a ticket is so.                              *)
StatesAreTrue == SucceededIsComplete /\ RunningHasWorker

(* The stages that run belong to the configuration and the attempt the     *)
(* ticket was issued for, although the owner may rebind the recording at   *)
(* any time before.                                                        *)
RunsWhatWasEnqueued ==
  pc = "running" =>
    /\ job[entry.job].config = entry.config
    /\ job[entry.job].attempts = entry.attempts + 1

(* Tickets start in the order of their sequence numbers, whatever was      *)
(* cancelled, retried or enqueued since the worker picked.                 *)
ServedInOrder ==
  pc \in {"picked", "admitted", "claimed", "checked", "running"} =>
    \A j \in Jobs : Status(j) = "pending" => Ticket(j) = entry.ticket \/ mem.at[j].seq > entry.seq

(* A poisoned queue changes neither its memory nor its journal until it is *)
(* reopened.                                                               *)
PoisonFreezes ==
  [][poison /\ phase' # "down" => UNCHANGED <<mem, file, possible>>]_vars

(* An acknowledged ticket does not wait forever for a started worker that  *)
(* is neither shut down, poisoned nor killed.                              *)
PendingIsServed ==
  \A t \in Tickets :
    (t \in owed /\ pc # "off") ~> (t \notin owed \/ ctxDone \/ poison \/ phase = "down")

(* Shutdown's wait ends: the worker drains from wherever it was.           *)
ShutdownDrains ==
  (phase = "stopping" /\ pc # "off") ~> (pc = "done" \/ phase = "down")
=============================================================================
