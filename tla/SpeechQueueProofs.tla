------------------------- MODULE SpeechQueueProofs -------------------------
(***************************************************************************)
(* Proofs about SpeechQueue for any jobs, configurations, bounds, faults   *)
(* and crashes.                                                            *)
(***************************************************************************)
EXTENDS SpeechQueueTickets, TLAPS

Statuses == {"pending", "running"} \cup Terminal

-----------------------------------------------------------------------------
(* The journals that save is given have the type of a journal.             *)
LEMMA StatusType ==
  ASSUME mem \in Journals, NEW j \in Jobs, NEW s \in Statuses, Status(j) # "none"
  PROVE  WithStatus(j, s) \in Journals
<1>1. mem.at[j] \in FilledEntries
  BY DEF Journals, Entries, NoEntry, Status
<1>2. [mem.at[j] EXCEPT !.status = s] \in FilledEntries
  BY <1>1 DEF FilledEntries, Statuses
<1> QED
  BY <1>2 DEF WithStatus, Journals, Entries

(* A job with an entry carries a ticket that may be minted.                *)
LEMMA TicketType ==
  ASSUME mem \in Journals, NEW j \in Jobs, Status(j) # "none"
  PROVE  Ticket(j) \in Tickets
BY DEF Journals, Entries, FilledEntries, NoEntry, Status, Ticket

(* A journal stays one when an entry of a job is replaced.                 *)
LEMMA EntryType ==
  ASSUME mem \in Journals, NEW j \in Jobs, NEW e \in Entries
  PROVE  WithEntry(j, e) \in Journals
BY DEF WithEntry, Journals

(* An absent entry is an entry.                                            *)
LEMMA NoEntryType == NoEntry \in Entries
BY DEF Entries

(* What Enqueue makes is an entry, and the journal with it a journal.      *)
LEMMA NewEntryType ==
  ASSUME TypeOK, NEW j \in Jobs, minted < MaxTickets
  PROVE  /\ NewEntry(j) \in Entries
         /\ [WithEntry(j, NewEntry(j)) EXCEPT !.next = @ + 1] \in Journals
<1>1. NewEntry(j) \in Entries
  <2>1. minted + 1 \in Tickets
    BY QueueAssumption DEF TypeOK, Tickets
  <2> QED
    BY <2>1 DEF TypeOK, NewEntry, Entries, FilledEntries, Journals, Manifests
<1>2. WithEntry(j, NewEntry(j)) \in Journals
  BY <1>1, EntryType DEF TypeOK
<1> QED
  BY <1>1, <1>2 DEF Journals

(* What open makes of a journal is a journal.                              *)
LEMMA InterruptedType ==
  ASSUME NEW p \in Journals
  PROVE  Interrupted(p) \in Journals
<1>1. ASSUME NEW k \in Jobs, p.at[k].status = "running"
      PROVE  [p.at[k] EXCEPT !.status = "interrupted"] \in Entries
  <2>1. p.at[k] \in FilledEntries
    BY <1>1 DEF Journals, Entries, NoEntry
  <2> QED
    BY <2>1 DEF Entries, FilledEntries, Terminal
<1> QED
  BY <1>1 DEF Interrupted, Journals

(* The journal of a new queue directory is a journal.                      *)
LEMMA EmptyType == EmptyJournal \in Journals
BY NoEntryType DEF EmptyJournal, Journals

(* The idle worker holds a well-typed copy.                                *)
LEMMA NoWorkType == NoWork \in WorkEntries
<1>1. NoEntry.config \in Configs /\ (CHOOSE j \in Jobs : TRUE) \in Jobs
  BY QueueAssumption DEF NoEntry
<1> QED
  BY <1>1, QueueAssumption DEF NoWork, WorkEntries

(* Every way a save can end leaves memory and disk well typed.             *)
LEMMA SaveTypes ==
  ASSUME TypeOK, NEW new \in Journals, ApiSave(new) \/ WorkerSave(new)
  PROVE  mem' \in Journals /\ file' \in Journals /\ possible' \subseteq Journals
         /\ poison' \in BOOLEAN
BY DEF TypeOK, ApiSave, WorkerSave, WorkerSaveFails, Saved, NotSaved, Uncertain

(* A process that ends leaves well-typed state.                            *)
LEMMA MemoryLostTypes ==
  ASSUME TypeOK, MemoryLost, file' \in Journals, possible' \subseteq Journals
  PROVE  TypeOK'
BY EmptyType, NoWorkType DEF MemoryLost, TypeOK, history, Terminal, WorkerPCs

-----------------------------------------------------------------------------
(* Type correctness of every reachable state.                              *)
LEMMA InitType == Init => TypeOK
<1> SUFFICES ASSUME Init PROVE TypeOK
  OBVIOUS
<1>1. minted \in 0..MaxTickets /\ NoEntry.config \in Configs
  BY QueueAssumption DEF Init, NoEntry
<1>2. job \in [Jobs -> Manifests]
  BY <1>1 DEF Init, Manifests
<1> QED
  BY <1>1, <1>2, EmptyType, NoWorkType DEF Init, TypeOK, Terminal, WorkerPCs, Tickets

(* API calls keep the types.                                               *)
LEMMA CallType == ASSUME TypeOK, NEW j \in Jobs, Call(j) PROVE TypeOK'
<1> USE DEF owner, worker, history, disk
<1>1. ASSUME NEW retry \in BOOLEAN, Enqueue(j, retry) PROVE TypeOK'
  <2>1. [WithEntry(j, NewEntry(j)) EXCEPT !.next = @ + 1] \in Journals
    BY <1>1, NewEntryType DEF Enqueue
  <2>2. mem' \in Journals /\ file' \in Journals /\ possible' \subseteq Journals
        /\ poison' \in BOOLEAN
    BY <1>1, <2>1, SaveTypes DEF Enqueue
  <2>3. minted' \in 0..MaxTickets /\ minted + 1 \in Tickets
    BY <1>1, QueueAssumption DEF Enqueue, TypeOK, Tickets
  <2> QED
    BY <1>1, <2>2, <2>3 DEF Enqueue, TypeOK
<1>2. ASSUME EnqueueAgain(j) PROVE TypeOK'
  BY <1>2, TicketType DEF EnqueueAgain, TypeOK
<1>3. ASSUME CancelPending(j) PROVE TypeOK'
  <2>1. WithStatus(j, "cancelled") \in Journals
    BY <1>3, StatusType DEF CancelPending, TypeOK, Statuses, Terminal
  <2>2. mem' \in Journals /\ file' \in Journals /\ possible' \subseteq Journals
        /\ poison' \in BOOLEAN
    BY <1>3, <2>1, SaveTypes DEF CancelPending
  <2>3. Ticket(j) \in Tickets
    BY <1>3, TicketType DEF CancelPending, TypeOK
  <2>4. owed' \subseteq Tickets /\ withdrawn' \subseteq Tickets /\ late' \in BOOLEAN
    BY <1>3, <2>3 DEF CancelPending, TypeOK
  <2> QED
    BY <1>3, <2>2, <2>4 DEF CancelPending, TypeOK
<1>4. ASSUME CancelRunning(j) PROVE TypeOK'
  BY <1>4 DEF CancelRunning, TypeOK
<1>5. ASSUME CancelAgain(j) PROVE TypeOK'
  BY <1>5, TicketType DEF CancelAgain, TypeOK
<1>6. ASSUME Forget(j) PROVE TypeOK'
  BY <1>6, EntryType, NoEntryType, SaveTypes DEF Forget, TypeOK
<1>7. ASSUME Delete(j) PROVE TypeOK'
  BY <1>7, EntryType, NoEntryType DEF Delete, Saved, TypeOK, Manifests
<1>8. ASSUME NEW c \in Configs, Upload(j, c) PROVE TypeOK'
  BY <1>8 DEF Upload, TypeOK, Manifests
<1>9. ASSUME NEW c \in Configs, Rebind(j, c) PROVE TypeOK'
  BY <1>9 DEF Rebind, TypeOK, Manifests
<1> QED
  BY <1>1, <1>2, <1>3, <1>4, <1>5, <1>6, <1>7, <1>8, <1>9 DEF Call, Cancel

(* The owner's calls, crashes and restarts keep the types.                 *)
LEMMA OwnerType ==
  ASSUME TypeOK, Start \/ StartContextEnds \/ Shutdown \/ Close \/ Kill \/ PowerLoss \/ Open
  PROVE  TypeOK'
<1> USE DEF owner, worker, history, disk
<1>1. CASE Start
  BY <1>1 DEF Start, TypeOK, WorkerPCs
<1>2. CASE StartContextEnds
  BY <1>2 DEF StartContextEnds, TypeOK
<1>3. CASE Shutdown
  BY <1>3 DEF Shutdown, TypeOK
<1>4. CASE Close \/ Kill
  <2>1. file' \in Journals /\ possible' \subseteq Journals /\ MemoryLost
    BY <1>4 DEF Close, Kill, TypeOK
  <2> QED
    BY <2>1, MemoryLostTypes
<1>5. CASE PowerLoss
  <2>1. file' \in Journals /\ possible' \subseteq Journals /\ MemoryLost
    BY <1>5, InterruptedType DEF PowerLoss, TypeOK
  <2> QED
    BY <2>1, MemoryLostTypes
<1>6. CASE Open
  <2>1. Interrupted(file) \in Journals
    BY InterruptedType DEF TypeOK
  <2>2. mem' \in Journals /\ file' \in Journals /\ possible' \subseteq Journals
        /\ phase' \in {"down", "open", "stopping"}
    BY <1>6, <2>1 DEF Open, Saved, TypeOK
  <2>3. job' \in [Jobs -> Manifests]
    BY <1>6 DEF Open, TypeOK, Manifests
  <2> QED
    BY <1>6, <2>2, <2>3 DEF Open, TypeOK
<1> QED
  BY <1>1, <1>2, <1>3, <1>4, <1>5, <1>6

(* The steps of the worker keep the types.                                 *)
LEMMA WorkType == ASSUME TypeOK, Work \/ Timeout PROVE TypeOK'
<1> USE DEF owner, worker, history, disk
<1>1. CASE Pick
  <2>1. ASSUME NEW j \in Jobs
        PROVE  [job |-> j, ticket |-> Ticket(j), seq |-> mem.at[j].seq,
                config |-> mem.at[j].config, attempts |-> mem.at[j].attempts] \in WorkEntries
    <3>1. mem.at[j] \in Entries /\ NoEntry.config \in Configs
      BY QueueAssumption DEF TypeOK, Journals, NoEntry
    <3>2. Ticket(j) \in 0..MaxTickets
      BY <3>1, QueueAssumption DEF Entries, FilledEntries, NoEntry, Ticket, Tickets
    <3>3. mem.at[j].seq \in Nat /\ mem.at[j].config \in Configs /\ mem.at[j].attempts \in Nat
      BY <3>1 DEF Entries, FilledEntries, NoEntry
    <3> QED
      BY <3>2, <3>3 DEF WorkEntries
  <2> QED
    BY <1>1, <2>1 DEF Pick, TypeOK, WorkerPCs
<1>2. CASE WorkerLeaves \/ WorkerWakes \/ Admission \/ NoClaim \/ Timeout
  <2>1. CASE WorkerLeaves \/ WorkerWakes
    BY <2>1 DEF WorkerLeaves, WorkerWakes, TypeOK, WorkerPCs
  <2>2. CASE Admission \/ NoClaim
    BY <2>2 DEF Admission, NoClaim, TypeOK, WorkerPCs
  <2>3. CASE Timeout
    BY <2>3 DEF Timeout, TypeOK, WorkerPCs
  <2> QED
    BY <1>2, <2>1, <2>2, <2>3
<1>3. CASE RecordRefusal
  <2>1. ASSUME NEW j \in Holding("pending") PROVE WithStatus(j, "failed") \in Journals
    BY StatusType DEF Holding, TypeOK, Statuses, Terminal
  <2>2. mem' \in Journals /\ file' \in Journals /\ possible' \subseteq Journals
        /\ poison' \in BOOLEAN
    BY <1>3, <2>1, SaveTypes DEF RecordRefusal, TypeOK
  <2> QED
    BY <1>3, <2>2 DEF RecordRefusal, TypeOK, WorkerPCs
<1>4. CASE Claim
  <2>1. ASSUME NEW j \in Holding("pending") PROVE WithStatus(j, "running") \in Journals
    BY StatusType DEF Holding, TypeOK, Statuses, Terminal
  <2>2. mem' \in Journals /\ file' \in Journals /\ possible' \subseteq Journals
        /\ poison' \in BOOLEAN
    BY <1>4, <2>1, SaveTypes DEF Claim, WorkerSave, TypeOK
  <2> QED
    BY <1>4, <2>2 DEF Claim, TypeOK, WorkerPCs
<1>5. CASE Check
  BY <1>5 DEF Check, RecordLater, TypeOK, WorkerPCs, Terminal
<1>6. CASE StartRun
  <2>1. job' \in [Jobs -> Manifests]
    BY <1>6 DEF StartRun, TypeOK, Manifests, WorkEntries
  <2>2. runs' \in [Tickets -> Nat]
    <3>1. runs \in [Tickets -> Nat] /\ runs' = [runs EXCEPT ![entry.ticket] = @ + 1]
      BY <1>6 DEF StartRun, TypeOK
    <3>2. CASE entry.ticket \in Tickets
      BY <3>1, <3>2
    <3>3. CASE entry.ticket \notin Tickets
      BY <3>1, <3>3
    <3> QED
      BY <3>2, <3>3
  <2> QED
    BY <1>6, <2>1, <2>2 DEF StartRun, TypeOK, WorkerPCs
<1>7. CASE RunRefused
  <2>1. job' \in [Jobs -> Manifests]
    BY <1>7 DEF RunRefused, TypeOK, Manifests, WorkEntries
  <2> QED
    BY <1>7, <2>1 DEF RunRefused, RecordLater, TypeOK, WorkerPCs, Terminal
<1>8. CASE EndRun
  <2>1. job' \in [Jobs -> Manifests]
    BY <1>8 DEF EndRun, TypeOK, Manifests, WorkEntries
  <2> QED
    BY <1>8, <2>1 DEF EndRun, RecordLater, TypeOK, WorkerPCs, Terminal
<1>9. CASE Finish
  <2>1. ASSUME NEW j \in Holding("running") PROVE WithStatus(j, outcome) \in Journals
    BY StatusType DEF Holding, TypeOK, Statuses, Terminal
  <2>2. mem' \in Journals /\ file' \in Journals /\ possible' \subseteq Journals
        /\ poison' \in BOOLEAN
    BY <1>9, <2>1, SaveTypes DEF Finish, TypeOK
  <2> QED
    BY <1>9, <2>2 DEF Finish, TypeOK, WorkerPCs
<1>10. CASE StopUncertain \/ Release
  BY <1>10 DEF StopUncertain, Release, TypeOK, WorkerPCs
<1> QED
  BY <1>1, <1>2, <1>3, <1>4, <1>5, <1>6, <1>7, <1>8, <1>9, <1>10 DEF Work

(* Every reachable state of the queue, its journal on disk included, has   *)
(* the declared type.                                                      *)
THEOREM TypeCorrect == Spec => []TypeOK
<1>1. TypeOK /\ [Next]_vars => TypeOK'
  <2> SUFFICES ASSUME TypeOK, [Next]_vars PROVE TypeOK'
    OBVIOUS
  <2>1. CASE UNCHANGED vars
    BY <2>1 DEF vars, TypeOK
  <2>2. CASE Next
    BY <2>2, CallType, OwnerType, WorkType DEF Next
  <2> QED
    BY <2>1, <2>2
<1> QED
  BY <1>1, InitType, PTL DEF Spec
-----------------------------------------------------------------------------
(* The inductive invariant.  AtMostOnce needs that no journal a restart    *)
(* can find shows a ticket that ran as pending, and this needs that such   *)
(* journals know only minted tickets, each once; the disk is tied to the   *)
(* memory because every new journal is made from the memory.               *)
DiskSound ==
  /\ file \in possible
  /\ phase # "down" => mem \in possible
  /\ phase = "down" => pc = "off"

Backed(p, m, r) ==
  \A j \in Jobs : p.at[j].status # "none" =>
    /\ p.at[j].ticket <= m
    /\ p.at[j].status = "pending" => r[p.at[j].ticket] = 0

TicketsBacked == \A p \in possible : Backed(p, minted, runs)

NextPositive == \A p \in possible : p.next >= 1

RunsMinted == \A t \in Tickets : runs[t] > 0 => t <= minted

ClaimFresh ==
  pc \in {"claimed", "checked"} => entry.ticket \in Tickets /\ runs[entry.ticket] = 0

IInv ==
  /\ TypeOK
  /\ DiskSound
  /\ JournalsLoad
  /\ TicketsBacked
  /\ AtMostOnce
  /\ RunsMinted
  /\ NextPositive
  /\ ClaimIsDurable
  /\ ClaimFresh

(* The parts that do not speak of the worker.                              *)
Sound == DiskSound /\ JournalsLoad /\ TicketsBacked /\ AtMostOnce /\ RunsMinted
         /\ NextPositive

(* A journal made from the memory in which no entry became pending.        *)
Derived(new) ==
  /\ Loadable(new) /\ new.next = mem.next
  /\ \A k \in Jobs : new.at[k].status # "none" =>
       /\ mem.at[k].status # "none"
       /\ new.at[k].ticket = mem.at[k].ticket
       /\ new.at[k].status = "pending" => mem.at[k].status = "pending"

(* A change of one status that is not to pending derives a journal.        *)
LEMMA StatusDerived ==
  ASSUME mem \in Journals, Loadable(mem), NEW j \in Jobs, NEW s \in Statuses \ {"pending"},
         Status(j) # "none"
  PROVE  /\ Derived(WithStatus(j, s))
         /\ \A k \in Jobs \ {j} : WithStatus(j, s).at[k] = mem.at[k]
         /\ WithStatus(j, s).at[j].ticket = Ticket(j)
         /\ WithStatus(j, s).at[j].status = s
<1> DEFINE w == WithStatus(j, s)
<1>1. /\ w.next = mem.next
      /\ w.at[j].status = s /\ w.at[j].ticket = mem.at[j].ticket /\ w.at[j].seq = mem.at[j].seq
      /\ \A k \in Jobs \ {j} : w.at[k] = mem.at[k]
  <2>1. mem.at[j] \in FilledEntries
    BY DEF Journals, Entries, NoEntry, Status
  <2>2. w.next = mem.next /\ w.at = [mem.at EXCEPT ![j] = [mem.at[j] EXCEPT !.status = s]]
    BY DEF WithStatus, Journals
  <2> QED
    BY <2>1, <2>2 DEF Journals, FilledEntries
<1>2. Loadable(w)
  BY <1>1 DEF Loadable, Status
<1> QED
  BY <1>1, <1>2 DEF Derived, Status, Ticket, Statuses, Terminal

(* Removing the entry of a job derives a journal.                          *)
LEMMA ForgetDerived ==
  ASSUME mem \in Journals, Loadable(mem), NEW j \in Jobs
  PROVE  /\ Derived(WithEntry(j, NoEntry))
         /\ \A k \in Jobs \ {j} : WithEntry(j, NoEntry).at[k] = mem.at[k]
<1> DEFINE w == WithEntry(j, NoEntry)
<1>1. w.next = mem.next /\ w.at[j] = NoEntry /\ \A k \in Jobs \ {j} : w.at[k] = mem.at[k]
  BY DEF WithEntry, Journals
<1>2. w.at[j].status = "none"
  BY <1>1 DEF NoEntry
<1>3. Loadable(w)
  BY <1>1, <1>2 DEF Loadable
<1> QED
  BY <1>1, <1>2, <1>3 DEF Derived

(* A save of a derived journal keeps whatever does not speak of the worker.*)
LEMMA DerivedSound ==
  ASSUME IInv, phase # "down", phase' = phase, NEW new \in Journals, Derived(new),
         ApiSave(new) \/ WorkerSave(new), UNCHANGED <<minted, runs>>
  PROVE  /\ Sound'
         /\ \A p \in possible' : p \in possible \/ p = new
<1>1. /\ file' \in possible' /\ mem' \in possible'
      /\ \A p \in possible' : p \in possible \/ p = new
  BY DEF IInv, DiskSound, ApiSave, WorkerSave, WorkerSaveFails, Saved, NotSaved, Uncertain
<1>2. mem \in possible /\ mem \in Journals
  BY DEF IInv, DiskSound, TypeOK
<1>3. Backed(new, minted, runs)
  BY <1>2 DEF IInv, TicketsBacked, Backed, Derived
<1>4. JournalsLoad'
  BY <1>1 DEF IInv, JournalsLoad, Loadable, Derived
<1>5. TicketsBacked'
  BY <1>1, <1>3 DEF IInv, TicketsBacked, Backed
<1> QED
  BY <1>1, <1>2, <1>4, <1>5
     DEF IInv, Sound, DiskSound, AtMostOnce, RunsMinted, NextPositive, Derived
(* What open makes of a sound journal is sound.                            *)
LEMMA InterruptedSound ==
  ASSUME NEW p \in Journals, Loadable(p), Backed(p, minted, runs)
  PROVE  Loadable(Interrupted(p)) /\ Backed(Interrupted(p), minted, runs)
<1> DEFINE w == Interrupted(p)
<1>1. /\ w.next = p.next
      /\ \A k \in Jobs : /\ w.at[k].ticket = p.at[k].ticket
                         /\ w.at[k].seq = p.at[k].seq
                         /\ w.at[k].status = IF p.at[k].status = "running" THEN "interrupted"
                                             ELSE p.at[k].status
  <2>1. w.next = p.next
    BY DEF Interrupted, Journals
  <2>2. ASSUME NEW k \in Jobs
        PROVE  /\ w.at[k].ticket = p.at[k].ticket
               /\ w.at[k].seq = p.at[k].seq
               /\ w.at[k].status = IF p.at[k].status = "running" THEN "interrupted"
                                   ELSE p.at[k].status
    <3>1. w.at[k] = IF p.at[k].status = "running"
                    THEN [p.at[k] EXCEPT !.status = "interrupted"] ELSE p.at[k]
      BY DEF Interrupted, Journals
    <3>2. CASE p.at[k].status = "running"
      <4>1. p.at[k] \in FilledEntries
        BY <3>2 DEF Journals, Entries, NoEntry
      <4> QED
        BY <3>1, <3>2, <4>1 DEF FilledEntries
    <3>3. CASE p.at[k].status # "running"
      BY <3>1, <3>3
    <3> QED
      BY <3>2, <3>3
  <2> QED
    BY <2>1, <2>2
<1> QED
  BY <1>1 DEF Loadable, Backed

-----------------------------------------------------------------------------
(* API calls.                                                              *)
LEMMA EnqueueInv ==
  ASSUME IInv, NEW j \in Jobs, NEW retry \in BOOLEAN, Enqueue(j, retry)
  PROVE  Sound' /\ ClaimIsDurable' /\ ClaimFresh'
<1> DEFINE new == [WithEntry(j, NewEntry(j)) EXCEPT !.next = @ + 1]
<1>1. /\ mem \in Journals /\ mem \in possible /\ Loadable(mem) /\ Backed(mem, minted, runs)
      /\ phase # "down" /\ phase' = phase /\ pc' = pc /\ entry' = entry /\ runs' = runs
      /\ Status(j) \in {"none"} \cup Terminal
      /\ minted \in Nat /\ minted + 1 \in Tickets /\ minted' = minted + 1
  BY QueueAssumption DEF IInv, DiskSound, JournalsLoad, TicketsBacked, TypeOK, Tickets,
     Enqueue, Enqueueable, Ready, worker, owner
<1>2. /\ new.next = mem.next + 1
      /\ new.at[j].status = "pending" /\ new.at[j].ticket = minted + 1
      /\ new.at[j].seq = mem.next
      /\ \A k \in Jobs \ {j} : new.at[k] = mem.at[k]
  <2>1. WithEntry(j, NewEntry(j)) = [mem EXCEPT !.at = [mem.at EXCEPT ![j] = NewEntry(j)]]
    BY DEF WithEntry
  <2>2. new.next = mem.next + 1 /\ new.at = [mem.at EXCEPT ![j] = NewEntry(j)]
    BY <1>1, <2>1 DEF Journals
  <2>3. new.at[j] = NewEntry(j) /\ \A k \in Jobs \ {j} : new.at[k] = mem.at[k]
    BY <1>1, <2>2 DEF Journals
  <2> QED
    BY <2>2, <2>3 DEF NewEntry
<1> HIDE DEF new
<1>3. /\ file' \in possible' /\ mem' \in possible'
      /\ \A p \in possible' : p \in possible \/ p = new
  BY <1>1 DEF IInv, DiskSound, Enqueue, ApiSave, Saved, Uncertain, new
<1>4. Loadable(new)
  <2>1. mem.next \in Nat /\ \A k \in Jobs : mem.at[k].seq \in Nat
    BY <1>1 DEF Journals, Entries, FilledEntries, NoEntry
  <2>2. \A k \in Jobs : mem.at[k].status # "none" =>
          mem.at[k].seq \in 1..(mem.next - 1) /\ mem.at[k].ticket <= minted
    BY <1>1 DEF Loadable, Backed
  <2>3. 1 <= mem.next
    BY <1>1, <2>1 DEF IInv, NextPositive, new
  <2> QED
    BY <1>1, <1>2, <2>1, <2>2, <2>3 DEF Loadable
<1>5. runs[minted + 1] = 0
  BY <1>1 DEF IInv, RunsMinted, TypeOK
<1>6. \A p \in possible' : Backed(p, minted', runs')
  <2>1. Backed(new, minted', runs')
    <3>1. \A k \in Jobs : mem.at[k].ticket \in Nat
      BY <1>1, QueueAssumption DEF Journals, Entries, FilledEntries, NoEntry, Tickets
    <3> QED
      BY <1>1, <1>2, <1>5, <3>1 DEF Backed
  <2>2. ASSUME NEW p \in possible PROVE Backed(p, minted', runs')
    <3>1. \A k \in Jobs : p.at[k].status # "none" => p.at[k].ticket \in Nat
      BY QueueAssumption DEF IInv, TypeOK, Journals, Entries, FilledEntries, NoEntry, Tickets
    <3> QED
      BY <1>1, <3>1 DEF IInv, TicketsBacked, Backed
  <2> QED
    BY <1>3, <2>1, <2>2
<1>7. ClaimIsDurable'
  <2> SUFFICES ASSUME pc \in {"claimed", "checked", "running"}, NEW p \in possible'
               PROVE  \E k \in Jobs : p.at[k].ticket = entry.ticket /\ p.at[k].status = "running"
    BY <1>1 DEF ClaimIsDurable
  <2>1. PICK k \in Jobs : mem.at[k].ticket = entry.ticket /\ mem.at[k].status = "running"
    BY <1>1 DEF IInv, ClaimIsDurable
  <2>2. new.at[k] = mem.at[k]
    BY <1>1, <1>2, <2>1 DEF Status, Terminal
  <2> QED
    BY <1>3, <2>1, <2>2 DEF IInv, ClaimIsDurable
<1>8. DiskSound' /\ AtMostOnce' /\ ClaimFresh'
  BY <1>1, <1>3 DEF IInv, DiskSound, AtMostOnce, ClaimFresh
<1>9. JournalsLoad'
  BY <1>3, <1>4 DEF IInv, JournalsLoad, Loadable
<1>10. RunsMinted'
  BY <1>1, QueueAssumption DEF IInv, RunsMinted, TypeOK, Tickets
<1>11. NextPositive'
  BY <1>1, <1>2, <1>3 DEF IInv, NextPositive, Journals
<1> QED
  BY <1>6, <1>7, <1>8, <1>9, <1>10, <1>11 DEF Sound, TicketsBacked

(* API calls keep the invariant.                                           *)
LEMMA CallInv ==
  ASSUME IInv, NEW j \in Jobs, Call(j)
  PROVE  Sound' /\ ClaimIsDurable' /\ ClaimFresh'
<1> USE DEF owner, worker, history, disk
<1>a. mem \in Journals
  BY DEF IInv, TypeOK
<1>b. phase # "down" => mem \in possible /\ Loadable(mem)
  BY DEF IInv, DiskSound, JournalsLoad
<1>1. ASSUME NEW retry \in BOOLEAN, Enqueue(j, retry) PROVE Sound' /\ ClaimIsDurable' /\ ClaimFresh'
  BY <1>1, EnqueueInv
(* A save that replaces the entry of j, which is not running.              *)
<1>2. ASSUME NEW new \in Journals, Derived(new), \A k \in Jobs \ {j} : new.at[k] = mem.at[k],
             phase # "down", Status(j) # "running", ApiSave(new),
             UNCHANGED <<minted, runs, phase, pc, entry>>
      PROVE  Sound' /\ ClaimIsDurable' /\ ClaimFresh'
  <2>1. Sound' /\ \A p \in possible' : p \in possible \/ p = new
    BY <1>2, DerivedSound
  <2>2. ClaimIsDurable'
    <3> SUFFICES ASSUME pc \in {"claimed", "checked", "running"}, NEW p \in possible'
                 PROVE  \E k \in Jobs : p.at[k].ticket = entry.ticket /\ p.at[k].status = "running"
      BY <1>2 DEF ClaimIsDurable
    <3>1. PICK k \in Jobs : mem.at[k].ticket = entry.ticket /\ mem.at[k].status = "running"
      BY <1>2, <1>b DEF IInv, ClaimIsDurable
    <3>2. new.at[k] = mem.at[k]
      BY <1>2, <3>1 DEF Status
    <3> QED
      BY <2>1, <3>1, <3>2 DEF IInv, ClaimIsDurable
  <2> QED
    BY <1>2, <2>1, <2>2 DEF IInv, ClaimFresh
<1>3. ASSUME EnqueueAgain(j) \/ CancelRunning(j) \/ CancelAgain(j)
             \/ \E c \in Configs : Upload(j, c) \/ Rebind(j, c)
      PROVE  Sound' /\ ClaimIsDurable' /\ ClaimFresh'
  <2>1. UNCHANGED <<mem, file, possible, phase, pc, entry, minted, runs>>
    BY <1>3 DEF EnqueueAgain, CancelRunning, CancelAgain, Upload, Rebind
  <2> QED
    BY <2>1 DEF IInv, Sound, DiskSound, JournalsLoad, Loadable, TicketsBacked, AtMostOnce,
                RunsMinted, NextPositive, ClaimIsDurable, ClaimFresh
<1>4. ASSUME CancelPending(j) PROVE Sound' /\ ClaimIsDurable' /\ ClaimFresh'
  <2>1. Status(j) = "pending" /\ phase # "down" /\ "cancelled" \in Statuses \ {"pending"}
    BY <1>4 DEF CancelPending, Ready, Statuses, Terminal
  <2>2. WithStatus(j, "cancelled") \in Journals
    BY <1>a, <2>1, StatusType
  <2>3. /\ Derived(WithStatus(j, "cancelled"))
        /\ \A k \in Jobs \ {j} : WithStatus(j, "cancelled").at[k] = mem.at[k]
    BY <1>a, <1>b, <2>1, StatusDerived
  <2> QED
    BY <1>2, <1>4, <2>1, <2>2, <2>3 DEF CancelPending
<1>5. ASSUME Forget(j) PROVE Sound' /\ ClaimIsDurable' /\ ClaimFresh'
  <2>1. Status(j) # "running" /\ phase # "down"
    BY <1>5 DEF Forget, Ready, Terminal
  <2>2. WithEntry(j, NoEntry) \in Journals
    BY <1>a, EntryType, NoEntryType
  <2>3. /\ Derived(WithEntry(j, NoEntry))
        /\ \A k \in Jobs \ {j} : WithEntry(j, NoEntry).at[k] = mem.at[k]
    BY <1>a, <1>b, <2>1, ForgetDerived
  <2> QED
    BY <1>2, <1>5, <2>1, <2>2, <2>3 DEF Forget
<1>6. ASSUME Delete(j) PROVE Sound' /\ ClaimIsDurable' /\ ClaimFresh'
  <2>1. CASE Status(j) \in Terminal /\ Saved(WithEntry(j, NoEntry))
    <3>1. Status(j) # "running" /\ phase # "down" /\ ApiSave(WithEntry(j, NoEntry))
      BY <1>6, <2>1 DEF Delete, Ready, Terminal, ApiSave
    <3>2. WithEntry(j, NoEntry) \in Journals
      BY <1>a, EntryType, NoEntryType
    <3>3. /\ Derived(WithEntry(j, NoEntry))
          /\ \A k \in Jobs \ {j} : WithEntry(j, NoEntry).at[k] = mem.at[k]
      BY <1>a, <1>b, <3>1, ForgetDerived
    <3> QED
      BY <1>2, <1>6, <3>1, <3>2, <3>3 DEF Delete
  <2>2. CASE UNCHANGED <<mem, disk>>
    <3>1. UNCHANGED <<mem, file, possible, phase, pc, entry, minted, runs>>
      BY <1>6, <2>2 DEF Delete
    <3> QED
      BY <3>1 DEF IInv, Sound, DiskSound, JournalsLoad, Loadable, TicketsBacked, AtMostOnce,
                  RunsMinted, NextPositive, ClaimIsDurable, ClaimFresh
  <2> QED
    BY <1>6, <2>1, <2>2 DEF Delete
<1> QED
  BY <1>1, <1>3, <1>4, <1>5, <1>6 DEF Call, Cancel

-----------------------------------------------------------------------------
(* The owner, crashes and restarts.                                        *)
LEMMA OwnerInv ==
  ASSUME IInv, Start \/ StartContextEnds \/ Shutdown \/ Close \/ Kill \/ PowerLoss \/ Open
  PROVE  Sound' /\ ClaimIsDurable' /\ ClaimFresh'
<1> USE DEF owner, worker, history, disk
<1>a. /\ Interrupted(file) \in Journals /\ Loadable(Interrupted(file))
      /\ Backed(Interrupted(file), minted, runs) /\ Interrupted(file).next = file.next
  <2>1. file \in Journals /\ Loadable(file) /\ Backed(file, minted, runs)
    BY DEF IInv, DiskSound, JournalsLoad, TicketsBacked, TypeOK
  <2> QED
    BY <2>1, InterruptedSound, InterruptedType DEF Interrupted, Journals
<1>1. CASE Start
  BY <1>1 DEF Start, Ready, IInv, Sound, DiskSound, JournalsLoad, Loadable, TicketsBacked,
              AtMostOnce, RunsMinted, NextPositive, ClaimIsDurable, ClaimFresh
<1>2. CASE StartContextEnds \/ Shutdown
  BY <1>2 DEF StartContextEnds, Shutdown, IInv, Sound, DiskSound, JournalsLoad, Loadable,
              TicketsBacked, AtMostOnce, RunsMinted, NextPositive, ClaimIsDurable, ClaimFresh
<1>3. CASE Close \/ Kill
  BY <1>3 DEF Close, Kill, MemoryLost, IInv, Sound, DiskSound, JournalsLoad, Loadable,
              TicketsBacked, AtMostOnce, RunsMinted, NextPositive, ClaimIsDurable, ClaimFresh
<1>4. CASE PowerLoss
  <2>1. /\ possible' = {file'} /\ phase' = "down" /\ pc' = "off"
        /\ UNCHANGED <<minted, runs>>
        /\ file' \in possible \/ file' = Interrupted(file)
    BY <1>4 DEF PowerLoss, MemoryLost
  <2>2. Loadable(file') /\ Backed(file', minted, runs) /\ file'.next >= 1
    BY <1>a, <2>1 DEF IInv, DiskSound, JournalsLoad, TicketsBacked, NextPositive
  <2> QED
    BY <2>1, <2>2 DEF IInv, Sound, DiskSound, JournalsLoad, Loadable, TicketsBacked, AtMostOnce,
                      RunsMinted, NextPositive, ClaimIsDurable, ClaimFresh
<1>5. CASE Open
  <2>1. /\ pc = "off" /\ pc' = "off" /\ UNCHANGED <<minted, runs>>
        /\ phase' # "down" => mem' = file'
        /\ file' \in possible'
        /\ \A p \in possible' : p \in possible \/ p = Interrupted(file)
    BY <1>5 DEF Open, Saved, IInv, DiskSound
  <2>2. \A p \in possible' : Loadable(p) /\ Backed(p, minted, runs) /\ p.next >= 1
    BY <1>a, <2>1 DEF IInv, DiskSound, JournalsLoad, TicketsBacked, NextPositive
  <2> QED
    BY <2>1, <2>2 DEF IInv, Sound, DiskSound, JournalsLoad, Loadable, TicketsBacked, AtMostOnce,
                      RunsMinted, NextPositive, ClaimIsDurable, ClaimFresh
<1> QED
  BY <1>1, <1>2, <1>3, <1>4, <1>5
-----------------------------------------------------------------------------
(* The worker.                                                             *)
LEMMA WorkInv ==
  ASSUME IInv, Work \/ Timeout
  PROVE  Sound' /\ ClaimIsDurable' /\ ClaimFresh'
<1> USE DEF owner, worker, history, disk
<1>a. mem \in Journals
  BY DEF IInv, TypeOK
<1>b. pc # "off" => /\ phase # "down" /\ mem \in possible
                    /\ Loadable(mem) /\ Backed(mem, minted, runs)
  BY DEF IInv, DiskSound, JournalsLoad, TicketsBacked
(* Steps that leave the journals alone and do not go on with a claim.      *)
<1>1. ASSUME UNCHANGED <<mem, file, possible, phase, minted, runs>>, pc # "off",
             \/ pc' \notin {"claimed", "checked", "running"}
             \/ UNCHANGED <<pc, entry>>
             \/ pc = "claimed" /\ pc' = "checked" /\ entry' = entry
      PROVE  Sound' /\ ClaimIsDurable' /\ ClaimFresh'
  <2>1. Sound'
    BY <1>1, <1>b DEF IInv, Sound, DiskSound, JournalsLoad, Loadable, TicketsBacked, AtMostOnce,
                      RunsMinted, NextPositive
  <2> QED
    BY <1>1, <2>1 DEF IInv, ClaimIsDurable, ClaimFresh
(* Saves of a status other than pending that end the worker's claim.       *)
<1>2. ASSUME NEW j \in Jobs, NEW s \in Statuses \ {"pending"}, Status(j) # "none",
             pc # "off", WorkerSave(WithStatus(j, s)), UNCHANGED <<phase, minted, runs>>,
             pc' \notin {"claimed", "checked", "running"}
      PROVE  Sound' /\ ClaimIsDurable' /\ ClaimFresh'
  <2>1. Derived(WithStatus(j, s)) /\ WithStatus(j, s) \in Journals
    BY <1>2, <1>a, <1>b, StatusDerived, StatusType
  <2>2. Sound'
    BY <1>2, <1>b, <2>1, DerivedSound
  <2> QED
    BY <1>2, <2>2 DEF ClaimIsDurable, ClaimFresh
<1>3. CASE Pick \/ WorkerLeaves \/ WorkerWakes \/ Admission \/ NoClaim \/ StopUncertain \/ Release
  BY <1>1, <1>3 DEF Pick, WorkerLeaves, WorkerWakes, Admission, NoClaim, StopUncertain, Release
<1>4. CASE Timeout
  BY <1>1, <1>4 DEF Timeout, Active
<1>5. CASE RecordRefusal
  <2>1. CASE UNCHANGED <<mem, disk, poison, owed>>
    BY <1>1, <1>5, <2>1 DEF RecordRefusal
  <2>2. CASE \E j \in Holding("pending") : WorkerSave(WithStatus(j, "failed"))
    <3>1. PICK j \in Jobs : Status(j) = "pending" /\ WorkerSave(WithStatus(j, "failed"))
      BY <2>2 DEF Holding
    <3> QED
      BY <1>2, <1>5, <3>1 DEF RecordRefusal, Statuses, Terminal
  <2> QED
    BY <1>5, <2>1, <2>2 DEF RecordRefusal
<1>6. CASE Claim
  <2>1. PICK j \in Jobs :
          /\ Status(j) = "pending" /\ Ticket(j) = entry.ticket
          /\ \/ Saved(WithStatus(j, "running")) /\ poison' = poison /\ pc' = "claimed"
             \/ WorkerSaveFails(WithStatus(j, "running")) /\ pc' = "release"
    BY <1>6 DEF Claim, Holding
  <2>2. "running" \in Statuses \ {"pending"} /\ WorkerSave(WithStatus(j, "running"))
    BY <2>1 DEF Statuses, WorkerSave
  <2>3. /\ Derived(WithStatus(j, "running")) /\ WithStatus(j, "running") \in Journals
        /\ WithStatus(j, "running").at[j].ticket = Ticket(j)
        /\ WithStatus(j, "running").at[j].status = "running"
    BY <1>6, <1>a, <1>b, <2>1, <2>2, StatusDerived, StatusType DEF Claim
  <2>4. Sound'
    BY <1>6, <1>b, <2>2, <2>3, DerivedSound DEF Claim
  <2>5. CASE pc' = "release"
    BY <2>4, <2>5 DEF ClaimIsDurable, ClaimFresh
  <2>6. CASE Saved(WithStatus(j, "running")) /\ pc' = "claimed"
    <3>1. entry' = entry /\ runs' = runs /\ possible' = {WithStatus(j, "running")}
      BY <1>6, <2>6 DEF Claim, Saved
    <3>2. ClaimIsDurable'
      BY <2>1, <2>3, <3>1 DEF ClaimIsDurable
    <3>3. entry.ticket \in Tickets /\ runs[entry.ticket] = 0
      BY <1>6, <1>a, <1>b, <2>1, TicketType DEF Claim, Backed, Status, Ticket
    <3> QED
      BY <2>4, <3>1, <3>2, <3>3 DEF ClaimFresh
  <2> QED
    BY <2>1, <2>5, <2>6
<1>7. CASE Check
  BY <1>1, <1>7 DEF Check, RecordLater
<1>8. CASE StartRun
  <2>1. /\ entry.ticket \in Tickets /\ runs[entry.ticket] = 0
        /\ UNCHANGED <<mem, file, possible, phase, minted, entry>>
        /\ runs' = [runs EXCEPT ![entry.ticket] = @ + 1] /\ runs \in [Tickets -> Nat]
        /\ pc # "off" /\ pc' = "running"
    BY <1>8 DEF StartRun, IInv, ClaimFresh, TypeOK
  <2>2. ASSUME NEW p \in possible PROVE Backed(p, minted', runs') /\ entry.ticket <= minted
    <3>1. PICK k \in Jobs : p.at[k].ticket = entry.ticket /\ p.at[k].status = "running"
      BY <1>8 DEF StartRun, IInv, ClaimIsDurable
    <3>2. \A i \in Jobs : p.at[i].status = "pending" => p.at[i].ticket # entry.ticket
      BY <3>1 DEF IInv, JournalsLoad, Loadable
    <3>3. Backed(p, minted, runs)
      BY DEF IInv, TicketsBacked
    <3>4. ASSUME NEW i \in Jobs, p.at[i].status = "pending" PROVE runs'[p.at[i].ticket] = 0
      <4>1. p.at[i].ticket \in Tickets
        BY <3>4 DEF IInv, TypeOK, Journals, Entries, FilledEntries, NoEntry
      <4> QED
        BY <2>1, <3>2, <3>3, <3>4, <4>1 DEF Backed
    <3> QED
      BY <2>1, <3>1, <3>3, <3>4 DEF Backed
  <2>3. TicketsBacked' /\ entry.ticket <= minted
    BY <2>1, <2>2 DEF TicketsBacked, IInv, DiskSound
  <2>4. AtMostOnce' /\ RunsMinted'
    BY <2>1, <2>3 DEF IInv, AtMostOnce, RunsMinted
  <2>5. DiskSound' /\ JournalsLoad' /\ NextPositive'
    BY <2>1, <1>b DEF IInv, DiskSound, JournalsLoad, Loadable, NextPositive
  <2>6. ClaimIsDurable' /\ ClaimFresh'
    BY <1>8, <2>1 DEF StartRun, IInv, ClaimIsDurable, ClaimFresh
  <2> QED
    BY <2>3, <2>4, <2>5, <2>6 DEF Sound
<1>9. CASE RunRefused \/ EndRun
  BY <1>1, <1>9 DEF RunRefused, EndRun, RecordLater
<1>10. CASE Finish
  <2>1. CASE UNCHANGED <<mem, disk, poison>>
    BY <1>1, <1>10, <2>1 DEF Finish
  <2>2. CASE \E j \in Holding("running") : WorkerSave(WithStatus(j, outcome))
    <3>1. PICK j \in Jobs : Status(j) = "running" /\ WorkerSave(WithStatus(j, outcome))
      BY <2>2 DEF Holding
    <3>2. outcome \in Statuses \ {"pending"}
      BY DEF IInv, TypeOK, Statuses, Terminal
    <3> QED
      BY <1>2, <1>10, <3>1, <3>2 DEF Finish
  <2> QED
    BY <1>10, <2>1, <2>2 DEF Finish
<1> QED
  BY <1>3, <1>4, <1>5, <1>6, <1>7, <1>8, <1>9, <1>10 DEF Work

-----------------------------------------------------------------------------
(* The invariant holds of the empty queue directory.                       *)
LEMMA InitInv == Init => IInv
<1> SUFFICES ASSUME Init PROVE IInv
  OBVIOUS
<1>1. EmptyJournal.next = 1 /\ \A j \in Jobs : EmptyJournal.at[j].status = "none"
  BY DEF EmptyJournal, NoEntry
<1> QED
  BY <1>1, InitType
     DEF Init, IInv, DiskSound, JournalsLoad, Loadable, TicketsBacked, Backed, AtMostOnce,
         RunsMinted, NextPositive, ClaimIsDurable, ClaimFresh, Tickets

(* The invariant is inductive.                                             *)
LEMMA StepInv == IInv /\ [Next]_vars => IInv'
<1> SUFFICES ASSUME IInv, [Next]_vars PROVE IInv'
  OBVIOUS
<1>1. CASE UNCHANGED vars
  BY <1>1 DEF vars, IInv, TypeOK, DiskSound, JournalsLoad, Loadable, TicketsBacked, Backed,
              AtMostOnce, RunsMinted, NextPositive, ClaimIsDurable, ClaimFresh
<1>2. CASE Next
  <2>1. TypeOK'
    BY <1>2, CallType, OwnerType, WorkType DEF Next, IInv
  <2>2. Sound' /\ ClaimIsDurable' /\ ClaimFresh'
    BY <1>2, CallInv, OwnerInv, WorkInv DEF Next
  <2> QED
    BY <2>1, <2>2 DEF IInv, Sound
<1> QED
  BY <1>1, <1>2

(* The inductive invariant behind all safety results holds in every state. *)
THEOREM Inductive == Spec => []IInv
BY InitInv, StepInv, PTL DEF Spec

(* A ticket starts the stages of its job at most once, over any sequence   *)
(* of saves that fail or half succeed, deaths, power losses and restarts.  *)
THEOREM NeverReplayed == Spec => []AtMostOnce
<1>1. IInv => AtMostOnce
  BY DEF IInv
<1> QED
  BY <1>1, Inductive, PTL

(* Work is done only under a claim that every restart would find.          *)
THEOREM ClaimsDurable == Spec => []ClaimIsDurable
<1>1. IInv => ClaimIsDurable
  BY DEF IInv
<1> QED
  BY <1>1, Inductive, PTL

(* The queue never leaves a journal behind that OpenQueue would reject for *)
(* repeated tickets, repeated sequence numbers or a sequence from the      *)
(* future.                                                                 *)
THEOREM JournalsAlwaysLoad == Spec => []JournalsLoad
<1>1. IInv => JournalsLoad
  BY DEF IInv
<1> QED
  BY <1>1, Inductive, PTL

-----------------------------------------------------------------------------
(* The queue implements TicketLifecycle.  A step of the queue moves each   *)
(* ticket forward because no step makes an old ticket redeemable, a claim  *)
(* is only taken on a redeemable ticket, and stages only start under a     *)
(* claim.                                                                  *)

Executes(t) == pc = "running" /\ entry.ticket = t

(* What a step does to what makes a ticket issued or executing.            *)
StepFacts(t) ==
  /\ minted' \in {minted, minted + 1}
  /\ Redeemable(t)' => Redeemable(t) \/ (t = minted + 1 /\ minted' = t)
  /\ ClaimHeld(t)' => ClaimHeld(t) \/ Redeemable(t)
  /\ Executes(t)' => Executes(t) \/ ClaimHeld(t)

(* What is issued or executing was minted, and what executes is no longer  *)
(* redeemable.                                                             *)
LEMMA LifeFacts ==
  ASSUME IInv, NEW t \in Tickets
  PROVE  /\ Redeemable(t) \/ ClaimHeld(t) \/ Executes(t) => t <= minted
         /\ ClaimHeld(t) \/ Executes(t) => ~Redeemable(t)
<1>1. Redeemable(t) => t <= minted
  BY DEF Redeemable, IInv, TicketsBacked, Backed
<1>2. ASSUME ClaimHeld(t) \/ Executes(t)
      PROVE  t <= minted /\ ~Redeemable(t)
  <2>1. \A p \in possible : \E k \in Jobs : p.at[k].ticket = t /\ p.at[k].status = "running"
    BY <1>2 DEF ClaimHeld, Executes, IInv, ClaimIsDurable
  <2>2. t <= minted
    BY <2>1 DEF IInv, DiskSound, TicketsBacked, Backed
  <2>3. ~Redeemable(t)
    BY <2>1 DEF Redeemable, IInv, JournalsLoad, Loadable
  <2> QED
    BY <2>2, <2>3
<1> QED
  BY <1>1, <1>2

(* A save of a journal derived from the memory redeems no other ticket.    *)
LEMMA DerivedRedeems ==
  ASSUME IInv, phase # "down", phase' = phase, NEW new \in Journals, Derived(new),
         ApiSave(new) \/ WorkerSave(new), UNCHANGED <<minted, runs>>,
         NEW t \in Tickets, Redeemable(t)'
  PROVE  Redeemable(t)
<1>1. mem \in possible /\ \A p \in possible' : p \in possible \/ p = new
  BY DerivedSound DEF IInv, DiskSound
<1>2. PICK p \in possible', j \in Jobs : p.at[j].status = "pending" /\ p.at[j].ticket = t
  BY DEF Redeemable
<1>3. CASE p \in possible
  BY <1>2, <1>3 DEF Redeemable
<1>4. CASE p = new
  BY <1>1, <1>2, <1>4 DEF Derived, Redeemable
<1> QED
  BY <1>1, <1>3, <1>4

-----------------------------------------------------------------------------
(* API calls move every ticket forward or leave it.                        *)
LEMMA CallFacts == ASSUME IInv, NEW j \in Jobs, Call(j), NEW t \in Tickets PROVE StepFacts(t)
<1> USE DEF owner, worker, history, disk
<1>a. mem \in Journals /\ minted \in Nat
  BY QueueAssumption DEF IInv, TypeOK
<1>b. phase # "down" => mem \in possible /\ Loadable(mem)
  BY DEF IInv, DiskSound, JournalsLoad
<1>1. ASSUME NEW retry \in BOOLEAN, Enqueue(j, retry) PROVE StepFacts(t)
  <2> DEFINE new == [WithEntry(j, NewEntry(j)) EXCEPT !.next = @ + 1]
  <2>1. UNCHANGED <<pc, entry>> /\ minted' = minted + 1 /\ phase # "down"
    BY <1>1 DEF Enqueue, Ready
  <2>2. \A p \in possible' : p \in possible \/ p = new
    BY <1>1, <1>b, <2>1 DEF Enqueue, ApiSave, Saved, Uncertain
  <2>3. new.at[j].ticket = minted + 1 /\ \A k \in Jobs \ {j} : new.at[k] = mem.at[k]
    <3>1. WithEntry(j, NewEntry(j)) = [mem EXCEPT !.at = [mem.at EXCEPT ![j] = NewEntry(j)]]
      BY DEF WithEntry
    <3>2. new.at = [mem.at EXCEPT ![j] = NewEntry(j)]
      BY <1>a, <3>1 DEF Journals
    <3>3. new.at[j] = NewEntry(j) /\ \A k \in Jobs \ {j} : new.at[k] = mem.at[k]
      BY <1>a, <3>2 DEF Journals
    <3> QED
      BY <3>3 DEF NewEntry
  <2> HIDE DEF new
  <2>4. Redeemable(t)' => Redeemable(t) \/ t = minted + 1
    BY <1>b, <2>1, <2>2, <2>3 DEF Redeemable
  <2> QED
    BY <2>1, <2>4 DEF StepFacts, ClaimHeld, Executes
<1>2. ASSUME NEW new \in Journals, Derived(new), phase # "down", ApiSave(new),
             UNCHANGED <<minted, runs, phase, pc, entry>>
      PROVE  StepFacts(t)
  <2>1. Redeemable(t)' => Redeemable(t)
    BY <1>2, DerivedRedeems
  <2> QED
    BY <1>2, <2>1 DEF StepFacts, ClaimHeld, Executes
<1>3. ASSUME UNCHANGED <<possible, pc, entry, minted>> PROVE StepFacts(t)
  BY <1>3 DEF StepFacts, Redeemable, ClaimHeld, Executes
<1>4. ASSUME CancelPending(j) PROVE StepFacts(t)
  <2>1. Status(j) # "none" /\ phase # "down" /\ "cancelled" \in Statuses \ {"pending"}
    BY <1>4 DEF CancelPending, Ready, Statuses, Terminal
  <2>2. WithStatus(j, "cancelled") \in Journals /\ Derived(WithStatus(j, "cancelled"))
    BY <1>a, <1>b, <2>1, StatusType, StatusDerived
  <2> QED
    BY <1>2, <1>4, <2>1, <2>2 DEF CancelPending
<1>5. ASSUME Ready PROVE WithEntry(j, NoEntry) \in Journals /\ Derived(WithEntry(j, NoEntry))
  BY <1>5, <1>a, <1>b, EntryType, NoEntryType, ForgetDerived DEF Ready
<1>6. ASSUME Forget(j) PROVE StepFacts(t)
  BY <1>2, <1>5, <1>6 DEF Forget, Ready
<1>7. ASSUME Delete(j) PROVE StepFacts(t)
  <2>1. CASE Saved(WithEntry(j, NoEntry))
    BY <1>2, <1>5, <1>7, <2>1 DEF Delete, Ready, ApiSave
  <2>2. CASE UNCHANGED <<mem, disk>>
    BY <1>3, <1>7, <2>2 DEF Delete
  <2> QED
    BY <1>7, <2>1, <2>2 DEF Delete
<1>8. ASSUME EnqueueAgain(j) \/ CancelRunning(j) \/ CancelAgain(j)
             \/ \E c \in Configs : Upload(j, c) \/ Rebind(j, c)
      PROVE  StepFacts(t)
  BY <1>3, <1>8 DEF EnqueueAgain, CancelRunning, CancelAgain, Upload, Rebind
<1> QED
  BY <1>1, <1>4, <1>6, <1>7, <1>8 DEF Call, Cancel

(* What open makes of a journal redeems no more than the journal did.      *)
LEMMA InterruptedRedeems ==
  ASSUME NEW p \in Journals, NEW j \in Jobs, Interrupted(p).at[j].status = "pending"
  PROVE  p.at[j].status = "pending" /\ Interrupted(p).at[j].ticket = p.at[j].ticket
<1>1. Interrupted(p).at[j] = IF p.at[j].status = "running"
                             THEN [p.at[j] EXCEPT !.status = "interrupted"] ELSE p.at[j]
  BY DEF Interrupted, Journals
<1>2. p.at[j].status # "running"
  <2> SUFFICES ASSUME p.at[j].status = "running" PROVE FALSE
    OBVIOUS
  <2>1. p.at[j] \in FilledEntries
    BY DEF Journals, Entries, NoEntry
  <2>2. Interrupted(p).at[j].status = "interrupted"
    BY <1>1, <2>1 DEF FilledEntries
  <2> QED
    BY <2>2
<1> QED
  BY <1>1, <1>2

(* The owner's calls, crashes and restarts move tickets forward only.      *)
LEMMA OwnerFacts ==
  ASSUME IInv, NEW t \in Tickets,
         Start \/ StartContextEnds \/ Shutdown \/ Close \/ Kill \/ PowerLoss \/ Open
  PROVE  StepFacts(t)
<1> USE DEF owner, worker, history, disk
<1>1. CASE Start \/ StartContextEnds \/ Shutdown \/ Close \/ Kill
  BY <1>1 DEF Start, StartContextEnds, Shutdown, Close, Kill, MemoryLost, StepFacts, Redeemable,
              ClaimHeld, Executes
<1>2. CASE PowerLoss \/ Open
  <2>1. /\ minted' = minted /\ pc' = "off" /\ file \in possible /\ file \in Journals
        /\ \A p \in possible' : p \in possible \/ p = Interrupted(file)
    BY <1>2 DEF PowerLoss, Open, MemoryLost, Saved, IInv, DiskSound, TypeOK
  <2>2. Redeemable(t)' => Redeemable(t)
    BY <2>1, InterruptedRedeems DEF Redeemable
  <2> QED
    BY <2>1, <2>2 DEF StepFacts, ClaimHeld, Executes
<1> QED
  BY <1>1, <1>2

(* The worker moves tickets forward only.                                  *)
LEMMA WorkFacts ==
  ASSUME IInv, NEW t \in Tickets, Work \/ Timeout
  PROVE  StepFacts(t)
<1> USE DEF owner, worker, history, disk
<1>a. /\ mem \in Journals
      /\ pc # "off" => phase # "down" /\ mem \in possible /\ Loadable(mem)
  BY DEF IInv, TypeOK, DiskSound, JournalsLoad
<1>1. ASSUME UNCHANGED <<possible, minted>>,
             \/ pc' \notin {"claimed", "checked", "running"}
             \/ UNCHANGED <<pc, entry>>
             \/ entry' = entry /\ pc = "claimed" /\ pc' = "checked"
             \/ entry' = entry /\ pc = "checked" /\ pc' = "running"
      PROVE  StepFacts(t)
  BY <1>1 DEF StepFacts, Redeemable, ClaimHeld, Executes
<1>2. ASSUME NEW j \in Jobs, NEW s \in Statuses \ {"pending"}, Status(j) # "none",
             pc # "off", WorkerSave(WithStatus(j, s)), UNCHANGED <<phase, minted, runs>>
      PROVE  Redeemable(t)' => Redeemable(t)
  <2>1. Derived(WithStatus(j, s)) /\ WithStatus(j, s) \in Journals
    BY <1>2, <1>a, StatusDerived, StatusType
  <2> QED
    BY <1>2, <1>a, <2>1, DerivedRedeems
<1>3. CASE Pick \/ WorkerLeaves \/ WorkerWakes \/ Admission \/ NoClaim \/ StopUncertain \/ Release
  BY <1>1, <1>3 DEF Pick, WorkerLeaves, WorkerWakes, Admission, NoClaim, StopUncertain, Release
<1>4. CASE Timeout \/ Check \/ StartRun \/ RunRefused \/ EndRun
  BY <1>1, <1>4 DEF Timeout, Check, StartRun, RunRefused, EndRun, RecordLater
<1>5. CASE RecordRefusal
  <2>1. CASE UNCHANGED <<mem, disk, poison, owed>>
    BY <1>1, <1>5, <2>1 DEF RecordRefusal
  <2>2. CASE \E j \in Holding("pending") : WorkerSave(WithStatus(j, "failed"))
    <3>1. PICK j \in Jobs : Status(j) = "pending" /\ WorkerSave(WithStatus(j, "failed"))
      BY <2>2 DEF Holding
    <3>2. Redeemable(t)' => Redeemable(t)
      BY <1>2, <1>5, <3>1 DEF RecordRefusal, Statuses, Terminal
    <3> QED
      BY <1>5, <3>2 DEF RecordRefusal, StepFacts, ClaimHeld, Executes
  <2> QED
    BY <1>5, <2>1, <2>2 DEF RecordRefusal
<1>6. CASE Claim
  <2>1. PICK j \in Jobs :
          /\ Status(j) = "pending" /\ Ticket(j) = entry.ticket
          /\ WorkerSave(WithStatus(j, "running"))
    BY <1>6 DEF Claim, Holding, WorkerSave
  <2>2. Redeemable(t)' => Redeemable(t)
    BY <1>2, <1>6, <2>1 DEF Claim, Statuses
  <2>3. entry.ticket = t => Redeemable(t)
    BY <1>6, <1>a, <2>1 DEF Claim, Redeemable, Status, Ticket
  <2> QED
    BY <1>6, <2>2, <2>3 DEF Claim, StepFacts, ClaimHeld, Executes
<1>7. CASE Finish
  <2>1. CASE UNCHANGED <<mem, disk, poison>>
    BY <1>1, <1>7, <2>1 DEF Finish
  <2>2. CASE \E j \in Holding("running") : WorkerSave(WithStatus(j, outcome))
    <3>1. PICK j \in Jobs : Status(j) = "running" /\ WorkerSave(WithStatus(j, outcome))
      BY <2>2 DEF Holding
    <3>2. outcome \in Statuses \ {"pending"}
      BY DEF IInv, TypeOK, Statuses, Terminal
    <3>3. Redeemable(t)' => Redeemable(t)
      BY <1>2, <1>7, <3>1, <3>2 DEF Finish
    <3> QED
      BY <1>7, <3>3 DEF Finish, StepFacts, ClaimHeld, Executes
  <2> QED
    BY <1>7, <2>1, <2>2 DEF Finish
<1> QED
  BY <1>3, <1>4, <1>5, <1>6, <1>7 DEF Work

(* Every step moves every ticket forward or leaves it.                     *)
LEMMA NextFacts == ASSUME IInv, [Next]_vars, NEW t \in Tickets PROVE StepFacts(t)
<1>1. CASE UNCHANGED vars
  BY <1>1 DEF vars, StepFacts, Redeemable, ClaimHeld, Executes
<1>2. CASE Next
  BY <1>2, CallFacts, OwnerFacts, WorkFacts DEF Next
<1> QED
  BY <1>1, <1>2

-----------------------------------------------------------------------------
(* The initial state maps to the abstract initial state.                   *)
LEMMA InitPromise == Init => Promise!Init
<1> SUFFICES ASSUME Init PROVE Promise!Init
  OBVIOUS
<1>1. \A t \in Tickets : minted < t
  BY QueueAssumption DEF Init, Tickets
<1> QED
  BY <1>1 DEF Promise!Init, Life, LifeOf

(* Every step maps to an abstract step or to none.                         *)
LEMMA StepPromise == IInv /\ IInv' /\ [Next]_vars => [Promise!Next]_Life
<1> SUFFICES ASSUME IInv, IInv', [Next]_vars PROVE Promise!Next
  OBVIOUS
<1>1. minted \in Nat /\ Tickets \subseteq Nat
  BY QueueAssumption DEF IInv, TypeOK, Tickets
<1>2. ASSUME NEW t \in Tickets
      PROVE  LifeOf(t)' = LifeOf(t) \/ <<LifeOf(t), LifeOf(t)'>> \in Promise!Forward
  <2>1. StepFacts(t)
    BY NextFacts
  <2>2. /\ Redeemable(t) \/ ClaimHeld(t) \/ Executes(t) => t <= minted
        /\ ClaimHeld(t) \/ Executes(t) => ~Redeemable(t)
    BY LifeFacts
  <2>3. CASE minted < t
    <3>1. ~Executes(t)' /\ ~Executes(t) /\ ~ClaimHeld(t) /\ ~Redeemable(t)
      BY <1>1, <2>1, <2>2, <2>3 DEF StepFacts
    <3>2. LifeOf(t) = "free" /\ LifeOf(t)' \in {"free", "issued", "spent"}
      BY <2>3, <3>1 DEF LifeOf, Executes
    <3> QED
      BY <3>2 DEF Promise!Forward
  <2>4. CASE ~(minted < t)
    <3>1. ~(minted' < t) /\ (Redeemable(t)' => Redeemable(t))
      BY <1>1, <2>1, <2>4 DEF StepFacts
    <3>2. CASE Executes(t)
      <4>1. ~Redeemable(t)' /\ ~ClaimHeld(t)'
        BY <2>1, <2>2, <3>1, <3>2 DEF StepFacts, Executes, ClaimHeld
      <4>2. LifeOf(t) = "executing" /\ LifeOf(t)' \in {"executing", "spent"}
        BY <2>4, <3>1, <3>2, <4>1 DEF LifeOf, Executes
      <4> QED
        BY <4>2 DEF Promise!Forward
    <3>3. CASE ~Executes(t) /\ (Redeemable(t) \/ ClaimHeld(t))
      <4>1. LifeOf(t) = "issued" /\ LifeOf(t)' \in {"issued", "executing", "spent"}
        BY <2>4, <3>1, <3>3 DEF LifeOf, Executes
      <4> QED
        BY <4>1 DEF Promise!Forward
    <3>4. CASE ~Executes(t) /\ ~Redeemable(t) /\ ~ClaimHeld(t)
      <4>1. ~Executes(t)' /\ ~Redeemable(t)' /\ ~ClaimHeld(t)'
        BY <2>1, <3>1, <3>4 DEF StepFacts
      <4> QED
        BY <2>4, <3>1, <3>4, <4>1 DEF LifeOf, Executes
    <3> QED
      BY <3>2, <3>3, <3>4
  <2> QED
    BY <2>3, <2>4
<1>3. Life' \in [Tickets -> Promise!Lives]
  BY DEF Life, LifeOf, Promise!Lives
<1>4. \A t, u \in {v \in Tickets : Life'[v] = "executing"} : t = u
  BY DEF Life, LifeOf
<1>5. \A t \in Tickets : Life[t] = LifeOf(t) /\ Life'[t] = LifeOf(t)'
  BY DEF Life
<1> QED
  BY <1>2, <1>3, <1>4, <1>5 DEF Promise!Next, Promise!Executing

(* The queue implements the abstract lifecycle of a ticket.                *)
THEOREM ImplementsPromise == Spec => TicketPromise
<1>1. Spec => Promise!Init /\ [][Promise!Next]_Life
  BY InitPromise, StepPromise, Inductive, PTL DEF Spec
<1> QED
  BY <1>1 DEF TicketPromise, Promise!Spec

-----------------------------------------------------------------------------
(***************************************************************************)
(* What the queue tells its callers, and the order in which it serves      *)
(* them.  So far the proofs were about the disk: what any restart may      *)
(* find.  Here the invariant ties the worker to the memory and to the      *)
(* media store, and last the memory to the journals the next restart       *)
(* really finds.                                                           *)
(***************************************************************************)

Up == phase # "down"
Claims == {"claimed", "checked", "running", "finish"}
Serving == {"picked", "admitted", "claimed", "checked", "running"}

(* Memory and file differ only while nothing more is written.              *)
Coherent ==
  /\ Up \/ ~poison
  /\ Up /\ ~poison => mem = file

(* The ticket the worker holds was minted before, and is at no other job.  *)
PickKept ==
  Active =>
    /\ entry.ticket \in Tickets /\ entry.ticket <= minted
    /\ entry.seq < mem.next
    /\ \A k \in Jobs : Status(k) # "none" /\ Ticket(k) = entry.ticket => k = entry.job

(* A claim stands in the memory until the worker records its outcome.      *)
HoldsClaim ==
  pc \in Claims => Status(entry.job) = "running" /\ Ticket(entry.job) = entry.ticket

(* Between the check and the stages, and through them, nobody takes the    *)
(* recording away or gives it another attempt.                             *)
JobKept ==
  /\ pc = "checked" => /\ job[entry.job].status \in {"queued", "failed", "cancelled"}
                       /\ job[entry.job].attempts = entry.attempts
  /\ pc = "running" => job[entry.job].status = "running"
  /\ RunsWhatWasEnqueued

WorkerKept == PickKept /\ HoldsClaim /\ RunningHasWorker /\ ServedInOrder

Working == Coherent /\ WorkerKept /\ JobKept

-----------------------------------------------------------------------------
(* Saves.                                                                  *)

(* Setting a status changes nothing else.                                  *)
LEMMA StatusOnly ==
  ASSUME mem \in Journals, NEW j \in Jobs, NEW s \in Statuses, Status(j) # "none"
  PROVE  /\ WithStatus(j, s) \in Journals
         /\ WithStatus(j, s).next = mem.next
         /\ \A k \in Jobs \ {j} : WithStatus(j, s).at[k] = mem.at[k]
         /\ WithStatus(j, s).at[j].status = s
         /\ WithStatus(j, s).at[j].ticket = Ticket(j)
         /\ WithStatus(j, s).at[j].seq = mem.at[j].seq
<1> DEFINE w == WithStatus(j, s)
<1>1. mem.at[j] \in FilledEntries
  BY DEF Journals, Entries, NoEntry, Status
<1>2. w.next = mem.next /\ w.at = [mem.at EXCEPT ![j] = [mem.at[j] EXCEPT !.status = s]]
  BY DEF WithStatus, Journals
<1> QED
  BY <1>1, <1>2, StatusType DEF Journals, FilledEntries, Ticket

(* Forgetting an entry changes nothing else.                               *)
LEMMA ForgetOnly ==
  ASSUME mem \in Journals, NEW j \in Jobs
  PROVE  /\ WithEntry(j, NoEntry) \in Journals
         /\ WithEntry(j, NoEntry).next = mem.next
         /\ \A k \in Jobs \ {j} : WithEntry(j, NoEntry).at[k] = mem.at[k]
         /\ WithEntry(j, NoEntry).at[j].status = "none"
BY EntryType, NoEntryType DEF WithEntry, Journals, NoEntry

(* Enqueue adds one entry and takes one sequence number.                   *)
LEMMA EnqueueOnly ==
  ASSUME TypeOK, NEW j \in Jobs, minted < MaxTickets,
         NEW new, new = [WithEntry(j, NewEntry(j)) EXCEPT !.next = @ + 1]
  PROVE  /\ new \in Journals
         /\ new.next = mem.next + 1
         /\ \A k \in Jobs \ {j} : new.at[k] = mem.at[k]
         /\ new.at[j].status = "pending"
         /\ new.at[j].ticket = minted + 1
         /\ new.at[j].seq = mem.next
<1>1. mem \in Journals /\ new \in Journals
  BY NewEntryType DEF TypeOK
<1>2. WithEntry(j, NewEntry(j)) = [mem EXCEPT !.at = [mem.at EXCEPT ![j] = NewEntry(j)]]
  BY DEF WithEntry
<1>3. new.next = mem.next + 1 /\ new.at = [mem.at EXCEPT ![j] = NewEntry(j)]
  BY <1>1, <1>2 DEF Journals
<1>4. new.at[j] = NewEntry(j) /\ \A k \in Jobs \ {j} : new.at[k] = mem.at[k]
  BY <1>1, <1>3 DEF Journals
<1> QED
  BY <1>1, <1>3, <1>4 DEF NewEntry

(* What open makes of a journal differs only in entries that were running, *)
(* and is the same journal only if there were none.                        *)
LEMMA InterruptedOnly ==
  ASSUME NEW p \in Journals, NEW k \in Jobs
  PROVE  /\ p.at[k].status # "running" => Interrupted(p).at[k] = p.at[k]
         /\ p.at[k].status = "running" => Interrupted(p).at[k].status = "interrupted"
         /\ Interrupted(p).at[k].status # "running"
<1>1. Interrupted(p).at[k] = IF p.at[k].status = "running"
                             THEN [p.at[k] EXCEPT !.status = "interrupted"] ELSE p.at[k]
  BY DEF Interrupted, Journals
<1>2. CASE p.at[k].status = "running"
  <2>1. p.at[k] \in FilledEntries
    BY <1>2 DEF Journals, Entries, NoEntry
  <2> QED
    BY <1>1, <1>2, <2>1 DEF FilledEntries
<1>3. CASE p.at[k].status # "running"
  BY <1>1, <1>3
<1> QED
  BY <1>2, <1>3

(* A queue that is up has a memory a restart would accept.                 *)
LEMMA MemoryLoads ==
  ASSUME IInv, Up
  PROVE  /\ mem \in Journals /\ mem \in possible /\ Loadable(mem)
         /\ Backed(mem, minted, runs) /\ mem.next \in Nat
BY DEF Up, IInv, DiskSound, JournalsLoad, TicketsBacked, TypeOK, Journals

(* The worker works only while the queue is up.                            *)
LEMMA WorkerUp == ASSUME IInv, pc # "off" PROVE Up
BY DEF Up, IInv, DiskSound

-----------------------------------------------------------------------------
(* The memory and the file.                                                *)

(* Every way a save of a sound queue can end: both or neither were         *)
(* replaced, or the queue is poisoned.                                     *)
LEMMA SaveCoherent ==
  ASSUME Coherent, Up, ~poison, NEW new, ApiSave(new) \/ WorkerSave(new), phase' = phase
  PROVE  Coherent' /\ mem' \in {mem, new}
BY DEF Coherent, Up, ApiSave, WorkerSave, WorkerSaveFails, Saved, NotSaved, Uncertain

(* Memory, disk and poisoning agree after every step.                      *)
LEMMA CoherentStep == ASSUME IInv, Coherent, Next PROVE Coherent'
<1> USE DEF owner, worker, history, disk
<1>1. ASSUME NEW j \in Jobs, Call(j) PROVE Coherent'
  <2>1. ASSUME NEW retry \in BOOLEAN, Enqueue(j, retry) PROVE Coherent'
    BY <2>1, SaveCoherent DEF Enqueue, Ready, Up
  <2>2. CASE CancelPending(j) \/ Forget(j)
    BY <2>2, SaveCoherent DEF CancelPending, Forget, Ready, Up
  <2>3. CASE Delete(j)
    BY <2>3 DEF Delete, Saved, Coherent, Up
  <2>4. CASE EnqueueAgain(j) \/ CancelRunning(j) \/ CancelAgain(j)
             \/ \E c \in Configs : Upload(j, c) \/ Rebind(j, c)
    BY <2>4 DEF EnqueueAgain, CancelRunning, CancelAgain, Upload, Rebind, Coherent, Up
  <2> QED
    BY <1>1, <2>1, <2>2, <2>3, <2>4 DEF Call, Cancel
<1>2. ASSUME Work PROVE Coherent'
  <2>1. Up
    BY <1>2, WorkerUp DEF Work, Pick, WorkerLeaves, WorkerWakes, Admission, RecordRefusal, Claim,
       NoClaim, Check, StartRun, RunRefused, EndRun, Finish, StopUncertain, Release
  <2>2. CASE RecordRefusal
    BY <2>1, <2>2, SaveCoherent DEF RecordRefusal, Coherent, Up
  <2>3. CASE Claim
    BY <2>1, <2>3, SaveCoherent DEF Claim, WorkerSave
  <2>4. CASE Finish
    BY <2>1, <2>4, SaveCoherent DEF Finish, Coherent, Up
  <2>5. CASE Pick \/ WorkerLeaves \/ WorkerWakes \/ Admission \/ NoClaim \/ Check \/ StartRun
             \/ RunRefused \/ EndRun \/ StopUncertain \/ Release
    BY <2>1, <2>5 DEF Pick, WorkerLeaves, WorkerWakes, Admission, NoClaim, Check, StartRun,
       RunRefused, EndRun, StopUncertain, Release, Coherent, Up
  <2> QED
    BY <1>2, <2>2, <2>3, <2>4, <2>5 DEF Work
<1>3. CASE Timeout \/ Start \/ StartContextEnds \/ Shutdown
  BY <1>3 DEF Timeout, Start, StartContextEnds, Shutdown, Ready, Coherent, Up
<1>4. CASE Close \/ Kill \/ PowerLoss
  BY <1>4 DEF Close, Kill, PowerLoss, MemoryLost, Coherent, Up
<1>5. CASE Open
  BY <1>5 DEF Open, Saved, Coherent, Up
<1> QED
  BY <1>1, <1>2, <1>3, <1>4, <1>5 DEF Next

-----------------------------------------------------------------------------
(* The worker and the memory.                                              *)

(* Steps that leave the memory and the worker's copy alone, and neither    *)
(* begin nor end a claim.                                                  *)
LEMMA QuietKept ==
  ASSUME WorkerKept, UNCHANGED <<mem, entry, phase, minted>>, poison => poison',
         Active' => Active,
         pc' \in Claims <=> pc \in Claims,
         pc' \in Serving => pc \in Serving
  PROVE  WorkerKept'
<1>1. PickKept'
  BY DEF WorkerKept, PickKept, Status, Ticket
<1>2. HoldsClaim'
  BY DEF WorkerKept, HoldsClaim, Status, Ticket
<1>3. RunningHasWorker'
  BY DEF WorkerKept, RunningHasWorker, Claims, Status, Ticket
<1>4. ServedInOrder'
  BY DEF WorkerKept, ServedInOrder, Serving, Status, Ticket
<1> QED
  BY <1>1, <1>2, <1>3, <1>4 DEF WorkerKept

(* Saves that change the entry of one job that is not running, and do not  *)
(* make it pending unless with a new ticket and the next sequence number.  *)
LEMMA EditKept ==
  ASSUME IInv, WorkerKept, Up, NEW j \in Jobs, NEW new \in Journals,
         \A k \in Jobs \ {j} : new.at[k] = mem.at[k],
         new.next >= mem.next,
         Status(j) # "running", new.at[j].status # "running",
         \/ new.at[j].status = "none"
         \/ /\ new.at[j].status # "pending" /\ Status(j) # "none"
            /\ new.at[j].ticket = Ticket(j)
         \/ new.at[j].ticket = minted + 1 /\ new.at[j].seq = mem.next,
         mem' \in {mem, new}, poison => poison', phase' = phase, entry' = entry,
         minted' \in {minted, minted + 1},
         pc' = pc \/ (pc \notin Claims /\ pc' \in {"pick", "release"}),
         Active' => Active
  PROVE  WorkerKept'
<1>1. /\ mem \in Journals /\ minted \in Nat /\ mem.next \in Nat /\ new.next \in Nat
      /\ entry \in WorkEntries /\ entry.seq \in Nat
  BY QueueAssumption DEF IInv, TypeOK, Journals, WorkEntries
<1>2. PickKept'
  <2> SUFFICES ASSUME Active'
               PROVE  /\ entry'.ticket \in Tickets /\ entry'.ticket <= minted'
                      /\ entry'.seq < mem'.next
                      /\ \A k \in Jobs : Status(k)' # "none" /\ Ticket(k)' = entry'.ticket =>
                           k = entry'.job
    BY DEF PickKept
  <2>1. /\ entry.ticket \in Tickets /\ entry.ticket <= minted /\ entry.seq < mem.next
        /\ \A k \in Jobs : Status(k) # "none" /\ Ticket(k) = entry.ticket => k = entry.job
    BY DEF WorkerKept, PickKept
  <2>2. entry'.ticket <= minted' /\ entry'.seq < mem'.next
    BY <1>1, <2>1 DEF Tickets
  <2>3. ASSUME NEW k \in Jobs, mem'.at[k].status # "none", mem'.at[k].ticket = entry.ticket
        PROVE  k = entry.job
    <3>1. CASE mem'.at[k] = mem.at[k]
      BY <2>1, <2>3, <3>1 DEF Status, Ticket
    <3>2. CASE mem' = new /\ k = j
      BY <1>1, <2>1, <2>3, <3>2 DEF Status, Ticket, Tickets
    <3> QED
      BY <3>1, <3>2
  <2> QED
    BY <2>1, <2>2, <2>3 DEF Status, Ticket
<1>3. HoldsClaim'
  <2> SUFFICES ASSUME pc' \in Claims
               PROVE  mem'.at[entry.job].status = "running"
                      /\ mem'.at[entry.job].ticket = entry.ticket
    BY DEF HoldsClaim, Status, Ticket
  <2>1. Status(entry.job) = "running" /\ Ticket(entry.job) = entry.ticket /\ entry.job \in Jobs
    BY <1>1 DEF WorkerKept, HoldsClaim, Claims, WorkEntries
  <2> QED
    BY <2>1 DEF Status, Ticket
<1>4. RunningHasWorker'
  <2> SUFFICES ASSUME NEW k \in Jobs, phase' # "down", mem'.at[k].status = "running"
               PROVE  poison' \/ (pc' \in Claims /\ entry.ticket = mem'.at[k].ticket)
    BY DEF RunningHasWorker, Claims, Status, Ticket
  <2>1. mem'.at[k] = mem.at[k]
    OBVIOUS
  <2>2. poison \/ (pc \in Claims /\ entry.ticket = Ticket(k))
    BY <2>1 DEF WorkerKept, RunningHasWorker, Claims, Status
  <2> QED
    BY <2>1, <2>2 DEF Ticket
<1>5. ServedInOrder'
  <2> SUFFICES ASSUME NEW k \in Jobs, pc' \in Serving, mem'.at[k].status = "pending"
               PROVE  mem'.at[k].ticket = entry.ticket \/ mem'.at[k].seq > entry.seq
    BY DEF ServedInOrder, Serving, Status, Ticket
  <2>1. pc \in Serving /\ Active
    BY DEF Serving, Active
  <2>2. CASE mem'.at[k] = mem.at[k]
    BY <2>1, <2>2 DEF WorkerKept, ServedInOrder, Serving, Status, Ticket
  <2>3. CASE mem' = new /\ k = j
    BY <1>1, <2>1, <2>3 DEF WorkerKept, PickKept
  <2> QED
    BY <2>2, <2>3
<1> QED
  BY <1>2, <1>3, <1>4, <1>5 DEF WorkerKept

(* Before the queue is open, and after it went down, there is no worker.   *)
LEMMA IdleKept ==
  ASSUME pc' = "off", phase' # "down" => \A k \in Jobs : mem'.at[k].status # "running"
  PROVE  WorkerKept'
BY DEF WorkerKept, PickKept, HoldsClaim, RunningHasWorker, ServedInOrder, Active, Claims, Status

(* An API call changes nothing of what the worker relies on: it edits only *)
(* entries that are not running, or refuses.                               *)
LEMMA CallKept == ASSUME IInv, Working, NEW j \in Jobs, Call(j) PROVE WorkerKept'
<1> USE DEF owner, worker, history, disk
<1>a. mem \in Journals /\ TypeOK /\ minted \in Nat /\ mem.next \in Nat
  BY QueueAssumption DEF IInv, TypeOK, Journals
<1>b. Coherent /\ WorkerKept
  BY DEF Working
<1>1. ASSUME NEW retry \in BOOLEAN, Enqueue(j, retry) PROVE WorkerKept'
  <2>1. PICK new : new = [WithEntry(j, NewEntry(j)) EXCEPT !.next = @ + 1]
    OBVIOUS
  <2>2. /\ new \in Journals /\ new.next = mem.next + 1
        /\ \A k \in Jobs \ {j} : new.at[k] = mem.at[k]
        /\ new.at[j].status = "pending" /\ new.at[j].ticket = minted + 1
        /\ new.at[j].seq = mem.next
    BY <1>1, <1>a, <2>1, EnqueueOnly DEF Enqueue
  <2>3. Up /\ ~poison /\ ApiSave(new) /\ Status(j) # "running"
    BY <1>1, <2>1 DEF Enqueue, Enqueueable, Ready, Up, Terminal
  <2>4. /\ UNCHANGED <<phase, pc, entry>> /\ minted' = minted + 1 /\ mem' \in {mem, new}
    BY <1>1, <1>b, <2>3, SaveCoherent DEF Enqueue
  <2>5. new.next >= mem.next /\ (Active' => Active)
    BY <1>a, <2>2, <2>4 DEF Active
  <2> QED
    BY <1>b, <2>2, <2>3, <2>4, <2>5, EditKept
<1>2. CASE CancelPending(j)
  <2>1. /\ Up /\ ~poison /\ Status(j) = "pending" /\ ApiSave(WithStatus(j, "cancelled"))
        /\ UNCHANGED <<phase, pc, entry, minted>> /\ "cancelled" \in Statuses
    BY <1>2 DEF CancelPending, Ready, Up, Statuses, Terminal
  <2>2. /\ WithStatus(j, "cancelled") \in Journals
        /\ WithStatus(j, "cancelled").next >= mem.next
        /\ \A k \in Jobs \ {j} : WithStatus(j, "cancelled").at[k] = mem.at[k]
        /\ WithStatus(j, "cancelled").at[j].status = "cancelled"
        /\ WithStatus(j, "cancelled").at[j].ticket = Ticket(j)
    BY <1>a, <2>1, StatusOnly
  <2>3. mem' \in {mem, WithStatus(j, "cancelled")} /\ (Active' => Active)
    BY <1>b, <2>1, SaveCoherent DEF Active
  <2> QED
    BY <1>b, <2>1, <2>2, <2>3, EditKept
<1>3. ASSUME Forget(j) \/ (Delete(j) /\ Status(j) # "none") PROVE WorkerKept'
  <2>1. /\ Up /\ ~poison /\ Status(j) # "running" /\ ApiSave(WithEntry(j, NoEntry))
        /\ UNCHANGED <<phase, pc, entry, minted>>
    BY <1>3 DEF Forget, Delete, Ready, Up, Terminal, ApiSave
  <2>2. /\ WithEntry(j, NoEntry) \in Journals
        /\ WithEntry(j, NoEntry).next >= mem.next
        /\ \A k \in Jobs \ {j} : WithEntry(j, NoEntry).at[k] = mem.at[k]
        /\ WithEntry(j, NoEntry).at[j].status = "none"
    BY <1>a, ForgetOnly
  <2>3. mem' \in {mem, WithEntry(j, NoEntry)} /\ (Active' => Active)
    BY <1>b, <2>1, SaveCoherent DEF Active
  <2> QED
    BY <1>b, <2>1, <2>2, <2>3, EditKept
<1>4. ASSUME \/ EnqueueAgain(j) \/ CancelRunning(j) \/ CancelAgain(j)
             \/ Delete(j) /\ Status(j) = "none"
             \/ \E c \in Configs : Upload(j, c) \/ Rebind(j, c)
      PROVE  WorkerKept'
  <2>1. UNCHANGED <<mem, entry, phase, minted, pc, poison>>
    BY <1>4 DEF EnqueueAgain, CancelRunning, CancelAgain, Delete, Terminal, Upload, Rebind
  <2> QED
    BY <1>b, <2>1, QuietKept DEF Active
<1> QED
  BY <1>1, <1>2, <1>3, <1>4 DEF Call, Cancel

(* Picking the first pending entry: no claim is open, and every other      *)
(* pending entry has a larger sequence number.                             *)
LEMMA PickStep == ASSUME IInv, Working, Pick PROVE WorkerKept'
<1> USE DEF owner, worker, history, disk
<1>1. /\ pc = "pick" /\ ~poison /\ Up /\ WorkerKept
      /\ UNCHANGED <<mem, phase, poison, minted>>
  BY WorkerUp DEF Pick, Working
<1>2. CASE pc' = "asleep" /\ entry' = entry
  BY <1>1, <1>2, QuietKept DEF Active, Claims, Serving
<1>3. ASSUME NEW j \in Jobs, First(j), pc' = "picked",
             entry' = [job |-> j, ticket |-> Ticket(j), seq |-> mem.at[j].seq,
                       config |-> mem.at[j].config, attempts |-> mem.at[j].attempts]
      PROVE  WorkerKept'
  <2>1. /\ mem \in Journals /\ Loadable(mem) /\ Backed(mem, minted, runs) /\ mem.next \in Nat
        /\ Status(j) = "pending" /\ Ticket(j) \in Tickets
    BY <1>1, <1>3, MemoryLoads, TicketType DEF First
  <2>2. /\ entry'.job = j /\ entry'.ticket = Ticket(j) /\ entry'.seq = mem.at[j].seq
    BY <1>3
  <2>3. PickKept'
    BY <1>1, <2>1, <2>2 DEF PickKept, Loadable, Backed, Status, Ticket
  <2>4. HoldsClaim'
    BY <1>3 DEF HoldsClaim, Claims
  <2>5. RunningHasWorker'
    BY <1>1 DEF WorkerKept, RunningHasWorker, Status, Up
  <2>6. ServedInOrder'
    <3> SUFFICES ASSUME NEW k \in Jobs, Status(k) = "pending"
                 PROVE  Ticket(k) = Ticket(j) \/ mem.at[k].seq > mem.at[j].seq
      BY <1>1, <2>2 DEF ServedInOrder, Status, Ticket
    <3>1. mem.at[j].seq <= mem.at[k].seq /\ (k # j => mem.at[j].seq # mem.at[k].seq)
      BY <1>3, <2>1 DEF First, Loadable, Status
    <3>2. mem.at[j].seq \in Int /\ mem.at[k].seq \in Int
      BY <2>1 DEF Journals, Entries, FilledEntries, NoEntry
    <3> QED
      BY <3>1, <3>2
  <2> QED
    BY <2>3, <2>4, <2>5, <2>6 DEF WorkerKept
<1> QED
  BY <1>2, <1>3 DEF Pick

(* The claim: only the picked job can still hold the ticket, and nothing   *)
(* else was running.                                                       *)
LEMMA ClaimStep == ASSUME IInv, Working, Claim PROVE WorkerKept'
<1> USE DEF owner, worker, history, disk
<1>1. /\ pc = "admitted" /\ ~poison /\ Up /\ WorkerKept /\ Active /\ mem \in Journals
      /\ entry' = entry /\ phase' = phase /\ minted' = minted
  BY WorkerUp DEF Claim, Working, Active, IInv, TypeOK
<1>2. PICK j \in Jobs :
        /\ Status(j) = "pending" /\ Ticket(j) = entry.ticket
        /\ \/ Saved(WithStatus(j, "running")) /\ poison' = poison /\ pc' = "claimed"
           \/ WorkerSaveFails(WithStatus(j, "running")) /\ pc' = "release"
  BY DEF Claim, Holding
<1>3. CASE pc' = "release"
  <2>1. mem' = mem /\ poison'
    BY <1>2, <1>3 DEF WorkerSaveFails, Uncertain, NotSaved
  <2> QED
    BY <1>1, <1>3, <2>1, QuietKept DEF Active, Claims, Serving
<1>4. CASE Saved(WithStatus(j, "running")) /\ poison' = poison /\ pc' = "claimed"
  <2> DEFINE new == WithStatus(j, "running")
  <2>1. mem' = new /\ j = entry.job
    BY <1>1, <1>2, <1>4 DEF Saved, WorkerKept, PickKept
  <2>2. /\ new \in Journals /\ new.next = mem.next
        /\ \A k \in Jobs \ {j} : new.at[k] = mem.at[k]
        /\ new.at[j].status = "running" /\ new.at[j].ticket = Ticket(j)
    BY <1>1, <1>2, StatusOnly DEF Statuses
  <2> HIDE DEF new
  <2>3. PickKept'
    BY <1>1, <1>2, <2>1, <2>2 DEF WorkerKept, PickKept, Status, Ticket
  <2>4. HoldsClaim'
    BY <1>1, <1>2, <2>1, <2>2 DEF HoldsClaim, Status, Ticket
  <2>5. RunningHasWorker'
    <3>1. \A k \in Jobs : Status(k) # "running"
      BY <1>1 DEF WorkerKept, RunningHasWorker, Up
    <3> QED
      BY <1>1, <1>2, <1>4, <2>1, <2>2, <3>1 DEF RunningHasWorker, Status, Ticket
  <2>6. ServedInOrder'
    BY <1>1, <2>1, <2>2 DEF WorkerKept, ServedInOrder, Status, Ticket
  <2> QED
    BY <2>3, <2>4, <2>5, <2>6 DEF WorkerKept
<1> QED
  BY <1>2, <1>3, <1>4

(* Recording the outcome ends the only running entry, or poisons.          *)
LEMMA FinishStep == ASSUME IInv, Working, Finish PROVE WorkerKept'
<1> USE DEF owner, worker, history, disk
<1>1. /\ pc = "finish" /\ pc' \in {"uncertain", "release"} /\ Up /\ WorkerKept /\ Coherent
      /\ mem \in Journals /\ Loadable(mem) /\ Active
      /\ UNCHANGED <<entry, phase, minted, outcome>>
  BY WorkerUp, MemoryLoads DEF Finish, Working, Active, IInv, TypeOK
<1>2. /\ entry.job \in Jobs /\ Status(entry.job) = "running" /\ Ticket(entry.job) = entry.ticket
  BY <1>1 DEF WorkerKept, HoldsClaim, Claims, IInv, TypeOK, WorkEntries
<1>3. HoldsClaim' /\ ServedInOrder'
  BY <1>1 DEF HoldsClaim, ServedInOrder, Claims
<1>4. CASE poison /\ UNCHANGED <<mem, poison>>
  BY <1>1, <1>3, <1>4 DEF WorkerKept, PickKept, RunningHasWorker, Status, Ticket
<1>5. ASSUME NEW j \in Holding("running"), WorkerSave(WithStatus(j, outcome)), ~poison
      PROVE  WorkerKept'
  <2> DEFINE new == WithStatus(j, outcome)
  <2>1. /\ j \in Jobs /\ Status(j) = "running" /\ Ticket(j) = entry.ticket
        /\ outcome \in Terminal /\ outcome \in Statuses
    BY DEF Holding, IInv, TypeOK, Statuses
  <2>2. /\ new \in Journals /\ new.next = mem.next
        /\ \A k \in Jobs \ {j} : new.at[k] = mem.at[k]
        /\ new.at[j].status = outcome /\ new.at[j].ticket = Ticket(j)
    BY <1>1, <2>1, StatusOnly
  <2>3. (mem' = new \/ poison') /\ mem' \in {mem, new}
    BY <1>5 DEF WorkerSave, WorkerSaveFails, Saved, NotSaved, Uncertain
  <2> HIDE DEF new
  <2>4. PickKept'
    BY <1>1, <2>1, <2>2, <2>3 DEF WorkerKept, PickKept, Status, Ticket
  <2>5. RunningHasWorker'
    <3> SUFFICES ASSUME NEW k \in Jobs, mem'.at[k].status = "running", ~poison' PROVE FALSE
      BY DEF RunningHasWorker, Status
    <3>1. k # j
      BY <2>2, <2>3, <2>1 DEF Terminal
    <3>2. mem.at[k].status = "running"
      BY <2>2, <2>3, <3>1
    <3>3. Ticket(k) = entry.ticket
      BY <1>1, <1>5, <3>2 DEF WorkerKept, RunningHasWorker, Up, Status
    <3> QED
      BY <1>1, <2>1, <3>1, <3>2, <3>3 DEF Loadable, Status, Ticket
  <2> QED
    BY <1>3, <2>4, <2>5 DEF WorkerKept
<1> QED
  BY <1>2, <1>4, <1>5 DEF Finish, Holding

(* Every step of the worker keeps what it relies on.                       *)
LEMMA WorkKept == ASSUME IInv, Working, Work \/ Timeout PROVE WorkerKept'
<1> USE DEF owner, worker, history, disk
<1>a. WorkerKept /\ Coherent /\ mem \in Journals /\ mem.next \in Nat
  BY DEF Working, IInv, TypeOK, Journals
<1>1. CASE WorkerLeaves \/ WorkerWakes \/ Admission \/ NoClaim \/ Check \/ RunRefused \/ StartRun
           \/ EndRun \/ StopUncertain \/ Release \/ Timeout
  <2>1. /\ UNCHANGED <<mem, entry, phase, minted>> /\ (poison => poison')
        /\ (Active' => Active) /\ (pc' \in Claims <=> pc \in Claims)
        /\ (pc' \in Serving => pc \in Serving)
    BY <1>1 DEF WorkerLeaves, WorkerWakes, Admission, NoClaim, Check, RunRefused, StartRun,
       EndRun, StopUncertain, Release, Timeout, RecordLater, Active, Claims, Serving
  <2> QED
    BY <1>a, <2>1, QuietKept
<1>2. CASE RecordRefusal
  <2>1. /\ pc \in {"refused", "expired"} /\ pc' \in {"pick", "release"} /\ Up
        /\ UNCHANGED <<entry, phase, minted>> /\ Active
    BY <1>2, WorkerUp DEF RecordRefusal, Active
  <2>2. CASE UNCHANGED <<mem, poison>>
    BY <1>a, <2>1, <2>2, QuietKept DEF Claims, Serving
  <2>3. ASSUME NEW j \in Holding("pending"), WorkerSave(WithStatus(j, "failed")), ~poison
        PROVE  WorkerKept'
    <3>1. j \in Jobs /\ Status(j) = "pending" /\ "failed" \in Statuses
      BY DEF Holding, Statuses, Terminal
    <3>2. /\ WithStatus(j, "failed") \in Journals
          /\ WithStatus(j, "failed").next >= mem.next
          /\ \A k \in Jobs \ {j} : WithStatus(j, "failed").at[k] = mem.at[k]
          /\ WithStatus(j, "failed").at[j].status = "failed"
          /\ WithStatus(j, "failed").at[j].ticket = Ticket(j)
      BY <1>a, <3>1, StatusOnly
    <3>3. mem' \in {mem, WithStatus(j, "failed")}
      BY <1>a, <2>1, <2>3, SaveCoherent
    <3>4. pc \notin Claims
      BY <2>1 DEF Claims
    <3> QED
      BY <1>a, <2>1, <2>3, <3>1, <3>2, <3>3, <3>4, EditKept
  <2> QED
    BY <1>2, <2>2, <2>3 DEF RecordRefusal
<1> QED
  BY <1>1, <1>2, PickStep, ClaimStep, FinishStep DEF Work

(* So do the steps of the owner, of the process and of the machine.        *)
LEMMA OwnerKept ==
  ASSUME IInv, Working,
         Start \/ StartContextEnds \/ Shutdown \/ Close \/ Kill \/ PowerLoss \/ Open
  PROVE  WorkerKept'
<1> USE DEF owner, worker, history, disk
<1>1. CASE Start
  BY <1>1, QuietKept DEF Start, Working, Active, Claims, Serving
<1>2. CASE StartContextEnds
  BY <1>2, QuietKept DEF StartContextEnds, Working, Active
<1>3. CASE Shutdown
  BY <1>3 DEF Shutdown, Ready, Working, WorkerKept, PickKept, HoldsClaim, RunningHasWorker,
     ServedInOrder, Active, Status, Ticket, Up
<1>4. CASE Close \/ Kill \/ PowerLoss
  BY <1>4, IdleKept DEF Close, Kill, PowerLoss, MemoryLost
<1>5. CASE Open
  <2>1. pc = "off" /\ pc' = "off" /\ file \in Journals /\ phase = "down"
    BY <1>5 DEF Open, IInv, DiskSound, TypeOK
  <2>2. phase' # "down" => mem' = Interrupted(file)
    BY <1>5, <2>1 DEF Open, Saved
  <2> QED
    BY <2>1, <2>2, InterruptedOnly, IdleKept
<1> QED
  BY <1>1, <1>2, <1>3, <1>4, <1>5

-----------------------------------------------------------------------------
(* The recording: nobody but the worker starts, ends or removes it while   *)
(* it is claimed and checked, since its entry is running.                  *)
LEMMA JobStep == ASSUME IInv, Working, Next PROVE JobKept'
<1> USE DEF owner, worker, history, disk
<1>a. /\ job \in [Jobs -> Manifests] /\ entry.job \in Jobs /\ JobKept /\ HoldsClaim
      /\ entry.attempts \in Nat
  BY DEF IInv, TypeOK, Working, WorkerKept, WorkEntries
<1>b. \A k \in Jobs : job[k].attempts \in Nat
  BY <1>a DEF Manifests
<1>1. ASSUME NEW j \in Jobs, Call(j) PROVE JobKept'
  <2>1. ASSUME UNCHANGED <<job, pc, entry>> PROVE JobKept'
    BY <1>a, <2>1 DEF JobKept, RunsWhatWasEnqueued
  <2>2. CASE Delete(j)
    <3>1. /\ pc # "running" /\ pc' = pc /\ entry' = entry /\ Status(j) \in Terminal \cup {"none"}
          /\ job' = [job EXCEPT ![j].status = "deleted"]
      BY <2>2 DEF Delete, StoreBusy
    <3>2. pc = "checked" => entry.job # j
      BY <1>a, <3>1 DEF HoldsClaim, Claims, Terminal
    <3> QED
      BY <1>a, <3>1, <3>2 DEF JobKept, RunsWhatWasEnqueued
  <2>3. ASSUME NEW c \in Configs, Upload(j, c) PROVE JobKept'
    BY <1>a, <2>3 DEF Upload, StoreBusy, JobKept, RunsWhatWasEnqueued
  <2>4. ASSUME NEW c \in Configs, Rebind(j, c) PROVE JobKept'
    BY <1>a, <2>4 DEF Rebind, StoreBusy, JobKept, RunsWhatWasEnqueued, Manifests
  <2> QED
    BY <1>1, <2>1, <2>2, <2>3, <2>4 DEF Call, Cancel, Enqueue, EnqueueAgain, CancelPending,
       CancelRunning, CancelAgain, Forget
<1>2. ASSUME Work \/ Timeout PROVE JobKept'
  <2>1. CASE StartRun
    BY <1>a, <2>1 DEF StartRun, JobKept, RunsWhatWasEnqueued, Manifests
  <2>2. CASE Check
    BY <1>a, <2>2 DEF Check, Unchanged, RecordLater, JobKept, RunsWhatWasEnqueued
  <2>3. CASE RunRefused \/ EndRun
    BY <2>3 DEF RunRefused, EndRun, RecordLater, JobKept, RunsWhatWasEnqueued
  <2>4. CASE Timeout
    BY <1>a, <2>4 DEF Timeout, JobKept, RunsWhatWasEnqueued
  <2>5. CASE Pick \/ WorkerLeaves \/ WorkerWakes \/ Admission \/ RecordRefusal \/ Claim \/ NoClaim
             \/ Finish \/ StopUncertain \/ Release
    <3>1. pc' \notin {"checked", "running"}
      BY <2>5 DEF Pick, WorkerLeaves, WorkerWakes, Admission, RecordRefusal, Claim, NoClaim, Finish,
         StopUncertain, Release
    <3> QED
      BY <3>1 DEF JobKept, RunsWhatWasEnqueued
  <2> QED
    BY <1>2, <2>1, <2>2, <2>3, <2>4, <2>5 DEF Work
<1>3. CASE Start \/ Close \/ Kill \/ PowerLoss \/ Open
  <2>1. pc' \in {"pick", "off"}
    BY <1>3 DEF Start, Close, Kill, PowerLoss, MemoryLost, Open, IInv, DiskSound
  <2> QED
    BY <2>1 DEF JobKept, RunsWhatWasEnqueued
<1>4. CASE StartContextEnds \/ Shutdown
  BY <1>a, <1>4 DEF StartContextEnds, Shutdown, JobKept, RunsWhatWasEnqueued
<1> QED
  BY <1>1, <1>2, <1>3, <1>4 DEF Next

-----------------------------------------------------------------------------
(* There is no worker at first.                                            *)
LEMMA InitWorking == Init => Working
BY DEF Init, Working, Coherent, Up, WorkerKept, PickKept, HoldsClaim, RunningHasWorker,
   ServedInOrder, JobKept, RunsWhatWasEnqueued, Active, Claims

(* No step breaks the worker's invariant.                                  *)
LEMMA StepWorking == ASSUME IInv, Working, [Next]_vars PROVE Working'
<1>1. CASE UNCHANGED vars
  BY <1>1 DEF vars, Working, Coherent, Up, WorkerKept, PickKept, HoldsClaim, RunningHasWorker,
     ServedInOrder, JobKept, RunsWhatWasEnqueued, Active, Claims, Status, Ticket
<1>2. CASE Next
  <2>1. WorkerKept'
    BY <1>2, CallKept, WorkKept, OwnerKept DEF Next
  <2> QED
    BY <1>2, <2>1, CoherentStep, JobStep DEF Working
<1> QED
  BY <1>1, <1>2

(* The worker's invariant holds in every reachable state.                  *)
THEOREM WorkerInductive == Spec => [](IInv /\ Working)
<1>1. Init => IInv /\ Working
  BY InitInv, InitWorking
<1>2. IInv /\ Working /\ [Next]_vars => (IInv /\ Working)'
  BY StepInv, StepWorking
<1> QED
  BY <1>1, <1>2, PTL DEF Spec

(* Tickets start in the order of their sequence numbers: nothing that is   *)
(* pending was enqueued before the entry the worker serves.                *)
THEOREM FirstComeFirstServed == Spec => []ServedInOrder
<1>1. IInv /\ Working => ServedInOrder
  BY DEF Working, WorkerKept
<1> QED
  BY <1>1, WorkerInductive, PTL

(* The stages run with the configuration and the attempt the ticket was    *)
(* issued for, although the owner may rebind the recording until the check *)
(* and delete it whenever no stage runs.                                   *)
THEOREM RunsAsEnqueued == Spec => []RunsWhatWasEnqueued
<1>1. IInv /\ Working => RunsWhatWasEnqueued
  BY DEF Working, JobKept
<1> QED
  BY <1>1, WorkerInductive, PTL

(* A poisoned queue writes nothing, neither in memory nor on disk, until   *)
(* it is closed and opened again.                                          *)
THEOREM PoisonIsFinal == Spec => PoisonFreezes
<1>1. ASSUME IInv, Working, [Next]_vars, poison, phase' # "down"
      PROVE  UNCHANGED <<mem, file, possible>>
  <2> USE DEF owner, worker, history, disk
  <2>1. Up
    BY <1>1 DEF Working, Coherent
  <2>2. ASSUME NEW j \in Jobs, Call(j) PROVE UNCHANGED <<mem, file, possible>>
    BY <1>1, <2>2 DEF Call, Enqueue, EnqueueAgain, Cancel, CancelPending, CancelRunning,
       CancelAgain, Forget, Delete, Upload, Rebind, Ready
  <2>3. CASE Work \/ Timeout
    BY <1>1, <2>3 DEF Work, Timeout, Pick, WorkerLeaves, WorkerWakes, Admission, RecordRefusal,
       Claim, NoClaim, Check, StartRun, RunRefused, EndRun, Finish, StopUncertain, Release
  <2>4. CASE Start \/ StartContextEnds \/ Shutdown
    BY <2>4 DEF Start, StartContextEnds, Shutdown
  <2>5. CASE Close \/ Kill \/ PowerLoss \/ Open
    BY <1>1, <2>1, <2>5 DEF Close, Kill, PowerLoss, MemoryLost, Open, Up
  <2>6. CASE UNCHANGED vars
    BY <2>6 DEF vars
  <2> QED
    BY <1>1, <2>2, <2>3, <2>4, <2>5, <2>6 DEF Next
<1>2. IInv /\ Working /\ [Next]_vars
        => [poison /\ phase' # "down" => UNCHANGED <<mem, file, possible>>]_vars
  BY <1>1
<1> QED
  BY <1>2, WorkerInductive, PTL DEF Spec, PoisonFreezes

-----------------------------------------------------------------------------
(* What the next restart finds.  The promises about tickets hold where a   *)
(* save that reports failure has not changed what a restart finds behind   *)
(* the back of the memory: either no power loss, or one that is the only   *)
(* way to stop between a rename and its directory sync.  Where a sync may  *)
(* fail and the power may be lost, too, they do not hold: see the run      *)
(* SpeechQueueReopen.                                                      *)
Durable == "power" \in Crashes => Crashes = {"power"} /\ "sync" \notin Faults

Restartable == IF "power" \in Crashes THEN possible ELSE {file}

(* A power loss finds the file as it is, unless a save was cut short.      *)
Settled == "power" \in Crashes => possible = {file} \/ (Up /\ mem # file)

(* A ticket recorded as succeeded, or about to be, has a complete          *)
(* recording behind it.                                                    *)
SucceededBacked ==
  /\ \A p \in Restartable, j \in Jobs :
       p.at[j].status = "succeeded" => job[j].status = "complete"
  /\ pc = "finish" /\ outcome = "succeeded" => job[entry.job].status = "complete"

(* What was withdrawn has not run, and neither the worker nor a restart    *)
(* can still come to run it.                                               *)
WithdrawnGone ==
  \A t \in withdrawn :
    /\ t <= minted /\ runs[t] = 0 /\ ~ClaimHeld(t)
    /\ \A p \in Restartable, j \in Jobs : p.at[j].status = "pending" => p.at[j].ticket # t

Told == Settled /\ SucceededBacked /\ WithdrawnGone /\ AcknowledgedIntentSurvives

(* A ready queue would restart from its memory.                            *)
LEMMA ReadyRestarts ==
  ASSUME Coherent, Settled, Up, ~poison
  PROVE  Restartable = {mem} /\ file = mem
BY DEF Coherent, Settled, Restartable

(* What a save of a ready queue does to what a restart finds.              *)
LEMMA SaveRestarts ==
  ASSUME Coherent, Settled, Up, ~poison, NEW new, ApiSave(new) \/ WorkerSave(new),
         phase' = phase
  PROVE  /\ Settled'
         /\ Restartable' \subseteq {mem, new}
         /\ Saved(new) => Restartable' = {new}
         /\ ~poison' => Saved(new)
<1>1. mem = file /\ ("power" \in Crashes => possible = {mem})
  BY ReadyRestarts DEF Settled, Coherent
<1>2. CASE Saved(new)
  BY <1>2 DEF Saved, Settled, Restartable
<1>3. CASE Uncertain(new)
  BY <1>1, <1>3 DEF Uncertain, Saved, Settled, Restartable, Up
<1>4. CASE NotSaved /\ poison'
  BY <1>1, <1>4 DEF NotSaved, Saved, Settled, Restartable, Up
<1>5. Saved(new) \/ Uncertain(new) \/ (NotSaved /\ poison')
  BY DEF ApiSave, WorkerSave, WorkerSaveFails
<1> QED
  BY <1>2, <1>3, <1>4, <1>5 DEF Uncertain, ApiSave, WorkerSave, WorkerSaveFails

(* Whatever a restart finds was possible before a power loss.              *)
LEMMA RestartablePossible ==
  ASSUME IInv
  PROVE  Restartable \subseteq possible /\ file \in Restartable
BY DEF IInv, DiskSound, Restartable

(* A save that changes one entry.  What a restart finds is then the old or *)
(* the new entry of that job, and the old entry of every other.            *)
LEMMA EditTold ==
  ASSUME IInv, Coherent, Told, Up, ~poison, NEW j \in Jobs, NEW new \in Journals,
         \A k \in Jobs \ {j} : new.at[k] = mem.at[k],
         ApiSave(new) \/ WorkerSave(new), phase' = phase,
         new.at[j].status = "succeeded" => job[j].status = "complete",
         new.at[j].status = "pending" => new.at[j].ticket = minted + 1
  PROVE  /\ Settled'
         /\ \A p \in Restartable', k \in Jobs :
              p.at[k].status = "succeeded" => job[k].status = "complete"
         /\ \A t \in withdrawn, p \in Restartable', k \in Jobs :
              p.at[k].status = "pending" => p.at[k].ticket # t
         /\ \A t \in owed, p \in Restartable' : (Status(j) = "pending" => t # Ticket(j)) =>
              \E k \in Jobs : p.at[k].ticket = t /\ p.at[k].status = "pending"
<1>1. /\ Restartable = {mem} /\ Settled' /\ Restartable' \subseteq {mem, new}
      /\ minted \in Nat /\ withdrawn \subseteq Tickets
  BY ReadyRestarts, SaveRestarts, QueueAssumption DEF Told, IInv, TypeOK
<1>2. ASSUME NEW p \in Restartable', NEW k \in Jobs, p.at[k].status = "succeeded"
      PROVE  job[k].status = "complete"
  BY <1>1, <1>2 DEF Told, SucceededBacked
<1>3. ASSUME NEW t \in withdrawn, NEW p \in Restartable', NEW k \in Jobs,
             p.at[k].status = "pending"
      PROVE  p.at[k].ticket # t
  <2>1. t <= minted /\ t \in Nat
    BY <1>1 DEF Told, WithdrawnGone, Tickets
  <2>2. p.at[k] = mem.at[k] \/ (p = new /\ k = j)
    BY <1>1
  <2> QED
    BY <1>1, <1>3, <2>1, <2>2 DEF Told, WithdrawnGone
<1>4. ASSUME NEW t \in owed, NEW p \in Restartable', Status(j) = "pending" => t # Ticket(j)
      PROVE  \E k \in Jobs : p.at[k].ticket = t /\ p.at[k].status = "pending"
  <2>1. PICK k \in Jobs : mem.at[k].ticket = t /\ mem.at[k].status = "pending"
    BY <1>1 DEF Told, AcknowledgedIntentSurvives, Restartable
  <2>2. k # j
    BY <1>4, <2>1 DEF Status, Ticket
  <2> QED
    BY <1>1, <2>1, <2>2
<1> QED
  BY <1>1, <1>2, <1>3, <1>4

(* Steps that write nothing.                                               *)
LEMMA QuietTold ==
  ASSUME Told, UNCHANGED <<mem, file, possible, minted, runs, withdrawn>>,
         Up' <=> Up, owed' \subseteq owed,
         \A t \in withdrawn : ClaimHeld(t)' => ClaimHeld(t),
         \A k \in Jobs : job[k].status = "complete" =>
           \/ job'[k].status = "complete"
           \/ \A p \in Restartable : p.at[k].status # "succeeded",
         pc' = "finish" /\ outcome' = "succeeded" => job'[entry'.job].status = "complete"
  PROVE  Told'
<1>1. Restartable' = Restartable /\ Settled'
  BY DEF Told, Settled, Restartable
<1>2. SucceededBacked'
  BY <1>1 DEF Told, SucceededBacked
<1>3. WithdrawnGone'
  BY <1>1 DEF Told, WithdrawnGone
<1>4. AcknowledgedIntentSurvives'
  BY DEF Told, AcknowledgedIntentSurvives
<1> QED
  BY <1>1, <1>2, <1>3, <1>4 DEF Told

(* The entry that holds a claim is running, so no other state of it is.    *)
LEMMA ClaimIsRunning ==
  ASSUME IInv, Working, NEW j \in Jobs, Status(j) # "none", Status(j) # "running"
  PROVE  /\ ~ClaimHeld(Ticket(j))
         /\ pc \in Claims => entry.job # j
<1>1. CASE pc \in Claims
  <2>1. Up /\ entry.job \in Jobs
    BY <1>1, WorkerUp DEF Claims, IInv, TypeOK, WorkEntries
  <2>2. Loadable(mem) /\ Status(entry.job) = "running" /\ Ticket(entry.job) = entry.ticket
    BY <1>1, <2>1, MemoryLoads DEF Working, WorkerKept, HoldsClaim
  <2> QED
    BY <2>1, <2>2 DEF Loadable, ClaimHeld, Status, Ticket
<1>2. CASE pc \notin Claims
  BY <1>2 DEF ClaimHeld, Claims
<1> QED
  BY <1>1, <1>2

(* API calls keep what was told to the callers true.                       *)
LEMMA CallTold == ASSUME IInv, Working, Told, NEW j \in Jobs, Call(j) PROVE Told'
<1> USE DEF owner, worker, history, disk
<1>a. mem \in Journals /\ TypeOK /\ minted \in Nat /\ Coherent
  BY QueueAssumption DEF IInv, TypeOK, Working
<1>1. ASSUME NEW retry \in BOOLEAN, Enqueue(j, retry) PROVE Told'
  <2>1. PICK new : new = [WithEntry(j, NewEntry(j)) EXCEPT !.next = @ + 1]
    OBVIOUS
  <2>2. /\ new \in Journals
        /\ \A k \in Jobs \ {j} : new.at[k] = mem.at[k]
        /\ new.at[j].status = "pending" /\ new.at[j].ticket = minted + 1
    BY <1>1, <1>a, <2>1, EnqueueOnly DEF Enqueue
  <2>3. /\ Up /\ ~poison /\ ApiSave(new) /\ Status(j) # "pending" /\ phase' = phase
        /\ UNCHANGED <<phase, pc, entry, outcome, job, runs, withdrawn>> /\ minted' = minted + 1
        /\ IF poison' THEN owed' = owed ELSE owed' = owed \cup {minted + 1}
    BY <1>1, <2>1 DEF Enqueue, Enqueueable, Ready, Up, Terminal
  <2>4. /\ Settled'
        /\ \A p \in Restartable', k \in Jobs :
             p.at[k].status = "succeeded" => job[k].status = "complete"
        /\ \A t \in withdrawn, p \in Restartable', k \in Jobs :
             p.at[k].status = "pending" => p.at[k].ticket # t
        /\ \A t \in owed, p \in Restartable' :
             \E k \in Jobs : p.at[k].ticket = t /\ p.at[k].status = "pending"
    BY <1>a, <2>2, <2>3, EditTold
  <2>5. SucceededBacked'
    BY <2>3, <2>4 DEF Told, SucceededBacked
  <2>6. WithdrawnGone'
    <3>1. \A t \in withdrawn : t <= minted'
      BY <1>a, <2>3 DEF Told, WithdrawnGone, TypeOK, Tickets
    <3> QED
      BY <2>3, <2>4, <3>1 DEF Told, WithdrawnGone, ClaimHeld
  <2>7. AcknowledgedIntentSurvives'
    <3>1. ~poison' => Restartable' = {new}
      BY <1>a, <2>3, SaveRestarts DEF Told
    <3> QED
      BY <2>2, <2>3, <2>4, <3>1 DEF AcknowledgedIntentSurvives, Restartable
  <2> QED
    BY <2>4, <2>5, <2>6, <2>7 DEF Told
<1>2. CASE EnqueueAgain(j)
  <2>1. /\ Up /\ ~poison /\ Status(j) = "pending" /\ owed' = owed \cup {Ticket(j)}
        /\ UNCHANGED <<mem, file, possible, phase, pc, entry, outcome, job, minted, runs,
                       withdrawn>>
    BY <1>2 DEF EnqueueAgain, Ready, Up
  <2>2. Restartable = {mem} /\ Restartable' = Restartable /\ Settled' /\ SucceededBacked'
    BY <1>a, <2>1, ReadyRestarts DEF Told, Restartable, Settled, SucceededBacked, Up
  <2>3. WithdrawnGone'
    BY <2>1, <2>2 DEF Told, WithdrawnGone, ClaimHeld
  <2>4. AcknowledgedIntentSurvives'
    BY <2>1, <2>2 DEF Told, AcknowledgedIntentSurvives, Restartable, Status, Ticket
  <2> QED
    BY <2>2, <2>3, <2>4 DEF Told
<1>3. CASE CancelPending(j)
  <2> DEFINE new == WithStatus(j, "cancelled")
  <2>1. /\ Up /\ ~poison /\ Status(j) = "pending" /\ ApiSave(new)
        /\ UNCHANGED <<phase, pc, entry, outcome, job, minted, runs>> /\ "cancelled" \in Statuses
        /\ owed' = owed \ {Ticket(j)}
        /\ withdrawn' = IF poison' THEN withdrawn ELSE withdrawn \cup {Ticket(j)}
    BY <1>3 DEF CancelPending, Ready, Up, Statuses, Terminal
  <2>2. /\ new \in Journals /\ \A k \in Jobs \ {j} : new.at[k] = mem.at[k]
        /\ new.at[j].status = "cancelled"
    BY <1>a, <2>1, StatusOnly
  <2>3. ~poison' => Restartable' = {new}
    BY <1>a, <2>1, SaveRestarts DEF Told
  <2> HIDE DEF new
  <2>4. /\ Settled'
        /\ \A p \in Restartable', k \in Jobs :
             p.at[k].status = "succeeded" => job[k].status = "complete"
        /\ \A t \in withdrawn, p \in Restartable', k \in Jobs :
             p.at[k].status = "pending" => p.at[k].ticket # t
        /\ \A t \in owed', p \in Restartable' :
             \E k \in Jobs : p.at[k].ticket = t /\ p.at[k].status = "pending"
    BY <1>a, <2>1, <2>2, EditTold
  <2>5. SucceededBacked' /\ AcknowledgedIntentSurvives'
    BY <2>1, <2>4 DEF Told, SucceededBacked, AcknowledgedIntentSurvives, Restartable
  <2>6. WithdrawnGone'
    <3>1. /\ Ticket(j) <= minted /\ runs[Ticket(j)] = 0 /\ ~ClaimHeld(Ticket(j))
      BY <2>1, MemoryLoads, ClaimIsRunning DEF Backed, Status, Ticket
    <3>2. \A k \in Jobs : new.at[k].status = "pending" => new.at[k].ticket # Ticket(j)
      BY <2>1, <2>2, MemoryLoads DEF Loadable, Status, Ticket
    <3> QED
      BY <2>1, <2>3, <2>4, <3>1, <3>2 DEF Told, WithdrawnGone, ClaimHeld
  <2> QED
    BY <2>4, <2>5, <2>6 DEF Told
<1>4. CASE CancelAgain(j)
  <2>1. /\ Up /\ ~poison /\ Status(j) = "cancelled" /\ withdrawn' = withdrawn \cup {Ticket(j)}
        /\ UNCHANGED <<mem, file, possible, phase, pc, entry, outcome, job, minted, runs, owed>>
        /\ runs[Ticket(j)] = 0
    BY <1>4 DEF CancelAgain, Ready, Up
  <2>2. Restartable = {mem} /\ Restartable' = Restartable /\ Settled' /\ SucceededBacked'
    BY <1>a, <2>1, ReadyRestarts DEF Told, Restartable, Settled, SucceededBacked, Up
  <2>3. WithdrawnGone'
    <3>1. Ticket(j) <= minted /\ ~ClaimHeld(Ticket(j))
      BY <2>1, MemoryLoads, ClaimIsRunning DEF Backed, Status, Ticket
    <3>2. \A k \in Jobs : mem.at[k].status = "pending" => mem.at[k].ticket # Ticket(j)
      BY <2>1, MemoryLoads DEF Loadable, Status, Ticket
    <3> QED
      BY <2>1, <2>2, <3>1, <3>2 DEF Told, WithdrawnGone, ClaimHeld
  <2>4. AcknowledgedIntentSurvives'
    BY <2>1, <2>2 DEF Told, AcknowledgedIntentSurvives, Restartable
  <2> QED
    BY <2>2, <2>3, <2>4 DEF Told
<1>5. ASSUME Forget(j) \/ (Delete(j) /\ Status(j) # "none") PROVE Told'
  <2> DEFINE new == WithEntry(j, NoEntry)
  <2>1. /\ Up /\ ~poison /\ Status(j) \in Terminal /\ ApiSave(new)
        /\ UNCHANGED <<phase, pc, entry, outcome, minted, runs, owed, withdrawn>>
        /\ job' = job \/ (job' = [job EXCEPT ![j].status = "deleted"] /\ Saved(new))
    BY <1>5 DEF Forget, Delete, Ready, Up, ApiSave
  <2>2. /\ new \in Journals /\ \A k \in Jobs \ {j} : new.at[k] = mem.at[k]
        /\ new.at[j].status = "none"
    BY <1>a, ForgetOnly
  <2>3. Saved(new) => Restartable' = {new}
    BY <1>a, <2>1, SaveRestarts DEF Told
  <2> HIDE DEF new
  <2>4. /\ Settled'
        /\ \A p \in Restartable', k \in Jobs :
             p.at[k].status = "succeeded" => job[k].status = "complete"
        /\ \A t \in withdrawn, p \in Restartable', k \in Jobs :
             p.at[k].status = "pending" => p.at[k].ticket # t
        /\ \A t \in owed, p \in Restartable' :
             \E k \in Jobs : p.at[k].ticket = t /\ p.at[k].status = "pending"
    BY <1>a, <2>1, <2>2, EditTold DEF Terminal
  <2>5. SucceededBacked'
    <3>1. pc = "finish" => entry.job # j
      BY <2>1, ClaimIsRunning DEF Terminal, Claims
    <3>2. job' = job \/ ((\A k \in Jobs \ {j} : job'[k] = job[k]) /\ Restartable' = {new})
      BY <1>a, <2>1, <2>3 DEF TypeOK
    <3>3. entry.job \in Jobs
      BY <1>a DEF TypeOK, WorkEntries
    <3>4. pc' = "finish" /\ outcome' = "succeeded" => job'[entry'.job].status = "complete"
      BY <2>1, <3>1, <3>2, <3>3 DEF Told, SucceededBacked
    <3>5. \A p \in Restartable', k \in Jobs :
            p.at[k].status = "succeeded" => job'[k].status = "complete"
      BY <2>2, <2>4, <3>2
    <3> QED
      BY <3>4, <3>5 DEF SucceededBacked
  <2>6. WithdrawnGone'
    BY <2>1, <2>4 DEF Told, WithdrawnGone, ClaimHeld
  <2>7. AcknowledgedIntentSurvives'
    BY <2>1, <2>4 DEF AcknowledgedIntentSurvives, Restartable
  <2> QED
    BY <2>4, <2>5, <2>6, <2>7 DEF Told
<1>6. ASSUME Delete(j), Status(j) = "none" PROVE Told'
  <2>1. /\ Up /\ ~poison /\ job' = [job EXCEPT ![j].status = "deleted"]
        /\ UNCHANGED <<mem, file, possible, phase, pc, entry, outcome, minted, runs, owed,
                       withdrawn>>
    BY <1>6 DEF Delete, Ready, Up, Terminal
  <2>2. \A p \in Restartable : p.at[j].status # "succeeded"
    BY <1>6, <1>a, <2>1, ReadyRestarts DEF Told, Status
  <2>3. pc = "finish" => entry.job # j
    BY <1>6 DEF Working, WorkerKept, HoldsClaim, Claims
  <2>4. entry.job \in Jobs /\ \A k \in Jobs \ {j} : job'[k] = job[k]
    BY <1>a, <2>1 DEF TypeOK, WorkEntries
  <2>5. pc' = "finish" /\ outcome' = "succeeded" => job'[entry'.job].status = "complete"
    BY <2>1, <2>3, <2>4 DEF Told, SucceededBacked
  <2> QED
    BY <2>1, <2>2, <2>4, <2>5, QuietTold DEF ClaimHeld, Up
<1>7. ASSUME CancelRunning(j) \/ \E c \in Configs : Upload(j, c) \/ Rebind(j, c) PROVE Told'
  <2>1. /\ UNCHANGED <<mem, file, possible, phase, pc, entry, outcome, minted, runs, owed,
                       withdrawn>>
        /\ \A k \in Jobs : job[k].status = "complete" => job'[k] = job[k]
    BY <1>7, <1>a DEF CancelRunning, Upload, Rebind, TypeOK
  <2>2. entry.job \in Jobs
    BY <1>a DEF TypeOK, WorkEntries
  <2> QED
    BY <2>1, <2>2, QuietTold DEF Told, SucceededBacked, ClaimHeld, Up
<1> QED
  BY <1>1, <1>2, <1>3, <1>4, <1>5, <1>6, <1>7 DEF Call, Cancel

(* The worker keeps them true.                                             *)
LEMMA StartRunTold == ASSUME IInv, Working, Told, StartRun PROVE Told'
<1> USE DEF owner, worker, history, disk
<1>1. /\ UNCHANGED <<mem, file, possible, phase, minted, owed, withdrawn, entry>>
      /\ pc = "checked" /\ pc' = "running"
      /\ job[entry.job].status # "complete" /\ entry.job \in Jobs
      /\ job' = [job EXCEPT ![entry.job].status = "running", ![entry.job].attempts = @ + 1]
      /\ runs' = [runs EXCEPT ![entry.ticket] = @ + 1] /\ runs \in [Tickets -> Nat]
      /\ job \in [Jobs -> Manifests] /\ withdrawn \subseteq Tickets
  BY DEF StartRun, IInv, TypeOK, WorkEntries
<1>2. Restartable' = Restartable /\ Settled' /\ AcknowledgedIntentSurvives'
  BY <1>1 DEF Told, Settled, Restartable, AcknowledgedIntentSurvives, Up
<1>3. SucceededBacked'
  BY <1>1, <1>2 DEF Told, SucceededBacked
<1>4. WithdrawnGone'
  <2>1. \A t \in withdrawn : t # entry.ticket
    BY <1>1 DEF Told, WithdrawnGone, ClaimHeld
  <2>2. \A t \in withdrawn : runs'[t] = runs[t]
    BY <1>1, <2>1
  <2> QED
    BY <1>1, <1>2, <2>2 DEF Told, WithdrawnGone, ClaimHeld
<1> QED
  BY <1>2, <1>3, <1>4 DEF Told

(* A claim starts only a ticket that nobody was told is withdrawn.         *)
LEMMA ClaimTold == ASSUME IInv, Working, Told, Claim PROVE Told'
<1> USE DEF owner, worker, history, disk
<1>1. /\ Up /\ ~poison /\ Coherent /\ mem \in Journals
      /\ UNCHANGED <<phase, entry, outcome, job, minted, runs, withdrawn>>
      /\ owed' = owed \ {entry.ticket} /\ pc' \in {"claimed", "release"}
  BY WorkerUp DEF Claim, Working, IInv, TypeOK
<1>2. PICK j \in Jobs :
        /\ Status(j) = "pending" /\ Ticket(j) = entry.ticket
        /\ WorkerSave(WithStatus(j, "running"))
  BY DEF Claim, Holding, WorkerSave
<1> DEFINE new == WithStatus(j, "running")
<1>3. /\ new \in Journals /\ \A k \in Jobs \ {j} : new.at[k] = mem.at[k]
      /\ new.at[j].status = "running"
  BY <1>1, <1>2, StatusOnly DEF Statuses
<1> HIDE DEF new
<1>4. /\ Settled'
      /\ \A p \in Restartable', k \in Jobs :
           p.at[k].status = "succeeded" => job[k].status = "complete"
      /\ \A t \in withdrawn, p \in Restartable', k \in Jobs :
           p.at[k].status = "pending" => p.at[k].ticket # t
      /\ \A t \in owed', p \in Restartable' :
           \E k \in Jobs : p.at[k].ticket = t /\ p.at[k].status = "pending"
  BY <1>1, <1>2, <1>3, EditTold DEF Working, new
<1>5. SucceededBacked' /\ AcknowledgedIntentSurvives'
  BY <1>1, <1>4 DEF SucceededBacked, AcknowledgedIntentSurvives, Restartable
<1>6. WithdrawnGone'
  <2>1. Restartable = {mem}
    BY <1>1, ReadyRestarts DEF Told
  <2>2. \A t \in withdrawn : t # entry.ticket
    BY <1>2, <2>1 DEF Told, WithdrawnGone, Status, Ticket
  <2> QED
    BY <1>1, <1>4, <2>2 DEF Told, WithdrawnGone, ClaimHeld
<1> QED
  BY <1>4, <1>5, <1>6 DEF Told

(* Recording a refusal or an outcome.                                      *)
LEMMA RecordTold ==
  ASSUME IInv, Working, Told, Up, ~poison, NEW j \in Jobs, NEW s \in Terminal,
         Status(j) # "none", Ticket(j) = entry.ticket, WorkerSave(WithStatus(j, s)),
         s = "succeeded" => job[j].status = "complete",
         UNCHANGED <<phase, entry, outcome, job, minted, runs, withdrawn>>,
         owed' \subseteq owed, Status(j) = "pending" => owed' = owed \ {entry.ticket},
         pc' \in {"pick", "release", "uncertain"}
  PROVE  Told'
<1> DEFINE new == WithStatus(j, s)
<1>0. mem \in Journals /\ s \in Statuses
  BY DEF IInv, TypeOK, Statuses
<1>1. /\ new \in Journals /\ \A k \in Jobs \ {j} : new.at[k] = mem.at[k]
      /\ new.at[j].status = s
  BY <1>0, StatusOnly
<1> HIDE DEF new
<1>2. /\ Settled'
      /\ \A p \in Restartable', k \in Jobs :
           p.at[k].status = "succeeded" => job[k].status = "complete"
      /\ \A t \in withdrawn, p \in Restartable', k \in Jobs :
           p.at[k].status = "pending" => p.at[k].ticket # t
      /\ \A t \in owed, p \in Restartable' : (Status(j) = "pending" => t # Ticket(j)) =>
           \E k \in Jobs : p.at[k].ticket = t /\ p.at[k].status = "pending"
  BY <1>1, EditTold DEF Working, Terminal, new
<1>3. SucceededBacked' /\ WithdrawnGone'
  BY <1>2 DEF Told, SucceededBacked, WithdrawnGone, ClaimHeld
<1>4. AcknowledgedIntentSurvives'
  BY <1>2 DEF AcknowledgedIntentSurvives, Restartable
<1> QED
  BY <1>2, <1>3, <1>4 DEF Told

(* Every step of the worker keeps what was told true.                      *)
LEMMA WorkTold == ASSUME IInv, Working, Told, Work \/ Timeout PROVE Told'
<1> USE DEF owner, worker, history, disk
<1>a. entry.job \in Jobs /\ job \in [Jobs -> Manifests] /\ outcome \in Terminal
  BY DEF IInv, TypeOK, WorkEntries
<1>1. CASE Pick \/ WorkerLeaves \/ WorkerWakes \/ Admission \/ NoClaim \/ Check \/ StopUncertain
           \/ Release \/ Timeout
  <2>1. /\ UNCHANGED <<mem, file, possible, phase, job, outcome, minted, runs, owed, withdrawn>>
           \/ (pc = "claimed" /\ pc' = "finish" /\ outcome' = "failed"
               /\ UNCHANGED <<mem, file, possible, phase, job, minted, runs, owed, withdrawn>>)
        /\ \A t \in withdrawn : ClaimHeld(t)' => ClaimHeld(t)
        /\ pc' = "finish" /\ outcome' = "succeeded" =>
             pc = "finish" /\ outcome = "succeeded" /\ entry' = entry
    BY <1>1 DEF Pick, WorkerLeaves, WorkerWakes, Admission, NoClaim, Check, StopUncertain,
       Release, Timeout, RecordLater, ClaimHeld
  <2> QED
    BY <2>1, QuietTold DEF Told, SucceededBacked, Up
<1>2. CASE RunRefused \/ EndRun
  <2>1. /\ UNCHANGED <<mem, file, possible, phase, entry, minted, runs, owed, withdrawn>>
        /\ pc' = "finish"
        /\ \A k \in Jobs \ {entry.job} : job'[k] = job[k]
        /\ job[entry.job].status # "complete"
        /\ outcome' = "succeeded" => job'[entry.job].status = "complete"
    BY <1>2, <1>a DEF RunRefused, EndRun, RecordLater, Working, JobKept, Manifests
  <2> QED
    BY <2>1, QuietTold DEF ClaimHeld, Up
<1>3. CASE RecordRefusal
  <2>1. /\ pc' \in {"pick", "release"} /\ Up
        /\ UNCHANGED <<phase, entry, outcome, job, minted, runs, withdrawn>>
        /\ owed' \subseteq owed
    BY <1>3, WorkerUp DEF RecordRefusal
  <2>2. CASE UNCHANGED <<mem, disk, poison, owed>>
    BY <2>1, <2>2, QuietTold DEF ClaimHeld, Up
  <2>3. ASSUME NEW j \in Holding("pending"), WorkerSave(WithStatus(j, "failed")), ~poison,
               owed' = owed \ {entry.ticket}
        PROVE  Told'
    BY <2>1, <2>3, RecordTold DEF Holding, Terminal
  <2> QED
    BY <1>3, <2>2, <2>3 DEF RecordRefusal
<1>4. CASE Finish
  <2>1. /\ pc = "finish" /\ pc' \in {"uncertain", "release"} /\ Up
        /\ UNCHANGED <<phase, entry, outcome, job, minted, runs, owed, withdrawn>>
    BY <1>4, WorkerUp DEF Finish
  <2>2. CASE UNCHANGED <<mem, disk, poison>>
    BY <2>1, <2>2, QuietTold DEF ClaimHeld, Up
  <2>3. ASSUME NEW j \in Holding("running"), WorkerSave(WithStatus(j, outcome)), ~poison
        PROVE  Told'
    <3>1. j \in Jobs /\ Status(j) = "running" /\ Ticket(j) = entry.ticket
      BY DEF Holding
    <3>2. j = entry.job
      BY <2>1, <3>1 DEF Working, WorkerKept, PickKept, Active
    <3>3. outcome = "succeeded" => job[j].status = "complete"
      BY <2>1, <3>2 DEF Told, SucceededBacked
    <3> QED
      BY <1>a, <2>1, <2>3, <3>1, <3>3, RecordTold
  <2> QED
    BY <1>4, <2>2, <2>3 DEF Finish
<1> QED
  BY <1>1, <1>2, <1>3, <1>4, StartRunTold, ClaimTold DEF Work

-----------------------------------------------------------------------------
(* A restart from a journal that was restartable, or from what open made   *)
(* of it, keeps what was told.                                             *)
LEMMA RestartTold ==
  ASSUME IInv, Told, NEW p \in Restartable, p \in Journals,
         Restartable' = {p} \/ Restartable' = {Interrupted(p)},
         Settled', pc' \notin {"claimed", "checked", "finish"},
         UNCHANGED <<minted, runs, owed, withdrawn>>,
         \A k \in Jobs : job[k].status = "complete" => job'[k].status = "complete"
  PROVE  Told'
<1>1. PICK q : Restartable' = {q} /\ (q = p \/ q = Interrupted(p))
  OBVIOUS
<1>2. ASSUME NEW k \in Jobs
      PROVE  \/ q.at[k] = p.at[k]
             \/ /\ p.at[k].status = "running" /\ q.at[k].status = "interrupted"
  BY <1>1, InterruptedOnly
<1>3. SucceededBacked'
  BY <1>1, <1>2 DEF Told, SucceededBacked
<1>4. WithdrawnGone'
  BY <1>1, <1>2 DEF Told, WithdrawnGone, ClaimHeld
<1>5. AcknowledgedIntentSurvives'
  <2>1. \A t \in owed : \E k \in Jobs : p.at[k].ticket = t /\ p.at[k].status = "pending"
    BY DEF Told, AcknowledgedIntentSurvives, Restartable
  <2>2. \A t \in owed : \E k \in Jobs : q.at[k].ticket = t /\ q.at[k].status = "pending"
    BY <1>2, <2>1
  <2> QED
    BY <1>1, <2>2 DEF AcknowledgedIntentSurvives, Restartable
<1> QED
  BY <1>3, <1>4, <1>5 DEF Told

(* The owner, process deaths, power losses and restarts keep them true.    *)
LEMMA OwnerTold ==
  ASSUME Durable, IInv, Working, Told,
         \/ Kill \/ PowerLoss
         \/ ~DiedInSave /\ (Start \/ StartContextEnds \/ Shutdown \/ Close \/ Open)
  PROVE  Told'
<1> USE DEF owner, worker, history, disk
<1>a. /\ file \in Restartable /\ Restartable \subseteq possible /\ possible \subseteq Journals
      /\ file \in Journals
  BY RestartablePossible DEF IInv, TypeOK
<1>1. CASE Start \/ StartContextEnds \/ Shutdown
  <2>1. /\ UNCHANGED <<mem, file, possible, minted, runs, withdrawn, owed, job, entry, outcome>>
        /\ pc' = pc \/ pc' = "pick"
        /\ Up' <=> Up
    BY <1>1 DEF Start, StartContextEnds, Shutdown, Ready, Up
  <2> QED
    BY <2>1, QuietTold DEF Told, SucceededBacked, ClaimHeld
<1>2. CASE (Close /\ ~DiedInSave) \/ Kill
  <2>1. /\ UNCHANGED <<file, possible, minted, runs, owed, withdrawn, job>> /\ pc' = "off"
    BY <1>2 DEF Close, Kill, MemoryLost
  <2>2. "power" \in Crashes => possible = {file}
    <3> SUFFICES ASSUME "power" \in Crashes PROVE possible = {file}
      OBVIOUS
    <3>1. "kill" \notin Crashes /\ "sync" \notin Faults
      BY DEF Durable
    <3>2. Close /\ ~DiedInSave /\ Up
      BY <1>2, <3>1 DEF Kill, Close, Up
    <3>3. mem = file
      BY <3>1, <3>2 DEF DiedInSave, Up
    <3> QED
      BY <3>3 DEF Told, Settled
  <2>3. Restartable' = {file} /\ Settled'
    BY <2>1, <2>2 DEF Restartable, Settled
  <2> QED
    BY <1>a, <2>1, <2>3, RestartTold
<1>3. CASE PowerLoss
  <2>1. /\ "power" \in Crashes /\ possible' = {file'} /\ pc' = "off"
        /\ UNCHANGED <<minted, runs, owed, withdrawn, job>>
        /\ file' \in possible \/ file' = Interrupted(file)
    BY <1>3 DEF PowerLoss, MemoryLost
  <2>2. Restartable = possible /\ Restartable' = {file'} /\ Settled'
    BY <2>1 DEF Restartable, Settled
  <2>3. CASE file' \in possible
    BY <1>a, <2>1, <2>2, <2>3, RestartTold
  <2>4. CASE file' = Interrupted(file)
    BY <1>a, <2>1, <2>2, <2>4, RestartTold
  <2> QED
    BY <2>1, <2>3, <2>4
<1>4. CASE Open
  <2>1. /\ phase = "down" /\ pc' = "off" /\ UNCHANGED <<minted, runs, owed, withdrawn>>
        /\ \A k \in Jobs : job[k].status = "complete" => job'[k].status = "complete"
    BY <1>4 DEF Open, IInv, DiskSound
  <2>2. "power" \in Crashes => possible = {file} /\ "kill" \notin Crashes /\ "sync" \notin Faults
    BY <2>1 DEF Durable, Told, Settled, Up
  <2>3. /\ \/ file' = file /\ possible' = possible
           \/ file' = Interrupted(file) /\ possible' = {Interrupted(file)}
           \/ file' = Interrupted(file) /\ "power" \notin Crashes
    BY <1>4, <2>2 DEF Open, Saved
  <2>4. Settled' /\ (Restartable' = {file} \/ Restartable' = {Interrupted(file)})
    BY <2>2, <2>3 DEF Settled, Restartable
  <2> QED
    BY <1>a, <2>1, <2>4, RestartTold
<1> QED
  BY <1>1, <1>2, <1>3, <1>4

-----------------------------------------------------------------------------
(* Nothing was told at first.                                              *)
LEMMA InitTold == Init => Told
<1> SUFFICES ASSUME Init PROVE Told
  OBVIOUS
<1>1. \A j \in Jobs : EmptyJournal.at[j].status = "none"
  BY DEF EmptyJournal, NoEntry
<1> QED
  BY <1>1 DEF Init, Told, Settled, SucceededBacked, WithdrawnGone, AcknowledgedIntentSurvives,
     Restartable

(* No step makes what was told false, while deaths leave a save whole.     *)
LEMMA StepTold == ASSUME Durable, IInv, Working, Told, [Next]_vars PROVE Told'
<1>1. CASE UNCHANGED vars
  BY <1>1 DEF vars, Told, Settled, SucceededBacked, WithdrawnGone, AcknowledgedIntentSurvives,
     Restartable, ClaimHeld, Up
<1>2. CASE Next
  BY <1>2, CallTold, WorkTold, OwnerTold DEF Next
<1> QED
  BY <1>1, <1>2

(* What the queue told its callers stays true, in every reachable state    *)
(* and for whatever a restart finds.                                       *)
THEOREM ToldInductive == ASSUME Durable PROVE Spec => [](IInv /\ Working /\ Told)
<1>1. Init => IInv /\ Working /\ Told
  BY InitInv, InitWorking, InitTold
<1>2. IInv /\ Working /\ Told /\ [Next]_vars => (IInv /\ Working /\ Told)'
  BY StepInv, StepWorking, StepTold
<1> QED
  BY <1>1, <1>2, PTL DEF Spec

(* An acknowledged ticket nobody tried to change is pending in every       *)
(* journal that the next restart can find.                                 *)
THEOREM IntentSurvives == ASSUME Durable PROVE Spec => []AcknowledgedIntentSurvives
<1>1. IInv /\ Working /\ Told => AcknowledgedIntentSurvives
  BY DEF Told
<1> QED
  BY <1>1, ToldInductive, PTL

(* A ticket whose cancellation was confirmed before it started never runs: *)
(* not in the worker that had already picked it, nor after a restart.      *)
THEOREM WithdrawnStaysWithdrawn == ASSUME Durable PROVE Spec => []WithdrawnNeverRuns
<1>1. IInv /\ Working /\ Told => WithdrawnNeverRuns
  BY DEF Told, WithdrawnGone, WithdrawnNeverRuns
<1> QED
  BY <1>1, ToldInductive, PTL

(* What is shown as succeeded is complete, and what is shown as running    *)
(* has the worker.                                                         *)
THEOREM StatesAlwaysTrue == ASSUME Durable PROVE Spec => []StatesAreTrue
<1>1. IInv /\ Working /\ Told => StatesAreTrue
  BY RestartablePossible
     DEF Told, SucceededBacked, Working, WorkerKept, StatesAreTrue, SucceededIsComplete
<1> QED
  BY <1>1, ToldInductive, PTL
=============================================================================
