---------------------------- MODULE SpeechStore ----------------------------
(***************************************************************************)
(* The durable store of recordings: runtime/speechjob/store.go, execute.go,*)
(* retention.go and media_release.go.                                      *)
(*                                                                         *)
(* A recording is a directory with a manifest, the uploaded input and one  *)
(* payload per completed stage.  Every operation is a sequence of changes  *)
(* to directories with syncs between them; it may stop after any of them,  *)
(* because a call fails or because the process or the power dies.  A       *)
(* change that is not yet synced survives the death of the process, but a  *)
(* power loss may keep or drop it, each directory entry on its own.        *)
(*                                                                         *)
(* The store's mutex makes every operation but Run one critical section.   *)
(* Run drops the mutex, keeps the one admission slot (Store.busy), works   *)
(* on its own copy of the manifest and takes the mutex to publish it.      *)
(***************************************************************************)
EXTENDS Integers, Sequences, FiniteSets

CONSTANTS
  Jobs,         \* recordings that may be uploaded
  Configs,      \* configurations
  Titles,       \* titles the owner may give
  Outputs,      \* the bytes a stage may produce
  Plan,         \* the names of the stages of a run, in order
  MaxAttempts,  \* bound: no more runs of a recording than this
  Faults,       \* {"io"}: any file operation may fail; or {}
  Crashes       \* a subset of {"kill", "power"}

ASSUME StoreAssumption ==
  /\ Jobs # {} /\ Configs # {} /\ Titles # {} /\ Outputs # {}
  /\ Plan \in Seq(STRING) /\ Plan # <<>> /\ MaxAttempts \in Nat
  /\ Faults \subseteq {"io"} /\ Crashes \subseteq {"kill", "power"}

VARIABLES
  disk,      \* the recordings' directories
  up,        \* a process owns the store
  dying,     \* an operation stopped halfway and nothing failed: a crash is next
  pc,        \* where the executor stands
  who,       \* Store.runningID
  m,         \* Run's copy of the manifest
  cancel,    \* the context of the run is done
  born,      \* history: recordings whose token was drawn
  kept,      \* history: recordings Create acknowledged, not deleted since
  gone,      \* history: recordings Delete reported as deleted
  finished,  \* history: recordings whose completion Run acknowledged
  reported   \* history: how many checkpoints were reported as committed

run == <<pc, who, m, cancel>>
history == <<born, kept, gone, finished, reported>>
vars == <<disk, up, dying, pc, who, m, cancel, born, kept, gone, finished, reported>>

-----------------------------------------------------------------------------
(* Manifest.  A checkpoint is the key of its stage and the bytes it got;   *)
(* active counts from 1, 0 is none.                                        *)
Checkpoints == [key : Seq(Configs \cup Outputs), bytes : Outputs]

Manifests == [status : {"queued", "running", "failed", "cancelled", "complete"},
              config : Configs, title : Titles, released : BOOLEAN,
              attempts : Nat, active : Nat, cps : Seq(Checkpoints)]

NoManifest ==
  [status |-> "none", config |-> CHOOSE c \in Configs : TRUE,
   title |-> CHOOSE t \in Titles : TRUE, released |-> FALSE,
   attempts |-> 0, active |-> 0, cps |-> <<>>]

NoJob == CHOOSE j \in Jobs : TRUE

(* checkpointKey: configuration and the payloads of all earlier stages.    *)
Key(mf, i) == <<mf.config>> \o [k \in 1..(i - 1) |-> mf.cps[k].bytes]

(* A file is its name, a key or <<>> for the upload, and its bytes.        *)
Upload == <<<<>>, CHOOSE o \in Outputs : TRUE>>
Payload(cp) == <<cp.key, cp.bytes>>

(* A directory: what the kernel shows (place, manifest, files), and what a *)
(* crash may leave: any of places, any of manifests, all of durable and    *)
(* any of loose.  Where only processes die, that is what the kernel shows. *)
NoDirectory == [place |-> "absent", manifest |-> NoManifest, files |-> {},
                places |-> {"absent"}, manifests |-> {NoManifest},
                durable |-> {}, loose |-> {}]

PowerFails == "power" \in Crashes
Also(S, x) == IF PowerFails THEN S \cup {x} ELSE {x}
Loose(fs) == IF PowerFails THEN fs ELSE {}

Move(d, p) == [d EXCEPT !.place = p, !.places = Also(@, p)]
Put(d, mf) == [d EXCEPT !.manifest = mf, !.manifests = Also(@, mf)]
Link(d, f) == [d EXCEPT !.files = @ \cup {f}, !.loose = @ \cup Loose({f}),
                        !.durable = IF PowerFails THEN @ ELSE @ \cup {f}]
Unlink(d, fs) == [d EXCEPT !.files = @ \ fs, !.durable = @ \ fs,
                           !.loose = @ \cup Loose(fs \cap d.files)]
SyncDir(d) == [d EXCEPT !.manifests = {d.manifest}, !.durable = d.files, !.loose = {}]
Empty(d) == Unlink(Put(d, NoManifest), d.files)

(* The same on the whole disk, for the directory of j.                     *)
At(D, j, d) == [D EXCEPT ![j] = d]

(* Mutant of SyncRoot: the store's root directory is not synced.           *)
SyncRootNever(D) == D

SyncRoot(D) == [j \in Jobs |-> [D[j] EXCEPT !.places = {D[j].place}]]

Manifest(j) == disk[j].manifest
Loaded(j) == disk[j].place = "live" /\ Manifest(j).status # "none"
Busy == pc # "idle"

-----------------------------------------------------------------------------
(* An operation is the sequence of the disks it goes through.              *)
Wholly(ds) == disk' = ds[Len(ds)] /\ dying' = FALSE

Stops(ds, least) ==
  /\ Faults \cup Crashes # {}
  /\ \E k \in least..(Len(ds) - 1) : disk' = IF k = 0 THEN disk ELSE ds[k]
  /\ dying' = (Faults = {})

(* An operation that stops before its first change is no step.             *)
Partly(ds) == Stops(ds, 1)

(* Mutant of Save: the directory is not synced after the rename.           *)
SaveUnsynced(D, j, mf) == <<At(D, j, Put(D[j], mf)), At(D, j, Put(D[j], mf))>>

(* save: rename over the old manifest, sync the directory.                 *)
Save(D, j, mf) == <<At(D, j, Put(D[j], mf)), At(D, j, SyncDir(Put(D[j], mf)))>>

Init ==
  /\ disk = [j \in Jobs |-> NoDirectory]
  /\ up = FALSE /\ dying = FALSE
  /\ pc = "idle" /\ who = NoJob /\ m = NoManifest /\ cancel = FALSE
  /\ born = {} /\ kept = {} /\ gone = {} /\ finished = {} /\ reported = [j \in Jobs |-> 0]

-----------------------------------------------------------------------------
(* Create: directory, input, manifest, each synced before the next.        *)
Create(j, c) ==
  LET d1 == At(disk, j, Move(disk[j], "live"))
      d2 == SyncRoot(d1)
      d3 == At(d2, j, Link(d2[j], Upload))
      d4 == At(d3, j, SyncDir(d3[j]))
      ds == <<d1, d2, d3, d4>> \o
            Save(d4, j, [NoManifest EXCEPT !.status = "queued", !.config = c])
  IN /\ up /\ ~Busy /\ j \notin born
     /\ born' = born \cup {j}
     /\ \/ Wholly(ds) /\ kept' = kept \cup {j}
        \/ Partly(ds) /\ kept' = kept
     /\ UNCHANGED <<up, run, gone, finished, reported>>

(* Mutant of Rename: it does not look at the admission slot.               *)
RenameBusy(j, t) ==
  LET ds == Save(disk, j, [Manifest(j) EXCEPT !.title = t])
  IN /\ up /\ Loaded(j) /\ Manifest(j).title # t
     /\ Wholly(ds) \/ Partly(ds)
     /\ UNCHANGED <<up, run, history>>

Rename(j, t) ==
  LET ds == Save(disk, j, [Manifest(j) EXCEPT !.title = t])
  IN /\ up /\ ~Busy /\ Loaded(j) /\ Manifest(j).title # t
     /\ Wholly(ds) \/ Partly(ds)
     /\ UNCHANGED <<up, run, history>>

(* Mutant of Rebound: the checkpoints are kept.                            *)
ReboundWithCheckpoints(mf, c) == [mf EXCEPT !.config = c, !.active = 0]

(* Rebind: every checkpoint is discarded; the stale payloads are removed   *)
(* on a best-effort basis, without a sync.  Another recording may run.     *)
Rebound(mf, c) == [mf EXCEPT !.config = c, !.cps = <<>>, !.active = 0]

Rebind(j, c) ==
  LET ds == Save(disk, j, Rebound(Manifest(j), c))
      stale == ds[2][j].files \ {Upload}
      cleared(fs) == At(ds[2], j, Unlink(ds[2][j], fs))
  IN /\ up /\ ~(Busy /\ who = j) /\ Loaded(j)
     /\ Manifest(j).status \in {"failed", "cancelled"} /\ ~Manifest(j).released
     /\ Manifest(j).config # c
     /\ \/ Wholly(Append(ds, cleared(stale)))
        \/ \E fs \in SUBSET stale : Partly(ds \o <<cleared(fs), cleared(stale)>>)
     /\ reported' = [reported EXCEPT ![j] = 0]
     /\ UNCHANGED <<up, run, born, kept, gone, finished>>

(* What ReleaseMedia removes: the input and the payload of "decode".       *)
Redundant(mf) ==
  {Upload} \cup {Payload(mf.cps[i]) : i \in {i \in DOMAIN mf.cps : Plan[i] = "decode"}}

(* Mutant of ReleaseMedia: the media go before the manifest says so.       *)
ReleaseMediaFirst(j) ==
  LET d == At(disk, j, Unlink(disk[j], Redundant(Manifest(j))))
      ds == <<d>> \o Save(d, j, [Manifest(j) EXCEPT !.released = TRUE])
  IN /\ up /\ ~Busy /\ Loaded(j)
     /\ Manifest(j).status \in {"complete", "cancelled"}
     /\ Wholly(ds) \/ Partly(ds)
     /\ UNCHANGED <<up, run, history>>

ReleaseMedia(j) ==
  LET mf == [Manifest(j) EXCEPT !.released = TRUE]
      saves == IF Manifest(j).released THEN <<>> ELSE Save(disk, j, mf)
      d0 == IF saves = <<>> THEN disk ELSE saves[2]
      d1 == At(d0, j, Unlink(d0[j], {Upload}))
      d2 == At(d0, j, Unlink(d0[j], Redundant(mf)))
      ds == saves \o <<d1, d2, At(d2, j, SyncDir(d2[j]))>>
  IN /\ up /\ ~Busy /\ Loaded(j)
     /\ Manifest(j).status \in {"complete", "cancelled"}
     /\ Wholly(ds) \/ Partly(ds)
     /\ UNCHANGED <<up, run, history>>

(* Delete: hide the recording by a synced rename, then remove its data.  A *)
(* repeated Delete goes on from what an earlier one left, and has nothing  *)
(* to do if that was nothing.                                              *)
Delete(j) ==
  LET d1 == At(disk, j, Move(disk[j], "trash"))
      hides == IF disk[j].place = "live" THEN <<d1, SyncRoot(d1)>> ELSE <<>>
      d2 == IF hides = <<>> THEN disk ELSE hides[2]
      d3 == At(d2, j, Empty(d2[j]))
      d4 == At(d3, j, Move(d3[j], "absent"))
      ds == hides \o <<d3, d4, SyncRoot(d4)>>
  IN /\ up /\ ~Busy /\ j \in born
     /\ \/ disk[j].place = "absent" /\ UNCHANGED <<disk, dying>> /\ gone' = gone \cup {j}
        \/ disk[j].place # "absent" /\ Wholly(ds) /\ gone' = gone \cup {j}
        \/ disk[j].place # "absent" /\ Partly(ds) /\ gone' = gone
     /\ kept' = kept \ {j} /\ finished' = finished \ {j}
     /\ reported' = [reported EXCEPT ![j] = 0]
     /\ UNCHANGED <<up, run, born>>

-----------------------------------------------------------------------------
(* Run, its critical section: take the slot, copy the manifest.            *)
Admit(j) ==
  /\ up /\ ~Busy /\ Loaded(j)
  /\ Manifest(j).attempts < MaxAttempts
  /\ pc' = "admitted" /\ who' = j /\ m' = Manifest(j) /\ cancel' = FALSE
  /\ UNCHANGED <<disk, up, dying, history>>

Cancel ==
  /\ Busy /\ ~cancel
  /\ cancel' = TRUE
  /\ UNCHANGED <<disk, up, dying, pc, who, m, history>>

(* The executor goes on with mf, or gives the slot back.                   *)
Goes(p, mf) ==
  /\ pc' = p
  /\ IF p = "idle" THEN who' = NoJob /\ m' = NoManifest /\ cancel' = FALSE
     ELSE m' = mf /\ UNCHANGED <<who, cancel>>

(* The dependencies are there and verify.                                  *)
Verified ==
  /\ Upload \in disk[who].files
  /\ \A i \in DOMAIN m.cps :
       m.cps[i].key = Key(m, i) /\ Payload(m.cps[i]) \in disk[who].files

(* Mutant of Startable: a released recording may start if its input is     *)
(* still there.                                                            *)
StartableReleased == Verified /\ m.status # "complete"

Startable == ~m.released /\ Verified /\ m.status # "complete"

(* Run refuses, or finds a complete recording and reports it.              *)
Refuse ==
  /\ pc = "admitted" /\ (~Startable \/ cancel) /\ Goes("idle", m)
  /\ finished' = IF ~m.released /\ Verified /\ m.status = "complete" /\ ~cancel
                 THEN finished \cup {who} ELSE finished
  /\ UNCHANGED <<disk, up, dying, born, kept, gone, reported>>

(* publish: save Run's copy; then to pc p on success, to q on failure.     *)
Publish(mf, p, q) ==
  LET ds == Save(disk, who, mf)
  IN /\ \/ Wholly(ds) /\ Goes(p, mf) /\ reported' = [reported EXCEPT ![who] = Len(mf.cps)]
        \/ Stops(ds, 0) /\ Goes(q, mf) /\ reported' = reported
     /\ UNCHANGED <<up, born, kept, gone>>

(* A Run that cannot publish Running returns and leaves what it published. *)
Begin ==
  /\ pc = "admitted" /\ Startable
  /\ Publish([m EXCEPT !.status = "running", !.attempts = @ + 1], "loop", "idle")
  /\ finished' = finished

Stopped(s) == Goes("ending", [m EXCEPT !.status = s, !.active = 0])

(* The loop over the stages: the context, then the active stage.           *)
Interrupt ==
  /\ pc = "loop" /\ cancel /\ Stopped("cancelled")
  /\ UNCHANGED <<disk, up, dying, history>>

(* Mutant of NextStage: the active stage is not published.                 *)
NextStageUnpublished ==
  /\ pc = "loop" /\ Len(m.cps) < Len(Plan)
  /\ Goes("stage", [m EXCEPT !.active = Len(m.cps) + 1])
  /\ UNCHANGED <<disk, up, dying, history>>

NextStage ==
  /\ pc = "loop" /\ Len(m.cps) < Len(Plan)
  /\ Publish([m EXCEPT !.active = Len(m.cps) + 1], "stage", "failing")
  /\ finished' = finished

(* The stage and writeBlob: no payload is replaced; one that is there is   *)
(* reused if its bytes are the same, and fails the run otherwise.          *)
StageWrites(o) ==
  LET key == Key(m, m.active)
      f == <<key, o>>
      there == {g \in disk[who].files : g[1] = key}
      d == Link(disk[who], f)
      ds == (IF there = {} THEN <<At(disk, who, d)>> ELSE <<>>)
            \o <<At(disk, who, SyncDir(IF there = {} THEN d ELSE disk[who]))>>
  IN /\ pc = "stage" /\ there \subseteq {f}
     /\ \/ /\ Wholly(ds)
           /\ Goes("record", [m EXCEPT !.active = 0,
                                       !.cps = Append(@, [key |-> key, bytes |-> o])])
        \/ Stops(ds, 0) /\ Stopped("failed")
     /\ UNCHANGED <<up, history>>

(* The stage fails, panics, is over the limit, finds other bytes under its *)
(* key, or heeds its context.                                              *)
StageFails ==
  /\ pc = "stage"
  /\ Stopped("failed") \/ (cancel /\ Stopped("cancelled"))
  /\ UNCHANGED <<disk, up, dying, history>>

RecordStage ==
  /\ pc = "record"
  /\ Publish(m, "loop", "failing")
  /\ finished' = finished

Complete ==
  /\ pc = "loop" /\ Len(m.cps) = Len(Plan)
  /\ Publish([m EXCEPT !.status = "complete"], "idle", "failing")
  /\ finished' = IF pc' = "idle" THEN finished \cup {who} ELSE finished

(* Mutant of Fail: the loop is tried again.                                *)
FailRetries ==
  /\ pc = "failing" /\ Goes("loop", m)
  /\ UNCHANGED <<disk, up, dying, history>>

(* terminal: publish how the run ended, whether or not that succeeds.      *)
Fail ==
  /\ pc = "failing" /\ Stopped("failed")
  /\ UNCHANGED <<disk, up, dying, history>>

End ==
  /\ pc = "ending"
  /\ Publish(m, "idle", "idle")
  /\ finished' = finished

Execute == Refuse \/ Begin \/ Interrupt \/ NextStage \/ (\E o \in Outputs : StageWrites(o))
           \/ StageFails \/ RecordStage \/ Complete \/ Fail \/ End

-----------------------------------------------------------------------------
MemoryLost ==
  /\ up' = FALSE /\ dying' = FALSE
  /\ Goes("idle", m)
  /\ UNCHANGED history

Close == up /\ ~Busy /\ MemoryLost /\ UNCHANGED disk

Kill == "kill" \in Crashes /\ up /\ MemoryLost /\ UNCHANGED disk

(* What a power loss may make of a directory; all of it is on disk then.   *)
Remains(d) ==
  {IF p = "absent" THEN NoDirectory
   ELSE [place |-> p, manifest |-> mf, files |-> d.durable \cup s,
         places |-> {p}, manifests |-> {mf}, durable |-> d.durable \cup s, loose |-> {}] :
     p \in d.places, mf \in d.manifests, s \in SUBSET d.loose}

PowerLoss ==
  /\ PowerFails
  /\ \E D \in [Jobs -> UNION {Remains(disk[j]) : j \in Jobs}] :
       (\A j \in Jobs : D[j] \in Remains(disk[j])) /\ disk' = D
  /\ MemoryLost

(* Open: recover marks what was running as failed, one save each, before   *)
(* the store is handed out; it accepts only manifests that load.           *)
Acceptable(mf) ==
  /\ mf.active # 0 => mf.status = "running"
  /\ mf.released => mf.status \in {"complete", "cancelled"}

Left(j) == Loaded(j) /\ Manifest(j).status = "running"

Recover(j) ==
  LET ds == Save(disk, j, [Manifest(j) EXCEPT !.status = "failed", !.active = 0])
  IN /\ ~up /\ Left(j)
     /\ Wholly(ds) \/ (Faults \cup Crashes # {} /\ disk' = ds[1] /\ dying' = FALSE)
     /\ UNCHANGED <<up, run, history>>

Open ==
  /\ ~up /\ \A j \in Jobs : ~Left(j) /\ (Loaded(j) => Acceptable(Manifest(j)))
  /\ up' = TRUE
  /\ UNCHANGED <<disk, dying, run, history>>

Next ==
  \/ /\ ~dying
     /\ \/ Execute \/ Cancel \/ Close \/ Open
        \/ \E j \in Jobs : Admit(j) \/ ReleaseMedia(j) \/ Delete(j) \/ Recover(j)
        \/ \E j \in Jobs, c \in Configs : Create(j, c) \/ Rebind(j, c)
        \/ \E j \in Jobs, t \in Titles : Rename(j, t)
  \/ Kill \/ PowerLoss

Spec == Init /\ [][Next]_vars

(* The goroutine that called Run is scheduled, and a stage returns ("return*)
(* only after draining").                                                  *)
FairSpec == Spec /\ WF_vars(Execute)

-----------------------------------------------------------------------------
TypeOK ==
  /\ up \in BOOLEAN /\ dying \in BOOLEAN /\ cancel \in BOOLEAN
  /\ pc \in {"idle", "admitted", "loop", "stage", "record", "failing", "ending"}
  /\ who \in Jobs /\ m \in Manifests \cup {NoManifest}
  /\ \A j \in Jobs :
       /\ disk[j].place \in disk[j].places
       /\ disk[j].places \subseteq {"absent", "live", "trash"}
       /\ disk[j].manifest \in disk[j].manifests
       /\ disk[j].manifests \subseteq Manifests \cup {NoManifest}
       /\ disk[j].durable \subseteq disk[j].files
       /\ disk[j].files \subseteq disk[j].durable \cup disk[j].loose
  /\ \A S \in {born, kept, gone, finished} : S \subseteq Jobs
  /\ reported \in [Jobs -> 0..Len(Plan)]

(* "Create acknowledges only after the original upload and queued manifest *)
(* have been synced and published": an acknowledged recording that nobody  *)
(* deletes is found by every restart.                                      *)
CreatedSurvives ==
  \A j \in kept :
    /\ disk[j].places = {"live"}
    /\ \A mf \in disk[j].manifests : mf.status # "none"

(* "Delete is explicit irreversible retention cleanup": a recording that   *)
(* Delete reported as deleted does not come back.                          *)
DeletedStaysGone ==
  \A j \in gone : disk[j].places = {"absent"}

(* A completion that Run reported is not undone by anything but Delete.    *)
CompletionSurvives ==
  \A j \in finished : \A mf \in disk[j].manifests : mf.status = "complete"

(* What a caller was told is over stays over.                              *)
EndingsSurvive == CompletionSurvives /\ DeletedStaysGone

(* "Progress reports committed state only": no restart finds fewer         *)
(* checkpoints than were reported, until the owner rebinds or deletes.     *)
ProgressIsCommitted ==
  \A j \in kept : \A mf \in disk[j].manifests : Len(mf.cps) >= reported[j]

(* Whatever manifest a restart finds, the media it needs are there: the    *)
(* input and every checkpoint, less what a release made redundant.         *)
Needs(mf) ==
  ({Upload} \cup {Payload(mf.cps[i]) : i \in DOMAIN mf.cps})
    \ (IF mf.released THEN Redundant(mf) ELSE {})

MediaBacked ==
  \A j \in Jobs : "live" \in disk[j].places =>
    \A mf \in disk[j].manifests : mf.status # "none" => Needs(mf) \subseteq disk[j].durable

(* "so a crash can leave only safe redundant media": the same, of the      *)
(* recordings nobody asked to delete.                                      *)
ReleaseLeavesRedundant ==
  \A j \in kept : \A mf \in disk[j].manifests :
    mf.status # "none" => Needs(mf) \subseteq disk[j].durable

(* Whatever manifest a restart finds, load accepts it: one that does not   *)
(* would make the whole store unopenable.                                  *)
ManifestsLoad == \A j \in Jobs : \A mf \in disk[j].manifests : Acceptable(mf)

(* Work is done only under a manifest that says so after any restart.      *)
StageIsClaimed == pc = "stage" => disk[who].manifests = {m}

(* Run's copy does not go stale while it holds the slot: what it publishes *)
(* undoes no change of the owner.                                          *)
CopyIsCurrent ==
  Busy => /\ disk[who].place = "live"
          /\ m.title = Manifest(who).title /\ m.config = Manifest(who).config
          /\ m.released = Manifest(who).released

(* A checkpoint is only ever kept under the configuration and the earlier  *)
(* payloads it was computed from.                                          *)
CheckpointsMatch ==
  \A j \in Jobs : \A mf \in disk[j].manifests : \A i \in DOMAIN mf.cps :
    mf.cps[i].key = Key(mf, i)

(* Whatever manifest a restart finds can be loaded and trusted.            *)
ManifestsSound == TypeOK /\ ManifestsLoad /\ CheckpointsMatch

(* The admission slot is given back, however a run ends.                   *)
SlotComesBack == Busy ~> ~Busy
=============================================================================
