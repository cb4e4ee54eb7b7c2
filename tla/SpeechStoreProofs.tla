------------------------- MODULE SpeechStoreProofs -------------------------
(***************************************************************************)
(* Proofs about SpeechStore for any recordings, configurations, titles,    *)
(* outputs and plan, and any faults and crashes.                           *)
(***************************************************************************)
EXTENDS SpeechStore, SequenceTheorems, TLAPS

Places == {"absent", "live", "trash"}
AllManifests == Manifests \cup {NoManifest}
Names == Seq(Configs \cup Outputs)
Files == Names \X Outputs

Directories == [place : Places, manifest : AllManifests, files : SUBSET Files,
                places : SUBSET Places, manifests : SUBSET AllManifests,
                durable : SUBSET Files, loose : SUBSET Files]

(* Each checkpoint is kept under what it was computed from.                *)
Keyed(mf) == \A i \in 1..Len(mf.cps) : mf.cps[i].key = Key(mf, i)

(* The stage a manifest calls active is the one after its checkpoints.     *)
GoodManifests ==
  {mf \in AllManifests :
     /\ Len(mf.cps) <= Len(Plan)
     /\ mf.active # 0 => /\ mf.status = "running"
                         /\ mf.active = Len(mf.cps) + 1 /\ mf.active <= Len(Plan)
     /\ mf.released => mf.status \in {"complete", "cancelled"}
     /\ Keyed(mf)}

(* A directory whose manifests, after any crash, have at least n           *)
(* checkpoints.                                                            *)
GoodDir(d, n) ==
  /\ d \in Directories
  /\ d.place \in d.places /\ d.manifest \in d.manifests
  /\ d.durable \subseteq d.files /\ d.files \subseteq d.durable \cup d.loose
  /\ \A mf \in d.manifests : mf \in GoodManifests /\ Len(mf.cps) >= n

(* A directory that every restart finds, with a manifest.                  *)
Firm(d) == d.places = {"live"} /\ \A mf \in d.manifests : mf.status # "none"

(* The disks that go with the histories B of born, K of kept, R of         *)
(* reported: what a caller was told of is found by every restart, and no   *)
(* manifest is written before its directory's entry is synced.             *)
Fine(d, j, B, K, R) ==
  /\ GoodDir(d, R[j])
  /\ R[j] # 0 => d.places = {"live"}
  /\ d.place = "live" /\ d.manifest.status # "none" => d.places = {"live"}
  /\ j \in K => Firm(d)
  /\ j \notin B => d = NoDirectory

Disks(B, K, R) == {D \in [Jobs -> Directories] : \A j \in Jobs : Fine(D[j], j, B, K, R)}

Types ==
  /\ up \in BOOLEAN /\ dying \in BOOLEAN /\ cancel \in BOOLEAN
  /\ pc \in {"idle", "admitted", "loop", "stage", "record", "failing", "ending"}
  /\ who \in Jobs /\ m \in AllManifests
  /\ born \subseteq Jobs /\ kept \subseteq born /\ gone \subseteq born /\ finished \subseteq born
  /\ reported \in [Jobs -> 0..Len(Plan)]
  /\ \A j \in Jobs : j \notin born => reported[j] = 0

(* Run's copy against the directory of its recording.                      *)
Current(mf, d) ==
  /\ d.place = "live" /\ d.manifest.status # "none"
  /\ mf.title = d.manifest.title /\ mf.config = d.manifest.config
  /\ mf.released = d.manifest.released

RunOK ==
  /\ pc = "idle" => m = NoManifest
  /\ pc # "idle" => /\ up /\ m \in Manifests /\ m \in GoodManifests
                    /\ Len(m.cps) >= reported[who] /\ Current(m, disk[who])
  /\ pc = "admitted" => m = disk[who].manifest
  /\ pc \notin {"idle", "admitted"} => ~m.released
  /\ pc \in {"loop", "stage", "record"} => m.status = "running"
  /\ pc = "stage" => disk[who].manifests = {m} /\ m.active = Len(m.cps) + 1

IInv == Types /\ disk \in Disks(born, kept, reported) /\ RunOK

-----------------------------------------------------------------------------
(* Manifests.                                                              *)

(* The manifest of an empty directory.                                     *)
LEMMA NoManifestIs ==
  /\ NoManifest.status = "none" /\ NoManifest.config \in Configs /\ NoManifest.title \in Titles
  /\ NoManifest.released = FALSE /\ NoManifest.attempts = 0 /\ NoManifest.active = 0
  /\ NoManifest.cps = <<>> /\ NoManifest \in GoodManifests /\ NoManifest \notin Manifests
  /\ Len(Plan) \in Nat /\ NoJob \in Jobs
<1>1. (CHOOSE c \in Configs : TRUE) \in Configs /\ (CHOOSE t \in Titles : TRUE) \in Titles
      /\ NoJob \in Jobs
  BY StoreAssumption DEF NoJob
<1>2. /\ NoManifest.status = "none" /\ NoManifest.config \in Configs /\ NoManifest.title \in Titles
      /\ NoManifest.released = FALSE /\ NoManifest.attempts = 0 /\ NoManifest.active = 0
      /\ NoManifest.cps = <<>>
  BY <1>1 DEF NoManifest
<1>3. Len(Plan) \in Nat
  BY StoreAssumption
<1>4. NoManifest \in GoodManifests
  BY <1>2, <1>3 DEF GoodManifests, AllManifests, Keyed
<1>5. NoManifest \notin Manifests
  BY <1>2 DEF Manifests
<1> QED
  BY <1>1, <1>2, <1>3, <1>4, <1>5

(* What the fields of a manifest are.                                      *)
LEMMA ManifestIs ==
  ASSUME NEW mf \in AllManifests
  PROVE  /\ mf.config \in Configs /\ mf.title \in Titles /\ mf.released \in BOOLEAN
         /\ mf.active \in Nat /\ mf.cps \in Seq(Checkpoints) /\ Len(mf.cps) \in Nat
         /\ mf \in Manifests <=> mf.status # "none"
<1>1. CASE mf \in Manifests
  BY <1>1 DEF Manifests
<1>2. CASE mf = NoManifest
  <2>1. mf.cps = <<>> /\ <<>> \in Seq(Checkpoints) /\ Len(<<>>) = 0 /\ mf.active = 0
    BY <1>2, NoManifestIs
  <2>2. mf.config \in Configs /\ mf.title \in Titles
    BY <1>2, NoManifestIs
  <2>3. mf.released \in BOOLEAN
    BY <1>2, NoManifestIs
  <2>4. mf \in Manifests <=> mf.status # "none"
    BY <1>2, NoManifestIs
  <2> QED
    BY <2>1, <2>2, <2>3, <2>4
<1> QED
  BY <1>1, <1>2 DEF AllManifests

(* g is mf with another status and active stage.                           *)
Restated(g, mf, s, a) ==
  /\ g \in Manifests /\ g.status = s /\ g.active = a
  /\ g.title = mf.title /\ g.config = mf.config /\ g.released = mf.released /\ g.cps = mf.cps

(* Keys depend on the configuration and the checkpoints.                   *)
LEMMA KeyedSame ==
  ASSUME NEW mf, NEW g, g.config = mf.config, g.cps = mf.cps, Keyed(mf)
  PROVE  Keyed(g)
BY DEF Keyed, Key

(* A manifest restated is good again.                                     *)
LEMMA RestatedGood ==
  ASSUME NEW mf \in GoodManifests, NEW s, NEW a, NEW g, Restated(g, mf, s, a),
         \/ a = 0
         \/ s = "running" /\ a = Len(mf.cps) + 1 /\ Len(mf.cps) < Len(Plan),
         mf.released => s \in {"complete", "cancelled"}
  PROVE  g \in GoodManifests /\ Len(g.cps) = Len(mf.cps)
<1>1. mf \in AllManifests /\ Keyed(mf) /\ Len(mf.cps) <= Len(Plan)
  BY DEF GoodManifests
<1>2. Keyed(g)
  BY <1>1, KeyedSame DEF Restated
<1>3. Len(mf.cps) \in Nat /\ Len(Plan) \in Nat
  BY <1>1, ManifestIs, NoManifestIs
<1> QED
  BY <1>1, <1>2, <1>3 DEF Restated, GoodManifests, AllManifests

(* The statuses.                                                           *)
Statuses == {"queued", "running", "failed", "cancelled", "complete"}

(* A new status and active stage.                                          *)
LEMMA SetStatus ==
  ASSUME NEW mf \in Manifests, NEW s \in Statuses, NEW a \in Nat
  PROVE  /\ Restated([mf EXCEPT !.status = s, !.active = a], mf, s, a)
         /\ Restated([mf EXCEPT !.status = s], mf, s, mf.active)
         /\ Restated([mf EXCEPT !.active = a], mf, mf.status, a)
BY DEF Manifests, Restated, Statuses

(* One more run.                                                           *)
LEMMA SetRunning ==
  ASSUME NEW mf \in Manifests
  PROVE  Restated([mf EXCEPT !.status = "running", !.attempts = @ + 1], mf, "running", mf.active)
<1> DEFINE a == mf.attempts + 1
<1>1. a \in Nat
  BY DEF Manifests
<1> HIDE DEF a
<1>2. Restated([mf EXCEPT !.status = "running", !.attempts = a], mf, "running", mf.active)
  BY <1>1 DEF Manifests, Restated
<1> QED
  BY <1>2 DEF a

(* A new title.                                                            *)
LEMMA SetTitle ==
  ASSUME NEW mf \in GoodManifests, mf \in Manifests, NEW t \in Titles,
         NEW g, g = [mf EXCEPT !.title = t]
  PROVE  g \in Manifests /\ g \in GoodManifests /\ Len(g.cps) = Len(mf.cps) /\ g.status = mf.status
<1>1. /\ g \in Manifests /\ g.cps = mf.cps /\ g.config = mf.config /\ g.status = mf.status
      /\ g.active = mf.active /\ g.released = mf.released
  BY DEF Manifests
<1>2. Keyed(g)
  BY <1>1, KeyedSame DEF GoodManifests
<1> QED
  BY <1>1, <1>2 DEF GoodManifests, AllManifests

(* Media released.                                                         *)
LEMMA SetReleased ==
  ASSUME NEW mf \in GoodManifests, mf \in Manifests, mf.status \in {"complete", "cancelled"},
         NEW g, g = [mf EXCEPT !.released = TRUE]
  PROVE  g \in Manifests /\ g \in GoodManifests /\ g.cps = mf.cps /\ g.status = mf.status /\ g.released
<1>1. /\ g \in Manifests /\ g.cps = mf.cps /\ g.config = mf.config /\ g.status = mf.status
      /\ g.active = mf.active /\ g.released = TRUE
  BY DEF Manifests
<1>2. Keyed(g)
  BY <1>1, KeyedSame DEF GoodManifests
<1> QED
  BY <1>1, <1>2 DEF GoodManifests, AllManifests

(* Manifests without checkpoints.                                          *)
LEMMA GoodWithoutStages ==
  ASSUME NEW g \in Manifests, g.cps = <<>>, g.active = 0, ~g.released
  PROVE  g \in GoodManifests
<1>1. Len(Plan) \in Nat /\ Keyed(g) /\ Len(g.cps) = 0
  BY NoManifestIs DEF Keyed
<1> QED
  BY <1>1 DEF GoodManifests, AllManifests

(* Another configuration.                                                  *)
LEMMA SetRebound ==
  ASSUME NEW mf \in Manifests, ~mf.released, NEW c \in Configs, NEW g, g = Rebound(mf, c)
  PROVE  /\ g \in Manifests /\ g \in GoodManifests /\ g.cps = <<>> /\ g.status = mf.status
         /\ g.released = FALSE
<1>1. <<>> \in Seq(Checkpoints) /\ Len(Plan) \in Nat
  BY NoManifestIs
<1>2. /\ g \in Manifests /\ g.cps = <<>> /\ g.status = mf.status /\ g.active = 0
      /\ g.released = FALSE
  BY <1>1 DEF Manifests, Rebound
<1> QED
  BY <1>1, <1>2 DEF GoodManifests, AllManifests, Keyed

(* The manifest of a new recording.                                        *)
LEMMA NewManifest ==
  ASSUME NEW c \in Configs, NEW t \in Titles,
         NEW g, g = [status |-> "queued", config |-> c, title |-> t, released |-> FALSE,
                     attempts |-> 0, active |-> 0, cps |-> <<>>]
  PROVE  /\ g \in Manifests /\ g \in GoodManifests /\ g.cps = <<>> /\ g.status = "queued"
         /\ ~g.released
<1>1. g \in Manifests
  <2>1. <<>> \in Seq(Checkpoints)
    OBVIOUS
  <2> QED
    BY <2>1 DEF Manifests
<1>2. g.cps = <<>> /\ g.status = "queued" /\ g.active = 0
  OBVIOUS
<1>3. ~g.released
  OBVIOUS
<1>4. g \in GoodManifests
  BY <1>1, <1>2, <1>3, GoodWithoutStages
<1> QED
  BY <1>1, <1>2, <1>3, <1>4

(* Create's manifest.                                                      *)
LEMMA SetNew ==
  ASSUME NEW c \in Configs, NEW g, g = [NoManifest EXCEPT !.status = "queued", !.config = c]
  PROVE  /\ g \in Manifests /\ g \in GoodManifests /\ g.cps = <<>> /\ g.status = "queued"
         /\ ~g.released
<1> DEFINE t == NoManifest.title
<1>1. g = [status |-> "queued", config |-> c, title |-> t, released |-> FALSE,
           attempts |-> 0, active |-> 0, cps |-> <<>>]
  BY DEF NoManifest
<1>2. t \in Titles
  BY NoManifestIs
<1> HIDE DEF t
<1> QED
  BY <1>1, <1>2, NewManifest

(* cs is s with x behind it.                                               *)
Extends(cs, s, x) ==
  /\ cs \in Seq(Checkpoints) /\ Len(cs) = Len(s) + 1 /\ cs[Len(s) + 1] = x
  /\ \A i \in 1..Len(s) : cs[i] = s[i]

(* The key of the next checkpoint, and the keys with it.                   *)
LEMMA KeyIs ==
  ASSUME NEW mf \in AllManifests, NEW i \in 1..(Len(mf.cps) + 1)
  PROVE  /\ Key(mf, i) \in Names
         /\ \A g, x : g.config = mf.config /\ Extends(g.cps, mf.cps, x) => Key(g, i) = Key(mf, i)
<1> DEFINE n == Len(mf.cps)
           earlier == [k \in 1..(i - 1) |-> mf.cps[k].bytes]
<1>1. mf.config \in Configs /\ mf.cps \in Seq(Checkpoints) /\ n \in Nat
  BY ManifestIs
<1>2. i - 1 \in Nat /\ \A k \in 1..(i - 1) : k \in 1..n
  BY <1>1
<1>3. \A k \in 1..(i - 1) : mf.cps[k] \in Checkpoints
  BY <1>1, <1>2
<1>4. \A k \in 1..(i - 1) : mf.cps[k].bytes \in Configs \cup Outputs
  BY <1>3 DEF Checkpoints
<1>5. earlier \in Seq(Configs \cup Outputs)
  BY <1>2, <1>4, IsASeq
<1>6. <<mf.config>> \in Seq(Configs \cup Outputs)
  BY <1>1
<1>7. Key(mf, i) \in Names
  <2> HIDE DEF earlier
  <2>1. <<mf.config>> \o earlier \in Seq(Configs \cup Outputs)
    BY <1>5, <1>6
  <2> QED
    BY <2>1 DEF Key, Names, earlier
<1>8. ASSUME NEW g, NEW x, g.config = mf.config, Extends(g.cps, mf.cps, x)
      PROVE  Key(g, i) = Key(mf, i)
  <2>1. \A k \in 1..(i - 1) : g.cps[k] = mf.cps[k]
    BY <1>2, <1>8 DEF Extends
  <2>2. [k \in 1..(i - 1) |-> g.cps[k].bytes] = earlier
    BY <1>8, <2>1
  <2> QED
    BY <1>8, <2>2 DEF Key
<1> QED
  BY <1>7, <1>8

(* Other checkpoints.                                                      *)
WithStages(mf, cs) == [mf EXCEPT !.active = 0, !.cps = cs]

(* Only the checkpoints and the active stage change.                       *)
LEMMA SetStages ==
  ASSUME NEW mf \in Manifests, NEW cs \in Seq(Checkpoints), NEW g, g = WithStages(mf, cs)
  PROVE  /\ g \in Manifests /\ g.cps = cs /\ g.status = mf.status /\ g.released = mf.released
         /\ g.active = 0 /\ g.title = mf.title /\ g.config = mf.config
BY DEF Manifests, WithStages

(* A stage recorded.                                                       *)
LEMMA SetRecorded ==
  ASSUME NEW mf \in GoodManifests, mf \in Manifests, mf.status = "running", ~mf.released,
         mf.active = Len(mf.cps) + 1, NEW x \in Checkpoints, x.key = Key(mf, mf.active),
         NEW cs, Extends(cs, mf.cps, x), NEW g, g = WithStages(mf, cs)
  PROVE  /\ g \in Manifests /\ g \in GoodManifests /\ g.cps = cs
         /\ g.status = "running" /\ g.released = mf.released
         /\ g.title = mf.title /\ g.config = mf.config
<1> DEFINE n == Len(mf.cps)
<1>1. mf \in AllManifests /\ mf.cps \in Seq(Checkpoints) /\ n \in Nat /\ Len(Plan) \in Nat /\ Keyed(mf)
      /\ mf.active = n + 1 /\ n + 1 <= Len(Plan)
  <2>1. mf \in AllManifests /\ Keyed(mf) /\ (mf.active # 0 => mf.active <= Len(Plan))
    BY DEF GoodManifests
  <2> QED
    BY <2>1, ManifestIs, NoManifestIs
<1>2. cs \in Seq(Checkpoints) /\ Len(cs) = n + 1 /\ cs[n + 1] = x /\ \A i \in 1..n : cs[i] = mf.cps[i]
  BY DEF Extends
<1>3. /\ g \in Manifests /\ g.cps = cs /\ g.status = mf.status /\ g.released = mf.released
      /\ g.active = 0 /\ g.title = mf.title /\ g.config = mf.config
  BY <1>2, SetStages
<1>4. ASSUME NEW i \in 1..(n + 1) PROVE cs[i].key = Key(g, i)
  <2>1. Key(g, i) = Key(mf, i)
    BY <1>1, <1>3, KeyIs
  <2>2. i \in 1..n \/ i = n + 1
    BY <1>1
  <2>3. i \in 1..n => cs[i].key = Key(mf, i)
    BY <1>1, <1>2 DEF Keyed
  <2>4. cs[n + 1].key = Key(mf, n + 1)
    BY <1>1, <1>2
  <2> QED
    BY <2>1, <2>2, <2>3, <2>4
<1>5. g \in GoodManifests
  <2>1. Keyed(g)
    BY <1>2, <1>3, <1>4 DEF Keyed
  <2>2. g.active = 0 /\ ~g.released /\ Len(g.cps) <= Len(Plan)
    BY <1>1, <1>2, <1>3
  <2> QED
    BY <1>3, <2>1, <2>2 DEF GoodManifests, AllManifests
<1> QED
  BY <1>3, <1>5

-----------------------------------------------------------------------------
(* Directories: each change keeps a good directory good.                   *)

(* The bytes of an upload and of a checkpoint are files.                   *)
LEMMA FilesAre ==
  /\ Upload \in Files
  /\ \A cp \in Checkpoints : Payload(cp) \in Files
  /\ \A k \in Names, o \in Outputs : <<k, o>> \in Files
<1>1. (CHOOSE o \in Outputs : TRUE) \in Outputs /\ <<>> \in Names
  BY StoreAssumption DEF Names
<1>2. \A cp \in Checkpoints : cp.key \in Names /\ cp.bytes \in Outputs
  BY DEF Checkpoints, Names
<1>3. \A k \in Names, o \in Outputs : <<k, o>> \in Files
  BY DEF Files
<1> QED
  BY <1>1, <1>2, <1>3 DEF Upload, Payload

(* A renamed directory.                                                    *)
LEMMA MoveIs ==
  ASSUME NEW n, NEW d, GoodDir(d, n), NEW p \in Places, NEW g, g = Move(d, p)
  PROVE  /\ GoodDir(g, n) /\ g.place = p
         /\ g.manifest = d.manifest /\ g.manifests = d.manifests
         /\ g.files = d.files /\ g.durable = d.durable /\ g.loose = d.loose
         /\ p \in g.places /\ g.places \subseteq d.places \cup {p}
         /\ ~PowerFails => g.places = {p}
BY DEF GoodDir, Move, Also, Directories

(* A manifest renamed over the old one.                                    *)
LEMMA PutIs ==
  ASSUME NEW n, NEW d, GoodDir(d, n), NEW mf \in GoodManifests, Len(mf.cps) >= n, NEW g, g = Put(d, mf)
  PROVE  /\ GoodDir(g, n) /\ g.manifest = mf
         /\ g.place = d.place /\ g.places = d.places
         /\ g.files = d.files /\ g.durable = d.durable /\ g.loose = d.loose
         /\ mf \in g.manifests /\ g.manifests \subseteq d.manifests \cup {mf}
         /\ ~PowerFails => g.manifests = {mf}
BY DEF GoodDir, Put, Also, Directories, GoodManifests

(* A file linked.                                                          *)
LEMMA LinkIs ==
  ASSUME NEW n, NEW d, GoodDir(d, n), NEW f \in Files, NEW g, g = Link(d, f)
  PROVE  /\ GoodDir(g, n) /\ g.manifest = d.manifest /\ g.manifests = d.manifests
         /\ g.place = d.place /\ g.places = d.places
         /\ g.files = d.files \cup {f} /\ d.durable \subseteq g.durable
         /\ ~PowerFails => g.durable = d.durable \cup {f} /\ g.loose = d.loose
BY DEF GoodDir, Link, Loose, Directories

(* Files removed.                                                          *)
LEMMA UnlinkIs ==
  ASSUME NEW n, NEW d, GoodDir(d, n), NEW fs, NEW g, g = Unlink(d, fs)
  PROVE  /\ GoodDir(g, n) /\ g.manifest = d.manifest /\ g.manifests = d.manifests
         /\ g.place = d.place /\ g.places = d.places
         /\ g.files = d.files \ fs /\ g.durable = d.durable \ fs
         /\ ~PowerFails => g.loose = d.loose
BY DEF GoodDir, Unlink, Loose, Directories

(* A directory synced.                                                     *)
LEMMA SyncDirIs ==
  ASSUME NEW n, NEW d, GoodDir(d, n), NEW g, g = SyncDir(d)
  PROVE  /\ GoodDir(g, n) /\ g.manifest = d.manifest /\ g.manifests = {d.manifest}
         /\ g.place = d.place /\ g.places = d.places
         /\ g.files = d.files /\ g.durable = d.files /\ g.loose = {}
BY DEF GoodDir, SyncDir, Directories

(* The root synced.                                                        *)
LEMMA PlaceSynced ==
  ASSUME NEW n, NEW d, GoodDir(d, n), NEW g, g = [d EXCEPT !.places = {d.place}]
  PROVE  /\ GoodDir(g, n) /\ g.manifest = d.manifest /\ g.manifests = d.manifests
         /\ g.place = d.place /\ g.places = {d.place}
         /\ g.files = d.files /\ g.durable = d.durable /\ g.loose = d.loose
BY DEF GoodDir, Directories

-----------------------------------------------------------------------------
(* Disks: changes one after the other.                                     *)

(* The disk D with another directory of j.                                 *)
LEMMA AtIs ==
  ASSUME NEW B, NEW K, NEW R, NEW D \in Disks(B, K, R), NEW j \in Jobs,
         NEW d, Fine(d, j, B, K, R), NEW E, E = At(D, j, d)
  PROVE  /\ E \in Disks(B, K, R) /\ E[j] = d
         /\ \A k \in Jobs : k # j => E[k] = D[k]
<1>1. D \in [Jobs -> Directories] /\ d \in Directories
  BY DEF Disks, Fine, GoodDir
<1>2. E \in [Jobs -> Directories] /\ E[j] = d /\ \A k \in Jobs : k # j => E[k] = D[k]
  BY <1>1 DEF At
<1>3. \A k \in Jobs : Fine(D[k], k, B, K, R)
  BY DEF Disks
<1>4. \A k \in Jobs : Fine(E[k], k, B, K, R)
  BY <1>2, <1>3
<1> QED
  BY <1>2, <1>4 DEF Disks

(* The root of the disk D synced.                                          *)
LEMMA RootSynced ==
  ASSUME NEW B, NEW K, NEW R, NEW D \in Disks(B, K, R), NEW E, E = SyncRoot(D)
  PROVE  /\ E \in Disks(B, K, R)
         /\ \A k \in Jobs : E[k] = [D[k] EXCEPT !.places = {D[k].place}]
<1>1. \A k \in Jobs : E[k] = [D[k] EXCEPT !.places = {D[k].place}]
  BY DEF SyncRoot
<1>2. ASSUME NEW k \in Jobs PROVE Fine(E[k], k, B, K, R)
  <2> DEFINE d == D[k]
  <2>1. Fine(d, k, B, K, R) /\ GoodDir(d, R[k])
    BY DEF Disks, Fine
  <2> HIDE DEF d
  <2>2. E[k] = [d EXCEPT !.places = {d.place}]
    BY <1>1 DEF d
  <2>3. GoodDir(E[k], R[k]) /\ E[k].places = {d.place} /\ E[k].manifests = d.manifests
    BY <2>1, <2>2, PlaceSynced
  <2>4. k \in K => Firm(E[k])
    BY <2>1, <2>3 DEF Fine, Firm, GoodDir
  <2>6. (R[k] # 0 => E[k].places = {"live"})
        /\ (E[k].place = "live" /\ E[k].manifest.status # "none" => E[k].places = {"live"})
    <3>1. E[k].place = d.place /\ E[k].manifest = d.manifest /\ d.place \in d.places
      BY <2>1, <2>2, PlaceSynced DEF GoodDir
    <3> QED
      BY <2>1, <2>3, <3>1 DEF Fine
  <2>5. k \notin B => E[k] = NoDirectory
    BY <2>1, <2>2 DEF Fine, NoDirectory
  <2> QED
    BY <2>3, <2>4, <2>5, <2>6 DEF Fine
<1>3. E \in [Jobs -> Directories]
  <2>1. \A k \in Jobs : E[k] \in Directories
    BY <1>2 DEF Fine, GoodDir
  <2> QED
    BY <2>1 DEF SyncRoot
<1> QED
  BY <1>1, <1>2, <1>3 DEF Disks

(* Saving a manifest.                                                      *)
LEMMA SaveIs ==
  ASSUME NEW B, NEW K, NEW R, NEW D \in Disks(B, K, R), NEW j \in Jobs, j \in B,
         NEW mf \in GoodManifests, Len(mf.cps) >= R[j], j \in K => mf.status # "none",
         mf.status # "none" /\ D[j].place = "live" => D[j].places = {"live"},
         NEW ds, ds = Save(D, j, mf)
  PROVE  /\ ds \in Seq(Disks(B, K, R)) /\ Len(ds) = 2
         /\ ds[1] = At(D, j, Put(D[j], mf)) /\ ds[2] = At(D, j, SyncDir(Put(D[j], mf)))
         /\ Fine(Put(D[j], mf), j, B, K, R) /\ Fine(SyncDir(Put(D[j], mf)), j, B, K, R)
<1> DEFINE d == D[j]
           p == Put(d, mf)
           q == SyncDir(p)
<1>1. Fine(d, j, B, K, R) /\ GoodDir(d, R[j])
  BY DEF Disks, Fine
<1>2. p = Put(d, mf) /\ q = SyncDir(p)
  OBVIOUS
<1> HIDE DEF d, p, q
<1>3. GoodDir(p, R[j]) /\ p.manifest = mf /\ p.place = d.place /\ p.places = d.places
      /\ \A x \in p.manifests : x = mf \/ x \in d.manifests
  <2>1. /\ GoodDir(p, R[j]) /\ p.manifest = mf /\ p.place = d.place /\ p.places = d.places
        /\ p.manifests \subseteq d.manifests \cup {mf}
    BY <1>1, <1>2, PutIs
  <2> QED
    BY <2>1
<1>4. GoodDir(q, R[j]) /\ q.manifest = mf /\ q.manifests = {mf}
      /\ q.place = d.place /\ q.places = d.places
  <2>1. GoodDir(q, R[j]) /\ q.manifest = p.manifest /\ q.manifests = {p.manifest}
        /\ q.place = p.place /\ q.places = p.places
    BY <1>2, <1>3, SyncDirIs
  <2> QED
    BY <1>3, <2>1
<1>5. Fine(p, j, B, K, R) /\ Fine(q, j, B, K, R)
  <2>1. mf.status # "none" /\ d.place = "live" => d.places = {"live"}
    BY DEF d
  <2> QED
    BY <1>1, <1>3, <1>4, <2>1 DEF Fine, Firm
<1>6. At(D, j, p) \in Disks(B, K, R) /\ At(D, j, q) \in Disks(B, K, R)
  BY <1>5, AtIs
<1>7. ds = <<At(D, j, p), At(D, j, q)>>
  BY DEF Save, p, q, d
<1> QED
  BY <1>5, <1>6, <1>7 DEF p, q, d

(* The same disk against other histories.                                  *)
LEMMA Again ==
  ASSUME NEW B, NEW K, NEW R, NEW D \in Disks(B, K, R), NEW j \in Jobs,
         NEW B2, NEW K2, NEW R2, j \in B2, B \subseteq B2, K2 \subseteq K \cup {j},
         \A k \in Jobs : k # j => R2[k] = R[k],
         GoodDir(D[j], R2[j]), R2[j] # 0 => D[j].places = {"live"}, j \in K2 => Firm(D[j])
  PROVE  D \in Disks(B2, K2, R2)
<1>1. D \in [Jobs -> Directories] /\ \A k \in Jobs : Fine(D[k], k, B, K, R)
  BY DEF Disks
<1>2. ASSUME NEW k \in Jobs PROVE Fine(D[k], k, B2, K2, R2)
  <2>1. CASE k = j
    BY <1>1, <2>1 DEF Fine
  <2>2. CASE k # j
    BY <1>1, <2>2 DEF Fine
  <2> QED
    BY <2>1, <2>2
<1> QED
  BY <1>1, <1>2 DEF Disks

(* Where an operation ends, whether it completes or not.                   *)
LEMMA Lands ==
  ASSUME NEW G, NEW ds \in Seq(G), Len(ds) >= 1
  PROVE  /\ Wholly(ds) => disk' \in G /\ disk' = ds[Len(ds)] /\ dying' \in BOOLEAN
         /\ Partly(ds) => disk' \in G /\ dying' \in BOOLEAN
         /\ Stops(ds, 0) => (disk' = disk \/ disk' \in G) /\ dying' \in BOOLEAN
<1>1. Len(ds) \in Nat /\ \A i \in 1..Len(ds) : ds[i] \in G
  OBVIOUS
<1>2. \A k \in 1..(Len(ds) - 1) : k \in 1..Len(ds) /\ k # 0
  BY <1>1
<1>3. \A k \in 0..(Len(ds) - 1) : k = 0 \/ k \in 1..Len(ds)
  BY <1>1
<1>4. Wholly(ds) => disk' \in G /\ disk' = ds[Len(ds)] /\ dying' \in BOOLEAN
  <2>1. Len(ds) \in 1..Len(ds)
    BY <1>1
  <2>2. FALSE \in BOOLEAN
    OBVIOUS
  <2>3. Wholly(ds) => disk' = ds[Len(ds)] /\ dying' = FALSE
    BY DEF Wholly
  <2> QED
    BY <1>1, <2>1, <2>2, <2>3
<1>5. Partly(ds) => disk' \in G /\ dying' \in BOOLEAN
  BY <1>1, <1>2 DEF Partly, Stops
<1>6. Stops(ds, 0) => (disk' = disk \/ disk' \in G) /\ dying' \in BOOLEAN
  BY <1>1, <1>3 DEF Stops
<1> QED
  BY <1>4, <1>5, <1>6

(* The changes b behind the changes a.                                     *)
Joined(ds, a, b) == ds = a \o b

(* They end where b ends.                                                  *)
LEMMA Chain ==
  ASSUME NEW G, NEW a \in Seq(G), NEW b \in Seq(G), Len(b) >= 1, NEW ds, Joined(ds, a, b)
  PROVE  ds \in Seq(G) /\ Len(ds) >= 1 /\ ds[Len(ds)] = b[Len(b)]
BY ConcatProperties DEF Joined

-----------------------------------------------------------------------------
(* What the invariant says of a recording.                                 *)

(* A manifest that has at least n checkpoints has at least none.           *)
LEMMA Weaker ==
  ASSUME NEW n, NEW d, GoodDir(d, n)
  PROVE  GoodDir(d, 0)
<1>1. \A mf \in d.manifests : mf \in GoodManifests /\ Len(mf.cps) \in Nat
  BY ManifestIs DEF GoodDir, GoodManifests
<1> QED
  BY <1>1 DEF GoodDir

(* The directory of any recording.                                         *)
LEMMA DirectoryIs ==
  ASSUME IInv, NEW j \in Jobs
  PROVE  /\ Fine(disk[j], j, born, kept, reported) /\ GoodDir(disk[j], reported[j])
         /\ disk \in Disks(born, kept, reported) /\ reported[j] \in Nat
         /\ disk[j].manifest \in GoodManifests /\ Len(disk[j].manifest.cps) >= reported[j]
<1>1. disk \in Disks(born, kept, reported) /\ reported \in [Jobs -> 0..Len(Plan)] /\ Len(Plan) \in Nat
  BY NoManifestIs DEF IInv, Types
<1>2. Fine(disk[j], j, born, kept, reported)
  BY <1>1 DEF Disks
<1>3. reported[j] \in Nat
  BY <1>1
<1> QED
  BY <1>1, <1>2, <1>3 DEF Fine, GoodDir

(* A recording the owner can work with.                                    *)
LEMMA LoadedIs ==
  ASSUME IInv, NEW j \in Jobs, disk[j].place = "live", disk[j].manifest.status # "none"
  PROVE  /\ j \in born /\ disk[j].places = {"live"}
         /\ disk[j].manifest \in GoodManifests /\ disk[j].manifest \in Manifests
         /\ Len(disk[j].manifest.cps) >= reported[j] /\ Len(disk[j].manifest.cps) \in 0..Len(Plan)
<1>1. Fine(disk[j], j, born, kept, reported)
  BY DirectoryIs
<1>2. disk[j].manifest \in GoodManifests /\ Len(disk[j].manifest.cps) >= reported[j]
  BY DirectoryIs
<1>3. disk[j].manifest \in AllManifests /\ Len(disk[j].manifest.cps) <= Len(Plan) /\ Len(Plan) \in Nat
  BY <1>2, NoManifestIs DEF GoodManifests
<1>4. disk[j].manifest \in Manifests /\ Len(disk[j].manifest.cps) \in Nat
  BY <1>3, ManifestIs
<1>5. j \in born
  BY <1>1 DEF Fine, NoDirectory
<1> QED
  BY <1>1, <1>2, <1>3, <1>4, <1>5 DEF Fine

(* Between runs there is nothing to say of Run's copy.                     *)
LEMMA NoRun ==
  ASSUME pc' = "idle", m' = NoManifest
  PROVE  RunOK'
BY DEF RunOK

-----------------------------------------------------------------------------
(* The owner's operations.                                                 *)

(* What Create makes on the disk D.                                        *)
Made(D, j, c) ==
  LET d1 == At(D, j, Move(D[j], "live"))
      d2 == SyncRoot(d1)
      d3 == At(d2, j, Link(d2[j], Upload))
      d4 == At(d3, j, SyncDir(d3[j]))
  IN <<d1, d2, d3, d4>> \o Save(d4, j, [NoManifest EXCEPT !.status = "queued", !.config = c])

(* The empty directory of a recording just born.                           *)
LEMMA MadeIs ==
  ASSUME NEW B, NEW K, NEW R, NEW D \in Disks(B, K, R), NEW j \in Jobs, j \in B, j \notin K,
         R[j] = 0, D[j].manifest = NoManifest, NEW c \in Configs, NEW ds, ds = Made(D, j, c)
  PROVE  /\ ds \in Seq(Disks(B, K, R)) /\ Len(ds) >= 1
         /\ Firm(ds[Len(ds)][j])
<1> DEFINE x1 == Move(D[j], "live")
           d1 == At(D, j, x1)
           d2 == SyncRoot(d1)
           x3 == Link(d2[j], Upload)
           d3 == At(d2, j, x3)
           x4 == SyncDir(d3[j])
           d4 == At(d3, j, x4)
           mf == [NoManifest EXCEPT !.status = "queued", !.config = c]
           sv == Save(d4, j, mf)
           G == Disks(B, K, R)
<1>0. ds = <<d1, d2, d3, d4>> \o sv
  BY DEF Made
<1>1. /\ x1 = Move(D[j], "live") /\ d1 = At(D, j, x1) /\ d2 = SyncRoot(d1)
      /\ x3 = Link(d2[j], Upload) /\ d3 = At(d2, j, x3) /\ x4 = SyncDir(d3[j])
      /\ d4 = At(d3, j, x4)
  OBVIOUS
<1>2. mf \in GoodManifests /\ mf \in Manifests /\ mf.cps = <<>> /\ mf.status = "queued"
  BY SetNew
<1>3. sv = Save(d4, j, mf)
  OBVIOUS
<1> HIDE DEF x1, d1, d2, x3, d3, x4, d4, mf, sv
<1>4. GoodDir(D[j], R[j]) /\ "live" \in Places
  BY DEF Disks, Fine, Places
<1>5. Fine(x1, j, B, K, R) /\ x1.manifest = NoManifest /\ x1.place = "live"
  <2>1. GoodDir(x1, R[j]) /\ x1.manifest = NoManifest /\ x1.place = "live"
    BY <1>1, <1>4, MoveIs
  <2> QED
    BY <2>1, NoManifestIs DEF Fine
<1>6. d1 \in G /\ d1[j] = x1
  BY <1>1, <1>5, AtIs
<1>7. d2 \in G /\ d2[j] = [d1[j] EXCEPT !.places = {d1[j].place}]
  BY <1>1, <1>6, RootSynced
<1>8. GoodDir(d2[j], R[j]) /\ d2[j].place = "live" /\ d2[j].places = {"live"} /\ d2[j].manifest = NoManifest
  BY <1>5, <1>6, <1>7, PlaceSynced DEF Fine
<1>9. Fine(x3, j, B, K, R) /\ x3.places = {"live"} /\ x3.place = "live" /\ x3.manifest = NoManifest
  <2>1. GoodDir(x3, R[j]) /\ x3.places = {"live"} /\ x3.place = "live" /\ x3.manifest = NoManifest
    BY <1>1, <1>8, FilesAre, LinkIs
  <2> QED
    BY <2>1 DEF Fine
<1>10. d3 \in G /\ d3[j] = x3
  BY <1>1, <1>7, <1>9, AtIs
<1>11. Fine(x4, j, B, K, R) /\ x4.places = {"live"} /\ x4.place = "live"
  <2>1. GoodDir(x4, R[j]) /\ x4.places = {"live"} /\ x4.place = "live"
    BY <1>1, <1>9, <1>10, SyncDirIs DEF Fine
  <2> QED
    BY <2>1 DEF Fine
<1>12. d4 \in G /\ d4[j] = x4
  BY <1>1, <1>10, <1>11, AtIs
<1>13. /\ sv \in Seq(G) /\ Len(sv) = 2 /\ sv[2] = At(d4, j, SyncDir(Put(d4[j], mf)))
       /\ Fine(Put(d4[j], mf), j, B, K, R) /\ Fine(SyncDir(Put(d4[j], mf)), j, B, K, R)
  <2>1. Len(mf.cps) >= R[j] /\ mf.status # "none" /\ d4[j].places = {"live"}
    BY <1>2, <1>11, <1>12
  <2> QED
    BY <1>2, <1>3, <1>12, <2>1, SaveIs
<1>14. <<d1, d2, d3, d4>> \in Seq(G) /\ Len(<<d1, d2, d3, d4>>) = 4
  BY <1>6, <1>7, <1>10, <1>12
<1>15. ds \in Seq(G) /\ Len(ds) >= 1 /\ ds[Len(ds)] = sv[2]
  <2> DEFINE a == <<d1, d2, d3, d4>>
  <2>1. ds = a \o sv /\ a \in Seq(G) /\ sv \in Seq(G) /\ Len(sv) = 2
    BY <1>0, <1>13, <1>14
  <2> HIDE DEF a, G
  <2>2. a \in Seq(G) /\ sv \in Seq(G) /\ Len(sv) >= 1 /\ Joined(ds, a, sv)
    BY <2>1 DEF Joined
  <2>3. ds \in Seq(G) /\ Len(ds) >= 1 /\ ds[Len(ds)] = sv[Len(sv)]
    BY <2>2, Chain
  <2> QED
    BY <2>1, <2>3
<1>16. Firm(sv[2][j])
  <2> DEFINE p == Put(d4[j], mf)
             q == SyncDir(p)
  <2>1. sv[2][j] = q
    BY <1>12, <1>13, AtIs
  <2>2. p = Put(d4[j], mf) /\ q = SyncDir(p) /\ Fine(p, j, B, K, R)
    BY <1>13
  <2> HIDE DEF p, q
  <2>3. p.manifest = mf /\ p.places = d4[j].places
    <3>1. GoodDir(d4[j], R[j]) /\ Len(mf.cps) >= R[j]
      BY <1>2, <1>11, <1>12 DEF Fine
    <3> QED
      BY <1>2, <2>2, <3>1, PutIs
  <2>4. q.manifests = {mf} /\ q.places = {"live"}
    <3>1. GoodDir(p, R[j])
      BY <2>2 DEF Fine
    <3>2. GoodDir(q, R[j]) /\ q.manifests = {p.manifest} /\ q.places = p.places
      BY <2>2, <3>1, SyncDirIs
    <3> QED
      BY <1>11, <1>12, <2>3, <3>2
  <2> QED
    BY <1>2, <2>1, <2>4 DEF Firm
<1> QED
  BY <1>15, <1>16

(* Create keeps the invariant.                                             *)
LEMMA CreateKeeps ==
  ASSUME IInv, NEW j \in Jobs, NEW c \in Configs, Create(j, c)
  PROVE  IInv'
<1> DEFINE B == born \cup {j}
           ds == Made(disk, j, c)
           G == Disks(B, kept, reported)
<1>1. /\ pc = "idle" /\ j \notin born /\ born' = B
      /\ \/ Wholly(ds) /\ kept' = kept \cup {j}
         \/ Partly(ds) /\ kept' = kept
      /\ up' = up /\ pc' = pc /\ who' = who /\ m' = m /\ cancel' = cancel
      /\ gone' = gone /\ finished' = finished /\ reported' = reported
  BY DEF Create, Made, Busy, run
<1>2. Types /\ m = NoManifest
  BY <1>1 DEF IInv, RunOK
<1>3. disk[j] = NoDirectory /\ reported[j] = 0 /\ j \notin kept /\ disk[j].manifest = NoManifest
  <2>1. Fine(disk[j], j, born, kept, reported)
    BY DirectoryIs
  <2>2. disk[j] = NoDirectory
    BY <1>1, <2>1 DEF Fine
  <2>3. reported[j] = 0 /\ j \notin kept
    BY <1>1, <1>2 DEF Types
  <2>4. NoDirectory.manifest = NoManifest
    BY DEF NoDirectory
  <2> QED
    BY <2>2, <2>3, <2>4
<1>4. disk \in G
  <2>1. GoodDir(disk[j], reported[j]) /\ disk \in Disks(born, kept, reported)
    BY DirectoryIs
  <2>2. j \in B /\ born \subseteq B /\ kept \subseteq kept \cup {j}
    OBVIOUS
  <2> QED
    BY <1>3, <2>1, <2>2, Again
<1>5. ds \in Seq(G) /\ Len(ds) >= 1 /\ Firm(ds[Len(ds)][j])
  <2>1. j \in B
    OBVIOUS
  <2> QED
    BY <1>3, <1>4, <2>1, MadeIs
<1> HIDE DEF B, ds
<1>6. /\ Wholly(ds) => disk' \in G /\ disk' = ds[Len(ds)] /\ dying' \in BOOLEAN
      /\ Partly(ds) => disk' \in G /\ dying' \in BOOLEAN
  <2> HIDE DEF G
  <2> QED
    BY <1>5, Lands
<1>7. disk' \in Disks(B, kept', reported) /\ dying' \in BOOLEAN
  <2>1. CASE Wholly(ds) /\ kept' = kept \cup {j}
    <3>1. disk' \in G /\ Firm(disk'[j]) /\ dying' \in BOOLEAN
      BY <1>5, <1>6, <2>1
    <3>2. GoodDir(disk'[j], reported[j]) /\ j \in B
      BY <3>1 DEF Disks, Fine, B
    <3>3. B \subseteq B /\ kept \cup {j} \subseteq kept \cup {j}
      OBVIOUS
    <3>4. disk' \in Disks(B, kept \cup {j}, reported)
      BY <1>3, <3>1, <3>2, <3>3, Again
    <3> QED
      BY <2>1, <3>1, <3>4
  <2>2. CASE Partly(ds) /\ kept' = kept
    BY <1>6, <2>2
  <2> QED
    BY <1>1, <2>1, <2>2
<1>8. Types'
  BY <1>1, <1>2, <1>7 DEF Types, B
<1>9. RunOK'
  BY <1>1, <1>2, NoRun
<1> QED
  BY <1>1, <1>7, <1>8, <1>9 DEF IInv

(* Rename keeps the invariant.                                             *)
LEMMA RenameKeeps ==
  ASSUME IInv, NEW j \in Jobs, NEW t \in Titles, Rename(j, t)
  PROVE  IInv'
<1> DEFINE mf == [disk[j].manifest EXCEPT !.title = t]
           ds == Save(disk, j, mf)
           G == Disks(born, kept, reported)
<1>1. /\ pc = "idle" /\ disk[j].place = "live" /\ disk[j].manifest.status # "none"
      /\ Wholly(ds) \/ Partly(ds)
      /\ up' = up /\ pc' = pc /\ who' = who /\ m' = m /\ cancel' = cancel
      /\ born' = born /\ kept' = kept /\ gone' = gone /\ finished' = finished
      /\ reported' = reported
  BY DEF Rename, Manifest, Loaded, Busy, run, history
<1>2. Types /\ m = NoManifest
  BY <1>1 DEF IInv, RunOK
<1>3. /\ j \in born /\ disk[j].places = {"live"}
      /\ disk[j].manifest \in GoodManifests /\ disk[j].manifest \in Manifests
      /\ Len(disk[j].manifest.cps) >= reported[j]
  BY <1>1, LoadedIs
<1>4. mf \in GoodManifests /\ Len(mf.cps) >= reported[j] /\ mf.status # "none"
  <2>1. mf \in GoodManifests /\ Len(mf.cps) = Len(disk[j].manifest.cps)
        /\ mf.status = disk[j].manifest.status
    BY <1>3, SetTitle
  <2> QED
    BY <1>1, <1>3, <2>1
<1>5. ds \in Seq(G) /\ Len(ds) = 2
  <2> HIDE DEF mf
  <2>1. disk \in G
    BY DirectoryIs
  <2> QED
    BY <1>3, <1>4, <2>1, SaveIs
<1> HIDE DEF ds
<1>6. disk' \in G /\ dying' \in BOOLEAN
  <2> HIDE DEF G
  <2>1. Len(ds) >= 1
    BY <1>5
  <2> QED
    BY <1>1, <1>5, <2>1, Lands
<1>7. Types'
  BY <1>1, <1>2, <1>6 DEF Types
<1>8. RunOK'
  BY <1>1, <1>2, NoRun
<1> QED
  BY <1>1, <1>6, <1>7, <1>8 DEF IInv

(* The disks that differ from D at most in the directory of j.             *)
Varied(D, j, B, K, R) ==
  {E \in Disks(B, K, R) : \A k \in Jobs : k # j => E[k] = D[k]}

(* A changed directory varies the disk.                                    *)
LEMMA AtVaries ==
  ASSUME NEW B, NEW K, NEW R, NEW D \in Disks(B, K, R), NEW j \in Jobs,
         NEW F \in Varied(D, j, B, K, R), NEW d, Fine(d, j, B, K, R), NEW E, E = At(F, j, d)
  PROVE  E \in Varied(D, j, B, K, R) /\ E[j] = d
<1>1. F \in Disks(B, K, R) /\ \A k \in Jobs : k # j => F[k] = D[k]
  BY DEF Varied
<1>2. E \in Disks(B, K, R) /\ E[j] = d /\ \A k \in Jobs : k # j => E[k] = F[k]
  BY <1>1, AtIs
<1> QED
  BY <1>1, <1>2 DEF Varied

(* Removing files keeps a directory fine.                                  *)
LEMMA UnlinkFine ==
  ASSUME NEW B, NEW K, NEW R, NEW j \in Jobs, j \in B, NEW d, Fine(d, j, B, K, R),
         NEW fs, NEW g, g = Unlink(d, fs)
  PROVE  Fine(g, j, B, K, R) /\ g.manifest = d.manifest
<1>1. GoodDir(d, R[j])
  BY DEF Fine
<1>2. /\ GoodDir(g, R[j]) /\ g.manifest = d.manifest /\ g.manifests = d.manifests
      /\ g.place = d.place /\ g.places = d.places
  BY <1>1, UnlinkIs
<1> QED
  BY <1>2 DEF Fine, Firm

(* What Rebind does before it clears away the stale payloads.              *)
LEMMA ReboundIs ==
  ASSUME NEW B, NEW K, NEW R, NEW D \in Disks(B, K, R), NEW j \in Jobs, j \in B, R[j] = 0,
         D[j].places = {"live"}, D[j].manifest \in Manifests, ~D[j].manifest.released,
         NEW c \in Configs, NEW sv, sv = Save(D, j, Rebound(D[j].manifest, c))
  PROVE  /\ sv \in Seq(Varied(D, j, B, K, R)) /\ Len(sv) = 2
         /\ sv[2] \in Varied(D, j, B, K, R) /\ Fine(sv[2][j], j, B, K, R)
<1> DEFINE mf == Rebound(D[j].manifest, c)
           p == Put(D[j], mf)
           q == SyncDir(p)
           V == Varied(D, j, B, K, R)
<1>1. mf \in GoodManifests /\ Len(mf.cps) >= R[j] /\ mf.status # "none"
  <2>1. mf \in GoodManifests /\ mf.cps = <<>> /\ mf \in Manifests
    BY SetRebound
  <2>2. mf.status # "none"
    BY <2>1, NoManifestIs, ManifestIs DEF AllManifests
  <2> QED
    BY <2>1, <2>2
<1>2. sv = Save(D, j, mf)
  OBVIOUS
<1> HIDE DEF mf
<1>3. /\ sv \in Seq(Disks(B, K, R)) /\ Len(sv) = 2
      /\ sv[1] = At(D, j, p) /\ sv[2] = At(D, j, q)
      /\ Fine(p, j, B, K, R) /\ Fine(q, j, B, K, R)
  BY <1>1, <1>2, SaveIs
<1> HIDE DEF p, q
<1>4. D \in V
  BY DEF Varied
<1>5. sv[1] \in V /\ sv[2] \in V /\ sv[2][j] = q
  BY <1>3, <1>4, AtVaries
<1> HIDE DEF V
<1>6. sv = <<sv[1], sv[2]>>
  BY <1>3
<1>7. sv \in Seq(V)
  <2>1. \A x, y \in V : <<x, y>> \in Seq(V)
    OBVIOUS
  <2> QED
    BY Zenon, <1>5, <1>6, <2>1
<1> QED
  BY <1>3, <1>5, <1>7 DEF V

(* Rebind on the disk D: the manifest, the payloads fs, all stale ones.    *)
Rebinds(D, j, c, fs) ==
  LET sv == Save(D, j, Rebound(D[j].manifest, c))
  IN sv \o <<At(sv[2], j, Unlink(sv[2][j], fs)),
             At(sv[2], j, Unlink(sv[2][j], sv[2][j].files \ {Upload}))>>

(* Rebind when nothing fails.                                              *)
RebindsAll(D, j, c) ==
  LET sv == Save(D, j, Rebound(D[j].manifest, c))
  IN Append(sv, At(sv[2], j, Unlink(sv[2][j], sv[2][j].files \ {Upload})))

(* Both vary the disk.                                                     *)
LEMMA RebindVaries ==
  ASSUME NEW B, NEW K, NEW R, NEW D \in Disks(B, K, R), NEW j \in Jobs, j \in B, R[j] = 0,
         D[j].places = {"live"}, D[j].manifest \in Manifests, ~D[j].manifest.released,
         NEW c \in Configs
  PROVE  /\ RebindsAll(D, j, c) \in Seq(Varied(D, j, B, K, R)) /\ Len(RebindsAll(D, j, c)) >= 1
         /\ \A fs : /\ Rebinds(D, j, c, fs) \in Seq(Varied(D, j, B, K, R))
                    /\ Len(Rebinds(D, j, c, fs)) >= 1
<1> DEFINE sv == Save(D, j, Rebound(D[j].manifest, c))
           V == Varied(D, j, B, K, R)
           x(fs) == At(sv[2], j, Unlink(sv[2][j], fs))
           y == At(sv[2], j, Unlink(sv[2][j], sv[2][j].files \ {Upload}))
<1>1. /\ sv \in Seq(V) /\ Len(sv) = 2
      /\ sv[2] \in V /\ Fine(sv[2][j], j, B, K, R)
  BY ReboundIs
<1>2. ASSUME NEW fs PROVE x(fs) \in V
  <2> DEFINE g == Unlink(sv[2][j], fs)
  <2>1. Fine(g, j, B, K, R)
    BY <1>1, UnlinkFine
  <2>2. x(fs) = At(sv[2], j, g)
    OBVIOUS
  <2> HIDE DEF g, x, sv
  <2> QED
    BY <1>1, <2>1, <2>2, AtVaries
<1>3. y \in V
  BY <1>2
<1>4. RebindsAll(D, j, c) = Append(sv, y) /\ \A fs : Rebinds(D, j, c, fs) = sv \o <<x(fs), y>>
  BY DEF RebindsAll, Rebinds
<1> HIDE DEF sv, V, x, y
<1>5. Append(sv, y) \in Seq(V) /\ Len(Append(sv, y)) >= 1
  BY <1>1, <1>3
<1>6. ASSUME NEW fs PROVE sv \o <<x(fs), y>> \in Seq(V) /\ Len(sv \o <<x(fs), y>>) >= 1
  <2>1. <<x(fs), y>> \in Seq(V) /\ Len(<<x(fs), y>>) = 2
    BY <1>2, <1>3
  <2> QED
    BY <1>1, <2>1
<1> QED
  BY <1>4, <1>5, <1>6 DEF V

(* Rebind keeps the invariant, also while another recording runs.          *)
LEMMA RebindKeeps ==
  ASSUME IInv, NEW j \in Jobs, NEW c \in Configs, Rebind(j, c)
  PROVE  IInv'
<1> DEFINE R == [reported EXCEPT ![j] = 0]
           V == Varied(disk, j, born, kept, R)
           all == RebindsAll(disk, j, c)
           some(fs) == Rebinds(disk, j, c, fs)
<1>1. /\ ~(pc # "idle" /\ who = j) /\ disk[j].place = "live" /\ disk[j].manifest.status # "none"
      /\ ~disk[j].manifest.released
      /\ Wholly(all) \/ \E fs : Partly(some(fs))
      /\ up' = up /\ pc' = pc /\ who' = who /\ m' = m /\ cancel' = cancel
      /\ born' = born /\ kept' = kept /\ gone' = gone /\ finished' = finished
      /\ reported' = R
  BY DEF Rebind, Manifest, Loaded, Busy, run, Rebinds, RebindsAll
<1>2. Types /\ disk \in Disks(born, kept, reported) /\ RunOK
  BY DEF IInv
<1>3. j \in born /\ disk[j].places = {"live"} /\ disk[j].manifest \in Manifests
  BY <1>1, LoadedIs
<1>4. R \in [Jobs -> 0..Len(Plan)] /\ R[j] = 0 /\ \A k \in Jobs : k # j => R[k] = reported[k]
  BY <1>2, NoManifestIs DEF Types
<1> HIDE DEF R
<1>5. disk \in Disks(born, kept, R)
  <2>1. GoodDir(disk[j], reported[j]) /\ Fine(disk[j], j, born, kept, reported)
    BY DirectoryIs
  <2>2. GoodDir(disk[j], R[j])
    BY <1>4, <2>1, Weaker
  <2>3. born \subseteq born /\ kept \subseteq kept \cup {j} /\ (j \in kept => Firm(disk[j]))
    BY <2>1 DEF Fine
  <2> QED
    BY <1>2, <1>3, <1>4, <2>2, <2>3, Again
<1>6. /\ all \in Seq(V) /\ Len(all) >= 1
      /\ \A fs : some(fs) \in Seq(V) /\ Len(some(fs)) >= 1
  BY <1>1, <1>3, <1>4, <1>5, RebindVaries
<1> HIDE DEF all, some
<1>7. disk' \in V /\ dying' \in BOOLEAN
  <2> HIDE DEF V
  <2>1. Wholly(all) => disk' \in V /\ dying' \in BOOLEAN
    BY <1>6, Lands
  <2>2. ASSUME NEW fs PROVE Partly(some(fs)) => disk' \in V /\ dying' \in BOOLEAN
    <3> DEFINE s == some(fs)
    <3>1. s \in Seq(V) /\ Len(s) >= 1
      BY <1>6
    <3> HIDE DEF s
    <3>2. Partly(s) => disk' \in V /\ dying' \in BOOLEAN
      BY <3>1, Lands
    <3> QED
      BY <3>2 DEF s
  <2> QED
    BY <1>1, <2>1, <2>2
<1>8. disk' \in Disks(born, kept, R) /\ \A k \in Jobs : k # j => disk'[k] = disk[k]
  BY <1>7 DEF Varied
<1>9. Types'
  BY <1>1, <1>2, <1>4, <1>7 DEF Types
<1>10. RunOK'
  <2>1. CASE pc = "idle"
    BY <1>1, <1>2, <2>1, NoRun DEF RunOK
  <2>2. CASE pc # "idle"
    <3>1. who \in Jobs /\ who # j
      BY <1>1, <1>2, <2>2 DEF Types
    <3>2. disk'[who] = disk[who] /\ R[who] = reported[who]
      BY <1>4, <1>8, <3>1
    <3> QED
      BY <1>1, <1>2, <3>2 DEF RunOK
  <2> QED
    BY <2>1, <2>2
<1> QED
  BY <1>1, <1>8, <1>9, <1>10 DEF IInv

(* What ReleaseMedia does to the disk D.                                   *)
Releases(D, j) ==
  LET mf == [D[j].manifest EXCEPT !.released = TRUE]
      saves == IF D[j].manifest.released THEN <<>> ELSE Save(D, j, mf)
      d0 == IF saves = <<>> THEN D ELSE saves[2]
      d1 == At(d0, j, Unlink(d0[j], {Upload}))
      d2 == At(d0, j, Unlink(d0[j], Redundant(mf)))
  IN saves \o <<d1, d2, At(d2, j, SyncDir(d2[j]))>>

(* ReleaseMedia's manifest saved.                                          *)
LEMMA SavedRelease ==
  ASSUME NEW B, NEW K, NEW R, NEW D \in Disks(B, K, R), NEW j \in Jobs, j \in B,
         D[j].place = "live", D[j].places = {"live"}, D[j].manifest \in Manifests,
         D[j].manifest.status \in {"complete", "cancelled"},
         NEW sv, sv = Save(D, j, [D[j].manifest EXCEPT !.released = TRUE])
  PROVE  sv \in Seq(Disks(B, K, R)) /\ Len(sv) = 2 /\ sv[2] \in Disks(B, K, R)
<1> DEFINE mf == [D[j].manifest EXCEPT !.released = TRUE]
<1>1. mf \in GoodManifests /\ Len(mf.cps) >= R[j] /\ mf.status # "none"
  <2>1. D[j].manifest \in GoodManifests /\ Len(D[j].manifest.cps) >= R[j]
    BY DEF Disks, Fine, GoodDir
  <2>2. mf \in GoodManifests /\ mf.cps = D[j].manifest.cps /\ mf.status = D[j].manifest.status
    BY <2>1, SetReleased
  <2> QED
    BY <2>1, <2>2
<1>2. sv = Save(D, j, mf)
  OBVIOUS
<1> HIDE DEF mf
<1>3. sv \in Seq(Disks(B, K, R)) /\ Len(sv) = 2
  BY <1>1, <1>2, SaveIs
<1> DEFINE G == Disks(B, K, R)
<1> HIDE DEF G
<1>4. sv[2] \in G
  BY <1>3 DEF G
<1> QED
  BY <1>3, <1>4 DEF G

(* It leaves the disk fine at every step.                                  *)
LEMMA ReleasesIs ==
  ASSUME NEW B, NEW K, NEW R, NEW D \in Disks(B, K, R), NEW j \in Jobs, j \in B,
         D[j].place = "live", D[j].places = {"live"}, D[j].manifest \in Manifests,
         D[j].manifest.status \in {"complete", "cancelled"}, NEW ds, ds = Releases(D, j)
  PROVE  ds \in Seq(Disks(B, K, R)) /\ Len(ds) >= 1
<1> DEFINE G == Disks(B, K, R)
           mf == [D[j].manifest EXCEPT !.released = TRUE]
           saves == IF D[j].manifest.released THEN <<>> ELSE Save(D, j, mf)
           d0 == IF saves = <<>> THEN D ELSE saves[2]
           x1 == Unlink(d0[j], {Upload})
           x2 == Unlink(d0[j], Redundant(mf))
           d1 == At(d0, j, x1)
           d2 == At(d0, j, x2)
           x3 == SyncDir(d2[j])
           d3 == At(d2, j, x3)
           rest == <<d1, d2, d3>>
<1>2. saves \in Seq(G) /\ (saves # <<>> => saves[2] \in G)
  <2>1. CASE D[j].manifest.released
    BY <2>1
  <2>2. CASE ~D[j].manifest.released
    <3> DEFINE sv == Save(D, j, mf)
    <3>1. sv \in Seq(G) /\ Len(sv) = 2 /\ sv[2] \in G
      BY <2>2, SavedRelease
    <3> HIDE DEF sv, G
    <3> QED
      BY <2>2, <3>1 DEF sv
  <2> QED
    BY <2>1, <2>2
<1>3. ds = saves \o rest
  BY DEF Releases
<1>4. /\ x1 = Unlink(d0[j], {Upload}) /\ x2 = Unlink(d0[j], Redundant(mf))
      /\ d1 = At(d0, j, x1) /\ d2 = At(d0, j, x2) /\ x3 = SyncDir(d2[j]) /\ d3 = At(d2, j, x3)
  OBVIOUS
<1>5. d0 \in G
  BY <1>2
<1> HIDE DEF mf, saves, d0, x1, x2, d1, d2, x3, d3
<1>6. Fine(d0[j], j, B, K, R)
  BY <1>5 DEF Disks
<1>7. Fine(x1, j, B, K, R) /\ Fine(x2, j, B, K, R)
  BY <1>4, <1>6, UnlinkFine
<1>8. d1 \in G /\ d2 \in G /\ d2[j] = x2
  BY <1>4, <1>5, <1>7, AtIs
<1>9. Fine(x3, j, B, K, R)
  <2>1. GoodDir(x2, R[j])
    BY <1>7 DEF Fine
  <2>2. /\ GoodDir(x3, R[j]) /\ x3.manifest = x2.manifest /\ x3.manifests = {x2.manifest}
        /\ x3.place = x2.place /\ x3.places = x2.places
    BY <1>4, <1>8, <2>1, SyncDirIs
  <2>3. x2.manifest \in x2.manifests
    BY <2>1 DEF GoodDir
  <2> QED
    BY <1>7, <2>2, <2>3 DEF Fine, Firm
<1>10. d3 \in G
  BY <1>4, <1>8, <1>9, AtIs
<1>11. rest \in Seq(G) /\ Len(rest) = 3
  <2> HIDE DEF G
  <2> QED
    BY <1>8, <1>10
<1> HIDE DEF rest, G
<1>12. Joined(ds, saves, rest) /\ Len(rest) >= 1
  BY <1>3, <1>11 DEF Joined
<1>13. ds \in Seq(G) /\ Len(ds) >= 1
  BY <1>2, <1>11, <1>12, Chain
<1> QED
  BY <1>13 DEF G

(* ReleaseMedia keeps the invariant.                                       *)
LEMMA ReleaseMediaKeeps ==
  ASSUME IInv, NEW j \in Jobs, ReleaseMedia(j)
  PROVE  IInv'
<1> DEFINE ds == Releases(disk, j)
           G == Disks(born, kept, reported)
<1>1. /\ pc = "idle" /\ disk[j].place = "live"
      /\ disk[j].manifest.status \in {"complete", "cancelled"}
      /\ Wholly(ds) \/ Partly(ds)
      /\ up' = up /\ pc' = pc /\ who' = who /\ m' = m /\ cancel' = cancel
      /\ born' = born /\ kept' = kept /\ gone' = gone /\ finished' = finished
      /\ reported' = reported
  BY DEF ReleaseMedia, Releases, Manifest, Loaded, Busy, run, history
<1>2. Types /\ m = NoManifest
  BY <1>1 DEF IInv, RunOK
<1>3. /\ j \in born /\ disk[j].places = {"live"} /\ disk[j].manifest \in Manifests
      /\ disk \in G
  BY <1>1, LoadedIs, DirectoryIs
<1>4. ds \in Seq(G) /\ Len(ds) >= 1
  BY <1>1, <1>3, ReleasesIs
<1> HIDE DEF ds
<1>5. disk' \in G /\ dying' \in BOOLEAN
  <2> HIDE DEF G
  <2> QED
    BY <1>1, <1>4, Lands
<1>6. Types'
  BY <1>1, <1>2, <1>5 DEF Types
<1>7. RunOK'
  BY <1>1, <1>2, NoRun
<1> QED
  BY <1>1, <1>5, <1>6, <1>7 DEF IInv

(* Hiding or removing the directory of a recording nobody counts on, and   *)
(* emptying it, keeps it fine.                                             *)
LEMMA MoveFine ==
  ASSUME NEW B, NEW K, NEW R, NEW j \in Jobs, j \in B, j \notin K, R[j] = 0,
         NEW d, Fine(d, j, B, K, R), NEW p \in Places, p # "live", NEW g, g = Move(d, p)
  PROVE  Fine(g, j, B, K, R)
<1>1. GoodDir(d, R[j])
  BY DEF Fine
<1>2. GoodDir(g, R[j]) /\ g.place = p
  BY <1>1, MoveIs
<1> QED
  BY <1>2 DEF Fine

(* Emptying it.                                                            *)
LEMMA EmptyFine ==
  ASSUME NEW B, NEW K, NEW R, NEW j \in Jobs, j \in B, j \notin K, R[j] = 0,
         NEW d, Fine(d, j, B, K, R), NEW g, g = Empty(d)
  PROVE  Fine(g, j, B, K, R)
<1> DEFINE p == Put(d, NoManifest)
<1>1. GoodDir(d, R[j])
  BY DEF Fine
<1>2. NoManifest \in GoodManifests /\ Len(NoManifest.cps) >= R[j] /\ NoManifest.status = "none"
  BY NoManifestIs
<1>3. p = Put(d, NoManifest) /\ g = Unlink(p, d.files)
  BY DEF Empty
<1> HIDE DEF p
<1>4. GoodDir(p, R[j]) /\ p.manifest = NoManifest
  BY <1>1, <1>2, <1>3, PutIs
<1>5. GoodDir(g, R[j]) /\ g.manifest = p.manifest
  BY <1>3, <1>4, UnlinkIs
<1> QED
  BY <1>2, <1>4, <1>5 DEF Fine

(* What Delete does to the disk D.                                         *)
Deletes(D, j) ==
  LET d1 == At(D, j, Move(D[j], "trash"))
      hides == IF D[j].place = "live" THEN <<d1, SyncRoot(d1)>> ELSE <<>>
      d2 == IF hides = <<>> THEN D ELSE hides[2]
      d3 == At(d2, j, Empty(d2[j]))
      d4 == At(d3, j, Move(d3[j], "absent"))
  IN hides \o <<d3, d4, SyncRoot(d4)>>

(* It leaves the disk fine at every step.                                  *)
LEMMA DeletesIs ==
  ASSUME NEW B, NEW K, NEW R, NEW D \in Disks(B, K, R), NEW j \in Jobs, j \in B, j \notin K,
         R[j] = 0, NEW ds, ds = Deletes(D, j)
  PROVE  ds \in Seq(Disks(B, K, R)) /\ Len(ds) >= 1
<1> DEFINE G == Disks(B, K, R)
           x1 == Move(D[j], "trash")
           d1 == At(D, j, x1)
           s1 == SyncRoot(d1)
           hides == IF D[j].place = "live" THEN <<d1, s1>> ELSE <<>>
           d2 == IF hides = <<>> THEN D ELSE hides[2]
           x3 == Empty(d2[j])
           d3 == At(d2, j, x3)
           x4 == Move(d3[j], "absent")
           d4 == At(d3, j, x4)
           d5 == SyncRoot(d4)
           rest == <<d3, d4, d5>>
<1>1. /\ x1 = Move(D[j], "trash") /\ d1 = At(D, j, x1) /\ s1 = SyncRoot(d1)
      /\ x3 = Empty(d2[j]) /\ d3 = At(d2, j, x3) /\ x4 = Move(d3[j], "absent")
      /\ d4 = At(d3, j, x4) /\ d5 = SyncRoot(d4)
  OBVIOUS
<1>2. ds = hides \o rest
  BY DEF Deletes
<1>3. hides = (IF D[j].place = "live" THEN <<d1, s1>> ELSE <<>>)
      /\ d2 = IF hides = <<>> THEN D ELSE hides[2]
  OBVIOUS
<1>4. rest = <<d3, d4, d5>>
  OBVIOUS
<1> HIDE DEF x1, d1, s1, hides, d2, x3, d3, x4, d4, d5, rest
<1>5. "trash" \in Places /\ "absent" \in Places /\ "trash" # "live" /\ "absent" # "live"
  BY DEF Places
<1>6. Fine(D[j], j, B, K, R)
  BY DEF Disks
<1>7. Fine(x1, j, B, K, R)
  BY <1>1, <1>5, <1>6, MoveFine
<1>8. d1 \in G
  BY <1>1, <1>7, AtIs
<1>9. s1 \in G
  BY <1>1, <1>8, RootSynced
<1>10. hides \in Seq(G) /\ d2 \in G
  <2> HIDE DEF G
  <2>1. D \in G
    BY DEF G
  <2>2. CASE D[j].place = "live"
    <3>1. hides = <<d1, s1>> /\ hides # <<>>
      BY <1>3, <2>2
    <3>2. d2 = s1
      BY <1>3, <3>1
    <3> QED
      BY <1>8, <1>9, <3>1, <3>2
  <2>3. CASE D[j].place # "live"
    BY <1>3, <2>1, <2>3
  <2> QED
    BY <2>2, <2>3
<1>11. Fine(d2[j], j, B, K, R)
  BY <1>10 DEF Disks
<1>12. Fine(x3, j, B, K, R)
  BY <1>1, <1>11, EmptyFine
<1>13. d3 \in G /\ d3[j] = x3
  BY <1>1, <1>10, <1>12, AtIs
<1>14. Fine(x4, j, B, K, R)
  BY <1>1, <1>5, <1>12, <1>13, MoveFine
<1>15. d4 \in G
  BY <1>1, <1>13, <1>14, AtIs
<1>16. d5 \in G
  BY <1>1, <1>15, RootSynced
<1> HIDE DEF G
<1>17. rest \in Seq(G) /\ Len(rest) = 3
  BY <1>4, <1>13, <1>15, <1>16
<1>18. Joined(ds, hides, rest) /\ Len(rest) >= 1
  BY <1>2, <1>17 DEF Joined
<1>19. ds \in Seq(G) /\ Len(ds) >= 1
  BY <1>10, <1>17, <1>18, Chain
<1> QED
  BY <1>19 DEF G

(* Delete keeps the invariant.                                             *)
LEMMA DeleteKeeps ==
  ASSUME IInv, NEW j \in Jobs, Delete(j)
  PROVE  IInv'
<1> DEFINE ds == Deletes(disk, j)
           K == kept \ {j}
           R == [reported EXCEPT ![j] = 0]
           G == Disks(born, K, R)
<1>1. /\ pc = "idle" /\ j \in born
      /\ \/ disk' = disk /\ dying' = dying /\ gone' = gone \cup {j}
         \/ Wholly(ds) /\ gone' = gone \cup {j}
         \/ Partly(ds) /\ gone' = gone
      /\ up' = up /\ pc' = pc /\ who' = who /\ m' = m /\ cancel' = cancel
      /\ born' = born /\ kept' = K /\ finished' = finished \ {j} /\ reported' = R
  BY DEF Delete, Deletes, Busy, run
<1>2. Types /\ m = NoManifest /\ disk \in Disks(born, kept, reported)
  BY <1>1 DEF IInv, RunOK
<1>3. R \in [Jobs -> 0..Len(Plan)] /\ R[j] = 0 /\ \A k \in Jobs : k # j => R[k] = reported[k]
  BY <1>2, NoManifestIs DEF Types
<1>4. j \notin K /\ K \subseteq kept
  OBVIOUS
<1> HIDE DEF R, K
<1>5. disk \in G
  <2>1. GoodDir(disk[j], reported[j]) /\ Fine(disk[j], j, born, kept, reported)
    BY DirectoryIs
  <2>2. GoodDir(disk[j], R[j])
    BY <1>3, <2>1, Weaker
  <2>3. born \subseteq born /\ K \subseteq kept \cup {j}
    BY <1>4
  <2> QED
    BY <1>1, <1>2, <1>3, <1>4, <2>2, <2>3, Again
<1>6. ds \in Seq(G) /\ Len(ds) >= 1
  BY <1>1, <1>3, <1>4, <1>5, DeletesIs
<1> HIDE DEF ds
<1>7. disk' \in G /\ dying' \in BOOLEAN
  <2> HIDE DEF G
  <2>1. /\ Wholly(ds) => disk' \in G /\ dying' \in BOOLEAN
        /\ Partly(ds) => disk' \in G /\ dying' \in BOOLEAN
    BY <1>6, Lands
  <2> QED
    BY <1>1, <1>2, <1>5, <2>1 DEF Types
<1>8. Types'
  <2>1. kept' \subseteq born /\ gone' \subseteq born /\ finished' \subseteq born
    BY <1>1, <1>2, <1>4 DEF Types
  <2>2. \A k \in Jobs : k \notin born => R[k] = 0
    BY <1>2, <1>3 DEF Types
  <2> QED
    BY <1>1, <1>2, <1>3, <1>7, <2>1, <2>2 DEF Types
<1>9. RunOK'
  BY <1>1, <1>2, NoRun
<1> QED
  BY <1>1, <1>7, <1>8, <1>9 DEF IInv

-----------------------------------------------------------------------------
(* The executor.                                                           *)

(* The recording it runs, and its copy of the manifest.                    *)
LEMMA RunIs ==
  ASSUME IInv, pc # "idle"
  PROVE  /\ up = TRUE /\ who \in Jobs /\ who \in born
         /\ m \in Manifests /\ m \in GoodManifests /\ Len(m.cps) >= reported[who]
         /\ Len(m.cps) \in 0..Len(Plan) /\ Len(Plan) \in Nat
         /\ Current(m, disk[who]) /\ disk[who].places = {"live"}
         /\ disk[who].manifest \in GoodManifests
<1>1. /\ up = TRUE /\ who \in Jobs /\ m \in Manifests /\ m \in GoodManifests
      /\ Len(m.cps) >= reported[who] /\ Current(m, disk[who])
  BY DEF IInv, RunOK, Types
<1>2. disk[who].place = "live" /\ disk[who].manifest.status # "none"
  BY <1>1 DEF Current
<1>3. who \in born /\ disk[who].places = {"live"} /\ disk[who].manifest \in GoodManifests
  BY <1>1, <1>2, LoadedIs
<1>4. m \in AllManifests /\ Len(m.cps) <= Len(Plan) /\ Len(Plan) \in Nat
  BY <1>1, NoManifestIs DEF GoodManifests
<1>5. Len(m.cps) \in Nat
  BY <1>4, ManifestIs
<1> QED
  BY <1>1, <1>3, <1>4, <1>5

(* What publishing mf leaves: it is saved and reported, or Run goes on     *)
(* after the failure and nothing is reported.                              *)
LEMMA PublishIs ==
  ASSUME IInv, pc # "idle", NEW mf \in Manifests, mf \in GoodManifests,
         Len(mf.cps) >= reported[who], mf.title = m.title, mf.config = m.config,
         mf.released = m.released, NEW p, NEW q, Publish(mf, p, q)
  PROVE  /\ disk' \in Disks(born, kept, reported') /\ dying' \in BOOLEAN
         /\ up' = up /\ born' = born /\ kept' = kept /\ gone' = gone
         /\ reported' \in [Jobs -> 0..Len(Plan)]
         /\ \A j \in Jobs : j \notin born => reported'[j] = 0
         /\ Current(mf, disk'[who]) /\ Len(mf.cps) >= reported'[who]
         /\ \/ Goes(p, mf) /\ disk'[who].manifests = {mf}
            \/ Goes(q, mf)
<1> DEFINE ds == Save(disk, who, mf)
           d == disk[who]
           x == Put(d, mf)
           y == SyncDir(x)
           G == Disks(born, kept, reported)
           R == [reported EXCEPT ![who] = Len(mf.cps)]
<1>1. /\ \/ Wholly(ds) /\ Goes(p, mf) /\ reported' = R
         \/ Stops(ds, 0) /\ Goes(q, mf) /\ reported' = reported
      /\ up' = up /\ born' = born /\ kept' = kept /\ gone' = gone
  BY DEF Publish
<1>2. /\ who \in Jobs /\ who \in born /\ Current(m, d) /\ d.places = {"live"}
  BY RunIs
<1>3. /\ reported \in [Jobs -> 0..Len(Plan)] /\ \A j \in Jobs : j \notin born => reported[j] = 0
      /\ disk \in G
  BY DEF IInv, Types
<1>4. mf.status # "none" /\ Len(mf.cps) \in 0..Len(Plan)
  <2>1. mf \in AllManifests /\ Len(mf.cps) <= Len(Plan) /\ Len(Plan) \in Nat
    BY NoManifestIs DEF GoodManifests
  <2> QED
    BY <2>1, ManifestIs
<1>5. x = Put(d, mf) /\ y = SyncDir(x)
  OBVIOUS
<1>6. /\ ds \in Seq(G) /\ Len(ds) = 2
      /\ ds[1] = At(disk, who, x) /\ ds[2] = At(disk, who, y)
      /\ Fine(x, who, born, kept, reported) /\ Fine(y, who, born, kept, reported)
  BY <1>2, <1>3, <1>4, SaveIs
<1> HIDE DEF ds, d, x, y, R
<1>7. /\ GoodDir(x, reported[who]) /\ x.manifest = mf /\ x.place = d.place /\ x.places = d.places
  <2>1. GoodDir(d, reported[who])
    BY <1>2, DirectoryIs DEF d
  <2> QED
    BY <1>5, <2>1, PutIs
<1>8. /\ GoodDir(y, reported[who]) /\ y.manifest = mf /\ y.manifests = {mf}
      /\ y.place = d.place /\ y.places = d.places
  <2>1. /\ GoodDir(y, reported[who]) /\ y.manifest = x.manifest /\ y.manifests = {x.manifest}
        /\ y.place = x.place /\ y.places = x.places
    BY <1>5, <1>7, SyncDirIs
  <2> QED
    BY <1>7, <2>1
<1>9. /\ ds[1] \in G /\ ds[1][who] = x
      /\ ds[2] \in G /\ ds[2][who] = y
  BY <1>2, <1>3, <1>6, AtIs
<1>10. Current(mf, d) /\ Current(mf, x) /\ Current(mf, y)
  BY <1>2, <1>4, <1>7, <1>8 DEF Current
<1>11. R \in [Jobs -> 0..Len(Plan)] /\ R[who] = Len(mf.cps) /\ \A k \in Jobs : k # who => R[k] = reported[k]
  BY <1>2, <1>3, <1>4 DEF R
<1>12. CASE Wholly(ds) /\ Goes(p, mf) /\ reported' = R
  <2>1. disk' = ds[2] /\ dying' \in BOOLEAN
    BY <1>6, <1>12 DEF Wholly
  <2>2. disk'[who] = y /\ disk' \in G
    BY <1>9, <2>1
  <2>3. GoodDir(y, R[who])
    <3>1. Len(mf.cps) \in Nat
      BY <1>4
    <3> QED
      BY <1>8, <1>11, <3>1 DEF GoodDir
  <2>4. disk' \in Disks(born, kept, R)
    <3>1. born \subseteq born /\ kept \subseteq kept \cup {who}
      OBVIOUS
    <3>2. (R[who] # 0 => disk'[who].places = {"live"}) /\ (who \in kept => Firm(disk'[who]))
      BY <1>2, <1>6, <1>8, <2>2 DEF Fine
    <3> QED
      BY <1>2, <1>11, <2>2, <2>3, <3>1, <3>2, Again
  <2>5. Len(mf.cps) >= R[who] /\ \A j \in Jobs : j \notin born => R[j] = 0
    BY <1>2, <1>3, <1>4, <1>11
  <2> QED
    BY <1>1, <1>8, <1>10, <1>11, <1>12, <2>1, <2>2, <2>4, <2>5
<1>13. CASE Stops(ds, 0) /\ Goes(q, mf) /\ reported' = reported
  <2>1. (disk' = disk \/ disk' = ds[1]) /\ dying' \in BOOLEAN
    BY <1>6, <1>13 DEF Stops
  <2>2. disk' \in G /\ Current(mf, disk'[who])
    BY <1>3, <1>9, <1>10, <2>1 DEF d
  <2> QED
    BY <1>1, <1>3, <1>13, <2>1, <2>2
<1> QED
  BY <1>1, <1>12, <1>13

(* Where Run may go with mf after it published it, or failed to.           *)
After(p, mf) ==
  /\ p \in {"idle", "loop", "stage", "failing"}
  /\ p # "idle" => ~mf.released
  /\ p \in {"loop", "stage"} => mf.status = "running"
  /\ p = "stage" => mf.active = Len(mf.cps) + 1

(* What Goes leaves of Run's variables.                                    *)
LEMMA GoesIs ==
  ASSUME IInv, NEW p, NEW mf, Goes(p, mf)
  PROVE  /\ pc' = p /\ who' \in Jobs /\ cancel' \in BOOLEAN
         /\ p = "idle" => m' = NoManifest
         /\ p # "idle" => m' = mf /\ who' = who
BY NoManifestIs DEF Goes, IInv, Types

(* Publishing keeps the invariant.                                         *)
LEMMA PublishKeeps ==
  ASSUME IInv, pc # "idle", NEW mf \in Manifests, mf \in GoodManifests,
         Len(mf.cps) >= reported[who], mf.title = m.title, mf.config = m.config,
         mf.released = m.released, NEW p, NEW q, Publish(mf, p, q),
         After(p, mf), After(q, mf), q # "stage", finished' \subseteq born
  PROVE  IInv'
<1>1. /\ disk' \in Disks(born, kept, reported') /\ dying' \in BOOLEAN
      /\ up' = up /\ born' = born /\ kept' = kept /\ gone' = gone
      /\ reported' \in [Jobs -> 0..Len(Plan)]
      /\ \A j \in Jobs : j \notin born => reported'[j] = 0
      /\ Current(mf, disk'[who]) /\ Len(mf.cps) >= reported'[who]
      /\ \/ Goes(p, mf) /\ disk'[who].manifests = {mf}
         \/ Goes(q, mf)
  BY PublishIs
<1>2. PICK r : /\ Goes(r, mf) /\ After(r, mf)
               /\ r = "stage" => disk'[who].manifests = {mf}
  BY <1>1
<1>3. /\ pc' = r /\ who' \in Jobs /\ cancel' \in BOOLEAN
      /\ r = "idle" => m' = NoManifest
      /\ r # "idle" => m' = mf /\ who' = who
  BY <1>2, GoesIs
<1>4. Types /\ up = TRUE
  BY RunIs DEF IInv
<1>5. m' \in AllManifests
  BY <1>3 DEF AllManifests
<1>6. Types'
  <2>1. pc' \in {"idle", "admitted", "loop", "stage", "record", "failing", "ending"}
    BY <1>2, <1>3 DEF After
  <2>2. kept' \subseteq born /\ gone' \subseteq born
    BY <1>1, <1>4 DEF Types
  <2>3. up' \in BOOLEAN
    <3>1. up' = TRUE
      BY <1>1, <1>4
    <3> QED
      BY <3>1
  <2>4. born' \subseteq Jobs /\ kept' \subseteq born' /\ gone' \subseteq born' /\ finished' \subseteq born'
    BY <1>1, <1>4, <2>2 DEF Types
  <2>5. \A j \in Jobs : j \notin born' => reported'[j] = 0
    BY <1>1
  <2> QED
    BY <1>1, <1>3, <1>5, <2>1, <2>3, <2>4, <2>5 DEF Types
<1>7. RunOK'
  <2>1. CASE r = "idle"
    BY <1>3, <2>1, NoRun
  <2>2. CASE r # "idle"
    BY <1>1, <1>2, <1>3, <1>4, <2>2 DEF RunOK, After
  <2> QED
    BY <2>1, <2>2
<1> QED
  BY <1>1, <1>6, <1>7 DEF IInv

(* Admit keeps the invariant.                                              *)
LEMMA AdmitKeeps ==
  ASSUME IInv, NEW j \in Jobs, Admit(j)
  PROVE  IInv'
<1>1. /\ up /\ disk[j].place = "live" /\ disk[j].manifest.status # "none"
      /\ pc' = "admitted" /\ who' = j /\ m' = disk[j].manifest /\ cancel' = FALSE
      /\ disk' = disk /\ up' = up /\ dying' = dying /\ born' = born /\ kept' = kept
      /\ gone' = gone /\ finished' = finished /\ reported' = reported
  BY DEF Admit, Loaded, Manifest, history
<1>2. /\ disk[j].manifest \in GoodManifests /\ disk[j].manifest \in Manifests
      /\ Len(disk[j].manifest.cps) >= reported[j]
  BY <1>1, LoadedIs
<1>3. Types'
  <2>1. m' \in AllManifests /\ cancel' \in BOOLEAN
    BY <1>1, <1>2 DEF AllManifests
  <2> QED
    BY <1>1, <2>1 DEF IInv, Types
<1>4. Current(m', disk'[j])
  BY <1>1 DEF Current
<1>5. RunOK'
  BY <1>1, <1>2, <1>4 DEF RunOK
<1> QED
  BY <1>1, <1>3, <1>5 DEF IInv

(* Cancel keeps the invariant.                                             *)
LEMMA CancelKeeps ==
  ASSUME IInv, Cancel
  PROVE  IInv'
<1>1. cancel' \in BOOLEAN
  BY DEF Cancel
<1>2. Types'
  BY <1>1 DEF Cancel, history, IInv, Types
<1> QED
  BY <1>2 DEF Cancel, history, IInv, RunOK, Current

(* Refuse keeps the invariant.                                             *)
LEMMA RefuseKeeps ==
  ASSUME IInv, Refuse
  PROVE  IInv'
<1>1. /\ pc = "admitted" /\ Goes("idle", m) /\ finished' \subseteq finished \cup {who}
      /\ disk' = disk /\ up' = up /\ dying' = dying /\ born' = born /\ kept' = kept
      /\ gone' = gone /\ reported' = reported
  BY DEF Refuse
<1>2. pc' = "idle" /\ who' \in Jobs /\ cancel' \in BOOLEAN /\ m' = NoManifest
  BY <1>1, GoesIs
<1>3. who \in born /\ m' \in AllManifests
  BY <1>1, <1>2, RunIs DEF AllManifests
<1>4. finished' \subseteq born
  BY <1>1, <1>3 DEF IInv, Types
<1>5. Types'
  BY <1>1, <1>2, <1>3, <1>4 DEF IInv, Types
<1>6. RunOK'
  BY <1>2, NoRun
<1> QED
  BY <1>1, <1>5, <1>6 DEF IInv

(* The active stage of a manifest: none, or the one that is being run.     *)
LEMMA ActiveIs ==
  ASSUME NEW mf \in GoodManifests
  PROVE  \/ mf.active = 0
         \/ /\ mf.status = "running" /\ mf.active = Len(mf.cps) + 1 /\ Len(mf.cps) < Len(Plan)
<1>1. mf \in AllManifests /\ Len(Plan) \in Nat
  BY NoManifestIs DEF GoodManifests
<1>2. Len(mf.cps) \in Nat /\ mf.active \in Nat
  BY <1>1, ManifestIs
<1>3. mf.active # 0 => mf.status = "running" /\ mf.active = Len(mf.cps) + 1 /\ mf.active <= Len(Plan)
  BY DEF GoodManifests
<1> QED
  BY <1>1, <1>2, <1>3

(* Publishing the copy with another status or active stage.                *)
LEMMA RestatedKeeps ==
  ASSUME IInv, pc # "idle", NEW s, NEW a, NEW mf, Restated(mf, m, s, a),
         \/ a = 0
         \/ s = "running" /\ a = Len(m.cps) + 1 /\ Len(m.cps) < Len(Plan),
         m.released => s \in {"complete", "cancelled"},
         NEW p, NEW q, Publish(mf, p, q), After(p, mf), After(q, mf), q # "stage",
         finished' \subseteq born
  PROVE  IInv'
<1>1. m \in GoodManifests /\ Len(m.cps) >= reported[who]
  BY RunIs
<1>2. mf \in GoodManifests /\ Len(mf.cps) = Len(m.cps)
  BY <1>1, RestatedGood
<1>3. mf \in Manifests /\ mf.title = m.title /\ mf.config = m.config /\ mf.released = m.released
      /\ Len(mf.cps) >= reported[who]
  BY <1>1, <1>2 DEF Restated
<1> QED
  BY <1>2, <1>3, PublishKeeps

(* Begin keeps the invariant.                                              *)
LEMMA BeginKeeps ==
  ASSUME IInv, Begin
  PROVE  IInv'
<1> DEFINE mf == [m EXCEPT !.status = "running", !.attempts = @ + 1]
<1>1. /\ pc = "admitted" /\ ~m.released /\ Publish(mf, "loop", "idle") /\ finished' = finished
  BY DEF Begin, Startable
<1>2. m \in Manifests /\ m \in GoodManifests /\ finished \subseteq born
  BY <1>1, RunIs DEF IInv, Types
<1>3. Restated(mf, m, "running", m.active)
  BY <1>2, SetRunning
<1> HIDE DEF mf
<1>4. \/ m.active = 0
      \/ Len(m.cps) < Len(Plan) /\ m.active = Len(m.cps) + 1
  BY <1>2, ActiveIs
<1>5. After("loop", mf) /\ After("idle", mf)
  BY <1>1, <1>3 DEF After, Restated
<1> QED
  BY <1>1, <1>2, <1>3, <1>4, <1>5, RestatedKeeps

(* NextStage keeps the invariant.                                          *)
LEMMA NextStageKeeps ==
  ASSUME IInv, NextStage
  PROVE  IInv'
<1> DEFINE a == Len(m.cps) + 1
           mf == [m EXCEPT !.active = a]
<1>1. /\ pc = "loop" /\ Len(m.cps) < Len(Plan) /\ Publish(mf, "stage", "failing")
      /\ finished' = finished
  BY DEF NextStage
<1>2. /\ m \in Manifests /\ m \in GoodManifests /\ finished \subseteq born
      /\ Len(m.cps) \in Nat /\ ~m.released /\ m.status = "running"
  BY <1>1, RunIs DEF IInv, Types, RunOK
<1>3. Restated(mf, m, m.status, a)
  <2>1. a \in Nat /\ m.status \in Statuses
    BY <1>2 DEF Statuses
  <2> HIDE DEF a
  <2> QED
    BY <1>2, <2>1, SetStatus
<1>4. a = Len(m.cps) + 1
  OBVIOUS
<1> HIDE DEF mf, a
<1>5. After("stage", mf) /\ After("failing", mf)
  <2>1. mf.status = "running" /\ ~mf.released /\ mf.active = Len(mf.cps) + 1
    BY <1>2, <1>3, <1>4 DEF Restated
  <2> QED
    BY <2>1 DEF After
<1> QED
  BY <1>1, <1>2, <1>3, <1>4, <1>5, RestatedKeeps

(* RecordStage keeps the invariant.                                        *)
LEMMA RecordStageKeeps ==
  ASSUME IInv, RecordStage
  PROVE  IInv'
<1>1. pc = "record" /\ Publish(m, "loop", "failing") /\ finished' = finished
  BY DEF RecordStage
<1>2. /\ m \in Manifests /\ m \in GoodManifests /\ finished \subseteq born
      /\ Len(m.cps) >= reported[who] /\ ~m.released /\ m.status = "running"
  BY <1>1, RunIs DEF IInv, Types, RunOK
<1>3. After("loop", m) /\ After("failing", m)
  BY <1>2 DEF After
<1> QED
  BY <1>1, <1>2, <1>3, PublishKeeps

(* Complete keeps the invariant.                                           *)
LEMMA CompleteKeeps ==
  ASSUME IInv, Complete
  PROVE  IInv'
<1> DEFINE mf == [m EXCEPT !.status = "complete"]
<1>1. /\ pc = "loop" /\ Len(m.cps) = Len(Plan) /\ Publish(mf, "idle", "failing")
      /\ finished' \subseteq finished \cup {who}
  BY DEF Complete
<1>2. /\ m \in Manifests /\ m \in GoodManifests /\ finished \subseteq born
      /\ Len(m.cps) \in Nat /\ ~m.released /\ who \in born
  BY <1>1, RunIs DEF IInv, Types, RunOK
<1>3. Restated(mf, m, "complete", m.active)
  <2>1. "complete" \in Statuses
    BY DEF Statuses
  <2> QED
    BY <1>2, <2>1, SetStatus, 0 \in Nat
<1> HIDE DEF mf
<1>4. m.active = 0
  BY <1>1, <1>2, ActiveIs
<1>5. After("idle", mf) /\ After("failing", mf)
  BY <1>2, <1>3 DEF After, Restated
<1>6. finished' \subseteq born
  BY <1>1, <1>2
<1> QED
  BY <1>1, <1>2, <1>3, <1>4, <1>5, <1>6, RestatedKeeps

(* End keeps the invariant.                                                *)
LEMMA EndKeeps ==
  ASSUME IInv, End
  PROVE  IInv'
<1>1. pc = "ending" /\ Publish(m, "idle", "idle") /\ finished' = finished
  BY DEF End
<1>2. /\ m \in Manifests /\ m \in GoodManifests /\ finished \subseteq born
      /\ Len(m.cps) >= reported[who]
  BY <1>1, RunIs DEF IInv, Types
<1>3. After("idle", m)
  BY DEF After
<1> QED
  BY <1>1, <1>2, <1>3, PublishKeeps

(* The run is over but for its last save.                                  *)
LEMMA StoppedKeeps ==
  ASSUME IInv, pc \notin {"idle", "admitted"}, NEW s \in {"failed", "cancelled"}, Stopped(s),
         disk' \in Disks(born, kept, reported), dying' \in BOOLEAN, up' = up,
         disk'[who].place = disk[who].place, disk'[who].manifest = disk[who].manifest,
         born' = born, kept' = kept, gone' = gone, finished' = finished, reported' = reported
  PROVE  IInv'
<1> DEFINE mf == [m EXCEPT !.status = s, !.active = 0]
<1>1. /\ m \in Manifests /\ m \in GoodManifests /\ Len(m.cps) >= reported[who]
      /\ ~m.released /\ Current(m, disk[who]) /\ up = TRUE
  BY RunIs DEF IInv, RunOK
<1>2. Restated(mf, m, s, 0)
  <2>1. s \in Statuses /\ 0 \in Nat
    BY DEF Statuses
  <2> QED
    BY <1>1, <2>1, SetStatus
<1>3. Goes("ending", mf)
  BY DEF Stopped
<1> HIDE DEF mf
<1>4. mf \in GoodManifests /\ Len(mf.cps) = Len(m.cps)
  BY <1>1, <1>2, RestatedGood
<1>5. pc' = "ending" /\ who' = who /\ who' \in Jobs /\ m' = mf /\ cancel' \in BOOLEAN
  BY <1>3, GoesIs
<1>6. mf \in Manifests /\ mf \in AllManifests /\ Current(mf, disk'[who])
  BY <1>1, <1>2 DEF Restated, AllManifests, Current
<1>7. Types'
  BY <1>5, <1>6 DEF IInv, Types
<1>8. RunOK'
  <2>1. ~mf.released /\ Len(mf.cps) >= reported'[who] /\ up'
    BY <1>1, <1>2, <1>4 DEF Restated
  <2> QED
    BY <1>4, <1>5, <1>6, <2>1 DEF RunOK
<1> QED
  BY <1>7, <1>8 DEF IInv

(* Interrupt, StageFails and Fail keep the invariant.                      *)
LEMMA EndingKeeps ==
  ASSUME IInv, Interrupt \/ StageFails \/ Fail
  PROVE  IInv'
<1>1. /\ pc \notin {"idle", "admitted"} /\ (Stopped("failed") \/ Stopped("cancelled"))
      /\ disk' = disk /\ up' = up /\ dying' = dying /\ born' = born /\ kept' = kept
      /\ gone' = gone /\ finished' = finished /\ reported' = reported
  BY DEF Interrupt, StageFails, Fail, history
<1>2. disk' \in Disks(born, kept, reported) /\ dying' \in BOOLEAN
      /\ disk'[who].place = disk[who].place /\ disk'[who].manifest = disk[who].manifest
  BY <1>1 DEF IInv, Types
<1> QED
  BY <1>1, <1>2, StoppedKeeps

(* The disks that are fine and show the manifest that D shows of j.        *)
Showing(D, j) ==
  {E \in Disks(born, kept, reported) :
     E[j].place = D[j].place /\ E[j].manifest = D[j].manifest}

(* What a stage does to the disk: its payload under the name f, if it is   *)
(* not there, and a sync.                                                  *)
Stage(f, there) ==
  LET d == Link(disk[who], f)
  IN (IF there = {} THEN <<At(disk, who, d)>> ELSE <<>>)
     \o <<At(disk, who, SyncDir(IF there = {} THEN d ELSE disk[who]))>>

(* It leaves the disk fine, and the manifest, at every step.               *)
LEMMA StageIs ==
  ASSUME IInv, pc # "idle", NEW f \in Files, NEW there, NEW ds, ds = Stage(f, there)
  PROVE  ds \in Seq(Showing(disk, who)) /\ Len(ds) >= 1
<1> DEFINE G == Showing(disk, who)
           b == disk[who]
           d == Link(b, f)
           e == IF there = {} THEN d ELSE b
           q == SyncDir(e)
           first == At(disk, who, d)
           last == At(disk, who, q)
           a == IF there = {} THEN <<first>> ELSE <<>>
<1>1. /\ d = Link(b, f) /\ e = (IF there = {} THEN d ELSE b) /\ q = SyncDir(e)
      /\ first = At(disk, who, d) /\ last = At(disk, who, q)
      /\ a = IF there = {} THEN <<first>> ELSE <<>>
  OBVIOUS
<1>2. ds = a \o <<last>>
  BY DEF Stage
<1>3. /\ who \in Jobs /\ who \in born /\ disk \in Disks(born, kept, reported)
      /\ Fine(b, who, born, kept, reported) /\ GoodDir(b, reported[who])
  BY RunIs, DirectoryIs
<1> HIDE DEF b, d, e, q, first, last, a
<1>4. Fine(d, who, born, kept, reported) /\ d.place = b.place /\ d.manifest = b.manifest
  <2>1. /\ GoodDir(d, reported[who]) /\ d.manifest = b.manifest /\ d.manifests = b.manifests
        /\ d.place = b.place /\ d.places = b.places
    BY <1>1, <1>3, LinkIs
  <2> QED
    BY <1>3, <2>1 DEF Fine, Firm
<1>5. Fine(e, who, born, kept, reported) /\ e.place = b.place /\ e.manifest = b.manifest
  BY <1>1, <1>3, <1>4
<1>6. Fine(q, who, born, kept, reported) /\ q.place = b.place /\ q.manifest = b.manifest
  <2>1. GoodDir(e, reported[who]) /\ e.manifest \in e.manifests
    BY <1>5 DEF Fine, GoodDir
  <2>3. q = SyncDir(e)
    BY <1>1
  <2>2. /\ GoodDir(q, reported[who]) /\ q.manifest = e.manifest /\ q.manifests = {e.manifest}
        /\ q.place = e.place /\ q.places = e.places
    BY <2>1, <2>3, SyncDirIs
  <2> QED
    BY <1>3, <1>5, <2>1, <2>2 DEF Fine, Firm
<1>7. first \in G
  <2>1. first \in Disks(born, kept, reported) /\ first[who] = d
    BY <1>1, <1>3, <1>4, AtIs
  <2> QED
    BY <1>4, <2>1 DEF Showing, b
<1>8. last \in G
  <2>1. last \in Disks(born, kept, reported) /\ last[who] = q
    BY <1>1, <1>3, <1>6, AtIs
  <2> QED
    BY <1>6, <2>1 DEF Showing, b
<1> HIDE DEF G
<1>9. a \in Seq(G)
  <2>1. <<first>> \in Seq(G) /\ <<>> \in Seq(G)
    BY <1>7
  <2> QED
    BY <1>1, <2>1
<1>10. <<last>> \in Seq(G) /\ Len(<<last>>) >= 1 /\ Joined(ds, a, <<last>>)
  BY <1>2, <1>8 DEF Joined
<1> DEFINE z == <<last>>
<1>11. z \in Seq(G) /\ Len(z) >= 1 /\ Joined(ds, a, z)
  BY <1>10
<1> HIDE DEF z
<1>12. ds \in Seq(G) /\ Len(ds) >= 1
  BY <1>9, <1>11, Chain
<1> QED
  BY <1>12 DEF G

(* A checkpoint behind the others.                                         *)
LEMMA AppendExtends ==
  ASSUME NEW cs \in Seq(Checkpoints), NEW x \in Checkpoints
  PROVE  Extends(Append(cs, x), cs, x)
BY DEF Extends

(* StageWrites keeps the invariant.                                        *)
LEMMA StageWritesKeeps ==
  ASSUME IInv, NEW o \in Outputs, StageWrites(o)
  PROVE  IInv'
<1> DEFINE key == Key(m, m.active)
           f == <<key, o>>
           there == {g \in disk[who].files : g[1] = key}
           ds == Stage(f, there)
           x == [key |-> key, bytes |-> o]
           cs == Append(m.cps, x)
           mf == WithStages(m, cs)
           G == Showing(disk, who)
<1>1. /\ pc = "stage"
      /\ \/ Wholly(ds) /\ Goes("record", mf)
         \/ Stops(ds, 0) /\ Stopped("failed")
      /\ up' = up /\ born' = born /\ kept' = kept /\ gone' = gone /\ finished' = finished
      /\ reported' = reported
  BY DEF StageWrites, Stage, WithStages, history
<1>2. /\ m \in Manifests /\ m \in GoodManifests /\ Len(m.cps) >= reported[who] /\ ~m.released
      /\ m.status = "running" /\ m.active = Len(m.cps) + 1 /\ Len(m.cps) \in Nat
      /\ Current(m, disk[who]) /\ up = TRUE /\ who \in Jobs
  BY <1>1, RunIs DEF IInv, RunOK
<1>3. m \in AllManifests /\ m.cps \in Seq(Checkpoints)
  BY <1>2, ManifestIs DEF AllManifests
<1>4. key \in Names
  <2>1. m.active \in 1..(Len(m.cps) + 1)
    BY <1>2
  <2> QED
    BY <1>3, <2>1, KeyIs
<1>5. f \in Files /\ x \in Checkpoints /\ x.key = Key(m, m.active)
  <2> HIDE DEF key
  <2>1. f \in Files
    BY <1>4, FilesAre
  <2>2. x \in Checkpoints
    BY <1>4 DEF Checkpoints, Names
  <2> QED
    BY <2>1, <2>2 DEF key
<1>6. mf = WithStages(m, cs) /\ Extends(cs, m.cps, x)
  <2> HIDE DEF x, key
  <2> QED
    BY <1>3, <1>5, AppendExtends
<1>7. ds \in Seq(G) /\ Len(ds) >= 1
  <2> HIDE DEF f, there
  <2> QED
    BY <1>1, <1>5, StageIs
<1> HIDE DEF ds, key, f, there, x, cs, mf
<1>8. CASE Wholly(ds) /\ Goes("record", mf)
  <2>1. disk' \in G /\ dying' \in BOOLEAN
    <3> HIDE DEF G
    <3> QED
      BY <1>7, <1>8, Lands
  <2>2. /\ disk' \in Disks(born, kept, reported) /\ disk'[who].place = disk[who].place
        /\ disk'[who].manifest = disk[who].manifest
    BY <2>1 DEF Showing
  <2>3. /\ mf \in Manifests /\ mf \in GoodManifests /\ mf.cps = cs
        /\ mf.status = "running" /\ mf.released = m.released
        /\ mf.title = m.title /\ mf.config = m.config
    BY <1>2, <1>5, <1>6, SetRecorded
  <2>4. pc' = "record" /\ who' = who /\ who' \in Jobs /\ m' = mf /\ cancel' \in BOOLEAN
    BY <1>8, GoesIs
  <2>5. Len(mf.cps) >= reported[who]
    <3>1. Len(cs) = Len(m.cps) + 1 /\ reported[who] \in Nat
      BY <1>2, <1>6, DirectoryIs DEF Extends
    <3> QED
      BY <1>2, <2>3, <3>1
  <2>6. mf \in AllManifests /\ Current(mf, disk'[who])
    BY <1>2, <2>2, <2>3 DEF AllManifests, Current
  <2>7. Types'
    BY <1>1, <2>1, <2>4, <2>6 DEF IInv, Types
  <2>8. RunOK'
    <3>1. ~mf.released /\ up'
      BY <1>1, <1>2, <2>3
    <3> QED
      BY <1>1, <2>3, <2>4, <2>5, <2>6, <3>1 DEF RunOK
  <2> QED
    BY <1>1, <2>2, <2>7, <2>8 DEF IInv
<1>9. CASE Stops(ds, 0) /\ Stopped("failed")
  <2>1. (disk' = disk \/ disk' \in G) /\ dying' \in BOOLEAN
    <3> HIDE DEF G
    <3> QED
      BY <1>7, <1>9, Lands
  <2>2. disk \in G
    BY DEF IInv, Showing
  <2>3. /\ disk' \in Disks(born, kept, reported) /\ disk'[who].place = disk[who].place
        /\ disk'[who].manifest = disk[who].manifest
    BY <2>1, <2>2 DEF Showing
  <2>4. pc \notin {"idle", "admitted"} /\ "failed" \in {"failed", "cancelled"}
    BY <1>1
  <2> QED
    BY <1>1, <1>9, <2>1, <2>3, <2>4, StoppedKeeps
<1> QED
  BY <1>1, <1>8, <1>9

-----------------------------------------------------------------------------
(* Crashes and restarts.                                                   *)

(* An empty directory is fine for a recording nobody was told of.          *)
LEMMA NoDirectoryIs ==
  /\ GoodDir(NoDirectory, 0) /\ NoDirectory.place = "absent"
  /\ NoDirectory.places = {"absent"} /\ NoDirectory.manifest.status = "none"
<1>1. NoManifest \in GoodManifests /\ NoManifest \in AllManifests /\ Len(NoManifest.cps) = 0
      /\ NoManifest.status = "none"
  BY NoManifestIs DEF AllManifests
<1>2. NoDirectory \in Directories
  BY <1>1 DEF NoDirectory, Directories, Places
<1> QED
  BY <1>1, <1>2 DEF NoDirectory, GoodDir

(* What a power loss leaves of a directory.                                *)
LEMMA RemainsIs ==
  ASSUME NEW B, NEW K, NEW R, NEW j \in Jobs, NEW d, Fine(d, j, B, K, R), NEW e \in Remains(d)
  PROVE  Fine(e, j, B, K, R)
<1>1. PICK p \in d.places, mf \in d.manifests, s \in SUBSET d.loose :
        e = IF p = "absent" THEN NoDirectory
            ELSE [place |-> p, manifest |-> mf, files |-> d.durable \cup s,
                  places |-> {p}, manifests |-> {mf}, durable |-> d.durable \cup s, loose |-> {}]
  BY DEF Remains
<1>2. GoodDir(d, R[j])
  BY DEF Fine
<1>3. CASE p = "absent"
  <2>1. e = NoDirectory
    BY <1>1, <1>3
  <2>2. R[j] = 0 /\ j \notin K
    BY <1>1, <1>3 DEF Fine, Firm
  <2> QED
    BY <2>1, <2>2, NoDirectoryIs DEF Fine
<1>4. CASE p # "absent"
  <2>1. e = [place |-> p, manifest |-> mf, files |-> d.durable \cup s,
             places |-> {p}, manifests |-> {mf}, durable |-> d.durable \cup s, loose |-> {}]
    BY <1>1, <1>4
  <2>2. /\ e.place = p /\ e.manifest = mf /\ e.places = {p} /\ e.manifests = {mf}
        /\ e.durable = e.files /\ e \in Directories
    BY <1>2, <2>1 DEF GoodDir, Directories
  <2>3. GoodDir(e, R[j])
    BY <1>2, <2>2 DEF GoodDir
  <2>4. j \in B
    BY <1>1, <1>4, NoDirectoryIs DEF Fine
  <2>5. /\ R[j] # 0 => p = "live"
        /\ j \in K => p = "live" /\ mf.status # "none"
    BY <1>1 DEF Fine, Firm
  <2> QED
    BY <2>2, <2>3, <2>4, <2>5 DEF Fine, Firm
<1> QED
  BY <1>3, <1>4

(* What dies with the process keeps the invariant.                         *)
LEMMA LostKeeps ==
  ASSUME IInv, MemoryLost, disk' \in Disks(born, kept, reported)
  PROVE  IInv'
<1>1. /\ Goes("idle", m) /\ up' = FALSE /\ dying' = FALSE /\ born' = born /\ kept' = kept
      /\ gone' = gone /\ finished' = finished /\ reported' = reported
  BY DEF MemoryLost, history
<1>2. pc' = "idle" /\ who' \in Jobs /\ cancel' \in BOOLEAN /\ m' = NoManifest
  BY <1>1, GoesIs
<1>3. m' \in AllManifests /\ up' \in BOOLEAN /\ dying' \in BOOLEAN
  BY <1>1, <1>2 DEF AllManifests
<1>4. Types'
  BY <1>1, <1>2, <1>3 DEF IInv, Types
<1>5. RunOK'
  BY <1>2, NoRun
<1> QED
  BY <1>1, <1>4, <1>5 DEF IInv

(* Close, Kill and PowerLoss keep the invariant.                           *)
LEMMA CrashKeeps ==
  ASSUME IInv, Close \/ Kill \/ PowerLoss
  PROVE  IInv'
<1>1. CASE Close \/ Kill
  BY <1>1, LostKeeps DEF Close, Kill, IInv
<1>2. CASE PowerLoss
  <2>1. \A j \in Jobs : disk'[j] \in Remains(disk[j])
    BY <1>2 DEF PowerLoss
  <2>2. \A j \in Jobs : Fine(disk'[j], j, born, kept, reported)
    BY <2>1, RemainsIs, DirectoryIs
  <2>3. \A j \in Jobs : disk'[j] \in Directories
    BY <2>2 DEF Fine, GoodDir
  <2>4. PICK D \in [Jobs -> UNION {Remains(disk[j]) : j \in Jobs}] : disk' = D
    BY <1>2 DEF PowerLoss
  <2>5. disk' \in [Jobs -> Directories]
    BY <2>3, <2>4
  <2> QED
    BY <1>2, <2>2, <2>5, LostKeeps DEF Disks, PowerLoss
<1> QED
  BY <1>1, <1>2

(* Recover keeps the invariant.                                            *)
LEMMA RecoverKeeps ==
  ASSUME IInv, NEW j \in Jobs, Recover(j)
  PROVE  IInv'
<1> DEFINE old == disk[j].manifest
           mf == [old EXCEPT !.status = "failed", !.active = 0]
           ds == Save(disk, j, mf)
           G == Disks(born, kept, reported)
<1>1. /\ ~up /\ disk[j].place = "live" /\ old.status = "running"
      /\ Wholly(ds) \/ (disk' = ds[1] /\ dying' = FALSE)
      /\ up' = up /\ pc' = pc /\ who' = who /\ m' = m /\ cancel' = cancel
      /\ born' = born /\ kept' = kept /\ gone' = gone /\ finished' = finished
      /\ reported' = reported
  BY DEF Recover, Left, Loaded, Manifest, run, history
<1>2. Types /\ pc = "idle" /\ m = NoManifest
  BY <1>1 DEF IInv, RunOK
<1>3. /\ j \in born /\ disk[j].places = {"live"} /\ disk \in G
      /\ old \in GoodManifests /\ old \in Manifests /\ Len(old.cps) >= reported[j]
  BY <1>1, LoadedIs, DirectoryIs
<1>4. Restated(mf, old, "failed", 0)
  <2>1. "failed" \in Statuses /\ 0 \in Nat
    BY DEF Statuses
  <2> HIDE DEF old
  <2> QED
    BY <1>3, <2>1, SetStatus
<1>5. ~old.released
  BY <1>1, <1>3 DEF GoodManifests
<1> HIDE DEF mf
<1>6. mf \in GoodManifests /\ Len(mf.cps) = Len(old.cps) /\ mf.status = "failed"
  <2> HIDE DEF old
  <2>1. mf \in GoodManifests /\ Len(mf.cps) = Len(old.cps)
    BY <1>3, <1>4, <1>5, RestatedGood
  <2> QED
    BY <1>4, <2>1 DEF Restated
<1>7. ds \in Seq(G) /\ Len(ds) = 2
  <2>1. Len(mf.cps) >= reported[j] /\ mf.status # "none"
    BY <1>3, <1>6
  <2> QED
    BY <1>3, <1>6, <2>1, SaveIs
<1> HIDE DEF ds
<1>8. disk' \in G /\ dying' \in BOOLEAN
  <2> HIDE DEF G
  <2>1. Len(ds) >= 1 /\ ds[1] \in G /\ FALSE \in BOOLEAN
    BY <1>7
  <2>2. Wholly(ds) => disk' \in G /\ dying' \in BOOLEAN
    BY <1>7, <2>1, Lands
  <2> QED
    BY <1>1, <2>1, <2>2
<1>9. Types'
  BY <1>1, <1>2, <1>8 DEF Types
<1>10. RunOK'
  BY <1>1, <1>2, NoRun
<1> QED
  BY <1>1, <1>8, <1>9, <1>10 DEF IInv

(* Open keeps the invariant.                                               *)
LEMMA OpenKeeps ==
  ASSUME IInv, Open
  PROVE  IInv'
<1>1. /\ ~up /\ up' = TRUE /\ disk' = disk /\ dying' = dying
      /\ pc' = pc /\ who' = who /\ m' = m /\ cancel' = cancel
      /\ born' = born /\ kept' = kept /\ gone' = gone /\ finished' = finished
      /\ reported' = reported
  BY DEF Open, run, history
<1>2. Types /\ pc = "idle" /\ m = NoManifest
  BY <1>1 DEF IInv, RunOK
<1>3. up' \in BOOLEAN
  BY <1>1
<1>4. Types'
  BY <1>1, <1>2, <1>3 DEF Types
<1>5. RunOK'
  BY <1>1, <1>2, NoRun
<1> QED
  BY <1>1, <1>4, <1>5 DEF IInv

-----------------------------------------------------------------------------
(* The theorems.                                                           *)

(* The store starts out fine.                                              *)
LEMMA InitOK ==
  Init => IInv
<1> SUFFICES ASSUME Init
             PROVE  IInv
  OBVIOUS
<1>1. Len(Plan) \in Nat /\ NoJob \in Jobs /\ NoManifest \in AllManifests
  BY NoManifestIs DEF AllManifests
<1>2. Types
  <2>1. up \in BOOLEAN /\ dying \in BOOLEAN /\ cancel \in BOOLEAN
    <3>1. up = FALSE /\ dying = FALSE /\ cancel = FALSE
      BY DEF Init
    <3> QED
      BY <3>1
  <2>2. who \in Jobs /\ m \in AllManifests
    BY <1>1 DEF Init
  <2>3. reported \in [Jobs -> 0..Len(Plan)] /\ \A j \in Jobs : reported[j] = 0
    BY <1>1 DEF Init
  <2>4. pc = "idle" /\ born = {} /\ kept = {} /\ gone = {} /\ finished = {}
    BY DEF Init
  <2> QED
    BY <2>1, <2>2, <2>3, <2>4 DEF Types
<1>3. \A j \in Jobs : disk[j] = NoDirectory /\ reported[j] = 0
  BY DEF Init
<1>4. \A j \in Jobs : Fine(disk[j], j, born, kept, reported)
  BY <1>3, NoDirectoryIs DEF Init, Fine
<1>5. disk \in [Jobs -> Directories]
  <2>1. NoDirectory \in Directories
    BY NoDirectoryIs DEF GoodDir
  <2> QED
    BY <2>1 DEF Init
<1>6. RunOK
  BY DEF Init, RunOK
<1> QED
  BY <1>2, <1>4, <1>5, <1>6 DEF IInv, Disks

(* Every step of the executor keeps the invariant.                         *)
LEMMA ExecuteKeeps ==
  ASSUME IInv, Execute
  PROVE  IInv'
<1>1. CASE Refuse
  BY <1>1, RefuseKeeps
<1>2. CASE Begin
  BY <1>2, BeginKeeps
<1>3. CASE Interrupt \/ StageFails \/ Fail
  BY <1>3, EndingKeeps
<1>4. CASE NextStage
  BY <1>4, NextStageKeeps
<1>5. CASE \E o \in Outputs : StageWrites(o)
  BY <1>5, StageWritesKeeps
<1>6. CASE RecordStage
  BY <1>6, RecordStageKeeps
<1>7. CASE Complete
  BY <1>7, CompleteKeeps
<1>8. CASE End
  BY <1>8, EndKeeps
<1> QED
  BY <1>1, <1>2, <1>3, <1>4, <1>5, <1>6, <1>7, <1>8 DEF Execute

(* The inductive invariant: types, the directory of every recording, Run's *)
(* copy of the manifest against it.                                        *)
THEOREM StoreInductive ==
  Spec => []IInv
<1>1. IInv /\ [Next]_vars => IInv'
  <2> SUFFICES ASSUME IInv, [Next]_vars
               PROVE  IInv'
    OBVIOUS
  <2>1. CASE Execute
    BY <2>1, ExecuteKeeps
  <2>2. CASE Cancel
    BY <2>2, CancelKeeps
  <2>3. CASE Close \/ Kill \/ PowerLoss
    BY <2>3, CrashKeeps
  <2>4. CASE Open
    BY <2>4, OpenKeeps
  <2>5. CASE \E j \in Jobs : Admit(j) \/ ReleaseMedia(j) \/ Delete(j) \/ Recover(j)
    BY <2>5, AdmitKeeps, ReleaseMediaKeeps, DeleteKeeps, RecoverKeeps
  <2>6. CASE \E j \in Jobs, c \in Configs : Create(j, c) \/ Rebind(j, c)
    BY <2>6, CreateKeeps, RebindKeeps
  <2>7. CASE \E j \in Jobs, t \in Titles : Rename(j, t)
    BY <2>7, RenameKeeps
  <2>8. CASE UNCHANGED vars
    BY <2>8 DEF vars, IInv, Types, RunOK, Current
  <2> QED
    BY <2>1, <2>2, <2>3, <2>4, <2>5, <2>6, <2>7, <2>8 DEF Next
<1> QED
  BY <1>1, InitOK, PTL DEF Spec

(* A recording whose creation was acknowledged is found by every restart,  *)
(* with a manifest, until it is deleted: whatever calls fail in whatever   *)
(* order, and whenever the process or the power dies.                      *)
THEOREM CreatedRecordingsSurvive ==
  Spec => []CreatedSurvives
<1>1. IInv => CreatedSurvives
  BY DirectoryIs DEF IInv, Types, Fine, Firm, CreatedSurvives
<1> QED
  BY <1>1, StoreInductive, PTL

(* What progress reported is on disk: no restart finds fewer checkpoints.  *)
THEOREM ReportedProgressSurvives ==
  Spec => []ProgressIsCommitted
<1>1. IInv => ProgressIsCommitted
  BY DirectoryIs DEF IInv, Types, GoodDir, ProgressIsCommitted
<1> QED
  BY <1>1, StoreInductive, PTL

(* Whatever manifest a restart finds, load accepts it and every checkpoint *)
(* in it is under the key of what it was computed from.                    *)
THEOREM EveryManifestSound ==
  Spec => []ManifestsSound
<1>1. ASSUME IInv PROVE TypeOK
  <2>1. ASSUME NEW j \in Jobs
        PROVE  /\ disk[j].place \in disk[j].places
               /\ disk[j].places \subseteq {"absent", "live", "trash"}
               /\ disk[j].manifest \in disk[j].manifests
               /\ disk[j].manifests \subseteq Manifests \cup {NoManifest}
               /\ disk[j].durable \subseteq disk[j].files
               /\ disk[j].files \subseteq disk[j].durable \cup disk[j].loose
    <3>1. GoodDir(disk[j], reported[j])
      BY <1>1, DirectoryIs
    <3>2. disk[j].places \subseteq Places /\ disk[j].manifests \subseteq AllManifests
      BY <3>1 DEF GoodDir, Directories
    <3> QED
      BY <3>1, <3>2 DEF GoodDir, Places, AllManifests
  <2>2. Types
    BY <1>1 DEF IInv
  <2>3. \A S \in {born, kept, gone, finished} : S \subseteq Jobs
    BY <2>2 DEF Types
  <2> QED
    BY <2>1, <2>2, <2>3 DEF Types, TypeOK, AllManifests
<1>2. ASSUME IInv, NEW j \in Jobs, NEW mf \in disk[j].manifests
      PROVE  Acceptable(mf) /\ \A i \in DOMAIN mf.cps : mf.cps[i].key = Key(mf, i)
  <2>1. mf \in GoodManifests
    BY <1>2, DirectoryIs DEF GoodDir
  <2>2. mf \in AllManifests /\ Keyed(mf)
    BY <2>1 DEF GoodManifests
  <2>3. DOMAIN mf.cps = 1..Len(mf.cps)
    BY <2>2, ManifestIs
  <2> QED
    BY <2>1, <2>2, <2>3 DEF GoodManifests, Acceptable, Keyed
<1>3. IInv => ManifestsSound
  BY <1>1, <1>2 DEF ManifestsSound, ManifestsLoad, CheckpointsMatch
<1> QED
  BY <1>3, StoreInductive, PTL

(* A stage is only run under a manifest that every restart would find.     *)
THEOREM StagesAreClaimed ==
  Spec => []StageIsClaimed
<1>1. IInv => StageIsClaimed
  BY DEF IInv, RunOK, StageIsClaimed
<1> QED
  BY <1>1, StoreInductive, PTL

(* What Run publishes undoes no change of the owner.                       *)
THEOREM CopyStaysCurrent ==
  Spec => []CopyIsCurrent
<1>1. IInv => CopyIsCurrent
  BY DEF IInv, RunOK, Current, CopyIsCurrent, Busy, Manifest
<1> QED
  BY <1>1, StoreInductive, PTL

-----------------------------------------------------------------------------
(* Media and endings.  They depend on how calls fail: a restart of the     *)
(* process reads and reports what it finds, synced or not, so that they    *)
(* hold where only processes die (calls may fail as well), and where power *)
(* is lost but no store goes on, reopened or not, after an operation that  *)
(* stopped halfway.                                                        *)
Steady == PowerFails => Faults = {} /\ "kill" \notin Crashes

(* Every manifest under which a restart may find the recording has its     *)
(* media.                                                                  *)
Backed(d) ==
  "live" \in d.places =>
    \A mf \in d.manifests : mf.status # "none" => Needs(mf) \subseteq d.durable

(* A recording whose completion was acknowledged.                          *)
Ended(d) == d.places = {"live"} /\ \A mf \in d.manifests : mf.status = "complete"

(* Where only processes die, a restart finds what the kernel shows.        *)
Exact(d) == d.places = {d.place} /\ d.manifests = {d.manifest} /\ d.durable = d.files

(* The directory of j, if F finished and N are gone.                       *)
Solid(d, j, F, N) ==
  /\ GoodDir(d, 0) /\ Backed(d)
  /\ j \in F => Ended(d)
  /\ j \in N => d.places = {"absent"}
  /\ ~PowerFails => Exact(d)

Solids(F, N) == {D \in [Jobs -> Directories] : \A j \in Jobs : Solid(D[j], j, F, N)}

(* What every operation that does not stop leaves: one place, and one      *)
(* manifest unless recovery was interrupted.                               *)
Settled(d) ==
  /\ d.places = {d.place}
  /\ d.place = "live" /\ d.manifest.status # "failed" => d.manifests = {d.manifest}

AllSettled(D) == \A j \in Jobs : Settled(D[j])

(* The copy of a run that has begun has its media.                         *)
Supplied ==
  pc \notin {"idle", "admitted"} =>
    who \notin finished /\ (~dying => Needs(m) \subseteq disk[who].durable)

SInv ==
  /\ disk \in Solids(finished, gone)
  /\ ~dying => AllSettled(disk)
  /\ Supplied

(* What a manifest needs depends on its checkpoints and its release.       *)
LEMMA NeedsSame ==
  ASSUME NEW mf, NEW g, g.cps = mf.cps, g.released = mf.released
  PROVE  Needs(g) = Needs(mf)
BY DEF Needs, Redundant

(* A release makes less needed, and nothing it removes is.                 *)
LEMMA NeedsReleased ==
  ASSUME NEW mf, NEW g, g.cps = mf.cps, g.released = TRUE
  PROVE  Needs(g) \subseteq Needs(mf) /\ Needs(g) \cap Redundant(g) = {}
         /\ Upload \in Redundant(g)
<1>1. Redundant(g) = Redundant(mf)
  BY DEF Redundant
<1> DEFINE all(x) == {Upload} \cup {Payload(x.cps[i]) : i \in DOMAIN x.cps}
<1>2. all(g) = all(mf)
  OBVIOUS
<1>3. Needs(g) = all(g) \ Redundant(g)
  BY DEF Needs
<1>4. all(mf) \ Redundant(mf) \subseteq Needs(mf)
  BY DEF Needs
<1>5. Upload \in Redundant(g)
  BY DEF Redundant
<1> HIDE DEF all
<1> QED
  BY <1>1, <1>2, <1>3, <1>4, <1>5

(* Without checkpoints only the upload is needed.                          *)
LEMMA NeedsUpload ==
  ASSUME NEW g, g.cps = <<>>, g.released = FALSE
  PROVE  Needs(g) = {Upload}
<1>1. {Payload(g.cps[i]) : i \in DOMAIN g.cps} = {}
  OBVIOUS
<1> QED
  BY <1>1 DEF Needs

(* One checkpoint more needs its payload.                                  *)
LEMMA NeedsMore ==
  ASSUME NEW mf \in Manifests, NEW g, NEW x, Extends(g.cps, mf.cps, x),
         g.released = FALSE, mf.released = FALSE
  PROVE  Needs(g) \subseteq Needs(mf) \cup {Payload(x)}
<1> DEFINE n == Len(mf.cps)
<1>1. mf.cps \in Seq(Checkpoints) /\ n \in Nat
  BY DEF Manifests
<1>2. /\ g.cps \in Seq(Checkpoints) /\ Len(g.cps) = n + 1 /\ g.cps[n + 1] = x
      /\ \A i \in 1..n : g.cps[i] = mf.cps[i]
  BY DEF Extends
<1>3. DOMAIN mf.cps = 1..n /\ DOMAIN g.cps = 1..(n + 1)
  BY <1>1, <1>2
<1>4. \A i \in 1..(n + 1) : i \in 1..n \/ i = n + 1
  BY <1>1
<1>5. \A i \in DOMAIN g.cps : \/ Payload(g.cps[i]) = Payload(x)
                              \/ i \in DOMAIN mf.cps /\ Payload(g.cps[i]) = Payload(mf.cps[i])
  BY <1>2, <1>3, <1>4
<1> HIDE DEF n
<1> QED
  BY <1>5 DEF Needs

-----------------------------------------------------------------------------
(* Directories: which changes keep a directory solid.                      *)

(* A manifest renamed over the old one.                                    *)
LEMMA PutSolid ==
  ASSUME NEW j, NEW F, NEW N, NEW d, Solid(d, j, F, N), NEW mf \in GoodManifests,
         \/ mf.status = "none"
         \/ "live" \notin d.places
         \/ Needs(mf) \subseteq d.durable,
         j \in F => mf.status = "complete", NEW g, g = Put(d, mf)
  PROVE  /\ Solid(g, j, F, N) /\ g.manifest = mf /\ g.place = d.place /\ g.places = d.places
         /\ g.durable = d.durable /\ g.files = d.files
<1>1. GoodDir(d, 0) /\ Len(mf.cps) >= 0
  <2>1. mf \in AllManifests
    BY DEF GoodManifests
  <2> QED
    BY <2>1, ManifestIs DEF Solid
<1>2. /\ GoodDir(g, 0) /\ g.manifest = mf
      /\ g.place = d.place /\ g.places = d.places
      /\ g.files = d.files /\ g.durable = d.durable
      /\ g.manifests \subseteq d.manifests \cup {mf}
      /\ ~PowerFails => g.manifests = {mf}
  BY <1>1, PutIs
<1>3. Backed(g)
  BY <1>2 DEF Solid, Backed
<1>4. j \in F => Ended(g)
  BY <1>2 DEF Solid, Ended
<1> QED
  BY <1>2, <1>3, <1>4 DEF Solid, Exact

(* A directory synced.                                                     *)
LEMMA SyncSolid ==
  ASSUME NEW j, NEW F, NEW N, NEW d, Solid(d, j, F, N), NEW g, g = SyncDir(d)
  PROVE  /\ Solid(g, j, F, N) /\ g.manifest = d.manifest /\ g.manifests = {d.manifest}
         /\ g.place = d.place /\ g.places = d.places
         /\ g.durable = d.files /\ g.files = d.files
<1>1. GoodDir(d, 0) /\ d.durable \subseteq d.files /\ d.manifest \in d.manifests
  BY DEF Solid, GoodDir
<1>2. /\ GoodDir(g, 0) /\ g.manifest = d.manifest /\ g.manifests = {d.manifest}
      /\ g.place = d.place /\ g.places = d.places
      /\ g.files = d.files /\ g.durable = d.files
  BY <1>1, SyncDirIs
<1>3. Backed(g)
  BY <1>1, <1>2 DEF Solid, Backed
<1>4. j \in F => Ended(g)
  BY <1>1, <1>2 DEF Solid, Ended
<1> QED
  BY <1>2, <1>3, <1>4 DEF Solid, Exact

(* A directory renamed: hidden, removed, or made without a manifest.       *)
LEMMA MoveSolid ==
  ASSUME NEW j, NEW F, NEW N, NEW d, Solid(d, j, F, N), j \notin F, j \notin N, NEW p \in Places,
         p = "live" => \A mf \in d.manifests : mf.status = "none", NEW g, g = Move(d, p)
  PROVE  /\ Solid(g, j, F, N) /\ g.place = p /\ g.manifest = d.manifest
         /\ g.manifests = d.manifests /\ g.files = d.files
<1>1. GoodDir(d, 0)
  BY DEF Solid
<1>2. /\ GoodDir(g, 0) /\ g.place = p
      /\ g.manifest = d.manifest /\ g.manifests = d.manifests
      /\ g.files = d.files /\ g.durable = d.durable
      /\ g.places \subseteq d.places \cup {p}
      /\ ~PowerFails => g.places = {p}
  BY <1>1, MoveIs
<1>3. Backed(g)
  BY <1>2 DEF Solid, Backed
<1> QED
  BY <1>2, <1>3 DEF Solid, Exact

(* A file linked.                                                          *)
LEMMA LinkSolid ==
  ASSUME NEW j, NEW F, NEW N, NEW d, Solid(d, j, F, N), NEW f \in Files, NEW g, g = Link(d, f)
  PROVE  /\ Solid(g, j, F, N) /\ g.place = d.place /\ g.places = d.places
         /\ g.manifest = d.manifest /\ g.manifests = d.manifests
         /\ g.files = d.files \cup {f} /\ d.durable \subseteq g.durable
<1>1. GoodDir(d, 0)
  BY DEF Solid
<1>2. /\ GoodDir(g, 0) /\ g.manifest = d.manifest /\ g.manifests = d.manifests
      /\ g.place = d.place /\ g.places = d.places
      /\ g.files = d.files \cup {f} /\ d.durable \subseteq g.durable
      /\ ~PowerFails => g.durable = d.durable \cup {f}
  BY <1>1, LinkIs
<1>3. Backed(g)
  BY <1>2 DEF Solid, Backed
<1>4. j \in F => Ended(g)
  BY <1>2 DEF Solid, Ended
<1> QED
  BY <1>2, <1>3, <1>4 DEF Solid, Exact

(* Files removed that no manifest needs.                                   *)
LEMMA UnlinkSolid ==
  ASSUME NEW j, NEW F, NEW N, NEW d, Solid(d, j, F, N), NEW fs,
         "live" \in d.places =>
           \A mf \in d.manifests : mf.status # "none" => Needs(mf) \cap fs = {},
         NEW g, g = Unlink(d, fs)
  PROVE  /\ Solid(g, j, F, N) /\ g.place = d.place /\ g.places = d.places
         /\ g.manifest = d.manifest /\ g.manifests = d.manifests
<1>1. GoodDir(d, 0)
  BY DEF Solid
<1>2. /\ GoodDir(g, 0) /\ g.manifest = d.manifest /\ g.manifests = d.manifests
      /\ g.place = d.place /\ g.places = d.places
      /\ g.files = d.files \ fs /\ g.durable = d.durable \ fs
  BY <1>1, UnlinkIs
<1>3. Backed(g)
  BY <1>2 DEF Solid, Backed
<1>4. j \in F => Ended(g)
  BY <1>2 DEF Solid, Ended
<1> QED
  BY <1>2, <1>3, <1>4 DEF Solid, Exact

(* The root synced.                                                        *)
LEMMA PlaceSolid ==
  ASSUME NEW j, NEW F, NEW N, NEW d, Solid(d, j, F, N), NEW g, g = [d EXCEPT !.places = {d.place}]
  PROVE  /\ Solid(g, j, F, N) /\ g.place = d.place /\ g.places = {d.place}
         /\ g.manifest = d.manifest /\ g.manifests = d.manifests
         /\ g.files = d.files /\ g.durable = d.durable
<1>1. GoodDir(d, 0) /\ d.place \in d.places
  BY DEF Solid, GoodDir
<1>2. /\ GoodDir(g, 0) /\ g.manifest = d.manifest /\ g.manifests = d.manifests
      /\ g.place = d.place /\ g.places = {d.place}
      /\ g.files = d.files /\ g.durable = d.durable
  BY <1>1, PlaceSynced
<1>3. Backed(g)
  BY <1>1, <1>2 DEF Solid, Backed
<1>4. j \in F => Ended(g)
  BY <1>1, <1>2 DEF Solid, Ended
<1>5. j \in N => g.places = {"absent"}
  BY <1>1, <1>2 DEF Solid
<1> QED
  BY <1>2, <1>3, <1>4, <1>5 DEF Solid, Exact

-----------------------------------------------------------------------------
(* Disks that stay as they were but for the directory of j.                *)
Stays(D, j, F, N) ==
  {E \in Solids(F, N) : \A k \in Jobs : k # j => E[k] = D[k]}

(* Another directory of j.                                                 *)
LEMMA AtStays ==
  ASSUME NEW F, NEW N, NEW D \in Solids(F, N), NEW j \in Jobs, NEW E0 \in Stays(D, j, F, N),
         NEW d, Solid(d, j, F, N), NEW E, E = At(E0, j, d)
  PROVE  E \in Stays(D, j, F, N) /\ E[j] = d
<1>1. E0 \in [Jobs -> Directories] /\ d \in Directories
  BY DEF Stays, Solids, Solid, GoodDir
<1>2. E \in [Jobs -> Directories] /\ E[j] = d /\ \A k \in Jobs : k # j => E[k] = E0[k]
  BY <1>1 DEF At
<1>3. \A k \in Jobs : Solid(E0[k], k, F, N) /\ (k # j => E0[k] = D[k])
  BY DEF Stays, Solids
<1>4. \A k \in Jobs : Solid(E[k], k, F, N)
  BY <1>2, <1>3
<1> QED
  BY <1>2, <1>3, <1>4 DEF Stays, Solids

(* The root synced.                                                        *)
LEMMA RootStays ==
  ASSUME NEW F, NEW N, NEW D \in Solids(F, N), NEW j \in Jobs, NEW E0 \in Stays(D, j, F, N),
         AllSettled(D), NEW E, E = SyncRoot(E0)
  PROVE  /\ E \in Stays(D, j, F, N) /\ E[j] = [E0[j] EXCEPT !.places = {E0[j].place}]
<1>1. E0 \in [Jobs -> Directories]
  BY DEF Stays, Solids
<1>2. \A k \in Jobs : E[k] = [E0[k] EXCEPT !.places = {E0[k].place}]
  BY DEF SyncRoot
<1>3. \A k \in Jobs : Solid(E0[k], k, F, N) /\ (k # j => E0[k] = D[k])
  BY DEF Stays, Solids
<1>4. ASSUME NEW k \in Jobs PROVE Solid(E[k], k, F, N)
  <2> DEFINE d == E0[k]
  <2>1. Solid(d, k, F, N) /\ E[k] = [d EXCEPT !.places = {d.place}]
    BY <1>2, <1>3
  <2> HIDE DEF d
  <2> QED
    BY <2>1, PlaceSolid
<1>5. ASSUME NEW k \in Jobs, k # j PROVE E[k] = D[k]
  <2>1. E0[k] = D[k] /\ D[k].places = {D[k].place}
    BY <1>3, <1>5 DEF AllSettled, Settled
  <2>2. D[k] \in Directories
    BY <1>1, <2>1
  <2>3. [D[k] EXCEPT !.places = {D[k].place}] = D[k]
    BY <2>1, <2>2 DEF Directories
  <2> QED
    BY <1>2, <2>1, <2>3
<1>6. E \in [Jobs -> Directories]
  <2>1. \A k \in Jobs : E[k] \in Directories
    BY <1>4 DEF Solid, GoodDir
  <2> QED
    BY <2>1 DEF SyncRoot
<1> QED
  BY <1>2, <1>4, <1>5, <1>6 DEF Stays, Solids

(* A manifest that may be saved over the one in d.                         *)
Fits(mf, d, j, F) ==
  /\ mf \in GoodManifests
  /\ mf.status = "none" \/ "live" \notin d.places \/ Needs(mf) \subseteq d.durable
  /\ j \in F => mf.status = "complete"

(* Saving it.                                                              *)
LEMMA SaveStays ==
  ASSUME NEW F, NEW N, NEW D \in Solids(F, N), NEW j \in Jobs, NEW E0 \in Stays(D, j, F, N),
         NEW mf, Fits(mf, E0[j], j, F), NEW ds, ds = Save(E0, j, mf)
  PROVE  /\ ds \in Seq(Stays(D, j, F, N)) /\ Len(ds) = 2
         /\ ds[1] \in Stays(D, j, F, N) /\ ds[1][j] = Put(E0[j], mf)
         /\ ds[2] \in Stays(D, j, F, N) /\ ds[2][j].manifest = mf /\ ds[2][j].manifests = {mf}
         /\ ds[2][j].place = E0[j].place /\ ds[2][j].places = E0[j].places
         /\ ds[2][j].files = E0[j].files
         /\ ds[2][j].durable = E0[j].files
<1> DEFINE d == E0[j]
           p == Put(d, mf)
           q == SyncDir(p)
           V == Stays(D, j, F, N)
<1>1. Solid(d, j, F, N) /\ mf \in GoodManifests /\ (j \in F => mf.status = "complete")
      /\ (mf.status = "none" \/ "live" \notin d.places \/ Needs(mf) \subseteq d.durable)
  BY DEF Fits, Stays, Solids
<1>2. p = Put(d, mf) /\ q = SyncDir(p) /\ ds = <<At(E0, j, p), At(E0, j, q)>>
  BY DEF Save
<1> HIDE DEF p, q, d
<1>3. /\ Solid(p, j, F, N) /\ p.manifest = mf /\ p.place = d.place /\ p.places = d.places
      /\ p.durable = d.durable /\ p.files = d.files
  BY <1>1, <1>2, PutSolid
<1>4. /\ Solid(q, j, F, N) /\ q.manifest = p.manifest /\ q.manifests = {p.manifest}
      /\ q.place = p.place /\ q.places = p.places
      /\ q.durable = p.files /\ q.files = p.files
  BY <1>2, <1>3, SyncSolid
<1> DEFINE e1 == At(E0, j, p)
           e2 == At(E0, j, q)
<1>5. e1 \in V /\ e1[j] = p /\ e2 \in V /\ e2[j] = q
  BY <1>3, <1>4, AtStays
<1>6. ds = <<e1, e2>>
  BY <1>2
<1> HIDE DEF e1, e2
<1>7. ds \in Seq(V) /\ Len(ds) = 2 /\ ds[1] = e1 /\ ds[2] = e2
  <2> HIDE DEF V
  <2> QED
    BY <1>5, <1>6
<1> QED
  BY <1>2, <1>3, <1>4, <1>5, <1>7 DEF d

(* Where only processes die, everything is always settled.                 *)
LEMMA ExactSettled ==
  ASSUME NEW F, NEW N, NEW D \in Solids(F, N), ~PowerFails
  PROVE  AllSettled(D)
BY DEF Solids, Solid, Exact, AllSettled, Settled

(* Only the directory of j has to be looked at.                            *)
LEMMA OneSettled ==
  ASSUME NEW F, NEW N, NEW D, AllSettled(D), NEW j \in Jobs, NEW E \in Stays(D, j, F, N), Settled(E[j])
  PROVE  AllSettled(E)
BY DEF Stays, AllSettled

(* What an operation leaves, whether it stops or not.                      *)
LEMMA Ends ==
  ASSUME Steady, NEW F, NEW N, disk \in Solids(F, N), AllSettled(disk), NEW j \in Jobs,
         NEW ds \in Seq(Stays(disk, j, F, N)), Len(ds) >= 1, Settled(ds[Len(ds)][j]),
         Wholly(ds) \/ Partly(ds) \/ Stops(ds, 0)
  PROVE  disk' \in Stays(disk, j, F, N) /\ (~dying' => AllSettled(disk'))
<1> DEFINE V == Stays(disk, j, F, N)
<1>1. disk \in V
  BY DEF Stays
<1>2. V \subseteq Solids(F, N)
  BY DEF Stays
<1>3. CASE Wholly(ds)
  <2>1. disk' \in V /\ disk' = ds[Len(ds)]
    <3> HIDE DEF V
    <3> QED
      BY <1>3, Lands DEF V
  <2> QED
    BY <2>1, OneSettled
<1>4. CASE Partly(ds) \/ Stops(ds, 0)
  <2>1. disk' \in V
    <3> HIDE DEF V
    <3>1. /\ Partly(ds) => disk' \in V
          /\ Stops(ds, 0) => disk' = disk \/ disk' \in V
      BY Lands DEF V
    <3> QED
      BY <1>1, <1>4, <3>1
  <2>2. CASE PowerFails
    <3>1. Faults = {}
      BY <2>2 DEF Steady
    <3>2. dying' = (Faults = {})
      BY <1>4 DEF Partly, Stops
    <3> QED
      BY <2>1, <3>1, <3>2
  <2>3. CASE ~PowerFails
    BY <1>2, <2>1, <2>3, ExactSettled
  <2> QED
    BY <2>2, <2>3
<1> QED
  BY <1>3, <1>4

-----------------------------------------------------------------------------
(* The operations.                                                         *)

(* Create.                                                                 *)
LEMMA MadeStays ==
  ASSUME NEW F, NEW N, NEW D \in Solids(F, N), NEW j \in Jobs, AllSettled(D), j \notin F, j \notin N,
         D[j].manifests = {NoManifest}, NEW c \in Configs, NEW ds, ds = Made(D, j, c)
  PROVE  /\ ds \in Seq(Stays(D, j, F, N)) /\ Len(ds) >= 1 /\ Settled(ds[Len(ds)][j])
<1> DEFINE x1 == Move(D[j], "live")
           d1 == At(D, j, x1)
           d2 == SyncRoot(d1)
           x2 == d2[j]
           x3 == Link(x2, Upload)
           d3 == At(d2, j, x3)
           x4 == SyncDir(x3)
           d4 == At(d3, j, x4)
           mf == [NoManifest EXCEPT !.status = "queued", !.config = c]
           sv == Save(d4, j, mf)
           V == Stays(D, j, F, N)
           y4 == SyncDir(d3[j])
           e4 == At(d3, j, y4)
           ev == Save(e4, j, mf)
<1>0. ds = <<d1, d2, d3, e4>> \o ev
  BY DEF Made
<1>1. /\ x1 = Move(D[j], "live") /\ d1 = At(D, j, x1) /\ d2 = SyncRoot(d1)
      /\ x2 = d2[j] /\ x3 = Link(x2, Upload) /\ d3 = At(d2, j, x3) /\ x4 = SyncDir(x3)
      /\ d4 = At(d3, j, x4)
  OBVIOUS
<1>2. mf \in GoodManifests /\ mf.status = "queued" /\ Needs(mf) = {Upload}
  <2>1. mf \in GoodManifests /\ mf \in Manifests /\ mf.cps = <<>> /\ mf.status = "queued" /\ ~mf.released
    BY SetNew
  <2> HIDE DEF mf
  <2>2. mf.released = FALSE
    BY <2>1 DEF Manifests
  <2>3. Needs(mf) = {Upload}
    BY <2>1, <2>2, NeedsUpload
  <2> QED
    BY <2>1, <2>3
<1>3. sv = Save(d4, j, mf)
  OBVIOUS
<1>20. d3[j] = x3 => ds = <<d1, d2, d3, d4>> \o sv
  BY <1>0
<1> HIDE DEF x1, d1, d2, x2, x3, d3, x4, d4, mf, sv, y4, e4, ev
<1>4. Solid(D[j], j, F, N) /\ "live" \in Places /\ D \in V
  BY DEF Solids, Stays, Places
<1>5. Solid(x1, j, F, N) /\ x1.place = "live" /\ x1.manifest = D[j].manifest
      /\ x1.manifests = D[j].manifests /\ x1.files = D[j].files
  <2>1. \A g \in D[j].manifests : g.status = "none"
    BY NoManifestIs
  <2> QED
    BY <1>1, <1>4, <2>1, MoveSolid
<1>6. d1 \in V /\ d1[j] = x1
  BY <1>1, <1>4, <1>5, AtStays
<1>7. d2 \in V /\ x2 = [x1 EXCEPT !.places = {x1.place}]
  <2>1. d2 \in V /\ d2[j] = [d1[j] EXCEPT !.places = {d1[j].place}]
    BY <1>1, <1>6, RootStays
  <2> QED
    BY <1>1, <1>6, <2>1
<1>8. Solid(x2, j, F, N) /\ x2.place = "live" /\ x2.places = {"live"}
  <2>1. /\ Solid(x2, j, F, N) /\ x2.place = x1.place /\ x2.places = {x1.place}
        /\ x2.manifest = x1.manifest /\ x2.manifests = x1.manifests
        /\ x2.files = x1.files /\ x2.durable = x1.durable
    BY <1>5, <1>7, PlaceSolid
  <2> QED
    BY <1>5, <2>1
<1>9. /\ Solid(x3, j, F, N) /\ x3.place = x2.place /\ x3.places = x2.places
      /\ x3.manifest = x2.manifest /\ x3.manifests = x2.manifests
      /\ x3.files = x2.files \cup {Upload} /\ x2.durable \subseteq x3.durable
  BY <1>1, <1>8, FilesAre, LinkSolid
<1>10. d3 \in V /\ d3[j] = x3
  BY <1>1, <1>7, <1>9, AtStays
<1>11. /\ Solid(x4, j, F, N) /\ x4.manifest = x3.manifest /\ x4.manifests = {x3.manifest}
       /\ x4.place = x3.place /\ x4.places = x3.places
       /\ x4.durable = x3.files /\ x4.files = x3.files
  BY <1>1, <1>9, SyncSolid
<1>12. d4 \in V /\ d4[j] = x4
  BY <1>1, <1>10, <1>11, AtStays
<1>13. Fits(mf, d4[j], j, F)
  BY <1>2, <1>9, <1>11, <1>12 DEF Fits
<1>14. /\ sv \in Seq(V) /\ Len(sv) = 2
       /\ sv[2] \in V /\ sv[2][j].manifest = mf /\ sv[2][j].manifests = {mf}
       /\ sv[2][j].place = d4[j].place /\ sv[2][j].places = d4[j].places
  BY <1>3, <1>12, <1>13, SaveStays
<1>15. Settled(sv[2][j])
  BY <1>8, <1>9, <1>11, <1>12, <1>14 DEF Settled
<1> DEFINE a == <<d1, d2, d3, d4>>
<1>16. a \in Seq(V)
  BY <1>6, <1>7, <1>10, <1>12
<1>17. Joined(ds, a, sv)
  BY <1>10, <1>20 DEF Joined
<1> HIDE DEF a, V
<1>19. a \in Seq(V) /\ sv \in Seq(V) /\ Len(sv) >= 1 /\ Joined(ds, a, sv)
  BY <1>14, <1>16, <1>17
<1>18. ds \in Seq(V) /\ Len(ds) >= 1 /\ ds[Len(ds)] = sv[Len(sv)]
  BY <1>19, Chain
<1> QED
  BY <1>14, <1>15, <1>18 DEF V

(* Rename.                                                                 *)
LEMMA TitledFits ==
  ASSUME NEW j, NEW F, NEW N, NEW d, Solid(d, j, F, N), d.manifest \in Manifests,
         NEW t \in Titles, NEW g, g = [d.manifest EXCEPT !.title = t]
  PROVE  Fits(g, d, j, F)
<1> DEFINE mf == d.manifest
<1>1. mf \in Manifests /\ mf \in GoodManifests /\ mf \in d.manifests
  BY DEF Solid, GoodDir
<1>2. g = [mf EXCEPT !.title = t]
  OBVIOUS
<1> HIDE DEF mf
<1>3. g \in GoodManifests /\ g.status = mf.status
  BY <1>1, <1>2, SetTitle
<1>4. g.cps = mf.cps /\ g.released = mf.released
  BY <1>1, <1>2 DEF Manifests
<1>5. Needs(g) = Needs(mf) /\ mf.status # "none"
  BY <1>1, <1>4, NeedsSame, ManifestIs DEF AllManifests
<1>6. "live" \in d.places => Needs(mf) \subseteq d.durable
  BY <1>1, <1>5 DEF Solid, Backed
<1>7. j \in F => mf.status = "complete"
  BY <1>1 DEF Solid, Ended
<1> QED
  BY <1>3, <1>5, <1>6, <1>7 DEF Fits

(* A directory that needs nothing but the upload.                          *)
Bare(d) ==
  /\ d.place = "live" /\ d.places = {"live"}
  /\ d.manifests = {d.manifest} /\ Needs(d.manifest) = {Upload}

(* Rebind's manifest saved.                                                *)
LEMMA ReboundStays ==
  ASSUME NEW F, NEW N, NEW D \in Solids(F, N), NEW j \in Jobs, j \notin F,
         D[j].places = {"live"}, D[j].place = "live", D[j].manifest \in Manifests,
         ~D[j].manifest.released, NEW c \in Configs,
         NEW sv, sv = Save(D, j, Rebound(D[j].manifest, c))
  PROVE  /\ sv \in Seq(Stays(D, j, F, N)) /\ Len(sv) = 2
         /\ sv[2] \in Stays(D, j, F, N) /\ Bare(sv[2][j])
<1> DEFINE old == D[j].manifest
           mf == Rebound(old, c)
<1>1. old \in D[j].manifests /\ Solid(D[j], j, F, N) /\ D \in Stays(D, j, F, N)
  BY DEF Solids, Solid, GoodDir, Stays
<1>2. mf \in GoodManifests /\ mf.cps = <<>> /\ mf.released = FALSE
  BY SetRebound
<1>3. sv = Save(D, j, mf)
  OBVIOUS
<1>4. old.status # "none"
  BY ManifestIs DEF AllManifests
<1> HIDE DEF mf
<1>5. Needs(mf) = {Upload}
  BY <1>2, NeedsUpload
<1>6. {Upload} \subseteq Needs(old)
  <2>1. old.released = FALSE
    BY DEF Manifests
  <2> QED
    BY <2>1 DEF Needs
<1>7. Needs(old) \subseteq D[j].durable
  <2> HIDE DEF old
  <2> QED
    BY <1>1, <1>4 DEF Solid, Backed
<1>8. Fits(mf, D[j], j, F)
  BY <1>2, <1>5, <1>6, <1>7 DEF Fits
<1>9. /\ sv \in Seq(Stays(D, j, F, N)) /\ Len(sv) = 2
      /\ sv[2] \in Stays(D, j, F, N) /\ sv[2][j].manifest = mf /\ sv[2][j].manifests = {mf}
      /\ sv[2][j].place = D[j].place /\ sv[2][j].places = D[j].places
  BY <1>1, <1>3, <1>8, SaveStays
<1> QED
  BY <1>5, <1>9 DEF Bare

(* Rebind.                                                                 *)
LEMMA RebindStays ==
  ASSUME NEW F, NEW N, NEW D \in Solids(F, N), NEW j \in Jobs, j \notin F,
         D[j].places = {"live"}, D[j].place = "live", D[j].manifest \in Manifests,
         ~D[j].manifest.released, NEW c \in Configs
  PROVE  /\ RebindsAll(D, j, c) \in Seq(Stays(D, j, F, N)) /\ Len(RebindsAll(D, j, c)) >= 1
         /\ Settled(RebindsAll(D, j, c)[Len(RebindsAll(D, j, c))][j])
         /\ \A fs : Upload \notin fs =>
              /\ Rebinds(D, j, c, fs) \in Seq(Stays(D, j, F, N)) /\ Len(Rebinds(D, j, c, fs)) >= 1
              /\ Settled(Rebinds(D, j, c, fs)[Len(Rebinds(D, j, c, fs))][j])
<1> DEFINE sv == Save(D, j, Rebound(D[j].manifest, c))
           V == Stays(D, j, F, N)
           x(fs) == At(sv[2], j, Unlink(sv[2][j], fs))
           all == sv[2][j].files \ {Upload}
           y == x(all)
<1>1. sv \in Seq(V) /\ Len(sv) = 2 /\ sv[2] \in V /\ Bare(sv[2][j])
  BY ReboundStays
<1>2. ASSUME NEW fs, Upload \notin fs PROVE x(fs) \in V /\ Settled(x(fs)[j])
  <2> DEFINE b == sv[2][j]
             g == Unlink(b, fs)
             e == x(fs)
  <2>1. Solid(b, j, F, N) /\ g = Unlink(b, fs) /\ e = At(sv[2], j, g)
    BY <1>1 DEF Stays, Solids
  <2>2. b.place = "live" /\ b.places = {"live"} /\ b.manifests = {b.manifest} /\ Needs(b.manifest) = {Upload}
    BY <1>1 DEF Bare
  <2> HIDE DEF b, g, e, x, sv, V
  <2>3. \A mf \in b.manifests : mf.status # "none" => Needs(mf) \cap fs = {}
    BY <1>2, <2>2
  <2>4. /\ Solid(g, j, F, N) /\ g.place = b.place /\ g.places = b.places
        /\ g.manifest = b.manifest /\ g.manifests = b.manifests
    BY <2>1, <2>3, UnlinkSolid
  <2>5. e \in Stays(D, j, F, N) /\ e[j] = g
    BY <1>1, <2>1, <2>4, AtStays DEF V
  <2>6. Settled(e[j])
    BY <2>2, <2>4, <2>5 DEF Settled
  <2> QED
    BY <2>5, <2>6 DEF e, V
<1>3. y \in V /\ Settled(y[j])
  <2>1. Upload \notin all
    OBVIOUS
  <2> HIDE DEF x, all
  <2> QED
    BY <1>2, <2>1
<1>4. RebindsAll(D, j, c) = Append(sv, y) /\ \A fs : Rebinds(D, j, c, fs) = sv \o <<x(fs), y>>
  BY DEF RebindsAll, Rebinds
<1> HIDE DEF sv, V, x, y
<1>5. Append(sv, y) \in Seq(V) /\ Len(Append(sv, y)) >= 1 /\ Append(sv, y)[Len(Append(sv, y))] = y
  BY <1>1, <1>3
<1>6. ASSUME NEW fs, Upload \notin fs
      PROVE  /\ sv \o <<x(fs), y>> \in Seq(V) /\ Len(sv \o <<x(fs), y>>) >= 1
             /\ (sv \o <<x(fs), y>>)[Len(sv \o <<x(fs), y>>)] = y
  <2> DEFINE b == <<x(fs), y>>
             s == sv \o b
  <2>1. b \in Seq(V) /\ Len(b) = 2 /\ b[2] = y
    BY <1>2, <1>3, <1>6
  <2>2. Joined(s, sv, b) /\ Len(b) >= 1 /\ b \in Seq(V) /\ sv \in Seq(V)
    BY <1>1, <2>1 DEF Joined
  <2> HIDE DEF b, s
  <2>3. s \in Seq(V) /\ Len(s) >= 1 /\ s[Len(s)] = b[Len(b)]
    BY <2>2, Chain
  <2> QED
    BY <2>1, <2>3 DEF s, b
<1>7. \A fs : Upload \notin fs =>
        /\ sv \o <<x(fs), y>> \in Seq(V) /\ Len(sv \o <<x(fs), y>>) >= 1
        /\ Settled((sv \o <<x(fs), y>>)[Len(sv \o <<x(fs), y>>)][j])
  BY <1>3, <1>6
<1>8. Settled(Append(sv, y)[Len(Append(sv, y))][j])
  BY <1>3, <1>5
<1> QED
  BY <1>4, <1>5, <1>7, <1>8 DEF V

(* A directory that needs nothing of what a release of mf removes.         *)
Freed(d, mf) ==
  /\ d.place = "live" /\ d.places = {"live"}
  /\ d.manifests = {d.manifest} /\ Needs(d.manifest) \cap Redundant(mf) = {}

(* Such a directory, once the manifest is saved.                           *)
LEMMA SavedFreed ==
  ASSUME NEW F, NEW N, NEW D \in Solids(F, N), NEW j \in Jobs,
         D[j].place = "live", D[j].places = {"live"},
         NEW mf, Fits(mf, D[j], j, F), Needs(mf) \cap Redundant(mf) = {},
         NEW sv, sv = Save(D, j, mf)
  PROVE  /\ sv \in Seq(Stays(D, j, F, N)) /\ Len(sv) = 2
         /\ sv[2] \in Stays(D, j, F, N) /\ Freed(sv[2][j], mf)
<1>1. D \in Stays(D, j, F, N)
  BY DEF Stays
<1>2. /\ sv \in Seq(Stays(D, j, F, N)) /\ Len(sv) = 2
      /\ sv[1] \in Stays(D, j, F, N) /\ sv[1][j] = Put(D[j], mf)
      /\ sv[2] \in Stays(D, j, F, N) /\ sv[2][j].manifest = mf /\ sv[2][j].manifests = {mf}
      /\ sv[2][j].place = D[j].place /\ sv[2][j].places = D[j].places
      /\ sv[2][j].files = D[j].files
      /\ sv[2][j].durable = D[j].files
  BY <1>1, SaveStays
<1> QED
  BY <1>2 DEF Freed

(* mf is the manifest old of a recording, released.                        *)
Released(mf, old) == mf = [old EXCEPT !.released = TRUE]

(* ReleaseMedia's manifest saved.                                          *)
LEMMA FreedStays ==
  ASSUME NEW F, NEW N, NEW D \in Solids(F, N), NEW j \in Jobs,
         D[j].place = "live", D[j].places = {"live"}, D[j].manifest \in Manifests,
         D[j].manifest.status \in {"complete", "cancelled"},
         NEW mf, Released(mf, D[j].manifest), NEW sv, sv = Save(D, j, mf)
  PROVE  /\ sv \in Seq(Stays(D, j, F, N)) /\ Len(sv) = 2
         /\ sv[2] \in Stays(D, j, F, N) /\ Freed(sv[2][j], mf)
<1> DEFINE old == D[j].manifest
<1>1. old \in D[j].manifests /\ Solid(D[j], j, F, N) /\ D \in Stays(D, j, F, N)
      /\ old \in GoodManifests
  BY DEF Solids, Solid, GoodDir, Stays
<1>2. mf \in GoodManifests /\ mf.cps = old.cps /\ mf.status = old.status /\ mf.released = TRUE
  <2>1. mf \in GoodManifests /\ mf.cps = old.cps /\ mf.status = old.status
    BY <1>1, SetReleased DEF Released
  <2>2. mf.released = TRUE
    BY DEF Manifests, Released
  <2> QED
    BY <2>1, <2>2
<1> HIDE DEF old
<1>3. Needs(mf) \subseteq Needs(old) /\ Needs(mf) \cap Redundant(mf) = {}
  BY <1>2, NeedsReleased
<1>4. Needs(old) \subseteq D[j].durable
  <2>1. old.status # "none"
    BY ManifestIs DEF AllManifests, old
  <2> QED
    BY <1>1, <2>1 DEF Solid, Backed
<1>5. j \in F => old.status = "complete"
  BY <1>1 DEF Solid, Ended
<1>6. Fits(mf, D[j], j, F)
  BY <1>2, <1>3, <1>4, <1>5 DEF Fits
<1>7. Needs(mf) \cap Redundant(mf) = {}
  BY <1>3
<1> QED
  BY <1>6, <1>7, SavedFreed

(* ReleaseMedia.                                                           *)
LEMMA ReleasesStays ==
  ASSUME NEW F, NEW N, NEW D \in Solids(F, N), NEW j \in Jobs, AllSettled(D),
         D[j].place = "live", D[j].places = {"live"}, D[j].manifest \in Manifests,
         D[j].manifest.status \in {"complete", "cancelled"}, NEW ds, ds = Releases(D, j)
  PROVE  ds \in Seq(Stays(D, j, F, N)) /\ Len(ds) >= 1 /\ Settled(ds[Len(ds)][j])
<1> DEFINE V == Stays(D, j, F, N)
           mf == [D[j].manifest EXCEPT !.released = TRUE]
           saves == IF D[j].manifest.released THEN <<>> ELSE Save(D, j, mf)
           d0 == IF saves = <<>> THEN D ELSE saves[2]
           b == d0[j]
           x1 == Unlink(b, {Upload})
           x2 == Unlink(b, Redundant(mf))
           d1 == At(d0, j, x1)
           d2 == At(d0, j, x2)
           x3 == SyncDir(d2[j])
           d3 == At(d2, j, x3)
           rest == <<d1, d2, d3>>
<1>1. ds = saves \o rest
  BY DEF Releases
<1>2. /\ x1 = Unlink(b, {Upload}) /\ x2 = Unlink(b, Redundant(mf))
      /\ d1 = At(d0, j, x1) /\ d2 = At(d0, j, x2) /\ x3 = SyncDir(d2[j]) /\ d3 = At(d2, j, x3)
  OBVIOUS
<1>3. /\ saves \in Seq(V) /\ d0 \in V /\ Freed(b, mf)
  <2>1. CASE D[j].manifest.released
    <3>1. saves = <<>> /\ d0 = D
      BY <2>1
    <3>2. D \in V /\ <<>> \in Seq(V)
      BY DEF Stays
    <3>3. D[j].manifests = {D[j].manifest}
      BY DEF AllSettled, Settled
    <3>4. Needs(D[j].manifest) \cap Redundant(mf) = {}
      <4> DEFINE old == D[j].manifest
      <4>1. old.released = TRUE /\ mf.cps = old.cps /\ mf.released = TRUE
        BY <2>1 DEF Manifests
      <4> HIDE DEF mf, old
      <4>2. Needs(mf) \cap Redundant(mf) = {} /\ Needs(old) = Needs(mf)
        BY <4>1, NeedsReleased, NeedsSame
      <4> QED
        BY <4>2 DEF old
    <3> QED
      BY <3>1, <3>2, <3>3, <3>4 DEF Freed
  <2>2. CASE ~D[j].manifest.released
    <3> DEFINE sv == Save(D, j, mf)
    <3>4. Released(mf, D[j].manifest)
      BY DEF Released
    <3>1. sv \in Seq(V) /\ Len(sv) = 2 /\ sv[2] \in V /\ Freed(sv[2][j], mf)
      <4> HIDE DEF mf
      <4> QED
        BY <3>4, FreedStays
    <3>2. saves = sv /\ (sv # <<>> => d0 = sv[2])
      BY <2>2
    <3>3. b = d0[j]
      OBVIOUS
    <3> HIDE DEF sv, V, mf, saves, d0, b
    <3>5. sv # <<>>
      BY <3>1
    <3> QED
      BY <3>1, <3>2, <3>3, <3>5
  <2> QED
    BY <2>1, <2>2
<1>4. Upload \in Redundant(mf)
  BY DEF Redundant
<1>5. Solid(b, j, F, N)
  BY <1>3 DEF Stays, Solids
<1> HIDE DEF mf, saves, d0, b, x1, x2, d1, d2, x3, d3
<1>6. /\ Solid(x1, j, F, N)
      /\ Solid(x2, j, F, N) /\ x2.place = b.place /\ x2.places = b.places
  <2>1. \A g \in b.manifests : Needs(g) \cap {Upload} = {} /\ Needs(g) \cap Redundant(mf) = {}
    BY <1>3, <1>4 DEF Freed
  <2>2. /\ Solid(x1, j, F, N) /\ x1.place = b.place /\ x1.places = b.places
        /\ x1.manifest = b.manifest /\ x1.manifests = b.manifests
    BY <1>2, <1>5, <2>1, UnlinkSolid
  <2>3. /\ Solid(x2, j, F, N) /\ x2.place = b.place /\ x2.places = b.places
        /\ x2.manifest = b.manifest /\ x2.manifests = b.manifests
    BY <1>2, <1>5, <2>1, UnlinkSolid
  <2> QED
    BY <2>2, <2>3
<1>7. d1 \in V /\ d2 \in V /\ d2[j] = x2
  BY <1>2, <1>3, <1>6, AtStays
<1>8. /\ Solid(x3, j, F, N) /\ x3.manifest = x2.manifest /\ x3.manifests = {x2.manifest}
      /\ x3.place = x2.place /\ x3.places = x2.places
      /\ x3.durable = x2.files /\ x3.files = x2.files
  BY <1>2, <1>6, <1>7, SyncSolid
<1>9. d3 \in V /\ d3[j] = x3
  BY <1>2, <1>7, <1>8, AtStays
<1>10. Settled(x3)
  BY <1>3, <1>6, <1>8 DEF Settled, Freed
<1>11. rest \in Seq(V) /\ Len(rest) = 3 /\ rest[3] = d3
  <2> HIDE DEF V
  <2> QED
    BY <1>7, <1>9
<1> HIDE DEF rest, V
<1>12. saves \in Seq(V) /\ rest \in Seq(V) /\ Len(rest) >= 1 /\ Joined(ds, saves, rest)
  BY <1>1, <1>3, <1>11 DEF Joined
<1>13. ds \in Seq(V) /\ Len(ds) >= 1 /\ ds[Len(ds)] = rest[Len(rest)]
  BY <1>12, Chain
<1> QED
  BY <1>9, <1>10, <1>11, <1>13 DEF V

(* Delete.                                                                 *)
LEMMA DeletesStays ==
  ASSUME NEW F, NEW N, NEW D \in Solids(F, N), NEW j \in Jobs, AllSettled(D), j \notin F, j \notin N,
         NEW ds, ds = Deletes(D, j)
  PROVE  /\ ds \in Seq(Stays(D, j, F, N)) /\ Len(ds) >= 1 /\ Settled(ds[Len(ds)][j])
         /\ ds[Len(ds)][j].places = {"absent"}
<1> DEFINE V == Stays(D, j, F, N)
           x1 == Move(D[j], "trash")
           d1 == At(D, j, x1)
           s1 == SyncRoot(d1)
           hides == IF D[j].place = "live" THEN <<d1, s1>> ELSE <<>>
           d2 == IF hides = <<>> THEN D ELSE hides[2]
           b == d2[j]
           p == Put(b, NoManifest)
           x3 == Empty(b)
           d3 == At(d2, j, x3)
           x4 == Move(d3[j], "absent")
           d4 == At(d3, j, x4)
           d5 == SyncRoot(d4)
           rest == <<d3, d4, d5>>
<1>1. /\ x1 = Move(D[j], "trash") /\ d1 = At(D, j, x1) /\ s1 = SyncRoot(d1) /\ b = d2[j]
      /\ p = Put(b, NoManifest) /\ x3 = Unlink(p, b.files)
      /\ d3 = At(d2, j, x3) /\ x4 = Move(d3[j], "absent")
      /\ d4 = At(d3, j, x4) /\ d5 = SyncRoot(d4)
  BY DEF Empty
<1>2. ds = hides \o rest
  BY DEF Deletes
<1>3. hides = (IF D[j].place = "live" THEN <<d1, s1>> ELSE <<>>)
      /\ d2 = IF hides = <<>> THEN D ELSE hides[2]
  OBVIOUS
<1>4. rest = <<d3, d4, d5>>
  OBVIOUS
<1> HIDE DEF x1, d1, s1, hides, d2, b, p, x3, d3, x4, d4, d5, rest
<1>5. "trash" \in Places /\ "absent" \in Places /\ "trash" # "live" /\ "absent" # "live"
  BY DEF Places
<1>6. Solid(D[j], j, F, N) /\ D \in V
  BY DEF Solids, Stays
<1>7. /\ Solid(x1, j, F, N) /\ x1.place = "trash" /\ x1.manifest = D[j].manifest
      /\ x1.manifests = D[j].manifests /\ x1.files = D[j].files
  BY <1>1, <1>5, <1>6, MoveSolid
<1>8. d1 \in V /\ d1[j] = x1
  BY <1>1, <1>6, <1>7, AtStays
<1>9. s1 \in V /\ s1[j] = [x1 EXCEPT !.places = {x1.place}]
  <2> HIDE DEF V
  <2>0. d1 \in V /\ s1 = SyncRoot(d1)
    BY <1>1, <1>8
  <2> USE DEF V
  <2>1. s1 \in V /\ s1[j] = [d1[j] EXCEPT !.places = {d1[j].place}]
    BY <2>0, RootStays
  <2> QED
    BY <1>8, <2>1
<1>10. s1[j].places = {"trash"}
  <2> DEFINE y == s1[j]
  <2>1. y = [x1 EXCEPT !.places = {x1.place}]
    BY <1>9
  <2> HIDE DEF y
  <2>2. /\ Solid(y, j, F, N) /\ y.place = x1.place /\ y.places = {x1.place}
        /\ y.manifest = x1.manifest /\ y.manifests = x1.manifests
        /\ y.files = x1.files /\ y.durable = x1.durable
    BY <1>7, <2>1, PlaceSolid
  <2> QED
    BY <1>7, <2>2 DEF y
<1>11. hides \in Seq(V) /\ d2 \in V /\ "live" \notin b.places
  <2> HIDE DEF V
  <2>2. CASE D[j].place = "live"
    <3>1. hides = <<d1, s1>> /\ hides # <<>>
      BY <1>3, <2>2
    <3>2. d2 = s1
      BY <1>3, <3>1
    <3>3. "live" \notin b.places
      BY <1>1, <1>10, <3>2
    <3> QED
      BY <1>8, <1>9, <3>1, <3>2, <3>3
  <2>3. CASE D[j].place # "live"
    <3>1. hides = <<>> /\ d2 = D
      BY <1>3, <2>3
    <3>2. "live" \notin b.places
      BY <1>1, <2>3, <3>1 DEF AllSettled, Settled
    <3> QED
      BY <1>6, <3>1, <3>2
  <2> QED
    BY <2>2, <2>3
<1>12. Solid(b, j, F, N)
  BY <1>1, <1>11 DEF Stays, Solids
<1>13. /\ Solid(p, j, F, N) /\ p.manifest = NoManifest /\ p.place = b.place /\ p.places = b.places
       /\ p.durable = b.durable /\ p.files = b.files
  BY <1>1, <1>11, <1>12, NoManifestIs, PutSolid
<1>14. /\ Solid(x3, j, F, N) /\ x3.place = p.place /\ x3.places = p.places
       /\ x3.manifest = p.manifest /\ x3.manifests = p.manifests
  BY <1>1, <1>11, <1>13, UnlinkSolid
<1>15. d3 \in V /\ d3[j] = x3
  BY <1>1, <1>11, <1>14, AtStays
<1>16. /\ Solid(x4, j, F, N) /\ x4.place = "absent" /\ x4.manifest = x3.manifest
       /\ x4.manifests = x3.manifests /\ x4.files = x3.files
  BY <1>1, <1>5, <1>14, <1>15, MoveSolid
<1>17. d4 \in V /\ d4[j] = x4
  BY <1>1, <1>15, <1>16, AtStays
<1>18. d5 \in V /\ d5[j] = [x4 EXCEPT !.places = {x4.place}]
  <2> HIDE DEF V
  <2>0. d4 \in V /\ d5 = SyncRoot(d4)
    BY <1>1, <1>17
  <2> USE DEF V
  <2>1. d5 \in V /\ d5[j] = [d4[j] EXCEPT !.places = {d4[j].place}]
    BY <2>0, RootStays
  <2> QED
    BY <1>17, <2>1
<1>19. Settled(d5[j]) /\ d5[j].places = {"absent"}
  <2> DEFINE y == d5[j]
  <2>1. y = [x4 EXCEPT !.places = {x4.place}]
    BY <1>18
  <2> HIDE DEF y
  <2>2. /\ Solid(y, j, F, N) /\ y.place = x4.place /\ y.places = {x4.place}
        /\ y.manifest = x4.manifest /\ y.manifests = x4.manifests
        /\ y.files = x4.files /\ y.durable = x4.durable
    BY <1>16, <2>1, PlaceSolid
  <2> QED
    BY <1>16, <2>2 DEF y, Settled
<1>20. rest \in Seq(V) /\ Len(rest) = 3 /\ rest[3] = d5
  <2> HIDE DEF V
  <2> QED
    BY <1>4, <1>15, <1>17, <1>18
<1> HIDE DEF V
<1>21. hides \in Seq(V) /\ rest \in Seq(V) /\ Len(rest) >= 1 /\ Joined(ds, hides, rest)
  BY <1>2, <1>11, <1>20 DEF Joined
<1>22. ds \in Seq(V) /\ Len(ds) >= 1 /\ ds[Len(ds)] = rest[Len(rest)]
  BY <1>21, Chain
<1> QED
  BY <1>19, <1>20, <1>22 DEF V

-----------------------------------------------------------------------------
(* The invariant of media and endings, step by step.                       *)

(* The same disk with other histories: at most j is finished or gone       *)
(* besides.                                                                *)
LEMMA Regarded ==
  ASSUME NEW F, NEW N, NEW D \in Solids(F, N), NEW j \in Jobs, NEW F2, NEW N2,
         F2 \subseteq F \cup {j}, N2 \subseteq N \cup {j},
         j \in F2 => Ended(D[j]), j \in N2 => D[j].places = {"absent"}
  PROVE  D \in Solids(F2, N2)
<1>1. \A k \in Jobs : Solid(D[k], k, F, N) /\ D \in [Jobs -> Directories]
  BY DEF Solids
<1>2. \A k \in Jobs : Solid(D[k], k, F2, N2)
  BY <1>1 DEF Solid
<1> QED
  BY <1>1, <1>2 DEF Solids

(* A recording that can be loaded has its media, and what was acknowledged *)
(* of it shows.                                                            *)
LEMMA LoadedHas ==
  ASSUME IInv, SInv, ~dying, NEW j \in Jobs, disk[j].place = "live", disk[j].manifest.status # "none"
  PROVE  /\ Solid(disk[j], j, finished, gone) /\ Settled(disk[j])
         /\ disk[j].places = {"live"} /\ disk[j].manifest \in Manifests
         /\ Needs(disk[j].manifest) \subseteq disk[j].durable
         /\ disk[j].durable \subseteq disk[j].files
         /\ j \in finished => disk[j].manifest.status = "complete"
         /\ disk \in Solids(finished, gone) /\ AllSettled(disk)
<1>1. disk[j].places = {"live"} /\ disk[j].manifest \in Manifests
  BY LoadedIs
<1>2. Solid(disk[j], j, finished, gone) /\ Settled(disk[j]) /\ disk \in Solids(finished, gone)
      /\ AllSettled(disk)
  BY DEF SInv, Solids, AllSettled
<1>3. disk[j].manifest \in disk[j].manifests /\ disk[j].durable \subseteq disk[j].files
  BY <1>2 DEF Solid, GoodDir
<1>4. Needs(disk[j].manifest) \subseteq disk[j].durable
  BY <1>1, <1>2, <1>3 DEF Solid, Backed
<1>5. j \in finished => disk[j].manifest.status = "complete"
  BY <1>2, <1>3 DEF Solid, Ended
<1> QED
  BY <1>1, <1>2, <1>3, <1>4, <1>5

(* Steps between runs.                                                     *)
LEMMA IdleHolds ==
  ASSUME pc' = "idle", disk' \in Solids(finished', gone'), ~dying' => AllSettled(disk')
  PROVE  SInv'
BY DEF SInv, Supplied

(* Create.                                                                 *)
LEMMA CreateHolds ==
  ASSUME Steady, IInv, SInv, ~dying, NEW j \in Jobs, NEW c \in Configs, Create(j, c)
  PROVE  SInv'
<1> DEFINE ds == Made(disk, j, c)
<1>1. /\ pc = "idle" /\ j \notin born
      /\ Wholly(ds) \/ Partly(ds)
      /\ pc' = pc /\ gone' = gone /\ finished' = finished
  BY DEF Create, Made, Busy, run
<1>2. /\ disk \in Solids(finished, gone) /\ AllSettled(disk)
      /\ j \notin finished /\ j \notin gone
  BY <1>1 DEF SInv, IInv, Types
<1>3. disk[j].manifests = {NoManifest}
  <2>1. disk[j] = NoDirectory
    BY <1>1, DirectoryIs DEF Fine
  <2> QED
    BY <2>1 DEF NoDirectory
<1>4. /\ ds \in Seq(Stays(disk, j, finished, gone)) /\ Len(ds) >= 1
      /\ Settled(ds[Len(ds)][j])
  BY <1>2, <1>3, MadeStays
<1> HIDE DEF ds
<1>5. disk' \in Stays(disk, j, finished, gone) /\ (~dying' => AllSettled(disk'))
  BY <1>1, <1>2, <1>4, Ends
<1>6. disk' \in Solids(finished', gone') /\ pc' = "idle"
  BY <1>1, <1>5 DEF Stays
<1> QED
  BY <1>5, <1>6, IdleHolds

(* Rename.                                                                 *)
LEMMA RenameHolds ==
  ASSUME Steady, IInv, SInv, ~dying, NEW j \in Jobs, NEW t \in Titles, Rename(j, t)
  PROVE  SInv'
<1> DEFINE mf == [disk[j].manifest EXCEPT !.title = t]
           ds == Save(disk, j, mf)
<1>1. /\ pc = "idle" /\ disk[j].place = "live" /\ disk[j].manifest.status # "none"
      /\ Wholly(ds) \/ Partly(ds)
      /\ pc' = pc /\ gone' = gone /\ finished' = finished
  BY DEF Rename, Manifest, Loaded, Busy, run, history
<1>2. /\ Solid(disk[j], j, finished, gone) /\ disk[j].places = {"live"}
      /\ disk[j].manifest \in Manifests /\ disk \in Solids(finished, gone) /\ AllSettled(disk)
  BY <1>1, LoadedHas
<1>3. Fits(mf, disk[j], j, finished) /\ disk \in Stays(disk, j, finished, gone)
  BY <1>2, TitledFits DEF Stays
<1>4. ds = Save(disk, j, mf)
  OBVIOUS
<1> HIDE DEF mf, ds
<1>5. /\ ds \in Seq(Stays(disk, j, finished, gone)) /\ Len(ds) = 2
      /\ ds[1] \in Stays(disk, j, finished, gone) /\ ds[1][j] = Put(disk[j], mf)
      /\ ds[2] \in Stays(disk, j, finished, gone) /\ ds[2][j].manifest = mf /\ ds[2][j].manifests = {mf}
      /\ ds[2][j].place = disk[j].place /\ ds[2][j].places = disk[j].places
      /\ ds[2][j].files = disk[j].files
      /\ ds[2][j].durable = disk[j].files
  BY <1>2, <1>3, <1>4, SaveStays
<1>6. Settled(ds[Len(ds)][j]) /\ Len(ds) >= 1
  BY <1>1, <1>2, <1>5 DEF Settled
<1>7. disk' \in Stays(disk, j, finished, gone) /\ (~dying' => AllSettled(disk'))
  BY <1>1, <1>2, <1>5, <1>6, Ends
<1>8. disk' \in Solids(finished', gone') /\ pc' = "idle"
  BY <1>1, <1>7 DEF Stays
<1> QED
  BY <1>7, <1>8, IdleHolds

(* Rebind, also while another recording runs.                              *)
LEMMA RebindHolds ==
  ASSUME Steady, IInv, SInv, ~dying, NEW j \in Jobs, NEW c \in Configs, Rebind(j, c)
  PROVE  SInv'
<1> DEFINE all == RebindsAll(disk, j, c)
           some(fs) == Rebinds(disk, j, c, fs)
           V == Stays(disk, j, finished, gone)
<1>1. /\ ~(pc # "idle" /\ who = j) /\ disk[j].place = "live"
      /\ disk[j].manifest.status \in {"failed", "cancelled"}
      /\ ~disk[j].manifest.released
      /\ Wholly(all) \/ \E fs : Upload \notin fs /\ Partly(some(fs))
      /\ pc' = pc /\ who' = who /\ m' = m /\ gone' = gone /\ finished' = finished
  BY DEF Rebind, Manifest, Loaded, Busy, run, Rebinds, RebindsAll
<1>2. /\ disk[j].places = {"live"} /\ disk[j].manifest \in Manifests
      /\ j \notin finished /\ disk \in Solids(finished, gone) /\ AllSettled(disk)
  BY <1>1, LoadedHas
<1>3. /\ all \in Seq(V) /\ Len(all) >= 1 /\ Settled(all[Len(all)][j])
      /\ \A fs : Upload \notin fs =>
           some(fs) \in Seq(V) /\ Len(some(fs)) >= 1 /\ Settled(some(fs)[Len(some(fs))][j])
  BY <1>1, <1>2, RebindStays
<1> HIDE DEF all, some
<1>4. disk' \in V /\ (~dying' => AllSettled(disk'))
  <2>1. CASE Wholly(all)
    BY <1>2, <1>3, <2>1, Ends
  <2>2. CASE \E fs : Upload \notin fs /\ Partly(some(fs))
    <3>1. PICK fs : Upload \notin fs /\ Partly(some(fs))
      BY <2>2
    <3> DEFINE s == some(fs)
    <3>2. s \in Seq(V) /\ Len(s) >= 1 /\ Settled(s[Len(s)][j]) /\ Partly(s)
      BY <1>3, <3>1
    <3> HIDE DEF s
    <3> QED
      BY <1>2, <3>2, Ends
  <2> QED
    BY <1>1, <2>1, <2>2
<1>5. disk' \in Solids(finished', gone') /\ \A k \in Jobs : k # j => disk'[k] = disk[k]
  BY <1>1, <1>4 DEF Stays
<1>6. Supplied'
  <2> SUFFICES ASSUME pc \notin {"idle", "admitted"}
               PROVE  who \notin finished /\ Needs(m) \subseteq disk'[who].durable
    BY <1>1 DEF Supplied
  <2>1. who \in Jobs /\ who # j
    BY <1>1 DEF IInv, Types
  <2> QED
    BY <1>5, <2>1 DEF SInv, Supplied
<1> QED
  BY <1>4, <1>5, <1>6 DEF SInv

(* ReleaseMedia.                                                           *)
LEMMA ReleaseMediaHolds ==
  ASSUME Steady, IInv, SInv, ~dying, NEW j \in Jobs, ReleaseMedia(j)
  PROVE  SInv'
<1> DEFINE ds == Releases(disk, j)
<1>1. /\ pc = "idle" /\ disk[j].place = "live"
      /\ disk[j].manifest.status \in {"complete", "cancelled"}
      /\ Wholly(ds) \/ Partly(ds)
      /\ pc' = pc /\ gone' = gone /\ finished' = finished
  BY DEF ReleaseMedia, Releases, Manifest, Loaded, Busy, run, history
<1>2. /\ disk[j].places = {"live"} /\ disk[j].manifest \in Manifests
      /\ disk \in Solids(finished, gone) /\ AllSettled(disk)
  BY <1>1, LoadedHas
<1>3. /\ ds \in Seq(Stays(disk, j, finished, gone)) /\ Len(ds) >= 1
      /\ Settled(ds[Len(ds)][j])
  BY <1>1, <1>2, ReleasesStays
<1> HIDE DEF ds
<1>4. disk' \in Stays(disk, j, finished, gone) /\ (~dying' => AllSettled(disk'))
  BY <1>1, <1>2, <1>3, Ends
<1>5. disk' \in Solids(finished', gone') /\ pc' = "idle"
  BY <1>1, <1>4 DEF Stays
<1> QED
  BY <1>4, <1>5, IdleHolds

(* Delete.                                                                 *)
LEMMA DeleteHolds ==
  ASSUME Steady, IInv, SInv, ~dying, NEW j \in Jobs, Delete(j)
  PROVE  SInv'
<1> DEFINE ds == Deletes(disk, j)
           F == finished \ {j}
<1>1. /\ pc = "idle" /\ pc' = pc /\ finished' = F
      /\ \/ disk[j].place = "absent" /\ disk' = disk /\ dying' = dying /\ gone' = gone \cup {j}
         \/ disk[j].place # "absent" /\ Wholly(ds) /\ gone' = gone \cup {j}
         \/ disk[j].place # "absent" /\ Partly(ds) /\ gone' = gone
  BY DEF Delete, Deletes, Busy, run
<1>2. disk \in Solids(finished, gone) /\ AllSettled(disk) /\ Solid(disk[j], j, finished, gone)
  BY DEF SInv, Solids
<1>3. j \notin F /\ F \subseteq finished \cup {j} /\ gone \subseteq gone \cup {j}
  OBVIOUS
<1> HIDE DEF ds, F
<1>4. disk \in Solids(F, gone)
  BY <1>2, <1>3, Regarded DEF Solid
<1>5. CASE disk[j].place = "absent" /\ disk' = disk /\ dying' = dying /\ gone' = gone \cup {j}
  <2>1. disk[j].places = {"absent"}
    BY <1>2, <1>5 DEF AllSettled, Settled
  <2>2. disk \in Solids(F, gone')
    BY <1>3, <1>4, <1>5, <2>1, Regarded
  <2> QED
    BY <1>1, <1>2, <1>5, <2>2, IdleHolds
<1>6. CASE disk[j].place # "absent" /\ (Wholly(ds) \/ Partly(ds))
  <2>1. j \notin gone
    BY <1>2, <1>6 DEF Solid, GoodDir
  <2>2. /\ ds \in Seq(Stays(disk, j, F, gone)) /\ Len(ds) >= 1 /\ Settled(ds[Len(ds)][j])
        /\ ds[Len(ds)][j].places = {"absent"}
    BY <1>2, <1>3, <1>4, <2>1, DeletesStays DEF ds
  <2>3. disk' \in Stays(disk, j, F, gone) /\ (~dying' => AllSettled(disk'))
    BY <1>2, <1>4, <1>6, <2>2, Ends
  <2>4. disk' \in Solids(F, gone)
    BY <2>3 DEF Stays
  <2>5. gone' = gone \/ (gone' = gone \cup {j} /\ disk'[j].places = {"absent"})
    BY <1>1, <1>6, <2>2 DEF Wholly
  <2>6. disk' \in Solids(F, gone')
    BY <1>3, <2>4, <2>5, Regarded
  <2> QED
    BY <1>1, <2>3, <2>6, IdleHolds
<1> QED
  BY <1>1, <1>5, <1>6

(* The disks that stay as they were but for the directory of j, which      *)
(* loses no file that lasts.                                               *)
Stocked(D, j, F, N) ==
  {E \in Stays(D, j, F, N) : D[j].durable \subseteq E[j].durable}

(* Publishing mf, whose media are there.                                   *)
LEMMA PublishStays ==
  ASSUME Steady, IInv, SInv, ~dying, pc # "idle",
         NEW mf, Fits(mf, disk[who], who, finished), NEW p, NEW q, Publish(mf, p, q)
  PROVE  /\ disk' \in Stocked(disk, who, finished, gone) /\ (~dying' => AllSettled(disk'))
         /\ gone' = gone
         /\ \/ Goes(p, mf) /\ disk'[who].manifests = {mf} /\ disk'[who].places = {"live"}
            \/ Goes(q, mf)
<1> DEFINE ds == Save(disk, who, mf)
           V == Stays(disk, who, finished, gone)
           S == Stocked(disk, who, finished, gone)
<1>1. /\ \/ Wholly(ds) /\ Goes(p, mf)
         \/ Stops(ds, 0) /\ Goes(q, mf)
      /\ gone' = gone
  BY DEF Publish
<1>2. who \in Jobs /\ disk[who].places = {"live"} /\ disk[who].place = "live"
  BY RunIs DEF Current
<1>3. disk \in Solids(finished, gone) /\ AllSettled(disk) /\ Solid(disk[who], who, finished, gone)
      /\ disk \in V
  BY <1>2 DEF SInv, Solids, Stays
<1>4. ds = Save(disk, who, mf)
  OBVIOUS
<1> HIDE DEF ds
<1>5. /\ ds \in Seq(V) /\ Len(ds) = 2
      /\ ds[1] \in V /\ ds[1][who] = Put(disk[who], mf)
      /\ ds[2] \in V /\ ds[2][who].manifest = mf /\ ds[2][who].manifests = {mf}
      /\ ds[2][who].place = disk[who].place /\ ds[2][who].places = disk[who].places
      /\ ds[2][who].files = disk[who].files
      /\ ds[2][who].durable = disk[who].files
  BY <1>2, <1>3, <1>4, SaveStays
<1>6. Settled(ds[Len(ds)][who]) /\ Len(ds) >= 1
  BY <1>2, <1>5 DEF Settled
<1>7. disk' \in V /\ (~dying' => AllSettled(disk'))
  BY <1>1, <1>2, <1>3, <1>5, <1>6, Ends
<1>8. disk[who].durable \subseteq disk[who].files
  BY <1>3 DEF Solid, GoodDir
<1>9. Put(disk[who], mf).durable = disk[who].durable
  <2> DEFINE d == disk[who]
             g == Put(d, mf)
  <2>1. /\ GoodDir(d, 0) /\ mf \in GoodManifests /\ Len(mf.cps) >= 0
    <3>1. mf \in GoodManifests /\ mf \in AllManifests
      BY DEF Fits, GoodManifests
    <3> QED
      BY <1>3, <3>1, ManifestIs DEF Solid
  <2>2. g = Put(d, mf)
    OBVIOUS
  <2> HIDE DEF d, g
  <2>3. /\ GoodDir(g, 0) /\ g.manifest = mf
        /\ g.place = d.place /\ g.places = d.places
        /\ g.files = d.files /\ g.durable = d.durable
    BY <2>1, <2>2, PutIs
  <2> QED
    BY <2>3 DEF d, g
<1>10. CASE Wholly(ds) /\ Goes(p, mf)
  <2>1. disk' = ds[2]
    BY <1>5, <1>10 DEF Wholly
  <2>2. disk' \in S
    BY <1>5, <1>8, <2>1 DEF Stocked
  <2> QED
    BY <1>1, <1>2, <1>5, <1>7, <1>10, <2>1, <2>2
<1>11. CASE Stops(ds, 0) /\ Goes(q, mf)
  <2>1. disk' = disk \/ disk' = ds[1]
    BY <1>5, <1>11 DEF Stops
  <2>2. disk' \in S
    BY <1>3, <1>5, <1>9, <2>1 DEF Stocked
  <2> QED
    BY <1>1, <1>7, <1>11, <2>2
<1> QED
  BY <1>1, <1>10, <1>11

(* What a run in progress leaves of the invariant, if it goes on with mf.  *)
LEMMA RunHolds ==
  ASSUME IInv, who \notin finished, NEW mf, Needs(mf) \subseteq disk[who].durable,
         disk' \in Stocked(disk, who, finished, gone), ~dying' => AllSettled(disk'),
         NEW r, Goes(r, mf), finished' = finished, gone' = gone
  PROVE  SInv'
<1>1. disk' \in Solids(finished, gone) /\ disk[who].durable \subseteq disk'[who].durable
  BY DEF Stocked, Stays
<1>2. Supplied'
  <2>1. pc' = r /\ (r # "idle" => m' = mf /\ who' = who)
    BY GoesIs
  <2> QED
    BY <1>1, <2>1 DEF Supplied
<1> QED
  BY <1>1, <1>2 DEF SInv

(* Publishing keeps the invariant.                                         *)
LEMMA PublishHolds ==
  ASSUME Steady, IInv, SInv, ~dying, pc # "idle", who \notin finished,
         NEW mf, Fits(mf, disk[who], who, finished), Needs(mf) \subseteq disk[who].durable,
         NEW p, NEW q, Publish(mf, p, q), finished' = finished
  PROVE  SInv'
<1>1. /\ disk' \in Stocked(disk, who, finished, gone) /\ (~dying' => AllSettled(disk'))
      /\ gone' = gone
      /\ \/ Goes(p, mf) /\ disk'[who].manifests = {mf} /\ disk'[who].places = {"live"}
         \/ Goes(q, mf)
  BY PublishStays
<1>2. PICK r : Goes(r, mf)
  BY <1>1
<1> QED
  BY <1>1, <1>2, RunHolds

(* A manifest that needs no more than the copy of a run in progress may be *)
(* published.                                                              *)
LEMMA CopyFits ==
  ASSUME IInv, SInv, ~dying, pc # "idle", who \notin finished, Needs(m) \subseteq disk[who].durable,
         NEW mf \in GoodManifests, mf.cps = m.cps, mf.released = m.released
  PROVE  Fits(mf, disk[who], who, finished) /\ Needs(mf) \subseteq disk[who].durable
<1>1. Needs(mf) = Needs(m)
  BY NeedsSame
<1> QED
  BY <1>1 DEF Fits

(* The same of the copy restated.                                          *)
LEMMA RestatedHolds ==
  ASSUME Steady, IInv, SInv, ~dying, pc # "idle", who \notin finished,
         Needs(m) \subseteq disk[who].durable, NEW s, NEW a, NEW mf, Restated(mf, m, s, a),
         \/ a = 0
         \/ s = "running" /\ a = Len(m.cps) + 1 /\ Len(m.cps) < Len(Plan),
         ~m.released, NEW p, NEW q, Publish(mf, p, q), finished' = finished
  PROVE  SInv'
<1>1. m \in GoodManifests
  BY RunIs
<1>2. mf \in GoodManifests /\ mf.cps = m.cps /\ mf.released = m.released
  <2>1. mf \in GoodManifests /\ Len(mf.cps) = Len(m.cps)
    BY <1>1, RestatedGood
  <2> QED
    BY <2>1 DEF Restated
<1>3. Fits(mf, disk[who], who, finished) /\ Needs(mf) \subseteq disk[who].durable
  BY <1>2, CopyFits
<1> QED
  BY <1>3, PublishHolds

(* A run in progress has its media and was not acknowledged.               *)
LEMMA HasMedia ==
  ASSUME SInv, ~dying, pc \notin {"idle", "admitted"}
  PROVE  who \notin finished /\ Needs(m) \subseteq disk[who].durable
BY DEF SInv, Supplied

(* The recording the executor was admitted to.                             *)
LEMMA AdmittedHas ==
  ASSUME IInv, SInv, ~dying, pc = "admitted"
  PROVE  /\ Needs(m) \subseteq disk[who].durable /\ m = disk[who].manifest
         /\ Settled(disk[who]) /\ disk[who].places = {"live"} /\ disk[who].place = "live"
         /\ disk \in Solids(finished, gone) /\ AllSettled(disk)
         /\ who \in finished => m.status = "complete"
<1>1. who \in Jobs /\ Current(m, disk[who]) /\ m = disk[who].manifest
  BY RunIs DEF IInv, RunOK
<1>2. disk[who].place = "live" /\ disk[who].manifest.status # "none"
  BY <1>1 DEF Current
<1> QED
  BY <1>1, <1>2, LoadedHas

(* Admit and Cancel.                                                       *)
LEMMA AdmitHolds ==
  ASSUME SInv, NEW j \in Jobs, Admit(j)
  PROVE  SInv'
BY DEF Admit, history, SInv, Supplied, AllSettled

(* Cancel.                                                                 *)
LEMMA CancelHolds ==
  ASSUME SInv, Cancel
  PROVE  SInv'
BY DEF Cancel, history, SInv, Supplied, AllSettled

(* Refuse: what it acknowledges is what every restart finds.               *)
LEMMA RefuseHolds ==
  ASSUME IInv, SInv, ~dying, Refuse
  PROVE  SInv'
<1>1. /\ pc = "admitted" /\ Goes("idle", m) /\ finished' \subseteq finished \cup {who}
      /\ who \in finished' => m.status = "complete" \/ who \in finished
      /\ disk' = disk /\ dying' = dying /\ gone' = gone
  BY DEF Refuse
<1>2. pc' = "idle" /\ who \in Jobs
  BY <1>1, GoesIs, RunIs
<1>3. /\ m = disk[who].manifest
      /\ Settled(disk[who]) /\ disk[who].places = {"live"} /\ disk[who].place = "live"
      /\ disk \in Solids(finished, gone) /\ AllSettled(disk)
      /\ who \in finished => m.status = "complete"
  BY <1>1, AdmittedHas
<1>4. who \in finished' => Ended(disk[who])
  BY <1>1, <1>3 DEF Settled, Ended
<1>5. who \in gone => disk[who].places = {"absent"}
  BY <1>2, <1>3 DEF Solids, Solid
<1>6. disk \in Solids(finished', gone)
  <2>1. gone \subseteq gone \cup {who}
    OBVIOUS
  <2> QED
    BY <1>1, <1>2, <1>3, <1>4, <1>5, <2>1, Regarded
<1> QED
  BY <1>1, <1>2, <1>3, <1>6, IdleHolds

(* Begin.                                                                  *)
LEMMA BeginHolds ==
  ASSUME Steady, IInv, SInv, ~dying, Begin
  PROVE  SInv'
<1> DEFINE mf == [m EXCEPT !.status = "running", !.attempts = @ + 1]
<1>1. /\ pc = "admitted" /\ ~m.released /\ m.status # "complete" /\ Publish(mf, "loop", "idle")
      /\ finished' = finished
  BY DEF Begin, Startable
<1>2. m \in Manifests /\ m \in GoodManifests
  BY <1>1, RunIs
<1>3. Restated(mf, m, "running", m.active)
  BY <1>2, SetRunning
<1> HIDE DEF mf
<1>4. \/ m.active = 0
      \/ Len(m.cps) < Len(Plan) /\ m.active = Len(m.cps) + 1
  BY <1>2, ActiveIs
<1>5. Needs(m) \subseteq disk[who].durable /\ who \notin finished
  BY <1>1, AdmittedHas
<1> QED
  BY <1>1, <1>3, <1>4, <1>5, RestatedHolds

(* NextStage.                                                              *)
LEMMA NextStageHolds ==
  ASSUME Steady, IInv, SInv, ~dying, NextStage
  PROVE  SInv'
<1> DEFINE a == Len(m.cps) + 1
           mf == [m EXCEPT !.active = a]
<1>1. /\ pc = "loop" /\ Len(m.cps) < Len(Plan) /\ Publish(mf, "stage", "failing")
      /\ finished' = finished
  BY DEF NextStage
<1>2. /\ m \in Manifests /\ Len(m.cps) \in Nat /\ ~m.released /\ m.status = "running"
  BY <1>1, RunIs DEF IInv, RunOK
<1>3. Restated(mf, m, m.status, a)
  <2>1. a \in Nat /\ m.status \in Statuses
    BY <1>2 DEF Statuses
  <2> HIDE DEF a
  <2> QED
    BY <1>2, <2>1, SetStatus
<1>4. a = Len(m.cps) + 1
  OBVIOUS
<1> HIDE DEF mf, a
<1>5. who \notin finished /\ Needs(m) \subseteq disk[who].durable
  BY <1>1, HasMedia
<1>6. pc # "idle"
  BY <1>1
<1> QED
  BY <1>1, <1>2, <1>3, <1>4, <1>5, <1>6, RestatedHolds

(* RecordStage and End.                                                    *)
LEMMA RecordHolds ==
  ASSUME Steady, IInv, SInv, ~dying, RecordStage \/ End
  PROVE  SInv'
<1>1. PICK p, q : pc \in {"record", "ending"} /\ Publish(m, p, q) /\ finished' = finished
  BY DEF RecordStage, End
<1>2. m \in GoodManifests /\ pc # "idle"
  BY <1>1, RunIs
<1>3. who \notin finished /\ Needs(m) \subseteq disk[who].durable
  BY <1>1, HasMedia
<1>4. Fits(m, disk[who], who, finished)
  BY <1>2, <1>3, CopyFits
<1> QED
  BY <1>1, <1>2, <1>3, <1>4, PublishHolds

(* Complete: what it acknowledges is what every restart finds.             *)
LEMMA CompleteHolds ==
  ASSUME Steady, IInv, SInv, ~dying, Complete
  PROVE  SInv'
<1> DEFINE mf == [m EXCEPT !.status = "complete"]
<1>1. /\ pc = "loop" /\ Len(m.cps) = Len(Plan) /\ Publish(mf, "idle", "failing")
      /\ pc' = "idle" => finished' = finished \cup {who}
      /\ pc' # "idle" => finished' = finished
  BY DEF Complete
<1>2. /\ m \in Manifests /\ m \in GoodManifests /\ ~m.released /\ who \in Jobs
  BY <1>1, RunIs DEF IInv, RunOK
<1>3. Restated(mf, m, "complete", m.active)
  <2>1. "complete" \in Statuses
    BY DEF Statuses
  <2> QED
    BY <1>2, <2>1, SetStatus, 0 \in Nat
<1> HIDE DEF mf
<1>4. m.active = 0
  BY <1>1, <1>2, ActiveIs
<1>5. mf \in GoodManifests /\ mf.cps = m.cps /\ mf.released = m.released /\ mf.status = "complete"
  <2>1. mf \in GoodManifests /\ Len(mf.cps) = Len(m.cps)
    BY <1>2, <1>3, <1>4, RestatedGood
  <2> QED
    BY <1>3, <2>1 DEF Restated
<1>6. who \notin finished /\ Needs(m) \subseteq disk[who].durable /\ pc # "idle"
  BY <1>1, HasMedia
<1>7. Fits(mf, disk[who], who, finished) /\ Needs(mf) \subseteq disk[who].durable
  BY <1>5, <1>6, CopyFits
<1>8. /\ disk' \in Stocked(disk, who, finished, gone) /\ (~dying' => AllSettled(disk'))
      /\ gone' = gone
      /\ \/ Goes("idle", mf) /\ disk'[who].manifests = {mf} /\ disk'[who].places = {"live"}
         \/ Goes("failing", mf)
  BY <1>1, <1>6, <1>7, PublishStays
<1>9. CASE Goes("idle", mf) /\ disk'[who].manifests = {mf} /\ disk'[who].places = {"live"}
  <2>1. pc' = "idle" /\ finished' = finished \cup {who}
    BY <1>1, <1>9, GoesIs
  <2>2. Ended(disk'[who])
    BY <1>5, <1>9 DEF Ended
  <2>3. disk' \in Solids(finished, gone)
    BY <1>8 DEF Stocked, Stays
  <2>4. who \in gone => disk'[who].places = {"absent"}
    BY <1>2, <2>3 DEF Solids, Solid
  <2>5. gone \subseteq gone \cup {who} /\ finished' \subseteq finished \cup {who}
    BY <2>1
  <2>6. disk' \in Solids(finished', gone)
    BY <1>2, <2>2, <2>3, <2>4, <2>5, Regarded
  <2> QED
    BY <1>8, <2>1, <2>6, IdleHolds
<1>10. CASE Goes("failing", mf)
  <2>1. pc' = "failing"
    BY <1>10, GoesIs
  <2> QED
    BY <1>1, <1>6, <1>7, <1>8, <1>10, <2>1, RunHolds
<1> QED
  BY <1>8, <1>9, <1>10

(* Interrupt, StageFails and Fail.                                         *)
LEMMA StoppedHolds ==
  ASSUME IInv, SInv, ~dying, pc \notin {"idle", "admitted"}, NEW s, Stopped(s),
         disk' \in Stocked(disk, who, finished, gone), ~dying' => AllSettled(disk'),
         finished' = finished, gone' = gone
  PROVE  SInv'
<1> DEFINE mf == [m EXCEPT !.status = s, !.active = 0]
<1>1. m \in Manifests
  BY RunIs
<1>2. mf.cps = m.cps /\ mf.released = m.released
  BY <1>1 DEF Manifests
<1>3. Goes("ending", mf)
  BY DEF Stopped
<1> HIDE DEF mf
<1>4. Needs(mf) = Needs(m)
  BY <1>2, NeedsSame
<1>5. who \notin finished /\ Needs(m) \subseteq disk[who].durable
  BY HasMedia
<1>6. Needs(mf) \subseteq disk[who].durable
  BY <1>4, <1>5
<1> QED
  BY <1>3, <1>5, <1>6, RunHolds

(* Interrupt, StageFails and Fail.                                         *)
LEMMA EndingHolds ==
  ASSUME IInv, SInv, ~dying, Interrupt \/ StageFails \/ Fail
  PROVE  SInv'
<1>1. /\ pc \notin {"idle", "admitted"} /\ (Stopped("failed") \/ Stopped("cancelled"))
      /\ disk' = disk /\ dying' = dying /\ gone' = gone /\ finished' = finished
  BY DEF Interrupt, StageFails, Fail, history
<1>2. disk' \in Stocked(disk, who, finished, gone) /\ AllSettled(disk')
  BY <1>1 DEF SInv, Stocked, Stays
<1> QED
  BY <1>1, <1>2, StoppedHolds

(* What a stage leaves: the payload and everything that was there lasts.   *)
LEMMA StageStays ==
  ASSUME NEW F, NEW N, disk \in Solids(F, N), AllSettled(disk), who \in Jobs,
         disk[who].place = "live", disk[who].places = {"live"},
         NEW f \in Files, NEW there, there \subseteq disk[who].files, there \subseteq {f},
         NEW ds, ds = Stage(f, there)
  PROVE  /\ ds \in Seq(Stocked(disk, who, F, N)) /\ Len(ds) >= 1
         /\ Settled(ds[Len(ds)][who]) /\ f \in ds[Len(ds)][who].durable
<1> DEFINE S == Stocked(disk, who, F, N)
           b == disk[who]
           d == Link(b, f)
           e == IF there = {} THEN d ELSE b
           q == SyncDir(e)
           first == At(disk, who, d)
           last == At(disk, who, q)
           a == IF there = {} THEN <<first>> ELSE <<>>
           z == <<last>>
<1>1. /\ d = Link(b, f) /\ e = (IF there = {} THEN d ELSE b) /\ q = SyncDir(e)
      /\ first = At(disk, who, d) /\ last = At(disk, who, q)
      /\ a = IF there = {} THEN <<first>> ELSE <<>>
  OBVIOUS
<1>2. ds = a \o z
  BY DEF Stage
<1>3. /\ Solid(b, who, F, N) /\ b.durable \subseteq b.files /\ disk \in Stays(disk, who, F, N)
      /\ b.places = {"live"}
  BY DEF Solids, Solid, GoodDir, Stays
<1> HIDE DEF b, d, e, q, first, last, a
<1>4. /\ Solid(d, who, F, N) /\ d.place = b.place /\ d.places = b.places
      /\ d.manifest = b.manifest /\ d.manifests = b.manifests
      /\ d.files = b.files \cup {f} /\ b.durable \subseteq d.durable
  BY <1>1, <1>3, LinkSolid
<1>5. /\ Solid(e, who, F, N) /\ e.place = b.place /\ e.places = b.places
      /\ b.durable \subseteq e.files /\ f \in e.files
  <2>1. CASE there = {}
    BY <1>1, <1>3, <1>4, <2>1
  <2>2. CASE there # {}
    BY <1>1, <1>3, <2>2 DEF b
  <2> QED
    BY <2>1, <2>2
<1>6. /\ Solid(q, who, F, N) /\ q.manifest = e.manifest /\ q.manifests = {e.manifest}
      /\ q.place = e.place /\ q.places = e.places
      /\ q.durable = e.files /\ q.files = e.files
  <2>1. Solid(e, who, F, N) /\ q = SyncDir(e)
    BY <1>1, <1>5
  <2> QED
    BY <2>1, SyncSolid
<1>7. /\ first \in Stays(disk, who, F, N) /\ first[who] = d
      /\ last \in Stays(disk, who, F, N) /\ last[who] = q
  BY <1>1, <1>3, <1>4, <1>6, AtStays
<1>8. first \in S /\ last \in S
  BY <1>4, <1>5, <1>6, <1>7 DEF Stocked, b
<1>9. Settled(q) /\ f \in q.durable
  BY <1>3, <1>5, <1>6 DEF Settled, b
<1> HIDE DEF S
<1>10. a \in Seq(S) /\ z \in Seq(S) /\ Len(z) = 1 /\ z[1] = last
  BY <1>1, <1>8
<1> HIDE DEF z
<1>11. a \in Seq(S) /\ z \in Seq(S) /\ Len(z) >= 1 /\ Joined(ds, a, z)
  BY <1>2, <1>10 DEF Joined
<1>12. ds \in Seq(S) /\ Len(ds) >= 1 /\ ds[Len(ds)] = z[Len(z)]
  BY <1>11, Chain
<1> QED
  BY <1>7, <1>9, <1>10, <1>12 DEF S

(* StageWrites.                                                            *)
LEMMA StageWritesHolds ==
  ASSUME Steady, IInv, SInv, ~dying, NEW o \in Outputs, StageWrites(o)
  PROVE  SInv'
<1> DEFINE key == Key(m, m.active)
           f == <<key, o>>
           there == {g \in disk[who].files : g[1] = key}
           ds == Stage(f, there)
           x == [key |-> key, bytes |-> o]
           cs == Append(m.cps, x)
           mf == WithStages(m, cs)
           S == Stocked(disk, who, finished, gone)
<1>1. /\ pc = "stage" /\ there \subseteq {f}
      /\ \/ Wholly(ds) /\ Goes("record", mf)
         \/ Stops(ds, 0) /\ Stopped("failed")
      /\ gone' = gone /\ finished' = finished
  BY DEF StageWrites, Stage, WithStages, history
<1>2. /\ m \in Manifests /\ ~m.released /\ m.active = Len(m.cps) + 1 /\ Len(m.cps) \in Nat
      /\ who \in Jobs /\ disk[who].places = {"live"} /\ disk[who].place = "live"
  BY <1>1, RunIs DEF IInv, RunOK, Current
<1>3. m \in AllManifests /\ m.cps \in Seq(Checkpoints)
  BY <1>2, ManifestIs DEF AllManifests
<1>4. key \in Names
  <2>1. m.active \in 1..(Len(m.cps) + 1)
    BY <1>2
  <2> QED
    BY <1>3, <2>1, KeyIs
<1>5. f \in Files /\ x \in Checkpoints /\ Payload(x) = f
  <2> HIDE DEF key
  <2>1. f \in Files
    BY <1>4, FilesAre
  <2>2. x \in Checkpoints
    BY <1>4 DEF Checkpoints, Names
  <2> QED
    BY <2>1, <2>2 DEF Payload
<1>6. mf = WithStages(m, cs) /\ Extends(cs, m.cps, x) /\ there \subseteq disk[who].files
  <2> HIDE DEF x, key
  <2> QED
    BY <1>3, <1>5, AppendExtends
<1>7. ds = Stage(f, there)
  OBVIOUS
<1> HIDE DEF ds, key, f, there, x, cs, mf
<1>8. disk \in Solids(finished, gone) /\ AllSettled(disk)
  BY DEF SInv
<1>9. /\ ds \in Seq(S) /\ Len(ds) >= 1 /\ Settled(ds[Len(ds)][who])
      /\ f \in ds[Len(ds)][who].durable
  BY <1>1, <1>2, <1>5, <1>6, <1>7, <1>8, StageStays
<1>10. who \notin finished /\ Needs(m) \subseteq disk[who].durable
  BY <1>1, HasMedia
<1>11. S \subseteq Stays(disk, who, finished, gone) /\ disk \in S
  BY <1>2, <1>8 DEF Stocked, Stays
<1>12. ~dying' => AllSettled(disk')
  <2>1. ds \in Seq(Stays(disk, who, finished, gone))
    <3> HIDE DEF S
    <3> QED
      BY <1>9, <1>11
  <2>2. Wholly(ds) \/ Partly(ds) \/ Stops(ds, 0)
    BY <1>1
  <2>3. disk' \in Stays(disk, who, finished, gone) /\ (~dying' => AllSettled(disk'))
    BY <1>2, <1>8, <1>9, <2>1, <2>2, Ends
  <2> QED
    BY <2>3
<1>13. disk' \in S /\ (Wholly(ds) => disk' = ds[Len(ds)])
  <2> HIDE DEF S
  <2>1. /\ Wholly(ds) => disk' \in S /\ disk' = ds[Len(ds)] /\ dying' \in BOOLEAN
        /\ Stops(ds, 0) => (disk' = disk \/ disk' \in S) /\ dying' \in BOOLEAN
    BY <1>9, Lands
  <2> QED
    BY <1>1, <1>11, <2>1
<1>14. CASE Wholly(ds) /\ Goes("record", mf)
  <2>1. mf.cps = cs /\ mf.released = m.released
    <3>1. cs \in Seq(Checkpoints)
      BY <1>6 DEF Extends
    <3> QED
      BY <1>2, <1>6, <3>1, SetStages
  <2>2. mf.released = FALSE /\ m.released = FALSE
    BY <1>2, <2>1 DEF Manifests
  <2>3. Extends(mf.cps, m.cps, x)
    BY <1>6, <2>1
  <2>4. Needs(mf) \subseteq Needs(m) \cup {Payload(x)}
    BY <1>2, <2>2, <2>3, NeedsMore
  <2>5. disk[who].durable \subseteq disk'[who].durable /\ disk' \in Solids(finished, gone)
    BY <1>13 DEF Stocked, Stays
  <2>6. Needs(mf) \subseteq disk'[who].durable
    BY <1>5, <1>9, <1>10, <1>13, <1>14, <2>4, <2>5
  <2>7. pc' = "record" /\ m' = mf /\ who' = who
    BY <1>14, GoesIs
  <2>8. Supplied'
    BY <1>1, <1>10, <2>6, <2>7 DEF Supplied
  <2> QED
    BY <1>1, <1>12, <2>5, <2>8 DEF SInv
<1>15. CASE Stops(ds, 0) /\ Stopped("failed")
  <2>1. pc \notin {"idle", "admitted"}
    BY <1>1
  <2> QED
    BY <1>1, <1>12, <1>13, <1>15, <2>1, StoppedHolds
<1> QED
  BY <1>1, <1>14, <1>15

(* What a power loss leaves.                                               *)
LEMMA RemainsSolid ==
  ASSUME PowerFails, NEW F, NEW N, NEW B, NEW K, NEW R, NEW j \in Jobs,
         NEW d, Solid(d, j, F, N), Fine(d, j, B, K, R), NEW e \in Remains(d)
  PROVE  Solid(e, j, F, N) /\ Settled(e)
<1>1. PICK p \in d.places, mf \in d.manifests, s \in SUBSET d.loose :
        e = IF p = "absent" THEN NoDirectory
            ELSE [place |-> p, manifest |-> mf, files |-> d.durable \cup s,
                  places |-> {p}, manifests |-> {mf}, durable |-> d.durable \cup s, loose |-> {}]
  BY DEF Remains
<1>2. GoodDir(d, 0)
  BY DEF Solid
<1>3. CASE p = "absent"
  <2>1. e = NoDirectory
    BY <1>1, <1>3
  <2>2. GoodDir(e, 0) /\ e.place = "absent" /\ e.places = {"absent"}
    BY <2>1, NoDirectoryIs
  <2>3. j \notin F
    BY <1>3 DEF Solid, Ended
  <2>4. Backed(e)
    BY <2>2 DEF Backed
  <2>5. Settled(e)
    BY <2>2 DEF Settled
  <2> QED
    BY <2>2, <2>3, <2>4, <2>5 DEF Solid
<1>4. CASE p # "absent"
  <2>1. e = [place |-> p, manifest |-> mf, files |-> d.durable \cup s,
             places |-> {p}, manifests |-> {mf}, durable |-> d.durable \cup s, loose |-> {}]
    BY <1>1, <1>4
  <2>2. /\ e.place = p /\ e.manifest = mf /\ e.places = {p} /\ e.manifests = {mf}
        /\ e.durable = e.files /\ d.durable \subseteq e.durable /\ e \in Directories
    BY <1>2, <2>1 DEF GoodDir, Directories
  <2>3. GoodDir(e, 0)
    BY <1>2, <2>2 DEF GoodDir
  <2>4. Backed(e)
    BY <2>2 DEF Solid, Backed
  <2>5. j \in F => Ended(e)
    BY <2>2 DEF Solid, Ended
  <2>6. j \notin N
    BY <1>4 DEF Solid
  <2>7. Settled(e)
    BY <2>2 DEF Settled
  <2> QED
    BY <2>3, <2>4, <2>5, <2>6, <2>7 DEF Solid
<1> QED
  BY <1>3, <1>4

(* Close, Kill and PowerLoss.                                              *)
LEMMA CrashHolds ==
  ASSUME Steady, IInv, SInv, (Close /\ ~dying) \/ Kill \/ PowerLoss
  PROVE  SInv'
<1>1. pc' = "idle" /\ finished' = finished /\ gone' = gone
  <2>1. MemoryLost
    BY DEF Close, Kill, PowerLoss
  <2>2. Goes("idle", m) /\ finished' = finished /\ gone' = gone
    BY <2>1 DEF MemoryLost, history
  <2> QED
    BY <2>2, GoesIs
<1>2. CASE Close /\ ~dying
  BY <1>1, <1>2, IdleHolds DEF Close, SInv
<1>3. CASE Kill
  <2>1. disk' = disk /\ ~PowerFails
    BY <1>3 DEF Kill, Steady
  <2>2. disk \in Solids(finished, gone)
    BY DEF SInv
  <2>3. AllSettled(disk)
    BY <2>1, <2>2, ExactSettled
  <2> QED
    BY <1>1, <2>1, <2>2, <2>3, IdleHolds
<1>4. CASE PowerLoss
  <2>1. PowerFails /\ \A j \in Jobs : disk'[j] \in Remains(disk[j])
    BY <1>4 DEF PowerLoss
  <2>2. ASSUME NEW j \in Jobs PROVE Solid(disk'[j], j, finished, gone) /\ Settled(disk'[j])
    <3> DEFINE d == disk[j]
               e == disk'[j]
    <3>1. Solid(d, j, finished, gone) /\ Fine(d, j, born, kept, reported) /\ e \in Remains(d)
      BY <2>1, DirectoryIs DEF SInv, Solids
    <3> HIDE DEF d, e
    <3>2. Solid(e, j, finished, gone) /\ Settled(e)
      BY <2>1, <3>1, RemainsSolid
    <3> QED
      BY <3>2 DEF e
  <2>3. \A j \in Jobs : disk'[j] \in Directories
    BY <2>2 DEF Solid, GoodDir
  <2>4. PICK D \in [Jobs -> UNION {Remains(disk[j]) : j \in Jobs}] : disk' = D
    BY <1>4 DEF PowerLoss
  <2>5. disk' \in [Jobs -> Directories]
    BY <2>3, <2>4
  <2>6. disk' \in Solids(finished', gone') /\ AllSettled(disk')
    BY <1>1, <2>2, <2>5 DEF Solids, AllSettled
  <2> QED
    BY <1>1, <2>6, IdleHolds
<1> QED
  BY <1>2, <1>3, <1>4

(* Recover: a manifest it could not sync is that of a failed run.          *)
LEMMA RecoverHolds ==
  ASSUME IInv, SInv, ~dying, NEW j \in Jobs, Recover(j)
  PROVE  SInv'
<1> DEFINE old == disk[j].manifest
           mf == [old EXCEPT !.status = "failed", !.active = 0]
           ds == Save(disk, j, mf)
<1>1. /\ ~up /\ disk[j].place = "live" /\ old.status = "running"
      /\ Wholly(ds) \/ disk' = ds[1]
      /\ pc' = pc /\ gone' = gone /\ finished' = finished
  BY DEF Recover, Left, Loaded, Manifest, run, history
<1>2. pc = "idle"
  BY <1>1 DEF IInv, RunOK
<1>3. /\ Solid(disk[j], j, finished, gone) /\ disk[j].places = {"live"} /\ old \in Manifests
      /\ Needs(old) \subseteq disk[j].durable /\ j \notin finished
      /\ disk \in Solids(finished, gone) /\ AllSettled(disk)
  BY <1>1, LoadedHas
<1>4. old \in GoodManifests /\ disk \in Stays(disk, j, finished, gone)
  BY <1>3, DirectoryIs DEF Stays
<1>5. Restated(mf, old, "failed", 0) /\ ~old.released
  <2>1. "failed" \in Statuses /\ 0 \in Nat
    BY DEF Statuses
  <2>2. ~old.released
    BY <1>1, <1>4 DEF GoodManifests
  <2> HIDE DEF old
  <2> QED
    BY <1>3, <2>1, <2>2, SetStatus
<1>6. ds = Save(disk, j, mf)
  OBVIOUS
<1> HIDE DEF mf, ds
<1>7. /\ mf \in GoodManifests /\ mf.cps = old.cps /\ mf.released = old.released
      /\ mf.status = "failed"
  <2> HIDE DEF old
  <2>1. mf \in GoodManifests /\ Len(mf.cps) = Len(old.cps)
    BY <1>4, <1>5, RestatedGood
  <2> QED
    BY <1>5, <2>1 DEF Restated
<1>8. Needs(mf) = Needs(old)
  BY <1>7, NeedsSame
<1>9. Fits(mf, disk[j], j, finished)
  BY <1>3, <1>7, <1>8 DEF Fits
<1>10. /\ ds \in Seq(Stays(disk, j, finished, gone)) /\ Len(ds) = 2
       /\ ds[1] \in Stays(disk, j, finished, gone) /\ ds[1][j] = Put(disk[j], mf)
       /\ ds[2] \in Stays(disk, j, finished, gone) /\ ds[2][j].manifest = mf /\ ds[2][j].manifests = {mf}
       /\ ds[2][j].place = disk[j].place /\ ds[2][j].places = disk[j].places
       /\ ds[2][j].files = disk[j].files
       /\ ds[2][j].durable = disk[j].files
  BY <1>3, <1>4, <1>6, <1>9, SaveStays
<1>11. Settled(ds[1][j])
  <2> DEFINE d == disk[j]
             g == Put(d, mf)
  <2>1. GoodDir(d, 0) /\ mf \in GoodManifests /\ Len(mf.cps) >= 0
    <3>1. mf \in AllManifests
      BY <1>7 DEF GoodManifests
    <3> QED
      BY <1>3, <1>7, <3>1, ManifestIs DEF Solid
  <2>2. g = Put(d, mf) /\ d.place = "live" /\ d.places = {"live"}
    BY <1>1, <1>3
  <2>3. ds[1][j] = g
    BY <1>10
  <2> HIDE DEF d, g
  <2>4. /\ GoodDir(g, 0) /\ g.manifest = mf
        /\ g.place = d.place /\ g.places = d.places
        /\ g.files = d.files /\ g.durable = d.durable
    BY <2>1, <2>2, PutIs
  <2> QED
    BY <1>7, <2>2, <2>3, <2>4 DEF Settled
<1>12. Settled(ds[2][j])
  BY <1>1, <1>3, <1>10 DEF Settled
<1>13. disk' \in Stays(disk, j, finished, gone) /\ Settled(disk'[j])
  <2>1. disk' = ds[1] \/ disk' = ds[2]
    BY <1>1, <1>10 DEF Wholly
  <2> QED
    BY <1>10, <1>11, <1>12, <2>1
<1>14. AllSettled(disk') /\ disk' \in Solids(finished', gone') /\ pc' = "idle"
  BY <1>1, <1>2, <1>3, <1>13, OneSettled DEF Stays
<1> QED
  BY <1>14, IdleHolds

(* Open.                                                                   *)
LEMMA OpenHolds ==
  ASSUME SInv, Open
  PROVE  SInv'
BY DEF Open, run, history, SInv, Supplied, AllSettled

(* The store starts out so.                                                *)
LEMMA InitHolds ==
  Init => SInv
<1> SUFFICES ASSUME Init
             PROVE  SInv
  OBVIOUS
<1>1. disk = [j \in Jobs |-> NoDirectory] /\ pc = "idle" /\ finished = {} /\ gone = {}
  BY DEF Init
<1>2. NoDirectory.manifests = {NoDirectory.manifest} /\ NoDirectory.durable = {} /\ NoDirectory.files = {}
      /\ "live" \notin NoDirectory.places /\ NoDirectory.places = {NoDirectory.place}
      /\ GoodDir(NoDirectory, 0)
  <2>1. NoDirectory.manifests = {NoDirectory.manifest}
    BY DEF NoDirectory
  <2>2. NoDirectory.durable = {} /\ NoDirectory.files = {}
    BY DEF NoDirectory
  <2> QED
    BY <2>1, <2>2, NoDirectoryIs
<1>3. \A j \in Jobs : Solid(NoDirectory, j, {}, {}) /\ Settled(NoDirectory)
  BY <1>2 DEF Solid, Backed, Exact, Settled
<1>4. NoDirectory \in Directories
  BY <1>2 DEF GoodDir
<1>5. disk \in Solids(finished, gone) /\ AllSettled(disk)
  BY <1>1, <1>3, <1>4 DEF Solids, AllSettled
<1> QED
  BY <1>1, <1>5 DEF SInv, Supplied

(* Every step of the executor.                                             *)
LEMMA ExecuteHolds ==
  ASSUME Steady, IInv, SInv, ~dying, Execute
  PROVE  SInv'
<1>1. CASE Refuse
  BY <1>1, RefuseHolds
<1>2. CASE Begin
  BY <1>2, BeginHolds
<1>3. CASE Interrupt \/ StageFails \/ Fail
  BY <1>3, EndingHolds
<1>4. CASE NextStage
  BY <1>4, NextStageHolds
<1>5. CASE \E o \in Outputs : StageWrites(o)
  BY <1>5, StageWritesHolds
<1>6. CASE RecordStage \/ End
  BY <1>6, RecordHolds
<1>7. CASE Complete
  BY <1>7, CompleteHolds
<1> QED
  BY <1>1, <1>2, <1>3, <1>4, <1>5, <1>6, <1>7 DEF Execute

(* The invariant of media and endings, where Steady holds of the faults    *)
(* and crashes.                                                            *)
THEOREM SteadyInductive ==
  ASSUME Steady
  PROVE  Spec => []SInv
<1>1. IInv /\ SInv /\ [Next]_vars => SInv'
  <2> SUFFICES ASSUME IInv, SInv, [Next]_vars
               PROVE  SInv'
    OBVIOUS
  <2>1. CASE ~dying /\ Execute
    BY <2>1, ExecuteHolds
  <2>2. CASE Cancel
    BY <2>2, CancelHolds
  <2>3. CASE (~dying /\ Close) \/ Kill \/ PowerLoss
    BY <2>3, CrashHolds
  <2>4. CASE Open
    BY <2>4, OpenHolds
  <2>5. CASE ~dying /\ \E j \in Jobs : Admit(j) \/ ReleaseMedia(j) \/ Delete(j) \/ Recover(j)
    BY <2>5, AdmitHolds, ReleaseMediaHolds, DeleteHolds, RecoverHolds
  <2>6. CASE ~dying /\ \E j \in Jobs, c \in Configs : Create(j, c) \/ Rebind(j, c)
    BY <2>6, CreateHolds, RebindHolds
  <2>7. CASE ~dying /\ \E j \in Jobs, t \in Titles : Rename(j, t)
    BY <2>7, RenameHolds
  <2>8. CASE UNCHANGED vars
    BY <2>8 DEF vars, SInv, Supplied, AllSettled
  <2> QED
    BY <2>1, <2>2, <2>3, <2>4, <2>5, <2>6, <2>7, <2>8 DEF Next
<1> QED
  BY <1>1, InitHolds, StoreInductive, PTL DEF Spec

(* A completion that was acknowledged, and a deletion, survive every       *)
(* restart.                                                                *)
THEOREM EndingsAreFinal ==
  ASSUME Steady
  PROVE  Spec => []EndingsSurvive
<1>1. IInv /\ SInv => EndingsSurvive
  BY DEF IInv, Types, SInv, Solids, Solid, Ended, EndingsSurvive, CompletionSurvives, DeletedStaysGone
<1> QED
  BY <1>1, StoreInductive, SteadyInductive, PTL

(* Whatever manifest a restart finds, the media it needs are there.        *)
THEOREM MediaStayBacked ==
  ASSUME Steady
  PROVE  Spec => []MediaBacked
<1>1. SInv => MediaBacked
  BY DEF SInv, Solids, Solid, Backed, MediaBacked
<1> QED
  BY <1>1, SteadyInductive, PTL
=============================================================================
