----------------------------- MODULE BackupRepo -----------------------------
(***************************************************************************)
(* The life of backups in one kopia repository: backup operations that     *)
(* write an item data snapshot, a details snapshot and a backup model, one *)
(* after the other; the user's deletions; and the garbage collection that  *)
(* complete maintenance runs first.  They share nothing but the manifests  *)
(* of the repository, and any of them may stop between two of its steps.   *)
(*                                                                         *)
(*   operations/backup.go, operations/manifests.go, kopia/base_finder.go,  *)
(*   kopia/cleanup_backups.go, pkg/repository/backups.go                   *)
(***************************************************************************)
EXTENDS Integers, FiniteSets

CONSTANTS
  Backups,     \* the backups that exist or may be attempted
  Legacy,      \* those of them left by a version that kept details as a model
  Reasons,     \* (protected resource, service, category) triples
  Cleaners     \* concurrent maintenance runs

ASSUME LegacyAssumption ==
  /\ Legacy \subseteq Backups
  /\ \A a, b \in Legacy : a = b

Part == {"data", "deets", "model"}
Kind == {"none", "merge", "assist", "preview"}
Items == Backups \X Part

Data(b)  == <<b, "data">>    \* the item data snapshot's manifest
Deets(b) == <<b, "deets">>   \* the details snapshot (a model for Legacy)
Model(b) == <<b, "model">>   \* the backup model
Parts(b) == {Data(b), Deets(b), Model(b)}

VARIABLES
  clock,    \* the number of manifests written
  horizon,  \* the first so many of them are older than now - buffer
  present,  \* the manifests in the repository
  stamp,    \* [Items -> Nat], the position of a manifest in time
  pc,       \* [Backups -> the next step of the backup operation]
  reasons,  \* [Backups -> SUBSET Reasons], what the backup covers
  kind,     \* [Backups -> Kind], the type tag of the backup model
  base,     \* [Backups -> the bases chosen when the operation started]
  doomed,   \* backups a user's deletion has looked up and not deleted yet
  gc        \* [Cleaners -> what each garbage collection has read]

vars == <<clock, horizon, present, stamp, pc, reasons, kind, base, doomed, gc>>

NoBases == [merge |-> {}, assist |-> {}]
IdleGC  == [pc |-> "idle", cutoff |-> 0, data |-> {}, deets |-> {},
            listed |-> {}, unread |-> {}, complete |-> {}]

(* A complete backup: what a restore needs, and what FindBases requires.   *)
Whole(b) == Parts(b) \subseteq present

Active(b) == pc[b] \notin {"idle", "done", "failed"}

-----------------------------------------------------------------------------
(* Base selection.  For one reason, manifests are visited from the newest  *)
(* to the oldest item data snapshot; those without a model are skipped.    *)

Candidates(r) == {b \in Backups : /\ {Data(b), Model(b)} \subseteq present
                                  /\ r \in reasons[b]}

Newer(a, b) == stamp[Data(a)] > stamp[Data(b)]

(* The newest merge backup for the reason, as a set of at most one.        *)
MergeBaseFor(r) ==
  {b \in Candidates(r) :
     /\ kind[b] = "merge"
     /\ \A a \in Candidates(r) : kind[a] = "merge" => ~Newer(a, b)}

(* The newest assist backup, if it is visited before the merge base.       *)
AssistBaseFor(r) ==
  {b \in Candidates(r) :
     /\ kind[b] = "assist"
     /\ \A a \in Candidates(r) : kind[a] \in {"merge", "assist"} => ~Newer(a, b)}

FindBases(R) == [merge  |-> UNION {MergeBaseFor(r) : r \in R},
                 assist |-> UNION {AssistBaseFor(r) : r \in R}]

(* DisableMergeBases turns merge bases into assist bases, and it comes     *)
(* before DisableAssistBases, which hides every assist base.               *)
Usable(found, incremental, useAssist) ==
  LET merge  == IF incremental THEN found.merge ELSE {}
      assist == IF incremental THEN found.assist
                ELSE found.assist \cup found.merge
  IN  [merge |-> merge, assist |-> IF useAssist THEN assist ELSE {}]

-----------------------------------------------------------------------------
(* A backup operation.                                                     *)

GoTo(b, label) == pc' = [pc EXCEPT ![b] = label]

(* The repository gains one manifest, younger than all others.             *)
Write(item) ==
  /\ clock' = clock + 1
  /\ present' = present \cup {item}
  /\ stamp' = [stamp EXCEPT ![item] = clock + 1]
  /\ UNCHANGED horizon

(* produceManifestsAndMetadata: look for bases, drop what the options drop.*)
StartBackup(b, R) ==
  /\ pc[b] = "idle"
  /\ \E incremental, useAssist \in BOOLEAN :
       base' = [base EXCEPT ![b] = Usable(FindBases(R), incremental, useAssist)]
  /\ reasons' = [reasons EXCEPT ![b] = R]
  /\ GoTo(b, "metadata")
  /\ UNCHANGED <<clock, horizon, present, stamp, kind, doomed, gc>>

(* The metadata of every merge base is read out of its data snapshot; one  *)
(* that is gone by now fails the operation.                                *)
ReadMetadata(b) ==
  /\ pc[b] = "metadata"
  /\ \A m \in base[b].merge : Data(m) \in present
  /\ GoTo(b, "upload")
  /\ UNCHANGED <<clock, horizon, present, stamp, reasons, kind, base, doomed, gc>>

(* consumeBackupCollections: the item data snapshot is saved.              *)
Upload(b) ==
  /\ pc[b] = "upload"
  /\ Write(Data(b))
  /\ GoTo(b, "merge")
  /\ UNCHANGED <<reasons, kind, base, doomed, gc>>

(* mergeDetails: nothing to merge, or the details of every base are read,  *)
(* and one that is gone fails the operation.                               *)
MergeDetails(b) ==
  /\ pc[b] = "merge"
  /\ \E itemsToMerge \in BOOLEAN :
       GoTo(b, IF itemsToMerge =>
                    \A m \in base[b].merge \cup base[b].assist : Deets(m) \in present
               THEN "details" ELSE "failed")
  /\ base' = [base EXCEPT ![b] = NoBases]
  /\ UNCHANGED <<clock, horizon, present, stamp, reasons, kind, doomed, gc>>

(* What the comment on cleanupOrphanedData asks of the buffer: it is longer*)
(* than the time between the first and the last manifest of an operation.  *)
InTime(b) == stamp[Data(b)] > horizon

(* createBackupModels: the details snapshot is written, ...                *)
WriteDetails(b) ==
  /\ pc[b] = "details"
  /\ InTime(b)
  /\ Write(Deets(b))
  /\ GoTo(b, "model")
  /\ UNCHANGED <<reasons, kind, base, doomed, gc>>

(* ... and the backup model last, with the tag its errors allow.           *)
PutModel(b) ==
  /\ pc[b] = "model"
  /\ InTime(b)
  /\ Write(Model(b))
  /\ \E k \in Kind \ {"none"} : kind' = [kind EXCEPT ![b] = k]
  /\ GoTo(b, "done")
  /\ UNCHANGED <<reasons, base, doomed, gc>>

(* An error or the end of the process: nothing already written is undone.  *)
FailBackup(b) ==
  /\ Active(b)
  /\ GoTo(b, "failed")
  /\ base' = [base EXCEPT ![b] = NoBases]
  /\ UNCHANGED <<clock, horizon, present, stamp, reasons, kind, doomed, gc>>

-----------------------------------------------------------------------------
(* deleteBackups: every model is looked up first, then all the parts of    *)
(* all of them go in one atomic batch; missing parts are no error.         *)

LookUpForDelete(b) ==
  /\ Model(b) \in present
  /\ doomed' = doomed \cup {b}
  /\ UNCHANGED <<clock, horizon, present, stamp, pc, reasons, kind, base, gc>>

(* Mutant: the model is forgotten.                                         *)
CommitDelete_KeepsModel ==
  /\ doomed # {}
  /\ present' = present \ UNION {{Data(b), Deets(b)} : b \in doomed}
  /\ doomed' = {}
  /\ UNCHANGED <<clock, horizon, stamp, pc, reasons, kind, base, gc>>

CommitDelete ==
  /\ doomed # {}
  /\ present' = present \ UNION {Parts(b) : b \in doomed}
  /\ doomed' = {}
  /\ UNCHANGED <<clock, horizon, stamp, pc, reasons, kind, base, gc>>

(* A backup that cannot be found fails the whole deletion.                 *)
AbortDelete ==
  /\ doomed # {}
  /\ doomed' = {}
  /\ UNCHANGED <<clock, horizon, present, stamp, pc, reasons, kind, base, gc>>

-----------------------------------------------------------------------------
(* cleanupOrphanedData, one step per call to the repository.               *)

Old(item, cutoff) == stamp[item] <= cutoff

Expired(item, cutoff) == item \in present /\ Old(item, cutoff)

(* Mutant: details snapshots are listed whatever their age.                *)
ListSnapshots_AnyAge(c) ==
  /\ gc[c].pc = "idle"
  /\ gc' = [gc EXCEPT ![c] =
       [IdleGC EXCEPT !.pc = "legacy",
                      !.cutoff = horizon,
                      !.data = {b \in Backups : Expired(Data(b), horizon)},
                      !.deets = {b \in Backups \ Legacy : Deets(b) \in present}]]
  /\ UNCHANGED <<clock, horizon, present, stamp, pc, reasons, kind, base, doomed>>

ListSnapshots(c) ==
  /\ gc[c].pc = "idle"
  /\ gc' = [gc EXCEPT ![c] =
       [IdleGC EXCEPT !.pc = "legacy",
                      !.cutoff = horizon,
                      !.data = {b \in Backups : Expired(Data(b), horizon)},
                      !.deets = {b \in Backups \ Legacy : Expired(Deets(b), horizon)}]]
  /\ UNCHANGED <<clock, horizon, present, stamp, pc, reasons, kind, base, doomed>>

(* Mutant: the details models of old versions are not listed.              *)
ListDetailsModels_Skipped(c) ==
  /\ gc[c].pc = "legacy"
  /\ gc' = [gc EXCEPT ![c].pc = "models"]
  /\ UNCHANGED <<clock, horizon, present, stamp, pc, reasons, kind, base, doomed>>

ListDetailsModels(c) ==
  /\ gc[c].pc = "legacy"
  /\ LET older == {b \in Legacy : Expired(Deets(b), gc[c].cutoff)}
     IN  gc' = [gc EXCEPT ![c] = [gc[c] EXCEPT !.pc = "models", !.deets = @ \cup older]]
  /\ UNCHANGED <<clock, horizon, present, stamp, pc, reasons, kind, base, doomed>>

ListBackupModels(c) ==
  /\ gc[c].pc = "models"
  /\ LET older == {b \in Backups : Expired(Model(b), gc[c].cutoff)}
     IN  gc' = [gc EXCEPT ![c] =
                 [gc[c] EXCEPT !.pc = "read", !.listed = older, !.unread = older]]
  /\ UNCHANGED <<clock, horizon, present, stamp, pc, reasons, kind, base, doomed>>

(* A model that is gone by now is skipped, and so are its old parts; one   *)
(* whose two other parts were listed as old is a complete backup.          *)
ReadBackupModel(c, b) ==
  /\ gc[c].pc = "read"
  /\ b \in gc[c].unread
  /\ LET found == {x \in {b} : Model(x) \in present /\ x \in gc[c].data \cap gc[c].deets}
     IN  gc' = [gc EXCEPT ![c] =
                 [gc[c] EXCEPT !.unread = @ \ {b}, !.complete = @ \cup found]]
  /\ UNCHANGED <<clock, horizon, present, stamp, pc, reasons, kind, base, doomed>>

Created(b) == stamp[Model(b)]

(* Any complete backup that is not an assist backup counts as a merge base.*)
Superseded(b, r, complete) ==
  \E a \in complete : /\ r \in reasons[a]
                      /\ Created(a) > Created(b)

(* Mutant: any superseded backup is collected.                             *)
OldAssists_AnyKind(complete) ==
  {b \in complete : \A r \in reasons[b] : Superseded(b, r, complete)}

(* Mutant: being superseded for one reason is enough.                      *)
OldAssists_OneReason(complete) ==
  {b \in complete : /\ kind[b] = "assist"
                    /\ \E r \in reasons[b] : Superseded(b, r, complete)}

(* collectOldAssistBases: an assist backup stays while it is the youngest  *)
(* for one of its reasons and no merge base of that reason is younger.     *)
OldAssists(complete) ==
  {b \in complete : /\ kind[b] = "assist"
                    /\ \A r \in reasons[b] : Superseded(b, r, complete)}

Garbage(g) ==
  LET keep == UNION {Parts(b) : b \in g.complete}
      old  == {Data(b) : b \in g.data} \cup {Deets(b) : b \in g.deets}
                \cup {Model(b) : b \in g.listed}
  IN  (old \ keep) \cup UNION {Parts(b) : b \in OldAssists(g.complete)}

(* One atomic batch.                                                       *)
Sweep(c) ==
  /\ gc[c].pc = "read"
  /\ gc[c].unread = {}
  /\ present' = present \ Garbage(gc[c])
  /\ gc' = [gc EXCEPT ![c] = IdleGC]
  /\ UNCHANGED <<clock, horizon, stamp, pc, reasons, kind, base, doomed>>

(* An error of any call, or the end of the process.                        *)
AbortCleanup(c) ==
  /\ gc[c].pc # "idle"
  /\ gc' = [gc EXCEPT ![c] = IdleGC]
  /\ UNCHANGED <<clock, horizon, present, stamp, pc, reasons, kind, base, doomed>>

(* Mutant: the cutoff may lie in the future.                               *)
Age_Unbounded ==
  /\ horizon <= clock
  /\ horizon' = horizon + 1
  /\ UNCHANGED <<clock, present, stamp, pc, reasons, kind, base, doomed, gc>>

(* Time passes: one more manifest is older than the buffer.                *)
Age ==
  /\ horizon < clock
  /\ horizon' = horizon + 1
  /\ UNCHANGED <<clock, present, stamp, pc, reasons, kind, base, doomed, gc>>

-----------------------------------------------------------------------------
(* What a legacy version left behind may be complete or not.               *)
Init ==
  /\ clock = 0
  /\ horizon = 0
  /\ present \in SUBSET UNION {Parts(b) : b \in Legacy}
  /\ stamp = [i \in Items |-> 0]
  /\ pc = [b \in Backups |-> IF b \in Legacy THEN "done" ELSE "idle"]
  /\ reasons = [b \in Backups |-> IF b \in Legacy THEN Reasons ELSE {}]
  /\ kind = [b \in Backups |-> IF b \in Legacy THEN "merge" ELSE "none"]
  /\ base = [b \in Backups |-> NoBases]
  /\ doomed = {}
  /\ gc = [c \in Cleaners |-> IdleGC]

Operation(b) ==
  \/ \E R \in SUBSET Reasons \ {{}} : StartBackup(b, R)
  \/ ReadMetadata(b)
  \/ Upload(b)
  \/ MergeDetails(b)
  \/ WriteDetails(b)
  \/ PutModel(b)
  \/ FailBackup(b)

Deletion ==
  \/ \E b \in Backups : LookUpForDelete(b)
  \/ CommitDelete
  \/ AbortDelete

(* A cleanup that has begun.                                               *)
Collection(c) ==
  \/ ListDetailsModels(c)
  \/ ListBackupModels(c)
  \/ \E b \in Backups : ReadBackupModel(c, b)
  \/ Sweep(c)

Next ==
  \/ \E b \in Backups : Operation(b)
  \/ Deletion
  \/ \E c \in Cleaners : ListSnapshots(c) \/ Collection(c) \/ AbortCleanup(c)
  \/ Age

Spec == Init /\ [][Next]_vars

(* A backup straddles the cutoff when only some of its parts are old.      *)
Straddles(b) ==
  Model(b) \in present /\ Old(Data(b), horizon) /\ ~Old(Model(b), horizon)

(* The discipline under which garbage collection is safe: maintenance      *)
(* starts only when its cutoff falls inside no backup.  The code does not  *)
(* impose it; run straddle shows what happens without it.                  *)
CalmListSnapshots(c) ==
  /\ \A b \in Backups : ~Straddles(b)
  /\ ListSnapshots(c)

CalmNext ==
  \/ \E b \in Backups : Operation(b)
  \/ Deletion
  \/ \E c \in Cleaners : CalmListSnapshots(c) \/ Collection(c) \/ AbortCleanup(c)
  \/ Age

CalmSpec == Init /\ [][CalmNext]_vars

(* Time passes, and maintenance is run again and again and succeeds.       *)
ReliableNext ==
  \/ \E b \in Backups : Operation(b)
  \/ Deletion
  \/ \E c \in Cleaners : CalmListSnapshots(c) \/ Collection(c)
  \/ Age

FairSpec ==
  /\ Init /\ [][ReliableNext]_vars
  /\ WF_vars(Age)
  /\ \A c \in Cleaners : WF_vars(CalmListSnapshots(c)) /\ WF_vars(Collection(c))

-----------------------------------------------------------------------------
(* Properties.                                                             *)

GCRecord == [pc : {"idle", "legacy", "models", "read"}, cutoff : Nat,
             data : SUBSET Backups, deets : SUBSET Backups,
             listed : SUBSET Backups, unread : SUBSET Backups,
             complete : SUBSET Backups]

(* Every variable has its type.                                            *)
TypeOK ==
  /\ clock \in Nat
  /\ horizon \in 0..clock
  /\ present \subseteq Items
  /\ stamp \in [Items -> Nat]
  /\ pc \in [Backups -> {"idle", "metadata", "upload", "merge", "details",
                        "model", "done", "failed"}]
  /\ reasons \in [Backups -> SUBSET Reasons]
  /\ kind \in [Backups -> Kind]
  /\ base \in [Backups -> [merge : SUBSET Backups, assist : SUBSET Backups]]
  /\ doomed \subseteq Backups
  /\ gc \in [Cleaners -> GCRecord]

(* A backup that is listed (its model exists) can be restored: its data    *)
(* and details are there, whatever deletions, collections and failing      *)
(* operations ran in between.                                              *)
NoDanglingModel ==
  \A b \in Backups \ Legacy : Model(b) \in present => Whole(b)

(* The files of an operation that is about to write its model are never    *)
(* collected under it (comment on the buffer, cleanup_backups.go:35).      *)
InFlightIsKept ==
  \A b \in Backups :
    /\ pc[b] \in {"merge", "details", "model"} /\ InTime(b) => Data(b) \in present
    /\ pc[b] = "model" /\ InTime(b) => Deets(b) \in present

(* The complete merge base that the next backup would find for a reason is *)
(* still the one after a collection, also when operations overlap.         *)
SweepKeepsMergeBase ==
  [][\A c \in Cleaners : Sweep(c) =>
       \A r \in Reasons : \A b \in MergeBaseFor(r) :
         Whole(b) => b \in MergeBaseFor(r)']_vars

(* Operations that do not overlap: one ended before the other wrote.       *)
Sequential ==
  \A a, b \in {x \in Backups : Whole(x)} :
    a # b => Created(a) < stamp[Data(b)] \/ Created(b) < stamp[Data(a)]

(* What a collection has read is still there.                              *)
Current(c) == \A b \in gc[c].complete : Whole(b)

(* The assist base that the next backup would find survives a collection:  *)
(* base finding (by snapshot time) and collection (by creation time) agree *)
(* on which assist backups are of no more use.                             *)
KeepsAssistBase(c) ==
  Sweep(c) /\ Sequential /\ Current(c) =>
    \A r \in Reasons : \A b \in AssistBaseFor(r) :
      Whole(b) => b \in AssistBaseFor(r)'

NoPreview(c) == \A b \in gc[c].complete : kind[b] # "preview"

(* Without preview backups they do; run preview shows the others.     *)
SweepKeepsAssistBase ==
  [][\A c \in Cleaners : NoPreview(c) => KeepsAssistBase(c)]_vars

(* "Only remove the youngest assist base from the deletion set if we don't *)
(* have a merge base that's younger" (cleanup_backups.go:436): a preview   *)
(* backup, which is never a base, should make no difference.               *)
SweepKeepsAssistBaseDespitePreviews ==
  [][\A c \in Cleaners : KeepsAssistBase(c)]_vars

(* "deletes items that are older than the cutoff that are not complete     *)
(* backups" (cleanup_backups.go:28): a complete backup that is not an      *)
(* assist backup loses nothing to a collection.                            *)
SweepSparesCompleteBackups ==
  [][\A c \in Cleaners : Sweep(c) =>
       \A b \in Backups : Whole(b) /\ kind[b] # "assist" => Whole(b)']_vars

(* Refinement mapping: the catalog shows the whole backups.                *)
Shown(b) ==
  IF Whole(b) THEN kind[b]
  ELSE IF b \in Legacy \/ pc[b] = "done" THEN "removed" ELSE "absent"

Catalog == INSTANCE BackupCatalog WITH
  catalog <- [b \in Backups |-> Shown(b)],
  requested <- doomed

(* Backups appear whole, and go whole, at the user's request or as assist  *)
(* backups.                                                                *)
ImplementsCatalog == Catalog!Spec

(* Whatever is not a complete backup, and no operation is working on, is   *)
(* gone in the end: no manifest leaks.                                     *)
OrphansCollected ==
  \A b \in Backups :
    ~Active(b) /\ ~Whole(b) ~> Parts(b) \cap present = {} \/ Active(b)

-----------------------------------------------------------------------------
(* The inductive invariant behind NoDanglingModel and ImplementsCatalog.   *)

(* What an operation has written by each of its steps, and in which order. *)
StagesOK ==
  /\ \A i \in Items : stamp[i] <= clock
  /\ \A b \in Legacy : pc[b] = "done" /\ \A i \in Parts(b) : stamp[i] = 0
  /\ \A b \in Backups \ Legacy :
       /\ pc[b] \in {"idle", "metadata", "upload"} => Data(b) \notin present
       /\ pc[b] \notin {"model", "failed", "done"} => Deets(b) \notin present
       /\ pc[b] # "done" => Model(b) \notin present
       /\ pc[b] \in {"model", "done"} => stamp[Data(b)] < stamp[Deets(b)]
       /\ pc[b] = "done" => stamp[Deets(b)] < stamp[Model(b)]
  /\ \A b \in Backups : pc[b] = "done" => kind[b] \in {"merge", "assist", "preview"}
  /\ \A b \in doomed : pc[b] = "done"

(* What a collection has read is old, and was written when it was read.    *)
ReadingOK(g) ==
  /\ g.cutoff <= horizon
  /\ \A b \in g.data : /\ Old(Data(b), g.cutoff)
                       /\ pc[b] \notin {"idle", "metadata", "upload"}
  /\ \A b \in g.deets : /\ Old(Deets(b), g.cutoff)
                        /\ pc[b] \in {"model", "failed", "done"}
  /\ \A b \in g.listed : Old(Model(b), g.cutoff) /\ pc[b] = "done"
  /\ g.unread \subseteq g.listed
  /\ g.complete \subseteq g.data \cap g.deets \cap g.listed
  /\ g.pc # "read" => g.complete = {}

(* A backup of which a collection knows a part is wholly known to it.      *)
KnownWhole(g, b) ==
  /\ Old(Model(b), g.cutoff)
  /\ b \in g.data
  /\ b \in g.deets \/ (b \in Legacy /\ g.pc = "legacy")
  /\ g.pc = "read" => b \in g.unread \cup g.complete

KnowsAllOrNothing(g, b) ==
  /\ g.pc # "idle"
  /\ Whole(b)
  /\ b \in g.data \cup g.deets \/ Old(Model(b), g.cutoff)
  => KnownWhole(g, b)

ReadingsOK == \A c \in Cleaners : ReadingOK(gc[c])

CollectionsOK == \A c \in Cleaners, b \in Backups : KnowsAllOrNothing(gc[c], b)

Inv ==
  /\ TypeOK
  /\ StagesOK
  /\ NoDanglingModel
  /\ InFlightIsKept
  /\ ReadingsOK
  /\ CollectionsOK
=============================================================================
