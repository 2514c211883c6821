-------------------------- MODULE BackupRepo_proofs --------------------------
(***************************************************************************)
(* Proofs about BackupRepo, for every set of backups, reasons and          *)
(* cleaners: its types, that no listed backup misses a part, and that it   *)
(* implements BackupCatalog when maintenance is calm.                      *)
(***************************************************************************)
EXTENDS BackupRepo, TLAPS

(* The parts of backups are distinct manifests.                            *)
LEMMA ItemFacts ==
  ASSUME NEW a \in Backups, NEW b \in Backups
  PROVE  /\ {Data(a), Deets(a), Model(a)} \subseteq Items
         /\ Data(a) # Deets(b) /\ Data(a) # Model(b) /\ Deets(a) # Model(b)
         /\ Data(a) = Data(b) => a = b
         /\ Deets(a) = Deets(b) => a = b
         /\ Model(a) = Model(b) => a = b
BY DEF Items, Part, Data, Deets, Model

LEMMA PartsAreItems ==
  ASSUME NEW S \in SUBSET Backups
  PROVE  UNION {Parts(b) : b \in S} \subseteq Items
BY ItemFacts DEF Parts

LEMMA IdleTyped == IdleGC \in GCRecord
BY DEF IdleGC, GCRecord

LEMMA InitTyped == Init => TypeOK
<1> SUFFICES ASSUME Init PROVE TypeOK
  OBVIOUS
<1>1. present \subseteq Items
  BY PartsAreItems, LegacyAssumption DEF Init
<1>2. base \in [Backups -> [merge : SUBSET Backups, assist : SUBSET Backups]]
  BY DEF Init, NoBases
<1>3. gc \in [Cleaners -> GCRecord]
  BY IdleTyped DEF Init
<1> QED
  BY <1>1, <1>2, <1>3 DEF Init, TypeOK, Kind

LEMMA BasesTyped ==
  ASSUME NEW R \in SUBSET Reasons, NEW i \in BOOLEAN, NEW u \in BOOLEAN
  PROVE  Usable(FindBases(R), i, u) \in
           [merge : SUBSET Backups, assist : SUBSET Backups]
BY DEF Usable, FindBases, MergeBaseFor, AssistBaseFor, Candidates

LEMMA WriteTyped ==
  ASSUME TypeOK, NEW item \in Items, Write(item)
  PROVE  /\ clock' \in Nat
         /\ horizon' \in 0..clock'
         /\ present' \subseteq Items
         /\ stamp' \in [Items -> Nat]
BY DEF TypeOK, Write

LEMMA OperationTyped ==
  ASSUME TypeOK, NEW b \in Backups, Operation(b)
  PROVE  TypeOK'
<1> USE DEF TypeOK, GoTo
<1>1. ASSUME NEW R \in SUBSET Reasons \ {{}}, StartBackup(b, R) PROVE TypeOK'
  BY <1>1, BasesTyped DEF StartBackup
<1>2. CASE ReadMetadata(b)
  BY <1>2 DEF ReadMetadata
<1>3. CASE Upload(b)
  BY <1>3, ItemFacts, WriteTyped DEF Upload
<1>4. CASE MergeDetails(b)
  BY <1>4 DEF MergeDetails, NoBases
<1>5. CASE WriteDetails(b)
  BY <1>5, ItemFacts, WriteTyped DEF WriteDetails
<1>6. CASE PutModel(b)
  BY <1>6, ItemFacts, WriteTyped DEF PutModel
<1>7. CASE FailBackup(b)
  BY <1>7 DEF FailBackup, NoBases
<1> QED
  BY <1>1, <1>2, <1>3, <1>4, <1>5, <1>6, <1>7 DEF Operation

LEMMA DeletionTyped ==
  ASSUME TypeOK, Deletion
  PROVE  TypeOK'
BY DEF TypeOK, Deletion, LookUpForDelete, CommitDelete, AbortDelete

(* The records a cleaner steps through.                                    *)
LEMMA RecordTyped ==
  ASSUME NEW g \in GCRecord, NEW S \in SUBSET Backups, NEW T \in SUBSET Backups,
         NEW n \in Nat
  PROVE  /\ [IdleGC EXCEPT !.pc = "legacy", !.cutoff = n, !.data = S, !.deets = T]
              \in GCRecord
         /\ [g EXCEPT !.pc = "models", !.deets = @ \cup S] \in GCRecord
         /\ [g EXCEPT !.pc = "read", !.listed = S, !.unread = S] \in GCRecord
         /\ [g EXCEPT !.unread = @ \ S, !.complete = @ \cup T] \in GCRecord
<1>1. [IdleGC EXCEPT !.pc = "legacy", !.cutoff = n, !.data = S, !.deets = T] \in GCRecord
  BY DEF IdleGC, GCRecord
<1>2. [g EXCEPT !.pc = "models", !.deets = @ \cup S] \in GCRecord
  BY DEF GCRecord
<1>3. [g EXCEPT !.pc = "read", !.listed = S, !.unread = S] \in GCRecord
  BY DEF GCRecord
<1>4. [g EXCEPT !.unread = @ \ S, !.complete = @ \cup T] \in GCRecord
  BY DEF GCRecord
<1> QED
  BY <1>1, <1>2, <1>3, <1>4

(* A step of one cleaner that leaves the rest alone.                       *)
LEMMA CleanerTyped ==
  ASSUME TypeOK, NEW c \in Cleaners, NEW r \in GCRecord,
         gc' = [gc EXCEPT ![c] = r],
         UNCHANGED <<clock, horizon, stamp, pc, reasons, kind, base, doomed>>,
         present' \subseteq present
  PROVE  TypeOK'
BY DEF TypeOK

LEMMA CleanupTyped ==
  ASSUME TypeOK, NEW c \in Cleaners,
         ListSnapshots(c) \/ Collection(c) \/ AbortCleanup(c)
  PROVE  TypeOK'
<1> DEFINE g == gc[c]
<1> g \in GCRecord
  BY DEF TypeOK
<1>1. CASE ListSnapshots(c)
  <2> DEFINE S == {b \in Backups : Expired(Data(b), horizon)}
             T == {b \in Backups \ Legacy : Expired(Deets(b), horizon)}
             r == [IdleGC EXCEPT !.pc = "legacy", !.cutoff = horizon,
                                 !.data = S, !.deets = T]
  <2>1. S \subseteq Backups /\ T \subseteq Backups /\ horizon \in Nat
    BY DEF TypeOK
  <2>2. r \in GCRecord
    <3> HIDE DEF S, T
    <3> QED
      BY <2>1, RecordTyped, Zenon
  <2>3. gc' = [gc EXCEPT ![c] = r]
    BY <1>1, Zenon DEF ListSnapshots
  <2> QED
    BY <1>1, <2>2, <2>3, CleanerTyped DEF ListSnapshots
<1>2. CASE ListDetailsModels(c)
  <2> DEFINE older == {b \in Legacy : Expired(Deets(b), g.cutoff)}
             r == [g EXCEPT !.pc = "models", !.deets = @ \cup older]
  <2>1. older \subseteq Backups
    BY LegacyAssumption
  <2>2. r \in GCRecord
    BY <2>1 DEF GCRecord
  <2>3. gc' = [gc EXCEPT ![c] = r]
    BY <1>2, Zenon DEF ListDetailsModels
  <2> QED
    BY <1>2, <2>2, <2>3, CleanerTyped DEF ListDetailsModels
<1>3. CASE ListBackupModels(c)
  <2> DEFINE older == {b \in Backups : Expired(Model(b), g.cutoff)}
             r == [g EXCEPT !.pc = "read", !.listed = older, !.unread = older]
  <2>1. r \in GCRecord
    BY DEF GCRecord
  <2>2. gc' = [gc EXCEPT ![c] = r]
    BY <1>3, Zenon DEF ListBackupModels
  <2> QED
    BY <1>3, <2>1, <2>2, CleanerTyped DEF ListBackupModels
<1>4. ASSUME NEW b \in Backups, ReadBackupModel(c, b) PROVE TypeOK'
  <2> DEFINE found == {x \in {b} : Model(x) \in present /\ x \in g.data \cap g.deets}
             r == [g EXCEPT !.unread = @ \ {b}, !.complete = @ \cup found]
  <2>1. r \in GCRecord
    BY DEF GCRecord
  <2>2. gc' = [gc EXCEPT ![c] = r]
    BY <1>4, Zenon DEF ReadBackupModel
  <2> QED
    BY <1>4, <2>1, <2>2, CleanerTyped DEF ReadBackupModel
<1>5. CASE Sweep(c)
  BY <1>5, IdleTyped, CleanerTyped DEF Sweep
<1>6. CASE AbortCleanup(c)
  BY <1>6, IdleTyped, CleanerTyped DEF AbortCleanup
<1> QED
  BY <1>1, <1>2, <1>3, <1>4, <1>5, <1>6 DEF Collection

LEMMA NextTyped == TypeOK /\ [Next]_vars => TypeOK'
<1> SUFFICES ASSUME TypeOK, [Next]_vars PROVE TypeOK'
  OBVIOUS
<1>1. CASE Age
  BY <1>1 DEF Age, TypeOK
<1>2. CASE UNCHANGED vars
  BY <1>2 DEF vars, TypeOK
<1> QED
  BY <1>1, <1>2, OperationTyped, DeletionTyped, CleanupTyped DEF Next

(* The variables keep their types in every behaviour, calm or not.         *)
THEOREM TypeCorrect == Spec => []TypeOK
BY InitTyped, NextTyped, PTL DEF Spec

-----------------------------------------------------------------------------
(* The inductive invariant.                                                *)

LEMMA InitInv == Init => Inv
<1> SUFFICES ASSUME Init PROVE Inv
  OBVIOUS
<1>1. TypeOK
  BY InitTyped
<1>2. StagesOK
  BY ItemFacts, PartsAreItems, LegacyAssumption DEF Init, StagesOK, Parts
<1>3. NoDanglingModel /\ InFlightIsKept
  BY ItemFacts, LegacyAssumption DEF Init, NoDanglingModel, InFlightIsKept, Parts
<1>4. ReadingsOK /\ CollectionsOK
  BY DEF Init, ReadingsOK, ReadingOK, CollectionsOK, KnowsAllOrNothing, IdleGC
<1> QED
  BY <1>1, <1>2, <1>3, <1>4 DEF Inv

(* A step of an operation that writes nothing.                             *)
LEMMA QuietInv ==
  ASSUME Inv, TypeOK', NEW b \in Backups, NEW label,
         pc' = [pc EXCEPT ![b] = label],
         \/ pc[b] = "idle" /\ label = "metadata"
         \/ pc[b] = "metadata" /\ label = "upload"
         \/ pc[b] = "merge" /\ label = "details"
         \/ Active(b) /\ label = "failed",
         UNCHANGED <<clock, horizon, present, stamp, kind, doomed, gc>>
  PROVE  Inv'
<1> USE DEF Inv, TypeOK, Active
<1>1. StagesOK'
  BY LegacyAssumption DEF StagesOK, Parts
<1>2. NoDanglingModel' /\ InFlightIsKept'
  BY DEF NoDanglingModel, InFlightIsKept, InTime, Whole, Parts, StagesOK
<1>3. ReadingsOK'
  BY DEF ReadingsOK, ReadingOK, Old
<1>4. CollectionsOK'
  BY DEF CollectionsOK, KnowsAllOrNothing, KnownWhole, Old, Whole, Parts
<1> QED
  BY <1>1, <1>2, <1>3, <1>4

LEMMA UploadInv ==
  ASSUME Inv, TypeOK', NEW b \in Backups, Upload(b)
  PROVE  Inv'
<1> USE DEF Inv, TypeOK, Upload, GoTo, Write
<1>1. b \notin Legacy
  BY DEF StagesOK
<1>2. StagesOK'
  BY <1>1, ItemFacts, LegacyAssumption DEF StagesOK, Parts
<1>3. NoDanglingModel' /\ InFlightIsKept'
  BY <1>1, ItemFacts DEF NoDanglingModel, InFlightIsKept, InTime, Whole, Parts, StagesOK
<1>4. ReadingsOK'
  BY ItemFacts DEF ReadingsOK, ReadingOK, Old, GCRecord
<1>5. CollectionsOK'
  BY <1>1, ItemFacts DEF CollectionsOK, KnowsAllOrNothing, KnownWhole, Old, Whole, Parts, StagesOK
<1> QED
  BY <1>2, <1>3, <1>4, <1>5

LEMMA WriteDetailsInv ==
  ASSUME Inv, TypeOK', NEW b \in Backups, WriteDetails(b)
  PROVE  Inv'
<1> USE DEF Inv, TypeOK, WriteDetails, GoTo, Write
<1>1. b \notin Legacy
  BY DEF StagesOK
<1>2. StagesOK'
  BY <1>1, ItemFacts, LegacyAssumption DEF StagesOK, Parts
<1>3. NoDanglingModel' /\ InFlightIsKept'
  BY <1>1, ItemFacts DEF NoDanglingModel, InFlightIsKept, InTime, Whole, Parts, StagesOK
<1>4. ReadingsOK'
  BY ItemFacts DEF ReadingsOK, ReadingOK, Old, GCRecord
<1>5. CollectionsOK'
  BY <1>1, ItemFacts DEF CollectionsOK, KnowsAllOrNothing, KnownWhole, Old, Whole, Parts, StagesOK
<1> QED
  BY <1>2, <1>3, <1>4, <1>5

(* The model of an operation in time is younger than every cutoff in use,  *)
(* and so is its data snapshot: no collection knows a part of the backup.  *)
LEMMA PutModelInv ==
  ASSUME Inv, TypeOK', NEW b \in Backups, PutModel(b)
  PROVE  Inv'
<1> USE DEF Inv, TypeOK, PutModel, GoTo, Write
<1>1. b \notin Legacy
  BY DEF StagesOK
<1>2. StagesOK'
  BY <1>1, ItemFacts, LegacyAssumption DEF StagesOK, Parts, Kind
<1>3. NoDanglingModel' /\ InFlightIsKept'
  BY <1>1, ItemFacts DEF NoDanglingModel, InFlightIsKept, InTime, Whole, Parts, StagesOK
<1>4. ReadingsOK'
  BY ItemFacts DEF ReadingsOK, ReadingOK, Old, GCRecord
<1>5. CollectionsOK'
  BY <1>1, ItemFacts
     DEF CollectionsOK, KnowsAllOrNothing, KnownWhole, Old, Whole, Parts, StagesOK, ReadingsOK, ReadingOK, InTime, GCRecord
<1> QED
  BY <1>2, <1>3, <1>4, <1>5

(* An operation's step, whichever it is.                                   *)
LEMMA OperationInv ==
  ASSUME Inv, NEW b \in Backups, Operation(b)
  PROVE  Inv'
<1>1. TypeOK'
  BY OperationTyped DEF Inv
<1>2. ASSUME NEW R \in SUBSET Reasons \ {{}}, StartBackup(b, R) PROVE Inv'
  BY <1>1, <1>2, QuietInv DEF StartBackup, GoTo
<1>3. CASE ReadMetadata(b)
  BY <1>1, <1>3, QuietInv DEF ReadMetadata, GoTo
<1>4. CASE MergeDetails(b)
  <2>1. PICK label \in {"details", "failed"} : pc' = [pc EXCEPT ![b] = label]
    BY <1>4 DEF MergeDetails, GoTo
  <2> QED
    BY <1>1, <1>4, <2>1, QuietInv DEF MergeDetails, Active
<1>5. CASE FailBackup(b)
  BY <1>1, <1>5, QuietInv DEF FailBackup, GoTo
<1> QED
  BY <1>1, <1>2, <1>3, <1>4, <1>5, UploadInv, WriteDetailsInv, PutModelInv
     DEF Operation

(* A deletion takes all parts of the backups it looked up, which no        *)
(* operation is working on any more.                                       *)
LEMMA DeletionInv ==
  ASSUME Inv, Deletion
  PROVE  Inv'
<1> USE DEF Inv, TypeOK
<1>1. TypeOK'
  BY DeletionTyped
<1>2. ASSUME NEW b \in Backups, LookUpForDelete(b) PROVE Inv'
  <2> USE <1>2 DEF LookUpForDelete
  <2>1. pc[b] = "done"
    BY DEF StagesOK
  <2>2. StagesOK'
    BY <2>1 DEF StagesOK, Parts
  <2>3. NoDanglingModel' /\ InFlightIsKept' /\ ReadingsOK' /\ CollectionsOK'
    BY DEF NoDanglingModel, InFlightIsKept, InTime, ReadingsOK, ReadingOK, Old, CollectionsOK,
           KnowsAllOrNothing, KnownWhole, Whole, Parts
  <2> QED
    BY <1>1, <2>2, <2>3
<1>3. CASE CommitDelete
  <2> USE <1>3 DEF CommitDelete
  <2>1. \A b \in Backups :
          /\ Data(b) \in present' <=> Data(b) \in present /\ b \notin doomed
          /\ Deets(b) \in present' <=> Deets(b) \in present /\ b \notin doomed
          /\ Model(b) \in present' <=> Model(b) \in present /\ b \notin doomed
    BY ItemFacts DEF Parts
  <2>2. StagesOK'
    BY <2>1 DEF StagesOK, Parts
  <2>3. NoDanglingModel' /\ InFlightIsKept'
    BY <2>1 DEF NoDanglingModel, InFlightIsKept, InTime, Whole, Parts, StagesOK
  <2>4. ReadingsOK' /\ CollectionsOK'
    BY DEF ReadingsOK, ReadingOK, Old, CollectionsOK, KnowsAllOrNothing, KnownWhole, Whole, Parts
  <2> QED
    BY <1>1, <2>2, <2>3, <2>4
<1>4. CASE AbortDelete
  <2> USE <1>4 DEF AbortDelete
  <2>1. StagesOK' /\ NoDanglingModel' /\ InFlightIsKept'
    BY DEF StagesOK, NoDanglingModel, InFlightIsKept, InTime, Whole, Parts
  <2>2. ReadingsOK' /\ CollectionsOK'
    BY DEF ReadingsOK, ReadingOK, Old, CollectionsOK, KnowsAllOrNothing, KnownWhole, Whole, Parts
  <2> QED
    BY <1>1, <2>1, <2>2
<1> QED
  BY <1>2, <1>3, <1>4 DEF Deletion

LEMMA AgeInv == Inv /\ Age => Inv'
<1> SUFFICES ASSUME Inv, Age PROVE Inv'
  OBVIOUS
<1> USE DEF Inv, TypeOK, Age
<1>1. StagesOK' /\ NoDanglingModel' /\ InFlightIsKept'
  BY ItemFacts DEF StagesOK, NoDanglingModel, InFlightIsKept, InTime, Whole, Parts
<1>2. ReadingsOK' /\ CollectionsOK'
  BY DEF ReadingsOK, ReadingOK, Old, CollectionsOK, KnowsAllOrNothing, KnownWhole, Whole, Parts, GCRecord
<1> QED
  BY <1>1, <1>2


(* A step of a cleaner that only reads.                                    *)
LEMMA ReadStepInv ==
  ASSUME Inv, NEW c \in Cleaners, NEW r \in GCRecord,
         gc' = [gc EXCEPT ![c] = r],
         UNCHANGED <<clock, horizon, present, stamp, pc, reasons, kind, base, doomed>>,
         ReadingOK(r),
         \A b \in Backups : KnowsAllOrNothing(r, b)
  PROVE  Inv'
<1> USE DEF Inv
<1>1. TypeOK'
  BY CleanerTyped
<1>2. StagesOK' /\ NoDanglingModel' /\ InFlightIsKept'
  BY DEF StagesOK, NoDanglingModel, InFlightIsKept, InTime, Whole, Parts
<1>3. ReadingsOK' /\ CollectionsOK'
  BY DEF TypeOK, ReadingsOK, ReadingOK, Old, CollectionsOK, KnowsAllOrNothing,
         KnownWhole, Whole, Parts
<1> QED
  BY <1>1, <1>2, <1>3

LEMMA IdleReading ==
  ASSUME Inv
  PROVE  ReadingOK(IdleGC) /\ \A b \in Backups : KnowsAllOrNothing(IdleGC, b)
BY DEF Inv, TypeOK, ReadingOK, KnowsAllOrNothing, IdleGC

(* The calm start: every whole backup is either young or all of it is old. *)
LEMMA ListSnapshotsInv ==
  ASSUME Inv, NEW c \in Cleaners, CalmListSnapshots(c)
  PROVE  Inv'
<1> DEFINE S == {b \in Backups : Expired(Data(b), horizon)}
           T == {b \in Backups \ Legacy : Expired(Deets(b), horizon)}
           r == [IdleGC EXCEPT !.pc = "legacy", !.cutoff = horizon,
                               !.data = S, !.deets = T]
<1>1. S \subseteq Backups /\ T \subseteq Backups /\ horizon \in Nat
  BY DEF Inv, TypeOK
<1>2. r.pc = "legacy" /\ r.cutoff = horizon /\ r.data = S /\ r.deets = T
      /\ r.listed = {} /\ r.unread = {} /\ r.complete = {}
  BY DEF IdleGC
<1>3. r \in GCRecord
  <2> HIDE DEF S, T
  <2> QED
    BY <1>1, IdleTyped, RecordTyped, Zenon
<1>4. gc' = [gc EXCEPT ![c] = r]
  BY Zenon DEF CalmListSnapshots, ListSnapshots
<1>5. ReadingOK(r)
  <2> HIDE DEF r
  <2> QED
    BY <1>1, <1>2 DEF ReadingOK, Inv, StagesOK, TypeOK, Old, Expired
<1>6. ASSUME NEW b \in Backups PROVE KnowsAllOrNothing(r, b)
  <2> HIDE DEF r
  <2> SUFFICES ASSUME Whole(b), b \in S \cup T \/ Old(Model(b), horizon)
               PROVE  KnownWhole(r, b)
    BY <1>2 DEF KnowsAllOrNothing
  <2>1. stamp[Data(b)] <= stamp[Deets(b)] /\ stamp[Deets(b)] <= stamp[Model(b)]
    BY ItemFacts DEF Inv, StagesOK, TypeOK, Whole, Parts
  <2>2. Old(Data(b), horizon)
    BY <2>1, ItemFacts DEF Old, Expired, Inv, TypeOK
  <2>3. Old(Model(b), horizon)
    BY <2>2 DEF CalmListSnapshots, Straddles, Whole, Parts
  <2>4. Old(Deets(b), horizon)
    BY <2>1, <2>3, ItemFacts DEF Old, Inv, TypeOK
  <2> QED
    BY <1>2, <2>2, <2>3, <2>4 DEF KnownWhole, Expired, Whole, Parts
<1> QED
  BY <1>3, <1>4, <1>5, <1>6, ReadStepInv DEF CalmListSnapshots, ListSnapshots

LEMMA ListDetailsInv ==
  ASSUME Inv, NEW c \in Cleaners, ListDetailsModels(c)
  PROVE  Inv'
<1> DEFINE g == gc[c]
           older == {b \in Legacy : Expired(Deets(b), g.cutoff)}
           r == [g EXCEPT !.pc = "models", !.deets = @ \cup older]
<1>1. g \in GCRecord /\ older \subseteq Backups
  BY LegacyAssumption DEF Inv, TypeOK
<1>2. /\ r.pc = "models" /\ r.cutoff = g.cutoff /\ r.data = g.data
      /\ r.deets = g.deets \cup older /\ r.listed = g.listed
      /\ r.unread = g.unread /\ r.complete = g.complete
  BY <1>1 DEF GCRecord
<1>3. r \in GCRecord
  BY <1>1, RecordTyped
<1>4. gc' = [gc EXCEPT ![c] = r]
  BY Zenon DEF ListDetailsModels
<1>5. ReadingOK(g) /\ \A b \in Backups : KnowsAllOrNothing(g, b)
  BY DEF Inv, ReadingsOK, CollectionsOK
<1>6. ReadingOK(r)
  <2> HIDE DEF r
  <2> QED
    BY <1>1, <1>2, <1>5, LegacyAssumption
       DEF ListDetailsModels, ReadingOK, Inv, StagesOK, TypeOK, Old, Expired, GCRecord
<1>7. ASSUME NEW b \in Backups PROVE KnowsAllOrNothing(r, b)
  <2> HIDE DEF r
  <2>1. g.pc = "legacy"
    BY DEF ListDetailsModels
  <2>2. b \in Legacy => Old(Model(b), g.cutoff) /\ Old(Deets(b), g.cutoff)
    BY <1>1 DEF Inv, StagesOK, Parts, Old, GCRecord
  <2> QED
    BY <1>2, <1>5, <2>1, <2>2 DEF KnowsAllOrNothing, KnownWhole, Whole, Parts, Expired
<1> QED
  BY <1>3, <1>4, <1>6, <1>7, ReadStepInv DEF ListDetailsModels

(* Everything old that is whole was whole when the snapshots were listed,  *)
(* so its model is listed now.                                             *)
LEMMA ListModelsInv ==
  ASSUME Inv, NEW c \in Cleaners, ListBackupModels(c)
  PROVE  Inv'
<1> DEFINE g == gc[c]
           older == {b \in Backups : Expired(Model(b), g.cutoff)}
           r == [g EXCEPT !.pc = "read", !.listed = older, !.unread = older]
<1>1. g \in GCRecord /\ older \subseteq Backups
  BY DEF Inv, TypeOK
<1>2. /\ r.pc = "read" /\ r.cutoff = g.cutoff /\ r.data = g.data
      /\ r.deets = g.deets /\ r.listed = older /\ r.unread = older
      /\ r.complete = g.complete
  BY <1>1 DEF GCRecord
<1>3. r \in GCRecord
  BY <1>1, RecordTyped
<1>4. gc' = [gc EXCEPT ![c] = r]
  BY Zenon DEF ListBackupModels
<1>5. ReadingOK(g) /\ \A b \in Backups : KnowsAllOrNothing(g, b)
  BY DEF Inv, ReadingsOK, CollectionsOK
<1>6. g.complete = {}
  BY <1>5 DEF ListBackupModels, ReadingOK
<1>7. ReadingOK(r)
  <2> HIDE DEF r
  <2> QED
    BY <1>2, <1>5, <1>6 DEF ReadingOK, Inv, StagesOK, Expired
<1>8. ASSUME NEW b \in Backups PROVE KnowsAllOrNothing(r, b)
  <2> HIDE DEF r
  <2>1. g.pc = "models"
    BY DEF ListBackupModels
  <2> QED
    BY <1>2, <1>5, <2>1 DEF KnowsAllOrNothing, KnownWhole, Whole, Parts, Expired
<1> QED
  BY <1>3, <1>4, <1>7, <1>8, ReadStepInv DEF ListBackupModels

LEMMA ReadModelInv ==
  ASSUME Inv, NEW c \in Cleaners, NEW b \in Backups, ReadBackupModel(c, b)
  PROVE  Inv'
<1> DEFINE g == gc[c]
           found == {x \in {b} : Model(x) \in present /\ x \in g.data \cap g.deets}
           r == [g EXCEPT !.unread = @ \ {b}, !.complete = @ \cup found]
<1>1. g \in GCRecord /\ {b} \subseteq Backups /\ found \subseteq Backups
  BY DEF Inv, TypeOK
<1>2. /\ r.pc = "read" /\ r.cutoff = g.cutoff /\ r.data = g.data
      /\ r.deets = g.deets /\ r.listed = g.listed /\ r.unread = g.unread \ {b}
      /\ r.complete = g.complete \cup found
  BY <1>1 DEF GCRecord, ReadBackupModel
<1>3. r \in GCRecord
  BY <1>1, RecordTyped
<1>4. gc' = [gc EXCEPT ![c] = r]
  BY Zenon DEF ReadBackupModel
<1>5. ReadingOK(g) /\ \A x \in Backups : KnowsAllOrNothing(g, x)
  BY DEF Inv, ReadingsOK, CollectionsOK
<1>6. g.pc = "read" /\ b \in g.unread
  BY DEF ReadBackupModel
<1>7. ReadingOK(r)
  <2> HIDE DEF r
  <2> QED
    BY <1>2, <1>5, <1>6 DEF ReadingOK
<1>8. ASSUME NEW x \in Backups PROVE KnowsAllOrNothing(r, x)
  <2> HIDE DEF r
  <2> QED
    BY <1>2, <1>5, <1>6 DEF KnowsAllOrNothing, KnownWhole, Whole, Parts
<1> QED
  BY <1>3, <1>4, <1>7, <1>8, ReadStepInv DEF ReadBackupModel

(* What a sweep takes from the repository.                                 *)
LEMMA GarbageParts ==
  ASSUME NEW g \in GCRecord, NEW b \in Backups
  PROVE  /\ Data(b) \in Garbage(g) =>
              b \in g.data \ g.complete \/ b \in OldAssists(g.complete)
         /\ Deets(b) \in Garbage(g) =>
              b \in g.deets \ g.complete \/ b \in OldAssists(g.complete)
         /\ Model(b) \in Garbage(g) =>
              b \in g.listed \ g.complete \/ b \in OldAssists(g.complete)
         /\ b \in OldAssists(g.complete) => Parts(b) \subseteq Garbage(g)
<1>1. OldAssists(g.complete) \subseteq Backups
  BY DEF OldAssists, GCRecord
<1>2. g.data \subseteq Backups /\ g.deets \subseteq Backups
      /\ g.listed \subseteq Backups /\ g.complete \subseteq Backups
  BY DEF GCRecord
<1> HIDE DEF OldAssists
<1> QED
  BY <1>1, <1>2, ItemFacts DEF Garbage, Parts

(* A whole backup goes whole in a sweep, and only as an old assist backup. *)
LEMMA SweepTakesWholes ==
  ASSUME Inv, NEW c \in Cleaners, Sweep(c), NEW b \in Backups, Whole(b)
  PROVE  IF b \in OldAssists(gc[c].complete)
         THEN Parts(b) \cap present' = {} ELSE Whole(b)'
<1> DEFINE g == gc[c]
<1>1. g \in GCRecord
  BY DEF Inv, TypeOK
<1>2. CASE b \in OldAssists(g.complete)
  BY <1>1, <1>2, GarbageParts DEF Sweep
<1>3. CASE b \notin OldAssists(g.complete)
  <2>1. b \in g.data \cup g.deets \cup g.listed => b \in g.complete
    <3>1. KnowsAllOrNothing(g, b) /\ ReadingOK(g)
      BY DEF Inv, CollectionsOK, ReadingsOK
    <3> QED
      BY <3>1 DEF KnowsAllOrNothing, KnownWhole, ReadingOK, Sweep
  <2> QED
    BY <1>1, <1>3, <2>1, GarbageParts, ItemFacts DEF Sweep, Whole, Parts
<1> QED
  BY <1>2, <1>3

LEMMA SweepInv ==
  ASSUME Inv, NEW c \in Cleaners, Sweep(c)
  PROVE  Inv'
<1> DEFINE g == gc[c]
<1>1. g \in GCRecord
  BY DEF Inv, TypeOK
<1>2. TypeOK'
  BY CleanupTyped DEF Inv, Collection
<1>3. present' \subseteq present
  BY DEF Sweep
<1>4. StagesOK'
  BY <1>3 DEF Sweep, Inv, StagesOK, Parts
<1>5. NoDanglingModel'
  <2> SUFFICES ASSUME NEW b \in Backups \ Legacy, Model(b) \in present'
               PROVE  Whole(b)'
    BY DEF NoDanglingModel
  <2>1. Whole(b)
    BY <1>3 DEF Inv, NoDanglingModel
  <2> QED
    BY <2>1, SweepTakesWholes DEF Parts
<1>6. InFlightIsKept'
  <2>1. ReadingOK(g)
    BY DEF Inv, ReadingsOK
  <2>2. OldAssists(g.complete) \subseteq g.complete
    BY DEF OldAssists
  <2>3. ASSUME NEW b \in Backups, InTime(b)
        PROVE  /\ b \notin g.data
               /\ pc[b] = "model" => b \notin g.deets
    <3> g.cutoff \in Nat /\ horizon \in Nat /\ stamp[Data(b)] \in Nat
      BY <1>1, ItemFacts DEF Inv, TypeOK, GCRecord
    <3>1. g.cutoff < stamp[Data(b)]
      BY <2>1, <2>3 DEF ReadingOK, InTime
    <3>2. pc[b] = "model" => stamp[Data(b)] < stamp[Deets(b)]
      BY DEF Inv, StagesOK
    <3> QED
      BY <1>1, <2>1, <3>1, <3>2, ItemFacts DEF ReadingOK, Old, Inv, TypeOK, GCRecord
  <2>4. ASSUME NEW b \in Backups, InTime(b)
        PROVE  /\ Data(b) \notin Garbage(g)
               /\ pc[b] = "model" => Deets(b) \notin Garbage(g)
    BY <1>1, <2>1, <2>2, <2>3, <2>4, GarbageParts DEF ReadingOK
  <2> QED
    BY <2>4 DEF InFlightIsKept, Sweep, Inv, InTime
<1>7. ReadingsOK' /\ CollectionsOK'
  <2>1. ASSUME NEW d \in Cleaners, d # c PROVE gc'[d] = gc[d]
    BY <2>1 DEF Sweep, Inv, TypeOK
  <2>2. gc'[c] = IdleGC
    BY DEF Sweep, Inv, TypeOK
  <2>3. ReadingsOK'
    BY <2>1, <2>2, IdleReading DEF Sweep, ReadingsOK, ReadingOK, Inv, Old
  <2>4. ASSUME NEW b \in Backups PROVE Whole(b)' => Whole(b)
    BY <1>3 DEF Whole, Parts
  <2>5. CollectionsOK'
    BY <2>1, <2>2, <2>4, IdleReading
       DEF Sweep, CollectionsOK, KnowsAllOrNothing, KnownWhole, Inv, Old, IdleGC
  <2> QED
    BY <2>3, <2>5
<1> QED
  BY <1>2, <1>4, <1>5, <1>6, <1>7 DEF Inv

LEMMA AbortInv ==
  ASSUME Inv, NEW c \in Cleaners, AbortCleanup(c)
  PROVE  Inv'
BY IdleTyped, IdleReading, ReadStepInv DEF AbortCleanup

LEMMA CalmNextInv == Inv /\ [CalmNext]_vars => Inv'
<1> SUFFICES ASSUME Inv, [CalmNext]_vars PROVE Inv'
  OBVIOUS
<1>1. CASE UNCHANGED vars
  BY <1>1, CleanerTyped
     DEF vars, Inv, TypeOK, StagesOK, NoDanglingModel, InFlightIsKept, InTime, ReadingsOK,
         ReadingOK, Old, CollectionsOK, KnowsAllOrNothing, KnownWhole, Whole, Parts
<1>2. ASSUME NEW c \in Cleaners,
             CalmListSnapshots(c) \/ Collection(c) \/ AbortCleanup(c)
      PROVE  Inv'
  BY <1>2, ListSnapshotsInv, ListDetailsInv, ListModelsInv, ReadModelInv, SweepInv,
     AbortInv DEF Collection
<1> QED
  BY <1>1, <1>2, OperationInv, DeletionInv, AgeInv DEF CalmNext

(* Calm maintenance preserves what each operation has written and what     *)
(* each collection knows of it.                                            *)
THEOREM CalmInv == CalmSpec => []Inv
BY InitInv, CalmNextInv, PTL DEF CalmSpec

(* Calm maintenance never leaves a listed backup without one of its parts. *)
THEOREM ListedBackupsAreWhole == CalmSpec => []NoDanglingModel
BY CalmInv, PTL DEF Inv

(* Nor does it collect under an operation that is about to write its model.*)
THEOREM WorkInProgressIsKept == CalmSpec => []InFlightIsKept
BY CalmInv, PTL DEF Inv

-----------------------------------------------------------------------------
(* The refinement.                                                         *)

LEMMA SameCatalog ==
  ASSUME UNCHANGED doomed, \A b \in Backups : Shown(b)' = Shown(b)
  PROVE  UNCHANGED Catalog!vars
BY DEF Catalog!vars

LEMMA InitRefines == Inv /\ Init => Catalog!Init
<1> SUFFICES ASSUME Inv, Init PROVE Catalog!Init
  OBVIOUS
<1>1. ASSUME NEW b \in Backups PROVE Shown(b) \in {"absent", "merge", "removed"}
  BY DEF Init, Shown, Inv, StagesOK, Whole, Parts
<1> QED
  BY <1>1 DEF Init, Catalog!Init

(* A step that adds no model and removes nothing.                          *)
LEMMA QuietRefines ==
  ASSUME Inv, NEW b \in Backups, Operation(b), ~PutModel(b)
  PROVE  UNCHANGED Catalog!vars
<1> USE DEF Inv, TypeOK, GoTo
<1>1. b \notin Legacy /\ pc[b] # "done" /\ pc'[b] # "done" /\ UNCHANGED <<kind, doomed>>
  BY DEF Operation, StartBackup, ReadMetadata, Upload, MergeDetails, WriteDetails,
         FailBackup, StagesOK, Active
<1>2. \A a \in Backups \ {b} : pc'[a] = pc[a]
  BY DEF Operation, StartBackup, ReadMetadata, Upload, MergeDetails, WriteDetails,
         FailBackup
<1>3. Model(b) \notin present /\ Model(b) \notin present'
  BY <1>1, ItemFacts DEF Operation, StartBackup, ReadMetadata, Upload, MergeDetails,
         WriteDetails, FailBackup, StagesOK, Write
<1>4. \A a \in Backups \ {b} : Whole(a)' = Whole(a)
  BY ItemFacts DEF Operation, StartBackup, ReadMetadata, Upload, MergeDetails,
         WriteDetails, FailBackup, Write, Whole, Parts
<1>5. ~Whole(b) /\ ~Whole(b)'
  BY <1>3 DEF Whole, Parts
<1>6. \A a \in Backups : Shown(a)' = Shown(a)
  BY <1>1, <1>2, <1>4, <1>5 DEF Shown
<1> QED
  BY <1>1, <1>6, SameCatalog

LEMMA PutRefines ==
  ASSUME Inv, NEW b \in Backups, PutModel(b)
  PROVE  Catalog!Next
<1> USE DEF Inv, TypeOK, PutModel, GoTo, Write
<1>1. b \notin Legacy /\ ~Whole(b)
  BY DEF StagesOK, Whole, Parts
<1>2. Whole(b)'
  BY DEF InFlightIsKept, Whole, Parts
<1>3. Shown(b) = "absent"
  BY <1>1 DEF Shown
<1>4. PICK k \in {"merge", "assist", "preview"} : kind' = [kind EXCEPT ![b] = k]
  BY DEF Kind
<1>5. \A a \in Backups : Shown(a)' = IF a = b THEN k ELSE Shown(a)
  BY <1>2, <1>4, ItemFacts DEF Shown, Whole, Parts
<1>6. Catalog!Record(b, k)
  BY <1>3, <1>5 DEF Catalog!Record
<1> QED
  BY <1>6 DEF Catalog!Next

LEMMA DeletionRefines ==
  ASSUME Inv, Deletion
  PROVE  Catalog!Next
<1> USE DEF Inv, TypeOK
<1>1. ASSUME NEW b \in Backups, LookUpForDelete(b) PROVE Catalog!Next
  <2>1. \A a \in Backups : Shown(a)' = Shown(a)
    BY <1>1 DEF LookUpForDelete, Shown, Whole, Parts
  <2>2. Catalog!Request(b)
    BY <1>1, <2>1 DEF LookUpForDelete, Catalog!Request
  <2> QED
    BY <2>2 DEF Catalog!Next
<1>2. CASE CommitDelete
  <2>1. \A b \in Backups : Whole(b)' <=> Whole(b) /\ b \notin doomed
    BY <1>2, ItemFacts DEF CommitDelete, Whole, Parts
  <2>2. \A b \in Backups : Shown(b)' = IF b \in doomed /\ Shown(b) # "absent"
                                     THEN "removed" ELSE Shown(b)
    BY <1>2, <2>1 DEF CommitDelete, Shown, StagesOK
  <2>3. Catalog!Delete
    BY <1>2, <2>2 DEF CommitDelete, Catalog!Delete, Catalog!Removed
  <2> QED
    BY <2>3 DEF Catalog!Next
<1>3. CASE AbortDelete
  <2>1. \A a \in Backups : Shown(a)' = Shown(a)
    BY <1>3 DEF AbortDelete, Shown, Whole, Parts
  <2>2. Catalog!Cancel
    BY <1>3, <2>1 DEF AbortDelete, Catalog!Cancel
  <2> QED
    BY <2>2 DEF Catalog!Next
<1> QED
  BY <1>1, <1>2, <1>3 DEF Deletion

(* A sweep prunes the old assist backups that are still whole.             *)
LEMMA SweepRefines ==
  ASSUME Inv, NEW c \in Cleaners, Sweep(c)
  PROVE  Catalog!Next
<1> DEFINE old == OldAssists(gc[c].complete)
           S == {b \in old : Whole(b)}
<1> USE DEF Inv, TypeOK
<1>1. old \subseteq Backups /\ \A b \in old : kind[b] = "assist" /\ pc[b] = "done"
  BY DEF OldAssists, ReadingsOK, ReadingOK, GCRecord
<1>2. \A b \in Backups : Whole(b)' <=> Whole(b) /\ b \notin old
  <2>1. present' \subseteq present
    BY DEF Sweep
  <2> HIDE DEF old
  <2> QED
    BY <2>1, SweepTakesWholes DEF Whole, Parts, old
<1>3. \A b \in Backups : Shown(b)' = IF b \in S THEN "removed" ELSE Shown(b)
  BY <1>1, <1>2 DEF Shown, Sweep
<1>4. Catalog!Prune(S)
  BY <1>1, <1>3 DEF Catalog!Prune, Catalog!Removed, Shown, Sweep
<1> QED
  BY <1>1, <1>4 DEF Catalog!Next

LEMMA StepRefines == Inv /\ Inv' /\ [CalmNext]_vars => [Catalog!Next]_(Catalog!vars)
<1> SUFFICES ASSUME Inv, Inv', [CalmNext]_vars
             PROVE  Catalog!Next \/ UNCHANGED Catalog!vars
  OBVIOUS
<1>1. ASSUME UNCHANGED <<present, pc, kind, doomed>> PROVE UNCHANGED Catalog!vars
  BY <1>1, SameCatalog DEF Shown, Whole, Parts
<1>2. ASSUME NEW c \in Cleaners,
             CalmListSnapshots(c) \/ Collection(c) \/ AbortCleanup(c)
      PROVE  Catalog!Next \/ UNCHANGED Catalog!vars
  BY <1>1, <1>2, SweepRefines
     DEF CalmListSnapshots, ListSnapshots, Collection, ListDetailsModels,
         ListBackupModels, ReadBackupModel, AbortCleanup
<1>3. ASSUME NEW b \in Backups, Operation(b)
      PROVE  Catalog!Next \/ UNCHANGED Catalog!vars
  BY <1>3, QuietRefines, PutRefines
<1> QED
  BY <1>1, <1>2, <1>3, DeletionRefines DEF CalmNext, Age, vars

(* The repository implements the catalog: backups appear whole, and only   *)
(* the user's deletions and the pruning of assist backups take them away.  *)
THEOREM RepoImplementsCatalog == CalmSpec => ImplementsCatalog
<1>1. Inv /\ Init => Catalog!Init
  BY InitRefines
<1>2. Inv /\ Inv' /\ [CalmNext]_vars => [Catalog!Next]_(Catalog!vars)
  BY StepRefines
<1> QED
  BY CalmInv, <1>1, <1>2, PTL DEF CalmSpec, Catalog!Spec, ImplementsCatalog
-----------------------------------------------------------------------------
(* Bases survive a sweep.                                                  *)

LEMMA SweepRemovesOnly ==
  ASSUME NEW c \in Cleaners, Sweep(c), NEW r \in Reasons
  PROVE  /\ Candidates(r)' \subseteq Candidates(r)
         /\ \A b \in Candidates(r) : Whole(b)' => b \in Candidates(r)'
<1>1. present' \subseteq present
  BY DEF Sweep
<1> QED
  BY <1>1 DEF Sweep, Candidates, Whole, Parts

LEMMA MergeBaseSurvives ==
  ASSUME Inv, NEW c \in Cleaners, Sweep(c), NEW r \in Reasons,
         NEW b \in MergeBaseFor(r), Whole(b)
  PROVE  b \in MergeBaseFor(r)'
<1>1. b \in Backups /\ b \in Candidates(r) /\ kind[b] = "merge"
  BY DEF MergeBaseFor, Candidates
<1>2. Whole(b)'
  BY <1>1, SweepTakesWholes DEF OldAssists
<1>3. b \in Candidates(r)'
  BY <1>1, <1>2, SweepRemovesOnly
<1>4. ASSUME NEW a \in Candidates(r)', kind[a] = "merge" PROVE ~Newer(a, b)
  BY <1>4, SweepRemovesOnly DEF MergeBaseFor
<1> QED
  BY <1>1, <1>3, <1>4 DEF MergeBaseFor, Sweep, Newer

(* A whole backup wrote its model last.                                    *)
LEMMA ModelIsLast ==
  ASSUME Inv, NEW b \in Backups, Whole(b)
  PROVE  /\ stamp[Data(b)] \in Nat /\ Created(b) \in Nat
         /\ stamp[Data(b)] <= Created(b)
         /\ kind[b] \in {"merge", "assist", "preview"}
<1>1. pc[b] = "done"
  BY DEF Inv, StagesOK, Whole, Parts
<1>2. stamp[Data(b)] \in Nat /\ stamp[Deets(b)] \in Nat /\ stamp[Model(b)] \in Nat
  BY ItemFacts DEF Inv, TypeOK
<1>3. CASE b \in Legacy
  BY <1>1, <1>2, <1>3 DEF Inv, StagesOK, Parts, Created
<1>4. CASE b \notin Legacy
  BY <1>1, <1>2, <1>4 DEF Inv, StagesOK, Created
<1> QED
  BY <1>1, <1>2, <1>3, <1>4 DEF Inv, StagesOK, Created

(* What supersedes an assist backup is a newer candidate for the reason,   *)
(* as the two did not overlap.                                             *)
LEMMA AssistBaseIsNotOld ==
  ASSUME Inv, NEW c \in Cleaners, Sequential, Current(c), NoPreview(c), NEW r \in Reasons,
         NEW b \in AssistBaseFor(r), Whole(b)
  PROVE  b \notin OldAssists(gc[c].complete)
<1> SUFFICES ASSUME b \in OldAssists(gc[c].complete) PROVE FALSE
  OBVIOUS
<1>1. b \in Backups /\ r \in reasons[b]
  BY DEF AssistBaseFor, Candidates
<1>2. PICK a \in gc[c].complete : r \in reasons[a] /\ Created(a) > Created(b)
  BY <1>1 DEF OldAssists, Superseded
<1>3. a \in Backups
  BY DEF Inv, TypeOK, GCRecord
<1>4. Whole(a) /\ kind[a] # "preview"
  BY DEF Current, NoPreview
<1>5. a \in Candidates(r) /\ kind[a] \in {"merge", "assist"}
  BY <1>2, <1>3, <1>4, ModelIsLast DEF Candidates, Whole, Parts
<1>6. ~Newer(a, b)
  BY <1>5 DEF AssistBaseFor
<1>7. /\ stamp[Data(a)] \in Nat /\ Created(a) \in Nat
      /\ stamp[Data(b)] \in Nat /\ Created(b) \in Nat
      /\ stamp[Data(b)] <= Created(b)
  BY <1>1, <1>3, <1>4, ModelIsLast
<1>8. Created(a) < stamp[Data(b)] \/ Created(b) < stamp[Data(a)]
  <2>1. a # b
    BY <1>2, <1>7
  <2> QED
    BY <2>1, <1>1, <1>3, <1>4 DEF Sequential
<1> QED
  BY <1>2, <1>6, <1>7, <1>8 DEF Newer

LEMMA AssistBaseSurvives ==
  ASSUME Inv, NEW c \in Cleaners, NoPreview(c)
  PROVE  KeepsAssistBase(c)
<1> SUFFICES ASSUME Sweep(c), Sequential, Current(c), NEW r \in Reasons,
                    NEW b \in AssistBaseFor(r), Whole(b)
             PROVE  b \in AssistBaseFor(r)'
  BY DEF KeepsAssistBase
<1>1. b \in Backups /\ b \in Candidates(r) /\ kind[b] = "assist"
  BY DEF AssistBaseFor, Candidates
<1>2. Whole(b)'
  BY <1>1, AssistBaseIsNotOld, SweepTakesWholes
<1>3. b \in Candidates(r)'
  BY <1>1, <1>2, SweepRemovesOnly
<1>4. ASSUME NEW a \in Candidates(r)', kind[a] \in {"merge", "assist"} PROVE ~Newer(a, b)
  BY <1>4, SweepRemovesOnly DEF AssistBaseFor
<1> QED
  BY <1>1, <1>3, <1>4 DEF AssistBaseFor, Sweep, Newer

(* Calm maintenance never removes the complete merge base that the next    *)
(* backup would find for a reason, also while operations overlap.          *)
THEOREM MergeBasesSurvive == CalmSpec => SweepKeepsMergeBase
<1>1. Inv /\ [CalmNext]_vars =>
        [\A c \in Cleaners : Sweep(c) =>
           \A r \in Reasons : \A b \in MergeBaseFor(r) :
             Whole(b) => b \in MergeBaseFor(r)']_vars
  BY MergeBaseSurvives
<1> QED
  BY CalmInv, <1>1, PTL DEF CalmSpec, SweepKeepsMergeBase

(* Nor, without previews and overlaps, the assist base: the order by time  *)
(* of the snapshots and that by time of creation agree.                    *)
THEOREM AssistBasesSurvive == CalmSpec => SweepKeepsAssistBase
<1>1. Inv /\ [CalmNext]_vars =>
        [\A c \in Cleaners : NoPreview(c) => KeepsAssistBase(c)]_vars
  BY AssistBaseSurvives
<1> QED
  BY CalmInv, <1>1, PTL DEF CalmSpec, SweepKeepsAssistBase
=============================================================================
