----------------------------- MODULE DriveRestore -----------------------------
(***************************************************************************)
(* Folders of a backup go back into the drives of a site: the drive is     *)
(* found or made, the folders are made in it, what is there is listed, and *)
(* the files are posted and uploaded concurrently, with a policy for those *)
(* whose names are taken.                                                  *)
(*                                                                         *)
(*   internal/m365/collection/drive/restore.go, restore_caches.go,         *)
(*   internal/m365/service/sharepoint/restore.go                           *)
(*                                                                         *)
(* The site is external: its drives, by their position, and its things,    *)
(* which keep their position when they go.  Posting with the policy Copy   *)
(* gives a free name: that of the copy differs in nth.  Backups have the   *)
(* names of all their drives.                                              *)
(***************************************************************************)
EXTENDS Integers, Sequences, FiniteSets

CONSTANTS
  Colls,            \* sequence: folders to restore, [drive, driveName, dir, items]
  FirstSites,       \* initial values of site
  Policies,         \* of {"Skip", "Copy", "Replace"}
  maxUploadRetries,
  MaxEdits          \* bound: changes by others meanwhile

ASSUME RestoreAssumption ==
  /\ maxUploadRetries \in Nat /\ MaxEdits \in Nat
  /\ Policies \subseteq {"Skip", "Copy", "Replace"}
  /\ DOMAIN Colls = 1..Len(Colls)

Original == <<0, 0>>
TakenBy(c, i) == <<c, i>>

(* A name is that of one thing in a folder.                                *)
ASSUME SiteAssumption ==
  \A s \in FirstSites :
    /\ DOMAIN s = {"lists", "drives", "things"}
    /\ s.things \in Seq({s.things[t] : t \in DOMAIN s.things})
    /\ \A t \in DOMAIN s.things :
         s.things[t] \in [up : {s.things[t].up}, name : {s.things[t].name}, nth : {0},
                         kind : {"file", "folder"}, holds : {"nothing"}, from : {Original},
                         gone : {"no"}]
    /\ \A t, u \in DOMAIN s.things :
         s.things[t].up = s.things[u].up /\ s.things[t].name = s.things[u].name => t = u

VARIABLES
  site,    \* [lists, drives, things], things of [up, name, nth, kind, holds, from, gone]
  restore, \* the operation, see Init
  task,    \* [items of the current collection -> [at, new, tries]]
  edits

restoreVars == <<site, restore, task, edits>>

Pending == [at |-> "todo", new |-> 0, tries |-> 0]

Coll == Colls[restore.coll]

RestoreInit ==
  /\ site \in FirstSites
  /\ \E policy \in Policies, failFast \in BOOLEAN :
       restore = [policy |-> policy, failFast |-> failFast, at |-> "between", next |-> 1,
                  coll |-> 0, target |-> <<>>, folders |-> {}, depth |-> 0, up |-> 0, listing |-> {},
                  reported |-> {}, skipped |-> {}, restored |-> {},
                  failed |-> FALSE, cancelled |-> FALSE]
  /\ task = [i \in {} |-> Pending]
  /\ edits = 0

-----------------------------------------------------------------------------
(* The site.                                                               *)

Root(d) == 0 - d

Here(things, up) == {t \in DOMAIN things : things[t].up = up /\ things[t].gone = "no"}

Named(things, up, n) == {t \in Here(things, up) : things[t].name = n /\ things[t].nth = 0}

(* A post with the policy Copy.                                            *)
Posted(things, up, n, kind, from) ==
  Append(things, [up |-> up, name |-> n,
                  nth |-> IF Named(things, up, n) = {} THEN 0 ELSE Len(things) + 1,
                  kind |-> kind, holds |-> "nothing", from |-> from, gone |-> "no"])

(* createFolder: a folder that is there is found, a file makes it a copy.  *)
CreateFolder(things, up, n) ==
  LET there == {t \in Named(things, up, n) : things[t].kind = "folder"}
  IN  IF there # {} THEN [things |-> things, up |-> CHOOSE t \in there : TRUE]
      ELSE [things |-> Posted(things, up, n, "folder", Original), up |-> Len(things) + 1]

EditBy(things) ==
  /\ edits < MaxEdits
  /\ edits' = edits + 1
  /\ site' = [site EXCEPT !.things = things]
  /\ UNCHANGED <<restore, task>>

(* Others remove a file, or put one in the way of the restore.             *)
Others ==
  /\ restore.at = "items"
  /\ \/ \E t \in Here(site.things, restore.up) : EditBy([site.things EXCEPT ![t].gone = "others"])
     \/ \E i \in DOMAIN task : EditBy(Posted(site.things, restore.up, i, "file", Original))

-----------------------------------------------------------------------------
(* RestoreCollection.                                                      *)

(* AddRecoverable: with FailFast the first error ends everything.          *)
Reported(r, what) ==
  [r EXCEPT !.reported = @ \cup what, !.failed = @ \/ r.failFast]

AllItems(c) == {TakenBy(c, i) : i \in Colls[c].items}

(* A drive of the site with this ID, or with this name.                    *)
KnownDrives(c) ==
  IF Colls[c].drive \in DOMAIN site.drives THEN {Colls[c].drive}
  ELSE {d \in DOMAIN site.drives : site.drives[d] = Colls[c].driveName}

(* The names that ensureDriveExists tries, and the first that is free.     *)
NthName(n, k) == IF k = 0 THEN n ELSE <<n, k>>

TakenName(n) == n \in site.lists \/ \E d \in DOMAIN site.drives : site.drives[d] = n

NewDriveName(n) ==
  NthName(n, CHOOSE k \in 0..Len(site.drives) + Cardinality(site.lists) :
               /\ ~TakenName(NthName(n, k))
               /\ \A j \in 0..(k - 1) : TakenName(NthName(n, j)))

(* The drives after ensureDriveExists, whose drive is then the last one.   *)
EnsuredDrives(c) ==
  IF KnownDrives(c) # {} THEN site.drives
  ELSE Append(site.drives, NewDriveName(Colls[c].driveName))

Ensured(c) ==
  IF KnownDrives(c) # {} THEN CHOOSE d \in KnownDrives(c) : TRUE ELSE Len(site.drives) + 1

(* GetItemsInContainerByCollisionKey.                                      *)
Listing(things, up) ==
  {[name |-> things[t].name, nth |-> things[t].nth, id |-> t] : t \in Here(things, up)}

Goes == restore.at = "between" /\ ~restore.failed /\ ~restore.cancelled

(* The drive is found or made.                                             *)
BeginCollection ==
  /\ Goes /\ restore.next \in DOMAIN Colls
  /\ LET c == restore.next
     IN  /\ site' = [site EXCEPT !.drives = EnsuredDrives(c)]
         /\ restore' = [restore EXCEPT !.at = "folders", !.next = c + 1, !.coll = c,
                                       !.target = Append(@, Ensured(c)),
                                       !.depth = 0, !.up = Root(Ensured(c))]
  /\ task' = [i \in {} |-> Pending]
  /\ UNCHANGED edits

(* Where the next folder of the path is, with the drive it is in.          *)
Location ==
  <<restore.target[Len(restore.target)], SubSeq(Coll.dir, 1, restore.depth + 1)>>

Cached == {f \in restore.folders : f.path = Location}

(* createRestoreFolders, one of them.                                      *)
MakeFolder ==
  /\ restore.at = "folders" /\ restore.depth < Len(Coll.dir)
  /\ LET new == CreateFolder(site.things, restore.up, Coll.dir[restore.depth + 1])
     IN  IF Cached # {}
         THEN /\ restore' = [restore EXCEPT !.depth = @ + 1,
                                            !.up = (CHOOSE f \in Cached : TRUE).up]
              /\ UNCHANGED site
         ELSE /\ restore' = [restore EXCEPT !.depth = @ + 1, !.up = new.up,
                     !.folders = @ \cup {[path |-> Location, up |-> new.up]}]
              /\ site' = [site EXCEPT !.things = new.things]
  /\ UNCHANGED <<task, edits>>

(* What the folder holds, and its items.                                   *)
ListCollisions ==
  /\ restore.at = "folders" /\ restore.depth = Len(Coll.dir)
  /\ restore' = [restore EXCEPT !.at = "items", !.listing = Listing(site.things, restore.up)]
  /\ task' = [i \in Coll.items |-> Pending]
  /\ UNCHANGED <<site, edits>>

(* An error on the way, where the drive may have been made all the same.   *)
BeginFails ==
  /\ \/ /\ Goes /\ restore.next \in DOMAIN Colls
        /\ LET c == restore.next
           IN  /\ site' \in {site, [site EXCEPT !.drives = EnsuredDrives(c)]}
               /\ restore' = [Reported(restore, AllItems(c)) EXCEPT
                                !.next = c + 1, !.target = Append(@, 0)]
     \/ /\ restore.at = "folders"
        /\ restore' = [Reported(restore, AllItems(restore.coll)) EXCEPT !.at = "between"]
        /\ UNCHANGED site
  /\ UNCHANGED <<task, edits>>

(* The drives of the site cannot be listed, as when it was cancelled.      *)
PopulateFails ==
  /\ restore.at = "between" /\ ~restore.failed
  /\ restore.next \in DOMAIN Colls
  /\ restore' = [restore EXCEPT !.at = "ended", !.failed = TRUE]
  /\ UNCHANGED <<site, task, edits>>

Me(i) == TakenBy(restore.coll, i)

Collision(i) == {l.id : l \in {m \in restore.listing : m.name = i /\ m.nth = 0}}

(* Mutant: a folder with the name of the file is deleted as well.          *)
ShouldDeleteOriginal_AnyKind(i) == restore.policy = "Replace" /\ Collision(i) # {}

ShouldDeleteOriginal(i) ==
  /\ restore.policy = "Replace"
  /\ \E t \in Collision(i) : site.things[t].kind = "file"

Done(i) == task' = [task EXCEPT ![i].at = "done"]

ItemFails(i) ==
  /\ Done(i)
  /\ restore' = Reported(restore, {Me(i)})

(* The goroutine of an item reads its metadata and looks for a collision.  *)
StartItem(i) ==
  /\ task[i].at = "todo" /\ restore.at = "items" /\ ~restore.failed
  /\ \/ ItemFails(i)
     \/ /\ Collision(i) # {} /\ restore.policy = "Skip"
        /\ Done(i)
        /\ restore' = [restore EXCEPT !.skipped = @ \cup {Me(i)}]
     \/ /\ ~(Collision(i) # {} /\ restore.policy = "Skip")
        /\ task' = [task EXCEPT ![i].at = IF ShouldDeleteOriginal(i) THEN "delete" ELSE "post"]
        /\ UNCHANGED restore
  /\ UNCHANGED <<site, edits>>

(* It may be gone, which is no error, or be gone although there was one.   *)
DeleteOriginal(i) ==
  /\ task[i].at = "delete"
  /\ \/ /\ site' = [site EXCEPT !.things = [t \in DOMAIN @ |->
              IF t \in Collision(i) /\ @[t].gone = "no"
              THEN [@[t] EXCEPT !.gone = "restore"] ELSE @[t]]]
        /\ \/ task' = [task EXCEPT ![i].at = "post"] /\ UNCHANGED restore
           \/ ItemFails(i)
     \/ ItemFails(i) /\ UNCHANGED site
  /\ UNCHANGED edits

(* The new item, and its upload session.                                   *)
PostItem(i) ==
  /\ task[i].at = "post"
  /\ \/ /\ site' = [site EXCEPT !.things = Posted(@, restore.up, i, "file", Me(i))]
        /\ \/ /\ task' = [task EXCEPT ![i].at = "upload", ![i].new = Len(site.things) + 1]
              /\ UNCHANGED restore
           \/ ItemFails(i)
     \/ ItemFails(i) /\ UNCHANGED site
  /\ UNCHANGED edits

(* Mutant: the upload goes on with the reader that it has.                 *)
Uploaded_SameReader(tries) == IF tries = 0 THEN "all" ELSE "rest"

(* What an upload that ends well stores: each retry fetches the file anew. *)
Uploaded(tries) == "all"

(* updateDeets adds what is restored to the details; that it cannot is only*)
(* logged.                                                                 *)
Upload(i) ==
  /\ task[i].at = "upload"
  /\ \/ /\ site.things[task[i].new].gone = "no"
        /\ site' = [site EXCEPT !.things[task[i].new].holds = Uploaded(task[i].tries)]
        /\ Done(i)
        /\ restore' = [restore EXCEPT !.restored = @ \cup {Me(i)}]
     \/ /\ task[i].tries < maxUploadRetries
        /\ task' = [task EXCEPT ![i].tries = @ + 1]
        /\ UNCHANGED <<site, restore>>
     \/ ItemFails(i) /\ UNCHANGED site
  /\ UNCHANGED edits

(* All have ended, or those that had begun when an error ended everything. *)
EndCollection ==
  /\ restore.at = "items"
  /\ \A i \in DOMAIN task : task[i].at = "done" \/ (restore.failed /\ task[i].at = "todo")
  /\ restore' = [restore EXCEPT !.at = "between"]
  /\ UNCHANGED <<site, task, edits>>

Cancel ==
  /\ restore.at # "ended" /\ ~restore.cancelled
  /\ restore' = [restore EXCEPT !.cancelled = TRUE]
  /\ UNCHANGED <<site, task, edits>>

(* When it is cancelled RestoreCollection waits for nobody and returns no  *)
(* error; goroutines of items that have begun go on.                       *)
LeaveCollection ==
  /\ restore.at = "items" /\ restore.cancelled
  /\ \E i \in DOMAIN task : task[i].at # "done"
  /\ restore' = [restore EXCEPT !.at = "between"]
  /\ UNCHANGED <<site, task, edits>>

EndRestore ==
  /\ restore.at = "between"
  /\ restore.failed \/ restore.next \notin DOMAIN Colls
  /\ restore' = [restore EXCEPT !.at = "ended"]
  /\ UNCHANGED <<site, task, edits>>

RestoreNext ==
  \/ BeginCollection \/ MakeFolder \/ ListCollisions \/ BeginFails
  \/ EndCollection \/ LeaveCollection \/ EndRestore
  \/ Cancel \/ PopulateFails
  \/ \E i \in DOMAIN task : StartItem(i) \/ DeleteOriginal(i) \/ PostItem(i) \/ Upload(i)
  \/ Others

RestoreSpec == RestoreInit /\ [][RestoreNext]_restoreVars

-----------------------------------------------------------------------------
(* Properties.                                                             *)

RestoreTypeOK ==
  /\ restore.at \in {"between", "folders", "items", "ended"}
  /\ \A t \in DOMAIN site.things :
       /\ site.things[t].kind \in {"file", "folder"}
       /\ site.things[t].gone \in {"no", "restore", "others"}
  /\ \A i \in DOMAIN task : task[i].at \in {"todo", "delete", "post", "upload", "done"}
  /\ edits \in 0..MaxEdits

(* The things that hold an item of the backup, whole.                      *)
Whole(me) ==
  {t \in DOMAIN site.things : site.things[t].from = me /\ site.things[t].holds = "all"
                              /\ site.things[t].gone # "restore"}

(* A later folder of the backup went to the same place, as when its drive  *)
(* was found by the name, with a file of the same name.                    *)
ReplacedLater(me) ==
  /\ restore.policy = "Replace"
  /\ \E c \in DOMAIN Colls : c > me[1] /\ me[2] \in Colls[c].items
  /\ \E t \in DOMAIN site.things :
       site.things[t].from = me /\ site.things[t].holds = "all"
                                /\ site.things[t].gone = "restore"

(* A restore that ends without a failure, and was not cancelled, accounts  *)
(* for each item: it was restored and is in the site, whole and once, or   *)
(* was until another item of the backup took its place; or it was left out *)
(* because the user asked for that and its name was taken; or there is an  *)
(* error that names it.                                                    *)
RestoredOrReported ==
  restore.at = "ended" /\ ~restore.failed /\ ~restore.cancelled =>
    \A c \in DOMAIN Colls : \A me \in AllItems(c) :
      \/ me \in restore.reported
      \/ me \in restore.restored /\ (Cardinality(Whole(me)) = 1 \/ ReplacedLater(me))
      \/ /\ me \in restore.skipped /\ restore.policy = "Skip"
         /\ \E t \in DOMAIN site.things :
              site.things[t].name = me[2] /\ site.things[t].from # me

(* A restore removes only a file that it was to replace, and then the new  *)
(* one is in its place, or still to come, or there is an error about it.   *)
OriginalsUnlessReplaced ==
  \A t \in DOMAIN site.things :
    site.things[t].gone = "restore" =>
      /\ restore.policy = "Replace" /\ site.things[t].kind = "file"
      /\ \E c \in DOMAIN Colls : \E me \in AllItems(c) :
           /\ me[2] = site.things[t].name
           /\ \/ me \in restore.reported
              \/ \E w \in Whole(me) : site.things[w].up = site.things[t].up
              \/ c = restore.coll /\ me[2] \in DOMAIN task /\ task[me[2]].at # "done"

(* "We recreate the folder hierarchy from the backup under the restore     *)
(* folder": the folders of one drive end up in one drive.                  *)
FoldersOfADriveStayTogether ==
  \A c, d \in DOMAIN restore.target :
    Colls[c].drive = Colls[d].drive /\ restore.target[c] # 0 /\ restore.target[d] # 0 =>
      restore.target[c] = restore.target[d]
=============================================================================
