-------------------------- MODULE IncrementalDrive --------------------------
(***************************************************************************)
(* Backups of one drive, each on top of the one before, while its user     *)
(* works: delta enumerations repeated until one finds nothing, the tree    *)
(* they fill, the collections made of it, their merge with the base, and   *)
(* the metadata that the next backup starts from.                          *)
(*                                                                         *)
(*   internal/m365/collection/drive/collections_tree.go, internal/kopia/,  *)
(*   internal/operations/backup.go                                         *)
(***************************************************************************)
EXTENDS DriveTree

CONSTANTS
  StartsWith, \* see HierarchyMerge
  FirstDrives,\* what the drive may hold at first: records [home, name]
  MaxOps,     \* bound: operations of the user
  MaxResets,  \* bound: delta tokens that expire
  MaxFails    \* bound: backups that fail

Merge == INSTANCE HierarchyMerge

VARIABLES
  home,    \* [Folders and Files -> their parent, Nowhere if never created]
  name,    \* [Folders -> Names]
  version, \* [Files -> Nat]
  bin,     \* what the user has deleted
  changed, \* what the service will report to the latest backup's delta token
  base,    \* the latest backup, see NoBase
  job,     \* the backup in progress, see IdleJob
  refused, \* a merge has failed
  ops, resets, fails

userVars == <<home, name, version, bin, ops>>
vars == <<home, name, version, bin, changed, base, job, refused, ops, resets, fails>>

Things == Folders \cup Files

(* A drive: nothing is in itself, what is in something is in what is there,*)
(* and folders in one folder have different names.                         *)
IsDrive(d) ==
  /\ d.home \in [Things -> Dirs \cup {Nowhere}]
  /\ d.name \in [Folders -> Names \cup {Nowhere}]
  /\ Forest(d.home)
  /\ \A x \in Things : d.home[x] \in Folders => d.home[d.home[x]] # Nowhere
  /\ \A x \in Folders : d.home[x] # Nowhere => d.name[x] \in Names
  /\ \A x, y \in Folders :
       d.home[x] = d.home[y] /\ d.home[x] # Nowhere /\ d.name[x] = d.name[y] => x = y

ASSUME DriveAssumption ==
  /\ MaxOps \in Nat /\ MaxResets \in Nat /\ MaxFails \in Nat
  /\ \A d \in FirstDrives : IsDrive(d)

-----------------------------------------------------------------------------
(* The drive.                                                              *)

(* What is in the bin is gone, and so is all that was in it.               *)
Parents == [x \in Things |-> IF x \in bin THEN Nowhere ELSE home[x]]

Existing == Below(Parents, Root)

FoldersNow == Folders \cap Existing

(* The path of a folder, or of the folder that a file is in.               *)
PlaceOf(x) == Paths(Parents, name)[IF x \in Files THEN home[x] ELSE x]

(* x and all that is in it, in the bin or not.                             *)
Inside(x) == {x} \cup Below(home, x)

FreeName(n, parent, x) ==
  \A y \in FoldersNow \ {x} : ~(home[y] = parent /\ name[y] = n)

NoBase ==
  [exists |-> FALSE, prevs |-> <<>>, snap |-> {}, details |-> {}, straight |-> TRUE]

IdleJob ==
  [running |-> FALSE, delta |-> FALSE, tree |-> EmptyTree, changed |-> {}]

(* An operation of the user on the things in S, which the service will     *)
(* report in answer to any delta token it gave out before.                 *)
Report(S) ==
  /\ ops < MaxOps
  /\ ops' = ops + 1
  /\ changed' = IF base.exists THEN changed \cup S ELSE changed
  /\ job' = [job EXCEPT !.changed = IF job.delta THEN @ \cup S ELSE @]
  /\ UNCHANGED <<base, refused, resets, fails>>

CreateFolder(x, parent, n) ==
  /\ home[x] = Nowhere
  /\ FreeName(n, parent, x)
  /\ home' = [home EXCEPT ![x] = parent]
  /\ name' = [name EXCEPT ![x] = n]
  /\ UNCHANGED <<version, bin>>
  /\ Report({x})

(* A rename, a move, or both: only the folder itself is reported.          *)
MoveFolder(x, parent, n) ==
  /\ x \in Existing
  /\ parent \notin Inside(x)
  /\ <<parent, n>> # <<home[x], name[x]>>
  /\ FreeName(n, parent, x)
  /\ home' = [home EXCEPT ![x] = parent]
  /\ name' = [name EXCEPT ![x] = n]
  /\ UNCHANGED <<version, bin>>
  /\ Report({x})

(* A folder is reported with all that was in it.                           *)
Delete(x) ==
  /\ x \in Existing
  /\ bin' = bin \cup {x}
  /\ UNCHANGED <<home, name, version>>
  /\ Report(Inside(x) \cap Existing)

Restore(x) ==
  /\ x \in bin
  /\ home[x] \in FoldersNow \cup {Root}
  /\ x \in Folders => FreeName(name[x], home[x], x)
  /\ bin' = bin \ {x}
  /\ UNCHANGED <<home, name, version>>
  /\ Report(Inside(x) \cap Existing')

CreateFile(f, parent) ==
  /\ home[f] = Nowhere
  /\ home' = [home EXCEPT ![f] = parent]
  /\ UNCHANGED <<name, version, bin>>
  /\ Report({f})

EditFile(f) ==
  /\ f \in Existing
  /\ version' = [version EXCEPT ![f] = @ + 1]
  /\ UNCHANGED <<home, name, bin>>
  /\ Report({f})

MoveFile(f, parent) ==
  /\ f \in Existing
  /\ home[f] # parent
  /\ home' = [home EXCEPT ![f] = parent]
  /\ UNCHANGED <<name, version, bin>>
  /\ Report({f})

User ==
  \/ \E x \in Folders, parent \in FoldersNow \cup {Root}, n \in Names :
       CreateFolder(x, parent, n) \/ MoveFolder(x, parent, n)
  \/ \E x \in Things : Delete(x) \/ Restore(x)
  \/ \E f \in Files, parent \in FoldersNow \cup {Root} :
       CreateFile(f, parent) \/ MoveFile(f, parent)
  \/ \E f \in Files : EditFile(f)

-----------------------------------------------------------------------------
(* The backup.                                                             *)

(* makeDriveCollections, with the delta token and the previous paths of    *)
(* the base; the first backup of the drive has neither.                    *)
StartBackup ==
  /\ ~job.running
  /\ job' = [IdleJob EXCEPT !.running = TRUE,
                            !.delta = base.exists,
                            !.changed = changed]
  /\ UNCHANGED <<userVars, changed, base, refused, resets, fails>>

(* The items of delta results: what has changed, and the folders that what *)
(* is there is in.                                                         *)
PageOf(reported) ==
  LET live == reported \cap Existing
  IN  (reported \ Existing) \cup (live \cap Files)
        \cup {x \in Folders : Inside(x) \cap live # {}} \cup {Root}

(* addFolderToTree and addFileToTree.                                      *)
InTree(t, x) ==
  IF x = Root THEN SetRoot(t)
  ELSE IF x \in Folders
       THEN IF x \in Existing THEN SetFolder(t, x, home[x], name[x]) ELSE SetTombstone(t, x)
       ELSE IF x \in Existing THEN AddFile(t, x, home[x], version[x]) ELSE DeleteFile(t, x)

(* The deleted come first, then each item after the folder it is in.       *)
FirstOf(items) ==
  CHOOSE x \in items :
    x \in Existing \cup {Root} =>
      /\ items \subseteq Existing \cup {Root}
      /\ x # Root => home[x] \notin items

(* enumeratePageOfItems: when the first n items of the page are in it, the *)
(* tree, and the items that are left.                                      *)
Added(tree, page) ==
  LET added[n \in 0..Cardinality(page)] ==
        IF n = 0 THEN [tree |-> tree, left |-> page]
        ELSE LET before == added[n - 1]
                 x      == FirstOf(before.left)
             IN  [tree |-> InTree(before.tree, x), left |-> before.left \ {x}]
  IN  added

AddPage(tree, page) == Added(tree, page)[Cardinality(page)].tree

(* One delta enumeration of populateTree that finds something: everything, *)
(* without a token or with one that has expired.                           *)
Enumerate(reset) ==
  /\ job.running
  /\ reset => job.delta /\ resets < MaxResets
  /\ ~reset /\ job.delta => job.changed # {}
  /\ job' = [job EXCEPT
       !.tree = AddPage(IF reset THEN ResetTree(@) ELSE @,
                        PageOf(IF reset \/ ~job.delta THEN Existing ELSE job.changed)),
       !.delta = TRUE,
       !.changed = {}]
  /\ resets' = IF reset THEN resets + 1 ELSE resets
  /\ UNCHANGED <<userVars, changed, base, refused, fails>>

(* A collection stays where a folder that moved away used to be.           *)
Replaces(colls) ==
  \E c, d \in colls : /\ Merge!Moved(c)
                      /\ Merge!NotMoved(d)
                      /\ IsStrictPrefix(c.prev, d.cur)

(* An enumeration finds nothing: the tree becomes collections, they are    *)
(* merged with the base, and the result is the next base, or the backup    *)
(* fails.                                                                  *)
Finish ==
  /\ job.running /\ job.delta /\ job.changed = {}
  /\ LET tree    == AddPrevPathsToTree(job.tree, base.prevs)
         colls   == Collectables(tree)
         exclude == IF tree.hadReset \/ ~base.exists THEN {} ELSE ExcludeItemIDs(tree)
         merged  == Merge!Merged(colls, exclude, base.snap)
     IN  IF Merge!Conflict(colls) \/ Merge!MergeFails(merged, base.details)
         THEN /\ refused' = TRUE
              /\ UNCHANGED <<base, changed>>
         ELSE /\ base' = [exists   |-> TRUE,
                          prevs    |-> NewPreviousPaths(colls, base.prevs),
                          snap     |-> Merge!Snapshot(merged),
                          details  |-> Merge!Details(colls, merged, base.details),
                          straight |-> base.straight /\ ~Replaces(colls)]
              /\ changed' = {}
              /\ UNCHANGED refused
  /\ job' = IdleJob
  /\ UNCHANGED <<userVars, resets, fails>>

(* The backup ends early; the next one starts from the same base.          *)
Fail ==
  /\ job.running
  /\ fails < MaxFails
  /\ fails' = fails + 1
  /\ job' = IdleJob
  /\ UNCHANGED <<userVars, changed, base, refused, resets>>

Init ==
  /\ \E d \in FirstDrives : home = d.home /\ name = d.name
  /\ version = [f \in Files |-> 1]
  /\ bin = {} /\ changed = {}
  /\ base = NoBase /\ job = IdleJob
  /\ refused = FALSE
  /\ ops = 0 /\ resets = 0 /\ fails = 0

Next ==
  \/ User
  \/ StartBackup
  \/ \E reset \in BOOLEAN : Enumerate(reset)
  \/ Finish
  \/ Fail

Spec == Init /\ [][Next]_vars

-----------------------------------------------------------------------------
(* Properties.                                                             *)

(* The tree of a backup is one: every live node but the root is in a node  *)
(* of the tree, a folder is live or a tombstone, not both, and a file that *)
(* the tree holds is in the one collection that it is registered for.      *)
TypeOK ==
  /\ home \in [Things -> Dirs \cup {Nowhere}]
  /\ version \in [Files -> 1..MaxOps + 1]
  /\ bin \subseteq Things
  /\ changed \subseteq Things /\ job.changed \subseteq Things
  /\ job.tree.live \subseteq Dirs
  /\ job.tree.live \cap job.tree.tombstones = {}
  /\ \A x \in job.tree.live \ {Root} : job.tree.up[x] \in Dirs
  /\ \A f \in Files : \A x \in Dirs :
       f \in job.tree.files[x] => job.tree.fileParent[f] = x
  /\ ops \in 0..MaxOps /\ resets \in 0..MaxResets /\ fails \in 0..MaxFails

(* What a full backup would store now.                                     *)
DriveNow ==
  {[dir |-> PlaceOf(f), name |-> f, content |-> version[f]] : f \in Files \cap Existing}
    \cup {[dir |-> PlaceOf(x), name |-> ".dirmeta", content |-> x] : x \in FoldersNow}

MirrorOfDrive == INSTANCE Mirror WITH drive <- DriveNow, mirror <- base.snap

(* Whatever the user does before, between and during backups, and whether  *)
(* tokens expire or not, a backup that is finished holds every file and    *)
(* the metadata of every folder, in its last version, where it is in the   *)
(* drive, and nothing else; no other step changes what is stored.          *)
ImplementsMirror == MirrorOfDrive!Spec

(* The previous paths that a backup leaves to the next one are those of    *)
(* the folders of the drive, the ones that no delta reported included      *)
(* (generateNewPreviousPaths).                                             *)
PrevPathsFollowFolders ==
  [][base' # base =>
       base'.prevs = [x \in FoldersNow \cup {Root} |-> PlaceOf(x)]]_vars

(* No sequence of operations makes the collections of a backup contradict  *)
(* each other or the base, or makes it lose track of the details of an     *)
(* item ("incomplete migration of backup details").                        *)
NeverRefused == ~refused

(* The location shown for an item is the folder it is in, also when only a *)
(* folder above was renamed or moved; unless something was put where a     *)
(* folder was before it moved.                                             *)
LocationsMatchUnlessReplaced ==
  \A e \in base.details : e.loc = e.dir \/ ~base.straight

(* The location shown for an item is the folder it is in.                  *)
LocationsMatch == \A e \in base.details : e.loc = e.dir
=============================================================================
