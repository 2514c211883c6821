------------------------------ MODULE DriveTree ------------------------------
(***************************************************************************)
(* folderyMcFolderFace: what one backup learns about a drive from the      *)
(* pages of its delta enumerations, keyed by folder and file IDs, and the  *)
(* collections, previous paths and exclusions it turns that into.          *)
(*                                                                         *)
(*   internal/m365/collection/drive/delta_tree.go                          *)
(*                                                                         *)
(* A path is a sequence of names, relative to the root of the drive.       *)
(***************************************************************************)
EXTENDS Integers, FiniteSets, Forests

CONSTANTS
  Folders,   \* the IDs of the folders without that of the root
  Files,     \* the IDs of files
  Names      \* names of folders

(* IDs are unique, and nil is neither an ID nor a path; the metadata of a  *)
(* folder is stored under a name that no file has.                         *)
ASSUME IDAssumption ==
  /\ ".dirmeta" \notin Files
  /\ IsFiniteSet(Folders) /\ IsFiniteSet(Files) /\ Folders \cap Files = {}
  /\ Root \notin Folders \cup Files
  /\ Nowhere \notin Folders \cup Files \cup {Root}
  /\ Nowhere \notin Seq(Names)

Dirs == Folders \cup {Root}

-----------------------------------------------------------------------------
(* The tree.  live is folderIDToNode (a node may be live and not reachable *)
(* from the root), up is node.parent, and a node's children are the nodes  *)
(* whose parent it is.                                                     *)

EmptyTree ==
  [live       |-> {},
   tombstones |-> {},
   up         |-> [x \in Dirs |-> Nowhere],
   name       |-> [x \in Folders |-> Nowhere],
   prev       |-> [x \in Dirs |-> Nowhere],
   files      |-> [x \in Dirs |-> {}],        \* node.files, by ID
   version    |-> [f \in Files |-> 0],        \* the file's last metadata
   fileParent |-> [f \in Files |-> Nowhere],  \* fileIDToParentID
   deleted    |-> {},                         \* deletedFileIDs
   hadReset   |-> FALSE]

(* reset: deletedFileIDs is not cleared.                                   *)
ResetTree(t) == [EmptyTree EXCEPT !.hadReset = TRUE, !.deleted = t.deleted]

SetRoot(t) == [t EXCEPT !.live = @ \cup {Root}]

(* A new folder, an update, a move or the return of a tombstoned folder,   *)
(* whose node is used again.  Skipped, with an error, before its parent.   *)
SetFolder(t, x, parent, name) ==
  IF parent \notin t.live THEN t
  ELSE [t EXCEPT !.live = @ \cup {x},
                 !.tombstones = @ \ {x},
                 !.up[x] = parent,
                 !.name[x] = name]

(* A node that is live becomes the tombstone, with its files.              *)
SetTombstone(t, x) ==
  [t EXCEPT !.live = @ \ {x},
            !.tombstones = @ \cup {x},
            !.up[x] = Nowhere]

(* setPreviousPath: of a folder that was not enumerated it is dropped, but  *)
(* after a reset it is the only trace of the folder's deletion.            *)
TakesPreviousPath(t, x) == x \in t.live \cup t.tombstones \/ t.hadReset

(* prevs is a partial function from folder IDs to paths.                   *)
AddPrevPathsToTree(t, prevs) ==
  LET taken == {x \in DOMAIN prevs : TakesPreviousPath(t, x)}
  IN  [t EXCEPT !.prev = [x \in Dirs |-> IF x \in taken THEN prevs[x] ELSE @[x]],
                !.tombstones = @ \cup (taken \ t.live)]

(* Mutant: a file that moves stays in the collection it leaves.            *)
AddFile_KeepsOld(t, f, parent, version) ==
  IF parent \notin t.live THEN t
  ELSE [t EXCEPT !.files[parent] = @ \cup {f},
                 !.version[f] = version,
                 !.fileParent[f] = parent,
                 !.deleted = @ \ {f}]

AddFile(t, f, parent, version) ==
  LET left == [x \in Dirs |-> IF x # parent /\ x = t.fileParent[f]
                              THEN t.files[x] \ {f} ELSE t.files[x]]
  IN  IF parent \notin t.live THEN [t EXCEPT !.files = left]
      ELSE [t EXCEPT !.files = [left EXCEPT ![parent] = @ \cup {f}],
                     !.version[f] = version,
                     !.fileParent[f] = parent,
                     !.deleted = @ \ {f}]

DeleteFile(t, f) ==
  [t EXCEPT !.files = [x \in Dirs |-> IF x = t.fileParent[f]
                                      THEN t.files[x] \ {f} ELSE t.files[x]],
            !.fileParent[f] = Nowhere,
            !.deleted = @ \cup {f}]

-----------------------------------------------------------------------------
(* Post-processing.                                                        *)

PathIn(t, x) == Paths(t.up, t.name)[x]

(* walkTreeAndBuildCollections reaches the nodes below the root.           *)
Reachable(t) ==
  {x \in t.live : Root \in t.live /\ x \in Below(t.up, Root) \cup {Root}}

(* An entry of a directory: a file, or the metadata of the folder itself.  *)
File(f, v) == [name |-> f, content |-> v]
DirMeta(x) == [name |-> ".dirmeta", content |-> x]

FilesOf(t, x) ==
  {File(f, t.version[f]) : f \in t.files[x]}
    \cup (IF x = Root THEN {} ELSE {DirMeta(x)})

(* The collections: the folders of the tree, and the tombstones of folders *)
(* that an earlier backup stored.                                          *)
Collectables(t) ==
  LET collection(x, cur, files) ==
        [id |-> x, cur |-> cur, prev |-> t.prev[x], files |-> files, removed |-> {},
         reset |-> t.hadReset, loc |-> cur, prevLoc |-> t.prev[x]]
  IN  {collection(x, PathIn(t, x), FilesOf(t, x)) : x \in Reachable(t)}
        \cup {collection(x, Nowhere, {}) : x \in {y \in t.tombstones : t.prev[y] # Nowhere}}

(* Mutant: what happens to a folder does not cascade to those in it.       *)
NewPreviousPaths_NoCascade(colls, prevs) ==
  LET live   == {c \in colls : c.cur # Nowhere}
      dead   == {c.prev : c \in colls \ live}
      seen   == {c.id : c \in live}
      unseen == {x \in DOMAIN prevs \ seen : prevs[x] \notin dead}
  IN  [x \in seen \cup unseen |->
         IF x \in seen THEN (CHOOSE c \in live : c.id = x).cur ELSE prevs[x]]

(* generateNewPreviousPaths.  A folder that was not enumerated has gone    *)
(* where its parent went, from the root down: with a tombstone, along with *)
(* a move, or nowhere.                                                     *)
NewPreviousPaths(colls, prevs) ==
  LET live   == {c \in colls : c.cur # Nowhere}
      dead   == {c.prev : c \in colls \ live}
      seen   == {c.id : c \in live}
      unseen == {x \in DOMAIN prevs \ seen : prevs[x] \notin dead}
      old    == {prevs[x] : x \in unseen}
      moved(p) == {c \in live : c.prev = p /\ c.cur # p}
      goes[p \in old] ==
        IF p = <<>> THEN p
        ELSE LET parent == Front(p)
             IN  IF parent \in dead THEN Nowhere
                 ELSE IF parent \in old
                      THEN IF goes[parent] = Nowhere THEN Nowhere
                           ELSE Append(goes[parent], Last(p))
                 ELSE IF moved(parent) # {}
                      THEN Append((CHOOSE c \in moved(parent) : TRUE).cur, Last(p))
                 ELSE p
      kept == {x \in unseen : goes[prevs[x]] # Nowhere}
  IN  [x \in seen \cup kept |->
         IF x \in seen THEN (CHOOSE c \in live : c.id = x).cur ELSE goes[prevs[x]]]

(* Files of folders that are live, reachable or not, and deleted files.    *)
ExcludeItemIDs(t) ==
  {f \in Files : t.fileParent[f] \in t.live} \cup t.deleted
=============================================================================
