--------------------------- MODULE HierarchyMerge ---------------------------
(***************************************************************************)
(* How a snapshot is made of the collections of a backup and the base      *)
(* snapshot, and its details of fresh ones and those of the base backup.   *)
(*                                                                         *)
(*   internal/kopia/upload.go, internal/kopia/merge_details.go,            *)
(*   internal/operations/backup.go                                         *)
(*                                                                         *)
(* A snapshot is a set of entries [dir, name, content]; a directory without*)
(* entries is not kept.  Collections are records [id, cur, prev, files,    *)
(* removed, reset, loc, prevLoc]: cur and prev are paths or Nowhere,       *)
(* removed the names of deleted items, reset is DoNotMergeItems, loc is    *)
(* LocationPath and prevLoc PreviousLocationPath, Nowhere if it has none.  *)
(* Details are records [dir, name, content, loc]: an item's place in the   *)
(* snapshot, and the location shown to the user.                           *)
(***************************************************************************)
EXTENDS Integers, FiniteSets, SequencesExt

CONSTANTS
  Nowhere,   \* no path
  StartsWith \* pairs of names <<n, m>> where the string m starts with n

Deleted(c)  == c.cur = Nowhere
New(c)      == c.cur # Nowhere /\ c.prev = Nowhere
Moved(c)    == c.cur # Nowhere /\ c.prev # Nowhere /\ c.cur # c.prev
NotMoved(c) == c.cur # Nowhere /\ c.cur = c.prev

-----------------------------------------------------------------------------
(* inflateCollectionTree.                                                  *)

(* updatedPaths: where every directory that a collection names has gone.   *)
UpdatedPaths(colls) ==
  LET named == {c \in colls : c.prev # Nowhere}
  IN  [p \in {c.prev : c \in named} |-> (CHOOSE c \in named : c.prev = p).cur]

(* Two collections for one old or one new path, or an old path that was    *)
(* left by one folder and kept by another, make the backup fail.           *)
Conflict(colls) ==
  \E c, d \in colls :
    \/ c # d /\ c.prev # Nowhere /\ c.prev = d.prev
    \/ c # d /\ c.cur # Nowhere /\ c.cur = d.cur
    \/ (Deleted(c) \/ Moved(c)) /\ NotMoved(d) /\ c.prev = d.cur

-----------------------------------------------------------------------------
(* inflateBaseTree and traverseBaseDir.                                    *)

PrefixesOf(p) == {SubSeq(p, 1, n) : n \in 0..Len(p)}

BaseDirs(snap) == (UNION {PrefixesOf(e.dir) : e \in snap}) \cup {<<>>}

(* Where each base directory is now: where a collection says, or else in   *)
(* its parent.                                                             *)
CurrentPaths(snap, updated) ==
  LET current[d \in BaseDirs(snap)] ==
        IF d \in DOMAIN updated THEN updated[d]
        ELSE IF d = <<>> THEN <<>>
        ELSE LET parent == current[Front(d)]
             IN  IF parent = Nowhere THEN Nowhere ELSE Append(parent, Last(d))
  IN  current

(* Mutant: only what comes in is looked for.                               *)
SubtreeChanged_NewOnly(colls, updated, old, current) ==
  /\ current # Nowhere
  /\ \E c \in colls : ~Deleted(c) /\ IsPrefix(current, c.cur)

(* Something is in the new subtree, or something has left the old one.     *)
SubtreeChanged(colls, updated, old, current) ==
  \/ /\ current # Nowhere
     /\ \E c \in colls : ~Deleted(c) /\ IsPrefix(current, c.cur)
  \/ \E p \in DOMAIN updated : IsStrictPrefix(old, p)

(* The base directories that are streamed into the new snapshot, and where *)
(* to: one at a time, or, when nothing in it changed, a whole subtree.     *)
Sources(colls, snap) ==
  LET updated == UpdatedPaths(colls)
      current == CurrentPaths(snap, updated)
      changed == [d \in BaseDirs(snap) |->
                    SubtreeChanged(colls, updated, d, current[d])]
      visited(d) == \A a \in PrefixesOf(d) \ {d} : changed[a]
      skipped(n) == \E c \in colls : c.cur = n /\ (c.reset \/ New(c))
  IN  {[from |-> d, to |-> current[d], whole |-> ~changed[d]] :
         d \in {x \in BaseDirs(snap) :
                  /\ visited(x)
                  /\ current[x] # Nowhere
                  /\ changed[x] => \E e \in snap : e.dir = x
                  /\ ~skipped(current[x])}}

-----------------------------------------------------------------------------
(* corsoDirectoryIterator: what each directory of the new snapshot streams.*)
(* from is the directory that an item's details are found under, and loc   *)
(* the location of its collection, if it has one.                          *)

(* The entries of a collection; those kopia has stored before at the same  *)
(* path (cached) have their details in the base.                           *)
StreamEntries(colls, snap) ==
  UNION {{[dir |-> c.cur, name |-> f.name, content |-> f.content, loc |-> c.loc,
           from |-> IF [dir |-> c.cur, name |-> f.name, content |-> f.content] \in snap
                    THEN c.cur ELSE Nowhere] :
            f \in c.files} :
         c \in {x \in colls : ~Deleted(x)}}

BaseEntriesOf(colls, exclude, snap, s) ==
  LET there == {c \in colls : c.cur = s.to}
      seen  == UNION {{f.name : f \in c.files} \cup c.removed : c \in there}
      loc   == IF there = {} THEN Nowhere ELSE (CHOOSE c \in there : TRUE).loc
      mine  == {e \in snap : /\ IF s.whole THEN IsPrefix(s.from, e.dir) ELSE e.dir = s.from
                             /\ e.name \notin exclude
                             /\ e.dir = s.from => e.name \notin seen}
  IN  {[dir |-> s.to \o SubSeq(e.dir, Len(s.from) + 1, Len(e.dir)),
        name |-> e.name, content |-> e.content, from |-> e.dir,
        loc |-> IF e.dir = s.from THEN loc ELSE Nowhere] : e \in mine}

(* All entries of the new snapshot.                                        *)
Merged(colls, exclude, snap) ==
  StreamEntries(colls, snap) \cup
  UNION {BaseEntriesOf(colls, exclude, snap, s) : s \in Sources(colls, snap)}

Snapshot(merged) ==
  {[dir |-> m.dir, name |-> m.name, content |-> m.content] : m \in merged}

-----------------------------------------------------------------------------
(* mergeDetails.                                                           *)

Items(merged) == {m \in merged : m.name # ".dirmeta"}

(* strings.HasPrefix on paths joined by a separator.                       *)
HasPrefix(p, q) ==
  \/ IsPrefix(q, p)
  \/ /\ q # <<>>
     /\ Len(q) <= Len(p)
     /\ SubSeq(p, 1, Len(q) - 1) = Front(q)
     /\ <<Last(q), p[Len(q)]>> \in StartsWith

(* Mutant: the locations of moved folders are not applied to others.       *)
NewLocation_Noop(colls, loc) == loc

(* GetNewPathRefs, for an item whose folder has no collection: the longest *)
(* moved location that the string starts with, if it is a parent of it.    *)
NewLocation(colls, loc) ==
  LET keys == {c \in colls : Moved(c) /\ c.prevLoc # Nowhere /\ HasPrefix(loc, c.prevLoc)}
  IN  IF keys = {} THEN loc
      ELSE LET k == CHOOSE k \in keys : \A j \in keys : HasPrefix(k.prevLoc, j.prevLoc)
           IN  IF IsPrefix(k.prevLoc, loc)
               THEN k.loc \o SubSeq(loc, Len(k.prevLoc) + 1, Len(loc))
               ELSE loc

(* Mutant: old details are looked up where the item is now.                *)
Old_ByNewPath(details, m) ==
  {d \in details : d.dir = m.dir /\ d.name = m.name /\ d.content = m.content}

(* The entry of the base details for an item of the base, same version.    *)
Old(details, m) ==
  {d \in details : d.dir = m.from /\ d.name = m.name /\ d.content = m.content}

(* An item whose old details are not found, or are asked for twice, makes  *)
(* the backup fail: "incomplete migration of backup details".              *)
MergeFails(merged, details) ==
  \/ \E m \in Items(merged) : m.from # Nowhere /\ Old(details, m) = {}
  \/ \E m, n \in Items(merged) :
       m # n /\ m.from # Nowhere /\ m.from = n.from /\ m.name = n.name

Details(colls, merged, details) ==
  {[dir |-> m.dir, name |-> m.name, content |-> m.content,
    loc |-> IF m.loc # Nowhere THEN m.loc
            ELSE NewLocation(colls, (CHOOSE d \in Old(details, m) : TRUE).loc)] :
     m \in Items(merged)}
=============================================================================
