--------------------------- MODULE DriveTree_proofs ---------------------------
(***************************************************************************)
(* The operators of DriveTree: what one item of a page does to the tree.   *)
(***************************************************************************)
EXTENDS DriveTree, Forests_proofs

-----------------------------------------------------------------------------
(* The tree while pages are added: no folder has its previous path yet.    *)

Trees ==
  [live       : SUBSET Dirs,
   tombstones : SUBSET Folders,
   up         : [Dirs -> Dirs \cup {Nowhere}],
   name       : [Folders -> Names \cup {Nowhere}],
   prev       : {[x \in Dirs |-> Nowhere]},
   files      : [Dirs -> SUBSET Files],
   version    : [Files -> Nat],
   fileParent : [Files -> Dirs \cup {Nowhere}],
   deleted    : SUBSET Files,
   hadReset   : BOOLEAN]

(* A folder is live or a tombstone, not both; live ones have a parent; a   *)
(* file is in the collection that it is registered for, and in no other,   *)
(* or deleted; and there is nothing without the root.                      *)
TreeIsOne(t) ==
  /\ t.live \cap t.tombstones = {}
  /\ \A x \in Dirs : x \in t.live \ {Root} <=> t.up[x] # Nowhere
  /\ \A f \in Files, x \in Dirs : f \in t.files[x] <=> t.fileParent[f] = x
  /\ \A f \in t.deleted : t.fileParent[f] = Nowhere
  /\ t.live # {} => Root \in t.live

(* What the trees t and u know of x is the same.                           *)
SameOf(t, u, x) ==
  IF x \in Files
  THEN /\ t.fileParent[x] = u.fileParent[x] /\ t.version[x] = u.version[x]
       /\ x \in t.deleted <=> x \in u.deleted
  ELSE /\ x \in t.live <=> x \in u.live
       /\ x \in Folders => /\ x \in t.tombstones <=> x \in u.tombstones
                           /\ t.up[x] = u.up[x] /\ t.name[x] = u.name[x]

(* From t to u, only what is known of x changes.                           *)
OnlyChanges(t, u, x) ==
  /\ u \in Trees /\ TreeIsOne(u)
  /\ u.hadReset = t.hadReset
  /\ \A y \in (Dirs \cup Files) \ {x} : SameOf(t, u, y)

(* What each operation of the tree changes.                                *)
LEMMA SetRootChanges ==
  ASSUME NEW t \in Trees, TreeIsOne(t)
  PROVE  OnlyChanges(t, SetRoot(t), Root) /\ Root \in SetRoot(t).live
  <1> DEFINE u == SetRoot(t)
  <1>1. u \in Trees /\ u = [t EXCEPT !.live = t.live \cup {Root}]
    BY DEF SetRoot, Trees, Dirs
  <1>2. /\ u.live = t.live \cup {Root}
        /\ u.tombstones = t.tombstones /\ u.up = t.up /\ u.name = t.name
        /\ u.files = t.files /\ u.version = t.version
        /\ u.fileParent = t.fileParent /\ u.deleted = t.deleted /\ u.hadReset = t.hadReset
    BY <1>1 DEF Trees
  <1> HIDE DEF u
  <1>3. TreeIsOne(u)
    BY <1>2, IDAssumption DEF TreeIsOne, Trees
  <1>4. \A y \in (Dirs \cup Files) \ {Root} : SameOf(t, u, y)
    BY <1>2 DEF SameOf
  <1> QED BY <1>1, <1>2, <1>3, <1>4 DEF OnlyChanges, u

LEMMA SetFolderChanges ==
  ASSUME NEW t \in Trees, TreeIsOne(t),
         NEW x \in Folders, NEW parent \in t.live, NEW n \in Names
  PROVE  LET u == SetFolder(t, x, parent, n)
         IN  /\ OnlyChanges(t, u, x)
             /\ x \in u.live /\ u.up[x] = parent /\ u.name[x] = n
  <1> DEFINE u == SetFolder(t, x, parent, n)
  <1>1. u = [t EXCEPT !.live = t.live \cup {x}, !.tombstones = t.tombstones \ {x},
                      !.up = [t.up EXCEPT ![x] = parent], !.name = [t.name EXCEPT ![x] = n]]
    BY DEF SetFolder, Trees
  <1>2. /\ u.live = t.live \cup {x} /\ u.tombstones = t.tombstones \ {x}
        /\ u.up = [t.up EXCEPT ![x] = parent] /\ u.name = [t.name EXCEPT ![x] = n]
        /\ u.files = t.files /\ u.version = t.version
        /\ u.fileParent = t.fileParent /\ u.deleted = t.deleted /\ u.hadReset = t.hadReset
    BY <1>1 DEF Trees
  <1>3. parent \in Dirs /\ x \in Dirs
    BY DEF Trees, Dirs
  <1> HIDE DEF u
  <1>4. u \in Trees
    <2>1. /\ t.live \cup {x} \in SUBSET Dirs /\ t.tombstones \ {x} \in SUBSET Folders
          /\ [t.up EXCEPT ![x] = parent] \in [Dirs -> Dirs \cup {Nowhere}]
          /\ [t.name EXCEPT ![x] = n] \in [Folders -> Names \cup {Nowhere}]
      BY <1>3 DEF Trees
    <2> QED BY <1>1, <2>1 DEF Trees
  <1>5. TreeIsOne(u)
    <2>1. \A y \in Dirs : u.up[y] = IF y = x THEN parent ELSE t.up[y]
      BY <1>2 DEF Trees
    <2> QED BY <1>2, <1>3, <2>1, IDAssumption DEF TreeIsOne, Dirs
  <1>6. \A y \in (Dirs \cup Files) \ {x} : SameOf(t, u, y)
    BY <1>2 DEF SameOf, Trees, Dirs
  <1>7. x \in u.live /\ u.up[x] = parent /\ u.name[x] = n
    BY <1>2, <1>3 DEF Trees
  <1> QED BY <1>2, <1>4, <1>5, <1>6, <1>7 DEF OnlyChanges, u

LEMMA SetTombstoneChanges ==
  ASSUME NEW t \in Trees, TreeIsOne(t), NEW x \in Folders
  PROVE  OnlyChanges(t, SetTombstone(t, x), x) /\ x \in SetTombstone(t, x).tombstones
  <1> DEFINE u == SetTombstone(t, x)
  <1>1. u = [t EXCEPT !.live = t.live \ {x}, !.tombstones = t.tombstones \cup {x},
                      !.up = [t.up EXCEPT ![x] = Nowhere]]
    BY DEF SetTombstone, Trees
  <1>2. /\ u.live = t.live \ {x} /\ u.tombstones = t.tombstones \cup {x}
        /\ u.up = [t.up EXCEPT ![x] = Nowhere] /\ u.name = t.name
        /\ u.files = t.files /\ u.version = t.version
        /\ u.fileParent = t.fileParent /\ u.deleted = t.deleted /\ u.hadReset = t.hadReset
    BY <1>1 DEF Trees
  <1> HIDE DEF u
  <1>3. u \in Trees
    <2>1. /\ t.live \ {x} \in SUBSET Dirs /\ t.tombstones \cup {x} \in SUBSET Folders
          /\ [t.up EXCEPT ![x] = Nowhere] \in [Dirs -> Dirs \cup {Nowhere}]
      BY DEF Trees
    <2> QED BY <1>1, <2>1 DEF Trees
  <1>4. TreeIsOne(u)
    <2>1. \A y \in Dirs : u.up[y] = IF y = x THEN Nowhere ELSE t.up[y]
      BY <1>2 DEF Trees
    <2> QED BY <1>2, <2>1, IDAssumption DEF TreeIsOne, Dirs
  <1>5. \A y \in (Dirs \cup Files) \ {x} : SameOf(t, u, y)
    BY <1>2 DEF SameOf, Trees, Dirs
  <1> QED BY <1>2, <1>3, <1>4, <1>5 DEF OnlyChanges, u

LEMMA AddFileChanges ==
  ASSUME NEW t \in Trees, TreeIsOne(t),
         NEW f \in Files, NEW parent \in t.live, NEW v \in Nat
  PROVE  LET u == AddFile(t, f, parent, v)
         IN  OnlyChanges(t, u, f) /\ u.fileParent[f] = parent /\ u.version[f] = v
  <1> DEFINE u == AddFile(t, f, parent, v)
             left == [x \in Dirs |-> IF x # parent /\ x = t.fileParent[f]
                                     THEN t.files[x] \ {f} ELSE t.files[x]]
             files == [left EXCEPT ![parent] = left[parent] \cup {f}]
  <1>1. u = [t EXCEPT !.files = files, !.version = [t.version EXCEPT ![f] = v],
                      !.fileParent = [t.fileParent EXCEPT ![f] = parent],
                      !.deleted = t.deleted \ {f}]
    BY DEF AddFile, Trees
  <1>2. parent \in Dirs
    BY DEF Trees
  <1>3. files \in [Dirs -> SUBSET Files]
    BY <1>2 DEF Trees
  <1>4. \A x \in Dirs : files[x] = IF x = parent THEN t.files[x] \cup {f}
                                   ELSE IF x = t.fileParent[f] THEN t.files[x] \ {f}
                                   ELSE t.files[x]
    BY <1>2
  <1> HIDE DEF files
  <1>5. /\ u.files = files /\ u.version = [t.version EXCEPT ![f] = v]
        /\ u.fileParent = [t.fileParent EXCEPT ![f] = parent]
        /\ u.deleted = t.deleted \ {f} /\ u.live = t.live /\ u.tombstones = t.tombstones
        /\ u.up = t.up /\ u.name = t.name /\ u.hadReset = t.hadReset
    BY <1>1 DEF Trees
  <1> HIDE DEF u
  <1>6. u \in Trees
    <2>1. /\ [t.version EXCEPT ![f] = v] \in [Files -> Nat]
          /\ [t.fileParent EXCEPT ![f] = parent] \in [Files -> Dirs \cup {Nowhere}]
          /\ t.deleted \ {f} \in SUBSET Files
      BY <1>2 DEF Trees
    <2> QED BY <1>1, <1>3, <2>1 DEF Trees
  <1>7. /\ \A g \in Files : u.fileParent[g] = IF g = f THEN parent ELSE t.fileParent[g]
        /\ \A g \in Files : u.version[g] = IF g = f THEN v ELSE t.version[g]
    BY <1>5 DEF Trees
  <1>8. TreeIsOne(u)
    <2>1. \A g \in Files, x \in Dirs : g \in u.files[x] <=> u.fileParent[g] = x
      <3> SUFFICES ASSUME NEW g \in Files, NEW x \in Dirs
                   PROVE  g \in files[x] <=> u.fileParent[g] = x
        BY <1>5
      <3>1. g \in t.files[x] <=> t.fileParent[g] = x
        BY DEF TreeIsOne
      <3>2. CASE g = f
        <4>1. CASE x = parent
          BY <1>4, <1>7, <3>2, <4>1
        <4>2. CASE x # parent
          <5>1. g \in files[x] <=> g \in t.files[x] /\ t.fileParent[f] # x
            BY <1>4, <3>2, <4>2
          <5> QED BY <1>7, <3>1, <3>2, <4>2, <5>1
        <4> QED BY <4>1, <4>2
      <3>3. CASE g # f
        <4>1. g \in files[x] <=> g \in t.files[x]
          BY <1>4, <3>3
        <4> QED BY <1>7, <3>1, <3>3, <4>1
      <3> QED BY <3>2, <3>3
    <2>2. \A g \in u.deleted : u.fileParent[g] = Nowhere
      BY <1>5, <1>7 DEF TreeIsOne, Trees
    <2> QED BY <1>5, <2>1, <2>2 DEF TreeIsOne
  <1>9. \A y \in (Dirs \cup Files) \ {f} : SameOf(t, u, y)
    BY <1>5, <1>7 DEF SameOf
  <1> QED BY <1>5, <1>6, <1>7, <1>8, <1>9 DEF OnlyChanges, u

LEMMA DeleteFileChanges ==
  ASSUME NEW t \in Trees, TreeIsOne(t), NEW f \in Files
  PROVE  OnlyChanges(t, DeleteFile(t, f), f) /\ f \in DeleteFile(t, f).deleted
  <1> DEFINE u == DeleteFile(t, f)
             files == [x \in Dirs |-> IF x = t.fileParent[f]
                                      THEN t.files[x] \ {f} ELSE t.files[x]]
  <1>1. u = [t EXCEPT !.files = files, !.fileParent = [t.fileParent EXCEPT ![f] = Nowhere],
                      !.deleted = t.deleted \cup {f}]
    BY DEF DeleteFile, Trees
  <1>2. files \in [Dirs -> SUBSET Files]
    BY DEF Trees
  <1>3. \A x \in Dirs : files[x] = IF x = t.fileParent[f] THEN t.files[x] \ {f} ELSE t.files[x]
    OBVIOUS
  <1> HIDE DEF files
  <1>4. /\ u.files = files /\ u.fileParent = [t.fileParent EXCEPT ![f] = Nowhere]
        /\ u.deleted = t.deleted \cup {f} /\ u.version = t.version
        /\ u.live = t.live /\ u.tombstones = t.tombstones
        /\ u.up = t.up /\ u.name = t.name /\ u.hadReset = t.hadReset
    BY <1>1 DEF Trees
  <1> HIDE DEF u
  <1>5. u \in Trees
    <2>1. /\ [t.fileParent EXCEPT ![f] = Nowhere] \in [Files -> Dirs \cup {Nowhere}]
          /\ t.deleted \cup {f} \in SUBSET Files
      BY DEF Trees
    <2> QED BY <1>1, <1>2, <2>1 DEF Trees
  <1>6. \A g \in Files : u.fileParent[g] = IF g = f THEN Nowhere ELSE t.fileParent[g]
    BY <1>4 DEF Trees
  <1>7. TreeIsOne(u)
    <2>1. \A g \in Files, x \in Dirs : g \in u.files[x] <=> u.fileParent[g] = x
      <3> SUFFICES ASSUME NEW g \in Files, NEW x \in Dirs
                   PROVE  g \in files[x] <=> u.fileParent[g] = x
        BY <1>4
      <3>1. (g \in t.files[x] <=> t.fileParent[g] = x) /\ x # Nowhere
        BY IDAssumption DEF TreeIsOne, Dirs
      <3>2. CASE g = f
        BY <1>3, <1>6, <3>1, <3>2
      <3>3. CASE g # f
        BY <1>3, <1>6, <3>1, <3>3
      <3> QED BY <3>2, <3>3
    <2>2. \A g \in u.deleted : u.fileParent[g] = Nowhere
      BY <1>4, <1>6 DEF TreeIsOne, Trees
    <2> QED BY <1>4, <2>1, <2>2 DEF TreeIsOne
  <1>8. \A y \in (Dirs \cup Files) \ {f} : SameOf(t, u, y)
    BY <1>4, <1>6 DEF SameOf
  <1> QED BY <1>4, <1>5, <1>6, <1>7, <1>8 DEF OnlyChanges, u

LEMMA EmptyTrees ==
  /\ EmptyTree \in Trees /\ TreeIsOne(EmptyTree)
  /\ \A t \in Trees : ResetTree(t) \in Trees /\ TreeIsOne(ResetTree(t))
  <1>1. EmptyTree \in Trees
    BY DEF EmptyTree, Trees
  <1>2. TreeIsOne(EmptyTree)
    BY IDAssumption DEF EmptyTree, TreeIsOne, Dirs
  <1>3. ASSUME NEW t \in Trees PROVE ResetTree(t) \in Trees /\ TreeIsOne(ResetTree(t))
    <2> DEFINE u == ResetTree(t)
    <2>1. u = [EmptyTree EXCEPT !.hadReset = TRUE, !.deleted = t.deleted]
      BY DEF ResetTree
    <2>2. t.deleted \in SUBSET Files
      BY DEF Trees
    <2>3. u \in Trees
      BY <1>1, <2>1, <2>2 DEF Trees
    <2>4. /\ u.live = {} /\ u.tombstones = {} /\ u.up = [x \in Dirs |-> Nowhere]
          /\ u.files = [x \in Dirs |-> {}] /\ u.fileParent = [f \in Files |-> Nowhere]
          /\ u.deleted = t.deleted
      BY DEF ResetTree, EmptyTree
    <2> HIDE DEF u
    <2>5. TreeIsOne(u)
      BY <2>2, <2>4, IDAssumption DEF TreeIsOne, Dirs
    <2> QED BY <2>3, <2>5 DEF u
  <1> QED BY <1>1, <1>2, <1>3

-----------------------------------------------------------------------------
(* generateNewPreviousPaths.                                               *)

(* T is the folders that there are, in up and with names, at place; those  *)
(* in L have a collection, and so have the folders that are gone.          *)
CollectionsTell(colls, prevs, L, T, up, names, place) ==
  /\ Forest(up) /\ T \ {Root} \subseteq DOMAIN up /\ Root \in T /\ L \subseteq T
  /\ place[Root] = <<>> /\ \A x \in T : place[x] \in Seq(Names)
  /\ \A x \in DOMAIN prevs : prevs[x] \in Seq(Names)
  /\ \A x, y \in DOMAIN prevs : prevs[x] = prevs[y] => x = y
  /\ Root \in DOMAIN prevs => prevs[Root] = <<>>
  /\ T \ L \subseteq DOMAIN prevs
  /\ \A x \in (T \ L) \ {Root} :
       /\ up[x] \in T /\ up[x] \in DOMAIN prevs /\ names[x] \in Names
       /\ prevs[x] = Append(prevs[up[x]], names[x])
       /\ place[x] = Append(place[up[x]], names[x])
  /\ \A c \in colls : c.cur # Nowhere =>
       /\ c.id \in L /\ c.cur = place[c.id]
       /\ c.prev = IF c.id \in DOMAIN prevs THEN prevs[c.id] ELSE Nowhere
  /\ \A x \in L : \E c \in colls : c.cur # Nowhere /\ c.id = x
  /\ \A c \in colls : c.cur = Nowhere => \E y \in DOMAIN prevs \ T : c.prev = prevs[y]
  /\ \A x \in DOMAIN prevs \ T : \E c \in colls : c.cur = Nowhere /\ c.prev = prevs[x]

(* Where the path p of a folder without a collection goes, when goes is    *)
(* where others go.                                                        *)
Goes(goes, colls, old, p) ==
  IF p = <<>> THEN p
  ELSE LET parent == Front(p)
           moved  == {c \in {c \in colls : c.cur # Nowhere} : c.prev = parent /\ c.cur # parent}
       IN  IF parent \in {c.prev : c \in colls \ {c \in colls : c.cur # Nowhere}} THEN Nowhere
           ELSE IF parent \in old
                THEN IF goes[parent] = Nowhere THEN Nowhere
                     ELSE Append(goes[parent], Last(p))
           ELSE IF moved # {} THEN Append((CHOOSE c \in moved : TRUE).cur, Last(p))
           ELSE p

(* Such a path goes where the folder is, if that of the folder above does. *)
LEMMA GoesToItsPlace ==
  ASSUME NEW colls, NEW prevs, NEW L, NEW T, NEW up, NEW names, NEW place,
         CollectionsTell(colls, prevs, L, T, up, names, place),
         NEW x \in T \ L, NEW goes,
         x # Root /\ up[x] \in T \ L => goes[prevs[up[x]]] = place[up[x]]
  PROVE  Goes(goes, colls, {prevs[y] : y \in T \ L}, prevs[x]) = place[x]
  <1> DEFINE G == Goes(goes, colls, {prevs[y] : y \in T \ L}, prevs[x])
             old == {prevs[y] : y \in T \ L}
             live == {c \in colls : c.cur # Nowhere}
             dead == {c.prev : c \in colls \ live}
             p == prevs[x]
             parent == Front(p)
             moved == {c \in live : c.prev = parent /\ c.cur # parent}
  <1>0. G =
          IF p = <<>> THEN p
          ELSE IF parent \in dead THEN Nowhere
          ELSE IF parent \in old THEN IF goes[parent] = Nowhere THEN Nowhere
                                      ELSE Append(goes[parent], Last(p))
          ELSE IF moved # {} THEN Append((CHOOSE c \in moved : TRUE).cur, Last(p))
          ELSE p
    BY DEF Goes
  <1> SUFFICES G = place[x]
    OBVIOUS
  <1> HIDE DEF G
  <1>1. CASE x = Root
    <2>1. p = <<>> /\ place[x] = <<>>
      BY <1>1 DEF CollectionsTell
    <2> HIDE DEF p, parent, dead, moved, old
    <2> QED BY <1>0, <2>1
  <1>2. CASE x # Root
    <2> DEFINE q == prevs[up[x]]
    <2>1. /\ up[x] \in T /\ up[x] \in DOMAIN prevs /\ q \in Seq(Names) /\ names[x] \in Names
          /\ p = Append(q, names[x]) /\ place[x] = Append(place[up[x]], names[x])
      BY <1>2 DEF CollectionsTell
    <2>2. p # <<>> /\ parent = q /\ Last(p) = names[x]
      <3> HIDE DEF q, p
      <3> QED BY <2>1, Appended
    <2>3. q \notin dead
      <3> SUFFICES ASSUME NEW c \in colls, c.cur = Nowhere, c.prev = q PROVE FALSE
        OBVIOUS
      <3>1. PICK y \in DOMAIN prevs \ T : c.prev = prevs[y]
        BY DEF CollectionsTell
      <3>2. y = up[x]
        <4>1. \A v, w \in DOMAIN prevs : prevs[v] = prevs[w] => v = w
          BY DEF CollectionsTell
        <4> QED BY <2>1, <3>1, <4>1
      <3> QED BY <2>1, <3>1, <3>2
    <2>4. CASE up[x] \in T \ L
      <3>1. q \in old /\ goes[q] = place[up[x]] /\ place[up[x]] # Nowhere
        BY <1>2, <2>1, <2>4, IDAssumption DEF CollectionsTell
      <3> HIDE DEF p, q, parent, dead, moved, old
      <3> QED BY <1>0, <2>1, <2>2, <2>3, <3>1
    <2>5. CASE up[x] \in L
      <3>1. q \notin old
        BY <2>1, <2>5 DEF CollectionsTell
      <3>2. PICK c \in colls : c.cur # Nowhere /\ c.id = up[x]
        BY <2>5 DEF CollectionsTell
      <3>3. c \in live /\ c.prev = q /\ c.cur = place[up[x]]
        BY <2>1, <3>2 DEF CollectionsTell
      <3>4. \A d \in live : d.prev = q => d.cur = place[up[x]]
        <4> SUFFICES ASSUME NEW d \in live, d.prev = q PROVE d.id = up[x]
          BY DEF CollectionsTell
        <4>1. d.id \in DOMAIN prevs /\ prevs[d.id] = q
          BY <2>1, IDAssumption DEF CollectionsTell
        <4> QED BY <2>1, <4>1 DEF CollectionsTell
      <3>5. CASE place[up[x]] = q
        <4>1. moved = {}
          BY <2>2, <3>4, <3>5
        <4> HIDE DEF p, q, parent, dead, moved, old
        <4> QED BY <1>0, <2>1, <2>2, <2>3, <3>1, <3>5, <4>1
      <3>6. CASE place[up[x]] # q
        <4>1. c \in moved /\ \A d \in moved : d.cur = place[up[x]]
          BY <2>2, <3>3, <3>4, <3>6
        <4> HIDE DEF p, q, parent, dead, moved, old
        <4>2. (CHOOSE d \in moved : TRUE) \in moved
          BY <4>1
        <4>3. (CHOOSE d \in moved : TRUE).cur = place[up[x]]
          BY <4>1, <4>2
        <4> QED BY <1>0, <2>1, <2>2, <2>3, <3>1, <4>1, <4>3
      <3> QED BY <3>5, <3>6
    <2> QED BY <1>2, <2>1, <2>4, <2>5
  <1> QED BY <1>1, <1>2

(* What is handed over: by induction from the root down, of every folder   *)
(* the path where it is.                                                   *)
LEMMA NewPreviousPathsAre ==
  ASSUME NEW colls, NEW prevs, NEW L, NEW T, NEW up, NEW names, NEW place,
         CollectionsTell(colls, prevs, L, T, up, names, place)
  PROVE  NewPreviousPaths(colls, prevs) = [x \in T |-> place[x]]
  <1> DEFINE live == {c \in colls : c.cur # Nowhere}
             dead == {c.prev : c \in colls \ live}
             seen == {c.id : c \in live}
             unseen == {x \in DOMAIN prevs \ seen : prevs[x] \notin dead}
             old == {prevs[x] : x \in unseen}
             F(goes) == [p \in old |-> Goes(goes, colls, old, p)]
             goes == CHOOSE goes : goes = F(goes)
             kept == {x \in unseen : goes[prevs[x]] # Nowhere}
  <1>1. NewPreviousPaths(colls, prevs) =
          [x \in seen \cup kept |->
             IF x \in seen THEN (CHOOSE c \in live : c.id = x).cur ELSE goes[prevs[x]]]
    BY DEF NewPreviousPaths, Goes
  <1>2. seen = L /\ \A x \in L : (CHOOSE c \in live : c.id = x).cur = place[x]
    <2>1. seen = L
      BY DEF CollectionsTell
    <2>2. ASSUME NEW x \in L PROVE (CHOOSE c \in live : c.id = x).cur = place[x]
      <3>1. \E c \in live : c.id = x
        BY DEF CollectionsTell
      <3>2. \A c \in live : c.id = x => c.cur = place[x]
        BY DEF CollectionsTell
      <3> HIDE DEF live
      <3> QED BY <3>1, <3>2
    <2> QED BY <2>1, <2>2
  <1>3. unseen = T \ L
    <2>1. ASSUME NEW x \in unseen PROVE x \in T \ L
      <3>1. x \in DOMAIN prevs /\ x \notin L /\ prevs[x] \notin dead
        BY <1>2
      <3> QED BY <3>1 DEF CollectionsTell
    <2>2. ASSUME NEW x \in T \ L PROVE x \in unseen
      <3>1. x \in DOMAIN prevs /\ x \notin seen
        BY <1>2 DEF CollectionsTell
      <3>2. prevs[x] \notin dead
        <4> SUFFICES ASSUME NEW c \in colls, c.cur = Nowhere, c.prev = prevs[x] PROVE FALSE
          OBVIOUS
        <4>1. PICK y \in DOMAIN prevs \ T : c.prev = prevs[y]
          BY DEF CollectionsTell
        <4> QED BY <3>1, <4>1 DEF CollectionsTell
      <3> QED BY <3>1, <3>2
    <2> QED BY <2>1, <2>2
  <1>4. old = {prevs[y] : y \in T \ L}
    BY <1>3
  <1>5. \E f : f = F(f)
    <2> DEFINE of(p) == CHOOSE x \in T \ L : prevs[x] = p
               f == [p \in old |-> place[of(p)]]
    <2>1. \A x \in T \ L : of(prevs[x]) = x /\ prevs[x] \in old
      BY <1>4 DEF CollectionsTell
    <2>2. \A x \in T \ L : f[prevs[x]] = place[x]
      <3> HIDE DEF of, old
      <3> QED BY <2>1
    <2>3. f = F(f)
      <3>1. \A p \in old : f[p] = Goes(f, colls, old, p)
        <4> SUFFICES ASSUME NEW x \in T \ L PROVE f[prevs[x]] = Goes(f, colls, old, prevs[x])
          BY <1>4
        <4> HIDE DEF f, old
        <4> QED BY <1>4, <2>2, GoesToItsPlace
      <3>2. f = [p \in old |-> f[p]]
        OBVIOUS
      <3> HIDE DEF f, old
      <3> QED BY <3>1, <3>2
    <2> HIDE DEF f, F
    <2> QED BY <2>3
  <1>6. \A p \in old : goes[p] = Goes(goes, colls, old, p)
    <2>1. goes = F(goes)
      <3> HIDE DEF F
      <3> QED BY <1>5
    <2> HIDE DEF goes, old
    <2> QED BY <2>1
  <1> HIDE DEF goes
  <1>7. ASSUME NEW x \in T \ L PROVE goes[prevs[x]] = place[x]
    <2> DEFINE Bad == {y \in T \ L : goes[prevs[y]] # place[y]}
    <2> SUFFICES ASSUME Bad # {} PROVE FALSE
      OBVIOUS
    <2>1. \A y \in T \ L : prevs[y] \in old
      BY <1>4
    <2>2. \A y \in T \ L : (y # Root /\ up[y] \in T \ L => goes[prevs[up[y]]] = place[up[y]])
                             => goes[prevs[y]] = place[y]
      <3> SUFFICES ASSUME NEW y \in T \ L,
                          y # Root /\ up[y] \in T \ L => goes[prevs[up[y]]] = place[up[y]]
                   PROVE  goes[prevs[y]] = place[y]
        OBVIOUS
      <3>1. Goes(goes, colls, {prevs[z] : z \in T \ L}, prevs[y]) = place[y]
        BY GoesToItsPlace
      <3> HIDE DEF old
      <3> QED BY <1>4, <1>6, <2>1, <3>1
    <2>3. Root \notin Bad
      BY <2>2
    <2>4. Bad \in SUBSET DOMAIN up
      BY <2>3 DEF CollectionsTell
    <2>5. PICK z \in Bad : up[z] \notin Bad
      BY <2>4 DEF Forest, CollectionsTell
    <2> QED BY <2>2, <2>5
  <1>8. kept = T \ L
    <2>1. \A x \in T \ L : place[x] # Nowhere
      BY IDAssumption DEF CollectionsTell
    <2> HIDE DEF unseen
    <2> QED BY <1>3, <1>7, <2>1
  <1> DEFINE new == [x \in seen \cup kept |->
                       IF x \in seen THEN (CHOOSE c \in live : c.id = x).cur ELSE goes[prevs[x]]]
  <1>9. seen \cup kept = T
    BY <1>2, <1>8 DEF CollectionsTell
  <1>10. \A x \in T : (IF x \in seen THEN (CHOOSE c \in live : c.id = x).cur
                       ELSE goes[prevs[x]]) = place[x]
    <2> HIDE DEF live, seen, kept
    <2> QED BY <1>2, <1>7
  <1> HIDE DEF live, seen, kept
  <1> QED BY <1>1, <1>9, <1>10
=============================================================================
