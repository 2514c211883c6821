-------------------------- MODULE DriveRestore_proofs --------------------------
(***************************************************************************)
(* Proofs about DriveRestore, for any backup, any site whose folders have  *)
(* no name twice, and any number of retries and changes by others.         *)
(***************************************************************************)
EXTENDS DriveRestore, FiniteSetTheorems, TLAPS

Things == DOMAIN site.things
Thing(t) == site.things[t]

(* The folder of the backup that a thing is from.                          *)
Giver(t) == Thing(t).from[1]

IsSeq(s) == \E S : s \in Seq(S)

ThingOK(r) ==
  /\ DOMAIN r = {"up", "name", "nth", "kind", "holds", "from", "gone"}
  /\ r.kind \in {"file", "folder"}
  /\ r.holds \in {"nothing", "all"}
  /\ r.gone \in {"no", "restore", "others"}

TaskSteps == {"todo", "delete", "post", "upload", "done"}

RestoreTypes ==
  /\ DOMAIN site = {"lists", "drives", "things"}
  /\ IsSeq(site.things)
  /\ \A t \in Things : ThingOK(Thing(t))
  /\ DOMAIN restore = {"policy", "failFast", "at", "next", "coll", "target", "folders", "depth",
                       "up", "listing", "reported", "skipped", "restored", "failed", "cancelled"}
  /\ restore.policy \in Policies
  /\ restore.at \in {"between", "folders", "items", "ended"}
  /\ restore.failFast \in BOOLEAN /\ restore.failed \in BOOLEAN
  /\ restore.cancelled \in BOOLEAN
  /\ restore.next \in Nat \ {0}
  /\ task \in [DOMAIN task -> [at : TaskSteps, new : Nat, tries : Nat]]
  /\ edits \in 0..MaxEdits

(* A name is that of one thing in a folder, where nth sets copies apart.   *)
NamesAreUnique ==
  /\ \A t \in Things : Thing(t).nth \in {0, t}
  /\ \A t, u \in Things :
       /\ Thing(t).gone = "no" /\ Thing(u).gone = "no"
       /\ Thing(t).up = Thing(u).up /\ Thing(t).name = Thing(u).name
       /\ Thing(t).nth = 0 /\ Thing(u).nth = 0
       => t = u

(* An item is posted once, as a file with its name.                        *)
PostedOnce ==
  /\ \A t \in Things : Thing(t).from # Original =>
       /\ Thing(t).from = TakenBy(Giver(t), Thing(t).name)
       /\ Giver(t) \in DOMAIN Colls /\ Giver(t) < restore.next
       /\ Thing(t).kind = "file"
  /\ \A t, u \in Things : Thing(t).from # Original /\ Thing(t).from = Thing(u).from => t = u

(* The tasks are those of the current collection, and nothing of it was    *)
(* posted while its folders were made.                                     *)
Current ==
  /\ DOMAIN task # {} \/ restore.at \in {"folders", "items"} =>
       /\ restore.coll \in DOMAIN Colls /\ restore.coll < restore.next
       /\ DOMAIN task \subseteq Coll.items
  /\ restore.at = "folders" =>
       /\ DOMAIN task = {}
       /\ \A t \in Things : Thing(t).from = Original \/ Giver(t) < restore.coll
  /\ restore.at = "items" => DOMAIN task = Coll.items
  /\ restore.at = "between" /\ ~restore.failed /\ ~restore.cancelled =>
       \A i \in DOMAIN task : task[i].at = "done"

TasksFollow ==
  \A i \in DOMAIN task :
    /\ task[i].at \in {"todo", "delete", "post"} => \A t \in Things : Thing(t).from # Me(i)
    /\ task[i].at = "delete" => ShouldDeleteOriginal(i)
    /\ task[i].at = "upload" =>
         /\ task[i].new \in Things
         /\ Thing(task[i].new).from = Me(i)
         /\ Thing(task[i].new).up = restore.up

(* The listing is of things of the folder that were there before.          *)
Listed ==
  DOMAIN task # {} =>
    /\ \A l \in restore.listing :
         /\ l.id \in Things
         /\ Thing(l.id).name = l.name /\ Thing(l.id).nth = l.nth
         /\ Thing(l.id).up = restore.up
         /\ Thing(l.id).from = Original \/ Giver(l.id) < restore.coll
    /\ \A l, m \in restore.listing : l.name = m.name /\ l.nth = 0 /\ m.nth = 0 => l.id = m.id

Accounted(me) ==
  \/ me \in restore.reported
  \/ me \in restore.restored /\ \E t \in Things : Thing(t).from = me /\ Thing(t).holds = "all"
  \/ /\ me \in restore.skipped /\ restore.policy = "Skip"
     /\ \E t \in Things : Thing(t).name = me[2] /\ Thing(t).from # me

InProgress(me) ==
  /\ me[1] = restore.coll
  /\ \/ restore.at = "folders"
     \/ restore.at = "items" /\ task[me[2]].at # "done"

(* As long as nothing has failed, an item is accounted for as soon as it is*)
(* done with.                                                              *)
DoneIsAccounted ==
  ~restore.failed /\ ~restore.cancelled =>
    /\ \A c \in DOMAIN Colls : \A me \in AllItems(c) :
         c < restore.next => Accounted(me) \/ InProgress(me)
    /\ restore.at = "ended" => restore.next \notin DOMAIN Colls

(* A file that was removed has a later item of the same name in its place, *)
(* or there will be one, or there is an error.                             *)
Replacement(t, c) ==
  /\ Thing(t).name \in Colls[c].items /\ c < restore.next
  /\ Thing(t).from # Original => Giver(t) < c
  /\ \/ TakenBy(c, Thing(t).name) \in restore.reported
     \/ \E w \in Whole(TakenBy(c, Thing(t).name)) : Thing(w).up = Thing(t).up
     \/ /\ c = restore.coll /\ Thing(t).name \in DOMAIN task
        /\ task[Thing(t).name].at # "done" /\ restore.up = Thing(t).up

GoneIsReplaced ==
  \A t \in Things : Thing(t).gone = "restore" =>
    /\ restore.policy = "Replace" /\ Thing(t).kind = "file"
    /\ \E c \in DOMAIN Colls : Replacement(t, c)

RestoreIInv ==
  /\ RestoreTypes /\ NamesAreUnique /\ PostedOnce /\ Current /\ TasksFollow /\ Listed
  /\ DoneIsAccounted /\ GoneIsReplaced

LEMMA RestoreInitIInv == RestoreInit => RestoreIInv
  <1> SUFFICES ASSUME RestoreInit PROVE RestoreIInv
    OBVIOUS
  <1>1. /\ site \in FirstSites
        /\ task = [i \in {} |-> Pending] /\ edits = 0
    BY DEF RestoreInit
  <1>2. PICK policy \in Policies, failFast \in BOOLEAN :
          restore = [policy |-> policy, failFast |-> failFast, at |-> "between", next |-> 1,
                     coll |-> 0, target |-> <<>>, folders |-> {}, depth |-> 0, up |-> 0,
                     listing |-> {}, reported |-> {}, skipped |-> {}, restored |-> {},
                     failed |-> FALSE, cancelled |-> FALSE]
    BY DEF RestoreInit
  <1>3. /\ DOMAIN site = {"lists", "drives", "things"}
        /\ IsSeq(site.things)
        /\ \A t \in Things : /\ ThingOK(Thing(t)) /\ Thing(t).gone = "no"
                            /\ Thing(t).from = Original /\ Thing(t).nth = 0
        /\ \A t, u \in Things : Thing(t).up = Thing(u).up /\ Thing(t).name = Thing(u).name => t = u
    BY <1>1, SiteAssumption DEF Things, Thing, IsSeq, ThingOK
  <1>4. RestoreTypes
    BY <1>1, <1>2, <1>3, RestoreAssumption DEF RestoreTypes
  <1>5. NamesAreUnique /\ PostedOnce /\ GoneIsReplaced
    BY <1>3 DEF NamesAreUnique, PostedOnce, GoneIsReplaced
  <1>6. Current /\ TasksFollow /\ Listed
    BY <1>1, <1>2, <1>3 DEF Current, TasksFollow, Listed
  <1>7. DoneIsAccounted
    BY <1>2, RestoreAssumption DEF DoneIsAccounted
  <1> QED
    BY <1>4, <1>5, <1>6, <1>7 DEF RestoreIInv

-----------------------------------------------------------------------------
(* Sequences of things, whatever a thing is.                               *)

LEMMA SeqDomain ==
  ASSUME NEW s, IsSeq(s)
  PROVE  Len(s) \in Nat /\ DOMAIN s = 1..Len(s)
  <1>1. PICK S : s \in Seq(S)
    BY DEF IsSeq
  <1> QED
    BY <1>1

LEMMA SeqAppend ==
  ASSUME NEW s, IsSeq(s), NEW x
  PROVE  /\ IsSeq(Append(s, x))
         /\ DOMAIN Append(s, x) = DOMAIN s \cup {Len(s) + 1}
         /\ Len(s) + 1 \notin DOMAIN s
         /\ \A t \in DOMAIN s : Append(s, x)[t] = s[t]
         /\ Append(s, x)[Len(s) + 1] = x
  <1>1. PICK S : s \in Seq(S)
    BY DEF IsSeq
  <1>2. s \in Seq(S \cup {x})
    BY <1>1
  <1>3. Append(s, x) \in Seq(S \cup {x})
    BY <1>2
  <1> QED
    BY <1>2, <1>3 DEF IsSeq

LEMMA SeqUpdate ==
  ASSUME NEW s, IsSeq(s), NEW r, r = [t \in DOMAIN s |-> r[t]]
  PROVE  IsSeq(r)
  <1> DEFINE R == {r[t] : t \in DOMAIN s}
  <1>1. Len(s) \in Nat /\ DOMAIN s = 1..Len(s)
    BY SeqDomain
  <1>2. r \in [1..Len(s) -> R]
    BY <1>1
  <1>3. r \in Seq(R)
    BY <1>1, <1>2
  <1> QED
    BY <1>3 DEF IsSeq

-----------------------------------------------------------------------------
(* Actions that leave the site alone.                                      *)

(* A change of flags, while what is done remains accounted for.            *)
LEMMA FlagsIInv ==
  ASSUME RestoreIInv, UNCHANGED <<site, task, edits>>,
         NEW at \in {"between", "ended", restore.at}, NEW failed \in BOOLEAN, NEW cancelled \in BOOLEAN,
         restore' = [restore EXCEPT !.at = at, !.failed = failed, !.cancelled = cancelled],
         restore.failed => failed,
         restore.cancelled => cancelled,
         ~failed /\ ~cancelled =>
           /\ at = "ended" => restore.next \notin DOMAIN Colls
           /\ restore.at \in {"between", "items"}
           /\ \A i \in DOMAIN task : task[i].at = "done"
  PROVE  RestoreIInv'
  <1>1. RestoreTypes'
    BY DEF RestoreIInv, RestoreTypes, Things, Thing
  <1>2. /\ restore'.next = restore.next /\ restore'.coll = restore.coll
        /\ restore'.up = restore.up /\ restore'.listing = restore.listing
        /\ restore'.reported = restore.reported /\ restore'.skipped = restore.skipped
        /\ restore'.restored = restore.restored /\ restore'.policy = restore.policy
        /\ restore'.at = at /\ restore'.failed = failed /\ restore'.cancelled = cancelled
    BY DEF RestoreIInv, RestoreTypes
  <1>3. NamesAreUnique' /\ PostedOnce'
    BY <1>2 DEF RestoreIInv, NamesAreUnique, PostedOnce, Things, Thing, Giver
  <1>4. Current'
    BY <1>2 DEF RestoreIInv, Current, Things, Thing, Giver, Coll
  <1>5. TasksFollow' /\ Listed'
    BY <1>2 DEF RestoreIInv, TasksFollow, Listed, Things, Thing, Giver, Me, ShouldDeleteOriginal, Collision
  <1>6. GoneIsReplaced'
    BY <1>2 DEF RestoreIInv, GoneIsReplaced, Replacement, Things, Thing, Giver, Whole
  <1>7. DoneIsAccounted'
    <2> SUFFICES ASSUME ~failed, ~cancelled,
                        NEW c \in DOMAIN Colls, NEW me \in AllItems(c), c < restore.next
                 PROVE  Accounted(me)'
      BY <1>2 DEF DoneIsAccounted, AllItems
    <2>1. Accounted(me) \/ InProgress(me)
      BY DEF RestoreIInv, DoneIsAccounted
    <2>2. InProgress(me) => me[2] \in DOMAIN task
      BY DEF RestoreIInv, Current, InProgress, AllItems, TakenBy, Coll
    <2>3. Accounted(me)
      BY <2>1, <2>2 DEF InProgress
    <2> QED
      BY <1>2, <2>3 DEF Accounted, Things, Thing
  <1> QED
    BY <1>1, <1>3, <1>4, <1>5, <1>6, <1>7 DEF RestoreIInv

LEMMA FlagActionsIInv ==
  ASSUME RestoreIInv, EndCollection \/ Cancel \/ LeaveCollection \/ EndRestore \/ PopulateFails
  PROVE  RestoreIInv'
  <1> DEFINE Flags(at, failed, cancelled) ==
        restore' = [restore EXCEPT !.at = at, !.failed = failed, !.cancelled = cancelled]
  <1>1. RestoreTypes
    BY DEF RestoreIInv
  <1>2. CASE EndCollection
    <2>1. Flags("between", restore.failed, restore.cancelled)
      BY <1>1, <1>2 DEF EndCollection, RestoreTypes
    <2> QED
      BY <1>1, <1>2, <2>1, FlagsIInv DEF EndCollection, RestoreTypes
  <1>3. CASE Cancel
    <2>1. Flags(restore.at, restore.failed, TRUE)
      BY <1>1, <1>3 DEF Cancel, RestoreTypes
    <2> QED
      BY <1>1, <1>3, <2>1, FlagsIInv DEF Cancel, RestoreTypes
  <1>4. CASE LeaveCollection
    <2>1. Flags("between", restore.failed, restore.cancelled)
      BY <1>1, <1>4 DEF LeaveCollection, RestoreTypes
    <2> QED
      BY <1>1, <1>4, <2>1, FlagsIInv DEF LeaveCollection, RestoreTypes
  <1>5. CASE EndRestore
    <2>1. Flags("ended", restore.failed, restore.cancelled)
      BY <1>1, <1>5 DEF EndRestore, RestoreTypes
    <2> QED
      BY <1>1, <1>5, <2>1, FlagsIInv DEF EndRestore, RestoreTypes, RestoreIInv, Current
  <1>6. CASE PopulateFails
    <2>1. Flags("ended", TRUE, restore.cancelled)
      BY <1>1, <1>6 DEF PopulateFails, RestoreTypes
    <2> QED
      BY <1>1, <1>6, <2>1, FlagsIInv DEF PopulateFails, RestoreTypes
  <1> QED
    BY <1>2, <1>3, <1>4, <1>5, <1>6

(* A collection begins when all that was done is accounted for.            *)
LEMMA BeginCollectionIInv ==
  ASSUME RestoreIInv, BeginCollection
  PROVE  RestoreIInv'
  <1> DEFINE n == restore.next
  <1>1. /\ restore'.at = "folders" /\ restore'.next = n + 1 /\ restore'.coll = n
        /\ restore'.policy = restore.policy /\ restore'.failFast = restore.failFast
        /\ restore'.failed = restore.failed /\ restore'.cancelled = restore.cancelled
        /\ restore'.listing = restore.listing /\ restore'.reported = restore.reported
        /\ restore'.skipped = restore.skipped /\ restore'.restored = restore.restored
        /\ DOMAIN restore' = DOMAIN restore
        /\ n \in DOMAIN Colls /\ n \in Nat \ {0}
        /\ task' = [i \in {} |-> Pending] /\ edits' = edits
        /\ restore.at = "between" /\ ~restore.failed /\ ~restore.cancelled
    BY DEF BeginCollection, Goes, RestoreIInv, RestoreTypes
  <1>2. site'.things = site.things /\ DOMAIN site' = DOMAIN site
    BY DEF BeginCollection, RestoreIInv, RestoreTypes
  <1>3. \A c \in DOMAIN Colls : c \in Nat
    BY RestoreAssumption
  <1>4. RestoreTypes'
    BY <1>1, <1>2 DEF RestoreIInv, RestoreTypes, Things, Thing
  <1>5. NamesAreUnique'
    BY <1>2 DEF RestoreIInv, NamesAreUnique, Things, Thing
  <1>6. PostedOnce'
    BY <1>1, <1>2, <1>3 DEF RestoreIInv, PostedOnce, Things, Thing, Giver
  <1>7. Current'
    BY <1>1, <1>2 DEF RestoreIInv, Current, PostedOnce, Things, Thing, Giver
  <1>8. TasksFollow' /\ Listed'
    BY <1>1 DEF TasksFollow, Listed
  <1>9. GoneIsReplaced'
    <2> SUFFICES ASSUME NEW t \in Things, Thing(t).gone = "restore",
                        NEW c \in DOMAIN Colls, Replacement(t, c)
                 PROVE  Replacement(t, c)'
      BY <1>1, <1>2 DEF RestoreIInv, GoneIsReplaced, Things, Thing
    <2>1. ~(Thing(t).name \in DOMAIN task /\ task[Thing(t).name].at # "done")
      BY <1>1 DEF RestoreIInv, Current
    <2> QED
      BY <1>1, <1>2, <1>3, <2>1 DEF Replacement, Things, Thing, Giver, Whole
  <1>10. DoneIsAccounted'
    <2> SUFFICES ASSUME NEW c \in DOMAIN Colls, NEW me \in AllItems(c), c < n + 1
                 PROVE  Accounted(me)' \/ InProgress(me)'
      BY <1>1 DEF DoneIsAccounted, AllItems
    <2>1. CASE c = n
      BY <1>1, <2>1 DEF InProgress, AllItems, TakenBy
    <2>2. CASE c < n
      <3>1. Accounted(me) \/ InProgress(me)
        BY <1>1, <2>2 DEF RestoreIInv, DoneIsAccounted
      <3>2. Accounted(me)
        BY <1>1, <3>1 DEF InProgress
      <3> QED
        BY <1>1, <1>2, <3>2 DEF Accounted, Things, Thing
    <2> QED
      BY <1>1, <1>3, <2>1, <2>2
  <1> QED
    BY <1>4, <1>5, <1>6, <1>7, <1>8, <1>9, <1>10 DEF RestoreIInv

(* An error on the way names all the items of the collection.              *)
LEMMA BeginFailsIInv ==
  ASSUME RestoreIInv, BeginFails
  PROVE  RestoreIInv'
  <1>1. /\ restore'.at = "between" /\ restore'.coll = restore.coll /\ restore'.up = restore.up
        /\ restore'.policy = restore.policy /\ restore'.failFast = restore.failFast
        /\ restore'.failed \in BOOLEAN /\ (restore.failed => restore'.failed)
        /\ restore'.cancelled = restore.cancelled
        /\ restore'.listing = restore.listing
        /\ restore'.skipped = restore.skipped /\ restore'.restored = restore.restored
        /\ DOMAIN restore' = DOMAIN restore
        /\ UNCHANGED <<task, edits>>
    <2> DEFINE r(c) == Reported(restore, AllItems(c))
    <2>1. ASSUME NEW c
          PROVE  /\ DOMAIN r(c) = DOMAIN restore
                 /\ r(c).failed \in BOOLEAN /\ (restore.failed => r(c).failed)
                 /\ r(c).at = restore.at /\ r(c).coll = restore.coll /\ r(c).up = restore.up
                 /\ r(c).policy = restore.policy /\ r(c).failFast = restore.failFast
                 /\ r(c).cancelled = restore.cancelled /\ r(c).listing = restore.listing
                 /\ r(c).skipped = restore.skipped /\ r(c).restored = restore.restored
      BY DEF Reported, RestoreIInv, RestoreTypes
    <2> HIDE DEF r
    <2>2. CASE /\ restore.at = "between"
               /\ restore' = [r(restore.next) EXCEPT
                                !.next = restore.next + 1, !.target = Append(@, 0)]
      BY <2>1, <2>2 DEF BeginFails, RestoreIInv, RestoreTypes
    <2>3. CASE restore' = [r(restore.coll) EXCEPT !.at = "between"]
      BY <2>1, <2>3 DEF BeginFails, RestoreIInv, RestoreTypes
    <2> QED
      BY <2>2, <2>3 DEF BeginFails, Goes, r
  <1>2. PICK c \in DOMAIN Colls :
          /\ restore'.reported = restore.reported \cup AllItems(c)
          /\ \/ restore.at = "between" /\ c = restore.next /\ restore'.next = c + 1
             \/ restore.at = "folders" /\ c = restore.coll /\ restore'.next = restore.next
    BY DEF BeginFails, Reported, Goes, RestoreIInv, RestoreTypes, Current
  <1>3. site'.things = site.things /\ DOMAIN site' = DOMAIN site
    BY DEF BeginFails, RestoreIInv, RestoreTypes
  <1>4. (\A d \in DOMAIN Colls : d \in Nat) /\ restore.next \in Nat /\ restore'.next \in Nat \ {0}
    BY <1>2, RestoreAssumption DEF RestoreIInv, RestoreTypes
  <1>5. RestoreTypes'
    BY <1>1, <1>3, <1>4 DEF RestoreIInv, RestoreTypes, Things, Thing
  <1>6. NamesAreUnique'
    BY <1>3 DEF RestoreIInv, NamesAreUnique, Things, Thing
  <1>7. PostedOnce'
    <2>1. restore.next <= restore'.next
      BY <1>2, <1>4
    <2> QED
      BY <1>3, <1>4, <2>1 DEF RestoreIInv, PostedOnce, Things, Thing, Giver
  <1>8. Current'
    BY <1>1, <1>2, <1>3, <1>4 DEF RestoreIInv, Current, Things, Thing, Giver, Coll
  <1>9. TasksFollow' /\ Listed'
    BY <1>1, <1>3 DEF RestoreIInv, TasksFollow, Listed, Things, Thing, Giver, Me,
                      ShouldDeleteOriginal, Collision
  <1>10. GoneIsReplaced'
    BY <1>1, <1>2, <1>3, <1>4 DEF RestoreIInv, GoneIsReplaced, Replacement, Things, Thing, Giver, Whole
  <1>11. DoneIsAccounted'
    <2> SUFFICES ASSUME ~restore.failed, ~restore.cancelled,
                        NEW d \in DOMAIN Colls, NEW me \in AllItems(d), d < restore'.next
                 PROVE  Accounted(me)'
      BY <1>1 DEF DoneIsAccounted, AllItems
    <2>1. CASE d = c
      BY <1>2, <2>1 DEF Accounted
    <2>2. CASE d # c
      <3>1. Accounted(me) \/ InProgress(me)
        BY <1>2, <1>4, <2>2 DEF RestoreIInv, DoneIsAccounted
      <3>2. ~InProgress(me)
        BY <1>2, <2>2 DEF InProgress, AllItems, TakenBy
      <3> QED
        BY <1>1, <1>2, <1>3, <3>1, <3>2 DEF Accounted, Things, Thing
    <2> QED
      BY <2>1, <2>2
  <1> QED
    BY <1>5, <1>6, <1>7, <1>8, <1>9, <1>10, <1>11 DEF RestoreIInv

-----------------------------------------------------------------------------
(* Actions that make things.                                               *)

(* What a post adds, and that its name is free or sets it apart.           *)
LEMMA PostAdds ==
  ASSUME RestoreTypes, NamesAreUnique,
         NEW up, NEW n, NEW kind \in {"file", "folder"}, NEW from,
         NEW new, new = Len(site.things) + 1,
         DOMAIN site' = DOMAIN site,
         site'.things = Posted(site.things, up, n, kind, from)
  PROVE  /\ Things' = Things \cup {new}
         /\ new \in Nat \ Things
         /\ IsSeq(site.things)'
         /\ \A t \in Things : Thing(t)' = Thing(t)
         /\ \A t \in Things' \ Things :
              /\ t = new
              /\ ThingOK(Thing(t))'
              /\ Thing(t)'.up = up /\ Thing(t)'.name = n /\ Thing(t)'.kind = kind
              /\ Thing(t)'.holds = "nothing" /\ Thing(t)'.from = from /\ Thing(t)'.gone = "no"
         /\ NamesAreUnique'
  <1> DEFINE x == [up |-> up, name |-> n,
                   nth |-> IF Named(site.things, up, n) = {} THEN 0 ELSE new,
                   kind |-> kind, holds |-> "nothing", from |-> from, gone |-> "no"]
  <1>1. site'.things = Append(site.things, x) /\ IsSeq(site.things)
    BY DEF Posted, RestoreTypes
  <1>2. /\ x.up = up /\ x.name = n /\ x.kind = kind /\ x.holds = "nothing" /\ x.from = from
        /\ x.gone = "no" /\ ThingOK(x) /\ x.nth \in {0, new}
        /\ x.nth = 0 /\ new # 0 => Named(site.things, up, n) = {}
    BY DEF ThingOK
  <1> HIDE DEF x
  <1>3. /\ Things' = Things \cup {new} /\ new \notin Things /\ new \in Nat /\ new # 0
        /\ IsSeq(site.things)'
        /\ \A t \in Things : Thing(t)' = Thing(t)
        /\ Thing(new)' = x
    <2> DEFINE y == Append(site.things, x)
    <2>1. /\ IsSeq(y) /\ DOMAIN y = DOMAIN site.things \cup {new}
          /\ new \notin DOMAIN site.things
          /\ \A t \in DOMAIN site.things : y[t] = site.things[t]
          /\ y[new] = x
      BY <1>1, SeqAppend
    <2>2. new \in Nat /\ new # 0
      BY <1>1, SeqDomain
    <2> HIDE DEF y
    <2> QED
      BY <1>1, <2>1, <2>2 DEF Things, Thing, y
  <1>4. NamesAreUnique'
    <2>1. \A t \in Things' : Thing(t)'.nth \in {0, t}
      BY <1>2, <1>3 DEF NamesAreUnique
    <2>2. \A t \in Things : /\ Thing(t).gone = "no" /\ Thing(t).up = up
                            /\ Thing(t).name = n /\ Thing(t).nth = 0
                            => x.nth # 0
      BY <1>2, <1>3 DEF Named, Here, Things, Thing
    <2>3. \A t, u \in Things' :
            /\ Thing(t)'.gone = "no" /\ Thing(u)'.gone = "no"
            /\ Thing(t)'.up = Thing(u)'.up /\ Thing(t)'.name = Thing(u)'.name
            /\ Thing(t)'.nth = 0 /\ Thing(u)'.nth = 0
            => t = u
      BY <1>2, <1>3, <2>2 DEF NamesAreUnique
    <2> QED
      BY <2>1, <2>3 DEF NamesAreUnique
  <1> QED
    BY <1>2, <1>3, <1>4

(* More things that are not of the backup disturb nothing.                 *)
LEMMA GrowIInv ==
  ASSUME RestoreIInv, RestoreTypes', NamesAreUnique', UNCHANGED task,
         Things \subseteq Things', \A t \in Things : Thing(t)' = Thing(t),
         \A t \in Things' \ Things : Thing(t)'.from = Original /\ Thing(t)'.gone = "no",
         restore'.at = restore.at, restore'.next = restore.next, restore'.coll = restore.coll,
         restore'.policy = restore.policy, restore'.listing = restore.listing,
         restore'.reported = restore.reported, restore'.skipped = restore.skipped,
         restore'.restored = restore.restored, restore'.failed = restore.failed,
         restore'.cancelled = restore.cancelled,
         restore'.up = restore.up \/ DOMAIN task = {}
  PROVE  RestoreIInv'
  <1>1. PostedOnce'
    BY DEF RestoreIInv, PostedOnce, Giver
  <1>2. Current'
    BY DEF RestoreIInv, Current, Giver, Coll
  <1>3. TasksFollow'
    <2>1. \A i \in DOMAIN task : Me(i)' = Me(i) /\ Me(i) # Original
      BY RestoreAssumption DEF Me, TakenBy, Original, RestoreIInv, Current
    <2>2. \A i \in DOMAIN task : ShouldDeleteOriginal(i) /\ Listed => ShouldDeleteOriginal(i)'
      BY DEF ShouldDeleteOriginal, Collision, Listed, Things, Thing
    <2> QED
      BY <2>1, <2>2 DEF RestoreIInv, TasksFollow
  <1>4. Listed'
    BY DEF RestoreIInv, Listed, Giver
  <1>5. DoneIsAccounted'
    BY DEF RestoreIInv, DoneIsAccounted, Accounted, InProgress, AllItems
  <1>6. GoneIsReplaced'
    <2> SUFFICES ASSUME NEW t \in Things, Thing(t).gone = "restore",
                        NEW c \in DOMAIN Colls, Replacement(t, c)
                 PROVE  Replacement(t, c)'
      BY DEF RestoreIInv, GoneIsReplaced
    <2>1. ASSUME NEW w \in Whole(TakenBy(c, Thing(t).name))
          PROVE  w \in Things /\ w \in Whole(TakenBy(c, Thing(t).name))'
      BY DEF Whole, Things, Thing
    <2> QED
      BY <2>1 DEF Replacement, Giver
  <1> QED
    BY <1>1, <1>2, <1>3, <1>4, <1>5, <1>6 DEF RestoreIInv

LEMMA MakeFolderIInv ==
  ASSUME RestoreIInv, MakeFolder
  PROVE  RestoreIInv'
  <1>1. /\ restore'.at = restore.at /\ restore'.next = restore.next
        /\ restore'.coll = restore.coll /\ restore'.policy = restore.policy
        /\ restore'.failFast = restore.failFast
        /\ restore'.listing = restore.listing /\ restore'.reported = restore.reported
        /\ restore'.skipped = restore.skipped /\ restore'.restored = restore.restored
        /\ restore'.failed = restore.failed /\ restore'.cancelled = restore.cancelled
        /\ DOMAIN restore' = DOMAIN restore
        /\ UNCHANGED <<task, edits>> /\ DOMAIN task = {}
    <2>1. /\ UNCHANGED <<task, edits>> /\ DOMAIN task = {}
      BY DEF MakeFolder, RestoreIInv, Current
    <2>2. CASE Cached # {}
      <3>1. restore' = [restore EXCEPT !.depth = @ + 1, !.up = (CHOOSE f \in Cached : TRUE).up]
        BY <2>2 DEF MakeFolder
      <3> QED
        BY <2>1, <3>1 DEF RestoreIInv, RestoreTypes
    <2>3. CASE Cached = {}
      <3> DEFINE up == CreateFolder(site.things, restore.up, Coll.dir[restore.depth + 1]).up
      <3>1. restore' = [restore EXCEPT !.depth = @ + 1, !.up = up,
                                       !.folders = @ \cup {[path |-> Location, up |-> up]}]
        BY <2>3 DEF MakeFolder
      <3> QED
        BY <2>1, <3>1 DEF RestoreIInv, RestoreTypes
    <2> QED
      BY <2>2, <2>3
  <1> DEFINE n == Coll.dir[restore.depth + 1]
  <1>2. /\ DOMAIN site' = DOMAIN site
        /\ \/ site'.things = site.things
           \/ site'.things = Posted(site.things, restore.up, n, "folder", Original)
    BY DEF MakeFolder, CreateFolder, RestoreIInv, RestoreTypes
  <1>3. CASE site'.things = site.things
    <2>1. RestoreTypes' /\ NamesAreUnique'
      BY <1>1, <1>2, <1>3 DEF RestoreIInv, RestoreTypes, NamesAreUnique, Things, Thing
    <2> QED
      BY <1>1, <1>3, <2>1, GrowIInv DEF Things, Thing
  <1>4. CASE site'.things = Posted(site.things, restore.up, n, "folder", Original)
    <2>1. /\ Things \subseteq Things' /\ NamesAreUnique' /\ IsSeq(site.things)'
          /\ \A t \in Things : Thing(t)' = Thing(t)
          /\ \A t \in Things' \ Things :
               ThingOK(Thing(t))' /\ Thing(t)'.from = Original /\ Thing(t)'.gone = "no"
      BY <1>2, <1>4, PostAdds DEF RestoreIInv
    <2>2. RestoreTypes'
      BY <1>1, <1>2, <2>1 DEF RestoreIInv, RestoreTypes
    <2> QED
      BY <1>1, <2>1, <2>2, GrowIInv
  <1> QED
    BY <1>2, <1>3, <1>4

LEMMA OthersIInv ==
  ASSUME RestoreIInv, NEW i \in DOMAIN task,
         EditBy(Posted(site.things, restore.up, i, "file", Original))
  PROVE  RestoreIInv'
  <1>1. /\ UNCHANGED <<restore, task>> /\ DOMAIN site' = DOMAIN site
        /\ site'.things = Posted(site.things, restore.up, i, "file", Original)
        /\ edits' \in 0..MaxEdits
    BY RestoreAssumption DEF EditBy, RestoreIInv, RestoreTypes
  <1>2. /\ Things \subseteq Things' /\ NamesAreUnique' /\ IsSeq(site.things)'
        /\ \A t \in Things : Thing(t)' = Thing(t)
        /\ \A t \in Things' \ Things :
             ThingOK(Thing(t))' /\ Thing(t)'.from = Original /\ Thing(t)'.gone = "no"
    BY <1>1, PostAdds DEF RestoreIInv
  <1>3. RestoreTypes'
    BY <1>1, <1>2 DEF RestoreIInv, RestoreTypes
  <1> QED
    BY <1>1, <1>2, <1>3, GrowIInv

(* The listing has what is in the folder, none of it of this collection.   *)
LEMMA ListCollisionsIInv ==
  ASSUME RestoreIInv, ListCollisions
  PROVE  RestoreIInv'
  <1>1. /\ restore.at = "folders" /\ restore'.at = "items"
        /\ restore'.next = restore.next /\ restore'.coll = restore.coll
        /\ restore'.up = restore.up /\ restore'.policy = restore.policy
        /\ restore'.failFast = restore.failFast /\ restore'.reported = restore.reported
        /\ restore'.skipped = restore.skipped /\ restore'.restored = restore.restored
        /\ restore'.failed = restore.failed /\ restore'.cancelled = restore.cancelled
        /\ restore'.listing = Listing(site.things, restore.up)
        /\ DOMAIN restore' = DOMAIN restore
        /\ UNCHANGED <<site, edits>>
        /\ task' = [i \in Coll.items |-> Pending]
        /\ restore.coll \in DOMAIN Colls /\ restore.coll < restore.next
    BY DEF ListCollisions, RestoreIInv, RestoreTypes, Current
  <1>2. DOMAIN task' = Coll.items /\ \A i \in Coll.items : task'[i].at = "todo"
    BY <1>1 DEF Pending
  <1>3. RestoreTypes'
    <2>1. Pending \in [at : TaskSteps, new : Nat, tries : Nat]
      BY DEF Pending, TaskSteps
    <2> QED
      BY <1>1, <2>1 DEF RestoreIInv, RestoreTypes, Things, Thing
  <1>4. NamesAreUnique' /\ PostedOnce'
    BY <1>1 DEF RestoreIInv, NamesAreUnique, PostedOnce, Things, Thing, Giver
  <1>5. Current'
    BY <1>1, <1>2 DEF Current, Coll
  <1>6. TasksFollow'
    <2>1. \A i : \A t \in Things : Thing(t).from # TakenBy(restore.coll, i)
      BY <1>1, RestoreAssumption DEF RestoreIInv, Current, Giver, TakenBy, Original
    <2> QED
      BY <1>1, <1>2, <2>1 DEF TasksFollow, Me, Things, Thing
  <1>7. Listed'
    <2>1. ASSUME NEW l \in Listing(site.things, restore.up)
          PROVE  /\ l.id \in Things /\ Thing(l.id).gone = "no"
                 /\ Thing(l.id).name = l.name /\ Thing(l.id).nth = l.nth
                 /\ Thing(l.id).up = restore.up
      BY DEF Listing, Here, Things, Thing
    <2>2. \A t \in Things : Thing(t).from = Original \/ Giver(t) < restore.coll
      BY <1>1 DEF RestoreIInv, Current
    <2>3. \A l, m \in Listing(site.things, restore.up) :
            l.name = m.name /\ l.nth = 0 /\ m.nth = 0 => l.id = m.id
      BY <2>1 DEF RestoreIInv, NamesAreUnique
    <2> QED
      BY <1>1, <2>1, <2>2, <2>3 DEF Listed, Things, Thing, Giver
  <1>8. DoneIsAccounted'
    <2> SUFFICES ASSUME ~restore.failed, ~restore.cancelled,
                        NEW c \in DOMAIN Colls, NEW me \in AllItems(c), c < restore.next,
                        Accounted(me) \/ InProgress(me)
                 PROVE  Accounted(me)' \/ InProgress(me)'
      BY <1>1 DEF RestoreIInv, DoneIsAccounted, AllItems
    <2>1. Accounted(me) => Accounted(me)'
      BY <1>1 DEF Accounted, Things, Thing
    <2>2. InProgress(me) => InProgress(me)'
      BY <1>1, <1>2 DEF InProgress, AllItems, TakenBy, Coll
    <2> QED
      BY <2>1, <2>2
  <1>9. GoneIsReplaced'
    BY <1>1 DEF RestoreIInv, GoneIsReplaced, Replacement, Current, Things, Thing, Giver, Whole
  <1> QED
    BY <1>3, <1>4, <1>5, <1>6, <1>7, <1>8, <1>9 DEF RestoreIInv

-----------------------------------------------------------------------------
(* Actions of the current collection.                                      *)

(* Something is removed by others.                                         *)
LEMMA RemovedIInv ==
  ASSUME RestoreIInv, NEW u \in Here(site.things, restore.up),
         EditBy([site.things EXCEPT ![u].gone = "others"])
  PROVE  RestoreIInv'
  <1>1. /\ UNCHANGED <<restore, task>> /\ DOMAIN site' = DOMAIN site
        /\ site'.things = [site.things EXCEPT ![u].gone = "others"]
        /\ edits' \in 0..MaxEdits
        /\ u \in Things /\ Thing(u).gone = "no"
    BY RestoreAssumption DEF EditBy, RestoreIInv, RestoreTypes, Here, Things, Thing
  <1>2. /\ Things' = Things /\ IsSeq(site.things)'
        /\ \A t \in Things : t # u => Thing(t)' = Thing(t)
        /\ \A t \in Things :
             /\ Thing(t)'.up = Thing(t).up /\ Thing(t)'.name = Thing(t).name
             /\ Thing(t)'.nth = Thing(t).nth /\ Thing(t)'.kind = Thing(t).kind
             /\ Thing(t)'.holds = Thing(t).holds /\ Thing(t)'.from = Thing(t).from
             /\ ThingOK(Thing(t))'
        /\ Thing(u)'.gone = "others"
    BY <1>1, SeqUpdate DEF RestoreIInv, RestoreTypes, Things, Thing, ThingOK
  <1>3. RestoreTypes'
    BY <1>1, <1>2 DEF RestoreIInv, RestoreTypes
  <1>4. NamesAreUnique' /\ PostedOnce'
    BY <1>1, <1>2 DEF RestoreIInv, NamesAreUnique, PostedOnce, Giver
  <1>5. Current'
    BY <1>1, <1>2 DEF RestoreIInv, Current, Giver, Coll
  <1>6. Listed'
    BY <1>1, <1>2 DEF RestoreIInv, Listed, Giver
  <1>7. TasksFollow'
    <2>1. \A i \in DOMAIN task : ShouldDeleteOriginal(i) => ShouldDeleteOriginal(i)'
      BY <1>1, <1>2 DEF RestoreIInv, Listed, ShouldDeleteOriginal, Collision, Things, Thing
    <2> QED
      BY <1>1, <1>2, <2>1 DEF RestoreIInv, TasksFollow, Me
  <1>8. DoneIsAccounted'
    BY <1>1, <1>2 DEF RestoreIInv, DoneIsAccounted, Accounted, InProgress
  <1>9. GoneIsReplaced'
    <2> SUFFICES ASSUME NEW t \in Things, Thing(t).gone = "restore",
                        NEW c \in DOMAIN Colls, Replacement(t, c)
                 PROVE  Replacement(t, c)'
      BY <1>1, <1>2 DEF RestoreIInv, GoneIsReplaced
    <2>1. ASSUME NEW w \in Whole(TakenBy(c, Thing(t).name))
          PROVE  w \in Things /\ w \in Whole(TakenBy(c, Thing(t).name))'
      BY <1>1, <1>2 DEF Whole, Things, Thing
    <2> QED
      BY <1>1, <1>2, <2>1 DEF Replacement, Giver
  <1> QED
    BY <1>3, <1>4, <1>5, <1>6, <1>7, <1>8, <1>9 DEF RestoreIInv

(* What all steps of an item have in common.                               *)
ItemGoesOn ==
  /\ DOMAIN restore' = DOMAIN restore
  /\ restore'.at = restore.at /\ restore'.next = restore.next /\ restore'.coll = restore.coll
  /\ restore'.up = restore.up /\ restore'.policy = restore.policy
  /\ restore'.failFast = restore.failFast /\ restore'.listing = restore.listing
  /\ restore'.cancelled = restore.cancelled
  /\ restore'.failed \in BOOLEAN /\ (restore.failed => restore'.failed)
  /\ restore.reported \subseteq restore'.reported /\ restore.skipped \subseteq restore'.skipped
  /\ restore.restored \subseteq restore'.restored

OneTask(i) ==
  /\ DOMAIN task' = DOMAIN task
  /\ \A j \in DOMAIN task \ {i} : task'[j] = task[j]
  /\ task' \in [DOMAIN task' -> [at : TaskSteps, new : Nat, tries : Nat]]

LEMMA UnchangedItemGoesOn == RestoreIInv /\ UNCHANGED restore => ItemGoesOn
  BY DEF RestoreIInv, RestoreTypes, ItemGoesOn

LEMMA StepOneTask ==
  ASSUME RestoreIInv, NEW i \in DOMAIN task, NEW at \in TaskSteps, task' = [task EXCEPT ![i].at = at]
  PROVE  OneTask(i) /\ task'[i].at = at /\ task'[i].new = task[i].new
  BY DEF RestoreIInv, RestoreTypes, OneTask

LEMMA ItemFailsStep ==
  ASSUME RestoreIInv, NEW i \in DOMAIN task, ItemFails(i)
  PROVE  ItemGoesOn /\ OneTask(i) /\ task'[i].at = "done" /\ Me(i) \in restore'.reported
  <1>1. OneTask(i) /\ task'[i].at = "done"
    BY StepOneTask DEF ItemFails, Done, TaskSteps
  <1>2. restore' = [restore EXCEPT !.reported = @ \cup {Me(i)}, !.failed = @ \/ restore.failFast]
    BY DEF ItemFails, Reported
  <1>3. Me(i) \in restore'.reported /\ restore.reported \subseteq restore'.reported
    BY <1>2 DEF RestoreIInv, RestoreTypes
  <1>4. ItemGoesOn
    BY <1>2, <1>3 DEF RestoreIInv, RestoreTypes, ItemGoesOn
  <1> QED
    BY <1>1, <1>3, <1>4

(* A step of an item that leaves the site alone.                           *)
LEMMA QuietStepIInv ==
  ASSUME RestoreIInv, NEW i \in DOMAIN task, ItemGoesOn, OneTask(i), UNCHANGED <<site, edits>>,
         task[i].at # "done",
         \/ task'[i].at = "done" /\ Me(i) \in restore'.reported
         \/ /\ task'[i].at = "done" /\ Me(i) \in restore'.skipped
            /\ restore.policy = "Skip" /\ Collision(i) # {} /\ task[i].at = "todo"
         \/ task[i].at = "todo" /\ task'[i].at = "post"
         \/ task[i].at = "todo" /\ task'[i].at = "delete" /\ ShouldDeleteOriginal(i)
         \/ task'[i].at = task[i].at /\ task'[i].new = task[i].new
  PROVE  RestoreIInv'
  <1>1. \A j \in DOMAIN task : Me(j)' = Me(j) /\ ShouldDeleteOriginal(j)' = ShouldDeleteOriginal(j)
    BY DEF ItemGoesOn, Me, ShouldDeleteOriginal, Collision
  <1>2. RestoreTypes'
    BY DEF RestoreIInv, RestoreTypes, ItemGoesOn, OneTask, Things, Thing
  <1>3. NamesAreUnique' /\ PostedOnce' /\ Listed'
    BY DEF RestoreIInv, NamesAreUnique, PostedOnce, Listed, ItemGoesOn, OneTask, Things, Thing, Giver
  <1>4. Current'
    BY DEF RestoreIInv, Current, ItemGoesOn, OneTask, Things, Thing, Giver, Coll
  <1>5. TasksFollow'
    <2>1. \A j \in DOMAIN task \ {i} : task'[j] = task[j]
      BY DEF OneTask
    <2> QED
      BY <1>1, <2>1 DEF RestoreIInv, TasksFollow, OneTask, ItemGoesOn, Things, Thing
  <1>6. DoneIsAccounted'
    <2> SUFFICES ASSUME ~restore'.failed, ~restore.cancelled,
                        NEW c \in DOMAIN Colls, NEW me \in AllItems(c), c < restore.next,
                        Accounted(me) \/ InProgress(me)
                 PROVE  Accounted(me)' \/ InProgress(me)'
      BY DEF RestoreIInv, DoneIsAccounted, AllItems, ItemGoesOn
    <2>1. Accounted(me) => Accounted(me)'
      BY DEF Accounted, ItemGoesOn, Things, Thing
    <2>2. CASE InProgress(me) /\ me # Me(i)
      BY <2>2 DEF InProgress, AllItems, TakenBy, Me, ItemGoesOn, OneTask, RestoreIInv, Current, Coll
    <2>3. CASE InProgress(me) /\ me = Me(i)
      <3>1. me[1] = restore.coll /\ me[2] = i /\ i \in Coll.items
        BY <2>3 DEF InProgress, Me, TakenBy, RestoreIInv, Current
      <3>2. CASE task'[i].at # "done"
        BY <2>3, <3>1, <3>2 DEF InProgress, ItemGoesOn
      <3>3. CASE Me(i) \in restore'.reported
        BY <2>3, <3>3 DEF Accounted
      <3>4. CASE /\ Me(i) \in restore'.skipped /\ task[i].at = "todo"
                 /\ restore.policy = "Skip" /\ Collision(i) # {}
        <4>1. PICK t \in Things : Thing(t).name = i
          BY <3>4 DEF Collision, RestoreIInv, Listed
        <4>2. Thing(t).from # Me(i)
          BY <3>4 DEF RestoreIInv, TasksFollow
        <4> QED
          BY <2>3, <3>1, <3>4, <4>1, <4>2 DEF Accounted, ItemGoesOn, Things, Thing
      <3> QED
        BY <3>2, <3>3, <3>4
    <2> QED
      BY <2>1, <2>2, <2>3
  <1>7. GoneIsReplaced'
    <2> SUFFICES ASSUME NEW t \in Things, Thing(t).gone = "restore", restore.policy = "Replace",
                        NEW c \in DOMAIN Colls, Replacement(t, c)
                 PROVE  Replacement(t, c)'
      BY DEF RestoreIInv, GoneIsReplaced, Things, Thing, ItemGoesOn
    <2>1. CASE Thing(t).name = i /\ c = restore.coll /\ task'[i].at = "done"
      <3>1. TakenBy(c, i) \in restore'.reported
        BY <2>1 DEF Me
      <3> QED
        BY <2>1, <3>1 DEF Replacement, ItemGoesOn, Things, Thing, Giver
    <2>2. CASE ~(Thing(t).name = i /\ c = restore.coll /\ task'[i].at = "done")
      BY <2>2 DEF Replacement, ItemGoesOn, OneTask, Things, Thing, Giver, Whole
    <2> QED
      BY <2>1, <2>2
  <1> QED
    BY <1>2, <1>3, <1>4, <1>5, <1>6, <1>7 DEF RestoreIInv

LEMMA StartItemIInv ==
  ASSUME RestoreIInv, NEW i \in DOMAIN task, StartItem(i)
  PROVE  RestoreIInv'
  <1>1. task[i].at = "todo" /\ UNCHANGED <<site, edits>>
    BY DEF StartItem
  <1>2. CASE ItemFails(i)
    BY <1>1, <1>2, ItemFailsStep, QuietStepIInv
  <1>3. CASE /\ Collision(i) # {} /\ restore.policy = "Skip" /\ Done(i)
             /\ restore' = [restore EXCEPT !.skipped = @ \cup {Me(i)}]
    <2>1. OneTask(i) /\ task'[i].at = "done"
      BY <1>3, StepOneTask DEF Done, TaskSteps
    <2>2. ItemGoesOn /\ Me(i) \in restore'.skipped
      BY <1>3 DEF RestoreIInv, RestoreTypes, ItemGoesOn
    <2> QED
      BY <1>1, <1>3, <2>1, <2>2, QuietStepIInv
  <1>4. CASE UNCHANGED restore
             /\ task' = [task EXCEPT ![i].at = IF ShouldDeleteOriginal(i) THEN "delete" ELSE "post"]
    <2> DEFINE at == IF ShouldDeleteOriginal(i) THEN "delete" ELSE "post"
    <2>1. OneTask(i) /\ task'[i].at = at
      BY <1>4, StepOneTask DEF TaskSteps
    <2>2. ItemGoesOn
      BY <1>4, UnchangedItemGoesOn
    <2> QED
      BY <1>1, <2>1, <2>2, QuietStepIInv
  <1> QED
    BY <1>2, <1>3, <1>4 DEF StartItem

(* What an item replaces goes, and it will take its place or is reported.  *)
LEMMA DeleteStepIInv ==
  ASSUME RestoreIInv, NEW i \in DOMAIN task, task[i].at = "delete", ItemGoesOn, OneTask(i),
         UNCHANGED edits,
         \/ task'[i].at = "post"
         \/ task'[i].at = "done" /\ Me(i) \in restore'.reported,
         site' = [site EXCEPT !.things = [t \in DOMAIN @ |->
                    IF t \in Collision(i) /\ @[t].gone = "no"
                    THEN [@[t] EXCEPT !.gone = "restore"] ELSE @[t]]]
  PROVE  RestoreIInv'
  <1> DEFINE Going(t) == t \in Collision(i) /\ Thing(t).gone = "no"
  <1>1. /\ DOMAIN site' = DOMAIN site
        /\ site'.things = [t \in Things |-> IF Going(t) THEN [Thing(t) EXCEPT !.gone = "restore"]
                                           ELSE Thing(t)]
    BY DEF RestoreIInv, RestoreTypes, Things, Thing
  <1>2. /\ Things' = Things /\ IsSeq(site.things)'
        /\ \A t \in Things : ~Going(t) => Thing(t)' = Thing(t)
        /\ \A t \in Things :
             /\ Thing(t)'.up = Thing(t).up /\ Thing(t)'.name = Thing(t).name
             /\ Thing(t)'.nth = Thing(t).nth /\ Thing(t)'.kind = Thing(t).kind
             /\ Thing(t)'.holds = Thing(t).holds /\ Thing(t)'.from = Thing(t).from
             /\ ThingOK(Thing(t))'
             /\ Thing(t)'.gone = "no" => Thing(t).gone = "no"
             /\ Going(t) => Thing(t)'.gone = "restore"
    <2>1. IsSeq(site.things)'
      BY <1>1, SeqUpdate DEF RestoreIInv, RestoreTypes, Things
    <2> QED
      BY <1>1, <2>1 DEF RestoreIInv, RestoreTypes, Things, Thing, ThingOK
  <1> HIDE DEF Going
  <1>3. RestoreTypes'
    BY <1>1, <1>2 DEF RestoreIInv, RestoreTypes, ItemGoesOn, OneTask
  <1>4. NamesAreUnique' /\ PostedOnce'
    BY <1>2 DEF RestoreIInv, NamesAreUnique, PostedOnce, Giver, ItemGoesOn
  <1>5. Current'
    BY <1>2 DEF RestoreIInv, Current, Giver, Coll, ItemGoesOn, OneTask
  <1>6. Listed'
    BY <1>2 DEF RestoreIInv, Listed, Giver, ItemGoesOn, OneTask
  <1>7. TasksFollow'
    <2>1. \A j \in DOMAIN task : ShouldDeleteOriginal(j) => ShouldDeleteOriginal(j)'
      BY <1>2 DEF RestoreIInv, Listed, ShouldDeleteOriginal, Collision, Things, Thing, ItemGoesOn
    <2>2. \A j \in DOMAIN task : Me(j)' = Me(j)
      BY DEF Me, ItemGoesOn
    <2>3. \A j \in DOMAIN task \ {i} : task'[j] = task[j]
      BY DEF OneTask
    <2> QED
      BY <1>2, <2>1, <2>2, <2>3 DEF RestoreIInv, TasksFollow, ItemGoesOn, OneTask
  <1>8. DoneIsAccounted'
    <2> SUFFICES ASSUME ~restore'.failed, ~restore.cancelled,
                        NEW c \in DOMAIN Colls, NEW me \in AllItems(c), c < restore.next,
                        Accounted(me) \/ InProgress(me)
                 PROVE  Accounted(me)' \/ InProgress(me)'
      BY DEF RestoreIInv, DoneIsAccounted, AllItems, ItemGoesOn
    <2>1. Accounted(me) => Accounted(me)'
      BY <1>2 DEF Accounted, ItemGoesOn
    <2>2. CASE InProgress(me) /\ me # Me(i)
      BY <2>2 DEF InProgress, AllItems, TakenBy, Me, ItemGoesOn, OneTask, RestoreIInv, Current, Coll
    <2>3. CASE InProgress(me) /\ me = Me(i)
      BY <2>3 DEF InProgress, Accounted, Me, TakenBy, ItemGoesOn
    <2> QED
      BY <2>1, <2>2, <2>3
  <1>9. GoneIsReplaced'
    <2> DEFINE Here0(t) == Thing(t).name = i /\ Thing(t).up = restore.up /\ restore.coll \in DOMAIN Colls
                           /\ (Thing(t).from # Original => Giver(t) < restore.coll)
    <2>1. ASSUME NEW t \in Things, Here0(t)
          PROVE  \E d \in DOMAIN Colls : Replacement(t, d)'
      <3> SUFFICES ASSUME NEW d \in DOMAIN Colls, d = restore.coll
                   PROVE  Replacement(t, d)'
        BY <2>1
      <3>1. i \in Coll.items /\ restore.coll < restore.next
        BY DEF RestoreIInv, Current
      <3>2. Me(i) \in restore'.reported \/ task'[i].at # "done"
        OBVIOUS
      <3> QED
        BY <1>2, <2>1, <3>1, <3>2 DEF Replacement, ItemGoesOn, OneTask, Me, Coll, Giver
    <2>2. ASSUME NEW t \in Things, t \in Collision(i)
          PROVE  Here0(t) /\ Thing(t).kind = "file"
      <3>1. /\ Thing(t).name = i /\ Thing(t).up = restore.up
            /\ (Thing(t).from # Original => Giver(t) < restore.coll)
        BY <2>2 DEF RestoreIInv, Listed, Collision
      <3>2. PICK u \in Collision(i) : Thing(u).kind = "file"
        BY DEF RestoreIInv, TasksFollow, ShouldDeleteOriginal, Thing
      <3>3. t = u
        BY <2>2 DEF RestoreIInv, Listed, Collision
      <3> QED
        BY <3>1, <3>2, <3>3 DEF RestoreIInv, Current
    <2>3. restore.policy = "Replace"
      BY DEF RestoreIInv, TasksFollow, ShouldDeleteOriginal
    <2> SUFFICES ASSUME NEW t \in Things, Thing(t)'.gone = "restore"
                 PROVE  Thing(t).kind = "file" /\ \E c \in DOMAIN Colls : Replacement(t, c)'
      BY <1>2, <2>3 DEF GoneIsReplaced, ItemGoesOn
    <2>4. CASE Thing(t).gone # "restore"
      <3>1. t \in Collision(i)
        BY <1>2, <2>4 DEF Going
      <3> QED
        BY <2>1, <2>2, <3>1
    <2>5. CASE Thing(t).gone = "restore"
      <3>1. PICK c \in DOMAIN Colls : Replacement(t, c)
        BY <2>5 DEF RestoreIInv, GoneIsReplaced
      <3>2. Thing(t).kind = "file"
        BY <2>5 DEF RestoreIInv, GoneIsReplaced
      <3>3. CASE TakenBy(c, Thing(t).name) \in restore.reported
        BY <1>2, <3>1, <3>2, <3>3 DEF Replacement, ItemGoesOn, Giver
      <3>4. ASSUME NEW w \in Whole(TakenBy(c, Thing(t).name)), Thing(w).up = Thing(t).up
            PROVE  \E d \in DOMAIN Colls : Replacement(t, d)'
        <4>1. /\ w \in Things /\ Thing(w).from = TakenBy(c, Thing(t).name)
              /\ Thing(w).holds = "all" /\ Thing(w).gone # "restore"
          BY <3>4 DEF Whole, Things, Thing
        <4>2. CASE Going(w)
          <5>1. Here0(w)
            BY <2>2, <4>1, <4>2 DEF Going
          <5>2. Thing(w).from # Original /\ Giver(w) = c /\ Thing(w).name = Thing(t).name
            BY <4>1, RestoreAssumption DEF TakenBy, Original, Giver, RestoreIInv, PostedOnce
          <5>3. Thing(t).from # Original => Giver(t) < c
            BY <3>1 DEF Replacement
          <5>4. Thing(t).from # Original => Giver(t) \in Nat /\ c \in Nat /\ restore.coll \in Nat
            BY <5>1, RestoreAssumption DEF RestoreIInv, PostedOnce
          <5>5. Here0(t)
            BY <3>4, <5>1, <5>2, <5>3, <5>4
          <5> QED
            BY <2>1, <5>1, <5>5
        <4>3. CASE ~Going(w)
          <5>1. w \in Whole(TakenBy(c, Thing(t).name))'
            BY <1>2, <4>1, <4>3 DEF Whole, Things, Thing
          <5> QED
            BY <1>2, <3>1, <3>4, <4>1, <5>1 DEF Replacement, ItemGoesOn, Giver
        <4> QED
          BY <4>2, <4>3
      <3>5. CASE /\ c = restore.coll /\ Thing(t).name \in DOMAIN task
                 /\ task[Thing(t).name].at # "done" /\ restore.up = Thing(t).up
        <4>1. CASE Thing(t).name = i
          <5>1. Here0(t)
            BY <3>1, <3>5, <4>1 DEF Replacement
          <5> QED
            BY <2>1, <3>2, <3>5, <5>1
        <4>2. CASE Thing(t).name # i
          BY <1>2, <3>1, <3>2, <3>5, <4>2 DEF Replacement, ItemGoesOn, OneTask, Giver
        <4> QED
          BY <4>1, <4>2
      <3> QED
        BY <3>1, <3>2, <3>3, <3>4, <3>5 DEF Replacement
    <2> QED
      BY <2>4, <2>5
  <1> QED
    BY <1>3, <1>4, <1>5, <1>6, <1>7, <1>8, <1>9 DEF RestoreIInv

LEMMA DeleteOriginalIInv ==
  ASSUME RestoreIInv, NEW i \in DOMAIN task, DeleteOriginal(i)
  PROVE  RestoreIInv'
  <1>1. task[i].at = "delete" /\ UNCHANGED edits
    BY DEF DeleteOriginal
  <1>2. CASE ItemFails(i)
    <2>1. /\ ItemGoesOn /\ OneTask(i) /\ task'[i].at = "done" /\ Me(i) \in restore'.reported
      BY <1>2, ItemFailsStep
    <2>2. CASE UNCHANGED site
      BY <1>1, <2>1, <2>2, QuietStepIInv
    <2> QED
      BY <1>1, <2>1, <2>2, DeleteStepIInv DEF DeleteOriginal
  <1>3. CASE task' = [task EXCEPT ![i].at = "post"] /\ UNCHANGED restore /\ ~ItemFails(i)
    <2>1. ItemGoesOn /\ OneTask(i) /\ task'[i].at = "post"
      BY <1>3, StepOneTask, UnchangedItemGoesOn DEF TaskSteps
    <2> QED
      BY <1>1, <1>3, <2>1, DeleteStepIInv DEF DeleteOriginal
  <1> QED
    BY <1>2, <1>3 DEF DeleteOriginal

(* A post is of an item that was not posted before.                        *)
LEMMA PostStepIInv ==
  ASSUME RestoreIInv, NEW i \in DOMAIN task, task[i].at = "post", ItemGoesOn, OneTask(i), UNCHANGED edits,
         site' = [site EXCEPT !.things = Posted(@, restore.up, i, "file", Me(i))],
         NEW new, new = Len(site.things) + 1,
         \/ task'[i].at = "upload" /\ task'[i].new = new
         \/ task'[i].at = "done" /\ Me(i) \in restore'.reported
  PROVE  RestoreIInv'
  <1> DEFINE me0 == TakenBy(restore.coll, i)
  <1>1. /\ restore.coll \in DOMAIN Colls /\ restore.coll < restore.next
        /\ restore.coll \in Nat \ {0} /\ restore.next \in Nat
        /\ i \in Coll.items /\ restore.at # "folders"
    BY RestoreAssumption DEF RestoreIInv, Current, RestoreTypes
  <1>2. \A t \in Things : Thing(t).from # me0
    BY DEF RestoreIInv, TasksFollow, Me
  <1>3. /\ DOMAIN site' = DOMAIN site
        /\ site'.things = Posted(site.things, restore.up, i, "file", Me(i))
    BY DEF RestoreIInv, RestoreTypes
  <1>4. /\ Things' = Things \cup {new} /\ new \in Nat \ Things
        /\ IsSeq(site.things)' /\ NamesAreUnique'
        /\ \A t \in Things : Thing(t)' = Thing(t)
        /\ \A t \in Things' \ Things :
             /\ t = new /\ ThingOK(Thing(t))' /\ Thing(t)'.gone = "no"
             /\ Thing(t)'.up = restore.up /\ Thing(t)'.name = i /\ Thing(t)'.kind = "file"
             /\ Thing(t)'.from = Me(i)
    <2>1. RestoreTypes /\ NamesAreUnique
      BY DEF RestoreIInv
    <2>2. ASSUME NEW up, NEW from, site'.things = Posted(site.things, up, i, "file", from)
          PROVE  /\ Things' = Things \cup {new} /\ new \in Nat \ Things
                 /\ IsSeq(site.things)' /\ NamesAreUnique'
                 /\ \A t \in Things : Thing(t)' = Thing(t)
                 /\ \A t \in Things' \ Things :
                      /\ t = new /\ ThingOK(Thing(t))' /\ Thing(t)'.gone = "no"
                      /\ Thing(t)'.up = up /\ Thing(t)'.name = i /\ Thing(t)'.kind = "file"
                      /\ Thing(t)'.from = from
      BY <1>3, <2>1, <2>2, PostAdds
    <2> QED
      BY <1>3, <2>2
  <1>5. me0 # Original /\ me0[1] = restore.coll /\ me0[2] = i /\ Me(i) = me0
    BY <1>1 DEF TakenBy, Original, Me
  <1>6. \A j \in DOMAIN task : Me(j)' = Me(j) /\ (j # i => Me(j) # me0)
    BY DEF Me, ItemGoesOn, TakenBy
  <1>7. RestoreTypes'
    BY <1>3, <1>4 DEF RestoreIInv, RestoreTypes, ItemGoesOn, OneTask
  <1>8. PostedOnce'
    <2>1. ASSUME NEW t \in Things', Thing(t)'.from # Original
          PROVE  /\ Thing(t)'.from = TakenBy(Giver(t)', Thing(t)'.name)
                 /\ Giver(t)' \in DOMAIN Colls /\ Giver(t)' < restore'.next
                 /\ Thing(t)'.kind = "file"
      <3>1. CASE t \in Things
        BY <1>4, <2>1, <3>1 DEF RestoreIInv, PostedOnce, Giver, ItemGoesOn
      <3>2. CASE t \notin Things
        BY <1>1, <1>4, <1>5, <2>1, <3>2 DEF Giver, ItemGoesOn
      <3> QED
        BY <3>1, <3>2
    <2>2. ASSUME NEW t \in Things', NEW u \in Things',
                 Thing(t)'.from # Original, Thing(t)'.from = Thing(u)'.from
          PROVE  t = u
      BY <1>2, <1>4, <1>5, <2>2 DEF RestoreIInv, PostedOnce
    <2> QED
      BY <2>1, <2>2 DEF PostedOnce
  <1>9. Current'
    BY <1>1 DEF RestoreIInv, Current, ItemGoesOn, OneTask, Coll
  <1>10. TasksFollow'
    <2>1. \A j \in DOMAIN task : ShouldDeleteOriginal(j) => ShouldDeleteOriginal(j)'
      BY <1>4 DEF RestoreIInv, Listed, ShouldDeleteOriginal, Collision, Things, Thing, ItemGoesOn
    <2>2. \A j \in DOMAIN task \ {i} : task'[j] = task[j]
      BY DEF OneTask
    <2> SUFFICES ASSUME NEW j \in DOMAIN task, NEW x, x = task'[j].new
                 PROVE  /\ task'[j].at \in {"todo", "delete", "post"}
                             => \A t \in Things' : Thing(t)'.from # Me(j)
                        /\ task'[j].at = "delete" => ShouldDeleteOriginal(j)'
                        /\ task'[j].at = "upload" =>
                             x \in Things' /\ Thing(x)'.from = Me(j) /\ Thing(x)'.up = restore.up
      BY <1>6 DEF TasksFollow, ItemGoesOn, OneTask
    <2>3. CASE j = i
      BY <1>4, <2>3
    <2>4. CASE j # i
      <3>1. task'[j] = task[j] /\ Me(j) # Me(i)
        BY <1>5, <1>6, <2>2, <2>4
      <3>2. /\ task[j].at \in {"todo", "delete", "post"} => \A t \in Things : Thing(t).from # Me(j)
            /\ task[j].at = "delete" => ShouldDeleteOriginal(j)
            /\ task[j].at = "upload" =>
                 x \in Things /\ Thing(x).from = Me(j) /\ Thing(x).up = restore.up
        BY <3>1 DEF RestoreIInv, TasksFollow
      <3> QED
        BY <1>4, <2>1, <3>1, <3>2
    <2> QED
      BY <2>3, <2>4
  <1>11. Listed'
    BY <1>4 DEF RestoreIInv, Listed, Giver, ItemGoesOn, OneTask
  <1>12. DoneIsAccounted'
    <2> SUFFICES ASSUME ~restore'.failed, ~restore.cancelled,
                        NEW c \in DOMAIN Colls, NEW me \in AllItems(c), c < restore.next,
                        Accounted(me) \/ InProgress(me)
                 PROVE  Accounted(me)' \/ InProgress(me)'
      BY DEF RestoreIInv, DoneIsAccounted, AllItems, ItemGoesOn
    <2>1. Accounted(me) => Accounted(me)'
      BY <1>4 DEF Accounted, ItemGoesOn
    <2>2. CASE InProgress(me) /\ me # Me(i)
      BY <2>2 DEF InProgress, AllItems, TakenBy, Me, ItemGoesOn, OneTask, RestoreIInv, Current, Coll
    <2>3. CASE InProgress(me) /\ me = Me(i)
      BY <2>3 DEF InProgress, Accounted, Me, TakenBy, ItemGoesOn
    <2> QED
      BY <2>1, <2>2, <2>3
  <1>13. GoneIsReplaced'
    <2> SUFFICES ASSUME NEW t \in Things, Thing(t).gone = "restore",
                        NEW c \in DOMAIN Colls, Replacement(t, c)
                 PROVE  Replacement(t, c)'
      BY <1>4 DEF RestoreIInv, GoneIsReplaced, ItemGoesOn
    <2>1. ASSUME NEW w \in Whole(TakenBy(c, Thing(t).name))
          PROVE  w \in Things /\ w \in Whole(TakenBy(c, Thing(t).name))'
      BY <1>4 DEF Whole, Things, Thing
    <2>2. CASE Thing(t).name = i /\ c = restore.coll /\ Me(i) \in restore'.reported
      BY <1>4, <2>2 DEF Replacement, ItemGoesOn, Giver, Me
    <2>3. CASE ~(Thing(t).name = i /\ c = restore.coll /\ Me(i) \in restore'.reported)
      BY <1>4, <2>1, <2>3 DEF Replacement, ItemGoesOn, OneTask, Giver
    <2> QED
      BY <2>2, <2>3
  <1> QED
    BY <1>4, <1>7, <1>8, <1>9, <1>10, <1>11, <1>12, <1>13 DEF RestoreIInv

LEMMA PostItemIInv ==
  ASSUME RestoreIInv, NEW i \in DOMAIN task, PostItem(i)
  PROVE  RestoreIInv'
  <1>1. task[i].at = "post" /\ UNCHANGED edits
    BY DEF PostItem
  <1>2. CASE ItemFails(i)
    <2>1. /\ ItemGoesOn /\ OneTask(i) /\ task'[i].at = "done" /\ Me(i) \in restore'.reported
      BY <1>2, ItemFailsStep
    <2>2. CASE UNCHANGED site
      BY <1>1, <2>1, <2>2, QuietStepIInv
    <2>3. CASE site' = [site EXCEPT !.things = Posted(@, restore.up, i, "file", Me(i))]
      <3> SUFFICES ASSUME NEW new, new = Len(site.things) + 1 PROVE RestoreIInv'
        OBVIOUS
      <3> QED
        BY <1>1, <2>1, <2>3, PostStepIInv
    <2> QED
      BY <2>2, <2>3 DEF PostItem
  <1>3. CASE /\ task' = [task EXCEPT ![i].at = "upload", ![i].new = Len(site.things) + 1]
             /\ UNCHANGED restore /\ ~ItemFails(i)
    <2> SUFFICES ASSUME NEW new, new = Len(site.things) + 1 PROVE RestoreIInv'
      OBVIOUS
    <2>1. new \in Nat
      BY SeqDomain DEF RestoreIInv, RestoreTypes
    <2>2. /\ task' = [task EXCEPT ![i].at = "upload", ![i].new = new]
          /\ UNCHANGED restore
      BY <1>3
    <2>3. ItemGoesOn
      BY <2>2, UnchangedItemGoesOn
    <2>4. OneTask(i) /\ task'[i].at = "upload" /\ task'[i].new = new
      <3> DEFINE r == [task[i] EXCEPT !.at = "upload", !.new = new]
      <3>1. task' = [task EXCEPT ![i] = r]
        BY <2>2
      <3>2. task[i] \in [at : TaskSteps, new : Nat, tries : Nat]
        BY DEF RestoreIInv, RestoreTypes
      <3>3. r \in [at : TaskSteps, new : Nat, tries : Nat] /\ r.at = "upload" /\ r.new = new
        BY <2>1, <3>2 DEF TaskSteps
      <3> HIDE DEF r
      <3> QED
        BY <3>1, <3>3 DEF RestoreIInv, RestoreTypes, OneTask
    <2> QED
      BY <1>1, <1>3, <2>3, <2>4, PostStepIInv DEF PostItem
  <1> QED
    BY <1>2, <1>3 DEF PostItem

(* An upload that ends well makes its item whole, and it is accounted for. *)
LEMMA UploadedIInv ==
  ASSUME RestoreIInv, NEW i \in DOMAIN task, task[i].at = "upload", UNCHANGED edits,
         NEW n, n = task[i].new, Thing(n).gone = "no",
         site' = [site EXCEPT !.things[n].holds = "all"],
         Done(i), restore' = [restore EXCEPT !.restored = @ \cup {Me(i)}]
  PROVE  RestoreIInv'
  <1>1. ItemGoesOn /\ Me(i) \in restore'.restored /\ restore'.failed = restore.failed
    BY DEF RestoreIInv, RestoreTypes, ItemGoesOn
  <1>2. OneTask(i) /\ task'[i].at = "done"
    BY StepOneTask DEF Done, TaskSteps
  <1>3. n \in Things /\ Thing(n).from = Me(i) /\ Thing(n).up = restore.up
    BY DEF RestoreIInv, TasksFollow
  <1>4. /\ restore.coll \in DOMAIN Colls /\ restore.coll \in Nat \ {0}
        /\ restore.at # "folders" /\ i \in Coll.items
    BY RestoreAssumption DEF RestoreIInv, Current
  <1>5. /\ DOMAIN site' = DOMAIN site
        /\ site'.things = [site.things EXCEPT ![n].holds = "all"]
    BY DEF RestoreIInv, RestoreTypes
  <1>6. /\ Things' = Things /\ IsSeq(site.things)'
        /\ \A t \in Things :
             /\ Thing(t)'.up = Thing(t).up /\ Thing(t)'.name = Thing(t).name
             /\ Thing(t)'.nth = Thing(t).nth /\ Thing(t)'.kind = Thing(t).kind
             /\ Thing(t)'.gone = Thing(t).gone /\ Thing(t)'.from = Thing(t).from
             /\ ThingOK(Thing(t))'
             /\ Thing(t).holds = "all" => Thing(t)'.holds = "all"
             /\ t = n => Thing(t)'.holds = "all"
    BY <1>3, <1>5, SeqUpdate DEF RestoreIInv, RestoreTypes, Things, Thing, ThingOK
  <1>7. RestoreTypes'
    BY <1>1, <1>2, <1>5, <1>6 DEF RestoreIInv, RestoreTypes, ItemGoesOn, OneTask
  <1>8. NamesAreUnique' /\ PostedOnce'
    BY <1>1, <1>6 DEF RestoreIInv, NamesAreUnique, PostedOnce, Giver, ItemGoesOn
  <1>9. Current'
    BY <1>1, <1>2, <1>6 DEF RestoreIInv, Current, Giver, Coll, ItemGoesOn, OneTask
  <1>10. Listed'
    BY <1>1, <1>2, <1>6 DEF RestoreIInv, Listed, Giver, ItemGoesOn, OneTask
  <1>11. TasksFollow'
    <2>1. \A j \in DOMAIN task : ShouldDeleteOriginal(j) => ShouldDeleteOriginal(j)'
      BY <1>1, <1>6 DEF RestoreIInv, Listed, ShouldDeleteOriginal, Collision, Things, Thing, ItemGoesOn
    <2>2. \A j \in DOMAIN task : Me(j)' = Me(j)
      BY <1>1 DEF Me, ItemGoesOn
    <2>3. \A j \in DOMAIN task \ {i} : task'[j] = task[j]
      BY <1>2 DEF OneTask
    <2> QED
      BY <1>1, <1>2, <1>6, <2>1, <2>2, <2>3 DEF RestoreIInv, TasksFollow, ItemGoesOn, OneTask
  <1>12. DoneIsAccounted'
    <2> SUFFICES ASSUME ~restore.failed, ~restore.cancelled,
                        NEW c \in DOMAIN Colls, NEW me \in AllItems(c), c < restore.next,
                        Accounted(me) \/ InProgress(me)
                 PROVE  Accounted(me)' \/ InProgress(me)'
      BY <1>1 DEF RestoreIInv, DoneIsAccounted, AllItems, ItemGoesOn
    <2>1. Accounted(me) => Accounted(me)'
      BY <1>1, <1>6 DEF Accounted, ItemGoesOn
    <2>2. CASE InProgress(me) /\ me # Me(i)
      BY <1>1, <1>2, <2>2 DEF InProgress, AllItems, TakenBy, Me, ItemGoesOn, OneTask, RestoreIInv, Current, Coll
    <2>3. CASE me = Me(i)
      BY <1>1, <1>3, <1>6, <2>3 DEF Accounted
    <2> QED
      BY <2>1, <2>2, <2>3
  <1>13. GoneIsReplaced'
    <2> SUFFICES ASSUME NEW t \in Things, Thing(t).gone = "restore",
                        NEW c \in DOMAIN Colls, Replacement(t, c)
                 PROVE  Replacement(t, c)'
      BY <1>1, <1>6 DEF RestoreIInv, GoneIsReplaced, ItemGoesOn
    <2>1. ASSUME NEW w \in Whole(TakenBy(c, Thing(t).name))
          PROVE  w \in Things /\ w \in Whole(TakenBy(c, Thing(t).name))'
      BY <1>6 DEF Whole, Things, Thing
    <2>2. ASSUME Thing(t).name = i, c = restore.coll
          PROVE  n \in Whole(TakenBy(c, Thing(t).name))'
      BY <1>3, <1>6, <2>2 DEF Whole, Things, Thing, Me
    <2>3. CASE Thing(t).name = i /\ c = restore.coll /\ restore.up = Thing(t).up
      BY <1>1, <1>3, <1>6, <2>2, <2>3 DEF Replacement, ItemGoesOn, Giver
    <2>4. CASE ~(Thing(t).name = i /\ c = restore.coll /\ restore.up = Thing(t).up)
      BY <1>1, <1>2, <1>6, <2>1, <2>4 DEF Replacement, ItemGoesOn, OneTask, Giver
    <2> QED
      BY <2>3, <2>4
  <1> QED
    BY <1>7, <1>8, <1>9, <1>10, <1>11, <1>12, <1>13 DEF RestoreIInv

LEMMA UploadIInv ==
  ASSUME RestoreIInv, NEW i \in DOMAIN task, Upload(i)
  PROVE  RestoreIInv'
  <1>1. task[i].at = "upload" /\ UNCHANGED edits
    BY DEF Upload
  <1>2. CASE ItemFails(i) /\ UNCHANGED site
    BY <1>1, <1>2, ItemFailsStep, QuietStepIInv
  <1>3. CASE task' = [task EXCEPT ![i].tries = @ + 1] /\ UNCHANGED <<site, restore>>
    <2>1. ItemGoesOn
      BY <1>3, UnchangedItemGoesOn
    <2>2. OneTask(i) /\ task'[i].at = task[i].at /\ task'[i].new = task[i].new
      <3> DEFINE r == [task[i] EXCEPT !.tries = @ + 1]
      <3>1. task[i] \in [at : TaskSteps, new : Nat, tries : Nat]
        BY DEF RestoreIInv, RestoreTypes
      <3>2. r \in [at : TaskSteps, new : Nat, tries : Nat] /\ r.at = task[i].at /\ r.new = task[i].new
        BY <3>1
      <3>3. task' = [task EXCEPT ![i] = r]
        BY <1>3
      <3> HIDE DEF r
      <3> QED
        BY <3>2, <3>3 DEF RestoreIInv, RestoreTypes, OneTask
    <2> QED
      BY <1>1, <1>3, <2>1, <2>2, QuietStepIInv
  <1>4. CASE /\ site.things[task[i].new].gone = "no"
             /\ site' = [site EXCEPT !.things[task[i].new].holds = Uploaded(task[i].tries)]
             /\ Done(i)
             /\ restore' = [restore EXCEPT !.restored = @ \cup {Me(i)}]
    <2> SUFFICES ASSUME NEW n, n = task[i].new PROVE RestoreIInv'
      OBVIOUS
    <2>1. Thing(n).gone = "no" /\ site' = [site EXCEPT !.things[n].holds = "all"]
      BY <1>4 DEF Thing, Uploaded
    <2> QED
      BY <1>1, <1>4, <2>1, UploadedIInv
  <1> QED
    BY <1>2, <1>3, <1>4 DEF Upload

LEMMA RestoreStepIInv == RestoreIInv /\ [RestoreNext]_restoreVars => RestoreIInv'
  <1> SUFFICES ASSUME RestoreIInv, [RestoreNext]_restoreVars PROVE RestoreIInv'
    OBVIOUS
  <1>1. CASE UNCHANGED restoreVars
    BY <1>1 DEF restoreVars, RestoreIInv, RestoreTypes, NamesAreUnique, PostedOnce, Current, TasksFollow, Listed,
                DoneIsAccounted, GoneIsReplaced, Accounted, InProgress, Replacement, Whole, Things,
                Thing, Giver, Me, Coll, ShouldDeleteOriginal, Collision
  <1>2. CASE BeginCollection
    BY <1>2, BeginCollectionIInv
  <1>3. CASE MakeFolder
    BY <1>3, MakeFolderIInv
  <1>4. CASE ListCollisions
    BY <1>4, ListCollisionsIInv
  <1>5. CASE BeginFails
    BY <1>5, BeginFailsIInv
  <1>6. CASE EndCollection \/ LeaveCollection \/ EndRestore \/ Cancel \/ PopulateFails
    BY <1>6, FlagActionsIInv
  <1>7. ASSUME NEW i \in DOMAIN task,
               StartItem(i) \/ DeleteOriginal(i) \/ PostItem(i) \/ Upload(i)
        PROVE  RestoreIInv'
    BY <1>7, StartItemIInv, DeleteOriginalIInv, PostItemIInv, UploadIInv
  <1>8. CASE Others
    BY <1>8, RemovedIInv, OthersIInv DEF Others
  <1> QED
    BY <1>1, <1>2, <1>3, <1>4, <1>5, <1>6, <1>7, <1>8 DEF RestoreNext

LEMMA RestoreInvariant == RestoreSpec => []RestoreIInv
  BY RestoreInitIInv, RestoreStepIInv, PTL DEF RestoreSpec

-----------------------------------------------------------------------------
(* A restore keeps its type: its steps follow one another as restore.go has*)
(* them.                                                                   *)
THEOREM RestoreTypeCorrect == RestoreSpec => []RestoreTypeOK
  <1>1. RestoreIInv => RestoreTypeOK
    BY DEF RestoreIInv, RestoreTypes, RestoreTypeOK, ThingOK, Things, Thing, TaskSteps
  <1> QED
    BY <1>1, RestoreInvariant, PTL

(* A restore that ends well has restored each item, or there is an error   *)
(* about it: RestoreCollection never loses one.                            *)
THEOREM RestoresOrReports == RestoreSpec => []RestoredOrReported
  <1>1. RestoreIInv => RestoredOrReported
    <2> SUFFICES ASSUME RestoreIInv, restore.at = "ended", ~restore.failed, ~restore.cancelled,
                        NEW c \in DOMAIN Colls, NEW me \in AllItems(c),
                        me \notin restore.reported,
                        ~(/\ me \in restore.skipped /\ restore.policy = "Skip"
                          /\ \E t \in DOMAIN site.things :
                               site.things[t].name = me[2] /\ site.things[t].from # me)
                 PROVE  me \in restore.restored /\ (Cardinality(Whole(me)) = 1 \/ ReplacedLater(me))
      BY DEF RestoredOrReported
    <2>1. c < restore.next
      BY RestoreAssumption DEF RestoreIInv, DoneIsAccounted, RestoreTypes
    <2>2. Accounted(me)
      BY <2>1 DEF RestoreIInv, DoneIsAccounted, InProgress
    <2>3. PICK t \in Things : me \in restore.restored /\ Thing(t).from = me /\ Thing(t).holds = "all"
      BY <2>2 DEF Accounted, Things, Thing
    <2>4. me # Original /\ me = TakenBy(c, me[2]) /\ me[2] \in Colls[c].items
      BY RestoreAssumption DEF AllItems, TakenBy, Original
    <2>5. CASE Thing(t).gone # "restore"
      <3>1. Whole(me) = {t}
        BY <2>3, <2>4, <2>5 DEF Whole, Things, Thing, RestoreIInv, PostedOnce
      <3> QED
        BY <2>3, <3>1, FS_Singleton
    <2>6. CASE Thing(t).gone = "restore"
      <3>1. PICK d \in DOMAIN Colls : Replacement(t, d)
        BY <2>6 DEF RestoreIInv, GoneIsReplaced
      <3>2. restore.policy = "Replace"
        BY <2>6 DEF RestoreIInv, GoneIsReplaced
      <3>3. Thing(t).name = me[2] /\ Giver(t) = c
        BY <2>3, <2>4 DEF RestoreIInv, PostedOnce, Giver, TakenBy
      <3>4. me[2] \in Colls[d].items /\ d > c /\ me[1] = c
        BY <2>3, <2>4, <3>1, <3>3, RestoreAssumption DEF Replacement, TakenBy
      <3> QED
        BY <2>3, <2>6, <3>2, <3>4 DEF ReplacedLater, Things, Thing
    <2> QED
      BY <2>5, <2>6
  <1> QED
    BY <1>1, RestoreInvariant, PTL

(* What a restore removes has its replacement, or will have it, or there is*)
(* an error: with Replace the original goes before the new file is there.  *)
THEOREM RemovesOnlyToReplace == RestoreSpec => []OriginalsUnlessReplaced
  <1>1. RestoreIInv => OriginalsUnlessReplaced
    <2> SUFFICES ASSUME RestoreIInv, NEW t \in Things, Thing(t).gone = "restore"
                 PROVE  /\ restore.policy = "Replace" /\ Thing(t).kind = "file"
                        /\ \E c \in DOMAIN Colls : \E me \in AllItems(c) :
                             /\ me[2] = Thing(t).name
                             /\ \/ me \in restore.reported
                                \/ \E w \in Whole(me) : Thing(w).up = Thing(t).up
                                \/ c = restore.coll /\ me[2] \in DOMAIN task
                                                    /\ task[me[2]].at # "done"
      BY DEF OriginalsUnlessReplaced, Things, Thing
    <2>1. PICK c \in DOMAIN Colls : Replacement(t, c)
      BY DEF RestoreIInv, GoneIsReplaced
    <2> DEFINE me == TakenBy(c, Thing(t).name)
    <2>2. me \in AllItems(c) /\ me[2] = Thing(t).name
      BY <2>1 DEF Replacement, AllItems, TakenBy
    <2>3. \/ me \in restore.reported
          \/ \E w \in Whole(me) : Thing(w).up = Thing(t).up
          \/ c = restore.coll /\ me[2] \in DOMAIN task /\ task[me[2]].at # "done"
      BY <2>1, <2>2 DEF Replacement
    <2> QED
      BY <2>2, <2>3 DEF RestoreIInv, GoneIsReplaced
  <1> QED
    BY <1>1, RestoreInvariant, PTL
=============================================================================
