---------------------------- MODULE ExchangeBackup ----------------------------
(***************************************************************************)
(* Incremental backups of a mailbox whose user goes on working: the folders*)
(* are listed and their paths resolved, each folder is enumerated from its *)
(* own delta token, and the items are fetched and merged with the base.    *)
(*                                                                         *)
(*   internal/m365/collection/exchange/backup.go, mail_container_cache.go, *)
(*   metadata.go, collection.go                                            *)
(*                                                                         *)
(* The mailbox is external.  A moved item is a new one; the answer to a    *)
(* delta token is the difference to what the folder held when it was given,*)
(* so that the token can be taken for that content.  All the items of a    *)
(* backup are fetched at once.                                             *)
(***************************************************************************)
EXTENDS ContainerResolver

CONSTANTS
  Messages,
  FirstMailboxes, \* records [home, title, place]
  MaxOps          \* bound: operations of the user

(* IDs are unique; the metadata of a folder is stored under a name that no *)
(* message has; and a mailbox is a tree of folders that holds messages.    *)
ASSUME ExchangeAssumption ==
  /\ MaxOps \in Nat
  /\ Messages \cap (Folders \cup {Nowhere, ".dirmeta"}) = {}
  /\ \A m \in FirstMailboxes :
       LET there == {f \in Folders : m.home[f] # Nowhere}
       IN  /\ m.home \in [Folders -> Dirs \cup {Nowhere}] /\ m.title \in [Folders -> Names]
           /\ m.place \in [Messages -> Folders \cup {Nowhere}]
           /\ Forest(m.home)
           /\ \A f \in there : m.home[f] \in there \cup {Root}
           /\ \A i \in Messages : m.place[i] \in there \cup {Nowhere}

VARIABLES
  home,    \* [Folders -> parent, Nowhere before it is made and once deleted]
  title,   \* [Folders -> display name]
  place,   \* [Messages -> folder, or Nowhere as above]
  version, \* [Messages -> content]
  base,    \* the last backup [paths, tokens, snap, details]
  job,     \* the backup that runs, see IdleJob
  refused, \* history: collections contradicted each other or the base
  used,    \* history: the IDs that were given away
  ops

mailVars == <<home, title, place, version, used, ops>>
vars == <<home, title, place, version, base, job, refused, used, ops>>

Merge == INSTANCE HierarchyMerge WITH StartsWith <- {}

Existing == {f \in Folders : home[f] # Nowhere}

Mailbox == [f \in Existing |-> [up |-> home[f], name |-> title[f]]]

Inside(f) == {f} \cup Below(home, f)

(* What a folder holds.                                                    *)
Content(f) == [i \in {j \in Messages : place[j] = f} |-> version[i]]

None == [i \in {} |-> 0]

(* got is what the enumerations have returned: [added, removed, reset, url,*)
(* token] for each folder; touched what the user has changed since the     *)
(* backup began, and missed what the listing has left out.                 *)
IdleJob == [running |-> FALSE, cache |-> FirstCache(None, {}), todo |-> {}, got |-> None,
            touched |-> {}, missed |-> {}]

NoBase == [paths |-> None, tokens |-> None, snap |-> {}, details |-> {}]

-----------------------------------------------------------------------------
(* The user.                                                               *)

Touch(S) ==
  /\ ops < MaxOps
  /\ ops' = ops + 1
  /\ job' = [job EXCEPT !.touched = IF job.running THEN @ \cup S ELSE @]
  /\ UNCHANGED <<base, refused>>

PutFolder(f, up, n) ==
  /\ f \in Folders \ used /\ up \in Existing \cup {Root}
  /\ home' = [home EXCEPT ![f] = up]
  /\ title' = [title EXCEPT ![f] = n]
  /\ used' = used \cup {f}
  /\ UNCHANGED <<place, version>>
  /\ Touch({f})

MoveFolder(f, up, n) ==
  /\ f \in Existing /\ up \in (Existing \cup {Root}) \ Inside(f)
  /\ <<up, n>> # <<home[f], title[f]>>
  /\ home' = [home EXCEPT ![f] = up]
  /\ title' = [title EXCEPT ![f] = n]
  /\ UNCHANGED <<place, version, used>>
  /\ Touch({f})

DeleteFolder(f) ==
  /\ f \in Existing
  /\ LET gone == Inside(f)
     IN  /\ home' = [g \in Folders |-> IF g \in gone THEN Nowhere ELSE home[g]]
         /\ place' = [i \in Messages |-> IF place[i] \in gone THEN Nowhere ELSE place[i]]
         /\ Touch(gone \cup {i \in Messages : place[i] \in gone})
  /\ UNCHANGED <<title, version, used>>

PutItem(i, f) ==
  /\ i \in Messages \ used /\ f \in Existing
  /\ place' = [place EXCEPT ![i] = f]
  /\ used' = used \cup {i}
  /\ UNCHANGED <<home, title, version>>
  /\ Touch({i})

EditItem(i) ==
  /\ place[i] # Nowhere
  /\ version' = [version EXCEPT ![i] = @ + 1]
  /\ UNCHANGED <<home, title, place, used>>
  /\ Touch({i})

RemoveItem(i) ==
  /\ place[i] # Nowhere
  /\ place' = [place EXCEPT ![i] = Nowhere]
  /\ UNCHANGED <<home, title, version, used>>
  /\ Touch({i})

User ==
  \/ \E f \in Folders, up \in Folders \cup {Root}, n \in Names :
       PutFolder(f, up, n) \/ MoveFolder(f, up, n)
  \/ \E f \in Folders : DeleteFolder(f) \/ \E i \in Messages : PutItem(i, f)
  \/ \E i \in Messages : EditItem(i) \/ RemoveItem(i)

-----------------------------------------------------------------------------
(* The backup.                                                             *)

(* The listing, which may not have the latest folders, nor all others.     *)
StartBackup(missed) ==
  /\ ~job.running
  /\ missed \subseteq Existing
  /\ job' = [IdleJob EXCEPT !.running = TRUE,
                            !.cache = FirstCache(Mailbox, Existing \ missed),
                            !.todo = Existing \ missed,
                            !.missed = missed]
  /\ UNCHANGED <<mailVars, base, refused>>

(* populatePaths, in any order; an error ends the backup.                  *)
ResolvePath(f) ==
  /\ f \in job.todo
  /\ LET r == IDToPath(Mailbox, job.cache, f, 0)
     IN  job' = IF r.err THEN IdleJob
                ELSE [job EXCEPT !.cache = r.cache, !.todo = @ \ {f}]
  /\ UNCHANGED <<mailVars, base, refused>>

(* Mutant: the root is taken for a folder.                                 *)
Containers_WithRoot == InCache(job.cache)

(* includeContainer: all the resolved folders but the root.                *)
Containers == InCache(job.cache) \ {Root}

Answer(added, removed, reset, url, token) ==
  [added |-> added, removed |-> removed, reset |-> reset, url |-> url, token |-> token]

(* The folder was deleted in flight: nothing of it is kept, and no token.  *)
NotFound == Answer({}, {}, TRUE, FALSE, None)

(* GetAddedAndRemovedItemIDs: relative to the token of the base, or all    *)
(* items if there is none or it has expired; without a URL if the folder   *)
(* has no delta queries.                                                   *)
EnumerationOf(f, expired, url) ==
  LET now == Content(f)
      old == base.tokens[f]
  IN  IF f \notin Existing THEN NotFound
      ELSE IF f \notin DOMAIN base.tokens \/ expired \/ ~url
      THEN Answer(DOMAIN now, {}, TRUE, url, IF url THEN now ELSE None)
      ELSE Answer({i \in DOMAIN now : i \in DOMAIN old => now[i] # old[i]},
                  DOMAIN old \ DOMAIN now, FALSE, TRUE, now)

Enumerate(f, expired, url) ==
  /\ job.running /\ job.todo = {}
  /\ f \in Containers \ DOMAIN job.got
  /\ job' = [job EXCEPT !.got = [g \in DOMAIN @ \cup {f} |->
       IF g = f THEN EnumerationOf(f, expired, url) ELSE @[g]]]
  /\ UNCHANGED <<mailVars, base, refused>>

PrevPath(f) == IF f \in DOMAIN base.paths THEN base.paths[f] ELSE Nowhere

(* Items that are not found any more when they are fetched are left out.   *)
Collection(f) ==
  [id |-> f, cur |-> job.cache[f].path, prev |-> PrevPath(f),
   files |-> {[name |-> i, content |-> version[i]] :
                i \in {j \in job.got[f].added : place[j] # Nowhere}},
   removed |-> job.got[f].removed,
   reset |-> job.got[f].reset,
   loc |-> job.cache[f].loc, prevLoc |-> Nowhere]

Tombstone(f) ==
  [id |-> f, cur |-> Nowhere, prev |-> base.paths[f], files |-> {}, removed |-> {},
   reset |-> FALSE, loc |-> Nowhere, prevLoc |-> Nowhere]

(* Mutants: deleted folders get no tombstones; all folders of the base do. *)
Tombstones_None == {}

Tombstones_All == {Tombstone(f) : f \in DOMAIN base.paths}

(* Folders of the base that were not found any more.                       *)
Tombstones == {Tombstone(f) : f \in DOMAIN base.paths \ Containers}

NextTokens ==
  [f \in {g \in Containers : job.got[g].url} |-> job.got[f].token]

(* populateCollections ends, the upload merges what it has made with the   *)
(* base, and the metadata are those of the folders that it has seen.       *)
Finish ==
  /\ job.running /\ job.todo = {}
  /\ DOMAIN job.got = Containers
  /\ LET colls  == {Collection(f) : f \in Containers} \cup Tombstones
         merged == Merge!Merged(colls, {}, base.snap)
     IN  IF Merge!Conflict(colls) \/ Merge!MergeFails(merged, base.details)
         THEN refused' = TRUE /\ UNCHANGED base
         ELSE /\ base' = [paths   |-> [f \in Containers |-> job.cache[f].path],
                          tokens  |-> NextTokens,
                          snap    |-> Merge!Snapshot(merged),
                          details |-> Merge!Details(colls, merged, base.details)]
              /\ UNCHANGED refused
  /\ job' = IdleJob
  /\ UNCHANGED mailVars

(* An error of the service, or a crash: nothing is stored.                 *)
Fail ==
  /\ job.running
  /\ job' = IdleJob
  /\ UNCHANGED <<mailVars, base, refused>>

Init ==
  /\ \E m \in FirstMailboxes :
       /\ home = m.home /\ title = m.title /\ place = m.place
       /\ used = {x \in DOMAIN m.home : m.home[x] # Nowhere}
                   \cup {i \in Messages : m.place[i] # Nowhere}
  /\ version = [i \in Messages |-> 1]
  /\ base = NoBase /\ job = IdleJob
  /\ refused = FALSE
  /\ ops = 0

Next ==
  \/ User
  \/ \E missed \in SUBSET Folders : StartBackup(missed)
  \/ \E f \in Folders :
       \/ ResolvePath(f)
       \/ \E expired, url \in BOOLEAN : Enumerate(f, expired, url)
  \/ Finish
  \/ Fail

Spec == Init /\ [][Next]_vars

-----------------------------------------------------------------------------
(* Properties.                                                             *)

(* Once they are populated the paths in the cache are those of a tree,     *)
(* whatever was recovered, moved or deleted while they were resolved.      *)
TypeOK ==
  /\ home \in [Folders -> Folders \cup {Root, Nowhere}]
  /\ place \in [Messages -> Folders \cup {Nowhere}]
  /\ version \in [Messages -> 1..MaxOps + 1]
  /\ job.todo \subseteq Folders /\ DOMAIN job.got \subseteq InCache(job.cache)
  /\ job.running /\ job.todo = {} =>
       \A f \in Containers :
         /\ job.cache[f].up \in InCache(job.cache)
         /\ job.cache[f].path = Append(job.cache[job.cache[f].up].path, f)
         /\ job.cache[f].loc = Append(job.cache[job.cache[f].up].loc, job.cache[f].name)
  /\ ops \in 0..MaxOps

PathOf(f) == Paths(home, [g \in Folders |-> g])[f]
LocationOf(f) == Paths(home, title)[f]

Entry(i) ==
  [dir |-> PathOf(place[i]), name |-> i, content |-> version[i], loc |-> LocationOf(place[i])]

(* What a full backup would store now.                                     *)
MailNow == {Entry(i) : i \in {j \in Messages : place[j] # Nowhere}}

CatchingUp ==
  INSTANCE CatchUp WITH
    source <- MailNow,
    mirror <- base.details,
    disturbed <- ~job.running \/ job.touched # {} \/ job.missed # {}

(* Whatever the user did before and during earlier backups, whichever of   *)
(* them failed, had folders missing from their listing, tokens that expired*)
(* or no token: a backup that is not disturbed holds the mailbox as it is, *)
(* and no other step changes what is stored.                               *)
ImplementsCatchUp == CatchingUp!Spec

(* An item that nobody touches during a backup, in folders that nobody     *)
(* touches and that are listed, is in it, in its last version, with its    *)
(* path and location, and one that was removed before is not: whatever     *)
(* happens in the rest of the mailbox.                                     *)
UntouchedItemsAreRight ==
  [][base' # base =>
       \A i \in Messages \ job.touched :
         /\ place[i] = Nowhere => ~\E e \in base'.details : e.name = i
         /\ place[i] \notin job.missed \cup {Nowhere} =>
              LET above == {f \in Existing : place[i] \in Inside(f)}
              IN  above \cap job.touched = {} => Entry(i) \in base'.details]_vars

(* Resolving by ID never makes two collections claim one path, nor makes   *)
(* the details of an item be lost.                                         *)
NeverRefused == ~refused
=============================================================================
