--------------------------- MODULE ContainerResolver ---------------------------
(***************************************************************************)
(* The paths of the folders of a mailbox, from a listing of them and, for  *)
(* what the listing does not have, from the service: containerResolver.    *)
(*                                                                         *)
(*   internal/m365/collection/exchange/container_resolver.go               *)
(*                                                                         *)
(* A mailbox is a function from the IDs of its folders to [up, name]; the  *)
(* cache one to [up, name, path, loc], where path and loc are Nowhere until*)
(* they are set, or to Nowhere for what it does not have.  Paths are       *)
(* sequences of IDs, locations of names.                                   *)
(***************************************************************************)
EXTENDS Integers, Forests

CONSTANTS
  Folders,       \* their IDs, without that of the root
  Names,
  maxIterations

Dirs == Folders \cup {Root}

(* Path and location are set together.                                     *)
Entries ==
  {c \in [up : Dirs, name : Names,
          path : Seq(Folders) \cup {Nowhere}, loc : Seq(Names) \cup {Nowhere}] :
     c.path = Nowhere <=> c.loc = Nowhere}

(* The root stores nothing and has empty paths.                            *)
RootEntry == [up |-> Nowhere, name |-> Root, path |-> <<>>, loc |-> <<>>]

(* IDs are unique; nil is neither an ID nor a path nor an entry.           *)
ASSUME ResolverAssumption ==
  /\ Root \notin Folders
  /\ Nowhere \notin Dirs \cup Entries \cup {RootEntry}
  /\ Nowhere \notin Seq(Folders) /\ Nowhere \notin Seq(Names)
  /\ maxIterations \in Nat

Caches ==
  {cache \in [Dirs -> Entries \cup {RootEntry, Nowhere}] :
     /\ cache[Root] = RootEntry
     /\ \A f \in Folders : cache[f] \in Entries \cup {Nowhere}}

InCache(cache) == {g \in Dirs : cache[g] # Nowhere}

Unresolved(c) == [up |-> c.up, name |-> c.name, path |-> Nowhere, loc |-> Nowhere]

(* addFolder, for one that is not in the cache.                            *)
AddFolder(cache, f, c) == [cache EXCEPT ![f] = Unresolved(c)]

RemoveFolder(cache, f) == [cache EXCEPT ![f] = Nowhere]

(* Init and Populate, before the paths: listed are the folders that the    *)
(* enumeration returned.                                                   *)
FirstCache(mailbox, listed) ==
  [g \in Dirs |-> IF g = Root THEN RootEntry
                  ELSE IF g \in listed THEN Unresolved(mailbox[g])
                  ELSE Nowhere]

(* The cache after idToPath and its result: whether the folder was found in*)
(* the cache, was deleted, or the path is a cycle.                         *)
Resolved(cache, cached, deleted) ==
  [cache |-> cache, cached |-> cached, deleted |-> deleted, err |-> FALSE]

Cycle(cache) == [cache |-> cache, cached |-> FALSE, deleted |-> FALSE, err |-> TRUE]

(* The folder has moved, or was renamed, since it was listed.              *)
Changed(mailbox, f, c) == mailbox[f] # [up |-> c.up, name |-> c.name]

(* Mutant: a folder that was not listed is taken to be deleted.            *)
StillThere_IfListed(mailbox, cache, f) == f \in DOMAIN mailbox \cap InCache(cache)

(* refreshContainer.                                                       *)
StillThere(mailbox, cache, f) == f \in DOMAIN mailbox

Calls == [cache : Caches, folder : Dirs, depth : 0..maxIterations]

(* One call of idToPath, or of recoverContainer: a folder whose parent was *)
(* not listed is looked at again, and is deleted with it only if it is     *)
(* still there.                                                            *)
OneCall(mailbox, idToPath, call) ==
  LET cache == call.cache
      f     == call.folder
      c     == cache[f]
      there == StillThere(mailbox, cache, f)
      again(left) == idToPath[[call EXCEPT !.cache = AddFolder(left, f, mailbox[f])]]
      parent  == idToPath[[cache |-> cache, folder |-> c.up, depth |-> call.depth + 1]]
      without == RemoveFolder(parent.cache, f)
  IN  IF call.depth >= maxIterations THEN Cycle(cache)
      ELSE IF c = Nowhere
      THEN IF there THEN [again(cache) EXCEPT !.cached = FALSE] ELSE Resolved(cache, FALSE, TRUE)
      ELSE IF c.path # Nowhere THEN Resolved(cache, TRUE, FALSE)
      ELSE IF parent.err THEN parent
      ELSE IF ~parent.cached /\ there /\ Changed(mailbox, f, c) THEN again(without)
      ELSE IF parent.deleted \/ (~parent.cached /\ ~there) THEN Resolved(without, TRUE, TRUE)
      ELSE Resolved([parent.cache EXCEPT
                       ![f].path = Append(parent.cache[c.up].path, f),
                       ![f].loc  = Append(parent.cache[c.up].loc, c.name)],
                    TRUE, FALSE)

IDToPath(mailbox, cache, f, depth) ==
  LET idToPath[call \in Calls] == OneCall(mailbox, idToPath, call)
  IN  idToPath[[cache |-> cache, folder |-> f, depth |-> depth]]
=============================================================================
