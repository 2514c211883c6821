------------------------------ MODULE UrlCache ------------------------------
(***************************************************************************)
(* Downloads of the files of a drive whose own URLs have expired: from the *)
(* cache of URLs, which one of them refreshes page by page from a delta    *)
(* query, or else by getting the item again.                               *)
(*                                                                         *)
(*   internal/m365/collection/drive/url_cache.go,                          *)
(*   internal/m365/collection/drive/collection.go                          *)
(*                                                                         *)
(* Every refresh starts from the same prevDelta, and so did the backup     *)
(* whose files are downloaded: without a token, or with one that Graph has *)
(* rejected, it has enumerated all items; or else the items that changed   *)
(* since the token, which these are.                                       *)
(***************************************************************************)
EXTENDS Integers

CONSTANTS
  Downloads,
  DriveItems,
  refreshInterval,
  MaxTime,      \* bound: the clock
  MaxToggles    \* bound: deletions and restorations of items by the user

ASSUME CacheAssumption ==
  /\ "none" \notin Downloads \cup DriveItems
  /\ refreshInterval \in Nat /\ MaxTime \in Nat /\ MaxToggles \in Nat

VARIABLES
  prevDelta,   \* "", "valid", or "expired"
  exists,      \* the items that are in the drive
  idToProps,   \* [DriveItems -> [url, deleted]], url is the refresh it is of
  lastRefresh, \* uc.lastRefreshTime
  refreshing,  \* who holds refreshMu and cacheMu, see Free
  refreshCount,
  seen,        \* history: the last refresh that had to report each item
  download,    \* [Downloads -> [step, item, url, known, gone]]
  clock, toggles

cacheVars ==
  <<prevDelta, exists, idToProps, lastRefresh, refreshing, refreshCount, seen, download, clock,
    toggles>>

Absent == [url |-> 0, deleted |-> FALSE]  \* not in the map

(* todo are the items that the enumeration may still report, gone those    *)
(* that were not in the drive for all of it; it may start over.            *)
Free == [by |-> "none", todo |-> {}, gone |-> {}, reset |-> FALSE]

Waiting == [step |-> "wait", item |-> "none", url |-> 0, known |-> 0, gone |-> FALSE]

CacheInit ==
  /\ prevDelta \in {"", "valid", "expired"}
  /\ exists = DriveItems
  /\ idToProps = [i \in DriveItems |-> Absent]
  /\ lastRefresh = -refreshInterval - 1
  /\ refreshing = Free
  /\ refreshCount = 0
  /\ seen = [i \in DriveItems |-> 0]
  /\ download = [d \in Downloads |-> Waiting]
  /\ clock = 0 /\ toggles = 0

-----------------------------------------------------------------------------
(* The user and the clock.                                                 *)

(* A change during an enumeration is reported by it again, or only by the  *)
(* next.                                                                   *)
Toggle(i) ==
  /\ toggles < MaxToggles
  /\ toggles' = toggles + 1
  /\ exists' = IF i \in exists THEN exists \ {i} ELSE exists \cup {i}
  /\ download' = [d \in Downloads |->
                    [download[d] EXCEPT !.gone = @ \/ (download[d].item = i /\ i \in exists)]]
  /\ \E more \in SUBSET {i} :
       refreshing' = IF refreshing = Free THEN Free
                     ELSE [refreshing EXCEPT !.todo = @ \cup more, !.gone = @ \cup {i}]
  /\ UNCHANGED <<prevDelta, idToProps, lastRefresh, refreshCount, seen, clock>>

Tick ==
  /\ clock < MaxTime
  /\ clock' = clock + 1
  /\ UNCHANGED <<prevDelta, exists, idToProps, lastRefresh, refreshing, refreshCount, seen, download, toggles>>

-----------------------------------------------------------------------------
(* downloadContent: the request with the item's own URL is not authorized. *)
Expired(d, i) ==
  /\ download[d].step = "wait"
  /\ download' = [download EXCEPT ![d] = [Waiting EXCEPT !.step = "check",
                                                         !.item = i,
                                                         !.gone = i \notin exists]]
  /\ UNCHANGED <<prevDelta, exists, idToProps, lastRefresh, refreshing, refreshCount, seen, clock, toggles>>

(* Nothing more is asked of a download that has its content or an error.   *)
Ends(d, step) == download' = [download EXCEPT ![d] = [Waiting EXCEPT !.step = step]]

GoTo(d, step) == download' = [download EXCEPT ![d].step = step]

NeedsRefresh ==
  \/ \A i \in DriveItems : idToProps[i] = Absent
  \/ clock - lastRefresh > refreshInterval

(* getItemProperties; cacheMu is free.                                     *)
CheckCache(d) ==
  /\ download[d].step = "check"
  /\ refreshing = Free
  /\ GoTo(d, IF NeedsRefresh THEN "lock" ELSE "read")
  /\ UNCHANGED <<prevDelta, exists, idToProps, lastRefresh, refreshing, refreshCount, seen, clock, toggles>>

(* What an enumeration from the token can report: one of everything knows  *)
(* nothing of the items that are not there.                                *)
Reportable(token) == IF token = "" THEN exists ELSE DriveItems

(* refreshCache: somebody else may have done it.                           *)
LockCache(d) ==
  /\ download[d].step = "lock"
  /\ refreshing = Free
  /\ IF NeedsRefresh
     THEN /\ GoTo(d, "refresh")
          /\ refreshing' = [by |-> d, todo |-> Reportable(prevDelta),
                            gone |-> DriveItems \ exists, reset |-> FALSE]
          /\ refreshCount' = refreshCount + 1
     ELSE /\ GoTo(d, "read")
          /\ UNCHANGED <<refreshing, refreshCount>>
  /\ UNCHANGED <<prevDelta, exists, idToProps, lastRefresh, seen, clock, toggles>>

(* Mutant: what was there before a reset stays in the map.                 *)
Cleared_Kept == idToProps

Cleared == [i \in DriveItems |-> Absent]

(* Graph rejects the token, or what it has given to go on with: the pager  *)
(* starts over without one, and updateCache is told so with an empty page. *)
RefreshReset(d) ==
  /\ download[d].step = "refresh"
  /\ ~refreshing.reset
  /\ idToProps' = Cleared
  /\ refreshing' = [refreshing EXCEPT !.todo = Reportable(""), !.gone = DriveItems \ exists,
                                      !.reset = TRUE]
  /\ UNCHANGED <<prevDelta, exists, lastRefresh, refreshCount, seen, download, clock, toggles>>

Enumerates == prevDelta = "expired" => refreshing.reset

(* updateCache with a page on the items in S.                              *)
Updated(S) ==
  [i \in DriveItems |->
     IF i \in S THEN [url |-> refreshCount, deleted |-> i \notin exists] ELSE idToProps[i]]

RefreshPage(d, S) ==
  /\ download[d].step = "refresh"
  /\ Enumerates
  /\ S # {} /\ S \subseteq refreshing.todo
  /\ idToProps' = Updated(S)
  /\ refreshing' = [refreshing EXCEPT !.todo = @ \ S]
  /\ UNCHANGED <<prevDelta, exists, lastRefresh, refreshCount, seen, download, clock, toggles>>

(* What was in the drive all along has been reported.  Nothing is cleared  *)
(* unless there was a reset: what has gone may keep an older entry.        *)
RefreshDone(d) ==
  /\ download[d].step = "refresh"
  /\ Enumerates
  /\ refreshing.todo \subseteq refreshing.gone
  /\ lastRefresh' = clock
  /\ seen' = [i \in DriveItems |->
       IF refreshing.reset \/ i \notin refreshing.gone THEN refreshCount ELSE seen[i]]
  /\ refreshing' = Free
  /\ GoTo(d, "read")
  /\ UNCHANGED <<prevDelta, exists, idToProps, refreshCount, clock, toggles>>

(* Mutant: the locks are only released by a refresh that succeeds.         *)
Unlocked_NotOnError == refreshing

Unlocked == Free

(* What the pages before the error have brought stays in the map.          *)
RefreshFails(d) ==
  /\ download[d].step = "refresh"
  /\ refreshing' = Unlocked
  /\ GoTo(d, "again")
  /\ UNCHANGED <<prevDelta, exists, idToProps, lastRefresh, refreshCount, seen, clock, toggles>>

(* Mutant: an item that the cache says is deleted is not looked for again. *)
OnDeleted_NotFound == "not found"

(* An item that the cache says is deleted is a miss like any other.        *)
OnDeleted == "again"

(* readCache; cacheMu is free.                                             *)
ReadCache(d) ==
  /\ download[d].step = "read"
  /\ refreshing = Free
  /\ LET props == idToProps[download[d].item]
     IN  IF props = Absent THEN GoTo(d, "again")
         ELSE IF props.deleted THEN GoTo(d, OnDeleted)
         ELSE download' = [download EXCEPT ![d].step = "get",
                                           ![d].url = props.url,
                                           ![d].known = seen[download[d].item]]
  /\ UNCHANGED <<prevDelta, exists, idToProps, lastRefresh, refreshing, refreshCount, seen, clock, toggles>>

(* readItemContents: the URL may have expired, or the item be gone.        *)
GetByCachedURL(d, ok) ==
  /\ download[d].step = "get"
  /\ IF ok THEN download[d].item \in exists /\ Ends(d, "content") ELSE GoTo(d, "again")
  /\ UNCHANGED <<prevDelta, exists, idToProps, lastRefresh, refreshing, refreshCount, seen, clock, toggles>>

(* A new URL from the item itself, and the download from it.               *)
GetItem(d, ok) ==
  /\ download[d].step = "again"
  /\ IF ok /\ download[d].item \notin exists THEN GoTo(d, "not found")
     ELSE Ends(d, IF ok THEN "content" ELSE "error")
  /\ UNCHANGED <<prevDelta, exists, idToProps, lastRefresh, refreshing, refreshCount, seen, clock, toggles>>

(* A download asks the cache once.                                         *)
DownloadStep(d) ==
  \/ CheckCache(d)
  \/ LockCache(d)
  \/ RefreshReset(d)
  \/ \E S \in SUBSET DriveItems : RefreshPage(d, S)
  \/ RefreshDone(d)
  \/ RefreshFails(d)
  \/ ReadCache(d)
  \/ \E ok \in BOOLEAN : GetByCachedURL(d, ok) \/ GetItem(d, ok)

CacheNext ==
  \/ \E i \in DriveItems : Toggle(i)
  \/ Tick
  \/ \E d \in Downloads, i \in DriveItems : Expired(d, i)
  \/ \E d \in Downloads : DownloadStep(d)

CacheSpec == CacheInit /\ [][CacheNext]_cacheVars

-----------------------------------------------------------------------------
(* Properties.                                                             *)

CacheTypeOK ==
  /\ exists \subseteq DriveItems
  /\ refreshing.by \in Downloads \cup {"none"}
  /\ refreshing.todo \subseteq DriveItems /\ refreshing.gone \subseteq DriveItems
  /\ \A i \in DriveItems : idToProps[i].url \in 0..refreshCount /\ seen[i] \in 0..refreshCount
  /\ \A d \in Downloads : (refreshing.by = d) <=> (download[d].step = "refresh")

(* The cache serves no URL older than the last refresh that succeeded with *)
(* the item in the drive for all of it, or after a reset: refreshes that   *)
(* failed half-way, resets and refreshes by others leave no older one to be*)
(* taken for current.  An older URL can only be that of an item that was   *)
(* gone for a while, which a full enumeration has not reported.            *)
ServedURLsAreCurrent ==
  \A d \in Downloads : download[d].step = "get" => download[d].url >= download[d].known

(* A file is only reported as deleted in flight if it was gone at some     *)
(* time during its download: no stale entry of the cache is believed.      *)
NotFoundOnlyIfGone ==
  \A d \in Downloads : download[d].step = "not found" => download[d].gone

(* No download waits for ever for the cache, whatever refreshes fail.      *)
EveryDownloadEnds ==
  \A d \in Downloads :
    download[d].step = "check"
      ~> download[d].step \in {"content", "not found", "error"}
=============================================================================
