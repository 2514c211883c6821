------------------------------ MODULE MCParts ------------------------------
(***************************************************************************)
(* Parts of the system that share no state, side by side: a behaviour is   *)
(* one of the part that moves.                                             *)
(***************************************************************************)
EXTENDS RetryReader, NextPager, UrlCache, KopiaConn, ModelStore, DriveRestore

CONSTANTS a, b, long

VARIABLE moving

partsVars == <<moving, readerVars, pagerVars, cacheVars, connVars, storeVars, restoreVars>>

Added(i)   == [id |-> i, removed |-> FALSE]
Removed(i) == [id |-> i, removed |-> TRUE]

SomeDeltaPages == {<<{Added(a)}, {Removed(a), Added(b)}>>, <<{Removed(a)}>>}
SomePages      == {<<{Added(b)}, {Added(a), Added(b)}>>, <<{}>>}

(* To lock blobs and extend the locks; and to lock them no more, which     *)
(* leaves the extension as it is.                                          *)
SomeAsks ==
  {[locked |-> long, extend |-> "yes"], [locked |-> "no", extend |-> "keep"]}

(* A folder of a drive of the site, and one of a drive that is not there.  *)
SomeColls ==
  <<[drive |-> 1, driveName |-> a, dir |-> <<b>>, items |-> {a, b}],
    [drive |-> 9, driveName |-> b, dir |-> <<b>>, items |-> {a}]>>

NewThing(up, name, kind) ==
  [up |-> up, name |-> name, nth |-> 0, kind |-> kind, holds |-> "nothing", from |-> Original,
   gone |-> "no"]

(* The folder of the first is there and holds what has the names of its    *)
(* items; or there is only a file with the name of the folder, and the     *)
(* drive of the first is now called as that of the second was.             *)
SomeSites ==
  {[lists |-> {}, drives |-> <<a>>,
    things |-> <<NewThing(Root(1), b, "folder"), NewThing(1, a, "file"), NewThing(1, b, "folder")>>],
   [lists |-> {}, drives |-> <<b>>, things |-> <<NewThing(Root(1), b, "file")>>]}

Init ==
  /\ moving \in {"reader", "pager", "cache", "conn", "store", "restore"}
  /\ ReaderInit /\ PagerInit /\ CacheInit /\ ConnInit /\ StoreInit
  /\ RestoreInit
  (* of the others one initial state will do *)
  /\ moving # "reader" => ranged
  /\ moving # "pager" =>
       producer.token /\ limit = 0 /\ Len(withToken) = 1 /\ Len(fromStart) = 1
  /\ moving # "cache" => prevDelta = ""
  /\ moving # "restore" =>
       restore.policy = "Copy" /\ restore.failFast /\ Len(site.things) = 1

Reader == /\ moving = "reader" /\ ReaderNext
          /\ UNCHANGED <<moving, pagerVars, cacheVars, connVars, storeVars, restoreVars>>
Pager  == /\ moving = "pager" /\ PagerNext
          /\ UNCHANGED <<moving, readerVars, cacheVars, connVars, storeVars, restoreVars>>
Cache  == /\ moving = "cache" /\ CacheNext
          /\ UNCHANGED <<moving, readerVars, pagerVars, connVars, storeVars, restoreVars>>
Conn   == /\ moving = "conn" /\ ConnNext
          /\ UNCHANGED <<moving, readerVars, pagerVars, cacheVars, storeVars, restoreVars>>
Store  == /\ moving = "store" /\ StoreNext
          /\ UNCHANGED <<moving, readerVars, pagerVars, cacheVars, connVars, restoreVars>>
Restore == /\ moving = "restore" /\ RestoreNext
           /\ UNCHANGED <<moving, readerVars, pagerVars, cacheVars, connVars, storeVars>>

Next == Reader \/ Pager \/ Cache \/ Conn \/ Store \/ Restore

Fairness ==
  /\ WF_readerVars(moving = "reader" /\ ReaderStep /\ UNCHANGED moving)
  /\ WF_pagerVars(moving = "pager" /\ ProducerStep /\ UNCHANGED moving)
  /\ WF_pagerVars(moving = "pager" /\ ConsumerStep /\ UNCHANGED moving)
  /\ \A d \in Downloads :
       WF_cacheVars(moving = "cache" /\ DownloadStep(d) /\ UNCHANGED moving)

TypeOK == ReaderTypeOK /\ PagerTypeOK /\ CacheTypeOK /\ ConnTypeOK /\ StoreTypeOK /\ RestoreTypeOK

Spec == Init /\ [][Next]_partsVars /\ Fairness
=============================================================================
