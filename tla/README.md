# Corso, modelled in TLA+

Corso backs up Microsoft 365 data (mail, drives, sites, groups) into a kopia
repository. This directory holds TLA+ models of the parts of it whose
correctness depends on the order of things: what a repository holds while
backups, deletions and maintenance run into each other, what an incremental
backup makes of a drive or a mailbox that changes while it is enumerated, how
requests share a rate limit, and what lost connections, expired tokens, failed
flushes and crashes do to downloads, enumerations, the repository's
configuration and a restore. Paths below are relative to `src/src/` of the repository.

* TLC checks the models on small instances: `tlc -config X.cfg M`.
* TLAPS proves theorems for every value of the constants: `tlapm M_proofs.tla`.
* `PROJECT.json` lists components, runs, mutants (a plausible bug for each
  property, which its run must detect), the source lines of each definition,
  findings, hazards and theorems.

## The system

| component | state | operations | talks to |
|---|---|---|---|
| backup operation, `internal/operations/backup.go`, `manifests.go` | the bases chosen, the results of the data producer | choose bases, read their metadata, collect, upload, merge details, persist models | base finder, producers, kopia wrapper, model store |
| base finder, `internal/kopia/base_finder.go`, `backup_bases.go` | none | newest merge and assist backup for each reason | manifests |
| maintenance, `internal/kopia/cleanup_backups.go` | what one collection has read | list snapshots, models, read each backup, delete one batch | manifests |
| deletion, `pkg/repository/backups.go` | none | look up, delete in one batch | manifests |
| kopia wrapper, `internal/kopia/wrapper.go`, `upload.go`, `merge_details.go` | the tree of one upload, references of items to merge | inflate collections and bases into one hierarchy, stream it | kopia, collections |
| kopia connection and model store, `conn.go`, `model_store.go` | open handle and its count; models as manifests | open, wrap, close; put, get, update, delete | kopia |
| drive enumeration, `internal/m365/collection/drive/collections_tree.go` | delta tokens, previous paths (metadata of the base) | enumerate until nothing changes, make collections and metadata | Graph, delta tree |
| delta tree, `.../drive/delta_tree.go` | nodes, tombstones, files, previous paths | set folder, tombstone, add and delete file, reset, post-process | drive enumeration |
| URL cache, `.../drive/url_cache.go` | URLs by item, time of refresh | refresh, look up | downloads |
| Exchange collections, `internal/m365/collection/exchange/backup.go`, `container_resolver.go` | cache of folders, delta token and path of each | list folders, resolve paths, enumerate each folder, tombstones, fetch | Graph, kopia wrapper |
| Groups, Site, Chats collections | container caches, delta tokens | enumerate containers, items added and removed | Graph |
| Graph middleware, `pkg/services/m365/api/graph/` | limiters, retries | queue, retry, throttle | every request |
| sliding window limiter, `internal/common/limiters/sliding_window.go` | a channel of tokens, two windows of counts | WaitN, Reset, slide, Shutdown | Exchange requests |
| pagers, `pkg/services/m365/api/pagers/` | a page in flight, what was gathered | produce, consume, cancel, start over | Graph, all enumerations |
| retrying reader, `internal/common/readers/retry_handler.go` | the inner reader, the offset | read, reconnect, close | downloads |
| fault bus, `pkg/fault/` | the failure, recoverable errors | fail, add | all |
| restore, `internal/m365/collection/drive/restore.go`, `.../service/sharepoint/restore.go` | drives and folders made, names taken | find or make the drive and the folders, delete, post, upload | Graph, a backup's snapshot |
| export, CLI, selectors, converters, paths, settings | no state across steps | one pass over items | |

How they interact. A backup operation asks the base finder which snapshots it
can start from, reads the delta tokens and previous paths they hold, lets the
producer enumerate what changed since, and hands the resulting collections
(new, moved, not moved, deleted) to the wrapper, which lays them over the
snapshot of the base and uploads the result. Details of unchanged items are
taken over from the base's details. Last, the details snapshot and the backup
model are written: a backup exists once its model does. Operations, deletions
and maintenance may belong to different processes; they share only the
manifests.

What is hard: several manifests make up one backup and are written hours
apart; maintenance reads them one call at a time; a drive changes while it is
enumerated, tokens expire, and most folders are never mentioned by a delta; a
slide returns tokens while a request takes them.

What makes each correct:

* repository: a listed backup can be restored; work in progress is not
  collected; the bases of the next backup survive; nothing leaks.
* drive: after each backup, the repository is what the drive is, and the next
  backup starts from the right paths.
* mailbox: a backup that is not disturbed is what the mailbox is, one that is
  disturbed is right about what nobody touched, and the next one catches up.
* limiter: no more than the capacity in a window, no token made, no deadlock,
  everyone served.
* reader: each byte once and in order. Pager: the answer is one enumeration,
  and a token stands for what was returned. URL cache: no URL is served
  that a refresh should have replaced, nothing stale is believed, nobody blocks.
  Kopia handle: open while held; the configuration whole once reported, and as
  asked. Model store: one version of each model, none lost.
* restore: every item restored whole, or skipped as asked, or reported; what is
  replaced is replaced.

## Modules

`A -> B`: A uses B.

    MCBackupRepo, BackupRepo_proofs -> BackupRepo -> BackupCatalog
    MCIncrementalDrive -> IncrementalDrive -> DriveTree, HierarchyMerge, Mirror
    IncrementalDrive_proofs -> IncrementalDrive, DriveTree_proofs -> DriveTree
    DriveTree, ContainerResolver -> Forests
    DriveTree_proofs, ExchangeBackup_proofs -> Forests_proofs -> Forests
    MCSlidingWindow, SlidingWindow_proofs -> SlidingWindow
    MCExchangeBackup, ExchangeBackup_proofs
        -> ExchangeBackup -> ContainerResolver, HierarchyMerge, CatchUp
    MCParts -> RetryReader, NextPager, UrlCache, KopiaConn, ModelStore, DriveRestore
    MCDriveRestore -> DriveRestore
    MCParts_proofs -> MCParts, DriveRestore_proofs -> DriveRestore

### BackupRepo and BackupCatalog

The state is what the processes share and what each remembers: `present`, the
manifests (data, details, model) of all backups; `stamp`, their order in time;
`horizon`, how many of them are older than the garbage collection buffer;
`pc`, `reasons`, `kind` and `base` of each backup operation; `doomed`, what a
deletion has looked up; `gc`, what each collection has read. Steps follow the
calls to the repository:

* `StartBackup` (`produceManifestsAndMetadata`, `FindBases`, the options that
  disable bases), `ReadMetadata`, `Upload` (`consumeBackupCollections`),
  `MergeDetails`, `WriteDetails` and `PutModel` (`createBackupModels`),
  `FailBackup` between any two of them: an error or a crash, after which what
  was written stays;
* `LookUpForDelete`, `CommitDelete`, `AbortDelete` (`deleteBackups`);
* `ListSnapshots`, `ListDetailsModels`, `ListBackupModels`, `ReadBackupModel`,
  `Sweep`, `AbortCleanup` (`cleanupOrphanedData`);
* `Age`: time passes.

`InTime`, a guard of the last two writes, is what the comment on the buffer
asks: an operation writes its last manifest before its first is old.

`BackupCatalog` is what the user is promised: a backup appears once and whole,
goes when asked, and of the others only assist backups are ever pruned.
`ImplementsCatalog` maps the repository to it: the catalog shows the backups
whose three parts exist.

`Spec` lets a collection start at any time. Then a cutoff may fall between the
manifests of one backup, and the collection breaks it (run `straddle`).
`CalmSpec` adds the discipline under which the code is right: a collection
starts only when its cutoff falls inside no backup. Positive results hold for
`CalmSpec`; the code does not impose it.

### SlidingWindow

One action per critical section of `mu`; requests (`Request`, `TakePermit`,
`Cancel`, `Grant`) take tokens one by one without it, and the slide (`Tick`,
`Reclaim`, `EndSlide`) returns them one by one with it, so that all
interleavings of the two are there. `Reset`, `Shutdown` and `StopTicker`
complete it. Two ghosts: `lost`, tokens that cancelled requests took along, and
`granted`, grants by age in intervals.

### DriveTree, HierarchyMerge, IncrementalDrive and Mirror

`DriveTree` has `folderyMcFolderFace` as a record and its methods as operators
on it; `HierarchyMerge` has the merge of collections with a base
(`inflateCollectionTree`, `traverseBaseDir`, `subtreeChanged`, the directory
iterator) and that of details (`GetNewPathRefs`, `mergeItemsFromBase`).
`IncrementalDrive` runs them: `StartBackup`, `Enumerate` (one delta
enumeration that finds something, or, with `reset`, the full one that follows
an expired token), `Finish` (an enumeration finds nothing; collections, merge
and new metadata follow) and `Fail`; and the user, who creates, renames, moves,
deletes, restores and edits before, between and during backups. An enumeration
is a page (`PageOf`) whose items come one after the other: the deleted first,
then each after the folder it is in (`FirstOf`), each with the operation that
`addFolderToTree` or `addFileToTree` chooses for it (`InTree`, `Added`). In the
tree and in the drive alike, a function gives each item the folder it is in;
in `Forests`, `Below` has what is in a folder, at any depth, and `Paths` the path of each
folder that is below the root.

`Finish` is one step because nothing in it reads the drive but the downloads.
A file that changes after the last enumeration may be stored in a later
version than its metadata says; the next delta reports it again. Content is
identified with the version that was enumerated.

`Mirror` is the abstract specification: a backup makes the repository equal to
the drive, nothing else changes it. `ImplementsMirror` maps `drive` to all
files, with versions, and folder metadata at their paths, and `mirror` to the
snapshot of the latest backup.

Assumed of the service, as comments and tests of the code do
(`delta_tree.go:193`, `collections.go`, the mocks of the drive tests): deletions
come first in an enumeration, then folders from the root down with the
ancestors of what changed, then files; a deleted folder is reported with all
that is in it; an item that moves or is renamed is reported itself, what is
below it is not.

Left out: several drives and drive tombstones, selections, packages, malware,
the limits of previews, the bound of 100 enumerations, a full backup forced
over an existing base. Names are model values. `StartsWith` says which names
are string prefixes of which, because one lookup compares strings. The string
prefix in `subtreeChanged` is a path prefix in the model: by string more
directories are walked instead of reused whole, with the same result. The
`.dirmeta` files of folders have the same name in each folder, which changes
nothing as they are never excluded or moved on their own.

### ExchangeBackup, ContainerResolver and CatchUp

`ContainerResolver` is the cache of mail folders as a function and its methods
as operators: `FirstCache` (Populate), `IDToPath` (`idToPath` with
`recoverContainer` and `refreshContainer`: a folder whose parent the listing
did not have is looked at again). `ExchangeBackup` has the mailbox and its
user, and one backup after the other: `StartBackup` (the listing, which may
miss folders), `ResolvePath` (`populatePaths`, one folder at a time, in any
order, while the user works), `Enumerate` (`GetAddedAndRemovedItemIDs` for one
folder from its token, or from the start if there is none or it has expired),
`Finish` (collections, tombstones, the merge of `HierarchyMerge`, new
metadata) and `Fail`.

`CatchUp` is the abstract specification: a backup that nothing disturbed makes
the repository equal to the source, and only backups change it.
`ImplementsCatchUp` maps the source to the items with versions, paths and
locations, the mirror to the details of the latest backup, and takes a backup
to be disturbed when the user did something since it began or its listing
missed a folder. `UntouchedItemsAreRight` says what holds of disturbed ones.

External: the mailbox. A delta token is taken for the content of the folder
when it was given; a moved item gets a new ID. Left out: scopes, previews and
the ranked resolver, contacts and calendars, items that cannot be served. The
items of a backup are fetched in one step, at the end; a step of
`populatePaths` is one call of `idToPath`, with all its requests.

### RetryReader, NextPager, UrlCache, KopiaConn, ModelStore and DriveRestore

These share no state. `MCParts` puts them side by side, one of them moving in
each behaviour, so that one run checks them all.

* `RetryReader`: `Call` (`Read`), `ReadInner`, `GetFails`, `GetSucceeds`
  (`reconnect`, with its back-off left out), `Return`, `Close`. `reading` has
  the budget that reads and reconnections share. Content is a sequence of
  positions.
* `NextPager`: the goroutine that fetches (`GetPage`, `InvalidDelta`,
  `DeltaNotSupported`, `GetPageError`, `StopWriting`) and the one that gathers
  (`Take`, `SinceReset`, `Stop`, `NoMorePages`), with a channel of one page
  between them. `Reset` is that of the pager; an invalid delta also drops the
  token, which queries that are not supported leave as it is. The pages of the
  service are constants.
* `UrlCache`: downloads that check the cache, queue for its two locks, refresh
  it (`LockCache`, `RefreshReset`, `RefreshPage`, `RefreshDone`, `RefreshFails`),
  read it, use what they read or fall back to the item itself; files come, go and
  come back meanwhile, and URLs get old (`Tick`). Every refresh starts from
  `prevDelta`: without a token, as a first backup gives it, the enumeration
  knows nothing of what is not there (`Reportable`), and the map is not cleared,
  so that a file that has gone keeps an older URL; with one it reports changes; an
  expired one is rejected, then the map is cleared with an empty page, and all
  is enumerated. `seen` is a ghost: the last refresh that had to report an item.
* `KopiaConn`: processes that initialize or open one repository, hold and
  release the handle, change the epochs (`ChangeEpoch`: the operation on the
  persistent configuration) and the retention; a step is a write to the
  repository, and each may fail or be the last one (`StepFails`, `CrashProc`).
  Locking of blobs (`locked`: "no", or a duration) and extension by maintenance
  (`extend`) are asked for, kept and changed each on its own, as
  `repository.Retention` allows, so that they may differ; that is what the
  alerts of `verifyRetentionConfig` are about, which change nothing and are left
  out. The two modes of locking are not told apart. `cached` is what a handle
  reads: its own changes of locking and extension, but of the epochs what it had
  when it last loaded the configuration, which may happen at any read
  (`Loaded`). Ghosts: `asked`, what the last change asked for, and those cut short
  since; `stale`, one client configured on top of what another had changed since it had
  looked; `undone`, the locking was written with epochs that the same handle had
  changed.
* `ModelStore`: clients that put, get, update and delete models. A lookup and
  the write that follows are two steps, so that calls overlap; a flush may fail
  before or after it is stored (`Outcomes`). `raced` is a ghost: an update wrote
  on top of what was stored after its check.
* `DriveRestore`: `BeginCollection` (`ensureDriveExists`,
  `createRestoreFolders` until its first request), `MakeFolder` (one folder of
  the path, found or made), `ListCollisions` (the names that are taken), the
  errors of these (`BeginFails`, `PopulateFails`), the goroutines of its items
  (`StartItem`, `DeleteOriginal`, `PostItem`, `Upload`), `EndCollection`; and
  `Cancel`, after which `LeaveCollection` waits for nobody. Others change the
  folder in between. `restored` are the items that `updateDeets` adds to the
  details; an `Add` that fails is only logged, and is left out with what the
  details contain. Left out too: backups of versions before 6, permissions, the
  bound on parallel uploads, drives whose name the backup lacks.

## Runs

| run | instance | what it shows |
|---|---|---|
| `calm` | 2 new backups, 2 reasons, 1 collection, `CalmSpec` | types; listed backups are whole; work in progress is kept; the merge base, and without previews and overlaps the assist base, of the next backup survives a collection |
| `live` | 1 backup of an old version, in any state, 1 new, 1 reason, 2 collections, fair | the inductive invariant `Inv`; the repository implements the catalog; orphans are collected |
| `straddle` | 2 backups, 1 reason, 1 collection, `Spec` | a violation: see Findings |
| `preview` | 2 backups, 2 reasons, 1 collection, `CalmSpec` | a violation: see Findings |
| `window` | capacity 3, 3 intervals, requests for 1, 2 and 4 | conservation, the bound per window, no blocked slide, service unless tokens are lost, resets end |
| `cancel` | capacity 2, 2 intervals | a violation: see Findings |
| `drive` | 3 folders, 1 file, 2 names, 3 operations, 1 reset, 1 failure; 2 drives to start from (two folders in each other, three in each other; siblings arise from moves and creations) | each backup mirrors the drive; previous paths are right; no backup is refused; locations are right unless a folder was replaced |
| `sibling` | the siblings `a` and `ab`, 2 operations | a violation: see Findings |
| `replaced` | 4 folders, 3 operations | a violation: see Findings |
| `exchange` | 2 folders, 2 items, 2 names, 3 operations; both folders from the start, or one | backups catch up with the mailbox; untouched items are right; the cache is a tree once populated; no backup is refused |
| `parts` | content of 3, buffers of 2, 3 calls; 2 enumerations of a token and 2 from the start, limits 0 to 2, 2 expired tokens; 2 downloads, 2 items, 2 changes, 3 kinds of token; 2 processes, 1 duration, 2 asks, 2 starts, 1 change of the configuration, 1 fault; 2 clients, 1 model, 4 manifests; 2 folders, 2 files, 3 policies, 1 retry, 1 change by others | what the parts promise, see the comments on the properties; the type of all six |
| `taken` | a library of two folders that is gone, a list of its name | a violation: see Findings |

Why the bounds are enough. Repository: a collection, or a choice of base,
compares backups in pairs for a reason; two backups give every relative order
of their manifests, and two reasons let each be newest for one. Two
collections interfere only through models they both read. Nothing bounds the
clock but the number of manifests. Limiter: three intervals have a first, a
middle and a last; the demands divide the capacity, exceed it, and leave a
rest. Drive: a wrong result needs a folder, one in it that is not mentioned,
and another that takes its place or leaves; three folders with two names give
all of these, and three operations combine a move of the outer folder, of the
inner, and a replacement or deletion, before the first enumeration, between
enumerations or between backups. With two names a swap of names needs an
intermediate place in another folder, which is available. Mailbox: a folder in
another, both of which can move, be renamed, go and be missed by a listing; the
third operation is after the second backup began. Parts: a reader needs a
second read after a reconnection at the start, in the middle and at the end; a
pager a page before and one after an expiry, and a full answer with pages left;
the cache one download that refreshes and one that waits, and a file that goes
between two refreshes; the repository two
processes that write on top of each other, or one Initialize that is cut short
and repeated with another ask; the asks make a change write both parts, only the
locking, or only the extension, where the creation has locked blobs (the proof
is for all asks and durations);
a restore a name that is taken by a file and one taken by a folder.

## Fairness

`BackupRepo!FairSpec`: time passes, and maintenance, which users schedule, is
run again and again, without errors, and each of its calls returns (weak
fairness on `Age`, `CalmListSnapshots` and `Collection`). Nothing is assumed of
backups and deletions. `SlidingWindow!FairSpec`: goroutines that can run do,
the ticker fires, and `sync.Mutex`, which hands over to waiters that starve,
justifies strong fairness for `Grant` and `Reset`, which compete with slides
for `mu`. Cancellation, Shutdown and new requests are not fair.
`MCParts!Fairness`: a goroutine that can go on does (weak fairness on
`ReaderStep`, `ProducerStep`, `ConsumerStep` and `DownloadStep`), which the Go
scheduler justifies, and a waiter gets a mutex that is free. New calls,
requests that succeed, cancellation and failures are not fair: retries end
because they are bounded.
`IncrementalDrive` and `ExchangeBackup` have no liveness property:
enumerations may go on for ever if the user never stops, and the code gives up
after 100.

## Proved

All for every value of the constants, from the assumptions on them that each
module names. `LegacyAssumption`: at most one backup of an old version.
`IDAssumption`: IDs are finitely many and unique, nil is neither an ID nor a
path, and no file has the name under which the metadata of a folder is stored.
`DriveAssumption`: a drive starts as a forest in which folders next to each
other have different names (`IsDrive`). `SiteAssumption`: so does a site.
`ResolverAssumption`: nil is neither an ID of a mail folder nor a path nor an
entry of the cache; mailboxes of any depth are covered, a path longer than
`maxIterations` allows for being an error.
`ExchangeAssumption`: a mailbox starts as a forest, its items in folders that
are there.
The others (`LimiterAssumption`, `ReaderAssumption` and so on) are types of the
constants, and bounds that are natural numbers.

* `BackupRepo_proofs`: `TypeCorrect` for `Spec`; `ListedBackupsAreWhole`,
  `WorkInProgressIsKept`, `MergeBasesSurvive`, `AssistBasesSurvive` and
  `RepoImplementsCatalog` for `CalmSpec`. The inductive invariant is `Inv`
  (`CalmInv`). `NoDanglingModel` alone is not inductive: a
  sweep could remove a part of a backup it knows only in part. `StagesOK` says
  in which order operations write; `ReadingOK`, that what a collection has read
  is old and was written at the time; `KnowsAllOrNothing`, that a whole backup
  of which a collection knows one part is wholly known to it, which is where
  the calm start enters, and which every later step of backups, deletions and
  other collections preserves. A sweep then takes all of a backup or nothing
  (`SweepTakesWholes`), and refinement follows step by step. So does the
  survival of bases: a merge base is no assist backup; an assist base is
  superseded only by a candidate for its reason, which was created later and,
  as the two do not overlap, has the newer snapshot.
* `SlidingWindow_proofs`: `LimiterTypeCorrect`, `NoTokenIsMade`,
  `WindowIsBounded` and `SlideHasRoom` for `Spec`. The inductive invariant is
  `IInv`: the log of grants by age is what the two windows hold (`LogOK`), slots
  ahead are empty (`AheadOK`), and all tokens are accounted for
  (`TokensConserved`). Sums are stated by witnesses (running totals), as a sum
  over intervals is a recursion that the provers cannot unfold; four lemmas say
  how a sum changes with a grant, a slide and a reset.
* `Forests_proofs`, for drives and mailboxes. For any function from
  items to the folders they are in, `Below` and `Paths` exist and are what their
  recursion says (`BelowIs`, `PathsAre`), a move of a folder into one that is not
  in it leaves a forest (`ForestMove`), unique names give unique paths
  (`PathsDiffer`), and two drives that agree from the root down have the same
  paths (`PathsAgree`).
* `DriveTree_proofs`: what the operations of the tree do. Each changes what it
  knows of one
  item and leaves it one tree (`OnlyChanges`, `TreeIsOne`).
  `NewPreviousPathsAre`: from collections that say of each folder that was
  enumerated where it was and is, and of each folder that is gone where it was
  (`CollectionsTell`), `generateNewPreviousPaths` computes the path of every
  folder there is. The induction is over the depth of a folder, as a least
  counterexample: the one whose parent is none.
* `IncrementalDrive_proofs`: `DriveTypeCorrect`, `TreeFollowsDrive`,
  `PrevPathsFollow`, `NothingIsRefused`, `DriveImplementsMirror`,
  `LocationsFollow`. That previous paths are right after a backup is not
  inductive, because the backup reads a tree that was filled while the drive
  changed, and a base that is older still. The invariant is `DriveIInv`:
  the drive is a forest with unique names, also of what is in the bin below a
  deleted folder and may come back with it (`DriveIsGood`); the job has one tree
  (`JobIsGood`); a folder that was not reported since the base is where the base
  has it, under its parent's path (`BaseFollows`); and what is not to be
  reported to the job any more is in the tree as it is, with the folder that it
  is in there or about to be reported, or is not in the tree and either has not
  changed since the base or, after a reset, is gone (`TreeFollows`). Each
  operation of the user reports all that it changes (`UserReports`); a page
  brings all it has, by induction over its items (`PageComes`); at the end
  nothing is left to report, and the tree, the base and the drive agree
  (`TreeAtTheEnd`), so that the collections tell where everything is
  (`CollectionsTellPlaces`).
  What the merge makes of them needs `SnapIInv` too: the base has the metadata
  of its folders at their paths, files in its folders and nothing else, a file
  that has not changed since as it is in the drive (`SnapFollows`), and the
  details of all its items (`DetailsFollow`). The argument follows the bytes.
  `updatedPaths` and the climb from a directory of the base give the path of a
  folder that is still there, because nothing between it and its nearest
  ancestor with a collection has moved in that one (`CurrentPathsAre`,
  `SubtreeMoves`). So a source streams a folder of the base, or all below it, to
  where these folders are (`SourceIs`); sources cover every folder that is kept
  (`SourceCovers`) and do not overlap (`SourcesApart`). What comes from the base
  is then what did not change and is still there (`BaseEntryIs`, `BaseHas`),
  what comes from a collection is what it enumerated (`StreamIs`, `StreamHas`),
  together the drive (`SnapshotIsDrive`), no entry twice (`NoConflict`), and
  each with the details of its old path (`DetailsAreFound`).
  `LocationsFollow` has a hypothesis, `NoNameStartsAnother`, which the run
  `sibling` shows to be needed: the strings of two locations then compare as
  their paths do (`StringPrefixIsPrefix`). An item whose folder has no collection
  is where it was in the nearest folder above that has one, and nothing in
  between has one (`NearestCollection`). If that folder moved, it is the longest
  moved location that is found; if it did not, one that is found is above it,
  and the backup is not `straight` (`NewLocationIs`).
* `ExchangeBackup_proofs`: `IDToPathIsGood`, `MailboxTypeCorrect`,
  `ExchangeNeverRefused`, `UntouchedItems`, `ExchangeCatchesUp`.
  The first is about `idToPath` alone, for any cache and any mailbox beside it.
  That its recursion has a solution is an induction over the calls, as a least
  counterexample: a call goes on one deeper, or with a folder more in
  the cache that is as the mailbox has it (`Measure`, `SolutionExists`). What a
  call promises (`Good`) is what its caller needs of it: paths that are there
  stay, the cache remains a tree, and only what is on the way is changed
  (`Follows`); a folder in a cycle is an error; and one whose parents are all as
  the mailbox has them is not taken to be deleted (`Knows`).
  The invariant of the backups is `IInv`. `MailIsGood`: the mailbox is a forest,
  and what is there has had its ID given away. `JobIsGood`: the cache is a tree,
  folders without a path are still to be resolved, none is left when folders are
  enumerated, and what was listed and has not been touched, with all above it,
  is in the cache as it is in the mailbox. `AnswerIsGood`: what
  an enumeration returned, with what the base has for its token, is what the
  folder has of all items that were not touched since. `BaseIsGood`: of a
  folder with a token the base has what the token stands for, if it is still
  there unchanged, and nothing that the token does not know of; each path continues
  that of another folder, or of the root; and an item has not left its folder
  but by its deletion. Without this part the backup after one that was disturbed
  could lose an item, keep one that is gone, or store one twice.
  As IDs are paths in the repository, the merge does not depend on names: the
  collections have different paths (`CollsAre`), a directory of the base goes
  where its folder went (`CurrentPathsAre`, `SourcesAre`), an entry of the
  result is one of the base or one that was enumerated (`EntryIs`), no two have
  one place (`EntriesDiffer`), and each of the base has its details
  (`DetailsAreFound`). So nothing is refused. Folders and items that nobody
  touched have their last path and version (`CleanPaths`, `UntouchedIsRight`);
  if that is all of them, the result is the mailbox (`UndisturbedIsMailNow`),
  the step of `CatchUp`. That a listing may miss a folder which
  `recoverContainer` then finds needs no care: such a backup is a disturbed one
  to `CatchUp`, and `UntouchedItems` speaks of folders that were listed.
* `MCParts_proofs`, the readers. `ReadsContentInOrder`, `ReaderTypeCorrect`: a
  connection that works is where the caller is; `ContentInOrder` alone does not say where
  the next bytes come from. `TokenWithAllPages`, `AnswerOfOneEnumeration`,
  `PagerTypeCorrect`, for all sequences of pages: the producer has taken the
  pages up to the one it writes (`Progress`), ends without an error only with
  the last if there is no limit (`EndsWithLast`), and the consumer has the pages
  taken so far, but for a reset that it has not been told of (`Gathered`).
  `ServesCurrentURLs`, `ReportsGoneOnlyIfGone`, `CacheTypeCorrect`: one download
  at most refreshes; each entry is of the last refresh that had to report its
  item or newer, also those that a failed one leaves; and during a refresh the
  entries of what has been reported and was not gone, and after a reset all
  entries, are of this refresh (`EntriesAreCurrent`).
* The stores. `HandleIsOpenWhileHeld`, `InitializesWholly`,
  `RetentionAsAsked`, `ConnTypeCorrect`: the count is the number of holders
  but after an open that failed (`Counted`), a setup holds a reference from the
  open to its end (`Holds`), what each of its steps has seen to is there
  (`WholeConfig`), and what a handle reads of locking and extension is what it
  last loaded or made (`Knows`): then a write leaves alone what it was not asked to
  change, or another client has interfered, and the write is `stale`.
  `InitializesWholly` has two exceptions, `stale` and `undone` (see "What the
  code does not promise").
  `OneManifest`, `NotLost`, `BuildsOnLatest`, `StoreTypeCorrect`: a
  call that has looked a model up holds an ID of that model, perhaps outdated
  (`Identified`).
* `DriveRestore_proofs`: `RestoreTypeCorrect`, `RestoresOrReports`,
  `RemovesOnlyToReplace`, for any folders, sites, policies and numbers of
  retries. That every item is restored or reported at the end needs to say who
  has an item before: the tasks of the current folder are where their posts and
  uploads are (`TasksFollow`), what is posted is posted once (`PostedOnce`), the
  listing has the things that were there (`Listed`), and what earlier folders
  did remains accounted for (`DoneIsAccounted`), also when a later folder
  replaces a file that this restore has made. What is gone has its replacement,
  or will have it, or there is an error (`GoneIsReplaced`).
* `MCParts_proofs`, the composition: side by side the six parts keep what each
  keeps alone (`PartsTypeCorrect`, `PartsAreSafe`): the composition implements each
  specification, because a step of one leaves the variables of the others alone.

Each invariant and each action property that a passing run checks is stated by
a theorem. Only model-checked are the liveness properties, which the
provers do not treat under fairness: `OrphansCollected`, `ServedUnlessLost`,
`ResetEnds`, `EveryCallReturns`, `CallAndGoroutineEnd`, `EveryDownloadEnds`. The
runs that expect a violation show that hypotheses of theorems are needed
(`CalmSpec`, no previews, `NoNameStartsAnother`, `base.straight`).

## Findings

* A collection whose cutoff falls between the manifests of a backup removes the
  data of a complete backup (`straddle`).
* A younger preview backup, never a base, makes a collection remove the assist
  base that the next backup would use (`preview`).
* A cancelled `WaitN` keeps the tokens it took; a later request for the whole
  capacity then waits for ever (`cancel`).
* The location of an item below a moved folder is looked up by string prefix: a
  moved sibling whose name is a prefix of its folder's name hides the moved
  parent, and the item keeps a location that is gone (`sibling`).
* A folder that moves back under its old path, into one that took the name of
  its renamed parent, is "not moved", and what is below it is shown under the
  renamed parent (`replaced`). `LocationsMatchUnlessReplaced` excludes exactly
  the histories with such a step, recorded in `base.straight`.
* The drive that a restore makes for a library that is gone is not found again
  when it could not be given the old name: the next folder of the library makes
  another one (`taken`).

## What the code does not promise

Properties that the code does not have, and what is stated instead:

* `setRetentionParameters` writes the mutable parameters back whole as its handle
  has them cached (`conn.go:578`, `592`), and such reads are not new on the handle
  that has just changed them (`conn_test.go:374-375`, `735-736`). `Initialize` calls
  it right after it has set the epochs, with the same handle. When the repository is
  there already, left by an `Initialize` that was cut short, and another locking
  is asked for, this puts the old epochs back, and `Initialize` reports success.
  `InitializedIsWhole` excludes this (`undone`), for which one client alone is
  enough, and clients that write on top of each other (`stale`). The policy has
  no exception.
* Locking and extension need not agree: `RetentionIsAsAsked` relates each to what
  was asked of it.
* A URL that is served may be older than the last refresh when its file is gone
  and that refresh had no token: `ServedURLsAreCurrent` relates it to the last
  refresh that had to report its file.

## Plan

Done: the repository and its catalog; the limiter; the incremental drive; the
mailbox; reader, pager, URL cache, Kopia handle, model store and restore; the
proofs of their safety. Next,
in this order:

1. `FaultBus` and `Middleware`: the failure that is set once, errors of local
   buses, retries of requests with bodies.
2. Several drives in `IncrementalDrive`: drive tombstones, and metadata that are
   dropped because they are not whole (`deserializeAndValidateMetadata`).
3. The limits of previews, in the tree and in Exchange.

## Not modelled

* Export, the CLI, selectors and filters, paths, converters, settings, logging,
  the Graph clients and generated code: no state whose order matters, or pure
  I/O. They and the data tables of the converters make up most of the lines of
  the repository, which is why the mapped lines are a small share of it.
* The list-based drive process (`collections.go`, behind the toggle
  `UseOldDeltaProcess`), which the tree replaces.
* Groups, site and chats: containers without nesting, each enumerated like a
  mail folder.
* Of the repository: base migration between versions, group fallback reasons.
  Of the Kopia handle: changes of the password and of compression, the limits of
  durations and epochs, the alerts about a configuration.
* Of a mailbox: scopes, previews and the ranked resolver, contacts, calendars.
* Of a restore: permissions, Exchange, lists and pages, old versions. What holds
  of a cancelled restore: `RestoreCollection` then returns without an error and
  without waiting for uploads, so that `RestoredOrReported` leaves it out.
* The content of a drive's file that changes between its last enumeration and
  its download; backups paused for longer than the garbage collection buffer,
  which the code excludes too.
* Graph middleware and fault bus: planned. Where a module needs the bus
  (`DriveRestore`), it has its two rules: an error is recorded, and with
  fail-fast the first one ends the operation.
