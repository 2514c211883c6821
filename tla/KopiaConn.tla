------------------------------ MODULE KopiaConn ------------------------------
(***************************************************************************)
(* The life of the handle to the Kopia repository in each client, and the  *)
(* configuration that Initialize and later changes of the retention leave  *)
(* in the repository: setupKopia, Close, and the counted connection.       *)
(*                                                                         *)
(*   internal/kopia/conn.go, internal/kopia/retention/opts.go,             *)
(*   pkg/repository/repository.go                                          *)
(*                                                                         *)
(* Kopia is external: its format blob, with the epoch parameters and the   *)
(* locking of blobs, is written whole and at once; policies and            *)
(* maintenance parameters when a session is flushed.  A handle reads what  *)
(* it has loaded, for some time: it knows of its own changes of the locking*)
(* and of maintenance, but of no change of the epochs until it loads the   *)
(* configuration again.                                                    *)
(***************************************************************************)
EXTENDS Integers, FiniteSets

CONSTANTS
  Procs,      \* processes with a repository object
  Durations,  \* how long blobs may be locked
  Asks,       \* what clients ask of the retention, see AnyAsk
  MaxStarts,  \* bound: calls of Initialize and Connect
  MaxChanges, \* bound: changes of the configuration by connected clients
  MaxFaults   \* bound: steps that fail, and crashes

Lockings   == {"no"} \cup Durations
Extensions == {"no", "yes"}

(* repository.Retention: Mode with Duration, and Extend, may each be left  *)
(* as they are.                                                            *)
AnyAsk == [locked : Lockings \cup {"keep"}, extend : Extensions \cup {"keep"}]
KeepIt == [locked |-> "keep", extend |-> "keep"]

ASSUME ConnAssumption ==
  /\ Durations \cap {"no", "keep"} = {}
  /\ Asks \subseteq AnyAsk
  /\ MaxStarts \in Nat /\ MaxChanges \in Nat /\ MaxFaults \in Nat

VARIABLES
  made,     \* the repository is there
  config,   \* [epoch, locked, extend]: the epochs are set as corso does, for how
            \* long blobs are locked, and whether maintenance extends the locks
  policy,   \* the global policy has the defaults: no snapshot expires
  conn,     \* [Procs -> see NoConn]
  asked,    \* history: the values of locked and extend that the last change of
            \* them, or one that was cut short since, asked for
  stale,    \* history: two clients configured on top of each other
  undone,   \* history: the locking was written by a handle that had set the
            \* epochs and not loaded them again
  starts, changes, faults

history  == <<asked, stale, undone>>
connVars == <<made, config, policy, conn, history, starts, changes, faults>>

NoConfig == [epoch |-> FALSE, locked |-> "no", extend |-> "no"]

(* held are the references that count: that of setupKopia itself, of the   *)
(* Wrapper (dataLayer) and of the ModelStore.  cached is the configuration *)
(* that the handle reads, last the one that it has loaded or made; and     *)
(* existed is initErr: the repository was there before Initialize.         *)
NoConn ==
  [step |-> "none", init |-> FALSE, existed |-> FALSE, refCount |-> 0, open |-> FALSE,
   held |-> {}, ask |-> KeepIt, cached |-> NoConfig, last |-> NoConfig]

ConnInit ==
  /\ made = FALSE /\ config = NoConfig /\ policy = FALSE
  /\ conn = [p \in Procs |-> NoConn]
  /\ asked = [locked |-> {"no"}, extend |-> {"no"}]
  /\ stale = FALSE /\ undone = FALSE
  /\ starts = 0 /\ changes = 0 /\ faults = 0

Step(p, step) == conn' = [conn EXCEPT ![p].step = step]

(* The handle reads the configuration anew: when it is opened, or when what*)
(* it has loaded has expired.                                              *)
Loaded(c) == [c EXCEPT !.cached = config, !.last = config]

(* Another client has made a change since.                                 *)
Interfered(c) == c.last # config

-----------------------------------------------------------------------------
(* Initialize and Connect.                                                 *)

Wanted(now, part) == IF part = "keep" THEN now ELSE part

Start(p, init, ask) ==
  /\ conn[p].step = "none"
  /\ starts < MaxStarts
  /\ starts' = starts + 1
  /\ init \/ ask = KeepIt
  /\ conn' = [conn EXCEPT ![p] = [NoConn EXCEPT !.step = IF init THEN "create" ELSE "open",
                                                !.init = init,
                                                !.ask = ask]]
  /\ UNCHANGED <<made, config, policy, history, changes, faults>>

(* repo.Initialize; that the repository is there already is no error.      *)
CreateRepo(p) ==
  /\ conn[p].step = "create"
  /\ made' = TRUE
  /\ IF made THEN UNCHANGED <<config, asked>>
     ELSE /\ config' = [NoConfig EXCEPT !.locked = Wanted(@, conn[p].ask.locked)]
          /\ asked' = [asked EXCEPT !.locked = {config'.locked}]
  /\ conn' = [conn EXCEPT ![p].step = "open", ![p].existed = made]
  /\ UNCHANGED <<policy, stale, undone, starts, changes, faults>>

(* Mutant: a repository that exists is taken to be configured.             *)
AfterOpen_NewOnly(c) == IF c.init /\ ~c.existed THEN "policy" ELSE "wrap"

AfterOpen(c) == IF c.init THEN "policy" ELSE "wrap"

(* commonConnect and open: the reference is counted before it is there.    *)
OpenRepo(p) ==
  /\ conn[p].step = "open"
  /\ made
  /\ conn' = [conn EXCEPT ![p] = [Loaded(conn[p]) EXCEPT !.step = AfterOpen(conn[p]),
                                                         !.refCount = @ + 1,
                                                         !.open = TRUE,
                                                         !.held = {"setup"}]]
  /\ UNCHANGED <<made, config, policy, history, starts, changes, faults>>

(* Nothing is open, but counted if it was repo.Open that failed; the conn  *)
(* is dropped.                                                             *)
OpenFails(p, counted) ==
  /\ conn[p].step = "open"
  /\ faults < MaxFaults \/ ~made
  /\ faults' = IF made THEN faults + 1 ELSE faults
  /\ conn' = [conn EXCEPT ![p].step = "failed", ![p].refCount = IF counted THEN @ + 1 ELSE @]
  /\ UNCHANGED <<made, config, policy, history, starts, changes>>

SetDefaultConfigValues(p) ==
  /\ conn[p].step = "policy"
  /\ policy' = TRUE
  /\ Step(p, "readEpoch")
  /\ UNCHANGED <<made, config, history, starts, changes, faults>>

(* updatePersistentConfig of a connected client.                           *)
ChangeEpoch(p) ==
  /\ conn[p].step = "ready" /\ conn[p].held # {}
  /\ changes < MaxChanges
  /\ changes' = changes + 1
  /\ Step(p, "readEpoch")
  /\ UNCHANGED <<made, config, policy, history, starts, faults>>

(* updatePersistentConfig reads the format and writes all of it back, if   *)
(* the epochs asked for differ from those it has read.                     *)
ReadEpoch(p, loads) ==
  /\ conn[p].step = "readEpoch"
  /\ LET c == IF loads THEN Loaded(conn[p]) ELSE conn[p]
     IN  conn' = [conn EXCEPT ![p] = [c EXCEPT !.step = "writeEpoch"]]
  /\ UNCHANGED <<made, config, policy, history, starts, changes, faults>>

AfterEpoch(c) == IF "setup" \in c.held THEN "readRetention" ELSE "ready"

WriteEpoch(p, differs) ==
  /\ conn[p].step = "writeEpoch"
  /\ conn[p].cached.epoch \/ differs
  /\ LET next == [conn[p] EXCEPT !.step = AfterEpoch(conn[p])]
     IN  IF differs
         THEN /\ config' = [config EXCEPT !.epoch = TRUE, !.locked = conn[p].cached.locked]
              /\ conn' = [conn EXCEPT ![p] = [next EXCEPT !.last = config']]
              /\ stale' = (stale \/ Interfered(conn[p]))
         ELSE /\ conn' = [conn EXCEPT ![p] = next]
              /\ UNCHANGED <<config, stale>>
  /\ UNCHANGED <<made, policy, asked, undone, starts, changes, faults>>

-----------------------------------------------------------------------------
(* setRetentionParameters, at the end of Initialize or later.              *)

AfterRetention(c) == IF "setup" \in c.held THEN "wrap" ELSE "ready"

ChangeRetention(p, ask) ==
  /\ conn[p].step = "ready" /\ conn[p].held # {}
  /\ changes < MaxChanges
  /\ changes' = changes + 1
  /\ conn' = [conn EXCEPT ![p].step = "readRetention", ![p].ask = ask]
  /\ UNCHANGED <<made, config, policy, history, starts, faults>>

ReadRetention(p, loads) ==
  /\ conn[p].step = "readRetention"
  /\ LET c == IF loads THEN Loaded(conn[p]) ELSE conn[p]
     IN  IF conn[p].ask = KeepIt
         THEN ~loads /\ Step(p, AfterRetention(c))
         ELSE conn' = [conn EXCEPT ![p] = [c EXCEPT !.step = "writeRetention"]]
  /\ UNCHANGED <<made, config, policy, history, starts, changes, faults>>

(* What differs from what was read.                                        *)
BlobChanged(c) == c.ask.locked \notin {"keep", c.cached.locked}

(* Mutant: what differs is written only if the locking of blobs differs.   *)
ParamsChanged_WithBlob(c) == c.ask.extend \notin {"keep", c.cached.extend} /\ BlobChanged(c)

ParamsChanged(c) == c.ask.extend \notin {"keep", c.cached.extend}

(* The values of a part after a change that succeeds.                      *)
Asked(before, part) == IF part = "keep" THEN before ELSE {part}

Succeeds(c) ==
  asked' = [locked |-> Asked(asked.locked, c.ask.locked),
            extend |-> Asked(asked.extend, c.ask.extend)]

(* persistRetentionConfigs: the locking of blobs is written at once, with  *)
(* the epochs that were read; the session with the parameters of           *)
(* maintenance is flushed after that; each only if it changes.             *)
WriteLocking(p) ==
  /\ conn[p].step = "writeRetention"
  /\ LET c      == conn[p]
         params == ParamsChanged(c)
         next   == IF params THEN [c EXCEPT !.step = "flushRetention"]
                   ELSE [c EXCEPT !.step = AfterRetention(c), !.ask = KeepIt]
     IN  /\ IF BlobChanged(c)
            THEN /\ config' = [config EXCEPT !.epoch = c.cached.epoch, !.locked = c.ask.locked]
                 /\ conn' = [conn EXCEPT ![p] = [next EXCEPT !.cached.locked = c.ask.locked,
                                                             !.last = config']]
                 /\ undone' = (undone \/ c.cached.epoch # c.last.epoch)
            ELSE /\ conn' = [conn EXCEPT ![p] = next]
                 /\ UNCHANGED <<config, undone>>
         /\ IF params
            THEN asked' = [asked EXCEPT !.locked = @ \cup Asked({}, c.ask.locked)]
            ELSE Succeeds(c)
         /\ stale' = (stale \/ Interfered(c))
  /\ UNCHANGED <<made, policy, starts, changes, faults>>

FlushRetention(p) ==
  /\ conn[p].step = "flushRetention"
  /\ LET c == conn[p]
     IN  /\ config' = [config EXCEPT !.extend = c.ask.extend]
         /\ conn' = [conn EXCEPT ![p] = [c EXCEPT !.step = AfterRetention(c), !.ask = KeepIt,
                                                  !.cached.extend = c.ask.extend,
                                                  !.last = config']]
         /\ Succeeds(c)
         /\ stale' = (stale \/ Interfered(c))
  /\ UNCHANGED <<made, policy, undone, starts, changes, faults>>

-----------------------------------------------------------------------------
(* References.                                                             *)

(* NewWrapper and NewModelStore, for a conn that is counted.               *)
Wrap(p, user) ==
  /\ conn[p].step = "wrap"
  /\ conn[p].refCount > 0
  /\ user \in {"data", "model"} \ conn[p].held
  /\ user = "model" => "data" \in conn[p].held
  /\ conn' = [conn EXCEPT ![p].refCount = @ + 1, ![p].held = @ \cup {user}]
  /\ UNCHANGED <<made, config, policy, history, starts, changes, faults>>

(* Mutant: the handle is closed with the first reference.                  *)
StaysOpen_Never(c) == FALSE

StaysOpen(c) == c.refCount > 1

(* The deferred Close of setupKopia, and repository.Close: the Wrapper     *)
(* first, and each forgets its conn, so that a second Close does nothing.  *)
Release(p, user) ==
  /\ user \in conn[p].held
  /\ CASE user = "setup" -> conn[p].step = "wrap" /\ {"data", "model"} \subseteq conn[p].held
       [] user = "data"  -> conn[p].step = "ready"
       [] user = "model" -> conn[p].step = "ready" /\ "data" \notin conn[p].held
  /\ conn' = [conn EXCEPT
       ![p].refCount = @ - 1,
       ![p].held = @ \ {user},
       ![p].open = StaysOpen(conn[p]),
       ![p].step = IF user = "setup" THEN "ready" ELSE IF user = "model" THEN "closed" ELSE @]
  /\ UNCHANGED <<made, config, policy, history, starts, changes, faults>>

(* The process starts over with a new repository object.                   *)
Again(p) ==
  /\ conn[p].step \in {"closed", "failed"}
  /\ conn' = [conn EXCEPT ![p] = NoConn]
  /\ UNCHANGED <<made, config, policy, history, starts, changes, faults>>

-----------------------------------------------------------------------------
(* A step fails, and Initialize gives up with what it holds still open; a  *)
(* change of the retention returns an error; a crash loses the process.    *)
Configuring == {"create", "policy", "readEpoch", "writeEpoch",
                "readRetention", "writeRetention", "flushRetention"}

StepFails(p) ==
  /\ conn[p].step \in Configuring
  /\ faults < MaxFaults
  /\ faults' = faults + 1
  /\ conn' = [conn EXCEPT
       ![p].step = IF conn[p].held \in {{}, {"setup"}} THEN "failed" ELSE "ready",
       ![p].ask = KeepIt]
  /\ UNCHANGED <<made, config, policy, history, starts, changes>>

CrashProc(p) ==
  /\ conn[p].step # "none"
  /\ faults < MaxFaults
  /\ faults' = faults + 1
  /\ conn' = [conn EXCEPT ![p] = NoConn]
  /\ UNCHANGED <<made, config, policy, history, starts, changes>>

Setup(p) ==
  \/ \E init \in BOOLEAN, ask \in Asks \cup {KeepIt} : Start(p, init, ask)
  \/ CreateRepo(p)
  \/ OpenRepo(p)
  \/ \E counted \in BOOLEAN : OpenFails(p, counted)
  \/ SetDefaultConfigValues(p)

Epoch(p) ==
  \/ ChangeEpoch(p)
  \/ \E loads \in BOOLEAN : ReadEpoch(p, loads)
  \/ \E differs \in BOOLEAN : WriteEpoch(p, differs)

Retention(p) ==
  \/ \E ask \in Asks \ {KeepIt} : ChangeRetention(p, ask)
  \/ \E loads \in BOOLEAN : ReadRetention(p, loads)
  \/ WriteLocking(p) \/ FlushRetention(p)

References(p) ==
  \/ \E user \in {"data", "model"} : Wrap(p, user)
  \/ \E user \in {"setup", "data", "model"} : Release(p, user)
  \/ Again(p)

ConnNext ==
  \E p \in Procs : Setup(p) \/ Epoch(p) \/ Retention(p) \/ References(p) \/ StepFails(p) \/ CrashProc(p)

ConnSpec == ConnInit /\ [][ConnNext]_connVars

-----------------------------------------------------------------------------
(* Properties.                                                             *)

Steps == Configuring \cup {"none", "open", "wrap", "ready", "closed", "failed"}

Configs == [epoch : BOOLEAN, locked : Lockings, extend : Extensions]

(* The references are counted, but for one of an open that failed.         *)
ConnTypeOK ==
  /\ made \in BOOLEAN /\ config \in Configs /\ policy \in BOOLEAN
  /\ \A p \in Procs :
       /\ conn[p].step \in Steps
       /\ conn[p].held \subseteq {"setup", "data", "model"}
       /\ conn[p].step # "failed" => conn[p].refCount = Cardinality(conn[p].held)
       /\ conn[p].ask \in AnyAsk /\ conn[p].cached \in Configs /\ conn[p].last \in Configs
  /\ starts \in 0..MaxStarts /\ changes \in 0..MaxChanges /\ faults \in 0..MaxFaults

(* The Kopia handle is there for as long as the Wrapper or the ModelStore  *)
(* uses it, and is closed with the last of them: whatever fails before.    *)
OpenWhileHeld ==
  \A p \in Procs : conn[p].open <=> conn[p].held # {}

(* A client that has initialized the repository uses one with the default  *)
(* policy and its epochs, whatever attempts were cut short before.  There  *)
(* are two ways to lose the epochs: two clients with handles that were open*)
(* at once both changed the configuration, or one changed the locking with *)
(* the handle that it had set the epochs with, whose reads are not new.    *)
InitializedIsWhole ==
  \A p \in Procs :
    conn[p].init /\ conn[p].step \in {"wrap", "ready"} =>
      policy /\ (config.epoch \/ stale \/ undone)

(* Blobs are locked, and maintenance extends the locks, as the last change *)
(* of either that succeeded has asked for, or one that was cut short since:*)
(* a change of one part leaves the other as it was, and so does a change of*)
(* the epochs; unless two clients configured on top of each other.         *)
RetentionIsAsAsked ==
  stale \/ (config.locked \in asked.locked /\ config.extend \in asked.extend)
=============================================================================
