----------------------------- MODULE ModelStore -----------------------------
(***************************************************************************)
(* The store of models (backups and others) on Kopia's manifests, and its  *)
(* clients: each version of a model is a manifest, found by the model's    *)
(* stable ID, and an update writes the new one and deletes the old one in  *)
(* one session, after a check that the client's version is the latest.     *)
(*                                                                         *)
(*   internal/kopia/model_store.go                                         *)
(*                                                                         *)
(* Kopia is external: a session is flushed whole or not at all, a lookup   *)
(* sees the sessions flushed before it, and to delete a manifest that is   *)
(* not there does nothing.                                                 *)
(***************************************************************************)
EXTENDS Integers

CONSTANTS
  Clients,
  Models,   \* stable IDs
  MaxIDs    \* bound: manifests written, flushed or not

ASSUME StoreAssumption == MaxIDs \in Nat

VARIABLES
  manifests, \* those stored: records [id, model, from], see Manifest
  nextID,    \* the ID that the next manifest gets
  copy,      \* [Clients -> the model in memory: [model, id (ModelStoreID)]]
  doing,     \* [Clients -> the call in progress: [op, model, id]]
  written,   \* history: the models that were put
  deleted,   \* history: the models that a call of Delete has removed
  raced      \* history: the models of which a call has written on top of
             \* what another stored after its lookup

storeVars == <<manifests, nextID, copy, doing, written, deleted, raced>>

NoModel == [model |-> "none", id |-> 0]
Nothing == [op |-> "none", model |-> "none", id |-> 0]

(* from is the manifest that this version was made from, 0 for a put.      *)
Manifest(id, m, from) == [id |-> id, model |-> m, from |-> from]

IDsOf(m) == {x.id : x \in {y \in manifests : y.model = m}}

StoreInit ==
  /\ manifests = {}
  /\ nextID = 1
  /\ copy = [c \in Clients |-> NoModel]
  /\ doing = [c \in Clients |-> Nothing]
  /\ written = {} /\ deleted = {} /\ raced = {}

-----------------------------------------------------------------------------
(* Put, with a stable ID made for the model.  putInner sets the ID of the  *)
(* client's model, whether the session is flushed or not.                  *)
Put(c, m, flushed) ==
  /\ doing[c] = Nothing
  /\ m \notin written
  /\ nextID <= MaxIDs
  /\ nextID' = nextID + 1
  /\ copy' = [copy EXCEPT ![c] = [model |-> m, id |-> nextID]]
  /\ manifests' = IF flushed THEN manifests \cup {Manifest(nextID, m, 0)} ELSE manifests
  /\ written' = IF flushed THEN written \cup {m} ELSE written
  /\ UNCHANGED <<doing, deleted, raced>>

(* getModelStoreID finds exactly one manifest, or the call fails.          *)
Found(m, id) == IDsOf(m) = {id}

(* Get: the manifest is read by its ID after it was looked up.             *)
GetLookup(c, m, id) ==
  /\ doing[c] = Nothing
  /\ Found(m, id)
  /\ doing' = [doing EXCEPT ![c] = [op |-> "get", model |-> m, id |-> id]]
  /\ UNCHANGED <<manifests, nextID, copy, written, deleted, raced>>

GetManifest(c) ==
  /\ doing[c].op = "get"
  /\ doing' = [doing EXCEPT ![c] = Nothing]
  /\ copy' = IF doing[c].id \in IDsOf(doing[c].model)
             THEN [copy EXCEPT ![c] = [model |-> doing[c].model, id |-> doing[c].id]]
             ELSE copy
  /\ UNCHANGED <<manifests, nextID, written, deleted, raced>>

(* Mutant: any manifest of the model will do.                              *)
IsLatest_Any(c, id) == id \in IDsOf(copy[c].model)

(* checkPrevModelVersion.                                                  *)
IsLatest(c, id) == copy[c].id = id /\ Found(copy[c].model, id)

UpdateCheck(c, id) ==
  /\ doing[c] = Nothing
  /\ copy[c] # NoModel
  /\ IsLatest(c, id)
  /\ doing' = [doing EXCEPT ![c] = [op |-> "update", model |-> copy[c].model, id |-> id]]
  /\ UNCHANGED <<manifests, nextID, copy, written, deleted, raced>>

(* Mutants: the old manifest stays; all those of the stable ID are deleted.*)
Replaced_KeepsOld(m, old, new) == manifests \cup {Manifest(new, m, old)}

Replaced_ByStableID(m, old, new) == {x \in manifests : x.model # m}

(* The old manifest is deleted in the session that puts the new one.       *)
Replaced(m, old, new) ==
  {x \in manifests : x.id # old} \cup {Manifest(new, m, old)}

(* The session of Update.  If the put or the delete in it fails the ID of  *)
(* the client's model is restored; if the flush fails it is not.           *)
UpdateWrite(c, outcome) ==
  /\ doing[c].op = "update"
  /\ nextID <= MaxIDs
  /\ LET m   == copy[c].model
         old == copy[c].id
     IN  IF outcome = "flushed"
         THEN /\ manifests' = Replaced(m, old, nextID)
              /\ raced' = IF Found(m, doing[c].id) THEN raced ELSE raced \cup {m}
         ELSE UNCHANGED <<manifests, raced>>
  /\ copy' = [copy EXCEPT ![c].id = IF outcome = "failed" THEN @ ELSE nextID]
  /\ nextID' = nextID + 1
  /\ doing' = [doing EXCEPT ![c] = Nothing]
  /\ UNCHANGED <<written, deleted>>

(* Delete: nothing is done for a model that is not there.                  *)
DeleteLookup(c, m, id) ==
  /\ doing[c] = Nothing
  /\ Found(m, id)
  /\ doing' = [doing EXCEPT ![c] = [op |-> "delete", model |-> m, id |-> id]]
  /\ UNCHANGED <<manifests, nextID, copy, written, deleted, raced>>

(* DeleteWithModelStoreIDs.                                                *)
DeleteWrite(c, flushed) ==
  /\ doing[c].op = "delete"
  /\ LET m == doing[c].model
     IN  /\ manifests' = IF flushed THEN {x \in manifests : x.id # doing[c].id} ELSE manifests
         /\ deleted' = IF flushed THEN deleted \cup {m} ELSE deleted
         /\ raced' = IF flushed /\ IDsOf(m) \ {doing[c].id} # {} THEN raced \cup {m} ELSE raced
  /\ doing' = [doing EXCEPT ![c] = Nothing]
  /\ UNCHANGED <<nextID, copy, written>>

(* The client stops, or gives up its model.                                *)
Crash(c) ==
  /\ copy[c] # NoModel \/ doing[c] # Nothing
  /\ copy' = [copy EXCEPT ![c] = NoModel]
  /\ doing' = [doing EXCEPT ![c] = Nothing]
  /\ UNCHANGED <<manifests, nextID, written, deleted, raced>>

Outcomes == {"flushed", "failed", "not flushed"}

StoreNext ==
  \E c \in Clients :
    \/ \E m \in Models, flushed \in BOOLEAN : Put(c, m, flushed)
    \/ \E m \in Models, id \in 1..MaxIDs : GetLookup(c, m, id) \/ DeleteLookup(c, m, id)
    \/ GetManifest(c)
    \/ \E id \in 1..MaxIDs : UpdateCheck(c, id)
    \/ \E outcome \in Outcomes : UpdateWrite(c, outcome)
    \/ \E flushed \in BOOLEAN : DeleteWrite(c, flushed)
    \/ Crash(c)

StoreSpec == StoreInit /\ [][StoreNext]_storeVars

-----------------------------------------------------------------------------
(* Properties.                                                             *)

StoreTypeOK ==
  /\ nextID \in 1..MaxIDs + 1
  /\ \A x \in manifests : x.id \in 1..nextID - 1 /\ x.model \in Models /\ x.from \in 0..MaxIDs
  /\ \A x, y \in manifests : x.id = y.id => x = y
  /\ \A c \in Clients : copy[c].id \in 0..nextID - 1 /\ doing[c].id \in 0..nextID - 1
  /\ written \subseteq Models /\ deleted \subseteq Models /\ raced \subseteq Models

(* A model has one manifest, or every later Get, Update and Delete of it   *)
(* fails ("multiple models with same StableID"): unless an update has      *)
(* written on top of what another call stored after its check.             *)
OneManifestUnlessRaced ==
  \A x, y \in manifests : x.model = y.model => x = y \/ x.model \in raced

(* Whatever fails or races, a model is not lost: while nobody deletes it,  *)
(* there is a version of it.                                               *)
NotLostUntilDeleted == \A m \in written : IDsOf(m) # {} \/ m \in deleted

(* A version that was stored is only replaced by one made from it: no      *)
(* update is lost to a client that had not seen it, unless they race.      *)
UpdatesBuildOnLatest ==
  [][\A x \in manifests' \ manifests :
       x.from = 0 \/ x.from \in IDsOf(x.model) \/ x.model \in raced']_storeVars
=============================================================================
