--------------------------- MODULE BackupCatalog ---------------------------
(***************************************************************************)
(* What the repository promises its user: a backup appears once and whole, *)
(* it stays until the user asks for its deletion, and of the others only   *)
(* assist backups, which exist to speed up later ones, are ever taken away.*)
(***************************************************************************)
CONSTANTS Backups

VARIABLES
  catalog,   \* [Backups -> State]
  requested  \* the backups the user is deleting

vars == <<catalog, requested>>

State == {"absent", "merge", "assist", "preview", "removed"}

Init ==
  /\ catalog \in [Backups -> {"absent", "merge", "removed"}]
  /\ requested = {}

Record(b, k) ==
  /\ catalog[b] = "absent"
  /\ catalog' = [catalog EXCEPT ![b] = k]
  /\ UNCHANGED requested

Request(b) ==
  /\ requested' = requested \cup {b}
  /\ UNCHANGED catalog

Cancel ==
  /\ requested' = {}
  /\ UNCHANGED catalog

Removed(S) ==
  [b \in Backups |-> IF b \in S /\ catalog[b] # "absent" THEN "removed" ELSE catalog[b]]

Delete ==
  /\ catalog' = Removed(requested)
  /\ requested' = {}

Prune(S) ==
  /\ \A b \in S : catalog[b] = "assist"
  /\ catalog' = Removed(S)
  /\ UNCHANGED requested

Next ==
  \/ \E b \in Backups, k \in {"merge", "assist", "preview"} : Record(b, k)
  \/ \E b \in Backups : Request(b)
  \/ Cancel
  \/ Delete
  \/ \E S \in SUBSET Backups : Prune(S)

Spec == Init /\ [][Next]_vars
=============================================================================
