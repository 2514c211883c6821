------------------------------- MODULE Forests -------------------------------
(***************************************************************************)
(* Folders that are in folders: what is below what, and the paths from the *)
(* root, as the trees of drives and of mailboxes have them.  A parent is   *)
(* given for each folder, and is a folder, the root or Nowhere.            *)
(***************************************************************************)
EXTENDS SequencesExt

CONSTANTS
  Root,      \* the ID of the root folder
  Nowhere    \* no path, or no parent: nil

(* What is in x, in a folder that is in x, and so on; up has the parents.  *)
Below(up, x) ==
  LET below[y \in DOMAIN up] ==
        up[y] = x \/ (up[y] \in DOMAIN up /\ below[up[y]])
  IN  {y \in DOMAIN up : below[y]}

(* Nothing is, some steps up, in itself: of every set of things, there is  *)
(* one that is not in another of them.                                     *)
Forest(up) == \A S \in SUBSET DOMAIN up : S # {} => \E x \in S : up[x] \notin S

(* The paths of the root and of the folders below it.                      *)
Paths(up, names) ==
  LET path[y \in Below(up, Root) \cup {Root}] ==
        IF y = Root THEN <<>> ELSE Append(path[up[y]], names[y])
  IN  path
==============================================================================
