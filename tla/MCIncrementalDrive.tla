------------------------- MODULE MCIncrementalDrive -------------------------
EXTENDS IncrementalDrive

CONSTANTS a, b, ab, f1, f2, f3, f4, doc

Drive(homes, names) ==
  [home |-> [x \in Folders \cup Files |-> IF x \in DOMAIN homes THEN homes[x] ELSE Nowhere],
   name |-> [x \in Folders |-> IF x \in DOMAIN names THEN names[x] ELSE Nowhere]]

(* One folder in another and a file in the inner one.                      *)
Nested ==
  Drive([x \in {f1, f2, doc} |-> CASE x = f1 -> Root [] x = f2 -> f1 [] x = doc -> f2],
        [x \in {f1, f2} |-> IF x = f1 THEN a ELSE b])

(* Two folders in a third, with these names, and a file in the second.     *)
Siblings(n, m) ==
  Drive([x \in {f1, f2, f3, doc} |-> CASE x = f1 -> Root [] x = doc -> f3 [] OTHER -> f1],
        [x \in {f1, f2, f3} |-> CASE x = f1 -> b [] x = f2 -> n [] x = f3 -> m])

(* Three folders in each other and a file in the inmost.                   *)
Deep ==
  Drive([x \in {f1, f2, f3, doc} |->
           CASE x = f1 -> Root [] x = f2 -> f1 [] x = f3 -> f2 [] x = doc -> f3],
        [x \in {f1, f2, f3} |-> a])

AllDrives     == {Nested, Deep}
SiblingDrives == {Siblings(a, ab)}
DeepDrives    == {Deep}

NoPrefixes == {}
AbStartsWithA == {<<a, ab>>}
=============================================================================
