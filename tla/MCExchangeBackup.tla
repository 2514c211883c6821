--------------------------- MODULE MCExchangeBackup ---------------------------
EXTENDS ExchangeBackup

CONSTANTS f1, f2, i1, i2, a, b

(* One folder in another, and an item in the inner one.                    *)
Nested ==
  {[home  |-> [f \in Folders |-> IF f = f1 THEN Root ELSE f1],
    title |-> [f \in Folders |-> a],
    place |-> [i \in Messages |-> IF i = i1 THEN f2 ELSE Nowhere]]}

(* Only the outer one.                                                     *)
Shallow ==
  {[home  |-> [f \in Folders |-> IF f = f1 THEN Root ELSE Nowhere],
    title |-> [f \in Folders |-> a],
    place |-> [i \in Messages |-> IF i = i1 THEN f1 ELSE Nowhere]]}

SomeMailboxes == Nested \cup Shallow
=============================================================================
