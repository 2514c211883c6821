----------------------------- MODULE MCDriveRestore -----------------------------
EXTENDS DriveRestore

CONSTANTS x, y, shared, library

(* Two folders of a library that is not there any more.                    *)
TwoFolders ==
  <<[drive |-> 9, driveName |-> library, dir |-> <<>>, items |-> {x}],
    [drive |-> 9, driveName |-> library, dir |-> <<y>>, items |-> {x}]>>

(* A list has taken its name.                                              *)
NameTaken == {[lists |-> {library}, drives |-> <<shared>>, things |-> <<>>]}
=============================================================================
