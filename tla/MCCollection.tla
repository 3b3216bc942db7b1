---------------------------- MODULE MCCollection ----------------------------
(***************************************************************************)
(* Instances of Collection for TLC: a file of one page with one index and  *)
(* a longer one with two, one of them shared.                              *)
(***************************************************************************)
EXTENDS Collection

CONSTANTS f1, f2, f3,           \* files
          author, title, meta   \* indexes

TwoFiles == {f1, f2}
ThreeFiles == {f1, f2, f3}
TwoIndexes == {author, meta}
ThreeIndexes == {author, title, meta}

FileContent == [f \in File |-> (IF f = f2 THEN {author, title} ELSE {title}) \cap NdxName]
FilePages == [f \in File |-> IF f = f2 THEN 2 ELSE 1]
=============================================================================
