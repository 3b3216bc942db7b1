----------------------------- MODULE MCLibrary -----------------------------
(***************************************************************************)
(* Instances of Library for TLC: two collections that may hold the same    *)
(* document files.                                                         *)
(***************************************************************************)
EXTENDS Library

CONSTANTS f1,                   \* a file
          meta,                 \* the metadata index
          a, b,                 \* collections
          oldTitle, newTitle    \* titles

OneFile == {f1}
OneIndex == {meta}
TwoCols == {a, b}
OneTitle == {oldTitle}
TwoTitles == {oldTitle, newTitle}

FileContent == [f \in File |-> {}]
FilePages == [f \in File |-> 1]
=============================================================================
