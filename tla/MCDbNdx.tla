------------------------------ MODULE MCDbNdx ------------------------------
(***************************************************************************)
(* Instances of DbNdx for TLC: one word that grows over several blobs, two *)
(* words with keys of their own, and two spellings of one collation key.   *)
(***************************************************************************)
EXTENDS DbNdx

CONSTANTS w1, w2    \* spellings

OneWord == {w1}
TwoWords == {w1, w2}

\* Every spelling has a collation key of its own.
OwnKeys == [w \in Word |-> IF w = w1 THEN 1 ELSE 2]

\* The collator holds the spellings equal (unicode_bt_compare returns 0).
SameKey == [w \in Word |-> 1]

\* Any entries may be added to any word, or to the second one only those of
\* one or both of the first two documents.
AnyEntries == [w \in Word |-> (SUBSET Entry) \ {{}}]
FewForSecond == [w \in Word |-> IF w = w1 THEN (SUBSET Entry) \ {{}}
                                ELSE (SUBSET ((1 .. 2) \X Pos)) \ {{}}]

Docs2 == 1 .. 2
Docs3 == 1 .. 3
Docs4 == 1 .. 4
OnePos == {0}
TwoPos == 0 .. 1
ThreePos == 0 .. 2
=============================================================================
