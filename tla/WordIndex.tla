----------------------------- MODULE WordIndex -----------------------------
(***************************************************************************)
(* What an index of the library promises (class DbNdx, DbNdx.hpp:35-41):   *)
(* "each word has optional entries = positions for this word".  The state  *)
(* is the entry set of every word, nothing else; how DbNdx stores these    *)
(* sets (a header record per word and blobs in a companion container) is   *)
(* in module DbNdx, which implements this one.                             *)
(***************************************************************************)
EXTENDS Naturals

CONSTANTS
    Word,       \* the words of the index
    Doc,        \* document numbers
    Pos         \* positions of a word in a document

Entry == Doc \X Pos

VARIABLE index      \* index[w]: the entries of word w, {} if w is not there

TypeOK == index \in [Word -> SUBSET Entry]

Init == index = [w \in Word |-> {}]

\* AddWordEntries: the entries of w gain S.
Add(w, S) == index' = [index EXCEPT ![w] = @ \cup S]

\* DelWordEntries: w loses every entry.
DelWord(w) == index' = [index EXCEPT ![w] = {}]

\* DelWordDocEntries: w loses the entries of document d.  DelDocEntries does
\* this to every word, one after the other.
DelWordDoc(w, d) == index' = [index EXCEPT ![w] = {e \in @ : e[1] # d}]

\* RemoveDbNdx: the index is dropped as a whole.
Drop == index' = [w \in Word |-> {}]

Next ==
    \/ \E w \in Word, S \in (SUBSET Entry) \ {{}} : Add(w, S)
    \/ \E w \in Word : DelWord(w)
    \/ \E w \in Word, d \in Doc : DelWordDoc(w, d)
    \/ Drop

Spec == Init /\ [][Next]_index
=============================================================================
