------------------------------ MODULE Catalog ------------------------------
(***************************************************************************)
(* What a collection of documents promises to those who search it: the     *)
(* documents it holds under their numbers, and that a search of an index   *)
(* and a read of a page give what the indexed documents contain, no more   *)
(* and no less.  Module Collection implements it.                          *)
(***************************************************************************)
EXTENDS Naturals

CONSTANTS
    File,       \* names of document files
    NdxName,    \* names of indexes
    Words,      \* Words[f]: the indexes an indexed document of file f is found in
    Pages       \* Pages[f]: number of pages of file f

VARIABLES
    docs,       \* document number to its file, whether it is indexed and its page count
    hits,       \* hits[x]: what searching index x finds, document and file of the words
    content     \* content[d]: the pages stored for document d, file they are from

Found(D, x) ==
    {<<d, D[d].file>> : d \in {n \in DOMAIN D : D[n].indexed /\ x \in Words[D[n].file]}}

Stored(r) == IF r.indexed THEN [p \in 1 .. Pages[r.file] |-> r.file] ELSE [p \in {} |-> r.file]

Published == /\ hits = [x \in NdxName |-> Found(docs, x)]
             /\ content = [d \in DOMAIN docs |-> Stored(docs[d])]

Unused(d) == d \in Nat \ {0} /\ \A n \in DOMAIN docs : n < d

\* The document of file f under number d, indexed or not.
Put(d, f, indexed) ==
    docs' = [n \in DOMAIN docs \cup {d} |->
                IF n = d THEN [file |-> f, indexed |-> indexed,
                               pages |-> IF indexed THEN Pages[f] ELSE 0]
                ELSE docs[n]]

Add(d, f, indexed) == /\ Unused(d)
                      /\ \A n \in DOMAIN docs : docs[n].file # f
                      /\ Put(d, f, indexed)

Index(d) == Put(d, docs[d].file, TRUE)

RemoveIndex(d) == Put(d, docs[d].file, FALSE)

Replace(d, f) == /\ \A n \in DOMAIN docs : docs[n].file # f
                 /\ Put(d, f, FALSE)

Remove(d) == docs' = [n \in DOMAIN docs \ {d} |-> docs[n]]

Clear == docs' = [n \in {} |-> 0]

Init == docs = [n \in {} |-> 0] /\ Published

Next == /\ \/ \E f \in File, indexed \in BOOLEAN, d \in DOMAIN docs' : Add(d, f, indexed)
           \/ \E d \in DOMAIN docs : Index(d) \/ RemoveIndex(d) \/ Remove(d)
           \/ \E d \in DOMAIN docs, f \in File : Replace(d, f)
           \/ Clear
        /\ Published'

Spec == Init /\ [][Next]_<<docs, hits, content>>
=============================================================================
