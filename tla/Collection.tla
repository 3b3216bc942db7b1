----------------------------- MODULE Collection -----------------------------
(***************************************************************************)
(* The life of a collection (class Collection): it is opened, used and     *)
(* closed, again and again.  The document map is written through; the      *)
(* index map reaches the disk only when the collection is closed, when     *)
(* both maps are saved by clearing the container and putting the elements  *)
(* back one by one.  Nothing is transactional, and a parse that fails      *)
(* leaves behind what it stored before it failed.                          *)
(*                                                                         *)
(* The operations look the document up in several maps and return false    *)
(* half way when one lacks it (Collection.cpp:377, 384, 486).  MapsAgree   *)
(* says that these returns are never taken, and they are no actions here.  *)
(***************************************************************************)
EXTENDS CollectionData

VARIABLES
    col,        \* the maps in memory and the containers on disk
    isOpen      \* is there a Collection object

vars == <<col, isOpen>>

Init == col = Empty /\ isOpen = FALSE

-----------------------------------------------------------------------------
(***************************************************************************)
(* The operations of an open collection.  Those of an unknown document,    *)
(* and AddDocument of a known file, return false and change nothing.       *)
(***************************************************************************)
AddDocument(f, d, wantIndex) ==
    /\ isOpen
    /\ f \notin DOMAIN col.docMap
    /\ IsNextDocNum(col, d)
    /\ col' \in Adds(col, f, d, wantIndex)
    /\ UNCHANGED isOpen

IndexDocument(d) ==
    /\ isOpen
    /\ Known(col, d)
    /\ col' \in Indexed(col, d)
    /\ UNCHANGED isOpen

RemoveDocumentIndex(d) ==
    /\ isOpen
    /\ Known(col, d)
    /\ col' = IndexRemoved(col, d)
    /\ UNCHANGED isOpen

RemoveDocument(d) ==
    /\ isOpen
    /\ Known(col, d)
    /\ col' = Removed(col, d)
    /\ UNCHANGED isOpen

\* SetDocumentMeta with another file; with the same one it changes no state
\* the model has.
SetDocumentMeta(d, f) ==
    /\ isOpen
    /\ Known(col, d)
    /\ f \notin DOMAIN col.docMap
    /\ col' = Replaced(col, d, f)
    /\ UNCHANGED isOpen

ClearCollection ==
    /\ isOpen
    /\ col' = Cleared(col)
    /\ UNCHANGED isOpen

-----------------------------------------------------------------------------
(***************************************************************************)
(* Opening and closing.                                                    *)
(***************************************************************************)
Open ==
    /\ ~ isOpen
    /\ isOpen' = TRUE
    /\ col' = Opened(col)

Close ==
    /\ isOpen
    /\ isOpen' = FALSE
    /\ col' = Closed(col)

\* The process is killed.
Killed ==
    /\ "kill" \in Faults
    /\ isOpen
    /\ isOpen' = FALSE
    /\ col' \in Cut(col)

Next ==
    \/ \E f \in File, d \in DocNum, wantIndex \in BOOLEAN : AddDocument(f, d, wantIndex)
    \/ \E d \in DocNum : IndexDocument(d)
    \/ \E d \in DocNum : RemoveDocumentIndex(d)
    \/ \E d \in DocNum : RemoveDocument(d)
    \/ \E d \in DocNum, f \in File : SetDocumentMeta(d, f)
    \/ ClearCollection
    \/ Open
    \/ Close
    \/ Killed

Spec == Init /\ [][Next]_vars

-----------------------------------------------------------------------------
(***************************************************************************)
(* Properties                                                              *)
(***************************************************************************)
TypeOK == IsCol(col) /\ isOpen \in BOOLEAN

\* The maps tell one story: an open collection's two document maps are each
\* other's inverse and what is on disk, and the metadata record of a document
\* names the file the map has it under.  Without it RemoveDocument stops half
\* way (Collection.cpp:377, 384) and CheckSizes reports a size error.
MapsAgree ==
    /\ \A f, g \in DOMAIN col.dbDocMap : col.dbDocMap[f] = col.dbDocMap[g] => f = g
    /\ \A f \in DOMAIN col.dbDocMap :
            /\ col.dbDocMap[f] \in DOMAIN col.docMeta
            /\ col.docMeta[col.dbDocMap[f]].file = f
    /\ isOpen =>
            /\ col.docMap = col.dbDocMap
            /\ DOMAIN col.intToDocMap = Range(col.docMap)
            /\ \A f \in DOMAIN col.docMap : col.intToDocMap[col.docMap[f]] = f

\* A document whose record says that it is indexed has all its words and all
\* its pages in the databases, whatever failed or was cut short before.
IndexedMeansStored ==
    \A d \in DOMAIN col.docMeta :
        LET f == col.docMeta[d].file
        IN  col.docMeta[d].indexed =>
                /\ \A x \in Content[f] : <<d, f>> \in col.ndx[x]
                /\ \A p \in 1 .. Pages[f] : p \in DOMAIN col.docDb[d] /\ col.docDb[d][p] = f

\* The map that is in force.
DocMap == IF isOpen THEN col.docMap ELSE col.dbDocMap
NdxMap == IF isOpen THEN col.ndxMap ELSE col.dbNdxMap

\* The index map names the indexes that have words, with their number of
\* words, which GetIndexMap shows; it is how documents and collections are
\* removed from them.
NdxMapIsExact ==
    /\ DOMAIN NdxMap = {x \in NdxName : col.ndx[x] # {}}
    /\ \A x \in DOMAIN NdxMap : NdxMap[x] = NbWord(col.ndx[x])

\* A search and a read give what the indexed documents contain, before and
\* after the collection is closed and opened again.
Documents == INSTANCE Catalog WITH
    Words <- [f \in File |-> Content[f] \cup {MetaName}],
    docs <- [d \in Range(DocMap) |-> col.docMeta[d]],
    hits <- [x \in NdxName |-> IF x \in DOMAIN NdxMap THEN col.ndx[x] ELSE {}],
    content <- [d \in Range(DocMap) |-> col.docDb[d]]
ImplementsCatalog == Documents!Spec

\* "Check if the databases are empty after removing all the documents"
\* (CollectionTest.cpp:174): no index is left then.
NoDocumentNoIndex == isOpen /\ DOMAIN col.docMap = {} => DOMAIN col.ndxMap = {}
=============================================================================
