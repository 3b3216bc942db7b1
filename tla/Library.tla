------------------------------ MODULE Library ------------------------------
(***************************************************************************)
(* The manager of all collections (class ColManager): a map from           *)
(* collection ids to numbers, in memory and on disk, a metadata record for *)
(* each collection, and the one collection that is open.  Like the maps of *)
(* a collection the map is written through and saved again when the        *)
(* manager ends.  To empty a collection the manager opens a second object  *)
(* on its containers, as module CollectionData describes them.             *)
(***************************************************************************)
EXTENDS CollectionData

CONSTANTS
    ColId,      \* collection ids, given or generated
    Title,      \* collection titles
    MaxCol,     \* bound on collection numbers
    NoCol       \* no collection is open

ASSUME ColAssumption == NoCol \notin ColId /\ MaxCol \in Nat /\ IsFiniteSet(ColId)

ColNum == 1 .. MaxCol

VARIABLES
    cols,       \* cols[id]: the containers and maps of collection id
    colMap,     \* the collection map in memory: id to number
    dbColMap,   \* the collection map on disk
    dbColMeta,  \* the metadata records: id to number and title
    open,       \* the id of the open collection
    running     \* is there a ColManager

vars == <<cols, colMap, dbColMap, dbColMeta, open, running>>

\* The state after "if (mCollection) delete mCollection".
Released == IF open = NoCol THEN cols ELSE [cols EXCEPT ![open] = Closed(@)]

\* new Collection(id), ClearCollection and delete, behind the back of the
\* object that may be open on the same containers.
Emptied(c) == [Closed(Cleared(Opened(c))) EXCEPT !.docMap = c.docMap,
                                                 !.intToDocMap = c.intToDocMap,
                                                 !.ndxMap = c.ndxMap]

\* What one operation of an open collection may make of it.
Results(c) ==
    LET New == File \ DOMAIN c.docMap
        Old == {d \in DocNum : Known(c, d)}
    IN  (UNION {Adds(c, f, d, wantIndex) : f \in New, wantIndex \in BOOLEAN,
                                           d \in {n \in DocNum : IsNextDocNum(c, n)}})
        \cup (UNION {Indexed(c, d) \cup {IndexRemoved(c, d), Removed(c, d)} : d \in Old})
        \cup {Replaced(c, d, f) : d \in Old, f \in New}
        \cup {Cleared(c)}

-----------------------------------------------------------------------------
Init == /\ cols = [id \in ColId |-> Empty]
        /\ colMap = None
        /\ dbColMap = None
        /\ dbColMeta = None
        /\ open = NoCol
        /\ running = FALSE

Start ==
    /\ ~ running
    /\ running' = TRUE
    /\ colMap' = dbColMap
    /\ UNCHANGED <<cols, dbColMap, dbColMeta, open>>

\* The destructor saves the map and then deletes the open collection.
Finish ==
    /\ running
    /\ running' = FALSE
    /\ dbColMap' = colMap
    /\ colMap' = None
    /\ cols' = Released
    /\ open' = NoCol
    /\ UNCHANGED dbColMeta

\* The process is killed between two operations, while the map is saved, or
\* while the open collection is closed after that.
Killed ==
    /\ "kill" \in Faults
    /\ running
    /\ running' = FALSE
    /\ colMap' = None
    /\ open' = NoCol
    /\ \/ /\ dbColMap' \in {Restrict(colMap, S) : S \in SUBSET DOMAIN colMap}
          /\ cols' = [id \in ColId |-> Ended(cols[id], cols[id].dbDocMap, cols[id].dbNdxMap)]
       \/ /\ dbColMap' = colMap
          /\ open # NoCol
          /\ cols' \in {[cols EXCEPT ![open] = c] : c \in Cut(cols[open])}
    /\ UNCHANGED dbColMeta

\* The first col number available (greatest + 1).
IsNextColNum(n) == /\ \A m \in Range(colMap) : m < n
                   /\ n = 1 \/ n - 1 \in Range(colMap)

\* The id is given, or generated from the number; a known one is refused.
AddCollection(id, title, n) ==
    /\ running
    /\ id \notin DOMAIN colMap
    /\ IsNextColNum(n)
    /\ dbColMeta' = With(dbColMeta, id, [num |-> n, title |-> title])
    /\ dbColMap' = With(dbColMap, id, n)
    /\ colMap' = With(colMap, id, n)
    /\ UNCHANGED <<cols, open, running>>

\* Mutant: the collection is not closed before it is removed.
RemoveCollection_Open(id) ==
    /\ running
    /\ id \in DOMAIN colMap
    /\ cols' = [cols EXCEPT ![id] = Emptied(@)]
    /\ colMap' = Without(colMap, id)
    /\ dbColMap' = Without(dbColMap, id)
    /\ dbColMeta' = Without(dbColMeta, id)
    /\ UNCHANGED <<open, running>>

\* Mutant: the element stays in the map on disk.
RemoveCollection_StaysOnDisk(id) ==
    /\ running
    /\ id \in DOMAIN colMap
    /\ cols' = [cols EXCEPT ![id] = Emptied(IF open = id THEN Closed(@) ELSE @)]
    /\ open' = IF open = id THEN NoCol ELSE open
    /\ colMap' = Without(colMap, id)
    /\ dbColMeta' = Without(dbColMeta, id)
    /\ UNCHANGED <<dbColMap, running>>

RemoveCollection(id) ==
    /\ running
    /\ id \in DOMAIN colMap
    /\ cols' = [cols EXCEPT ![id] = Emptied(IF open = id THEN Closed(@) ELSE @)]
    /\ open' = IF open = id THEN NoCol ELSE open
    /\ colMap' = Without(colMap, id)
    /\ dbColMap' = Without(dbColMap, id)
    /\ dbColMeta' = Without(dbColMeta, id)
    /\ UNCHANGED running

\* An unknown collection is not removed, but closed if it is still open.
RemoveUnknown(id) ==
    /\ running
    /\ id \notin DOMAIN colMap
    /\ open = id
    /\ cols' = Released
    /\ open' = NoCol
    /\ UNCHANGED <<colMap, dbColMap, dbColMeta, running>>

SetCollectionMeta(id, title) ==
    /\ running
    /\ id \in DOMAIN colMap
    /\ dbColMeta' = With(dbColMeta, id, [num |-> colMap[id], title |-> title])
    /\ UNCHANGED <<cols, colMap, dbColMap, open, running>>

\* The open collection stays open.
ClearColManager ==
    /\ running
    /\ cols' = [id \in ColId |-> IF id \in DOMAIN colMap THEN Emptied(cols[id]) ELSE cols[id]]
    /\ colMap' = None
    /\ dbColMap' = None
    /\ dbColMeta' = None
    /\ UNCHANGED <<open, running>>

\* The collection that is open is returned as it is, without a look in the
\* map; another one is closed first, also when id is unknown.
OpenCollection(id) ==
    /\ running
    /\ open # id
    /\ \/ /\ id \in DOMAIN colMap
          /\ cols' = [Released EXCEPT ![id] = Opened(@)]
          /\ open' = id
       \/ /\ id \notin DOMAIN colMap
          /\ cols' = Released
          /\ open' = NoCol
    /\ UNCHANGED <<colMap, dbColMap, dbColMeta, running>>

\* An operation of the open collection.
UseCollection ==
    /\ open # NoCol
    /\ cols' \in {[cols EXCEPT ![open] = c] : c \in Results(cols[open])}
    /\ UNCHANGED <<colMap, dbColMap, dbColMeta, open, running>>

Next ==
    \/ Start
    \/ Finish
    \/ Killed
    \/ \E id \in ColId, title \in Title, n \in ColNum : AddCollection(id, title, n)
    \/ \E id \in ColId : RemoveCollection(id)
    \/ \E id \in ColId : RemoveUnknown(id)
    \/ \E id \in ColId, title \in Title : SetCollectionMeta(id, title)
    \/ ClearColManager
    \/ \E id \in ColId : OpenCollection(id)
    \/ UseCollection

Spec == Init /\ [][Next]_vars

-----------------------------------------------------------------------------
(***************************************************************************)
(* Properties                                                              *)
(***************************************************************************)
ColMeta == [num : ColNum, title : Title]

TypeOK == /\ cols = [id \in ColId |-> cols[id]]
          /\ \A id \in ColId : IsCol(cols[id])
          /\ IsMap(colMap, ColId, ColNum)
          /\ IsMap(dbColMap, ColId, ColNum)
          /\ IsMap(dbColMeta, ColId, ColMeta)
          /\ open \in ColId \cup {NoCol}
          /\ running \in BOOLEAN

\* The collections on disk are those in memory, each has a number of its own
\* and a metadata record with that number, and only the open collection of a
\* running manager has maps in memory, whatever was killed before.  A map
\* that lacked a collection the disk has would let AddCollection give its
\* number again, and Finish drop it.
LibraryAgrees ==
    /\ running => colMap = dbColMap
    /\ \A i, j \in DOMAIN dbColMap : dbColMap[i] = dbColMap[j] => i = j
    /\ \A id \in DOMAIN dbColMap : id \in DOMAIN dbColMeta /\ dbColMeta[id].num = dbColMap[id]
    /\ open # NoCol => running
    /\ \A id \in ColId : id # open => cols[id] = Ended(cols[id], cols[id].dbDocMap, cols[id].dbNdxMap)

\* The maps in force.
ColMap == IF running THEN colMap ELSE dbColMap
DocMapOf(id) == IF open = id THEN cols[id].docMap ELSE cols[id].dbDocMap

\* The manager keeps collections apart: adding, removing, opening and closing
\* them and using one changes no other, a removed one leaves no documents to
\* a later one of its id, and nothing is lost but by a kill.
Collections == INSTANCE Shelf WITH
    titles <- [id \in DOMAIN ColMap |-> dbColMeta[id].title],
    files <- [id \in ColId |-> DOMAIN DocMapOf(id)],
    strays <- {id \in ColId \ DOMAIN ColMap : open = id \/ DOMAIN DocMapOf(id) # {}}
ImplementsShelf == Collections!Spec

\* No document is stored for a collection that is not on the list.
NoStrayDocuments ==
    \A id \in ColId : id \notin DOMAIN ColMap => cols[id].dbDocMap = None

\* ClearColManager is to "Remove all stored collections" (ColManager.hpp:39):
\* what it has removed does not come back when the manager ends.
ClearedStaysCleared == [][Finish /\ NoStrayDocuments => NoStrayDocuments']_vars
=============================================================================
