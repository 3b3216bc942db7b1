--------------------------- MODULE LibraryProofs ---------------------------
(***************************************************************************)
(* Proofs about Library, for every set of collections, files and indexes,  *)
(* whatever fails in the open collection and whenever the process is       *)
(* killed.                                                                 *)
(***************************************************************************)
EXTENDS Library, CollectionDataProofs

-----------------------------------------------------------------------------
(***************************************************************************)
(* The inductive invariant.  The containers of a collection are sound      *)
(* whatever maps an object holds on them; the maps of the manager agree.   *)
(***************************************************************************)
\* No object is open on the containers c.
Unopened(c) == c = Ended(c, c.dbDocMap, c.dbNdxMap)

\* The document map in memory has what the disk has; after ClearColManager it
\* may have more.
Covers(c) == DOMAIN c.dbDocMap \subseteq DOMAIN c.docMap

\* The collections C, of which at most o is open.
Shelved(C, o) == /\ C = [id \in ColId |-> C[id]]
                 /\ \A id \in ColId : Sound(C[id])
                 /\ \A id \in ColId : IF id = o THEN Covers(C[id]) ELSE Unopened(C[id])

\* A map of collections and the records, m and r.
Listed(m, r) ==
    /\ IsMap(m, ColId, ColNum)
    /\ IsMap(r, ColId, ColMeta)
    /\ \A i, j \in DOMAIN m : m[i] = m[j] => i = j
    /\ \A id \in DOMAIN m : id \in DOMAIN r /\ r[id].num = m[id]

Inv == /\ Shelved(cols, open)
       /\ Listed(dbColMap, dbColMeta)
       /\ IsMap(colMap, ColId, ColNum)
       /\ running \in BOOLEAN
       /\ running => colMap = dbColMap
       /\ open \in ColId \cup {NoCol}
       /\ open # NoCol => running

LEMMA UnopenedMaps ==
    ASSUME NEW c, IsCol(c)
    PROVE  LET none == c.docMap = None /\ c.intToDocMap = None /\ c.ndxMap = None
           IN  /\ Unopened(c) => none
               /\ none /\ c = [x \in DOMAIN c |-> c[x]] => Unopened(c)
<1> DEFINE e == Ended(c, c.dbDocMap, c.dbNdxMap)
<1>1. e.docMap = None /\ e.intToDocMap = None /\ e.ndxMap = None
  BY DEF Ended, IsCol
<1>2. ASSUME Unopened(c)
      PROVE  c.docMap = None /\ c.intToDocMap = None /\ c.ndxMap = None
  <2>1. c = e
    BY <1>2 DEF Unopened
  <2> HIDE DEF e
  <2> QED
    BY <1>1, <2>1
<1>3. ASSUME c.docMap = None, c.intToDocMap = None, c.ndxMap = None,
             c = [x \in DOMAIN c |-> c[x]]
      PROVE  Unopened(c)
  <2>1. DOMAIN e = DOMAIN c /\ e = [x \in DOMAIN e |-> e[x]]
    BY DEF Ended
  <2>2. \A x \in DOMAIN c : e[x] = c[x]
    BY <1>3 DEF Ended, IsCol
  <2> HIDE DEF e
  <2>3. c = e
    BY <1>3, <2>1, <2>2
  <2> QED
    BY <2>3 DEF e, Unopened
<1> QED
  BY <1>2, <1>3

LEMMA InvImplies == Inv => TypeOK /\ LibraryAgrees
BY ColAssumption DEF Inv, Shelved, Unopened, Sound, Listed, TypeOK, LibraryAgrees

LEMMA InitInv == Init => Inv
<1> SUFFICES ASSUME Init PROVE Inv
  OBVIOUS
<1>1. Unopened(Empty)
  <2>1. /\ Empty.docMap = None /\ Empty.intToDocMap = None /\ Empty.ndxMap = None
        /\ Empty = [x \in DOMAIN Empty |-> Empty[x]]
    BY DEF Empty
  <2> QED
    BY <2>1, EmptySound, UnopenedMaps DEF Sound
<1>2. Shelved(cols, open)
  <2>1. cols = [id \in ColId |-> Empty]
    BY DEF Init
  <2>2. \A id \in ColId : cols[id] = Empty
    BY <2>1
  <2>3. cols = [id \in ColId |-> cols[id]]
    BY <2>1
  <2>4. Covers(Empty)
    BY DEF Covers, Empty
  <2> QED
    BY <1>1, <2>2, <2>3, <2>4, EmptySound DEF Shelved
<1>3. Listed(dbColMap, dbColMeta) /\ IsMap(colMap, ColId, ColNum)
  <2>1. IsMap(None, ColId, ColNum) /\ IsMap(None, ColId, ColMeta) /\ DOMAIN None = {}
    BY NoneType
  <2> QED
    BY <2>1 DEF Init, Listed
<1> QED
  BY <1>2, <1>3 DEF Init, Inv

-----------------------------------------------------------------------------
(***************************************************************************)
(* The collections.                                                        *)
(***************************************************************************)
\* One collection of the shelf is exchanged for a sound one.
LEMMA Exchange ==
    ASSUME NEW C, NEW o, NEW p, Shelved(C, o), NEW id \in ColId, NEW c, Sound(c),
           IF p = id THEN Covers(c) ELSE Unopened(c),
           \/ p = o
           \/ (p = id \/ p \notin ColId) /\ (o = id \/ o \notin ColId)
    PROVE  Shelved([C EXCEPT ![id] = c], p)
<1> DEFINE D == [C EXCEPT ![id] = c]
<1>1. /\ D = [i \in ColId |-> D[i]]
      /\ D[id] = c
      /\ \A i \in ColId \ {id} : D[i] = C[i]
  BY DEF Shelved
<1> HIDE DEF D
<1>2. Shelved(D, p)
  BY <1>1 DEF Shelved
<1> QED
  BY <1>2 DEF D

\* The open collection is closed.
LEMMA ReleasedShelved ==
    ASSUME Inv
    PROVE  Shelved(Released, NoCol)
<1>1. CASE open = NoCol
  BY <1>1 DEF Inv, Released
<1>2. CASE open # NoCol
  <2> DEFINE c == Closed(cols[open])
  <2>1. open \in ColId /\ Sound(cols[open]) /\ Shelved(cols, open)
    BY <1>2 DEF Inv, Shelved
  <2>2. Sound(c) /\ Unopened(c)
    BY <2>1, ClosedSound DEF Unopened
  <2>3. Released = [cols EXCEPT ![open] = c]
    BY <1>2 DEF Released
  <2>4. NoCol \notin ColId
    BY ColAssumption
  <2> HIDE DEF c
  <2> QED
    BY <2>1, <2>2, <2>3, <2>4, Exchange
<1> QED
  BY <1>1, <1>2

\* The second object that empties a collection leaves the first as it is.
LEMMA EmptiedSound ==
    ASSUME NEW c, Sound(c), NEW r, r = Emptied(c)
    PROVE  /\ Sound(r)
           /\ r.dbDocMap = None
           /\ r.docMap = c.docMap
           /\ Unopened(c) => Unopened(r)
           /\ Covers(r)
<1> DEFINE q1 == Opened(c)
           q2 == Cleared(q1)
           q == Closed(q2)
<1>1. Sound(q1)
  BY OpenedSound
<1>2. q2.docMap = None /\ Sound(q2)
  <2> HIDE DEF q1
  <2>1. Sound(q2)
    BY <1>1, ClearedSound
  <2> QED
    BY <2>1, <1>1 DEF Cleared, Sound, IsCol
<1>3. Sound(q) /\ q.dbDocMap = None
  <2> HIDE DEF q2
  <2> QED
    BY <1>2, ClosedSound
<1>4. r = [q EXCEPT !.docMap = c.docMap,
                    !.intToDocMap = c.intToDocMap,
                    !.ndxMap = c.ndxMap]
  BY DEF Emptied
<1> HIDE DEF q
<1>5. /\ DOMAIN r = DOMAIN q
      /\ r.docMap = c.docMap /\ r.intToDocMap = c.intToDocMap /\ r.ndxMap = c.ndxMap
      /\ r.dbDocMap = q.dbDocMap /\ r.dbNdxMap = q.dbNdxMap
      /\ r.docMeta = q.docMeta /\ r.docDb = q.docDb /\ r.ndx = q.ndx
  BY <1>3, <1>4 DEF Sound, IsCol
<1>6. IsCol(r)
  BY <1>3, <1>5 DEF Sound, IsCol
<1>7. AllStored(r)
  BY <1>3, <1>5 DEF Sound, AllStored, DocStored
<1>8. ASSUME Unopened(c) PROVE Unopened(r)
  <2>1. r = [x \in DOMAIN r |-> r[x]]
    BY <1>4
  <2> QED
    BY <1>5, <1>6, <1>8, <2>1, UnopenedMaps DEF Sound
<1>9. Covers(r)
  BY <1>3, <1>5, NoneType DEF Covers
<1> QED
  BY <1>3, <1>5, <1>6, <1>7, <1>8, <1>9 DEF Sound

\* Every operation of an open collection, in whatever state its maps are.
LEMMA ResultsSound ==
    ASSUME NEW c, Sound(c), Covers(c), NEW r \in Results(c)
    PROVE  Sound(r) /\ Covers(r)
<1>0. IsMap(c.docMap, File, DocNum) /\ IsMap(c.dbDocMap, File, DocNum)
  BY DEF Sound, IsCol
<1>1. ASSUME NEW f \in File, NEW w \in BOOLEAN, NEW d \in DocNum, r \in Adds(c, f, d, w)
      PROVE  Sound(r) /\ Covers(r)
  <2> DEFINE q == Added(c, f, d)
  <2>1. q.docMap = With(c.docMap, f, d) /\ q.dbDocMap = With(c.dbDocMap, f, d)
    BY DEF Added, Sound, IsCol
  <2>2. Covers(q)
    BY <2>1 DEF Covers, With
  <2>3. r \in Indexed(q, d) \/ r = q
    BY <1>1 DEF Adds
  <2>4. q = Added(c, f, d)
    OBVIOUS
  <2> HIDE DEF q
  <2>5. Sound(q) /\ d \in DOMAIN q.docMeta
    BY <2>4, AddedSound
  <2>6. CASE r \in Indexed(q, d)
    BY <2>2, <2>5, <2>6, IndexedKeeps DEF Sound, Covers, SameDocuments
  <2> QED
    BY <2>2, <2>3, <2>5, <2>6
<1>2. ASSUME NEW d \in DocNum, Known(c, d), r \in Indexed(c, d)
      PROVE  Sound(r) /\ Covers(r)
  BY <1>2, IndexedKeeps DEF Known, Sound, Covers, SameDocuments
<1>3. ASSUME NEW d \in DocNum, Known(c, d)
      PROVE  LET q == IndexRemoved(c, d)
             IN  /\ Sound(q) /\ Covers(q)
                 /\ q.docMap = c.docMap /\ q.dbDocMap = c.dbDocMap
  BY <1>3, IndexRemovedKeeps, IndexRemovedStored DEF Known, Sound, Covers, SameDocuments
<1>4. ASSUME NEW d \in DocNum, Known(c, d), r = Removed(c, d)
      PROVE  Sound(r) /\ Covers(r)
  <2> DEFINE q == IndexRemoved(c, d)
             f == c.intToDocMap[d]
  <2>1. Sound(q) /\ q.docMap = c.docMap /\ q.dbDocMap = c.dbDocMap
    BY <1>3, <1>4
  <2>2. r = [q EXCEPT !.docMap = Without(@, f), !.intToDocMap = Without(@, d),
                      !.docMeta = Without(@, d), !.dbDocMap = Without(@, f)]
    BY <1>4 DEF Removed
  <2> HIDE DEF q, f
  <2>3. r.docMap = Without(c.docMap, f) /\ r.dbDocMap = Without(c.dbDocMap, f)
    BY <2>1, <2>2 DEF Sound, IsCol
  <2>4. Covers(r)
    BY <2>3 DEF Covers, Without
  <2> QED
    BY <1>4, <2>4, RemovedSound DEF Known
<1>5. ASSUME NEW d \in DocNum, Known(c, d), NEW f \in File, r = Replaced(c, d, f)
      PROVE  Sound(r) /\ Covers(r)
  <2> DEFINE q == IndexRemoved(c, d)
             old == c.docMeta[d].file
             m == Without(c.docMap, old)
             n == Without(c.dbDocMap, old)
  <2>1. Sound(q) /\ q.docMap = c.docMap /\ q.dbDocMap = c.dbDocMap
    BY <1>3, <1>5
  <2>2. r = [q EXCEPT !.docMap = With(Without(@, old), f, d),
                      !.intToDocMap = With(@, d, f),
                      !.dbDocMap = With(Without(@, old), f, d),
                      !.docMeta[d].file = f]
    BY <1>5 DEF Replaced
  <2>3. DOMAIN n \subseteq DOMAIN m
    BY DEF Covers, Without
  <2> HIDE DEF q, old
  <2>4. r.docMap = With(m, f, d) /\ r.dbDocMap = With(n, f, d)
    BY <2>1, <2>2 DEF Sound, IsCol
  <2> HIDE DEF m, n
  <2>5. Covers(r)
    BY <2>3, <2>4 DEF Covers, With
  <2> QED
    BY <1>5, <2>5, ReplacedSound DEF Known
<1>6. CASE r = Cleared(c)
  <2>1. Sound(r) /\ r.dbDocMap = None
    BY <1>6, ClearedSound
  <2> QED
    BY <2>1, NoneType DEF Covers
<1>7. \/ \E f \in File, w \in BOOLEAN, d \in DocNum : r \in Adds(c, f, d, w)
      \/ \E d \in DocNum : Known(c, d) /\ r \in Indexed(c, d)
      \/ \E d \in DocNum : Known(c, d) /\ r = IndexRemoved(c, d)
      \/ \E d \in DocNum : Known(c, d) /\ r = Removed(c, d)
      \/ \E d \in DocNum, f \in File : Known(c, d) /\ r = Replaced(c, d, f)
      \/ r = Cleared(c)
  <2> DEFINE New == File \ DOMAIN c.docMap
             Old == {d \in DocNum : Known(c, d)}
             A == UNION {Adds(c, f, d, w) : f \in New, w \in BOOLEAN,
                                            d \in {n \in DocNum : IsNextDocNum(c, n)}}
             B == UNION {Indexed(c, d) \cup {IndexRemoved(c, d), Removed(c, d)} : d \in Old}
             R == {Replaced(c, d, f) : d \in Old, f \in New}
  <2>1. r \in A \/ r \in B \/ r \in R \/ r = Cleared(c)
    BY DEF Results
  <2> QED
    BY <2>1
<1>8. ASSUME NEW d \in DocNum, Known(c, d), r = IndexRemoved(c, d)
      PROVE  Sound(r) /\ Covers(r)
  BY <1>3, <1>8
<1> QED
  BY <1>1, <1>2, <1>4, <1>5, <1>6, <1>7, <1>8

-----------------------------------------------------------------------------
(***************************************************************************)
(* One lemma for each action.                                              *)
(***************************************************************************)
LEMMA FinishInv == ASSUME Inv, Finish PROVE Inv'
<1>1. Shelved(cols', open')
  BY ReleasedShelved DEF Finish
<1> QED
  BY <1>1, NoneType DEF Finish, Inv, Listed

LEMMA KilledInv == ASSUME Inv, Killed PROVE Inv'
<1>1. /\ running' = FALSE /\ open' = NoCol /\ colMap' = None
      /\ dbColMeta' = dbColMeta /\ colMap = dbColMap
      /\ IsMap(None, ColId, ColNum)
  BY NoneType DEF Killed, Inv
<1>2. Listed(dbColMap, dbColMeta)
  BY DEF Inv
<1>3. CASE /\ dbColMap' \in {Restrict(colMap, S) : S \in SUBSET DOMAIN colMap}
           /\ cols' = [id \in ColId |-> Ended(cols[id], cols[id].dbDocMap, cols[id].dbNdxMap)]
  <2>1. Listed(dbColMap', dbColMeta')
    <3>1. PICK S \in SUBSET DOMAIN colMap : dbColMap' = Restrict(colMap, S)
      BY <1>3
    <3>2. /\ IsMap(dbColMap', ColId, ColNum)
          /\ DOMAIN dbColMap' = S
          /\ \A id \in S : dbColMap'[id] = colMap[id]
      BY <3>1, RestrictType DEF Inv
    <3> QED
      BY <1>1, <1>2, <3>2 DEF Listed
  <2>2. \A id \in ColId : Sound(cols'[id]) /\ Unopened(cols'[id])
    <3> SUFFICES ASSUME NEW id \in ColId PROVE Sound(cols'[id]) /\ Unopened(cols'[id])
      OBVIOUS
    <3> DEFINE c == cols[id]
               docs == c.dbDocMap
               ndxs == c.dbNdxMap
               r == cols'[id]
    <3>1. Sound(c) /\ r = Ended(c, docs, ndxs)
      BY <1>3 DEF Inv, Shelved
    <3>2. IsMap(docs, File, DocNum) /\ IsMap(ndxs, NdxName, Nat)
      BY <3>1 DEF Sound, IsCol
    <3> HIDE DEF c, docs, ndxs, r
    <3>3. Sound(r) /\ r = Ended(r, r.dbDocMap, r.dbNdxMap)
      BY <3>1, <3>2, EndedSound
    <3> QED
      BY <3>3 DEF r, Unopened
  <2>3. NoCol \notin ColId
    BY ColAssumption
  <2>4. Shelved(cols', open')
    BY <1>1, <1>3, <2>2, <2>3 DEF Shelved
  <2> QED
    BY <1>1, <2>1, <2>4 DEF Inv
<1>4. CASE /\ dbColMap' = colMap
           /\ open # NoCol
           /\ cols' \in {[cols EXCEPT ![open] = c] : c \in Cut(cols[open])}
  <2>1. PICK c \in Cut(cols[open]) : cols' = [cols EXCEPT ![open] = c]
    BY <1>4
  <2>2. open \in ColId /\ Shelved(cols, open) /\ Sound(cols[open])
    BY <1>4 DEF Inv, Shelved
  <2>3. Sound(c) /\ Unopened(c)
    BY <2>2, CutSound DEF Unopened
  <2>4. NoCol \notin ColId
    BY ColAssumption
  <2>5. Shelved([cols EXCEPT ![open] = c], NoCol)
    BY <2>2, <2>3, <2>4, Exchange
  <2> QED
    BY <1>1, <1>2, <1>4, <2>1, <2>5 DEF Inv
<1> QED
  BY <1>3, <1>4 DEF Killed

\* The list and the records with a collection added, retitled or removed.
LEMMA ListedWith ==
    ASSUME NEW m, NEW r, Listed(m, r), NEW id \in ColId, NEW n \in ColNum, NEW t \in Title,
           \A i \in DOMAIN m : i # id => m[i] # n
    PROVE  Listed(With(m, id, n), With(r, id, [num |-> n, title |-> t]))
<1> DEFINE e == [num |-> n, title |-> t]
           m2 == With(m, id, n)
           r2 == With(r, id, e)
<1>1. e \in ColMeta /\ e.num = n
  BY DEF ColMeta
<1>2. IsMap(m, ColId, ColNum) /\ IsMap(r, ColId, ColMeta)
  BY DEF Listed
<1> HIDE DEF e
<1>3. /\ IsMap(m2, ColId, ColNum)
      /\ DOMAIN m2 = DOMAIN m \cup {id}
      /\ m2[id] = n
      /\ \A i \in DOMAIN m : i # id => m2[i] = m[i]
  BY <1>2 DEF With, IsMap
<1>4. /\ IsMap(r2, ColId, ColMeta)
      /\ DOMAIN r2 = DOMAIN r \cup {id}
      /\ r2[id] = e
      /\ \A i \in DOMAIN r : i # id => r2[i] = r[i]
  BY <1>1, <1>2 DEF With, IsMap
<1> HIDE DEF m2, r2
<1>5. Listed(m2, r2)
  BY <1>1, <1>3, <1>4 DEF Listed
<1> QED
  BY <1>5 DEF m2, r2, e

LEMMA ListedWithout ==
    ASSUME NEW m, NEW r, Listed(m, r), NEW id
    PROVE  Listed(Without(m, id), Without(r, id))
<1> DEFINE m2 == Without(m, id)
           r2 == Without(r, id)
<1>1. /\ IsMap(m2, ColId, ColNum)
      /\ DOMAIN m2 = DOMAIN m \ {id}
      /\ \A i \in DOMAIN m : i # id => m2[i] = m[i]
  BY DEF Listed, Without, IsMap
<1>2. /\ IsMap(r2, ColId, ColMeta)
      /\ DOMAIN r2 = DOMAIN r \ {id}
      /\ \A i \in DOMAIN r : i # id => r2[i] = r[i]
  BY DEF Listed, Without, IsMap
<1> HIDE DEF m2, r2
<1>3. Listed(m2, r2)
  BY <1>1, <1>2 DEF Listed
<1> QED
  BY <1>3 DEF m2, r2

LEMMA AddCollectionInv ==
    ASSUME Inv, NEW id \in ColId, NEW title \in Title, NEW n \in ColNum,
           AddCollection(id, title, n)
    PROVE  Inv'
<1>1. /\ running /\ UNCHANGED <<cols, open, running>>
      /\ colMap = dbColMap
      /\ Listed(dbColMap, dbColMeta)
  BY DEF AddCollection, Inv
<1>2. \A i \in DOMAIN dbColMap : dbColMap[i] # n
  <2> TAKE i \in DOMAIN dbColMap
  <2>1. dbColMap[i] \in Range(colMap) /\ dbColMap[i] \in Nat
    BY <1>1 DEF Range, Listed, IsMap, ColNum
  <2> QED
    BY <2>1 DEF AddCollection, IsNextColNum, ColNum
<1>3. Listed(dbColMap', dbColMeta')
  BY <1>1, <1>2, ListedWith DEF AddCollection
<1>4. colMap' = dbColMap'
  BY <1>1 DEF AddCollection
<1> QED
  BY <1>1, <1>3, <1>4 DEF Inv, Listed

LEMMA SetCollectionMetaInv ==
    ASSUME Inv, NEW id \in ColId, NEW title \in Title, SetCollectionMeta(id, title)
    PROVE  Inv'
<1> DEFINE n == dbColMap[id]
<1>1. /\ UNCHANGED <<cols, colMap, dbColMap, open, running>>
      /\ id \in DOMAIN dbColMap
      /\ dbColMeta' = With(dbColMeta, id, [num |-> n, title |-> title])
      /\ Listed(dbColMap, dbColMeta)
  BY DEF SetCollectionMeta, Inv
<1>2. n \in ColNum /\ \A i \in DOMAIN dbColMap : i # id => dbColMap[i] # n
  BY <1>1 DEF Listed, IsMap
<1>3. dbColMap = With(dbColMap, id, n)
  BY <1>1 DEF Listed, IsMap, With
<1> HIDE DEF n
<1>4. Listed(With(dbColMap, id, n), dbColMeta')
  BY <1>1, <1>2, ListedWith
<1>5. Listed(dbColMap', dbColMeta')
  BY <1>1, <1>3, <1>4
<1> QED
  BY <1>1, <1>5 DEF Inv

LEMMA RemoveCollectionInv ==
    ASSUME Inv, NEW id \in ColId, RemoveCollection(id)
    PROVE  Inv'
<1> DEFINE c == IF open = id THEN Closed(cols[id]) ELSE cols[id]
           r == Emptied(c)
<1>1. /\ running /\ running' = running
      /\ cols' = [cols EXCEPT ![id] = r]
      /\ open' = IF open = id THEN NoCol ELSE open
      /\ colMap' = Without(colMap, id)
      /\ dbColMap' = Without(dbColMap, id)
      /\ dbColMeta' = Without(dbColMeta, id)
      /\ colMap = dbColMap
      /\ Listed(dbColMap, dbColMeta)
      /\ Shelved(cols, open)
  BY DEF RemoveCollection, Inv
<1>2. Sound(c) /\ Unopened(c)
  <2>1. CASE open = id
    <3>1. Sound(cols[id])
      BY <1>1 DEF Shelved
    <3> QED
      BY <2>1, <3>1, ClosedSound DEF Unopened
  <2>2. CASE open # id
    BY <1>1, <2>2 DEF Shelved
  <2> QED
    BY <2>1, <2>2
<1>3. Sound(r) /\ Unopened(r)
  <2> HIDE DEF c
  <2> QED
    BY <1>2, EmptiedSound
<1> HIDE DEF r
<1>4. Shelved(cols', open')
  <2>1. /\ open' = open \/ (open' \notin ColId /\ open = id)
        /\ open' # id
    BY <1>1, ColAssumption
  <2> QED
    BY <1>1, <1>3, <2>1, Exchange
<1>5. Listed(dbColMap', dbColMeta')
  BY <1>1, ListedWithout
<1> QED
  BY <1>1, <1>4, <1>5 DEF Inv, Listed

LEMMA RemoveUnknownInv ==
    ASSUME Inv, NEW id \in ColId, RemoveUnknown(id)
    PROVE  Inv'
<1>1. Shelved(cols', open')
  BY ReleasedShelved DEF RemoveUnknown
<1> QED
  BY <1>1 DEF RemoveUnknown, Inv

LEMMA ClearColManagerInv == ASSUME Inv, ClearColManager PROVE Inv'
<1>1. Shelved(cols, open)
  BY DEF Inv
<1>2. \A id \in ColId : /\ Sound(cols'[id])
                        /\ IF id = open THEN Covers(cols'[id]) ELSE Unopened(cols'[id])
  <2> SUFFICES ASSUME NEW id \in ColId
               PROVE  /\ Sound(cols'[id])
                      /\ IF id = open THEN Covers(cols'[id]) ELSE Unopened(cols'[id])
    OBVIOUS
  <2> DEFINE c == cols[id]
             r == Emptied(c)
  <2>1. /\ Sound(c)
        /\ IF id = open THEN Covers(c) ELSE Unopened(c)
        /\ cols'[id] \in {c, r}
    BY <1>1 DEF Shelved, ClearColManager
  <2>2. Sound(r) /\ (Unopened(c) => Unopened(r)) /\ Covers(r)
    BY <2>1, EmptiedSound
  <2> HIDE DEF c, r
  <2> QED
    BY <2>1, <2>2
<1>3. Shelved(cols', open')
  BY <1>2 DEF Shelved, ClearColManager
<1>4. Listed(dbColMap', dbColMeta') /\ IsMap(colMap', ColId, ColNum)
  <2>1. IsMap(None, ColId, ColNum) /\ IsMap(None, ColId, ColMeta) /\ DOMAIN None = {}
    BY NoneType
  <2> QED
    BY <2>1 DEF ClearColManager, Listed
<1> QED
  BY <1>3, <1>4 DEF ClearColManager, Inv

LEMMA OpenCollectionInv ==
    ASSUME Inv, NEW id \in ColId, OpenCollection(id)
    PROVE  Inv'
<1>1. Shelved(Released, NoCol)
  BY ReleasedShelved
<1>2. CASE open' = id /\ cols' = [Released EXCEPT ![id] = Opened(@)]
  <2> DEFINE c == Released[id]
             r == Opened(c)
  <2>1. Sound(c)
    BY <1>1 DEF Shelved
  <2>2. Sound(r) /\ Covers(r)
    <3>1. r.docMap = c.dbDocMap /\ r.dbDocMap = c.dbDocMap
      BY <2>1 DEF Opened, Sound, IsCol
    <3> HIDE DEF c
    <3> QED
      BY <2>1, <3>1, OpenedSound DEF Covers
  <2>3. cols' = [Released EXCEPT ![id] = r]
    BY <1>2
  <2> HIDE DEF r
  <2>4. NoCol \notin ColId
    BY ColAssumption
  <2>5. Shelved([Released EXCEPT ![id] = r], id)
    BY <1>1, <2>2, <2>4, Exchange
  <2>6. Shelved(cols', open')
    BY <1>2, <2>3, <2>5
  <2> QED
    BY <1>2, <2>6 DEF OpenCollection, Inv
<1>3. CASE open' = NoCol /\ cols' = Released
  BY <1>1, <1>3 DEF OpenCollection, Inv
<1> QED
  BY <1>2, <1>3 DEF OpenCollection

LEMMA UseCollectionInv == ASSUME Inv, UseCollection PROVE Inv'
<1>1. PICK c \in Results(cols[open]) : cols' = [cols EXCEPT ![open] = c]
  BY DEF UseCollection
<1>2. open \in ColId /\ Shelved(cols, open) /\ Sound(cols[open]) /\ Covers(cols[open])
  BY DEF UseCollection, Inv, Shelved
<1>3. Sound(c) /\ Covers(c)
  BY <1>2, ResultsSound
<1>4. Shelved(cols', open)
  BY <1>1, <1>2, <1>3, Exchange
<1> QED
  BY <1>4 DEF UseCollection, Inv

LEMMA NextInv == Inv /\ [Next]_vars => Inv'
<1> SUFFICES ASSUME Inv, [Next]_vars PROVE Inv'
  OBVIOUS
<1>1. CASE Start
  BY <1>1 DEF Start, Inv, Listed
<1>2. CASE Finish
  BY <1>2, FinishInv
<1>3. CASE Killed
  BY <1>3, KilledInv
<1>4. ASSUME NEW id \in ColId, NEW title \in Title, NEW n \in ColNum,
             AddCollection(id, title, n)
      PROVE  Inv'
  BY <1>4, AddCollectionInv
<1>5. ASSUME NEW id \in ColId, RemoveCollection(id) PROVE Inv'
  BY <1>5, RemoveCollectionInv
<1>6. ASSUME NEW id \in ColId, RemoveUnknown(id) PROVE Inv'
  BY <1>6, RemoveUnknownInv
<1>7. ASSUME NEW id \in ColId, NEW title \in Title, SetCollectionMeta(id, title) PROVE Inv'
  BY <1>7, SetCollectionMetaInv
<1>8. CASE ClearColManager
  BY <1>8, ClearColManagerInv
<1>9. ASSUME NEW id \in ColId, OpenCollection(id) PROVE Inv'
  BY <1>9, OpenCollectionInv
<1>10. CASE UseCollection
  BY <1>10, UseCollectionInv
<1>11. CASE UNCHANGED vars
  BY <1>11 DEF vars, Inv
<1> QED
  BY <1>1, <1>2, <1>3, <1>4, <1>5, <1>6, <1>7, <1>8, <1>9, <1>10, <1>11 DEF Next

LEMMA InvHolds == Spec => []Inv
BY InitInv, NextInv, PTL DEF Spec

-----------------------------------------------------------------------------
(***************************************************************************)
(* The theorems.                                                           *)
(***************************************************************************)
\* The maps, records and containers of all collections keep their types.
THEOREM TypeCorrect == Spec => []TypeOK
BY InvHolds, InvImplies, PTL

\* ColManager.cpp: the list of collections, its copy on disk and the records
\* agree, numbers are told apart, and only the open collection has maps in
\* memory, whatever is killed and however collections are opened, emptied and
\* removed behind one another's back.
THEOREM LibraryAlwaysAgrees == Spec => []LibraryAgrees
BY InvHolds, InvImplies, PTL

-----------------------------------------------------------------------------
(***************************************************************************)
(* Library implements Shelf: the initial states and the steps, one lemma   *)
(* for each action of Library that names the action of Shelf it is.        *)
(***************************************************************************)
\* The variables of Shelf.
Titles == [id \in DOMAIN ColMap |-> dbColMeta[id].title]
Files == [id \in ColId |-> DOMAIN DocMapOf(id)]
Strays == {id \in ColId \ DOMAIN ColMap : open = id \/ DOMAIN DocMapOf(id) # {}}

LEMMA ShelfInit == Init => Collections!Init
<1> SUFFICES ASSUME Init PROVE Collections!Init
  OBVIOUS
<1>1. DOMAIN ColMap = {} /\ DOMAIN None = {}
  BY DEF Init, ColMap, None
<1>2. \A id \in ColId : DOMAIN DocMapOf(id) = {} /\ open # id
  <2> TAKE id \in ColId
  <2>1. open # id
    BY ColAssumption DEF Init
  <2>2. cols[id].dbDocMap = None
    BY DEF Init, Empty
  <2> QED
    BY <1>1, <2>1, <2>2 DEF DocMapOf
<1> HIDE DEF ColMap
<1>3. Titles = [i \in {} |-> 0]
  BY <1>1 DEF Titles
<1>4. Files = [id \in ColId |-> {}]
  BY <1>2 DEF Files
<1>5. Strays = {}
  BY <1>2 DEF Strays
<1> QED
  BY <1>3, <1>4, <1>5 DEF Collections!Init, Titles, Files, Strays

\* The mapping, with the invariant.
MapFacts ==
    /\ Titles = [id \in DOMAIN dbColMap |-> dbColMeta[id].title]
    /\ DOMAIN Titles = DOMAIN dbColMap
    /\ Files \in [ColId -> SUBSET File]
    /\ \A id \in ColId : Files[id] = IF open = id THEN DOMAIN cols[id].docMap
                                                 ELSE DOMAIN cols[id].dbDocMap
    /\ Strays = {id \in ColId \ DOMAIN Titles : open = id \/ Files[id] # {}}

LEMMA Mapped == Inv => MapFacts
<1> SUFFICES ASSUME Inv PROVE MapFacts
  OBVIOUS
<1>1. ColMap = dbColMap
  BY DEF Inv, ColMap
<1>2. \A id \in ColId : /\ DOMAIN cols[id].docMap \subseteq File
                        /\ DOMAIN cols[id].dbDocMap \subseteq File
  BY DEF Inv, Shelved, Sound, IsCol, IsMap
<1> HIDE DEF ColMap
<1>3. \A id \in ColId : Files[id] = IF open = id THEN DOMAIN cols[id].docMap
                                                  ELSE DOMAIN cols[id].dbDocMap
  BY DEF Files, DocMapOf
<1>4. \A id \in ColId : Files[id] = DOMAIN DocMapOf(id)
  BY DEF Files
<1>5. Files \in [ColId -> SUBSET File]
  BY <1>2 DEF Files, DocMapOf
<1> HIDE DEF Files
<1>6. Strays = {id \in ColId \ DOMAIN Titles : open = id \/ Files[id] # {}}
  BY <1>4 DEF Strays, Titles
<1> QED
  BY <1>1, <1>3, <1>5, <1>6 DEF Titles, MapFacts

LEMMA MappedNext == Inv' => MapFacts'
BY Mapped, PTL

ShelfStep == [Collections!Next]_(Collections!vars)

\* A step that changes neither list nor documents: Forget, or no step.
LEMMA SameListStep ==
    ASSUME MapFacts, MapFacts', UNCHANGED <<dbColMap, dbColMeta>>,
           \A id \in ColId : Files'[id] = Files[id],
           open' = open \/ open' \notin ColId \/ open' \in DOMAIN dbColMap
    PROVE  ShelfStep
<1>1. Titles' = Titles /\ Files' = Files
  BY DEF MapFacts
<1>2. CASE open' = open
  <2>1. Strays' = Strays
    BY <1>1, <1>2 DEF MapFacts
  <2> QED
    BY <1>1, <2>1 DEF ShelfStep, Collections!vars, Titles, Files, Strays
<1>3. CASE open' # open
  <2>1. Strays' = {id \in Strays : Files[id] # {}}
    <3>1. Strays' = {id \in ColId \ DOMAIN Titles : open' = id \/ Files[id] # {}}
      BY <1>1 DEF MapFacts
    <3>2. \A id \in ColId \ DOMAIN Titles : open' # id
      BY <1>3 DEF MapFacts
    <3> QED
      BY <3>1, <3>2 DEF MapFacts
  <2>2. Collections!Forget
    BY <1>1, <2>1 DEF Collections!Forget, Titles, Files, Strays
  <2> QED
    BY <2>2 DEF ShelfStep, Collections!Next
<1> QED
  BY <1>2, <1>3

\* Closing the open collection keeps its documents.
LEMMA ReleasedFiles ==
    ASSUME Inv
    PROVE  \A id \in ColId : DOMAIN Released[id].dbDocMap = Files[id]
<1> SUFFICES ASSUME NEW id \in ColId PROVE DOMAIN Released[id].dbDocMap = Files[id]
  OBVIOUS
<1>0. MapFacts
  BY Mapped
<1>1. CASE open = id
  <2> DEFINE c == Closed(cols[id])
  <2>1. Sound(cols[id]) /\ cols = [i \in ColId |-> cols[i]]
    BY DEF Inv, Shelved
  <2>2. c.dbDocMap = cols[id].docMap
    BY <2>1, ClosedSound
  <2>3. Released[id] = c
    BY <1>1, <2>1, ColAssumption DEF Released
  <2> QED
    BY <1>0, <1>1, <2>2, <2>3 DEF MapFacts
<1>2. CASE open # id
  <2>1. Released[id] = cols[id]
    BY <1>2 DEF Released, Inv, Shelved
  <2> QED
    BY <1>0, <1>2, <2>1 DEF MapFacts
<1> QED
  BY <1>1, <1>2

LEMMA StartStep == ASSUME Inv, Inv', Start PROVE ShelfStep
<1>1. MapFacts /\ MapFacts'
  BY Mapped, MappedNext
<1>2. UNCHANGED <<cols, dbColMap, dbColMeta, open>>
  BY DEF Start
<1>3. \A id \in ColId : Files'[id] = Files[id]
  BY <1>1, <1>2 DEF MapFacts
<1> QED
  BY <1>1, <1>2, <1>3, SameListStep

\* The open collection, if any, is closed, and no other opened.
LEMMA ReleasingStep ==
    ASSUME Inv, Inv', UNCHANGED <<dbColMap, dbColMeta>>, cols' = Released, open' = NoCol
    PROVE  ShelfStep
<1>1. MapFacts /\ MapFacts' /\ open' \notin ColId
  BY Mapped, MappedNext, ColAssumption
<1>2. \A id \in ColId : Files'[id] = Files[id]
  BY <1>1, ReleasedFiles DEF MapFacts
<1> QED
  BY <1>1, <1>2, SameListStep

LEMMA OpenCollectionStep ==
    ASSUME Inv, Inv', NEW id \in ColId, OpenCollection(id)
    PROVE  ShelfStep
<1>1. CASE cols' = Released /\ open' = NoCol
  BY <1>1, ReleasingStep DEF OpenCollection
<1>2. CASE /\ id \in DOMAIN colMap
           /\ cols' = [Released EXCEPT ![id] = Opened(@)]
           /\ open' = id
  <2>1. /\ MapFacts /\ MapFacts'
        /\ UNCHANGED <<dbColMap, dbColMeta>>
        /\ id \in DOMAIN dbColMap
    BY <1>2, Mapped, MappedNext DEF OpenCollection, Inv
  <2> DEFINE c == Released[id]
             r == Opened(c)
  <2>2. Shelved(Released, NoCol)
    BY ReleasedShelved
  <2>3. r.docMap = c.dbDocMap
    BY <2>2 DEF Opened, Shelved, Sound, IsCol
  <2>4. cols'[id] = r /\ \A i \in ColId \ {id} : cols'[i] = Released[i]
    BY <1>2, <2>2 DEF Shelved
  <2> HIDE DEF r
  <2>5. \A i \in ColId : Files'[i] = Files[i]
    <3> TAKE i \in ColId
    <3>1. Files[i] = DOMAIN Released[i].dbDocMap
      BY ReleasedFiles
    <3>2. Files'[i] = IF id = i THEN DOMAIN cols'[i].docMap ELSE DOMAIN cols'[i].dbDocMap
      BY <1>2, <2>1 DEF MapFacts
    <3> QED
      BY <2>3, <2>4, <3>1, <3>2
  <2> QED
    BY <1>2, <2>1, <2>5, SameListStep
<1> QED
  BY <1>1, <1>2 DEF OpenCollection

LEMMA AddCollectionStep ==
    ASSUME Inv, Inv', NEW id \in ColId, NEW title \in Title, NEW n \in ColNum,
           AddCollection(id, title, n)
    PROVE  ShelfStep
<1>1. /\ MapFacts /\ MapFacts'
      /\ id \notin DOMAIN dbColMap
      /\ IsMap(dbColMeta, ColId, ColMeta)
      /\ DOMAIN dbColMap \subseteq DOMAIN dbColMeta
      /\ UNCHANGED <<cols, open>>
  BY Mapped, MappedNext DEF AddCollection, Inv, Listed
<1>2. /\ DOMAIN dbColMap' = DOMAIN dbColMap \cup {id}
      /\ dbColMeta'[id].title = title
      /\ \A i \in DOMAIN dbColMap : dbColMeta'[i] = dbColMeta[i]
  <2> DEFINE e == [num |-> n, title |-> title]
  <2>1. dbColMeta' = With(dbColMeta, id, e) /\ dbColMap' = With(dbColMap, id, n)
    BY DEF AddCollection
  <2>2. e.title = title
    OBVIOUS
  <2> HIDE DEF e
  <2> QED
    BY <1>1, <2>1, <2>2 DEF With
<1>3. Files' = Files
  BY <1>1 DEF MapFacts
<1>4. Titles' = [i \in DOMAIN Titles \cup {id} |-> IF i = id THEN title ELSE Titles[i]]
  <2>1. Titles' = [i \in DOMAIN dbColMap \cup {id} |-> dbColMeta'[i].title]
    BY <1>1, <1>2 DEF MapFacts
  <2>2. \A i \in DOMAIN dbColMap \cup {id} :
            dbColMeta'[i].title = IF i = id THEN title ELSE Titles[i]
    BY <1>1, <1>2 DEF MapFacts
  <2> QED
    BY <1>1, <2>1, <2>2 DEF MapFacts
<1>5. Strays' = Strays \ {id}
  BY <1>1, <1>2, <1>3 DEF MapFacts
<1>6. id \notin DOMAIN Titles
  BY <1>1 DEF MapFacts
<1>7. Collections!Add(id, title)
  BY <1>3, <1>4, <1>5, <1>6 DEF Collections!Add, Collections!Titled, Titles, Files, Strays
<1> QED
  BY <1>7 DEF ShelfStep, Collections!Next

LEMMA SetCollectionMetaStep ==
    ASSUME Inv, Inv', NEW id \in ColId, NEW title \in Title, SetCollectionMeta(id, title)
    PROVE  ShelfStep
<1>1. /\ MapFacts /\ MapFacts'
      /\ id \in DOMAIN dbColMap
      /\ DOMAIN dbColMap \subseteq DOMAIN dbColMeta
      /\ UNCHANGED <<cols, dbColMap, open>>
  BY Mapped, MappedNext DEF SetCollectionMeta, Inv, Listed
<1>2. /\ dbColMeta'[id].title = title
      /\ \A i \in DOMAIN dbColMap \ {id} : dbColMeta'[i] = dbColMeta[i]
  <2> DEFINE e == [num |-> colMap[id], title |-> title]
  <2>1. dbColMeta' = With(dbColMeta, id, e)
    BY DEF SetCollectionMeta
  <2>2. e.title = title
    OBVIOUS
  <2> HIDE DEF e
  <2> QED
    BY <1>1, <2>1, <2>2 DEF With
<1>3. Files' = Files
  BY <1>1 DEF MapFacts
<1>4. Titles' = [i \in DOMAIN Titles \cup {id} |-> IF i = id THEN title ELSE Titles[i]]
  <2>1. Titles' = [i \in DOMAIN dbColMap |-> dbColMeta'[i].title]
    BY <1>1 DEF MapFacts
  <2>2. \A i \in DOMAIN dbColMap :
            dbColMeta'[i].title = IF i = id THEN title ELSE Titles[i]
    BY <1>1, <1>2 DEF MapFacts
  <2>3. DOMAIN dbColMap = DOMAIN Titles \cup {id}
    BY <1>1 DEF MapFacts
  <2> QED
    BY <2>1, <2>2, <2>3
<1>5. Strays' = Strays
  BY <1>1, <1>3 DEF MapFacts
<1>6. id \in DOMAIN Titles
  BY <1>1 DEF MapFacts
<1>7. Collections!Retitle(id, title)
  BY <1>3, <1>4, <1>5, <1>6 DEF Collections!Retitle, Collections!Titled, Titles, Files, Strays
<1> QED
  BY <1>7 DEF ShelfStep, Collections!Next

LEMMA RemoveCollectionStep ==
    ASSUME Inv, Inv', NEW id \in ColId, RemoveCollection(id)
    PROVE  ShelfStep
<1> DEFINE c == IF open = id THEN Closed(cols[id]) ELSE cols[id]
           r == Emptied(c)
<1>1. /\ MapFacts /\ MapFacts'
      /\ id \in DOMAIN dbColMap
      /\ DOMAIN dbColMap \subseteq DOMAIN dbColMeta
      /\ cols' = [cols EXCEPT ![id] = r]
      /\ open' = IF open = id THEN NoCol ELSE open
      /\ dbColMap' = Without(dbColMap, id)
      /\ dbColMeta' = Without(dbColMeta, id)
      /\ Shelved(cols, open)
  BY Mapped, MappedNext DEF RemoveCollection, Inv, Listed
<1>2. r.dbDocMap = None
  <2>1. Sound(c)
    BY <1>1, ClosedSound DEF Shelved
  <2> HIDE DEF c
  <2> QED
    BY <2>1, EmptiedSound
<1> HIDE DEF r
<1>3. /\ cols'[id] = r
      /\ \A i \in ColId \ {id} : cols'[i] = cols[i]
      /\ open' # id
      /\ \A i \in ColId \ {id} : open' = i <=> open = i
  BY <1>1, ColAssumption DEF Shelved
<1>4. \A i \in ColId : Files'[i] = IF i = id THEN {} ELSE Files[i]
  <2>1. DOMAIN None = {}
    BY NoneType
  <2>2. Files'[id] = DOMAIN cols'[id].dbDocMap
    BY <1>1, <1>3 DEF MapFacts
  <2>3. \A i \in ColId \ {id} : Files'[i] = Files[i]
    BY <1>1, <1>3 DEF MapFacts
  <2> QED
    BY <1>2, <1>3, <2>1, <2>2, <2>3
<1>5. Files' = [Files EXCEPT ![id] = {}]
  BY <1>1, <1>4 DEF MapFacts
<1>6. Titles' = [i \in DOMAIN Titles \ {id} |-> Titles[i]]
  <2>1. /\ DOMAIN dbColMap' = DOMAIN dbColMap \ {id}
        /\ \A i \in DOMAIN dbColMap \ {id} : dbColMeta'[i] = dbColMeta[i]
    BY <1>1 DEF Without
  <2> QED
    BY <1>1, <2>1 DEF MapFacts
<1>7. Strays' = Strays
  <2>1. DOMAIN Titles' = DOMAIN Titles \ {id} /\ id \in DOMAIN Titles
    BY <1>1, <1>6 DEF MapFacts
  <2>2. Strays' = {i \in ColId \ DOMAIN Titles' : open' = i \/ Files'[i] # {}}
    BY <1>1 DEF MapFacts
  <2>3. Strays = {i \in ColId \ DOMAIN Titles : open = i \/ Files[i] # {}}
    BY <1>1 DEF MapFacts
  <2> QED
    BY <1>3, <1>4, <2>1, <2>2, <2>3
<1>8. id \in DOMAIN Titles
  BY <1>1 DEF MapFacts
<1>9. Collections!Remove(id)
  BY <1>5, <1>6, <1>7, <1>8 DEF Collections!Remove, Titles, Files, Strays
<1> QED
  BY <1>9 DEF ShelfStep, Collections!Next

LEMMA ClearColManagerStep ==
    ASSUME Inv, Inv', ClearColManager
    PROVE  ShelfStep
<1> DEFINE Open == {open} \cap ColId
<1>1. /\ MapFacts /\ MapFacts'
      /\ colMap = dbColMap
      /\ dbColMap' = None /\ DOMAIN None = {}
      /\ open' = open
      /\ Shelved(cols, open)
  BY Mapped, MappedNext, NoneType DEF ClearColManager, Inv
<1>2. \A id \in ColId : Files'[id] = IF id \in DOMAIN Titles \ Open THEN {} ELSE Files[id]
  <2> SUFFICES ASSUME NEW id \in ColId
               PROVE  Files'[id] = IF id \in DOMAIN Titles \ Open THEN {} ELSE Files[id]
    OBVIOUS
  <2> DEFINE c == cols[id]
             r == Emptied(c)
  <2>1. Sound(c)
    BY <1>1 DEF Shelved
  <2>2. r.dbDocMap = None /\ r.docMap = c.docMap
    BY <2>1, EmptiedSound
  <2>3. cols'[id] = IF id \in DOMAIN Titles THEN r ELSE c
    BY <1>1 DEF ClearColManager, MapFacts
  <2>4. Files[id] = IF open = id THEN DOMAIN c.docMap ELSE DOMAIN c.dbDocMap
    BY <1>1 DEF MapFacts
  <2>5. Files'[id] = IF open = id THEN DOMAIN cols'[id].docMap ELSE DOMAIN cols'[id].dbDocMap
    BY <1>1 DEF MapFacts
  <2> HIDE DEF c, r
  <2> QED
    BY <1>1, <2>2, <2>3, <2>4, <2>5
<1>3. Files' = [id \in ColId |-> IF id \in DOMAIN Titles \ Open THEN {} ELSE Files[id]]
  BY <1>1, <1>2 DEF MapFacts
<1>4. Titles' = [i \in {} |-> 0]
  BY <1>1 DEF MapFacts
<1>5. Strays' = Strays \cup Open
  <2>1. Strays' = {id \in ColId : open = id \/ Files'[id] # {}}
    BY <1>1 DEF MapFacts
  <2>2. Strays = {id \in ColId \ DOMAIN Titles : open = id \/ Files[id] # {}}
    BY <1>1 DEF MapFacts
  <2> QED
    BY <1>2, <2>1, <2>2
<1>6. Open \in {{}} \cup {{id} : id \in ColId}
  OBVIOUS
<1> HIDE DEF Open
<1>7. Collections!Clear
  BY <1>3, <1>4, <1>5, <1>6 DEF Collections!Clear, Titles, Files, Strays
<1> QED
  BY <1>7 DEF ShelfStep, Collections!Next

LEMMA KilledStep == ASSUME Inv, Inv', Killed PROVE ShelfStep
<1>1. /\ MapFacts /\ MapFacts'
      /\ colMap = dbColMap
      /\ open' = NoCol /\ NoCol \notin ColId
      /\ dbColMeta' = dbColMeta
      /\ Shelved(cols, open)
  BY Mapped, MappedNext, ColAssumption DEF Killed, Inv
<1>2. DOMAIN dbColMap' \subseteq DOMAIN dbColMap
  <2>1. CASE dbColMap' = colMap
    BY <1>1, <2>1
  <2>2. CASE dbColMap' \in {Restrict(colMap, S) : S \in SUBSET DOMAIN colMap}
    <3>1. PICK S \in SUBSET DOMAIN colMap : dbColMap' = Restrict(colMap, S)
      BY <2>2
    <3>2. DOMAIN dbColMap' = S
      BY <3>1 DEF Restrict
    <3> QED
      BY <1>1, <3>1, <3>2
  <2> QED
    BY <2>1, <2>2 DEF Killed
<1>3. /\ DOMAIN Titles' \subseteq DOMAIN Titles
      /\ Titles' = [id \in DOMAIN Titles' |-> Titles[id]]
  BY <1>1, <1>2 DEF MapFacts
<1>4. Strays' = {id \in ColId \ DOMAIN Titles' : Files'[id] # {}}
  BY <1>1 DEF MapFacts
<1>5. \A id \in ColId : /\ id # open => Files'[id] = Files[id]
                        /\ Files'[id] \subseteq Files[id]
  <2> SUFFICES ASSUME NEW id \in ColId
               PROVE  /\ id # open => Files'[id] = Files[id]
                      /\ Files'[id] \subseteq Files[id]
    OBVIOUS
  <2> DEFINE c == cols[id]
             r == cols'[id]
  <2>1. Sound(c) /\ (id = open => Covers(c))
    BY <1>1 DEF Shelved
  <2>2. /\ Files'[id] = DOMAIN r.dbDocMap
        /\ Files[id] = IF open = id THEN DOMAIN c.docMap ELSE DOMAIN c.dbDocMap
    BY <1>1 DEF MapFacts
  <2>3. CASE r = Ended(c, c.dbDocMap, c.dbNdxMap)
    <3>1. r.dbDocMap = c.dbDocMap
      BY <2>1, <2>3 DEF Ended, Sound, IsCol
    <3> HIDE DEF c, r
    <3> QED
      BY <2>1, <2>2, <3>1 DEF Covers
  <2>4. CASE open = id /\ r \in Cut(c)
    <3>1. ASSUME NEW docs, NEW ndxs, r = Ended(c, docs, ndxs)
          PROVE  r.dbDocMap = docs
      BY <2>1, <3>1 DEF Ended, Sound, IsCol
    <3> HIDE DEF c, r
    <3>2. \/ r = Ended(c, c.dbDocMap, c.dbNdxMap)
          \/ \E F \in SUBSET DOMAIN c.docMap : r = Ended(c, Restrict(c.docMap, F), c.dbNdxMap)
          \/ \E X \in SUBSET DOMAIN c.ndxMap : r = Ended(c, c.docMap, Restrict(c.ndxMap, X))
      BY <2>4 DEF Cut
    <3>3. DOMAIN r.dbDocMap \subseteq DOMAIN c.docMap
      <4>1. CASE r = Ended(c, c.dbDocMap, c.dbNdxMap)
        BY <2>1, <2>4, <3>1, <4>1 DEF Covers
      <4>2. ASSUME NEW F \in SUBSET DOMAIN c.docMap,
                   r = Ended(c, Restrict(c.docMap, F), c.dbNdxMap)
            PROVE  DOMAIN r.dbDocMap \subseteq DOMAIN c.docMap
        <5>1. r.dbDocMap = Restrict(c.docMap, F)
          BY <3>1, <4>2
        <5> QED
          BY <5>1 DEF Restrict
      <4>3. ASSUME NEW X \in SUBSET DOMAIN c.ndxMap,
                   r = Ended(c, c.docMap, Restrict(c.ndxMap, X))
            PROVE  DOMAIN r.dbDocMap \subseteq DOMAIN c.docMap
        BY <3>1, <4>3
      <4> QED
        BY <3>2, <4>1, <4>2, <4>3
    <3> QED
      BY <2>2, <2>4, <3>3
  <2>5. CASE open # id /\ r = c
    BY <2>2, <2>5
  <2>6. \/ r = Ended(c, c.dbDocMap, c.dbNdxMap)
        \/ open = id /\ r \in Cut(c)
        \/ open # id /\ r = c
    <3>1. CASE cols' = [i \in ColId |-> Ended(cols[i], cols[i].dbDocMap, cols[i].dbNdxMap)]
      BY <3>1
    <3>2. CASE cols' \in {[cols EXCEPT ![open] = q] : q \in Cut(cols[open])}
      <4>1. PICK q \in Cut(cols[open]) : cols' = [cols EXCEPT ![open] = q]
        BY <3>2
      <4> QED
        BY <1>1, <4>1 DEF Shelved
    <3> QED
      BY <3>1, <3>2 DEF Killed
  <2> QED
    BY <2>3, <2>4, <2>5, <2>6
<1>6. CASE \E i \in ColId : TRUE
  <2>1. PICK id \in ColId : open \in ColId => id = open
    BY <1>6
  <2> DEFINE S == Files'[id]
  <2>2. S \in SUBSET File
    BY <1>1 DEF MapFacts
  <2>3. Files' = [Files EXCEPT ![id] = @ \cap S]
    <3>1. \A i \in ColId \ {id} : Files'[i] = Files[i]
      BY <1>5, <2>1
    <3>2. Files[id] \cap S = S
      <4>1. S \subseteq Files[id]
        BY <1>5
      <4> HIDE DEF S
      <4> QED
        BY <4>1
    <3> QED
      BY <1>1, <3>1, <3>2 DEF MapFacts
  <2> HIDE DEF S
  <2>4. Collections!Lose
    BY <1>3, <1>4, <2>2, <2>3 DEF Collections!Lose, Titles, Files, Strays
  <2> QED
    BY <2>4 DEF ShelfStep, Collections!Next
<1>7. CASE ~ \E i \in ColId : TRUE
  <2>1. Titles' = Titles /\ Files' = Files /\ Strays' = Strays
    <3>1. DOMAIN dbColMap = {} /\ DOMAIN dbColMap' = {}
      BY <1>2, <1>7 DEF Inv, Listed, IsMap
    <3> QED
      BY <1>1, <1>7, <3>1 DEF MapFacts
  <2> QED
    BY <2>1 DEF ShelfStep, Collections!vars, Titles, Files, Strays
<1> QED
  BY <1>6, <1>7

LEMMA UseCollectionStep == ASSUME Inv, Inv', UseCollection PROVE ShelfStep
<1>1. /\ MapFacts /\ MapFacts'
      /\ open \in ColId
      /\ UNCHANGED <<dbColMap, dbColMeta, open>>
      /\ Shelved(cols, open)
  BY Mapped, MappedNext DEF UseCollection, Inv
<1>2. \A id \in ColId \ {open} : cols'[id] = cols[id]
  BY <1>1 DEF UseCollection, Shelved
<1>3. \A id \in ColId \ {open} : Files'[id] = Files[id]
  BY <1>1, <1>2 DEF MapFacts
<1> DEFINE S == Files'[open]
<1>4. S \in SUBSET File /\ Files' = [Files EXCEPT ![open] = S]
  BY <1>1, <1>3 DEF MapFacts
<1>5. Titles' = Titles
  BY <1>1 DEF MapFacts
<1>6. Strays' = Strays
  BY <1>1, <1>3, <1>5 DEF MapFacts
<1>7. open \in DOMAIN Titles \cup Strays
  BY <1>1 DEF MapFacts
<1> HIDE DEF S
<1>8. Collections!Use(open)
  BY <1>4, <1>5, <1>6, <1>7 DEF Collections!Use, Titles, Files, Strays
<1> QED
  BY <1>1, <1>8 DEF ShelfStep, Collections!Next

LEMMA NextStep == Inv /\ Inv' /\ [Next]_vars => ShelfStep
<1> SUFFICES ASSUME Inv, Inv', [Next]_vars PROVE ShelfStep
  OBVIOUS
<1>1. CASE Start
  BY <1>1, StartStep
<1>2. CASE Finish
  <2>1. /\ UNCHANGED <<dbColMap, dbColMeta>> /\ cols' = Released /\ open' = NoCol
    BY <1>2 DEF Finish, Inv
  <2> QED
    BY <2>1, ReleasingStep
<1>3. CASE Killed
  BY <1>3, KilledStep
<1>4. ASSUME NEW id \in ColId, NEW title \in Title, NEW n \in ColNum,
             AddCollection(id, title, n)
      PROVE  ShelfStep
  BY <1>4, AddCollectionStep
<1>5. ASSUME NEW id \in ColId, RemoveCollection(id) PROVE ShelfStep
  BY <1>5, RemoveCollectionStep
<1>6. ASSUME NEW id \in ColId, RemoveUnknown(id) PROVE ShelfStep
  BY <1>6, ReleasingStep DEF RemoveUnknown
<1>7. ASSUME NEW id \in ColId, NEW title \in Title, SetCollectionMeta(id, title)
      PROVE  ShelfStep
  BY <1>7, SetCollectionMetaStep
<1>8. CASE ClearColManager
  BY <1>8, ClearColManagerStep
<1>9. ASSUME NEW id \in ColId, OpenCollection(id) PROVE ShelfStep
  BY <1>9, OpenCollectionStep
<1>10. CASE UseCollection
  BY <1>10, UseCollectionStep
<1>11. CASE UNCHANGED vars
  BY <1>11 DEF ShelfStep, vars, Collections!vars, ColMap, DocMapOf
<1> QED
  BY <1>1, <1>2, <1>3, <1>4, <1>5, <1>6, <1>7, <1>8, <1>9, <1>10, <1>11 DEF Next

\* ColManager.cpp: the manager keeps its collections apart, as Shelf says: an
\* operation of one changes no other, one that is removed leaves nothing to a
\* later one of its id, and only a kill loses anything.
THEOREM LibraryImplementsShelf == Spec => ImplementsShelf
<1>1. Spec => [][ShelfStep]_(Collections!vars)
  BY InvHolds, NextStep, PTL DEF Spec, ShelfStep
<1> QED
  BY <1>1, ShelfInit, PTL DEF Spec, ImplementsShelf, Collections!Spec, ShelfStep
=============================================================================
