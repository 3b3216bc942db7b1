-------------------------- MODULE CollectionProofs --------------------------
(***************************************************************************)
(* Proofs about Collection, for every set of files and indexes, whatever   *)
(* parses fail and whenever the process is killed; the last part, on the   *)
(* catalog, for collections in which neither happens.                      *)
(***************************************************************************)
EXTENDS Collection, CollectionDataProofs

-----------------------------------------------------------------------------
(***************************************************************************)
(* The inductive invariant: the types, the agreement of the maps, and that *)
(* every document said to be indexed is stored.  The three are needed      *)
(* together: a step finds its document's record through the maps, and an   *)
(* operation that must start from a document not indexed relies on it.     *)
(***************************************************************************)
Inv == TypeOK /\ MapsAgree /\ AllStored(col)

LEMMA InitInv == Init => Inv
<1> SUFFICES ASSUME Init PROVE Inv
  OBVIOUS
<1>1. /\ col.docMap = None /\ col.intToDocMap = None /\ col.ndxMap = None
      /\ col.dbDocMap = None /\ col.dbNdxMap = None /\ col.docMeta = None
      /\ col.docDb = [d \in DocNum |-> None]
      /\ col.ndx = [x \in NdxName |-> {}]
      /\ DOMAIN col = {"docMap", "intToDocMap", "ndxMap", "dbDocMap", "dbNdxMap",
                       "docMeta", "docDb", "ndx"}
      /\ isOpen = FALSE
  BY DEF Init, Empty
<1>2. TypeOK
  <2>1. /\ IsMap(None, File, DocNum) /\ IsMap(None, DocNum, File)
        /\ IsMap(None, NdxName, Nat) /\ IsMap(None, DocNum, DocMeta)
        /\ IsMap(None, PageNum, File)
    BY NoneType
  <2>2. /\ \A d \in DocNum : IsMap(col.docDb[d], PageNum, File)
        /\ col.docDb = [d \in DocNum |-> col.docDb[d]]
        /\ col.ndx \in [NdxName -> SUBSET (DocNum \X File)]
    BY <1>1, <2>1
  <2> QED
    BY <1>1, <2>1, <2>2 DEF TypeOK, IsCol
<1>3. MapsAgree /\ AllStored(col)
  BY <1>1, NoneType DEF MapsAgree, AllStored
<1> QED
  BY <1>2, <1>3 DEF Inv

\* The maps of an open collection: a known document has a number, a record
\* and a file, each found from the others.
LEMMA KnownDocument ==
    ASSUME Inv, isOpen
    PROVE  /\ \A d \in DOMAIN col.intToDocMap :
                /\ d \in DOMAIN col.docMeta
                /\ col.intToDocMap[d] \in DOMAIN col.docMap
                /\ col.docMap[col.intToDocMap[d]] = d
                /\ col.docMeta[d].file = col.intToDocMap[d]
           /\ \A f \in DOMAIN col.docMap :
                /\ col.docMap[f] \in DOMAIN col.intToDocMap
                /\ col.intToDocMap[col.docMap[f]] = f
BY DEF Inv, MapsAgree, Range

\* An operation that changes no map.
LEMMA SameDocumentsInv ==
    ASSUME Inv, IsCol(col'), SameDocuments(col, col'), AllStored(col'), UNCHANGED isOpen
    PROVE  Inv'
<1>1. TypeOK'
  BY DEF Inv, TypeOK
<1>2. MapsAgree'
  BY DEF Inv, MapsAgree, SameDocuments, Range
<1> QED
  BY <1>1, <1>2 DEF Inv

-----------------------------------------------------------------------------
(***************************************************************************)
(* One lemma per operation.                                                *)
(***************************************************************************)
\* MapsAgree of an open collection.
OpenMapsAgree(c) ==
    /\ c.docMap = c.dbDocMap
    /\ \A f, g \in DOMAIN c.docMap : c.docMap[f] = c.docMap[g] => f = g
    /\ DOMAIN c.intToDocMap = Range(c.docMap)
    /\ \A f \in DOMAIN c.docMap : /\ c.intToDocMap[c.docMap[f]] = f
                                  /\ c.docMap[f] \in DOMAIN c.docMeta
                                  /\ c.docMeta[c.docMap[f]].file = f

\* A document that is added is a document of its own, not indexed yet.
LEMMA AddedInv ==
    ASSUME Inv, isOpen, NEW f \in File \ DOMAIN col.docMap,
           NEW d \in DocNum, IsNextDocNum(col, d), NEW r, r = Added(col, f, d)
    PROVE  /\ IsCol(r) /\ AllStored(r) /\ OpenMapsAgree(r)
           /\ d \in DOMAIN r.docMeta
<1> DEFINE meta == [file |-> f, indexed |-> FALSE, pages |-> 0]
<1>1. IsCol(col) /\ meta \in DocMeta
  BY DEF Inv, TypeOK, DocMeta
<1>2. /\ IsMap(col.docMap, File, DocNum)
      /\ IsMap(col.intToDocMap, DocNum, File)
      /\ IsMap(col.dbDocMap, File, DocNum)
      /\ IsMap(col.docMeta, DocNum, DocMeta)
  BY <1>1 DEF IsCol
<1>3. /\ DOMAIN r = DOMAIN col
      /\ r.docMeta = With(col.docMeta, d, meta)
      /\ r.dbDocMap = With(col.dbDocMap, f, d)
      /\ r.docMap = With(col.docMap, f, d)
      /\ r.intToDocMap = With(col.intToDocMap, d, f)
      /\ r.ndxMap = col.ndxMap /\ r.dbNdxMap = col.dbNdxMap
      /\ r.docDb = col.docDb /\ r.ndx = col.ndx
  BY <1>1 DEF IsCol, Added
<1>4. ~ meta.indexed /\ meta.file = f
  OBVIOUS
<1> HIDE DEF meta
<1>5. /\ IsMap(r.docMeta, DocNum, DocMeta)
      /\ DOMAIN r.docMeta = DOMAIN col.docMeta \cup {d}
      /\ r.docMeta[d] = meta
      /\ \A n \in DOMAIN col.docMeta : n # d => r.docMeta[n] = col.docMeta[n]
  BY <1>1, <1>2, <1>3 DEF With, IsMap
<1>6. IsMap(r.dbDocMap, File, DocNum)
  BY <1>2, <1>3 DEF With, IsMap
<1>7. /\ IsMap(r.docMap, File, DocNum)
      /\ DOMAIN r.docMap = DOMAIN col.docMap \cup {f}
      /\ r.docMap[f] = d
      /\ \A g \in DOMAIN col.docMap : r.docMap[g] = col.docMap[g]
  BY <1>2, <1>3 DEF With, IsMap
<1>8. /\ IsMap(r.intToDocMap, DocNum, File)
      /\ DOMAIN r.intToDocMap = DOMAIN col.intToDocMap \cup {d}
      /\ r.intToDocMap[d] = f
      /\ \A n \in DOMAIN col.intToDocMap : n # d => r.intToDocMap[n] = col.intToDocMap[n]
  BY <1>2, <1>3 DEF With, IsMap
<1>9. \A g \in DOMAIN col.docMap : col.docMap[g] # d
  <2> TAKE g \in DOMAIN col.docMap
  <2>1. col.docMap[g] \in Range(col.docMap) /\ col.docMap[g] \in Nat
    BY <1>2 DEF Range, IsMap, DocNum
  <2> QED
    BY <2>1 DEF IsNextDocNum, DocNum
<1>10. IsCol(r)
  BY <1>1, <1>3, <1>5, <1>6, <1>7, <1>8 DEF IsCol
<1>11. AllStored(r)
  BY <1>3, <1>4, <1>5 DEF Inv, AllStored, DocStored
<1>12. r.docMap = r.dbDocMap
  BY <1>3 DEF Inv, MapsAgree
<1>13. \A g, h \in DOMAIN r.docMap : r.docMap[g] = r.docMap[h] => g = h
  BY <1>7, <1>9 DEF Inv, MapsAgree
<1>14. DOMAIN r.intToDocMap = Range(r.docMap)
  <2>1. Range(r.docMap) = Range(col.docMap) \cup {d}
    BY <1>7 DEF Range
  <2>2. DOMAIN col.intToDocMap = Range(col.docMap)
    BY DEF Inv, MapsAgree
  <2> QED
    BY <1>8, <2>1, <2>2
<1>15. \A g \in DOMAIN r.docMap : /\ r.intToDocMap[r.docMap[g]] = g
                                  /\ r.docMap[g] \in DOMAIN r.docMeta
                                  /\ r.docMeta[r.docMap[g]].file = g
  <2> TAKE g \in DOMAIN r.docMap
  <2>1. CASE g = f
    BY <1>4, <1>5, <1>7, <1>8, <2>1
  <2>2. CASE g \in DOMAIN col.docMap
    <3>1. /\ col.docMap[g] \in DOMAIN col.intToDocMap
          /\ col.intToDocMap[col.docMap[g]] = g
      BY <2>2, KnownDocument
    <3>2. /\ col.docMap[g] \in DOMAIN col.docMeta
          /\ col.docMeta[col.docMap[g]].file = g
      BY <2>2, <3>1, KnownDocument
    <3>3. r.docMap[g] = col.docMap[g] /\ col.docMap[g] # d
      BY <1>7, <1>9, <2>2
    <3> QED
      BY <1>5, <1>8, <3>1, <3>2, <3>3
  <2> QED
    BY <1>7, <2>1, <2>2
<1> QED
  BY <1>5, <1>10, <1>11, <1>12, <1>13, <1>14, <1>15 DEF OpenMapsAgree

LEMMA AddDocumentInv ==
    ASSUME Inv, NEW f \in File, NEW d \in DocNum, NEW wantIndex \in BOOLEAN,
           AddDocument(f, d, wantIndex)
    PROVE  Inv'
<1> DEFINE r == Added(col, f, d)
<1>1. /\ isOpen /\ isOpen'
      /\ f \in File \ DOMAIN col.docMap
      /\ IsNextDocNum(col, d)
      /\ col' \in Indexed(r, d) \/ col' = r
  BY DEF AddDocument, Adds, Inv, TypeOK
<1>2. r = Added(col, f, d)
  OBVIOUS
<1> HIDE DEF r
<1>3. /\ IsCol(r) /\ AllStored(r) /\ OpenMapsAgree(r)
      /\ d \in DOMAIN r.docMeta
  BY <1>1, <1>2, AddedInv
<1>4. IsCol(col') /\ SameDocuments(r, col') /\ AllStored(col')
  <2>1. CASE col' \in Indexed(r, d)
    BY <1>3, <2>1, IndexedKeeps
  <2>2. CASE col' = r
    BY <1>3, <2>2 DEF SameDocuments
  <2> QED
    BY <1>1, <2>1, <2>2
<1>5. MapsAgree'
  BY <1>1, <1>3, <1>4 DEF MapsAgree, OpenMapsAgree, SameDocuments
<1>6. isOpen' \in BOOLEAN
  BY DEF AddDocument, Inv, TypeOK
<1> QED
  BY <1>4, <1>5, <1>6 DEF Inv, TypeOK

LEMMA IndexDocumentInv ==
    ASSUME Inv, NEW d \in DocNum, IndexDocument(d)
    PROVE  Inv'
<1>1. isOpen /\ d \in DOMAIN col.intToDocMap /\ col' \in Indexed(col, d) /\ UNCHANGED isOpen
  BY DEF IndexDocument, Known
<1>2. d \in DOMAIN col.docMeta
  BY <1>1, KnownDocument
<1>3. IsCol(col) /\ AllStored(col)
  BY DEF Inv, TypeOK
<1>4. IsCol(col') /\ SameDocuments(col, col') /\ AllStored(col')
  BY <1>1, <1>2, <1>3, IndexedKeeps
<1> QED
  BY <1>1, <1>4, SameDocumentsInv

LEMMA RemoveDocumentIndexInv ==
    ASSUME Inv, NEW d \in DocNum, RemoveDocumentIndex(d)
    PROVE  Inv'
<1>1. isOpen /\ d \in DOMAIN col.intToDocMap /\ col' = IndexRemoved(col, d) /\ UNCHANGED isOpen
  BY DEF RemoveDocumentIndex, Known
<1>2. d \in DOMAIN col.docMeta
  BY <1>1, KnownDocument
<1>3. IsCol(col) /\ AllStored(col)
  BY DEF Inv, TypeOK
<1>4. IsCol(col') /\ SameDocuments(col, col') /\ AllStored(col')
  BY <1>1, <1>2, <1>3, IndexRemovedKeeps, IndexRemovedStored
<1> QED
  BY <1>1, <1>4, SameDocumentsInv

LEMMA RemoveDocumentInv ==
    ASSUME Inv, NEW d \in DocNum, RemoveDocument(d)
    PROVE  Inv'
<1> DEFINE f == col.intToDocMap[d]
           q == IndexRemoved(col, d)
<1>1. /\ isOpen /\ isOpen' = isOpen
      /\ d \in DOMAIN col.intToDocMap
      /\ col' = [q EXCEPT !.docMap = Without(@, f),
                          !.intToDocMap = Without(@, d),
                          !.docMeta = Without(@, d),
                          !.dbDocMap = Without(@, f)]
  BY DEF RemoveDocument, Removed, Known
<1>2. /\ d \in DOMAIN col.docMeta
      /\ f \in DOMAIN col.docMap
      /\ col.docMap[f] = d
  BY <1>1, KnownDocument
<1>3. IsCol(col) /\ AllStored(col)
  BY DEF Inv, TypeOK
<1>4. IsCol(q) /\ SameDocuments(col, q) /\ AllStored(q)
  BY <1>2, <1>3, IndexRemovedKeeps, IndexRemovedStored
<1> HIDE DEF f, q
<1>5. /\ DOMAIN col' = DOMAIN q
      /\ col'.docMap = Without(col.docMap, f)
      /\ col'.dbDocMap = Without(col.dbDocMap, f)
      /\ col'.intToDocMap = Without(col.intToDocMap, d)
      /\ col'.docMeta = Without(q.docMeta, d)
      /\ col'.ndxMap = q.ndxMap /\ col'.dbNdxMap = q.dbNdxMap
      /\ col'.docDb = q.docDb /\ col'.ndx = q.ndx
  BY <1>1, <1>4 DEF IsCol, SameDocuments
<1>6. IsCol(col')
  <2>1. IsMap(col'.docMap, File, DocNum) /\ IsMap(col'.dbDocMap, File, DocNum)
    BY <1>3, <1>5 DEF IsCol, IsMap, Without
  <2>2. IsMap(col'.intToDocMap, DocNum, File)
    BY <1>3, <1>5 DEF IsCol, IsMap, Without
  <2>3. IsMap(col'.docMeta, DocNum, DocMeta)
    BY <1>4, <1>5 DEF IsCol, IsMap, Without
  <2> QED
    BY <1>4, <1>5, <2>1, <2>2, <2>3 DEF IsCol
<1>7. AllStored(col')
  <2>1. \A n \in DOMAIN col'.docMeta : n \in DOMAIN q.docMeta /\ col'.docMeta[n] = q.docMeta[n]
    BY <1>5 DEF Without
  <2> QED
    BY <1>4, <1>5, <2>1 DEF AllStored, DocStored
<1>8. MapsAgree'
  <2>1. col.dbDocMap = col.docMap
    BY <1>1 DEF Inv, MapsAgree
  <2>2. /\ DOMAIN col'.docMap = DOMAIN col.docMap \ {f}
        /\ \A g \in DOMAIN col'.docMap : col'.docMap[g] = col.docMap[g] /\ col.docMap[g] # d
    BY <1>2, <1>5, <2>1 DEF Inv, MapsAgree, Without
  <2>3. /\ DOMAIN col'.intToDocMap = DOMAIN col.intToDocMap \ {d}
        /\ \A n \in DOMAIN col'.intToDocMap : col'.intToDocMap[n] = col.intToDocMap[n]
    BY <1>5 DEF Without
  <2>4. /\ DOMAIN col'.docMeta = DOMAIN col.docMeta \ {d}
        /\ \A n \in DOMAIN col'.docMeta : col'.docMeta[n].file = col.docMeta[n].file
    BY <1>4, <1>5 DEF Without, SameDocuments
  <2>5. DOMAIN col'.intToDocMap = Range(col'.docMap)
    <3>1. DOMAIN col.intToDocMap = Range(col.docMap)
      BY <1>1 DEF Inv, MapsAgree
    <3>2. Range(col'.docMap) = Range(col.docMap) \ {d}
      BY <1>2, <2>2 DEF Range
    <3> QED
      BY <2>3, <3>1, <3>2
  <2>6. \A g \in DOMAIN col'.docMap :
            /\ col'.intToDocMap[col'.docMap[g]] = g
            /\ col'.docMap[g] \in DOMAIN col'.docMeta
            /\ col'.docMeta[col'.docMap[g]].file = g
    <3> TAKE g \in DOMAIN col'.docMap
    <3>1. /\ g \in DOMAIN col.docMap
          /\ col'.docMap[g] = col.docMap[g]
          /\ col.docMap[g] # d
      BY <2>2
    <3>2. /\ col.docMap[g] \in DOMAIN col.intToDocMap
          /\ col.intToDocMap[col.docMap[g]] = g
      BY <1>1, <3>1, KnownDocument
    <3>3. /\ col.docMap[g] \in DOMAIN col.docMeta
          /\ col.docMeta[col.docMap[g]].file = g
      BY <1>1, <3>2, KnownDocument
    <3> QED
      BY <2>3, <2>4, <3>1, <3>2, <3>3
  <2>7. \A g, h \in DOMAIN col'.docMap : col'.docMap[g] = col'.docMap[h] => g = h
    BY <2>6
  <2>8. col'.docMap = col'.dbDocMap
    BY <1>5, <2>1
  <2> QED
    BY <1>1, <2>5, <2>6, <2>7, <2>8 DEF MapsAgree
<1> QED
  BY <1>1, <1>6, <1>7, <1>8 DEF Inv, TypeOK

LEMMA SetDocumentMetaInv ==
    ASSUME Inv, NEW d \in DocNum, NEW f \in File, SetDocumentMeta(d, f)
    PROVE  Inv'
<1> DEFINE old == col.docMeta[d].file
           q == IndexRemoved(col, d)
           meta == [q.docMeta[d] EXCEPT !.file = f]
<1>1. /\ isOpen /\ isOpen' = isOpen
      /\ d \in DOMAIN col.intToDocMap
      /\ f \notin DOMAIN col.docMap
      /\ col' = [q EXCEPT !.docMap = With(Without(@, old), f, d),
                          !.intToDocMap = With(@, d, f),
                          !.dbDocMap = With(Without(@, old), f, d),
                          !.docMeta[d].file = f]
  BY DEF SetDocumentMeta, Replaced, Known
<1>2. /\ d \in DOMAIN col.docMeta
      /\ old \in DOMAIN col.docMap
      /\ col.docMap[old] = d
  BY <1>1, KnownDocument
<1>3. IsCol(col) /\ AllStored(col)
  BY DEF Inv, TypeOK
<1>4. /\ IsCol(q) /\ SameDocuments(col, q) /\ AllStored(q)
      /\ ~ q.docMeta[d].indexed
  BY <1>2, <1>3, IndexRemovedKeeps, IndexRemovedStored
<1> HIDE DEF old, q
<1>5. /\ d \in DOMAIN q.docMeta
      /\ meta \in DocMeta
      /\ meta.file = f
      /\ ~ meta.indexed
  BY <1>2, <1>4 DEF IsCol, IsMap, SameDocuments, DocMeta
<1>6. /\ DOMAIN col' = DOMAIN q
      /\ col'.docMap = With(Without(col.docMap, old), f, d)
      /\ col'.dbDocMap = With(Without(col.dbDocMap, old), f, d)
      /\ col'.intToDocMap = With(col.intToDocMap, d, f)
      /\ col'.docMeta = [q.docMeta EXCEPT ![d] = meta]
      /\ col'.ndxMap = q.ndxMap /\ col'.dbNdxMap = q.dbNdxMap
      /\ col'.docDb = q.docDb /\ col'.ndx = q.ndx
  BY <1>1, <1>4 DEF IsCol, SameDocuments
<1> HIDE DEF meta
<1>7. IsCol(col')
  <2>1. IsMap(col'.docMap, File, DocNum) /\ IsMap(col'.dbDocMap, File, DocNum)
    BY <1>3, <1>6 DEF IsCol, IsMap, With, Without
  <2>2. IsMap(col'.intToDocMap, DocNum, File)
    BY <1>3, <1>6 DEF IsCol, IsMap, With
  <2>3. IsMap(col'.docMeta, DocNum, DocMeta)
    BY <1>4, <1>5, <1>6 DEF IsCol, IsMap
  <2> QED
    BY <1>4, <1>6, <2>1, <2>2, <2>3 DEF IsCol
<1>8. AllStored(col')
  <2>1. /\ DOMAIN col'.docMeta = DOMAIN q.docMeta
        /\ col'.docMeta[d] = meta
        /\ \A n \in DOMAIN q.docMeta \ {d} : col'.docMeta[n] = q.docMeta[n]
    BY <1>5, <1>6
  <2> QED
    BY <1>4, <1>5, <1>6, <2>1 DEF AllStored, DocStored
<1>9. MapsAgree'
  <2>1. col.dbDocMap = col.docMap
    BY <1>1 DEF Inv, MapsAgree
  <2>2. /\ DOMAIN col'.docMap = (DOMAIN col.docMap \ {old}) \cup {f}
        /\ col'.docMap[f] = d
        /\ \A g \in DOMAIN col.docMap \ {old} :
                col'.docMap[g] = col.docMap[g] /\ col.docMap[g] # d
    <3>1. \A g \in DOMAIN col.docMap \ {old} : col.docMap[g] # d
      BY <1>1, <1>2, <2>1 DEF Inv, MapsAgree
    <3> DEFINE m == Without(col.docMap, old)
    <3>2. /\ DOMAIN m = DOMAIN col.docMap \ {old}
          /\ \A g \in DOMAIN col.docMap \ {old} : m[g] = col.docMap[g]
      BY DEF Without
    <3>3. col'.docMap = With(m, f, d)
      BY <1>6
    <3> HIDE DEF m
    <3>4. /\ DOMAIN col'.docMap = DOMAIN m \cup {f}
          /\ col'.docMap[f] = d
          /\ \A g \in DOMAIN m \ {f} : col'.docMap[g] = m[g]
      BY <3>3 DEF With
    <3> QED
      BY <1>1, <3>1, <3>2, <3>4
  <2>3. /\ DOMAIN col'.intToDocMap = DOMAIN col.intToDocMap
        /\ col'.intToDocMap[d] = f
        /\ \A n \in DOMAIN col.intToDocMap \ {d} : col'.intToDocMap[n] = col.intToDocMap[n]
    BY <1>1, <1>6 DEF With
  <2>4. /\ DOMAIN col'.docMeta = DOMAIN col.docMeta
        /\ col'.docMeta[d].file = f
        /\ \A n \in DOMAIN col.docMeta \ {d} : col'.docMeta[n].file = col.docMeta[n].file
    BY <1>4, <1>5, <1>6 DEF SameDocuments
  <2>5. DOMAIN col'.intToDocMap = Range(col'.docMap)
    <3>1. DOMAIN col.intToDocMap = Range(col.docMap)
      BY <1>1 DEF Inv, MapsAgree
    <3>2. Range(col'.docMap) = Range(col.docMap)
      <4>1. Range(col'.docMap) \subseteq Range(col.docMap)
        BY <1>2, <2>2 DEF Range
      <4>2. Range(col.docMap) \subseteq Range(col'.docMap)
        BY <1>2, <2>2 DEF Range
      <4> QED
        BY <4>1, <4>2
    <3> QED
      BY <2>3, <3>1, <3>2
  <2>6. \A g \in DOMAIN col'.docMap :
            /\ col'.intToDocMap[col'.docMap[g]] = g
            /\ col'.docMap[g] \in DOMAIN col'.docMeta
            /\ col'.docMeta[col'.docMap[g]].file = g
    <3> TAKE g \in DOMAIN col'.docMap
    <3>1. CASE g = f
      BY <1>2, <2>2, <2>3, <2>4, <3>1
    <3>2. CASE g \in DOMAIN col.docMap \ {old}
      <4>1. /\ col'.docMap[g] = col.docMap[g]
            /\ col.docMap[g] # d
        BY <2>2, <3>2
      <4>2. /\ col.docMap[g] \in DOMAIN col.intToDocMap
            /\ col.intToDocMap[col.docMap[g]] = g
        BY <1>1, <3>2, KnownDocument
      <4>3. /\ col.docMap[g] \in DOMAIN col.docMeta
            /\ col.docMeta[col.docMap[g]].file = g
        BY <1>1, <4>2, KnownDocument
      <4> QED
        BY <2>3, <2>4, <4>1, <4>2, <4>3
    <3> QED
      BY <2>2, <3>1, <3>2
  <2>7. \A g, h \in DOMAIN col'.docMap : col'.docMap[g] = col'.docMap[h] => g = h
    BY <2>6
  <2>8. col'.docMap = col'.dbDocMap
    BY <1>6, <2>1
  <2> QED
    BY <1>1, <2>5, <2>6, <2>7, <2>8 DEF MapsAgree
<1> QED
  BY <1>1, <1>7, <1>8, <1>9 DEF Inv, TypeOK

LEMMA ClearCollectionInv ==
    ASSUME Inv, ClearCollection
    PROVE  Inv'
<1>1. /\ isOpen /\ isOpen' = isOpen
      /\ IsCol(col)
      /\ DOMAIN col' = DOMAIN col
      /\ col'.docMap = None /\ col'.intToDocMap = None /\ col'.ndxMap = None
      /\ col'.dbDocMap = None /\ col'.dbNdxMap = None /\ col'.docMeta = None
      /\ col'.docDb = [d \in DocNum |-> IF d \in Range(col.docMap) THEN None ELSE col.docDb[d]]
      /\ col'.ndx = [x \in NdxName |-> IF x \in DOMAIN col.ndxMap THEN {} ELSE col.ndx[x]]
  BY DEF ClearCollection, Cleared, Inv, TypeOK, IsCol
<1>2. /\ IsMap(None, File, DocNum) /\ IsMap(None, DocNum, File)
      /\ IsMap(None, NdxName, Nat) /\ IsMap(None, DocNum, DocMeta)
      /\ IsMap(None, PageNum, File)
  BY NoneType
<1>3. DOMAIN None = {}
  BY DEF None
<1>4. /\ \A d \in DocNum : IsMap(col'.docDb[d], PageNum, File)
      /\ col'.docDb = [d \in DocNum |-> col'.docDb[d]]
  BY <1>1, <1>2 DEF IsCol
<1>5. col'.ndx \in [NdxName -> SUBSET (DocNum \X File)]
  BY <1>1 DEF IsCol
<1>6. IsCol(col')
  BY <1>1, <1>2, <1>4, <1>5 DEF IsCol
<1>7. MapsAgree' /\ AllStored(col')
  BY <1>1, <1>3 DEF MapsAgree, AllStored, Range
<1> QED
  BY <1>1, <1>6, <1>7 DEF Inv, TypeOK

LEMMA OpenInv ==
    ASSUME Inv, Open
    PROVE  Inv'
<1> DEFINE back == [d \in Range(col.dbDocMap) |->
                        CHOOSE f \in DOMAIN col.dbDocMap : col.dbDocMap[f] = d]
<1>1. /\ isOpen' = TRUE
      /\ IsCol(col)
      /\ DOMAIN col' = DOMAIN col
      /\ col'.docMap = col.dbDocMap /\ col'.dbDocMap = col.dbDocMap
      /\ col'.ndxMap = col.dbNdxMap /\ col'.dbNdxMap = col.dbNdxMap
      /\ col'.intToDocMap = back
      /\ col'.docMeta = col.docMeta /\ col'.docDb = col.docDb /\ col'.ndx = col.ndx
  BY DEF Open, Opened, Inv, TypeOK, IsCol
<1>2. \A d \in Range(col.dbDocMap) : back[d] \in DOMAIN col.dbDocMap /\ col.dbDocMap[back[d]] = d
  BY DEF Range
<1>3. \A f \in DOMAIN col.dbDocMap :
            col.dbDocMap[f] \in Range(col.dbDocMap) /\ back[col.dbDocMap[f]] = f
  <2> TAKE f \in DOMAIN col.dbDocMap
  <2>1. col.dbDocMap[f] \in Range(col.dbDocMap)
    BY DEF Range
  <2>2. back[col.dbDocMap[f]] \in DOMAIN col.dbDocMap
        /\ col.dbDocMap[back[col.dbDocMap[f]]] = col.dbDocMap[f]
    BY <1>2, <2>1
  <2> HIDE DEF back
  <2> QED
    BY <2>1, <2>2 DEF Inv, MapsAgree
<1>4. DOMAIN back = Range(col.dbDocMap)
  OBVIOUS
<1> HIDE DEF back
<1>5. IsMap(back, DocNum, File)
  <2>1. IsMap(col.dbDocMap, File, DocNum)
    BY <1>1 DEF IsCol
  <2>2. Range(col.dbDocMap) \subseteq DocNum
    BY <2>1 DEF Range, IsMap
  <2>3. \A d \in DOMAIN back : back[d] \in File
    BY <1>2, <1>4, <2>1 DEF IsMap
  <2>4. back = [d \in DOMAIN back |-> back[d]]
    BY DEF back
  <2> QED
    BY <1>4, <2>2, <2>3, <2>4 DEF IsMap
<1>6. IsCol(col')
  BY <1>1, <1>5 DEF IsCol
<1>7. MapsAgree'
  BY <1>1, <1>3, <1>4 DEF Inv, MapsAgree
<1>8. AllStored(col')
  BY <1>1 DEF Inv, AllStored, DocStored
<1> QED
  BY <1>1, <1>6, <1>7, <1>8 DEF Inv, TypeOK

\* However the object ends: what is on disk is part of the document map.
LEMMA EndedInv ==
    ASSUME Inv, NEW docs, NEW ndxs,
           isOpen' = FALSE, col' = Ended(col, docs, ndxs),
           IsMap(docs, File, DocNum), IsMap(ndxs, NdxName, Nat),
           DOMAIN docs \subseteq DOMAIN col.dbDocMap,
           \A f \in DOMAIN docs : docs[f] = col.dbDocMap[f]
    PROVE  Inv'
<1>1. /\ IsCol(col)
      /\ DOMAIN col' = DOMAIN col
      /\ col'.docMap = None /\ col'.intToDocMap = None /\ col'.ndxMap = None
      /\ col'.dbDocMap = docs /\ col'.dbNdxMap = ndxs
      /\ col'.docMeta = col.docMeta /\ col'.docDb = col.docDb /\ col'.ndx = col.ndx
  BY DEF Ended, Inv, TypeOK, IsCol
<1>2. /\ IsMap(None, File, DocNum) /\ IsMap(None, DocNum, File)
      /\ IsMap(None, NdxName, Nat)
  BY NoneType
<1>3. IsCol(col')
  BY <1>1, <1>2 DEF IsCol
<1>4. MapsAgree'
  BY <1>1 DEF Inv, MapsAgree
<1>5. AllStored(col')
  BY <1>1 DEF Inv, AllStored, DocStored
<1> QED
  BY <1>1, <1>3, <1>4, <1>5 DEF Inv, TypeOK

LEMMA KilledInv ==
    ASSUME Inv, Killed
    PROVE  Inv'
<1>1. isOpen /\ isOpen' = FALSE /\ col.docMap = col.dbDocMap
  BY DEF Killed, Inv, MapsAgree
<1>2. /\ IsMap(col.docMap, File, DocNum) /\ IsMap(col.dbDocMap, File, DocNum)
      /\ IsMap(col.ndxMap, NdxName, Nat) /\ IsMap(col.dbNdxMap, NdxName, Nat)
  BY DEF Inv, TypeOK, IsCol
<1>3. CASE col' = Ended(col, col.dbDocMap, col.dbNdxMap)
  BY <1>1, <1>2, <1>3, EndedInv
<1>4. ASSUME NEW F \in SUBSET DOMAIN col.docMap,
             col' = Ended(col, Restrict(col.docMap, F), col.dbNdxMap)
      PROVE  Inv'
  <2> DEFINE docs == Restrict(col.docMap, F)
  <2>1. /\ IsMap(docs, File, DocNum)
        /\ DOMAIN docs = F
        /\ \A f \in F : docs[f] = col.docMap[f]
    BY <1>2 DEF Restrict, IsMap
  <2>2. col' = Ended(col, docs, col.dbNdxMap)
    BY <1>4
  <2> HIDE DEF docs
  <2>3. DOMAIN docs \subseteq DOMAIN col.dbDocMap /\ \A f \in DOMAIN docs : docs[f] = col.dbDocMap[f]
    BY <1>1, <2>1
  <2> QED
    BY <1>1, <1>2, <2>1, <2>2, <2>3, EndedInv
<1>5. ASSUME NEW X \in SUBSET DOMAIN col.ndxMap,
             col' = Ended(col, col.docMap, Restrict(col.ndxMap, X))
      PROVE  Inv'
  <2> DEFINE ndxs == Restrict(col.ndxMap, X)
             docs == col.docMap
  <2>1. IsMap(ndxs, NdxName, Nat)
    BY <1>2 DEF Restrict, IsMap
  <2>2. col' = Ended(col, docs, ndxs)
    BY <1>5
  <2>3. /\ IsMap(docs, File, DocNum)
        /\ DOMAIN docs \subseteq DOMAIN col.dbDocMap
        /\ \A f \in DOMAIN docs : docs[f] = col.dbDocMap[f]
    BY <1>1, <1>2
  <2> HIDE DEF docs, ndxs
  <2> QED
    BY <1>1, <2>1, <2>2, <2>3, EndedInv
<1> QED
  BY <1>3, <1>4, <1>5 DEF Killed, Cut

-----------------------------------------------------------------------------
(***************************************************************************)
(* The theorems.                                                           *)
(***************************************************************************)
LEMMA NextInv == Inv /\ [Next]_vars => Inv'
<1> SUFFICES ASSUME Inv, [Next]_vars PROVE Inv'
  OBVIOUS
<1>1. ASSUME NEW f \in File, NEW d \in DocNum, NEW wantIndex \in BOOLEAN,
             AddDocument(f, d, wantIndex)
      PROVE  Inv'
  BY <1>1, AddDocumentInv
<1>2. ASSUME NEW d \in DocNum, IndexDocument(d) PROVE Inv'
  BY <1>2, IndexDocumentInv
<1>3. ASSUME NEW d \in DocNum, RemoveDocumentIndex(d) PROVE Inv'
  BY <1>3, RemoveDocumentIndexInv
<1>4. ASSUME NEW d \in DocNum, RemoveDocument(d) PROVE Inv'
  BY <1>4, RemoveDocumentInv
<1>5. ASSUME NEW d \in DocNum, NEW f \in File, SetDocumentMeta(d, f) PROVE Inv'
  BY <1>5, SetDocumentMetaInv
<1>6. CASE ClearCollection
  BY <1>6, ClearCollectionInv
<1>7. CASE Open
  BY <1>7, OpenInv
<1>8. CASE Close
  <2> DEFINE docs == col.docMap
             ndxs == col.ndxMap
  <2>1. isOpen' = FALSE /\ col' = Ended(col, docs, ndxs)
    BY <1>8 DEF Close, Closed
  <2>2. /\ IsMap(docs, File, DocNum) /\ IsMap(ndxs, NdxName, Nat)
        /\ docs = col.dbDocMap
    BY <1>8 DEF Close, Inv, TypeOK, MapsAgree, IsCol
  <2>3. /\ DOMAIN docs \subseteq DOMAIN col.dbDocMap
        /\ \A f \in DOMAIN docs : docs[f] = col.dbDocMap[f]
    BY <2>2
  <2> HIDE DEF docs, ndxs
  <2> QED
    BY <2>1, <2>2, <2>3, EndedInv
<1>9. CASE Killed
  BY <1>9, KilledInv
<1>10. CASE UNCHANGED vars
  BY <1>10 DEF vars, Inv, TypeOK, MapsAgree
<1> QED
  BY <1>1, <1>2, <1>3, <1>4, <1>5, <1>6, <1>7, <1>8, <1>9, <1>10 DEF Next

LEMMA InvHolds == Spec => []Inv
BY InitInv, NextInv, PTL DEF Spec

\* The state of a collection keeps its types: document numbers, maps, pages
\* and counts, whatever fails.
THEOREM TypeCorrect == Spec => []TypeOK
<1>1. Inv => TypeOK
  BY DEF Inv
<1> QED
  BY <1>1, InvHolds, PTL

\* Collection.cpp: the two document maps and the metadata records always
\* agree, so that no operation finds a document in one and not in another,
\* also after a parse that failed and after a kill while the maps are saved.
THEOREM MapsAlwaysAgree == Spec => []MapsAgree
<1>1. Inv => MapsAgree
  BY DEF Inv
<1> QED
  BY <1>1, InvHolds, PTL

\* Collection.cpp, IndexDocument and RemoveDocumentIndex: a document that
\* says it is indexed has all its words and pages in the databases.
THEOREM IndexedIsStored == Spec => []IndexedMeansStored
<1>1. Inv => IndexedMeansStored
  BY DEF Inv, AllStored, DocStored, IndexedMeansStored
<1> QED
  BY <1>1, InvHolds, PTL

-----------------------------------------------------------------------------
(***************************************************************************)
(* When nothing fails and nothing is killed: the databases hold what the   *)
(* metadata records say, the index map is exact, and the collection        *)
(* implements Catalog.                                                     *)
(*                                                                         *)
(* The invariant.  MapsAgree says how the maps are related; this says what *)
(* the databases hold, which a removal relies on: it visits the indexes of *)
(* the map only, and a parse adds to what it finds there.                  *)
(***************************************************************************)
WordsOf(f) == Content[f] \cup {MetaName}

\* The two metadata records a document of file f may have.
Plain(f) == [file |-> f, indexed |-> FALSE, pages |-> 0]
Full(f) == [file |-> f, indexed |-> TRUE, pages |-> Pages[f]]

PagesOf(f) == [p \in 1 .. Pages[f] |-> f]

\* Records, words and pages of the documents.
Exact(c) ==
    /\ \A d \in DOMAIN c.docMeta : \E f \in File : c.docMeta[d] \in {Plain(f), Full(f)}
    /\ \A x \in NdxName, d \in DocNum, f \in File :
            <<d, f>> \in c.ndx[x] <=> /\ d \in DOMAIN c.docMeta
                                      /\ c.docMeta[d] = Full(f)
                                      /\ x \in WordsOf(f)
    /\ \A d \in DocNum, f \in File :
            d \in DOMAIN c.docMeta /\ c.docMeta[d] = Full(f) => c.docDb[d] = PagesOf(f)
    /\ \A d \in DocNum :
            (d \notin DOMAIN c.docMeta \/ ~ c.docMeta[d].indexed) => c.docDb[d] = None

\* m is the index map for the indexes of c.
NdxExact(c, m) == /\ DOMAIN m = {x \in NdxName : c.ndx[x] # {}}
                  /\ \A x \in DOMAIN m : m[x] = NbWord(c.ndx[x])

ExactInv == /\ Inv
            /\ Exact(col)
            /\ NdxExact(col, NdxMap)
            /\ DOMAIN col.docMeta = Range(DocMap)

LEMMA RecordTypes ==
    ASSUME NEW f \in File
    PROVE  /\ Plain(f) \in DocMeta /\ Full(f) \in DocMeta
           /\ ~ Plain(f).indexed /\ Full(f).indexed
           /\ Plain(f).file = f /\ Full(f).file = f
           /\ Plain(f).pages = 0 /\ Full(f).pages = Pages[f]
BY FileAssumption DEF Plain, Full, DocMeta

LEMMA RecordEqual ==
    ASSUME NEW a \in DocMeta, NEW b \in DocMeta,
           a.file = b.file, a.indexed = b.indexed, a.pages = b.pages
    PROVE  a = b
BY DEF DocMeta

LEMMA ExactInitially == Init => ExactInv
<1> SUFFICES ASSUME Init PROVE ExactInv
  OBVIOUS
<1>1. /\ col.docMap = None /\ col.ndxMap = None
      /\ col.dbDocMap = None /\ col.dbNdxMap = None /\ col.docMeta = None
      /\ col.docDb = [d \in DocNum |-> None]
      /\ col.ndx = [x \in NdxName |-> {}]
      /\ DOMAIN None = {}
      /\ isOpen = FALSE
  BY NoneType DEF Init, Empty
<1>2. Exact(col)
  BY <1>1 DEF Exact
<1>3. NdxExact(col, NdxMap)
  BY <1>1 DEF NdxExact, NdxMap
<1>4. DOMAIN col.docMeta = Range(DocMap)
  BY <1>1 DEF DocMap, Range
<1> QED
  BY <1>2, <1>3, <1>4, InitInv DEF ExactInv

-----------------------------------------------------------------------------
(***************************************************************************)
(* What the steps of the operations make of an exact collection.           *)
(***************************************************************************)
LEMMA IndexRemovedExact ==
    ASSUME NEW c, IsCol(c), Exact(c), NdxExact(c, c.ndxMap),
           NEW d \in DOMAIN c.docMeta, NEW r, r = IndexRemoved(c, d)
    PROVE  /\ Exact(r)
           /\ NdxExact(r, r.ndxMap)
           /\ r.docMeta = [c.docMeta EXCEPT ![d] = Plain(c.docMeta[d].file)]
<1> DEFINE f == c.docMeta[d].file
<1>0. /\ d \in DocNum /\ f \in File
      /\ c.docMeta[d] \in DocMeta
      /\ c.docMeta[d] \in {Plain(f), Full(f)}
  <2>1. d \in DocNum /\ c.docMeta[d] \in DocMeta
    BY DEF IsCol, IsMap
  <2>2. PICK g \in File : c.docMeta[d] \in {Plain(g), Full(g)}
    BY DEF Exact
  <2>3. f = g
    BY <2>2, RecordTypes
  <2> QED
    BY <2>1, <2>2, <2>3
<1>1. CASE ~ c.docMeta[d].indexed
  <2>1. r = c /\ c.docMeta[d] = Plain(f)
    BY <1>0, <1>1, RecordTypes DEF IndexRemoved
  <2>2. c.docMeta = [c.docMeta EXCEPT ![d] = Plain(f)]
    BY <2>1 DEF IsCol, IsMap
  <2> QED
    BY <2>1, <2>2
<1>2. CASE c.docMeta[d].indexed
  <2> DEFINE left == [x \in NdxName |-> IF x \in DOMAIN c.ndxMap
                                        THEN {e \in c.ndx[x] : e[1] # d}
                                        ELSE c.ndx[x]]
             kept == {x \in DOMAIN c.ndxMap : left[x] # {}}
             newMap == [x \in kept |-> NbWord(left[x])]
             meta == [c.docMeta[d] EXCEPT !.indexed = FALSE, !.pages = 0]
  <2>1. /\ r.ndx = left
        /\ r.ndxMap = newMap
        /\ r.docDb = [c.docDb EXCEPT ![d] = None]
        /\ r.docMeta = [c.docMeta EXCEPT ![d] = meta]
    BY <1>0, <1>2 DEF IndexRemoved, IsCol, IsMap, DocMeta
  <2>2. meta = Plain(f)
    <3>1. c.docMeta[d] = Full(f)
      BY <1>0, <1>2, RecordTypes
    <3>2. /\ meta \in DocMeta /\ ~ meta.indexed
          /\ meta.file = f /\ meta.pages = 0
      BY <1>0, <3>1, RecordTypes DEF DocMeta
    <3>3. /\ Plain(f) \in DocMeta /\ ~ Plain(f).indexed
          /\ Plain(f).file = f /\ Plain(f).pages = 0
      BY <1>0, RecordTypes
    <3>4. meta.indexed = Plain(f).indexed
      BY <3>2, <3>3 DEF DocMeta
    <3> HIDE DEF meta, f
    <3> QED
      BY <3>2, <3>3, <3>4, RecordEqual
  <2>3. \A x \in NdxName : left[x] = {e \in c.ndx[x] : e[1] # d}
    BY DEF NdxExact
  <2>4. \A x \in NdxName : left[x] # {} => x \in DOMAIN c.ndxMap
    BY <2>3 DEF NdxExact
  <2>5. NdxExact(r, r.ndxMap)
    <3>1. kept = {x \in NdxName : left[x] # {}}
      BY <2>4 DEF NdxExact
    <3>2. DOMAIN newMap = kept /\ \A x \in kept : newMap[x] = NbWord(left[x])
      OBVIOUS
    <3> HIDE DEF kept, newMap, left
    <3> QED
      BY <2>1, <3>1, <3>2 DEF NdxExact
  <2> HIDE DEF left, kept, newMap, meta
  <2>6. /\ DOMAIN r.docMeta = DOMAIN c.docMeta
        /\ r.docMeta[d] = Plain(f)
        /\ \A n \in DOMAIN c.docMeta \ {d} : r.docMeta[n] = c.docMeta[n]
        /\ ~ Plain(f).indexed
    BY <1>0, <2>1, <2>2, RecordTypes
  <2>7. /\ r.docDb[d] = None
        /\ \A n \in DocNum \ {d} : r.docDb[n] = c.docDb[n]
    BY <1>0, <2>1 DEF IsCol
  <2>8. \A n \in DOMAIN r.docMeta : \E g \in File : r.docMeta[n] \in {Plain(g), Full(g)}
    BY <1>0, <2>6 DEF Exact
  <2>9. \A x \in NdxName, n \in DocNum, g \in File :
            <<n, g>> \in r.ndx[x] <=> /\ n \in DOMAIN r.docMeta
                                      /\ r.docMeta[n] = Full(g)
                                      /\ x \in WordsOf(g)
    <3> SUFFICES ASSUME NEW x \in NdxName, NEW n \in DocNum, NEW g \in File
                 PROVE  <<n, g>> \in r.ndx[x] <=> /\ n \in DOMAIN r.docMeta
                                                  /\ r.docMeta[n] = Full(g)
                                                  /\ x \in WordsOf(g)
      OBVIOUS
    <3>1. <<n, g>> \in r.ndx[x] <=> <<n, g>> \in c.ndx[x] /\ n # d
      BY <2>1, <2>3
    <3>2. <<n, g>> \in c.ndx[x] <=> /\ n \in DOMAIN c.docMeta
                                    /\ c.docMeta[n] = Full(g)
                                    /\ x \in WordsOf(g)
      BY DEF Exact
    <3>3. n = d => r.docMeta[n] # Full(g)
      BY <2>6, RecordTypes
    <3> QED
      BY <2>6, <3>1, <3>2, <3>3
  <2>10. \A n \in DocNum, g \in File :
            n \in DOMAIN r.docMeta /\ r.docMeta[n] = Full(g) => r.docDb[n] = PagesOf(g)
    <3>1. \A g \in File : Plain(f) # Full(g)
      BY <1>0, RecordTypes
    <3> QED
      BY <2>6, <2>7, <3>1 DEF Exact
  <2>11. \A n \in DocNum :
            (n \notin DOMAIN r.docMeta \/ ~ r.docMeta[n].indexed) => r.docDb[n] = None
    BY <2>6, <2>7 DEF Exact
  <2>12. Exact(r)
    BY <2>8, <2>9, <2>10, <2>11 DEF Exact
  <2> QED
    BY <2>1, <2>2, <2>5, <2>12
<1> QED
  BY <1>1, <1>2

\* A parse of file f for document d adds its words to the indexes S, stores
\* its pages if it has none yet, and keeps the index map exact.
ParseAdds(c, r, d, f, S, n) ==
    /\ NdxExact(r, r.ndxMap)
    /\ r.docMeta = c.docMeta
    /\ \A x \in NdxName : \A e : e \in r.ndx[x] <=> e \in c.ndx[x] \/ (x \in S /\ e = <<d, f>>)
    /\ \A i \in DocNum \ {d} : r.docDb[i] = c.docDb[i]
    /\ n = 0 => r.docDb[d] = c.docDb[d]
    /\ c.docDb[d] = None /\ n = Pages[f] => r.docDb[d] = PagesOf(f)

LEMMA ParsedAdds ==
    ASSUME NEW c, IsCol(c), NdxExact(c, c.ndxMap), NEW d \in DOMAIN c.docMeta,
           NEW S \in SUBSET NdxName, NEW n \in Nat, NEW r, r = Parsed(c, d, S, n)
    PROVE  ParseAdds(c, r, d, c.docMeta[d].file, S, n)
<1> DEFINE f == c.docMeta[d].file
           new == [x \in NdxName |-> IF x \in S THEN c.ndx[x] \cup {<<d, f>>} ELSE c.ndx[x]]
           newMap == [x \in DOMAIN c.ndxMap \cup S |->
                        IF x \in S THEN NbWord(new[x]) ELSE c.ndxMap[x]]
           pages == [p \in DOMAIN c.docDb[d] \cup 1 .. n |->
                        IF p \in 1 .. n THEN f ELSE c.docDb[d][p]]
<1>1. d \in DocNum
  BY DEF IsCol, IsMap
<1>2. /\ r.docMeta = c.docMeta
      /\ r.ndx = new
      /\ r.ndxMap = newMap
      /\ r.docDb = [c.docDb EXCEPT ![d] = pages]
  BY <1>1 DEF Parsed, IsCol
<1>3. \A x \in NdxName : /\ x \in S => new[x] # {}
                         /\ x \notin S => new[x] = c.ndx[x]
  OBVIOUS
<1>4. /\ DOMAIN newMap = DOMAIN c.ndxMap \cup S
      /\ \A x \in DOMAIN newMap : newMap[x] = IF x \in S THEN NbWord(new[x]) ELSE c.ndxMap[x]
  OBVIOUS
<1>5. \A x \in NdxName : c.ndx[x] # {} => new[x] # {}
  OBVIOUS
<1>6. n = 0 => pages = c.docDb[d]
  <2> SUFFICES ASSUME n = 0 PROVE pages = c.docDb[d]
    OBVIOUS
  <2>1. 1 .. n = {}
    OBVIOUS
  <2>2. c.docDb[d] = [p \in DOMAIN c.docDb[d] |-> c.docDb[d][p]]
    BY <1>1 DEF IsCol, IsMap
  <2> QED
    BY <2>1, <2>2
<1>7. c.docDb[d] = None /\ n = Pages[f] => pages = PagesOf(f)
  <2> SUFFICES ASSUME c.docDb[d] = None, n = Pages[f] PROVE pages = PagesOf(f)
    OBVIOUS
  <2>1. DOMAIN c.docDb[d] = {}
    BY NoneType
  <2> QED
    BY <2>1 DEF PagesOf
<1>8. \A x \in NdxName : \A e : e \in r.ndx[x] <=> e \in c.ndx[x] \/ (x \in S /\ e = <<d, f>>)
  BY <1>2
<1> HIDE DEF f, new, newMap, pages
<1>9. NdxExact(r, r.ndxMap)
  <2>1. DOMAIN newMap = {x \in NdxName : new[x] # {}}
    BY <1>3, <1>4, <1>5 DEF NdxExact
  <2>2. \A x \in DOMAIN newMap : newMap[x] = NbWord(new[x])
    BY <1>3, <1>4 DEF NdxExact
  <2> QED
    BY <1>2, <2>1, <2>2 DEF NdxExact
<1>10. /\ r.docDb[d] = pages
       /\ \A i \in DocNum \ {d} : r.docDb[i] = c.docDb[i]
  BY <1>1, <1>2 DEF IsCol
<1> QED
  BY <1>2, <1>6, <1>7, <1>8, <1>9, <1>10 DEF f, ParseAdds

\* IndexDocument, when no parse fails, stores the document in full and its
\* metadata after it.
LEMMA IndexedExact ==
    ASSUME Faults = {}, NEW c, IsCol(c), Exact(c), NdxExact(c, c.ndxMap),
           NEW d \in DOMAIN c.docMeta, NEW r \in Indexed(c, d)
    PROVE  /\ Exact(r)
           /\ NdxExact(r, r.ndxMap)
           /\ r.docMeta = [c.docMeta EXCEPT ![d] = Full(c.docMeta[d].file)]
<1> DEFINE f == c.docMeta[d].file
           S == Content[f]
           n == Pages[f]
           c0 == IndexRemoved(c, d)
           c1 == Parsed(c0, d, S, n)
           c2 == Recorded(c1, d)
           M == {MetaName}
           z == 0
<1>1. r = Parsed(c2, d, M, z)
  BY DEF Indexed
<1>2. /\ d \in DocNum /\ f \in File
      /\ S \in SUBSET NdxName /\ n \in Nat /\ n = Pages[f] /\ n <= Pages[f]
      /\ M \in SUBSET NdxName /\ z \in Nat /\ z = 0
  BY FileAssumption DEF IsCol, IsMap, DocMeta
<1>3. c0 = IndexRemoved(c, d) /\ c1 = Parsed(c0, d, S, n) /\ c2 = Recorded(c1, d)
  OBVIOUS
<1>4. WordsOf(f) = S \cup M
  BY DEF WordsOf
<1> HIDE DEF f, S, n, M, z, c0, c1, c2
<1>5. /\ IsCol(c0) /\ Exact(c0) /\ NdxExact(c0, c0.ndxMap)
      /\ c0.docMeta = [c.docMeta EXCEPT ![d] = Plain(f)]
  BY <1>3, IndexRemovedKeeps, IndexRemovedExact DEF f
<1>6. /\ d \in DOMAIN c0.docMeta
      /\ c0.docMeta[d] = Plain(f) /\ c0.docMeta[d].file = f
      /\ c0.docDb[d] = None
  BY <1>2, <1>5, RecordTypes DEF Exact
<1>7. /\ IsCol(c1) /\ NdxExact(c1, c1.ndxMap)
      /\ c1.docMeta = c0.docMeta
      /\ \A x \in NdxName : \A e : e \in c1.ndx[x] <=> e \in c0.ndx[x] \/ (x \in S /\ e = <<d, f>>)
      /\ \A i \in DocNum \ {d} : c1.docDb[i] = c0.docDb[i]
      /\ c1.docDb[d] = PagesOf(f)
  <2>1. IsCol(c1)
    BY <1>2, <1>3, <1>5, <1>6, ParsedKeeps
  <2>2. ParseAdds(c0, c1, d, f, S, n)
    BY <1>2, <1>3, <1>5, <1>6, ParsedAdds
  <2> QED
    BY <1>2, <1>6, <2>1, <2>2 DEF ParseAdds
<1>8. /\ IsCol(c2) /\ NdxExact(c2, c2.ndxMap)
      /\ c2.docMeta = [c1.docMeta EXCEPT ![d] = Full(f)]
      /\ c2.ndx = c1.ndx /\ c2.docDb = c1.docDb
  <2> DEFINE meta == [c1.docMeta[d] EXCEPT !.indexed = TRUE,
                                           !.pages = Cardinality(DOMAIN c1.docDb[d])]
  <2>1. Cardinality(DOMAIN c1.docDb[d]) = Pages[f]
    <3>1. DOMAIN c1.docDb[d] = 1 .. Pages[f] /\ Pages[f] \in Nat
      BY <1>2, <1>7, FileAssumption DEF PagesOf
    <3>2. Cardinality(1 .. Pages[f]) = Pages[f]
      BY <3>1, FS_Interval
    <3> QED
      BY <3>1, <3>2
  <2>2. meta = Full(f)
    <3>1. c1.docMeta[d] = Plain(f)
      BY <1>6, <1>7
    <3>2. /\ Full(f) \in DocMeta /\ Full(f).indexed
          /\ Full(f).file = f /\ Full(f).pages = Pages[f]
          /\ Plain(f) \in DocMeta /\ Plain(f).file = f
      BY <1>2, RecordTypes
    <3>3. /\ meta \in DocMeta /\ meta.indexed
          /\ meta.file = f /\ meta.pages = Pages[f]
      BY <1>2, <2>1, <3>1, <3>2, FileAssumption DEF DocMeta
    <3>4. meta.indexed = Full(f).indexed
      BY <3>2, <3>3 DEF DocMeta
    <3> HIDE DEF meta
    <3> QED
      BY <3>2, <3>3, <3>4, RecordEqual
  <2>3. d \in DOMAIN c1.docMeta /\ c1.docMeta[d] \in DocMeta
    BY <1>6, <1>7 DEF IsCol, IsMap
  <2>4. /\ DOMAIN c2 = DOMAIN c1
        /\ c2.docMap = c1.docMap
        /\ c2.intToDocMap = c1.intToDocMap
        /\ c2.ndxMap = c1.ndxMap
        /\ c2.dbDocMap = c1.dbDocMap
        /\ c2.dbNdxMap = c1.dbNdxMap
        /\ c2.ndx = c1.ndx
        /\ c2.docDb = c1.docDb
        /\ c2.docMeta = [c1.docMeta EXCEPT ![d] = meta]
    BY <1>3, <1>7, <2>3 DEF Recorded, IsCol, IsMap, DocMeta
  <2> HIDE DEF meta
  <2>5. IsMap(c2.docMeta, DocNum, DocMeta)
    BY <1>2, <1>7, <2>2, <2>3, <2>4, RecordTypes DEF IsCol, IsMap
  <2>6. IsCol(c2)
    BY <1>7, <2>4, <2>5 DEF IsCol
  <2> QED
    BY <1>7, <2>2, <2>4, <2>6 DEF NdxExact
<1>9. d \in DOMAIN c2.docMeta /\ c2.docMeta[d] = Full(f) /\ c2.docMeta[d].file = f
  BY <1>2, <1>6, <1>7, <1>8, RecordTypes
<1>10. /\ NdxExact(r, r.ndxMap)
       /\ r.docMeta = c2.docMeta
       /\ \A x \in NdxName : \A e : e \in r.ndx[x] <=> e \in c2.ndx[x] \/ (x \in M /\ e = <<d, f>>)
       /\ \A i \in DocNum \ {d} : r.docDb[i] = c2.docDb[i]
       /\ r.docDb[d] = c2.docDb[d]
  <2>1. ParseAdds(c2, r, d, f, M, z)
    BY <1>1, <1>2, <1>8, <1>9, ParsedAdds
  <2> QED
    BY <1>2, <2>1 DEF ParseAdds
<1>11. /\ DOMAIN r.docMeta = DOMAIN c0.docMeta
       /\ r.docMeta[d] = Full(f)
       /\ \A i \in DOMAIN c0.docMeta \ {d} : r.docMeta[i] = c0.docMeta[i]
       /\ \A i \in DocNum \ {d} : r.docDb[i] = c0.docDb[i]
       /\ r.docDb[d] = PagesOf(f)
  BY <1>6, <1>7, <1>8, <1>10
<1>12. \A i \in DOMAIN r.docMeta : \E g \in File : r.docMeta[i] \in {Plain(g), Full(g)}
  BY <1>2, <1>5, <1>11 DEF Exact
<1>13. \A x \in NdxName, i \in DocNum, g \in File :
            <<i, g>> \in r.ndx[x] <=> /\ i \in DOMAIN r.docMeta
                                      /\ r.docMeta[i] = Full(g)
                                      /\ x \in WordsOf(g)
  <2> SUFFICES ASSUME NEW x \in NdxName, NEW i \in DocNum, NEW g \in File
               PROVE  <<i, g>> \in r.ndx[x] <=> /\ i \in DOMAIN r.docMeta
                                                /\ r.docMeta[i] = Full(g)
                                                /\ x \in WordsOf(g)
    OBVIOUS
  <2>1. <<i, g>> \in r.ndx[x] <=> \/ <<i, g>> \in c0.ndx[x]
                                  \/ i = d /\ g = f /\ x \in S \cup M
    BY <1>7, <1>8, <1>10
  <2>2. <<i, g>> \in c0.ndx[x] <=> /\ i \in DOMAIN c0.docMeta
                                   /\ c0.docMeta[i] = Full(g)
                                   /\ x \in WordsOf(g)
    BY <1>5 DEF Exact
  <2>3. c0.docMeta[d] # Full(g) /\ (Full(f) = Full(g) => f = g)
    BY <1>2, <1>6, RecordTypes
  <2>4. CASE i = d
    BY <1>4, <1>6, <1>11, <2>1, <2>2, <2>3, <2>4
  <2>5. CASE i # d
    BY <1>11, <2>1, <2>2, <2>5
  <2> QED
    BY <2>4, <2>5
<1>14. \A i \in DocNum, g \in File :
            i \in DOMAIN r.docMeta /\ r.docMeta[i] = Full(g) => r.docDb[i] = PagesOf(g)
  <2>1. \A g \in File : Full(f) = Full(g) => f = g
    BY <1>2, RecordTypes
  <2> QED
    BY <1>5, <1>11, <2>1 DEF Exact
<1>15. \A i \in DocNum :
            (i \notin DOMAIN r.docMeta \/ ~ r.docMeta[i].indexed) => r.docDb[i] = None
  BY <1>2, <1>5, <1>6, <1>11, RecordTypes DEF Exact
<1>16. Exact(r)
  BY <1>12, <1>13, <1>14, <1>15 DEF Exact
<1>17. r.docMeta = [c.docMeta EXCEPT ![d] = Full(f)]
  BY <1>5, <1>7, <1>8, <1>10
<1> QED
  BY <1>10, <1>16, <1>17 DEF f

\* Only these parts of a collection matter.
LEMMA SameExact ==
    ASSUME NEW c, NEW r, Exact(c),
           r.docMeta = c.docMeta, r.docDb = c.docDb, r.ndx = c.ndx
    PROVE  Exact(r)
BY DEF Exact

LEMMA AddedExact ==
    ASSUME NEW c, IsCol(c), Exact(c), NdxExact(c, c.ndxMap),
           NEW f \in File, NEW d \in DocNum, d \notin DOMAIN c.docMeta,
           NEW r, r = Added(c, f, d)
    PROVE  /\ Exact(r)
           /\ NdxExact(r, r.ndxMap)
           /\ r.docMeta = With(c.docMeta, d, Plain(f))
<1>1. /\ r.docMeta = With(c.docMeta, d, Plain(f))
      /\ r.ndxMap = c.ndxMap /\ r.docDb = c.docDb /\ r.ndx = c.ndx
  BY DEF IsCol, Added, Plain
<1>2. /\ DOMAIN r.docMeta = DOMAIN c.docMeta \cup {d}
      /\ r.docMeta[d] = Plain(f)
      /\ \A n \in DOMAIN c.docMeta : r.docMeta[n] = c.docMeta[n]
  BY <1>1 DEF With
<1>3. \A g \in File : Plain(f) # Full(g)
  BY RecordTypes
<1>4. Exact(r)
  BY <1>1, <1>2, <1>3 DEF Exact
<1> QED
  BY <1>1, <1>4 DEF NdxExact

LEMMA RemovedExact ==
    ASSUME NEW c, IsCol(c), Exact(c), NdxExact(c, c.ndxMap),
           NEW d \in DOMAIN c.docMeta, NEW r, r = Removed(c, d)
    PROVE  /\ Exact(r)
           /\ NdxExact(r, r.ndxMap)
           /\ r.docMeta = Without(c.docMeta, d)
<1> DEFINE f == c.docMeta[d].file
           q == IndexRemoved(c, d)
<1>1. /\ IsCol(q) /\ Exact(q) /\ NdxExact(q, q.ndxMap)
      /\ q.docMeta = [c.docMeta EXCEPT ![d] = Plain(f)]
  BY IndexRemovedKeeps, IndexRemovedExact
<1>2. d \in DocNum /\ f \in File
  BY DEF IsCol, IsMap, DocMeta
<1>3. /\ r.docMeta = Without(q.docMeta, d)
      /\ r.ndxMap = q.ndxMap /\ r.docDb = q.docDb /\ r.ndx = q.ndx
  BY <1>1 DEF Removed, IsCol
<1> HIDE DEF f, q
<1>4. q.docMeta[d] = Plain(f) /\ d \in DOMAIN q.docMeta
  BY <1>1
<1>5. /\ DOMAIN r.docMeta = DOMAIN q.docMeta \ {d}
      /\ \A n \in DOMAIN r.docMeta : r.docMeta[n] = q.docMeta[n]
  BY <1>3 DEF Without
<1>6. \A g \in File : Plain(f) # Full(g)
  BY <1>2, RecordTypes
<1>7. q.docDb[d] = None
  BY <1>1, <1>2, <1>4, RecordTypes DEF Exact
<1>8. Exact(r)
  BY <1>1, <1>3, <1>4, <1>5, <1>6, <1>7 DEF Exact
<1>9. r.docMeta = Without(c.docMeta, d)
  BY <1>1, <1>3 DEF Without
<1> QED
  BY <1>1, <1>3, <1>8, <1>9 DEF NdxExact

LEMMA ReplacedExact ==
    ASSUME NEW c, IsCol(c), Exact(c), NdxExact(c, c.ndxMap),
           NEW d \in DOMAIN c.docMeta, NEW f \in File, NEW r, r = Replaced(c, d, f)
    PROVE  /\ Exact(r)
           /\ NdxExact(r, r.ndxMap)
           /\ r.docMeta = [c.docMeta EXCEPT ![d] = Plain(f)]
<1> DEFINE old == c.docMeta[d].file
           q == IndexRemoved(c, d)
           meta == [q.docMeta[d] EXCEPT !.file = f]
<1>1. /\ IsCol(q) /\ Exact(q) /\ NdxExact(q, q.ndxMap)
      /\ q.docMeta = [c.docMeta EXCEPT ![d] = Plain(old)]
  BY IndexRemovedKeeps, IndexRemovedExact
<1>2. d \in DocNum /\ old \in File
  BY DEF IsCol, IsMap, DocMeta
<1>3. /\ r.docMeta = [q.docMeta EXCEPT ![d] = meta]
      /\ r.ndxMap = q.ndxMap /\ r.docDb = q.docDb /\ r.ndx = q.ndx
  BY <1>1 DEF Replaced, IsCol
<1> HIDE DEF old, q
<1>4. q.docMeta[d] = Plain(old) /\ d \in DOMAIN q.docMeta
  BY <1>1
<1>5. meta = Plain(f)
  <2>1. Plain(old) \in DocMeta /\ ~ Plain(old).indexed /\ Plain(old).pages = 0
    BY <1>2, RecordTypes
  <2>2. /\ meta \in DocMeta /\ ~ meta.indexed
        /\ meta.file = f /\ meta.pages = 0
    BY <1>4, <2>1 DEF DocMeta
  <2>3. /\ Plain(f) \in DocMeta /\ ~ Plain(f).indexed
        /\ Plain(f).file = f /\ Plain(f).pages = 0
    BY RecordTypes
  <2>4. meta.indexed = Plain(f).indexed
    BY <2>2, <2>3 DEF DocMeta
  <2> HIDE DEF meta
  <2> QED
    BY <2>2, <2>3, <2>4, RecordEqual
<1> HIDE DEF meta
<1>6. /\ DOMAIN r.docMeta = DOMAIN q.docMeta
      /\ r.docMeta[d] = Plain(f)
      /\ \A n \in DOMAIN q.docMeta \ {d} : r.docMeta[n] = q.docMeta[n]
  BY <1>3, <1>4, <1>5
<1>7. /\ \A g \in File : Plain(f) # Full(g) /\ Plain(old) # Full(g)
      /\ ~ Plain(f).indexed /\ ~ Plain(old).indexed
  BY <1>2, RecordTypes
<1>8. Exact(r)
  BY <1>1, <1>3, <1>4, <1>6, <1>7 DEF Exact
<1>9. r.docMeta = [c.docMeta EXCEPT ![d] = Plain(f)]
  BY <1>1, <1>3, <1>5
<1> QED
  BY <1>1, <1>3, <1>8, <1>9 DEF NdxExact

LEMMA ClearedExact ==
    ASSUME NEW c, IsCol(c), Exact(c), NdxExact(c, c.ndxMap),
           DOMAIN c.docMeta = Range(c.docMap), NEW r, r = Cleared(c)
    PROVE  /\ Exact(r)
           /\ NdxExact(r, r.ndxMap)
           /\ r.docMeta = None /\ r.docMap = None
<1>1. /\ r.docMap = None /\ r.ndxMap = None /\ r.docMeta = None
      /\ r.docDb = [d \in DocNum |-> IF d \in Range(c.docMap) THEN None ELSE c.docDb[d]]
      /\ r.ndx = [x \in NdxName |-> IF x \in DOMAIN c.ndxMap THEN {} ELSE c.ndx[x]]
      /\ DOMAIN None = {}
  BY NoneType DEF Cleared, IsCol
<1>2. \A d \in DocNum : r.docDb[d] = None
  BY <1>1 DEF Exact
<1>3. \A x \in NdxName : r.ndx[x] = {}
  BY <1>1 DEF NdxExact
<1>4. Exact(r)
  BY <1>1, <1>2, <1>3 DEF Exact
<1>5. NdxExact(r, r.ndxMap)
  BY <1>1, <1>3 DEF NdxExact
<1> QED
  BY <1>1, <1>4, <1>5

-----------------------------------------------------------------------------
(***************************************************************************)
(* The steps.  What a step does to the metadata records N = M' is a step   *)
(* of Catalog, or none.                                                    *)
(***************************************************************************)
CatalogStep(M, N) ==
    \/ \E f \in File, d \in DocNum :
            /\ \A n \in DOMAIN M : n < d /\ M[n].file # f
            /\ N = With(M, d, Plain(f)) \/ N = With(M, d, Full(f))
    \/ \E d \in DOMAIN M : \/ N = With(M, d, Full(M[d].file))
                           \/ N = With(M, d, Plain(M[d].file))
                           \/ N = Without(M, d)
    \/ \E d \in DOMAIN M, f \in File : /\ \A n \in DOMAIN M : M[n].file # f
                                       /\ N = With(M, d, Plain(f))
    \/ N = None
    \/ N = M

StepExact == /\ Exact(col')
             /\ NdxExact(col', NdxMap')
             /\ DOMAIN col'.docMeta = Range(DocMap')
             /\ CatalogStep(col.docMeta, col'.docMeta)

LEMMA ExceptWith ==
    ASSUME NEW M, M = [n \in DOMAIN M |-> M[n]], NEW d \in DOMAIN M, NEW v
    PROVE  [M EXCEPT ![d] = v] = With(M, d, v)
BY DEF With

\* After a step of an open collection the number of a document is in the
\* reverse map, which MapsAgree compares with the map.
LEMMA OpenStepExact ==
    ASSUME Inv', isOpen', Exact(col'), NdxExact(col', col'.ndxMap),
           DOMAIN col'.docMeta = DOMAIN col'.intToDocMap,
           CatalogStep(col.docMeta, col'.docMeta)
    PROVE  StepExact
BY DEF StepExact, Inv, MapsAgree, DocMap, NdxMap

\* What the steps start from.
LEMMA ExactOpen ==
    ASSUME ExactInv, isOpen
    PROVE  /\ IsCol(col) /\ AllStored(col) /\ Exact(col) /\ NdxExact(col, col.ndxMap)
           /\ DOMAIN col.docMeta = Range(col.docMap)
           /\ DOMAIN col.docMeta = DOMAIN col.intToDocMap
           /\ \A f \in File : f \notin DOMAIN col.docMap =>
                    \A n \in DOMAIN col.docMeta : col.docMeta[n].file # f
           /\ col.docMeta = [n \in DOMAIN col.docMeta |-> col.docMeta[n]]
<1>1. IsCol(col) /\ AllStored(col) /\ Exact(col) /\ NdxExact(col, col.ndxMap)
  BY DEF ExactInv, Inv, TypeOK, NdxMap
<1>2. /\ DOMAIN col.docMeta = Range(col.docMap)
      /\ DOMAIN col.docMeta = DOMAIN col.intToDocMap
  BY DEF ExactInv, Inv, MapsAgree, DocMap
<1>3. \A n \in DOMAIN col.docMeta : col.docMeta[n].file \in DOMAIN col.docMap
  <2>1. Inv
    BY DEF ExactInv
  <2> QED
    BY <1>2, <2>1, KnownDocument
<1>4. col.docMeta = [n \in DOMAIN col.docMeta |-> col.docMeta[n]]
  BY <1>1 DEF IsCol, IsMap
<1> QED
  BY <1>1, <1>2, <1>3, <1>4

LEMMA AddDocumentExact ==
    ASSUME Faults = {}, ExactInv, Inv', NEW f \in File, NEW d \in DocNum,
           NEW wantIndex \in BOOLEAN, AddDocument(f, d, wantIndex)
    PROVE  StepExact
<1> DEFINE r == Added(col, f, d)
<1>1. /\ isOpen /\ isOpen'
      /\ f \in File \ DOMAIN col.docMap
      /\ IsNextDocNum(col, d)
      /\ col' \in Indexed(r, d) \/ col' = r
      /\ Inv
  BY DEF AddDocument, Adds, ExactInv, Inv, TypeOK
<1>2. r = Added(col, f, d)
  OBVIOUS
<1> HIDE DEF r
<1>3. /\ IsCol(col) /\ Exact(col) /\ NdxExact(col, col.ndxMap)
      /\ DOMAIN col.docMeta = Range(col.docMap)
      /\ DOMAIN col.docMeta = DOMAIN col.intToDocMap
      /\ \A n \in DOMAIN col.docMeta : col.docMeta[n].file # f
  BY <1>1, ExactOpen
<1>4. \A n \in DOMAIN col.docMeta : n < d
  BY <1>1, <1>3 DEF IsNextDocNum
<1>5. d \notin DOMAIN col.docMeta
  BY <1>4 DEF DocNum
<1>6. /\ Exact(r) /\ NdxExact(r, r.ndxMap)
      /\ r.docMeta = With(col.docMeta, d, Plain(f))
  BY <1>2, <1>3, <1>5, AddedExact
<1>7. IsCol(r) /\ AllStored(r) /\ d \in DOMAIN r.docMeta
  BY <1>1, <1>2, AddedInv
<1>8. r.intToDocMap = With(col.intToDocMap, d, f)
  BY <1>2, <1>3 DEF Added, IsCol
<1>9. r.docMeta[d] = Plain(f) /\ r.docMeta[d].file = f
  BY <1>6, RecordTypes DEF With
<1>10. DOMAIN r.docMeta = DOMAIN r.intToDocMap
  BY <1>3, <1>6, <1>8 DEF With
<1>11. CASE col' = r
  <2>1. CatalogStep(col.docMeta, col'.docMeta)
    BY <1>3, <1>4, <1>6, <1>11 DEF CatalogStep
  <2> QED
    BY <1>1, <1>6, <1>10, <1>11, <2>1, OpenStepExact
<1>12. CASE col' \in Indexed(r, d)
  <2>1. /\ Exact(col') /\ NdxExact(col', col'.ndxMap)
        /\ col'.docMeta = [r.docMeta EXCEPT ![d] = Full(f)]
    BY <1>6, <1>7, <1>9, <1>12, IndexedExact
  <2>2. SameDocuments(r, col')
    BY <1>7, <1>12, IndexedKeeps
  <2>3. col'.docMeta = With(col.docMeta, d, Full(f))
    BY <1>6, <2>1 DEF With
  <2>4. CatalogStep(col.docMeta, col'.docMeta)
    BY <1>3, <1>4, <2>3 DEF CatalogStep
  <2>5. DOMAIN col'.docMeta = DOMAIN col'.intToDocMap
    BY <1>10, <2>2 DEF SameDocuments
  <2> QED
    BY <1>1, <2>1, <2>4, <2>5, OpenStepExact
<1> QED
  BY <1>1, <1>11, <1>12

LEMMA IndexDocumentExact ==
    ASSUME Faults = {}, ExactInv, Inv', NEW d \in DocNum, IndexDocument(d)
    PROVE  StepExact
<1>1. isOpen /\ isOpen' /\ d \in DOMAIN col.docMeta /\ col' \in Indexed(col, d)
  BY DEF IndexDocument, Known
<1>2. /\ IsCol(col) /\ AllStored(col) /\ Exact(col) /\ NdxExact(col, col.ndxMap)
      /\ DOMAIN col.docMeta = DOMAIN col.intToDocMap
      /\ col.docMeta = [n \in DOMAIN col.docMeta |-> col.docMeta[n]]
  BY <1>1, ExactOpen
<1>3. /\ Exact(col') /\ NdxExact(col', col'.ndxMap)
      /\ col'.docMeta = [col.docMeta EXCEPT ![d] = Full(col.docMeta[d].file)]
  BY <1>1, <1>2, IndexedExact
<1>4. DOMAIN col'.docMeta = DOMAIN col'.intToDocMap
  BY <1>1, <1>2, IndexedKeeps DEF SameDocuments
<1>5. col'.docMeta = With(col.docMeta, d, Full(col.docMeta[d].file))
  BY <1>1, <1>2, <1>3, ExceptWith
<1>6. CatalogStep(col.docMeta, col'.docMeta)
  BY <1>1, <1>5 DEF CatalogStep
<1> QED
  BY <1>1, <1>3, <1>4, <1>6, OpenStepExact

LEMMA RemoveDocumentIndexExact ==
    ASSUME ExactInv, Inv', NEW d \in DocNum, RemoveDocumentIndex(d)
    PROVE  StepExact
<1>1. isOpen /\ isOpen' /\ d \in DOMAIN col.docMeta /\ col' = IndexRemoved(col, d)
  BY DEF RemoveDocumentIndex, Known
<1>2. /\ IsCol(col) /\ Exact(col) /\ NdxExact(col, col.ndxMap)
      /\ DOMAIN col.docMeta = DOMAIN col.intToDocMap
      /\ col.docMeta = [n \in DOMAIN col.docMeta |-> col.docMeta[n]]
  BY <1>1, ExactOpen
<1>3. /\ Exact(col') /\ NdxExact(col', col'.ndxMap)
      /\ col'.docMeta = [col.docMeta EXCEPT ![d] = Plain(col.docMeta[d].file)]
  BY <1>1, <1>2, IndexRemovedExact
<1>4. DOMAIN col'.docMeta = DOMAIN col'.intToDocMap
  BY <1>1, <1>2, IndexRemovedKeeps DEF SameDocuments
<1>5. col'.docMeta = With(col.docMeta, d, Plain(col.docMeta[d].file))
  BY <1>1, <1>2, <1>3, ExceptWith
<1>6. CatalogStep(col.docMeta, col'.docMeta)
  BY <1>1, <1>5 DEF CatalogStep
<1> QED
  BY <1>1, <1>3, <1>4, <1>6, OpenStepExact

LEMMA RemoveDocumentExact ==
    ASSUME ExactInv, Inv', NEW d \in DocNum, RemoveDocument(d)
    PROVE  StepExact
<1>1. isOpen /\ isOpen' /\ d \in DOMAIN col.docMeta /\ col' = Removed(col, d)
  BY DEF RemoveDocument, Known
<1>2. /\ IsCol(col) /\ Exact(col) /\ NdxExact(col, col.ndxMap)
      /\ DOMAIN col.docMeta = DOMAIN col.intToDocMap
  BY <1>1, ExactOpen
<1>3. /\ Exact(col') /\ NdxExact(col', col'.ndxMap)
      /\ col'.docMeta = Without(col.docMeta, d)
  BY <1>1, <1>2, RemovedExact
<1>4. col'.intToDocMap = Without(col.intToDocMap, d)
  <2> DEFINE q == IndexRemoved(col, d)
             f == col.intToDocMap[d]
  <2>1. IsCol(q) /\ SameDocuments(col, q)
    BY <1>1, <1>2, IndexRemovedKeeps
  <2>2. col' = [q EXCEPT !.docMap = Without(@, f),
                         !.intToDocMap = Without(@, d),
                         !.docMeta = Without(@, d),
                         !.dbDocMap = Without(@, f)]
    BY <1>1 DEF Removed
  <2> HIDE DEF q, f
  <2> QED
    BY <2>1, <2>2 DEF IsCol, SameDocuments
<1>5. DOMAIN col'.docMeta = DOMAIN col'.intToDocMap
  BY <1>2, <1>3, <1>4 DEF Without
<1>6. CatalogStep(col.docMeta, col'.docMeta)
  BY <1>1, <1>3 DEF CatalogStep
<1> QED
  BY <1>1, <1>3, <1>5, <1>6, OpenStepExact

LEMMA SetDocumentMetaExact ==
    ASSUME ExactInv, Inv', NEW d \in DocNum, NEW f \in File, SetDocumentMeta(d, f)
    PROVE  StepExact
<1>1. /\ isOpen /\ isOpen' /\ d \in DOMAIN col.docMeta
      /\ f \notin DOMAIN col.docMap /\ col' = Replaced(col, d, f)
  BY DEF SetDocumentMeta, Known
<1>2. /\ IsCol(col) /\ Exact(col) /\ NdxExact(col, col.ndxMap)
      /\ DOMAIN col.docMeta = DOMAIN col.intToDocMap
      /\ \A n \in DOMAIN col.docMeta : col.docMeta[n].file # f
      /\ col.docMeta = [n \in DOMAIN col.docMeta |-> col.docMeta[n]]
  BY <1>1, ExactOpen
<1>3. /\ Exact(col') /\ NdxExact(col', col'.ndxMap)
      /\ col'.docMeta = [col.docMeta EXCEPT ![d] = Plain(f)]
  BY <1>1, <1>2, ReplacedExact
<1>4. col'.intToDocMap = With(col.intToDocMap, d, f)
  <2> DEFINE q == IndexRemoved(col, d)
             old == col.docMeta[d].file
  <2>1. IsCol(q) /\ SameDocuments(col, q)
    BY <1>1, <1>2, IndexRemovedKeeps
  <2>2. col' = [q EXCEPT !.docMap = With(Without(@, old), f, d),
                         !.intToDocMap = With(@, d, f),
                         !.dbDocMap = With(Without(@, old), f, d),
                         !.docMeta[d].file = f]
    BY <1>1 DEF Replaced
  <2> HIDE DEF q, old
  <2> QED
    BY <2>1, <2>2 DEF IsCol, SameDocuments
<1>5. DOMAIN col'.docMeta = DOMAIN col'.intToDocMap
  BY <1>1, <1>2, <1>3, <1>4 DEF With
<1>6. col'.docMeta = With(col.docMeta, d, Plain(f))
  BY <1>1, <1>2, <1>3, ExceptWith
<1>7. CatalogStep(col.docMeta, col'.docMeta)
  BY <1>1, <1>2, <1>6 DEF CatalogStep
<1> QED
  BY <1>1, <1>3, <1>5, <1>7, OpenStepExact

LEMMA ClearCollectionExact ==
    ASSUME ExactInv, Inv', ClearCollection
    PROVE  StepExact
<1>1. isOpen /\ isOpen' /\ col' = Cleared(col)
  BY DEF ClearCollection
<1>2. /\ IsCol(col) /\ Exact(col) /\ NdxExact(col, col.ndxMap)
      /\ DOMAIN col.docMeta = Range(col.docMap)
  BY <1>1, ExactOpen
<1>3. /\ Exact(col') /\ NdxExact(col', col'.ndxMap)
      /\ col'.docMeta = None
  BY <1>1, <1>2, ClearedExact
<1>4. col'.intToDocMap = None
  BY <1>1, <1>2 DEF Cleared, IsCol
<1>5. CatalogStep(col.docMeta, col'.docMeta)
  BY <1>3 DEF CatalogStep
<1> QED
  BY <1>1, <1>3, <1>4, <1>5, OpenStepExact

\* Opening and closing carry both maps over.
LEMMA CarriedExact ==
    ASSUME ExactInv, Open \/ Close
    PROVE  StepExact
<1>1. /\ DocMap' = DocMap /\ NdxMap' = NdxMap
      /\ col'.docMeta = col.docMeta /\ col'.docDb = col.docDb /\ col'.ndx = col.ndx
  BY DEF Open, Close, Opened, Closed, Ended, DocMap, NdxMap, ExactInv, Inv, TypeOK, IsCol
<1>2. Exact(col')
  BY <1>1 DEF ExactInv, Exact
<1>3. NdxExact(col', NdxMap')
  BY <1>1 DEF ExactInv, NdxExact
<1> QED
  BY <1>1, <1>2, <1>3 DEF StepExact, ExactInv, CatalogStep

LEMMA NextExact ==
    ASSUME Faults = {}, ExactInv, Inv', [Next]_vars
    PROVE  StepExact
<1>1. ASSUME NEW f \in File, NEW d \in DocNum, NEW wantIndex \in BOOLEAN,
             AddDocument(f, d, wantIndex)
      PROVE  StepExact
  BY <1>1, AddDocumentExact
<1>2. ASSUME NEW d \in DocNum, IndexDocument(d) PROVE StepExact
  BY <1>2, IndexDocumentExact
<1>3. ASSUME NEW d \in DocNum, RemoveDocumentIndex(d) PROVE StepExact
  BY <1>3, RemoveDocumentIndexExact
<1>4. ASSUME NEW d \in DocNum, RemoveDocument(d) PROVE StepExact
  BY <1>4, RemoveDocumentExact
<1>5. ASSUME NEW d \in DocNum, NEW f \in File, SetDocumentMeta(d, f) PROVE StepExact
  BY <1>5, SetDocumentMetaExact
<1>6. CASE ClearCollection
  BY <1>6, ClearCollectionExact
<1>7. CASE Open \/ Close
  BY <1>7, CarriedExact
<1>8. ~ Killed
  BY DEF Killed
<1>9. CASE UNCHANGED vars
  BY <1>9 DEF vars, StepExact, ExactInv, Exact, NdxExact, NdxMap, DocMap, CatalogStep
<1> QED
  BY <1>1, <1>2, <1>3, <1>4, <1>5, <1>6, <1>7, <1>8, <1>9 DEF Next

LEMMA ExactKept ==
    ASSUME Faults = {}
    PROVE  ExactInv /\ [Next]_vars => ExactInv' /\ StepExact
<1> SUFFICES ASSUME ExactInv, [Next]_vars PROVE ExactInv' /\ StepExact
  OBVIOUS
<1>1. Inv'
  BY NextInv DEF ExactInv
<1>2. StepExact
  BY <1>1, NextExact
<1> QED
  BY <1>1, <1>2 DEF ExactInv, StepExact

\* Collection.cpp, CloseIndexer and RemoveDocumentIndex: when no parse fails
\* and no process is killed, the index map names the indexes that have words
\* and their numbers of words, however often the collection is opened and
\* closed.  RemoveDocumentIndex and ClearCollection find indexes through it.
THEOREM IndexMapIsExact == Faults = {} => (Spec => []NdxMapIsExact)
<1> SUFFICES ASSUME Faults = {} PROVE Spec => []NdxMapIsExact
  OBVIOUS
<1>1. ExactInv => NdxMapIsExact
  BY DEF ExactInv, NdxExact, NdxMapIsExact
<1>2. ExactInv /\ [Next]_vars => ExactInv'
  BY ExactKept
<1> QED
  BY <1>1, <1>2, ExactInitially, PTL DEF Spec

-----------------------------------------------------------------------------
(***************************************************************************)
(* The refinement.  The documents of Catalog are the metadata records; in  *)
(* an exact collection the words and pages are what Catalog publishes.     *)
(***************************************************************************)
Docs == [d \in Range(DocMap) |-> col.docMeta[d]]
Hits == [x \in NdxName |-> IF x \in DOMAIN NdxMap THEN col.ndx[x] ELSE {}]
Contents == [d \in Range(DocMap) |-> col.docDb[d]]

\* The words found in an index are those of the documents that say so.
LEMMA HitsPublished ==
    ASSUME ExactInv, NEW x \in NdxName
    PROVE  col.ndx[x] = Documents!Found(col.docMeta, x)
<1> DEFINE M == col.docMeta
           D == {n \in DOMAIN M : M[n].indexed /\ x \in WordsOf(M[n].file)}
           F == {<<n, M[n].file>> : n \in D}
<1>1. IsCol(col) /\ Exact(col)
  BY DEF ExactInv, Inv, TypeOK
<1>2. col.ndx[x] \subseteq DocNum \X File
  BY <1>1 DEF IsCol
<1>3. DOMAIN M \subseteq DocNum /\ \A n \in DOMAIN M : M[n].file \in File
  BY <1>1 DEF IsCol, IsMap, DocMeta
<1>4. \A n \in DOMAIN M : M[n].indexed <=> M[n] = Full(M[n].file)
  <2> TAKE n \in DOMAIN M
  <2>1. PICK g \in File : M[n] \in {Plain(g), Full(g)}
    BY <1>1 DEF Exact
  <2> QED
    BY <2>1, RecordTypes
<1>5. \A n \in DOMAIN M, g \in File : M[n] = Full(g) => g = M[n].file
  BY RecordTypes
<1>6. /\ \A n : n \in D <=> n \in DOMAIN M /\ M[n].indexed /\ x \in WordsOf(M[n].file)
      /\ D \subseteq DocNum
  BY <1>3
<1>7. F = Documents!Found(col.docMeta, x)
  BY <1>3 DEF Documents!Found, WordsOf
<1> HIDE DEF M, D
<1>8. ASSUME NEW n \in DocNum, NEW g \in File
      PROVE  <<n, g>> \in col.ndx[x] <=> n \in D /\ g = M[n].file
  <2>1. <<n, g>> \in col.ndx[x] <=> n \in DOMAIN M /\ M[n] = Full(g) /\ x \in WordsOf(g)
    BY <1>1 DEF Exact, M
  <2> QED
    BY <1>3, <1>4, <1>5, <1>6, <2>1
<1>9. col.ndx[x] = F
  <2>1. ASSUME NEW e \in col.ndx[x] PROVE e \in F
    <3>1. PICK n \in DocNum, g \in File : e = <<n, g>>
      BY <1>2
    <3> QED
      BY <1>8, <3>1
  <2>2. ASSUME NEW n \in D PROVE <<n, M[n].file>> \in col.ndx[x]
    BY <1>3, <1>6, <1>8
  <2> QED
    BY <2>1, <2>2
<1> QED
  BY <1>7, <1>9

MappedFacts == /\ Docs = col.docMeta
               /\ Hits = [x \in NdxName |-> Documents!Found(Docs, x)]
               /\ Contents = [d \in DOMAIN Docs |-> Documents!Stored(Docs[d])]

LEMMA Mapped == ExactInv => MappedFacts
<1> SUFFICES ASSUME ExactInv PROVE MappedFacts
  OBVIOUS
<1>1. IsCol(col) /\ Exact(col) /\ NdxExact(col, NdxMap) /\ DOMAIN col.docMeta = Range(DocMap)
  BY DEF ExactInv, Inv, TypeOK
<1>2. Docs = col.docMeta
  BY <1>1 DEF Docs, IsCol, IsMap
<1>3. Hits = [x \in NdxName |-> Documents!Found(Docs, x)]
  <2>1. \A x \in NdxName : Hits[x] = col.ndx[x]
    BY <1>1 DEF Hits, NdxExact
  <2>2. \A x \in NdxName : Hits[x] = Documents!Found(Docs, x)
    BY <1>2, <2>1, HitsPublished
  <2> QED
    BY <2>2 DEF Hits
<1>4. \A d \in DOMAIN Docs : col.docDb[d] = Documents!Stored(Docs[d])
  <2> TAKE d \in DOMAIN Docs
  <2>1. d \in DocNum
    BY <1>1, <1>2 DEF IsCol, IsMap
  <2>2. PICK g \in File : col.docMeta[d] \in {Plain(g), Full(g)}
    BY <1>1, <1>2 DEF Exact
  <2>3. CASE col.docMeta[d] = Full(g)
    <3>1. col.docDb[d] = PagesOf(g)
      BY <1>1, <1>2, <2>1, <2>3 DEF Exact
    <3>2. Docs[d].indexed /\ Docs[d].file = g
      BY <1>2, <2>3, RecordTypes
    <3>3. Documents!Stored(Docs[d]) = [p \in 1 .. Pages[g] |-> g]
      BY <3>2 DEF Documents!Stored
    <3> QED
      BY <3>1, <3>3 DEF PagesOf
  <2>4. CASE col.docMeta[d] = Plain(g)
    <3>1. col.docDb[d] = None
      BY <1>1, <1>2, <2>1, <2>4, RecordTypes DEF Exact
    <3>2. ~ Docs[d].indexed
      BY <1>2, <2>4, RecordTypes
    <3>3. Documents!Stored(Docs[d]) = [p \in {} |-> Docs[d].file]
      BY <3>2 DEF Documents!Stored
    <3> QED
      BY <3>1, <3>3 DEF None
  <2> QED
    BY <2>2, <2>3, <2>4
<1>5. Contents = [d \in DOMAIN Docs |-> col.docDb[d]]
  BY <1>1, <1>2 DEF Contents
<1>6. Contents = [d \in DOMAIN Docs |-> Documents!Stored(Docs[d])]
  BY <1>4, <1>5
<1> QED
  BY <1>2, <1>3, <1>6 DEF MappedFacts

LEMMA MappedNext == ExactInv' => MappedFacts'
BY Mapped, PTL

LEMMA CatalogInit == Init => Documents!Init
<1> SUFFICES ASSUME Init PROVE Documents!Init
  OBVIOUS
<1>1. MappedFacts
  BY ExactInitially, Mapped
<1>2. col.docMeta = None
  BY DEF Init, Empty
<1>3. Docs = None
  BY <1>1, <1>2 DEF MappedFacts
<1> QED
  BY <1>1, <1>3 DEF MappedFacts, Documents!Init, Documents!Published, None, Docs, Hits, Contents

CatalogNext == [Documents!Next]_<<Docs, Hits, Contents>>

\* Every step makes of the records what a step of Catalog does; what is
\* published before and after it follows from the invariant.
LEMMA CatalogSimulated ==
    ASSUME ExactInv, ExactInv', StepExact
    PROVE  CatalogNext
<1>1. MappedFacts /\ MappedFacts'
  BY Mapped, MappedNext
<1> DEFINE M == col.docMeta
           N == col'.docMeta
<1>2. CatalogStep(Docs, Docs')
  BY <1>1 DEF StepExact, MappedFacts
<1>3. Documents!Published'
  BY <1>1 DEF MappedFacts, Documents!Published, Docs, Hits, Contents
<1>4. Docs' = Docs => CatalogNext
  BY <1>1 DEF MappedFacts, CatalogNext
<1>5. ASSUME Documents!Next PROVE CatalogNext
  BY <1>5 DEF CatalogNext
<1>6. ASSUME NEW f \in File, NEW d \in DocNum, NEW indexed \in BOOLEAN,
             \A n \in DOMAIN Docs : n < d /\ Docs[n].file # f,
             Docs' = With(Docs, d, IF indexed THEN Full(f) ELSE Plain(f))
      PROVE  Documents!Next
  <2>1. Documents!Put(d, f, indexed)
    BY <1>6 DEF Documents!Put, With, Full, Plain, Docs
  <2>2. Documents!Add(d, f, indexed)
    BY <1>6, <2>1 DEF Documents!Add, Documents!Unused, DocNum, Docs
  <2>3. d \in DOMAIN Docs'
    BY <1>6 DEF With
  <2> QED
    BY <1>3, <2>2, <2>3 DEF Documents!Next, Docs
<1>7. ASSUME NEW d \in DOMAIN Docs, Docs' = With(Docs, d, Full(Docs[d].file))
      PROVE  Documents!Next
  <2>1. Documents!Index(d)
    BY <1>7 DEF Documents!Index, Documents!Put, With, Full, Docs
  <2> QED
    BY <1>3, <2>1 DEF Documents!Next, Docs
<1>8. ASSUME NEW d \in DOMAIN Docs, Docs' = With(Docs, d, Plain(Docs[d].file))
      PROVE  Documents!Next
  <2>1. Documents!RemoveIndex(d)
    BY <1>8 DEF Documents!RemoveIndex, Documents!Put, With, Plain, Docs
  <2> QED
    BY <1>3, <2>1 DEF Documents!Next, Docs
<1>9. ASSUME NEW d \in DOMAIN Docs, Docs' = Without(Docs, d)
      PROVE  Documents!Next
  <2>1. Documents!Remove(d)
    BY <1>9 DEF Documents!Remove, Without, Docs
  <2> QED
    BY <1>3, <2>1 DEF Documents!Next, Docs
<1>10. ASSUME NEW d \in DOMAIN Docs, NEW f \in File,
              \A n \in DOMAIN Docs : Docs[n].file # f,
              Docs' = With(Docs, d, Plain(f))
       PROVE  Documents!Next
  <2>1. Documents!Put(d, f, FALSE)
    BY <1>10 DEF Documents!Put, With, Plain, Docs
  <2>2. Documents!Replace(d, f)
    BY <1>10, <2>1 DEF Documents!Replace, Docs
  <2> QED
    BY <1>3, <2>2 DEF Documents!Next, Docs
<1>11. ASSUME Docs' = None PROVE Documents!Next
  <2>1. Documents!Clear
    BY <1>11 DEF Documents!Clear, None, Docs
  <2> QED
    BY <1>3, <2>1 DEF Documents!Next, Docs
<1>12. ASSUME NEW f \in File, NEW d \in DocNum,
              \A n \in DOMAIN Docs : n < d /\ Docs[n].file # f,
              Docs' = With(Docs, d, Plain(f)) \/ Docs' = With(Docs, d, Full(f))
       PROVE  Documents!Next
  <2>1. CASE Docs' = With(Docs, d, Plain(f))
    <3> DEFINE indexed == FALSE
    <3>1. Docs' = With(Docs, d, IF indexed THEN Full(f) ELSE Plain(f)) /\ indexed \in BOOLEAN
      BY <2>1
    <3> HIDE DEF indexed
    <3> QED
      BY <1>6, <1>12, <3>1
  <2>2. CASE Docs' = With(Docs, d, Full(f))
    <3> DEFINE indexed == TRUE
    <3>1. Docs' = With(Docs, d, IF indexed THEN Full(f) ELSE Plain(f)) /\ indexed \in BOOLEAN
      BY <2>2
    <3> HIDE DEF indexed
    <3> QED
      BY <1>6, <1>12, <3>1
  <2> QED
    BY <1>12, <2>1, <2>2
<1> QED
  BY <1>2, <1>4, <1>5, <1>7, <1>8, <1>9, <1>10, <1>11, <1>12 DEF CatalogStep

\* Collection.cpp, every operation: when no parse fails and no process is
\* killed, a search of an index and a read of a page give what the indexed
\* documents contain, no more and no less, through any sequence of
\* operations, closings and openings.
THEOREM CollectionImplementsCatalog == Faults = {} => (Spec => ImplementsCatalog)
<1> SUFFICES ASSUME Faults = {} PROVE Spec => ImplementsCatalog
  OBVIOUS
<1>1. ExactInv /\ [Next]_vars => ExactInv' /\ StepExact
  BY ExactKept
<1>2. ExactInv /\ ExactInv' /\ StepExact => CatalogNext
  BY CatalogSimulated
<1>3. Init => Documents!Init
  BY CatalogInit
<1>4. Spec => [][CatalogNext]_<<Docs, Hits, Contents>>
  BY <1>1, <1>2, ExactInitially, PTL DEF Spec
<1>5. CatalogNext => [Documents!Next]_<<Docs, Hits, Contents>>
  BY DEF CatalogNext
<1> QED
  BY <1>3, <1>4, <1>5, PTL DEF Spec, ImplementsCatalog, Documents!Spec, Docs, Hits, Contents, CatalogNext
=============================================================================
