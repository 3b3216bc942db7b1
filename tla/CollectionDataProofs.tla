------------------------ MODULE CollectionDataProofs ------------------------
(***************************************************************************)
(* Lemmas about CollectionData: what each of its functions keeps of the    *)
(* record it is given.  The proofs about one collection (CollectionProofs) *)
(* and about the manager of several (LibraryProofs) rest on them.          *)
(***************************************************************************)
EXTENDS CollectionData, FiniteSetTheorems, TLAPS

-----------------------------------------------------------------------------
(***************************************************************************)
(* Types of the helpers.                                                   *)
(***************************************************************************)
\* The number of words of an index is a number.
LEMMA NbWordType ==
    ASSUME NEW S \in SUBSET (DocNum \X File)
    PROVE  NbWord(S) \in Nat
<1> DEFINE W == {e[2] : e \in S}
<1>1. W \in SUBSET File
  OBVIOUS
<1>2. IsFiniteSet(W)
  BY <1>1, FileAssumption, FS_Subset
<1>3. Cardinality(W) \in Nat
  BY <1>2, FS_CardinalityType
<1> QED
  BY <1>3 DEF NbWord

\* A document has finitely many pages.
LEMMA PageNumFinite == IsFiniteSet(PageNum)
<1> DEFINE P == [f \in File |-> 1 .. Pages[f]]
           I == {P[f] : f \in File}
<1>1. IsFiniteSet(I)
  <2>1. P \in Surjection(File, I)
    BY DEF Surjection
  <2> HIDE DEF P, I
  <2> QED
    BY <2>1, FileAssumption, FS_Surjection
<1>2. ASSUME NEW T \in I PROVE IsFiniteSet(T)
  <2>1. PICK f \in File : T = 1 .. Pages[f]
    OBVIOUS
  <2>2. Pages[f] \in Int /\ 1 \in Int
    BY FileAssumption
  <2> QED
    BY <2>1, <2>2, FS_Interval
<1>3. IsFiniteSet(UNION I)
  BY <1>1, <1>2, FS_UNION
<1>4. PageNum = UNION I
  BY DEF PageNum
<1> QED
  BY <1>3, <1>4

\* Setting and removing a key of a map.
LEMMA WithType ==
    ASSUME NEW D, NEW R, NEW m, IsMap(m, D, R), NEW k \in D, NEW v \in R
    PROVE  /\ IsMap(With(m, k, v), D, R)
           /\ DOMAIN With(m, k, v) = DOMAIN m \cup {k}
           /\ With(m, k, v)[k] = v
           /\ \A x \in DOMAIN m : x # k => With(m, k, v)[x] = m[x]
BY DEF With, IsMap

LEMMA WithoutType ==
    ASSUME NEW D, NEW R, NEW m, IsMap(m, D, R), NEW k
    PROVE  /\ IsMap(Without(m, k), D, R)
           /\ DOMAIN Without(m, k) = DOMAIN m \ {k}
           /\ \A x \in DOMAIN m : x # k => Without(m, k)[x] = m[x]
BY DEF Without, IsMap

LEMMA NoneType ==
    ASSUME NEW D, NEW R
    PROVE  IsMap(None, D, R) /\ DOMAIN None = {}
BY DEF None, IsMap

LEMMA RestrictType ==
    ASSUME NEW D, NEW R, NEW m, IsMap(m, D, R), NEW S \in SUBSET DOMAIN m
    PROVE  /\ IsMap(Restrict(m, S), D, R)
           /\ DOMAIN Restrict(m, S) = S
           /\ \A x \in S : Restrict(m, S)[x] = m[x]
BY DEF Restrict, IsMap

-----------------------------------------------------------------------------
(***************************************************************************)
(* What the steps of the operations keep.                                  *)
(***************************************************************************)
\* The document maps, and the files the metadata records name.
SameDocuments(c, r) ==
    /\ r.docMap = c.docMap
    /\ r.intToDocMap = c.intToDocMap
    /\ r.dbDocMap = c.dbDocMap
    /\ DOMAIN r.docMeta = DOMAIN c.docMeta
    /\ \A n \in DOMAIN c.docMeta : r.docMeta[n].file = c.docMeta[n].file

\* What is stored for the other documents than d.
SameOthers(c, r, d) ==
    \A n \in DOMAIN c.docMeta \ {d} :
        /\ r.docMeta[n] = c.docMeta[n]
        /\ r.docDb[n] = c.docDb[n]
        /\ \A x \in NdxName, f \in File : <<n, f>> \in c.ndx[x] => <<n, f>> \in r.ndx[x]

\* RemoveDocumentIndex touches its document only, and leaves it not indexed.
LEMMA IndexRemovedKeeps ==
    ASSUME NEW c, IsCol(c), NEW d \in DOMAIN c.docMeta
    PROVE  LET r == IndexRemoved(c, d)
           IN  /\ IsCol(r)
               /\ SameDocuments(c, r)
               /\ SameOthers(c, r, d)
               /\ ~ r.docMeta[d].indexed
<1> DEFINE r == IndexRemoved(c, d)
<1>0. d \in DocNum /\ c.docMeta[d] \in DocMeta
  BY DEF IsCol, IsMap
<1>1. CASE ~ c.docMeta[d].indexed
  <2>1. r = c
    BY <1>1 DEF IndexRemoved
  <2> QED
    BY <1>1, <2>1 DEF SameDocuments, SameOthers
<1>2. CASE c.docMeta[d].indexed
  <2> DEFINE left == [x \in NdxName |-> IF x \in DOMAIN c.ndxMap
                                        THEN {e \in c.ndx[x] : e[1] # d}
                                        ELSE c.ndx[x]]
             kept == {x \in DOMAIN c.ndxMap : left[x] # {}}
             newMap == [x \in kept |-> NbWord(left[x])]
             meta == [c.docMeta[d] EXCEPT !.indexed = FALSE, !.pages = 0]
  <2>1. /\ DOMAIN r = DOMAIN c
        /\ r.docMap = c.docMap
        /\ r.intToDocMap = c.intToDocMap
        /\ r.dbDocMap = c.dbDocMap
        /\ r.dbNdxMap = c.dbNdxMap
        /\ r.ndx = left
        /\ r.ndxMap = newMap
        /\ r.docDb = [c.docDb EXCEPT ![d] = None]
        /\ r.docMeta = [c.docMeta EXCEPT ![d] = meta]
    BY <1>0, <1>2 DEF IndexRemoved, IsCol, IsMap, DocMeta
  <2>2. left \in [NdxName -> SUBSET (DocNum \X File)]
    BY DEF IsCol
  <2>3. IsMap(newMap, NdxName, Nat)
    <3>1. \A x \in kept : x \in NdxName /\ NbWord(left[x]) \in Nat
      <4> TAKE x \in kept
      <4>1. x \in NdxName
        BY DEF IsCol, IsMap
      <4>2. left[x] \in SUBSET (DocNum \X File)
        BY <2>2, <4>1
      <4> QED
        BY <4>1, <4>2, NbWordType
    <3> HIDE DEF kept, left
    <3> QED
      BY <3>1 DEF IsMap
  <2>4. /\ meta \in DocMeta
        /\ ~ meta.indexed
        /\ meta.file = c.docMeta[d].file
    BY <1>0 DEF DocMeta
  <2>5. \A x \in NdxName : \A n \in DOMAIN c.docMeta \ {d}, f \in File :
            <<n, f>> \in c.ndx[x] => <<n, f>> \in left[x]
    OBVIOUS
  <2>6. IsMap(r.docMeta, DocNum, DocMeta)
    BY <1>0, <2>1, <2>4 DEF IsCol, IsMap
  <2>7. \A n \in DocNum : IsMap(r.docDb[n], PageNum, File)
    BY <1>0, <2>1, NoneType DEF IsCol
  <2> HIDE DEF r, left, kept, newMap, meta
  <2>8. IsCol(r)
    BY <1>0, <2>1, <2>2, <2>3, <2>6, <2>7 DEF IsCol
  <2>9. SameDocuments(c, r)
    BY <1>0, <2>1, <2>4 DEF SameDocuments, IsCol, IsMap
  <2>10. SameOthers(c, r, d)
    <3> SUFFICES ASSUME NEW n \in DOMAIN c.docMeta \ {d}
                 PROVE  /\ r.docMeta[n] = c.docMeta[n]
                        /\ r.docDb[n] = c.docDb[n]
                        /\ \A x \in NdxName, f \in File :
                                <<n, f>> \in c.ndx[x] => <<n, f>> \in r.ndx[x]
      BY DEF SameOthers
    <3>1. n \in DocNum
      BY DEF IsCol, IsMap
    <3>2. r.docMeta[n] = c.docMeta[n] /\ r.docDb[n] = c.docDb[n]
      BY <2>1, <3>1 DEF IsCol, IsMap
    <3> QED
      BY <2>1, <2>5, <3>2
  <2> QED
    BY <1>0, <2>1, <2>4, <2>8, <2>9, <2>10 DEF r, IsCol, IsMap
<1> QED
  BY <1>1, <1>2

\* A parse adds words and pages of its document, and nothing else.
LEMMA ParsedKeeps ==
    ASSUME NEW c, IsCol(c), NEW d \in DOMAIN c.docMeta,
           NEW S \in SUBSET NdxName, NEW n \in Nat,
           n <= Pages[c.docMeta[d].file]
    PROVE  LET r == Parsed(c, d, S, n)
               f == c.docMeta[d].file
           IN  /\ IsCol(r)
               /\ SameDocuments(c, r)
               /\ SameOthers(c, r, d)
               /\ r.docMeta = c.docMeta
               /\ \A x \in S : <<d, f>> \in r.ndx[x]
               /\ \A x \in NdxName : c.ndx[x] \subseteq r.ndx[x]
               /\ \A p \in 1 .. n : p \in DOMAIN r.docDb[d] /\ r.docDb[d][p] = f
               /\ n = 0 => r.docDb[d] = c.docDb[d]
<1> DEFINE f == c.docMeta[d].file
           r == Parsed(c, d, S, n)
           new == [x \in NdxName |-> IF x \in S THEN c.ndx[x] \cup {<<d, f>>} ELSE c.ndx[x]]
           newMap == [x \in DOMAIN c.ndxMap \cup S |->
                        IF x \in S THEN NbWord(new[x]) ELSE c.ndxMap[x]]
           pages == [p \in DOMAIN c.docDb[d] \cup 1 .. n |->
                        IF p \in 1 .. n THEN f ELSE c.docDb[d][p]]
<1>1. d \in DocNum /\ f \in File
  BY DEF IsCol, IsMap, DocMeta
<1>2. /\ DOMAIN r = DOMAIN c
      /\ r.docMap = c.docMap
      /\ r.intToDocMap = c.intToDocMap
      /\ r.dbDocMap = c.dbDocMap
      /\ r.dbNdxMap = c.dbNdxMap
      /\ r.docMeta = c.docMeta
      /\ r.ndx = new
      /\ r.ndxMap = newMap
      /\ r.docDb = [c.docDb EXCEPT ![d] = pages]
  BY <1>1 DEF Parsed, IsCol
<1>3. new \in [NdxName -> SUBSET (DocNum \X File)]
  BY <1>1 DEF IsCol
<1>4. IsMap(newMap, NdxName, Nat)
  <2>1. \A x \in S : NbWord(new[x]) \in Nat
    <3> TAKE x \in S
    <3>1. new[x] \in SUBSET (DocNum \X File)
      BY <1>3
    <3> HIDE DEF new
    <3> QED
      BY <3>1, NbWordType
  <2> HIDE DEF new
  <2> QED
    BY <2>1 DEF IsCol, IsMap
<1>5. IsMap(pages, PageNum, File)
  <2>1. 1 .. n \in SUBSET PageNum
    <3>1. Pages[f] \in Nat /\ n <= Pages[f]
      BY <1>1, FileAssumption
    <3>2. 1 .. n \in SUBSET (1 .. Pages[f])
      BY <3>1
    <3> QED
      BY <1>1, <3>2 DEF PageNum
  <2>2. IsMap(c.docDb[d], PageNum, File)
    BY <1>1 DEF IsCol
  <2> QED
    BY <1>1, <2>1, <2>2 DEF IsMap
<1>6. /\ \A x \in S : <<d, f>> \in new[x]
      /\ \A x \in NdxName : c.ndx[x] \subseteq new[x]
  OBVIOUS
<1>7. /\ \A p \in 1 .. n : p \in DOMAIN pages /\ pages[p] = f
      /\ n = 0 => pages = c.docDb[d]
  <2>1. n = 0 => 1 .. n = {}
    OBVIOUS
  <2>2. c.docDb[d] = [p \in DOMAIN c.docDb[d] |-> c.docDb[d][p]]
    BY <1>1 DEF IsCol, IsMap
  <2> QED
    BY <2>1, <2>2
<1> HIDE DEF r, new, newMap, pages, f
<1>8. /\ r.docDb[d] = pages
      /\ \A m \in DocNum \ {d} : r.docDb[m] = c.docDb[m]
      /\ r.docDb = [m \in DocNum |-> r.docDb[m]]
  BY <1>1, <1>2 DEF IsCol
<1>9. IsCol(r)
  BY <1>2, <1>3, <1>4, <1>5, <1>8 DEF IsCol
<1>10. SameDocuments(c, r)
  BY <1>2 DEF SameDocuments
<1>11. SameOthers(c, r, d)
  BY <1>2, <1>6, <1>8 DEF SameOthers, IsCol, IsMap
<1> QED
  BY <1>2, <1>6, <1>7, <1>8, <1>9, <1>10, <1>11 DEF r, f

\* IndexedMeansStored of a state.
DocStored(c, d) ==
    LET f == c.docMeta[d].file
    IN  c.docMeta[d].indexed =>
            /\ \A x \in Content[f] : <<d, f>> \in c.ndx[x]
            /\ \A p \in 1 .. Pages[f] : p \in DOMAIN c.docDb[d] /\ c.docDb[d][p] = f

AllStored(c) == \A d \in DOMAIN c.docMeta : DocStored(c, d)

\* What touches one document leaves the others stored.
LEMMA OthersStored ==
    ASSUME NEW c, NEW r, IsCol(c), AllStored(c), NEW d,
           SameDocuments(c, r), SameOthers(c, r, d),
           d \in DOMAIN c.docMeta => DocStored(r, d)
    PROVE  AllStored(r)
<1> SUFFICES ASSUME NEW n \in DOMAIN c.docMeta, n # d
             PROVE  DocStored(r, n)
  BY DEF AllStored, SameDocuments
<1>1. DocStored(c, n) /\ r.docMeta[n] = c.docMeta[n] /\ r.docDb[n] = c.docDb[n]
  BY DEF AllStored, SameOthers
<1>2. c.docMeta[n].file \in File
  BY DEF IsCol, IsMap, DocMeta
<1>3. \A x \in Content[c.docMeta[n].file] : x \in NdxName
  BY <1>2, FileAssumption
<1>4. \A x \in NdxName : <<n, c.docMeta[n].file>> \in c.ndx[x] => <<n, c.docMeta[n].file>> \in r.ndx[x]
  BY <1>2 DEF SameOthers
<1> QED
  BY <1>1, <1>3, <1>4 DEF DocStored

LEMMA IndexRemovedStored ==
    ASSUME NEW c, IsCol(c), AllStored(c), NEW d \in DOMAIN c.docMeta
    PROVE  AllStored(IndexRemoved(c, d))
<1> DEFINE r == IndexRemoved(c, d)
<1>1. SameDocuments(c, r) /\ SameOthers(c, r, d) /\ ~ r.docMeta[d].indexed
  BY IndexRemovedKeeps
<1>2. DocStored(r, d)
  BY <1>1 DEF DocStored
<1> HIDE DEF r
<1>3. AllStored(r)
  BY <1>1, <1>2, OthersStored
<1> QED
  BY <1>3 DEF r

\* The same, twice.
LEMMA KeepsTwice ==
    ASSUME NEW c, NEW q, NEW r, NEW d,
           SameDocuments(c, q), SameDocuments(q, r),
           SameOthers(c, q, d), SameOthers(q, r, d)
    PROVE  SameDocuments(c, r) /\ SameOthers(c, r, d)
BY DEF SameDocuments, SameOthers

\* IndexDocument touches its document only; if it says that the document is
\* indexed, all of it is stored.
LEMMA IndexedKeeps ==
    ASSUME NEW c, IsCol(c), AllStored(c), NEW d \in DOMAIN c.docMeta,
           NEW r \in Indexed(c, d)
    PROVE  IsCol(r) /\ SameDocuments(c, r) /\ AllStored(r)
<1> DEFINE f == c.docMeta[d].file
           c0 == IndexRemoved(c, d)
           c1 == Parsed(c0, d, Content[f], Pages[f])
           meta == [c1.docMeta[d] EXCEPT !.indexed = TRUE,
                                         !.pages = Cardinality(DOMAIN c1.docDb[d])]
           c2 == Recorded(c1, d)
<1>1. d \in DocNum /\ f \in File
  BY DEF IsCol, IsMap, DocMeta
<1>2. /\ Content[f] \in SUBSET NdxName
      /\ Pages[f] \in Nat
      /\ {MetaName} \in SUBSET NdxName
  BY <1>1, FileAssumption
<1>3. /\ IsCol(c0)
      /\ SameDocuments(c, c0)
      /\ SameOthers(c, c0, d)
      /\ ~ c0.docMeta[d].indexed
  BY IndexRemovedKeeps
<1>4. d \in DOMAIN c0.docMeta /\ c0.docMeta[d].file = f
  BY <1>3 DEF SameDocuments
<1>5. CASE r = c0
  BY <1>3, <1>5, IndexRemovedStored
<1>6. ASSUME NEW S \in SUBSET Content[f], NEW n \in 1 .. Pages[f],
             r = Parsed(c0, d, S, n)
      PROVE  IsCol(r) /\ SameDocuments(c, r) /\ AllStored(r)
  <2> HIDE DEF c0, f
  <2>1. S \in SUBSET NdxName /\ n \in Nat /\ n <= Pages[c0.docMeta[d].file]
    BY <1>2, <1>4
  <2>2. /\ IsCol(r)
        /\ SameDocuments(c0, r)
        /\ SameOthers(c0, r, d)
        /\ r.docMeta = c0.docMeta
    BY <1>3, <1>4, <1>6, <2>1, ParsedKeeps
  <2>3. SameDocuments(c, r) /\ SameOthers(c, r, d)
    BY <1>3, <2>2, KeepsTwice
  <2>4. DocStored(r, d)
    BY <1>3, <2>2 DEF DocStored
  <2> QED
    BY <2>2, <2>3, <2>4, OthersStored
<1>7. /\ IsCol(c1)
      /\ SameDocuments(c0, c1)
      /\ SameOthers(c0, c1, d)
      /\ c1.docMeta = c0.docMeta
      /\ \A x \in Content[f] : <<d, f>> \in c1.ndx[x]
      /\ \A p \in 1 .. Pages[f] : p \in DOMAIN c1.docDb[d] /\ c1.docDb[d][p] = f
  <2> DEFINE S == Content[f]
             n == Pages[f]
  <2>1. S \in SUBSET NdxName /\ n \in Nat /\ n <= Pages[c0.docMeta[d].file]
    BY <1>2, <1>4
  <2>2. c1 = Parsed(c0, d, S, n)
    OBVIOUS
  <2> HIDE DEF c0, c1, f, S, n
  <2>3. /\ IsCol(c1)
        /\ SameDocuments(c0, c1)
        /\ SameOthers(c0, c1, d)
        /\ c1.docMeta = c0.docMeta
        /\ \A x \in S : <<d, f>> \in c1.ndx[x]
        /\ \A p \in 1 .. n : p \in DOMAIN c1.docDb[d] /\ c1.docDb[d][p] = f
    BY <1>3, <1>4, <2>1, <2>2, ParsedKeeps
  <2> QED
    BY <2>3 DEF S, n
<1>8. /\ IsCol(c2)
      /\ SameDocuments(c, c2)
      /\ SameOthers(c, c2, d)
      /\ AllStored(c2)
      /\ d \in DOMAIN c2.docMeta
      /\ c2.docMeta[d].indexed
      /\ c2.docMeta[d].file = f
      /\ c2.ndx = c1.ndx /\ c2.docDb = c1.docDb
  <2> HIDE DEF c0, c1, f
  <2>0. d \in DOMAIN c1.docMeta /\ c1.docMeta[d] \in DocMeta /\ c1.docMeta[d].file = f
    BY <1>4, <1>7 DEF IsCol, IsMap
  <2>1. Cardinality(DOMAIN c1.docDb[d]) \in Nat
    <3>1. DOMAIN c1.docDb[d] \in SUBSET PageNum
      BY <1>1, <1>7 DEF IsCol, IsMap
    <3> QED
      BY <3>1, PageNumFinite, FS_Subset, FS_CardinalityType
  <2>2. /\ meta \in DocMeta
        /\ meta.indexed
        /\ meta.file = f
    BY <2>0, <2>1 DEF DocMeta
  <2>3. /\ DOMAIN c2 = DOMAIN c1
        /\ c2.docMap = c1.docMap
        /\ c2.intToDocMap = c1.intToDocMap
        /\ c2.ndxMap = c1.ndxMap
        /\ c2.dbDocMap = c1.dbDocMap
        /\ c2.dbNdxMap = c1.dbNdxMap
        /\ c2.ndx = c1.ndx
        /\ c2.docDb = c1.docDb
        /\ c2.docMeta = [c1.docMeta EXCEPT ![d] = meta]
    BY <1>7, <2>0 DEF Recorded, IsCol, IsMap, DocMeta
  <2> HIDE DEF c2, meta
  <2>4. IsMap(c2.docMeta, DocNum, DocMeta)
    <3>1. IsMap(c1.docMeta, DocNum, DocMeta)
      BY <1>7 DEF IsCol
    <3> QED
      BY <2>0, <2>2, <2>3, <3>1 DEF IsMap
  <2>5. IsCol(c2)
    BY <1>7, <2>3, <2>4 DEF IsCol
  <2>6. SameDocuments(c1, c2) /\ SameOthers(c1, c2, d)
    BY <1>7, <2>0, <2>2, <2>3 DEF SameDocuments, SameOthers, IsCol, IsMap
  <2>7. SameDocuments(c, c2) /\ SameOthers(c, c2, d)
    <3>1. SameDocuments(c, c1) /\ SameOthers(c, c1, d)
      BY <1>3, <1>7, KeepsTwice
    <3> QED
      BY <3>1, <2>6, KeepsTwice
  <2>8. c2.docMeta[d] = meta /\ d \in DOMAIN c2.docMeta
    BY <2>0, <2>3
  <2>9. DocStored(c2, d)
    BY <1>7, <2>2, <2>3, <2>8 DEF DocStored
  <2>10. AllStored(c2)
    BY <2>7, <2>9, OthersStored
  <2> QED
    BY <2>2, <2>3, <2>5, <2>7, <2>8, <2>10
<1>9. CASE r = c2
  BY <1>8, <1>9
<1>10. CASE r = Parsed(c2, d, {MetaName}, 0)
  <2> DEFINE n == 0
             S == {MetaName}
  <2>1. r = Parsed(c2, d, S, n)
    BY <1>10
  <2>2. n = 0
    OBVIOUS
  <2> HIDE DEF c0, c1, c2, f, n, S
  <2>3. S \in SUBSET NdxName /\ n \in Nat /\ n <= Pages[c2.docMeta[d].file]
    BY <1>2, <1>8, <2>2 DEF S
  <2>4. IsCol(c2) /\ d \in DOMAIN c2.docMeta
    BY <1>8
  <2>5. /\ IsCol(r)
        /\ SameDocuments(c2, r)
        /\ SameOthers(c2, r, d)
        /\ r.docMeta = c2.docMeta
        /\ \A x \in NdxName : c2.ndx[x] \subseteq r.ndx[x]
        /\ n = 0 => r.docDb[d] = c2.docDb[d]
    BY <2>4, <2>1, <2>3, ParsedKeeps
  <2>6. /\ IsCol(r)
        /\ SameDocuments(c2, r)
        /\ SameOthers(c2, r, d)
        /\ r.docMeta = c2.docMeta
        /\ \A x \in NdxName : c2.ndx[x] \subseteq r.ndx[x]
        /\ r.docDb[d] = c2.docDb[d]
    BY <2>5, <2>2
  <2>7. SameDocuments(c, r) /\ SameOthers(c, r, d)
    BY <1>8, <2>6, KeepsTwice
  <2>8. DocStored(c2, d)
    BY <1>8 DEF AllStored
  <2>9. DocStored(r, d)
    BY <1>2, <1>8, <2>6, <2>8 DEF DocStored
  <2> QED
    BY <2>6, <2>7, <2>9, OthersStored
<1>11. \/ r = c0
       \/ \E S \in SUBSET Content[f], n \in 1 .. Pages[f] : r = Parsed(c0, d, S, n)
       \/ r = c2
       \/ r = Parsed(c2, d, {MetaName}, 0)
  <2> DEFINE Some == {Parsed(c0, d, S, n) : S \in SUBSET Content[f], n \in 1 .. Pages[f]}
             All == {Parsed(c2, d, {MetaName}, 0)}
  <2>1. Indexed(c, d) = All \cup (IF "parse" \in Faults THEN {c0, c2} \cup Some ELSE {})
    BY DEF Indexed
  <2> HIDE DEF c0, c1, c2, f
  <2>2. r \in All \/ r = c0 \/ r = c2 \/ r \in Some
    <3> HIDE DEF All, Some
    <3> QED
      BY <2>1
  <2> QED
    BY <2>2
<1> HIDE DEF c0, c1, c2, f
<1> QED
  BY <1>5, <1>6, <1>9, <1>10, <1>11

-----------------------------------------------------------------------------
(***************************************************************************)
(* What every operation keeps, whatever the state of the maps: the types,  *)
(* and that a document said to be indexed is stored.                       *)
(***************************************************************************)
Sound(c) == IsCol(c) /\ AllStored(c)

LEMMA EmptySound == Sound(Empty)
<1>1. /\ Empty.docMap = None /\ Empty.intToDocMap = None /\ Empty.ndxMap = None
      /\ Empty.dbDocMap = None /\ Empty.dbNdxMap = None /\ Empty.docMeta = None
      /\ Empty.docDb = [d \in DocNum |-> None]
      /\ Empty.ndx = [x \in NdxName |-> {}]
      /\ DOMAIN Empty = {"docMap", "intToDocMap", "ndxMap", "dbDocMap", "dbNdxMap",
                         "docMeta", "docDb", "ndx"}
  BY DEF Empty
<1>2. /\ IsMap(None, File, DocNum) /\ IsMap(None, DocNum, File)
      /\ IsMap(None, NdxName, Nat) /\ IsMap(None, DocNum, DocMeta)
      /\ IsMap(None, PageNum, File)
  BY NoneType
<1>3. IsCol(Empty)
  BY <1>1, <1>2 DEF IsCol
<1>4. AllStored(Empty)
  BY <1>1, NoneType DEF AllStored
<1> QED
  BY <1>3, <1>4 DEF Sound

LEMMA AddedSound ==
    ASSUME NEW c, Sound(c), NEW f \in File, NEW d \in DocNum,
           NEW r, r = Added(c, f, d)
    PROVE  Sound(r) /\ d \in DOMAIN r.docMeta
<1> DEFINE meta == [file |-> f, indexed |-> FALSE, pages |-> 0]
<1>1. IsCol(c) /\ AllStored(c) /\ meta \in DocMeta /\ ~ meta.indexed
  BY DEF Sound, DocMeta
<1>2. /\ DOMAIN r = DOMAIN c
      /\ r.docMeta = With(c.docMeta, d, meta)
      /\ r.dbDocMap = With(c.dbDocMap, f, d)
      /\ r.docMap = With(c.docMap, f, d)
      /\ r.intToDocMap = With(c.intToDocMap, d, f)
      /\ r.ndxMap = c.ndxMap /\ r.dbNdxMap = c.dbNdxMap
      /\ r.docDb = c.docDb /\ r.ndx = c.ndx
  BY <1>1 DEF IsCol, Added
<1> HIDE DEF meta
<1>3. /\ IsMap(r.docMeta, DocNum, DocMeta)
      /\ DOMAIN r.docMeta = DOMAIN c.docMeta \cup {d}
      /\ r.docMeta[d] = meta
      /\ \A n \in DOMAIN c.docMeta : n # d => r.docMeta[n] = c.docMeta[n]
  BY <1>1, <1>2 DEF With, IsMap, IsCol
<1>4. IsMap(r.dbDocMap, File, DocNum) /\ IsMap(r.docMap, File, DocNum)
  BY <1>1, <1>2 DEF With, IsMap, IsCol
<1>5. IsMap(r.intToDocMap, DocNum, File)
  BY <1>1, <1>2 DEF With, IsMap, IsCol
<1>6. IsCol(r)
  BY <1>1, <1>2, <1>3, <1>4, <1>5 DEF IsCol
<1>7. AllStored(r)
  BY <1>1, <1>2, <1>3 DEF AllStored, DocStored
<1> QED
  BY <1>3, <1>6, <1>7 DEF Sound

LEMMA AddsSound ==
    ASSUME NEW c, Sound(c), NEW f \in File, NEW d \in DocNum, NEW w \in BOOLEAN,
           NEW r \in Adds(c, f, d, w)
    PROVE  Sound(r)
<1> DEFINE q == Added(c, f, d)
<1>1. r \in Indexed(q, d) \/ r = q
  BY DEF Adds
<1>2. q = Added(c, f, d)
  OBVIOUS
<1> HIDE DEF q
<1>3. Sound(q) /\ d \in DOMAIN q.docMeta
  BY <1>2, AddedSound
<1>4. CASE r = q
  BY <1>3, <1>4
<1>5. CASE r \in Indexed(q, d)
  BY <1>3, <1>5, IndexedKeeps DEF Sound
<1> QED
  BY <1>1, <1>4, <1>5

LEMMA RemovedSound ==
    ASSUME NEW c, Sound(c), NEW d \in DOMAIN c.docMeta
    PROVE  Sound(Removed(c, d))
<1> DEFINE f == c.intToDocMap[d]
           q == IndexRemoved(c, d)
           r == Removed(c, d)
<1>1. Sound(q)
  BY IndexRemovedKeeps, IndexRemovedStored DEF Sound
<1>2. r = [q EXCEPT !.docMap = Without(@, f),
                    !.intToDocMap = Without(@, d),
                    !.docMeta = Without(@, d),
                    !.dbDocMap = Without(@, f)]
  BY DEF Removed
<1> HIDE DEF f, q, r
<1>3. /\ DOMAIN r = DOMAIN q
      /\ r.docMap = Without(q.docMap, f)
      /\ r.dbDocMap = Without(q.dbDocMap, f)
      /\ r.intToDocMap = Without(q.intToDocMap, d)
      /\ r.docMeta = Without(q.docMeta, d)
      /\ r.ndxMap = q.ndxMap /\ r.dbNdxMap = q.dbNdxMap
      /\ r.docDb = q.docDb /\ r.ndx = q.ndx
  BY <1>1, <1>2 DEF Sound, IsCol
<1>4. IsCol(r)
  <2>1. IsMap(r.docMap, File, DocNum) /\ IsMap(r.dbDocMap, File, DocNum)
    BY <1>1, <1>3 DEF Sound, IsCol, IsMap, Without
  <2>2. IsMap(r.intToDocMap, DocNum, File)
    BY <1>1, <1>3 DEF Sound, IsCol, IsMap, Without
  <2>3. IsMap(r.docMeta, DocNum, DocMeta)
    BY <1>1, <1>3 DEF Sound, IsCol, IsMap, Without
  <2> QED
    BY <1>1, <1>3, <2>1, <2>2, <2>3 DEF Sound, IsCol
<1>5. \A n \in DOMAIN r.docMeta : n \in DOMAIN q.docMeta /\ r.docMeta[n] = q.docMeta[n]
  BY <1>3 DEF Without
<1>6. AllStored(r)
  BY <1>1, <1>3, <1>5 DEF Sound, AllStored, DocStored
<1>7. Sound(r)
  BY <1>4, <1>6 DEF Sound
<1> QED
  BY <1>7 DEF r

LEMMA ReplacedSound ==
    ASSUME NEW c, Sound(c), NEW d \in DOMAIN c.docMeta, NEW f \in File
    PROVE  Sound(Replaced(c, d, f))
<1> DEFINE old == c.docMeta[d].file
           q == IndexRemoved(c, d)
           meta == [q.docMeta[d] EXCEPT !.file = f]
           r == Replaced(c, d, f)
<1>1. /\ Sound(q)
      /\ ~ q.docMeta[d].indexed
      /\ d \in DOMAIN q.docMeta
      /\ d \in DocNum
  BY IndexRemovedKeeps, IndexRemovedStored DEF Sound, SameDocuments, IsCol, IsMap
<1>2. r = [q EXCEPT !.docMap = With(Without(@, old), f, d),
                    !.intToDocMap = With(@, d, f),
                    !.dbDocMap = With(Without(@, old), f, d),
                    !.docMeta[d].file = f]
  BY DEF Replaced
<1> HIDE DEF old, q, r
<1>3. meta \in DocMeta /\ ~ meta.indexed
  BY <1>1 DEF Sound, IsCol, IsMap, DocMeta
<1>4. /\ DOMAIN r = DOMAIN q
      /\ r.docMap = With(Without(q.docMap, old), f, d)
      /\ r.dbDocMap = With(Without(q.dbDocMap, old), f, d)
      /\ r.intToDocMap = With(q.intToDocMap, d, f)
      /\ r.docMeta = [q.docMeta EXCEPT ![d] = meta]
      /\ r.ndxMap = q.ndxMap /\ r.dbNdxMap = q.dbNdxMap
      /\ r.docDb = q.docDb /\ r.ndx = q.ndx
  BY <1>1, <1>2 DEF Sound, IsCol
<1> HIDE DEF meta
<1>5. IsCol(r)
  <2>1. IsMap(r.docMap, File, DocNum) /\ IsMap(r.dbDocMap, File, DocNum)
    BY <1>1, <1>4 DEF Sound, IsCol, IsMap, With, Without
  <2>2. IsMap(r.intToDocMap, DocNum, File)
    BY <1>1, <1>4 DEF Sound, IsCol, IsMap, With
  <2>3. IsMap(r.docMeta, DocNum, DocMeta)
    BY <1>1, <1>3, <1>4 DEF Sound, IsCol, IsMap
  <2> QED
    BY <1>1, <1>4, <2>1, <2>2, <2>3 DEF Sound, IsCol
<1>6. AllStored(r)
  <2>1. /\ DOMAIN r.docMeta = DOMAIN q.docMeta
        /\ r.docMeta[d] = meta
        /\ \A n \in DOMAIN q.docMeta \ {d} : r.docMeta[n] = q.docMeta[n]
    BY <1>1, <1>4
  <2> QED
    BY <1>1, <1>3, <1>4, <2>1 DEF Sound, AllStored, DocStored
<1>7. Sound(r)
  BY <1>5, <1>6 DEF Sound
<1> QED
  BY <1>7 DEF r

LEMMA ClearedSound ==
    ASSUME NEW c, Sound(c), NEW r, r = Cleared(c)
    PROVE  Sound(r) /\ r.dbDocMap = None /\ r.dbNdxMap = None
<1>1. /\ DOMAIN r = DOMAIN c
      /\ r.docMap = None /\ r.intToDocMap = None /\ r.ndxMap = None
      /\ r.dbDocMap = None /\ r.dbNdxMap = None /\ r.docMeta = None
      /\ r.docDb = [d \in DocNum |-> IF d \in Range(c.docMap) THEN None ELSE c.docDb[d]]
      /\ r.ndx = [x \in NdxName |-> IF x \in DOMAIN c.ndxMap THEN {} ELSE c.ndx[x]]
  BY DEF Cleared, Sound, IsCol
<1>2. /\ IsMap(None, File, DocNum) /\ IsMap(None, DocNum, File)
      /\ IsMap(None, NdxName, Nat) /\ IsMap(None, DocNum, DocMeta)
      /\ IsMap(None, PageNum, File)
  BY NoneType
<1>3. /\ \A d \in DocNum : IsMap(r.docDb[d], PageNum, File)
      /\ r.docDb = [d \in DocNum |-> r.docDb[d]]
      /\ r.ndx \in [NdxName -> SUBSET (DocNum \X File)]
  BY <1>1, <1>2 DEF Sound, IsCol
<1>4. IsCol(r)
  BY <1>1, <1>2, <1>3 DEF Sound, IsCol
<1>5. AllStored(r)
  BY <1>1, NoneType DEF AllStored
<1> QED
  BY <1>1, <1>4, <1>5 DEF Sound

LEMMA OpenedSound ==
    ASSUME NEW c, Sound(c), NEW r, r = Opened(c)
    PROVE  Sound(r) /\ r.dbDocMap = c.dbDocMap /\ r.dbNdxMap = c.dbNdxMap
<1> DEFINE back == [d \in Range(c.dbDocMap) |->
                        CHOOSE f \in DOMAIN c.dbDocMap : c.dbDocMap[f] = d]
<1>1. /\ DOMAIN r = DOMAIN c
      /\ r.docMap = c.dbDocMap /\ r.dbDocMap = c.dbDocMap
      /\ r.ndxMap = c.dbNdxMap /\ r.dbNdxMap = c.dbNdxMap
      /\ r.intToDocMap = back
      /\ r.docMeta = c.docMeta /\ r.docDb = c.docDb /\ r.ndx = c.ndx
  BY DEF Opened, Sound, IsCol
<1>2. IsMap(back, DocNum, File)
  <2>1. IsMap(c.dbDocMap, File, DocNum)
    BY DEF Sound, IsCol
  <2>2. Range(c.dbDocMap) \subseteq DocNum
    BY <2>1 DEF Range, IsMap
  <2>3. \A d \in Range(c.dbDocMap) : back[d] \in DOMAIN c.dbDocMap
    BY DEF Range
  <2>4. \A d \in Range(c.dbDocMap) : back[d] \in File
    BY <2>1, <2>3 DEF IsMap
  <2>5. back = [d \in DOMAIN back |-> back[d]] /\ DOMAIN back = Range(c.dbDocMap)
    OBVIOUS
  <2> HIDE DEF back
  <2> QED
    BY <2>2, <2>4, <2>5 DEF IsMap
<1> HIDE DEF back
<1>3. IsCol(r)
  BY <1>1, <1>2 DEF Sound, IsCol
<1>4. AllStored(r)
  BY <1>1 DEF Sound, AllStored, DocStored
<1> QED
  BY <1>1, <1>3, <1>4 DEF Sound

\* However the object ends, no map stays in memory.
LEMMA EndedSound ==
    ASSUME NEW c, Sound(c), NEW docs, NEW ndxs,
           IsMap(docs, File, DocNum), IsMap(ndxs, NdxName, Nat),
           NEW r, r = Ended(c, docs, ndxs)
    PROVE  /\ Sound(r)
           /\ r.dbDocMap = docs /\ r.dbNdxMap = ndxs
           /\ r = Ended(r, r.dbDocMap, r.dbNdxMap)
<1>1. /\ DOMAIN r = DOMAIN c
      /\ r.docMap = None /\ r.intToDocMap = None /\ r.ndxMap = None
      /\ r.dbDocMap = docs /\ r.dbNdxMap = ndxs
      /\ r.docMeta = c.docMeta /\ r.docDb = c.docDb /\ r.ndx = c.ndx
  BY DEF Ended, Sound, IsCol
<1>2. IsMap(None, File, DocNum) /\ IsMap(None, DocNum, File) /\ IsMap(None, NdxName, Nat)
  BY NoneType
<1>3. IsCol(r)
  BY <1>1, <1>2 DEF Sound, IsCol
<1>4. AllStored(r)
  BY <1>1 DEF Sound, AllStored, DocStored
<1>5. r = Ended(r, docs, ndxs)
  BY DEF Ended
<1> QED
  BY <1>1, <1>3, <1>4, <1>5 DEF Sound

LEMMA ClosedSound ==
    ASSUME NEW c, Sound(c), NEW r, r = Closed(c)
    PROVE  Sound(r) /\ r.dbDocMap = c.docMap /\ r = Ended(r, r.dbDocMap, r.dbNdxMap)
<1> DEFINE docs == c.docMap
           ndxs == c.ndxMap
<1>1. /\ IsMap(docs, File, DocNum) /\ IsMap(ndxs, NdxName, Nat)
      /\ r = Ended(c, docs, ndxs)
  BY DEF Closed, Sound, IsCol
<1> HIDE DEF docs, ndxs
<1>2. /\ Sound(r) /\ r.dbDocMap = docs
      /\ r = Ended(r, r.dbDocMap, r.dbNdxMap)
  BY <1>1, EndedSound
<1> QED
  BY <1>2 DEF docs

LEMMA CutSound ==
    ASSUME NEW c, Sound(c), NEW r \in Cut(c)
    PROVE  Sound(r) /\ r = Ended(r, r.dbDocMap, r.dbNdxMap)
<1> DEFINE Some == \E docs, ndxs : /\ IsMap(docs, File, DocNum) /\ IsMap(ndxs, NdxName, Nat)
                                   /\ r = Ended(c, docs, ndxs)
<1>1. Some
  <2>1. /\ IsMap(c.docMap, File, DocNum) /\ IsMap(c.dbDocMap, File, DocNum)
        /\ IsMap(c.ndxMap, NdxName, Nat) /\ IsMap(c.dbNdxMap, NdxName, Nat)
    BY DEF Sound, IsCol
  <2>2. CASE r = Ended(c, c.dbDocMap, c.dbNdxMap)
    BY <2>1, <2>2
  <2>3. ASSUME NEW F \in SUBSET DOMAIN c.docMap,
               r = Ended(c, Restrict(c.docMap, F), c.dbNdxMap)
        PROVE  Some
    <3>1. IsMap(Restrict(c.docMap, F), File, DocNum)
      BY <2>1, RestrictType
    <3> QED
      BY <2>1, <2>3, <3>1
  <2>4. ASSUME NEW X \in SUBSET DOMAIN c.ndxMap,
               r = Ended(c, c.docMap, Restrict(c.ndxMap, X))
        PROVE  Some
    <3>1. IsMap(Restrict(c.ndxMap, X), NdxName, Nat)
      BY <2>1, RestrictType
    <3> QED
      BY <2>1, <2>4, <3>1
  <2> QED
    BY <2>2, <2>3, <2>4 DEF Cut
<1> QED
  BY <1>1, EndedSound
=============================================================================
