--------------------------- MODULE CollectionData ---------------------------
(***************************************************************************)
(* The data of a collection (class Collection): its documents, their       *)
(* metadata records, page databases and indexes, the document and index    *)
(* maps on disk, and the three maps it keeps in memory while it is open.   *)
(* A collection is a record c; what an operation makes of it is a function *)
(* of c.  Module Collection has one of them, module Library several.       *)
(*                                                                         *)
(* A file stands for its content: it puts one word of its own in each of   *)
(* its indexes, and its pages carry its name.                              *)
(***************************************************************************)
EXTENDS Naturals, FiniteSets, Functions

CONSTANTS
    File,       \* names of document files
    NdxName,    \* names of indexes
    MetaName,   \* the index of the document metadata
    Content,    \* Content[f]: the indexes the words of file f go to
    Pages,      \* Pages[f]: number of pages of file f
    MaxDoc,     \* bound on document numbers
    Faults      \* what may happen, among "parse" (a parse fails) and "kill"

ASSUME FileAssumption == /\ MetaName \in NdxName
                         /\ Content \in [File -> SUBSET (NdxName \ {MetaName})]
                         /\ Pages \in [File -> Nat \ {0}]
                         /\ IsFiniteSet(File)
ASSUME BoundAssumption == MaxDoc \in Nat
ASSUME FaultAssumption == Faults \subseteq {"parse", "kill"}

DocNum == 1 .. MaxDoc

\* An empty map.
None == [x \in {} |-> 0]

\* m with k mapped to v.
With(m, k, v) == [x \in DOMAIN m \cup {k} |-> IF x = k THEN v ELSE m[x]]
Without(m, k) == [x \in DOMAIN m \ {k} |-> m[x]]

\* The containers of a collection that was never used.
Empty == [docMap |-> None, intToDocMap |-> None, ndxMap |-> None,
          dbDocMap |-> None, dbNdxMap |-> None, docMeta |-> None,
          docDb |-> [d \in DocNum |-> None],
          ndx |-> [x \in NdxName |-> {}]]

DocMeta == [file : File, indexed : BOOLEAN, pages : Nat]

PageNum == UNION {1 .. Pages[f] : f \in File}

\* m is a map from some elements of D to elements of R.
IsMap(m, D, R) == DOMAIN m \subseteq D /\ m \in [DOMAIN m -> R]

IsCol(c) ==
    /\ DOMAIN c = {"docMap", "intToDocMap", "ndxMap", "dbDocMap", "dbNdxMap",
                   "docMeta", "docDb", "ndx"}
    /\ IsMap(c.docMap, File, DocNum)
    /\ IsMap(c.intToDocMap, DocNum, File)
    /\ IsMap(c.ndxMap, NdxName, Nat)
    /\ IsMap(c.dbDocMap, File, DocNum)
    /\ IsMap(c.dbNdxMap, NdxName, Nat)
    /\ IsMap(c.docMeta, DocNum, DocMeta)
    /\ c.docDb = [d \in DocNum |-> c.docDb[d]]
    /\ \A d \in DocNum : IsMap(c.docDb[d], PageNum, File)
    /\ c.ndx \in [NdxName -> SUBSET (DocNum \X File)]

\* DbWrapper::Count of an index: its words.
NbWord(S) == Cardinality({e[2] : e \in S})

-----------------------------------------------------------------------------
(***************************************************************************)
(* Documents.                                                              *)
(***************************************************************************)
\* The first doc number available (greatest + 1).
IsNextDocNum(c, d) == /\ \A n \in Range(c.docMap) : n < d
                      /\ d = 1 \/ d - 1 \in Range(c.docMap)

\* A document that is in the reverse map and has a metadata record.
Known(c, d) == d \in DOMAIN c.intToDocMap /\ d \in DOMAIN c.docMeta

\* Mutant: the count of an index that keeps words is not brought up to date.
IndexRemoved_OldCount(c, d) ==
    LET left == [x \in NdxName |-> IF x \in DOMAIN c.ndxMap
                                   THEN {e \in c.ndx[x] : e[1] # d}
                                   ELSE c.ndx[x]]
        kept == {x \in DOMAIN c.ndxMap : left[x] # {}}
    IN  IF c.docMeta[d].indexed
        THEN [c EXCEPT !.docDb[d] = None,
                       !.ndx = left,
                       !.ndxMap = Restrict(@, kept),
                       !.docMeta[d].indexed = FALSE,
                       !.docMeta[d].pages = 0]
        ELSE c

\* Mutant: the page database stays.
IndexRemoved_KeepsPages(c, d) ==
    LET left == [x \in NdxName |-> IF x \in DOMAIN c.ndxMap
                                   THEN {e \in c.ndx[x] : e[1] # d}
                                   ELSE c.ndx[x]]
        kept == {x \in DOMAIN c.ndxMap : left[x] # {}}
    IN  IF c.docMeta[d].indexed
        THEN [c EXCEPT !.ndx = left,
                       !.ndxMap = [x \in kept |-> NbWord(left[x])],
                       !.docMeta[d].indexed = FALSE,
                       !.docMeta[d].pages = 0]
        ELSE c

\* Mutant: the metadata record still says that the document is indexed.
IndexRemoved_StaysIndexed(c, d) ==
    LET left == [x \in NdxName |-> IF x \in DOMAIN c.ndxMap
                                   THEN {e \in c.ndx[x] : e[1] # d}
                                   ELSE c.ndx[x]]
        kept == {x \in DOMAIN c.ndxMap : left[x] # {}}
    IN  IF c.docMeta[d].indexed
        THEN [c EXCEPT !.docDb[d] = None,
                       !.ndx = left,
                       !.ndxMap = [x \in kept |-> NbWord(left[x])]]
        ELSE c

\* RemoveDocumentIndex: nothing to do if the document is not indexed.  Only
\* the indexes of the index map are visited; one left empty is removed.
IndexRemoved(c, d) ==
    LET left == [x \in NdxName |-> IF x \in DOMAIN c.ndxMap
                                   THEN {e \in c.ndx[x] : e[1] # d}
                                   ELSE c.ndx[x]]
        kept == {x \in DOMAIN c.ndxMap : left[x] # {}}
    IN  IF c.docMeta[d].indexed
        THEN [c EXCEPT !.docDb[d] = None,
                       !.ndx = left,
                       !.ndxMap = [x \in kept |-> NbWord(left[x])],
                       !.docMeta[d].indexed = FALSE,
                       !.docMeta[d].pages = 0]
        ELSE c

\* Mutant: the first page is page 0.
Parsed_FromZero(c, d, S, n) ==
    LET f == c.docMeta[d].file
        new == [x \in NdxName |-> IF x \in S THEN c.ndx[x] \cup {<<d, f>>} ELSE c.ndx[x]]
    IN  [c EXCEPT !.ndx = new,
                  !.ndxMap = [x \in DOMAIN @ \cup S |-> IF x \in S THEN NbWord(new[x]) ELSE @[x]],
                  !.docDb[d] = [p \in DOMAIN @ \cup 0 .. n - 1 |->
                                    IF p \in 0 .. n - 1 THEN f ELSE @[p]]]

\* From OpenIndexer to CloseIndexer: the parse has stored the words of the
\* file in the indexes S and its first n pages, and CloseIndexer enters every
\* index database opened meanwhile in the index map.
Parsed(c, d, S, n) ==
    LET f == c.docMeta[d].file
        new == [x \in NdxName |-> IF x \in S THEN c.ndx[x] \cup {<<d, f>>} ELSE c.ndx[x]]
    IN  [c EXCEPT !.ndx = new,
                  !.ndxMap = [x \in DOMAIN @ \cup S |-> IF x \in S THEN NbWord(new[x]) ELSE @[x]],
                  !.docDb[d] = [p \in DOMAIN @ \cup 1 .. n |-> IF p \in 1 .. n THEN f ELSE @[p]]]

\* IndexDocument enters the number of pages and stores the metadata record.
Recorded(c, d) ==
    [c EXCEPT !.docMeta[d].indexed = TRUE,
              !.docMeta[d].pages = Cardinality(DOMAIN c.docDb[d])]

\* What IndexDocument may leave: the document and its metadata indexed, or,
\* when a parse fails, part of them.  A parse that starts stores a page when
\* it ends, even by an exception.
Indexed(c, d) ==
    LET f == c.docMeta[d].file
        c0 == IndexRemoved(c, d)
        c1 == Parsed(c0, d, Content[f], Pages[f])
        c2 == Recorded(c1, d)
    IN  {Parsed(c2, d, {MetaName}, 0)}
        \cup
        IF "parse" \in Faults
        THEN {c0, c2} \cup {Parsed(c0, d, S, n) : S \in SUBSET Content[f], n \in 1 .. Pages[f]}
        ELSE {}

\* The document is entered in its metadata container and in the maps.
Added(c, f, d) ==
    [c EXCEPT !.docMeta = With(@, d, [file |-> f, indexed |-> FALSE, pages |-> 0]),
              !.dbDocMap = With(@, f, d),
              !.docMap = With(@, f, d),
              !.intToDocMap = With(@, d, f)]

\* CheckSizes.
SizesAgree(c) == /\ Cardinality(DOMAIN c.dbDocMap) = Cardinality(DOMAIN c.docMap)
                 /\ Cardinality(DOMAIN c.intToDocMap) = Cardinality(DOMAIN c.docMap)

\* AddDocument returns before it indexes when the sizes do not agree.
Adds(c, f, d, wantIndex) ==
    LET r == Added(c, f, d)
    IN  IF wantIndex /\ SizesAgree(r) THEN Indexed(r, d) ELSE {r}

\* The document goes with its index.
Removed(c, d) ==
    LET f == c.intToDocMap[d]
    IN  [IndexRemoved(c, d) EXCEPT !.docMap = Without(@, f),
                                   !.intToDocMap = Without(@, d),
                                   !.docMeta = Without(@, d),
                                   !.dbDocMap = Without(@, f)]

\* Mutant: the old file stays in the map.
Replaced_KeepsOld(c, d, f) ==
    LET old == c.docMeta[d].file
    IN  [IndexRemoved(c, d) EXCEPT !.docMap = With(@, f, d),
                                   !.intToDocMap = With(@, d, f),
                                   !.dbDocMap = With(Without(@, old), f, d),
                                   !.docMeta[d].file = f]

\* Another file takes the place of the document's: it loses its index, if it
\* has one, and is not indexed again.
Replaced(c, d, f) ==
    LET old == c.docMeta[d].file
    IN  [IndexRemoved(c, d) EXCEPT !.docMap = With(Without(@, old), f, d),
                                   !.intToDocMap = With(@, d, f),
                                   !.dbDocMap = With(Without(@, old), f, d),
                                   !.docMeta[d].file = f]

-----------------------------------------------------------------------------
(***************************************************************************)
(* The collection as a whole.                                              *)
(***************************************************************************)
\* ClearCollection: the metadata container is cleared; page databases and
\* indexes go only if the maps in memory name them.
Cleared(c) ==
    [c EXCEPT !.docDb = [d \in DocNum |-> IF d \in Range(c.docMap) THEN None ELSE @[d]],
              !.ndx = [x \in NdxName |-> IF x \in DOMAIN c.ndxMap THEN {} ELSE @[x]],
              !.docMap = None, !.intToDocMap = None, !.ndxMap = None,
              !.dbDocMap = None, !.dbNdxMap = None, !.docMeta = None]

\* The constructor loads both maps and makes the reverse map.
Opened(c) ==
    [c EXCEPT !.docMap = c.dbDocMap,
              !.intToDocMap = [d \in Range(c.dbDocMap) |->
                  CHOOSE f \in DOMAIN c.dbDocMap : c.dbDocMap[f] = d],
              !.ndxMap = c.dbNdxMap]

\* The object is gone, and with it its maps; docs and ndxs are on disk.
Ended(c, docs, ndxs) ==
    [c EXCEPT !.dbDocMap = docs, !.dbNdxMap = ndxs,
              !.docMap = None, !.intToDocMap = None, !.ndxMap = None]

\* The destructor saves both maps.
Closed(c) == Ended(c, c.docMap, c.ndxMap)

\* What a kill leaves: it comes between two operations, or in the destructor
\* after some elements of the first or of the second map.
Cut(c) ==
    {Ended(c, c.dbDocMap, c.dbNdxMap)}
    \cup {Ended(c, Restrict(c.docMap, F), c.dbNdxMap) : F \in SUBSET DOMAIN c.docMap}
    \cup {Ended(c, c.docMap, Restrict(c.ndxMap, X)) : X \in SUBSET DOMAIN c.ndxMap}
=============================================================================
