---------------------------- MODULE DbNdxProofs ----------------------------
(***************************************************************************)
(* Proofs about DbNdx: its types and headers first, then that it           *)
(* implements WordIndex: an index container holds exactly the entries its  *)
(* operations say, however they are cut in blobs.  The latter holds for    *)
(* containers whose spellings have collation keys of their own and in      *)
(* which, of the puts, only that of a rewritten blob may fail.             *)
(***************************************************************************)
EXTENDS DbNdx, FiniteSetTheorems, FunctionTheorems, SequenceTheorems, TLAPS

-----------------------------------------------------------------------------
(***************************************************************************)
(* Finite sets of pairs of naturals and their enumeration in order.        *)
(***************************************************************************)
Pairs == Nat \X Nat

\* Less is a strict total order on pairs of naturals.
LEMMA LessIsTotalOrder ==
    ASSUME NEW e \in Pairs, NEW f \in Pairs, NEW g \in Pairs
    PROVE  /\ ~ Less(e, e)
           /\ Less(e, f) /\ Less(f, g) => Less(e, g)
           /\ e # f => Less(e, f) \/ Less(f, e)
BY DEF Less, Pairs

\* The rank of an element is below the number of elements.
LEMMA RankType ==
    ASSUME NEW S \in SUBSET Pairs, IsFiniteSet(S), NEW e \in S
    PROVE  Rank(e, S) \in 0 .. Cardinality(S) - 1
<1> DEFINE B == {f \in S : Less(f, e)}
<1>1. /\ IsFiniteSet(S \ {e})
      /\ Cardinality(S \ {e}) = Cardinality(S) - 1
  BY FS_RemoveElement
<1>2. B \in SUBSET (S \ {e})
  BY LessIsTotalOrder
<1>3. /\ IsFiniteSet(B)
      /\ Cardinality(B) <= Cardinality(S) - 1
  BY <1>1, <1>2, FS_Subset
<1>4. Cardinality(B) \in Nat /\ Cardinality(S) \in Nat
  BY <1>3, FS_CardinalityType
<1> HIDE DEF B
<1>5. Cardinality(B) \in 0 .. Cardinality(S) - 1
  BY <1>3, <1>4
<1> QED
  BY <1>5 DEF Rank, B

\* A smaller element has a smaller rank.
LEMMA RankIsMonotonic ==
    ASSUME NEW S \in SUBSET Pairs, IsFiniteSet(S), NEW e \in S, NEW f \in S, Less(e, f)
    PROVE  Rank(e, S) < Rank(f, S)
<1> DEFINE A == {g \in S : Less(g, e)}
           B == {g \in S : Less(g, f)}
<1>1. IsFiniteSet(A) /\ IsFiniteSet(B)
  BY FS_Subset
<1>2. e \notin A /\ A \cup {e} \in SUBSET B
  BY LessIsTotalOrder
<1>3. Cardinality(A \cup {e}) = Cardinality(A) + 1
  BY <1>1, <1>2, FS_AddElement
<1>4. Cardinality(A \cup {e}) <= Cardinality(B)
  BY <1>1, <1>2, FS_Subset
<1>5. Cardinality(A) \in Nat /\ Cardinality(B) \in Nat
  BY <1>1, FS_CardinalityType
<1> HIDE DEF A, B
<1>6. Cardinality(A) < Cardinality(B)
  BY <1>3, <1>4, <1>5
<1> QED
  BY <1>6 DEF Rank, A, B

\* Every rank below the number of elements is the rank of one element.
LEMMA RankIsOnto ==
    ASSUME NEW S \in SUBSET Pairs, IsFiniteSet(S),
           NEW n \in 0 .. Cardinality(S) - 1
    PROVE  \E e \in S : Rank(e, S) = n
<1> DEFINE N == 0 .. Cardinality(S) - 1
           F == [e \in S |-> Rank(e, S)]
<1>1. Cardinality(S) \in Nat
  BY FS_CardinalityType
<1>2. IsFiniteSet(N) /\ Cardinality(N) = Cardinality(S)
  <2> DEFINE m == Cardinality(S) - 1
  <2>1. 0 \in Int /\ m \in Int
    BY <1>1
  <2> HIDE DEF m
  <2>2. /\ IsFiniteSet(0 .. m)
        /\ Cardinality(0 .. m) = IF 0 > m THEN 0 ELSE m - 0 + 1
    BY <2>1, FS_Interval
  <2>3. m = Cardinality(S) - 1
    BY DEF m
  <2> QED
    BY <1>1, <2>2, <2>3
<1>3. F \in [S -> N]
  BY RankType
<1>4. ASSUME NEW e \in S, NEW f \in S, F[e] = F[f]
      PROVE  e = f
  <2>1. Rank(e, S) = Rank(f, S) /\ Rank(e, S) \in Int
    BY <1>4, RankType
  <2>2. ~ Less(e, f) /\ ~ Less(f, e)
    BY <2>1, RankIsMonotonic
  <2> QED
    BY <2>2, LessIsTotalOrder
<1>5. F \in Injection(S, N)
  BY <1>3, <1>4 DEF Injection, IsInjective
<1>6. F \in Surjection(S, N)
  BY <1>2, <1>5, FS_Injection
<1> QED
  BY <1>6 DEF Surjection

\* Sorted(S) enumerates S: every element once, in order.
LEMMA SortedEnumerates ==
    ASSUME NEW S \in SUBSET Pairs, IsFiniteSet(S)
    PROVE  /\ Sorted(S) \in Seq(S)
           /\ Len(Sorted(S)) = Cardinality(S)
           /\ \A i \in 1 .. Cardinality(S) : Rank(Sorted(S)[i], S) = i - 1
           /\ \A e \in S : \E i \in 1 .. Cardinality(S) : Sorted(S)[i] = e
<1> DEFINE n == Cardinality(S)
<1>1. n \in Nat
  BY FS_CardinalityType
<1>2. ASSUME NEW i \in 1 .. n
      PROVE  Sorted(S)[i] \in S /\ Rank(Sorted(S)[i], S) = i - 1
  <2>1. \E e \in S : Rank(e, S) = i - 1
    BY <1>1, RankIsOnto
  <2>2. Sorted(S)[i] = CHOOSE e \in S : Rank(e, S) = i - 1
    BY DEF Sorted
  <2> QED
    BY <2>1, <2>2
<1>3. Sorted(S) \in [1 .. n -> S]
  BY <1>2 DEF Sorted
<1>4. ASSUME NEW e \in S
      PROVE  \E i \in 1 .. n : Sorted(S)[i] = e
  <2> DEFINE i == Rank(e, S) + 1
  <2>1. i \in 1 .. n /\ i - 1 = Rank(e, S)
    BY <1>1, RankType
  <2>2. Sorted(S)[i] \in S /\ Rank(Sorted(S)[i], S) = Rank(e, S)
    BY <1>2, <2>1
  <2>3. Rank(e, S) \in Int
    BY RankType
  <2>4. ~ Less(Sorted(S)[i], e) /\ ~ Less(e, Sorted(S)[i])
    BY <2>2, <2>3, RankIsMonotonic
  <2>5. Sorted(S)[i] = e
    BY <2>2, <2>4, LessIsTotalOrder
  <2> QED
    BY <2>1, <2>5
<1> QED
  BY <1>1, <1>2, <1>3, <1>4

-----------------------------------------------------------------------------
(***************************************************************************)
(* What the helpers of the operations return.                              *)
(***************************************************************************)
LEMMA EntryFacts == Entry \in SUBSET Pairs /\ IsFiniteSet(Entry)
<1>1. IsFiniteSet(Doc \X Pos)
  BY EntryAssumption, FS_Product
<1> QED
  BY <1>1, EntryAssumption DEF Entry, Pairs

\* What a caller adds to a word is a nonempty set of entries.
LEMMA BatchIsEntries ==
    ASSUME NEW w \in Word, NEW S \in Batch[w]
    PROVE  S \in SUBSET Entry /\ S # {}
BY BatchAssumption

\* A nonempty entry set is saved as a nonempty sequence of its entries.
LEMMA SortedType ==
    ASSUME NEW S \in SUBSET Entry, S # {}
    PROVE  /\ Sorted(S) \in Seq(Entry)
           /\ Len(Sorted(S)) \in Nat \ {0}
           /\ Sorted(S)[1] \in Entry
           /\ Sorted(S)[Len(Sorted(S))] \in Entry
<1>1. S \in SUBSET Pairs /\ IsFiniteSet(S)
  BY EntryFacts, FS_Subset
<1>2. Sorted(S) \in Seq(S) /\ Len(Sorted(S)) = Cardinality(S)
  BY <1>1, SortedEnumerates
<1>3. Cardinality(S) \in Nat /\ Cardinality(S) # 0
  BY <1>1, FS_CardinalityType, FS_EmptySet
<1>4. Sorted(S) \in Seq(Entry)
  BY <1>2, SeqMonotonic
<1>5. /\ 1 \in 1 .. Len(Sorted(S))
      /\ Len(Sorted(S)) \in 1 .. Len(Sorted(S))
  BY <1>2, <1>3
<1> QED
  BY <1>2, <1>3, <1>4, <1>5, ElementOfSeq

LEMMA ChunkType ==
    ASSUME NEW q \in Seq(Entry), NEW i \in Nat
    PROVE  Chunk(q, i) \in Seq(Entry)
<1> DEFINE m == i * BlobSize + 1
           end == (i + 1) * BlobSize
           n == IF end < Len(q) THEN end ELSE Len(q)
<1>1. m \in Int /\ m >= 1
  BY BlobAssumption
<1>2. n \in Int /\ n <= Len(q)
  BY BlobAssumption, LenProperties
<1>3. Chunk(q, i) = SubSeq(q, m, n)
  BY DEF Chunk
<1> HIDE DEF m, n
<1>4. \A k \in m .. n : q[k] \in Entry
  BY <1>1, <1>2, LenProperties
<1>5. SubSeq(q, m, n) \in Seq(Entry)
  BY <1>1, <1>2, <1>4, SubSeqProperties
<1> QED
  BY <1>3, <1>5

\* Storing chunks keeps the blobs there were and adds those of its numbers.
LEMMA StoredType ==
    ASSUME NEW b, IsBlobs(b), NEW q \in Seq(Entry), NEW from \in Nat, NEW n \in Nat
    PROVE  /\ IsBlobs(Stored(b, from, q, n))
           /\ \A i \in DOMAIN b : i \in DOMAIN Stored(b, from, q, n)
           /\ \A i \in from .. from + n - 1 : i \in DOMAIN Stored(b, from, q, n)
<1> DEFINE D == DOMAIN b \cup (from .. from + n - 1)
<1>1. D \subseteq Nat
  BY DEF IsBlobs
<1>2. \A i \in from .. from + n - 1 : Chunk(q, i - from) \in Seq(Entry)
  BY ChunkType
<1>3. \A i \in D : (IF i \in from .. from + n - 1 THEN Chunk(q, i - from) ELSE b[i])
                    \in Seq(Entry)
  BY <1>2 DEF IsBlobs
<1>4. Stored(b, from, q, n) \in [D -> Seq(Entry)]
  BY <1>3 DEF Stored
<1> QED
  BY <1>1, <1>4 DEF IsBlobs

LEMMA NbBlobType ==
    ASSUME NEW n \in Nat
    PROVE  /\ NbBlob(n) \in Nat
           /\ n > 0 => NbBlob(n) > 0
BY BlobAssumption DEF NbBlob

LEMMA HeaderType ==
    ASSUME NEW key \in Word, NEW S \in SUBSET Entry, S # {}, NEW nb \in Nat,
           NEW inline \in Seq(Entry)
    PROVE  Header(key, Sorted(S), nb, inline) \in Record
<1>1. Len(Sorted(S)) \in Nat /\ Sorted(S)[Len(Sorted(S))] \in Entry
  BY SortedType
<1>2. Sorted(S)[Len(Sorted(S))][1] \in Nat
  BY <1>1, EntryAssumption DEF Entry
<1> QED
  BY <1>1, <1>2 DEF Header, Record

\* Whatever puts fail, SetCursorData returns a record that counts only blobs
\* that are there, and takes no blob away.
LEMMA SavesType ==
    ASSUME NEW key \in Word, NEW b, IsBlobs(b), NEW k,
           NEW S \in SUBSET Entry, S # {},
           NEW o \in Saves(key, b, k, S)
    PROVE  /\ IsBlobs(o.blobs)
           /\ DOMAIN b \subseteq DOMAIN o.blobs
           /\ o.rec \in Record
           /\ o.rec.key = key
           /\ ~ Missing(o.blobs, o.rec)
<1> DEFINE q == Sorted(S)
           nb == IF HasBlob THEN NbBlob(Len(q)) ELSE 0
<1>1. q \in Seq(Entry) /\ Len(q) \in Nat
  BY SortedType
<1>2. nb \in Nat
  BY <1>1, NbBlobType
<1>3. <<>> \in Seq(Entry)
  BY EmptySeq
<1>4. CASE o = [blobs |-> Stored(b, 0, q, nb),
                rec |-> Header(key, q, nb, IF HasBlob THEN <<>> ELSE q)]
  <2>1. o.rec \in Record
    <3>1. (IF HasBlob THEN <<>> ELSE q) \in Seq(Entry)
      BY <1>1, <1>3
    <3> HIDE DEF nb
    <3>2. Header(key, Sorted(S), nb, IF HasBlob THEN <<>> ELSE q) \in Record
      BY <1>2, <3>1, HeaderType
    <3> QED
      BY <1>4, <3>2
  <2>2. o.rec.key = key /\ o.rec.nbBlob = nb
    BY <1>4 DEF Header
  <2> HIDE DEF nb, q
  <2>3. IsBlobs(o.blobs) /\ \A i \in DOMAIN b \cup (0 .. nb - 1) : i \in DOMAIN o.blobs
    <3>1. /\ IsBlobs(Stored(b, 0, q, nb))
          /\ \A i \in DOMAIN b : i \in DOMAIN Stored(b, 0, q, nb)
          /\ \A i \in 0 .. 0 + nb - 1 : i \in DOMAIN Stored(b, 0, q, nb)
      BY <1>1, <1>2, StoredType
    <3>2. o.blobs = Stored(b, 0, q, nb)
      BY <1>4
    <3> QED
      BY <1>2, <3>1, <3>2
  <2> QED
    BY <1>2, <2>1, <2>2, <2>3 DEF Missing
<1>5. CASE \E n \in 0 .. nb - 1 :
                o = [blobs |-> Stored(b, 0, q, n), rec |-> Header(key, q, 0, q)]
  <2>1. PICK n \in 0 .. nb - 1 :
                o = [blobs |-> Stored(b, 0, q, n), rec |-> Header(key, q, 0, q)]
    BY <1>5
  <2>2. o.rec \in Record
    BY <1>1, <2>1, HeaderType
  <2>3. o.rec.key = key /\ o.rec.nbBlob = 0
    BY <2>1 DEF Header
  <2> HIDE DEF nb, q
  <2>4. n \in Nat
    BY <1>2
  <2>5. IsBlobs(o.blobs) /\ \A i \in DOMAIN b \cup (0 .. n - 1) : i \in DOMAIN o.blobs
    <3>1. /\ IsBlobs(Stored(b, 0, q, n))
          /\ \A i \in DOMAIN b : i \in DOMAIN Stored(b, 0, q, n)
          /\ \A i \in 0 .. 0 + n - 1 : i \in DOMAIN Stored(b, 0, q, n)
      BY <1>1, <2>4, StoredType
    <3> QED
      BY <2>1, <3>1
  <2> QED
    BY <2>2, <2>3, <2>5 DEF Missing
<1> QED
  BY <1>4, <1>5 DEF Saves

\* Reading finds entries, whatever the buffer is.
LEMMA ReadType ==
    ASSUME NEW b, IsBlobs(b), NEW r \in Record, NEW old \in SUBSET Entry,
           NEW x \in Read(b, r, old)
    PROVE  x \in SUBSET Entry
<1>1. CASE Missing(b, r)
  BY <1>1 DEF Read
<1>2. CASE ~ Missing(b, r)
  <2> DEFINE buf == Buffer(b, r)
             gap == r.nbEnt - Cardinality(Cell(buf))
  <2>1. \A i \in DOMAIN buf : buf[i] \in Seq(Entry)
    BY <1>2 DEF Buffer, Missing, IsBlobs, Record
  <2>2. Decoded(b, r) \subseteq Entry
    <3>1. \A i \in DOMAIN buf : \A j \in 1 .. Len(buf[i]) : buf[i][j] \in Entry
      BY <2>1, ElementOfSeq
    <3>2. \A c \in Cell(buf) : buf[c[1]][c[2]] \in Entry
      BY <3>1 DEF Cell
    <3> QED
      BY <3>2 DEF Decoded
  <2>3. \A J \in Junk(gap) : J \subseteq Entry
    BY DEF Junk
  <2>4. PICK J \in Junk(gap) : x = Decoded(b, r) \cup J
    BY <1>2 DEF Read
  <2> QED
    BY <2>2, <2>3, <2>4
<1> QED
  BY <1>1, <1>2

\* The appended header is a record, and counts only blobs there are once the
\* entries are appended; the last blob with the new entries is a sequence.
LEMMA AppendType ==
    ASSUME NEW b, IsBlobs(b), NEW r \in Record, NEW S \in SUBSET Entry, S # {},
           CanAppend(b, r, Sorted(S)), NEW n \in Nat
    PROVE  LET q == Sorted(S)
               t == WithLastBlob(b, r, q)
               a == Stored(b, r.nbBlob - 1, t, n)
           IN  /\ NbBlob(Len(t)) \in Nat
               /\ IsBlobs(a)
               /\ \A i \in DOMAIN b : i \in DOMAIN a
               /\ \A i \in r.nbBlob - 1 .. (r.nbBlob - 1) + n - 1 : i \in DOMAIN a
               /\ AppendHeader(b, r, q) \in Record
               /\ AppendHeader(b, r, q).key = r.key
               /\ AppendHeader(b, r, q).nbBlob = r.nbBlob + NbBlob(Len(t)) - 1
<1> DEFINE q == Sorted(S)
           t == WithLastBlob(b, r, q)
           a == Stored(b, r.nbBlob - 1, t, n)
           h == AppendHeader(b, r, q)
<1>1. /\ q \in Seq(Entry)
      /\ Len(q) \in Nat
      /\ q[Len(q)][1] \in Nat
  <2>1. q \in Seq(Entry) /\ Len(q) \in Nat /\ q[Len(q)] \in Entry
    BY SortedType
  <2> QED
    BY <2>1, EntryAssumption DEF Entry
<1>2. r.nbBlob - 1 \in Nat /\ r.nbBlob \in Nat /\ r.nbEnt \in Nat
  BY DEF CanAppend, Record
<1>3. b[r.nbBlob - 1] \in Seq(Entry)
  BY DEF CanAppend, IsBlobs
<1> HIDE DEF q
<1>4. t \in Seq(Entry) /\ Len(t) \in Nat
  <2>1. t \in Seq(Entry)
    BY <1>1, <1>3, ConcatProperties DEF WithLastBlob
  <2> QED
    BY <2>1, LenProperties
<1>5. NbBlob(Len(t)) \in Nat
  BY <1>4, NbBlobType
<1>6. h \in Record /\ h.key = r.key /\ h.nbBlob = r.nbBlob + NbBlob(Len(t)) - 1
  <2>1. r.nbBlob + NbBlob(Len(t)) - 1 \in Nat /\ r.nbEnt + Len(q) \in Nat
    BY <1>1, <1>2, <1>5
  <2>2. h = [r EXCEPT !.nbBlob = r.nbBlob + NbBlob(Len(t)) - 1,
                      !.lastDoc = q[Len(q)][1],
                      !.nbEnt = r.nbEnt + Len(q)]
    BY DEF AppendHeader
  <2> HIDE DEF h, t
  <2> QED
    BY <1>1, <2>1, <2>2 DEF Record
<1> HIDE DEF t
<1>7. /\ IsBlobs(a)
      /\ \A i \in DOMAIN b : i \in DOMAIN a
      /\ \A i \in r.nbBlob - 1 .. (r.nbBlob - 1) + n - 1 : i \in DOMAIN a
  BY <1>2, <1>4, StoredType
<1> QED
  BY <1>5, <1>6, <1>7 DEF t, q

-----------------------------------------------------------------------------
(***************************************************************************)
(* The steps that write.  StoreOK is what TypeOK says of the containers.   *)
(***************************************************************************)
StoreOK ==
    /\ ndx \in [Key -> Record \cup {NoRecord}]
    /\ \A c \in Key : ndx[c] # NoRecord => CollationKey[ndx[c].key] = c
    /\ blob = [w \in Word |-> blob[w]]
    /\ \A w \in Word : IsBlobs(blob[w])

WalkOK == walk \in [doc : Doc \cup {0}, at : Key \cup {0}, left : SUBSET Entry]

LEMMA TypeOKParts == /\ TypeOK <=> StoreOK /\ WalkOK
                     /\ TypeOK' <=> StoreOK' /\ WalkOK'
BY DEF TypeOK, StoreOK, WalkOK

\* A put or a del of the record at c.
LEMMA PutRecordType ==
    ASSUME StoreOK, NEW c \in Key, NEW rec \in Record \cup {NoRecord}, NEW ok,
           rec # NoRecord => CollationKey[rec.key] = c,
           PutRecord(c, rec, ok)
    PROVE  /\ ndx' \in [Key -> Record \cup {NoRecord}]
           /\ \A k \in Key : ndx'[k] # NoRecord => CollationKey[ndx'[k].key] = k
           /\ ndx' \in {ndx, [ndx EXCEPT ![c] = rec]}
BY DEF StoreOK, PutRecord

\* A write to the blobs of one word.
LEMMA PutBlobType ==
    ASSUME StoreOK, NEW w \in Word, NEW b, IsBlobs(b), blob' = [blob EXCEPT ![w] = b]
    PROVE  /\ blob' = [v \in Word |-> blob'[v]]
           /\ \A v \in Word : IsBlobs(blob'[v])
           /\ \A v \in Word : blob'[v] = IF v = w THEN b ELSE blob[v]
BY DEF StoreOK

LEMMA SaveWordType ==
    ASSUME StoreOK, NEW c \in Key, NEW w \in Word, CollationKey[w] = c,
           NEW b, IsBlobs(b), NEW k, NEW S \in SUBSET Entry, S # {}, NEW ok,
           SaveWord(c, w, b, k, S, ok)
    PROVE  StoreOK'
<1> DEFINE key == IF ndx[c] = NoRecord THEN w ELSE ndx[c].key
<1>1. key \in Word /\ CollationKey[key] = c
  BY DEF StoreOK, Record
<1> HIDE DEF key
<1>2. PICK o \in Saves(key, b, k, S) :
            /\ blob' = [blob EXCEPT ![w] = o.blobs]
            /\ PutRecord(c, o.rec, ok)
  BY DEF SaveWord, key
<1>3. IsBlobs(o.blobs) /\ o.rec \in Record /\ o.rec.key = key
  BY <1>1, <1>2, SavesType
<1>4. /\ ndx' \in [Key -> Record \cup {NoRecord}]
      /\ \A m \in Key : ndx'[m] # NoRecord => CollationKey[ndx'[m].key] = m
  BY <1>1, <1>2, <1>3, PutRecordType
<1>5. /\ blob' = [v \in Word |-> blob'[v]]
      /\ \A v \in Word : IsBlobs(blob'[v])
  BY <1>2, <1>3, PutBlobType
<1> QED
  BY <1>4, <1>5 DEF StoreOK

LEMMA AddWordEntriesType ==
    ASSUME StoreOK, NEW w \in Word, NEW S \in SUBSET Entry, S # {}, NEW ok \in BOOLEAN,
           AddWordEntries(w, S, ok)
    PROVE  StoreOK'
<1> DEFINE c == CollationKey[w]
           r == ndx[c]
           q == Sorted(S)
<1>1. c \in Key /\ IsBlobs(blob[w]) /\ (r # NoRecord => r \in Record)
  BY KeyAssumption DEF Key, StoreOK
<1>2. CASE AddNewWord(w, S, ok)
  <2> HIDE DEF c
  <2>1. SaveWord(c, w, blob[w], 0, S, ok)
    BY <1>2 DEF AddNewWord, c
  <2> QED
    BY <1>1, <2>1, SaveWordType DEF c
<1>3. CASE AppendToWord(w, S, ok)
  <2> DEFINE t == WithLastBlob(blob[w], r, q)
             n == NbBlob(Len(t))
             h == AppendHeader(blob[w], r, q)
             b == Stored(blob[w], r.nbBlob - 1, t, n)
  <2>1. /\ r # NoRecord
        /\ CanAppend(blob[w], r, q)
        /\ blob' = [blob EXCEPT ![w] = b]
        /\ PutRecord(c, h, ok)
    BY <1>3, <1>1 DEF AppendToWord, StoreOK
  <2>2. n \in Nat
    BY <1>1, <2>1, AppendType
  <2>3. IsBlobs(b) /\ h \in Record /\ h.key = r.key
    BY <1>1, <2>1, <2>2, AppendType
  <2>4. CollationKey[h.key] = c
    BY <1>1, <2>1, <2>3 DEF StoreOK
  <2> HIDE DEF b, h, c
  <2>5. /\ ndx' \in [Key -> Record \cup {NoRecord}]
        /\ \A m \in Key : ndx'[m] # NoRecord => CollationKey[ndx'[m].key] = m
    BY <1>1, <2>1, <2>3, <2>4, PutRecordType
  <2>6. /\ blob' = [v \in Word |-> blob'[v]]
        /\ \A v \in Word : IsBlobs(blob'[v])
    BY <2>1, <2>3, PutBlobType
  <2> QED
    BY <2>5, <2>6 DEF StoreOK
<1>4. CASE AppendFails(w, S, ok)
  <2> DEFINE t == WithLastBlob(blob[w], r, q)
             h == AppendHeader(blob[w], r, q)
             B(n) == Stored(blob[w], r.nbBlob - 1, t, n)
  <2>1. PICK n \in 0 .. NbBlob(Len(t)) - 1 :
            /\ r # NoRecord
            /\ CanAppend(blob[w], r, q)
            /\ \E x \in Read(B(n), h, {}) :
                    SaveWord(c, w, B(n), h.nbBlob, x \cup S, ok)
    BY <1>4 DEF AppendFails
  <2>2. n \in Nat
    OBVIOUS
  <2>3. IsBlobs(B(n)) /\ h \in Record
    BY <1>1, <2>1, <2>2, AppendType
  <2> HIDE DEF B, h, c
  <2>4. PICK x \in Read(B(n), h, {}) : SaveWord(c, w, B(n), h.nbBlob, x \cup S, ok)
    BY <2>1
  <2>5. x \in SUBSET Entry
    BY <2>3, <2>4, ReadType
  <2>6. x \cup S \in SUBSET Entry /\ x \cup S # {}
    BY <2>5
  <2> QED
    BY <1>1, <2>3, <2>4, <2>6, SaveWordType DEF c
<1>5. CASE MergeIntoWord(w, S, ok)
  <2>1. r # NoRecord
    BY <1>5 DEF MergeIntoWord
  <2>2. PICK x \in Read(blob[w], r, {}) :
                SaveWord(c, w, blob[w], r.nbBlob, x \cup S, ok)
    BY <1>5 DEF MergeIntoWord
  <2>3. x \in SUBSET Entry
    BY <1>1, <2>1, <2>2, ReadType
  <2>4. x \cup S \in SUBSET Entry /\ x \cup S # {}
    BY <2>3
  <2> HIDE DEF c
  <2> QED
    BY <1>1, <2>2, <2>4, SaveWordType DEF c
<1> QED
  BY <1>2, <1>3, <1>4, <1>5 DEF AddWordEntries

LEMMA RemoveDocType ==
    ASSUME StoreOK, NEW c \in Key, NEW w \in Word, CollationKey[w] = c,
           NEW x \in SUBSET Entry, NEW d, NEW ok, RemoveDoc(c, w, x, d, ok)
    PROVE  StoreOK'
<1>1. CASE DelRecord(c, ok) /\ UNCHANGED blob
  <2>1. /\ ndx' \in [Key -> Record \cup {NoRecord}]
        /\ \A m \in Key : ndx'[m] # NoRecord => CollationKey[ndx'[m].key] = m
    BY <1>1, PutRecordType DEF DelRecord
  <2> QED
    BY <1>1, <2>1 DEF StoreOK
<1>2. CASE UNCHANGED <<ndx, blob>>
  BY <1>2 DEF StoreOK
<1>3. CASE /\ Without(x, d) # {}
           /\ SaveWord(c, w, blob[w], ndx[c].nbBlob, Without(x, d), ok)
  <2>1. Without(x, d) \in SUBSET Entry
    BY DEF Without
  <2>2. IsBlobs(blob[w])
    BY DEF StoreOK
  <2> QED
    BY <1>3, <2>1, <2>2, SaveWordType
<1> QED
  BY <1>1, <1>2, <1>3 DEF RemoveDoc

LEMMA VisitRecordType ==
    ASSUME StoreOK, WalkOK, NEW ok \in BOOLEAN, VisitRecord(ok)
    PROVE  StoreOK' /\ WalkOK'
<1>1. PICK c \in Ahead : \E x \in Read(blob[ndx[c].key], ndx[c], walk.left) :
            /\ RemoveDoc(c, ndx[c].key, x, walk.doc, ok)
            /\ walk' = IF ok \/ Without(x, walk.doc) = {}
                       THEN [walk EXCEPT !.at = c, !.left = Without(x, walk.doc)]
                       ELSE NoWalk
  BY DEF VisitRecord
<1>2. PICK x \in Read(blob[ndx[c].key], ndx[c], walk.left) :
            /\ RemoveDoc(c, ndx[c].key, x, walk.doc, ok)
            /\ walk' = IF ok \/ Without(x, walk.doc) = {}
                       THEN [walk EXCEPT !.at = c, !.left = Without(x, walk.doc)]
                       ELSE NoWalk
  BY <1>1
<1>3. c \in Key /\ ndx[c] \in Record /\ ndx[c].key \in Word /\ CollationKey[ndx[c].key] = c
  BY DEF Ahead, StoreOK, Record
<1>4. IsBlobs(blob[ndx[c].key])
  BY <1>3 DEF StoreOK
<1>5. walk.left \in SUBSET Entry
  BY DEF WalkOK
<1>6. x \in SUBSET Entry
  BY <1>2, <1>3, <1>4, <1>5, ReadType
<1>7. StoreOK'
  BY <1>2, <1>3, <1>6, RemoveDocType
<1>8. WalkOK'
  <2>1. Without(x, walk.doc) \in SUBSET Entry
    BY <1>6 DEF Without
  <2> QED
    BY <1>2, <1>3, <2>1 DEF WalkOK, NoWalk
<1> QED
  BY <1>7, <1>8

-----------------------------------------------------------------------------
\* The containers hold what their types say, whatever puts fail and however
\* the collator identifies spellings.
THEOREM TypeCorrect == Spec => []TypeOK
<1>1. Init => TypeOK
  <2> SUFFICES ASSUME Init PROVE TypeOK
    OBVIOUS
  <2>1. \A w \in Word : IsBlobs(blob[w])
    <3> SUFFICES ASSUME NEW w \in Word PROVE IsBlobs(blob[w])
      OBVIOUS
    <3>1. blob[w] = [i \in {} |-> <<>>]
      BY DEF Init
    <3> QED
      BY <3>1 DEF IsBlobs
  <2> QED
    BY <2>1 DEF Init, TypeOK, NoWalk
<1>2. TypeOK /\ [Next]_vars => TypeOK'
  <2> SUFFICES ASSUME StoreOK, WalkOK, [Next]_vars
               PROVE  StoreOK' /\ WalkOK'
    BY TypeOKParts
  <2>1. ASSUME NEW ok \in BOOLEAN, NEW w \in Word, NEW S \in Batch[w],
               AddWordEntries(w, S, ok)
        PROVE  StoreOK' /\ WalkOK'
    <3>1. StoreOK'
      BY <2>1, BatchIsEntries, AddWordEntriesType
    <3> QED
      BY <2>1, <3>1 DEF AddWordEntries, WalkOK
  <2>2. ASSUME NEW ok \in BOOLEAN, NEW w \in Word, DelWordEntries(w, ok)
        PROVE  StoreOK' /\ WalkOK'
    <3>1. CollationKey[w] \in Key
      BY DEF Key
    <3>2. /\ ndx' \in [Key -> Record \cup {NoRecord}]
          /\ \A m \in Key : ndx'[m] # NoRecord => CollationKey[ndx'[m].key] = m
      BY <2>2, <3>1, PutRecordType DEF DelWordEntries, DelRecord
    <3> QED
      BY <2>2, <3>2 DEF DelWordEntries, StoreOK, WalkOK
  <2>3. ASSUME NEW ok \in BOOLEAN, NEW w \in Word, NEW d \in Doc,
               DelWordDocEntries(w, d, ok)
        PROVE  StoreOK' /\ WalkOK'
    <3> DEFINE c == CollationKey[w]
    <3>1. c \in Key /\ ndx[c] \in Record /\ IsBlobs(blob[w])
      BY <2>3 DEF DelWordDocEntries, Key, StoreOK
    <3>2. PICK x \in Read(blob[w], ndx[c], {}) : RemoveDoc(c, w, x, d, ok)
      BY <2>3 DEF DelWordDocEntries
    <3>3. x \in SUBSET Entry
      BY <3>1, <3>2, ReadType
    <3> HIDE DEF c
    <3>4. StoreOK'
      BY <3>1, <3>2, <3>3, RemoveDocType DEF c
    <3> QED
      BY <2>3, <3>4 DEF DelWordDocEntries, WalkOK
  <2>4. ASSUME NEW d \in Doc, DelDocEntries(d)
        PROVE  StoreOK' /\ WalkOK'
    BY <2>4 DEF DelDocEntries, StoreOK, WalkOK
  <2>5. ASSUME NEW ok \in BOOLEAN, VisitRecord(ok)
        PROVE  StoreOK' /\ WalkOK'
    BY <2>5, VisitRecordType
  <2>6. CASE EndWalk
    BY <2>6 DEF EndWalk, StoreOK, WalkOK, NoWalk
  <2>7. CASE RemoveDbNdx
    BY <2>7 DEF RemoveDbNdx, StoreOK, WalkOK
  <2>8. CASE UNCHANGED vars
    BY <2>8 DEF vars, StoreOK, WalkOK
  <2> QED
    BY <2>1, <2>2, <2>3, <2>4, <2>5, <2>6, <2>7, <2>8 DEF Next
<1> QED
  BY <1>1, <1>2, PTL DEF Spec

-----------------------------------------------------------------------------
(***************************************************************************)
(* Headers name stored blobs.  Blobs are never deleted, so a record that   *)
(* is left alone keeps its blobs; what is put at c must come with its own. *)
(***************************************************************************)
LEMMA NamesKept ==
    ASSUME HeaderNamesStoredBlobs, StoreOK, NEW c \in Key,
           NEW rec \in Record \cup {NoRecord}, NEW ok,
           PutRecord(c, rec, ok),
           \A w \in Word : \A i \in DOMAIN blob[w] : i \in DOMAIN blob'[w],
           rec # NoRecord => ~ Missing(blob'[rec.key], rec)
    PROVE  HeaderNamesStoredBlobs'
<1> SUFFICES ASSUME NEW k \in Key, ndx'[k] # NoRecord
             PROVE  ~ Missing(blob'[ndx'[k].key], ndx'[k])
  BY DEF HeaderNamesStoredBlobs
<1>1. ndx' \in {ndx, [ndx EXCEPT ![c] = rec]}
  BY DEF PutRecord
<1>2. CASE ndx'[k] = ndx[k]
  <2>1. ndx[k].key \in Word /\ ndx[k] # NoRecord
    BY <1>2 DEF StoreOK, Record
  <2>2. ~ Missing(blob[ndx[k].key], ndx[k])
    BY <2>1 DEF HeaderNamesStoredBlobs
  <2> QED
    BY <1>2, <2>1, <2>2 DEF Missing
<1>3. CASE k = c /\ ndx'[c] = rec
  BY <1>3
<1> QED
  BY <1>1, <1>2, <1>3 DEF StoreOK

LEMMA SaveWordNames ==
    ASSUME DistinctKeys, HeaderNamesStoredBlobs, StoreOK,
           NEW c \in Key, NEW w \in Word, CollationKey[w] = c,
           NEW b, IsBlobs(b), \A i \in DOMAIN blob[w] : i \in DOMAIN b,
           NEW k, NEW S \in SUBSET Entry, S # {}, NEW ok,
           SaveWord(c, w, b, k, S, ok)
    PROVE  HeaderNamesStoredBlobs'
<1> DEFINE key == IF ndx[c] = NoRecord THEN w ELSE ndx[c].key
<1>1. key = w
  BY DEF StoreOK, Record, DistinctKeys
<1> HIDE DEF key
<1>2. PICK o \in Saves(w, b, k, S) :
            /\ blob' = [blob EXCEPT ![w] = o.blobs]
            /\ PutRecord(c, o.rec, ok)
  BY <1>1 DEF SaveWord, key
<1>3. /\ IsBlobs(o.blobs)
      /\ \A i \in DOMAIN b : i \in DOMAIN o.blobs
      /\ o.rec \in Record
      /\ o.rec.key = w
      /\ ~ Missing(o.blobs, o.rec)
  BY <1>2, SavesType
<1>4. \A v \in Word : blob'[v] = IF v = w THEN o.blobs ELSE blob[v]
  BY <1>2, <1>3, PutBlobType
<1>5. \A v \in Word : \A i \in DOMAIN blob[v] : i \in DOMAIN blob'[v]
  BY <1>3, <1>4
<1>6. ~ Missing(blob'[o.rec.key], o.rec)
  BY <1>3, <1>4
<1> QED
  BY <1>2, <1>3, <1>5, <1>6, NamesKept

LEMMA AddWordEntriesNames ==
    ASSUME DistinctKeys, HeaderNamesStoredBlobs, StoreOK,
           NEW w \in Word, NEW S \in SUBSET Entry, S # {}, NEW ok \in BOOLEAN,
           AddWordEntries(w, S, ok)
    PROVE  HeaderNamesStoredBlobs'
<1> DEFINE c == CollationKey[w]
           r == ndx[c]
           q == Sorted(S)
<1>1. c \in Key /\ IsBlobs(blob[w]) /\ (r # NoRecord => r \in Record)
  BY KeyAssumption DEF Key, StoreOK
<1>2. CASE AddNewWord(w, S, ok)
  <2> HIDE DEF c
  <2>1. SaveWord(c, w, blob[w], 0, S, ok)
    BY <1>2 DEF AddNewWord, c
  <2> QED
    BY <1>1, <2>1, SaveWordNames DEF c
<1>3. CASE AppendToWord(w, S, ok)
  <2> DEFINE t == WithLastBlob(blob[w], r, q)
             n == NbBlob(Len(t))
             h == AppendHeader(blob[w], r, q)
             b == Stored(blob[w], r.nbBlob - 1, t, n)
  <2>1. /\ r # NoRecord
        /\ CanAppend(blob[w], r, q)
        /\ blob' = [blob EXCEPT ![w] = b]
        /\ PutRecord(c, h, ok)
    BY <1>3, <1>1 DEF AppendToWord, StoreOK
  <2>2. r \in Record /\ r.key = w /\ r.nbBlob \in Nat
    BY <1>1, <2>1 DEF StoreOK, Record, DistinctKeys
  <2>3. n \in Nat
    BY <1>1, <2>1, AppendType
  <2>4. /\ IsBlobs(b)
        /\ \A i \in DOMAIN blob[w] : i \in DOMAIN b
        /\ \A i \in r.nbBlob - 1 .. (r.nbBlob - 1) + n - 1 : i \in DOMAIN b
        /\ h \in Record
        /\ h.key = w
        /\ h.nbBlob = r.nbBlob + n - 1
    BY <1>1, <2>1, <2>2, <2>3, AppendType
  <2>5. 0 .. r.nbBlob - 1 \subseteq DOMAIN blob[w]
    BY <1>1, <2>1, <2>2 DEF HeaderNamesStoredBlobs, Missing
  <2> HIDE DEF b, h, n, c
  <2>6. ~ Missing(b, h)
    BY <2>2, <2>3, <2>4, <2>5 DEF Missing
  <2>7. \A v \in Word : blob'[v] = IF v = w THEN b ELSE blob[v]
    BY <2>1, <2>4, PutBlobType
  <2>8. \A v \in Word : \A i \in DOMAIN blob[v] : i \in DOMAIN blob'[v]
    BY <2>4, <2>7
  <2>9. ~ Missing(blob'[h.key], h)
    BY <2>4, <2>6, <2>7
  <2> QED
    BY <1>1, <2>1, <2>4, <2>8, <2>9, NamesKept
<1>4. CASE AppendFails(w, S, ok)
  <2> DEFINE t == WithLastBlob(blob[w], r, q)
             h == AppendHeader(blob[w], r, q)
             B(n) == Stored(blob[w], r.nbBlob - 1, t, n)
  <2>1. PICK n \in 0 .. NbBlob(Len(t)) - 1 :
            /\ r # NoRecord
            /\ CanAppend(blob[w], r, q)
            /\ \E x \in Read(B(n), h, {}) :
                    SaveWord(c, w, B(n), h.nbBlob, x \cup S, ok)
    BY <1>4 DEF AppendFails
  <2>2. n \in Nat
    OBVIOUS
  <2>3. /\ IsBlobs(B(n))
        /\ \A i \in DOMAIN blob[w] : i \in DOMAIN B(n)
        /\ h \in Record
    BY <1>1, <2>1, <2>2, AppendType
  <2> HIDE DEF B, h, c
  <2>4. PICK x \in Read(B(n), h, {}) : SaveWord(c, w, B(n), h.nbBlob, x \cup S, ok)
    BY <2>1
  <2>5. x \in SUBSET Entry
    BY <2>3, <2>4, ReadType
  <2>6. x \cup S \in SUBSET Entry /\ x \cup S # {}
    BY <2>5
  <2> QED
    BY <1>1, <2>3, <2>4, <2>6, SaveWordNames DEF c
<1>5. CASE MergeIntoWord(w, S, ok)
  <2>1. r # NoRecord
    BY <1>5 DEF MergeIntoWord
  <2>2. PICK x \in Read(blob[w], r, {}) :
                SaveWord(c, w, blob[w], r.nbBlob, x \cup S, ok)
    BY <1>5 DEF MergeIntoWord
  <2>3. x \in SUBSET Entry
    BY <1>1, <2>1, <2>2, ReadType
  <2>4. x \cup S \in SUBSET Entry /\ x \cup S # {}
    BY <2>3
  <2> HIDE DEF c
  <2> QED
    BY <1>1, <2>2, <2>4, SaveWordNames DEF c
<1> QED
  BY <1>2, <1>3, <1>4, <1>5 DEF AddWordEntries

LEMMA RemoveDocNames ==
    ASSUME DistinctKeys, HeaderNamesStoredBlobs, StoreOK,
           NEW c \in Key, NEW w \in Word, CollationKey[w] = c,
           NEW x \in SUBSET Entry, NEW d, NEW ok, RemoveDoc(c, w, x, d, ok)
    PROVE  HeaderNamesStoredBlobs'
<1>1. CASE DelRecord(c, ok) /\ UNCHANGED blob
  BY <1>1, NamesKept DEF DelRecord
<1>2. CASE UNCHANGED <<ndx, blob>>
  BY <1>2 DEF HeaderNamesStoredBlobs, Missing
<1>3. CASE /\ Without(x, d) # {}
           /\ SaveWord(c, w, blob[w], ndx[c].nbBlob, Without(x, d), ok)
  <2>1. Without(x, d) \in SUBSET Entry
    BY DEF Without
  <2>2. IsBlobs(blob[w])
    BY DEF StoreOK
  <2> QED
    BY <1>3, <2>1, <2>2, SaveWordNames
<1> QED
  BY <1>1, <1>2, <1>3 DEF RemoveDoc

\* A header never counts a blob that was not stored, whatever puts failed
\* before, as long as no two spellings share a collation key.
THEOREM HeadersNameStoredBlobs ==
    ASSUME DistinctKeys
    PROVE  Spec => []HeaderNamesStoredBlobs
<1>1. Init => HeaderNamesStoredBlobs
  BY DEF Init, HeaderNamesStoredBlobs
<1>2. TypeOK /\ HeaderNamesStoredBlobs /\ [Next]_vars => HeaderNamesStoredBlobs'
  <2> SUFFICES ASSUME StoreOK, WalkOK, HeaderNamesStoredBlobs, [Next]_vars
               PROVE  HeaderNamesStoredBlobs'
    BY TypeOKParts
  <2>1. ASSUME NEW ok \in BOOLEAN, NEW w \in Word, NEW S \in Batch[w],
               AddWordEntries(w, S, ok)
        PROVE  HeaderNamesStoredBlobs'
    BY <2>1, BatchIsEntries, AddWordEntriesNames
  <2>2. ASSUME NEW ok \in BOOLEAN, NEW w \in Word, DelWordEntries(w, ok)
        PROVE  HeaderNamesStoredBlobs'
    <3>1. CollationKey[w] \in Key
      BY DEF Key
    <3> QED
      BY <2>2, <3>1, NamesKept DEF DelWordEntries, DelRecord
  <2>3. ASSUME NEW ok \in BOOLEAN, NEW w \in Word, NEW d \in Doc,
               DelWordDocEntries(w, d, ok)
        PROVE  HeaderNamesStoredBlobs'
    <3> DEFINE c == CollationKey[w]
    <3>1. c \in Key /\ ndx[c] \in Record /\ IsBlobs(blob[w])
      BY <2>3 DEF DelWordDocEntries, Key, StoreOK
    <3>2. PICK x \in Read(blob[w], ndx[c], {}) : RemoveDoc(c, w, x, d, ok)
      BY <2>3 DEF DelWordDocEntries
    <3>3. x \in SUBSET Entry
      BY <3>1, <3>2, ReadType
    <3> HIDE DEF c
    <3> QED
      BY <3>1, <3>2, <3>3, RemoveDocNames DEF c
  <2>4. ASSUME NEW d \in Doc, DelDocEntries(d)
        PROVE  HeaderNamesStoredBlobs'
    BY <2>4 DEF DelDocEntries, HeaderNamesStoredBlobs, Missing
  <2>5. ASSUME NEW ok \in BOOLEAN, VisitRecord(ok)
        PROVE  HeaderNamesStoredBlobs'
    <3>1. PICK c \in Ahead : \E x \in Read(blob[ndx[c].key], ndx[c], walk.left) :
                RemoveDoc(c, ndx[c].key, x, walk.doc, ok)
      BY <2>5 DEF VisitRecord
    <3>2. PICK x \in Read(blob[ndx[c].key], ndx[c], walk.left) :
                RemoveDoc(c, ndx[c].key, x, walk.doc, ok)
      BY <3>1
    <3>3. /\ c \in Key
          /\ ndx[c] \in Record
          /\ ndx[c].key \in Word
          /\ CollationKey[ndx[c].key] = c
      BY DEF Ahead, StoreOK, Record
    <3>4. IsBlobs(blob[ndx[c].key]) /\ walk.left \in SUBSET Entry
      BY <3>3 DEF StoreOK, WalkOK
    <3>5. x \in SUBSET Entry
      BY <3>2, <3>3, <3>4, ReadType
    <3> QED
      BY <3>2, <3>3, <3>5, RemoveDocNames
  <2>6. CASE EndWalk
    BY <2>6 DEF EndWalk, HeaderNamesStoredBlobs, Missing
  <2>7. CASE RemoveDbNdx
    BY <2>7 DEF RemoveDbNdx, HeaderNamesStoredBlobs
  <2>8. CASE UNCHANGED vars
    BY <2>8 DEF vars, HeaderNamesStoredBlobs, Missing
  <2> QED
    BY <2>1, <2>2, <2>3, <2>4, <2>5, <2>6, <2>7, <2>8 DEF Next
<1> QED
  BY <1>1, <1>2, TypeCorrect, PTL DEF Spec

-----------------------------------------------------------------------------
(***************************************************************************)
(* Places.  Entry number i * BlobSize + o of a word, 1 <= o <= BlobSize, is *)
(* the o-th of blob i.                                                     *)
(***************************************************************************)
LEMMA TimesMonotonic ==
    ASSUME NEW i \in Nat, NEW j \in Nat, i < j
    PROVE  /\ i * BlobSize \in Nat
           /\ j * BlobSize \in Nat
           /\ (i + 1) * BlobSize = i * BlobSize + BlobSize
           /\ (i + 1) * BlobSize <= j * BlobSize
BY BlobAssumption

LEMMA PlaceIsUnique ==
    ASSUME NEW i \in Nat, NEW j \in Nat, NEW o \in 1 .. BlobSize, NEW p \in 1 .. BlobSize,
           i * BlobSize + o = j * BlobSize + p
    PROVE  i = j /\ o = p
BY TimesMonotonic, BlobAssumption

LEMMA Division ==
    ASSUME NEW n \in Nat
    PROVE  /\ n \div BlobSize \in Nat
           /\ (n \div BlobSize) * BlobSize <= n
           /\ n < (n \div BlobSize) * BlobSize + BlobSize
BY BlobAssumption

LEMMA PlaceExists ==
    ASSUME NEW n \in Nat \ {0}
    PROVE  \E i \in Nat : \E o \in 1 .. BlobSize : n = i * BlobSize + o
<1>1. n - 1 \in Nat
  OBVIOUS
<1> DEFINE i == (n - 1) \div BlobSize
<1>2. i \in Nat /\ i * BlobSize <= n - 1 /\ n - 1 < i * BlobSize + BlobSize
  BY <1>1, Division
<1>3. i * BlobSize \in Nat
  BY <1>2, TimesMonotonic, BlobAssumption
<1> HIDE DEF i
<1>4. n - i * BlobSize \in 1 .. BlobSize
  BY <1>2, <1>3, BlobAssumption
<1> QED
  BY <1>2, <1>3, <1>4

\* n entries take the least number of blobs that hold them all.
LEMMA NbBlobBounds ==
    ASSUME NEW n \in Nat \ {0}
    PROVE  /\ NbBlob(n) \in Nat \ {0}
           /\ n <= NbBlob(n) * BlobSize
           /\ (NbBlob(n) - 1) * BlobSize < n
BY BlobAssumption DEF NbBlob

\* There is one such number.
LEMMA NbBlobIsUnique ==
    ASSUME NEW n \in Nat \ {0}, NEW k \in Nat \ {0},
           n <= k * BlobSize, (k - 1) * BlobSize < n
    PROVE  NbBlob(n) = k
<1> DEFINE m == NbBlob(n)
<1>1. m \in Nat \ {0} /\ n <= m * BlobSize /\ (m - 1) * BlobSize < n
  BY NbBlobBounds
<1> HIDE DEF m
<1>2. m - 1 \in Nat /\ k - 1 \in Nat
  BY <1>1
<1>3. ~ m < k
  <2> SUFFICES ASSUME m < k PROVE FALSE
    OBVIOUS
  <2>1. m <= k - 1
    BY <1>1
  <2>2. m * BlobSize <= (k - 1) * BlobSize
    <3>1. CASE m = k - 1
      BY <1>1, <1>2, <3>1, BlobAssumption
    <3>2. CASE m < k - 1
      BY <1>1, <1>2, <3>2, BlobAssumption, TimesMonotonic
    <3> QED
      BY <1>1, <2>1, <3>1, <3>2
  <2> QED
    BY <1>1, <1>2, <2>2, BlobAssumption
<1>4. ~ k < m
  <2> SUFFICES ASSUME k < m PROVE FALSE
    OBVIOUS
  <2>1. k <= m - 1
    BY <1>1
  <2>2. k * BlobSize <= (m - 1) * BlobSize
    <3>1. CASE k = m - 1
      BY <1>1, <1>2, <3>1, BlobAssumption
    <3>2. CASE k < m - 1
      BY <1>1, <1>2, <3>2, BlobAssumption, TimesMonotonic
    <3> QED
      BY <1>1, <2>1, <3>1, <3>2
  <2> QED
    BY <1>1, <1>2, <2>2, BlobAssumption
<1> QED
  BY <1>1, <1>3, <1>4 DEF m

\* The chunks of a sequence: their lengths and their elements.
LEMMA ChunkElements ==
    ASSUME NEW q \in Seq(Entry), NEW i \in Nat, i * BlobSize <= Len(q)
    PROVE  /\ Chunk(q, i) \in Seq(Entry)
           /\ Len(Chunk(q, i)) = IF i * BlobSize + BlobSize < Len(q)
                                 THEN BlobSize ELSE Len(q) - i * BlobSize
           /\ \A o \in 1 .. Len(Chunk(q, i)) :
                    /\ o \in 1 .. BlobSize
                    /\ i * BlobSize + o \in 1 .. Len(q)
                    /\ Chunk(q, i)[o] = q[i * BlobSize + o]
<1> DEFINE a == i * BlobSize
           n == IF a + BlobSize < Len(q) THEN a + BlobSize ELSE Len(q)
<1>1. a \in Nat /\ (i + 1) * BlobSize = a + BlobSize
  BY TimesMonotonic, BlobAssumption
<1>2. n \in Int /\ n <= Len(q) /\ Len(q) \in Nat /\ a <= n
  BY <1>1, BlobAssumption, LenProperties
<1>3. Chunk(q, i) = SubSeq(q, a + 1, n)
  BY <1>1 DEF Chunk
<1>4. n = IF a + BlobSize < Len(q) THEN a + BlobSize ELSE Len(q)
  OBVIOUS
<1>5. a <= Len(q)
  OBVIOUS
<1> HIDE DEF a, n
<1>6. \A k \in a + 1 .. n : q[k] \in Entry
  BY <1>1, <1>2, LenProperties
<1>7. a + 1 \in Int
  BY <1>1
<1>8. /\ SubSeq(q, a + 1, n) \in Seq(Entry)
      /\ Len(SubSeq(q, a + 1, n)) = IF a + 1 <= n THEN n - (a + 1) + 1 ELSE 0
      /\ \A o \in 1 .. n - (a + 1) + 1 : SubSeq(q, a + 1, n)[o] = q[a + 1 + o - 1]
  BY <1>2, <1>6, <1>7, SubSeqProperties
<1>9. Len(Chunk(q, i)) = n - a
  BY <1>1, <1>2, <1>3, <1>8
<1>10. Len(Chunk(q, i)) = IF a + BlobSize < Len(q) THEN BlobSize ELSE Len(q) - a
  BY <1>1, <1>2, <1>4, <1>9, BlobAssumption
<1>11. ASSUME NEW o \in 1 .. Len(Chunk(q, i))
       PROVE  /\ o \in 1 .. BlobSize
              /\ a + o \in 1 .. Len(q)
              /\ Chunk(q, i)[o] = q[a + o]
  <2>1. o \in 1 .. n - (a + 1) + 1
    BY <1>1, <1>2, <1>9
  <2>2. Chunk(q, i)[o] = q[a + 1 + o - 1]
    BY <1>3, <1>8, <2>1
  <2>3. a + 1 + o - 1 = a + o
    BY <1>1
  <2>4. o \in 1 .. BlobSize
    BY <1>1, <1>2, <1>9, <1>10, BlobAssumption
  <2>5. a + o \in 1 .. Len(q)
    BY <1>1, <1>2, <1>9
  <2> QED
    BY <2>2, <2>3, <2>4, <2>5
<1> QED
  BY <1>3, <1>8, <1>10, <1>11 DEF a

-----------------------------------------------------------------------------
(***************************************************************************)
(* The enumeration of an entry set.                                        *)
(***************************************************************************)
LEMMA SortedFacts ==
    ASSUME NEW S \in SUBSET Entry, S # {}
    PROVE  /\ Sorted(S) \in Seq(Entry)
           /\ Len(Sorted(S)) = Cardinality(S)
           /\ Len(Sorted(S)) \in Nat \ {0}
           /\ \A i \in 1 .. Len(Sorted(S)) : /\ Sorted(S)[i] \in S
                                             /\ Rank(Sorted(S)[i], S) = i - 1
           /\ \A e \in S : \E i \in 1 .. Len(Sorted(S)) : Sorted(S)[i] = e
<1>1. S \in SUBSET Pairs /\ IsFiniteSet(S)
  BY EntryFacts, FS_Subset
<1>2. Sorted(S) \in Seq(S)
  BY <1>1, SortedEnumerates
<1>3. \A i \in 1 .. Len(Sorted(S)) : Sorted(S)[i] \in S
  BY <1>2, ElementOfSeq
<1> QED
  BY <1>1, <1>3, SortedEnumerates, SortedType

\* An entry comes after another one exactly when its number is higher.
LEMMA SortedIsIncreasing ==
    ASSUME NEW S \in SUBSET Entry, S # {},
           NEW i \in 1 .. Len(Sorted(S)), NEW j \in 1 .. Len(Sorted(S))
    PROVE  /\ Sorted(S)[i] = Sorted(S)[j] => i = j
           /\ i < j => Less(Sorted(S)[i], Sorted(S)[j])
<1> DEFINE e == Sorted(S)[i]
           f == Sorted(S)[j]
<1>1. e \in S /\ f \in S /\ Rank(e, S) = i - 1 /\ Rank(f, S) = j - 1
  BY SortedFacts
<1>2. S \in SUBSET Pairs /\ IsFiniteSet(S)
  BY EntryFacts, FS_Subset
<1>3. Len(Sorted(S)) \in Nat /\ i \in Int /\ j \in Int
  BY SortedFacts
<1> HIDE DEF e, f
<1>4. e = f => i = j
  BY <1>1, <1>3
<1>5. ASSUME i < j PROVE Less(e, f)
  <2>1. ~ Less(f, e)
    BY <1>1, <1>2, <1>3, <1>5, RankIsMonotonic
  <2>2. e # f
    BY <1>1, <1>3, <1>5
  <2> QED
    BY <1>1, <1>2, <2>1, <2>2, LessIsTotalOrder
<1> QED
  BY <1>4, <1>5 DEF e, f

\* The ranks tell which sequence it is.
LEMMA SortedIsUnique ==
    ASSUME NEW S \in SUBSET Entry, S # {}, NEW q \in Seq(Entry),
           Len(q) = Cardinality(S),
           \A i \in 1 .. Len(q) : q[i] \in S /\ Rank(q[i], S) = i - 1
    PROVE  q = Sorted(S)
<1>1. S \in SUBSET Pairs /\ IsFiniteSet(S)
  BY EntryFacts, FS_Subset
<1>2. Sorted(S) \in Seq(Entry) /\ Len(Sorted(S)) = Len(q) /\ Len(q) \in Nat
  BY SortedFacts
<1>3. ASSUME NEW i \in 1 .. Len(q)
      PROVE  q[i] = Sorted(S)[i]
  <2> DEFINE e == q[i]
             f == Sorted(S)[i]
  <2>1. e \in S /\ f \in S /\ Rank(e, S) = i - 1 /\ Rank(f, S) = i - 1
    BY <1>2, SortedFacts
  <2>2. i - 1 \in Int
    BY <1>2
  <2> HIDE DEF e, f
  <2>3. ~ Less(e, f) /\ ~ Less(f, e)
    BY <1>1, <2>1, <2>2, RankIsMonotonic
  <2>4. e = f
    BY <1>1, <2>1, <2>3, LessIsTotalOrder
  <2> QED
    BY <2>4 DEF e, f
<1> QED
  BY <1>2, <1>3, SeqEqual

\* The document of the last entry is the highest.
LEMMA LastIsHighest ==
    ASSUME NEW S \in SUBSET Entry, S # {}, NEW e \in S
    PROVE  /\ e[1] \in Nat
           /\ Sorted(S)[1][1] \in Nat
           /\ Sorted(S)[Len(Sorted(S))][1] \in Nat
           /\ Sorted(S)[1][1] <= e[1]
           /\ e[1] <= Sorted(S)[Len(Sorted(S))][1]
<1> DEFINE q == Sorted(S)
           n == Len(q)
<1>1. n \in Nat \ {0}
  BY SortedFacts
<1>2. PICK i \in 1 .. n : q[i] = e
  BY SortedFacts
<1>3. 1 \in 1 .. n /\ n \in 1 .. n /\ i \in Int
  BY <1>1
<1>4. q[1] \in S /\ q[n] \in S
  BY <1>3, SortedFacts
<1>5. 1 < i => Less(q[1], e)
  BY <1>2, <1>3, SortedIsIncreasing
<1>6. i < n => Less(e, q[n])
  BY <1>2, <1>3, SortedIsIncreasing
<1>7. \A f \in S : f[1] \in Nat
  BY EntryAssumption DEF Entry
<1> HIDE DEF q, n
<1>8. e[1] \in Nat /\ q[1][1] \in Nat /\ q[n][1] \in Nat
  BY <1>4, <1>7
<1>9. q[1][1] <= e[1]
  <2>1. CASE i = 1
    BY <1>2, <1>8, <2>1
  <2>2. CASE 1 < i
    BY <1>5, <1>8, <2>2 DEF Less
  <2> QED
    BY <1>1, <2>1, <2>2
<1>10. e[1] <= q[n][1]
  <2>1. CASE i = n
    BY <1>2, <1>8, <2>1
  <2>2. CASE i < n
    BY <1>6, <1>8, <2>2 DEF Less
  <2> QED
    BY <1>1, <2>1, <2>2
<1> QED
  BY <1>8, <1>9, <1>10 DEF q, n

-----------------------------------------------------------------------------
(***************************************************************************)
(* Reading.  A record and the blobs of its word hold the entry set S when  *)
(* the header counts S and S is in the record or cut in the blobs.         *)
(***************************************************************************)
Holds(b, r, S) ==
    LET q == Sorted(S)
    IN  /\ r.lastDoc = q[Len(q)][1]
        /\ r.nbEnt = Len(q)
        /\ \/ r.nbBlob = 0 /\ r.inline = q
           \/ /\ r.nbBlob = NbBlob(Len(q))
              /\ \A i \in 0 .. r.nbBlob - 1 : i \in DOMAIN b /\ b[i] = Chunk(q, i)

\* The entries in the first n places of a buffer.
Taken(buf, n) == {buf[c[1]][c[2]] : c \in {d \in Cell(buf) : Rank(d, Cell(buf)) < n}}

\* A buffer whose places correspond one to one with the entries of S, as many
\* as the header counts, is decoded to S.
LEMMA BufferDecodes ==
    ASSUME NEW S \in SUBSET Entry, S # {},
           NEW buf, Cell(buf) \in SUBSET Pairs,
           NEW f \in Bijection(Cell(buf), 1 .. Len(Sorted(S))),
           \A c \in Cell(buf) : buf[c[1]][c[2]] = Sorted(S)[f[c]]
    PROVE  /\ Cardinality(Cell(buf)) = Len(Sorted(S))
           /\ Taken(buf, Len(Sorted(S))) = S
<1> DEFINE q == Sorted(S)
           n == Len(q)
           C == Cell(buf)
<1>1. n \in Nat
  BY SortedFacts
<1>2. IsFiniteSet(1 .. n) /\ Cardinality(1 .. n) = n
  <2>1. 1 \in Int /\ n \in Int
    BY <1>1
  <2> HIDE DEF n
  <2>2. /\ IsFiniteSet(1 .. n)
        /\ Cardinality(1 .. n) = IF 1 > n THEN 0 ELSE n - 1 + 1
    BY <2>1, FS_Interval
  <2> QED
    BY <1>1, <2>2
<1>3. f \in Injection(C, 1 .. n) /\ f \in Surjection(C, 1 .. n)
  BY DEF Bijection
<1> HIDE DEF n, C
<1>4. IsFiniteSet(C) /\ Cardinality(C) = n
  BY <1>2, <1>3, FS_Injection
<1>5. \A d \in C : Rank(d, C) < n
  <2> SUFFICES ASSUME NEW d \in C PROVE Rank(d, C) < n
    OBVIOUS
  <2>1. Rank(d, C) \in 0 .. n - 1
    BY <1>4, RankType DEF C
  <2> QED
    BY <1>1, <2>1
<1>6. {d \in C : Rank(d, C) < n} = C
  BY <1>5
<1>7. f \in [C -> 1 .. n] /\ \A i \in 1 .. n : \E c \in C : f[c] = i
  BY <1>3 DEF Surjection
<1>8. /\ \A i \in 1 .. n : q[i] \in S
      /\ \A e \in S : \E i \in 1 .. n : q[i] = e
  BY SortedFacts DEF n
<1> HIDE DEF q
<1>9. \A c \in C : buf[c[1]][c[2]] = q[f[c]]
  BY DEF C, q
<1>10. {buf[c[1]][c[2]] : c \in C} = S
  BY <1>7, <1>8, <1>9
<1> QED
  BY <1>4, <1>6, <1>10 DEF Taken, C, n, q

\* The entries in the record itself.
LEMMA InlineCells ==
    ASSUME NEW S \in SUBSET Entry, S # {}, NEW buf, buf = [i \in {0} |-> Sorted(S)]
    PROVE  /\ Cardinality(Cell(buf)) = Len(Sorted(S))
           /\ Taken(buf, Len(Sorted(S))) = S
<1> DEFINE q == Sorted(S)
           n == Len(q)
           C == Cell(buf)
           f == [c \in C |-> c[2]]
<1>1. C = {0} \X (1 .. n)
  BY DEF Cell
<1>2. n \in Nat
  BY SortedFacts
<1> HIDE DEF n
<1>3. C \in SUBSET Pairs
  BY <1>1, <1>2 DEF Pairs
<1>4. f \in Bijection(C, 1 .. n)
  <2>1. f \in [C -> 1 .. n]
    BY <1>1
  <2>2. \A c, d \in C : f[c] = f[d] => c = d
    BY <1>1
  <2>3. \A i \in 1 .. n : \E c \in C : f[c] = i
    <3> SUFFICES ASSUME NEW i \in 1 .. n PROVE \E c \in C : f[c] = i
      OBVIOUS
    <3>1. <<0, i>> \in C /\ f[<<0, i>>] = i
      BY <1>1
    <3> QED
      BY <3>1
  <2> HIDE DEF C, f
  <2> QED
    BY <2>1, <2>2, <2>3 DEF Bijection, Injection, Surjection, IsInjective
<1>5. \A c \in C : buf[c[1]][c[2]] = q[f[c]]
  BY <1>1
<1> HIDE DEF f, q
<1> QED
  BY <1>3, <1>4, <1>5, BufferDecodes DEF C, n, q

\* The entries in the blobs: the cell of blob i and offset o holds entry
\* number i * BlobSize + o.
LEMMA BlobCells ==
    ASSUME NEW S \in SUBSET Entry, S # {}, NEW buf,
           DOMAIN buf = 0 .. NbBlob(Len(Sorted(S))) - 1,
           \A i \in DOMAIN buf : buf[i] = Chunk(Sorted(S), i)
    PROVE  /\ Cardinality(Cell(buf)) = Len(Sorted(S))
           /\ Taken(buf, Len(Sorted(S))) = S
<1> DEFINE q == Sorted(S)
           n == Len(q)
           nb == NbBlob(n)
           C == Cell(buf)
           f == [c \in C |-> c[1] * BlobSize + c[2]]
<1>1. q \in Seq(Entry) /\ n \in Nat \ {0}
  BY SortedFacts
<1>2. nb \in Nat \ {0} /\ n <= nb * BlobSize /\ (nb - 1) * BlobSize < n
  BY <1>1, NbBlobBounds
<1>3. \A i \in 0 .. nb - 1 : buf[i] = Chunk(q, i)
  OBVIOUS
<1>4. C = UNION {{i} \X (1 .. Len(buf[i])) : i \in 0 .. nb - 1}
  BY DEF Cell
<1> HIDE DEF n, nb, C
<1>5. ASSUME NEW i \in 0 .. nb - 1
      PROVE  i \in Nat /\ i * BlobSize \in Nat /\ i * BlobSize <= n
  <2>1. i \in Nat /\ nb - 1 \in Nat /\ i <= nb - 1
    BY <1>2
  <2>2. CASE i = nb - 1
    BY <1>1, <1>2, <2>1, <2>2, BlobAssumption
  <2>3. CASE i < nb - 1
    BY <1>1, <1>2, <2>1, <2>3, BlobAssumption, TimesMonotonic
  <2> QED
    BY <2>1, <2>2, <2>3
<1>6. ASSUME NEW c \in C
      PROVE  /\ c \in Nat \X (1 .. BlobSize)
             /\ c[1] \in 0 .. nb - 1
             /\ c[1] * BlobSize + c[2] \in 1 .. n
             /\ buf[c[1]][c[2]] = q[c[1] * BlobSize + c[2]]
  <2>1. PICK i \in 0 .. nb - 1 : c \in {i} \X (1 .. Len(buf[i]))
    BY <1>4
  <2>2. c[1] = i /\ c[2] \in 1 .. Len(buf[i])
    BY <2>1
  <2>3. buf[i] = Chunk(q, i) /\ i \in Nat
    BY <1>2, <1>3
  <2>4. /\ c[2] \in 1 .. BlobSize
        /\ i * BlobSize + c[2] \in 1 .. n
        /\ Chunk(q, i)[c[2]] = q[i * BlobSize + c[2]]
    BY <1>1, <1>5, <2>2, <2>3, ChunkElements DEF n
  <2>5. c \in Nat \X (1 .. BlobSize)
    BY <2>1, <2>3, <2>4
  <2> QED
    BY <2>2, <2>3, <2>4, <2>5
<1>7. C \in SUBSET Pairs
  <2>1. 1 .. BlobSize \subseteq Nat
    BY BlobAssumption
  <2> QED
    BY <1>6, <2>1 DEF Pairs
<1>8. f \in Bijection(C, 1 .. n)
  <2>1. f \in [C -> 1 .. n]
    BY <1>6
  <2>2. ASSUME NEW c \in C, NEW d \in C, f[c] = f[d]
        PROVE  c = d
    <3>1. c[1] * BlobSize + c[2] = d[1] * BlobSize + d[2]
      BY <2>2
    <3>2. c \in Nat \X (1 .. BlobSize) /\ d \in Nat \X (1 .. BlobSize)
      BY <1>6
    <3>3. c[1] = d[1] /\ c[2] = d[2]
      BY <3>1, <3>2, PlaceIsUnique
    <3> QED
      BY <3>2, <3>3
  <2>3. ASSUME NEW k \in 1 .. n
        PROVE  \E c \in C : f[c] = k
    <3>1. k \in Nat \ {0} /\ k <= n
      BY <1>1
    <3>2. PICK i \in Nat : \E o \in 1 .. BlobSize : k = i * BlobSize + o
      BY <3>1, PlaceExists
    <3>3. PICK o \in 1 .. BlobSize : k = i * BlobSize + o
      BY <3>2
    <3>4. i \in 0 .. nb - 1
      <4>1. ~ nb <= i
        <5> SUFFICES ASSUME nb <= i PROVE FALSE
          OBVIOUS
        <5>1. nb * BlobSize <= i * BlobSize
          <6>1. CASE nb = i
            BY <1>2, <6>1, BlobAssumption
          <6>2. CASE nb < i
            BY <1>2, <6>2, BlobAssumption, TimesMonotonic
          <6> QED
            BY <1>2, <6>1, <6>2
        <5>2. nb * BlobSize \in Nat /\ i * BlobSize \in Nat
          BY <1>2, BlobAssumption
        <5> QED
          BY <1>1, <1>2, <3>1, <3>3, <5>1, <5>2, BlobAssumption
      <4> QED
        BY <1>2, <4>1
    <3>5. o \in 1 .. Len(buf[i])
      <4>1. /\ i * BlobSize <= n
            /\ i * BlobSize \in Nat
            /\ Len(Chunk(q, i)) = IF i * BlobSize + BlobSize < n
                                  THEN BlobSize ELSE n - i * BlobSize
        BY <1>1, <1>5, <3>4, ChunkElements DEF n
      <4>2. buf[i] = Chunk(q, i)
        BY <1>3, <3>4
      <4> QED
        BY <1>1, <3>1, <3>3, <4>1, <4>2, BlobAssumption
    <3>6. <<i, o>> \in C
      <4>1. <<i, o>> \in {i} \X (1 .. Len(buf[i]))
        BY <3>5
      <4>2. {i} \X (1 .. Len(buf[i])) \in {{j} \X (1 .. Len(buf[j])) : j \in 0 .. nb - 1}
        BY <3>4
      <4> HIDE DEF f, q
      <4> QED
        BY <1>4, <4>1, <4>2
    <3>7. f[<<i, o>>] = k
      BY <3>3, <3>6
    <3> QED
      BY <3>6, <3>7
  <2> HIDE DEF f
  <2> QED
    BY <2>1, <2>2, <2>3 DEF Bijection, Injection, Surjection, IsInjective
<1>9. \A c \in C : buf[c[1]][c[2]] = q[f[c]]
  BY <1>6
<1> HIDE DEF f, q
<1> QED
  BY <1>7, <1>8, <1>9, BufferDecodes DEF C, n, q

\* A record that holds S is read as S: no blob is missing, the buffer is as
\* long as the header says, and nothing else is found in it.
LEMMA HoldsReads ==
    ASSUME NEW S \in SUBSET Entry, S # {}, NEW b, NEW r, Holds(b, r, S)
    PROVE  /\ ~ Missing(b, r)
           /\ Decoded(b, r) = S
           /\ r.nbEnt = Cardinality(S)
           /\ r.nbEnt = Cardinality(Cell(Buffer(b, r)))
           /\ \A old : Read(b, r, old) = {S}
<1> DEFINE q == Sorted(S)
           buf == Buffer(b, r)
<1>1. q \in Seq(Entry) /\ Len(q) \in Nat \ {0} /\ Len(q) = Cardinality(S)
  BY SortedFacts
<1>2. r.nbEnt = Len(q)
  BY DEF Holds
<1>3. /\ ~ Missing(b, r)
      /\ Cardinality(Cell(buf)) = Len(q)
      /\ Taken(buf, Len(q)) = S
  <2>1. CASE r.nbBlob = 0 /\ r.inline = q
    <3>1. buf = [i \in {0} |-> q]
      BY <2>1 DEF Buffer
    <3>2. ~ Missing(b, r)
      BY <2>1 DEF Missing
    <3> HIDE DEF buf
    <3> QED
      BY <3>1, <3>2, InlineCells
  <2>2. CASE /\ r.nbBlob = NbBlob(Len(q))
             /\ \A i \in 0 .. r.nbBlob - 1 : i \in DOMAIN b /\ b[i] = Chunk(q, i)
    <3>1. r.nbBlob # 0
      BY <1>1, <2>2, NbBlobBounds
    <3>2. /\ DOMAIN buf = 0 .. NbBlob(Len(Sorted(S))) - 1
          /\ \A i \in DOMAIN buf : buf[i] = Chunk(Sorted(S), i)
      BY <2>2, <3>1 DEF Buffer
    <3>3. ~ Missing(b, r)
      BY <2>2 DEF Missing
    <3> HIDE DEF buf, q
    <3>4. /\ Cardinality(Cell(buf)) = Len(Sorted(S))
          /\ Taken(buf, Len(Sorted(S))) = S
      BY <3>2, BlobCells
    <3> QED
      BY <3>3, <3>4 DEF q
  <2> QED
    BY <2>1, <2>2 DEF Holds
<1>4. Decoded(b, r) = S
  BY <1>2, <1>3 DEF Decoded, Taken
<1>5. r.nbEnt - Cardinality(Cell(buf)) = 0
  BY <1>1, <1>2, <1>3
<1>6. Junk(r.nbEnt - Cardinality(Cell(Buffer(b, r)))) = {{}}
  BY <1>5 DEF Junk
<1>7. \A old : Read(b, r, old) = {S \cup J : J \in {{}}}
  BY <1>3, <1>4, <1>6 DEF Read
<1>8. {S \cup J : J \in {{}}} = {S}
  OBVIOUS
<1> QED
  BY <1>1, <1>2, <1>3, <1>4, <1>7, <1>8

-----------------------------------------------------------------------------
(***************************************************************************)
(* Writing.                                                                *)
(***************************************************************************)
\* SetCursorData of S leaves a record and blobs that hold S, also when the
\* put of a blob fails and the entries go to the record.
LEMMA SavesHold ==
    ASSUME NEW key, NEW b, NEW k, NEW S \in SUBSET Entry, S # {},
           NEW o \in Saves(key, b, k, S)
    PROVE  Holds(o.blobs, o.rec, S)
<1> DEFINE q == Sorted(S)
           nb == IF HasBlob THEN NbBlob(Len(q)) ELSE 0
<1>1. CASE o = [blobs |-> Stored(b, 0, q, nb),
                rec |-> Header(key, q, nb, IF HasBlob THEN <<>> ELSE q)]
  <2>1. /\ o.rec.lastDoc = q[Len(q)][1]
        /\ o.rec.nbEnt = Len(q)
        /\ o.rec.nbBlob = nb
        /\ o.rec.inline = IF HasBlob THEN <<>> ELSE q
    BY <1>1 DEF Header
  <2>2. CASE ~ HasBlob
    BY <2>1, <2>2 DEF Holds
  <2>3. CASE HasBlob
    <3>1. nb = NbBlob(Len(q)) /\ nb \in Nat
      BY <2>3, SortedFacts, NbBlobType
    <3>2. o.blobs = Stored(b, 0, q, nb)
      BY <1>1
    <3> HIDE DEF nb, q
    <3>3. \A i \in 0 .. nb - 1 : i \in DOMAIN o.blobs /\ o.blobs[i] = Chunk(q, i)
      <4>1. 0 + nb - 1 = nb - 1 /\ \A i \in 0 .. nb - 1 : i - 0 = i
        BY <3>1
      <4> QED
        BY <3>2, <4>1 DEF Stored
    <3> QED
      BY <2>1, <3>1, <3>3 DEF Holds, q
  <2> QED
    BY <2>2, <2>3, BlobAssumption
<1>2. CASE \E n \in 0 .. nb - 1 :
                o = [blobs |-> Stored(b, 0, q, n), rec |-> Header(key, q, 0, q)]
  BY <1>2 DEF Header, Holds
<1> QED
  BY <1>1, <1>2 DEF Saves

\* When the documents of T come after those of S, the entries of both are
\* those of S and then those of T.
LEMMA SortedAfter ==
    ASSUME NEW S \in SUBSET Entry, S # {}, NEW T \in SUBSET Entry, T # {},
           Sorted(T)[1][1] > Sorted(S)[Len(Sorted(S))][1]
    PROVE  Sorted(S \cup T) = Sorted(S) \o Sorted(T)
<1> DEFINE U == S \cup T
           p == Sorted(S)
           q == Sorted(T)
           u == p \o q
<1>1. /\ S \in SUBSET Pairs /\ IsFiniteSet(S)
      /\ T \in SUBSET Pairs /\ IsFiniteSet(T)
      /\ U \in SUBSET Entry /\ U # {} /\ IsFiniteSet(U)
  BY EntryFacts, FS_Subset
<1>2. ASSUME NEW e \in S, NEW f \in T
      PROVE  Less(e, f) /\ ~ Less(f, e) /\ e # f
  <2>1. /\ e[1] \in Nat /\ e[1] <= Sorted(S)[Len(Sorted(S))][1]
        /\ f[1] \in Nat /\ Sorted(T)[1][1] <= f[1]
        /\ Sorted(S)[Len(Sorted(S))][1] \in Nat /\ Sorted(T)[1][1] \in Nat
    BY LastIsHighest
  <2>2. e[1] < f[1]
    BY <2>1
  <2> QED
    BY <2>1, <2>2 DEF Less
<1>3. /\ p \in Seq(Entry) /\ Len(p) = Cardinality(S) /\ Len(p) \in Nat
      /\ q \in Seq(Entry) /\ Len(q) = Cardinality(T) /\ Len(q) \in Nat
  BY SortedFacts
<1>4. /\ \A i \in 1 .. Len(p) : p[i] \in S /\ Rank(p[i], S) = i - 1
      /\ \A i \in 1 .. Len(q) : q[i] \in T /\ Rank(q[i], T) = i - 1
  BY SortedFacts
<1> HIDE DEF p, q
<1>5. /\ u \in Seq(Entry)
      /\ Len(u) = Len(p) + Len(q)
      /\ \A i \in 1 .. Len(p) + Len(q) : u[i] = IF i <= Len(p) THEN p[i] ELSE q[i - Len(p)]
  BY <1>3, ConcatProperties
<1>6. Cardinality(U) = Cardinality(S) + Cardinality(T)
  <2>1. S \cap T = {}
    BY <1>2
  <2>2. Cardinality(U) = Cardinality(S) + Cardinality(T) - Cardinality({})
    BY <1>1, <2>1, FS_Union
  <2> QED
    BY <1>3, <2>2, FS_EmptySet
<1>7. ASSUME NEW e \in S
      PROVE  Rank(e, U) = Rank(e, S)
  <2>1. {g \in U : Less(g, e)} = {g \in S : Less(g, e)}
    BY <1>2
  <2> QED
    BY <2>1 DEF Rank
<1>8. ASSUME NEW f \in T
      PROVE  Rank(f, U) = Len(p) + Rank(f, T)
  <2> DEFINE B == {g \in T : Less(g, f)}
  <2>1. {g \in U : Less(g, f)} = S \cup B
    BY <1>2
  <2>2. S \cap B = {} /\ IsFiniteSet(B)
    <3>1. B \in SUBSET T
      OBVIOUS
    <3> QED
      BY <1>1, <1>2, <3>1, FS_Subset
  <2>3. Cardinality(B) \in Nat
    BY <2>2, FS_CardinalityType
  <2>4. Cardinality(S \cup B) = Cardinality(S) + Cardinality(B) - Cardinality({})
    BY <1>1, <2>2, FS_Union
  <2> HIDE DEF B
  <2>5. Cardinality(S \cup B) = Len(p) + Cardinality(B)
    BY <1>3, <2>3, <2>4, FS_EmptySet
  <2> QED
    BY <2>1, <2>5 DEF Rank, B
<1>9. ASSUME NEW i \in 1 .. Len(u)
      PROVE  u[i] \in U /\ Rank(u[i], U) = i - 1
  <2>1. CASE i <= Len(p)
    <3>1. i \in 1 .. Len(p) /\ u[i] = p[i]
      BY <1>3, <1>5, <2>1
    <3> QED
      BY <1>4, <1>7, <3>1
  <2>2. CASE ~ i <= Len(p)
    <3>1. i - Len(p) \in 1 .. Len(q) /\ u[i] = q[i - Len(p)]
      BY <1>3, <1>5, <2>2
    <3>2. u[i] \in T /\ Rank(u[i], T) = i - Len(p) - 1
      BY <1>4, <3>1
    <3>3. Rank(u[i], U) = Len(p) + (i - Len(p) - 1)
      BY <1>8, <3>2
    <3> QED
      BY <1>3, <1>5, <3>2, <3>3
  <2> QED
    BY <2>1, <2>2
<1> HIDE DEF u
<1>10. Len(u) = Cardinality(U)
  BY <1>3, <1>5, <1>6
<1>11. u = Sorted(U)
  BY <1>1, <1>5, <1>9, <1>10, SortedIsUnique
<1> QED
  BY <1>11 DEF u, p, q

LEMMA TimesPlus ==
    ASSUME NEW i \in Nat, NEW j \in Nat
    PROVE  /\ (i + j) * BlobSize = i * BlobSize + j * BlobSize
           /\ i * BlobSize \in Nat
           /\ j * BlobSize \in Nat
BY BlobAssumption

\* A full blob stays as it is when entries are added at the end.
LEMMA ChunkOfPrefix ==
    ASSUME NEW p \in Seq(Entry), NEW u \in Seq(Entry), Len(p) <= Len(u),
           \A i \in 1 .. Len(p) : u[i] = p[i],
           NEW i \in Nat, i * BlobSize + BlobSize <= Len(p)
    PROVE  Chunk(u, i) = Chunk(p, i)
<1>1. i * BlobSize \in Nat /\ Len(p) \in Nat /\ Len(u) \in Nat
  BY TimesPlus, LenProperties
<1>2. i * BlobSize <= Len(p) /\ i * BlobSize <= Len(u)
  BY <1>1, BlobAssumption
<1>3. /\ Chunk(u, i) \in Seq(Entry) /\ Len(Chunk(u, i)) = BlobSize
      /\ Chunk(p, i) \in Seq(Entry) /\ Len(Chunk(p, i)) = BlobSize
  BY <1>1, <1>2, ChunkElements, BlobAssumption
<1>4. ASSUME NEW o \in 1 .. BlobSize
      PROVE  Chunk(u, i)[o] = Chunk(p, i)[o]
  <2>1. /\ i * BlobSize + o \in 1 .. Len(p)
        /\ Chunk(p, i)[o] = p[i * BlobSize + o]
        /\ Chunk(u, i)[o] = u[i * BlobSize + o]
    BY <1>2, <1>3, ChunkElements
  <2> QED
    BY <2>1
<1> QED
  BY <1>3, <1>4, SeqEqual

\* What follows the first h blobs is cut at the same places as the whole.
LEMMA ChunkOfSuffix ==
    ASSUME NEW t \in Seq(Entry), NEW u \in Seq(Entry), NEW h \in Nat,
           Len(u) = h * BlobSize + Len(t),
           \A i \in 1 .. Len(t) : t[i] = u[h * BlobSize + i],
           NEW j \in Nat, j * BlobSize <= Len(t)
    PROVE  Chunk(t, j) = Chunk(u, h + j)
<1>1. /\ (h + j) * BlobSize = h * BlobSize + j * BlobSize
      /\ h * BlobSize \in Nat
      /\ j * BlobSize \in Nat
      /\ h + j \in Nat
      /\ Len(t) \in Nat
  BY TimesPlus, LenProperties
<1>2. (h + j) * BlobSize <= Len(u)
  BY <1>1
<1>3. /\ Chunk(t, j) \in Seq(Entry)
      /\ Len(Chunk(t, j)) = IF j * BlobSize + BlobSize < Len(t)
                            THEN BlobSize ELSE Len(t) - j * BlobSize
  BY ChunkElements
<1>4. /\ Chunk(u, h + j) \in Seq(Entry)
      /\ Len(Chunk(u, h + j)) = IF (h + j) * BlobSize + BlobSize < Len(u)
                                THEN BlobSize ELSE Len(u) - (h + j) * BlobSize
  BY <1>1, <1>2, ChunkElements
<1>5. Len(Chunk(t, j)) = Len(Chunk(u, h + j))
  BY <1>1, <1>3, <1>4, BlobAssumption
<1>6. ASSUME NEW o \in 1 .. Len(Chunk(t, j))
      PROVE  Chunk(t, j)[o] = Chunk(u, h + j)[o]
  <2>1. /\ j * BlobSize + o \in 1 .. Len(t)
        /\ Chunk(t, j)[o] = t[j * BlobSize + o]
    BY ChunkElements
  <2>2. Chunk(u, h + j)[o] = u[(h + j) * BlobSize + o]
    BY <1>1, <1>2, <1>5, ChunkElements
  <2>3. t[j * BlobSize + o] = u[h * BlobSize + (j * BlobSize + o)]
    BY <2>1
  <2>4. o \in Int
    BY <1>3, LenProperties
  <2>5. h * BlobSize + (j * BlobSize + o) = (h + j) * BlobSize + o
    BY <1>1, <2>4
  <2> QED
    BY <2>1, <2>2, <2>3, <2>5
<1> QED
  BY <1>3, <1>4, <1>5, <1>6, SeqEqual

\* AppendCursorData of T to what holds S leaves what holds both.
LEMMA AppendHolds ==
    ASSUME NEW S \in SUBSET Entry, S # {}, NEW T \in SUBSET Entry, T # {},
           NEW b, NEW r \in Record, Holds(b, r, S), CanAppend(b, r, Sorted(T))
    PROVE  LET t == WithLastBlob(b, r, Sorted(T))
           IN  Holds(Stored(b, r.nbBlob - 1, t, NbBlob(Len(t))),
                     AppendHeader(b, r, Sorted(T)), S \cup T)
<1> DEFINE p == Sorted(S)
           q == Sorted(T)
           u == p \o q
           m == r.nbBlob
           h == m - 1
           last == b[h]
           t == WithLastBlob(b, r, q)
           k == NbBlob(Len(t))
           a == Stored(b, h, t, k)
           H == AppendHeader(b, r, q)
<1>1. /\ p \in Seq(Entry) /\ Len(p) \in Nat \ {0}
      /\ q \in Seq(Entry) /\ Len(q) \in Nat \ {0}
  BY SortedFacts
<1>2. /\ r.lastDoc = p[Len(p)][1]
      /\ r.nbEnt = Len(p)
      /\ m = NbBlob(Len(p))
      /\ \A i \in 0 .. m - 1 : i \in DOMAIN b /\ b[i] = Chunk(p, i)
  <2>1. m # 0
    BY DEF CanAppend, Record
  <2> QED
    BY <2>1 DEF Holds
<1>3. Sorted(S \cup T) = u
  <2>1. Sorted(T)[1][1] > Sorted(S)[Len(Sorted(S))][1]
    BY <1>2 DEF CanAppend
  <2> QED
    BY <2>1, SortedAfter
<1>4. /\ m \in Nat \ {0}
      /\ Len(p) <= m * BlobSize
      /\ (m - 1) * BlobSize < Len(p)
  BY <1>1, <1>2, NbBlobBounds
<1>5. /\ h \in Nat
      /\ h * BlobSize \in Nat
      /\ m * BlobSize = h * BlobSize + BlobSize
      /\ Len(p) <= h * BlobSize + BlobSize
      /\ h * BlobSize < Len(p)
  <2>1. h \in Nat /\ m = h + 1
    BY <1>4
  <2> HIDE DEF h, m
  <2>2. (h + 1) * BlobSize = h * BlobSize + 1 * BlobSize /\ h * BlobSize \in Nat
    BY <2>1, TimesPlus
  <2> QED
    BY <1>4, <2>1, <2>2, BlobAssumption DEF h
<1> HIDE DEF p, q
<1>6. /\ last \in Seq(Entry)
      /\ Len(last) = Len(p) - h * BlobSize
      /\ \A o \in 1 .. Len(last) : last[o] = p[h * BlobSize + o]
  <2>1. last = Chunk(p, h)
    BY <1>2, <1>4
  <2> HIDE DEF h, last
  <2>2. h * BlobSize <= Len(p)
    BY <1>1, <1>5
  <2>3. /\ Chunk(p, h) \in Seq(Entry)
        /\ Len(Chunk(p, h)) = IF h * BlobSize + BlobSize < Len(p)
                              THEN BlobSize ELSE Len(p) - h * BlobSize
        /\ \A o \in 1 .. Len(Chunk(p, h)) : Chunk(p, h)[o] = p[h * BlobSize + o]
    BY <1>1, <1>5, <2>2, ChunkElements
  <2>4. Len(Chunk(p, h)) = Len(p) - h * BlobSize
    <3> DEFINE x == h * BlobSize
    <3>1. /\ x \in Nat /\ Len(p) \in Nat
          /\ Len(p) <= x + BlobSize
          /\ Len(Chunk(p, h)) = IF x + BlobSize < Len(p) THEN BlobSize ELSE Len(p) - x
      BY <1>1, <1>5, <2>3
    <3> HIDE DEF x
    <3>2. Len(Chunk(p, h)) = Len(p) - x
      BY <3>1, BlobAssumption
    <3> QED
      BY <3>2 DEF x
  <2> QED
    BY <2>1, <2>3, <2>4
<1>7. /\ u \in Seq(Entry)
      /\ Len(u) = Len(p) + Len(q)
      /\ \A i \in 1 .. Len(p) + Len(q) : u[i] = IF i <= Len(p) THEN p[i] ELSE q[i - Len(p)]
  BY <1>1, ConcatProperties
<1>8. /\ t \in Seq(Entry)
      /\ Len(t) = Len(last) + Len(q)
      /\ \A i \in 1 .. Len(last) + Len(q) :
                t[i] = IF i <= Len(last) THEN last[i] ELSE q[i - Len(last)]
  BY <1>1, <1>6, ConcatProperties DEF WithLastBlob
<1> HIDE DEF u, t, last, h, m
<1>9. /\ Len(t) \in Nat \ {0}
      /\ Len(u) \in Nat \ {0}
      /\ Len(u) = h * BlobSize + Len(t)
  BY <1>1, <1>5, <1>6, <1>7, <1>8
<1>10. ASSUME NEW i \in 1 .. Len(t)
       PROVE  t[i] = u[h * BlobSize + i]
  <2> DEFINE x == h * BlobSize
  <2>1. /\ x \in Nat /\ x < Len(p) /\ Len(last) = Len(p) - x
        /\ Len(p) \in Nat /\ Len(q) \in Nat /\ Len(t) = Len(last) + Len(q)
    BY <1>1, <1>5, <1>6, <1>8
  <2>2. \A o \in 1 .. Len(last) : last[o] = p[x + o]
    BY <1>6
  <2> HIDE DEF x
  <2>3. i \in 1 .. Len(last) + Len(q) /\ i \in Int /\ x + i \in 1 .. Len(p) + Len(q)
    BY <2>1
  <2>4. t[i] = u[x + i]
    <3>1. CASE i <= Len(last)
      <4>1. i \in 1 .. Len(last) /\ x + i <= Len(p)
        BY <2>1, <2>3, <3>1
      <4> QED
        BY <1>7, <1>8, <2>2, <2>3, <3>1, <4>1
    <3>2. CASE ~ i <= Len(last)
      <4>1. ~ x + i <= Len(p) /\ (x + i) - Len(p) = i - Len(last)
        BY <2>1, <2>3, <3>2
      <4> QED
        BY <1>7, <1>8, <2>3, <3>2, <4>1
    <3> QED
      BY <3>1, <3>2
  <2> QED
    BY <2>4 DEF x
<1>11. /\ k \in Nat \ {0}
       /\ Len(t) <= k * BlobSize
       /\ (k - 1) * BlobSize < Len(t)
  BY <1>9, NbBlobBounds
<1> HIDE DEF k
<1>12. /\ k - 1 \in Nat
       /\ (h + k) * BlobSize = h * BlobSize + k * BlobSize
       /\ (h + (k - 1)) * BlobSize = h * BlobSize + (k - 1) * BlobSize
       /\ h * BlobSize \in Nat /\ k * BlobSize \in Nat /\ (k - 1) * BlobSize \in Nat
  <2>1. k - 1 \in Nat
    BY <1>11
  <2> QED
    BY <1>5, <1>11, <2>1, TimesPlus
<1>13. NbBlob(Len(u)) = h + k
  <2>1. Len(u) <= (h + k) * BlobSize
    BY <1>9, <1>11, <1>12
  <2>2. (h + k) - 1 = h + (k - 1) /\ h + k \in Nat \ {0}
    BY <1>5, <1>11
  <2>3. ((h + k) - 1) * BlobSize < Len(u)
    BY <1>9, <1>11, <1>12, <2>2
  <2> QED
    BY <1>9, <2>1, <2>2, <2>3, NbBlobIsUnique
<1>14. ASSUME NEW i \in 0 .. (h + k) - 1
       PROVE  i \in DOMAIN a /\ a[i] = Chunk(u, i)
  <2>1. CASE i < h
    <3>1. i \in 0 .. m - 1 /\ i \notin h .. h + k - 1 /\ i \in Nat
      BY <1>4, <1>5, <2>1 DEF h
    <3>2. i \in DOMAIN a /\ a[i] = Chunk(p, i)
      BY <1>2, <3>1 DEF Stored
    <3>3. i * BlobSize + BlobSize <= Len(p)
      <4>1. /\ (i + 1) * BlobSize = i * BlobSize + BlobSize
            /\ (i + 1) * BlobSize <= h * BlobSize
            /\ i * BlobSize \in Nat
        BY <1>5, <2>1, <3>1, TimesMonotonic
      <4> QED
        BY <1>1, <1>5, <4>1, BlobAssumption
    <3>4. Len(p) <= Len(u) /\ \A j \in 1 .. Len(p) : u[j] = p[j]
      BY <1>1, <1>7
    <3>5. Chunk(u, i) = Chunk(p, i)
      BY <1>1, <1>7, <3>1, <3>3, <3>4, ChunkOfPrefix
    <3> QED
      BY <3>2, <3>5
  <2>2. CASE ~ i < h
    <3>1. i \in h .. h + k - 1 /\ i - h \in Nat /\ h + (i - h) = i /\ i - h <= k - 1
      BY <1>5, <1>11, <2>2
    <3>2. i \in DOMAIN a /\ a[i] = Chunk(t, i - h)
      BY <3>1 DEF Stored
    <3>3. (i - h) * BlobSize <= Len(t)
      <4> DEFINE j == i - h
                 l == k - 1
      <4>1. j \in Nat /\ l \in Nat /\ j <= l /\ l * BlobSize < Len(t) /\ l * BlobSize \in Nat
        BY <1>11, <1>12, <3>1
      <4> HIDE DEF j, l
      <4>2. j * BlobSize <= l * BlobSize /\ j * BlobSize \in Nat
        <5>1. CASE j = l
          BY <4>1, <5>1
        <5>2. CASE j < l
          BY <4>1, <5>2, TimesMonotonic, BlobAssumption
        <5> QED
          BY <4>1, <5>1, <5>2
      <4>3. j * BlobSize <= Len(t)
        BY <1>9, <4>1, <4>2
      <4> QED
        BY <4>3 DEF j
    <3>4. Chunk(t, i - h) = Chunk(u, h + (i - h))
      <4> DEFINE j == i - h
      <4>1. j \in Nat /\ j * BlobSize <= Len(t)
        BY <3>1, <3>3
      <4>2. \A l \in 1 .. Len(t) : t[l] = u[h * BlobSize + l]
        BY <1>10
      <4> HIDE DEF j, a, H
      <4>3. Chunk(t, j) = Chunk(u, h + j)
        BY <1>5, <1>7, <1>8, <1>9, <4>1, <4>2, ChunkOfSuffix
      <4> QED
        BY <4>3 DEF j
    <3> QED
      BY <3>1, <3>2, <3>4
  <2> QED
    BY <2>1, <2>2
<1>15. /\ H.nbBlob = h + k
       /\ H.lastDoc = u[Len(u)][1]
       /\ H.nbEnt = Len(u)
  <2>1. /\ H.nbBlob = r.nbBlob + k - 1
        /\ H.lastDoc = q[Len(q)][1]
        /\ H.nbEnt = r.nbEnt + Len(q)
    BY DEF AppendHeader, Record, k, t
  <2>2. r.nbBlob + k - 1 = h + k
    BY <1>4, <1>11 DEF h, m
  <2>3. u[Len(u)] = q[Len(q)]
    <3>1. /\ Len(u) \in 1 .. Len(p) + Len(q)
          /\ ~ Len(u) <= Len(p)
          /\ Len(u) - Len(p) = Len(q)
      BY <1>1, <1>7
    <3> QED
      BY <1>7, <3>1
  <2> QED
    BY <1>2, <1>7, <2>1, <2>2, <2>3
<1> HIDE DEF a, H
<1>16. Holds(a, H, S \cup T)
  <2> DEFINE U == S \cup T
  <2>1. Sorted(U) = u
    BY <1>3
  <2> HIDE DEF U
  <2>2. Holds(a, H, U)
    BY <1>13, <1>14, <1>15, <2>1 DEF Holds
  <2> QED
    BY <2>2 DEF U
<1> QED
  BY <1>16 DEF a, H, k, t, h, m, q

-----------------------------------------------------------------------------
(***************************************************************************)
(* The inductive invariant.  Contents says that every record of the btree, *)
(* with the blobs stored for its word, holds some nonempty entry set: that *)
(* is what reading needs to be exact, and what every operation needs of    *)
(* the entries it reads before it writes.                                  *)
(***************************************************************************)
OnlyRewriteFaults == Faults \subseteq {"rewrite"}

Contents ==
    \A c \in Key : ndx[c] # NoRecord =>
        \E S \in (SUBSET Entry) \ {{}} : Holds(blob[ndx[c].key], ndx[c], S)

\* The word w gets the entries R, the others keep what they have.
Becomes(w, R) ==
    /\ IF R = {} THEN ndx'[CollationKey[w]] = NoRecord
                 ELSE /\ ndx'[CollationKey[w]] # NoRecord
                      /\ Holds(blob'[w], ndx'[CollationKey[w]], R)
    /\ \A v \in Word \ {w} : /\ ndx'[CollationKey[v]] = ndx[CollationKey[v]]
                             /\ blob'[v] = blob[v]

\* The record at a word's key is the word's own.
LEMMA OwnRecord ==
    ASSUME DistinctKeys, StoreOK, NEW w \in Word, ndx[CollationKey[w]] # NoRecord
    PROVE  /\ CollationKey[w] \in Key
           /\ ndx[CollationKey[w]] \in Record
           /\ ndx[CollationKey[w]].key = w
BY DEF DistinctKeys, StoreOK, Key, Record

LEMMA KeyType ==
    ASSUME NEW w \in Word
    PROVE  CollationKey[w] \in Key /\ CollationKey[w] \in Nat \ {0}
BY KeyAssumption DEF Key

LEMMA FoundNothing ==
    ASSUME NEW w \in Word
    PROVE  /\ ndx[CollationKey[w]] = NoRecord => Found(w) = {}
           /\ ndx'[CollationKey[w]] = NoRecord => Found(w)' = {}
BY DEF Found

LEMMA FoundIsHeld ==
    ASSUME NEW w \in Word, NEW S \in SUBSET Entry, S # {}
    PROVE  /\ /\ ndx[CollationKey[w]] # NoRecord
              /\ Holds(blob[w], ndx[CollationKey[w]], S)
              => Found(w) = S
           /\ /\ ndx'[CollationKey[w]] # NoRecord
              /\ Holds(blob'[w], ndx'[CollationKey[w]], S)
              => Found(w)' = S
<1>1. ASSUME NEW r, r # NoRecord, NEW b, Holds(b, r, S)
      PROVE  (IF r = NoRecord \/ Missing(b, r) THEN {} ELSE Decoded(b, r)) = S
  BY <1>1, HoldsReads
<1> QED
  BY <1>1 DEF Found

\* A word that is there holds what is found of it, and something is.
LEMMA ContentsFound ==
    ASSUME DistinctKeys, StoreOK, Contents, NEW w \in Word
    PROVE  /\ Found(w) \in SUBSET Entry
           /\ ndx[CollationKey[w]] # NoRecord => Found(w) # {}
           /\ ndx[CollationKey[w]] # NoRecord =>
                    Holds(blob[w], ndx[CollationKey[w]], Found(w))
<1>1. CASE ndx[CollationKey[w]] = NoRecord
  BY <1>1, FoundNothing
<1>2. CASE ndx[CollationKey[w]] # NoRecord
  <2>1. PICK S \in (SUBSET Entry) \ {{}} : Holds(blob[w], ndx[CollationKey[w]], S)
    BY <1>2, OwnRecord DEF Contents
  <2>2. Found(w) = S
    BY <1>2, <2>1, FoundIsHeld
  <2> QED
    BY <2>1, <2>2
<1> QED
  BY <1>1, <1>2

\* What a step does to one word preserves Contents.
LEMMA BecomesNext ==
    ASSUME DistinctKeys, StoreOK, StoreOK', Contents,
           NEW w \in Word, NEW R \in SUBSET Entry, Becomes(w, R)
    PROVE  /\ Contents'
           /\ Found(w)' = R
           /\ \A v \in Word \ {w} : Found(v)' = Found(v)
<1>1. Found(w)' = R
  BY FoundNothing, FoundIsHeld DEF Becomes
<1>2. \A v \in Word \ {w} : Found(v)' = Found(v)
  BY DEF Becomes, Found
<1>3. Contents'
  <2> SUFFICES ASSUME NEW c \in Key, ndx'[c] # NoRecord
               PROVE  \E S \in (SUBSET Entry) \ {{}} : Holds(blob'[ndx'[c].key], ndx'[c], S)
    BY DEF Contents
  <2>1. PICK v \in Word : c = CollationKey[v]
    BY DEF Key
  <2>2. ndx'[c].key = v
    BY <2>1 DEF DistinctKeys, StoreOK, Record
  <2>3. CASE v = w
    <3>1. R # {} /\ Holds(blob'[w], ndx'[c], R)
      BY <2>1, <2>3 DEF Becomes
    <3> QED
      BY <2>2, <2>3, <3>1
  <2>4. CASE v # w
    <3>1. ndx'[c] = ndx[c] /\ blob'[v] = blob[v]
      BY <2>1, <2>4 DEF Becomes
    <3>2. ndx[c].key = v
      BY <2>2, <3>1
    <3> QED
      BY <2>2, <3>1, <3>2 DEF Contents
  <2> QED
    BY <2>3, <2>4
<1> QED
  BY <1>1, <1>2, <1>3

\* A put or a del that is not to fail succeeds, and touches one word.
LEMMA PutRecordExact ==
    ASSUME DistinctKeys, OnlyRewriteFaults, StoreOK, NEW w \in Word,
           NEW rec, NEW ok, PutRecord(CollationKey[w], rec, ok)
    PROVE  /\ ok
           /\ ndx'[CollationKey[w]] = rec
           /\ \A v \in Word \ {w} : ndx'[CollationKey[v]] = ndx[CollationKey[v]]
<1>1. ok /\ ndx' = [ndx EXCEPT ![CollationKey[w]] = rec]
  BY DEF PutRecord, OnlyRewriteFaults
<1>2. \A v \in Word : CollationKey[v] \in Key
  BY KeyType
<1>3. \A v \in Word \ {w} : CollationKey[v] # CollationKey[w]
  BY DEF DistinctKeys
<1> QED
  BY <1>1, <1>2, <1>3 DEF StoreOK

LEMMA SaveWordExact ==
    ASSUME DistinctKeys, OnlyRewriteFaults, StoreOK, NEW w \in Word,
           NEW b, IsBlobs(b), NEW k, NEW S \in SUBSET Entry, S # {}, NEW ok,
           SaveWord(CollationKey[w], w, b, k, S, ok)
    PROVE  ok /\ Becomes(w, S)
<1> DEFINE c == CollationKey[w]
           key == IF ndx[c] = NoRecord THEN w ELSE ndx[c].key
<1>1. key = w
  BY OwnRecord
<1> HIDE DEF key
<1>2. PICK o \in Saves(w, b, k, S) :
            /\ blob' = [blob EXCEPT ![w] = o.blobs]
            /\ PutRecord(c, o.rec, ok)
  BY <1>1 DEF SaveWord, key
<1>3. IsBlobs(o.blobs) /\ o.rec \in Record /\ o.rec # NoRecord
  BY <1>2, SavesType, NoRecordAssumption
<1>4. Holds(o.blobs, o.rec, S)
  BY <1>2, SavesHold
<1>5. \A v \in Word : blob'[v] = IF v = w THEN o.blobs ELSE blob[v]
  BY <1>2, <1>3, PutBlobType
<1>6. /\ ok
      /\ ndx'[c] = o.rec
      /\ \A v \in Word \ {w} : ndx'[CollationKey[v]] = ndx[CollationKey[v]]
  BY <1>2, PutRecordExact
<1> QED
  BY <1>3, <1>4, <1>5, <1>6 DEF Becomes

\* An operation that reads a word reads what is found of it.
LEMMA ReadExact ==
    ASSUME DistinctKeys, StoreOK, Contents, NEW w \in Word,
           ndx[CollationKey[w]] # NoRecord, NEW old,
           NEW x \in Read(blob[w], ndx[CollationKey[w]], old)
    PROVE  x = Found(w)
<1> DEFINE r == ndx[CollationKey[w]]
           b == blob[w]
           F == Found(w)
<1>1. F \in SUBSET Entry /\ F # {} /\ Holds(b, r, F)
  BY ContentsFound
<1> HIDE DEF r, b, F
<1>2. Read(b, r, old) = {F}
  BY <1>1, HoldsReads
<1> QED
  BY <1>2 DEF r, b, F

-----------------------------------------------------------------------------
(***************************************************************************)
(* What each operation makes of the entries of its word.                   *)
(***************************************************************************)
LEMMA AddExact ==
    ASSUME DistinctKeys, OnlyRewriteFaults, StoreOK, Contents,
           NEW w \in Word, NEW S \in SUBSET Entry, S # {}, NEW ok \in BOOLEAN,
           AddWordEntries(w, S, ok)
    PROVE  ok /\ Becomes(w, Found(w) \cup S)
<1> DEFINE c == CollationKey[w]
           r == ndx[c]
           F == Found(w)
<1>1. /\ IsBlobs(blob[w])
      /\ F \in SUBSET Entry
      /\ r # NoRecord => r \in Record /\ F # {} /\ Holds(blob[w], r, F)
  BY OwnRecord, ContentsFound DEF StoreOK
<1>2. F \cup S \in SUBSET Entry /\ F \cup S # {}
  BY <1>1
<1>3. CASE AddNewWord(w, S, ok)
  <2>1. F \cup S = S
    BY <1>3, FoundNothing DEF AddNewWord
  <2>2. SaveWord(CollationKey[w], w, blob[w], 0, S, ok)
    BY <1>3 DEF AddNewWord
  <2> QED
    BY <1>1, <2>1, <2>2, SaveWordExact
<1>4. CASE AppendToWord(w, S, ok)
  <2> DEFINE q == Sorted(S)
             t == WithLastBlob(blob[w], r, q)
             n == NbBlob(Len(t))
             h == AppendHeader(blob[w], r, q)
             b == Stored(blob[w], r.nbBlob - 1, t, n)
  <2>1. /\ r # NoRecord
        /\ CanAppend(blob[w], r, q)
        /\ blob' = [blob EXCEPT ![w] = b]
        /\ PutRecord(c, h, ok)
    BY <1>4 DEF AppendToWord, StoreOK
  <2>2. n \in Nat
    BY <1>1, <2>1, AppendType
  <2>3. IsBlobs(b) /\ h \in Record
    BY <1>1, <2>1, <2>2, AppendType
  <2>4. Holds(b, h, F \cup S)
    BY <1>1, <2>1, AppendHolds
  <2> HIDE DEF b, h, n
  <2>5. \A v \in Word : blob'[v] = IF v = w THEN b ELSE blob[v]
    BY <2>1, <2>3, PutBlobType
  <2>6. /\ ok
        /\ ndx'[c] = h
        /\ \A v \in Word \ {w} : ndx'[CollationKey[v]] = ndx[CollationKey[v]]
    BY <2>1, PutRecordExact
  <2>7. h # NoRecord
    BY <2>3, NoRecordAssumption
  <2> HIDE DEF F
  <2> QED
    BY <1>2, <2>4, <2>5, <2>6, <2>7 DEF Becomes, F
<1>5. CASE AppendFails(w, S, ok)
  BY <1>5 DEF AppendFails, OnlyRewriteFaults
<1>6. CASE MergeIntoWord(w, S, ok)
  <2>1. PICK x \in Read(blob[w], r, {}) :
                SaveWord(CollationKey[w], w, blob[w], r.nbBlob, x \cup S, ok)
    BY <1>6 DEF MergeIntoWord
  <2>2. r # NoRecord
    BY <1>6 DEF MergeIntoWord
  <2>3. x = F
    BY <2>1, <2>2, ReadExact
  <2> QED
    BY <1>1, <1>2, <2>1, <2>3, SaveWordExact
<1> QED
  BY <1>3, <1>4, <1>5, <1>6 DEF AddWordEntries

LEMMA DelWordExact ==
    ASSUME DistinctKeys, OnlyRewriteFaults, StoreOK,
           NEW w \in Word, NEW ok, DelWordEntries(w, ok)
    PROVE  ok /\ Becomes(w, {})
<1>1. PutRecord(CollationKey[w], NoRecord, ok) /\ UNCHANGED blob
  BY DEF DelWordEntries, DelRecord
<1> QED
  BY <1>1, PutRecordExact DEF Becomes

LEMMA RemoveDocExact ==
    ASSUME DistinctKeys, OnlyRewriteFaults, StoreOK, Contents,
           NEW w \in Word, ndx[CollationKey[w]] # NoRecord, NEW d, NEW ok,
           RemoveDoc(CollationKey[w], w, Found(w), d, ok)
    PROVE  ok /\ Becomes(w, Without(Found(w), d))
<1> DEFINE c == CollationKey[w]
           F == Found(w)
           R == Without(F, d)
<1>1. /\ F \in SUBSET Entry
      /\ F # {}
      /\ Holds(blob[w], ndx[c], F)
      /\ IsBlobs(blob[w])
  BY ContentsFound DEF StoreOK
<1>2. R \in SUBSET Entry
  BY <1>1 DEF Without
<1>3. CASE R = {} /\ DelRecord(c, ok) /\ UNCHANGED blob
  BY <1>3, PutRecordExact DEF DelRecord, Becomes
<1>4. CASE R = F /\ ok /\ UNCHANGED <<ndx, blob>>
  BY <1>1, <1>4 DEF Becomes
<1>5. CASE R # {} /\ SaveWord(c, w, blob[w], ndx[c].nbBlob, R, ok)
  <2> HIDE DEF R, F
  <2> QED
    BY <1>1, <1>2, <1>5, SaveWordExact DEF R, F
<1> QED
  BY <1>3, <1>4, <1>5 DEF RemoveDoc

LEMMA DelWordDocExact ==
    ASSUME DistinctKeys, OnlyRewriteFaults, StoreOK, Contents,
           NEW w \in Word, NEW d, NEW ok, DelWordDocEntries(w, d, ok)
    PROVE  ok /\ Becomes(w, Without(Found(w), d))
<1> DEFINE r == ndx[CollationKey[w]]
<1>1. r # NoRecord
  BY DEF DelWordDocEntries
<1>2. PICK x \in Read(blob[w], r, {}) : RemoveDoc(CollationKey[w], w, x, d, ok)
  BY DEF DelWordDocEntries
<1>3. x = Found(w)
  BY <1>1, <1>2, ReadExact
<1> QED
  BY <1>1, <1>2, <1>3, RemoveDocExact

\* A step of the walk takes the document from the first word ahead.
LEMMA VisitExact ==
    ASSUME DistinctKeys, OnlyRewriteFaults, StoreOK, WalkOK, Contents,
           NEW ok \in BOOLEAN, VisitRecord(ok)
    PROVE  \E w \in Word :
                /\ ok
                /\ CollationKey[w] \in Ahead
                /\ \A c \in Ahead : CollationKey[w] <= c
                /\ Becomes(w, Without(Found(w), walk.doc))
                /\ walk'.at = CollationKey[w]
                /\ walk'.doc = walk.doc
<1>1. PICK c \in Ahead :
            /\ \A k \in Ahead : c <= k
            /\ \E x \in Read(blob[ndx[c].key], ndx[c], walk.left) :
                    /\ RemoveDoc(c, ndx[c].key, x, walk.doc, ok)
                    /\ walk' = IF ok \/ Without(x, walk.doc) = {}
                               THEN [walk EXCEPT !.at = c, !.left = Without(x, walk.doc)]
                               ELSE NoWalk
  BY DEF VisitRecord
<1>2. PICK x \in Read(blob[ndx[c].key], ndx[c], walk.left) :
            /\ RemoveDoc(c, ndx[c].key, x, walk.doc, ok)
            /\ walk' = IF ok \/ Without(x, walk.doc) = {}
                       THEN [walk EXCEPT !.at = c, !.left = Without(x, walk.doc)]
                       ELSE NoWalk
  BY <1>1
<1>3. c \in Key /\ ndx[c] # NoRecord
  BY DEF Ahead
<1>4. PICK w \in Word : c = CollationKey[w]
  BY <1>3 DEF Key
<1>5. ndx[c].key = w
  BY <1>3, <1>4, OwnRecord
<1>6. x \in Read(blob[w], ndx[CollationKey[w]], walk.left)
  BY <1>2, <1>4, <1>5
<1>7. RemoveDoc(CollationKey[w], w, x, walk.doc, ok)
  BY <1>2, <1>4, <1>5
<1>8. x = Found(w)
  BY <1>3, <1>4, <1>6, ReadExact
<1>9. ok /\ Becomes(w, Without(Found(w), walk.doc))
  BY <1>3, <1>4, <1>7, <1>8, RemoveDocExact
<1>10. walk'.at = c /\ walk'.doc = walk.doc
  <2>1. walk' = [walk EXCEPT !.at = c, !.left = Without(x, walk.doc)]
    BY <1>2, <1>9
  <2> QED
    BY <2>1 DEF WalkOK
<1> QED
  BY <1>1, <1>4, <1>9, <1>10

-----------------------------------------------------------------------------
(***************************************************************************)
(* The steps preserve the invariant.                                       *)
(***************************************************************************)
IInv == TypeOK /\ Contents /\ WalkLeavesNoEntry

\* A walk that has not begun has passed no word.
LEMMA NothingPassed ==
    /\ walk.at = 0 => WalkLeavesNoEntry
    /\ walk'.at = 0 => WalkLeavesNoEntry'
BY KeyType DEF WalkLeavesNoEntry

LEMMA VisitKeepsWalk ==
    ASSUME DistinctKeys, OnlyRewriteFaults, StoreOK, StoreOK', WalkOK, Contents,
           WalkLeavesNoEntry, NEW ok \in BOOLEAN, VisitRecord(ok)
    PROVE  Contents' /\ WalkLeavesNoEntry'
<1>1. PICK w \in Word :
            /\ CollationKey[w] \in Ahead
            /\ \A c \in Ahead : CollationKey[w] <= c
            /\ Becomes(w, Without(Found(w), walk.doc))
            /\ walk'.at = CollationKey[w]
            /\ walk'.doc = walk.doc
  BY VisitExact
<1>2. Without(Found(w), walk.doc) \in SUBSET Entry
  BY ContentsFound DEF Without
<1>3. /\ Contents'
      /\ Found(w)' = Without(Found(w), walk.doc)
      /\ \A v \in Word \ {w} : Found(v)' = Found(v)
  BY <1>1, <1>2, BecomesNext
<1>4. WalkLeavesNoEntry'
  <2> SUFFICES ASSUME NEW v \in Word, NEW e \in Found(v)',
                      CollationKey[v] <= CollationKey[w]
               PROVE  e[1] # walk.doc
    BY <1>1 DEF WalkLeavesNoEntry
  <2>1. CASE v = w
    BY <1>3, <2>1 DEF Without
  <2>2. CASE v # w
    <3>1. e \in Found(v)
      BY <1>3, <2>2
    <3>2. ndx[CollationKey[v]] # NoRecord
      BY <3>1, FoundNothing
    <3>3. /\ CollationKey[v] \in Key /\ CollationKey[v] \in Nat
          /\ CollationKey[w] \in Nat
          /\ CollationKey[v] # CollationKey[w]
      BY <2>2, KeyType DEF DistinctKeys
    <3>4. CollationKey[v] \notin Ahead
      BY <1>1, <3>3
    <3>5. ~ CollationKey[v] > walk.at
      BY <3>2, <3>3, <3>4 DEF Ahead
    <3>6. walk.at \in Nat
      BY KeyAssumption DEF WalkOK, Key
    <3>7. CollationKey[v] <= walk.at
      BY <3>3, <3>5, <3>6
    <3> QED
      BY <3>1, <3>7 DEF WalkLeavesNoEntry
  <2> QED
    BY <2>1, <2>2
<1> QED
  BY <1>3, <1>4

\* A step outside the walk.
LEMMA IdleStepKeeps ==
    ASSUME DistinctKeys, StoreOK, StoreOK', Contents, Idle, UNCHANGED walk,
           NEW w \in Word, NEW R \in SUBSET Entry, Becomes(w, R)
    PROVE  Contents' /\ WalkLeavesNoEntry'
BY BecomesNext, NothingPassed DEF Idle, NoWalk

LEMMA StepKeepsIInv ==
    ASSUME DistinctKeys, OnlyRewriteFaults, IInv, TypeOK', [Next]_vars
    PROVE  IInv'
<1> SUFFICES Contents' /\ WalkLeavesNoEntry'
  BY DEF IInv
<1>1. StoreOK /\ WalkOK /\ StoreOK' /\ WalkOK' /\ Contents /\ WalkLeavesNoEntry
  BY TypeOKParts DEF IInv
<1>2. ASSUME NEW ok \in BOOLEAN, NEW w \in Word, NEW S \in Batch[w], AddWordEntries(w, S, ok)
      PROVE  Contents' /\ WalkLeavesNoEntry'
  <2>1. S \in SUBSET Entry /\ S # {}
    BY BatchIsEntries
  <2>2. Becomes(w, Found(w) \cup S)
    BY <1>1, <1>2, <2>1, AddExact
  <2>3. Found(w) \cup S \in SUBSET Entry
    BY <1>1, <2>1, ContentsFound
  <2> QED
    BY <1>1, <1>2, <2>2, <2>3, IdleStepKeeps DEF AddWordEntries
<1>3. ASSUME NEW ok \in BOOLEAN, NEW w \in Word, DelWordEntries(w, ok)
      PROVE  Contents' /\ WalkLeavesNoEntry'
  BY <1>1, <1>3, DelWordExact, IdleStepKeeps DEF DelWordEntries
<1>4. ASSUME NEW ok \in BOOLEAN, NEW w \in Word, NEW d \in Doc, DelWordDocEntries(w, d, ok)
      PROVE  Contents' /\ WalkLeavesNoEntry'
  <2>1. Becomes(w, Without(Found(w), d))
    BY <1>1, <1>4, DelWordDocExact
  <2>2. Without(Found(w), d) \in SUBSET Entry
    BY <1>1, ContentsFound DEF Without
  <2> QED
    BY <1>1, <1>4, <2>1, <2>2, IdleStepKeeps DEF DelWordDocEntries
<1>5. ASSUME NEW d \in Doc, DelDocEntries(d)
      PROVE  Contents' /\ WalkLeavesNoEntry'
  BY <1>1, <1>5, NothingPassed DEF DelDocEntries, Contents
<1>6. ASSUME NEW ok \in BOOLEAN, VisitRecord(ok)
      PROVE  Contents' /\ WalkLeavesNoEntry'
  BY <1>1, <1>6, VisitKeepsWalk
<1>7. CASE EndWalk
  BY <1>1, <1>7, NothingPassed DEF EndWalk, NoWalk, Contents
<1>8. CASE RemoveDbNdx
  BY <1>1, <1>8, NothingPassed DEF RemoveDbNdx, Idle, NoWalk, Contents
<1>9. CASE UNCHANGED vars
  BY <1>1, <1>9 DEF vars, Contents, WalkLeavesNoEntry, Found
<1> QED
  BY <1>2, <1>3, <1>4, <1>5, <1>6, <1>7, <1>8, <1>9 DEF Next

\* The invariant, from which the theorems follow.
THEOREM ContentsAreKept ==
    ASSUME DistinctKeys, OnlyRewriteFaults
    PROVE  Spec => []IInv
<1>1. Init => Contents /\ WalkLeavesNoEntry
  BY NothingPassed DEF Init, Contents, NoWalk
<1>2. TypeOK /\ TypeOK' /\ Contents /\ WalkLeavesNoEntry /\ [Next]_vars
      => Contents' /\ WalkLeavesNoEntry'
  BY StepKeepsIInv DEF IInv
<1>3. IInv <=> TypeOK /\ Contents /\ WalkLeavesNoEntry
  BY DEF IInv
<1> QED
  BY <1>1, <1>2, <1>3, TypeCorrect, PTL DEF Spec

-----------------------------------------------------------------------------
\* The number of entries a header counts is the number a search finds, no
\* buffer is read past its end, and no entry is in a document after lastDoc:
\* what GetWordIntList shows and AppendCursorData relies on.
THEOREM HeadersAreExact ==
    ASSUME DistinctKeys, OnlyRewriteFaults
    PROVE  Spec => []HeaderIsExact
<1>1. IInv => HeaderIsExact
  <2> SUFFICES ASSUME IInv, NEW w \in Word, ndx[CollationKey[w]] # NoRecord
               PROVE  LET r == ndx[CollationKey[w]]
                      IN  /\ Found(w) # {}
                          /\ r.nbEnt = Cardinality(Found(w))
                          /\ r.nbEnt <= Cardinality(Cell(Buffer(blob[w], r)))
                          /\ \A e \in Found(w) : e[1] <= r.lastDoc
    BY DEF HeaderIsExact
  <2> DEFINE F == Found(w)
             r == ndx[CollationKey[w]]
  <2>1. F \in SUBSET Entry /\ F # {} /\ Holds(blob[w], r, F)
    BY TypeOKParts, ContentsFound DEF IInv
  <2> HIDE DEF F, r
  <2>2. /\ r.nbEnt = Cardinality(F)
        /\ r.nbEnt = Cardinality(Cell(Buffer(blob[w], r)))
    BY <2>1, HoldsReads
  <2>3. r.nbEnt \in Nat /\ r.lastDoc = Sorted(F)[Len(Sorted(F))][1]
    BY <2>1, SortedFacts DEF Holds
  <2>4. \A e \in F : e[1] <= r.lastDoc
    BY <2>1, <2>3, LastIsHighest
  <2>5. r.nbEnt <= Cardinality(Cell(Buffer(blob[w], r)))
    BY <2>2, <2>3
  <2> QED
    BY <2>1, <2>2, <2>4, <2>5 DEF F, r
<1> QED
  BY <1>1, ContentsAreKept, PTL

\* While DelDocEntries walks, no word it has passed has an entry of the
\* document any more.
THEOREM WalksLeaveNoEntry ==
    ASSUME DistinctKeys, OnlyRewriteFaults
    PROVE  Spec => []WalkLeavesNoEntry
<1>1. IInv => WalkLeavesNoEntry
  BY DEF IInv
<1> QED
  BY <1>1, ContentsAreKept, PTL

-----------------------------------------------------------------------------
(***************************************************************************)
(* The refinement.                                                         *)
(***************************************************************************)
Mapped == [w \in Word |-> Found(w)]

LEMMA MappedNext ==
    ASSUME DistinctKeys, StoreOK, StoreOK', Contents,
           NEW w \in Word, NEW R \in SUBSET Entry, Becomes(w, R)
    PROVE  Mapped' = [Mapped EXCEPT ![w] = R]
<1>1. Found(w)' = R /\ \A v \in Word \ {w} : Found(v)' = Found(v)
  BY BecomesNext
<1>2. Mapped' = [v \in Word |-> Found(v)']
  BY DEF Mapped
<1>3. \A v \in Word : [Mapped EXCEPT ![w] = R][v] = IF v = w THEN R ELSE Found(v)
  BY DEF Mapped
<1>4. [Mapped EXCEPT ![w] = R] = [v \in Word |-> IF v = w THEN R ELSE Found(v)]
  BY DEF Mapped
<1>5. \A v \in Word : Found(v)' = IF v = w THEN R ELSE Found(v)
  BY <1>1
<1> QED
  BY <1>2, <1>4, <1>5

LEMMA AddMapped ==
    ASSUME DistinctKeys, OnlyRewriteFaults, IInv, TypeOK',
           NEW ok \in BOOLEAN, NEW w \in Word, NEW S \in Batch[w], AddWordEntries(w, S, ok)
    PROVE  Index!Add(w, S)
<1>1. S \in SUBSET Entry /\ S # {}
  BY BatchIsEntries
<1>2. StoreOK /\ StoreOK' /\ Contents
  BY TypeOKParts DEF IInv
<1>3. Becomes(w, Found(w) \cup S)
  BY <1>1, <1>2, AddExact
<1>4. Found(w) \cup S \in SUBSET Entry
  BY <1>1, <1>2, ContentsFound
<1>5. Mapped' = [Mapped EXCEPT ![w] = Found(w) \cup S]
  BY <1>2, <1>3, <1>4, MappedNext
<1>6. Mapped[w] = Found(w)
  BY DEF Mapped
<1> QED
  BY <1>5, <1>6 DEF Index!Add, Mapped

LEMMA DelWordMapped ==
    ASSUME DistinctKeys, OnlyRewriteFaults, IInv, TypeOK',
           NEW ok, NEW w \in Word, DelWordEntries(w, ok)
    PROVE  Index!DelWord(w)
<1>1. StoreOK /\ StoreOK' /\ Contents
  BY TypeOKParts DEF IInv
<1>2. Mapped' = [Mapped EXCEPT ![w] = {}]
  BY <1>1, DelWordExact, MappedNext
<1> QED
  BY <1>2 DEF Index!DelWord, Mapped

\* A word that loses the entries of a document.
LEMMA WithoutMapped ==
    ASSUME DistinctKeys, IInv, TypeOK', NEW w \in Word, NEW d,
           Becomes(w, Without(Found(w), d))
    PROVE  Index!DelWordDoc(w, d)
<1>1. StoreOK /\ StoreOK' /\ Contents
  BY TypeOKParts DEF IInv
<1>2. Without(Found(w), d) \in SUBSET Entry
  BY <1>1, ContentsFound DEF Without
<1>3. Mapped' = [Mapped EXCEPT ![w] = Without(Found(w), d)]
  BY <1>1, <1>2, MappedNext
<1>4. Mapped[w] = Found(w)
  BY DEF Mapped
<1>5. Mapped' = [Mapped EXCEPT ![w] = {e \in Mapped[w] : e[1] # d}]
  BY <1>3, <1>4 DEF Without
<1> QED
  BY <1>5 DEF Index!DelWordDoc, Mapped

LEMMA DelWordDocMapped ==
    ASSUME DistinctKeys, OnlyRewriteFaults, IInv, TypeOK',
           NEW ok, NEW w \in Word, NEW d \in Doc, DelWordDocEntries(w, d, ok)
    PROVE  Index!DelWordDoc(w, d)
BY TypeOKParts, DelWordDocExact, WithoutMapped DEF IInv

LEMMA VisitMapped ==
    ASSUME DistinctKeys, OnlyRewriteFaults, IInv, TypeOK',
           NEW ok \in BOOLEAN, VisitRecord(ok)
    PROVE  \E w \in Word : Index!DelWordDoc(w, walk.doc)
BY TypeOKParts, VisitExact, WithoutMapped DEF IInv

\* Every step of the container is a step of WordIndex or leaves the entries
\* of every word alone.
LEMMA StepIsMapped ==
    ASSUME DistinctKeys, OnlyRewriteFaults, IInv, TypeOK', [Next]_vars
    PROVE  [Index!Next]_Mapped
<1>1. ASSUME NEW ok \in BOOLEAN, NEW w \in Word, NEW S \in Batch[w], AddWordEntries(w, S, ok)
      PROVE  Index!Next
  <2>1. S \in (SUBSET Index!Entry) \ {{}}
    BY BatchIsEntries DEF Entry, Index!Entry
  <2>2. Index!Add(w, S)
    BY <1>1, AddMapped
  <2> QED
    BY <2>1, <2>2 DEF Index!Next
<1>2. ASSUME NEW ok \in BOOLEAN, NEW w \in Word, DelWordEntries(w, ok)
      PROVE  Index!Next
  BY <1>2, DelWordMapped DEF Index!Next
<1>3. ASSUME NEW ok \in BOOLEAN, NEW w \in Word, NEW d \in Doc, DelWordDocEntries(w, d, ok)
      PROVE  Index!Next
  BY <1>3, DelWordDocMapped DEF Index!Next
<1>4. ASSUME NEW ok \in BOOLEAN, VisitRecord(ok)
      PROVE  Index!Next \/ UNCHANGED Mapped
  <2>1. PICK w \in Word : Becomes(w, Without(Found(w), walk.doc))
    BY <1>4, TypeOKParts, VisitExact DEF IInv
  <2>2. CASE walk.doc \in Doc
    BY <2>1, <2>2, WithoutMapped DEF Index!Next
  <2>3. CASE walk.doc = 0
    <3>1. StoreOK /\ StoreOK' /\ Contents /\ Found(w) \in SUBSET Entry
      BY TypeOKParts, ContentsFound DEF IInv
    <3>2. Without(Found(w), walk.doc) = Found(w)
      BY <2>3, <3>1, EntryAssumption DEF Without, Entry
    <3>3. Mapped' = [Mapped EXCEPT ![w] = Found(w)]
      BY <2>1, <3>1, <3>2, MappedNext
    <3> QED
      BY <3>3 DEF Mapped
  <2>4. walk.doc \in Doc \cup {0}
    BY TypeOKParts DEF IInv, WalkOK
  <2> QED
    BY <2>2, <2>3, <2>4
<1>5. CASE RemoveDbNdx
  <2>1. \A w \in Word : Found(w)' = {}
    BY <1>5, FoundNothing, KeyType DEF RemoveDbNdx
  <2>2. Index!Drop
    BY <2>1 DEF Index!Drop
  <2> QED
    BY <2>2 DEF Index!Next
<1>6. CASE UNCHANGED <<ndx, blob>>
  BY <1>6 DEF Mapped, Found
<1>7. CASE \E d \in Doc : DelDocEntries(d)
  BY <1>6, <1>7 DEF DelDocEntries
<1>8. CASE EndWalk
  BY <1>6, <1>8 DEF EndWalk
<1>9. CASE UNCHANGED vars
  BY <1>6, <1>9 DEF vars
<1> QED
  BY <1>1, <1>2, <1>3, <1>4, <1>5, <1>7, <1>8, <1>9 DEF Next

\* The container implements the index it promises: however the entries are
\* cut in blobs, each step adds to a word, deletes a word, takes a document
\* from a word, drops the index, or changes nothing a search finds.
THEOREM ContainerIsWordIndex ==
    ASSUME DistinctKeys, OnlyRewriteFaults
    PROVE  Spec => ImplementsWordIndex
<1>1. Init => Index!Init
  <2> SUFFICES ASSUME Init PROVE Index!Init
    OBVIOUS
  <2>1. \A w \in Word : Found(w) = {}
    BY FoundNothing, KeyType DEF Init
  <2> QED
    BY <2>1 DEF Index!Init
<1>2. IInv /\ TypeOK' /\ [Next]_vars => [Index!Next]_Mapped
  BY StepIsMapped
<1>3. [Index!Next]_Mapped => [Index!Next]_[w \in Word |-> Found(w)]
  BY DEF Mapped
<1>4. IInv => TypeOK
  BY DEF IInv
<1> QED
  BY <1>1, <1>2, <1>3, <1>4, ContentsAreKept, PTL DEF Spec, ImplementsWordIndex, Index!Spec

\* Each operation that succeeds does to its word and entries what its
\* counterpart of WordIndex does.
THEOREM OperationsDoAsTheySay ==
    ASSUME DistinctKeys, OnlyRewriteFaults
    PROVE  Spec => OperationsAreExact
<1> DEFINE Exactly ==
        /\ \A w \in Word : \A S \in Batch[w] : AddWordEntries(w, S, TRUE) => Index!Add(w, S)
        /\ \A w \in Word : DelWordEntries(w, TRUE) => Index!DelWord(w)
        /\ \A w \in Word, d \in Doc : DelWordDocEntries(w, d, TRUE) => Index!DelWordDoc(w, d)
        /\ VisitRecord(TRUE) => \E w \in Word : Index!DelWordDoc(w, walk.doc)
<1>1. IInv /\ TypeOK' => Exactly
  BY AddMapped, DelWordMapped, DelWordDocMapped, VisitMapped
<1>2. IInv => TypeOK
  BY DEF IInv
<1>3. IInv /\ TypeOK' /\ [Next]_vars => [Exactly]_vars
  BY <1>1
<1> HIDE DEF Exactly
<1>4. Spec => [][Exactly]_vars
  BY <1>2, <1>3, ContentsAreKept, PTL DEF Spec
<1> QED
  BY <1>4 DEF OperationsAreExact, Exactly

\* No word loses an entry when entries are added and AddWordEntries returns
\* true: the comments of AddWordEntries hold where no two spellings share a
\* collation key.
THEOREM AddsKeepEntries ==
    ASSUME DistinctKeys, OnlyRewriteFaults
    PROVE  Spec => AddKeepsEntries
<1> DEFINE Keeps ==
        \A w \in Word : \A S \in Batch[w] :
            AddWordEntries(w, S, TRUE) =>
                /\ S \subseteq Found(w)'
                /\ \A v \in Word : Found(v) \subseteq Found(v)'
<1>1. IInv /\ TypeOK' => Keeps
  <2> SUFFICES ASSUME IInv, TypeOK', NEW w \in Word, NEW S \in Batch[w],
                      AddWordEntries(w, S, TRUE)
               PROVE  /\ S \subseteq Found(w)'
                      /\ \A v \in Word : Found(v) \subseteq Found(v)'
    OBVIOUS
  <2>1. StoreOK /\ StoreOK' /\ Contents /\ S \in SUBSET Entry /\ S # {}
    BY TypeOKParts, BatchIsEntries DEF IInv
  <2>2. Becomes(w, Found(w) \cup S) /\ Found(w) \cup S \in SUBSET Entry
    BY <2>1, AddExact, ContentsFound
  <2>3. Found(w)' = Found(w) \cup S /\ \A v \in Word \ {w} : Found(v)' = Found(v)
    BY <2>1, <2>2, BecomesNext
  <2> QED
    BY <2>3
<1>2. IInv => TypeOK
  BY DEF IInv
<1>3. IInv /\ TypeOK' /\ [Next]_vars => [Keeps]_vars
  BY <1>1
<1> HIDE DEF Keeps
<1>4. Spec => [][Keeps]_vars
  BY <1>2, <1>3, ContentsAreKept, PTL DEF Spec
<1> QED
  BY <1>4 DEF AddKeepsEntries, Keeps
=============================================================================
