------------------------------- MODULE DbNdx -------------------------------
(***************************************************************************)
(* An index container (class DbNdx) and its companion blob container       *)
(* (class DbBlob).  A btree maps every word to a header: how many blobs    *)
(* hold its entries, the last document among them and how many entries     *)
(* there are.  The entries themselves, sorted, are cut in blobs of         *)
(* BlobSize entries stored under the keys "word 0", "word 1", ... of the   *)
(* blob container.  There are no transactions: the puts of one operation   *)
(* succeed or fail one by one, and nothing is undone.                      *)
(***************************************************************************)
EXTENDS Integers, Sequences, FiniteSets

CONSTANTS
    Word,           \* the spellings callers use
    CollationKey,   \* CollationKey[w]: the btree's collation key of w
    Doc,            \* document numbers
    Pos,            \* places of a word in a document (page and position)
    Batch,          \* Batch[w]: the entries a caller may add to w at once
    BlobSize,       \* entries in a full blob (the page size of the container)
    HasBlob,        \* is a blob container attached (not for "metadata_")
    Faults,         \* the puts that may fail, among "append", "rewrite", "header"
    NoRecord        \* the word is not in the btree

Key == {CollationKey[w] : w \in Word}
Entry == Doc \X Pos

\* A btree record: the spelling stored as its key and its data, the header
\* and, for a word without blobs, the entries.
Record == [key : Word, nbBlob : Nat, lastDoc : Nat, nbEnt : Nat, inline : Seq(Entry)]

ASSUME KeyAssumption == /\ CollationKey \in [Word -> Nat \ {0}]
                        /\ IsFiniteSet(Word)
ASSUME EntryAssumption == /\ Doc \subseteq Nat \ {0}
                          /\ Pos \subseteq Nat
                          /\ IsFiniteSet(Doc)
                          /\ IsFiniteSet(Pos)
ASSUME BatchAssumption == Batch \in [Word -> SUBSET ((SUBSET Entry) \ {{}})]
ASSUME BlobAssumption == /\ BlobSize \in Nat \ {0}
                         /\ HasBlob \in BOOLEAN
                         /\ Faults \subseteq {"append", "rewrite", "header"}
ASSUME NoRecordAssumption == NoRecord \notin Record

VARIABLES
    ndx,    \* the btree: the record of every collation key
    blob,   \* blob[w][i]: the entries stored under the key "w i"
    walk    \* the cursor of a DelDocEntries under way

vars == <<ndx, blob, walk>>

NoWalk == [doc |-> 0, at |-> 0, left |-> {}]
Idle == walk = NoWalk

\* No two spellings are equal to the collator.
DistinctKeys == \A v, w \in Word : CollationKey[v] = CollationKey[w] => v = w
-----------------------------------------------------------------------------
(***************************************************************************)
(* Sorted entry sets and their blobs.  EntrySet is a std::set ordered by   *)
(* fCmpEntryDocPgePos; a blob holds a slice of its serialisation.          *)
(***************************************************************************)
Less(e, f) == e[1] < f[1] \/ (e[1] = f[1] /\ e[2] < f[2])

Rank(e, S) == Cardinality({f \in S : Less(f, e)})

Sorted(S) == [i \in 1 .. Cardinality(S) |-> CHOOSE e \in S : Rank(e, S) = i - 1]

NbBlob(n) == (n + BlobSize - 1) \div BlobSize

Chunk(q, i) ==
    LET end == (i + 1) * BlobSize
    IN  SubSeq(q, i * BlobSize + 1, IF end < Len(q) THEN end ELSE Len(q))

\* Mutant: the blob numbers are one too low.
Stored_OneTooLow(b, from, q, n) ==
    [i \in DOMAIN b \cup (from - 1 .. from + n - 2) |->
        IF i \in from - 1 .. from + n - 2 THEN Chunk(q, i - from + 1) ELSE b[i]]

\* The blobs b after AddElement of the first n chunks of q under the numbers from, from + 1...
Stored(b, from, q, n) ==
    [i \in DOMAIN b \cup (from .. from + n - 1) |->
        IF i \in from .. from + n - 1 THEN Chunk(q, i - from) ELSE b[i]]

-----------------------------------------------------------------------------
(***************************************************************************)
(* Reading.  BufToEntrySet takes the first nbEnt entries of the buffer     *)
(* GetCursorData has put together and never looks at the buffer's size: of *)
(* a buffer that is too short it reads whatever follows in memory.         *)
(***************************************************************************)
Missing(b, r) == ~ (0 .. r.nbBlob - 1 \subseteq DOMAIN b)

Buffer(b, r) == IF r.nbBlob = 0 THEN [i \in {0} |-> r.inline]
                                ELSE [i \in 0 .. r.nbBlob - 1 |-> b[i]]

\* The places of the buffer: blob number and offset, in the order of the bytes.
Cell(buf) == UNION {{i} \X (1 .. Len(buf[i])) : i \in DOMAIN buf}

Decoded(b, r) ==
    LET buf == Buffer(b, r)
    IN  {buf[c[1]][c[2]] : c \in {d \in Cell(buf) : Rank(d, Cell(buf)) < r.nbEnt}}

\* What reading k entries past the end of the buffer may add.
Junk(k) == IF k <= 0 THEN {{}} ELSE {J \in SUBSET Entry : Cardinality(J) <= k}

\* The entry set GetCursorData leaves in a set that held old before.
Read(b, r, old) ==
    IF Missing(b, r)
    THEN {old}
    ELSE {Decoded(b, r) \cup J : J \in Junk(r.nbEnt - Cardinality(Cell(Buffer(b, r))))}

\* GetWordEntries: the entries a search finds (without what a short buffer adds).
Found(w) ==
    LET r == ndx[CollationKey[w]]
    IN  IF r = NoRecord \/ Missing(blob[w], r) THEN {} ELSE Decoded(blob[w], r)

-----------------------------------------------------------------------------
(***************************************************************************)
(* Writing.                                                                *)
(***************************************************************************)
\* The header EntrySetToBuf makes for the sorted entries q.
Header(key, q, nb, inline) ==
    [key |-> key, nbBlob |-> nb, lastDoc |-> q[Len(q)][1], nbEnt |-> Len(q), inline |-> inline]

\* Mutant: the record that takes everything when a put fails still counts the blobs.
Saves_KeepsCount(key, b, k, S) ==
    LET q == Sorted(S)
        nb == IF HasBlob THEN NbBlob(Len(q)) ELSE 0
        put == {i \in 0 .. nb - 1 : ~ (i < k /\ i \in DOMAIN b /\ b[i] = Chunk(q, i))}
    IN  {[blobs |-> Stored(b, 0, q, nb),
          rec |-> Header(key, q, nb, IF HasBlob THEN <<>> ELSE q)]}
        \cup
        {[blobs |-> Stored(b, 0, q, n), rec |-> Header(key, q, nb, q)] :
            n \in IF "rewrite" \in Faults THEN put ELSE {}}

\* SetCursorData for entry set S over the blobs b, the first k of them just
\* read: a blob equal to the one read is not put again, and when a put fails
\* everything goes into the record.
Saves(key, b, k, S) ==
    LET q == Sorted(S)
        nb == IF HasBlob THEN NbBlob(Len(q)) ELSE 0
        put == {i \in 0 .. nb - 1 : ~ (i < k /\ i \in DOMAIN b /\ b[i] = Chunk(q, i))}
    IN  {[blobs |-> Stored(b, 0, q, nb),
          rec |-> Header(key, q, nb, IF HasBlob THEN <<>> ELSE q)]}
        \cup
        {[blobs |-> Stored(b, 0, q, n), rec |-> Header(key, q, 0, q)] :
            n \in IF "rewrite" \in Faults THEN put ELSE {}}

\* Mutant: entries of the last document itself are appended too.
CanAppend_SameDoc(b, r, q) ==
    /\ HasBlob
    /\ r.nbBlob > 0
    /\ q[1][1] >= r.lastDoc
    /\ r.nbBlob - 1 \in DOMAIN b

\* AppendCursorData: the new entries q go after those of the last blob, when
\* their documents all come after the last one of the word.
CanAppend(b, r, q) ==
    /\ HasBlob
    /\ r.nbBlob > 0
    /\ q[1][1] > r.lastDoc
    /\ r.nbBlob - 1 \in DOMAIN b

\* Mutant: the last blob is not read before it is put again.
WithLastBlob_Forgotten(b, r, q) == q

WithLastBlob(b, r, q) == b[r.nbBlob - 1] \o q

\* Mutant: the append leaves the number of entries alone.
AppendHeader_OldCount(b, r, q) ==
    [r EXCEPT !.nbBlob = @ + NbBlob(Len(WithLastBlob(b, r, q))) - 1,
              !.lastDoc = q[Len(q)][1]]

AppendHeader(b, r, q) ==
    [r EXCEPT !.nbBlob = @ + NbBlob(Len(WithLastBlob(b, r, q))) - 1,
              !.lastDoc = q[Len(q)][1],
              !.nbEnt = @ + Len(q)]

\* cursor.put and cursor.del of the word's record.
PutRecord(c, rec, ok) ==
    \/ ok /\ ndx' = [ndx EXCEPT ![c] = rec]
    \/ ~ ok /\ "header" \in Faults /\ UNCHANGED ndx

DelRecord(c, ok) == PutRecord(c, NoRecord, ok)

-----------------------------------------------------------------------------
(***************************************************************************)
(* The operations.  ok says whether the put or del of the word's record    *)
(* succeeded; it is the value returned, but for DelWordDocEntries, which   *)
(* returns true when its del failed.                                       *)
(***************************************************************************)
Init == /\ ndx = [c \in Key |-> NoRecord]
        /\ blob = [w \in Word |-> [i \in {} |-> <<>>]]
        /\ walk = NoWalk

\* SetCursorData of S for the spelling w, whose record is at c, then cursor.put.
\* A record that is replaced (DB_CURRENT) keeps the spelling of its key.
SaveWord(c, w, b, k, S, ok) ==
    LET key == IF ndx[c] = NoRecord THEN w ELSE ndx[c].key
    IN  \E o \in Saves(key, b, k, S) :
            /\ blob' = [blob EXCEPT ![w] = o.blobs]
            /\ PutRecord(c, o.rec, ok)

AddNewWord(w, S, ok) ==
    /\ ndx[CollationKey[w]] = NoRecord
    /\ SaveWord(CollationKey[w], w, blob[w], 0, S, ok)

AppendToWord(w, S, ok) ==
    LET c == CollationKey[w]
        r == ndx[c]
        q == Sorted(S)
        t == WithLastBlob(blob[w], r, q)
    IN  /\ r # NoRecord
        /\ CanAppend(blob[w], r, q)
        /\ blob' = [blob EXCEPT ![w] = Stored(@, r.nbBlob - 1, t, NbBlob(Len(t)))]
        /\ PutRecord(c, AppendHeader(blob[w], r, q), ok)

\* A blob put of the append fails after n others: the header in memory is
\* the appended one already, and the entries are read again with it.
AppendFails(w, S, ok) ==
    LET c == CollationKey[w]
        r == ndx[c]
        q == Sorted(S)
        t == WithLastBlob(blob[w], r, q)
    IN  /\ "append" \in Faults
        /\ r # NoRecord
        /\ CanAppend(blob[w], r, q)
        /\ \E n \in 0 .. NbBlob(Len(t)) - 1 :
            LET b == Stored(blob[w], r.nbBlob - 1, t, n)
                h == AppendHeader(blob[w], r, q)
            IN  \E x \in Read(b, h, {}) : SaveWord(c, w, b, h.nbBlob, x \cup S, ok)

MergeIntoWord(w, S, ok) ==
    LET c == CollationKey[w]
        r == ndx[c]
    IN  /\ r # NoRecord
        /\ ~ CanAppend(blob[w], r, Sorted(S))
        /\ \E x \in Read(blob[w], r, {}) :
                SaveWord(c, w, blob[w], r.nbBlob, x \cup S, ok)

AddWordEntries(w, S, ok) ==
    /\ Idle
    /\ \/ AddNewWord(w, S, ok)
       \/ AppendToWord(w, S, ok)
       \/ AppendFails(w, S, ok)
       \/ MergeIntoWord(w, S, ok)
    /\ UNCHANGED walk

DelWordEntries(w, ok) ==
    /\ Idle
    /\ ndx[CollationKey[w]] # NoRecord
    /\ DelRecord(CollationKey[w], ok)
    /\ UNCHANGED <<blob, walk>>

Without(S, d) == {e \in S : e[1] # d}

\* Mutant: a record of which nothing is left stays as it is.
RemoveDoc_KeepsEmpty(c, w, x, d, ok) ==
    \/ /\ Without(x, d) = {} \/ Without(x, d) = x
       /\ ok
       /\ UNCHANGED <<ndx, blob>>
    \/ /\ Without(x, d) \notin {x, {}}
       /\ SaveWord(c, w, blob[w], ndx[c].nbBlob, Without(x, d), ok)

\* What DelWordDocEntries and DelDocEntries do to the record at c, of whose
\* entries they have read x: delete it, leave it, or save what is left.
RemoveDoc(c, w, x, d, ok) ==
    \/ /\ Without(x, d) = {}
       /\ DelRecord(c, ok)
       /\ UNCHANGED blob
    \/ /\ x # {}
       /\ Without(x, d) = x
       /\ ok
       /\ UNCHANGED <<ndx, blob>>
    \/ /\ Without(x, d) \notin {x, {}}
       /\ SaveWord(c, w, blob[w], ndx[c].nbBlob, Without(x, d), ok)

DelWordDocEntries(w, d, ok) ==
    /\ Idle
    /\ ndx[CollationKey[w]] # NoRecord
    /\ \E x \in Read(blob[w], ndx[CollationKey[w]], {}) :
            RemoveDoc(CollationKey[w], w, x, d, ok)
    /\ UNCHANGED walk

-----------------------------------------------------------------------------
(***************************************************************************)
(* DelDocEntries walks the records in key order.  Its entrySet outlives    *)
(* the loop body: GetCursorData leaves in it the entries of the previous   *)
(* word when a blob is missing.  A failed put ends the walk, a failed del  *)
(* does not.                                                               *)
(***************************************************************************)
Ahead == {c \in Key : c > walk.at /\ ndx[c] # NoRecord}

DelDocEntries(d) ==
    /\ Idle
    /\ walk' = [doc |-> d, at |-> 0, left |-> {}]
    /\ UNCHANGED <<ndx, blob>>

VisitRecord(ok) ==
    /\ ~ Idle
    /\ \E c \in Ahead :
        /\ \A k \in Ahead : c <= k
        /\ \E x \in Read(blob[ndx[c].key], ndx[c], walk.left) :
            /\ RemoveDoc(c, ndx[c].key, x, walk.doc, ok)
            /\ walk' = IF ok \/ Without(x, walk.doc) = {}
                       THEN [walk EXCEPT !.at = c, !.left = Without(x, walk.doc)]
                       ELSE NoWalk

EndWalk ==
    /\ ~ Idle
    /\ Ahead = {}
    /\ walk' = NoWalk
    /\ UNCHANGED <<ndx, blob>>

\* DbManager::RemoveDbNdx: the btree goes, the blob container stays.
RemoveDbNdx ==
    /\ Idle
    /\ ndx' = [c \in Key |-> NoRecord]
    /\ UNCHANGED <<blob, walk>>

Next == \E ok \in BOOLEAN :
    \/ \E w \in Word : \E S \in Batch[w] : AddWordEntries(w, S, ok)
    \/ \E w \in Word : DelWordEntries(w, ok)
    \/ \E w \in Word, d \in Doc : DelWordDocEntries(w, d, ok)
    \/ \E d \in Doc : ok /\ DelDocEntries(d)
    \/ VisitRecord(ok)
    \/ ok /\ EndWalk
    \/ ok /\ RemoveDbNdx

Spec == Init /\ [][Next]_vars

-----------------------------------------------------------------------------
(***************************************************************************)
(* Properties                                                              *)
(***************************************************************************)
\* The blobs of one word: blob number to entries.
IsBlobs(b) == DOMAIN b \subseteq Nat /\ b \in [DOMAIN b -> Seq(Entry)]

TypeOK ==
    /\ ndx \in [Key -> Record \cup {NoRecord}]
    /\ \A c \in Key : ndx[c] # NoRecord => CollationKey[ndx[c].key] = c
    /\ blob = [w \in Word |-> blob[w]]
    /\ \A w \in Word : IsBlobs(blob[w])
    /\ walk \in [doc : Doc \cup {0}, at : Key \cup {0}, left : SUBSET Entry]

\* A header never counts a blob that was not stored: GetCursorData never
\* reports "Incorrect blob retrieve from database" (DbNdx.cpp:380), whatever
\* puts failed before.
HeaderNamesStoredBlobs ==
    \A c \in Key : ndx[c] # NoRecord => ~ Missing(blob[ndx[c].key], ndx[c])

\* The number of entries in the header, which GetWordIntList shows as the
\* word's occurrences without reading a blob, is the number of distinct
\* entries a search finds; the buffer is not read past its end, no word is
\* left without entries, and none of them is in a document after lastDoc
\* (which decides whether new entries may be appended).
HeaderIsExact ==
    \A w \in Word :
        LET r == ndx[CollationKey[w]]
        IN  r # NoRecord =>
                /\ Found(w) # {}
                /\ r.nbEnt = Cardinality(Found(w))
                /\ r.nbEnt <= Cardinality(Cell(Buffer(blob[w], r)))
                /\ \A e \in Found(w) : e[1] <= r.lastDoc

\* While DelDocEntries walks, no word it has passed has an entry of the
\* document any more ("Remove all entries in the database, for one doc",
\* DbNdx.hpp:101).
WalkLeavesNoEntry ==
    \A w \in Word : \A e \in Found(w) :
        CollationKey[w] <= walk.at => e[1] # walk.doc

\* What the index promises: its operations change the entries of the words
\* as WordIndex says, however they are cut in blobs (DbNdx.hpp:38-40).
Index == INSTANCE WordIndex WITH index <- [w \in Word |-> Found(w)]
ImplementsWordIndex == Index!Spec

\* Each operation that succeeds does to the word and the entries it is given
\* what its counterpart of WordIndex does.
OperationsAreExact ==
    [][ /\ \A w \in Word : \A S \in Batch[w] :
                AddWordEntries(w, S, TRUE) => Index!Add(w, S)
        /\ \A w \in Word : DelWordEntries(w, TRUE) => Index!DelWord(w)
        /\ \A w \in Word, d \in Doc :
                DelWordDocEntries(w, d, TRUE) => Index!DelWordDoc(w, d)
        /\ VisitRecord(TRUE) => \E w \in Word : Index!DelWordDoc(w, walk.doc) ]_vars

\* When AddWordEntries returns true the new entries are found, and no word
\* has lost an entry: it gets the entries of the word (DbNdx.cpp:564) and
\* adds the new ones in the set (DbNdx.cpp:584).
AddKeepsEntries ==
    [][\A w \in Word : \A S \in Batch[w] :
            AddWordEntries(w, S, TRUE) =>
                /\ S \subseteq Found(w)'
                /\ \A v \in Word : Found(v) \subseteq Found(v)']_vars
=============================================================================
