# A TLA+ model of the Atoll digital library

Atoll is a C++ engine that stores collections of XML documents, indexes their
words in Berkeley DB containers and searches them.  This directory holds TLA+
modules of its storage, its indexing and its searches, TLC configurations that
check them on small instances, and TLAPS proofs of theorems that hold for every
instance.

Source paths below are relative to `src/src/` of the repository; `PROJECT.json`
maps every definition to its lines.

## 1. The system

### Components, their state and their operations

| Component | Source | State it keeps | Operations | Model |
|---|---|---|---|---|
| Index container | `database/DbNdx`, `database/DbBlob`, `util/Entry` | a btree: word to header (number of blobs, last document, number of entries); a container of blobs with the sorted entries | `AddWordEntries`, `DelWordEntries`, `DelWordDocEntries`, `DelDocEntries`, `GetWordEntries`, word lists | `DbNdx`, `WordIndex` |
| Collection | `collection/Collection`, `database/DbMap`, `DbDocMeta`, `DbDoc` | document map, its reverse and index map in memory; both maps, metadata records, pages and indexes on disk | `AddDocument`, `IndexDocument`, `RemoveDocumentIndex`, `RemoveDocument`, `SetDocumentMeta`, `ClearCollection`, constructor, destructor | `CollectionData`, `Collection`, `Catalog` |
| Collection manager | `collection/ColManager`, `database/DbColMeta` | map of collections in memory and on disk, their records, the open collection | `AddCollection`, `RemoveCollection`, `SetCollectionMeta`, `ClearColManager`, `OpenCollection`, constructor, destructor | `Library`, `Shelf` |
| Database manager | `database/DbManager` | cache of open containers, observer of opened indexes | `GetDb...`, `RemoveDbNdx`, `RemoveDbDoc` | within the above |
| Berkeley DB wrapper | `database/DbWrapper`, `DbUtil` | environment without transactions, log or locks | put, get, del, count, truncate | external, by its use |
| Field and search records | `database/DbFieldMeta`, `DbSearchRecord`, `util/SearchRecord` | key/value records | add, get, set, remove | no |
| Indexer | `indexer/` | stack of XML nodes, nodes that ended while a word was pending, cache of words of the current document | SAX events, flush of the cache | `Indexing` |
| Adorner, record breaker | `adorner/`, `recordbreaker/` | page under construction, header, extra content | SAX events, page breaks | `Indexing` |
| Parser, SAX handlers | `parser/` | the parser object | `XercesParse` | its calls in `Indexing`, its outcomes in `CollectionData` |
| Query resolver, searcher | `searcher/` | a tree of queries, entry sets | term, prefix, phrase, boolean, near queries | `EntryMerge`, `Searching` |
| Query parser, analysers | `lucene/` | none of its own | string to query tree | the flags of clauses, in `Searching` |
| Engine API | `engine/` | none between calls | one session per call | a use of `Library`; `Searching`, `WordList` |
| Plugins | `plugin/` | none | requests of the web front end | highlighting a page, in `Searching` |
| Console, utilities | `console/`, `common/` | none the properties tell apart | | no |

### How they interact

An Engine API call makes a `ColManager`, which loads its map; opens a
`Collection`, which loads two maps and makes the reverse of one; calls one
operation; and deletes both, whose destructors save the maps.  Indexing a
document runs a Xerces parser whose SAX events drive the indexer and the
adorner; they write words through `DbNdx` and pages through `DbDoc`, obtained
from the collection's `DbManager`.  The manager notes every index it opened in
an observer set, from which `CloseIndexer` brings the index map up to date.
`ColManager` empties collections through second `Collection` objects on
containers that the open one may also be using.

Calls are synchronous and a process has one thread of them.  There are no
callbacks that re-enter an operation, no messages and no timers.  The
environment is opened without locking, logging or transactions
(`DbUtil.cpp`), so that two writing processes have no defined meaning and a
killed process leaves what it has put.

### What is hard

- **Partial failure.**  One operation is several puts.  Any may fail, nothing
  is undone, and a fallback continues from what the earlier ones left
  (`AppendCursorData`, `SetCursorData`, a parse that throws).
- **Copies that must agree.**  A header against its blobs; three maps in
  memory against two on disk, the records, the pages and the indexes; the
  manager's map against records and against an object somebody left open.
- **Kills.**  Maps are saved by clearing a container and putting elements back;
  the index map is written only then.
- **Numbers used again.**  Document and collection numbers are the greatest
  plus one; ids of removed collections come back.  What was under them must be
  gone.
- **Boundaries.**  Full last blobs, entries of the very last document, page and
  document boundaries in searches, two-byte fields.

`PROJECT.json` lists each hazard with its line and the properties that cover it.

### What makes each component correct

- Index: a search finds exactly the entries that were added and not removed,
  however they are cut in blobs; a header's count is exact; no header counts a
  blob that is not there; removing a document leaves none of its entries.
- Collection: its maps agree; a document that says it is indexed is stored in
  full; search and reading give what the indexed documents contain, before and
  after it is closed and opened; the index map is exact.
- Manager: list, map on disk and records agree; a collection starts empty, is
  changed by nothing that is done to another, and leaves nothing behind.
- Indexer, adorner and record breaker: every page is a document of its own;
  an entry leads to the page that shows its word, and every word shown is
  indexed; a document, also one that failed, leaves nothing to the next.
- Query resolver: a merge keeps what meets something in the other list; the
  merges of two lists at a time add up to the phrase, the AND query and the
  criteria they are made for; a search ends and shows each result once.
- Reading an index: a word, there or not, is found at its place; pages read
  one after the other show every word once.
- Showing a page: the places highlighted on it are those of the result.

## 2. The modules

| Module | What it is |
|---|---|
| `WordIndex` | abstract: an entry set for each word |
| `DbNdx` | the index container with its blobs, appends, merges, walks and failing puts; implements `WordIndex` |
| `CollectionData` | the data of one collection as a record, and its operations as functions of the record |
| `Catalog` | abstract: documents, what a search finds and what a read gives |
| `Collection` | one collection that is opened, used, closed and killed; implements `Catalog` |
| `Shelf` | abstract: titled collections with their documents |
| `Library` | the manager over several collections, each a record of `CollectionData`; implements `Shelf` |
| `Indexing` | the SAX events of documents, and what indexer, adorner, decorators and record breaker make of them |
| `EntryMerge` | the walks of two iterators that merge two lists of entries |
| `Searching` | a query: its parser's flags, the reduction of its lists by merges of `EntryMerge`, which it extends, the results shown and the page highlighted |
| `WordList` | reading an index as a numbered list of words |
| `MC...` | instances for TLC |
| `DbNdxProofs` (with those about `WordIndex`), `CollectionDataProofs`, `CollectionProofs`, `LibraryProofs`, `IndexingProofs`, `SearchingProofs` (with those about `EntryMerge`), `WordListProofs` | theorems |
| `FoldProofs` | lemmas about folds over sequences, which `IndexingProofs` and `SearchingProofs` use |

A definition named `X_Something` under a comment "Mutant:" is a version of `X`
with a plausible mistake.  Nothing uses it; it is there to put in the place of
`X`, when the property it is meant for must fail.

### DbNdx

`ndx` is the btree: for each collation key the record found there, with the
spelling stored as its key, the header fields, and the entries themselves when
the word has no blobs.  `blob[w][i]` is the blob under the key `"w i"`.  Words
are found by collation and blobs by spelling, as in the code, so the model has
both.  `walk` is the cursor of a `DelDocEntries`, which visits one record per
step and carries its `entrySet` from one to the next.

`AddWordEntries` has the four ways of the code: a new word, an append, an
append whose put fails and that falls back to a merge, and a merge.  `Saves` is
`SetCursorData` with its fallback to a record without blobs; `Read` is
`GetCursorData` with `BufToEntrySet`, which trusts the header's count: what it
reads past a short buffer is a nondeterministic choice.  `Faults` says which
puts may fail: `"append"`, `"rewrite"`, `"header"`.  Each operation has a
parameter `ok`: did the put of the header succeed.

Left out: `LoadFwb`, which repeats `AddWordEntries`; per-document counts in the
header, which nothing reads; the compressed format, which a constant turns off;
the width of header fields.  Reading the words as a list is module `WordList`.
`Batch[w]` are the sets of entries a caller may add to `w`; theorems hold for
any, and one run gives the second word fewer to keep the instance small.

### CollectionData and Collection

A file stands for its content: one word of its own in each of its indexes, and
pages that carry its name.  That is enough to see an entry or a page that
belongs to an earlier document of the same number.  The record `c` has the
three maps in memory (`docMap`, `intToDocMap`, `ndxMap`), the two on disk
(`dbDocMap`, `dbNdxMap`), the metadata records, the pages and the indexes.

`Indexed` gives all outcomes of `IndexDocument`: everything stored, or, when
`"parse" \in Faults`, a parse that failed after any part of the words and at
least one page, or a failure before or after it.  `Cut` gives all that a kill
may leave: neither map saved, part of the first, the first and part of the
second.

Operations return early when a document is unknown or the sizes of the maps
differ.  Those that then change nothing are no actions.  Returns half way,
when one map has a document and another has not, are never taken: that is what
`MapsAgree` says.  Field metadata share nothing with the rest and are left out.
So is a kill between the puts of one operation, and the
title of a document (`SetDocumentMeta` does not index a changed title again).

### Library

`cols[id]` are the containers of collection `id` with the maps of the object
open on them, if any.  `Emptied` is the second object that `RemoveCollection`
and `ClearColManager` make: it works on the disk part of the record and leaves
the maps of the open object alone.  `UseCollection` is any operation of the
open collection (`Results`).  `OpenCollection` returns the open collection
unseen if it has the id, and otherwise closes it first, even when the id is
unknown.  A given id is not told from a generated one; of a record the number
and the title are kept.

### Indexing

`ix` is the `IndexerHandler` with all it owns: the open nodes (`stack`), the
nodes that ended while a word was pending (`closed`), the word cache (`cache`),
the two decorators (`dec`, `cur`), the page under construction, the record
breaker, and what reached the databases (`pages`, `words`).  The actions are the
calls of the parser: `StartDocument`, `StartNode`, `EndNode`, `Characters`,
`EndDocument`, with the record breaker's answers inside them; a document may be
refused by the page container (`StartDocumentFails`) and may end with a parse
that failed.  `usage` is one of the four ways the handler is used: indexing a
document with or without a record breaker, indexing its metadata, and the
application's loop that gives all documents to one handler.

Characters come in chunks, and a word may be cut by the end of a chunk, by a
tag or by a page break; that is why a word is a sequence of pieces.  The shapes
of words, lower case and sub-words are left out.  `StepsPastTheEnd` and
`EndNodeLoops` are the two outcomes of a loop over a map that is erased under
its iterator (`RecordBreaker.cpp:123`): it may step past the end, or not return.

### EntryMerge and Searching

An iterator over a sorted set is the set of entries it has not passed
(`rest1`, `rest2`); erasing an entry takes it out of `set1` or `set2`.  One
turn of a loop of `QueryResolver` is a step.  All merges have one shape and
differ in what is behind (`FirstIsBehind`, `SecondIsBehind`) and what meets
(`Meet`), so that they share their actions.

`Searching` has one query node: `AddClause` is the parser (`MatchConjunction`,
`MatchModifiers`, `AddClause`), which changes the flags of the clause before;
`SearchClause` takes a clause into the vector of lists; `MergeLists` and
`NextList` are the loops of the `Reduce...List` functions, which run merges;
the `Reduce...` and `Filter...` actions are the end of `EngineApiComputeCrit`;
`GetSearchResult` cuts what is left into results, and `Highlights` is the walk
of `XmlReqDoc` over them for one page.  Terms, prefixes and
wildcards are lists of entries that are given.

### WordList

`words` is the index in its order; it changes between requests.  A request
asks for a page by a number or by a word.  `bot` and `top` are the bounds of
the dichotomy for a word that is not there, one turn of which is a step
(`Above`, `Below`, `BelowAll`, `Near`).  `Page` is what `EngineApiComputeIndex`
answers: words, first number, size.  `Wrap` is the arithmetic of unsigned long.
A read of Berkeley DB that fails is left out, and so are page numbers that a
record number cannot hold.

## 3. What is checked

| Run | Instance | Result |
|---|---|---|
| `index_contract` | two words, three documents, blobs of two entries, failing rewrites | `HeaderIsExact`, `WalkLeavesNoEntry`, `ImplementsWordIndex`, `OperationsAreExact` hold |
| `index_faults` | two words, two documents, every put may fail | `TypeOK`, `HeaderNamesStoredBlobs` hold |
| `index_same_key` | two spellings of one collation key, nothing fails | `AddKeepsEntries` is violated |
| `collection_catalog` | three files, numbers and indexes, nothing fails | `NdxMapIsExact`, `ImplementsCatalog` hold |
| `collection_faults` | two files, numbers and indexes, parses fail, kills | `TypeOK`, `MapsAgree`, `IndexedMeansStored` hold |
| `collection_failed_parse` | two files, three indexes, parses fail | `NoDocumentNoIndex` is violated |
| `library_sessions` | two collections, two titles, one file, kills | `TypeOK`, `LibraryAgrees`, `ImplementsShelf` hold |
| `library_clear` | the same with one title and no kills | `ClearedStaysCleared` is violated |
| `indexing_pages` | up to two documents of six tags and chunks in all, the four usages | `TypeOK`, `IdleDecoratorIsEmpty`, `PagesAreDocuments`, `EntriesLeadToTheirPage`, `ShownWordsAreIndexed` hold |
| `queries` | two or three words over five places, windows up to 3 | the merge and search properties hold, `EverySearchEnds` |
| `three_clauses` | `a AND b AND c` | `RequiredMeansRequired` is violated |
| `index_pages` | up to five words, pages of one, three or all words, numbers up to 7 | `TypeOK`, `HalvesAreLeft`, `PlaceIsFound`, `SizeIsShown`, `PagesMeet`, `EveryRequestEnds` hold |

Why the bounds are enough:

- *Blobs.*  Three documents and `BlobSize = 2` give a last blob that is partly
  and exactly full, an append that overflows into a second blob, a merge in the
  middle, and blobs that stay behind when the word shrinks.  The code treats
  blobs beyond the second like the second.
- *Words.*  Two words suffice for what passes from one step of a walk to the
  next.  The second has entries of two documents only, which fill one blob.
- *Files.*  Three files and numbers let a number be given again while another
  document remains; two indexes, one shared, let an index become empty while
  another does not.  With failures and kills two files keep the run small.
- *Collections.*  Two may swap numbers and the place of the open one.  In
  `library_sessions` a collection has at most one document and the metadata
  index; what happens within one is the subject of the collection runs.
- `MaxDoc` and `MaxCol` stop numbers from growing: an addition that would need
  a greater number is not taken.  All smaller histories are complete.

- *Events.*  Six tags and chunks make a title inside a section, a note that
  cuts a word, a section that begins inside a word, and a second document after
  a first that failed.  Chunks are a piece, a piece before a line feed, and a
  space; `NeedDecorate = 2` makes the buffer be cut in the middle.
- *Places.*  A document of two pages with a note whose position is far above,
  and a second document: page and document boundaries, equal positions, and
  places exactly at the window and just beyond it.  Two terms have all lists of
  these places, three terms lists of one or two.
- *Words of an index.*  Five words make the dichotomy take three turns, with an
  even and an odd rest.  `MaxLong = 8` leaves room for every sum of a number in
  the index and a page of three; a page of `MaxLong` words overflows.

The configurations of the storage, indexing and query models turn deadlock
checking off: with all numbers used up, all events spent or the result shown, a
bounded instance stops, which the program does not.

**Fairness.**  The program does what its caller asks and nothing on its own, so
the storage and indexing models assume no fairness.  A search and a request for
a page of an index run in one thread to their end: `SearchSpec` has weak
fairness of `SearchNext`, and `ServedSpec` of the steps that serve a request,
not of the requests themselves.  Under it `EverySearchEnds` and
`EveryRequestEnds` say that the loops of the merges and of the dichotomy end.

### Findings

1. *Spellings the collator holds equal* (`index_same_key`, `DbNdx.cpp:286`).
   They share a header and not their blobs; adding to one spelling loses the
   entries of the other.
2. *A failed parse is never undone* (`collection_failed_parse`,
   `Collection.cpp:707`).  Its words stay in the indexes; removing the document
   skips them since it is not marked indexed, and the next document of that
   number is found by them.
3. *Clearing under an open collection* (`library_clear`, `ColManager.cpp:122`).
   `ClearColManager` does not close the open collection; its destructor writes
   its document map back.
4. *Three required words* (`three_clauses`, `QueryResolver.cpp:309`).  When the
   first two words share no page both lists are thrown away, and the third
   word's list is the result.  `AndPagesAreExact` says that this is the only way
   an AND query goes wrong.

`IndexedMeansStored` holds in spite of 2: the damage is in entries, not in
marks.

### Observations

Seen while modelling, kept in the models where they matter, without a run of
their own because no line of the repository says otherwise, or because the
property would be one that another run has:

- *An append that fails* (`DbNdx.cpp:319`).  `AppendCursorData` has already
  pointed the data at the header that counts the new entries; the fallback
  reads the old entries with it.  With `Faults = {"append"}` `AddKeepsEntries`
  is violated; `HeaderNamesStoredBlobs` holds all the same.
- *A page past the end of an index* (`EngineApi.cpp:1314`).  No word is shown,
  but the size given is 1; without words the first number given is the greatest
  unsigned long.  The engine logs "Incorrect index size" and answers all the
  same.  `SizeIsShown` says that it is never logged for a page that shows a
  word and whose end does not overflow.
- *Saved searches* (`EngineApi.cpp:1060`).  A search record is loaded by its
  identifier with the entries it was saved with, whatever happened to the
  documents since.
- *Results in a row* (`EngineApi.cpp:1200`).  Consecutive positions are to count
  as one result, but the last entry is not noted when one is skipped: of three
  in a row the third is a result again.
- *Elements between two words* (`Indexer.cpp:312`).  An element without a word
  of its own that ends while a word is pending is indexed with that word.
- *The record breaker's loop* (`RecordBreaker.cpp:123`) walks a map while it
  erases from it.
- *The header of the last page* of a document is put before the first page of
  the next one when one handler parses several (`engine/App.cpp:350`).
- *A word cut by a page break* is indexed on the page that ends.
- *Four words near each other*: the second list is never merged with the fourth
  (`QueryResolver.cpp:505`).  `PhrasesAreSound` leaves this out.
- *A phrase with one word twice*, or terms that share a place, may be missed or
  met by one place; `PhrasesAreFound` asks for terms without common places.
- *A document whose notes come before text of a later page* is out of reading
  order, and a merge by positions may miss it; `OrderedDocumentsAreFound` says
  for which documents it does not.
- *NOT* empties the result of a boolean query (`BooleanQuery.cpp:245`, marked as
  to do there).

## 4. What is proved

For every value of the constants that satisfies the modules' assumptions:

| Theorem | Statement |
|---|---|
| `DbNdxProofs!TypeCorrect` | `Spec => []TypeOK` |
| `DbNdxProofs!HeadersNameStoredBlobs` | `DistinctKeys => (Spec => []HeaderNamesStoredBlobs)` |
| `DbNdxProofs!HeadersAreExact` | `Spec => []HeaderIsExact` (1) |
| `DbNdxProofs!WalksLeaveNoEntry` | `Spec => []WalkLeavesNoEntry` (1) |
| `DbNdxProofs!ContainerIsWordIndex` | `Spec => ImplementsWordIndex` (1) |
| `DbNdxProofs!OperationsDoAsTheySay` | `Spec => OperationsAreExact` (1) |
| `DbNdxProofs!AddsKeepEntries` | `Spec => AddKeepsEntries` (1) |
| `CollectionProofs!TypeCorrect` | `Spec => []TypeOK` |
| `CollectionProofs!MapsAlwaysAgree` | `Spec => []MapsAgree` |
| `CollectionProofs!IndexedIsStored` | `Spec => []IndexedMeansStored` |
| `CollectionProofs!IndexMapIsExact` | `Faults = {} => (Spec => []NdxMapIsExact)` |
| `CollectionProofs!CollectionImplementsCatalog` | `Faults = {} => (Spec => ImplementsCatalog)` |
| `LibraryProofs!TypeCorrect` | `Spec => []TypeOK` |
| `LibraryProofs!LibraryAlwaysAgrees` | `Spec => []LibraryAgrees` |
| `LibraryProofs!LibraryImplementsShelf` | `Spec => ImplementsShelf` |
| `SearchingProofs!MergeTypeCorrect` | `MergeSpec => []MergeTypeOK` |
| `SearchingProofs!MergesAreSound` | `MergeSpec => []ResultIsSound` |
| `SearchingProofs!DocumentsAreFound` | `MergeSpec => []OrderedDocumentsAreFound` |
| `SearchingProofs!MergesAreExact` | `MergeSpec => []ResultIsExact` |
| `SearchingProofs!SearchTypes` | `SearchSpec => []SearchTypeOK` |
| `SearchingProofs!SearchMergesAreExact` | `SearchSpec => [](MergeTypeOK /\ ResultIsExact /\ ResultIsSound /\ OrderedDocumentsAreFound)` |
| `SearchingProofs!PhrasesHaveTheirWords` | `SearchSpec => []PhrasesAreSound` |
| `SearchingProofs!StandingPhrasesAreFound` | `SearchSpec => []PhrasesAreFound` |
| `SearchingProofs!AndPagesFindTheirEntries` | `SearchSpec => []AndPagesAreExact` |
| `SearchingProofs!CriteriaFindTheirEntries` | `SearchSpec => []CriteriaAreExact` |
| `SearchingProofs!ResultsAreShownOnce` | `SearchSpec => []EachShownOnce` |
| `SearchingProofs!HighlightsHitResults` | `SearchSpec => []HighlightsAreHits` |
| `IndexingProofs!TypeCorrect` | `Spec => []TypeOK` |
| `IndexingProofs!NothingIsLeft` | `Spec => []IdleDecoratorIsEmpty` |
| `IndexingProofs!PagesHold` | `Spec => []PagesAreDocuments` (2) |
| `IndexingProofs!EntriesHold` | `Spec /\ []FewWords => []EntriesLeadToTheirPage` (3) |
| `IndexingProofs!WordsAreFound` | `Spec => []ShownWordsAreIndexed` (2) |
| `WordListProofs!TypeCorrect` | `Spec => []TypeOK` |
| `WordListProofs!HalvesAreRight` | `Spec => []HalvesAreLeft` |
| `WordListProofs!PlaceIsRight` | `Spec => []PlaceIsFound` |
| `WordListProofs!PagesAlwaysMeet` | `Spec => PagesMeet` |
| `WordListProofs!SizesAreShown` | `Spec => []SizeIsShown` |

(1) when `DistinctKeys` and `OnlyRewriteFaults`: no two spellings share a
collation key, and of the puts only that of a rewritten blob may fail.

(2) when `RootIsNotRepeated`: the configuration of the record breaker does not
say that the content of the root element is repeated on every page.

(3) `FewWords`: the position of the text outside the notes, and one more for each
token that is buffered, never comes to those of the notes, which start after
100000 (`Adorner.cpp:176`).  No code ensures it, and without it the statement is
false: the word 100001 of a text shares its position with the first of a note,
which may be on an earlier page.

The assumptions are those named in the modules: finite sets of words,
documents, positions, files and places, positive numbers, a positive blob size,
the metadata index apart from the content's, places that are records of three
numbers, queries with at least one term, a window for every distance
between two of them, and texts made of pieces that are not spaces.  Unless a statement says otherwise all failures are
included.

**DbNdx.**  Types need lemmas about the helpers: `Less` is a total order, so
ranks enumerate a finite set and `Sorted` is the sequence of its elements; a
chunk of a sequence of entries is one; and storing chunks leaves a function
from blob numbers to entry sequences.  `TypeOK` splits in `StoreOK` (btree and
blobs) and `WalkOK`, since most actions change one part only.
`HeaderNamesStoredBlobs` then only needs that blobs are
never deleted (`Stored` keeps the domain), that each new header counts either
the blobs just stored or none, and that the spelling in the record is the one
the blobs were stored under.  The last is where `DistinctKeys` is needed: with
two spellings for one key the header of one would count blobs of the other,
which is finding 1.

**WordIndex.**  `Holds` says what it means that a record and its blobs hold a set
of entries: the count in the header is its size, its sequence in order is cut in
the blobs the header counts, and no buffer is read past its end.  `Contents`
says that every record holds some set that is not empty.  It is inductive under
the two conditions of (1), and both are needed.  With two spellings of one key a
record's header describes blobs of another spelling (finding 1, the run
`index_same_key`); a put of an appended blob or of a header that fails leaves
blobs and header of different times.  A rewrite that fails is harmless because
the record goes back to a form without blobs.  That what a search reads is the
set again needs no induction over the blobs: entry number `i * BlobSize + o` is
the `o`-th of blob `i`, in one way only (`PlaceIsUnique`, `PlaceExists`), and a
sorted sequence is determined by its set.  On this rest the four ways to add
entries, the two to delete them, and the step of the walk; `IInv` adds to
`Contents` what the walk has passed.

**Collection.**  The invariant `Inv` is `TypeOK`, `MapsAgree` and
`IndexedMeansStored` together, and none of them is inductive alone: a step
finds the record of its document through the maps, and the parse that follows
`IndexRemoved` starts from a document not marked indexed, whose pages and words
may be anything.  `CollectionDataProofs` has a lemma for each function of
`CollectionData` about the record it returns (`IndexRemovedKeeps`,
`ParsedKeeps`, ...), which `LibraryProofs` uses too; `CollectionProofs` has one
for each action, and one, `EndedInv`, for closing and every kind of kill, from
the single fact that what reaches the disk is part of the map in memory.

**Catalog.**  Without failures more is true: `ExactInv` adds that every record
is that of a document not indexed or indexed in full, that the indexes and pages
hold what the indexed documents contain and nothing else (`Exact`), and that the
index map counts it (`NdxExact`).  Again there is a lemma for each function of
`CollectionData` and for each action (`...Exact`).
`CatalogSimulated` then maps each step to one of `Catalog` or to a stutter,
from `ExactInv` before and after it.

**Library.**  `Inv` has two parts: `Shelved`, of the data of all collections (only
the open one has maps in memory, and these cover what is on disk), and `Listed`,
of the manager's list.  The weaker `Covers` is what survives
`ClearColManager` under an open collection (finding 3).  Each action has a lemma
that it keeps `Inv` (`...Inv`) and one that names the step of `Shelf` it is
(`...Step`).  The ids that are not listed but open, or under which documents are still
stored, are the `Strays` of the mapping.

**Indexing.**  A call of the parser runs several helpers, which all take a
handler and return one.  The proofs are about sets of handlers that no helper
leaves: `Closed(A)` says that of decorating (a token, an emptied buffer, a word
that is indexed), of turning to the other decorator and of turning the page, each
where the code does it.  `StartNodeKeeps`, `EndNodeKeeps`, `CharactersKeep` and
`EndDocumentKeeps` then follow the code of the calls once, for any such set, and
every invariant only needs that its own set is closed.  The fold over the tokens
of a buffer keeps a set that each token keeps (`TokensWalk`, in place of
induction).

- *Types* (`Steady`): between two documents the handler is `Resting`, with both
  decorators as they were made, and while one is parsed it is `Working`: the
  other decorator is blank, what nodes and cache hold has a position and the
  document's number (`Clean`), and the open nodes are those of the open elements.
- *Pages* (`Pagination`): `Shown` is the page as far as it is known - its header,
  what was put out, what the decorator has to put out - and `Paged` says that its
  tags leave exactly the open elements open.  A tag is said before the record
  breaker meets it or after, so `Paged` has two lists of elements, one for the page
  and one for the breaker.  The header of a page opens what is open and repeats
  the content kept of it, in which all that was opened is closed (`GoodHeader`,
  `GoodKept`), and the footer closes the rest (`GoodFooter`).  That content must
  be one element with nothing but text in it: with the root's content repeated,
  the tags noted at depth 0 are not told from none, and nothing of this is true,
  hence (2).
- *Entries* (`Placement`): a `View` gives for every page of a document the positions
  it shows, those of the page that is being made included.  It only grows: a piece
  of a word adds its position to that page (`Grows`), and a page
  that is turned shows what it showed before (`TurnedView`).  A position that is
  new is first shown there, and a place that was the first one remains so
  (`FirstShown`, `FirstGrows`).  `Aligned` says that the pending word of a
  decorator has the place where the last position was given, and hence where it is
  shown first: after a page break inside it the word keeps the place of its first
  piece.  So every word that a node hears, or that is cached, leads to a first place
  (`NodeLeads`, `EntryLeads`).  The text counts from 1 and the notes from 100001, which
  keeps what is new in one from being shown by the other, hence (3); and headers
  and footers show no word with a position: the record breaker repeats tags and
  text as it came (`Unsaid`).
- *Words shown* (`Telling`), the converse: `Tales` are the position and piece of each
  word a text shows, with each element around it.  Each tale of a page of the
  document that is parsed, the one being made included, is `Known`: the
  element has kept the word, open or ended and not yet stored; or the piece is in the
  pending word and the element `Listens`, that is, is going to be given that word
  when it is indexed; or the cache has the entries.  Indexing a word makes
  what is pending kept (`HeardTells`), and the end of the elements around
  it makes what is kept cached (`StoredTells`); at the end of a document
  whose elements are all closed only the cache is left (`ToldFlushed`).  That
  a piece shown is known (`PieceKnown`) is where the pages come in: the tags of the
  page leave exactly the open elements open (`Paged`), each of which has a
  node (`Held`) that the piece makes listen.  So this needs `Pagination`, and with
  it (2).  The piece is shown at the position of the pending word, and never at 0,
  where a word would not be indexed (`Even`).

**EntryMerge.**  `Walk` is the invariant of all merges: what an iterator has
passed is before what it has not, and after a meeting the two entries that met
are known.  To it each theorem adds what its merge has done so far: what is kept
behind the iterators has a partner (`Partnered`); a document that must be found
either has been, or has all its pairs that meet still ahead (`Ahead`); and what
is kept is exactly what meets something (`Exactly`), for which all that was
passed in one list must be behind what is ahead in the other (`Apart`).  The
last needs that being behind follows the order of entries, which is true of the
merges by entry, document and page and not of those by position.

**Searching.**  A search is a loop around the merges.  `Going` says which merge is
at work and on which lists (`Loop`), what bounds the loops (`Bounds`) and in which
order the criteria come (`Turns`).  Every call of a merge starts it as
`MergeInit` does, and every other step is one of the merge or leaves it alone
(`StepCalls`), so the invariants of `EntryMerge` hold all through a search
(`SearchMerges`).  What a merge leaves, they say; what the lists hold
between two merges is the invariant of each kind of query.

- *Criteria* (`CritLists`): the first list is what the criteria reduced so far
  have in common.  `Crits` numbers the criteria by their rank, and a finite set
  in a total order is numbered by ranks without a gap (`RanksEnumerate`).
- *Phrases* (`PhraseIsSound`): each place of the list reduced last ends a chain of
  places of all terms before it.  The merge with the first list is what keeps
  this true of the documents in the list collected there.  For
  `PhrasesAreFound` (`PhraseIsFound`) an exact merge is not enough, since merges by
  position are not exact.  A place whose only partner stands at the end of its window,
  in a text, is kept with it (`OnlyPair`, `PairsAreKept`), and the places of a
  phrase of different words that stands in a text are such pairs, both for two
  neighbours and for the first and any later one.
- *Boolean queries*: the parser's clauses are the lists of the words it kept, in
  their order, and all required if the words are joined by AND (`Parse`);
  then the list that waits is that of the entries on pages of all clauses so far
  (`BooleanLists`).
- *What is shown*: `Results` and `Highlights` are folds over the result in its
  order.  A fold's function is on all sets of the first `n` numbers; that it exists
  is proved for a step given as a function, going from the sets of the first `k`
  numbers to those of the first `k + 1` (`IterationExists`), and
  a least counterexample (`UpToLast`) takes the place of induction.  The walk
  that shows keeps `Shows`: exactly one entry of each document or page so far, and the
  last one shown is on that of the last one read.  The walk that highlights
  keeps `Marked`: it ends only after the page.

**WordList.**  `Inv` is `TypeOK`, `HalvesAreLeft`, `PlaceIsFound` and that the
word looked for is missing: with it the middle word is never equal to it, and
one half goes with every turn (`MiddleOfHalves`).  A page is a part of the list
(`PageIsPart`), two parts that follow each other are one (`PartsMeet`), and the
last answer is a page of the index as it is, if that has not changed
(`Remembered`, `Latest`).

**Only model-checked:** `EverySearchEnds` and `EveryRequestEnds`, which are
liveness under fairness, which the prover does not do.

## 5. Plan

Done, in this order: the index, on which everything rests; the collection,
which decides what is indexed; the manager; indexing; searches; reading an
index; the proofs of section 4.

Left:

- *Extensions of `Collection`*: titles in the metadata index, kills between
  the puts of `RemoveDocument`;
- *of `DbNdx`*: two-byte header fields.

### Not modelled

- *Several processes.*  The environment has no locking, and Berkeley DB gives
  no meaning to two processes that write it.
- *The wording of things:* how the lexer, the tokenizers and the analysers cut a
  string, what makes a match of a prefix, a wildcard or a fuzzy term; XML and
  XSLT commands; file names; logging.  The models have their results as values.
- *Records that stand alone:* field metadata, and the store of search records.
- *Most lines of the repository.*  Besides the engine, the tree holds unit tests,
  a port of Lucene's query classes of which two search functions are used
  here, wrappers of file systems and time on two platforms, Unicode tables and
  utilities, a console, and web request classes that each call the engine once.
  They keep no state that a property could relate to anything, and the map
  leaves them out.
