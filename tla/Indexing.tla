------------------------------ MODULE Indexing ------------------------------
(***************************************************************************)
(* Indexing the documents of a library: the calls of the SAX parser to one *)
(* IndexerHandler, and what the Indexer, its Adorner, the two decorators   *)
(* and the record breaker make of them.                                    *)
(*                                                                         *)
(* The characters of a document are buffered by a decorator, one for the   *)
(* text and one for the notes.  When an element or a break comes, the      *)
(* buffer is cut into words: each gets a position and is written to the    *)
(* output, and the last one stays pending, as the characters that follow   *)
(* may continue it.  A word is indexed for all the elements around it when *)
(* the next one begins; an element that ends is kept until then in a       *)
(* second list.  A record breaker cuts the output into pages.  The words   *)
(* reach the indexes when the document ends.                               *)
(*                                                                         *)
(* An element stands for its name and attributes: Breaker and Items are    *)
(* what the two configurations say of it.  A word is a sequence of pieces: *)
(* the parts of it that were cut by the end of a buffer.                   *)
(***************************************************************************)
EXTENDS Naturals, Sequences, FiniteSets, SequencesExt

CONSTANTS
    Elem,         \* elements
    Root,         \* the element of the document
    NoteElem,     \* elements "note": their text has a decorator of its own
    NliElem,      \* elements "nli": words do not run through their tags
    Breaker,      \* Breaker[e]: "open", "close" or "store", or "none"
    Items,        \* Items[e]: what is indexed of e: index name and type
    Piece,        \* pieces of words
    Chunk,        \* what one call of characters brings: pieces and spaces
    NeedDecorate, \* length from which a buffer is cut at the next line feed
    Usages,       \* how the handler is used, see below
    MaxDoc,       \* bound on the documents given to one handler
    MaxEvent      \* bound on the tags and chunks of all documents

Spaces == {" ", "\n"}

(***************************************************************************)
(* "content": Collection::IndexDocument with a record breaker, "plain":    *)
(* without one, "meta": IndexDocMeta, with neither pages nor positions:    *)
(* all three make a handler for one document.  "batch": the application    *)
(* (App::ParseDataIndexer) has one handler for all its documents.          *)
(***************************************************************************)
ASSUME UsageAssumption == Usages \subseteq {"content", "plain", "meta", "batch"}
ASSUME ElemAssumption ==
    /\ Root \in Elem /\ NoteElem \subseteq Elem /\ NliElem \subseteq Elem
    /\ Breaker \in [Elem -> {"none", "open", "close", "store"}]
    /\ \A e \in Elem : \A i \in Items[e] : i.typ \in {"word", "field"}
    /\ "bad" \notin Elem
ASSUME TextAssumption == /\ Piece \cap Spaces = {}
                         /\ \A c \in Chunk : c \in Seq(Piece \cup Spaces)
ASSUME BoundAssumption == {NeedDecorate, MaxDoc, MaxEvent} \subseteq Nat

VARIABLES
    ix,      \* the indexer with all it owns, and the databases it fills
    usage,   \* one of Usages
    begun,   \* documents begun
    rooted,  \* the root element of the current document was met
    events,  \* tags and chunks met
    stuck,   \* the record breaker does not return
    done     \* history: documents parsed to the end

vars == <<ix, usage, begun, rooted, events, stuck, done>>

Breaks == usage \in {"content", "batch"}
Storage == usage # "meta"
Keeps == usage = "batch"

\* Where the positions of the notes start.
NotePos == 100000

-----------------------------------------------------------------------------
(***************************************************************************)
(* The indexer: nodes that are open, nodes that are closed and whose last  *)
(* word is pending, and the cache of words.                                *)
(***************************************************************************)
Nowhere == [pge |-> 0, pos |-> 0]

NewNode(e) == [elem |-> e, state |-> "new", words |-> {}, text |-> <<>>,
               start |-> Nowhere, end |-> Nowhere]

Has(n, typ) == \E i \in Items[n.elem] : i.typ = typ

\* A word for all the items of a node: an item keeps the words, or the
\* places of the first and the last one.
Hears(n, wrd, at) ==
    IF n.state = "new" \/ at.pos = 0 THEN n
    ELSE [n EXCEPT !.words = IF Has(n, "word") THEN @ \cup {<<wrd, at>>} ELSE @,
                   !.start = IF Has(n, "field") /\ @ = Nowhere THEN at ELSE @,
                   !.end = IF Has(n, "field") THEN at ELSE @]

IndexerAddWordEntry(s, wrd, at) ==
    [s EXCEPT !.open = [i \in DOMAIN @ |-> Hears(@[i], wrd, at)],
              !.closed = [i \in DOMAIN @ |-> Hears(@[i], wrd, at)]]

IndexerActivateNodes(s) ==
    [s EXCEPT !.open = [i \in DOMAIN @ |-> [@[i] EXCEPT !.state = "active"]]]

\* The text of a field, without the spaces around it.
Trimmed(t) ==
    LET solid == {i \in DOMAIN t : t[i] \notin Spaces}
    IN  IF solid = {} THEN <<>>
        ELSE SubSeq(t, CHOOSE i \in solid : \A j \in solid : i <= j,
                       CHOOSE i \in solid : \A j \in solid : i >= j)

Indexed(ndx, wrd, doc, at) ==
    [ndx |-> ndx, wrd |-> wrd, doc |-> doc, pge |-> at.pge, pos |-> at.pos]

\* StoreNodeToDb of a closed node: its words, and its field if it has one.
NodeEntries(doc, n) ==
    LET field == Trimmed(n.text)
        Named(typ) == {i.ndx : i \in {j \in Items[n.elem] : j.typ = typ}}
    IN  {Indexed(x, w[1], doc, w[2]) : x \in Named("word"), w \in n.words}
        \cup IF field # <<>> /\ n.start.pos # 0 /\ n.end.pos # 0
             THEN {Indexed(x, field, doc, n.start) : x \in Named("field")}
             ELSE {}

\* StoreNodeListToDb(false): the closed nodes go to the cache.
StoreClosedNodes(s) ==
    [s EXCEPT !.cache = @ \cup UNION {NodeEntries(s.doc, s.closed[i]) :
                                        i \in DOMAIN s.closed},
              !.closed = <<>>]

-----------------------------------------------------------------------------
(***************************************************************************)
(* The decorators.                                                         *)
(***************************************************************************)
Cleared == [buf |-> <<>>, isBreak |-> TRUE, out |-> <<>>, at |-> Nowhere,
            wrd |-> <<>>, wrdAt |-> Nowhere]

Current(s) == s.dec[s.cur]

\* The pending word is indexed; without positions it goes to the first one.
IndexWord(s) ==
    LET d == Current(s)
        at == IF Storage THEN d.wrdAt ELSE [d.wrdAt EXCEPT !.pos = 1]
    IN  StoreClosedNodes(
            IF d.wrd = <<>> THEN s
            ELSE [IndexerAddWordEntry(s, d.wrd, at) EXCEPT !.dec[s.cur].wrd = <<>>])

\* Text that is added to the output of the current decorator.
Says(s, item) == IF Storage THEN [s EXCEPT !.dec[s.cur].out = Append(@, item)]
                 ELSE s

\* Mutant: a word that goes on takes the place of its last piece.
AddText_LastPlace(s, p) ==
    LET d == Current(s)
        said == Says(s, <<"w", d.at.pos, p>>)
        next == IF d.at.pos > d.wrdAt.pos /\ d.wrdAt.pos # 0
                THEN IndexWord(said) ELSE said
        placed == [next EXCEPT !.dec[s.cur].wrdAt = d.at]
    IN  [IndexerActivateNodes(placed) EXCEPT !.dec[s.cur].wrd = Append(@, p)]

\* A word: it continues the pending one if it has the same position.
AddText(s, p) ==
    LET d == Current(s)
        said == Says(s, <<"w", d.at.pos, p>>)
        next == IF d.at.pos > d.wrdAt.pos
                THEN [IF d.wrdAt.pos # 0 THEN IndexWord(said) ELSE said
                        EXCEPT !.dec[s.cur].wrdAt = d.at]
                ELSE said
    IN  [IndexerActivateNodes(next) EXCEPT !.dec[s.cur].wrd = Append(@, p)]

\* What the word break iterator gives of a buffer.
DecorateToken(s, t) ==
    IF t \in Spaces
    THEN Says([s EXCEPT !.dec[s.cur].isBreak = TRUE], <<"text", t>>)
    ELSE AddText(IF Current(s).isBreak
                 THEN [s EXCEPT !.dec[s.cur].isBreak = FALSE,
                                !.dec[s.cur].at.pos = @ + 1]
                 ELSE s, t)

DecorateContent(s) ==
    [FoldLeft(DecorateToken, s, Current(s).buf) EXCEPT !.dec[s.cur].buf = <<>>]

AddNode(s, item) == Says(DecorateContent(s), item)

-----------------------------------------------------------------------------
(***************************************************************************)
(* The record breaker: when a page ends, and what is repeated on the next. *)
(***************************************************************************)
NewBreaker == [pge |-> 0, level |-> 0, extra |-> <<>>,
               kept |-> [x \in {} |-> <<>>], header |-> <<>>]

\* mHeader and mExtraContentMap are not reset.
BreakerStartDocument(b) == [b EXCEPT !.pge = 0, !.level = 0, !.extra = <<>>]

\* The first page is not preceded by a break.
BreaksBefore(b, e) == Breaker[e] = "open" /\ b.pge # 0
BreaksAfter(e) == Breaker[e] = "close"

\* ComputeNodeTypBreaker for a tag met at depth n: the opening tag of an
\* element whose content is repeated ...
BreakerOpens(b, e, n) ==
    LET counted == IF Breaker[e] = "open" THEN [b EXCEPT !.pge = @ + 1] ELSE b
    IN  IF Breaker[e] = "store" /\ b.level = 0
        THEN [counted EXCEPT !.level = n, !.extra = Append(@, <<"open", e>>)]
        ELSE counted

(***************************************************************************)
(* ... and its closing tag.  The loop that removes the content of level n  *)
(* and of the levels below restarts at the first level after each removal, *)
(* and steps over it: with no level above n, the second one stays.  If the *)
(* level it removes is the only one, it steps past the end of the map.     *)
(***************************************************************************)
LevelsLeft(levels, n) ==
    LET above == {k \in levels : k < n}
        second == {k \in levels : Cardinality({j \in levels : j < k}) = 1}
    IN  IF above = {} THEN second ELSE above

StepsPastTheEnd(b, e, n) ==
    /\ Breaker[e] = "store" /\ n = b.level
    /\ Cardinality(DOMAIN b.kept) = 1
    /\ \A k \in DOMAIN b.kept : k >= n

BreakerCloses(b, e, n) ==
    LET counted == IF Breaker[e] = "close" THEN [b EXCEPT !.pge = @ + 1] ELSE b
        left == LevelsLeft(DOMAIN b.kept, n)
    IN  IF Breaker[e] = "store" /\ n = b.level
        THEN [counted EXCEPT
                !.level = 0,
                !.extra = <<>>,
                !.kept = [k \in left \cup {n} |->
                            IF k = n THEN Append(b.extra, <<"close", e>>)
                            ELSE b.kept[k]]]
        ELSE counted

Declaration == <<"xml">>

\* GetXmlEnvelope: the header of the next record opens the elements that are
\* open, and repeats what was kept of each level; the footer closes them.
NextHeader(b, stack) ==
    <<Declaration>> \o FlattenSeq([i \in DOMAIN stack |->
        <<<<"open", stack[i]>>>> \o IF i \in DOMAIN b.kept THEN b.kept[i] ELSE <<>>])

Footer(stack) == Reverse([i \in DOMAIN stack |-> <<"close", stack[i]>>])

-----------------------------------------------------------------------------
(***************************************************************************)
(* The adorner.                                                            *)
(***************************************************************************)
Output(s, items) == IF Storage THEN [s EXCEPT !.output = @ \o items] ELSE s

Decorate(s) == LET d == DecorateContent(s)
               IN  [Output(d, Current(d).out) EXCEPT !.dec[s.cur].out = <<>>]

BreakDecorator(s) == IndexWord(Decorate(s))

\* Mutant: the decorator that is left keeps its last word.
SetCurrentDecorator_KeepsWord(s, k) ==
    [IF s.cur = "none" THEN s ELSE Decorate(s) EXCEPT !.cur = k]

SetCurrentDecorator(s, k) ==
    [IF s.cur = "none" THEN s ELSE BreakDecorator(s) EXCEPT !.cur = k]

\* AddDocRecord: the page of the current decorator gets the text.
AddDocRecord(s, text) ==
    LET page == Current(s).at.pge
        pages == s.pages[s.doc]
    IN  IF s.docDb
        THEN [s EXCEPT !.pages[s.doc] = [p \in {page} \cup DOMAIN pages |->
                                            IF p = page THEN text ELSE pages[p]]]
        ELSE s

\* Mutant: a page has the header of the page that follows.
RecordText_NextHeader(s) ==
    NextHeader(s.breaker, s.stack) \o s.output \o Footer(s.stack)

RecordText(s) == s.breaker.header \o s.output \o Footer(s.stack)

NextPage(s) ==
    [s EXCEPT !.dec = [k \in DOMAIN s.dec |-> [s.dec[k] EXCEPT !.at.pge = @ + 1]],
              !.output = <<>>,
              !.breaker.header = NextHeader(s.breaker, s.stack)]

(***************************************************************************)
(* A page ends.  Without a record breaker this is the end of the document. *)
(* A word that has begun and is not followed by a space is indexed, but    *)
(* goes on: what follows has its position, and is indexed on this page.    *)
(***************************************************************************)
BreakRecord(s) ==
    IF Breaks THEN LET cut == BreakDecorator(s)
                   IN  NextPage(AddDocRecord(cut, RecordText(cut)))
    ELSE IF s.docDb THEN [AddDocRecord(s, s.output) EXCEPT !.output = <<>>]
    ELSE s

AdornerStartNode(s, e) ==
    LET turned == IF e \in NoteElem THEN SetCurrentDecorator(s, "note")
                  ELSE IF e \in NliElem THEN BreakDecorator(s) ELSE s
        n == Len(s.stack)
        seen == IF Breaks THEN [turned EXCEPT !.breaker = BreakerOpens(@, e, n)]
                ELSE turned
        broken == IF Breaks /\ BreaksBefore(turned.breaker, e) THEN BreakRecord(seen)
                  ELSE seen
    IN  [AddNode(broken, <<"open", e>>) EXCEPT !.stack = Append(@, e)]

AdornerEndNode(s) ==
    LET e == Last(s.stack)
        told == AddNode([s EXCEPT !.stack = Front(@)], <<"close", e>>)
        turned == IF e \in NoteElem THEN SetCurrentDecorator(told, "main")
                  ELSE IF e \in NliElem THEN BreakDecorator(told) ELSE told
        n == Len(told.stack)
        seen == IF Breaks THEN [turned EXCEPT !.breaker = BreakerCloses(@, e, n)]
                ELSE turned
    IN  IF Breaks /\ BreaksAfter(e) THEN BreakRecord(seen) ELSE seen

\* A buffer that has grown long is cut at a line feed.
NeedsDecorate(s, c) == /\ Len(Current(s).buf) > NeedDecorate
                       /\ \E i \in DOMAIN c : c[i] = "\n"
                       /\ \E i \in DOMAIN c : c[i] \notin Spaces

AdornerAddCharacters(s, c) ==
    LET raw == [i \in DOMAIN c |-> <<"text", c[i]>>]
        more == [s EXCEPT !.dec[s.cur].buf = @ \o c,
                          !.breaker.extra = IF Breaks /\ s.breaker.level # 0
                                            THEN @ \o raw ELSE @]
    IN  IF NeedsDecorate(more, c) THEN Decorate(more) ELSE more

\* The decorators of a document that begins, and its record breaker.
AdornerReset(s, d) ==
    LET main == SetCurrentDecorator([s EXCEPT !.output = <<>>, !.doc = d], "main")
    IN  [main EXCEPT !.dec = [main |-> Cleared,
                              note |-> [Cleared EXCEPT !.at.pos = NotePos]],
                     !.breaker = IF Breaks THEN BreakerStartDocument(@) ELSE @]

AdornerStartDocument(s, d) ==
    LET opened == [AdornerReset(s, d) EXCEPT !.docDb = Storage]
    IN  Output(opened, <<Declaration>>)

\* The last words and the last page, also when the parse failed.
AdornerEndDocument(s) ==
    LET page == BreakRecord(Output(BreakDecorator(s), <<<<"text", "\n">>>>))
    IN  [page EXCEPT !.docDb = FALSE, !.stack = <<>>, !.doc = 0,
                     !.dec = [k \in DOMAIN @ |-> Cleared]]

-----------------------------------------------------------------------------
(***************************************************************************)
(* The calls of the parser.                                                *)
(***************************************************************************)
\* A handler that was never used, and these databases.
NewHandler(pages, words) ==
    [doc |-> 0, cur |-> "none", dec |-> [main |-> Cleared, note |-> Cleared],
     stack |-> <<>>, output |-> <<>>, docDb |-> FALSE, breaker |-> NewBreaker,
     open |-> <<>>, closed |-> <<>>, cache |-> {},
     pages |-> pages, words |-> words]

Init ==
    /\ ix = NewHandler([d \in 1 .. MaxDoc |-> [x \in {} |-> <<>>]], {})
    /\ usage \in Usages
    /\ begun = 0
    /\ rooted = FALSE
    /\ events = 0
    /\ stuck = FALSE
    /\ done = {}

Parsing == ix.doc # 0 /\ ~stuck

\* The document that begins next.  A handler made for one document is not
\* followed further.
IsNext(d) == ix.doc = 0 /\ d = begun + 1 /\ d <= IF Keeps THEN MaxDoc ELSE 1

StartDocument(d) ==
    /\ IsNext(d)
    /\ ix' = [AdornerStartDocument(ix, d) EXCEPT
                !.cache = {}, !.open = <<>>, !.closed = <<>>]
    /\ begun' = d
    /\ rooted' = FALSE
    /\ UNCHANGED <<usage, events, stuck, done>>

\* Mutant: the cache is stored before the adorner ends the document.
Flushed_First(s) ==
    AdornerEndDocument([s EXCEPT !.words = @ \cup s.cache, !.cache = {}])

\* Indexer::EndDocument: the cache is stored and emptied.  Nodes that are
\* still open stay in their list, with their words.
Flushed(s) ==
    LET ended == AdornerEndDocument(s)
    IN  [ended EXCEPT !.words = @ \cup ended.cache, !.cache = {}]

\* The output file cannot be opened: the parse ends before it begins.
StartDocumentFails(d) ==
    /\ IsNext(d)
    /\ Keeps
    /\ ix' = Flushed(AdornerReset(ix, d))
    /\ begun' = d
    /\ UNCHANGED <<usage, rooted, events, stuck, done>>

MoreEvents == Parsing /\ events < MaxEvent /\ events' = events + 1

StartNode(e) ==
    /\ MoreEvents
    /\ IF ix.stack = <<>> THEN e = Root /\ ~rooted ELSE e # Root
    /\ rooted' = TRUE
    /\ ix' = [AdornerStartNode(ix, e) EXCEPT !.open = Append(@, NewNode(e))]
    /\ UNCHANGED <<usage, begun, stuck, done>>

\* Mutant: the node stays in the first list as well.
NodeEnded_StaysOpen(s) ==
    LET told == AdornerEndNode(s)
        last == [Last(told.open) EXCEPT !.state = "close"]
    IN  [told EXCEPT !.closed = Append(@, last)]

\* The node of the element moves to the second list.
NodeEnded(s) ==
    LET told == AdornerEndNode(s)
        last == [Last(told.open) EXCEPT !.state = "close"]
    IN  [told EXCEPT !.open = Front(@), !.closed = Append(@, last)]

EndNode ==
    /\ MoreEvents
    /\ ix.stack # <<>>
    /\ ix' = NodeEnded(ix)
    /\ UNCHANGED <<usage, begun, rooted, stuck, done>>

\* The loop over the kept levels has removed the last one: it never ends with
\* the map of libstdc++, and elsewhere it may as well return.
EndNodeLoops ==
    /\ MoreEvents
    /\ Breaks /\ ix.stack # <<>>
    /\ StepsPastTheEnd(ix.breaker, Last(ix.stack), Len(ix.stack) - 1)
    /\ stuck' = TRUE
    /\ UNCHANGED <<ix, usage, begun, rooted, done>>

\* The nodes that are open note the characters.
Noted(s, c) ==
    LET told == AdornerAddCharacters(s, c)
    IN  [told EXCEPT !.open = [i \in DOMAIN told.open |->
                                 [told.open[i] EXCEPT !.text = @ \o c]]]

Characters(c) ==
    /\ MoreEvents
    /\ ix.stack # <<>>
    /\ ix' = Noted(ix, c)
    /\ UNCHANGED <<usage, begun, rooted, stuck, done>>

\* The parse ends, with the root element, or before on an error.
EndDocument ==
    /\ Parsing
    /\ ix' = Flushed(ix)
    /\ done' = IF rooted /\ ix.stack = <<>> THEN done \cup {ix.doc} ELSE done
    /\ UNCHANGED <<usage, begun, rooted, events, stuck>>

Next ==
    \/ \E d \in 1 .. MaxDoc : StartDocument(d) \/ StartDocumentFails(d)
    \/ \E e \in Elem : StartNode(e)
    \/ EndNode
    \/ EndNodeLoops
    \/ \E c \in Chunk : Characters(c)
    \/ EndDocument

Spec == Init /\ [][Next]_vars

-----------------------------------------------------------------------------
(***************************************************************************)
(* Properties.                                                             *)
(***************************************************************************)
Place == [pge : Nat, pos : Nat]

\* Every document begun has pages and words of its own, the node lists follow
\* the open elements, and a place has no page without a position.
TypeOK ==
    /\ begun \in 0 .. MaxDoc /\ events \in 0 .. MaxEvent
    /\ {stuck, rooted} \subseteq BOOLEAN /\ usage \in Usages /\ done \subseteq 1 .. begun
    /\ ix.cur \in {"none", "main", "note"}
    /\ \A k \in {"main", "note"} : ix.dec[k].at \in Place /\ ix.dec[k].wrdAt \in Place
    /\ \A w \in ix.words \cup ix.cache : w.doc \in 1 .. begun /\ w.pos > 0
    /\ ix.doc # 0 => /\ ix.doc = begun
                     /\ Len(ix.open) = Len(ix.stack)
                     /\ \A i \in DOMAIN ix.stack : ix.open[i].elem = ix.stack[i]

(***************************************************************************)
(* Only the current decorator holds anything, and nothing of a document is *)
(* left for the next one that the indexes or the pages could take up.      *)
(***************************************************************************)
IdleDecoratorIsEmpty ==
    /\ \A k \in {"main", "note"} : k # ix.cur =>
         /\ ix.dec[k].buf = <<>> /\ ix.dec[k].wrd = <<>> /\ ix.dec[k].out = <<>>
    /\ ix.doc = 0 =>
         /\ \A k \in {"main", "note"} : ix.dec[k] = Cleared
         /\ ix.closed = <<>> /\ ix.cache = {} /\ ix.stack = <<>> /\ ix.output = <<>>

-----------------------------------------------------------------------------
\* The elements open after a text, or "bad" if its tags do not nest.
Nesting(text) ==
    LET Tag(open, item) ==
          IF open = <<"bad">> THEN open
          ELSE IF item[1] = "open" THEN Append(open, item[2])
          ELSE IF item[1] # "close" THEN open
          ELSE IF open # <<>> /\ Last(open) = item[2] THEN Front(open)
          ELSE <<"bad">>
    IN  FoldLeft(Tag, <<>>, text)

\* The elements around the i-th item of a text.
Around(text, i) == Range(Nesting(SubSeq(text, 1, i)))

\* The first page of a handler that has parsed another document begins with
\* what that one left in mHeader.
SpoiltByHeader(d, p) == Keeps /\ d > 1 /\ p = 0

(***************************************************************************)
(* Pages are numbered from 0 without a gap, both decorators are on the     *)
(* page that comes next, and every page is a document of its own: it       *)
(* starts with the XML declaration and its tags nest.  Left out are the    *)
(* pages spoilt by the header of another document, and the only page of a  *)
(* document whose parse failed without a record breaker.                   *)
(***************************************************************************)
PagesAreDocuments ==
    /\ ix.dec["main"].at.pge = ix.dec["note"].at.pge
    /\ ix.docDb => DOMAIN ix.pages[ix.doc] = 0 .. ix.dec["main"].at.pge - 1
    /\ \A d \in 1 .. begun : \A p \in DOMAIN ix.pages[d] :
         ~SpoiltByHeader(d, p) /\ (Breaks \/ d \in done \cup {ix.doc}) =>
           /\ Nesting(ix.pages[d][p]) = <<>>
           /\ \A i \in DOMAIN ix.pages[d][p] :
                (ix.pages[d][p][i] = Declaration) <=> i = 1

-----------------------------------------------------------------------------
Words(d, p) == {i \in DOMAIN ix.pages[d][p] : ix.pages[d][p][i][1] = "w"}

\* The pages of document d that show a word at a position.
PagesShowing(d, pos) ==
    {p \in DOMAIN ix.pages[d] : \E i \in Words(d, p) : ix.pages[d][p][i][2] = pos}

(***************************************************************************)
(* An entry of an index leads to the page where its position is first      *)
(* shown, whatever came between the word being read, cut, ended and        *)
(* stored: page breaks, notes, the end of the document or of the parse.    *)
(***************************************************************************)
EntriesLeadToTheirPage ==
    Storage => \A w \in ix.words :
        /\ w.pge \in PagesShowing(w.doc, w.pos)
        /\ \A p \in PagesShowing(w.doc, w.pos) : p >= w.pge

(***************************************************************************)
(* Every word that a page of a parsed document shows inside an element is  *)
(* found at its position in the indexes of the words of that element.      *)
(***************************************************************************)
ShownWordsAreIndexed ==
    \A d \in done : \A p \in DOMAIN ix.pages[d] : \A i \in Words(d, p) :
        \A e \in Around(ix.pages[d][p], i) : \A x \in Items[e] :
            x.typ = "word" /\ ~SpoiltByHeader(d, p) =>
              \E w \in ix.words :
                /\ w.ndx = x.ndx /\ w.doc = d /\ w.pos = ix.pages[d][p][i][2]
                /\ \E k \in DOMAIN w.wrd : w.wrd[k] = ix.pages[d][p][i][3]
=============================================================================
