--------------------------- MODULE IndexingProofs ---------------------------
(***************************************************************************)
(* Proofs about Indexing.                                                  *)
(***************************************************************************)
EXTENDS Indexing, FoldProofs

-----------------------------------------------------------------------------
(***************************************************************************)
(* Types.                                                                  *)
(***************************************************************************)
Text == Piece \cup Spaces

Ndx == {i.ndx : i \in UNION {Items[e] : e \in Elem}}

\* What the output of a decorator and a page consist of.
Word == {"w"} \X Nat \X Piece
Tag == {"open", "close"} \X Elem
Item == Word \cup ({"text"} \X Text) \cup Tag \cup {Declaration}

\* Items by number: the pages of a document, the kept content by level.
Numbered == UNION {[D -> Seq(Item)] : D \in SUBSET Nat}

Dec == [buf : Seq(Text), isBreak : BOOLEAN, out : Seq(Item), at : Place,
        wrd : Seq(Piece), wrdAt : Place]

Node == [elem : Elem, state : {"new", "active", "close"},
         words : SUBSET (Seq(Piece) \X Place), text : Seq(Text),
         start : Place, end : Place]

Entry == [ndx : Ndx, wrd : Seq(Text), doc : Nat, pge : Nat, pos : Nat]

RecordBreaker == [pge : Nat, level : Nat, extra : Seq(Item), kept : Numbered,
                  header : Seq(Item)]

Handler == [doc : 0 .. MaxDoc, cur : {"none", "main", "note"},
            dec : [{"main", "note"} -> Dec],
            stack : Seq(Elem), output : Seq(Item), docDb : BOOLEAN,
            breaker : RecordBreaker, open : Seq(Node), closed : Seq(Node),
            cache : SUBSET Entry, pages : [1 .. MaxDoc -> Numbered],
            words : SUBSET Entry]

\* A handler that has begun a document.
Live == {s \in Handler : s.cur # "none"}

\* Hearing a word changes neither the type of a node nor its element.
LEMMA HearsType ==
    ASSUME NEW n \in Node, NEW wrd \in Seq(Piece), NEW at \in Place
    PROVE  /\ Hears(n, wrd, at) \in Node
           /\ Hears(n, wrd, at).elem = n.elem /\ Hears(n, wrd, at).state = n.state
<1>1. CASE n.state = "new" \/ at.pos = 0
  BY <1>1 DEF Hears
<1>2. CASE ~ (n.state = "new" \/ at.pos = 0)
  <2> DEFINE wds == IF Has(n, "word") THEN n.words \cup {<<wrd, at>>} ELSE n.words
             start == IF Has(n, "field") /\ n.start = Nowhere THEN at ELSE n.start
             end == IF Has(n, "field") THEN at ELSE n.end
  <2>1. Hears(n, wrd, at) = [n EXCEPT !.words = wds, !.start = start, !.end = end]
    BY <1>2 DEF Hears
  <2>2. wds \in SUBSET (Seq(Piece) \X Place) /\ start \in Place /\ end \in Place
    BY DEF Node
  <2> HIDE DEF wds, start, end
  <2> QED
    BY <2>1, <2>2 DEF Node
<1> QED
  BY <1>1, <1>2

\* A text has a first and a last solid character, if any.
LEMMA TrimmedType ==
    ASSUME NEW t \in Seq(Text)
    PROVE  Trimmed(t) \in Seq(Text)
<1> DEFINE solid == {i \in DOMAIN t : t[i] \notin Spaces}
           first == CHOOSE i \in solid : \A j \in solid : i <= j
           last == CHOOSE i \in solid : \A j \in solid : i >= j
<1>1. Trimmed(t) = IF solid = {} THEN <<>> ELSE SubSeq(t, first, last)
  BY Zenon DEF Trimmed
<1>2. CASE solid = {}
  BY <1>1, <1>2, EmptySeq
<1>3. CASE solid # {}
  <2>1. Len(t) \in Nat /\ solid \in SUBSET (1 .. Len(t))
    OBVIOUS
  <2>2. /\ \E i \in solid : \A j \in solid : i <= j
        /\ \E i \in solid : \A j \in solid : i >= j
    BY <1>3, <2>1, EndsExist
  <2>3. first \in solid /\ last \in solid
    BY <2>2, Zenon
  <2> HIDE DEF first, last
  <2>4. first \in 1 .. Len(t) /\ last \in 1 .. Len(t)
    BY <2>1, <2>3
  <2>5. SubSeq(t, first, last) \in Seq(Text)
    BY <2>4, SubSeqProperties
  <2> QED
    BY <1>1, <1>3, <2>5
<1> QED
  BY <1>2, <1>3

\* The entries of a node.
LEMMA NodeEntriesType ==
    ASSUME NEW n \in Node, NEW doc \in Nat
    PROVE  NodeEntries(doc, n) \in SUBSET Entry
<1> DEFINE Named(typ) == {i.ndx : i \in {j \in Items[n.elem] : j.typ = typ}}
           ofWords == {Indexed(x, w[1], doc, w[2]) : x \in Named("word"), w \in n.words}
           ofField == {Indexed(x, Trimmed(n.text), doc, n.start) : x \in Named("field")}
<1>1. \A typ : Named(typ) \subseteq Ndx
  BY DEF Node, Ndx
<1>2. ASSUME NEW x \in Ndx, NEW wrd \in Seq(Text), NEW at \in Place
      PROVE  Indexed(x, wrd, doc, at) \in Entry
  BY DEF Indexed, Entry, Place
<1>3. \A w \in n.words : w[1] \in Seq(Text) /\ w[2] \in Place
  <2>1. \A w \in n.words : w[1] \in Seq(Piece) /\ w[2] \in Place
    BY DEF Node
  <2>2. Seq(Piece) \subseteq Seq(Text)
    BY DEF Text
  <2> QED
    BY <2>1, <2>2
<1>4. Trimmed(n.text) \in Seq(Text) /\ n.start \in Place
  BY TrimmedType DEF Node
<1>5. NodeEntries(doc, n) \in SUBSET (ofWords \cup ofField)
  BY DEF NodeEntries
<1>6. ofWords \in SUBSET Entry
  <2>1. ASSUME NEW x \in Named("word"), NEW w \in n.words
        PROVE  Indexed(x, w[1], doc, w[2]) \in Entry
    BY <1>1, <1>2, <1>3
  <2> QED
    BY <2>1
<1>7. ofField \in SUBSET Entry
  BY <1>1, <1>2, <1>4
<1> QED
  BY <1>5, <1>6, <1>7

\* What helpers that only handle text leave alone: the other decorator, and
\* everything about elements and pages.
Elems(nodes) == [i \in DOMAIN nodes |-> nodes[i].elem]

Alike(s, r) ==
    /\ r.doc = s.doc /\ r.cur = s.cur /\ r.stack = s.stack /\ r.docDb = s.docDb
    /\ r.breaker = s.breaker /\ r.pages = s.pages /\ r.words = s.words
    /\ Elems(r.open) = Elems(s.open)
    /\ \A k \in {"main", "note"} : k # s.cur => r.dec[k] = s.dec[k]

\* A handler whose current decorator is another record.
WithDec(s, d) == [s EXCEPT !.dec = [@ EXCEPT ![s.cur] = d]]

LEMMA WithDecFacts ==
    ASSUME NEW s \in Live, NEW d \in Dec
    PROVE  LET r == WithDec(s, d)
           IN  /\ r \in Live /\ Current(r) = d /\ Alike(s, r)
               /\ r.output = s.output /\ r.open = s.open
               /\ r.closed = s.closed /\ r.cache = s.cache
<1>1. WithDec(s, d) \in Live
  BY DEF Live, Handler, WithDec
<1>2. s.cur \in {"main", "note"} /\ s.dec \in [{"main", "note"} -> Dec]
  BY DEF Live, Handler
<1>3. s \in Handler
  BY DEF Live
<1>4. Current(WithDec(s, d)) = d
  BY <1>2, <1>3 DEF Current, WithDec, Handler
<1>5. Alike(s, WithDec(s, d))
  BY <1>2, <1>3 DEF Alike, WithDec, Handler
<1> QED
  BY <1>1, <1>3, <1>4, <1>5 DEF WithDec, Handler

\* The current decorator is one.
LEMMA CurrentType ==
    ASSUME NEW s \in Live
    PROVE  Current(s) \in Dec /\ s.cur \in {"main", "note"}
BY DEF Live, Handler, Current

LEMMA SaysFacts ==
    ASSUME NEW s \in Live, NEW item \in Item
    PROVE  LET r == Says(s, item)
               d == [Current(s) EXCEPT !.out = IF Storage THEN Append(@, item) ELSE @]
           IN  /\ d \in Dec /\ r \in Live /\ Current(r) = d /\ Alike(s, r)
               /\ r.output = s.output /\ r.open = s.open
               /\ r.closed = s.closed /\ r.cache = s.cache
<1> DEFINE d == [Current(s) EXCEPT !.out = IF Storage THEN Append(@, item) ELSE @]
<1>1. Current(s) \in Dec
  BY CurrentType
<1>2. Append(Current(s).out, item) \in Seq(Item)
  BY <1>1 DEF Dec
<1>3. d \in Dec
  BY <1>1, <1>2 DEF Dec
<1>4. CASE Storage
  <2>1. Says(s, item) = WithDec(s, d)
    BY <1>4 DEF Says, WithDec, Live, Handler, Current
  <2> HIDE DEF d
  <2> QED
    BY <1>3, <2>1, WithDecFacts DEF d
<1>5. CASE ~ Storage
  <2>1. d = Current(s)
    BY <1>1, <1>5 DEF Dec
  <2> QED
    BY <1>3, <1>5, <2>1 DEF Says, Alike
<1> QED
  BY <1>4, <1>5

\* What a node makes of the word that is indexed.
Heard(s, n) ==
    LET d == Current(s)
    IN  IF d.wrd = <<>> THEN n
        ELSE Hears(n, d.wrd, IF Storage THEN d.wrdAt ELSE [d.wrdAt EXCEPT !.pos = 1])

\* What the closed nodes add to the cache then.
NewEntries(s) == UNION {NodeEntries(s.doc, Heard(s, s.closed[i])) : i \in DOMAIN s.closed}

LEMMA HeardType ==
    ASSUME NEW s \in Live, NEW n \in Node
    PROVE  /\ Heard(s, n) \in Node
           /\ Heard(s, n).elem = n.elem /\ Heard(s, n).state = n.state
<1>1. Current(s).wrd \in Seq(Piece) /\ Current(s).wrdAt \in Place
  BY CurrentType DEF Dec
<1>2. [Current(s).wrdAt EXCEPT !.pos = 1] \in Place
  BY <1>1 DEF Place
<1> QED
  BY <1>1, <1>2, HearsType DEF Heard

\* The pending word is indexed: the nodes hear it, those that are closed are
\* stored, and nothing is pending.
LEMMA IndexWordFacts ==
    ASSUME NEW s \in Live
    PROVE  LET r == IndexWord(s)
               d == [Current(s) EXCEPT !.wrd = <<>>]
           IN  /\ d \in Dec /\ r \in Live /\ Current(r) = d /\ Alike(s, r)
               /\ r.output = s.output
               /\ r.open = [i \in DOMAIN s.open |-> Heard(s, s.open[i])]
               /\ r.closed = <<>>
               /\ r.cache = s.cache \cup NewEntries(s)
<1> DEFINE d == [Current(s) EXCEPT !.wrd = <<>>]
           open == [i \in DOMAIN s.open |-> Heard(s, s.open[i])]
           cache == s.cache \cup UNION {NodeEntries(s.doc, Heard(s, s.closed[i])) :
                                                  i \in DOMAIN s.closed}
           at == IF Storage THEN Current(s).wrdAt ELSE [Current(s).wrdAt EXCEPT !.pos = 1]
           r == [WithDec(s, d) EXCEPT !.open = open, !.closed = <<>>, !.cache = cache]
<1>1. /\ Current(s) \in Dec /\ s \in Handler
      /\ s.open \in Seq(Node) /\ s.closed \in Seq(Node) /\ s.cache \in SUBSET Entry
  BY CurrentType DEF Live, Handler
<1>0. s.doc \in Nat
  <2>1. s.doc \in 0 .. MaxDoc /\ MaxDoc \in Nat
    BY BoundAssumption DEF Live, Handler
  <2> QED
    BY <2>1
<1>2. d \in Dec
  BY <1>1, EmptySeq DEF Dec
<1>3. open \in Seq(Node) /\ Elems(open) = Elems(s.open)
  BY <1>1, HeardType DEF Elems
<1>4. cache \in SUBSET Entry
  <2>1. ASSUME NEW i \in DOMAIN s.closed
        PROVE  NodeEntries(s.doc, Heard(s, s.closed[i])) \in SUBSET Entry
    <3>1. s.closed[i] \in Node
      BY <1>1
    <3> QED
      BY <1>0, <3>1, HeardType, NodeEntriesType
  <2> QED
    BY <1>1, <2>1
<1>5. IndexWord(s) = r
  <2>1. CASE Current(s).wrd = <<>>
    <3>1. d = Current(s)
      BY <1>1, <2>1 DEF Dec
    <3>2. WithDec(s, d) = s
      BY <1>1, <3>1 DEF WithDec, Handler, Current
    <3>3. \A n : Heard(s, n) = n
      BY <2>1 DEF Heard
    <3>4. open = s.open
      BY <1>1, <3>3
    <3>5. IndexWord(s) = StoreClosedNodes(s)
      BY <2>1 DEF IndexWord
    <3>6. StoreClosedNodes(s) = [s EXCEPT !.closed = <<>>, !.cache = cache]
      <4>1. StoreClosedNodes(s) = [s EXCEPT !.closed = <<>>, !.cache =
                s.cache \cup UNION {NodeEntries(s.doc, s.closed[i]) : i \in DOMAIN s.closed}]
        BY DEF StoreClosedNodes
      <4>2. \A i : NodeEntries(s.doc, s.closed[i]) = NodeEntries(s.doc, Heard(s, s.closed[i]))
        BY <3>3
      <4>3. UNION {NodeEntries(s.doc, s.closed[i]) : i \in DOMAIN s.closed}
              = UNION {NodeEntries(s.doc, Heard(s, s.closed[i])) : i \in DOMAIN s.closed}
        BY <4>2
      <4> QED
        BY <4>1, <4>3
    <3> HIDE DEF d, open, cache
    <3>7. [s EXCEPT !.open = open, !.closed = <<>>, !.cache = cache]
             = [s EXCEPT !.closed = <<>>, !.cache = cache]
      BY <1>1, <3>4 DEF Handler
    <3> QED
      BY <3>2, <3>5, <3>6, <3>7
  <2>2. CASE Current(s).wrd # <<>>
    <3> DEFINE q == [IndexerAddWordEntry(s, Current(s).wrd, at) EXCEPT !.dec[s.cur].wrd = <<>>]
    <3>1. IndexWord(s) = StoreClosedNodes(q)
      BY <2>2 DEF IndexWord
    <3>2. \A n : Heard(s, n) = Hears(n, Current(s).wrd, at)
      BY <2>2 DEF Heard
    <3> DEFINE closed == [i \in DOMAIN s.closed |-> Heard(s, s.closed[i])]
    <3>3. IndexerAddWordEntry(s, Current(s).wrd, at) = [s EXCEPT !.open = open, !.closed = closed]
      <4>1. IndexerAddWordEntry(s, Current(s).wrd, at) =
                [s EXCEPT !.open = [i \in DOMAIN s.open |-> Hears(s.open[i], Current(s).wrd, at)],
                          !.closed = [i \in DOMAIN s.closed |->
                                        Hears(s.closed[i], Current(s).wrd, at)]]
        BY DEF IndexerAddWordEntry
      <4>2. /\ [i \in DOMAIN s.open |-> Hears(s.open[i], Current(s).wrd, at)] = open
            /\ [i \in DOMAIN s.closed |-> Hears(s.closed[i], Current(s).wrd, at)] = closed
        BY <3>2
      <4> QED
        BY <4>1, <4>2
    <3>4. q = [[s EXCEPT !.open = open, !.closed = closed] EXCEPT !.dec[s.cur].wrd = <<>>]
      BY <3>3, Zenon
    <3> HIDE DEF q, open, closed, at
    <3>5. q = [WithDec(s, d) EXCEPT !.open = open, !.closed = closed]
      BY <1>1, <3>4 DEF WithDec, Handler, Current
    <3> HIDE DEF d
    <3>6. q.closed = closed /\ q.cache = s.cache /\ q.doc = s.doc
      BY <1>1, <3>5 DEF WithDec, Handler
    <3>7. StoreClosedNodes(q) = [q EXCEPT !.closed = <<>>, !.cache =
              s.cache \cup UNION {NodeEntries(s.doc, closed[i]) : i \in DOMAIN closed}]
      BY <3>6 DEF StoreClosedNodes
    <3>8. UNION {NodeEntries(s.doc, closed[i]) : i \in DOMAIN closed}
             = UNION {NodeEntries(s.doc, Heard(s, s.closed[i])) : i \in DOMAIN s.closed}
      BY DEF closed
    <3> HIDE DEF cache
    <3>9. StoreClosedNodes(q) = [q EXCEPT !.closed = <<>>, !.cache = cache]
      BY <3>7, <3>8 DEF cache
    <3> QED
      BY <1>1, <3>1, <3>5, <3>9 DEF Handler, WithDec
  <2> QED
    BY <2>1, <2>2
<1>6. /\ WithDec(s, d) \in Live /\ Current(WithDec(s, d)) = d /\ Alike(s, WithDec(s, d))
      /\ WithDec(s, d).output = s.output
  BY <1>2, WithDecFacts
<1> HIDE DEF d, open, cache
<1>7. r \in Live
  BY <1>3, <1>4, <1>6, EmptySeq DEF Live, Handler
<1>8. Current(r) = d /\ Alike(s, r) /\ r.output = s.output
  BY <1>3, <1>6 DEF Live, Handler, Current, Alike
<1>9. r.open = open /\ r.closed = <<>> /\ r.cache = cache
  BY <1>6 DEF Live, Handler
<1> QED
  BY <1>2, <1>5, <1>7, <1>8, <1>9 DEF d, open, cache, NewEntries

\* All open nodes become active.
LEMMA ActivatedFacts ==
    ASSUME NEW s \in Live
    PROVE  LET r == IndexerActivateNodes(s)
           IN  /\ r \in Live /\ Current(r) = Current(s) /\ Alike(s, r)
               /\ r.output = s.output
               /\ r.open = [i \in DOMAIN s.open |-> [s.open[i] EXCEPT !.state = "active"]]
               /\ r.closed = s.closed /\ r.cache = s.cache
<1> DEFINE open == [i \in DOMAIN s.open |-> [s.open[i] EXCEPT !.state = "active"]]
           r == [s EXCEPT !.open = open]
<1>1. s \in Handler /\ s.cur # "none" /\ s.open \in Seq(Node)
  BY DEF Live, Handler
<1>2. open \in Seq(Node) /\ Elems(open) = Elems(s.open)
  <2>1. ASSUME NEW n \in Node
        PROVE  [n EXCEPT !.state = "active"] \in Node /\ [n EXCEPT !.state = "active"].elem = n.elem
    BY DEF Node
  <2>2. \A i \in DOMAIN s.open : open[i] \in Node /\ open[i].elem = s.open[i].elem
    BY <1>1, <2>1
  <2>3. Elems(open) = Elems(s.open)
    BY <2>2 DEF Elems
  <2> QED
    BY <1>1, <2>1, <2>3
<1>3. IndexerActivateNodes(s) = r
  BY DEF IndexerActivateNodes
<1> HIDE DEF open
<1>4. r \in Live
  BY <1>1, <1>2 DEF Live, Handler
<1>5. Current(r) = Current(s) /\ Alike(s, r)
  BY <1>1, <1>2 DEF Handler, Current, Alike
<1> QED
  BY <1>1, <1>3, <1>4, <1>5 DEF Handler, open

\* A word is added: the pending one is indexed before, if the new one has a
\* position of its own.
Indexes(d) == d.at.pos > d.wrdAt.pos /\ d.wrdAt.pos # 0

WithWord(d, p) ==
    [d EXCEPT !.out = IF Storage THEN Append(@, <<"w", d.at.pos, p>>) ELSE @,
              !.wrdAt = IF d.at.pos > @.pos THEN d.at ELSE @,
              !.wrd = Append(IF Indexes(d) THEN <<>> ELSE @, p)]

LEMMA AddTextFacts ==
    ASSUME NEW s \in Live, NEW p \in Piece
    PROVE  LET r == AddText(s, p)
               d == Current(s)
           IN  /\ WithWord(d, p) \in Dec
               /\ r \in Live /\ Current(r) = WithWord(d, p) /\ Alike(s, r)
               /\ r.output = s.output
               /\ r.open = [i \in DOMAIN s.open |->
                     [IF Indexes(d) THEN Heard(s, s.open[i]) ELSE s.open[i]
                        EXCEPT !.state = "active"]]
               /\ r.closed = IF Indexes(d) THEN <<>> ELSE s.closed
               /\ r.cache = s.cache \cup IF Indexes(d) THEN NewEntries(s) ELSE {}
<1> DEFINE d == Current(s)
           item == <<"w", d.at.pos, p>>
           said == Says(s, item)
           base == IF Indexes(d) THEN IndexWord(said) ELSE said
           next == IF d.at.pos > d.wrdAt.pos THEN [base EXCEPT !.dec[s.cur].wrdAt = d.at]
                   ELSE said
           acted == IndexerActivateNodes(next)
           r == [acted EXCEPT !.dec[s.cur].wrd = Append(@, p)]
<1>1. d \in Dec /\ d.at \in Place /\ d.at.pos \in Nat
  BY CurrentType DEF Dec, Place
<1>2. item \in Item
  BY <1>1 DEF Item, Word
<1>3. said \in Live /\ Alike(s, said) /\ said.output = s.output /\ said.open = s.open
      /\ said.closed = s.closed /\ said.cache = s.cache
      /\ Current(said) = [d EXCEPT !.out = IF Storage THEN Append(@, item) ELSE @]
  BY <1>2, SaysFacts
<1>4. Current(said).wrd = d.wrd /\ Current(said).wrdAt = d.wrdAt /\ said.doc = s.doc
  BY <1>1, <1>3 DEF Dec, Alike
<1>5. /\ \A n : Heard(said, n) = Heard(s, n)
      /\ NewEntries(said) = NewEntries(s)
  <2>1. \A n : Heard(said, n) = Heard(s, n)
    BY <1>4 DEF Heard
  <2>2. \A i : NodeEntries(said.doc, Heard(said, said.closed[i]))
                 = NodeEntries(s.doc, Heard(s, s.closed[i]))
    BY <1>3, <1>4, <2>1
  <2> QED
    BY <1>3, <2>1, <2>2 DEF NewEntries
<1> HIDE DEF item, said
<1>6. /\ base \in Live /\ Alike(s, base) /\ base.output = s.output
      /\ base.open = [i \in DOMAIN s.open |-> IF Indexes(d) THEN Heard(s, s.open[i])
                                              ELSE s.open[i]]
      /\ base.closed = IF Indexes(d) THEN <<>> ELSE s.closed
      /\ base.cache = s.cache \cup IF Indexes(d) THEN NewEntries(s) ELSE {}
      /\ Current(base) = [d EXCEPT !.out = IF Storage THEN Append(@, item) ELSE @,
                                   !.wrd = IF Indexes(d) THEN <<>> ELSE @]
  <2>1. CASE Indexes(d)
    <3> DEFINE q == IndexWord(said)
    <3>1. /\ q \in Live /\ Current(q) = [Current(said) EXCEPT !.wrd = <<>>] /\ Alike(said, q)
          /\ q.output = said.output
          /\ q.open = [i \in DOMAIN said.open |-> Heard(said, said.open[i])]
          /\ q.closed = <<>>
          /\ q.cache = said.cache \cup NewEntries(said)
      BY <1>3, IndexWordFacts
    <3>2. base = q
      BY <2>1
    <3> HIDE DEF q, base
    <3>3. q.open = [i \in DOMAIN s.open |-> Heard(s, s.open[i])]
      BY <1>3, <1>5, <3>1
    <3>4. Current(q) = [d EXCEPT !.out = IF Storage THEN Append(@, item) ELSE @, !.wrd = <<>>]
      BY <1>1, <1>3, <3>1 DEF Dec
    <3>5. Alike(s, q)
      BY <1>3, <3>1 DEF Alike
    <3> QED
      BY <1>3, <1>5, <2>1, <3>1, <3>2, <3>3, <3>4, <3>5
  <2>2. CASE ~ Indexes(d)
    <3>1. base = said
      BY <2>2
    <3>2. s.open = [i \in DOMAIN s.open |-> s.open[i]]
      BY DEF Live, Handler
    <3>3. Current(said) = [d EXCEPT !.out = IF Storage THEN Append(@, item) ELSE @,
                                    !.wrd = IF Indexes(d) THEN <<>> ELSE @]
      BY <1>1, <1>3, <2>2 DEF Dec
    <3> QED
      BY <1>3, <2>2, <3>1, <3>2, <3>3
  <2> QED
    BY <2>1, <2>2
<1>7. d.at.pos <= d.wrdAt.pos => base = said
  BY <1>1 DEF Indexes, Dec, Place
<1> HIDE DEF base
<1> DEFINE placed == [Current(base) EXCEPT !.wrdAt = IF d.at.pos > @.pos THEN d.at ELSE @]
<1>8. placed \in Dec /\ Current(base) \in Dec
  BY <1>1, <1>6, CurrentType DEF Dec
<1>9. /\ next \in Live /\ Alike(s, next) /\ next.output = s.output
      /\ next.open = base.open /\ next.closed = base.closed /\ next.cache = base.cache
      /\ Current(next) = placed
  <2>0. /\ Current(base).wrdAt = d.wrdAt /\ base.cur = s.cur /\ base \in Handler
        /\ s.cur \in {"main", "note"}
    BY <1>1, <1>6, CurrentType DEF Dec, Alike, Live
  <2>1. next = WithDec(base, placed)
    <3>1. CASE d.at.pos > d.wrdAt.pos
      BY <2>0, <3>1 DEF WithDec, Handler, Current
    <3>2. CASE ~ (d.at.pos > d.wrdAt.pos)
      <4>1. next = base
        BY <1>1, <1>7, <3>2 DEF Dec, Place
      <4>2. placed = Current(base)
        BY <1>8, <2>0, <3>2 DEF Dec
      <4> HIDE DEF placed, next
      <4> QED
        BY <2>0, <4>1, <4>2 DEF WithDec, Handler, Current
    <3> QED
      BY <3>1, <3>2
  <2> HIDE DEF next, placed
  <2>2. /\ WithDec(base, placed) \in Live /\ Current(WithDec(base, placed)) = placed
        /\ Alike(base, WithDec(base, placed))
        /\ WithDec(base, placed).output = base.output
        /\ WithDec(base, placed).open = base.open
        /\ WithDec(base, placed).closed = base.closed
        /\ WithDec(base, placed).cache = base.cache
    BY <1>6, <1>8, WithDecFacts
  <2>3. Alike(s, WithDec(base, placed))
    BY <1>6, <2>2 DEF Alike
  <2> QED
    BY <1>6, <2>1, <2>2, <2>3
<1> HIDE DEF next
<1>10. /\ acted \in Live /\ Current(acted) = placed /\ Alike(next, acted)
       /\ acted.output = s.output
       /\ acted.open = [i \in DOMAIN next.open |-> [next.open[i] EXCEPT !.state = "active"]]
       /\ acted.closed = base.closed /\ acted.cache = base.cache
  BY <1>9, ActivatedFacts
<1> HIDE DEF acted
<1>11. Alike(s, acted) /\ acted.cur = s.cur
  BY <1>9, <1>10 DEF Alike
<1>12. acted.open = [i \in DOMAIN s.open |->
                     [IF Indexes(d) THEN Heard(s, s.open[i]) ELSE s.open[i]
                        EXCEPT !.state = "active"]]
  <2>1. DOMAIN next.open = DOMAIN s.open
    BY <1>6, <1>9
  <2>2. ASSUME NEW i \in DOMAIN s.open
        PROVE  next.open[i] = IF Indexes(d) THEN Heard(s, s.open[i]) ELSE s.open[i]
    BY <1>6, <1>9
  <2> HIDE DEF d
  <2> QED
    BY <1>10, <2>1, <2>2
<1> DEFINE full == [placed EXCEPT !.wrd = Append(@, p)]
<1>13. full = WithWord(d, p) /\ full \in Dec
  <2>1. full \in Dec
    <3> HIDE DEF placed
    <3>1. Append(placed.wrd, p) \in Seq(Piece)
      BY <1>8 DEF Dec
    <3> QED
      BY <1>8, <3>1 DEF Dec
  <2>2. full = WithWord(d, p)
    BY <1>1, <1>6 DEF WithWord, Dec, item
  <2> QED
    BY <2>1, <2>2
<1> HIDE DEF placed
<1>14. r = WithDec(acted, full)
  BY <1>10, <1>11 DEF WithDec, Live, Handler, Current
<1> HIDE DEF full
<1>15. /\ WithDec(acted, full) \in Live /\ Current(WithDec(acted, full)) = full
       /\ Alike(acted, WithDec(acted, full))
       /\ WithDec(acted, full).output = acted.output
       /\ WithDec(acted, full).open = acted.open
       /\ WithDec(acted, full).closed = acted.closed
       /\ WithDec(acted, full).cache = acted.cache
  BY <1>10, <1>13, WithDecFacts
<1>16. Alike(s, WithDec(acted, full))
  BY <1>11, <1>15 DEF Alike
<1>17. AddText(s, p) = r
  BY DEF AddText, r, acted, next, base, said, item, Indexes
<1> HIDE DEF r, d
<1> QED
  BY <1>6, <1>10, <1>12, <1>13, <1>14, <1>15, <1>16, <1>17 DEF d

\* What a token makes of the current decorator: a word that follows a space
\* has the next position.
Started(d) ==
    IF d.isBreak THEN [d EXCEPT !.isBreak = FALSE, !.at.pos = @ + 1] ELSE d

WithSpace(d, t) ==
    [d EXCEPT !.isBreak = TRUE, !.out = IF Storage THEN Append(@, <<"text", t>>) ELSE @]

\* A space only goes to the output ...
LEMMA SpaceFacts ==
    ASSUME NEW s \in Live, NEW t \in Spaces
    PROVE  LET r == DecorateToken(s, t)
           IN  /\ WithSpace(Current(s), t) \in Dec
               /\ r \in Live /\ Current(r) = WithSpace(Current(s), t) /\ Alike(s, r)
               /\ r.output = s.output /\ r.open = s.open
               /\ r.closed = s.closed /\ r.cache = s.cache
<1> DEFINE d == [Current(s) EXCEPT !.isBreak = TRUE]
           q == WithDec(s, d)
           item == <<"text", t>>
<1>1. Current(s) \in Dec
  BY CurrentType
<1>2. d \in Dec
  BY <1>1 DEF Dec
<1>3. item \in Item
  BY DEF Item, Text
<1>4. DecorateToken(s, t) = Says(q, item)
  BY DEF DecorateToken, WithDec, Current, Live, Handler
<1> HIDE DEF d
<1>5. /\ q \in Live /\ Current(q) = d /\ Alike(s, q) /\ q.output = s.output
      /\ q.open = s.open /\ q.closed = s.closed /\ q.cache = s.cache
  BY <1>2, WithDecFacts
<1> HIDE DEF q, item
<1> DEFINE e == [Current(q) EXCEPT !.out = IF Storage THEN Append(@, item) ELSE @]
           r == Says(q, item)
<1>6. /\ e \in Dec /\ r \in Live /\ Current(r) = e /\ Alike(q, r)
      /\ r.output = q.output /\ r.open = q.open
      /\ r.closed = q.closed /\ r.cache = q.cache
  BY <1>3, <1>5, SaysFacts
<1>7. e = WithSpace(Current(s), t)
  BY <1>1, <1>5 DEF WithSpace, Dec, d, item
<1> HIDE DEF e, r
<1>8. Alike(s, r)
  BY <1>5, <1>6 DEF Alike
<1> QED
  BY <1>4, <1>5, <1>6, <1>7, <1>8 DEF r

\* ... and a piece of a word is added to the word that is pending, or to a new
\* one.
LEMMA PieceFacts ==
    ASSUME NEW s \in Live, NEW p \in Piece
    PROVE  LET r == DecorateToken(s, p)
               d == Started(Current(s))
           IN  /\ d \in Dec /\ WithWord(d, p) \in Dec
               /\ r \in Live /\ Current(r) = WithWord(d, p) /\ Alike(s, r)
               /\ r.output = s.output
               /\ r.open = [i \in DOMAIN s.open |->
                     [IF Indexes(d) THEN Heard(s, s.open[i]) ELSE s.open[i]
                        EXCEPT !.state = "active"]]
               /\ r.closed = IF Indexes(d) THEN <<>> ELSE s.closed
               /\ r.cache = s.cache \cup IF Indexes(d) THEN NewEntries(s) ELSE {}
<1> DEFINE d == Started(Current(s))
           q == WithDec(s, d)
           r == AddText(q, p)
<1>1. Current(s) \in Dec /\ p \notin Spaces
  BY CurrentType, TextAssumption
<1>2. d \in Dec /\ d.wrd = Current(s).wrd /\ d.wrdAt = Current(s).wrdAt
  <2>1. Current(s).at \in [pge : Nat, pos : Nat]
    BY <1>1 DEF Dec, Place
  <2>2. [Current(s).at EXCEPT !.pos = @ + 1] \in Place
    BY <2>1 DEF Place
  <2>3. CASE Current(s).isBreak
    <3>1. d = [Current(s) EXCEPT !.isBreak = FALSE, !.at = [Current(s).at EXCEPT !.pos = @ + 1]]
      BY <1>1, <2>3 DEF Started, Dec
    <3> QED
      BY <1>1, <2>2, <3>1 DEF Dec
  <2> QED
    BY <1>1, <2>3 DEF Started
<1>3. DecorateToken(s, p) = r
  <2>1. q = IF Current(s).isBreak
            THEN [s EXCEPT !.dec[s.cur].isBreak = FALSE, !.dec[s.cur].at.pos = @ + 1]
            ELSE s
    <3>0. s \in Handler /\ s.cur \in {"main", "note"}
      BY CurrentType DEF Live
    <3>1. CASE Current(s).isBreak
      BY <1>1, <3>0, <3>1 DEF WithDec, Started, Current, Handler, Dec, Place
    <3>2. CASE ~ Current(s).isBreak
      BY <1>1, <3>0, <3>2 DEF WithDec, Started, Current, Handler
    <3> QED
      BY <3>1, <3>2
  <2> QED
    BY <1>1, <2>1 DEF DecorateToken
<1> HIDE DEF d
<1>4. /\ q \in Live /\ Current(q) = d /\ Alike(s, q) /\ q.output = s.output
      /\ q.open = s.open /\ q.closed = s.closed /\ q.cache = s.cache
  BY <1>2, WithDecFacts
<1>5. /\ \A n : Heard(q, n) = Heard(s, n)
      /\ NewEntries(q) = NewEntries(s)
  <2>1. \A n : Heard(q, n) = Heard(s, n)
    BY <1>2, <1>4 DEF Heard
  <2>2. \A i : NodeEntries(q.doc, Heard(q, q.closed[i]))
                 = NodeEntries(s.doc, Heard(s, s.closed[i]))
    BY <1>4, <2>1 DEF Alike
  <2> QED
    BY <1>4, <2>1, <2>2 DEF NewEntries
<1> HIDE DEF q
<1>6. /\ WithWord(d, p) \in Dec
      /\ r \in Live /\ Current(r) = WithWord(d, p) /\ Alike(q, r)
      /\ r.output = q.output
      /\ r.open = [i \in DOMAIN q.open |->
            [IF Indexes(d) THEN Heard(q, q.open[i]) ELSE q.open[i]
               EXCEPT !.state = "active"]]
      /\ r.closed = IF Indexes(d) THEN <<>> ELSE q.closed
      /\ r.cache = q.cache \cup IF Indexes(d) THEN NewEntries(q) ELSE {}
  BY <1>4, AddTextFacts
<1> HIDE DEF r
<1>7. Alike(s, r)
  BY <1>4, <1>6 DEF Alike
<1>8. r.open = [i \in DOMAIN s.open |->
            [IF Indexes(d) THEN Heard(s, s.open[i]) ELSE s.open[i]
               EXCEPT !.state = "active"]]
  BY <1>4, <1>5, <1>6
<1> QED
  BY <1>2, <1>3, <1>4, <1>5, <1>6, <1>7, <1>8 DEF d

-----------------------------------------------------------------------------
(***************************************************************************)
(* A buffer is decorated token by token.                                   *)
(***************************************************************************)
\* Every token leaves a handler with the same current decorator.
LEMMA TokenType ==
    ASSUME NEW s \in Live, NEW t \in Text
    PROVE  DecorateToken(s, t) \in Live /\ DecorateToken(s, t).cur = s.cur
<1>1. CASE t \in Spaces
  BY <1>1, SpaceFacts DEF Alike
<1>2. CASE t \in Piece
  BY <1>2, PieceFacts DEF Alike
<1> QED
  BY <1>1, <1>2 DEF Text

\* The fold over a buffer, as the function that its definition chooses.
LEMMA TokensIterate ==
    ASSUME NEW s, NEW buf
    PROVE  FoldLeft(DecorateToken, s, buf) =
               (CHOOSE f : f = [S \in SUBSET DOMAIN buf |->
                   IF S = {} THEN s ELSE DecorateToken(f[S \ {Max(S)}], buf[Max(S)])])[DOMAIN buf]
  BY Zenon DEF FoldLeft, MapThenFoldSet

\* A decorated buffer is a walk over its tokens, one step for each.
LEMMA TokensWalk ==
    ASSUME NEW s \in Live, NEW n \in Nat, NEW buf \in [1 .. n -> Text]
    PROVE  \E w \in [0 .. n -> Live] :
               /\ w[0] = s
               /\ \A k \in 0 .. n - 1 : w[k + 1] = DecorateToken(w[k], buf[k + 1])
               /\ FoldLeft(DecorateToken, s, buf) = w[n]
<1> DEFINE A == Live
           G == [q \in A \X (1 .. n) |-> DecorateToken(q[1], buf[q[2]])]
           F == CHOOSE f : f = [S \in SUBSET DOMAIN buf |->
                    IF S = {} THEN s ELSE DecorateToken(f[S \ {Max(S)}], buf[Max(S)])]
           w == [k \in 0 .. n |-> F[1 .. k]]
<1>1. DOMAIN buf = 1 .. n
  OBVIOUS
<1>2. FoldLeft(DecorateToken, s, buf) = F[1 .. n]
  <2>1. FoldLeft(DecorateToken, s, buf) = F[DOMAIN buf]
    BY TokensIterate, Zenon
  <2> QED
    BY <1>1, <2>1
<1> HIDE DEF F
<1>3. ASSUME NEW q \in A, NEW i \in 1 .. n
      PROVE  DecorateToken(q, buf[i]) \in A
  BY TokenType
<1>4. G \in [A \X (1 .. n) -> A]
  BY <1>3
<1>6. PICK f \in [SUBSET (1 .. n) -> A] : \A S \in SUBSET (1 .. n) :
               f[S] = IF S = {} THEN s ELSE G[<<f[S \ {Max(S)}], Max(S)>>]
  <2>1. s \in A
    OBVIOUS
  <2> HIDE DEF A, G
  <2>2. Iterations(n, A, s, G) # {}
    BY <1>4, <2>1, IterationExists
  <2> QED
    BY <2>2 DEF Iterations
<1>7. f = [S \in SUBSET DOMAIN buf |->
              IF S = {} THEN s ELSE DecorateToken(f[S \ {Max(S)}], buf[Max(S)])]
  <2> SUFFICES ASSUME NEW S \in SUBSET (1 .. n), S # {}
               PROVE  f[S] = DecorateToken(f[S \ {Max(S)}], buf[Max(S)])
    BY <1>1, <1>6
  <2>1. Max(S) \in 1 .. n
    BY MaxIsMember
  <2>2. f[S \ {Max(S)}] \in A
    BY <1>6
  <2>3. f[S] = G[<<f[S \ {Max(S)}], Max(S)>>]
    BY <1>6
  <2> QED
    BY <2>1, <2>2, <2>3
<1>8. F = [S \in SUBSET DOMAIN buf |->
              IF S = {} THEN s ELSE DecorateToken(F[S \ {Max(S)}], buf[Max(S)])]
  BY <1>7, Zenon DEF F
<1>9. w[0] = s /\ w[n] = F[1 .. n]
  <2>1. 1 .. 0 = {} /\ 1 .. 0 \in SUBSET (1 .. n)
    OBVIOUS
  <2>2. F[1 .. 0] = s
    BY <1>1, <1>8, <2>1
  <2> QED
    BY <2>2
<1>10. ASSUME NEW k \in 0 .. n - 1
       PROVE  w[k + 1] = DecorateToken(w[k], buf[k + 1])
  <2>1. k \in Nat /\ k + 1 \in 1 .. k + 1 /\ k \in 0 .. n /\ k + 1 \in 0 .. n
    OBVIOUS
  <2>2. \A i \in 1 .. k + 1 : i \in 1 .. n
    BY <2>1
  <2>5. (1 .. k + 1) \ {k + 1} = 1 .. k
    BY <2>1
  <2>3. Max(1 .. k + 1) = k + 1
    BY <2>1, LastIsMax
  <2>4. F[1 .. k + 1] = DecorateToken(F[1 .. k], buf[k + 1])
    BY <1>1, <1>8, <2>1, <2>2, <2>3, <2>5
  <2> QED
    BY <2>1, <2>4
<1> HIDE DEF w
<1>11. w \in [0 .. n -> A]
  <2> DEFINE T == {k \in 0 .. n : w[k] \in A}
  <2>1. 0 \in T
    BY <1>9
  <2>2. ASSUME NEW k \in 0 .. n - 1, k \in T
        PROVE  k + 1 \in T
    <3>1. k + 1 \in 0 .. n /\ k + 1 \in 1 .. n
      OBVIOUS
    <3> QED
      BY <1>3, <1>10, <2>2, <3>1
  <2> HIDE DEF T
  <2>3. \A k \in 0 .. n : k \in T
    BY <2>1, <2>2, UpToLast
  <2> QED
    BY <2>3 DEF T, w
<1> QED
  BY <1>2, <1>9, <1>10, <1>11, Zenon

\* What every token carries from one set of handlers to the next, the whole
\* buffer carries to the last.
LEMMA ContentKeeps ==
    ASSUME NEW s \in Live, NEW Q, s \in Q[0],
           \A k \in 0 .. Len(Current(s).buf) - 1 : \A r \in Live :
               r.cur = s.cur /\ r \in Q[k] =>
                   DecorateToken(r, Current(s).buf[k + 1]) \in Q[k + 1]
    PROVE  \E r \in Live :
               /\ r.cur = s.cur /\ r \in Q[Len(Current(s).buf)]
               /\ [Current(r) EXCEPT !.buf = <<>>] \in Dec
               /\ DecorateContent(s) = WithDec(r, [Current(r) EXCEPT !.buf = <<>>])
<1> DEFINE buf == Current(s).buf
           n == Len(buf)
<1>1. n \in Nat /\ buf \in [1 .. n -> Text]
  BY CurrentType DEF Dec
<1> HIDE DEF buf, n
<1>2. PICK w \in [0 .. n -> Live] :
               /\ w[0] = s
               /\ \A k \in 0 .. n - 1 : w[k + 1] = DecorateToken(w[k], buf[k + 1])
               /\ FoldLeft(DecorateToken, s, buf) = w[n]
  BY <1>1, TokensWalk
<1> DEFINE T == {k \in 0 .. n : w[k] \in Live /\ w[k].cur = s.cur /\ w[k] \in Q[k]}
<1>3. 0 \in T
  BY <1>1, <1>2
<1>4. ASSUME NEW k \in 0 .. n - 1, k \in T
      PROVE  k + 1 \in T
  <2>1. k + 1 \in 0 .. n /\ k + 1 \in 1 .. n
    BY <1>1
  <2>2. w[k + 1] \in Live /\ w[k + 1].cur = s.cur
    BY <1>1, <1>2, <1>4, <2>1, TokenType
  <2>3. w[k + 1] \in Q[k + 1]
    BY <1>2, <1>4 DEF n, buf
  <2> QED
    BY <2>1, <2>2, <2>3
<1> HIDE DEF T
<1>5. \A k \in 0 .. n : k \in T
  BY <1>1, <1>3, <1>4, UpToLast
<1>6. n \in 0 .. n
  BY <1>1
<1> DEFINE r == w[n]
<1>7. r \in Live /\ r.cur = s.cur /\ r \in Q[n]
  BY <1>5, <1>6 DEF T
<1>8. DecorateContent(s) = [r EXCEPT !.dec[s.cur].buf = <<>>]
  BY <1>2 DEF DecorateContent, buf
<1> HIDE DEF r
<1>9. [Current(r) EXCEPT !.buf = <<>>] \in Dec
  BY <1>7, CurrentType, EmptySeq DEF Dec
<1>10. DecorateContent(s) = WithDec(r, [Current(r) EXCEPT !.buf = <<>>])
  <2>1. s.cur \in {"main", "note"} /\ r \in Handler
    BY <1>7, CurrentType DEF Live
  <2> QED
    BY <1>7, <1>8, <2>1 DEF WithDec, Current, Handler
<1> QED
  BY <1>7, <1>9, <1>10 DEF n, buf

\* Decorating ends with the buffer emptied, and the output of the decorator
\* moved to that of the adorner.
Emptied(s) == WithDec(s, [Current(s) EXCEPT !.buf = <<>>])

Moved(s) == [Output(s, Current(s).out) EXCEPT !.dec[s.cur].out = <<>>]

LEMMA EmptiedFacts ==
    ASSUME NEW s \in Live
    PROVE  LET r == Emptied(s)
               d == [Current(s) EXCEPT !.buf = <<>>]
           IN  /\ d \in Dec /\ r \in Live /\ Current(r) = d /\ Alike(s, r)
               /\ r.output = s.output /\ r.open = s.open
               /\ r.closed = s.closed /\ r.cache = s.cache
<1>1. [Current(s) EXCEPT !.buf = <<>>] \in Dec
  BY CurrentType, EmptySeq DEF Dec
<1> QED
  BY <1>1, WithDecFacts DEF Emptied

LEMMA MovedFacts ==
    ASSUME NEW s \in Live
    PROVE  LET r == Moved(s)
               d == [Current(s) EXCEPT !.out = <<>>]
           IN  /\ d \in Dec /\ r \in Live /\ Current(r) = d /\ Alike(s, r)
               /\ r.output = IF Storage THEN s.output \o Current(s).out ELSE s.output
               /\ r.open = s.open /\ r.closed = s.closed /\ r.cache = s.cache
<1> DEFINE d == [Current(s) EXCEPT !.out = <<>>]
           output == IF Storage THEN s.output \o Current(s).out ELSE s.output
           q == [s EXCEPT !.output = output]
<1>1. Current(s) \in Dec /\ s \in Handler /\ s.cur \in {"main", "note"}
  BY CurrentType DEF Live
<1>2. d \in Dec
  BY <1>1, EmptySeq DEF Dec
<1>3. output \in Seq(Item)
  BY <1>1, ConcatProperties DEF Handler, Dec
<1>4. Output(s, Current(s).out) = q
  BY <1>1 DEF Output, Handler
<1>5. /\ q \in Live /\ q.cur = s.cur /\ Current(q) = Current(s) /\ Alike(s, q)
      /\ q.output = output /\ q.open = s.open /\ q.closed = s.closed /\ q.cache = s.cache
  <2> HIDE DEF output
  <2> QED
    BY <1>1, <1>3 DEF Live, Handler, Current, Alike
<1>6. Moved(s) = [q EXCEPT !.dec[q.cur].out = <<>>]
  BY <1>4, <1>5 DEF Moved
<1> HIDE DEF q, output
<1>7. Moved(s) = WithDec(q, d)
  BY <1>1, <1>5, <1>6 DEF WithDec, Live, Handler, Current
<1> HIDE DEF d
<1>8. /\ Moved(s) \in Live /\ Current(Moved(s)) = d /\ Alike(q, Moved(s))
      /\ Moved(s).output = q.output /\ Moved(s).open = q.open
      /\ Moved(s).closed = q.closed /\ Moved(s).cache = q.cache
  BY <1>2, <1>5, <1>7, WithDecFacts
<1>9. Alike(s, Moved(s))
  BY <1>5, <1>8 DEF Alike
<1> QED
  BY <1>2, <1>5, <1>8, <1>9 DEF d, output

\* A set of handlers that no step of decorating leaves.
TextClosed(A) ==
    \A r \in Live : r \in A =>
        /\ \A t \in Text : DecorateToken(r, t) \in A
        /\ Emptied(r) \in A /\ Moved(r) \in A /\ IndexWord(r) \in A

\* No helper that decorates leaves such a set, and it leaves the decorator empty.
LEMMA DecoratingKeeps ==
    ASSUME NEW s \in Live, NEW A, s \in A, TextClosed(A)
    PROVE  /\ DecorateContent(s) \in A /\ DecorateContent(s) \in Live
           /\ DecorateContent(s).cur = s.cur
           /\ Current(DecorateContent(s)).buf = <<>>
           /\ Decorate(s) \in A /\ Decorate(s) \in Live /\ Decorate(s).cur = s.cur
           /\ Current(Decorate(s)).buf = <<>> /\ Current(Decorate(s)).out = <<>>
           /\ BreakDecorator(s) \in A /\ BreakDecorator(s) \in Live
           /\ BreakDecorator(s).cur = s.cur /\ BreakDecorator(s).closed = <<>>
           /\ Current(BreakDecorator(s)).buf = <<>> /\ Current(BreakDecorator(s)).out = <<>>
           /\ Current(BreakDecorator(s)).wrd = <<>>
<1> DEFINE n == Len(Current(s).buf)
           Q == [k \in 0 .. n |-> A]
           c == DecorateContent(s)
           d == Decorate(s)
           b == BreakDecorator(s)
<1>1. n \in Nat /\ Current(s).buf \in [1 .. n -> Text]
  BY CurrentType DEF Dec
<1>2. s \in Q[0]
  BY <1>1
<1>3. ASSUME NEW k \in 0 .. n - 1, NEW r \in Live, r.cur = s.cur, r \in Q[k]
      PROVE  DecorateToken(r, Current(s).buf[k + 1]) \in Q[k + 1]
  <2>1. k \in 0 .. n /\ k + 1 \in 0 .. n /\ k + 1 \in 1 .. n
    BY <1>1
  <2>2. Current(s).buf[k + 1] \in Text
    BY <1>1, <2>1
  <2> QED
    BY <1>3, <2>1, <2>2 DEF TextClosed
<1> HIDE DEF Q
<1>4. PICK r \in Live : /\ r.cur = s.cur /\ r \in Q[n]
                        /\ c = WithDec(r, [Current(r) EXCEPT !.buf = <<>>])
  <2> HIDE DEF c
  <2> QED
    BY <1>2, <1>3, ContentKeeps DEF n, c
<1>5. r \in A
  <2>1. n \in 0 .. n
    BY <1>1
  <2> QED
    BY <1>4, <2>1 DEF Q
<1> HIDE DEF n, c
<1>6. c = Emptied(r)
  BY <1>4 DEF Emptied
<1>7. c \in A /\ c \in Live /\ c.cur = s.cur /\ Current(c).buf = <<>>
  <2>1. c \in Live /\ Current(c) = [Current(r) EXCEPT !.buf = <<>>] /\ Alike(r, c)
    BY <1>6, EmptiedFacts
  <2>2. Current(c).buf = <<>>
    BY <2>1, CurrentType DEF Dec
  <2> QED
    BY <1>4, <1>5, <1>6, <2>1, <2>2 DEF TextClosed, Alike
<1>8. d = Moved(c)
  <2>1. d = [Output(c, Current(c).out) EXCEPT !.dec[s.cur].out = <<>>]
    BY DEF Decorate, c
  <2> QED
    BY <1>7, <2>1 DEF Moved
<1> HIDE DEF d
<1>9. d \in A /\ d \in Live /\ d.cur = s.cur /\ Current(d).buf = <<>> /\ Current(d).out = <<>>
  <2>1. d \in Live /\ Current(d) = [Current(c) EXCEPT !.out = <<>>] /\ Alike(c, d)
    BY <1>7, <1>8, MovedFacts
  <2>2. Current(d).buf = <<>> /\ Current(d).out = <<>>
    BY <1>7, <2>1, CurrentType DEF Dec
  <2> QED
    BY <1>7, <1>8, <2>1, <2>2 DEF TextClosed, Alike
<1>10. b = IndexWord(d)
  BY DEF BreakDecorator, d
<1> HIDE DEF b
<1>11. /\ b \in A /\ b \in Live /\ b.cur = s.cur /\ b.closed = <<>>
       /\ Current(b).buf = <<>> /\ Current(b).out = <<>> /\ Current(b).wrd = <<>>
  <2>1. /\ b \in Live /\ Current(b) = [Current(d) EXCEPT !.wrd = <<>>] /\ Alike(d, b)
        /\ b.closed = <<>>
    BY <1>9, <1>10, IndexWordFacts
  <2>2. Current(b).buf = <<>> /\ Current(b).out = <<>> /\ Current(b).wrd = <<>>
    BY <1>9, <2>1, CurrentType DEF Dec
  <2> QED
    BY <1>9, <1>10, <2>1, <2>2 DEF TextClosed, Alike
<1> QED
  BY <1>7, <1>9, <1>11 DEF c, d, b

\* Decorating leaves alone what Alike says.
LEMMA AlikeIsClosed ==
    ASSUME NEW s \in Live
    PROVE  TextClosed({r \in Live : Alike(s, r)})
<1> SUFFICES ASSUME NEW r \in Live, Alike(s, r)
             PROVE  /\ \A t \in Text : DecorateToken(r, t) \in {q \in Live : Alike(s, q)}
                    /\ Emptied(r) \in {q \in Live : Alike(s, q)}
                    /\ Moved(r) \in {q \in Live : Alike(s, q)}
                    /\ IndexWord(r) \in {q \in Live : Alike(s, q)}
  BY DEF TextClosed
<1>1. \A q \in Live : Alike(r, q) => Alike(s, q)
  BY DEF Alike
<1>2. ASSUME NEW t \in Text
      PROVE  DecorateToken(r, t) \in Live /\ Alike(r, DecorateToken(r, t))
  <2>1. CASE t \in Spaces
    BY <2>1, SpaceFacts
  <2>2. CASE t \in Piece
    BY <2>2, PieceFacts
  <2> QED
    BY <2>1, <2>2 DEF Text
<1>3. /\ Emptied(r) \in Live /\ Alike(r, Emptied(r))
      /\ Moved(r) \in Live /\ Alike(r, Moved(r))
      /\ IndexWord(r) \in Live /\ Alike(r, IndexWord(r))
  BY EmptiedFacts, MovedFacts, IndexWordFacts
<1> QED
  BY <1>1, <1>2, <1>3

-----------------------------------------------------------------------------
(***************************************************************************)
(* Pages.                                                                  *)
(***************************************************************************)
\* Envelopes consist of items.
\* Texts are flattened one after the other.
LEMMA FlattenItems ==
    \A n \in Nat : \A part \in [1 .. n -> Seq(Item)] :
        \E w \in [0 .. n -> Seq(Item)] :
            /\ w[0] = <<>>
            /\ \A k \in 0 .. n - 1 : w[k + 1] = w[k] \o part[k + 1]
            /\ FlattenSeq(part) = w[n]
<1> TAKE n \in Nat
<1> TAKE part \in [1 .. n -> Seq(Item)]
<1> QED
  BY FlattenWalk

LEMMA NextHeaderType ==
    ASSUME NEW b \in RecordBreaker, NEW stack \in Seq(Elem)
    PROVE  NextHeader(b, stack) \in Seq(Item)
<1> DEFINE n == Len(stack)
           part == [i \in DOMAIN stack |->
                      <<<<"open", stack[i]>>>> \o IF i \in DOMAIN b.kept THEN b.kept[i] ELSE <<>>]
<1>1. n \in Nat /\ DOMAIN stack = 1 .. n
  BY LenProperties
<1>2. ASSUME NEW i \in 1 .. n
      PROVE  part[i] \in Seq(Item)
  <2>1. <<"open", stack[i]>> \in Item
    BY <1>1 DEF Item, Tag
  <2>2. <<<<"open", stack[i]>>>> \in Seq(Item)
    BY <2>1
  <2>3. i \in DOMAIN b.kept => b.kept[i] \in Seq(Item)
    BY DEF RecordBreaker, Numbered
  <2>4. part[i] = <<<<"open", stack[i]>>>> \o IF i \in DOMAIN b.kept THEN b.kept[i] ELSE <<>>
    BY <1>1
  <2> HIDE DEF part
  <2> QED
    BY <2>2, <2>3, <2>4, ConcatProperties, EmptySeq
<1>3. part \in [1 .. n -> Seq(Item)]
  BY <1>1, <1>2
<1>4. FlattenSeq(part) \in Seq(Item)
  <2> HIDE DEF part, n
  <2>1. PICK w \in [0 .. n -> Seq(Item)] :
               /\ w[0] = <<>>
               /\ \A k \in 0 .. n - 1 : w[k + 1] = w[k] \o part[k + 1]
               /\ FlattenSeq(part) = w[n]
    BY <1>1, <1>3, FlattenItems
  <2> QED
    BY <1>1, <2>1
<1>5. <<Declaration>> \in Seq(Item)
  BY DEF Item
<1>6. NextHeader(b, stack) = <<Declaration>> \o FlattenSeq(part)
  BY DEF NextHeader
<1> HIDE DEF part
<1> QED
  BY <1>4, <1>5, <1>6, ConcatProperties

LEMMA FooterType ==
    ASSUME NEW stack \in Seq(Elem)
    PROVE  /\ Footer(stack) \in Seq(Item) /\ Len(Footer(stack)) = Len(stack)
           /\ \A i \in 1 .. Len(stack) : Footer(stack)[i] = <<"close", stack[Len(stack) + 1 - i]>>
<1> DEFINE n == Len(stack)
           closing == [i \in DOMAIN stack |-> <<"close", stack[i]>>]
<1>1. n \in Nat /\ DOMAIN stack = 1 .. n
  BY LenProperties
<1>2. \A i \in 1 .. n : <<"close", stack[i]>> \in Item
  BY <1>1 DEF Item, Tag
<1>3. closing \in Seq(Item) /\ Len(closing) = n
  BY <1>1, <1>2
<1>4. \A i \in 1 .. n : n - i + 1 \in 1 .. n /\ n - i + 1 = n + 1 - i
  BY <1>1
<1>5. Footer(stack) = [i \in 1 .. n |-> closing[n - i + 1]]
  <2>1. Footer(stack) = [i \in 1 .. Len(closing) |-> closing[(Len(closing) - i) + 1]]
    BY Zenon DEF Footer, Reverse
  <2> HIDE DEF closing
  <2> QED
    BY <1>3, <2>1
<1>6. ASSUME NEW i \in 1 .. n
      PROVE  Footer(stack)[i] = <<"close", stack[n + 1 - i]>> /\ Footer(stack)[i] \in Item
  BY <1>1, <1>2, <1>4, <1>5
<1>7. Footer(stack) \in Seq(Item) /\ Len(Footer(stack)) = n
  <2>1. DOMAIN Footer(stack) = 1 .. n
    BY <1>5
  <2> QED
    BY <1>1, <1>5, <1>6, <2>1
<1> QED
  BY <1>6, <1>7

\* The next decorator.
LEMMA TurnedFacts ==
    ASSUME NEW s \in Live, NEW k \in {"main", "note"}
    PROVE  LET b == BreakDecorator(s)
               r == SetCurrentDecorator(s, k)
           IN  /\ r \in Live /\ r.cur = k /\ r.dec = b.dec /\ r.doc = b.doc
               /\ r.stack = b.stack /\ r.docDb = b.docDb /\ r.breaker = b.breaker
               /\ r.pages = b.pages /\ r.words = b.words /\ r.output = b.output
               /\ r.open = b.open /\ r.closed = b.closed /\ r.cache = b.cache
<1> DEFINE b == BreakDecorator(s)
<1>1. b \in Live
  <2>1. TextClosed({r \in Live : Alike(s, r)}) /\ s \in {r \in Live : Alike(s, r)}
    BY AlikeIsClosed DEF Alike
  <2> QED
    BY <2>1, DecoratingKeeps
<1>2. SetCurrentDecorator(s, k) = [b EXCEPT !.cur = k]
  BY DEF SetCurrentDecorator, Live
<1> HIDE DEF b
<1>3. [b EXCEPT !.cur = k] \in Live
  BY <1>1 DEF Live, Handler
<1> QED
  BY <1>1, <1>2, <1>3 DEF Live, Handler, b

\* Pages to which one is added.
WithPage(pages, p, text) ==
    [x \in {p} \cup DOMAIN pages |-> IF x = p THEN text ELSE pages[x]]

\* The page of the current decorator gets the text.
LEMMA RecordedFacts ==
    ASSUME NEW s \in Live, NEW text \in Seq(Item), s.doc # 0
    PROVE  LET r == AddDocRecord(s, text)
               p == Current(s).at.pge
               pages == IF s.docDb THEN [s.pages EXCEPT ![s.doc] = WithPage(@, p, text)]
                        ELSE s.pages
           IN  /\ r \in Live /\ r.cur = s.cur /\ r.dec = s.dec /\ r.doc = s.doc
               /\ r.stack = s.stack /\ r.docDb = s.docDb /\ r.breaker = s.breaker
               /\ r.pages = pages /\ r.words = s.words /\ r.output = s.output
               /\ r.open = s.open /\ r.closed = s.closed /\ r.cache = s.cache
<1> DEFINE p == Current(s).at.pge
           old == s.pages[s.doc]
           new == WithPage(old, p, text)
           pages == IF s.docDb THEN [s.pages EXCEPT ![s.doc] = new] ELSE s.pages
<1>1. s \in Handler /\ s.doc \in 1 .. MaxDoc /\ p \in Nat
  <2>1. s \in Handler /\ s.doc \in 0 .. MaxDoc /\ MaxDoc \in Nat
    BY BoundAssumption DEF Live, Handler
  <2>2. p \in Nat
    BY CurrentType DEF Dec, Place
  <2> QED
    BY <2>1, <2>2
<1>2. old \in Numbered
  BY <1>1 DEF Handler
<1>3. new \in Numbered
  <2>1. PICK D \in SUBSET Nat : old \in [D -> Seq(Item)]
    BY <1>2 DEF Numbered
  <2>2. new = [x \in {p} \cup D |-> IF x = p THEN text ELSE old[x]]
    BY <2>1 DEF WithPage
  <2>3. {p} \cup D \in SUBSET Nat /\ new \in [{p} \cup D -> Seq(Item)]
    BY <1>1, <2>1, <2>2
  <2> HIDE DEF new
  <2> QED
    BY <2>3 DEF Numbered
<1> HIDE DEF new
<1>4. pages \in [1 .. MaxDoc -> Numbered]
  BY <1>1, <1>3 DEF Handler
<1>5. AddDocRecord(s, text) = [s EXCEPT !.pages = pages]
  BY <1>1 DEF AddDocRecord, Handler, new, WithPage
<1> HIDE DEF pages
<1>6. [s EXCEPT !.pages = pages] \in Live
  BY <1>1, <1>4 DEF Live, Handler
<1> QED
  BY <1>1, <1>5, <1>6 DEF Handler, pages, new

\* Both decorators go to the next page, which begins with an envelope.
LEMMA NextPageFacts ==
    ASSUME NEW s \in Live
    PROVE  LET r == NextPage(s)
           IN  /\ r \in Live /\ r.cur = s.cur /\ r.doc = s.doc
               /\ \A k \in {"main", "note"} :
                    r.dec[k] = [s.dec[k] EXCEPT !.at = [pge |-> @.pge + 1, pos |-> @.pos]]
               /\ r.breaker = [s.breaker EXCEPT !.header = NextHeader(s.breaker, s.stack)]
               /\ r.stack = s.stack /\ r.docDb = s.docDb
               /\ r.pages = s.pages /\ r.words = s.words /\ r.output = <<>>
               /\ r.open = s.open /\ r.closed = s.closed /\ r.cache = s.cache
<1> DEFINE Turned(d) == [d EXCEPT !.at = [pge |-> @.pge + 1, pos |-> @.pos]]
           dec == [k \in {"main", "note"} |-> Turned(s.dec[k])]
           breaker == [s.breaker EXCEPT !.header = NextHeader(s.breaker, s.stack)]
<1>1. s \in Handler
  BY DEF Live
<1>2. ASSUME NEW d \in Dec
      PROVE  [d EXCEPT !.at.pge = @ + 1] = Turned(d) /\ Turned(d) \in Dec
  <2>1. d.at \in [pge : Nat, pos : Nat]
    BY DEF Dec, Place
  <2>2. [pge |-> d.at.pge + 1, pos |-> d.at.pos] \in Place
    BY <2>1 DEF Place
  <2>4. [d.at EXCEPT !.pge = @ + 1] = [pge |-> d.at.pge + 1, pos |-> d.at.pos]
    BY <2>1
  <2>3. [d EXCEPT !.at.pge = @ + 1] = Turned(d)
    BY <2>4
  <2> QED
    BY <2>2, <2>3 DEF Dec
<1> HIDE DEF Turned
<1>3. dec \in [{"main", "note"} -> Dec]
  BY <1>1, <1>2 DEF Handler
<1>4. breaker \in RecordBreaker
  <2>1. NextHeader(s.breaker, s.stack) \in Seq(Item)
    BY <1>1, NextHeaderType DEF Handler
  <2> QED
    BY <1>1, <2>1 DEF Handler, RecordBreaker
<1>5. NextPage(s) = [s EXCEPT !.dec = dec, !.output = <<>>, !.breaker = breaker]
  <2>1. DOMAIN s.dec = {"main", "note"} /\ \A k \in {"main", "note"} : s.dec[k] \in Dec
    BY <1>1 DEF Handler
  <2>2. [k \in DOMAIN s.dec |-> [s.dec[k] EXCEPT !.at.pge = @ + 1]] = dec
    BY <1>2, <2>1
  <2>3. NextPage(s) = [s EXCEPT !.dec = [k \in DOMAIN s.dec |-> [s.dec[k] EXCEPT !.at.pge = @ + 1]],
                                !.output = <<>>, !.breaker = breaker]
    BY <1>1 DEF NextPage, Handler
  <2> HIDE DEF dec, breaker
  <2> QED
    BY <2>2, <2>3
<1> HIDE DEF dec, breaker
<1>6. NextPage(s) \in Live
  <2>1. s.cur # "none" /\ <<>> \in Seq(Item)
    BY EmptySeq DEF Live
  <2> QED
    BY <1>1, <1>3, <1>4, <1>5, <2>1 DEF Live, Handler
<1> QED
  BY <1>1, <1>5, <1>6 DEF Handler, dec, breaker, Turned

-----------------------------------------------------------------------------
(***************************************************************************)
(* The calls of the parser, as steps from one set of handlers to another.  *)
(* A set is left by no helper if it is closed under decorating, under      *)
(* turning to the other decorator when the current one is empty, and under *)
(* turning the page.                                                       *)
(***************************************************************************)
Blank(d) == d.buf = <<>> /\ d.wrd = <<>> /\ d.out = <<>>

Settled(r) == Blank(Current(r)) /\ r.closed = <<>>

TurnClosed(A) ==
    \A r \in A : Settled(r) => \A k \in {"main", "note"} : [r EXCEPT !.cur = k] \in A

PageTurned(r) == NextPage(AddDocRecord(r, RecordText(r)))

PageClosed(A) == Breaks => \A r \in A : Settled(r) => PageTurned(r) \in A

Closed(A) == A \subseteq Live /\ TextClosed(A) /\ TurnClosed(A) /\ PageClosed(A)

\* Whatever is at work, the decorator is empty after it.
LEMMA BreakDecoratorKeeps ==
    ASSUME NEW A, Closed(A), NEW s \in A
    PROVE  BreakDecorator(s) \in A /\ Settled(BreakDecorator(s))
BY DecoratingKeeps DEF Closed, Settled, Blank

LEMMA TurnKeeps ==
    ASSUME NEW A, Closed(A), NEW s \in A, NEW k \in {"main", "note"}
    PROVE  SetCurrentDecorator(s, k) \in A
<1> DEFINE b == BreakDecorator(s)
<1>1. SetCurrentDecorator(s, k) = [b EXCEPT !.cur = k]
  BY DEF Closed, SetCurrentDecorator, Live
<1>2. b \in A /\ Settled(b)
  BY BreakDecoratorKeeps
<1> HIDE DEF b
<1>3. [b EXCEPT !.cur = k] \in A
  BY <1>2, Zenon DEF Closed, TurnClosed
<1> QED
  BY <1>1, <1>3

LEMMA BreakRecordKeeps ==
    ASSUME NEW A, Closed(A), NEW s \in A, Breaks
    PROVE  BreakRecord(s) \in A
<1>1. BreakRecord(s) = PageTurned(BreakDecorator(s))
  BY DEF BreakRecord, PageTurned
<1> QED
  BY <1>1, BreakDecoratorKeeps DEF Closed, PageClosed

\* An element begins: all that was said before is handled as text, and the tag
\* is said last, by handler c.
Starts(s, e, c) ==
    /\ Current(c).buf = <<>>
    /\ AdornerStartNode(s, e) = [Says(c, <<"open", e>>) EXCEPT !.stack = Append(@, e)]

LEMMA StartNodeKeeps ==
    ASSUME NEW A, Closed(A), NEW s \in A, NEW e,
           Breaks => \A r \in A : [r EXCEPT !.breaker = BreakerOpens(@, e, Len(s.stack))] \in A
    PROVE  \E c \in A : Starts(s, e, c)
<1> DEFINE turned == IF e \in NoteElem THEN SetCurrentDecorator(s, "note")
                     ELSE IF e \in NliElem THEN BreakDecorator(s) ELSE s
           n == Len(s.stack)
           seen == IF Breaks THEN [turned EXCEPT !.breaker = BreakerOpens(@, e, n)]
                   ELSE turned
           broken == IF Breaks /\ BreaksBefore(turned.breaker, e) THEN BreakRecord(seen)
                     ELSE seen
<1>1. turned \in A
  BY TurnKeeps, BreakDecoratorKeeps
<1> HIDE DEF turned
<1>2. seen \in A
  BY <1>1
<1> HIDE DEF seen
<1>3. broken \in A
  BY <1>2, BreakRecordKeeps
<1> HIDE DEF broken
<1>4. DecorateContent(broken) \in A /\ Current(DecorateContent(broken)).buf = <<>>
  BY <1>3, DecoratingKeeps DEF Closed
<1>5. AdornerStartNode(s, e)
        = [Says(DecorateContent(broken), <<"open", e>>) EXCEPT !.stack = Append(@, e)]
  BY Zenon DEF AdornerStartNode, AddNode, turned, seen, broken
<1> QED
  BY <1>4, <1>5 DEF Starts

\* An element ends: once its tag is said, all is handled in another set, and once
\* the record breaker has met it in a third one.
LEMMA EndNodeKeeps ==
    ASSUME NEW A, A \subseteq Live, TextClosed(A), NEW B, Closed(B), NEW C, Closed(C),
           NEW s \in Live, [s EXCEPT !.stack = Front(@)] \in A,
           \A c \in A : Current(c).buf = <<>> => Says(c, <<"close", Last(s.stack)>>) \in B,
           NEW n, \A r \in B : Len(r.stack) = n,
           Breaks => \A r \in B : [r EXCEPT !.breaker = BreakerCloses(@, Last(s.stack), n)] \in C,
           ~ Breaks => B \subseteq C
    PROVE  AdornerEndNode(s) \in C
<1> DEFINE e == Last(s.stack)
           begun0 == DecorateContent([s EXCEPT !.stack = Front(@)])
           told == AddNode([s EXCEPT !.stack = Front(@)], <<"close", e>>)
           turned == IF e \in NoteElem THEN SetCurrentDecorator(told, "main")
                     ELSE IF e \in NliElem THEN BreakDecorator(told) ELSE told
           seen == IF Breaks THEN [turned EXCEPT !.breaker = BreakerCloses(@, e, Len(told.stack))]
                   ELSE turned
           ended == IF Breaks /\ BreaksAfter(e) THEN BreakRecord(seen) ELSE seen
<1>1. begun0 \in A /\ Current(begun0).buf = <<>>
  BY DecoratingKeeps
<1>2. told \in B
  <2>1. told = Says(begun0, <<"close", e>>)
    BY DEF AddNode
  <2> HIDE DEF begun0, told, e
  <2> QED
    BY <1>1, <2>1 DEF e
<1> HIDE DEF told
<1>3. turned \in B
  BY <1>2, TurnKeeps, BreakDecoratorKeeps
<1>4. Len(told.stack) = n
  BY <1>2
<1> HIDE DEF turned
<1>5. seen \in C
  BY <1>3, <1>4
<1> HIDE DEF seen
<1>6. ended \in C
  BY <1>5, BreakRecordKeeps
<1> HIDE DEF ended
<1>7. AdornerEndNode(s) = ended
  BY Zenon DEF AdornerEndNode, told, turned, seen, ended
<1> QED
  BY <1>6, <1>7

\* The last page, and the handler after it.
LastPage(c) ==
    IF Breaks THEN PageTurned(c)
    ELSE IF c.docDb THEN [AddDocRecord(c, c.output) EXCEPT !.output = <<>>] ELSE c

Ended(c) ==
    [LastPage(c) EXCEPT !.docDb = FALSE, !.stack = <<>>, !.doc = 0,
                        !.dec = [k \in DOMAIN LastPage(c).dec |-> Cleared]]

\* The handler whose output is the last page.
LastHandler(s) ==
    LET said == Output(BreakDecorator(s), <<<<"text", "\n">>>>)
    IN  IF Breaks THEN BreakDecorator(said) ELSE said

\* The last page ends, and all that was said is handled as text.
LEMMA EndDocumentKeeps ==
    ASSUME NEW A, Closed(A), NEW s \in A,
           \A r \in A : Settled(r) => Output(r, <<<<"text", "\n">>>>) \in A
    PROVE  \E c \in A : /\ Settled(c) /\ c = LastHandler(s)
                        /\ AdornerEndDocument(s) = Ended(c)
<1> DEFINE said == Output(BreakDecorator(s), <<<<"text", "\n">>>>)
           c == IF Breaks THEN BreakDecorator(said) ELSE said
           page == LastPage(c)
<1>1. said \in A /\ Settled(said)
  <2>1. BreakDecorator(s) \in A /\ Settled(BreakDecorator(s))
    BY BreakDecoratorKeeps
  <2>2. Settled(said)
    <3> DEFINE b == BreakDecorator(s)
    <3>1. b \in Handler /\ Settled(b)
      BY <2>1 DEF Closed, Live
    <3> HIDE DEF b
    <3>2. Settled(Output(b, <<<<"text", "\n">>>>))
      BY <3>1 DEF Output, Settled, Current, Handler
    <3> QED
      BY <3>2 DEF b
  <2> QED
    BY <2>1, <2>2
<1> HIDE DEF said
<1>2. c \in A /\ Settled(c)
  BY <1>1, BreakDecoratorKeeps
<1>3. BreakRecord(said) = page
  <2>1. CASE Breaks
    BY <2>1 DEF BreakRecord, PageTurned, LastPage
  <2>2. CASE ~ Breaks
    BY <2>2 DEF BreakRecord, LastPage
  <2> QED
    BY <2>1, <2>2
<1>4. AdornerEndDocument(s) = [page EXCEPT !.docDb = FALSE, !.stack = <<>>, !.doc = 0,
                                           !.dec = [k \in DOMAIN page.dec |-> Cleared]]
  BY <1>3 DEF AdornerEndDocument, said
<1>5. c = LastHandler(s)
  BY DEF LastHandler, said
<1> HIDE DEF c
<1> QED
  BY <1>2, <1>4, <1>5 DEF Ended

-----------------------------------------------------------------------------
(***************************************************************************)
(* The other decorator is empty, and what is kept of a word has a place.   *)
(***************************************************************************)
\* The words of a node have positions.
Dated(n) == \A w \in n.words : w[2].pos # 0

Clean(r) ==
    /\ \A k \in {"main", "note"} : k # r.cur => Blank(r.dec[k])
    /\ ~ Storage => r.output = <<>> /\ Current(r).out = <<>>
    /\ \A i \in DOMAIN r.open : Dated(r.open[i])
    /\ \A i \in DOMAIN r.closed : Dated(r.closed[i])
    /\ \A w \in r.cache : w.doc = r.doc /\ w.pos # 0

\* What all helpers leave alone, while a document is parsed.
Kept(s, r) ==
    /\ r.doc = s.doc /\ r.stack = s.stack /\ r.docDb = s.docDb /\ r.words = s.words
    /\ Elems(r.open) = Elems(s.open)

CleanSet(s) == {r \in Live : r.doc # 0 /\ Kept(s, r) /\ Clean(r)}

\* A word is only heard at a position.
LEMMA HeardDated ==
    ASSUME NEW s \in Live, NEW n \in Node, Dated(n)
    PROVE  Dated(Heard(s, n))
<1>1. ASSUME NEW wrd, NEW at
      PROVE  Dated(Hears(n, wrd, at))
  <2>1. CASE n.state = "new" \/ at.pos = 0
    BY <2>1 DEF Hears
  <2>2. CASE ~ (n.state = "new" \/ at.pos = 0)
    <3>1. Hears(n, wrd, at).words = IF Has(n, "word") THEN n.words \cup {<<wrd, at>>} ELSE n.words
      BY <2>2 DEF Hears, Node
    <3> QED
      BY <2>2, <3>1 DEF Dated
  <2> QED
    BY <2>1, <2>2
<1> QED
  BY <1>1 DEF Heard

\* The entries of a node have the positions of its words, or of its start.
LEMMA NodeEntriesDated ==
    ASSUME NEW n \in Node, Dated(n), NEW doc, NEW w \in NodeEntries(doc, n)
    PROVE  w.doc = doc /\ w.pos # 0
<1> DEFINE Named(typ) == {i.ndx : i \in {j \in Items[n.elem] : j.typ = typ}}
<1>1. \/ \E x \in Named("word"), v \in n.words : w = Indexed(x, v[1], doc, v[2])
      \/ n.start.pos # 0 /\ \E x \in Named("field") : w = Indexed(x, Trimmed(n.text), doc, n.start)
  <2> HIDE DEF Named
  <2>1. NodeEntries(doc, n) =
          {Indexed(x, v[1], doc, v[2]) : x \in Named("word"), v \in n.words}
            \cup IF Trimmed(n.text) # <<>> /\ n.start.pos # 0 /\ n.end.pos # 0
                 THEN {Indexed(x, Trimmed(n.text), doc, n.start) : x \in Named("field")}
                 ELSE {}
    BY DEF NodeEntries, Named
  <2> QED
    BY <2>1
<1>2. \A x, wrd, at : Indexed(x, wrd, doc, at).doc = doc /\ Indexed(x, wrd, doc, at).pos = at.pos
  BY DEF Indexed
<1> QED
  BY <1>1, <1>2 DEF Dated

LEMMA NewEntriesDated ==
    ASSUME NEW s \in Live, \A i \in DOMAIN s.closed : Dated(s.closed[i]), NEW w \in NewEntries(s)
    PROVE  w.doc = s.doc /\ w.pos # 0
<1>1. PICK i \in DOMAIN s.closed : w \in NodeEntries(s.doc, Heard(s, s.closed[i]))
  BY DEF NewEntries
<1>2. s.closed[i] \in Node
  BY DEF Live, Handler
<1>3. Heard(s, s.closed[i]) \in Node /\ Dated(Heard(s, s.closed[i]))
  BY <1>2, HeardType, HeardDated
<1> QED
  BY <1>1, <1>3, NodeEntriesDated

\* Indexing the pending word keeps a handler clean, and so does every token.
LEMMA CleanIndexWord ==
    ASSUME NEW s \in Live, Clean(s)
    PROVE  Clean(IndexWord(s))
<1> DEFINE r == IndexWord(s)
<1>1. /\ Current(r) = [Current(s) EXCEPT !.wrd = <<>>] /\ Alike(s, r)
      /\ r.output = s.output
      /\ r.open = [i \in DOMAIN s.open |-> Heard(s, s.open[i])]
      /\ r.closed = <<>> /\ r.cache = s.cache \cup NewEntries(s)
  BY IndexWordFacts
<1> HIDE DEF r
<1>2. Current(r).out = Current(s).out
  BY <1>1, CurrentType DEF Dec
<1>3. \A i \in DOMAIN r.open : Dated(r.open[i])
  <2>1. \A i \in DOMAIN s.open : s.open[i] \in Node /\ Dated(s.open[i])
    BY DEF Live, Handler, Clean
  <2> QED
    BY <1>1, <2>1, HeardDated
<1>4. \A w \in r.cache : w.doc = r.doc /\ w.pos # 0
  <2>1. \A w \in s.cache : w.doc = s.doc /\ w.pos # 0
    BY DEF Clean
  <2>2. \A w \in NewEntries(s) : w.doc = s.doc /\ w.pos # 0
    BY NewEntriesDated DEF Clean
  <2> QED
    BY <1>1, <2>1, <2>2 DEF Alike
<1>5. \A k \in {"main", "note"} : k # r.cur => Blank(r.dec[k])
  BY <1>1 DEF Clean, Alike
<1> QED
  BY <1>1, <1>2, <1>3, <1>4, <1>5 DEF Clean, r

LEMMA CleanToken ==
    ASSUME NEW s \in Live, Clean(s), NEW t \in Text
    PROVE  Clean(DecorateToken(s, t))
<1> DEFINE r == DecorateToken(s, t)
<1>1. CASE t \in Spaces
  <2>1. /\ Current(r) = WithSpace(Current(s), t) /\ Alike(s, r)
        /\ r.output = s.output /\ r.open = s.open
        /\ r.closed = s.closed /\ r.cache = s.cache
    BY <1>1, SpaceFacts
  <2> HIDE DEF r
  <2>2. ~ Storage => Current(r).out = Current(s).out
    BY <2>1, CurrentType DEF Dec, WithSpace
  <2> QED
    BY <2>1, <2>2 DEF Clean, Alike, r
<1>2. CASE t \in Piece
  <2> DEFINE d == Started(Current(s))
  <2>1. /\ d \in Dec /\ Current(r) = WithWord(d, t) /\ Alike(s, r)
        /\ r.output = s.output
        /\ r.open = [i \in DOMAIN s.open |->
              [IF Indexes(d) THEN Heard(s, s.open[i]) ELSE s.open[i] EXCEPT !.state = "active"]]
        /\ r.closed = IF Indexes(d) THEN <<>> ELSE s.closed
        /\ r.cache = s.cache \cup IF Indexes(d) THEN NewEntries(s) ELSE {}
    BY <1>2, PieceFacts
  <2>2. d.out = Current(s).out
    BY CurrentType DEF Started, Dec
  <2> HIDE DEF r, d
  <2>3. ~ Storage => Current(r).out = Current(s).out
    BY <2>1, <2>2 DEF Dec, WithWord
  <2>4. ASSUME NEW i \in DOMAIN r.open
        PROVE  Dated(r.open[i])
    <3>1. s.open[i] \in Node /\ Dated(s.open[i]) /\ i \in DOMAIN s.open
      BY <2>1 DEF Live, Handler, Clean
    <3> DEFINE n == IF Indexes(d) THEN Heard(s, s.open[i]) ELSE s.open[i]
    <3>2. n \in Node /\ Dated(n)
      BY <3>1, HeardType, HeardDated
    <3>3. r.open[i] = [n EXCEPT !.state = "active"]
      BY <2>1, <3>1
    <3> HIDE DEF n
    <3> QED
      BY <3>2, <3>3 DEF Dated, Node
  <2>5. \A w \in r.cache : w.doc = r.doc /\ w.pos # 0
    <3>1. \A w \in s.cache : w.doc = s.doc /\ w.pos # 0
      BY DEF Clean
    <3>2. \A w \in NewEntries(s) : w.doc = s.doc /\ w.pos # 0
      BY NewEntriesDated DEF Clean
    <3> QED
      BY <2>1, <3>1, <3>2 DEF Alike
  <2>6. \A i \in DOMAIN r.closed : Dated(r.closed[i])
    BY <2>1 DEF Clean
  <2> QED
    BY <2>1, <2>3, <2>4, <2>5, <2>6 DEF Clean, Alike, r
<1> QED
  BY <1>1, <1>2 DEF Text

\* Handlers that are clean are left by no helper.
LEMMA CleanIsClosed ==
    ASSUME NEW s
    PROVE  Closed(CleanSet(s))
<1> DEFINE A == CleanSet(s)
<1>1. A \subseteq Live
  BY DEF CleanSet
<1>2. \A r, q \in Live : r \in A /\ Alike(r, q) /\ Clean(q) => q \in A
  BY DEF CleanSet, Alike, Kept
<1>3. TextClosed(A)
  <2> SUFFICES ASSUME NEW r \in Live, r \in A
               PROVE  /\ \A t \in Text : DecorateToken(r, t) \in A
                      /\ Emptied(r) \in A /\ Moved(r) \in A /\ IndexWord(r) \in A
    BY DEF TextClosed
  <2>0. Clean(r)
    BY DEF CleanSet
  <2>1. ASSUME NEW t \in Text
        PROVE  DecorateToken(r, t) \in A
    <3>1. DecorateToken(r, t) \in Live /\ Alike(r, DecorateToken(r, t))
      BY SpaceFacts, PieceFacts DEF Text
    <3> QED
      BY <1>2, <2>0, <3>1, CleanToken
  <2>2. Emptied(r) \in A
    <3> DEFINE q == Emptied(r)
    <3>1. /\ Current(q) = [Current(r) EXCEPT !.buf = <<>>] /\ q \in Live /\ Alike(r, q)
          /\ q.output = r.output /\ q.open = r.open
          /\ q.closed = r.closed /\ q.cache = r.cache
      BY EmptiedFacts
    <3> HIDE DEF q
    <3>2. Current(q).out = Current(r).out
      BY <3>1, CurrentType DEF Dec
    <3>3. Clean(q)
      BY <2>0, <3>1, <3>2 DEF Clean, Alike
    <3> QED
      BY <1>2, <3>1, <3>3 DEF q
  <2>3. Moved(r) \in A
    <3> DEFINE q == Moved(r)
    <3>1. /\ Current(q) = [Current(r) EXCEPT !.out = <<>>] /\ q \in Live /\ Alike(r, q)
          /\ q.output = IF Storage THEN r.output \o Current(r).out ELSE r.output
          /\ q.open = r.open /\ q.closed = r.closed /\ q.cache = r.cache
      BY MovedFacts
    <3> HIDE DEF q
    <3>2. Current(q).out = <<>>
      BY <3>1, CurrentType DEF Dec
    <3>3. Clean(q)
      BY <2>0, <3>1, <3>2 DEF Clean, Alike
    <3> QED
      BY <1>2, <3>1, <3>3 DEF q
  <2>4. IndexWord(r) \in A
    BY <1>2, <2>0, IndexWordFacts, CleanIndexWord
  <2> QED
    BY <2>1, <2>2, <2>3, <2>4
<1>4. TurnClosed(A)
  <2> SUFFICES ASSUME NEW r \in A, Settled(r), NEW k \in {"main", "note"}
               PROVE  [r EXCEPT !.cur = k] \in A
    BY DEF TurnClosed
  <2> DEFINE q == [r EXCEPT !.cur = k]
  <2>1. r \in Handler /\ r.doc # 0 /\ Kept(s, r) /\ Clean(r)
    BY DEF CleanSet, Live
  <2>2. /\ q \in Live /\ q.cur = k /\ q.dec = r.dec /\ q.doc = r.doc
        /\ q.stack = r.stack /\ q.docDb = r.docDb /\ q.words = r.words /\ q.output = r.output
        /\ q.open = r.open /\ q.closed = r.closed /\ q.cache = r.cache
    BY <2>1 DEF Live, Handler
  <2> HIDE DEF q
  <2>3. \A j \in {"main", "note"} : Blank(r.dec[j])
    <3>1. Blank(r.dec[r.cur]) /\ r.cur \in {"main", "note"}
      BY <1>1, CurrentType DEF Settled, Current
    <3> QED
      BY <2>1, <3>1 DEF Clean
  <2>4. Clean(q)
    BY <2>1, <2>2, <2>3 DEF Clean, Current, Blank
  <2>5. Kept(s, q)
    BY <2>1, <2>2 DEF Kept
  <2> QED
    BY <2>1, <2>2, <2>4, <2>5 DEF CleanSet, q
<1>5. PageClosed(A)
  <2> SUFFICES ASSUME NEW r \in A, Settled(r)
               PROVE  PageTurned(r) \in A
    BY DEF PageClosed
  <2> DEFINE q == AddDocRecord(r, RecordText(r))
             p == NextPage(q)
  <2>1. r \in Live /\ r.doc # 0 /\ Kept(s, r) /\ Clean(r)
    BY DEF CleanSet
  <2>2. RecordText(r) \in Seq(Item)
    <3>1. Footer(r.stack) \in Seq(Item) /\ r.output \in Seq(Item) /\ r.breaker.header \in Seq(Item)
      BY <2>1, FooterType DEF Live, Handler, RecordBreaker
    <3> QED
      BY <3>1, ConcatProperties DEF RecordText
  <2>3. /\ q \in Live /\ q.cur = r.cur /\ q.dec = r.dec /\ q.doc = r.doc
        /\ q.stack = r.stack /\ q.docDb = r.docDb /\ q.words = r.words
        /\ q.open = r.open /\ q.closed = r.closed /\ q.cache = r.cache
    BY <2>1, <2>2, RecordedFacts
  <2> HIDE DEF q
  <2>4. /\ p \in Live /\ p.cur = q.cur /\ p.doc = q.doc
        /\ \A k \in {"main", "note"} :
             p.dec[k] = [q.dec[k] EXCEPT !.at = [pge |-> @.pge + 1, pos |-> @.pos]]
        /\ p.stack = q.stack /\ p.docDb = q.docDb
        /\ p.words = q.words /\ p.output = <<>>
        /\ p.open = q.open /\ p.closed = q.closed /\ p.cache = q.cache
    BY <2>3, NextPageFacts
  <2> HIDE DEF p
  <2>5. \A k \in {"main", "note"} : /\ p.dec[k].buf = r.dec[k].buf /\ p.dec[k].wrd = r.dec[k].wrd
                                     /\ p.dec[k].out = r.dec[k].out
    <3> TAKE k \in {"main", "note"}
    <3>1. r.dec[k] \in Dec
      BY <2>1 DEF Live, Handler
    <3> DEFINE at == [pge |-> r.dec[k].at.pge + 1, pos |-> r.dec[k].at.pos]
    <3>2. p.dec[k] = [r.dec[k] EXCEPT !.at = at]
      BY <2>3, <2>4
    <3> HIDE DEF at
    <3> QED
      BY <3>1, <3>2 DEF Dec
  <2>6. Current(p).out = Current(r).out
    BY <2>1, <2>3, <2>4, <2>5, CurrentType DEF Current
  <2>7. Clean(p)
    BY <2>1, <2>3, <2>4, <2>5, <2>6 DEF Clean, Blank
  <2>8. Kept(s, p)
    BY <2>1, <2>3, <2>4 DEF Kept
  <2> QED
    BY <2>1, <2>3, <2>4, <2>7, <2>8 DEF CleanSet, PageTurned, p, q
<1> QED
  BY <1>1, <1>3, <1>4, <1>5 DEF Closed

-----------------------------------------------------------------------------
(***************************************************************************)
(* Documents that begin and end.                                           *)
(***************************************************************************)
\* Breaking an empty decorator changes nothing.
LEMMA BlankBreaks ==
    ASSUME NEW s \in Live, Settled(s)
    PROVE  BreakDecorator(s) = s
<1> DEFINE d == Current(s)
<1>1. s \in Handler /\ s.cur \in {"main", "note"} /\ d \in Dec
  BY CurrentType DEF Live
<1>2. d.buf = <<>> /\ d.wrd = <<>> /\ d.out = <<>> /\ s.closed = <<>>
  BY DEF Settled, Blank
<1>3. DecorateContent(s) = s
  <2>1. <<>> \in [1 .. 0 -> Text]
    OBVIOUS
  <2>2. PICK w \in [0 .. 0 -> Live] : /\ w[0] = s
                                      /\ \A k \in 0 .. 0 - 1 : w[k + 1] = DecorateToken(w[k], <<>>[k + 1])
                                      /\ FoldLeft(DecorateToken, s, <<>>) = w[0]
    BY <2>1, TokensWalk, Zenon
  <2>3. DecorateContent(s) = [s EXCEPT !.dec[s.cur].buf = <<>>]
    BY <1>2, <2>2 DEF DecorateContent
  <2> QED
    BY <1>1, <1>2, <2>3 DEF Handler, Dec, Current
<1>4. Output(s, <<>>) = s
  <2>1. s.output \o <<>> = s.output
    BY <1>1, ConcatEmptySeq DEF Handler
  <2> QED
    BY <1>1, <2>1 DEF Output, Handler
<1>5. Decorate(s) = s
  <2>1. Decorate(s) = [s EXCEPT !.dec[s.cur].out = <<>>]
    BY <1>2, <1>3, <1>4 DEF Decorate
  <2> QED
    BY <1>1, <1>2, <2>1 DEF Handler, Dec, Current
<1>6. IndexWord(s) = StoreClosedNodes(s)
  BY <1>2 DEF IndexWord
<1>7. StoreClosedNodes(s) = s
  <2>1. UNION {NodeEntries(s.doc, s.closed[i]) : i \in DOMAIN s.closed} = {}
    BY <1>2
  <2>2. StoreClosedNodes(s) = [s EXCEPT !.cache = @ \cup {}, !.closed = <<>>]
    BY <2>1 DEF StoreClosedNodes
  <2>3. s.cache \cup {} = s.cache
    OBVIOUS
  <2>4. [s EXCEPT !.cache = s.cache, !.closed = s.closed] = s
    BY <1>1 DEF Handler
  <2> QED
    BY <1>2, <2>2, <2>3, <2>4
<1> QED
  BY <1>5, <1>6, <1>7 DEF BreakDecorator

\* Between two documents.
Resting(s) ==
    /\ s.docDb = FALSE /\ \A k \in {"main", "note"} : s.dec[k] = Cleared
    /\ s.closed = <<>> /\ s.cache = {} /\ s.stack = <<>> /\ s.output = <<>>
    /\ \A i \in DOMAIN s.open : Dated(s.open[i])

\* The decorators of a document that begins.
NoteStart == [Cleared EXCEPT !.at.pos = NotePos]

LEMMA StartTypes == /\ Cleared \in Dec /\ NoteStart \in Dec
                    /\ Cleared.at = Nowhere /\ NoteStart.at = [pge |-> 0, pos |-> NotePos]
                    /\ Blank(Cleared) /\ Blank(NoteStart)
                    /\ NoteStart.wrdAt = Nowhere /\ NoteStart.isBreak
<1>1. Nowhere \in Place /\ [pge |-> 0, pos |-> NotePos] \in Place
  BY DEF Nowhere, Place, NotePos
<1>2. Cleared \in Dec
  BY <1>1, EmptySeq DEF Cleared, Dec
<1>3. NoteStart = [Cleared EXCEPT !.at = [pge |-> 0, pos |-> NotePos]]
  BY DEF NoteStart, Cleared, Nowhere
<1> DEFINE at == [pge |-> 0, pos |-> NotePos]
<1>4. at \in Place
  BY <1>1
<1> HIDE DEF at
<1>5. NoteStart \in Dec /\ NoteStart.at = at /\ NoteStart.wrdAt = Cleared.wrdAt
      /\ NoteStart.isBreak = Cleared.isBreak /\ Blank(NoteStart) = Blank(Cleared)
  <2>1. NoteStart = [Cleared EXCEPT !.at = at]
    BY <1>3 DEF at
  <2> QED
    BY <1>2, <1>4, <2>1 DEF Dec, Blank
<1>6. Blank(Cleared) /\ Cleared.at = Nowhere /\ Cleared.wrdAt = Nowhere /\ Cleared.isBreak
  BY DEF Cleared, Blank
<1> QED
  BY <1>2, <1>5, <1>6 DEF at

\* Between two documents, the decorators are cleared for the next one.
LEMMA ResetFacts ==
    ASSUME NEW s \in Handler, Resting(s), NEW d \in 1 .. MaxDoc
    PROVE  LET r == AdornerReset(s, d)
           IN  /\ r \in Live /\ r.cur = "main" /\ r.doc = d /\ r.docDb = s.docDb
               /\ r.dec["main"] = Cleared /\ r.dec["note"] = NoteStart
               /\ r.stack = s.stack /\ r.output = <<>> /\ r.pages = s.pages
               /\ r.breaker = IF Breaks THEN BreakerStartDocument(s.breaker) ELSE s.breaker
               /\ r.open = s.open /\ r.closed = s.closed
               /\ r.cache = s.cache /\ r.words = s.words
<1> DEFINE s0 == [s EXCEPT !.output = <<>>, !.doc = d]
           main == SetCurrentDecorator(s0, "main")
           dec == [main |-> Cleared, note |-> NoteStart]
           breaker == IF Breaks THEN BreakerStartDocument(s.breaker) ELSE s.breaker
           r == AdornerReset(s, d)
<1>1. /\ s0 \in Handler /\ s0.cur = s.cur /\ s0.dec = s.dec /\ s0.closed = s.closed
  <2>1. MaxDoc \in Nat
    BY BoundAssumption
  <2>2. d \in 0 .. MaxDoc /\ <<>> \in Seq(Item)
    BY <2>1, EmptySeq
  <2> QED
    BY <2>2 DEF Handler
<1>2. main = [s0 EXCEPT !.cur = "main"]
  <2>1. CASE s.cur = "none"
    BY <1>1, <2>1 DEF SetCurrentDecorator
  <2>2. CASE s.cur # "none"
    <3>1. s0 \in Live
      BY <1>1, <2>2 DEF Live
    <3>2. Settled(s0)
      <4>1. s.cur \in {"main", "note"}
        BY <2>2 DEF Handler
      <4>2. Current(s0) = Cleared /\ s0.closed = <<>>
        BY <1>1, <4>1 DEF Resting, Current
      <4> QED
        BY <4>2, StartTypes DEF Settled
    <3> HIDE DEF s0
    <3>3. BreakDecorator(s0) = s0
      BY <3>1, <3>2, BlankBreaks
    <3> QED
      BY <1>1, <2>2, <3>3 DEF SetCurrentDecorator
  <2> QED
    BY <2>1, <2>2
<1>3. /\ main \in Handler /\ main.doc = d /\ main.cur = "main" /\ main.docDb = s.docDb
      /\ main.stack = s.stack /\ main.output = <<>> /\ main.pages = s.pages
      /\ main.breaker = s.breaker /\ main.open = s.open /\ main.closed = s.closed
      /\ main.cache = s.cache /\ main.words = s.words
  BY <1>1, <1>2 DEF Handler
<1> HIDE DEF main, s0
<1>4. r = [main EXCEPT !.dec = dec, !.breaker = breaker]
  BY <1>3 DEF AdornerReset, main, s0, Handler, NoteStart
<1>5. dec \in [{"main", "note"} -> Dec] /\ dec["main"] = Cleared /\ dec["note"] = NoteStart
  BY StartTypes
<1>6. breaker \in RecordBreaker
  BY EmptySeq DEF Handler, RecordBreaker, BreakerStartDocument
<1> HIDE DEF dec, breaker
<1>7. r \in Live
  BY <1>3, <1>4, <1>5, <1>6 DEF Live, Handler
<1> QED
  BY <1>3, <1>4, <1>5, <1>7 DEF Handler, breaker

\* A document begins with the declaration.
LEMMA StartedFacts ==
    ASSUME NEW s \in Handler, Resting(s), NEW d \in 1 .. MaxDoc
    PROVE  LET r == [AdornerStartDocument(s, d) EXCEPT !.cache = {}, !.open = <<>>, !.closed = <<>>]
           IN  /\ r \in Live /\ r.cur = "main" /\ r.doc = d /\ r.docDb = Storage
               /\ r.dec["main"] = Cleared /\ r.dec["note"] = NoteStart
               /\ r.stack = <<>> /\ r.output = IF Storage THEN <<Declaration>> ELSE <<>>
               /\ r.breaker = IF Breaks THEN BreakerStartDocument(s.breaker) ELSE s.breaker
               /\ r.open = <<>> /\ r.closed = <<>> /\ r.cache = {}
               /\ r.pages = s.pages /\ r.words = s.words
<1> DEFINE r == AdornerReset(s, d)
           output == IF Storage THEN <<Declaration>> ELSE <<>>
           q == [AdornerStartDocument(s, d) EXCEPT !.cache = {}, !.open = <<>>, !.closed = <<>>]
<1>1. /\ r \in Live /\ r.cur = "main" /\ r.doc = d /\ r.docDb = s.docDb
      /\ r.dec["main"] = Cleared /\ r.dec["note"] = NoteStart
      /\ r.stack = s.stack /\ r.output = <<>> /\ r.pages = s.pages
      /\ r.breaker = IF Breaks THEN BreakerStartDocument(s.breaker) ELSE s.breaker
      /\ r.words = s.words
  BY ResetFacts
<1> HIDE DEF r
<1>2. output \in Seq(Item) /\ <<>> \o <<Declaration>> = <<Declaration>>
  <2>1. Declaration \in Item /\ <<>> \in Seq(Item)
    BY EmptySeq DEF Item
  <2>2. <<Declaration>> \in Seq(Item)
    BY <2>1
  <2> QED
    BY <2>1, <2>2, ConcatEmptySeq
<1>3. Storage \in BOOLEAN
  BY DEF Storage
<1>4. AdornerStartDocument(s, d) = [r EXCEPT !.docDb = Storage, !.output = output]
  BY <1>1, <1>2 DEF AdornerStartDocument, Output, Live, Handler, r
<1> HIDE DEF output
<1>5. q = [r EXCEPT !.docDb = Storage, !.output = output, !.cache = {}, !.open = <<>>, !.closed = <<>>]
  BY <1>1, <1>4 DEF Live, Handler
<1>6. q \in Live
  BY <1>1, <1>2, <1>3, <1>5, EmptySeq DEF Live, Handler
<1>7. s.stack = <<>>
  BY DEF Resting
<1> QED
  BY <1>1, <1>5, <1>6, <1>7 DEF Live, Handler, output

\* The page with which a document ends, and the handler after it.
EndText(c) == IF Breaks THEN RecordText(c) ELSE c.output

LEMMA EndedFacts ==
    ASSUME NEW A, Closed(A), NEW s \in A,
           \A r \in A : /\ r.doc # 0 /\ r.docDb \in {Storage, ~ Breaks}
                        /\ ~ Storage => r.output = <<>>
                        /\ Settled(r) => Output(r, <<<<"text", "\n">>>>) \in A
    PROVE  LET r == AdornerEndDocument(s)
           IN  \E c \in A :
                 /\ Settled(c) /\ c \in Live /\ c = LastHandler(s)
                 /\ r \in Live /\ r.doc = 0 /\ r.docDb = FALSE /\ r.stack = <<>>
                 /\ r.output = <<>> /\ \A k \in {"main", "note"} : r.dec[k] = Cleared
                 /\ r.pages = IF c.docDb
                              THEN [c.pages EXCEPT ![c.doc] =
                                      WithPage(@, Current(c).at.pge, EndText(c))]
                              ELSE c.pages
                 /\ r.breaker = IF Breaks THEN [c.breaker EXCEPT !.header = NextHeader(c.breaker, c.stack)]
                                ELSE c.breaker
                 /\ EndText(c) \in Seq(Item)
                 /\ r.open = c.open /\ r.closed = <<>> /\ r.cache = c.cache /\ r.words = c.words
<1>1. \A r \in A : Settled(r) => Output(r, <<<<"text", "\n">>>>) \in A
  OBVIOUS
<1>2. PICK c \in A : Settled(c) /\ c = LastHandler(s) /\ AdornerEndDocument(s) = Ended(c)
  BY <1>1, EndDocumentKeeps
<1> DEFINE page == LastPage(c)
           text == EndText(c)
           pages == IF c.docDb THEN [c.pages EXCEPT ![c.doc] = WithPage(@, Current(c).at.pge, text)]
                    ELSE c.pages
           breaker == IF Breaks THEN [c.breaker EXCEPT !.header = NextHeader(c.breaker, c.stack)]
                      ELSE c.breaker
           r == AdornerEndDocument(s)
<1>3. /\ c \in Live /\ c.doc # 0 /\ c.docDb \in {Storage, ~ Breaks}
      /\ ~ Storage => c.output = <<>>
  BY DEF Closed
<1>4. text \in Seq(Item)
  <2>1. Footer(c.stack) \in Seq(Item) /\ c.output \in Seq(Item) /\ c.breaker.header \in Seq(Item)
    BY <1>3, FooterType DEF Live, Handler, RecordBreaker
  <2> QED
    BY <2>1, ConcatProperties DEF EndText, RecordText
<1> HIDE DEF text
<1> DEFINE q == AddDocRecord(c, text)
<1>5. /\ q \in Live /\ q.cur = c.cur /\ q.dec = c.dec /\ q.doc = c.doc
      /\ q.stack = c.stack /\ q.docDb = c.docDb /\ q.breaker = c.breaker
      /\ q.pages = pages /\ q.words = c.words /\ q.output = c.output
      /\ q.open = c.open /\ q.closed = c.closed /\ q.cache = c.cache
  BY <1>3, <1>4, RecordedFacts
<1> HIDE DEF pages
<1>6. /\ page \in Live /\ page.pages = pages /\ page.breaker = breaker /\ page.words = c.words
      /\ page.output = <<>> /\ page.open = c.open /\ page.closed = <<>> /\ page.cache = c.cache
  <2>0. c.closed = <<>>
    BY <1>2 DEF Settled
  <2>1. CASE Breaks
    <3>1. page = NextPage(q)
      BY <2>1 DEF PageTurned, text, EndText, LastPage
    <3> HIDE DEF q, page
    <3>2. /\ page \in Live /\ page.breaker = [q.breaker EXCEPT !.header = NextHeader(q.breaker, q.stack)]
          /\ page.pages = q.pages /\ page.words = q.words /\ page.output = <<>>
          /\ page.open = q.open /\ page.closed = q.closed /\ page.cache = q.cache
      BY <1>5, <3>1, NextPageFacts
    <3> QED
      BY <1>5, <2>0, <2>1, <3>2
  <2>2. CASE ~ Breaks /\ c.docDb
    <3>1. page = [q EXCEPT !.output = <<>>]
      BY <2>2 DEF text, EndText, LastPage
    <3> HIDE DEF q, page
    <3>2. page \in Live
      BY <1>5, <3>1, EmptySeq DEF Live, Handler
    <3> QED
      BY <1>5, <2>0, <2>2, <3>1, <3>2 DEF Live, Handler
  <2>3. CASE ~ Breaks /\ ~ c.docDb
    <3>1. c.output = <<>>
      BY <1>3, <2>3 DEF Storage
    <3>2. pages = c.pages
      BY <2>3 DEF pages
    <3> QED
      BY <1>3, <2>0, <2>3, <3>1, <3>2 DEF LastPage
  <2> QED
    BY <2>1, <2>2, <2>3
<1> HIDE DEF page, breaker
<1>7. r = [page EXCEPT !.docDb = FALSE, !.stack = <<>>, !.doc = 0,
                       !.dec = [k \in {"main", "note"} |-> Cleared]]
  <2>1. page \in Handler /\ DOMAIN page.dec = {"main", "note"}
    BY <1>6 DEF Live, Handler
  <2>2. r = [page EXCEPT !.docDb = FALSE, !.stack = <<>>, !.doc = 0,
                         !.dec = [k \in DOMAIN page.dec |-> Cleared]]
    BY <1>2 DEF page, Ended
  <2> QED
    BY <2>1, <2>2
<1> DEFINE dec == [k \in {"main", "note"} |-> Cleared]
<1>8. dec \in [{"main", "note"} -> Dec] /\ \A k \in {"main", "note"} : dec[k] = Cleared
  BY StartTypes
<1> HIDE DEF dec, r
<1>9. /\ r \in Live /\ r.doc = 0 /\ r.docDb = FALSE /\ r.stack = <<>>
      /\ r.output = <<>> /\ r.dec = dec /\ r.pages = pages /\ r.breaker = breaker
      /\ r.open = c.open /\ r.closed = <<>> /\ r.cache = c.cache /\ r.words = c.words
  <2>1. 0 \in 0 .. MaxDoc /\ <<>> \in Seq(Elem) /\ FALSE \in BOOLEAN
    BY EmptySeq, BoundAssumption
  <2>2. r = [page EXCEPT !.docDb = FALSE, !.stack = <<>>, !.doc = 0, !.dec = dec]
    BY <1>7 DEF dec
  <2> QED
    BY <1>6, <1>8, <2>1, <2>2 DEF Live, Handler
<1> QED
  BY <1>2, <1>3, <1>4, <1>8, <1>9 DEF pages, breaker, text, r

-----------------------------------------------------------------------------
(***************************************************************************)
(* What the calls of the parser make of the handler, after decorating.     *)
(***************************************************************************)
\* The record breaker keeps its type when a tag is met.
LEMMA BreakerOpensType ==
    ASSUME NEW b \in RecordBreaker, NEW e \in Elem, NEW n \in Nat
    PROVE  BreakerOpens(b, e, n) \in RecordBreaker
<1> DEFINE counted == IF Breaker[e] = "open" THEN [b EXCEPT !.pge = @ + 1] ELSE b
<1>1. counted \in RecordBreaker
  BY DEF RecordBreaker
<1>2. Append(counted.extra, <<"open", e>>) \in Seq(Item)
  <2>1. <<"open", e>> \in Item /\ counted.extra \in Seq(Item)
    BY <1>1 DEF Item, Tag, RecordBreaker
  <2> QED
    BY <2>1
<1> HIDE DEF counted
<1> DEFINE extra == Append(counted.extra, <<"open", e>>)
<1>3. \/ BreakerOpens(b, e, n) = [counted EXCEPT !.level = n, !.extra = extra]
      \/ BreakerOpens(b, e, n) = counted
  BY <1>1 DEF BreakerOpens, counted
<1>4. extra \in Seq(Item)
  BY <1>2
<1> HIDE DEF extra
<1> QED
  BY <1>1, <1>3, <1>4 DEF RecordBreaker

LEMMA BreakerClosesType ==
    ASSUME NEW b \in RecordBreaker, NEW e \in Elem, NEW n \in Nat
    PROVE  BreakerCloses(b, e, n) \in RecordBreaker
<1> DEFINE counted == IF Breaker[e] = "close" THEN [b EXCEPT !.pge = @ + 1] ELSE b
           left == LevelsLeft(DOMAIN b.kept, n)
           extra == Append(b.extra, <<"close", e>>)
           kept == [k \in left \cup {n} |-> IF k = n THEN extra ELSE b.kept[k]]
<1>1. counted \in RecordBreaker
  BY DEF RecordBreaker
<1>2. extra \in Seq(Item)
  <2>1. <<"close", e>> \in Item /\ b.extra \in Seq(Item)
    BY DEF Item, Tag, RecordBreaker
  <2> QED
    BY <2>1
<1>3. PICK D \in SUBSET Nat : b.kept \in [D -> Seq(Item)]
  BY DEF RecordBreaker, Numbered
<1>4. left \subseteq D
  BY <1>3 DEF LevelsLeft
<1> HIDE DEF extra, left
<1>5. kept \in Numbered
  <2>1. kept \in [left \cup {n} -> Seq(Item)]
    BY <1>2, <1>3, <1>4
  <2>2. left \cup {n} \in SUBSET Nat
    BY <1>4
  <2> QED
    BY <2>1, <2>2 DEF Numbered
<1> HIDE DEF counted, kept
<1>6. \/ BreakerCloses(b, e, n) = [counted EXCEPT !.level = 0, !.extra = <<>>, !.kept = kept]
      \/ BreakerCloses(b, e, n) = counted
  BY <1>1 DEF BreakerCloses, counted, kept, extra, left
<1>7. <<>> \in Seq(Item) /\ 0 \in Nat
  BY EmptySeq
<1> QED
  BY <1>1, <1>5, <1>6, <1>7 DEF RecordBreaker

\* The tag of an element is said last, and its node is opened.
Opened(c, e) ==
    [Says(c, <<"open", e>>) EXCEPT !.stack = Append(@, e), !.open = Append(@, NewNode(e))]

LEMMA NewNodeType ==
    ASSUME NEW e \in Elem
    PROVE  NewNode(e) \in Node /\ Dated(NewNode(e)) /\ NewNode(e).elem = e
<1>1. NewNode(e) \in Node
  BY EmptySeq DEF NewNode, Node, Nowhere, Place
<1> QED
  BY <1>1 DEF NewNode, Dated

LEMMA OpenedFacts ==
    ASSUME NEW c \in Live, NEW e \in Elem
    PROVE  LET r == Opened(c, e)
               d == [Current(c) EXCEPT !.out = IF Storage THEN Append(@, <<"open", e>>) ELSE @]
           IN  /\ d \in Dec /\ r \in Live /\ Current(r) = d /\ r.cur = c.cur
               /\ \A k \in {"main", "note"} : k # c.cur => r.dec[k] = c.dec[k]
               /\ r.doc = c.doc /\ r.docDb = c.docDb /\ r.breaker = c.breaker
               /\ r.pages = c.pages /\ r.words = c.words /\ r.output = c.output
               /\ r.stack = Append(c.stack, e) /\ r.open = Append(c.open, NewNode(e))
               /\ r.closed = c.closed /\ r.cache = c.cache
<1> DEFINE q == Says(c, <<"open", e>>)
           r == Opened(c, e)
           stack == Append(c.stack, e)
           open == Append(c.open, NewNode(e))
<1>1. <<"open", e>> \in Item
  BY DEF Item, Tag
<1> DEFINE d == [Current(c) EXCEPT !.out = IF Storage THEN Append(@, <<"open", e>>) ELSE @]
<1>2. /\ d \in Dec /\ q \in Live /\ Current(q) = d /\ Alike(c, q) /\ q.output = c.output
      /\ q.open = c.open /\ q.closed = c.closed /\ q.cache = c.cache
  BY <1>1, SaysFacts
<1>3. stack \in Seq(Elem) /\ open \in Seq(Node)
  <2>1. c.stack \in Seq(Elem) /\ c.open \in Seq(Node) /\ NewNode(e) \in Node
    BY NewNodeType DEF Live, Handler
  <2> QED
    BY <2>1
<1> HIDE DEF d
<1>4. r = [q EXCEPT !.stack = stack, !.open = open]
  BY <1>2 DEF Opened, Alike, Live, Handler
<1> HIDE DEF q, r, stack, open
<1>5. r \in Live /\ r.stack = stack /\ r.open = open
  BY <1>2, <1>3, <1>4 DEF Live, Handler
<1>6. /\ r.cur = q.cur /\ r.dec = q.dec /\ r.doc = q.doc /\ r.docDb = q.docDb
      /\ r.breaker = q.breaker /\ r.pages = q.pages /\ r.words = q.words
      /\ r.output = q.output /\ r.closed = q.closed /\ r.cache = q.cache
  BY <1>2, <1>4 DEF Live, Handler
<1> QED
  BY <1>2, <1>5, <1>6 DEF Alike, Current, d, r, stack, open

\* The node of the element that ended moves to the second list.
LEMMA NodeEndedFacts ==
    ASSUME NEW s, AdornerEndNode(s) \in Live, AdornerEndNode(s).open # <<>>
    PROVE  LET t == AdornerEndNode(s)
               r == NodeEnded(s)
               last == [Last(t.open) EXCEPT !.state = "close"]
           IN  /\ r \in Live /\ r.cur = t.cur /\ r.dec = t.dec
               /\ r.doc = t.doc /\ r.docDb = t.docDb /\ r.breaker = t.breaker
               /\ r.pages = t.pages /\ r.words = t.words /\ r.output = t.output
               /\ r.stack = t.stack /\ r.cache = t.cache
               /\ r.open = Front(t.open) /\ r.closed = Append(t.closed, last)
               /\ last \in Node /\ Last(t.open) \in Node /\ last.words = Last(t.open).words
               /\ last.elem = Last(t.open).elem /\ last.state = "close"
<1> DEFINE t == AdornerEndNode(s)
           r == NodeEnded(s)
           last == [Last(t.open) EXCEPT !.state = "close"]
           open == Front(t.open)
           closed == Append(t.closed, last)
<1>1. t \in Live /\ t.open \in Seq(Node) /\ t.closed \in Seq(Node) /\ t.open # <<>>
  BY DEF Live, Handler
<1>2. Last(t.open) \in Node /\ open \in Seq(Node)
  <2>1. Len(t.open) \in 1 .. Len(t.open)
    BY <1>1
  <2> QED
    BY <1>1, <2>1 DEF Last, Front
<1>3. r = [t EXCEPT !.open = open, !.closed = closed]
  BY <1>1 DEF NodeEnded, Live, Handler
<1> HIDE DEF t, open
<1>4. last \in Node /\ last.words = Last(t.open).words /\ last.elem = Last(t.open).elem
      /\ last.state = "close"
  BY <1>2 DEF Node
<1> HIDE DEF last
<1>5. closed \in Seq(Node)
  BY <1>1, <1>4
<1> HIDE DEF closed
<1>6. r \in Live /\ r.open = open /\ r.closed = closed
  BY <1>1, <1>2, <1>3, <1>5 DEF Live, Handler
<1> HIDE DEF r
<1> QED
  BY <1>1, <1>2, <1>3, <1>4, <1>6 DEF Live, Handler, t, r, open, closed, last

\* Characters are added to the buffer, and as items to the content that is kept.
Raw(c) == [i \in DOMAIN c |-> <<"text", c[i]>>]

Buffered(s, c) ==
    [s EXCEPT !.dec[s.cur].buf = @ \o c,
              !.breaker.extra = IF Breaks /\ s.breaker.level # 0 THEN @ \o Raw(c) ELSE @]

LEMMA ChunkType ==
    ASSUME NEW c \in Chunk
    PROVE  /\ c \in Seq(Text) /\ Raw(c) \in Seq(Item) /\ Len(Raw(c)) = Len(c)
           /\ \A i \in 1 .. Len(c) : Raw(c)[i] = <<"text", c[i]>> /\ c[i] \in Text
<1>1. c \in Seq(Text)
  BY TextAssumption DEF Text
<1>2. DOMAIN c = 1 .. Len(c) /\ Len(c) \in Nat /\ \A i \in 1 .. Len(c) : c[i] \in Text
  BY <1>1
<1>3. \A i \in 1 .. Len(c) : <<"text", c[i]>> \in Item
  BY <1>2 DEF Item
<1>4. Raw(c) \in [1 .. Len(c) -> Item]
  BY <1>2, <1>3 DEF Raw
<1>5. Raw(c) \in Seq(Item) /\ Len(Raw(c)) = Len(c)
  BY <1>2, <1>4
<1> QED
  BY <1>1, <1>2, <1>5 DEF Raw

LEMMA BufferedFacts ==
    ASSUME NEW s \in Live, NEW c \in Chunk
    PROVE  LET r == Buffered(s, c)
               d == [Current(s) EXCEPT !.buf = @ \o c]
           IN  /\ d \in Dec /\ r \in Live /\ Current(r) = d /\ r.cur = s.cur
               /\ \A k \in {"main", "note"} : k # s.cur => r.dec[k] = s.dec[k]
               /\ r.doc = s.doc /\ r.docDb = s.docDb /\ r.stack = s.stack
               /\ r.breaker = [s.breaker EXCEPT !.extra =
                     IF Breaks /\ s.breaker.level # 0 THEN @ \o Raw(c) ELSE @]
               /\ r.pages = s.pages /\ r.words = s.words /\ r.output = s.output
               /\ r.open = s.open /\ r.closed = s.closed /\ r.cache = s.cache
<1> DEFINE r == Buffered(s, c)
           d == [Current(s) EXCEPT !.buf = @ \o c]
           extra == IF Breaks /\ s.breaker.level # 0 THEN s.breaker.extra \o Raw(c)
                    ELSE s.breaker.extra
           breaker == [s.breaker EXCEPT !.extra = extra]
           q == WithDec(s, d)
<1>1. /\ s \in Handler /\ s.cur \in {"main", "note"} /\ Current(s) \in Dec
      /\ s.breaker \in RecordBreaker
  BY CurrentType DEF Live, Handler
<1>2. c \in Seq(Text) /\ Raw(c) \in Seq(Item)
  BY ChunkType
<1>3. Current(s).buf \o c \in Seq(Text)
  <2>1. Current(s).buf \in Seq(Text)
    BY <1>1 DEF Dec
  <2> QED
    BY <1>2, <2>1, ConcatProperties
<1>4. d \in Dec
  BY <1>1, <1>3 DEF Dec
<1>5. extra \in Seq(Item)
  <2>1. s.breaker.extra \in Seq(Item)
    BY <1>1 DEF RecordBreaker
  <2> QED
    BY <1>2, <2>1, ConcatProperties
<1>6. breaker \in RecordBreaker
  <2> HIDE DEF extra
  <2> QED
    BY <1>1, <1>5 DEF RecordBreaker
<1>7. r = [q EXCEPT !.breaker = breaker]
  <2> DEFINE buf == Current(s).buf \o c
  <2>1. r = [s EXCEPT !.dec[s.cur].buf = buf, !.breaker.extra = extra]
    BY <1>1 DEF Buffered, Current, Handler, Dec, RecordBreaker
  <2>2. d = [Current(s) EXCEPT !.buf = buf]
    BY <1>1 DEF Dec
  <2> HIDE DEF buf, d, extra, r
  <2>3. r = [s EXCEPT !.dec = [s.dec EXCEPT ![s.cur] = [s.dec[s.cur] EXCEPT !.buf = buf]],
                      !.breaker = breaker]
    BY <2>1
  <2>4. r = [s EXCEPT !.dec = [s.dec EXCEPT ![s.cur] = d], !.breaker = breaker]
    BY <2>2, <2>3 DEF Current
  <2> HIDE DEF breaker
  <2> QED
    BY <1>1, <2>4 DEF WithDec, Handler
<1> HIDE DEF d
<1>8. /\ q \in Live /\ Current(q) = d /\ Alike(s, q) /\ q.output = s.output
      /\ q.open = s.open /\ q.closed = s.closed /\ q.cache = s.cache
  BY <1>4, WithDecFacts
<1> HIDE DEF q, r, breaker
<1>9. /\ r \in Live /\ r.dec = q.dec /\ r.cur = q.cur /\ r.breaker = breaker
      /\ r.doc = q.doc /\ r.docDb = q.docDb /\ r.stack = q.stack /\ r.pages = q.pages
      /\ r.words = q.words /\ r.output = q.output /\ r.open = q.open
      /\ r.closed = q.closed /\ r.cache = q.cache
  BY <1>6, <1>7, <1>8 DEF Live, Handler
<1>10. breaker = [s.breaker EXCEPT !.extra =
                    IF Breaks /\ s.breaker.level # 0 THEN @ \o Raw(c) ELSE @]
  BY DEF breaker
<1> QED
  BY <1>4, <1>8, <1>9, <1>10 DEF Alike, Current, r, d

\* They are decorated, if the buffer is cut.
LEMMA CharactersKeep ==
    ASSUME NEW A, Closed(A), NEW s, NEW c, Buffered(s, c) \in A
    PROVE  AdornerAddCharacters(s, c) \in A
<1> DEFINE more == Buffered(s, c)
<1>1. AdornerAddCharacters(s, c) = IF NeedsDecorate(more, c) THEN Decorate(more) ELSE more
  BY DEF AdornerAddCharacters, Buffered, Raw
<1>2. Decorate(more) \in A
  BY DecoratingKeeps DEF Closed
<1> QED
  BY <1>1, <1>2

\* The open nodes note them.
WithText(n, c) == [n EXCEPT !.text = @ \o c]

LEMMA NotedFacts ==
    ASSUME NEW s, NEW c \in Chunk, AdornerAddCharacters(s, c) \in Live
    PROVE  LET t == AdornerAddCharacters(s, c)
               r == Noted(s, c)
           IN  /\ r \in Live /\ r.cur = t.cur /\ r.dec = t.dec
               /\ r.doc = t.doc /\ r.docDb = t.docDb /\ r.breaker = t.breaker
               /\ r.pages = t.pages /\ r.words = t.words /\ r.output = t.output
               /\ r.stack = t.stack /\ r.closed = t.closed /\ r.cache = t.cache
               /\ DOMAIN r.open = DOMAIN t.open
               /\ \A i \in DOMAIN t.open :
                     /\ r.open[i] = WithText(t.open[i], c)
                     /\ r.open[i].elem = t.open[i].elem /\ r.open[i].state = t.open[i].state
                     /\ r.open[i].words = t.open[i].words
                     /\ r.open[i].start = t.open[i].start /\ r.open[i].end = t.open[i].end
<1> DEFINE t == AdornerAddCharacters(s, c)
           r == Noted(s, c)
           open == [i \in DOMAIN t.open |-> WithText(t.open[i], c)]
<1>1. t \in Live /\ t.open \in Seq(Node)
  BY DEF Live, Handler
<1>2. r = [t EXCEPT !.open = open]
  BY DEF Noted, WithText
<1> HIDE DEF t
<1>3. ASSUME NEW i \in DOMAIN t.open
      PROVE  /\ WithText(t.open[i], c) \in Node
             /\ WithText(t.open[i], c).elem = t.open[i].elem
             /\ WithText(t.open[i], c).state = t.open[i].state
             /\ WithText(t.open[i], c).words = t.open[i].words
             /\ WithText(t.open[i], c).start = t.open[i].start
             /\ WithText(t.open[i], c).end = t.open[i].end
  <2>1. t.open[i] \in Node /\ c \in Seq(Text)
    BY <1>1, <1>3, ChunkType
  <2>2. t.open[i].text \o c \in Seq(Text)
    <3>1. t.open[i].text \in Seq(Text)
      BY <2>1 DEF Node
    <3> QED
      BY <2>1, <3>1, ConcatProperties
  <2> QED
    BY <2>1, <2>2 DEF WithText, Node
<1>4. open \in Seq(Node) /\ DOMAIN open = DOMAIN t.open
  <2>1. DOMAIN t.open = 1 .. Len(t.open) /\ Len(t.open) \in Nat
    BY <1>1
  <2>2. open \in [1 .. Len(t.open) -> Node]
    BY <1>3, <2>1
  <2> QED
    BY <2>1, <2>2
<1>5. \A i \in DOMAIN t.open : open[i] = WithText(t.open[i], c)
  OBVIOUS
<1> HIDE DEF open, r
<1>6. r \in Live /\ r.open = open
  BY <1>1, <1>2, <1>4 DEF Live, Handler
<1>7. /\ r.cur = t.cur /\ r.dec = t.dec
      /\ r.doc = t.doc /\ r.docDb = t.docDb /\ r.breaker = t.breaker
      /\ r.pages = t.pages /\ r.words = t.words /\ r.output = t.output
      /\ r.stack = t.stack /\ r.closed = t.closed /\ r.cache = t.cache
  BY <1>1, <1>2 DEF Live, Handler
<1> QED
  BY <1>3, <1>4, <1>5, <1>6, <1>7 DEF t, r, open

-----------------------------------------------------------------------------
(***************************************************************************)
(* Types, and that nothing is left where nobody looks for it.              *)
(***************************************************************************)
\* The elements of nodes, and when one is opened or taken away.
LEMMA ElemsType ==
    /\ Elems(<<>>) = <<>>
    /\ \A open \in Seq(Node) : Len(Elems(open)) = Len(open) /\ Elems(open) \in Seq(Elem)
<1>1. Elems(<<>>) = <<>>
  BY DEF Elems
<1>2. ASSUME NEW open \in Seq(Node)
      PROVE  Len(Elems(open)) = Len(open) /\ Elems(open) \in Seq(Elem)
  <2>1. DOMAIN open = 1 .. Len(open) /\ Len(open) \in Nat
    OBVIOUS
  <2>2. \A i \in 1 .. Len(open) : open[i].elem \in Elem
    <3>1. \A n \in Node : n.elem \in Elem
      BY DEF Node
    <3>2. \A i \in 1 .. Len(open) : open[i] \in Node
      BY <2>1
    <3> QED
      BY <3>1, <3>2
  <2>3. Elems(open) \in [1 .. Len(open) -> Elem]
    BY <2>1, <2>2 DEF Elems
  <2> QED
    BY <2>1, <2>3
<1> QED
  BY <1>1, <1>2

LEMMA ElemsAppend ==
    ASSUME NEW open \in Seq(Node), NEW n \in Node
    PROVE  Elems(Append(open, n)) = Append(Elems(open), n.elem)
<1>1. /\ DOMAIN Append(open, n) = 1 .. Len(open) + 1
      /\ \A i \in 1 .. Len(open) : Append(open, n)[i] = open[i]
      /\ Append(open, n)[Len(open) + 1] = n
      /\ Len(open) \in Nat
  OBVIOUS
<1>2. Elems(open) \in Seq(Elem) /\ Len(Elems(open)) = Len(open)
  BY ElemsType
<1>3. n.elem \in Elem
  BY DEF Node
<1>4. /\ DOMAIN Append(Elems(open), n.elem) = 1 .. Len(open) + 1
      /\ \A i \in 1 .. Len(open) : Append(Elems(open), n.elem)[i] = open[i].elem
      /\ Append(Elems(open), n.elem)[Len(open) + 1] = n.elem
  <2>1. \A i \in 1 .. Len(open) : Elems(open)[i] = open[i].elem
    BY <1>1 DEF Elems
  <2> HIDE DEF Elems
  <2> QED
    BY <1>1, <1>2, <1>3, <2>1
<1>5. /\ DOMAIN Elems(Append(open, n)) = 1 .. Len(open) + 1
      /\ \A i \in 1 .. Len(open) + 1 : Elems(Append(open, n))[i] = Append(open, n)[i].elem
  BY <1>1 DEF Elems
<1>6. \A i \in 1 .. Len(open) + 1 : Elems(Append(open, n))[i] = Append(Elems(open), n.elem)[i]
  BY <1>1, <1>4, <1>5
<1>7. /\ Elems(Append(open, n)) = [i \in 1 .. Len(open) + 1 |-> Elems(Append(open, n))[i]]
      /\ Append(Elems(open), n.elem) = [i \in 1 .. Len(open) + 1 |-> Append(Elems(open), n.elem)[i]]
  <2>1. Append(Elems(open), n.elem) \in Seq(Elem)
    BY <1>2, <1>3
  <2> QED
    BY <1>4, <1>5, <2>1 DEF Elems
<1> QED
  BY <1>6, <1>7

LEMMA ElemsFront ==
    ASSUME NEW open \in Seq(Node), open # <<>>
    PROVE  /\ Elems(Front(open)) = Front(Elems(open)) /\ Front(open) \in Seq(Node)
           /\ Last(open).elem = Last(Elems(open)) /\ Last(open) \in Node
           /\ \A i \in DOMAIN Front(open) : i \in DOMAIN open /\ Front(open)[i] = open[i]
           /\ Len(open) \in DOMAIN open /\ Last(open) = open[Len(open)]
<1>1. /\ Len(open) \in Nat /\ Len(open) # 0 /\ DOMAIN open = 1 .. Len(open)
      /\ Front(open) = SubSeq(open, 1, Len(open) - 1) /\ Last(open) = open[Len(open)]
  BY DEF Front, Last
<1>2. Elems(open) \in Seq(Elem) /\ Len(Elems(open)) = Len(open)
  BY ElemsType
<1>3. \A i \in 1 .. Len(open) : Elems(open)[i] = open[i].elem
  BY <1>1 DEF Elems
<1>4. /\ Front(open) \in Seq(Node) /\ DOMAIN Front(open) = 1 .. Len(open) - 1
      /\ \A i \in 1 .. Len(open) - 1 : Front(open)[i] = open[i]
  BY <1>1
<1>5. /\ DOMAIN Front(Elems(open)) = 1 .. Len(open) - 1
      /\ Front(Elems(open)) = [i \in 1 .. Len(open) - 1 |-> Elems(open)[i]]
      /\ Last(Elems(open)) = Elems(open)[Len(open)]
  BY <1>1, <1>2 DEF Front, Last
<1>6. Elems(Front(open)) = [i \in 1 .. Len(open) - 1 |-> Front(open)[i].elem]
  BY <1>4 DEF Elems
<1>7. Elems(Front(open)) = Front(Elems(open))
  BY <1>1, <1>3, <1>4, <1>5, <1>6
<1>8. Last(open).elem = Last(Elems(open)) /\ Last(open) \in Node /\ Len(open) \in DOMAIN open
  BY <1>1, <1>3, <1>5
<1> QED
  BY <1>1, <1>4, <1>7, <1>8

\* What a clean handler says, puts out or counts leaves it clean.
LEMMA CleanSays ==
    ASSUME NEW s, NEW r \in CleanSet(s), NEW item \in Item
    PROVE  Says(r, item) \in CleanSet(s)
<1> DEFINE q == Says(r, item)
           d == [Current(r) EXCEPT !.out = IF Storage THEN Append(@, item) ELSE @]
<1>1. r \in Live /\ r.doc # 0 /\ Kept(s, r) /\ Clean(r)
  BY DEF CleanSet
<1>2. /\ q \in Live /\ Current(q) = d /\ Alike(r, q) /\ q.output = r.output
      /\ q.open = r.open /\ q.closed = r.closed /\ q.cache = r.cache
  BY <1>1, SaysFacts
<1>3. ~ Storage => d.out = <<>>
  <2>1. Current(r) \in Dec
    BY <1>1, CurrentType
  <2>2. ASSUME ~ Storage PROVE d.out = Current(r).out
    BY <2>1, <2>2 DEF Dec
  <2> QED
    BY <1>1, <2>2 DEF Clean
<1> HIDE DEF q, d
<1>4. Clean(q)
  BY <1>1, <1>2, <1>3 DEF Clean, Alike
<1>5. Kept(s, q)
  BY <1>1, <1>2 DEF Kept, Alike
<1> QED
  BY <1>1, <1>2, <1>4, <1>5 DEF CleanSet, Alike, q

LEMMA CleanOutput ==
    ASSUME NEW s, NEW r \in CleanSet(s), NEW item \in Item
    PROVE  /\ Output(r, <<item>>) \in CleanSet(s)
           /\ Current(Output(r, <<item>>)) = Current(r)
           /\ Output(r, <<item>>).pages = r.pages /\ Output(r, <<item>>).breaker = r.breaker
           /\ Output(r, <<item>>).cache = r.cache /\ Output(r, <<item>>).open = r.open
           /\ Output(r, <<item>>).closed = r.closed /\ Output(r, <<item>>).dec = r.dec
           /\ Output(r, <<item>>).cur = r.cur
           /\ Output(r, <<item>>).output = IF Storage THEN Append(r.output, item) ELSE r.output
<1> DEFINE q == Output(r, <<item>>)
           output == Append(r.output, item)
<1>1. r \in Live /\ r.doc # 0 /\ Kept(s, r) /\ Clean(r)
  BY DEF CleanSet
<1>2. output \in Seq(Item) /\ r.output \o <<item>> = output
  BY <1>1 DEF Live, Handler
<1>3. q = IF Storage THEN [r EXCEPT !.output = output] ELSE r
  BY <1>2 DEF Output
<1> HIDE DEF output
<1>4. /\ q \in Live /\ q.output = IF Storage THEN output ELSE r.output
      /\ q.dec = r.dec /\ q.cur = r.cur /\ q.doc = r.doc /\ q.stack = r.stack
      /\ q.docDb = r.docDb /\ q.words = r.words /\ q.open = r.open
      /\ q.closed = r.closed /\ q.cache = r.cache /\ q.pages = r.pages /\ q.breaker = r.breaker
  <2>1. CASE Storage
    <3>1. q = [r EXCEPT !.output = output]
      BY <1>3, <2>1
    <3> HIDE DEF q
    <3> QED
      BY <1>1, <1>2, <2>1, <3>1 DEF Live, Handler
  <2>2. CASE ~ Storage
    BY <1>1, <1>3, <2>2
  <2> QED
    BY <2>1, <2>2
<1> HIDE DEF q
<1>5. Clean(q) /\ Kept(s, q)
  BY <1>1, <1>4 DEF Clean, Kept, Current
<1> QED
  BY <1>1, <1>4, <1>5 DEF CleanSet, Current, q, output

LEMMA CleanBreaker ==
    ASSUME NEW s, NEW r \in CleanSet(s), NEW b \in RecordBreaker
    PROVE  [r EXCEPT !.breaker = b] \in CleanSet(s)
<1> DEFINE q == [r EXCEPT !.breaker = b]
<1>1. r \in Live /\ r.doc # 0 /\ Kept(s, r) /\ Clean(r)
  BY DEF CleanSet
<1>2. /\ q \in Live /\ q.dec = r.dec /\ q.cur = r.cur /\ q.doc = r.doc /\ q.stack = r.stack
      /\ q.docDb = r.docDb /\ q.words = r.words /\ q.open = r.open /\ q.output = r.output
      /\ q.closed = r.closed /\ q.cache = r.cache
  BY <1>1 DEF Live, Handler
<1> HIDE DEF q
<1>3. Clean(q) /\ Kept(s, q)
  BY <1>1, <1>2 DEF Clean, Kept, Current
<1> QED
  BY <1>1, <1>2, <1>3 DEF CleanSet, q

\* A document ends: its words are stored, and the handler is as it was made, but
\* for the nodes that are open.
LEMMA CleanFlushed ==
    ASSUME NEW s \in Live, s.doc # 0, Clean(s), s.docDb \in {Storage, ~ Breaks}
    PROVE  /\ Flushed(s) \in Live /\ Flushed(s).doc = 0 /\ Resting(Flushed(s))
           /\ \A w \in Flushed(s).words : w \in s.words \/ (w.doc = s.doc /\ w.pos # 0)
<1> DEFINE A == CleanSet(s)
           ended == AdornerEndDocument(s)
           r == Flushed(s)
<1>1. s \in A
  BY DEF CleanSet, Kept
<1>2. Closed(A)
  BY CleanIsClosed
<1>3. <<"text", "\n">> \in Item
  BY DEF Item, Text, Spaces
<1>4. \A q \in A : Settled(q) => Output(q, <<<<"text", "\n">>>>) \in A
  BY <1>3, CleanOutput
<1>5. \A q \in A : /\ q.doc # 0 /\ q.docDb \in {Storage, ~ Breaks} /\ q \in Live
                   /\ ~ Storage => q.output = <<>>
                   /\ q.words = s.words /\ q.doc = s.doc
                   /\ \A i \in DOMAIN q.open : Dated(q.open[i])
                   /\ \A w \in q.cache : w.doc = q.doc /\ w.pos # 0
  BY DEF CleanSet, Kept, Clean
<1> HIDE DEF A, r, ended
<1>6. PICK c \in A :
        /\ ended \in Live /\ ended.doc = 0 /\ ended.docDb = FALSE /\ ended.stack = <<>>
        /\ ended.output = <<>> /\ \A k \in {"main", "note"} : ended.dec[k] = Cleared
        /\ ended.open = c.open /\ ended.closed = <<>> /\ ended.cache = c.cache
        /\ ended.words = c.words
  <2>1. \A q \in A : /\ q.doc # 0 /\ q.docDb \in {Storage, ~ Breaks}
                     /\ ~ Storage => q.output = <<>>
                     /\ Settled(q) => Output(q, <<<<"text", "\n">>>>) \in A
    BY <1>4, <1>5
  <2> HIDE DEF ended
  <2> QED
    BY <1>1, <1>2, <2>1, EndedFacts DEF ended
<1> DEFINE words == ended.words \cup ended.cache
<1>7. r = [ended EXCEPT !.words = words, !.cache = {}]
  BY DEF Flushed, r, ended
<1>8. words \in SUBSET Entry /\ \A w \in words : w \in s.words \/ (w.doc = s.doc /\ w.pos # 0)
  <2>1. ended.words \in SUBSET Entry /\ ended.cache \in SUBSET Entry
    BY <1>6 DEF Live, Handler
  <2> QED
    BY <1>5, <1>6, <2>1
<1> HIDE DEF words, ended, r
<1>9. /\ r \in Live /\ r.words = words /\ r.cache = {} /\ r.doc = ended.doc
      /\ r.docDb = ended.docDb /\ r.stack = ended.stack /\ r.output = ended.output
      /\ r.dec = ended.dec /\ r.open = ended.open /\ r.closed = ended.closed
  BY <1>6, <1>7, <1>8 DEF Live, Handler
<1>10. Resting(r)
  BY <1>5, <1>6, <1>9 DEF Resting
<1> QED
  BY <1>6, <1>8, <1>9, <1>10 DEF r

\* While a document is parsed.
Working(s) ==
    /\ s.cur # "none" /\ s.docDb = Storage
    /\ Clean(s) /\ Elems(s.open) = s.stack

(***************************************************************************)
(* The inductive invariant of the types: the handler is at rest between    *)
(* two documents, and clean while one is parsed.                           *)
(***************************************************************************)
Steady ==
    /\ ix \in Handler
    /\ begun \in 0 .. MaxDoc /\ events \in 0 .. MaxEvent
    /\ stuck \in BOOLEAN /\ rooted \in BOOLEAN /\ usage \in Usages
    /\ done \subseteq 1 .. begun
    /\ \A w \in ix.words : w.doc \in 1 .. begun /\ w.pos # 0
    /\ IF ix.doc = 0 THEN Resting(ix) ELSE ix.doc = begun /\ Working(ix)

LEMMA SteadyInit == Init => Steady
<1> SUFFICES ASSUME Init PROVE Steady
  OBVIOUS
<1> DEFINE pages == [d \in 1 .. MaxDoc |-> [x \in {} |-> <<>>]]
<1>1. pages \in [1 .. MaxDoc -> Numbered]
  <2>1. [x \in {} |-> <<>>] \in [{} -> Seq(Item)]
    OBVIOUS
  <2>2. {} \in SUBSET Nat
    OBVIOUS
  <2>3. [x \in {} |-> <<>>] \in Numbered
    BY <2>1, <2>2 DEF Numbered
  <2> QED
    BY <2>3
<1>2. NewBreaker \in RecordBreaker
  <2>1. [x \in {} |-> <<>>] \in [{} -> Seq(Item)]
    OBVIOUS
  <2>2. {} \in SUBSET Nat
    OBVIOUS
  <2>3. [x \in {} |-> <<>>] \in Numbered
    BY <2>1, <2>2 DEF Numbered
  <2>4. <<>> \in Seq(Item)
    BY EmptySeq
  <2> QED
    BY <2>3, <2>4 DEF NewBreaker, RecordBreaker
<1> HIDE DEF pages
<1>3. ix = NewHandler(pages, {})
  BY DEF Init, pages
<1>4. 0 \in 0 .. MaxDoc /\ 0 \in 0 .. MaxEvent
  BY BoundAssumption
<1>5. /\ <<>> \in Seq(Elem) /\ <<>> \in Seq(Item) /\ <<>> \in Seq(Node)
  BY EmptySeq
<1> DEFINE dec == [main |-> Cleared, note |-> Cleared]
<1>6. dec \in [{"main", "note"} -> Dec] /\ dec["main"] = Cleared /\ dec["note"] = Cleared
  BY StartTypes
<1> HIDE DEF dec
<1>7. ix \in Handler
  BY <1>1, <1>2, <1>3, <1>4, <1>5, <1>6 DEF NewHandler, Handler, dec
<1>8. Resting(ix) /\ ix.doc = 0 /\ ix.words = {}
  BY <1>3, <1>6 DEF NewHandler, Resting, dec
<1> QED
  BY <1>4, <1>7, <1>8 DEF Init, Steady

\* A document begins.
LEMMA SteadyStart ==
    ASSUME Steady, NEW d \in 1 .. MaxDoc, StartDocument(d)
    PROVE  Steady'
<1>1. /\ ix.doc = 0 /\ d = begun + 1 /\ begun' = d /\ rooted' = FALSE
      /\ UNCHANGED <<usage, events, stuck, done>>
  BY DEF StartDocument, IsNext
<1> DEFINE r == [AdornerStartDocument(ix, d) EXCEPT !.cache = {}, !.open = <<>>, !.closed = <<>>]
<1>2. ix \in Handler /\ Resting(ix)
  BY <1>1 DEF Steady
<1>3. /\ r \in Live /\ r.cur = "main" /\ r.doc = d /\ r.docDb = Storage
      /\ r.dec["main"] = Cleared /\ r.dec["note"] = NoteStart
      /\ r.stack = <<>> /\ r.output = IF Storage THEN <<Declaration>> ELSE <<>>
      /\ r.open = <<>> /\ r.closed = <<>> /\ r.cache = {} /\ r.words = ix.words
  BY <1>2, StartedFacts
<1>4. ix' = r
  BY DEF StartDocument
<1> HIDE DEF r
<1>5. Clean(r)
  <2>1. Blank(Cleared) /\ Blank(NoteStart)
    BY StartTypes
  <2> QED
    BY <1>3, <2>1 DEF Clean, Blank, Current
<1>6. Working(r)
  BY <1>3, <1>5, ElemsType DEF Working
<1>7. /\ r \in Handler /\ d \in 0 .. MaxDoc /\ d # 0
      /\ \A w \in r.words : w.doc \in 1 .. d /\ w.pos # 0
      /\ done \subseteq 1 .. d
  <2>1. /\ begun \in 0 .. MaxDoc /\ \A w \in ix.words : w.doc \in 1 .. begun /\ w.pos # 0
        /\ done \subseteq 1 .. begun
    BY DEF Steady
  <2>2. d \in 0 .. MaxDoc /\ d # 0
    BY <1>3 DEF Live, Handler
  <2> QED
    BY <1>1, <1>3, <2>1, <2>2 DEF Live
<1>8. (IF ix.doc = 0 THEN Resting(ix) ELSE ix.doc = begun /\ Working(ix))'
  BY <1>1, <1>3, <1>4, <1>6, <1>7 DEF Working, Clean, Storage
<1> QED
  BY <1>1, <1>4, <1>7, <1>8 DEF Steady

\* A document whose output cannot be opened begins and ends at once.
LEMMA SteadyFails ==
    ASSUME Steady, NEW d \in 1 .. MaxDoc, StartDocumentFails(d)
    PROVE  Steady'
<1>1. /\ ix.doc = 0 /\ d = begun + 1 /\ begun' = d /\ Keeps
      /\ UNCHANGED <<usage, rooted, events, stuck, done>>
  BY DEF StartDocumentFails, IsNext
<1> DEFINE q == AdornerReset(ix, d)
           r == Flushed(q)
<1>2. ix \in Handler /\ Resting(ix)
  BY <1>1 DEF Steady
<1>3. /\ q \in Live /\ q.cur = "main" /\ q.doc = d /\ q.docDb = ix.docDb
      /\ q.dec["main"] = Cleared /\ q.dec["note"] = NoteStart
      /\ q.stack = ix.stack /\ q.output = <<>>
      /\ q.open = ix.open /\ q.closed = ix.closed
      /\ q.cache = ix.cache /\ q.words = ix.words
  BY <1>2, ResetFacts
<1>4. Storage /\ Breaks
  BY <1>1 DEF Keeps, Storage, Breaks
<1> HIDE DEF q
<1>5. Clean(q) /\ q.docDb \in {Storage, ~ Breaks} /\ q.doc # 0
  <2>1. Blank(NoteStart)
    BY StartTypes
  <2>2. \A i \in DOMAIN q.open : Dated(q.open[i])
    BY <1>2, <1>3 DEF Resting
  <2>3. q.closed = <<>> /\ q.cache = {} /\ q.docDb = FALSE
    BY <1>2, <1>3 DEF Resting
  <2>4. Clean(q) /\ q.doc # 0
    BY <1>3, <1>4, <2>1, <2>2, <2>3 DEF Clean
  <2>5. (~ Breaks) = FALSE
    BY <1>4
  <2> QED
    BY <2>3, <2>4, <2>5
<1>6. /\ r \in Live /\ r.doc = 0 /\ Resting(r)
      /\ \A w \in r.words : w \in q.words \/ (w.doc = q.doc /\ w.pos # 0)
  BY <1>3, <1>5, CleanFlushed
<1>7. ix' = r
  BY DEF StartDocumentFails, q
<1> HIDE DEF r
<1>8. /\ r \in Handler /\ d \in 0 .. MaxDoc
      /\ \A w \in r.words : w.doc \in 1 .. d /\ w.pos # 0
      /\ done \subseteq 1 .. d
  <2>1. /\ begun \in 0 .. MaxDoc /\ \A w \in ix.words : w.doc \in 1 .. begun /\ w.pos # 0
        /\ done \subseteq 1 .. begun
    BY DEF Steady
  <2>2. d \in 0 .. MaxDoc
    BY <1>3 DEF Live, Handler
  <2> QED
    BY <1>1, <1>3, <1>6, <2>1, <2>2 DEF Live
<1>9. (IF ix.doc = 0 THEN Resting(ix) ELSE ix.doc = begun /\ Working(ix))'
  BY <1>6, <1>7 DEF Resting
<1> QED
  BY <1>1, <1>7, <1>8, <1>9 DEF Steady

\* The handler that works on a document is clean.
LEMMA WorkingIsClean ==
    ASSUME Steady, Parsing
    PROVE  /\ ix \in Live /\ ix.doc # 0 /\ ix.doc = begun /\ ix.docDb = Storage
           /\ Elems(ix.open) = ix.stack /\ Clean(ix) /\ ix \in CleanSet(ix)
<1>1. ix \in Handler /\ ix.doc # 0 /\ ix.doc = begun /\ Working(ix)
  BY DEF Steady, Parsing
<1> QED
  BY <1>1 DEF Working, Live, CleanSet, Kept

\* What a call leaves, in general: a handler that works on.
LEMMA SteadyStep ==
    ASSUME Steady, Parsing, NEW r \in Live, ix' = r, Clean(r), r.doc = ix.doc,
           r.docDb = ix.docDb, r.words = ix.words, Elems(r.open) = r.stack,
           events' \in 0 .. MaxEvent, stuck' \in BOOLEAN, rooted' \in BOOLEAN,
           UNCHANGED <<usage, begun, done>>
    PROVE  Steady'
<1>1. /\ ix.doc # 0 /\ ix.doc = begun /\ ix.docDb = Storage
  BY WorkingIsClean
<1>2. Working(r) /\ r \in Handler
  BY <1>1 DEF Working, Live
<1>3. (IF ix.doc = 0 THEN Resting(ix) ELSE ix.doc = begun /\ Working(ix))'
  BY <1>1, <1>2 DEF Working, Clean, Storage
<1> QED
  BY <1>2, <1>3 DEF Steady

\* One more event is counted.
LEMMA EventCounted ==
    ASSUME Steady, MoreEvents
    PROVE  events' \in 0 .. MaxEvent /\ Parsing
<1>1. events \in 0 .. MaxEvent /\ MaxEvent \in Nat
  BY BoundAssumption DEF Steady
<1> QED
  BY <1>1 DEF MoreEvents

\* The tag of an element is met in a clean handler.
LEMMA CleanStartNode ==
    ASSUME NEW s \in Live, s \in CleanSet(s), NEW e \in Elem
    PROVE  \E c \in CleanSet(s) : Starts(s, e, c)
<1> DEFINE A == CleanSet(s)
<1>1. Closed(A)
  BY CleanIsClosed
<1>2. ASSUME NEW r \in A
      PROVE  [r EXCEPT !.breaker = BreakerOpens(@, e, Len(s.stack))] \in A
  <2>1. r.breaker \in RecordBreaker /\ Len(s.stack) \in Nat
    BY DEF CleanSet, Live, Handler
  <2>2. BreakerOpens(r.breaker, e, Len(s.stack)) \in RecordBreaker
    BY <2>1, BreakerOpensType
  <2> QED
    BY <2>2, CleanBreaker
<1> HIDE DEF A
<1>3. \A r \in A : [r EXCEPT !.breaker = BreakerOpens(@, e, Len(s.stack))] \in A
  BY <1>2
<1>4. s \in A
  BY DEF A
<1>5. \E c \in A : Starts(s, e, c)
  BY <1>1, <1>3, <1>4, StartNodeKeeps
<1> QED
  BY <1>5 DEF A

LEMMA StartsOpens ==
    ASSUME NEW s, NEW e \in Elem, NEW c \in Live, Starts(s, e, c)
    PROVE  [AdornerStartNode(s, e) EXCEPT !.open = Append(@, NewNode(e))] = Opened(c, e)
<1> DEFINE q == Says(c, <<"open", e>>)
           open == Append(q.open, NewNode(e))
           stack == Append(q.stack, e)
           r == Opened(c, e)
           a == [AdornerStartNode(s, e) EXCEPT !.open = Append(@, NewNode(e))]
<1>1. q \in Live
  <2>1. <<"open", e>> \in Item
    BY DEF Item, Tag
  <2> QED
    BY <2>1, SaysFacts
<1> HIDE DEF q
<1>2. a = [[q EXCEPT !.stack = stack] EXCEPT !.open = Append(@, NewNode(e))]
  BY DEF q, Starts
<1>3. [q EXCEPT !.stack = stack].open = q.open
  BY <1>1 DEF Live, Handler
<1>4. a = [[q EXCEPT !.stack = stack] EXCEPT !.open = open]
  BY <1>2, <1>3
<1>5. r = [q EXCEPT !.stack = stack, !.open = open]
  BY DEF Opened, q
<1> HIDE DEF stack, open, r, a
<1>6. a = r
  BY <1>4, <1>5
<1> QED
  BY <1>6 DEF a, r

LEMMA SteadyStartNode ==
    ASSUME Steady, NEW e \in Elem, StartNode(e)
    PROVE  Steady'
<1>1. events' \in 0 .. MaxEvent /\ Parsing
  BY EventCounted DEF StartNode
<1>2. ix \in Live /\ Elems(ix.open) = ix.stack /\ ix \in CleanSet(ix)
  BY <1>1, WorkingIsClean
<1>3. PICK c \in CleanSet(ix) : Starts(ix, e, c)
  BY <1>2, CleanStartNode
<1>4. c \in Live /\ Kept(ix, c) /\ Clean(c)
  BY DEF CleanSet
<1> DEFINE r == Opened(c, e)
           d == [Current(c) EXCEPT !.out = IF Storage THEN Append(@, <<"open", e>>) ELSE @]
<1>5. /\ d \in Dec /\ r \in Live /\ Current(r) = d /\ r.cur = c.cur
      /\ \A k \in {"main", "note"} : k # c.cur => r.dec[k] = c.dec[k]
      /\ r.doc = c.doc /\ r.docDb = c.docDb /\ r.words = c.words /\ r.output = c.output
      /\ r.stack = Append(c.stack, e) /\ r.open = Append(c.open, NewNode(e))
      /\ r.closed = c.closed /\ r.cache = c.cache
  BY <1>4, OpenedFacts
<1>6. ix' = r
  <2>1. ix' = [AdornerStartNode(ix, e) EXCEPT !.open = Append(@, NewNode(e))]
    BY DEF StartNode
  <2> QED
    BY <1>3, <1>4, <2>1, StartsOpens
<1>7. ~ Storage => d.out = <<>>
  <2>1. Current(c) \in Dec
    BY <1>4, CurrentType
  <2>2. ASSUME ~ Storage PROVE d.out = Current(c).out
    BY <2>1, <2>2 DEF Dec
  <2> QED
    BY <1>4, <2>2 DEF Clean
<1> HIDE DEF r, d
<1>8. \A i \in DOMAIN r.open : Dated(r.open[i])
  <2>1. c.open \in Seq(Node) /\ Dated(NewNode(e)) /\ NewNode(e) \in Node
    BY <1>4, NewNodeType DEF Live, Handler
  <2>2. \A i \in DOMAIN r.open : r.open[i] = NewNode(e) \/ (i \in DOMAIN c.open /\ r.open[i] = c.open[i])
    BY <1>5, <2>1
  <2> QED
    BY <1>4, <2>1, <2>2 DEF Clean
<1>9. Clean(r)
  BY <1>4, <1>5, <1>7, <1>8 DEF Clean
<1>10. Elems(r.open) = r.stack
  <2>1. c.open \in Seq(Node) /\ NewNode(e) \in Node /\ NewNode(e).elem = e
    BY <1>4, NewNodeType DEF Live, Handler
  <2> QED
    BY <1>2, <1>4, <1>5, <2>1, ElemsAppend DEF Kept
<1>11. rooted' \in BOOLEAN /\ stuck' \in BOOLEAN /\ UNCHANGED <<usage, begun, done>>
  BY DEF StartNode, Steady
<1> QED
  BY <1>1, <1>4, <1>5, <1>6, <1>9, <1>10, <1>11, SteadyStep DEF Kept

\* The tag of an element that ends is met in a clean handler.
LEMMA CleanEndNode ==
    ASSUME NEW s \in Live, s.doc # 0, Clean(s), s.stack # <<>>
    PROVE  AdornerEndNode(s) \in CleanSet([s EXCEPT !.stack = Front(@)])
<1> DEFINE q == [s EXCEPT !.stack = Front(@)]
           A == CleanSet(q)
           e == Last(s.stack)
           n == Len(q.stack)
<1>1. e \in Elem /\ Front(s.stack) \in Seq(Elem) /\ <<"close", e>> \in Item
  <2>1. s.stack \in Seq(Elem) /\ s.stack # <<>>
    BY DEF Live, Handler
  <2>2. e \in Elem /\ Front(s.stack) \in Seq(Elem)
    BY <2>1 DEF Last, Front
  <2> QED
    BY <2>2 DEF Item, Tag
<1>2. q \in A
  <2>1. /\ q \in Live /\ q.doc # 0 /\ q.dec = s.dec /\ q.cur = s.cur /\ q.output = s.output
        /\ q.open = s.open /\ q.closed = s.closed /\ q.cache = s.cache /\ q.doc = s.doc
    BY <1>1 DEF Live, Handler
  <2> HIDE DEF q
  <2>2. Clean(q)
    BY <2>1 DEF Clean, Current
  <2> QED
    BY <2>1, <2>2 DEF CleanSet, Kept
<1>3. Closed(A)
  BY CleanIsClosed
<1>4. \A c \in A : Says(c, <<"close", e>>) \in A
  BY <1>1, CleanSays
<1>5. \A r \in A : Len(r.stack) = n
  BY DEF CleanSet, Kept
<1>6. ASSUME NEW r \in A
      PROVE  [r EXCEPT !.breaker = BreakerCloses(@, e, n)] \in A
  <2>1. r.breaker \in RecordBreaker /\ Len(r.stack) \in Nat
    BY DEF CleanSet, Live, Handler
  <2>2. BreakerCloses(r.breaker, e, n) \in RecordBreaker
    BY <1>1, <1>5, <2>1, BreakerClosesType
  <2> QED
    BY <2>2, CleanBreaker
<1> HIDE DEF A, n
<1>7. \A r \in A : [r EXCEPT !.breaker = BreakerCloses(@, e, n)] \in A
  BY <1>6
<1>8. AdornerEndNode(s) \in A
  <2>1. A \subseteq Live /\ TextClosed(A)
    BY <1>3 DEF Closed
  <2> QED
    BY <1>2, <1>3, <1>4, <1>5, <1>7, <2>1, EndNodeKeeps
<1> QED
  BY <1>8 DEF A

LEMMA SteadyEndNode ==
    ASSUME Steady, EndNode
    PROVE  Steady'
<1>1. events' \in 0 .. MaxEvent /\ Parsing
  BY EventCounted DEF EndNode
<1>2. ix \in Live /\ ix.doc # 0 /\ Elems(ix.open) = ix.stack /\ Clean(ix)
  BY <1>1, WorkingIsClean
<1> DEFINE q == [ix EXCEPT !.stack = Front(@)]
           t == AdornerEndNode(ix)
           r == NodeEnded(ix)
           last == [Last(t.open) EXCEPT !.state = "close"]
<1>3. /\ q.doc = ix.doc /\ q.docDb = ix.docDb /\ q.words = ix.words /\ q.open = ix.open
      /\ q.stack = Front(ix.stack)
  BY <1>2 DEF Live, Handler
<1>4. t \in CleanSet(q)
  BY <1>2, CleanEndNode DEF EndNode
<1> HIDE DEF q
<1>5. t \in Live /\ Kept(q, t) /\ Clean(t)
  BY <1>4 DEF CleanSet
<1>6. t.open \in Seq(Node) /\ t.open # <<>>
  <2>1. Elems(t.open) = ix.stack /\ ix.stack # <<>>
    BY <1>2, <1>3, <1>5 DEF Kept, EndNode
  <2> QED
    BY <1>5, <2>1, ElemsType DEF Live, Handler
<1>7. /\ r \in Live /\ r.cur = t.cur /\ r.dec = t.dec
      /\ r.doc = t.doc /\ r.docDb = t.docDb /\ r.words = t.words /\ r.output = t.output
      /\ r.stack = t.stack /\ r.cache = t.cache
      /\ r.open = Front(t.open) /\ r.closed = Append(t.closed, last)
      /\ last \in Node /\ last.words = Last(t.open).words
  BY <1>5, <1>6, NodeEndedFacts
<1>8. /\ Elems(r.open) = Front(Elems(t.open))
      /\ \A i \in DOMAIN r.open : i \in DOMAIN t.open /\ r.open[i] = t.open[i]
      /\ Len(t.open) \in DOMAIN t.open /\ Last(t.open) = t.open[Len(t.open)]
  BY <1>6, <1>7, ElemsFront
<1>9. ix' = r
  BY DEF EndNode
<1> HIDE DEF r, t, last
<1>10. \A i \in DOMAIN r.closed : Dated(r.closed[i])
  <2>1. t.closed \in Seq(Node)
    BY <1>5 DEF Live, Handler
  <2>2. \A i \in DOMAIN r.closed : r.closed[i] = last \/ (i \in DOMAIN t.closed /\ r.closed[i] = t.closed[i])
    BY <1>7, <2>1
  <2>3. Dated(last)
    BY <1>5, <1>7, <1>8 DEF Clean, Dated
  <2> QED
    BY <1>5, <2>2, <2>3 DEF Clean
<1>11. Clean(r)
  BY <1>5, <1>7, <1>8, <1>10 DEF Clean, Current
<1>12. Elems(r.open) = r.stack
  BY <1>2, <1>3, <1>5, <1>7, <1>8 DEF Kept
<1>13. rooted' \in BOOLEAN /\ stuck' \in BOOLEAN /\ UNCHANGED <<usage, begun, done>>
  BY DEF EndNode, Steady
<1> QED
  BY <1>1, <1>3, <1>5, <1>7, <1>9, <1>11, <1>12, <1>13, SteadyStep DEF Kept

\* Characters are met by a clean handler.
LEMMA CleanBuffered ==
    ASSUME NEW s \in Live, s.doc # 0, Clean(s), NEW c \in Chunk
    PROVE  Buffered(s, c) \in CleanSet(s)
<1> DEFINE q == Buffered(s, c)
           d == [Current(s) EXCEPT !.buf = @ \o c]
<1>1. /\ d \in Dec /\ q \in Live /\ Current(q) = d /\ q.cur = s.cur
      /\ \A k \in {"main", "note"} : k # s.cur => q.dec[k] = s.dec[k]
      /\ q.doc = s.doc /\ q.docDb = s.docDb /\ q.stack = s.stack
      /\ q.words = s.words /\ q.output = s.output
      /\ q.open = s.open /\ q.closed = s.closed /\ q.cache = s.cache
  BY BufferedFacts
<1>2. d.out = Current(s).out
  BY CurrentType DEF Dec
<1> HIDE DEF q, d
<1>3. Clean(q)
  BY <1>1, <1>2 DEF Clean
<1>4. q \in CleanSet(s)
  BY <1>1, <1>3 DEF CleanSet, Kept
<1> QED
  BY <1>4 DEF q

LEMMA CleanCharacters ==
    ASSUME NEW s \in Live, s.doc # 0, Clean(s), NEW c \in Chunk
    PROVE  AdornerAddCharacters(s, c) \in CleanSet(s)
BY CleanBuffered, CleanIsClosed, CharactersKeep

LEMMA SteadyCharacters ==
    ASSUME Steady, NEW c \in Chunk, Characters(c)
    PROVE  Steady'
<1>1. events' \in 0 .. MaxEvent /\ Parsing
  BY EventCounted DEF Characters
<1>2. ix \in Live /\ ix.doc # 0 /\ Elems(ix.open) = ix.stack /\ Clean(ix)
  BY <1>1, WorkingIsClean
<1> DEFINE t == AdornerAddCharacters(ix, c)
           r == Noted(ix, c)
<1>3. t \in Live /\ Kept(ix, t) /\ Clean(t)
  BY <1>2, CleanCharacters DEF CleanSet
<1>4. /\ r \in Live /\ r.cur = t.cur /\ r.dec = t.dec
      /\ r.doc = t.doc /\ r.docDb = t.docDb /\ r.words = t.words /\ r.output = t.output
      /\ r.stack = t.stack /\ r.closed = t.closed /\ r.cache = t.cache
      /\ DOMAIN r.open = DOMAIN t.open
      /\ \A i \in DOMAIN t.open : /\ r.open[i].elem = t.open[i].elem
                                  /\ r.open[i].words = t.open[i].words
  BY <1>3, NotedFacts
<1>5. ix' = r
  BY DEF Characters
<1> HIDE DEF r, t
<1>6. Clean(r)
  BY <1>3, <1>4 DEF Clean, Current, Dated
<1>7. Elems(r.open) = r.stack
  <2>1. Elems(r.open) = Elems(t.open)
    BY <1>4 DEF Elems
  <2> QED
    BY <1>2, <1>3, <1>4, <2>1 DEF Kept
<1>8. rooted' \in BOOLEAN /\ stuck' \in BOOLEAN /\ UNCHANGED <<usage, begun, done>>
  BY DEF Characters, Steady
<1> QED
  BY <1>1, <1>3, <1>4, <1>5, <1>6, <1>7, <1>8, SteadyStep DEF Kept

LEMMA SteadyLoops ==
    ASSUME Steady, EndNodeLoops
    PROVE  Steady'
<1>1. events' \in 0 .. MaxEvent
  BY EventCounted DEF EndNodeLoops
<1>2. stuck' = TRUE /\ UNCHANGED <<ix, usage, begun, rooted, done>>
  BY DEF EndNodeLoops
<1>3. (IF ix.doc = 0 THEN Resting(ix) ELSE ix.doc = begun /\ Working(ix))'
  BY <1>2 DEF Steady, Resting, Working, Clean, Storage
<1> QED
  BY <1>1, <1>2, <1>3 DEF Steady

LEMMA SteadyEnd ==
    ASSUME Steady, EndDocument
    PROVE  Steady'
<1> DEFINE r == Flushed(ix)
<1>1. ix \in Live /\ ix.doc # 0 /\ ix.doc = begun /\ ix.docDb = Storage /\ Clean(ix)
  BY WorkingIsClean DEF EndDocument
<1>2. /\ r \in Live /\ r.doc = 0 /\ Resting(r)
      /\ \A w \in r.words : w \in ix.words \/ (w.doc = ix.doc /\ w.pos # 0)
  BY <1>1, CleanFlushed
<1>3. ix' = r /\ UNCHANGED <<usage, begun, rooted, events, stuck>>
  BY DEF EndDocument
<1> HIDE DEF r
<1>4. /\ begun \in 0 .. MaxDoc /\ \A w \in ix.words : w.doc \in 1 .. begun /\ w.pos # 0
      /\ done \subseteq 1 .. begun
  BY DEF Steady
<1>5. done' \subseteq 1 .. begun
  <2>1. done' = done \/ done' = done \cup {ix.doc}
    BY DEF EndDocument
  <2>2. begun \in 1 .. begun
    BY <1>1, <1>4
  <2> QED
    BY <1>1, <1>4, <2>1, <2>2
<1>6. \A w \in r.words : w.doc \in 1 .. begun /\ w.pos # 0
  BY <1>1, <1>2, <1>4
<1>7. (IF ix.doc = 0 THEN Resting(ix) ELSE ix.doc = begun /\ Working(ix))'
  BY <1>2, <1>3 DEF Resting
<1> QED
  BY <1>2, <1>3, <1>5, <1>6, <1>7 DEF Steady, Live

\* Every step keeps the types.
LEMMA SteadyNext ==
    ASSUME Steady, [Next]_vars
    PROVE  Steady'
<1>1. CASE \E d \in 1 .. MaxDoc : StartDocument(d) \/ StartDocumentFails(d)
  BY <1>1, SteadyStart, SteadyFails
<1>2. CASE \E e \in Elem : StartNode(e)
  BY <1>2, SteadyStartNode
<1>3. CASE EndNode
  BY <1>3, SteadyEndNode
<1>4. CASE EndNodeLoops
  BY <1>4, SteadyLoops
<1>5. CASE \E c \in Chunk : Characters(c)
  BY <1>5, SteadyCharacters
<1>6. CASE EndDocument
  BY <1>6, SteadyEnd
<1>7. CASE UNCHANGED vars
  <2>1. (IF ix.doc = 0 THEN Resting(ix) ELSE ix.doc = begun /\ Working(ix))'
    BY <1>7 DEF vars, Steady, Resting, Working, Clean, Storage
  <2> QED
    BY <1>7, <2>1 DEF vars, Steady
<1> QED
  BY <1>1, <1>2, <1>3, <1>4, <1>5, <1>6, <1>7 DEF Next

\* Steady holds in every reachable state.
THEOREM SteadyHolds == Spec => []Steady
<1>1. Steady /\ [Next]_vars => Steady'
  BY SteadyNext
<1> QED
  BY <1>1, SteadyInit, PTL DEF Spec

\* Every document begun has pages and words of its own, the node lists follow the
\* open elements, and a place has no page without a position.
THEOREM TypeCorrect == Spec => []TypeOK
<1>1. Steady => TypeOK
  <2> SUFFICES ASSUME Steady PROVE TypeOK
    OBVIOUS
  <2>1. /\ ix.cur \in {"none", "main", "note"}
        /\ \A k \in {"main", "note"} : ix.dec[k].at \in Place /\ ix.dec[k].wrdAt \in Place
        /\ \A w \in ix.words \cup ix.cache : w \in Entry
        /\ ix.open \in Seq(Node)
    BY DEF Steady, Handler, Dec
  <2>2. \A w \in ix.words \cup ix.cache : w.doc \in 1 .. begun /\ w.pos > 0
    <3>1. \A w \in ix.cache : w.doc \in 1 .. begun /\ w.pos # 0
      <4>1. CASE ix.doc = 0
        BY <4>1 DEF Steady, Resting
      <4>2. CASE ix.doc # 0
        <5>1. begun \in Nat /\ ix.doc \in Nat
          BY DEF Steady, Handler
        <5> QED
          BY <4>2, <5>1 DEF Steady, Working, Clean
      <4> QED
        BY <4>1, <4>2
    <3>2. \A w \in Entry : w.pos \in Nat
      BY DEF Entry
    <3> QED
      BY <2>1, <3>1, <3>2 DEF Steady
  <2>3. ix.doc # 0 => /\ ix.doc = begun
                      /\ Len(ix.open) = Len(ix.stack)
                      /\ \A i \in DOMAIN ix.stack : ix.open[i].elem = ix.stack[i]
    <3> SUFFICES ASSUME ix.doc # 0
                 PROVE  /\ ix.doc = begun
                        /\ Len(ix.open) = Len(ix.stack)
                        /\ \A i \in DOMAIN ix.stack : ix.open[i].elem = ix.stack[i]
      OBVIOUS
    <3>1. ix.doc = begun /\ Elems(ix.open) = ix.stack
      BY DEF Steady, Working
    <3>2. Len(ix.open) = Len(ix.stack)
      BY <2>1, <3>1, ElemsType
    <3>3. \A i \in DOMAIN Elems(ix.open) : Elems(ix.open)[i] = ix.open[i].elem
      BY DEF Elems
    <3> QED
      BY <3>1, <3>2, <3>3
  <2> QED
    BY <2>1, <2>2, <2>3 DEF Steady, TypeOK
<1> QED
  BY <1>1, SteadyHolds, PTL

\* Only the current decorator holds anything, and nothing of a document is left
\* for the next one that the indexes or the pages could take up.
THEOREM NothingIsLeft == Spec => []IdleDecoratorIsEmpty
<1>1. Steady => IdleDecoratorIsEmpty
  <2> SUFFICES ASSUME Steady PROVE IdleDecoratorIsEmpty
    OBVIOUS
  <2>1. CASE ix.doc = 0
    BY <2>1, StartTypes DEF Steady, Resting, IdleDecoratorIsEmpty, Blank
  <2>2. CASE ix.doc # 0
    BY <2>2 DEF Steady, Working, Clean, IdleDecoratorIsEmpty, Blank
  <2> QED
    BY <2>1, <2>2
<1> QED
  BY <1>1, SteadyHolds, PTL

-----------------------------------------------------------------------------
(***************************************************************************)
(* The tags of a text nest.                                                *)
(***************************************************************************)
\* What the next item makes of the elements that are open.
Tagged(open, item) ==
    IF open = <<"bad">> THEN open
    ELSE IF item[1] = "open" THEN Append(open, item[2])
    ELSE IF item[1] # "close" THEN open
    ELSE IF open # <<>> /\ Last(open) = item[2] THEN Front(open)
    ELSE <<"bad">>

\* A text that begins with the declaration, and only there, and leaves these
\* elements open.
GoodText(t, path) ==
    /\ t # <<>> /\ Nesting(t) = path
    /\ \A i \in DOMAIN t : (t[i] = Declaration) <=> i = 1

\* The content of one element, without the tags in it.
KeptText(t) ==
    \E e \in Elem :
      /\ Len(t) >= 2 /\ t[1] = <<"open", e>> /\ t[Len(t)] = <<"close", e>>
      /\ \A i \in 2 .. Len(t) - 1 : t[i] \in {"text"} \X Text

\* The content that the record breaker notes is that of an open element.
NotesContent(b, path) ==
    IF b.level = 0 THEN b.extra = <<>>
    ELSE /\ b.level < Len(path) /\ Breaker[path[b.level + 1]] = "store"
         /\ b.extra # <<>> /\ b.extra[1] = <<"open", path[b.level + 1]>>
         /\ \A i \in 2 .. Len(b.extra) : b.extra[i] \in {"text"} \X Text

\* The page as far as it is known: its header, what was put out, and what the
\* current decorator has to put out.
Shown(s) == s.breaker.header \o s.output \o Current(s).out

FirstIsSpoilt(s) == SpoiltByHeader(s.doc, s.dec["main"].at.pge)

(***************************************************************************)
(* A handler whose pages are documents, in which the elements of one list  *)
(* are open on the page that is being made, and those of the other one are *)
(* what the record breaker has seen.                                       *)
(***************************************************************************)
Paged(s, open, path) ==
    /\ s.dec["main"].at.pge = s.dec["note"].at.pge
    /\ s.docDb => DOMAIN s.pages[s.doc] = 0 .. s.dec["main"].at.pge - 1
    /\ \A d \in 1 .. MaxDoc : d > s.doc => DOMAIN s.pages[d] = {}
    /\ \A d \in 1 .. MaxDoc : \A p \in DOMAIN s.pages[d] :
          ~ SpoiltByHeader(d, p) => GoodText(s.pages[d][p], <<>>)
    /\ s.docDb /\ Storage /\ ~ FirstIsSpoilt(s) => GoodText(Shown(s), open)
    /\ Breaks => /\ NotesContent(s.breaker, path)
                 /\ \A k \in DOMAIN s.breaker.kept : KeptText(s.breaker.kept[k])
    /\ ~ Breaks => s.breaker.header = <<>>

(***************************************************************************)
(* The inductive invariant of the pages.                                   *)
(***************************************************************************)
Pagination ==
    /\ \A d \in 1 .. MaxDoc : d > begun => DOMAIN ix.pages[d] = {}
    /\ \A d \in 1 .. MaxDoc : \A p \in DOMAIN ix.pages[d] :
          ~ SpoiltByHeader(d, p) /\ (Breaks \/ d \in done \cup {ix.doc}) =>
            GoodText(ix.pages[d][p], <<>>)
    /\ ix.doc # 0 => Paged(ix, ix.stack, ix.stack) /\ ix.doc \notin done
    /\ ix.stack # <<>> => ix.stack[1] = Root
    /\ begun = 0 \/ ~ Breaks => ix.breaker.header = <<>>
    /\ Breaks => \A k \in DOMAIN ix.breaker.kept : KeptText(ix.breaker.kept[k])
    /\ ~ Keeps => begun <= 1

\* The tags, as the function that the definition of the fold chooses.
LEMMA NestingIterates ==
    ASSUME NEW text
    PROVE  Nesting(text) =
               (CHOOSE f : f = [S \in SUBSET DOMAIN text |->
                   IF S = {} THEN <<>> ELSE Tagged(f[S \ {Max(S)}], text[Max(S)])])[DOMAIN text]
  BY Zenon DEF Nesting, Tagged, FoldLeft, MapThenFoldSet

\* Elements, or "bad".
Path == Seq(Elem \cup {"bad"})

LEMMA TaggedFacts ==
    ASSUME NEW open \in Path
    PROVE  /\ \A item \in Item : Tagged(open, item) \in Path
           /\ \A item \in Word \cup ({"text"} \X Text) : Tagged(open, item) = open
           /\ open # <<"bad">> =>
                \A e \in Elem : /\ Tagged(open, <<"open", e>>) = Append(open, e)
                                /\ Tagged(Append(open, e), <<"close", e>>) = open
           /\ Tagged(open, Declaration) = open
<1>1. ASSUME NEW item \in Word \cup ({"text"} \X Text)
      PROVE  Tagged(open, item) = open
  <2>1. item[1] \in {"w", "text"}
    BY DEF Word
  <2> QED
    BY <2>1 DEF Tagged
<1>2. Tagged(open, Declaration) = open
  BY DEF Declaration, Tagged
<1>3. ASSUME NEW e \in Elem, open # <<"bad">>
      PROVE  /\ Tagged(open, <<"open", e>>) = Append(open, e)
             /\ Tagged(Append(open, e), <<"close", e>>) = open
  <2>1. Tagged(open, <<"open", e>>) = Append(open, e)
    BY <1>3 DEF Tagged
  <2>2. /\ Append(open, e) # <<>> /\ Last(Append(open, e)) = e /\ Front(Append(open, e)) = open
        /\ Append(open, e) # <<"bad">>
    <3>1. /\ open \in Seq(Elem \cup {"bad"}) /\ e \in Elem \cup {"bad"} /\ e # "bad"
      BY ElemAssumption DEF Path
    <3>2. /\ Append(open, e) \in Seq(Elem \cup {"bad"}) /\ Len(Append(open, e)) = Len(open) + 1
          /\ Append(open, e)[Len(open) + 1] = e
          /\ \A i \in 1 .. Len(open) : Append(open, e)[i] = open[i]
      BY <3>1
    <3>3. SubSeq(Append(open, e), 1, Len(open)) = open
      BY <3>1, <3>2
    <3>4. Append(open, e) # <<"bad">>
      <4> SUFFICES ASSUME Append(open, e) = <<"bad">> PROVE FALSE
        OBVIOUS
      <4>1. Len(Append(open, e)) = 1 /\ Append(open, e)[1] = "bad"
        OBVIOUS
      <4> QED
        BY <3>1, <3>2, <4>1
    <3> QED
      BY <3>1, <3>2, <3>3, <3>4 DEF Last, Front
  <2>3. Tagged(Append(open, e), <<"close", e>>) = Front(Append(open, e))
    BY <2>2 DEF Tagged
  <2> QED
    BY <2>1, <2>2, <2>3
<1>4. ASSUME NEW item \in Tag
      PROVE  Tagged(open, item) \in Path
  <2>1. item[2] \in Elem /\ <<"bad">> \in Path
    BY DEF Tag, Path
  <2>2. Append(open, item[2]) \in Path
    BY <2>1 DEF Path
  <2>3. open # <<>> => Front(open) \in Path
    BY DEF Path, Front
  <2> QED
    BY <2>1, <2>2, <2>3 DEF Tagged
<1>5. \A item \in Item : Tagged(open, item) \in Path
  BY <1>1, <1>2, <1>4 DEF Item
<1> QED
  BY <1>1, <1>2, <1>3, <1>5

\* The tags of a text are a walk over its items.
LEMMA NestingWalk ==
    ASSUME NEW n \in Nat, NEW text \in [1 .. n -> Item]
    PROVE  \E w \in [0 .. n -> Path] :
               /\ w[0] = <<>>
               /\ \A k \in 0 .. n - 1 : w[k + 1] = Tagged(w[k], text[k + 1])
               /\ Nesting(text) = w[n]
<1> DEFINE A == Path
           G == [q \in A \X (1 .. n) |-> Tagged(q[1], text[q[2]])]
           F == CHOOSE f : f = [S \in SUBSET DOMAIN text |->
                    IF S = {} THEN <<>> ELSE Tagged(f[S \ {Max(S)}], text[Max(S)])]
           w == [k \in 0 .. n |-> F[1 .. k]]
<1>1. DOMAIN text = 1 .. n
  OBVIOUS
<1>2. Nesting(text) = F[1 .. n]
  <2>1. Nesting(text) = F[DOMAIN text]
    BY NestingIterates, Zenon
  <2> QED
    BY <1>1, <2>1
<1> HIDE DEF F
<1>3. ASSUME NEW q \in A, NEW i \in 1 .. n
      PROVE  Tagged(q, text[i]) \in A
  BY TaggedFacts
<1>4. G \in [A \X (1 .. n) -> A]
  BY <1>3
<1>6. PICK f \in [SUBSET (1 .. n) -> A] : \A S \in SUBSET (1 .. n) :
               f[S] = IF S = {} THEN <<>> ELSE G[<<f[S \ {Max(S)}], Max(S)>>]
  <2>1. <<>> \in A
    BY DEF Path
  <2> HIDE DEF A, G
  <2>2. Iterations(n, A, <<>>, G) # {}
    BY <1>4, <2>1, IterationExists
  <2> QED
    BY <2>2 DEF Iterations
<1>7. f = [S \in SUBSET DOMAIN text |->
              IF S = {} THEN <<>> ELSE Tagged(f[S \ {Max(S)}], text[Max(S)])]
  <2> SUFFICES ASSUME NEW S \in SUBSET (1 .. n), S # {}
               PROVE  f[S] = Tagged(f[S \ {Max(S)}], text[Max(S)])
    BY <1>1, <1>6
  <2>1. Max(S) \in 1 .. n
    BY MaxIsMember
  <2>2. f[S \ {Max(S)}] \in A
    BY <1>6
  <2>3. f[S] = G[<<f[S \ {Max(S)}], Max(S)>>]
    BY <1>6
  <2> QED
    BY <2>1, <2>2, <2>3
<1>8. F = [S \in SUBSET DOMAIN text |->
              IF S = {} THEN <<>> ELSE Tagged(F[S \ {Max(S)}], text[Max(S)])]
  BY <1>7, Zenon DEF F
<1>9. w[0] = <<>> /\ w[n] = F[1 .. n]
  <2>1. 1 .. 0 = {} /\ 1 .. 0 \in SUBSET (1 .. n)
    OBVIOUS
  <2>2. F[1 .. 0] = <<>>
    BY <1>1, <1>8, <2>1
  <2> QED
    BY <2>2
<1>10. ASSUME NEW k \in 0 .. n - 1
       PROVE  w[k + 1] = Tagged(w[k], text[k + 1])
  <2>1. k \in Nat /\ k + 1 \in 1 .. k + 1 /\ k \in 0 .. n /\ k + 1 \in 0 .. n
    OBVIOUS
  <2>2. \A i \in 1 .. k + 1 : i \in 1 .. n
    BY <2>1
  <2>5. (1 .. k + 1) \ {k + 1} = 1 .. k
    BY <2>1
  <2>3. Max(1 .. k + 1) = k + 1
    BY <2>1, LastIsMax
  <2>4. F[1 .. k + 1] = Tagged(F[1 .. k], text[k + 1])
    BY <1>1, <1>8, <2>1, <2>2, <2>3, <2>5
  <2> QED
    BY <2>1, <2>4
<1> HIDE DEF w
<1>11. w \in [0 .. n -> A]
  <2> DEFINE T == {k \in 0 .. n : w[k] \in A}
  <2>1. 0 \in T
    <3>1. <<>> \in A /\ 0 \in 0 .. n
      BY EmptySeq DEF Path
    <3> QED
      BY <1>9, <3>1
  <2>2. ASSUME NEW k \in 0 .. n - 1, k \in T
        PROVE  k + 1 \in T
    <3>1. k + 1 \in 0 .. n /\ k + 1 \in 1 .. n
      OBVIOUS
    <3> QED
      BY <1>3, <1>10, <2>2, <3>1
  <2> HIDE DEF T
  <2>3. \A k \in 0 .. n : k \in T
    BY <2>1, <2>2, UpToLast
  <2> QED
    BY <2>3 DEF T, w
<1> QED
  BY <1>2, <1>9, <1>10, <1>11, Zenon

\* A text of which one item more is read.
LEMMA NestingAppend ==
    /\ Nesting(<<>>) = <<>>
    /\ \A t \in Seq(Item) : /\ Nesting(t) \in Path
                            /\ \A x \in Item : Nesting(Append(t, x)) = Tagged(Nesting(t), x)
<1>1. Nesting(<<>>) = <<>>
  <2>1. <<>> \in [1 .. 0 -> Item]
    OBVIOUS
  <2> QED
    BY <2>1, NestingWalk
<1>2. ASSUME NEW t \in Seq(Item), NEW x \in Item
      PROVE  Nesting(t) \in Path /\ Nesting(Append(t, x)) = Tagged(Nesting(t), x)
  <2> DEFINE n == Len(t)
             u == Append(t, x)
  <2>1. /\ n \in Nat /\ n + 1 \in Nat /\ t \in [1 .. n -> Item] /\ u \in [1 .. n + 1 -> Item]
        /\ \A i \in 1 .. n : u[i] = t[i]
        /\ u[n + 1] = x
    <3>1. n \in Nat /\ n + 1 \in Nat /\ t \in [1 .. n -> Item]
      OBVIOUS
    <3>2. u \in Seq(Item) /\ Len(u) = n + 1 /\ u[n + 1] = x /\ \A i \in 1 .. n : u[i] = t[i]
      OBVIOUS
    <3> HIDE DEF u
    <3>3. u \in [1 .. Len(u) -> Item]
      BY <3>2
    <3> QED
      BY <3>1, <3>2, <3>3
  <2> HIDE DEF u, n
  <2>2. PICK v \in [0 .. n -> Path] :
               /\ v[0] = <<>>
               /\ \A k \in 0 .. n - 1 : v[k + 1] = Tagged(v[k], t[k + 1])
               /\ Nesting(t) = v[n]
    BY <2>1, NestingWalk
  <2>3. PICK w \in [0 .. n + 1 -> Path] :
               /\ w[0] = <<>>
               /\ \A k \in 0 .. (n + 1) - 1 : w[k + 1] = Tagged(w[k], u[k + 1])
               /\ Nesting(u) = w[n + 1]
    BY <2>1, NestingWalk
  <2> DEFINE T == {k \in 0 .. n : v[k] = w[k]}
  <2>4. 0 \in T
    BY <2>1, <2>2, <2>3
  <2>5. ASSUME NEW k \in 0 .. n - 1, k \in T
        PROVE  k + 1 \in T
    <3>1. /\ k + 1 \in 0 .. n /\ k + 1 \in 1 .. n /\ k \in 0 .. (n + 1) - 1
      BY <2>1
    <3>2. v[k + 1] = Tagged(v[k], t[k + 1]) /\ w[k + 1] = Tagged(w[k], u[k + 1])
      BY <2>2, <2>3, <3>1
    <3> QED
      BY <2>1, <2>5, <3>1, <3>2
  <2> HIDE DEF T
  <2>6. \A k \in 0 .. n : k \in T
    BY <2>1, <2>4, <2>5, UpToLast
  <2>7. n \in 0 .. n /\ n \in 0 .. (n + 1) - 1
    BY <2>1
  <2>8. v[n] = w[n] /\ v[n] \in Path
    BY <2>2, <2>6, <2>7 DEF T
  <2>9. w[n + 1] = Tagged(w[n], u[n + 1])
    BY <2>3, <2>7
  <2> QED
    BY <2>1, <2>2, <2>3, <2>8, <2>9 DEF u
<1>3. Item # {}
  BY DEF Item
<1> QED
  BY <1>1, <1>2, <1>3

-----------------------------------------------------------------------------
(***************************************************************************)
(* Texts that are built item by item.                                      *)
(***************************************************************************)
\* Items that open and close nothing.
Plain == Word \cup ({"text"} \X Text)

LEMMA PlainFacts ==
    /\ Plain \subseteq Item /\ \A x \in Plain : x # Declaration
    /\ \A e \in Elem : /\ <<"open", e>> \in Item /\ <<"open", e>> # Declaration
                       /\ <<"close", e>> \in Item /\ <<"close", e>> # Declaration
    /\ Declaration \in Item /\ \A x \in Item : x[1] = "w" => x \in Word
<1>1. Plain \subseteq Item /\ Declaration \in Item
  BY DEF Plain, Item
<1>2. \A x \in Plain : x # Declaration
  <2>1. ASSUME NEW x \in Plain PROVE x[1] \in {"w", "text"}
    BY DEF Plain, Word
  <2>2. Declaration[1] = "xml"
    BY DEF Declaration
  <2> QED
    BY <2>1, <2>2
<1>3. ASSUME NEW e \in Elem
      PROVE  /\ <<"open", e>> \in Item /\ <<"open", e>> # Declaration
             /\ <<"close", e>> \in Item /\ <<"close", e>> # Declaration
  <2>1. <<"open", e>>[1] = "open" /\ <<"close", e>>[1] = "close" /\ Declaration[1] = "xml"
    BY DEF Declaration
  <2>2. <<"open", e>> \in Item /\ <<"close", e>> \in Item
    BY DEF Item, Tag
  <2> QED
    BY <2>1, <2>2
<1>4. ASSUME NEW x \in Item, x[1] = "w"
      PROVE  x \in Word
  <2>1. x \notin Tag /\ x \notin {"text"} \X Text
    BY <1>4 DEF Tag
  <2>2. x # Declaration
    BY <1>4 DEF Declaration
  <2> QED
    BY <2>1, <2>2 DEF Item
<1> QED
  BY <1>1, <1>2, <1>3, <1>4

\* The declaration alone, and what follows in a text that is good.
LEMMA GoodDeclaration == GoodText(<<Declaration>>, <<>>)
<1>1. <<>> \in Seq(Item) /\ Declaration \in Item /\ Append(<<>>, Declaration) = <<Declaration>>
  BY EmptySeq, PlainFacts
<1>2. Nesting(<<Declaration>>) = Tagged(<<>>, Declaration)
  BY <1>1, NestingAppend
<1>3. Tagged(<<>>, Declaration) = <<>>
  BY EmptySeq, TaggedFacts DEF Path
<1> QED
  BY <1>2, <1>3 DEF GoodText

LEMMA GoodAppend ==
    ASSUME NEW t \in Seq(Item), NEW path, GoodText(t, path),
           NEW x \in Item, x # Declaration
    PROVE  GoodText(Append(t, x), Tagged(path, x))
<1>1. Nesting(Append(t, x)) = Tagged(path, x)
  BY NestingAppend DEF GoodText
<1>2. /\ Append(t, x) # <<>> /\ DOMAIN Append(t, x) = 1 .. Len(t) + 1 /\ Len(t) \in Nat
      /\ \A i \in 1 .. Len(t) : Append(t, x)[i] = t[i]
      /\ Append(t, x)[Len(t) + 1] = x /\ DOMAIN t = 1 .. Len(t)
  OBVIOUS
<1>3. Len(t) >= 1
  BY DEF GoodText
<1>4. \A i \in DOMAIN Append(t, x) : (Append(t, x)[i] = Declaration) <=> i = 1
  BY <1>2, <1>3 DEF GoodText
<1> QED
  BY <1>1, <1>2, <1>4 DEF GoodText

\* What every item allows.
LEMMA GoodItems ==
    ASSUME NEW t \in Seq(Item), NEW path \in Seq(Elem), GoodText(t, path)
    PROVE  /\ \A x \in Plain : GoodText(Append(t, x), path)
           /\ \A e \in Elem : GoodText(Append(t, <<"open", e>>), Append(path, e))
           /\ path # <<>> => GoodText(Append(t, <<"close", Last(path)>>), Front(path))
<1>1. path \in Path /\ path # <<"bad">>
  <2>1. path \in Path
    BY DEF Path
  <2>2. ASSUME path = <<"bad">> PROVE FALSE
    <3>1. Len(path) = 1 /\ path[1] = "bad" /\ path[1] \in Elem
      BY <2>2
    <3> QED
      BY <3>1, ElemAssumption
  <2> QED
    BY <2>1, <2>2
<1>2. ASSUME NEW x \in Plain
      PROVE  GoodText(Append(t, x), path)
  <2>1. Tagged(path, x) = path
    BY <1>1, TaggedFacts DEF Plain
  <2> QED
    BY <2>1, GoodAppend, PlainFacts
<1>3. ASSUME NEW e \in Elem
      PROVE  GoodText(Append(t, <<"open", e>>), Append(path, e))
  <2>1. Tagged(path, <<"open", e>>) = Append(path, e)
    BY <1>1, TaggedFacts
  <2> QED
    BY <2>1, GoodAppend, PlainFacts
<1>4. ASSUME path # <<>>
      PROVE  GoodText(Append(t, <<"close", Last(path)>>), Front(path))
  <2> DEFINE e == Last(path)
             front == Front(path)
  <2>1. e \in Elem /\ front \in Seq(Elem)
    BY <1>4 DEF Last, Front
  <2>2. Append(front, e) = path
    <3>1. /\ Len(path) \in Nat /\ Len(path) # 0 /\ DOMAIN path = 1 .. Len(path)
          /\ front = SubSeq(path, 1, Len(path) - 1) /\ e = path[Len(path)]
      BY <1>4 DEF Last, Front
    <3>2. Len(front) = Len(path) - 1 /\ \A i \in 1 .. Len(path) - 1 : front[i] = path[i]
      BY <3>1
    <3> HIDE DEF front, e
    <3>3. /\ Len(Append(front, e)) = Len(path) /\ Append(front, e) \in Seq(Elem)
          /\ \A i \in 1 .. Len(path) : Append(front, e)[i] = path[i]
      <4>1. /\ Append(front, e) \in Seq(Elem) /\ Len(Append(front, e)) = Len(front) + 1
            /\ Append(front, e)[Len(front) + 1] = e
            /\ \A i \in 1 .. Len(front) : Append(front, e)[i] = front[i]
        BY <2>1, AppendProperties
      <4>2. Len(front) + 1 = Len(path)
        BY <3>1, <3>2
      <4>0. \A m \in Nat : \A i \in 1 .. m : i = m \/ i \in 1 .. m - 1
        OBVIOUS
      <4>3. \A i \in 1 .. Len(path) : i = Len(path) \/ i \in 1 .. Len(path) - 1
        BY <3>1, <4>0
      <4>4. Len(front) = Len(path) - 1
        BY <3>2
      <4> QED
        BY <3>1, <3>2, <4>1, <4>2, <4>3, <4>4
    <3> QED
      BY <3>3, SeqEqual
  <2>3. front \in Path /\ front # <<"bad">>
    <3>1. front \in Path
      BY <2>1 DEF Path
    <3>2. ASSUME front = <<"bad">> PROVE FALSE
      <4>1. Len(front) = 1 /\ front[1] = "bad"
        BY <3>2
      <4>2. front[1] \in Elem
        BY <2>1, <4>1
      <4> QED
        BY <4>1, <4>2, ElemAssumption
    <3> QED
      BY <3>1, <3>2
  <2> HIDE DEF front, e
  <2>4. Tagged(path, <<"close", e>>) = front
    BY <2>1, <2>2, <2>3, TaggedFacts
  <2>5. <<"close", e>> \in Item /\ <<"close", e>> # Declaration
    BY <2>1, PlainFacts
  <2>6. GoodText(Append(t, <<"close", e>>), Tagged(path, <<"close", e>>))
    BY <2>5, GoodAppend
  <2> QED
    BY <2>4, <2>6 DEF front, e
<1> QED
  BY <1>2, <1>3, <1>4

\* Texts of items are joined in any order.
LEMMA TextsJoin ==
    \A s, t, u \in Seq(Item) : /\ s \o t \in Seq(Item) /\ (s \o t) \o u = s \o (t \o u)
                              /\ s \o <<>> = s /\ <<>> \o s = s
BY ConcatProperties, ConcatAssociative, ConcatEmptySeq

\* Plain items change nothing, however many.
LEMMA GoodPlain ==
    ASSUME NEW t \in Seq(Item), NEW path \in Seq(Elem), GoodText(t, path),
           NEW u \in Seq(Item), \A i \in 1 .. Len(u) : u[i] \in Plain
    PROVE  GoodText(t \o u, path)
<1> DEFINE Q == [k \in 0 .. Len(u) |-> {v \in Seq(Item) : GoodText(v, path)}]
<1>1. Len(u) \in Nat /\ 0 \in 0 .. Len(u) /\ Len(u) \in 0 .. Len(u)
  OBVIOUS
<1>2. t \in Q[0]
  BY <1>1
<1>3. ASSUME NEW k \in 0 .. Len(u) - 1, NEW v \in Seq(Item), v \in Q[k]
      PROVE  Append(v, u[k + 1]) \in Q[k + 1]
  <2>1. k \in 0 .. Len(u) /\ k + 1 \in 0 .. Len(u) /\ k + 1 \in 1 .. Len(u)
    BY <1>1
  <2>2. u[k + 1] \in Plain /\ GoodText(v, path) /\ u[k + 1] \in Item
    BY <1>3, <2>1, PlainFacts
  <2> DEFINE x == u[k + 1]
  <2> HIDE DEF x
  <2>3. Append(v, x) \in Seq(Item)
    BY <2>2 DEF x
  <2>4. GoodText(Append(v, x), path)
    BY <2>2, GoodItems DEF x
  <2> QED
    BY <2>1, <2>3, <2>4 DEF x
<1> HIDE DEF Q
<1>4. t \o u \in Q[Len(u)]
  BY <1>2, <1>3, ConcatWalk
<1> QED
  BY <1>1, <1>4 DEF Q

\* Content that was kept of an element changes nothing.
LEMMA GoodKept ==
    ASSUME NEW t \in Seq(Item), NEW path \in Seq(Elem), GoodText(t, path),
           NEW u \in Seq(Item), KeptText(u)
    PROVE  GoodText(t \o u, path)
<1>1. PICK e \in Elem :
        /\ Len(u) >= 2 /\ u[1] = <<"open", e>> /\ u[Len(u)] = <<"close", e>>
        /\ \A i \in 2 .. Len(u) - 1 : u[i] \in {"text"} \X Text
  BY DEF KeptText
<1> DEFINE n == Len(u)
           inside == Append(path, e)
           Q == [k \in 0 .. n |-> {v \in Seq(Item) :
                    GoodText(v, IF k = 0 \/ k = n THEN path ELSE inside)}]
<1>2. n \in Nat /\ 0 \in 0 .. n /\ n \in 0 .. n
  OBVIOUS
<1>3. /\ inside \in Seq(Elem) /\ inside # <<>> /\ Last(inside) = e /\ Front(inside) = path
  <2>1. /\ inside \in Seq(Elem) /\ inside # <<>> /\ Len(inside) = Len(path) + 1
        /\ inside[Len(path) + 1] = e /\ \A i \in 1 .. Len(path) : inside[i] = path[i]
    BY AppendProperties
  <2>2. SubSeq(inside, 1, Len(path)) = path
    BY <2>1
  <2> HIDE DEF inside
  <2> QED
    BY <2>1, <2>2 DEF Last, Front
<1> HIDE DEF inside
<1>4. t \in Q[0]
  BY <1>2
<1>5. ASSUME NEW k \in 0 .. n - 1, NEW v \in Seq(Item), v \in Q[k]
      PROVE  Append(v, u[k + 1]) \in Q[k + 1]
  <2>1. k \in 0 .. n /\ k + 1 \in 0 .. n /\ k + 1 \in 1 .. n
    BY <1>2
  <2>2. GoodText(v, IF k = 0 \/ k = n THEN path ELSE inside) /\ u[k + 1] \in Item
    BY <1>5, <2>1
  <2>3. Append(v, u[k + 1]) \in Seq(Item)
    BY <2>2
  <2>4. CASE k = 0
    <3>1. GoodText(Append(v, <<"open", e>>), inside)
      BY <2>2, <2>4, GoodItems DEF inside
    <3>2. k + 1 # 0 /\ k + 1 # n /\ u[k + 1] = <<"open", e>>
      BY <1>1, <2>4
    <3> QED
      BY <2>1, <2>3, <3>1, <3>2
  <2>5. CASE k # 0 /\ k + 1 # n
    <3>1. k + 1 \in 2 .. n - 1 /\ k # n
      BY <2>1, <2>5
    <3>2. u[k + 1] \in Plain /\ GoodText(v, inside)
      BY <1>1, <2>2, <2>5, <3>1 DEF Plain
    <3>3. GoodText(Append(v, u[k + 1]), inside)
      BY <1>3, <3>2, GoodItems
    <3>4. k + 1 # 0 /\ k + 1 # n
      BY <2>5
    <3> QED
      BY <2>1, <2>3, <3>3, <3>4
  <2>6. CASE k # 0 /\ k + 1 = n
    <3>1. GoodText(v, inside) /\ u[k + 1] = <<"close", e>>
      BY <1>1, <2>1, <2>2, <2>6
    <3>2. GoodText(Append(v, u[k + 1]), path)
      BY <1>3, <3>1, GoodItems
    <3> QED
      BY <2>1, <2>3, <2>6, <3>2
  <2> QED
    BY <2>4, <2>5, <2>6
<1> HIDE DEF Q
<1>6. t \o u \in Q[Len(u)]
  BY <1>4, <1>5, ConcatWalk
<1> QED
  BY <1>2, <1>6 DEF Q

\* A header is made level by level.
LEMMA HeaderWalk ==
    ASSUME NEW b \in RecordBreaker, NEW stack \in Seq(Elem), NEW Q, <<Declaration>> \in Q[0],
           \A k \in 0 .. Len(stack) - 1 : \A v \in Seq(Item) : v \in Q[k] =>
               LET opened == Append(v, <<"open", stack[k + 1]>>)
               IN  (IF k + 1 \in DOMAIN b.kept THEN opened \o b.kept[k + 1] ELSE opened) \in Q[k + 1]
    PROVE  NextHeader(b, stack) \in Q[Len(stack)]
<1> DEFINE n == Len(stack)
           part == [i \in DOMAIN stack |->
                      <<<<"open", stack[i]>>>> \o IF i \in DOMAIN b.kept THEN b.kept[i] ELSE <<>>]
           start == <<Declaration>>
<1>1. n \in Nat /\ DOMAIN stack = 1 .. n /\ n \in 0 .. n
  BY LenProperties
<1>2. ASSUME NEW i \in 1 .. n
      PROVE  /\ <<<<"open", stack[i]>>>> \in Seq(Item) /\ <<"open", stack[i]>> \in Item
             /\ i \in DOMAIN b.kept => b.kept[i] \in Seq(Item)
             /\ part[i] \in Seq(Item)
             /\ part[i] = IF i \in DOMAIN b.kept THEN <<<<"open", stack[i]>>>> \o b.kept[i]
                          ELSE <<<<"open", stack[i]>>>>
  <2>1. <<"open", stack[i]>> \in Item
    BY <1>1 DEF Item, Tag
  <2>2. <<<<"open", stack[i]>>>> \in Seq(Item)
    BY <2>1
  <2>3. i \in DOMAIN b.kept => b.kept[i] \in Seq(Item)
    BY DEF RecordBreaker, Numbered
  <2>4. part[i] = <<<<"open", stack[i]>>>> \o IF i \in DOMAIN b.kept THEN b.kept[i] ELSE <<>>
    BY <1>1
  <2> HIDE DEF part
  <2>5. <<<<"open", stack[i]>>>> \o <<>> = <<<<"open", stack[i]>>>>
    BY <2>2, ConcatEmptySeq
  <2>6. i \in DOMAIN b.kept => <<<<"open", stack[i]>>>> \o b.kept[i] \in Seq(Item)
    BY <2>2, <2>3, ConcatProperties
  <2> QED
    BY <2>1, <2>2, <2>3, <2>4, <2>5, <2>6
<1>3. part \in [1 .. n -> Seq(Item)]
  BY <1>1, <1>2
<1>4. start \in Seq(Item)
  BY PlainFacts
<1>5. NextHeader(b, stack) = start \o FlattenSeq(part)
  BY DEF NextHeader
<1> HIDE DEF part, start, n
<1>6. PICK w \in [0 .. n -> Seq(Item)] :
               /\ w[0] = <<>>
               /\ \A k \in 0 .. n - 1 : w[k + 1] = w[k] \o part[k + 1]
               /\ FlattenSeq(part) = w[n]
  BY <1>1, <1>3, FlattenItems
<1> DEFINE T == {k \in 0 .. n : start \o w[k] \in Q[k]}
<1>7. 0 \in T
  <2>1. start \o <<>> = start /\ 0 \in 0 .. n /\ start \in Q[0]
    BY <1>1, <1>4, ConcatEmptySeq DEF start
  <2> QED
    BY <1>6, <2>1
<1>8. ASSUME NEW k \in 0 .. n - 1, k \in T
      PROVE  k + 1 \in T
  <2> DEFINE i == k + 1
             v == start \o w[k]
             tag == <<"open", stack[i]>>
  <2>1. i \in 1 .. n /\ i \in 0 .. n /\ k \in 0 .. n
    BY <1>1
  <2>2. w[k] \in Seq(Item) /\ w[i] = w[k] \o part[i] /\ v \in Q[k]
    BY <1>6, <1>8, <2>1
  <2>3. v \in Seq(Item)
    BY <1>4, <2>2, ConcatProperties
  <2>4. (IF i \in DOMAIN b.kept THEN Append(v, tag) \o b.kept[i] ELSE Append(v, tag)) \in Q[i]
    BY <2>2, <2>3 DEF n
  <2>5. start \o w[i] = v \o part[i]
    <3> DEFINE y == part[i]
               x == w[k]
    <3>1. y \in Seq(Item) /\ x \in Seq(Item)
      BY <1>2, <2>1, <2>2
    <3> HIDE DEF x, y, i
    <3>2. start \o (x \o y) = (start \o x) \o y
      BY <1>4, <3>1, TextsJoin
    <3> QED
      BY <2>2, <3>2 DEF x, y
  <2>6. tag \in Item /\ <<tag>> \in Seq(Item) /\ Append(v, tag) = v \o <<tag>>
    BY <1>2, <2>1, <2>3, AppendIsConcat
  <2>7. v \o part[i] = IF i \in DOMAIN b.kept THEN Append(v, tag) \o b.kept[i] ELSE Append(v, tag)
    <3>1. CASE i \in DOMAIN b.kept
      <4>1. b.kept[i] \in Seq(Item) /\ part[i] = <<tag>> \o b.kept[i]
        BY <1>2, <2>1, <3>1
      <4> HIDE DEF v, tag, i
      <4>2. v \o (<<tag>> \o b.kept[i]) = (v \o <<tag>>) \o b.kept[i]
        <5> DEFINE y == b.kept[i]
                   x == <<tag>>
        <5>1. y \in Seq(Item) /\ x \in Seq(Item)
          BY <2>6, <4>1
        <5> HIDE DEF x, y
        <5>2. v \o (x \o y) = (v \o x) \o y
          BY <2>3, <5>1, TextsJoin
        <5> QED
          BY <5>2 DEF x, y
      <4> QED
        BY <2>6, <3>1, <4>1, <4>2
    <3>2. CASE i \notin DOMAIN b.kept
      BY <1>2, <2>1, <2>6, <3>2
    <3> QED
      BY <3>1, <3>2
  <2> HIDE DEF v, tag
  <2>8. start \o w[i] \in Q[i]
    BY <2>4, <2>5, <2>7
  <2> QED
    BY <2>1, <2>8
<1> HIDE DEF T
<1>9. \A k \in 0 .. n : k \in T
  BY <1>1, <1>7, <1>8, UpToLast
<1> QED
  BY <1>1, <1>5, <1>6, <1>9 DEF T, n

\* The lists of elements from the root to a level.
LEMMA PrefixFacts ==
    ASSUME NEW stack \in Seq(Elem)
    PROVE  /\ SubSeq(stack, 1, 0) = <<>> /\ SubSeq(stack, 1, Len(stack)) = stack
           /\ \A k \in 0 .. Len(stack) : SubSeq(stack, 1, k) \in Seq(Elem)
           /\ \A k \in 0 .. Len(stack) - 1 :
                /\ SubSeq(stack, 1, k + 1) = Append(SubSeq(stack, 1, k), stack[k + 1])
                /\ SubSeq(stack, 1, k + 1) # <<>> /\ Last(SubSeq(stack, 1, k + 1)) = stack[k + 1]
                /\ Front(SubSeq(stack, 1, k + 1)) = SubSeq(stack, 1, k)
                /\ stack[k + 1] \in Elem
<1>1. SubSeq(stack, 1, 0) = <<>> /\ SubSeq(stack, 1, Len(stack)) = stack /\ Len(stack) \in Nat
  OBVIOUS
<1>2. ASSUME NEW k \in 0 .. Len(stack)
      PROVE  /\ SubSeq(stack, 1, k) \in Seq(Elem) /\ Len(SubSeq(stack, 1, k)) = k
             /\ \A i \in 1 .. k : SubSeq(stack, 1, k)[i] = stack[i]
  OBVIOUS
<1>3. ASSUME NEW k \in 0 .. Len(stack) - 1
      PROVE  /\ SubSeq(stack, 1, k + 1) = Append(SubSeq(stack, 1, k), stack[k + 1])
             /\ SubSeq(stack, 1, k + 1) # <<>> /\ Last(SubSeq(stack, 1, k + 1)) = stack[k + 1]
             /\ Front(SubSeq(stack, 1, k + 1)) = SubSeq(stack, 1, k)
             /\ stack[k + 1] \in Elem
  <2> DEFINE t == SubSeq(stack, 1, k)
             u == SubSeq(stack, 1, k + 1)
             e == stack[k + 1]
  <2>1. k \in 0 .. Len(stack) /\ k + 1 \in 0 .. Len(stack) /\ k + 1 \in 1 .. Len(stack) /\ k \in Nat
    BY <1>1
  <2>2. /\ t \in Seq(Elem) /\ Len(t) = k /\ \A i \in 1 .. k : t[i] = stack[i]
    BY <1>2, <2>1
  <2>3. /\ u \in Seq(Elem) /\ Len(u) = k + 1 /\ \A i \in 1 .. k + 1 : u[i] = stack[i]
    BY <1>2, <2>1
  <2>4. e \in Elem
    BY <2>1
  <2> HIDE DEF t, u, e
  <2>5. u = Append(t, e)
    <3>1. /\ Append(t, e) \in Seq(Elem) /\ Len(Append(t, e)) = k + 1
          /\ \A i \in 1 .. k : Append(t, e)[i] = t[i]
          /\ Append(t, e)[k + 1] = e
      BY <2>2, <2>4
    <3>2. \A i \in 1 .. k + 1 : i = k + 1 \/ i \in 1 .. k
      BY <2>1
    <3>3. \A i \in 1 .. k + 1 : u[i] = Append(t, e)[i]
      BY <2>1, <2>2, <2>3, <3>1, <3>2 DEF e
    <3> QED
      BY <2>3, <3>1, <3>3, SeqEqual
  <2>6. u # <<>> /\ Last(u) = e
    BY <2>1, <2>3 DEF Last, e
  <2>7. Front(u) = t
    <3>1. Front(u) = SubSeq(u, 1, (k + 1) - 1) /\ (k + 1) - 1 = k
      BY <2>1, <2>3 DEF Front
    <3>2. SubSeq(u, 1, k) \in Seq(Elem) /\ Len(SubSeq(u, 1, k)) = k
          /\ \A i \in 1 .. k : SubSeq(u, 1, k)[i] = u[i]
      BY <2>1, <2>3
    <3>3. \A i \in 1 .. k : SubSeq(u, 1, k)[i] = t[i]
      BY <2>1, <2>2, <2>3, <3>2
    <3>4. SubSeq(u, 1, k) = t
      BY <2>2, <3>2, <3>3, SeqEqual
    <3> QED
      BY <3>1, <3>4
  <2> QED
    BY <2>4, <2>5, <2>6, <2>7 DEF t, u, e
<1> QED
  BY <1>1, <1>2, <1>3

\* The header of a page opens what is open ...
LEMMA GoodHeader ==
    ASSUME NEW b \in RecordBreaker, NEW stack \in Seq(Elem),
           \A k \in DOMAIN b.kept : KeptText(b.kept[k])
    PROVE  GoodText(NextHeader(b, stack), stack)
<1> DEFINE n == Len(stack)
           P(k) == SubSeq(stack, 1, k)
           Q == [k \in 0 .. n |-> {v \in Seq(Item) : GoodText(v, P(k))}]
<1>1. n \in Nat /\ 0 \in 0 .. n /\ n \in 0 .. n /\ P(0) = <<>> /\ P(n) = stack
  BY PrefixFacts
<1>2. <<Declaration>> \in Q[0]
  <2>1. <<Declaration>> \in Seq(Item)
    BY PlainFacts
  <2> QED
    BY <1>1, <2>1, GoodDeclaration
<1>3. ASSUME NEW k \in 0 .. n - 1, NEW v \in Seq(Item), v \in Q[k]
      PROVE  LET opened == Append(v, <<"open", stack[k + 1]>>)
             IN  (IF k + 1 \in DOMAIN b.kept THEN opened \o b.kept[k + 1] ELSE opened) \in Q[k + 1]
  <2> DEFINE i == k + 1
             e == stack[i]
             opened == Append(v, <<"open", e>>)
             p == P(k)
             q == P(i)
  <2>1. i \in 0 .. n /\ k \in 0 .. n
    BY <1>1
  <2>2. e \in Elem /\ p \in Seq(Elem) /\ q \in Seq(Elem) /\ q = Append(p, e)
    BY <2>1, PrefixFacts
  <2>3. GoodText(v, p)
    BY <1>3, <2>1
  <2>4. Q[i] = {u \in Seq(Item) : GoodText(u, q)}
    BY <2>1
  <2> HIDE DEF p, q, e, Q, i
  <2>5. GoodText(opened, q) /\ opened \in Seq(Item)
    <3>1. GoodText(Append(v, <<"open", e>>), Append(p, e))
      BY <2>2, <2>3, GoodItems
    <3>2. <<"open", e>> \in Item
      BY <2>2, PlainFacts
    <3>3. Append(v, <<"open", e>>) \in Seq(Item)
      BY <3>2
    <3> QED
      BY <2>2, <3>1, <3>3
  <2> HIDE DEF opened
  <2>6. ASSUME i \in DOMAIN b.kept
        PROVE  opened \o b.kept[i] \in Seq(Item) /\ GoodText(opened \o b.kept[i], q)
    <3>1. b.kept[i] \in Seq(Item) /\ KeptText(b.kept[i])
      BY <2>6 DEF RecordBreaker, Numbered
    <3> QED
      BY <2>2, <2>5, <3>1, GoodKept, TextsJoin
  <2> QED
    BY <2>4, <2>5, <2>6 DEF opened, e, i
<1> HIDE DEF Q, P
<1>4. NextHeader(b, stack) \in Q[n]
  BY <1>2, <1>3, HeaderWalk
<1> QED
  BY <1>1, <1>4 DEF Q

\* ... and its footer closes it.
LEMMA GoodFooter ==
    ASSUME NEW t \in Seq(Item), NEW stack \in Seq(Elem), GoodText(t, stack)
    PROVE  GoodText(t \o Footer(stack), <<>>)
<1> DEFINE n == Len(stack)
           u == Footer(stack)
           P(k) == SubSeq(stack, 1, n - k)
           Q == [k \in 0 .. n |-> {v \in Seq(Item) : GoodText(v, P(k))}]
<1>1. n \in Nat /\ 0 \in 0 .. n /\ n \in 0 .. n /\ P(n) = <<>> /\ P(0) = stack
  <2>1. n - 0 = n /\ n - n = 0
    OBVIOUS
  <2> QED
    BY <2>1, PrefixFacts
<1>2. /\ u \in Seq(Item) /\ Len(u) = n
      /\ \A i \in 1 .. n : u[i] = <<"close", stack[n + 1 - i]>>
  BY FooterType
<1> HIDE DEF u
<1>3. t \in Q[0]
  BY <1>1
<1>4. ASSUME NEW k \in 0 .. n - 1, NEW v \in Seq(Item), v \in Q[k]
      PROVE  Append(v, u[k + 1]) \in Q[k + 1]
  <2> DEFINE i == k + 1
             j == n - i
             p == P(k)
             q == P(i)
  <2>1. /\ i \in 0 .. n /\ i \in 1 .. n /\ k \in 0 .. n /\ j \in 0 .. n - 1
        /\ n - k = j + 1 /\ n + 1 - i = j + 1 /\ j \in 0 .. n /\ j + 1 \in 0 .. n
    <3>1. \A m \in Nat : \A l \in 0 .. m - 1 :
            /\ l + 1 \in 0 .. m /\ l + 1 \in 1 .. m /\ l \in 0 .. m /\ m - (l + 1) \in 0 .. m - 1
            /\ m - l = (m - (l + 1)) + 1 /\ m + 1 - (l + 1) = (m - (l + 1)) + 1
            /\ m - (l + 1) \in 0 .. m /\ (m - (l + 1)) + 1 \in 0 .. m
      OBVIOUS
    <3> HIDE DEF n
    <3> QED
      BY <1>1, <3>1
  <2>2. p = SubSeq(stack, 1, j + 1) /\ q = SubSeq(stack, 1, j) /\ u[i] = <<"close", stack[j + 1]>>
    BY <1>2, <2>1
  <2>3. GoodText(v, p) /\ Q[i] = {w \in Seq(Item) : GoodText(w, q)}
    BY <1>4, <2>1
  <2> HIDE DEF p, q, Q, i, j
  <2>4. p \in Seq(Elem) /\ p # <<>> /\ Last(p) = stack[j + 1] /\ Front(p) = q
    BY <2>1, <2>2, PrefixFacts
  <2>5. GoodText(Append(v, u[i]), q)
    BY <2>2, <2>3, <2>4, GoodItems
  <2>6. Append(v, u[i]) \in Seq(Item)
    <3>1. u[i] \in Item
      BY <1>2, <2>1
    <3> QED
      BY <3>1
  <2> QED
    BY <2>3, <2>5, <2>6 DEF i
<1> HIDE DEF Q, P
<1>5. t \o u \in Q[Len(u)]
  BY <1>2, <1>3, <1>4, ConcatWalk
<1> QED
  BY <1>1, <1>2, <1>5 DEF Q, u

-----------------------------------------------------------------------------
(***************************************************************************)
(* Decorating, turning and breaking keep the pages documents.              *)
(***************************************************************************)
\* What the helpers make of the handler, in the terms of the pages.
LEMMA TurnFacts ==
    ASSUME NEW r \in Live, Clean(r), Settled(r), NEW k \in {"main", "note"}
    PROVE  LET q == [r EXCEPT !.cur = k]
           IN  /\ q \in Live /\ q.cur = k /\ q.dec = r.dec /\ q.doc = r.doc
               /\ q.stack = r.stack /\ q.docDb = r.docDb /\ q.words = r.words
               /\ q.breaker = r.breaker /\ q.pages = r.pages /\ q.output = r.output
               /\ q.open = r.open /\ q.closed = r.closed /\ q.cache = r.cache
               /\ \A j \in {"main", "note"} : Blank(r.dec[j])
               /\ Current(q) = r.dec[k] /\ Blank(Current(q)) /\ Blank(Current(r))
<1> DEFINE q == [r EXCEPT !.cur = k]
<1>1. /\ q \in Live /\ q.cur = k /\ q.dec = r.dec /\ q.doc = r.doc
      /\ q.stack = r.stack /\ q.docDb = r.docDb /\ q.words = r.words
      /\ q.breaker = r.breaker /\ q.pages = r.pages /\ q.output = r.output
      /\ q.open = r.open /\ q.closed = r.closed /\ q.cache = r.cache
  BY DEF Live, Handler
<1> HIDE DEF q
<1>2. \A j \in {"main", "note"} : Blank(r.dec[j])
  <2>1. Blank(r.dec[r.cur]) /\ r.cur \in {"main", "note"}
    BY CurrentType DEF Settled, Current
  <2> QED
    BY <2>1 DEF Clean
<1> QED
  BY <1>1, <1>2, CurrentType DEF Current, q

LEMMA PageTurnedFacts ==
    ASSUME NEW r \in Live, r.doc # 0
    PROVE  LET q == PageTurned(r)
               pages == IF r.docDb THEN [r.pages EXCEPT ![r.doc] =
                                           WithPage(@, Current(r).at.pge, RecordText(r))]
                        ELSE r.pages
           IN  /\ RecordText(r) \in Seq(Item)
               /\ q \in Live /\ q.cur = r.cur /\ q.doc = r.doc
               /\ \A k \in {"main", "note"} :
                    q.dec[k] = [r.dec[k] EXCEPT !.at = [pge |-> @.pge + 1, pos |-> @.pos]]
               /\ q.breaker = [r.breaker EXCEPT !.header = NextHeader(r.breaker, r.stack)]
               /\ q.stack = r.stack /\ q.docDb = r.docDb
               /\ q.pages = pages /\ q.words = r.words /\ q.output = <<>>
               /\ q.open = r.open /\ q.closed = r.closed /\ q.cache = r.cache
<1> DEFINE text == RecordText(r)
           p == AddDocRecord(r, text)
           q == PageTurned(r)
           pages == IF r.docDb THEN [r.pages EXCEPT ![r.doc] = WithPage(@, Current(r).at.pge, text)]
                    ELSE r.pages
<1>1. text \in Seq(Item)
  <2>1. Footer(r.stack) \in Seq(Item) /\ r.output \in Seq(Item) /\ r.breaker.header \in Seq(Item)
    BY FooterType DEF Live, Handler, RecordBreaker
  <2> QED
    BY <2>1, TextsJoin DEF RecordText
<1> HIDE DEF text
<1>2. /\ p \in Live /\ p.cur = r.cur /\ p.dec = r.dec /\ p.doc = r.doc
      /\ p.stack = r.stack /\ p.docDb = r.docDb /\ p.breaker = r.breaker
      /\ p.pages = pages /\ p.words = r.words /\ p.output = r.output
      /\ p.open = r.open /\ p.closed = r.closed /\ p.cache = r.cache
  BY <1>1, RecordedFacts
<1> HIDE DEF pages
<1>3. q = NextPage(p)
  BY DEF PageTurned, text
<1> HIDE DEF p, q
<1>4. /\ q \in Live /\ q.cur = p.cur /\ q.doc = p.doc
      /\ \A k \in {"main", "note"} :
           q.dec[k] = [p.dec[k] EXCEPT !.at = [pge |-> @.pge + 1, pos |-> @.pos]]
      /\ q.breaker = [p.breaker EXCEPT !.header = NextHeader(p.breaker, p.stack)]
      /\ q.stack = p.stack /\ q.docDb = p.docDb
      /\ q.pages = p.pages /\ q.words = p.words /\ q.output = <<>>
      /\ q.open = p.open /\ q.closed = p.closed /\ q.cache = p.cache
  BY <1>2, <1>3, NextPageFacts
<1> QED
  BY <1>1, <1>2, <1>4 DEF text, q, pages

\* A handler that shows the same, or one plain item more.
LEMMA ShownType ==
    ASSUME NEW r \in Live
    PROVE  Shown(r) \in Seq(Item) /\ r.output \in Seq(Item) /\ r.breaker.header \in Seq(Item)
           /\ Current(r).out \in Seq(Item)
<1>1. r.output \in Seq(Item) /\ r.breaker.header \in Seq(Item) /\ Current(r).out \in Seq(Item)
  BY CurrentType DEF Live, Handler, RecordBreaker, Dec
<1> QED
  BY <1>1, TextsJoin DEF Shown

LEMMA ShownGrows ==
    ASSUME NEW r \in Live, NEW q \in Live, NEW x \in Item,
           q.breaker = r.breaker, q.output = r.output, Current(q).out = Append(Current(r).out, x)
    PROVE  Shown(q) = Append(Shown(r), x)
<1> DEFINE h == r.breaker.header \o r.output
           o == Current(r).out
<1>1. h \in Seq(Item) /\ o \in Seq(Item) /\ h \o o \in Seq(Item) /\ <<x>> \in Seq(Item)
  BY ShownType, TextsJoin
<1>2. Append(o, x) = o \o <<x>>
  BY <1>1, AppendIsConcat
<1>3. Append(h \o o, x) = (h \o o) \o <<x>>
  BY <1>1, AppendIsConcat
<1>4. Shown(q) = h \o Append(o, x) /\ Shown(r) = h \o o
  BY DEF Shown
<1> HIDE DEF h, o
<1> QED
  BY <1>1, <1>2, <1>3, <1>4, TextsJoin

LEMMA PagedSame ==
    ASSUME NEW r \in Live, NEW q \in Live, NEW open \in Seq(Elem), NEW path,
           Paged(r, open, path),
           q.doc = r.doc, q.docDb = r.docDb, q.pages = r.pages, q.breaker = r.breaker,
           \A k \in {"main", "note"} : q.dec[k].at.pge = r.dec[k].at.pge,
           Storage => Shown(q) = Shown(r) \/ \E x \in Plain : Shown(q) = Append(Shown(r), x)
    PROVE  Paged(q, open, path)
<1>1. q.docDb /\ Storage /\ ~ FirstIsSpoilt(q) => GoodText(Shown(q), open)
  <2> SUFFICES ASSUME q.docDb, Storage, ~ FirstIsSpoilt(q)
               PROVE  GoodText(Shown(q), open)
    OBVIOUS
  <2>1. ~ FirstIsSpoilt(r)
    BY DEF FirstIsSpoilt
  <2>2. GoodText(Shown(r), open) /\ Shown(r) \in Seq(Item)
    BY <2>1, ShownType DEF Paged
  <2> QED
    BY <2>2, GoodItems
<1> QED
  BY <1>1 DEF Paged

PagedSet(s, open, path) == {r \in CleanSet(s) : Paged(r, open, path)}

\* A token says one plain item, on the same page.
LEMMA TokenSays ==
    ASSUME NEW r \in Live, NEW t \in Text
    PROVE  LET q == DecorateToken(r, t)
           IN  /\ q \in Live /\ Alike(r, q) /\ q.output = r.output
               /\ Current(q).at.pge = Current(r).at.pge
               /\ \E x \in Plain :
                    Current(q).out = IF Storage THEN Append(Current(r).out, x) ELSE Current(r).out
<1> DEFINE q == DecorateToken(r, t)
           d == Current(r)
<1>0. d \in Dec
  BY CurrentType
<1>1. CASE t \in Spaces
  <2>1. q \in Live /\ Alike(r, q) /\ q.output = r.output /\ Current(q) = WithSpace(d, t)
    BY <1>1, SpaceFacts
  <2> HIDE DEF q, d
  <2>2. <<"text", t>> \in Plain
    BY <1>1 DEF Plain, Text
  <2>3. /\ WithSpace(d, t).at = d.at
        /\ WithSpace(d, t).out = IF Storage THEN Append(d.out, <<"text", t>>) ELSE d.out
    BY <1>0 DEF WithSpace, Dec
  <2> QED
    BY <2>1, <2>2, <2>3 DEF d, q
<1>2. CASE t \in Piece
  <2> DEFINE e == Started(d)
  <2>1. /\ e \in Dec /\ q \in Live /\ Alike(r, q) /\ q.output = r.output
        /\ Current(q) = WithWord(e, t)
    BY <1>2, PieceFacts
  <2> HIDE DEF q, d
  <2>2. e.out = d.out /\ e.at.pge = d.at.pge /\ e.at.pos \in Nat
    BY <1>0 DEF Started, Dec, Place
  <2> HIDE DEF e
  <2> DEFINE x == <<"w", e.at.pos, t>>
  <2>3. x \in Plain
    BY <1>2, <2>2 DEF Plain, Word
  <2>4. /\ WithWord(e, t).at = e.at
        /\ WithWord(e, t).out = IF Storage THEN Append(e.out, x) ELSE e.out
    BY <2>1 DEF WithWord, Dec
  <2> QED
    BY <2>1, <2>2, <2>3, <2>4 DEF d, q
<1> QED
  BY <1>1, <1>2 DEF Text

\* Decorating keeps the pages, whatever is open.
LEMMA PagedIsTextClosed ==
    ASSUME NEW s, NEW open \in Seq(Elem), NEW path
    PROVE  TextClosed(PagedSet(s, open, path))
<1> DEFINE A == PagedSet(s, open, path)
<1>1. TextClosed(CleanSet(s))
  BY CleanIsClosed DEF Closed
<1> SUFFICES ASSUME NEW r \in Live, r \in A
             PROVE  /\ \A t \in Text : DecorateToken(r, t) \in A
                    /\ Emptied(r) \in A /\ Moved(r) \in A /\ IndexWord(r) \in A
  BY DEF TextClosed
<1>2. r \in CleanSet(s) /\ Paged(r, open, path) /\ r.cur \in {"main", "note"} /\ Current(r) \in Dec
  BY CurrentType DEF PagedSet
<1>3. ASSUME NEW q \in CleanSet(s), Alike(r, q), Current(q).at.pge = Current(r).at.pge,
             Storage => Shown(q) = Shown(r) \/ \E x \in Plain : Shown(q) = Append(Shown(r), x)
      PROVE  q \in A
  <2>1. q \in Live
    BY DEF CleanSet
  <2>2. \A k \in {"main", "note"} : q.dec[k].at.pge = r.dec[k].at.pge
    BY <1>3 DEF Alike, Current
  <2>3. Paged(q, open, path)
    BY <1>2, <1>3, <2>1, <2>2, PagedSame DEF Alike
  <2> QED
    BY <2>3 DEF PagedSet
<1>4. ASSUME NEW t \in Text
      PROVE  DecorateToken(r, t) \in A
  <2> DEFINE q == DecorateToken(r, t)
  <2>1. q \in CleanSet(s)
    BY <1>1, <1>2 DEF TextClosed
  <2>2. /\ q \in Live /\ Alike(r, q) /\ q.output = r.output
        /\ Current(q).at.pge = Current(r).at.pge
        /\ \E x \in Plain :
             Current(q).out = IF Storage THEN Append(Current(r).out, x) ELSE Current(r).out
    BY TokenSays
  <2> HIDE DEF q
  <2>3. Storage => \E x \in Plain : Shown(q) = Append(Shown(r), x)
    <3> SUFFICES ASSUME Storage PROVE \E x \in Plain : Shown(q) = Append(Shown(r), x)
      OBVIOUS
    <3>1. PICK x \in Plain : Current(q).out = Append(Current(r).out, x)
      BY <2>2
    <3>2. Shown(q) = Append(Shown(r), x)
      BY <2>2, <3>1, ShownGrows, PlainFacts DEF Alike
    <3> QED
      BY <3>2
  <2>4. q \in A
    BY <1>3, <2>1, <2>2, <2>3
  <2> QED
    BY <2>4 DEF q
<1>5. Emptied(r) \in A
  <2> DEFINE q == Emptied(r)
             d == [Current(r) EXCEPT !.buf = <<>>]
  <2>1. q \in CleanSet(s)
    BY <1>1, <1>2 DEF TextClosed
  <2>2. Current(q) = d /\ Alike(r, q) /\ q.output = r.output
    BY EmptiedFacts
  <2>3. d.at = Current(r).at /\ d.out = Current(r).out
    BY <1>2 DEF Dec
  <2> HIDE DEF q, d
  <2>4. Shown(q) = Shown(r)
    BY <2>2, <2>3 DEF Shown, Alike
  <2>5. q \in A
    BY <1>3, <2>1, <2>2, <2>3, <2>4
  <2> QED
    BY <2>5 DEF q
<1>6. Moved(r) \in A
  <2> DEFINE q == Moved(r)
             d == [Current(r) EXCEPT !.out = <<>>]
  <2>1. q \in CleanSet(s)
    BY <1>1, <1>2 DEF TextClosed
  <2>2. /\ Current(q) = d /\ Alike(r, q)
        /\ q.output = IF Storage THEN r.output \o Current(r).out ELSE r.output
    BY MovedFacts
  <2>3. d.at = Current(r).at /\ d.out = <<>>
    BY <1>2 DEF Dec
  <2> HIDE DEF q, d
  <2>4. Storage => Shown(q) = Shown(r)
    <3> SUFFICES ASSUME Storage PROVE Shown(q) = Shown(r)
      OBVIOUS
    <3> DEFINE h == r.breaker.header
               t == r.output
               o == Current(r).out
    <3>1. h \in Seq(Item) /\ t \in Seq(Item) /\ o \in Seq(Item)
      BY ShownType
    <3>2. Shown(q) = (h \o (t \o o)) \o <<>> /\ Shown(r) = (h \o t) \o o
      BY <2>2, <2>3 DEF Shown, Alike
    <3> HIDE DEF h, t, o
    <3>3. h \o (t \o o) \in Seq(Item)
      BY <3>1, TextsJoin
    <3>4. (h \o (t \o o)) \o <<>> = h \o (t \o o)
      BY <3>3, TextsJoin
    <3>5. (h \o t) \o o = h \o (t \o o)
      BY <3>1, TextsJoin
    <3> QED
      BY <3>2, <3>4, <3>5
  <2>5. q \in A
    BY <1>3, <2>1, <2>2, <2>3, <2>4
  <2> QED
    BY <2>5 DEF q
<1>7. IndexWord(r) \in A
  <2> DEFINE q == IndexWord(r)
             d == [Current(r) EXCEPT !.wrd = <<>>]
  <2>1. q \in CleanSet(s)
    BY <1>1, <1>2 DEF TextClosed
  <2>2. Current(q) = d /\ Alike(r, q) /\ q.output = r.output
    BY IndexWordFacts
  <2>3. d.at = Current(r).at /\ d.out = Current(r).out
    BY <1>2 DEF Dec
  <2> HIDE DEF q, d
  <2>4. Shown(q) = Shown(r)
    BY <2>2, <2>3 DEF Shown, Alike
  <2>5. q \in A
    BY <1>3, <2>1, <2>2, <2>3, <2>4
  <2> QED
    BY <2>5 DEF q
<1> QED
  BY <1>4, <1>5, <1>6, <1>7

\* The record of a page that is not spoilt is a document, and so is the start of
\* the next.
LEMMA RecordIsGood ==
    ASSUME NEW r \in Live, Settled(r), NEW path, Paged(r, r.stack, path), Breaks, r.docDb,
           ~ FirstIsSpoilt(r)
    PROVE  GoodText(RecordText(r), <<>>)
<1>1. Storage
  BY DEF Breaks, Storage
<1>2. GoodText(Shown(r), r.stack)
  BY <1>1 DEF Paged
<1>3. r.breaker.header \o r.output \in Seq(Item) /\ Current(r).out = <<>> /\ r.stack \in Seq(Elem)
  BY ShownType, TextsJoin DEF Settled, Blank, Live, Handler
<1>4. Shown(r) = r.breaker.header \o r.output
  BY <1>3, TextsJoin DEF Shown
<1> QED
  BY <1>2, <1>3, <1>4, GoodFooter DEF RecordText

\* No helper leaves the handlers whose pages are documents.
LEMMA PagedIsClosed ==
    ASSUME NEW s, s.stack \in Seq(Elem), NEW path
    PROVE  Closed(PagedSet(s, s.stack, path))
<1> DEFINE A == PagedSet(s, s.stack, path)
<1>1. Closed(CleanSet(s))
  BY CleanIsClosed
<1>2. A \subseteq Live /\ TextClosed(A)
  <2>1. A \subseteq Live
    BY DEF PagedSet, CleanSet
  <2> QED
    BY <2>1, PagedIsTextClosed
<1>3. TurnClosed(A)
  <2> SUFFICES ASSUME NEW r \in A, Settled(r), NEW k \in {"main", "note"}
               PROVE  [r EXCEPT !.cur = k] \in A
    BY DEF TurnClosed
  <2> DEFINE q == [r EXCEPT !.cur = k]
  <2>1. r \in CleanSet(s) /\ r \in Live /\ Clean(r) /\ Paged(r, s.stack, path)
    BY DEF PagedSet, CleanSet
  <2>2. q \in CleanSet(s)
    BY <1>1, <2>1 DEF Closed, TurnClosed
  <2>3. /\ q \in Live /\ q.dec = r.dec /\ q.doc = r.doc /\ q.docDb = r.docDb
        /\ q.breaker = r.breaker /\ q.pages = r.pages /\ q.output = r.output
        /\ Blank(Current(q)) /\ Blank(Current(r))
    BY <2>1, TurnFacts
  <2> HIDE DEF q
  <2>4. Shown(q) = Shown(r)
    BY <2>3 DEF Shown, Blank
  <2>5. Paged(q, s.stack, path)
    BY <2>1, <2>3, <2>4, PagedSame
  <2> QED
    BY <2>2, <2>5 DEF PagedSet, q
<1>4. PageClosed(A)
  <2> SUFFICES ASSUME Breaks, NEW r \in A, Settled(r)
               PROVE  PageTurned(r) \in A
    BY DEF PageClosed
  <2> DEFINE q == PageTurned(r)
             p == r.dec["main"].at.pge
             text == RecordText(r)
  <2>1. /\ r \in CleanSet(s) /\ r \in Live /\ Clean(r) /\ Paged(r, s.stack, path)
        /\ r.doc # 0 /\ r.stack = s.stack
    BY DEF PagedSet, CleanSet, Kept
  <2>2. q \in CleanSet(s)
    BY <1>1, <2>1 DEF Closed, PageClosed
  <2>3. /\ q \in Live /\ q.cur = r.cur /\ q.doc = r.doc
        /\ \A k \in {"main", "note"} :
             q.dec[k] = [r.dec[k] EXCEPT !.at = [pge |-> @.pge + 1, pos |-> @.pos]]
        /\ q.breaker = [r.breaker EXCEPT !.header = NextHeader(r.breaker, r.stack)]
        /\ q.stack = r.stack /\ q.docDb = r.docDb /\ q.output = <<>>
        /\ q.pages = IF r.docDb THEN [r.pages EXCEPT ![r.doc] = WithPage(@, Current(r).at.pge, text)]
                     ELSE r.pages
    BY <2>1, PageTurnedFacts
  <2>4. /\ Current(r).at.pge = p /\ p \in Nat /\ r.dec["note"].at.pge = p
        /\ r.dec \in [{"main", "note"} -> Dec]
    <3>1. r.dec \in [{"main", "note"} -> Dec] /\ r.cur \in {"main", "note"}
      BY <2>1, CurrentType DEF Live, Handler
    <3>2. p \in Nat
      BY <3>1 DEF Dec, Place
    <3> QED
      BY <2>1, <3>1, <3>2 DEF Paged, Current
  <2> HIDE DEF q, p, text
  <2>5. \A k \in {"main", "note"} : q.dec[k].at.pge = p + 1 /\ q.dec[k].out = r.dec[k].out
    <3> TAKE k \in {"main", "note"}
    <3> DEFINE at == [pge |-> r.dec[k].at.pge + 1, pos |-> r.dec[k].at.pos]
    <3>1. r.dec[k] \in Dec /\ r.dec[k].at.pge = p
      BY <2>4 DEF p
    <3>2. q.dec[k] = [r.dec[k] EXCEPT !.at = at] /\ at.pge = p + 1
      BY <2>3, <3>1
    <3> HIDE DEF at
    <3> QED
      BY <3>1, <3>2 DEF Dec
  <2>6. /\ q.breaker.level = r.breaker.level /\ q.breaker.extra = r.breaker.extra
        /\ q.breaker.kept = r.breaker.kept /\ q.breaker.header = NextHeader(r.breaker, r.stack)
        /\ r.breaker \in RecordBreaker
    <3>1. r.breaker \in RecordBreaker
      BY <2>1 DEF Live, Handler
    <3> HIDE DEF PageTurned
    <3> QED
      BY <2>3, <3>1 DEF RecordBreaker
  <2>7. /\ r.doc \in 1 .. MaxDoc /\ r.pages \in [1 .. MaxDoc -> Numbered] /\ r.stack \in Seq(Elem)
    <3>1. MaxDoc \in Nat /\ r.doc \in 0 .. MaxDoc /\ r.pages \in [1 .. MaxDoc -> Numbered]
      BY <2>1, BoundAssumption DEF Live, Handler
    <3> QED
      BY <2>1, <3>1
  <2>8. r.docDb => /\ DOMAIN q.pages[r.doc] = {p} \cup DOMAIN r.pages[r.doc]
                   /\ q.pages[r.doc][p] = text
                   /\ \A x \in DOMAIN r.pages[r.doc] : x # p => q.pages[r.doc][x] = r.pages[r.doc][x]
                   /\ \A d \in 1 .. MaxDoc : d # r.doc => q.pages[d] = r.pages[d]
    <3> SUFFICES ASSUME r.docDb
                 PROVE  /\ DOMAIN q.pages[r.doc] = {p} \cup DOMAIN r.pages[r.doc]
                        /\ q.pages[r.doc][p] = text
                        /\ \A x \in DOMAIN r.pages[r.doc] :
                              x # p => q.pages[r.doc][x] = r.pages[r.doc][x]
                        /\ \A d \in 1 .. MaxDoc : d # r.doc => q.pages[d] = r.pages[d]
      OBVIOUS
    <3>1. q.pages = [r.pages EXCEPT ![r.doc] = WithPage(@, p, text)]
      BY <2>3, <2>4
    <3>2. /\ q.pages[r.doc] = WithPage(r.pages[r.doc], p, text)
          /\ \A d \in 1 .. MaxDoc : d # r.doc => q.pages[d] = r.pages[d]
      BY <2>7, <3>1
    <3> QED
      BY <3>2 DEF WithPage
  <2>9. ~ r.docDb => q.pages = r.pages
    BY <2>3
  <2>10. q.docDb => DOMAIN q.pages[q.doc] = 0 .. (p + 1) - 1
    <3> SUFFICES ASSUME r.docDb PROVE DOMAIN q.pages[r.doc] = 0 .. (p + 1) - 1
      BY <2>3
    <3>1. DOMAIN r.pages[r.doc] = 0 .. p - 1
      BY <2>1 DEF Paged, p
    <3>2. {p} \cup 0 .. p - 1 = 0 .. (p + 1) - 1
      BY <2>4
    <3> QED
      BY <2>8, <3>1, <3>2
  <2>11. \A d \in 1 .. MaxDoc : d > q.doc => DOMAIN q.pages[d] = {}
    BY <2>1, <2>3, <2>7, <2>8, <2>9 DEF Paged
  <2>12. ASSUME NEW d \in 1 .. MaxDoc, NEW x \in DOMAIN q.pages[d], ~ SpoiltByHeader(d, x)
         PROVE  GoodText(q.pages[d][x], <<>>)
    <3>1. CASE r.docDb /\ d = r.doc /\ x = p
      <4>1. ~ FirstIsSpoilt(r)
        BY <2>12, <3>1 DEF FirstIsSpoilt, p
      <4>2. GoodText(text, <<>>)
        BY <2>1, <3>1, <4>1, RecordIsGood DEF text
      <4> QED
        BY <2>8, <3>1, <4>2
    <3>2. CASE ~ (r.docDb /\ d = r.doc /\ x = p)
      <4>1. x \in DOMAIN r.pages[d] /\ q.pages[d][x] = r.pages[d][x]
        BY <2>8, <2>9, <2>12, <3>2
      <4> QED
        BY <2>1, <2>12, <4>1 DEF Paged
    <3> QED
      BY <3>1, <3>2
  <2>13. GoodText(Shown(q), s.stack)
    <3>1. GoodText(NextHeader(r.breaker, r.stack), r.stack) /\ NextHeader(r.breaker, r.stack) \in Seq(Item)
      BY <2>1, <2>6, <2>7, GoodHeader, NextHeaderType DEF Paged
    <3>2. Current(q).out = <<>>
      <4>1. Current(r).out = <<>> /\ r.cur \in {"main", "note"}
        BY <2>1, CurrentType DEF Settled, Blank
      <4> QED
        BY <2>3, <2>5, <4>1 DEF Current
    <3>3. Shown(q) = NextHeader(r.breaker, r.stack)
      BY <2>3, <2>6, <3>1, <3>2, TextsJoin DEF Shown
    <3> QED
      BY <2>1, <3>1, <3>3
  <2>14. /\ NotesContent(q.breaker, path)
         /\ \A k \in DOMAIN q.breaker.kept : KeptText(q.breaker.kept[k])
    BY <2>1, <2>6 DEF Paged, NotesContent
  <2>15. Paged(q, s.stack, path)
    BY <2>5, <2>10, <2>11, <2>12, <2>13, <2>14 DEF Paged
  <2> QED
    BY <2>2, <2>15 DEF PagedSet, q
<1> QED
  BY <1>2, <1>3, <1>4 DEF Closed

-----------------------------------------------------------------------------
(***************************************************************************)
(* What the record breaker notes.                                          *)
(***************************************************************************)
\* The content of the root is not repeated on every page: it is the document.
RootIsNotRepeated == Breaker[Root] # "store"

LEMMA NotesDeeper ==
    ASSUME NEW b \in RecordBreaker, NEW stack \in Seq(Elem), NEW e \in Elem, NotesContent(b, stack)
    PROVE  NotesContent(b, Append(stack, e))
<1>1. /\ Len(Append(stack, e)) = Len(stack) + 1 /\ Len(stack) \in Nat
      /\ \A i \in 1 .. Len(stack) : Append(stack, e)[i] = stack[i]
  OBVIOUS
<1>2. CASE b.level = 0
  BY <1>2 DEF NotesContent
<1>3. CASE b.level # 0
  <2>1. b.level \in Nat /\ b.level < Len(stack)
    BY <1>3 DEF NotesContent, RecordBreaker
  <2>2. b.level + 1 \in 1 .. Len(stack) /\ b.level < Len(stack) + 1
    BY <1>1, <2>1
  <2> QED
    BY <1>1, <1>3, <2>2 DEF NotesContent
<1> QED
  BY <1>2, <1>3

LEMMA NotesOpens ==
    ASSUME NEW b \in RecordBreaker, NEW stack \in Seq(Elem), NEW e \in Elem,
           RootIsNotRepeated, stack = <<>> => e = Root, NotesContent(b, Append(stack, e))
    PROVE  LET q == BreakerOpens(b, e, Len(stack))
           IN  NotesContent(q, Append(stack, e)) /\ q.header = b.header /\ q.kept = b.kept
<1> DEFINE n == Len(stack)
           path == Append(stack, e)
           counted == IF Breaker[e] = "open" THEN [b EXCEPT !.pge = @ + 1] ELSE b
           q == BreakerOpens(b, e, n)
<1>1. /\ counted \in RecordBreaker /\ counted.level = b.level /\ counted.extra = b.extra
      /\ counted.header = b.header /\ counted.kept = b.kept
  BY DEF RecordBreaker
<1> HIDE DEF counted
<1>2. CASE Breaker[e] = "store" /\ b.level = 0
  <2>1. n # 0 /\ n \in Nat
    BY <1>2 DEF RootIsNotRepeated
  <2>2. b.extra = <<>>
    BY <1>2 DEF NotesContent
  <2>3. Append(counted.extra, <<"open", e>>) = <<<<"open", e>>>>
    BY <1>1, <2>2
  <2>4. q = [counted EXCEPT !.level = n, !.extra = <<<<"open", e>>>>]
    BY <1>1, <1>2, <2>3 DEF BreakerOpens, counted
  <2> HIDE DEF q
  <2>5. /\ q.level = n /\ q.extra = <<<<"open", e>>>> /\ q.header = b.header /\ q.kept = b.kept
    BY <1>1, <2>4 DEF RecordBreaker
  <2>6. n < Len(path) /\ path[n + 1] = e
    BY <2>1
  <2>7. /\ <<<<"open", e>>>> # <<>> /\ <<<<"open", e>>>>[1] = <<"open", e>>
        /\ \A i \in 2 .. Len(<<<<"open", e>>>>) : FALSE
    OBVIOUS
  <2>8. NotesContent(q, path)
    BY <1>2, <2>1, <2>5, <2>6, <2>7 DEF NotesContent
  <2> QED
    BY <2>5, <2>8 DEF q
<1>3. CASE ~ (Breaker[e] = "store" /\ b.level = 0)
  <2>1. q = counted
    BY <1>3 DEF BreakerOpens, counted
  <2> HIDE DEF q
  <2>2. NotesContent(q, path)
    BY <1>1, <2>1 DEF NotesContent
  <2> QED
    BY <1>1, <2>1, <2>2 DEF q
<1> QED
  BY <1>2, <1>3

LEMMA NotesCloses ==
    ASSUME NEW b \in RecordBreaker, NEW path \in Seq(Elem), path # <<>>, path[1] = Root,
           RootIsNotRepeated, NotesContent(b, path),
           \A k \in DOMAIN b.kept : KeptText(b.kept[k])
    PROVE  LET q == BreakerCloses(b, Last(path), Len(path) - 1)
           IN  /\ NotesContent(q, Front(path)) /\ q.header = b.header
               /\ \A k \in DOMAIN q.kept : KeptText(q.kept[k])
<1> DEFINE n == Len(path) - 1
           e == Last(path)
           front == Front(path)
           q == BreakerCloses(b, e, n)
           counted == IF Breaker[e] = "close" THEN [b EXCEPT !.pge = @ + 1] ELSE b
           left == LevelsLeft(DOMAIN b.kept, n)
           extra == Append(b.extra, <<"close", e>>)
           kept == [k \in left \cup {n} |-> IF k = n THEN extra ELSE b.kept[k]]
<1> HIDE DEF n, e, front, q, left, extra, kept, counted
<1>1. /\ counted.level = b.level /\ counted.extra = b.extra
      /\ counted.header = b.header /\ counted.kept = b.kept
  BY DEF RecordBreaker, counted
<1>2. /\ n \in Nat /\ Len(path) = n + 1 /\ e = path[n + 1] /\ e \in Elem
      /\ Len(front) = n /\ \A i \in 1 .. n : front[i] = path[i]
  <2>1. Len(path) \in Nat /\ Len(path) # 0
    OBVIOUS
  <2>2. front = SubSeq(path, 1, Len(path) - 1) /\ e = path[Len(path)]
    BY DEF Front, Last, front, e
  <2>3. /\ n \in Nat /\ Len(path) = n + 1
    BY <2>1 DEF n
  <2>4. front = SubSeq(path, 1, n) /\ e = path[n + 1]
    BY <2>2, <2>3 DEF n
  <2>5. path[n + 1] \in Elem
    BY <2>3
  <2>6. Len(SubSeq(path, 1, n)) = n /\ \A i \in 1 .. n : SubSeq(path, 1, n)[i] = path[i]
    BY <2>3
  <2> QED
    BY <2>3, <2>4, <2>5, <2>6
<1>3. CASE Breaker[e] = "store" /\ n = b.level
  <2>1. n # 0
    BY <1>2, <1>3 DEF RootIsNotRepeated
  <2>2. q = [counted EXCEPT !.level = 0, !.extra = <<>>, !.kept = kept]
    BY <1>3 DEF BreakerCloses, counted, left, q, kept, extra, e, n
  <2>3. /\ b.extra \in Seq(Item) /\ b.extra # <<>> /\ b.extra[1] = <<"open", e>>
        /\ \A i \in 2 .. Len(b.extra) : b.extra[i] \in {"text"} \X Text
    BY <1>2, <1>3, <2>1 DEF NotesContent, RecordBreaker
  <2>4. KeptText(extra)
    <3> DEFINE m == Len(b.extra)
    <3>1. m \in Nat /\ m >= 1 /\ <<"close", e>> \in Item
      BY <1>2, <2>3, PlainFacts
    <3>2. /\ Len(extra) = m + 1 /\ extra[m + 1] = <<"close", e>>
          /\ \A i \in 1 .. m : extra[i] = b.extra[i]
      BY <2>3, <3>1 DEF extra
    <3>3. \A i \in 2 .. Len(extra) - 1 : extra[i] \in {"text"} \X Text
      BY <2>3, <3>1, <3>2
    <3>4. extra[1] = <<"open", e>> /\ Len(extra) >= 2 /\ extra[Len(extra)] = <<"close", e>>
      BY <2>3, <3>1, <3>2
    <3> QED
      BY <1>2, <3>3, <3>4 DEF KeptText
  <2>5. left \subseteq DOMAIN b.kept
    BY DEF LevelsLeft, left
  <2>6. \A k \in DOMAIN kept : KeptText(kept[k])
    BY <2>4, <2>5 DEF kept
  <2>7. q.level = 0 /\ q.extra = <<>> /\ q.kept = kept /\ q.header = b.header
    <3>1. CASE Breaker[e] = "close"
      <4>1. q = [b EXCEPT !.pge = @ + 1, !.level = 0, !.extra = <<>>, !.kept = kept]
        BY <2>2, <3>1 DEF counted
      <4> QED
        BY <4>1 DEF RecordBreaker
    <3>2. CASE Breaker[e] # "close"
      <4>1. q = [b EXCEPT !.level = 0, !.extra = <<>>, !.kept = kept]
        BY <2>2, <3>2 DEF counted
      <4> QED
        BY <4>1 DEF RecordBreaker
    <3> QED
      BY <3>1, <3>2
  <2>8. NotesContent(q, front)
    BY <2>7 DEF NotesContent
  <2> QED
    BY <2>6, <2>7, <2>8 DEF q, front, e, n
<1>4. CASE ~ (Breaker[e] = "store" /\ n = b.level)
  <2>1. q = counted
    BY <1>4 DEF BreakerCloses, counted, q, e, n
  <2>2. NotesContent(q, front)
    <3>1. CASE b.level = 0
      BY <1>1, <2>1, <3>1 DEF NotesContent
    <3>2. CASE b.level # 0
      <4>1. b.level \in Nat /\ b.level < n + 1 /\ Breaker[path[b.level + 1]] = "store"
        BY <1>2, <3>2 DEF NotesContent, RecordBreaker
      <4>2. b.level # n
        BY <1>2, <1>4, <4>1
      <4>3. b.level < n /\ b.level + 1 \in 1 .. n
        BY <1>2, <4>1, <4>2
      <4> QED
        BY <1>1, <1>2, <2>1, <3>2, <4>3 DEF NotesContent
    <3> QED
      BY <3>1, <3>2
  <2> QED
    BY <1>1, <2>1, <2>2 DEF q, front, e, n
<1> QED
  BY <1>3, <1>4

LEMMA NotesCharacters ==
    ASSUME NEW b \in RecordBreaker, NEW path, NotesContent(b, path), NEW c \in Chunk
    PROVE  LET q == [b EXCEPT !.extra = IF Breaks /\ b.level # 0 THEN @ \o Raw(c) ELSE @]
           IN  NotesContent(q, path) /\ q.header = b.header /\ q.kept = b.kept
<1> DEFINE extra == IF Breaks /\ b.level # 0 THEN b.extra \o Raw(c) ELSE b.extra
           q == [b EXCEPT !.extra = extra]
<1>1. q.extra = extra /\ q.header = b.header /\ q.kept = b.kept /\ q.level = b.level
  BY DEF RecordBreaker
<1> HIDE DEF q
<1>2. NotesContent(q, path)
  <2>1. CASE Breaks /\ b.level # 0
    <3>1. /\ b.extra \in Seq(Item) /\ b.extra # <<>> /\ Raw(c) \in Seq(Item)
          /\ \A i \in 1 .. Len(Raw(c)) : Raw(c)[i] \in {"text"} \X Text
      <4>1. b.extra \in Seq(Item) /\ b.extra # <<>>
        BY <2>1 DEF NotesContent, RecordBreaker
      <4>2. Raw(c) \in Seq(Item)
        BY ChunkType
      <4>3. c \in Seq(Text)
        BY ChunkType
      <4>4. \A i \in 1 .. Len(Raw(c)) : Raw(c)[i] \in {"text"} \X Text
        BY <4>3 DEF Raw
      <4> QED
        BY <4>1, <4>2, <4>4
    <3>2. /\ extra = b.extra \o Raw(c) /\ extra \in Seq(Item)
          /\ Len(extra) = Len(b.extra) + Len(Raw(c))
          /\ \A i \in 1 .. Len(b.extra) + Len(Raw(c)) :
               extra[i] = IF i <= Len(b.extra) THEN b.extra[i] ELSE Raw(c)[i - Len(b.extra)]
      BY <2>1, <3>1, ConcatProperties
    <3>3. Len(b.extra) \in Nat /\ Len(b.extra) >= 1 /\ Len(Raw(c)) \in Nat
      BY <3>1
    <3> HIDE DEF extra
    <3>4. extra # <<>> /\ extra[1] = b.extra[1]
      BY <3>2, <3>3
    <3>5. ASSUME NEW i \in 2 .. Len(extra)
          PROVE  extra[i] \in {"text"} \X Text
      <4>1. CASE i <= Len(b.extra)
        <5>1. extra[i] = b.extra[i] /\ i \in 2 .. Len(b.extra)
          BY <3>2, <3>3, <4>1
        <5> QED
          BY <2>1, <5>1 DEF NotesContent
      <4>2. CASE ~ (i <= Len(b.extra))
        <5>1. extra[i] = Raw(c)[i - Len(b.extra)] /\ i - Len(b.extra) \in 1 .. Len(Raw(c))
          BY <3>2, <3>3, <4>2
        <5> QED
          BY <3>1, <5>1
      <4> QED
        BY <4>1, <4>2
    <3> QED
      BY <1>1, <2>1, <3>4, <3>5 DEF NotesContent
  <2>2. CASE ~ (Breaks /\ b.level # 0)
    BY <1>1, <2>2 DEF NotesContent
  <2> QED
    BY <2>1, <2>2
<1> QED
  BY <1>1, <1>2 DEF q, extra

-----------------------------------------------------------------------------
(***************************************************************************)
(* The steps keep the pages documents.                                     *)
(***************************************************************************)
\* What the record breaker notes is another thing than what the page shows.
LEMMA PagedBreaker ==
    ASSUME NEW s, NEW open \in Seq(Elem), NEW path, NEW path2, NEW r \in PagedSet(s, open, path),
           NEW b \in RecordBreaker, b.header = r.breaker.header,
           Breaks, NotesContent(b, path2), \A k \in DOMAIN b.kept : KeptText(b.kept[k])
    PROVE  [r EXCEPT !.breaker = b] \in PagedSet(s, open, path2)
<1> DEFINE q == [r EXCEPT !.breaker = b]
<1>1. r \in CleanSet(s) /\ r \in Live /\ Paged(r, open, path)
  BY DEF PagedSet, CleanSet
<1>2. q \in CleanSet(s)
  BY <1>1, CleanBreaker
<1>3. /\ q.breaker = b /\ q.dec = r.dec /\ q.cur = r.cur /\ q.doc = r.doc
      /\ q.docDb = r.docDb /\ q.pages = r.pages /\ q.output = r.output
  BY <1>1 DEF Live, Handler
<1> HIDE DEF q
<1>4. Shown(q) = Shown(r)
  BY <1>3 DEF Shown, Current
<1>5. Paged(q, open, path2)
  BY <1>1, <1>3, <1>4 DEF Paged, FirstIsSpoilt
<1> QED
  BY <1>2, <1>5 DEF PagedSet, q

\* While a document is parsed, it is enough that the handler is paged.
LEMMA PaginationStep ==
    ASSUME Steady, Pagination, Parsing, NEW r \in Live, ix' = r, r.doc = ix.doc,
           Paged(r, r.stack, r.stack), r.stack # <<>> => r.stack[1] = Root,
           UNCHANGED <<usage, begun, done>>
    PROVE  Pagination'
<1>1. ix.doc # 0 /\ ix.doc = begun /\ begun # 0 /\ ix.doc \notin done
  BY WorkingIsClean DEF Pagination
<1>2. \A d \in 1 .. MaxDoc : d > begun => DOMAIN r.pages[d] = {}
  BY <1>1 DEF Paged
<1>3. \A d \in 1 .. MaxDoc : \A p \in DOMAIN r.pages[d] :
          ~ SpoiltByHeader(d, p) => GoodText(r.pages[d][p], <<>>)
  BY DEF Paged
<1>4. begun = 0 \/ ~ Breaks => r.breaker.header = <<>>
  BY <1>1 DEF Paged
<1>5. Breaks => \A k \in DOMAIN r.breaker.kept : KeptText(r.breaker.kept[k])
  BY DEF Paged
<1>6. ~ Keeps => begun <= 1
  BY DEF Pagination
<1>7. Paged(ix, ix.stack, ix.stack)'
  BY DEF Paged, Storage, Breaks, FirstIsSpoilt, SpoiltByHeader, Keeps
<1>8. /\ Breaks' = Breaks /\ Keeps' = Keeps
      /\ \A d, p : SpoiltByHeader(d, p)' = SpoiltByHeader(d, p)
  BY DEF Breaks, Keeps, SpoiltByHeader
<1> QED
  BY <1>1, <1>2, <1>3, <1>4, <1>5, <1>6, <1>7, <1>8 DEF Pagination

\* The handler at work is paged.
LEMMA PagedNow ==
    ASSUME Steady, Pagination, Parsing
    PROVE  /\ ix \in Live /\ ix.stack \in Seq(Elem) /\ ix.breaker \in RecordBreaker
           /\ ix \in CleanSet(ix) /\ Clean(ix) /\ ix.doc # 0
           /\ Paged(ix, ix.stack, ix.stack) /\ ix \in PagedSet(ix, ix.stack, ix.stack)
BY WorkingIsClean DEF Pagination, PagedSet, Live, Handler

\* The list without its last element.
LEMMA FrontFacts ==
    ASSUME NEW stack \in Seq(Elem), stack # <<>>
    PROVE  /\ Front(stack) \in Seq(Elem) /\ Last(stack) \in Elem
           /\ Len(Front(stack)) = Len(stack) - 1 /\ Len(Front(stack)) \in Nat
           /\ \A i \in 1 .. Len(Front(stack)) : i \in DOMAIN stack /\ Front(stack)[i] = stack[i]
<1> DEFINE front == Front(stack)
           e == Last(stack)
           m == Len(stack) - 1
<1>1. Len(stack) \in Nat /\ Len(stack) # 0
  OBVIOUS
<1>2. front = SubSeq(stack, 1, m) /\ e = stack[Len(stack)]
  BY DEF Front, Last
<1>3. m \in Nat /\ Len(stack) = m + 1
  BY <1>1
<1> HIDE DEF m, front, e
<1>4. /\ front \in Seq(Elem) /\ Len(front) = m
      /\ \A i \in 1 .. m : i \in DOMAIN stack /\ front[i] = stack[i]
  BY <1>2, <1>3
<1>5. e \in Elem
  BY <1>1, <1>2
<1> QED
  BY <1>3, <1>4, <1>5 DEF front, e, m

\* The tag that begins an element counts and notes what it should ...
LEMMA PagedOpens ==
    ASSUME RootIsNotRepeated, Breaks, NEW s, NEW stack \in Seq(Elem), NEW e \in Elem,
           stack = <<>> => e = Root, NEW r \in PagedSet(s, stack, Append(stack, e))
    PROVE  [r EXCEPT !.breaker = BreakerOpens(@, e, Len(stack))]
             \in PagedSet(s, stack, Append(stack, e))
<1> DEFINE b == r.breaker
           q == BreakerOpens(b, e, Len(stack))
           path == Append(stack, e)
<1>1. r \in Live /\ Paged(r, stack, path)
  BY DEF PagedSet, CleanSet
<1>2. b \in RecordBreaker /\ NotesContent(b, path) /\ Len(stack) \in Nat
      /\ \A k \in DOMAIN b.kept : KeptText(b.kept[k])
  BY <1>1 DEF Live, Handler, Paged
<1>3. q \in RecordBreaker
  BY <1>2, BreakerOpensType
<1>4. NotesContent(q, path) /\ q.header = b.header /\ q.kept = b.kept
  BY <1>2, NotesOpens
<1> HIDE DEF q, path
<1>5. [r EXCEPT !.breaker = q] \in PagedSet(s, stack, path)
  BY <1>2, <1>3, <1>4, PagedBreaker DEF path
<1> QED
  BY <1>5 DEF q, path

\* ... and so does the one that ends it, after it was said.
LEMMA PagedSaysClose ==
    ASSUME NEW s, NEW stack \in Seq(Elem), stack # <<>>, NEW path,
           NEW c \in PagedSet(s, stack, path)
    PROVE  Says(c, <<"close", Last(stack)>>) \in PagedSet(s, Front(stack), path)
<1> DEFINE item == <<"close", Last(stack)>>
           front == Front(stack)
           r == Says(c, item)
           d == [Current(c) EXCEPT !.out = IF Storage THEN Append(@, item) ELSE @]
<1>1. c \in CleanSet(s) /\ c \in Live /\ Paged(c, stack, path) /\ item \in Item
  BY FrontFacts, PlainFacts DEF PagedSet, CleanSet
<1>2. r \in CleanSet(s)
  BY <1>1, CleanSays
<1>3. /\ d \in Dec /\ r \in Live /\ Current(r) = d /\ Alike(c, r) /\ r.output = c.output
  BY <1>1, SaysFacts
<1>4. d.at = Current(c).at /\ d.out = IF Storage THEN Append(Current(c).out, item) ELSE Current(c).out
  BY <1>1, CurrentType DEF Dec
<1> HIDE DEF r, d, item, front
<1>5. \A k \in {"main", "note"} : r.dec[k].at = c.dec[k].at
  BY <1>3, <1>4 DEF Current, Alike
<1>6. Storage => Shown(r) = Append(Shown(c), item)
  BY <1>1, <1>3, <1>4, ShownGrows DEF Alike
<1>7. r.docDb /\ Storage /\ ~ FirstIsSpoilt(r) => GoodText(Shown(r), front)
  <2> SUFFICES ASSUME r.docDb, Storage, ~ FirstIsSpoilt(r) PROVE GoodText(Shown(r), front)
    OBVIOUS
  <2>1. ~ FirstIsSpoilt(c)
    BY <1>3, <1>5 DEF FirstIsSpoilt, Alike
  <2>2. GoodText(Shown(c), stack) /\ Shown(c) \in Seq(Item)
    BY <1>1, <1>3, <2>1, ShownType DEF Paged, Alike
  <2> QED
    BY <1>6, <2>2, GoodItems DEF item, front
<1>8. Paged(r, front, path)
  BY <1>1, <1>3, <1>5, <1>7 DEF Paged, Alike
<1> QED
  BY <1>2, <1>8 DEF PagedSet, r, front, item

LEMMA PagedCloses ==
    ASSUME RootIsNotRepeated, Breaks, NEW s, NEW stack \in Seq(Elem), stack # <<>>,
           stack[1] = Root, NEW r \in PagedSet(s, Front(stack), stack)
    PROVE  [r EXCEPT !.breaker = BreakerCloses(@, Last(stack), Len(Front(stack)))]
             \in PagedSet(s, Front(stack), Front(stack))
<1> DEFINE b == r.breaker
           n == Len(Front(stack))
           w == BreakerCloses(b, Last(stack), n)
           front == Front(stack)
<1>1. /\ front \in Seq(Elem) /\ Last(stack) \in Elem /\ n = Len(stack) - 1 /\ n \in Nat
  BY FrontFacts
<1>2. r \in Live /\ Paged(r, front, stack)
  BY DEF PagedSet, CleanSet
<1>3. b \in RecordBreaker /\ NotesContent(b, stack) /\ \A k \in DOMAIN b.kept : KeptText(b.kept[k])
  BY <1>2 DEF Live, Handler, Paged
<1>4. w \in RecordBreaker
  BY <1>1, <1>3, BreakerClosesType
<1>5. /\ NotesContent(w, front) /\ w.header = b.header
      /\ \A k \in DOMAIN w.kept : KeptText(w.kept[k])
  <2>1. w = BreakerCloses(b, Last(stack), Len(stack) - 1)
    BY <1>1
  <2> HIDE DEF w
  <2> QED
    BY <1>3, <2>1, NotesCloses
<1> HIDE DEF w, front
<1>6. [r EXCEPT !.breaker = w] \in PagedSet(s, front, front)
  BY <1>1, <1>3, <1>4, <1>5, PagedBreaker DEF front
<1> QED
  BY <1>6 DEF w, front

LEMMA PaginationStartNode ==
    ASSUME Steady, Pagination, RootIsNotRepeated, NEW e \in Elem, StartNode(e)
    PROVE  Pagination'
<1>1. Parsing /\ (ix.stack = <<>> => e = Root)
  BY DEF StartNode, MoreEvents
<1>2. /\ ix \in Live /\ ix.stack \in Seq(Elem) /\ ix.breaker \in RecordBreaker
      /\ ix \in CleanSet(ix) /\ Paged(ix, ix.stack, ix.stack)
  BY <1>1, PagedNow
<1> DEFINE stack == ix.stack
           path == Append(stack, e)
           A == PagedSet(ix, stack, path)
<1>3. ix \in A
  <2>1. Breaks => NotesContent(ix.breaker, path)
    BY <1>2, NotesDeeper DEF Paged
  <2>2. Paged(ix, stack, path)
    BY <1>2, <2>1 DEF Paged
  <2> QED
    BY <1>2, <2>2 DEF PagedSet
<1>4. Closed(A)
  BY <1>2, PagedIsClosed
<1>5. ASSUME Breaks, NEW r \in A
      PROVE  [r EXCEPT !.breaker = BreakerOpens(@, e, Len(stack))] \in A
  BY <1>1, <1>2, <1>5, PagedOpens
<1> HIDE DEF A
<1>6. PICK c \in A : Starts(ix, e, c)
  <2>1. Breaks => \A r \in A : [r EXCEPT !.breaker = BreakerOpens(@, e, Len(ix.stack))] \in A
    BY <1>5
  <2> QED
    BY <1>3, <1>4, <2>1, StartNodeKeeps
<1>7. c \in Live /\ Kept(ix, c) /\ Clean(c) /\ Paged(c, stack, path)
  BY DEF A, PagedSet, CleanSet
<1> DEFINE r == Opened(c, e)
           item == <<"open", e>>
           d == [Current(c) EXCEPT !.out = IF Storage THEN Append(@, item) ELSE @]
<1>8. /\ d \in Dec /\ r \in Live /\ Current(r) = d /\ r.cur = c.cur
      /\ \A k \in {"main", "note"} : k # c.cur => r.dec[k] = c.dec[k]
      /\ r.doc = c.doc /\ r.docDb = c.docDb /\ r.breaker = c.breaker /\ r.pages = c.pages
      /\ r.output = c.output /\ r.stack = Append(c.stack, e)
  BY <1>7, OpenedFacts
<1>9. ix' = r
  <2>1. ix' = [AdornerStartNode(ix, e) EXCEPT !.open = Append(@, NewNode(e))]
    BY DEF StartNode
  <2> QED
    BY <1>6, <1>7, <2>1, StartsOpens
<1>10. d.at = Current(c).at /\ d.out = IF Storage THEN Append(Current(c).out, item) ELSE Current(c).out
  BY <1>7, CurrentType DEF Dec
<1> HIDE DEF r, d, item
<1>11. \A k \in {"main", "note"} : r.dec[k].at = c.dec[k].at
  BY <1>8, <1>10 DEF Current
<1>12. Storage => Shown(r) = Append(Shown(c), item)
  <2>1. item \in Item
    BY PlainFacts DEF item
  <2> QED
    BY <1>7, <1>8, <1>10, <2>1, ShownGrows
<1>13. r.docDb /\ Storage /\ ~ FirstIsSpoilt(r) => GoodText(Shown(r), path)
  <2> SUFFICES ASSUME r.docDb, Storage, ~ FirstIsSpoilt(r) PROVE GoodText(Shown(r), path)
    OBVIOUS
  <2>1. ~ FirstIsSpoilt(c)
    BY <1>8, <1>11 DEF FirstIsSpoilt
  <2>2. GoodText(Shown(c), stack) /\ Shown(c) \in Seq(Item)
    BY <1>7, <1>8, <2>1, ShownType DEF Paged
  <2> QED
    BY <1>2, <1>12, <2>2, GoodItems DEF item
<1>14. Paged(r, path, path)
  BY <1>7, <1>8, <1>11, <1>13 DEF Paged
<1>15. r.stack = path /\ r.doc = ix.doc
  BY <1>7, <1>8 DEF Kept
<1>16. path[1] = Root
  <2>1. ix.stack # <<>> => ix.stack[1] = Root
    BY DEF Pagination
  <2> QED
    BY <1>1, <1>2, <2>1
<1>17. UNCHANGED <<usage, begun, done>>
  BY DEF StartNode
<1> QED
  BY <1>1, <1>8, <1>9, <1>14, <1>15, <1>16, <1>17, PaginationStep

\* Characters that are buffered show nothing yet.
LEMMA PagedBuffered ==
    ASSUME NEW s \in Live, s \in CleanSet(s), Paged(s, s.stack, s.stack), NEW c \in Chunk
    PROVE  Buffered(s, c) \in PagedSet(s, s.stack, s.stack)
<1> DEFINE q == Buffered(s, c)
           d == [Current(s) EXCEPT !.buf = @ \o c]
           b == [s.breaker EXCEPT !.extra =
                   IF Breaks /\ s.breaker.level # 0 THEN @ \o Raw(c) ELSE @]
<1>1. s.breaker \in RecordBreaker /\ Current(s) \in Dec /\ Clean(s) /\ s.doc # 0
  BY CurrentType DEF CleanSet, Live, Handler
<1>2. q \in CleanSet(s)
  BY <1>1, CleanBuffered
<1>3. /\ d \in Dec /\ q \in Live /\ Current(q) = d /\ q.cur = s.cur
      /\ \A k \in {"main", "note"} : k # s.cur => q.dec[k] = s.dec[k]
      /\ q.doc = s.doc /\ q.docDb = s.docDb /\ q.breaker = b
      /\ q.pages = s.pages /\ q.output = s.output
  BY BufferedFacts
<1>4. d.at = Current(s).at /\ d.out = Current(s).out
  BY <1>1 DEF Dec
<1>5. b.header = s.breaker.header /\ b.kept = s.breaker.kept
      /\ (Breaks => NotesContent(b, s.stack))
  <2>1. CASE Breaks
    <3>1. NotesContent(s.breaker, s.stack)
      BY <2>1 DEF Paged
    <3> QED
      BY <1>1, <3>1, NotesCharacters
  <2>2. CASE ~ Breaks
    BY <1>1, <2>2 DEF RecordBreaker
  <2> QED
    BY <2>1, <2>2
<1> HIDE DEF q, d, b
<1>6. \A k \in {"main", "note"} : q.dec[k].at = s.dec[k].at
  BY <1>3, <1>4 DEF Current
<1>7. Shown(q) = Shown(s)
  BY <1>3, <1>4, <1>5 DEF Shown
<1>8. Paged(q, s.stack, s.stack)
  BY <1>3, <1>5, <1>6, <1>7 DEF Paged, FirstIsSpoilt
<1> QED
  BY <1>2, <1>8 DEF PagedSet, q

LEMMA PaginationCharacters ==
    ASSUME Steady, Pagination, NEW c \in Chunk, Characters(c)
    PROVE  Pagination'
<1>1. Parsing
  BY DEF Characters, MoreEvents
<1>2. /\ ix \in Live /\ ix.stack \in Seq(Elem) /\ ix.breaker \in RecordBreaker
      /\ ix \in CleanSet(ix) /\ Clean(ix) /\ ix.doc # 0 /\ Paged(ix, ix.stack, ix.stack)
  BY <1>1, PagedNow
<1> DEFINE stack == ix.stack
           A == PagedSet(ix, stack, stack)
           q == Buffered(ix, c)
           t == AdornerAddCharacters(ix, c)
           r == Noted(ix, c)
<1>3. q \in A
  BY <1>2, PagedBuffered
<1> HIDE DEF q
<1>4. t \in A
  BY <1>2, <1>3, PagedIsClosed, CharactersKeep DEF q
<1>5. t \in Live /\ Kept(ix, t) /\ Paged(t, stack, stack)
  BY <1>4 DEF PagedSet, CleanSet
<1>6. /\ r \in Live /\ r.cur = t.cur /\ r.dec = t.dec /\ r.doc = t.doc /\ r.docDb = t.docDb
       /\ r.breaker = t.breaker /\ r.pages = t.pages /\ r.output = t.output /\ r.stack = t.stack
  BY <1>5, NotedFacts
<1>7. ix' = r
  BY DEF Characters
<1> HIDE DEF r, t
<1>8. Shown(r) = Shown(t)
  BY <1>6 DEF Shown, Current
<1>9. Paged(r, stack, stack)
  BY <1>2, <1>5, <1>6, <1>8, PagedSame
<1>10. r.stack = stack /\ r.doc = ix.doc
  BY <1>5, <1>6 DEF Kept
<1>11. stack # <<>> => stack[1] = Root
  BY DEF Pagination
<1>12. UNCHANGED <<usage, begun, done>>
  BY DEF Characters
<1> QED
  BY <1>1, <1>6, <1>7, <1>9, <1>10, <1>11, <1>12, PaginationStep

LEMMA PaginationLoops ==
    ASSUME Steady, Pagination, EndNodeLoops
    PROVE  Pagination'
<1>1. Parsing /\ UNCHANGED <<ix, usage, begun, done>>
  BY DEF EndNodeLoops, MoreEvents
<1>2. ix \in Live /\ Paged(ix, ix.stack, ix.stack)
  BY <1>1, PagedNow
<1> QED
  BY <1>1, <1>2, PaginationStep DEF Pagination

LEMMA PaginationEndNode ==
    ASSUME Steady, Pagination, RootIsNotRepeated, EndNode
    PROVE  Pagination'
<1>1. Parsing /\ ix.stack # <<>> /\ ix' = NodeEnded(ix) /\ UNCHANGED <<usage, begun, done>>
  BY DEF EndNode, MoreEvents
<1>2. /\ ix \in Live /\ ix.stack \in Seq(Elem) /\ ix.breaker \in RecordBreaker
      /\ Clean(ix) /\ ix.doc # 0 /\ Paged(ix, ix.stack, ix.stack)
      /\ Elems(ix.open) = ix.stack
  BY <1>1, PagedNow, WorkingIsClean
<1> DEFINE stack == ix.stack
           front == Front(stack)
           e == Last(stack)
           q == [ix EXCEPT !.stack = Front(@)]
           n == Len(front)
           A == PagedSet(q, stack, stack)
           B == PagedSet(q, front, stack)
           C == PagedSet(q, front, front)
           item == <<"close", e>>
<1>3. /\ front \in Seq(Elem) /\ e \in Elem /\ item \in Item /\ n = Len(stack) - 1 /\ n \in Nat
      /\ stack[1] = Root /\ \A i \in 1 .. n : front[i] = stack[i]
  <2>1. stack[1] = Root
    BY <1>1 DEF Pagination
  <2> QED
    BY <1>1, <1>2, <2>1, FrontFacts, PlainFacts
<1>4. /\ q \in Live /\ q.dec = ix.dec /\ q.cur = ix.cur /\ q.output = ix.output
      /\ q.open = ix.open /\ q.closed = ix.closed /\ q.cache = ix.cache /\ q.doc = ix.doc
      /\ q.docDb = ix.docDb /\ q.breaker = ix.breaker /\ q.pages = ix.pages /\ q.stack = front
  BY <1>2, <1>3 DEF Live, Handler
<1> HIDE DEF q, front, e, n, item
<1>5. q \in A
  <2>1. Clean(q)
    BY <1>2, <1>4 DEF Clean, Current
  <2>2. q \in CleanSet(q)
    BY <1>2, <1>4, <2>1 DEF CleanSet, Kept
  <2>3. Shown(q) = Shown(ix)
    BY <1>4 DEF Shown, Current
  <2>4. Paged(q, stack, stack)
    BY <1>2, <1>4, <2>3 DEF Paged, FirstIsSpoilt
  <2> QED
    BY <2>2, <2>4 DEF PagedSet
<1>6. A \subseteq Live /\ TextClosed(A)
  <2>1. A \subseteq Live
    BY DEF PagedSet, CleanSet
  <2> QED
    BY <1>2, <2>1, PagedIsTextClosed
<1>7. Closed(B) /\ Closed(C)
  BY <1>3, <1>4, PagedIsClosed
<1>8. ASSUME NEW c \in A
      PROVE  Says(c, item) \in B
  BY <1>1, <1>2, PagedSaysClose DEF item, e, front
<1>9. \A r \in B : Len(r.stack) = n
  BY <1>4 DEF PagedSet, CleanSet, Kept, n
<1>10. ASSUME Breaks, NEW r \in B
       PROVE  [r EXCEPT !.breaker = BreakerCloses(@, e, n)] \in C
  BY <1>1, <1>2, <1>3, <1>10, PagedCloses DEF e, n, front
<1>11. ~ Breaks => B \subseteq C
  BY DEF PagedSet, Paged
<1> DEFINE t == AdornerEndNode(ix)
           r == NodeEnded(ix)
<1> HIDE DEF A, B, C
<1>12. t \in C
  <2>1. [ix EXCEPT !.stack = Front(@)] \in A
    BY <1>5 DEF q
  <2>2. \A c \in A : Current(c).buf = <<>> => Says(c, <<"close", Last(ix.stack)>>) \in B
    BY <1>8 DEF item, e
  <2>3. Breaks => \A x \in B : [x EXCEPT !.breaker = BreakerCloses(@, Last(ix.stack), n)] \in C
    BY <1>10 DEF e
  <2> QED
    BY <1>2, <1>6, <1>7, <1>9, <1>11, <2>1, <2>2, <2>3, EndNodeKeeps
<1>13. t \in Live /\ Kept(q, t) /\ Paged(t, front, front)
  BY <1>12 DEF C, PagedSet, CleanSet
<1>14. t.open # <<>>
  <2>1. Elems(t.open) = stack /\ t.open \in Seq(Node)
    BY <1>2, <1>4, <1>13 DEF Kept, Live, Handler
  <2> QED
    BY <1>1, <2>1, ElemsType
<1>15. /\ r \in Live /\ r.cur = t.cur /\ r.dec = t.dec /\ r.doc = t.doc /\ r.docDb = t.docDb
       /\ r.breaker = t.breaker /\ r.pages = t.pages /\ r.output = t.output /\ r.stack = t.stack
  BY <1>13, <1>14, NodeEndedFacts
<1> HIDE DEF r, t
<1>16. Shown(r) = Shown(t)
  BY <1>15 DEF Shown, Current
<1>17. Paged(r, front, front)
  BY <1>3, <1>13, <1>15, <1>16, PagedSame
<1>18. r.stack = front /\ r.doc = ix.doc
  BY <1>4, <1>13, <1>15 DEF Kept
<1>19. front # <<>> => front[1] = Root
  <2>1. front # <<>> => 1 \in 1 .. n
    BY <1>3 DEF n
  <2> QED
    BY <1>3, <2>1
<1>20. ix' = r
  BY <1>1 DEF r
<1> QED
  BY <1>1, <1>15, <1>17, <1>18, <1>19, <1>20, PaginationStep

\* A page ends with one plain item that is put out at once.
LEMMA ShownPut ==
    ASSUME NEW r \in Live, NEW q \in Live, NEW x \in Item,
           q.breaker = r.breaker, q.output = Append(r.output, x),
           Current(q).out = <<>>, Current(r).out = <<>>
    PROVE  Shown(q) = Append(Shown(r), x)
<1> DEFINE h == r.breaker.header
           o == r.output
<1>1. h \in Seq(Item) /\ o \in Seq(Item) /\ h \o o \in Seq(Item) /\ <<x>> \in Seq(Item)
      /\ Append(o, x) \in Seq(Item)
  BY ShownType, TextsJoin
<1>2. Append(o, x) = o \o <<x>>
  BY <1>1, AppendIsConcat
<1>3. Append(h \o o, x) = (h \o o) \o <<x>>
  BY <1>1, AppendIsConcat
<1>4. Shown(q) = (h \o Append(o, x)) \o <<>> /\ Shown(r) = (h \o o) \o <<>>
  BY DEF Shown
<1> HIDE DEF h, o
<1>5. h \o Append(o, x) \in Seq(Item)
  BY <1>1, TextsJoin
<1>6. Shown(q) = h \o Append(o, x) /\ Shown(r) = h \o o
  BY <1>1, <1>4, <1>5, TextsJoin
<1> QED
  BY <1>1, <1>2, <1>3, <1>6, TextsJoin

\* What is put out by itself.
LEMMA PagedPuts ==
    ASSUME NEW s, NEW open \in Seq(Elem), NEW path, NEW q \in PagedSet(s, open, path), Settled(q),
           NEW x \in Plain, x \in Item
    PROVE  Output(q, <<x>>) \in PagedSet(s, open, path)
<1> DEFINE o == Output(q, <<x>>)
<1>1. q \in CleanSet(s) /\ q \in Live /\ Paged(q, open, path)
  BY DEF PagedSet, CleanSet
<1>2. /\ o \in CleanSet(s) /\ o.pages = q.pages /\ o.breaker = q.breaker /\ o.dec = q.dec
      /\ Current(o) = Current(q)
      /\ o.output = IF Storage THEN Append(q.output, x) ELSE q.output
  BY <1>1, CleanOutput
<1> HIDE DEF o
<1>3. o \in Live /\ o.doc = q.doc /\ o.docDb = q.docDb
  BY <1>1, <1>2 DEF CleanSet, Kept
<1>4. Storage => Shown(o) = Append(Shown(q), x)
  <2>1. Current(q).out = <<>>
    BY DEF Settled, Blank
  <2> QED
    BY <1>1, <1>2, <1>3, <2>1, ShownPut
<1>5. Paged(o, open, path)
  BY <1>1, <1>2, <1>3, <1>4, PagedSame
<1> QED
  BY <1>2, <1>5 DEF PagedSet, o

\* The last page of a document that ends is one as well: with a record breaker in
\* any case, without one if all its elements were closed.
LEMMA PagedFlushed ==
    ASSUME NEW s \in Live, s.doc # 0, Clean(s), s.docDb \in {Storage, ~ Breaks},
           s.docDb => Storage, NEW path, Paged(s, s.stack, path)
    PROVE  LET r == Flushed(s)
           IN  /\ \A d \in 1 .. MaxDoc : d > s.doc => DOMAIN r.pages[d] = {}
               /\ \A d \in 1 .. MaxDoc : \A p \in DOMAIN r.pages[d] :
                     ~ SpoiltByHeader(d, p) /\ (Breaks \/ s.stack = <<>> \/ d # s.doc) =>
                       GoodText(r.pages[d][p], <<>>)
               /\ Breaks => \A k \in DOMAIN r.breaker.kept : KeptText(r.breaker.kept[k])
               /\ ~ Breaks => r.breaker.header = <<>>
<1> DEFINE A == PagedSet(s, s.stack, path)
           ended == AdornerEndDocument(s)
           r == Flushed(s)
           x == <<"text", "\n">>
<1>1. s \in A
  BY DEF PagedSet, CleanSet, Kept
<1>2. Closed(A) /\ s.stack \in Seq(Elem)
  BY PagedIsClosed DEF Live, Handler
<1>3. x \in Plain /\ x \in Item
  BY PlainFacts DEF Plain, Text, Spaces
<1> HIDE DEF x
<1>4. ASSUME NEW q \in A, Settled(q)
      PROVE  Output(q, <<x>>) \in A
  BY <1>2, <1>3, <1>4, PagedPuts
<1>5. ASSUME NEW q \in A
      PROVE  /\ q.doc # 0 /\ q.docDb \in {Storage, ~ Breaks} /\ q.docDb = s.docDb
             /\ ~ Storage => q.output = <<>>
             /\ q \in Live /\ q.doc = s.doc /\ q.stack = s.stack /\ Paged(q, s.stack, path)
  BY DEF PagedSet, CleanSet, Kept, Clean
<1> HIDE DEF A
<1>6. PICK c \in A :
        /\ Settled(c) /\ ended \in Live
        /\ ended.pages = IF c.docDb
                         THEN [c.pages EXCEPT ![c.doc] = WithPage(@, Current(c).at.pge, EndText(c))]
                         ELSE c.pages
        /\ ended.breaker = IF Breaks THEN [c.breaker EXCEPT !.header = NextHeader(c.breaker, c.stack)]
                           ELSE c.breaker
  <2>1. \A q \in A : Settled(q) => Output(q, <<<<"text", "\n">>>>) \in A
    BY <1>4 DEF x
  <2>2. \A q \in A : /\ q.doc # 0 /\ q.docDb \in {Storage, ~ Breaks}
                     /\ ~ Storage => q.output = <<>>
                     /\ Settled(q) => Output(q, <<<<"text", "\n">>>>) \in A
    BY <1>5, <2>1
  <2> QED
    BY <1>1, <1>2, <2>2, EndedFacts
<1>7. r.pages = ended.pages /\ r.breaker = ended.breaker
  <2>1. r = [ended EXCEPT !.words = @ \cup ended.cache, !.cache = {}]
    BY DEF Flushed
  <2> HIDE DEF r, ended
  <2> QED
    BY <1>6, <2>1 DEF Live, Handler
<1> HIDE DEF r, ended
<1>8. /\ c \in Live /\ c.doc # 0 /\ c.doc = s.doc /\ c.stack = s.stack /\ c.docDb = s.docDb
      /\ Paged(c, s.stack, path)
  BY <1>5
<1> DEFINE p == Current(c).at.pge
           text == EndText(c)
<1>9. /\ c.doc \in 1 .. MaxDoc /\ c.pages \in [1 .. MaxDoc -> Numbered]
      /\ c.breaker \in RecordBreaker /\ p = c.dec["main"].at.pge
  <2>1. c.doc \in 0 .. MaxDoc /\ MaxDoc \in Nat
    BY <1>8, BoundAssumption DEF Live, Handler
  <2>2. c.cur \in {"main", "note"}
    BY <1>8, CurrentType
  <2> QED
    BY <1>8, <2>1, <2>2 DEF Live, Handler, Paged, Current
<1>10. c.docDb /\ ~ SpoiltByHeader(c.doc, p) /\ (Breaks \/ s.stack = <<>>) => GoodText(text, <<>>)
  <2> SUFFICES ASSUME c.docDb, ~ SpoiltByHeader(c.doc, p), Breaks \/ s.stack = <<>>
               PROVE  GoodText(text, <<>>)
    OBVIOUS
  <2>1. ~ FirstIsSpoilt(c)
    BY <1>9 DEF FirstIsSpoilt
  <2>2. CASE Breaks
    BY <1>6, <1>8, <2>1, <2>2, RecordIsGood DEF EndText
  <2>3. CASE ~ Breaks
    <3>1. GoodText(Shown(c), <<>>)
      BY <1>8, <2>1, <2>3 DEF Paged
    <3>2. c.breaker.header = <<>> /\ Current(c).out = <<>> /\ c.output \in Seq(Item)
      BY <1>6, <1>8, <2>3, ShownType DEF Paged, Settled, Blank
    <3>3. Shown(c) = c.output
      BY <3>2, TextsJoin DEF Shown
    <3> QED
      BY <2>3, <3>1, <3>3 DEF EndText
  <2> QED
    BY <2>2, <2>3
<1> HIDE DEF text, p
<1>11. ASSUME NEW d \in 1 .. MaxDoc
       PROVE  /\ d # c.doc => r.pages[d] = c.pages[d]
              /\ ~ c.docDb => r.pages[d] = c.pages[d]
              /\ c.docDb /\ d = c.doc => r.pages[d] = WithPage(c.pages[d], p, text)
  BY <1>6, <1>7, <1>9 DEF p, text
<1>12. \A d \in 1 .. MaxDoc : d > s.doc => DOMAIN r.pages[d] = {}
  <2>1. s.doc \in Nat
    BY DEF Live, Handler
  <2> QED
    BY <1>8, <1>11, <2>1 DEF Paged
<1>13. ASSUME NEW d \in 1 .. MaxDoc, NEW k \in DOMAIN r.pages[d],
              ~ SpoiltByHeader(d, k), Breaks \/ s.stack = <<>> \/ d # s.doc
       PROVE  GoodText(r.pages[d][k], <<>>)
  <2>1. CASE r.pages[d] = c.pages[d]
    BY <1>8, <1>13, <2>1 DEF Paged
  <2>2. CASE c.docDb /\ d = c.doc /\ r.pages[d] = WithPage(c.pages[d], p, text)
    <3>1. CASE k = p
      <4>1. r.pages[d][k] = text
        BY <2>2, <3>1 DEF WithPage
      <4> QED
        BY <1>8, <1>10, <1>13, <2>2, <3>1, <4>1
    <3>2. CASE k # p
      <4>1. k \in DOMAIN c.pages[d] /\ r.pages[d][k] = c.pages[d][k]
        BY <1>13, <2>2, <3>2 DEF WithPage
      <4> QED
        BY <1>8, <1>13, <4>1 DEF Paged
    <3> QED
      BY <3>1, <3>2
  <2> QED
    BY <1>11, <2>1, <2>2
<1>14. Breaks => \A k \in DOMAIN r.breaker.kept : KeptText(r.breaker.kept[k])
  <2>1. r.breaker.kept = c.breaker.kept
    BY <1>6, <1>7, <1>9 DEF RecordBreaker
  <2> QED
    BY <1>8, <2>1 DEF Paged
<1>15. ~ Breaks => r.breaker.header = <<>>
  BY <1>6, <1>7, <1>8 DEF Paged
<1> QED
  BY <1>12, <1>13, <1>14, <1>15 DEF r

LEMMA PaginationEnd ==
    ASSUME Steady, Pagination, EndDocument
    PROVE  Pagination'
<1> DEFINE r == Flushed(ix)
<1>1. /\ Parsing /\ ix' = r /\ UNCHANGED <<usage, begun>>
      /\ done' = IF rooted /\ ix.stack = <<>> THEN done \cup {ix.doc} ELSE done
  BY DEF EndDocument
<1>2. /\ ix \in Live /\ ix.doc # 0 /\ ix.doc = begun /\ ix.docDb = Storage /\ Clean(ix)
      /\ Paged(ix, ix.stack, ix.stack) /\ begun \in 0 .. MaxDoc
  BY <1>1, WorkingIsClean, PagedNow DEF Steady
<1>3. /\ r \in Live /\ r.doc = 0 /\ r.stack = <<>>
  BY <1>2, CleanFlushed DEF Resting
<1>4. /\ \A d \in 1 .. MaxDoc : d > ix.doc => DOMAIN r.pages[d] = {}
      /\ \A d \in 1 .. MaxDoc : \A p \in DOMAIN r.pages[d] :
            ~ SpoiltByHeader(d, p) /\ (Breaks \/ ix.stack = <<>> \/ d # ix.doc) =>
              GoodText(r.pages[d][p], <<>>)
      /\ Breaks => \A k \in DOMAIN r.breaker.kept : KeptText(r.breaker.kept[k])
      /\ ~ Breaks => r.breaker.header = <<>>
  BY <1>2, PagedFlushed
<1> HIDE DEF r
<1>5. ix.doc \notin done
  BY <1>2 DEF Pagination
<1>6. ASSUME NEW d \in 1 .. MaxDoc, NEW p \in DOMAIN r.pages[d],
             ~ SpoiltByHeader(d, p), Breaks \/ d \in done' \cup {r.doc}
      PROVE  GoodText(r.pages[d][p], <<>>)
  <2>1. Breaks \/ ix.stack = <<>> \/ d # ix.doc
    BY <1>1, <1>3, <1>5, <1>6
  <2> QED
    BY <1>4, <1>6, <2>1
<1>7. /\ Breaks' = Breaks /\ Keeps' = Keeps
      /\ \A d, p : SpoiltByHeader(d, p)' = SpoiltByHeader(d, p)
  BY <1>1 DEF Breaks, Keeps, SpoiltByHeader
<1>8. (~ Keeps => begun <= 1) /\ begun # 0
  BY <1>2 DEF Pagination
<1> QED
  BY <1>1, <1>2, <1>3, <1>4, <1>6, <1>7, <1>8 DEF Pagination

LEMMA PaginationStart ==
    ASSUME Steady, Pagination, NEW d \in 1 .. MaxDoc, StartDocument(d)
    PROVE  Pagination'
<1> DEFINE r == [AdornerStartDocument(ix, d) EXCEPT !.cache = {}, !.open = <<>>, !.closed = <<>>]
<1>1. /\ ix.doc = 0 /\ d = begun + 1 /\ begun' = d /\ UNCHANGED <<usage, done>>
      /\ ~ Keeps => d <= 1
      /\ ix' = r
  BY DEF StartDocument, IsNext
<1>2. ix \in Handler /\ Resting(ix) /\ begun \in Nat /\ done \subseteq 1 .. begun
  BY <1>1 DEF Steady
<1>3. /\ r \in Live /\ r.cur = "main" /\ r.doc = d /\ r.docDb = Storage
      /\ r.dec["main"] = Cleared /\ r.dec["note"] = NoteStart
      /\ r.stack = <<>> /\ r.output = IF Storage THEN <<Declaration>> ELSE <<>>
      /\ r.breaker = IF Breaks THEN BreakerStartDocument(ix.breaker) ELSE ix.breaker
      /\ r.pages = ix.pages
  BY <1>2, StartedFacts
<1> HIDE DEF r
<1>4. /\ \A k \in 1 .. MaxDoc : k > begun => DOMAIN r.pages[k] = {}
      /\ \A k \in 1 .. MaxDoc : \A p \in DOMAIN r.pages[k] :
            ~ SpoiltByHeader(k, p) /\ Breaks => GoodText(r.pages[k][p], <<>>)
      /\ begun = 0 \/ ~ Breaks => ix.breaker.header = <<>>
      /\ Breaks => \A k \in DOMAIN ix.breaker.kept : KeptText(ix.breaker.kept[k])
  BY <1>3 DEF Pagination
<1>5. /\ r.breaker.header = ix.breaker.header /\ r.breaker.kept = ix.breaker.kept
      /\ Breaks => NotesContent(r.breaker, <<>>)
  <2>1. ix.breaker \in RecordBreaker
    BY <1>2 DEF Handler
  <2>2. CASE Breaks
    <3>1. r.breaker = [ix.breaker EXCEPT !.pge = 0, !.level = 0, !.extra = <<>>]
      BY <1>3, <2>2 DEF BreakerStartDocument
    <3>2. /\ r.breaker.header = ix.breaker.header /\ r.breaker.kept = ix.breaker.kept
          /\ r.breaker.level = 0 /\ r.breaker.extra = <<>>
      BY <2>1, <3>1 DEF RecordBreaker
    <3> QED
      BY <3>2 DEF NotesContent
  <2>3. CASE ~ Breaks
    BY <1>3, <2>3
  <2> QED
    BY <2>2, <2>3
<1>6. r.dec["main"].at.pge = 0 /\ r.dec["note"].at.pge = 0 /\ Current(r).out = <<>>
  BY <1>3, StartTypes DEF Nowhere, Current, Blank
<1>7. ~ Keeps \/ d = 1 => begun = 0
  BY <1>1, <1>2
<1>8. ~ Breaks => ~ Keeps
  BY DEF Keeps, Breaks
<1>9. r.docDb /\ Storage /\ ~ FirstIsSpoilt(r) => GoodText(Shown(r), <<>>)
  <2> SUFFICES ASSUME Storage, ~ FirstIsSpoilt(r) PROVE GoodText(Shown(r), <<>>)
    OBVIOUS
  <2>1. begun = 0
    BY <1>1, <1>2, <1>3, <1>6, <1>7 DEF FirstIsSpoilt, SpoiltByHeader
  <2>2. r.breaker.header = <<>> /\ r.output = <<Declaration>>
    BY <1>3, <1>4, <1>5, <2>1
  <2>3. <<Declaration>> \in Seq(Item)
    BY PlainFacts
  <2>4. Shown(r) = <<Declaration>>
    BY <1>6, <2>2, <2>3, TextsJoin DEF Shown
  <2> QED
    BY <2>4, GoodDeclaration
<1>10. ASSUME NEW k \in 1 .. MaxDoc, NEW p \in DOMAIN r.pages[k], ~ SpoiltByHeader(k, p)
       PROVE  GoodText(r.pages[k][p], <<>>)
  <2>1. CASE Breaks
    BY <1>4, <1>10, <2>1
  <2>2. CASE ~ Breaks
    <3>1. k > begun
      BY <1>7, <1>8, <2>2
    <3> QED
      BY <1>4, <1>10, <3>1
  <2> QED
    BY <2>1, <2>2
<1>11. /\ DOMAIN r.pages[d] = {} /\ 0 .. 0 - 1 = {}
       /\ \A k \in 1 .. MaxDoc : k > d => DOMAIN r.pages[k] = {}
  BY <1>1, <1>2, <1>4
<1>12. Paged(r, <<>>, <<>>)
  BY <1>3, <1>4, <1>5, <1>6, <1>9, <1>10, <1>11 DEF Paged
<1>13. Paged(ix, ix.stack, ix.stack)'
  BY <1>1, <1>3, <1>12 DEF Paged, Storage, Breaks, FirstIsSpoilt, SpoiltByHeader, Keeps
<1>14. /\ Breaks' = Breaks /\ Keeps' = Keeps
       /\ \A k, p : SpoiltByHeader(k, p)' = SpoiltByHeader(k, p)
  BY <1>1 DEF Breaks, Keeps, SpoiltByHeader
<1>15. d \notin done /\ d # 0 /\ d \in Nat
  BY <1>1, <1>2
<1> QED
  BY <1>1, <1>3, <1>4, <1>5, <1>10, <1>11, <1>13, <1>14, <1>15 DEF Pagination

\* What a document begins with, before its database is open.
LEMMA ResetIsPaged ==
    ASSUME Steady, Pagination, ix.doc = 0, Keeps, NEW d \in 1 .. MaxDoc, d = begun + 1,
           NEW q \in Live, q.doc = d, q.docDb = FALSE, q.dec["main"] = Cleared,
           q.dec["note"] = NoteStart, q.stack = <<>>, q.output = <<>>, q.pages = ix.pages,
           q.breaker = BreakerStartDocument(ix.breaker)
    PROVE  Paged(q, q.stack, <<>>)
<1>1. ix \in Handler /\ begun \in Nat /\ Breaks
  BY DEF Steady, Keeps, Breaks
<1>2. /\ NotesContent(q.breaker, <<>>) /\ q.breaker.kept = ix.breaker.kept
  <2>1. ix.breaker \in RecordBreaker
    BY <1>1 DEF Handler
  <2>2. q.breaker = [ix.breaker EXCEPT !.pge = 0, !.level = 0, !.extra = <<>>]
    BY DEF BreakerStartDocument
  <2>3. q.breaker.kept = ix.breaker.kept /\ q.breaker.level = 0 /\ q.breaker.extra = <<>>
    BY <2>1, <2>2 DEF RecordBreaker
  <2> QED
    BY <2>3 DEF NotesContent
<1>3. q.dec["main"].at.pge = 0 /\ q.dec["note"].at.pge = 0
  BY StartTypes DEF Nowhere
<1>4. \A k \in 1 .. MaxDoc : k > d => DOMAIN q.pages[k] = {}
  BY <1>1 DEF Pagination
<1> QED
  BY <1>1, <1>2, <1>3, <1>4 DEF Paged, Pagination

LEMMA PaginationFails ==
    ASSUME Steady, Pagination, NEW d \in 1 .. MaxDoc, StartDocumentFails(d)
    PROVE  Pagination'
<1> DEFINE q == AdornerReset(ix, d)
           r == Flushed(q)
<1>1. /\ ix.doc = 0 /\ d = begun + 1 /\ begun' = d /\ UNCHANGED <<usage, done>>
      /\ Keeps /\ ix' = r
  BY DEF StartDocumentFails, IsNext
<1>2. ix \in Handler /\ Resting(ix) /\ begun \in Nat /\ Storage /\ Breaks
  BY <1>1 DEF Steady, Keeps, Storage, Breaks
<1>3. /\ q \in Live /\ q.cur = "main" /\ q.doc = d /\ q.docDb = ix.docDb
      /\ q.dec["main"] = Cleared /\ q.dec["note"] = NoteStart
      /\ q.stack = ix.stack /\ q.output = <<>> /\ q.pages = ix.pages
      /\ q.breaker = BreakerStartDocument(ix.breaker)
      /\ q.open = ix.open /\ q.closed = ix.closed /\ q.cache = ix.cache
  BY <1>2, ResetFacts
<1> HIDE DEF q
<1>4. Clean(q) /\ q.doc # 0 /\ q.docDb = FALSE /\ q.stack = <<>>
  <2>1. Blank(NoteStart)
    BY StartTypes
  <2>2. \A i \in DOMAIN q.open : Dated(q.open[i])
    BY <1>2, <1>3 DEF Resting
  <2>3. q.closed = <<>> /\ q.cache = {} /\ q.docDb = FALSE /\ q.stack = <<>>
    BY <1>2, <1>3 DEF Resting
  <2> QED
    BY <1>2, <1>3, <2>1, <2>2, <2>3 DEF Clean
<1>5. q.docDb \in {Storage, ~ Breaks}
  <2>1. (~ Breaks) = FALSE
    BY <1>2
  <2> QED
    BY <1>4, <2>1
<1>6. Paged(q, q.stack, <<>>)
  BY <1>1, <1>2, <1>3, <1>4, ResetIsPaged
<1>7. /\ \A k \in 1 .. MaxDoc : k > d => DOMAIN r.pages[k] = {}
      /\ \A k \in 1 .. MaxDoc : \A p \in DOMAIN r.pages[k] :
            ~ SpoiltByHeader(k, p) => GoodText(r.pages[k][p], <<>>)
      /\ \A k \in DOMAIN r.breaker.kept : KeptText(r.breaker.kept[k])
  BY <1>2, <1>3, <1>4, <1>5, <1>6, PagedFlushed
<1>8. r.doc = 0 /\ r.stack = <<>>
  BY <1>3, <1>4, <1>5, CleanFlushed DEF Resting
<1> HIDE DEF r
<1>9. /\ Breaks' = Breaks /\ Keeps' = Keeps
       /\ \A k, p : SpoiltByHeader(k, p)' = SpoiltByHeader(k, p)
  BY <1>1 DEF Breaks, Keeps, SpoiltByHeader
<1> QED
  BY <1>1, <1>2, <1>7, <1>8, <1>9 DEF Pagination

LEMMA PaginationInit == Init => Pagination
<1> SUFFICES ASSUME Init PROVE Pagination
  OBVIOUS
<1>1. ix = NewHandler([d \in 1 .. MaxDoc |-> [x \in {} |-> <<>>]], {}) /\ begun = 0
  BY DEF Init
<1>2. /\ ix.doc = 0 /\ ix.stack = <<>> /\ ix.breaker = NewBreaker
      /\ ix.pages = [d \in 1 .. MaxDoc |-> [x \in {} |-> <<>>]]
  BY <1>1 DEF NewHandler
<1>3. \A d \in 1 .. MaxDoc : DOMAIN ix.pages[d] = {}
  BY <1>2
<1>4. ix.breaker.header = <<>> /\ DOMAIN ix.breaker.kept = {}
  BY <1>2 DEF NewBreaker
<1>5. /\ \A d \in 1 .. MaxDoc : d > begun => DOMAIN ix.pages[d] = {}
      /\ \A d \in 1 .. MaxDoc : \A p \in DOMAIN ix.pages[d] : FALSE
      /\ \A k \in DOMAIN ix.breaker.kept : FALSE
  BY <1>3, <1>4
<1>6. ix.doc = 0 /\ ix.stack = <<>> /\ begun <= 1
  BY <1>1, <1>2
<1> QED
  BY <1>4, <1>5, <1>6 DEF Pagination

\* Every step keeps them.
LEMMA PaginationNext ==
    ASSUME Steady, Pagination, RootIsNotRepeated, [Next]_vars
    PROVE  Pagination'
<1>1. CASE \E d \in 1 .. MaxDoc : StartDocument(d) \/ StartDocumentFails(d)
  BY <1>1, PaginationStart, PaginationFails
<1>2. CASE \E e \in Elem : StartNode(e)
  BY <1>2, PaginationStartNode
<1>3. CASE EndNode
  BY <1>3, PaginationEndNode
<1>4. CASE EndNodeLoops
  BY <1>4, PaginationLoops
<1>5. CASE \E c \in Chunk : Characters(c)
  BY <1>5, PaginationCharacters
<1>6. CASE EndDocument
  BY <1>6, PaginationEnd
<1>7. CASE UNCHANGED vars
  <2>1. UNCHANGED <<ix, usage, begun, done>>
    BY <1>7 DEF vars
  <2>2. /\ Breaks' = Breaks /\ Keeps' = Keeps
        /\ \A d, p : SpoiltByHeader(d, p)' = SpoiltByHeader(d, p)
    BY <2>1 DEF Breaks, Keeps, SpoiltByHeader
  <2>3. Paged(ix, ix.stack, ix.stack)' = Paged(ix, ix.stack, ix.stack)
    BY <2>1 DEF Paged, Storage, Breaks, FirstIsSpoilt, SpoiltByHeader, Keeps
  <2> QED
    BY <2>1, <2>2, <2>3 DEF Pagination
<1> QED
  BY <1>1, <1>2, <1>3, <1>4, <1>5, <1>6, <1>7 DEF Next

(***************************************************************************)
(* Pages are numbered without a gap, and every page is a document of its   *)
(* own, provided that the content of the root is not repeated: it would    *)
(* have its own tags on every page.                                        *)
(***************************************************************************)
THEOREM PagesHold ==
    ASSUME RootIsNotRepeated
    PROVE  Spec => []PagesAreDocuments
<1>1. Steady /\ Pagination => PagesAreDocuments
  <2> SUFFICES ASSUME Steady, Pagination PROVE PagesAreDocuments
    OBVIOUS
  <2>1. ix.dec["main"].at.pge = ix.dec["note"].at.pge
    BY DEF Steady, Resting, Pagination, Paged
  <2>2. ix.docDb => DOMAIN ix.pages[ix.doc] = 0 .. ix.dec["main"].at.pge - 1
    BY DEF Steady, Resting, Pagination, Paged
  <2>3. begun \in 0 .. MaxDoc /\ MaxDoc \in Nat
    BY BoundAssumption DEF Steady
  <2>4. \A d \in 1 .. begun : d \in 1 .. MaxDoc
    BY <2>3
  <2> QED
    BY <2>1, <2>2, <2>4 DEF Pagination, PagesAreDocuments, GoodText
<1>2. Steady /\ Pagination /\ [Next]_vars => (Steady /\ Pagination)'
  BY SteadyNext, PaginationNext
<1>3. Init => Steady /\ Pagination
  BY SteadyInit, PaginationInit
<1> QED
  BY <1>1, <1>2, <1>3, PTL DEF Spec

-----------------------------------------------------------------------------
(***************************************************************************)
(* The places of words.  What a document shows is told by a function from  *)
(* its pages to positions: those of the pages that were made, and those of *)
(* the page that is being made.                                            *)
(***************************************************************************)
\* The positions of the words that a text shows.
Positions(t) == {t[i][2] : i \in {j \in DOMAIN t : t[j][1] = "w"}}

View(s) ==
    [p \in Nat |->
        (IF p \in DOMAIN s.pages[s.doc] THEN Positions(s.pages[s.doc][p]) ELSE {})
        \cup IF p = s.dec["main"].at.pge
             THEN Positions(s.output) \cup Positions(Current(s).out) ELSE {}]

\* A place is on the first page that shows its position.
First(v, at) ==
    at.pos \in v[at.pge] /\ \A p \in 0 .. at.pge - 1 : at.pos \notin v[p]

\* The pending word of a decorator, whose positions start after base, has the
\* place of the last position given, if any was.
Aligned(d, base, v) ==
    \/ d.at.pos = base /\ d.wrdAt.pos = 0 /\ d.isBreak /\ d.wrd = <<>>
    \/ d.at.pos > base /\ d.wrdAt.pos = d.at.pos /\ First(v, d.wrdAt)

\* What a node has heard, and the cache, lead to first pages.
NodeLeads(n, v) ==
    /\ \A w \in n.words : First(v, w[2])
    /\ n.start.pos # 0 => First(v, n.start)

EntryLeads(w, v) == First(v, [pge |-> w.pge, pos |-> w.pos])

\* The text outside the notes has not come to the positions of the notes.
Few(s) == s.dec["main"].at.pos <= NotePos

\* A handler whose document shows every word at a position of its own, and whose
\* words are all known by their first pages.
Placed(s) ==
    /\ s.dec["note"].at.pge = s.dec["main"].at.pge
    /\ DOMAIN s.pages[s.doc] = 0 .. s.dec["main"].at.pge - 1
    /\ \A p \in Nat : \A n \in View(s)[p] :
          /\ p <= s.dec["main"].at.pge
          /\ n \in 1 .. s.dec["main"].at.pos \/ n \in NotePos + 1 .. s.dec["note"].at.pos
    /\ Aligned(s.dec["main"], 0, View(s)) /\ Aligned(s.dec["note"], NotePos, View(s))
    /\ \A i \in DOMAIN s.open : NodeLeads(s.open[i], View(s))
    /\ \A i \in DOMAIN s.closed : NodeLeads(s.closed[i], View(s))
    /\ \A w \in s.cache : EntryLeads(w, View(s))

\* The record breaker repeats no words.
Unsaid(b) ==
    /\ Positions(b.header) = {} /\ Positions(b.extra) = {}
    /\ \A k \in DOMAIN b.kept : Positions(b.kept[k]) = {}

\* A stored word leads to the first page of its document that shows its position.
Leads(pages, w) ==
    /\ w.pge \in DOMAIN pages[w.doc] /\ w.pos \in Positions(pages[w.doc][w.pge])
    /\ \A p \in DOMAIN pages[w.doc] : w.pos \in Positions(pages[w.doc][p]) => p >= w.pge

(***************************************************************************)
(* The inductive invariant of the entries.                                 *)
(***************************************************************************)
Placement ==
    Storage =>
      /\ \A d \in 1 .. MaxDoc : d > begun => DOMAIN ix.pages[d] = {}
      /\ Unsaid(ix.breaker)
      /\ \A w \in ix.words : w.doc # ix.doc /\ Leads(ix.pages, w)
      /\ ix.doc # 0 /\ Few(ix) => Placed(ix)

\* The positions that the text outside the notes may have come to, once its buffer
\* is cut into words.
Room(s) == s.dec["main"].at.pos + Len(s.dec["main"].buf)

\* The text of a document outside its notes never has more words than there are
\* positions before those of the notes, those counted that are buffered.
FewWords == Room(ix) <= NotePos

-----------------------------------------------------------------------------
(***************************************************************************)
(* The positions of texts.                                                 *)
(***************************************************************************)
\* Texts that are joined show what both show ...
LEMMA PositionsJoin ==
    ASSUME NEW t \in Seq(Item), NEW u \in Seq(Item)
    PROVE  Positions(t \o u) = Positions(t) \cup Positions(u)
<1>1. /\ DOMAIN t = 1 .. Len(t) /\ DOMAIN u = 1 .. Len(u) /\ Len(t) \in Nat /\ Len(u) \in Nat
      /\ t \o u \in Seq(Item) /\ DOMAIN (t \o u) = 1 .. Len(t) + Len(u)
      /\ \A i \in 1 .. Len(t) + Len(u) :
            (t \o u)[i] = IF i <= Len(t) THEN t[i] ELSE u[i - Len(t)]
  BY ConcatProperties, LenProperties
<1>2. ASSUME NEW n \in Positions(t \o u)
      PROVE  n \in Positions(t) \cup Positions(u)
  <2>1. PICK i \in 1 .. Len(t) + Len(u) : (t \o u)[i][1] = "w" /\ n = (t \o u)[i][2]
    BY <1>1, <1>2 DEF Positions
  <2>2. CASE i <= Len(t)
    BY <1>1, <2>1, <2>2 DEF Positions
  <2>3. CASE i > Len(t)
    <3>1. i - Len(t) \in DOMAIN u /\ (t \o u)[i] = u[i - Len(t)]
      BY <1>1, <2>1, <2>3
    <3> QED
      BY <2>1, <3>1 DEF Positions
  <2> QED
    BY <1>1, <2>1, <2>2, <2>3
<1>3. ASSUME NEW n \in Positions(t)
      PROVE  n \in Positions(t \o u)
  <2>1. PICK i \in 1 .. Len(t) : t[i][1] = "w" /\ n = t[i][2]
    BY <1>1, <1>3 DEF Positions
  <2>2. i \in DOMAIN (t \o u) /\ (t \o u)[i] = t[i]
    BY <1>1
  <2> QED
    BY <2>1, <2>2 DEF Positions
<1>4. ASSUME NEW n \in Positions(u)
      PROVE  n \in Positions(t \o u)
  <2>1. PICK i \in 1 .. Len(u) : u[i][1] = "w" /\ n = u[i][2]
    BY <1>1, <1>4 DEF Positions
  <2>2. /\ i + Len(t) \in DOMAIN (t \o u) /\ ~ (i + Len(t) <= Len(t)) /\ (i + Len(t)) - Len(t) = i
    BY <1>1
  <2>3. (t \o u)[i + Len(t)] = u[i]
    BY <1>1, <2>2
  <2> QED
    BY <2>1, <2>2, <2>3 DEF Positions
<1> QED
  BY <1>2, <1>3, <1>4

LEMMA NoPositions == Positions(<<>>) = {}
BY DEF Positions

\* ... a word at the end shows its position, and nothing else shows one.
LEMMA PositionsAppend ==
    ASSUME NEW t \in Seq(Item), NEW x \in Item
    PROVE  Positions(Append(t, x)) = Positions(t) \cup IF x[1] = "w" THEN {x[2]} ELSE {}
<1> DEFINE u == <<x>>
<1>1. u \in Seq(Item) /\ Append(t, x) = t \o u /\ DOMAIN u = {1} /\ u[1] = x
  BY AppendIsConcat
<1> HIDE DEF u
<1>2. Positions(u) = IF x[1] = "w" THEN {x[2]} ELSE {}
  BY <1>1 DEF Positions
<1> QED
  BY <1>1, <1>2, PositionsJoin

LEMMA OtherItems ==
    /\ \A t \in Text : <<"text", t>>[1] # "w"
    /\ \A e \in Elem : <<"open", e>>[1] # "w" /\ <<"close", e>>[1] # "w"
    /\ Declaration[1] # "w"
BY DEF Declaration

LEMMA UnsaidRaw ==
    ASSUME NEW c \in Seq(Text)
    PROVE  Raw(c) \in Seq(Item) /\ Positions(Raw(c)) = {}
<1>1. \A i \in DOMAIN c : <<"text", c[i]>> \in Item
  BY DEF Item
<1>2. Raw(c) \in Seq(Item) /\ DOMAIN Raw(c) = DOMAIN c /\ \A i \in DOMAIN c : Raw(c)[i][1] # "w"
  BY <1>1 DEF Raw
<1> QED
  BY <1>2 DEF Positions

LEMMA UnsaidFooter ==
    ASSUME NEW stack \in Seq(Elem)
    PROVE  Positions(Footer(stack)) = {}
<1>1. /\ Footer(stack) \in Seq(Item) /\ Len(Footer(stack)) = Len(stack)
      /\ \A i \in 1 .. Len(stack) : Footer(stack)[i] = <<"close", stack[Len(stack) + 1 - i]>>
  BY FooterType
<1>2. \A i \in DOMAIN Footer(stack) : Footer(stack)[i][1] = "close"
  BY <1>1
<1> QED
  BY <1>2 DEF Positions

LEMMA UnsaidHeader ==
    ASSUME NEW b \in RecordBreaker, NEW stack \in Seq(Elem), Unsaid(b)
    PROVE  NextHeader(b, stack) \in Seq(Item) /\ Positions(NextHeader(b, stack)) = {}
<1> DEFINE n == Len(stack)
           S == {t \in Seq(Item) : Positions(t) = {}}
           Q == [k \in 0 .. n |-> S]
<1>1. n \in Nat /\ 0 \in 0 .. n /\ n \in 0 .. n
  OBVIOUS
<1>2. <<Declaration>> \in S
  <2>1. Declaration \in Item /\ <<>> \in Seq(Item) /\ <<Declaration>> = Append(<<>>, Declaration)
        /\ <<Declaration>> \in Seq(Item)
    BY PlainFacts
  <2> QED
    BY <2>1, NoPositions, PositionsAppend, OtherItems
<1>3. ASSUME NEW k \in 0 .. n - 1, NEW v \in S
      PROVE  LET opened == Append(v, <<"open", stack[k + 1]>>)
             IN  (IF k + 1 \in DOMAIN b.kept THEN opened \o b.kept[k + 1] ELSE opened) \in S
  <2> DEFINE x == <<"open", stack[k + 1]>>
             opened == Append(v, x)
  <2>1. stack[k + 1] \in Elem
    BY <1>1
  <2>2. x \in Item /\ x[1] # "w"
    BY <2>1, PlainFacts
  <2> HIDE DEF x
  <2>3. opened \in Seq(Item) /\ Positions(opened) = {}
    BY <2>2, PositionsAppend
  <2> HIDE DEF opened
  <2>4. CASE k + 1 \in DOMAIN b.kept
    <3>1. b.kept[k + 1] \in Seq(Item) /\ Positions(b.kept[k + 1]) = {}
      BY <2>4 DEF RecordBreaker, Numbered, Unsaid
    <3>2. opened \o b.kept[k + 1] \in Seq(Item)
      BY <2>3, <3>1, TextsJoin
    <3>3. Positions(opened \o b.kept[k + 1]) = {}
      BY <2>3, <3>1, PositionsJoin
    <3> QED
      BY <2>4, <3>2, <3>3 DEF opened, x
  <2> QED
    BY <2>3, <2>4 DEF opened, x
<1> HIDE DEF S
<1>4. <<Declaration>> \in Q[0]
  BY <1>1, <1>2
<1>5. \A k \in 0 .. n - 1 : \A v \in Seq(Item) : v \in Q[k] =>
               LET opened == Append(v, <<"open", stack[k + 1]>>)
               IN  (IF k + 1 \in DOMAIN b.kept THEN opened \o b.kept[k + 1] ELSE opened) \in Q[k + 1]
  <2>1. \A k \in 0 .. n - 1 : k \in 0 .. n /\ k + 1 \in 0 .. n
    BY <1>1
  <2> QED
    BY <1>3, <2>1
<1> HIDE DEF Q
<1>6. NextHeader(b, stack) \in Q[n]
  BY <1>4, <1>5, HeaderWalk DEF n
<1> QED
  BY <1>1, <1>6 DEF Q, S

-----------------------------------------------------------------------------
(***************************************************************************)
(* First pages.                                                            *)
(***************************************************************************)
\* What a handler shows changes only with its pages, its output and the output of
\* the current decorator.
LEMMA ViewSame ==
    ASSUME NEW r, NEW q, q.doc = r.doc, q.pages = r.pages,
           q.dec["main"].at.pge = r.dec["main"].at.pge,
           Positions(q.output) \cup Positions(Current(q).out)
             = Positions(r.output) \cup Positions(Current(r).out)
    PROVE  View(q) = View(r)
<1> DEFINE m == Positions(r.output) \cup Positions(Current(r).out)
           Made(p) == IF p \in DOMAIN r.pages[r.doc] THEN Positions(r.pages[r.doc][p]) ELSE {}
           P == r.dec["main"].at.pge
<1>1. View(r) = [p \in Nat |-> Made(p) \cup IF p = P THEN m ELSE {}]
  BY DEF View
<1>2. View(q) = [p \in Nat |-> Made(p) \cup
                   IF p = P THEN Positions(q.output) \cup Positions(Current(q).out) ELSE {}]
  BY DEF View
<1> HIDE DEF Made
<1> QED
  BY <1>1, <1>2

LEMMA ViewGrows ==
    ASSUME NEW r, NEW q, q.doc = r.doc, q.pages = r.pages,
           q.dec["main"].at.pge = r.dec["main"].at.pge,
           NEW n,
           Positions(q.output) \cup Positions(Current(q).out)
             = Positions(r.output) \cup Positions(Current(r).out) \cup {n}
    PROVE  \A p \in Nat : View(q)[p] = View(r)[p] \cup
               IF p = r.dec["main"].at.pge THEN {n} ELSE {}
<1> DEFINE m == Positions(r.output) \cup Positions(Current(r).out)
           Made(p) == IF p \in DOMAIN r.pages[r.doc] THEN Positions(r.pages[r.doc][p]) ELSE {}
           P == r.dec["main"].at.pge
<1>1. \A p \in Nat : View(r)[p] = Made(p) \cup IF p = P THEN m ELSE {}
  BY DEF View
<1>2. \A p \in Nat : View(q)[p] = Made(p) \cup
                   IF p = P THEN Positions(q.output) \cup Positions(Current(q).out) ELSE {}
  BY DEF View
<1> HIDE DEF Made
<1> QED
  BY <1>1, <1>2

\* The page that is being made is the last one: what it shows more spoils no place.
Grows(v, u, P, n) ==
    \A p \in Nat : u[p] = v[p] \cup IF p = P THEN {n} ELSE {}

LEMMA FirstGrows ==
    ASSUME NEW v, NEW u, NEW P \in Nat, NEW n, Grows(v, u, P, n),
           \A p \in Nat : \A m \in v[p] : p <= P,
           NEW at, at.pge \in Nat, First(v, at)
    PROVE  First(u, at)
<1>1. at.pge <= P /\ at.pos \in u[at.pge]
  BY DEF First, Grows
<1>2. \A p \in 0 .. at.pge - 1 : p \in Nat /\ p # P
  BY <1>1
<1> QED
  BY <1>1, <1>2 DEF First, Grows

\* A position that no page shows yet is first shown on the page that is being made.
LEMMA FirstShown ==
    ASSUME NEW v, NEW u, NEW P \in Nat, NEW n, Grows(v, u, P, n),
           \A p \in Nat : n \notin v[p],
           NEW at, at.pge = P, at.pos = n
    PROVE  First(u, at)
<1>1. \A p \in 0 .. P - 1 : p \in Nat /\ p # P
  OBVIOUS
<1> QED
  BY <1>1 DEF First, Grows

LEMMA NodeLeadsGrows ==
    ASSUME NEW v, NEW u, NEW P \in Nat, NEW n, Grows(v, u, P, n),
           \A p \in Nat : \A m \in v[p] : p <= P,
           NEW x \in Node, NodeLeads(x, v)
    PROVE  NodeLeads(x, u)
<1>1. \A w \in x.words : w[2].pge \in Nat
  BY DEF Node, Place
<1>2. x.start.pge \in Nat
  BY DEF Node, Place
<1>3. \A w \in x.words : First(u, w[2])
  BY <1>1, FirstGrows DEF NodeLeads
<1>4. x.start.pos # 0 => First(u, x.start)
  BY <1>2, FirstGrows DEF NodeLeads
<1> QED
  BY <1>3, <1>4 DEF NodeLeads

\* A node that hears a word that has a first page leads to it, too.
LEMMA HeardLeads ==
    ASSUME Storage, NEW s \in Live, NEW v, Current(s).wrd = <<>> \/ First(v, Current(s).wrdAt),
           NEW x \in Node, NodeLeads(x, v)
    PROVE  NodeLeads(Heard(s, x), v)
<1> DEFINE d == Current(s)
           y == Heard(s, x)
<1>1. CASE d.wrd = <<>>
  BY <1>1 DEF Heard
<1>2. CASE d.wrd # <<>>
  <2>1. y = Hears(x, d.wrd, d.wrdAt) /\ First(v, d.wrdAt)
    BY <1>2 DEF Heard
  <2> HIDE DEF d, y
  <2>2. CASE x.state = "new" \/ d.wrdAt.pos = 0
    <3>1. y = x
      BY <2>1, <2>2 DEF Hears
    <3> QED
      BY <3>1 DEF y
  <2>3. CASE ~ (x.state = "new" \/ d.wrdAt.pos = 0)
    <3>1. /\ y.words = IF Has(x, "word") THEN x.words \cup {<<d.wrd, d.wrdAt>>} ELSE x.words
          /\ y.start = IF Has(x, "field") /\ x.start = Nowhere THEN d.wrdAt ELSE x.start
      BY <2>1, <2>3 DEF Hears, Node
    <3>2. \A w \in y.words : First(v, w[2])
      BY <2>1, <3>1 DEF NodeLeads
    <3>3. y.start.pos # 0 => First(v, y.start)
      BY <2>1, <3>1 DEF NodeLeads
    <3> QED
      BY <3>2, <3>3 DEF NodeLeads, y
  <2> QED
    BY <2>2, <2>3
<1> QED
  BY <1>1, <1>2

LEMMA EntriesLead ==
    ASSUME NEW x \in Node, NEW v, NodeLeads(x, v), NEW doc, NEW e \in NodeEntries(doc, x)
    PROVE  EntryLeads(e, v)
<1> DEFINE field == Trimmed(x.text)
           Named(typ) == {i.ndx : i \in {j \in Items[x.elem] : j.typ = typ}}
<1> HIDE DEF field, Named
<1>1. \/ \E k \in Named("word"), w \in x.words : e = Indexed(k, w[1], doc, w[2])
      \/ x.start.pos # 0 /\ \E k \in Named("field") : e = Indexed(k, field, doc, x.start)
  BY DEF NodeEntries, field, Named
<1>2. ASSUME NEW k, NEW wrd, NEW at, First(v, at)
      PROVE  EntryLeads(Indexed(k, wrd, doc, at), v)
  BY <1>2 DEF Indexed, EntryLeads, First
<1> QED
  BY <1>1, <1>2 DEF NodeLeads

LEMMA NewEntriesLead ==
    ASSUME Storage, NEW s \in Live, NEW v, Current(s).wrd = <<>> \/ First(v, Current(s).wrdAt),
           \A i \in DOMAIN s.closed : NodeLeads(s.closed[i], v),
           NEW e \in NewEntries(s)
    PROVE  EntryLeads(e, v)
<1>1. PICK i \in DOMAIN s.closed : e \in NodeEntries(s.doc, Heard(s, s.closed[i]))
  BY DEF NewEntries
<1>2. s.closed[i] \in Node
  BY DEF Live, Handler
<1>3. Heard(s, s.closed[i]) \in Node /\ NodeLeads(Heard(s, s.closed[i]), v)
  BY <1>2, HeardType, HeardLeads
<1> QED
  BY <1>1, <1>3, EntriesLead

-----------------------------------------------------------------------------
(***************************************************************************)
(* Decorating keeps the places.                                            *)
(***************************************************************************)
LEMMA AlignedSame ==
    ASSUME NEW c, NEW d, NEW base, NEW v, Aligned(c, base, v),
           d.at.pos = c.at.pos, d.wrdAt = c.wrdAt,
           c.isBreak => d.isBreak, c.wrd = <<>> => d.wrd = <<>>
    PROVE  Aligned(d, base, v)
BY DEF Aligned

\* A handler that shows the same, at the same positions.
LEMMA PlacedSame ==
    ASSUME NEW r \in Live, NEW q \in Live, Placed(r), View(q) = View(r),
           q.doc = r.doc, q.pages = r.pages,
           \A k \in {"main", "note"} :
               /\ q.dec[k].at = r.dec[k].at /\ q.dec[k].wrdAt = r.dec[k].wrdAt
               /\ r.dec[k].isBreak => q.dec[k].isBreak
               /\ r.dec[k].wrd = <<>> => q.dec[k].wrd = <<>>,
           \A i \in DOMAIN q.open : NodeLeads(q.open[i], View(r)),
           \A i \in DOMAIN q.closed : NodeLeads(q.closed[i], View(r)),
           \A w \in q.cache : EntryLeads(w, View(r))
    PROVE  Placed(q)
<1> DEFINE v == View(r)
<1>1. /\ Aligned(q.dec["main"], 0, v) /\ Aligned(q.dec["note"], NotePos, v)
  <2>1. Aligned(r.dec["main"], 0, v) /\ Aligned(r.dec["note"], NotePos, v)
    BY DEF Placed
  <2> HIDE DEF v
  <2> QED
    BY <2>1, AlignedSame
<1> HIDE DEF v
<1>2. q.dec["main"].at = r.dec["main"].at /\ q.dec["note"].at = r.dec["note"].at
  OBVIOUS
<1> QED
  BY <1>1, <1>2 DEF Placed, v

PlacedSet(s) ==
    {r \in CleanSet(s) :
        /\ Unsaid(r.breaker)
        /\ \A d \in 1 .. MaxDoc : d # s.doc => r.pages[d] = s.pages[d]
        /\ ~ r.docDb => r.closed = <<>> /\ r.cache = {} /\ r.pages = s.pages
        /\ r.docDb /\ Few(r) => Placed(r)}

\* What is placed after text was handled.
LEMMA PlacedText ==
    ASSUME NEW s, NEW r \in PlacedSet(s), NEW q \in CleanSet(s), Alike(r, q),
           q.closed = <<>> \/ q.closed = r.closed,
           r.closed = <<>> /\ r.cache = {} => q.cache = {},
           Few(q) => Few(r), Few(q) /\ r.docDb /\ Placed(r) => Placed(q)
    PROVE  q \in PlacedSet(s)
<1>1. q.breaker = r.breaker /\ q.pages = r.pages /\ q.docDb = r.docDb
  BY DEF Alike
<1> QED
  BY <1>1 DEF PlacedSet

\* The pending word of the current decorator has a first page.
LEMMA PendingIsFirst ==
    ASSUME NEW s \in Live, Placed(s)
    PROVE  /\ Current(s).wrd = <<>> \/ First(View(s), Current(s).wrdAt)
           /\ \A k \in {"main", "note"} : s.dec[k].wrd = <<>> \/ First(View(s), s.dec[k].wrdAt)
<1>1. \A k \in {"main", "note"} : s.dec[k].wrd = <<>> \/ First(View(s), s.dec[k].wrdAt)
  BY DEF Placed, Aligned
<1> QED
  BY <1>1, CurrentType DEF Current

\* A space shows nothing.
LEMMA PlacedSpace ==
    ASSUME Storage, NEW s, NEW r \in PlacedSet(s), NEW t \in Spaces
    PROVE  DecorateToken(r, t) \in PlacedSet(s)
<1> DEFINE q == DecorateToken(r, t)
           d == Current(r)
<1>1. r \in CleanSet(s) /\ r \in Live /\ d \in Dec
  BY CurrentType DEF PlacedSet, CleanSet
<1>2. q \in CleanSet(s)
  BY <1>1, CleanIsClosed DEF Closed, TextClosed, Text
<1>3. /\ q \in Live /\ Current(q) = WithSpace(d, t) /\ Alike(r, q) /\ q.output = r.output
      /\ q.open = r.open /\ q.closed = r.closed /\ q.cache = r.cache
  BY <1>1, SpaceFacts
<1> HIDE DEF q, d
<1> DEFINE e == WithSpace(d, t)
           x == <<"text", t>>
<1>4. x \in Item /\ x[1] # "w"
  BY DEF Item, Text
<1> HIDE DEF x
<1>5. /\ e.at = d.at /\ e.wrdAt = d.wrdAt /\ e.wrd = d.wrd /\ e.isBreak = TRUE
      /\ e.out = Append(d.out, x)
  BY <1>1 DEF WithSpace, Dec, x
<1> HIDE DEF e
<1>6. \A k \in {"main", "note"} :
               /\ q.dec[k].at = r.dec[k].at /\ q.dec[k].wrdAt = r.dec[k].wrdAt
               /\ r.dec[k].isBreak => q.dec[k].isBreak
               /\ r.dec[k].wrd = <<>> => q.dec[k].wrd = <<>>
  BY <1>3, <1>5 DEF Current, Alike, d, e
<1>7. View(q) = View(r)
  <2>1. Positions(Current(q).out) = Positions(Current(r).out)
    <3>1. d.out \in Seq(Item)
      BY <1>1 DEF Dec
    <3>2. Positions(Append(d.out, x)) = Positions(d.out)
      BY <1>4, <3>1, PositionsAppend
    <3> QED
      BY <1>3, <1>5, <3>2 DEF d, e
  <2> QED
    BY <1>3, <1>6, <2>1, ViewSame DEF Alike
<1>8. Placed(r) => Placed(q)
  <2> SUFFICES ASSUME Placed(r) PROVE Placed(q)
    OBVIOUS
  <2>1. /\ \A i \in DOMAIN q.open : NodeLeads(q.open[i], View(r))
        /\ \A i \in DOMAIN q.closed : NodeLeads(q.closed[i], View(r))
        /\ \A w \in q.cache : EntryLeads(w, View(r))
    BY <1>3 DEF Placed
  <2> QED
    BY <1>1, <1>3, <1>6, <1>7, <2>1, PlacedSame DEF Alike
<1>9. Few(q) => Few(r)
  BY <1>6 DEF Few
<1> QED
  BY <1>2, <1>3, <1>8, <1>9, PlacedText DEF q

\* The buffer does not show either, and what a decorator says only moves.
LEMMA PlacedMoves ==
    ASSUME Storage, NEW s, NEW r \in PlacedSet(s)
    PROVE  Emptied(r) \in PlacedSet(s) /\ Moved(r) \in PlacedSet(s)
<1>1. r \in CleanSet(s) /\ r \in Live /\ Current(r) \in Dec
  BY CurrentType DEF PlacedSet, CleanSet
<1>2. ASSUME NEW q \in CleanSet(s), NEW d, Current(q) = d, Alike(r, q),
             d.at = Current(r).at, d.wrdAt = Current(r).wrdAt, d.wrd = Current(r).wrd,
             d.isBreak = Current(r).isBreak,
             Positions(q.output) \cup Positions(d.out)
               = Positions(r.output) \cup Positions(Current(r).out),
             q.open = r.open, q.closed = r.closed, q.cache = r.cache
      PROVE  q \in PlacedSet(s)
  <2>1. \A k \in {"main", "note"} :
               /\ q.dec[k].at = r.dec[k].at /\ q.dec[k].wrdAt = r.dec[k].wrdAt
               /\ r.dec[k].isBreak => q.dec[k].isBreak
               /\ r.dec[k].wrd = <<>> => q.dec[k].wrd = <<>>
    BY <1>2 DEF Current, Alike
  <2>2. View(q) = View(r)
    BY <1>2, <2>1, ViewSame DEF Alike
  <2>3. Placed(r) => Placed(q)
    <3> SUFFICES ASSUME Placed(r) PROVE Placed(q)
      OBVIOUS
    <3>1. /\ \A i \in DOMAIN q.open : NodeLeads(q.open[i], View(r))
          /\ \A i \in DOMAIN q.closed : NodeLeads(q.closed[i], View(r))
          /\ \A w \in q.cache : EntryLeads(w, View(r))
      BY <1>2 DEF Placed
    <3>2. q \in Live /\ q.doc = r.doc /\ q.pages = r.pages
      BY <1>2 DEF CleanSet, Alike
    <3> QED
      BY <1>1, <2>1, <2>2, <3>1, <3>2, PlacedSame
  <2>4. Few(q) => Few(r)
    BY <2>1 DEF Few
  <2> QED
    BY <1>2, <2>3, <2>4, PlacedText
<1>3. Emptied(r) \in PlacedSet(s)
  <2> DEFINE q == Emptied(r)
             d == [Current(r) EXCEPT !.buf = <<>>]
  <2>1. q \in CleanSet(s)
    BY <1>1, CleanIsClosed DEF Closed, TextClosed
  <2>2. /\ Current(q) = d /\ Alike(r, q) /\ q.output = r.output
        /\ q.open = r.open /\ q.closed = r.closed /\ q.cache = r.cache
    BY <1>1, EmptiedFacts
  <2>3. /\ d.at = Current(r).at /\ d.wrdAt = Current(r).wrdAt /\ d.wrd = Current(r).wrd
        /\ d.isBreak = Current(r).isBreak /\ d.out = Current(r).out
    BY <1>1 DEF Dec
  <2> HIDE DEF q, d
  <2>4. q \in PlacedSet(s)
    BY <1>2, <2>1, <2>2, <2>3
  <2> QED
    BY <2>4 DEF q
<1>4. Moved(r) \in PlacedSet(s)
  <2> DEFINE q == Moved(r)
             d == [Current(r) EXCEPT !.out = <<>>]
  <2>1. q \in CleanSet(s)
    BY <1>1, CleanIsClosed DEF Closed, TextClosed
  <2>2. /\ Current(q) = d /\ Alike(r, q) /\ q.output = r.output \o Current(r).out
        /\ q.open = r.open /\ q.closed = r.closed /\ q.cache = r.cache
    BY <1>1, MovedFacts
  <2>3. /\ d.at = Current(r).at /\ d.wrdAt = Current(r).wrdAt /\ d.wrd = Current(r).wrd
        /\ d.isBreak = Current(r).isBreak /\ d.out = <<>>
    BY <1>1 DEF Dec
  <2> HIDE DEF q, d
  <2>4. Positions(q.output) \cup Positions(d.out)
          = Positions(r.output) \cup Positions(Current(r).out)
    BY <1>1, <2>2, <2>3, ShownType, PositionsJoin, NoPositions
  <2>5. q \in PlacedSet(s)
    BY <1>2, <2>1, <2>2, <2>3, <2>4
  <2> QED
    BY <2>5 DEF q
<1> QED
  BY <1>3, <1>4

\* The pending word is indexed where it was first shown.
LEMMA PlacedIndexWord ==
    ASSUME Storage, NEW s, NEW r \in PlacedSet(s)
    PROVE  IndexWord(r) \in PlacedSet(s)
<1> DEFINE q == IndexWord(r)
           d == [Current(r) EXCEPT !.wrd = <<>>]
<1>1. r \in CleanSet(s) /\ r \in Live /\ Current(r) \in Dec
  BY CurrentType DEF PlacedSet, CleanSet
<1>2. q \in CleanSet(s) /\ q \in Live
  BY <1>1, CleanIsClosed DEF Closed, TextClosed, CleanSet
<1>3. /\ Current(q) = d /\ Alike(r, q) /\ q.output = r.output
      /\ q.open = [i \in DOMAIN r.open |-> Heard(r, r.open[i])] /\ q.closed = <<>>
      /\ q.cache = r.cache \cup NewEntries(r)
  BY <1>1, IndexWordFacts
<1>4. /\ d.at = Current(r).at /\ d.wrdAt = Current(r).wrdAt /\ d.wrd = <<>>
      /\ d.isBreak = Current(r).isBreak /\ d.out = Current(r).out
  BY <1>1 DEF Dec
<1> HIDE DEF q, d
<1>5. \A k \in {"main", "note"} :
               /\ q.dec[k].at = r.dec[k].at /\ q.dec[k].wrdAt = r.dec[k].wrdAt
               /\ r.dec[k].isBreak => q.dec[k].isBreak
               /\ r.dec[k].wrd = <<>> => q.dec[k].wrd = <<>>
  BY <1>3, <1>4 DEF Current, Alike
<1>6. View(q) = View(r)
  BY <1>3, <1>4, <1>5, ViewSame DEF Alike
<1>7. Placed(r) => Placed(q)
  <2> SUFFICES ASSUME Placed(r) PROVE Placed(q)
    OBVIOUS
  <2>1. Current(r).wrd = <<>> \/ First(View(r), Current(r).wrdAt)
    BY <1>1, PendingIsFirst
  <2>2. r.open \in Seq(Node) /\ \A i \in DOMAIN r.open : NodeLeads(r.open[i], View(r))
    BY <1>1 DEF Placed, Live, Handler
  <2>3. \A i \in DOMAIN q.open : NodeLeads(q.open[i], View(r))
    BY <1>1, <1>3, <2>1, <2>2, HeardLeads
  <2>4. \A w \in q.cache : EntryLeads(w, View(r))
    BY <1>1, <1>3, <2>1, NewEntriesLead DEF Placed
  <2>5. q.doc = r.doc /\ q.pages = r.pages /\ DOMAIN q.closed = {}
    BY <1>3 DEF Alike
  <2> QED
    BY <1>1, <1>2, <1>5, <1>6, <2>3, <2>4, <2>5, PlacedSame
<1>8. Few(q) => Few(r)
  BY <1>5 DEF Few
<1>9. r.closed = <<>> /\ r.cache = {} => q.cache = {}
  BY <1>3 DEF NewEntries
<1> QED
  BY <1>2, <1>3, <1>7, <1>8, <1>9, PlacedText DEF q

\* A piece of a word, on one decorator.
LEMMA WordAdded ==
    ASSUME Storage, NEW c \in Dec, NEW p \in Piece
    PROVE  LET d == Started(c)
               e == WithWord(d, p)
           IN  /\ d \in Dec /\ d.wrd = c.wrd /\ d.wrdAt = c.wrdAt
               /\ d.at.pge = c.at.pge /\ d.at.pos = IF c.isBreak THEN c.at.pos + 1 ELSE c.at.pos
               /\ e.at = d.at /\ e.wrdAt = IF d.at.pos > c.wrdAt.pos THEN d.at ELSE c.wrdAt
               /\ e.out = Append(c.out, <<"w", d.at.pos, p>>)
               /\ d.at \in Place /\ c.at \in Place /\ c.wrdAt \in Place
               /\ c.at.pos \in Nat /\ c.wrdAt.pos \in Nat /\ c.wrdAt.pge \in Nat /\ d.at.pos \in Nat
               /\ <<"w", d.at.pos, p>> \in Item
<1> DEFINE d == Started(c)
           at == [c.at EXCEPT !.pos = @ + 1]
           e == WithWord(d, p)
<1>1. c.at \in Place /\ c.wrdAt \in Place /\ at \in Place /\ at.pge = c.at.pge /\ at.pos = c.at.pos + 1
      /\ c.at.pos \in Nat /\ c.wrdAt.pos \in Nat /\ c.wrdAt.pge \in Nat
  BY DEF Dec, Place
<1>2. d = IF c.isBreak THEN [c EXCEPT !.isBreak = FALSE, !.at = at] ELSE c
  BY DEF Started, Dec
<1> HIDE DEF at, d
<1>3. /\ d \in Dec /\ d.wrd = c.wrd /\ d.wrdAt = c.wrdAt /\ d.out = c.out
      /\ d.at = IF c.isBreak THEN at ELSE c.at
  BY <1>1, <1>2 DEF Dec
<1>4. d.at \in Place /\ d.at.pos \in Nat
      /\ d.at.pge = c.at.pge /\ d.at.pos = IF c.isBreak THEN c.at.pos + 1 ELSE c.at.pos
  BY <1>1, <1>3
<1>5. /\ e.at = d.at /\ e.wrdAt = IF d.at.pos > d.wrdAt.pos THEN d.at ELSE d.wrdAt
      /\ e.out = Append(d.out, <<"w", d.at.pos, p>>)
  BY <1>3 DEF WithWord, Dec
<1>6. <<"w", d.at.pos, p>> \in Item
  BY <1>4 DEF Item, Word
<1> QED
  BY <1>1, <1>3, <1>4, <1>5, <1>6 DEF d

LEMMA AlignedGrows ==
    ASSUME NEW v, NEW u, NEW P \in Nat, NEW n, Grows(v, u, P, n),
           \A p \in Nat : \A m \in v[p] : p <= P,
           NEW d \in Dec, NEW base, Aligned(d, base, v)
    PROVE  Aligned(d, base, u)
<1>1. d.wrdAt.pge \in Nat
  BY DEF Dec, Place
<1>2. First(v, d.wrdAt) => First(u, d.wrdAt)
  BY <1>1, FirstGrows
<1> QED
  BY <1>2 DEF Aligned

NotesStart(k) == IF k = "main" THEN 0 ELSE NotePos

\* The current decorator after a piece of a word: it is at a place where the word
\* is first shown.
LEMMA AlignedWord ==
    ASSUME Storage, NEW c \in Dec, NEW p \in Piece, NEW base \in Nat, NEW v, NEW u, NEW P \in Nat,
           c.at.pge = P, Aligned(c, base, v),
           \A k \in Nat : \A m \in v[k] : k <= P,
           Grows(v, u, P, Started(c).at.pos),
           c.isBreak => \A k \in Nat : c.at.pos + 1 \notin v[k]
    PROVE  LET e == WithWord(Started(c), p)
           IN  /\ Aligned(e, base, u)
               /\ e.at.pos >= c.at.pos /\ e.at.pos > base /\ e.at.pos = Started(c).at.pos
<1> DEFINE d == Started(c)
           e == WithWord(d, p)
<1>1. /\ d.at.pge = P /\ d.at.pos = IF c.isBreak THEN c.at.pos + 1 ELSE c.at.pos
      /\ e.at = d.at /\ e.wrdAt = IF d.at.pos > c.wrdAt.pos THEN d.at ELSE c.wrdAt
      /\ c.at.pos \in Nat /\ c.wrdAt.pos \in Nat /\ c.wrdAt.pge \in Nat /\ d.at.pos \in Nat
      /\ Grows(v, u, P, d.at.pos)
  BY WordAdded
<1> HIDE DEF d, e
<1>2. CASE c.isBreak
  <2>1. d.at.pos = c.at.pos + 1 /\ d.at.pos > base /\ d.at.pos > c.wrdAt.pos
    BY <1>1, <1>2 DEF Aligned
  <2>2. First(u, d.at)
    <3>1. \A k \in Nat : d.at.pos \notin v[k]
      BY <1>2, <2>1
    <3> QED
      BY <1>1, <3>1, FirstShown
  <2> QED
    BY <1>1, <2>1, <2>2 DEF Aligned, d, e
<1>3. CASE ~ c.isBreak
  <2>1. /\ c.at.pos > base /\ c.wrdAt.pos = c.at.pos /\ First(v, c.wrdAt) /\ d.at.pos = c.at.pos
    BY <1>1, <1>3 DEF Aligned
  <2>2. e.wrdAt = c.wrdAt /\ e.at.pos = c.at.pos
    BY <1>1, <2>1
  <2>3. First(u, c.wrdAt)
    BY <1>1, <2>1, FirstGrows
  <2> QED
    BY <1>1, <2>1, <2>2, <2>3 DEF Aligned, d, e
<1> QED
  BY <1>2, <1>3

\* A position that is new is neither in the text nor in the notes so far.
LEMMA NewIsOutside ==
    /\ \A a, b, top \in Nat : a + 1 <= top =>
         a + 1 \notin 1 .. a /\ a + 1 \notin top + 1 .. b
    /\ \A a, b, top \in Nat : a >= top /\ b <= top =>
         a + 1 \notin 1 .. b /\ a + 1 \notin top + 1 .. a
OBVIOUS

\* A piece of a word is shown on the page that is being made, at its position or at
\* that of the word it continues.
LEMMA PlacedPiece ==
    ASSUME Storage, NEW s, NEW r \in PlacedSet(s), NEW p \in Piece
    PROVE  DecorateToken(r, p) \in PlacedSet(s)
<1> DEFINE q == DecorateToken(r, p)
           c == Current(r)
           d == Started(c)
           e == WithWord(d, p)
           v == View(r)
           u == View(q)
           P == r.dec["main"].at.pge
           n == d.at.pos
           x == <<"w", n, p>>
           cur == r.cur
           base == NotesStart(cur)
<1>1. r \in CleanSet(s) /\ r \in Live /\ c \in Dec /\ cur \in {"main", "note"} /\ c = r.dec[cur]
  BY CurrentType DEF PlacedSet, CleanSet, Current
<1>2. q \in CleanSet(s)
  BY <1>1, CleanIsClosed DEF Closed, TextClosed, Text
<1>3. /\ q \in Live /\ Current(q) = e /\ Alike(r, q) /\ q.output = r.output
      /\ q.open = [i \in DOMAIN r.open |->
            [IF Indexes(d) THEN Heard(r, r.open[i]) ELSE r.open[i] EXCEPT !.state = "active"]]
      /\ q.closed = IF Indexes(d) THEN <<>> ELSE r.closed
      /\ q.cache = r.cache \cup IF Indexes(d) THEN NewEntries(r) ELSE {}
  BY <1>1, PieceFacts
<1>4. /\ d \in Dec /\ d.at.pge = c.at.pge /\ n = IF c.isBreak THEN c.at.pos + 1 ELSE c.at.pos
      /\ e.at = d.at /\ e.out = Append(c.out, x)
      /\ c.at.pos \in Nat /\ n \in Nat /\ x \in Item
  BY <1>1, WordAdded
<1>5. r.dec["main"] \in Dec /\ r.dec["note"] \in Dec /\ P \in Nat
      /\ r.dec["main"].at.pos \in Nat /\ r.dec["note"].at.pos \in Nat
  BY <1>1 DEF Live, Handler, Dec, Place
<1>6. NotePos \in Nat /\ base \in Nat
  BY DEF NotePos, NotesStart
<1> HIDE DEF q, e, c, d
<1>7. /\ q.dec[cur] = e /\ \A k \in {"main", "note"} : k # cur => q.dec[k] = r.dec[k]
      /\ q.dec["main"].at.pge = P
  <2>1. q.dec[cur] = e
    BY <1>3 DEF Alike, Current
  <2>2. \A k \in {"main", "note"} : k # cur => q.dec[k] = r.dec[k]
    BY <1>3 DEF Alike
  <2>3. q.dec["main"].at.pge = P
    BY <1>1, <1>4, <2>1, <2>2
  <2> QED
    BY <2>1, <2>2, <2>3
<1>8. Few(q) => Few(r)
  <2>1. CASE cur = "main"
    <3>1. q.dec["main"].at.pos = n /\ r.dec["main"].at.pos = c.at.pos /\ c.at.pos <= n
      BY <1>1, <1>4, <1>7, <2>1
    <3> HIDE DEF n
    <3> QED
      BY <1>4, <1>6, <3>1 DEF Few
  <2>2. CASE cur # "main"
    BY <1>7, <2>2 DEF Few
  <2> QED
    BY <2>1, <2>2
<1>9. Grows(v, u, P, n)
  <2>1. Positions(Current(q).out) = Positions(Current(r).out) \cup {n}
    <3>1. c.out \in Seq(Item) /\ x[1] = "w" /\ x[2] = n
      BY <1>1 DEF Dec
    <3> HIDE DEF x
    <3>2. Positions(Append(c.out, x)) = Positions(c.out) \cup {n}
      BY <1>4, <3>1, PositionsAppend
    <3> QED
      BY <1>3, <1>4, <3>2 DEF c
  <2>2. Positions(q.output) \cup Positions(Current(q).out)
          = Positions(r.output) \cup Positions(Current(r).out) \cup {n}
    BY <1>3, <2>1
  <2>3. \A k \in Nat : View(q)[k] = View(r)[k] \cup
               IF k = r.dec["main"].at.pge THEN {n} ELSE {}
    <3>1. /\ q.doc = r.doc /\ q.pages = r.pages
          /\ q.dec["main"].at.pge = r.dec["main"].at.pge
      BY <1>3, <1>7 DEF Alike
    <3> HIDE DEF n
    <3> QED
      BY <2>2, <3>1, ViewGrows
  <2> QED
    BY <2>3 DEF Grows
<1> HIDE DEF v, u, P, n, x
<1>10. ASSUME Few(q), Placed(r)
       PROVE  Placed(q)
  <2>1. Few(r) /\ c.at.pge = P
    BY <1>1, <1>8, <1>10 DEF Placed, P
  <2>2. \A k \in Nat : \A m \in v[k] :
           /\ k <= P
           /\ m \in 1 .. r.dec["main"].at.pos \/ m \in NotePos + 1 .. r.dec["note"].at.pos
    BY <1>10 DEF Placed, P, v
  <2>3. Aligned(r.dec["main"], 0, v) /\ Aligned(r.dec["note"], NotePos, v)
    BY <1>10 DEF Placed, v
  <2>4. Aligned(c, base, v) /\ r.dec["note"].at.pos >= NotePos /\ r.dec["main"].at.pos <= NotePos
    BY <1>1, <1>5, <1>6, <2>1, <2>3 DEF Aligned, NotesStart, Few
  <2>5. c.isBreak => \A k \in Nat : c.at.pos + 1 \notin v[k]
    <3> SUFFICES ASSUME c.isBreak, NEW k \in Nat, c.at.pos + 1 \in v[k] PROVE FALSE
      OBVIOUS
    <3>1. \/ c.at.pos + 1 \in 1 .. r.dec["main"].at.pos
          \/ c.at.pos + 1 \in NotePos + 1 .. r.dec["note"].at.pos
      BY <2>2
    <3>2. CASE cur = "main"
      <4>1. c.at.pos = r.dec["main"].at.pos /\ q.dec["main"].at.pos = c.at.pos + 1
        BY <1>1, <1>4, <1>7, <3>2 DEF n
      <4>2. c.at.pos + 1 <= NotePos
        BY <1>10, <4>1 DEF Few
      <4>3. \/ c.at.pos + 1 \in 1 .. c.at.pos
            \/ c.at.pos + 1 \in NotePos + 1 .. r.dec["note"].at.pos
        BY <3>1, <4>1
      <4> QED
        BY <1>4, <1>5, <1>6, <4>2, <4>3, NewIsOutside
    <3>3. CASE cur = "note"
      <4>1. c.at.pos = r.dec["note"].at.pos
        BY <1>1, <3>3
      <4>2. \/ c.at.pos + 1 \in 1 .. r.dec["main"].at.pos
            \/ c.at.pos + 1 \in NotePos + 1 .. c.at.pos
        BY <3>1, <4>1
      <4> QED
        BY <1>4, <1>5, <1>6, <2>4, <4>1, <4>2, NewIsOutside
    <3> QED
      BY <1>1, <3>2, <3>3
  <2>6. Aligned(e, base, u) /\ n >= c.at.pos /\ n > base /\ e.at.pos = n
    <3>1. Grows(v, u, P, Started(c).at.pos)
      BY <1>9 DEF n, d
    <3>2. \A k \in Nat : \A m \in v[k] : k <= P
      BY <2>2
    <3> HIDE DEF base
    <3>3. /\ Aligned(WithWord(Started(c), p), base, u)
          /\ WithWord(Started(c), p).at.pos >= c.at.pos /\ WithWord(Started(c), p).at.pos > base
          /\ WithWord(Started(c), p).at.pos = Started(c).at.pos
      BY <1>1, <1>5, <1>6, <2>1, <2>4, <2>5, <3>1, <3>2, AlignedWord DEF P
    <3> QED
      BY <3>3 DEF e, d, n
  <2>7. ASSUME NEW k \in {"main", "note"}
        PROVE  Aligned(q.dec[k], NotesStart(k), u)
    <3>1. CASE k = cur
      BY <1>7, <2>6, <3>1
    <3>2. CASE k # cur
      <4>1. q.dec[k] = r.dec[k] /\ Aligned(r.dec[k], NotesStart(k), v) /\ r.dec[k] \in Dec
        BY <1>5, <1>7, <2>3, <3>2 DEF NotesStart
      <4>2. \A j \in Nat : \A m \in v[j] : j <= P
        BY <2>2
      <4> QED
        BY <1>5, <1>9, <4>1, <4>2, AlignedGrows
    <3> QED
      BY <3>1, <3>2
  <2>8. Aligned(q.dec["main"], 0, u) /\ Aligned(q.dec["note"], NotePos, u)
    BY <2>7 DEF NotesStart
  <2>9. ASSUME NEW k \in Nat, NEW m \in u[k]
        PROVE  /\ k <= P
               /\ m \in 1 .. q.dec["main"].at.pos \/ m \in NotePos + 1 .. q.dec["note"].at.pos
    <3>1. /\ q.dec["main"].at.pos \in Nat /\ q.dec["main"].at.pos >= r.dec["main"].at.pos
          /\ q.dec["note"].at.pos \in Nat /\ q.dec["note"].at.pos >= r.dec["note"].at.pos
      BY <1>1, <1>4, <1>5, <1>7, <2>6
    <3>2. CASE m \in v[k]
      BY <1>5, <1>6, <2>2, <3>1, <3>2
    <3>3. CASE k = P /\ m = n
      <4>1. CASE cur = "main"
        <5>1. q.dec["main"].at.pos = n /\ n > 0
          BY <1>7, <2>6, <4>1 DEF NotesStart
        <5> QED
          BY <1>4, <1>5, <3>3, <5>1
      <4>2. CASE cur = "note"
        <5>1. q.dec["note"].at.pos = n /\ n > NotePos
          BY <1>7, <2>6, <4>2 DEF NotesStart
        <5> QED
          BY <1>4, <1>5, <1>6, <3>3, <5>1
      <4> QED
        BY <1>1, <4>1, <4>2
    <3> QED
      BY <1>9, <2>9, <3>2, <3>3 DEF Grows
  <2>10. \A k \in Nat : \A m \in v[k] : k <= P
    BY <2>2
  <2>11. c.wrd = <<>> \/ First(v, c.wrdAt)
    BY <1>1, <1>10, PendingIsFirst DEF v, c
  <2>12. ASSUME NEW y \in Node, NodeLeads(y, v)
         PROVE  NodeLeads(Heard(r, y), v) /\ NodeLeads(y, u) /\ NodeLeads(Heard(r, y), u)
    <3>1. Heard(r, y) \in Node /\ NodeLeads(Heard(r, y), v)
      BY <1>1, <2>11, <2>12, HeardType, HeardLeads DEF c
    <3> QED
      BY <1>5, <1>9, <2>10, <2>12, <3>1, NodeLeadsGrows
  <2>13. ASSUME NEW i \in DOMAIN q.open
         PROVE  NodeLeads(q.open[i], u)
    <3> DEFINE y == IF Indexes(d) THEN Heard(r, r.open[i]) ELSE r.open[i]
    <3>1. i \in DOMAIN r.open /\ q.open[i] = [y EXCEPT !.state = "active"]
      BY <1>3
    <3>2. r.open[i] \in Node /\ NodeLeads(r.open[i], v)
      BY <1>1, <1>10, <3>1 DEF Placed, v, Live, Handler
    <3>3. NodeLeads(y, u) /\ y \in Node
      BY <1>1, <2>12, <3>2, HeardType
    <3> HIDE DEF y
    <3>4. q.open[i].words = y.words /\ q.open[i].start = y.start
      BY <3>1, <3>3 DEF Node
    <3> QED
      BY <3>3, <3>4 DEF NodeLeads
  <2>14. ASSUME NEW i \in DOMAIN q.closed
         PROVE  NodeLeads(q.closed[i], u)
    <3>1. q.closed = r.closed
      BY <1>3, <2>14
    <3>2. r.closed[i] \in Node /\ NodeLeads(r.closed[i], v)
      BY <1>1, <1>10, <2>14, <3>1 DEF Placed, v, Live, Handler
    <3> QED
      BY <2>12, <3>1, <3>2
  <2>15. ASSUME NEW w \in q.cache
         PROVE  EntryLeads(w, u)
    <3>1. EntryLeads(w, v)
      <4>1. \A i \in DOMAIN r.closed : NodeLeads(r.closed[i], v)
        BY <1>10 DEF Placed, v
      <4>2. \A y \in NewEntries(r) : EntryLeads(y, v)
        BY <1>1, <2>11, <4>1, NewEntriesLead DEF c
      <4>3. \A y \in r.cache : EntryLeads(y, v)
        BY <1>10 DEF Placed, v
      <4> QED
        BY <1>3, <2>15, <4>2, <4>3
    <3>2. w \in Entry
      BY <1>3, <2>15 DEF Live, Handler
    <3> DEFINE at == [pge |-> w.pge, pos |-> w.pos]
    <3>3. at.pge \in Nat
      BY <3>2 DEF Entry
    <3> HIDE DEF at
    <3>4. First(u, at)
      <4>1. First(v, at)
        BY <3>1 DEF EntryLeads, at
      <4> QED
        BY <1>5, <1>9, <2>10, <3>3, <4>1, FirstGrows
    <3> QED
      BY <3>4 DEF EntryLeads, at
  <2>16. /\ q.dec["note"].at.pge = q.dec["main"].at.pge
         /\ DOMAIN q.pages[q.doc] = 0 .. q.dec["main"].at.pge - 1
    <3>1. q.dec["note"].at.pge = P
      <4>1. r.dec["note"].at.pge = P
        BY <1>10 DEF Placed, P
      <4>2. e.at.pge = P
        BY <1>4, <2>1
      <4> QED
        BY <1>1, <1>7, <4>1, <4>2
    <3> QED
      BY <1>3, <1>7, <1>10, <3>1 DEF Alike, Placed, P
  <2> QED
    BY <1>7, <2>8, <2>9, <2>13, <2>14, <2>15, <2>16 DEF Placed, u
<1>11. r.closed = <<>> /\ r.cache = {} => q.cache = {}
  BY <1>3 DEF NewEntries
<1> QED
  BY <1>2, <1>3, <1>8, <1>10, <1>11, PlacedText DEF q

LEMMA PlacedIsTextClosed ==
    ASSUME Storage, NEW s
    PROVE  TextClosed(PlacedSet(s))
BY PlacedSpace, PlacedPiece, PlacedMoves, PlacedIndexWord DEF TextClosed, Text

-----------------------------------------------------------------------------
(***************************************************************************)
(* A page that is turned shows what it showed while it was made.           *)
(***************************************************************************)
LEMMA UnsaidRecord ==
    ASSUME NEW r \in Live, Unsaid(r.breaker)
    PROVE  Positions(RecordText(r)) = Positions(r.output)
<1> DEFINE h == r.breaker.header
           o == r.output
           f == Footer(r.stack)
<1>1. h \in Seq(Item) /\ o \in Seq(Item) /\ f \in Seq(Item) /\ h \o o \in Seq(Item)
      /\ Positions(h) = {} /\ Positions(f) = {}
  <2>1. h \in Seq(Item) /\ o \in Seq(Item) /\ r.stack \in Seq(Elem)
    BY DEF Live, Handler, RecordBreaker
  <2> QED
    BY <2>1, FooterType, UnsaidFooter, TextsJoin DEF Unsaid
<1>2. RecordText(r) = (h \o o) \o f
  BY DEF RecordText
<1> HIDE DEF h, f, o
<1>3. Positions(h \o o) = Positions(o)
  <2>1. Positions(h \o o) = Positions(h) \cup Positions(o)
    BY <1>1, PositionsJoin
  <2> QED
    BY <1>1, <2>1
<1> DEFINE t == h \o o
<1>4. t \in Seq(Item) /\ RecordText(r) = t \o f /\ Positions(t) = Positions(o)
  BY <1>1, <1>2, <1>3
<1> HIDE DEF t
<1>5. Positions(t \o f) = Positions(t) \cup Positions(f)
  BY <1>1, <1>4, PositionsJoin
<1> QED
  BY <1>1, <1>4, <1>5 DEF o

LEMMA TurnedView ==
    ASSUME NEW r \in Live, NEW q \in Live, NEW P \in Nat, NEW text,
           r.dec["main"].at.pge = P, q.dec["main"].at.pge = P + 1,
           DOMAIN r.pages[r.doc] = 0 .. P - 1,
           q.pages[q.doc] = WithPage(r.pages[r.doc], P, text),
           Positions(text) = Positions(r.output), Current(r).out = <<>>,
           q.output = <<>>, Current(q).out = <<>>
    PROVE  View(q) = View(r)
<1> DEFINE old == r.pages[r.doc]
           new == q.pages[q.doc]
<1>1. /\ \A p \in Nat : p \in DOMAIN new <=> p \in DOMAIN old \/ p = P
      /\ new[P] = text /\ \A p \in DOMAIN old : new[p] = old[p]
      /\ \A p \in Nat : p \in DOMAIN old <=> p < P
  <2>1. P \notin DOMAIN old
    OBVIOUS
  <2> QED
    BY <2>1 DEF WithPage
<1> HIDE DEF old, new
<1>2. View(q) = [p \in Nat |-> (IF p \in DOMAIN new THEN Positions(new[p]) ELSE {})
                   \cup IF p = P + 1 THEN Positions(<<>>) \cup Positions(<<>>) ELSE {}]
  BY DEF View, new
<1>3. View(r) = [p \in Nat |-> (IF p \in DOMAIN old THEN Positions(old[p]) ELSE {})
                   \cup IF p = P THEN Positions(r.output) \cup Positions(<<>>) ELSE {}]
  BY DEF View, old
<1>4. ASSUME NEW p \in Nat
      PROVE  (IF p \in DOMAIN new THEN Positions(new[p]) ELSE {})
                   \cup (IF p = P + 1 THEN Positions(<<>>) \cup Positions(<<>>) ELSE {})
               = (IF p \in DOMAIN old THEN Positions(old[p]) ELSE {})
                   \cup IF p = P THEN Positions(r.output) \cup Positions(<<>>) ELSE {}
  <2>1. CASE p = P
    BY <1>1, <2>1, NoPositions
  <2>2. CASE p # P
    BY <1>1, <2>2, NoPositions
  <2> QED
    BY <2>1, <2>2
<1> QED
  BY <1>2, <1>3, <1>4

\* No helper leaves the handlers whose words have their places.
LEMMA PlacedIsClosed ==
    ASSUME Storage, NEW s
    PROVE  Closed(PlacedSet(s))
<1> DEFINE A == PlacedSet(s)
<1>1. Closed(CleanSet(s))
  BY CleanIsClosed
<1>2. A \subseteq Live /\ TextClosed(A)
  <2>1. A \subseteq Live
    BY DEF PlacedSet, CleanSet
  <2> QED
    BY <2>1, PlacedIsTextClosed
<1>3. TurnClosed(A)
  <2> SUFFICES ASSUME NEW r \in A, Settled(r), NEW k \in {"main", "note"}
               PROVE  [r EXCEPT !.cur = k] \in A
    BY DEF TurnClosed
  <2> DEFINE q == [r EXCEPT !.cur = k]
  <2>1. r \in CleanSet(s) /\ r \in Live /\ Clean(r)
    BY DEF PlacedSet, CleanSet
  <2>2. q \in CleanSet(s)
    BY <1>1, <2>1 DEF Closed, TurnClosed
  <2>3. /\ q \in Live /\ q.dec = r.dec /\ q.doc = r.doc /\ q.docDb = r.docDb
        /\ q.breaker = r.breaker /\ q.pages = r.pages /\ q.output = r.output
        /\ q.open = r.open /\ q.closed = r.closed /\ q.cache = r.cache
        /\ Blank(Current(q)) /\ Blank(Current(r))
    BY <2>1, TurnFacts
  <2> HIDE DEF q
  <2>4. View(q) = View(r)
    BY <2>3, ViewSame DEF Blank
  <2>5. Placed(r) => Placed(q)
    BY <2>1, <2>3, <2>4 DEF Placed
  <2> QED
    BY <2>2, <2>3, <2>5 DEF PlacedSet, Few, q
<1>4. PageClosed(A)
  <2> SUFFICES ASSUME Breaks, NEW r \in A, Settled(r)
               PROVE  PageTurned(r) \in A
    BY DEF PageClosed
  <2> DEFINE q == PageTurned(r)
             P == r.dec["main"].at.pge
             text == RecordText(r)
  <2>1. r \in CleanSet(s) /\ r \in Live /\ Clean(r) /\ r.doc # 0 /\ r.doc = s.doc /\ Unsaid(r.breaker)
    BY DEF PlacedSet, CleanSet, Kept
  <2>2. q \in CleanSet(s)
    BY <1>1, <2>1 DEF Closed, PageClosed
  <2>3. /\ q \in Live /\ q.cur = r.cur /\ q.doc = r.doc
        /\ \A k \in {"main", "note"} :
             q.dec[k] = [r.dec[k] EXCEPT !.at = [pge |-> @.pge + 1, pos |-> @.pos]]
        /\ q.breaker = [r.breaker EXCEPT !.header = NextHeader(r.breaker, r.stack)]
        /\ q.docDb = r.docDb /\ q.output = <<>>
        /\ q.open = r.open /\ q.closed = r.closed /\ q.cache = r.cache
        /\ q.pages = IF r.docDb THEN [r.pages EXCEPT ![r.doc] = WithPage(@, Current(r).at.pge, text)]
                     ELSE r.pages
    BY <2>1, PageTurnedFacts
  <2>4. /\ r.dec \in [{"main", "note"} -> Dec] /\ r.cur \in {"main", "note"} /\ P \in Nat
        /\ r.breaker \in RecordBreaker /\ r.stack \in Seq(Elem)
        /\ r.doc \in 1 .. MaxDoc /\ r.pages \in [1 .. MaxDoc -> Numbered]
    <3>1. r.dec \in [{"main", "note"} -> Dec] /\ r.cur \in {"main", "note"}
      BY <2>1, CurrentType DEF Live, Handler
    <3>2. P \in Nat
      BY <3>1 DEF Dec, Place
    <3>3. MaxDoc \in Nat /\ r.doc \in 0 .. MaxDoc /\ r.pages \in [1 .. MaxDoc -> Numbered]
      BY <2>1, BoundAssumption DEF Live, Handler
    <3> QED
      BY <2>1, <3>1, <3>2, <3>3 DEF Live, Handler
  <2> HIDE DEF q, text, P
  <2>5. ASSUME NEW k \in {"main", "note"}
        PROVE  /\ q.dec[k].at.pge = r.dec[k].at.pge + 1 /\ q.dec[k].at.pos = r.dec[k].at.pos
               /\ q.dec[k].wrdAt = r.dec[k].wrdAt /\ q.dec[k].isBreak = r.dec[k].isBreak
               /\ q.dec[k].wrd = r.dec[k].wrd /\ q.dec[k].out = r.dec[k].out
    <3> DEFINE at == [pge |-> r.dec[k].at.pge + 1, pos |-> r.dec[k].at.pos]
    <3>1. r.dec[k] \in Dec
      BY <2>4
    <3>2. q.dec[k] = [r.dec[k] EXCEPT !.at = at]
          /\ at.pge = r.dec[k].at.pge + 1 /\ at.pos = r.dec[k].at.pos
      BY <2>3, <3>1
    <3> HIDE DEF at
    <3> QED
      BY <3>1, <3>2 DEF Dec
  <2>6. Unsaid(q.breaker)
    <3>1. /\ q.breaker.extra = r.breaker.extra /\ q.breaker.kept = r.breaker.kept
          /\ q.breaker.header = NextHeader(r.breaker, r.stack)
      BY <2>3, <2>4 DEF RecordBreaker
    <3>2. Positions(NextHeader(r.breaker, r.stack)) = {}
      BY <2>1, <2>4, UnsaidHeader
    <3> QED
      BY <2>1, <3>1, <3>2 DEF Unsaid
  <2>7. \A d \in 1 .. MaxDoc : d # s.doc => q.pages[d] = s.pages[d]
    <3>1. \A d \in 1 .. MaxDoc : d # s.doc => q.pages[d] = r.pages[d]
      BY <2>1, <2>3, <2>4
    <3> QED
      BY <3>1 DEF PlacedSet
  <2>8. ~ q.docDb => q.closed = <<>> /\ q.cache = {} /\ q.pages = s.pages
    BY <2>3 DEF PlacedSet
  <2>9. Few(q) => Few(r)
    BY <2>5 DEF Few
  <2>10. ASSUME r.docDb, Placed(r)
         PROVE  Placed(q)
    <3>1. /\ r.dec["note"].at.pge = P /\ DOMAIN r.pages[r.doc] = 0 .. P - 1
          /\ Current(r).at.pge = P
      BY <2>4, <2>10 DEF Placed, P, Current
    <3>2. q.pages[q.doc] = WithPage(r.pages[r.doc], P, text)
      <4> DEFINE new == WithPage(r.pages[r.doc], P, text)
      <4>1. q.pages = [r.pages EXCEPT ![r.doc] = new] /\ q.doc = r.doc
        BY <2>3, <2>10, <3>1
      <4> HIDE DEF new
      <4>2. q.pages[q.doc] = new
        BY <2>4, <4>1
      <4> QED
        BY <4>2 DEF new
    <3>3. q.dec["main"].at.pge = P + 1 /\ q.dec["note"].at.pge = P + 1
      BY <2>5, <3>1 DEF P
    <3>4. Current(r).out = <<>> /\ Current(q).out = <<>>
      <4>1. Current(r).out = <<>>
        BY DEF Settled, Blank
      <4>2. Current(q).out = Current(r).out
        BY <2>3, <2>4, <2>5 DEF Current
      <4> QED
        BY <4>1, <4>2
    <3>5. View(q) = View(r)
      <4>1. Positions(text) = Positions(r.output)
        BY <2>1, UnsaidRecord DEF text
      <4>2. r.dec["main"].at.pge = P
        BY DEF P
      <4> QED
        BY <2>1, <2>3, <2>4, <3>1, <3>2, <3>3, <3>4, <4>1, <4>2, TurnedView
    <3>6. DOMAIN q.pages[q.doc] = 0 .. (P + 1) - 1
      <4>1. DOMAIN q.pages[q.doc] = {P} \cup 0 .. P - 1
        BY <3>1, <3>2 DEF WithPage
      <4> QED
        BY <2>4, <4>1
    <3>7. \A p \in Nat : \A n \in View(q)[p] :
              /\ p <= P + 1
              /\ n \in 1 .. q.dec["main"].at.pos \/ n \in NotePos + 1 .. q.dec["note"].at.pos
      <4>1. \A p \in Nat : \A n \in View(r)[p] :
              /\ p <= P
              /\ n \in 1 .. r.dec["main"].at.pos \/ n \in NotePos + 1 .. r.dec["note"].at.pos
        BY <2>10 DEF Placed, P
      <4> QED
        BY <2>4, <2>5, <3>5, <4>1
    <3>8. Aligned(q.dec["main"], 0, View(q)) /\ Aligned(q.dec["note"], NotePos, View(q))
      <4>1. Aligned(r.dec["main"], 0, View(q)) /\ Aligned(r.dec["note"], NotePos, View(q))
        BY <2>10, <3>5 DEF Placed
      <4> QED
        BY <2>5, <4>1, AlignedSame
    <3>9. /\ \A i \in DOMAIN q.open : NodeLeads(q.open[i], View(q))
          /\ \A i \in DOMAIN q.closed : NodeLeads(q.closed[i], View(q))
          /\ \A w \in q.cache : EntryLeads(w, View(q))
      BY <2>3, <2>10, <3>5 DEF Placed
    <3> QED
      BY <3>3, <3>6, <3>7, <3>8, <3>9 DEF Placed
  <2> QED
    BY <2>2, <2>3, <2>6, <2>7, <2>8, <2>9, <2>10 DEF PlacedSet, q
<1> QED
  BY <1>2, <1>3, <1>4 DEF Closed

-----------------------------------------------------------------------------
(***************************************************************************)
(* What the record breaker keeps has no words: they were not decorated.    *)
(***************************************************************************)
LEMMA UnsaidOpens ==
    ASSUME NEW b \in RecordBreaker, Unsaid(b), NEW e \in Elem, NEW n \in Nat
    PROVE  BreakerOpens(b, e, n) \in RecordBreaker /\ Unsaid(BreakerOpens(b, e, n))
<1> DEFINE q == BreakerOpens(b, e, n)
           x == <<"open", e>>
           counted == IF Breaker[e] = "open" THEN [b EXCEPT !.pge = @ + 1] ELSE b
           extra == Append(b.extra, x)
<1>1. q \in RecordBreaker
  BY BreakerOpensType
<1>2. /\ counted \in RecordBreaker /\ counted.extra = b.extra
      /\ counted.header = b.header /\ counted.kept = b.kept
  BY DEF RecordBreaker
<1>3. \/ q = counted
      \/ q = [counted EXCEPT !.level = n, !.extra = extra]
  BY <1>2 DEF BreakerOpens
<1>4. b.extra \in Seq(Item) /\ x \in Item /\ x[1] # "w"
  BY PlainFacts, OtherItems DEF RecordBreaker
<1> HIDE DEF x, counted, q
<1>5. Positions(extra) = {}
  BY <1>4, PositionsAppend DEF Unsaid
<1> HIDE DEF extra
<1>6. q.header = b.header /\ q.kept = b.kept /\ q.extra \in {b.extra, extra}
  BY <1>2, <1>3 DEF RecordBreaker
<1>7. Unsaid(q)
  BY <1>5, <1>6 DEF Unsaid
<1> QED
  BY <1>1, <1>7 DEF q

LEMMA UnsaidCloses ==
    ASSUME NEW b \in RecordBreaker, Unsaid(b), NEW e \in Elem, NEW n \in Nat
    PROVE  BreakerCloses(b, e, n) \in RecordBreaker /\ Unsaid(BreakerCloses(b, e, n))
<1> DEFINE q == BreakerCloses(b, e, n)
           x == <<"close", e>>
           counted == IF Breaker[e] = "close" THEN [b EXCEPT !.pge = @ + 1] ELSE b
           left == LevelsLeft(DOMAIN b.kept, n)
           extra == Append(b.extra, x)
           kept == [k \in left \cup {n} |-> IF k = n THEN extra ELSE b.kept[k]]
<1>1. q \in RecordBreaker
  BY BreakerClosesType
<1>2. /\ counted \in RecordBreaker /\ counted.extra = b.extra
      /\ counted.header = b.header /\ counted.kept = b.kept
  BY DEF RecordBreaker
<1>3. \/ q = counted
      \/ q = [counted EXCEPT !.level = 0, !.extra = <<>>, !.kept = kept]
  BY <1>2 DEF BreakerCloses
<1>4. b.extra \in Seq(Item) /\ x \in Item /\ x[1] # "w"
  BY PlainFacts, OtherItems DEF RecordBreaker
<1>5. left \subseteq DOMAIN b.kept
  BY DEF LevelsLeft
<1> HIDE DEF x, counted, q, left
<1>6. Positions(extra) = {}
  BY <1>4, PositionsAppend DEF Unsaid
<1> HIDE DEF extra
<1>7. \A k \in DOMAIN kept : Positions(kept[k]) = {}
  BY <1>5, <1>6 DEF Unsaid
<1> HIDE DEF kept
<1>8. q.header = b.header /\ q.kept \in {b.kept, kept} /\ q.extra \in {b.extra, <<>>}
  BY <1>2, <1>3 DEF RecordBreaker
<1>9. Unsaid(q)
  BY <1>7, <1>8, NoPositions DEF Unsaid
<1> QED
  BY <1>1, <1>9 DEF q

LEMMA UnsaidBegins ==
    ASSUME NEW b \in RecordBreaker, Unsaid(b)
    PROVE  Unsaid(BreakerStartDocument(b))
<1>1. /\ BreakerStartDocument(b).extra = <<>> /\ BreakerStartDocument(b).header = b.header
      /\ BreakerStartDocument(b).kept = b.kept
  BY DEF BreakerStartDocument, RecordBreaker
<1> QED
  BY <1>1, NoPositions DEF Unsaid

LEMMA UnsaidCharacters ==
    ASSUME NEW b \in RecordBreaker, Unsaid(b), NEW c \in Chunk
    PROVE  Unsaid([b EXCEPT !.extra = IF Breaks /\ b.level # 0 THEN @ \o Raw(c) ELSE @])
<1> DEFINE extra == IF Breaks /\ b.level # 0 THEN b.extra \o Raw(c) ELSE b.extra
           q == [b EXCEPT !.extra = extra]
<1>1. /\ Raw(c) \in Seq(Item) /\ Positions(Raw(c)) = {} /\ b.extra \in Seq(Item)
  BY ChunkType, UnsaidRaw DEF RecordBreaker
<1>2. Positions(extra) = {}
  BY <1>1, PositionsJoin DEF Unsaid
<1> HIDE DEF extra
<1>3. q.extra = extra /\ q.header = b.header /\ q.kept = b.kept
  BY DEF RecordBreaker
<1> HIDE DEF q
<1>4. Unsaid(q)
  BY <1>2, <1>3 DEF Unsaid
<1> QED
  BY <1>4 DEF q, extra

LEMMA PlacedBreaker ==
    ASSUME NEW s, NEW r \in PlacedSet(s), NEW b \in RecordBreaker, Unsaid(b)
    PROVE  [r EXCEPT !.breaker = b] \in PlacedSet(s)
<1> DEFINE q == [r EXCEPT !.breaker = b]
<1>1. r \in CleanSet(s) /\ r \in Live
  BY DEF PlacedSet, CleanSet
<1>2. q \in CleanSet(s)
  BY <1>1, CleanBreaker
<1>3. /\ q.breaker = b /\ q.dec = r.dec /\ q.cur = r.cur /\ q.doc = r.doc
      /\ q.docDb = r.docDb /\ q.pages = r.pages /\ q.output = r.output
      /\ q.open = r.open /\ q.closed = r.closed /\ q.cache = r.cache
  BY <1>1 DEF Live, Handler
<1> HIDE DEF q
<1>4. Current(q) = Current(r)
  BY <1>3 DEF Current
<1>5. View(q) = View(r)
  BY <1>3, <1>4, ViewSame
<1>6. Placed(r) => Placed(q)
  BY <1>3, <1>5 DEF Placed
<1>7. Few(q) = Few(r)
  BY <1>3 DEF Few
<1> QED
  BY <1>2, <1>3, <1>6, <1>7 DEF PlacedSet, q

-----------------------------------------------------------------------------
(***************************************************************************)
(* The steps keep the words placed.                                        *)
(***************************************************************************)
LEMMA PlacedNow ==
    ASSUME Steady, Placement, Parsing, Storage
    PROVE  /\ ix \in Live /\ ix.stack \in Seq(Elem) /\ ix.breaker \in RecordBreaker
           /\ ix \in CleanSet(ix) /\ Clean(ix) /\ ix.doc # 0 /\ ix.doc = begun
           /\ Elems(ix.open) = ix.stack
           /\ Unsaid(ix.breaker) /\ (Few(ix) => Placed(ix)) /\ ix \in PlacedSet(ix)
<1>1. /\ ix \in Live /\ ix.doc # 0 /\ ix.doc = begun /\ ix.docDb = Storage
      /\ Elems(ix.open) = ix.stack /\ Clean(ix) /\ ix \in CleanSet(ix)
  BY WorkingIsClean
<1>2. Unsaid(ix.breaker) /\ (Few(ix) => Placed(ix))
  BY <1>1 DEF Placement
<1>3. ix.stack \in Seq(Elem) /\ ix.breaker \in RecordBreaker
  BY <1>1 DEF Live, Handler
<1> QED
  BY <1>1, <1>2, <1>3 DEF PlacedSet

\* While a document is parsed, the words of the others lead where they led.
LEMMA PlacementStep ==
    ASSUME Steady, Placement, Storage, Parsing, NEW r \in Live, ix' = r, r.doc = ix.doc,
           r.words = ix.words, Unsaid(r.breaker),
           \A d \in 1 .. MaxDoc : d # ix.doc => r.pages[d] = ix.pages[d],
           Few(r) => Placed(r), UNCHANGED <<usage, begun>>
    PROVE  Placement'
<1>1. ix.doc # 0 /\ ix.doc = begun
  BY WorkingIsClean
<1>2. begun \in 0 .. MaxDoc /\ MaxDoc \in Nat /\ \A w \in ix.words : w.doc \in 1 .. begun
  BY BoundAssumption DEF Steady
<1>3. \A d \in 1 .. MaxDoc : d > begun => DOMAIN r.pages[d] = {}
  BY <1>1, <1>2 DEF Placement
<1>4. ASSUME NEW w \in r.words
      PROVE  w.doc # r.doc /\ Leads(r.pages, w)
  <2>1. w.doc \in 1 .. MaxDoc /\ w.doc # ix.doc /\ Leads(ix.pages, w)
    BY <1>2, <1>4 DEF Placement
  <2>2. r.pages[w.doc] = ix.pages[w.doc]
    BY <2>1
  <2> QED
    BY <2>1, <2>2 DEF Leads
<1> QED
  BY <1>3, <1>4 DEF Placement

\* A tag that is said shows no word.
LEMMA PlacedSays ==
    ASSUME Storage, NEW c \in Live, NEW x \in Item, x[1] # "w", NEW r \in Live,
           Current(r) = [Current(c) EXCEPT !.out = IF Storage THEN Append(@, x) ELSE @],
           r.cur = c.cur, \A k \in {"main", "note"} : k # c.cur => r.dec[k] = c.dec[k],
           r.doc = c.doc, r.pages = c.pages, r.output = c.output,
           \A i \in DOMAIN r.open : NodeLeads(r.open[i], View(c)),
           \A i \in DOMAIN r.closed : NodeLeads(r.closed[i], View(c)),
           \A w \in r.cache : EntryLeads(w, View(c))
    PROVE  /\ Placed(c) => Placed(r)
           /\ Few(r) = Few(c) /\ View(r) = View(c)
<1> DEFINE d == [Current(c) EXCEPT !.out = IF Storage THEN Append(@, x) ELSE @]
<1>1. Current(c) \in Dec /\ c.cur \in {"main", "note"}
  BY CurrentType
<1>2. /\ d.at = Current(c).at /\ d.wrdAt = Current(c).wrdAt /\ d.wrd = Current(c).wrd
      /\ d.isBreak = Current(c).isBreak /\ d.out = Append(Current(c).out, x)
  BY <1>1 DEF Dec
<1>3. Positions(d.out) = Positions(Current(c).out)
  <2>1. Current(c).out \in Seq(Item)
    BY <1>1 DEF Dec
  <2> HIDE DEF d
  <2> QED
    BY <1>2, <2>1, PositionsAppend
<1>4. Current(r) = d
  OBVIOUS
<1> HIDE DEF d
<1>5. \A k \in {"main", "note"} :
               /\ r.dec[k].at = c.dec[k].at /\ r.dec[k].wrdAt = c.dec[k].wrdAt
               /\ c.dec[k].isBreak => r.dec[k].isBreak
               /\ c.dec[k].wrd = <<>> => r.dec[k].wrd = <<>>
  BY <1>2, <1>4 DEF Current
<1>6. View(r) = View(c)
  BY <1>3, <1>4, <1>5, ViewSame
<1>7. Placed(c) => Placed(r)
  <2> SUFFICES ASSUME Placed(c) PROVE Placed(r)
    OBVIOUS
  <2> QED
    BY <1>5, <1>6, PlacedSame
<1>8. Few(r) = Few(c)
  BY <1>5 DEF Few
<1> QED
  BY <1>6, <1>7, <1>8

LEMMA PlacementStartNode ==
    ASSUME Steady, Placement, Storage, NEW e \in Elem, StartNode(e)
    PROVE  Placement'
<1>1. Parsing
  BY DEF StartNode, MoreEvents
<1>2. /\ ix \in Live /\ ix.stack \in Seq(Elem) /\ ix \in PlacedSet(ix) /\ ix.docDb = Storage
  BY <1>1, PlacedNow, WorkingIsClean
<1> DEFINE A == PlacedSet(ix)
<1>3. Closed(A)
  BY PlacedIsClosed
<1>4. ASSUME NEW r \in A
      PROVE  [r EXCEPT !.breaker = BreakerOpens(@, e, Len(ix.stack))] \in A
  <2>1. r.breaker \in RecordBreaker /\ Unsaid(r.breaker) /\ Len(ix.stack) \in Nat
    BY <1>2 DEF PlacedSet, CleanSet, Live, Handler
  <2> DEFINE b == BreakerOpens(r.breaker, e, Len(ix.stack))
  <2>2. b \in RecordBreaker /\ Unsaid(b)
    BY <2>1, UnsaidOpens
  <2> HIDE DEF b
  <2>3. [r EXCEPT !.breaker = b] \in A
    BY <2>2, PlacedBreaker
  <2> QED
    BY <2>3 DEF b
<1> HIDE DEF A
<1>5. PICK c \in A : Starts(ix, e, c)
  <2>1. \A r \in A : [r EXCEPT !.breaker = BreakerOpens(@, e, Len(ix.stack))] \in A
    BY <1>4
  <2>2. ix \in A
    BY <1>2 DEF A
  <2> QED
    BY <1>3, <2>1, <2>2, StartNodeKeeps
<1>6. /\ c \in Live /\ Kept(ix, c) /\ Unsaid(c.breaker)
      /\ \A d \in 1 .. MaxDoc : d # ix.doc => c.pages[d] = ix.pages[d]
      /\ c.docDb /\ (Few(c) => Placed(c))
  <2>1. c \in Live /\ Kept(ix, c) /\ c \in PlacedSet(ix)
    BY DEF A, PlacedSet, CleanSet
  <2>2. c.docDb
    BY <1>2, <2>1 DEF Kept
  <2> QED
    BY <2>1, <2>2 DEF PlacedSet
<1> DEFINE r == Opened(c, e)
           x == <<"open", e>>
<1>7. /\ r \in Live /\ Current(r) = [Current(c) EXCEPT !.out = IF Storage THEN Append(@, x) ELSE @]
      /\ r.cur = c.cur /\ \A k \in {"main", "note"} : k # c.cur => r.dec[k] = c.dec[k]
      /\ r.doc = c.doc /\ r.breaker = c.breaker /\ r.pages = c.pages /\ r.words = c.words
      /\ r.output = c.output /\ r.open = Append(c.open, NewNode(e))
      /\ r.closed = c.closed /\ r.cache = c.cache
  BY <1>6, OpenedFacts
<1>8. ix' = r
  <2>1. ix' = [AdornerStartNode(ix, e) EXCEPT !.open = Append(@, NewNode(e))]
    BY DEF StartNode
  <2> QED
    BY <1>5, <1>6, <2>1, StartsOpens
<1>9. x \in Item /\ x[1] # "w"
  BY PlainFacts, OtherItems
<1> HIDE DEF r, x
<1>10. ASSUME Few(r)
       PROVE  Placed(r)
  <2>1. Few(c)
    <3> DEFINE d == [Current(c) EXCEPT !.out = IF Storage THEN Append(@, x) ELSE @]
    <3>1. Current(c) \in Dec /\ c.cur \in {"main", "note"} /\ Current(r) = d
      BY <1>6, <1>7, CurrentType
    <3>2. d.at = Current(c).at
      BY <3>1 DEF Dec
    <3> HIDE DEF d
    <3>3. r.dec["main"].at = c.dec["main"].at
      BY <1>7, <3>1, <3>2 DEF Current
    <3> QED
      BY <1>10, <3>3 DEF Few
  <2>2. Placed(c)
    BY <1>6, <2>1
  <2>3. c.open \in Seq(Node) /\ NewNode(e) \in Node
    BY <1>6, NewNodeType DEF Live, Handler
  <2>4. NodeLeads(NewNode(e), View(c))
    BY DEF NewNode, NodeLeads, Nowhere
  <2>5. \A i \in DOMAIN r.open : r.open[i] = NewNode(e) \/ (i \in DOMAIN c.open /\ r.open[i] = c.open[i])
    <3> DEFINE n == NewNode(e)
    <3> HIDE DEF n
    <3>1. \A i \in DOMAIN Append(c.open, n) :
              Append(c.open, n)[i] = n \/ (i \in DOMAIN c.open /\ Append(c.open, n)[i] = c.open[i])
      BY <2>3
    <3> QED
      BY <1>7, <3>1 DEF n
  <2>6. \A i \in DOMAIN r.open : NodeLeads(r.open[i], View(c))
    BY <2>2, <2>4, <2>5 DEF Placed
  <2>7. /\ \A i \in DOMAIN r.closed : NodeLeads(r.closed[i], View(c))
        /\ \A w \in r.cache : EntryLeads(w, View(c))
    BY <1>7, <2>2 DEF Placed
  <2> QED
    BY <1>6, <1>7, <1>9, <2>2, <2>6, <2>7, PlacedSays
<1>11. /\ r.doc = ix.doc /\ r.words = ix.words
       /\ \A d \in 1 .. MaxDoc : d # ix.doc => r.pages[d] = ix.pages[d]
  BY <1>6, <1>7 DEF Kept
<1>12. UNCHANGED <<usage, begun>>
  BY DEF StartNode
<1> QED
  BY <1>1, <1>6, <1>7, <1>8, <1>10, <1>11, <1>12, PlacementStep

LEMMA PlacementCharacters ==
    ASSUME Steady, Placement, Storage, NEW c \in Chunk, Characters(c)
    PROVE  Placement'
<1>1. Parsing
  BY DEF Characters, MoreEvents
<1>2. /\ ix \in Live /\ ix.breaker \in RecordBreaker /\ ix \in CleanSet(ix) /\ Clean(ix)
      /\ ix.doc # 0 /\ ix.docDb = Storage /\ Unsaid(ix.breaker) /\ (Few(ix) => Placed(ix))
      /\ ix \in PlacedSet(ix)
  BY <1>1, PlacedNow, WorkingIsClean
<1> DEFINE A == PlacedSet(ix)
           q == Buffered(ix, c)
           t == AdornerAddCharacters(ix, c)
           r == Noted(ix, c)
           d == [Current(ix) EXCEPT !.buf = @ \o c]
           b == [ix.breaker EXCEPT !.extra =
                   IF Breaks /\ ix.breaker.level # 0 THEN @ \o Raw(c) ELSE @]
<1>3. q \in CleanSet(ix)
  BY <1>2, CleanBuffered
<1>4. /\ d \in Dec /\ q \in Live /\ Current(q) = d /\ q.cur = ix.cur
      /\ \A k \in {"main", "note"} : k # ix.cur => q.dec[k] = ix.dec[k]
      /\ q.doc = ix.doc /\ q.docDb = ix.docDb /\ q.breaker = b
      /\ q.pages = ix.pages /\ q.output = ix.output
      /\ q.open = ix.open /\ q.closed = ix.closed /\ q.cache = ix.cache
  BY <1>2, BufferedFacts
<1>5. /\ d.at = Current(ix).at /\ d.wrdAt = Current(ix).wrdAt /\ d.wrd = Current(ix).wrd
      /\ d.isBreak = Current(ix).isBreak /\ d.out = Current(ix).out
  BY <1>2, CurrentType DEF Dec
<1>6. Unsaid(b)
  BY <1>2, UnsaidCharacters
<1> HIDE DEF q, d, b
<1>7. \A k \in {"main", "note"} :
               /\ q.dec[k].at = ix.dec[k].at /\ q.dec[k].wrdAt = ix.dec[k].wrdAt
               /\ ix.dec[k].isBreak => q.dec[k].isBreak
               /\ ix.dec[k].wrd = <<>> => q.dec[k].wrd = <<>>
  BY <1>4, <1>5 DEF Current
<1>8. q \in A
  <2>1. View(q) = View(ix)
    BY <1>4, <1>5, <1>7, ViewSame
  <2>2. Few(q) = Few(ix)
    BY <1>7 DEF Few
  <2>3. Placed(ix) => Placed(q)
    <3> SUFFICES ASSUME Placed(ix) PROVE Placed(q)
      OBVIOUS
    <3>1. /\ \A i \in DOMAIN q.open : NodeLeads(q.open[i], View(ix))
          /\ \A i \in DOMAIN q.closed : NodeLeads(q.closed[i], View(ix))
          /\ \A w \in q.cache : EntryLeads(w, View(ix))
      BY <1>4 DEF Placed
    <3> QED
      BY <1>2, <1>4, <1>7, <2>1, <3>1, PlacedSame
  <2>4. q.docDb
    BY <1>2, <1>4
  <2> QED
    BY <1>2, <1>3, <1>4, <1>6, <2>2, <2>3, <2>4 DEF PlacedSet
<1>9. t \in A
  BY <1>8, PlacedIsClosed, CharactersKeep DEF q
<1>10. /\ t \in Live /\ Kept(ix, t) /\ Unsaid(t.breaker) /\ t.docDb
       /\ \A k \in 1 .. MaxDoc : k # ix.doc => t.pages[k] = ix.pages[k]
       /\ Few(t) => Placed(t)
  <2>1. t \in Live /\ Kept(ix, t)
    BY <1>9 DEF PlacedSet, CleanSet
  <2>2. t.docDb
    BY <1>2, <2>1 DEF Kept
  <2> QED
    BY <1>9, <2>1, <2>2 DEF PlacedSet
<1>11. /\ r \in Live /\ r.cur = t.cur /\ r.dec = t.dec /\ r.doc = t.doc
       /\ r.breaker = t.breaker /\ r.pages = t.pages /\ r.words = t.words /\ r.output = t.output
       /\ r.closed = t.closed /\ r.cache = t.cache
       /\ DOMAIN r.open = DOMAIN t.open
       /\ \A i \in DOMAIN t.open : /\ r.open[i].words = t.open[i].words
                                   /\ r.open[i].start = t.open[i].start
  BY <1>10, NotedFacts
<1>12. ix' = r
  BY DEF Characters
<1> HIDE DEF r, t
<1>13. ASSUME Few(r)
       PROVE  Placed(r)
  <2>1. Placed(t)
    BY <1>10, <1>11, <1>13 DEF Few
  <2>2. View(r) = View(t)
    BY <1>11, ViewSame DEF Current
  <2>3. \A i \in DOMAIN r.open : NodeLeads(r.open[i], View(r))
    BY <1>11, <2>1, <2>2 DEF Placed, NodeLeads
  <2> QED
    BY <1>11, <2>1, <2>2, <2>3 DEF Placed
<1>14. /\ r.doc = ix.doc /\ r.words = ix.words /\ Unsaid(r.breaker)
       /\ \A k \in 1 .. MaxDoc : k # ix.doc => r.pages[k] = ix.pages[k]
  BY <1>10, <1>11 DEF Kept
<1>15. UNCHANGED <<usage, begun>>
  BY DEF Characters
<1> QED
  BY <1>1, <1>11, <1>12, <1>13, <1>14, <1>15, PlacementStep

LEMMA PlacementLoops ==
    ASSUME Steady, Placement, Storage, EndNodeLoops
    PROVE  Placement'
<1>1. Parsing /\ UNCHANGED <<ix, usage, begun>>
  BY DEF EndNodeLoops, MoreEvents
<1>2. ix \in Live /\ Unsaid(ix.breaker) /\ (Few(ix) => Placed(ix))
  BY <1>1, PlacedNow
<1> QED
  BY <1>1, <1>2, PlacementStep

LEMMA PlacementEndNode ==
    ASSUME Steady, Placement, Storage, EndNode
    PROVE  Placement'
<1>1. Parsing /\ ix.stack # <<>> /\ ix' = NodeEnded(ix) /\ UNCHANGED <<usage, begun>>
  BY DEF EndNode, MoreEvents
<1>2. /\ ix \in Live /\ ix.stack \in Seq(Elem) /\ Clean(ix) /\ ix.doc # 0 /\ ix.docDb = Storage
      /\ Elems(ix.open) = ix.stack /\ Unsaid(ix.breaker) /\ (Few(ix) => Placed(ix))
  BY <1>1, PlacedNow, WorkingIsClean
<1> DEFINE stack == ix.stack
           front == Front(stack)
           e == Last(stack)
           q == [ix EXCEPT !.stack = Front(@)]
           n == Len(front)
           A == PlacedSet(q)
           x == <<"close", e>>
<1>3. front \in Seq(Elem) /\ e \in Elem /\ n \in Nat
  <2>1. Len(stack) \in Nat /\ Len(stack) # 0
    BY <1>1, <1>2
  <2>2. front = SubSeq(stack, 1, Len(stack) - 1) /\ e = stack[Len(stack)]
    BY DEF Front, Last
  <2>3. SubSeq(stack, 1, Len(stack) - 1) \in Seq(Elem) /\ stack[Len(stack)] \in Elem
    BY <1>2, <2>1
  <2> HIDE DEF front, e
  <2> QED
    BY <2>2, <2>3
<1>4. x \in Item /\ x[1] # "w"
  BY <1>3, PlainFacts, OtherItems
<1>5. /\ q \in Live /\ q.dec = ix.dec /\ q.cur = ix.cur /\ q.output = ix.output
      /\ q.open = ix.open /\ q.closed = ix.closed /\ q.cache = ix.cache /\ q.doc = ix.doc
      /\ q.docDb = ix.docDb /\ q.breaker = ix.breaker /\ q.pages = ix.pages /\ q.stack = front
      /\ q.words = ix.words
  BY <1>2, <1>3 DEF Live, Handler
<1> HIDE DEF q, front, e, n, x
<1>6. q \in A
  <2>1. Clean(q)
    BY <1>2, <1>5 DEF Clean, Current
  <2>2. q \in CleanSet(q)
    BY <1>2, <1>5, <2>1 DEF CleanSet, Kept
  <2>3. View(q) = View(ix)
    BY <1>5, ViewSame DEF Current
  <2>4. Few(q) => Placed(q)
    BY <1>2, <1>5, <2>3 DEF Placed, Few
  <2> QED
    BY <1>2, <1>5, <2>2, <2>4 DEF PlacedSet
<1>7. Closed(A)
  BY PlacedIsClosed
<1>8. ASSUME NEW c \in A
      PROVE  Says(c, x) \in A
  <2> DEFINE r == Says(c, x)
  <2>1. c \in CleanSet(q) /\ c \in Live
    BY DEF PlacedSet, CleanSet
  <2>2. r \in CleanSet(q)
    BY <1>4, <2>1, CleanSays
  <2>3. /\ Current(r) = [Current(c) EXCEPT !.out = IF Storage THEN Append(@, x) ELSE @]
        /\ r \in Live /\ Alike(c, r) /\ r.output = c.output
        /\ r.open = c.open /\ r.closed = c.closed /\ r.cache = c.cache
    BY <1>4, <2>1, SaysFacts
  <2> HIDE DEF r, A
  <2>4. Few(r) => Few(c)
    BY <1>4, <2>1, <2>3, CurrentType DEF Few, Current, Dec, Alike
  <2>5. Placed(c) => Placed(r)
    <3> SUFFICES ASSUME Placed(c) PROVE Placed(r)
      OBVIOUS
    <3>1. /\ \A i \in DOMAIN r.open : NodeLeads(r.open[i], View(c))
          /\ \A i \in DOMAIN r.closed : NodeLeads(r.closed[i], View(c))
          /\ \A w \in r.cache : EntryLeads(w, View(c))
      BY <2>3 DEF Placed
    <3>2. /\ r.cur = c.cur /\ \A k \in {"main", "note"} : k # c.cur => r.dec[k] = c.dec[k]
          /\ r.doc = c.doc /\ r.pages = c.pages
      BY <2>3 DEF Alike
    <3> QED
      BY <1>4, <2>1, <2>3, <3>1, <3>2, PlacedSays
  <2>6. r \in PlacedSet(q)
    BY <2>2, <2>3, <2>4, <2>5, PlacedText DEF A
  <2> QED
    BY <2>6 DEF r, A
<1>9. \A r \in A : Len(r.stack) = n
  BY <1>5 DEF PlacedSet, CleanSet, Kept, n
<1>10. ASSUME NEW r \in A
       PROVE  [r EXCEPT !.breaker = BreakerCloses(@, e, n)] \in A
  <2>1. r.breaker \in RecordBreaker /\ Unsaid(r.breaker)
    BY DEF PlacedSet, CleanSet, Live, Handler
  <2> DEFINE b == BreakerCloses(r.breaker, e, n)
  <2>2. b \in RecordBreaker /\ Unsaid(b)
    BY <1>3, <2>1, UnsaidCloses
  <2> HIDE DEF b
  <2>3. [r EXCEPT !.breaker = b] \in A
    BY <2>2, PlacedBreaker
  <2> QED
    BY <2>3 DEF b
<1> DEFINE t == AdornerEndNode(ix)
           r == NodeEnded(ix)
           last == [Last(t.open) EXCEPT !.state = "close"]
<1> HIDE DEF A
<1>11. t \in A
  <2>1. [ix EXCEPT !.stack = Front(@)] \in A
    BY <1>6 DEF q
  <2>2. \A c \in A : Current(c).buf = <<>> => Says(c, <<"close", Last(ix.stack)>>) \in A
    BY <1>8 DEF x, e
  <2>3. \A y \in A : [y EXCEPT !.breaker = BreakerCloses(@, Last(ix.stack), n)] \in A
    BY <1>10 DEF e
  <2>4. A \subseteq Live /\ TextClosed(A)
    BY <1>7 DEF Closed
  <2> QED
    BY <1>2, <1>7, <1>9, <2>1, <2>2, <2>3, <2>4, EndNodeKeeps
<1>12. /\ t \in Live /\ Kept(q, t) /\ Unsaid(t.breaker) /\ (Few(t) => Placed(t))
       /\ \A d \in 1 .. MaxDoc : d # ix.doc => t.pages[d] = ix.pages[d]
  <2>1. t \in Live /\ Kept(q, t)
    BY <1>11 DEF A, PlacedSet, CleanSet
  <2>2. t.docDb
    BY <1>2, <1>5, <2>1 DEF Kept
  <2> QED
    BY <1>5, <1>11, <2>1, <2>2 DEF A, PlacedSet
<1>13. t.open # <<>> /\ t.open \in Seq(Node)
  <2>1. Elems(t.open) = stack /\ t.open \in Seq(Node)
    BY <1>2, <1>5, <1>12 DEF Kept, Live, Handler
  <2> QED
    BY <1>1, <2>1, ElemsType
<1>14. /\ r \in Live /\ r.cur = t.cur /\ r.dec = t.dec /\ r.doc = t.doc
       /\ r.breaker = t.breaker /\ r.pages = t.pages /\ r.words = t.words /\ r.output = t.output
       /\ r.cache = t.cache /\ r.open = Front(t.open) /\ r.closed = Append(t.closed, last)
       /\ last \in Node /\ Last(t.open) \in Node /\ last.words = Last(t.open).words
  BY <1>12, <1>13, NodeEndedFacts
<1>15. last.start = Last(t.open).start
  BY <1>14 DEF Node
<1>16. /\ \A i \in DOMAIN r.open : i \in DOMAIN t.open /\ r.open[i] = t.open[i]
       /\ Len(t.open) \in DOMAIN t.open /\ Last(t.open) = t.open[Len(t.open)]
  BY <1>13, <1>14, ElemsFront
<1> HIDE DEF r, t, last
<1>17. ASSUME Few(r)
       PROVE  Placed(r)
  <2>1. Placed(t)
    BY <1>12, <1>14, <1>17 DEF Few
  <2>2. View(r) = View(t)
    BY <1>14, ViewSame DEF Current
  <2>3. \A i \in DOMAIN r.open : NodeLeads(r.open[i], View(r))
    BY <1>16, <2>1, <2>2 DEF Placed
  <2>4. NodeLeads(last, View(r))
    BY <1>14, <1>15, <1>16, <2>1, <2>2 DEF Placed, NodeLeads
  <2>5. t.closed \in Seq(Node)
    BY <1>12 DEF Live, Handler
  <2>6. \A i \in DOMAIN r.closed : r.closed[i] = last \/ (i \in DOMAIN t.closed /\ r.closed[i] = t.closed[i])
    BY <1>14, <2>5
  <2>7. \A i \in DOMAIN r.closed : NodeLeads(r.closed[i], View(r))
    BY <2>1, <2>2, <2>4, <2>6 DEF Placed
  <2> QED
    BY <1>14, <2>1, <2>2, <2>3, <2>7 DEF Placed
<1>18. /\ r.doc = ix.doc /\ r.words = ix.words /\ Unsaid(r.breaker) /\ r \in Live
       /\ \A d \in 1 .. MaxDoc : d # ix.doc => r.pages[d] = ix.pages[d]
  BY <1>5, <1>12, <1>14 DEF Kept
<1>19. ix' = r
  BY <1>1 DEF r
<1> QED
  BY <1>1, <1>17, <1>18, <1>19, PlacementStep

-----------------------------------------------------------------------------
(***************************************************************************)
(* The end of a document.  What is buffered has no more words than tokens. *)
(***************************************************************************)
LEMMA RoomType ==
    ASSUME NEW s \in Live
    PROVE  /\ \A k \in {"main", "note"} : s.dec[k].at.pos \in Nat /\ Len(s.dec[k].buf) \in Nat
           /\ Room(s) \in Nat /\ s.dec["main"].at.pos <= Room(s)
           /\ s.cur \in {"main", "note"} /\ Current(s) = s.dec[s.cur]
<1>1. \A k \in {"main", "note"} : s.dec[k] \in Dec
  BY DEF Live, Handler
<1>2. \A k \in {"main", "note"} : s.dec[k].at.pos \in Nat /\ Len(s.dec[k].buf) \in Nat
  <2> TAKE k \in {"main", "note"}
  <2>1. s.dec[k].at \in Place /\ s.dec[k].buf \in Seq(Text)
    BY <1>1 DEF Dec
  <2> QED
    BY <2>1, LenProperties DEF Place
<1>3. s.cur \in {"main", "note"} /\ Current(s) = s.dec[s.cur]
  BY CurrentType DEF Current
<1>4. Room(s) \in Nat /\ s.dec["main"].at.pos <= Room(s)
  <2>1. s.dec["main"].at.pos \in Nat /\ Len(s.dec["main"].buf) \in Nat
    BY <1>2
  <2>2. \A a, b \in Nat : a + b \in Nat /\ a <= a + b
    OBVIOUS
  <2> QED
    BY <2>1, <2>2 DEF Room
<1> QED
  BY <1>2, <1>3, <1>4

LEMMA RoomToken ==
    ASSUME Storage, NEW r \in Live, NEW t \in Text
    PROVE  LET q == DecorateToken(r, t)
           IN  /\ q \in Live /\ q.cur = r.cur
               /\ \A k \in {"main", "note"} : k # r.cur => q.dec[k] = r.dec[k]
               /\ Current(q).at.pos <= Current(r).at.pos + 1
<1> DEFINE q == DecorateToken(r, t)
<1>1. Current(r) \in Dec /\ Current(r).at.pos \in Nat
  BY RoomType, CurrentType
<1>2. CASE t \in Spaces
  <2>1. q \in Live /\ Current(q) = WithSpace(Current(r), t) /\ Alike(r, q)
    BY <1>2, SpaceFacts
  <2>2. WithSpace(Current(r), t).at = Current(r).at
    BY <1>1 DEF WithSpace, Dec
  <2> HIDE DEF q
  <2>3. Current(q).at.pos <= Current(r).at.pos + 1
    BY <1>1, <2>1, <2>2
  <2> QED
    BY <2>1, <2>3 DEF Alike, q
<1>3. CASE t \in Piece
  <2>1. q \in Live /\ Current(q) = WithWord(Started(Current(r)), t) /\ Alike(r, q)
    BY <1>3, PieceFacts
  <2>2. /\ WithWord(Started(Current(r)), t).at = Started(Current(r)).at
        /\ Started(Current(r)).at.pos =
             IF Current(r).isBreak THEN Current(r).at.pos + 1 ELSE Current(r).at.pos
    BY <1>1, <1>3, WordAdded
  <2> HIDE DEF q
  <2>3. Current(q).at.pos <= Current(r).at.pos + 1
    BY <1>1, <2>1, <2>2
  <2> QED
    BY <2>1, <2>3 DEF Alike, q
<1> QED
  BY <1>2, <1>3 DEF Text

\* A decorator that breaks makes no more positions than it has tokens.
LEMMA RoomBreaks ==
    ASSUME Storage, NEW s \in Live
    PROVE  BreakDecorator(s) \in Live /\ Room(BreakDecorator(s)) <= Room(s)
<1> DEFINE n == Len(Current(s).buf)
           at == Current(s).at.pos
           Same(r) == /\ r.cur = s.cur
                      /\ \A k \in {"main", "note"} : k # s.cur => r.dec[k] = s.dec[k]
           Q == [k \in 0 .. n |-> {r \in Live : Same(r) /\ Current(r).at.pos <= at + k}]
           c == DecorateContent(s)
           d == Decorate(s)
           b == BreakDecorator(s)
<1>1. /\ n \in Nat /\ at \in Nat /\ Current(s).buf \in [1 .. n -> Text]
      /\ s.cur \in {"main", "note"} /\ Current(s) = s.dec[s.cur]
  BY CurrentType, RoomType DEF Dec
<1>2. s \in Q[0]
  BY <1>1
<1>3. ASSUME NEW k \in 0 .. n - 1, NEW r \in Live, r \in Q[k]
      PROVE  DecorateToken(r, Current(s).buf[k + 1]) \in Q[k + 1]
  <2> DEFINE t == Current(s).buf[k + 1]
             q == DecorateToken(r, t)
  <2>1. k \in 0 .. n /\ k + 1 \in 0 .. n /\ k + 1 \in 1 .. n /\ k \in Nat
    BY <1>1
  <2>2. t \in Text
    BY <1>1, <2>1
  <2>3. Same(r) /\ Current(r).at.pos <= at + k
    BY <1>3, <2>1
  <2> HIDE DEF t, at
  <2>4. /\ q \in Live /\ q.cur = r.cur
        /\ \A j \in {"main", "note"} : j # r.cur => q.dec[j] = r.dec[j]
        /\ Current(q).at.pos <= Current(r).at.pos + 1
    BY <2>2, RoomToken
  <2> HIDE DEF q
  <2>5. Current(q).at.pos \in Nat /\ Current(r).at.pos \in Nat
    BY <2>4, RoomType
  <2>6. Current(q).at.pos <= at + (k + 1)
    BY <1>1, <2>1, <2>3, <2>4, <2>5
  <2>7. Same(q)
    BY <2>3, <2>4
  <2>8. q \in Q[k + 1]
    BY <2>1, <2>4, <2>6, <2>7
  <2> QED
    BY <2>8 DEF q, t
<1> HIDE DEF Q
<1>4. PICK r \in Live : /\ r.cur = s.cur /\ r \in Q[n]
                        /\ c = WithDec(r, [Current(r) EXCEPT !.buf = <<>>])
  <2> HIDE DEF c
  <2> QED
    BY <1>2, <1>3, ContentKeeps DEF n, c
<1>5. Same(r) /\ Current(r).at.pos <= at + n
  <2>1. n \in 0 .. n
    BY <1>1
  <2> HIDE DEF n, at
  <2> QED
    BY <1>4, <2>1 DEF Q
<1> HIDE DEF n, c, at
<1>6. c = Emptied(r)
  BY <1>4 DEF Emptied
<1>7. /\ c \in Live /\ c.cur = s.cur /\ Same(c) /\ Current(c) \in Dec
      /\ Current(c).at = Current(r).at /\ Current(c).buf = <<>>
  <2>1. c \in Live /\ Current(c) = [Current(r) EXCEPT !.buf = <<>>] /\ Alike(r, c)
    BY <1>6, EmptiedFacts
  <2>2. Current(c).at = Current(r).at /\ Current(c).buf = <<>>
    BY <2>1, CurrentType DEF Dec
  <2> QED
    BY <1>4, <1>5, <2>1, <2>2, CurrentType DEF Alike
<1>8. d = Moved(c)
  <2>1. d = [Output(c, Current(c).out) EXCEPT !.dec[s.cur].out = <<>>]
    BY DEF Decorate, c
  <2> QED
    BY <1>7, <2>1 DEF Moved
<1> HIDE DEF d
<1>9. /\ d \in Live /\ d.cur = s.cur /\ Same(d) /\ Current(d) \in Dec
      /\ Current(d).at = Current(r).at /\ Current(d).buf = <<>>
  <2>1. d \in Live /\ Current(d) = [Current(c) EXCEPT !.out = <<>>] /\ Alike(c, d)
    BY <1>7, <1>8, MovedFacts
  <2>2. Current(d).at = Current(c).at /\ Current(d).buf = Current(c).buf
    BY <1>7, <2>1 DEF Dec
  <2> QED
    BY <1>7, <2>1, <2>2, CurrentType DEF Alike
<1>10. b = IndexWord(d)
  BY DEF BreakDecorator, d
<1> HIDE DEF b
<1>11. /\ b \in Live /\ b.cur = s.cur /\ Same(b)
       /\ Current(b).at = Current(r).at /\ Current(b).buf = <<>>
  <2>1. b \in Live /\ Current(b) = [Current(d) EXCEPT !.wrd = <<>>] /\ Alike(d, b)
    BY <1>9, <1>10, IndexWordFacts
  <2>2. Current(b).at = Current(d).at /\ Current(b).buf = Current(d).buf
    BY <1>9, <2>1 DEF Dec
  <2> QED
    BY <1>9, <2>1, <2>2 DEF Alike
<1>12. Current(b) = b.dec[s.cur] /\ Current(b).at.pos \in Nat
  BY <1>11, RoomType
<1>13. CASE s.cur = "main"
  <2>1. Room(b) = Current(b).at.pos
    BY <1>11, <1>12, <1>13 DEF Room
  <2>2. Room(s) = at + n
    BY <1>1, <1>13 DEF Room, at, n
  <2> QED
    BY <1>1, <1>5, <1>11, <2>1, <2>2 DEF b
<1>14. CASE s.cur = "note"
  <2>1. b.dec["main"] = s.dec["main"]
    BY <1>11, <1>14
  <2>2. Room(b) = Room(s) /\ Room(s) \in Nat
    BY <2>1, RoomType DEF Room
  <2> QED
    BY <1>11, <2>2 DEF b
<1> QED
  BY <1>1, <1>13, <1>14

\* The handler whose output is the last page has few words, if those counted that
\* are buffered are few.
LEMMA LastRoom ==
    ASSUME Storage, NEW s \in Live
    PROVE  Room(LastHandler(s)) <= Room(s) /\ LastHandler(s) \in Live
<1> DEFINE b == BreakDecorator(s)
           said == Output(b, <<<<"text", "\n">>>>)
<1>1. b \in Live /\ Room(b) <= Room(s)
  BY RoomBreaks
<1> HIDE DEF b
<1>2. <<<<"text", "\n">>>> \in Seq(Item)
  <2> DEFINE i == <<"text", "\n">>
  <2>1. "\n" \in Text
    BY DEF Text, Spaces
  <2>2. i \in Item
    BY <2>1 DEF Item
  <2> HIDE DEF i
  <2>3. <<i>> \in Seq(Item)
    BY <2>2
  <2> QED
    BY <2>3 DEF i
<1> DEFINE x == <<<<"text", "\n">>>>
           output == b.output \o x
<1>3. output \in Seq(Item)
  BY <1>1, <1>2, TextsJoin DEF Live, Handler
<1> HIDE DEF x
<1>4. said = [b EXCEPT !.output = output]
  BY <1>1 DEF Output, Live, Handler, x
<1> HIDE DEF said, output
<1>5. said \in Live /\ said.dec = b.dec
  BY <1>1, <1>3, <1>4 DEF Live, Handler
<1>6. Room(said) = Room(b)
  BY <1>5 DEF Room
<1>7. BreakDecorator(said) \in Live /\ Room(BreakDecorator(said)) <= Room(said)
  BY <1>5, RoomBreaks
<1>8. LastHandler(s) = IF Breaks THEN BreakDecorator(said) ELSE said
  BY DEF LastHandler, said, b, x
<1>9. LastHandler(s) \in {BreakDecorator(said), said}
  BY <1>8
<1>10. Room(s) \in Nat /\ Room(b) \in Nat /\ Room(said) \in Nat /\ Room(BreakDecorator(said)) \in Nat
  BY <1>1, <1>5, <1>7, RoomType
<1> QED
  BY <1>1, <1>5, <1>6, <1>7, <1>9, <1>10

\* The words of a document that ends lead to its pages, and the others lead where
\* they led.
LEMMA PlacedFlushed ==
    ASSUME Storage, NEW s \in Live, s.doc # 0, s \in PlacedSet(s),
           s.docDb \in {Storage, ~ Breaks}
    PROVE  LET r == Flushed(s)
           IN  /\ Unsaid(r.breaker)
               /\ \A d \in 1 .. MaxDoc : d # s.doc => r.pages[d] = s.pages[d]
               /\ ~ s.docDb => r.pages = s.pages /\ r.words = s.words
               /\ \A w \in r.words : w \in s.words \/ w.doc = s.doc
               /\ s.docDb /\ Room(s) <= NotePos =>
                    \A w \in r.words : w \in s.words \/ Leads(r.pages, w)
<1> DEFINE A == PlacedSet(s)
           ended == AdornerEndDocument(s)
           r == Flushed(s)
           x == <<"text", "\n">>
<1>1. Closed(A)
  BY PlacedIsClosed
<1>2. x \in Item /\ x[1] # "w"
  BY DEF Item, Text, Spaces
<1> HIDE DEF x
<1>3. ASSUME NEW q \in A, Settled(q)
      PROVE  Output(q, <<x>>) \in A
  <2> DEFINE o == Output(q, <<x>>)
  <2>1. q \in CleanSet(s) /\ q \in Live
    BY DEF PlacedSet, CleanSet
  <2>2. /\ o \in CleanSet(s) /\ o.pages = q.pages /\ o.breaker = q.breaker /\ o.dec = q.dec
        /\ o.cur = q.cur /\ Current(o) = Current(q)
        /\ o.open = q.open /\ o.closed = q.closed /\ o.cache = q.cache
        /\ o.output = Append(q.output, x)
    BY <1>2, <2>1, CleanOutput
  <2> HIDE DEF o
  <2>3. o \in Live /\ o.doc = q.doc /\ o.docDb = q.docDb
    BY <2>1, <2>2 DEF CleanSet, Kept
  <2>4. View(o) = View(q)
    <3>1. q.output \in Seq(Item)
      BY <2>1, ShownType
    <3>2. Positions(o.output) = Positions(q.output)
      BY <1>2, <2>2, <3>1, PositionsAppend
    <3> QED
      BY <2>2, <2>3, <3>2, ViewSame
  <2>5. (Placed(q) => Placed(o)) /\ Few(o) = Few(q)
    BY <2>2, <2>3, <2>4 DEF Placed, Few
  <2>6. o \in A
    BY <2>2, <2>3, <2>5 DEF PlacedSet
  <2> QED
    BY <2>6 DEF o
<1>4. ASSUME NEW q \in A
      PROVE  /\ q \in Live /\ q.doc # 0 /\ q.doc = s.doc /\ q.docDb = s.docDb /\ q.words = s.words
             /\ q.stack = s.stack /\ Clean(q) /\ Unsaid(q.breaker)
             /\ \A d \in 1 .. MaxDoc : d # s.doc => q.pages[d] = s.pages[d]
             /\ ~ q.docDb => q.cache = {} /\ q.pages = s.pages
             /\ q.docDb /\ Few(q) => Placed(q)
  BY DEF PlacedSet, CleanSet, Kept
<1>5. s \in A
  OBVIOUS
<1> HIDE DEF A
<1>6. PICK c \in A :
        /\ Settled(c) /\ ended \in Live /\ c = LastHandler(s)
        /\ ended.pages = IF c.docDb
                         THEN [c.pages EXCEPT ![c.doc] = WithPage(@, Current(c).at.pge, EndText(c))]
                         ELSE c.pages
        /\ ended.breaker = IF Breaks THEN [c.breaker EXCEPT !.header = NextHeader(c.breaker, c.stack)]
                           ELSE c.breaker
        /\ ended.cache = c.cache /\ ended.words = c.words
  <2>1. \A q \in A : Settled(q) => Output(q, <<<<"text", "\n">>>>) \in A
    BY <1>3 DEF x
  <2>2. \A q \in A : /\ q.doc # 0 /\ q.docDb \in {Storage, ~ Breaks}
                     /\ ~ Storage => q.output = <<>>
                     /\ Settled(q) => Output(q, <<<<"text", "\n">>>>) \in A
    BY <1>4, <2>1
  <2> HIDE DEF ended
  <2> QED
    BY <1>1, <1>5, <2>2, EndedFacts DEF ended
<1>7. r.pages = ended.pages /\ r.breaker = ended.breaker /\ r.words = s.words \cup c.cache
  <2>1. r = [ended EXCEPT !.words = @ \cup ended.cache, !.cache = {}]
    BY DEF Flushed
  <2>2. ended.words = s.words /\ ended.cache = c.cache
    BY <1>4, <1>6
  <2> DEFINE words == s.words \cup c.cache
  <2>3. r = [ended EXCEPT !.words = words, !.cache = {}]
    BY <2>1, <2>2
  <2> HIDE DEF r, ended, words
  <2>4. r.pages = ended.pages /\ r.breaker = ended.breaker /\ r.words = words
    BY <1>6, <2>3 DEF Live, Handler
  <2> QED
    BY <2>4 DEF words
<1> HIDE DEF r, ended
<1>8. /\ c \in Live /\ c.doc # 0 /\ c.doc = s.doc /\ c.docDb = s.docDb /\ Unsaid(c.breaker)
      /\ Clean(c) /\ \A d \in 1 .. MaxDoc : d # s.doc => c.pages[d] = s.pages[d]
      /\ ~ c.docDb => c.cache = {} /\ c.pages = s.pages
      /\ c.docDb /\ Few(c) => Placed(c)
  BY <1>4
<1> DEFINE P == c.dec["main"].at.pge
           text == EndText(c)
<1>9. /\ c.doc \in 1 .. MaxDoc /\ c.pages \in [1 .. MaxDoc -> Numbered]
      /\ c.breaker \in RecordBreaker /\ c.stack \in Seq(Elem) /\ P \in Nat
      /\ c.cur \in {"main", "note"} /\ c.cache \subseteq Entry
  <2>1. c.doc \in 0 .. MaxDoc /\ MaxDoc \in Nat
    BY <1>8, BoundAssumption DEF Live, Handler
  <2>2. c.cur \in {"main", "note"} /\ c.dec["main"] \in Dec
    BY <1>8, CurrentType DEF Live, Handler
  <2>3. P \in Nat
    BY <2>2 DEF Dec, Place
  <2> QED
    BY <1>8, <2>1, <2>2, <2>3 DEF Live, Handler
<1>10. Unsaid(r.breaker)
  <2>1. CASE Breaks
    <3>1. r.breaker = [c.breaker EXCEPT !.header = NextHeader(c.breaker, c.stack)]
      BY <1>6, <1>7, <2>1
    <3>2. /\ r.breaker.extra = c.breaker.extra /\ r.breaker.kept = c.breaker.kept
          /\ r.breaker.header = NextHeader(c.breaker, c.stack)
      BY <1>9, <3>1 DEF RecordBreaker
    <3>3. Positions(NextHeader(c.breaker, c.stack)) = {}
      BY <1>8, <1>9, UnsaidHeader
    <3> QED
      BY <1>8, <3>2, <3>3 DEF Unsaid
  <2>2. CASE ~ Breaks
    BY <1>6, <1>7, <1>8, <2>2
  <2> QED
    BY <2>1, <2>2
<1>11. \A d \in 1 .. MaxDoc : d # s.doc => r.pages[d] = s.pages[d]
  BY <1>6, <1>7, <1>8, <1>9
<1>12. ~ s.docDb => r.pages = s.pages /\ r.words = s.words
  BY <1>6, <1>7, <1>8
<1>13. \A w \in r.words : w \in s.words \/ (w.doc = s.doc /\ w \in c.cache)
  BY <1>7, <1>8 DEF Clean
<1>14. ASSUME s.docDb, Room(s) <= NotePos, NEW w \in c.cache
       PROVE  Leads(r.pages, w)
  <2>1. Few(c)
    <3>1. Room(c) <= Room(s)
      BY <1>6, LastRoom
    <3>2. /\ Room(c) \in Nat /\ Room(s) \in Nat /\ c.dec["main"].at.pos \in Nat
          /\ c.dec["main"].at.pos <= Room(c)
      BY <1>8, RoomType
    <3>3. NotePos \in Nat
      BY DEF NotePos
    <3> QED
      BY <1>14, <3>1, <3>2, <3>3 DEF Few
  <2>2. Placed(c)
    BY <1>8, <1>14, <2>1
  <2>3. /\ DOMAIN c.pages[c.doc] = 0 .. P - 1 /\ Current(c).at.pge = P
        /\ \A p \in Nat : \A n \in View(c)[p] : p <= P
        /\ EntryLeads(w, View(c))
    BY <1>9, <2>2 DEF Placed, P, Current
  <2> DEFINE old == c.pages[c.doc]
             new == r.pages[c.doc]
  <2>4. new = WithPage(old, P, text)
    <3> DEFINE page == WithPage(old, P, text)
    <3>1. r.pages = [c.pages EXCEPT ![c.doc] = page]
      BY <1>6, <1>7, <1>8, <1>14, <2>3
    <3> HIDE DEF page
    <3>2. new = page
      BY <1>9, <3>1
    <3> QED
      BY <3>2 DEF page
  <2>5. Positions(text) = Positions(c.output)
    <3>1. CASE Breaks
      BY <1>8, <3>1, UnsaidRecord DEF text, EndText
    <3>2. CASE ~ Breaks
      BY <3>2 DEF text, EndText
    <3> QED
      BY <3>1, <3>2
  <2>6. /\ DOMAIN new = 0 .. P /\ new[P] = text /\ \A p \in 0 .. P - 1 : new[p] = old[p]
    <3>1. DOMAIN new = {P} \cup 0 .. P - 1 /\ {P} \cup 0 .. P - 1 = 0 .. P
      BY <1>9, <2>3, <2>4 DEF WithPage
    <3>2. new[P] = text
      BY <2>4 DEF WithPage
    <3>3. \A p \in 0 .. P - 1 : p # P /\ p \in DOMAIN old
      BY <1>9, <2>3
    <3>4. \A p \in 0 .. P - 1 : new[p] = old[p]
      BY <2>4, <3>3 DEF WithPage
    <3> QED
      BY <3>1, <3>2, <3>4
  <2> HIDE DEF text, new, old
  <2>7. ASSUME NEW p \in 0 .. P
        PROVE  View(c)[p] = Positions(new[p])
    <3>1. p \in Nat /\ (p \in 0 .. P - 1 <=> p # P)
      BY <1>9
    <3>2. Current(c).out = <<>>
      BY <1>6 DEF Settled, Blank
    <3>3. View(c)[p] = (IF p \in DOMAIN old THEN Positions(old[p]) ELSE {})
                        \cup IF p = P THEN Positions(c.output) \cup Positions(Current(c).out) ELSE {}
      BY <3>1 DEF View, P, old
    <3>4. CASE p = P
      <4>1. p \notin DOMAIN old
        BY <2>3, <3>1, <3>4 DEF old
      <4> QED
        BY <2>5, <2>6, <3>2, <3>3, <3>4, <4>1, NoPositions
    <3>5. CASE p # P
      BY <2>3, <2>6, <3>1, <3>3, <3>5 DEF old
    <3> QED
      BY <3>4, <3>5
  <2>8. w.pge \in Nat /\ w.doc = c.doc
    BY <1>8, <1>9 DEF Entry, Clean
  <2>9. w.pos \in View(c)[w.pge] /\ \A p \in 0 .. w.pge - 1 : w.pos \notin View(c)[p]
    BY <2>3 DEF EntryLeads, First
  <2>10. w.pge \in 0 .. P
    BY <1>9, <2>3, <2>8, <2>9
  <2>11. ASSUME NEW p \in DOMAIN new, w.pos \in Positions(new[p])
         PROVE  p >= w.pge
    <3>1. p \in 0 .. P /\ w.pos \in View(c)[p]
      BY <2>6, <2>7, <2>11
    <3>2. p \notin 0 .. w.pge - 1
      BY <2>9, <3>1
    <3> QED
      BY <1>9, <2>8, <3>1, <3>2
  <2>12. w.pge \in DOMAIN new /\ w.pos \in Positions(new[w.pge])
    BY <2>6, <2>7, <2>9, <2>10
  <2> QED
    BY <2>8, <2>11, <2>12 DEF Leads, new
<1> QED
  BY <1>7, <1>10, <1>11, <1>12, <1>13, <1>14 DEF r

LEMMA PlacementEnd ==
    ASSUME Steady, Placement, Storage, FewWords, EndDocument
    PROVE  Placement'
<1> DEFINE r == Flushed(ix)
<1>1. Parsing /\ ix' = r /\ UNCHANGED <<usage, begun>>
  BY DEF EndDocument
<1>2. /\ ix \in Live /\ ix.doc # 0 /\ ix.doc = begun /\ ix.docDb = Storage /\ Clean(ix)
      /\ ix \in PlacedSet(ix) /\ ix.docDb \in {Storage, ~ Breaks}
  BY <1>1, WorkingIsClean, PlacedNow
<1>3. r.doc = 0
  BY <1>2, CleanFlushed
<1>4. /\ Unsaid(r.breaker)
      /\ \A d \in 1 .. MaxDoc : d # ix.doc => r.pages[d] = ix.pages[d]
      /\ \A w \in r.words : w \in ix.words \/ w.doc = ix.doc
      /\ \A w \in r.words : w \in ix.words \/ Leads(r.pages, w)
  BY <1>2, PlacedFlushed DEF FewWords
<1> HIDE DEF r
<1>5. /\ begun \in 0 .. MaxDoc /\ MaxDoc \in Nat
      /\ \A w \in ix.words : w.doc \in 1 .. begun /\ w.doc # ix.doc /\ Leads(ix.pages, w)
  BY BoundAssumption DEF Steady, Placement
<1>6. \A d \in 1 .. MaxDoc : d > begun => DOMAIN r.pages[d] = {}
  BY <1>2, <1>4, <1>5 DEF Placement
<1>7. ASSUME NEW w \in r.words
      PROVE  w.doc # 0 /\ Leads(r.pages, w)
  <2>1. CASE w \in ix.words
    <3>1. w.doc \in 1 .. MaxDoc /\ w.doc # ix.doc /\ Leads(ix.pages, w)
      BY <1>5, <2>1
    <3>2. r.pages[w.doc] = ix.pages[w.doc]
      BY <1>4, <3>1
    <3> QED
      BY <3>1, <3>2 DEF Leads
  <2>2. CASE w \notin ix.words
    BY <1>2, <1>4, <1>7, <2>2
  <2> QED
    BY <2>1, <2>2
<1> QED
  BY <1>1, <1>3, <1>4, <1>6, <1>7 DEF Placement

LEMMA PlacementStart ==
    ASSUME Steady, Placement, Storage, NEW d \in 1 .. MaxDoc, StartDocument(d)
    PROVE  Placement'
<1> DEFINE r == [AdornerStartDocument(ix, d) EXCEPT !.cache = {}, !.open = <<>>, !.closed = <<>>]
<1>1. /\ ix.doc = 0 /\ d = begun + 1 /\ begun' = d /\ usage' = usage /\ ix' = r
  BY DEF StartDocument, IsNext
<1>2. /\ ix \in Handler /\ Resting(ix) /\ begun \in 0 .. MaxDoc /\ MaxDoc \in Nat
      /\ \A w \in ix.words : w.doc \in 1 .. begun
  BY <1>1, BoundAssumption DEF Steady
<1>3. /\ r \in Live /\ r.cur = "main" /\ r.doc = d
      /\ r.dec["main"] = Cleared /\ r.dec["note"] = NoteStart
      /\ r.output = <<Declaration>>
      /\ r.breaker = IF Breaks THEN BreakerStartDocument(ix.breaker) ELSE ix.breaker
      /\ r.open = <<>> /\ r.closed = <<>> /\ r.cache = {}
      /\ r.pages = ix.pages /\ r.words = ix.words
  BY <1>2, StartedFacts
<1> HIDE DEF r
<1>4. /\ \A k \in 1 .. MaxDoc : k > begun => DOMAIN r.pages[k] = {}
      /\ Unsaid(ix.breaker) /\ ix.breaker \in RecordBreaker
      /\ \A w \in r.words : Leads(r.pages, w)
  BY <1>2, <1>3 DEF Placement, Handler
<1>5. Unsaid(r.breaker)
  BY <1>3, <1>4, UnsaidBegins
<1>6. Positions(<<Declaration>>) = {}
  BY DEF Positions, Declaration
<1>7. DOMAIN r.pages[d] = {} /\ 0 .. 0 - 1 = {}
  BY <1>1, <1>2, <1>4
<1>8. /\ r.dec["main"].at = [pge |-> 0, pos |-> 0] /\ r.dec["note"].at = [pge |-> 0, pos |-> NotePos]
      /\ \A k \in {"main", "note"} : /\ r.dec[k].wrdAt.pos = 0 /\ r.dec[k].isBreak
                                     /\ r.dec[k].wrd = <<>> /\ r.dec[k].out = <<>>
  BY <1>3, StartTypes DEF Nowhere, Blank, Cleared
<1>9. \A p \in Nat : View(r)[p] = {}
  <2>1. Current(r).out = <<>>
    BY <1>3, <1>8 DEF Current
  <2> QED
    BY <1>3, <1>6, <1>7, <2>1, NoPositions DEF View
<1>10. Placed(r)
  <2>1. Aligned(r.dec["main"], 0, View(r)) /\ Aligned(r.dec["note"], NotePos, View(r))
    BY <1>8 DEF Aligned
  <2>2. r.dec["main"].at.pge = 0 /\ r.dec["note"].at.pge = 0
    BY <1>8
  <2>3. DOMAIN r.pages[r.doc] = 0 .. r.dec["main"].at.pge - 1
    BY <1>3, <1>7, <2>2
  <2>4. DOMAIN r.open = {} /\ DOMAIN r.closed = {}
    BY <1>3
  <2> QED
    BY <1>3, <1>9, <2>1, <2>2, <2>3, <2>4 DEF Placed
<1>11. /\ \A k \in 1 .. MaxDoc : k > d => DOMAIN r.pages[k] = {}
       /\ \A w \in r.words : w.doc # r.doc
  BY <1>1, <1>2, <1>3, <1>4
<1> QED
  BY <1>1, <1>4, <1>5, <1>10, <1>11 DEF Placement

LEMMA PlacementFails ==
    ASSUME Steady, Placement, Storage, NEW d \in 1 .. MaxDoc, StartDocumentFails(d)
    PROVE  Placement'
<1> DEFINE q == AdornerReset(ix, d)
           r == Flushed(q)
<1>1. /\ ix.doc = 0 /\ d = begun + 1 /\ begun' = d /\ usage' = usage /\ Keeps /\ ix' = r
  BY DEF StartDocumentFails, IsNext
<1>2. /\ ix \in Handler /\ Resting(ix) /\ begun \in 0 .. MaxDoc /\ MaxDoc \in Nat /\ Breaks
      /\ \A w \in ix.words : w.doc \in 1 .. begun
  BY <1>1, BoundAssumption DEF Steady, Keeps, Breaks
<1>3. /\ q \in Live /\ q.cur = "main" /\ q.doc = d /\ q.docDb = ix.docDb
      /\ q.dec["main"] = Cleared /\ q.dec["note"] = NoteStart
      /\ q.stack = ix.stack /\ q.output = <<>> /\ q.pages = ix.pages
      /\ q.breaker = BreakerStartDocument(ix.breaker)
      /\ q.open = ix.open /\ q.closed = ix.closed /\ q.cache = ix.cache /\ q.words = ix.words
  BY <1>2, ResetFacts
<1> HIDE DEF q
<1>4. Clean(q) /\ q.doc # 0 /\ q.docDb = FALSE /\ q.closed = <<>> /\ q.cache = {}
  <2>1. Blank(NoteStart)
    BY StartTypes
  <2>2. \A i \in DOMAIN q.open : Dated(q.open[i])
    BY <1>2, <1>3 DEF Resting
  <2>3. q.closed = <<>> /\ q.cache = {} /\ q.docDb = FALSE /\ q.doc # 0
    BY <1>2, <1>3 DEF Resting
  <2> QED
    BY <1>3, <2>1, <2>2, <2>3 DEF Clean
<1>5. q.docDb \in {Storage, ~ Breaks}
  <2>1. (~ Breaks) = FALSE
    BY <1>2
  <2> QED
    BY <1>4, <2>1
<1>6. Unsaid(q.breaker)
  BY <1>2, <1>3, UnsaidBegins DEF Placement, Handler
<1>7. q \in PlacedSet(q)
  <2>1. q \in CleanSet(q)
    BY <1>3, <1>4 DEF CleanSet, Kept
  <2> QED
    BY <1>4, <1>6, <2>1 DEF PlacedSet
<1>8. Unsaid(r.breaker) /\ r.pages = q.pages /\ r.words = q.words
  BY <1>3, <1>4, <1>5, <1>7, PlacedFlushed
<1>9. r.doc = 0
  BY <1>3, <1>4, <1>5, CleanFlushed
<1> HIDE DEF r
<1>10. /\ \A k \in 1 .. MaxDoc : k > d => DOMAIN r.pages[k] = {}
       /\ \A w \in r.words : w.doc # 0 /\ Leads(r.pages, w)
  BY <1>1, <1>2, <1>3, <1>8 DEF Placement
<1> QED
  BY <1>1, <1>8, <1>9, <1>10 DEF Placement

LEMMA PlacementInit == Init => Placement
<1> SUFFICES ASSUME Init PROVE Placement
  OBVIOUS
<1>1. ix = NewHandler([d \in 1 .. MaxDoc |-> [x \in {} |-> <<>>]], {})
  BY DEF Init
<1>2. /\ ix.doc = 0 /\ ix.breaker = NewBreaker /\ ix.words = {}
      /\ ix.pages = [d \in 1 .. MaxDoc |-> [x \in {} |-> <<>>]]
  BY <1>1 DEF NewHandler
<1>3. \A d \in 1 .. MaxDoc : DOMAIN ix.pages[d] = {}
  BY <1>2
<1>4. ix.breaker.header = <<>> /\ ix.breaker.extra = <<>> /\ DOMAIN ix.breaker.kept = {}
  BY <1>2 DEF NewBreaker
<1>5. Unsaid(ix.breaker)
  BY <1>4, NoPositions DEF Unsaid
<1> QED
  BY <1>2, <1>3, <1>5 DEF Placement

\* Every step keeps them, as long as the words are few.
LEMMA PlacementNext ==
    ASSUME Steady, Placement, FewWords, [Next]_vars
    PROVE  Placement'
<1>1. CASE ~ Storage
  <2>1. usage' = usage
    BY DEF Next, StartDocument, StartDocumentFails, StartNode, EndNode, EndNodeLoops,
           Characters, EndDocument, vars
  <2> QED
    BY <1>1, <2>1 DEF Placement, Storage
<1>2. CASE Storage
  <2>1. CASE \E d \in 1 .. MaxDoc : StartDocument(d) \/ StartDocumentFails(d)
    BY <1>2, <2>1, PlacementStart, PlacementFails
  <2>2. CASE \E e \in Elem : StartNode(e)
    BY <1>2, <2>2, PlacementStartNode
  <2>3. CASE EndNode
    BY <1>2, <2>3, PlacementEndNode
  <2>4. CASE EndNodeLoops
    BY <1>2, <2>4, PlacementLoops
  <2>5. CASE \E c \in Chunk : Characters(c)
    BY <1>2, <2>5, PlacementCharacters
  <2>6. CASE EndDocument
    BY <1>2, <2>6, PlacementEnd
  <2>7. CASE UNCHANGED vars
    <3>1. UNCHANGED <<ix, usage, begun>>
      BY <2>7 DEF vars
    <3>2. Storage' = Storage
      BY <3>1 DEF Storage
    <3>3. Placed(ix)' = Placed(ix)
      BY <3>1
    <3> QED
      BY <3>1, <3>2, <3>3 DEF Placement, Few
  <2> QED
    BY <2>1, <2>2, <2>3, <2>4, <2>5, <2>6, <2>7 DEF Next
<1> QED
  BY <1>1, <1>2

\* A word that is stored leads to the page that shows it first.
LEMMA LeadingWords ==
    ASSUME NEW w, w.doc \in DOMAIN ix.pages, Leads(ix.pages, w)
    PROVE  /\ w.pge \in PagesShowing(w.doc, w.pos)
           /\ \A p \in PagesShowing(w.doc, w.pos) : p >= w.pge
<1>1. ASSUME NEW p \in DOMAIN ix.pages[w.doc]
      PROVE  p \in PagesShowing(w.doc, w.pos) <=> w.pos \in Positions(ix.pages[w.doc][p])
  BY DEF PagesShowing, Positions, Words
<1>2. PagesShowing(w.doc, w.pos) \subseteq DOMAIN ix.pages[w.doc]
  BY DEF PagesShowing
<1> QED
  BY <1>1, <1>2 DEF Leads

(***************************************************************************)
(* An entry of an index leads to the page where its position is first      *)
(* shown, provided that the text of no document has more words outside its *)
(* notes than there are positions before those of the notes.               *)
(***************************************************************************)
THEOREM EntriesHold == Spec /\ []FewWords => []EntriesLeadToTheirPage
<1>1. Steady /\ Placement => EntriesLeadToTheirPage
  <2> SUFFICES ASSUME Steady, Placement, Storage, NEW w \in ix.words
               PROVE  /\ w.pge \in PagesShowing(w.doc, w.pos)
                      /\ \A p \in PagesShowing(w.doc, w.pos) : p >= w.pge
    BY DEF EntriesLeadToTheirPage
  <2>1. w.doc \in 1 .. begun /\ begun \in 0 .. MaxDoc /\ MaxDoc \in Nat
    BY BoundAssumption DEF Steady
  <2>2. DOMAIN ix.pages = 1 .. MaxDoc
    BY DEF Steady, Handler
  <2>3. w.doc \in DOMAIN ix.pages /\ Leads(ix.pages, w)
    BY <2>1, <2>2 DEF Placement
  <2> QED
    BY <2>3, LeadingWords
<1>2. Steady /\ Placement /\ FewWords /\ [Next]_vars => (Steady /\ Placement)'
  BY SteadyNext, PlacementNext
<1>3. Init => Steady /\ Placement
  BY SteadyInit, PlacementInit
<1> QED
  BY <1>1, <1>2, <1>3, PTL DEF Spec

-----------------------------------------------------------------------------
(***************************************************************************)
(* The words that are shown.  A text tells of each word that it shows, by  *)
(* position and piece, and of each element around it.                      *)
(***************************************************************************)
Tales(t) ==
    UNION {{<<t[i][2], t[i][3], e>> : e \in Around(t, i)} : i \in {j \in DOMAIN t : t[j][1] = "w"}}

\* The entries of a document that the indexes of the element have for the piece.
Tells(words, doc, y) ==
    \A x \in Items[y[3]] : x.typ = "word" =>
      \E w \in words : /\ w.ndx = x.ndx /\ w.doc = doc /\ w.pos = y[1]
                       /\ \E k \in DOMAIN w.wrd : w.wrd[k] = y[2]

\* The node of the element has kept the word, if it keeps words.
HasHeard(m, y) ==
    /\ m.elem = y[3]
    /\ Has(m, "word") => \E w \in m.words : /\ w[2].pos = y[1]
                                            /\ \E k \in DOMAIN w[1] : w[1][k] = y[2]

\* The piece is part of the pending word, and the node of the element is going to
\* hear it.
Listens(m, y) == m.elem = y[3] /\ m.state # "new"

Pending(s, y) ==
    /\ y[1] # 0 /\ Current(s).wrdAt.pos = y[1]
    /\ \E k \in DOMAIN Current(s).wrd : Current(s).wrd[k] = y[2]

Nodes(s) == {s.open[i] : i \in DOMAIN s.open} \cup {s.closed[i] : i \in DOMAIN s.closed}

Known(s, y) ==
    \/ Tells(s.cache, s.doc, y)
    \/ \E m \in Nodes(s) : HasHeard(m, y) \/ (Pending(s, y) /\ Listens(m, y))

\* A decorator whose last word has the last position or none, and that gives no
\* piece of a word the position 0.
Even(d) == d.wrdAt.pos <= d.at.pos /\ (d.isBreak \/ d.at.pos # 0)

\* What the pages of the document tell so far.
Told(s) ==
    /\ \A k \in {"main", "note"} : Even(s.dec[k])
    /\ s.docDb /\ Storage =>
         /\ ~ FirstIsSpoilt(s) => \A y \in Tales(Shown(s)) : Known(s, y)
         /\ \A p \in DOMAIN s.pages[s.doc] : ~ SpoiltByHeader(s.doc, p) =>
              \A y \in Tales(s.pages[s.doc][p]) : Known(s, y)

(***************************************************************************)
(* The inductive invariant of the words shown.                             *)
(***************************************************************************)
Telling ==
    /\ Unsaid(ix.breaker)
    /\ ~ Storage => \A d \in 1 .. MaxDoc : DOMAIN ix.pages[d] = {}
    /\ \A d \in done : \A p \in DOMAIN ix.pages[d] : ~ SpoiltByHeader(d, p) =>
         \A y \in Tales(ix.pages[d][p]) : Tells(ix.words, d, y)
    /\ ix.doc # 0 => Told(ix)

-----------------------------------------------------------------------------
(***************************************************************************)
(* What texts tell.                                                        *)
(***************************************************************************)
\* Texts that go on tell the same of what they have in common.
LEMMA PrefixTells ==
    ASSUME NEW t \in Seq(Item), NEW u \in Seq(Item), Len(t) <= Len(u),
           \A i \in 1 .. Len(t) : u[i] = t[i]
    PROVE  \A i \in 1 .. Len(t) : Around(u, i) = Around(t, i)
<1>1. ASSUME NEW i \in 1 .. Len(t)
      PROVE  SubSeq(u, 1, i) = SubSeq(t, 1, i)
  <2>1. /\ SubSeq(t, 1, i) \in Seq(Item) /\ Len(SubSeq(t, 1, i)) = i
        /\ \A j \in 1 .. i : SubSeq(t, 1, i)[j] = t[j]
    OBVIOUS
  <2>2. /\ SubSeq(u, 1, i) \in Seq(Item) /\ Len(SubSeq(u, 1, i)) = i
        /\ \A j \in 1 .. i : SubSeq(u, 1, i)[j] = u[j]
    OBVIOUS
  <2>3. \A j \in 1 .. i : j \in 1 .. Len(t)
    OBVIOUS
  <2>4. \A j \in 1 .. i : SubSeq(u, 1, i)[j] = SubSeq(t, 1, i)[j]
    BY <2>1, <2>2, <2>3
  <2> QED
    BY <2>1, <2>2, <2>4, SeqEqual
<1> QED
  BY <1>1 DEF Around

\* A text without words tells nothing ...
LEMMA NoTales ==
    ASSUME NEW t, Positions(t) = {}
    PROVE  Tales(t) = {}
BY DEF Positions, Tales

\* ... not even at the end of another one.
LEMMA TalesJoin ==
    ASSUME NEW t \in Seq(Item), NEW u \in Seq(Item), Positions(u) = {}
    PROVE  Tales(t \o u) = Tales(t)
<1> DEFINE v == t \o u
<1>1. /\ DOMAIN t = 1 .. Len(t) /\ DOMAIN u = 1 .. Len(u) /\ Len(t) \in Nat /\ Len(u) \in Nat
      /\ v \in Seq(Item) /\ Len(v) = Len(t) + Len(u) /\ DOMAIN v = 1 .. Len(t) + Len(u)
      /\ \A i \in 1 .. Len(t) + Len(u) : v[i] = IF i <= Len(t) THEN t[i] ELSE u[i - Len(t)]
  BY ConcatProperties, LenProperties
<1> HIDE DEF v
<1>2. Len(t) <= Len(v) /\ \A i \in 1 .. Len(t) : i \in DOMAIN v /\ v[i] = t[i]
  BY <1>1
<1>3. \A i \in 1 .. Len(t) : Around(v, i) = Around(t, i)
  BY <1>1, <1>2, PrefixTells
<1>4. {j \in DOMAIN v : v[j][1] = "w"} = {j \in DOMAIN t : t[j][1] = "w"}
  <2>1. ASSUME NEW j \in DOMAIN v, v[j][1] = "w"
        PROVE  j \in DOMAIN t /\ t[j][1] = "w"
    <3>1. CASE j <= Len(t)
      BY <1>1, <1>2, <2>1, <3>1
    <3>2. CASE j > Len(t)
      <4>1. j - Len(t) \in DOMAIN u /\ u[j - Len(t)][1] = "w"
        BY <1>1, <2>1, <3>2
      <4> QED
        BY <4>1 DEF Positions
    <3> QED
      BY <1>1, <2>1, <3>1, <3>2
  <2> QED
    BY <1>1, <1>2, <2>1
<1>5. \A i \in {j \in DOMAIN t : t[j][1] = "w"} :
        {<<v[i][2], v[i][3], e>> : e \in Around(v, i)} = {<<t[i][2], t[i][3], e>> : e \in Around(t, i)}
  BY <1>1, <1>2, <1>3
<1> QED
  BY <1>4, <1>5 DEF Tales, v

\* A word at the end is inside of what is open there.
LEMMA TalesAppend ==
    ASSUME NEW t \in Seq(Item), NEW x \in Item
    PROVE  /\ x[1] # "w" => Tales(Append(t, x)) = Tales(t)
           /\ x[1] = "w" => Tales(Append(t, x)) =
                              Tales(t) \cup {<<x[2], x[3], e>> : e \in Range(Nesting(t))}
<1> DEFINE v == Append(t, x)
           n == Len(t)
           U(w, i) == {<<w[i][2], w[i][3], e>> : e \in Around(w, i)}
<1>1. /\ n \in Nat /\ DOMAIN t = 1 .. n /\ v \in Seq(Item) /\ Len(v) = n + 1 /\ DOMAIN v = 1 .. n + 1
      /\ v[n + 1] = x /\ \A i \in 1 .. n : i \in DOMAIN v /\ v[i] = t[i]
  OBVIOUS
<1>2. Nesting(v) = Tagged(Nesting(t), x)
  BY NestingAppend
<1> HIDE DEF v
<1>3. \A i \in 1 .. n : Around(v, i) = Around(t, i)
  BY <1>1, PrefixTells
<1>4. \A i \in 1 .. n : U(v, i) = U(t, i)
  BY <1>1, <1>3
<1>5. SubSeq(v, 1, n + 1) = v
  BY <1>1, SubSeqFull
<1>6. x[1] = "w" => U(v, n + 1) = {<<x[2], x[3], e>> : e \in Range(Nesting(t))}
  <2> SUFFICES ASSUME x[1] = "w" PROVE Around(v, n + 1) = Range(Nesting(t))
    BY <1>1
  <2>1. Nesting(v) = Nesting(t)
    BY <1>2 DEF Tagged
  <2> QED
    BY <1>5, <2>1 DEF Around
<1>7. Tales(v) = UNION {U(v, i) : i \in {j \in DOMAIN v : v[j][1] = "w"}}
      /\ Tales(t) = UNION {U(t, i) : i \in {j \in DOMAIN t : t[j][1] = "w"}}
  BY DEF Tales
<1> HIDE DEF U
<1>8. CASE x[1] # "w"
  <2>1. {j \in DOMAIN v : v[j][1] = "w"} = {j \in DOMAIN t : t[j][1] = "w"}
    BY <1>1, <1>8
  <2>2. Tales(v) = Tales(t)
    BY <1>1, <1>4, <1>7, <2>1
  <2> QED
    BY <1>8, <2>2 DEF v
<1>9. CASE x[1] = "w"
  <2>1. {j \in DOMAIN v : v[j][1] = "w"} = {j \in DOMAIN t : t[j][1] = "w"} \cup {n + 1}
    BY <1>1, <1>9
  <2>2. Tales(v) = Tales(t) \cup U(v, n + 1)
    BY <1>1, <1>4, <1>7, <2>1
  <2> QED
    BY <1>6, <1>9, <2>2 DEF v
<1> QED
  BY <1>8, <1>9

-----------------------------------------------------------------------------
(***************************************************************************)
(* What is told stays known.                                               *)
(***************************************************************************)
LEMMA TellsMore ==
    ASSUME NEW words, NEW more, words \subseteq more, NEW doc, NEW y, Tells(words, doc, y)
    PROVE  Tells(more, doc, y)
BY DEF Tells

\* A node that hears the pending word knows it then, and keeps what it knew.
LEMMA HeardTells ==
    ASSUME Storage, NEW s \in Live, NEW m \in Node, NEW y,
           HasHeard(m, y) \/ (Pending(s, y) /\ Listens(m, y))
    PROVE  HasHeard(Heard(s, m), y)
<1> DEFINE c == Current(s)
           n == Heard(s, m)
<1>1. c \in Dec /\ n \in Node /\ n.elem = m.elem /\ c.wrd \in Seq(Piece)
  BY CurrentType, HeardType DEF Dec
<1>2. Has(n, "word") <=> Has(m, "word")
  BY <1>1 DEF Has
<1>3. m.words \subseteq n.words
  <2>1. CASE c.wrd = <<>> \/ m.state = "new" \/ c.wrdAt.pos = 0
    BY <2>1 DEF Heard, Hears
  <2>2. CASE c.wrd # <<>> /\ m.state # "new" /\ c.wrdAt.pos # 0
    <3>1. n.words = IF Has(m, "word") THEN m.words \cup {<<c.wrd, c.wrdAt>>} ELSE m.words
      BY <2>2 DEF Heard, Hears, Node
    <3> QED
      BY <3>1
  <2> QED
    BY <2>1, <2>2
<1>4. CASE HasHeard(m, y)
  BY <1>1, <1>2, <1>3, <1>4 DEF HasHeard
<1>5. CASE Pending(s, y) /\ Listens(m, y)
  <2> SUFFICES ASSUME Has(n, "word")
               PROVE  \E w \in n.words : /\ w[2].pos = y[1]
                                         /\ \E k \in DOMAIN w[1] : w[1][k] = y[2]
    BY <1>1, <1>5 DEF HasHeard, Listens
  <2>1. c.wrdAt.pos # 0 /\ c.wrdAt.pos = y[1] /\ \E k \in DOMAIN c.wrd : c.wrd[k] = y[2]
    BY <1>5 DEF Pending
  <2>2. c.wrd # <<>> /\ m.state # "new"
    BY <1>5, <2>1 DEF Listens
  <2>3. n.words = m.words \cup {<<c.wrd, c.wrdAt>>}
    BY <1>2, <2>1, <2>2 DEF Heard, Hears, Node
  <2> DEFINE w == <<c.wrd, c.wrdAt>>
  <2>4. w \in n.words /\ w[1] = c.wrd /\ w[2] = c.wrdAt
    BY <2>3
  <2> HIDE DEF w, n, c
  <2> QED
    BY <2>1, <2>4
<1> QED
  BY <1>4, <1>5

\* A closed node that is stored passes on what it knows.
LEMMA StoredTells ==
    ASSUME NEW doc, NEW m, NEW y, HasHeard(m, y)
    PROVE  Tells(NodeEntries(doc, m), doc, y)
<1> SUFFICES ASSUME NEW x \in Items[y[3]], x.typ = "word"
             PROVE  \E w \in NodeEntries(doc, m) :
                       /\ w.ndx = x.ndx /\ w.doc = doc /\ w.pos = y[1]
                       /\ \E k \in DOMAIN w.wrd : w.wrd[k] = y[2]
  BY DEF Tells
<1>1. m.elem = y[3] /\ Has(m, "word")
  BY DEF HasHeard, Has
<1>2. PICK w \in m.words : w[2].pos = y[1] /\ \E k \in DOMAIN w[1] : w[1][k] = y[2]
  BY <1>1 DEF HasHeard
<1> DEFINE v == Indexed(x.ndx, w[1], doc, w[2])
<1>3. v \in NodeEntries(doc, m)
  <2>1. x.ndx \in {i.ndx : i \in {j \in Items[m.elem] : j.typ = "word"}}
    BY <1>1
  <2> DEFINE A == {Indexed(z, u[1], doc, u[2]) :
                     z \in {i.ndx : i \in {j \in Items[m.elem] : j.typ = "word"}}, u \in m.words}
             B == IF Trimmed(m.text) # <<>> /\ m.start.pos # 0 /\ m.end.pos # 0
                  THEN {Indexed(z, Trimmed(m.text), doc, m.start) :
                          z \in {i.ndx : i \in {j \in Items[m.elem] : j.typ = "field"}}}
                  ELSE {}
  <2>2. NodeEntries(doc, m) = A \cup B
    BY DEF NodeEntries
  <2>3. v \in A
    BY <1>2, <2>1
  <2> HIDE DEF v, A, B
  <2> QED
    BY <2>2, <2>3
<1>4. v.ndx = x.ndx /\ v.doc = doc /\ v.pos = w[2].pos /\ v.wrd = w[1]
  BY DEF Indexed
<1> HIDE DEF v
<1> QED
  BY <1>2, <1>3, <1>4

\* When the pending word is indexed, what was told is known without it.
LEMMA KnownHeard ==
    ASSUME Storage, NEW s \in Live, NEW y, Known(s, y)
    PROVE  \/ Tells(s.cache \cup NewEntries(s), s.doc, y)
           \/ \E i \in DOMAIN s.open : HasHeard(Heard(s, s.open[i]), y)
<1>1. s.open \in Seq(Node) /\ s.closed \in Seq(Node)
  BY DEF Live, Handler
<1>2. CASE Tells(s.cache, s.doc, y)
  BY <1>2, TellsMore
<1>3. ASSUME NEW i \in DOMAIN s.open,
             HasHeard(s.open[i], y) \/ (Pending(s, y) /\ Listens(s.open[i], y))
      PROVE  HasHeard(Heard(s, s.open[i]), y)
  BY <1>1, <1>3, HeardTells
<1>4. ASSUME NEW i \in DOMAIN s.closed,
             HasHeard(s.closed[i], y) \/ (Pending(s, y) /\ Listens(s.closed[i], y))
      PROVE  Tells(s.cache \cup NewEntries(s), s.doc, y)
  <2> DEFINE n == Heard(s, s.closed[i])
             e == NodeEntries(s.doc, n)
  <2>1. HasHeard(n, y)
    BY <1>1, <1>4, HeardTells
  <2>2. Tells(e, s.doc, y)
    BY <2>1, StoredTells
  <2>3. e \subseteq NewEntries(s)
    BY DEF NewEntries
  <2> HIDE DEF e
  <2>4. e \subseteq s.cache \cup NewEntries(s)
    BY <2>3
  <2> QED
    BY <2>2, <2>4, TellsMore
<1> QED
  BY <1>2, <1>3, <1>4 DEF Known, Nodes

LEMMA KnownIndexWord ==
    ASSUME Storage, NEW s \in Live, NEW y, Known(s, y)
    PROVE  Known(IndexWord(s), y)
<1> DEFINE q == IndexWord(s)
<1>1. /\ q.doc = s.doc /\ q.cache = s.cache \cup NewEntries(s)
      /\ q.open = [i \in DOMAIN s.open |-> Heard(s, s.open[i])]
  BY IndexWordFacts DEF Alike
<1> HIDE DEF q
<1>2. CASE Tells(s.cache \cup NewEntries(s), s.doc, y)
  BY <1>1, <1>2 DEF Known, q
<1>3. ASSUME NEW i \in DOMAIN s.open, HasHeard(Heard(s, s.open[i]), y)
      PROVE  Known(q, y)
  <2>1. q.open[i] \in Nodes(q) /\ HasHeard(q.open[i], y)
    BY <1>1, <1>3 DEF Nodes
  <2> QED
    BY <2>1 DEF Known
<1> QED
  BY <1>2, <1>3, KnownHeard DEF q

\* Nothing is lost as long as the nodes, the pending word and the cache stay.
LEMMA KnownStays ==
    ASSUME NEW s, NEW q, NEW y, Known(s, y), q.doc = s.doc, s.cache \subseteq q.cache,
           Pending(s, y) => Pending(q, y),
           \A m \in Nodes(s) : \E n \in Nodes(q) :
             /\ n.elem = m.elem /\ n.words = m.words
             /\ m.state # "new" => n.state # "new"
    PROVE  Known(q, y)
<1>1. CASE Tells(s.cache, s.doc, y)
  BY <1>1, TellsMore DEF Known
<1>2. ASSUME NEW m \in Nodes(s), HasHeard(m, y) \/ (Pending(s, y) /\ Listens(m, y))
      PROVE  Known(q, y)
  <2>1. PICK n \in Nodes(q) : /\ n.elem = m.elem /\ n.words = m.words
                              /\ m.state # "new" => n.state # "new"
    OBVIOUS
  <2>2. HasHeard(n, y) \/ (Pending(q, y) /\ Listens(n, y))
    BY <1>2, <2>1 DEF HasHeard, Has, Listens
  <2> QED
    BY <2>2 DEF Known
<1> QED
  BY <1>1, <1>2 DEF Known

\* A handler that tells of its document only what is known.
ToldSet(s, open, path) ==
    {r \in PagedSet(s, open, path) :
        /\ Unsaid(r.breaker) /\ Told(r)
        /\ \A d \in 1 .. MaxDoc : d # s.doc => r.pages[d] = s.pages[d]
        /\ ~ r.docDb => r.pages = s.pages}

-----------------------------------------------------------------------------
(***************************************************************************)
(* Decorating tells nothing that is not known.                             *)
(***************************************************************************)
LEMMA ToldText ==
    ASSUME NEW s, NEW open, NEW path, NEW r \in ToldSet(s, open, path),
           NEW q \in PagedSet(s, open, path), Alike(r, q),
           Current(q).at.pge = Current(r).at.pge, Even(Current(q)),
           Storage => \A y : Known(r, y) => Known(q, y),
           Storage /\ GoodText(Shown(r), open) =>
             \A y \in Tales(Shown(q)) : y \in Tales(Shown(r)) \/ Known(q, y)
    PROVE  q \in ToldSet(s, open, path)
<1>1. /\ Paged(r, open, path) /\ Told(r) /\ r \in Live /\ q \in Live
      /\ r.cur \in {"main", "note"}
  BY CurrentType DEF ToldSet, PagedSet, CleanSet
<1>2. /\ q.breaker = r.breaker /\ q.pages = r.pages /\ q.docDb = r.docDb /\ q.doc = r.doc
      /\ q.cur = r.cur /\ \A k \in {"main", "note"} : k # r.cur => q.dec[k] = r.dec[k]
  BY DEF Alike
<1>3. /\ \A k \in {"main", "note"} : Even(q.dec[k])
      /\ q.dec["main"].at.pge = r.dec["main"].at.pge
  BY <1>1, <1>2 DEF Told, Current
<1>4. FirstIsSpoilt(q) <=> FirstIsSpoilt(r)
  BY <1>2, <1>3 DEF FirstIsSpoilt
<1>5. ASSUME q.docDb, Storage, ~ FirstIsSpoilt(q), NEW y \in Tales(Shown(q))
      PROVE  Known(q, y)
  <2>1. GoodText(Shown(r), open) /\ \A z \in Tales(Shown(r)) : Known(r, z)
    BY <1>1, <1>2, <1>4, <1>5 DEF Paged, Told
  <2> QED
    BY <1>5, <2>1
<1>6. ASSUME q.docDb, Storage, NEW p \in DOMAIN q.pages[q.doc], ~ SpoiltByHeader(q.doc, p),
             NEW y \in Tales(q.pages[q.doc][p])
      PROVE  Known(q, y)
  BY <1>1, <1>2, <1>6 DEF Told
<1>7. Told(q)
  BY <1>3, <1>5, <1>6 DEF Told
<1> QED
  BY <1>2, <1>7 DEF ToldSet

\* What moves no word and no node.
LEMMA ToldMoves ==
    ASSUME NEW s, NEW open, NEW path, NEW r \in ToldSet(s, open, path),
           NEW q \in PagedSet(s, open, path), NEW d, Current(q) = d, Alike(r, q),
           d.at = Current(r).at, d.wrdAt = Current(r).wrdAt, d.wrd = Current(r).wrd,
           Current(r).isBreak => d.isBreak,
           Storage => Tales(Shown(q)) = Tales(Shown(r)),
           q.open = r.open, q.closed = r.closed, q.cache = r.cache
    PROVE  q \in ToldSet(s, open, path)
<1>1. Told(r) /\ r \in Live /\ r.cur \in {"main", "note"}
  BY CurrentType DEF ToldSet, PagedSet, CleanSet
<1>2. Even(Current(r))
  BY <1>1 DEF Told, Current
<1>3. Even(Current(q))
  BY <1>2 DEF Even
<1>4. Nodes(q) = Nodes(r)
  BY DEF Nodes
<1>5. ASSUME NEW y, Known(r, y) PROVE Known(q, y)
  <2>1. Pending(r, y) => Pending(q, y)
    BY DEF Pending
  <2>2. \A m \in Nodes(r) : \E n \in Nodes(q) :
             /\ n.elem = m.elem /\ n.words = m.words
             /\ m.state # "new" => n.state # "new"
    BY <1>4
  <2>3. q.doc = r.doc /\ r.cache \subseteq q.cache
    BY DEF Alike
  <2> QED
    BY <1>5, <2>1, <2>2, <2>3, KnownStays
<1>6. Current(q).at.pge = Current(r).at.pge
  OBVIOUS
<1> QED
  BY <1>3, <1>5, <1>6, ToldText

\* A space tells nothing.
LEMMA ToldSpace ==
    ASSUME NEW s, NEW open \in Seq(Elem), NEW path, NEW r \in ToldSet(s, open, path), NEW t \in Spaces
    PROVE  DecorateToken(r, t) \in ToldSet(s, open, path)
<1> DEFINE q == DecorateToken(r, t)
           c == Current(r)
           d == WithSpace(c, t)
<1>1. r \in PagedSet(s, open, path) /\ r \in Live /\ c \in Dec
  BY CurrentType DEF ToldSet, PagedSet, CleanSet
<1>2. q \in PagedSet(s, open, path)
  BY <1>1, PagedIsTextClosed DEF TextClosed, Text
<1>3. /\ q \in Live /\ Current(q) = d /\ Alike(r, q) /\ q.output = r.output /\ q.open = r.open
      /\ q.closed = r.closed /\ q.cache = r.cache
  BY <1>1, SpaceFacts
<1>4. /\ d.at = c.at /\ d.wrdAt = c.wrdAt /\ d.wrd = c.wrd /\ d.isBreak
      /\ Storage => d.out = Append(c.out, <<"text", t>>)
  BY <1>1 DEF Dec, WithSpace
<1> HIDE DEF q, d
<1>5. Storage => Tales(Shown(q)) = Tales(Shown(r))
  <2> SUFFICES ASSUME Storage PROVE Tales(Shown(q)) = Tales(Shown(r))
    OBVIOUS
  <2> DEFINE x == <<"text", t>>
  <2>1. x \in Item /\ x[1] # "w"
    BY DEF Item, Text
  <2> HIDE DEF x
  <2>2. Shown(q) = Append(Shown(r), x)
    BY <1>1, <1>3, <1>4, <2>1, ShownGrows DEF Alike, x
  <2>3. Shown(r) \in Seq(Item)
    BY <1>1, ShownType
  <2> QED
    BY <2>1, <2>2, <2>3, TalesAppend
<1>6. q \in ToldSet(s, open, path)
  BY <1>2, <1>3, <1>4, <1>5, ToldMoves
<1> QED
  BY <1>6 DEF q

\* Moving the output of a decorator shows the same.
LEMMA MovedShown ==
    ASSUME Storage, NEW r \in Live
    PROVE  Shown(Moved(r)) = Shown(r)
<1> DEFINE q == Moved(r)
           d == [Current(r) EXCEPT !.out = <<>>]
           h == r.breaker.header
           t == r.output
           o == Current(r).out
<1>1. /\ Current(q) = d /\ Alike(r, q) /\ q.output = t \o o
  BY MovedFacts
<1>2. d.out = <<>>
  BY CurrentType DEF Dec
<1>3. h \in Seq(Item) /\ t \in Seq(Item) /\ o \in Seq(Item)
  BY ShownType
<1> HIDE DEF q, d
<1>4. Shown(q) = (h \o (t \o o)) \o <<>> /\ Shown(r) = (h \o t) \o o
  BY <1>1, <1>2 DEF Shown, Alike
<1> HIDE DEF h, t, o
<1>5. h \o (t \o o) \in Seq(Item)
  BY <1>3, TextsJoin
<1>6. (h \o (t \o o)) \o <<>> = h \o (t \o o)
  BY <1>5, TextsJoin
<1>7. (h \o t) \o o = h \o (t \o o)
  BY <1>3, TextsJoin
<1> QED
  BY <1>4, <1>6, <1>7 DEF q

LEMMA ToldEmptied ==
    ASSUME NEW s, NEW open \in Seq(Elem), NEW path, NEW r \in ToldSet(s, open, path)
    PROVE  Emptied(r) \in ToldSet(s, open, path) /\ Moved(r) \in ToldSet(s, open, path)
<1>1. r \in PagedSet(s, open, path) /\ r \in Live /\ Current(r) \in Dec
  BY CurrentType DEF ToldSet, PagedSet, CleanSet
<1>2. Emptied(r) \in ToldSet(s, open, path)
  <2> DEFINE q == Emptied(r)
             d == [Current(r) EXCEPT !.buf = <<>>]
  <2>1. q \in PagedSet(s, open, path)
    BY <1>1, PagedIsTextClosed DEF TextClosed
  <2>2. /\ Current(q) = d /\ Alike(r, q) /\ q.output = r.output
        /\ q.open = r.open /\ q.closed = r.closed /\ q.cache = r.cache
    BY <1>1, EmptiedFacts
  <2>3. /\ d.at = Current(r).at /\ d.wrdAt = Current(r).wrdAt /\ d.wrd = Current(r).wrd
        /\ d.isBreak = Current(r).isBreak /\ d.out = Current(r).out
    BY <1>1 DEF Dec
  <2> HIDE DEF q, d
  <2>4. Shown(q) = Shown(r)
    BY <2>2, <2>3 DEF Shown, Alike
  <2>5. q \in ToldSet(s, open, path)
    BY <2>1, <2>2, <2>3, <2>4, ToldMoves
  <2> QED
    BY <2>5 DEF q
<1>3. Moved(r) \in ToldSet(s, open, path)
  <2> DEFINE q == Moved(r)
             d == [Current(r) EXCEPT !.out = <<>>]
  <2>1. q \in PagedSet(s, open, path)
    BY <1>1, PagedIsTextClosed DEF TextClosed
  <2>2. /\ Current(q) = d /\ Alike(r, q)
        /\ q.open = r.open /\ q.closed = r.closed /\ q.cache = r.cache
    BY <1>1, MovedFacts
  <2>3. /\ d.at = Current(r).at /\ d.wrdAt = Current(r).wrdAt /\ d.wrd = Current(r).wrd
        /\ d.isBreak = Current(r).isBreak
    BY <1>1 DEF Dec
  <2>4. Storage => Shown(q) = Shown(r)
    BY <1>1, MovedShown
  <2> HIDE DEF q, d
  <2>5. q \in ToldSet(s, open, path)
    BY <2>1, <2>2, <2>3, <2>4, ToldMoves
  <2> QED
    BY <2>5 DEF q
<1> QED
  BY <1>2, <1>3

LEMMA ToldIndexWord ==
    ASSUME NEW s, NEW open \in Seq(Elem), NEW path, NEW r \in ToldSet(s, open, path)
    PROVE  IndexWord(r) \in ToldSet(s, open, path)
<1> DEFINE q == IndexWord(r)
           d == [Current(r) EXCEPT !.wrd = <<>>]
<1>1. /\ r \in PagedSet(s, open, path) /\ r \in Live /\ Current(r) \in Dec
      /\ Told(r) /\ r.cur \in {"main", "note"}
  BY CurrentType DEF ToldSet, PagedSet, CleanSet
<1>2. q \in PagedSet(s, open, path)
  BY <1>1, PagedIsTextClosed DEF TextClosed
<1>3. Current(q) = d /\ Alike(r, q) /\ q.output = r.output
  BY <1>1, IndexWordFacts
<1>4. /\ d.at = Current(r).at /\ d.wrdAt = Current(r).wrdAt
      /\ d.isBreak = Current(r).isBreak /\ d.out = Current(r).out
  BY <1>1 DEF Dec
<1>5. Storage => \A y : Known(r, y) => Known(q, y)
  BY <1>1, KnownIndexWord
<1> HIDE DEF q, d
<1>6. Even(Current(r))
  BY <1>1 DEF Told, Current
<1>7. Even(Current(q)) /\ Current(q).at.pge = Current(r).at.pge
  BY <1>3, <1>4, <1>6 DEF Even
<1>8. Shown(q) = Shown(r)
  BY <1>3, <1>4 DEF Shown, Alike
<1>9. q \in ToldSet(s, open, path)
  BY <1>2, <1>3, <1>5, <1>7, <1>8, ToldText
<1> QED
  BY <1>9 DEF q

\* The elements of a list have nodes.
Held(s, open) == \A e \in Range(open) : \E i \in DOMAIN s.open : s.open[i].elem = e

\* The piece is pending afterwards, at the position that it is shown at.
LEMMA PieceIsPending ==
    ASSUME NEW c \in Dec, NEW p \in Piece, Even(c)
    PROVE  LET d == Started(c)
               e == WithWord(d, p)
           IN  /\ Even(e) /\ e.at.pge = c.at.pge
               /\ e.wrdAt.pos = d.at.pos /\ e.wrdAt.pos # 0
               /\ \E k \in DOMAIN e.wrd : e.wrd[k] = p
               /\ ~ Indexes(d) /\ c.wrdAt.pos # 0 =>
                    /\ e.wrdAt.pos = c.wrdAt.pos
                    /\ \A k \in DOMAIN c.wrd : k \in DOMAIN e.wrd /\ e.wrd[k] = c.wrd[k]
<1> DEFINE d == Started(c)
           e == WithWord(d, p)
           at == [c.at EXCEPT !.pos = @ + 1]
<1>1. c.at \in Place /\ c.wrdAt \in Place /\ at \in Place /\ at.pge = c.at.pge /\ at.pos = c.at.pos + 1
      /\ c.at.pos \in Nat /\ c.wrdAt.pos \in Nat /\ c.wrd \in Seq(Piece)
  BY DEF Dec, Place
<1>2. d = IF c.isBreak THEN [c EXCEPT !.isBreak = FALSE, !.at = at] ELSE c
  BY DEF Started, Dec
<1> HIDE DEF at, d
<1>3. /\ d \in Dec /\ d.wrd = c.wrd /\ d.wrdAt = c.wrdAt
      /\ d.at = IF c.isBreak THEN at ELSE c.at
  BY <1>1, <1>2 DEF Dec
<1>4. d.at.pos \in Nat /\ d.at.pos # 0 /\ d.at.pos >= c.wrdAt.pos /\ d.at.pge = c.at.pge
  BY <1>1, <1>3 DEF Even
<1> DEFINE old == IF Indexes(d) THEN <<>> ELSE c.wrd
<1>5. /\ e.at = d.at /\ e.wrdAt = IF d.at.pos > c.wrdAt.pos THEN d.at ELSE c.wrdAt
      /\ e.wrd = Append(old, p)
  BY <1>3 DEF WithWord, Dec
<1>6. old \in Seq(Piece)
  BY <1>1, EmptySeq
<1> HIDE DEF e, old
<1>7. e.wrdAt.pos = d.at.pos /\ e.at.pos = d.at.pos /\ e.at.pge = c.at.pge
  BY <1>1, <1>4, <1>5
<1>8. /\ Len(old) + 1 \in DOMAIN e.wrd /\ e.wrd[Len(old) + 1] = p
      /\ \A k \in DOMAIN old : k \in DOMAIN e.wrd /\ e.wrd[k] = old[k]
  BY <1>5, <1>6
<1>9. Even(e)
  BY <1>4, <1>7 DEF Even
<1>10. ASSUME ~ Indexes(d), c.wrdAt.pos # 0
       PROVE  e.wrdAt.pos = c.wrdAt.pos /\ old = c.wrd
  <2>1. old = c.wrd
    BY <1>10 DEF old
  <2>2. d.at.pos = c.wrdAt.pos
    BY <1>1, <1>3, <1>4, <1>10 DEF Indexes
  <2> QED
    BY <1>7, <2>1, <2>2
<1> QED
  BY <1>4, <1>7, <1>8, <1>9, <1>10 DEF d, e

\* A piece of a word spoils nothing that is known ...
LEMMA KnownPiece ==
    ASSUME Storage, NEW s \in Live, Even(Current(s)), NEW p \in Piece, NEW y, Known(s, y)
    PROVE  Known(DecorateToken(s, p), y)
<1> DEFINE q == DecorateToken(s, p)
           c == Current(s)
           d == Started(c)
           e == WithWord(d, p)
           Old(i) == IF Indexes(d) THEN Heard(s, s.open[i]) ELSE s.open[i]
<1>1. c \in Dec /\ s.open \in Seq(Node)
  BY CurrentType DEF Live, Handler
<1>2. /\ q \in Live /\ Current(q) = e /\ q.doc = s.doc
      /\ q.open = [i \in DOMAIN s.open |-> [Old(i) EXCEPT !.state = "active"]]
      /\ q.closed = IF Indexes(d) THEN <<>> ELSE s.closed
      /\ q.cache = s.cache \cup IF Indexes(d) THEN NewEntries(s) ELSE {}
  BY PieceFacts DEF Alike
<1>3. /\ \E k \in DOMAIN e.wrd : e.wrd[k] = p
      /\ ~ Indexes(d) /\ c.wrdAt.pos # 0 =>
                    /\ e.wrdAt.pos = c.wrdAt.pos
                    /\ \A k \in DOMAIN c.wrd : k \in DOMAIN e.wrd /\ e.wrd[k] = c.wrd[k]
  BY <1>1, PieceIsPending
<1> HIDE DEF q, d, e
<1>4. ASSUME NEW i \in DOMAIN s.open
      PROVE  /\ q.open[i] \in Nodes(q) /\ q.open[i].elem = Old(i).elem
             /\ q.open[i].words = Old(i).words /\ q.open[i].state = "active"
  <2>1. s.open[i] \in Node /\ Heard(s, s.open[i]) \in Node
    BY <1>1, HeardType
  <2>2. Old(i) \in Node
    BY <2>1
  <2>3. i \in DOMAIN q.open /\ q.open[i] = [Old(i) EXCEPT !.state = "active"]
    BY <1>2
  <2> HIDE DEF Old
  <2> QED
    BY <2>2, <2>3 DEF Nodes, Node
<1>5. CASE Indexes(d)
  <2>1. CASE Tells(s.cache \cup NewEntries(s), s.doc, y)
    BY <1>2, <1>5, <2>1 DEF Known, q
  <2>2. ASSUME NEW i \in DOMAIN s.open, HasHeard(Heard(s, s.open[i]), y)
        PROVE  Known(q, y)
    <3>1. Old(i) = Heard(s, s.open[i])
      BY <1>5
    <3>2. HasHeard(q.open[i], y) /\ q.open[i] \in Nodes(q)
      BY <1>4, <2>2, <3>1 DEF HasHeard, Has
    <3> QED
      BY <3>2 DEF Known
  <2> QED
    BY <2>1, <2>2, KnownHeard DEF q
<1>6. CASE ~ Indexes(d)
  <2>1. Pending(s, y) => Pending(q, y)
    BY <1>2, <1>3, <1>6 DEF Pending
  <2>2. s.cache \subseteq q.cache
    BY <1>2
  <2>3. ASSUME NEW m \in Nodes(s)
        PROVE  \E n \in Nodes(q) : /\ n.elem = m.elem /\ n.words = m.words
                                   /\ m.state # "new" => n.state # "new"
    <3>1. ASSUME NEW i \in DOMAIN s.open, m = s.open[i]
          PROVE  \E n \in Nodes(q) : /\ n.elem = m.elem /\ n.words = m.words
                                     /\ m.state # "new" => n.state # "new"
      <4>1. Old(i) = m
        BY <1>6, <3>1
      <4>2. /\ q.open[i] \in Nodes(q) /\ q.open[i].elem = m.elem
            /\ q.open[i].words = m.words /\ q.open[i].state # "new"
        BY <1>4, <4>1
      <4> QED
        BY <4>2
    <3>2. ASSUME NEW i \in DOMAIN s.closed, m = s.closed[i]
          PROVE  m \in Nodes(q)
      BY <1>2, <1>6, <3>2 DEF Nodes
    <3> QED
      BY <3>1, <3>2 DEF Nodes
  <2>4. Known(q, y)
    BY <1>2, <2>1, <2>2, <2>3, KnownStays
  <2> QED
    BY <2>4 DEF q
<1> QED
  BY <1>5, <1>6

\* ... and all the nodes that are open are going to hear it.
LEMMA PieceKnown ==
    ASSUME NEW s \in Live, Even(Current(s)), NEW p \in Piece, NEW i \in DOMAIN s.open
    PROVE  Known(DecorateToken(s, p), <<Started(Current(s)).at.pos, p, s.open[i].elem>>)
<1> DEFINE q == DecorateToken(s, p)
           c == Current(s)
           d == Started(c)
           e == WithWord(d, p)
           m == IF Indexes(d) THEN Heard(s, s.open[i]) ELSE s.open[i]
           y == <<d.at.pos, p, s.open[i].elem>>
<1>1. c \in Dec /\ s.open \in Seq(Node)
  BY CurrentType DEF Live, Handler
<1>2. /\ q \in Live /\ Current(q) = e
      /\ i \in DOMAIN q.open /\ q.open[i] = [m EXCEPT !.state = "active"]
  <2>1. /\ q \in Live /\ Current(q) = e
        /\ q.open = [j \in DOMAIN s.open |->
              [IF Indexes(d) THEN Heard(s, s.open[j]) ELSE s.open[j] EXCEPT !.state = "active"]]
    BY PieceFacts
  <2> HIDE DEF q, d, e
  <2> QED
    BY <2>1
<1>3. e.wrdAt.pos = d.at.pos /\ e.wrdAt.pos # 0 /\ \E k \in DOMAIN e.wrd : e.wrd[k] = p
  BY <1>1, PieceIsPending
<1>4. m \in Node /\ m.elem = s.open[i].elem
  BY <1>1, HeardType
<1>5. y[1] = d.at.pos /\ y[2] = p /\ y[3] = s.open[i].elem
  OBVIOUS
<1> HIDE DEF q, d, e, m, y
<1>6. q.open[i] \in Nodes(q) /\ Listens(q.open[i], y)
  BY <1>2, <1>4, <1>5 DEF Nodes, Listens, Node
<1>7. Pending(q, y)
  BY <1>2, <1>3, <1>5 DEF Pending
<1>8. Known(q, y)
  BY <1>6, <1>7 DEF Known
<1> QED
  BY <1>8 DEF q, y, d, c

LEMMA ToldPiece ==
    ASSUME NEW s, NEW open \in Seq(Elem), Held(s, open), NEW path,
           NEW r \in ToldSet(s, open, path), NEW p \in Piece
    PROVE  DecorateToken(r, p) \in ToldSet(s, open, path)
<1> DEFINE q == DecorateToken(r, p)
           c == Current(r)
           d == Started(c)
           e == WithWord(d, p)
           x == <<"w", d.at.pos, p>>
<1>1. /\ r \in PagedSet(s, open, path) /\ r \in Live /\ c \in Dec
      /\ Told(r) /\ r.cur \in {"main", "note"} /\ Elems(r.open) = Elems(s.open)
  BY CurrentType DEF ToldSet, PagedSet, CleanSet, Kept
<1>2. q \in PagedSet(s, open, path)
  BY <1>1, PagedIsTextClosed DEF TextClosed, Text
<1>3. q \in Live /\ Current(q) = e /\ Alike(r, q) /\ q.output = r.output
  BY <1>1, PieceFacts
<1>4. Even(c)
  BY <1>1 DEF Told, Current
<1>5. Even(e) /\ e.at.pge = c.at.pge
  BY <1>1, <1>4, PieceIsPending
<1>6. Storage => \A y : Known(r, y) => Known(q, y)
  BY <1>1, <1>4, KnownPiece
<1>7. \A i \in DOMAIN r.open : Known(q, <<d.at.pos, p, r.open[i].elem>>)
  BY <1>1, <1>4, PieceKnown
<1>8. ASSUME Storage PROVE e.out = Append(c.out, x) /\ x \in Item /\ x[1] = "w" /\ x[2] = d.at.pos /\ x[3] = p
  BY <1>1, <1>8, WordAdded
<1> HIDE DEF q, d, e
<1>9. ASSUME Storage, GoodText(Shown(r), open), NEW y \in Tales(Shown(q))
      PROVE  y \in Tales(Shown(r)) \/ Known(q, y)
  <2>1. Shown(r) \in Seq(Item) /\ Nesting(Shown(r)) = open
    BY <1>1, <1>9, ShownType DEF GoodText
  <2>2. e.out = Append(c.out, x) /\ x \in Item /\ x[1] = "w" /\ x[2] = d.at.pos /\ x[3] = p
    BY <1>8, <1>9
  <2> HIDE DEF x
  <2>3. Shown(q) = Append(Shown(r), x)
    BY <1>1, <1>3, <2>2, ShownGrows DEF Alike
  <2>4. Tales(Shown(q)) = Tales(Shown(r)) \cup {<<x[2], x[3], g>> : g \in Range(open)}
    BY <2>1, <2>2, <2>3, TalesAppend
  <2>5. CASE y \in Tales(Shown(r))
    BY <2>5
  <2>6. ASSUME NEW g \in Range(open), y = <<x[2], x[3], g>>
        PROVE  Known(q, y)
    <3>1. PICK i \in DOMAIN s.open : s.open[i].elem = g
      BY DEF Held
    <3>2. DOMAIN r.open = DOMAIN s.open /\ r.open[i].elem = s.open[i].elem
      <4>1. DOMAIN Elems(r.open) = DOMAIN r.open /\ DOMAIN Elems(s.open) = DOMAIN s.open
        BY DEF Elems
      <4>2. i \in DOMAIN r.open
        BY <1>1, <4>1
      <4>3. Elems(r.open)[i] = r.open[i].elem /\ Elems(s.open)[i] = s.open[i].elem
        BY <4>2 DEF Elems
      <4> QED
        BY <1>1, <4>1, <4>3
    <3> QED
      BY <1>7, <2>2, <2>6, <3>1, <3>2
  <2> QED
    BY <1>9, <2>4, <2>5, <2>6
<1>10. Even(Current(q)) /\ Current(q).at.pge = Current(r).at.pge
  BY <1>3, <1>5
<1>11. q \in ToldSet(s, open, path)
  BY <1>2, <1>3, <1>6, <1>9, <1>10, ToldText
<1> QED
  BY <1>11 DEF q

LEMMA ToldIsTextClosed ==
    ASSUME NEW s, NEW open \in Seq(Elem), Held(s, open), NEW path
    PROVE  TextClosed(ToldSet(s, open, path))
BY ToldSpace, ToldPiece, ToldEmptied, ToldIndexWord DEF TextClosed, Text

-----------------------------------------------------------------------------
(***************************************************************************)
(* A page that is turned tells what it told while it was made.             *)
(***************************************************************************)
LEMMA TalesOfRecord ==
    ASSUME NEW r \in Live, Unsaid(r.breaker), Current(r).out = <<>>
    PROVE  Tales(RecordText(r)) = Tales(Shown(r))
<1> DEFINE h == r.breaker.header
           o == r.output
           f == Footer(r.stack)
           t == h \o o
<1>1. t \in Seq(Item) /\ f \in Seq(Item) /\ Positions(f) = {}
  <2>1. h \in Seq(Item) /\ o \in Seq(Item) /\ r.stack \in Seq(Elem)
    BY DEF Live, Handler, RecordBreaker
  <2> QED
    BY <2>1, FooterType, UnsaidFooter, TextsJoin
<1>2. RecordText(r) = t \o f /\ Shown(r) = t \o <<>>
  BY DEF RecordText, Shown
<1> HIDE DEF t, f
<1>3. t \o <<>> = t
  BY <1>1, TextsJoin
<1>4. Tales(t \o f) = Tales(t)
  BY <1>1, TalesJoin
<1> QED
  BY <1>2, <1>3, <1>4

\* Nothing is pending in a decorator that is settled.
LEMMA KnownSettled ==
    ASSUME NEW r, NEW q, Settled(r), q.doc = r.doc, q.open = r.open, q.closed = r.closed,
           q.cache = r.cache, NEW y, Known(r, y)
    PROVE  Known(q, y)
<1>1. ~ Pending(r, y)
  BY DEF Pending, Settled, Blank
<1>2. Nodes(q) = Nodes(r)
  BY DEF Nodes
<1> QED
  BY <1>1, <1>2 DEF Known

LEMMA ToldTurns ==
    ASSUME NEW s, s.stack \in Seq(Elem), NEW path, NEW r \in ToldSet(s, s.stack, path),
           Settled(r), NEW k \in {"main", "note"}
    PROVE  [r EXCEPT !.cur = k] \in ToldSet(s, s.stack, path)
<1> DEFINE q == [r EXCEPT !.cur = k]
<1>1. r \in PagedSet(s, s.stack, path) /\ r \in Live /\ Clean(r) /\ Told(r)
  BY DEF ToldSet, PagedSet, CleanSet
<1>2. q \in PagedSet(s, s.stack, path)
  BY <1>1, PagedIsClosed DEF Closed, TurnClosed
<1>3. /\ q \in Live /\ q.dec = r.dec /\ q.doc = r.doc /\ q.docDb = r.docDb
      /\ q.breaker = r.breaker /\ q.pages = r.pages /\ q.output = r.output
      /\ q.open = r.open /\ q.closed = r.closed /\ q.cache = r.cache
      /\ Blank(Current(q)) /\ Blank(Current(r))
  BY <1>1, TurnFacts
<1> HIDE DEF q
<1>4. Shown(q) = Shown(r)
  BY <1>3 DEF Shown, Blank
<1>5. \A y : Known(r, y) => Known(q, y)
  BY <1>3, KnownSettled
<1>6. Told(q)
  BY <1>1, <1>3, <1>4, <1>5 DEF Told, FirstIsSpoilt
<1> QED
  BY <1>2, <1>3, <1>6 DEF ToldSet, q

LEMMA ToldPage ==
    ASSUME Breaks, NEW s, s.stack \in Seq(Elem), NEW path, NEW r \in ToldSet(s, s.stack, path),
           Settled(r)
    PROVE  PageTurned(r) \in ToldSet(s, s.stack, path)
<1> DEFINE q == PageTurned(r)
           P == r.dec["main"].at.pge
           text == RecordText(r)
           new == WithPage(r.pages[r.doc], P, text)
<1>1. /\ r \in PagedSet(s, s.stack, path) /\ r \in Live /\ Clean(r) /\ Told(r)
      /\ Paged(r, s.stack, path) /\ r.doc # 0 /\ r.doc = s.doc /\ Unsaid(r.breaker)
  BY DEF ToldSet, PagedSet, CleanSet, Kept
<1>2. q \in PagedSet(s, s.stack, path)
  BY <1>1, PagedIsClosed DEF Closed, PageClosed
<1>3. /\ q \in Live /\ q.cur = r.cur /\ q.doc = r.doc
      /\ \A k \in {"main", "note"} :
           q.dec[k] = [r.dec[k] EXCEPT !.at = [pge |-> @.pge + 1, pos |-> @.pos]]
      /\ q.breaker = [r.breaker EXCEPT !.header = NextHeader(r.breaker, r.stack)]
      /\ q.docDb = r.docDb /\ q.output = <<>>
      /\ q.open = r.open /\ q.closed = r.closed /\ q.cache = r.cache
      /\ q.pages = IF r.docDb THEN [r.pages EXCEPT ![r.doc] = WithPage(@, Current(r).at.pge, text)]
                   ELSE r.pages
  BY <1>1, PageTurnedFacts
<1>4. /\ r.dec \in [{"main", "note"} -> Dec] /\ r.cur \in {"main", "note"} /\ P \in Nat
      /\ r.breaker \in RecordBreaker /\ r.stack \in Seq(Elem) /\ Current(r).at.pge = P
      /\ r.doc \in 1 .. MaxDoc /\ r.pages \in [1 .. MaxDoc -> Numbered]
  <2>1. r.dec \in [{"main", "note"} -> Dec] /\ r.cur \in {"main", "note"}
    BY <1>1, CurrentType DEF Live, Handler
  <2>2. P \in Nat
    BY <2>1 DEF Dec, Place
  <2>3. MaxDoc \in Nat /\ r.doc \in 0 .. MaxDoc /\ r.pages \in [1 .. MaxDoc -> Numbered]
    BY <1>1, BoundAssumption DEF Live, Handler
  <2>4. Current(r).at.pge = P
    BY <1>1, <2>1 DEF Paged, Current
  <2> QED
    BY <1>1, <2>1, <2>2, <2>3, <2>4 DEF Live, Handler
<1> HIDE DEF q, text, P
<1>5. ASSUME NEW k \in {"main", "note"}
      PROVE  /\ q.dec[k].at.pge = r.dec[k].at.pge + 1 /\ q.dec[k].at.pos = r.dec[k].at.pos
             /\ q.dec[k].wrdAt = r.dec[k].wrdAt /\ q.dec[k].isBreak = r.dec[k].isBreak
             /\ q.dec[k].out = r.dec[k].out
  <2> DEFINE at == [pge |-> r.dec[k].at.pge + 1, pos |-> r.dec[k].at.pos]
  <2>1. r.dec[k] \in Dec
    BY <1>4
  <2>2. q.dec[k] = [r.dec[k] EXCEPT !.at = at]
        /\ at.pge = r.dec[k].at.pge + 1 /\ at.pos = r.dec[k].at.pos
    BY <1>3, <2>1
  <2> HIDE DEF at
  <2> QED
    BY <2>1, <2>2 DEF Dec
<1>6. Unsaid(q.breaker) /\ Positions(q.breaker.header) = {}
  <2>1. /\ q.breaker.extra = r.breaker.extra /\ q.breaker.kept = r.breaker.kept
        /\ q.breaker.header = NextHeader(r.breaker, r.stack)
    BY <1>3, <1>4 DEF RecordBreaker
  <2>2. Positions(NextHeader(r.breaker, r.stack)) = {}
    BY <1>1, <1>4, UnsaidHeader
  <2> QED
    BY <1>1, <2>1, <2>2 DEF Unsaid
<1>7. \A d \in 1 .. MaxDoc : d # s.doc => q.pages[d] = s.pages[d]
  <2>1. \A d \in 1 .. MaxDoc : d # s.doc => q.pages[d] = r.pages[d]
    BY <1>1, <1>3, <1>4
  <2> QED
    BY <2>1 DEF ToldSet
<1>8. ~ q.docDb => q.pages = s.pages
  BY <1>3 DEF ToldSet
<1>9. \A k \in {"main", "note"} : Even(q.dec[k])
  <2> TAKE k \in {"main", "note"}
  <2>1. Even(r.dec[k])
    BY <1>1 DEF Told
  <2> QED
    BY <1>5, <2>1 DEF Even
<1>10. \A y : Known(r, y) => Known(q, y)
  BY <1>3, KnownSettled
<1>11. Tales(Shown(q)) = {}
  <2>1. Current(r).out = <<>> /\ Current(q).out = Current(r).out
    BY <1>3, <1>4, <1>5 DEF Settled, Blank, Current
  <2>2. q.breaker.header \in Seq(Item)
    BY <1>3, ShownType
  <2> DEFINE h == q.breaker.header
  <2>3. Shown(q) = (h \o <<>>) \o <<>>
    BY <1>3, <2>1 DEF Shown
  <2> HIDE DEF h
  <2>4. (h \o <<>>) \o <<>> = h
    BY <2>2, TextsJoin DEF h
  <2> QED
    BY <1>6, <2>3, <2>4, NoTales DEF h
<1>12. ASSUME q.docDb, Storage, NEW p \in DOMAIN q.pages[q.doc], ~ SpoiltByHeader(q.doc, p),
              NEW y \in Tales(q.pages[q.doc][p])
       PROVE  Known(q, y)
  <2>1. q.pages[q.doc] = new
    <3>1. q.pages = [r.pages EXCEPT ![r.doc] = new] /\ q.doc = r.doc
      BY <1>3, <1>4, <1>12
    <3> HIDE DEF new
    <3> QED
      BY <1>4, <3>1
  <2>2. /\ p = P \/ p \in DOMAIN r.pages[r.doc]
        /\ q.pages[q.doc][p] = IF p = P THEN text ELSE r.pages[r.doc][p]
    BY <1>12, <2>1 DEF WithPage
  <2>3. CASE p = P
    <3>1. y \in Tales(text)
      BY <1>12, <2>2, <2>3
    <3>2. Tales(text) = Tales(Shown(r))
      <4>1. Current(r).out = <<>>
        BY DEF Settled, Blank
      <4> QED
        BY <1>1, <4>1, TalesOfRecord DEF text
    <3>3. ~ FirstIsSpoilt(r) /\ r.docDb
      BY <1>3, <1>12, <2>3 DEF FirstIsSpoilt, P
    <3>4. Known(r, y)
      BY <1>1, <1>12, <3>1, <3>2, <3>3 DEF Told
    <3> QED
      BY <1>10, <3>4
  <2>4. CASE p # P
    <3>1. p \in DOMAIN r.pages[r.doc] /\ y \in Tales(r.pages[r.doc][p]) /\ r.docDb
          /\ ~ SpoiltByHeader(r.doc, p)
      BY <1>3, <1>12, <2>2, <2>4
    <3>2. Known(r, y)
      BY <1>1, <1>12, <3>1 DEF Told
    <3> QED
      BY <1>10, <3>2
  <2> QED
    BY <2>3, <2>4
<1>13. Told(q)
  BY <1>9, <1>11, <1>12 DEF Told
<1> QED
  BY <1>2, <1>6, <1>7, <1>8, <1>13 DEF ToldSet, q

\* No helper leaves the handlers whose words are known.
LEMMA ToldIsClosed ==
    ASSUME NEW s, s.stack \in Seq(Elem), Held(s, s.stack), NEW path
    PROVE  Closed(ToldSet(s, s.stack, path))
<1>1. ToldSet(s, s.stack, path) \subseteq Live
  BY DEF ToldSet, PagedSet, CleanSet
<1> QED
  BY <1>1, ToldIsTextClosed, ToldTurns, ToldPage DEF Closed, TurnClosed, PageClosed

-----------------------------------------------------------------------------
(***************************************************************************)
(* The steps keep the words known.                                         *)
(***************************************************************************)
\* The nodes are still there, with their words.
Remain(c, r) ==
    \A m \in Nodes(c) : \E n \in Nodes(r) :
        /\ n.elem = m.elem /\ n.words = m.words
        /\ m.state # "new" => n.state # "new"

\* A handler that tells the same.
LEMMA ToldSame ==
    ASSUME NEW c \in Live, NEW r \in Live, Told(c), r.doc = c.doc, r.docDb = c.docDb,
           r.pages[r.doc] = c.pages[c.doc], r.cache = c.cache, r.cur = c.cur,
           \A k \in {"main", "note"} : /\ r.dec[k].at = c.dec[k].at
                                       /\ r.dec[k].wrdAt = c.dec[k].wrdAt
                                       /\ r.dec[k].wrd = c.dec[k].wrd
                                       /\ r.dec[k].isBreak = c.dec[k].isBreak,
           Storage => Tales(Shown(r)) = Tales(Shown(c)), Remain(c, r)
    PROVE  Told(r)
<1>1. \A k \in {"main", "note"} : Even(r.dec[k])
  BY DEF Told, Even
<1>2. FirstIsSpoilt(r) <=> FirstIsSpoilt(c)
  BY DEF FirstIsSpoilt
<1>3. ASSUME NEW y, Known(c, y) PROVE Known(r, y)
  <2>1. Current(r).wrd = Current(c).wrd /\ Current(r).wrdAt = Current(c).wrdAt
    BY CurrentType DEF Current
  <2>2. Pending(c, y) => Pending(r, y)
    BY <2>1 DEF Pending
  <2>3. c.cache \subseteq r.cache
    OBVIOUS
  <2> QED
    BY <1>3, <2>2, <2>3, KnownStays DEF Remain
<1> QED
  BY <1>1, <1>2, <1>3 DEF Told

\* A tag tells nothing.
LEMMA ToldSays ==
    ASSUME NEW c \in Live, NEW x \in Item, x[1] # "w", NEW r \in Live, Told(c),
           Current(r) = [Current(c) EXCEPT !.out = IF Storage THEN Append(@, x) ELSE @],
           r.cur = c.cur, \A k \in {"main", "note"} : k # c.cur => r.dec[k] = c.dec[k],
           r.doc = c.doc, r.docDb = c.docDb, r.breaker = c.breaker, r.pages = c.pages,
           r.output = c.output, r.cache = c.cache, Remain(c, r)
    PROVE  Told(r)
<1> DEFINE d == [Current(c) EXCEPT !.out = IF Storage THEN Append(@, x) ELSE @]
<1>1. Current(c) \in Dec /\ c.cur \in {"main", "note"}
  BY CurrentType
<1>2. /\ d.at = Current(c).at /\ d.wrdAt = Current(c).wrdAt /\ d.wrd = Current(c).wrd
      /\ d.isBreak = Current(c).isBreak
      /\ Storage => d.out = Append(Current(c).out, x)
  BY <1>1 DEF Dec
<1>3. Current(r) = d
  OBVIOUS
<1> HIDE DEF d
<1>4. \A k \in {"main", "note"} : /\ r.dec[k].at = c.dec[k].at
                                  /\ r.dec[k].wrdAt = c.dec[k].wrdAt
                                  /\ r.dec[k].wrd = c.dec[k].wrd
                                  /\ r.dec[k].isBreak = c.dec[k].isBreak
  BY <1>1, <1>2, <1>3 DEF Current
<1>5. Storage => Tales(Shown(r)) = Tales(Shown(c))
  <2> SUFFICES ASSUME Storage PROVE Tales(Shown(r)) = Tales(Shown(c))
    OBVIOUS
  <2>1. Shown(r) = Append(Shown(c), x)
    BY <1>2, <1>3, ShownGrows
  <2> QED
    BY <2>1, ShownType, TalesAppend
<1> QED
  BY <1>4, <1>5, ToldSame

\* The record breaker keeps its header.
LEMMA ToldBreaker ==
    ASSUME NEW s, NEW open, NEW path, NEW path2, NEW r \in ToldSet(s, open, path),
           NEW b \in RecordBreaker, Unsaid(b), b.header = r.breaker.header,
           [r EXCEPT !.breaker = b] \in PagedSet(s, open, path2)
    PROVE  [r EXCEPT !.breaker = b] \in ToldSet(s, open, path2)
<1> DEFINE q == [r EXCEPT !.breaker = b]
<1>1. r \in Live /\ q \in Live /\ Told(r)
  BY DEF ToldSet, PagedSet, CleanSet
<1>2. /\ q.breaker = b /\ q.dec = r.dec /\ q.cur = r.cur /\ q.doc = r.doc
      /\ q.docDb = r.docDb /\ q.pages = r.pages /\ q.output = r.output
      /\ q.open = r.open /\ q.closed = r.closed /\ q.cache = r.cache
  BY <1>1 DEF Live, Handler
<1> HIDE DEF q
<1>3. Shown(q) = Shown(r)
  BY <1>2 DEF Shown, Current
<1>4. Remain(r, q)
  BY <1>2 DEF Remain, Nodes
<1>5. Told(q)
  BY <1>1, <1>2, <1>3, <1>4, ToldSame
<1> QED
  BY <1>2, <1>5 DEF ToldSet, q

LEMMA HeldElems ==
    ASSUME NEW s, Elems(s.open) = s.stack
    PROVE  Held(s, s.stack)
<1> SUFFICES ASSUME NEW e \in Range(s.stack)
             PROVE  \E i \in DOMAIN s.open : s.open[i].elem = e
  BY DEF Held
<1>1. PICK i \in DOMAIN s.stack : s.stack[i] = e
  BY DEF Range
<1>2. DOMAIN s.stack = DOMAIN s.open /\ \A j \in DOMAIN s.open : s.stack[j] = s.open[j].elem
  BY DEF Elems
<1> QED
  BY <1>1, <1>2

\* The handler at work.
LEMMA ToldNow ==
    ASSUME Steady, Pagination, Telling, Parsing
    PROVE  /\ ix \in Live /\ ix.stack \in Seq(Elem) /\ ix.breaker \in RecordBreaker
           /\ ix \in CleanSet(ix) /\ Clean(ix) /\ ix.doc # 0 /\ ix.docDb = Storage
           /\ Paged(ix, ix.stack, ix.stack) /\ Elems(ix.open) = ix.stack
           /\ Held(ix, ix.stack) /\ Unsaid(ix.breaker) /\ Told(ix)
<1>1. ix.doc # 0 /\ ix.docDb = Storage /\ Elems(ix.open) = ix.stack
  BY WorkingIsClean
<1> QED
  BY <1>1, PagedNow, HeldElems DEF Telling

\* While a document is parsed, nothing changes for the others.
LEMMA TellingStep ==
    ASSUME Steady, Pagination, Telling, Parsing, NEW r \in Live, ix' = r, r.doc = ix.doc,
           r.words = ix.words, Unsaid(r.breaker), Told(r),
           \A d \in 1 .. MaxDoc : d # ix.doc => r.pages[d] = ix.pages[d],
           ~ Storage => r.pages = ix.pages, UNCHANGED <<usage, done>>
    PROVE  Telling'
<1>1. ix.doc # 0 /\ ix.doc \notin done /\ done \subseteq 1 .. MaxDoc
  <2>1. begun \in 0 .. MaxDoc /\ MaxDoc \in Nat /\ done \subseteq 1 .. begun
    BY BoundAssumption DEF Steady
  <2>2. ix.doc # 0 /\ ix.doc \notin done
    BY WorkingIsClean DEF Pagination
  <2> QED
    BY <2>1, <2>2
<1>2. ~ Storage => \A d \in 1 .. MaxDoc : DOMAIN r.pages[d] = {}
  BY DEF Telling
<1>3. \A d \in done : \A p \in DOMAIN r.pages[d] : ~ SpoiltByHeader(d, p) =>
         \A y \in Tales(r.pages[d][p]) : Tells(r.words, d, y)
  <2>1. \A d \in done : r.pages[d] = ix.pages[d]
    BY <1>1
  <2> QED
    BY <2>1 DEF Telling
<1>4. Told(ix)'
  BY DEF Told, Storage, FirstIsSpoilt, SpoiltByHeader, Keeps
<1>5. /\ Storage' = Storage /\ \A d, p : SpoiltByHeader(d, p)' = SpoiltByHeader(d, p)
  BY DEF Storage, SpoiltByHeader, Keeps
<1> QED
  BY <1>2, <1>3, <1>4, <1>5 DEF Telling

LEMMA TellingStartNode ==
    ASSUME Steady, Pagination, Telling, RootIsNotRepeated, NEW e \in Elem, StartNode(e)
    PROVE  Telling'
<1>1. Parsing /\ (ix.stack = <<>> => e = Root)
  BY DEF StartNode, MoreEvents
<1>2. /\ ix \in Live /\ ix.stack \in Seq(Elem) /\ ix.breaker \in RecordBreaker
      /\ ix \in CleanSet(ix) /\ Paged(ix, ix.stack, ix.stack) /\ ix.docDb = Storage
      /\ Held(ix, ix.stack) /\ Unsaid(ix.breaker) /\ Told(ix)
  BY <1>1, ToldNow
<1> DEFINE stack == ix.stack
           path == Append(stack, e)
           A == ToldSet(ix, stack, path)
<1>3. ix \in A
  <2>1. Breaks => NotesContent(ix.breaker, path)
    BY <1>2, NotesDeeper DEF Paged
  <2>2. Paged(ix, stack, path)
    BY <1>2, <2>1 DEF Paged
  <2> QED
    BY <1>2, <2>2 DEF ToldSet, PagedSet
<1>4. Closed(A)
  BY <1>2, ToldIsClosed
<1>5. ASSUME Breaks, NEW r \in A
      PROVE  [r EXCEPT !.breaker = BreakerOpens(@, e, Len(stack))] \in A
  <2> DEFINE b == r.breaker
             q == BreakerOpens(b, e, Len(stack))
  <2>1. r \in Live /\ Paged(r, stack, path) /\ r \in PagedSet(ix, stack, path)
    BY DEF ToldSet, PagedSet, CleanSet
  <2>2. b \in RecordBreaker /\ Unsaid(b) /\ Len(stack) \in Nat /\ NotesContent(b, path)
    BY <1>2, <1>5, <2>1 DEF Live, Handler, ToldSet, Paged
  <2>3. q \in RecordBreaker /\ Unsaid(q)
    BY <2>2, UnsaidOpens
  <2>4. q.header = b.header
    BY <1>1, <1>2, <2>2, NotesOpens
  <2>5. [r EXCEPT !.breaker = q] \in PagedSet(ix, stack, path)
    BY <1>1, <1>2, <1>5, <2>1, PagedOpens
  <2> HIDE DEF q, path
  <2>6. [r EXCEPT !.breaker = q] \in A
    BY <2>3, <2>4, <2>5, ToldBreaker
  <2> QED
    BY <2>6 DEF q
<1> HIDE DEF A
<1>6. PICK c \in A : Starts(ix, e, c)
  <2>1. Breaks => \A r \in A : [r EXCEPT !.breaker = BreakerOpens(@, e, Len(ix.stack))] \in A
    BY <1>5
  <2> QED
    BY <1>3, <1>4, <2>1, StartNodeKeeps
<1>7. /\ c \in Live /\ Kept(ix, c) /\ Unsaid(c.breaker) /\ Told(c)
      /\ \A d \in 1 .. MaxDoc : d # ix.doc => c.pages[d] = ix.pages[d]
      /\ ~ c.docDb => c.pages = ix.pages
  BY DEF A, ToldSet, PagedSet, CleanSet
<1> DEFINE r == Opened(c, e)
           x == <<"open", e>>
<1>8. /\ r \in Live /\ Current(r) = [Current(c) EXCEPT !.out = IF Storage THEN Append(@, x) ELSE @]
      /\ r.cur = c.cur /\ \A k \in {"main", "note"} : k # c.cur => r.dec[k] = c.dec[k]
      /\ r.doc = c.doc /\ r.docDb = c.docDb /\ r.breaker = c.breaker /\ r.pages = c.pages
      /\ r.words = c.words /\ r.output = c.output /\ r.open = Append(c.open, NewNode(e))
      /\ r.closed = c.closed /\ r.cache = c.cache
  BY <1>7, OpenedFacts
<1>9. ix' = r
  <2>1. ix' = [AdornerStartNode(ix, e) EXCEPT !.open = Append(@, NewNode(e))]
    BY DEF StartNode
  <2> QED
    BY <1>6, <1>7, <2>1, StartsOpens
<1>10. x \in Item /\ x[1] # "w"
  BY PlainFacts, OtherItems
<1> HIDE DEF r, x
<1>11. Remain(c, r)
  <2>1. \A i \in DOMAIN c.open : i \in DOMAIN r.open /\ r.open[i] = c.open[i]
    <3>1. c.open \in Seq(Node) /\ NewNode(e) \in Node
      BY <1>7, NewNodeType DEF Live, Handler
    <3> DEFINE n == NewNode(e)
    <3> HIDE DEF n
    <3>2. \A i \in DOMAIN c.open : i \in DOMAIN Append(c.open, n) /\ Append(c.open, n)[i] = c.open[i]
      BY <3>1
    <3> QED
      BY <1>8, <3>2 DEF n
  <2>2. \A m \in Nodes(c) : m \in Nodes(r)
    BY <1>8, <2>1 DEF Nodes
  <2> QED
    BY <2>2 DEF Remain
<1>12. Told(r)
  BY <1>7, <1>8, <1>10, <1>11, ToldSays
<1>13. /\ r.doc = ix.doc /\ r.words = ix.words
       /\ \A d \in 1 .. MaxDoc : d # ix.doc => r.pages[d] = ix.pages[d]
       /\ ~ Storage => r.pages = ix.pages
  BY <1>2, <1>7, <1>8 DEF Kept
<1>14. UNCHANGED <<usage, done>>
  BY DEF StartNode
<1> QED
  BY <1>1, <1>7, <1>8, <1>9, <1>12, <1>13, <1>14, TellingStep

LEMMA TellingCharacters ==
    ASSUME Steady, Pagination, Telling, NEW c \in Chunk, Characters(c)
    PROVE  Telling'
<1>1. Parsing
  BY DEF Characters, MoreEvents
<1>2. /\ ix \in Live /\ ix.stack \in Seq(Elem) /\ ix.breaker \in RecordBreaker
      /\ ix \in CleanSet(ix) /\ Paged(ix, ix.stack, ix.stack) /\ ix.docDb = Storage
      /\ Held(ix, ix.stack) /\ Unsaid(ix.breaker) /\ Told(ix)
  BY <1>1, ToldNow
<1> DEFINE stack == ix.stack
           A == ToldSet(ix, stack, stack)
           q == Buffered(ix, c)
           t == AdornerAddCharacters(ix, c)
           r == Noted(ix, c)
           d == [Current(ix) EXCEPT !.buf = @ \o c]
           b == [ix.breaker EXCEPT !.extra =
                   IF Breaks /\ ix.breaker.level # 0 THEN @ \o Raw(c) ELSE @]
<1>3. q \in PagedSet(ix, stack, stack)
  BY <1>2, PagedBuffered
<1>4. /\ d \in Dec /\ q \in Live /\ Current(q) = d /\ q.cur = ix.cur
      /\ \A k \in {"main", "note"} : k # ix.cur => q.dec[k] = ix.dec[k]
      /\ q.doc = ix.doc /\ q.docDb = ix.docDb /\ q.breaker = b
      /\ q.pages = ix.pages /\ q.output = ix.output
      /\ q.open = ix.open /\ q.closed = ix.closed /\ q.cache = ix.cache
  BY <1>2, BufferedFacts
<1>5. /\ d.at = Current(ix).at /\ d.wrdAt = Current(ix).wrdAt /\ d.wrd = Current(ix).wrd
      /\ d.isBreak = Current(ix).isBreak /\ d.out = Current(ix).out
  BY <1>2, CurrentType DEF Dec
<1>6. Unsaid(b) /\ b.header = ix.breaker.header
  BY <1>2, UnsaidCharacters DEF RecordBreaker
<1> HIDE DEF q, d, b
<1>7. q \in A
  <2>1. \A k \in {"main", "note"} : /\ q.dec[k].at = ix.dec[k].at
                                    /\ q.dec[k].wrdAt = ix.dec[k].wrdAt
                                    /\ q.dec[k].wrd = ix.dec[k].wrd
                                    /\ q.dec[k].isBreak = ix.dec[k].isBreak
    BY <1>4, <1>5 DEF Current
  <2>2. Shown(q) = Shown(ix)
    BY <1>4, <1>5, <1>6 DEF Shown
  <2>3. Remain(ix, q)
    BY <1>4 DEF Remain, Nodes
  <2>4. Told(q)
    BY <1>2, <1>4, <2>1, <2>2, <2>3, ToldSame
  <2> QED
    BY <1>3, <1>4, <1>6, <2>4 DEF ToldSet
<1>8. t \in A
  BY <1>2, <1>7, ToldIsClosed, CharactersKeep DEF q
<1>9. /\ t \in Live /\ Kept(ix, t) /\ Unsaid(t.breaker) /\ Told(t)
      /\ \A k \in 1 .. MaxDoc : k # ix.doc => t.pages[k] = ix.pages[k]
      /\ ~ t.docDb => t.pages = ix.pages
  BY <1>8 DEF ToldSet, PagedSet, CleanSet
<1>10. /\ r \in Live /\ r.cur = t.cur /\ r.dec = t.dec /\ r.doc = t.doc /\ r.docDb = t.docDb
       /\ r.breaker = t.breaker /\ r.pages = t.pages /\ r.words = t.words /\ r.output = t.output
       /\ r.closed = t.closed /\ r.cache = t.cache
       /\ DOMAIN r.open = DOMAIN t.open
       /\ \A i \in DOMAIN t.open : /\ r.open[i].elem = t.open[i].elem
                                   /\ r.open[i].state = t.open[i].state
                                   /\ r.open[i].words = t.open[i].words
  BY <1>9, NotedFacts
<1>11. ix' = r
  BY DEF Characters
<1> HIDE DEF r, t
<1>12. Remain(t, r)
  <2>1. \A i \in DOMAIN t.open : r.open[i] \in Nodes(r)
    BY <1>10 DEF Nodes
  <2>2. \A i \in DOMAIN t.closed : t.closed[i] \in Nodes(r)
    BY <1>10 DEF Nodes
  <2> QED
    BY <1>10, <2>1, <2>2 DEF Remain, Nodes
<1>13. Told(r)
  <2>1. Shown(r) = Shown(t)
    BY <1>10 DEF Shown, Current
  <2> QED
    BY <1>9, <1>10, <1>12, <2>1, ToldSame
<1>14. /\ r.doc = ix.doc /\ r.words = ix.words /\ Unsaid(r.breaker)
       /\ \A k \in 1 .. MaxDoc : k # ix.doc => r.pages[k] = ix.pages[k]
       /\ ~ Storage => r.pages = ix.pages
  BY <1>2, <1>9, <1>10 DEF Kept
<1>15. UNCHANGED <<usage, done>>
  BY DEF Characters
<1> QED
  BY <1>1, <1>10, <1>11, <1>13, <1>14, <1>15, TellingStep

LEMMA TellingLoops ==
    ASSUME Steady, Pagination, Telling, EndNodeLoops
    PROVE  Telling'
<1>1. Parsing /\ UNCHANGED <<ix, usage, done>>
  BY DEF EndNodeLoops, MoreEvents
<1>2. ix \in Live /\ Unsaid(ix.breaker) /\ Told(ix)
  BY <1>1, ToldNow
<1>3. ~ Storage => ix.pages = ix.pages
  OBVIOUS
<1> QED
  BY <1>1, <1>2, <1>3, TellingStep

LEMMA TellingEndNode ==
    ASSUME Steady, Pagination, Telling, RootIsNotRepeated, EndNode
    PROVE  Telling'
<1>1. Parsing /\ ix.stack # <<>> /\ ix' = NodeEnded(ix) /\ UNCHANGED <<usage, done>>
  BY DEF EndNode, MoreEvents
<1>2. /\ ix \in Live /\ ix.stack \in Seq(Elem) /\ ix.breaker \in RecordBreaker
      /\ Clean(ix) /\ ix.doc # 0 /\ Paged(ix, ix.stack, ix.stack) /\ ix.docDb = Storage
      /\ Elems(ix.open) = ix.stack /\ Held(ix, ix.stack) /\ Unsaid(ix.breaker) /\ Told(ix)
      /\ ix.stack[1] = Root
  BY <1>1, ToldNow DEF Pagination
<1> DEFINE stack == ix.stack
           front == Front(stack)
           e == Last(stack)
           q == [ix EXCEPT !.stack = Front(@)]
           n == Len(front)
           A == ToldSet(q, stack, stack)
           B == ToldSet(q, front, stack)
           C == ToldSet(q, front, front)
           x == <<"close", e>>
<1>3. /\ front \in Seq(Elem) /\ e \in Elem /\ n \in Nat
      /\ \A i \in 1 .. n : i \in DOMAIN stack /\ front[i] = stack[i]
  BY <1>1, <1>2, FrontFacts
<1>4. x \in Item /\ x[1] # "w"
  BY <1>3, PlainFacts, OtherItems
<1>5. /\ q \in Live /\ q.dec = ix.dec /\ q.cur = ix.cur /\ q.output = ix.output
      /\ q.open = ix.open /\ q.closed = ix.closed /\ q.cache = ix.cache /\ q.doc = ix.doc
      /\ q.docDb = ix.docDb /\ q.breaker = ix.breaker /\ q.pages = ix.pages /\ q.stack = front
      /\ q.words = ix.words
  BY <1>2, <1>3 DEF Live, Handler
<1> HIDE DEF q
<1>6. q \in A
  <2>1. Clean(q)
    BY <1>2, <1>5 DEF Clean, Current
  <2>2. q \in CleanSet(q)
    BY <1>2, <1>5, <2>1 DEF CleanSet, Kept
  <2>3. Shown(q) = Shown(ix)
    BY <1>5 DEF Shown, Current
  <2>4. Paged(q, stack, stack)
    BY <1>2, <1>5, <2>3 DEF Paged, FirstIsSpoilt
  <2>5. Remain(ix, q)
    BY <1>5 DEF Remain, Nodes
  <2>6. Told(q)
    BY <1>2, <1>5, <2>3, <2>5, ToldSame
  <2> QED
    BY <1>2, <1>5, <2>2, <2>4, <2>6 DEF ToldSet, PagedSet
<1>7. Held(q, stack) /\ Held(q, front)
  <2>1. Held(q, stack)
    BY <1>2, <1>5 DEF Held
  <2>2. Range(front) \subseteq Range(stack)
    <3>1. DOMAIN front = 1 .. n
      BY <1>3
    <3> HIDE DEF front
    <3> QED
      BY <1>3, <3>1 DEF Range
  <2> QED
    BY <2>1, <2>2 DEF Held
<1> HIDE DEF front
<1>8. /\ A \subseteq Live /\ TextClosed(A) /\ Closed(B) /\ Closed(C)
  <2>1. A \subseteq Live
    BY DEF ToldSet, PagedSet, CleanSet
  <2>2. TextClosed(A)
    BY <1>2, <1>7, ToldIsTextClosed
  <2>3. Closed(B) /\ Closed(C)
    BY <1>3, <1>5, <1>7, ToldIsClosed
  <2> QED
    BY <2>1, <2>2, <2>3
<1>9. ASSUME NEW c \in A
      PROVE  Says(c, x) \in B
  <2> DEFINE r == Says(c, x)
  <2>1. c \in PagedSet(q, stack, stack) /\ c \in Live /\ Told(c)
    BY DEF ToldSet, PagedSet, CleanSet
  <2>2. r \in PagedSet(q, front, stack)
    BY <1>1, <1>2, <2>1, PagedSaysClose DEF front
  <2>3. /\ Current(r) = [Current(c) EXCEPT !.out = IF Storage THEN Append(@, x) ELSE @]
        /\ r \in Live /\ Alike(c, r) /\ r.output = c.output
        /\ r.open = c.open /\ r.closed = c.closed /\ r.cache = c.cache
    BY <1>4, <2>1, SaysFacts
  <2> HIDE DEF r, x, B
  <2>4. Remain(c, r)
    BY <2>3 DEF Remain, Nodes
  <2>5. Told(r)
    BY <1>4, <2>1, <2>3, <2>4, ToldSays DEF Alike
  <2> QED
    BY <2>2, <2>3, <2>5 DEF Alike, ToldSet, B, r
<1>10. \A r \in B : Len(r.stack) = n
  BY <1>5 DEF ToldSet, PagedSet, CleanSet, Kept
<1>11. ASSUME Breaks, NEW r \in B
       PROVE  [r EXCEPT !.breaker = BreakerCloses(@, e, n)] \in C
  <2> DEFINE b == r.breaker
             w == BreakerCloses(b, e, n)
  <2>1. r \in Live /\ Paged(r, front, stack) /\ r \in PagedSet(q, front, stack)
    BY DEF ToldSet, PagedSet, CleanSet
  <2>2. /\ b \in RecordBreaker /\ Unsaid(b) /\ NotesContent(b, stack)
        /\ \A k \in DOMAIN b.kept : KeptText(b.kept[k])
    BY <1>11, <2>1 DEF Live, Handler, ToldSet, Paged
  <2>3. w \in RecordBreaker /\ Unsaid(w)
    BY <1>3, <2>2, UnsaidCloses
  <2>4. w.header = b.header
    <3>1. w = BreakerCloses(b, Last(stack), Len(stack) - 1)
      BY <1>1, <1>2, FrontFacts DEF front
    <3> HIDE DEF w
    <3> QED
      BY <1>1, <1>2, <2>2, <3>1, NotesCloses
  <2>5. [r EXCEPT !.breaker = w] \in PagedSet(q, front, front)
    BY <1>1, <1>2, <1>11, <2>1, PagedCloses DEF front
  <2> HIDE DEF w
  <2>6. [r EXCEPT !.breaker = w] \in C
    BY <2>3, <2>4, <2>5, ToldBreaker
  <2> QED
    BY <2>6 DEF w
<1>12. ~ Breaks => B \subseteq C
  BY DEF ToldSet, PagedSet, Paged
<1> DEFINE t == AdornerEndNode(ix)
           r == NodeEnded(ix)
           last == [Last(t.open) EXCEPT !.state = "close"]
<1> HIDE DEF A, B, C, n, e, x
<1>13. t \in C
  <2>1. [ix EXCEPT !.stack = Front(@)] \in A
    BY <1>6 DEF q
  <2>2. \A c \in A : Current(c).buf = <<>> => Says(c, <<"close", Last(ix.stack)>>) \in B
    BY <1>9 DEF x, e
  <2>3. Breaks => \A y \in B : [y EXCEPT !.breaker = BreakerCloses(@, Last(ix.stack), n)] \in C
    BY <1>11 DEF e
  <2> QED
    BY <1>2, <1>8, <1>10, <1>12, <2>1, <2>2, <2>3, EndNodeKeeps
<1>14. /\ t \in Live /\ Kept(q, t) /\ Unsaid(t.breaker) /\ Told(t)
       /\ \A d \in 1 .. MaxDoc : d # ix.doc => t.pages[d] = ix.pages[d]
       /\ ~ t.docDb => t.pages = ix.pages
  BY <1>5, <1>13 DEF C, ToldSet, PagedSet, CleanSet
<1>15. t.open # <<>> /\ t.open \in Seq(Node)
  <2>1. Elems(t.open) = stack /\ t.open \in Seq(Node)
    BY <1>2, <1>5, <1>14 DEF Kept, Live, Handler
  <2> QED
    BY <1>1, <2>1, ElemsType
<1>16. /\ r \in Live /\ r.cur = t.cur /\ r.dec = t.dec /\ r.doc = t.doc /\ r.docDb = t.docDb
       /\ r.breaker = t.breaker /\ r.pages = t.pages /\ r.words = t.words /\ r.output = t.output
       /\ r.cache = t.cache /\ r.open = Front(t.open) /\ r.closed = Append(t.closed, last)
       /\ last \in Node /\ last.words = Last(t.open).words
       /\ last.elem = Last(t.open).elem /\ last.state = "close"
  BY <1>14, <1>15, NodeEndedFacts
<1>17. Remain(t, r)
  <2>1. /\ last \in Nodes(r) /\ \A i \in DOMAIN t.closed : t.closed[i] \in Nodes(r)
    <3>1. t.closed \in Seq(Node)
      BY <1>14 DEF Live, Handler
    <3> HIDE DEF last, t, r
    <3>2. /\ Len(t.closed) + 1 \in DOMAIN r.closed /\ r.closed[Len(t.closed) + 1] = last
          /\ \A i \in DOMAIN t.closed : i \in DOMAIN r.closed /\ r.closed[i] = t.closed[i]
      BY <1>16, <3>1
    <3> QED
      BY <3>2 DEF Nodes
  <2>2. ASSUME NEW i \in DOMAIN t.open
        PROVE  t.open[i] = Last(t.open) \/ t.open[i] \in Nodes(r)
    <3> DEFINE m == Len(t.open)
    <3>1. m \in Nat /\ i \in 1 .. m /\ Last(t.open) = t.open[m] /\ m # 0
      BY <1>15, <2>2, ElemsFront
    <3>2. i # m => i \in DOMAIN r.open /\ r.open[i] = t.open[i]
      <4>1. r.open = SubSeq(t.open, 1, m - 1)
        BY <1>16 DEF Front
      <4> HIDE DEF m, t, r
      <4> QED
        BY <1>15, <3>1, <4>1 DEF m
    <3> HIDE DEF m, t, r
    <3> QED
      BY <3>1, <3>2 DEF Nodes
  <2> HIDE DEF r, t, last
  <2>3. ASSUME NEW m \in Nodes(t)
        PROVE  \E k \in Nodes(r) : /\ k.elem = m.elem /\ k.words = m.words
                                   /\ m.state # "new" => k.state # "new"
    <3>1. m \in Nodes(r) \/ m = Last(t.open)
      BY <2>1, <2>2 DEF Nodes
    <3> QED
      BY <1>16, <2>1, <3>1
  <2> QED
    BY <2>3 DEF Remain
<1> HIDE DEF r, t, last
<1>18. Told(r)
  <2>1. Shown(r) = Shown(t)
    BY <1>16 DEF Shown, Current
  <2> QED
    BY <1>14, <1>16, <1>17, <2>1, ToldSame
<1>19. /\ r.doc = ix.doc /\ r.words = ix.words /\ Unsaid(r.breaker) /\ r \in Live
       /\ \A d \in 1 .. MaxDoc : d # ix.doc => r.pages[d] = ix.pages[d]
       /\ ~ Storage => r.pages = ix.pages
  BY <1>2, <1>5, <1>14, <1>16 DEF Kept
<1>20. ix' = r
  BY <1>1 DEF r
<1> QED
  BY <1>1, <1>18, <1>19, <1>20, TellingStep

LEMMA ToldPuts ==
    ASSUME NEW s, NEW open \in Seq(Elem), NEW path, NEW q \in ToldSet(s, open, path), Settled(q),
           NEW x \in Plain, x \in Item, x[1] # "w"
    PROVE  Output(q, <<x>>) \in ToldSet(s, open, path)
<1> DEFINE o == Output(q, <<x>>)
<1>1. q \in PagedSet(s, open, path) /\ q \in CleanSet(s) /\ q \in Live /\ Told(q)
  BY DEF ToldSet, PagedSet, CleanSet
<1>2. o \in PagedSet(s, open, path)
  BY <1>1, PagedPuts
<1>3. /\ o.pages = q.pages /\ o.breaker = q.breaker /\ o.dec = q.dec /\ o.cur = q.cur
      /\ o.open = q.open /\ o.closed = q.closed /\ o.cache = q.cache
      /\ Storage => o.output = Append(q.output, x)
  BY <1>1, CleanOutput
<1> HIDE DEF o
<1>4. o \in Live /\ o.doc = q.doc /\ o.docDb = q.docDb
  BY <1>1, <1>2 DEF PagedSet, CleanSet, Kept
<1>5. Storage => Tales(Shown(o)) = Tales(Shown(q))
  <2> SUFFICES ASSUME Storage PROVE Tales(Shown(o)) = Tales(Shown(q))
    OBVIOUS
  <2>1. Current(o).out = <<>> /\ Current(q).out = <<>>
    BY <1>3 DEF Settled, Blank, Current
  <2>2. Shown(o) = Append(Shown(q), x)
    BY <1>1, <1>3, <1>4, <2>1, ShownPut
  <2> QED
    BY <1>1, <2>2, ShownType, TalesAppend
<1>6. Remain(q, o)
  BY <1>3 DEF Remain, Nodes
<1>7. Told(o)
  BY <1>1, <1>3, <1>4, <1>5, <1>6, ToldSame
<1> QED
  BY <1>2, <1>3, <1>4, <1>7 DEF ToldSet, o

\* The indexes take up what is known of a document whose elements are all closed.
LEMMA ToldFlushed ==
    ASSUME NEW s \in Live, s.doc # 0, s.docDb \in {Storage, ~ Breaks}, s.docDb => Storage,
           Held(s, s.stack), NEW path, s \in ToldSet(s, s.stack, path)
    PROVE  LET r == Flushed(s)
           IN  /\ Unsaid(r.breaker) /\ s.words \subseteq r.words
               /\ \A d \in 1 .. MaxDoc : d # s.doc => r.pages[d] = s.pages[d]
               /\ ~ s.docDb => r.pages = s.pages
               /\ s.docDb /\ Elems(s.open) = <<>> =>
                    \A p \in DOMAIN r.pages[s.doc] : ~ SpoiltByHeader(s.doc, p) =>
                      \A y \in Tales(r.pages[s.doc][p]) : Tells(r.words, s.doc, y)
<1> DEFINE A == ToldSet(s, s.stack, path)
           ended == AdornerEndDocument(s)
           r == Flushed(s)
           x == <<"text", "\n">>
<1>1. s.stack \in Seq(Elem)
  BY DEF Live, Handler
<1>2. Closed(A)
  BY <1>1, ToldIsClosed
<1>3. x \in Plain /\ x \in Item /\ x[1] # "w"
  BY PlainFacts DEF Plain, Text, Spaces
<1> HIDE DEF x
<1>4. ASSUME NEW q \in A, Settled(q)
      PROVE  Output(q, <<x>>) \in A
  BY <1>1, <1>3, <1>4, ToldPuts
<1>5. ASSUME NEW q \in A
      PROVE  /\ q \in Live /\ q.doc # 0 /\ q.doc = s.doc /\ q.docDb = s.docDb /\ q.words = s.words
             /\ q.stack = s.stack /\ Elems(q.open) = Elems(s.open) /\ Unsaid(q.breaker) /\ Told(q)
             /\ Paged(q, s.stack, path)
             /\ \A d \in 1 .. MaxDoc : d # s.doc => q.pages[d] = s.pages[d]
             /\ ~ q.docDb => q.pages = s.pages
             /\ ~ Storage => q.output = <<>>
  BY DEF ToldSet, PagedSet, CleanSet, Kept, Clean
<1>6. s \in A
  OBVIOUS
<1> HIDE DEF A
<1>7. PICK c \in A :
        /\ Settled(c) /\ ended \in Live
        /\ ended.pages = IF c.docDb
                         THEN [c.pages EXCEPT ![c.doc] = WithPage(@, Current(c).at.pge, EndText(c))]
                         ELSE c.pages
        /\ ended.breaker = IF Breaks THEN [c.breaker EXCEPT !.header = NextHeader(c.breaker, c.stack)]
                           ELSE c.breaker
        /\ ended.cache = c.cache /\ ended.words = c.words
  <2>1. \A q \in A : Settled(q) => Output(q, <<<<"text", "\n">>>>) \in A
    BY <1>4 DEF x
  <2>2. \A q \in A : /\ q.doc # 0 /\ q.docDb \in {Storage, ~ Breaks}
                     /\ ~ Storage => q.output = <<>>
                     /\ Settled(q) => Output(q, <<<<"text", "\n">>>>) \in A
    BY <1>5, <2>1
  <2> HIDE DEF ended
  <2> QED
    BY <1>2, <1>6, <2>2, EndedFacts DEF ended
<1>8. r.pages = ended.pages /\ r.breaker = ended.breaker /\ r.words = s.words \cup c.cache
  <2> DEFINE words == s.words \cup c.cache
  <2>1. r = [ended EXCEPT !.words = @ \cup ended.cache, !.cache = {}]
    BY DEF Flushed
  <2>2. r = [ended EXCEPT !.words = words, !.cache = {}]
    BY <1>5, <1>7, <2>1
  <2> HIDE DEF r, ended, words
  <2>3. r.pages = ended.pages /\ r.breaker = ended.breaker /\ r.words = words
    BY <1>7, <2>2 DEF Live, Handler
  <2> QED
    BY <2>3 DEF words
<1> HIDE DEF r, ended
<1>9. /\ c \in Live /\ c.doc # 0 /\ c.doc = s.doc /\ c.docDb = s.docDb
      /\ c.stack = s.stack /\ Elems(c.open) = Elems(s.open) /\ Unsaid(c.breaker) /\ Told(c)
      /\ Paged(c, s.stack, path)
      /\ \A d \in 1 .. MaxDoc : d # s.doc => c.pages[d] = s.pages[d]
      /\ ~ c.docDb => c.pages = s.pages
  BY <1>5
<1> DEFINE p == Current(c).at.pge
           text == EndText(c)
<1>10. /\ c.doc \in 1 .. MaxDoc /\ c.pages \in [1 .. MaxDoc -> Numbered]
       /\ c.breaker \in RecordBreaker /\ c.stack \in Seq(Elem)
       /\ Current(c).out = <<>> /\ c.closed = <<>>
  <2>1. c.doc \in 0 .. MaxDoc /\ MaxDoc \in Nat
    BY <1>9, BoundAssumption DEF Live, Handler
  <2>2. /\ c.pages \in [1 .. MaxDoc -> Numbered]
        /\ c.breaker \in RecordBreaker /\ c.stack \in Seq(Elem)
    BY <1>9 DEF Live, Handler
  <2>3. Current(c).out = <<>> /\ c.closed = <<>>
    BY <1>7 DEF Settled, Blank
  <2> QED
    BY <1>9, <2>1, <2>2, <2>3
<1>11. Unsaid(r.breaker)
  <2>1. CASE Breaks
    <3>1. r.breaker = [c.breaker EXCEPT !.header = NextHeader(c.breaker, c.stack)]
      BY <1>7, <1>8, <2>1
    <3>2. /\ r.breaker.extra = c.breaker.extra /\ r.breaker.kept = c.breaker.kept
          /\ r.breaker.header = NextHeader(c.breaker, c.stack)
      BY <1>10, <3>1 DEF RecordBreaker
    <3>3. Positions(NextHeader(c.breaker, c.stack)) = {}
      BY <1>9, <1>10, UnsaidHeader
    <3> QED
      BY <1>9, <3>2, <3>3 DEF Unsaid
  <2>2. CASE ~ Breaks
    BY <1>7, <1>8, <1>9, <2>2
  <2> QED
    BY <2>1, <2>2
<1>12. ASSUME s.docDb, Elems(s.open) = <<>>, ~ FirstIsSpoilt(c), NEW y \in Tales(Shown(c))
       PROVE  Known(c, y)
  BY <1>9, <1>12 DEF Told
<1>13. ASSUME Elems(s.open) = <<>>, NEW y, Known(c, y)
       PROVE  Tells(r.words, s.doc, y)
  <2>1. DOMAIN c.open = {} /\ DOMAIN c.closed = {}
    <3>1. DOMAIN Elems(c.open) = DOMAIN c.open
      BY DEF Elems
    <3> QED
      BY <1>9, <1>10, <1>13, <3>1
  <2>2. Tells(c.cache, s.doc, y)
    BY <1>9, <1>13, <2>1 DEF Known, Nodes
  <2>3. c.cache \subseteq r.words
    BY <1>8
  <2> QED
    BY <2>2, <2>3, TellsMore
<1>14. Tales(text) = Tales(Shown(c))
  <2>1. CASE Breaks
    BY <1>9, <1>10, <2>1, TalesOfRecord DEF EndText
  <2>2. CASE ~ Breaks
    <3>1. c.breaker.header = <<>> /\ c.output \in Seq(Item)
      BY <1>9, <2>2, ShownType DEF Paged
    <3>2. Shown(c) = c.output
      BY <1>10, <3>1, TextsJoin DEF Shown
    <3> QED
      BY <2>2, <3>2 DEF EndText
  <2> QED
    BY <2>1, <2>2
<1>15. p = c.dec["main"].at.pge
  <2>1. c.cur \in {"main", "note"}
    BY <1>9, CurrentType
  <2> QED
    BY <1>9, <2>1 DEF Paged, Current
<1> HIDE DEF text, p
<1>16. ASSUME NEW d \in 1 .. MaxDoc
       PROVE  /\ d # c.doc => r.pages[d] = c.pages[d]
              /\ ~ c.docDb => r.pages = c.pages
              /\ c.docDb /\ d = c.doc => r.pages[d] = WithPage(c.pages[d], p, text)
  BY <1>7, <1>8, <1>10 DEF p, text
<1>17. ASSUME s.docDb, Elems(s.open) = <<>>, NEW k \in DOMAIN r.pages[s.doc],
              ~ SpoiltByHeader(s.doc, k), NEW y \in Tales(r.pages[s.doc][k])
       PROVE  Tells(r.words, s.doc, y)
  <2>1. r.pages[s.doc] = WithPage(c.pages[s.doc], p, text)
    BY <1>9, <1>10, <1>16, <1>17
  <2>2. CASE k = p
    <3>1. r.pages[s.doc][k] = text
      BY <2>1, <2>2 DEF WithPage
    <3>2. ~ FirstIsSpoilt(c)
      BY <1>9, <1>15, <1>17, <2>2 DEF FirstIsSpoilt
    <3> QED
      BY <1>12, <1>13, <1>14, <1>17, <3>1, <3>2
  <2>3. CASE k # p
    <3>1. k \in DOMAIN c.pages[s.doc] /\ r.pages[s.doc][k] = c.pages[s.doc][k]
      BY <1>17, <2>1, <2>3 DEF WithPage
    <3>2. Known(c, y)
      BY <1>9, <1>17, <3>1 DEF Told
    <3> QED
      BY <1>13, <1>17, <3>2
  <2> QED
    BY <2>2, <2>3
<1>18. /\ \A d \in 1 .. MaxDoc : d # s.doc => r.pages[d] = s.pages[d]
       /\ ~ s.docDb => r.pages = s.pages
  BY <1>7, <1>8, <1>9, <1>10, <1>16
<1> QED
  BY <1>8, <1>11, <1>17, <1>18 DEF r

LEMMA StartsEven == Even(Cleared) /\ Even(NoteStart)
<1>1. Cleared.at.pos = 0 /\ Cleared.wrdAt.pos = 0 /\ Cleared.isBreak
  BY DEF Cleared, Nowhere
<1>2. NoteStart.at.pos = NotePos /\ NoteStart.wrdAt.pos = 0 /\ NoteStart.isBreak
  BY StartTypes DEF Nowhere
<1>3. 0 <= NotePos
  BY DEF NotePos
<1> QED
  BY <1>1, <1>2, <1>3 DEF Even

LEMMA TellingEnd ==
    ASSUME Steady, Pagination, Telling, EndDocument
    PROVE  Telling'
<1> DEFINE r == Flushed(ix)
<1>1. /\ Parsing /\ ix' = r /\ usage' = usage
      /\ done' = IF rooted /\ ix.stack = <<>> THEN done \cup {ix.doc} ELSE done
  BY DEF EndDocument
<1>2. /\ ix \in Live /\ ix.doc # 0 /\ ix.docDb = Storage /\ Clean(ix)
      /\ Elems(ix.open) = ix.stack /\ Held(ix, ix.stack) /\ Unsaid(ix.breaker) /\ Told(ix)
      /\ ix \in CleanSet(ix) /\ Paged(ix, ix.stack, ix.stack)
  BY <1>1, ToldNow
<1>3. ix \in ToldSet(ix, ix.stack, ix.stack)
  BY <1>2 DEF ToldSet, PagedSet
<1>4. r.doc = 0
  BY <1>2, CleanFlushed
<1>5. /\ Unsaid(r.breaker) /\ ix.words \subseteq r.words
      /\ \A d \in 1 .. MaxDoc : d # ix.doc => r.pages[d] = ix.pages[d]
      /\ ~ Storage => r.pages = ix.pages
      /\ Storage /\ ix.stack = <<>> =>
           \A p \in DOMAIN r.pages[ix.doc] : ~ SpoiltByHeader(ix.doc, p) =>
             \A y \in Tales(r.pages[ix.doc][p]) : Tells(r.words, ix.doc, y)
  BY <1>2, <1>3, ToldFlushed
<1> HIDE DEF r
<1>6. /\ ix.doc \in 1 .. MaxDoc /\ ix.doc \notin done /\ done \subseteq 1 .. MaxDoc
  <2>1. /\ begun \in 0 .. MaxDoc /\ MaxDoc \in Nat /\ done \subseteq 1 .. begun
        /\ ix.doc = begun /\ ix.doc \notin done
    BY <1>2, BoundAssumption DEF Steady, Pagination
  <2> QED
    BY <1>2, <2>1
<1>7. ~ Storage => \A d \in 1 .. MaxDoc : DOMAIN r.pages[d] = {}
  BY <1>5 DEF Telling
<1>8. ASSUME NEW d \in done', NEW p \in DOMAIN r.pages[d], ~ SpoiltByHeader(d, p),
             NEW y \in Tales(r.pages[d][p])
      PROVE  Tells(r.words, d, y)
  <2>1. CASE d \in done
    <3>1. r.pages[d] = ix.pages[d]
      BY <1>5, <1>6, <2>1
    <3>2. Tells(ix.words, d, y)
      BY <1>8, <2>1, <3>1 DEF Telling
    <3> QED
      BY <1>5, <3>2, TellsMore
  <2>2. CASE d \notin done
    <3>1. d = ix.doc /\ ix.stack = <<>>
      BY <1>1, <1>8, <2>2
    <3>2. Storage
      BY <1>6, <1>7, <1>8, <3>1
    <3> QED
      BY <1>5, <1>8, <3>1, <3>2
  <2> QED
    BY <2>1, <2>2
<1>9. /\ Storage' = Storage /\ \A d, p : SpoiltByHeader(d, p)' = SpoiltByHeader(d, p)
  BY <1>1 DEF Storage, SpoiltByHeader, Keeps
<1> QED
  BY <1>1, <1>4, <1>5, <1>7, <1>8, <1>9 DEF Telling

LEMMA TellingStart ==
    ASSUME Steady, Pagination, Telling, NEW d \in 1 .. MaxDoc, StartDocument(d)
    PROVE  Telling'
<1> DEFINE r == [AdornerStartDocument(ix, d) EXCEPT !.cache = {}, !.open = <<>>, !.closed = <<>>]
<1>1. ix.doc = 0 /\ d = begun + 1 /\ UNCHANGED <<usage, done>> /\ ix' = r
  BY DEF StartDocument, IsNext
<1>2. ix \in Handler /\ Resting(ix) /\ begun \in Nat
  BY <1>1 DEF Steady
<1>3. /\ r \in Live /\ r.cur = "main" /\ r.doc = d
      /\ r.dec["main"] = Cleared /\ r.dec["note"] = NoteStart
      /\ r.output = IF Storage THEN <<Declaration>> ELSE <<>>
      /\ r.breaker = IF Breaks THEN BreakerStartDocument(ix.breaker) ELSE ix.breaker
      /\ r.pages = ix.pages /\ r.words = ix.words
  BY <1>2, StartedFacts
<1> HIDE DEF r
<1>4. Unsaid(ix.breaker) /\ ix.breaker \in RecordBreaker /\ DOMAIN r.pages[d] = {}
  <2>1. d > begun
    BY <1>1, <1>2
  <2> QED
    BY <1>2, <1>3, <2>1 DEF Telling, Pagination, Handler
<1>5. Unsaid(r.breaker)
  BY <1>3, <1>4, UnsaidBegins
<1>6. \A k \in {"main", "note"} : Even(r.dec[k])
  BY <1>3, StartsEven
<1>7. Storage => Tales(Shown(r)) = {}
  <2> SUFFICES ASSUME Storage PROVE Tales(Shown(r)) = {}
    OBVIOUS
  <2> DEFINE h == r.breaker.header
             t == <<Declaration>>
  <2>1. h \in Seq(Item) /\ Positions(h) = {}
    BY <1>3, <1>5 DEF Live, Handler, RecordBreaker, Unsaid
  <2>2. t \in Seq(Item) /\ Positions(t) = {}
    BY PlainFacts DEF Positions, Declaration
  <2>3. Current(r).out = <<>>
    BY <1>3, StartTypes DEF Current, Blank
  <2> HIDE DEF t, h
  <2>4. h \o t \in Seq(Item)
    BY <2>1, <2>2, TextsJoin
  <2>5. Shown(r) = h \o t
    <3>1. Shown(r) = (h \o t) \o <<>>
      BY <1>3, <2>3 DEF Shown, h, t
    <3> QED
      BY <2>4, <3>1, TextsJoin
  <2>6. Tales(h \o t) = Tales(h)
    BY <2>1, <2>2, TalesJoin
  <2> QED
    BY <2>1, <2>5, <2>6, NoTales
<1>8. Told(r)
  BY <1>3, <1>4, <1>6, <1>7 DEF Told
<1>9. Told(ix)'
  BY <1>1, <1>8 DEF Told, Storage, FirstIsSpoilt, SpoiltByHeader, Keeps
<1>10. /\ Storage' = Storage /\ \A k, p : SpoiltByHeader(k, p)' = SpoiltByHeader(k, p)
  BY <1>1 DEF Storage, SpoiltByHeader, Keeps
<1> QED
  BY <1>1, <1>3, <1>5, <1>9, <1>10 DEF Telling

LEMMA TellingFails ==
    ASSUME Steady, Pagination, Telling, NEW d \in 1 .. MaxDoc, StartDocumentFails(d)
    PROVE  Telling'
<1> DEFINE q == AdornerReset(ix, d)
           r == Flushed(q)
<1>1. /\ ix.doc = 0 /\ d = begun + 1 /\ UNCHANGED <<usage, done>> /\ Keeps /\ ix' = r
  BY DEF StartDocumentFails, IsNext
<1>2. ix \in Handler /\ Resting(ix) /\ begun \in Nat /\ Storage /\ Breaks
  BY <1>1 DEF Steady, Keeps, Storage, Breaks
<1>3. /\ q \in Live /\ q.cur = "main" /\ q.doc = d /\ q.docDb = ix.docDb
      /\ q.dec["main"] = Cleared /\ q.dec["note"] = NoteStart
      /\ q.stack = ix.stack /\ q.output = <<>> /\ q.pages = ix.pages
      /\ q.breaker = BreakerStartDocument(ix.breaker)
      /\ q.open = ix.open /\ q.closed = ix.closed /\ q.cache = ix.cache /\ q.words = ix.words
  BY <1>2, ResetFacts
<1> HIDE DEF q
<1>4. Clean(q) /\ q.doc # 0 /\ q.docDb = FALSE /\ q.stack = <<>>
  <2>1. Blank(NoteStart)
    BY StartTypes
  <2>2. \A i \in DOMAIN q.open : Dated(q.open[i])
    BY <1>2, <1>3 DEF Resting
  <2>3. q.closed = <<>> /\ q.cache = {} /\ q.docDb = FALSE /\ q.stack = <<>>
    BY <1>2, <1>3 DEF Resting
  <2> QED
    BY <1>2, <1>3, <2>1, <2>2, <2>3 DEF Clean
<1>5. q.docDb \in {Storage, ~ Breaks}
  <2>1. (~ Breaks) = FALSE
    BY <1>2
  <2> QED
    BY <1>4, <2>1
<1>6. q \in ToldSet(q, q.stack, <<>>)
  <2>1. Paged(q, q.stack, <<>>)
    BY <1>1, <1>2, <1>3, <1>4, ResetIsPaged
  <2>2. Unsaid(q.breaker)
    BY <1>2, <1>3, UnsaidBegins DEF Telling, Handler
  <2>3. \A k \in {"main", "note"} : Even(q.dec[k])
    BY <1>3, StartsEven
  <2>4. Told(q)
    BY <1>4, <2>3 DEF Told
  <2>5. q \in CleanSet(q)
    BY <1>3, <1>4 DEF CleanSet, Kept
  <2> QED
    BY <2>1, <2>2, <2>4, <2>5 DEF ToldSet, PagedSet
<1>7. Held(q, q.stack)
  BY <1>4 DEF Held, Range
<1>8. Unsaid(r.breaker) /\ q.words \subseteq r.words /\ r.pages = q.pages
  BY <1>2, <1>3, <1>4, <1>5, <1>6, <1>7, ToldFlushed
<1>9. r.doc = 0
  BY <1>3, <1>4, <1>5, CleanFlushed
<1> HIDE DEF r
<1>10. \A k \in done : \A p \in DOMAIN r.pages[k] : ~ SpoiltByHeader(k, p) =>
         \A y \in Tales(r.pages[k][p]) : Tells(r.words, k, y)
  <2>1. ix.words \subseteq r.words /\ r.pages = ix.pages
    BY <1>3, <1>8
  <2> QED
    BY <2>1, TellsMore DEF Telling
<1>11. /\ Storage' = Storage /\ \A k, p : SpoiltByHeader(k, p)' = SpoiltByHeader(k, p)
  BY <1>1 DEF Storage, SpoiltByHeader, Keeps
<1> QED
  BY <1>1, <1>2, <1>8, <1>9, <1>10, <1>11 DEF Telling

LEMMA TellingInit == Init => Telling
<1> SUFFICES ASSUME Init PROVE Telling
  OBVIOUS
<1>1. /\ ix = NewHandler([d \in 1 .. MaxDoc |-> [x \in {} |-> <<>>]], {}) /\ done = {}
  BY DEF Init
<1>2. /\ ix.doc = 0 /\ ix.breaker = NewBreaker
      /\ ix.pages = [d \in 1 .. MaxDoc |-> [x \in {} |-> <<>>]]
  BY <1>1 DEF NewHandler
<1>3. \A d \in 1 .. MaxDoc : DOMAIN ix.pages[d] = {}
  BY <1>2
<1>4. ix.breaker.header = <<>> /\ ix.breaker.extra = <<>> /\ DOMAIN ix.breaker.kept = {}
  BY <1>2 DEF NewBreaker
<1>5. Unsaid(ix.breaker)
  BY <1>4, NoPositions DEF Unsaid
<1> QED
  BY <1>1, <1>2, <1>3, <1>5 DEF Telling

\* Every step keeps the words known.
LEMMA TellingNext ==
    ASSUME Steady, Pagination, Telling, RootIsNotRepeated, [Next]_vars
    PROVE  Telling'
<1>1. CASE \E d \in 1 .. MaxDoc : StartDocument(d) \/ StartDocumentFails(d)
  BY <1>1, TellingStart, TellingFails
<1>2. CASE \E e \in Elem : StartNode(e)
  BY <1>2, TellingStartNode
<1>3. CASE EndNode
  BY <1>3, TellingEndNode
<1>4. CASE EndNodeLoops
  BY <1>4, TellingLoops
<1>5. CASE \E c \in Chunk : Characters(c)
  BY <1>5, TellingCharacters
<1>6. CASE EndDocument
  BY <1>6, TellingEnd
<1>7. CASE UNCHANGED vars
  <2>1. UNCHANGED <<ix, usage, done>>
    BY <1>7 DEF vars
  <2>2. /\ Storage' = Storage /\ \A d, p : SpoiltByHeader(d, p)' = SpoiltByHeader(d, p)
    BY <2>1 DEF Storage, SpoiltByHeader, Keeps
  <2>3. Told(ix)' = Told(ix)
    BY <2>1 DEF Told, Storage, FirstIsSpoilt, SpoiltByHeader, Keeps
  <2> QED
    BY <2>1, <2>2, <2>3 DEF Telling
<1> QED
  BY <1>1, <1>2, <1>3, <1>4, <1>5, <1>6, <1>7 DEF Next

(***************************************************************************)
(* A word that a page of a parsed document shows inside an element is      *)
(* found at its position in the indexes of that element, provided that the *)
(* content of the root is not repeated.                                    *)
(***************************************************************************)
THEOREM WordsAreFound ==
    ASSUME RootIsNotRepeated
    PROVE  Spec => []ShownWordsAreIndexed
<1>1. Telling => ShownWordsAreIndexed
  <2> SUFFICES ASSUME Telling, NEW d \in done, NEW p \in DOMAIN ix.pages[d],
                      NEW i \in Words(d, p), NEW e \in Around(ix.pages[d][p], i),
                      NEW x \in Items[e], x.typ = "word", ~ SpoiltByHeader(d, p)
               PROVE  \E w \in ix.words :
                        /\ w.ndx = x.ndx /\ w.doc = d /\ w.pos = ix.pages[d][p][i][2]
                        /\ \E k \in DOMAIN w.wrd : w.wrd[k] = ix.pages[d][p][i][3]
    BY DEF ShownWordsAreIndexed
  <2> DEFINE t == ix.pages[d][p]
             y == <<t[i][2], t[i][3], e>>
  <2>1. y \in Tales(t)
    BY DEF Tales, Words
  <2>2. y[1] = t[i][2] /\ y[2] = t[i][3] /\ y[3] = e
    OBVIOUS
  <2> HIDE DEF y
  <2>3. Tells(ix.words, d, y)
    BY <2>1 DEF Telling
  <2> QED
    BY <2>2, <2>3 DEF Tells
<1>2. Steady /\ Pagination /\ Telling /\ [Next]_vars => (Steady /\ Pagination /\ Telling)'
  BY SteadyNext, PaginationNext, TellingNext
<1>3. Init => Steady /\ Pagination /\ Telling
  BY SteadyInit, PaginationInit, TellingInit
<1> QED
  BY <1>1, <1>2, <1>3, PTL DEF Spec
=============================================================================
