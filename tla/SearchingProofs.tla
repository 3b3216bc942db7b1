--------------------------- MODULE SearchingProofs ---------------------------
(***************************************************************************)
(* Proofs about EntryMerge and Searching.  A merge of two lists keeps what *)
(* meets; and the merges add up to the search: what the lists hold between *)
(* two merges, for phrases, proximity searches, boolean queries and        *)
(* criteria, and what of the result is shown and highlighted.              *)
(***************************************************************************)
EXTENDS Searching, FoldProofs, FiniteSetTheorems

-----------------------------------------------------------------------------
(***************************************************************************)
(* The order of the entries, and what the merges compare.                  *)
(***************************************************************************)

\* Less is a strict total order on the places.
LEMMA LessIsTotalOrder ==
    ASSUME NEW a \in Place, NEW b \in Place, NEW c \in Place
    PROVE  /\ ~ Less(a, a)
           /\ Less(a, b) => ~ Less(b, a)
           /\ Less(a, b) /\ Less(b, c) => Less(a, c)
           /\ a = b \/ Less(a, b) \/ Less(b, a)
<1>1. /\ a \in [doc : Nat, pge : Nat, pos : Nat]
      /\ b \in [doc : Nat, pge : Nat, pos : Nat]
      /\ c \in [doc : Nat, pge : Nat, pos : Nat]
  BY PlaceAssumption
<1>2. a.doc = b.doc /\ a.pge = b.pge /\ a.pos = b.pos => a = b
  BY <1>1
<1> QED
  BY <1>1, <1>2 DEF Less

Exact == {"and", "doc", "page"}

\* The merges by entry, document and page compare keys, in the order of the
\* entries: to be behind is a weak order that the order of entries refines.
LEMMA KeysAreOrdered ==
    ASSUME NEW o \in Exact, NEW w \in Window,
           NEW a \in Place, NEW b \in Place, NEW c \in Place
    PROVE  /\ SecondIsBehind(o, w, a, b) <=> FirstIsBehind(o, w, b, a)
           /\ FirstIsBehind(o, w, a, b) => Less(a, b)
           /\ FirstIsBehind(o, w, a, b) => ~ FirstIsBehind(o, w, b, a)
           /\ FirstIsBehind(o, w, a, b) => \/ FirstIsBehind(o, w, a, c)
                                           \/ FirstIsBehind(o, w, c, b)
<1>1. /\ a \in [doc : Nat, pge : Nat, pos : Nat]
      /\ b \in [doc : Nat, pge : Nat, pos : Nat]
      /\ c \in [doc : Nat, pge : Nat, pos : Nat]
  BY PlaceAssumption
<1>2. CASE o = "and"
  BY <1>1, <1>2 DEF FirstIsBehind, SecondIsBehind, Less
<1>3. CASE o = "doc"
  BY <1>1, <1>3 DEF FirstIsBehind, SecondIsBehind, Less
<1>4. CASE o = "page"
  BY <1>1, <1>4 DEF FirstIsBehind, SecondIsBehind, Less, SamePage
<1> QED
  BY <1>2, <1>3, <1>4 DEF Exact

\* To be behind is passed on along the order, on either side.
LEMMA BehindIsMonotonic ==
    ASSUME NEW o \in Exact, NEW w \in Window,
           NEW a \in Place, NEW b \in Place, NEW c \in Place
    PROVE  /\ FirstIsBehind(o, w, a, b) /\ ~ FirstIsBehind(o, w, c, b) => FirstIsBehind(o, w, a, c)
           /\ FirstIsBehind(o, w, a, b) /\ ~ FirstIsBehind(o, w, a, c) => FirstIsBehind(o, w, c, b)
           /\ FirstIsBehind(o, w, a, b) /\ ~ Less(c, b) => FirstIsBehind(o, w, a, c)
  BY KeysAreOrdered

\* Two places of a phrase or a near merge that meet are in one document, and
\* a place that is behind an entry of its document is behind all later ones
\* when positions are in reading order.
LEMMA MeetIsInDocument ==
    ASSUME NEW o \in {"phrase", "near"}, NEW w \in Window,
           NEW a \in Place, NEW b \in Place, NEW c \in Place
    PROVE  /\ Meet(o, w, a, b) => a.doc = b.doc
           /\ a.doc = b.doc /\ c.doc # a.doc /\ FirstIsBehind(o, w, a, c) => Less(b, c)
           /\ a.doc = b.doc /\ c.doc # b.doc /\ SecondIsBehind(o, w, c, b) => Less(a, c)
           /\ a.doc = b.doc /\ c.doc = b.doc /\ c.pos <= b.pos /\ FirstIsBehind(o, w, a, c)
                => FirstIsBehind(o, w, a, b)
           /\ a.doc = b.doc /\ c.doc = b.doc /\ c.pos <= a.pos /\ SecondIsBehind(o, w, c, b)
                => SecondIsBehind(o, w, a, b)
<1>1. /\ a \in [doc : Nat, pge : Nat, pos : Nat]
      /\ b \in [doc : Nat, pge : Nat, pos : Nat]
      /\ c \in [doc : Nat, pge : Nat, pos : Nat]
      /\ w \in Nat
  BY PlaceAssumption, WindowAssumption
<1>2. CASE o = "phrase"
  BY <1>1, <1>2 DEF Meet, FirstIsBehind, SecondIsBehind, Less
<1>3. CASE o = "near"
  BY <1>1, <1>3 DEF Meet, FirstIsBehind, SecondIsBehind, Less
<1> QED
  BY <1>2, <1>3

-----------------------------------------------------------------------------
(***************************************************************************)
(* The walk: what the iterators have passed lies before what they have     *)
(* not, and e1 and e2 are entries that met and were kept.                  *)
(***************************************************************************)
Passed == /\ \A x \in first \ rest1, y \in rest1 : Less(x, y)
          /\ \A x \in second \ rest2, y \in rest2 : Less(x, y)

Matched == pc \in {"more1", "more2"} =>
              /\ ReducesBoth(op)
              /\ at1 \in set1 \ rest1
              /\ at2 \in set2 \ rest2
              /\ Meet(op, window, at1, at2)

Ended == pc = "done" => rest1 = {} /\ rest2 = {}

Walk == MergeTypeOK /\ Passed /\ Matched /\ Ended

LEMMA InitWalks == MergeInit => Walk
  BY DEF MergeInit, Called, Walk, MergeTypeOK, Passed, Matched, Ended, Merges

\* The least of what is left lies before the rest of it.
LEMMA LeastIsBefore ==
    ASSUME NEW s \in SUBSET Place, NEW r \in SUBSET s, NEW e \in r, StandsOn(e, r),
           \A x \in s \ r, y \in r : Less(x, y)
    PROVE  /\ \A x \in r \ {e} : Less(e, x)
           /\ \A x \in s \ (r \ {e}), y \in r \ {e} : Less(x, y)
<1>1. \A x \in r \ {e} : Less(e, x)
  BY LessIsTotalOrder DEF StandsOn
<1> QED
  BY <1>1

\* Every step keeps the walk in order.
LEMMA StepWalks == Walk /\ [MergeNext]_mergeVars => Walk'
<1> SUFFICES ASSUME Walk, [MergeNext]_mergeVars
             PROVE  Walk'
  OBVIOUS
<1> USE DEF Walk
<1>1. CASE EraseFirst
  <2>1. PICK a \in rest1, b \in rest2 : /\ StandsOn(a, rest1)
                                        /\ set1' = set1 \ {a} /\ rest1' = rest1 \ {a}
    BY <1>1 DEF EraseFirst
  <2>2. MergeTypeOK'
    BY <1>1, <2>1 DEF EraseFirst, MergeTypeOK
  <2>3. Passed'
    BY <1>1, <2>1, LeastIsBefore DEF EraseFirst, MergeTypeOK, Passed
  <2>4. Matched' /\ Ended'
    BY <1>1 DEF EraseFirst, Matched, Ended
  <2> QED
    BY <2>2, <2>3, <2>4
<1>2. CASE PassSecond
  <2>1. PICK a \in rest1, b \in rest2 : /\ StandsOn(b, rest2)
                                        /\ set2' = IF ReducesBoth(op) THEN set2 \ {b} ELSE set2
                                        /\ rest2' = rest2 \ {b}
    BY <1>2 DEF PassSecond
  <2>2. MergeTypeOK'
    BY <1>2, <2>1 DEF PassSecond, MergeTypeOK
  <2>3. Passed'
    BY <1>2, <2>1, LeastIsBefore DEF PassSecond, MergeTypeOK, Passed
  <2>4. Matched' /\ Ended'
    BY <1>2 DEF PassSecond, Matched, Ended
  <2> QED
    BY <2>2, <2>3, <2>4
<1>3. CASE MatchBoth
  <2>1. PICK a \in rest1, b \in rest2 : /\ StandsOn(a, rest1) /\ StandsOn(b, rest2)
                                        /\ Meet(op, window, a, b)
                                        /\ rest1' = rest1 \ {a} /\ rest2' = rest2 \ {b}
                                        /\ at1' = a /\ at2' = b
    BY <1>3 DEF MatchBoth
  <2>2. MergeTypeOK'
    BY <1>3, <2>1 DEF MatchBoth, MergeTypeOK
  <2>3. Passed'
    BY <1>3, <2>1, LeastIsBefore DEF MatchBoth, MergeTypeOK, Passed
  <2>4. Matched' /\ Ended'
    BY <1>3, <2>1 DEF MatchBoth, Matched, Ended, MergeTypeOK
  <2> QED
    BY <2>2, <2>3, <2>4
<1>4. CASE MatchDoc
  <2>1. PICK a \in rest1, b \in rest2 : StandsOn(a, rest1) /\ rest1' = rest1 \ {a}
    BY <1>4 DEF MatchDoc
  <2>2. MergeTypeOK'
    BY <1>4, <2>1 DEF MatchDoc, MergeTypeOK
  <2>3. Passed'
    BY <1>4, <2>1, LeastIsBefore DEF MatchDoc, MergeTypeOK, Passed
  <2>4. Matched' /\ Ended'
    BY <1>4 DEF MatchDoc, Matched, Ended
  <2> QED
    BY <2>2, <2>3, <2>4
<1>5. CASE SkipFirst
  <2>1. PICK a \in rest1 : StandsOn(a, rest1) /\ rest1' = rest1 \ {a}
    BY <1>5 DEF SkipFirst
  <2>2. MergeTypeOK'
    BY <1>5, <2>1 DEF SkipFirst, MergeTypeOK
  <2>3. Passed'
    BY <1>5, <2>1, LeastIsBefore DEF SkipFirst, MergeTypeOK, Passed
  <2>4. Matched' /\ Ended'
    BY <1>5, <2>1 DEF SkipFirst, Matched, Ended
  <2> QED
    BY <2>2, <2>3, <2>4
<1>6. CASE FirstSkipped
  BY <1>6 DEF FirstSkipped, MergeTypeOK, Passed, Matched, Ended
<1>7. CASE SkipSecond
  <2>1. PICK b \in rest2 : StandsOn(b, rest2) /\ rest2' = rest2 \ {b}
    BY <1>7 DEF SkipSecond
  <2>2. MergeTypeOK'
    BY <1>7, <2>1 DEF SkipSecond, MergeTypeOK
  <2>3. Passed'
    BY <1>7, <2>1, LeastIsBefore DEF SkipSecond, MergeTypeOK, Passed
  <2>4. Matched' /\ Ended'
    BY <1>7, <2>1 DEF SkipSecond, Matched, Ended
  <2> QED
    BY <2>2, <2>3, <2>4
<1>8. CASE SecondSkipped
  BY <1>8 DEF SecondSkipped, MergeTypeOK, Passed, Matched, Ended
<1>9. CASE EraseRest
  BY <1>9 DEF EraseRest, MergeTypeOK, Passed, Matched, Ended
<1>10. CASE UNCHANGED mergeVars
  BY <1>10 DEF mergeVars, MergeTypeOK, Passed, Matched, Ended
<1> QED
  BY <1>1, <1>2, <1>3, <1>4, <1>5, <1>6, <1>7, <1>8, <1>9, <1>10 DEF MergeNext

\* The sets a merge works on stay parts of its arguments, and the iterators
\* parts of the sets, for every set of places and every window.
THEOREM MergeTypeCorrect == MergeSpec => []MergeTypeOK
<1>1. Walk => MergeTypeOK
  BY DEF Walk
<1> QED
  BY <1>1, InitWalks, StepWalks, PTL DEF MergeSpec

-----------------------------------------------------------------------------
(***************************************************************************)
(* Soundness: an entry that was passed and kept has a partner that was     *)
(* passed and kept as well, and such pairs are never erased again.         *)
(***************************************************************************)
Partnered ==
    ReducesBoth(op) =>
        /\ \A x \in set1 \ rest1 : \E y \in set2 \ rest2 : Meet(op, window, x, y)
        /\ \A y \in set2 \ rest2 : \E x \in set1 \ rest1 : Meet(op, window, x, y)

\* Nothing is passed at first.
LEMMA InitPartners == MergeInit => Partnered
  BY DEF MergeInit, Called, Partnered

\* Whatever a step passes and keeps gets a partner, and keeps it.
LEMMA StepPartners == Walk /\ Partnered /\ [MergeNext]_mergeVars => Partnered'
<1> SUFFICES ASSUME Walk, Partnered, [MergeNext]_mergeVars
             PROVE  Partnered'
  OBVIOUS
<1> USE DEF Walk
<1>1. CASE EraseFirst
  BY <1>1 DEF EraseFirst, Partnered
<1>2. CASE PassSecond
  <2>1. ReducesBoth(op) => set2' \ rest2' = set2 \ rest2
    BY <1>2 DEF PassSecond
  <2> QED
    BY <1>2, <2>1 DEF PassSecond, Partnered
<1>3. CASE MatchBoth
  <2>1. PICK a \in rest1, b \in rest2 : /\ Meet(op, window, a, b)
                                        /\ rest1' = rest1 \ {a} /\ rest2' = rest2 \ {b}
    BY <1>3 DEF MatchBoth
  <2>2. /\ set1' \ rest1' = (set1 \ rest1) \cup {a}
        /\ set2' \ rest2' = (set2 \ rest2) \cup {b}
    BY <1>3, <2>1 DEF MatchBoth, MergeTypeOK
  <2>3. op' = op /\ window' = window
    BY <1>3 DEF MatchBoth
  <2> QED
    BY <2>1, <2>2, <2>3 DEF Partnered
<1>4. CASE MatchDoc
  BY <1>4 DEF MatchDoc, Partnered, ReducesBoth
<1>5. CASE SkipFirst
  <2>1. PICK a \in rest1 : Meet(op, window, a, at2) /\ rest1' = rest1 \ {a}
    BY <1>5 DEF SkipFirst
  <2>2. set1' \ rest1' = (set1 \ rest1) \cup {a} /\ set2' \ rest2' = set2 \ rest2
    BY <1>5, <2>1 DEF SkipFirst, MergeTypeOK
  <2>3. op' = op /\ window' = window /\ at2 \in set2 \ rest2
    BY <1>5 DEF SkipFirst, Matched
  <2> QED
    BY <2>1, <2>2, <2>3 DEF Partnered
<1>6. CASE FirstSkipped
  BY <1>6 DEF FirstSkipped, Partnered
<1>7. CASE SkipSecond
  <2>1. PICK b \in rest2 : Meet(op, window, at1, b) /\ rest2' = rest2 \ {b}
    BY <1>7 DEF SkipSecond
  <2>2. set2' \ rest2' = (set2 \ rest2) \cup {b} /\ set1' \ rest1' = set1 \ rest1
    BY <1>7, <2>1 DEF SkipSecond, MergeTypeOK
  <2>3. op' = op /\ window' = window /\ at1 \in set1 \ rest1
    BY <1>7 DEF SkipSecond, Matched
  <2> QED
    BY <2>1, <2>2, <2>3 DEF Partnered
<1>8. CASE SecondSkipped
  BY <1>8 DEF SecondSkipped, Partnered
<1>9. CASE EraseRest
  BY <1>9 DEF EraseRest, Partnered
<1>10. CASE UNCHANGED mergeVars
  BY <1>10 DEF mergeVars, Partnered
<1> QED
  BY <1>1, <1>2, <1>3, <1>4, <1>5, <1>6, <1>7, <1>8, <1>9, <1>10 DEF MergeNext

\* The page, phrase and near merges keep no entry without a partner that they
\* keep, for every set of places and every window.
THEOREM MergesAreSound == MergeSpec => []ResultIsSound
<1>1. Walk /\ Partnered => ResultIsSound
  BY DEF Walk, Ended, Partnered, ResultIsSound, Meeting, Met
<1> QED
  BY <1>1, InitWalks, StepWalks, InitPartners, StepPartners, PTL DEF MergeSpec

-----------------------------------------------------------------------------
(***************************************************************************)
(* The documents a phrase or a near merge finds: two places that meet stay *)
(* ahead of the iterators until a pair of the document was kept.           *)
(***************************************************************************)
HasPair(d) == \E c \in set1 \ rest1, e \in set2 \ rest2 : c.doc = d /\ e.doc = d

Ahead ==
    op \in {"phrase", "near"} =>
        \A a \in first, b \in second :
            a.doc = b.doc /\ Meet(op, window, a, b) /\ InReadingOrder(a.doc) =>
                HasPair(a.doc) \/ (a \in rest1 /\ b \in rest2)

\* Everything is ahead at first.
LEMMA InitAhead == MergeInit => Ahead
  BY DEF MergeInit, Called, Ahead

\* No step passes a place of a pair that meets before a pair is kept.
LEMMA StepAhead == Walk /\ Ahead /\ [MergeNext]_mergeVars => Ahead'
<1> SUFFICES ASSUME Walk, Ahead, [MergeNext]_mergeVars, op' \in {"phrase", "near"},
                    NEW a \in first', NEW b \in second', a.doc = b.doc,
                    Meet(op', window', a, b), InReadingOrder(a.doc)'
             PROVE  (HasPair(a.doc) \/ (a \in rest1 /\ b \in rest2))'
  BY DEF Ahead
<1>0. /\ op' = op /\ window' = window /\ first' = first /\ second' = second
      /\ op \in {"phrase", "near"} /\ window \in Window
      /\ a \in Place /\ b \in Place /\ a \in first /\ b \in second
  BY DEF MergeNext, EraseFirst, PassSecond, MatchBoth, MatchDoc, SkipFirst, FirstSkipped,
         SkipSecond, SecondSkipped, EraseRest, mergeVars, Walk, MergeTypeOK
<1>a. Meet(op, window, a, b) /\ InReadingOrder(a.doc)
  BY <1>0 DEF InReadingOrder
<1>b. HasPair(a.doc) \/ (a \in rest1 /\ b \in rest2)
  BY <1>0, <1>a DEF Ahead
<1>c. set1 \subseteq first /\ set2 \subseteq second /\ rest1 \subseteq set1 /\ rest2 \subseteq set2
      /\ first \subseteq Place /\ second \subseteq Place
  BY DEF Walk, MergeTypeOK
<1>1. CASE EraseFirst
  <2>1. PICK x \in rest1, y \in rest2 : /\ StandsOn(y, rest2)
                                        /\ FirstIsBehind(op, window, x, y)
                                        /\ set1' = set1 \ {x} /\ rest1' = rest1 \ {x}
    BY <1>1 DEF EraseFirst
  <2>2. set1' \ rest1' = set1 \ rest1 /\ set2' = set2 /\ rest2' = rest2
    BY <1>1, <2>1, <1>c DEF EraseFirst
  <2>3. CASE HasPair(a.doc)
    BY <2>2, <2>3 DEF HasPair
  <2>4. CASE a \in rest1 /\ b \in rest2
    <3>1. a # x
      <4> SUFFICES ASSUME a = x PROVE FALSE
        OBVIOUS
      <4>1. ~ Less(b, y) /\ y \in Place /\ y \in second
        BY <2>1, <2>4, <1>c DEF StandsOn
      <4>2. y.doc = a.doc
        BY <4>1, <2>1, <1>0, MeetIsInDocument
      <4>3. y = b \/ Less(y, b)
        BY <4>1, <1>0, LessIsTotalOrder
      <4>4. y = b \/ y.pos <= b.pos
        BY <4>1, <4>2, <4>3, <1>0, <1>a DEF InReadingOrder
      <4>5. FirstIsBehind(op, window, a, b)
        BY <4>1, <4>2, <4>4, <2>1, <1>0, MeetIsInDocument
      <4> QED
        BY <4>5, <1>a DEF Meet
    <3> QED
      BY <3>1, <2>1, <2>2, <2>4
  <2> QED
    BY <1>b, <2>3, <2>4
<1>2. CASE PassSecond
  <2>1. PICK x \in rest1, y \in rest2 : /\ StandsOn(x, rest1)
                                        /\ SecondIsBehind(op, window, x, y)
                                        /\ set2' = set2 \ {y} /\ rest2' = rest2 \ {y}
    BY <1>2, <1>0 DEF PassSecond, ReducesBoth
  <2>2. set2' \ rest2' = set2 \ rest2 /\ set1' = set1 /\ rest1' = rest1
    BY <1>2, <2>1, <1>c DEF PassSecond
  <2>3. CASE HasPair(a.doc)
    BY <2>2, <2>3 DEF HasPair
  <2>4. CASE a \in rest1 /\ b \in rest2
    <3>1. b # y
      <4> SUFFICES ASSUME b = y PROVE FALSE
        OBVIOUS
      <4>1. ~ Less(a, x) /\ x \in Place /\ x \in first
        BY <2>1, <2>4, <1>c DEF StandsOn
      <4>2. x.doc = b.doc
        BY <4>1, <2>1, <1>0, MeetIsInDocument
      <4>3. x = a \/ Less(x, a)
        BY <4>1, <1>0, LessIsTotalOrder
      <4>4. x = a \/ x.pos <= a.pos
        BY <4>1, <4>2, <4>3, <1>0, <1>a DEF InReadingOrder
      <4>5. SecondIsBehind(op, window, a, b)
        BY <4>1, <4>2, <4>4, <2>1, <1>0, MeetIsInDocument
      <4> QED
        BY <4>5, <1>a DEF Meet
    <3> QED
      BY <3>1, <2>1, <2>2, <2>4
  <2> QED
    BY <1>b, <2>3, <2>4
<1>3. CASE MatchBoth
  <2>1. PICK x \in rest1, y \in rest2 : /\ Meet(op, window, x, y)
                                        /\ rest1' = rest1 \ {x} /\ rest2' = rest2 \ {y}
    BY <1>3 DEF MatchBoth
  <2>2. /\ set1' \ rest1' = (set1 \ rest1) \cup {x}
        /\ set2' \ rest2' = (set2 \ rest2) \cup {y}
    BY <1>3, <2>1, <1>c DEF MatchBoth
  <2>3. CASE HasPair(a.doc)
    BY <2>2, <2>3 DEF HasPair
  <2>4. CASE a \in rest1 /\ b \in rest2
    <3>1. x.doc = y.doc
      BY <2>1, <1>0, <1>c, MeetIsInDocument
    <3>2. CASE x.doc = a.doc
      BY <3>1, <3>2, <2>2 DEF HasPair
    <3>3. CASE x.doc # a.doc
      BY <3>1, <3>3, <2>1, <2>4
    <3> QED
      BY <3>2, <3>3
  <2> QED
    BY <1>b, <2>3, <2>4
<1>4. CASE MatchDoc
  BY <1>4, <1>0 DEF MatchDoc
<1>5. CASE SkipFirst
  <2>1. PICK x \in rest1 : Meet(op, window, x, at2) /\ rest1' = rest1 \ {x}
    BY <1>5 DEF SkipFirst
  <2>2. set1' \ rest1' = (set1 \ rest1) \cup {x} /\ set2' = set2 /\ rest2' = rest2
    BY <1>5, <2>1, <1>c DEF SkipFirst
  <2>3. CASE HasPair(a.doc)
    BY <2>2, <2>3 DEF HasPair
  <2>4. CASE a \in rest1 /\ b \in rest2
    <3>1. at2 \in set2 \ rest2 /\ at2 \in Place
      BY <1>5, <1>c DEF SkipFirst, Walk, Matched
    <3>2. x.doc = at2.doc
      BY <2>1, <3>1, <1>0, <1>c, MeetIsInDocument
    <3>3. CASE x.doc = a.doc
      BY <3>1, <3>2, <3>3, <2>2 DEF HasPair
    <3>4. CASE x.doc # a.doc
      BY <3>4, <2>1, <2>2, <2>4
    <3> QED
      BY <3>3, <3>4
  <2> QED
    BY <1>b, <2>3, <2>4
<1>6. CASE FirstSkipped
  BY <1>6, <1>b DEF FirstSkipped, HasPair
<1>7. CASE SkipSecond
  <2>1. PICK y \in rest2 : Meet(op, window, at1, y) /\ rest2' = rest2 \ {y}
    BY <1>7 DEF SkipSecond
  <2>2. set2' \ rest2' = (set2 \ rest2) \cup {y} /\ set1' = set1 /\ rest1' = rest1
    BY <1>7, <2>1, <1>c DEF SkipSecond
  <2>3. CASE HasPair(a.doc)
    BY <2>2, <2>3 DEF HasPair
  <2>4. CASE a \in rest1 /\ b \in rest2
    <3>1. at1 \in set1 \ rest1 /\ at1 \in Place
      BY <1>7, <1>c DEF SkipSecond, Walk, Matched
    <3>2. at1.doc = y.doc
      BY <2>1, <3>1, <1>0, <1>c, MeetIsInDocument
    <3>3. CASE y.doc = a.doc
      BY <3>1, <3>2, <3>3, <2>2 DEF HasPair
    <3>4. CASE y.doc # a.doc
      BY <3>4, <2>1, <2>2, <2>4
    <3> QED
      BY <3>3, <3>4
  <2> QED
    BY <1>b, <2>3, <2>4
<1>8. CASE SecondSkipped
  BY <1>8, <1>b DEF SecondSkipped, HasPair
<1>9. CASE EraseRest
  <2>1. HasPair(a.doc)
    BY <1>9, <1>b DEF EraseRest
  <2> QED
    BY <1>9, <2>1, <1>0 DEF EraseRest, HasPair, ReducesBoth
<1>10. CASE UNCHANGED mergeVars
  BY <1>10, <1>b DEF mergeVars, HasPair
<1> QED
  BY <1>1, <1>2, <1>3, <1>4, <1>5, <1>6, <1>7, <1>8, <1>9, <1>10 DEF MergeNext

\* A phrase or a near merge finds every document with two places that meet
\* whose positions are in reading order, for every set of places and window.
THEOREM DocumentsAreFound == MergeSpec => []OrderedDocumentsAreFound
<1>1. Walk /\ Ahead => OrderedDocumentsAreFound
  BY DEF Walk, Ended, Ahead, HasPair, OrderedDocumentsAreFound
<1> QED
  BY <1>1, InitWalks, StepWalks, InitAhead, StepAhead, PTL DEF MergeSpec

-----------------------------------------------------------------------------
(***************************************************************************)
(* What a phrase needs of its merges: a place whose only partner stands at *)
(* the end of its window, in a text, is kept with it.                      *)
(***************************************************************************)
OnlyPair(a, b) ==
    /\ a.doc = b.doc /\ b.pos = a.pos + window
    /\ \A c \in second : Meet(op, window, a, c) => c = b
    /\ \A c, e \in first \cup second :
            c.doc = a.doc /\ e.doc = a.doc /\ Less(c, e) => c.pos < e.pos

PairsAreKept ==
    op = "phrase" =>
        \A a \in first, b \in second : OnlyPair(a, b) =>
            \/ a \in rest1 /\ b \in rest2
            \/ a \in set1 \ rest1 /\ b \in set2 \ rest2

\* Everything is ahead at first.
LEMMA InitPairs == MergeInit => PairsAreKept
  BY DEF MergeInit, Called, PairsAreKept

\* The places of such a pair meet, and the second does not meet an earlier
\* place of the first set.
LEMMA OnlyPairMeets ==
    ASSUME op = "phrase", Walk, NEW a \in first, NEW b \in second, OnlyPair(a, b)
    PROVE  /\ Meet(op, window, a, b)
           /\ \A x \in first : Less(x, a) => ~ Meet(op, window, x, b)
           /\ \A x \in first : ~ Less(a, x) => ~ SecondIsBehind(op, window, x, b)
           /\ \A y \in second : ~ Less(b, y) => ~ FirstIsBehind(op, window, a, y)
<1>1. /\ first \subseteq [doc : Nat, pge : Nat, pos : Nat]
      /\ second \subseteq [doc : Nat, pge : Nat, pos : Nat]
      /\ window \in Nat
  BY PlaceAssumption, WindowAssumption DEF Walk, MergeTypeOK
<1>2. /\ a \in [doc : Nat, pge : Nat, pos : Nat]
      /\ b \in [doc : Nat, pge : Nat, pos : Nat]
      /\ a \in Place /\ b \in Place
  BY <1>1 DEF Walk, MergeTypeOK
<1>3. /\ a.doc = b.doc /\ b.pos = a.pos + window
      /\ \A c, e \in first \cup second :
            c.doc = a.doc /\ e.doc = a.doc /\ Less(c, e) => c.pos < e.pos
  BY DEF OnlyPair
<1>4. Meet(op, window, a, b)
  BY <1>1, <1>2, <1>3 DEF Meet, FirstIsBehind, SecondIsBehind
<1>5. ASSUME NEW x \in first, Less(x, a)
      PROVE  ~ Meet(op, window, x, b)
  <2>1. x \in [doc : Nat, pge : Nat, pos : Nat] /\ x \in Place
    BY <1>1 DEF Walk, MergeTypeOK
  <2>2. CASE x.doc = a.doc
    <3>1. x.pos < a.pos
      BY <1>3, <1>5, <2>2
    <3>2. x.pos + window < b.pos
      BY <3>1, <2>1, <1>1, <1>2, <1>3
    <3> QED
      BY <3>2, <2>2, <1>3 DEF Meet, FirstIsBehind
  <2>3. CASE x.doc # a.doc
    <3>1. Less(x, b)
      BY <2>1, <2>3, <1>2, <1>3, <1>5 DEF Less
    <3> QED
      BY <3>1, <2>3, <1>3 DEF Meet, FirstIsBehind
  <2> QED
    BY <2>2, <2>3
<1>6. ASSUME NEW x \in first, ~ Less(a, x)
      PROVE  ~ SecondIsBehind(op, window, x, b)
  <2>1. x \in [doc : Nat, pge : Nat, pos : Nat] /\ x \in Place
    BY <1>1 DEF Walk, MergeTypeOK
  <2>2. x = a \/ Less(x, a)
    BY <2>1, <1>2, <1>6, LessIsTotalOrder
  <2>3. CASE x = a
    BY <2>3, <1>4 DEF Meet
  <2>4. CASE Less(x, a) /\ x.doc = a.doc
    <3>1. x.pos < a.pos
      BY <1>3, <2>4
    <3>2. ~ (b.pos < x.pos)
      BY <3>1, <2>1, <1>1, <1>2, <1>3
    <3> QED
      BY <3>2, <2>4, <1>3 DEF SecondIsBehind
  <2>5. CASE Less(x, a) /\ x.doc # a.doc
    <3>1. ~ Less(b, x)
      BY <2>1, <2>5, <1>2, <1>3 DEF Less
    <3> QED
      BY <3>1, <2>5, <1>3 DEF SecondIsBehind
  <2> QED
    BY <2>2, <2>3, <2>4, <2>5
<1>7. ASSUME NEW y \in second, ~ Less(b, y)
      PROVE  ~ FirstIsBehind(op, window, a, y)
  <2>1. y \in [doc : Nat, pge : Nat, pos : Nat] /\ y \in Place
    BY <1>1 DEF Walk, MergeTypeOK
  <2>2. y = b \/ Less(y, b)
    BY <2>1, <1>2, <1>7, LessIsTotalOrder
  <2>3. CASE y = b
    BY <2>3, <1>4 DEF Meet
  <2>4. CASE Less(y, b) /\ y.doc = a.doc
    <3>1. y.pos < b.pos
      BY <1>3, <2>4
    <3>2. ~ (a.pos + window < y.pos)
      BY <3>1, <2>1, <1>1, <1>2, <1>3
    <3> QED
      BY <3>2, <2>4 DEF FirstIsBehind
  <2>5. CASE Less(y, b) /\ y.doc # a.doc
    <3>1. ~ Less(a, y)
      BY <2>1, <2>5, <1>2, <1>3 DEF Less
    <3> QED
      BY <3>1, <2>5 DEF FirstIsBehind
  <2> QED
    BY <2>2, <2>3, <2>4, <2>5
<1> QED
  BY <1>4, <1>5, <1>6, <1>7

\* No step passes one of such a pair without the other.
LEMMA StepPairs == Walk /\ PairsAreKept /\ [MergeNext]_mergeVars => PairsAreKept'
<1> SUFFICES ASSUME Walk, PairsAreKept, [MergeNext]_mergeVars, op' = "phrase",
                    NEW a \in first', NEW b \in second', OnlyPair(a, b)'
             PROVE  (\/ a \in rest1 /\ b \in rest2
                     \/ a \in set1 \ rest1 /\ b \in set2 \ rest2)'
  BY DEF PairsAreKept
<1>0. /\ op' = op /\ window' = window /\ first' = first /\ second' = second
      /\ op = "phrase" /\ a \in first /\ b \in second
  BY DEF MergeNext, EraseFirst, PassSecond, MatchBoth, MatchDoc, SkipFirst, FirstSkipped,
         SkipSecond, SecondSkipped, EraseRest, mergeVars
<1>a. OnlyPair(a, b)
  BY <1>0 DEF OnlyPair
<1>b. \/ a \in rest1 /\ b \in rest2
      \/ a \in set1 \ rest1 /\ b \in set2 \ rest2
  BY <1>0, <1>a DEF PairsAreKept
<1>c. set1 \subseteq first /\ set2 \subseteq second /\ rest1 \subseteq set1 /\ rest2 \subseteq set2
      /\ first \subseteq Place /\ second \subseteq Place
  BY DEF Walk, MergeTypeOK
<1>d. /\ Meet(op, window, a, b)
      /\ \A y \in second : Meet(op, window, a, y) => y = b
      /\ \A x \in first : Less(x, a) => ~ Meet(op, window, x, b)
      /\ \A x \in first : ~ Less(a, x) => ~ SecondIsBehind(op, window, x, b)
      /\ \A y \in second : ~ Less(b, y) => ~ FirstIsBehind(op, window, a, y)
  BY <1>0, <1>a, OnlyPairMeets DEF OnlyPair
<1>1. CASE EraseFirst
  <2>1. PICK x \in rest1, y \in rest2 : /\ StandsOn(y, rest2)
                                        /\ FirstIsBehind(op, window, x, y)
                                        /\ set1' = set1 \ {x} /\ rest1' = rest1 \ {x}
    BY <1>1 DEF EraseFirst
  <2>2. a \in rest1 /\ b \in rest2 => a # x
    BY <2>1, <1>c, <1>d DEF StandsOn
  <2> QED
    BY <2>1, <2>2, <1>1, <1>b DEF EraseFirst
<1>2. CASE PassSecond
  <2>1. PICK x \in rest1, y \in rest2 : /\ StandsOn(x, rest1)
                                        /\ SecondIsBehind(op, window, x, y)
                                        /\ set2' = set2 \ {y} /\ rest2' = rest2 \ {y}
    BY <1>2, <1>0 DEF PassSecond, ReducesBoth
  <2>2. a \in rest1 /\ b \in rest2 => b # y
    BY <2>1, <1>c, <1>d DEF StandsOn
  <2> QED
    BY <2>1, <2>2, <1>2, <1>b DEF PassSecond
<1>3. CASE MatchBoth
  <2>1. PICK x \in rest1, y \in rest2 : /\ StandsOn(x, rest1) /\ Meet(op, window, x, y)
                                        /\ rest1' = rest1 \ {x} /\ rest2' = rest2 \ {y}
    BY <1>3 DEF MatchBoth
  <2>2. ASSUME a \in rest1, b \in rest2
        PROVE  x = a <=> y = b
    <3>1. x = a => y = b
      BY <2>1, <1>c, <1>d
    <3>2. x # a => Less(x, a)
      BY <2>1, <2>2, <1>c, LessIsTotalOrder DEF StandsOn
    <3> QED
      BY <3>1, <3>2, <2>1, <1>c, <1>d
  <2> QED
    BY <2>1, <2>2, <1>3, <1>b, <1>c DEF MatchBoth
<1>4. CASE MatchDoc
  BY <1>4, <1>0 DEF MatchDoc
<1>5. CASE SkipFirst
  <2>1. PICK x \in rest1 : Meet(op, window, x, at2) /\ rest1' = rest1 \ {x}
    BY <1>5 DEF SkipFirst
  <2>2. at2 \in second \ rest2
    BY <1>5, <1>c DEF SkipFirst, Walk, Matched
  <2>3. b \in rest2 => x # a
    BY <2>1, <2>2, <1>d
  <2> QED
    BY <2>1, <2>3, <1>5, <1>b DEF SkipFirst
<1>6. CASE FirstSkipped
  BY <1>6, <1>b DEF FirstSkipped
<1>7. CASE SkipSecond
  <2>1. PICK y \in rest2 : Meet(op, window, at1, y) /\ rest2' = rest2 \ {y}
    BY <1>7 DEF SkipSecond
  <2>2. at1 \in first \ rest1
    BY <1>7, <1>c DEF SkipSecond, Walk, Matched
  <2>3. a \in rest1 => y # b
    BY <2>1, <2>2, <1>d DEF Walk, Passed
  <2> QED
    BY <2>1, <2>3, <1>7, <1>b DEF SkipSecond
<1>8. CASE SecondSkipped
  BY <1>8, <1>b DEF SecondSkipped
<1>9. CASE EraseRest
  BY <1>9, <1>b, <1>0 DEF EraseRest, ReducesBoth
<1>10. CASE UNCHANGED mergeVars
  BY <1>10, <1>b DEF mergeVars
<1> QED
  BY <1>1, <1>2, <1>3, <1>4, <1>5, <1>6, <1>7, <1>8, <1>9, <1>10 DEF MergeNext

-----------------------------------------------------------------------------
(***************************************************************************)
(* Exactness: what was passed is kept if and only if it meets an entry of  *)
(* the whole other set.  Between two comparisons all that was passed on    *)
(* one side is behind all that is left on the other; while entries that    *)
(* met are skipped, e1 and e2 are not behind anything that was passed.     *)
(***************************************************************************)
Behind(a, b) == FirstIsBehind(op, window, a, b)

\* What was passed in the first set is kept exactly if it meets.
FirstIsExact == \A x \in first \ rest1 :
                    x \in set1 <=> \E y \in second : Meet(op, window, x, y)

\* So in the second set of the merge by page.
SecondIsExact == op = "page" => \A y \in second \ rest2 :
                    y \in set2 <=> \E x \in first : Meet(op, window, x, y)

Apart ==
    /\ pc = "compare" =>
          /\ \A y \in second \ rest2, x \in rest1 : Behind(y, x)
          /\ op # "doc" => \A x \in first \ rest1, y \in rest2 : Behind(x, y)
    /\ pc \in {"more1", "more2"} =>
          /\ \A x \in first \ rest1 : ~ Behind(at1, x)
          /\ \A y \in second \ rest2 : ~ Behind(at2, y)
    /\ pc = "more2" => \A x \in rest1 : Behind(at2, x)

Exactly == op \in Exact => FirstIsExact /\ SecondIsExact /\ Apart

\* Nothing is passed at first.
LEMMA InitExactly == MergeInit => Exactly
  BY DEF MergeInit, Called, Exactly, FirstIsExact, SecondIsExact, Apart

\* To meet, for the merges that compare keys, is to be behind on no side.
LEMMA MeetIsNotBehind ==
    ASSUME op \in Exact, window \in Window, NEW a \in Place, NEW b \in Place
    PROVE  Meet(op, window, a, b) <=> ~ Behind(a, b) /\ ~ Behind(b, a)
  BY KeysAreOrdered DEF Meet, Behind

\* The lemmas on keys, for the merge at hand.
LEMMA BehindIsOrder ==
    ASSUME op \in Exact, window \in Window,
           NEW a \in Place, NEW b \in Place, NEW c \in Place
    PROVE  /\ Behind(a, b) => Less(a, b) /\ ~ Behind(b, a)
           /\ Behind(a, b) /\ ~ Behind(c, b) => Behind(a, c)
           /\ Behind(a, b) /\ ~ Behind(a, c) => Behind(c, b)
           /\ Behind(a, b) /\ ~ Less(c, b) => Behind(a, c)
  BY KeysAreOrdered, BehindIsMonotonic DEF Behind

\* Every step keeps what was passed exact.
LEMMA StepExactly == Walk /\ Exactly /\ [MergeNext]_mergeVars => Exactly'
<1> SUFFICES ASSUME Walk, Exactly, [MergeNext]_mergeVars, op' \in Exact
             PROVE  (FirstIsExact /\ SecondIsExact /\ Apart)'
  BY DEF Exactly
<1>0. /\ op' = op /\ window' = window /\ first' = first /\ second' = second
      /\ op \in Exact /\ window \in Window
      /\ \A a, b : Behind(a, b)' <=> Behind(a, b)
  BY DEF MergeNext, EraseFirst, PassSecond, MatchBoth, MatchDoc, SkipFirst, FirstSkipped,
         SkipSecond, SecondSkipped, EraseRest, mergeVars, Walk, MergeTypeOK, Behind
<1>a. FirstIsExact /\ SecondIsExact /\ Apart
  BY <1>0 DEF Exactly
<1>b. /\ set1 \subseteq first /\ set2 \subseteq second /\ rest1 \subseteq set1 /\ rest2 \subseteq set2
      /\ first \subseteq Place /\ second \subseteq Place
  BY DEF Walk, MergeTypeOK
<1>1. CASE EraseFirst
  <2>1. PICK a \in rest1, b \in rest2 : /\ StandsOn(a, rest1) /\ StandsOn(b, rest2)
                                        /\ Behind(a, b)
                                        /\ set1' = set1 \ {a} /\ rest1' = rest1 \ {a}
    BY <1>1 DEF EraseFirst, Behind
  <2>2. /\ pc = "compare" /\ pc' = "compare" /\ set2' = set2 /\ rest2' = rest2
        /\ first' \ rest1' = (first \ rest1) \cup {a}
        /\ a \in Place /\ b \in Place
    BY <1>1, <2>1, <1>0, <1>b DEF EraseFirst
  <2>3. \A y \in rest2 : Behind(a, y)
    BY <2>1, <2>2, <1>0, <1>b, BehindIsOrder DEF StandsOn
  <2>4. \A y \in second : ~ Meet(op, window, a, y)
    <3> TAKE y \in second
    <3>1. y \in Place
      BY <1>b
    <3>2. Behind(a, y) \/ Behind(y, a)
      BY <2>1, <2>2, <2>3, <1>a DEF Apart
    <3> QED
      BY <3>1, <3>2, <2>2, <1>0, MeetIsNotBehind
  <2>5. FirstIsExact'
    BY <2>1, <2>2, <2>4, <1>0, <1>a DEF FirstIsExact
  <2>6. SecondIsExact'
    BY <2>2, <1>0, <1>a DEF SecondIsExact
  <2>7. Apart'
    BY <2>1, <2>2, <2>3, <1>0, <1>a DEF Apart
  <2> QED
    BY <2>5, <2>6, <2>7
<1>2. CASE PassSecond
  <2>1. PICK a \in rest1, b \in rest2 : /\ StandsOn(a, rest1) /\ StandsOn(b, rest2)
                                        /\ SecondIsBehind(op, window, a, b)
                                        /\ set2' = IF ReducesBoth(op) THEN set2 \ {b} ELSE set2
                                        /\ rest2' = rest2 \ {b}
    BY <1>2 DEF PassSecond
  <2>2. /\ pc = "compare" /\ pc' = "compare" /\ set1' = set1 /\ rest1' = rest1
        /\ second' \ rest2' = (second \ rest2) \cup {b}
        /\ a \in Place /\ b \in Place
    BY <1>2, <2>1, <1>0, <1>b DEF PassSecond
  <2>3. Behind(b, a)
    BY <2>1, <2>2, <1>0, KeysAreOrdered DEF Behind
  <2>4. \A x \in rest1 : Behind(b, x)
    BY <2>1, <2>2, <2>3, <1>0, <1>b, BehindIsOrder DEF StandsOn
  <2>5. op = "page" => \A x \in first : ~ Meet(op, window, x, b)
    <3> SUFFICES ASSUME op = "page", NEW x \in first
                 PROVE  ~ Meet(op, window, x, b)
      OBVIOUS
    <3>1. x \in Place
      BY <1>b
    <3>2. Behind(x, b) \/ Behind(b, x)
      BY <2>1, <2>2, <2>4, <1>a DEF Apart
    <3> QED
      BY <3>1, <3>2, <2>2, <1>0, MeetIsNotBehind
  <2>6. FirstIsExact'
    BY <2>2, <1>0, <1>a DEF FirstIsExact
  <2>7. SecondIsExact'
    BY <2>1, <2>2, <2>5, <1>0, <1>a DEF SecondIsExact, ReducesBoth
  <2>8. Apart'
    BY <2>1, <2>2, <2>4, <1>0, <1>a DEF Apart
  <2> QED
    BY <2>6, <2>7, <2>8
<1>3. CASE MatchBoth
  <2>1. PICK a \in rest1, b \in rest2 : /\ StandsOn(a, rest1) /\ StandsOn(b, rest2)
                                        /\ Meet(op, window, a, b)
                                        /\ rest1' = rest1 \ {a} /\ rest2' = rest2 \ {b}
                                        /\ at1' = a /\ at2' = b
    BY <1>3 DEF MatchBoth
  <2>2. /\ pc = "compare" /\ op # "doc"
        /\ pc' = IF ReducesBoth(op) THEN "more1" ELSE "compare"
        /\ set1' = set1 /\ set2' = set2
        /\ first' \ rest1' = (first \ rest1) \cup {a}
        /\ second' \ rest2' = (second \ rest2) \cup {b}
        /\ a \in Place /\ b \in Place /\ a \in set1 /\ b \in set2
    BY <1>3, <2>1, <1>0, <1>b DEF MatchBoth
  <2>3. FirstIsExact'
    BY <2>1, <2>2, <1>0, <1>a, <1>b DEF FirstIsExact
  <2>4. SecondIsExact'
    BY <2>1, <2>2, <1>0, <1>a, <1>b DEF SecondIsExact
  <2>5. ASSUME op = "and"
        PROVE  Apart'
    <3>1. a = b
      BY <2>1, <2>2, <2>5, <1>0, LessIsTotalOrder DEF Meet, FirstIsBehind, SecondIsBehind
    <3>2. /\ \A x \in rest1 \ {a} : Less(a, x)
          /\ \A y \in rest2 \ {b} : Less(b, y)
      BY <2>1, <2>2, <1>b, LessIsTotalOrder DEF StandsOn
    <3>3. \A x, y : Less(x, y) => Behind(x, y)
      BY <2>5 DEF Behind, FirstIsBehind
    <3>4. pc' = "compare"
      BY <2>2, <2>5 DEF ReducesBoth
    <3>5. /\ \A y \in second' \ rest2', x \in rest1' : Behind(y, x)
          /\ \A x \in first' \ rest1', y \in rest2' : Behind(x, y)
      BY <3>1, <3>2, <3>3, <2>1, <2>2, <1>a DEF Apart
    <3> QED
      BY <3>4, <3>5, <1>0 DEF Apart
  <2>6. ASSUME op = "page"
        PROVE  Apart'
    <3>1. pc' = "more1"
      BY <2>2, <2>6 DEF ReducesBoth
    <3>2. ~ Behind(a, a) /\ ~ Behind(b, b)
      BY <2>2, <1>0, BehindIsOrder
    <3>3. \A x \in first \ rest1 : ~ Behind(a, x)
      <4> TAKE x \in first \ rest1
      <4>1. x \in Place /\ Less(x, a)
        BY <2>1, <1>b DEF Walk, Passed
      <4> QED
        BY <4>1, <2>2, <1>0, BehindIsOrder, LessIsTotalOrder
    <3>4. \A y \in second \ rest2 : ~ Behind(b, y)
      <4> TAKE y \in second \ rest2
      <4>1. y \in Place /\ Less(y, b)
        BY <2>1, <1>b DEF Walk, Passed
      <4> QED
        BY <4>1, <2>2, <1>0, BehindIsOrder, LessIsTotalOrder
    <3>5. /\ \A x \in first' \ rest1' : ~ Behind(at1', x)
          /\ \A y \in second' \ rest2' : ~ Behind(at2', y)
      BY <3>2, <3>3, <3>4, <2>1, <2>2
    <3> QED
      BY <3>1, <3>5, <1>0 DEF Apart, Behind
  <2>7. op \in {"and", "page"}
    BY <2>2, <1>0 DEF Exact
  <2>8. Apart'
    BY <2>5, <2>6, <2>7
  <2> QED
    BY <2>3, <2>4, <2>8
<1>4. CASE MatchDoc
  <2>1. PICK a \in rest1, b \in rest2 : Meet(op, window, a, b) /\ rest1' = rest1 \ {a}
    BY <1>4 DEF MatchDoc
  <2>2. /\ pc = "compare" /\ pc' = "compare" /\ op = "doc"
        /\ set1' = set1 /\ set2' = set2 /\ rest2' = rest2
        /\ first' \ rest1' = (first \ rest1) \cup {a}
        /\ a \in set1 /\ b \in second
    BY <1>4, <2>1, <1>0, <1>b DEF MatchDoc
  <2>3. FirstIsExact'
    BY <2>1, <2>2, <1>0, <1>a DEF FirstIsExact
  <2>4. SecondIsExact'
    BY <2>2, <1>0 DEF SecondIsExact
  <2>5. Apart'
    BY <2>1, <2>2, <1>0, <1>a DEF Apart
  <2> QED
    BY <2>3, <2>4, <2>5
<1>5. CASE SkipFirst
  <2>1. PICK a \in rest1 : Meet(op, window, a, at2) /\ rest1' = rest1 \ {a}
    BY <1>5 DEF SkipFirst
  <2>2. /\ pc = "more1" /\ pc' = "more1" /\ op = "page"
        /\ set1' = set1 /\ set2' = set2 /\ rest2' = rest2 /\ at1' = at1 /\ at2' = at2
        /\ first' \ rest1' = (first \ rest1) \cup {a}
        /\ a \in set1 /\ a \in Place
        /\ at1 \in Place /\ at2 \in second /\ at2 \in Place /\ Meet(op, window, at1, at2)
    BY <1>5, <2>1, <1>0, <1>b DEF SkipFirst, Walk, Matched, ReducesBoth, Exact
  <2>3. FirstIsExact'
    BY <2>1, <2>2, <1>0, <1>a DEF FirstIsExact
  <2>4. SecondIsExact'
    BY <2>2, <1>0, <1>a DEF SecondIsExact
  <2>5. ~ Behind(at1, a)
    BY <2>1, <2>2, <1>0, MeetIsNotBehind, BehindIsOrder
  <2>6. Apart'
    BY <2>2, <2>5, <1>0, <1>a DEF Apart, Behind
  <2> QED
    BY <2>3, <2>4, <2>6
<1>6. CASE FirstSkipped
  <2>1. /\ pc = "more1" /\ pc' = "more2" /\ at1' = at1 /\ at2' = at2
        /\ set1' = set1 /\ set2' = set2 /\ rest1' = rest1 /\ rest2' = rest2
        /\ at1 \in Place /\ at2 \in Place /\ Meet(op, window, at1, at2)
        /\ at1 \in first \ rest1
    BY <1>6, <1>b DEF FirstSkipped, Walk, Matched
  <2>2. ASSUME NEW x \in rest1
        PROVE  Behind(at2, x)
    <3>1. PICK a \in rest1 : StandsOn(a, rest1) /\ ~ Meet(op, window, a, at2)
      BY <1>6, <2>2 DEF FirstSkipped
    <3>2. a \in Place /\ x \in Place /\ ~ Less(x, a) /\ Less(at1, a)
      BY <3>1, <2>1, <2>2, <1>b DEF StandsOn, Walk, Passed
    <3>3. ~ Behind(a, at1)
      BY <3>2, <2>1, <1>0, BehindIsOrder, LessIsTotalOrder
    <3>4. ~ Behind(a, at2)
      BY <3>2, <3>3, <2>1, <1>0, MeetIsNotBehind, BehindIsOrder
    <3>5. Behind(at2, a)
      BY <3>1, <3>2, <3>4, <2>1, <1>0, MeetIsNotBehind
    <3> QED
      BY <3>2, <3>5, <2>1, <1>0, BehindIsOrder
  <2>3. Apart'
    BY <2>1, <2>2, <1>0, <1>a DEF Apart, Behind
  <2> QED
    BY <2>1, <2>3, <1>0, <1>a DEF FirstIsExact, SecondIsExact
<1>7. CASE SkipSecond
  <2>1. PICK b \in rest2 : Meet(op, window, at1, b) /\ rest2' = rest2 \ {b}
    BY <1>7 DEF SkipSecond
  <2>2. /\ pc = "more2" /\ pc' = "more2" /\ op = "page"
        /\ set1' = set1 /\ set2' = set2 /\ rest1' = rest1 /\ at1' = at1 /\ at2' = at2
        /\ second' \ rest2' = (second \ rest2) \cup {b}
        /\ b \in set2 /\ b \in Place
        /\ at2 \in Place /\ at1 \in first /\ at1 \in Place /\ Meet(op, window, at1, at2)
    BY <1>7, <2>1, <1>0, <1>b DEF SkipSecond, Walk, Matched, ReducesBoth, Exact
  <2>3. FirstIsExact'
    BY <2>2, <1>0, <1>a DEF FirstIsExact
  <2>4. SecondIsExact'
    BY <2>1, <2>2, <1>0, <1>a DEF SecondIsExact
  <2>5. ~ Behind(at2, b)
    BY <2>1, <2>2, <1>0, MeetIsNotBehind, BehindIsOrder
  <2>6. Apart'
    BY <2>2, <2>5, <1>0, <1>a DEF Apart, Behind
  <2> QED
    BY <2>3, <2>4, <2>6
<1>8. CASE SecondSkipped
  <2>1. /\ pc = "more2" /\ pc' = "compare" /\ at1' = at1 /\ at2' = at2
        /\ set1' = set1 /\ set2' = set2 /\ rest1' = rest1 /\ rest2' = rest2
        /\ at1 \in Place /\ at2 \in Place /\ Meet(op, window, at1, at2)
        /\ at2 \in second \ rest2
    BY <1>8, <1>b DEF SecondSkipped, Walk, Matched
  <2>2. ASSUME NEW y \in rest2
        PROVE  Behind(at1, y)
    <3>1. PICK b \in rest2 : StandsOn(b, rest2) /\ ~ Meet(op, window, at1, b)
      BY <1>8, <2>2 DEF SecondSkipped
    <3>2. b \in Place /\ y \in Place /\ ~ Less(y, b) /\ Less(at2, b)
      BY <3>1, <2>1, <2>2, <1>b DEF StandsOn, Walk, Passed
    <3>3. ~ Behind(b, at2)
      BY <3>2, <2>1, <1>0, BehindIsOrder, LessIsTotalOrder
    <3>4. ~ Behind(b, at1)
      BY <3>2, <3>3, <2>1, <1>0, MeetIsNotBehind, BehindIsOrder
    <3>5. Behind(at1, b)
      BY <3>1, <3>2, <3>4, <2>1, <1>0, MeetIsNotBehind
    <3> QED
      BY <3>2, <3>5, <2>1, <1>0, BehindIsOrder
  <2>3. ASSUME NEW y \in second \ rest2, NEW x \in rest1
        PROVE  Behind(y, x)
    <3>1. ~ Behind(at2, y) /\ Behind(at2, x)
      BY <2>1, <2>3, <1>a DEF Apart
    <3> QED
      BY <3>1, <2>1, <2>3, <1>0, <1>b, BehindIsOrder
  <2>4. ASSUME NEW x \in first \ rest1, NEW y \in rest2
        PROVE  Behind(x, y)
    <3>1. ~ Behind(at1, x) /\ Behind(at1, y)
      BY <2>1, <2>2, <2>4, <1>a DEF Apart
    <3> QED
      BY <3>1, <2>1, <2>4, <1>0, <1>b, BehindIsOrder
  <2>5. Apart'
    BY <2>1, <2>3, <2>4, <1>0 DEF Apart
  <2> QED
    BY <2>1, <2>5, <1>0, <1>a DEF FirstIsExact, SecondIsExact
<1>9. CASE EraseRest
  <2>1. /\ pc = "compare" /\ pc' = "done" /\ rest1' = {} /\ rest2' = {}
        /\ rest1 = {} \/ rest2 = {}
        /\ set1' = set1 \ rest1
        /\ set2' = IF ReducesBoth(op) THEN set2 \ rest2 ELSE set2
    BY <1>9 DEF EraseRest
  <2>2. ASSUME NEW x \in rest1, NEW y \in second
        PROVE  ~ Meet(op, window, x, y)
    <3>1. Behind(y, x)
      BY <2>1, <2>2, <1>a DEF Apart
    <3> QED
      BY <3>1, <2>2, <1>0, <1>b, MeetIsNotBehind
  <2>3. ASSUME op = "page", NEW y \in rest2, NEW x \in first
        PROVE  ~ Meet(op, window, x, y)
    <3>1. Behind(x, y)
      BY <2>1, <2>3, <1>a DEF Apart
    <3> QED
      BY <3>1, <2>3, <1>0, <1>b, MeetIsNotBehind
  <2>4. FirstIsExact'
    BY <2>1, <2>2, <1>0, <1>a DEF FirstIsExact
  <2>5. SecondIsExact'
    BY <2>1, <2>3, <1>0, <1>a DEF SecondIsExact, ReducesBoth
  <2>6. Apart'
    BY <2>1 DEF Apart
  <2> QED
    BY <2>4, <2>5, <2>6
<1>10. CASE UNCHANGED mergeVars
  BY <1>10, <1>a DEF mergeVars, FirstIsExact, SecondIsExact, Apart, Behind
<1> QED
  BY <1>1, <1>2, <1>3, <1>4, <1>5, <1>6, <1>7, <1>8, <1>9, <1>10 DEF MergeNext

\* The merges by entry, document and page compute exactly the entries that
\* meet, for every pair of sets of places.
THEOREM MergesAreExact == MergeSpec => []ResultIsExact
<1>1. Walk /\ Exactly => ResultIsExact
  BY DEF Walk, MergeTypeOK, Ended, Exactly, Exact, FirstIsExact, SecondIsExact, ResultIsExact,
         Meeting, Met
<1> QED
  BY <1>1, InitWalks, StepWalks, InitExactly, StepExactly, PTL DEF MergeSpec

vars == <<searchVars, mergeVars>>

-----------------------------------------------------------------------------
(***************************************************************************)
(* The reduction of the lists: which merge is at work, and on which lists. *)
(***************************************************************************)
Reducing == stage \in {"reduce", "merge", "mergeFirst"}

\* How a query reduces its lists, and the merge that does it.
ReducerOf == IF query.kind = "boolean" THEN "AndPage"
             ELSE IF query.kind = "crits" THEN "And"
             ELSE IF query.slop > 0 THEN "Near" ELSE "Phrase"

MergeOf == IF query.kind = "boolean" THEN "page"
           ELSE IF query.kind = "crits" THEN "and"
           ELSE IF query.slop > 0 THEN "near" ELSE "phrase"

\* The state of a search, apart from what is shown.
Types ==
    /\ query \in Query
    /\ found \in [DOMAIN query.words -> Lists[query]]
    /\ clauses \in Seq([list : SUBSET Place, required : BOOLEAN, prohibited : BOOLEAN])
    /\ clause \in 1 .. Len(found) + 3
    /\ lists \in Seq(SUBSET Place) /\ docs \in Seq(SUBSET Place)
    /\ pl \in 1 .. at /\ at \in 1 .. Len(found) + 1
    /\ distance \in 1 .. Len(found) + 1
    /\ reducer \in {"none", "AndPage", "Phrase", "Near", "And"}
    /\ stage \in Stages
    /\ mode \in Modes \cup {"none"}
    /\ entries \subseteq Place

\* The reduction is at the list `at`, and a merge is called with the lists and
\* the window it should have.
Loop ==
    /\ Reducing => /\ reducer = ReducerOf
                   /\ Len(lists) \in 1 .. Len(found)
                   /\ at \in 2 .. Len(lists) + 1
                   /\ distance = at - 1
                   /\ pl = IF query.kind = "crits" THEN 1 ELSE at - 1
    /\ stage \in {"merge", "mergeFirst"} => /\ at <= Len(lists)
                                            /\ op = MergeOf
                                            /\ second = lists[at]
    /\ stage = "merge" => /\ first = lists[pl]
                          /\ window = IF op = "near" THEN query.slop ELSE 1
    /\ stage = "mergeFirst" => /\ query.kind = "phrase" /\ pl # 1
                               /\ first = lists[1]
                               /\ window = IF op = "near" THEN query.slop ELSE at - 1
    /\ stage = "filter" => /\ query.kind = "crits" /\ clause = 3
                           /\ op = "doc"
                           /\ lists # <<>> /\ docs # <<>>
                           /\ first = lists[1] /\ second = docs[1]

\* The clauses the parser has made, and the lists that wait for the next one.
Bounds ==
    /\ query.kind = "phrase" /\ stage = "clauses" => clause = 1
    /\ query.kind = "crits" => clause \in 1 .. 3
    /\ Len(clauses) <= Len(found)
    /\ stage = "parse" => /\ query.kind = "boolean" /\ lists = <<>>
                          /\ Len(clauses) < clause /\ clause <= Len(found) + 1
    /\ query.kind = "boolean" /\ stage # "parse" => clause <= Len(clauses) + 1
    /\ query.kind = "boolean" /\ stage = "clauses" => Len(lists) <= 1 /\ Len(lists) < clause
    /\ query.kind = "boolean" /\ Reducing => Len(lists) = 2 /\ clause > 2

\* The criteria that are reduced next, or were reduced last.
Turn == IF clause = 2 THEN "doc" ELSE "pos"

\* The criteria on documents are reduced, then those on positions.
Turns ==
    query.kind = "crits" =>
        /\ stage \in {"clauses", "reduce", "merge", "filter", "found", "shown"}
        /\ clause = 1 => stage = "clauses"
        /\ clause \in {1, 2} => docs = <<>>
        /\ clause = 3 => (docs = <<>> <=> Crits("doc") = <<>>)
        /\ Reducing => Crits(Turn) # <<>>
        /\ stage = "clauses" /\ clause = 1 => lists = <<>>
        /\ stage = "clauses" /\ clause > 1 => (lists = <<>> <=> Crits(Turn) = <<>>)

\* What the merge at work knows.
Merging == Walk /\ Exactly /\ Partnered

-----------------------------------------------------------------------------
(***************************************************************************)
(* Phrases and proximity searches.                                         *)
(***************************************************************************)
\* Two places of neighbouring terms.
Adjoins(a, b) == IF query.slop > 0
                 THEN a.pos <= b.pos + query.slop /\ b.pos <= a.pos + query.slop
                 ELSE b.pos \in a.pos .. a.pos + 1

\* e ends a chain of places of the first k terms.
Chained(k, e) ==
    \E f \in [1 .. k -> Place] :
        /\ f[k] = e
        /\ \A i \in 1 .. k : f[i] \in found[i] /\ f[i].doc = e.doc
        /\ \A i \in 1 .. k - 1 : Adjoins(f[i], f[i + 1])

\* The first k terms have such a chain in the document d.
Covered(k, d) == \E e \in Place : e.doc = d /\ Chained(k, e)

\* The lists not reached yet are as they were found.
PhraseLists ==
    query.kind = "phrase" /\ Reducing =>
        /\ Len(lists) = Len(found)
        /\ \A i \in at .. Len(lists) : lists[i] \subseteq found[i]
        /\ \A i \in at .. Len(lists) : stage # "mergeFirst" \/ i # at => lists[i] = found[i]
        /\ lists[at - 1] \subseteq found[at - 1]
        /\ lists[1] \subseteq UNION ToSet(found)

\* What was reduced last ends chains of all terms before it, and the other lists
\* are in documents that have one.
PhraseIsSound ==
    /\ query.kind = "phrase" /\ stage \in {"reduce", "merge"} =>
        /\ \A e \in lists[at - 1] : Chained(at - 1, e)
        /\ \A i \in 1 .. at - 1 : i = 1 \/ Len(found) < 4 =>
               \A e \in lists[i] : Covered(at - 1, e.doc)
    /\ query.kind = "phrase" /\ stage = "mergeFirst" =>
        /\ \A e \in lists[at] : Chained(at, e)
        /\ \A i \in 2 .. at : Len(found) < 4 => \A e \in lists[i] : Covered(at, e.doc)
    /\ PhrasesAreSound

\* The words of a phrase that stands in a text.
Stands(f) ==
    /\ \A i \in Terms : f[i] \in found[i] /\ f[i].doc = f[1].doc
    /\ \A i \in Terms : i + 1 \in Terms => f[i + 1].pos = f[i].pos + 1
    /\ \A a, b \in UNION ToSet(found) :
            a.doc = f[1].doc /\ b.doc = f[1].doc /\ Less(a, b) => a.pos < b.pos

Disjoint == \A i, j \in Terms : i # j => found[i] \cap found[j] = {}

\* The first and the latest word of a phrase that stands in a text are still in
\* their lists, so its document is found.
PhraseIsFound ==
    query.kind = "phrase" /\ query.slop = 0 /\ Disjoint =>
        \A f \in [Terms -> Place] : Stands(f) =>
            /\ Reducing => \A j \in 1 .. at - 1 : f[j].pos = f[1].pos + (j - 1)
            /\ stage \in {"reduce", "merge"} => f[1] \in lists[1] /\ f[at - 1] \in lists[at - 1]
            /\ stage = "mergeFirst" => f[1] \in lists[1] /\ f[at] \in lists[at]
            /\ Answered => \E e \in entries : e.doc = f[1].doc

-----------------------------------------------------------------------------
(***************************************************************************)
(* Boolean queries of required words.                                      *)
(***************************************************************************)
\* The words are joined by AND.
AllRequired ==
    \A i \in Kept : query.words[i].mods # "not" /\ (i > 1 => query.words[i].conj = "and")

ButLast(s) == {i \in s : \E j \in s : i < j}

\* The words the parser has read.
Read == IF stage = "parse" THEN {i \in Kept : i < clause} ELSE Kept

ClauseLists(n) == {clauses[k].list : k \in 1 .. n}
WordLists(ws) == {found[i] : i \in ws}

\* The clauses are the words read and kept, in their order.
ReadWords ==
    /\ Len(clauses) = Cardinality(Read)
    /\ ClauseLists(Len(clauses)) = WordLists(Read)
    /\ ClauseLists(Len(clauses) - 1) = WordLists(ButLast(Read))

\* Words joined by AND make required clauses.
RequiredClauses ==
    AllRequired => \A k \in 1 .. Len(clauses) : /\ ~ clauses[k].prohibited
                                                /\ Len(clauses) > 1 => clauses[k].required

\* What the parser has made of the words.
Parse ==
    query.kind = "boolean" =>
        ReadWords /\ RequiredClauses /\ (stage = "parse" => entries = {})

\* The entries of the first k clauses that are on pages of all of them.
OnAll(k) == {e \in Place : /\ \E i \in 1 .. k : e \in clauses[i].list
                           /\ \A i \in 1 .. k : \E f \in clauses[i].list : SamePage(e, f)}

\* The list that waits for the next clause is that of the pages of all clauses
\* before it, if there is such a page without the last clause.
BooleanLists ==
    query.kind = "boolean" /\ AllRequired
        /\ (Len(clauses) > 2 => OnAll(Len(clauses) - 1) # {}) =>
        /\ stage = "clauses" /\ clause = 1 => lists = <<>> /\ entries = {}
        /\ stage = "clauses" /\ clause > 1 =>
                /\ entries = OnAll(clause - 1)
                /\ lists = <<OnAll(clause - 1)>> \/ (lists = <<>> /\ clause > Len(clauses))
        /\ Reducing /\ at = 2 => lists[1] = OnAll(clause - 2) /\ lists[2] = clauses[clause - 1].list
        /\ Reducing /\ at = 3 => lists[1] = OnAll(clause - 1) /\ lists[2] \subseteq lists[1]
        /\ Answered => entries = OnAll(Len(clauses))

-----------------------------------------------------------------------------
(***************************************************************************)
(* The criteria of a search record.                                        *)
(***************************************************************************)
\* What the criteria on documents, or positions, have in common.
Common(on) == {e \in Place : \A i \in Terms : query.words[i].on = on => e \in found[i]}

\* The list they are reduced to, if there are any.
Reduction(on) == IF Crits(on) = <<>> THEN <<>> ELSE <<Common(on)>>

\* The first list is what the criteria reduced so far have in common, the others
\* are as they were found.
CritLists ==
    query.kind = "crits" =>
        /\ clause = 3 => docs = Reduction("doc")
        /\ stage = "clauses" /\ clause > 1 => lists = Reduction(Turn)
        /\ Reducing => /\ Len(lists) = Len(Crits(Turn))
                       /\ lists[1] = {e \in Place : \A k \in 1 .. at - 1 : e \in Crits(Turn)[k]}
                       /\ \A k \in at .. Len(lists) : lists[k] = Crits(Turn)[k]
        /\ stage = "filter" => lists = Reduction("pos")
        /\ CriteriaAreExact

-----------------------------------------------------------------------------
(***************************************************************************)
(* The query and its lists.                                                *)
(***************************************************************************)
\* A function on the first n numbers is a sequence of length n.
LEMMA FunctionIsSeq ==
    ASSUME NEW S, NEW n \in Nat, NEW s \in [1 .. n -> S]
    PROVE  s \in Seq(S) /\ Len(s) = n
<1>1. s \in Seq(S)
  BY SeqDef
<1>2. Len(s) \in Nat /\ 1 .. Len(s) = 1 .. n
  BY <1>1, LenProperties
<1>3. ~ (Len(s) < n) /\ ~ (n < Len(s))
  BY <1>2
<1> QED
  BY <1>1, <1>2, <1>3

\* What the assumptions on queries say of the lists that were found.
LEMMA QueryFacts ==
    ASSUME Types
    PROVE  /\ query.kind \in {"phrase", "boolean", "crits"}
           /\ query.slop \in Window \cup {0} /\ query.slop \in Nat
           /\ query.words \in Seq(Word)
           /\ found \in Seq(SUBSET Place)
           /\ Len(found) \in Nat \ {0} /\ Len(found) = Len(query.words)
           /\ DOMAIN found = 1 .. Len(found) /\ DOMAIN query.words = 1 .. Len(found)
           /\ 1 .. Len(found) \subseteq Window
           /\ 1 \in Window
<1>1. /\ query \in [kind : {"phrase", "boolean", "crits"}, slop : Window \cup {0}, words : Seq(Word)]
      /\ query.words # <<>> /\ 1 .. Len(query.words) \subseteq Window
      /\ Lists[query] \subseteq SUBSET Place
  BY QueryAssumption DEF Types
<1>2. query.words \in Seq(Word) /\ query.words # <<>>
  BY <1>1
<1>3. /\ Len(query.words) \in Nat \ {0}
      /\ DOMAIN query.words = 1 .. Len(query.words)
  BY <1>2, EmptySeq, LenProperties
<1>4. found \in [1 .. Len(query.words) -> SUBSET Place]
  BY <1>1, <1>3 DEF Types
<1>5. found \in Seq(SUBSET Place)
  BY <1>3, <1>4, SeqDef
<1>6. Len(found) \in Nat /\ DOMAIN found = 1 .. Len(found)
  BY <1>5, LenProperties
<1>7. DOMAIN found = 1 .. Len(query.words)
  BY <1>4
<1>8. Len(found) = Len(query.words)
  BY <1>3, <1>6, <1>7
<1>9. query.slop \in Window \cup {0} /\ query.kind \in {"phrase", "boolean", "crits"}
  BY <1>1
<1>10. 1 \in 1 .. Len(found)
  BY <1>3, <1>8
<1>11. query.slop \in Nat
  <2>1. \A w \in Window \cup {0} : w \in Nat
    BY WindowAssumption
  <2> QED
    BY <1>9, <2>1
<1>12. 1 .. Len(found) \subseteq Window /\ DOMAIN query.words = 1 .. Len(found)
  BY <1>1, <1>3, <1>8
<1> QED
  BY <1>2, <1>3, <1>5, <1>6, <1>8, <1>9, <1>10, <1>11, <1>12

\* The lists that a merge returns.
LEMMA MergedFacts ==
    ASSUME NEW ls \in Seq(SUBSET Place), NEW i \in 1 .. Len(ls), at \in 1 .. Len(ls),
           set1 \subseteq Place, set2 \subseteq Place
    PROVE  /\ Merged(ls, i) \in Seq(SUBSET Place)
           /\ Len(Merged(ls, i)) = Len(ls)
           /\ \A j \in 1 .. Len(ls) : Merged(ls, i)[j] = IF j = at THEN set2
                                                       ELSE IF j = i THEN set1 ELSE ls[j]
<1> DEFINE l1 == [ls EXCEPT ![i] = set1]
<1>1. /\ l1 \in Seq(SUBSET Place) /\ Len(l1) = Len(ls)
      /\ \A j \in 1 .. Len(ls) : l1[j] = IF j = i THEN set1 ELSE ls[j]
  BY ExceptSeq
<1>2. Merged(ls, i) = [l1 EXCEPT ![at] = set2]
  BY DEF Merged
<1> HIDE DEF l1
<1> QED
  BY <1>1, <1>2, ExceptSeq

\* The lists after a merge whose second list was collected in the first.
LEMMA CollectedFacts ==
    ASSUME NEW ls \in Seq(SUBSET Place), at \in 1 .. Len(ls)
    PROVE  /\ Collected(ls) \in Seq(SUBSET Place)
           /\ Len(Collected(ls)) = Len(ls)
           /\ \A j \in 1 .. Len(ls) : Collected(ls)[j] = IF j = 1 THEN ls[1] \cup ls[at] ELSE ls[j]
<1>1. ls[1] \in SUBSET Place /\ ls[at] \in SUBSET Place /\ 1 \in 1 .. Len(ls)
  BY LenProperties, ElementOfSeq
<1>2. Collected(ls) = [ls EXCEPT ![1] = ls[1] \cup ls[at]]
  BY DEF Collected
<1>3. ls[1] \cup ls[at] \in SUBSET Place
  BY <1>1
<1> QED
  BY <1>1, <1>2, <1>3, ExceptSeq

-----------------------------------------------------------------------------
(***************************************************************************)
(* A step of a search takes a step of the merge at work, leaves it alone,  *)
(* or calls the next one.                                                  *)
(***************************************************************************)
LEMMA StepCalls ==
    ASSUME Types, Loop, Walk, [SearchNext]_vars
    PROVE  \/ [MergeNext]_mergeVars
           \/ MergeInit'
<1>0. /\ 1 \in Window /\ query.slop \in Window \cup {0} /\ query.slop \in Nat
      /\ 1 .. Len(found) \subseteq Window
      /\ Len(found) \in Nat \ {0}
  BY QueryFacts
<1>1. CASE MergeSteps
  BY <1>1 DEF MergeSteps
<1>2. CASE MergeLists
  <2>1. /\ lists[pl] \in SUBSET Place /\ lists[at] \in SUBSET Place
    <3>1. /\ Len(lists) \in Nat
          /\ at \in 1 .. Len(lists) /\ pl \in 1 .. Len(lists)
      BY <1>2, LenProperties DEF MergeLists, Loop, Reducing, Types
    <3> QED
      BY <3>1, ElementOfSeq DEF Types
  <2>2. \E o \in Merges, w \in Window : Merge(o, w, pl, at)
    <3>1. reducer = "Near" => query.slop \in Window
      BY <1>0, <1>2 DEF MergeLists, Loop, Reducing, ReducerOf
    <3> QED
      BY <3>1, <1>0, <1>2 DEF MergeLists, Merges
  <2> QED
    BY <2>1, <2>2 DEF Merge, MergeInit, Called
<1>3. CASE MergeFirstList
  <2>1. /\ Len(lists) \in Nat /\ Len(lists) <= Len(found)
        /\ at \in 2 .. Len(lists) /\ pl \in 1 .. Len(lists) /\ distance = at - 1
        /\ reducer = ReducerOf
    BY <1>3, LenProperties DEF MergeFirstList, Loop, Reducing, Types
  <2>2. /\ op \in Merges /\ set1 \in SUBSET Place /\ set2 \in SUBSET Place
    BY DEF Walk, MergeTypeOK
  <2>3. window' \in Window
    BY <2>1, <1>0, <1>3 DEF MergeFirstList, ReducerOf
  <2>4. Merged(lists, pl)[1] \in SUBSET Place /\ Merged(lists, pl)[at] \in SUBSET Place
    <3>1. at \in 1 .. Len(lists) /\ 1 \in 1 .. Len(lists)
      BY <2>1
    <3>2. Merged(lists, pl) \in Seq(SUBSET Place) /\ Len(Merged(lists, pl)) = Len(lists)
      BY <2>1, <2>2, <3>1, MergedFacts DEF Types
    <3> QED
      BY <3>1, <3>2, ElementOfSeq
  <2> QED
    BY <2>2, <2>3, <2>4, <1>3 DEF MergeFirstList, MergeInit, Called
<1>4. CASE FilterPositions
  <2>1. lists # <<>> => lists[1] \in SUBSET Place
    BY EmptySeq, ElementOfSeq DEF Types
  <2>2. docs # <<>> => docs[1] \in SUBSET Place
    BY EmptySeq, ElementOfSeq DEF Types
  <2>3. "doc" \in Merges
    BY DEF Merges
  <2> QED
    BY <2>1, <2>2, <2>3, <1>0, <1>4 DEF FilterPositions, MergeInit, Called
<1>5. CASE UNCHANGED vars
  BY <1>5 DEF vars
<1> QED
  BY <1>1, <1>2, <1>3, <1>4, <1>5
     DEF SearchNext, AddClause, Parsed, ReduceTerms, SearchClause, NoClause, ReduceDocs,
         ReducePositions, Filtered, MergeIsEmpty, MergeReturns, Reduced, GetSearchResult

-----------------------------------------------------------------------------
(***************************************************************************)
(* Enumerations: in a finite set with a total order R, the number of       *)
(* elements before an element tells which one it is.                       *)
(***************************************************************************)
IsOrder(R, S) ==
    /\ \A a \in S : <<a, a>> \notin R
    /\ \A a, b \in S : a = b \/ <<a, b>> \in R \/ <<b, a>> \in R
    /\ \A a, b, c \in S : <<a, b>> \in R /\ <<b, c>> \in R => <<a, c>> \in R

Before(e, S, R) == {f \in S : <<f, e>> \in R}

\* There are fewer elements before one than in the set.
LEMMA RankIsBounded ==
    ASSUME NEW S, IsFiniteSet(S), NEW R, IsOrder(R, S), NEW e \in S
    PROVE  Cardinality(Before(e, S, R)) \in 0 .. Cardinality(S) - 1
<1> DEFINE B == Before(e, S, R)
<1>1. /\ IsFiniteSet(S \ {e})
      /\ Cardinality(S \ {e}) = Cardinality(S) - 1
  BY FS_RemoveElement
<1>2. B \in SUBSET (S \ {e})
  BY DEF Before, IsOrder
<1>3. /\ IsFiniteSet(B)
      /\ Cardinality(B) <= Cardinality(S) - 1
  BY <1>1, <1>2, FS_Subset
<1>4. Cardinality(B) \in Nat /\ Cardinality(S) \in Nat
  BY <1>3, FS_CardinalityType
<1> HIDE DEF B
<1>5. Cardinality(B) \in 0 .. Cardinality(S) - 1
  BY <1>3, <1>4
<1> QED
  BY <1>5 DEF B

\* There are more elements before one that comes later.
LEMMA RankGrows ==
    ASSUME NEW S, IsFiniteSet(S), NEW R, IsOrder(R, S),
           NEW e \in S, NEW f \in S, <<e, f>> \in R
    PROVE  Cardinality(Before(e, S, R)) < Cardinality(Before(f, S, R))
<1> DEFINE A == Before(e, S, R)
           B == Before(f, S, R)
<1>1. A \in SUBSET S /\ B \in SUBSET S
  BY DEF Before
<1>2. IsFiniteSet(A) /\ IsFiniteSet(B)
  BY <1>1, FS_Subset
<1>3. e \notin A /\ A \cup {e} \in SUBSET B
  BY DEF Before, IsOrder
<1> HIDE DEF A, B
<1>4. Cardinality(A \cup {e}) = Cardinality(A) + 1
  BY <1>2, <1>3, FS_AddElement
<1>5. Cardinality(A \cup {e}) <= Cardinality(B)
  BY <1>2, <1>3, FS_Subset
<1>6. Cardinality(A) \in Nat /\ Cardinality(B) \in Nat
  BY <1>2, FS_CardinalityType
<1>7. Cardinality(A) < Cardinality(B)
  BY <1>4, <1>5, <1>6
<1> QED
  BY <1>7 DEF A, B

\* So every number below that of the elements is met once.
LEMMA RanksEnumerate ==
    ASSUME NEW S, IsFiniteSet(S), NEW R, IsOrder(R, S),
           NEW n \in 0 .. Cardinality(S) - 1
    PROVE  \E e \in S : Cardinality(Before(e, S, R)) = n
<1> DEFINE N == 0 .. Cardinality(S) - 1
           F == [e \in S |-> Cardinality(Before(e, S, R))]
<1>1. Cardinality(S) \in Nat
  BY FS_CardinalityType
<1>2. IsFiniteSet(N) /\ Cardinality(N) = Cardinality(S)
  <2> DEFINE m == Cardinality(S) - 1
  <2>1. 0 \in Int /\ m \in Int
    BY <1>1
  <2> HIDE DEF m
  <2>2. /\ IsFiniteSet(0 .. m)
        /\ Cardinality(0 .. m) = IF 0 > m THEN 0 ELSE m - 0 + 1
    BY <2>1, FS_Interval
  <2>3. m = Cardinality(S) - 1
    BY DEF m
  <2> QED
    BY <1>1, <2>2, <2>3
<1>3. F \in [S -> N]
  BY RankIsBounded
<1>4. ASSUME NEW a \in S, NEW b \in S, F[a] = F[b]
      PROVE  a = b
  <2>1. F[a] \in Int /\ F[b] \in Int
    BY <1>1, <1>3
  <2>2. <<a, b>> \notin R /\ <<b, a>> \notin R
    BY <1>4, <2>1, RankGrows
  <2> QED
    BY <2>2 DEF IsOrder
<1>5. F \in Injection(S, N)
  BY <1>3, <1>4 DEF Injection, IsInjective
<1>6. F \in Surjection(S, N)
  BY <1>2, <1>5, FS_Injection
<1>7. \E e \in S : F[e] = n
  BY <1>6 DEF Surjection
<1> QED
  BY <1>7

-----------------------------------------------------------------------------
\* Crits(on) lists the entries of the criteria on what it is asked for, and
\* nothing else.
LEMMA CritsFacts ==
    ASSUME Types, NEW on
    PROVE  /\ Crits(on) \in Seq(SUBSET Place)
           /\ Len(Crits(on)) <= Len(found)
           /\ \A k \in 1 .. Len(Crits(on)) :
                  \E i \in Terms : query.words[i].on = on /\ Crits(on)[k] = found[i]
           /\ \A i \in Terms : query.words[i].on = on =>
                  \E k \in 1 .. Len(Crits(on)) : Crits(on)[k] = found[i]
<1> DEFINE is == {i \in Terms : query.words[i].on = on}
           R == {p \in is \X is : p[1] < p[2]}
           n == Cardinality(is)
           Chosen(k) == CHOOSE i \in is : Cardinality({j \in is : j < i}) = k - 1
<1>0. /\ Len(found) \in Nat /\ Terms = 1 .. Len(found)
      /\ found \in Seq(SUBSET Place)
  BY QueryFacts DEF Terms
<1>1. /\ IsFiniteSet(Terms) /\ Cardinality(Terms) = Len(found)
  <2>1. 1 \in Int /\ Len(found) \in Int
    BY <1>0
  <2>2. /\ IsFiniteSet(1 .. Len(found))
        /\ Cardinality(1 .. Len(found)) = IF 1 > Len(found) THEN 0 ELSE Len(found) - 1 + 1
    BY <2>1, FS_Interval
  <2> QED
    BY <1>0, <2>2
<1>2. IsFiniteSet(is) /\ n <= Len(found) /\ n \in Nat
  BY <1>1, FS_Subset, FS_CardinalityType
<1>3. IsOrder(R, is)
  BY <1>0 DEF IsOrder
<1>4. \A i \in is : {j \in is : j < i} = Before(i, is, R)
  BY DEF Before
<1>5. Crits(on) = [k \in 1 .. n |-> found[Chosen(k)]]
  BY DEF Crits, Terms
<1> HIDE DEF is, R
<1>6. ASSUME NEW k \in 1 .. n
      PROVE  Chosen(k) \in is /\ Cardinality(Before(Chosen(k), is, R)) = k - 1
  <2>1. k - 1 \in 0 .. n - 1
    BY <1>2
  <2>2. \E i \in is : Cardinality(Before(i, is, R)) = k - 1
    BY <2>1, <1>2, <1>3, RanksEnumerate
  <2>3. \E i \in is : Cardinality({j \in is : j < i}) = k - 1
    BY <2>2, <1>4
  <2> QED
    BY <2>3, <1>4
<1> HIDE DEF Chosen, n
<1>7. \A k \in 1 .. n : Crits(on)[k] = found[Chosen(k)] /\ Crits(on)[k] \in SUBSET Place
  BY <1>0, <1>5, <1>6, ElementOfSeq DEF is
<1>8. Crits(on) \in [1 .. n -> SUBSET Place]
  BY <1>5, <1>7
<1>9. Crits(on) \in Seq(SUBSET Place)
  BY <1>2, <1>8, SeqDef
<1>10. Len(Crits(on)) = n
  BY <1>2, <1>8, <1>9, LenProperties
<1>11. ASSUME NEW i \in is
       PROVE  \E k \in 1 .. n : Crits(on)[k] = found[i]
  <2> DEFINE k == Cardinality(Before(i, is, R)) + 1
  <2>1. k \in 1 .. n /\ Cardinality(Before(i, is, R)) = k - 1
    BY <1>2, <1>3, RankIsBounded DEF n
  <2> HIDE DEF k
  <2>2. Chosen(k) \in is /\ Cardinality(Before(Chosen(k), is, R)) = k - 1
    BY <1>6, <2>1
  <2>3. <<i, Chosen(k)>> \notin R /\ <<Chosen(k), i>> \notin R
    BY <1>2, <1>3, <2>1, <2>2, RankGrows
  <2>4. i = Chosen(k)
    BY <1>3, <2>2, <2>3 DEF IsOrder
  <2> QED
    BY <1>7, <2>1, <2>4
<1> QED
  BY <1>2, <1>6, <1>7, <1>9, <1>10, <1>11 DEF is

-----------------------------------------------------------------------------
(***************************************************************************)
(* The reduction of the lists goes round as it should.                     *)
(***************************************************************************)
Going == Types /\ Loop /\ Bounds /\ Turns

\* A search starts with one of its queries, before the first list.
LEMMA InitGoes == SearchInit => Going
<1> SUFFICES ASSUME SearchInit PROVE Going
  OBVIOUS
<1>0. query \in Query /\ found \in [DOMAIN query.words -> Lists[query]]
  BY DEF SearchInit
<1>1. /\ query \in [kind : {"phrase", "boolean", "crits"}, slop : Window \cup {0}, words : Seq(Word)]
      /\ query.words # <<>> /\ Lists[query] \subseteq SUBSET Place
  BY <1>0, QueryAssumption
<1>2. /\ Len(query.words) \in Nat \ {0} /\ DOMAIN query.words = 1 .. Len(query.words)
  BY <1>1, EmptySeq, LenProperties
<1>3. found \in Seq(SUBSET Place)
  BY <1>0, <1>1, <1>2, SeqDef
<1>4. Len(found) \in Nat
  BY <1>3, LenProperties
<1>5. Types
  BY <1>0, <1>4, EmptySeq DEF SearchInit, Types, Stages
<1>6. Loop
  BY DEF SearchInit, Loop, Reducing
<1>7. Bounds
  BY <1>4, EmptySeq DEF SearchInit, Bounds, Reducing
<1>8. Turns
  BY <1>1 DEF SearchInit, Turns, Reducing
<1> QED
  BY <1>5, <1>6, <1>7, <1>8 DEF Going

\* Every step keeps the bounds of the loops and calls a merge with the lists
\* that its reduction is at.
LEMMA StepLoops == Going /\ Walk /\ [SearchNext]_vars => Types' /\ Loop' /\ Bounds'
<1> SUFFICES ASSUME Types, Loop, Bounds, Turns, Walk, [SearchNext]_vars
             PROVE  Types' /\ Loop' /\ Bounds'
  BY DEF Going
<1>0. /\ Len(found) \in Nat \ {0} /\ Len(lists) \in Nat /\ Len(docs) \in Nat /\ Len(clauses) \in Nat
      /\ clause \in Nat /\ at \in Nat /\ pl \in Nat /\ distance \in Nat
      /\ query.kind \in {"phrase", "boolean", "crits"}
      /\ found \in Seq(SUBSET Place) /\ Len(found) = Len(query.words)
      /\ clause >= 1 /\ at >= 1
  BY QueryFacts, LenProperties DEF Types
<1>1. CASE AddClause
  <2>1. Types' /\ Len(clauses') \in {Len(clauses), Len(clauses) + 1}
    <3> DEFINE C == [list : SUBSET Place, required : BOOLEAN, prohibited : BOOLEAN]
               n == Len(clauses)
               w == query.words[clause]
               joined == clause > 1 /\ w.conj = "and"
               before == [i \in 1 .. n |->
                             IF i = n /\ joined /\ ~ clauses[n].prohibited
                             THEN [clauses[n] EXCEPT !.required = TRUE] ELSE clauses[i]]
               new == [list |-> found[clause],
                       required |-> w.mods = "req" \/ (joined /\ w.mods # "not"),
                       prohibited |-> w.mods = "not"]
    <3>1. clauses' = Append(before, new) \/ clauses' = clauses
      BY <1>1 DEF AddClause
    <3>2. found[clause] \in SUBSET Place
      <4>1. clause \in 1 .. Len(found)
        BY <1>0, <1>1 DEF AddClause
      <4> QED
        BY <4>1, <1>0, ElementOfSeq
    <3>3. new \in C
      BY <3>2
    <3>4. \A i \in 1 .. n : clauses[i] \in C
      BY ElementOfSeq DEF Types
    <3>5. before \in [1 .. n -> C]
      BY <3>4, <1>0
    <3>a. n \in Nat
      BY <1>0
    <3> HIDE DEF new, before, C, n
    <3>6. before \in Seq(C) /\ Len(before) = n
      BY <3>5, <3>a, FunctionIsSeq
    <3>7. Append(before, new) \in Seq(C) /\ Len(Append(before, new)) = n + 1
      BY <3>3, <3>6, AppendProperties
    <3>8. clauses' \in Seq(C) /\ Len(clauses') \in {n, n + 1}
      BY <3>1, <3>7 DEF Types, C, n
    <3> QED
      BY <3>8, <1>0, <1>1 DEF AddClause, Types, C, n
  <2>2. /\ stage = "parse" /\ clause <= Len(found) /\ clause' = clause + 1
        /\ UNCHANGED <<query, found, lists, docs, at, pl, distance, reducer, stage, entries, mode, shown>>
    BY <1>0, <1>1 DEF AddClause
  <2>3. Loop'
    BY <2>2 DEF Loop, Reducing
  <2>4. Bounds'
    BY <2>1, <2>2, <1>0 DEF Bounds, Reducing
  <2> QED
    BY <2>1, <2>3, <2>4
<1>2. CASE Parsed
  BY <1>0, <1>2 DEF Parsed, Types, Loop, Bounds, Reducing, Stages
<1>3. CASE ReduceTerms
  BY <1>0, <1>3 DEF ReduceTerms, Reduce, Types, Loop, Bounds, Reducing, Stages, ReducerOf
<1>4. CASE SearchClause
  <2> DEFINE next == Append(lists, clauses[clause].list)
  <2>a. clause \in 1 .. Len(clauses)
    BY <1>0, <1>4 DEF SearchClause
  <2>b. clauses[clause] \in [list : SUBSET Place, required : BOOLEAN, prohibited : BOOLEAN]
    BY <2>a, ElementOfSeq DEF Types
  <2>1. clauses[clause].list \in SUBSET Place
    BY <2>b
  <2>2. /\ next \in Seq(SUBSET Place) /\ Len(next) = Len(lists) + 1
        /\ \A i \in 1 .. Len(next) : next[i] \in SUBSET Place
    <3>1. next \in Seq(SUBSET Place) /\ Len(next) = Len(lists) + 1
      BY <2>1, AppendProperties DEF Types
    <3> QED
      BY <3>1, ElementOfSeq
  <2>3. /\ stage = "clauses" /\ query.kind = "boolean"
        /\ clause <= Len(clauses) /\ clause' = clause + 1
        /\ UNCHANGED <<query, found, clauses, docs, mode, shown>>
        /\ \/ /\ Len(next) = 1
              /\ lists' = next /\ entries' = next[1]
              /\ UNCHANGED <<at, pl, distance, reducer, stage>>
           \/ /\ Len(next) > 1
              /\ lists' = next
              /\ Reduce("AndPage")
              /\ UNCHANGED entries
           \/ /\ Len(next) > 1
              /\ lists' = <<>> /\ entries' = {}
              /\ UNCHANGED <<at, pl, distance, reducer, stage>>
           \/ /\ Len(next) > 1
              /\ lists' = <<next[1] \cup next[2]>> /\ entries' = next[1] \cup next[2]
              /\ UNCHANGED <<at, pl, distance, reducer, stage>>
    BY <1>4 DEF SearchClause
  <2> HIDE DEF next
  <2>4. Len(next) = 2 => next[1] \cup next[2] \in SUBSET Place
    BY <2>2
  <2>5. Len(next) = 1 => next[1] \in SUBSET Place
    BY <2>2
  <2>6. Len(next) \in {1, 2} /\ (Len(next) = 2 => clause > 1 /\ Len(found) > 1)
    BY <2>2, <2>3, <1>0 DEF Bounds
  <2>7. /\ lists' \in Seq(SUBSET Place) /\ entries' \subseteq Place
        /\ stage' = "clauses" => Len(lists') <= 1
        /\ stage' = "reduce" => Len(lists') = 2
        /\ stage' \in {"clauses", "reduce"}
    <3>1. ASSUME NEW s \in SUBSET Place
          PROVE  <<s>> \in Seq(SUBSET Place) /\ Len(<<s>>) = 1
      OBVIOUS
    <3>2. <<>> \in Seq(SUBSET Place) /\ Len(<<>>) = 0
      BY EmptySeq
    <3>3. CASE Len(next) = 1
      <4>1. lists' = next /\ entries' = next[1] /\ stage' = "clauses"
        BY <2>3, <3>3
      <4>2. lists' \in Seq(SUBSET Place)
        BY <2>2, <4>1
      <4>3. entries' \subseteq Place
        BY <2>5, <3>3, <4>1
      <4>4. Len(lists') <= 1
        BY <3>3, <4>1
      <4> QED
        BY <4>1, <4>2, <4>3, <4>4
    <3>4. CASE /\ lists' = next
               /\ Reduce("AndPage")
               /\ UNCHANGED entries
      BY <2>2, <2>3, <2>6, <3>3, <3>4 DEF Reduce, Types
    <3>5. CASE /\ lists' = <<>> /\ entries' = {}
               /\ UNCHANGED <<at, pl, distance, reducer, stage>>
      BY <2>3, <3>2, <3>5
    <3>6. CASE /\ Len(next) > 1
               /\ lists' = <<next[1] \cup next[2]>> /\ entries' = next[1] \cup next[2]
               /\ UNCHANGED <<at, pl, distance, reducer, stage>>
      <4>1. next[1] \cup next[2] \in SUBSET Place
        BY <2>4, <2>6, <3>6
      <4> QED
        BY <2>3, <3>1, <3>6, <4>1
    <3> QED
      BY <2>3, <2>6, <3>3, <3>4, <3>5, <3>6
  <2>8. stage' = "reduce" => /\ reducer' = "AndPage" /\ at' = 2 /\ pl' = 1 /\ distance' = 1
    BY <2>3 DEF Reduce
  <2>9. Types'
    <3>1. /\ UNCHANGED <<query, found, clauses, docs, mode>>
          /\ clause' \in 1 .. Len(found) + 3
      BY <2>3, <1>0 DEF Bounds
    <3>2. CASE stage' = "reduce"
      BY <3>1, <3>2, <2>6, <2>7, <2>8, <1>0 DEF Types, Stages
    <3>3. CASE stage' = "clauses"
      <4>1. UNCHANGED <<at, pl, distance, reducer, stage>>
        BY <3>3, <2>3 DEF Reduce
      <4> QED
        BY <3>1, <4>1, <2>7 DEF Types
    <3> QED
      BY <3>2, <3>3, <2>7
  <2>10. Loop'
    BY <2>3, <2>6, <2>7, <2>8, <1>0 DEF Loop, Reducing, ReducerOf
  <2>11. Bounds'
    BY <2>3, <2>6, <2>7, <1>0 DEF Bounds, Reducing
  <2> QED
    BY <2>9, <2>10, <2>11
<1>5. CASE NoClause
  BY <1>0, <1>5 DEF NoClause, Types, Loop, Bounds, Reducing, Stages
<1>6. CASE ReduceDocs
  <2>1. Crits("doc") \in Seq(SUBSET Place) /\ Len(Crits("doc")) <= Len(found)
    BY CritsFacts
  <2>2. Crits("doc") # <<>> => Len(Crits("doc")) \in Nat \ {0}
    BY <2>1, EmptySeq
  <2>3. /\ stage = "clauses" /\ query.kind = "crits" /\ clause' \in {2, 3}
        /\ UNCHANGED <<query, found, clauses, entries, mode>>
        /\ lists' \in Seq(SUBSET Place) /\ docs' \in Seq(SUBSET Place)
    BY <2>1, <1>6, EmptySeq DEF ReduceDocs, Types
  <2>4. CASE Crits("doc") # <<>>
    <3>1. lists' = Crits("doc") /\ Reduce("And")
      BY <2>4, <1>6 DEF ReduceDocs
    <3>a. at' = 2 /\ pl' = 1 /\ distance' = 1 /\ reducer' = "And" /\ stage' = "reduce"
      BY <3>1 DEF Reduce
    <3>2. Types'
      BY <3>a, <2>3, <1>0 DEF Types, Stages
    <3>3. Loop'
      BY <3>1, <2>1, <2>2, <2>3, <2>4, <1>0 DEF Loop, Reducing, ReducerOf, Reduce
    <3>4. Bounds'
      BY <3>1, <2>3, <1>0 DEF Bounds, Reducing, Reduce
    <3> QED
      BY <3>2, <3>3, <3>4
  <2>5. CASE Crits("doc") = <<>>
    <3>1. UNCHANGED <<at, pl, distance, reducer, stage>>
      BY <2>5, <1>6 DEF ReduceDocs
    <3> QED
      BY <3>1, <2>3, <1>0 DEF Types, Loop, Bounds, Reducing
  <2> QED
    BY <2>4, <2>5
<1>7. CASE ReducePositions
  <2>1. Crits("pos") \in Seq(SUBSET Place) /\ Len(Crits("pos")) <= Len(found)
    BY CritsFacts
  <2>2. Crits("pos") # <<>> => Len(Crits("pos")) \in Nat \ {0}
    BY <2>1, EmptySeq
  <2>3. /\ stage = "clauses" /\ query.kind = "crits" /\ clause' \in {2, 3}
        /\ UNCHANGED <<query, found, clauses, entries, mode>>
        /\ lists' \in Seq(SUBSET Place) /\ docs' \in Seq(SUBSET Place)
    BY <2>1, <1>7, EmptySeq DEF ReducePositions, Types
  <2>4. CASE Crits("pos") # <<>>
    <3>1. lists' = Crits("pos") /\ Reduce("And")
      BY <2>4, <1>7 DEF ReducePositions
    <3>a. at' = 2 /\ pl' = 1 /\ distance' = 1 /\ reducer' = "And" /\ stage' = "reduce"
      BY <3>1 DEF Reduce
    <3>2. Types'
      BY <3>a, <2>3, <1>0 DEF Types, Stages
    <3>3. Loop'
      BY <3>1, <2>1, <2>2, <2>3, <2>4, <1>0 DEF Loop, Reducing, ReducerOf, Reduce
    <3>4. Bounds'
      BY <3>1, <2>3, <1>0 DEF Bounds, Reducing, Reduce
    <3> QED
      BY <3>2, <3>3, <3>4
  <2>5. CASE Crits("pos") = <<>>
    <3>1. UNCHANGED <<at, pl, distance, reducer, stage>>
      BY <2>5, <1>7 DEF ReducePositions
    <3> QED
      BY <3>1, <2>3, <1>0 DEF Types, Loop, Bounds, Reducing
  <2> QED
    BY <2>4, <2>5
<1>8. CASE FilterPositions
  <2>1. /\ lists # <<>> => lists[1] \in SUBSET Place
        /\ docs # <<>> => docs[1] \in SUBSET Place
    BY EmptySeq, ElementOfSeq DEF Types
  <2>2. CASE docs # <<>> /\ lists # <<>>
    BY <2>1, <2>2, <1>0, <1>8 DEF FilterPositions, Types, Stages, Loop, Bounds, Reducing
  <2>3. CASE docs = <<>> \/ lists = <<>>
    <3>1. docs # <<>> \/ lists # <<>>
      <4>1. /\ stage = "clauses" /\ query.kind = "crits" /\ clause = 3
        BY <1>8 DEF FilterPositions
      <4>2. /\ docs = <<>> <=> Crits("doc") = <<>>
            /\ lists = <<>> <=> Crits("pos") = <<>>
        BY <4>1 DEF Turns, Turn
      <4>3. 1 \in Terms /\ 1 \in 1 .. Len(query.words)
        BY <1>0, QueryFacts DEF Terms
      <4>4. query.words[1] \in Word
        BY <4>3, QueryFacts, ElementOfSeq
      <4>5. query.words[1].on \in {"doc", "pos"}
        BY <4>4 DEF Word
      <4>6. Crits(query.words[1].on) # <<>>
        BY <4>3, CritsFacts, EmptySeq
      <4> QED
        BY <4>2, <4>5, <4>6
    <3>2. entries' \in SUBSET Place /\ stage' = "found"
      BY <2>1, <2>3, <3>1, <1>8 DEF FilterPositions
    <3> QED
      BY <3>2, <1>8, <1>0 DEF FilterPositions, Types, Stages, Loop, Bounds, Reducing
  <2> QED
    BY <2>2, <2>3
<1>9. CASE Filtered
  BY <1>0, <1>9 DEF Filtered, Types, Stages, Loop, Bounds, Reducing, Walk, MergeTypeOK
<1>10. CASE MergeLists
  BY <1>0, <1>10 DEF MergeLists, Merge, Types, Stages, Loop, Bounds, Reducing, ReducerOf, MergeOf
<1>11. CASE MergeSteps
  <2>1. UNCHANGED <<op, window, first, second>>
    BY <1>11 DEF MergeSteps, MergeNext, EraseFirst, PassSecond, MatchBoth, MatchDoc, SkipFirst,
                 FirstSkipped, SkipSecond, SecondSkipped, EraseRest
  <2> QED
    BY <2>1, <1>11 DEF MergeSteps, searchVars, Types, Loop, Bounds, Reducing, ReducerOf, MergeOf
<1>12. CASE MergeIsEmpty
  BY <1>0, <1>12, EmptySeq DEF MergeIsEmpty, Types, Stages, Loop, Bounds, Reducing
<1>13. CASE MergeFirstList
  <2>1. /\ stage = "merge" /\ reducer \in {"Phrase", "Near"} /\ pl # 1
        /\ at \in 2 .. Len(lists) /\ pl \in 1 .. Len(lists) /\ 1 \in 1 .. Len(lists)
        /\ at \in 1 .. Len(lists)
        /\ set1 \subseteq Place /\ set2 \subseteq Place
        /\ lists' = Merged(lists, pl) /\ stage' = "mergeFirst"
    BY <1>0, <1>13 DEF MergeFirstList, Loop, Reducing, Walk, MergeTypeOK
  <2>2. /\ lists' \in Seq(SUBSET Place) /\ Len(lists') = Len(lists)
    BY <2>1, MergedFacts DEF Types
  <2>3. Types'
    BY <2>2, <1>13 DEF MergeFirstList, Types, Stages
  <2>4. /\ UNCHANGED <<query, found, at, pl, distance, reducer, op>>
        /\ first' = lists'[1] /\ second' = lists'[at]
        /\ window' = IF reducer = "Phrase" THEN distance ELSE query.slop
    BY <1>13 DEF MergeFirstList
  <2>5. /\ query.kind = "phrase" /\ op = MergeOf
        /\ reducer = "Phrase" <=> op # "near"
    BY <2>1, <1>0 DEF Loop, Reducing, ReducerOf, MergeOf
  <2>6. Loop'
    BY <2>1, <2>2, <2>4, <2>5, <1>0 DEF Loop, Reducing, ReducerOf, MergeOf
  <2>7. Bounds'
    BY <2>1, <2>2, <1>0, <1>13 DEF MergeFirstList, Bounds, Reducing
  <2> QED
    BY <2>3, <2>6, <2>7
<1>14. CASE MergeReturns
  <2>1. /\ Reducing /\ stage # "reduce" /\ pc = "done"
        /\ at \in 2 .. Len(lists) /\ pl \in 1 .. Len(lists) /\ 1 \in 1 .. Len(lists)
        /\ at \in 1 .. Len(lists)
        /\ set1 \subseteq Place /\ set2 \subseteq Place
    BY <1>0, <1>14 DEF MergeReturns, Loop, Reducing, Walk, MergeTypeOK
  <2>2. \A i \in 1 .. Len(lists) : /\ Merged(lists, i) \in Seq(SUBSET Place)
                                   /\ Len(Merged(lists, i)) = Len(lists)
                                   /\ Collected(Merged(lists, i)) \in Seq(SUBSET Place)
                                   /\ Len(Collected(Merged(lists, i))) = Len(lists)
    BY <2>1, MergedFacts, CollectedFacts DEF Types
  <2>3. /\ lists' \in Seq(SUBSET Place) /\ Len(lists') = Len(lists)
        /\ at' = at + 1 /\ distance' = distance + 1 /\ stage' = "reduce"
        /\ pl' = IF query.kind = "crits" THEN 1 ELSE at
        /\ UNCHANGED <<query, found, clauses, clause, docs, reducer, entries, mode, shown>>
    BY <2>1, <2>2, <1>0, <1>14 DEF MergeReturns, NextList, Loop, Reducing, ReducerOf
  <2>a. at \in Nat /\ at <= Len(found) /\ distance \in Nat /\ distance <= Len(found)
    BY <2>1, <1>0 DEF Loop
  <2>4. Types'
    BY <2>1, <2>3, <2>a, <1>0 DEF Types, Stages
  <2>5. Loop'
    BY <2>1, <2>3, <1>0 DEF Loop, Reducing, ReducerOf
  <2>6. Bounds'
    BY <2>1, <2>3, <1>0 DEF Bounds, Reducing
  <2> QED
    BY <2>4, <2>5, <2>6
<1>15. CASE Reduced
  <2>1. Len(lists) > 0 /\ lists[1] \in SUBSET Place
    <3>1. Len(lists) > 0 /\ 1 \in 1 .. Len(lists)
      BY <1>15, <1>0 DEF Reduced, Loop, Reducing
    <3> QED
      BY <3>1, ElementOfSeq DEF Types
  <2>2. All \in SUBSET Place
    <3>1. \A i \in DOMAIN lists : lists[i] \in SUBSET Place
      BY LenProperties, ElementOfSeq DEF Types
    <3> QED
      BY <3>1 DEF All, ToSet
  <2>3. ASSUME NEW s \in SUBSET Place
        PROVE  <<s>> \in Seq(SUBSET Place) /\ Len(<<s>>) = 1
    OBVIOUS
  <2>a. \E s \in SUBSET Place : (lists' = <<>> \/ lists' = <<s>>) /\ entries' = s
    BY <2>1, <2>2, <1>15 DEF Reduced
  <2>4. /\ lists' \in Seq(SUBSET Place) /\ Len(lists') <= 1 /\ entries' \in SUBSET Place
        /\ stage' = IF query.kind \in {"boolean", "crits"} THEN "clauses" ELSE "found"
        /\ stage = "reduce"
        /\ UNCHANGED <<query, found, clauses, clause, docs, at, pl, distance, reducer, mode, shown>>
    <3>1. lists' \in Seq(SUBSET Place) /\ Len(lists') <= 1 /\ entries' \in SUBSET Place
      <4>1. PICK s \in SUBSET Place : (lists' = <<>> \/ lists' = <<s>>) /\ entries' = s
        BY <2>a
      <4>2. <<s>> \in Seq(SUBSET Place) /\ Len(<<s>>) = 1
        BY <2>3
      <4>3. CASE lists' = <<>>
        BY <4>1, <4>3, EmptySeq
      <4>4. CASE lists' = <<s>>
        BY <4>1, <4>2, <4>4
      <4> QED
        BY <4>1, <4>3, <4>4
    <3> QED
      BY <3>1, <1>15 DEF Reduced
  <2>5. Types'
    BY <2>4 DEF Types, Stages
  <2>6. Loop'
    BY <2>4 DEF Loop, Reducing
  <2>7. Bounds'
    BY <2>4, <1>0 DEF Bounds, Reducing
  <2> QED
    BY <2>5, <2>6, <2>7
<1>16. CASE GetSearchResult
  BY <1>0, <1>16 DEF GetSearchResult, Types, Stages, Loop, Bounds, Reducing
<1>17. CASE UNCHANGED vars
  BY <1>17 DEF vars, searchVars, mergeVars, Types, Loop, Bounds, Reducing, ReducerOf, MergeOf
<1> QED
  BY <1>1, <1>2, <1>3, <1>4, <1>5, <1>6, <1>7, <1>8, <1>9, <1>10, <1>11, <1>12, <1>13, <1>14,
     <1>15, <1>16, <1>17 DEF SearchNext

\* The criteria on documents are reduced before those on positions.
LEMMA StepTurns == Going /\ [SearchNext]_vars => Turns'
<1> SUFFICES ASSUME Types, Loop, Bounds, Turns, [SearchNext]_vars, query'.kind = "crits"
             PROVE  Turns'
  BY DEF Going, Turns
<1>0. /\ UNCHANGED <<query, found>> /\ query.kind = "crits"
      /\ \A on : Crits(on)' = Crits(on)
      /\ Len(lists) \in Nat /\ at \in Nat /\ pl \in Nat
  <2>1. UNCHANGED <<query, found>>
    BY DEF vars, searchVars, SearchNext, AddClause, Parsed, ReduceTerms, SearchClause, NoClause,
           ReduceDocs, ReducePositions, FilterPositions, Filtered, MergeLists, MergeSteps,
           MergeIsEmpty, MergeFirstList, MergeReturns, Reduced, GetSearchResult
  <2> QED
    BY <2>1, LenProperties DEF Crits, Types
<1>a. stage \in {"clauses", "reduce", "merge", "filter", "found", "shown"}
  BY <1>0 DEF Turns
<1>1. CASE ReduceDocs
  BY <1>0, <1>1 DEF ReduceDocs, Reduce, Turns, Turn, Reducing
<1>2. CASE ReducePositions
  BY <1>0, <1>2 DEF ReducePositions, Reduce, Turns, Turn, Reducing
<1>3. CASE FilterPositions
  BY <1>0, <1>3 DEF FilterPositions, Turns, Turn, Reducing
<1>4. CASE Filtered
  BY <1>0, <1>4 DEF Filtered, Turns, Turn, Reducing, Loop
<1>5. CASE MergeLists
  BY <1>0, <1>5 DEF MergeLists, Turns, Turn, Reducing
<1>6. CASE MergeSteps \/ UNCHANGED vars
  BY <1>0, <1>6 DEF MergeSteps, vars, searchVars, Turns, Turn, Reducing
<1>7. CASE MergeReturns
  BY <1>0, <1>7 DEF MergeReturns, NextList, Turns, Turn, Reducing
<1>8. CASE Reduced
  <2>1. reducer = "And" /\ stage = "reduce"
    BY <1>0, <1>8 DEF Reduced, Loop, Reducing, ReducerOf
  <2>2. lists' = <<lists[1]>> /\ stage' = "clauses" /\ UNCHANGED <<clause, docs>>
    BY <1>0, <1>8, <2>1 DEF Reduced
  <2>3. lists' # <<>>
    BY <2>2
  <2> QED
    BY <1>0, <2>1, <2>2, <2>3 DEF Turns, Turn, Reducing
<1>9. CASE GetSearchResult
  BY <1>0, <1>9 DEF GetSearchResult, Turns, Turn, Reducing
<1> QED
  BY <1>0, <1>a, <1>1, <1>2, <1>3, <1>4, <1>5, <1>6, <1>7, <1>8, <1>9
     DEF SearchNext, AddClause, Parsed, ReduceTerms, SearchClause, NoClause, MergeIsEmpty,
         MergeFirstList, Loop, Reducing, ReducerOf

\* Every step keeps the reductions in their order.
LEMMA StepGoes == Going /\ Walk /\ [SearchNext]_vars => Going'
  BY StepLoops, StepTurns DEF Going

-----------------------------------------------------------------------------
(***************************************************************************)
(* The merges a search calls do what merges do.                            *)
(***************************************************************************)
\* Every merge starts as one of those that module EntryMerge describes.
LEMMA InitCalls == SearchInit => MergeInit
<1>1. SearchInit => 1 \in Window
  BY InitGoes, QueryFacts DEF Going
<1> QED
  BY <1>1 DEF SearchInit, MergeInit, Called, Merges

\* So all that a merge knows holds for the merge at work.
LEMMA SearchMerges == SearchSpec => [](Going /\ Merging /\ PairsAreKept /\ Ahead)
<1> DEFINE M == Merging /\ PairsAreKept /\ Ahead
<1>1. SearchInit => Going /\ M
  BY InitGoes, InitCalls, InitWalks, InitExactly, InitPartners, InitPairs, InitAhead DEF Merging
<1>2. MergeInit => M
  BY InitWalks, InitExactly, InitPartners, InitPairs, InitAhead DEF Merging
<1>3. M /\ [MergeNext]_mergeVars => M'
  BY StepWalks, StepExactly, StepPartners, StepPairs, StepAhead DEF Merging
<1>4. Going /\ M /\ [SearchNext]_vars => [MergeNext]_mergeVars \/ MergeInit'
  BY StepCalls DEF Going, Merging
<1>5. Going /\ M /\ [SearchNext]_vars => Going'
  BY StepGoes DEF Merging
<1> HIDE DEF M
<1>6. SearchSpec => SearchInit /\ [][SearchNext]_vars
  BY PTL DEF SearchSpec, vars
<1>7. SearchSpec => [](Going /\ M)
  BY <1>1, <1>2, <1>3, <1>4, <1>5, <1>6, PTL
<1> QED
  BY <1>7, PTL DEF M

\* A search merges two lists as module EntryMerge says, every time it does.
THEOREM SearchMergesAreExact ==
    SearchSpec => [](MergeTypeOK /\ ResultIsExact /\ ResultIsSound /\ OrderedDocumentsAreFound)
<1>1. Merging /\ Ahead => MergeTypeOK /\ ResultIsExact /\ ResultIsSound /\ OrderedDocumentsAreFound
  <2> SUFFICES ASSUME Walk, Exactly, Partnered, Ahead
               PROVE  MergeTypeOK /\ ResultIsExact /\ ResultIsSound /\ OrderedDocumentsAreFound
    BY DEF Merging
  <2>1. MergeTypeOK
    BY DEF Walk
  <2>2. ResultIsExact
    BY DEF Walk, MergeTypeOK, Ended, Exactly, Exact, FirstIsExact, SecondIsExact, ResultIsExact,
           Meeting, Met
  <2>3. ResultIsSound
    BY DEF Walk, Ended, Partnered, ResultIsSound, Meeting, Met
  <2>4. OrderedDocumentsAreFound
    BY DEF Walk, Ended, Ahead, HasPair, OrderedDocumentsAreFound
  <2> QED
    BY <2>1, <2>2, <2>3, <2>4
<1> QED
  BY <1>1, SearchMerges, PTL

-----------------------------------------------------------------------------
(***************************************************************************)
(* The criteria: the first list has what all criteria reduced so far have. *)
(***************************************************************************)
\* What the lists of the criteria on documents or positions have in common.
LEMMA CommonFacts ==
    ASSUME Types, NEW on
    PROVE  /\ Common(on) = {e \in Place : \A k \in 1 .. Len(Crits(on)) : e \in Crits(on)[k]}
           /\ Crits(on) = <<>> <=> \A i \in Terms : query.words[i].on # on
           /\ Crits(on) # <<>> => Len(Crits(on)) \in Nat \ {0}
<1>1. Crits(on) = <<>> <=> Len(Crits(on)) = 0
  BY CritsFacts, EmptySeq
<1>2. Len(Crits(on)) \in Nat
  BY CritsFacts, LenProperties
<1>3. (\E i \in Terms : query.words[i].on = on) <=> \E k \in 1 .. Len(Crits(on)) : TRUE
  BY CritsFacts
<1>4. (\E k \in 1 .. Len(Crits(on)) : TRUE) <=> Len(Crits(on)) # 0
  <2>1. Len(Crits(on)) # 0 => 1 \in 1 .. Len(Crits(on))
    BY <1>2
  <2> QED
    BY <2>1, <1>2
<1>5. Common(on) = {e \in Place : \A k \in 1 .. Len(Crits(on)) : e \in Crits(on)[k]}
  BY CritsFacts DEF Common
<1> QED
  BY <1>1, <1>2, <1>3, <1>4, <1>5

\* A criterion is on documents or on positions, and there is one.
LEMMA CritsAreOn ==
    ASSUME Types
    PROVE  /\ Crits("doc") = <<>> <=> AllOn("pos")
           /\ Crits("pos") = <<>> <=> AllOn("doc")
           /\ ~ (AllOn("pos") /\ AllOn("doc"))
<1>1. ASSUME NEW i \in Terms
      PROVE  query.words[i].on \in {"doc", "pos"}
  <2>1. query.words[i] \in Word
    BY QueryFacts, ElementOfSeq DEF Terms
  <2> QED
    BY <2>1 DEF Word
<1>2. 1 \in Terms
  BY QueryFacts DEF Terms
<1> QED
  BY <1>1, <1>2, CommonFacts DEF AllOn

\* Nothing is reduced at first.
LEMMA InitCrits == SearchInit => CritLists
  BY DEF SearchInit, CritLists, Reducing, CriteriaAreExact, Answered

\* The merge of the first list with the next one keeps what both have.
LEMMA AndMergeKeeps ==
    ASSUME Merging, pc = "done", op = "and"
    PROVE  set1 = first \cap second
<1>1. /\ first \subseteq Place /\ second \subseteq Place /\ set1 \subseteq first
      /\ rest1 = {} /\ window \in Window
  BY DEF Merging, Walk, MergeTypeOK, Ended
<1>2. \A x \in first : x \in set1 <=> \E y \in second : Meet(op, window, x, y)
  BY <1>1 DEF Merging, Exactly, Exact, FirstIsExact
<1>3. \A x, y \in Place : Meet(op, window, x, y) <=> x = y
  BY LessIsTotalOrder DEF Meet, FirstIsBehind, SecondIsBehind
<1> QED
  BY <1>1, <1>2, <1>3

\* The merge of the positions with the documents keeps what is in one of them.
LEMMA DocMergeKeeps ==
    ASSUME Merging, pc = "done", op = "doc"
    PROVE  set1 = {x \in first : \E y \in second : x.doc = y.doc}
<1>1. /\ first \subseteq Place /\ second \subseteq Place /\ set1 \subseteq first
      /\ rest1 = {} /\ window \in Window
  BY DEF Merging, Walk, MergeTypeOK, Ended
<1>2. \A x \in first : x \in set1 <=> \E y \in second : Meet(op, window, x, y)
  BY <1>1 DEF Merging, Exactly, Exact, FirstIsExact
<1>3. \A x, y \in Place : Meet(op, window, x, y) <=> x.doc = y.doc
  <2> TAKE x, y \in Place
  <2>1. x.doc \in Nat /\ y.doc \in Nat
    BY PlaceAssumption
  <2> QED
    BY <2>1 DEF Meet, FirstIsBehind, SecondIsBehind
<1> QED
  BY <1>1, <1>2, <1>3

\* Every step keeps what the lists of the criteria are.
LEMMA StepCrits ==
    Going /\ Going' /\ Merging /\ CritLists /\ [SearchNext]_vars => CritLists'
<1> SUFFICES ASSUME Types, Loop, Bounds, Turns, Going', Merging, CritLists, [SearchNext]_vars,
                    query'.kind = "crits"
             PROVE  CritLists'
  BY DEF Going, CritLists
<1>0. /\ UNCHANGED <<query, found>> /\ query.kind = "crits"
      /\ \A on : Crits(on)' = Crits(on)
      /\ \A on : Common(on)' = Common(on)
      /\ \A on : Reduction(on)' = Reduction(on)
      /\ \A on : AllOn(on)' = AllOn(on)
      /\ Len(lists) \in Nat /\ at \in Nat /\ pl \in Nat
      /\ \A on : Len(Crits(on)) \in Nat
  <2>1. UNCHANGED <<query, found>>
    BY DEF vars, searchVars, SearchNext, AddClause, Parsed, ReduceTerms, SearchClause, NoClause,
           ReduceDocs, ReducePositions, FilterPositions, Filtered, MergeLists, MergeSteps,
           MergeIsEmpty, MergeFirstList, MergeReturns, Reduced, GetSearchResult
  <2>2. \A on : Crits(on)' = Crits(on)
    BY <2>1 DEF Crits
  <2>3. \A on : Len(Crits(on)) \in Nat
    BY CritsFacts, LenProperties
  <2> QED
    BY <2>1, <2>2, <2>3, LenProperties DEF Types, Common, Reduction, AllOn, Terms
<1>a. stage \in {"clauses", "reduce", "merge", "filter", "found", "shown"}
  BY <1>0 DEF Turns
<1>b. /\ clause = 3 => docs = Reduction("doc")
      /\ stage = "clauses" /\ clause > 1 => lists = Reduction(Turn)
      /\ Reducing => /\ Len(lists) = Len(Crits(Turn))
                     /\ lists[1] = {e \in Place : \A k \in 1 .. at - 1 : e \in Crits(Turn)[k]}
                     /\ \A k \in at .. Len(lists) : lists[k] = Crits(Turn)[k]
      /\ stage = "filter" => lists = Reduction("pos")
      /\ CriteriaAreExact
  BY <1>0 DEF CritLists
<1>c. ASSUME NEW on, lists' = Crits(on), Crits(on) # <<>>, on = Turn', at' = 2
      PROVE  /\ lists'[1] = {e \in Place : \A k \in 1 .. at' - 1 : e \in Crits(Turn)'[k]}
             /\ \A k \in at' .. Len(lists') : lists'[k] = Crits(Turn)'[k]
             /\ Len(lists') = Len(Crits(Turn)')
  <2>1. Crits(Turn)' = Crits(on)
    BY <1>0, <1>c
  <2>2. /\ Len(Crits(on)) \in Nat \ {0} /\ Crits(on) \in Seq(SUBSET Place)
    BY <1>c, CommonFacts, CritsFacts
  <2>3. Crits(on)[1] \in SUBSET Place
    BY <2>2, ElementOfSeq
  <2>4. 1 .. at' - 1 = {1}
    BY <1>c
  <2> QED
    BY <2>1, <2>2, <2>3, <2>4, <1>c
<1>1. CASE ReduceDocs
  <2>1. CASE Crits("doc") # <<>>
    <3>1. /\ lists' = Crits("doc") /\ at' = 2 /\ stage' = "reduce" /\ clause' = 2
      BY <1>1, <2>1 DEF ReduceDocs, Reduce
    <3> QED
      BY <3>1, <2>1, <1>c, <1>0 DEF CritLists, Turn, Reducing, CriteriaAreExact, Answered
  <2>2. CASE Crits("doc") = <<>>
    <3>1. /\ lists' = lists /\ stage' = "clauses" /\ clause' = 2 /\ clause = 1 /\ stage = "clauses"
      BY <1>1, <2>2 DEF ReduceDocs
    <3>2. lists = <<>>
      BY <3>1, <1>0 DEF Turns
    <3> QED
      BY <3>1, <3>2, <2>2, <1>0
         DEF CritLists, Turn, Reducing, Reduction, CriteriaAreExact, Answered
  <2> QED
    BY <2>1, <2>2
<1>2. CASE ReducePositions
  <2>0. docs' = Reduction("doc") /\ clause' = 3 /\ clause = 2
    BY <1>2, <1>b DEF ReducePositions, Turn
  <2>1. CASE Crits("pos") # <<>>
    <3>1. /\ lists' = Crits("pos") /\ at' = 2 /\ stage' = "reduce"
      BY <1>2, <2>1 DEF ReducePositions, Reduce
    <3> QED
      BY <3>1, <2>0, <2>1, <1>c, <1>0 DEF CritLists, Turn, Reducing, CriteriaAreExact, Answered
  <2>2. CASE Crits("pos") = <<>>
    <3>1. /\ lists' = <<>> /\ stage' = "clauses"
      BY <1>2, <2>2 DEF ReducePositions
    <3> QED
      BY <3>1, <2>0, <2>2, <1>0
         DEF CritLists, Turn, Reducing, Reduction, CriteriaAreExact, Answered
  <2> QED
    BY <2>1, <2>2
<1>3. CASE FilterPositions
  <2>0. /\ stage = "clauses" /\ clause = 3 /\ UNCHANGED <<clause, docs, lists>>
        /\ docs = Reduction("doc") /\ lists = Reduction("pos")
    BY <1>3, <1>b DEF FilterPositions, Turn
  <2>1. CASE docs # <<>> /\ lists # <<>>
    <3>1. stage' = "filter"
      BY <1>3, <2>1 DEF FilterPositions
    <3> QED
      BY <3>1, <2>0, <1>0 DEF CritLists, Reducing, CriteriaAreExact, Answered
  <2>2. CASE docs = <<>> \/ lists = <<>>
    <3>1. stage' = "found" /\ entries' = IF docs # <<>> THEN docs[1] ELSE lists[1]
      BY <1>3, <2>2 DEF FilterPositions
    <3>2. /\ docs = <<>> <=> Crits("doc") = <<>>
          /\ lists = <<>> <=> Crits("pos") = <<>>
          /\ docs # <<>> => docs[1] = Common("doc")
          /\ lists # <<>> => lists[1] = Common("pos")
      BY <2>0 DEF Reduction
    <3>3. entries' = IF AllOn("doc") THEN Common("doc") ELSE Common("pos")
      BY <3>1, <3>2, <2>2, CritsAreOn
    <3>4. ~ AllOn("doc") => AllOn("pos")
      BY <3>2, <2>2, CritsAreOn
    <3>5. CriteriaAreExact'
      BY <3>3, <3>4, <1>0 DEF CriteriaAreExact, Common, Terms
    <3> QED
      BY <3>1, <3>5, <2>0, <1>0 DEF CritLists, Reducing
  <2> QED
    BY <2>1, <2>2
<1>4. CASE Filtered
  <2>1. /\ stage = "filter" /\ pc = "done" /\ entries' = set1 /\ stage' = "found"
        /\ UNCHANGED <<clause, docs, lists>>
        /\ op = "doc" /\ lists # <<>> /\ docs # <<>> /\ first = lists[1] /\ second = docs[1]
        /\ clause = 3
    BY <1>4 DEF Filtered, Loop
  <2>2. /\ lists = Reduction("pos") /\ docs = Reduction("doc")
    BY <2>1, <1>b
  <2>3. /\ first = Common("pos") /\ second = Common("doc")
        /\ Crits("pos") # <<>> /\ Crits("doc") # <<>>
    BY <2>1, <2>2 DEF Reduction
  <2>4. ~ AllOn("pos") /\ ~ AllOn("doc")
    BY <2>3, CritsAreOn
  <2>5. entries' = {x \in Common("pos") : \E y \in Common("doc") : x.doc = y.doc}
    BY <2>1, <2>3, DocMergeKeeps
  <2>6. CriteriaAreExact'
    BY <2>4, <2>5, <1>0 DEF CriteriaAreExact, Common, Terms
  <2> QED
    BY <2>1, <2>2, <2>6, <1>0 DEF CritLists, Reducing
<1>5. CASE MergeLists
  BY <1>0, <1>5, <1>b DEF MergeLists, CritLists, Turn, Reducing, CriteriaAreExact, Answered
<1>6. CASE MergeSteps \/ UNCHANGED vars
  <2>1. UNCHANGED searchVars
    BY <1>6 DEF MergeSteps, vars
  <2>2. CriteriaAreExact'
    BY <2>1, <1>b, <1>0
       DEF searchVars, CriteriaAreExact, Answered, Common, Terms
  <2> QED
    BY <1>0, <1>b, <2>1, <2>2 DEF searchVars, CritLists, Turn, Reducing
<1>7. CASE MergeReturns
  <2>1. /\ stage = "merge" /\ pc = "done" /\ reducer = "And"
        /\ op = "and" /\ pl = 1 /\ first = lists[1] /\ second = lists[at]
        /\ at \in 2 .. Len(lists) /\ 1 \in 1 .. Len(lists) /\ at \in 1 .. Len(lists)
    BY <1>7, <1>a, <1>0 DEF MergeReturns, Loop, Reducing, ReducerOf, MergeOf
  <2>2. /\ lists' = Merged(lists, 1) /\ at' = at + 1 /\ stage' = "reduce"
        /\ UNCHANGED <<clause, docs>>
    BY <1>7, <2>1 DEF MergeReturns, NextList
  <2>3. set1 \subseteq Place /\ set2 \subseteq Place
    BY DEF Merging, Walk, MergeTypeOK
  <2>4. /\ Len(lists') = Len(lists)
        /\ \A j \in 1 .. Len(lists) : lists'[j] = IF j = at THEN set2
                                                  ELSE IF j = 1 THEN set1 ELSE lists[j]
    BY <2>1, <2>2, <2>3, MergedFacts DEF Types
  <2>5. set1 = lists[1] \cap lists[at]
    BY <2>1, AndMergeKeeps
  <2>6. /\ lists[at] = Crits(Turn)[at] /\ Turn' = Turn
        /\ lists[1] = {e \in Place : \A k \in 1 .. at - 1 : e \in Crits(Turn)[k]}
        /\ Len(lists) = Len(Crits(Turn))
    BY <2>1, <2>2, <1>b DEF Reducing, Turn
  <2>7. lists'[1] = {e \in Place : \A k \in 1 .. at' - 1 : e \in Crits(Turn)[k]}
    <3>1. lists'[1] = set1
      BY <2>1, <2>4
    <3>2. 1 .. at' - 1 = (1 .. at - 1) \cup {at}
      BY <2>1, <2>2
    <3> QED
      BY <3>1, <3>2, <2>5, <2>6
  <2>8. \A k \in at' .. Len(lists') : lists'[k] = Crits(Turn)[k]
    BY <2>1, <2>2, <2>4, <1>b DEF Reducing
  <2>9. Crits(Turn)' = Crits(Turn)
    BY <2>6, <1>0
  <2> QED
    BY <2>2, <2>4, <2>6, <2>7, <2>8, <2>9, <1>0, <1>b DEF CritLists, CriteriaAreExact, Answered, Reducing
<1>8. CASE Reduced
  <2>1. reducer = "And" /\ stage = "reduce" /\ at > Len(lists) /\ Len(lists) \in 1 .. Len(found)
        /\ at \in 2 .. Len(lists) + 1
    BY <1>0, <1>8 DEF Reduced, Loop, Reducing, ReducerOf
  <2>2. lists' = <<lists[1]>> /\ stage' = "clauses" /\ UNCHANGED <<clause, docs>>
    BY <1>0, <1>8, <2>1 DEF Reduced
  <2>3. at - 1 = Len(lists)
    BY <2>1, <1>0
  <2>4. lists[1] = Common(Turn) /\ Crits(Turn) # <<>>
    <3>1. /\ Len(lists) = Len(Crits(Turn)) /\ Crits(Turn) # <<>>
          /\ lists[1] = {e \in Place : \A k \in 1 .. at - 1 : e \in Crits(Turn)[k]}
      BY <2>1, <1>b, <1>0 DEF Reducing, Turns
    <3>2. Common(Turn) = {e \in Place : \A k \in 1 .. Len(Crits(Turn)) : e \in Crits(Turn)[k]}
      BY CommonFacts
    <3>3. 1 .. at - 1 = 1 .. Len(Crits(Turn))
      BY <3>1, <2>3
    <3> QED
      BY <3>1, <3>2, <3>3
  <2>5. lists' = Reduction(Turn)' /\ Turn' = Turn
    BY <2>2, <2>4, <1>0 DEF Reduction, Turn
  <2> QED
    BY <1>0, <1>b, <2>2, <2>5 DEF CritLists, Reducing, CriteriaAreExact, Answered
<1>9. CASE GetSearchResult
  <2>1. CriteriaAreExact'
    BY <1>b, <1>0, <1>9 DEF GetSearchResult, CriteriaAreExact, Answered, Common, Terms
  <2> QED
    BY <2>1, <1>0, <1>9, <1>b DEF GetSearchResult, CritLists, Reducing
<1> QED
  BY <1>0, <1>a, <1>1, <1>2, <1>3, <1>4, <1>5, <1>6, <1>7, <1>8, <1>9
     DEF SearchNext, AddClause, Parsed, ReduceTerms, SearchClause, NoClause, MergeIsEmpty,
         MergeFirstList, Loop, Reducing, ReducerOf

\* A search record finds the entries that all its criteria on positions have,
\* in the documents of those that all its criteria on documents have, for every
\* number of criteria and all their entries.
THEOREM CriteriaFindTheirEntries == SearchSpec => []CriteriaAreExact
<1>1. SearchSpec => SearchInit /\ [][SearchNext]_vars
  BY PTL DEF SearchSpec, vars
<1>2. CritLists => CriteriaAreExact
  BY DEF CritLists, CriteriaAreExact
<1>3. SearchInit => CritLists
  BY InitCrits
<1>4. Going /\ Going' /\ Merging /\ CritLists /\ [SearchNext]_vars => CritLists'
  BY StepCrits
<1> QED
  BY <1>1, <1>2, <1>3, <1>4, SearchMerges, PTL

-----------------------------------------------------------------------------
(***************************************************************************)
(* Phrases and proximity searches: what a merge of two lists leaves, and   *)
(* how it makes a chain of k places one of k + 1.                          *)
(***************************************************************************)
\* The two lists that a phrase or a near merge leaves: every place has a
\* partner in its document, and none is new.
LEMMA PhraseMergeLeaves ==
    ASSUME Merging, pc = "done", op \in {"phrase", "near"}
    PROVE  /\ set1 \subseteq first /\ set2 \subseteq second
           /\ first \subseteq Place /\ second \subseteq Place
           /\ \A x \in set1 : \E y \in set2 : Meet(op, window, x, y) /\ x.doc = y.doc
           /\ \A y \in set2 : \E x \in set1 : Meet(op, window, x, y) /\ x.doc = y.doc
<1>1. /\ set1 \subseteq first /\ set2 \subseteq second
      /\ first \subseteq Place /\ second \subseteq Place
      /\ rest1 = {} /\ rest2 = {} /\ window \in Window
  BY DEF Merging, Walk, MergeTypeOK, Ended
<1>2. /\ \A x \in set1 : \E y \in set2 : Meet(op, window, x, y)
      /\ \A y \in set2 : \E x \in set1 : Meet(op, window, x, y)
  BY <1>1 DEF Merging, Partnered, ReducesBoth
<1>3. \A x, y \in Place : Meet(op, window, x, y) => x.doc = y.doc
  BY <1>1, MeetIsInDocument
<1> QED
  BY <1>1, <1>2, <1>3

\* Two places of a document that meet in the merge of a list with the next
\* one adjoin.
LEMMA MeetAdjoins ==
    ASSUME Types, Loop, query.kind = "phrase", stage = "merge",
           NEW x \in Place, NEW y \in Place, Meet(op, window, x, y), x.doc = y.doc
    PROVE  Adjoins(x, y)
<1>1. /\ x.pos \in Nat /\ y.pos \in Nat /\ query.slop \in Nat
  BY PlaceAssumption, QueryFacts
<1>2. /\ op = IF query.slop > 0 THEN "near" ELSE "phrase"
      /\ window = IF query.slop > 0 THEN query.slop ELSE 1
  BY DEF Loop, MergeOf
<1> QED
  BY <1>1, <1>2 DEF Meet, FirstIsBehind, SecondIsBehind, Adjoins

\* A chain grows by a place of the next term.
LEMMA ChainGrows ==
    ASSUME Types, NEW k \in Nat \ {0}, NEW x \in Place, NEW y \in Place,
           Chained(k, x), x.doc = y.doc, y \in found[k + 1], Adjoins(x, y)
    PROVE  Chained(k + 1, y)
<1>1. PICK f \in [1 .. k -> Place] :
        /\ f[k] = x
        /\ \A i \in 1 .. k : f[i] \in found[i] /\ f[i].doc = x.doc
        /\ \A i \in 1 .. k - 1 : Adjoins(f[i], f[i + 1])
  BY DEF Chained
<1> DEFINE g == [i \in 1 .. k + 1 |-> IF i = k + 1 THEN y ELSE f[i]]
<1>2. g \in [1 .. k + 1 -> Place]
  BY <1>1
<1>3. /\ g[k + 1] = y /\ \A i \in 1 .. k : g[i] = f[i]
  OBVIOUS
<1> HIDE DEF g
<1>4. \A i \in 1 .. k + 1 : g[i] \in found[i] /\ g[i].doc = y.doc
  <2> TAKE i \in 1 .. k + 1
  <2>1. i = k + 1 \/ i \in 1 .. k
    OBVIOUS
  <2> QED
    BY <2>1, <1>1, <1>3
<1>5. \A i \in 1 .. (k + 1) - 1 : Adjoins(g[i], g[i + 1])
  <2> TAKE i \in 1 .. (k + 1) - 1
  <2>1. CASE i = k
    BY <2>1, <1>1, <1>3
  <2>2. CASE i # k
    <3>1. i \in 1 .. k - 1 /\ i \in 1 .. k /\ i + 1 \in 1 .. k
      BY <2>2
    <3> QED
      BY <3>1, <1>1, <1>3
  <2> QED
    BY <2>1, <2>2
<1> QED
  BY <1>2, <1>3, <1>4, <1>5 DEF Chained

\* So does what the merge with the next list leaves.
LEMMA MergeChains ==
    ASSUME Types, Loop, Merging, query.kind = "phrase", stage = "merge", pc = "done",
           \A e \in lists[at - 1] : Chained(at - 1, e),
           lists[at] \subseteq found[at]
    PROVE  /\ \A e \in set2 : Chained(at, e)
           /\ \A e \in set1 \cup set2 : Covered(at, e.doc)
<1>1. /\ at \in 2 .. Len(found) /\ at - 1 \in Nat \ {0} /\ (at - 1) + 1 = at
      /\ first = lists[at - 1] /\ second = lists[at]
      /\ op \in {"phrase", "near"}
  <2>1. Len(lists) \in Nat /\ Len(found) \in Nat
    BY QueryFacts, LenProperties DEF Types
  <2> QED
    BY <2>1 DEF Loop, Reducing, MergeOf
<1>2. ASSUME NEW y \in set2
      PROVE  Chained(at, y)
  <2>1. PICK x \in set1 : Meet(op, window, x, y) /\ x.doc = y.doc
    BY <1>1, PhraseMergeLeaves
  <2>2. x \in Place /\ y \in Place /\ x \in lists[at - 1] /\ y \in found[at]
    BY <1>1, PhraseMergeLeaves
  <2>3. Adjoins(x, y)
    BY <2>1, <2>2, MeetAdjoins
  <2>4. Chained((at - 1) + 1, y)
    BY <2>1, <2>2, <2>3, <1>1, ChainGrows
  <2> QED
    BY <2>4, <1>1
<1>3. \A y \in set2 : Covered(at, y.doc)
  BY <1>1, <1>2, PhraseMergeLeaves DEF Covered
<1>4. \A x \in set1 : Covered(at, x.doc)
  BY <1>1, <1>3, PhraseMergeLeaves
<1> QED
  BY <1>2, <1>3, <1>4

\* What the merge with the first list leaves is in documents with a chain.
LEMMA FirstMergeChains ==
    ASSUME Types, Loop, Merging, query.kind = "phrase", stage = "mergeFirst", pc = "done",
           \A e \in lists[at] : Chained(at, e)
    PROVE  /\ \A e \in set2 : Chained(at, e)
           /\ \A e \in set1 \cup set2 : Covered(at, e.doc)
<1>1. /\ first = lists[1] /\ second = lists[at] /\ op \in {"phrase", "near"}
  BY DEF Loop, MergeOf
<1>2. \A y \in set2 : Chained(at, y) /\ Covered(at, y.doc)
  BY <1>1, PhraseMergeLeaves DEF Covered
<1> QED
  BY <1>1, <1>2, PhraseMergeLeaves

-----------------------------------------------------------------------------
\* In a text, the places of different words that stand one after the other
\* are each other's only partners: between the first and the last of them
\* there are only the others.
LEMMA WordsArePairs ==
    ASSUME Types, Walk, op = "phrase", Disjoint,
           NEW f \in [Terms -> Place], Stands(f),
           NEW n \in 2 .. Len(found), NEW i \in 1 .. n - 1, window = n - i,
           \A j \in 1 .. n : f[j].pos = f[1].pos + (j - 1),
           first \subseteq UNION ToSet(found), second \subseteq found[n],
           f[i] \in first, f[n] \in second
    PROVE  OnlyPair(f[i], f[n])
<1>0. /\ Len(found) \in Nat /\ Terms = 1 .. Len(found)
  BY QueryFacts DEF Terms
<1>1. /\ i \in Terms /\ n \in Terms /\ 1 \in Terms /\ i \in 1 .. n /\ n \in 1 .. n
      /\ \A j \in 1 .. n : j \in Terms
  BY <1>0
<1>2. \A j \in Terms : f[j] \in Place /\ f[j] \in found[j] /\ f[j].doc = f[1].doc
  BY DEF Stands
<1>3. \A j \in Terms : found[j] \subseteq UNION ToSet(found)
  BY DEF Terms, ToSet
<1>4. \A a, b \in UNION ToSet(found) :
          a.doc = f[1].doc /\ b.doc = f[1].doc /\ Less(a, b) => a.pos < b.pos
  BY DEF Stands
<1>5. f[i].doc = f[n].doc /\ f[n].pos = f[i].pos + window
  <2>1. f[1].pos \in Nat
    BY <1>1, <1>2, PlaceAssumption
  <2> QED
    BY <2>1, <1>1, <1>2
<1>6. ASSUME NEW c \in second, Meet(op, window, f[i], c)
      PROVE  c = f[n]
  <2>1. /\ c \in Place /\ c \in found[n] /\ c \in UNION ToSet(found)
    BY <1>1, <1>3 DEF Walk, MergeTypeOK
  <2>2. c.doc = f[i].doc
    BY <2>1, <1>1, <1>2, <1>6, MeetIsInDocument DEF Walk, MergeTypeOK
  <2>3. /\ c.pos \in Nat /\ f[i].pos \in Nat /\ f[1].pos \in Nat
    BY <2>1, <1>1, <1>2, PlaceAssumption
  <2>4. f[i].pos <= c.pos /\ c.pos <= f[i].pos + window
    BY <2>2, <2>3, <1>6 DEF Meet, FirstIsBehind, SecondIsBehind
  <2>5. PICK j \in 1 .. n : c.pos = f[1].pos + (j - 1)
    <3>1. /\ f[i].pos = f[1].pos + (i - 1) /\ window = n - i
          /\ i \in Nat /\ n \in Nat /\ 1 <= i /\ i <= n
      BY <1>0, <1>1
    <3>2. f[1].pos + (i - 1) <= c.pos /\ c.pos <= f[1].pos + (n - 1)
      BY <2>3, <2>4, <3>1
    <3>3. PICK p \in Nat : c.pos = f[1].pos + p
      <4>1. c.pos = f[1].pos + (c.pos - f[1].pos) /\ c.pos - f[1].pos \in Nat
        BY <2>3, <3>1, <3>2
      <4> QED
        BY <4>1
    <3>4. p + 1 \in 1 .. n /\ c.pos = f[1].pos + ((p + 1) - 1)
      BY <2>3, <3>1, <3>2, <3>3
    <3> QED
      BY <3>4
  <2>6. f[j].pos = c.pos /\ f[j] \in UNION ToSet(found) /\ f[j] \in Place
    BY <2>5, <1>1, <1>2, <1>3
  <2>7. ~ Less(c, f[j]) /\ ~ Less(f[j], c)
    <3>1. c.doc = f[1].doc /\ f[j].doc = f[1].doc
      BY <2>2, <1>1, <1>2
    <3>2. ~ (c.pos < f[j].pos) /\ ~ (f[j].pos < c.pos)
      BY <2>3, <2>6
    <3> QED
      BY <3>1, <3>2, <2>1, <2>6, <1>4
  <2>8. c = f[j]
    BY <2>1, <2>6, <2>7, LessIsTotalOrder
  <2>9. j = n
    BY <2>1, <2>8, <1>1, <1>2 DEF Disjoint
  <2> QED
    BY <2>8, <2>9
<1>7. \A c, e \in first \cup second :
          c.doc = f[i].doc /\ e.doc = f[i].doc /\ Less(c, e) => c.pos < e.pos
  <2>1. first \cup second \subseteq UNION ToSet(found)
    BY <1>1, <1>3
  <2> QED
    BY <2>1, <1>1, <1>2, <1>4
<1> QED
  BY <1>5, <1>6, <1>7 DEF OnlyPair

\* So the merge keeps both.
LEMMA WordsAreKept ==
    ASSUME Types, Walk, PairsAreKept, pc = "done", op = "phrase", Disjoint,
           NEW f \in [Terms -> Place], Stands(f),
           NEW n \in 2 .. Len(found), NEW i \in 1 .. n - 1, window = n - i,
           \A j \in 1 .. n : f[j].pos = f[1].pos + (j - 1),
           first \subseteq UNION ToSet(found), second \subseteq found[n],
           f[i] \in first, f[n] \in second
    PROVE  f[i] \in set1 /\ f[n] \in set2
<1>1. OnlyPair(f[i], f[n])
  BY WordsArePairs
<1>2. rest1 = {} /\ rest2 = {}
  BY DEF Walk, Ended
<1> QED
  BY <1>1, <1>2 DEF PairsAreKept

-----------------------------------------------------------------------------
(***************************************************************************)
(* What a step does to the lists of a phrase.                              *)
(***************************************************************************)
PhraseStarts == stage = "clauses" /\ lists' = found /\ at' = 2 /\ stage' = "reduce"

PhraseWaits ==
    /\ UNCHANGED <<lists, at, entries>>
    /\ \/ stage' = stage
       \/ stage = "reduce" /\ stage' = "merge"
       \/ stage = "found" /\ stage' = "shown"

PhraseFails ==
    stage = "merge" /\ pc = "done" /\ set2 = {} /\ entries' = {} /\ stage' = "found"

\* The list of the first term is merged too.
PhraseMergesAgain ==
    /\ stage = "merge" /\ pc = "done" /\ stage' = "mergeFirst"
    /\ at \in 3 .. Len(lists) /\ at' = at
    /\ Len(lists') = Len(lists)
    /\ \A j \in 1 .. Len(lists) : lists'[j] = IF j = at THEN set2
                                              ELSE IF j = at - 1 THEN set1 ELSE lists[j]

PhraseGoesOn ==
    /\ pc = "done" /\ stage' = "reduce"
    /\ (stage = "merge" /\ at = 2) \/ stage = "mergeFirst"
    /\ at \in 2 .. Len(lists) /\ at' = at + 1
    /\ Len(lists') = Len(lists)
    /\ \A j \in 1 .. Len(lists) : lists'[j] = IF j = at THEN set2
                                              ELSE IF j = 1 THEN set1 \cup set2 ELSE lists[j]

PhraseEnds ==
    /\ stage = "reduce" /\ at = Len(lists) + 1 /\ stage' = "found"
    /\ entries' = IF query.slop > 0 THEN All ELSE lists[1]

\* A search for a phrase takes no other steps.
LEMMA PhraseSteps ==
    ASSUME Types, Loop, Bounds, Walk, [SearchNext]_vars, query'.kind = "phrase"
    PROVE  /\ UNCHANGED <<query, found>> /\ query.kind = "phrase"
           /\ \/ PhraseStarts \/ PhraseWaits \/ PhraseFails \/ PhraseMergesAgain
              \/ PhraseGoesOn \/ PhraseEnds
<1>0. /\ UNCHANGED <<query, found>> /\ query.kind = "phrase"
      /\ Len(lists) \in Nat /\ at \in Nat /\ pl \in Nat
      /\ set1 \subseteq Place /\ set2 \subseteq Place
  <2>1. UNCHANGED <<query, found>>
    BY DEF vars, searchVars, SearchNext, AddClause, Parsed, ReduceTerms, SearchClause, NoClause,
           ReduceDocs, ReducePositions, FilterPositions, Filtered, MergeLists, MergeSteps,
           MergeIsEmpty, MergeFirstList, MergeReturns, Reduced, GetSearchResult
  <2> QED
    BY <2>1, LenProperties DEF Types, Walk, MergeTypeOK
<1>a. /\ stage # "parse" /\ stage # "filter"
      /\ Reducing => reducer = IF query.slop > 0 THEN "Near" ELSE "Phrase"
  BY <1>0 DEF Bounds, Loop, ReducerOf
<1>1. CASE MergeSteps \/ GetSearchResult \/ UNCHANGED vars
  BY <1>0, <1>1 DEF MergeSteps, GetSearchResult, vars, searchVars, PhraseWaits
<1>2. CASE ReduceTerms
  BY <1>0, <1>2 DEF ReduceTerms, Reduce, PhraseStarts
<1>3. CASE MergeLists
  BY <1>0, <1>3 DEF MergeLists, PhraseWaits
<1>4. CASE MergeIsEmpty
  BY <1>0, <1>4 DEF MergeIsEmpty, PhraseFails
<1>5. CASE MergeFirstList
  <2>1. /\ stage = "merge" /\ pc = "done" /\ stage' = "mergeFirst" /\ at' = at
        /\ lists' = Merged(lists, pl) /\ pl # 1
    BY <1>5 DEF MergeFirstList
  <2>2. /\ pl = at - 1 /\ at \in 3 .. Len(lists) /\ at \in 1 .. Len(lists) /\ pl \in 1 .. Len(lists)
    BY <2>1, <1>0 DEF Loop, Reducing
  <2>3. /\ Len(lists') = Len(lists)
        /\ \A j \in 1 .. Len(lists) : lists'[j] = IF j = at THEN set2
                                                  ELSE IF j = at - 1 THEN set1 ELSE lists[j]
    BY <2>1, <2>2, <1>0, MergedFacts DEF Types
  <2> QED
    BY <1>0, <2>1, <2>2, <2>3 DEF PhraseMergesAgain
<1>6. CASE MergeReturns
  <2>1. /\ pc = "done"
        /\ (stage = "merge" /\ pl = 1) \/ stage = "mergeFirst"
        /\ NextList(Collected(Merged(lists, 1)))
    BY <1>0, <1>a, <1>6 DEF MergeReturns, Reducing
  <2>2. /\ at \in 2 .. Len(lists) /\ at \in 1 .. Len(lists) /\ 1 \in 1 .. Len(lists)
        /\ stage = "merge" => at = 2
    BY <2>1, <1>0 DEF Loop, Reducing
  <2>3. /\ Merged(lists, 1) \in Seq(SUBSET Place) /\ Len(Merged(lists, 1)) = Len(lists)
        /\ \A j \in 1 .. Len(lists) : Merged(lists, 1)[j] = IF j = at THEN set2
                                                            ELSE IF j = 1 THEN set1 ELSE lists[j]
    BY <2>2, <1>0, MergedFacts DEF Types
  <2> DEFINE ls == Merged(lists, 1)
  <2>4. ls \in Seq(SUBSET Place) /\ Len(ls) = Len(lists) /\ at \in 1 .. Len(ls)
    BY <2>2, <2>3
  <2>5. /\ Len(Collected(ls)) = Len(ls)
        /\ \A j \in 1 .. Len(ls) : Collected(ls)[j] = IF j = 1 THEN ls[1] \cup ls[at] ELSE ls[j]
    BY <2>4, CollectedFacts
  <2>6. ls[1] = set1 /\ ls[at] = set2
    BY <2>2, <2>3
  <2>7. lists' = Collected(ls) /\ at' = at + 1 /\ stage' = "reduce"
    BY <2>1 DEF NextList
  <2>8. \A j \in 1 .. Len(lists) : lists'[j] = IF j = at THEN set2
                                               ELSE IF j = 1 THEN set1 \cup set2 ELSE lists[j]
    <3> HIDE DEF ls
    <3> TAKE j \in 1 .. Len(lists)
    <3>1. lists'[j] = IF j = 1 THEN set1 \cup set2 ELSE ls[j]
      BY <2>4, <2>5, <2>6, <2>7
    <3>2. ls[j] = IF j = at THEN set2 ELSE IF j = 1 THEN set1 ELSE lists[j]
      BY <2>3 DEF ls
    <3> QED
      BY <3>1, <3>2, <2>2
  <2> HIDE DEF ls
  <2> QED
    BY <1>0, <2>1, <2>2, <2>4, <2>5, <2>7, <2>8 DEF PhraseGoesOn
<1>7. CASE Reduced
  <2>1. /\ stage = "reduce" /\ at > Len(lists) /\ stage' = "found"
        /\ entries' = IF query.slop > 0 THEN All ELSE lists[1]
    BY <1>0, <1>a, <1>7 DEF Reduced, Reducing
  <2>2. at = Len(lists) + 1
    BY <2>1, <1>0 DEF Loop, Reducing
  <2> QED
    BY <1>0, <2>1, <2>2 DEF PhraseEnds
<1> QED
  BY <1>0, <1>a, <1>1, <1>2, <1>3, <1>4, <1>5, <1>6, <1>7
     DEF SearchNext, AddClause, Parsed, SearchClause, NoClause, ReduceDocs, ReducePositions,
         FilterPositions, Filtered

\* What the merge at work for a phrase merges.
LEMMA PhraseMerges ==
    ASSUME Types, Loop, Merging, query.kind = "phrase"
    PROVE  /\ Reducing => /\ at \in 2 .. Len(lists) + 1 /\ at - 1 \in 1 .. Len(lists)
                          /\ 1 \in 1 .. Len(lists) /\ Len(lists) \in Nat
           /\ stage \in {"merge", "mergeFirst"} => /\ at \in 2 .. Len(lists)
                                                   /\ op = IF query.slop > 0 THEN "near" ELSE "phrase"
                                                   /\ second = lists[at]
           /\ stage = "merge" => first = lists[at - 1]
           /\ stage = "mergeFirst" => first = lists[1]
           /\ query.slop = 0 /\ stage = "merge" => window = 1
           /\ query.slop = 0 /\ stage = "mergeFirst" => window = at - 1
           /\ set1 \subseteq first /\ set2 \subseteq second
<1>1. Len(lists) \in Nat /\ query.slop \in Nat
  BY LenProperties, QueryFacts DEF Types
<1>2. /\ set1 \subseteq first /\ set2 \subseteq second
  BY DEF Merging, Walk, MergeTypeOK
<1> QED
  BY <1>1, <1>2 DEF Loop, Reducing, MergeOf

\* The lists that were not merged yet are those of their terms, and the last
\* one that was is a part of its term's.
LEMMA StepPhraseLists ==
    ASSUME Types, Loop, Bounds, Merging, PhraseLists, [SearchNext]_vars
    PROVE  PhraseLists'
<1> SUFFICES ASSUME query'.kind = "phrase", Reducing'
             PROVE  PhraseLists'
  BY DEF PhraseLists
<1>0. /\ UNCHANGED <<query, found>> /\ query.kind = "phrase"
      /\ PhraseStarts \/ PhraseWaits \/ PhraseFails \/ PhraseMergesAgain \/ PhraseGoesOn \/ PhraseEnds
  BY PhraseSteps DEF Merging
<1>a. /\ Len(found) \in Nat \ {0}
      /\ \A i \in 1 .. Len(found) : found[i] \subseteq UNION ToSet(found)
  BY QueryFacts DEF ToSet
<1>b. Reducing =>
        /\ Len(lists) = Len(found)
        /\ \A i \in at .. Len(lists) : lists[i] \subseteq found[i]
        /\ \A i \in at .. Len(lists) : stage # "mergeFirst" \/ i # at => lists[i] = found[i]
        /\ lists[at - 1] \subseteq found[at - 1]
        /\ lists[1] \subseteq UNION ToSet(found)
  BY <1>0 DEF PhraseLists
<1>c. ToSet(found)' = ToSet(found)
  BY <1>0 DEF ToSet
<1>1. CASE PhraseStarts
  <2>1. at' - 1 = 1 /\ lists' = found /\ stage' = "reduce"
    BY <1>1 DEF PhraseStarts
  <2> QED
    BY <2>1, <1>0, <1>a, <1>c DEF PhraseLists
<1>2. CASE PhraseWaits
  <2>1. /\ UNCHANGED <<lists, at>> /\ Reducing
        /\ stage' = "mergeFirst" <=> stage = "mergeFirst"
    BY <1>2 DEF PhraseWaits, Reducing
  <2>2. lists' = lists /\ at' = at /\ found' = found /\ ToSet(found)' = ToSet(found)
    BY <2>1, <1>0, <1>c
  <2> QED
    BY <2>1, <2>2, <1>b DEF PhraseLists
<1>3. CASE PhraseMergesAgain
  <2>1. /\ stage = "merge" /\ stage' = "mergeFirst" /\ at' = at /\ at \in 3 .. Len(lists)
        /\ Len(lists') = Len(lists) /\ Len(lists) \in Nat
        /\ lists'[at] = set2 /\ lists'[at - 1] = set1 /\ lists'[1] = lists[1]
        /\ \A j \in at + 1 .. Len(lists) : lists'[j] = lists[j]
    <3>1. /\ at \in 3 .. Len(lists) /\ Len(lists) \in Nat
          /\ \A j \in 1 .. Len(lists) : lists'[j] = IF j = at THEN set2
                                                    ELSE IF j = at - 1 THEN set1 ELSE lists[j]
      BY <1>3, LenProperties DEF PhraseMergesAgain, Types
    <3>2. /\ at \in 1 .. Len(lists) /\ at - 1 \in 1 .. Len(lists) /\ 1 \in 1 .. Len(lists)
          /\ at - 1 # at /\ 1 # at /\ 1 # at - 1
      BY <3>1
    <3>3. \A j \in at + 1 .. Len(lists) : j \in 1 .. Len(lists) /\ j # at /\ j # at - 1
      BY <3>1
    <3> QED
      BY <3>1, <3>2, <3>3, <1>3 DEF PhraseMergesAgain
  <2>2. set1 \subseteq lists[at - 1] /\ set2 \subseteq lists[at]
    BY <2>1, <1>0, PhraseMerges
  <2>3. \A i \in at .. Len(lists) : lists'[i] \subseteq found[i] /\ (i # at => lists'[i] = found[i])
    <3> TAKE i \in at .. Len(lists)
    <3>1. i = at \/ i \in at + 1 .. Len(lists)
      BY <2>1
    <3> QED
      BY <3>1, <2>1, <2>2, <1>b DEF Reducing
  <2> QED
    BY <2>1, <2>2, <2>3, <1>0, <1>b, <1>c DEF PhraseLists, Reducing
<1>4. CASE PhraseGoesOn
  <2>1. /\ stage' = "reduce" /\ at' = at + 1 /\ at' - 1 = at /\ at \in 2 .. Len(lists)
        /\ Len(lists') = Len(lists) /\ Len(lists) \in Nat
        /\ lists'[at] = set2 /\ lists'[1] = set1 \cup set2
        /\ \A j \in at + 1 .. Len(lists) : lists'[j] = lists[j]
        /\ (stage = "merge" /\ at - 1 = 1) \/ stage = "mergeFirst"
    BY <1>0, <1>4, LenProperties DEF PhraseGoesOn, Types
  <2>2. set1 \subseteq lists[1] /\ set2 \subseteq lists[at]
    BY <2>1, <1>0, PhraseMerges
  <2>3. lists[at] \subseteq found[at] /\ Len(lists) = Len(found)
    BY <2>1, <1>b DEF Reducing
  <2>4. found[at] \subseteq UNION ToSet(found) /\ lists[1] \subseteq UNION ToSet(found)
    BY <2>1, <2>3, <1>a, <1>b DEF Reducing
  <2>5. \A i \in at' .. Len(lists') : lists'[i] = found[i]
    BY <2>1, <1>b DEF Reducing
  <2> QED
    BY <2>1, <2>2, <2>3, <2>4, <2>5, <1>0, <1>c DEF PhraseLists, Reducing
<1> QED
  BY <1>0, <1>1, <1>2, <1>3, <1>4 DEF PhraseFails, PhraseEnds, Reducing

\* The last list that was merged holds the ends of chains, and the lists before
\* it are in documents with a chain, of the terms so far.
LEMMA StepPhraseIsSound ==
    ASSUME Types, Loop, Bounds, Merging, PhraseLists, PhraseIsSound, [SearchNext]_vars
    PROVE  PhraseIsSound'
<1>1. CASE query'.kind # "phrase"
  BY <1>1 DEF PhraseIsSound, PhrasesAreSound
<1>2. CASE query'.kind = "phrase"
  <2>0. /\ UNCHANGED <<query, found>> /\ query.kind = "phrase"
        /\ PhraseStarts \/ PhraseWaits \/ PhraseFails \/ PhraseMergesAgain \/ PhraseGoesOn \/ PhraseEnds
    BY <1>2, PhraseSteps DEF Merging
  <2>a. /\ Len(found) \in Nat \ {0} /\ Terms = 1 .. Len(found)
        /\ \A i \in 1 .. Len(found) : found[i] \subseteq Place
        /\ Len(lists) \in Nat /\ at \in Nat
    BY QueryFacts, ElementOfSeq, LenProperties DEF Terms, Types
  <2>b. /\ stage \in {"reduce", "merge"} =>
              /\ \A e \in lists[at - 1] : Chained(at - 1, e)
              /\ \A i \in 1 .. at - 1 : i = 1 \/ Len(found) < 4 =>
                     \A e \in lists[i] : Covered(at - 1, e.doc)
        /\ stage = "mergeFirst" =>
              /\ \A e \in lists[at] : Chained(at, e)
              /\ \A i \in 2 .. at : Len(found) < 4 => \A e \in lists[i] : Covered(at, e.doc)
        /\ PhrasesAreSound
    BY <2>0 DEF PhraseIsSound
  <2>c. /\ \A k, e : Chained(k, e)' <=> Chained(k, e)
        /\ \A k, d : Covered(k, d)' <=> Covered(k, d)
    BY <2>0 DEF Chained, Covered, Adjoins
  <2>d. PhraseLists /\ Reducing => /\ Len(lists) = Len(found)
                                   /\ \A i \in at .. Len(lists) : lists[i] \subseteq found[i]
    BY <2>0 DEF PhraseLists
  <2>1. CASE PhraseStarts
    <3>1. stage' = "reduce" /\ lists' = found /\ at' - 1 = 1 /\ 1 .. at' - 1 = {1}
      BY <2>1 DEF PhraseStarts
    <3>2. ASSUME NEW e \in found[1]
          PROVE  Chained(1, e) /\ Covered(1, e.doc)
      <4>1. e \in Place /\ 1 .. 1 = {1} /\ 1 .. (1 - 1) = {}
        BY <2>a, <3>2
      <4> DEFINE f == [i \in 1 .. 1 |-> e]
      <4>2. f \in [1 .. 1 -> Place] /\ f[1] = e
        BY <4>1
      <4> HIDE DEF f
      <4>3. Chained(1, e)
        BY <4>1, <4>2, <3>2 DEF Chained
      <4> QED
        BY <4>1, <4>3 DEF Covered
    <3>3. PhrasesAreSound'
      BY <3>1 DEF PhrasesAreSound, Answered
    <3> QED
      BY <3>1, <3>2, <3>3, <2>0, <2>c DEF PhraseIsSound
  <2>2. CASE PhraseWaits
    <3>1. UNCHANGED <<lists, at, entries>>
      BY <2>2 DEF PhraseWaits
    <3>2. /\ stage' \in {"reduce", "merge"} => stage \in {"reduce", "merge"}
          /\ stage' = "mergeFirst" => stage = "mergeFirst"
          /\ Answered' => Answered
      BY <2>2 DEF PhraseWaits, Answered
    <3>3. PhrasesAreSound'
      BY <3>1, <3>2, <2>0, <2>b DEF PhrasesAreSound, Chain, Terms
    <3> QED
      BY <3>1, <3>2, <3>3, <2>0, <2>b, <2>c DEF PhraseIsSound
  <2>3. CASE PhraseFails
    <3>1. PhrasesAreSound'
      BY <2>3 DEF PhraseFails, PhrasesAreSound
    <3> QED
      BY <3>1, <2>3 DEF PhraseFails, PhraseIsSound
  <2>4. CASE PhraseMergesAgain
    <3>1. /\ stage = "merge" /\ pc = "done" /\ stage' = "mergeFirst" /\ at' = at
          /\ at \in 3 .. Len(lists) /\ lists'[at] = set2 /\ lists'[at - 1] = set1
          /\ \A j \in 1 .. Len(lists) : j # at /\ j # at - 1 => lists'[j] = lists[j]
      BY <2>a, <2>4 DEF PhraseMergesAgain
    <3>2. lists[at] \subseteq found[at] /\ Len(lists) = Len(found)
      BY <3>1, <2>a, <2>d DEF Reducing
    <3>3. /\ \A e \in set2 : Chained(at, e)
          /\ \A e \in set1 \cup set2 : Covered(at, e.doc)
      BY <3>1, <3>2, <2>0, <2>b, MergeChains
    <3>4. ASSUME NEW i \in 2 .. at, Len(found) < 4
          PROVE  \A e \in lists'[i] : Covered(at, e.doc)
      <4>1. i = at \/ i = at - 1
        BY <3>1, <3>2, <3>4, <2>a
      <4> QED
        BY <4>1, <3>1, <3>3
    <3>5. PhrasesAreSound'
      BY <3>1 DEF PhrasesAreSound, Answered
    <3> QED
      BY <3>1, <3>3, <3>4, <3>5, <2>0, <2>c DEF PhraseIsSound
  <2>5. CASE PhraseGoesOn
    <3>1. /\ pc = "done" /\ stage' = "reduce" /\ at' = at + 1 /\ at' - 1 = at
          /\ at \in 2 .. Len(lists) /\ lists'[at] = set2 /\ lists'[1] = set1 \cup set2
          /\ \A j \in 1 .. Len(lists) : j # at /\ j # 1 => lists'[j] = lists[j]
          /\ (stage = "merge" /\ at = 2) \/ stage = "mergeFirst"
      <4>1. at \in 2 .. Len(lists) /\ at \in 1 .. Len(lists) /\ 1 \in 1 .. Len(lists) /\ 1 # at
        BY <2>a, <2>5 DEF PhraseGoesOn
      <4> QED
        BY <4>1, <2>a, <2>5 DEF PhraseGoesOn
    <3>2. lists[at] \subseteq found[at] /\ Len(lists) = Len(found)
      BY <3>1, <2>a, <2>d DEF Reducing
    <3>3. /\ \A e \in set2 : Chained(at, e)
          /\ \A e \in set1 \cup set2 : Covered(at, e.doc)
      BY <3>1, <3>2, <2>0, <2>b, MergeChains, FirstMergeChains
    <3>4. ASSUME NEW i \in 1 .. at' - 1, i = 1 \/ Len(found) < 4
          PROVE  \A e \in lists'[i] : Covered(at, e.doc)
      <4>1. CASE i = 1 \/ i = at
        BY <4>1, <3>1, <3>3
      <4>2. CASE i # 1 /\ i # at
        <5>1. i \in 2 .. at /\ i \in 1 .. Len(lists) /\ stage = "mergeFirst"
          BY <4>2, <3>1, <3>4, <2>a
        <5> QED
          BY <5>1, <4>2, <3>1, <3>4, <2>b
      <4> QED
        BY <4>1, <4>2
    <3>5. PhrasesAreSound'
      BY <3>1 DEF PhrasesAreSound, Answered
    <3> QED
      BY <3>1, <3>3, <3>4, <3>5, <2>0, <2>c DEF PhraseIsSound
  <2>6. CASE PhraseEnds
    <3>1. /\ stage = "reduce" /\ at = Len(lists) + 1 /\ stage' = "found"
          /\ entries' = IF query.slop > 0 THEN All ELSE lists[1]
          /\ Len(lists) = Len(found)
      BY <2>6, <2>d DEF PhraseEnds, Reducing
    <3>2. ASSUME NEW e \in entries', query.slop > 0 => Len(found) < 4
          PROVE  Covered(Len(found), e.doc)
      <4>0. DOMAIN lists = 1 .. Len(found) /\ at - 1 = Len(found)
        BY <3>1, <2>a, LenProperties DEF Types
      <4>1. \E i \in 1 .. Len(found) : e \in lists[i] /\ (i = 1 \/ Len(found) < 4)
        BY <4>0, <3>1, <3>2, <2>a DEF All, ToSet
      <4> QED
        BY <4>0, <4>1, <3>1, <2>b
    <3>3. PhrasesAreSound'
      <4> SUFFICES ASSUME NEW e \in entries', query.slop > 0 => Len(found) < 4
                   PROVE  \E f \in [Terms -> {p \in Place : p.doc = e.doc}] :
                             /\ \A i \in Terms : f[i] \in found[i]
                             /\ \A i \in Terms : i + 1 \in Terms => Adjoins(f[i], f[i + 1])
        BY <2>0 DEF PhrasesAreSound, Chain, Adjoins, Terms
      <4>1. Covered(Len(found), e.doc)
        BY <3>2
      <4>2. PICK f \in [1 .. Len(found) -> Place] :
                /\ \A i \in 1 .. Len(found) : f[i] \in found[i] /\ f[i].doc = e.doc
                /\ \A i \in 1 .. Len(found) - 1 : Adjoins(f[i], f[i + 1])
        BY <4>1 DEF Covered, Chained
      <4>3. f \in [Terms -> {p \in Place : p.doc = e.doc}]
        BY <4>2, <2>a
      <4>4. \A i \in Terms : i + 1 \in Terms => i \in 1 .. Len(found) - 1
        BY <2>a
      <4> QED
        BY <4>2, <4>3, <4>4, <2>a
    <3> QED
      BY <3>1, <3>3 DEF PhraseIsSound
  <2> QED
    BY <2>0, <2>1, <2>2, <2>3, <2>4, <2>5, <2>6
<1> QED
  BY <1>1, <1>2

\* The words of a phrase that stands in a text are never passed over.
LEMMA StepPhraseIsFound ==
    ASSUME Types, Loop, Bounds, Merging, PairsAreKept, PhraseLists, PhraseIsFound, [SearchNext]_vars
    PROVE  PhraseIsFound'
<1> SUFFICES ASSUME query'.kind = "phrase", query'.slop = 0, Disjoint',
                    NEW f \in [Terms' -> Place], Stands(f)'
             PROVE  (/\ Reducing => \A j \in 1 .. at - 1 : f[j].pos = f[1].pos + (j - 1)
                     /\ stage \in {"reduce", "merge"} => f[1] \in lists[1] /\ f[at - 1] \in lists[at - 1]
                     /\ stage = "mergeFirst" => f[1] \in lists[1] /\ f[at] \in lists[at]
                     /\ Answered => \E e \in entries : e.doc = f[1].doc)'
  BY DEF PhraseIsFound
<1>0. /\ UNCHANGED <<query, found>> /\ query.kind = "phrase" /\ query.slop = 0
      /\ PhraseStarts \/ PhraseWaits \/ PhraseFails \/ PhraseMergesAgain \/ PhraseGoesOn \/ PhraseEnds
  BY PhraseSteps DEF Merging
<1>a. Disjoint /\ f \in [Terms -> Place] /\ Stands(f)
  BY <1>0 DEF Disjoint, Stands, Terms, ToSet
<1>b. /\ Len(found) \in Nat \ {0} /\ Terms = 1 .. Len(found)
      /\ \A i \in 1 .. Len(found) : found[i] \subseteq UNION ToSet(found)
      /\ Len(lists) \in Nat /\ at \in Nat
  BY QueryFacts, LenProperties DEF Terms, ToSet, Types
<1>c. /\ Reducing => \A j \in 1 .. at - 1 : f[j].pos = f[1].pos + (j - 1)
      /\ stage \in {"reduce", "merge"} => f[1] \in lists[1] /\ f[at - 1] \in lists[at - 1]
      /\ stage = "mergeFirst" => f[1] \in lists[1] /\ f[at] \in lists[at]
      /\ Answered => \E e \in entries : e.doc = f[1].doc
  BY <1>0, <1>a DEF PhraseIsFound
<1>d. Reducing =>
        /\ Len(lists) = Len(found)
        /\ \A i \in at .. Len(lists) : lists[i] \subseteq found[i]
        /\ \A i \in at .. Len(lists) : stage # "mergeFirst" \/ i # at => lists[i] = found[i]
        /\ lists[at - 1] \subseteq found[at - 1]
        /\ lists[1] \subseteq UNION ToSet(found)
  BY <1>0 DEF PhraseLists
<1>e. ASSUME stage \in {"merge", "mergeFirst"}
      PROVE  /\ at \in 2 .. Len(found) /\ 1 \in 1 .. at - 1 /\ at - 1 \in 1 .. at - 1
             /\ \A j \in 1 .. at : f[j].pos = f[1].pos + (j - 1)
  <2>1. at \in 2 .. Len(found)
    BY <1>0, <1>d, <1>e, PhraseMerges DEF Reducing
  <2>2. at - 1 \in Terms /\ (at - 1) + 1 = at /\ at \in Terms /\ 1 \in Terms
    BY <2>1, <1>b
  <2>3. f[at].pos = f[at - 1].pos + 1 /\ f[1].pos \in Nat
    BY <2>2, <1>a, PlaceAssumption DEF Stands
  <2>4. f[at - 1].pos = f[1].pos + ((at - 1) - 1)
    BY <2>1, <1>b, <1>c, <1>e DEF Reducing
  <2>5. f[at].pos = f[1].pos + (at - 1)
    BY <2>3, <2>4, <1>b
  <2>6. ASSUME NEW j \in 1 .. at
        PROVE  f[j].pos = f[1].pos + (j - 1)
    <3>1. j = at \/ j \in 1 .. at - 1
      BY <1>b
    <3> QED
      BY <3>1, <2>5, <1>c, <1>e DEF Reducing
  <2> QED
    BY <2>1, <2>6
<1>f. ASSUME stage = "merge", pc = "done"
      PROVE  f[at - 1] \in set1 /\ f[at] \in set2
  <2>1. /\ at \in 2 .. Len(found) /\ at - 1 \in 1 .. at - 1 /\ at \in at .. Len(lists)
        /\ at - 1 \in 1 .. Len(found) /\ at \in Terms
    BY <1>b, <1>d, <1>e, <1>f DEF Reducing
  <2>2. /\ op = "phrase" /\ window = 1 /\ window = at - (at - 1)
        /\ first = lists[at - 1] /\ second = lists[at]
    BY <1>0, <1>b, <1>f, PhraseMerges
  <2>3. first \subseteq UNION ToSet(found) /\ second = found[at]
    BY <2>1, <2>2, <1>b, <1>d, <1>f DEF Reducing
  <2>4. f[at - 1] \in first /\ f[at] \in second
    BY <2>1, <2>2, <2>3, <1>a, <1>c, <1>f DEF Stands
  <2> QED
    BY <2>1, <2>2, <2>3, <2>4, <1>a, <1>e, <1>f, WordsAreKept DEF Merging
<1>g. ASSUME stage = "mergeFirst", pc = "done"
      PROVE  f[1] \in set1 /\ f[at] \in set2
  <2>1. /\ at \in 2 .. Len(found) /\ 1 \in 1 .. at - 1 /\ at \in at .. Len(lists)
    BY <1>b, <1>d, <1>e, <1>g DEF Reducing
  <2>2. /\ op = "phrase" /\ window = at - 1
        /\ first = lists[1] /\ second = lists[at]
    BY <1>0, <1>b, <1>g, PhraseMerges
  <2>3. first \subseteq UNION ToSet(found) /\ second \subseteq found[at]
    BY <2>1, <2>2, <1>d, <1>g DEF Reducing
  <2>4. f[1] \in first /\ f[at] \in second
    BY <2>2, <1>c, <1>g
  <2> QED
    BY <2>1, <2>2, <2>3, <2>4, <1>a, <1>e, <1>g, WordsAreKept DEF Merging
<1>1. CASE PhraseStarts
  <2>1. stage' = "reduce" /\ lists' = found /\ at' - 1 = 1 /\ 1 \in Terms
    BY <1>1, <1>b DEF PhraseStarts
  <2>2. f[1].pos \in Nat /\ f[1] \in found[1]
    BY <2>1, <1>a, PlaceAssumption DEF Stands
  <2> QED
    BY <2>1, <2>2 DEF Reducing, Answered
<1>2. CASE PhraseWaits
  <2>1. lists' = lists /\ at' = at /\ entries' = entries
    BY <1>2 DEF PhraseWaits
  <2> QED
    BY <2>1, <1>2, <1>c DEF PhraseWaits, Reducing, Answered
<1>3. CASE PhraseFails
  BY <1>3, <1>f DEF PhraseFails
<1>4. CASE PhraseMergesAgain
  <2>1. /\ at \in 3 .. Len(lists) /\ stage = "merge" /\ pc = "done" /\ stage' = "mergeFirst" /\ at' = at
        /\ \A j \in 1 .. Len(lists) : lists'[j] = IF j = at THEN set2
                                                  ELSE IF j = at - 1 THEN set1 ELSE lists[j]
    BY <1>4 DEF PhraseMergesAgain
  <2>2. /\ at \in 1 .. Len(lists) /\ 1 \in 1 .. Len(lists) /\ 1 # at /\ 1 # at - 1
    BY <2>1, <1>b
  <2>3. lists'[at] = set2 /\ lists'[1] = lists[1]
    BY <2>1, <2>2
  <2> QED
    BY <2>1, <2>3, <1>c, <1>f DEF Reducing, Answered
<1>5. CASE PhraseGoesOn
  <2>1. /\ at \in 2 .. Len(lists) /\ pc = "done" /\ stage' = "reduce" /\ at' = at + 1
        /\ (stage = "merge" /\ at = 2) \/ stage = "mergeFirst"
        /\ \A j \in 1 .. Len(lists) : lists'[j] = IF j = at THEN set2
                                                  ELSE IF j = 1 THEN set1 \cup set2 ELSE lists[j]
    BY <1>5 DEF PhraseGoesOn
  <2>2. /\ at \in 1 .. Len(lists) /\ 1 \in 1 .. Len(lists) /\ 1 # at /\ at' - 1 = at
        /\ at = 2 => at - 1 = 1
    BY <2>1, <1>b
  <2>3. lists'[at] = set2 /\ lists'[1] = set1 \cup set2
    BY <2>1, <2>2
  <2>4. f[1] \in set1 /\ f[at] \in set2
    BY <2>1, <2>2, <1>f, <1>g
  <2> QED
    BY <2>1, <2>2, <2>3, <2>4, <1>e DEF Reducing, Answered
<1>6. CASE PhraseEnds
  <2>1. stage = "reduce" /\ stage' = "found" /\ entries' = lists[1]
    BY <1>0, <1>6 DEF PhraseEnds
  <2> QED
    BY <2>1, <1>c DEF Reducing, Answered
<1> QED
  BY <1>0, <1>1, <1>2, <1>3, <1>4, <1>5, <1>6

\* What the lists of a phrase are, before, between and after the merges.
PhraseKnows == PhraseLists /\ PhraseIsSound /\ PhraseIsFound

\* No list was merged when a search starts.
LEMMA InitPhrase == SearchInit => PhraseKnows
  BY DEF SearchInit, PhraseKnows, PhraseLists, PhraseIsSound, PhraseIsFound, PhrasesAreSound,
         Reducing, Answered

\* What the lists of a phrase hold between two merges, all the time.
LEMMA SearchPhrases == SearchSpec => [](Going /\ PhraseKnows)
<1> DEFINE M == Merging /\ PairsAreKept /\ Ahead
<1>1. SearchSpec => SearchInit /\ [][SearchNext]_vars
  BY PTL DEF SearchSpec, vars
<1>2. Going /\ M /\ PhraseKnows /\ [SearchNext]_vars => PhraseKnows'
  BY StepPhraseLists, StepPhraseIsSound, StepPhraseIsFound DEF Going, PhraseKnows
<1>3. SearchSpec => [](Going /\ M)
  BY SearchMerges, PTL
<1> HIDE DEF M
<1> QED
  BY <1>1, <1>2, <1>3, InitPhrase, PTL

\* A document that a phrase or a proximity search finds has a chain of places of
\* all its terms, for every number of terms, every slop and all their entries.
THEOREM PhrasesHaveTheirWords == SearchSpec => []PhrasesAreSound
<1>1. PhraseKnows => PhrasesAreSound
  BY DEF PhraseKnows, PhraseIsSound, PhrasesAreSound
<1> QED
  BY <1>1, SearchPhrases, PTL

\* A phrase of different words is found in every text it stands in, for every
\* number of words and all their places.
THEOREM StandingPhrasesAreFound == SearchSpec => []PhrasesAreFound
<1>1. Going /\ PhraseKnows => PhrasesAreFound
  <2> SUFFICES ASSUME Going, PhraseKnows, Answered, query.kind = "phrase", query.slop = 0, Disjoint,
                      NEW p \in UNION ToSet(found),
                      \A a, b \in UNION ToSet(found) :
                          a.doc = p.doc /\ b.doc = p.doc /\ Less(a, b) => a.pos < b.pos,
                      NEW f \in [Terms -> {q \in Place : q.doc = p.doc}],
                      \A i \in Terms : f[i] \in found[i],
                      \A i \in Terms : i + 1 \in Terms => f[i + 1].pos = f[i].pos + 1
               PROVE  \E e \in entries : e.doc = p.doc
    BY DEF PhrasesAreFound, Disjoint, Chain
  <2>1. 1 \in Terms
    BY QueryFacts DEF Going, Terms
  <2>2. f \in [Terms -> Place] /\ \A i \in Terms : f[i].doc = p.doc
    OBVIOUS
  <2>3. Stands(f)
    BY <2>1, <2>2 DEF Stands
  <2> QED
    BY <2>1, <2>2, <2>3 DEF PhraseKnows, PhraseIsFound
<1> QED
  BY <1>1, SearchPhrases, PTL

-----------------------------------------------------------------------------
(***************************************************************************)
(* Boolean queries: the clauses the parser makes of the words, and the     *)
(* entries on the pages of all clauses so far.                             *)
(***************************************************************************)
\* Nothing is read at first.
LEMMA InitParse == SearchInit => Parse
<1> SUFFICES ASSUME SearchInit, query.kind = "boolean" PROVE Parse
  BY DEF Parse
<1>1. /\ Types /\ clauses = <<>> /\ clause = 1 /\ stage = "parse" /\ entries = {}
  BY InitGoes DEF SearchInit, Going
<1>2. Terms \subseteq Nat \ {0} /\ Len(clauses) = 0
  BY <1>1, QueryFacts DEF Terms
<1>3. Read = {}
  <2>1. Kept \subseteq Nat \ {0}
    BY <1>2 DEF Kept
  <2>2. Read = {i \in Kept : i < 1}
    BY <1>1 DEF Read
  <2>3. \A i \in Nat \ {0} : ~ (i < 1)
    OBVIOUS
  <2> QED
    BY <2>1, <2>2, <2>3
<1>4. /\ 1 .. Len(clauses) = {} /\ 1 .. Len(clauses) - 1 = {} /\ ButLast(Read) = {}
      /\ Cardinality(Read) = 0
  BY <1>2, <1>3, FS_EmptySet DEF ButLast
<1> QED
  BY <1>1, <1>2, <1>3, <1>4 DEF Parse, ReadWords, RequiredClauses, ClauseLists, WordLists

\* The words are finitely many.
LEMMA KeptIsFinite ==
    ASSUME Types
    PROVE  /\ Kept \subseteq Terms /\ Terms = 1 .. Len(found) /\ IsFiniteSet(Kept)
           /\ Read \subseteq Kept /\ IsFiniteSet(Read)
<1>1. Terms = 1 .. Len(found) /\ Len(found) \in Nat
  BY QueryFacts DEF Terms
<1>2. IsFiniteSet(1 .. Len(found))
  <2>1. 1 \in Int /\ Len(found) \in Int
    BY <1>1
  <2> QED
    BY <2>1, FS_Interval
<1>3. Kept \subseteq Terms /\ Read \subseteq Kept
  BY DEF Kept, Read
<1> QED
  BY <1>1, <1>2, <1>3, FS_Subset

\* A word that the analyzer keeps becomes the last clause, and is required with
\* the one before it if AND joins them.
LEMMA ClauseIsAdded ==
    ASSUME Types, Bounds, Parse, AddClause, query.words[clause].kept
    PROVE  Parse'
<1> DEFINE w == query.words[clause]
           n == Len(clauses)
           C == [list : SUBSET Place, required : BOOLEAN, prohibited : BOOLEAN]
           joined == clause > 1 /\ w.conj = "and"
           before == [i \in 1 .. n |->
                         IF i = n /\ joined /\ ~ clauses[n].prohibited
                         THEN [clauses[n] EXCEPT !.required = TRUE] ELSE clauses[i]]
           new == [list |-> found[clause],
                   required |-> w.mods = "req" \/ (joined /\ w.mods # "not"),
                   prohibited |-> w.mods = "not"]
<1>0. /\ stage = "parse" /\ stage' = "parse" /\ query.kind = "boolean"
      /\ clause \in Nat \ {0} /\ clause \in 1 .. Len(found) /\ clause' = clause + 1
      /\ clauses' = Append(before, new)
      /\ UNCHANGED <<query, found, entries>>
      /\ entries = {}
  <2>1. /\ stage = "parse" /\ clause <= Len(query.words) /\ clause' = clause + 1
        /\ UNCHANGED <<query, found, entries, stage>>
    BY DEF AddClause
  <2>2. clause \in Nat \ {0} /\ query.kind = "boolean" /\ Len(found) = Len(query.words)
    BY <2>1, QueryFacts DEF Types, Bounds
  <2>3. clauses' = Append(before, new)
    BY DEF AddClause
  <2> HIDE DEF before, new
  <2> QED
    BY <2>1, <2>2, <2>3, QueryFacts DEF Parse
<1>1. /\ n \in Nat /\ \A k \in 1 .. n : clauses[k] \in C
  BY LenProperties, ElementOfSeq DEF Types
<1>2. w \in Word /\ found[clause] \in SUBSET Place
  BY <1>0, QueryFacts, ElementOfSeq
<1>3. new \in C
  BY <1>2
<1>4. \A k \in 1 .. n : /\ before[k] \in C /\ before[k].list = clauses[k].list
                        /\ before[k].prohibited = clauses[k].prohibited
                        /\ clauses[k].required => before[k].required
                        /\ k = n /\ joined /\ ~ clauses[k].prohibited => before[k].required
  BY <1>1
<1>5. before \in [1 .. n -> C]
  BY <1>4
<1>a. new.list = found[clause] /\ (w.mods # "not" => ~ new.prohibited)
      /\ (w.mods # "not" /\ joined => new.required)
  OBVIOUS
<1> HIDE DEF w, C, before, new, joined
<1>6. before \in Seq(C) /\ Len(before) = n
  BY <1>1, <1>5, FunctionIsSeq
<1>7. /\ Len(clauses') = n + 1
      /\ \A k \in 1 .. n : clauses'[k] = before[k]
      /\ clauses'[n + 1] = new
  BY <1>0, <1>3, <1>6, AppendProperties
<1>8. /\ Read = {i \in Kept : i < clause} /\ Read' = Read \cup {clause} /\ clause \notin Read
      /\ ButLast(Read') = Read
  <2>1. Kept' = Kept /\ clause \in Kept /\ Kept \subseteq Nat
    BY <1>0, KeptIsFinite DEF Kept, Terms
  <2>2. Read = {i \in Kept : i < clause} /\ Read' = {i \in Kept : i < clause + 1}
    BY <1>0, <2>1 DEF Read
  <2>a. \A i \in Kept : i < clause + 1 <=> i < clause \/ i = clause
    BY <1>0, <2>1
  <2>3. Read' = Read \cup {clause} /\ clause \notin Read
    <3>1. ~ (clause < clause)
      BY <1>0
    <3> QED
      BY <3>1, <2>1, <2>2, <2>a
  <2>4. \A i, j \in Read' : i < j => i \in Read
    BY <1>0, <2>1, <2>2
  <2>5. \A i \in Read : i < clause
    BY <2>2
  <2> QED
    BY <2>2, <2>3, <2>4, <2>5 DEF ButLast
<1>9. Len(clauses') = Cardinality(Read')
  <2>1. Cardinality(Read \cup {clause}) = Cardinality(Read) + 1
    BY <1>8, KeptIsFinite, FS_AddElement
  <2>2. n = Cardinality(Read)
    BY <1>0 DEF Parse, ReadWords
  <2> QED
    BY <1>7, <1>8, <2>1, <2>2
<1>10. /\ 1 .. Len(clauses') = (1 .. n) \cup {n + 1} /\ 1 .. Len(clauses') - 1 = 1 .. n
  BY <1>1, <1>7
<1>11. /\ {clauses'[k].list : k \in 1 .. n} = WordLists(Read)
       /\ \A ws : WordLists(ws)' = WordLists(ws)
  <2>1. {clauses'[k].list : k \in 1 .. n} = {clauses[k].list : k \in 1 .. n}
    BY <1>4, <1>7
  <2> QED
    BY <2>1, <1>0 DEF Parse, ReadWords, RequiredClauses, ClauseLists, WordLists
<1>12. ClauseLists(Len(clauses))' = WordLists(Read)'
  <2>1. ClauseLists(Len(clauses))' = {clauses'[k].list : k \in (1 .. n) \cup {n + 1}}
    BY <1>10 DEF ClauseLists
  <2>2. @ = {clauses'[k].list : k \in 1 .. n} \cup {clauses'[n + 1].list}
    OBVIOUS
  <2>3. WordLists(Read)' = WordLists(Read) \cup {found[clause]}
    BY <1>0, <1>8 DEF WordLists
  <2> QED
    BY <2>1, <2>2, <2>3, <1>7, <1>11, <1>a
<1>13. ClauseLists(Len(clauses) - 1)' = WordLists(ButLast(Read))'
  <2>1. ClauseLists(Len(clauses) - 1)' = {clauses'[k].list : k \in 1 .. n}
    BY <1>10 DEF ClauseLists
  <2>2. WordLists(ButLast(Read))' = WordLists(Read)
    BY <1>0, <1>8 DEF WordLists, ButLast
  <2> QED
    BY <2>1, <2>2, <1>11
<1>14. ASSUME AllRequired, NEW k \in 1 .. Len(clauses')
       PROVE  /\ ~ clauses'[k].prohibited
              /\ Len(clauses') > 1 => clauses'[k].required
  <2>1. w.mods # "not" /\ (clause > 1 => joined)
    <3>1. clause \in Kept
      BY <1>0, KeptIsFinite DEF Kept, w
    <3> QED
      BY <3>1, <1>14 DEF AllRequired, joined, w
  <2>2. n > 0 => joined
    <3>1. n > 0 => clause > 1
      BY <1>0, <1>1 DEF Bounds
    <3> QED
      BY <3>1, <2>1
  <2>3. \A i \in 1 .. n : ~ clauses[i].prohibited /\ (n > 1 => clauses[i].required)
    <3>1. RequiredClauses
      BY <1>0 DEF Parse
    <3> QED
      BY <3>1, <1>14 DEF RequiredClauses
  <2>4. CASE k = n + 1
    BY <2>1, <2>2, <2>4, <1>1, <1>7, <1>a
  <2>5. CASE k \in 1 .. n
    <3>1. n > 1 \/ k = n
      BY <2>5, <1>1
    <3>2. before[k].required
      BY <3>1, <2>2, <2>3, <2>5, <1>1, <1>4
    <3> QED
      BY <3>2, <2>3, <2>5, <1>4, <1>7
  <2> QED
    BY <2>4, <2>5, <1>10
<1>15. AllRequired' <=> AllRequired
  BY <1>0 DEF AllRequired, Kept, Terms
<1>16. ReadWords'
  BY <1>9, <1>12, <1>13 DEF ReadWords
<1>17. RequiredClauses'
  BY <1>14, <1>15 DEF RequiredClauses
<1> QED
  BY <1>0, <1>16, <1>17 DEF Parse

\* The clauses are those of the words that were read.
LEMMA StepParse ==
    ASSUME Types, Loop, Bounds, Parse, [SearchNext]_vars
    PROVE  Parse'
<1> SUFFICES ASSUME query'.kind = "boolean" PROVE Parse'
  BY DEF Parse
<1>0. UNCHANGED <<query, found>> /\ query.kind = "boolean"
  BY DEF vars, searchVars, SearchNext, AddClause, Parsed, ReduceTerms, SearchClause, NoClause,
         ReduceDocs, ReducePositions, FilterPositions, Filtered, MergeLists, MergeSteps,
         MergeIsEmpty, MergeFirstList, MergeReturns, Reduced, GetSearchResult
<1>a. ASSUME UNCHANGED clauses, Read' = Read, entries' = entries \/ stage' # "parse",
             stage' = "parse" => stage = "parse"
      PROVE  Parse'
  <2>1. /\ ClauseLists(Len(clauses))' = ClauseLists(Len(clauses))
        /\ ClauseLists(Len(clauses) - 1)' = ClauseLists(Len(clauses) - 1)
    BY <1>a DEF ClauseLists
  <2>2. /\ WordLists(Read)' = WordLists(Read)
        /\ WordLists(ButLast(Read))' = WordLists(ButLast(Read))
    BY <1>0, <1>a DEF WordLists, ButLast
  <2>3. AllRequired' <=> AllRequired
    BY <1>0 DEF AllRequired, Kept, Terms
  <2>4. /\ Len(clauses)' = Len(clauses) /\ Cardinality(Read)' = Cardinality(Read)
        /\ (stage = "parse" => entries = {})'
    BY <1>0, <1>a DEF Parse
  <2>5. RequiredClauses'
    <3> SUFFICES ASSUME AllRequired', NEW k \in 1 .. Len(clauses')
                 PROVE  ~ clauses'[k].prohibited /\ (Len(clauses') > 1 => clauses'[k].required)
      BY DEF RequiredClauses
    <3>1. AllRequired /\ clauses' = clauses
      BY <2>3, <1>a
    <3>2. RequiredClauses
      BY <1>0 DEF Parse
    <3> QED
      BY <3>1, <3>2 DEF RequiredClauses
  <2>6. ReadWords'
    BY <1>0, <2>1, <2>2, <2>4 DEF Parse, ReadWords
  <2> QED
    BY <2>4, <2>5, <2>6 DEF Parse
<1>1. CASE AddClause /\ query.words[clause].kept
  BY <1>1, ClauseIsAdded
<1>2. CASE AddClause /\ ~ query.words[clause].kept
  <2>1. /\ UNCHANGED <<clauses, stage, entries>> /\ clause' = clause + 1 /\ clause \in Nat
        /\ stage = "parse"
    BY <1>2, QueryFacts DEF AddClause, Types
  <2>2. Kept' = Kept /\ clause \notin Kept /\ Kept \subseteq Nat
    BY <1>0, <1>2, KeptIsFinite DEF Kept, Terms
  <2>a. \A i \in Kept : i < clause + 1 <=> i < clause
    BY <2>1, <2>2
  <2>3. Read' = Read
    BY <2>1, <2>2, <2>a DEF Read
  <2> QED
    BY <1>a, <2>1, <2>3
<1>3. CASE Parsed
  <2>1. /\ UNCHANGED <<clauses, entries>> /\ stage = "parse" /\ stage' = "clauses"
        /\ clause > Len(query.words)
    BY <1>3 DEF Parsed
  <2>2. /\ Kept' = Kept /\ \A i \in Kept : i < clause
    <3>1. /\ Kept \subseteq 1 .. Len(found) /\ Len(found) = Len(query.words) /\ Len(found) \in Nat
          /\ clause \in Nat
      BY KeptIsFinite, QueryFacts DEF Types
    <3> QED
      BY <3>1, <2>1, <1>0 DEF Kept, Terms
  <2>3. Read' = Read
    BY <2>1, <2>2 DEF Read
  <2> QED
    BY <1>a, <2>1, <2>3
<1>4. CASE /\ UNCHANGED clauses /\ stage # "parse" /\ stage' # "parse"
  <2>1. Read' = Read
    BY <1>0, <1>4 DEF Read, Kept, Terms
  <2> QED
    BY <1>a, <1>4, <2>1
<1>5. CASE UNCHANGED <<clauses, stage, clause, entries>>
  <2>1. Read' = Read
    BY <1>0, <1>5 DEF Read, Kept, Terms
  <2> QED
    BY <1>a, <1>5, <2>1
<1> QED
  BY <1>0, <1>1, <1>2, <1>3, <1>4, <1>5
     DEF vars, searchVars, SearchNext, ReduceTerms, SearchClause, NoClause, Reduce,
         ReduceDocs, ReducePositions, FilterPositions, Filtered, MergeLists, MergeSteps,
         MergeIsEmpty, MergeFirstList, MergeReturns, NextList, Reduced, GetSearchResult

\* The page merge keeps what stands on a page of the other list, on both sides.
LEMMA PageMergeKeeps ==
    ASSUME Merging, pc = "done", op = "page"
    PROVE  /\ set1 = {x \in first : \E y \in second : SamePage(x, y)}
           /\ set2 = {y \in second : \E x \in first : SamePage(x, y)}
<1>1. /\ first \subseteq Place /\ second \subseteq Place /\ set1 \subseteq first /\ set2 \subseteq second
      /\ rest1 = {} /\ rest2 = {} /\ window \in Window
  BY DEF Merging, Walk, MergeTypeOK, Ended
<1>2. /\ \A x \in first : x \in set1 <=> \E y \in second : Meet(op, window, x, y)
      /\ \A y \in second : y \in set2 <=> \E x \in first : Meet(op, window, x, y)
  BY <1>1 DEF Merging, Exactly, Exact, FirstIsExact, SecondIsExact
<1>3. \A x, y \in Place : Meet(op, window, x, y) <=> SamePage(x, y)
  <2> TAKE x, y \in Place
  <2>1. x = y \/ Less(x, y) \/ Less(y, x)
    BY LessIsTotalOrder
  <2>2. x = y => SamePage(x, y)
    BY DEF SamePage
  <2> QED
    BY <2>1, <2>2 DEF Meet, FirstIsBehind, SecondIsBehind
<1> QED
  BY <1>1, <1>2, <1>3

\* A clause is a list of places and two flags.
LEMMA ClauseFacts ==
    ASSUME Types
    PROVE  /\ Len(clauses) \in Nat
           /\ \A k \in 1 .. Len(clauses) : clauses[k].list \in SUBSET Place
<1> DEFINE C == [list : SUBSET Place, required : BOOLEAN, prohibited : BOOLEAN]
<1>1. clauses \in Seq(C)
  BY DEF Types
<1>2. \A c \in C : c.list \in SUBSET Place
  OBVIOUS
<1> HIDE DEF C
<1>3. Len(clauses) \in Nat /\ \A k \in 1 .. Len(clauses) : clauses[k] \in C
  BY <1>1, LenProperties, ElementOfSeq
<1> QED
  BY <1>2, <1>3

\* A list is its own entries on its own pages.
LEMMA OneClause ==
    ASSUME Types, 1 \in 1 .. Len(clauses)
    PROVE  OnAll(1) = clauses[1].list
<1>1. clauses[1].list \in SUBSET Place
  BY ClauseFacts
<1>2. 1 .. 1 = {1}
  OBVIOUS
<1> QED
  BY <1>1, <1>2 DEF OnAll, SamePage

\* The merge with the next clause leaves the entries on the pages of one more.
LEMMA PagesOfNextClause ==
    ASSUME Types, NEW n \in 2 .. Len(clauses), Merging, pc = "done", op = "page",
           first = OnAll(n - 1), second = clauses[n].list
    PROVE  set1 \cup set2 = OnAll(n)
<1>0. /\ n \in Nat /\ n - 1 \in Nat /\ 1 .. n = (1 .. n - 1) \cup {n} /\ 1 \in 1 .. n - 1
      /\ \A i \in 1 .. n : clauses[i].list \subseteq Place
  <2>1. Len(clauses) \in Nat
    BY ClauseFacts
  <2>2. 1 .. n \subseteq 1 .. Len(clauses)
    BY <2>1
  <2> QED
    BY <2>1, <2>2, ClauseFacts
<1>1. \A a, b, c : SamePage(a, b) => SamePage(b, a) /\ (SamePage(b, c) => SamePage(a, c))
  BY DEF SamePage
<1>2. \A a : SamePage(a, a)
  BY DEF SamePage
<1>3. /\ set1 = {x \in OnAll(n - 1) : \E y \in clauses[n].list : SamePage(x, y)}
      /\ set2 = {y \in clauses[n].list : \E x \in OnAll(n - 1) : SamePage(x, y)}
  BY PageMergeKeeps
<1>4. ASSUME NEW x \in set1
      PROVE  x \in OnAll(n)
  BY <1>0, <1>3, <1>4 DEF OnAll
<1>5. ASSUME NEW y \in set2
      PROVE  y \in OnAll(n)
  <2>1. PICK x \in OnAll(n - 1) : SamePage(x, y)
    BY <1>3, <1>5
  <2>2. y \in clauses[n].list /\ y \in Place
    BY <1>0, <1>3, <1>5
  <2>3. \A i \in 1 .. n - 1 : \E f \in clauses[i].list : SamePage(y, f)
    BY <2>1, <1>1 DEF OnAll
  <2>4. \E f \in clauses[n].list : SamePage(y, f)
    BY <2>2, <1>2
  <2> QED
    BY <2>2, <2>3, <2>4, <1>0 DEF OnAll
<1>6. ASSUME NEW e \in OnAll(n)
      PROVE  e \in set1 \cup set2
  <2>1. /\ e \in Place
        /\ \A i \in 1 .. n : \E f \in clauses[i].list : SamePage(e, f)
    BY <1>6 DEF OnAll
  <2>2. CASE \E i \in 1 .. n - 1 : e \in clauses[i].list
    BY <2>1, <2>2, <1>0, <1>3 DEF OnAll
  <2>3. CASE e \in clauses[n].list
    <3>1. PICK f \in clauses[1].list : SamePage(e, f)
      BY <2>1, <1>0
    <3>2. f \in OnAll(n - 1)
      <4>1. \A i \in 1 .. n - 1 : \E g \in clauses[i].list : SamePage(f, g)
        BY <2>1, <3>1, <1>0, <1>1
      <4> QED
        BY <3>1, <4>1, <1>0 DEF OnAll
    <3> QED
      BY <2>3, <3>1, <3>2, <1>1, <1>3
  <2> QED
    BY <2>2, <2>3, <1>0, <1>6 DEF OnAll
<1> QED
  BY <1>4, <1>5, <1>6

\* Pages that fewer clauses do not have, more clauses do not have.
LEMMA FewerPages ==
    ASSUME Types, NEW m \in 1 .. Len(clauses), NEW n \in m .. Len(clauses), OnAll(m) = {}
    PROVE  OnAll(n) = {}
<1>0. /\ 1 .. m \subseteq 1 .. n /\ 1 \in 1 .. m
      /\ clauses[1].list \subseteq Place
  <2>1. Len(clauses) \in Nat /\ 1 \in 1 .. Len(clauses)
    BY ClauseFacts
  <2> QED
    BY <2>1, ClauseFacts
<1> SUFFICES ASSUME NEW e \in OnAll(n) PROVE FALSE
  OBVIOUS
<1>1. \A i \in 1 .. n : \E f \in clauses[i].list : SamePage(e, f)
  BY DEF OnAll
<1>2. PICK f \in clauses[1].list : SamePage(e, f)
  BY <1>0, <1>1
<1>3. \A i \in 1 .. m : \E g \in clauses[i].list : SamePage(f, g)
  BY <1>0, <1>1, <1>2 DEF SamePage
<1> QED
  BY <1>0, <1>2, <1>3 DEF OnAll

\* No list is left before the first clause.
LEMMA InitBoolean == SearchInit => BooleanLists
  BY DEF SearchInit, BooleanLists, Reducing, Answered

\* Between two merges the only list, and the result, holds the entries on the
\* pages of the clauses so far.
LEMMA StepBoolean ==
    ASSUME Types, Loop, Bounds, Merging, Parse, BooleanLists, [SearchNext]_vars
    PROVE  BooleanLists'
<1> DEFINE n == Len(clauses)
<1> SUFFICES ASSUME query'.kind = "boolean", AllRequired', stage' # "parse",
                    Len(clauses') > 2 => OnAll(Len(clauses) - 1)' # {}
             PROVE  BooleanLists'
  BY DEF BooleanLists, Reducing, Answered
<1>0. UNCHANGED <<query, found>> /\ query.kind = "boolean"
  BY DEF vars, searchVars, SearchNext, AddClause, Parsed, ReduceTerms, SearchClause, NoClause,
         ReduceDocs, ReducePositions, FilterPositions, Filtered, MergeLists, MergeSteps,
         MergeIsEmpty, MergeFirstList, MergeReturns, Reduced, GetSearchResult
<1>a. UNCHANGED clauses /\ AllRequired
  <2>1. UNCHANGED clauses
    BY DEF vars, searchVars, SearchNext, AddClause, Parsed, ReduceTerms, SearchClause, NoClause,
           ReduceDocs, ReducePositions, FilterPositions, Filtered, MergeLists, MergeSteps,
           MergeIsEmpty, MergeFirstList, MergeReturns, Reduced, GetSearchResult
  <2> QED
    BY <2>1, <1>0 DEF AllRequired, Kept, Terms
<1>b. (\A k : OnAll(k)' = OnAll(k)) /\ (n > 2 => OnAll(n - 1) # {})
  <2>1. \A k : OnAll(k)' = OnAll(k)
    BY <1>a DEF OnAll
  <2>2. OnAll(Len(clauses) - 1)' = OnAll(Len(clauses) - 1)
    BY <1>a DEF OnAll
  <2> QED
    BY <2>1, <2>2, <1>a
<1>c. /\ n \in Nat /\ clause \in Nat \ {0} /\ Len(lists) \in Nat /\ at \in Nat
      /\ \A k \in 1 .. n : /\ clauses[k].list \in SUBSET Place
                           /\ ~ clauses[k].prohibited
                           /\ n > 1 => clauses[k].required
  <2>1. /\ n \in Nat /\ clause \in Nat \ {0} /\ Len(lists) \in Nat /\ at \in Nat
    BY LenProperties, QueryFacts DEF Types
  <2>2. RequiredClauses
    BY <1>0 DEF Parse
  <2> QED
    BY <2>1, <2>2, <1>a, ClauseFacts DEF RequiredClauses
<1>d. /\ stage = "clauses" /\ clause = 1 => lists = <<>> /\ entries = {}
      /\ stage = "clauses" /\ clause > 1 =>
              /\ entries = OnAll(clause - 1)
              /\ lists = <<OnAll(clause - 1)>> \/ (lists = <<>> /\ clause > n)
      /\ Reducing /\ at = 2 => lists[1] = OnAll(clause - 2) /\ lists[2] = clauses[clause - 1].list
      /\ Reducing /\ at = 3 => lists[1] = OnAll(clause - 1) /\ lists[2] \subseteq lists[1]
      /\ Answered => entries = OnAll(n)
  BY <1>0, <1>a, <1>b DEF BooleanLists
<1>e. /\ stage # "mergeFirst" /\ stage # "filter"
      /\ Reducing => /\ reducer = "AndPage" /\ Len(lists) = 2 /\ clause > 2 /\ clause <= n + 1
                     /\ at \in {2, 3} /\ pl = at - 1
      /\ stage = "merge" => /\ op = "page" /\ at = 2
                            /\ first = lists[1] /\ second = lists[2]
  <2>1. /\ stage # "mergeFirst" /\ stage # "filter"
        /\ Reducing => /\ reducer = "AndPage" /\ Len(lists) = 2 /\ clause > 2
                       /\ at \in 2 .. 3 /\ pl = at - 1
    <3>1. /\ stage # "mergeFirst" /\ stage # "filter"
          /\ Reducing => /\ reducer = "AndPage"
                         /\ at \in 2 .. Len(lists) + 1 /\ pl = at - 1
      BY <1>0 DEF Loop, ReducerOf
    <3>2. Reducing => Len(lists) = 2 /\ clause > 2
      BY <1>0 DEF Bounds
    <3>3. ASSUME Reducing PROVE at \in 2 .. 3
      <4>1. at \in 2 .. Len(lists) + 1 /\ Len(lists) = 2
        BY <3>1, <3>2, <3>3
      <4> QED
        BY <4>1
    <3> QED
      BY <3>1, <3>2, <3>3
  <2>2. Reducing => clause <= n + 1
    BY <1>0 DEF Bounds, Reducing
  <2>3. stage = "merge" => op = "page" /\ at <= 2 /\ first = lists[pl] /\ second = lists[at]
    BY <1>0, <2>1 DEF Loop, MergeOf, Reducing
  <2>4. Reducing => at \in {2, 3}
    BY <2>1
  <2>5. stage = "merge" => at = 2
    BY <2>3, <2>4 DEF Reducing
  <2> QED
    BY <2>1, <2>2, <2>3, <2>4, <2>5 DEF Reducing
<1>f. stage = "merge" /\ pc = "done" => set1 \cup set2 = OnAll(clause - 1)
  <2> SUFFICES ASSUME stage = "merge", pc = "done"
               PROVE  set1 \cup set2 = OnAll(clause - 1)
    OBVIOUS
  <2>1. clause - 1 \in 2 .. n /\ (clause - 1) - 1 = clause - 2
    BY <1>c, <1>e DEF Reducing
  <2>2. op = "page" /\ first = OnAll((clause - 1) - 1) /\ second = clauses[clause - 1].list
    BY <2>1, <1>d, <1>e DEF Reducing
  <2> QED
    BY <2>1, <2>2, PagesOfNextClause
<1> HIDE DEF n
<1>g. n = Len(clauses) /\ Len(clauses)' = n
  BY <1>a DEF n
<1>1. CASE Parsed
  <2>1. stage' = "clauses" /\ clause' = 1 /\ lists' = <<>> /\ entries' = {}
    BY <1>0, <1>1 DEF Parsed, Bounds, Parse
  <2> QED
    BY <2>1 DEF BooleanLists, Reducing, Answered
<1>2. CASE SearchClause
  <2>1. /\ stage = "clauses" /\ clause <= n /\ clause' = clause + 1 /\ clause \in 1 .. n
    BY <1>2, <1>c, <1>g DEF SearchClause
  <2>2. CASE clause = 1
    <3>1. lists = <<>>
      BY <2>1, <2>2, <1>d
    <3>2. /\ Append(lists, clauses[clause].list) = <<clauses[1].list>>
          /\ Len(<<clauses[1].list>>) = 1 /\ <<clauses[1].list>>[1] = clauses[1].list
      BY <2>2, <3>1
    <3>3. /\ lists' = <<clauses[1].list>> /\ entries' = clauses[1].list /\ UNCHANGED stage
      BY <3>2, <1>2 DEF SearchClause
    <3>4. clauses[1].list = OnAll(1) /\ clause' - 1 = 1 /\ clause' # 1
      BY <2>1, <2>2, <1>g, OneClause
    <3> QED
      BY <2>1, <3>3, <3>4, <1>b DEF BooleanLists, Reducing, Answered
  <2>3. CASE clause > 1
    <3>1. lists = <<OnAll(clause - 1)>> /\ clauses[clause].required
      BY <2>1, <2>3, <1>c, <1>d
    <3>2. LET next == Append(lists, clauses[clause].list)
          IN  Len(next) = 2 /\ next[1] = OnAll(clause - 1) /\ next[2] = clauses[clause].list
      <4>1. lists \in Seq(SUBSET Place) /\ clauses[clause].list \in SUBSET Place
        BY <2>1, <1>c DEF Types
      <4>2. Len(lists) = 1 /\ lists[1] = OnAll(clause - 1) /\ 1 \in 1 .. Len(lists)
        BY <3>1
      <4>3. /\ Len(Append(lists, clauses[clause].list)) = Len(lists) + 1
            /\ Append(lists, clauses[clause].list)[1] = lists[1]
            /\ Append(lists, clauses[clause].list)[Len(lists) + 1] = clauses[clause].list
        <5> DEFINE S == SUBSET Place
                   c == clauses[clause].list
        <5>1. lists \in Seq(S) /\ c \in S
          BY <4>1
        <5> HIDE DEF S, c
        <5>2. /\ Len(Append(lists, c)) = Len(lists) + 1
              /\ \A i \in 1 .. Len(lists) : Append(lists, c)[i] = lists[i]
              /\ Append(lists, c)[Len(lists) + 1] = c
          BY <5>1, AppendProperties
        <5> QED
          BY <4>2, <5>2 DEF c
      <4> QED
        BY <4>2, <4>3
    <3>3. /\ lists' = Append(lists, clauses[clause].list)
          /\ Reduce("AndPage")
      BY <3>1, <3>2, <1>2 DEF SearchClause
    <3>4. at' = 2 /\ stage' = "reduce"
      BY <3>3 DEF Reduce
    <3>5. clause' - 2 = clause - 1 /\ clause' - 1 = clause
      BY <2>1, <1>c
    <3>6. /\ lists'[1] = OnAll(clause - 1) /\ lists'[2] = clauses[clause].list
      BY <3>2, <3>3
    <3> QED
      BY <3>4, <3>5, <3>6, <1>a, <1>b DEF BooleanLists, Reducing, Answered
  <2> QED
    BY <2>1, <2>2, <2>3
<1>3. CASE NoClause
  <2>1. /\ stage = "clauses" /\ clause > n /\ stage' = "found" /\ entries' = entries
    BY <1>3, <1>g DEF NoClause
  <2>2. clause = n + 1
    BY <2>1, <1>0, <1>c, <1>g DEF Bounds
  <2>3. entries = OnAll(n)
    <3>1. CASE n = 0
      <4>1. clause = 1 /\ 1 .. n = {}
        BY <2>2, <3>1
      <4> QED
        BY <2>1, <4>1, <1>d DEF OnAll
    <3>2. CASE n # 0
      <4>1. clause > 1 /\ clause - 1 = n
        BY <2>2, <3>2, <1>c
      <4> QED
        BY <2>1, <4>1, <1>d
    <3> QED
      BY <3>1, <3>2
  <2>4. OnAll(Len(clauses))' = OnAll(n)
    BY <1>b, <1>g
  <2> QED
    BY <2>1, <2>3, <2>4 DEF BooleanLists, Reducing, Answered
<1>4. CASE MergeLists
  BY <1>4, <1>a, <1>b, <1>d DEF MergeLists, BooleanLists, Reducing, Answered
<1>5. CASE MergeSteps \/ UNCHANGED vars
  <2>1. UNCHANGED <<lists, at, entries, stage, clause, clauses>>
    BY <1>5 DEF MergeSteps, vars, searchVars
  <2>2. OnAll(Len(clauses))' = OnAll(n)
    BY <1>b, <1>g
  <2> QED
    BY <2>1, <2>2, <1>b, <1>d, <1>g DEF BooleanLists, Reducing, Answered
<1>6. CASE MergeIsEmpty
  <2>1. /\ stage = "merge" /\ pc = "done" /\ set2 = {}
        /\ lists' = <<>> /\ entries' = {} /\ stage' = "clauses" /\ clause' = clause
    BY <1>0, <1>6 DEF MergeIsEmpty
  <2>2. set1 = {}
    BY <2>1, <1>e, PageMergeKeeps
  <2>3. OnAll(clause - 1) = {}
    BY <2>1, <2>2, <1>f
  <2>4. clause > n
    <3> SUFFICES ASSUME clause <= n PROVE FALSE
      BY <1>c
    <3>1. /\ clause - 1 \in 1 .. Len(clauses) /\ n - 1 \in (clause - 1) .. Len(clauses) /\ n > 2
      BY <2>1, <1>c, <1>e, <1>g DEF Reducing
    <3>2. OnAll(n - 1) = {}
      BY <2>3, <3>1, FewerPages
    <3> QED
      BY <3>1, <3>2, <1>b
  <2>5. Len(clauses)' = n /\ clause > 1 /\ clause # 1
    BY <2>1, <1>c, <1>e, <1>g DEF Reducing
  <2> QED
    BY <2>1, <2>3, <2>4, <2>5, <1>b DEF BooleanLists, Reducing, Answered
<1>7. CASE MergeReturns
  <2>1. /\ stage = "merge" /\ pc = "done" /\ reducer = "AndPage" /\ pl = 1 /\ at = 2
        /\ NextList(Collected(Merged(lists, 1)))
        /\ UNCHANGED <<clause, clauses, entries>>
    BY <1>7, <1>e DEF MergeReturns, Reducing
  <2>2. /\ Len(lists) = 2 /\ at \in 1 .. Len(lists) /\ 1 \in 1 .. Len(lists) /\ 2 \in 1 .. Len(lists)
        /\ set1 \subseteq Place /\ set2 \subseteq Place
    <3>1. Len(lists) = 2
      BY <2>1, <1>e DEF Reducing
    <3>2. set1 \subseteq Place /\ set2 \subseteq Place
      BY DEF Merging, Walk, MergeTypeOK
    <3> QED
      BY <2>1, <3>1, <3>2
  <2> DEFINE ls == Merged(lists, 1)
  <2>3. /\ ls \in Seq(SUBSET Place) /\ Len(ls) = 2 /\ ls[1] = set1 /\ ls[2] = set2
    <3>1. \A j \in 1 .. Len(lists) : ls[j] = IF j = at THEN set2 ELSE IF j = 1 THEN set1 ELSE lists[j]
      BY <2>2, MergedFacts DEF Types
    <3>2. ls \in Seq(SUBSET Place) /\ Len(ls) = Len(lists)
      BY <2>2, MergedFacts DEF Types
    <3> HIDE DEF ls
    <3> QED
      BY <2>1, <2>2, <3>1, <3>2
  <2> HIDE DEF ls
  <2>4. Collected(ls)[1] = ls[1] \cup ls[2] /\ Collected(ls)[2] = ls[2]
    <3>1. at \in 1 .. Len(ls)
      BY <2>1, <2>3
    <3>2. \A j \in 1 .. Len(ls) : Collected(ls)[j] = IF j = 1 THEN ls[1] \cup ls[at] ELSE ls[j]
      BY <2>3, <3>1, CollectedFacts
    <3> QED
      BY <2>1, <2>3, <3>2
  <2>5. /\ lists' = Collected(ls) /\ at' = 3 /\ stage' = "reduce"
    BY <2>1 DEF NextList, ls
  <2>6. lists'[1] = OnAll(clause - 1) /\ lists'[2] \subseteq lists'[1]
    BY <2>1, <2>3, <2>4, <2>5, <1>f
  <2> QED
    BY <2>1, <2>5, <2>6, <1>b DEF BooleanLists, Reducing, Answered
<1>8. CASE Reduced
  <2>1. /\ stage = "reduce" /\ at = 3 /\ entries' = All /\ lists' = <<All>>
        /\ stage' = "clauses" /\ UNCHANGED <<clause, clauses>>
    <3>1. stage = "reduce" /\ at > Len(lists) /\ reducer = "AndPage" /\ Len(lists) = 2 /\ at \in {2, 3}
      BY <1>8, <1>e DEF Reduced, Reducing
    <3> QED
      BY <3>1, <1>0, <1>8 DEF Reduced
  <2>2. /\ lists[1] = OnAll(clause - 1) /\ lists[2] \subseteq lists[1]
        /\ DOMAIN lists = {1, 2}
    <3>1. DOMAIN lists = 1 .. Len(lists) /\ Len(lists) = 2
      BY <2>1, <1>e, LenProperties DEF Reducing, Types
    <3> QED
      BY <2>1, <3>1, <1>d DEF Reducing
  <2>3. All = OnAll(clause - 1)
    BY <2>2 DEF All, ToSet
  <2>4. clause > 1 /\ clause # 1
    BY <2>1, <1>c, <1>e DEF Reducing
  <2> QED
    BY <2>1, <2>3, <2>4, <1>b DEF BooleanLists, Reducing, Answered
<1>9. CASE GetSearchResult
  <2>1. stage = "found" /\ stage' = "shown" /\ entries' = entries
    BY <1>9 DEF GetSearchResult
  <2>2. OnAll(Len(clauses))' = OnAll(n)
    BY <1>b, <1>g
  <2> QED
    BY <2>1, <2>2, <1>d DEF BooleanLists, Reducing, Answered
<1> QED
  BY <1>0, <1>e, <1>1, <1>2, <1>3, <1>4, <1>5, <1>6, <1>7, <1>8, <1>9
     DEF SearchNext, AddClause, ReduceTerms, ReduceDocs, ReducePositions,
         FilterPositions, Filtered, MergeFirstList, Reducing

\* What the lists of a boolean query hold between two clauses, all the time.
LEMMA SearchBooleans == SearchSpec => [](Going /\ Parse /\ BooleanLists)
<1> DEFINE M == Merging /\ PairsAreKept /\ Ahead
           B == Parse /\ BooleanLists
<1>1. SearchSpec => SearchInit /\ [][SearchNext]_vars
  BY PTL DEF SearchSpec, vars
<1>2. Going /\ M /\ B /\ [SearchNext]_vars => B'
  BY StepParse, StepBoolean DEF Going
<1>3. SearchSpec => [](Going /\ M)
  BY SearchMerges, PTL
<1>4. SearchInit => B
  BY InitParse, InitBoolean
<1> HIDE DEF M, B
<1>5. SearchSpec => [](Going /\ B)
  BY <1>1, <1>2, <1>3, <1>4, PTL
<1> QED
  BY <1>5, PTL DEF B

\* A query whose words are all joined by AND finds the entries of the pages that
\* have all words the analyzer keeps, for every number of words and all their
\* entries, if the words but the last have a page in common.
THEOREM AndPagesFindTheirEntries == SearchSpec => []AndPagesAreExact
<1>1. Going /\ Parse /\ BooleanLists => AndPagesAreExact
  <2> SUFFICES ASSUME Going, Parse, BooleanLists, Answered, query.kind = "boolean", Kept # {},
                      AllRequired, Cardinality(Kept) > 2 => Pages(ButLast(Kept)) # {}
               PROVE  entries = {e \in UNION {found[i] : i \in Kept} :
                                     <<e.doc, e.pge>> \in Pages(Kept)}
    BY DEF AndPagesAreExact, AllRequired, ButLast
  <2> DEFINE n == Len(clauses)
  <2>0. Read = Kept
    BY DEF Answered, Read
  <2>1. /\ n = Cardinality(Kept)
        /\ \A l : (\E k \in 1 .. n : l = clauses[k].list) <=> \E i \in Kept : l = found[i]
        /\ \A l : (\E k \in 1 .. n - 1 : l = clauses[k].list) <=> \E i \in ButLast(Kept) : l = found[i]
    <3>1. /\ n = Cardinality(Kept)
          /\ {clauses[k].list : k \in 1 .. n} = {found[i] : i \in Kept}
          /\ {clauses[k].list : k \in 1 .. n - 1} = {found[i] : i \in ButLast(Kept)}
      BY <2>0 DEF Parse, ReadWords, ClauseLists, WordLists
    <3> QED
      BY <3>1
  <2>2. n \in Nat /\ \A k \in 1 .. n : clauses[k].list \subseteq Place
    BY ClauseFacts DEF Going
  <2> HIDE DEF n
  <2>3. \A a, b, c : SamePage(a, b) => SamePage(b, a) /\ (SamePage(b, c) => SamePage(a, c))
    BY DEF SamePage
  <2>4. n > 2 => OnAll(n - 1) # {}
    <3> SUFFICES ASSUME n > 2 PROVE OnAll(n - 1) # {}
      OBVIOUS
    <3>1. PICK e \in Place : \A i \in ButLast(Kept) : \E f \in found[i] : SamePage(e, f)
      BY <2>1 DEF Pages
    <3>2. \A k \in 1 .. n - 1 : \E f \in clauses[k].list : SamePage(e, f)
      BY <2>1, <3>1
    <3>3. 1 \in 1 .. n - 1 /\ 1 \in 1 .. n
      BY <2>2
    <3>4. PICK f \in clauses[1].list : SamePage(e, f)
      BY <3>2, <3>3
    <3>5. \A k \in 1 .. n - 1 : \E g \in clauses[k].list : SamePage(f, g)
      BY <2>3, <3>2, <3>4
    <3> QED
      BY <2>2, <3>3, <3>4, <3>5 DEF OnAll
  <2>5. entries = OnAll(n)
    BY <2>4 DEF BooleanLists, n
  <2>6. \A e \in Place : (\E k \in 1 .. n : e \in clauses[k].list) <=> e \in UNION {found[i] : i \in Kept}
    <3> TAKE e \in Place
    <3>1. e \in UNION {found[i] : i \in Kept} <=> \E i \in Kept : e \in found[i]
      OBVIOUS
    <3>2. (\E k \in 1 .. n : e \in clauses[k].list) => \E i \in Kept : e \in found[i]
      BY <2>1
    <3>3. (\E i \in Kept : e \in found[i]) => \E k \in 1 .. n : e \in clauses[k].list
      BY <2>1
    <3> QED
      BY <3>1, <3>2, <3>3
  <2>7. \A e \in Place : (\A k \in 1 .. n : \E f \in clauses[k].list : SamePage(e, f))
                         <=> <<e.doc, e.pge>> \in Pages(Kept)
    <3> TAKE e \in Place
    <3>1. (\A k \in 1 .. n : \E f \in clauses[k].list : SamePage(e, f))
          <=> \A i \in Kept : \E f \in found[i] : SamePage(e, f)
      BY <2>1
    <3>2. (\A i \in Kept : \E f \in found[i] : SamePage(e, f)) <=> <<e.doc, e.pge>> \in Pages(Kept)
      <4>1. ASSUME \A i \in Kept : \E f \in found[i] : SamePage(e, f)
            PROVE  <<e.doc, e.pge>> \in Pages(Kept)
        BY <4>1 DEF Pages
      <4>2. ASSUME <<e.doc, e.pge>> \in Pages(Kept)
            PROVE  \A i \in Kept : \E f \in found[i] : SamePage(e, f)
        <5>1. PICK p \in Place : /\ \A i \in Kept : \E f \in found[i] : SamePage(p, f)
                                 /\ <<p.doc, p.pge>> = <<e.doc, e.pge>>
          BY <4>2 DEF Pages
        <5>2. SamePage(e, p)
          BY <5>1 DEF SamePage
        <5> QED
          BY <2>3, <5>1, <5>2
      <4> QED
        BY <4>1, <4>2
    <3> QED
      BY <3>1, <3>2
  <2>8. UNION {found[i] : i \in Kept} \subseteq Place
    BY <2>1, <2>2
  <2> QED
    BY <2>5, <2>6, <2>7, <2>8 DEF OnAll
<1> QED
  BY <1>1, SearchBooleans, PTL

-----------------------------------------------------------------------------
(***************************************************************************)
(* What is shown and what is highlighted: the walks over the result.  They *)
(* are folds of a sequence; a fold is a function on the sets of the first  *)
(* numbers, and that there is one is proved by going from one number to    *)
(* the next.                                                               *)
(***************************************************************************)
\* One step of the walk that shows the result.
Show(by, seq, e) == IF seq # <<>> /\ Follows(by, Last(seq), e) THEN seq ELSE Append(seq, e)

\* The fold that shows a result, as the function that its definition chooses.
LEMMA ResultsIterate ==
    ASSUME NEW by, NEW s
    PROVE  Results(by, s) =
               ToSet((CHOOSE f : f = [S \in SUBSET DOMAIN InOrder(s) |->
                   IF S = {} THEN <<>>
                   ELSE Show(by, f[S \ {Max(S)}], InOrder(s)[Max(S)])])[DOMAIN InOrder(s)])
  BY Zenon DEF Results, Show, FoldLeft, MapThenFoldSet

\* The order of entries is total, and the places are finite.
LEMMA LessIsOrder ==
    ASSUME NEW s \in SUBSET Place
    PROVE  /\ IsFiniteSet(s)
           /\ IsOrder({q \in s \X s : Less(q[1], q[2])}, s)
           /\ \A e \in s : Before(e, s, {q \in s \X s : Less(q[1], q[2])}) = {f \in s : Less(f, e)}
<1> DEFINE R == {q \in s \X s : Less(q[1], q[2])}
<1>1. IsFiniteSet(s)
  BY PlacesAssumption, FS_Subset
<1>2. \A a, b \in s : <<a, b>> \in R <=> Less(a, b)
  OBVIOUS
<1>3. \A a \in s : a = [doc |-> a.doc, pge |-> a.pge, pos |-> a.pos]
                   /\ a.doc \in Nat /\ a.pge \in Nat /\ a.pos \in Nat
  BY PlaceAssumption
<1>4. /\ \A a \in s : ~ Less(a, a)
      /\ \A a, b \in s : a = b \/ Less(a, b) \/ Less(b, a)
      /\ \A a, b, c \in s : Less(a, b) /\ Less(b, c) => Less(a, c)
  <2>1. ASSUME NEW a \in s, NEW b \in s, ~ Less(a, b), ~ Less(b, a)
        PROVE  a = b
    <3>1. a.doc = b.doc /\ a.pge = b.pge /\ a.pos = b.pos
      BY <1>3, <2>1 DEF Less
    <3> QED
      BY <1>3, <3>1
  <2>2. /\ \A a \in s : ~ Less(a, a)
        /\ \A a, b, c \in s : Less(a, b) /\ Less(b, c) => Less(a, c)
    BY <1>3 DEF Less
  <2> QED
    BY <2>1, <2>2
<1>5. \A e \in s : Before(e, s, R) = {f \in s : Less(f, e)}
  BY <1>2 DEF Before
<1> HIDE DEF R
<1>6. IsOrder(R, s)
  BY <1>2, <1>4 DEF IsOrder
<1> QED
  BY <1>1, <1>5, <1>6 DEF R

\* InOrder lists all entries of a set, in their order.
LEMMA InOrderFacts ==
    ASSUME NEW s \in SUBSET Place
    PROVE  /\ Cardinality(s) \in Nat
           /\ InOrder(s) \in [1 .. Cardinality(s) -> s]
           /\ \A e \in s : \E i \in 1 .. Cardinality(s) : InOrder(s)[i] = e
           /\ \A i, j \in 1 .. Cardinality(s) : i < j => Less(InOrder(s)[i], InOrder(s)[j])
<1> DEFINE n == Cardinality(s)
           R == {q \in s \X s : Less(q[1], q[2])}
           rank(e) == Cardinality({f \in s : Less(f, e)})
           Chosen(i) == CHOOSE e \in s : rank(e) = i - 1
<1>1. IsFiniteSet(s) /\ IsOrder(R, s) /\ n \in Nat
  BY LessIsOrder, FS_CardinalityType
<1>2. \A e \in s : Cardinality(Before(e, s, R)) = rank(e)
  BY LessIsOrder
<1>3. \A a, b \in s : <<a, b>> \in R <=> Less(a, b)
  OBVIOUS
<1>4. InOrder(s) = [i \in 1 .. n |-> Chosen(i)]
  BY DEF InOrder
<1> HIDE DEF n, R
<1>5. \A e \in s : rank(e) \in 0 .. n - 1
  BY <1>1, <1>2, RankIsBounded DEF n
<1>6. \A e, f \in s : Less(e, f) => rank(e) < rank(f)
  BY <1>1, <1>2, <1>3, RankGrows
<1>7. \A k \in 0 .. n - 1 : \E e \in s : rank(e) = k
  BY <1>1, <1>2, RanksEnumerate DEF n
<1>8. \A e, f \in s : e = f \/ Less(e, f) \/ Less(f, e)
  BY <1>1, <1>3 DEF IsOrder
<1> HIDE DEF rank
<1>9. ASSUME NEW i \in 1 .. n
      PROVE  Chosen(i) \in s /\ rank(Chosen(i)) = i - 1
  <2>1. i - 1 \in 0 .. n - 1
    BY <1>1
  <2>2. \E e \in s : rank(e) = i - 1
    BY <1>7, <2>1
  <2> QED
    BY <2>2
<1> HIDE DEF Chosen
<1>10. \A i \in 1 .. n : InOrder(s)[i] = Chosen(i)
  BY <1>4
<1>11. InOrder(s) \in [1 .. n -> s]
  BY <1>4, <1>9
<1>12. ASSUME NEW e \in s
       PROVE  \E i \in 1 .. n : InOrder(s)[i] = e
  <2>1. rank(e) \in 0 .. n - 1
    BY <1>5
  <2>2. rank(e) + 1 \in 1 .. n /\ rank(e) + 1 - 1 = rank(e)
    BY <1>1, <2>1
  <2> DEFINE i == rank(e) + 1
  <2>3. Chosen(i) \in s /\ rank(Chosen(i)) = rank(e)
    <3>1. i \in 1 .. n /\ i - 1 = rank(e)
      BY <1>1, <2>1
    <3> HIDE DEF i
    <3> QED
      BY <1>9, <3>1
  <2>4. Chosen(rank(e) + 1) = e
    BY <1>6, <1>8, <2>1, <2>3
  <2> QED
    BY <1>10, <2>2, <2>4
<1>13. ASSUME NEW i \in 1 .. n, NEW j \in 1 .. n, i < j
       PROVE  Less(InOrder(s)[i], InOrder(s)[j])
  <2>1. /\ Chosen(i) \in s /\ rank(Chosen(i)) = i - 1
        /\ Chosen(j) \in s /\ rank(Chosen(j)) = j - 1
    BY <1>9
  <2>2. i - 1 < j - 1 /\ i - 1 \in Int /\ j - 1 \in Int
    BY <1>1, <1>13
  <2>3. Chosen(i) # Chosen(j) /\ ~ Less(Chosen(j), Chosen(i))
    BY <1>6, <2>1, <2>2
  <2> QED
    BY <1>8, <1>10, <2>1, <2>3
<1> QED
  BY <1>1, <1>11, <1>12, <1>13 DEF n

\* Showing a result is a walk over its entries, one step for each.
LEMMA ResultsWalk ==
    ASSUME NEW by, NEW s \in SUBSET Place
    PROVE  LET n == Cardinality(s)
               o == InOrder(s)
           IN  \E w : /\ w[0] = <<>>
                      /\ \A k \in 0 .. n - 1 : w[k + 1] = Show(by, w[k], o[k + 1])
                      /\ Results(by, s) = ToSet(w[n])
<1> DEFINE n == Cardinality(s)
           o == InOrder(s)
           A == Seq(s)
           G == [q \in A \X (1 .. n) |-> Show(by, q[1], o[q[2]])]
           F == CHOOSE f : f = [S \in SUBSET DOMAIN o |->
                            IF S = {} THEN <<>> ELSE Show(by, f[S \ {Max(S)}], o[Max(S)])]
           w == [k \in 0 .. n |-> F[1 .. k]]
<1>1. n \in Nat /\ o \in [1 .. n -> s] /\ DOMAIN o = 1 .. n
  BY InOrderFacts
<1>2. Results(by, s) = ToSet(F[1 .. n])
  <2>1. Results(by, s) = ToSet(F[DOMAIN o])
    BY ResultsIterate, Zenon
  <2> QED
    BY <1>1, <2>1
<1> HIDE DEF n, o, F
<1>3. ASSUME NEW q \in A, NEW i \in 1 .. n
      PROVE  Show(by, q, o[i]) \in A
  BY <1>1, AppendProperties DEF Show
<1>4. G \in [A \X (1 .. n) -> A]
  BY <1>3
<1>5. <<>> \in A
  BY EmptySeq
<1>6. PICK f \in [SUBSET (1 .. n) -> A] : \A S \in SUBSET (1 .. n) :
               f[S] = IF S = {} THEN <<>> ELSE G[<<f[S \ {Max(S)}], Max(S)>>]
  <2> DEFINE base == <<>>
  <2>1. base \in A
    BY <1>5
  <2> HIDE DEF A, G, base
  <2>3. Iterations(n, A, base, G) # {}
    BY <1>1, <1>4, <2>1, IterationExists
  <2>2. \E f \in [SUBSET (1 .. n) -> A] : \A S \in SUBSET (1 .. n) :
               f[S] = IF S = {} THEN base ELSE G[<<f[S \ {Max(S)}], Max(S)>>]
    BY <2>3 DEF Iterations
  <2> QED
    BY <2>2 DEF base
<1>7. f = [S \in SUBSET DOMAIN o |->
              IF S = {} THEN <<>> ELSE Show(by, f[S \ {Max(S)}], o[Max(S)])]
  <2> SUFFICES ASSUME NEW S \in SUBSET (1 .. n), S # {}
               PROVE  f[S] = Show(by, f[S \ {Max(S)}], o[Max(S)])
    BY <1>1, <1>6
  <2>1. Max(S) \in 1 .. n
    BY <1>1, MaxIsMember
  <2>2. f[S \ {Max(S)}] \in A
    BY <1>6
  <2>3. f[S] = G[<<f[S \ {Max(S)}], Max(S)>>]
    BY <1>6
  <2> QED
    BY <2>1, <2>2, <2>3
<1>8. F = [S \in SUBSET DOMAIN o |->
              IF S = {} THEN <<>> ELSE Show(by, F[S \ {Max(S)}], o[Max(S)])]
  BY <1>7, Zenon DEF F
<1>9. w[0] = <<>> /\ w[n] = F[1 .. n]
  <2>1. 1 .. 0 = {} /\ 1 .. 0 \in SUBSET (1 .. n)
    OBVIOUS
  <2>2. F[1 .. 0] = <<>>
    BY <1>1, <1>8, <2>1
  <2> QED
    BY <1>1, <2>2
<1>10. ASSUME NEW k \in 0 .. n - 1
       PROVE  w[k + 1] = Show(by, w[k], o[k + 1])
  <2>1. k \in Nat /\ k + 1 \in 1 .. k + 1 /\ k \in 0 .. n /\ k + 1 \in 0 .. n
    BY <1>1
  <2>2. \A i \in 1 .. k + 1 : i \in 1 .. n
    BY <1>1, <2>1
  <2>5. (1 .. k + 1) \ {k + 1} = 1 .. k
    BY <2>1
  <2>3. Max(1 .. k + 1) = k + 1
    BY <2>1, LastIsMax
  <2>4. F[1 .. k + 1] = Show(by, F[1 .. k], o[k + 1])
    BY <1>1, <1>8, <2>1, <2>2, <2>3, <2>5
  <2> QED
    BY <2>1, <2>4
<1> HIDE DEF w
<1> QED
  BY <1>2, <1>9, <1>10, Zenon DEF n, o

\* Two entries are one result.
Same(by, a, b) == IF by = "document" THEN a.doc = b.doc ELSE SamePage(a, b)

\* A step shows its entry after those shown before, or leaves them.
Stays(by, w, e, v) == v = w /\ w # <<>> /\ Follows(by, Last(w), e)
Grows(by, w, e, v) == /\ ToSet(v) = ToSet(w) \cup {e} /\ Last(v) = e
                      /\ w # <<>> => ~ Follows(by, Last(w), e)

\* What a step of the walk does to what is shown.
LEMMA ShowFacts ==
    ASSUME NEW s \in SUBSET Place, NEW by, NEW w \in Seq(s), NEW e \in s
    PROVE  /\ Show(by, w, e) \in Seq(s) /\ Show(by, w, e) # <<>>
           /\ Stays(by, w, e, Show(by, w, e)) \/ Grows(by, w, e, Show(by, w, e))
           /\ ToSet(w) \in SUBSET s
           /\ w # <<>> => Last(w) \in ToSet(w)
<1>1. /\ Append(w, e) \in Seq(s) /\ Append(w, e) # <<>>
      /\ Len(Append(w, e)) = Len(w) + 1 /\ Append(w, e)[Len(w) + 1] = e
      /\ \A i \in 1 .. Len(w) : Append(w, e)[i] = w[i]
      /\ DOMAIN w = 1 .. Len(w) /\ Len(w) \in Nat
      /\ DOMAIN Append(w, e) = 1 .. Len(w) + 1
  BY AppendProperties
<1>2. ToSet(Append(w, e)) = ToSet(w) \cup {e}
  <2>1. ASSUME NEW x \in ToSet(Append(w, e))
        PROVE  x \in ToSet(w) \cup {e}
    <3>1. PICK i \in 1 .. Len(w) + 1 : x = Append(w, e)[i]
      BY <1>1 DEF ToSet
    <3>2. i \in 1 .. Len(w) \/ i = Len(w) + 1
      BY <1>1
    <3> QED
      BY <1>1, <3>1, <3>2 DEF ToSet
  <2>2. ASSUME NEW x \in ToSet(w) \cup {e}
        PROVE  x \in ToSet(Append(w, e))
    <3>1. CASE x = e
      <4>1. Len(w) + 1 \in 1 .. Len(w) + 1
        BY <1>1
      <4> QED
        BY <1>1, <3>1, <4>1 DEF ToSet
    <3>2. CASE x \in ToSet(w)
      <4>1. PICK i \in 1 .. Len(w) : x = w[i]
        BY <1>1, <3>2 DEF ToSet
      <4>2. i \in 1 .. Len(w) + 1
        BY <1>1
      <4> QED
        BY <1>1, <4>1, <4>2 DEF ToSet
    <3> QED
      BY <2>2, <3>1, <3>2
  <2> QED
    BY <2>1, <2>2
<1>3. Last(Append(w, e)) = e
  BY <1>1 DEF Last
<1>4. ToSet(w) \in SUBSET s
  BY <1>1 DEF ToSet
<1>5. ASSUME w # <<>>
      PROVE  Last(w) \in ToSet(w)
  <2>1. Len(w) \in 1 .. Len(w)
    BY <1>1, <1>5, EmptySeq
  <2> QED
    BY <1>1, <2>1 DEF Last, ToSet
<1>6. CASE w # <<>> /\ Follows(by, Last(w), e)
  BY <1>4, <1>5, <1>6 DEF Show, Stays
<1>7. CASE ~ (w # <<>> /\ Follows(by, Last(w), e))
  BY <1>1, <1>2, <1>3, <1>4, <1>5, <1>7 DEF Show, Grows
<1> QED
  BY <1>6, <1>7

\* Only entries of the result are shown.
LEMMA ResultsAreEntries ==
    ASSUME NEW by, NEW s \in SUBSET Place
    PROVE  Results(by, s) \in SUBSET s
<1> DEFINE n == Cardinality(s)
           o == InOrder(s)
<1>1. n \in Nat /\ o \in [1 .. n -> s]
  BY InOrderFacts
<1>2. \E w : /\ w[0] = <<>>
             /\ \A k \in 0 .. n - 1 : w[k + 1] = Show(by, w[k], o[k + 1])
             /\ Results(by, s) = ToSet(w[n])
  BY ResultsWalk, Zenon
<1> HIDE DEF n, o
<1>3. PICK w : /\ w[0] = <<>>
               /\ \A k \in 0 .. n - 1 : w[k + 1] = Show(by, w[k], o[k + 1])
               /\ Results(by, s) = ToSet(w[n])
  BY <1>2
<1> DEFINE T == {k \in 0 .. n : w[k] \in Seq(s)}
<1>4. 0 \in T
  <2>1. w[0] \in Seq(s)
    BY <1>3, EmptySeq
  <2> QED
    BY <1>1, <2>1
<1>5. ASSUME NEW k \in 0 .. n - 1, k \in T
      PROVE  k + 1 \in T
  <2>1. k + 1 \in 1 .. n /\ k + 1 \in 0 .. n
    BY <1>1
  <2>2. w[k] \in Seq(s) /\ o[k + 1] \in s
    BY <1>1, <1>5, <2>1
  <2>3. Show(by, w[k], o[k + 1]) \in Seq(s)
    BY <2>2, ShowFacts
  <2>4. w[k + 1] \in Seq(s)
    BY <1>3, <2>3
  <2> QED
    BY <2>1, <2>4
<1> HIDE DEF T
<1>6. n \in T
  <2>1. n \in Nat /\ n \in 0 .. n
    BY <1>1
  <2>2. \A k \in 0 .. n : k \in T
    BY <1>4, <1>5, <2>1, UpToLast, Zenon
  <2> QED
    BY <2>1, <2>2
<1>7. w[n] \in Seq(s)
  BY <1>6 DEF T
<1>8. ToSet(w[n]) \in SUBSET s
  BY <1>7, IsASeq, ElementOfSeq DEF ToSet
<1> QED
  BY <1>3, <1>8

\* Entries of one document stand together, and so do those of one page.
LEMMA SameFacts ==
    ASSUME NEW by \in {"document", "page"}
    PROVE  /\ \A a \in Place : Same(by, a, a)
           /\ \A a, b \in Place : Same(by, a, b) <=> Follows(by, a, b)
           /\ \A a, b \in Place : Same(by, a, b) => Same(by, b, a)
           /\ \A a, b, c \in Place : Same(by, a, b) /\ Same(by, b, c) => Same(by, a, c)
           /\ \A a, b, c \in Place : (a = b \/ Less(a, b)) /\ Less(b, c) /\ Same(by, a, c) =>
                                         Same(by, b, c)
<1>1. \A a \in Place : a.doc \in Nat /\ a.pge \in Nat /\ a.pos \in Nat
  BY PlaceAssumption
<1>2. CASE by = "document"
  BY <1>1, <1>2 DEF Same, Follows, SamePage, Less
<1>3. CASE by = "page"
  BY <1>1, <1>3 DEF Same, Follows, SamePage, Less
<1> QED
  BY <1>2, <1>3

\* What the walk has shown after k entries: of each of their documents, or
\* pages, exactly one entry, and of the last one the entry shown last.
Shows(by, s, w, k) ==
    /\ w \in Seq(s)
    /\ k > 0 => w # <<>> /\ Same(by, Last(w), InOrder(s)[k])
    /\ \A r \in ToSet(w) : \E i \in 1 .. k : r = InOrder(s)[i]
    /\ \A i \in 1 .. k : \E r \in ToSet(w) : Same(by, r, InOrder(s)[i])
    /\ \A q, r \in ToSet(w) : Same(by, q, r) => q = r

\* The next entry keeps it so: an entry that does not follow the last one shown
\* is on a page that none of the entries before it is on.
LEMMA ShowsOneMore ==
    ASSUME NEW by \in {"document", "page"}, NEW s \in SUBSET Place,
           NEW k \in 0 .. Cardinality(s) - 1, NEW w, Shows(by, s, w, k)
    PROVE  Shows(by, s, Show(by, w, InOrder(s)[k + 1]), k + 1)
<1> DEFINE n == Cardinality(s)
           o == InOrder(s)
           e == o[k + 1]
           v == Show(by, w, e)
<1>1. /\ n \in Nat /\ o \in [1 .. n -> s]
      /\ \A i, j \in 1 .. n : i < j => Less(o[i], o[j])
  BY InOrderFacts
<1>2. /\ k \in Nat /\ k + 1 \in 1 .. n /\ k + 1 > 0
      /\ \A i \in 1 .. k : i \in 1 .. n /\ i < k + 1 /\ i \in 1 .. k + 1
      /\ \A i \in 1 .. k + 1 : i \in 1 .. k \/ i = k + 1
      /\ k > 0 => k \in 1 .. k
  BY <1>1
<1>3. /\ w \in Seq(s)
      /\ k > 0 => w # <<>> /\ Same(by, Last(w), o[k])
      /\ \A r \in ToSet(w) : \E i \in 1 .. k : r = o[i]
      /\ \A i \in 1 .. k : \E r \in ToSet(w) : Same(by, r, o[i])
      /\ \A q, r \in ToSet(w) : Same(by, q, r) => q = r
  BY DEF Shows
<1> HIDE DEF n, o
<1>4. e \in s /\ e \in Place
  BY <1>1, <1>2
<1> HIDE DEF e
<1>5. /\ v \in Seq(s) /\ v # <<>>
      /\ Stays(by, w, e, v) \/ Grows(by, w, e, v)
      /\ ToSet(w) \in SUBSET s
      /\ w # <<>> => Last(w) \in ToSet(w)
  <2>1. w \in Seq(s)
    BY <1>3
  <2>2. e \in s
    BY <1>4
  <2> QED
    BY <2>1, <2>2, ShowFacts
<1> HIDE DEF v
<1>6. CASE v = w /\ w # <<>> /\ Follows(by, Last(w), e)
  <2>1. Same(by, Last(w), e) /\ Last(w) \in ToSet(w)
    BY <1>4, <1>5, <1>6, SameFacts
  <2>2. \A i \in 1 .. k + 1 : \E r \in ToSet(v) : Same(by, r, o[i])
    BY <1>2, <1>3, <1>6, <2>1 DEF e
  <2>3. \A r \in ToSet(v) : \E i \in 1 .. k + 1 : r = o[i]
    BY <1>2, <1>3, <1>6
  <2>4. Same(by, Last(v), o[k + 1])
    BY <1>6, <2>1 DEF e
  <2>5. \A q, r \in ToSet(v) : Same(by, q, r) => q = r
    BY <1>3, <1>6
  <2> QED
    BY <1>5, <2>2, <2>3, <2>4, <2>5 DEF Shows, v, e, o
<1>7. CASE /\ ToSet(v) = ToSet(w) \cup {e} /\ Last(v) = e
           /\ w # <<>> => ~ Follows(by, Last(w), e)
  <2>1. Same(by, Last(v), o[k + 1])
    BY <1>4, <1>7, SameFacts DEF e
  <2>2. \A i \in 1 .. k + 1 : \E r \in ToSet(v) : Same(by, r, o[i])
    BY <1>2, <1>3, <1>4, <1>7, SameFacts DEF e
  <2>3. \A r \in ToSet(v) : \E i \in 1 .. k + 1 : r = o[i]
    BY <1>2, <1>3, <1>7 DEF e
  <2>4. ASSUME NEW r \in ToSet(w), Same(by, r, e)
        PROVE  FALSE
    <3>1. PICK i \in 1 .. k : r = o[i]
      BY <1>3
    <3>2. k > 0 /\ k \in 1 .. n /\ k < k + 1 /\ (i = k \/ i < k) /\ i \in 1 .. n
      BY <1>2
    <3>3. Less(o[k], e) /\ (r = o[k] \/ Less(r, o[k])) /\ o[k] \in Place /\ r \in Place
      BY <1>1, <1>2, <3>1, <3>2 DEF e
    <3>4. Same(by, o[k], e)
      BY <1>4, <2>4, <3>3, SameFacts
    <3>5. w # <<>> /\ Last(w) \in Place /\ Same(by, Last(w), o[k])
      BY <1>3, <1>5, <3>2
    <3>6. Same(by, Last(w), e)
      BY <1>4, <3>3, <3>4, <3>5, SameFacts
    <3> QED
      BY <1>4, <1>7, <3>5, <3>6, SameFacts
  <2>5. ASSUME NEW q \in ToSet(v), NEW r \in ToSet(v), Same(by, q, r)
        PROVE  q = r
    <3>1. q \in ToSet(w) \/ q = e
      BY <1>7
    <3>2. r \in ToSet(w) \/ r = e
      BY <1>7
    <3>3. q \in Place /\ r \in Place
      BY <1>4, <1>5, <3>1, <3>2
    <3>4. Same(by, r, q)
      BY <2>5, <3>3, SameFacts
    <3> QED
      BY <1>3, <2>4, <2>5, <3>1, <3>2, <3>4
  <2> QED
    BY <1>5, <2>1, <2>2, <2>3, <2>5 DEF Shows, v, e, o
<1> QED
  BY <1>5, <1>6, <1>7 DEF Stays, Grows

\* Every document, or page, of a result is shown once.
LEMMA ResultsShowOnce ==
    ASSUME NEW by \in {"document", "page"}, NEW s \in SUBSET Place, NEW e \in s
    PROVE  Cardinality({r \in Results(by, s) : Same(by, r, e)}) = 1
<1> DEFINE n == Cardinality(s)
           o == InOrder(s)
<1>1. /\ n \in Nat /\ o \in [1 .. n -> s]
      /\ \E i \in 1 .. n : o[i] = e
  BY InOrderFacts
<1>2. \E w : /\ w[0] = <<>>
             /\ \A k \in 0 .. n - 1 : w[k + 1] = Show(by, w[k], o[k + 1])
             /\ Results(by, s) = ToSet(w[n])
  BY ResultsWalk, Zenon
<1>3. PICK w : /\ w[0] = <<>>
               /\ \A k \in 0 .. n - 1 : w[k + 1] = Show(by, w[k], o[k + 1])
               /\ Results(by, s) = ToSet(w[n])
  BY <1>2
<1> DEFINE T == {k \in 0 .. n : Shows(by, s, w[k], k)}
<1>4. 0 \in T
  <2>1. w[0] \in Seq(s) /\ ToSet(w[0]) = {}
    BY <1>3, EmptySeq DEF ToSet
  <2>2. Shows(by, s, w[0], 0)
    BY <2>1 DEF Shows
  <2> QED
    BY <1>1, <2>2
<1>5. ASSUME NEW k \in 0 .. n - 1, k \in T
      PROVE  k + 1 \in T
  <2>1. k + 1 \in 0 .. n
    BY <1>1
  <2>2. Shows(by, s, Show(by, w[k], o[k + 1]), k + 1)
    BY <1>5, ShowsOneMore
  <2> QED
    BY <1>3, <2>1, <2>2
<1> HIDE DEF T
<1>6. n \in T
  <2>1. n \in Nat /\ n \in 0 .. n
    BY <1>1
  <2> HIDE DEF n
  <2>2. \A k \in 0 .. n : k \in T
    BY <1>4, <1>5, <2>1, UpToLast, Zenon
  <2> QED
    BY <2>1, <2>2
<1>7. Shows(by, s, w[n], n)
  BY <1>6 DEF T
<1>8. \E r \in Results(by, s) : Same(by, r, e)
  BY <1>1, <1>3, <1>7 DEF Shows
<1>9. PICK r \in Results(by, s) : Same(by, r, e)
  BY <1>8
<1>10. Results(by, s) \in SUBSET Place /\ e \in Place
  BY ResultsAreEntries
<1>11. ASSUME NEW q \in Results(by, s), Same(by, q, e)
       PROVE  q = r
  <2>1. Same(by, q, r)
    BY <1>9, <1>10, <1>11, SameFacts
  <2> QED
    BY <1>3, <1>7, <2>1 DEF Shows
<1>12. {q \in Results(by, s) : Same(by, q, e)} = {r}
  BY <1>9, <1>11
<1> QED
  BY <1>12, FS_Singleton

\* A page before it is highlighted.
Unmarked == [marks |-> {}, ended |-> FALSE]

\* The fold that highlights a page, as the function that its definition chooses.
LEMMA HighlightsIterate ==
    ASSUME NEW d, NEW p, NEW s
    PROVE  Highlights(s, d, p) =
               ((CHOOSE f : f = [S \in SUBSET DOMAIN InOrder(s) |->
                   IF S = {} THEN Unmarked
                   ELSE Walked(f[S \ {Max(S)}], InOrder(s)[Max(S)], d, p)])[DOMAIN InOrder(s)]).marks
  BY Zenon DEF Highlights, Unmarked, FoldLeft, MapThenFoldSet

\* Highlighting a page is a walk over the entries of the result.
LEMMA HighlightsWalk ==
    ASSUME NEW d, NEW p, NEW s \in SUBSET Place
    PROVE  LET n == Cardinality(s)
               o == InOrder(s)
           IN  \E w : /\ w[0] = Unmarked
                      /\ \A k \in 0 .. n - 1 : w[k + 1] = Walked(w[k], o[k + 1], d, p)
                      /\ Highlights(s, d, p) = w[n].marks
<1> DEFINE n == Cardinality(s)
           o == InOrder(s)
           A == [marks : SUBSET Nat, ended : BOOLEAN]
           G == [q \in A \X (1 .. n) |-> Walked(q[1], o[q[2]], d, p)]
           F == CHOOSE f : f = [S \in SUBSET DOMAIN o |->
                    IF S = {} THEN Unmarked ELSE Walked(f[S \ {Max(S)}], o[Max(S)], d, p)]
           w == [k \in 0 .. n |-> F[1 .. k]]
<1>1. n \in Nat /\ o \in [1 .. n -> s] /\ DOMAIN o = 1 .. n
  BY InOrderFacts
<1>2. Highlights(s, d, p) = F[1 .. n].marks
  <2>1. Highlights(s, d, p) = F[DOMAIN o].marks
    BY HighlightsIterate, Zenon
  <2> QED
    BY <1>1, <2>1
<1> HIDE DEF n, o, F
<1>3. ASSUME NEW q \in A, NEW i \in 1 .. n
      PROVE  Walked(q, o[i], d, p) \in A
  <2>1. o[i].pos \in Nat
    BY <1>1, PlaceAssumption
  <2> QED
    BY <2>1 DEF Walked
<1>4. G \in [A \X (1 .. n) -> A]
  BY <1>3
<1>5. Unmarked \in A
  BY DEF Unmarked
<1>6. PICK f \in [SUBSET (1 .. n) -> A] : \A S \in SUBSET (1 .. n) :
               f[S] = IF S = {} THEN Unmarked ELSE G[<<f[S \ {Max(S)}], Max(S)>>]
  <2> HIDE DEF A, G
  <2>1. Iterations(n, A, Unmarked, G) # {}
    BY <1>1, <1>4, <1>5, IterationExists
  <2> QED
    BY <2>1 DEF Iterations
<1>7. f = [S \in SUBSET DOMAIN o |->
              IF S = {} THEN Unmarked ELSE Walked(f[S \ {Max(S)}], o[Max(S)], d, p)]
  <2> SUFFICES ASSUME NEW S \in SUBSET (1 .. n), S # {}
               PROVE  f[S] = Walked(f[S \ {Max(S)}], o[Max(S)], d, p)
    BY <1>1, <1>6
  <2>1. Max(S) \in 1 .. n
    BY <1>1, MaxIsMember
  <2>2. f[S \ {Max(S)}] \in A
    BY <1>6
  <2>3. f[S] = G[<<f[S \ {Max(S)}], Max(S)>>]
    BY <1>6
  <2> HIDE DEF A
  <2> QED
    BY <2>1, <2>2, <2>3
<1>8. F = [S \in SUBSET DOMAIN o |->
              IF S = {} THEN Unmarked ELSE Walked(F[S \ {Max(S)}], o[Max(S)], d, p)]
  BY <1>7, Zenon DEF F
<1>9. w[0] = Unmarked /\ w[n] = F[1 .. n]
  <2>1. 1 .. 0 = {} /\ 1 .. 0 \in SUBSET (1 .. n)
    OBVIOUS
  <2>2. F[1 .. 0] = Unmarked
    BY <1>1, <1>8, <2>1
  <2> QED
    BY <1>1, <2>2
<1>10. ASSUME NEW k \in 0 .. n - 1
       PROVE  w[k + 1] = Walked(w[k], o[k + 1], d, p)
  <2>1. k \in Nat /\ k + 1 \in 1 .. k + 1 /\ k \in 0 .. n /\ k + 1 \in 0 .. n
    BY <1>1
  <2>2. \A i \in 1 .. k + 1 : i \in 1 .. n
    BY <1>1, <2>1
  <2>3. (1 .. k + 1) \ {k + 1} = 1 .. k
    BY <2>1
  <2>4. Max(1 .. k + 1) = k + 1
    BY <2>1, LastIsMax
  <2>5. F[1 .. k + 1] = Walked(F[1 .. k], o[k + 1], d, p)
    BY <1>1, <1>8, <2>1, <2>2, <2>3, <2>4
  <2> QED
    BY <2>1, <2>5
<1> HIDE DEF w
<1> QED
  BY <1>2, <1>9, <1>10, Zenon DEF n, o

\* The entry is after the page p of the document d, in the order of entries.
Beyond(e, d, p) == e.doc > d \/ (e.doc = d /\ e.pge > p)

\* What the walk has marked after k entries: those on the page, and nothing
\* that ends the walk comes before an entry of the page.
Marked(s, d, p, w, k) ==
    /\ w \in [marks : SUBSET Nat, ended : BOOLEAN]
    /\ w.marks = {h.pos : h \in {g \in s : g.doc = d /\ g.pge = p
                                          /\ \E i \in 1 .. k : g = InOrder(s)[i]}}
    /\ w.ended => \E i \in 1 .. k : Beyond(InOrder(s)[i], d, p)

\* The entry is on the page.
On(e, d, p) == e.doc = d /\ e.pge = p

\* The next entry keeps it so, although the walk compares the pages of
\* different documents.
LEMMA MarkedOneMore ==
    ASSUME NEW d \in Nat, NEW p \in Nat, NEW s \in SUBSET Place,
           NEW k \in 0 .. Cardinality(s) - 1, NEW w, Marked(s, d, p, w, k)
    PROVE  Marked(s, d, p, Walked(w, InOrder(s)[k + 1], d, p), k + 1)
<1> DEFINE n == Cardinality(s)
           o == InOrder(s)
           e == o[k + 1]
           v == Walked(w, e, d, p)
           Hits(m) == {h.pos : h \in {g \in s : On(g, d, p) /\ \E i \in 1 .. m : g = o[i]}}
<1>1. /\ n \in Nat /\ o \in [1 .. n -> s]
      /\ \A i, j \in 1 .. n : i < j => Less(o[i], o[j])
  BY InOrderFacts
<1>2. /\ k \in Nat /\ k + 1 \in 1 .. n
      /\ \A i \in 1 .. k : i \in 1 .. n /\ i < k + 1 /\ i \in 1 .. k + 1
      /\ \A i \in 1 .. k + 1 : i \in 1 .. k \/ i = k + 1
      /\ k + 1 \in 1 .. k + 1
  BY <1>1
<1>3. /\ w \in [marks : SUBSET Nat, ended : BOOLEAN]
      /\ w.marks = Hits(k)
      /\ w.ended => \E i \in 1 .. k : Beyond(o[i], d, p)
  BY DEF Marked, On
<1> HIDE DEF n, o
<1>4. e \in s /\ e.doc \in Nat /\ e.pge \in Nat /\ e.pos \in Nat
  BY <1>1, <1>2, PlaceAssumption
<1>5. ASSUME NEW i \in 1 .. k
      PROVE  o[i].doc \in Nat /\ o[i].pge \in Nat /\ Less(o[i], e)
  <2>1. i \in 1 .. n /\ i < k + 1 /\ o[i] \in s
    BY <1>1, <1>2
  <2>2. Less(o[i], e)
    BY <1>1, <1>2, <2>1
  <2> QED
    BY <2>1, <2>2, PlaceAssumption
<1>6. Hits(k + 1) = IF On(e, d, p) THEN Hits(k) \cup {e.pos} ELSE Hits(k)
  BY <1>2, <1>4
<1>7. \A i \in 1 .. k : i \in 1 .. k + 1
  BY <1>2
<1> HIDE DEF e, Hits
<1>8. CASE w.ended \/ e.doc < d \/ e.pge < p
  <2>1. ~ On(e, d, p)
    BY <1>3, <1>4, <1>5, <1>8 DEF On, Beyond, Less
  <2>2. v = w
    BY <1>8 DEF Walked
  <2> QED
    BY <1>3, <1>6, <1>7, <2>1, <2>2 DEF Marked, On, Hits, o, e
<1>9. CASE ~ (w.ended \/ e.doc < d \/ e.pge < p) /\ (e.doc > d \/ e.pge > p)
  <2>1. ~ On(e, d, p) /\ Beyond(e, d, p)
    BY <1>4, <1>9 DEF On, Beyond
  <2>2. v = [w EXCEPT !.ended = TRUE]
    BY <1>9 DEF Walked
  <2>3. v \in [marks : SUBSET Nat, ended : BOOLEAN] /\ v.marks = w.marks /\ v.ended
    BY <1>3, <2>2
  <2>4. \E i \in 1 .. k + 1 : Beyond(o[i], d, p)
    BY <1>2, <2>1 DEF e
  <2> QED
    BY <1>3, <1>6, <2>1, <2>3, <2>4 DEF Marked, On, Hits, o, e
<1>10. CASE ~ (w.ended \/ e.doc < d \/ e.pge < p) /\ ~ (e.doc > d \/ e.pge > p)
  <2>1. On(e, d, p)
    BY <1>4, <1>10 DEF On
  <2>2. v = [w EXCEPT !.marks = @ \cup {e.pos}]
    BY <1>10 DEF Walked
  <2>3. v \in [marks : SUBSET Nat, ended : BOOLEAN] /\ v.marks = w.marks \cup {e.pos} /\ ~ v.ended
    BY <1>3, <1>4, <1>10, <2>2
  <2> QED
    BY <1>3, <1>6, <2>1, <2>3 DEF Marked, On, Hits, o, e
<1> QED
  BY <1>8, <1>9, <1>10 DEF v, e, o

\* The entries on a page are highlighted and no others.
LEMMA HighlightsHit ==
    ASSUME NEW d \in Nat, NEW p \in Nat, NEW s \in SUBSET Place
    PROVE  Highlights(s, d, p) = {h.pos : h \in {g \in s : g.doc = d /\ g.pge = p}}
<1> DEFINE n == Cardinality(s)
           o == InOrder(s)
<1>1. /\ n \in Nat
      /\ \A e \in s : \E i \in 1 .. n : o[i] = e
  BY InOrderFacts
<1>2. \E w : /\ w[0] = Unmarked
             /\ \A k \in 0 .. n - 1 : w[k + 1] = Walked(w[k], o[k + 1], d, p)
             /\ Highlights(s, d, p) = w[n].marks
  BY HighlightsWalk
<1>3. PICK w : /\ w[0] = Unmarked
               /\ \A k \in 0 .. n - 1 : w[k + 1] = Walked(w[k], o[k + 1], d, p)
               /\ Highlights(s, d, p) = w[n].marks
  BY <1>2
<1> DEFINE T == {k \in 0 .. n : Marked(s, d, p, w[k], k)}
<1>4. 0 \in T
  <2>1. \A i : i \notin 1 .. 0
    OBVIOUS
  <2>2. Marked(s, d, p, Unmarked, 0)
    BY <2>1 DEF Marked, Unmarked
  <2> QED
    BY <1>1, <1>3, <2>2
<1>5. ASSUME NEW k \in 0 .. n - 1, k \in T
      PROVE  k + 1 \in T
  <2>1. k + 1 \in 0 .. n
    BY <1>1
  <2>2. Marked(s, d, p, Walked(w[k], o[k + 1], d, p), k + 1)
    BY <1>5, MarkedOneMore
  <2> QED
    BY <1>3, <2>1, <2>2
<1> HIDE DEF T
<1>6. n \in T
  <2>1. n \in Nat /\ n \in 0 .. n
    BY <1>1
  <2> HIDE DEF n
  <2>2. \A k \in 0 .. n : k \in T
    BY <1>4, <1>5, <2>1, UpToLast, Zenon
  <2> QED
    BY <2>1, <2>2
<1>7. Marked(s, d, p, w[n], n)
  BY <1>6 DEF T
<1>8. \A g \in s : \E i \in 1 .. n : g = o[i]
  BY <1>1
<1> QED
  BY <1>3, <1>7, <1>8 DEF Marked

\* What is shown is the whole result, and nothing is shown before there is one.
Showing == IF stage = "shown" THEN shown = Results(mode, entries) ELSE shown = {}

\* Only the last step of a search shows anything.
LEMMA StepShows == Going /\ Showing /\ [SearchNext]_vars => Showing'
<1> SUFFICES ASSUME Types, Loop, Showing, [SearchNext]_vars
             PROVE  Showing'
  BY DEF Going
<1>1. CASE AddClause \/ Parsed
  BY <1>1 DEF AddClause, Parsed, Showing
<1>2. CASE ReduceTerms \/ SearchClause \/ NoClause
  BY <1>2 DEF ReduceTerms, SearchClause, NoClause, Reduce, Showing
<1>3. CASE ReduceDocs \/ ReducePositions
  BY <1>3 DEF ReduceDocs, ReducePositions, Reduce, Showing
<1>4. CASE FilterPositions \/ Filtered
  BY <1>4 DEF FilterPositions, Filtered, Showing
<1>5. CASE MergeLists
  BY <1>5 DEF MergeLists, Showing
<1>6. CASE MergeSteps \/ UNCHANGED vars
  BY <1>6 DEF MergeSteps, vars, searchVars, Showing
<1>7. CASE MergeIsEmpty \/ MergeFirstList \/ Reduced
  BY <1>7 DEF MergeIsEmpty, MergeFirstList, Reduced, Showing
<1>8. CASE MergeReturns
  BY <1>8 DEF MergeReturns, NextList, Showing
<1>9. CASE GetSearchResult
  BY <1>9 DEF GetSearchResult, Showing
<1> QED
  BY <1>1, <1>2, <1>3, <1>4, <1>5, <1>6, <1>7, <1>8, <1>9 DEF SearchNext

\* So what is shown belongs to the result, all the time.
LEMMA SearchShows == SearchSpec => [](Going /\ Showing)
<1>1. SearchSpec => SearchInit /\ [][SearchNext]_vars
  BY PTL DEF SearchSpec, vars
<1>2. SearchInit => Showing
  BY DEF SearchInit, Showing
<1>3. Going /\ Showing /\ [SearchNext]_vars => Showing'
  BY StepShows
<1> QED
  BY <1>1, <1>2, <1>3, SearchMerges, PTL

\* The state of a search has its type; what is shown is part of the result.
THEOREM SearchTypes == SearchSpec => []SearchTypeOK
<1>1. Going /\ Showing => SearchTypeOK
  <2> SUFFICES ASSUME Types, Showing PROVE SearchTypeOK
    BY DEF Going
  <2>1. shown \subseteq entries
    <3>1. CASE stage = "shown"
      <4>1. entries \in SUBSET Place
        BY DEF Types
      <4>2. Results(mode, entries) \in SUBSET entries
        BY <4>1, ResultsAreEntries
      <4> QED
        BY <3>1, <4>2 DEF Showing
    <3>2. CASE stage # "shown"
      BY <3>2 DEF Showing
    <3> QED
      BY <3>1, <3>2
  <2> QED
    BY <2>1 DEF Types, SearchTypeOK
<1> QED
  BY <1>1, SearchShows, PTL

\* A search by document or by page shows each document or page of its result
\* exactly once, for every result.
THEOREM ResultsAreShownOnce == SearchSpec => []EachShownOnce
<1>1. Going /\ Showing => EachShownOnce
  <2> SUFFICES ASSUME Types, Showing, stage = "shown" PROVE EachShownOnce
    BY DEF Going, EachShownOnce
  <2>1. entries \in SUBSET Place /\ shown = Results(mode, entries)
    BY DEF Types, Showing
  <2>2. ASSUME NEW e \in entries, mode \in {"document", "page"}
        PROVE  Cardinality({r \in shown : Same(mode, r, e)}) = 1
    BY <2>1, <2>2, ResultsShowOnce
  <2>3. ASSUME NEW e \in entries, mode = "document"
        PROVE  Cardinality({r \in shown : r.doc = e.doc}) = 1
    <3>1. {r \in shown : r.doc = e.doc} = {r \in shown : Same(mode, r, e)}
      BY <2>3 DEF Same
    <3> QED
      BY <2>2, <2>3, <3>1
  <2>4. ASSUME NEW e \in entries, mode = "page"
        PROVE  Cardinality({r \in shown : SamePage(r, e)}) = 1
    <3>1. {r \in shown : SamePage(r, e)} = {r \in shown : Same(mode, r, e)}
      BY <2>4 DEF Same
    <3> QED
      BY <2>2, <2>4, <3>1
  <2> QED
    BY <2>3, <2>4 DEF EachShownOnce
<1> QED
  BY <1>1, SearchShows, PTL

\* A page that a result is shown on has all its results highlighted and nothing
\* else, for every result.
THEOREM HighlightsHitResults == SearchSpec => []HighlightsAreHits
<1>1. Going /\ Showing => HighlightsAreHits
  <2> SUFFICES ASSUME Types, Showing, stage = "shown", NEW e \in shown
               PROVE  Highlights(entries, e.doc, e.pge) =
                          {h.pos : h \in {g \in entries : SamePage(g, e)}}
    BY DEF Going, HighlightsAreHits
  <2>1. entries \in SUBSET Place /\ shown = Results(mode, entries)
    BY DEF Types, Showing
  <2>2. e \in Place
    BY <2>1, ResultsAreEntries
  <2>3. e.doc \in Nat /\ e.pge \in Nat
    BY <2>2, PlaceAssumption
  <2>4. Highlights(entries, e.doc, e.pge)
            = {h.pos : h \in {g \in entries : g.doc = e.doc /\ g.pge = e.pge}}
    BY <2>1, <2>3, HighlightsHit
  <2> QED
    BY <2>4 DEF SamePage
<1> QED
  BY <1>1, SearchShows, PTL
=============================================================================
