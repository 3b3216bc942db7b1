----------------------------- MODULE EntryMerge -----------------------------
(***************************************************************************)
(* The merges of the query resolver: two sets of entries, the places of    *)
(* two words, are walked side by side in the order of their entries, and   *)
(* what does not meet anything in the other set is erased.  What it means  *)
(* to meet is the merge's own: to be the same entry ("and"), in the same   *)
(* document ("doc"), on the same page ("page"), or in the same document    *)
(* with the second place at most Window positions after the first          *)
(* ("phrase"), or at most that far away from it ("near").                  *)
(*                                                                         *)
(* An iterator is the set of the entries it has not passed: it stands on   *)
(* the least of them.  The entries are ordered by document, page and       *)
(* position, and a merge within a document looks at positions alone, which *)
(* do not grow from page to page when there are notes: these have          *)
(* positions of their own, far above those of the text.                    *)
(***************************************************************************)
EXTENDS Naturals, FiniteSets

CONSTANTS
    Place,      \* entries
    Window,     \* distances
    NoPlace     \* no entry

ASSUME PlaceAssumption == /\ Place \subseteq [doc : Nat, pge : Nat, pos : Nat]
                          /\ NoPlace \notin Place
ASSUME WindowAssumption == Window \subseteq Nat

Merges == {"and", "doc", "page", "phrase", "near"}

VARIABLES
    op,             \* the merge
    window,         \* its window
    first, second,  \* history: the sets it was called with
    set1, set2,     \* the sets, without what was erased
    rest1, rest2,   \* the entries the iterators have not passed
    at1, at2,       \* two entries that met: e1 and e2
    pc

mergeVars == <<op, window, first, second, set1, set2, rest1, rest2, at1, at2, pc>>

-----------------------------------------------------------------------------
Less(a, b) == \/ a.doc < b.doc
              \/ a.doc = b.doc /\ a.pge < b.pge
              \/ a.doc = b.doc /\ a.pge = b.pge /\ a.pos < b.pos

SamePage(a, b) == a.doc = b.doc /\ a.pge = b.pge

\* The iterator stands on e.
StandsOn(e, rest) == e \in rest /\ \A f \in rest : ~ Less(f, e)

\* Mutant: the entry that is just within the window is behind.
FirstIsBehind_OffByOne(o, w, a, b) ==
    \/ o = "and"  /\ Less(a, b)
    \/ o = "doc"  /\ a.doc < b.doc
    \/ o = "page" /\ ~ SamePage(a, b) /\ Less(a, b)
    \/ o \in {"phrase", "near"} /\ a.doc # b.doc /\ Less(a, b)
    \/ o \in {"phrase", "near"} /\ a.doc = b.doc /\ a.pos + w <= b.pos

\* An entry of the first set, and one of the second, that is erased or
\* skipped when it is compared with one of the other set.
FirstIsBehind(o, w, a, b) ==
    \/ o = "and"  /\ Less(a, b)
    \/ o = "doc"  /\ a.doc < b.doc
    \/ o = "page" /\ ~ SamePage(a, b) /\ Less(a, b)
    \/ o \in {"phrase", "near"} /\ a.doc # b.doc /\ Less(a, b)
    \/ o \in {"phrase", "near"} /\ a.doc = b.doc /\ a.pos + w < b.pos

\* Mutant: the words of a phrase come in any order.
SecondIsBehind_Either(o, w, a, b) ==
    \/ o = "and"  /\ Less(b, a)
    \/ o = "doc"  /\ b.doc < a.doc
    \/ o = "page" /\ ~ SamePage(a, b) /\ Less(b, a)
    \/ o \in {"phrase", "near"} /\ a.doc # b.doc /\ Less(b, a)
    \/ o \in {"phrase", "near"} /\ a.doc = b.doc /\ b.pos + w < a.pos

SecondIsBehind(o, w, a, b) ==
    \/ o = "and"  /\ Less(b, a)
    \/ o = "doc"  /\ b.doc < a.doc
    \/ o = "page" /\ ~ SamePage(a, b) /\ Less(b, a)
    \/ o \in {"phrase", "near"} /\ a.doc # b.doc /\ Less(b, a)
    \/ o = "phrase" /\ a.doc = b.doc /\ b.pos < a.pos
    \/ o = "near"   /\ a.doc = b.doc /\ b.pos + w < a.pos

Meet(o, w, a, b) == ~ FirstIsBehind(o, w, a, b) /\ ~ SecondIsBehind(o, w, a, b)

\* The merges that reduce both sets: these skip all that meets e1 or e2 once
\* two entries have met.
ReducesBoth(o) == o \in {"page", "phrase", "near"}

-----------------------------------------------------------------------------
Called(o, w, s, t) ==
    /\ op = o
    /\ window = w
    /\ first = s /\ set1 = s /\ rest1 = s
    /\ second = t /\ set2 = t /\ rest2 = t
    /\ at1 = NoPlace /\ at2 = NoPlace
    /\ pc = "compare"

MergeInit == \E o \in Merges, w \in Window, s, t \in SUBSET Place : Called(o, w, s, t)

\* Mutant: the iterator is left on the entry that was erased.
EraseFirst_Dangling ==
    /\ pc = "compare"
    /\ \E a \in rest1, b \in rest2 :
          /\ StandsOn(a, rest1) /\ StandsOn(b, rest2)
          /\ FirstIsBehind(op, window, a, b)
          /\ set1' = set1 \ {a}
    /\ UNCHANGED <<op, window, first, second, set2, rest1, rest2, at1, at2, pc>>

EraseFirst ==
    /\ pc = "compare"
    /\ \E a \in rest1, b \in rest2 :
          /\ StandsOn(a, rest1) /\ StandsOn(b, rest2)
          /\ FirstIsBehind(op, window, a, b)
          /\ set1' = set1 \ {a}
          /\ rest1' = rest1 \ {a}
    /\ UNCHANGED <<op, window, first, second, set2, rest2, at1, at2, pc>>

\* Mutant: the entry of the first set is erased with it.
PassSecond_Both ==
    /\ pc = "compare"
    /\ \E a \in rest1, b \in rest2 :
          /\ StandsOn(a, rest1) /\ StandsOn(b, rest2)
          /\ SecondIsBehind(op, window, a, b)
          /\ set1' = set1 \ {a}
          /\ rest1' = rest1 \ {a}
          /\ set2' = IF ReducesBoth(op) THEN set2 \ {b} ELSE set2
          /\ rest2' = rest2 \ {b}
    /\ UNCHANGED <<op, window, first, second, at1, at2, pc>>

\* The second set is left alone by the merges that only reduce the first.
PassSecond ==
    /\ pc = "compare"
    /\ \E a \in rest1, b \in rest2 :
          /\ StandsOn(a, rest1) /\ StandsOn(b, rest2)
          /\ SecondIsBehind(op, window, a, b)
          /\ set2' = IF ReducesBoth(op) THEN set2 \ {b} ELSE set2
          /\ rest2' = rest2 \ {b}
    /\ UNCHANGED <<op, window, first, second, set1, rest1, at1, at2, pc>>

MatchBoth ==
    /\ pc = "compare"
    /\ op # "doc"
    /\ \E a \in rest1, b \in rest2 :
          /\ StandsOn(a, rest1) /\ StandsOn(b, rest2)
          /\ Meet(op, window, a, b)
          /\ rest1' = rest1 \ {a}
          /\ rest2' = rest2 \ {b}
          /\ at1' = a
          /\ at2' = b
    /\ pc' = IF ReducesBoth(op) THEN "more1" ELSE "compare"
    /\ UNCHANGED <<op, window, first, second, set1, set2>>

\* Mutant: neither iterator goes on.
MatchDoc_Stays ==
    /\ pc = "compare"
    /\ op = "doc"
    /\ \E a \in rest1, b \in rest2 :
          /\ StandsOn(a, rest1) /\ StandsOn(b, rest2)
          /\ Meet(op, window, a, b)
    /\ UNCHANGED mergeVars

\* The document of the second set may meet further entries of the first.
MatchDoc ==
    /\ pc = "compare"
    /\ op = "doc"
    /\ \E a \in rest1, b \in rest2 :
          /\ StandsOn(a, rest1) /\ StandsOn(b, rest2)
          /\ Meet(op, window, a, b)
          /\ rest1' = rest1 \ {a}
    /\ UNCHANGED <<op, window, first, second, set1, set2, rest2, at1, at2, pc>>

\* Check other matching positions in set 1, then in set 2.
SkipFirst ==
    /\ pc = "more1"
    /\ \E a \in rest1 : /\ StandsOn(a, rest1)
                        /\ Meet(op, window, a, at2)
                        /\ rest1' = rest1 \ {a}
    /\ UNCHANGED <<op, window, first, second, set1, set2, rest2, at1, at2, pc>>

FirstSkipped ==
    /\ pc = "more1"
    /\ \/ rest1 = {}
       \/ \E a \in rest1 : StandsOn(a, rest1) /\ ~ Meet(op, window, a, at2)
    /\ pc' = "more2"
    /\ UNCHANGED <<op, window, first, second, set1, set2, rest1, rest2, at1, at2>>

SkipSecond ==
    /\ pc = "more2"
    /\ \E b \in rest2 : /\ StandsOn(b, rest2)
                        /\ Meet(op, window, at1, b)
                        /\ rest2' = rest2 \ {b}
    /\ UNCHANGED <<op, window, first, second, set1, set2, rest1, at1, at2, pc>>

SecondSkipped ==
    /\ pc = "more2"
    /\ \/ rest2 = {}
       \/ \E b \in rest2 : StandsOn(b, rest2) /\ ~ Meet(op, window, at1, b)
    /\ pc' = "compare"
    /\ UNCHANGED <<op, window, first, second, set1, set2, rest1, rest2, at1, at2>>

\* Mutant: what is left of the second set stays.
EraseRest_KeepsSecond ==
    /\ pc = "compare"
    /\ rest1 = {} \/ rest2 = {}
    /\ set1' = set1 \ rest1
    /\ rest1' = {} /\ rest2' = {}
    /\ pc' = "done"
    /\ UNCHANGED <<op, window, first, second, set2, at1, at2>>

\* Mutant: what is left of the first set stays.
EraseRest_KeepsFirst ==
    /\ pc = "compare"
    /\ rest1 = {} \/ rest2 = {}
    /\ set2' = IF ReducesBoth(op) THEN set2 \ rest2 ELSE set2
    /\ rest1' = {} /\ rest2' = {}
    /\ pc' = "done"
    /\ UNCHANGED <<op, window, first, second, set1, at1, at2>>

\* Anything left was not met, so it is erased.
EraseRest ==
    /\ pc = "compare"
    /\ rest1 = {} \/ rest2 = {}
    /\ set1' = set1 \ rest1
    /\ set2' = IF ReducesBoth(op) THEN set2 \ rest2 ELSE set2
    /\ rest1' = {} /\ rest2' = {}
    /\ pc' = "done"
    /\ UNCHANGED <<op, window, first, second, at1, at2>>

MergeNext == \/ EraseFirst \/ PassSecond \/ MatchBoth \/ MatchDoc
             \/ SkipFirst \/ FirstSkipped \/ SkipSecond \/ SecondSkipped
             \/ EraseRest

MergeSpec == MergeInit /\ [][MergeNext]_mergeVars

-----------------------------------------------------------------------------
(***************************************************************************)
(* Properties                                                              *)
(***************************************************************************)
MergeTypeOK ==
    /\ op \in Merges
    /\ window \in Window
    /\ first \subseteq Place /\ rest1 \subseteq set1 /\ set1 \subseteq first
    /\ second \subseteq Place /\ rest2 \subseteq set2 /\ set2 \subseteq second
    /\ at1 \in Place \cup {NoPlace} /\ at2 \in Place \cup {NoPlace}
    /\ pc \in {"compare", "more1", "more2", "done"}

Meeting(s, t) == {a \in s : \E b \in t : Meet(op, window, a, b)}
Met(s, t) == {b \in t : \E a \in s : Meet(op, window, a, b)}

\* The merges by entry, by document and by page keep exactly what meets an
\* entry of the other set, however the two walks run past each other.
ResultIsExact ==
    pc = "done" /\ op \in {"and", "doc", "page"} =>
        /\ set1 = Meeting(first, second)
        /\ op = "page" => set2 = Met(first, second)

\* A phrase or a near merge keeps no entry without a partner that it keeps.
ResultIsSound ==
    pc = "done" /\ ReducesBoth(op) =>
        set1 = Meeting(set1, set2) /\ set2 = Met(set1, set2)

\* In document d the positions grow with the pages.
InReadingOrder(d) ==
    \A a, b \in first \cup second :
        a.doc = d /\ b.doc = d /\ Less(a, b) => a.pos <= b.pos

\* A phrase or a near merge finds every document that has two places that
\* meet, if its positions are in reading order: it may pass over other pairs
\* of places in the document, but not over all of them.
OrderedDocumentsAreFound ==
    pc = "done" /\ op \in {"phrase", "near"} =>
        \A a \in first, b \in second :
            a.doc = b.doc /\ Meet(op, window, a, b) /\ InReadingOrder(a.doc) =>
                \E c \in set1, e \in set2 : c.doc = a.doc /\ e.doc = a.doc
=============================================================================
