----------------------------- MODULE Searching -----------------------------
(***************************************************************************)
(* Answering a query: the lists of entries of its terms are reduced to one *)
(* by merges of two lists (module EntryMerge), one after the other, and    *)
(* the entries that remain are shown as results.                           *)
(*                                                                         *)
(* A query is one node of the query tree, with the entries its subqueries  *)
(* found: a phrase or a proximity search of terms, a boolean query of      *)
(* clauses, or the criteria of a search record, of which those on          *)
(* documents filter those on positions.  The parser gives the clauses of a *)
(* boolean query their flags; how it cuts a string in words is not         *)
(* described, and a term, a prefix or a wildcard is a list of entries.     *)
(***************************************************************************)
EXTENDS EntryMerge, Sequences, SequencesExt

CONSTANTS
    Query,      \* the queries
    Lists,      \* Lists[q]: the lists of entries a term of q may have
    Modes       \* what counts as one result: "place", "page", "document"

(***************************************************************************)
(* The words of a query: of a boolean query, with what joins a word to the *)
(* one before it, its modifier, and whether the analyzer left anything of  *)
(* it; of a search record, what the criterion is on.  What else they say   *)
(* means nothing.  A phrase with a slop is a proximity search.             *)
(***************************************************************************)
Word == [conj : {"none", "and", "or"}, mods : {"none", "req", "not"}, kept : BOOLEAN,
         on : {"doc", "pos"}]

ASSUME QueryAssumption ==
    /\ Query \subseteq [kind : {"phrase", "boolean", "crits"}, slop : Window \cup {0},
                        words : Seq(Word)]
    /\ \A q \in Query : /\ q.words # <<>> /\ 1 .. Len(q.words) \subseteq Window
                        /\ Lists[q] \subseteq SUBSET Place
ASSUME PlacesAssumption == IsFiniteSet(Place)
ASSUME ModesAssumption == Modes \subseteq {"place", "page", "document"}

VARIABLES
    query,      \* the query
    found,      \* the list of entries of each word
    clauses,    \* the clauses of the boolean query
    clause,     \* the next word, clause or criterion
    lists,      \* inVector: the lists to reduce
    docs,       \* docList: the lists of the criteria on documents
    at,         \* *it: the list that comes next
    pl,         \* pl: the list it is merged with
    distance,   \* inWindow
    reducer,    \* the function at work: "AndPage", "Phrase", "Near", "And"
    stage,
    entries,    \* entrySet: the result
    mode,       \* what the caller counts as one result
    shown       \* the results the caller gets

searchVars == <<query, found, clauses, clause, lists, docs, at, pl, distance, reducer, stage, entries,
                mode, shown>>

Stages == {"parse", "clauses", "reduce", "merge", "mergeFirst", "filter", "found", "shown"}

-----------------------------------------------------------------------------
SearchInit ==
    /\ query \in Query
    /\ found \in [DOMAIN query.words -> Lists[query]]
    /\ clauses = <<>> /\ clause = 1 /\ lists = <<>> /\ docs = <<>>
    /\ at = 1 /\ pl = 1 /\ distance = 1 /\ reducer = "none"
    /\ stage = IF query.kind = "boolean" THEN "parse" ELSE "clauses"
    /\ entries = {} /\ mode = "none" /\ shown = {}
    /\ Called("and", 1, {}, {})

\* A merge is called with two of the lists.
Merge(o, w, i, j) ==
    /\ op' = o /\ window' = w
    /\ first' = lists[i] /\ set1' = lists[i] /\ rest1' = lists[i]
    /\ second' = lists[j] /\ set2' = lists[j] /\ rest2' = lists[j]
    /\ at1' = NoPlace /\ at2' = NoPlace
    /\ pc' = "compare"

Reduce(name) == /\ reducer' = name
                /\ at' = 2 /\ pl' = 1 /\ distance' = 1
                /\ stage' = "reduce"

All == UNION ToSet(lists)

(***************************************************************************)
(* PhraseQuery::Search: the lists of all terms are reduced at once.        *)
(***************************************************************************)
ReduceTerms ==
    /\ stage = "clauses"
    /\ query.kind = "phrase"
    /\ lists' = found
    /\ Reduce(IF query.slop > 0 THEN "Near" ELSE "Phrase")
    /\ UNCHANGED <<query, found, clauses, clause, docs, entries, mode, shown>>
    /\ UNCHANGED mergeVars

(***************************************************************************)
(* QueryParserBase::AddClause: a word that AND introduces is required, and *)
(* so is the one before it.  A word of which the analyzer leaves nothing   *)
(* is no clause, and what joins it has no effect.                          *)
(***************************************************************************)
AddClause ==
    /\ stage = "parse"
    /\ clause <= Len(query.words)
    /\ clause' = clause + 1
    /\ LET w == query.words[clause]
           n == Len(clauses)
           joined == clause > 1 /\ w.conj = "and"
           before == [i \in 1 .. n |->
                         IF i = n /\ joined /\ ~ clauses[n].prohibited
                         THEN [clauses[n] EXCEPT !.required = TRUE] ELSE clauses[i]]
           new == [list |-> found[clause],
                   required |-> w.mods = "req" \/ (joined /\ w.mods # "not"),
                   prohibited |-> w.mods = "not"]
       IN  \/ w.kept /\ clauses' = Append(before, new)
           \/ ~ w.kept /\ UNCHANGED clauses
    /\ UNCHANGED <<query, found, lists, docs, at, pl, distance, reducer, stage, entries, mode, shown>>
    /\ UNCHANGED mergeVars

Parsed ==
    /\ stage = "parse"
    /\ clause > Len(query.words)
    /\ clause' = 1
    /\ stage' = "clauses"
    /\ UNCHANGED <<query, found, clauses, lists, docs, at, pl, distance, reducer, entries, mode, shown>>
    /\ UNCHANGED mergeVars

\* Mutant: the required clauses keep the entries they all have.
SearchClause_SameEntries ==
    /\ stage = "clauses"
    /\ query.kind = "boolean"
    /\ clause <= Len(clauses)
    /\ clause' = clause + 1
    /\ LET c == clauses[clause]
           next == Append(lists, c.list)
       IN  \/ /\ Len(next) = 1
              /\ lists' = next /\ entries' = next[1]
              /\ UNCHANGED <<at, pl, distance, reducer, stage>>
           \/ /\ Len(next) > 1 /\ c.required
              /\ lists' = next
              /\ Reduce("And")
              /\ UNCHANGED entries
           \/ /\ Len(next) > 1 /\ ~ c.required /\ c.prohibited
              /\ lists' = <<>> /\ entries' = {}
              /\ UNCHANGED <<at, pl, distance, reducer, stage>>
           \/ /\ Len(next) > 1 /\ ~ c.required /\ ~ c.prohibited
              /\ lists' = <<next[1] \cup next[2]>> /\ entries' = next[1] \cup next[2]
              /\ UNCHANGED <<at, pl, distance, reducer, stage>>
    /\ UNCHANGED <<query, found, clauses, docs, mode, shown>>
    /\ UNCHANGED mergeVars

(***************************************************************************)
(* BooleanQuery::Search: each clause's list is reduced with what is left   *)
(* of the clauses before it, in the way its own flag says.                 *)
(***************************************************************************)
SearchClause ==
    /\ stage = "clauses"
    /\ query.kind = "boolean"
    /\ clause <= Len(clauses)
    /\ clause' = clause + 1
    /\ LET c == clauses[clause]
           next == Append(lists, c.list)
       IN  \/ /\ Len(next) = 1
              /\ lists' = next /\ entries' = next[1]
              /\ UNCHANGED <<at, pl, distance, reducer, stage>>
           \/ /\ Len(next) > 1 /\ c.required
              /\ lists' = next
              /\ Reduce("AndPage")
              /\ UNCHANGED entries
           \/ /\ Len(next) > 1 /\ ~ c.required /\ c.prohibited
              /\ lists' = <<>> /\ entries' = {}
              /\ UNCHANGED <<at, pl, distance, reducer, stage>>
           \/ /\ Len(next) > 1 /\ ~ c.required /\ ~ c.prohibited
              /\ lists' = <<next[1] \cup next[2]>> /\ entries' = next[1] \cup next[2]
              /\ UNCHANGED <<at, pl, distance, reducer, stage>>
    /\ UNCHANGED <<query, found, clauses, docs, mode, shown>>
    /\ UNCHANGED mergeVars

NoClause ==
    /\ stage = "clauses"
    /\ query.kind = "boolean"
    /\ clause > Len(clauses)
    /\ stage' = "found"
    /\ UNCHANGED <<query, found, clauses, clause, lists, docs, at, pl, distance, reducer, entries, mode, shown>>
    /\ UNCHANGED mergeVars

(***************************************************************************)
(* EngineApiComputeCrit: the criteria on documents are reduced to their    *)
(* common entries, then those on positions, and the second filtered by     *)
(* the first.                                                              *)
(***************************************************************************)
Crits(on) == LET is == {i \in DOMAIN found : query.words[i].on = on}
             IN  [k \in 1 .. Cardinality(is) |->
                     found[CHOOSE i \in is : Cardinality({j \in is : j < i}) = k - 1]]

ReduceDocs ==
    /\ stage = "clauses"
    /\ query.kind = "crits"
    /\ clause = 1
    /\ clause' = 2
    /\ \/ /\ Crits("doc") # <<>>
          /\ lists' = Crits("doc")
          /\ Reduce("And")
       \/ /\ Crits("doc") = <<>>
          /\ UNCHANGED <<lists, at, pl, distance, reducer, stage>>
    /\ UNCHANGED <<query, found, clauses, docs, entries, mode, shown>>
    /\ UNCHANGED mergeVars

ReducePositions ==
    /\ stage = "clauses"
    /\ query.kind = "crits"
    /\ clause = 2
    /\ clause' = 3
    /\ docs' = lists
    /\ \/ /\ Crits("pos") # <<>>
          /\ lists' = Crits("pos")
          /\ Reduce("And")
       \/ /\ Crits("pos") = <<>>
          /\ lists' = <<>>
          /\ UNCHANGED <<at, pl, distance, reducer, stage>>
    /\ UNCHANGED <<query, found, clauses, entries, mode, shown>>
    /\ UNCHANGED mergeVars

\* Mutant: the documents are filtered by the positions.
FilterPositions_Swapped ==
    /\ stage = "clauses"
    /\ query.kind = "crits"
    /\ clause = 3
    /\ \/ /\ docs # <<>> /\ lists # <<>>
          /\ op' = "doc" /\ window' = 1
          /\ first' = docs[1] /\ set1' = docs[1] /\ rest1' = docs[1]
          /\ second' = lists[1] /\ set2' = lists[1] /\ rest2' = lists[1]
          /\ at1' = NoPlace /\ at2' = NoPlace /\ pc' = "compare"
          /\ stage' = "filter"
          /\ UNCHANGED entries
       \/ /\ docs = <<>> \/ lists = <<>>
          /\ entries' = IF docs # <<>> THEN docs[1] ELSE lists[1]
          /\ stage' = "found"
          /\ UNCHANGED mergeVars
    /\ UNCHANGED <<query, found, clauses, clause, lists, docs, at, pl, distance, reducer, mode, shown>>

FilterPositions ==
    /\ stage = "clauses"
    /\ query.kind = "crits"
    /\ clause = 3
    /\ \/ /\ docs # <<>> /\ lists # <<>>
          /\ op' = "doc" /\ window' = 1
          /\ first' = lists[1] /\ set1' = lists[1] /\ rest1' = lists[1]
          /\ second' = docs[1] /\ set2' = docs[1] /\ rest2' = docs[1]
          /\ at1' = NoPlace /\ at2' = NoPlace /\ pc' = "compare"
          /\ stage' = "filter"
          /\ UNCHANGED entries
       \/ /\ docs = <<>> \/ lists = <<>>
          /\ entries' = IF docs # <<>> THEN docs[1] ELSE lists[1]
          /\ stage' = "found"
          /\ UNCHANGED mergeVars
    /\ UNCHANGED <<query, found, clauses, clause, lists, docs, at, pl, distance, reducer, mode, shown>>

Filtered ==
    /\ stage = "filter"
    /\ pc = "done"
    /\ entries' = set1
    /\ stage' = "found"
    /\ UNCHANGED <<query, found, clauses, clause, lists, docs, at, pl, distance, reducer, mode, shown>>
    /\ UNCHANGED mergeVars

-----------------------------------------------------------------------------
(***************************************************************************)
(* The functions that reduce the lists, a merge at a time.                 *)
(***************************************************************************)
MergeLists ==
    /\ stage = "reduce"
    /\ at <= Len(lists)
    /\ \/ reducer = "AndPage" /\ Merge("page", 1, pl, at)
       \/ reducer = "Phrase"  /\ Merge("phrase", 1, pl, at)
       \/ reducer = "Near"    /\ Merge("near", query.slop, pl, at)
       \/ reducer = "And"     /\ Merge("and", 1, pl, at)
    /\ stage' = "merge"
    /\ UNCHANGED <<query, found, clauses, clause, lists, docs, at, pl, distance, reducer, entries, mode, shown>>

MergeSteps ==
    /\ stage \in {"merge", "mergeFirst", "filter"}
    /\ MergeNext
    /\ UNCHANGED searchVars

\* What the merge left: the first list also takes in the list that was
\* merged, which is the one the next list is merged with.
Merged(ls, i) == [ls EXCEPT ![i] = set1, ![at] = set2]
Collected(ls) == [ls EXCEPT ![1] = @ \cup ls[at]]

NextList(ls) == /\ lists' = ls
                /\ at' = at + 1 /\ distance' = distance + 1
                /\ stage' = "reduce"

\* An empty list ends the reduction: all lists are deleted.
MergeIsEmpty ==
    /\ stage = "merge" /\ pc = "done"
    /\ reducer # "And"
    /\ set2 = {}
    /\ lists' = <<>> /\ entries' = {}
    /\ stage' = IF query.kind = "boolean" THEN "clauses" ELSE "found"
    /\ UNCHANGED <<query, found, clauses, clause, docs, at, pl, distance, reducer, mode, shown>>
    /\ UNCHANGED mergeVars

\* The lists before the last one were collected in the first: it is merged too.
MergeFirstList ==
    /\ stage = "merge" /\ pc = "done"
    /\ reducer \in {"Phrase", "Near"} /\ set2 # {} /\ pl # 1
    /\ LET ls == Merged(lists, pl)
       IN  /\ lists' = ls
           /\ op' = op
           /\ window' = IF reducer = "Phrase" THEN distance ELSE query.slop
           /\ first' = ls[1] /\ set1' = ls[1] /\ rest1' = ls[1]
           /\ second' = ls[at] /\ set2' = ls[at] /\ rest2' = ls[at]
           /\ at1' = NoPlace /\ at2' = NoPlace /\ pc' = "compare"
    /\ stage' = "mergeFirst"
    /\ UNCHANGED <<query, found, clauses, clause, docs, at, pl, distance, reducer, entries, mode, shown>>

MergeReturns ==
    /\ pc = "done"
    /\ \/ /\ stage = "merge" /\ reducer = "And"
          /\ NextList(Merged(lists, pl))
          /\ UNCHANGED pl
       \/ /\ stage = "merge" /\ reducer = "AndPage" /\ set2 # {}
          /\ NextList(Collected(Merged(lists, pl)))
          /\ pl' = at
       \/ /\ stage = "merge" /\ reducer \in {"Phrase", "Near"} /\ set2 # {} /\ pl = 1
          /\ NextList(Collected(Merged(lists, pl)))
          /\ pl' = at
       \/ /\ stage = "mergeFirst"
          /\ NextList(Collected(Merged(lists, 1)))
          /\ pl' = at
    /\ UNCHANGED <<query, found, clauses, clause, docs, reducer, entries, mode, shown>>
    /\ UNCHANGED mergeVars

\* Only the first list of a phrase is its result: the others are deleted.
Reduced ==
    /\ stage = "reduce"
    /\ at > Len(lists)
    /\ \/ /\ reducer = "Phrase"
          /\ entries' = lists[1] /\ lists' = <<>>
       \/ /\ reducer \in {"AndPage", "Near"}
          /\ entries' = All /\ lists' = <<All>>
       \/ /\ reducer = "And"
          /\ entries' = lists[1] /\ lists' = <<lists[1]>>
    /\ stage' = IF query.kind \in {"boolean", "crits"} THEN "clauses" ELSE "found"
    /\ UNCHANGED <<query, found, clauses, clause, docs, at, pl, distance, reducer, mode, shown>>
    /\ UNCHANGED mergeVars

-----------------------------------------------------------------------------
\* Mutant: pages of the same number are one page.
Follows_AnyDocument(by, last, e) ==
    \/ by = "document" /\ e.doc = last.doc
    \/ by = "page"     /\ e.pge = last.pge
    \/ by = "place"    /\ e.doc = last.doc /\ e.pos = last.pos + 1

(***************************************************************************)
(* EngineApiGetSearchResult: the entries that are shown.  An entry that    *)
(* follows the last one that was shown is not.                             *)
(***************************************************************************)
Follows(by, last, e) ==
    \/ by = "document" /\ e.doc = last.doc
    \/ by = "page"     /\ SamePage(e, last)
    \/ by = "place"    /\ e.doc = last.doc /\ e.pos = last.pos + 1

InOrder(s) == [i \in 1 .. Cardinality(s) |->
                  CHOOSE e \in s : Cardinality({f \in s : Less(f, e)}) = i - 1]

Results(by, s) ==
    LET Show(seq, e) == IF seq # <<>> /\ Follows(by, Last(seq), e) THEN seq ELSE Append(seq, e)
    IN  ToSet(FoldLeft(Show, <<>>, InOrder(s)))

(***************************************************************************)
(* XmlReqDoc: highlighting the page p of the document d with the result.   *)
(* Its entries are walked in their order, those before the page are        *)
(* stepped over, the first one after it ends the walk.                     *)
(***************************************************************************)
\* Mutant: the end is looked for before the entry is stepped over.
Walked_EndFirst(w, e, d, p) ==
    IF w.ended \/ e.doc > d \/ e.pge > p THEN [w EXCEPT !.ended = TRUE]
    ELSE IF e.doc < d \/ e.pge < p THEN w
    ELSE [w EXCEPT !.marks = @ \cup {e.pos}]

Walked(w, e, d, p) ==
    IF w.ended \/ e.doc < d \/ e.pge < p THEN w
    ELSE IF e.doc > d \/ e.pge > p THEN [w EXCEPT !.ended = TRUE]
    ELSE [w EXCEPT !.marks = @ \cup {e.pos}]

Highlights(s, d, p) ==
    FoldLeft(LAMBDA w, e : Walked(w, e, d, p), [marks |-> {}, ended |-> FALSE], InOrder(s)).marks

\* Mutant: the entries of the first term are shown.
GetSearchResult_FirstTerm ==
    /\ stage = "found"
    /\ mode' \in Modes
    /\ shown' = Results(mode', found[1])
    /\ stage' = "shown"
    /\ UNCHANGED <<query, found, clauses, clause, lists, docs, at, pl, distance, reducer, entries>>
    /\ UNCHANGED mergeVars

GetSearchResult ==
    /\ stage = "found"
    /\ mode' \in Modes
    /\ shown' = Results(mode', entries)
    /\ stage' = "shown"
    /\ UNCHANGED <<query, found, clauses, clause, lists, docs, at, pl, distance, reducer, entries>>
    /\ UNCHANGED mergeVars

SearchNext ==
    \/ AddClause \/ Parsed
    \/ ReduceTerms \/ SearchClause \/ NoClause
    \/ ReduceDocs \/ ReducePositions \/ FilterPositions \/ Filtered
    \/ MergeLists \/ MergeSteps
    \/ MergeIsEmpty \/ MergeFirstList \/ MergeReturns \/ Reduced
    \/ GetSearchResult

\* The search runs in one thread to its end.
SearchSpec == /\ SearchInit /\ [][SearchNext]_<<searchVars, mergeVars>>
              /\ WF_<<searchVars, mergeVars>>(SearchNext)

-----------------------------------------------------------------------------
(***************************************************************************)
(* Properties                                                              *)
(***************************************************************************)
SearchTypeOK ==
    /\ query \in Query
    /\ found \in [DOMAIN query.words -> Lists[query]]
    /\ clauses \in Seq([list : SUBSET Place, required : BOOLEAN, prohibited : BOOLEAN])
    /\ clause \in 1 .. Len(found) + 3
    /\ lists \in Seq(SUBSET Place) /\ docs \in Seq(SUBSET Place)
    /\ pl \in 1 .. at /\ at \in 1 .. Len(found) + 1
    /\ distance \in 1 .. Len(found) + 1
    /\ reducer \in {"none", "AndPage", "Phrase", "Near", "And"}
    /\ stage \in Stages
    /\ mode \in Modes \cup {"none"}
    /\ entries \subseteq Place /\ shown \subseteq entries

Answered == stage \in {"found", "shown"}
Terms == DOMAIN found
\* In document d every term has a place, each at Near(a, b) to the next.
Chain(d, Near(_, _)) ==
    \E f \in [Terms -> {p \in Place : p.doc = d}] :
        /\ \A i \in Terms : f[i] \in found[i]
        /\ \A i \in Terms : i + 1 \in Terms => Near(f[i], f[i + 1])

\* A document a phrase or a proximity search finds has places of all terms,
\* each within the distance of the next: the merges of two lists at a time
\* add up to the search, although each only looks at a pair of terms.  Four
\* terms are too many for a proximity search: the second list is never merged
\* with the fourth.
PhrasesAreSound ==
    Answered /\ query.kind = "phrase" /\ (query.slop > 0 => Len(found) < 4) =>
        LET Near(a, b) == IF query.slop > 0
                          THEN a.pos <= b.pos + query.slop /\ b.pos <= a.pos + query.slop
                          ELSE b.pos \in a.pos .. a.pos + 1
        IN  \A e \in entries : Chain(e.doc, Near)

\* A phrase of different words that stands in a text is found, whatever else
\* the text has of these words: no merge passes over the only places a later
\* one needs.
PhrasesAreFound ==
    Answered /\ query.kind = "phrase" /\ query.slop = 0
        /\ (\A i, j \in Terms : i # j => found[i] \cap found[j] = {}) =>
        LET places == UNION ToSet(found)
            Follow(a, b) == b.pos = a.pos + 1
            IsText(d) == \A a, b \in places : a.doc = d /\ b.doc = d /\ Less(a, b) => a.pos < b.pos
        IN  \A d \in {p.doc : p \in places} :
                IsText(d) /\ Chain(d, Follow) => \E e \in entries : e.doc = d

\* The pages all words of ws are on.
Pages(ws) == {<<e.doc, e.pge>> : e \in {p \in Place :
                 \A i \in ws : \E f \in found[i] : SamePage(p, f)}}

Kept == {i \in Terms : query.words[i].kept}
AllOn(on) == \A i \in Terms : query.words[i].on = on

\* A query that joins its words by AND, some of which may be lost to the
\* analyzer, finds the entries of the pages that have them all: what the
\* parser makes of the words and what the search makes of the clauses fit
\* together, if there is such a page without the last word.
AndPagesAreExact ==
    Answered /\ query.kind = "boolean" /\ Kept # {}
        /\ (\A i \in Kept : query.words[i].mods # "not" /\ (i > 1 => query.words[i].conj = "and"))
        /\ (Cardinality(Kept) > 2 =>
               Pages({i \in Kept : \E j \in Kept : i < j}) # {}) =>
            entries = {e \in UNION {found[i] : i \in Kept} : <<e.doc, e.pge>> \in Pages(Kept)}

\* A search record finds the entries all its criteria on positions have, in
\* the documents of the entries all its criteria on documents have.
CriteriaAreExact ==
    Answered /\ query.kind = "crits" =>
        LET Common(on) == {e \in Place : \A i \in Terms :
                              query.words[i].on = on => e \in found[i]}
            kept == {d.doc : d \in Common("doc")}
        IN  entries = IF AllOn("doc") THEN Common("doc")
                      ELSE {e \in Common("pos") : AllOn("pos") \/ e.doc \in kept}

\* A search by document or by page shows each document or page of the
\* result exactly once.
EachShownOnce ==
    stage = "shown" =>
        /\ mode = "document" => \A e \in entries : Cardinality({r \in shown : r.doc = e.doc}) = 1
        /\ mode = "page" => \A e \in entries : Cardinality({r \in shown : SamePage(r, e)}) = 1

\* A page a result is shown on has all its results highlighted and nothing
\* else, although the walk compares the pages of different documents.
HighlightsAreHits ==
    stage = "shown" =>
        \A e \in shown :
            Highlights(entries, e.doc, e.pge) = {h.pos : h \in {g \in entries : SamePage(g, e)}}

\* A search comes to its end: no merge compares for ever.
EverySearchEnds == <>(stage = "shown")

\* "required which means that documents which do not match this sub-query
\* will not match the boolean query" (BooleanQuery.hpp:89).
RequiredMeansRequired ==
    Answered /\ query.kind = "boolean" =>
        \A i \in DOMAIN clauses : clauses[i].required =>
            \A e \in entries : \E f \in clauses[i].list : f.doc = e.doc
=============================================================================
