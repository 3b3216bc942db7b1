---------------------------- MODULE MCSearching ----------------------------
(***************************************************************************)
(* A document of two pages, with a note on the first, and a second         *)
(* document of one word: queries of two and three words.                   *)
(***************************************************************************)
EXTENDS Searching

Entry(doc, pge, pos) == [doc |-> doc, pge |-> pge, pos |-> pos]
Note == Entry(1, 1, 8)
Other == Entry(2, 1, 1)
MCPlace == {Entry(1, 1, 1), Entry(1, 1, 2), Entry(1, 2, 3), Note, Other}

\* A word of a phrase, a criterion, and a word of a boolean query.
Plain(on) == [conj |-> "none", mods |-> "none", kept |-> TRUE, on |-> on]
Joined(conj, mods) == [conj |-> conj, mods |-> mods, kept |-> TRUE, on |-> "pos"]
Lost == [conj |-> "and", mods |-> "none", kept |-> FALSE, on |-> "pos"]

Of(kind, slop, words) == [kind |-> kind, slop |-> slop, words |-> words]

Phrases == {Of("phrase", slop, [i \in 1 .. n |-> Plain("pos")]) : slop \in {0, 2}, n \in 2 .. 3}
Crits2And3 == UNION {{Of("crits", 0, f) : f \in [1 .. n -> {Plain("doc"), Plain("pos")}]} : n \in 2 .. 3}

\* The first word may have a modifier; a word may be lost.
Booleans ==
    LET Next2 == {Joined(c, m) : c \in {"none", "and", "or"}, m \in {"none", "req", "not"}}
        Next3 == {Joined("and", "none"), Joined("or", "none"), Joined("and", "not")}
    IN  {Of("boolean", 0, <<Joined("none", m), v, w>>) :
            m \in {"none", "req", "not"}, v \in Next2 \cup {Lost}, w \in Next3}
        \cup {Of("boolean", 0, <<Lost, Joined("and", "none"), Joined("and", "req")>>)}

\* a AND b AND c
ThreeRequired == {Of("boolean", 0, <<Joined("none", "none"), Joined("and", "none"), Joined("and", "none")>>)}

MCQuery == Phrases \cup Crits2And3 \cup Booleans

\* Two terms of a phrase are found anywhere, three at one or two places,
\* words of a boolean query twice on one page or on another one, and criteria
\* in two documents.
MCLists == [q \in MCQuery |->
    IF q.kind = "boolean" THEN SUBSET {Entry(1, 1, 1), Entry(1, 2, 3)} \cup {{Entry(1, 1, 2)}}
    ELSE IF q.kind = "crits" THEN SUBSET {Entry(1, 1, 1), Entry(1, 2, 3), Other}
    ELSE IF Len(q.words) = 2 THEN SUBSET MCPlace
    ELSE {s \in SUBSET MCPlace : Cardinality(s) \in 1 .. 2}]
=============================================================================
