------------------------------ MODULE WordList ------------------------------
(***************************************************************************)
(* Reading an index as a list (EngineApiComputeIndex): its words are       *)
(* numbered from 0 in the order of the keys, and a reader asks for a page  *)
(* of them from a number, or from a word.  A word that the index has not   *)
(* is looked for by dichotomy (DbNdx::GetWordRecNumNear), which gives the  *)
(* number of the first word after it; one pass of its loop is a step.      *)
(*                                                                         *)
(* Words are numbers here, which compare as the collation keys do.  The    *)
(* index changes between two requests, never during one: the engine serves *)
(* a request in one thread, to its end.                                    *)
(***************************************************************************)
EXTENDS Integers, Sequences

CONSTANTS
    Word,       \* words of the index and of the requests
    Size,       \* numbers of words a reader asks for
    MaxLong     \* the greatest unsigned long, and the greatest record number

ASSUME WordAssumption == Word \subseteq Nat
ASSUME LongAssumption == MaxLong \in Nat
ASSUME SizeAssumption == Size \subseteq 0 .. MaxLong

VARIABLES
    words,      \* the words of the index, in order
    pc,         \* what the request is at: "idle", "near" or "list"
    word,       \* the word asked for, if any
    bot, top,   \* GetWordRecNumNear: what is left of the list
    min, nb,    \* the page asked for: number of its first word, of words
    answer,     \* the last page given
    fresh       \* has the index kept its words since

vars == <<words, pc, word, bot, top, min, nb, answer, fresh>>

NoWord == -1

Long == 0 .. MaxLong

\* Arithmetic of unsigned long.
Wrap(n) == n % (MaxLong + 1)

IsList(s) == /\ s \in Seq(Word)
             /\ \A i, j \in 1 .. Len(s) : i < j => s[i] < s[j]

InList(w, s) == \E i \in 1 .. Len(s) : s[i] = w

Answer == [shown : Seq(Word), min : Long, nb : Long]

TypeOK ==
    /\ IsList(words) /\ Len(words) <= MaxLong
    /\ pc \in {"idle", "near", "list"}
    /\ word \in Word \cup {NoWord}
    /\ bot \in Nat /\ top \in Nat
    /\ min \in Long /\ nb \in Long
    /\ answer \in Answer
    /\ fresh \in BOOLEAN

Init ==
    /\ words = << >>
    /\ pc = "idle" /\ word = NoWord
    /\ bot = 0 /\ top = 0 /\ min = 0 /\ nb = 0
    /\ answer = [shown |-> << >>, min |-> 0, nb |-> 0]
    /\ fresh = TRUE

-----------------------------------------------------------------------------
(***************************************************************************)
(* Between two requests a word gets its first entries or loses its last.   *)
(***************************************************************************)
\* s with w at place i.
Inserted(s, i, w) ==
    [j \in 1 .. Len(s) + 1 |-> IF j < i THEN s[j] ELSE IF j = i THEN w ELSE s[j - 1]]
Dropped(s, i) == [j \in 1 .. Len(s) - 1 |-> IF j < i THEN s[j] ELSE s[j + 1]]

AddWord(w) ==
    /\ pc = "idle"
    /\ Len(words) < MaxLong
    /\ \E i \in 1 .. Len(words) + 1 :
            /\ \A j \in 1 .. Len(words) : IF j < i THEN words[j] < w ELSE w < words[j]
            /\ words' = Inserted(words, i, w)
    /\ fresh' = FALSE
    /\ UNCHANGED <<pc, word, bot, top, min, nb, answer>>

DelWord(i) ==
    /\ pc = "idle"
    /\ words' = Dropped(words, i)
    /\ fresh' = FALSE
    /\ UNCHANGED <<pc, word, bot, top, min, nb, answer>>

-----------------------------------------------------------------------------
(***************************************************************************)
(* GetWordRecNum and GetWordRecNumNear.                                    *)
(***************************************************************************)
\* The index has the word: its number is known at once.
AskWord(w, n) ==
    /\ pc = "idle"
    /\ \E i \in 1 .. Len(words) : words[i] = w /\ min' = i - 1
    /\ pc' = "list" /\ word' = w /\ nb' = n
    /\ UNCHANGED <<words, bot, top, answer, fresh>>

\* It has no word at all.
AskWordOfNone(w, n) ==
    /\ pc = "idle"
    /\ words = << >>
    /\ pc' = "list" /\ word' = w /\ nb' = n /\ min' = 0
    /\ UNCHANGED <<words, bot, top, answer, fresh>>

\* It has others: the search starts with the whole list.
AskWordNear(w, n) ==
    /\ pc = "idle"
    /\ words # << >> /\ ~ InList(w, words)
    /\ pc' = "near" /\ word' = w /\ nb' = n
    /\ bot' = 0 /\ top' = Len(words) - 1
    /\ UNCHANGED <<words, min, answer, fresh>>

\* A page by its number.
AskPage(m, n) ==
    /\ pc = "idle"
    /\ pc' = "list" /\ word' = NoWord /\ min' = m /\ nb' = n
    /\ UNCHANGED <<words, bot, top, answer, fresh>>

Middle == (top + bot) \div 2

\* GetWord(n): record numbers start from 1.  A number past the end throws.
WordAt(n) == words[n + 1]

\* Mutant: the middle one stays in what is left.
Above_KeepsMiddle ==
    /\ pc = "near" /\ bot <= top
    /\ WordAt(Middle) < word
    /\ bot' = Middle
    /\ UNCHANGED <<words, pc, word, top, min, nb, answer, fresh>>

\* The word is after the middle one.  It cannot be the middle one, or Berkeley
\* DB, which compares in the same way, would have found it.
Above ==
    /\ pc = "near" /\ bot <= top
    /\ WordAt(Middle) < word
    /\ bot' = Middle + 1
    /\ UNCHANGED <<words, pc, word, top, min, nb, answer, fresh>>

\* Mutant: a place before the first one is written down as any other.
Below_Signed ==
    /\ pc = "near" /\ bot <= top
    /\ word < WordAt(Middle)
    /\ top' = Middle - 1
    /\ UNCHANGED <<words, pc, word, bot, min, nb, answer, fresh>>

\* Mutant: one too many is left out.
Below_SkipsOne ==
    /\ pc = "near" /\ bot <= top
    /\ word < WordAt(Middle)
    /\ Middle # 0
    /\ top' = IF Middle > 1 THEN Middle - 2 ELSE 0
    /\ UNCHANGED <<words, pc, word, bot, min, nb, answer, fresh>>

\* The word is before it.
Below ==
    /\ pc = "near" /\ bot <= top
    /\ word < WordAt(Middle)
    /\ Middle # 0
    /\ top' = Middle - 1
    /\ UNCHANGED <<words, pc, word, bot, min, nb, answer, fresh>>

\* It is before the first one: top, which is unsigned, cannot say so.
BelowAll ==
    /\ pc = "near" /\ bot <= top
    /\ word < WordAt(Middle)
    /\ Middle = 0
    /\ pc' = "list" /\ min' = 0
    /\ UNCHANGED <<words, word, bot, top, nb, answer, fresh>>

\* Mutant: the place of the last word before it.
Near_Before ==
    /\ pc = "near" /\ bot > top
    /\ pc' = "list" /\ min' = Middle
    /\ UNCHANGED <<words, word, bot, top, nb, answer, fresh>>

\* Nothing is left.
Near ==
    /\ pc = "near" /\ bot > top
    /\ pc' = "list" /\ min' = Middle + 1
    /\ UNCHANGED <<words, word, bot, top, nb, answer, fresh>>

-----------------------------------------------------------------------------
(***************************************************************************)
(* GetWordIntList and what EngineApiComputeIndex says of the page.         *)
(***************************************************************************)
\* Mutant: the record is asked for with the number of the page.
First_SameNumber(m) == IF m > 0 THEN m ELSE 1

\* The first word shown: the cursor starts at the first record, or goes to a
\* record by its number, which counts from 1.
First(m) == IF m > 0 THEN m + 1 ELSE 1

\* The words from number m on, n of them if there are as many.
Shown(s, m, n) ==
    SubSeq(s, First(m), IF First(m) + n - 1 < Len(s) THEN First(m) + n - 1 ELSE Len(s))

\* Mutant: the size is cut at the number of the last word.
Page_CutAtLast(s, m, n) ==
    LET count == Len(s)
        first == IF m >= count THEN Wrap(count - 1) ELSE m
    IN  [shown |-> Shown(s, m, n),
         min   |-> first,
         nb    |-> IF Wrap(first + n) > count THEN Wrap(count - 1 - first) ELSE n]

\* What is said of the page: its first number is brought back inside the index,
\* its size is cut at the end of the index.
Page(s, m, n) ==
    LET count == Len(s)
        first == IF m >= count THEN Wrap(count - 1) ELSE m
    IN  [shown |-> Shown(s, m, n),
         min   |-> first,
         nb    |-> IF Wrap(first + n) > count THEN Wrap(count - first) ELSE n]

List ==
    /\ pc = "list"
    /\ pc' = "idle"
    /\ answer' = Page(words, min, nb)
    /\ fresh' = TRUE
    /\ UNCHANGED <<words, word, bot, top, min, nb>>

-----------------------------------------------------------------------------
Ask == \/ \E w \in Word, n \in Size : \/ AskWord(w, n)
                                      \/ AskWordOfNone(w, n)
                                      \/ AskWordNear(w, n)
       \/ \E m \in 0 .. MaxLong - 1, n \in Size : AskPage(m, n)

Change == \/ \E w \in Word : AddWord(w)
          \/ \E i \in 1 .. Len(words) : DelWord(i)

Serve == Above \/ Below \/ BelowAll \/ Near \/ List

Next == Ask \/ Change \/ Serve

Spec == Init /\ [][Next]_vars

\* A request runs in one thread to its end.
ServedSpec == Spec /\ WF_vars(Serve)

-----------------------------------------------------------------------------
(***************************************************************************)
(* Properties.                                                             *)
(***************************************************************************)
\* The dichotomy keeps its promise: what it has left behind on one side is
\* before the word, on the other side after it.
HalvesAreLeft ==
    pc = "near" => /\ \A i \in 1 .. Len(words) : i <= bot => words[i] < word
                   /\ \A i \in 1 .. Len(words) : i > top + 1 => word < words[i]
                   /\ bot <= top + 1 /\ top < Len(words)

\* The number found for a word is its place, whether the index has it or not:
\* the words of a smaller number, and no others, are before it.
PlaceIsFound ==
    pc = "list" /\ word # NoWord =>
        \A i \in 1 .. Len(words) : i <= min <=> words[i] < word

\* A reader who asks for the page that follows the one shown, by the number and
\* the size the engine gave with it, misses no word and sees none twice, as
\* long as the index does not change.
PagesMeet ==
    [][ LET both == answer.shown \o answer'.shown
        IN  pc = "list" /\ fresh /\ word = NoWord
              /\ answer.shown # << >> /\ min = answer.min + answer.nb
            => /\ IsList(both)
               /\ \A i \in 1 .. Len(words) :
                    both[1] <= words[i] /\ words[i] <= both[Len(both)]
                      => InList(words[i], both) ]_vars

\* A page asked for is shown: the dichotomy ends.
EveryRequestEnds == pc # "idle" ~> pc = "idle"

\* "Incorrect index size": the size given with a page is the number of words
\* it shows and the first number given is that of its first word, unless no
\* word is shown, or the end of the page asked for is greater than any number.
SizeIsShown ==
    pc = "idle" /\ fresh /\ answer.shown # << >> /\ min + nb <= MaxLong =>
        /\ answer.nb = Len(answer.shown)
        /\ WordAt(answer.min) = answer.shown[1]
=============================================================================
