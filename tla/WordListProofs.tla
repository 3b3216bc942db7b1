--------------------------- MODULE WordListProofs ---------------------------
(***************************************************************************)
(* The dichotomy of DbNdx::GetWordRecNumNear finds the place of a word in  *)
(* every index: proved of all lists of words, of every length.             *)
(***************************************************************************)
EXTENDS WordList, SequenceTheorems, TLAPS

\* Some facts about integers, words and lists of words.
LEMMA MiddleIsBetween ==
    ASSUME NEW b \in Nat, NEW t \in Nat
    PROVE  /\ (t + b) \div 2 \in Nat
           /\ b <= t => b <= (t + b) \div 2 /\ (t + b) \div 2 <= t
           /\ b = t + 1 => (t + b) \div 2 = t
  OBVIOUS

LEMMA WrapIsLong == \A n \in Int : Wrap(n) \in Long
  BY LongAssumption DEF Wrap, Long

LEMMA SmallIsNotWrapped == \A n \in Long : Wrap(n) = n
  BY LongAssumption DEF Wrap, Long

LEMMA PlacesOfWords ==
    ASSUME NEW s, IsList(s), NEW i \in 1 .. Len(s)
    PROVE  s[i] \in Word /\ s[i] \in Nat
<1>1. s \in Seq(Word)
  BY DEF IsList
<1>2. s[i] \in Word
  BY <1>1
<1> QED BY <1>2, WordAssumption

\* A word put at its place, or taken away, leaves the words in order.
LEMMA InsertedIsList ==
    ASSUME NEW s, IsList(s), NEW w \in Word, NEW i \in 1 .. Len(s) + 1,
           \A j \in 1 .. Len(s) : IF j < i THEN s[j] < w ELSE w < s[j]
    PROVE  IsList(Inserted(s, i, w)) /\ Len(Inserted(s, i, w)) = Len(s) + 1
<1> DEFINE r == Inserted(s, i, w)
<1>1. s \in Seq(Word) /\ Len(s) \in Nat
  BY DEF IsList
<1>2. r \in [1 .. Len(s) + 1 -> Word]
  BY <1>1 DEF Inserted
<1>3. r \in Seq(Word) /\ Len(r) = Len(s) + 1
  BY <1>1, <1>2
<1>4. ASSUME NEW j \in 1 .. Len(r), NEW k \in 1 .. Len(r), j < k
      PROVE  r[j] < r[k]
  <2>1. r[j] = (IF j < i THEN s[j] ELSE IF j = i THEN w ELSE s[j - 1])
    BY <1>3 DEF Inserted
  <2>2. r[k] = (IF k < i THEN s[k] ELSE IF k = i THEN w ELSE s[k - 1])
    BY <1>3 DEF Inserted
  <2>3. \A a, b \in 1 .. Len(s) : a < b => s[a] < s[b]
    BY DEF IsList
  <2> HIDE DEF r
  <2>4. \A a \in 1 .. Len(s) : s[a] \in Nat
    BY PlacesOfWords
  <2>5. w \in Nat
    BY WordAssumption
  <2>6. CASE k < i
    BY <1>1, <1>3, <1>4, <2>1, <2>2, <2>3, <2>6
  <2>7. CASE k = i
    BY <1>1, <1>3, <1>4, <2>1, <2>2, <2>7
  <2>8. CASE i < k /\ j < i
    <3>1. s[j] < w /\ w < s[k - 1]
      BY <1>1, <1>3, <1>4, <2>8
    <3>2. s[j] \in Nat /\ s[k - 1] \in Nat
      BY <1>1, <1>3, <1>4, <2>4, <2>8
    <3> QED BY <1>1, <1>3, <2>1, <2>2, <2>5, <2>8, <3>1, <3>2
  <2>9. CASE i < k /\ j = i
    BY <1>1, <1>3, <1>4, <2>1, <2>2, <2>9
  <2>10. CASE i < j
    BY <1>1, <1>3, <1>4, <2>1, <2>2, <2>3, <2>10
  <2> QED BY <1>1, <1>3, <2>6, <2>7, <2>8, <2>9, <2>10
<1> QED BY <1>3, <1>4 DEF IsList

LEMMA DroppedIsList ==
    ASSUME NEW s, IsList(s), NEW i \in 1 .. Len(s)
    PROVE  IsList(Dropped(s, i)) /\ Len(Dropped(s, i)) = Len(s) - 1
<1> DEFINE r == Dropped(s, i)
<1>1. s \in Seq(Word) /\ Len(s) \in Nat /\ Len(s) - 1 \in Nat
  BY DEF IsList
<1>2. r \in [1 .. Len(s) - 1 -> Word]
  BY <1>1 DEF Dropped
<1>3. r \in Seq(Word) /\ Len(r) = Len(s) - 1
  BY <1>1, <1>2
<1>4. ASSUME NEW j \in 1 .. Len(r), NEW k \in 1 .. Len(r), j < k
      PROVE  r[j] < r[k]
  <2>1. r[j] = (IF j < i THEN s[j] ELSE s[j + 1])
    BY <1>3 DEF Dropped
  <2>2. r[k] = (IF k < i THEN s[k] ELSE s[k + 1])
    BY <1>3 DEF Dropped
  <2>3. \A a, b \in 1 .. Len(s) : a < b => s[a] < s[b]
    BY DEF IsList
  <2> HIDE DEF r
  <2> QED BY <1>1, <1>3, <1>4, <2>1, <2>2, <2>3
<1> QED BY <1>3, <1>4 DEF IsList

-----------------------------------------------------------------------------
(***************************************************************************)
(* The invariant: types, the two halves left behind, the place found.      *)
(***************************************************************************)
Missing == pc = "near" => word \in Word /\ ~ InList(word, words)
Inv == TypeOK /\ HalvesAreLeft /\ PlaceIsFound /\ Missing

LEMMA InitInv == Init => Inv
<1> SUFFICES ASSUME Init PROVE Inv
  OBVIOUS
<1>1. IsList(<< >>) /\ Len(<< >>) = 0 /\ << >> \in Seq(Word)
  BY DEF IsList
<1>2. 0 \in Long
  BY LongAssumption DEF Long
<1> QED BY <1>1, <1>2, LongAssumption
        DEF Init, Inv, TypeOK, Answer, HalvesAreLeft, PlaceIsFound, Missing, NoWord

LEMMA AddWordInv == ASSUME Inv, NEW w \in Word, AddWord(w) PROVE Inv'
<1>1. PICK i \in 1 .. Len(words) + 1 :
          /\ \A j \in 1 .. Len(words) : IF j < i THEN words[j] < w ELSE w < words[j]
          /\ words' = Inserted(words, i, w)
  BY DEF AddWord
<1>2. IsList(words) /\ Len(words) \in Nat /\ Len(words) < MaxLong
  BY DEF Inv, TypeOK, AddWord, IsList
<1>3. IsList(words') /\ Len(words') = Len(words) + 1
  BY <1>1, <1>2, InsertedIsList
<1>4. Len(words') <= MaxLong
  BY <1>2, <1>3, LongAssumption
<1>5. TypeOK'
  BY <1>3, <1>4 DEF Inv, TypeOK, AddWord
<1>6. pc' = "idle"
  BY DEF AddWord
<1> QED BY <1>5, <1>6 DEF Inv, HalvesAreLeft, PlaceIsFound, Missing

LEMMA DelWordInv == ASSUME Inv, NEW i \in 1 .. Len(words), DelWord(i) PROVE Inv'
<1>1. IsList(words) /\ Len(words) \in Nat /\ Len(words) <= MaxLong
  BY DEF Inv, TypeOK, IsList
<1>2. IsList(words') /\ Len(words') = Len(words) - 1
  BY <1>1, DroppedIsList DEF DelWord
<1>3. Len(words') <= MaxLong
  BY <1>1, <1>2, LongAssumption
<1>4. TypeOK'
  BY <1>2, <1>3 DEF Inv, TypeOK, DelWord
<1>5. pc' = "idle"
  BY DEF DelWord
<1> QED BY <1>4, <1>5 DEF Inv, HalvesAreLeft, PlaceIsFound, Missing

\* The number of a word that the index has: the words are in order.
LEMMA AskWordInv == ASSUME Inv, NEW w \in Word, NEW n \in Size, AskWord(w, n) PROVE Inv'
<1>1. PICK i \in 1 .. Len(words) : words[i] = w /\ min' = i - 1
  BY DEF AskWord
<1>2. IsList(words) /\ Len(words) \in Nat /\ Len(words) <= MaxLong
  BY DEF Inv, TypeOK, IsList
<1>3. \A j \in 1 .. Len(words) : j <= i - 1 <=> words[j] < w
  <2> TAKE j \in 1 .. Len(words)
  <2>1. words[j] \in Nat /\ words[i] \in Nat
    BY <1>2, PlacesOfWords
  <2>2. (j < i => words[j] < words[i]) /\ (i < j => words[i] < words[j])
    BY <1>2 DEF IsList
  <2> QED BY <1>1, <1>2, <2>1, <2>2
<1>4. PlaceIsFound'
  BY <1>1, <1>3 DEF AskWord, PlaceIsFound
<1>5. min' \in Long /\ nb' \in Long
  BY <1>1, <1>2, LongAssumption, SizeAssumption DEF AskWord, Long
<1> QED BY <1>4, <1>5 DEF Inv, TypeOK, HalvesAreLeft, Missing, AskWord

LEMMA AskWordOfNoneInv ==
    ASSUME Inv, NEW w \in Word, NEW n \in Size, AskWordOfNone(w, n) PROVE Inv'
<1>1. min' \in Long /\ nb' \in Long
  BY LongAssumption, SizeAssumption DEF AskWordOfNone, Long
<1>2. PlaceIsFound'
  BY DEF AskWordOfNone, PlaceIsFound
<1> QED BY <1>1, <1>2 DEF Inv, TypeOK, HalvesAreLeft, Missing, AskWordOfNone

LEMMA AskWordNearInv ==
    ASSUME Inv, NEW w \in Word, NEW n \in Size, AskWordNear(w, n) PROVE Inv'
<1>1. IsList(words) /\ Len(words) \in Nat
  BY DEF Inv, TypeOK, IsList
<1>2. Len(words) # 0
  BY <1>1 DEF AskWordNear, IsList
<1>3. nb' \in Long /\ top' \in Nat /\ bot' \in Nat
  BY <1>1, <1>2, LongAssumption, SizeAssumption DEF AskWordNear, Long
<1>4. HalvesAreLeft'
  BY <1>1, <1>2 DEF AskWordNear, HalvesAreLeft
<1> QED BY <1>3, <1>4 DEF Inv, TypeOK, PlaceIsFound, Missing, AskWordNear

LEMMA AskPageInv ==
    ASSUME Inv, NEW m \in 0 .. MaxLong - 1, NEW n \in Size, AskPage(m, n) PROVE Inv'
<1>1. m \in Long /\ n \in Long
  BY LongAssumption, SizeAssumption DEF Long
<1> QED BY <1>1 DEF Inv, TypeOK, HalvesAreLeft, PlaceIsFound, Missing, AskPage

\* What a pass of the loop knows of the middle of what is left.
LEMMA MiddleOfHalves ==
    ASSUME Inv, pc = "near", bot <= top
    PROVE  /\ Middle \in Nat /\ bot <= Middle /\ Middle <= top
           /\ Middle + 1 \in 1 .. Len(words) /\ Len(words) \in Nat
           /\ \A i \in 1 .. Len(words) : i < Middle + 1 => words[i] < WordAt(Middle)
           /\ \A i \in 1 .. Len(words) : Middle + 1 < i => WordAt(Middle) < words[i]
           /\ \A i \in 1 .. Len(words) : words[i] \in Nat
           /\ word \in Nat
<1>1. bot \in Nat /\ top \in Nat /\ IsList(words) /\ Len(words) \in Nat /\ top < Len(words)
  BY DEF Inv, TypeOK, HalvesAreLeft, IsList
<1>2. Middle \in Nat /\ bot <= Middle /\ Middle <= top
  BY <1>1, MiddleIsBetween DEF Middle
<1>3. Middle + 1 \in 1 .. Len(words)
  BY <1>1, <1>2
<1>4. word \in Nat
  BY WordAssumption DEF Inv, Missing
<1>5. \A i \in 1 .. Len(words) : words[i] \in Nat
  BY <1>1, PlacesOfWords
<1> QED BY <1>1, <1>2, <1>3, <1>4, <1>5 DEF IsList, WordAt

LEMMA AboveInv == ASSUME Inv, Above PROVE Inv'
<1>1. pc = "near" /\ bot <= top /\ WordAt(Middle) < word
  BY DEF Above
<1> DEFINE M == Middle
<1>2. /\ M \in Nat /\ bot <= M /\ M <= top
      /\ M + 1 \in 1 .. Len(words) /\ Len(words) \in Nat
      /\ \A i \in 1 .. Len(words) : i < M + 1 => words[i] < WordAt(M)
      /\ \A i \in 1 .. Len(words) : words[i] \in Nat
      /\ word \in Nat
  BY <1>1, MiddleOfHalves
<1>3. bot' = M + 1 /\ top' = top /\ words' = words /\ word' = word /\ pc' = "near"
  BY DEF Above
<1> HIDE DEF M
<1>4. \A i \in 1 .. Len(words) : i <= M + 1 => words[i] < word
  <2> TAKE i \in 1 .. Len(words)
  <2>1. words[M + 1] < word
    BY <1>1 DEF WordAt, M
  <2>2. i < M + 1 => words[i] < words[M + 1]
    BY <1>2 DEF WordAt
  <2> QED BY <1>2, <2>1, <2>2
<1>5. HalvesAreLeft'
  BY <1>1, <1>2, <1>3, <1>4 DEF Inv, TypeOK, HalvesAreLeft
<1>6. TypeOK'
  BY <1>2, <1>3 DEF Inv, TypeOK, Above
<1> QED BY <1>5, <1>6 DEF Inv, PlaceIsFound, Missing, Above

LEMMA BelowInv == ASSUME Inv, Below PROVE Inv'
<1>1. pc = "near" /\ bot <= top /\ word < WordAt(Middle) /\ Middle # 0
  BY DEF Below
<1> DEFINE M == Middle
<1>2. /\ M \in Nat /\ bot <= M /\ M <= top
      /\ M + 1 \in 1 .. Len(words) /\ Len(words) \in Nat
      /\ \A i \in 1 .. Len(words) : M + 1 < i => WordAt(M) < words[i]
      /\ \A i \in 1 .. Len(words) : words[i] \in Nat
      /\ word \in Nat
  BY <1>1, MiddleOfHalves
<1>3. top' = M - 1 /\ bot' = bot /\ words' = words /\ word' = word /\ pc' = "near"
  BY DEF Below
<1>4. M # 0
  BY <1>1
<1> HIDE DEF M
<1>5. \A i \in 1 .. Len(words) : i > M => word < words[i]
  <2> TAKE i \in 1 .. Len(words)
  <2>1. word < words[M + 1]
    BY <1>1 DEF WordAt, M
  <2>2. M + 1 < i => words[M + 1] < words[i]
    BY <1>2 DEF WordAt
  <2> QED BY <1>2, <2>1, <2>2
<1>6. HalvesAreLeft'
  BY <1>1, <1>2, <1>3, <1>4, <1>5 DEF Inv, TypeOK, HalvesAreLeft
<1>7. TypeOK'
  BY <1>2, <1>3, <1>4 DEF Inv, TypeOK, Below
<1> QED BY <1>6, <1>7 DEF Inv, PlaceIsFound, Missing, Below

LEMMA BelowAllInv == ASSUME Inv, BelowAll PROVE Inv'
<1>1. pc = "near" /\ bot <= top /\ word < WordAt(Middle) /\ Middle = 0
  BY DEF BelowAll
<1>2. /\ 1 \in 1 .. Len(words) /\ Len(words) \in Nat
      /\ \A i \in 1 .. Len(words) : 1 < i => words[1] < words[i]
      /\ \A i \in 1 .. Len(words) : words[i] \in Nat
      /\ word \in Nat /\ word < words[1]
  BY <1>1, MiddleOfHalves DEF WordAt
<1>3. \A i \in 1 .. Len(words) : i > 0 /\ ~ (words[i] < word)
  <2> TAKE i \in 1 .. Len(words)
  <2> QED BY <1>2
<1>4. min' = 0 /\ words' = words /\ word' = word /\ pc' = "list"
  BY DEF BelowAll
<1>5. PlaceIsFound'
  BY <1>2, <1>3, <1>4 DEF PlaceIsFound
<1>6. TypeOK'
  BY LongAssumption DEF Inv, TypeOK, BelowAll, Long
<1> QED BY <1>4, <1>5, <1>6 DEF Inv, HalvesAreLeft, Missing

LEMMA NearInv == ASSUME Inv, Near PROVE Inv'
<1>1. pc = "near" /\ bot > top /\ min' = Middle + 1 /\ pc' = "list"
      /\ words' = words /\ word' = word
  BY DEF Near
<1>2. /\ bot \in Nat /\ top \in Nat /\ Len(words) \in Nat /\ IsList(words)
      /\ bot = top + 1 /\ top < Len(words) /\ Len(words) <= MaxLong
  BY <1>1 DEF Inv, TypeOK, HalvesAreLeft, IsList
<1>3. min' = bot
  BY <1>1, <1>2, MiddleIsBetween DEF Middle
<1>4. word \in Nat
  BY <1>1, WordAssumption DEF Inv, Missing
<1>5. \A i \in 1 .. Len(words) : i <= bot <=> words[i] < word
  <2> TAKE i \in 1 .. Len(words)
  <2>1. words[i] \in Nat
    BY <1>2, PlacesOfWords
  <2>2. (i <= bot => words[i] < word) /\ (i > top + 1 => word < words[i])
    BY <1>1 DEF Inv, HalvesAreLeft
  <2> QED BY <1>2, <1>4, <2>1, <2>2
<1>6. PlaceIsFound'
  BY <1>1, <1>3, <1>5 DEF PlaceIsFound
<1>7. TypeOK'
  BY <1>2, <1>3, LongAssumption DEF Inv, TypeOK, Near, Long
<1> QED BY <1>1, <1>6, <1>7 DEF Inv, HalvesAreLeft, Missing

\* A page is a part of the list.
LEMMA PageIsAnswer ==
    ASSUME NEW s, IsList(s), NEW m \in Long, NEW n \in Long
    PROVE  Page(s, m, n) \in Answer
<1>1. s \in Seq(Word) /\ Len(s) \in Nat
  BY DEF IsList
<1>2. m \in Nat /\ n \in Nat
  BY LongAssumption DEF Long
<1>3. First(m) \in Nat \ {0}
  BY <1>2 DEF First
<1>4. Shown(s, m, n) \in Seq(Word)
  BY <1>1, <1>2, <1>3 DEF Shown
<1>5. Wrap(Len(s) - 1) \in Long
  BY <1>1, WrapIsLong
<1> DEFINE first == IF m >= Len(s) THEN Wrap(Len(s) - 1) ELSE m
<1>6. first \in Long /\ first \in Int
  BY <1>5, LongAssumption DEF Long
<1>7. Wrap(Len(s) - first) \in Long
  BY <1>1, <1>6, WrapIsLong
<1> QED BY <1>4, <1>6, <1>7 DEF Page, Answer

LEMMA ListInv == ASSUME Inv, List PROVE Inv'
<1>1. answer' \in Answer
  BY PageIsAnswer DEF List, Inv, TypeOK
<1> QED BY <1>1 DEF List, Inv, TypeOK, HalvesAreLeft, PlaceIsFound, Missing

LEMMA NextInv == Inv /\ [Next]_vars => Inv'
<1> SUFFICES ASSUME Inv, [Next]_vars PROVE Inv'
  OBVIOUS
<1>1. CASE Ask
  BY <1>1, AskWordInv, AskWordOfNoneInv, AskWordNearInv, AskPageInv DEF Ask
<1>2. CASE Change
  BY <1>2, AddWordInv, DelWordInv DEF Change
<1>3. CASE Serve
  BY <1>3, AboveInv, BelowInv, BelowAllInv, NearInv, ListInv DEF Serve
<1>4. CASE UNCHANGED vars
  BY <1>4 DEF Inv, TypeOK, HalvesAreLeft, PlaceIsFound, Missing, vars
<1> QED BY <1>1, <1>2, <1>3, <1>4 DEF Next

LEMMA Invariance == Spec => []Inv
<1> QED BY InitInv, NextInv, PTL DEF Spec

\* Every number a request computes stays a number of the index or a long, and
\* the index stays a list of words in order.
THEOREM TypeCorrect == Spec => []TypeOK
<1>1. Inv => TypeOK
  BY DEF Inv
<1> QED BY <1>1, Invariance, PTL

\* DbNdx::GetWordRecNumNear leaves behind only words smaller than the word
\* asked for on one side, greater on the other.
THEOREM HalvesAreRight == Spec => []HalvesAreLeft
<1>1. Inv => HalvesAreLeft
  BY DEF Inv
<1> QED BY <1>1, Invariance, PTL

\* EngineApiComputeIndex starts its page at the place of the word asked for,
\* also when the index has not the word, in an index of any size.
THEOREM PlaceIsRight == Spec => []PlaceIsFound
<1>1. Inv => PlaceIsFound
  BY DEF Inv
<1> QED BY <1>1, Invariance, PTL

-----------------------------------------------------------------------------
(***************************************************************************)
(* Two pages, one after the other.                                         *)
(***************************************************************************)
\* A part of a list is a list, and has every word between its ends.
LEMMA PartOfList ==
    ASSUME NEW s, IsList(s), NEW a \in 1 .. Len(s), NEW b \in a .. Len(s)
    PROVE  LET part == SubSeq(s, a, b)
           IN  /\ IsList(part)
               /\ \A i \in 1 .. Len(s) :
                    part[1] <= s[i] /\ s[i] <= part[Len(part)] => InList(s[i], part)
<1> DEFINE part == SubSeq(s, a, b)
<1>1. s \in Seq(Word) /\ Len(s) \in Nat
  BY DEF IsList
<1>2. /\ part \in Seq(Word)
      /\ Len(part) = b - a + 1
      /\ \A i \in 1 .. b - a + 1 : part[i] = s[a + i - 1]
  BY <1>1, SubSeqProperties
<1>3. \A i, j \in 1 .. Len(s) : i < j => s[i] < s[j]
  BY DEF IsList
<1>4. \A i \in 1 .. Len(s) : s[i] \in Nat
  BY PlacesOfWords
<1> HIDE DEF part
<1>5. IsList(part)
  <2>1. ASSUME NEW i \in 1 .. Len(part), NEW j \in 1 .. Len(part), i < j
        PROVE  part[i] < part[j]
    <3>1. /\ i \in Nat /\ j \in Nat /\ a \in Nat /\ b \in Nat
          /\ i \in 1 .. b - a + 1 /\ j \in 1 .. b - a + 1
      BY <1>1, <1>2
    <3>2. part[i] = s[a + i - 1] /\ part[j] = s[a + j - 1]
      BY <1>2, <3>1
    <3>3. /\ a + i - 1 \in 1 .. Len(s) /\ a + j - 1 \in 1 .. Len(s)
          /\ a + i - 1 < a + j - 1
      BY <1>1, <2>1, <3>1
    <3> QED BY <1>3, <3>2, <3>3
  <2> QED BY <1>2, <2>1 DEF IsList
<1>6. ASSUME NEW i \in 1 .. Len(s), part[1] <= s[i], s[i] <= part[Len(part)]
      PROVE  InList(s[i], part)
  <2>1. s[a] <= s[i] /\ s[i] <= s[b]
    BY <1>1, <1>2, <1>6
  <2>2. a <= i
    BY <1>1, <1>3, <1>4, <2>1
  <2>3. i <= b
    BY <1>1, <1>3, <1>4, <2>1
  <2>4. i - a + 1 \in 1 .. Len(part) /\ part[i - a + 1] = s[i]
    BY <1>1, <1>2, <2>2, <2>3
  <2> QED BY <2>4 DEF InList
<1> QED BY <1>5, <1>6 DEF part

LEMMA PartsMeet ==
    ASSUME NEW s \in Seq(Word),
           NEW a \in 1 .. Len(s), NEW b \in a .. Len(s), NEW c \in b .. Len(s)
    PROVE  SubSeq(s, a, b) \o SubSeq(s, b + 1, c) = SubSeq(s, a, c)
<1>1. a \in 1 .. Len(s) + 1 /\ b \in a - 1 .. Len(s)
  OBVIOUS
<1> QED BY <1>1, ConcatAdjacentSubSeq

\* The number of the word that follows a page of n words from number m.
End(s, m, n) == IF m + n < Len(s) THEN m + n ELSE Len(s)

LEMMA PageIsPart ==
    ASSUME NEW s, IsList(s), NEW m \in Nat, NEW n \in Nat
    PROVE  /\ End(s, m, n) \in Nat /\ End(s, m, n) <= Len(s) /\ Len(s) \in Nat
           /\ Page(s, m, n).shown = SubSeq(s, m + 1, End(s, m, n))
<1>1. Len(s) \in Nat
  BY DEF IsList
<1>2. First(m) = m + 1
  BY DEF First
<1> DEFINE b == IF First(m) + n - 1 < Len(s) THEN First(m) + n - 1 ELSE Len(s)
<1>3. b = End(s, m, n)
  BY <1>1, <1>2 DEF End
<1>4. Page(s, m, n).shown = SubSeq(s, First(m), b)
  BY DEF Page, Shown
<1> HIDE DEF b
<1>5. Page(s, m, n).shown = SubSeq(s, m + 1, End(s, m, n))
  BY <1>2, <1>3, <1>4
<1> QED BY <1>1, <1>5 DEF End

\* s holds the words of the list l from number m on, and stops within it.
PartFrom(l, m, s) == /\ m + 1 \in 1 .. Len(l)
                     /\ \E c \in m + 1 .. Len(l) : s = SubSeq(l, m + 1, c)

LEMMA NextPage ==
    ASSUME NEW s, IsList(s), Len(s) <= MaxLong,
           NEW m \in Long, NEW n \in Long, NEW k \in Long, NEW l \in Long,
           Page(s, m, n).shown # << >>,
           k = Page(s, m, n).min + Page(s, m, n).nb
    PROVE  PartFrom(s, m, Page(s, m, n).shown \o Page(s, k, l).shown)
<1> DEFINE L == Len(s)
           P == Page(s, m, n).shown
           Q == Page(s, k, l).shown
           b == End(s, m, n)
           c == End(s, k, l)
<1>1. s \in Seq(Word) /\ L \in Nat /\ L \in Long
  BY LongAssumption DEF IsList, Long
<1>2. m \in Nat /\ n \in Nat /\ k \in Nat /\ l \in Nat
  BY LongAssumption DEF Long
<1>3. P = SubSeq(s, m + 1, b) /\ b \in Nat /\ b <= L
  BY <1>2, PageIsPart
<1>4. Q = SubSeq(s, k + 1, c) /\ c \in Nat /\ c <= L
  BY <1>2, PageIsPart
<1>5. m < b
  <2>1. SUFFICES ASSUME b < m + 1 PROVE SubSeq(s, m + 1, b) = << >>
    BY <1>2, <1>3
  <2> HIDE DEF b
  <2> QED BY <1>2, <1>3, <2>1, SubSeqEmpty
<1>6. m < L
  BY <1>1, <1>2, <1>3, <1>5
<1>7. Page(s, m, n).min = m
  BY <1>1, <1>2, <1>6 DEF Page
<1>8. Page(s, m, n).nb = IF Wrap(m + n) > L THEN Wrap(L - m) ELSE n
  BY <1>1, <1>2, <1>6 DEF Page
<1>9. Wrap(L - m) = L - m
  <2>1. L - m \in Long
    BY <1>1, <1>2, <1>6, LongAssumption DEF Long
  <2> QED BY <2>1, SmallIsNotWrapped
<1>10. CASE Wrap(m + n) > L
  <2>1. k = L
    BY <1>1, <1>2, <1>7, <1>8, <1>9, <1>10
  <2>2. Q = << >>
    <3> HIDE DEF c
    <3>1. c < k + 1 /\ c \in Int /\ k + 1 \in Int
      BY <1>1, <1>2, <1>4, <2>1
    <3> QED BY <1>4, <3>1, SubSeqEmpty
  <2>3. P \in Seq(Word)
    <3>1. \A i \in m + 1 .. b : s[i] \in Word
      BY <1>1, <1>2, <1>3
    <3> HIDE DEF b
    <3> QED BY <1>2, <1>3, <3>1, SubSeqProperties
  <2>4. P \o Q = P
    <3> HIDE DEF P, Q
    <3> QED BY <2>2, <2>3, ConcatEmptySeq
  <2>5. b \in m + 1 .. L /\ m + 1 \in 1 .. L
    BY <1>1, <1>2, <1>3, <1>5, <1>6
  <2> HIDE DEF b, P, Q
  <2>6. PartFrom(s, m, P \o Q)
    BY <1>3, <2>4, <2>5 DEF PartFrom
  <2> QED BY <2>6 DEF P, Q
<1>11. CASE ~(Wrap(m + n) > L)
  <2>1. k = m + n
    BY <1>7, <1>8, <1>11
  <2>2. k <= L
    BY <1>11, <2>1, SmallIsNotWrapped
  <2>3. b = k
    BY <1>1, <1>2, <2>1, <2>2 DEF End
  <2>4. k <= c
    BY <1>1, <1>2, <2>2 DEF End
  <2>5. m + 1 \in 1 .. L /\ k \in m + 1 .. L /\ c \in k .. L /\ c \in m + 1 .. L
    BY <1>1, <1>2, <1>3, <1>4, <1>5, <1>6, <2>3, <2>4
  <2> HIDE DEF b, c, P, Q
  <2>6. SubSeq(s, m + 1, k) \o SubSeq(s, k + 1, c) = SubSeq(s, m + 1, c)
    BY <1>1, <2>5, PartsMeet
  <2>7. P \o Q = SubSeq(s, m + 1, c)
    BY <1>3, <1>4, <2>3, <2>6
  <2>8. PartFrom(s, m, P \o Q)
    BY <2>5, <2>7 DEF PartFrom
  <2> QED BY <2>8 DEF P, Q
<1> QED BY <1>10, <1>11

\* The last page given is a page of the index as it is, when it has not changed.
Remembered ==
    fresh => \/ answer.shown = << >>
             \/ \E m, n \in Long : answer = Page(words, m, n)

LEMMA RememberedStep == Inv /\ Remembered /\ [Next]_vars => Remembered'
<1> SUFFICES ASSUME Inv, Remembered, [Next]_vars PROVE Remembered'
  OBVIOUS
<1>1. CASE Change
  BY <1>1 DEF Change, AddWord, DelWord, Remembered
<1>2. CASE List
  BY <1>2 DEF List, Remembered, Inv, TypeOK
<1>3. CASE words' = words /\ answer' = answer /\ fresh' = fresh
  BY <1>3 DEF Remembered
<1> QED BY <1>1, <1>2, <1>3
        DEF Next, Ask, AskWord, AskWordOfNone, AskWordNear, AskPage,
            Serve, Above, Below, BelowAll, Near, vars

\* Reading an index page after page, by the numbers given with each page, misses
\* no word and shows none twice, whatever the index and the sizes asked for.
THEOREM PagesAlwaysMeet == Spec => PagesMeet
<1> DEFINE Meet ==
             LET both == answer.shown \o answer'.shown
             IN  pc = "list" /\ fresh /\ word = NoWord
                   /\ answer.shown # << >> /\ min = answer.min + answer.nb
                 => /\ IsList(both)
                    /\ \A i \in 1 .. Len(words) :
                         both[1] <= words[i] /\ words[i] <= both[Len(both)]
                           => InList(words[i], both)
<1>1. Inv /\ Remembered /\ [Next]_vars => [Meet]_vars
  <2> SUFFICES ASSUME Inv, Remembered, Next,
                      pc = "list", fresh, answer.shown # << >>,
                      min = answer.min + answer.nb
               PROVE  LET both == answer.shown \o answer'.shown
                      IN  /\ IsList(both)
                          /\ \A i \in 1 .. Len(words) :
                               both[1] <= words[i] /\ words[i] <= both[Len(both)]
                                 => InList(words[i], both)
    OBVIOUS
  <2>1. answer' = Page(words, min, nb)
    BY DEF Next, Ask, AskWord, AskWordOfNone, AskWordNear, AskPage,
           Change, AddWord, DelWord, Serve, Above, Below, BelowAll, Near, List
  <2>2. /\ IsList(words) /\ Len(words) <= MaxLong /\ Len(words) \in Nat
        /\ min \in Long /\ nb \in Long
    BY DEF Inv, TypeOK, IsList
  <2>3. PICK m \in Long, n \in Long : answer = Page(words, m, n)
    BY DEF Remembered
  <2>4. Page(words, m, n).shown # << >>
        /\ min = Page(words, m, n).min + Page(words, m, n).nb
    BY <2>3
  <2>5. PartFrom(words, m, Page(words, m, n).shown \o Page(words, min, nb).shown)
    BY <2>2, <2>4, NextPage
  <2>6. PartFrom(words, m, answer.shown \o answer'.shown)
    BY <2>1, <2>3, <2>5
  <2>7. PICK c \in m + 1 .. Len(words) :
            /\ m + 1 \in 1 .. Len(words)
            /\ answer.shown \o answer'.shown = SubSeq(words, m + 1, c)
    BY <2>6 DEF PartFrom
  <2> QED BY <2>2, <2>7, PartOfList
<1>2. Init => Remembered
  BY DEF Init, Remembered
<1>3. Spec => []Remembered
  BY <1>2, RememberedStep, Invariance, PTL DEF Spec
<1> QED BY <1>1, <1>3, Invariance, PTL DEF Spec, PagesMeet

-----------------------------------------------------------------------------
(***************************************************************************)
(* The size given with a page.                                             *)
(***************************************************************************)
\* The last answer is the page asked for last, of the index as it is.
Latest == pc = "idle" /\ fresh =>
              answer.shown = << >> \/ answer = Page(words, min, nb)

LEMMA LatestStep == Latest /\ [Next]_vars => Latest'
<1> SUFFICES ASSUME Latest, [Next]_vars PROVE Latest'
  OBVIOUS
<1>1. CASE Change
  BY <1>1 DEF Change, AddWord, DelWord, Latest
<1>2. CASE List
  BY <1>2 DEF List, Latest
<1>3. CASE Ask \/ Above \/ Below \/ BelowAll \/ Near
  BY <1>3 DEF Ask, AskWord, AskWordOfNone, AskWordNear, AskPage,
              Above, Below, BelowAll, Near, Latest
<1>4. CASE UNCHANGED vars
  BY <1>4 DEF vars, Latest
<1> QED BY <1>1, <1>2, <1>3, <1>4 DEF Next, Serve

\* A page that shows words says how many, and the number of the first.
LEMMA PageSize ==
    ASSUME NEW s, IsList(s), Len(s) <= MaxLong,
           NEW m \in Long, NEW n \in Long, m + n <= MaxLong,
           Page(s, m, n).shown # << >>
    PROVE  /\ Page(s, m, n).nb = Len(Page(s, m, n).shown)
           /\ s[Page(s, m, n).min + 1] = Page(s, m, n).shown[1]
<1> DEFINE L == Len(s)
           b == End(s, m, n)
<1>1. s \in Seq(Word) /\ L \in Nat /\ L \in Long
  BY LongAssumption DEF IsList, Long
<1>2. m \in Nat /\ n \in Nat
  BY LongAssumption DEF Long
<1>3. Page(s, m, n).shown = SubSeq(s, m + 1, b) /\ b \in Nat /\ b <= L
  BY <1>2, PageIsPart
<1>4. m < b
  <2>1. SUFFICES ASSUME b < m + 1 PROVE SubSeq(s, m + 1, b) = << >>
    BY <1>2, <1>3
  <2> HIDE DEF b
  <2> QED BY <1>2, <1>3, <2>1, SubSeqEmpty
<1>5. m < L
  BY <1>1, <1>2, <1>3, <1>4
<1>6. Page(s, m, n).min = m
  BY <1>1, <1>2, <1>5 DEF Page
<1>7. Wrap(m + n) = m + n /\ Wrap(L - m) = L - m
  <2>1. m + n \in Long /\ L - m \in Long
    BY <1>1, <1>2, <1>5, LongAssumption DEF Long
  <2> QED BY <2>1, SmallIsNotWrapped
<1>8. Page(s, m, n).nb = b - m
  BY <1>1, <1>2, <1>5, <1>7 DEF Page, End
<1>9. SubSeq(s, m + 1, b) = [i \in 1 .. b - m |-> s[m + i]]
  <2>1. m + 1 \in Int /\ b \in Int
    BY <1>2, <1>3
  <2> HIDE DEF b
  <2> QED BY <1>2, <1>3, <2>1
<1>10. Len(SubSeq(s, m + 1, b)) = b - m /\ SubSeq(s, m + 1, b)[1] = s[m + 1]
  <2>1. b - m \in Nat \ {0}
    BY <1>2, <1>3, <1>4
  <2> HIDE DEF b
  <2> QED BY <1>2, <1>3, <1>9, <2>1
<1> QED BY <1>3, <1>6, <1>8, <1>10

\* EngineApiComputeIndex never logs "Incorrect index size" for a page that shows
\* a word and whose end is a number, in an index of any size.
THEOREM SizesAreShown == Spec => []SizeIsShown
<1>1. Init => Latest
  BY DEF Init, Latest
<1>2. Spec => []Latest
  BY <1>1, LatestStep, PTL DEF Spec
<1>3. Inv /\ Latest => SizeIsShown
  <2> SUFFICES ASSUME Inv, Latest, pc = "idle", fresh, answer.shown # << >>,
                      min + nb <= MaxLong
               PROVE  /\ answer.nb = Len(answer.shown)
                      /\ WordAt(answer.min) = answer.shown[1]
    BY DEF SizeIsShown
  <2>1. answer = Page(words, min, nb)
    BY DEF Latest
  <2>2. IsList(words) /\ Len(words) <= MaxLong /\ min \in Long /\ nb \in Long
    BY DEF Inv, TypeOK
  <2> QED BY <2>1, <2>2, PageSize DEF WordAt
<1> QED BY <1>2, <1>3, Invariance, PTL
=============================================================================
