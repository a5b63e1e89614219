--------------------------- MODULE ArgumentsProofs --------------------------
(***************************************************************************)
(* Proofs about Arguments: reading any command line word by word answers   *)
(* what Usage says it means.                                               *)
(***************************************************************************)
EXTENDS Arguments, WellFoundedInduction, TLAPS

-----------------------------------------------------------------------------
(* Every nonempty set of numbers has a least element                        *)

NatLess == OpToRel(<, Nat)

LEMMA NatLessIs == \A x, y \in Nat : x < y => <<x, y>> \in NatLess
  BY Zenon DEF NatLess, OpToRel

LEMMA NatLessWF == IsWellFoundedOn(NatLess, Nat)
  BY NatLessThanWellFounded, Zenon DEF NatLess

LEMMA LeastNat ==
  ASSUME NEW S, S \subseteq Nat, S # {}
  PROVE  \E m \in S : \A k \in S : m <= k
<1>1. PICK m \in S : \A y \in S : ~(<<y, m>> \in NatLess)
  BY NatLessWF, WFMin, Zenon
<1>2. \A k \in S : ~(k < m)
  BY <1>1, NatLessIs, Zenon
<1> QED BY <1>2, SMT

-----------------------------------------------------------------------------
\* The contract asks after the same words.
LEMMA SameWords ==
  /\ Contract!Switches = Switches /\ Contract!Formats = Formats /\ Contract!HelpWords = HelpWords
  /\ Contract!Valued = Valued /\ Contract!Known = Known
  BY DEF Switches, Formats, HelpWords, Valued, Known, Contract!Switches, Contract!Formats,
         Contract!HelpWords, Contract!Valued, Contract!Known

-----------------------------------------------------------------------------
(* Which words are values                                                   *)

\* A word is a value exactly when the word before it takes one and is none
\* itself: what parse_args does in turn, against the parity of a row.
LEMMA ValueStep ==
  ASSUME NEW i \in Nat \ {0}
  PROVE  Contract!IsValue(i) <=> i > 1 /\ line[i - 1] \in Valued /\ ~Contract!IsValue(i - 1)
<1>1. ASSUME Contract!IsValue(i) PROVE i > 1 /\ line[i - 1] \in Valued
  <2>1. PICK k \in 1..(i - 1) : \A j \in k..(i - 1) : line[j] \in Valued
    BY <1>1, SameWords DEF Contract!IsValue
  <2>2. i - 1 \in k..(i - 1) /\ i > 1
    OBVIOUS
  <2> QED BY <2>1, <2>2
<1>2. ASSUME Contract!IsValue(i), Contract!IsValue(i - 1) PROVE FALSE
  <2>1. PICK k \in 1..(i - 1) : /\ (i - k) % 2 = 1
                                /\ \A j \in k..(i - 1) : line[j] \in Valued
                                /\ k = 1 \/ line[k - 1] \notin Valued
    BY <1>2, SameWords DEF Contract!IsValue
  <2>2. PICK m \in 1..(i - 1 - 1) : /\ (i - 1 - m) % 2 = 1
                                    /\ \A j \in m..(i - 1 - 1) : line[j] \in Valued
                                    /\ m = 1 \/ line[m - 1] \notin Valued
    BY <1>2, SameWords DEF Contract!IsValue
  <2>3. k # m
    BY <2>1, <2>2
  <2>4. CASE k < m
    <3>1. m - 1 \in k..(i - 1) /\ m # 1
      BY <2>1, <2>2, <2>4
    <3> QED BY <3>1, <2>1, <2>2
  <2>5. CASE m < k
    <3>1. k - 1 \in m..(i - 1 - 1) /\ k # 1
      BY <2>1, <2>2, <2>5
    <3> QED BY <3>1, <2>1, <2>2
  <2> QED BY <2>3, <2>4, <2>5, <2>1, <2>2
<1>3. ASSUME i > 1, line[i - 1] \in Valued, ~Contract!IsValue(i - 1) PROVE Contract!IsValue(i)
  <2> DEFINE Rows == {k \in 1..(i - 1) : \A j \in k..(i - 1) : line[j] \in Valued}
  <2>1. i - 1 \in Rows /\ Rows \subseteq Nat
    BY <1>3
  <2>2. PICK r \in Rows : \A k \in Rows : r <= k
    BY <2>1, LeastNat
  <2>3. r \in 1..(i - 1) /\ \A j \in r..(i - 1) : line[j] \in Valued
    BY <2>2
  <2>4. r = 1 \/ line[r - 1] \notin Valued
    <3> SUFFICES ASSUME r # 1, line[r - 1] \in Valued PROVE FALSE
      OBVIOUS
    <3>1. r - 1 \in 1..(i - 1) /\ \A j \in (r - 1)..(i - 1) : j = r - 1 \/ j \in r..(i - 1)
      BY <2>3
    <3>2. r - 1 \in Rows
      BY <3>1, <2>3
    <3> QED BY <3>2, <2>2, <2>3
  <2> HIDE DEF Rows
  <2>5. CASE (i - r) % 2 = 1
    BY <2>3, <2>4, <2>5, SameWords DEF Contract!IsValue
  <2>6. CASE (i - r) % 2 # 1
    <3>1. r \in 1..(i - 1 - 1) /\ (i - 1 - r) % 2 = 1
      BY <2>3, <2>6
    <3>2. \A j \in r..(i - 1 - 1) : line[j] \in Valued
      BY <2>3
    <3> QED BY <3>1, <3>2, <2>4, <1>3, SameWords DEF Contract!IsValue
  <2> QED BY <2>5, <2>6
<1> QED BY <1>1, <1>2, <1>3

-----------------------------------------------------------------------------
(* Going on behind a word                                                   *)

Roots == {i \in DOMAIN line : Contract!IsRoot(i)}

LEMMA LineFacts ==
  ASSUME line \in Lines
  PROVE  Len(line) \in Nat /\ DOMAIN line = 1..Len(line)
  BY LinesAssumption

\* The word about to be read is spoken; the next is a value if it takes one,
\* and then the one behind that is none.
LEMMA Here ==
  ASSUME line \in Lines, AtAWord, Reading
  PROVE  /\ index \in DOMAIN line /\ index \in Nat \ {0} /\ index \in Contract!Spoken
         /\ Word \in Unicode
         /\ Contract!IsValue(index + 1) <=> Word \in Valued
         /\ Word \in Valued => ~Contract!IsValue(index + 2)
<1>1. index \in DOMAIN line /\ index \in Nat \ {0} /\ ~Contract!IsValue(index)
  BY LineFacts DEF AtAWord, Reading
<1>2. Contract!IsValue(index + 1) <=>
        index + 1 > 1 /\ line[(index + 1) - 1] \in Valued /\ ~Contract!IsValue((index + 1) - 1)
  BY <1>1, ValueStep
<1>3. (index + 1) - 1 = index /\ (index + 2) - 1 = index + 1 /\ index + 1 > 1
  BY <1>1
<1>4. Contract!IsValue(index + 1) <=> Word \in Valued
  BY <1>1, <1>2, <1>3 DEF Word
<1>5. Contract!IsValue(index + 2) <=>
        index + 2 > 1 /\ line[(index + 2) - 1] \in Valued /\ ~Contract!IsValue((index + 2) - 1)
  BY <1>1, ValueStep
<1>6. Word \in Valued => ~Contract!IsValue(index + 2)
  BY <1>3, <1>4, <1>5
<1> QED BY <1>1, <1>4, <1>6 DEF AtAWord, Word, Contract!Spoken

\* What a step behind a word is: one word on, or two past a value that will do.
StepsOn ==
    /\ UNCHANGED line
    /\ \/ index' = index + 1 /\ Word \notin Valued /\ index \notin Contract!Ends
       \/ /\ index' = index + 2 /\ Word \in Valued /\ HasNext
          /\ Word = "--format" => line[index + 1] \in Formats

\* Such a step passes one spoken word, and nothing that ends the reading.
LEMMA OneMoreWord ==
  ASSUME line \in Lines, AtAWord, Reading, StepsOn
  PROVE  /\ AtAWord'
         /\ \A w : Passed(Contract!At(w))'
                    = Passed(Contract!At(w)) \cup {i \in {index} : Word = w}
         /\ Passed(Roots)' = Passed(Roots) \cup {i \in {index} : Word \notin Dashed}
<1>1. /\ index \in DOMAIN line /\ index \in Nat \ {0} /\ index \in Contract!Spoken /\ line' = line
      /\ Len(line) \in Nat /\ DOMAIN line = 1..Len(line)
  BY Here, LineFacts DEF StepsOn
<1>2. CASE index' = index + 1 /\ Word \notin Valued /\ index \notin Contract!Ends
  <2>1. ~Contract!IsValue(index + 1)
    BY <1>2, Here
  <2>2. \A i \in DOMAIN line : i < index + 1 <=> i < index \/ i = index
    BY <1>1
  <2>3. AtAWord'
    <3>1. index + 1 \in 1..(Len(line) + 1)
      BY <1>1
    <3>2. {i \in Contract!Ends : i < index + 1} = {}
      BY <1>1, <1>2, <2>2 DEF AtAWord, Passed, Contract!Ends
    <3> QED BY <1>1, <1>2, <2>1, <3>1, <3>2
            DEF AtAWord, Passed, Contract!Ends, Contract!IsMistake, Contract!IsHelp, Contract!IsRoot,
                Contract!Spoken, Contract!IsValue
  <2> QED BY <1>1, <1>2, <2>2, <2>3
          DEF Passed, Roots, Word, Contract!At, Contract!IsRoot, Contract!Spoken, Contract!IsValue
<1>3. CASE /\ index' = index + 2 /\ Word \in Valued /\ HasNext
           /\ Word = "--format" => line[index + 1] \in Formats
  <2>1. ~Contract!IsValue(index + 2) /\ Contract!IsValue(index + 1) /\ index + 1 \notin Contract!Spoken
    BY <1>3, Here DEF Contract!Spoken
  <2>2. \A i \in DOMAIN line : i < index + 2 <=> i < index \/ i = index \/ i = index + 1
    BY <1>1
  <2>3. index + 1 \in DOMAIN line /\ (index + 1) - 1 = index
    BY <1>1, <1>3 DEF HasNext
  <2>4. index \notin Contract!Ends
    <3>1. index # Len(line) /\ Word \in Known /\ Word \in Dashed /\ Word \notin HelpWords
      BY <1>1, <1>3, WordsAssumption DEF HasNext, Known, Valued, HelpWords
    <3>2. ~Contract!IsValue(index)
      BY <1>1 DEF Contract!Spoken
    <3> QED BY <3>1, <3>2, SameWords
            DEF Contract!Ends, Contract!IsMistake, Contract!IsHelp, Contract!IsRoot, Word
  <2>5. index + 1 \notin Contract!Ends
    BY <1>3, <2>1, <2>3, SameWords
    DEF Contract!Ends, Contract!IsMistake, Contract!IsHelp, Contract!IsRoot, Word
  <2>6. AtAWord'
    <3>1. index + 2 \in 1..(Len(line) + 1)
      BY <1>1, <2>3
    <3>2. {i \in Contract!Ends : i < index + 2} = {}
      BY <1>1, <1>3, <2>2, <2>4, <2>5 DEF AtAWord, Passed, Contract!Ends
    <3> QED BY <1>1, <1>3, <2>1, <3>1, <3>2, ZenonT(30)
            DEF AtAWord, Passed, Contract!Ends, Contract!IsMistake, Contract!IsHelp, Contract!IsRoot,
                Contract!Spoken, Contract!IsValue
  <2>7. \A w : {i \in Contract!At(w) : i < index + 2}
                 = Passed(Contract!At(w)) \cup {i \in {index} : Word = w}
    BY <1>1, <2>1, <2>2 DEF Passed, Word, Contract!At, Contract!Spoken
  <2>8. {i \in Roots : i < index + 2} = Passed(Roots) \cup {i \in {index} : Word \notin Dashed}
    BY <1>1, <2>1, <2>2 DEF Passed, Word, Roots, Contract!IsRoot, Contract!Spoken
  <2>9. Roots' = Roots /\ \A w : Contract!At(w)' = Contract!At(w)
    BY <1>1 DEF Roots, Contract!At, Contract!IsRoot, Contract!Spoken, Contract!IsValue
  <2> QED BY <1>3, <2>6, <2>7, <2>8, <2>9 DEF Passed
<1> QED BY <1>2, <1>3 DEF StepsOn

\* What a step behind a word notes down of it.
NotesWord ==
    /\ opts'.switches = opts.switches \cup {w \in Switches : w = Word}
    /\ IF Word \in {"--json", "--format"}
         THEN /\ opts'.format \in Formats
              /\ opts'.format = "json" <=> Word = "--json" \/ line[index + 1] = "json"
         ELSE opts'.format = opts.format
    /\ IF Word = "--baseline" THEN HasNext /\ opts'.baseline = line[index + 1]
       ELSE opts'.baseline = opts.baseline
    /\ IF Word \notin Dashed THEN opts.root = None /\ opts'.root = Word ELSE opts'.root = opts.root

LEMMA NotedRightly ==
  ASSUME line \in Lines, AtAWord, Reading, StepsOn, NotesWord,
         SwitchesRead, FormatRead, BaselineRead, RootRead
  PROVE  SwitchesRead' /\ FormatRead' /\ BaselineRead' /\ RootRead'
<1>1. /\ index \in DOMAIN line /\ index \in Nat \ {0} /\ line' = line /\ Word = line[index]
      /\ DOMAIN line = 1..Len(line) /\ Len(line) \in Nat
  BY Here, LineFacts DEF StepsOn, Word
<1>2. \A w : Passed(Contract!At(w))' = Passed(Contract!At(w)) \cup {i \in {index} : Word = w}
  BY OneMoreWord
<1>3. \A w : \A i \in Passed(Contract!At(w)) : i \in Nat /\ i < index
  BY <1>1 DEF Passed, Contract!At, Contract!Spoken
<1>4. SwitchesRead'
  BY <1>2 DEF SwitchesRead, NotesWord
<1>5. FormatRead'
  <2> DEFINE said == Passed(Contract!At("--json") \cup Contract!At("--format"))
  <2>1. said = Passed(Contract!At("--json")) \cup Passed(Contract!At("--format"))
    BY DEF Passed
  <2>2. said' = Passed(Contract!At("--json"))' \cup Passed(Contract!At("--format"))'
    BY DEF Passed
  <2>3. said' = said \cup {i \in {index} : Word \in {"--json", "--format"}}
    BY <1>2, <2>1, <2>2
  <2>4. \A i \in said : i \in Nat /\ i < index
    BY <1>3, <2>1
  <2>5. FormatRead <=> /\ opts.format \in Formats
                       /\ opts.format = "json" <=>
                            \E i \in said : /\ \A j \in said : j <= i
                                            /\ line[i] = "--json" \/ line[i + 1] = "json"
    BY DEF FormatRead
  <2>6. FormatRead' <=> /\ opts'.format \in Formats
                        /\ opts'.format = "json" <=>
                             \E i \in said' : /\ \A j \in said' : j <= i
                                              /\ line[i] = "--json" \/ line[i + 1] = "json"
    BY <1>1 DEF FormatRead
  <2> HIDE DEF said
  <2>7. CASE Word \in {"--json", "--format"}
    <3>1. index \in said' /\ \A j \in said' : j \in Nat /\ j <= index
      BY <1>1, <2>3, <2>4, <2>7
    <3>2. \A i \in said' : (\A j \in said' : j <= i) <=> i = index
      BY <1>1, <3>1
    <3> QED BY <1>1, <2>6, <2>7, <3>1, <3>2 DEF NotesWord
  <2>8. CASE Word \notin {"--json", "--format"}
    <3>1. said' = said
      BY <2>3, <2>8
    <3> QED BY <2>5, <2>6, <2>8, <3>1 DEF NotesWord
  <2> QED BY <2>7, <2>8
<1>6. BaselineRead'
  <2> DEFINE said == Passed(Contract!At("--baseline"))
  <2>1. said' = said \cup {i \in {index} : Word = "--baseline"}
    BY <1>2
  <2>2. \A i \in said : i \in Nat /\ i < index
    BY <1>3
  <2>3. BaselineRead <=> IF said = {} THEN opts.baseline = None
                         ELSE \E i \in said : /\ \A j \in said : j <= i
                                              /\ i + 1 \in DOMAIN line /\ opts.baseline = line[i + 1]
    BY DEF BaselineRead
  <2>4. BaselineRead' <=> IF said' = {} THEN opts'.baseline = None
                          ELSE \E i \in said' : /\ \A j \in said' : j <= i
                                               /\ i + 1 \in DOMAIN line /\ opts'.baseline = line[i + 1]
    BY <1>1 DEF BaselineRead
  <2> HIDE DEF said
  <2>5. CASE Word = "--baseline"
    <3>1. index \in said' /\ \A j \in said' : j <= index
      BY <1>1, <2>1, <2>2, <2>5
    <3>2. index + 1 \in DOMAIN line /\ opts'.baseline = line[index + 1]
      BY <1>1, <2>5 DEF NotesWord, HasNext
    <3> QED BY <2>4, <3>1, <3>2
  <2>6. CASE Word # "--baseline"
    <3>1. said' = said
      BY <2>1, <2>6
    <3> QED BY <2>3, <2>4, <2>6, <3>1 DEF NotesWord
  <2> QED BY <2>5, <2>6
<1>7. RootRead'
  <2>1. Passed(Roots)' = Passed(Roots) \cup {i \in {index} : Word \notin Dashed}
    BY OneMoreWord
  <2>2. RootRead <=> IF Passed(Roots) = {} THEN opts.root = None
                     ELSE \E i \in Passed(Roots) : Passed(Roots) = {i} /\ opts.root = line[i]
    BY DEF RootRead, Roots
  <2>3. RootRead' <=> IF Passed(Roots)' = {} THEN opts'.root = None
                      ELSE \E i \in Passed(Roots)' : Passed(Roots)' = {i} /\ opts'.root = line[i]
    BY <1>1 DEF RootRead, Roots
  <2>4. opts.root = None => Passed(Roots) = {}
    <3>1. \A i \in Passed(Roots) : line[i] \in Unicode
      BY DEF Passed, Roots, AtAWord
    <3> QED BY <2>2, <3>1, WordsAssumption
  <2>5. CASE Word \notin Dashed
    BY <1>1, <2>1, <2>3, <2>4, <2>5 DEF NotesWord
  <2>6. CASE Word \in Dashed
    <3>1. Passed(Roots)' = Passed(Roots)
      BY <2>1, <2>6
    <3> QED BY <2>2, <2>3, <2>6, <3>1 DEF NotesWord
  <2> QED BY <2>5, <2>6
<1> QED BY <1>4, <1>5, <1>6, <1>7

-----------------------------------------------------------------------------
(* The invariant of the reading                                             *)

LEMMA ParseInitRead == ParseInit => ReadInv
<1> SUFFICES ASSUME ParseInit PROVE ReadInv
  OBVIOUS
<1>1. opts \in [switches : SUBSET Switches, format : Formats,
                baseline : Unicode \cup {None}, root : Unicode \cup {None}]
  BY DEF ParseInit, NoOptions, Formats
<1>2. line \in Lines /\ Len(line) \in Nat /\ index \in 1..(Len(line) + 1)
  BY LineFacts DEF ParseInit
<1> QED BY <1>1, <1>2 DEF ParseInit, ReadInv

\* The reading starts at a word, with nothing said.
LEMMA StartOfLine ==
  ASSUME line \in Lines, index = 1, opts = NoOptions, \A i \in DOMAIN line : line[i] \in Unicode
  PROVE  AtAWord /\ SwitchesRead /\ FormatRead /\ BaselineRead /\ RootRead
<1>1. Len(line) \in Nat /\ DOMAIN line = 1..Len(line)
  BY LineFacts
<1>2. ~Contract!IsValue(1)
  BY ValueStep
<1>3. \A S \in SUBSET DOMAIN line : Passed(S) = {}
  BY <1>1 DEF Passed
<1>4. /\ Passed(Contract!Ends) = {} /\ Passed(Roots) = {}
      /\ \A w : Contract!At(w) \subseteq DOMAIN line /\ Passed(Contract!At(w)) = {}
  BY <1>3 DEF Roots, Contract!Ends, Contract!At, Contract!Spoken
<1>5. Passed(Contract!At("--json") \cup Contract!At("--format")) = {}
  BY <1>3, <1>4
<1>6. AtAWord
  BY <1>1, <1>2, <1>4 DEF AtAWord
<1>7. SwitchesRead
  BY <1>4 DEF SwitchesRead, NoOptions
<1>8. FormatRead
  BY <1>5 DEF FormatRead, NoOptions, Formats
<1>9. BaselineRead /\ RootRead
  BY <1>4 DEF BaselineRead, RootRead, Roots, NoOptions
<1> QED BY <1>6, <1>7, <1>8, <1>9

\* A step that goes on keeps the invariant.
LEMMA ReadOn ==
  ASSUME ReadInv, status = "read", Reading, StepsOn, NotesWord, UNCHANGED status,
         opts' \in [switches : SUBSET Switches, format : Formats,
                   baseline : Unicode \cup {None}, root : Unicode \cup {None}]
  PROVE  ReadInv'
<1>1. AtAWord' /\ SwitchesRead' /\ FormatRead' /\ BaselineRead' /\ RootRead'
  BY OneMoreWord, NotedRightly DEF ReadInv
<1>2. line' \in Lines
  BY DEF ReadInv, StepsOn
<1> QED BY <1>1, <1>2 DEF ReadInv, AtAWord

LEMMA SameReading ==
  ASSUME UNCHANGED <<line, index, opts>>
  PROVE  /\ AtAWord' = AtAWord /\ SwitchesRead' = SwitchesRead /\ FormatRead' = FormatRead
         /\ BaselineRead' = BaselineRead /\ RootRead' = RootRead
<1>1. \A i : Contract!IsValue(i)' = Contract!IsValue(i)
  BY DEF Contract!IsValue
<1>2. /\ Contract!Ends' = Contract!Ends /\ Roots' = Roots
      /\ \A w : Contract!At(w)' = Contract!At(w)
  BY <1>1 DEF Contract!Ends, Contract!IsMistake, Contract!IsHelp, Contract!IsRoot, Contract!Spoken,
              Contract!At, Roots
<1>3. AtAWord' = AtAWord
  BY <1>1, <1>2 DEF AtAWord, Passed
<1>4. SwitchesRead' = SwitchesRead
  BY <1>2 DEF SwitchesRead, Passed
<1>5. FormatRead' = FormatRead
  BY <1>2 DEF FormatRead, Passed
<1>6. BaselineRead' = BaselineRead
  BY <1>2 DEF BaselineRead, Passed
<1>7. RootRead' = RootRead
  BY <1>2 DEF RootRead, Passed, Roots
<1> QED BY <1>3, <1>4, <1>5, <1>6, <1>7

LEMMA SwitchOn == ReadInv /\ ReadSwitch => ReadInv'
<1> SUFFICES ASSUME ReadInv, ReadSwitch PROVE ReadInv'
  OBVIOUS
<1>1. /\ Reading /\ AtAWord /\ line \in Lines /\ Word \in Switches /\ Advance(1, opts')
      /\ opts' = [opts EXCEPT !.switches = @ \cup {Word}]
  BY DEF ReadSwitch, Advance, ReadInv, Reading
<1>2. Word \notin Valued /\ Word \notin {"--json", "--format", "--baseline"} /\ Word \in Known
      /\ Word \in Dashed /\ Word \notin HelpWords
  BY <1>1, WordsAssumption DEF Switches, Valued, Known, HelpWords
<1>3. index \notin Contract!Ends
  BY <1>1, <1>2, Here, SameWords
  DEF Contract!Ends, Contract!IsMistake, Contract!IsHelp, Contract!IsRoot, Contract!Spoken, Word
<1>4. StepsOn
  BY <1>1, <1>2, <1>3 DEF StepsOn, Advance
<1>5. NotesWord /\ opts' \in [switches : SUBSET Switches, format : Formats,
                              baseline : Unicode \cup {None}, root : Unicode \cup {None}]
  BY <1>1, <1>2 DEF NotesWord, ReadInv
<1> QED BY <1>1, <1>4, <1>5, ReadOn DEF Advance, Reading

LEMMA JsonOn == ReadInv /\ ReadJson => ReadInv'
<1> SUFFICES ASSUME ReadInv, ReadJson PROVE ReadInv'
  OBVIOUS
<1>1. /\ Reading /\ AtAWord /\ line \in Lines /\ Word = "--json" /\ Advance(1, opts')
      /\ opts' = [opts EXCEPT !.format = "json"]
  BY DEF ReadJson, Advance, ReadInv, Reading
<1>2. Word \notin Valued /\ Word \notin Switches /\ Word \in Known
      /\ Word \in Dashed /\ Word \notin HelpWords
  BY <1>1, WordsAssumption DEF Switches, Valued, Known, HelpWords
<1>3. index \notin Contract!Ends
  BY <1>1, <1>2, Here, SameWords
  DEF Contract!Ends, Contract!IsMistake, Contract!IsHelp, Contract!IsRoot, Contract!Spoken, Word
<1>4. StepsOn
  BY <1>1, <1>2, <1>3 DEF StepsOn, Advance
<1>5. NotesWord /\ opts' \in [switches : SUBSET Switches, format : Formats,
                              baseline : Unicode \cup {None}, root : Unicode \cup {None}]
  BY <1>1, <1>2 DEF NotesWord, ReadInv, Formats
<1> QED BY <1>1, <1>4, <1>5, ReadOn DEF Advance, Reading

LEMMA FormatOn == ReadInv /\ ReadFormat => ReadInv'
<1> SUFFICES ASSUME ReadInv, ReadFormat PROVE ReadInv'
  OBVIOUS
<1>1. /\ Reading /\ AtAWord /\ line \in Lines /\ Word = "--format" /\ Advance(2, opts')
      /\ HasNext /\ line[index + 1] \in Formats
      /\ opts' = [opts EXCEPT !.format = line[index + 1]]
  BY DEF ReadFormat, Advance, ReadInv, Reading
<1>2. Word \in Valued /\ Word \notin Switches /\ Word \in Dashed
  BY <1>1, WordsAssumption DEF Switches, Valued, Known
<1>3. StepsOn
  BY <1>1, <1>2 DEF StepsOn, Advance
<1>4. NotesWord /\ opts' \in [switches : SUBSET Switches, format : Formats,
                              baseline : Unicode \cup {None}, root : Unicode \cup {None}]
  BY <1>1, <1>2 DEF NotesWord, ReadInv
<1> QED BY <1>1, <1>3, <1>4, ReadOn DEF Advance, Reading

LEMMA BaselineOn == ReadInv /\ ReadBaseline => ReadInv'
<1> SUFFICES ASSUME ReadInv, ReadBaseline PROVE ReadInv'
  OBVIOUS
<1>1. /\ Reading /\ AtAWord /\ line \in Lines /\ Word = "--baseline" /\ Advance(2, opts')
      /\ HasNext /\ opts' = [opts EXCEPT !.baseline = line[index + 1]]
  BY DEF ReadBaseline, Advance, ReadInv, Reading
<1>2. Word \in Valued /\ Word \notin Switches /\ Word \in Dashed
  BY <1>1, WordsAssumption DEF Switches, Valued, Known
<1>3. StepsOn
  BY <1>1, <1>2 DEF StepsOn, Advance
<1>4. line[index + 1] \in Unicode
  BY <1>1, Here, LineFacts DEF AtAWord, HasNext
<1>5. NotesWord /\ opts' \in [switches : SUBSET Switches, format : Formats,
                              baseline : Unicode \cup {None}, root : Unicode \cup {None}]
  BY <1>1, <1>2, <1>4 DEF NotesWord, ReadInv
<1> QED BY <1>1, <1>3, <1>5, ReadOn DEF Advance, Reading

LEMMA RootOn == ReadInv /\ ReadRoot => ReadInv'
<1> SUFFICES ASSUME ReadInv, ReadRoot PROVE ReadInv'
  OBVIOUS
<1>1. /\ Reading /\ AtAWord /\ line \in Lines /\ Word \notin Dashed /\ Advance(1, opts')
      /\ opts.root = None /\ opts' = [opts EXCEPT !.root = Word] /\ RootRead
  BY DEF ReadRoot, Advance, ReadInv, Reading
<1>2. Word \notin Valued /\ Word \notin Switches /\ Word \notin HelpWords
      /\ Word \notin {"--json", "--format", "--baseline"}
  BY <1>1, WordsAssumption DEF Known, Valued
<1>3. Passed(Roots) = {}
  <2>1. \A i \in Passed(Roots) : line[i] # None
    BY <1>1, WordsAssumption DEF Passed, Roots, AtAWord
  <2> QED BY <1>1, <2>1 DEF RootRead, Roots
<1>4. index \notin Contract!Ends
  BY <1>1, <1>2, <1>3, Here, SameWords
  DEF Contract!Ends, Contract!IsMistake, Contract!IsHelp, Contract!IsRoot, Contract!Spoken, Word,
      Passed, Roots
<1>5. StepsOn
  BY <1>1, <1>2, <1>4 DEF StepsOn, Advance
<1>6. Word \in Unicode
  BY <1>1, Here
<1>7. NotesWord /\ opts' \in [switches : SUBSET Switches, format : Formats,
                              baseline : Unicode \cup {None}, root : Unicode \cup {None}]
  BY <1>1, <1>2, <1>6 DEF NotesWord, ReadInv
<1> QED BY <1>1, <1>5, <1>7, ReadOn DEF Advance, Reading

LEMMA CollectOn == ReadInv /\ Collect => ReadInv'
<1> SUFFICES ASSUME ReadInv, Collect PROVE ReadInv'
  OBVIOUS
<1>1. line \in Lines /\ index = 1 /\ opts = NoOptions /\ UNCHANGED <<line, index, opts>>
      /\ status' = IF \A i \in DOMAIN line : line[i] \in Unicode THEN "read" ELSE "panic"
  BY DEF Collect, Leave, ReadInv
<1>2. status' = "read" => AtAWord /\ SwitchesRead /\ FormatRead /\ BaselineRead /\ RootRead
  BY <1>1, StartOfLine
<1>3. status' \in {"read", "panic"}
  BY <1>1
<1> QED BY <1>1, <1>2, <1>3, SameReading DEF ReadInv

\* Leaving keeps what was read.
LEMMA LeaveOn ==
  ASSUME ReadInv, status = "read",
         FormatMistake \/ BaselineMistake \/ UnknownFlag \/ ExtraArgument \/ ReadHelp \/ Reject
  PROVE  ReadInv'
<1>1. UNCHANGED <<line, index, opts>> /\ status' \in {"help", "usage error"}
  BY DEF FormatMistake, BaselineMistake, UnknownFlag, ExtraArgument, ReadHelp, Reject, Leave
<1> QED BY <1>1 DEF ReadInv

LEMMA AcceptOn == ReadInv /\ Accept => ReadInv'
<1> SUFFICES ASSUME ReadInv, Accept PROVE ReadInv'
  OBVIOUS
<1>1. UNCHANGED <<line, index, opts>> /\ status' = "accepted" /\ status = "read"
      /\ index > Len(line) /\ ~UpdatesNothing /\ Root \in Resolves
  BY DEF Accept, AllRead, Leave
<1>2. index = Len(line) + 1
  BY <1>1, LineFacts DEF ReadInv
<1>3. ~UpdatesNothing' /\ Root' \in Resolves
  BY <1>1 DEF UpdatesNothing, Root
<1> QED BY <1>1, <1>2, <1>3, SameReading DEF ReadInv

LEMMA ParseNextOn == ReadInv /\ ParseNext => ReadInv'
<1>1. Reading \/ AllRead => status = "read"
  BY DEF Reading, AllRead
<1> QED BY <1>1, CollectOn, SwitchOn, JsonOn, FormatOn, BaselineOn, RootOn, LeaveOn, AcceptOn
        DEF ParseNext, FormatMistake, BaselineMistake, UnknownFlag, ExtraArgument, ReadHelp, Reject

LEMMA ParseStutter == ReadInv /\ UNCHANGED parsing => ReadInv'
<1> SUFFICES ASSUME ReadInv, UNCHANGED parsing PROVE ReadInv'
  OBVIOUS
<1>1. UNCHANGED <<line, index, opts, status>> /\ UpdatesNothing' = UpdatesNothing /\ Root' = Root
  BY DEF parsing, UpdatesNothing, Root
<1> QED BY <1>1, SameReading DEF ReadInv

-----------------------------------------------------------------------------
(* What the line means                                                      *)

\* Where a word ends the reading and none before it does, the answer is its.
LEMMA MeaningOfEnd ==
  ASSUME line \in Lines, \A i \in DOMAIN line : line[i] \in Unicode,
         NEW n \in Contract!Ends, \A j \in Contract!Ends : n <= j
  PROVE  /\ Contract!IsHelp(n) => Contract!Meaning = [is |-> "help", args |-> NoArgs]
         /\ ~Contract!IsHelp(n) => Contract!Meaning = [is |-> "usage error", args |-> NoArgs]
<1>1. \A i \in Contract!Ends : i \in Nat
  BY LineFacts DEF Contract!Ends
<1>2. Contract!First \in Contract!Ends /\ \A j \in Contract!Ends : Contract!First <= j
  BY DEF Contract!First
<1>3. Contract!First = n
  BY <1>1, <1>2
<1> QED BY <1>3 DEF Contract!Meaning, Contract!Just, Contract!NoArgs, NoArgs

\* Of places on a line one is the last.
LEMMA LastOf ==
  ASSUME NEW n \in Nat, NEW S \in SUBSET (1..n), S # {}
  PROVE  \E i \in S : \A j \in S : j <= i
<1> DEFINE Back == {n - i : i \in S}
<1>1. Back \subseteq Nat /\ Back # {}
  <2>1. \A i \in S : n - i \in Nat
    OBVIOUS
  <2>2. PICK i : i \in S
    OBVIOUS
  <2> QED BY <2>1, <2>2
<1>2. PICK b \in Back : \A k \in Back : b <= k
  BY <1>1, LeastNat
<1>3. PICK i \in S : b = n - i
  BY <1>2
<1>4. ASSUME NEW j \in S PROVE j <= i
  BY <1>2, <1>3
<1> QED BY <1>4

\* What was read of a whole line is what the line says.
LEMMA MeaningOfAll ==
  ASSUME ReadInv, AtAWord, SwitchesRead, FormatRead, BaselineRead, RootRead, index = Len(line) + 1
  PROVE  /\ Contract!Ends = {}
         /\ opts.switches = {w \in Switches : Contract!Says(w)}
         /\ opts.format = "json" <=> Contract!Json
         /\ opts.baseline = Contract!File
         /\ Root = Contract!Root
<1>1. line \in Lines /\ Len(line) \in Nat /\ DOMAIN line = 1..Len(line)
  BY LineFacts DEF ReadInv
<1>2. \A S \in SUBSET DOMAIN line : Passed(S) = S
  BY <1>1 DEF Passed
<1>3. /\ Passed(Contract!Ends) = Contract!Ends /\ Passed(Roots) = Roots
      /\ \A w : Contract!At(w) \subseteq DOMAIN line /\ Passed(Contract!At(w)) = Contract!At(w)
  BY <1>2 DEF Roots, Contract!Ends, Contract!At, Contract!Spoken
<1>4. Contract!Ends = {}
  BY <1>3 DEF AtAWord
<1>5. opts.switches = {w \in Switches : Contract!Says(w)}
  BY <1>3 DEF SwitchesRead, Contract!Says
<1>6. opts.format = "json" <=> Contract!Json
  <2> DEFINE said == Contract!At("--json") \cup Contract!At("--format")
  <2>1. said \subseteq DOMAIN line /\ Passed(said) = said
    BY <1>2, <1>3
  <2>2. opts.format = "json" <=>
          \E i \in said : /\ \A j \in said : j <= i
                          /\ line[i] = "--json" \/ line[i + 1] = "json"
    BY <2>1 DEF FormatRead
  <2>3. Contract!Json <=>
          /\ said # {}
          /\ line[Contract!Last(said)] = "--json" \/ line[Contract!Last(said) + 1] = "json"
    BY DEF Contract!Json
  <2> HIDE DEF said
  <2>4. CASE said = {}
    BY <2>2, <2>3, <2>4
  <2>5. CASE said # {}
    <3>1. \E i \in said : \A j \in said : j <= i
      BY <1>1, <2>1, <2>5, LastOf
    <3>2. Contract!Last(said) \in said /\ \A j \in said : j <= Contract!Last(said)
      BY <3>1 DEF Contract!Last
    <3>3. \A i \in said : (\A j \in said : j <= i) <=> i = Contract!Last(said)
      BY <1>1, <2>1, <3>2
    <3> QED BY <2>2, <2>3, <2>5, <3>2, <3>3
  <2> QED BY <2>4, <2>5
<1>7. opts.baseline = Contract!File
  <2> DEFINE said == Contract!At("--baseline")
  <2>1. said \subseteq DOMAIN line /\ Passed(said) = said
    BY <1>3
  <2>2. IF said = {} THEN opts.baseline = None
        ELSE \E i \in said : (\A j \in said : j <= i) /\ opts.baseline = line[i + 1]
    BY <2>1 DEF BaselineRead
  <2>3. Contract!File = IF said # {} THEN line[Contract!Last(said) + 1] ELSE None
    BY DEF Contract!File, Contract!Says
  <2> HIDE DEF said
  <2>4. ASSUME said # {} PROVE opts.baseline = line[Contract!Last(said) + 1]
    <3>1. PICK i \in said : (\A j \in said : j <= i) /\ opts.baseline = line[i + 1]
      BY <2>2, <2>4
    <3>2. Contract!Last(said) \in said /\ \A j \in said : j <= Contract!Last(said)
      BY <3>1 DEF Contract!Last
    <3>3. i = Contract!Last(said)
      BY <1>1, <2>1, <3>1, <3>2
    <3> QED BY <3>1, <3>3
  <2> QED BY <2>2, <2>3, <2>4
<1>8. Root = Contract!Root
  <2>1. IF Roots = {} THEN opts.root = None ELSE \E i \in Roots : Roots = {i} /\ opts.root = line[i]
    BY <1>3 DEF RootRead, Roots
  <2>2. CASE Roots = {}
    BY <2>1, <2>2 DEF Root, Contract!Root, Roots
  <2>3. CASE Roots # {}
    <3>1. PICK i \in Roots : Roots = {i} /\ opts.root = line[i]
      BY <2>1, <2>3
    <3>2. \A j \in DOMAIN line : Contract!IsRoot(j) <=> j = i
      BY <3>1 DEF Roots
    <3>3. (CHOOSE j \in DOMAIN line : Contract!IsRoot(j)) = i
      BY <3>1, <3>2 DEF Roots
    <3>4. line[i] # None
      BY <3>1, WordsAssumption DEF AtAWord, Roots
    <3> QED BY <3>1, <3>2, <3>3, <3>4 DEF Root, Contract!Root, Roots
  <2> QED BY <2>2, <2>3
<1> QED BY <1>4, <1>5, <1>6, <1>7, <1>8

-----------------------------------------------------------------------------
(* Reading implements the meaning                                           *)

Answers == Contract!UsageNext

LEMMA Waiting ==
  ASSUME ReadInv, status \in {"collect", "read"}
  PROVE  Reply = [is |-> "waiting", args |-> NoArgs]
  BY DEF Reply

\* Going on answers nothing yet.
LEMMA OnIsSilent ==
  ASSUME ReadInv, ReadSwitch \/ ReadJson \/ ReadFormat \/ ReadBaseline \/ ReadRoot
  PROVE  UNCHANGED <<line, Reply>>
<1>1. status = "read" /\ status' = "read" /\ line' = line
  BY DEF ReadSwitch, ReadJson, ReadFormat, ReadBaseline, ReadRoot, Reading, Advance
<1> QED BY <1>1 DEF Reply

\* Leaving for a word that ends the reading answers that word.
LEMMA EndAnswers ==
  ASSUME ReadInv, AtAWord, status = "read", UNCHANGED line, NEW n \in Contract!Ends,
         \A j \in Contract!Ends : n <= j,
         status' = IF Contract!IsHelp(n) THEN "help" ELSE "usage error"
  PROVE  Answers
<1>1. line \in Lines /\ \A i \in DOMAIN line : line[i] \in Unicode
  BY DEF ReadInv, AtAWord
<1>2. Reply = [is |-> "waiting", args |-> NoArgs] /\ Reply' = [is |-> status', args |-> NoArgs]
  BY Waiting DEF Reply, NoArgs
<1>3. Reply' = Contract!Meaning
  BY <1>1, <1>2, MeaningOfEnd
<1> QED BY <1>2, <1>3 DEF Answers, Contract!UsageNext

\* The word about to be read is the first that can end the reading.
LEMMA NoEndBefore ==
  ASSUME ReadInv, AtAWord, NEW j \in Contract!Ends
  PROVE  j \in Nat /\ index \in Nat /\ index <= j
<1>1. Len(line) \in Nat /\ DOMAIN line = 1..Len(line) /\ index \in 1..(Len(line) + 1)
  BY LineFacts DEF ReadInv
<1>2. j \in Nat /\ index \in Nat
  BY <1>1 DEF Contract!Ends
<1> QED BY <1>2 DEF AtAWord, Passed

LEMMA MistakesAnswer ==
  ASSUME ReadInv, FormatMistake \/ BaselineMistake \/ UnknownFlag \/ ExtraArgument
  PROVE  Answers
<1>1. /\ Reading /\ status = "read" /\ AtAWord /\ RootRead /\ line \in Lines
      /\ UNCHANGED <<line, index, opts>> /\ status' = "usage error"
  BY DEF FormatMistake, BaselineMistake, UnknownFlag, ExtraArgument, Leave, Reading, ReadInv
<1>2. /\ index \in DOMAIN line /\ index \in Contract!Spoken /\ ~Contract!IsValue(index)
      /\ DOMAIN line = 1..Len(line) /\ Len(line) \in Nat
  BY <1>1, Here, LineFacts DEF Contract!Spoken
<1>3. \A j \in Contract!Ends : index <= j
  BY <1>1, NoEndBefore
<1>4. ASSUME index \in Contract!Ends, ~Contract!IsHelp(index) PROVE Answers
  BY <1>1, <1>3, <1>4, EndAnswers
<1>5. CASE FormatMistake \/ BaselineMistake
  <2>1. Word \in Valued /\ Word \in Known /\ Word \in Dashed /\ Word \notin HelpWords
    BY <1>5, WordsAssumption DEF FormatMistake, BaselineMistake, Known, Valued, HelpWords
  <2>2. ~Contract!IsHelp(index)
    BY <2>1, SameWords DEF Contract!IsHelp, Word
  <2>3. CASE ~HasNext
    <3>1. index = Len(line)
      BY <1>2, <2>3 DEF HasNext
    <3>2. Contract!IsMistake(index)
      BY <1>2, <2>1, <3>1, SameWords DEF Contract!IsMistake, Word
    <3> QED BY <1>2, <1>4, <2>2, <3>2 DEF Contract!Ends
  <2>4. CASE HasNext
    <3>1. Word = "--format" /\ line[index + 1] \notin Formats
      BY <1>5, <2>4 DEF FormatMistake, BaselineMistake
    <3>2. index + 1 \in DOMAIN line /\ (index + 1) - 1 = index
      BY <1>2, <2>4 DEF HasNext
    <3>3. Contract!IsValue(index + 1)
      BY <1>1, <2>1, Here
    <3>4. Contract!IsMistake(index + 1) /\ ~Contract!IsHelp(index + 1)
      BY <3>1, <3>2, <3>3, SameWords DEF Contract!IsMistake, Contract!IsHelp, Contract!Spoken, Word
    <3>5. index \notin Contract!Ends
      <4>1. index # Len(line) /\ line[index] \in Known /\ line[index] \in Dashed
        BY <1>2, <2>1, <2>4 DEF HasNext, Word
      <4> QED BY <4>1, <1>2, <2>2, SameWords DEF Contract!Ends, Contract!IsMistake, Contract!IsRoot
    <3>6. index + 1 \in Contract!Ends /\ \A j \in Contract!Ends : index + 1 <= j
      <4>1. \A j \in Contract!Ends : j \in Nat /\ index <= j /\ j # index
        BY <1>1, <3>5, NoEndBefore
      <4> QED BY <4>1, <1>2, <3>2, <3>4 DEF Contract!Ends
    <3> QED BY <1>1, <3>4, <3>6, EndAnswers
  <2> QED BY <2>3, <2>4
<1>6. CASE UnknownFlag
  <2>1. Word \in Dashed \ Known /\ Word \notin HelpWords
    BY <1>6 DEF UnknownFlag, Known
  <2>2. Contract!IsMistake(index) /\ ~Contract!IsHelp(index)
    BY <1>2, <2>1, SameWords DEF Contract!IsMistake, Contract!IsHelp, Word
  <2> QED BY <1>2, <1>4, <2>2 DEF Contract!Ends
<1>7. CASE ExtraArgument
  <2>1. Word \notin Dashed /\ Word \notin HelpWords
    BY <1>7, WordsAssumption DEF ExtraArgument, Known
  <2>2. PICK j \in Passed(Roots) : TRUE
    BY <1>1, <1>7 DEF ExtraArgument, RootRead, Roots
  <2>3. j \in DOMAIN line /\ j < index /\ Contract!IsRoot(j)
    BY <2>2 DEF Passed, Roots
  <2>4. Contract!IsMistake(index) /\ ~Contract!IsHelp(index)
    BY <1>2, <2>1, <2>3, SameWords DEF Contract!IsMistake, Contract!IsHelp, Contract!IsRoot, Word
  <2> QED BY <1>2, <1>4, <2>4 DEF Contract!Ends
<1> QED BY <1>5, <1>6, <1>7

LEMMA HelpAnswers == ReadInv /\ ReadHelp => Answers
<1> SUFFICES ASSUME ReadInv, ReadHelp PROVE Answers
  OBVIOUS
<1>1. /\ Reading /\ status = "read" /\ AtAWord /\ line \in Lines /\ Word \in HelpWords
      /\ UNCHANGED line /\ status' = "help"
  BY DEF ReadHelp, Leave, Reading, ReadInv
<1>2. index \in DOMAIN line /\ Contract!IsHelp(index)
  BY <1>1, Here, SameWords DEF Contract!IsHelp, Word
<1>3. index \in Contract!Ends /\ \A j \in Contract!Ends : index <= j
  BY <1>1, <1>2, NoEndBefore DEF Contract!Ends
<1> QED BY <1>1, <1>2, <1>3, EndAnswers

LEMMA AllReadAnswers == ReadInv /\ (Reject \/ Accept) => Answers
<1> SUFFICES ASSUME ReadInv, Reject \/ Accept PROVE Answers
  OBVIOUS
<1>1. /\ AllRead /\ status = "read" /\ AtAWord /\ SwitchesRead /\ FormatRead /\ BaselineRead
      /\ RootRead /\ line \in Lines /\ UNCHANGED <<line, index, opts>>
      /\ \A i \in DOMAIN line : line[i] \in Unicode
  BY DEF Reject, Accept, AllRead, Leave, ReadInv, AtAWord
<1>2. index = Len(line) + 1
  BY <1>1, LineFacts DEF AllRead, AtAWord
<1>3. /\ Contract!Ends = {}
      /\ opts.switches = {w \in Switches : Contract!Says(w)}
      /\ opts.format = "json" <=> Contract!Json
      /\ opts.baseline = Contract!File /\ Root = Contract!Root
  BY <1>1, <1>2, MeaningOfAll
<1>4. UpdatesNothing <=> Contract!Says("--update-baseline") /\ Contract!File = None
  BY <1>3 DEF UpdatesNothing, Switches
<1>5. Reply = [is |-> "waiting", args |-> NoArgs] /\ line' = line
  BY <1>1, Waiting
<1>6. CASE Reject
  <2>1. Reply' = [is |-> "usage error", args |-> NoArgs]
    BY <1>6 DEF Reject, Leave, Reply
  <2>2. Contract!Meaning = [is |-> "usage error", args |-> NoArgs]
    BY <1>1, <1>3, <1>4, <1>6 DEF Reject, Contract!Meaning, Contract!Just, Contract!NoArgs, NoArgs
  <2> QED BY <1>5, <2>1, <2>2 DEF Answers, Contract!UsageNext
<1>7. CASE Accept
  <2>1. Reply' = [is |-> "accepted", args |-> Args]
    BY <1>1, <1>7 DEF Accept, Leave, Reply, Args, Root
  <2>2. Contract!Meaning =
          [is |-> "accepted",
           args |-> [switches |-> {w \in Switches : Contract!Says(w)}, json |-> Contract!Json,
                     baseline |-> Contract!File, root |-> Contract!Root]]
    BY <1>1, <1>3, <1>4, <1>7, SameWords DEF Accept, Contract!Meaning
  <2>3. (opts.format = "json") = Contract!Json
    BY <1>3 DEF Contract!Json
  <2>4. Contract!Meaning = [is |-> "accepted", args |-> Args]
    BY <1>3, <2>2, <2>3, Zenon DEF Args
  <2> QED BY <1>5, <2>1, <2>4 DEF Answers, Contract!UsageNext
<1> QED BY <1>6, <1>7

LEMMA CollectAnswers == ReadInv /\ Collect => Answers \/ UNCHANGED <<line, Reply>>
<1> SUFFICES ASSUME ReadInv, Collect PROVE Answers \/ UNCHANGED <<line, Reply>>
  OBVIOUS
<1>1. /\ status = "collect" /\ UNCHANGED line
      /\ status' = IF \A i \in DOMAIN line : line[i] \in Unicode THEN "read" ELSE "panic"
  BY DEF Collect, Leave
<1>2. Reply = [is |-> "waiting", args |-> NoArgs]
  BY <1>1, Waiting
<1>3. CASE \A i \in DOMAIN line : line[i] \in Unicode
  BY <1>1, <1>2, <1>3 DEF Reply, NoArgs
<1>4. CASE \E i \in DOMAIN line : line[i] \notin Unicode
  <2>1. Reply' = [is |-> "panic", args |-> NoArgs]
    BY <1>1, <1>4 DEF Reply, NoArgs
  <2>2. Contract!Meaning = [is |-> "panic", args |-> NoArgs]
    BY <1>4 DEF Contract!Meaning, Contract!Just, Contract!NoArgs, NoArgs
  <2> QED BY <1>1, <1>2, <2>1, <2>2 DEF Answers, Contract!UsageNext
<1> QED BY <1>3, <1>4

\* Every step of parse_args is the step of the contract, or none.
LEMMA StepAnswers == ReadInv /\ [ParseNext]_parsing => [Contract!UsageNext]_<<line, Reply>>
<1>1. ReadInv /\ ParseNext => Answers \/ UNCHANGED <<line, Reply>>
  BY OnIsSilent, MistakesAnswer, HelpAnswers, AllReadAnswers, CollectAnswers DEF ParseNext
<1>2. UNCHANGED parsing => UNCHANGED <<line, Reply>>
  BY DEF parsing, Reply, Args, Root
<1> QED BY <1>1, <1>2 DEF Answers

LEMMA InitWaits == ParseInit => Contract!UsageInit
<1> SUFFICES ASSUME ParseInit PROVE Contract!UsageInit
  OBVIOUS
<1>1. Reply = [is |-> "waiting", args |-> NoArgs]
  BY DEF ParseInit, Reply
<1> QED BY <1>1 DEF ParseInit, NoArgs, Contract!UsageInit, Contract!Just, Contract!NoArgs

=============================================================================
