------------------------------ MODULE Anagrams ------------------------------
(***************************************************************************)
(* The pure part of the anagrams contest: the letters of a text            *)
(* (contest/letters.py), what a step file and the solution file say        *)
(* (contest/parse.py), and what a move does to the board the judge keeps   *)
(* (_apply_move in contest/verify.py).  No state.                          *)
(*                                                                         *)
(* A text is a word, a name or another piece of a line, stripped and       *)
(* normalized.  A file is a list of lines, one of                          *)
(*     [is |-> "field", key |-> k, texts |-> s]   k: t, t, ...   (s = <<>> *)
(*                                                begins a list)           *)
(*     [is |-> "item", texts |-> s]               - t, t, ...              *)
(*     [is |-> "equation", name |-> n, texts |-> s]       n = t + t ...    *)
(*     [is |-> "junk"]                            anything else            *)
(* and nothing between two commas is the text Blank.                       *)
(***************************************************************************)
EXTENDS Integers, Sequences
LOCAL INSTANCE SequencesExt

CONSTANTS
    Letters,    \* the alphabet
    LettersOf,  \* letters_of(text): how often each letter occurs in it
    Garble,     \* a text that is not made of letters alone
    Terms,      \* TERMS: the source words
    Names,      \* NAMES
    Broken,     \* the ways to write a name over several lines
    Pairs       \* PAIRS: the two source words each name is made of

Blank == "blank"

ASSUME AnagramsAssumption ==
    /\ Terms \cup Names \subseteq DOMAIN LettersOf
    /\ LettersOf \in [DOMAIN LettersOf -> [Letters -> Nat]]
    /\ {Garble, Blank} \cap (Terms \cup Names) = {} /\ Garble # Blank
    /\ \A m, n \in Names : m # n => Broken[m] \cap Broken[n] = {}
    /\ Pairs \in [Names -> SUBSET Terms]
    /\ \A n \in Names : \E v, w \in Pairs[n] : v # w /\ Pairs[n] = {v, w}

-----------------------------------------------------------------------------
(* Letters.                                                                *)

Together(bag1, bag2) == [l \in Letters |-> bag1[l] + bag2[l]]
IsSubmultiset(inner, outer) == \A l \in Letters : inner[l] <= outer[l]

\* The sealed key is in the letters: they decide which names a word is within,
\* and which two words a name is made of.
LettersDecide ==
    \A w \in Terms, n \in Names :
        /\ IsSubmultiset(LettersOf[w], LettersOf[n]) <=> w \in Pairs[n]
        /\ \A v \in Terms \ {w} :
              Together(LettersOf[v], LettersOf[w]) = LettersOf[n] <=> {v, w} = Pairs[n]
ASSUME KeyAssumption == LettersDecide

\* The letters of several texts, none of them garbled.
ParseLetters(texts) ==
    LET upTo[i \in 0..Len(texts)] ==
            IF i = 0 THEN [l \in Letters |-> 0]
            ELSE Together(upTo[i - 1], LettersOf[texts[i]])
    IN  upTo[Len(texts)]

-----------------------------------------------------------------------------
(* Values.  A field has the texts of its one line; a list has those of each *)
(* of its items, which parse_step joins with newlines.                      *)

NotBlank(text) == text # Blank
OneLine(texts) == IF Len(texts) = 1 THEN texts[1] ELSE Garble

\* A value read as one text: over several lines it is no word.
OneText(value) ==
    IF value = <<>> THEN Blank ELSE IF Len(value) = 1 THEN OneLine(value[1]) ELSE Garble

\* A value read as a name, which normalize_name puts on one line.
NameText(value) ==
    LET lines == [i \in 1..Len(value) |-> OneLine(value[i])]
        meant == {n \in Names : lines \in Broken[n]}
    IN  IF meant = {} THEN OneText(value) ELSE CHOOSE n \in meant : TRUE

\* _word_list: one line is split at its commas, several are a text each.
WordList(value) ==
    SelectSeq(IF Len(value) = 1 THEN value[1]
              ELSE [i \in 1..Len(value) |-> OneLine(value[i])], NotBlank)

\* parse_letter_list, which knows commas but not newlines: two lines with no
\* comma between them are a ValueError.
LetterTexts(value) == SelectSeq(FlattenSeq(value), NotBlank)
AreLetters(value) ==
    /\ \A i \in 1..(Len(value) - 1) : Blank \in {Last(value[i]), Head(value[i + 1])}
    /\ Garble \notin ToSet(LetterTexts(value))

-----------------------------------------------------------------------------
(* Step files.                                                             *)

Keys == {"kind", "name", "word", "letters", "from", "evidence", "words", "target"}
NoKey == "none"
Unparsable == [kind |-> "unparsable"]       \* ValueError

\* What parse_step has read so far: the fields given, and the list it is in.
NoFields ==
    [given |-> {}, fields |-> [k \in Keys |-> <<>>], list |-> NoKey,
     items |-> <<>>, bad |-> FALSE]
SetField(s, key, value) ==
    [s EXCEPT !.given = @ \cup {key}, !.fields[key] = value]
CloseList(s) ==
    IF s.list = NoKey THEN s
    ELSE [SetField(s, s.list, s.items) EXCEPT !.list = NoKey, !.items = <<>>]

ReadLine(s, line) ==
    CASE line.is = "item" /\ s.list # NoKey ->
            [s EXCEPT !.items = Append(@, line.texts)]
      [] line.is = "field" /\ line.texts = <<>> ->
            [CloseList(s) EXCEPT !.list = line.key]
      [] line.is = "field" /\ line.texts # <<>> ->
            SetField(CloseList(s), line.key, <<line.texts>>)
      [] OTHER -> [s EXCEPT !.bad = TRUE]

ReadLines(lines) ==
    LET upTo[i \in 0..Len(lines)] ==
            IF i = 0 THEN NoFields ELSE ReadLine(upTo[i - 1], lines[i])
    IN  CloseList(upTo[Len(lines)])

\* parse_step: the move, or Unparsable.
ParseStep(lines) ==
    LET s == ReadLines(lines)
        get(key, default) == IF key \in s.given THEN s.fields[key] ELSE default
        text(key) == OneText(get(key, <<>>))
        name == NameText(get("name", <<>>))
        letters == get("letters", <<>>)
        words == WordList(get("words", <<>>))
        target == OneText(get("target", <<<<"pair">>>>))
    IN  CASE s.bad -> Unparsable
          [] ~s.bad /\ text("kind") = "inventory" /\ AreLetters(letters) ->
                [kind |-> "inventory", name |-> name,
                 letters |-> ParseLetters(LetterTexts(letters))]
          [] ~s.bad /\ text("kind") = "extract" ->
                [kind |-> "extract", word |-> text("word"),
                 evidence |-> WordList(get("from", get("evidence", <<>>)))]
          [] ~s.bad /\ text("kind") = "pair" /\ Len(words) = 2 ->
                [kind |-> "pair", name |-> name, words |-> words]
          [] ~s.bad /\ text("kind") = "retract" /\ target \in {"extract", "pair"} ->
                [kind |-> "retract", target |-> target, name |-> name,
                 word |-> text("word")]
          [] OTHER -> Unparsable

-----------------------------------------------------------------------------
(* The solution file.                                                      *)

NoSolution == [kind |-> "unparsable"]       \* ValueError
TermsLine(line) == line.is = "field" /\ line.key = "terms"

\* parse_solution: a later line overrides an earlier one.
ParseSolution(lines) ==
    LET size == Len(lines)
        last(P(_)) ==
            CHOOSE i \in 1..size : P(lines[i]) /\ \A j \in i+1..size : ~P(lines[j])
        said(line) == SelectSeq(line.texts, NotBlank)
        equation(line) == line.is = "equation" /\ Len(said(line)) = 2
        named == {lines[i].name : i \in {j \in 1..size : equation(lines[j])}}
    IN  IF \/ \E i \in 1..size : ~TermsLine(lines[i]) /\ ~equation(lines[i])
           \/ \A i \in 1..size : ~TermsLine(lines[i])
        THEN NoSolution
        ELSE [kind |-> "solution",
              terms |-> ToSet(said(lines[last(TermsLine)])),
              pairs |-> [n \in named |->
                  LET ofName(line) == equation(line) /\ line.name = n
                  IN  ToSet(said(lines[last(ofName)]))]]

-----------------------------------------------------------------------------
(* The judge's board: the words extracted, the pairs found (no words where *)
(* a name has none), the codes of the issues, and whether an inventory and *)
(* an extract went through.                                                *)

EmptyBoard ==
    [extracted |-> {}, paired |-> [n \in Names |-> {}], issues |-> {},
     inventory |-> FALSE, extract |-> FALSE]

GoodInventory(move) ==
    /\ move.name \in Names
    /\ move.letters = LettersOf[move.name]

GoodExtract(move) ==
    /\ move.word \in Terms
    /\ move.evidence # <<>>
    /\ \A i \in 1..Len(move.evidence) :
          /\ move.evidence[i] \in Names
          /\ IsSubmultiset(LettersOf[move.word], LettersOf[move.evidence[i]])

GoodPair(extracted, move) ==
    /\ move.name \in Names
    /\ move.words[1] \in extracted /\ move.words[2] \in extracted
    /\ move.words[1] # move.words[2]
    /\ Together(LettersOf[move.words[1]], LettersOf[move.words[2]])
           = LettersOf[move.name]

GoodRetract(move) == (IF move.target = "extract" THEN move.word ELSE move.name) # Blank

\* Mutant: the pairs made with a retracted word stay.
WithoutWordOnly(board, word) == [board EXCEPT !.extracted = @ \ {word}]

\* Retracting a word takes the pairs made with it along.
WithoutWord(board, word) ==
    [board EXCEPT
        !.extracted = @ \ {word},
        !.paired = [n \in Names |-> IF word \in @[n] THEN {} ELSE @[n]]]

Issue(board, code) == [board EXCEPT !.issues = @ \cup {code}]

\* _apply_move, and the parse error of a step that says nothing.
ApplyMove(board, move) ==
    CASE move.kind = "inventory" ->
            IF GoodInventory(move) THEN [board EXCEPT !.inventory = TRUE]
            ELSE Issue(board, "bad_inventory")
      [] move.kind = "extract" ->
            IF GoodExtract(move)
            THEN [board EXCEPT !.extracted = @ \cup {move.word}, !.extract = TRUE]
            ELSE Issue(board, "bad_extract")
      [] move.kind = "pair" ->
            IF GoodPair(board.extracted, move)
            THEN [board EXCEPT !.paired[move.name] = {move.words[1], move.words[2]}]
            ELSE Issue(board, "bad_pair")
      [] move.kind = "retract" ->
            IF ~GoodRetract(move) THEN Issue(board, "bad_retract")
            ELSE IF move.target = "extract" THEN WithoutWord(board, move.word)
            ELSE IF move.name \in Names THEN [board EXCEPT !.paired[move.name] = {}]
            ELSE board
      [] OTHER -> Issue(board, "parse_error")

\* The issues verify_events finds on the board once every step is played.
BoardIssues(board) ==
    board.issues
        \cup (IF board.inventory THEN {} ELSE {"no_inventory"})
        \cup (IF board.extract THEN {} ELSE {"no_extract"})
        \cup (IF \E n \in Names : board.paired[n] = {} THEN {"missing_pair"} ELSE {})

\* The issues it finds in the solution file.
SolutionIssues(lines) ==
    LET solution == ParseSolution(lines)
    IN  IF solution = NoSolution THEN {"parse_error"}
        ELSE IF solution.terms = Terms /\ solution.pairs = Pairs THEN {}
        ELSE {"solution_mismatch"}
=============================================================================
