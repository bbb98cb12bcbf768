------------------------------ MODULE MCContest ------------------------------
(* A small contest for TLC: two source words, one name made of them.       *)
EXTENDS Contest, TLC
LOCAL INSTANCE Functions

CONSTANTS s1, s2, s3, s4, s5, sol, names,           \* addresses, and their paths
          list, inv, extA, extB, badB, undoA, pairAB, right    \* contents

Bag(seq) == [l \in {"a", "b", "c"} |-> Cardinality({i \in 1..Len(seq) : seq[i] = l})]
MCLettersOf ==
    ("ab" :> Bag(<<"a", "b">>) @@ "ac" :> Bag(<<"a", "c">>)
     @@ "n" :> Bag(<<"c", "a", "b", "a">>)
     @@ "a" :> Bag(<<"a">>) @@ "b" :> Bag(<<"b">>) @@ "c" :> Bag(<<"c">>))
MCPairs == ("n" :> {"ab", "ac"})
MCBroken == ("n" :> {<<"n1", "n2">>})

Field(k, s) == [is |-> "field", key |-> k, texts |-> s]
Item(t) == [is |-> "item", texts |-> <<t>>]
Equation(n, v, w) == [is |-> "equation", name |-> n, texts |-> <<v, w>>]
MCLinesOf ==
    (list :> <<[is |-> "junk"]>>
     @@ inv :> <<Field("kind", <<"inventory">>), Field("name", <<>>),
                 Item("n1"), Item("n2"), Field("letters", <<"a", "b", "ac", Blank>>)>>
     @@ extA :> <<Field("kind", <<"extract">>), Field("word", <<"ab">>),
                  Field("from", <<>>), Item("n")>>
     @@ extB :> <<Field("from", <<>>), Item("n"), Field("kind", <<"extract">>),
                  Field("word", <<"ac">>)>>
     @@ badB :> <<Field("kind", <<"extract">>), Field("word", <<"ac">>),
                  Field("from", <<>>)>>
     @@ undoA :> <<Field("kind", <<"retract">>), Field("target", <<"extract">>),
                   Field("word", <<"ab">>)>>
     @@ pairAB :> <<Field("kind", <<"pair">>), Field("name", <<"n">>),
                    Field("words", <<"ac", "ab">>)>>
     @@ right :> <<Field("terms", <<"ab", "ac">>), Equation("n", "ab", "ac")>>)

MCAddrs == {s1, s2, s3, s4, s5, sol, names}
MCPlace == [a \in MCAddrs |-> a]
MCContents == DOMAIN MCLinesOf
MCSizeOf == [c \in MCContents |-> 10]
MCFiles == [a \in MCAddrs |-> IF a = names THEN list ELSE Missing]
MCDrafts ==
    (s1 :> {inv} @@ s2 :> {extA, extB} @@ s3 :> {badB, extB} @@ s4 :> {pairAB}
     @@ s5 :> {undoA} @@ sol :> {right})
MCEdits == [a \in DOMAIN MCDrafts |-> IF a = s3 THEN {extB} ELSE {}]
MCTouches == [a \in MCAddrs |-> IF a \in {s2, s3} THEN 2 ELSE 1]

\* All of that at once is too much.  In the one game a bad step is edited and
\* committed again, and others race the judge, who may come at any time.  In the
\* other nobody edits, the names and the inventory come first and the judge
\* comes after the solution, but a step is overwritten with another move, or
\* with itself to extract a word again that was taken back.
Committed(a) == {i \in 1..Len(events) : events[i].addr = a}
Moves(a) == {events[i].digest : i \in Committed(a)}
EditedGame ==
    Committed(s5) = {} /\ Moves(s2) \subseteq {extA} /\ Cardinality(Committed(s2)) <= 1
AgainGame ==
    /\ Moves(s3) \subseteq {extB} /\ Cardinality(Committed(s3)) <= 1
    /\ raced = {} /\ \A p \in MCAddrs : tampered[p] = "no"
    /\ Len(events) >= 2 => events[2].addr = names
    /\ Len(events) >= 3 => events[3].addr = s1
    /\ judge # "idle" => SolutionEvent # 0
EitherGame == EditedGame \/ AgainGame

\* The contest the repository comes with (contest/anagrams.py): its words, its
\* names, its key.  What the theorems assume of a contest holds of it.
Space == <<"S", "P", "A", "C", "E">>
Time == <<"T", "I", "M", "E">>
Energy == <<"E", "N", "E", "R", "G", "Y">>
Number == <<"N", "U", "M", "B", "E", "R">>
PeteMicas == <<"P", "E", "T", "E", "M", "I", "C", "A", "S">>
SpenceGeary == <<"S", "P", "E", "N", "C", "E", "G", "E", "A", "R", "Y">>
ReubenCamps == <<"R", "E", "U", "B", "E", "N", "C", "A", "M", "P", "S">>
MegTierney == <<"M", "E", "G", "T", "I", "E", "R", "N", "E", "Y">>
BenMutimer == <<"B", "E", "N", "M", "U", "T", "I", "M", "E", "R">>
EmyRunenberg == <<"E", "M", "Y", "R", "U", "N", "E", "N", "B", "E", "R", "G">>
Key ==
    (PeteMicas :> {Space, Time} @@ SpenceGeary :> {Space, Energy}
     @@ ReubenCamps :> {Space, Number} @@ MegTierney :> {Time, Energy}
     @@ BenMutimer :> {Time, Number} @@ EmyRunenberg :> {Energy, Number})
Alphabet ==
    {"A", "B", "C", "E", "G", "I", "M", "N", "P", "R", "S", "T", "U", "Y"}
Count(text) ==
    [l \in Alphabet |-> Cardinality({i \in 1..Len(text) : text[i] = l})]

Anagram ==
    INSTANCE Anagrams WITH
        Letters <- Alphabet, Terms <- UNION Range(Key), Names <- DOMAIN Key,
        Pairs <- Key, Garble <- <<>>,
        Broken <- [text \in DOMAIN Key |-> {}],
        LettersOf <- [text \in DOMAIN Key \cup UNION Range(Key) |-> Count(text)]
ASSUME TheKeyAssumption == Anagram!LettersDecide

\* The forms of a value that parse_step tells apart: letters in a list are an
\* inventory only with a comma at every line end, words are two either way.
Letters2(s, t) ==
    ParseStep(<<Field("kind", <<"inventory">>), Field("name", <<"n">>),
                Field("letters", <<>>), [is |-> "item", texts |-> s],
                [is |-> "item", texts |-> t]>>)
Words2(lines) ==
    ParseStep(<<Field("kind", <<"pair">>), Field("name", <<"n">>)>> \o lines)
ASSUME ListsAssumption ==
    /\ Letters2(<<"a">>, <<"b">>) = Unparsable
    /\ Letters2(<<"a", Blank>>, <<"b">>).letters = Bag(<<"a", "b">>)
    /\ Words2(<<Field("words", <<>>), Item("ab"), Item("ac")>>)
          = Words2(<<Field("words", <<"ab", "ac">>)>>)
    /\ Words2(<<Field("words", <<"ab">>)>>) = Unparsable
=============================================================================
