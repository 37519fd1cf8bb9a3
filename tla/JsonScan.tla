------------------------------- MODULE JsonScan -------------------------------
(***************************************************************************)
(* scan_json.cpp: the loop of the scanner over an sbuf, and json_checker,  *)
(* the pushdown automaton it starts at each bracket.  A character is its   *)
(* class, as in ascii_class: "etc" is C_ETC, legal in strings only, and     *)
(* "ctrl" a control character, legal nowhere.                               *)
(***************************************************************************)
EXTENDS Integers, Sequences, FiniteSets

CONSTANTS
  Texts,         \* the sbufs scanned, [bytes : sequence of classes, pagesize : Nat]
  stacksize,     \* 256 in the code
  min_commas     \* 2 in the code: fewer commas are not worth a report

ASSUME JsonAssumption ==
  /\ stacksize \in Nat \ {0} /\ min_commas \in Nat
  /\ \A t \in Texts : t.bytes \in Seq(STRING) /\ t.pagesize \in 0 .. Len(t.bytes)

VARIABLES
  json_pc,       \* "loop" (looking for a bracket), "check", "done"
  json_sbuf,
  json_pos,      \* where the bracket was found, or looked for
  json_i,        \* the character about to be checked
  \* json_checker
  state, top, stack, reject, comma_count,
  json_feature   \* the intervals written to the feature file

checker == <<state, top, stack, reject, comma_count>>
json_vars == <<json_pc, json_sbuf, json_pos, json_i, checker, json_feature>>

json_bufsize == Len(json_sbuf.bytes)
json_char(k) == json_sbuf.bytes[k + 1]

-----------------------------------------------------------------------------
(* The transition table: the next state, or the name of an action *)

White == {"space", "white"}
Digit == {"zero", "digit"}
Hex == Digit \cup {"a", "b", "c", "d", "e", "f", "ABCDF", "E"}
\* states in which a number may end
Number == {"ZE", "IN", "FR", "E3"}

\* The states along true, false and null.
Letter == [T1 |-> <<"r", "T2">>, T2 |-> <<"u", "T3">>, T3 |-> <<"e", "OK">>,
           F1 |-> <<"a", "F2">>, F2 |-> <<"l", "F3">>, F3 |-> <<"s", "F4">>, F4 |-> <<"e", "OK">>,
           N1 |-> <<"u", "N2">>, N2 |-> <<"l", "N3">>, N3 |-> <<"l", "OK">>]
AfterHex == [U1 |-> "U2", U2 |-> "U3", U3 |-> "U4", U4 |-> "ST"]

value_start(c) ==
  CASE c = "{" -> "open_object" [] c = "[" -> "open_array" [] c = "quote" -> "ST"
    [] c = "minus" -> "MI" [] c = "zero" -> "ZE" [] c = "digit" -> "IN"
    [] c = "f" -> "F1" [] c = "n" -> "N1" [] c = "t" -> "T1" [] OTHER -> "error"

after_value(c) ==
  CASE c = "}" -> "close_object" [] c = "]" -> "close_array" [] c = "comma" -> "comma"
    [] c \in White -> "OK" [] OTHER -> "error"

state_transition_table(s, c) ==
  CASE s \in {"GO", "OB", "KE", "CO", "VA", "AR"} /\ c \in White -> s
    [] s = "GO" /\ c \in {"{", "["} -> value_start(c)
    [] s = "OK" -> after_value(c)
    [] s = "OB" /\ c = "}" -> "close_empty"
    [] s \in {"OB", "KE"} /\ c = "quote" -> "ST"
    [] s = "CO" /\ c = "colon" -> "colon"
    [] s = "AR" /\ c = "]" -> "close_array"
    [] s \in {"VA", "AR"} -> value_start(c)
    [] s = "ST" /\ c = "quote" -> "end_string"
    [] s = "ST" /\ c = "backs" -> "ES"
    [] s = "ST" /\ c # "white" -> "ST"
    [] s = "ES" /\ c \in {"quote", "backs", "slash", "b", "f", "n", "r", "t"} -> "ST"
    [] s = "ES" /\ c = "u" -> "U1"
    [] s \in DOMAIN AfterHex /\ c \in Hex -> AfterHex[s]
    [] s = "MI" /\ c \in Digit -> value_start(c)
    [] s \in {"ZE", "IN"} /\ c = "point" -> "FR"
    [] s \in {"IN", "FR", "E3"} /\ c \in Digit -> s
    [] s \in {"IN", "FR"} /\ c \in {"e", "E"} -> "E1"
    [] s = "E1" /\ c \in {"plus", "minus"} -> "E2"
    [] s \in {"E1", "E2"} /\ c \in Digit -> "E3"
    [] s \in Number -> after_value(c)
    [] s \in DOMAIN Letter /\ c = Letter[s][1] -> Letter[s][2]
    [] OTHER -> "error"

States == {"GO", "OK", "OB", "KE", "CO", "VA", "AR", "ST", "ES", "MI", "E1", "E2"}
          \cup Number \cup DOMAIN AfterHex \cup DOMAIN Letter
Modes == {"ARRAY", "DONE", "KEY", "OBJECT"}

JsonTypeOK ==
  /\ json_pc \in {"loop", "check", "done"}
  /\ json_pos \in Nat /\ json_i \in Nat
  /\ state \in States /\ top \in 0 .. stacksize /\ stack \in [0 .. stacksize - 1 -> Modes]
  /\ reject \in BOOLEAN /\ comma_count \in Nat
  /\ json_feature \subseteq (Nat \X Nat)

-----------------------------------------------------------------------------
(* json_checker *)

\* A constructed checker: stack() is zero, which is MODE_ARRAY, below the push.
NewStack == [k \in 0 .. stacksize - 1 |-> IF k = 0 THEN "DONE" ELSE "ARRAY"]

\* Mutant: DONE is not pushed.
NewChecker_NoPush == /\ state' = "GO" /\ top' = -1 /\ stack' = NewStack
                     /\ reject' = FALSE /\ comma_count' = 0

NewChecker == /\ state' = "GO" /\ top' = 0 /\ stack' = NewStack
              /\ reject' = FALSE /\ comma_count' = 0

check_if_done == state' = "OK" /\ top' = 0

Rejected == reject' = TRUE /\ UNCHANGED <<state, top, stack>>

\* What pop(mode) returns.
Poppable(mode) == top >= 0 /\ stack[top] = mode

\* Mutant: the last cell of the stack is thought to be free for one more.
push_Late(mode, next) ==
  /\ top' = top + 1
  /\ IF top + 1 <= stacksize
     THEN stack' = [stack EXCEPT ![top + 1] = mode] /\ state' = next /\ UNCHANGED reject
     ELSE reject' = TRUE /\ UNCHANGED <<stack, state>>

push(mode, next) ==
  /\ top' = top + 1
  /\ IF top + 1 < stacksize
     THEN stack' = [stack EXCEPT ![top + 1] = mode] /\ state' = next /\ UNCHANGED reject
     ELSE reject' = TRUE /\ UNCHANGED <<stack, state>>

\* Mutant: the mode on the stack is not looked at.
pop_AnyMode(mode) ==
  IF top >= 0 THEN top' = top - 1 /\ state' = "OK" /\ UNCHANGED <<stack, reject>> ELSE Rejected

pop(mode) ==
  IF Poppable(mode) THEN top' = top - 1 /\ state' = "OK" /\ UNCHANGED <<stack, reject>> ELSE Rejected

\* A pop followed by a push: the cell is overwritten.
flip(from, to, next) ==
  IF Poppable(from)
  THEN stack' = [stack EXCEPT ![top] = to] /\ state' = next /\ UNCHANGED <<top, reject>>
  ELSE Rejected

\* The mode a closing action pops, and what an opening one pushes and where it goes.
Closing == [close_empty |-> "KEY", close_object |-> "OBJECT", close_array |-> "ARRAY"]
Opening == [open_object |-> <<"KEY", "OB">>, open_array |-> <<"ARRAY", "AR">>]

end_string ==
  CASE stack[top] = "KEY" -> state' = "CO" /\ UNCHANGED <<top, stack, reject>>
    [] stack[top] \in {"ARRAY", "OBJECT"} -> state' = "OK" /\ UNCHANGED <<top, stack, reject>>
    [] OTHER -> Rejected

comma ==
  CASE stack[top] = "OBJECT" -> flip("OBJECT", "KEY", "KE")
    [] stack[top] = "ARRAY" -> state' = "VA" /\ UNCHANGED <<top, stack, reject>>
    [] OTHER -> Rejected

perform(next) ==
  \/ next \in States /\ state' = next /\ UNCHANGED <<top, stack, reject>>
  \/ next \in DOMAIN Closing /\ pop(Closing[next])
  \/ next \in DOMAIN Opening /\ push(Opening[next][1], Opening[next][2])
  \/ next = "end_string" /\ end_string
  \/ next = "comma" /\ comma
  \/ next = "colon" /\ flip("KEY", "OBJECT", "VA")
  \/ next = "error" /\ Rejected

check_char(c) ==
  LET next == IF c = "ctrl" THEN "error" ELSE state_transition_table(state, c) IN
  /\ comma_count' = IF next = "comma" THEN comma_count + 1 ELSE comma_count
  /\ perform(next)

-----------------------------------------------------------------------------
(* scan_json *)

is_json_second_char == Digit \cup White \cup {"point", "minus", "{", "[", "quote"}

\* No character seen yet.
JsonFresh ==
  /\ json_pos = 0 /\ json_i = 0 /\ json_feature = {}
  /\ state = "GO" /\ top = 0 /\ stack = NewStack /\ reject = FALSE /\ comma_count = 0

JsonInit == json_pc = "loop" /\ json_sbuf \in Texts /\ JsonFresh

AtBracket == /\ json_char(json_pos) \in {"{", "["}
             /\ json_char(json_pos + 1) \in is_json_second_char

StartChecker ==
  /\ json_pc = "loop" /\ json_pos + 1 < json_sbuf.pagesize /\ AtBracket
  /\ json_pc' = "check" /\ json_i' = json_pos /\ NewChecker
  /\ UNCHANGED <<json_sbuf, json_pos, json_feature>>

NextPos ==
  /\ json_pc = "loop" /\ json_pos + 1 < json_sbuf.pagesize /\ ~AtBracket
  /\ json_pos' = json_pos + 1
  /\ UNCHANGED <<json_pc, json_sbuf, json_i, checker, json_feature>>

EndOfPage ==
  /\ json_pc = "loop" /\ json_pos + 1 >= json_sbuf.pagesize /\ json_pc' = "done"
  /\ UNCHANGED <<json_sbuf, json_pos, json_i, checker, json_feature>>

\* Mutant: pos is stepped before the loop steps it.
Found_Past ==
  /\ json_feature' = IF comma_count' >= min_commas
                     THEN json_feature \cup {<<json_pos, json_i>>} ELSE json_feature
  /\ json_pos' = json_i + 2 /\ json_pc' = "loop" /\ UNCHANGED json_i

\* The end of a text: reported if it is complex enough, skipped in any case.
Found ==
  /\ json_feature' = IF comma_count' >= min_commas
                     THEN json_feature \cup {<<json_pos, json_i>>} ELSE json_feature
  /\ json_pos' = json_i + 1 /\ json_pc' = "loop" /\ UNCHANGED json_i

CheckChar ==
  /\ json_pc = "check" /\ json_i < json_bufsize
  /\ check_char(json_char(json_i))
  /\ \/ /\ reject'
        /\ json_pos' = json_i + 1 /\ json_pc' = "loop" /\ UNCHANGED <<json_i, json_feature>>
     \/ ~reject' /\ json_char(json_i) \in {"]", "}"} /\ check_if_done /\ Found
     \/ /\ ~reject' /\ ~(json_char(json_i) \in {"]", "}"} /\ check_if_done)
        /\ json_i' = json_i + 1 /\ UNCHANGED <<json_pc, json_pos, json_feature>>
  /\ UNCHANGED json_sbuf

\* The sbuf ends inside a text: on with the next character behind the bracket.
Unfinished ==
  /\ json_pc = "check" /\ json_i >= json_bufsize
  /\ json_pos' = json_pos + 1 /\ json_pc' = "loop"
  /\ UNCHANGED <<json_sbuf, json_i, checker, json_feature>>

JsonNext == StartChecker \/ NextPos \/ EndOfPage \/ CheckChar \/ Unfinished

JsonSpec == JsonInit /\ [][JsonNext]_json_vars /\ WF_json_vars(JsonNext)

-----------------------------------------------------------------------------
(* What scan_json reports, against a grammar.  The grammar is that of      *)
(* json.org but for two cells of the table: "1." is a number, and a number *)
(* that begins with 0 has no exponent.                                     *)


\* From i on, how far a string, digits or a number can go: sets of ends.
StringEnds(b) ==
  LET body[i \in 1 .. Len(b) + 1] ==
        IF i > Len(b) THEN {}
        ELSE CASE b[i] = "quote" -> {i}
               [] b[i] = "backs" ->
                    IF i = Len(b) THEN {}
                    ELSE IF b[i + 1] \in {"quote", "backs", "slash", "b", "f", "n", "r", "t"} THEN body[i + 2]
                    ELSE IF b[i + 1] = "u" /\ i + 5 <= Len(b) /\ \A k \in 2 .. 5 : b[i + k] \in Hex
                         THEN body[i + 6]
                    ELSE {}
               [] b[i] \in {"ctrl", "white"} -> {}
               [] OTHER -> body[i + 1]
  IN  [i \in 1 .. Len(b) |-> IF b[i] = "quote" THEN body[i + 1] ELSE {}]

IsString(b, s) == s[1] < s[2] /\ s[2] \in StringEnds(b)[s[1] + 1]

Digits(b, i, j) == i <= j /\ \A k \in i + 1 .. j : b[k] \in Digit

\* A number is an integer, then perhaps a fraction, then perhaps an exponent.
IsInteger(b, i, j) == j > i /\ Digits(b, i, j) /\ (b[i + 1] = "zero" => j = i + 1)
IsFraction(b, i, j) == i = j \/ (i < j /\ b[i + 1] = "point" /\ Digits(b, i + 1, j))
IsExponent(b, i, j) ==
  \/ i = j
  \/ /\ i < j /\ b[i + 1] \in {"e", "E"}
     /\ \E k \in {i + 1, i + 2} : /\ k < j /\ Digits(b, k, j)
                                  /\ k = i + 2 => b[k] \in {"plus", "minus"}
IsNumber(b, s) ==
  \E i \in {s[1], s[1] + 1}, j \in s[1] .. s[2], k \in s[1] .. s[2] :
    /\ i = s[1] + 1 => s[1] < Len(b) /\ b[i] = "minus"
    /\ i < j /\ j <= k
    /\ IsInteger(b, i, j) /\ IsFraction(b, j, k) /\ IsExponent(b, k, s[2])
    /\ (b[i + 1] = "zero" /\ j = k) => k = s[2]

IsLiteral(b, s) == SubSeq(b, s[1] + 1, s[2]) \in
  {<<"t", "r", "u", "e">>, <<"f", "a", "l", "s", "e">>, <<"n", "u", "l", "l">>}

Blank(b, i, j) == \A k \in i + 1 .. j : b[k] \in White

\* Is the slice (i, j] a value, the inside of a non-empty array, the inside of a
\* non-empty object?  White space may stand around a value.
Grammar(b) ==
  LET is[q \in {"value", "elements", "members"} \X (0 .. Len(b)) \X (0 .. Len(b))] ==
        LET i == q[2]
            j == q[3]
            Bare(x, y) ==
              \/ IsString(b, <<x, y>>) \/ IsNumber(b, <<x, y>>) \/ IsLiteral(b, <<x, y>>)
              \/ /\ y >= x + 2 /\ b[x + 1] = "[" /\ b[y] = "]"
                 /\ Blank(b, x + 1, y - 1) \/ is[<<"elements", x + 1, y - 1>>]
              \/ /\ y >= x + 2 /\ b[x + 1] = "{" /\ b[y] = "}"
                 /\ Blank(b, x + 1, y - 1) \/ is[<<"members", x + 1, y - 1>>]
            Pair(x, y) ==
              \E k \in x + 1 .. y : /\ b[k] = "colon"
                                    /\ \E m, n \in x .. k - 1 : /\ Blank(b, x, m) /\ Blank(b, n, k - 1)
                                                               /\ IsString(b, <<m, n>>)
                                    /\ is[<<"value", k, y>>]
            List(One(_, _)) ==
              \/ One(i, j)
              \/ \E k \in i + 1 .. j : b[k] = "comma" /\ One(i, k - 1) /\ is[<<q[1], k, j>>]
        IN  CASE q[1] = "value" -> \E x \in i .. j : /\ Blank(b, i, x)
                                                     /\ \E y \in x + 1 .. j : Blank(b, y, j) /\ Bare(x, y)
              [] q[1] = "elements" -> List(LAMBDA x, y : is[<<"value", x, y>>])
              [] q[1] = "members" -> List(Pair)
  IN  is

\* The texts of an sbuf: an object or an array, from a bracket to its match.
JsonTexts(b) ==
  {t \in (0 .. Len(b) - 1) \X (0 .. Len(b) - 1) :
     /\ t[1] < t[2] /\ b[t[1] + 1] \in {"[", "{"} /\ b[t[2] + 1] \in {"]", "}"}
     /\ Grammar(b)[<<"value", t[1], t[2] + 1>>]}

\* The characters of a text that stand in no string.
Structure(b, t) ==
  LET mode[k \in t[1] .. t[2] + 1] ==
        IF k = t[1] THEN "out"
        ELSE LET before == mode[k - 1] IN
             CASE before = "escaped" -> "string"
               [] before = "string" /\ b[k] = "backs" -> "escaped"
               [] b[k] = "quote" -> IF before = "out" THEN "string" ELSE "out"
               [] OTHER -> before
  IN  {k \in t[1] .. t[2] : mode[k] = "out"}

CommaCount(b, t) == Cardinality({k \in Structure(b, t) : b[k + 1] = "comma"})

Depth(b, t) ==
  LET opens(k) == {p \in Structure(b, t) : p <= k /\ b[p + 1] \in {"[", "{"}}
      closes(k) == {p \in Structure(b, t) : p <= k /\ b[p + 1] \in {"]", "}"}}
      depth == {Cardinality(opens(k)) - Cardinality(closes(k)) : k \in t[1] .. t[2]}
  IN  CHOOSE d \in depth : \A e \in depth : e <= d

\* No reported interval lies inside another or overlaps it, whatever brackets it contains;
\* each begins in the page and ends in the sbuf, with a bracket.
JsonApart ==
  \A s, t \in json_feature :
    /\ s = t \/ s[2] < t[1] \/ t[2] < s[1]
    /\ 0 <= t[1] /\ t[1] < t[2] /\ t[2] < json_bufsize /\ t[1] + 1 < json_sbuf.pagesize
    /\ json_char(t[1]) \in {"{", "["} /\ json_char(t[2]) \in {"}", "]"}

\* Every interval that the scanner reports is a JSON text, and a text of its own.  (The
\* automaton has 30 states and a stack; the grammar above has neither.)
JsonSound ==
  JsonApart /\ \A t \in json_feature : Grammar(json_sbuf.bytes)[<<"value", t[1], t[2] + 1>>]

\* At the end of a page, every text that begins in it with one of the accepted
\* second characters, has more than min_commas commas and is not nested too deep
\* for the stack is reported, unless a bracket before it stands in no text that
\* ends before it: the checker that this bracket started may have eaten it.
\* (scan_json.cpp:470 says "more than 2 commas"; :471 reports a text of exactly
\* two as well, which this neither requires nor forbids.)
JsonFound ==
  json_pc = "done" =>
    LET b == json_sbuf.bytes IN
    \E texts \in {JsonTexts(b)} : \A t \in texts : \* (the set is computed once)
      \/ t[1] + 1 >= json_sbuf.pagesize \/ b[t[1] + 2] \notin is_json_second_char
      \/ CommaCount(b, t) <= min_commas \/ Depth(b, t) >= stacksize
      \/ \E p \in 0 .. t[1] - 1 : b[p + 1] \in {"[", "{"} /\ ~\E u \in texts : u[1] <= p /\ p <= u[2] /\ u[2] < t[1]
      \/ t \in json_feature

\* While a checker runs, its stack holds DONE at the bottom and only there, and
\* the cell that the next character may look at is inside the array.
StackInBounds ==
  (json_pc = "check" /\ ~reject) => /\ top \in 0 .. stacksize - 1 /\ stack[0] = "DONE"
                                    /\ \A k \in 1 .. top : stack[k] # "DONE"
==============================================================================
