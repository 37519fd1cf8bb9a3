------------------------------ MODULE FlexScan ------------------------------
(***************************************************************************)
(* The scanners that flex generates (sbuf_flex_scanner.h): at each place   *)
(* of the text the rule that matches most of it, the first one of equals,  *)
(* takes its part and the next match begins behind that.  The text is a    *)
(* space, the sbuf and another space: character k of it is byte k - 1.     *)
(*                                                                         *)
(* A cell is the code of a character; some codes above 255 stand for a     *)
(* word that the rules know.  memo is 0 as long as flex reads on; then it  *)
(* is the end of what it has read.                                         *)
(***************************************************************************)
EXTENDS SbufWalk, SequencesExt

\* Words, each one cell.  scan_accts: tel and fax and those that begin the rules, "CT.Send.CMD_X
\* From=" and " To=", a date, an address of bitcoin and what only looks like one, a digit in
\* UTF-16.  scan_email: http and other schemes, a top level domain, a number below 256 and 0
\* and one of four digits, "ver", "rsion", the headers, and http: in UTF-16.  scan_vehicle: the
\* words of a context, and what is one without the word.
Word == [tel |-> 260, fax |-> 261, fedex |-> 262, ssn |-> 263, dob |-> 264, sin |-> 265, box |-> 266, fbid |-> 267,
         from |-> 268, to |-> 269, date |-> 270, address |-> 271, no_address |-> 272, wide_digit |-> 273, wide_dash |-> 274,
         http |-> 275, tld |-> 276, octet |-> 277, zero |-> 278, big |-> 279, ver |-> 280, version |-> 281,
         DATE |-> 282, msgid |-> 283, subject |-> 284, host |-> 285, wide_http |-> 286, vin |-> 287, context |-> 288]
Words == {Word[w] : w \in DOMAIN Word}
\* A character and the 0 that UTF-16 puts behind it, in one cell.
Wide(c) == 300 + c

Space == 32
Dash == 45
Dot == 46
Colon == 58
Semi == 59
Slash == 47
Alphabet == 0 .. 427
Digit == 48 .. 57
Letter == (65 .. 90) \cup (97 .. 122)
HexDigit == Digit \cup (65 .. 70) \cup (97 .. 102)
Blank == {9, Space}
NonLetter == Alphabet \ (Letter \cup Words)
NonAlnum == NonLetter \ Digit
NonDigit == Alphabet \ Digit

\* Where the text ends, and a character of it: those that the code never reaches are 0, as
\* are the bytes of the heap in front of flex's buffer and the one it puts behind a match.
TextEnd == IF memo = 0 THEN bufsize + 2 ELSE memo
Char(k) == IF k = 0 \/ k = bufsize + 1 THEN Space ELSE IF k < 0 THEN 0 ELSE Cell(k - 1, 0)
Text(a, b) == [i \in 1 .. b - a |-> Char(a + i - 1)]

(* Patterns: a sequence of pieces, each some characters of a set. *)

Some(set, least, most) == [of |-> set, least |-> least, most |-> most]
One(set) == Some(set, 1, 1)
Maybe(set) == Some(set, 0, 1)
Star(set) == Some(set, 0, 999)
Plus(set) == Some(set, 1, 999)
Times(n, pattern) == FlattenSeq([i \in 1 .. n |-> pattern])

\* The ends of the matches of a piece, and of a pattern, that begin at q.
PieceEnds(piece, q) ==
  LET room == Least(piece.most, TextEnd - q)
      stops == {n \in 0 .. room - 1 : Char(q + n) \notin piece.of}
      length == IF stops = {} THEN room ELSE Min(stops)
  IN  {q + n : n \in piece.least .. length}
Ends(pattern, q) ==
  LET ends[i \in 0 .. Len(pattern)] == IF i = 0 THEN {q} ELSE UNION {PieceEnds(pattern[i], p) : p \in ends[i - 1]}
  IN  ends[Len(pattern)]

\* A rule: what it is called, its patterns, and those of what must follow.
Rule(act, heads, tails) == [act |-> act, heads |-> heads, tails |-> tails]
Alone(act, head) == Rule(act, {head}, {<<>>})

\* The matches at pos: [rule, end, seen], the last where the trailing context ends.  The
\* last rule, of any character, is the same everywhere.
Matches(rules) ==
  {[rule |-> Len(rules) + 1, end |-> pos + 1, seen |-> pos + 1]}
  \cup UNION {UNION {{[rule |-> i, end |-> e, seen |-> s] : s \in UNION {Ends(t, e) : t \in rules[i].tails}} :
                     e \in UNION {Ends(h, pos) : h \in rules[i].heads}} : i \in DOMAIN rules}
Better(m, n) ==
  \/ m.seen > n.seen
  \/ m.seen = n.seen /\ m.rule < n.rule
  \/ m.seen = n.seen /\ m.rule = n.rule /\ m.end >= n.end
Match(rules) == CHOOSE m \in Matches(rules) : \A n \in Matches(rules) : Better(m, n)
ActOf(rules, m) == IF m.rule > Len(rules) THEN "none" ELSE rules[m.rule].act

\* check_margin, then the position moves past the match.  Past the end of the page nothing
\* more is read; how much flex has read by then, in its blocks, may be no more than it has
\* looked at, or all there is.
check_margin(m) == memo' \in IF memo = 0 /\ pos >= pagesize THEN {m.seen, TextEnd} ELSE {memo}
Consume(m) == check_margin(m) /\ MoveTo(m.end)

\* Does what may be a match fill a buffer of so many characters?
TooLong(rules, size) ==
  /\ TextEnd - pos >= size
  /\ \E i \in DOMAIN rules : \E h \in rules[i].heads : \E n \in DOMAIN h :
       \E e \in Ends(SubSeq(h, 1, n), pos) : e - pos >= size

TextOver == pos >= TextEnd
===============================================================================
