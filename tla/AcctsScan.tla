------------------------------ MODULE AcctsScan ------------------------------
(***************************************************************************)
(* scan_accts: card numbers, telephone numbers, social security and        *)
(* insurance numbers, birth dates, keys and addresses, found by flex and   *)
(* looked at once more by scan_ccns2; and the numbers of vehicles.         *)
(***************************************************************************)
EXTENDS FlexScan

CONSTANTS
  min_phone_digits,     \* "Min. digits required in a phone"
  AcctsBuffer           \* the characters that the buffer of flex holds, 16384

(* The rules *)

Digits(n) == Some(Digit, n, n)
END == {<<One(NonDigit \ {Dot, 69, 101})>>, <<One({Dot}), One(NonDigit)>>}
NoDigit == {<<One(NonDigit)>>}
DELIM == One({Dash, Space})
DB == <<Digits(4), DELIM>>
TDEL == {Space, 47, Dot, Dash}
Number == One(NonAlnum \ {Dot})
Joined(first, n) == <<One(first)>> \o <<Some(Digit, n, n + 3)>>

CardRules == <<
  Rule("bitcoin", {<<One(NonAlnum), One({Word.address, Word.no_address})>>}, {<<One(NonAlnum \cup {48})>>}),
  Alone("drop", <<One(NonAlnum)>> \o Times(5, DB)),
  Rule("ccn", {<<One(NonAlnum), One({52, 53}), Digits(3), DELIM>> \o DB \o DB \o <<Digits(4)>>}, END),
  Rule("ccn", {<<Number, One({51}), Digits(3), DELIM, Digits(6), DELIM, Digits(5)>>}, END),
  Rule("block", {<<Number, One({51}), Digits(14)>>}, END),
  Rule("block", {<<Number>> \o Joined(51 .. 54, 15)}, END),
  Alone("track2", <<One(NonAlnum)>> \o Joined(52 .. 54, 15)
                  \o <<One({61}), Digits(2), One({48, 49}), One(48 .. 50), One({49}), One({48}), One({49}), Digits(13)>>) >>

PhoneText == {<<One(NonLetter), One({Word.tel}), Star({Dot, 69, 72, 78, 79, 80, 101, 104, 110, 111, 112}), Maybe({Colon})>>,
              <<One(NonLetter), One({Word.fax}), Maybe({Colon})>>}
PhoneRules == <<
  Rule("phone", {<<One(NonAlnum), Digits(3), One(TDEL), Digits(3), One(TDEL), Digits(4)>>}, END),
  Rule("telephone", {<<One(NonAlnum), One({40}), Digits(3), One({41}), Maybe(TDEL), Digits(3), One(TDEL), Digits(4)>>}, END),
  Rule("world", {<<One(NonAlnum), One({43}), Some(Digit, 1, 3)>> \o Times(n, <<One(TDEL), Some(Digit, 2, 3)>>) \o <<Some(Digit, 2, 4)>> :
                 n \in 2 .. 6}, END),
  Rule("telephone", {t \o <<Some({Space, 43, 47, Dot} \cup Digit, 7, 18)>> : t \in PhoneText}, {<<>>}),
  Rule("telephone", {t \o <<Plus(Digit \cup {Space, 43}), Maybe({Space}), One({40}), Some(Digit, 2, 4), One({41}),
                            Maybe({Space}), Some(Digit \cup {Dash}, 4, 8)>> : t \in PhoneText}, {<<>>}),
  Rule("telephone", {<<One({9, 10, Space}), One({43}), One(49 .. 57), Some(Digit, 10, 18)>>}, NoDigit),
  Rule("telephone", {<<One({9, 10, Space}), One({48}), One(49 .. 57), Some(Digit, 9, 15)>>}, NoDigit) >>

KeyRules == <<
  Rule("key", {<<One(NonDigit)>> \o Times(7, <<Digits(6), One({Dash})>>) \o <<Digits(6)>>}, {<<One({10, 13})>>}),
  Rule("key", {<<One({0})>> \o Times(7, <<Some({Word.wide_digit}, 6, 6), One({Word.wide_dash})>>) \o <<Some({Word.wide_digit}, 6, 6)>>}, NoDigit),
  Rule("word", {<<One({Word.fedex}), Plus(NonLetter), Digits(4), Maybe({Dash, Space}), Digits(4), Maybe({Dash, Space}), Digits(1)>>}, END) >>

Three(seps) == <<Digits(3)>> \o seps \o <<Digits(3)>> \o seps \o <<Digits(3)>>
Corner == Some(Digit \cup {Dot, Dash}, 1, 12)
NumberRules == <<
  Rule("word", {<<One({Word.ssn}), Maybe({Colon}), Star(Blank), Digits(3), Maybe({Dash}), Digits(2), Maybe({Dash}), Digits(4)>>}, END),
  Rule("ssn_mode1", {<<One(NonDigit), Digits(3), One({Dash}), Digits(2), One({Dash}), Digits(4)>>}, END),
  Rule("ssn_mode2", {<<One(NonDigit), Digits(9)>>}, END),
  Alone("word", <<One({Word.dob}), Maybe({Colon}), Plus(Blank), One({Word.date})>>),
  Alone("drop", <<One({Word.box}), Maybe({Space}), One({91}), Some(Digit \cup {Dash, Space}, 0, 40), One({93})>>),
  Alone("drop", <<One({91}), Maybe({Space})>> \o Times(3, <<Corner, One({Space})>>) \o <<Corner, Maybe({Space}), One({93})>>),
  Rule("word", {<<One({Word.from}), Some(Digit, 2, 999)>>, <<One({Word.from}), Some(Digit, 2, 999), One({Word.to}), Some(Digit, 2, 999)>>}, {<<>>}),
  Rule("sin_word", {<<One({Word.sin}), Maybe({Colon}), Star(Blank)>> \o Three(<<Maybe({Dash, Space})>>)}, END),
  Rule("sin", {<<One(NonDigit)>> \o Three(<<One({Dash})>>)}, END) >>
AcctsRules == CardRules \o PhoneRules \o KeyRules \o NumberRules

(* scan_ccns2 *)

\* The number that n digits of a sequence show from the i-th on.
Value(digits, i, n) == FoldLeft(LAMBDA v, c : 10 * v + c - 48, 0, SubSeq(digits, i, i + n - 1))

\* The comment has three separators accepted behind a 4 or 5 and two behind a 3; but by the
\* time the first digit is asked for, digits stands behind the last one, on a 0, and what
\* separates digits is refused, whatever there is of it.  See CardsFound.
extract_digits_and_test(number) == \A i \in DOMAIN number : number[i] \in Digit
ccv1_test(digits) ==
  LET doubled(v) == IF v < 5 THEN 2 * v ELSE 2 * v - 9
      Term(i) == IF (Len(digits) - i) % 2 = 0 THEN digits[i] - 48 ELSE doubled(digits[i] - 48)
  IN  FoldLeft(LAMBDA chk, i : chk + Term(i), 0, [i \in DOMAIN digits |-> i]) % 10 = 0
histogram_test(digits) ==
  LET count(d) == Cardinality({i \in DOMAIN digits : digits[i] = d})
  IN  (\A d \in Digit : count(d) <= 7) /\ Cardinality({d \in Digit : count(d) > 4}) < 2

\* int4 of the fourth group: behind the three digits that a number of 15 has there, the
\* function reads what the stack holds, a digit or not.
FourthGroups(digits) ==
  IF Len(digits) > 15 THEN {Value(digits, 13, 4)} ELSE {Value(digits, 13, 3)} \cup {10 * Value(digits, 13, 3) + d : d \in 0 .. 9}
pattern_test(digits, fourth) == Value(digits, 5, 4) - Value(digits, 1, 4) # Value(digits, 9, 4) - fourth

\* The first six digits, by length.

Between(v, ranges) == \E r \in ranges : r[1] <= v /\ v <= r[2]
UnionPay == {<<622126, 622925>>, <<624000, 626999>>, <<628200, 628899>>}
Fours(firsts) == {<<100 * a, 100 * a + 99>> : a \in firsts}
Issuers == [n \in 15 .. 19 |->
  CASE n = 15 -> Fours({2014, 2149}) \cup {<<340000, 349999>>, <<370000, 379999>>}
    [] n = 16 -> Fours({6011, 6304, 6334, 6706, 6709, 6767, 6771}) \cup UnionPay
                 \cup {<<352800, 358999>>, <<400000, 499999>>, <<510000, 599999>>, <<644000, 649999>>, <<650000, 659999>>}
    [] n = 17 -> Fours({6304, 6706, 6709, 6771}) \cup UnionPay
    [] OTHER  -> Fours({6304, 6334, 6706, 6709, 6767, 6771}) \cup UnionPay]
prefix_test(digits) == Between(Value(digits, 1, 6), Issuers[Len(digits)])

\* Hex digits in front, not all of them decimal.  The window is read as a string, up to a
\* byte 0; its last character is the one in front of the number, which is none.  The window
\* behind the number is empty: flex has put a 0 there.
SeaOfHex(a) ==
  \E n \in 1 .. 3 : Char(a - 4 + n) = 0 /\ (\A i \in 0 .. n - 1 : Char(a - 4 + i) \in HexDigit)
                    /\ \E i \in 0 .. n - 1 : Char(a - 4 + i) \notin Digit

\* Mutant: no checksum.
valid_ccn_NoChecksum(a, number, fourth) ==
  /\ extract_digits_and_test(number) /\ prefix_test(number) /\ pattern_test(number, fourth) /\ histogram_test(number) /\ ~SeaOfHex(a)
valid_ccn(a, number, fourth) ==
  /\ extract_digits_and_test(number) /\ prefix_test(number) /\ ccv1_test(number)
  /\ pattern_test(number, fourth) /\ histogram_test(number) /\ ~SeaOfHex(a)

\* Of the eight characters on a side one must be none of those that are usual in a PDF
\* file.  Behind the number any character will do: the test is made when the sbuf ends
\* there, and the bytes behind it are 0.
valid_char == Digit \cup (9 .. 13) \cup {Space, 91, 93, 60, 90, Dot, 108, 106}
valid_phone(k, n) ==
  LET after == k + n
      sbuf(i) == Cell(i, 0)
  IN  /\ k > 8 => \E i \in k - 8 .. k - 1 : sbuf(i) \notin valid_char
      /\ ~(/\ after + 5 < bufsize /\ sbuf(after) = Space /\ sbuf(after + 1) \in Digit
           /\ \E i \in after + 1 .. after + 7 : i + 1 < bufsize /\ sbuf(i) \in Digit /\ sbuf(i + 1) = Space)
      /\ ~(after + 2 < bufsize /\ sbuf(after) = Dash /\ sbuf(after + 1) \in Digit)

has_min_digits(text) == Char(pos) # 0 /\ Cardinality({i \in DOMAIN text : text[i] \in Digit}) >= min_phone_digits
\* loc > 5, where "fbid" is one cell: at the start of the sbuf it does not count.
is_fbid(loc) == loc > 2 /\ Cell(loc - 1, 0) = 61 /\ Cell(loc - 2, 0) = Word.fbid
valid_bitcoin_address(text) == text = <<Word.address>>

(* The scanner *)

AcctsKind(act) ==
  CASE act \in {"ccn", "block"} -> "ccn"
    [] act = "track2" -> "ccn_track2"
    [] act \in {"phone", "telephone", "world"} -> "telephone"
    [] act \in {"sin", "sin_word"} -> "sin"
    [] OTHER -> "pii"
NumberOf(act, number) == IF act = "track2" THEN SubSeq(number, 1, 16) ELSE number
Accepts(act, number, fourth) ==
  CASE act \in {"ccn", "track2"} -> valid_ccn(pos + 1, NumberOf(act, number), fourth)
    [] act = "block" -> valid_ccn(pos + 1, number, fourth) /\ ~is_fbid(pos)
    [] act = "phone" -> valid_phone(pos, Len(number))
    [] act = "world" -> has_min_digits(number) /\ valid_phone(pos, Len(number))
    [] act = "bitcoin" -> valid_bitcoin_address(number)
    [] act = "ssn_mode1" -> image.ssn_mode > 0
    [] act = "ssn_mode2" -> image.ssn_mode > 1
    [] OTHER -> act \notin {"drop", "none"}
FourthOf(act, number) ==
  IF act \in {"ccn", "block", "track2"} /\ extract_digits_and_test(NumberOf(act, number)) THEN FourthGroups(NumberOf(act, number)) ELSE {0}

\* What follows the separator; an alert goes to the place in front of the key, which is
\* beyond everything when the sbuf begins with the key and the image with the sbuf.
Alerted == IF WalkStart + pos = 0 THEN ImageSize ELSE WalkStart + pos - 1
AcctsRecord(act, end) ==
  LET number == Text(pos + 1, end)
  IN  \E fourth \in FourthOf(act, number) :
        IF ~Accepts(act, number, fourth) THEN Silent
        ELSE IF act = "key" THEN reports' = Append(reports, [kind |-> "alert", from |-> Alerted, to |-> Alerted])
        ELSE IF act \in {"word", "sin_word"} THEN write_buf(AcctsKind(act), pos - 1, end - pos)
        ELSE write_buf(AcctsKind(act), pos, end - pos - 1)

AcctsStep ==
  /\ In("accts") /\ ~TextOver /\ ~TooLong(AcctsRules, AcctsBuffer)
  /\ \E m \in {Match(AcctsRules)} : Consume(m) /\ AcctsRecord(ActOf(AcctsRules, m), m.end)
\* A match that does not fit the buffer of flex, which it cannot enlarge for rules such as
\* END: the scanner is left by an exception, and the rest of the page with it.
AcctsFatal == In("accts") /\ ~TextOver /\ TooLong(AcctsRules, AcctsBuffer) /\ LeavePage /\ Silent
AcctsPageEnds == In("accts") /\ TextOver /\ LeavePage /\ Silent

-----------------------------------------------------------------------------
\* A card number that is reported has 15 to 19 digits, with nothing between them, or with
\* three separators if it begins with a 4 or 5, or two if it begins with a 3, as the comment of
\* scan_ccns2.cpp:32-37 has it, and the check digit that its issuer gave it, and is not part of a longer number that the sbuf has; a number with the prefix
\* fbid= is none, but at the start of an sbuf.  Nine digits, or a word that the rules know,
\* are in what is reported as pii or sin.  The place of an alert is the one before a key.
Digital(r) == {q \in r.from .. r.to - 1 : CellAt(q) \in Digit}
CheckSum(digits) ==
  LET n == Len(digits)
      even == {i \in 1 .. n : (n - i) % 2 = 1}
      Add(i, sum) == sum + digits[i] - 48
      Twice(i, sum) == sum + ((2 * (digits[i] - 48)) \div 10) + ((2 * (digits[i] - 48)) % 10)
  IN  FoldSet(Add, 0, (1 .. n) \ even) + FoldSet(Twice, 0, even)
CardDigits(r) == SelectSeq(SubSeq(image.cells, r.from + 1, r.to), LAMBDA c : c \in Digit)
Separators(r) == r.to - r.from - Len(CardDigits(r))
AcctsSound ==
  \A i \in DOMAIN reports :
    LET r == reports[i]
    IN  CASE r.kind = "ccn" ->
               /\ Len(CardDigits(r)) \in 15 .. 19 /\ CheckSum(CardDigits(r)) % 10 = 0
               /\ \/ Separators(r) = 0
                  \/ Separators(r) = 3 /\ CellAt(r.from) \in {52, 53}
                  \/ Separators(r) = 2 /\ CellAt(r.from) = 51
               /\ r.from % image.pagesize # 0 => CellAt(r.from - 1) \notin Digit
               /\ r.to < SbufBound(r.from) => CellAt(r.to) \notin Digit
               /\ r.from % image.pagesize > 2 => ~(CellAt(r.from - 1) = 61 /\ CellAt(r.from - 2) = Word.fbid)
          [] r.kind = "ccn_track2" -> CheckSum(SubSeq(image.cells, r.from + 1, r.from + 16)) % 10 = 0
          [] r.kind \in {"pii", "sin"} -> Cardinality(Digital(r)) >= 9 \/ \E q \in r.from .. r.to - 1 : CellAt(q) \in Words
          [] r.kind = "alert" -> r.from = ImageSize \/ r.from + 48 < ImageSize
          [] OTHER -> TRUE

\* "Return 0 if extract is successful and if the count of non-digit numbers is either 0, 3
\* (for credit card numbers beginning with a 4 or 5) or 2 (for credit card numbers beginning
\* with a 3)" (scan_ccns2.cpp:32-37): a number that the rules REGEX2 and REGEX3 take with its
\* separators, and that has the right digits, is reported.
CardsFound == WalkDone => \A f \in image.features : f.kind = "grouped" => Reported("ccn", f.from, f.to)

-----------------------------------------------------------------------------
(* scan_vehicle: the numbers of vehicles, looked at once more by scan_vin  *)

VinChar == (Digit \cup Letter) \ {73, 79, 81, 105, 111, 113}
VinDelim == {9, 10, 13, Space, Colon, 44, Semi, 124, 34, 39, 40, 41, 123, 125, 91, 93, 60, 62, 35, Dot, 33, 63}
Vin17 == Some(VinChar, 17, 17)
Filler == Star({Space, 35, Colon})

\* In parentheses ^ and $ are characters like others.
VinRules ==
  LET VinEnd == {<<One(VinDelim \cup {36})>>}
  IN  << Rule("behind a word", {<<One({Word.vin}), Filler, Vin17>>}, VinEnd),
         Rule("alone", {<<One(VinDelim \cup {94}), Vin17>>}, VinEnd),
         Rule("behind a word", {<<One({Word.context}), Filler, Vin17>>}, VinEnd) >>

(* scan_vin *)

valid_vin_chars == Digit \cup ((65 .. 90) \ {73, 79, 81})
char_to_value(c) ==
  CASE c \in Digit -> c - 48
    [] c \in 65 .. 72 -> c - 64
    [] c = 74 -> 1
    [] c \in 75 .. 78 -> c - 73
    [] c = 80 -> 7
    [] c = 82 -> 9
    [] c \in 83 .. 90 -> c - 81
vin_weights == <<8, 7, 6, 5, 4, 3, 2, 10, 0, 9, 8, 7, 6, 5, 4, 3, 2>>

check_digit_test(vin) ==
  LET check_digit == FoldLeft(LAMBDA sum, i : sum + (char_to_value(vin[i]) * vin_weights[i]), 0, [i \in 1 .. 17 |-> i]) % 11
  IN  vin[9] = IF check_digit = 10 THEN 88 ELSE 48 + check_digit
wmi_test(vin) == vin[1] # 48
vis_test(vin) == vin[10] \in valid_vin_chars \ {48, 85, 90} /\ (vin[10] \in Digit => \A i \in 12 .. 17 : vin[i] \in Digit)
vin_pattern_test(vin) ==
  /\ \E i \in 1 .. 17 : vin[i] \notin Digit
  /\ ~\E i \in 1 .. 13 : \A j \in i .. i + 3 : vin[j + 1] = vin[j]
  /\ ~\E i \in 1 .. 11 : \A j \in i .. i + 5 : vin[j + 1] - vin[j] \in {1, -1}
extract_vin_chars(vin) == \A i \in 1 .. 17 : vin[i] \in valid_vin_chars
valid_vin(vin) == extract_vin_chars(vin) /\ check_digit_test(vin) /\ wmi_test(vin) /\ vis_test(vin) /\ vin_pattern_test(vin)

(* The scanner *)

\* A keyword is one cell.
has_automotive_context(k, range) ==
  \E i \in (IF k > range THEN k - range ELSE 0) .. Least(k + range, bufsize) - 1 : Cell(i, 0) \in {Word.vin, Word.context}
\* The character in front is a delimiter, and none of the four hex digits then.
AmongHex(k) ==
  k > 4 /\ k + 21 < bufsize /\ \A i \in 0 .. 3 : Cell(k - 4 + i, 0) \in HexDigit /\ Cell(k + 17 + i, 0) \in HexDigit

\* Byte a of the sbuf is the first of the match, and byte b the one behind it.  When a is 0
\* the delimiter is taken for the first character of the number.
VinWritten(act, a, b) ==
  LET k == IF act = "alone" /\ a = 0 THEN 0 ELSE IF act = "alone" THEN a + 1 ELSE b - 17
  IN  IF /\ valid_vin(Text(k + 1, k + 18))
         /\ act = "alone" => has_automotive_context(k, 200) \/ ~AmongHex(k)
      THEN Written("vin", k, 17) ELSE <<>>
VinStep ==
  /\ In("vin") /\ ~TextOver
  /\ \E m \in {Match(VinRules)} :
       Consume(m) /\ reports' = reports \o (IF m.rule <= Len(VinRules) THEN VinWritten(ActOf(VinRules, m), pos - 1, m.end - 1) ELSE <<>>)
VinPageEnds == In("vin") /\ TextOver /\ LeavePage /\ Silent

-----------------------------------------------------------------------------
\* The number of a vehicle that is reported has 17 characters in capitals, not all of them
\* digits, the ninth of which checks the others, and is part of no longer word.
ValueClasses == <<{48}, {49, 65, 74}, {50, 66, 75, 83}, {51, 67, 76, 84}, {52, 68, 77, 85}, {53, 69, 78, 86}, {54, 70, 87},
                  {55, 71, 80, 88}, {56, 72, 89}, {57, 82, 90}>>
VinSum(vin) ==
  LET value(c) == (CHOOSE v \in 1 .. 10 : c \in ValueClasses[v]) - 1
      Add(i, sum) == sum + ((IF i < 8 THEN 9 - i ELSE IF i = 8 THEN 10 ELSE IF i = 9 THEN 0 ELSE 19 - i) * value(vin[i]))
  IN  FoldSet(Add, 0, 1 .. 17) % 11
VinSound ==
  \A i \in DOMAIN reports :
    LET r == reports[i]
        vin == SubSeq(image.cells, r.from + 1, r.to)
    IN  /\ r.to - r.from = 17 /\ \A k \in 1 .. 17 : vin[k] \in UNION {ValueClasses[v] : v \in 1 .. 10}
        /\ vin[9] = IF VinSum(vin) = 10 THEN 88 ELSE 48 + VinSum(vin)
        /\ \E k \in 1 .. 17 : vin[k] \notin Digit
        /\ r.from % image.pagesize # 0 => CellAt(r.from - 1) \notin VinChar
        /\ r.to < SbufBound(r.from) => CellAt(r.to) \notin VinChar
===============================================================================
