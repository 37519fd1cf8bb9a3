------------------------------ MODULE EmailScan ------------------------------
(***************************************************************************)
(* scan_email: addresses, domains, URLs, headers and ethernet addresses;   *)
(* and two smaller scanners that flex generates as well, scan_gps and      *)
(* scan_base16.                                                            *)
(***************************************************************************)
EXTENDS FlexScan

CONSTANT opt_min_hex_buf    \* "Don't re-analyze hex bufs smaller than this"

(* The rules of scan_email *)

Printable == (32 .. 126) \cup Words
Alnum == Letter \cup Digit \cup {Word.tld, Word.http, Word.ver, Word.version, Word.octet, Word.zero, Word.big}
DomainChar == Alnum \cup {Dot, 95, 37, Dash}
LocalChar == DomainChar \cup {43}
UrlChar == LocalChar \cup {Slash, 64, Colon, 61, 38, 63, 35, 126, 59}
Octet == {Word.octet, Word.zero}
Octets(n) == Times(n, <<One({Dot}), One(Octet)>>)
AllWide(set) == {Wide(c) : c \in set \cap (0 .. 126)} \cup (set \cap {Word.tld})

Header(word, piece) == Alone("header", <<One({word}), Maybe(Blank), piece>>)
MessageId == <<One({60}), Some(Printable, 1, 80), One({62})>>
HeaderRules == <<
  Alone("header", <<One({Word.DATE})>>),
  Rule("header", {<<One({Word.msgid}), Maybe({9, 10, Space})>> \o MessageId, <<One({Word.msgid}), One({13}), One({10})>> \o MessageId}, {<<>>}),
  Header(Word.subject, Some(Printable, 1, 80)),
  Header(Word.host, Some(Alnum \cup {Dot, 95}, 1, 64)) >>
AddressRules == <<
  Rule("email", {<<One(Alnum), Some(LocalChar, 1, 128), One(Alnum), One({64}), One(Alnum), Some(DomainChar, 1, 128), One({Dot}), One({Word.tld})>>},
       {<<One(Alphabet \ (Letter \cup {Word.tld, Word.http, Word.ver, Word.version}))>>}),
  Alone("drop", <<Maybe(Octet)>> \o Octets(4)),
  Alone("drop", <<One({Word.big})>> \o Octets(3)),
  Rule("ip", {<<One(Octet)>> \o Octets(3)}, {<<One(Alphabet \ (Alnum \cup {Dash, Dot, 43, 95}))>>}),
  Rule("ether", {<<One(Alphabet \ (Alnum \cup {Colon}))>> \o Times(5, <<Some(HexDigit, 2, 2), One({Colon})>>) \o <<Some(HexDigit, 2, 2)>>},
       {<<One(Alphabet \ (Alnum \cup {Colon}))>>}),
  Alone("url", <<One({Word.http}), One({Colon}), One({Slash}), One({Slash}), Some(UrlChar, 1, 384)>>) >>
\* In UTF-16 what must follow is a character like any other: "[^][^\0]" is one set.
WideRules == <<
  Rule("wide email", {<<One(AllWide(Letter \cup Digit)), Some(AllWide(LocalChar), 1, 128), One({Wide(64)}), Some(AllWide(DomainChar), 1, 128),
                        One({Wide(Dot)}), One({Word.tld})>>}, {<<One(Alphabet)>>}),
  Rule("wide url", {<<One({Word.wide_http}), Some(AllWide(UrlChar), 1, 128)>>}, {<<One(Alphabet)>>}) >>
EmailRules == HeaderRules \o AddressRules \o WideRules

(* What is written for a match, the text from a, byte a of the sbuf, up to b *)

Dotted(text) == \E i \in 1 .. Len(text) - 1 : text[i] = Dot /\ text[i + 1] = Dot
extra_validate_email(text) == ~Dotted(text)
\* Where the first one of the set is, from a up to b; b if there is none.
Find(set, a, b) == LET hits == {k \in a .. b - 1 : Cell(k, 0) \in set} IN IF hits = {} THEN b ELSE Min(hits)

\* Mutant: the place of the domain in the sbuf is taken for its place in the address.
EmailWritten_Absolute(a, b) ==
  LET host == Find({64}, a, b) + 1
  IN  IF extra_validate_email(Text(a + 1, b + 1)) THEN Written("email", a, b - a) \o Written("domain", host, b - a - host) ELSE <<>>
EmailWritten(a, b) ==
  LET host == Find({64}, a, b) + 1
  IN  IF extra_validate_email(Text(a + 1, b + 1)) THEN Written("email", a, b - a) \o Written("domain", host, b - host) ELSE <<>>
\* In UTF-16 the text ends for strstr at its first 0, so that two dots in a row are not seen;
\* a URL has a domain only behind an @, whose second byte is the first of it.
WideEmailWritten(a, b) == LET host == Find({Wide(64)}, a, b) + 1 IN Written("email", a, b - a) \o Written("domain", host, b - host)
WideUrlWritten(a, b) ==
  LET host == Find({Wide(64)}, a, b)
  IN  Written("url", a, b - a) \o (IF host < b THEN Written("domain", host, b - host) ELSE <<>>)

\* A URL without a path ends at its last letter, and without one behind http at that: then it
\* has no domain either.
Alpha == Letter \cup {Word.tld, Word.http, Word.ver, Word.version}
UrlEnd(a, b) ==
  IF Cardinality({k \in a .. b - 1 : Cell(k, 0) = Slash}) = 2 THEN 1 + Max({k \in a .. b - 1 : Cell(k, 0) \in Alpha}) ELSE b
UrlWritten(a, b) ==
  LET end == UrlEnd(a, b)
      host == a + 4
      host_end == Find({Slash}, host, end)
  IN  Written("url", a, end - a) \o (IF host < host_end THEN Written("domain", host, host_end - host) ELSE <<>>)

\* The eight characters in front of a number with dots, right-justified.
Before(a, i) == IF a < i THEN Space ELSE Cell(a - i, 0)
Versioned(a) ==
  \/ Before(a, 1) \in Alnum \cup {Dot, Dash, 43}
  \/ Before(a, 1) = 125 /\ \A i \in 2 .. 4 : Before(a, i) \in HexDigit
  \/ \E i \in 2 .. 3 : Before(a, i) = 118 /\ Before(a, i - 1) \in {Dot, Space}
  \/ Before(a, 3) = 114 /\ Before(a, 2) = 118 /\ Before(a, 1) = Colon
  \/ \E i \in 2 .. 4 : (Before(a, i) \in {60, 62} /\ Before(a, i - 1) = 61) \/ (Before(a, i) = 60 /\ Before(a, i - 1) = 60)
  \/ \E i \in 1 .. 2 : Before(a, i) = Word.ver
  \/ \E i \in 1 .. 4 : Before(a, i) = Word.version
IpWritten(a, b) == IF Versioned(a) \/ Cell(a, 0) = Word.zero THEN <<>> ELSE Written("domain", a, b - a)

\* Six pairs of digits, four of them different; the code looks for 00:11:22:33:44:55 first.
Pair(a, i) == <<Cell(a + 3 * i, 0), Cell(a + 3 * i + 1, 0)>>
valid_ether_addr(a) == Cardinality({Pair(a, i) : i \in 0 .. 5}) >= 4 /\ [i \in 0 .. 5 |-> Pair(a, i)] # [i \in 0 .. 5 |-> <<48 + i, 48 + i>>]

EmailRecords(act, a, b) ==
  CASE act = "header" -> Written("rfc822", a, b - a)
    [] act = "email" -> EmailWritten(a, b)
    [] act = "wide email" -> WideEmailWritten(a, b)
    [] act = "ip" -> IpWritten(a, b)
    [] act = "ether" -> IF valid_ether_addr(a + 1) THEN Written("ether", a + 1, b - a - 1) ELSE <<>>
    [] act = "url" -> UrlWritten(a, b)
    [] act = "wide url" -> WideUrlWritten(a, b)
    [] OTHER -> <<>>
EmailStep ==
  /\ In("email") /\ ~TextOver
  /\ \E m \in {Match(EmailRules)} : Consume(m) /\ reports' = reports \o EmailRecords(ActOf(EmailRules, m), pos - 1, m.end - 1)
EmailPageEnds == In("email") /\ TextOver /\ LeavePage /\ Silent

(* scan_gps: a cell is an element of a track point, or another text.  memo is where the  *)
(* values that are held begin.  The sbuf may end where flex has read to.                 *)

GpsValues == {"trkpt", "ele", "time", "speed", "course"}
clear ==
  IF \E k \in memo .. pos - 1 : Cell(k, "text") \in GpsValues THEN reports' = Append(reports, Slice("gps", memo, pos - memo)) ELSE Silent
GpsSkips == "trkpt" \notin {Cell(k, "text") : k \in 0 .. bufsize - 1}
GpsOver == pos >= bufsize \/ GpsSkips
\* Mutant: the end of a point is overlooked.
GpsClears_Begin(token) == IF token = "trkpt" THEN clear /\ memo' = pos ELSE Silent /\ UNCHANGED memo
GpsClears(token) ==
  CASE token = "trkpt" -> clear /\ memo' = pos
    [] token \in {"/trkpt", "high"} -> clear /\ memo' = pos + 1
    [] OTHER -> Silent /\ UNCHANGED memo
GpsStep == In("gps") /\ ~GpsOver /\ GpsClears(Cell(pos, "text")) /\ MoveTo(pos + 1)
\* What is held by then is lost.
GpsPageEnds == In("gps") /\ (GpsOver \/ pos > pagesize) /\ LeavePage /\ Silent

(* scan_base16 *)

HexPair == <<Some({10, 13, Space}, 0, 2), Some(HexDigit, 2, 2)>>
Base16Rules == << Rule("hex", {<<Some(HexDigit, 2, 2)>> \o Times(n, HexPair) : n \in 5 .. 40}, {<<>>}) >>
\* How many bytes the sbuf that ends with the page decodes to.
Decoded(a, b) == Cardinality({k \in a .. Least(b, pagesize) - 1 : Cell(k, 0) \in HexDigit}) \div 2
decode(a, b) ==
  LET p == Decoded(a, b)
  IN  IF p \in {6, 16, 32} THEN write_buf("hex", a, b - a) ELSE IF p > opt_min_hex_buf THEN Report("BASE16", a, b - a) ELSE Silent
Base16Over == TextOver \/ pagesize < 24
Base16Step ==
  /\ In("base16") /\ ~Base16Over
  /\ \E m \in {Match(Base16Rules)} : Consume(m) /\ (IF m.rule = 1 THEN decode(pos - 1, m.end - 1) ELSE Silent)
Base16PageEnds == In("base16") /\ Base16Over /\ LeavePage /\ Silent

-----------------------------------------------------------------------------
\* An address has one @ and a name above it, and no two dots in a row unless in UTF-16; a
\* domain is what is behind an @ or :// (with the name and the @, if there are), with no part
\* of the path, to the end of its address, or within its URL, or a number with dots that is
\* part of no longer one; of the six numbers of an ethernet address four differ.
Chars(r) == SubSeq(image.cells, r.from + 1, r.to)
EmailSound ==
  \A i \in DOMAIN reports :
    LET r == reports[i]
        first == CellAt(r.from)
        inside == r.from % image.pagesize # 0
    IN  CASE r.kind = "email" ->
               /\ CellAt(r.to - 1) = Word.tld /\ ~Dotted(Chars(r))
               /\ Cardinality({k \in r.from .. r.to - 1 : CellAt(k) \in {64, Wide(64)}}) = 1
          [] r.kind = "domain" ->
               /\ \A k \in r.from .. r.to - 1 : CellAt(k) # Slash
               /\ \/ first \in Octet
                  \/ \E j \in DOMAIN reports :
                       /\ reports[j].from < r.from /\ r.to <= reports[j].to
                       /\ reports[j].kind = "url" \/ (reports[j].kind = "email" /\ r.to = reports[j].to)
               /\ \/ first = Wide(64)
                  \/ first \in Octet /\ (inside => CellAt(r.from - 1) \notin {Dot, Dash, 43})
                  \/ r.from > 0 /\ CellAt(r.from - 1) \in {64, Wide(64), Slash}
          [] r.kind = "ether" -> Cardinality({<<CellAt(r.from + 3 * k), CellAt(r.from + 3 * k + 1)>> : k \in 0 .. 5}) >= 4
          [] OTHER -> TRUE

\* A track point that the sbuf has from its begin to its end is written as it is, with no
\* value of another one.
GpsFound ==
  \A q \in {k \in Places : CellAt(k) = "trkpt"} : \A e \in {k \in q + 1 .. SbufBound(q) - 1 : CellAt(k) = "/trkpt"} :
    (\A k \in q + 1 .. e - 1 : CellAt(k) \notin {"trkpt", "/trkpt", "high"}) /\ e <= PageBound(q) => Reported("gps", q, e)

\* What base16 hands on or writes is decimal or hex digits, enough of them.
Base16Sound ==
  \A i \in DOMAIN reports :
    LET n == Cardinality({k \in reports[i].from .. reports[i].to - 1 : CellAt(k) \in HexDigit})
    IN  IF reports[i].kind = "BASE16" THEN n > 2 * opt_min_hex_buf ELSE n >= 12
===============================================================================
