------------------------------ MODULE MCFeatures ------------------------------
(* Images for the scanners of features: texts put together from pieces, over one page or  *)
(* two; image.features are those pieces of them that are there to be found.               *)
EXTENDS AcctsScan, EmailScan, RarScan, Decoders, Unrar, SubAllocator, PacketHeaders, HeaderFields

Num(digits) == [i \in DOMAIN digits |-> 48 + digits[i]]
Discover == Num(<<6,0,1,1,0,0,0,9,9,0,1,3,9,4,2,4>>)
AmEx == Num(<<3,7,8,2,8,2,2,4,6,3,1,0,0,0,5>>)
AmExByChance == Num(<<3,7,2,1,3,2,0,8,7,2,2,3,7,7,3>>)     \* with a 7 behind it, 7737 fits the pattern
Visa == Num(<<4,5,3,9,1,4,8,8,0,3,4,3,6,4,6,7>>)
MasterCard == Num(<<5,4,2,5,2,3,3,4,3,0,1,0,9,9,0,3>>)
OneOff == [Discover EXCEPT ![16] = 53]
Grouped(n, c) == SubSeq(n, 1, 4) \o <<c>> \o SubSeq(n, 5, 8) \o <<c>> \o SubSeq(n, 9, 12) \o <<c>> \o SubSeq(n, 13, 16)
Grouped3(n, c) == SubSeq(n, 1, 4) \o <<c>> \o SubSeq(n, 5, 10) \o <<c>> \o SubSeq(n, 11, 15)
X == 120

\* A piece: its cells, and what of it, from the one place up to the other, is a feature.
Piece(cells, kind, from, to) == [cells |-> cells, kind |-> kind, from |-> from, to |-> to]
Plain(cells) == Piece(cells, "none", 0, 0)
Feature(kind, lead, cells, tail) == Piece(<<lead>> \o cells \o <<tail>>, kind, 1, 1 + Len(cells))

FeatureImage(pieces, size, behind) ==
  LET cells == FlattenSeq([i \in DOMAIN pieces |-> pieces[i].cells])
      start(i) == Len(FlattenSeq([j \in 1 .. i - 1 |-> pieces[j].cells]))
  IN  [cells |-> cells, pagesize |-> IF size = 0 THEN Len(cells) ELSE size, margin |-> behind, ssn_mode |-> 0,
       features |-> {[kind |-> pieces[i].kind, from |-> start(i) + pieces[i].from, to |-> start(i) + pieces[i].to] :
                     i \in {j \in DOMAIN pieces : pieces[j].kind # "none"}}]


(* scan_accts *)

Ssn9 == Num(<<1,2,3>>) \o <<Dash>> \o Num(<<4,5>>) \o <<Dash>> \o Num(<<6,7,8,9>>)
Sin9 == Num(<<1,2,3>>) \o <<Dash>> \o Num(<<4,5,6>>) \o <<Dash>> \o Num(<<7,8,9>>)
Group(n) == [i \in 1 .. n |-> 49 + (i % 3)]
Phone(sep) == Group(3) \o <<sep>> \o Group(3) \o <<sep>> \o Group(4)
Row(n, cell) == [i \in 1 .. n |-> cell]
AcctsPieces ==
  {Feature("ccn", Semi, Discover, 10), Feature("ccn", Space, AmEx, Semi), Feature("telephone", Semi, Phone(Dash), 10),
   Piece(<<Word.ssn, Space>> \o Ssn9 \o <<Space>>, "pii", 0, 2 + Len(Ssn9)), Feature("sin", Semi, Sin9, 10),
   Plain(<<Semi>> \o AmExByChance \o <<Semi>>), Plain(<<Semi>> \o OneOff \o <<Semi>>), Plain(<<97, 98, 0>> \o Discover \o <<Semi>>),
   Plain(<<Semi>> \o Grouped(Discover, Space) \o <<Semi>>), Plain(<<Semi>> \o Ssn9 \o <<Space>>), Plain(Group(4) \o <<Space>>),
   Plain(<<Space, Word.tel, 101, Colon>> \o Group(5) \o <<Space, Space>>), Plain(<<Word.fbid, 61>> \o Discover \o <<Space>>)}
\* What is said of numbers with separators is in CardsFound.
GroupedCards ==
  {Feature("grouped", Semi, Grouped(n, c), 10) : n \in {Visa, MasterCard}, c \in {Space, Dash}}
  \cup {Feature("grouped", Semi, Grouped3(AmEx, c), 10) : c \in {Space, Dash}}
AcctsTexts ==
  GroupedCards \cup
  {Feature("ccn", Semi, Visa, 10), Feature("ccn", Semi, MasterCard, Space), Feature("pii", Semi, <<Word.address>>, Semi), Plain(<<Semi, Word.no_address, 0>>),
   Plain(<<Semi>> \o FlattenSeq([i \in 1 .. 5 |-> Group(4) \o <<Space>>]) \o Group(4) \o <<Space>>),
   Feature("ccn_track2", Semi, Discover \o <<61>> \o Num(<<2,5,1,2,1,0,1>>) \o Group(13), 63),
   Feature("telephone", Semi, <<40>> \o Group(3) \o <<41, Space>> \o Group(3) \o <<Dash>> \o Group(4), 10),
   Feature("telephone", Semi, <<43, 49, Space>> \o Phone(Dot), 10), Plain(<<0, 43, 49, Space>> \o Phone(Dot) \o <<10>>),
   Feature("telephone", Space, <<Word.fax, Colon>> \o Group(7), 10),
   Feature("telephone", Space, <<Word.fax, Space>> \o <<40>> \o Group(3) \o <<41>> \o Group(6), 10),
   Feature("telephone", 10, <<43, 49>> \o Group(10), Space), Feature("telephone", 9, <<48, 49>> \o Group(9), X),
   Plain(FlattenSeq([i \in 1 .. 7 |-> Group(6) \o <<Dash>>]) \o Group(6) \o <<13>>),
   Plain(<<0>> \o FlattenSeq([i \in 1 .. 7 |-> Row(6, Word.wide_digit) \o <<Word.wide_dash>>]) \o Row(6, Word.wide_digit) \o <<0>>),
   Piece(<<Word.fedex, Space>> \o Group(4) \o <<Space>> \o Group(4) \o <<Dash>> \o Group(1) \o <<Space>>, "pii", 0, 13),
   Plain(<<Word.fedex>> \o Row(60, Space) \o Discover \o <<Space>>), Plain(<<Semi>> \o Group(9) \o <<Semi>>),
   Piece(<<Word.dob, Colon, Space, Word.date, X>>, "pii", 0, 4), Plain(<<Word.box, 91>> \o Phone(Space) \o <<Space, 93>>),
   Plain(<<91>> \o FlattenSeq([i \in 1 .. 4 |-> Group(3) \o <<Space>>]) \o <<93>>), Plain(Row(10, 91) \o Phone(Dash) \o <<10>>),
   Plain(<<X, 10>> \o Phone(Dash) \o <<Space, 49, Space, 50>>), Plain(<<X, 10>> \o Phone(Dash) \o <<Dash, 49, Space, 50>>),
   Piece(<<Word.from>> \o Group(3) \o <<Word.to>> \o Group(2) \o <<Space>>, "pii", 0, 7),
   Piece(<<Word.sin, Space>> \o Group(9) \o <<Space>>, "sin", 0, 11)}
AcctsImages ==
  {FeatureImage(<<p, q>>, size, 20) : p, q \in AcctsPieces, size \in {0, 10, 16}}
  \cup {[FeatureImage(<<lead, p>>, 0, 0) EXCEPT !.ssn_mode = mode] : lead \in {Plain(<<>>), Plain(<<X>>)}, p \in AcctsTexts, mode \in 0 .. 2}

-----------------------------------------------------------------------------
(* scan_email, scan_gps, scan_base16 *)

Octets1(n) == FlattenSeq([i \in 1 .. n |-> <<Dot, Word.octet>>])
abc == <<97, X, 99>>
At == <<64>>
Mail == abc \o At \o abc \o <<Dot, Word.tld>>
WideMail == [k \in 1 .. 7 |-> Wide(Mail[k])] \o <<Wide(Dot), Word.tld>>
Ip(first) == <<first, Dot, Word.octet, Dot, Word.zero, Dot, Word.octet>>
Url(host) == <<Word.http, Colon, Slash, Slash>> \o host
Ether(pairs) == FlattenSeq([i \in 1 .. 6 |-> <<pairs[i], pairs[i]>> \o (IF i < 6 THEN <<Colon>> ELSE <<>>)])
EmailPieces ==
  {Feature("email", Semi, Mail, Space), Feature("email", Semi, WideMail, Wide(X)), Feature("domain", Space, Ip(Word.octet), 10),
   Feature("ether", 10, Ether(<<48, 49, 50, 97, 97, 97>>), Space), Feature("url", Semi, Url(Mail \o <<Slash>>), 10),
   Piece(Url(abc \o <<Dot, 49>>) \o <<10>>, "url", 0, 7), Piece(<<Word.host>> \o abc \o <<10>>, "rfc822", 0, 4),
   Plain(Url(Ip(Word.octet)) \o <<10>>), Plain(<<Word.subject, Space, X>>), Plain(<<Space, Word.ver, Space>>), Plain(<<Dot>>), Plain(<<123, 97, 98, 99, 125>>)}
EmailTexts ==
  {Feature("rfc822", Space, <<Word.DATE>>, Space), Feature("rfc822", Space, <<Word.msgid, 13, 10, 60>> \o Mail \o <<62>>, Space),
   Plain(<<Space>> \o abc \o At \o abc \o <<Dot, Dot, Word.tld, Semi>>), Plain(<<Space, Word.big>> \o Octets1(3)),
   Plain(Octets1(5) \o <<Semi>>), Plain(<<118, Space>> \o Ip(Word.octet) \o <<Semi>>), Plain(<<114, 118, Colon>> \o Ip(Word.octet) \o <<Semi>>),
   Plain(<<60, 61, Space>> \o Ip(Word.octet) \o <<Semi>>), Plain(<<60, 60, Space>> \o Ip(Word.octet) \o <<Semi>>),
   Plain(<<Word.version, Space, X, 61>> \o Ip(Word.octet) \o <<Semi>>), Plain(Ip(Word.zero) \o <<Semi>>),
   Plain(<<Semi>> \o Ether(<<48, 49, 50, 51, 52, 53>>) \o <<Semi>>), Plain(<<Semi>> \o Ether(<<97, 97, 97, 50, 51, 51>>) \o <<Semi>>),
   Feature("url", Semi, <<Word.wide_http, Wide(Colon), Wide(Slash), Wide(X)>> \o SubSeq(WideMail, 1, 7), 10)}
EmailImages ==
  {FeatureImage(<<p, q>>, size, 16) : p, q \in EmailPieces, size \in {0, 7, 12}}
  \cup {FeatureImage(<<lead, p>>, 0, 0) : lead \in {Plain(<<>>), Plain(abc)}, p \in EmailTexts}

GpsImages == {FeatureImage(<<Plain(c)>>, 4, 2) : c \in [1 .. 6 -> {"trkpt", "/trkpt", "time", "text", "high"}]}
Lines(n) == FlattenSeq([i \in 1 .. n |-> <<97, 49>> \o (IF i % 3 = 0 THEN <<13>> ELSE <<>>)])
Base16Images == {FeatureImage(<<Plain(<<X>> \o Lines(n) \o <<X>>)>>, size, 12) : n \in {4, 5, 6, 7, 9, 16, 20}, size \in {0, 15, 26}}

(* scan_vehicle *)

Checked(v) == [v EXCEPT ![9] = IF VinSum(v) = 10 THEN 88 ELSE 48 + VinSum(v)]
Honda == Num(<<1>>) \o <<72, 71, 67, 77>> \o Num(<<8,2,6,3,3>>) \o <<65>> \o Num(<<0,0,4,3,5,2>>)
Chevrolet == Num(<<1>>) \o <<77>> \o Num(<<8>>) \o <<71, 68, 77>> \o Num(<<9>>) \o <<65, 88, 75, 80>> \o Num(<<0,4,2,7,8,8>>)
VinPieces ==
  {Feature("vin", Semi, Honda, Space), Feature("vin", Word.vin, Chevrolet, 10), Piece(<<Space, Word.context>> \o Honda \o <<36>>, "vin", 2, 19),
   Feature("vin", 94, Chevrolet, Dot), Plain(<<Semi>> \o [Honda EXCEPT ![9] = 52] \o <<Space>>), Plain(<<X>> \o Honda \o <<Space>>), Plain(<<X, X>>),
   Plain(<<Semi>> \o Honda \o <<X>>), Plain(<<Semi>>)}
VinTexts ==
  {Plain(<<Semi>> \o v \o <<Space>>) :
     v \in {Checked(Num(<<1,3,5,7,9,2,4,6,0,1,3,5,7,9,2,4,6>>)), Checked([Honda EXCEPT ![1] = 48]), Checked([Honda EXCEPT ![12] = 65]), Checked([Honda EXCEPT ![10] = 85]),
            Checked(Row(5, 65) \o SubSeq(Honda, 6, 17)), Checked(<<65, 66, 67, 68, 67, 66, 67>> \o SubSeq(Honda, 8, 17)),
            [Honda EXCEPT ![2] = 104], [Honda EXCEPT ![2] = 73]}}
VinImages ==
  {FeatureImage(<<p, q>>, size, 20) : p, q \in VinPieces, size \in {0, 12, 20}}
  \cup {FeatureImage(<<Plain(Row(6, 65)), p, Plain(Row(6, 65))>>, 0, 0) : p \in VinPieces \cup VinTexts}

(* scan_rar *)

Archive(ok, len, encrypted, rest) == <<[is |-> "mark"], [is |-> "volume", ok |-> ok, len |-> len, encrypted |-> encrypted]>> \o rest
Component(len, packed) ==
  [is |-> "file", ok |-> TRUE, len |-> len, split |-> FALSE, packed |-> packed, unpacked |-> 5, big |-> FALSE,
   unicode |-> FALSE, name |-> 3, zero |-> 3, utf8 |-> TRUE, stored |-> FALSE]
Packed(head) == <<head, RarByte(1), RarByte(2), RarByte(3)>>
RarPieces ==
  {Archive(TRUE, 3, FALSE, <<RarByte(0), RarByte(0)>>), Archive(TRUE, 3, TRUE, <<RarByte(0), RarByte(0)>>), Archive(TRUE, 4, TRUE, <<RarByte(1), RarByte(2), RarByte(3)>>),
   Archive(FALSE, 3, TRUE, <<RarByte(0), RarByte(0)>>), <<RarByte(0)>>,
   Packed(Component(2, 2)), Packed([Component(2, 2) EXCEPT !.stored = TRUE]), Packed([Component(3, 1) EXCEPT !.big = TRUE]),
   Packed([Component(2, 2) EXCEPT !.unpacked = 99]), Packed([Component(2, 2) EXCEPT !.unicode = TRUE]), Packed([Component(2, 2) EXCEPT !.unicode = TRUE, !.zero = 2]),
   Packed([Component(2, 2) EXCEPT !.unicode = TRUE, !.zero = 1]), Packed([Component(2, 2) EXCEPT !.split = TRUE]), Packed([Component(2, 2) EXCEPT !.packed = 6]),
   Packed([Component(2, 2) EXCEPT !.name = 0]), Packed([Component(2, 2) EXCEPT !.ok = FALSE]), Packed(Component(1, 2)), Packed(Component(4, 5)),
   Packed([Component(2, 2) EXCEPT !.unicode = TRUE, !.utf8 = FALSE])}
RarImages ==
  {[cells |-> FlattenSeq(row), pagesize |-> size, margin |-> 3, features |-> {}] : row \in [1 .. 3 -> RarPieces], size \in {5, 6}}

(* scan_find, and the decoder of scan_base64 *)

FindImages ==
  {[cells |-> c, pagesize |-> size, margin |-> 2, empty |-> e, features |-> {}] : c \in [1 .. 6 -> {"hit", "0", "x"}], size \in {3, 4}, e \in BOOLEAN}
Base64Images ==
  {[cells |-> c, pagesize |-> Len(c), margin |-> 0, features |-> {}] : c \in UNION {[1 .. n -> {0, 1, 37, 63, White, Pad64, NoBase64}] : n \in 1 .. 5}}

(* scan_net, where NetScan has packets: the bytes of headers *)

SumBE(bytes) == MapThenSumSet(LAMBDA n : (256 * bytes[(2 * n) - 1]) + bytes[2 * n], 1 .. Len(bytes) \div 2)
Put16(bytes, at, w) == [bytes EXCEPT ![at] = w \div 256, ![at + 1] = w % 256]
Summed4(p) == Put16(p, 11, Complement(SumBE(SubSeq(Put16(p, 11, 0), 1, 20))))
Udp4 == Summed4(<<69, 0, 0, 28, 1, 2, 64, 0, 64, 17, 0, 0, 8, 8, 4, 4, 10, 1, 2, 3, 4, 210, 0, 53, 0, 8, 1, 1>>)
Tcp4 == Summed4(<<69, 0, 0, 40, 1, 2, 64, 0, 64, 6, 0, 0, 8, 8, 4, 4, 10, 1, 2, 3, 4, 210, 0, 53>> \o Row(16, 1))
Frame4 == <<1, 2, 3, 4, 5, 6, 1, 2, 3, 4, 5, 255, 8, 0>>
Ip6(next, len, at, rest) ==
  LET src == <<32, 1>> \o Row(14, 7)
      dst == <<254, 128>> \o Row(14, 8)
  IN  <<96, 0, 0, 0, 0, len, next, 64>> \o src \o dst
        \o Put16(rest, at, Complement(SumBE(src \o dst \o Put16(rest, at, 0)) + len + next))
Packets6 == {Ip6(17, 10, 7, <<4, 210, 0, 53, 0, 10, 0, 0, 1, a>>) : a \in 0 .. 3} \cup {Ip6(6, 20, 17, <<4, 210, 0, 53>> \o Row(16, 80)), Ip6(58, 6, 3, <<128, 0, 0, 0, 1, 2>>)}
PcapRecord(bytes, len) == <<0, 0, 0, 80, 5, 0, 0, 0, len, 0, 0, 0, len, 0, 0, 0>> \o bytes

NetPiece(bytes, kind) == Piece(bytes, kind, 0, Len(bytes))
Before4 == {Plain(<<>>), Plain(<<1>>), Plain(Row(10, 0)), Plain(Row(10, 1)), Plain(Frame4)}
Harmless == {5, 6, 9, 25, 26, 27, 28}
Damaged == {NetPiece([Udp4 EXCEPT ![i] = v], "none") : i \in (1 .. 20) \ {9}, v \in {0, 1, 69, 255}}
Changed == {NetPiece(Summed4([Udp4 EXCEPT ![i] = v]), IF i \in Harmless THEN "ip" ELSE "none") : i \in DOMAIN Udp4, v \in {0, 1, 69, 255}}
Whole4 == {NetPiece(Udp4, "ip"), NetPiece(Tcp4, "ip"), NetPiece(Frame4 \o Udp4, "ether"), Plain(<<212, 195, 178, 161, 2, 0, 4, 0>> \o Row(16, 0)),
           NetPiece(PcapRecord(Tcp4, 40), "none"), Plain(PcapRecord(Tcp4, 60)), NetPiece(PcapRecord(Tcp4, 250), "cut"), Plain(<<2, 0, 0, 80, 8, 8, 4, 4>> \o Row(8, 0)), Plain(<<0, 0, 51, 10, 84, 67, 80, 84>> \o Row(24, 9)),
           NetPiece(PcapRecord(Frame4 \o Tcp4, 54), "none")}
NetBytes(pieces, size) == [carve_net_memory |-> TRUE] @@ FeatureImage(pieces, size, 60)
PacketImages ==
  {NetBytes(<<b, p, Plain(Row(30, 1))>>, 0) : b \in Before4, p \in Damaged \cup Changed}
  \cup {NetBytes(<<b, NetPiece(p, "ip6"), Plain(Row(30, 1))>>, 0) : b \in Before4, p \in Packets6}
  \cup {NetBytes(<<b, p, q, Plain(Row(41, 1))>>, size) : b \in Before4, p, q \in Whole4, size \in {0, 60}}
  \cup {NetBytes(<<b, NetPiece(PcapRecord(p, Len(p)), "record"), q>>, 0) : b \in Before4, p \in {Tcp4, Frame4 \o Tcp4}, q \in {Plain(<<>>), Plain(PcapRecord(Row(45, 2), 45))}}

(* scan_winpe_verify, scan_elf_verify: headers, one of their numbers changed or cut off *)

Little(value, n) == SubSeq([i \in 1 .. 4 |-> (value \div 256 ^ (i - 1)) % 256] \o Row(12, 0), 1, n)
Laid(struct, values) == FlattenSeq([i \in DOMAIN struct |-> Little(values[i], struct[i])])
\* <<which number, its new value, what is written>>
Edited(values, c) == [i \in DOMAIN values |-> IF i = c[1] THEN c[2] ELSE values[i]]
HeaderImage(bytes, at, plus, taken) ==
  [cells |-> bytes, pagesize |-> Len(bytes), margin |-> 0, features |-> {}, at |-> at, plus |-> plus, taken |-> taken]
PeBytes(plus, c) ==
  Row(60, 0) \o <<64, 0, 0, 0, 80, 69, 0, 0>>
    \o Laid(Pe_FileHeader \o (IF plus THEN Pe_OptionalHeaderStandardPlus \o Pe_OptionalHeaderWindowsPlus
                              ELSE Pe_OptionalHeaderStandard \o Pe_OptionalHeaderWindows),
            Edited((IF plus THEN <<IMAGE_FILE_MACHINE.AMD64, 3, 99, 0, 0, 240, 2, PE32PLUS>> ELSE <<IMAGE_FILE_MACHINE.I386, 3, 99, 0, 0, 224, 2, PE32>>)
                     \o <<14, 0, 4096, 512, 0, 4660, 4096>> \o Row(22, 3), c))
PeChanges ==
  {<<1, 448, "windows">>, <<1, 43620, "none">>, <<2, 0, "none">>, <<2, 256, "windows">>, <<2, 257, "none">>, <<4, 5, "none">>, <<5, 1000000, "windows">>,
   <<5, 1000001, "none">>, <<6, 225, "none">>, <<6, 96, "standard">>, <<6, 0, "standard">>, <<7, 8226, "windows">>, <<8, 263, "none">>,
   <<14, 268435456, "windows">>, <<14, 268435457, "none">>, <<15, 268435457, "none">>}
PeImages ==
  {HeaderImage(PeBytes(plus, c), 68, plus, c[3]) : plus \in BOOLEAN, c \in PeChanges}
  \cup {HeaderImage(SubSeq(PeBytes(plus, <<0>>), 1, c[1]), 68, plus, c[2]) :
          plus \in BOOLEAN, c \in {<<115, "none">>, <<116, "standard">>, <<183, "standard">>}}
EhdrBytes(big, plus, c) ==
  LET struct == IF plus THEN Elf64_Ehdr ELSE Elf32_Ehdr
      values == Edited(<<0, 2, 62, 1, 5, 6, 7, 0, sizeof(struct), 32, 2, 40, 5, 5>>, c)
      number(i) == Little(values[i], struct[i])
  IN  <<127, 69, 76, 70, IF plus THEN 2 ELSE 1, IF big THEN 2 ELSE 1>> \o Row(10, 0)
        \o FlattenSeq([i \in 1 .. 13 |-> IF big THEN Reverse(number(i + 1)) ELSE number(i + 1)])
EhdrImages ==
  {HeaderImage(EhdrBytes(FALSE, plus, c), 0, plus, c[3]) :
     plus \in BOOLEAN,
     c \in {<<2, 3, "ehdr">>, <<2, 6, "none">>, <<3, 183, "none">>, <<3, 94, "ehdr">>, <<9, 51, "none">>, <<10, 31, "none">>, <<12, 41, "none">>,
            <<14, 6, "none">>, <<13, 6, "ehdr">>}}
  \cup {HeaderImage(EhdrBytes(TRUE, plus, <<2, type>>), 0, plus, "none") : plus \in BOOLEAN, type \in 1 .. 4}
  \cup {HeaderImage(SubSeq(EhdrBytes(FALSE, plus, <<0>>), 1, 51), 0, plus, "none") : plus \in BOOLEAN}

NamedBits == [file |-> 0 .. 15, dll |-> 0 .. 15, section |-> 0 .. 31, elf |-> 0 .. 31]
FlagImages ==
  UNION {{[cells |-> <<>>, pagesize |-> 1, margin |-> 0, features |-> {}, table |-> t, bits |-> bits,
           others |-> {bits \cup {x} : x \in NamedBits[t]} \cup {bits \ {x} : x \in bits} \cup SUBSET (20 .. 23)] :
          bits \in {{x, y} : x, y \in NamedBits[t]} \cup SUBSET (20 .. 23)} : t \in DOMAIN NamedBits}

(* Xpress_Decompress: blocks, put together from what was compressed *)

Lit(b) == [byte |-> b, distance |-> 0, n |-> 0]
Copy(d, n) == [byte |-> 0, distance |-> d, n |-> n]
\* The token's bytes, or half bytes: an open half byte is filled by the next length.
Encode(e, t) ==
  LET word(three) == Little((8 * (t.distance - 1)) + three, 2)
      extra == t.n - 10
      four == IF extra < 15 THEN extra ELSE 15
      behind == IF extra < 15 THEN <<>> ELSE IF extra < 270 THEN <<extra - 15>> ELSE <<255>> \o Little(t.n - 3, 2) IN
  IF t.n = 0 THEN [e EXCEPT !.bytes = Append(@, t.byte)]
  ELSE IF t.n < 10 THEN [e EXCEPT !.bytes = @ \o word(t.n - 3)]
  ELSE IF e.half > 0 THEN [bytes |-> [e.bytes EXCEPT ![e.half] = @ + (16 * four)] \o word(7) \o behind, half |-> 0]
  ELSE [bytes |-> e.bytes \o word(7) \o <<four>> \o behind, half |-> Len(e.bytes) + 3]
Flags(tokens) ==
  LET bit(i) == IF i <= Len(tokens) /\ (i <= Len(tokens) => tokens[i].n > 0) THEN 1 ELSE 0
      byte(k) == MapThenSumSet(LAMBDA i : bit((8 * k) + i) * 2 ^ (8 - i), 1 .. 8)
  IN  <<byte(3), byte(2), byte(1), byte(0)>>
XpressImage(tokens, room, behind) ==
  [cells |-> Flags(tokens) \o FoldLeft(Encode, [bytes |-> <<>>, half |-> 0], tokens).bytes \o behind,
   pagesize |-> 1000, margin |-> 0, features |-> {}, tokens |-> tokens \o [i \in DOMAIN behind |-> Lit(behind[i])], room |-> room]
XpressImages ==
  {XpressImage(<<Lit(1), Lit(2)>> \o row, room, behind) :
     row \in [1 .. 3 -> {Lit(3), Copy(1, 3), Copy(2, 10), Copy(1, 24), Copy(2, 25)}], room \in {4, 40}, behind \in {<<>>, <<7>>}}
  \cup {XpressImage(<<Lit(1), Lit(2), Lit(3), Copy(2, n), Copy(1, 11)>>, 2000, <<7>>) : n \in {279, 280, 281}}

(* Components for the decoder: some with much to read, some with much to decode *)

MemberHead == [UnpVer |-> 29, HostOS |-> "unix", SubFlags |-> {}, directory |-> FALSE, temporary |-> FALSE, version |-> FALSE, password |-> FALSE,
               large |-> FALSE, solid |-> FALSE]
Member(version, packed, held, size, tokens, most) ==
  [head |-> [MemberHead EXCEPT !.UnpVer = version], packed |-> packed, held |-> held, size |-> size, tokens |-> tokens, most |-> most]
Members ==
  {Member(v, p, h, 3, {0, 1, 2}, 2) : v \in {15, 20, 29}, p \in {5, 13}, h \in {12, 13}}
  \cup {Member(v, 4, 4, size, {0}, 8) : v \in {15, 20, 29}, size \in {5, 6}}
  \cup {[Member(v, 4, 4, size, {0}, 5) EXCEPT !.head.solid = TRUE, !.head.large = large] : v \in {13, 26, 36}, size \in {3, 5, 11, 13}, large \in BOOLEAN}
  \cup {[Member(v, 4, 4, 3, {0}, 1) EXCEPT !.head = [MemberHead EXCEPT !.UnpVer = v, !.HostOS = os, !.SubFlags = sub, !.directory = dir]] :
          v \in {12, 15, 29, 37}, os \in {"dos", "unix", "mac", "unknown"}, sub \in SUBSET {8, 16, 40960}, dir \in BOOLEAN}
  \cup {[Member(29, 4, 4, 3, {0}, 1) EXCEPT !.head.temporary = a, !.head.version = b, !.head.password = c] : a, b, c \in BOOLEAN}

(* The codes of archives: all lengths of a few, one symbol at a time added to them *)

Lengths == [0 .. 3 -> 0 .. CODE_BITS - 1] \cup {[l \in 0 .. 5 |-> IF l < 2 THEN a ELSE IF l < 4 THEN b ELSE c] : a, b, c \in 0 .. CODE_BITS - 1}
CodeImage(kind) == [of |-> kind] @@ [cells |-> <<>>, pagesize |-> 1, margin |-> 0, features |-> {}]
CodeImages ==
  {[lengths |-> l, quick |-> q, behind |-> b] @@ CodeImage("lengths") : l \in Lengths, q \in {1, CODE_BITS - 2}, b \in {0, 3}}
  \cup {[table |-> t] @@ CodeImage("numbers") : t \in DOMAIN Tables15} \cup {CodeImage("slots")}

NoImage == [cells |-> <<>>, pagesize |-> 1, margin |-> 0, features |-> {}]

FeaturesInit ==
  /\ WalkInit
  /\ \/ scanner = "unrar" /\ image = NoImage
     \/ scanner = "model" /\ image = NoImage
     \/ scanner = "accts" /\ image \in AcctsImages
     \/ scanner = "email" /\ image \in EmailImages
     \/ scanner = "vin" /\ image \in VinImages
     \/ scanner = "rar" /\ image \in RarImages
     \/ scanner = "find" /\ image \in FindImages
     \/ scanner = "packets" /\ image \in PacketImages
     \/ scanner = "xpress" /\ image \in XpressImages
     \/ scanner = "codes" /\ image \in CodeImages
     \/ scanner = "pe" /\ image \in PeImages
     \/ scanner = "ehdr" /\ image \in EhdrImages
     \/ scanner = "flags" /\ image \in FlagImages
     \/ scanner = "b64" /\ image \in Base64Images
     \/ scanner = "gps" /\ image \in GpsImages
     \/ scanner = "base16" /\ image \in Base16Images
  /\ arc \in (IF scanner = "unrar" THEN Members ELSE {Member(29, 1, 1, 1, {0}, 1)}) /\ UnrarInit
  /\ HeapInit /\ (scanner # "model" => SubAllocatorSize = Min(Memories) /\ Stamped = {})
CardsInit == FeaturesInit /\ scanner = "accts" /\ image \in {FeatureImage(<<p>>, 0, 0) : p \in GroupedCards}
FeaturesStep ==
  \/ AcctsStep \/ AcctsFatal \/ AcctsPageEnds \/ EmailStep \/ EmailPageEnds \/ VinStep \/ VinPageEnds \/ RarStep \/ RarPageEnds
  \/ FindStep \/ DecodeBlock \/ TablesOfCodes \/ CarveStep \/ VerifyHeader \/ Decompress
  \/ GpsStep \/ GpsPageEnds \/ Base16Step \/ Base16PageEnds
Unpacking == scanner = "unrar" /\ UnrarStep
Predicting == scanner = "model" /\ HeapStep
FeaturesNext ==
  \/ FeaturesStep /\ UNCHANGED <<unrar_vars, heap_vars>>
  \/ Unpacking /\ UNCHANGED <<walk_vars, heap_vars>>
  \/ Predicting /\ UNCHANGED <<walk_vars, unrar_vars>>
Spec == FeaturesInit /\ [][FeaturesNext]_<<walk_vars, unrar_vars, heap_vars>>

CardsSpec == CardsInit /\ [][FeaturesNext]_<<walk_vars, unrar_vars, heap_vars>>

\* What the scanners of features report is what it is called: see the parts.
FeaturesSound ==
  WalkDone => (CASE scanner = "accts" -> AcctsSound [] scanner = "email" -> EmailSound [] scanner = "vin" -> VinSound
                 [] scanner = "rar" -> RarSound [] scanner = "find" -> FindSound [] scanner = "packets" -> PacketsSound [] scanner \in {"pe", "ehdr"} -> HeadersSound
                 [] scanner = "flags" -> FlagsTold [] scanner = "xpress" -> XpressRight [] scanner = "b64" -> Base64Right(image.cells)
                 [] scanner = "base16" -> Base16Sound [] scanner = "codes" -> CodesRight [] OTHER -> TRUE)

\* What is there to be found is reported, whatever precedes or follows it and wherever the
\* page ends, if the sbuf has it to its end; but not when another report took in the
\* character in front of it, as telephone numbers after a word do with the blanks behind
\* them, nor the number of a vehicle whose delimiter is the first byte of a page.  Of card
\* numbers in groups nothing is claimed here: they are all refused, see CardsFound.
Swallowed == {"telephone", "rfc822", "url"}
Missed(f) ==
  \/ f.kind = "grouped"
  \/ f.kind = "vin" /\ f.from % image.pagesize = 1 /\ CellAt(f.from - 1) \notin Words
  \/ \E i \in DOMAIN reports : reports[i].kind \in Swallowed /\ reports[i].from < f.from /\ f.from <= reports[i].to
FeaturesFound ==
  WalkDone =>
    /\ IF scanner = "packets" THEN PacketsFound
       ELSE \A f \in image.features : f.to + 1 <= SbufBound(f.from) => Reported(f.kind, f.from, f.to) \/ Missed(f)
    /\ scanner \in {"pe", "ehdr"} => HeadersFound
    /\ scanner = "gps" => GpsFound
    /\ scanner = "rar" => RarFound
    /\ scanner = "find" => FindFound
===============================================================================
