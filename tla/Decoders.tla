------------------------------- MODULE Decoders -------------------------------
(***************************************************************************)
(* The pattern search of scan_find, and decoders.                          *)
(***************************************************************************)
EXTENDS SbufWalk, SequencesExt, FiniteSetsExt

CONSTANTS
  local_opt_pagesize,     \* opt_pagesize of a configuration that nobody set
  CODE_BITS               \* of an archive are looked at for a code, which is shorter
ASSUME FindAssumption == local_opt_pagesize \in Nat \ {0} /\ CODE_BITS \in Nat \ (0 .. 3)

-----------------------------------------------------------------------------
(* The decompression of a block of a hibernation file: 32 indicators in    *)
(* four bytes, the lowest byte first, and behind them, for each, a byte to *)
(* copy or the distance and the length of a match.  A cell is a byte.      *)

\* s.left indicators from s.bits are still to come, the half byte at s.nibble, too.
XpressStart == [next |-> 1, out |-> <<>>, bits |-> 0, left |-> 0, nibble |-> 0, over |-> FALSE]
Over(s) == [s EXCEPT !.over = TRUE]
\* InputIndex goes on, or the input has been used up.
Advanced(s, src, n) == [s EXCEPT !.next = @ + n, !.over = s.next + n > Len(src)]

Indicators(s, src) ==
  IF s.left > 0 THEN s
  ELSE IF s.next + 3 > Len(src) THEN Over(s)
  ELSE Advanced([s EXCEPT !.bits = s.next, !.left = 32], src, 4)
IsMatch(s, src) == LET n == 32 - s.left IN (src[s.bits + 3 - (n \div 8)] \div 2 ^ (7 - (n % 8))) % 2 = 1

\* The last byte of an output that is full is taken back, unless the input ends with it.
Literal(s, src, OutputSize) ==
  LET t == Advanced([s EXCEPT !.out = Append(@, src[s.next])], src, 1)
  IN  IF ~t.over /\ Len(t.out) = OutputSize THEN Over([t EXCEPT !.out = s.out]) ELSE t

\* What the three bits, the half byte, the byte and the two bytes of a length say, each looked
\* at if the one before is at its greatest.
Word2(src, k) == src[k] + 256 * src[k + 1]
LengthOf(s, src) ==
  LET three == Word2(src, s.next) % 8
      t == Advanced(s, src, 2)
      half == IF t.nibble = 0 THEN Advanced([t EXCEPT !.nibble = t.next], src, 1) ELSE [t EXCEPT !.nibble = 0]
      four == IF t.nibble = 0 THEN src[t.next] % 16 ELSE src[t.nibble] \div 16
      whole == Advanced(half, src, 1)
      long == IF whole.next + 2 > Len(src) THEN Over(whole) ELSE Advanced(whole, src, 2)
  IN  IF t.over THEN [at |-> t, n |-> 0]
      ELSE IF three < 7 THEN [at |-> t, n |-> three + 3]
      ELSE IF half.over \/ four < 15 THEN [at |-> half, n |-> four + 10]
      ELSE IF whole.over \/ src[half.next] < 255 THEN [at |-> whole, n |-> src[half.next] + 25]
      ELSE [at |-> long, n |-> IF long.over THEN 0 ELSE Word2(src, whole.next) + 3]

\* Mutant: a match that reaches back to the first byte is copied, too.
Reaches_First(distance, out) == distance <= Len(out)
\* A match that begins with the first byte that was written is passed over.
Reaches(distance, out) == distance < Len(out)
Copied(out, distance, n) == FoldLeft(LAMBDA o, i : Append(o, o[Len(o) + 1 - distance]), out, [i \in 1 .. n |-> i])
Matched(s, src, OutputSize) ==
  LET distance == (Word2(src, s.next) \div 8) + 1
      l == LengthOf(s, src)
  IN  IF s.next + 1 > Len(src) THEN Over(s)
      ELSE IF l.at.over \/ ~Reaches(distance, s.out) THEN l.at
      ELSE [l.at EXCEPT !.out = Copied(@, distance, Least(l.n, OutputSize - Len(s.out)))]

Xpress_Decompress(src, OutputSize) ==
  LET one(s, i) ==
        LET t == Indicators(s, src)
            u == [t EXCEPT !.left = @ - 1] IN
        IF s.over \/ Len(s.out) >= OutputSize \/ t.over THEN Over(t)
        ELSE IF IsMatch(t, src) THEN Matched(u, src, OutputSize) ELSE Literal(u, src, OutputSize)
  IN  FoldLeft(one, XpressStart, src).out

Decompress == In("xpress") /\ LeavePage /\ Silent

\* image.tokens is what was compressed: [byte] or [distance, n].  What comes out of the block
\* is the beginning of that, up to the last of the tokens or of the bytes there is room for,
\* if no match reaches back to the first byte; such a match, and nothing else, is missing.
Expanded(tokens) ==
  FoldLeft(LAMBDA o, t : IF t.n = 0 THEN Append(o, t.byte) ELSE IF t.distance = Len(o) THEN o ELSE Copied(o, t.distance, t.n),
           <<>>, tokens)
XpressRight ==
  LET out == Xpress_Decompress(image.cells, image.room) IN
  /\ IsPrefix(out, Expanded(image.tokens))
  /\ Len(out) >= Least(Len(Expanded(Front(image.tokens))), image.room - 1)
  /\ image.tokens[Len(image.tokens)].n = 0 => Len(out) >= Least(Len(Expanded(image.tokens)), image.room - 1)

-----------------------------------------------------------------------------
(***************************************************************************)
(* b64_pton_forensic, which decodes as much as there is.  A character is   *)
(* the number that it stands for, - and _ being other spellings of + and   *)
(* of /, or one of the three below.                                        *)
(***************************************************************************)

Pad64 == 64
White == 65
NoBase64 == 66

\* The characters up to the first one that ends it, without white space.  Behind an = there
\* is nothing that would change what is returned.
Taken(src) ==
  LET ends == {i \in DOMAIN src : src[i] \in {Pad64, NoBase64}}
      last == IF ends = {} THEN Len(src) ELSE (CHOOSE i \in ends : \A j \in ends : i <= j) - 1
  IN  SelectSeq(SubSeq(src, 1, last), LAMBDA c : c # White)

\* One character: target ends with the byte that is only begun, if state is not 0.
Byte == 256
Decode(s, v) ==
  LET with(bits) == [s.target EXCEPT ![Len(s.target)] = @ + bits]
  IN  CASE s.state = 0 -> [state |-> 1, target |-> Append(s.target, (v * 4) % Byte)]
        [] s.state = 1 -> [state |-> 2, target |-> Append(with(v \div 16), (v % 16) * 16)]
        [] s.state = 2 -> [state |-> 3, target |-> Append(with(v \div 4), (v % 4) * 64)]
        [] OTHER       -> [state |-> 0, target |-> with(v)]
\* Mutant: the byte that is only begun is returned.
b64_pton_forensic_Begun(src) == FoldLeft(Decode, [state |-> 0, target |-> <<>>], Taken(src)).target
b64_pton_forensic(src) ==
  LET s == FoldLeft(Decode, [state |-> 0, target |-> <<>>], Taken(src))
  IN  IF s.state = 0 THEN s.target ELSE SubSeq(s.target, 1, Len(s.target) - 1)

\* What is decoded is the bits of the characters, eight at a time, without those left over.
Bit(chars, k) == (chars[(k \div 6) + 1] \div 2 ^ (5 - (k % 6))) % 2
Base64Right(src) ==
  LET chars == Taken(src)
      bits(i) == FoldLeft(LAMBDA n, k : (2 * n) + Bit(chars, 8 * i - 8 + k), 0, [k \in 1 .. 8 |-> k - 1])
  IN  b64_pton_forensic(src) = [i \in 1 .. (6 * Len(chars)) \div 8 |-> bits(i)]

-----------------------------------------------------------------------------
(***************************************************************************)
(* The codes of an archive.  Those of RAR 2.0 and 2.9 are made from their  *)
(* lengths: lengths[s] bits for the symbol s, 0 where it has no code.      *)
(***************************************************************************)

LengthCount(lengths, n) == Quantify(DOMAIN lengths, LAMBDA s : lengths[s] = n)
\* What all codes of at most n bits are below.
DecodeLen(lengths) ==
  LET UpperLimit[n \in 0 .. CODE_BITS - 1] == IF n = 0 THEN 0 ELSE (2 * UpperLimit[n - 1]) + LengthCount(lengths, n)
  IN  [n \in 0 .. CODE_BITS - 1 |-> UpperLimit[n] * 2 ^ (CODE_BITS - n)]
\* Mutant: symbols without a code are counted, too.
DecodePos_Zeros(lengths) == [n \in 0 .. CODE_BITS - 1 |-> Quantify(DOMAIN lengths, LAMBDA s : lengths[s] < n)]
\* The place of the first code of n bits.
DecodePos(lengths) == [n \in 0 .. CODE_BITS - 1 |-> Quantify(DOMAIN lengths, LAMBDA s : lengths[s] \in 1 .. n - 1)]
DecodeNum(lengths, first) ==
  LET place(s) == first[lengths[s]] + Quantify(0 .. s - 1, LAMBDA t : lengths[t] = lengths[s])
      at(p) == {s \in DOMAIN lengths : lengths[s] # 0 /\ place(s) = p}
  IN  [p \in DOMAIN lengths |-> IF at(p) = {} THEN 0 ELSE Max(at(p))]

\* How far behind the first code of its length what begins with a code of n bits is.
Dist(limit, field, n) == (field - limit[n - 1]) \div 2 ^ (CODE_BITS - n)
\* QuickLen, QuickNum: for what begins with the quick bits of a code.  The length is never
\* taken back; at CODE_BITS DecodePos has no entry, and behind stands for what is read there.
MakeDecodeTables(lengths, quick, behind) ==
  LET limit == DecodeLen(lengths)
      first == DecodePos(lengths)
      order == DecodeNum(lengths, first)
      field(code) == code * 2 ^ (CODE_BITS - quick)
      QuickLen[code \in 0 .. 2 ^ quick - 1] ==
        Min({n \in (IF code = 0 THEN 1 ELSE QuickLen[code - 1]) .. CODE_BITS : n = CODE_BITS \/ (n < CODE_BITS => field(code) < limit[n])})
      at(code) == (IF QuickLen[code] = CODE_BITS THEN behind ELSE first[QuickLen[code]]) + Dist(limit, field(code), QuickLen[code])
  IN  [DecodeLen |-> limit, DecodePos |-> first, DecodeNum |-> order, QuickBits |-> quick, QuickLen |-> QuickLen,
       QuickNum |-> [code \in DOMAIN QuickLen |-> IF at(code) \in DOMAIN order THEN order[at(code)] ELSE 0]]
DecodeNumber(dec, bits) ==
  LET field == bits - (bits % 2)
      code == field \div 2 ^ (CODE_BITS - dec.QuickBits)
      n == Min({i \in dec.QuickBits + 1 .. CODE_BITS - 1 : i = CODE_BITS - 1 \/ field < dec.DecodeLen[i]})
      at == dec.DecodePos[n] + Dist(dec.DecodeLen, field, n)
  IN  IF field < dec.DecodeLen[dec.QuickBits] THEN [n |-> dec.QuickLen[code], symbol |-> dec.QuickNum[code]]
      ELSE [n |-> n, symbol |-> dec.DecodeNum[IF at \in DOMAIN dec.DecodeNum THEN at ELSE 0]]

\* Of any lengths that there are codes for, shorter ones before longer ones and those of
\* equal length in the order of their symbols, each code is taken for its symbol, quickly or
\* not; and of any lengths at all a code takes a bit at least, and not as many as there are.
Width(lengths, s) == 2 ^ (CODE_BITS - lengths[s])
Begin(lengths, s) ==
  MapThenSumSet(LAMBDA t : Width(lengths, t), {t \in DOMAIN lengths : lengths[t] \in 1 .. lengths[s] - 1 \/ (lengths[t] = lengths[s] /\ t < s)})
CodesTold(lengths, quick, behind) ==
  LET dec == MakeDecodeTables(lengths, quick, behind)
      coded == {s \in DOMAIN lengths : lengths[s] # 0}
  IN  /\ \A bits \in 0 .. 2 ^ CODE_BITS - 1 : DecodeNumber(dec, bits).n \in 1 .. CODE_BITS - 1
      /\ MapThenSumSet(LAMBDA s : Width(lengths, s), coded) <= 2 ^ CODE_BITS =>
           \A s \in coded : \A k \in 0 .. Width(lengths, s) - 1 :
             DecodeNumber(dec, Begin(lengths, s) + k) = [n |-> lengths[s], symbol |-> s]

\* Those of RAR 1.5 are there: a code is one of the first of Dec that it is below, and as many
\* bits longer than the shortest as others come before.
Table15(start, Dec, Pos) == [start |-> start, Dec |-> Dec, Pos |-> Pos]
Tables15 ==
  [L1 |-> Table15(2, <<32768, 40960, 49152, 53248, 57344, 59904, 60928, 61440, 61952, 61952, 65535>>,
           <<0, 0, 0, 2, 3, 5, 7, 11, 16, 20, 24, 32, 32>>),
   L2 |-> Table15(3, <<40960, 49152, 53248, 57344, 59904, 60928, 61440, 61952, 62016, 65535>>,
           <<0, 0, 0, 0, 5, 7, 9, 13, 18, 22, 26, 34, 36>>),
   Hf0 |-> Table15(4, <<32768, 49152, 57344, 61952, 61952, 61952, 61952, 61952, 65535>>,
           <<0, 0, 0, 0, 0, 8, 16, 24, 33, 33, 33, 33, 33>>),
   Hf1 |-> Table15(5, <<8192, 49152, 57344, 61440, 61952, 61952, 63456, 65535>>,
           <<0, 0, 0, 0, 0, 0, 4, 44, 60, 76, 80, 80, 127>>),
   Hf2 |-> Table15(5, <<4096, 9216, 32768, 49152, 64000, 65535, 65535, 65535>>,
           <<0, 0, 0, 0, 0, 0, 2, 7, 53, 117, 233, 0, 0>>),
   Hf3 |-> Table15(6, <<2048, 9216, 60928, 65152, 65535, 65535, 65535>>,
           <<0, 0, 0, 0, 0, 0, 0, 2, 16, 218, 251, 0, 0>>),
   Hf4 |-> Table15(8, <<65280, 65535, 65535, 65535, 65535, 65535>>,
           <<0, 0, 0, 0, 0, 0, 0, 0, 0, 255, 0, 0, 0>>)]
DecodeNum15(t, bits) ==
  LET field == bits - (bits % 16)
      i == Min({k \in DOMAIN t.Dec : t.Dec[k] > field})
      n == t.start + (i - 1)
  IN  [n |-> n, number |-> ((field - (IF i = 1 THEN 0 ELSE t.Dec[i - 1])) \div 2 ^ (16 - n)) + t.Pos[n + 1]]
\* All that begins with the bits of a code has its number, and each number up to the last,
\* 255 for lengths and 256 for places, has one code.
BitFields == {16 * k : k \in 0 .. 4095}
Prefix(field, n) == field - (field % 2 ^ (16 - n))
NumbersTold(t, last) ==
  LET told == [field \in BitFields |-> DecodeNum15(t, field)] IN
  /\ \A field \in BitFields : told[field].n \in 1 .. 12 /\ told[field] = told[Prefix(field, told[field].n)]
  /\ {told[field].number : field \in BitFields} = 0 .. last
  /\ \A field \in BitFields \ {0} : told[field].number - told[field - 16].number = IF Prefix(field, told[field].n) = field THEN 1 ELSE 0

\* Lengths and distances: what a slot begins with, and the bits that are added to it.
LDecode == <<0, 1, 2, 3, 4, 5, 6, 7, 8, 10, 12, 14, 16, 20, 24, 28, 32, 40, 48, 56, 64, 80, 96, 112, 128, 160, 192, 224>>
LBits == <<0, 0, 0, 0, 0, 0, 0, 0, 1, 1, 1, 1, 2, 2, 2, 2, 3, 3, 3, 3, 4, 4, 4, 4, 5, 5, 5, 5>>
SDDecode == <<0, 4, 8, 16, 32, 64, 128, 192>>
SDBits == <<2, 2, 3, 4, 5, 6, 6, 6>>
DDecode20 ==
  <<0, 1, 2, 3, 4, 6, 8, 12, 16, 24, 32, 48, 64, 96, 128, 192, 256, 384, 512, 768, 1024, 1536, 2048, 3072,
    4096, 6144, 8192, 12288, 16384, 24576, 32768, 49152, 65536, 98304, 131072, 196608, 262144, 327680, 393216, 458752, 524288, 589824, 655360, 720896, 786432, 851968, 917504, 983040>>
DBits20 ==
  <<0, 0, 0, 0, 1, 1, 2, 2, 3, 3, 4, 4, 5, 5, 6, 6, 7, 7, 8, 8, 9, 9, 10, 10,
    11, 11, 12, 12, 13, 13, 14, 14, 15, 15, 16, 16, 16, 16, 16, 16, 16, 16, 16, 16, 16, 16, 16, 16>>
DBitLengthCounts == <<4>> \o [i \in 1 .. 15 |-> 2] \o <<14, 0, 12>>
DBits == FlattenSeq([i \in DOMAIN DBitLengthCounts |-> [j \in 1 .. DBitLengthCounts[i] |-> i - 1]])
DDecode == [slot \in DOMAIN DBits |-> MapThenSumSet(LAMBDA k : 2 ^ DBits[k], 1 .. slot - 1)]
\* Every length up to 256, and every distance up to the window of the version, is in one slot.
Tiled(base, bits, n, end) ==
  /\ Len(base) = n /\ Len(bits) = n /\ base[1] = 0 /\ base[n] + 2 ^ bits[n] = end
  /\ \A i \in 1 .. n - 1 : base[i + 1] = base[i] + 2 ^ bits[i]
SlotsTile == Tiled(LDecode, LBits, 28, 256) /\ Tiled(SDDecode, SDBits, 8, 256) /\ Tiled(DDecode20, DBits20, 48, 1048576) /\ Tiled(DDecode, DBits, 60, 4194304)

\* A table is made, or one that is there is used.
TablesOfCodes == In("codes") /\ LeavePage /\ Silent
CodesRight ==
  CASE image.of = "lengths" -> CodesTold(image.lengths, image.quick, image.behind)
    [] image.of = "numbers" -> NumbersTold(Tables15[image.table], IF image.table \in {"L1", "L2"} THEN 255 ELSE 256)
    [] image.of = "slots" -> SlotsTile

-----------------------------------------------------------------------------
(* scan_find: the patterns of -f and -F.  A cell is "hit", of a match, "0" *)
(* or another character; image.empty tells whether the pattern matches     *)
(* nothing at all, too.  And what scan_base64 does with a block it found.  *)

\* search_all, which takes what it is given up to its first 0.
Zeros == {k \in pos .. bufsize - 1 : Cell(k, "0") = "0"}
TextStop == IF Zeros = {} THEN bufsize ELSE Min(Zeros)
Hits == {k \in pos .. TextStop - 1 : Cell(k, "0") = "hit"}
HitEnd(k) == Min({n \in k + 1 .. TextStop : n = TextStop \/ Cell(n, "0") # "hit"})

\* The pieces of the sbuf are not what is searched: each time it is the whole of it.
\* memo counts them.
PieceStart == memo * local_opt_pagesize
InPiece == In("find") /\ PieceStart < pagesize /\ pos < pagesize

\* Mutant: it goes on behind the first character of what it found.
FindHit_Overlapping ==
  /\ InPiece /\ ~image.empty /\ Hits # {} /\ UNCHANGED memo
  /\ \E k \in {Min(Hits)} : write_buf("find", k, HitEnd(k) - k) /\ MoveTo(k + 1)
FindHit ==
  /\ InPiece /\ (IF image.empty THEN Cell(pos, "0") = "hit" ELSE Hits # {}) /\ UNCHANGED memo
  /\ \E k \in {Min(Hits)} : write_buf("find", k, HitEnd(k) - k) /\ MoveTo(HitEnd(k))
FindNothing == InPiece /\ image.empty /\ Cell(pos, "0") # "hit" /\ MoveTo(pos + 1) /\ Silent /\ UNCHANGED memo
\* To the character behind the next 0, or to the end.
FindNoMore ==
  /\ InPiece /\ ~image.empty /\ Hits = {} /\ Silent
  /\ IF Zeros = {} THEN memo' = memo + 1 /\ MoveTo(0) ELSE MoveTo(TextStop + 1) /\ UNCHANGED memo
FindPieceEnds == In("find") /\ PieceStart < pagesize /\ pos >= pagesize /\ memo' = memo + 1 /\ MoveTo(0) /\ Silent
FindPageEnds == In("find") /\ PieceStart >= pagesize /\ LeavePage /\ Silent
FindStep == FindHit \/ FindNothing \/ FindNoMore \/ FindPieceEnds \/ FindPageEnds

\* decode_base64 and process_base64, for a block that is all of the sbuf.
DecodeBlock ==
  /\ In("b64") /\ LeavePage
  /\ IF b64_pton_forensic(SubSeq(image.cells, WalkStart + 1, WalkStart + bufsize)) # <<>> THEN Report("BASE64", 0, bufsize) ELSE Silent

-----------------------------------------------------------------------------
\* A match is found as it is in the sbuf, and as often as the page has pieces: once, as long
\* as no page is larger than the default.
IsHit(q) == CellAt(q) = "hit"
Pieces(q) == ((PageBound(q) - PageFirst(q)) + local_opt_pagesize - 1) \div local_opt_pagesize
FoundTimes(a, b) == Cardinality({i \in DOMAIN reports : reports[i].from = a /\ reports[i].to = b})
WholeMatch(a, b) ==
  /\ a < b /\ \A q \in a .. b - 1 : IsHit(q)
  /\ a = PageFirst(a) \/ ~IsHit(a - 1)
  /\ b = SbufBound(a) \/ ~IsHit(b)
FindFound == \A a \in Places : \A b \in a + 1 .. SbufBound(a) : WholeMatch(a, b) => FoundTimes(a, b) = Pieces(a)
FindSound == \A i \in DOMAIN reports : WholeMatch(reports[i].from, reports[i].to)
===============================================================================
