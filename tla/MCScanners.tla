------------------------------ MODULE MCScanners ------------------------------
(* One scanner at a time, as with -E, over the inputs that test it; or the reader of *)
(* images alone.  The components share no variable, so that each is in its initial    *)
(* state while another one runs.                                                      *)
EXTENDS JsonScan, MCNetScan, ImageReader, RecordScan, TextScan, StructScan, ExifScan, AesScan, DecodeScan

(* Images for the scanners of RecordScan, TextScan, StructScan and ExifScan, and sbufs for *)
(* those of DecodeScan: small enough for all of them, large enough for two or three pages. *)

Img(cells, size, behind) == [cells |-> cells, pagesize |-> size, margin |-> behind, cut |-> FALSE]
Upto(S, n) == UNION {[1 .. k -> S] : k \in 0 .. n}
Fill(n) == [i \in 1 .. n |-> NoStruct]

\* A thing somewhere in an image of nothing else: at the distances 0 .. n from its start.
Placed(things, n, size, behind) ==
  {Img(Fill(a) \o thing \o Fill(b), size, behind) : thing \in things, a \in 0 .. n, b \in {0, 2}}
\* Pieces of the given set in a row.
InRows(pieces, n, sizes, behind) ==
  {Img(FlattenSeq(row), size, behind) : row \in [1 .. n -> pieces], size \in sizes}

-----------------------------------------------------------------------------
(* Records *)

UtmpImages == {Img(c, 4, 2) : c \in UNION {[1 .. n -> {"utmp", "none"}] : n \in 1 .. 7}}
NtfsCells == [ntfsmft |-> {"FILE", "FILE-", "none"},
              ntfsindx |-> {"INDX", "INDX_Misc", "INDX-", "none"},
              ntfslogfile |-> {"RCRD", "RSTR-", "RSTR", "none"}]
NtfsImages(s) == {[Img(c, 3, 1) EXCEPT !.cut = cut] : c \in [1 .. 5 -> NtfsCells[s]] \cup [1 .. 3 -> NtfsCells[s]], cut \in BOOLEAN}

Usn(version, cells, odd) == <<[v |-> version, size |-> cells, odd |-> odd]>>
UsnImages ==
  InRows({<<NoUsn>>, Usn(2, 2, FALSE) \o <<NoUsn>>, Usn(2, 3, TRUE) \o <<NoUsn, NoUsn>>,
          Usn(4, 2, FALSE) \o <<NoUsn>>, Usn(2, 3, FALSE) \o <<NoUsn, NoUsn>>}, 5, {8, 9}, 3)

Evtx(what, n) == [is |-> what, n |-> n]
EvtxImages ==
  InRows({<<NoEvtx>>, <<Evtx("header", 1)>>, <<Evtx("chunk", 1)>>, <<Evtx("chunk", -1)>>,
          <<Evtx("record", 1)>>, <<Evtx("record", 2), NoEvtx>>, <<Evtx("record", 9), NoEvtx>>,
          <<Evtx("chunk", 1), NoEvtx, NoEvtx, NoEvtx>>,
          <<Evtx("chunk", -1), NoEvtx, Evtx("chunk", 1), NoEvtx>>}, 4, {8}, 4)

RecordInputs ==
  \/ scanner = "utmp" /\ image \in UtmpImages
  \/ \E s \in DOMAIN NtfsCells : scanner = s /\ image \in NtfsImages(s)
  \/ scanner = "ntfsusn" /\ image \in UsnImages
  \/ scanner = "evtx" /\ image \in EvtxImages

-----------------------------------------------------------------------------
(* Texts *)

Searches == <<"id1", "id2">>
Database(n, k) == [page |-> n, n |-> k]
Line(n, c) == [len |-> n, chars |-> c]
TextInputs ==
  \/ scanner = "kml" /\ image \in {Img(c, 5, 3) : c \in [1 .. 6 -> {"<?xml", "<kml", "</kml>", "bad"}]}
  \/ scanner = "vcard" /\ image \in {Img(c, 4, 2) : c \in [1 .. 6 -> {"BEGIN:VCARD", "END:VCARD", "bad", "x"}]}
  \/ /\ scanner = "sqlite"
     /\ image \in {Img(c, 3, 2) : c \in [1 .. 5 -> {NoHeader, Database(0, 1), Database(1, 1), Database(2, 1), Database(2, 4)}]}
  \/ scanner = "facebook" /\ image \in {Img(c, 5, 3) : c \in [1 .. 7 -> {"x", "id1", "id2"}]}
  \/ /\ scanner = "httplogs"
     /\ image \in {Img(c, 6, 0) : c \in [1 .. 6 -> {"GET", "line", "ip"}]}
                  \cup {Img(c, 3, 2) : c \in [1 .. 5 -> {"GET", "line", "bad", "ip"}]}
  \/ /\ scanner = "wordlist"
     /\ image \in {Img(c, 4, 3) : c \in [1 .. 7 -> {"a", "(", " "}] \cup [1 .. 5 -> {"a", "(", ")", " "}]}
  \/ /\ scanner = "base64"
     /\ image \in {Img(c, 5, 2) : c \in [1 .. 6 -> {Line(3, "b64"), Line(2, "A"), Line(4, "case"), Line(3, "no")}]}

-----------------------------------------------------------------------------
(* Files with headers *)

Thing(is) == [is |-> is]
Pe(n, imports, cert, head) ==
  [is |-> "PE", ok |-> TRUE, head |-> head, imports |-> imports, cert |-> cert, table |-> 1, n |-> n]
Section(fit, named, va, from, size) ==
  [is |-> "section", fit |-> fit, named |-> named, va |-> va, from |-> from, size |-> size]
Import(rva) == [is |-> "import", rva |-> rva]
WinpeFiles ==
  {<<Pe(1, 10, 0, 2), Section(TRUE, TRUE, 10, 2, 4), Import(rva), x, y, Thing("dll")>> :
     rva \in {10, 12, 13, 20}, x \in {Thing("dll"), Import(10), Import(12), Import(13)}, y \in {Thing("dll"), Thing("bad")}}
  \cup
  {<<Pe(2, 10, cert, head), first, Section(TRUE, TRUE, 10, from, 3), Import(12), Thing("dll"), Thing("bad"), Thing("dll")>> :
     first \in {Section(TRUE, TRUE, 6, 3, size) : size \in {1, 7, 9}}
               \cup {Section(FALSE, TRUE, 10, 3, 3), Section(TRUE, FALSE, 10, 3, 3), NoStruct},
     cert \in {0, 5, 13}, head \in {2, 3}, from \in {3, 4, 9}}

Elf(n, strndx) == [is |-> "ELF", ok |-> TRUE, shoff |-> 1, n |-> n, strndx |-> strndx]
SectionHeader(type, long, addr, n) ==
  [is |-> "shdr", type |-> type, long |-> long, addr |-> addr,
   from |-> IF type = "dynamic" THEN 3 ELSE 5, size |-> 2, entries |-> n]
Dyn(tag, val) == [is |-> "dyn", tag |-> tag, val |-> val]
ElfFiles ==
  {<<Elf(n, x), SectionHeader("dynamic", FALSE, 1, e), h, d1, d2, Thing("str"), Thing("str")>> :
     n \in 2 .. 3, x \in {1, 4}, e \in 0 .. 2,
     h \in {SectionHeader("strings", FALSE, 7, 1), SectionHeader("null", FALSE, 7, 1), SectionHeader("other", TRUE, 7, 1)},
     d1 \in {Dyn("strtab", 7), Dyn("strtab", 0), Dyn("needed", 1)}, d2 \in {Dyn("strtab", 7), Dyn("needed", 1), Dyn("needed", 2)}}

Dentries(c) == [i \in DOMAIN c |-> [is |-> "dentry", kind |-> c[i]]]
Mft(linked, attrs) == [is |-> "MFT", linked |-> linked, attrs |-> attrs]
Field(name, at, text) == [name |-> name, at |-> at, text |-> text]
Links ==
  {<<[is |-> "LNK", fields |-> f]>> :
     f \in Upto({Field(n, at, t) : n \in {"local_base_path", "net_name", "volume_label"}, at \in {1, 3}, t \in BOOLEAN}, 2)}
Prefetch(ok, length, c_length, d, n) ==
  [is |-> "SCCA", ok |-> ok, length |-> length, c |-> 1, c_length |-> c_length, d |-> d, d_2 |-> 0, n |-> n]
PrefetchFiles ==
  {<<Prefetch(ok, l, c_length, d, n), Thing("path"), x, Thing("path"), y>> :
     ok \in BOOLEAN, l \in 3 .. 5, c_length \in {0, 2, 3}, d \in {3, 9}, n \in {0, 2},
     x \in {Thing("path"), NoStruct}, y \in {Thing("path"), NoStruct}}

StructInputs ==
  \/ scanner = "winpe" /\ image \in Placed(WinpeFiles, 4, 5, 4)
  \/ scanner = "elf" /\ image \in Placed(ElfFiles, 3, 4, 6)
  \/ /\ scanner = "fat"
     /\ image \in {Img(Dentries(c), n, 1) : c \in [1 .. 4 -> {"valid", "future", "lfn", "last", "null", "invalid"}], n \in {3, 6}}
  \/ /\ scanner = "mft"
     /\ image \in Placed({<<Mft(l, s)>> : l \in BOOLEAN,
                                          s \in Upto({"fname", "huge", "si", "other", "end", "beyond"}, 3)}, 3, 2, 1)
  \/ scanner = "winlnk" /\ image \in Placed(Links, 5, 3, 2)
  \/ scanner = "winprefetch" /\ image \in Placed(PrefetchFiles, 4, 5, 3)

-----------------------------------------------------------------------------
(* Pictures *)

Marker(m, n) == [is |-> "marker", m |-> m, size |-> n]
Tiff == [is |-> "TIFF", ifd0 |-> 1]
Ifd(n) == [is |-> "IFD", n |-> n]
Entry(tag, bytes, offset) == [is |-> "entry", tag |-> tag, type |-> 2, bytes |-> bytes, offset |-> offset, big |-> FALSE]
NextIfd(k) == [is |-> "next", ifd |-> k]
Make == Entry("Make", 4, 0)
\* Structures of six cells.
Tiffs ==
  {<<Tiff, Ifd(1), Entry("Make", b, o), NextIfd(0), Thing("value"), Thing("blank")>> : b \in {8, 16}, o \in {4, 5, 9}}
  \cup {<<Tiff, Ifd(2), Make, e, Thing("value"), Thing("blank")>> :
          e \in {Entry("Model", 8, 4), Entry("Model", 12, 4), Entry("unknown", 12, 4), [Entry("Model", 8, 4) EXCEPT !.type = 6]}}
  \cup {<<Tiff, Ifd(1), Entry("GPSInfoIFD", 4, 3), Ifd(1), Entry("GPSLatitude", 8, 5), Thing("value")>>,
        <<Tiff, Ifd(1), Entry("ExifIFD", 4, 3), Ifd(1), [Entry("PixelXDimension", 4, 0) EXCEPT !.big = TRUE], Thing("value")>>,
        <<Tiff, Ifd(1), Entry("ExifIFD", 4, 3), Ifd(1), Entry("Interoperability", 4, 1), Thing("value")>>,
        <<Tiff, Ifd(1), Make, NextIfd(4), Ifd(1), Entry("Model", 4, 5)>>,
        <<Tiff, Ifd(3), Make, Make, Entry("Artist", 4, 5), Thing("blank")>>}
Scan == <<Marker("table", 1), Marker("SOF", 1), Marker("SOS", 1)>>
Thumbnail == <<Marker("SOI", 1), Marker("JFIF", 1)>> \o Scan \o <<Marker("EOI", 1)>>
Jpegs ==
  {<<Marker("SOI", 1)>> \o blocks \o rest \o tail :
     blocks \in {<<Marker("JFIF", 1)>>, <<Marker("APP", 1)>>, <<Marker("JFIF", 2), Thing("data")>>,
                 <<Marker("JFIF", 1), Marker("APP1", 1)>>, <<Marker("JFIF", 7)>> \o Thumbnail},
     rest \in {Scan, Tail(Scan), <<Marker("COM", 1)>> \o Scan, <<Marker("TEM", 1)>>},
     tail \in {<<Thing("data"), Marker("EOI", 1)>>, <<Marker("RST", 1), Thing("value"), Marker("EOI", 1)>>, <<Thing("data")>>}}
WithExif ==
  {<<Marker("SOI", 1)>> \o first \o <<Marker("Exif", n)>> \o tiff \o Scan \o <<Thing("data"), Marker("EOI", 1)>> :
     first \in {<<>>, <<Marker("JFIF", 1)>>}, n \in {7, 3}, tiff \in Tiffs}
Resource(exif) == [is |-> "resource", size |-> 2, exif |-> exif]
Photoshops ==
  {<<[is |-> "8BPS", n |-> 3], Resource(x), Thing("data"), Resource(TRUE)>> \o tiff : x \in BOOLEAN, tiff \in Tiffs}

ASSUME CellsOfPictures == \A p \in Tiffs \cup Jpegs \cup WithExif \cup Photoshops : \A k \in DOMAIN p : PictureCell(p[k])

\* A picture at a distance, and another behind it.
PictureInputs ==
  /\ scanner = "exif"
  /\ image \in {Img(Fill(around[1]) \o p \o around[2], size, 4) :
                  p \in Tiffs \cup Jpegs \cup WithExif \cup Photoshops, size \in {5, 16},
                  around \in {<<3, Fill(2)>>, <<3, <<Tiff, Ifd(1), Make, NextIfd(0)>>>>, <<0, Thumbnail>>}}

-----------------------------------------------------------------------------
(* Key schedules *)

\* The example of FIPS 197, appendix A.1, with the last word of its schedule.
Example == <<<<43, 126, 21, 22>>, <<40, 174, 210, 166>>, <<171, 247, 21, 136>>, <<9, 207, 79, 60>>>>
ASSUME KnownAnswer == create_aes128_schedule(Example)[44] = <<182, 99, 12, 166>>

\* The schedule of a longer key, its round constants beginning with that of the round i.
Expand(key, size, i) ==
  LET nk == Len(key)
      Next(w) ==
        Append(w, Sum(w[Len(w) + 1 - nk], IF Len(w) % nk = 0 THEN schedule_core(w[Len(w)], i + Len(w) \div nk - 1)
                                          ELSE IF nk = 8 /\ Len(w) % nk = 4 THEN SubWord(w[Len(w)]) ELSE w[Len(w)]))
      words[n \in nk .. size] == IF n = nk THEN key ELSE CHOOSE v \in {Next(w) : w \in {words[n - 1]}} : TRUE
  IN  words[size]
Schedule256(key) == Expand(key \o key, 60, 1)
\* The second of these is of no key.
Schedules192(key) == {Expand(key \o SubSeq(key, 1, 2), 52, i) : i \in {1, 0}}
Spoilt(s, k) == [s EXCEPT ![k][2] = 255 - @]
NoKey(n) == [i \in 1 .. n |-> NoWord]
Keyed(cells, enabled) == [cells |-> cells, pagesize |-> 64, margin |-> 62, cut |-> FALSE, enabled |-> enabled]
AllLengths == {"AES128", "AES192", "AES256"}
\* A schedule at a distance from the start of the image, in the first page or the second.
KeyInputs ==
  /\ scanner = "aes"
  /\ \E of128 \in {create_aes128_schedule(Example)}, of256 \in {Schedule256(Example)} :
       \/ \E s \in {of128, of256, Spoilt(of128, 44), Spoilt(of256, 60)} \cup Schedules192(Example), a \in {0, 18, 20, 66} :
            image = Keyed(NoKey(a) \o s \o NoKey(47), AllLengths)
       \/ image = Keyed(NoKey(1) \o of128 \o NoKey(2), AllLengths)
       \/ \E enabled \in SUBSET {"AES128", "AES256"} : image = Keyed(of256 \o of128, enabled)

-----------------------------------------------------------------------------
(* Sbufs to decode *)

Medium(enabled, cells) == [cells |-> cells, pagesize |-> 4, margin |-> 3, enabled |-> enabled]
plain == Thing("a")
ZipHeader(head, name, version, size, ok) ==
  [is |-> "zip", head |-> head, name |-> name, version |-> version, size |-> size, compr |-> size # 0, ok |-> ok]
Gzip(ok) == [is |-> "gzip", ok |-> ok]
Xpress(size, ok) == [is |-> "xpress", size |-> size, ok |-> ok]
Masked(by, cell) == [is |-> "masked", by |-> by, cell |-> cell]
Good == ZipHeader(1, TRUE, 20, 2, TRUE)
Zips ==
  {Medium(<<"zip">>, c) : c \in [1 .. 6 -> {plain, Good, ZipHeader(2, TRUE, 20, 0, TRUE)}]
       \cup {<<plain, [zip EXCEPT !.compr = c], plain, plain, plain, plain>> :
                c \in BOOLEAN,
                zip \in {ZipHeader(h, name, v, n, ok) : h \in 1 .. 3, name \in BOOLEAN, v \in {10, 20},
                                                       n \in {0, 1, 2, 9}, ok \in BOOLEAN}}}
Gzips == {Medium(<<"gzip">>, c) : c \in [1 .. 6 -> {plain, Gzip(TRUE)}]}
         \cup {Medium(<<"gzip", "zip">>, c) : c \in [1 .. 5 -> {plain, Gzip(TRUE), Gzip(FALSE), Good}]}
Hibernations ==
  {Medium(<<"hiberfile">>, c) : c \in [1 .. 6 -> {plain, Xpress(1, TRUE), Xpress(2, FALSE)}]
                                   \cup [1 .. 5 -> {plain, Xpress(1, TRUE), Xpress(2, TRUE), Xpress(9, TRUE)}]}
StartOfStream == <<[is |-> "stream", ok |-> TRUE], Thing("eol")>>
EndOfStream == <<Thing("end"), [is |-> "stream", ok |-> TRUE]>>
PdfOf(size, pieces) == [Medium(<<"pdf">>, FlattenSeq(pieces)) EXCEPT !.pagesize = size, !.margin = 8]
Pdfs ==
  {PdfOf(size, <<StartOfStream>> \o row) : size \in {4, 20},
     row \in [1 .. 4 -> {StartOfStream, EndOfStream, <<Thing("("), plain, Thing(")")>>, <<plain>>}]}
  \cup {PdfOf(20, <<StartOfStream>> \o row \o <<EndOfStream>>) :
          row \in Upto({<<Thing(c)>> : c \in {"(", ")", " ", "[", "binary"}}, 4)}
OfficeTexts == {Medium(<<"msxml">>, <<Thing("<?xml")>> \o c) : c \in [1 .. 4 -> {plain, Thing("<"), Thing(">"), Thing("</w:p")}]}
MaskedMedia ==
  {Medium(<<"xor", "zip">>, c) : c \in [1 .. 5 -> {plain, Masked("xor", Good), Masked("xor", plain)}]}
  \cup {Medium(<<"outlook", "gzip">>, c) : c \in [1 .. 6 -> {plain, Masked("ofe", Gzip(TRUE)), Masked("ofe", plain)}]}
\* A stream of a masked page whose tag is in the margin of the page before.
MaskedPdf == StartOfStream \o <<Thing("("), plain, Thing(")"), plain>> \o EndOfStream
MaskedPdfs ==
  {[PdfOf(4, <<[i \in 1 .. n + 8 |-> Masked("xor", IF i <= n THEN plain ELSE MaskedPdf[i - n])]>>)
      EXCEPT !.enabled = <<"xor", "pdf">>] : n \in 3 .. 5}
Media == Zips \cup Gzips \cup Hibernations \cup Pdfs \cup OfficeTexts \cup MaskedMedia \cup MaskedPdfs

-----------------------------------------------------------------------------
walkers_vars == <<walk_vars, used_offsets, entries>>
WalkersFresh == WalkInit /\ used_offsets = {} /\ entries = <<>>
WalkersInit == WalkersFresh /\ (RecordInputs \/ TextInputs \/ StructInputs \/ PictureInputs \/ KeyInputs)
WalkersOff == WalkersFresh /\ scanner = "none" /\ image = Img(<<>>, 1, 0)
\* One page of one scanner after another: the scanners in WalkerStep never run at once.
WalkerStep ==
  \/ (RecordStep \/ StructStep \/ AesStep) /\ UNCHANGED <<used_offsets, entries>>
  \/ TextStep /\ UNCHANGED entries
  \/ ExifStep /\ UNCHANGED used_offsets

DecodeOff == DecodeInit /\ medium = Medium(<<>>, <<>>)

-----------------------------------------------------------------------------
(* Disks for TLC: names, sizes and options. *)

Scenario(fname, disk, devices, recurse, start, sample, seen) ==
  [fname |-> fname, files |-> disk, empty |-> {}, devices |-> devices, recurse |-> recurse,
   start |-> start, sample |-> sample, seen |-> seen]
Plain(fname, disk) == Scenario(fname, disk, {}, FALSE, 0, 0, {})
Missing == Plain(<<"dd">>, <<>>)
At(off) == [path |-> << >>, offset |-> off]

(* raw: a split image with a hole in its numbers, one that starts at 000, a VMDK;
   split images in directories with the name of a part; a device of each small size; -Y inside and beyond the image; samples *)
FiveNumbers == <<"000", "001", "002", "003", "004">>
N(d) == <<"disk", ".", d>>
Split == [f \in {N("001"), N("002"), N("004")} |-> IF f = N("001") THEN 3 ELSE 2]
Zero == N("000") :> 3 @@ N("001") :> 0 @@ N("002") :> 1
Inside(dir) == [f \in {<<dir, "/", "disk", ".", n>> : n \in {"001", "002"}} |-> 2]
Vmdk == <<"d", "001", ".", "vmdk">> :> 2 @@ <<"d", "002", ".", "vmdk">> :> 3
Raw ==
  {Plain(N("001"), Split), Plain(N("000"), Zero), Plain(<<"d", "001", ".", "vmdk">>, Vmdk),
   Plain(<<"001", "/", "disk", ".", "001">>, Inside("001")), Plain(<<"000", "/", "disk", ".", "001">>, Inside("000")),
   Plain(N("002"), Split), Plain(N("e01"), N("e01") :> 3), Plain(N("dd"), Split)}
  \cup {Scenario(N("dd"), N("dd") :> n, {N("dd")}, FALSE, 0, 0, {}) : n \in 2 .. 17}
  \cup {Scenario(N("dd"), N("dd") :> n, {}, FALSE, 0, 2, {}) : n \in {4, 5}}
  \cup {Scenario(N("dd"), N("dd") :> 5, {}, FALSE, off, 0, {At(4)}) : off \in {0, 2, 6}}

(* E01: whole and broken last page, samples, -Y beyond the end *)
Ewf ==
  {Scenario(N("E01"), N("E01") :> n, {}, FALSE, 0, s, {}) : n \in {4, 5}, s \in {0, 2}}
  \cup {Scenario(N("E01"), N("E01") :> 5, {}, FALSE, 6, 0, {})}

(* directories: an empty one, empty files, nested files, a disk image inside *)
D(f) == <<"dir", "/", f>>
Tree == D("a") :> 2 @@ D("b") :> 0 @@ <<"dir", "/", "sub", "/", "disk", ".", "E01">> :> 3
Directory ==
  {Scenario(<<"dir">>, Tree, {}, r, 0, s, seen) :
     r \in BOOLEAN, s \in {0, 2}, seen \in {{}, {[path |-> D("a"), offset |-> 0]}}}
  \cup {[Scenario(<<"dir">>, <<>>, {}, r, 0, 0, {}) EXCEPT !.empty = {<<"dir">>}] : r \in BOOLEAN}
  \cup {Scenario(<<"dir">>, D("a") :> 2, {}, TRUE, 1, 0, {}),
        Scenario(<<"dir">>, (<<"dir", "/", "disk", ".", "001">> :> 2), {}, TRUE, 0, 0, {})}

AllDisks == {Missing} \cup Raw \cup Ewf \cup Directory

-----------------------------------------------------------------------------
(* scan_json *)
\* Every sbuf of at most four characters of these classes, and of five after "[".
Short == UNION {[1 .. n -> {"[", "]", "{", "}", "quote", "comma", "digit"}] : n \in 0 .. 4}
Arrays == {<<"[">> \o s : s \in [1 .. 4 -> {"[", "]", "comma", "digit", "space", "}"}]}

Member == <<"quote", "a", "quote", "colon">>
Object == <<"{">> \o Member \o <<"digit", "comma">> \o Member \o <<"[", "zero", "comma", "[", "]", "]", "}">>

\* Objects, and objects with one character replaced.
Objects == {Object} \cup {[Object EXCEPT ![k] = c] : k \in DOMAIN Object, c \in {"comma", "}", "quote", "[", "zero", "backs"}}

\* An array of one more value, with every token there is.
Tokens == {<<"zero">>, <<"minus", "digit", "zero">>, <<"minus">>, <<"zero", "digit">>, <<"digit", "point">>,
           <<"zero", "e", "digit">>, <<"zero", "point", "E", "plus", "digit">>, <<"digit", "e", "minus">>,
           <<"digit", "e", "zero", "point">>, <<"t", "r", "u", "e">>, <<"f", "a", "l", "s", "e">>, <<"n", "u", "l", "l">>,
           <<"n", "u", "l">>, <<"quote", "comma", "[", "quote">>, <<"quote", "backs", "quote", "quote">>,
           <<"quote", "backs", "u", "zero", "a", "ABCDF", "f", "quote">>, <<"quote", "backs", "u", "zero", "l", "quote">>,
           <<"quote", "backs", "a", "quote">>, <<"quote", "etc", "quote">>, <<"etc">>, <<"quote", "ctrl", "quote">>,
           <<"quote", "white", "quote">>, <<"[", "[", "]", "]">>, <<"{", "}">>, <<"white">>}
Values == {<<"[", "digit", "comma", "zero", "comma">> \o v \o <<"]">> : v \in Tokens}

Three == <<"digit", "comma", "digit", "comma", "digit">>
\* Texts one after another, one behind an unfinished one, deep ones.
Rows == {Object \o Object, <<"[", "quote">> \o Object, <<"[">> \o Object \o <<"]">>,
         <<"[", "[", "[">> \o Three \o <<"]", "]", "]">>, <<"[", "[", "[", "[">> \o Three \o <<"]", "]", "]", "]">>}

\* The pages end with the sbuf or five characters before (a margin).
TextsOfPages ==
  UNION {{[bytes |-> b, pagesize |-> n] : n \in {Len(b), Len(b) - 3} \cap Nat} :
         b \in Short \cup Arrays \cup Objects \cup Values \cup Rows}

JsonOff == json_pc = "done" /\ json_sbuf = [bytes |-> <<>>, pagesize |-> 0] /\ JsonFresh

------------------------------------------------------------------NetOff == /\ net_image = [size |-> 0, packets |-> {}, memory |-> {}, files |-> {}, zeros |-> {}]
          /\ NetFresh
ReaderOff == ReaderFresh /\ reader_pc = "refused" /\ sc = Missing

-----------------------------------------------------------------------------
Init ==
  \/ JsonInit /\ NetOff /\ ReaderOff /\ WalkersOff /\ DecodeOff
  \/ NetInit /\ JsonOff /\ ReaderOff /\ WalkersOff /\ DecodeOff
  \/ ReaderInit /\ JsonOff /\ NetOff /\ WalkersOff /\ DecodeOff
  \/ WalkersInit /\ JsonOff /\ NetOff /\ ReaderOff /\ DecodeOff
  \/ DecodeInit /\ medium \in Media /\ JsonOff /\ NetOff /\ ReaderOff /\ WalkersOff

RunJson == JsonNext /\ UNCHANGED <<net_vars, reader_vars, walkers_vars, decode_vars>>
RunNet(w) == NetWorker(w) /\ UNCHANGED <<json_vars, reader_vars, walkers_vars, decode_vars>>
RunReader == ReaderNext /\ UNCHANGED <<json_vars, net_vars, walkers_vars, decode_vars>>
RunWalker == WalkerStep /\ UNCHANGED <<json_vars, net_vars, reader_vars, decode_vars>>
RunDecode == DecodeStep /\ UNCHANGED <<json_vars, net_vars, reader_vars, walkers_vars>>
Next == RunJson \/ RunReader \/ RunWalker \/ RunDecode \/ \E w \in Carvers : RunNet(w)

vars == <<json_vars, net_vars, reader_vars, walkers_vars, decode_vars>>
OneThread == RunJson \/ RunReader \/ RunWalker \/ RunDecode
Fairness == WF_vars(OneThread) /\ \A w \in Carvers : WF_vars(RunNet(w))
Spec == Init /\ [][Next]_vars /\ Fairness

\* The variables of all have their types, and what is carved lies in the image.
TypeOK == JsonTypeOK /\ NetTypeOK /\ ReaderTypeOK /\ WalkTypeOK /\ DecodeTypeOK

\* Each scanner comes to the end of every page, whatever is in it and whatever exception
\* ends a packet or a page; each decoder comes to the end of what it decoded itself; and
\* the walk over an image ends.
PagesEnd == <>(json_pc = "done" /\ NetDone /\ ReaderOver /\ WalkDone /\ DecodeDone)

\* What a scanner reports is what it says it is: see the parts.  (Reports are never taken
\* back, so that the last state has them all.)
ReportsSound == JsonSound /\ (WalkDone => RecordsSound /\ TextsSound /\ StructsSound /\ ExifSound /\ AesSound)

\* A file, a record or a packet is found once, not by two pages, with the exceptions of the
\* parts.
FoundOnce == NoPacketTwice /\ (WalkDone => CarvedOnce /\ JpegsCarvedOnce) /\ (DecodeDone => DecodedOnce)

\* What a scanner is to find it finds, and once, wherever the ends of the pages are, with the
\* exceptions that the parts list; and a whole packet comes to packets.pcap.  Three of these
\* exceptions are against words of the repository: a text of exactly min_commas commas is
\* reported (JsonFound), a link is reported without its path (StructsFound), and the
\* scanner of masked buffers masks its own again (DecodedFound).
ReportsFound ==
  /\ JsonFound /\ FramesKept /\ RecordsFound /\ TextsFound /\ StructsFound /\ ExifFound /\ AesFound /\ DecodedFound
  /\ FoundOnce
==============================================================================
