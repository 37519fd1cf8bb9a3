------------------------------- MODULE TextScan -------------------------------
(***************************************************************************)
(* The scanners that look for texts between marks: scan_kml, scan_vcard,   *)
(* scan_sqlite, scan_facebook, scan_httplogs, scan_wordlist, scan_base64.  *)
(* A cell is a mark or a character; for scan_sqlite it is a sector, for    *)
(* scan_base64 a line.                                                     *)
(***************************************************************************)
EXTENDS SbufWalk

CONSTANTS
  DB_WRAP,            \* sizes of databases are computed modulo it: 2^32 bytes, in sectors
  facebook_searches,  \* the texts that are looked for, in order
  FB_WINDOW, FB_TAIL, FB_END,   \* 4096, 50 and 10 bytes
  LOG_WINDOW,         \* 1024 bytes
  word_min, word_max,
  minlinewidth, maxlinewidth_needed_for_character_classes

ASSUME TextAssumption ==
  /\ DB_WRAP \in Nat \ {0} /\ FB_WINDOW \in Nat \ {0} /\ FB_TAIL \in Nat /\ FB_END \in Nat
  /\ LOG_WINDOW \in Nat /\ word_min \in Nat \ {0} /\ word_max \in Nat
  /\ minlinewidth \in Nat /\ maxlinewidth_needed_for_character_classes \in Nat

VARIABLE used_offsets   \* scan_facebook: the hits of the page that were reported

\* sbuf.find(): the whole sbuf is searched, with the margin; -1 if there is none.
find(text, k) ==
  LET hits == {i \in k .. bufsize - 1 : Cell(i, "none") = text}
  IN  IF k < 0 \/ hits = {} THEN -1 ELSE CHOOSE i \in hits : \A j \in hits : i <= j
Between(text, a, b) == \E i \in a .. b - 1 : Cell(i, "none") = text

-----------------------------------------------------------------------------
(* kml: "<?xml ", "<kml ", "</kml>", "bad" where the text is no UTF-8 *)

KmlStep ==
  /\ In("kml")
  /\ LET xml_loc == find("<?xml", pos)
         kml_loc == find("<kml", xml_loc)
         ekml_loc == find("</kml>", kml_loc) IN
     IF pos >= bufsize \/ ekml_loc = -1 THEN LeavePage /\ Silent
     ELSE /\ UNCHANGED memo
          /\ IF Between("bad", xml_loc, ekml_loc) THEN Silent /\ MoveTo(xml_loc + 1)
             ELSE Report("kml", xml_loc, ekml_loc - xml_loc + 1) /\ MoveTo(ekml_loc + 1)

-----------------------------------------------------------------------------
(* vcard: "BEGIN:VCARD", "END:VCARD", "bad" for a control character *)

\* The loop counts on behind a card: what begins right there is not seen.
VcardStep ==
  /\ In("vcard")
  /\ LET begin == find("BEGIN:VCARD", pos)
         end == find("END:VCARD", begin) IN
     IF pos >= bufsize \/ end = -1 \/ Between("bad", begin, end) THEN LeavePage /\ Silent
     ELSE Report("vcf", begin, end - begin + 1) /\ MoveTo(end + 2) /\ UNCHANGED memo

-----------------------------------------------------------------------------
(* sqlite: a sector [page, n]: a header with a page size of page sectors (0: not a *)
(* valid one; -1: no header) and n pages                                         *)

NoHeader == [page |-> -1, n |-> 0]
dbsize(header) == (header.page * header.n) % DB_WRAP

\* What is carved is begin sectors too long.
SqliteStep ==
  /\ In("sqlite")
  /\ LET headers == {i \in pos .. bufsize - 1 : Cell(i, NoHeader).page >= 0}
         begin == CHOOSE i \in headers : \A j \in headers : i <= j
         header == Cell(begin, NoHeader) IN
     IF headers = {} THEN LeavePage /\ Silent
     ELSE /\ UNCHANGED memo
          /\ IF header.page > 0 /\ dbsize(header) > 0
             THEN Report("sqlite3", begin, begin + dbsize(header)) /\ MoveTo(begin + dbsize(header))
             ELSE Silent /\ MoveTo(begin + 1)

-----------------------------------------------------------------------------
(* facebook: a cell is one of facebook_searches, or another text *)

value_used(value) == \E o \in used_offsets : o - FB_WINDOW \div 2 < value /\ value < o + FB_WINDOW \div 2

\* memo counts the searches; a hit at the very start of the sbuf ends a search.
FacebookStep ==
  /\ In("facebook")
  /\ IF memo = Len(facebook_searches) THEN LeavePage /\ Silent /\ used_offsets' = {}
     ELSE LET location == find(facebook_searches[memo + 1], pos)
              begin == IF location > FB_WINDOW \div 2 THEN location - FB_WINDOW \div 2 ELSE 0
              end == IF begin + FB_WINDOW + FB_END > bufsize THEN bufsize - FB_END ELSE begin + FB_WINDOW IN
          IF pos + FB_TAIL >= bufsize \/ location < 1
          THEN memo' = memo + 1 /\ Silent /\ MoveTo(0) /\ UNCHANGED used_offsets
          ELSE /\ MoveTo(location + FB_WINDOW + 1) /\ UNCHANGED memo
               /\ IF value_used(location) THEN Silent /\ UNCHANGED used_offsets
                  ELSE write_buf("facebook", begin, end - begin) /\ used_offsets' = used_offsets \cup {location}

-----------------------------------------------------------------------------
(* httplogs: "GET" for any method, "line" for the end of one, "bad", "ip" for a  *)
(* dotted quad that no slash precedes                                            *)

BadOrLine(k) == Cell(k, "bad") \in {"bad", "line"}

HttplogsStep ==
  /\ In("httplogs")
  /\ LET stops == {k \in pos + 1 .. Least(pos + 1 + LOG_WINDOW, bufsize - 1) : BadOrLine(k)}
         lineend == CHOOSE k \in stops : \A j \in stops : k <= j
         starts == {k \in 1 .. pos - 1 : pos - k <= LOG_WINDOW /\ BadOrLine(k)}
         \* what stands at 0 is not looked at
         foundlinestart == starts # {} \/ pos - 1 <= LOG_WINDOW
         linestart == IF starts = {} THEN 0 ELSE 1 + CHOOSE k \in starts : \A j \in starts : k >= j
         logged == /\ Cell(pos, "bad") = "GET" /\ stops # {} /\ Cell(lineend, "bad") = "line" /\ foundlinestart IN
     IF pos >= pagesize THEN LeavePage /\ Silent
     ELSE /\ UNCHANGED memo
          /\ IF ~logged THEN Silent /\ MoveTo(pos + 1)
             ELSE /\ MoveTo(lineend + 1)
                  /\ IF Between("ip", linestart, lineend) THEN Report("httplogs", linestart, lineend - linestart) ELSE Silent

-----------------------------------------------------------------------------
(* wordlist: "a", the brackets "(" and ")", and " ", which is in no word *)

wordchar(c) == c # " "

\* memo is wordstart + 1 in a word, else 0.  A word that the end of the sbuf ends is
\* none; a word that begins with the page is one, whatever was before it.
WordlistStep ==
  /\ In("wordlist")
  /\ LET wordstart == memo - 1
         len == pos - wordstart
         word == Slice("word", wordstart, len)
         bracketed == Cell(wordstart, " ") = "(" /\ Cell(pos - 1, " ") = ")" /\ len > 2 IN
     IF pos >= bufsize \/ (memo = 0 /\ pos > pagesize) THEN LeavePage /\ Silent
     ELSE /\ MoveTo(pos + 1)
          /\ IF memo = 0 THEN Silent /\ memo' = IF wordchar(Cell(pos, " ")) THEN pos + 1 ELSE 0
             ELSE IF wordchar(Cell(pos, " ")) THEN Silent /\ UNCHANGED memo
             ELSE /\ memo' = 0
                  /\ IF len \notin word_min .. word_max THEN Silent
                     ELSE reports' = reports \o <<word>> \o
                            (IF bracketed THEN <<Slice("word", wordstart + 1, len - 2)>> ELSE <<>>)

-----------------------------------------------------------------------------
(* base64: a line [len, chars]: "b64", "A" for nothing but capital As, "case" for   *)
(* letters of one case only, "no" for one with other characters or = not at its end *)

NoLine == [len |-> 0, chars |-> "no"]
sbuf_line_is_base64(line) ==
  line.chars \in {"b64", "A"} \/ (line.chars = "case" /\ line.len <= maxlinewidth_needed_for_character_classes)

\* memo is blockstart + 1 in a block, else 0.  A block that is still open at the end of
\* the page is not decoded; nor does the line that ends a block begin another.
Base64Step ==
  /\ In("base64")
  /\ LET line == Cell(pos, NoLine)
         blockstart == memo - 1
         linecount == pos - blockstart
         process_base64 == Report("base64", blockstart, linecount + 1) IN
     IF pos >= pagesize THEN LeavePage /\ Silent
     ELSE /\ MoveTo(pos + 1)
          /\ IF memo = 0
             THEN Silent /\ memo' = IF sbuf_line_is_base64(line) /\ line.len >= minlinewidth THEN pos + 1 ELSE 0
             ELSE IF ~sbuf_line_is_base64(line)
             THEN memo' = 0 /\ IF linecount > 2 THEN process_base64 ELSE Silent
             ELSE IF line.len # Cell(blockstart, NoLine).len
             THEN memo' = 0 /\ IF linecount > 1 THEN process_base64 ELSE Silent
             ELSE Silent /\ UNCHANGED memo

TextStep ==
  \/ /\ KmlStep \/ VcardStep \/ SqliteStep \/ HttplogsStep \/ WordlistStep \/ Base64Step
     /\ UNCHANGED used_offsets
  \/ FacebookStep

-----------------------------------------------------------------------------
(* What they report *)

Holds(text, a, b) == \E q \in a .. b - 1 : CellAt(q) = text
SameLines(a, b) == \A q \in a .. b - 1 : sbuf_line_is_base64(CellAt(q)) /\ CellAt(q).len = CellAt(a).len /\ CellAt(a).len >= minlinewidth

\* What is reported is what the scanner is about, with the marks at both ends, and
\* with nothing in it that cannot be: a file has its header, a log entry is one line
\* with an address, a word has no break in it and goes on in neither direction, unless
\* it begins with a page.
TextsSound ==
  \A i \in DOMAIN reports :
    LET r == reports[i] IN
    CASE r.kind = "kml" -> /\ CellAt(r.from) = "<?xml" /\ CellAt(r.to - 1) = "</kml>"
                           /\ Holds("<kml", r.from, r.to) /\ ~Holds("bad", r.from, r.to)
      [] r.kind = "vcf" -> /\ CellAt(r.from) = "BEGIN:VCARD" /\ CellAt(r.to - 1) = "END:VCARD"
                           /\ ~Holds("bad", r.from, r.to) /\ ~Holds("END:VCARD", r.from, r.to - 1)
      [] r.kind = "sqlite3" -> CellAt(r.from).page > 0 /\ r.to >= Least(r.from + dbsize(CellAt(r.from)), SbufBound(r.from))
      [] r.kind = "facebook" -> \E q \in r.from .. r.to + FB_END - 1 : CellAt(q) \in {facebook_searches[j] : j \in DOMAIN facebook_searches}
      [] r.kind = "httplogs" -> /\ CellAt(r.to) = "line" /\ Holds("ip", r.from, r.to) /\ Holds("GET", r.from, r.to)
                                /\ ~Holds("bad", r.from + 1, r.to) /\ ~Holds("line", r.from + 1, r.to)
      [] r.kind = "word" -> /\ ~Holds(" ", r.from, r.to)
                            /\ \/ r.from % image.pagesize = 0 \/ CellAt(r.from - 1) \in {" ", "("}
                            /\ CellAt(r.to) \in {" ", ")"}
      [] r.kind = "base64" -> r.to > r.from + 2 /\ SameLines(r.from, r.to - 1)
      [] OTHER -> TRUE

FirstAt(text, a, b) == CHOOSE q \in a .. b - 1 : CellAt(q) = text /\ ~Holds(text, a, q)
Breaks(q) == CellAt(q) \in {"bad", "line"}

\* At the end, what is in one page and its margin is reported, but for
\* - vcard: a card right behind another, or behind one that is broken;
\* - sqlite: what a header inside another database promises;
\* - facebook: all but the first hit of a text, and hits at the start of a page, near
\*   the end, or behind a hit at the start;
\* - base64: a block that the end of the page ends, a line that ends another block.
TextsFound ==
  WalkDone =>
    \A q \in Places :
      LET end == SbufBound(q) IN
      CASE scanner = "kml" ->
             \A r \in q + 1 .. end - 1 :
               /\ CellAt(q) = "<?xml" /\ CellAt(r) = "<kml" /\ ~Holds("</kml>", q, r) /\ Holds("</kml>", r, end)
               /\ ~Holds("bad", q, FirstAt("</kml>", r, end))
               => Covered({"kml"}, q, FirstAt("</kml>", r, end) + 1)
        [] scanner = "vcard" ->
             /\ CellAt(q) = "BEGIN:VCARD" /\ Holds("END:VCARD", q, end) /\ ~Holds("bad", q, FirstAt("END:VCARD", q, end))
             => \/ Covered({"vcf"}, q, FirstAt("END:VCARD", q, end) + 1)
                \/ CellAt(q - 1) = "END:VCARD"
                \/ \E b \in PageFirst(q) .. q - 1 : CellAt(b) = "bad" /\ Holds("BEGIN:VCARD", PageFirst(q), b)
        [] scanner = "sqlite" -> CellAt(q).page > 0 /\ dbsize(CellAt(q)) > 0 => Covered({"sqlite3"}, q, q + 1)
        [] scanner = "facebook" ->
             \A j \in DOMAIN facebook_searches :
               /\ CellAt(q) = facebook_searches[j] /\ ~Holds(facebook_searches[j], PageFirst(q), q)
               /\ q > PageFirst(q) /\ q < end - FB_END /\ PageFirst(q) + FB_TAIL < end
               => Covered({"facebook"}, q, q + 1)
        [] scanner = "httplogs" ->
             \A line, get \in PageFirst(q) .. end - 1 :
               /\ q <= get /\ get < line /\ CellAt(get) = "GET" /\ get < PageBound(q) /\ CellAt(line) = "line"
               /\ \A k \in q .. line - 1 : ~Breaks(k)
               /\ q = PageFirst(q) \/ Breaks(q - 1)
               /\ get - q < LOG_WINDOW /\ line - get <= LOG_WINDOW /\ Holds("ip", q, line)
               => Covered({"httplogs"}, q, line)
        [] scanner = "wordlist" ->
             \A b \in q + word_min .. Least(q + word_max, end - 1) :
               ~Holds(" ", q, b) /\ CellAt(b) = " " /\ (q = 0 \/ CellAt(q - 1) = " ") => Reported("word", q, b)
        [] scanner = "base64" ->
             \A b \in q + 2 .. PageBound(q) - 1 :
               /\ SameLines(q, b) /\ ~SameLines(q, b + 1)
               /\ q = PageFirst(q) \/ ~sbuf_line_is_base64(CellAt(q - 1))
               /\ b > q + 2 \/ sbuf_line_is_base64(CellAt(b))
               => Covered({"base64"}, q, b)
        [] OTHER -> TRUE
===============================================================================
