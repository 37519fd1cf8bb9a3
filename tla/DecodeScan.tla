------------------------------ MODULE DecodeScan ------------------------------
(***************************************************************************)
(* The scanners that decode what they find and hand the result back to the *)
(* scanner set, which runs every scanner over it: scan_zip, scan_gzip and  *)
(* sbuf_decompress, scan_pdf, scan_hiberfile, scan_msxml, scan_xor,        *)
(* scan_outlook.  An sbuf is a sequence of cells [is, ...]: the header of  *)
(* something encoded, followed by as many cells as it decodes to, or a     *)
(* character of a text.  Scanners run over the top of `todo`, one hit a    *)
(* step, and what a hit decodes to is scanned before the next one.         *)
(***************************************************************************)
EXTENDS Integers, SequencesExt

CONSTANTS
  max_depth,             \* of the scanner set: how deep an sbuf may be nested
  MIN_ZIP_SIZE, MIN_COMPRESSED_SIZE, PDF_TAIL,   \* in cells: 38, 512 and 15 bytes in the code
  zip_min_uncompr_size, zip_max_uncompr_size     \* 6 and 256 MiB in the code

ASSUME DecodeAssumption ==
  /\ max_depth \in Nat /\ MIN_ZIP_SIZE \in Nat /\ MIN_COMPRESSED_SIZE \in Nat /\ PDF_TAIL \in Nat
  /\ zip_min_uncompr_size \in Nat /\ zip_max_uncompr_size \in Nat

VARIABLES
  medium,       \* [cells, pagesize, margin, enabled : the scanners in their order]
  todo,         \* the sbufs to scan, the innermost first: [path, cells, pagesize, left, pos]
  next_page,
  processed,    \* the contents check_previously_processed() was asked about
  decoded       \* what was handed to recurse(), in order: [path, text]
decode_vars == <<medium, todo, next_page, processed, decoded>>

Shorter(a, b) == IF a < b THEN a ELSE b
Top == Head(todo)
Running(s) == todo # <<>> /\ Top.left # <<>> /\ Head(Top.left) = s
DecodeDone == todo = <<>> /\ next_page * medium.pagesize >= Len(medium.cells)

\* A page with its margin; anything else has none.
PageCells(n) == SubSeq(medium.cells, n * medium.pagesize + 1,
                       Shorter((n + 1) * medium.pagesize + medium.margin, Len(medium.cells)))
DecodePage ==
  /\ todo = <<>> /\ ~DecodeDone
  /\ LET start == next_page * medium.pagesize IN
     todo' = <<[path |-> <<>>, base |-> start, left |-> medium.enabled, pos |-> 0,
                cells |-> PageCells(next_page),
                pagesize |-> Shorter(medium.pagesize, Len(medium.cells) - start)]>>
  /\ next_page' = next_page + 1
  /\ UNCHANGED <<medium, processed, decoded>>

\* The scanner goes on at k, or is done; it found something at `at`, by the name it
\* puts into the forensic path, or nothing (name "").
Child(name, at, text) ==
  [path |-> Append(Top.path, [by |-> name, at |-> Top.base + at]), base |-> 0, cells |-> text,
   pagesize |-> Len(text), pos |-> 0, left |-> medium.enabled]

After(k) == IF k < 0 THEN [Top EXCEPT !.left = Tail(@), !.pos = 0] ELSE [Top EXCEPT !.pos = k]
\* The scanner set drops what is nested too deep.
Recurse(children, k) ==
  /\ todo' = (IF Len(Top.path) < max_depth THEN children ELSE <<>>) \o <<After(k)>> \o Tail(todo)
  /\ decoded' = decoded \o (IF Len(Top.path) < max_depth
                            THEN [i \in DOMAIN children |-> [path |-> children[i].path, text |-> children[i].cells]]
                            ELSE <<>>)
\* A scanner with the flag depth0_only runs over pages only.
Depth0Only(s) == s \in {"hiberfile", "outlook"} /\ Top.path # <<>>
GoOn(k) == todo' = <<After(k)>> \o Tail(todo) /\ UNCHANGED decoded
Done == -1

\* An sbuf that all its scanners have seen is deleted.
Unwind == todo # <<>> /\ Top.left = <<>> /\ todo' = Tail(todo) /\ UNCHANGED <<medium, next_page, processed, decoded>>

Cells == Top.cells
decode_bufsize == Len(Cells)
\* The first cell from k on, before `end`, of that kind: its place, or `end`.
Find(is, k, end) ==
  LET hits == {i \in k .. end - 1 : i < decode_bufsize /\ Cells[i + 1].is = is}
  IN  IF hits = {} THEN end ELSE CHOOSE i \in hits : \A j \in hits : i <= j

-----------------------------------------------------------------------------
(* sbuf_decompress *)

\* Whatever zlib yields before it fails or runs out of data; nullptr (<<>>) if nothing.
sbuf_new_decompress(from, max_uncompr_size, ok) ==
  IF ok THEN SubSeq(Cells, from + 1, Shorter(from + max_uncompr_size, decode_bufsize)) ELSE <<>>

-----------------------------------------------------------------------------
(* scan_zip: a cell [is |-> "zip", name, version, head, size, compr, ok], compr *)
(* if its compressed size is not 0                                              *)

ZipEnd == Shorter(Top.pagesize, decode_bufsize - MIN_ZIP_SIZE)

\* Both sizes 0: the component may go to the end of the sbuf.
uncompr_size(zip) ==
  IF (zip.size = 0 /\ ~zip.compr) \/ zip.size > zip_max_uncompr_size THEN zip_max_uncompr_size ELSE zip.size

NameIsFit(zip, i) == zip.name /\ i + zip.head <= decode_bufsize

ZipStep ==
  /\ Running("zip")
  /\ LET i == Find("zip", Top.pos, ZipEnd)
         zip == Cells[i + 1]
         data == i + zip.head
         text == sbuf_new_decompress(data, uncompr_size(zip), zip.ok)
         source == SubSeq(Cells, data + 1, decode_bufsize) IN
     IF decode_bufsize < MIN_ZIP_SIZE \/ i >= ZipEnd THEN GoOn(Done) /\ UNCHANGED processed
     ELSE IF ~NameIsFit(zip, i) \/ zip.version # 20 \/ uncompr_size(zip) < zip_min_uncompr_size
             \/ data >= Top.pagesize                                          \* end-of-buffer
          THEN GoOn(i + 1) /\ UNCHANGED processed
     ELSE IF Top.path # <<>> /\ source \in processed THEN GoOn(i + 1) /\ UNCHANGED processed
     ELSE /\ processed' = IF Top.path # <<>> THEN processed \cup {source} ELSE processed
          /\ IF text = <<>> THEN GoOn(i + 1) ELSE Recurse(<<Child("ZIP", i, text)>>, i + 1)
  /\ UNCHANGED <<medium, next_page>>

-----------------------------------------------------------------------------
(* scan_gzip: a cell [is |-> "gzip", ok] *)

\* Mutant: hits in the margin are followed as well.
GzipEnd_Margin == decode_bufsize
GzipEnd == Top.pagesize

GzipStep ==
  /\ Running("gzip")
  /\ LET i == Find("gzip", Top.pos, GzipEnd)
         text == sbuf_new_decompress(i + 1, decode_bufsize, Cells[i + 1].ok) IN
     IF i >= GzipEnd THEN GoOn(Done)
     ELSE IF text = <<>> THEN GoOn(i + 1) ELSE Recurse(<<Child("GZIP", i, text)>>, i + 1)
  /\ UNCHANGED <<medium, next_page, processed>>

-----------------------------------------------------------------------------
(* scan_hiberfile: a cell [is |-> "xpress", size, ok], of compressed_length size *)

\* Searches to the end of the margin, and gives up at the first block that fails.
HiberStep ==
  /\ Running("hiberfile")
  /\ LET npos == Find("xpress", Top.pos, decode_bufsize)
         block == Cells[npos + 1]
         text == sbuf_new_decompress(npos + 1, block.size, block.ok) IN
     IF \/ Depth0Only("hiberfile") \/ npos = decode_bufsize
        \/ Top.pos + MIN_COMPRESSED_SIZE >= decode_bufsize THEN GoOn(Done)
     ELSE IF text = <<>> THEN GoOn(Done)
     ELSE Recurse(<<Child("HIBERFILE", npos, text)>>, npos + block.size)
  /\ UNCHANGED <<medium, next_page, processed>>

-----------------------------------------------------------------------------
(* scan_pdf: "stream" is a cell, "endstream" the two cells "end" and "stream";  *)
(* behind [is |-> "stream", ok] stands the end of a line.                      *)

Endstream(k) == /\ Find("end", k, decode_bufsize) < decode_bufsize
                /\ Find("stream", Find("end", k, decode_bufsize), decode_bufsize) = Find("end", k, decode_bufsize) + 1

\* find_streams from loc on: <<stream_tag, stream_start, endstream_tag>>.  The search
\* for a tag goes on into the margin.
find_streams(from) ==
  LET found[loc \in 0 .. decode_bufsize + 3] ==
        LET tag == Find("stream", loc, decode_bufsize)
            start == tag + 2
            end == Find("end", start, decode_bufsize)
            next == Find("stream", start, decode_bufsize) IN
        IF loc + PDF_TAIL >= Top.pagesize \/ tag = decode_bufsize \/ end = decode_bufsize THEN <<>>
        ELSE IF next < decode_bufsize /\ end + 1 # next THEN found[next]
        ELSE <<[tag |-> tag, start |-> start, end |-> end]>> \o found[Shorter(end + 3, decode_bufsize + 3)]
  IN  found[from]

\* The characters in parentheses; with a space behind each word if no word has one.
Char(c) == [is |-> c]
extract_text(text) ==
  LET inside(i) == \E j \in 1 .. i : text[j].is = "(" /\ \A k \in j + 1 .. i : text[k].is # ")"
      word(i) == inside(i) /\ inside(i - 1)
      words_have_spaces == \E i \in DOMAIN text : word(i) /\ text[i].is = " "
  IN  FlattenSeq([i \in DOMAIN text |->
        IF word(i) THEN <<text[i]>>
        ELSE IF inside(i - 1) /\ ~words_have_spaces THEN <<Char(" ")>> ELSE <<>>])

\* more than nine in ten: all of them, in a text of at most ten
mostly_printable_ascii(text) == \A i \in DOMAIN text : text[i].is # "binary"

PdfStep ==
  /\ Running("pdf")
  /\ \E streams \in {find_streams(0)} :
       \E dbufs \in {[i \in DOMAIN streams |->
            sbuf_new_decompress(streams[i].start, streams[i].end - streams[i].start, Cells[streams[i].tag + 1].ok)]} :
       \E texts \in {[i \in DOMAIN streams |->
            Child("PDF", streams[i].tag, IF mostly_printable_ascii(dbufs[i]) THEN extract_text(dbufs[i]) ELSE <<>>)]} :
         Recurse(FlattenSeq([i \in DOMAIN texts |-> IF texts[i].cells = <<>> THEN <<>> ELSE <<texts[i]>>]), Done)
  /\ UNCHANGED <<medium, next_page, processed>>

-----------------------------------------------------------------------------
(* scan_msxml: "<?xml" and "</w:p" are cells as "<" is, ">" ends a tag *)

Markup == {"<", "<?xml", "</w:p"}
msxml_extract_text(text) ==
  LET instring(i) == \E j \in 1 .. i - 1 : text[j].is = ">" /\ \A k \in j + 1 .. i - 1 : text[k].is \notin Markup
  IN  FlattenSeq([i \in DOMAIN text |->
        IF text[i].is = "</w:p" THEN <<Char("newline")>>
        ELSE IF text[i].is \notin Markup \cup {">"} /\ instring(i) THEN <<text[i]>> ELSE <<>>])

MsxmlStep ==
  /\ Running("msxml")
  /\ IF decode_bufsize > 0 /\ Cells[1].is = "<?xml"
     THEN Recurse(<<Child("MSXML", 0, msxml_extract_text(Cells))>>, Done)
     ELSE GoOn(Done)
  /\ UNCHANGED <<medium, next_page, processed>>

-----------------------------------------------------------------------------
(* scan_xor and scan_outlook: a cell [is |-> "masked", by, cell] hides a cell *)

Unmask(by, c) == IF c.is = "masked" /\ c.by = by THEN c.cell ELSE [is |-> "masked", by |-> by, cell |-> c]
lastAddedPart == IF Top.path = <<>> THEN "" ELSE Last(Top.path).by

\* The part that is added to the path is "XOR(255)", the part that is looked for "XOR".
XorStep ==
  /\ Running("xor")
  /\ IF \/ lastAddedPart = "XOR"
        \/ Len(Top.path) >= 2 /\ lastAddedPart = "ZIP" /\ Top.path[Len(Top.path) - 1].by = "XOR"
     THEN GoOn(Done)
     ELSE Recurse(<<[Child("XOR(255)", 0, [i \in DOMAIN Cells |-> Unmask("xor", Cells[i])])
                       EXCEPT !.pagesize = Top.pagesize]>>, Done)
  /\ UNCHANGED <<medium, next_page, processed>>

OutlookStep ==
  /\ Running("outlook")
  /\ IF Depth0Only("outlook") \/ lastAddedPart = "OUTLOOK" THEN GoOn(Done)
     ELSE Recurse(<<Child("OUTLOOK", 0, [i \in DOMAIN Cells |-> Unmask("ofe", Cells[i])])>>, Done)
  /\ UNCHANGED <<medium, next_page, processed>>

DecodeStep ==
  \/ DecodePage \/ Unwind
  \/ ZipStep \/ GzipStep \/ HiberStep \/ PdfStep \/ MsxmlStep \/ XorStep \/ OutlookStep

\* Nothing read yet.
DecodeInit == todo = <<>> /\ next_page = 0 /\ processed = {} /\ decoded = <<>>

-----------------------------------------------------------------------------
(* Properties *)

DecodeTypeOK ==
  /\ next_page \in Nat
  /\ \A i \in DOMAIN todo : todo[i].pos \in Nat /\ todo[i].pagesize \in 0 .. Len(todo[i].cells)
  /\ \A i \in DOMAIN todo : Len(todo[i].path) <= max_depth

\* Where in the medium something was found: xor and outlook decode a whole page.
Origin(path) ==
  IF Len(path) >= 2 /\ path[1].by \in {"XOR(255)", "OUTLOOK"}
  THEN <<[path[1] EXCEPT !.at = 0]>> \o <<[path[2] EXCEPT !.at = @ + path[1].at]>> \o SubSeq(path, 3, Len(path))
  ELSE path

\* Nothing is decoded twice at one place, by two pages or by one, but for what begins in
\* the margin of a page, decoded by xor or not: hiberfile and pdf search it to the end,
\* and outlook makes it part of its page.
DecodedOnce ==
  \A i, j \in DOMAIN decoded :
    i # j /\ Origin(decoded[i].path) = Origin(decoded[j].path) =>
      LET path == Origin(decoded[i].path)
          part == IF path[1].by \in {"XOR(255)", "OUTLOOK"} THEN path[2] ELSE path[1] IN
      /\ \E p \in DOMAIN path : path[p].by \in {"PDF", "HIBERFILE", "OUTLOOK"}
      /\ part.at >= medium.pagesize /\ part.at % medium.pagesize < medium.margin

\* Everything that was scanned and may be decoded further; of what xor decoded, the pages.
\* (scan_xor.cpp:37 refuses to mask a masked buffer again, but looks for another name than
\* it gave: the buffer is masked again, down to max_depth.  That is not demanded of it, and
\* not ruled out: DecodedOnce counts each such decoding as one of its own path.)
Scanned ==
  {[path |-> <<>>, base |-> n * medium.pagesize, pagesize |-> Shorter(medium.pagesize, Len(medium.cells) - n * medium.pagesize),
    cells |-> PageCells(n)] :
     n \in 0 .. next_page - 1}
  \cup {[path |-> d.path, base |-> 0, cells |-> d.text,
          pagesize |-> Shorter(IF Last(d.path).by = "XOR(255)" THEN medium.pagesize ELSE Len(d.text), Len(d.text))] :
          d \in {d \in ToSet(decoded) : Len(d.path) < max_depth /\ (Last(d.path).by = "XOR(255)" => Len(d.path) = 1)}}

Decodes(s, name, i, text) == [path |-> Append(s.path, [by |-> name, at |-> s.base + i]), text |-> text] \in ToSet(decoded)
Body(s, i, n) == SubSeq(s.cells, i + 1, Shorter(i + n, Len(s.cells)))
Is(s, i, is) == 0 <= i /\ i < Len(s.cells) /\ s.cells[i + 1].is = is

\* Not if the same was met before, be it too deep to be decoded there.
ZipFound(s, i) ==
  LET zip == s.cells[i + 1]
      text == Body(s, i + zip.head, uncompr_size(zip)) IN
  /\ zip.name /\ zip.version = 20 /\ zip.ok /\ text # <<>> /\ uncompr_size(zip) >= zip_min_uncompr_size
  /\ i + MIN_ZIP_SIZE < Len(s.cells) /\ i + zip.head < s.pagesize
  => \/ Decodes(s, "ZIP", i, text)
     \/ s.path # <<>> /\ \E d \in ToSet(decoded) : d.path # s.path /\ d.text = text
     \/ s.path # <<>> /\ \E d \in ToSet(decoded) : Len(d.path) = max_depth /\ IsSuffix(SubSeq(s.cells, i + zip.head + 1, Len(s.cells)), d.text)

\* Not behind a block that is damaged or that contains the place.
XpressFound(s, i) ==
  /\ s.cells[i + 1].ok /\ i + MIN_COMPRESSED_SIZE < Len(s.cells)
  /\ \A k \in 0 .. i - 1 : Is(s, k, "xpress") => s.cells[k + 1].ok /\ k + s.cells[k + 1].size <= i
  => Decodes(s, "HIBERFILE", i, Body(s, i + 1, s.cells[i + 1].size))

\* A tag right behind an "endstream" is not seen, nor is one near the end of the page.
StreamFound(s, i) ==
  \A e \in i + 3 .. Len(s.cells) - 2 :
    /\ s.cells[i + 1].ok /\ i + PDF_TAIL < s.pagesize /\ ~Is(s, i - 1, "end") /\ ~Is(s, i - 1, "stream")
    /\ Is(s, e, "end") /\ Is(s, e + 1, "stream")
    /\ \A k \in i + 2 .. e - 1 : ~Is(s, k, "end") /\ ~Is(s, k, "stream")
    /\ \A k \in i + 2 .. e - 1 : ~Is(s, k, "binary")
    /\ extract_text(Body(s, i + 2, e - i - 2)) # <<>>
    => Decodes(s, "PDF", i, extract_text(Body(s, i + 2, e - i - 2)))

\* In every page, and in everything decoded, what begins before the end of the page and
\* can be decoded is, up to the depth of the scanner set, with the exceptions above.
DecodedFound ==
  DecodeDone =>
    \A s \in Scanned : \A i \in 0 .. s.pagesize - 1 :
      CASE Is(s, i, "gzip") /\ "gzip" \in ToSet(medium.enabled) ->
             s.cells[i + 1].ok /\ i + 1 < Len(s.cells) => Decodes(s, "GZIP", i, Body(s, i + 1, Len(s.cells)))
        [] Is(s, i, "zip") /\ "zip" \in ToSet(medium.enabled) -> ZipFound(s, i)
        [] Is(s, i, "xpress") /\ "hiberfile" \in ToSet(medium.enabled) /\ s.path = <<>> -> XpressFound(s, i)
        [] Is(s, i, "stream") /\ "pdf" \in ToSet(medium.enabled) -> StreamFound(s, i)
        [] OTHER -> TRUE
===============================================================================
