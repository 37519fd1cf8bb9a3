----------------------------- MODULE ImageReader -----------------------------
(***************************************************************************)
(* image_process (image_process.cpp): image_process::open() chooses a      *)
(* reader by the name it is given, the reader finds its files, and         *)
(* read_process_sbufs() (phase1.cpp) walks it with an iterator.  Phase1    *)
(* models that walk over a raw image with the worker threads; here the     *)
(* three readers (raw and split-raw, E01, directory) are compared over the *)
(* same loop, with one thread.                                             *)
(*                                                                         *)
(* A path is a sequence of tokens, with a three-digit group, a dot and a   *)
(* slash as tokens of their own: <<"disk", ".", "001">>.                   *)
(***************************************************************************)
EXTENDS Integers, FiniteSets, SequencesExt

CONSTANTS
  Scenarios,      \* records [fname, files, empty : directories without a file, devices,
                  \*          recurse, start, sample, seen]
  reader_pagesize,  \* of the raw and E01 readers; a directory has no pages
  MediumMayFail,    \* a page or a file may be unreadable
  PartNumbers       \* the groups that a part can be numbered with, from "000" on

VARIABLES
  reader_pc,      \* "open", "add", "begin", "loop", "done", or "refused", "crash"
  sc,             \* the scenario: what is on disk and the options
  kind,           \* the class of the reader: "raw", "ewf", "dir"
  file_list,      \* process_raw: the parts
  num,            \* process_raw::open: the next number to probe
  files,          \* process_dir: the files
  it,             \* the iterator
  drawn,          \* the blocks of the sample
  si,             \* those not yet visited
  sha1g, hash_next, hashdigest,
  taken,          \* pages handed to the scanners, in order
  skipped         \* pages reported as exceptions

reader == <<sc, kind, file_list, num, files>>
iteration == <<it, drawn, si, sha1g, hash_next, taken, skipped>>
reader_vars == <<reader_pc, reader, iteration, hashdigest>>

-----------------------------------------------------------------------------
(* Names *)

Exists(path) == path \in DOMAIN sc.files
is_directory(path) == path \in sc.empty \/ \E f \in DOMAIN sc.files : IsStrictPrefix(path \o <<"/">>, f)
Under(dir) == {f \in DOMAIN sc.files : IsStrictPrefix(dir \o <<"/">>, f)}
\* directory_iterator does not descend
Entries(dir) == {f \in Under(dir) : "/" \notin ToSet(SubSeq(f, Len(dir) + 2, Len(f)))}

HasExtension(path, ext) == Len(path) > 1 /\ path[Len(path) - 1] = "." /\ path[Len(path)] = ext

is_multipart_file(path) ==
  \/ HasExtension(path, "000") \/ HasExtension(path, "001")
  \/ HasExtension(path, "vmdk") /\ Len(path) > 2 /\ path[Len(path) - 2] = "001"

\* make_list_template(): the group to count with is the last "000" anywhere in
\* the path, and only when there is none the last "001".
CounterAt(path) ==
  LET At(d) == {i \in DOMAIN path : path[i] = d}
  IN Max(IF At("000") # {} THEN At("000") ELSE At("001"))
\* Mutant: the counter starts at the number of the file that was named.
FirstProbe_NoIncrement(path) == IF path[CounterAt(path)] = "000" THEN 0 ELSE 1
FirstProbe(path) == IF path[CounterAt(path)] = "000" THEN 1 ELSE 2
Part(path, n) == [path EXCEPT ![CounterAt(path)] = PartNumbers[n + 1]]

-----------------------------------------------------------------------------
(* Sizes *)

TwoTo[i \in Nat] == IF i = 0 THEN 1 ELSE 2 * TwoTo[i - 1]

\* get_filesize() of a block device of n bytes, which fstat() says is empty:
\* probe one byte at 1, 2, 4, ... until a read fails, then settle each bit.
IsSet(f, i) == (f \div TwoTo[i]) % 2 = 1
SetBit(f, i) == IF IsSet(f, i) THEN f ELSE f + TwoTo[i]
ClearBit(f, i) == IF IsSet(f, i) THEN f - TwoTo[i] ELSE f
\* The size so far, when the bits from i on are settled.
settled(n, bits) ==
  LET size[i \in 0 .. bits + 1] ==
        IF i > bits THEN TwoTo[bits]
        ELSE LET probe == SetBit(size[i + 1], i)
             IN  IF probe < n THEN probe ELSE ClearBit(size[i + 1], i)
  IN  size
\* Mutant: the offset of the last byte taken for the size.
get_filesize_LastByte(n) == IF n = 0 THEN 0 ELSE n - 1
get_filesize(n) ==
  LET bits == CHOOSE b \in 0 .. 59 : TwoTo[b] >= n /\ \A c \in 0 .. (b - 1) : TwoTo[c] < n
      size == settled(n, bits)[0]
  IN  IF size > 0 THEN size + 1 ELSE 0

path_filesize(path) ==
  IF path \in sc.devices THEN get_filesize(sc.files[path]) ELSE sc.files[path]

\* A disk holds finitely many files.  No device has a single byte, of which get_filesize()
\* finds none, nor more than 2^59, which it refuses.
ASSUME ReaderAssumption ==
  /\ reader_pagesize \in Nat \ {0}
  /\ PartNumbers \in Seq(STRING) /\ Len(PartNumbers) > 2 /\ PartNumbers[1] = "000" /\ PartNumbers[2] = "001"
  /\ \A s \in Scenarios :
       /\ s.fname \in Seq(STRING)
       /\ IsFiniteSet(DOMAIN s.files) /\ DOMAIN s.files \subseteq Seq(STRING)
       /\ s.files \in [DOMAIN s.files -> Nat]
       /\ \A dir \in s.empty, f \in DOMAIN s.files : f # dir /\ ~IsStrictPrefix(dir \o <<"/">>, f)
       /\ \A f \in s.devices \cap DOMAIN s.files : s.files[f] # 1 /\ \E b \in 0 .. 59 : s.files[f] <= TwoTo[b]
       /\ s.recurse \in BOOLEAN /\ s.start \in Nat /\ s.sample \in Nat
       /\ s.seen \subseteq [path : Seq(STRING), offset : Nat]

image_size ==
  CASE kind = "raw" -> IF file_list = << >> THEN 0 ELSE Last(file_list).offset + Last(file_list).length
    [] kind = "ewf" -> sc.files[sc.fname]   \* the media size libewf reports
    [] kind = "dir" -> Len(files)

-----------------------------------------------------------------------------
\* An iterator as it is made.
iterator == [raw_offset |-> 0, file_number |-> 0, eof |-> FALSE]

ReaderFresh ==
  /\ kind = "none" /\ file_list = << >> /\ num = 0 /\ files = << >>
  /\ it = iterator /\ drawn = {} /\ si = {}
  /\ sha1g = "null" /\ hash_next = 0 /\ hashdigest = {}
  /\ taken = << >> /\ skipped = {}
ReaderInit == reader_pc = "open" /\ sc \in Scenarios /\ ReaderFresh

-----------------------------------------------------------------------------
(* image_process::open() *)

HoldsDiskImage(dir) ==
  \E f \in Entries(dir) : \E ext \in {"E01", "000", "001"} : HasExtension(f, ext)

\* NoSuchFile, IsADirectory or FoundDiskImage.
Refuse ==
  /\ reader_pc = "open"
  /\ \/ ~Exists(sc.fname) /\ ~is_directory(sc.fname)
     \/ is_directory(sc.fname) /\ ~sc.recurse
     \/ is_directory(sc.fname) /\ HoldsDiskImage(sc.fname)
  /\ reader_pc' = "refused"
  /\ UNCHANGED <<reader, iteration, hashdigest>>

\* process_dir lists every regular file below, in no particular order.
OpenDirectory ==
  /\ reader_pc = "open" /\ is_directory(sc.fname) /\ sc.recurse
  /\ ~HoldsDiskImage(sc.fname)
  /\ kind' = "dir"
  /\ files' \in SetToSeqs(Under(sc.fname))
  /\ reader_pc' = "begin"
  /\ UNCHANGED <<sc, file_list, num, iteration, hashdigest>>

\* The extension that is compared with "e01" still has its dot, so that only
\* ".E01", anywhere in the path, makes an E01 reader.
IsEwf(path) == \E i \in DOMAIN path : IsPrefix(<<".", "E01">>, SubSeq(path, i, Len(path)))

OpenEwf ==
  /\ reader_pc = "open" /\ Exists(sc.fname) /\ IsEwf(sc.fname)
  /\ kind' = "ewf" /\ reader_pc' = "begin"
  /\ UNCHANGED <<sc, file_list, num, files, iteration, hashdigest>>

file_info(path, offset, length) == [path |-> path, offset |-> offset, length |-> length]
add_file(path) == file_list' = Append(file_list, file_info(path, image_size, path_filesize(path)))

OpenRaw ==
  /\ reader_pc = "open" /\ Exists(sc.fname) /\ ~IsEwf(sc.fname)
  /\ kind' = "raw"
  /\ file_list' = <<file_info(sc.fname, 0, path_filesize(sc.fname))>>
  /\ IF is_multipart_file(sc.fname)
     THEN reader_pc' = "add" /\ num' = FirstProbe(sc.fname)
     ELSE reader_pc' = "begin" /\ UNCHANGED num
  /\ UNCHANGED <<sc, files, iteration, hashdigest>>

\* One probe of process_raw::open(): the parts end at the first missing number.
AddPart ==
  /\ reader_pc = "add"
  /\ IF num < Len(PartNumbers) /\ Exists(Part(sc.fname, num))
     THEN add_file(Part(sc.fname, num)) /\ num' = num + 1 /\ UNCHANGED reader_pc
     ELSE reader_pc' = "begin" /\ UNCHANGED <<file_list, num>>
  /\ UNCHANGED <<sc, kind, files, iteration, hashdigest>>

-----------------------------------------------------------------------------
(* The iterator of each reader *)

\* Mutant: the end of a directory is one past its last file number plus one.
end_PastTheLast == [raw_offset |-> IF kind = "dir" THEN 0 ELSE image_size, eof |-> TRUE,
                    file_number |-> IF kind = "dir" THEN Len(files) + 1 ELSE 0]
end == IF kind = "dir" THEN [raw_offset |-> 0, file_number |-> Len(files), eof |-> TRUE]
       ELSE [raw_offset |-> image_size, file_number |-> 0, eof |-> TRUE]

\* operator !=: page_number, always 0, is left out.
AtEnd == it.eof \/ (it.raw_offset = end.raw_offset /\ it.file_number = end.file_number)

max_blocks == CASE kind = "raw" -> (image_size + reader_pagesize - 1) \div reader_pagesize
                [] kind = "ewf" -> image_size \div reader_pagesize
                [] kind = "dir" -> Len(files)

seek_block(block) ==
  CASE kind = "raw" -> [it EXCEPT !.raw_offset =
                          IF block * reader_pagesize > image_size THEN (image_size \div reader_pagesize) * reader_pagesize
                          ELSE block * reader_pagesize]
    [] kind = "ewf" -> [it EXCEPT !.raw_offset = reader_pagesize * block]
    [] kind = "dir" -> [it EXCEPT !.file_number = block]

\* Mutant: two files at a time.
increment_iterator_TooFar(here) ==
  IF kind = "dir" THEN [here EXCEPT !.file_number = Min({@ + 2, Len(files)})]
  ELSE [here EXCEPT !.raw_offset = Min({@ + reader_pagesize, image_size})]
\* Mutant: a file number past the end is not brought back.
increment_iterator_NoClamp(here) ==
  IF kind = "dir" THEN [here EXCEPT !.file_number = @ + 1]
  ELSE [here EXCEPT !.raw_offset = Min({@ + reader_pagesize, image_size})]

increment_iterator(here) ==
  IF kind = "dir" THEN [here EXCEPT !.file_number = Min({@ + 1, Len(files)})]
  ELSE [here EXCEPT !.raw_offset = Min({@ + reader_pagesize, image_size})]

InRange(here) == kind # "dir" \/ here.file_number < Len(files)
get_pos0(here) == IF kind = "dir" THEN [path |-> files[here.file_number + 1], offset |-> 0]
                  ELSE [path |-> << >>, offset |-> here.raw_offset]
\* sbuf_alloc(): the bytes of the page, the margin aside.
sbuf_pagesize(here) == IF kind = "dir" THEN sc.files[files[here.file_number + 1]]
                       ELSE Min({reader_pagesize, image_size - here.raw_offset})

-----------------------------------------------------------------------------
(* read_process_sbufs() *)

\* With a sample, the blocks are drawn from 0 to max_blocks, both included.
Begin ==
  /\ reader_pc = "begin"
  /\ it' = [iterator EXCEPT !.raw_offset = sc.start]
  /\ IF sc.sample > 0
     THEN drawn' \in kSubset(Min({sc.sample, max_blocks + 1}), 0 .. max_blocks) /\ UNCHANGED sha1g
     ELSE sha1g' = "hashing" /\ drawn' = {}
  /\ si' = drawn'
  /\ reader_pc' = "loop"
  /\ UNCHANGED <<reader, hash_next, hashdigest, taken, skipped>>

\* Where the body of the loop finds the iterator.
Here == IF sc.sample > 0 THEN seek_block(Min(si)) ELSE it

InBody == reader_pc = "loop" /\ ~AtEnd /\ (sc.sample > 0 => si # {})

\* The end of the body: ++si, ++it.
NextPage(here) ==
  /\ it' = increment_iterator(here)
  /\ si' = IF sc.sample > 0 THEN si \ {Min(si)} ELSE si
  /\ UNCHANGED <<reader_pc, reader, drawn, hashdigest>>

\* A page before the start of -Y, or seen before a restart.
PassOver ==
  /\ InBody /\ InRange(Here)
  /\ Here.raw_offset < sc.start \/ get_pos0(Here) \in sc.seen
  /\ NextPage(Here)
  /\ UNCHANGED <<sha1g, hash_next, taken, skipped>>

Wanted == InBody /\ InRange(Here) /\ Here.raw_offset >= sc.start /\ get_pos0(Here) \notin sc.seen

\* Mutant: a gap is passed over and the hash goes on.
Hash_NoGap(offset, bytes) ==
  CASE sha1g = "null" -> UNCHANGED <<sha1g, hash_next>>
    [] sha1g = "hashing" /\ offset = hash_next -> hash_next' = hash_next + bytes /\ UNCHANGED sha1g
    [] OTHER -> UNCHANGED <<sha1g, hash_next>>
Hash(offset, bytes) ==
  CASE sha1g = "null" -> UNCHANGED <<sha1g, hash_next>>
    [] sha1g = "hashing" /\ offset = hash_next -> hash_next' = hash_next + bytes /\ UNCHANGED sha1g
    [] OTHER -> sha1g' = "null" /\ UNCHANGED hash_next

ReadPage ==
  /\ Wanted
  /\ kind # "dir" => Here.raw_offset < image_size
  /\ LET page == get_pos0(Here) IN
       /\ taken' = Append(taken, [path |-> page.path, offset |-> page.offset, bytes |-> sbuf_pagesize(Here)])
       /\ Hash(page.offset, sbuf_pagesize(Here))
  /\ NextPage(Here)
  /\ UNCHANGED skipped

\* ReadError, read_error, or a file that cannot be mapped: reported, skipped.
\* So is a page that starts beyond the image, after the retries of get_sbuf():
\* the byte count it asks for has wrapped and cannot be allocated.
ReadFails ==
  /\ Wanted
  /\ \/ MediumMayFail /\ (kind # "dir" => Here.raw_offset < image_size)
     \/ kind # "dir" /\ Here.raw_offset > image_size
  /\ skipped' = skipped \cup {get_pos0(Here)}
  /\ NextPage(Here)
  /\ UNCHANGED <<sha1g, hash_next, taken>>

\* The block one past the last, when the image is a whole number of pages: the
\* raw reader reads nothing, marks the iterator and throws EndOfImage.
ReadNothing ==
  /\ Wanted /\ kind = "raw" /\ Here.raw_offset = image_size
  /\ skipped' = skipped \cup {get_pos0(Here)}
  /\ it' = [increment_iterator(Here) EXCEPT !.eof = TRUE]
  /\ si' = IF sc.sample > 0 THEN si \ {Min(si)} ELSE si
  /\ UNCHANGED <<reader_pc, reader, drawn, hashdigest, sha1g, hash_next, taken>>

\* The E01 reader returns a null sbuf there, and the caller uses it.
NullSbuf ==
  /\ Wanted /\ kind = "ewf" /\ Here.raw_offset = image_size
  /\ reader_pc' = "crash"
  /\ UNCHANGED <<reader, iteration, hashdigest>>

\* The directory reader indexes past its files: what it finds there either
\* kills the program or is a name that cannot be mapped.
StrayFile ==
  /\ InBody /\ ~InRange(Here)
  /\ \/ reader_pc' = "crash" /\ UNCHANGED <<reader, iteration, hashdigest>>
     \/ NextPage(Here) /\ UNCHANGED <<sha1g, hash_next, taken, skipped>>

\* The loop ends; dfxml_write_source() writes the digest.
Finish ==
  /\ reader_pc = "loop" /\ (AtEnd \/ (sc.sample > 0 /\ si = {}))
  /\ reader_pc' = "done"
  /\ hashdigest' = IF sha1g = "hashing" THEN {hash_next} ELSE {}
  /\ UNCHANGED <<reader, iteration>>

ReaderNext ==
  \/ Refuse \/ OpenDirectory \/ OpenEwf \/ OpenRaw \/ AddPart
  \/ Begin \/ PassOver \/ ReadPage \/ ReadFails \/ ReadNothing \/ NullSbuf \/ StrayFile \/ Finish

ReaderSpec == ReaderInit /\ [][ReaderNext]_reader_vars /\ WF_reader_vars(ReaderNext)

-----------------------------------------------------------------------------
(* Properties *)

Sampled == sc.sample > 0
PlaceOf(t) == [path |-> t.path, offset |-> t.offset]
Positions == {PlaceOf(taken[i]) : i \in DOMAIN taken}

\* Every variable keeps its type; the iterator never points past the last file
\* by more than one.
ReaderTypeOK ==
  /\ reader_pc \in {"open", "add", "begin", "loop", "done", "refused", "crash"}
  /\ sc \in Scenarios
  /\ kind \in {"none", "raw", "ewf", "dir"}
  /\ num \in 0 .. Len(PartNumbers)
  /\ file_list \in Seq([path : DOMAIN sc.files, offset : Nat, length : Nat])
  /\ files \in Seq(DOMAIN sc.files)
  /\ it \in [raw_offset : Nat, file_number : 0 .. Len(files), eof : BOOLEAN]
  /\ drawn \in SUBSET Nat /\ si \in SUBSET drawn
  /\ sha1g \in {"null", "hashing"} /\ hash_next \in Nat /\ hashdigest \in SUBSET Nat
  /\ taken \in Seq([path : Seq(STRING), offset : Nat, bytes : Nat])
  /\ skipped \in SUBSET [path : Seq(STRING), offset : Nat]

\* The parts that belong to a split image: those of the same name with the
\* number that follows, up to the first one missing.
NumberAt(path) == IF HasExtension(path, "vmdk") THEN Len(path) - 2 ELSE Len(path)
Numbered(path, n) == [path EXCEPT ![NumberAt(path)] = PartNumbers[n + 1]]
FirstNumber(path) == IF path = Numbered(path, 0) THEN 0 ELSE 1
Siblings(path) ==
  LET first == FirstNumber(path)
      last == Max({n \in first .. Len(PartNumbers) - 1 : \A k \in first .. n : Exists(Numbered(path, k))})
  IN [i \in 1 .. last - first + 1 |-> Numbered(path, first + i - 1)]

ReadAs == reader_pc \notin {"open", "add", "refused"} /\ kind = "raw" /\ is_multipart_file(sc.fname)

\* ChangeLog: "Just specify filename.000 or filename.001 as the first file, and
\* it will search for and use them all."
SplitImageWhole == ReadAs => [i \in DOMAIN file_list |-> file_list[i].path] = Siblings(sc.fname)

\* That holds of every name but those of a part 001 with a 000 before it, such as
\* 000/disk.001: the reader counts with that group (image_process.cpp:85), finds no
\* second part, or one of another image, and says nothing.  Of such names nothing is
\* claimed.
CountedRight(path) == path[NumberAt(path)] = "000" \/ "000" \notin ToSet(path)
PlainSplitImageWhole ==
  (ReadAs /\ CountedRight(sc.fname)) => SplitImageWhole

\* Each part has its true size, also if it is a block device whose size can only be
\* probed, and lies behind the one before.
SizeIsReal ==
  (reader_pc = "loop" /\ kind = "raw") =>
     \A i \in DOMAIN file_list :
        /\ file_list[i].length = sc.files[file_list[i].path]
        /\ file_list[i].offset = IF i = 1 THEN 0 ELSE file_list[i-1].offset + file_list[i-1].length

\* Both: the image that is walked is what the name stands for, to its last byte.
ImageFoundWhole == PlainSplitImageWhole /\ SizeIsReal

\* An unsampled run without -Y takes every byte of the image, or every file of
\* the directory, exactly once, but for pages reported and pages seen before.
EverythingOnce ==
  (~Sampled /\ sc.start = 0) =>
     /\ \A i, j \in DOMAIN taken : PlaceOf(taken[i]) = PlaceOf(taken[j]) => i = j
     /\ Positions \cap (skipped \cup sc.seen) = {}
     /\ kind = "dir" =>
          /\ {t.path : t \in Positions \cup skipped} \subseteq Under(sc.fname)
          /\ \A f \in Under(sc.fname) : [path |-> f, offset |-> 0] \in Positions \cup skipped \cup sc.seen
     /\ kind # "dir" => \A b \in 0 .. image_size - 1 :
          \/ \E i \in DOMAIN taken : taken[i].offset <= b /\ b < taken[i].offset + taken[i].bytes
          \/ \E t \in skipped \cup sc.seen : t.offset <= b /\ b < t.offset + reader_pagesize

\* A sampling run looks at every block that was drawn, whatever was drawn with
\* it, but for the one past the end.
SampleTaken ==
  sc.start = 0 =>
     \A b \in drawn : InRange(seek_block(b)) /\ seek_block(b).raw_offset < image_size
                      => get_pos0(seek_block(b)) \in Positions \cup skipped \cup sc.seen

\* Pages that lie one behind another from byte 0 on, and where the last one ends.
EndOf(pages) == IF pages = <<>> THEN 0 ELSE Last(pages).offset + Last(pages).bytes
Adjoining(pages) ==
  \A i \in DOMAIN pages : pages[i].offset = IF i = 1 THEN 0 ELSE pages[i-1].offset + pages[i-1].bytes

\* When the reader ends, what was asked for was scanned, once; and the digest in the
\* report is of the bytes that were scanned, of which there can be several files only
\* if all but the last are empty.  It only dies on a block that does not exist, which
\* sampling draws, or on a directory that is given a byte offset to start at.
ReadAsAsked ==
  /\ reader_pc = "done" =>
       /\ EverythingOnce /\ SampleTaken
       /\ hashdigest # {} => Adjoining(taken) /\ hashdigest = {EndOf(taken)}
  /\ reader_pc = "crash" =>
       \/ Sampled /\ (kind = "dir" => Here.file_number = Len(files))
       \/ kind = "dir" /\ sc.start > 0

\* A reader is walked to its end, unless a sample strays past it or -Y is used on a
\* directory, whose iterator then never compares equal to end().
ReaderOver ==
  \/ reader_pc \in {"done", "refused"}
  \/ reader_pc = "crash" /\ Sampled
  \/ kind = "dir" /\ sc.start > 0
=============================================================================
