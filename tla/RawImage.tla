------------------------------ MODULE RawImage ------------------------------
(***************************************************************************)
(* The reader of raw disk images, process_raw (image_process.cpp).  An     *)
(* image is a list of files, the parts of a split image; file_list is what *)
(* add_file() leaves behind for each of them: where the part starts in the *)
(* image and how long it is.  The operators are the iterator arithmetic of *)
(* the class; bytes themselves are not modelled, offsets and counts are.   *)
(***************************************************************************)
EXTENDS Integers, Sequences

CONSTANTS
  file_list,     \* the parts, a sequence of [offset, length]
  raw_filesize,  \* the sum of all the lengths
  pagesize,      \* opt_pagesize
  margin         \* opt_marginsize

Part == DOMAIN file_list

\* What add_file() establishes: parts follow each other with no hole, and
\* raw_filesize is the end of the last one, past which no part reaches.
ASSUME FileListAssumption ==
  /\ file_list \in Seq([offset : Nat, length : Nat])
  /\ raw_filesize \in Nat
  /\ \A i \in Part :
        file_list[i].offset = IF i = 1 THEN 0
                              ELSE file_list[i-1].offset + file_list[i-1].length
  /\ raw_filesize = IF file_list = << >> THEN 0
                    ELSE file_list[Len(file_list)].offset + file_list[Len(file_list)].length
  /\ \A i \in Part : file_list[i].offset + file_list[i].length <= raw_filesize

ASSUME PagesizeAssumption == pagesize \in Nat \ {0} /\ margin \in Nat

-----------------------------------------------------------------------------
\* find_offset(): the part that holds byte pos of the image, as a set of at
\* most one part (the code returns a null pointer for none).
find_offset(pos) ==
  {i \in Part : /\ file_list[i].offset <= pos
                /\ pos < file_list[i].offset + file_list[i].length}

\* The parts whose streams pread(count, off) seeks and reads, one recursive
\* call for each part that holds some byte of the request.
parts_read(off, count) ==
  {i \in Part : /\ file_list[i].length > 0
                /\ file_list[i].offset < off + count
                /\ off < file_list[i].offset + file_list[i].length}

\* sbuf_alloc(): the number of bytes asked for, page and margin, cut at the
\* end of the image.  Only meaningful for off <= raw_filesize: beyond it the
\* unsigned subtraction of the code wraps (see Oversized).
read_count(off) ==
  IF raw_filesize < off + pagesize + margin THEN raw_filesize - off ELSE pagesize + margin

\* raw_filesize - it.raw_offset wraps to almost 2^64: no allocator has that much.
Oversized(off) == off > raw_filesize

\* sbuf_alloc(): the bytes of the page proper, without the margin.
this_pagesize(off) ==
  IF pagesize > read_count(off) THEN read_count(off) ELSE pagesize

\* increment_iterator()
increment(off) ==
  IF off + pagesize > raw_filesize THEN raw_filesize ELSE off + pagesize

max_blocks == (raw_filesize + pagesize - 1) \div pagesize

\* seek_block(): the raw_offset it leaves in the iterator.
seek_block(block) ==
  IF block * pagesize > raw_filesize
  THEN (raw_filesize \div pagesize) * pagesize
  ELSE block * pagesize
=============================================================================
