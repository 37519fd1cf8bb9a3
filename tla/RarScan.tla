------------------------------- MODULE RarScan --------------------------------
(***************************************************************************)
(* scan_rar: volumes behind a mark, and the components of an archive,      *)
(* which are unpacked and scanned again.  What the decoder does is in      *)
(* Unrar.                                                                  *)
(*                                                                         *)
(* A header is one cell that says what it is, with the fields that matter, *)
(* and as many cells more as it is long; a cell of data is a byte.         *)
(***************************************************************************)
EXTENDS SbufWalk, FiniteSetsExt

CONSTANTS
  MARK_LEN, ARCHIVE_HEAD_MIN_LEN, FILE_HEAD_MIN_LEN,
  OPTIONAL_BIGFILE_LEN,     \* what a header has more, for a big file
  threshold,                \* equal bytes that end what is encrypted
  RAR_MEMORY                \* the most that can be allocated for a component

ASSUME RarAssumption ==
  /\ threshold \in Nat \ {0} /\ {MARK_LEN, ARCHIVE_HEAD_MIN_LEN, FILE_HEAD_MIN_LEN, OPTIONAL_BIGFILE_LEN, RAR_MEMORY} \subseteq Nat
  /\ threshold <= MARK_LEN + ARCHIVE_HEAD_MIN_LEN

RarByte(v) == [is |-> "byte", v |-> v]
Here(k) == Cell(k, RarByte(0))

\* ok: flags, lengths and the checksum of the header.
process_volume(k) ==
  /\ bufsize - k >= ARCHIVE_HEAD_MIN_LEN /\ Here(k).is = "volume"
  /\ Here(k).ok /\ Here(k).len >= ARCHIVE_HEAD_MIN_LEN /\ Here(k).len < bufsize - k
IsVolume == bufsize - pos > MARK_LEN /\ Here(pos).is = "mark" /\ process_volume(pos + MARK_LEN)

\* It is given the mark and the header, and not what is behind them.
guess_encrypted_len(k, n) ==
  LET ends == {i \in 0 .. n - threshold - 1 : \A j \in 1 .. threshold - 1 : Here(k + i + j) = Here(k + i)}
  IN  IF ends = {} THEN threshold ELSE Min(ends)
\* Mutant: the end of the header is forgotten.
VolumeReports_Guess(len) ==
  <<Slice("volume", pos, MARK_LEN)>>
    \o (IF Here(pos + MARK_LEN).encrypted THEN <<Slice("encrypted", pos, guess_encrypted_len(pos, MARK_LEN + len))>> ELSE <<>>)
VolumeReports(len) ==
  <<Slice("volume", pos, MARK_LEN)>>
    \o (IF Here(pos + MARK_LEN).encrypted THEN <<Slice("encrypted", pos, MARK_LEN + len + guess_encrypted_len(pos, MARK_LEN + len))>> ELSE <<>>)

\* A part of a component, or one that is encrypted, is passed over.
IsHeader ==
  LET head == Here(pos)
  IN  head.is = "file" /\ ~head.split /\ head.len >= FILE_HEAD_MIN_LEN /\ pos + head.len <= bufsize
\* The sizes of a big file are beyond the least header, and perhaps beyond the sbuf.
HeaderThrows == IsHeader /\ Here(pos).big /\ pos + FILE_HEAD_MIN_LEN + OPTIONAL_BIGFILE_LEN > bufsize

\* name: how many bytes it has, or in how many a 0 divides it from the same in Unicode.
NameOf(head) ==
  CASE ~head.unicode -> head.name
    [] head.zero = head.name -> head.name
    [] OTHER -> head.name - (head.zero + 1)
SizesMakeSense(head) == head.packed > 0 /\ head.unpacked > 0 /\ 19 * head.packed <= 20 * head.unpacked
process_component ==
  LET head == Here(pos)
  IN  IsHeader /\ ~HeaderThrows /\ SizesMakeSense(head) /\ (head.unicode => head.utf8) /\ NameOf(head) > 0 /\ head.ok

ComponentReports ==
  <<Slice("component", pos, Here(pos).len)>>
    \o (IF Here(pos).stored \/ Here(pos).unpacked > RAR_MEMORY THEN <<>> ELSE <<Slice("RAR", pos, Here(pos).len + Here(pos).packed)>>)

\* A size that is read beyond the sbuf, or memory that there is not, ends the page.
RarThrows == HeaderThrows \/ (process_component /\ ~Here(pos).stored /\ Here(pos).unpacked > RAR_MEMORY)
RarStep ==
  /\ In("rar") /\ pos + FILE_HEAD_MIN_LEN < bufsize
  /\ reports' = reports \o (IF IsVolume THEN VolumeReports(Here(pos + MARK_LEN).len) ELSE <<>>)
                        \o (IF process_component THEN ComponentReports ELSE <<>>)
  /\ IF RarThrows THEN LeavePage ELSE MoveTo(pos + 1) /\ UNCHANGED memo
RarPageEnds == In("rar") /\ pos + FILE_HEAD_MIN_LEN >= bufsize /\ LeavePage /\ Silent

-----------------------------------------------------------------------------
\* A volume has its mark and its header; of an encrypted one no less than these are carved,
\* and no more than twice as much, whatever follows.  A component has the whole of its header,
\* with a name and sizes, and is found twice only if the margin of a page has it; what is
\* unpacked was packed.
Sensible(head) ==
  /\ head.is = "file" /\ head.ok /\ ~head.split /\ 0 < head.packed /\ head.packed <= head.unpacked + (head.unpacked \div 19)
  /\ head.name > 0 /\ (head.unicode => head.utf8 /\ head.zero # head.name - 1)
Found(kind, q) == Cardinality({i \in DOMAIN reports : reports[i].kind = kind /\ reports[i].from = q})
RarSound ==
  \A i \in DOMAIN reports :
    LET r == reports[i]
        head == CellAt(r.from)
        volume == CellAt(r.from + MARK_LEN)
    IN  CASE r.kind = "volume" -> head.is = "mark" /\ volume.is = "volume" /\ volume.ok
          [] r.kind = "encrypted" ->
               volume.encrypted /\ r.to >= r.from + MARK_LEN + volume.len /\ r.to <= r.from + (2 * (MARK_LEN + volume.len))
          [] OTHER ->
               /\ Sensible(head) /\ r.to >= r.from + head.len /\ (r.kind = "RAR" => ~head.stored)
               /\ Found(r.kind, r.from) = 1 \/ (r.from >= image.pagesize /\ r.from % image.pagesize < image.margin)

\* A whole header of a component with a name and sizes is found, and what it heads unpacked
\* unless it is stored as it is, when nothing before it ended the page.
Ended(q) ==
  \E k \in PageFirst(q) .. q - 1 :
    CellAt(k).is = "file" /\ (CellAt(k).unpacked > RAR_MEMORY \/ (CellAt(k).big /\ k + FILE_HEAD_MIN_LEN + OPTIONAL_BIGFILE_LEN > SbufBound(q)))
ComponentFound(q) ==
  LET head == CellAt(q)
      fits == /\ q + head.len <= SbufBound(q) /\ q + FILE_HEAD_MIN_LEN < SbufBound(q) /\ head.len >= FILE_HEAD_MIN_LEN
              /\ head.big => q + FILE_HEAD_MIN_LEN + OPTIONAL_BIGFILE_LEN <= SbufBound(q)
  IN  fits /\ Sensible(head) /\ ~Ended(q) =>
        /\ Found("component", q) > 0
        /\ ~head.stored /\ head.unpacked <= RAR_MEMORY => Found("RAR", q) > 0
RarFound == \A q \in {k \in Places : CellAt(k).is = "file"} : ComponentFound(q)
===============================================================================
