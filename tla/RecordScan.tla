------------------------------ MODULE RecordScan ------------------------------
(***************************************************************************)
(* The scanners that carve records of a fixed layout: scan_utmp,           *)
(* scan_ntfsmft, scan_ntfsindx, scan_ntfslogfile, scan_ntfsusn, scan_evtx. *)
(* What their check_..._signature functions say of an offset is the        *)
(* content of the cell there.                                              *)
(***************************************************************************)
EXTENDS SbufWalk

CONSTANTS
  UTMP_RECORD,     \* 384 bytes; a cell is 8 bytes
  SECTOR_SIZE,     \* 512 bytes (USN); a cell is 8 bytes
  CLUSTER_SIZE,    \* 4096 bytes (EVTX), also the size of a file header; a cell is 8 bytes
  ELFCHNK_SIZE     \* 65536 bytes

ASSUME RecordAssumption ==
  /\ UTMP_RECORD \in Nat \ {0} /\ SECTOR_SIZE \in Nat \ {0}
  /\ CLUSTER_SIZE \in Nat \ {0} /\ ELFCHNK_SIZE \in Nat \ {0} /\ ELFCHNK_SIZE % CLUSTER_SIZE = 0

-----------------------------------------------------------------------------
(* utmp: a cell is "utmp" where a record may begin, else "none" *)

check_utmprecord_signature(k) == Cell(k, "none") = "utmp"

\* The loop ends a record before the end of the page: what begins there is not seen.
UtmpStep ==
  /\ In("utmp")
  /\ IF pagesize < UTMP_RECORD \/ pos >= pagesize - UTMP_RECORD THEN LeavePage /\ Silent
     ELSE /\ UNCHANGED memo
          /\ IF check_utmprecord_signature(pos)
             THEN Report("utmp", pos, UTMP_RECORD) /\ MoveTo(pos + UTMP_RECORD)
             ELSE Silent /\ MoveTo(pos + 1)

-----------------------------------------------------------------------------
(* $MFT, INDX and $LogFile: a cell is a record, or the cluster it would fill.     *)
(* Its content is the file it is carved to; "-" marks one whose fixup values are *)
(* wrong, and image.cut says that the last cell is cut short by the image's end: *)
(* then "-" is one with a wrong value in front of the cut.                       *)

\* The records of which a run is carved as one file.
RunOf == [ntfsmft |-> "FILE", ntfsindx |-> "INDX", ntfslogfile |-> "RCRD"]
\* Those carved by themselves: INDX records by their type.
Alone == [ntfsmft |-> {"FILE-"}, ntfsindx |-> {"INDX_ObjId-O", "INDX_Misc", "INDX-"},
          ntfslogfile |-> {"RCRD-", "RSTR", "RSTR-"}]

Corrupted == {"FILE-", "INDX-", "RCRD-", "RSTR-"}
Intact == (Alone[scanner] \cup {RunOf[scanner]}) \ Corrupted

\* The fixup values of a record that is cut short are looked for behind the sbuf, unless
\* one before is wrong.
Throws(k) == image.cut /\ WalkStart + k + 1 = ImageSize /\ Cell(k, "none") \in Intact

\* Where the run that begins at pos stops.
RunEnd ==
  CHOOSE e \in pos + 1 .. pagesize : /\ e >= pagesize \/ Cell(e, "none") # RunOf[scanner]
                                     /\ \A k \in pos + 1 .. e - 1 : Cell(k, "none") = RunOf[scanner]

\* Records of the kind that goes on are carved together.
NtfsRun ==
  /\ Cell(pos, "none") = RunOf[scanner]
  /\ IF RunEnd < pagesize /\ Throws(RunEnd) THEN LeavePage /\ Silent
     ELSE Report(RunOf[scanner], pos, RunEnd - pos) /\ MoveTo(RunEnd) /\ UNCHANGED memo
\* Others are carved each by itself, and what is no record is passed over.
NtfsAlone ==
  \/ Cell(pos, "none") \in Alone[scanner] /\ Report(Cell(pos, "none"), pos, 1) /\ MoveTo(pos + 1) /\ UNCHANGED memo
  \/ Cell(pos, "none") \notin Alone[scanner] \cup {RunOf[scanner]} /\ Silent /\ MoveTo(pos + 1) /\ UNCHANGED memo
NtfsStep ==
  /\ scanner \in DOMAIN RunOf /\ ~WalkDone
  /\ \/ (pos >= pagesize \/ Throws(pos)) /\ LeavePage /\ Silent
     \/ pos < pagesize /\ ~Throws(pos) /\ (NtfsRun \/ NtfsAlone)

-----------------------------------------------------------------------------
(* USN: a cell is [v, size, odd]: the version of the record that begins there (0: *)
(* none), its length in cells, rounded up if it is no multiple of 8 bytes (odd). *)

NoUsn == [v |-> 0, size |-> 0, odd |-> FALSE]
\* Mutant: records of version 4 begin a run as well.
check_usnrecordv2_signature_V4(k) == Cell(k, NoUsn)
check_usnrecordv2_signature(k) == IF Cell(k, NoUsn).v = 2 THEN Cell(k, NoUsn) ELSE NoUsn
check_usnrecordv2_or_v4_signature(k) == Cell(k, NoUsn)

\* memo is total_record_size, 0 while the outer loop runs.
UsnCarve(total) == Report("UsnJrnl-J", pos, total) /\ MoveTo(pos + total) /\ memo' = 0

UsnFirst ==
  /\ In("ntfsusn") /\ memo = 0
  /\ LET record == check_usnrecordv2_signature(pos) IN
     \/ pos >= pagesize /\ LeavePage /\ Silent
     \/ pos < pagesize /\ record = NoUsn /\ Silent /\ MoveTo(pos + 1) /\ UNCHANGED memo
     \/ /\ pos < pagesize /\ record.odd
        /\ Report("corrupted", pos, record.size) /\ MoveTo(pos + record.size) /\ UNCHANGED memo
     \/ /\ pos < pagesize /\ record # NoUsn /\ ~record.odd
        /\ IF pos + record.size > pagesize
           THEN /\ Report(IF pos + record.size < bufsize THEN "UsnJrnl-J" ELSE "corrupted", pos, record.size)
                /\ LeavePage
           ELSE Silent /\ memo' = record.size /\ UNCHANGED <<scanner, image, page, pos>>

Boundary(k) == k + SECTOR_SIZE - (k % SECTOR_SIZE)

\* The next record of the run; or, behind padding, the first one of the next sector.
UsnNext ==
  /\ In("ntfsusn") /\ memo > 0
  /\ LET here == pos + memo
         record == check_usnrecordv2_or_v4_signature(here)
         later == check_usnrecordv2_or_v4_signature(Boundary(here)) IN
     CASE record.odd -> UsnCarve(memo)
       [] record # NoUsn /\ ~record.odd /\ here + record.size < pagesize ->
            Silent /\ memo' = memo + record.size /\ UNCHANGED <<scanner, image, page, pos>>
       [] record # NoUsn /\ ~record.odd /\ here + record.size >= pagesize -> UsnCarve(pagesize - pos)
       [] record = NoUsn /\ here % SECTOR_SIZE # 0 /\ later # NoUsn /\ ~later.odd
          /\ here + later.size < pagesize ->
            Silent /\ memo' = Boundary(here) - pos /\ UNCHANGED <<scanner, image, page, pos>>
       [] OTHER -> UsnCarve(memo)

-----------------------------------------------------------------------------
(* EVTX: a cell is [is, n]: a file header with n chunks, a chunk whose last       *)
(* record is n (-1: not above 0), a record of n cells, or "none".                *)

NoEvtx == [is |-> "none", n |-> 0]
Check(is, k) == IF Cell(k, NoEvtx).is = is THEN Cell(k, NoEvtx).n ELSE 0
check_evtxheader_signature(k) == Check("header", k)
check_evtxchunk_signature(k) == Check("chunk", k)
\* The length at the end of a record is read behind the sbuf if the record ends there.
check_evtxrecord_signature(k) == Check("record", k)
RecordThrows(k) == Check("record", k) > 0 /\ k + Check("record", k) > bufsize

\* total_size once the chunks from k on are added to it; the first is taken as read.
ChunksFrom(k) ==
  CHOOSE n \in 1 .. bufsize + 1 :
    /\ check_evtxchunk_signature(k + n * ELFCHNK_SIZE) <= 0 \/ k + n * ELFCHNK_SIZE >= pagesize
    /\ \A i \in 1 .. n - 1 : check_evtxchunk_signature(k + i * ELFCHNK_SIZE) > 0 /\ k + i * ELFCHNK_SIZE < pagesize

\* memo is total_size, which is set by a file header and by nothing else: a chunk
\* without a header adds to what was there before.
EvtxFile ==
  /\ In("evtx") /\ pos < pagesize /\ check_evtxheader_signature(pos) > 0
  /\ LET chunk == check_evtxchunk_signature(pos + CLUSTER_SIZE)
         total == CASE chunk > 0 -> CLUSTER_SIZE + ChunksFrom(pos + CLUSTER_SIZE) * ELFCHNK_SIZE
                    [] chunk < 0 -> CLUSTER_SIZE + ELFCHNK_SIZE
                    [] OTHER -> CLUSTER_SIZE IN
     /\ IF chunk > 0 THEN Report("file", pos, total) ELSE Silent
     /\ memo' = total /\ MoveTo(pos + total)

EvtxChunks ==
  /\ In("evtx") /\ pos < pagesize
  /\ check_evtxheader_signature(pos) <= 0 /\ check_evtxchunk_signature(pos) > 0
  /\ LET total == memo + ChunksFrom(pos + memo) * ELFCHNK_SIZE IN
     /\ Report("chunks", pos, total) /\ memo' = total /\ MoveTo(pos + total)

\* The records of a cluster that belongs to no chunk: the starts, in order.
Orphans(k, end) ==
  LET next[i \in k .. end] ==
        IF i = end THEN <<>>
        ELSE LET n == check_evtxrecord_signature(i) IN
             IF RecordThrows(i) THEN <<[at |-> i, n |-> 0]>>
             ELSE IF n > 0 THEN <<[at |-> i, n |-> n]>> \o (IF i + n < end THEN next[i + n] ELSE <<>>)
             ELSE next[i + 1]
  IN  next[k]

EvtxCluster ==
  /\ In("evtx") /\ pos < pagesize
  /\ check_evtxheader_signature(pos) <= 0 /\ check_evtxchunk_signature(pos) <= 0
  /\ \E found \in {Orphans(pos, pos + CLUSTER_SIZE)} :
       LET thrown == found # <<>> /\ found[Len(found)].n = 0
           kept == IF thrown THEN SubSeq(found, 1, Len(found) - 1) ELSE found IN
       /\ reports' = reports \o [i \in DOMAIN kept |-> Slice("orphan", kept[i].at, kept[i].n)]
       /\ IF thrown THEN LeavePage ELSE MoveTo(pos + CLUSTER_SIZE) /\ UNCHANGED memo

EvtxEnd == In("evtx") /\ pos >= pagesize /\ LeavePage /\ Silent

EvtxStep == EvtxFile \/ EvtxChunks \/ EvtxCluster \/ EvtxEnd

RecordScanners == {"utmp", "ntfsmft", "ntfsindx", "ntfslogfile", "ntfsusn", "evtx"}
RecordStep == UtmpStep \/ NtfsStep \/ UsnFirst \/ UsnNext \/ EvtxStep

-----------------------------------------------------------------------------
(* What they carve *)

\* No two carved files share a record, but for one that goes on into the next page:
\* each page carves it again.  An orphan record may be a part of a later file.
CarvedOnce ==
  scanner \in RecordScanners =>
    \A i, j \in DOMAIN reports :
      i < j /\ Overlap(reports[i], reports[j]) =>
        reports[i].kind = "orphan" \/ reports[i].to > PageBound(reports[i].from)

SamePage(p, q) == p \div image.pagesize = q \div image.pagesize
Within(kinds, q) == Covered(kinds, q, q + 1)

\* The ends of USN records that follow each other from q on, over padding or not.
UsnEnds(q) ==
  LET ends[p \in q .. ImageSize] ==
        IF p = ImageSize \/ CellAt(p) = NoUsn THEN {} ELSE
          LET e == Least(p + CellAt(p).size, ImageSize)
              b == Least(PageFirst(p) + Boundary(e - PageFirst(p)), ImageSize)
          IN  {e} \cup ends[e] \cup ends[b]
  IN  ends[q]

\* What is carved is made of whole records of its kind, one behind the other, but for the
\* last of a run of USN records, which the end of the page may cut, and for what follows
\* another EVTX file or run of chunks in the page.
WholeRecords(r) ==
  CASE r.kind = "utmp" -> CellAt(r.from) = "utmp" /\ r.to = r.from + UTMP_RECORD
    [] r.kind = "UsnJrnl-J" ->
         /\ CellAt(r.from).v = 2
         /\ \/ r.to = PageBound(r.from) \/ r.to \in UsnEnds(r.from)
    [] r.kind = "corrupted" -> CellAt(r.from).v = 2
    [] r.kind = "orphan" -> CellAt(r.from) = [is |-> "record", n |-> r.to - r.from]
    [] r.kind \in {"file", "chunks"} ->
         LET body == IF r.kind = "file" THEN r.from + CLUSTER_SIZE ELSE r.from IN
         \/ r.kind = "chunks" /\ \E q \in Places : q < r.from /\ SamePage(q, r.from) /\ CellAt(q).is \in {"header", "chunk"}
         \/ /\ (r.to - body) % ELFCHNK_SIZE = 0 \/ r.to = ImageSize \/ r.to >= PageBound(r.from)
            /\ r.kind = "file" => CellAt(r.from).is = "header" /\ CellAt(r.from).n > 0
            /\ \A q \in body .. r.to - 1 : (q - body) % ELFCHNK_SIZE = 0 => CellAt(q).is = "chunk" /\ CellAt(q).n > 0
    [] scanner \in DOMAIN RunOf -> \A q \in r.from .. r.to - 1 : CellAt(q) = r.kind
    [] OTHER -> TRUE

\* Every file that is carved is.
RecordsSound == \A r \in {reports[i] : i \in DOMAIN reports} : WholeRecords(r)

\* Is q in the cluster of a file header that no good chunk follows, or in the damaged chunk
\* behind it?  Is there before q, in its page, a record that the end of the sbuf cuts?
HeaderAlone(q) ==
  \E p \in Places :
    /\ CellAt(p).is = "header" /\ CellAt(p).n > 0 /\ p < q /\ SamePage(p, q)
    /\ LET first == p + CLUSTER_SIZE
           chunk == IF first < SbufBound(p) /\ CellAt(first).is = "chunk" THEN CellAt(first).n ELSE 0 IN
       \/ chunk <= 0 /\ q < first
       \/ chunk < 0 /\ q < first + ELFCHNK_SIZE
RecordCut(q) ==
  \E p \in Places : /\ CellAt(p).is = "record" /\ p <= q /\ SamePage(p, q)
                    /\ p + CellAt(p).n > SbufBound(p)

\* Is the record at q in a carved file?  Not if it is
\* - utmp: one that begins in the last UTMP_RECORD bytes of a page;
\* - NTFS: one that the end of the image cuts, or in the run of records before it, unless
\*   a wrong fixup value is found before the cut;
\* - EVTX: a chunk that stands at no multiple of a cluster, or what stands behind a header
\*   without a good chunk; records behind one that the end of the sbuf cuts.
\* USN records count that are of version 2; others are carved only behind those.
UtmpFound(q) == CellAt(q) = "utmp" => Within({"utmp"}, q) \/ q >= PageBound(q) - UTMP_RECORD
NtfsFound(q) ==
  CellAt(q) \in Alone[scanner] \cup {RunOf[scanner]} =>
    \/ Within({CellAt(q)}, q)
    \/ /\ image.cut /\ SamePage(q, ImageSize - 1) /\ CellAt(ImageSize - 1) \in Intact
       /\ \A p \in q .. ImageSize - 2 : CellAt(p) = RunOf[scanner]
UsnFound(q) == CellAt(q).v = 2 => Within({"UsnJrnl-J", "corrupted"}, q)
EvtxFound(q) ==
  /\ CellAt(q).is = "chunk" /\ CellAt(q).n > 0 /\ (q % image.pagesize) % CLUSTER_SIZE = 0 =>
       Within({"file", "chunks"}, q) \/ HeaderAlone(q) \/ RecordCut(q)
  /\ CellAt(q).is = "record" =>
       Within({"file", "chunks", "orphan"}, q) \/ HeaderAlone(q) \/ RecordCut(q)
RecordFound(q) ==
  /\ scanner = "utmp" => UtmpFound(q)
  /\ scanner \in DOMAIN RunOf => NtfsFound(q)
  /\ scanner = "ntfsusn" => UsnFound(q)
  /\ scanner = "evtx" => EvtxFound(q)

\* At the end, every record is.
RecordsFound == WalkDone => \A q \in Places : RecordFound(q)
===============================================================================
