--------------------------- MODULE Phase1Properties ---------------------------
(***************************************************************************)
(* What Phase1 is checked for.                                             *)
(***************************************************************************)
EXTENDS Phase1, Functions

Busy == {w \in Workers : working[w] # Idle}

\* Every variable stays in its type: offsets inside the image (or at the -Y
\* start), byte counts natural, retries within their limit, workers idle or on a page.
TypeOK ==
  /\ pc \in {"record", "loop", "get_sbuf", "schedule", "next", "join", "source", "done", "exit"}
  /\ raw_offset \in Nat /\ eof \in BOOLEAN
  /\ si \subseteq 0 .. max_blocks
  /\ options \in OptionChoices /\ seen_page_ids \in SUBSET Nat
  /\ retry_count \in 0 .. max_bad_alloc_errors
  /\ sha1g \in {"null", "hashing"} /\ hash_next \in Nat /\ total_bytes \in Nat
  /\ stream \in [Part -> {"good", "failed"}]
  /\ sbuf_count \in Int
  /\ queue \in Seq(Nat) /\ working \in [Workers -> Nat \cup {Idle}]
  /\ disk_write_errors \in {0, 1}
  /\ work_start \in SUBSET Nat /\ work_stop \in SUBSET Nat /\ exceptions \in SUBSET Nat
  /\ hashdigest \in SUBSET Nat /\ scheduled \in SUBSET Nat

\* The gate of the loop ("too many in the queue, wait") bounds what is read
\* ahead of the workers: one page more than there are workers waits, at most.
QueueBound == depth0_sbufs_in_queue <= get_worker_count + 1

\* A page handed to the workers is in one place at a time: waiting once, with
\* one worker, or finished; and nothing else is there.
OnePlace ==
  /\ \A i, j \in DOMAIN queue : queue[i] = queue[j] => i = j
  /\ \A v, w \in Busy : working[v] = working[w] => v = w
  /\ \A w \in Busy : working[w] \notin Range(queue) \cup work_stop
  /\ Range(queue) \cap work_start = {}
  /\ Range(queue) \cup {working[w] : w \in Busy} \subseteq scheduled

\* The digest written to report.xml stands for exactly the bytes that were
\* handed to the scanners: they are the pages that begin before hash_next, all
\* of them, and their bytes are those counted in total_bytes.
DigestMatchesPages ==
  \A n \in hashdigest :
     /\ total_bytes = n
     /\ scheduled = {k * pagesize : k \in 0 .. max_blocks} \cap (0 .. (n - 1))

\* When all reads succeed, every live sbuf is waiting, being scanned, or in the
\* hands of the reader, so that none is left at the end.
SbufsAccountedWithoutReadErrors ==
  (\A i \in Part : stream[i] = "good") =>
     sbuf_count = Len(queue) + Cardinality(Busy) + (IF pc = "schedule" THEN 1 ELSE 0)

\* The pages an unsampled run is asked for.  With -z it reads none of them: the page
\* number that -z is compared with is never counted up.
Requested ==
  {off \in {opt_scan_start + k * pagesize : k \in 0 .. max_blocks} :
     /\ off < raw_filesize /\ (opt_scan_end # 0 => off < opt_scan_end)
     /\ opt_page_start <= page_number}

\* When Phase 1 is over every requested page is accounted for: known from
\* before, or reported as an exception, or scanned to the end, unless the disk
\* filled up.  Nothing is still waiting in the workers' queue.
AllPagesAccounted ==
  pc = "done" =>
     /\ ~sampling => Requested \subseteq seen_page_ids \cup exceptions \cup scheduled
     /\ disk_write_errors = 0 => scheduled \ exceptions \subseteq work_stop

\* A page is handed over once, whatever blocks were drawn: although block
\* max_blocks, one past the last, can be drawn, and seek_block() moves it back
\* onto the last page.
ScheduledOnce == [][total_bytes' > total_bytes => raw_offset \notin scheduled]_vars

\* Phase 1 comes to an end, or to exit(1), whatever errors it meets.
Terminates == <>(pc \in {"done", "exit"})

-----------------------------------------------------------------------------
(* A statement of the program's output, that the code does not keep *)

\* bulk_extractor.cpp prints sbufs unaccounted "( should be 0)" and throws
\* "leaked sbuf" when it is not.
NoSbufLeaked == pc = "done" => sbuf_count = 0

-----------------------------------------------------------------------------
(* Refinement *)

PageStatus(p) ==
  IF p \in Range(queue) THEN "waiting"
  ELSE IF \E w \in Busy : working[w] = p THEN "scanning"
  ELSE IF p \in scheduled THEN (IF p \in work_stop THEN "scanned" ELSE "lost")
  ELSE IF p \in exceptions THEN "skipped" ELSE "pending"

Abstract == INSTANCE PageScan WITH
  Page <- Offsets, threads <- Cardinality(threads),
  status <- [p \in Offsets |-> PageStatus(p)]

\* Phase 1 implements PageScan.
ImplementsPageScan == Abstract!Spec
=============================================================================
