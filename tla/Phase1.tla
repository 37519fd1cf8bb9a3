------------------------------- MODULE Phase1 -------------------------------
(***************************************************************************)
(* Phase 1 of bulk_extractor: the main thread (Phase1::phase1_run and      *)
(* Phase1::read_process_sbufs, phase1.cpp) walks the image page by page,   *)
(* reads each page into an sbuf, hashes it and hands it to the scanner_set,*)
(* whose worker threads scan the pages.  scanner_set and its thread pool   *)
(* live in the be20_api library, which is not part of the repository; they *)
(* are modelled as phase1.cpp uses them: a FIFO of pages, workers that     *)
(* write a work_start and a work_stop tag to report.xml around each page,  *)
(* a count of disk write errors, and join().                               *)
(*                                                                         *)
(* One run of the program; its death and restart are in Restart.tla.       *)
(***************************************************************************)
EXTENDS RawImage, FiniteSets

CONSTANTS
  Workers,               \* the worker threads there may be
  OptionChoices,         \* the command lines: the options described at `options`
  opt_page_start,        \* -z
  max_bad_alloc_errors,
  SeenChoices,           \* the sets of pages a restart may have put in seen_page_ids
  MediumMayFail,         \* a read of the image may fail
  DiskMayFill            \* a scanner may fail to write a feature file

ASSUME ConfigAssumption ==
  /\ IsFiniteSet(Workers)
  /\ OptionChoices \subseteq [threads : SUBSET Workers, opt_scan_start : Nat, opt_scan_end : Nat,
                              sampling_fraction : 1 .. 100]
  /\ opt_page_start \in Nat
  /\ max_bad_alloc_errors \in Nat \ {0}   \* assert() at the top of get_sbuf
  /\ SeenChoices \subseteq SUBSET Nat
  /\ MediumMayFail \in BOOLEAN /\ DiskMayFill \in BOOLEAN

Idle == -1      \* a worker with no page
VARIABLES
  pc,                \* where the main thread is
  \* the iterator `it`: page_number and file_number are never assigned
  raw_offset, eof,
  si,                \* the sampled blocks not yet visited, [si, end())
  options,           \* of the command line, never changed
  seen_page_ids,     \* pages the restarter found in an earlier report.xml
  retry_count,       \* of get_sbuf
  sha1g,             \* "null" or "hashing"
  hash_next,
  total_bytes,
  stream,            \* the state of each part's std::ifstream
  sbuf_count,        \* sbuf_t::sbuf_count, sbufs allocated and not deleted
  \* scanner_set
  queue,             \* depth-0 sbufs waiting for a worker, by pos0
  working,           \* the page each worker is scanning
  disk_write_errors,
  \* report.xml
  work_start, work_stop, exceptions, hashdigest,
  scheduled          \* history: the pages handed to schedule_sbuf

\* The worker threads (none with -J, the pages are scanned inline); -Y start and end, the
\* end 0 for none; and whether -s was given, its fraction in hundredths.
threads == options.threads
opt_scan_start == options.opt_scan_start
opt_scan_end == options.opt_scan_end
sampling == options.sampling_fraction < 100
\* The smallest count >= max_blocks * frac, the product taken to be exact.
sample_size == (max_blocks * options.sampling_fraction + 99) \div 100
\* frac > 0.2, where frac is a float and 0.2f is more than 0.2.
TooManyToSample == sampling /\ options.sampling_fraction >= 20
\* Where the iterator can stand.
Offsets == UNION {0 .. (raw_filesize + o.opt_scan_start) : o \in OptionChoices}

given == <<options, seen_page_ids>>
hashing == <<sha1g, hash_next, total_bytes, scheduled>>
pool == <<queue, working, disk_write_errors>>
tags == <<work_start, work_stop>>
producer == <<pc, raw_offset, eof, si, given, retry_count, hashing, stream,
              exceptions, hashdigest>>
vars == <<producer, sbuf_count, pool, tags>>

page_number == 0   \* image_process::iterator::page_number is initialised and never changed

\* it == p.end()
AtEnd == eof \/ raw_offset = raw_filesize

depth0_sbufs_in_queue == Len(queue)
get_worker_count == Cardinality(threads)

Init ==
  /\ pc = "record"
  /\ raw_offset = 0 /\ eof = FALSE /\ si = {}
  /\ options \in OptionChoices /\ seen_page_ids \in SeenChoices
  /\ retry_count = 0
  /\ sha1g = "null" /\ hash_next = 0 /\ total_bytes = 0
  /\ stream = [i \in Part |-> "good"]
  /\ sbuf_count = 0
  /\ queue = << >> /\ working = [w \in Workers |-> Idle] /\ disk_write_errors = 0
  /\ work_start = {} /\ work_stop = {} /\ exceptions = {} /\ hashdigest = {}
  /\ scheduled = {}

-----------------------------------------------------------------------------
(* phase1_run(), before the loop *)

\* Every page seen before the restart is written to the new report.xml, with
\* both tags, before anything is read.
RecordSeen(p) ==
  /\ pc = "record"
  /\ p \in seen_page_ids \ work_start
  /\ work_start' = work_start \cup {p}
  /\ work_stop' = work_stop \cup {p}
  /\ UNCHANGED <<producer, sbuf_count, pool>>

\* The iterator is placed, the sample drawn or the hash started.  The blocks
\* are drawn from uniform_int_distribution(0, max_blocks), both ends included.
StartReading ==
  /\ pc = "record"
  /\ seen_page_ids \subseteq work_start
  /\ ~TooManyToSample
  /\ raw_offset' = opt_scan_start
  /\ IF sampling
     THEN /\ si' \in {S \in SUBSET (0 .. max_blocks) : Cardinality(S) = sample_size}
          /\ sha1g' = "null"
     ELSE si' = {} /\ sha1g' = "hashing"
  /\ pc' = "loop"
  /\ UNCHANGED <<eof, given, retry_count, hash_next, total_bytes, stream,
                 sbuf_count, exceptions, hashdigest, scheduled, pool, tags>>

\* make_sorted_random_blocklist() throws "Specify frac<0.2", and nobody catches it: the
\* program ends with the pages seen before already in the new report.xml.
RefuseSample ==
  /\ pc = "record"
  /\ seen_page_ids \subseteq work_start
  /\ TooManyToSample
  /\ pc' = "exit"
  /\ UNCHANGED <<raw_offset, eof, si, given, retry_count, hashing, stream,
                 sbuf_count, exceptions, hashdigest, pool, tags>>

-----------------------------------------------------------------------------
(* The head of the loop of read_process_sbufs() *)

NoSideEffects ==
  UNCHANGED <<eof, si, given, stream, sbuf_count, exceptions, hashdigest,
              hashing, pool, tags>>

\* No more pages, or all of the sample visited.
EndLoop ==
  /\ pc = "loop"
  /\ AtEnd \/ (disk_write_errors = 0 /\ sampling /\ si = {})
  /\ pc' = "join"
  /\ UNCHANGED <<raw_offset, retry_count>> /\ NoSideEffects

\* exit(1): "Disk is likely full. Clear space and restart".
ExitOnDiskError ==
  /\ pc = "loop" /\ ~AtEnd
  /\ disk_write_errors > 0
  /\ pc' = "exit"
  /\ UNCHANGED <<raw_offset, retry_count>> /\ NoSideEffects

\* The iterator after the seek of a sampling run: the lowest block of si.
Sought(off) ==
  IF sampling
  THEN \E b \in si : (\A c \in si : b <= c) /\ off = seek_block(b)
  ELSE off = raw_offset

\* Past the top of the loop body: off is where the iterator now stands.
InBody(off) ==
  /\ pc = "loop" /\ ~AtEnd
  /\ disk_write_errors = 0
  /\ Sought(off)
  /\ raw_offset' = off

\* Mutant: a page that reaches the end of the range is dropped.
PastScanEnd_WholePage(off) == opt_scan_end # 0 /\ opt_scan_end <= off + pagesize
PastScanEnd(off) == opt_scan_end # 0 /\ opt_scan_end <= off
\* Mutant: the gate one page late.
QueueIsDeep_Late == depth0_sbufs_in_queue > get_worker_count + 1
QueueIsDeep == depth0_sbufs_in_queue > get_worker_count
WantPage(off) ==
  /\ opt_page_start <= page_number /\ opt_scan_start <= off
  /\ off \notin seen_page_ids

StopAtScanEnd(off) ==
  /\ InBody(off) /\ PastScanEnd(off)
  /\ pc' = "join"
  /\ UNCHANGED retry_count /\ NoSideEffects

\* main_thread_wait(), then the body is run again from its top.
WaitForWorkers(off) ==
  /\ InBody(off) /\ ~PastScanEnd(off) /\ QueueIsDeep
  /\ UNCHANGED <<pc, retry_count>> /\ NoSideEffects

PassOver(off) ==
  /\ InBody(off) /\ ~PastScanEnd(off) /\ ~QueueIsDeep /\ ~WantPage(off)
  /\ pc' = "next"
  /\ UNCHANGED retry_count /\ NoSideEffects

BeginRead(off) ==
  /\ InBody(off) /\ ~PastScanEnd(off) /\ ~QueueIsDeep /\ WantPage(off)
  /\ pc' = "get_sbuf"
  /\ retry_count' = 0
  /\ NoSideEffects

LoopHead ==
  \/ EndLoop \/ ExitOnDiskError
  \/ \E off \in Offsets :
       StopAtScanEnd(off) \/ WaitForWorkers(off) \/ PassOver(off) \/ BeginRead(off)

-----------------------------------------------------------------------------
(* get_sbuf(), and process_raw::sbuf_alloc() and pread() which it calls *)

\* The exception is caught in the loop: debug:exception is written and the
\* page is passed over.
SkipPage ==
  /\ exceptions' = exceptions \cup {raw_offset}
  /\ pc' = "next"

\* Mutant: the attempts are never exhausted.
BadAlloc_Forever ==
  /\ pc = "get_sbuf"
  /\ retry_count' = (retry_count + 1) % max_bad_alloc_errors
  /\ UNCHANGED <<pc, raw_offset, eof, si, given, stream, sbuf_count, exceptions,
                 hashdigest, hashing, pool, tags>>

\* Mutant: one attempt too many.
BadAlloc_OneMore ==
  /\ pc = "get_sbuf"
  /\ retry_count' = retry_count + 1
  /\ IF retry_count < max_bad_alloc_errors THEN UNCHANGED <<pc, exceptions>> ELSE SkipPage
  /\ UNCHANGED <<raw_offset, eof, si, given, stream, sbuf_count, hashdigest,
                 hashing, pool, tags>>

\* Mutant: a failed attempt is counted as an sbuf.
BadAlloc_Counted ==
  /\ pc = "get_sbuf"
  /\ retry_count' = retry_count + 1
  /\ sbuf_count' = sbuf_count + 1
  /\ IF retry_count + 1 < max_bad_alloc_errors
     THEN UNCHANGED <<pc, exceptions>>
     ELSE SkipPage
  /\ UNCHANGED <<raw_offset, eof, si, given, stream, hashdigest, hashing, pool, tags>>

\* std::bad_alloc from sbuf_malloc: wait retry_seconds and try again, until
\* max_bad_alloc_errors attempts have failed.
BadAlloc ==
  /\ pc = "get_sbuf"
  /\ retry_count' = retry_count + 1
  /\ IF retry_count + 1 < max_bad_alloc_errors
     THEN UNCHANGED <<pc, exceptions>>
     ELSE SkipPage
  /\ UNCHANGED <<raw_offset, eof, si, given, stream, sbuf_count, hashdigest,
                 hashing, pool, tags>>

Touched == parts_read(raw_offset, read_count(raw_offset))
CanAllocate == pc = "get_sbuf" /\ ~Oversized(raw_offset)

\* pread() found no part at the offset: count_read is 0, the sbuf is deleted,
\* the iterator is put at end of file and EndOfImage is thrown.
ReadNothing ==
  /\ CanAllocate /\ find_offset(raw_offset) = {}
  /\ eof' = TRUE
  /\ SkipPage
  /\ UNCHANGED <<raw_offset, si, given, retry_count, stream, sbuf_count,
                 hashdigest, hashing, pool, tags>>

\* pread() throws while part i is sought or read, the parts before it having
\* been read well.  A failed read leaves failbit set in the stream of the part,
\* nothing clears it, and from then on seekg() fails and SeekError is thrown.
\* The sbuf that sbuf_alloc() had made is not deleted.
ReadFails(i) ==
  /\ CanAllocate /\ i \in Touched
  /\ \A j \in Touched : j < i => stream[j] = "good"
  /\ stream[i] = "failed" \/ MediumMayFail
  /\ stream' = [stream EXCEPT ![i] = "failed"]
  /\ sbuf_count' = sbuf_count + 1
  /\ SkipPage
  /\ UNCHANGED <<raw_offset, eof, si, given, retry_count, hashdigest, hashing,
                 pool, tags>>

ReadPage ==
  /\ CanAllocate /\ find_offset(raw_offset) # {}
  /\ \A i \in Touched : stream[i] = "good"
  /\ sbuf_count' = sbuf_count + 1
  /\ pc' = "schedule"
  /\ UNCHANGED <<raw_offset, eof, si, given, retry_count, stream, exceptions,
                 hashdigest, hashing, pool, tags>>

-----------------------------------------------------------------------------
(* The rest of the loop body, with the sbuf at raw_offset in hand *)

\* Mutant: gaps are not noticed.
HashPage_NoGap ==
  IF sha1g = "null" THEN UNCHANGED <<sha1g, hash_next>>
  ELSE hash_next' = hash_next + this_pagesize(raw_offset) /\ UNCHANGED sha1g

\* SHA-1 is serial: the page is hashed when it follows what was hashed, and a
\* gap ends the hashing for good.
HashPage ==
  IF sha1g = "null" THEN UNCHANGED <<sha1g, hash_next>>
  ELSE IF raw_offset = hash_next
  THEN hash_next' = hash_next + this_pagesize(raw_offset) /\ UNCHANGED sha1g
  ELSE sha1g' = "null" /\ UNCHANGED hash_next

CountAndHash ==
  /\ pc = "schedule"
  /\ HashPage
  /\ total_bytes' = total_bytes + this_pagesize(raw_offset)
  /\ scheduled' = scheduled \cup {raw_offset}
  /\ pc' = "next"
  /\ UNCHANGED <<raw_offset, eof, si, given, retry_count, stream, hashdigest>>

\* schedule_sbuf() with worker threads
ScheduleSbuf ==
  /\ threads # {}
  /\ CountAndHash
  /\ queue' = Append(queue, raw_offset)
  /\ UNCHANGED <<sbuf_count, working, disk_write_errors, exceptions, tags>>

\* schedule_sbuf() without: the page is scanned before the call returns
ScanInline ==
  /\ threads = {}
  /\ CountAndHash
  /\ work_start' = work_start \cup {raw_offset}
  /\ work_stop' = work_stop \cup {raw_offset}
  /\ sbuf_count' = sbuf_count - 1
  /\ UNCHANGED <<exceptions, pool>>

\* ... and an exception of the scan, a DiskWriteError among them, is caught in
\* the loop.
ScanInlineFails ==
  /\ threads = {} /\ DiskMayFill
  /\ CountAndHash
  /\ work_start' = work_start \cup {raw_offset}
  /\ exceptions' = exceptions \cup {raw_offset}
  /\ disk_write_errors' \in {disk_write_errors, 1}
  /\ sbuf_count' = sbuf_count - 1
  /\ UNCHANGED <<queue, working, work_stop>>

\* Mutant: the iterator is not moved.
NextPage_Stuck ==
  /\ pc = "next" /\ pc' = "loop"
  /\ UNCHANGED <<raw_offset, eof, si, given, retry_count, stream, sbuf_count,
                 exceptions, hashdigest, hashing, pool, tags>>

\* Mutant: the sampled block is not taken off the list.
NextPage_SameBlock ==
  /\ pc = "next" /\ pc' = "loop"
  /\ raw_offset' = increment(raw_offset)
  /\ UNCHANGED <<eof, si, given, retry_count, stream, sbuf_count,
                 exceptions, hashdigest, hashing, pool, tags>>

\* ++si when sampling, fraction_done, ++it
NextPage ==
  /\ pc = "next"
  /\ IF sampling
     THEN \E b \in si : (\A c \in si : b <= c) /\ si' = si \ {b}
     ELSE UNCHANGED si
  /\ raw_offset' = increment(raw_offset)
  /\ pc' = "loop"
  /\ UNCHANGED <<eof, given, retry_count, stream, sbuf_count, exceptions,
                 hashdigest, hashing, pool, tags>>

\* ss.join(): returns when no page is waiting and no worker is busy.
Join ==
  /\ pc = "join"
  /\ queue = << >> /\ \A w \in Workers : working[w] = Idle
  /\ pc' = "source"
  /\ UNCHANGED <<raw_offset, retry_count>> /\ NoSideEffects

\* dfxml_write_source(): the digest stands for the bytes 0 .. hash_next - 1.
WriteSource ==
  /\ pc = "source"
  /\ hashdigest' = IF sha1g = "hashing" THEN {hash_next} ELSE {}
  /\ pc' = "done"
  /\ UNCHANGED <<raw_offset, eof, si, given, retry_count, stream, sbuf_count,
                 exceptions, hashing, pool, tags>>

MainThread ==
  \/ \E p \in seen_page_ids : RecordSeen(p)
  \/ StartReading \/ RefuseSample \/ LoopHead
  \/ BadAlloc \/ ReadNothing \/ (\E i \in Part : ReadFails(i)) \/ ReadPage
  \/ ScheduleSbuf \/ ScanInline \/ ScanInlineFails
  \/ NextPage \/ Join \/ WriteSource

-----------------------------------------------------------------------------
(* The worker threads of scanner_set (external) *)

TakeWork(w) ==
  /\ pc # "exit" /\ w \in threads
  /\ working[w] = Idle /\ queue # << >>
  /\ working' = [working EXCEPT ![w] = Head(queue)]
  /\ queue' = Tail(queue)
  /\ work_start' = work_start \cup {Head(queue)}
  /\ UNCHANGED <<producer, sbuf_count, disk_write_errors, work_stop>>

FinishWork(w) ==
  /\ pc # "exit"
  /\ working[w] # Idle
  /\ work_stop' = work_stop \cup {working[w]}
  /\ working' = [working EXCEPT ![w] = Idle]
  /\ sbuf_count' = sbuf_count - 1
  /\ UNCHANGED <<producer, queue, disk_write_errors, work_start>>

\* A scanner could not write a feature; the count is capped at 1, phase1.cpp
\* only compares it with 0.
WorkerDiskError(w) ==
  /\ pc # "exit" /\ DiskMayFill
  /\ working[w] # Idle
  /\ disk_write_errors' = 1
  /\ working' = [working EXCEPT ![w] = Idle]
  /\ sbuf_count' = sbuf_count - 1
  /\ UNCHANGED <<producer, queue, tags>>

Worker(w) == TakeWork(w) \/ FinishWork(w) \/ WorkerDiskError(w)

Terminated == pc \in {"done", "exit"} /\ UNCHANGED vars

Next == MainThread \/ (\E w \in Workers : Worker(w)) \/ Terminated

Spec == Init /\ [][Next]_vars

\* The main thread runs whenever it can, main_thread_wait() returns, and every
\* scanner returns from every page.
Fairness == WF_vars(MainThread) /\ \A w \in Workers : WF_vars(Worker(w))
FairSpec == Spec /\ Fairness
=============================================================================
