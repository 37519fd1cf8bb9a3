# bulk_extractor verification

TLA+ models of bulk_extractor and of the web service around it, the TLC runs that check them on small instances, and
proofs that TLAPS checks for every value of the constants. `PROJECT.json` lists components, runs, mutants, the map from
definitions to source lines, findings, hazards and theorems; this file explains them. Paths are relative to `src/`.

## 1. The system

| Component | State it keeps | Operations | Interacts with |
|---|---|---|---|
| Main program (`src/bulk_extractor.cpp`) | options, the phase, `report.xml` | options, restart, open, phases 1-3, leak check, exit | everything below, by calls; the notify thread reads `phase` |
| Notify thread (`src/notify_thread.cpp`) | its thread | `run` while phase 1, `join`, destructor | main, scanner set |
| Restarter (`src/bulk_extractor_restarter.h`) | `seen_page_ids` | read the `work_start` tags of the old report, rename it | the report of an earlier process |
| Phase 1 (`src/phase1.cpp`) | iterator, retry count, digest, `total_bytes` | page loop, `get_sbuf`, sampling, `dfxml_write_source` | reader, scanner set (queue and workers), report |
| Raw reader (`src/image_process.cpp`) | split parts with one sticky stream each | `find_offset`, `pread`, `sbuf_alloc`, iterator arithmetic | phase 1 |
| Image readers, `image_process::open` (same file) | the kind of image, its parts or files; libewf handle | the choice by name, probing for parts, `get_filesize`, `sbuf_alloc` and iterator of directories, E01 and raw images | phase 1 |
| Scanner set, sbuf, recorders (`be20_api`, a submodule whose files are absent) | queue, workers, `disk_write_errors` | `schedule_sbuf`, `join`, `shutdown` | phase 1; scanners |
| JSON scanner (`src/scan_json.cpp`) | a stack and a state per bracket | `check_char` | recorders |
| Network scanner (`src/scan_net.cpp`, `src/pcap_writer.cpp`) | one `packets.pcap` for all workers, with its mutex | `carve`, `pcap_writepkt`, `flush` | recorders; each other through the mutex |
| Scanners of records, texts, file headers, pictures, keys (`src/scan_*.cpp`) | nothing between two pages; the Exif entries and the NTFS USN offsets of a page | `scan` per sbuf | recorders |
| Word list (`src/scan_wordlist.cpp`) | the words seen, a file at the end | `scan`, `shutdown` | recorder |
| Decoding scanners, RAR (`src/scan_zip.cpp`, `scan_pdf.cpp`, `scan_rar.cpp`, ...) | what is decoded | `scan`, `recurse` | the scanner set, which runs every scanner over what they decode |
| Scanners that flex generates (`src/scan_*.flex`) with `scan_ccns2.cpp` | the position in the buffer | one rule per feature, a check behind it | recorders |
| Scan API (`api/app/routers/scans.py`) | row of a scan | `create_scan`, queries, progress socket | database, broker |
| Scan worker (`api/app/workers`, `api/app/services/scan_runner.py`) | a session, an engine process | `run_scan_task`, `run_scan_sync` | broker, database, engine, output directory |
| Importer (`api/app/services/importer.py`) | rows in the session of the worker | `import_results` | output directory, database |
| Scan page (`frontend/src/app`, `scan-detail.component.ts`) | what it shows, the requests under way | poll, first request, summary, socket | API |
| Report tools (`src/python`) | a database of drives; what they write | read finished reports | finished output directories |
| RAR decoder (`src/rar/`, the part of unrar that `scan_rar` calls) | an input buffer, a window, code tables, the memory of its model | decode one component from memory to memory | `scan_rar` |
| Viewer (`java_gui/`) | - | offline | - |

What is hard in this code, with the line where it bites, is the `hazards` list: the reader against its workers and the
gate between them; checkpoints taken when a page is *started*; a report renamed before the new run is certain to write
one; a digest that covers a prefix; exceptions that leave past the code that would have cleaned up; a dozen ways out of
main, one of them through a destructor that asserts; a row committed before its task is queued; a session used after its
flush failed; tasks delivered twice.

What makes each component correct:

* Phase 1: each requested page is scanned once or reported; the queue is bounded; the digest stands for what was scanned;
  every sbuf is given back; it ends whatever fails.
* Restart: nothing is lost but what a worker had in hand when a process died.
* Main: exit status 0 means a complete report; the notify thread is gone before what it reads; checkpoints survive.
* Readers: what the name stands for is found whole, and each page or file of it is taken once.
* Scanners: a feature reported is in the page, one that begins in the page is reported (the margin is there for its tail),
  none is reported by two pages; a file that workers share stays readable.
* Service and page: the status in the database says what is in the database; every scan settles; a page shows what the
  database has, and does not go back.
* RAR decoder: it decodes what the tokens of the archive say, in order and whole, whatever buffer and window do meanwhile;
  the memory of its model loses no unit and hands none out twice.
* Tools: a listed drive has all the features of its report, once; what is written about a report is true of it.

## 2. Modules

| Module | Models | Uses |
|---|---|---|
| `RawImage` | iterator and part arithmetic of `process_raw` as operators | - |
| `Phase1` | `phase1_run`, `read_process_sbufs`, `get_sbuf`, `dfxml_write_source`, one action per step between two points where a worker can run; the workers of the scanner set, external | EXTENDS `RawImage` |
| `PageScan` | abstract: what phase 1 promises of each page | - |
| `Phase1Properties` | properties of `Phase1` and the refinement mapping to `PageScan` | EXTENDS `Phase1` |
| `Restart` | processes one after another on one output directory, each a whole `Phase1` | EXTENDS `Phase1Properties` |
| `BulkExtractor` | main from options to exit status, notify thread, the output directory over several runs | - |
| `ImageReader` | `image_process::open` and the three readers under the page loop, with one thread | - |
| `JsonScan` | `scan_json` and its `json_checker`, one action per character; a grammar of JSON to judge it by | - |
| `NetScan` | `scan_net` over IPv4 by several workers, and `pcap_writer` | - |
| `PacketHeaders` | what `scan_net` asks of the bytes of a header, IPv4 and IPv6, with checksums | EXTENDS `SbufWalk` |
| `SbufWalk` | one scanner over the pages of an image: cells, the page, the position, what was carved | - |
| `RecordScan` | utmp, NTFS (MFT, INDX, log file, USN), evtx | EXTENDS `SbufWalk` |
| `TextScan` | kml, vcard, sqlite, facebook, httplogs, wordlist, base64 | EXTENDS `SbufWalk` |
| `StructScan` | winpe, elf, windirs, winlnk, winprefetch: tables and the offsets that lead to them | EXTENDS `SbufWalk` |
| `HeaderFields` | the headers of PE and ELF byte by byte: what is taken, where values are read | EXTENDS `SbufWalk` |
| `ExifScan` | `scan_exif`, the Exif reader, the JPEG validator and carver | EXTENDS `SbufWalk` |
| `AesScan` | the S-box, the schedules, the search of `scan_aes` | EXTENDS `SbufWalk` |
| `DecodeScan` | zip, gzip, pdf, hiberfile, msxml, xor, outlook, with the recursion of the scanner set | - |
| `Decoders` | the decompression of hibernation files, `b64_pton_forensic` and its use in `scan_base64`, the walk of `scan_find`, the code tables of the RAR decoder | EXTENDS `SbufWalk` |
| `FlexScan` | how flex finds the longest match, and `sbuf_flex_scanner` | EXTENDS `SbufWalk` |
| `AcctsScan`, `EmailScan` | the rules of five flex scanners (with gps, base16) and `scan_ccns2` | EXTEND `FlexScan` |
| `RarScan` | `scan_rar` | EXTENDS `SbufWalk` |
| `Unrar` | the decoding of one component as RAR 1.5, 2.0 and 2.9 do it: header, input buffer, loop over the tokens, window, memory | - |
| `SubAllocator` | the memory of the PPM model of RAR 2.9: units, lists of free blocks, `GlueFreeBlocks` | - |
| `ScanService` | API, broker, worker session, engine, importer | - |
| `ScanPage` | the page of a scan next to the service | EXTENDS `ScanService` |
| `DriveCorrelation` | `cda2_tool.py`, its tables and transactions | - |
| `ReportTools` | the other tools that read reports, and the word list written at shutdown | - |
| `Phase1Proofs`, `ProgramProofs`, `ScannerProofs`, `RecordProofs`, `DecodeProofs`, `UnrarProofs`, `ServiceProofs`, `ReaderProofs` | theorems | EXTEND `Restart`; `BulkExtractor` and `DriveCorrelation`; `JsonScan` and `NetScan`; `RecordScan`, `Decoders` and `RarScan`; `DecodeScan` and `ExifScan`; `Unrar` and `SubAllocator`; `ScanPage`; `ImageReader` |
| `MCScanners` | each scanner of a page in a behaviour of its own, as with `-E`, and the readers | EXTENDS the modules of scanners above `DecodeScan`, `ImageReader` |
| `MCFeatures` | the flex scanners, RAR with its decoder and the memory of its model, find, header fields, likewise | EXTENDS their modules |
| `MCReports` | the program started again on its own directory, and each tool as a job of its own | EXTENDS `Restart`, `DriveCorrelation`, `ReportTools` |
| other `MC...` | instances: images, command lines, output files | EXTENDS the module they instantiate |

**Phase1.** `pc` is the place of the main thread, at the grain of what other threads can see: the look at
`disk_write_errors`, the gate, the reads, the hand-over, the increment. `raw_offset` and `eof` are the iterator, `si` the
sampled blocks still to come, `stream` the sticky `failbit` of each part, `sbuf_count` the count of live sbufs, `options`
the command line (threads, `-Y`, sampling), any of `OptionChoices`. `queue`, `working`, `work_start` and `work_stop` are the
scanner set as phase 1 and the report see it. Bytes are offsets: a page is its offset, the digest is the length of the
prefix hashed. `BadAlloc`, `ReadNothing`, `ReadFails`, `ReadPage` are the four ways out of `sbuf_alloc`; `ScanInline` is
`schedule_sbuf` without worker threads, in the reader's own thread. A sample is `sampling_fraction` hundredths of the blocks;
a fifth or more is refused (`RefuseSample`; a fifth, because 0.2f is more than 0.2) when the walk is about to begin.

**Restart.** What survives a process is `report.xml`. A new process finds any subset of the tags the old one wrote
(`ReportFlushed = FALSE`: the stream is buffered and never flushed between tags), takes the pages of `work_start` as seen
and writes them again into its own report. What a process had cached of its output when it died is lost; what the next one
finds renamed carries the time in seconds, and the starts are taken to be a second apart.

**ImageReader.** What is on disk is a function from paths to sizes, and a path a sequence of tokens, with a three-digit
group as a token of its own, so that `make_list_template` can find the wrong one; a directory may be empty. The size of a
block device is found by the bit search of `get_filesize`. libewf is external: it opens, has a size, reads or fails.
Reading past the list of files of a directory, which the iterator arithmetic does not exclude, is undefined: a crash or a
stray name.

**JsonScan.** The state is that of `scan_json`: position, checker state, stack, comma count. A character is its class
(`ascii_class`), with the letters that the keyword states tell apart; the table is given by its rows.

**NetScan.** An image is a set of packets with what the carvers ask of them: framed or not, behind a pcap record or not, a
valid checksum, a zero port. The headers of a record and of a frame have length 1. Each carver is an operator that yields
features, length and packet; `CarveAt` tries them in order, as the loop does. `pcap_writepkt` writes in pieces, so that
other workers can come in between, under `Mfcap`; a stream that failed once refuses everything after, and the last piece it
took may be cut off. A flush that fails is noticed by nobody. `PacketHeaders` asks the same of bytes.

**SbufWalk and what extends it.** A scanner keeps nothing between two pages, so the image is scanned page by page in
order. A cell of an image is what a scanner tells apart: a record or not, a mark, a header with the fields that are
followed, a word of a key schedule, a byte where the value of bytes is the matter. `page`, `pos` and `memo` are the locals
of the loop, `carved` the features and files so far. Each scanner is an action per round of its loop; what it computes
inside a round is an operator. Against it stands a reference definition over the whole image: what is there, and what the
margin entitles a page to find. Where the code does less than that, the exception is named in the definition and listed in
section 5.

**FlexScan.** A text is a sequence of characters or words. At each place each rule matches a set of lengths; the longest
match wins, the first rule among equals. The action of the rule decides what is recorded.

**Unrar.** What a byte is does not steer the decoder, so a byte is told by its place in the stream of what was decoded, and
a byte of input by its number; distances of matches are counted modulo the window. Which token comes next, how many bytes
it takes and how long a match is, is a choice; so are the statistics of the PPM model, and which of the old distances a
repetition takes. `step` is the place in `DoUnpack` and `Unpack15`, `Unpack20`, `Unpack29`, which are one loop with other
constants and other ways out. Left out are PPM tokens that run beyond the buffer and matches that overrun the margin of
the fast copy at the end of the window, where what memory holds decides.

**SubAllocator.** A unit is its number, a block where it begins and how many units it has; of the contents only whether the
first two bytes are 0xFFFF, the stamp that `GlueFreeBlocks` knows a free block by. Contexts begin with a count of at most
256, statistics with a symbol and a frequency of at most 124, and a link of a list is an even address, so none of them is a
stamp; memory from `malloc` may hold stamps anywhere (`Leftovers`) and is not cleared when the model starts anew. Which
block of a list is taken, the order of the chain, and the order of the model's calls are left open. A `malloc` that fails
is left out.

**BulkExtractor.** A command line is the record of what main decides on, and `error` the first option that ends the
program; the actions are the stretches of main between two ways out, those by an exception included: a restarter that cannot
read or rename the report (`RestartThrows`), an image of a kind that is not supported, a sample that is refused, the throw
before the shutdown. A page is one step here. `LoseBuffer` is a process that ends without closing the report; distinct names
of renamed reports are assumed.

**ScanService.** One worker session: `loaded` is what SQLAlchemy believes the row to be (an attribute set to its loaded
value is not written), `pending` is what was flushed and not committed. A failed flush leaves a session that refuses to
commit; a failed commit rolls back and the handler's own commit may succeed or not. Celery acknowledges a message when a
task starts (its default, which `celery_app.py` keeps), so a dead worker's task is not run again, but the broker may
deliver one twice.

**ScanPage.** The poll, the first request, the summary and the socket are four things under way at once. A request is
answered from the database at some moment and its answer arrives later, in any order with others; a poll that is still
unanswered at the next tick is given up. `shown` is what the signals of the page hold. `FeatureRows` are the rows of the
engine's files that become features; the rows of an alert file become alerts, which the summary does not count (`TotalRows`).

**DriveCorrelation, ReportTools.** A command of `cda2_tool.py` is a process over tables, an ingest one transaction with a
failure anywhere in it. The other tools are functions from a report to what they write or to the exception they end in:
`ReportTools` runs one job a behaviour and compares with what the job asked for. What an offset behind a transformation is,
is told by the docstring of `path_to_offset` (`RightOffset`), not by its code.

## 3. Runs

| Run | Instance | What it shows |
|---|---|---|
| `scan` | image of 12 bytes in parts of 3, 4 and 5, pages of 2 with a margin of 1; 2 workers with `-Y 0-5` or `-Y 5`, or none with a sample of 19 % (2 blocks of 6) or 20 % (refused); four sets of pages seen, read and write errors, 2 attempts | types, gate, one place per page, no page twice, digest, sbufs, all pages accounted for, refinement of `PageScan`, termination |
| `main` | three runs, 25 command lines, 2 pages, kills anywhere | exit status, report, notify thread, checkpoints, each run ends |
| `scanners` | one scanner a behaviour, images of a few cells with things at every distance from the end of a page; `scan_net` with 2 workers and 1 write error; the readers over disks of a few files | what is reported is there, what is there is reported, once; the JSON stack; `packets.pcap`; the image found whole and read as asked; each walk ends |
| `features` | texts put together from pieces, headers of bytes; a RAR decoder with a window of 6, a buffer of 8 and a heap of 8 units | what a rule records passes the checks the code means to make; what the rules promise is recorded; a component is decoded to what its tokens say; no unit of the model's memory is lost or in two blocks; a code is looked up as its table was made |
| `reports` | `Restart`: three processes, 2 workers, 5 bytes so that the last page is short, lossy report. The tools: six reports, one incomplete, two of one image; hash hits on disks of four and five blocks; runs of files that overlap; names, differences, word lists | only interrupted pages are lost; the tables are those of the reports and what is correlated from them; what the tools write is right, or they raise |
| `service` | 1 scan, 2 workers, 2 deliveries, 2 files, every fault | no partial results in a task delivered once, complete means imported, rows bounded by deliveries, settled stays settled, every scan settles unless a fault left it to nobody |
| `page` | 1 scan, 1 worker, 2 deliveries, requests and socket that fail | the totals shown are whole, the page catches up, it goes back only where requests cross |
| `sbuf_leak` | violation | a page that cannot be read leaves its sbuf |
| `main_assert` | violation | a disk write error in phase 1 ends in a failed assertion |
| `cards` | violation | a card number with separators passes the rule made for it and is dropped by the check behind |
| `packet_copy` | violation | a packet without a frame is written with the first bytes of its page |
| `service_stuck` | violation | a row the database refuses leaves its scan running |

Deadlock is not checked where the system stops of itself: a scan, a program, a service or a tool that is done has no step
left. The two runs of `Phase1` check it.

A behaviour of `reports`, `scanners` and `features` is of one process, one tool or one scanner, chosen at the start; what the
others own stays as it was.

**Bounds.** Two workers and four pages are the least with which the gate closes (depth 3), workers overtake one another
and a page stays queued while two are scanned; parts of 3 and 5 bytes with pages of 2 make a page and a margin straddle
parts; two attempts are the least with a retry that can succeed or fail. `max_blocks` is in the range that sampling draws
from, so both cases of `seek_block` occur, and the fractions 19 and 20 are on the two
sides of the one refused. Three processes are the least in which a page saved by the first is lost or
kept by the second; the third is needed to observe it. Two deliveries are the least for two sessions on one scan; a second
scan shares nothing with the first but the workers, and is left out. `MaxRuns`, `MaxDeliveries`, `MaxWriteErrors` and
`max_bad_alloc_errors` are the bounds named in the modules; the last is an option of the program.

A page of a scanner has 2 to 8 cells and a margin of 0 to 4 (64 and 62 words for key schedules), images two or three pages:
every thing a scanner looks for stands in the first page, across its end, in the margin, across the end of the margin and
in the second page, alone, behind another one and inside another one, whole and cut off by the end of the image. Constants
such as `DB_WRAP` or `word_max` are sizes of the code scaled to these images; where a size in the code is larger than a
header or a window, it is so in the model. For JSON: all texts of up to 4 characters over the 7 classes that steer the
stack, all of 5 that begin with a bracket, an object with each character replaced by each of six others, every token in a
frame, texts one behind and one inside another, with a stack of 4 cells and `min_commas` one. For the network: two
packets at every distance from the end of a page of 6, the second behind the first as in a pcap file or one byte further
on, with every combination of what the carvers look at. The readers: pages of 2 bytes, devices of every size from 2 to 17
(so each size about a power of two), parts with a hole in their numbers, samples of 2 blocks.

The constants of the RAR decoder are those of the code scaled down in their order (0x400000 and 0x8000 are 6 and 8, the
write borders of 270 and 260 are 4 and 3, the longest matches of 267, 260, 260 and 287 are 3, 3, 3 and 4), so that the window
wraps, the buffer is refilled in the middle of a token, a match is as long as what is kept free, and the input ends early.
Of code tables there are all lengths up to 4 of 4 symbols, some of 6 symbols, and the tables of 1.5 and the slots of 2.0 and
2.9 as they are, for fields of 5 bits. The heap has 7 units and takes one more from the text, in blocks of 1, 2, 3 and 5
(12 units and more in the code, up to 128), stamps left nowhere or everywhere, and glues
again after one block was taken from the text (255).

**Fairness.** `Phase1`: weak fairness of the main thread and of each worker, which the operating system's scheduler gives
to runnable threads; no fairness is asked of errors. `BulkExtractor`: weak fairness of main and of the notify thread.
`MCScanners`: of the one thread that scans or reads, and of each worker of `scan_net`; that is enough for the mutex, since
the pages and so the packets to write are finitely many. `ScanService`: weak fairness of each handler and session that can
go on, of the delivery of a queued message when some worker is idle, and of the end of an engine; nothing is assumed about
faults or redeliveries. `ScanPage`: weak fairness of the timer and of the arrival of an answer that is awaited; strong
fairness of the answer to a poll, since each tick gives up the one before: an answer may take longer than the interval, but
not every one of them. `RunsEnd` holds with kills switched on because an ended process has ended.

**Mutants.** Each property of a passing run is violated under a small bug of the code written next to the definition it
replaces (marked `Mutant:`).

## 4. Proofs

A leaf that takes a prover more than about a second names the prover and the time it is given (`SMTT`, `ZenonT`), so that
the proofs do not depend on the speed of the machine that checks them; the arithmetic of positions is done with `BY ONLY`
and hidden definitions for the same reason.

All constants are arbitrary but for the named assumptions: an image is a list of adjoining parts, the page size is
positive, the command lines are command lines, the output of an engine is a finite set of rows. No theorem is about an
instance.

`Phase1Proofs`. `Typing`, `HandedOverOnce` (`ScheduledOnce`), `QueueStaysBounded` (`QueueBound`), `PagesInOnePlace`
(`OnePlace`). The types need arithmetic facts about the iterator (`DivLemma` to `FoundLemma`): increments stay inside the
image, a page found begins before its end. `OnePlace` is not inductive: that a page handed over is not in the queue
already needs that pages are handed over in increasing order. `Frontier` says that every scheduled page lies below the
iterator and, when sampling (`AtSample`), that the iterator stands at the block last sought and below every block still to
come. `SeekLemma` gives the step: a later block lies further on than an earlier one unless the earlier page is the last of
the image, and then the increment has stopped at `raw_filesize` and the block that follows is past the end and is not
read. The parts of the invariant are `TypeInv`, `Frontier`, `GateInv` and `Places`; the same invariant gives
`HandedOverOnce`. `QueueBound` needs `GateInv`: the gate was open at the places between the gate and the hand-over.

`SbufsAccounted` counts the places of sbufs. `NothingForgotten` (`AllPagesAccounted`) rests on `Covered` - the iterator
stands on the grid of pages that `-Y` starts (`OnGrid`) and every page asked for before it was handed over, seen or
reported (`HandledBefore`) - and on `Settled`, which is what the join at the end leaves. `DigestIsOfPages`
(`DigestMatchesPages`) rests on `DigestInv`: while the digest lives, the pages handed over are just those of the grid of
zero before `hash_next` (`Hashed`); a gap, a start elsewhere or a page seen ends it. `Implements` is the refinement of
`PageScan`: each step is mapped to a step of the abstract page or a stutter, with `RefInv`; the bound on waiting pages is
the one `GateInv` gives.

The last part of `Phase1Proofs` is about restarts. A process started again begins as `Fresh` asks, which is all the proofs
of one run need of `Init`: so `RunInv`, the conjunction of the invariants above, holds in every run of a series
(`RunsKeepTheirPromises`). `OnlyInterruptedLost` adds `Ledger`: what a run is told to pass over was completed or
interrupted by an earlier one, and what is handed over is in the queue or has its tag. The assumptions are those of
`Restart`: nothing is seen at first.

`ProgramProofs`. The first part is about `BulkExtractor`. `Typing`, `ZeroMeansComplete`, `NotifyGone`, `NothingForgotten`
from one invariant `IInv`, whose parts are named. `CheckpointsKept` is not inductive, for a lost buffer takes tags away:
`RenamedFirst` adds that while the new report is being written, every page named on disk before is named by a renamed
report. `ExitZeroMeansComplete` needs `ReadToTheEnd` and `ReportHoldsTags` at the places before the exit.
`NotifyGoneBeforeShutdown` is strengthened to `ThreadWhileReading`.

`ServiceProofs`. For any number of scans, workers, files, rows and deliveries, with every fault. `Handed` relates
deliveries to messages and tasks; `Sessions` says what a session may believe at each place; `Alone` that a task delivered
once is in one place, the queue, one worker or nowhere. From it `Whole`: the rows of a task delivered once are none before
its commit and all after (`NoPartialResults`). `CompletedIsImported` needs `FromEngine` and `Counted` besides.
`RowsBoundedByDeliveries` is a ledger: the rows in the database and the workers that may still add to them (`Unspent`) are
together no more than the deliveries (`Bounded`). `SettledStays` is an action property that follows from `Alone`.

The last part of `ServiceProofs` is about the page. On top of the invariant of the service: what an answer under way says
is no newer than the database (`Behind`), a settled status in an answer means an engine that has ended (`EngineEnded`),
and a total that was counted after the commit is that of all features (`CountedComplete`): hence `TotalsShownAreWhole`;
`ShownForward` is an action property.

`ScannerProofs`. `StackStaysInside` (`StackInBounds`), for every set of texts and every stack size: a push is tested
before it happens and a pop only finds what was pushed; the invariant adds that a checker that was not rejected keeps its
top in the array and `DONE` at the bottom and nowhere else, so that no pop matches the bottom. `TextsApart`: the intervals
reported begin and end in brackets and do not overlap (`Intervals`). `PcapStaysWellFormed`, for every image, any number of
workers and any failing write: `Exclusive` says that who is inside `pcap_writepkt` holds the mutex; `Stage` what its
holder may rely on at each place, and that a good stream nobody holds ends with a whole packet or the file header. One
lemma says that a piece that fits behind the last keeps the file well formed, one that the place of a worker tells which
piece that is. `PacketsWrittenOnce` (`NoPacketTwice`): a packet belongs to the page it begins in (`Owners`), a worker
holds one of its own page (`InHand`), and what it wrote lies before what it has reached (`WrittenBefore`).
`FramesReachPcap` (`FramesKept`) is the other direction, that nothing good is passed over: `NotPassed` says that while no
write failed, a page that is to find a frame which nothing overlaps is not begun, or its worker is before the frame or has
it in hand, or the frame is written; what a worker carves before such a frame ends before it (`StepTowards`).

`RecordProofs`. The six scanners of records, each alone (`RecordSpec`), over every image of their cells, with any page,
margin and sizes of records. `RecordsCarvedOnce` (`CarvedOnce`) is not inductive by itself: `CarvedBefore` says that what
is carved ends before the place looked at, unless it goes on into the next page; one lemma (`CarvingKeeps`) serves every
step of every scanner. `RecordTyping` (`WalkTypeOK`) follows. `RecordsCarvedWhole` (`RecordsSound`) needs to know what the
scanner has in hand: `UsnRun`, that a run of USN records not yet carved ends where its records end, or before a record
behind padding; `EvtxRun`, that a `total_size` left over comes from a file earlier in the page. `UsnEnds` and `Orphans` are
recursive functions: that they have a solution at each place, and what it is, follows from a least place where it fails
(`EndsKnown`, `OrphansKnown`). `RecordsAllFound` (`RecordsFound`) is the other direction, that nothing is passed over:
`PassedFound` says that each place behind the scanner holds no record, or one that was carved, or one the property lists as
out of the code's sight. For EVTX records outside a file this needs `Clusters`, that the scanner stands at a multiple of a
cluster (a chunk is whole clusters, `RecordAssumption`), and `OrphansReach`, that the search of a cluster reaches each
record of it unless one the end of the sbuf cuts stands before it.

`MatchesAreWhole` (`FindSound`) and `MatchesAllFound` (`FindFound`) are about the walk of `scan_find` (`FindSpec`), over every
image and page: `FindInv` says that no search begins in the middle of a match, and that a match before the place searched
was reported once for each piece of the page begun, any other once for each piece behind; so the count at the end is the
number of pieces. `Zeros` and `Hits` are sets with a least element (`FiniteSetTheorems`), which is what the search returns.

`ArchivesAreWhole` (`RarSound`) and `ComponentsAllFound` (`RarFound`) are about `scan_rar` (`RarSpec`). `RarBefore` says
that what was reported begins before the place looked at or in what a margin shows again (`InMargin`), so that a kind is
reported twice at one place only there; `RarPassed` that each header behind the scanner was found or was not due: not
whole, without a name or sizes, or after a header that ended the page. Where a cell is an encrypted volume, `threshold` is
no more than its mark and header, which `RarAssumption` states of the constants.

`DecodeProofs`. The scanners that decode, together as they run (`DecodeSpec`): over every medium, page, margin and depth,
with any of the seven scanners in any order. `DecodedApart` (`DecodedOnce`) rests on `DecodeInv`. `Stacked`: each sbuf
waiting `Fits` the page under way - a path begins in it, or in its margin by those that search it (`OfPage`) - has a path
of its own and is `Behind` what waits below it: whatever scanner is still to come there is past the place it was found at.
`Settled`: what was handed over belongs to an older page, or to this one and is `Behind` the whole stack. One lemma
(`HandedOver`) serves every scanner, also those that hand over several sbufs at once, for which the children have to be
apart from one another. Two pages then share only what `TwoPages` allows: a path that begins, unmasked or behind a
decoding of the whole page, in the margin. `find_streams` of pdf is recursive; that it has a solution, and that it finds
each tag once, is by `Ranked`. `IsMedium` asks that the cells are from a set that is closed under masking, for xor decodes
what it likes again; every medium has such a set, the cells masked any number of times. `DecodersTyped` (`DecodeTypeOK`)
follows. The first attempt at this proof failed for good reasons: the property did not except a stream tag of a PDF in the
margin of a page that xor decodes, and the type invariant bounded the stack by the depth, though a PDF leaves one sbuf for
each of its streams. TLC confirms both on the media `MaskedPdfs`, which the run `scanners` has since.

The last part of `DecodeProofs` is `JpegsApart` (`JpegsCarvedOnce`), about the Exif scanner, over every picture
(`ExifSpec`). A JPEG that was carved begins no later than in the page, and ends before the place looked at unless it began
in an earlier page (`JpegsBehind`). That this place only moves on rests on what the code reads: that a chain of blocks, a
TIFF header and the end of a stream lie at or behind the place it begins from (`Onwards` solves the recursion, `Backwards`
is the induction), and that whatever is read of the directories, a value is in the sbuf or empty (`Entries`), so that
`ExifTyping` (`WalkTypeOK`) follows. A block of a JPEG counts its own header (`PictureCell`): one of size 0 does not
occur.

`UnrarProofs`. The first part is about a component with any header, any tokens and any constants within
`UnrarAssumption`. `BytesUsedInOrder` and `NoByteInvented` rest on `InputInv`: the buffer holds the next bytes in order, and
outside a token it has at least what the next one takes, or all there is. `WindowRemembers` (`Remembered`) is an induction
over the bytes put into the window, with a case for a copy that overlaps itself. `MemoryInOrder` and `MemoryWhole` rest on
`OutInv`: what lies between `WrPtr` and `UnpPtr` is the end of the stream not yet written, and fits, because `Border` bytes
are kept free and a match is shorter; where a match is not, `long` is set and nothing is claimed. `OldMatchesShort`
(`OldNeverLong`): this happens only in 2.9. `UnrarIsSound` (`UnrarSound`) is all of it.

The second part is `MemoryIsSound` (`HeapSound`), for every memory, number of sizes and use of the allocator. The invariant
`HeapInv` has five parts. `EndsInv`: the two ends of the free area and where units and text meet; the text is below
`FakeUnitsStart`, which is at most `FIXED_UNIT_SIZE` times `UnitsStart`. `UnitsInv`: the blocks share no unit and cover just
what was handed out, and each free block has a size that a list is for. `LastInv`: the first context of all stays in the
last unit, so nothing behind it is looked at. `StampInv`: no start of a block in use or in a list is stamped when the next
look is taken, and while blocks are glued `LoUnit` is not either (the line `*LoUnit=0` of `GlueFreeBlocks`); this is what
makes a stamp behind a block that of a free block. `CallInv`: what the allocation under way has in hand. One lemma
(`Exchange`) serves every step: blocks may be replaced by others that cover the same units. That what is left of a split
has a size, or is two blocks that have (`LeftoverFits`), needs that sizes grow by at most 4 and begin with three that grow by
1, which is why `SubAllocatorAssumption` asks `N1 >= 3`.

The second part of `ProgramProofs` is about `DriveCorrelation`. `TablesSound` (`DatabaseSound`): an ingest is one
transaction, so that the tables between two commands are those of the listed drives; a frequency is the cardinality of a
set of rows that only grows with a drive. `Correlated` (`CorrelationsRight`): the sums that the library folds over the
lines are shown to be sums (`SumIs`, by well-founded induction over the subsets of a finite set, `SubsetSteps`), and one
sum is at most another if its terms map one to one to terms no smaller (`SumAtMost`); `Printed` says what each line
printed follows from in the tables as they were. The threshold and the weight are numbers (`WeightAssumption`).

`ReaderProofs`. For every disk that holds finitely many files, with any parts, devices, pages and samples. `SizeFound`:
the bit search of `get_filesize` ends at the size of the device; after the bits from i on are settled, the size so far is
a multiple of 2^i and the real one larger by at most 2^i. (That the recursive definitions have a solution is proved first,
`Recursion`; what is true of 0 and of n + 1 if of n is true of each number, `Steps`.) The assumption `ReaderAssumption`
leaves out a device of one byte, which is taken for empty, and devices above 2^59. `ImageIsFoundWhole`
(`ImageFoundWhole`): the parts listed are numbered from the file named on and adjoin (`Listed`), and the number to come is
the one behind the last (`Probed`); unless the first part is 001 and its name has a
000 (`CountedRight`), the group that the reader counts with is the one the name of a part ends with. The names left out are
just those that `image_process.cpp:85` gets wrong. `ReadsAsAsked` (`ReadAsAsked`) has four parts. `Hashed`: while the
digest lives, the pages taken adjoin from byte 0 to `hash_next`. `InOrder` and `NothingLeft`: in a walk over everything,
what was taken or reported lies behind the iterator, each place once, and what lies behind it was taken, reported or seen;
hence the branches for a null sbuf and a stray file are never taken. `InSample`: each block drawn that is no longer in
`si` was looked at, and if the iterator compares equal to `end()` before `si` is empty, so was each block still in it,
since a later block lies behind the image or is moved back onto the same page (`LaterBlock`). `Died` says on what a reader
dies.

**Only model-checked.** Liveness (`Terminates`, `RunsEnd`, `PagesEnd`, `SettlesUnlessLost`, `PageCatchesUp`), which with
fairness is beyond the prover. Of the properties that join many scanners, parts are proved: of `ReportsSound` the part
`RecordsSound`, of `ReportsFound` the parts `FramesKept`, `RecordsFound`, `NoPacketTwice`, `CarvedOnce`, `JpegsCarvedOnce`
and `DecodedOnce` - the last four are all of `FoundOnce` -, of `TypeOK` the parts of the JSON, network, record, Exif and
decoding scanners and of the readers, of `FeaturesSound` and `FeaturesFound` the parts `FindSound`, `FindFound`,
`RarSound` and `RarFound`. The rest of them, the code tables (`CodesTold`) and `ToolsRight` compare recursive functions
over an image, a text, a table or a report with other ones; each needs an induction of its own, by the way of a least
counterexample, for the library's induction theorems take an operator.

## 5. Seen while modelling

Each is in a model as the code has it. The five in `findings` have a run of their own. The others have none, though some
are against the words of a comment, a help text or a test: the properties leave them open, each where it is defined.

**Engine.**

* `dfxml_write_source` writes a digest although the last pages could not be read: `sha1g` is dropped when a later page shows
  the gap, and after a last page none follows (`phase1.h:87` says "Set to 0 if a gap").
* The old report is renamed before the image is opened, so a mistyped image name leaves no report to resume from.
* `page_number` is never incremented, so `-z` takes no effect; `-Y` beyond the image wraps; a full disk is noticed at the
  next look at `disk_write_errors`.
* A split image whose first part is 001 and whose name has a 000 before that, as in a directory of that name, is read as its
  first part only (`image_process.cpp:85`).
  `image.e01` is read as a raw image. `image_process::open` refuses a directory that holds a disk image, but looks only at
  its own entries; `process_dir` then descends, and takes a disk image further down for an ordinary file. `validate_path`
  compares an extension with "E02" that has its dot.

**Scanners.** Where a margin ends, things are lost or found twice: an evtx `total_size` is not reset
(`scan_evtx.cpp:187`); the last utmp record of a page, a prefetch file in the last 8 bytes of a page and an AES key in the
last 176 are not found; an NTFS run is lost when the image cuts its last record; a zip component whose data begins in the
margin is lost; pdf, hiberfile, outlook, kml, sqlite and elf report once more what begins in the margin; a packet that
begins in the last `min_packet_bytes` of a page is carved by no page; the tail of a word at the start of a page is a word.

* JSON: the table takes `1.` for a number and rejects `0e1`; a text whose second character is not in `json_second_chars`,
  such as `[true,...`, is never looked at; the comment (`scan_json.cpp:470`) asks for "more than 2 commas", the code one
  line on for two or more, and `JsonFound` asks for neither with two.
* Network: `documentIPFields` is given the frame and not the IP header for an Ethernet packet in a pcap record, reads the
  ports elsewhere and may give the record up; the IPv6 checksum is never right (`scan_net.cpp:452`); bare IPv4 packets are
  dropped for a zero port, but their MACs written; packets behind an overlong record are lost.
* File headers: PE carve sizes and sqlite lengths wrap at 32 bits; fields of PE32+ headers are read at the offsets of
  PE32; subsystems, alignments and reserved flags are misnamed or not named; `std::hex` stays set; big-endian ELF is never
  recognised and the address of an ELF64 string table is cut to 32 bits; `scan_winlnk.cpp:225` returns before it looks at
  the path (`// remove me`), which `tests/data_check.txt:168-169` expects.
* Texts: a vcard right behind another is lost; a facebook hit at 0 ends the search; the first character of an httplogs
  line is not examined; `outfilesize` is never increased, so the limit on a word list file is never reached, and a word
  whose insert raises `bad_alloc` is lost at shutdown; a base64 block open at the end of a page is not decoded.
* Numbers: `valid_phone` looks behind the number only at the end of the sbuf; the telephone rule accepts seven blanks;
  `POS == 0` loses a vehicle number, and its hex test never rejects.
* Addresses: a URL without a path is pruned to its last letter, a domain of UTF-16 is written one byte early, `..` is
  accepted in UTF-16, a `Subject:` or `Cookie:` header swallows the addresses within 80 characters; gps without `</trkpt>`
  is lost.
* Exif: what a Photoshop file holds is not written at its own place, entries are doubled, a complete JPEG with Exif counts
  as truncated. AES: the window never shrinks, and the schedule of AES-192 starts with round constant 0.
* Decoders: xpress drops a match that reaches the first byte of its output or ends its input, and takes back the last byte
  of a full output; `bufsize - 4` of gzip underflows; the XOR guard (`scan_xor.cpp:37`) compares "XOR" with a
  path that says "XOR(255)", so that what XOR uncovers is masked again.
* RAR and find: `guess_encrypted_len` sees headers only; BIGFILE sizes beyond the sbuf raise; `scan_find` ignores its slice.
* RAR decoder: a match of 260 bytes of 2.9, or one of PPM as long, can reach `WrPtr` and lap it, so that a window of output
  is lost; 1.5 and 2.0 drop the last piece whole if a match runs beyond the size in the header; a truncated archive loses the
  whole of its last read; a directory is told by attribute 16 when the version is below 20, which to Unix is a permission of
  the group; members whose name ends in a part that begins with `__rar_`, or that have `LHD_VERSION`, are not decoded.
* The lightgrep sources do not compile.

**Service and page.** A rerun overwrites `image_hash`. Answers to feature requests may arrive out of order, and a change of
type keeps the page number.

**Tools.** `cda2_tool.py`: `--all` raises; one feature beyond the drive threshold is correlated (the help, `:273`);
`--reimport` meets a UNIQUE constraint; frequencies are stale after an ingest; a report that lacks a file ends the
command. `report_identified_runs.py`: the percentage divides by zero at places aligned with 4096; the first gap block is
not verified; `minrun` removes runs of exactly that length (`:338`; "do not report runs shorter than this"), and it and
`mincount` are strings when given, so that the comparison raises. `identify_filenames.py`: overlapping runs hide one that
holds both; a line without three fields is dropped; "XOR(255)", which is what the scanner writes, is not recognised (the
docstring at `:149` promises the offset within the XOR); an `outdir` that exists is accepted, which the help at `:263`
says it must not. `bulk_extractor_reader.py`: two files of a ZIP may share a short name, the last wins. `bulk_diff.py`
compares by offset only; `cda_tool.py` rounds its threshold down; `build_stoplist.py` and `be_sampler.py` raise at once.

## 6. Not modelled

The scanner set, the recorders and `sbuf_t` (the sources of `be20_api` are absent; what phase 1 relies on is in `Phase1` as
external, what decoders rely on in `DecodeScan`); the codecs; formatting of reports and progress; what the options configure
beyond what is named; libewf; histograms; the lightgrep versions of scanners; of the RAR decoder the statistics
of PPM, the virtual machine and its filters, solid volumes, encryption and files; authentication and the
handlers of one row and one transaction; the requests that fill the tables of the scan page; the viewer. `PROJECT.json`
gives the reason for each component. The wrapped byte count of a start beyond the image is an operator (`Oversized`) that
no run reaches.

## 7. Plan

Done: every component with state of its own, and the theorems of section 4.

1. The bounds of the indices in the walkers of `StructScan` and `TextScan`.
2. The feature tables of the scan page, next to `ScanPage`: a page number kept over a change of type.
