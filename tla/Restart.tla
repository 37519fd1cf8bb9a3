------------------------------ MODULE Restart -------------------------------
(***************************************************************************)
(* bulk_extractor killed and started again on the same output directory.   *)
(* Each run is Phase1; what survives the process is report.xml, in which   *)
(* the restarter (bulk_extractor_restarter.h) looks for work_start tags.   *)
(* The new run is told to pass over those pages, the old report is renamed *)
(* and the new one starts empty, so that phase1_run writes them again.     *)
(***************************************************************************)
EXTENDS Phase1Properties

CONSTANTS
  MaxRuns,        \* bound: how many times the program is started
  ReportFlushed   \* every tag reaches the disk at once; otherwise the tags still
                  \* in the buffer of the stream die with the process

\* The first run finds an output directory without a report.xml.
ASSUME RestartAssumption ==
  MaxRuns \in Nat \ {0} /\ ReportFlushed \in BOOLEAN /\ SeenChoices = {{}}

VARIABLES
  runs,         \* how many times the program was started
  completed,    \* history: pages some run has scanned to the end
  skipped,      \* history: pages some run could not read, and said so
  interrupted   \* history: pages a run was scanning, or failed to write, when it ended

rvars == <<vars, runs, completed, skipped, interrupted>>

RInit ==
  /\ Init
  /\ runs = 1 /\ completed = {} /\ skipped = {} /\ interrupted = {}

\* The program runs; what it finishes is remembered.
Run ==
  /\ Next
  /\ completed' = completed \cup (work_stop' \cap scheduled')
  /\ skipped' = skipped \cup exceptions'
  /\ UNCHANGED <<runs, interrupted>>

\* The pages of this run that a worker took and did not finish.
Unfinished == (scheduled \cap work_start) \ work_stop

\* What a reader of report.xml finds of the tags written to it.
OnDisk(tags_written) == IF ReportFlushed THEN {tags_written} ELSE SUBSET tags_written

\* The process is gone, killed at any point or after exit(1) or its normal end,
\* and the user starts it again with the same command line.
RestartFrom(tags_read) ==
  /\ runs < MaxRuns /\ runs' = runs + 1
  /\ interrupted' = interrupted \cup Unfinished
  /\ seen_page_ids' = tags_read /\ UNCHANGED options
  /\ pc' = "record" /\ raw_offset' = 0 /\ eof' = FALSE /\ si' = {} /\ retry_count' = 0
  /\ sha1g' = "null" /\ hash_next' = 0 /\ total_bytes' = 0 /\ scheduled' = {}
  /\ stream' = [i \in Part |-> "good"] /\ sbuf_count' = 0
  /\ queue' = << >> /\ working' = [w \in Workers |-> Idle] /\ disk_write_errors' = 0
  /\ work_start' = {} /\ work_stop' = {} /\ exceptions' = {} /\ hashdigest' = {}
  /\ UNCHANGED <<completed, skipped>>

\* Mutant: the pages waiting in the queue are checkpointed as well.
StartAgain_Queued == \E read \in OnDisk(work_start \cup scheduled) : RestartFrom(read)
\* restart(): seen_page_ids gets the pos0 of every work_start tag.
StartAgain == \E read \in OnDisk(work_start) : RestartFrom(read)

RNext == Run \/ StartAgain

RSpec == RInit /\ [][RNext]_rvars

-----------------------------------------------------------------------------
\* When a run without -s reaches its end, every page requested was scanned to the end by
\* some run, or reported unreadable, or was in the hands of a worker when a run
\* ended: the pages that only waited in the queue of a run that died are not lost.
OnlyInterruptedPagesLost ==
  pc = "done" /\ ~sampling => Requested \subseteq completed \cup skipped \cup interrupted \cup Unfinished
=============================================================================
