---------------------------- MODULE BulkExtractor ----------------------------
(***************************************************************************)
(* bulk_extractor_main (bulk_extractor.cpp) from its options to its exit   *)
(* status, the notify thread it starts (notify_thread.cpp), and the output *)
(* directory that runs of the program leave to one another.  What phase 1  *)
(* does with a page is the subject of Phase1: here a page is scanned and   *)
(* checkpointed, or it cannot be read and may leak its sbuf.               *)
(***************************************************************************)
EXTENDS Naturals, FiniteSets

CONSTANTS
  Pages,          \* the pages of the image
  CommandLines,   \* the command lines a user may give, see CommandLine
  MayBeKilled,    \* the process may be killed at any point
  MaxRuns         \* bound: how many times the program is started

\* A command line, by what main decides on.  error is the first option that
\* ends the program early; input is what the image_name is.
CommandLine ==
  [error : {"none", "debug_help", "conflict", "set", "version", "help", "info_scanners",
            "image_name", "outdir", "scanner", "find", "sample"},
   path : BOOLEAN, zap : BOOLEAN, recurse : BOOLEAN, notification : BOOLEAN,
   input : {"image", "directory", "directory_of_images", "missing", "unsupported"}]

ASSUME CommandLineAssumption == CommandLines \subseteq CommandLine
ASSUME PagesAssumption == IsFiniteSet(Pages)
ASSUME RunsAssumption == MaxRuns \in Nat \ {0} /\ MayBeKilled \in BOOLEAN

VARIABLES
  pc,         \* where main is; "ended" when there is no process
  cmd,        \* the command line of this run
  status,     \* how the last run ended
  phase,      \* notify_thread::phase: 0, BE_PHASE_1, BE_PHASE_2
  notify,     \* the notify thread: "none", "checking", "sleeping", "ended"
  report,     \* report.xml: "absent", "partial", "whole"
  tags,       \* the pages it says were started
  exceptions, \* the pages it says could not be read
  backups,    \* the pages named by the reports renamed so far
  seen,       \* cfg.seen_page_ids of this run
  leaked,     \* sbuf_t::sbuf_count is above what it was at the start
  scanned,    \* history: pages a run left as started in a report on disk
  runs        \* runs so far

disk == <<report, tags, exceptions, backups>>
vars == <<pc, cmd, status, phase, notify, disk, seen, leaked, scanned, runs>>

\* A number main returns or exits with, or the way it dies: "assert" when the
\* assertion of notify_thread::join fails, "throw" by an exception nobody catches.
Status == {"running", "255", "0", "1", "2", "3", "4", "5", "6", "7",
           "assert", "throw", "killed"}

Init ==
  /\ pc = "options" /\ cmd \in CommandLines /\ status = "running"
  /\ phase = 0 /\ notify = "none"
  /\ report = "absent" /\ tags = {} /\ exceptions = {} /\ backups = {} /\ scanned = {}
  /\ seen = {} /\ leaked = FALSE /\ runs = 1

-----------------------------------------------------------------------------
\* The process is gone, and its threads with it.
End(how) == pc' = "ended" /\ status' = how /\ notify' = "none"

\* return in main while a notify_thread is in scope: its destructor calls join(),
\* which asserts that phase 1 is over.
Return(code) == End(IF phase = 1 THEN "assert" ELSE code)

Goto(label) == pc' = label /\ UNCHANGED <<status, notify>>

\* The report was not closed: what the buffer of its stream holds is lost with it, of
\* what names the pages in written.
LoseBuffer(written) ==
  /\ tags' \in SUBSET written /\ exceptions' \in SUBSET exceptions
  /\ scanned' = scanned \cup tags' /\ UNCHANGED <<report, backups>>

\* What an option that ends the program makes it return; debug_help() calls
\* exit(1) before main can return 3.
ExitEarly(error) ==
  CASE error = "set" -> "255" [] error = "version" -> "0"
    [] error \in {"debug_help", "help"} -> "1" [] error = "info_scanners" -> "2"
    [] error = "image_name" -> "3" [] error = "conflict" -> "throw" [] OTHER -> "none"

ParseOptions ==
  /\ pc = "options"
  /\ IF ExitEarly(cmd.error) # "none"
     THEN End(ExitEarly(cmd.error))
     ELSE Goto("outdir")
  /\ UNCHANGED <<cmd, phase, disk, seen, leaked, scanned, runs>>

\* The path printer has no output directory; otherwise -Z empties it.
PrepareOutdir ==
  /\ pc = "outdir"
  /\ IF ~cmd.path /\ cmd.error = "outdir"
     THEN End("4") /\ UNCHANGED <<disk, scanned>>
     ELSE /\ Goto("scanners")
          /\ IF cmd.zap /\ ~cmd.path
             THEN /\ report' = "absent" /\ tags' = {} /\ exceptions' = {}
                  /\ backups' = {} /\ scanned' = {}
             ELSE UNCHANGED <<disk, scanned>>
  /\ UNCHANGED <<cmd, phase, seen, leaked, runs>>

\* A scanner nobody knows is reported; words to find without a scanner that finds throw.
LoadScanners ==
  /\ pc = "scanners"
  /\ CASE cmd.error = "scanner" -> End("5")
       [] cmd.error = "find" -> End("throw")
       [] OTHER -> Goto("restart")
  /\ UNCHANGED <<cmd, phase, disk, seen, leaked, scanned, runs>>

\* Mutant: the old report is overwritten, not renamed.
Restart_NoBackup ==
  /\ pc = "restart" /\ Goto("open")
  /\ seen' = IF report = "absent" \/ cmd.path THEN {} ELSE tags
  /\ UNCHANGED <<cmd, phase, disk, leaked, scanned, runs>>
\* restarter: read the report, then rename it to a name that has the time in it, in
\* seconds: starts are taken to be a second apart.
Restart ==
  /\ pc = "restart" /\ Goto("open")
  /\ IF report = "absent" \/ cmd.path
     THEN UNCHANGED <<disk, seen>>
     ELSE /\ seen' = tags /\ backups' = backups \cup tags
          /\ report' = "absent" /\ tags' = {} /\ exceptions' = {}
  /\ UNCHANGED <<cmd, phase, leaked, scanned, runs>>

\* The old report cannot be read or renamed, or there is no XML parser: not caught.
RestartThrows ==
  /\ pc = "restart" /\ report # "absent" /\ ~cmd.path /\ End("throw")
  /\ UNCHANGED <<cmd, phase, disk, seen, leaked, scanned, runs>>

\* image_process::open; NoSuchFile is not caught, nor is NoSupport, of an E01 image
\* without libewf.
OpenImage ==
  /\ pc = "open"
  /\ CASE cmd.input = "missing" -> End("throw")
       [] cmd.input = "unsupported" -> End("throw")
       [] cmd.input \in {"directory", "directory_of_images"} /\ ~cmd.recurse -> End("7")
       [] cmd.input = "directory_of_images" /\ cmd.recurse -> End("6")
       [] OTHER -> Goto(IF cmd.path THEN "path" ELSE "report")
  /\ UNCHANGED <<cmd, phase, disk, seen, leaked, scanned, runs>>

PrintPath ==
  /\ pc = "path" /\ Return("0")
  /\ UNCHANGED <<cmd, phase, disk, seen, leaked, scanned, runs>>

\* dfxml_writer creates report.xml.
CreateReport ==
  /\ pc = "report" /\ Goto("launch")
  /\ report' = "partial" /\ tags' = {} /\ exceptions' = {}
  /\ UNCHANGED <<cmd, phase, backups, seen, leaked, scanned, runs>>

StartPhase1 ==
  /\ pc = "launch" /\ pc' = "record" /\ phase' = 1
  /\ notify' = IF cmd.notification THEN "checking" ELSE "none"
  /\ UNCHANGED <<cmd, status, disk, seen, leaked, scanned, runs>>

-----------------------------------------------------------------------------
\* phase1_run, as far as main and the output directory see it.

RecordSeen ==
  /\ pc = "record" /\ cmd.error # "sample" /\ Goto("phase1") /\ tags' = tags \cup seen
  /\ UNCHANGED <<cmd, phase, report, exceptions, backups, seen, leaked, scanned, runs>>

\* A sampling fraction above 0.2 throws once the seen pages are recorded: not caught.
RefuseSample ==
  /\ pc = "record" /\ cmd.error = "sample" /\ End("throw") /\ LoseBuffer(tags \cup seen)
  /\ UNCHANGED <<cmd, phase, seen, leaked, runs>>

ScanPage ==
  /\ pc = "phase1"
  /\ \E p \in Pages \ (tags \cup exceptions) : tags' = tags \cup {p}
  /\ UNCHANGED <<pc, cmd, status, phase, notify, report, exceptions, backups, seen, leaked,
                 scanned, runs>>

\* A page is skipped: for want of memory, or after a read error that leaks its sbuf.
MissPage ==
  /\ pc = "phase1"
  /\ \E p \in Pages \ (tags \cup exceptions) : exceptions' = exceptions \cup {p}
  /\ leaked' \in {leaked, TRUE}
  /\ UNCHANGED <<pc, cmd, status, phase, notify, report, tags, backups, seen, scanned, runs>>

AllPagesRead == Pages \subseteq tags \cup exceptions

\* A worker met a disk write error: exit(1).
ExitOnDiskError ==
  /\ pc = "phase1" /\ End("1") /\ LoseBuffer(tags)
  /\ UNCHANGED <<cmd, phase, seen, leaked, runs>>

\* DiskWriteError caught by main.
Phase1DiskWriteError ==
  /\ pc \in {"record", "phase1"} /\ Return("6") /\ LoseBuffer(tags)
  /\ UNCHANGED <<cmd, phase, seen, leaked, runs>>

\* Mutant: phase 3 is announced at once.
EndPhase1_Phase3 ==
  /\ pc = "phase1" /\ AllPagesRead
  /\ phase' = 3 /\ Goto("join")
  /\ UNCHANGED <<cmd, disk, seen, leaked, scanned, runs>>
\* Mutant: the phase is left as it is.
EndPhase1_SamePhase ==
  /\ pc = "phase1" /\ AllPagesRead
  /\ Goto("join")
  /\ UNCHANGED <<cmd, phase, disk, seen, leaked, scanned, runs>>
\* The report is flushed, and main announces phase 2.
EndPhase1 ==
  /\ pc = "phase1" /\ AllPagesRead
  /\ phase' = 2 /\ Goto("join") /\ scanned' = scanned \cup tags
  /\ UNCHANGED <<cmd, disk, seen, leaked, runs>>

Phase1Run ==
  \/ RecordSeen \/ RefuseSample \/ ScanPage \/ MissPage \/ ExitOnDiskError \/ Phase1DiskWriteError \/ EndPhase1

-----------------------------------------------------------------------------
\* Mutant: main does not wait.
JoinNotify_Detach ==
  /\ pc = "join" /\ Goto("shutdown")
  /\ UNCHANGED <<cmd, phase, disk, seen, leaked, scanned, runs>>
\* notify.join(): wait for the thread to return, if it was started.
JoinNotify ==
  /\ pc = "join" /\ notify \in {"none", "ended"}
  /\ pc' = "shutdown" /\ notify' = "none"
  /\ UNCHANGED <<cmd, status, phase, disk, seen, leaked, scanned, runs>>

\* A disk write error is caught; tasks that are still queued throw, and that is not.
Shutdown ==
  /\ pc = "shutdown" /\ (Goto("phase3") \/ Return("7") \/ End("throw"))
  /\ UNCHANGED <<cmd, phase, disk, seen, leaked, scanned, runs>>

\* Phase 3: the report is completed and closed.
CloseReport ==
  /\ pc = "phase3" /\ Goto("leak_check") /\ report' = "whole"
  /\ UNCHANGED <<cmd, phase, tags, exceptions, backups, seen, leaked, scanned, runs>>

\* Mutant: leaks are only printed.
LeakCheck_Warn ==
  /\ pc = "leak_check" /\ Return("0")
  /\ UNCHANGED <<cmd, phase, disk, seen, leaked, scanned, runs>>
LeakCheck ==
  /\ pc = "leak_check" /\ (IF leaked THEN End("throw") ELSE Return("0"))
  /\ UNCHANGED <<cmd, phase, disk, seen, leaked, scanned, runs>>

-----------------------------------------------------------------------------
\* notify_thread::run: show the progress and sleep, as long as it is phase 1.
Notify ==
  /\ notify' = CASE notify = "checking" /\ phase = 1 -> "sleeping"
                 [] notify = "checking" /\ phase # 1 -> "ended"
                 [] notify = "sleeping" -> "checking"
                 [] OTHER -> notify
  /\ notify' # notify
  /\ UNCHANGED <<pc, cmd, status, phase, disk, seen, leaked, scanned, runs>>

Main ==
  \/ ParseOptions \/ PrepareOutdir \/ LoadScanners \/ Restart \/ RestartThrows \/ OpenImage
  \/ PrintPath \/ CreateReport \/ StartPhase1 \/ Phase1Run
  \/ JoinNotify \/ Shutdown \/ CloseReport \/ LeakCheck

Writing == pc \in {"launch", "record", "phase1"}

Kill ==
  /\ MayBeKilled /\ pc # "ended" /\ End("killed")
  /\ IF Writing THEN LoseBuffer(tags) ELSE UNCHANGED <<disk, scanned>>
  /\ UNCHANGED <<cmd, phase, seen, leaked, runs>>

\* The user runs the program again on the same output directory.
RunAgain ==
  /\ pc = "ended" /\ runs < MaxRuns /\ runs' = runs + 1
  /\ pc' = "options" /\ cmd' \in CommandLines /\ status' = "running"
  /\ phase' = 0 /\ seen' = {} /\ leaked' = FALSE
  /\ UNCHANGED <<notify, disk, scanned>>

Next == Main \/ Notify \/ Kill \/ RunAgain

\* main runs until it returns, reading a finite image; the notify thread is not starved.
Fairness == WF_vars(Main) /\ WF_vars(Notify)

Spec == Init /\ [][Next]_vars /\ Fairness

-----------------------------------------------------------------------------
\* Properties.

\* The types of the variables.
TypeOK ==
  /\ pc \in {"options", "outdir", "scanners", "restart", "open", "path", "report", "launch",
             "record", "phase1", "join", "shutdown", "phase3", "leak_check", "ended"}
  /\ cmd \in CommandLines /\ status \in Status /\ phase \in 0 .. 2
  /\ notify \in {"none", "checking", "sleeping", "ended"}
  /\ report \in {"absent", "partial", "whole"}
  /\ tags \in SUBSET Pages /\ exceptions \in SUBSET Pages /\ backups \in SUBSET Pages /\ seen \in SUBSET Pages
  /\ scanned \in SUBSET Pages /\ leaked \in BOOLEAN /\ runs \in 1 .. MaxRuns

\* The command line asks for a scan, and gets as far as starting it.
Asks(c) == c.error = "none" /\ ~c.path

\* Exit status 0 of a run that was to scan means that the report is whole, that it
\* names each page of the image, as started or as skipped, and that no sbuf leaked.
ExitZeroMeansComplete ==
  status = "0" /\ Asks(cmd) => report = "whole" /\ AllPagesRead /\ ~leaked

\* The notify thread reads the scanner set and the clock of main: it is gone before
\* main shuts the scanners down, however phase 1 ended.
NotifyGoneBeforeShutdown ==
  pc \in {"shutdown", "phase3", "leak_check", "ended"} => notify = "none"

\* A page that a report on disk names as started stays named by it, or by the report
\* it was renamed to, unless the user asked for the directory to be wiped.
CheckpointsKept == scanned \subseteq tags \cup backups

\* Each run comes to an end.
RunsEnd == (pc = "options") ~> (pc = "ended")

\* notify_thread.cpp: "assert( phase!= BE_PHASE_1 );" in join().
JoinedAfterPhase1 == status # "assert"
=============================================================================
