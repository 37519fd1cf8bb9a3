----------------------------- MODULE ScanService -----------------------------
(***************************************************************************)
(* The web service around the engine (api/app): the API commits a row for  *)
(* a scan and then queues a task for it; a Celery worker runs the engine   *)
(* on it and imports the files of the output directory into the database,  *)
(* within one SQLAlchemy session.  Several workers, tasks the broker       *)
(* delivers again, processes that die and databases that fail.             *)
(*                                                                         *)
(* PostgreSQL, Redis, Celery and SQLAlchemy are modelled as the code uses  *)
(* them: a session holds what was flushed until it is committed, a session *)
(* whose flush failed refuses to commit until it is rolled back, and a     *)
(* message is delivered at least once.                                     *)
(***************************************************************************)
EXTENDS Integers, Sequences, FiniteSets

CONSTANTS
  Scans, Workers,
  Files,           \* the files of an output directory in the order of the import,
                   \* each the set of the rows it may hold
  MaxDeliveries,   \* bound: how often the broker delivers one task
  MayCrash,        \* a worker process may die, or find no database
  DatabaseMayFail, EnqueueMayFail

Rows == UNION {Files[i] : i \in DOMAIN Files}

ASSUME FilesAssumption ==
  /\ Files \in Seq(SUBSET Rows)
  /\ \A i \in DOMAIN Files : IsFiniteSet(Files[i])
  /\ \A i, j \in DOMAIN Files : i # j => Files[i] \cap Files[j] = {}
ASSUME WorkersAssumption == IsFiniteSet(Workers)
ASSUME ServiceAssumption ==
  /\ MaxDeliveries \in Nat \ {0}
  /\ MayCrash \in BOOLEAN /\ DatabaseMayFail \in BOOLEAN /\ EnqueueMayFail \in BOOLEAN

VARIABLES
  status,      \* scans.status as committed; "absent" before there is a row
  rows,        \* how many times each row of a file was committed for a scan
  outdir,      \* the rows the engine has written to scan_<id>
  request,     \* of POST /cases/{id}/scans: "none", "committed", "answered", "error"
  messages,    \* how many times the broker has the task of a scan to deliver
  deliveries,  \* ... and has delivered it
  orphans,     \* scans with an engine process that no worker reads
  pc,          \* where each worker is
  task,        \* the scan each worker works on
  loaded,      \* scan.status as its session last loaded it
  pending,     \* what its session flushed and has not committed
  file,        \* the file import_results is at
  lost,        \* history: scans a fault left to nobody
  found,       \* history: the rows in the output directory when the engine of a task ended
  certified    \* history: what was found by the tasks that completed

session == <<pc, task, loaded, pending, file>>
broker == <<messages, deliveries>>
history == <<lost, found, certified>>
vars == <<status, rows, outdir, request, broker, orphans, session, history>>

NoRows == [r \in Rows |-> 0]
Add(f, S) == [r \in Rows |-> IF r \in S THEN f[r] + 1 ELSE f[r]]
Sum(f, g) == [r \in Rows |-> f[r] + g[r]]

Init ==
  /\ status = [s \in Scans |-> "absent"] /\ rows = [s \in Scans |-> NoRows]
  /\ outdir = [s \in Scans |-> {}] /\ request = [s \in Scans |-> "none"]
  /\ messages = [s \in Scans |-> 0] /\ deliveries = [s \in Scans |-> 0]
  /\ orphans = {}
  /\ pc = [w \in Workers |-> "idle"] /\ task \in [Workers -> Scans]
  /\ loaded = [w \in Workers |-> "absent"]
  /\ pending = [w \in Workers |-> NoRows] /\ file = [w \in Workers |-> 1]
  /\ lost = {} /\ found = [w \in Workers |-> {}] /\ certified = [s \in Scans |-> {}]

-----------------------------------------------------------------------------
(* create_scan *)

CreateScan(s) ==
  /\ request[s] = "none"
  /\ status' = [status EXCEPT ![s] = "queued"]
  /\ request' = [request EXCEPT ![s] = "committed"]
  /\ UNCHANGED <<rows, outdir, broker, orphans, session, history>>

\* run_scan_task.delay(scan.id), after the row was committed
Enqueue(s) ==
  /\ request[s] = "committed"
  /\ messages' = [messages EXCEPT ![s] = 1]
  /\ request' = [request EXCEPT ![s] = "answered"]
  /\ UNCHANGED <<status, rows, outdir, deliveries, orphans, session, history>>

\* ... raises, or the API dies before it
EnqueueFails(s) ==
  /\ EnqueueMayFail /\ request[s] = "committed"
  /\ request' = [request EXCEPT ![s] = "error"]
  /\ lost' = lost \cup {s}
  /\ UNCHANGED <<status, rows, outdir, broker, orphans, session, found, certified>>

-----------------------------------------------------------------------------
(* The broker *)

Redeliver(s) ==
  /\ deliveries[s] > 0 /\ deliveries[s] + messages[s] < MaxDeliveries
  /\ messages' = [messages EXCEPT ![s] = @ + 1]
  /\ UNCHANGED <<status, rows, outdir, request, deliveries, orphans, session, history>>

Deliver(w, s) ==
  /\ pc[w] = "idle" /\ messages[s] > 0
  /\ messages' = [messages EXCEPT ![s] = @ - 1]
  /\ deliveries' = [deliveries EXCEPT ![s] = @ + 1]
  /\ pc' = [pc EXCEPT ![w] = "load"] /\ task' = [task EXCEPT ![w] = s]
  /\ UNCHANGED <<status, rows, outdir, request, orphans, loaded, pending, file, history>>

-----------------------------------------------------------------------------
(* run_scan_task *)

At(w, label) == pc[w] = label
Goto(w, label) == pc' = [pc EXCEPT ![w] = label]

\* What SQLAlchemy writes to the row: an attribute set to the value it was loaded
\* with is no change.
Written(w, value) ==
  [status EXCEPT ![task[w]] = IF value = loaded[w] THEN @ ELSE value]

\* db.get; without a row there is nothing to do
LoadScan(w) ==
  /\ At(w, "load")
  /\ Goto(w, IF status[task[w]] = "absent" THEN "idle" ELSE "started")
  /\ loaded' = [loaded EXCEPT ![w] = status[task[w]]]
  /\ UNCHANGED <<status, rows, outdir, request, broker, orphans, task, pending, file, history>>

\* The status is committed, and the expired row loaded again for image_path and
\* config; then the engine is started, if there is one.
CommitRunning(w) ==
  /\ At(w, "started")
  /\ status' = Written(w, "running")
  /\ loaded' = [loaded EXCEPT ![w] = status'[task[w]]]
  /\ Goto(w, "engine") \/ Goto(w, "failing")
  /\ UNCHANGED <<rows, outdir, request, broker, orphans, task, pending, file, history>>

\* The engine writes what it finds.
EngineFinds(w) ==
  /\ At(w, "engine")
  /\ \E r \in Rows \ outdir[task[w]] : outdir' = [outdir EXCEPT ![task[w]] = @ \cup {r}]
  /\ UNCHANGED <<status, rows, request, broker, orphans, session, history>>

\* returncode 0, another one, or an exception from the last publish
EngineExits(w) ==
  /\ At(w, "engine")
  /\ Goto(w, "import") \/ Goto(w, "failing")
  /\ file' = [file EXCEPT ![w] = 1]
  /\ found' = [found EXCEPT ![w] = outdir[task[w]]]
  /\ UNCHANGED <<status, rows, outdir, request, broker, orphans, task, loaded, pending,
                 lost, certified>>

\* A progress message cannot be published: the engine goes on without a reader.
PublishFails(w) ==
  /\ At(w, "engine") /\ Goto(w, "failing")
  /\ orphans' = orphans \cup {task[w]}
  /\ UNCHANGED <<status, rows, outdir, request, broker, task, loaded, pending, file, history>>

OrphanFinds(s) ==
  /\ s \in orphans
  /\ \E r \in Rows \ outdir[s] : outdir' = [outdir EXCEPT ![s] = @ \cup {r}]
  /\ UNCHANGED <<status, rows, request, broker, orphans, session, history>>
OrphanEnds(s) ==
  /\ s \in orphans /\ orphans' = orphans \ {s}
  /\ UNCHANGED <<status, rows, outdir, request, broker, session, history>>

-----------------------------------------------------------------------------
(* import_results *)

InFile(w) == Files[file[w]] \cap outdir[task[w]]
MoreFiles(w) == At(w, "import") /\ file[w] <= Len(Files)

\* Mutant: each file is committed.
ImportFile_Commit(w) ==
  /\ MoreFiles(w)
  /\ rows' = [rows EXCEPT ![task[w]] = Add(@, InFile(w))]
  /\ file' = [file EXCEPT ![w] = @ + 1]
  /\ UNCHANGED <<status, outdir, request, broker, orphans, pc, task, loaded, pending, history>>
\* Mutant: the rows left over after the batches of 5000 are not flushed.
ImportFile_FullBatches(w) ==
  /\ MoreFiles(w)
  /\ file' = [file EXCEPT ![w] = @ + 1]
  /\ UNCHANGED <<status, rows, outdir, request, broker, orphans, pc, task, loaded, pending, history>>
\* Mutant: rows is not emptied after a flush.
ImportFile_Twice(w) ==
  /\ MoreFiles(w)
  /\ pending' = [pending EXCEPT ![w] = Add(Add(@, InFile(w)), InFile(w))]
  /\ file' = [file EXCEPT ![w] = @ + 1]
  /\ UNCHANGED <<status, rows, outdir, request, broker, orphans, pc, task, loaded, history>>
\* A file is read and its rows flushed.
ImportFile(w) ==
  /\ MoreFiles(w)
  /\ pending' = [pending EXCEPT ![w] = Add(@, InFile(w))]
  /\ file' = [file EXCEPT ![w] = @ + 1]
  /\ UNCHANGED <<status, rows, outdir, request, broker, orphans, pc, task, loaded, history>>

\* An exception that leaves the session usable: a file cannot be opened.
ImportRaises(w) ==
  /\ MoreFiles(w) /\ Goto(w, "failing")
  /\ UNCHANGED <<status, rows, outdir, request, broker, orphans, task, loaded, pending, file, history>>

Commit(w) ==
  /\ rows' = [rows EXCEPT ![task[w]] = Sum(@, pending[w])]
  /\ pending' = [pending EXCEPT ![w] = NoRows]

\* The report is read and everything is committed; the row expires again.
CommitImport(w) ==
  /\ At(w, "import") /\ file[w] > Len(Files)
  /\ Commit(w) /\ Goto(w, "completing")
  /\ loaded' = [loaded EXCEPT ![w] = "absent"]
  /\ UNCHANGED <<status, outdir, request, broker, orphans, task, file, history>>

-----------------------------------------------------------------------------
(* The end of the task *)

\* Mutant: the status is none of ScanStatus.
CommitComplete_Completed(w) ==
  /\ At(w, "completing") /\ Goto(w, "idle")
  /\ status' = Written(w, "completed")
  /\ UNCHANGED <<rows, outdir, request, broker, orphans, task, loaded, pending, file, history>>
CommitComplete(w) ==
  /\ At(w, "completing") /\ Goto(w, "idle")
  /\ status' = Written(w, "complete")
  /\ certified' = [certified EXCEPT ![task[w]] = @ \cup found[w]]
  /\ UNCHANGED <<rows, outdir, request, broker, orphans, task, loaded, pending, file,
                 lost, found>>

\* Mutant: the status of a failed engine is set and not committed.
CommitFailed_NoCommit(w) ==
  /\ At(w, "failing") /\ Goto(w, "idle")
  /\ UNCHANGED <<status, rows, outdir, request, broker, orphans, task, loaded, pending, file, history>>
\* Mutant: no return after the commit for a failed engine.
CommitFailed_NoReturn(w) ==
  /\ At(w, "failing") /\ Goto(w, "import")
  /\ status' = Written(w, "failed") /\ Commit(w)
  /\ UNCHANGED <<outdir, request, broker, orphans, task, loaded, file, history>>
\* The failure is committed, and with it what the session had flushed.
CommitFailed(w) ==
  /\ At(w, "failing") /\ Goto(w, "idle")
  /\ status' = Written(w, "failed") /\ Commit(w)
  /\ UNCHANGED <<outdir, request, broker, orphans, task, loaded, file, history>>

\* The task is over, nothing of its session remains.
Abandon(w) ==
  /\ Goto(w, "idle") /\ pending' = [pending EXCEPT ![w] = NoRows]
  /\ lost' = lost \cup {task[w]}
  /\ UNCHANGED <<status, rows, outdir, request, broker, task, loaded, file,
                 found, certified>>

\* The database refuses a row of the import.  The handler's own commit raises as well,
\* for a session is not usable after a flush that failed until it is rolled back.
FlushFails(w) ==
  /\ DatabaseMayFail /\ MoreFiles(w)
  /\ Abandon(w) /\ UNCHANGED orphans

AtCommit(w) ==
  \/ pc[w] \in {"completing", "failing"}
  \/ At(w, "import") /\ file[w] > Len(Files)

\* A commit fails and rolls back; the handler's commit is refused like it, or not.
CommitFails(w) ==
  /\ DatabaseMayFail /\ AtCommit(w)
  /\ \/ Abandon(w) /\ UNCHANGED orphans
     \/ /\ Goto(w, "failing")
        /\ pending' = [pending EXCEPT ![w] = NoRows]
        /\ loaded' = [loaded EXCEPT ![w] = "absent"]
        /\ UNCHANGED <<status, rows, outdir, request, broker, orphans, task, file, history>>

\* The worker process dies, its message acknowledged when the task started; or the
\* database fails before the try block, with the same effect.
Crash(w) ==
  /\ MayCrash /\ ~At(w, "idle")
  /\ Abandon(w)
  /\ orphans' = IF At(w, "engine") THEN orphans \cup {task[w]} ELSE orphans

-----------------------------------------------------------------------------
Step(w) ==
  \/ LoadScan(w) \/ CommitRunning(w) \/ EngineFinds(w) \/ EngineExits(w)
  \/ ImportFile(w) \/ CommitImport(w) \/ CommitComplete(w) \/ CommitFailed(w)

Fault(w) == PublishFails(w) \/ ImportRaises(w) \/ FlushFails(w) \/ CommitFails(w) \/ Crash(w)

Next ==
  \/ \E s \in Scans : CreateScan(s) \/ Enqueue(s) \/ EnqueueFails(s) \/ Redeliver(s)
                      \/ OrphanFinds(s) \/ OrphanEnds(s)
  \/ \E w \in Workers, s \in Scans : Deliver(w, s)
  \/ \E w \in Workers : Step(w) \/ Fault(w)

\* A handler that runs goes on, a queued task is delivered when a worker is idle, and
\* an engine ends.
Fairness ==
  /\ \A s \in Scans : WF_vars(Enqueue(s)) /\ WF_vars(\E w \in Workers : Deliver(w, s))
  /\ \A w \in Workers : WF_vars(Step(w))

Spec == Init /\ [][Next]_vars /\ Fairness

-----------------------------------------------------------------------------
(* Properties *)

Settled == {"complete", "failed"}

\* The types of the variables.
TypeOK ==
  /\ status \in [Scans -> {"absent", "queued", "running"} \cup Settled]
  /\ rows \in [Scans -> [Rows -> Nat]] /\ outdir \in [Scans -> SUBSET Rows]
  /\ request \in [Scans -> {"none", "committed", "answered", "error"}]
  /\ messages \in [Scans -> 0 .. MaxDeliveries] /\ deliveries \in [Scans -> 0 .. MaxDeliveries]
  /\ orphans \in SUBSET Scans
  /\ pc \in [Workers -> {"idle", "load", "started", "engine", "import", "completing", "failing"}]
  /\ task \in [Workers -> Scans]
  /\ loaded \in [Workers -> {"absent", "queued", "running"} \cup Settled]
  /\ pending \in [Workers -> [Rows -> Nat]] /\ file \in [Workers -> 1 .. Len(Files) + 1]
  /\ lost \in SUBSET Scans /\ found \in [Workers -> SUBSET Rows]
  /\ certified \in [Scans -> SUBSET Rows]

\* Whoever opens a scan while its task runs, or once it is complete, sees all of what
\* the engine found or none of it, as long as the task was delivered once.
NoPartialResults ==
  \A s \in Scans :
    deliveries[s] <= 1 /\ status[s] # "failed" =>
      rows[s] = NoRows \/ \A r \in outdir[s] : rows[s][r] > 0

\* However often a task is delivered and whichever tasks run at once, what the engine
\* of a task that completed left in the files is in the database.
CompletedIsImported ==
  \A s \in Scans : \A r \in certified[s] : rows[s][r] > 0

\* A row is in the database at most once for each time the task was delivered.
RowsBoundedByDeliveries ==
  \A s \in Scans, r \in Rows : rows[s][r] <= deliveries[s]

\* A settled scan only changes its status because its task was delivered again.
SettledUnlessRedelivered ==
  [][\A s \in Scans : status[s] \in Settled /\ status'[s] # status[s] => deliveries[s] > 1]_vars

\* A scan that was accepted is settled in the end, unless the API failed to queue
\* it, its worker died or the database refused a statement of its session.
SettlesUnlessLost ==
  \A s \in Scans : (status[s] = "queued") ~> (status[s] \in Settled \/ s \in lost)

\* instructions.component.ts: "Wait for the status to move from queued to running and
\* then complete."
Settles == \A s \in Scans : (status[s] = "queued") ~> (status[s] \in Settled)
=============================================================================
