---------------------------- MODULE ServiceProofs ----------------------------
(***************************************************************************)
(* Proofs about the scan service and the page of a scan: for any number of *)
(* scans, workers, files and deliveries, and with every fault.             *)
(***************************************************************************)
EXTENDS ScanPage, FiniteSetTheorems, TLAPS

-----------------------------------------------------------------------------
(* The inductive invariant *)

Busy(w, s) == task[w] = s /\ pc[w] # "idle"

\* The broker delivers a task no more often than it may, and not before it was queued
\* for a scan whose row is committed.
Handed ==
  \A s \in Scans :
    /\ deliveries[s] + messages[s] <= MaxDeliveries
    /\ request[s] = "none" => status[s] = "absent"
    /\ request[s] # "answered" => messages[s] = 0 /\ deliveries[s] = 0 /\ \A w \in Workers : ~Busy(w, s)

\* What a session has flushed: nothing outside of an import, and within it the rows of
\* the files behind it, each once and all that the engine left there.
Flushed(w) ==
  /\ found[w] \subseteq outdir[task[w]]
  /\ \A j \in DOMAIN Files : \A r \in Files[j] :
       IF j < file[w] THEN r \in found[w] => pending[w][r] > 0 ELSE pending[w][r] = 0
Session(w) ==
  /\ pc[w] \notin {"import", "failing"} => pending[w] = NoRows
  /\ \A r \in Rows : pending[w][r] <= 1 /\ (pending[w][r] > 0 => r \in outdir[task[w]])
  /\ pc[w] = "import" => Flushed(w)
  /\ pc[w] = "completing" => \A r \in found[w] : rows[task[w]][r] > 0
Sessions == \A w \in Workers : Session(w)

\* A task that was delivered once has one worker, and the scan is not settled before it.
Lone(s) ==
  /\ deliveries[s] = 0 =>
       /\ rows[s] = NoRows /\ s \notin orphans /\ status[s] \notin Settled
       /\ \A w \in Workers : ~Busy(w, s)
  /\ deliveries[s] <= 1 =>
       /\ \A w, v \in Workers : Busy(w, s) /\ Busy(v, s) => w = v
       /\ \A w \in Workers : Busy(w, s) =>
            status[s] \notin Settled /\ (pc[w] # "load" => loaded[w] \notin Settled)
Alone == \A s \in Scans : Lone(s)

BeforeCommit == {"load", "started", "engine", "import"}

\* ... whose rows are committed together, after the engine and its orphan are done.
OneImport(s) ==
  /\ s \in orphans =>
       rows[s] = NoRows /\ \A w \in Workers : Busy(w, s) => pc[w] = "failing" /\ pending[w] = NoRows
  /\ \A w \in Workers : Busy(w, s) =>
       /\ pc[w] \in BeforeCommit => rows[s] = NoRows
       /\ pc[w] \in {"import", "completing"} => found[w] = outdir[s]
  /\ status[s] # "failed" => rows[s] = NoRows \/ \A r \in outdir[s] : rows[s][r] > 0
Whole == \A s \in Scans : deliveries[s] = 1 => OneImport(s)

\* What is in the database was in the output directory, and what the one task of a scan
\* completed with is all there is.
FromEngine == \A s \in Scans, r \in Rows : rows[s][r] > 0 => r \in outdir[s]
Complete(s) ==
  /\ status[s] # "complete" => certified[s] = {}
  /\ status[s] = "complete" => \A r \in Rows : rows[s][r] > 0 <=> r \in certified[s]
Counted == \A s \in Scans : deliveries[s] <= 1 => Complete(s)

\* The workers that may yet add a row: one for each delivery that has added none.
MayAdd(w, s) ==
  task[w] = s /\ (pc[w] \in BeforeCommit \/ (pc[w] = "failing" /\ pending[w] # NoRows))
Unspent(s) == {w \in Workers : MayAdd(w, s)}
Covered(s) == \A r \in Rows : rows[s][r] + Cardinality(Unspent(s)) <= deliveries[s]
Bounded == \A s \in Scans : Covered(s)

\* A commit that failed and was rolled back, and a handler that may go on.
Dropped(w) ==
  /\ Goto(w, "failing")
  /\ pending' = [pending EXCEPT ![w] = NoRows]
  /\ loaded' = [loaded EXCEPT ![w] = "absent"]
  /\ UNCHANGED <<status, rows, outdir, request, broker, orphans, task, file, history>>

-----------------------------------------------------------------------------
(* Typing *)

LEMMA FilesInOrder == Len(Files) \in Nat /\ DOMAIN Files = 1 .. Len(Files)
  BY FilesAssumption

LEMMA AddNat ==
  ASSUME NEW f \in [Rows -> Nat], NEW S
  PROVE  /\ Add(f, S) \in [Rows -> Nat]
         /\ \A r \in Rows : Add(f, S)[r] = IF r \in S THEN f[r] + 1 ELSE f[r]
  BY DEF Add

LEMMA SumNat ==
  ASSUME NEW f \in [Rows -> Nat], NEW g \in [Rows -> Nat]
  PROVE  /\ Sum(f, g) \in [Rows -> Nat]
         /\ \A r \in Rows : Sum(f, g)[r] = f[r] + g[r]
  BY DEF Sum

LEMMA NoRowsNat == NoRows \in [Rows -> Nat] /\ \A r \in Rows : NoRows[r] = 0
  BY DEF NoRows

\* Nothing is added to the rows of a scan by a session that has flushed none.
LEMMA SumNoRows ==
  ASSUME NEW f \in [Rows -> Nat]
  PROVE  Sum(f, NoRows) = f
  BY DEF Sum, NoRows

LEMMA InitTyping == Init => TypeOK /\ Handed
<1>1. Init => TypeOK
  BY FilesInOrder, ServiceAssumption, NoRowsNat DEF Init, TypeOK
<1>2. Init => Handed
  BY ServiceAssumption DEF Init, Handed, Busy
<1>. QED
  BY <1>1, <1>2

LEMMA WrittenType ==
  ASSUME TypeOK, NEW w \in Workers, NEW value \in {"running", "complete", "failed"}
  PROVE  /\ Written(w, value) \in [Scans -> {"absent", "queued", "running"} \cup Settled]
         /\ \A s \in Scans : s # task[w] => Written(w, value)[s] = status[s]
         /\ Written(w, value)[task[w]] = IF value = loaded[w] THEN status[task[w]] ELSE value
  BY DEF TypeOK, Written, Settled

\* One step of the service keeps the types.
LEMMA TypeNext == TypeOK /\ Handed /\ [Next]_vars => TypeOK'
<1>. SUFFICES ASSUME TypeOK, Handed, [Next]_vars
              PROVE  TypeOK'
  OBVIOUS
<1>. USE ServiceAssumption
<1>1. ASSUME NEW s \in Scans, CreateScan(s) PROVE TypeOK'
  BY <1>1 DEF CreateScan, TypeOK, broker, session, history
<1>2. ASSUME NEW s \in Scans, Enqueue(s) PROVE TypeOK'
  BY <1>2 DEF Enqueue, TypeOK, session, history
<1>3. ASSUME NEW s \in Scans, EnqueueFails(s) PROVE TypeOK'
  BY <1>3 DEF EnqueueFails, TypeOK, broker, session
<1>4. ASSUME NEW s \in Scans, Redeliver(s) PROVE TypeOK'
  BY <1>4 DEF Redeliver, TypeOK, session, history
<1>5. ASSUME NEW s \in Scans, OrphanFinds(s) PROVE TypeOK'
  BY <1>5 DEF OrphanFinds, TypeOK, broker, session, history
<1>6. ASSUME NEW s \in Scans, OrphanEnds(s) PROVE TypeOK'
  BY <1>6 DEF OrphanEnds, TypeOK, broker, session, history
<1>7. ASSUME NEW w \in Workers, NEW s \in Scans, Deliver(w, s) PROVE TypeOK'
  BY <1>7 DEF Deliver, TypeOK, Handed, history
<1>8. ASSUME NEW w \in Workers, LoadScan(w) PROVE TypeOK'
  BY <1>8 DEF LoadScan, At, Goto, TypeOK, broker, history
<1>9. ASSUME NEW w \in Workers, CommitRunning(w) PROVE TypeOK'
  <2>1. /\ status' = Written(w, "running") /\ loaded' = [loaded EXCEPT ![w] = status'[task[w]]]
        /\ pc' = [pc EXCEPT ![w] = "engine"] \/ pc' = [pc EXCEPT ![w] = "failing"]
        /\ UNCHANGED <<rows, outdir, request, messages, deliveries, orphans, task, pending, file, lost, found, certified>>
    BY <1>9 DEF CommitRunning, Goto, broker, history
  <2>2. status' \in [Scans -> {"absent", "queued", "running"} \cup Settled]
    BY <2>1, WrittenType
  <2>3. loaded' \in [Workers -> {"absent", "queued", "running"} \cup Settled]
    BY <2>1, <2>2 DEF TypeOK
  <2>4. pc' \in [Workers -> {"idle", "load", "started", "engine", "import", "completing", "failing"}]
    BY <2>1 DEF TypeOK
  <2>. QED
    BY <2>1, <2>2, <2>3, <2>4 DEF TypeOK
<1>10. ASSUME NEW w \in Workers, EngineFinds(w) PROVE TypeOK'
  BY <1>10 DEF EngineFinds, TypeOK, broker, session, history
<1>11. ASSUME NEW w \in Workers, EngineExits(w) PROVE TypeOK'
  <2>1. 1 \in 1 .. Len(Files) + 1
    BY FilesInOrder
  <2>. QED
    BY <1>11, <2>1 DEF EngineExits, Goto, TypeOK, broker
<1>12. ASSUME NEW w \in Workers, PublishFails(w) PROVE TypeOK'
  BY <1>12 DEF PublishFails, Goto, TypeOK, broker, history
<1>13. ASSUME NEW w \in Workers, ImportFile(w) PROVE TypeOK'
  <2>1. Add(pending[w], InFile(w)) \in [Rows -> Nat]
    BY AddNat DEF TypeOK
  <2>. QED
    BY <1>13, <2>1, FilesInOrder DEF ImportFile, MoreFiles, TypeOK, broker, history
<1>14. ASSUME NEW w \in Workers, ImportRaises(w) PROVE TypeOK'
  BY <1>14 DEF ImportRaises, Goto, TypeOK, broker, history
<1>15. ASSUME NEW w \in Workers, Commit(w)
       PROVE  rows' \in [Scans -> [Rows -> Nat]] /\ pending' \in [Workers -> [Rows -> Nat]]
  <2>1. Sum(rows[task[w]], pending[w]) \in [Rows -> Nat]
    BY SumNat DEF TypeOK
  <2>. QED
    BY <1>15, <2>1, NoRowsNat DEF Commit, TypeOK
<1>16. ASSUME NEW w \in Workers, CommitImport(w) PROVE TypeOK'
  BY <1>16, <1>15 DEF CommitImport, Goto, TypeOK, broker, history
<1>17. ASSUME NEW w \in Workers, CommitComplete(w) PROVE TypeOK'
  <2>1. status' \in [Scans -> {"absent", "queued", "running"} \cup Settled]
    BY <1>17, WrittenType DEF CommitComplete
  <2>2. certified' \in [Scans -> SUBSET Rows]
    BY <1>17 DEF CommitComplete, TypeOK
  <2>. QED
    BY <1>17, <2>1, <2>2 DEF CommitComplete, Goto, TypeOK, broker
<1>18. ASSUME NEW w \in Workers, CommitFailed(w) PROVE TypeOK'
  <2>1. status' \in [Scans -> {"absent", "queued", "running"} \cup Settled]
    BY <1>18, WrittenType DEF CommitFailed
  <2>. QED
    BY <1>18, <1>15, <2>1 DEF CommitFailed, Goto, TypeOK, broker, history
<1>19. ASSUME NEW w \in Workers, Abandon(w), orphans' \in {orphans, orphans \cup {task[w]}} PROVE TypeOK'
  BY <1>19, NoRowsNat DEF Abandon, Goto, TypeOK, broker
<1>20. ASSUME NEW w \in Workers, CommitFails(w) PROVE TypeOK'
  <2>1. CASE Abandon(w) /\ UNCHANGED orphans
    BY <1>19, <2>1
  <2>2. ASSUME Dropped(w)
        PROVE  TypeOK'
    BY <2>2, NoRowsNat DEF Dropped, Goto, TypeOK, broker, history
  <2>. QED
    BY <1>20, <2>1, <2>2 DEF CommitFails, Dropped
<1>21. CASE UNCHANGED vars
  BY <1>21 DEF vars, TypeOK, broker, session, history
<1>. QED
  BY <1>1, <1>2, <1>3, <1>4, <1>5, <1>6, <1>7, <1>8, <1>9, <1>10, <1>11, <1>12, <1>13, <1>14, <1>16,
     <1>17, <1>18, <1>19, <1>20, <1>21 DEF Next, Step, Fault, FlushFails, Crash

-----------------------------------------------------------------------------
(* What a step of a worker leaves alone *)

\* A worker that steps is busy; it touches its own session, its own scan, and no message.
Kept(w) ==
  /\ pc[w] # "idle" /\ UNCHANGED <<request, messages, deliveries, task>>
  /\ \A v \in Workers \ {w} :
       /\ pc'[v] = pc[v] /\ loaded'[v] = loaded[v] /\ pending'[v] = pending[v]
       /\ file'[v] = file[v] /\ found'[v] = found[v]
  /\ \A s \in Scans \ {task[w]} :
       /\ status'[s] = status[s] /\ rows'[s] = rows[s] /\ outdir'[s] = outdir[s]
       /\ certified'[s] = certified[s] /\ (s \in orphans' <=> s \in orphans)

LEMMA WorkerKeeps ==
  ASSUME TypeOK, NEW w \in Workers, Step(w) \/ Fault(w)
  PROVE  Kept(w)
<1>1. ASSUME LoadScan(w) PROVE Kept(w)
  BY <1>1 DEF Kept, LoadScan, At, Goto, broker, history, TypeOK
<1>2. ASSUME CommitRunning(w) PROVE Kept(w)
  BY <1>2, WrittenType DEF Kept, CommitRunning, At, Goto, broker, history, TypeOK
<1>3. ASSUME EngineFinds(w) PROVE Kept(w)
  BY <1>3 DEF Kept, EngineFinds, At, broker, session, history, TypeOK
<1>4. ASSUME EngineExits(w) PROVE Kept(w)
  BY <1>4 DEF Kept, EngineExits, At, Goto, broker, TypeOK
<1>5. ASSUME ImportFile(w) PROVE Kept(w)
  BY <1>5 DEF Kept, ImportFile, MoreFiles, At, broker, history, TypeOK
<1>6. ASSUME CommitImport(w) PROVE Kept(w)
  BY <1>6 DEF Kept, CommitImport, Commit, At, Goto, broker, history, TypeOK
<1>7. ASSUME CommitComplete(w) PROVE Kept(w)
  BY <1>7, WrittenType DEF Kept, CommitComplete, At, Goto, broker, TypeOK
<1>8. ASSUME CommitFailed(w) PROVE Kept(w)
  BY <1>8, WrittenType DEF Kept, CommitFailed, Commit, At, Goto, broker, history, TypeOK
<1>9. ASSUME PublishFails(w) PROVE Kept(w)
  BY <1>9 DEF Kept, PublishFails, At, Goto, broker, history, TypeOK
<1>10. ASSUME ImportRaises(w) PROVE Kept(w)
  BY <1>10 DEF Kept, ImportRaises, MoreFiles, At, Goto, broker, history, TypeOK
<1>11. ASSUME FlushFails(w) PROVE Kept(w)
  BY <1>11 DEF Kept, FlushFails, Abandon, MoreFiles, At, Goto, broker, TypeOK
<1>12. ASSUME CommitFails(w) PROVE Kept(w)
  BY <1>12 DEF Kept, CommitFails, AtCommit, Abandon, At, Goto, broker, history, TypeOK
<1>13. ASSUME Crash(w) PROVE Kept(w)
  BY <1>13 DEF Kept, Crash, Abandon, At, Goto, broker, TypeOK
<1>. QED
  BY <1>1, <1>2, <1>3, <1>4, <1>5, <1>6, <1>7, <1>8, <1>9, <1>10, <1>11, <1>12, <1>13 DEF Step, Fault

-----------------------------------------------------------------------------
(* The broker *)

LEMMA HandedNext == TypeOK /\ Handed /\ [Next]_vars => Handed'
<1>. SUFFICES ASSUME TypeOK, Handed, [Next]_vars
              PROVE  Handed'
  OBVIOUS
<1>. USE ServiceAssumption DEF Handed, Busy
<1>1. ASSUME NEW s \in Scans, CreateScan(s) PROVE Handed'
  BY <1>1 DEF CreateScan, TypeOK, broker, session
<1>2. ASSUME NEW s \in Scans, Enqueue(s) PROVE Handed'
  BY <1>2 DEF Enqueue, TypeOK, session
<1>3. ASSUME NEW s \in Scans, EnqueueFails(s) PROVE Handed'
  BY <1>3 DEF EnqueueFails, TypeOK, broker, session
<1>4. ASSUME NEW s \in Scans, Redeliver(s) PROVE Handed'
  BY <1>4 DEF Redeliver, TypeOK, session
<1>5. ASSUME NEW s \in Scans, OrphanFinds(s) \/ OrphanEnds(s) PROVE Handed'
  BY <1>5 DEF OrphanFinds, OrphanEnds, broker, session
<1>6. ASSUME NEW w \in Workers, NEW s \in Scans, Deliver(w, s) PROVE Handed'
  BY <1>6, SMTT(60) DEF Deliver, TypeOK
<1>7. ASSUME NEW w \in Workers, Step(w) \/ Fault(w) PROVE Handed'
  BY <1>7, WorkerKeeps, SMTT(30) DEF Kept, TypeOK
<1>8. CASE UNCHANGED vars
  BY <1>8 DEF vars, broker, session
<1>. QED
  BY <1>1, <1>2, <1>3, <1>4, <1>5, <1>6, <1>7, <1>8 DEF Next

-----------------------------------------------------------------------------
(* The sessions *)

\* Nothing that was written to an output directory or committed is taken back.
Grows(s) ==
  /\ outdir[s] \subseteq outdir'[s] /\ certified[s] \subseteq certified'[s]
  /\ \A r \in Rows : rows[s][r] <= rows'[s][r]

LEMMA ScanGrows ==
  ASSUME TypeOK, [Next]_vars, NEW s \in Scans
  PROVE  Grows(s)
<1>1. ASSUME NEW t \in Scans, OrphanFinds(t) PROVE Grows(s)
  BY <1>1 DEF OrphanFinds, history, Grows, TypeOK
<1>2. ASSUME NEW t \in Scans, CreateScan(t) \/ Enqueue(t) \/ EnqueueFails(t) \/ Redeliver(t) \/ OrphanEnds(t)
                                 \/ \E w \in Workers : Deliver(w, t)
      PROVE  UNCHANGED <<rows, outdir, certified>>
  BY <1>2 DEF CreateScan, Enqueue, EnqueueFails, Redeliver, OrphanEnds, Deliver, history
<1>3. ASSUME NEW w \in Workers, Commit(w) PROVE \A r \in Rows : rows[s][r] <= rows'[s][r]
  <2>1. rows[task[w]] \in [Rows -> Nat] /\ pending[w] \in [Rows -> Nat] /\ rows[s] \in [Rows -> Nat]
    BY DEF TypeOK
  <2>2. rows'[s] = IF s = task[w] THEN Sum(rows[s], pending[w]) ELSE rows[s]
    BY <1>3 DEF Commit, TypeOK
  <2>3. \A r \in Rows : Sum(rows[task[w]], pending[w])[r] = rows[task[w]][r] + pending[w][r]
    BY <2>1, SumNat
  <2>. QED
    BY <2>1, <2>2, <2>3
<1>4. ASSUME NEW w \in Workers, CommitImport(w) \/ CommitFailed(w) PROVE Grows(s)
  BY <1>3, <1>4 DEF CommitImport, CommitFailed, history, Grows
<1>5. ASSUME NEW w \in Workers, CommitComplete(w) PROVE Grows(s)
  BY <1>5 DEF CommitComplete, Grows, TypeOK
<1>6. ASSUME NEW w \in Workers, EngineFinds(w) PROVE Grows(s)
  BY <1>6, SMTT(30) DEF EngineFinds, history, Grows, TypeOK
<1>7. ASSUME NEW w \in Workers, LoadScan(w) \/ CommitRunning(w) \/ EngineExits(w) \/ ImportFile(w) \/ Fault(w)
      PROVE  UNCHANGED <<rows, outdir, certified>>
  BY <1>7 DEF LoadScan, CommitRunning, EngineExits, ImportFile, Fault, PublishFails, ImportRaises, FlushFails,
              CommitFails, Crash, Abandon, history
<1>8. CASE UNCHANGED <<rows, outdir, certified>>
  BY <1>8 DEF Grows, TypeOK
<1>. QED
  BY <1>1, <1>2, <1>4, <1>5, <1>6, <1>7, <1>8 DEF Next, Step, vars, history

\* The session of a worker that does not step.
LEMMA SessionStays ==
  ASSUME TypeOK, TypeOK', [Next]_vars, NEW v \in Workers, Session(v),
         pc'[v] = pc[v], task'[v] = task[v], pending'[v] = pending[v], file'[v] = file[v], found'[v] = found[v]
  PROVE  Session(v)'
<1>1. task[v] \in Scans /\ found[v] \subseteq Rows
  BY DEF TypeOK
<1>2. Grows(task[v])
  BY <1>1, ScanGrows
<1>3. \A r \in Rows : rows[task[v]][r] \in Nat
  BY <1>1 DEF TypeOK
<1>4. \A r \in Rows : rows'[task[v]][r] \in Nat
  BY <1>1 DEF TypeOK
<1>. QED
  BY <1>1, <1>2, <1>3, <1>4 DEF Session, Flushed, Grows

LEMMA SessionsNext == TypeOK /\ TypeOK' /\ Sessions /\ [Next]_vars => Sessions'
<1>. SUFFICES ASSUME TypeOK, TypeOK', Sessions, [Next]_vars
              PROVE  Sessions'
  OBVIOUS
<1>1. ASSUME UNCHANGED <<session, found>> PROVE Sessions'
  BY <1>1, SessionStays DEF Sessions, session
<1>2. ASSUME NEW s \in Scans, CreateScan(s) \/ Enqueue(s) \/ EnqueueFails(s) \/ Redeliver(s)
                                 \/ OrphanFinds(s) \/ OrphanEnds(s)
      PROVE  UNCHANGED <<session, found>>
  BY <1>2 DEF CreateScan, Enqueue, EnqueueFails, Redeliver, OrphanFinds, OrphanEnds, history
<1>3. ASSUME NEW w \in Workers, NEW s \in Scans, Deliver(w, s) PROVE Sessions'
  <2>1. Session(w)'
    <3>1. pc[w] = "idle" /\ pc'[w] = "load" /\ pending'[w] = pending[w]
      BY <1>3 DEF Deliver, TypeOK
    <3>2. pending[w] = NoRows
      BY <3>1 DEF Sessions, Session
    <3>3. pending'[w] = NoRows /\ pc'[w] = "load"
      BY ONLY <3>1, <3>2
    <3>. QED
      BY <3>3, NoRowsNat DEF Session
  <2>2. ASSUME NEW v \in Workers \ {w} PROVE Session(v)'
    <3>1. pc'[v] = pc[v] /\ task'[v] = task[v] /\ pending'[v] = pending[v] /\ file'[v] = file[v] /\ found'[v] = found[v]
      BY <1>3, <2>2 DEF Deliver, TypeOK, history
    <3>2. v \in Workers /\ Session(v)
      BY <2>2 DEF Sessions
    <3>. QED
      BY <3>1, <3>2, SessionStays
  <2>. QED
    BY <2>1, <2>2 DEF Sessions
<1>4. ASSUME NEW w \in Workers, Step(w) \/ Fault(w) PROVE Sessions'
  <2>. DEFINE P == pending[w]
              t == task[w]
  <2>. USE DEF At, Goto, history
  <2>1. ASSUME NEW v \in Workers \ {w} PROVE Session(v)'
    BY <1>4, <2>1, SessionStays, WorkerKeeps DEF Kept, Sessions
  <2>2. /\ Session(w) /\ t \in Scans /\ P \in [Rows -> Nat] /\ rows[t] \in [Rows -> Nat]
        /\ found[w] \subseteq Rows /\ outdir[t] \subseteq Rows /\ outdir[t] \subseteq outdir'[t] /\ task' = task
    BY <1>4, WorkerKeeps, ScanGrows DEF Sessions, TypeOK, Kept, Grows
  <2>3. ASSUME pending'[w] = NoRows, pc'[w] \notin {"import", "completing"} PROVE Session(w)'
    BY <2>3, NoRowsNat DEF Session
  <2>4. ASSUME pending'[w] = P, pc'[w] \notin {"import", "completing"}, pc'[w] = "failing" \/ pc[w] \notin {"import", "failing"}
        PROVE  Session(w)'
    BY <2>2, <2>4 DEF Session
  <2>5. ASSUME LoadScan(w) \/ CommitRunning(w) PROVE Session(w)'
    BY <2>4, <2>5 DEF LoadScan, CommitRunning, TypeOK
  <2>6. ASSUME EngineFinds(w) PROVE Session(w)'
    BY <2>2, <2>6, SessionStays DEF EngineFinds, session
  <2>7. ASSUME EngineExits(w) PROVE Session(w)'
    <3>1. pending'[w] = NoRows /\ file'[w] = 1 /\ found'[w] = outdir'[task'[w]] /\ pc'[w] \in {"import", "failing"}
      BY <2>2, <2>7 DEF EngineExits, Session, TypeOK
    <3>2. \A j \in DOMAIN Files : ~(j < 1) /\ Files[j] \subseteq Rows
      BY FilesInOrder DEF Rows
    <3>. QED
      BY <3>1, <3>2, NoRowsNat DEF Session, Flushed
  <2>8. ASSUME ImportFile(w) PROVE Session(w)'
    <3>1. /\ pc'[w] = "import" /\ pc[w] = "import" /\ file[w] \in DOMAIN Files /\ file'[w] = file[w] + 1
          /\ found'[w] = found[w] /\ outdir' = outdir /\ task' = task
          /\ pending'[w] = Add(P, InFile(w))
      BY <2>8, FilesInOrder DEF ImportFile, MoreFiles, TypeOK
    <3>2. \A r \in Rows : pending'[w][r] = IF r \in InFile(w) THEN P[r] + 1 ELSE P[r]
      BY <2>2, <3>1, AddNat
    <3>3. InFile(w) = Files[file[w]] \cap outdir[t] /\ Flushed(w)
      BY <2>2, <3>1 DEF InFile, Session
    <3>4. \A j \in DOMAIN Files : Files[j] \subseteq Rows
      BY DEF Rows
    <3>5. \A r \in InFile(w) : P[r] = 0
      BY <3>1, <3>3 DEF Flushed, TypeOK
    <3>6. \A r \in Rows : pending'[w][r] <= 1
      BY <2>2, <3>2, <3>5 DEF Session
    <3>9. ASSUME NEW r \in Rows, pending'[w][r] > 0 PROVE r \in outdir[t]
      BY <2>2, <3>2, <3>3, <3>9 DEF Session
    <3>7. ASSUME NEW j \in DOMAIN Files, NEW r \in Files[j], j < file[w] + 1, r \in found[w]
          PROVE  pending'[w][r] > 0
      <4>1. CASE j = file[w]
        BY <2>2, <3>2, <3>3, <3>4, <3>7, <4>1 DEF Flushed
      <4>2. CASE j < file[w]
        BY <2>2, <3>2, <3>3, <3>4, <3>7, <4>2 DEF Flushed
      <4>. QED
        BY <3>7, <4>1, <4>2, FilesInOrder, SMTT(30) DEF TypeOK
    <3>8. ASSUME NEW j \in DOMAIN Files, NEW r \in Files[j], ~(j < file[w] + 1)
          PROVE  pending'[w][r] = 0
      <4>1. j # file[w] /\ ~(j < file[w])
        BY <3>1, <3>8, FilesInOrder
      <4>2. r \notin InFile(w)
        BY <3>1, <3>3, <4>1, FilesAssumption
      <4>. QED
        BY <3>2, <3>3, <3>4, <4>1, <4>2 DEF Flushed
    <3>. QED
      BY <2>2, <3>1, <3>3, <3>6, <3>7, <3>8, <3>9 DEF Session, Flushed
  <2>9. ASSUME CommitImport(w) PROVE Session(w)'
    <3>1. /\ pc[w] = "import" /\ file[w] > Len(Files) /\ pc'[w] = "completing" /\ found'[w] = found[w] /\ task' = task
          /\ pending'[w] = NoRows /\ rows'[t] = Sum(rows[t], P)
      BY <2>9 DEF CommitImport, Commit, TypeOK
    <3>2. ASSUME NEW r \in found[w] PROVE P[r] > 0
      <4>1. PICK j \in DOMAIN Files : r \in Files[j]
        BY <2>2 DEF Rows
      <4>2. j < file[w]
        BY <3>1, <4>1, FilesInOrder DEF TypeOK
      <4>. QED
        BY <2>2, <3>1, <4>1, <4>2 DEF Session, Flushed
    <3>3. \A r \in Rows : rows'[t][r] = rows[t][r] + P[r]
      <4>1. \A r \in Rows : Sum(rows[t], P)[r] = rows[t][r] + P[r]
        BY ONLY <2>2, SumNat
      <4>. QED
        BY ONLY <3>1, <4>1
    <3>. QED
      BY <2>2, <3>1, <3>2, <3>3, NoRowsNat DEF Session
  <2>10. ASSUME CommitComplete(w) PROVE Session(w)'
    BY <2>4, <2>10 DEF CommitComplete, TypeOK
  <2>11. ASSUME CommitFailed(w) \/ FlushFails(w) \/ CommitFails(w) \/ Crash(w) PROVE Session(w)'
    BY <2>3, <2>11 DEF CommitFailed, FlushFails, CommitFails, Crash, Commit, Abandon, TypeOK
  <2>12. ASSUME PublishFails(w) \/ ImportRaises(w) PROVE Session(w)'
    BY <2>4, <2>12 DEF PublishFails, ImportRaises, TypeOK
  <2>. QED
    BY <1>4, <2>1, <2>5, <2>6, <2>7, <2>8, <2>9, <2>10, <2>11, <2>12 DEF Sessions, Step, Fault
<1>. QED
  BY <1>1, <1>2, <1>3, <1>4 DEF Next, vars, history

LEMMA CompletedNext ==
  TypeOK /\ TypeOK' /\ Sessions /\ CompletedIsImported /\ [Next]_vars => CompletedIsImported'
<1>. SUFFICES ASSUME TypeOK, TypeOK', Sessions, CompletedIsImported, [Next]_vars
              PROVE  CompletedIsImported'
  OBVIOUS
<1>1. ASSUME NEW s \in Scans, certified'[s] \subseteq certified[s]
      PROVE  \A r \in certified'[s] : rows'[s][r] > 0
  BY <1>1, ScanGrows DEF Grows, CompletedIsImported, TypeOK
<1>2. ASSUME NEW s \in Scans, NEW w \in Workers, CommitComplete(w)
      PROVE  \A r \in certified'[s] : rows'[s][r] > 0
  <2>1. CASE s = task[w]
    <3>1. certified'[s] = certified[s] \cup found[w] /\ rows' = rows /\ pc[w] = "completing"
      BY <1>2, <2>1 DEF CommitComplete, At, TypeOK
    <3>. QED
      BY <2>1, <3>1 DEF CompletedIsImported, Sessions, Session
  <2>2. CASE s # task[w]
    BY <1>1, <1>2, <2>2 DEF CommitComplete, TypeOK
  <2>. QED
    BY <2>1, <2>2
<1>3. ASSUME ~\E w \in Workers : CommitComplete(w)
      PROVE  certified' = certified
  BY <1>3 DEF Next, Step, Fault, CreateScan, Enqueue, EnqueueFails, Redeliver, OrphanFinds, OrphanEnds, Deliver,
              LoadScan, CommitRunning, EngineFinds, EngineExits, ImportFile, CommitImport, CommitFailed, PublishFails,
              ImportRaises, FlushFails, CommitFails, Crash, Abandon, history, vars
<1>. QED
  BY <1>1, <1>2, <1>3 DEF CompletedIsImported

-----------------------------------------------------------------------------
(* One delivery *)

\* What is put into the row of a scan is what a session writes to it.
LEMMA WrittenBy ==
  ASSUME TypeOK, NEW w \in Workers, Step(w) \/ Fault(w)
  PROVE  \/ status'[task[w]] = status[task[w]]
         \/ CommitRunning(w) /\ status'[task[w]] = "running"
         \/ pc'[w] = "idle"
<1>. USE DEF At, Goto, broker, session, history
<1>1. CASE CommitRunning(w)
  BY <1>1, WrittenType DEF CommitRunning, TypeOK
<1>2. CASE CommitComplete(w) \/ CommitFailed(w)
  BY <1>2 DEF CommitComplete, CommitFailed, TypeOK
<1>3. CASE LoadScan(w) \/ EngineFinds(w) \/ EngineExits(w) \/ ImportFile(w) \/ CommitImport(w) \/ Fault(w)
  BY <1>3 DEF LoadScan, EngineFinds, EngineExits, ImportFile, CommitImport, Fault, PublishFails, ImportRaises,
              FlushFails, CommitFails, Crash, Abandon
<1>. QED
  BY <1>1, <1>2, <1>3 DEF Step

\* What a session knows of a scan nobody else works on: never that it failed.
LEMMA LoadedBy ==
  ASSUME TypeOK, NEW w \in Workers, Step(w) \/ Fault(w), pc'[w] # "idle",
         status[task[w]] \notin Settled, pc[w] # "load" => loaded[w] \notin Settled
  PROVE  loaded'[w] \notin Settled /\ pc'[w] # "load"
<1>. USE DEF At, Goto, broker, session, history, Settled
<1>1. CASE LoadScan(w)
  BY <1>1 DEF LoadScan, TypeOK, Settled
<1>2. CASE CommitRunning(w)
  <2>1. loaded'[w] = Written(w, "running")[task[w]]
    BY <1>2 DEF CommitRunning, TypeOK
  <2>2. pc'[w] \in {"engine", "failing"}
    BY <1>2 DEF CommitRunning, TypeOK
  <2>. QED
    BY <2>1, <2>2, WrittenType DEF Settled
<1>3. CASE EngineFinds(w)
  BY <1>3 DEF EngineFinds
<1>4. CASE EngineExits(w) \/ ImportFile(w) \/ CommitImport(w)
  BY <1>4 DEF EngineExits, ImportFile, MoreFiles, CommitImport, TypeOK
<1>5. CASE CommitComplete(w) \/ CommitFailed(w)
  BY <1>5 DEF CommitComplete, CommitFailed, TypeOK
<1>6. CASE Fault(w)
  BY <1>6 DEF Fault, PublishFails, ImportRaises, MoreFiles, FlushFails, CommitFails, AtCommit, Crash, Abandon, TypeOK
<1>. QED
  BY <1>1, <1>2, <1>3, <1>4, <1>5, <1>6 DEF Step

LEMMA AloneNext == TypeOK /\ Alone /\ [Next]_vars => Alone'
<1>. SUFFICES ASSUME TypeOK, Alone, [Next]_vars, NEW s \in Scans
              PROVE  Lone(s)'
  BY DEF Alone
<1>0. Lone(s)
  BY DEF Alone
<1>1. ASSUME NEW t \in Scans, CreateScan(t) PROVE Lone(s)'
  BY <1>0, <1>1 DEF CreateScan, Lone, Busy, Settled, TypeOK, broker, session
<1>2. ASSUME NEW t \in Scans, Enqueue(t) \/ EnqueueFails(t) \/ Redeliver(t) \/ OrphanFinds(t) \/ OrphanEnds(t)
      PROVE Lone(s)'
  BY <1>0, <1>2 DEF Enqueue, EnqueueFails, Redeliver, OrphanFinds, OrphanEnds, Lone, Busy, Settled, broker, session
<1>3. ASSUME NEW w \in Workers, NEW t \in Scans, Deliver(w, t) PROVE Lone(s)'
  BY <1>0, <1>3, SMTT(30) DEF Deliver, Lone, Busy, Settled, TypeOK
<1>4. ASSUME NEW w \in Workers, Step(w) \/ Fault(w) PROVE Lone(s)'
  <2>1. Kept(w)
    BY <1>4, WorkerKeeps
  <2>2. CASE s # task[w]
    BY <1>0, <2>1, <2>2 DEF Kept, Lone, Busy
  <2>3. CASE s = task[w]
    <3>1. deliveries' = deliveries /\ Busy(w, s) /\ deliveries[s] # 0
      BY <1>0, <2>1, <2>3 DEF Kept, Busy, Lone
    <3>2. ASSUME deliveries[s] <= 1, NEW v \in Workers, Busy(v, s)'
          PROVE  v = w /\ pc'[w] # "idle"
      BY <1>0, <2>1, <3>1, <3>2 DEF Kept, Busy, Lone
    <3>3. ASSUME deliveries[s] <= 1, pc'[w] # "idle"
          PROVE  status'[s] \notin Settled /\ loaded'[w] \notin Settled
      <4>1. status[s] \notin Settled /\ (pc[w] # "load" => loaded[w] \notin Settled)
        BY <1>0, <3>1, <3>3 DEF Lone
      <4>. QED
        BY <1>4, <2>3, <3>3, <4>1, WrittenBy, LoadedBy DEF Settled
    <3>. QED
      BY <3>1, <3>2, <3>3 DEF Lone, Settled
  <2>. QED
    BY <2>2, <2>3
<1>5. CASE UNCHANGED vars
  BY <1>0, <1>5 DEF vars, Lone, Busy, Settled, broker, session
<1>. QED
  BY <1>1, <1>2, <1>3, <1>4, <1>5 DEF Next

\* The one worker of a task that was delivered once.
LEMMA OneWorker ==
  ASSUME TypeOK, Sessions, Sessions', NEW w \in Workers, Lone(task[w]), OneImport(task[w]), deliveries[task[w]] = 1,
         Step(w) \/ Fault(w)
  PROVE  OneImport(task[w])'
<1> DEFINE s == task[w]
<1>. USE DEF At, Goto, broker, session, history, BeforeCommit
<1>1. /\ s \in Scans /\ pc[w] # "idle" /\ UNCHANGED <<deliveries, task>> /\ Busy(w, s)
      /\ \A v \in Workers : Busy(v, s)' => v = w /\ pc'[w] # "idle"
  BY WorkerKeeps DEF Kept, Busy, Lone, TypeOK
<1>2. Session(w) /\ Session(w)' /\ status[s] # "failed"
  BY <1>1 DEF Sessions, Lone, Settled
<1>3. rows[s] \in [Rows -> Nat] /\ pending[w] \in [Rows -> Nat]
  BY <1>1 DEF TypeOK
<1>4. ASSUME LoadScan(w) \/ CommitRunning(w) PROVE OneImport(s)'
  <2>1. /\ pc[w] \in {"load", "started"} /\ pc'[w] \notin {"import", "completing"} /\ UNCHANGED <<rows, outdir, orphans>>
    BY <1>4 DEF LoadScan, CommitRunning, TypeOK
  <2>2. rows[s] = NoRows /\ s \notin orphans
    BY <1>1, <2>1 DEF OneImport
  <2>. QED
    BY <1>1, <2>1, <2>2 DEF OneImport
<1>5. ASSUME EngineFinds(w) \/ EngineExits(w) \/ PublishFails(w) PROVE OneImport(s)'
  <2>1. pc[w] = "engine" /\ rows' = rows
    BY <1>5 DEF EngineFinds, EngineExits, PublishFails
  <2>2. rows[s] = NoRows /\ s \notin orphans /\ pending[w] = NoRows
    BY <1>1, <1>2, <2>1 DEF OneImport, Session
  <2>3. \/ pc'[w] = "engine" /\ orphans' = orphans
        \/ pc'[w] \in {"failing", "import"} /\ orphans' = orphans /\ found'[w] = outdir'[s]
        \/ pc'[w] = "failing" /\ pending' = pending
    BY <1>5, <2>1 DEF EngineFinds, EngineExits, PublishFails, TypeOK
  <2>. QED
    BY <1>1, <2>1, <2>2, <2>3 DEF OneImport
<1>6. ASSUME ImportFile(w) \/ ImportRaises(w) PROVE OneImport(s)'
  <2>1. pc[w] = "import" /\ pc'[w] \in {"import", "failing"} /\ UNCHANGED <<rows, outdir, orphans, found>>
    BY <1>6 DEF ImportFile, ImportRaises, MoreFiles, TypeOK
  <2>2. rows[s] = NoRows /\ s \notin orphans
    BY <1>1, <2>1 DEF OneImport
  <2>. QED
    BY <1>1, <2>1, <2>2 DEF OneImport
<1>7. ASSUME CommitImport(w) PROVE OneImport(s)'
  <2>1. pc[w] = "import" /\ pc'[w] = "completing" /\ UNCHANGED <<outdir, orphans, found>>
    BY <1>7 DEF CommitImport, TypeOK
  <2>2. s \notin orphans /\ found'[w] = outdir'[s]
    BY <1>1, <2>1 DEF OneImport
  <2>3. \A r \in found'[w] : rows'[s][r] > 0
    BY <1>1, <1>2, <2>1 DEF Session
  <2>. QED
    BY <1>1, <2>1, <2>2, <2>3 DEF OneImport
<1>8. ASSUME CommitComplete(w) PROVE OneImport(s)'
  <2>1. pc[w] = "completing" /\ pc'[w] = "idle" /\ UNCHANGED <<rows, outdir, orphans>>
    BY <1>8 DEF CommitComplete, TypeOK
  <2>2. s \notin orphans
    BY <1>1, <2>1 DEF OneImport
  <2>. QED
    BY <1>1, <1>2, <2>1, <2>2 DEF OneImport
<1>9. ASSUME CommitFailed(w) PROVE OneImport(s)'
  <2>1. /\ pc[w] = "failing" /\ pc'[w] = "idle" /\ UNCHANGED <<outdir, orphans>>
        /\ status' = Written(w, "failed") /\ rows'[s] = Sum(rows[s], pending[w])
    BY <1>1, <1>9 DEF CommitFailed, Commit, TypeOK
  <2>2. status'[s] = "failed"
    BY <1>1, <2>1, WrittenType DEF Lone, Settled
  <2>3. s \in orphans => rows'[s] = NoRows
    BY <1>1, <1>3, <2>1, SumNoRows DEF OneImport
  <2>. QED
    BY <1>1, <2>1, <2>2, <2>3 DEF OneImport
<1>10. ASSUME FlushFails(w) \/ CommitFails(w) \/ Crash(w) PROVE OneImport(s)'
  <2>1. /\ UNCHANGED <<rows, outdir, status>>
        /\ pc'[w] = "idle" \/ (pc'[w] = "failing" /\ pending'[w] = NoRows)
        /\ orphans' = orphans \/ (pc[w] = "engine" /\ pc'[w] = "idle")
    BY <1>10 DEF FlushFails, CommitFails, Crash, Abandon, TypeOK
  <2>2. rows[s] = NoRows \/ \A r \in outdir[s] : rows[s][r] > 0
    BY <1>2 DEF OneImport
  <2>3. s \in orphans' => rows[s] = NoRows
    BY <1>1, <2>1 DEF OneImport
  <2>. QED
    BY <1>1, <2>1, <2>2, <2>3 DEF OneImport
<1>. QED
  BY <1>4, <1>5, <1>6, <1>7, <1>8, <1>9, <1>10 DEF Step, Fault

LEMMA WholeNext ==
  TypeOK /\ TypeOK' /\ Handed /\ Sessions /\ Sessions' /\ Alone /\ Whole /\ [Next]_vars => Whole'
<1>. SUFFICES ASSUME TypeOK, TypeOK', Handed, Sessions, Sessions', Alone, Whole, [Next]_vars,
                     NEW s \in Scans, deliveries'[s] = 1
              PROVE  OneImport(s)'
  BY DEF Whole
<1>1. ASSUME NEW t \in Scans, CreateScan(t) PROVE OneImport(s)'
  <2>1. status[t] = "absent" /\ OneImport(s)
    BY <1>1 DEF CreateScan, Handed, Whole, broker
  <2>. QED
    BY <1>1, <2>1 DEF CreateScan, OneImport, Busy, broker, session, history, TypeOK
<1>2. ASSUME NEW t \in Scans, Enqueue(t) \/ EnqueueFails(t) \/ Redeliver(t) \/ OrphanEnds(t) PROVE OneImport(s)'
  BY <1>2 DEF Enqueue, EnqueueFails, Redeliver, OrphanEnds, Whole, OneImport, Busy, broker, session, history
<1>3. ASSUME NEW t \in Scans, OrphanFinds(t) PROVE OneImport(s)'
  <2>1. OneImport(s) /\ UNCHANGED <<status, rows, orphans, session, found>>
    BY <1>3 DEF OrphanFinds, Whole, broker, history
  <2>2. CASE s = t
    BY <1>3, <2>1, <2>2 DEF OrphanFinds, OneImport, Busy, session
  <2>3. CASE s # t
    BY <1>3, <2>1, <2>3 DEF OrphanFinds, OneImport, Busy, session, TypeOK
  <2>. QED
    BY <2>2, <2>3
<1>4. ASSUME NEW w \in Workers, NEW t \in Scans, Deliver(w, t) PROVE OneImport(s)'
  <2>1. CASE s = t
    <3>1. deliveries[s] = 0
      BY <1>4, <2>1, SMTT(30) DEF Deliver, TypeOK
    <3>2. rows[s] = NoRows /\ s \notin orphans /\ \A v \in Workers : ~Busy(v, s)
      BY <3>1 DEF Alone, Lone
    <3>. QED
      BY <1>4, <2>1, <3>2 DEF Deliver, OneImport, Busy, TypeOK
  <2>2. CASE s # t
    BY <1>4, <2>2 DEF Deliver, Whole, OneImport, Busy, TypeOK, history
  <2>. QED
    BY <2>1, <2>2
<1>5. ASSUME NEW w \in Workers, Step(w) \/ Fault(w) PROVE OneImport(s)'
  <2>1. Kept(w) /\ deliveries[s] = 1 /\ task'[w] = task[w]
    BY <1>5, WorkerKeeps DEF Kept
  <2>2. CASE s # task[w]
    BY <2>1, <2>2 DEF Kept, Whole, OneImport, Busy
  <2>3. CASE s = task[w]
    BY <1>5, <2>1, <2>3, OneWorker DEF Alone, Whole
  <2>. QED
    BY <2>2, <2>3
<1>6. CASE UNCHANGED vars
  BY <1>6 DEF vars, Whole, OneImport, Busy, broker, session, history
<1>. QED
  BY <1>1, <1>2, <1>3, <1>4, <1>5, <1>6 DEF Next

-----------------------------------------------------------------------------
(* However often a task is delivered *)

LEMMA UnspentCount ==
  ASSUME NEW s
  PROVE  IsFiniteSet(Unspent(s)) /\ Cardinality(Unspent(s)) \in Nat
<1>1. Unspent(s) \subseteq Workers
  BY DEF Unspent
<1>. QED
  BY <1>1, WorkersAssumption, FS_Subset, FS_CardinalityType

\* What adds no row to a scan and gives nobody the right to.
LEMMA Spends ==
  ASSUME TypeOK, NEW s \in Scans, Covered(s), UNCHANGED deliveries, rows'[s] = rows[s], Unspent(s)' \subseteq Unspent(s)
  PROVE  Covered(s)'
<1>1. IsFiniteSet(Unspent(s)) /\ Cardinality(Unspent(s)) \in Nat
  BY UnspentCount
<1>2. Cardinality(Unspent(s)') \in Nat /\ Cardinality(Unspent(s)') <= Cardinality(Unspent(s))
  BY <1>1, FS_Subset, FS_CardinalityType
<1>. QED
  BY <1>1, <1>2 DEF Covered, TypeOK

\* A commit takes the right of its worker with the rows it adds.
LEMMA Commits ==
  ASSUME TypeOK, NEW w \in Workers, Session(w), Covered(task[w]), UNCHANGED <<deliveries, task>>, Commit(w),
         pc[w] \in {"import", "failing"}, pc' = [pc EXCEPT ![w] = pc'[w]], pc'[w] \in {"idle", "completing"}
  PROVE  Covered(task[w])'
<1> DEFINE s == task[w]
           n == Cardinality(Unspent(s))
           m == Cardinality(Unspent(s)')
<1>1. /\ s \in Scans /\ rows[s] \in [Rows -> Nat] /\ pending[w] \in [Rows -> Nat] /\ deliveries[s] \in Nat
      /\ rows'[s] = Sum(rows[s], pending[w])
  BY DEF Commit, TypeOK
<1>2. Unspent(s)' = Unspent(s) \ {w}
  BY <1>1 DEF Unspent, MayAdd, BeforeCommit, Commit, TypeOK
<1>3. IsFiniteSet(Unspent(s)) /\ n \in Nat
  BY UnspentCount
<1>4. m \in Nat /\ (w \in Unspent(s) => m = n - 1) /\ (w \notin Unspent(s) => m = n)
  <2>1. m \in Nat
    BY <1>2, <1>3, FS_Subset, FS_CardinalityType
  <2>2. ASSUME w \in Unspent(s) PROVE m = n - 1
    BY <1>2, <1>3, <2>2, FS_RemoveElement
  <2>3. ASSUME w \notin Unspent(s) PROVE m = n
    <3>1. Unspent(s)' = Unspent(s)
      BY <1>2, <2>3
    <3>. QED
      BY <3>1
  <2>. QED
    BY <2>1, <2>2, <2>3
<1>5. CASE w \in Unspent(s)
  <2>1. \A r \in Rows : rows'[s][r] <= rows[s][r] + 1 /\ rows'[s][r] \in Nat /\ rows[s][r] \in Nat
    BY <1>1, SumNat DEF Session
  <2>. QED
    BY <1>1, <1>3, <1>4, <1>5, <2>1 DEF Covered
<1>6. CASE w \notin Unspent(s)
  <2>1. pending[w] = NoRows
    BY <1>6 DEF Unspent, MayAdd, BeforeCommit
  <2>2. rows'[s] = rows[s]
    BY <1>1, <2>1, SumNoRows
  <2>. QED
    BY <1>1, <1>3, <1>4, <1>6, <2>2 DEF Covered
<1>. QED
  BY <1>5, <1>6

LEMMA BoundedNext ==
  TypeOK /\ Sessions /\ Bounded /\ [Next]_vars => Bounded'
<1>. SUFFICES ASSUME TypeOK, Sessions, Bounded, [Next]_vars, NEW s \in Scans
              PROVE  Covered(s)'
  BY DEF Bounded
<1>0. Covered(s)
  BY DEF Bounded
<1>1. ASSUME NEW t \in Scans, CreateScan(t) \/ Enqueue(t) \/ EnqueueFails(t) \/ Redeliver(t)
                                 \/ OrphanFinds(t) \/ OrphanEnds(t)
      PROVE  Covered(s)'
  BY <1>0, <1>1, Spends DEF CreateScan, Enqueue, EnqueueFails, Redeliver, OrphanFinds, OrphanEnds,
                            Unspent, MayAdd, broker, session
<1>2. ASSUME NEW w \in Workers, NEW t \in Scans, Deliver(w, t) PROVE Covered(s)'
  <2>1. CASE s # t
    <3>1. Unspent(s)' \subseteq Unspent(s) /\ rows' = rows /\ deliveries'[s] = deliveries[s]
      BY <1>2, <2>1 DEF Deliver, Unspent, MayAdd, BeforeCommit, TypeOK
    <3>2. IsFiniteSet(Unspent(s)) /\ Cardinality(Unspent(s)) \in Nat
      BY UnspentCount
    <3>3. Cardinality(Unspent(s)') \in Nat /\ Cardinality(Unspent(s)') <= Cardinality(Unspent(s))
      BY <3>1, <3>2, FS_Subset, FS_CardinalityType
    <3>. QED
      BY <1>0, <3>1, <3>2, <3>3, SMTT(30) DEF Covered, TypeOK
  <2>2. CASE s = t
    <3>1. Unspent(s)' = Unspent(s) \cup {w} /\ w \notin Unspent(s) /\ rows' = rows /\ deliveries'[s] = deliveries[s] + 1
      BY <1>2, <2>2 DEF Deliver, Unspent, MayAdd, BeforeCommit, TypeOK
    <3>2. IsFiniteSet(Unspent(s)) /\ Cardinality(Unspent(s)) \in Nat
      BY UnspentCount
    <3>3. Cardinality(Unspent(s)') = Cardinality(Unspent(s)) + 1
      BY <3>1, <3>2, FS_AddElement
    <3>. QED
      BY <1>0, <3>1, <3>2, <3>3, SMTT(30) DEF Covered, TypeOK
  <2>. QED
    BY <2>1, <2>2
<1>3. ASSUME NEW w \in Workers, Step(w) \/ Fault(w) PROVE Covered(s)'
  <2>. USE DEF At, Goto, broker, session, history
  <2>1. Kept(w) /\ Session(w)
    BY <1>3, WorkerKeeps DEF Sessions
  <2>2. CASE s # task[w]
    <3>1. Unspent(s)' = Unspent(s) /\ rows'[s] = rows[s] /\ UNCHANGED deliveries
      BY <2>1, <2>2 DEF Kept, Unspent, MayAdd
    <3>. QED
      BY <1>0, <3>1, Spends
  <2>3. CASE s = task[w] /\ (CommitImport(w) \/ CommitFailed(w))
    <3>1. /\ Commit(w) /\ UNCHANGED <<deliveries, task>> /\ pc[w] \in {"import", "failing"}
          /\ pc' = [pc EXCEPT ![w] = pc'[w]] /\ pc'[w] \in {"idle", "completing"}
      BY <2>3 DEF CommitImport, CommitFailed, TypeOK
    <3>. QED
      BY <1>0, <2>1, <2>3, <3>1, Commits
  <2>4. CASE s = task[w] /\ ~(CommitImport(w) \/ CommitFailed(w))
    <3>1. rows' = rows /\ UNCHANGED <<deliveries, task>>
      BY <1>3, <2>4 DEF Step, Fault, LoadScan, CommitRunning, EngineFinds, EngineExits, ImportFile, CommitComplete,
                        PublishFails, ImportRaises, FlushFails, CommitFails, Crash, Abandon
    <3>2. MayAdd(w, s)' => MayAdd(w, s)
      <4>1. ASSUME LoadScan(w) \/ CommitRunning(w) \/ EngineFinds(w) \/ EngineExits(w) \/ ImportFile(w)
                     \/ PublishFails(w) \/ ImportRaises(w)
            PROVE  MayAdd(w, s)
        BY <2>4, <4>1 DEF LoadScan, CommitRunning, EngineFinds, EngineExits, ImportFile, PublishFails, ImportRaises,
                          MoreFiles, MayAdd, BeforeCommit
      <4>2. ASSUME CommitComplete(w) \/ FlushFails(w) \/ CommitFails(w) \/ Crash(w)
            PROVE  pc'[w] = "idle" \/ (pc'[w] = "failing" /\ pending'[w] = NoRows)
        BY <4>2 DEF CommitComplete, FlushFails, CommitFails, Crash, Abandon, TypeOK
      <4>. QED
        BY <1>3, <2>4, <4>1, <4>2 DEF Step, Fault, MayAdd, BeforeCommit
    <3>3. Unspent(s)' \subseteq Unspent(s)
      BY <2>1, <3>2 DEF Kept, Unspent, MayAdd
    <3>. QED
      BY <1>0, <3>1, <3>3, Spends
  <2>. QED
    BY <2>2, <2>3, <2>4
<1>4. CASE UNCHANGED vars
  BY <1>0, <1>4, Spends DEF vars, Unspent, MayAdd, broker, session
<1>. QED
  BY <1>1, <1>2, <1>3, <1>4 DEF Next

-----------------------------------------------------------------------------
(* What a task completed with *)

LEMMA FromEngineNext ==
  TypeOK /\ TypeOK' /\ Sessions /\ FromEngine /\ [Next]_vars => FromEngine'
<1>. SUFFICES ASSUME TypeOK, TypeOK', Sessions, FromEngine, [Next]_vars, NEW s \in Scans, NEW r \in Rows, rows'[s][r] > 0
              PROVE  r \in outdir'[s]
  BY DEF FromEngine
<1>1. outdir[s] \subseteq outdir'[s]
  BY ScanGrows DEF Grows
<1>2. ASSUME NEW w \in Workers, CommitImport(w) \/ CommitFailed(w) PROVE r \in outdir[s]
  <2>1. Commit(w) /\ Session(w) /\ task[w] \in Scans
    BY <1>2 DEF CommitImport, CommitFailed, Sessions, TypeOK
  <2>2. CASE s = task[w]
    <3>1. rows[s] \in [Rows -> Nat] /\ pending[w] \in [Rows -> Nat] /\ rows'[s] = Sum(rows[s], pending[w])
      BY <2>1, <2>2 DEF Commit, TypeOK
    <3>2. rows[s][r] > 0 \/ pending[w][r] > 0
      BY <3>1, SumNat
    <3>. QED
      BY <2>1, <2>2, <3>2 DEF Session, FromEngine
  <2>3. CASE s # task[w]
    BY <2>1, <2>3 DEF Commit, FromEngine, TypeOK
  <2>. QED
    BY <2>2, <2>3
<1>3. ASSUME ~\E w \in Workers : CommitImport(w) \/ CommitFailed(w) PROVE rows' = rows
  BY <1>3 DEF Next, Step, Fault, CreateScan, Enqueue, EnqueueFails, Redeliver, OrphanFinds, OrphanEnds, Deliver,
              LoadScan, CommitRunning, EngineFinds, EngineExits, ImportFile, CommitComplete, PublishFails,
              ImportRaises, FlushFails, CommitFails, Crash, Abandon, vars
<1>. QED
  BY <1>1, <1>2, <1>3 DEF FromEngine

LEMMA CountedNext ==
  TypeOK /\ Handed /\ Sessions /\ Alone /\ Whole /\ FromEngine /\ Counted /\ [Next]_vars => Counted'
<1>. SUFFICES ASSUME TypeOK, Handed, Sessions, Alone, Whole, FromEngine, Counted, [Next]_vars, NEW s \in Scans, deliveries'[s] <= 1
              PROVE  Complete(s)'
  BY DEF Counted
<1>1. ASSUME NEW t \in Scans, CreateScan(t) PROVE Complete(s)'
  <2>1. status[t] = "absent" /\ Complete(s)
    BY <1>1 DEF CreateScan, Handed, Counted, broker
  <2>. QED
    BY <1>1, <2>1 DEF CreateScan, Complete, history, TypeOK
<1>2. ASSUME NEW t \in Scans, Enqueue(t) \/ EnqueueFails(t) \/ Redeliver(t) \/ OrphanFinds(t) \/ OrphanEnds(t)
      PROVE  Complete(s)'
  BY <1>2 DEF Enqueue, EnqueueFails, Redeliver, OrphanFinds, OrphanEnds, Counted, Complete, broker, history
<1>3. ASSUME NEW w \in Workers, NEW t \in Scans, Deliver(w, t) PROVE Complete(s)'
  <2>1. deliveries[s] <= 1
    BY <1>3 DEF Deliver, TypeOK
  <2>. QED
    BY <1>3, <2>1 DEF Deliver, Counted, Complete, history
<1>4. ASSUME NEW w \in Workers, Step(w) \/ Fault(w) PROVE Complete(s)'
  <2>1. Kept(w) /\ deliveries[s] <= 1 /\ Complete(s)
    BY <1>4, WorkerKeeps DEF Kept, Counted
  <2>2. CASE s # task[w]
    BY <2>1, <2>2 DEF Kept, Complete
  <2>3. CASE s = task[w]
    <3>1. Busy(w, s) /\ status[s] \notin Settled /\ deliveries[s] = 1 /\ certified[s] = {}
      BY <2>1, <2>3 DEF Kept, Busy, Alone, Lone, Complete, Settled, TypeOK
    <3>2. CASE CommitComplete(w)
      <4>1. /\ pc[w] = "completing" /\ rows' = rows /\ certified'[s] = found[w] /\ loaded[w] \notin Settled
            /\ status' = Written(w, "complete")
        BY <2>3, <3>1, <3>2 DEF CommitComplete, At, Alone, Lone, TypeOK
      <4>2. status'[s] = "complete"
        BY <2>3, <4>1, WrittenType DEF Settled
      <4>3. found[w] = outdir[s] /\ \A r \in found[w] : rows[s][r] > 0
        BY <2>3, <3>1, <4>1 DEF Whole, OneImport, Sessions, Session
      <4>. QED
        BY <4>1, <4>2, <4>3 DEF FromEngine, Complete
    <3>3. CASE ~CommitComplete(w)
      <4>1. certified' = certified /\ status'[s] # "complete"
        <5>1. CASE CommitRunning(w)
          BY <2>3, <3>1, <5>1, WrittenType DEF CommitRunning, history, Settled
        <5>2. CASE CommitFailed(w)
          BY <2>3, <3>1, <5>2, WrittenType DEF CommitFailed, history, Settled
        <5>3. CASE LoadScan(w) \/ EngineFinds(w) \/ EngineExits(w) \/ ImportFile(w) \/ CommitImport(w) \/ Fault(w)
          BY <3>1, <5>3 DEF LoadScan, EngineFinds, EngineExits, ImportFile, CommitImport, Fault, PublishFails,
                            ImportRaises, FlushFails, CommitFails, Crash, Abandon, history, Settled
        <5>. QED
          BY <1>4, <3>3, <5>1, <5>2, <5>3 DEF Step
      <4>. QED
        BY <3>1, <4>1 DEF Complete
    <3>. QED
      BY <3>2, <3>3
  <2>. QED
    BY <2>2, <2>3
<1>5. CASE UNCHANGED vars
  BY <1>5 DEF vars, Counted, Complete, broker, history
<1>. QED
  BY <1>1, <1>2, <1>3, <1>4, <1>5 DEF Next

-----------------------------------------------------------------------------
(* The theorems *)

Inv ==
  /\ TypeOK /\ Handed /\ Sessions /\ Alone /\ Whole /\ Bounded
  /\ CompletedIsImported /\ FromEngine /\ Counted

LEMMA InvInit == Init => Inv
<1>. SUFFICES ASSUME Init PROVE Inv
  OBVIOUS
<1>1. TypeOK /\ Handed
  BY InitTyping
<1>2. Sessions
  BY NoRowsNat DEF Init, Sessions, Session
<1>3. Alone
  BY DEF Init, Alone, Lone, Busy, Settled
<1>4. Whole
  BY DEF Init, Whole
<1>5. Bounded
  <2>1. \A s \in Scans : Unspent(s) = {}
    BY DEF Init, Unspent, MayAdd, BeforeCommit
  <2>2. \A t \in Scans : \A r \in Rows : rows[t][r] = 0 /\ deliveries[t] = 0
    BY NoRowsNat DEF Init
  <2>3. \A t \in Scans : Cardinality(Unspent(t)) = 0
    BY <2>1, FS_EmptySet
  <2>. QED
    BY <2>2, <2>3 DEF Bounded, Covered
<1>6. CompletedIsImported
  BY DEF Init, CompletedIsImported
<1>7. FromEngine /\ Counted
  BY NoRowsNat DEF Init, FromEngine, Counted, Complete
<1>. QED
  BY <1>1, <1>2, <1>3, <1>4, <1>5, <1>6, <1>7 DEF Inv

LEMMA InvNext == Inv /\ [Next]_vars => Inv'
  BY TypeNext, HandedNext, SessionsNext, AloneNext, WholeNext, BoundedNext, CompletedNext,
     FromEngineNext, CountedNext DEF Inv

\* The invariant holds of the service, with any scans, workers, files and deliveries.
THEOREM ServiceInvariant == Spec => []Inv
  BY InvInit, InvNext, PTL DEF Spec

\* The variables of the service have their types.
THEOREM ServiceTyping == Spec => []TypeOK
  BY ServiceInvariant, PTL DEF Inv

\* run_scan_task and import_results: as long as its task was delivered once, a scan's
\* features and alerts are all visible to the API or none of them, whatever fails.
THEOREM ImportIsWhole == Spec => []NoPartialResults
<1>1. Inv => NoPartialResults
  <2>. SUFFICES ASSUME Inv, NEW s \in Scans, deliveries[s] <= 1, status[s] # "failed", rows[s] # NoRows
                PROVE  \A r \in outdir[s] : rows[s][r] > 0
    BY DEF NoPartialResults
  <2>1. deliveries[s] = 1
    BY DEF Inv, TypeOK, Alone, Lone
  <2>. QED
    BY <2>1 DEF Inv, Whole, OneImport
<1>. QED
  BY <1>1, ServiceInvariant, PTL

\* A task that completed has put into the database what its engine had found, however
\* many other deliveries of it ran at once.
THEOREM CompletedMeansImported == Spec => []CompletedIsImported
  BY ServiceInvariant, PTL DEF Inv

\* A row is imported at most once for each delivery: no failure and no retry doubles it.
THEOREM RowsAreBounded == Spec => []RowsBoundedByDeliveries
<1>1. Inv => RowsBoundedByDeliveries
  BY UnspentCount DEF Inv, TypeOK, Bounded, Covered, RowsBoundedByDeliveries
<1>. QED
  BY <1>1, ServiceInvariant, PTL

\* A scan that is complete or failed keeps its status, unless the broker delivered its
\* task a second time.
THEOREM SettledStays == Spec => SettledUnlessRedelivered
<1>1. ASSUME Inv, [Next]_vars, NEW s \in Scans, status[s] \in Settled, status'[s] # status[s]
      PROVE  deliveries[s] > 1
  <2>. SUFFICES ASSUME deliveries[s] <= 1 PROVE FALSE
    BY <1>1 DEF Inv, TypeOK
  <2>1. TypeOK /\ Lone(s) /\ (request[s] = "none" => status[s] = "absent")
    BY <1>1 DEF Inv, Alone, Handed
  <2>2. ASSUME NEW t \in Scans, CreateScan(t) PROVE FALSE
    BY <1>1, <2>1, <2>2 DEF CreateScan, TypeOK, Settled
  <2>3. ASSUME NEW w \in Workers, Step(w) \/ Fault(w) PROVE FALSE
    BY <1>1, <2>1, <2>3, WorkerKeeps DEF Kept, Lone, Busy
  <2>4. ASSUME NEW t \in Scans, Enqueue(t) \/ EnqueueFails(t) \/ Redeliver(t) \/ OrphanFinds(t) \/ OrphanEnds(t)
                                   \/ \E w \in Workers : Deliver(w, t)
        PROVE  FALSE
    BY <1>1, <2>4 DEF Enqueue, EnqueueFails, Redeliver, OrphanFinds, OrphanEnds, Deliver
  <2>. QED
    BY <1>1, <2>2, <2>3, <2>4 DEF Next, vars
<1>2. Inv /\ [Next]_vars =>
        [\A s \in Scans : status[s] \in Settled /\ status'[s] # status[s] => deliveries[s] > 1]_vars
  BY <1>1
<1>. QED
  BY <1>2, ServiceInvariant, PTL DEF Spec, SettledUnlessRedelivered

-----------------------------------------------------------------------------
(* Proofs about the page of a scan next to the service: whatever is asked, *)
(* answered late, given up or lost, and whatever fails.                    *)

-----------------------------------------------------------------------------
(* The inductive invariant *)

\* The first request is made once, when the page opens.
AskedOnce ==
  /\ scan.by = "first" => request_for["first"] = "idle"
  /\ ~opened => request_for["first"] = "idle" /\ scan.by = "poll"

\* Nothing is on its way, or shown, that the scan has not reached.
Behind ==
  /\ Rank[scan.status] <= Rank[status[Viewed]]
  /\ \A a \in Asker : request_for[a] \in Answers => Rank[request_for[a]] <= Rank[status[Viewed]]
  /\ scan.by = "poll" /\ request_for["poll"] \in Answers => Rank[scan.status] <= Rank[request_for["poll"]]

\* 100 % is not published before the engine has ended.
EngineEnded ==
  /\ deliveries[Viewed] = 0 => progressPct # "done"
  /\ progressPct = "done" =>
       Viewed \notin orphans /\ \A w \in Workers : task[w] = Viewed => pc[w] \notin {"load", "started", "engine"}

\* The totals are asked for once the scan is complete, and are what its task completed with.
Total == Cardinality(certified[Viewed] \cap FeatureRows)
CountedComplete ==
  /\ \A a \in Asker :
       /\ request_for[a] = "complete" \/ totals_for[a] = Asked => status[Viewed] = "complete"
       /\ totals_for[a] \in Nat => status[Viewed] = "complete" /\ totals_for[a] = Total
  /\ summary # -1 => status[Viewed] = "complete" /\ summary = Total

OneDelivery == deliveries[Viewed] <= 1 => Behind /\ EngineEnded /\ CountedComplete

PageInv == Inv /\ PageTypeOK /\ AskedOnce /\ OneDelivery

-----------------------------------------------------------------------------
(* Counting rows *)

LEMMA RanksOfStatus ==
  /\ Rank["none"] = 0 /\ Rank["absent"] = 1 /\ Rank["queued"] = 2
  /\ Rank["running"] = 3 /\ Rank["complete"] = 4 /\ Rank["failed"] = 4
  BY DEF Rank

LEMMA RowsFinite == IsFiniteSet(Rows)
<1> DEFINE All == {Files[i] : i \in DOMAIN Files}
           at == [i \in 1 .. Len(Files) |-> Files[i]]
<1>1. IsFiniteSet(1 .. Len(Files))
  BY FilesInOrder, FS_Interval
<1>2. at \in Surjection(1 .. Len(Files), All)
  BY FilesInOrder DEF Surjection
<1>3. IsFiniteSet(All)
  BY <1>1, <1>2, FS_Surjection
<1>4. \A T \in All : IsFiniteSet(T)
  BY FilesAssumption
<1>. QED
  BY <1>3, <1>4, FS_UNION DEF Rows

\* The number of features is a number.
LEMMA TotalIsNat == TypeOK => TotalRows \in Nat
<1>. SUFFICES ASSUME TypeOK PROVE TotalRows \in Nat
  OBVIOUS
<1> DEFINE Copies(r) == {r} \X (1 .. rows[Viewed][r])
           All == {Copies(r) : r \in FeatureRows}
           of == [r \in FeatureRows |-> Copies(r)]
<1>0. FeatureRows \subseteq Rows /\ IsFiniteSet(FeatureRows)
  BY RowsFinite, FS_Subset, PageAssumption
<1>1. \A r \in FeatureRows : IsFiniteSet(Copies(r))
  <2>1. \A r \in FeatureRows : rows[Viewed][r] \in Nat
    BY <1>0, PageAssumption DEF TypeOK
  <2>2. \A r \in FeatureRows : IsFiniteSet(1 .. rows[Viewed][r])
    BY <2>1, FS_Interval, SMTT(60)
  <2>3. \A r \in FeatureRows : IsFiniteSet({r})
    BY FS_Singleton
  <2>. QED
    BY <2>2, <2>3, FS_Product
<1>2. IsFiniteSet(All)
  <2>1. of \in Surjection(FeatureRows, All)
    BY DEF Surjection
  <2>. QED
    BY <1>0, <2>1, FS_Surjection
<1>3. IsFiniteSet(UNION All)
  BY <1>1, <1>2, FS_UNION
<1>. QED
  BY <1>3, FS_CardinalityType DEF TotalRows

\* Of a scan that completed with one delivery each feature is counted once.
LEMMA TotalOfComplete ==
  Inv /\ deliveries[Viewed] <= 1 /\ status[Viewed] = "complete" => TotalRows = Total
<1>. SUFFICES ASSUME Inv, deliveries[Viewed] <= 1, status[Viewed] = "complete"
              PROVE  TotalRows = Total
  OBVIOUS
<1> DEFINE C == certified[Viewed] \cap FeatureRows
           All == UNION {{r} \X (1 .. rows[Viewed][r]) : r \in FeatureRows}
           once == [r \in C |-> <<r, 1>>]
<1>1. /\ C \subseteq FeatureRows /\ IsFiniteSet(C)
      /\ \A r \in FeatureRows : rows[Viewed][r] \in Nat /\ rows[Viewed][r] <= 1 /\ (rows[Viewed][r] > 0 <=> r \in C)
  <2>1. certified[Viewed] \subseteq Rows /\ FeatureRows \subseteq Rows /\ \A r \in Rows : rows[Viewed][r] \in Nat
    BY PageAssumption DEF Inv, TypeOK
  <2>2. \A r \in Rows : rows[Viewed][r] <= 1
    BY <2>1, UnspentCount, PageAssumption DEF Inv, TypeOK, Bounded, Covered
  <2>. QED
    BY <2>1, <2>2, RowsFinite, FS_Subset, PageAssumption DEF Inv, Counted, Complete
<1>2. \A r \in FeatureRows : 1 .. rows[Viewed][r] = IF r \in C THEN {1} ELSE {}
  <2>1. \A r \in FeatureRows : rows[Viewed][r] = IF r \in C THEN 1 ELSE 0
    BY <1>1
  <2>2. 1 .. 1 = {1} /\ 1 .. 0 = {}
    OBVIOUS
  <2>. QED
    BY <2>1, <2>2
<1>3. All = {<<r, 1>> : r \in C}
  BY <1>1, <1>2
<1>4. once \in Surjection(C, All)
  BY <1>3 DEF Surjection
<1>5. once \in Injection(C, All)
  <2>1. \A q, r \in C : once[q] = once[r] => q = r
    OBVIOUS
  <2>2. once \in [C -> All]
    BY <1>4 DEF Surjection
  <2>. QED
    BY <2>1, <2>2 DEF Injection, IsInjective
<1>6. Cardinality(C) = Cardinality(All)
  BY <1>1, <1>4, <1>5, FS_Surjection
<1>. QED
  BY <1>6 DEF TotalRows, Total

-----------------------------------------------------------------------------
(* Steps *)

LEMMA PageOrService == [PageNext]_page_vars => [Next]_vars
  BY DEF PageNext, PageStep, ServiceStep, Publish, page_vars

LEMMA PageTypeNext == Inv' /\ PageTypeOK /\ [PageNext]_page_vars => PageTypeOK'
<1>. SUFFICES ASSUME Inv', PageTypeOK, [PageNext]_page_vars PROVE PageTypeOK'
  OBVIOUS
<1>0. TypeOK' /\ TypeOK
  BY DEF Inv, PageTypeOK
<1>. USE DEF PageTypeOK, Idle, Asked, Failed, Asker, Answers
<1>1. ASSUME OpenPage \/ Tick PROVE PageTypeOK'
  BY <1>0, <1>1 DEF OpenPage, Tick, Ask
<1>2. ASSUME PollArrives \/ FirstArrives PROVE PageTypeOK'
  BY <1>0, <1>2 DEF PollArrives, FirstArrives, Arrived, loadSummary, startWs
<1>3. ASSUME SocketDrops PROVE PageTypeOK'
  BY <1>0, <1>3 DEF SocketDrops
<1>4. ASSUME NEW a \in Asker, Answer(a) \/ RequestFails(a) PROVE PageTypeOK'
  BY <1>0, <1>4, PageAssumption, SMTT(30) DEF Answer, RequestFails, TypeOK, Settled
<1>5. ASSUME NEW a \in Asker, CountRows(a) PROVE PageTypeOK'
  BY <1>0, <1>5, TotalIsNat DEF CountRows
<1>6. ASSUME NEW a \in Asker, SummaryArrives(a) \/ SummaryFails(a) PROVE PageTypeOK'
  BY <1>0, <1>6 DEF SummaryArrives, SummaryFails
<1>7. ASSUME PageWaits, progressPct' \in {progressPct, "some", "done"} PROVE PageTypeOK'
  BY <1>0, <1>7 DEF PageWaits
<1>8. CASE UNCHANGED page_vars
  BY <1>0, <1>8 DEF page_vars, page
<1>. QED
  BY <1>1, <1>2, <1>3, <1>4, <1>5, <1>6, <1>7, <1>8 DEF PageNext, PageStep, ServiceStep, Publish, Published

LEMMA AskedOnceNext == PageTypeOK /\ AskedOnce /\ [PageNext]_page_vars => AskedOnce'
<1>. SUFFICES ASSUME PageTypeOK, AskedOnce, [PageNext]_page_vars PROVE AskedOnce'
  OBVIOUS
<1>. USE DEF AskedOnce, PageTypeOK, Asker, Answers
<1>1. ASSUME OpenPage \/ Tick PROVE AskedOnce'
  BY <1>1 DEF OpenPage, Tick, Ask
<1>2. ASSUME PollArrives \/ FirstArrives PROVE AskedOnce'
  BY <1>2 DEF PollArrives, FirstArrives, Arrived
<1>3. ASSUME NEW a \in Asker, Answer(a) \/ RequestFails(a) PROVE AskedOnce'
  BY <1>3 DEF Answer, RequestFails
<1>4. ASSUME SocketDrops \/ PageWaits \/ UNCHANGED page_vars
               \/ \E a \in Asker : CountRows(a) \/ SummaryArrives(a) \/ SummaryFails(a)
      PROVE  AskedOnce'
  BY <1>4 DEF SocketDrops, PageWaits, page_vars, page, CountRows, SummaryArrives, SummaryFails
<1>. QED
  BY <1>1, <1>2, <1>3, <1>4 DEF PageNext, PageStep, ServiceStep, Publish

\* With one delivery the status only goes forward, and stands with its rows once complete.
LEMMA StatusForward ==
  ASSUME Inv, [Next]_vars, deliveries'[Viewed] <= 1
  PROVE  /\ deliveries[Viewed] <= 1 /\ deliveries[Viewed] <= deliveries'[Viewed]
         /\ Rank[status[Viewed]] <= Rank[status'[Viewed]]
         /\ status[Viewed] = "complete" => status'[Viewed] = "complete" /\ certified'[Viewed] = certified[Viewed]
<1> DEFINE s == Viewed
           Same == status'[s] = status[s] /\ certified'[s] = certified[s]
           Onward == \/ status[s] = "absent" /\ status'[s] = "queued"
                     \/ status[s] \notin Settled /\ status'[s] \in {status[s], "running", "complete", "failed"}
           Fine == deliveries[s] <= deliveries'[s] /\ (Same \/ Onward)
<1>. USE PageAssumption
<1>1. /\ TypeOK /\ Lone(s) /\ (request[s] = "none" => status[s] = "absent") /\ deliveries[s] \in Nat
      /\ status[s] \in {"absent", "queued", "running", "complete", "failed"}
  BY DEF Inv, Alone, Handed, TypeOK, Settled
<1>2. ASSUME NEW t \in Scans, CreateScan(t)
      PROVE  Fine
  BY <1>1, <1>2 DEF CreateScan, TypeOK, broker, history
<1>3. ASSUME NEW t \in Scans, Enqueue(t) \/ EnqueueFails(t) \/ Redeliver(t) \/ OrphanFinds(t) \/ OrphanEnds(t)
      PROVE  Fine
  BY <1>1, <1>3 DEF Enqueue, EnqueueFails, Redeliver, OrphanFinds, OrphanEnds, broker, history
<1>4. ASSUME NEW w \in Workers, NEW t \in Scans, Deliver(w, t)
      PROVE  Fine
  BY <1>1, <1>4 DEF Deliver, TypeOK, history
<1>5. ASSUME NEW w \in Workers, Step(w) \/ Fault(w), s # task[w]
      PROVE  Fine
  BY <1>1, <1>5, WorkerKeeps DEF Kept
<1>6. ASSUME NEW w \in Workers, Step(w) \/ Fault(w), s = task[w]
      PROVE  Fine
  <2>1. UNCHANGED deliveries /\ Busy(w, s)
    BY <1>1, <1>6, WorkerKeeps DEF Kept, Busy
  <2>2. status'[s] \in {status[s], "running", "complete", "failed"}
    <3>1. CASE CommitRunning(w) \/ CommitComplete(w) \/ CommitFailed(w)
      BY <1>1, <1>6, <3>1, WrittenType DEF CommitRunning, CommitComplete, CommitFailed
    <3>2. CASE ~(CommitRunning(w) \/ CommitComplete(w) \/ CommitFailed(w))
      BY <1>6, <3>2 DEF Step, Fault, LoadScan, EngineFinds, EngineExits, ImportFile, CommitImport, PublishFails,
                        ImportRaises, FlushFails, CommitFails, Crash, Abandon
    <3>. QED
      BY <3>1, <3>2
  <2>. QED
    BY <1>1, <2>1, <2>2 DEF Lone
<1>7. ASSUME UNCHANGED vars PROVE Fine
  BY <1>1, <1>7 DEF vars, broker, history
<1>8. Fine
  BY <1>2, <1>3, <1>4, <1>5, <1>6, <1>7 DEF Next
<1>9. deliveries'[s] \in Nat
  BY TypeNext DEF Inv, TypeOK
<1>10. CASE Onward
  BY <1>1, <1>8, <1>9, <1>10, RanksOfStatus DEF Settled
<1>11. CASE Same
  BY <1>1, <1>8, <1>9, <1>11, RanksOfStatus
<1>. QED
  BY <1>8, <1>10, <1>11

\* ... and once its engine has ended no other is started.
LEMMA EngineStaysEnded ==
  ASSUME Inv, [Next]_vars, deliveries'[Viewed] <= 1, deliveries[Viewed] # 0, Viewed \notin orphans,
         \A w \in Workers : task[w] = Viewed => pc[w] \notin {"load", "started", "engine"}
  PROVE  Viewed \notin orphans' /\ \A w \in Workers : task'[w] = Viewed => pc'[w] \notin {"load", "started", "engine"}
<1>. USE PageAssumption DEF At, Goto
<1>0. TypeOK /\ deliveries[Viewed] \in Nat
  BY DEF Inv, TypeOK
<1>1. ASSUME UNCHANGED <<pc, task>>, orphans' \subseteq orphans
      PROVE  Viewed \notin orphans' /\ \A w \in Workers : task'[w] = Viewed => pc'[w] \notin {"load", "started", "engine"}
  BY <1>1
<1>2. ASSUME NEW t \in Scans, CreateScan(t) \/ Enqueue(t) \/ EnqueueFails(t) \/ Redeliver(t) \/ OrphanFinds(t) \/ OrphanEnds(t)
      PROVE  UNCHANGED <<pc, task>> /\ orphans' \subseteq orphans
  BY <1>2 DEF CreateScan, Enqueue, EnqueueFails, Redeliver, OrphanFinds, OrphanEnds, session
<1>3. ASSUME NEW w \in Workers, NEW t \in Scans, Deliver(w, t)
      PROVE  Viewed \notin orphans' /\ \A v \in Workers : task'[v] = Viewed => pc'[v] \notin {"load", "started", "engine"}
  BY <1>0, <1>3 DEF Deliver, TypeOK
<1>4. ASSUME NEW w \in Workers, Step(w) \/ Fault(w)
      PROVE  Viewed \notin orphans' /\ \A v \in Workers : task'[v] = Viewed => pc'[v] \notin {"load", "started", "engine"}
  <2>1. Kept(w)
    BY <1>0, <1>4, WorkerKeeps
  <2>2. CASE task[w] # Viewed
    BY <2>1, <2>2 DEF Kept
  <2>3. CASE task[w] = Viewed
    <3>1. pc[w] \notin {"load", "started", "engine"}
      BY <2>3
    <3>2. pc'[w] \notin {"load", "started", "engine"} /\ orphans' = orphans
      BY <1>0, <1>4, <3>1 DEF Step, Fault, LoadScan, CommitRunning, EngineFinds, EngineExits, ImportFile, CommitImport,
           CommitComplete, CommitFailed, PublishFails, ImportRaises, MoreFiles, FlushFails, CommitFails, AtCommit,
           Crash, Abandon, TypeOK
    <3>. QED
      BY <2>1, <3>2 DEF Kept
  <2>. QED
    BY <2>2, <2>3
<1>5. CASE UNCHANGED vars
  BY <1>1, <1>5 DEF vars, session
<1>. QED
  BY <1>1, <1>2, <1>3, <1>4, <1>5 DEF Next

-----------------------------------------------------------------------------
(* One delivery *)

LEMMA RankNat == \A x \in Answers \cup {"none"} : Rank[x] \in Nat
  BY RanksOfStatus DEF Answers

LEMMA BehindNext ==
  ASSUME Inv, PageTypeOK, PageTypeOK', AskedOnce, Behind, [PageNext]_page_vars, deliveries'[Viewed] <= 1
  PROVE  Behind'
<1>1. /\ Rank[status[Viewed]] <= Rank[status'[Viewed]]
      /\ status[Viewed] \in Answers /\ status'[Viewed] \in Answers
  BY PageOrService, StatusForward, PageAssumption DEF PageTypeOK, TypeOK, Settled, Answers
<1>2. \A x \in Answers \cup {"none"} : Rank[x] \in Nat
  BY RankNat
<1>3. "idle" \notin Answers /\ "asked" \notin Answers
  BY DEF Answers
<1>. USE DEF Behind, Asker, PageTypeOK
<1>4. ASSUME OpenPage \/ Tick, UNCHANGED vars PROVE Behind'
  BY <1>3, <1>4 DEF OpenPage, Tick, Ask, vars
<1>5. ASSUME NEW a \in Asker, Answer(a) \/ RequestFails(a), UNCHANGED vars PROVE Behind'
  BY <1>1, <1>2, <1>3, <1>5 DEF Answer, RequestFails, vars
<1>6. ASSUME PollArrives \/ FirstArrives, UNCHANGED vars PROVE Behind'
  BY <1>3, <1>6 DEF PollArrives, FirstArrives, Arrived, vars
<1>7. ASSUME UNCHANGED <<request_for, scan>> PROVE Behind'
  <2>1. Rank[scan.status] \in Nat /\ \A a \in Asker : request_for[a] \in Answers => Rank[request_for[a]] \in Nat
    BY <1>2
  <2>2. Rank[status[Viewed]] \in Nat /\ Rank[status'[Viewed]] \in Nat
    BY <1>1, <1>2
  <2>. QED
    BY <1>1, <1>7, <2>1, <2>2
<1>8. ASSUME SocketDrops \/ PageWaits \/ UNCHANGED page_vars
               \/ \E a \in Asker : CountRows(a) \/ SummaryArrives(a) \/ SummaryFails(a)
      PROVE  UNCHANGED <<request_for, scan>>
  BY <1>8 DEF SocketDrops, PageWaits, page_vars, page, CountRows, SummaryArrives, SummaryFails
<1>. QED
  BY <1>4, <1>5, <1>6, <1>7, <1>8 DEF PageNext, PageStep, ServiceStep, Publish

LEMMA EngineEndedNext ==
  ASSUME Inv, PageTypeOK, EngineEnded, [PageNext]_page_vars, deliveries'[Viewed] <= 1
  PROVE  EngineEnded'
<1>. USE PageAssumption
<1>1. /\ [Next]_vars /\ deliveries[Viewed] <= 1 /\ deliveries[Viewed] <= deliveries'[Viewed]
      /\ deliveries[Viewed] \in Nat /\ deliveries'[Viewed] \in Nat
  BY PageOrService, StatusForward, TypeNext, SMTT(30) DEF Inv, TypeOK
<1>2. CASE progressPct' # "done"
  BY <1>2 DEF EngineEnded
<1>3. CASE progressPct' = "done" /\ progressPct = "done"
  <2>1. deliveries[Viewed] # 0 /\ deliveries'[Viewed] # 0
    BY <1>1, <1>3 DEF EngineEnded
  <2>. QED
    BY <1>1, <1>3, <2>1, EngineStaysEnded DEF EngineEnded
<1>4. CASE progressPct' = "done" /\ progressPct # "done"
  <2>1. PICK w \in Workers : task[w] = Viewed /\ EngineExits(w)
    BY <1>4 DEF PageNext, PageStep, ServiceStep, Publish, Published, PageWaits, page_vars, page, OpenPage, Tick,
                PollArrives, FirstArrives, Arrived, SocketDrops, Answer, RequestFails, CountRows, SummaryArrives,
                SummaryFails
  <2>2. /\ pc[w] = "engine" /\ pc' = [pc EXCEPT ![w] = pc'[w]] /\ pc'[w] \in {"import", "failing"}
        /\ UNCHANGED <<deliveries, task, orphans>>
    BY <2>1 DEF EngineExits, At, Goto, broker, Inv, TypeOK
  <2>3. Busy(w, Viewed) /\ deliveries[Viewed] = 1 /\ \A v \in Workers : Busy(v, Viewed) => v = w
    BY <1>1, <2>1, <2>2 DEF Busy, Inv, Alone, Lone
  <2>4. Viewed \notin orphans
    BY <2>2, <2>3 DEF Inv, Whole, OneImport
  <2>5. \A v \in Workers : task'[v] = Viewed => pc'[v] \notin {"load", "started", "engine"}
    BY <2>2, <2>3 DEF Busy, Inv, TypeOK
  <2>. QED
    BY <2>2, <2>3, <2>4, <2>5 DEF EngineEnded
<1>. QED
  BY <1>2, <1>3, <1>4

LEMMA CountedCompleteNext ==
  ASSUME Inv, PageTypeOK, CountedComplete, [PageNext]_page_vars, deliveries'[Viewed] <= 1
  PROVE  CountedComplete'
<1>1. /\ deliveries[Viewed] <= 1
      /\ status[Viewed] = "complete" => status'[Viewed] = "complete" /\ Total' = Total
  BY PageOrService, StatusForward DEF Total
<1>. USE DEF CountedComplete, PageTypeOK, Asker, Asked, Idle, Failed
<1>2. ASSUME OpenPage \/ Tick PROVE CountedComplete'
  BY <1>1, <1>2 DEF OpenPage, Tick, Ask
<1>3. ASSUME NEW a \in Asker, Answer(a) \/ RequestFails(a) PROVE CountedComplete'
  BY <1>1, <1>3 DEF Answer, RequestFails
<1>4. ASSUME PollArrives \/ FirstArrives PROVE CountedComplete'
  BY <1>1, <1>4 DEF PollArrives, FirstArrives, Arrived, loadSummary
<1>5. ASSUME NEW a \in Asker, CountRows(a) PROVE CountedComplete'
  <2>1. totals_for[a] = Asked /\ totals_for' = [totals_for EXCEPT ![a] = TotalRows] /\ UNCHANGED <<request_for, summary>>
    BY <1>5 DEF CountRows
  <2>2. status[Viewed] = "complete"
    BY <2>1
  <2>3. TotalRows = Total /\ TotalRows \in Nat
    BY <1>1, <2>2, TotalOfComplete, TotalIsNat
  <2>. QED
    BY <1>1, <2>1, <2>2, <2>3
<1>6. ASSUME NEW a \in Asker, SummaryArrives(a) \/ SummaryFails(a) PROVE CountedComplete'
  BY <1>1, <1>6 DEF SummaryArrives, SummaryFails
<1>7. ASSUME UNCHANGED <<request_for, totals_for, summary>> PROVE CountedComplete'
  BY <1>1, <1>7
<1>8. ASSUME SocketDrops \/ PageWaits \/ UNCHANGED page_vars PROVE UNCHANGED <<request_for, totals_for, summary>>
  BY <1>8 DEF SocketDrops, PageWaits, page_vars, page
<1>. QED
  BY <1>2, <1>3, <1>4, <1>5, <1>6, <1>7, <1>8 DEF PageNext, PageStep, ServiceStep, Publish

-----------------------------------------------------------------------------
(* The theorems *)

LEMMA PageInvInit == Init /\ PageInit => PageInv
<1>. SUFFICES ASSUME Init, PageInit PROVE PageInv
  OBVIOUS
<1>1. Inv
  BY InvInit
<1>2. PageTypeOK
  BY <1>1 DEF Inv, PageInit, PageTypeOK, Asker, Answers, Idle
<1>3. AskedOnce
  BY DEF PageInit, AskedOnce, Asker
<1>4. Behind
  BY RanksOfStatus, PageAssumption DEF Init, PageInit, Behind, Asker, Answers
<1>5. EngineEnded /\ CountedComplete
  BY DEF PageInit, EngineEnded, CountedComplete, Asker, Idle, Asked
<1>. QED
  BY <1>1, <1>2, <1>3, <1>4, <1>5 DEF PageInv, OneDelivery

LEMMA PageInvNext == PageInv /\ [PageNext]_page_vars => PageInv'
<1>. SUFFICES ASSUME PageInv, [PageNext]_page_vars PROVE PageInv'
  OBVIOUS
<1>1. Inv'
  BY PageOrService, InvNext DEF PageInv
<1>2. PageTypeOK'
  BY <1>1, PageTypeNext DEF PageInv
<1>3. AskedOnce'
  BY AskedOnceNext DEF PageInv
<1>4. ASSUME deliveries'[Viewed] <= 1 PROVE Behind' /\ EngineEnded' /\ CountedComplete'
  <2>1. Behind /\ EngineEnded /\ CountedComplete
    BY <1>4, PageOrService, StatusForward DEF PageInv, OneDelivery
  <2>. QED
    BY <1>2, <1>4, <2>1, BehindNext, EngineEndedNext, CountedCompleteNext DEF PageInv
<1>. QED
  BY <1>1, <1>2, <1>3, <1>4 DEF PageInv, OneDelivery

\* The invariant of the service and of the page, whatever the browser asks and loses.
THEOREM PageInvariant == PageSpec => []PageInv
  BY PageInvInit, PageInvNext, PTL DEF PageSpec

\* The variables of the service and of the page have their types.
THEOREM PageTyping == PageSpec => []PageTypeOK
  BY PageInvariant, PTL DEF PageInv

\* scan-detail.component.ts: the totals shown are those of the whole import, each row
\* counted once, as long as the task was delivered once.
THEOREM TotalsShownAreWhole == PageSpec => []TotalsAreWhole
<1>1. PageInv => TotalsAreWhole
  BY DEF PageInv, OneDelivery, CountedComplete, Total, TotalsAreWhole
<1>. QED
  BY <1>1, PageInvariant, PTL

\* The status shown goes back only where the answers to the first request and to the
\* poll cross, and 100 % is shown only of an engine that has ended.
THEOREM ShownForward == PageSpec => ShownGoesForward
<1> DEFINE Shown == deliveries'[Viewed] <= 1 =>
              /\ scan'.by # scan.by \/ Rank[scan'.status] >= Rank[scan.status]
              /\ progressPct' = "done" => Viewed \notin orphans' /\ \A w \in Workers : task'[w] = Viewed => pc'[w] # "engine"
<1>1. ASSUME PageInv, [PageNext]_page_vars, deliveries'[Viewed] <= 1
      PROVE  Shown
  <2>1. PageInv' /\ deliveries[Viewed] <= 1 /\ Behind /\ PageTypeOK /\ AskedOnce
    BY <1>1, PageInvNext, PageOrService, StatusForward DEF PageInv, OneDelivery
  <2>2. scan'.by # scan.by \/ Rank[scan'.status] >= Rank[scan.status]
    <3>1. CASE PollArrives
      BY <2>1, <3>1 DEF PollArrives, Arrived, Behind, Asker, PageTypeOK
    <3>2. CASE FirstArrives
      <4>1. request_for["first"] # "idle" /\ scan'.by = "first"
        BY <3>2 DEF FirstArrives, Arrived, Answers
      <4>. QED
        BY <2>1, <4>1 DEF AskedOnce, PageTypeOK, Asker
    <3>3. CASE scan' = scan
      <4>1. Rank[scan.status] \in Nat
        BY <2>1, RankNat DEF PageTypeOK
      <4>. QED
        BY <3>3, <4>1
    <3>. QED
      BY <1>1, <3>1, <3>2, <3>3 DEF PageNext, PageStep, ServiceStep, Publish, PageWaits, page_vars, page, OpenPage, Tick,
           SocketDrops, Answer, RequestFails, CountRows, SummaryArrives, SummaryFails
  <2>3. ASSUME progressPct' = "done"
        PROVE  Viewed \notin orphans' /\ \A w \in Workers : task'[w] = Viewed => pc'[w] # "engine"
    <3>1. EngineEnded'
      BY <1>1, <2>1 DEF PageInv, OneDelivery
    <3>. QED
      BY <2>3, <3>1 DEF EngineEnded
  <2>. QED
    BY <2>2, <2>3
<1>2. PageInv /\ [PageNext]_page_vars => [Shown]_page_vars
  BY <1>1
<1>. QED
  BY <1>2, PageInvariant, PTL DEF PageSpec, ShownGoesForward
=============================================================================
