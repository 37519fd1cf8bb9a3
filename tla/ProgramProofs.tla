---------------------------- MODULE ProgramProofs ----------------------------
(***************************************************************************)
(* Two programs.  BulkExtractor, for every set of pages and of command     *)
(* lines, every number of runs, killed or not: one inductive invariant     *)
(* carries the four theorems.  The tables of cda2_tool.py, for any reports,*)
(* in any order of commands, with --reimport or without; and what a report *)
(* prints of the drives it finds correlated, as a sum over their features. *)
(***************************************************************************)
EXTENDS BulkExtractor, DriveCorrelation, FiniteSetTheorems, WellFoundedInduction, TLAPS

-----------------------------------------------------------------------------
(* bulk_extractor_main *)

\* There is a notify thread only while main reads, or waits for it.
ThreadWhileReading == notify # "none" => pc \in {"record", "phase1", "join"}

\* A run has no status before it has ended.
StatusAtTheEnd == status = "running" <=> pc # "ended"

\* The printing of a path and the scan of an image do not mix.
Scanning == {"report", "launch", "record", "phase1", "join", "shutdown", "phase3", "leak_check"}
OneJob == (pc = "path" => cmd.path) /\ (pc \in Scanning => ~cmd.path)

\* Without a report nothing is named by it, and a scan writes one.
ReportHoldsTags ==
  /\ report = "absent" => tags = {}
  /\ pc \in Scanning \ {"report"} => report # "absent"
  /\ pc = "leak_check" => report = "whole"

\* From the rename of the old report until the new one is flushed, the pages named
\* before are named by the renamed reports alone.
RenamedFirst ==
  pc \in {"open", "report", "launch", "record", "phase1"} /\ ~cmd.path => scanned \subseteq backups

\* Past phase 1 there is no page that was neither started nor skipped.
ReadToTheEnd == pc \in {"join", "shutdown", "phase3", "leak_check"} => AllPagesRead

IInv ==
  /\ TypeOK /\ ThreadWhileReading /\ StatusAtTheEnd /\ OneJob /\ ReportHoldsTags
  /\ RenamedFirst /\ ReadToTheEnd /\ CheckpointsKept /\ ExitZeroMeansComplete

-----------------------------------------------------------------------------
LEMMA InitIInv == Init => IInv
<1> SUFFICES ASSUME Init PROVE IInv
  OBVIOUS
<1>1. TypeOK
  <2>1. runs \in 1 .. MaxRuns /\ phase \in 0 .. 2
    BY RunsAssumption DEF Init
  <2>2. leaked \in BOOLEAN
    BY Zenon DEF Init
  <2>3. status \in Status
    BY DEF Init, Status
  <2>4. QED BY <2>1, <2>2, <2>3 DEF Init, TypeOK
<1>2. QED
  BY <1>1 DEF IInv, Init, ThreadWhileReading, StatusAtTheEnd, OneJob, Scanning, ReportHoldsTags,
             RenamedFirst, ReadToTheEnd, CheckpointsKept, ExitZeroMeansComplete

\* What the loss of a buffer keeps: the pages named on disk are still named.
LEMMA LoseBufferKeeps ==
  ASSUME TypeOK, RenamedFirst, ReportHoldsTags, pc \in {"record", "phase1", "launch"}, ~cmd.path,
         NEW written \in SUBSET Pages, LoseBuffer(written)
  PROVE  /\ tags' \in SUBSET Pages /\ exceptions' \in SUBSET Pages /\ scanned' \in SUBSET Pages
         /\ report' = report /\ backups' = backups
         /\ scanned' \subseteq tags' \cup backups'
         /\ report' = "absent" => tags' = {}
  BY DEF Scanning, LoseBuffer, TypeOK, RenamedFirst, ReportHoldsTags

\* Every step of main, of the notify thread and of the user keeps IInv.
LEMMA NextIInv == IInv /\ [Next]_vars => IInv'
<1> SUFFICES ASSUME IInv, [Next]_vars PROVE IInv'
  OBVIOUS
<1> USE DEF IInv, TypeOK, ThreadWhileReading, StatusAtTheEnd, OneJob, Scanning, ReportHoldsTags,
            RenamedFirst, ReadToTheEnd, AllPagesRead, CheckpointsKept, ExitZeroMeansComplete
<1>1. CASE ParseOptions
  BY <1>1 DEF ParseOptions, ExitEarly, Asks, End, Goto, Status, disk
<1>2. CASE PrepareOutdir
  BY <1>2 DEF PrepareOutdir, End, Goto, Status, disk
<1>3. CASE LoadScanners
  BY <1>3 DEF LoadScanners, End, Goto, Status, disk
<1>4. CASE Restart \/ RestartThrows
  <2>1. CASE Restart
    BY <2>1 DEF Restart, Goto, disk
  <2>2. CASE RestartThrows
    BY <2>2 DEF RestartThrows, End, Status, disk
  <2>3. QED BY <1>4, <2>1, <2>2
<1>5. CASE OpenImage
  BY <1>5 DEF OpenImage, End, Goto, Status, disk
<1>6. CASE PrintPath
  BY <1>6 DEF PrintPath, Return, End, Status, disk, Asks
<1>7. CASE CreateReport
  BY <1>7 DEF CreateReport, Goto, disk
<1>8. CASE StartPhase1
  BY <1>8 DEF StartPhase1, disk
<1>9. CASE RecordSeen \/ RefuseSample
  <2>1. CASE RecordSeen
    BY <2>1 DEF RecordSeen, Goto, disk
  <2>2. CASE RefuseSample
    <3>1. tags \cup seen \in SUBSET Pages
      OBVIOUS
    <3>2. QED BY <2>2, <3>1, LoseBufferKeeps DEF RefuseSample, End, Status, disk
  <2>3. QED BY <1>9, <2>1, <2>2
<1>10. CASE ScanPage
  BY <1>10 DEF ScanPage, disk
<1>11. CASE MissPage
  BY <1>11 DEF MissPage, disk
<1>12. CASE ExitOnDiskError
  BY <1>12, LoseBufferKeeps DEF ExitOnDiskError, End, Status, disk
<1>13. CASE Phase1DiskWriteError
  BY <1>13, LoseBufferKeeps DEF Phase1DiskWriteError, Return, End, Status, disk
<1>14. CASE EndPhase1
  BY <1>14 DEF EndPhase1, Goto, disk
<1>15. CASE JoinNotify
  BY <1>15 DEF JoinNotify, disk
<1>16. CASE Shutdown
  BY <1>16 DEF Shutdown, Return, End, Goto, Status, disk
<1>17. CASE CloseReport
  BY <1>17 DEF CloseReport, Goto, disk
<1>18. CASE LeakCheck
  BY <1>18 DEF LeakCheck, Return, End, Status, disk
<1>19. CASE Notify
  BY <1>19 DEF Notify, disk
<1>20. CASE RunAgain
  <2>1. runs' \in 1 .. MaxRuns /\ phase' \in 0 .. 2
    BY <1>20, RunsAssumption DEF RunAgain
  <2>2. leaked' \in BOOLEAN
    BY ONLY <1>20, Zenon DEF RunAgain
  <2>3. /\ pc = "ended" /\ pc' = "options" /\ cmd' \in CommandLines /\ status' = "running"
        /\ seen' = {} /\ UNCHANGED <<notify, disk, scanned>>
    BY <1>20 DEF RunAgain
  <2>4. QED BY <2>1, <2>2, <2>3 DEF Status, disk
<1>21. CASE Kill
  <2>1. pc' = "ended" /\ status' = "killed" /\ notify' = "none"
        /\ cmd' = cmd /\ phase' = phase /\ seen' = seen /\ leaked' = leaked /\ runs' = runs
    BY <1>21 DEF Kill, End
  <2>2. CASE Writing
    <3>1. pc \in {"record", "phase1", "launch"} /\ ~cmd.path /\ LoseBuffer(tags)
      BY <1>21, <2>2 DEF Kill, Writing
    <3>2. QED BY <2>1, <3>1, LoseBufferKeeps DEF Status
  <2>3. CASE ~Writing
    <3>1. UNCHANGED <<disk, scanned>>
      BY <1>21, <2>3 DEF Kill
    <3>2. QED BY <2>1, <3>1 DEF Status, disk
  <2>4. QED BY <2>2, <2>3
<1>22. CASE UNCHANGED vars
  BY <1>22 DEF vars, disk
<1>23. QED
  BY <1>1, <1>2, <1>3, <1>4, <1>5, <1>6, <1>7, <1>8, <1>9, <1>10, <1>11, <1>12,
     <1>13, <1>14, <1>15, <1>16, <1>17, <1>18, <1>19, <1>20, <1>21, <1>22
  DEF Next, Main, Phase1Run

-----------------------------------------------------------------------------
LEMMA Inductive == Spec => []IInv
<1>1. QED BY InitIInv, NextIInv, PTL DEF Spec

\* The variables of BulkExtractor keep their types.
THEOREM Typing == Spec => []TypeOK
<1>1. IInv => TypeOK
  BY DEF IInv
<1>2. QED BY <1>1, Inductive, PTL

\* Exit status 0 of a scan (bulk_extractor_main's last return) means a whole report that
\* names every page, and no sbuf leaked.
THEOREM ZeroMeansComplete == Spec => []ExitZeroMeansComplete
<1>1. IInv => ExitZeroMeansComplete
  BY DEF IInv
<1>2. QED BY <1>1, Inductive, PTL

\* The scanners are shut down and the process ends without a notify thread that reads
\* what they and main own (notify_thread::join).
THEOREM NotifyGone == Spec => []NotifyGoneBeforeShutdown
<1>1. IInv => NotifyGoneBeforeShutdown
  BY DEF IInv, ThreadWhileReading, NotifyGoneBeforeShutdown, TypeOK
<1>2. QED BY <1>1, Inductive, PTL

\* The pages named by a report on disk stay named there through any sequence of runs,
\* kills and lost buffers (bulk_extractor_restarter renames before it writes).
THEOREM NothingForgotten == Spec => []CheckpointsKept
<1>1. IInv => CheckpointsKept
  BY DEF IInv
<1>2. QED BY <1>1, Inductive, PTL

-----------------------------------------------------------------------------
(* cda2_tool.py *)

RowsFinite == IsFiniteSet(feature_drive_counts)

\* The rows of one report are finitely many, and of the columns they should be.
LEMMA ReportRows ==
  ASSUME NEW d, NEW r \in Reports
  PROVE  IsFiniteSet(RowsOf(d, r)) /\ RowsOf(d, r) \subseteq [driveid : {d}, feature_type : Types, featureid : Features]
<1> DEFINE taken == {f \in entries[r] : ~(f.feature_type = "search" /\ f.featureid \in Cached)}
           row == [e \in taken |-> [driveid |-> d, feature_type |-> e.feature_type, featureid |-> e.featureid]]
<1>1. IsFiniteSet(taken)
  BY EntriesAssumption, FS_Subset
<1>2. row \in Surjection(taken, RowsOf(d, r))
  <2>1. row \in [taken -> RowsOf(d, r)]
    BY DEF RowsOf
  <2>2. \A x \in RowsOf(d, r) : \E e \in taken : row[e] = x
    BY DEF RowsOf
  <2>. QED
    BY <2>1, <2>2 DEF Surjection
<1>3. IsFiniteSet(RowsOf(d, r))
  BY <1>1, <1>2, FS_Surjection
<1>. QED
  BY <1>3, EntriesAssumption DEF RowsOf

\* A greater table has as many rows of a feature and type, or more.
LEMMA MoreTogether ==
  ASSUME NEW C, NEW D, IsFiniteSet(D), C \subseteq D, NEW f
  PROVE  /\ Cardinality(Together(C, f)) \in Nat
         /\ Cardinality(Together(D, f)) \in Nat
         /\ Cardinality(Together(C, f)) <= Cardinality(Together(D, f))
<1>1. Together(C, f) \subseteq Together(D, f) /\ Together(D, f) \subseteq D
  BY DEF Together
<1>2. IsFiniteSet(Together(D, f)) /\ IsFiniteSet(Together(C, f))
  BY <1>1, FS_Subset
<1>. QED
  BY <1>1, <1>2, FS_Subset, FS_CardinalityType

\* What is built from a table has a row for each feature and type in it, and counts it right.
LEMMA Built ==
  ASSUME NEW C, IsFiniteSet(C), NEW f \in Frequencies(C)
  PROVE  /\ \E c \in C : f.feature_type = c.feature_type /\ f.featureid = c.featureid
         /\ f.drivecount = Cardinality(Together(C, f))
         /\ f.drivecount \in Nat /\ 1 <= f.drivecount
         /\ \A g \in Frequencies(C) : f.feature_type = g.feature_type /\ f.featureid = g.featureid => f = g
<1>1. PICK c \in C : f = [feature_type |-> c.feature_type, featureid |-> c.featureid, drivecount |-> Cardinality(Together(C, c))]
  BY DEF Frequencies
<1>2. Together(C, c) = Together(C, f) /\ c \in Together(C, f)
  BY <1>1 DEF Together
<1>3. IsFiniteSet(Together(C, f)) /\ Cardinality(Together(C, f)) \in Nat
  BY FS_Subset, FS_CardinalityType DEF Together
<1>4. Cardinality(Together(C, f)) # 0
  BY <1>2, <1>3, FS_EmptySet
<1>5. ASSUME NEW g \in Frequencies(C), f.feature_type = g.feature_type, f.featureid = g.featureid
      PROVE  f = g
  <2>1. PICK k \in C : g = [feature_type |-> k.feature_type, featureid |-> k.featureid, drivecount |-> Cardinality(Together(C, k))]
    BY DEF Frequencies
  <2>2. Together(C, c) = Together(C, k)
    BY <1>1, <1>5, <2>1 DEF Together
  <2>. QED
    BY <1>1, <1>5, <2>1, <2>2
<1>. QED
  BY <1>1, <1>2, <1>3, <1>4, <1>5

LEMMA Initially == DriveInit => DriveTypeOK /\ RowsFinite /\ DatabaseSound
<1>1. DriveInit => DriveTypeOK
  BY DEF DriveInit, DriveTypeOK, Row
<1>2. DriveInit => RowsFinite
  BY FS_EmptySet DEF DriveInit, RowsFinite
<1>3. DriveInit => DatabaseSound
  BY DEF DriveInit, DatabaseSound, DrivesAreReports, FrequenciesSound
<1>. QED
  BY <1>1, <1>2, <1>3

\* The drives that are there stay as they are, and the new one is the last.
LEMMA Ingested ==
  ASSUME DriveTypeOK, RowsFinite, DatabaseSound, NEW r \in Reports, NEW reimport \in BOOLEAN, ingest(r, reimport)
  PROVE  DriveTypeOK' /\ RowsFinite' /\ DatabaseSound'
<1> DEFINE n == Len(drives) + 1
           new == [drivename |-> image_filename[r], report_fn |-> r]
<1>1. drives \in Seq([drivename : {image_filename[q] : q \in Reports}, report_fn : Reports])
  BY DEF DriveTypeOK
<1>2. /\ Len(drives) \in Nat /\ DOMAIN drives = 1 .. Len(drives)
      /\ drives' = Append(drives, new) /\ DOMAIN drives' = (DOMAIN drives) \cup {n} /\ n \notin DOMAIN drives
      /\ drives'[n] = new /\ \A d \in DOMAIN drives : drives'[d] = drives[d]
  BY <1>1 DEF ingest
<1>3. feature_drive_counts' = feature_drive_counts \cup RowsOf(n, r) /\ feature_frequencies' = feature_frequencies
  BY DEF ingest
<1>4. DriveTypeOK'
  <2>1. drives' \in Seq([drivename : {image_filename[q] : q \in Reports}, report_fn : Reports])
    BY <1>1, <1>2
  <2>2. feature_drive_counts' \subseteq Row'
    BY <1>2, <1>3, ReportRows DEF DriveTypeOK, Row
  <2>. QED
    BY <2>1, <2>2, <1>3 DEF DriveTypeOK
<1>5. RowsFinite'
  BY <1>3, ReportRows, FS_Union DEF RowsFinite
<1>6. DrivesAreReports'
  <2>1. \A d, e \in DOMAIN drives' : drives'[d].drivename = drives'[e].drivename => d = e
    BY <1>2 DEF ingest, Named, DatabaseSound, DrivesAreReports
  <2>2. {RowsOf(d, drives'[d].report_fn) : d \in DOMAIN drives'} = {RowsOf(d, drives[d].report_fn) : d \in DOMAIN drives} \cup {RowsOf(n, r)}
    BY <1>2
  <2>3. feature_drive_counts' = UNION {RowsOf(d, drives'[d].report_fn) : d \in DOMAIN drives'}
    BY <1>3, <2>2 DEF DatabaseSound, DrivesAreReports
  <2>. QED
    BY <2>1, <2>3 DEF DrivesAreReports, RowsOf
<1>7. FrequenciesSound'
  <2>1. \A f \in feature_frequencies : f.drivecount \in Nat
    BY DEF DriveTypeOK
  <2>2. \A f \in feature_frequencies : f.drivecount <= Cardinality(Together(feature_drive_counts', f))
    <3>1. IsFiniteSet(feature_drive_counts')
      BY <1>5 DEF RowsFinite
    <3>. QED
      BY <1>3, <2>1, <3>1, MoreTogether DEF DatabaseSound, FrequenciesSound
  <2>. QED
    BY <1>3, <2>2 DEF DatabaseSound, FrequenciesSound, Together
<1>. QED
  BY <1>4, <1>5, <1>6, <1>7 DEF DatabaseSound

\* A table that is built anew, or left as it is, for the rows that stay.
LEMMA Rebuilt ==
  ASSUME DriveTypeOK, RowsFinite, DatabaseSound, UNCHANGED <<drives, feature_drive_counts>>,
         feature_frequencies' \in {feature_frequencies, Frequencies(feature_drive_counts)}
  PROVE  DriveTypeOK' /\ RowsFinite' /\ DatabaseSound'
<1>1. CASE feature_frequencies' = feature_frequencies
  <2>1. DriveTypeOK'
    BY <1>1 DEF DriveTypeOK, Row
  <2>2. RowsFinite' /\ DrivesAreReports'
    BY DEF RowsFinite, DatabaseSound, DrivesAreReports, RowsOf
  <2>3. FrequenciesSound'
    BY <1>1 DEF DatabaseSound, FrequenciesSound, Together
  <2>. QED
    BY <2>1, <2>2, <2>3 DEF DatabaseSound
<1>2. CASE feature_frequencies' = Frequencies(feature_drive_counts)
  <2>1. \A f \in feature_frequencies' :
          /\ f.drivecount \in Nat /\ 1 <= f.drivecount /\ f.drivecount = Cardinality(Together(feature_drive_counts, f))
          /\ \A g \in feature_frequencies' : f.feature_type = g.feature_type /\ f.featureid = g.featureid => f = g
    BY <1>2, Built DEF RowsFinite
  <2>2. FrequenciesSound'
    BY <2>1 DEF FrequenciesSound, Together
  <2>3. feature_frequencies' \subseteq [feature_type : Types, featureid : Features, drivecount : Nat]
    <3>1. \A f \in feature_frequencies' : \E c \in feature_drive_counts :
            f = [feature_type |-> c.feature_type, featureid |-> c.featureid, drivecount |-> Cardinality(Together(feature_drive_counts, c))]
      BY <1>2 DEF Frequencies
    <3>2. \A c \in feature_drive_counts : c.feature_type \in Types /\ c.featureid \in Features
      BY DEF DriveTypeOK, Row
    <3>. QED
      BY <2>1, <3>1, <3>2
  <2>4. DriveTypeOK'
    BY <2>3 DEF DriveTypeOK, Row
  <2>5. RowsFinite' /\ DrivesAreReports'
    BY DEF RowsFinite, DatabaseSound, DrivesAreReports, RowsOf
  <2>. QED
    BY <2>2, <2>4, <2>5 DEF DatabaseSound
<1>. QED
  BY <1>1, <1>2

LEMMA Stepped == DriveTypeOK /\ RowsFinite /\ DatabaseSound /\ [DriveNext]_drive_vars => DriveTypeOK' /\ RowsFinite' /\ DatabaseSound'
<1> SUFFICES ASSUME DriveTypeOK, RowsFinite, DatabaseSound, [DriveNext]_drive_vars
             PROVE  DriveTypeOK' /\ RowsFinite' /\ DatabaseSound'
  OBVIOUS
<1>1. CASE \E r \in Reports, reimport \in BOOLEAN : ingest(r, reimport)
  BY <1>1, Ingested
<1>2. CASE build_feature_frequencies
  BY <1>2, Rebuilt DEF build_feature_frequencies
<1>3. CASE \E d \in 1 .. Len(drives) + 1, t \in Types : make_report(d, t)
  BY <1>3, Rebuilt DEF make_report
<1>4. CASE UNCHANGED drive_vars
  BY <1>4, Rebuilt DEF drive_vars
<1>. QED
  BY <1>1, <1>2, <1>3, <1>4 DEF DriveNext

\* DriveTypeOK: the tables keep their columns, whatever is ingested.
THEOREM DriveTyping == DriveSpec => []DriveTypeOK
<1>1. DriveTypeOK /\ RowsFinite /\ DatabaseSound /\ [DriveNext]_drive_vars => (DriveTypeOK /\ RowsFinite /\ DatabaseSound)'
  BY Stepped
<1>. QED
  BY <1>1, Initially, PTL DEF DriveSpec

\* DatabaseSound: failed and repeated ingestions leave each drive with the features of its
\* report, and frequencies, however old, never claim more drives than there are.
THEOREM TablesSound == DriveSpec => []DatabaseSound
<1>1. DriveTypeOK /\ RowsFinite /\ DatabaseSound /\ [DriveNext]_drive_vars => (DriveTypeOK /\ RowsFinite /\ DatabaseSound)'
  BY Stepped
<1>. QED
  BY <1>1, Initially, PTL DEF DriveSpec
-----------------------------------------------------------------------------
(* Sums over finite sets *)

\* As many units for each x as f says: their number is the sum of f.
Units(f, T) == {p \in T \X Nat : 1 <= p[2] /\ p[2] <= f[p[1]]}
Pick(T) == CHOOSE x \in T : TRUE
\* What the fold of SumFunction is defined by.
Adds(it, f, S) == it = [T \in SUBSET S |-> IF T = {} THEN 0 ELSE f[Pick(T)] + it[T \ {Pick(T)}]]

LEMMA SumDef == \A f : SumFunction(f) = (CHOOSE it : Adds(it, f, DOMAIN f))[DOMAIN f]
BY Zenon DEF SumFunction, SumFunctionOnSet, FoldFunctionOnSet, MapThenFoldSet, Adds, Pick

\* The units of one x.
LEMMA UnitsOfOne ==
  ASSUME NEW x, NEW n \in Nat
  PROVE  IsFiniteSet({x} \X (1 .. n)) /\ Cardinality({x} \X (1 .. n)) = n
<1>1. IsFiniteSet(1 .. n) /\ Cardinality(1 .. n) = n
  BY FS_Interval
<1>2. IsFiniteSet({x}) /\ Cardinality({x}) = 1
  BY FS_Singleton
<1>3. QED BY <1>1, <1>2, FS_Product

LEMMA UnitsAdded ==
  ASSUME NEW S, IsFiniteSet(S), NEW f \in [S -> Nat], NEW T \in SUBSET S, NEW x \in T, IsFiniteSet(Units(f, T \ {x}))
  PROVE  /\ IsFiniteSet(Units(f, T))
         /\ Cardinality(Units(f, T)) = f[x] + Cardinality(Units(f, T \ {x}))
<1> DEFINE A == {x} \X (1 .. f[x])
           B == Units(f, T \ {x})
<1>1. Units(f, T) = B \cup A
  BY DEF Units
<1>2. B \cap A = {}
  BY DEF Units
<1>3. f[x] \in Nat
  OBVIOUS
<1>4. IsFiniteSet(A) /\ Cardinality(A) = f[x]
  BY <1>3, UnitsOfOne
<1>5. Cardinality(B) \in Nat /\ Cardinality({}) = 0
  BY FS_CardinalityType, FS_EmptySet
<1> HIDE DEF A, B
<1>6. IsFiniteSet(B)
  BY DEF B
<1>7. IsFiniteSet(B \cup A) /\ Cardinality(B \cup A) = Cardinality(B) + Cardinality(A) - Cardinality(B \cap A)
  BY <1>4, <1>6, FS_Union
<1>8. Cardinality(B \cup A) = Cardinality(B) + f[x] - 0
  BY <1>2, <1>4, <1>5, <1>7
<1>9. QED BY <1>1, <1>3, <1>5, <1>7, <1>8 DEF B


\* What is true of the empty set, and of each subset of S that is one element more than
\* another one of which it is true, is true of all subsets.
LEMMA SubsetSteps ==
  ASSUME NEW S, IsFiniteSet(S), NEW Good \in SUBSET SUBSET S, {} \in Good,
         \A U \in SUBSET S : U # {} /\ U \ {Pick(U)} \in Good => U \in Good
  PROVE  Good = SUBSET S
<1> DEFINE bad == (SUBSET S) \ Good
           smaller == StrictSubsetOrdering(S)
<1>1. SUFFICES ASSUME bad # {} PROVE FALSE
  OBVIOUS
<1>2. FiniteSubsetsOf(S) = SUBSET S
  BY FS_FiniteSubsetsOfFinite
<1>3. IsWellFoundedOn(smaller, SUBSET S) /\ bad \subseteq SUBSET S
  BY <1>2, FS_StrictSubsetOrderingWellFounded
<1> HIDE DEF bad, smaller
<1>4. PICK U \in bad : \A V \in bad : ~(<<V, U>> \in smaller)
  BY <1>1, <1>3, WFMin
<1>5. U \in SUBSET S /\ U # {} /\ Pick(U) \in U
  BY DEF bad, Pick
<1>6. <<U \ {Pick(U)}, U>> \in smaller
  BY <1>5 DEF smaller, StrictSubsetOrdering
<1>7. U \ {Pick(U)} \in Good
  BY <1>4, <1>5, <1>6 DEF bad
<1>. QED
  BY <1>5, <1>7 DEF bad

\* A sum counts units.
LEMMA SumIs ==
  ASSUME NEW S, IsFiniteSet(S), NEW f \in [S -> Nat]
  PROVE  /\ IsFiniteSet(Units(f, S))
         /\ SumFunction(f) = Cardinality(Units(f, S)) /\ SumFunction(f) \in Nat
<1>1. Units(f, {}) = {} /\ IsFiniteSet({}) /\ Cardinality({}) = 0
  BY FS_EmptySet DEF Units
<1>2. \A U \in SUBSET S : U # {} => Pick(U) \in U
  BY DEF Pick
<1>3. \A U \in SUBSET S : IsFiniteSet(Units(f, U))
  <2> DEFINE Good == {U \in SUBSET S : IsFiniteSet(Units(f, U))}
  <2>1. {} \in Good
    BY <1>1
  <2>2. ASSUME NEW U \in SUBSET S, U # {}, U \ {Pick(U)} \in Good PROVE U \in Good
    BY <1>2, <2>2, UnitsAdded
  <2> HIDE DEF Good
  <2>3. Good = SUBSET S
    <3>1. Good \in SUBSET SUBSET S
      BY DEF Good
    <3>2. QED BY <2>1, <2>2, <3>1, SubsetSteps
  <2>4. QED BY <2>3 DEF Good
<1> DEFINE g == [U \in SUBSET S |-> Cardinality(Units(f, U))]
<1>4. \A U \in SUBSET S : U # {} => Cardinality(Units(f, U)) = f[Pick(U)] + Cardinality(Units(f, U \ {Pick(U)}))
  BY <1>2, <1>3, UnitsAdded
<1>5. Adds(g, f, S)
  <2>1. ASSUME NEW U \in SUBSET S PROVE g[U] = IF U = {} THEN 0 ELSE f[Pick(U)] + g[U \ {Pick(U)}]
    BY <1>1, <1>4
  <2>2. QED BY <2>1 DEF Adds
<1>6. \E it : Adds(it, f, S)
  BY <1>5
<1> DEFINE it == CHOOSE j : Adds(j, f, S)
<1>7. Adds(it, f, S)
  BY <1>6
<1> HIDE DEF it
<1>8. \A U \in SUBSET S : it[U] = Cardinality(Units(f, U))
  <2> DEFINE Good == {U \in SUBSET S : it[U] = Cardinality(Units(f, U))}
  <2>0. \A U \in SUBSET S : it[U] = IF U = {} THEN 0 ELSE f[Pick(U)] + it[U \ {Pick(U)}]
    BY <1>7 DEF Adds
  <2>1. {} \in Good
    BY <1>1, <2>0
  <2>2. ASSUME NEW U \in SUBSET S, U # {}, U \ {Pick(U)} \in Good PROVE U \in Good
    BY <1>4, <2>0, <2>2
  <2> HIDE DEF Good
  <2>3. Good = SUBSET S
    <3>1. Good \in SUBSET SUBSET S
      BY DEF Good
    <3>2. QED BY <2>1, <2>2, <3>1, SubsetSteps
  <2>4. QED BY <2>3 DEF Good
<1>9. SumFunction(f) = it[S]
  BY SumDef DEF it
<1>10. QED BY <1>3, <1>8, <1>9, FS_CardinalityType

\* A sum is no greater than another one when each of its terms, but those that are 0, is no
\* greater than a term of the other of its own.
LEMMA SumAtMost ==
  ASSUME NEW A, IsFiniteSet(A), NEW f \in [A -> Nat], NEW B, IsFiniteSet(B), NEW g \in [B -> Nat],
         NEW h, \A x \in A : f[x] # 0 => h[x] \in B /\ f[x] <= g[h[x]],
         \A x, y \in A : f[x] # 0 /\ f[y] # 0 /\ h[x] = h[y] => x = y
  PROVE  SumFunction(f) <= SumFunction(g)
<1> DEFINE u == [p \in Units(f, A) |-> <<h[p[1]], p[2]>>]
<1>1. ASSUME NEW p \in Units(f, A)
      PROVE  /\ p = <<p[1], p[2]>> /\ p[1] \in A /\ f[p[1]] # 0 /\ u[p] = <<h[p[1]], p[2]>> /\ u[p] \in Units(g, B)
  <2>1. PICK x \in A, k \in Nat : p = <<x, k>> /\ 1 <= k /\ k <= f[x]
    BY DEF Units
  <2>2. f[x] # 0 /\ f[x] \in Nat
    BY <2>1
  <2>3. h[x] \in B /\ k <= g[h[x]]
    BY <2>1, <2>2
  <2>4. QED BY <2>1, <2>2, <2>3 DEF Units
<1> HIDE DEF u
<1>2. u \in [Units(f, A) -> Units(g, B)]
  BY <1>1 DEF u
<1>3. \A p, q \in Units(f, A) : u[p] = u[q] => p = q
  BY <1>1
<1>4. u \in Injection(Units(f, A), Units(g, B))
  BY <1>2, <1>3 DEF Injection, IsInjective
<1>5. IsFiniteSet(Units(g, B))
  BY SumIs
<1>6. Cardinality(Units(f, A)) <= Cardinality(Units(g, B))
  BY <1>4, <1>5, FS_Injection
<1>7. QED BY <1>6, SumIs

\* A sum that is not 0 has a term that is not.
LEMMA SumPositive ==
  ASSUME NEW A, IsFiniteSet(A), NEW f \in [A -> Nat], SumFunction(f) > 0
  PROVE  \E x \in A : f[x] > 0
<1>1. Units(f, A) # {}
  BY SumIs, FS_EmptySet
<1>2. PICK x \in A, k \in Nat : 1 <= k /\ k <= f[x]
  BY <1>1 DEF Units
<1>3. QED BY <1>2

\* A term more makes a sum greater by at most that term.
LEMMA SumOneMore ==
  ASSUME NEW A, IsFiniteSet(A), NEW f \in [A -> Nat], NEW x \in A
  PROVE  SumFunction(f) = f[x] + SumFunction([y \in A \ {x} |-> f[y]])
<1> DEFINE g == [y \in A \ {x} |-> f[y]]
<1>1. IsFiniteSet(A \ {x}) /\ g \in [A \ {x} -> Nat]
  BY FS_RemoveElement
<1>2. Units(g, A \ {x}) = Units(f, A \ {x})
  BY DEF Units
<1> HIDE DEF g
<1>3. SumFunction(g) = Cardinality(Units(f, A \ {x})) /\ IsFiniteSet(Units(f, A \ {x}))
  BY <1>1, <1>2, SumIs
<1>4. Cardinality(Units(f, A)) = f[x] + Cardinality(Units(f, A \ {x}))
  BY <1>3, UnitsAdded
<1>5. QED BY <1>3, <1>4, SumIs DEF g

\* A greater divisor makes no greater quotient.
LEMMA Divided ==
  ASSUME NEW w \in Nat, NEW a \in Nat, NEW b \in Nat, 1 <= a, a <= b
  PROVE  w \div a \in Nat /\ w \div b \in Nat /\ w \div b <= w \div a
<1> DEFINE q == w \div a
           p == w \div b
<1>1. q \in Nat /\ p \in Nat /\ w < a * (q + 1) /\ b * p <= w
  BY Z3
<1> HIDE DEF q, p
<1>2. a * p <= b * p
  BY <1>1
<1>3. SUFFICES ASSUME p >= q + 1 PROVE FALSE
  BY <1>1 DEF p, q
<1>4. a * (q + 1) <= a * p
  BY <1>1, <1>3
<1>. QED
  BY <1>1, <1>2, <1>4

-----------------------------------------------------------------------------
(* What a report prints *)

\* What was printed follows from the tables, which are as they were.
Printed ==
  printed.driveid > 0 =>
    /\ printed.driveid \in DOMAIN drives /\ printed.type \in Types
    /\ printed.unique = {l.featureid : l \in {k \in Lines(printed.driveid, printed.type, feature_frequencies) : k.drivecount = 1}}
    /\ \E lines \in UpToThreshold(Lines(printed.driveid, printed.type, feature_frequencies)) :
         printed.coefs = Weighed(printed.driveid, lines)

\* All that is known of the tables.
TableFacts == DriveTypeOK /\ RowsFinite /\ IsFiniteSet(feature_frequencies) /\ FrequenciesSound
\* The rows of a drive that have this feature, and what each line adds to the drive's coefficient.
On(e, x) == {c \in feature_drive_counts : c.driveid = e /\ c.featureid = x}
Terms(e, lines) == [l \in lines |-> (WEIGHT \div l.drivecount) * Cardinality(On(e, l.featureid))]
Weights(d, e, t) == [x \in Rare(d, e, t) |-> WEIGHT \div CountOf(x, t)]

\* What is built of finitely many rows is finite, and so are the lines of a drive.
LEMMA FrequenciesFinite == \A C : IsFiniteSet(C) => IsFiniteSet(Frequencies(C))
<1> SUFFICES ASSUME NEW C, IsFiniteSet(C) PROVE IsFiniteSet(Frequencies(C))
  OBVIOUS
<1> DEFINE built == [c \in C |-> [feature_type |-> c.feature_type, featureid |-> c.featureid, drivecount |-> Cardinality(Together(C, c))]]
<1>1. built \in Surjection(C, Frequencies(C))
  <2>1. built \in [C -> Frequencies(C)] /\ \A f \in Frequencies(C) : \E c \in C : built[c] = f
    BY DEF Frequencies
  <2>. QED
    BY <2>1 DEF Surjection
<1>. QED
  BY <1>1, FS_Surjection

LEMMA LinesFinite ==
  ASSUME NEW d, NEW t, NEW R, IsFiniteSet(R)
  PROVE  IsFiniteSet(Lines(d, t, R))
<1> DEFINE there == {g \in R : [driveid |-> d, feature_type |-> t, featureid |-> g.featureid] \in feature_drive_counts}
           line == [f \in there |-> [drivecount |-> f.drivecount, featureid |-> f.featureid, counted |-> f.feature_type]]
<1>1. IsFiniteSet(there)
  BY FS_Subset
<1>2. line \in Surjection(there, Lines(d, t, R))
  <2>1. line \in [there -> Lines(d, t, R)] /\ \A l \in Lines(d, t, R) : \E f \in there : line[f] = l
    BY DEF Lines
  <2>. QED
    BY <2>1 DEF Surjection
<1>. QED
  BY <1>1, <1>2, FS_Surjection

\* The features that two drives share are finitely many.
LEMMA RareFinite ==
  ASSUME RowsFinite, NEW d, NEW e, NEW t
  PROVE  IsFiniteSet(Rare(d, e, t))
<1> DEFINE ids == [c \in feature_drive_counts |-> c.featureid]
           all == {c.featureid : c \in feature_drive_counts}
<1>1. ids \in Surjection(feature_drive_counts, all)
  BY DEF Surjection
<1>2. IsFiniteSet(all)
  BY <1>1, FS_Surjection DEF RowsFinite
<1>3. Rare(d, e, t) \subseteq all
  BY DEF Rare, Known, Shares
<1>. QED
  BY <1>2, <1>3, FS_Subset

\* Counting the rows of a drive that have a feature.
LEMMA Counting ==
  ASSUME TableFacts, NEW e, NEW x
  PROVE  /\ IsFiniteSet(On(e, x)) /\ Cardinality(On(e, x)) \in Nat
         /\ Cardinality(On(e, x)) > 0 <=> \E c \in feature_drive_counts : c.driveid = e /\ c.featureid = x
         /\ OfOneType => Cardinality(On(e, x)) <= 1
<1>1. IsFiniteSet(On(e, x)) /\ Cardinality(On(e, x)) \in Nat
  BY FS_Subset, FS_CardinalityType DEF On, TableFacts, RowsFinite
<1>2. Cardinality(On(e, x)) = 0 <=> On(e, x) = {}
  BY <1>1, FS_EmptySet
<1>3. Cardinality(On(e, x)) > 0 <=> \E c \in feature_drive_counts : c.driveid = e /\ c.featureid = x
  BY <1>1, <1>2 DEF On
<1>4. ASSUME OfOneType, On(e, x) # {} PROVE Cardinality(On(e, x)) <= 1
  <2>1. PICK c \in On(e, x) : TRUE
    BY <1>4
  <2>2. \A k \in On(e, x) : k = c
    <3>1. \A k \in On(e, x) : k \in Row /\ k.driveid = c.driveid /\ k.featureid = c.featureid /\ k.feature_type = c.feature_type
      BY <1>4, <2>1 DEF On, OfOneType, TableFacts, DriveTypeOK
    <3>. QED
      BY <2>1, <3>1 DEF Row
  <2>3. On(e, x) = {c}
    BY <2>1, <2>2
  <2>. QED
    BY <2>3, FS_Singleton
<1>. QED
  BY <1>1, <1>2, <1>3, <1>4

\* A feature that is shared is on a drive.
LEMMA Counted ==
  ASSUME TableFacts, NEW d, NEW e, NEW t, NEW x \in Shares(d, e, t)
  PROVE  CountOf(x, t) \in Nat /\ 1 <= CountOf(x, t) /\ WEIGHT \div CountOf(x, t) \in Nat
<1> DEFINE those == {k \in feature_drive_counts : k.featureid = x /\ k.feature_type = t}
<1>1. those # {}
  BY DEF Shares
<1>2. IsFiniteSet(those) /\ Cardinality(those) \in Nat /\ Cardinality(those) # 0
  BY <1>1, FS_Subset, FS_CardinalityType, FS_EmptySet DEF TableFacts, RowsFinite
<1>3. CountOf(x, t) \in Nat /\ 1 <= CountOf(x, t)
  BY <1>2 DEF CountOf
<1>. QED
  BY <1>3, WeightAssumption, Divided

\* A line comes from a row of the frequencies; if no feature is of two types, from one of the
\* type that is printed, which counts no more drives than the feature is on.
LEMMA LineFrom ==
  ASSUME TableFacts, NEW d, NEW t, NEW l \in Lines(d, t, feature_frequencies)
  PROVE  /\ l.drivecount \in Nat /\ 1 <= l.drivecount
         /\ \E c \in feature_drive_counts : c.driveid = d /\ c.feature_type = t /\ c.featureid = l.featureid
         /\ \E f \in feature_frequencies :
              /\ l = [drivecount |-> f.drivecount, featureid |-> f.featureid, counted |-> f.feature_type]
              /\ OfOneType => f.feature_type = t
         /\ OfOneType => l.drivecount <= CountOf(l.featureid, t)
         /\ OfOneType /\ feature_frequencies = Frequencies(feature_drive_counts) => l.drivecount = CountOf(l.featureid, t)
<1>1. PICK f \in feature_frequencies :
        /\ l = [drivecount |-> f.drivecount, featureid |-> f.featureid, counted |-> f.feature_type]
        /\ [driveid |-> d, feature_type |-> t, featureid |-> f.featureid] \in feature_drive_counts
  BY DEF Lines
<1>2. f.drivecount \in Nat /\ 1 <= f.drivecount /\ f.drivecount <= Cardinality(Together(feature_drive_counts, f))
  BY DEF TableFacts, DriveTypeOK, FrequenciesSound
<1>3. Together(feature_drive_counts, f) # {}
  BY <1>2, FS_EmptySet
<1>4. OfOneType => f.feature_type = t
  BY <1>1, <1>3 DEF OfOneType, Together
<1>5. OfOneType => CountOf(l.featureid, t) = Cardinality(Together(feature_drive_counts, f))
  <2>1. OfOneType => {k \in feature_drive_counts : k.featureid = l.featureid /\ k.feature_type = t} = Together(feature_drive_counts, f)
    BY <1>1, <1>4 DEF Together
  <2>. QED
    BY <2>1 DEF CountOf
<1>6. feature_frequencies = Frequencies(feature_drive_counts) => f.drivecount = Cardinality(Together(feature_drive_counts, f))
  BY Built DEF TableFacts, RowsFinite
<1>. QED
  BY <1>1, <1>2, <1>4, <1>5, <1>6

\* The lines that are used are lines, and but for one of those beyond the threshold they are
\* the ones within.
LEMMA Used ==
  ASSUME NEW all, NEW lines \in UpToThreshold(all)
  PROVE  LET within == {l \in all : l.drivecount <= drive_threshold}
         IN  /\ lines \subseteq all /\ within \subseteq lines
             /\ lines = within \/ \E l \in lines \ within : lines \ {l} = within
  BY DEF UpToThreshold

\* Each line adds a number.
LEMMA TermsTyped ==
  ASSUME TableFacts, NEW d, NEW t, NEW e, NEW lines, lines \subseteq Lines(d, t, feature_frequencies)
  PROVE  /\ IsFiniteSet(lines) /\ Terms(e, lines) \in [lines -> Nat]
         /\ \A l \in lines :
              /\ Terms(e, lines)[l] # 0 => Cardinality(On(e, l.featureid)) > 0
              /\ OfOneType => Terms(e, lines)[l] <= WEIGHT \div l.drivecount
              /\ Cardinality(On(e, l.featureid)) > 0 => WEIGHT \div l.drivecount <= Terms(e, lines)[l]
<1>1. IsFiniteSet(lines)
  BY LinesFinite, FS_Subset DEF TableFacts
<1>2. ASSUME NEW l \in lines
      PROVE  /\ Terms(e, lines)[l] \in Nat
             /\ Terms(e, lines)[l] # 0 => Cardinality(On(e, l.featureid)) > 0
             /\ OfOneType => Terms(e, lines)[l] <= WEIGHT \div l.drivecount
             /\ Cardinality(On(e, l.featureid)) > 0 => WEIGHT \div l.drivecount <= Terms(e, lines)[l]
  <2> DEFINE q == WEIGHT \div l.drivecount
             n == Cardinality(On(e, l.featureid))
  <2>1. q \in Nat
    BY LineFrom, WeightAssumption, Divided
  <2>2. n \in Nat /\ (OfOneType => n <= 1)
    BY Counting
  <2>3. Terms(e, lines)[l] = q * n
    BY DEF Terms
  <2> HIDE DEF q, n
  <2>4. q * n \in Nat /\ (n = 0 => q * n = 0) /\ (n = 1 => q * n = q) /\ (n > 0 => q <= q * n)
    BY <2>1, <2>2
  <2>5. OfOneType => n = 0 \/ n = 1
    BY <2>2
  <2>6. OfOneType => q * n <= q
    BY <2>1, <2>4, <2>5
  <2>. QED
    BY <2>2, <2>3, <2>4, <2>6 DEF q, n
<1>. QED
  BY <1>1, <1>2 DEF Terms

LEMMA WeightsTyped ==
  ASSUME TableFacts, NEW d, NEW e, NEW t
  PROVE  IsFiniteSet(Rare(d, e, t)) /\ Weights(d, e, t) \in [Rare(d, e, t) -> Nat]
<1>1. \A x \in Rare(d, e, t) : WEIGHT \div CountOf(x, t) \in Nat
  BY Counted DEF Rare, Known
<1>. QED
  BY <1>1, RareFinite DEF Weights, TableFacts

\* Two lines of one feature are one, if no feature is of two types.
LEMMA OneLine ==
  ASSUME TableFacts, OfOneType, NEW d, NEW t,
         NEW l \in Lines(d, t, feature_frequencies), NEW k \in Lines(d, t, feature_frequencies), l.featureid = k.featureid
  PROVE  l = k
<1>1. PICK f \in feature_frequencies :
        l = [drivecount |-> f.drivecount, featureid |-> f.featureid, counted |-> f.feature_type] /\ f.feature_type = t
  BY LineFrom
<1>2. PICK g \in feature_frequencies :
        k = [drivecount |-> g.drivecount, featureid |-> g.featureid, counted |-> g.feature_type] /\ g.feature_type = t
  BY LineFrom
<1>3. f = g
  BY <1>1, <1>2 DEF TableFacts, FrequenciesSound
<1>. QED
  BY <1>1, <1>2, <1>3

\* A feature that is shared and rare has a line of its own within the threshold.
LEMMA LineOf ==
  ASSUME TableFacts, OfOneType, NEW d, NEW e, NEW t, NEW x \in Rare(d, e, t)
  PROVE  \E l \in Lines(d, t, feature_frequencies) :
           l.featureid = x /\ l.drivecount <= drive_threshold /\ l.drivecount <= CountOf(x, t)
<1>1. PICK f \in feature_frequencies : f.featureid = x
  BY DEF Rare, Known
<1>2. [driveid |-> d, feature_type |-> t, featureid |-> x] \in feature_drive_counts
  BY DEF Rare, Known, Shares, TableFacts, DriveTypeOK, Row
<1> DEFINE l == [drivecount |-> f.drivecount, featureid |-> f.featureid, counted |-> f.feature_type]
<1>3. l \in Lines(d, t, feature_frequencies)
  BY <1>1, <1>2 DEF Lines
<1>4. l.drivecount \in Nat /\ l.drivecount <= CountOf(x, t)
  BY <1>1, <1>3, LineFrom
<1>5. CountOf(x, t) \in Nat /\ CountOf(x, t) <= drive_threshold /\ drive_threshold \in Nat
  BY Counted, WeightAssumption DEF Rare, Known
<1>. QED
  BY <1>1, <1>3, <1>4, <1>5

\* The four things that CorrelationsRight says of a drive e, of the lines that were used.
LEMMA OnlyIfShared ==
  ASSUME TableFacts, NEW d, NEW t, NEW e, NEW lines, lines \subseteq Lines(d, t, feature_frequencies),
         SumFunction(Terms(e, lines)) > 0
  PROVE  Known(d, e, t) # {}
<1>1. PICK l \in lines : Terms(e, lines)[l] > 0
  BY TermsTyped, SumPositive
<1>2. \E c \in feature_drive_counts : c.driveid = e /\ c.featureid = l.featureid
  BY <1>1, TermsTyped, Counting
<1>3. /\ \E c \in feature_drive_counts : c.driveid = d /\ c.feature_type = t /\ c.featureid = l.featureid
      /\ \E f \in feature_frequencies : f.featureid = l.featureid
  BY LineFrom
<1>4. l.featureid \in Shares(d, e, t)
  BY <1>2, <1>3 DEF Shares
<1>. QED
  BY <1>3, <1>4 DEF Known

LEMMA AtLeastShared ==
  ASSUME TableFacts, OfOneType, NEW d, NEW t, NEW e, NEW lines \in UpToThreshold(Lines(d, t, feature_frequencies))
  PROVE  LeastShared(d, e, t) <= SumFunction(Terms(e, lines))
<1> DEFINE A == Rare(d, e, t)
           f == Weights(d, e, t)
           g == Terms(e, lines)
           mine(x, l) == l.featureid = x /\ l.drivecount <= drive_threshold /\ l.drivecount <= CountOf(x, t)
           h == [x \in A |-> CHOOSE l \in lines : mine(x, l)]
<1>1. IsFiniteSet(A) /\ f \in [A -> Nat]
  BY WeightsTyped
<1>2. lines \subseteq Lines(d, t, feature_frequencies)
  BY Used
<1>3. IsFiniteSet(lines) /\ g \in [lines -> Nat]
  BY <1>2, TermsTyped
<1>4. ASSUME NEW x \in A
      PROVE  h[x] \in lines /\ mine(x, h[x])
  <2>1. PICK l \in Lines(d, t, feature_frequencies) : mine(x, l)
    BY LineOf
  <2>2. l \in lines
    BY <2>1, Used
  <2>. QED
    BY <2>1, <2>2
<1>5. ASSUME NEW x \in A
      PROVE  f[x] <= g[h[x]]
  <2> DEFINE l == h[x]
  <2>1. l \in lines /\ l.featureid = x /\ l.drivecount <= CountOf(x, t)
    BY <1>4
  <2> HIDE DEF l
  <2>2. x \in Shares(d, e, t)
    BY DEF Rare, Known
  <2>3. Cardinality(On(e, l.featureid)) > 0
    BY <2>1, <2>2, Counting DEF Shares
  <2>4. l.drivecount \in Nat /\ 1 <= l.drivecount
    BY <1>2, <2>1, LineFrom
  <2>5. WEIGHT \div CountOf(x, t) <= WEIGHT \div l.drivecount
    BY <2>1, <2>2, <2>4, Counted, Divided, WeightAssumption
  <2>6. WEIGHT \div l.drivecount <= g[l]
    BY <1>2, <2>1, <2>3, TermsTyped
  <2>7. f[x] = WEIGHT \div CountOf(x, t) /\ f[x] \in Nat /\ g[l] \in Nat
    BY <1>1, <1>3, <2>1 DEF Weights
  <2>8. WEIGHT \div l.drivecount \in Nat
    BY <2>4, Divided, WeightAssumption
  <2>9. f[x] <= g[l]
    BY <2>5, <2>6, <2>7, <2>8
  <2>. QED
    BY <2>9 DEF l
<1>6. \A x, y \in A : h[x] = h[y] => x = y
  BY <1>4
<1> HIDE DEF A, f, g, h
<1>7. SumFunction(f) <= SumFunction(g)
  BY <1>1, <1>3, <1>4, <1>5, <1>6, SumAtMost
<1>. QED
  BY <1>7 DEF f, g, LeastShared, Weights

LEMMA AtMostOneFurther ==
  ASSUME TableFacts, OfOneType, feature_frequencies = Frequencies(feature_drive_counts),
         NEW d, NEW t, NEW e, NEW lines \in UpToThreshold(Lines(d, t, feature_frequencies))
  PROVE  SumFunction(Terms(e, lines)) <= LeastShared(d, e, t) + (WEIGHT \div (drive_threshold + 1))
<1> DEFINE within == {l \in Lines(d, t, feature_frequencies) : l.drivecount <= drive_threshold}
           f == Terms(e, within)
           B == Rare(d, e, t)
           g == Weights(d, e, t)
           h == [l \in within |-> l.featureid]
<1>1. IsFiniteSet(B) /\ g \in [B -> Nat]
  BY WeightsTyped
<1>2. IsFiniteSet(within) /\ f \in [within -> Nat]
  BY TermsTyped
<1>3. ASSUME NEW l \in within, f[l] # 0
      PROVE  h[l] \in B /\ f[l] <= g[h[l]]
  <2>1. \E c \in feature_drive_counts : c.driveid = e /\ c.featureid = l.featureid
    BY <1>3, TermsTyped, Counting
  <2>2. /\ \E c \in feature_drive_counts : c.driveid = d /\ c.feature_type = t /\ c.featureid = l.featureid
        /\ \E r \in feature_frequencies : r.featureid = l.featureid
        /\ l.drivecount = CountOf(l.featureid, t)
    BY LineFrom
  <2>3. l.featureid \in B
    <3>1. l.featureid \in Known(d, e, t)
      BY <2>1, <2>2 DEF Known, Shares
    <3>. QED
      BY <2>2, <3>1 DEF Rare
  <2>4. f[l] <= WEIGHT \div l.drivecount
    BY TermsTyped
  <2>5. g[l.featureid] = WEIGHT \div l.drivecount
    BY <2>2, <2>3 DEF Weights
  <2>. QED
    BY <2>3, <2>4, <2>5
<1>4. \A l, k \in within : h[l] = h[k] => l = k
  BY OneLine
<1> DEFINE sum == SumFunction(f)
           least == SumFunction(g)
           further == WEIGHT \div (drive_threshold + 1)
<1>5. sum <= least
  <2> HIDE DEF within, f, B, g, h
  <2>. QED
    BY <1>1, <1>2, <1>3, <1>4, SumAtMost
<1>6. sum \in Nat /\ least \in Nat
  <2> HIDE DEF within, f, B, g
  <2>. QED
    BY <1>1, <1>2, SumIs
<1>7. further \in Nat
  BY WeightAssumption, Divided
<1>8. SumFunction(Terms(e, lines)) <= sum + further
  <2>1. CASE lines = within
    BY <1>6, <1>7, <2>1
  <2>2. CASE \E l \in lines \ within : lines \ {l} = within
    <3>1. PICK l \in lines \ within : lines \ {l} = within
      BY <2>2
    <3>2. lines \subseteq Lines(d, t, feature_frequencies)
      BY Used
    <3>3. l.drivecount \in Nat /\ drive_threshold + 1 <= l.drivecount
      BY <3>1, <3>2, LineFrom, WeightAssumption
    <3>4. WEIGHT \div l.drivecount <= further /\ WEIGHT \div l.drivecount \in Nat
      <4>1. drive_threshold + 1 \in Nat /\ 1 <= drive_threshold + 1 /\ WEIGHT \in Nat
        BY WeightAssumption
      <4> HIDE DEF within
      <4>. QED
        BY <3>3, <4>1, Divided
    <3>5. Terms(e, lines)[l] \in Nat /\ Terms(e, lines)[l] <= WEIGHT \div l.drivecount
      BY <3>1, <3>2, TermsTyped
    <3>6. [k \in lines \ {l} |-> Terms(e, lines)[k]] = f
      BY <3>1 DEF Terms
    <3>7. SumFunction(Terms(e, lines)) = Terms(e, lines)[l] + sum
      <4> DEFINE all == Terms(e, lines)
      <4>1. IsFiniteSet(lines) /\ all \in [lines -> Nat] /\ l \in lines
        BY <3>1, <3>2, TermsTyped
      <4>2. sum = SumFunction([k \in lines \ {l} |-> all[k]])
        BY <3>6
      <4> HIDE DEF all, sum
      <4>3. SumFunction(all) = all[l] + SumFunction([k \in lines \ {l} |-> all[k]])
        BY <4>1, SumOneMore
      <4>. QED
        BY <4>2, <4>3 DEF all
    <3>. QED
      BY <1>6, <1>7, <3>4, <3>5, <3>7
  <2>. QED
    BY <2>1, <2>2, Used
<1>9. SumFunction(Terms(e, lines)) \in Nat
  BY Used, TermsTyped, SumIs
<1>10. least = LeastShared(d, e, t)
  BY DEF LeastShared, Weights
<1>. QED
  BY <1>5, <1>6, <1>7, <1>8, <1>9, <1>10

LEMMA UniqueIsNotShared ==
  ASSUME TableFacts, OfOneType, feature_frequencies = Frequencies(feature_drive_counts),
         NEW d, NEW t, NEW e, e # d, NEW l \in Lines(d, t, feature_frequencies), l.drivecount = 1
  PROVE  l.featureid \notin Shares(d, e, t)
<1> SUFFICES ASSUME l.featureid \in Shares(d, e, t) PROVE FALSE
  OBVIOUS
<1> DEFINE those == {k \in feature_drive_counts : k.featureid = l.featureid /\ k.feature_type = t}
<1>1. Cardinality(those) = 1 /\ IsFiniteSet(those)
  <2>1. CountOf(l.featureid, t) = 1
    BY LineFrom
  <2>2. IsFiniteSet(those)
    BY FS_Subset DEF TableFacts, RowsFinite
  <2>. QED
    BY <2>1, <2>2 DEF CountOf
<1>2. PICK z : those = {z}
  BY <1>1, FS_Singleton
<1>3. PICK c \in feature_drive_counts : c.driveid = d /\ c.feature_type = t /\ c.featureid = l.featureid
  BY LineFrom
<1>4. PICK k \in feature_drive_counts : k.driveid = e /\ k.featureid = l.featureid
  BY DEF Shares
<1>5. k.feature_type = t
  BY <1>3, <1>4 DEF OfOneType
<1>6. c \in those /\ k \in those
  BY <1>3, <1>4, <1>5
<1>. QED
  BY <1>2, <1>3, <1>4, <1>6

LEMMA PrintsRight == TableFacts /\ Printed => CorrelationsRight
<1> SUFFICES ASSUME TableFacts, Printed, NEW e \in DOMAIN drives \ {printed.driveid}, printed.driveid > 0
             PROVE  LET d == printed.driveid
                        t == printed.type
                    IN  /\ printed.coefs[e] > 0 => Known(d, e, t) # {}
                        /\ OfOneType => printed.coefs[e] >= LeastShared(d, e, t)
                        /\ OfOneType /\ feature_frequencies = Frequencies(feature_drive_counts) =>
                             /\ printed.coefs[e] <= LeastShared(d, e, t) + (WEIGHT \div (drive_threshold + 1))
                             /\ \A x \in printed.unique : x \notin Shares(d, e, t)
  BY DEF CorrelationsRight
<1> DEFINE d == printed.driveid
           t == printed.type
<1>1. PICK lines \in UpToThreshold(Lines(d, t, feature_frequencies)) : printed.coefs = Weighed(d, lines)
  BY DEF Printed
<1>2. printed.coefs[e] = SumFunction(Terms(e, lines))
  <2>1. e \in (1 .. Len(drives)) \ {d}
    BY DEF TableFacts, DriveTypeOK
  <2>. QED
    BY <1>1, <2>1 DEF Weighed, Terms, On
<1>3. lines \subseteq Lines(d, t, feature_frequencies)
  BY Used
<1>4. printed.coefs[e] > 0 => Known(d, e, t) # {}
  BY <1>2, <1>3, OnlyIfShared
<1>5. OfOneType => printed.coefs[e] >= LeastShared(d, e, t)
  <2>1. printed.coefs[e] \in Nat /\ LeastShared(d, e, t) \in Nat
    BY <1>2, <1>3, TermsTyped, WeightsTyped, SumIs DEF LeastShared, Weights
  <2>. QED
    BY <1>2, <2>1, AtLeastShared
<1>6. OfOneType /\ feature_frequencies = Frequencies(feature_drive_counts) =>
        printed.coefs[e] <= LeastShared(d, e, t) + (WEIGHT \div (drive_threshold + 1))
  BY <1>2, AtMostOneFurther
<1>7. OfOneType /\ feature_frequencies = Frequencies(feature_drive_counts) => \A x \in printed.unique : x \notin Shares(d, e, t)
  BY UniqueIsNotShared DEF Printed
<1>. QED
  BY <1>4, <1>5, <1>6, <1>7

-----------------------------------------------------------------------------
\* The tables and what was printed of them, from command to command.
LEMMA PrintedStep ==
  ASSUME DriveTypeOK, RowsFinite, IsFiniteSet(feature_frequencies), Printed, [DriveNext]_drive_vars
  PROVE  IsFiniteSet(feature_frequencies)' /\ Printed'
<1>1. ASSUME NEW r \in Reports, NEW reimport \in BOOLEAN, ingest(r, reimport)
      PROVE  IsFiniteSet(feature_frequencies)' /\ Printed'
  BY <1>1 DEF ingest, Nothing, Printed
<1>2. CASE build_feature_frequencies
  BY <1>2, FrequenciesFinite DEF build_feature_frequencies, Nothing, Printed, RowsFinite
<1>3. ASSUME NEW d \in 1 .. Len(drives) + 1, NEW t \in Types, make_report(d, t)
      PROVE  IsFiniteSet(feature_frequencies)' /\ Printed'
  <2>1. UNCHANGED <<drives, feature_drive_counts>> /\ feature_frequencies' \in {feature_frequencies, Frequencies(feature_drive_counts)}
    BY <1>3 DEF make_report
  <2>2. IsFiniteSet(feature_frequencies)'
    BY <2>1, FrequenciesFinite DEF RowsFinite
  <2>3. CASE d \notin DOMAIN drives
    BY <1>3, <2>2, <2>3 DEF make_report, Nothing, Printed
  <2>4. CASE d \in DOMAIN drives
    <3>1. PICK lines \in UpToThreshold(Lines(d, t, feature_frequencies')) :
            printed' = [driveid |-> d, type |-> t,
                        unique |-> {l.featureid : l \in {k \in Lines(d, t, feature_frequencies') : k.drivecount = 1}},
                        coefs |-> Weighed(d, lines)]
      BY <1>3, <2>4 DEF make_report
    <3>2. printed'.driveid = d /\ printed'.type = t /\ printed'.coefs = Weighed(d, lines)
          /\ printed'.unique = {l.featureid : l \in {k \in Lines(d, t, feature_frequencies') : k.drivecount = 1}}
      BY <3>1
    <3>3. Lines(printed.driveid, printed.type, feature_frequencies)' = Lines(d, t, feature_frequencies')
      BY <2>1, <3>2 DEF Lines
    <3>4. Weighed(printed.driveid, lines)' = Weighed(d, lines)
      BY <2>1, <3>2 DEF Weighed
    <3>. QED
      BY <2>1, <2>2, <2>4, <3>1, <3>2, <3>3, <3>4 DEF Printed
  <2>. QED
    BY <2>2, <2>3, <2>4
<1>4. CASE UNCHANGED drive_vars
  <2>1. drives' = drives /\ feature_drive_counts' = feature_drive_counts /\ feature_frequencies' = feature_frequencies /\ printed' = printed
    BY <1>4 DEF drive_vars
  <2>2. Lines(printed.driveid, printed.type, feature_frequencies)' = Lines(printed.driveid, printed.type, feature_frequencies)
    BY <2>1 DEF Lines
  <2>3. \A lines : Weighed(printed.driveid, lines)' = Weighed(printed.driveid, lines)
    BY <2>1 DEF Weighed
  <2>. QED
    BY <2>1, <2>2, <2>3 DEF Printed
<1>. QED
  BY <1>1, <1>2, <1>3, <1>4 DEF DriveNext

LEMMA PrintedFirst == DriveInit => IsFiniteSet(feature_frequencies) /\ Printed
  BY FS_EmptySet DEF DriveInit, Nothing, Printed

\* CorrelationsRight: for any reports, threshold and weight, what a report prints of two drives
\* rests on a feature they share, weighs at least what they share and is rare, and, from an
\* up-to-date table, at most one further feature; and what it calls unique is on one drive.
THEOREM Correlated == DriveSpec => []CorrelationsRight
<1> DEFINE Inv == DriveTypeOK /\ RowsFinite /\ DatabaseSound /\ IsFiniteSet(feature_frequencies) /\ Printed
<1>1. DriveInit => Inv
  BY Initially, PrintedFirst
<1>2. Inv /\ [DriveNext]_drive_vars => Inv'
  BY Stepped, PrintedStep
<1>3. Inv => CorrelationsRight
  BY PrintsRight DEF TableFacts, DatabaseSound
<1>. QED
  BY <1>1, <1>2, <1>3, PTL DEF DriveSpec
===============================================================================
