--------------------------- MODULE DriveCorrelation ---------------------------
(***************************************************************************)
(* cda2_tool.py: a database of the features of many drives.  Each command  *)
(* is a process of its own over the tables; a report is ingested in one    *)
(* transaction, which an exception undoes.  The frequencies are a table,   *)
(* too, which is built on command, or by a report that finds it empty.     *)
(*                                                                         *)
(* Left out: what --all writes.  It begins at the greatest drive it has    *)
(* correlated before; that of none is None, and range(None, 2000) raises.  *)
(***************************************************************************)
EXTENDS Naturals, Sequences, FiniteSets, Functions

CONSTANTS
  Reports,          \* the directories of reports that may be named
  Features,         \* what a report may list
  image_filename,   \* of each, the image that was scanned
  entries,          \* and what its histograms and winpe.txt list: [feature_type, featureid]
  Incomplete,       \* those that lack one of the files
  Cached,           \* the search terms that begin with "cache:"
  drive_threshold, WEIGHT
Types == {"search", "email", "winpe"}
ASSUME EntriesAssumption ==
  \A r \in Reports : IsFiniteSet(entries[r]) /\ entries[r] \subseteq [feature_type : Types, featureid : Features]
ASSUME WeightAssumption == drive_threshold \in Nat /\ WEIGHT \in Nat

VARIABLES drives, feature_drive_counts, feature_frequencies, printed
drive_vars == <<drives, feature_drive_counts, feature_frequencies, printed>>

Nothing == [driveid |-> 0]
\* The rows of one drive: a search term from the cache is passed over.
RowsOf(d, r) ==
  {[driveid |-> d, feature_type |-> e.feature_type, featureid |-> e.featureid] :
     e \in {f \in entries[r] : ~(f.feature_type = "search" /\ f.featureid \in Cached)}}

Named(r) == \E d \in DOMAIN drives : drives[d].drivename = image_filename[r]
AlreadyImported(r, reimport) == ~reimport /\ (Named(r) \/ \E d \in DOMAIN drives : drives[d].report_fn = r)

\* Mutant: the row of the drive is committed before its features are read.
ingest_TwoTransactions(r, reimport) ==
  /\ ~AlreadyImported(r, reimport) /\ ~Named(r)
  /\ drives' = Append(drives, [drivename |-> image_filename[r], report_fn |-> r])
  /\ feature_drive_counts' = feature_drive_counts \cup (IF r \in Incomplete THEN {} ELSE RowsOf(Len(drives) + 1, r))
  /\ printed' = Nothing /\ UNCHANGED feature_frequencies
\* Mutant: the features are committed before the row of their drive, which can fail.
ingest_FeaturesFirst(r, reimport) ==
  /\ ~AlreadyImported(r, reimport) /\ r \notin Incomplete
  /\ drives' = IF Named(r) THEN drives ELSE Append(drives, [drivename |-> image_filename[r], report_fn |-> r])
  /\ feature_drive_counts' = feature_drive_counts \cup RowsOf(Len(drives) + 1, r)
  /\ printed' = Nothing /\ UNCHANGED feature_frequencies
\* A drive is inserted even if --reimport names one that is there: the name is UNIQUE, and
\* the command ends.  It ends, too, at a file that is missing.
ingest(r, reimport) ==
  /\ ~AlreadyImported(r, reimport) /\ ~Named(r) /\ r \notin Incomplete
  /\ drives' = Append(drives, [drivename |-> image_filename[r], report_fn |-> r])
  /\ feature_drive_counts' = feature_drive_counts \cup RowsOf(Len(drives) + 1, r)
  /\ printed' = Nothing /\ UNCHANGED feature_frequencies

\* The rows of feature_drive_counts grouped by feature and type.
Together(C, c) == {x \in C : x.feature_type = c.feature_type /\ x.featureid = c.featureid}
Frequencies(C) ==
  {[feature_type |-> c.feature_type, featureid |-> c.featureid, drivecount |-> Cardinality(Together(C, c))] : c \in C}
build_feature_frequencies ==
  /\ feature_frequencies' = Frequencies(feature_drive_counts)
  /\ printed' = Nothing /\ UNCHANGED <<drives, feature_drive_counts>>

-----------------------------------------------------------------------------
\* The features of a drive that are of this type, with what the frequencies have about them;
\* these are joined by the feature alone, so that one that is of two types comes twice.
Lines(d, t, R) ==
  {[drivecount |-> f.drivecount, featureid |-> f.featureid, counted |-> f.feature_type] :
     f \in {g \in R : [driveid |-> d, feature_type |-> t, featureid |-> g.featureid] \in feature_drive_counts}}
\* Mutant: every line is used.
UpToThreshold_All(lines) == {lines}
\* The lines in the order of their drivecount, up to the first beyond drive_threshold: that
\* one is used yet.
UpToThreshold(lines) ==
  LET within == {l \in lines : l.drivecount <= drive_threshold}
      first == {l \in lines \ within : \A k \in lines \ within : l.drivecount <= k.drivecount}
  IN  IF first = {} THEN {within} ELSE {within \cup {l} : l \in first}

Weighed(d, lines) ==
  [e \in (1 .. Len(drives)) \ {d} |->
     SumFunction([l \in lines |->
       (WEIGHT \div l.drivecount) * Cardinality({c \in feature_drive_counts : c.driveid = e /\ c.featureid = l.featureid})])]
\* One section of a report.  Without a row in the table of frequencies that is built first.
make_report(d, t) ==
  LET R == IF feature_frequencies = {} THEN Frequencies(feature_drive_counts) ELSE feature_frequencies IN
  /\ feature_frequencies' = R
  /\ IF d \in DOMAIN drives
     THEN \E lines \in UpToThreshold(Lines(d, t, R)) :
            printed' = [driveid |-> d, type |-> t, unique |-> {l.featureid : l \in {k \in Lines(d, t, R) : k.drivecount = 1}},
                        coefs |-> Weighed(d, lines)]
     ELSE printed' = Nothing
  /\ UNCHANGED <<drives, feature_drive_counts>>

DriveInit == drives = <<>> /\ feature_drive_counts = {} /\ feature_frequencies = {} /\ printed = Nothing
\* Bounded in the runs: a report may be asked of a driveid that there is not.
DriveNext ==
  \/ \E r \in Reports, reimport \in BOOLEAN : ingest(r, reimport)
  \/ build_feature_frequencies
  \/ \E d \in 1 .. Len(drives) + 1, t \in Types : make_report(d, t)
DriveSpec == DriveInit /\ [][DriveNext]_drive_vars

-----------------------------------------------------------------------------
Row == [driveid : DOMAIN drives, feature_type : Types, featureid : Features]
\* The tables have their columns.
DriveTypeOK ==
  /\ drives \in Seq([drivename : {image_filename[r] : r \in Reports}, report_fn : Reports])
  /\ feature_drive_counts \subseteq Row
  /\ feature_frequencies \subseteq [feature_type : Types, featureid : Features, drivecount : Nat]

\* A drive that is listed has all the features of its report and no others, whatever failed
\* before or was imported again, and there is one drive for an image.
DrivesAreReports ==
  /\ \A d, e \in DOMAIN drives : drives[d].drivename = drives[e].drivename => d = e
  /\ feature_drive_counts = UNION {RowsOf(d, drives[d].report_fn) : d \in DOMAIN drives}
\* A feature of one type is counted once, on one drive or more, and on no more than it is on
\* now: an old table can make a drive's features look rarer than they are, never commoner.
FrequenciesSound ==
  \A f \in feature_frequencies :
    /\ 1 <= f.drivecount /\ f.drivecount <= Cardinality(Together(feature_drive_counts, f))
    /\ \A g \in feature_frequencies : f.feature_type = g.feature_type /\ f.featureid = g.featureid => f = g
DatabaseSound == DrivesAreReports /\ FrequenciesSound

\* The features of a type on d that e has, too; those the table of frequencies knows; and of
\* these, those on no more drives than the threshold.
Shares(d, e, t) ==
  {x \in {c.featureid : c \in {k \in feature_drive_counts : k.driveid = d /\ k.feature_type = t}} :
     \E c \in feature_drive_counts : c.driveid = e /\ c.featureid = x}
OfOneType == \A c, k \in feature_drive_counts : c.featureid = k.featureid => c.feature_type = k.feature_type
CountOf(x, t) == Cardinality({k \in feature_drive_counts : k.featureid = x /\ k.feature_type = t})
Known(d, e, t) == {x \in Shares(d, e, t) : \E f \in feature_frequencies : f.featureid = x}
Rare(d, e, t) == {x \in Known(d, e, t) : CountOf(x, t) <= drive_threshold}
LeastShared(d, e, t) == SumFunction([x \in Rare(d, e, t) |-> WEIGHT \div CountOf(x, t)])
\* What a report says of two drives: they are correlated only if they share a feature.  While
\* no feature is of two types (the frequencies are joined by the feature alone), they are so
\* by as much as those they share that are on no more drives than the threshold weigh, or
\* more, if the table of frequencies knows them; if it is up to date, by no more than one
\* further feature weighs, and what is called unique is on no other drive.
CorrelationsRight ==
  \A e \in DOMAIN drives \ {printed.driveid} :
    printed.driveid > 0 =>
      LET d == printed.driveid
          t == printed.type
      IN  /\ printed.coefs[e] > 0 => Known(d, e, t) # {}
          /\ OfOneType => printed.coefs[e] >= LeastShared(d, e, t)
          /\ OfOneType /\ feature_frequencies = Frequencies(feature_drive_counts) =>
               /\ printed.coefs[e] <= LeastShared(d, e, t) + (WEIGHT \div (drive_threshold + 1))
               /\ \A x \in printed.unique : x \notin Shares(d, e, t)
===============================================================================
