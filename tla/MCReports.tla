------------------------------- MODULE MCReports -------------------------------
(***************************************************************************)
(* What a run leaves behind, and those who read it: the program that is    *)
(* started again on an output directory with a report.xml, and the tools,  *)
(* each job of which is of one tool on a few small reports, disks or       *)
(* databases.  A process of either kind is looked at by itself.            *)
(***************************************************************************)
EXTENDS Restart, DriveCorrelation, ReportTools

\* A split image with a short last page, two workers, killed and started again.
TwoParts == << [offset |-> 0, length |-> 3], [offset |-> 3, length |-> 2] >>
NewDirectory == {{}}
CONSTANTS w1, w2
WholeImage == {[threads |-> {w1, w2}, opt_scan_start |-> 0, opt_scan_end |-> 0, sampling_fraction |-> 100]}

\* cda2_tool.py: two reports are of one image, and one lacks a file.
E(t, x) == [feature_type |-> t, featureid |-> x]
MCReports == {"a", "b", "c", "c2", "d", "empty"}
MCImages == [r \in MCReports |-> IF r = "c2" THEN "c" ELSE r]
MCEntries ==
  [a |-> {E("email", "x"), E("email", "y"), E("search", "x"), E("search", "old")},
   b |-> {E("email", "x"), E("email", "y"), E("email", "z"), E("winpe", "w")},
   c |-> {E("email", "x"), E("email", "y"), E("winpe", "w")},
   d |-> {E("winpe", "w"), E("email", "z"), E("email", "y")},
   c2 |-> {E("email", "z"), E("search", "old")}, empty |-> {E("email", "z")}]

\* report_identified_runs.py: a disk of four or five file blocks from a sector on; what each
\* has of the file, 0 if it is blank, 9 if it has nothing of it.
Place(base, i) == base + (8 * (i - 1))
Meta(n, odd) == [count |-> IF n = 2 THEN odd ELSE IF n = 9 THEN 20 ELSE 1, flags |-> n = 3]
HashJob(cells, base, odd, blocks, others) ==
  [tool |-> "hash_runs",
   hits |-> [k \in {Place(base, i) : i \in {j \in DOMAIN cells : cells[j] # 0}} |-> cells[((k - base) \div 8) + 1]],
   explained |-> [n \in 1 .. 5 |-> [count |-> Meta(n, odd).count, flags |-> Meta(n, odd).flags,
                                    sources |-> {[source_id |-> "s", file_block |-> n]} \cup {x.source : x \in {y \in others : y.n = n}}]],
   blocks |-> [s |-> blocks, t |-> 3], blank |-> {Place(base, i) : i \in {j \in DOMAIN cells : cells[j] = 0}}]
Source(s, n) == [source_id |-> s, file_block |-> n]
Others == {{}, {[n |-> 1, source |-> Source("t", 2)], [n |-> 3, source |-> Source("t", 3)]}, {[n |-> 1, source |-> Source("s", 4)]}}
HashJobs ==
  {HashJob(c, base, 1, 5, others) : c \in [1 .. 5 -> {1, 2, 3, 4, 0, 9}], base \in {8, 11}, others \in Others}
  \cup {HashJob(c, 11, odd, blocks, {}) : c \in [1 .. 4 -> {1, 2, 3, 0}], odd \in {0, 20}, blocks \in {0, 4}}

\* identify_filenames.py: two runs anywhere, or a run in another; paths with a transformation.
Extent(a, s, n, f) == [allocated |-> a, start |-> s, length |-> n, file |-> f]
ExtentChoices ==
  {{Extent(TRUE, s, n, 1), Extent(a, t, m, 2)} : a \in BOOLEAN, s, t \in 0 .. 3, n, m \in 0 .. 4}
  \cup {{Extent(TRUE, 0, 5, 1), Extent(TRUE, 1, n, 2), Extent(FALSE, s, 3, 3)} : n \in 0 .. 2, s \in 0 .. 3}
Path(n, rest, inner) == [is |-> "image", number |-> n, rest |-> rest, inner |-> inner]
Line(p, fields) == [is |-> "line", path |-> p, fields |-> fields]
LineChoices ==
  {<<[is |-> "comment"], Line(Path(n, <<>>, 0), 3), Line(Path(m, rest, 1), 3)>> :
     n \in 0 .. 4, m \in 0 .. 3, rest \in {<<>>, <<"XOR">>, <<"XOR(255)">>, <<"GZIP">>}}
  \cup {<<Line(Path(n, <<>>, 0), 3), Line(Path(1, <<>>, 0), f), Line([is |-> "file"], 3), Line(Path(1, <<>>, 0), 3)>> :
          n \in 0 .. 4, f \in {2, 5}}
NameJobs == {[tool |-> "identify_filenames", extents |-> e, lines |-> l] : e \in ExtentChoices, l \in LineChoices}

\* bulk_diff.py: two reports with a file of features, of a histogram or of neither.
Comment == [is |-> "comment", marked |-> FALSE]
Marked == [is |-> "comment", marked |-> TRUE]
Count(v, n) == [is |-> "n=", value |-> v, n |-> n]
Fields(k, o, f) == [is |-> "fields", first |-> "digit", fields |-> k, offset |-> o, feature |-> f]
Beginning(first, o, f) == [Fields(3, o, f) EXCEPT !.first = first]
FeatureLines ==
  {<<>>, <<Comment>>, <<Fields(3, 1, "a")>>, <<Comment, Fields(3, 1, "b"), Fields(3, 2, "a")>>, <<Marked, Fields(3, 2, "a")>>,
   <<Fields(3, 2, "a"), Fields(2, 1, "a")>>, <<Fields(2, 1, "a"), Fields(3, 3, "a")>>,
   <<Fields(3, 1, "a"), Beginning("other", 3, "a"), Fields(11, 4, "a"), Fields(12, 5, "b")>>,
   <<Beginning("file", 3, "a"), Fields(3, 1, "a")>>}
HistogramLines ==
  {<<>>, <<Comment, Count("x", 1)>>, <<Count("x", 2), Count("y", 1)>>, <<Count("x", 2), Count("x", 3)>>, <<Count("y", 3)>>}
OneReport ==
  {[email |-> f] : f \in FeatureLines} \cup {[email |-> f, email_histogram |-> h] : f \in FeatureLines, h \in HistogramLines}
  \cup {[wordlist |-> f] : f \in FeatureLines} \cup {[ccn_histogram |-> h, email |-> <<>>] : h \in HistogramLines}
DiffJob(p, q, b, s, h) == [tool |-> "bulk_diff", pre |-> p, post |-> q, both |-> b, same |-> s, smaller |-> s, html |-> h]
DiffJobs == {DiffJob(p, q, b, s, FALSE) : p, q \in OneReport, b, s \in BOOLEAN} \cup {DiffJob(p, p, FALSE, FALSE, TRUE) : p \in OneReport}

\* cda_tool.py: up to three reports, of which some name no drive.
Shared == {[email |-> e, ccn |-> c] : e \in SUBSET {"x", "y"}, c \in SUBSET {"x"}}
Of(d, p) == [drive |-> d, features |-> p]
AffinityJob(r, m, t) == [tool |-> "cda_tool", reports |-> r, makecombined |-> m, threshold |-> t]
AffinityJobs ==
  {AffinityJob(<<Of(d, p), Of(e, q)>>, m, t) : d, e \in {"", "a", "b"}, p, q \in Shared, m \in BOOLEAN, t \in {50, 66}}
  \cup {AffinityJob(<<Of("a", p), Of("b", q), Of("c", s)>>, FALSE, 66) : p, q, s \in Shared}

\* identify_filenames.py: which files it is asked for, and what is in its way.
Files(asked, files, out, there, broken) ==
  [tool |-> "identify_all", asked |-> asked, files |-> files, ours |-> FALSE, map |-> "read", empty |-> FALSE, found |-> FALSE,
   outdir |-> IF out = {} THEN "missing" ELSE "directory", annotated |-> out, there |-> there, broken |-> broken]
IdentifyJobs ==
  {Files("files", f, out, there, broken) : f \in {<<"a">>, <<"a", "b">>, <<"b", "a", "b">>}, out, there, broken \in SUBSET {"a", "b"}}
  \cup {[Files(asked, <<"a">>, {}, {"a"}, {}) EXCEPT !.ours = ours, !.map = map, !.empty = empty, !.found = found, !.outdir = outdir] :
          asked \in {"path", "list", "nothing", "files"}, ours, empty, found \in BOOLEAN, map \in {"none", "kept", "read"},
          outdir \in {"missing", "directory", "file"}}

\* bulk_extractor_reader.py: the reports in a ZIP file, or a directory.
Names == {<<>>, <<"d/">>, <<"old_">>, <<"e/", "d/">>}
ZipNames == {p \o <<f>> : p \in Names, f \in {REPORT, "email.txt"}}
Opening(named, names) == [tool |-> "report", named |-> named, names |-> names, wanted |-> {<<"email.txt">>, <<"e/", "email.txt">>}]
OpenJobs ==
  {Opening("zip", names) : names \in UNION {{<<a>>, <<a, b>>, <<a, b, c>>} : a, b, c \in ZipNames}}
  \cup {Opening(named, names) : named \in {"report.xml", "bare", "xml", "directory", "other"},
                                names \in {<<>>, <<<<REPORT>>>>, <<<<REPORT>>, <<"email.txt">>>>}}

\* scan_wordlist.cpp: a word list with comments and empty words, and memory that is short.
WordLine(c, w) == [comment |-> c, word |-> w]
WordJobs ==
  {[tool |-> "wordlist", lines |-> <<WordLine(TRUE, "a"), WordLine(FALSE, v), WordLine(FALSE, w), WordLine(FALSE, x)>>,
    nomemory |-> short, unopened |-> u, strings |-> FALSE, readable |-> TRUE] :
      v, w, x \in {"", "a", "b"}, short \in SUBSET (1 .. 4), u \in 0 .. 2}
  \cup {[tool |-> "wordlist", lines |-> <<WordLine(FALSE, "a")>>, nomemory |-> {}, unopened |-> 0, strings |-> s, readable |-> r] :
          s, r \in BOOLEAN}

\* One process: bulk_extractor, or a tool.
ProgramRuns == job = [tool |-> "bulk_extractor"] /\ todo = {}
ToolRuns ==
  \/ job = [tool |-> "cda2_tool"] /\ todo = {}
  \/ job \in HashJobs /\ todo = HashRunsTodo
  \/ job \in NameJobs /\ todo = FileNamesTodo
  \/ job \in DiffJobs /\ todo = DiffTodo
  \/ job \in AffinityJobs /\ todo = AffinityTodo
  \/ job \in IdentifyJobs /\ todo = IdentifyTodo
  \/ job \in OpenJobs /\ todo = ReportTodo
  \/ job \in WordJobs /\ todo = WordlistTodo
ToolSteps ==
  \/ job.tool = "cda2_tool" /\ DriveNext /\ UNCHANGED job_vars
  \/ (hash_sets \/ hash_runs \/ process_featurefile2 \/ DiffStep \/ AffinityStep) /\ UNCHANGED drive_vars
  \/ (identify_start \/ identify_file \/ BulkReport_init \/ BulkReport_open \/ wordlist_shutdown) /\ UNCHANGED drive_vars

ReportsInit == RInit /\ DriveInit /\ written = <<>> /\ (ProgramRuns \/ ToolRuns)
ReportsNext ==
  \/ job.tool = "bulk_extractor" /\ RNext /\ UNCHANGED <<drive_vars, job_vars>>
  \/ job.tool # "bulk_extractor" /\ ToolSteps /\ UNCHANGED rvars
ReportsSpec == ReportsInit /\ [][ReportsNext]_<<rvars, drive_vars, job_vars>>

\* Whatever tool was run on a report, what it has written is right of what it was given:
\* the runs of blocks, the names of files and the files with them, the differences of two
\* reports, the nearness of two drives, the files of a report, the words of a list.
ToolsRight ==
  CASE job.tool = "hash_runs" -> RunsSound /\ RunsFound
    [] job.tool = "identify_filenames" -> NamesRight /\ LinesKept
    [] job.tool = "bulk_diff" -> DiffRight
    [] job.tool = "cda_tool" -> AffinityRight
    [] job.tool = "identify_all" -> FilesAnnotated
    [] job.tool = "report" -> ReportOpened
    [] job.tool = "wordlist" -> WordsKept
    [] OTHER -> TRUE
===============================================================================
