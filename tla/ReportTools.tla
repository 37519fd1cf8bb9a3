------------------------------ MODULE ReportTools ------------------------------
(***************************************************************************)
(* A tool that reads a finished report: the job it was given, and what it  *)
(* has written.  An exception ends the tool and leaves what it has written *)
(* so far.                                                                 *)
(***************************************************************************)
EXTENDS Integers, Sequences, FiniteSets, SequencesExt, FiniteSetsExt

CONSTANT SCORE     \* what the scores are counted in, so that their divisions are exact

VARIABLES job, written, todo
job_vars == <<job, written, todo>>

Working(tool) == job.tool = tool /\ todo # {}
\* One of the things to do is done: it adds to what is written, or raises.
Does(item, out) == todo' = todo \ {item} /\ written' = written \o out /\ UNCHANGED job
Raises == todo' = {} /\ written' = Append(written, [is |-> "raised"]) /\ UNCHANGED job
Raised == written # <<>> /\ written[Len(written)].is = "raised"

-----------------------------------------------------------------------------
(***************************************************************************)
(* report_identified_runs.py: which files lie on a disk, told by the       *)
(* hashes of its blocks.  A file block has eight sectors, and a run of     *)
(* file blocks lies eight sectors apart on the disk; runs of one file that *)
(* have only blank blocks between them are made one.                       *)
(*                                                                         *)
(* job.hits: which hash was found at a sector; job.explained: of a hash,   *)
(* its count and flags and the sources that have it, each with its block;  *)
(* job.blocks: the 4096s in the size of a source; job.blank: the sectors   *)
(* with 4096 blank bytes behind them.                                      *)
(***************************************************************************)

\* Their defaults: a value that is given is a string, which no number can be compared with.
CONSTANTS mincount, minrun

Sources(h) == {s.source_id : s \in job.explained[h].sources}
candidate_sources == UNION {Sources(h) : h \in {k \in DOMAIN job.explained : job.explained[k].count >= 1 /\ ~job.explained[k].flags}}
\* Every mention of a candidate counts, whatever the flags of the hash that mentions it.
source_id_count(s) == Cardinality({<<h, x>> \in (DOMAIN job.explained) \X (UNION {job.explained[h].sources : h \in DOMAIN job.explained}) :
                                     x \in job.explained[h].sources /\ x.source_id = s})
hash_source_file_blocks(h, s) == {x.file_block : x \in {y \in job.explained[h].sources : y.source_id = s}}

\* What HASH-SETS says of a source; one of less than a block divides by zero.
HashSetsRaises == \E s \in candidate_sources : job.blocks[s] = 0
hash_sets ==
  /\ Working("hash_runs") /\ "hash_sets" \in todo
  /\ IF HashSetsRaises THEN Raises
     ELSE Does("hash_sets", <<[is |-> "score", count |-> [s \in candidate_sources |-> source_id_count(s)],
                                whole |-> {s \in candidate_sources : source_id_count(s) >= job.blocks[s]}]>>)

\* Mutant: a block follows on another whatever its place in the file.
exists_a_larger_Any(set1, set2) == set1 # {} /\ set2 # {}
exists_a_larger(set1, set2) == \E s \in set1 : s + 1 \in set2
\* The sectors where a block of the source is, and which of its blocks it is.
BlockRuns(s) == {k \in DOMAIN job.hits : job.hits[k] \in DOMAIN job.explained /\ s \in Sources(job.hits[k])}
FileBlocks(s, k) == hash_source_file_blocks(job.hits[k], s)
Linked(s, k) == {k, k + 8} \subseteq BlockRuns(s) /\ exists_a_larger(FileBlocks(s, k), FileBlocks(s, k + 8))
Between(from, to) == {from + (8 * i) : i \in 0 .. ((to - from) \div 8)}
Runs(s) ==
  {r \in BlockRuns(s) \X BlockRuns(s) :
     /\ r[1] <= r[2] /\ (r[2] - r[1]) % 8 = 0 /\ \A k \in Between(r[1], r[2] - 8) : Linked(s, k)
     /\ ~Linked(s, r[1] - 8) /\ ~Linked(s, r[2])}
Counts(r) == [k \in Between(r[1], r[2]) |-> job.explained[job.hits[k]].count]
Kept(s) == {r \in Runs(s) : Min(Range(Counts(r))) <= mincount}
ScoreRaises(s) == \E r \in Kept(s) : 0 \in Range(Counts(r))

RunRow(s, r) ==
  [score |-> MapThenSumSet(LAMBDA k : SCORE \div Counts(r)[k], DOMAIN Counts(r)),
   physical |-> r[1], start |-> Min(FileBlocks(s, r[1])), end |-> Min(FileBlocks(s, r[2]))]
\* The rows by their last block, those of one modulus before those of the next.
Rows(s) ==
  SetToSortSeq({RunRow(s, r) : r \in Kept(s)},
               LAMBDA a, b : \/ a.end < b.end
                             \/ a.end = b.end /\ (a.physical % 8) < (b.physical % 8)
                             \/ a.end = b.end /\ a.physical % 8 = b.physical % 8 /\ a.physical < b.physical)

\* Of the blocks between two runs the first is passed over.
GapOf(a, b) == {k \in Between(a.physical + (8 * (a.end + 2 - a.start)), b.physical - 8) : k < b.physical}
\* How many blank blocks join the two rows; none if they are not to be joined.
test_combine_rows(a, b) ==
  IF b.physical - a.physical = 8 * (b.start - a.start) /\ GapOf(a, b) \subseteq job.blank THEN Cardinality(GapOf(a, b)) ELSE 0
Joined(rows, i, null_blocks) ==
  SubSeq(rows, 1, i - 2)
    \o <<[rows[i - 1] EXCEPT !.score = @ + rows[i].score + (SCORE * null_blocks), !.end = rows[i].end]>>
    \o SubSeq(rows, i + 1, Len(rows))
Combined(rows) ==
  FoldLeft(LAMBDA acc, i :
             LET null_blocks == IF i = 1 THEN 0 ELSE test_combine_rows(acc[i - 1], acc[i]) IN
             IF null_blocks = 0 THEN acc ELSE Joined(acc, i, null_blocks),
           rows, Reverse([i \in DOMAIN rows |-> i]))
\* A run of exactly minrun blocks is deleted, too.
LongEnough(rows) == SelectSeq(rows, LAMBDA a : a.end - a.start + 1 > minrun)
\* The percentage is of the modulus of the run's place on the disk, and not of the file.
PercentRaises(a) == a.physical % 8 = 0 /\ a.end - a.start # 0

\* The sources with the most blocks come first.
NextSources == {s \in todo \ {"hash_sets"} : \A t \in todo \ {"hash_sets"} : source_id_count(t) <= source_id_count(s)}
hash_runs ==
  /\ Working("hash_runs") /\ "hash_sets" \notin todo
  /\ \E s \in NextSources :
       LET rows == LongEnough(Combined(Rows(s))) IN
       IF ScoreRaises(s) \/ \E i \in DOMAIN rows : PercentRaises(rows[i]) THEN Raises
       ELSE Does(s, [i \in DOMAIN rows |-> [is |-> "run", source |-> s] @@ rows[i]])

HashRunsTodo == {"hash_sets"} \cup candidate_sources

-----------------------------------------------------------------------------
\* A block of the disk that is the file block it should be.
IsBlock(s, k, n) == k \in BlockRuns(s) /\ n \in FileBlocks(s, k)
NoneTwice(s) == \A h \in DOMAIN job.explained : Cardinality(hash_source_file_blocks(h, s)) <= 1
\* If no block of a source is twice in it: a row of the report is a piece of the file that lies
\* on the disk, blank blocks apart and the one block behind each of the runs that were joined,
\* and no block counts for more than one;
\* and each piece that is longer than minrun, and has a block rare enough, is within a row,
\* unless the tool ended early, which it does at the first such piece that lies on a sector
\* divisible by eight, at one with a hash of count 0, and at a file of less than a block.  Of
\* a piece of exactly minrun blocks nothing is said: "do not report runs shorter than this",
\* as the help has it, would report it (report_identified_runs.py:338), and the tool deletes
\* it.
RunsSound ==
  \A i \in DOMAIN written :
    written[i].is = "run" =>
      LET w == written[i]
          k(n) == w.physical + (8 * (n - w.start)) IN
      NoneTwice(w.source) =>
        /\ w.score <= SCORE * (w.end - w.start + 1) /\ minrun <= w.end - w.start + 1
        /\ w.start <= w.end /\ IsBlock(w.source, w.physical, w.start) /\ IsBlock(w.source, k(w.end), w.end)
        /\ \A n \in w.start .. w.end : IsBlock(w.source, k(n), n) \/ k(n) \in job.blank \/ IsBlock(w.source, k(n - 1), n - 1)
RunsFound ==
  todo = {} =>
    /\ Raised => \/ HashSetsRaises
                 \/ \E s \in candidate_sources : ScoreRaises(s) \/ \E k \in BlockRuns(s) : k % 8 = 0
    /\ ~Raised => \A s \in candidate_sources : NoneTwice(s) =>
         \A r \in Kept(s) : (r[2] - r[1]) \div 8 >= minrun =>
           \E i \in DOMAIN written : /\ written[i].is = "run" /\ written[i].source = s
                                     /\ written[i].start <= Min(FileBlocks(s, r[1])) /\ Min(FileBlocks(s, r[2])) <= written[i].end

-----------------------------------------------------------------------------
(***************************************************************************)
(* identify_filenames.py: to each line of a feature file the file whose    *)
(* byte run has its offset, one of the allocated files first.              *)
(*                                                                         *)
(* job.extents: the byte runs of the image, [allocated, start, length,     *)
(* file]; job.lines: of each line, how many fields it has and the path of  *)
(* its feature, a number, unless a directory was scanned, and what follows *)
(* on it.                                                                  *)
(***************************************************************************)

End(x) == x.start + x.length
\* The runs as they are sorted: by their start, then by their end.
Before(x, y) == x.start < y.start \/ (x.start = y.start /\ End(x) < End(y)) \/ (x.start = y.start /\ End(x) = End(y) /\ x.file < y.file)
FirstRun(S) == {x \in S : \A y \in S \ {x} : Before(x, y)}
LastRun(S) == {x \in S : \A y \in S \ {x} : Before(y, x)}

HasOffset(x, offset) == x.start <= offset /\ offset < End(x)
\* Mutant: of several that begin before the offset any that has it.
ToTheLeft_Any(S, offset) == {x \in S : HasOffset(x, offset)}
\* Only the last run that begins before the offset is looked at.
ToTheLeft(S, offset) == {x \in LastRun({y \in S : y.start < offset}) : HasOffset(x, offset)}
\* A run that begins with the offset is taken, be it empty.
search_offset(S, offset) ==
  LET here == {x \in S : x.start = offset} IN
  IF here # {} THEN FirstRun(here) ELSE ToTheLeft(S, offset)
\* Bisection compares an empty run at the very beginning with a string.
SearchRaises(S, offset) == offset = 0 /\ \E x \in S : End(x) = 0

Allocated == {x \in job.extents : x.allocated}
Unallocated == job.extents \ Allocated
FileAt(offset) == IF search_offset(Allocated, offset) # {} THEN search_offset(Allocated, offset) ELSE search_offset(Unallocated, offset)
\* xor_re matches a number, "-XOR-" and a number: "XOR(255)", as scan_xor writes it, is not
\* matched, and the offset behind it not added.
path_to_offset(path) == path.number + (IF path.rest # <<>> /\ (path.rest # <<>> => path.rest[1] = "XOR") THEN path.inner ELSE 0)

\* A line that has not three fields is named on the terminal and left out.
process_featurefile2 ==
  /\ Working("identify_filenames")
  /\ LET n == Min(todo)
         line == job.lines[n] IN
     IF line.is = "comment" THEN Does(n, <<[is |-> "comment", line |-> n]>>)
     ELSE IF line.fields # 3 THEN Does(n, <<>>)
     ELSE IF line.path.is = "file" \/ SearchRaises(Allocated, path_to_offset(line.path)) THEN Raises
     ELSE IF search_offset(Allocated, path_to_offset(line.path)) = {} /\ SearchRaises(Unallocated, path_to_offset(line.path)) THEN Raises
     ELSE Does(n, <<[is |-> "line", line |-> n, file |-> {x.file : x \in FileAt(path_to_offset(line.path))}]>>)
FileNamesTodo == DOMAIN job.lines

-----------------------------------------------------------------------------
Disjoint(S) == \A x, y \in S : x = y \/ End(x) <= y.start \/ End(y) <= x.start
\* The place on the disk of what a path names, as the docstring of path_to_offset says: "If
\* the path has an XOR transformation, add the offset within the XOR to the initial offset.
\* Otherwise don't." (identify_filenames.py:149)
RightOffset(path) ==
  IF \E i \in DOMAIN path.rest : path.rest[i] \in {"XOR", "XOR(255)"} THEN path.number + path.inner ELSE path.number
\* A line is annotated with a file that has its right offset, or an empty run there, and,
\* unless an allocated file does, with that of a file that was deleted; if no two runs of one
\* kind overlap, and none is empty, with the one there is.  Not claimed of a path with
\* XOR(255), against that docstring: the name the scanner writes is not recognised, and the
\* file found is the one at the offset before it.
NamesRight ==
  \A i \in DOMAIN written :
    written[i].is = "line" /\ (written[i].is = "line" => job.lines[written[i].line].path.rest # <<"XOR(255)">>) =>
      LET offset == RightOffset(job.lines[written[i].line].path)
          owners(S) == {x \in S : HasOffset(x, offset)} IN
      /\ \A f \in written[i].file : \E x \in job.extents : x.file = f /\ (HasOffset(x, offset) \/ (x.start = offset /\ x.length = 0))
      /\ Cardinality(written[i].file) <= 1
      /\ Disjoint(job.extents) /\ (\A x \in job.extents : x.length > 0) =>
           written[i].file = {x.file : x \in IF owners(Allocated) # {} THEN owners(Allocated) ELSE owners(Unallocated)}
\* No line is lost or twice there, but one whose fields are not three, and the lines behind
\* one at which the tool fails.
LinesKept ==
  todo = {} =>
    LET lines == {written[i].line : i \in {j \in DOMAIN written : written[j].is # "raised"}}
        whole == {n \in DOMAIN job.lines : job.lines[n].is = "comment" \/ job.lines[n].fields = 3}
    IN  /\ IF Raised THEN \E n \in whole : lines = {k \in whole : k < n} ELSE lines = whole
        /\ \A i, j \in DOMAIN written : i < j /\ written[j].is # "raised" => written[i].line < written[j].line

-----------------------------------------------------------------------------
(***************************************************************************)
(* bulk_extractor_reader.py and bulk_diff.py: what two reports differ in.  *)
(*                                                                         *)
(* job.pre and job.post: of each file its lines; job.both, same, smaller   *)
(* and html: the options.  A line is a comment, with the mark of UTF-8     *)
(* before it or without, a line of a histogram, or fields of which the     *)
(* first is the offset.                                                    *)
(***************************************************************************)

\* A name says that a file is a histogram, that it is no file of features, or neither.
HistogramNames == {"email_histogram", "url_searches"}
NoFeatureNames == {"email_histogram", "ccn_stopped", "wordlist"}
is_comment_line(l) == l.is = "comment"
FirstLine(lines) == LET rest == SelectSeq(lines, LAMBDA l : ~is_comment_line(l)) IN IF rest = <<>> THEN {} ELSE {rest[1]}
\* Nothing, or the fields: three to eleven, of which the first begins with a digit or has the
\* mark of a path of files in it.
parse_feature_line(l) == IF l.is = "fields" /\ l.first \in {"digit", "file"} /\ l.fields \in 3 .. 11 THEN {l} ELSE {}
histogram_files(R) == {f \in DOMAIN R : f \in HistogramNames \/ \E l \in FirstLine(R[f]) : l.is = "n="}
feature_files(R) == {f \in DOMAIN R \ NoFeatureNames : \E l \in FirstLine(R[f]) : parse_feature_line(l) # {}}
count_lines(lines) == Len(SelectSeq(lines, LAMBDA l : ~is_comment_line(l)))
\* Of lines with one value the last counts.
read_histogram(lines) ==
  [v \in {lines[i].value : i \in {j \in DOMAIN lines : lines[j].is = "n="}} |->
     lines[Max({i \in DOMAIN lines : lines[i].is = "n=" /\ (lines[i].is = "n=" => lines[i].value = v)})].n]
read_features(lines) == UNION {parse_feature_line(lines[i]) : i \in DOMAIN lines}

Report(p) == IF p = 1 THEN job.pre ELSE job.post
\* Files that one report has, with how many lines; not when they all have none.
compare_files ==
  /\ Working("bulk_diff") /\ 1 \in todo
  /\ LET only(p) == DOMAIN Report(p) \ DOMAIN Report(3 - p)
         told(p) == IF job.both \/ \E f \in only(p) : count_lines(Report(p)[f]) > 0
                    THEN {[file |-> f, lines |-> count_lines(Report(p)[f])] : f \in only(p)} ELSE {}
     IN  Does(1, <<[is |-> "files", only |-> [p \in {1, 2} |-> told(p)]]>>)

Number(h, v) == IF v \in DOMAIN h THEN h[v] ELSE 0
\* For a page of HTML the index is made from a name that is not there.
compare_histograms ==
  /\ Working("bulk_diff") /\ 1 \notin todo /\ 2 \in todo
  /\ LET rows(f) ==
           LET h(p) == read_histogram(Report(p)[f]) IN
           {[file |-> f, value |-> v, pre |-> Number(h(1), v), post |-> Number(h(2), v)] :
              v \in {w \in DOMAIN h(1) \cup DOMAIN h(2) :
                       LET d == Number(h(2), w) - Number(h(1), w) IN d > 0 \/ (d = 0 /\ job.same) \/ (d < 0 /\ job.smaller)}}
     IN  IF job.html THEN Raises
         ELSE Does(2, <<[is |-> "histograms", rows |-> UNION {rows(f) : f \in histogram_files(job.pre) \cap histogram_files(job.post)}]>>)

FeatureOffsets(p, f) == {l.offset : l \in read_features(Report(p)[f])}
CommonFiles == feature_files(job.pre) \cap feature_files(job.post)
\* With --both each line but a comment is looked at for its offset; the mark of UTF-8 makes
\* a comment be taken for a line.
BothRaises(lines) == \E i \in DOMAIN lines : IF is_comment_line(lines[i]) THEN lines[i].marked ELSE parse_feature_line(lines[i]) = {}
\* Features are compared by their offset alone.
compare_features ==
  /\ Working("bulk_diff") /\ todo = {3}
  /\ LET only(p) == UNION {{[file |-> f, offset |-> l.offset, feature |-> l.feature] :
                              l \in {k \in read_features(Report(p)[f]) : k.offset \notin FeatureOffsets(3 - p, f)}} : f \in CommonFiles}
     IN  IF job.both /\ \E f \in CommonFiles : BothRaises(job.pre[f]) \/ BothRaises(job.post[f]) THEN Raises
         ELSE Does(3, <<[is |-> "features", only |-> [p \in {1, 2} |-> only(p)],
                         both |-> IF job.both THEN UNION {FeatureOffsets(1, f) \cap FeatureOffsets(2, f) : f \in CommonFiles} ELSE {}]>>)
DiffStep == compare_files \/ compare_histograms \/ compare_features
DiffTodo == {1, 2, 3}

-----------------------------------------------------------------------------
\* The values that a histogram's lines give it, and the offsets that a file's lines begin with.
LinesOf(p, f, kind) == {l \in Range(Report(p)[f]) : l.is = kind}
\* A report is no different from itself; what is said to be in one only is not in the other;
\* and what is in one only is said to be, if both reports have the file, its first line is a
\* feature in both, and it is one: but not that another feature is at the same offset.  An
\* increase of a histogram is told, whichever of the files has the value.
DiffRight ==
  \A i \in DOMAIN written :
    LET w == written[i] IN
    /\ w.is = "files" => /\ job.pre = job.post => \A p \in {1, 2} : w.only[p] = {}
                         /\ \A p \in {1, 2} : \A x \in w.only[p] : x.file \notin DOMAIN Report(3 - p)
    /\ w.is = "histograms" =>
         /\ job.pre = job.post /\ ~job.same => w.rows = {}
         /\ \A f \in DOMAIN job.pre \cap DOMAIN job.post \cap HistogramNames :
              \A l \in LinesOf(2, f, "n=") :
                (\A k \in LinesOf(1, f, "n=") : k.value = l.value => k.n < l.n) /\ (\A k \in LinesOf(2, f, "n=") : k.value = l.value => k = l)
                  => \E r \in w.rows : r.file = f /\ r.value = l.value /\ r.post = l.n
    /\ w.is = "features" =>
         \A p \in {1, 2} :
           /\ \A x \in w.only[p] : ~\E l \in LinesOf(3 - p, x.file, "fields") : l.first # "other" /\ l.fields > 2 /\ l.offset = x.offset
           /\ \A f \in (DOMAIN job.pre \cap DOMAIN job.post) \ NoFeatureNames :
                (\A q \in {1, 2} : Report(q)[f] # <<>> /\ \A l \in Range(Report(q)[f]) : l.is = "fields" /\ (l.is = "fields" => l.first # "other" /\ l.fields = 3)) =>
                  \A l \in LinesOf(p, f, "fields") :
                    (\E x \in w.only[p] : x.file = f /\ x.offset = l.offset) \/ (\E k \in LinesOf(3 - p, f, "fields") : k.offset = l.offset)

-----------------------------------------------------------------------------
(***************************************************************************)
(* cda_tool.py: which features are on so many drives that they tell        *)
(* nothing, and how near two drives are by those they share.               *)
(*                                                                         *)
(* job.reports: of each report the drive its comments name ("" if they do  *)
(* not) and its features, by the file they are in; job.makecombined;       *)
(* job.threshold, in hundredths.                                           *)
(***************************************************************************)

idfeatures == {"email", "ccn"}
FeaturesOf(c) == UNION {job.reports[i].features[c] : i \in DOMAIN job.reports}
\* The drives of a feature: reports that name no drive count as one together.
features(c, x) == {job.reports[i].drive : i \in {j \in DOMAIN job.reports : x \in job.reports[j].features[c]}}
drives_all == {job.reports[i].drive : i \in DOMAIN job.reports} \ {""}

\* One file of all the reports; the first combined list that is written ends the tool.
ingest_feature_file ==
  /\ Working("cda_tool")
  /\ \E c \in todo \cap idfeatures :
       IF job.makecombined THEN todo' = {} /\ written' = <<[is |-> "combined", of |-> c, lines |-> FeaturesOf(c)]>> /\ UNCHANGED job
       ELSE Does(c, <<>>)

stoplist_threshold == (Len(job.reports) * job.threshold) \div 100
makestop ==
  /\ Working("cda_tool") /\ todo \cap idfeatures = {} /\ "stop" \in todo
  /\ Does("stop", <<[is |-> "stop", lines |-> UNION {{x \in FeaturesOf(c) : Cardinality(features(c, x)) >= stoplist_threshold} : c \in idfeatures}]>>)

Affinity(a, b) ==
  MapThenSumSet(LAMBDA c : MapThenSumSet(LAMBDA x : SCORE \div Cardinality(features(c, x)), {x \in FeaturesOf(c) : {a, b} \subseteq features(c, x)}),
                idfeatures)
idcor ==
  /\ Working("cda_tool") /\ todo = {"cor"}
  /\ Does("cor", <<[is |-> "scores", of |-> [pair \in {p \in SUBSET drives_all : Cardinality(p) = 2} |->
                                               LET a == CHOOSE d \in pair : TRUE IN Affinity(a, CHOOSE d \in pair : d # a)]]>>)
AffinityStep == ingest_feature_file \/ makestop \/ idcor
AffinityTodo == idfeatures \cup {"stop", "cor"}

-----------------------------------------------------------------------------
Whole == "" \notin {job.reports[i].drive : i \in DOMAIN job.reports}
NamedOnce == \A i, j \in DOMAIN job.reports : job.reports[i].drive = job.reports[j].drive => i = j
OnDrives(x) == Cardinality({i \in DOMAIN job.reports : \E c \in idfeatures : x \in job.reports[i].features[c]})
\* A feature that is on more than the given fraction of the drives is on the stop list, if it
\* is so in one of its files, and none that is on a whole drive less.  All pairs together have
\* of a feature what is left if one of its drives is taken away, by half.
AffinityRight ==
  \A i \in DOMAIN written :
    LET w == written[i] IN
    /\ w.is = "stop" /\ NamedOnce =>
         \A c \in idfeatures : \A x \in FeaturesOf(c) :
           /\ 100 * Cardinality(features(c, x)) > job.threshold * Len(job.reports) => x \in w.lines
           /\ x \in w.lines => 100 * (OnDrives(x) + 1) > job.threshold * Len(job.reports)
    /\ w.is = "scores" /\ Whole =>
         2 * MapThenSumSet(LAMBDA p : w.of[p], DOMAIN w.of)
           = MapThenSumSet(LAMBDA c : MapThenSumSet(LAMBDA x : (SCORE * (Cardinality(features(c, x)) - 1)), FeaturesOf(c)), idfeatures)

-----------------------------------------------------------------------------
(***************************************************************************)
(* identify_filenames.py around the lines: what it reads, where it writes, *)
(* and one annotated file for each feature file.                           *)
(*                                                                         *)
(* job.asked: "path", "list", "nothing" or "files"; job.files: the feature *)
(* files named, or all there are; job.ours: whether the XML file is one of *)
(* bulk_extractor's; job.map: "none" if none is read, "kept" if an old one *)
(* is loaded, or "read"; job.empty, job.found: of that map; job.outdir:    *)
(* what is there; job.annotated: the files in it; job.there: the feature   *)
(* files of the report; job.broken: those at which the annotation fails.   *)
(***************************************************************************)

NothingMapped == job.map = "read" /\ job.empty
\* A path that is found is printed with a field that it has not.
StartRaises ==
  \/ job.ours
  \/ job.asked = "path" /\ (job.empty \/ job.found)
  \/ job.asked = "nothing"
  \/ job.asked = "files" /\ (NothingMapped \/ job.outdir = "file")
identify_start ==
  /\ Working("identify_all") /\ 0 \in todo
  /\ IF StartRaises THEN Raises
     ELSE IF job.asked = "files" THEN Does(0, <<>>)
     ELSE todo' = {} /\ written' = <<[is |-> job.asked]>> /\ UNCHANGED job

\* The files there are annotated of now.
AnnotatedNow == job.annotated \cup {written[i].file : i \in {j \in DOMAIN written : written[j].is = "annotated"}}
\* Mutant: an annotated file that is there is written again.
identify_file_Overwrites ==
  /\ Working("identify_all") /\ 0 \notin todo
  /\ LET n == Min(todo)
         file == job.files[n] IN
     IF file \notin job.there THEN Raises ELSE Does(n, <<[is |-> "annotated", file |-> file]>>)
identify_file ==
  /\ Working("identify_all") /\ 0 \notin todo
  /\ LET n == Min(todo)
         file == job.files[n]
         out == [is |-> "annotated", file |-> file] IN
     IF file \in AnnotatedNow \/ file \notin job.there THEN Raises
     ELSE IF file \in job.broken THEN todo' = {} /\ written' = written \o <<out, [is |-> "raised"]>> /\ UNCHANGED job
     ELSE Does(n, <<out>>)
IdentifyTodo == {0} \cup DOMAIN job.files

-----------------------------------------------------------------------------
(***************************************************************************)
(* bulk_extractor_reader.py: a report is opened, a directory or a ZIP      *)
(* file, and then some of its files.                                       *)
(*                                                                         *)
(* job.named: "report.xml" with a directory before it, "bare" without one, *)
(* another "xml", a "zip", a "directory", or "other"; job.names: the names *)
(* in it, in the order of the ZIP file.  A name is the pieces it is made   *)
(* of: a directory, what comes before "report.xml" in another name, the    *)
(* last part; job.wanted: the names that are opened.                       *)
(***************************************************************************)

REPORT == "report.xml"
report_name_list == SelectSeq(job.names, LAMBDA n : Last(n) = REPORT)
\* What comes before the first of them is taken out of every name, wherever it is.
report_name_prefix == IF report_name_list = <<>> THEN {} ELSE Range(Front(report_name_list[1]))
short_fn(n) == SelectSeq(n, LAMBDA piece : piece \notin report_name_prefix)
\* Of names with one short name the last counts.
name_map == [s \in {short_fn(n) : n \in Range(job.names)} |-> SelectSeq(job.names, LAMBDA n : short_fn(n) = s)]
LongName(s) == Last(name_map[s])
HasReport ==
  CASE job.named = "zip" -> <<REPORT>> \in DOMAIN name_map
    [] job.named = "other" -> FALSE
    [] OTHER -> <<REPORT>> \in Range(job.names)
BulkReport_init ==
  /\ Working("report") /\ <<>> \in todo
  /\ IF HasReport THEN Does(<<>>, <<>>) ELSE Raises
\* A report that was named by another XML file has no directory to look in.
OpenRaises(s) ==
  CASE job.named = "zip" -> s \notin DOMAIN name_map
    [] job.named = "xml" -> TRUE
    [] OTHER -> s \notin Range(job.names)
BulkReport_open ==
  /\ Working("report") /\ <<>> \notin todo
  /\ \E s \in todo :
       IF OpenRaises(s) THEN Raises
       ELSE Does(s, <<[is |-> "opened", asked |-> s, file |-> IF job.named = "zip" THEN LongName(s) ELSE s]>>)
ReportTodo == {<<>>} \cup job.wanted

-----------------------------------------------------------------------------
(***************************************************************************)
(* scan_wordlist.cpp, at the end of the run: the words of wordlist.txt,    *)
(* each once, go to wordlist_dedup_1.txt and so on.                        *)
(*                                                                         *)
(* job.lines: the lines of wordlist.txt, [comment, word], the word what is *)
(* behind the first tab; job.nomemory: those whose word finds no memory;   *)
(* job.unopened: the number of a file that cannot be made, or 0;           *)
(* job.strings: the option; job.readable: whether wordlist.txt is there.   *)
(***************************************************************************)

Segments == {i \in DOMAIN written : written[i].is = "segment"}
DumpedTo == Max({0} \cup {written[i].upto : i \in Segments})
HasWord(k) == ~job.lines[k].comment /\ job.lines[k].word # ""
\* The words kept since the last dump, up to line n.
seen_wordlist(n) ==
  {job.lines[k].word : k \in {j \in DOMAIN job.lines : DumpedTo < j /\ j <= n /\ HasWord(j) /\ j \notin job.nomemory}}
bad_alloc(n) == n \in job.nomemory /\ HasWord(n) /\ job.lines[n].word \notin seen_wordlist(n - 1)
\* No file is made if no word is kept.
dump_seen_wordlist(n) ==
  IF seen_wordlist(n) = {} THEN Does(n, <<>>)
  ELSE IF Cardinality(Segments) + 1 = job.unopened THEN Raises
  ELSE Does(n, <<[is |-> "segment", upto |-> n, words |-> seen_wordlist(n)]>>)
\* The size that is compared with max_output_file_size is never added to; the word that
\* found no memory is not tried again.
wordlist_shutdown ==
  /\ Working("wordlist")
  /\ LET n == Min(todo) IN
     IF ~job.readable THEN Raises
     ELSE IF n \in DOMAIN job.lines /\ ~bad_alloc(n) THEN Does(n, <<>>)
     ELSE dump_seen_wordlist(n)
WordlistTodo == IF job.strings THEN {} ELSE 1 .. (Len(job.lines) + 1)

-----------------------------------------------------------------------------
\* Nothing that was in the output directory is written to, and nothing twice; and if there was
\* no such directory, the files that are asked for are annotated in their order up to the one
\* at which the tool fails, which it does at one that is annotated, lacking, or broken.  "Output
\* directory; must not exist" says the help (identify_filenames.py:263): of a run into one that
\* does, which the tool makes all the same, nothing more is claimed.
FilesAnnotated ==
  LET done == SelectSeq(written, LAMBDA w : w.is = "annotated") IN
  /\ \A i \in DOMAIN done : done[i].file = job.files[i] /\ done[i].file \notin job.annotated
  /\ \A i, j \in DOMAIN done : done[i].file = done[j].file => i = j
  /\ todo = {} /\ job.asked = "files" /\ job.outdir = "missing" /\ ~StartRaises =>
       IF Raised
       THEN \/ Len(done) > 0 /\ done[Len(done)].file \in job.broken
            \/ LET next == job.files[Len(done) + 1] IN next \notin job.there \/ \E i \in DOMAIN done : done[i].file = next
       ELSE Len(done) = Len(job.files)
\* A file that is opened has the name that was asked for, in a ZIP file in the directory of
\* the report, unless two of its files have one name without that of the directory.
ReportOpened ==
  \A i \in DOMAIN written :
    LET w == written[i] IN
    w.is = "opened" =>
      /\ w.file \in Range(job.names) /\ Last(w.file) = Last(w.asked)
      /\ job.named # "zip" => w.file = w.asked
      /\ (\A n, k \in Range(job.names) : short_fn(n) = short_fn(k) => n = k) /\ job.named = "zip" /\ report_name_list # <<>> =>
           \A n \in Range(job.names) : n = Front(report_name_list[1]) \o w.asked => w.file = n
\* If the word list is written to its end, each of its words is in a file, if it found memory,
\* and nothing else is; and no word is in two files if no word lacked memory.
WordsKept ==
  LET words(K) == {job.lines[k].word : k \in {j \in DOMAIN job.lines : HasWord(j) /\ j \in K}}
      out == UNION {written[i].words : i \in Segments} IN
  /\ out \subseteq words(DOMAIN job.lines)
  /\ todo = {} /\ ~Raised /\ ~job.strings => words(DOMAIN job.lines \ job.nomemory) \subseteq out
  /\ job.strings \/ job.nomemory = {} => Cardinality(Segments) <= 1
  /\ \A i, j \in Segments : i < j => \E k \in job.nomemory : k <= written[i].upto
=============================================================================
