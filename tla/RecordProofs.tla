---------------------------- MODULE RecordProofs -----------------------------
(***************************************************************************)
(* The scanners of records, for every image, size of pages and margin, and *)
(* sizes of records: what they carve is made of whole records, lies in the *)
(* image, and is not carved twice, and they pass over no record.  The same *)
(* of what scan_find matches, and of the archives that scan_rar reports.   *)
(***************************************************************************)
EXTENDS RecordScan, Decoders, RarScan, FiniteSetTheorems, WellFoundedInduction, TLAPS

\* What the cells of an image may be to each scanner.
RecordCells ==
  [s \in RecordScanners |->
     CASE s = "ntfsusn" -> {NoUsn} \cup [v : {2, 4}, size : Nat \ {0}, odd : BOOLEAN]
       [] s = "evtx" -> {NoEvtx} \cup [is : {"header", "chunk"}, n : Int] \cup [is : {"record"}, n : Nat \ {0}]
       [] s = "utmp" -> {"utmp", "none"}
       [] OTHER -> Alone[s] \cup {RunOf[s], "none"}]
RecordImages(s) == [cells : Seq(RecordCells[s]), pagesize : Nat \ {0}, margin : Nat, cut : BOOLEAN]

\* A scanner of records alone.
RecordInit == WalkInit /\ scanner \in RecordScanners /\ image \in RecordImages(scanner)
RecordSpec == RecordInit /\ [][RecordStep]_walk_vars

\* What is carved, and what the variables hold.
Kinds ==
  {"utmp", "UsnJrnl-J", "corrupted", "file", "chunks", "orphan"}
  \cup {"FILE", "FILE-", "INDX", "INDX_ObjId-O", "INDX_Misc", "INDX-", "RCRD", "RCRD-", "RSTR", "RSTR-"}
Carving == [kind : Kinds, from : Nat, to : Nat]
RecordTyped ==
  /\ scanner \in RecordScanners /\ image \in RecordImages(scanner)
  /\ page \in Nat /\ pos \in Nat /\ memo \in Nat /\ reports \in Seq(Carving)
  /\ \A i \in DOMAIN reports : reports[i].from <= reports[i].to /\ reports[i].to <= ImageSize

\* A run of USN records begins in the page.
RunInPage == scanner = "ntfsusn" /\ memo > 0 => pos < pagesize

\* What has been carved ends before the place the scanner looks at, or beyond its page.
CarvedBefore ==
  ~WalkDone =>
    \A i \in DOMAIN reports :
      \/ reports[i].kind = "orphan" \/ reports[i].to > PageBound(reports[i].from)
      \/ reports[i].to <= WalkStart + pos /\ reports[i].to <= WalkStart + pagesize

RecordInv == RecordTyped /\ RunInPage /\ CarvedOnce /\ CarvedBefore

\* A set of naturals has a least element.
LEMMA LeastNatural ==
  ASSUME NEW T \in SUBSET Nat, T # {}
  PROVE  \E x \in T : \A y \in T : x <= y
<1> DEFINE Less == OpToRel(<, Nat)
<1>1. \A x, y \in Nat : x < y => <<x, y>> \in Less
  BY DEF OpToRel
<1>2. IsWellFoundedOn(Less, Nat)
  BY NatLessThanWellFounded
<1> HIDE DEF Less
<1>3. PICK x \in T : \A y \in T : <<y, x>> \notin Less
  BY <1>2, WFMin
<1>4. \A y \in T : ~(y < x)
  BY <1>1, <1>3
<1>5. \A y \in T : x <= y
  BY <1>4
<1>6. QED BY <1>5

\* The page boundary before a place is not behind it.
LEMMA Quotient ==
  ASSUME NEW s \in Nat \ {0}, NEW q \in Nat
  PROVE  (q \div s) * s \in Nat /\ (q \div s) * s <= q
<1>1. q = s * (q \div s) + (q % s) /\ 0 <= q % s /\ q \div s \in Nat
  OBVIOUS
<1> DEFINE d == q \div s
           r == q % s
<1> HIDE DEF d, r
<1>2. d \in Nat /\ q = s * d + r /\ r >= 0
  BY <1>1 DEF d, r
<1>3. d * s \in Nat /\ d * s = s * d
  BY <1>2
<1>4. r \in Int
  BY <1>1 DEF r
<1>5. QED BY <1>2, <1>3, <1>4 DEF d

\* A place is in the page whose bounds it lies between.
LEMMA DivOf ==
  ASSUME NEW s \in Nat \ {0}, NEW n \in Nat, NEW q \in Nat, n * s <= q, q < (n + 1) * s
  PROVE  q \div s = n
<1>1. q = s * (q \div s) + (q % s) /\ 0 <= q % s /\ q % s < s /\ q \div s \in Nat
  OBVIOUS
<1> DEFINE d == q \div s
<1> HIDE DEF d
<1>2. d \in Nat /\ s * d <= q /\ q < s * d + s
  BY <1>1 DEF d
<1>3. ~(d < n)
  <2> SUFFICES ASSUME d < n PROVE FALSE
    OBVIOUS
  <2>1. n - d - 1 \in Nat /\ n = d + 1 + (n - d - 1)
    BY <1>2
  <2>2. s * (n - d - 1) >= 0
    BY <2>1
  <2>3. QED BY <1>2, <2>1, <2>2
<1>4. ~(n < d)
  <2> SUFFICES ASSUME n < d PROVE FALSE
    OBVIOUS
  <2>1. d - n - 1 \in Nat /\ d = n + 1 + (d - n - 1)
    BY <1>2
  <2>2. s * (d - n - 1) >= 0
    BY <2>1
  <2>3. QED BY <1>2, <2>1, <2>2
<1>5. QED BY <1>2, <1>3, <1>4 DEF d

-----------------------------------------------------------------------------
(* What is carved, is carved once *)

\* The numbers of the page, for any scanner.
Walking ==
  image.pagesize \in Nat \ {0} /\ image.margin \in Nat /\ page \in Nat /\ ImageSize \in Nat
LEMMA InWalk ==
  ASSUME Walking, ~WalkDone
  PROVE  /\ ImageSize \in Nat /\ WalkStart \in Nat /\ pagesize \in Nat /\ bufsize \in Nat
         /\ 0 < pagesize /\ pagesize <= bufsize /\ WalkStart + bufsize <= ImageSize
         /\ pagesize <= image.pagesize
         /\ \A q \in Nat : WalkStart <= q /\ q < WalkStart + pagesize =>
              PageFirst(q) = WalkStart /\ PageBound(q) = WalkStart + pagesize /\ SbufBound(q) = WalkStart + bufsize
<1>1. /\ image.pagesize \in Nat \ {0} /\ image.margin \in Nat /\ page \in Nat /\ ImageSize \in Nat
  BY DEF Walking
<1>2. ImageSize \in Nat /\ WalkStart \in Nat /\ WalkStart < ImageSize
  BY <1>1 DEF WalkStart, WalkDone
<1>3. /\ pagesize \in Nat /\ bufsize \in Nat /\ 0 < pagesize /\ pagesize <= bufsize
      /\ WalkStart + bufsize <= ImageSize /\ pagesize <= image.pagesize
  BY <1>1, <1>2 DEF pagesize, bufsize, Least
<1>6. \A a, b \in Nat : (a + 1) * b = a * b + b
  OBVIOUS
<1>4. ASSUME NEW q \in Nat, WalkStart <= q, q < WalkStart + pagesize
      PROVE  PageFirst(q) = WalkStart /\ PageBound(q) = WalkStart + pagesize /\ SbufBound(q) = WalkStart + bufsize
  <2>1. (page + 1) * image.pagesize = WalkStart + image.pagesize
    BY <1>1, <1>6 DEF WalkStart
  <2>2. page * image.pagesize <= q /\ q < (page + 1) * image.pagesize
    <3>1. q < WalkStart + image.pagesize
      BY <1>1, <1>2, <1>3, <1>4
    <3>2. QED BY <1>4, <2>1, <3>1 DEF WalkStart
  <2>5. q \div image.pagesize = page
    BY <1>1, <2>2, DivOf
  <2>3. PageFirst(q) = WalkStart
    BY <2>5 DEF PageFirst, WalkStart
  <2>4. PageBound(q) = WalkStart + pagesize
    BY <1>1, <1>2, <2>3 DEF PageBound, pagesize, Least
  <2>6. SbufBound(q) = WalkStart + bufsize
    BY <1>1, <1>2, <2>3 DEF SbufBound, bufsize, Least
  <2>7. QED BY <2>3, <2>4, <2>6
<1>5. QED BY <1>2, <1>3, <1>4

\* The next page begins where this one ends.
LEMMA WalksOn ==
  ASSUME Walking, page' = page + 1, image' = image
  PROVE  WalkStart' = WalkStart + image.pagesize
<1>1. \A a, b \in Nat : (a + 1) * b = a * b + b
  OBVIOUS
<1>2. page \in Nat /\ image.pagesize \in Nat
  BY DEF Walking
<1>3. (page + 1) * image.pagesize = page * image.pagesize + image.pagesize
  BY <1>1, <1>2
<1>4. QED BY <1>3 DEF WalkStart

LEMMA InThePage ==
  ASSUME RecordTyped, ~WalkDone
  PROVE  /\ ImageSize \in Nat /\ WalkStart \in Nat /\ pagesize \in Nat /\ bufsize \in Nat
         /\ 0 < pagesize /\ pagesize <= bufsize /\ WalkStart + bufsize <= ImageSize
         /\ pagesize <= image.pagesize
         /\ \A q \in Nat : WalkStart <= q /\ q < WalkStart + pagesize => PageBound(q) = WalkStart + pagesize
<1>1. image.cells \in Seq(RecordCells[scanner])
  BY DEF RecordTyped, RecordImages
<1>2. Walking
  BY <1>1 DEF RecordTyped, RecordImages, Walking, ImageSize
<1>3. QED BY <1>2, InWalk

LEMMA NextStart ==
  ASSUME RecordTyped, page' = page + 1, image' = image
  PROVE  WalkStart' = WalkStart + image.pagesize
<1>1. image.cells \in Seq(RecordCells[scanner])
  BY DEF RecordTyped, RecordImages
<1>2. Walking
  BY <1>1 DEF RecordTyped, RecordImages, Walking, ImageSize
<1>3. QED BY <1>2, WalksOn

\* What a step carves lies from the place it looks at on; and what is no orphan record
\* begins in the page.
Fresh(r) ==
  /\ r \in Carving /\ WalkStart + pos <= r.from /\ r.from <= r.to /\ r.to <= WalkStart + bufsize
  /\ r.kind # "orphan" => r.from < WalkStart + pagesize

LEMMA Difference ==
  ASSUME NEW a \in Nat, NEW b \in Nat, a < b
  PROVE  b - a \in Nat
OBVIOUS

\* The one step of the argument: what is carved from here on, while the scanner goes on or
\* leaves the page, overlaps nothing and lies before the place that it then looks at.
LEMMA CarvingKeeps ==
  ASSUME RecordInv, ~WalkDone, NEW new \in Seq(Carving), reports' = reports \o new,
         \A k \in DOMAIN new : Fresh(new[k]),
         Len(new) <= 1 \/ \A k \in DOMAIN new : new[k].kind = "orphan",
         scanner' = scanner, image' = image, memo' \in Nat,
         \/ page' = page + 1 /\ pos' = 0
         \/ /\ page' = page /\ pos' \in Nat /\ pos <= pos'
            /\ \A k \in DOMAIN new : new[k].kind = "orphan" \/ new[k].to <= WalkStart + pos'
  PROVE  RecordTyped' /\ CarvedOnce' /\ CarvedBefore'
<1> USE DEF RecordInv
<1>1. /\ ImageSize \in Nat /\ WalkStart \in Nat /\ pagesize \in Nat /\ bufsize \in Nat
      /\ 0 < pagesize /\ pagesize <= bufsize /\ WalkStart + bufsize <= ImageSize
      /\ pagesize <= image.pagesize /\ image.pagesize \in Nat
      /\ \A q \in Nat : WalkStart <= q /\ q < WalkStart + pagesize => PageBound(q) = WalkStart + pagesize
  BY InThePage DEF RecordTyped, RecordImages
<1>2. reports \in Seq(Carving) /\ page \in Nat /\ pos \in Nat
  BY DEF RecordTyped
<1>3. reports' \in Seq(Carving)
  BY <1>2
<1>4. ASSUME NEW i \in DOMAIN reports'
      PROVE  \/ i \in DOMAIN reports /\ reports'[i] = reports[i]
             \/ /\ i \notin DOMAIN reports /\ i - Len(reports) \in DOMAIN new
                /\ reports'[i] = new[i - Len(reports)] /\ i > Len(reports)
  BY <1>2
<1>5. ImageSize' = ImageSize /\ \A q : PageBound(q)' = PageBound(q)
  BY DEF ImageSize, PageBound, PageFirst
<1>6. RecordTyped'
  <2>1. ASSUME NEW i \in DOMAIN reports' PROVE reports'[i].from <= reports'[i].to /\ reports'[i].to <= ImageSize
    <3>1. CASE i \in DOMAIN reports /\ reports'[i] = reports[i]
      BY <3>1 DEF RecordTyped
    <3>2. CASE i - Len(reports) \in DOMAIN new /\ reports'[i] = new[i - Len(reports)]
      BY <1>1, <3>2, SMTT(30) DEF Fresh, Carving
    <3>3. QED BY <1>4, <3>1, <3>2
  <2>2. QED BY <1>2, <1>3, <1>5, <2>1 DEF RecordTyped
<1>7. CarvedOnce'
  <2> SUFFICES ASSUME NEW i \in DOMAIN reports', NEW j \in DOMAIN reports', i < j, Overlap(reports'[i], reports'[j])
               PROVE  reports'[i].kind = "orphan" \/ reports'[i].to > PageBound(reports'[i].from)
    BY <1>5 DEF CarvedOnce, Overlap, RecordTyped
  <2>1. i \in Nat /\ j \in Nat /\ reports'[i] \in Carving /\ reports'[j] \in Carving
    BY <1>3
  <2>2. CASE j \in DOMAIN reports /\ reports'[j] = reports[j]
    <3>1. i \in DOMAIN reports
      BY <1>2, <2>1, <2>2
    <3>2. QED BY <1>2, <1>4, <2>2, <3>1 DEF CarvedOnce, RecordTyped
  <2>3. CASE j - Len(reports) \in DOMAIN new /\ reports'[j] = new[j - Len(reports)] /\ i \in DOMAIN reports /\ reports'[i] = reports[i]
    <3>1. WalkStart + pos <= reports'[j].from
      BY <2>3 DEF Fresh
    <3>2. reports'[j].from < reports'[i].to
      BY DEF Overlap
    <3>3. ~(reports[i].to <= WalkStart + pos)
      BY <1>1, <1>2, <2>1, <2>3, <3>1, <3>2 DEF Carving
    <3>4. QED BY <2>3, <3>3 DEF CarvedBefore
  <2>4. CASE j - Len(reports) \in DOMAIN new /\ i - Len(reports) \in DOMAIN new /\ reports'[i] = new[i - Len(reports)]
    BY <1>2, <2>1, <2>4
  <2>5. QED BY <1>4, <2>2, <2>3, <2>4
<1>8. CarvedBefore'
  <2> SUFFICES ASSUME NEW i \in DOMAIN reports', reports'[i].kind # "orphan", ~(reports'[i].to > PageBound(reports'[i].from)), ~WalkDone'
               PROVE  reports'[i].to <= WalkStart' + pos' /\ reports'[i].to <= WalkStart' + pagesize'
    BY <1>5 DEF CarvedBefore
  <2>1. reports'[i] \in Carving /\ pos' \in Nat
    BY <1>3
  <2>0. reports'[i].to \in Nat
    BY <2>1 DEF Carving
  <2>2. /\ reports'[i].to <= WalkStart + pagesize
        /\ page' = page => reports'[i].to <= WalkStart + pos'
    <3>1. CASE i \in DOMAIN reports /\ reports'[i] = reports[i]
      <4>1. reports[i].to <= WalkStart + pos /\ reports[i].to <= WalkStart + pagesize
        BY <3>1 DEF CarvedBefore
      <4>2. page' = page => pos <= pos'
        BY <1>2
      <4>3. /\ WalkStart \in Nat /\ pagesize \in Nat /\ pos \in Nat /\ pos' \in Nat /\ reports'[i].to \in Nat
            /\ reports'[i].to <= WalkStart + pos /\ reports'[i].to <= WalkStart + pagesize
        BY ONLY <1>1, <1>2, <2>0, <2>1, <3>1, <4>1
      <4>4. QED BY ONLY <4>2, <4>3
    <3>2. CASE i - Len(reports) \in DOMAIN new /\ reports'[i] = new[i - Len(reports)]
      <4>1. PageBound(reports'[i].from) = WalkStart + pagesize
        <5>1. Fresh(reports'[i]) /\ reports'[i].from \in Nat
          BY <2>1, <3>2 DEF Carving
        <5>2. WalkStart <= reports'[i].from /\ reports'[i].from < WalkStart + pagesize
          <6>1. WalkStart + pos <= reports'[i].from /\ reports'[i].from < WalkStart + pagesize
            BY <5>1 DEF Fresh
          <6>2. WalkStart \in Nat /\ pos \in Nat
            BY ONLY <1>1, <1>2
          <6>3. QED BY ONLY <5>1, <6>1, <6>2
        <5>3. QED BY <1>1, <5>1, <5>2
      <4>2. reports'[i].to <= WalkStart + pagesize
        BY <1>1, <2>0, <4>1, SMTT(30)
      <4>3. page' = page => reports'[i].to <= WalkStart + pos'
        BY <1>2, <3>2
      <4>4. QED BY <4>2, <4>3
    <3>3. QED BY <1>4, <3>1, <3>2
  <2>3. CASE page' = page
    <3>1. WalkStart' = WalkStart /\ pagesize' = pagesize
      BY <2>3 DEF WalkStart, pagesize, ImageSize, Least
    <3>2. QED BY <2>2, <2>3, <3>1
  <2>4. CASE page' = page + 1 /\ pos' = 0
    <3>1. WalkStart' = WalkStart + image.pagesize /\ WalkStart' < ImageSize
      <4>1. WalkStart' = WalkStart + image.pagesize
        BY <2>4, NextStart
      <4>2. WalkStart' < ImageSize
        BY <1>1, <1>5, <4>1 DEF WalkDone
      <4>3. QED BY <4>1, <4>2
    <3>2. pagesize' \in Nat
      <4>1. image.pagesize \in Nat /\ WalkStart' \in Nat /\ ImageSize' \in Nat /\ WalkStart' < ImageSize'
        BY <1>1, <1>5, <3>1
      <4>2. image.pagesize \in Nat /\ ImageSize' - WalkStart' \in Nat
        BY ONLY <4>1, Difference
      <4>3. pagesize' = Least(image.pagesize, ImageSize' - WalkStart')
        BY DEF pagesize, Least
      <4>4. QED BY <4>2, <4>3 DEF Least
    <3>4. reports'[i].to \in Nat /\ reports'[i].to <= WalkStart'
      <4>1. pagesize \in Nat /\ image.pagesize \in Nat /\ pagesize <= image.pagesize /\ WalkStart \in Nat
        BY <1>1
      <4>2. WalkStart + pagesize <= WalkStart'
        BY <3>1, <4>1
      <4>3. WalkStart' \in Nat
        BY <3>1, <4>1
      <4>4. reports'[i].to <= WalkStart + pagesize
        BY <2>2
      <4>5. QED BY <2>0, <4>1, <4>2, <4>3, <4>4, SMTT(30)
    <3>5. WalkStart' \in Nat
      BY <1>1, <3>1, SMTT(30)
    <3>3. QED BY <2>4, <3>2, <3>4, <3>5
  <2>5. QED BY <2>3, <2>4
<1>9. QED BY <1>6, <1>7, <1>8

\* The scanner leaves the page, or goes on at k.
GoesTo(k) == scanner' = scanner /\ image' = image /\ page' = page /\ pos' = k /\ memo' \in Nat
Leaves == scanner' = scanner /\ image' = image /\ page' = page + 1 /\ pos' = 0 /\ memo' = 0

\* Nothing is carved, or one piece of n cells from pos on.
LEMMA SilentKeeps ==
  ASSUME RecordInv, ~WalkDone, Silent, Leaves \/ \E n \in Nat : GoesTo(pos + n)
  PROVE  RecordTyped' /\ CarvedOnce' /\ CarvedBefore'
<1>1. pos \in Nat /\ reports \in Seq(Carving) /\ reports' = reports
  BY DEF RecordInv, RecordTyped, Silent
<1>2. << >> \in Seq(Carving) /\ reports' = reports \o << >> /\ Len(<< >>) <= 1 /\ DOMAIN << >> = {}
  BY <1>1
<1>3. scanner' = scanner /\ image' = image /\ memo' \in Nat
  BY DEF Leaves, GoesTo
<1>4. \/ page' = page + 1 /\ pos' = 0
      \/ page' = page /\ pos' \in Nat /\ pos <= pos'
  BY <1>1 DEF Leaves, GoesTo
<1>5. QED BY <1>2, <1>3, <1>4, CarvingKeeps

LEMMA ReportKeeps ==
  ASSUME RecordInv, ~WalkDone, NEW kind \in Kinds, NEW n \in Nat, Report(kind, pos, n), pos < pagesize,
         Leaves \/ GoesTo(pos + n)
  PROVE  RecordTyped' /\ CarvedOnce' /\ CarvedBefore'
<1> DEFINE r == Slice(kind, pos, n)
<1>1. /\ WalkStart \in Nat /\ pagesize \in Nat /\ bufsize \in Nat /\ pagesize <= bufsize
  BY InThePage DEF RecordInv
<1>2. pos \in Nat /\ reports \in Seq(Carving)
  BY DEF RecordInv, RecordTyped
<1>3. r = [kind |-> kind, from |-> WalkStart + pos, to |-> WalkStart + Least(pos + n, bufsize)]
  BY DEF Slice
<1>4. Least(pos + n, bufsize) \in Nat /\ pos <= Least(pos + n, bufsize) /\ Least(pos + n, bufsize) <= pos + n
      /\ Least(pos + n, bufsize) <= bufsize
  BY <1>1, <1>2 DEF Least
<1>5. Fresh(r) /\ r.to <= WalkStart + (pos + n) /\ r \in Carving
  BY <1>1, <1>2, <1>3, <1>4 DEF Fresh, Carving
<1> HIDE DEF r
<1>6. <<r>> \in Seq(Carving) /\ Len(<<r>>) <= 1 /\ \A k \in DOMAIN <<r>> : <<r>>[k] = r
  BY <1>5
<1>7. reports' = reports \o <<r>>
  BY <1>2, <1>5 DEF Report, r
<1>8. scanner' = scanner /\ image' = image /\ memo' \in Nat
  BY DEF Leaves, GoesTo
<1>9. \/ page' = page + 1 /\ pos' = 0
      \/ /\ page' = page /\ pos' \in Nat /\ pos <= pos' /\ \A k \in DOMAIN <<r>> : <<r>>[k].to <= WalkStart + pos'
  BY <1>2, <1>5, <1>6 DEF Leaves, GoesTo
<1>10. \A k \in DOMAIN <<r>> : Fresh(<<r>>[k])
  BY <1>5, <1>6
<1>11. QED BY <1>6, <1>7, <1>8, <1>9, <1>10, CarvingKeeps

LEMMA InitRecord == ASSUME RecordInit PROVE RecordInv
<1>1. reports = << >> /\ page = 0 /\ pos = 0 /\ memo = 0 /\ scanner \in RecordScanners /\ image \in RecordImages(scanner)
  BY DEF RecordInit, WalkInit
<1>2. RecordTyped
  BY <1>1 DEF RecordTyped
<1>3. QED BY <1>1, <1>2 DEF RecordInv, RunInPage, CarvedOnce, CarvedBefore

LEMMA UtmpKeeps == ASSUME RecordInv, UtmpStep PROVE RecordInv'
<1>1. scanner = "utmp" /\ ~WalkDone /\ pos \in Nat /\ memo \in Nat
  BY DEF UtmpStep, In, RecordInv, RecordTyped
<1>2. UTMP_RECORD \in Nat \ {0} /\ pagesize \in Nat
  BY RecordAssumption, InThePage, <1>1 DEF RecordInv
<1>3. \/ Leaves /\ Silent
      \/ /\ pos < pagesize
         /\ \/ Report("utmp", pos, UTMP_RECORD) /\ GoesTo(pos + UTMP_RECORD)
            \/ Silent /\ GoesTo(pos + 1)
  BY <1>1, <1>2 DEF UtmpStep, LeavePage, Leaves, GoesTo, MoveTo
<1>4. RecordTyped' /\ CarvedOnce' /\ CarvedBefore'
  <2>1. CASE Silent
    <3>1. Leaves \/ \E n \in Nat : GoesTo(pos + n)
      BY <1>2, <1>3, <2>1
    <3>2. QED BY <1>1, <2>1, <3>1, SilentKeeps
  <2>2. CASE pos < pagesize /\ Report("utmp", pos, UTMP_RECORD) /\ GoesTo(pos + UTMP_RECORD)
    <3>1. "utmp" \in Kinds /\ UTMP_RECORD \in Nat
      BY <1>2 DEF Kinds
    <3> HIDE DEF RecordInv
    <3>2. QED BY <1>1, <2>2, <3>1, ReportKeeps, Zenon
  <2>3. QED BY <1>3, <2>1, <2>2
<1>5. QED BY <1>1, <1>3, <1>4 DEF RecordInv, RunInPage, Leaves, GoesTo

\* Where a run of records ends.
LEMMA RunEnds ==
  ASSUME RecordTyped, ~WalkDone, pos < pagesize
  PROVE  /\ RunEnd \in pos + 1 .. pagesize
         /\ \A k \in pos + 1 .. RunEnd - 1 : Cell(k, "none") = RunOf[scanner]
<1>1. pos \in Nat /\ pagesize \in Nat
  BY InThePage DEF RecordTyped
<1> DEFINE Ends == {e \in pos + 1 .. pagesize : e >= pagesize \/ Cell(e, "none") # RunOf[scanner]}
<1>2. Ends \in SUBSET Nat /\ pagesize \in Ends
  BY <1>1
<1>3. PICK e \in Ends : \A k \in Ends : e <= k
  BY <1>2, LeastNatural
<1>4. \A k \in pos + 1 .. e - 1 : Cell(k, "none") = RunOf[scanner]
  BY <1>1, <1>3
<1>5. QED BY <1>3, <1>4 DEF RunEnd

LEMMA NtfsKeeps == ASSUME RecordInv, NtfsStep PROVE RecordInv'
<1>1. scanner # "ntfsusn" /\ ~WalkDone /\ pos \in Nat /\ memo \in Nat /\ pagesize \in Nat
  BY InThePage DEF NtfsStep, RunOf, RecordInv, RecordTyped
<1>2. \/ Leaves /\ Silent
      \/ pos < pagesize /\ (NtfsRun \/ NtfsAlone)
  BY <1>1 DEF NtfsStep, LeavePage, Leaves
<1>3. ASSUME pos < pagesize, NtfsRun PROVE RecordTyped' /\ CarvedOnce' /\ CarvedBefore'
  <2>1. RunEnd \in pos + 1 .. pagesize
    BY <1>1, <1>3, RunEnds DEF RecordInv
  <2>2. RunEnd - pos \in Nat /\ pos + (RunEnd - pos) = RunEnd
    BY <1>1, <2>1
  <2>3. RunOf[scanner] \in Kinds
    BY DEF NtfsStep, RunOf, Kinds
  <2>4. \/ Leaves /\ Silent
        \/ Report(RunOf[scanner], pos, RunEnd - pos) /\ GoesTo(pos + (RunEnd - pos))
    BY <1>1, <1>3, <2>2 DEF NtfsRun, LeavePage, Leaves, GoesTo, MoveTo
  <2>5. QED BY <1>1, <1>3, <2>2, <2>3, <2>4, SilentKeeps, ReportKeeps
<1>4. ASSUME pos < pagesize, NtfsAlone PROVE RecordTyped' /\ CarvedOnce' /\ CarvedBefore'
  <2>1. \/ Silent /\ GoesTo(pos + 1)
        \/ Cell(pos, "none") \in Kinds /\ Report(Cell(pos, "none"), pos, 1) /\ GoesTo(pos + 1)
    <3>1. \A c \in Alone[scanner] : c \in Kinds
      <4>1. scanner \in {"ntfsmft", "ntfsindx", "ntfslogfile"}
        BY DEF NtfsStep, RunOf
      <4>2. /\ scanner = "ntfsmft" => Alone[scanner] = {"FILE-"}
            /\ scanner = "ntfsindx" => Alone[scanner] = {"INDX_ObjId-O", "INDX_Misc", "INDX-"}
            /\ scanner = "ntfslogfile" => Alone[scanner] = {"RCRD-", "RSTR", "RSTR-"}
        BY DEF Alone
      <4>3. QED BY <4>1, <4>2 DEF Kinds
    <3>2. QED BY <1>1, <1>4, <3>1 DEF NtfsAlone, GoesTo, MoveTo
  <2>2. QED BY <1>1, <1>4, <2>1, SilentKeeps, ReportKeeps
<1>5. RecordTyped' /\ CarvedOnce' /\ CarvedBefore'
  BY <1>1, <1>2, <1>3, <1>4, SilentKeeps
<1>6. scanner' = scanner
  BY DEF NtfsStep, NtfsRun, NtfsAlone, LeavePage, MoveTo
<1>7. QED BY <1>1, <1>5, <1>6 DEF RecordInv, RunInPage

\* A cell of an image of USN records.
LEMMA UsnCell ==
  ASSUME RecordTyped, ~WalkDone, scanner = "ntfsusn", NEW k \in Nat
  PROVE  LET c == Cell(k, NoUsn) IN c = NoUsn \/ (c.v \in {2, 4} /\ c.size \in Nat \ {0} /\ c.odd \in BOOLEAN)
<1> DEFINE Cells == {NoUsn} \cup [v : {2, 4}, size : Nat \ {0}, odd : BOOLEAN]
<1>1. RecordCells["ntfsusn"] = Cells
  BY DEF RecordCells, RecordScanners
<1>2. image.cells \in Seq(Cells)
  BY <1>1 DEF RecordTyped, RecordImages
<1> HIDE DEF Cells
<1>3. WalkStart \in Nat /\ bufsize \in Nat /\ WalkStart + bufsize <= Len(image.cells)
  BY InThePage DEF ImageSize
<1>4. k < bufsize => WalkStart + k + 1 \in 1 .. Len(image.cells)
  BY <1>2, <1>3
<1>5. Cell(k, NoUsn) \in Cells \cup {NoUsn}
  BY <1>2, <1>4 DEF Cell
<1>6. QED BY <1>5 DEF Cells

LEMMA UsnFirstKeeps == ASSUME RecordInv, UsnFirst PROVE RecordInv'
<1>1. scanner = "ntfsusn" /\ ~WalkDone /\ pos \in Nat /\ memo = 0 /\ pagesize \in Nat /\ RecordTyped
  BY InThePage DEF UsnFirst, In, RecordInv, RecordTyped
<1> DEFINE record == check_usnrecordv2_signature(pos)
<1>2. \/ record = NoUsn
      \/ record.size \in Nat \ {0} /\ record.odd \in BOOLEAN
  BY <1>1, UsnCell DEF check_usnrecordv2_signature
<1>3. NoUsn.odd = FALSE /\ NoUsn.size = 0
  BY DEF NoUsn
<1>4. \/ Leaves /\ Silent
      \/ Silent /\ GoesTo(pos + 1) /\ memo' = 0
      \/ /\ record.size \in Nat /\ pos < pagesize
         /\ \/ Report("corrupted", pos, record.size) /\ GoesTo(pos + record.size) /\ memo' = 0
            \/ Report("corrupted", pos, record.size) /\ Leaves
            \/ Report("UsnJrnl-J", pos, record.size) /\ Leaves
            \/ Silent /\ GoesTo(pos + 0) /\ pos' = pos
  <2> HIDE DEF record
  <2>1. \/ pos >= pagesize /\ LeavePage /\ Silent
        \/ pos < pagesize /\ record = NoUsn /\ Silent /\ MoveTo(pos + 1) /\ UNCHANGED memo
        \/ /\ pos < pagesize /\ record.odd
           /\ Report("corrupted", pos, record.size) /\ MoveTo(pos + record.size) /\ UNCHANGED memo
        \/ /\ pos < pagesize /\ record # NoUsn
           /\ \/ /\ \/ Report("UsnJrnl-J", pos, record.size)
                    \/ Report("corrupted", pos, record.size)
                 /\ LeavePage
              \/ Silent /\ memo' = record.size /\ UNCHANGED <<scanner, image, page, pos>>
    BY DEF UsnFirst, record
  <2>2. QED BY <1>1, <1>2, <1>3, <2>1 DEF LeavePage, Leaves, GoesTo, MoveTo
<1> HIDE DEF record
<1>5. RecordTyped' /\ CarvedOnce' /\ CarvedBefore'
  <2>1. CASE Silent
    BY <1>1, <1>4, <2>1, SilentKeeps
  <2>2. CASE ~Silent
    <3>1. "corrupted" \in Kinds /\ "UsnJrnl-J" \in Kinds
      BY DEF Kinds
    <3>2. QED BY <1>1, <1>4, <2>2, <3>1, ReportKeeps
  <2>3. QED BY <2>1, <2>2
<1>6. RunInPage'
  <2>1. page' = page /\ image' = image => pagesize' = pagesize
    BY DEF pagesize, WalkStart, ImageSize, Least
  <2>2. QED BY <1>1, <1>4, <2>1 DEF RunInPage, Leaves, GoesTo
<1>7. QED BY <1>5, <1>6 DEF RecordInv

LEMMA UsnNextKeeps == ASSUME RecordInv, UsnNext PROVE RecordInv'
<1>1. /\ scanner = "ntfsusn" /\ ~WalkDone /\ pos \in Nat /\ memo \in Nat /\ pagesize \in Nat /\ RecordTyped
      /\ memo > 0 /\ pos < pagesize
  BY InThePage DEF UsnNext, In, RecordInv, RecordTyped, RunInPage
<1> DEFINE here == pos + memo
           record == Cell(here, NoUsn)
           later == Cell(Boundary(here), NoUsn)
<1>2. here \in Nat /\ Boundary(here) \in Nat /\ Boundary(here) - pos \in Nat
  <2>1. here % SECTOR_SIZE \in Nat /\ here % SECTOR_SIZE < SECTOR_SIZE /\ SECTOR_SIZE \in Nat
    BY <1>1, RecordAssumption
  <2>2. QED BY <1>1, <2>1 DEF Boundary
<1>3. record = NoUsn \/ record.size \in Nat
  BY <1>1, <1>2, UsnCell
<1>4. \/ /\ Silent /\ UNCHANGED <<scanner, image, page, pos>>
         /\ \/ record # NoUsn /\ memo' = memo + record.size
            \/ memo' = Boundary(here) - pos
      \/ UsnCarve(memo)
      \/ UsnCarve(pagesize - pos)
  <2> HIDE DEF here
  <2>1. check_usnrecordv2_or_v4_signature(here) = record /\ check_usnrecordv2_or_v4_signature(Boundary(here)) = later
    BY DEF check_usnrecordv2_or_v4_signature
  <2> HIDE DEF record, later
  <2>2. CASE record.odd \/ (record # NoUsn /\ ~record.odd /\ here + record.size < pagesize)
             \/ (record # NoUsn /\ ~record.odd /\ here + record.size >= pagesize)
    BY <2>1, <2>2 DEF UsnNext, here
  <2>3. CASE ~(record.odd \/ (record # NoUsn /\ ~record.odd /\ here + record.size < pagesize)
             \/ (record # NoUsn /\ ~record.odd /\ here + record.size >= pagesize))
    BY <2>1, <2>3 DEF UsnNext, here
  <2>4. QED BY <2>2, <2>3
<1> HIDE DEF here, record, later
<1>5. ASSUME Silent, UNCHANGED <<scanner, image, page, pos>>, memo' \in Nat
      PROVE  RecordInv'
  <2>1. GoesTo(pos + 0)
    BY <1>1, <1>5 DEF GoesTo
  <2>2. pagesize' = pagesize
    BY <1>5 DEF pagesize, WalkStart, ImageSize, Least
  <2>3. QED BY <1>1, <1>5, <2>1, <2>2, SilentKeeps DEF RecordInv, RunInPage
<1>6. ASSUME NEW total \in Nat, UsnCarve(total)
      PROVE  RecordInv'
  <2>1. Report("UsnJrnl-J", pos, total) /\ GoesTo(pos + total) /\ memo' = 0
    BY <1>6 DEF UsnCarve, MoveTo, GoesTo
  <2>2. "UsnJrnl-J" \in Kinds
    BY DEF Kinds
  <2>3. RecordTyped' /\ CarvedOnce' /\ CarvedBefore'
    BY <1>1, <2>1, <2>2, ReportKeeps
  <2>4. QED BY <2>1, <2>3 DEF RecordInv, RunInPage
<1>7. pagesize - pos \in Nat
  BY <1>1
<1>8. QED BY <1>1, <1>2, <1>3, <1>4, <1>5, <1>6, <1>7

\* A cell of an image of EVTX files.
LEMMA EvtxCell ==
  ASSUME RecordTyped, ~WalkDone, scanner = "evtx", NEW k \in Nat
  PROVE  /\ \A is \in {"header", "chunk", "record"} : Check(is, k) \in Int
         /\ Check("record", k) \in Nat
         /\ Check("record", k) > 0 => k < bufsize
<1> DEFINE Cells == {NoEvtx} \cup [is : {"header", "chunk"}, n : Int] \cup [is : {"record"}, n : Nat \ {0}]
<1>1. RecordCells["evtx"] = Cells
  BY DEF RecordCells, RecordScanners
<1>2. image.cells \in Seq(Cells)
  BY <1>1 DEF RecordTyped, RecordImages
<1> HIDE DEF Cells
<1>3. WalkStart \in Nat /\ bufsize \in Nat /\ WalkStart + bufsize <= Len(image.cells)
  BY InThePage DEF ImageSize
<1>4. k < bufsize => WalkStart + k + 1 \in 1 .. Len(image.cells)
  BY <1>2, <1>3
<1>5. Cell(k, NoEvtx) \in Cells \cup {NoEvtx}
  BY <1>2, <1>4 DEF Cell
<1>6. ~(k < bufsize) => Cell(k, NoEvtx) = NoEvtx
  BY DEF Cell
<1>7. QED BY <1>5, <1>6 DEF Cells, Check, NoEvtx

\* Each chunk counted from k on, but for the first, has a signature where it should begin.
LEMMA ChunksCounted ==
  ASSUME RecordTyped, ~WalkDone, scanner = "evtx", NEW k \in Nat
  PROVE  /\ ChunksFrom(k) \in 1 .. bufsize + 1
         /\ \A i \in 1 .. ChunksFrom(k) - 1 : check_evtxchunk_signature(k + i * ELFCHNK_SIZE) > 0
<1>1. bufsize \in Nat /\ pagesize \in Nat /\ pagesize <= bufsize
  BY InThePage
<1>2. ELFCHNK_SIZE \in Nat \ {0}
  BY RecordAssumption
<1>3. \A n \in Nat : n * ELFCHNK_SIZE \in Nat /\ n * ELFCHNK_SIZE >= n
  <2> TAKE n \in Nat
  <2>1. ELFCHNK_SIZE - 1 \in Nat /\ n * (ELFCHNK_SIZE - 1) >= 0
    BY <1>2
  <2>2. QED BY <1>2, <2>1
<1> DEFINE Place(n) == k + n * ELFCHNK_SIZE
           Ends == {n \in 1 .. bufsize + 1 : check_evtxchunk_signature(Place(n)) <= 0 \/ Place(n) >= pagesize}
<1>4. \A n \in Nat : Place(n) \in Nat /\ check_evtxchunk_signature(Place(n)) \in Int
  BY <1>3, EvtxCell DEF check_evtxchunk_signature
<1>5. bufsize + 1 \in Ends
  BY <1>1, <1>3
<1>6. Ends \in SUBSET Nat
  BY <1>1
<1>7. PICK n \in Ends : \A m \in Ends : n <= m
  BY <1>5, <1>6, LeastNatural
<1>8. \A i \in 1 .. n - 1 : check_evtxchunk_signature(Place(i)) > 0 /\ Place(i) < pagesize
  <2> TAKE i \in 1 .. n - 1
  <2>1. i \in 1 .. bufsize + 1 /\ i \in Nat /\ i \notin Ends
    BY <1>1, <1>7
  <2>2. check_evtxchunk_signature(Place(i)) \in Int /\ Place(i) \in Nat
    BY <1>4, <2>1
  <2>3. QED BY <1>1, <2>1, <2>2
<1>9. QED BY <1>7, <1>8 DEF ChunksFrom

LEMMA EvtxFileKeeps == ASSUME RecordInv, EvtxFile PROVE RecordInv'
<1>1. scanner = "evtx" /\ ~WalkDone /\ pos \in Nat /\ pos < pagesize /\ RecordTyped
  BY DEF EvtxFile, In, RecordInv, RecordTyped
<1>2. CLUSTER_SIZE \in Nat /\ ELFCHNK_SIZE \in Nat
  BY RecordAssumption
<1>3. pos + CLUSTER_SIZE \in Nat /\ ChunksFrom(pos + CLUSTER_SIZE) \in Nat
  BY <1>1, <1>2, ChunksCounted, InThePage
<1>4. CLUSTER_SIZE + ChunksFrom(pos + CLUSTER_SIZE) * ELFCHNK_SIZE \in Nat /\ CLUSTER_SIZE + ELFCHNK_SIZE \in Nat
  BY <1>2, <1>3
<1>5. check_evtxchunk_signature(pos + CLUSTER_SIZE) \in Int
  BY <1>1, <1>3, EvtxCell DEF check_evtxchunk_signature
<1>6. PICK total \in Nat : /\ Silent \/ Report("file", pos, total)
                           /\ memo' = total /\ MoveTo(pos + total)
  BY <1>2, <1>4, <1>5 DEF EvtxFile
<1>7. GoesTo(pos + total) /\ scanner' = scanner
  BY <1>6 DEF GoesTo, MoveTo
<1>8. "file" \in Kinds
  BY DEF Kinds
<1>9. RecordTyped' /\ CarvedOnce' /\ CarvedBefore'
  BY <1>1, <1>6, <1>7, <1>8, SilentKeeps, ReportKeeps
<1>10. QED BY <1>1, <1>7, <1>9 DEF RecordInv, RunInPage

LEMMA EvtxChunksKeeps == ASSUME RecordInv, EvtxChunks PROVE RecordInv'
<1>1. scanner = "evtx" /\ ~WalkDone /\ pos \in Nat /\ memo \in Nat /\ pos < pagesize /\ RecordTyped
  BY DEF EvtxChunks, In, RecordInv, RecordTyped
<1> DEFINE total == memo + ChunksFrom(pos + memo) * ELFCHNK_SIZE
<1>2. ELFCHNK_SIZE \in Nat /\ ChunksFrom(pos + memo) \in Nat
  BY <1>1, ChunksCounted, InThePage, RecordAssumption
<1>3. total \in Nat
  BY <1>1, <1>2
<1>4. Report("chunks", pos, total) /\ memo' = total /\ MoveTo(pos + total)
  BY DEF EvtxChunks
<1> HIDE DEF total
<1>5. GoesTo(pos + total) /\ scanner' = scanner
  BY <1>3, <1>4 DEF GoesTo, MoveTo
<1>6. "chunks" \in Kinds
  BY DEF Kinds
<1>7. RecordTyped' /\ CarvedOnce' /\ CarvedBefore'
  BY <1>1, <1>3, <1>4, <1>5, <1>6, ReportKeeps
<1>8. QED BY <1>1, <1>5, <1>7 DEF RecordInv, RunInPage

\* The orphan records of a cluster, each where a record is.
InRun(k, end) == {o \in [at : k .. end - 1, n : Nat] : check_evtxrecord_signature(o.at) > 0}
\* One that is read to its end; only the last may not be, if it goes on behind the sbuf.
ReadOut(o) == o.n = check_evtxrecord_signature(o.at) /\ ~RecordThrows(o.at)
CutOff(o) == o.n = 0 /\ RecordThrows(o.at)
Runs(k, end) == {s \in Seq(InRun(k, end)) : \A i \in DOMAIN s : ReadOut(s[i]) \/ (i = Len(s) /\ CutOff(s[i]))}

\* A record read out before a run of others begins a longer one.
LEMMA RunsGrow ==
  ASSUME NEW k \in Nat, NEW end \in Nat, NEW o \in InRun(k, end), ReadOut(o), NEW rest \in Runs(k, end)
  PROVE  <<o>> \o rest \in Runs(k, end)
<1> DEFINE O == InRun(k, end)
           s == <<o>> \o rest
<1> HIDE DEF O
<1>1. rest \in Seq(O) /\ \A i \in DOMAIN rest : ReadOut(rest[i]) \/ (i = Len(rest) /\ CutOff(rest[i]))
  BY DEF Runs, O
<1>2. o \in O
  BY DEF O
<1>3. s \in Seq(O) /\ Len(s) = Len(rest) + 1 /\ s[1] = o /\ \A i \in 1 .. Len(rest) : s[i + 1] = rest[i]
  BY <1>1, <1>2
<1> HIDE DEF s
<1>4. ASSUME NEW i \in DOMAIN s PROVE ReadOut(s[i]) \/ (i = Len(s) /\ CutOff(s[i]))
  <2>1. CASE i = 1
    BY <1>3, <2>1
  <2>2. CASE i # 1
    <3>1. i - 1 \in 1 .. Len(rest) /\ (i - 1) + 1 = i /\ Len(rest) \in Nat
      BY <1>1, <1>3, <2>2
    <3>2. s[i] = rest[i - 1] /\ i - 1 \in DOMAIN rest
      BY <1>1, <1>3, <3>1
    <3>3. i - 1 = Len(rest) => i = Len(s)
      BY <1>3, <3>1
    <3>4. QED BY <1>1, <3>2, <3>3
  <2>3. QED BY <2>1, <2>2
<1>5. s \in Runs(k, end)
  BY <1>3, <1>4 DEF Runs, O
<1>6. QED BY <1>5 DEF s

\* The records from i on, where f lists those further on.
OrphansAt(f, i, end) ==
  LET n == check_evtxrecord_signature(i) IN
  IF i = end THEN <<>>
  ELSE IF RecordThrows(i) THEN <<[at |-> i, n |-> 0]>>
  ELSE IF n > 0 THEN <<[at |-> i, n |-> n]>> \o (IF i + n < end THEN f[i + n] ELSE <<>>)
  ELSE f[i + 1]

\* The recursive function Orphans is one: it has a value at each place.
LEMMA OrphansKnown ==
  ASSUME RecordTyped, ~WalkDone, scanner = "evtx", NEW k \in Nat, NEW end \in Nat, k <= end
  PROVE  \E next : Orphans(k, end) = next[k] /\ \A i \in k .. end : next[i] = OrphansAt(next, i, end)
<1> DEFINE N(i) == check_evtxrecord_signature(i)
           Body(f, i) == OrphansAt(f, i, end)
           Is(f) == f = [i \in k .. end |-> Body(f, i)]
<1>1. \A i \in Nat : N(i) \in Nat
  BY EvtxCell DEF check_evtxrecord_signature
<1>4. ASSUME NEW i \in k .. end, NEW f, NEW g, \A j \in i + 1 .. end : f[j] = g[j]
      PROVE  Body(f, i) = Body(g, i)
  <2>1. CASE i = end
    BY <2>1 DEF OrphansAt
  <2>2. CASE i # end
    <3>1. i \in Nat /\ N(i) \in Nat /\ i + 1 \in i + 1 .. end
      BY <1>1, <2>2
    <3> DEFINE n == N(i)
    <3>2. n > 0 /\ i + n < end => f[i + n] = g[i + n]
      BY <1>4, <3>1
    <3>3. f[i + 1] = g[i + 1]
      BY <1>4, <3>1
    <3>4. Body(f, i) = Body(g, i)
      <4> DEFINE F(h) == IF RecordThrows(i) THEN <<[at |-> i, n |-> 0]>>
                         ELSE IF n > 0 THEN <<[at |-> i, n |-> n]>> \o (IF i + n < end THEN h[i + n] ELSE <<>>)
                         ELSE h[i + 1]
      <4>1. Body(f, i) = F(f) /\ Body(g, i) = F(g)
        BY <2>2 DEF OrphansAt
      <4> HIDE DEF n, Body
      <4>2. QED BY <3>2, <3>3, <4>1
    <3>5. QED BY <3>4
  <2>3. QED BY <2>1, <2>2
<1> HIDE DEF Body
<1>5. \E f : Is(f)
  <2> DEFINE T == {m \in 0 .. end - k : ~\E f : f = [i \in end - m .. end |-> Body(f, i)]}
  <2>1. SUFFICES T = {}
    <3>1. end - k \in 0 .. end - k /\ end - (end - k) = k
      OBVIOUS
    <3>2. end - k \notin T
      BY <2>1
    <3>3. PICK f : f = [i \in end - (end - k) .. end |-> Body(f, i)]
      BY <3>1, <3>2
    <3>4. QED BY <3>1, <3>3
  <2>2. SUFFICES ASSUME T # {} PROVE FALSE
    OBVIOUS
  <2>3. T \in SUBSET Nat
    OBVIOUS
  <2>4. PICK m \in T : \A j \in T : m <= j
    BY <2>2, <2>3, LeastNatural
  <2>5. \E g : \A i \in end - m + 1 .. end : g[i] = Body(g, i)
    <3>1. CASE m = 0
      BY <3>1
    <3>2. CASE m # 0
      <4>1. m - 1 \in 0 .. end - k /\ end - (m - 1) = end - m + 1 /\ ~(m <= m - 1)
        BY <2>4, <3>2
      <4>4. m - 1 \notin T
        <5> HIDE DEF T
        <5>1. QED BY <2>4, <4>1
      <4>2. PICK g : g = [i \in end - m + 1 .. end |-> Body(g, i)]
        BY <4>1, <4>4
      <4>3. QED BY <4>2
    <3>3. QED BY <3>1, <3>2
  <2>6. PICK g : \A i \in end - m + 1 .. end : g[i] = Body(g, i)
    BY <2>5
  <2> DEFINE h == [i \in end - m .. end |-> IF i = end - m THEN Body(g, i) ELSE g[i]]
  <2>7. end - m \in Nat /\ end - m \in k .. end
    BY <2>4
  <2>8. \A i \in end - m + 1 .. end : h[i] = g[i] /\ i \in end - m .. end
    BY <2>7
  <2>9. ASSUME NEW i \in end - m .. end PROVE h[i] = Body(h, i)
    <3>1. \A j \in i + 1 .. end : h[j] = g[j]
      BY <2>7, <2>8
    <3>2. i \in k .. end
      BY <2>7
    <3>3. Body(h, i) = Body(g, i)
      <4> HIDE DEF h
      <4>1. QED BY <1>4, <3>1, <3>2
    <3>4. h[i] = Body(g, i)
      BY <2>6, <2>7
    <3>5. QED BY <3>3, <3>4
  <2>10. h = [i \in end - m .. end |-> h[i]]
    OBVIOUS
  <2> HIDE DEF h
  <2>11. h = [i \in end - m .. end |-> Body(h, i)]
    BY <2>9, <2>10
  <2>12. QED BY <2>4, <2>11
<1> DEFINE next == CHOOSE f : Is(f)
<1>6. Orphans(k, end) = next[k]
  BY DEF Orphans, Body, OrphansAt
<1>7. Is(next)
  <2> HIDE DEF Is
  <2>1. QED BY <1>5
<1> HIDE DEF next
<1>8. \A i \in k .. end : next[i] = Body(next, i)
  BY <1>7
<1>9. QED BY <1>6, <1>8 DEF Body

\* What it lists are runs of records.
LEMMA OrphansRun ==
  ASSUME RecordTyped, ~WalkDone, scanner = "evtx", NEW k \in Nat, NEW end \in Nat, k <= end
  PROVE  \E next : /\ Orphans(k, end) = next[k]
                   /\ \A i \in k .. end : next[i] = OrphansAt(next, i, end) /\ next[i] \in Runs(k, end)
<1> DEFINE N(i) == check_evtxrecord_signature(i)
           Body(f, i) == OrphansAt(f, i, end)
           O == InRun(k, end)
           G == Runs(k, end)
<1>1. \A i \in Nat : N(i) \in Nat
  BY EvtxCell DEF check_evtxrecord_signature
<1>2. \A i \in k .. end - 1 : /\ RecordThrows(i) => [at |-> i, n |-> 0] \in O
                              /\ N(i) > 0 => [at |-> i, n |-> N(i)] \in O
  <2> TAKE i \in k .. end - 1
  <2>1. i \in Nat /\ N(i) \in Nat
    BY <1>1
  <2>2. RecordThrows(i) => N(i) > 0
    BY DEF RecordThrows, check_evtxrecord_signature
  <2>3. QED BY <2>1, <2>2 DEF InRun
<1>3. ASSUME NEW i \in k .. end, NEW f, \A j \in i + 1 .. end : f[j] \in G
      PROVE  Body(f, i) \in G
  <2> HIDE DEF O, G
  <2>0. <<>> \in G
    BY DEF G, Runs
  <2>1. CASE i = end
    BY <2>0, <2>1 DEF OrphansAt
  <2>2. CASE i # end
    <3>1. i \in k .. end - 1 /\ i \in Nat /\ N(i) \in Nat /\ i + 1 \in i + 1 .. end
      BY <1>1, <2>2
    <3> DEFINE n == N(i)
    <3>0. n \in Nat
      BY <3>1
    <3> HIDE DEF N, n
    <3>2. CASE RecordThrows(i)
      <4>1. Body(f, i) = <<[at |-> i, n |-> 0]>>
        BY <2>2, <3>2 DEF OrphansAt
      <4>2. [at |-> i, n |-> 0] \in O
        BY <1>2, <3>1, <3>2
      <4> DEFINE o == [at |-> i, n |-> 0]
      <4> HIDE DEF Body, o
      <4>3. <<o>> \in Seq(O) /\ Len(<<o>>) = 1 /\ \A j \in DOMAIN <<o>> : j = 1 /\ <<o>>[j] = o
        BY <4>2 DEF o
      <4>4. CutOff(o)
        BY <3>2 DEF o, CutOff
      <4>5. <<o>> \in G
        BY <4>3, <4>4 DEF G, O, Runs
      <4>6. QED BY <4>1, <4>5 DEF o
    <3>3. CASE ~RecordThrows(i) /\ n > 0
      <4>1. (IF i + n < end THEN f[i + n] ELSE <<>>) \in G
        BY <1>3, <2>0, <3>0, <3>1, <3>3
      <4>2. [at |-> i, n |-> n] \in O /\ ReadOut([at |-> i, n |-> n])
        BY <1>2, <3>1, <3>3 DEF ReadOut, N, n
      <4>3. Body(f, i) = <<[at |-> i, n |-> n]>> \o (IF i + n < end THEN f[i + n] ELSE <<>>)
        BY <2>2, <3>3 DEF OrphansAt, N, n
      <4> DEFINE rest == IF i + n < end THEN f[i + n] ELSE <<>>
                 o == [at |-> i, n |-> n]
      <4> HIDE DEF Body, rest, o
      <4>4. <<o>> \o rest \in G
        BY <4>1, <4>2, RunsGrow DEF rest, o, G, O
      <4>5. QED BY <4>3, <4>4 DEF rest, o
    <3>4. CASE ~RecordThrows(i) /\ ~(n > 0)
      <4>1. Body(f, i) = f[i + 1]
        BY <2>2, <3>4 DEF OrphansAt, N, n
      <4>2. QED BY <1>3, <3>1, <4>1
    <3>5. QED BY <3>2, <3>3, <3>4
  <2>3. QED BY <2>1, <2>2
<1> HIDE DEF Body, O, G
<1>8. PICK next : Orphans(k, end) = next[k] /\ \A i \in k .. end : next[i] = Body(next, i)
  BY OrphansKnown DEF Body
<1>9. \A i \in k .. end : next[i] \in G
  <2> DEFINE T == {m \in 0 .. end - k : next[end - m] \notin G}
  <2>1. SUFFICES T = {}
    <3>1. \A i \in k .. end : end - i \in 0 .. end - k /\ end - (end - i) = i
      OBVIOUS
    <3>2. QED BY <2>1, <3>1
  <2>2. SUFFICES ASSUME T # {} PROVE FALSE
    OBVIOUS
  <2>3. T \in SUBSET Nat
    OBVIOUS
  <2>4. PICK m \in T : \A j \in T : m <= j
    BY <2>2, <2>3, LeastNatural
  <2>5. \A j \in end - m + 1 .. end : next[j] \in G
    <3> TAKE j \in end - m + 1 .. end
    <3>1. end - j \in 0 .. end - k /\ end - j < m /\ end - (end - j) = j
      BY <2>4
    <3>2. end - j \notin T
      <4>1. m \in Nat /\ end - j \in Nat /\ ~(m <= end - j)
        BY <2>3, <2>4, <3>1
      <4> HIDE DEF T
      <4>2. QED BY <2>4, <4>1
    <3>3. QED BY <3>1, <3>2
  <2>6. end - m \in k .. end
    BY <2>4
  <2>7. Body(next, end - m) \in G
    BY <1>3, <2>5, <2>6
  <2>8. QED BY <1>8, <2>4, <2>6, <2>7
<1>10. QED BY <1>8, <1>9 DEF G, Body

LEMMA OrphansFound ==
  ASSUME RecordTyped, ~WalkDone, scanner = "evtx", NEW k \in Nat, NEW end \in Nat, k <= end
  PROVE  Orphans(k, end) \in Runs(k, end)
<1>1. PICK next : /\ Orphans(k, end) = next[k]
                  /\ \A i \in k .. end : next[i] = OrphansAt(next, i, end) /\ next[i] \in Runs(k, end)
  BY OrphansRun
<1>2. k \in k .. end
  OBVIOUS
<1>3. QED BY <1>1, <1>2

LEMMA EvtxClusterKeeps == ASSUME RecordInv, EvtxCluster PROVE RecordInv'
<1>1. scanner = "evtx" /\ ~WalkDone /\ pos \in Nat /\ memo \in Nat /\ pos < pagesize /\ RecordTyped
  BY DEF EvtxCluster, In, RecordInv, RecordTyped
<1>2. CLUSTER_SIZE \in Nat /\ WalkStart \in Nat /\ bufsize \in Nat /\ pagesize \in Nat
  BY <1>1, RecordAssumption, InThePage
<1> DEFINE found == Orphans(pos, pos + CLUSTER_SIZE)
           O == InRun(pos, pos + CLUSTER_SIZE)
<1>3. found \in Seq(O)
  BY <1>1, <1>2, OrphansFound, SMTT(30) DEF Runs
<1> DEFINE thrown == found # <<>> /\ found[Len(found)].n = 0
           kept == IF thrown THEN SubSeq(found, 1, Len(found) - 1) ELSE found
           new == [i \in DOMAIN kept |-> Slice("orphan", kept[i].at, kept[i].n)]
<1>4. reports' = reports \o new /\ (LeavePage \/ (MoveTo(pos + CLUSTER_SIZE) /\ UNCHANGED memo))
  BY DEF EvtxCluster
<1> HIDE DEF found, O
<1>5. kept \in Seq(O)
  <2>1. CASE thrown
    <3>1. Len(found) \in Nat /\ Len(found) - 1 <= Len(found)
      BY <1>3
    <3>2. SubSeq(found, 1, Len(found) - 1) \in Seq(O)
      BY <1>3, <3>1
    <3>3. QED BY <2>1, <3>2
  <2>2. QED BY <1>3, <2>1
<1> HIDE DEF kept
<1>6. ASSUME NEW i \in DOMAIN kept PROVE new[i].kind = "orphan" /\ Fresh(new[i])
  <2>1. kept[i] \in O
    BY <1>5
  <2>2. kept[i].at \in pos .. (pos + CLUSTER_SIZE) - 1 /\ kept[i].n \in Nat /\ check_evtxrecord_signature(kept[i].at) > 0
    <3>1. \A o \in O : o.at \in pos .. (pos + CLUSTER_SIZE) - 1 /\ o.n \in Nat /\ check_evtxrecord_signature(o.at) > 0
      BY DEF O, InRun
    <3>2. QED BY <2>1, <3>1
  <2>3. kept[i].at \in Nat /\ kept[i].at < bufsize /\ pos <= kept[i].at
    BY <1>1, <1>2, <2>2, EvtxCell DEF check_evtxrecord_signature
  <2>4. new[i] = [kind |-> "orphan", from |-> WalkStart + kept[i].at, to |-> WalkStart + Least(kept[i].at + kept[i].n, bufsize)]
    BY DEF Slice
  <2>5. LET e == Least(kept[i].at + kept[i].n, bufsize) IN e \in Nat /\ kept[i].at <= e /\ e <= bufsize
    BY <1>2, <2>2, <2>3 DEF Least
  <2> HIDE DEF new
  <2>6. QED BY <1>1, <1>2, <2>3, <2>4, <2>5 DEF Fresh, Carving, Kinds
<1>7. new \in Seq(Carving) /\ DOMAIN new = DOMAIN kept
  <2>1. DOMAIN new = DOMAIN kept
    OBVIOUS
  <2>2. DOMAIN kept = 1 .. Len(kept) /\ Len(kept) \in Nat
    BY <1>5
  <2>3. \A i \in 1 .. Len(kept) : new[i] \in Carving
    BY <1>6, <2>2 DEF Fresh
  <2>4. new = [i \in 1 .. Len(kept) |-> new[i]]
    BY <2>2
  <2> HIDE DEF new
  <2>5. new \in [1 .. Len(kept) -> Carving]
    BY <2>3, <2>4
  <2>6. QED BY <2>1, <2>2, <2>5
<1> HIDE DEF new
<1>8. scanner' = scanner /\ image' = image /\ memo' \in Nat
  BY <1>1, <1>4 DEF LeavePage, MoveTo
<1>9. \/ page' = page + 1 /\ pos' = 0
      \/ page' = page /\ pos' \in Nat /\ pos <= pos'
  BY <1>1, <1>2, <1>4 DEF LeavePage, MoveTo
<1>10. \A i \in DOMAIN new : Fresh(new[i]) /\ new[i].kind = "orphan"
  BY <1>6, <1>7
<1>11. RecordTyped' /\ CarvedOnce' /\ CarvedBefore'
  BY <1>1, <1>4, <1>7, <1>8, <1>9, <1>10, CarvingKeeps
<1>12. QED BY <1>1, <1>8, <1>11 DEF RecordInv, RunInPage

LEMMA EvtxEndKeeps == ASSUME RecordInv, EvtxEnd PROVE RecordInv'
<1>1. ~WalkDone /\ Leaves /\ Silent
  BY DEF EvtxEnd, In, LeavePage, Leaves
<1>2. RecordTyped' /\ CarvedOnce' /\ CarvedBefore'
  BY <1>1, SilentKeeps
<1>3. QED BY <1>1, <1>2 DEF RecordInv, RunInPage, Leaves

LEMMA NextRecord == ASSUME RecordInv, [RecordStep]_walk_vars PROVE RecordInv'
<1>1. CASE RecordStep
  BY <1>1, UtmpKeeps, NtfsKeeps, UsnFirstKeeps, UsnNextKeeps, EvtxFileKeeps, EvtxChunksKeeps, EvtxClusterKeeps, EvtxEndKeeps
     DEF RecordStep, EvtxStep
<1>2. CASE UNCHANGED walk_vars
  BY <1>2 DEF walk_vars, RecordInv, RecordTyped, RunInPage, CarvedOnce, CarvedBefore, ImageSize, WalkStart, WalkDone,
              PageBound, PageFirst, pagesize, Least, Overlap
<1>3. QED BY <1>1, <1>2

\* CarvedOnce, a part of FoundOnce: over an image of any content, whatever the sizes of
\* pages and margins, the scanners of records carve nothing twice but what goes on into
\* the next page.
THEOREM RecordsCarvedOnce == RecordSpec => []CarvedOnce
<1>1. RecordInv => CarvedOnce
  BY DEF RecordInv
<1>2. QED BY <1>1, InitRecord, NextRecord, PTL DEF RecordSpec

\* WalkTypeOK, a part of TypeOK, for these scanners: what is carved lies in the image.
THEOREM RecordTyping == RecordSpec => []WalkTypeOK
<1>1. ASSUME RecordInv PROVE WalkTypeOK
  <2>1. \A i \in DOMAIN reports : reports[i].from \in Nat
    <3>1. reports \in Seq(Carving)
      BY <1>1 DEF RecordInv, RecordTyped
    <3>2. \A i \in DOMAIN reports : reports[i] \in Carving
      BY <3>1
    <3>3. QED BY <3>2 DEF Carving
  <2>2. QED BY <1>1, <2>1 DEF RecordInv, RecordTyped, WalkTypeOK
<1>2. QED BY <1>1, InitRecord, NextRecord, PTL DEF RecordSpec

-----------------------------------------------------------------------------
(* What the scanners of records carve is made of records *)

\* The ends of USN records in the image m that follow each other from q on, as a function.
EndsAt(m, f, p) ==
  IF p = Len(m.cells) \/ m.cells[p + 1] = NoUsn THEN {} ELSE
    LET e == Least(p + m.cells[p + 1].size, Len(m.cells))
        b == Least((p \div m.pagesize) * m.pagesize + Boundary(e - (p \div m.pagesize) * m.pagesize), Len(m.cells))
    IN  {e} \cup f[e] \cup f[b]
EndsFrom(m, q) == CHOOSE f : f = [p \in q .. Len(m.cells) |-> EndsAt(m, f, p)]

LEMMA UsnEndsAre == \A q : UsnEnds(q) = EndsFrom(image, q)[q]
BY DEF UsnEnds, EndsFrom, EndsAt, ImageSize, CellAt, PageFirst

\* The next places lie in the image, further on.
LEMMA EndsOnwards ==
  ASSUME NEW m \in RecordImages("ntfsusn"), NEW p \in Nat, p < Len(m.cells), m.cells[p + 1] # NoUsn,
         NEW e, e = Least(p + m.cells[p + 1].size, Len(m.cells)),
         NEW a, a = (p \div m.pagesize) * m.pagesize,
         NEW b, b = Least(a + Boundary(e - a), Len(m.cells))
  PROVE  /\ e \in p + 1 .. Len(m.cells) /\ b \in p + 1 .. Len(m.cells)
         /\ a \in Nat /\ a <= p
<1> DEFINE Cells == {NoUsn} \cup [v : {2, 4}, size : Nat \ {0}, odd : BOOLEAN]
<1>1. RecordCells["ntfsusn"] = Cells
  BY DEF RecordCells, RecordScanners
<1>2. m.cells \in Seq(Cells) /\ m.pagesize \in Nat \ {0}
  BY <1>1 DEF RecordImages
<1>3. m.cells[p + 1] \in Cells /\ Len(m.cells) \in Nat
  <2> HIDE DEF Cells
  <2>1. p + 1 \in 1 .. Len(m.cells)
    BY <1>2
  <2>2. QED BY <1>2, <2>1
<1>4. m.cells[p + 1].size \in Nat /\ m.cells[p + 1].size > 0
  BY <1>3
<1>5. e \in Nat /\ p < e /\ e <= Len(m.cells)
  BY <1>3, <1>4, SMTT(30) DEF Least
<1>6. a \in Nat /\ a <= p
  BY <1>2, Quotient
<1>7. e - a \in Nat /\ Boundary(e - a) \in Nat /\ Boundary(e - a) >= e - a
  <2>1. e - a \in Nat
    BY <1>5, <1>6
  <2>2. SECTOR_SIZE \in Nat /\ (e - a) % SECTOR_SIZE \in Nat /\ (e - a) % SECTOR_SIZE < SECTOR_SIZE
    BY <2>1, RecordAssumption
  <2>3. QED BY <2>1, <2>2, SMTT(30) DEF Boundary
<1>8. b \in p + 1 .. Len(m.cells)
  BY <1>3, <1>5, <1>6, <1>7, SMTT(60) DEF Least
<1>9. QED BY <1>5, <1>6, <1>8

\* The recursive function has a value at each place.
LEMMA EndsKnown ==
  ASSUME NEW m \in RecordImages("ntfsusn"), NEW q \in Nat, q <= Len(m.cells)
  PROVE  \A p \in q .. Len(m.cells) : EndsFrom(m, q)[p] = EndsAt(m, EndsFrom(m, q), p)
<1> DEFINE end == Len(m.cells)
           Is(f) == f = [p \in q .. end |-> EndsAt(m, f, p)]
<1>1. end \in Nat
  BY DEF RecordImages
<1>2. ASSUME NEW p \in q .. end, NEW f, NEW g, \A j \in p + 1 .. end : f[j] = g[j]
      PROVE  EndsAt(m, f, p) = EndsAt(m, g, p)
  <2>1. CASE p = end \/ m.cells[p + 1] = NoUsn
    BY <2>1 DEF EndsAt
  <2>2. CASE ~(p = end \/ m.cells[p + 1] = NoUsn)
    <3> DEFINE a == (p \div m.pagesize) * m.pagesize
               e == Least(p + m.cells[p + 1].size, end)
               b == Least(a + Boundary(e - a), end)
    <3>1. p \in Nat /\ p < end
      BY <1>1, <2>2
    <3>2. e \in p + 1 .. end /\ b \in p + 1 .. end
      BY <2>2, <3>1, EndsOnwards
    <3>3. EndsAt(m, f, p) = {e} \cup f[e] \cup f[b] /\ EndsAt(m, g, p) = {e} \cup g[e] \cup g[b]
      BY <2>2 DEF EndsAt
    <3> HIDE DEF a, e, b
    <3>4. QED BY <1>2, <3>2, <3>3
  <2>3. QED BY <2>1, <2>2
<1>3. \E f : Is(f)
  <2> HIDE DEF end
  <2> DEFINE T == {n \in 0 .. end - q : ~\E f : f = [p \in end - n .. end |-> EndsAt(m, f, p)]}
  <2>1. SUFFICES T = {}
    <3>1. end - q \in 0 .. end - q /\ end - (end - q) = q
      BY <1>1 DEF end
    <3>2. end - q \notin T
      BY <2>1
    <3>3. PICK f : f = [p \in end - (end - q) .. end |-> EndsAt(m, f, p)]
      BY <3>1, <3>2
    <3>4. QED BY <3>1, <3>3
  <2>2. SUFFICES ASSUME T # {} PROVE FALSE
    OBVIOUS
  <2>3. T \in SUBSET Nat
    BY <1>1
  <2>4. PICK n \in T : \A j \in T : n <= j
    BY <2>2, <2>3, LeastNatural
  <2>5. \E g : \A p \in end - n + 1 .. end : g[p] = EndsAt(m, g, p)
    <3>1. CASE n = 0
      BY <1>1, <3>1
    <3>2. CASE n # 0
      <4>1. n - 1 \in 0 .. end - q /\ end - (n - 1) = end - n + 1 /\ ~(n <= n - 1)
        BY <1>1, <2>4, <3>2
      <4>2. n - 1 \notin T
        <5> HIDE DEF T
        <5>1. QED BY <2>4, <4>1
      <4>3. PICK g : g = [p \in end - n + 1 .. end |-> EndsAt(m, g, p)]
        BY <4>1, <4>2
      <4>4. QED BY <4>3
    <3>3. QED BY <3>1, <3>2
  <2>6. PICK g : \A p \in end - n + 1 .. end : g[p] = EndsAt(m, g, p)
    BY <2>5
  <2> DEFINE h == [p \in end - n .. end |-> IF p = end - n THEN EndsAt(m, g, p) ELSE g[p]]
  <2>7. end - n \in Nat /\ end - n \in q .. end
    BY <1>1, <2>4
  <2>8. \A p \in end - n + 1 .. end : h[p] = g[p] /\ p \in end - n .. end
    BY <1>1, <2>7
  <2>9. ASSUME NEW p \in end - n .. end PROVE h[p] = EndsAt(m, h, p)
    <3>1. \A j \in p + 1 .. end : h[j] = g[j]
      BY <1>1, <2>7, <2>8
    <3>2. p \in q .. end
      BY <1>1, <2>7
    <3>3. EndsAt(m, h, p) = EndsAt(m, g, p)
      <4> HIDE DEF h
      <4>1. QED BY <1>2, <3>1, <3>2 DEF end
    <3>4. h[p] = EndsAt(m, g, p)
      BY <1>1, <2>6, <2>7
    <3>5. QED BY <3>3, <3>4
  <2>10. h = [p \in end - n .. end |-> h[p]]
    OBVIOUS
  <2> HIDE DEF h
  <2>11. h = [p \in end - n .. end |-> EndsAt(m, h, p)]
    BY <2>9, <2>10
  <2>12. QED BY <2>4, <2>11
<1> HIDE DEF Is
<1>4. Is(CHOOSE f : Is(f))
  BY <1>3
<1>5. EndsFrom(m, q) = CHOOSE f : Is(f)
  BY DEF EndsFrom, Is
<1>6. QED BY <1>4, <1>5 DEF Is

\* A cell of the sbuf is one of the image.
LEMMA CellsOf ==
  ASSUME NEW k, k < bufsize, NEW nothing
  PROVE  Cell(k, nothing) = CellAt(WalkStart + k)
BY DEF Cell, CellAt

\* What is whole stays so: the image does not change.
LEMMA WholeStays ==
  ASSUME scanner' = scanner, image' = image, NEW r, WholeRecords(r)
  PROVE  WholeRecords(r)'
<1>1. \A q : UsnEnds(q)' = EndsFrom(image', q)[q]
  BY DEF UsnEnds, EndsFrom, EndsAt, ImageSize, CellAt, PageFirst
<1>2. \A q : UsnEnds(q)' = UsnEnds(q)
  BY <1>1, UsnEndsAre
<1>3. ImageSize' = ImageSize /\ Places' = Places
  BY DEF ImageSize, Places
<1>4. \A q : CellAt(q)' = CellAt(q) /\ PageBound(q)' = PageBound(q)
  BY DEF CellAt, PageBound, PageFirst, ImageSize
<1>5. \A q, t : SamePage(q, t)' = SamePage(q, t)
  BY DEF SamePage
<1>6. QED BY <1>2, <1>3, <1>4, <1>5 DEF WholeRecords

\* Reports stay whole when whole ones are added, none, or one.
LEMMA WholeKeeps ==
  ASSUME RecordTyped, RecordsSound, scanner' = scanner, image' = image,
         NEW new \in Seq(Carving), reports' = reports \o new, \A k \in DOMAIN new : WholeRecords(new[k])
  PROVE  RecordsSound'
<1>1. reports \in Seq(Carving)
  BY DEF RecordTyped
<1>2. ASSUME NEW r, r \in {reports'[i] : i \in DOMAIN reports'} PROVE WholeRecords(r)'
  <2>1. PICK i \in DOMAIN reports' : r = reports'[i]
    BY <1>2
  <2>2. \/ i \in DOMAIN reports /\ r = reports[i]
        \/ i - Len(reports) \in DOMAIN new /\ r = new[i - Len(reports)]
    BY <1>1, <2>1
  <2>3. WholeRecords(r)
    BY <2>2 DEF RecordsSound
  <2>4. QED BY <2>3, WholeStays
<1>3. QED BY <1>2 DEF RecordsSound

LEMMA NoneKeeps ==
  ASSUME RecordTyped, RecordsSound, scanner' = scanner, image' = image, Silent
  PROVE  RecordsSound'
<1>1. << >> \in Seq(Carving) /\ reports' = reports \o << >> /\ DOMAIN << >> = {}
  BY DEF Silent, RecordTyped
<1>2. QED BY <1>1, WholeKeeps

LEMMA OneKeeps ==
  ASSUME RecordTyped, RecordsSound, ~WalkDone, pos < pagesize, scanner' = scanner, image' = image,
         NEW kind \in Kinds, NEW n \in Nat, Report(kind, pos, n), WholeRecords(Slice(kind, pos, n))
  PROVE  RecordsSound'
<1> DEFINE r == Slice(kind, pos, n)
<1>1. /\ WalkStart \in Nat /\ bufsize \in Nat /\ pos \in Nat /\ reports \in Seq(Carving)
  BY InThePage DEF RecordTyped
<1>2. r \in Carving
  BY <1>1 DEF Slice, Least, Carving
<1> HIDE DEF r
<1>3. <<r>> \in Seq(Carving) /\ \A k \in DOMAIN <<r>> : <<r>>[k] = r
  BY <1>2
<1>4. reports' = reports \o <<r>>
  BY <1>1, <1>2 DEF Report, r
<1>5. WholeRecords(r)
  BY DEF r
<1>6. \A k \in DOMAIN <<r>> : WholeRecords(<<r>>[k])
  BY <1>3, <1>5
<1>7. QED BY <1>3, <1>4, <1>6, WholeKeeps

\* One lemma for each scanner: what it carves is whole.
LEMMA UtmpSound == ASSUME RecordInv, RecordsSound, UtmpStep PROVE RecordsSound'
<1>1. scanner = "utmp" /\ ~WalkDone /\ pos \in Nat /\ RecordTyped /\ scanner' = scanner /\ image' = image
  BY DEF UtmpStep, In, RecordInv, RecordTyped, LeavePage, MoveTo
<1>2. UTMP_RECORD \in Nat /\ pagesize \in Nat /\ WalkStart \in Nat /\ bufsize \in Nat /\ pagesize <= bufsize
  BY RecordAssumption, InThePage, <1>1
<1>3. \/ Silent
      \/ pos < pagesize - UTMP_RECORD /\ check_utmprecord_signature(pos) /\ Report("utmp", pos, UTMP_RECORD)
  BY <1>1, <1>2 DEF UtmpStep
<1>4. CASE pos < pagesize - UTMP_RECORD /\ check_utmprecord_signature(pos) /\ Report("utmp", pos, UTMP_RECORD)
  <2>1. pos < bufsize /\ pos < pagesize /\ Least(pos + UTMP_RECORD, bufsize) = pos + UTMP_RECORD
    BY <1>1, <1>2, <1>4 DEF Least
  <2>2. CellAt(WalkStart + pos) = "utmp"
    BY <1>4, <2>1, CellsOf DEF check_utmprecord_signature
  <2>3. Slice("utmp", pos, UTMP_RECORD) = [kind |-> "utmp", from |-> WalkStart + pos, to |-> (WalkStart + pos) + UTMP_RECORD]
    BY <1>1, <1>2, <2>1 DEF Slice
  <2>4. WholeRecords(Slice("utmp", pos, UTMP_RECORD))
    <3> DEFINE r == Slice("utmp", pos, UTMP_RECORD)
    <3>1. r.kind = "utmp" /\ r.from = WalkStart + pos /\ r.to = r.from + UTMP_RECORD
      BY <2>3
    <3> HIDE DEF r
    <3>2. scanner \notin DOMAIN RunOf
      BY <1>1 DEF RunOf
    <3>3. WholeRecords(r)
      BY <2>2, <3>1, <3>2 DEF WholeRecords
    <3>4. QED BY <3>3 DEF r
  <2>5. "utmp" \in Kinds
    BY DEF Kinds
  <2>6. QED BY <1>1, <1>2, <1>4, <2>1, <2>4, <2>5, OneKeeps
<1>5. QED BY <1>1, <1>3, <1>4, NoneKeeps

LEMMA NtfsSound == ASSUME RecordInv, RecordsSound, NtfsStep PROVE RecordsSound'
<1>1. /\ ~WalkDone /\ pos \in Nat /\ RecordTyped /\ scanner' = scanner /\ image' = image
      /\ scanner \in {"ntfsmft", "ntfsindx", "ntfslogfile"} /\ scanner \in DOMAIN RunOf
  BY DEF NtfsStep, NtfsRun, NtfsAlone, RunOf, RecordInv, RecordTyped, LeavePage, MoveTo
<1>2. pagesize \in Nat /\ WalkStart \in Nat /\ bufsize \in Nat /\ pagesize <= bufsize
  BY InThePage, <1>1
<1>3. \/ Silent
      \/ pos < pagesize /\ Cell(pos, "none") = RunOf[scanner] /\ Report(RunOf[scanner], pos, RunEnd - pos)
      \/ pos < pagesize /\ Cell(pos, "none") \in Alone[scanner] /\ Report(Cell(pos, "none"), pos, 1)
  BY DEF NtfsStep, NtfsRun, NtfsAlone
<1> DEFINE NtfsKinds == {"FILE", "FILE-", "INDX", "INDX_ObjId-O", "INDX_Misc", "INDX-", "RCRD", "RCRD-", "RSTR", "RSTR-"}
<1>4. RunOf[scanner] \in NtfsKinds /\ \A c \in Alone[scanner] : c \in NtfsKinds
  <2>1. /\ scanner = "ntfsmft" => Alone[scanner] = {"FILE-"}
        /\ scanner = "ntfsindx" => Alone[scanner] = {"INDX_ObjId-O", "INDX_Misc", "INDX-"}
        /\ scanner = "ntfslogfile" => Alone[scanner] = {"RCRD-", "RSTR", "RSTR-"}
    BY DEF Alone
  <2>2. RunOf[scanner] \in NtfsKinds
    BY <1>1 DEF RunOf
  <2>3. QED BY <1>1, <2>1, <2>2
<1>5. ASSUME NEW kind \in NtfsKinds, NEW n \in Nat, pos < pagesize, Report(kind, pos, n),
             \A k \in pos .. pos + n - 1 : Cell(k, "none") = kind, pos + n <= pagesize
      PROVE  RecordsSound'
  <2>1. Slice(kind, pos, n) = [kind |-> kind, from |-> WalkStart + pos, to |-> WalkStart + (pos + n)]
    BY <1>1, <1>2, <1>5 DEF Slice, Least
  <2>2. ASSUME NEW q \in WalkStart + pos .. (WalkStart + (pos + n)) - 1 PROVE CellAt(q) = kind
    <3>1. q - WalkStart \in pos .. pos + n - 1 /\ q - WalkStart < bufsize /\ WalkStart + (q - WalkStart) = q
      BY <1>1, <1>2, <1>5
    <3>2. QED BY <1>5, <3>1, CellsOf
  <2>3. WholeRecords(Slice(kind, pos, n))
    <3> DEFINE r == Slice(kind, pos, n)
    <3>1. r.kind = kind /\ r.from = WalkStart + pos /\ r.to = WalkStart + (pos + n)
      BY <2>1
    <3> HIDE DEF r
    <3>2. \A q \in r.from .. r.to - 1 : CellAt(q) = r.kind
      BY <2>2, <3>1
    <3>3. kind \notin {"utmp", "UsnJrnl-J", "corrupted", "orphan", "file", "chunks"}
      OBVIOUS
    <3>4. WholeRecords(r)
      BY <1>1, <3>1, <3>2, <3>3 DEF WholeRecords
    <3>5. QED BY <3>4 DEF r
  <2>4. kind \in Kinds
    BY DEF Kinds
  <2>5. QED BY <1>1, <1>5, <2>3, <2>4, OneKeeps
<1> HIDE DEF NtfsKinds
<1>6. CASE pos < pagesize /\ Cell(pos, "none") = RunOf[scanner] /\ Report(RunOf[scanner], pos, RunEnd - pos)
  <2>1. /\ RunEnd \in pos + 1 .. pagesize
        /\ \A k \in pos + 1 .. RunEnd - 1 : Cell(k, "none") = RunOf[scanner]
    BY <1>1, <1>6, RunEnds
  <2>2. RunEnd - pos \in Nat /\ pos + (RunEnd - pos) = RunEnd /\ RunEnd <= pagesize
    BY <1>1, <1>2, <2>1
  <2>3. \A k \in pos .. pos + (RunEnd - pos) - 1 : Cell(k, "none") = RunOf[scanner]
    <3> TAKE k \in pos .. pos + (RunEnd - pos) - 1
    <3>1. k = pos \/ k \in pos + 1 .. RunEnd - 1
      BY <1>1, <2>1, <2>2
    <3>2. QED BY <1>6, <2>1, <3>1
  <2>4. QED BY <1>4, <1>5, <1>6, <2>2, <2>3
<1>7. CASE pos < pagesize /\ Cell(pos, "none") \in Alone[scanner] /\ Report(Cell(pos, "none"), pos, 1)
  <2>1. \A k \in pos .. pos + 1 - 1 : k = pos
    BY <1>1
  <2>2. pos + 1 <= pagesize
    BY <1>1, <1>2, <1>7
  <2>3. QED BY <1>4, <1>5, <1>7, <2>1, <2>2
<1>8. QED BY <1>1, <1>3, <1>6, <1>7, NoneKeeps

\* Where a record behind the padding begins, if x is where a run ends.
Padded(x) == Least(WalkStart + Boundary(x - WalkStart), ImageSize)

\* The run so far ends where its records end, or before a record behind padding; and what
\* ends a run from there on, ends this one.
UsnRun ==
  scanner = "ntfsusn" /\ memo > 0 =>
    LET q == WalkStart + pos
        x == WalkStart + (pos + memo)
        ends == EndsFrom(image, q) IN
    /\ CellAt(q).v = 2 /\ pos + memo <= bufsize /\ ends[x] \subseteq ends[q]
    /\ \/ x \in ends[q] /\ ends[Padded(x)] \subseteq ends[q]
       \/ pos + memo < bufsize /\ CellAt(x) # NoUsn /\ ~CellAt(x).odd

\* A record in the page, and what may follow it.
LEMMA EndsNext ==
  ASSUME RecordTyped, ~WalkDone, scanner = "ntfsusn", NEW q \in Nat, NEW k \in Nat, q <= WalkStart + k, k < pagesize,
         CellAt(WalkStart + k) # NoUsn, NEW n, n = CellAt(WalkStart + k).size, k + n <= bufsize
  PROVE  LET ends == EndsFrom(image, q)
             x == WalkStart + (k + n)
         IN  ends[WalkStart + k] = {x} \cup ends[x] \cup ends[Padded(x)]
<1> DEFINE ends == EndsFrom(image, q)
           x == WalkStart + (k + n)
           p == WalkStart + k
<1>1. /\ ImageSize \in Nat /\ WalkStart \in Nat /\ pagesize \in Nat /\ bufsize \in Nat
      /\ pagesize <= bufsize /\ WalkStart + bufsize <= ImageSize /\ pagesize <= image.pagesize
      /\ image \in RecordImages("ntfsusn") /\ page \in Nat /\ image.pagesize \in Nat \ {0}
  BY InThePage DEF RecordTyped, RecordImages
<1>2. n \in Nat
  <2>1. Cell(k, NoUsn) = CellAt(WalkStart + k)
    BY <1>1, CellsOf
  <2>2. CellAt(WalkStart + k).size \in Nat
    BY <2>1, UsnCell
  <2>3. QED BY <2>2
<1>3. p \in Nat /\ p < ImageSize /\ ImageSize = Len(image.cells) /\ image.cells[p + 1] # NoUsn /\ image.cells[p + 1].size = n
  BY <1>1 DEF CellAt, ImageSize
<1>4. p \div image.pagesize = page
  <2>1. (page + 1) * image.pagesize = WalkStart + image.pagesize
    <3>1. \A a, b \in Nat : (a + 1) * b = a * b + b
      OBVIOUS
    <3>2. page \in Nat /\ image.pagesize \in Nat
      BY <1>1
    <3>3. QED BY <3>1, <3>2 DEF WalkStart
  <2>2. page * image.pagesize <= p /\ p < (page + 1) * image.pagesize
    <3>1. p < WalkStart + image.pagesize
      BY <1>1
    <3>2. WalkStart <= p
      BY <1>1
    <3>3. QED BY <2>1, <3>1, <3>2 DEF WalkStart
  <2> HIDE DEF p
  <2>3. QED BY <1>1, <1>3, <2>2, DivOf
<1>5. (p \div image.pagesize) * image.pagesize = WalkStart
  BY <1>4 DEF WalkStart
<1>6. Least(p + n, Len(image.cells)) = x
  <2>1. p + n = x /\ x \in Nat /\ x <= ImageSize
    BY <1>1, <1>2
  <2> HIDE DEF p, x
  <2>2. QED BY <1>1, <1>3, <2>1 DEF Least
<1>7. ends[p] = EndsAt(image, ends, p)
  BY <1>1, <1>3, EndsKnown
<1> HIDE DEF p, x, ends
<1>8. EndsAt(image, ends, p) = {x} \cup ends[x] \cup ends[Padded(x)]
  BY <1>3, <1>5, <1>6 DEF EndsAt, Padded
<1>9. QED BY <1>7, <1>8 DEF p, x, ends

LEMMA UsnFirstSound ==
  ASSUME RecordInv, RecordsSound, UsnFirst PROVE RecordsSound' /\ UsnRun'
<1>1. /\ scanner = "ntfsusn" /\ ~WalkDone /\ pos \in Nat /\ memo = 0 /\ RecordTyped
      /\ scanner' = scanner /\ image' = image /\ scanner \notin DOMAIN RunOf
  BY DEF UsnFirst, In, RecordInv, RecordTyped, LeavePage, MoveTo, RunOf
<1>2. /\ WalkStart \in Nat /\ pagesize \in Nat /\ bufsize \in Nat /\ pagesize <= bufsize /\ ImageSize \in Nat
      /\ WalkStart + bufsize <= ImageSize
  BY <1>1, InThePage
<1> DEFINE record == check_usnrecordv2_signature(pos)
           q == WalkStart + pos
           x == WalkStart + (pos + record.size)
           ends == EndsFrom(image, q)
<1>3. NoUsn.odd = FALSE /\ NoUsn.v = 0
  BY DEF NoUsn
<1>4. record = NoUsn \/ (record = Cell(pos, NoUsn) /\ record.v = 2 /\ record.size \in Nat /\ record # NoUsn)
  BY <1>1, <1>3, UsnCell DEF check_usnrecordv2_signature
<1>5. pos < pagesize => Cell(pos, NoUsn) = CellAt(q)
  BY <1>1, <1>2, CellsOf
<1>6. pos < pagesize /\ record # NoUsn /\ pos + record.size <= bufsize =>
        ends[q] = {x} \cup ends[x] \cup ends[Padded(x)]
  BY <1>1, <1>2, <1>4, <1>5, EndsNext
<1> HIDE DEF record, ends
<1>7. \/ Silent /\ memo' = 0
      \/ /\ pos < pagesize /\ record # NoUsn
         /\ \/ Report("corrupted", pos, record.size) /\ memo' = 0
            \/ Report("UsnJrnl-J", pos, record.size) /\ memo' = 0 /\ pos + record.size < bufsize
            \/ /\ Silent /\ memo' = record.size /\ pos + record.size <= pagesize
               /\ UNCHANGED <<scanner, image, page, pos>>
  <2>1. \/ pos >= pagesize /\ LeavePage /\ Silent
        \/ pos < pagesize /\ record = NoUsn /\ Silent /\ MoveTo(pos + 1) /\ UNCHANGED memo
        \/ /\ pos < pagesize /\ record.odd
           /\ Report("corrupted", pos, record.size) /\ MoveTo(pos + record.size) /\ UNCHANGED memo
        \/ /\ pos < pagesize /\ record # NoUsn /\ pos + record.size > pagesize
           /\ \/ Report("UsnJrnl-J", pos, record.size) /\ pos + record.size < bufsize
              \/ Report("corrupted", pos, record.size)
           /\ LeavePage
        \/ /\ pos < pagesize /\ record # NoUsn /\ ~(pos + record.size > pagesize)
           /\ Silent /\ memo' = record.size /\ UNCHANGED <<scanner, image, page, pos>>
    BY DEF UsnFirst, record
  <2>2. QED BY <1>1, <1>2, <1>3, <1>4, <2>1 DEF LeavePage
<1>8. RecordsSound'
  <2>1. ASSUME pos < pagesize, record # NoUsn, Report("corrupted", pos, record.size) PROVE RecordsSound'
    <3> DEFINE r == Slice("corrupted", pos, record.size)
    <3>1. r.kind = "corrupted" /\ CellAt(r.from).v = 2
      BY <1>4, <1>5, <2>1 DEF Slice
    <3> HIDE DEF r
    <3>2. WholeRecords(r)
      BY <1>1, <3>1 DEF WholeRecords
    <3>3. "corrupted" \in Kinds
      BY DEF Kinds
    <3>4. QED BY <1>1, <1>4, <2>1, <3>2, <3>3, OneKeeps DEF r
  <2>2. ASSUME pos < pagesize, record # NoUsn, Report("UsnJrnl-J", pos, record.size), pos + record.size < bufsize
        PROVE  RecordsSound'
    <3> DEFINE r == Slice("UsnJrnl-J", pos, record.size)
    <3>0. record.size \in Nat /\ Least(pos + record.size, bufsize) = pos + record.size
      BY <1>1, <1>2, <1>4, <2>2 DEF Least
    <3>1. r.kind = "UsnJrnl-J" /\ r.from = q /\ r.to = x /\ CellAt(q).v = 2
      BY <1>4, <1>5, <2>2, <3>0 DEF Slice
    <3>2. x \in ends[q]
      BY <1>1, <1>2, <1>6, <2>2, <3>0
    <3> HIDE DEF r, q, x
    <3>3. r.to \in UsnEnds(r.from)
      BY <3>1, <3>2, UsnEndsAre DEF ends
    <3>4. WholeRecords(r)
      BY <1>1, <3>1, <3>3 DEF WholeRecords
    <3>5. "UsnJrnl-J" \in Kinds
      BY DEF Kinds
    <3>6. QED BY <1>1, <1>4, <2>2, <3>4, <3>5, OneKeeps DEF r
  <2>3. QED BY <1>1, <1>7, <2>1, <2>2, NoneKeeps
<1>9. UsnRun'
  <2>1. CASE memo' = 0
    BY <2>1 DEF UsnRun
  <2>2. CASE /\ pos < pagesize /\ record # NoUsn /\ memo' = record.size /\ pos + record.size <= pagesize
             /\ UNCHANGED <<scanner, image, page, pos>>
    <3>1. WalkStart' = WalkStart /\ bufsize' = bufsize /\ ImageSize' = ImageSize
      BY <2>2 DEF WalkStart, bufsize, ImageSize, Least
    <3>2. \A y : CellAt(y)' = CellAt(y)
      BY <2>2 DEF CellAt
    <3>3. \A y : Padded(y)' = Padded(y)
      BY <3>1 DEF Padded
    <3>4. pos + record.size <= bufsize /\ CellAt(q).v = 2
      BY <1>1, <1>2, <1>4, <1>5, <2>2
    <3>5. ends[q] = {x} \cup ends[x] \cup ends[Padded(x)]
      BY <1>6, <2>2, <3>4
    <3>6. ends[x] \subseteq ends[q] /\ x \in ends[q] /\ ends[Padded(x)] \subseteq ends[q]
      <4> HIDE DEF x, q
      <4>1. QED BY <3>5
    <3>7. (WalkStart + pos)' = q /\ (WalkStart + (pos + memo))' = x /\ EndsFrom(image, WalkStart + pos)' = ends
      BY <2>2, <3>1 DEF ends
    <3> HIDE DEF x, q, ends
    <3>8. QED BY <2>2, <3>1, <3>2, <3>3, <3>4, <3>6, <3>7 DEF UsnRun
  <2>3. QED BY <1>7, <2>1, <2>2
<1>10. QED BY <1>8, <1>9

LEMMA UsnNextSound ==
  ASSUME RecordInv, RecordsSound, UsnRun, UsnNext PROVE RecordsSound' /\ UsnRun'
<1>1. /\ scanner = "ntfsusn" /\ ~WalkDone /\ pos \in Nat /\ memo \in Nat /\ memo > 0 /\ RecordTyped
      /\ pos < pagesize /\ scanner \notin DOMAIN RunOf
  BY DEF UsnNext, In, RecordInv, RecordTyped, RunInPage, RunOf
<1>2. /\ WalkStart \in Nat /\ pagesize \in Nat /\ bufsize \in Nat /\ pagesize <= bufsize /\ ImageSize \in Nat
      /\ WalkStart + bufsize <= ImageSize
      /\ \A y \in Nat : WalkStart <= y /\ y < WalkStart + pagesize => PageBound(y) = WalkStart + pagesize
  BY <1>1, InThePage
<1> DEFINE here == pos + memo
           record == Cell(here, NoUsn)
           later == Cell(Boundary(here), NoUsn)
           q == WalkStart + pos
           x == WalkStart + here
           ends == EndsFrom(image, q)
<1>3. /\ CellAt(q).v = 2 /\ here <= bufsize /\ ends[x] \subseteq ends[q]
      /\ \/ x \in ends[q] /\ ends[Padded(x)] \subseteq ends[q]
         \/ here < bufsize /\ CellAt(x) # NoUsn /\ ~CellAt(x).odd
  BY <1>1 DEF UsnRun
<1>4. here \in Nat /\ Boundary(here) \in Nat /\ here <= Boundary(here) /\ x - WalkStart = here
  <2>1. here % SECTOR_SIZE \in Nat /\ here % SECTOR_SIZE < SECTOR_SIZE /\ SECTOR_SIZE \in Nat
    BY <1>1, RecordAssumption
  <2>2. QED BY <1>1, <1>2, <2>1 DEF Boundary
<1>5. /\ here < bufsize => record = CellAt(x)
      /\ record # NoUsn => here < bufsize /\ record.size \in Nat /\ record.odd \in BOOLEAN
      /\ later # NoUsn => Boundary(here) < bufsize /\ later = CellAt(WalkStart + Boundary(here))
      /\ NoUsn.odd = FALSE
  <2>1. here < bufsize => record = CellAt(x)
    BY CellsOf
  <2>2. record # NoUsn => here < bufsize
    BY DEF Cell
  <2>3. record = NoUsn \/ (record.size \in Nat /\ record.odd \in BOOLEAN)
    BY <1>1, <1>4, UsnCell
  <2>4. later # NoUsn => Boundary(here) < bufsize
    BY DEF Cell
  <2>5. Boundary(here) < bufsize => later = CellAt(WalkStart + Boundary(here))
    BY CellsOf
  <2>6. NoUsn.odd = FALSE
    BY DEF NoUsn
  <2>7. QED BY <2>1, <2>2, <2>3, <2>4, <2>5, <2>6
<1>6. record # NoUsn /\ here < pagesize /\ here + record.size <= bufsize =>
        LET y == WalkStart + (here + record.size) IN ends[x] = {y} \cup ends[y] \cup ends[Padded(y)]
  <2> SUFFICES ASSUME record # NoUsn, here < pagesize, here + record.size <= bufsize
               PROVE LET y == WalkStart + (here + record.size) IN ends[x] = {y} \cup ends[y] \cup ends[Padded(y)]
    OBVIOUS
  <2>1. CellAt(x) # NoUsn /\ record.size = CellAt(x).size
    BY <1>5
  <2>2. q \in Nat /\ q <= x
    BY <1>1, <1>2, <1>4
  <2> DEFINE n == record.size
  <2> HIDE DEF n, record
  <2>3. n = CellAt(WalkStart + here).size /\ here + n <= bufsize
    BY <2>1 DEF n
  <2>4. QED BY <1>1, <1>4, <2>1, <2>2, <2>3, EndsNext DEF n
<1>7. Padded(x) = Least(WalkStart + Boundary(here), ImageSize)
  BY <1>4 DEF Padded
<1>8. \/ /\ record # NoUsn /\ ~record.odd /\ here + record.size < pagesize
         /\ Silent /\ memo' = memo + record.size /\ UNCHANGED <<scanner, image, page, pos>>
      \/ /\ record = NoUsn /\ later # NoUsn /\ ~later.odd
         /\ Silent /\ memo' = Boundary(here) - pos /\ UNCHANGED <<scanner, image, page, pos>>
      \/ (record = NoUsn \/ record.odd) /\ UsnCarve(memo)
      \/ UsnCarve(pagesize - pos)
  <2> HIDE DEF here
  <2>1. check_usnrecordv2_or_v4_signature(here) = record /\ check_usnrecordv2_or_v4_signature(Boundary(here)) = later
    BY DEF check_usnrecordv2_or_v4_signature
  <2> HIDE DEF record, later
  <2>2. CASE record.odd \/ (record # NoUsn /\ ~record.odd /\ here + record.size < pagesize)
             \/ (record # NoUsn /\ ~record.odd /\ here + record.size >= pagesize)
    BY <2>1, <2>2 DEF UsnNext, here
  <2>3. CASE ~(record.odd \/ (record # NoUsn /\ ~record.odd /\ here + record.size < pagesize)
             \/ (record # NoUsn /\ ~record.odd /\ here + record.size >= pagesize))
    <3>1. \/ here + record.size < pagesize \/ here + record.size >= pagesize \/ record = NoUsn
      <4>1. record = NoUsn \/ here + record.size \in Nat
        BY <1>4, <1>5 DEF record
      <4>2. QED BY <1>2, <4>1
    <3>2. record = NoUsn
      BY <2>3, <3>1
    <3>3. QED BY <2>1, <2>3, <3>2 DEF UsnNext, here
  <2>4. QED BY <2>2, <2>3
<1> HIDE DEF here, record, later, q, x, ends
<1>9. ASSUME NEW total \in Nat, UsnCarve(total), total = pagesize - pos \/ (total = memo /\ x \in ends[q])
      PROVE  RecordsSound' /\ UsnRun'
  <2> DEFINE r == Slice("UsnJrnl-J", pos, total)
  <2>1. Report("UsnJrnl-J", pos, total) /\ memo' = 0 /\ scanner' = scanner /\ image' = image
    BY <1>9 DEF UsnCarve, MoveTo
  <2>2. pos + total <= bufsize
    BY <1>1, <1>2, <1>3, <1>9 DEF here
  <2>3. r.kind = "UsnJrnl-J" /\ r.from = q /\ r.to = WalkStart + (pos + total)
    <3>1. Least(pos + total, bufsize) = pos + total
      BY <1>1, <1>2, <2>2 DEF Least
    <3>2. QED BY <3>1 DEF Slice, q
  <2> HIDE DEF r
  <2>4. r.to = PageBound(r.from) \/ r.to \in UsnEnds(r.from)
    <3>1. CASE total = pagesize - pos
      <4>1. PageBound(q) = WalkStart + pagesize
        BY <1>1, <1>2 DEF q
      <4>2. pos + total = pagesize
        BY <1>1, <1>2, <3>1
      <4>3. QED BY <2>3, <4>1, <4>2
    <3>2. CASE total = memo /\ x \in ends[q]
      BY <2>3, <3>2, UsnEndsAre DEF x, here, ends
    <3>3. QED BY <1>9, <3>1, <3>2
  <2>5. WholeRecords(r)
    BY <1>1, <1>3, <2>3, <2>4 DEF WholeRecords
  <2>6. "UsnJrnl-J" \in Kinds
    BY DEF Kinds
  <2>7. RecordsSound'
    BY <1>1, <2>1, <2>5, <2>6, OneKeeps DEF r
  <2>8. QED BY <2>1, <2>7 DEF UsnRun
<1>10. ASSUME Silent, UNCHANGED <<scanner, image, page, pos>>, memo' \in Nat,
              NEW y, y = WalkStart + (pos + memo'),
              pos + memo' <= bufsize, ends[y] \subseteq ends[q],
              \/ y \in ends[q] /\ ends[Padded(y)] \subseteq ends[q]
              \/ pos + memo' < bufsize /\ CellAt(y) # NoUsn /\ ~CellAt(y).odd
       PROVE  RecordsSound' /\ UsnRun'
  <2>1. WalkStart' = WalkStart /\ bufsize' = bufsize /\ ImageSize' = ImageSize
    BY <1>10 DEF WalkStart, bufsize, ImageSize, Least
  <2>2. \A z : CellAt(z)' = CellAt(z)
    BY <1>10 DEF CellAt
  <2>3. \A z : Padded(z)' = Padded(z)
    BY <2>1 DEF Padded
  <2>4. (WalkStart + pos)' = q /\ (WalkStart + (pos + memo))' = y /\ EndsFrom(image, WalkStart + pos)' = ends
    BY <1>10, <2>1 DEF q, ends
  <2>5. UsnRun'
    BY <1>3, <1>10, <2>1, <2>2, <2>3, <2>4 DEF UsnRun
  <2>6. QED BY <1>1, <1>10, <2>5, NoneKeeps
<1>11. CASE /\ record # NoUsn /\ ~record.odd /\ here + record.size < pagesize
            /\ Silent /\ memo' = memo + record.size /\ UNCHANGED <<scanner, image, page, pos>>
  <2> DEFINE y == WalkStart + (here + record.size)
  <2>1. record.size \in Nat /\ here < pagesize /\ here + record.size <= bufsize
    BY <1>2, <1>4, <1>5, <1>11
  <2>2. ends[x] = {y} \cup ends[y] \cup ends[Padded(y)]
    BY <1>6, <1>11, <2>1
  <2>3. memo' \in Nat /\ pos + memo' = here + record.size
    BY <1>1, <1>11, <2>1 DEF here
  <2>4. ends[y] \subseteq ends[q] /\ y \in ends[q] /\ ends[Padded(y)] \subseteq ends[q]
    <3> HIDE DEF y
    <3>1. QED BY <1>3, <2>2
  <2>5. y = WalkStart + (pos + memo')
    BY <2>3
  <2> HIDE DEF y
  <2>6. QED BY <1>10, <1>11, <2>1, <2>3, <2>4, <2>5
<1>12. CASE /\ record = NoUsn /\ later # NoUsn /\ ~later.odd
            /\ Silent /\ memo' = Boundary(here) - pos /\ UNCHANGED <<scanner, image, page, pos>>
  <2> DEFINE y == WalkStart + Boundary(here)
  <2>1. memo' \in Nat /\ pos + memo' = Boundary(here)
    BY <1>1, <1>4, <1>12 DEF here
  <2>2. Boundary(here) < bufsize /\ CellAt(y) = later
    BY <1>5, <1>12
  <2>3. Padded(x) = y
    BY <1>2, <1>4, <1>7, <2>2 DEF Least
  <2>4. ~(here < bufsize /\ CellAt(x) # NoUsn)
    BY <1>5, <1>12
  <2>5. ends[y] \subseteq ends[q]
    BY <1>3, <2>3, <2>4
  <2>6. y = WalkStart + (pos + memo')
    BY <2>1
  <2> HIDE DEF y
  <2>7. pos + memo' < bufsize /\ pos + memo' <= bufsize /\ CellAt(y) # NoUsn /\ ~CellAt(y).odd
    BY <1>2, <1>4, <1>12, <2>1, <2>2
  <2>8. Silent /\ UNCHANGED <<scanner, image, page, pos>>
    BY <1>12
  <2>9. QED BY <1>10, <2>1, <2>5, <2>6, <2>7, <2>8
<1>13. CASE (record = NoUsn \/ record.odd) /\ UsnCarve(memo)
  <2>1. x \in ends[q]
    BY <1>3, <1>5, <1>13
  <2>2. memo \in Nat /\ UsnCarve(memo)
    BY <1>1, <1>13
  <2>3. QED BY <1>9, <2>1, <2>2
<1>14. CASE UsnCarve(pagesize - pos)
  <2>1. pagesize - pos \in Nat
    BY <1>1, <1>2
  <2> DEFINE total == pagesize - pos
  <2> HIDE DEF total
  <2>2. total \in Nat /\ UsnCarve(total) /\ total = pagesize - pos
    BY <1>14, <2>1 DEF total
  <2>3. QED BY <1>9, <2>2
<1>15. QED BY <1>8, <1>11, <1>12, <1>13, <1>14

\* A chunk that has no header before it is measured from what came before in the page.
EvtxRun ==
  scanner = "evtx" /\ memo > 0 =>
    \E q \in Places : /\ WalkStart <= q /\ q < WalkStart + pos /\ q < WalkStart + image.pagesize
                      /\ CellAt(q).is \in {"header", "chunk"}

\* What a check of a place says of the cell there.
LEMMA Checked ==
  ASSUME RecordTyped, ~WalkDone, scanner = "evtx", NEW k \in Nat, NEW is \in {"header", "chunk", "record"}, Check(is, k) > 0
  PROVE  /\ k < bufsize /\ CellAt(WalkStart + k).is = is /\ CellAt(WalkStart + k).n = Check(is, k)
         /\ is = "record" => CellAt(WalkStart + k) = [is |-> "record", n |-> Check(is, k)]
<1> DEFINE Cells == {NoEvtx} \cup [is : {"header", "chunk"}, n : Int] \cup [is : {"record"}, n : Nat \ {0}]
<1>1. RecordCells["evtx"] = Cells
  BY DEF RecordCells, RecordScanners
<1>2. image.cells \in Seq(Cells)
  BY <1>1 DEF RecordTyped, RecordImages
<1> HIDE DEF Cells
<1>3. WalkStart \in Nat /\ bufsize \in Nat /\ WalkStart + bufsize <= Len(image.cells)
  BY InThePage DEF ImageSize
<1>4. Cell(k, NoEvtx).is = is /\ Cell(k, NoEvtx).n = Check(is, k)
  BY DEF Check
<1>5. k < bufsize
  BY <1>4 DEF Cell, NoEvtx
<1>6. Cell(k, NoEvtx) = CellAt(WalkStart + k)
  BY <1>5, CellsOf
<1>7. WalkStart + k + 1 \in 1 .. Len(image.cells)
  BY <1>2, <1>3, <1>5
<1>8. CellAt(WalkStart + k) \in Cells
  BY <1>2, <1>7 DEF CellAt
<1>9. is = "record" => CellAt(WalkStart + k) = [is |-> "record", n |-> Check(is, k)]
  <2> DEFINE c == CellAt(WalkStart + k)
  <2> HIDE DEF c
  <2>1. c \in Cells /\ c.is = is /\ c.n = Check(is, k)
    BY <1>4, <1>6, <1>8 DEF c
  <2>2. is = "record" => c \in [is : {"record"}, n : Nat \ {0}]
    BY <2>1 DEF Cells, NoEvtx
  <2>3. is = "record" => c = [is |-> "record", n |-> Check(is, k)]
    BY <2>1, <2>2
  <2>4. QED BY <2>3 DEF c
<1>10. QED BY <1>4, <1>5, <1>6, <1>9

\* The chunks counted from k on stand where they should.
LEMMA ChunksStand ==
  ASSUME RecordTyped, ~WalkDone, scanner = "evtx", NEW k \in Nat, check_evtxchunk_signature(k) > 0,
         NEW d \in Nat, d < ChunksFrom(k) * ELFCHNK_SIZE, d % ELFCHNK_SIZE = 0
  PROVE  CellAt(WalkStart + (k + d)).is = "chunk" /\ CellAt(WalkStart + (k + d)).n > 0
<1>1. ELFCHNK_SIZE \in Nat \ {0} /\ bufsize \in Nat
  BY RecordAssumption, InThePage
<1> DEFINE E == ELFCHNK_SIZE
           N == ChunksFrom(k)
           i == d \div E
<1>2. N \in Nat /\ \A j \in 1 .. N - 1 : check_evtxchunk_signature(k + j * E) > 0
  BY <1>1, ChunksCounted
<1> HIDE DEF N
<1>3. i \in Nat /\ d = i * E
  <2>1. d = E * i + (d % E) /\ i \in Nat
    BY <1>1
  <2> HIDE DEF i
  <2>2. d = E * i + 0
    BY <2>1
  <2>3. E * i = i * E /\ E * i \in Int
    BY <1>1, <2>1
  <2>4. QED BY <2>1, <2>2, <2>3
<1> HIDE DEF i
<1>4. i < N
  <2> SUFFICES ASSUME ~(i < N) PROVE FALSE
    OBVIOUS
  <2>1. i - N \in Nat /\ i = N + (i - N)
    BY <1>2, <1>3
  <2>2. \A a, b \in Nat : (a + b) * E = a * E + b * E /\ b * E \in Nat /\ a * E \in Nat
    BY <1>1
  <2>3. i * E = N * E + (i - N) * E /\ (i - N) * E \in Nat /\ N * E \in Nat
    BY <1>2, <2>1, <2>2
  <2>4. d < N * E
    BY DEF N
  <2>5. QED BY <1>3, <2>3, <2>4
<1>5. check_evtxchunk_signature(k + d) > 0
  <2>1. CASE i = 0
    <3>1. 0 * E = 0
      BY <1>1
    <3>2. k + d = k
      BY <1>3, <2>1, <3>1
    <3>3. QED BY <3>2
  <2>2. CASE i # 0
    <3>1. i \in 1 .. N - 1
      BY <1>2, <1>3, <1>4, <2>2
    <3>2. QED BY <1>2, <1>3, <3>1
  <2>3. QED BY <2>1, <2>2
<1>6. k + d \in Nat /\ Check("chunk", k + d) > 0 /\ "chunk" \in {"header", "chunk", "record"}
  BY <1>5 DEF check_evtxchunk_signature
<1> DEFINE c == k + d
<1> HIDE DEF c
<1>7. c \in Nat /\ Check("chunk", c) > 0 /\ Check("chunk", c) = CellAt(WalkStart + c).n /\ CellAt(WalkStart + c).is = "chunk"
  BY <1>6, Checked DEF c
<1>8. QED BY <1>7 DEF c

\* A file that ends behind chunks, or where the sbuf does.
LEMMA ChunksWhole ==
  ASSUME RecordTyped, ~WalkDone, scanner = "evtx", pos < pagesize, NEW head \in Nat, NEW n,
         n = ChunksFrom(pos + head) * ELFCHNK_SIZE, check_evtxchunk_signature(pos + head) > 0,
         NEW kind, NEW r, r = Slice(kind, pos, head + n),
         NEW body, body = r.from + head
  PROVE  /\ r.kind = kind /\ r.from = WalkStart + pos
         /\ (r.to - body) % ELFCHNK_SIZE = 0 \/ r.to = ImageSize \/ r.to >= PageBound(r.from)
         /\ \A q \in body .. r.to - 1 : (q - body) % ELFCHNK_SIZE = 0 => CellAt(q).is = "chunk" /\ CellAt(q).n > 0
<1>1. /\ WalkStart \in Nat /\ pagesize \in Nat /\ bufsize \in Nat /\ pagesize <= bufsize /\ ImageSize \in Nat
      /\ WalkStart + bufsize <= ImageSize /\ pos \in Nat
      /\ \A y \in Nat : WalkStart <= y /\ y < WalkStart + pagesize => PageBound(y) = WalkStart + pagesize
  BY InThePage DEF RecordTyped
<1>2. r.kind = kind /\ r.from = WalkStart + pos /\ r.to = WalkStart + Least(pos + (head + n), bufsize)
  BY DEF Slice
<1>3. ChunksFrom(pos + head) \in Nat /\ ELFCHNK_SIZE \in Nat \ {0} /\ pos + head \in Nat
  <2>1. pos + head \in Nat
    BY <1>1
  <2>2. QED BY <1>1, <2>1, ChunksCounted, RecordAssumption
<1>4. n \in Nat /\ n % ELFCHNK_SIZE = 0
  <2>1. \A a \in Nat, b \in Nat \ {0} : a * b \in Nat /\ (a * b) % b = 0
    <3> TAKE a \in Nat, b \in Nat \ {0}
    <3>1. a * b \in Nat
      OBVIOUS
    <3>2. (a * b) \div b = a
      <4>1. (a + 1) * b = a * b + b
        OBVIOUS
      <4>2. a * b < (a + 1) * b
        BY <3>1, <4>1
      <4>3. QED BY <3>1, <4>2, DivOf
    <3>3. a * b = b * ((a * b) \div b) + ((a * b) % b) /\ (a * b) % b \in Nat
      BY <3>1
    <3>4. b * a = a * b
      OBVIOUS
    <3> DEFINE p == a * b
               r1 == (a * b) % b
    <3> HIDE DEF p, r1
    <3>5. p = b * a + r1 /\ b * a = p /\ p \in Nat /\ r1 \in Nat
      BY <3>1, <3>2, <3>3, <3>4 DEF p, r1
    <3>6. r1 = 0
      BY <3>5
    <3>7. QED BY <3>1, <3>6 DEF r1
  <2>2. QED BY <1>3, <2>1
<1>5. (r.to - body) % ELFCHNK_SIZE = 0 \/ r.to >= PageBound(r.from)
  <2>1. CASE pos + (head + n) <= bufsize
    <3>1. r.to = WalkStart + (pos + (head + n))
      BY <1>1, <1>2, <1>4, <2>1 DEF Least
    <3>2. r.to - body = n
      BY <1>1, <1>2, <1>4, <3>1
    <3>3. QED BY <1>4, <3>2
  <2>2. CASE ~(pos + (head + n) <= bufsize)
    <3>1. r.to = WalkStart + bufsize
      BY <1>1, <1>2, <1>4, <2>2 DEF Least
    <3>2. PageBound(r.from) = WalkStart + pagesize
      BY <1>1, <1>2
    <3>3. QED BY <1>1, <3>1, <3>2
  <2>3. QED BY <2>1, <2>2
<1>6. ASSUME NEW q \in body .. r.to - 1, (q - body) % ELFCHNK_SIZE = 0
      PROVE  CellAt(q).is = "chunk" /\ CellAt(q).n > 0
  <2>0. body = WalkStart + (pos + head) /\ body \in Nat /\ q \in Int /\ body <= q
    BY <1>1, <1>2, <1>3
  <2>1. r.to \in Nat /\ r.to <= WalkStart + (pos + (head + n))
    BY <1>1, <1>2, <1>4 DEF Least
  <2>2. q < r.to
    BY <2>0, <2>1
  <2>3. q - body \in Nat /\ q - body < n /\ WalkStart + ((pos + head) + (q - body)) = q
    BY <1>1, <1>3, <1>4, <2>0, <2>1, <2>2
  <2>4. QED BY <1>3, <1>6, <2>3, ChunksStand
<1>7. QED BY <1>2, <1>5, <1>6

\* A header or chunk that is passed over is what a later chunk may be measured from.
LEMMA EvtxRunOn ==
  ASSUME RecordTyped, ~WalkDone, scanner = "evtx", pos < pagesize, scanner' = scanner, image' = image, page' = page,
         pos < pos', pos' \in Nat, CellAt(WalkStart + pos).is \in {"header", "chunk"}
  PROVE  EvtxRun'
<1>1. /\ WalkStart \in Nat /\ pagesize \in Nat /\ bufsize \in Nat /\ pagesize <= bufsize /\ ImageSize \in Nat
      /\ WalkStart + bufsize <= ImageSize /\ pos \in Nat /\ pagesize <= image.pagesize /\ image.pagesize \in Nat
  BY InThePage DEF RecordTyped, RecordImages
<1> DEFINE q == WalkStart + pos
<1>2. q \in Places /\ WalkStart <= q /\ q < WalkStart + pos' /\ q < WalkStart + image.pagesize
  <2>1. q \in Nat /\ q <= ImageSize - 1
    BY <1>1
  <2>2. q \in Places
    BY <1>1, <2>1 DEF Places
  <2>3. WalkStart <= q /\ q < WalkStart + pos'
    <3>1. \A a, b, c \in Nat : b < c => a <= a + b /\ a + b < a + c
      OBVIOUS
    <3>2. WalkStart \in Nat /\ pos \in Nat /\ pos' \in Nat /\ pos < pos'
      BY <1>1
    <3>3. QED BY <3>1, <3>2
  <2>4. q < WalkStart + image.pagesize
    BY <1>1
  <2>5. QED BY <2>2, <2>3, <2>4
<1>3. WalkStart' = WalkStart /\ Places' = Places
  BY DEF WalkStart, Places, ImageSize
<1> HIDE DEF q
<1>4. \A z : CellAt(z)' = CellAt(z)
  BY DEF CellAt
<1>5. QED BY <1>2, <1>3, <1>4 DEF EvtxRun, q

LEMMA EvtxFileSound == ASSUME RecordInv, RecordsSound, EvtxFile PROVE RecordsSound' /\ EvtxRun'
<1>1. /\ scanner = "evtx" /\ ~WalkDone /\ pos \in Nat /\ pos < pagesize /\ RecordTyped /\ scanner \notin DOMAIN RunOf
      /\ scanner' = scanner /\ image' = image /\ page' = page /\ check_evtxheader_signature(pos) > 0
  BY DEF EvtxFile, In, RecordInv, RecordTyped, MoveTo, RunOf
<1>2. CLUSTER_SIZE \in Nat \ {0} /\ ELFCHNK_SIZE \in Nat
  BY RecordAssumption
<1> DEFINE n == ChunksFrom(pos + CLUSTER_SIZE) * ELFCHNK_SIZE
           chunk == check_evtxchunk_signature(pos + CLUSTER_SIZE)
<1>3. pos + CLUSTER_SIZE \in Nat /\ ChunksFrom(pos + CLUSTER_SIZE) \in Nat
  BY <1>1, <1>2, ChunksCounted, InThePage
<1>4. n \in Nat
  BY <1>2, <1>3
<1>5. CellAt(WalkStart + pos).is = "header" /\ CellAt(WalkStart + pos).n > 0
  BY <1>1, Checked DEF check_evtxheader_signature
<1>6. chunk \in Int
  BY <1>1, <1>3, EvtxCell DEF check_evtxchunk_signature
<1> HIDE DEF n, chunk
<1>7. \/ chunk > 0 /\ Report("file", pos, CLUSTER_SIZE + n) /\ MoveTo(pos + (CLUSTER_SIZE + n))
      \/ Silent /\ (MoveTo(pos + (CLUSTER_SIZE + ELFCHNK_SIZE)) \/ MoveTo(pos + CLUSTER_SIZE))
  <2>1. CASE chunk > 0
    BY <2>1, <1>6 DEF EvtxFile, chunk, n
  <2>2. CASE ~(chunk > 0)
    BY <2>2, <1>6 DEF EvtxFile, chunk, n
  <2>3. QED BY <2>1, <2>2
<1>8. RecordsSound'
  <2>1. CASE chunk > 0 /\ Report("file", pos, CLUSTER_SIZE + n)
    <3> DEFINE r == Slice("file", pos, CLUSTER_SIZE + n)
               body == r.from + CLUSTER_SIZE
    <3>1. /\ r.kind = "file" /\ r.from = WalkStart + pos
          /\ (r.to - body) % ELFCHNK_SIZE = 0 \/ r.to = ImageSize \/ r.to >= PageBound(r.from)
          /\ \A q \in body .. r.to - 1 : (q - body) % ELFCHNK_SIZE = 0 => CellAt(q).is = "chunk" /\ CellAt(q).n > 0
      <4>1. CLUSTER_SIZE \in Nat /\ n = ChunksFrom(pos + CLUSTER_SIZE) * ELFCHNK_SIZE
            /\ check_evtxchunk_signature(pos + CLUSTER_SIZE) > 0
        BY <1>2, <2>1 DEF n, chunk
      <4> HIDE DEF r
      <4>2. r = Slice("file", pos, CLUSTER_SIZE + n)
        BY DEF r
      <4> HIDE DEF body
      <4>3. body = r.from + CLUSTER_SIZE
        BY DEF body
      <4>4. QED BY <1>1, <4>1, <4>2, <4>3, ChunksWhole
    <3> HIDE DEF r
    <3>2. WholeRecords(r)
      BY <1>1, <1>5, <3>1 DEF WholeRecords
    <3>3. "file" \in Kinds
      BY DEF Kinds
    <3>4. CLUSTER_SIZE + n \in Nat
      BY <1>2, <1>4
    <3>5. QED BY <1>1, <2>1, <3>2, <3>3, <3>4, OneKeeps DEF r
  <2>2. QED BY <1>1, <1>7, <2>1, NoneKeeps
<1>9. pos < pos' /\ pos' \in Nat
  BY <1>1, <1>2, <1>4, <1>7 DEF MoveTo
<1>10. QED BY <1>1, <1>5, <1>8, <1>9, EvtxRunOn

LEMMA EvtxChunksSound == ASSUME RecordInv, RecordsSound, EvtxRun, EvtxChunks PROVE RecordsSound' /\ EvtxRun'
<1>1. /\ scanner = "evtx" /\ ~WalkDone /\ pos \in Nat /\ pos < pagesize /\ RecordTyped /\ scanner \notin DOMAIN RunOf
      /\ scanner' = scanner /\ image' = image /\ page' = page /\ check_evtxchunk_signature(pos) > 0 /\ memo \in Nat
  BY DEF EvtxChunks, In, RecordInv, RecordTyped, MoveTo, RunOf
<1> DEFINE n == ChunksFrom(pos + memo) * ELFCHNK_SIZE
           total == memo + n
           r == Slice("chunks", pos, total)
<1>2. /\ WalkStart \in Nat /\ pagesize \in Nat /\ bufsize \in Nat /\ pagesize <= bufsize /\ ImageSize \in Nat
      /\ pagesize <= image.pagesize /\ image.pagesize \in Nat \ {0} /\ page \in Nat
  BY <1>1, InThePage DEF RecordTyped, RecordImages
<1>3. n \in Nat /\ n > 0
  <2>1. ELFCHNK_SIZE \in Nat \ {0} /\ ChunksFrom(pos + memo) \in Nat \ {0}
    BY <1>1, <1>2, ChunksCounted, RecordAssumption
  <2>2. \A a, b \in Nat \ {0} : a * b \in Nat /\ a * b > 0
    OBVIOUS
  <2>3. QED BY <2>1, <2>2
<1>4. CellAt(WalkStart + pos).is = "chunk"
  BY <1>1, Checked DEF check_evtxchunk_signature
<1>5. Report("chunks", pos, total) /\ MoveTo(pos + total)
  BY DEF EvtxChunks
<1>6. r.kind = "chunks" /\ r.from = WalkStart + pos
  BY DEF Slice
<1>7. WholeRecords(r)
  <2>1. CASE memo > 0
    <3>1. PICK q \in Places : /\ WalkStart <= q /\ q < WalkStart + pos /\ q < WalkStart + image.pagesize
                              /\ CellAt(q).is \in {"header", "chunk"}
      BY <1>1, <2>1 DEF EvtxRun
    <3>2. ASSUME NEW y \in Nat, WalkStart <= y, y < WalkStart + image.pagesize PROVE y \div image.pagesize = page
      <4>1. \A a, b \in Nat : (a + 1) * b = a * b + b
        OBVIOUS
      <4>2. (page + 1) * image.pagesize = WalkStart + image.pagesize
        BY <1>2, <4>1 DEF WalkStart
      <4>3. page * image.pagesize <= y /\ y < (page + 1) * image.pagesize
        BY <3>2, <4>2 DEF WalkStart
      <4>4. QED BY <1>2, <4>3, DivOf
    <3>3. q \in Nat /\ WalkStart + pos \in Nat /\ WalkStart + pos < WalkStart + image.pagesize /\ WalkStart <= WalkStart + pos
      BY <1>1, <1>2, <3>1 DEF Places
    <3>4. q < r.from /\ SamePage(q, r.from)
      BY <1>6, <3>1, <3>2, <3>3 DEF SamePage
    <3> HIDE DEF r
    <3>5. QED BY <1>1, <1>6, <3>1, <3>4 DEF WholeRecords
  <2>2. CASE memo = 0
    <3> DEFINE body == r.from + 0
    <3>1. /\ (r.to - body) % ELFCHNK_SIZE = 0 \/ r.to = ImageSize \/ r.to >= PageBound(r.from)
          /\ \A q \in body .. r.to - 1 : (q - body) % ELFCHNK_SIZE = 0 => CellAt(q).is = "chunk" /\ CellAt(q).n > 0
      <4>1. 0 \in Nat /\ pos + memo = pos + 0 /\ pos + 0 = pos /\ total = 0 + n
        BY <1>1, <2>2
      <4>2. n = ChunksFrom(pos + 0) * ELFCHNK_SIZE /\ check_evtxchunk_signature(pos + 0) > 0
        BY <1>1, <4>1
      <4>3. r = Slice("chunks", pos, 0 + n)
        BY <4>1
      <4> HIDE DEF r, n, body
      <4>4. body = r.from + 0
        BY DEF body
      <4>5. QED BY <1>1, <4>2, <4>3, <4>4, ChunksWhole
    <3>2. body = r.from
      BY <1>1, <1>2, <1>6
    <3> HIDE DEF r, body
    <3>3. QED BY <1>1, <1>6, <3>1, <3>2 DEF WholeRecords
  <2>3. QED BY <1>1, <2>1, <2>2
<1>8. total \in Nat /\ total > 0 /\ "chunks" \in Kinds
  BY <1>1, <1>3 DEF Kinds
<1>9. RecordsSound'
  BY <1>1, <1>5, <1>7, <1>8, OneKeeps
<1>10. pos < pos' /\ pos' \in Nat
  BY <1>1, <1>5, <1>8 DEF MoveTo
<1>11. QED BY <1>1, <1>4, <1>9, <1>10, EvtxRunOn

LEMMA EvtxClusterSound == ASSUME RecordInv, RecordsSound, EvtxRun, EvtxCluster PROVE RecordsSound' /\ EvtxRun'
<1>1. /\ scanner = "evtx" /\ ~WalkDone /\ pos \in Nat /\ pos < pagesize /\ RecordTyped /\ scanner \notin DOMAIN RunOf
      /\ scanner' = scanner /\ image' = image
  BY DEF EvtxCluster, In, RecordInv, RecordTyped, MoveTo, LeavePage, RunOf
<1>2. CLUSTER_SIZE \in Nat /\ WalkStart \in Nat /\ bufsize \in Nat /\ pagesize \in Nat
  BY <1>1, RecordAssumption, InThePage
<1> DEFINE found == Orphans(pos, pos + CLUSTER_SIZE)
           O == InRun(pos, pos + CLUSTER_SIZE)
<1>3. found \in Seq(O) /\ \A i \in DOMAIN found : ReadOut(found[i]) \/ (i = Len(found) /\ found[i].n = 0)
  <2>1. pos + CLUSTER_SIZE \in Nat /\ pos <= pos + CLUSTER_SIZE
    BY <1>1, <1>2
  <2>2. found \in Runs(pos, pos + CLUSTER_SIZE)
    BY <1>1, <2>1, OrphansFound, SMTT(60)
  <2>3. QED BY <2>2 DEF Runs, CutOff
<1> DEFINE thrown == found # <<>> /\ found[Len(found)].n = 0
           kept == IF thrown THEN SubSeq(found, 1, Len(found) - 1) ELSE found
           new == [i \in DOMAIN kept |-> Slice("orphan", kept[i].at, kept[i].n)]
<1>4. reports' = reports \o new /\ (LeavePage \/ (MoveTo(pos + CLUSTER_SIZE) /\ UNCHANGED memo))
  BY DEF EvtxCluster
<1> HIDE DEF found, O
<1>5. kept \in Seq(O) /\ \A i \in DOMAIN kept : ReadOut(kept[i])
  <2>0. Len(found) \in Nat /\ DOMAIN found = 1 .. Len(found)
    BY <1>3
  <2>1. CASE thrown
    <3>1. SubSeq(found, 1, Len(found) - 1) \in Seq(O)
      BY <1>3, <2>0
    <3>2. ASSUME NEW i \in DOMAIN kept PROVE ReadOut(kept[i])
      <4>1. kept[i] = found[i] /\ i \in DOMAIN found /\ i # Len(found)
        BY <1>3, <2>0, <2>1
      <4> HIDE DEF kept
      <4>2. QED BY <1>3, <4>1
    <3>3. QED BY <2>1, <3>1, <3>2
  <2>2. CASE ~thrown
    <3>1. \A i \in DOMAIN found : i = Len(found) => found[i].n # 0
      BY <1>3, <2>0, <2>2
    <3>2. QED BY <1>3, <2>2, <3>1
  <2>3. QED BY <2>1, <2>2
<1> HIDE DEF kept
<1>6. ASSUME NEW i \in DOMAIN kept PROVE WholeRecords(new[i]) /\ new[i] \in Carving
  <2> DEFINE at == kept[i].at
             n == kept[i].n
             r == new[i]
  <2>1. kept[i] \in O
    BY <1>5
  <2>2. at \in pos .. (pos + CLUSTER_SIZE) - 1 /\ n \in Nat /\ check_evtxrecord_signature(at) > 0
    <3>1. \A o \in O : o.at \in pos .. (pos + CLUSTER_SIZE) - 1 /\ o.n \in Nat /\ check_evtxrecord_signature(o.at) > 0
      BY DEF O, InRun
    <3>2. QED BY <2>1, <3>1
  <2>3. n = Check("record", at) /\ ~RecordThrows(at) /\ Check("record", at) > 0
    BY <1>5, <2>2 DEF ReadOut, check_evtxrecord_signature
  <2>4. r = [kind |-> "orphan", from |-> WalkStart + at, to |-> WalkStart + Least(at + n, bufsize)]
    BY DEF Slice
  <2> HIDE DEF at, n, r
  <2>5. at \in Nat
    BY <1>1, <1>2, <2>2
  <2>6. at + n <= bufsize
    BY <1>2, <2>2, <2>3, <2>5 DEF RecordThrows
  <2>7. Least(at + n, bufsize) = at + n
    BY <1>2, <2>2, <2>5, <2>6 DEF Least
  <2>8. r.to - r.from = n /\ r.kind = "orphan" /\ r.from = WalkStart + at /\ r \in Carving
    BY <1>2, <2>2, <2>4, <2>5, <2>7 DEF Carving, Kinds
  <2>9. CellAt(r.from) = [is |-> "record", n |-> n]
    BY <1>1, <2>3, <2>5, <2>8, Checked
  <2>10. WholeRecords(r)
    BY <1>1, <2>8, <2>9 DEF WholeRecords
  <2>11. QED BY <2>8, <2>10 DEF r
<1>7. new \in Seq(Carving) /\ DOMAIN new = DOMAIN kept
  <2>1. DOMAIN new = DOMAIN kept
    OBVIOUS
  <2>2. DOMAIN kept = 1 .. Len(kept) /\ Len(kept) \in Nat
    BY <1>5
  <2>3. \A i \in 1 .. Len(kept) : new[i] \in Carving
    BY <1>6, <2>2
  <2>4. new = [i \in 1 .. Len(kept) |-> new[i]]
    BY <2>2
  <2> HIDE DEF new
  <2>5. new \in [1 .. Len(kept) -> Carving]
    BY <2>3, <2>4
  <2>6. QED BY <2>1, <2>2, <2>5
<1>8. RecordsSound'
  <2> HIDE DEF new
  <2>1. QED BY <1>1, <1>4, <1>6, <1>7, WholeKeeps DEF RecordInv
<1>9. EvtxRun'
  <2>1. CASE LeavePage
    BY <2>1 DEF LeavePage, EvtxRun
  <2>2. CASE MoveTo(pos + CLUSTER_SIZE) /\ UNCHANGED memo
    <3>1. page' = page /\ pos' = pos + CLUSTER_SIZE /\ memo' = memo
      BY <2>2 DEF MoveTo
    <3>2. WalkStart' = WalkStart /\ Places' = Places
      BY <1>1, <3>1 DEF WalkStart, Places, ImageSize
    <3>3. \A z : CellAt(z)' = CellAt(z)
      BY <1>1 DEF CellAt
    <3>4. SUFFICES ASSUME memo > 0 PROVE EvtxRun'
      BY <3>1 DEF EvtxRun
    <3>5. PICK q \in Places : /\ WalkStart <= q /\ q < WalkStart + pos /\ q < WalkStart + image.pagesize
                              /\ CellAt(q).is \in {"header", "chunk"}
      BY <1>1, <3>4 DEF EvtxRun
    <3>6. q < WalkStart + pos'
      BY <1>1, <1>2, <3>1, <3>5 DEF Places
    <3>7. QED BY <1>1, <3>1, <3>2, <3>3, <3>5, <3>6 DEF EvtxRun
  <2>3. QED BY <1>4, <2>1, <2>2
<1>10. QED BY <1>8, <1>9

\* Of the images of utmp and NTFS records nothing is kept from step to step.
SoundInv == RecordInv /\ RecordsSound /\ UsnRun /\ EvtxRun

LEMMA InitSound == ASSUME RecordInit PROVE SoundInv
<1>1. reports = << >> /\ memo = 0
  BY DEF RecordInit, WalkInit
<1>2. DOMAIN reports = {}
  BY <1>1
<1>3. QED BY <1>1, <1>2, InitRecord DEF SoundInv, RecordsSound, UsnRun, EvtxRun

LEMMA NextSound == ASSUME SoundInv, [RecordStep]_walk_vars PROVE SoundInv'
<1>1. RecordInv'
  BY NextRecord DEF SoundInv
<1>2. CASE UtmpStep \/ NtfsStep
  <2>1. RecordsSound'
    BY <1>2, UtmpSound, NtfsSound DEF SoundInv
  <2>2. scanner' = scanner /\ scanner # "evtx" /\ scanner # "ntfsusn"
    BY <1>2 DEF UtmpStep, NtfsStep, NtfsRun, NtfsAlone, In, RunOf, LeavePage, MoveTo
  <2>3. QED BY <1>1, <2>1, <2>2 DEF SoundInv, UsnRun, EvtxRun
<1>3. CASE UsnFirst \/ UsnNext
  <2>1. RecordsSound' /\ UsnRun'
    BY <1>3, UsnFirstSound, UsnNextSound DEF SoundInv
  <2>2. scanner' = scanner /\ scanner # "evtx"
    BY <1>3 DEF UsnFirst, UsnNext, UsnCarve, In, LeavePage, MoveTo
  <2>3. QED BY <1>1, <2>1, <2>2 DEF SoundInv, EvtxRun
<1>4. CASE EvtxStep
  <2>1. RecordsSound' /\ EvtxRun'
    <3>1. CASE EvtxEnd
      <4>1. /\ RecordTyped /\ scanner' = scanner /\ image' = image /\ Silent /\ memo' = 0
        BY <3>1 DEF EvtxEnd, LeavePage, SoundInv, RecordInv
      <4>2. RecordsSound'
        BY <4>1, NoneKeeps DEF SoundInv
      <4>3. QED BY <4>1, <4>2 DEF EvtxRun
    <3>2. QED BY <1>4, <3>1, EvtxFileSound, EvtxChunksSound, EvtxClusterSound DEF SoundInv, EvtxStep
  <2>2. scanner' = scanner /\ scanner # "ntfsusn"
    BY <1>4 DEF EvtxStep, EvtxFile, EvtxChunks, EvtxCluster, EvtxEnd, In, LeavePage, MoveTo
  <2>3. QED BY <1>1, <2>1, <2>2 DEF SoundInv, UsnRun
<1>5. CASE UNCHANGED walk_vars
  <2>1. UNCHANGED <<scanner, image, page, pos, memo, reports>>
    BY <1>5 DEF walk_vars
  <2>2. RecordsSound'
    BY <2>1, NoneKeeps DEF Silent, SoundInv, RecordInv
  <2>3. WalkStart' = WalkStart /\ bufsize' = bufsize /\ ImageSize' = ImageSize /\ Places' = Places
    BY <2>1 DEF WalkStart, bufsize, ImageSize, Least, Places
  <2>4. \A z : CellAt(z)' = CellAt(z)
    BY <2>1 DEF CellAt
  <2>5. \A z : Padded(z)' = Padded(z)
    BY <2>3 DEF Padded
  <2>6. EndsFrom(image, WalkStart + pos)' = EndsFrom(image, WalkStart + pos)
    BY <2>1, <2>3
  <2>7. UsnRun'
    BY <2>1, <2>3, <2>4, <2>5, <2>6 DEF SoundInv, UsnRun
  <2>8. EvtxRun'
    BY <2>1, <2>3, <2>4 DEF SoundInv, EvtxRun
  <2>9. QED BY <1>1, <2>2, <2>7, <2>8 DEF SoundInv
<1>6. QED BY <1>2, <1>3, <1>4, <1>5 DEF RecordStep

\* RecordsSound, a part of ReportsSound: over any image, what the scanners of records carve
\* is made of whole records, whatever page they begin in and wherever it ends.
THEOREM RecordsCarvedWhole == RecordSpec => []RecordsSound
<1>1. SoundInv => RecordsSound
  BY DEF SoundInv
<1>2. QED BY <1>1, InitSound, NextSound, PTL DEF RecordSpec

-----------------------------------------------------------------------------
(* The scanners of records pass over no record *)

\* What the scanner has passed by.
Passed(q) == q < WalkStart \/ (q < WalkStart + pos /\ q < WalkStart + pagesize)
PassedFound == \A q \in Places : Passed(q) => RecordFound(q)

\* What was found stays so: the image does not change, and reports are only added.
LEMMA FoundStays ==
  ASSUME RecordTyped, scanner' = scanner, image' = image, NEW new \in Seq(Carving), reports' = reports \o new,
         NEW q, RecordFound(q)
  PROVE  RecordFound(q)'
<1>1. \A kinds, a, b : Covered(kinds, a, b) => Covered(kinds, a, b)'
  <2>1. reports \in Seq(Carving)
    BY DEF RecordTyped
  <2>2. \A i \in DOMAIN reports : i \in DOMAIN reports' /\ reports'[i] = reports[i]
    BY <2>1
  <2>3. QED BY <2>2 DEF Covered
<1>2. ImageSize' = ImageSize /\ Places' = Places
  BY DEF ImageSize, Places
<1>3. \A x : CellAt(x)' = CellAt(x) /\ PageBound(x)' = PageBound(x) /\ SbufBound(x)' = SbufBound(x)
  BY DEF CellAt, PageBound, SbufBound, PageFirst, ImageSize
<1>4. \A x, y : SamePage(x, y)' = SamePage(x, y)
  BY DEF SamePage
<1>5. HeaderAlone(q)' = HeaderAlone(q) /\ RecordCut(q)' = RecordCut(q)
  BY <1>2, <1>3, <1>4 DEF HeaderAlone, RecordCut
<1>6. \A kinds : Within(kinds, q) => Within(kinds, q)'
  BY <1>1 DEF Within
<1>7. UtmpFound(q) => UtmpFound(q)'
  BY <1>3, <1>6 DEF UtmpFound
<1>8. NtfsFound(q) => NtfsFound(q)'
  <2>1. Intact' = Intact
    BY DEF Intact
  <2>2. (CellAt(ImageSize - 1) \in Intact)' <=> CellAt(ImageSize - 1) \in Intact
    BY <1>2, <1>3, <2>1
  <2>3. QED BY <1>2, <1>3, <1>4, <1>6, <2>2 DEF NtfsFound
<1>9. UsnFound(q) => UsnFound(q)'
  BY <1>3, <1>6 DEF UsnFound
<1>10. EvtxFound(q) => EvtxFound(q)'
  BY <1>3, <1>5, <1>6 DEF EvtxFound
<1>11. QED BY <1>7, <1>8, <1>9, <1>10 DEF RecordFound

\* It is enough to look at what a step passes by in the page.
LEMMA FoundKeeps ==
  ASSUME RecordTyped, ~WalkDone, PassedFound, scanner' = scanner, image' = image,
         NEW new \in Seq(Carving), reports' = reports \o new,
         \/ /\ page' = page + 1 /\ pos' = 0
            /\ \A q \in Nat : WalkStart + pos <= q /\ q < WalkStart + pagesize => RecordFound(q)'
         \/ /\ page' = page /\ pos' \in Nat
            /\ \A q \in Nat : WalkStart + pos <= q /\ q < WalkStart + pos' /\ q < WalkStart + pagesize => RecordFound(q)'
  PROVE  PassedFound'
<1>1. /\ ImageSize \in Nat /\ WalkStart \in Nat /\ pagesize \in Nat /\ pos \in Nat
      /\ image.pagesize \in Nat /\ page \in Nat
  BY InThePage DEF RecordTyped, RecordImages
<1>2. Places' = Places /\ ImageSize' = ImageSize
  BY DEF Places, ImageSize
<1> SUFFICES ASSUME NEW q \in Places, Passed(q)' PROVE RecordFound(q)'
  BY <1>2 DEF PassedFound
<1>3. CASE Passed(q)
  <2>1. RecordFound(q)
    BY <1>3 DEF PassedFound
  <2>2. QED BY <2>1, FoundStays
<1>4. CASE ~Passed(q)
  <2>1. q \in Nat /\ q < ImageSize /\ WalkStart <= q /\ (q < WalkStart + pagesize => WalkStart + pos <= q)
    BY <1>1, <1>4 DEF Places, Passed
  <2>2. CASE page' = page + 1 /\ pos' = 0
    <3>2. WalkStart' = WalkStart + image.pagesize
      BY <2>2, NextStart
    <3>3. q < WalkStart + image.pagesize
      BY <1>1, <2>1, <2>2, <3>2 DEF Passed
    <3>4. q < WalkStart + pagesize
      BY <1>1, <2>1, <3>3 DEF pagesize, Least
    <3>5. QED BY <1>1, <2>1, <2>2, <3>4
  <2>3. CASE page' = page
    <3>1. WalkStart' = WalkStart /\ pagesize' = pagesize
      BY <1>2, <2>3 DEF WalkStart, pagesize, Least
    <3>2. q < WalkStart + pos' /\ q < WalkStart + pagesize
      BY <1>1, <2>1, <2>3, <3>1 DEF Passed
    <3>3. page' # page + 1
      BY <1>1, <2>3
    <3>4. QED BY <2>1, <3>2, <3>3
  <2>4. QED BY <2>2, <2>3
<1>5. QED BY <1>3, <1>4

\* A piece that is carved covers its cells.
LEMMA ReportCovers ==
  ASSUME RecordTyped, ~WalkDone, NEW kind, NEW n \in Nat, Report(kind, pos, n),
         NEW q \in Nat, WalkStart + pos <= q, q < WalkStart + (pos + n), q < WalkStart + bufsize
  PROVE  \A kinds : kind \in kinds => Within(kinds, q)'
<1>1. /\ WalkStart \in Nat /\ bufsize \in Nat /\ pos \in Nat /\ reports \in Seq(Carving)
  BY InThePage DEF RecordTyped
<1> DEFINE r == Slice(kind, pos, n)
           last == Len(reports) + 1
<1>2. r.kind = kind /\ r.from = WalkStart + pos /\ r.to = WalkStart + Least(pos + n, bufsize)
  BY DEF Slice
<1>3. r.from <= q /\ q + 1 <= r.to
  BY <1>1, <1>2 DEF Least
<1>4. last \in DOMAIN reports' /\ reports'[last] = Slice(kind, pos, n)
  BY <1>1 DEF Report
<1> HIDE DEF r, last
<1>5. last \in DOMAIN reports' /\ reports'[last] = r
  BY <1>4 DEF r
<1>6. QED BY <1>2, <1>3, <1>5 DEF Within, Covered

\* A step carves nothing, or one piece.
LEMMA NothingNew ==
  ASSUME RecordTyped, Silent
  PROVE  << >> \in Seq(Carving) /\ reports' = reports \o << >>
BY DEF Silent, RecordTyped
LEMMA OneNew ==
  ASSUME RecordTyped, ~WalkDone, pos < pagesize, NEW kind \in Kinds, NEW n \in Nat, Report(kind, pos, n)
  PROVE  \E new \in Seq(Carving) : reports' = reports \o new
<1> DEFINE r == Slice(kind, pos, n)
<1>1. /\ WalkStart \in Nat /\ bufsize \in Nat /\ pos \in Nat /\ reports \in Seq(Carving)
  BY InThePage DEF RecordTyped
<1>2. r \in Carving
  BY <1>1 DEF Slice, Least, Carving
<1> HIDE DEF r
<1>3. <<r>> \in Seq(Carving)
  BY <1>2
<1>4. reports' = reports \o <<r>>
  BY <1>1, <1>2 DEF Report, r
<1>5. QED BY <1>3, <1>4

\* What the scanner passes by, whether it goes on to k or leaves.
Ahead(q, k) == q \in Nat /\ WalkStart + pos <= q /\ q < WalkStart + k /\ q < WalkStart + pagesize

LEMMA UtmpPasses == ASSUME RecordInv, PassedFound, UtmpStep PROVE PassedFound'
<1>1. /\ scanner = "utmp" /\ ~WalkDone /\ pos \in Nat /\ RecordTyped /\ scanner' = scanner /\ image' = image
      /\ page \in Nat
  BY DEF UtmpStep, In, RecordInv, RecordTyped, LeavePage, MoveTo
<1>2. /\ UTMP_RECORD \in Nat /\ pagesize \in Nat /\ WalkStart \in Nat /\ bufsize \in Nat /\ pagesize <= bufsize
      /\ ImageSize \in Nat
  BY RecordAssumption, InThePage, <1>1
<1>3. scanner \notin DOMAIN RunOf /\ scanner' \notin DOMAIN RunOf /\ scanner' = "utmp"
  BY <1>1 DEF RunOf
<1>4. \A q : CellAt(q)' = CellAt(q) /\ PageBound(q)' = PageBound(q)
  BY <1>1 DEF CellAt, PageBound, PageFirst, ImageSize
<1>5. ASSUME NEW q, Ahead(q, pagesize),
             CellAt(q) # "utmp" \/ Within({"utmp"}, q)' \/ q >= (WalkStart + pagesize) - UTMP_RECORD
      PROVE  RecordFound(q)'
  <2>1. PageBound(q) = WalkStart + pagesize
    BY <1>1, <1>2, <1>5, InThePage DEF Ahead
  <2>2. CellAt(q)' # "utmp" \/ Within({"utmp"}, q)' \/ q >= PageBound(q)' - UTMP_RECORD
    BY <1>4, <1>5, <2>1
  <2>3. UtmpFound(q)'
    BY <2>2 DEF UtmpFound
  <2>4. QED BY <1>3, <2>3 DEF RecordFound
<1>6. CASE (pagesize < UTMP_RECORD \/ pos >= pagesize - UTMP_RECORD) /\ LeavePage /\ Silent
  <2>1. ASSUME NEW q, Ahead(q, pagesize) PROVE RecordFound(q)'
    <3>1. q >= (WalkStart + pagesize) - UTMP_RECORD
      BY <1>1, <1>2, <1>6, <2>1 DEF Ahead
    <3>2. QED BY <1>5, <2>1, <3>1
  <2>2. page' = page + 1 /\ pos' = 0
    BY <1>6 DEF LeavePage
  <2>3. QED BY <1>1, <1>6, <2>1, <2>2, NothingNew, FoundKeeps DEF Ahead
<1>7. CASE pos < pagesize - UTMP_RECORD /\ Report("utmp", pos, UTMP_RECORD) /\ MoveTo(pos + UTMP_RECORD)
  <2>1. ASSUME NEW q, Ahead(q, pos') PROVE RecordFound(q)'
    <3>1. q \in Nat /\ WalkStart + pos <= q /\ q < WalkStart + (pos + UTMP_RECORD) /\ q < WalkStart + bufsize
      BY <1>1, <1>2, <1>7, <2>1 DEF MoveTo, Ahead
    <3>2. Within({"utmp"}, q)'
      BY <1>1, <1>2, <1>7, <3>1, ReportCovers
    <3>3. QED BY <1>5, <2>1, <3>2 DEF Ahead
  <2>2. page' = page /\ pos' \in Nat
    BY <1>1, <1>2, <1>7 DEF MoveTo
  <2>3. "utmp" \in Kinds /\ pos < pagesize
    BY <1>1, <1>2, <1>7 DEF Kinds
  <2>4. PICK new \in Seq(Carving) : reports' = reports \o new
    BY <1>1, <1>2, <1>7, <2>3, OneNew
  <2>5. QED BY <1>1, <2>1, <2>2, <2>4, FoundKeeps DEF Ahead
<1>8. CASE pos < pagesize /\ ~check_utmprecord_signature(pos) /\ Silent /\ MoveTo(pos + 1)
  <2>1. ASSUME NEW q, Ahead(q, pos') PROVE RecordFound(q)'
    <3>1. q = WalkStart + pos /\ pos < bufsize
      BY <1>1, <1>2, <1>8, <2>1 DEF MoveTo, Ahead
    <3>2. CellAt(q) # "utmp"
      BY <1>8, <3>1, CellsOf DEF check_utmprecord_signature
    <3>3. QED BY <1>5, <2>1, <3>2 DEF Ahead
  <2>2. page' = page /\ pos' \in Nat
    BY <1>1, <1>8 DEF MoveTo
  <2>3. QED BY <1>1, <1>8, <2>1, <2>2, NothingNew, FoundKeeps DEF Ahead
<1>9. QED BY <1>1, <1>2, <1>6, <1>7, <1>8 DEF UtmpStep

LEMMA NtfsPasses == ASSUME RecordInv, PassedFound, NtfsStep PROVE PassedFound'
<1>1. /\ ~WalkDone /\ pos \in Nat /\ page \in Nat /\ RecordTyped /\ scanner' = scanner /\ image' = image
      /\ scanner \in DOMAIN RunOf /\ scanner \notin {"utmp", "ntfsusn", "evtx"}
  BY DEF NtfsStep, NtfsRun, NtfsAlone, RunOf, RecordInv, RecordTyped, LeavePage, MoveTo
<1>2. /\ pagesize \in Nat /\ WalkStart \in Nat /\ bufsize \in Nat /\ pagesize <= bufsize /\ ImageSize \in Nat
      /\ WalkStart + bufsize <= ImageSize
  BY InThePage, <1>1
<1>3. \A q : CellAt(q)' = CellAt(q)
  BY <1>1 DEF CellAt
<1> DEFINE Records == Alone[scanner] \cup {RunOf[scanner]}
           AtEnd(q) == /\ image.cut /\ SamePage(q, ImageSize - 1) /\ CellAt(ImageSize - 1) \in Intact
                       /\ \A p \in q .. ImageSize - 2 : CellAt(p) = RunOf[scanner]
<1>4. ASSUME NEW q, \/ CellAt(q) \notin Records \/ AtEnd(q)
                    \/ \E kind : CellAt(q) = kind /\ Within({kind}, q)'
      PROVE  RecordFound(q)'
  <2>1. /\ ImageSize' = ImageSize /\ image'.cut = image.cut /\ \A x, y : SamePage(x, y)' = SamePage(x, y)
        /\ Intact' = Intact
    BY <1>1 DEF ImageSize, SamePage, Intact
  <2>2. CellAt(q)' \in Alone[scanner'] \cup {RunOf[scanner']} => AtEnd(q)' \/ Within({CellAt(q)}, q)'
    <3>1. CASE CellAt(q) \notin Records \/ AtEnd(q)
      BY <1>1, <1>3, <2>1, <3>1
    <3>2. CASE \E kind : CellAt(q) = kind /\ Within({kind}, q)'
      <4>1. PICK kind : CellAt(q) = kind /\ Within({kind}, q)'
        BY <3>2
      <4>2. CellAt(q)' = kind
        BY <1>3, <4>1
      <4>3. Within({CellAt(q)}, q)'
        BY <4>1, <4>2
      <4>4. QED BY <4>3
    <3>3. QED BY <1>4, <3>1, <3>2
  <2>3. NtfsFound(q)'
    BY <2>2 DEF NtfsFound
  <2>4. scanner' \notin {"utmp", "ntfsusn", "evtx"}
    BY <1>1
  <2>5. QED BY <2>3, <2>4 DEF RecordFound
<1> HIDE DEF AtEnd, Records
<1>5. ASSUME NEW k \in Nat, pos <= k, k < pagesize, WalkStart + k + 1 = ImageSize, image.cut,
             Cell(k, "none") \in Intact, \A i \in pos .. k - 1 : Cell(i, "none") = RunOf[scanner], LeavePage, Silent
      PROVE  PassedFound'
  <2>1. ASSUME NEW q, Ahead(q, pagesize) PROVE RecordFound(q)'
    <3>1. SamePage(q, ImageSize - 1)
      <4> DEFINE s == image.pagesize
      <4>1. s \in Nat \ {0} /\ pagesize <= s
        BY <1>1, InThePage DEF RecordTyped, RecordImages
      <4>2. q \in Nat /\ ImageSize - 1 \in Nat
        BY <1>2, <1>5, <2>1 DEF Ahead
      <4>3. WalkStart <= q /\ q < WalkStart + s /\ WalkStart <= ImageSize - 1 /\ ImageSize - 1 < WalkStart + s
        BY <1>1, <1>2, <1>5, <2>1, <4>1 DEF Ahead
      <4>4. WalkStart = page * s /\ (page + 1) * s = page * s + s
        <5>1. \A a, b \in Nat : (a + 1) * b = a * b + b
          OBVIOUS
        <5>2. QED BY <1>1, <4>1, <5>1 DEF WalkStart
      <4> HIDE DEF s
      <4>5. q \div s = page /\ (ImageSize - 1) \div s = page
        BY <1>1, <4>1, <4>2, <4>3, <4>4, DivOf
      <4>6. QED BY <4>5 DEF SamePage, s
    <3>2. ASSUME NEW p \in q .. ImageSize - 2 PROVE CellAt(p) = RunOf[scanner]
      <4>1. /\ q \in Nat /\ WalkStart + pos <= q
        BY <2>1 DEF Ahead
      <4>2. p - WalkStart \in pos .. k - 1 /\ p - WalkStart < bufsize /\ WalkStart + (p - WalkStart) = p
        BY <1>1, <1>2, <1>5, <4>1
      <4>3. QED BY <1>5, <4>2, CellsOf
    <3>3. CellAt(ImageSize - 1) \in Intact
      <4>1. k < bufsize /\ WalkStart + k = ImageSize - 1
        BY <1>2, <1>5
      <4>2. CellAt(WalkStart + k) = Cell(k, "none")
        BY <1>1, <1>5, <4>1, CellsOf
      <4>3. QED BY <1>5, <4>1, <4>2
    <3>4. AtEnd(q)
      BY <1>5, <3>1, <3>2, <3>3 DEF AtEnd
    <3>5. QED BY <1>4, <3>4
  <2>2. page' = page + 1 /\ pos' = 0
    BY <1>5 DEF LeavePage
  <2>3. QED BY <1>1, <1>5, <2>1, <2>2, NothingNew, FoundKeeps DEF Ahead
<1>6. ASSUME NEW kind \in Kinds, NEW n \in Nat, Report(kind, pos, n), MoveTo(pos + n), pos < pagesize,
             \A i \in pos .. pos + n - 1 : Cell(i, "none") = kind
      PROVE  PassedFound'
  <2>1. ASSUME NEW q, Ahead(q, pos') PROVE RecordFound(q)'
    <3>1. q \in Nat /\ WalkStart + pos <= q /\ q < WalkStart + (pos + n) /\ q < WalkStart + bufsize
      BY <1>1, <1>2, <1>6, <2>1 DEF MoveTo, Ahead
    <3>2. q - WalkStart \in pos .. pos + n - 1 /\ q - WalkStart < bufsize /\ WalkStart + (q - WalkStart) = q
      BY <1>1, <1>2, <3>1
    <3>3. CellAt(q) = kind
      BY <1>6, <3>2, CellsOf
    <3>4. Within({kind}, q)'
      BY <1>1, <1>6, <3>1, ReportCovers
    <3>5. QED BY <1>4, <3>3, <3>4
  <2>2. page' = page /\ pos' \in Nat
    BY <1>1, <1>6 DEF MoveTo
  <2>3. PICK new \in Seq(Carving) : reports' = reports \o new
    BY <1>1, <1>6, OneNew
  <2>4. QED BY <1>1, <2>1, <2>2, <2>3, FoundKeeps DEF Ahead
<1>7. CASE pos >= pagesize /\ LeavePage /\ Silent
  <2>1. \A q : ~Ahead(q, pagesize)
    BY <1>1, <1>2, <1>7 DEF Ahead
  <2>2. page' = page + 1 /\ pos' = 0
    BY <1>7 DEF LeavePage
  <2>3. QED BY <1>1, <1>7, <2>1, <2>2, NothingNew, FoundKeeps DEF Ahead
<1>8. CASE pos < pagesize /\ Throws(pos) /\ LeavePage /\ Silent
  <2>1. \A i \in pos .. pos - 1 : FALSE
    BY <1>1
  <2>2. WalkStart + pos + 1 = ImageSize /\ image.cut /\ Cell(pos, "none") \in Intact
    BY <1>8 DEF Throws
  <2>3. QED BY <1>1, <1>5, <1>8, <2>1, <2>2
<1>9. CASE pos < pagesize /\ NtfsRun
  <2>1. /\ RunEnd \in pos + 1 .. pagesize
        /\ \A k \in pos + 1 .. RunEnd - 1 : Cell(k, "none") = RunOf[scanner]
    BY <1>1, <1>9, RunEnds
  <2>2. \A k \in pos .. RunEnd - 1 : Cell(k, "none") = RunOf[scanner]
    <3> TAKE k \in pos .. RunEnd - 1
    <3>1. k = pos \/ k \in pos + 1 .. RunEnd - 1
      BY <1>1, <1>2, <2>1
    <3>2. QED BY <1>9, <2>1, <3>1 DEF NtfsRun
  <2>3. RunOf[scanner] \in Kinds
    BY <1>1 DEF RunOf, Kinds
  <2>4. RunEnd \in Nat /\ RunEnd - pos \in Nat /\ pos + (RunEnd - pos) = RunEnd /\ pos <= RunEnd
    BY <1>1, <1>2, <2>1
  <2>5. CASE RunEnd < pagesize /\ Throws(RunEnd) /\ LeavePage /\ Silent
    <3>1. WalkStart + RunEnd + 1 = ImageSize /\ image.cut /\ Cell(RunEnd, "none") \in Intact
      BY <2>5 DEF Throws
    <3>2. QED BY <1>5, <2>2, <2>4, <2>5, <3>1
  <2>6. CASE Report(RunOf[scanner], pos, RunEnd - pos) /\ MoveTo(RunEnd)
    <3> DEFINE n == RunEnd - pos
    <3>1. n \in Nat /\ pos + n = RunEnd
      BY <2>4
    <3>2. Report(RunOf[scanner], pos, n) /\ MoveTo(pos + n)
      BY <2>6, <3>1
    <3> HIDE DEF n
    <3>3. \A i \in pos .. pos + n - 1 : Cell(i, "none") = RunOf[scanner]
      <4>1. \A i : i \in pos .. pos + n - 1 => i \in pos .. RunEnd - 1
        BY <1>1, <2>4, <3>1
      <4>2. QED BY <2>2, <4>1
    <3>4. QED BY <1>6, <1>9, <2>3, <3>1, <3>2, <3>3
  <2>7. \/ RunEnd < pagesize /\ Throws(RunEnd) /\ LeavePage /\ Silent
        \/ Report(RunOf[scanner], pos, RunEnd - pos) /\ MoveTo(RunEnd)
    BY <1>9 DEF NtfsRun
  <2>8. QED BY <2>5, <2>6, <2>7
<1>10. CASE pos < pagesize /\ NtfsAlone
  <2>1. CASE Cell(pos, "none") \in Alone[scanner] /\ Report(Cell(pos, "none"), pos, 1) /\ MoveTo(pos + 1)
    <3>1. Cell(pos, "none") \in Kinds
      <4>1. scanner \in {"ntfsmft", "ntfsindx", "ntfslogfile"}
        BY <1>1 DEF RunOf
      <4>2. /\ scanner = "ntfsmft" => Alone[scanner] = {"FILE-"}
            /\ scanner = "ntfsindx" => Alone[scanner] = {"INDX_ObjId-O", "INDX_Misc", "INDX-"}
            /\ scanner = "ntfslogfile" => Alone[scanner] = {"RCRD-", "RSTR", "RSTR-"}
        BY DEF Alone
      <4>3. QED BY <2>1, <4>1, <4>2 DEF Kinds
    <3>2. \A i \in pos .. pos + 1 - 1 : i = pos
      BY <1>1
    <3>3. QED BY <1>6, <1>10, <2>1, <3>1, <3>2
  <2>2. CASE Cell(pos, "none") \notin Records /\ Silent /\ MoveTo(pos + 1)
    <3>1. ASSUME NEW q, Ahead(q, pos') PROVE RecordFound(q)'
      <4>1. q = WalkStart + pos /\ pos < bufsize
        BY <1>1, <1>2, <1>10, <2>2, <3>1 DEF MoveTo, Ahead
      <4>2. CellAt(q) \notin Records
        BY <2>2, <4>1, CellsOf
      <4>3. QED BY <1>4, <4>2
    <3>2. page' = page /\ pos' \in Nat
      BY <1>1, <2>2 DEF MoveTo
    <3>3. QED BY <1>1, <2>2, <3>1, <3>2, NothingNew, FoundKeeps DEF Ahead
  <2>3. QED BY <1>10, <2>1, <2>2 DEF NtfsAlone, Records
<1>11. QED BY <1>2, <1>7, <1>8, <1>9, <1>10, <1>1 DEF NtfsStep

\* A run of USN records is carved from pos on, at least to where the scanner goes.
LEMMA UsnFirstPasses == ASSUME RecordInv, PassedFound, UsnFirst PROVE PassedFound'
<1>1. /\ scanner = "ntfsusn" /\ ~WalkDone /\ pos \in Nat /\ page \in Nat /\ RecordTyped
      /\ scanner' = scanner /\ image' = image
  BY DEF UsnFirst, In, RecordInv, RecordTyped, LeavePage, MoveTo
<1>2. pagesize \in Nat /\ WalkStart \in Nat /\ bufsize \in Nat /\ pagesize <= bufsize
  BY InThePage, <1>1
<1>3. \A q : CellAt(q)' = CellAt(q)
  BY <1>1 DEF CellAt
<1>4. ASSUME NEW q, CellAt(q).v = 2 => Within({"UsnJrnl-J", "corrupted"}, q)' PROVE RecordFound(q)'
  <2>1. UsnFound(q)'
    BY <1>3, <1>4 DEF UsnFound
  <2>2. QED BY <1>1, <2>1 DEF RecordFound, RunOf
<1> DEFINE record == check_usnrecordv2_signature(pos)
<1>5. record = NoUsn \/ record.size \in Nat \ {0}
  BY <1>1, UsnCell DEF check_usnrecordv2_signature
<1>6. NoUsn.odd = FALSE /\ NoUsn.v = 0
  BY DEF NoUsn
<1>7. pos < pagesize /\ record = NoUsn => CellAt(WalkStart + pos).v # 2
  <2> SUFFICES ASSUME pos < pagesize, record = NoUsn PROVE CellAt(WalkStart + pos).v # 2
    OBVIOUS
  <2>1. Cell(pos, NoUsn) = CellAt(WalkStart + pos)
    BY <1>1, <1>2, CellsOf
  <2>2. QED BY <1>6, <2>1 DEF check_usnrecordv2_signature
<1> HIDE DEF record
<1>8. \/ pos >= pagesize /\ LeavePage /\ Silent
      \/ pos < pagesize /\ record = NoUsn /\ Silent /\ MoveTo(pos + 1)
      \/ /\ pos < pagesize /\ record # NoUsn
         /\ \/ Report("corrupted", pos, record.size) /\ MoveTo(pos + record.size)
            \/ /\ Report("UsnJrnl-J", pos, record.size) \/ Report("corrupted", pos, record.size)
               /\ pos + record.size > pagesize /\ LeavePage
            \/ Silent /\ UNCHANGED <<scanner, image, page, pos>>
  <2>1. pos < pagesize /\ record = NoUsn => ~record.odd
    BY <1>6
  <2>2. QED BY <2>1 DEF UsnFirst, record
<1>9. ASSUME NEW kind \in {"UsnJrnl-J", "corrupted"}, NEW n \in Nat, pos < pagesize, Report(kind, pos, n),
             MoveTo(pos + n) \/ (LeavePage /\ pos + n > pagesize)
      PROVE  PassedFound'
  <2>1. ASSUME NEW q, Ahead(q, pagesize), q < WalkStart + (pos + n) PROVE RecordFound(q)'
    <3>1. q \in Nat /\ WalkStart + pos <= q /\ q < WalkStart + bufsize
      BY <1>1, <1>2, <2>1 DEF Ahead
    <3>2. Within({"UsnJrnl-J", "corrupted"}, q)'
      BY <1>1, <1>9, <2>1, <3>1, ReportCovers
    <3>3. QED BY <1>4, <3>2
  <2>2. "UsnJrnl-J" \in Kinds /\ "corrupted" \in Kinds
    BY DEF Kinds
  <2>3. PICK new \in Seq(Carving) : reports' = reports \o new
    BY <1>1, <1>9, <2>2, OneNew
  <2>4. CASE MoveTo(pos + n)
    <3>1. page' = page /\ pos' = pos + n /\ pos' \in Nat
      BY <1>1, <2>4 DEF MoveTo
    <3>2. QED BY <1>1, <2>1, <2>3, <3>1, FoundKeeps DEF Ahead
  <2>5. CASE LeavePage /\ pos + n > pagesize
    <3>1. page' = page + 1 /\ pos' = 0
      BY <2>5 DEF LeavePage
    <3>2. \A q : Ahead(q, pagesize) => q < WalkStart + (pos + n)
      BY <1>1, <1>2, <2>5 DEF Ahead
    <3>3. QED BY <1>1, <2>1, <2>3, <3>1, <3>2, FoundKeeps DEF Ahead
  <2>6. QED BY <1>9, <2>4, <2>5
<1>10. CASE pos >= pagesize /\ LeavePage /\ Silent
  <2>1. \A q : ~Ahead(q, pagesize)
    BY <1>1, <1>2, <1>10 DEF Ahead
  <2>2. page' = page + 1 /\ pos' = 0
    BY <1>10 DEF LeavePage
  <2>3. QED BY <1>1, <1>10, <2>1, <2>2, NothingNew, FoundKeeps DEF Ahead
<1>11. CASE pos < pagesize /\ record = NoUsn /\ Silent /\ MoveTo(pos + 1)
  <2>1. ASSUME NEW q, Ahead(q, pos') PROVE RecordFound(q)'
    <3>1. q = WalkStart + pos
      BY <1>1, <1>2, <1>11, <2>1 DEF MoveTo, Ahead
    <3>2. QED BY <1>4, <1>7, <1>11, <3>1
  <2>2. page' = page /\ pos' \in Nat
    BY <1>1, <1>11 DEF MoveTo
  <2>3. QED BY <1>1, <1>11, <2>1, <2>2, NothingNew, FoundKeeps DEF Ahead
<1>12. CASE Silent /\ UNCHANGED <<scanner, image, page, pos>>
  <2>1. \A q : ~Ahead(q, pos')
    BY <1>1, <1>2, <1>12 DEF Ahead
  <2>2. page' = page /\ pos' \in Nat
    BY <1>1, <1>12
  <2>3. QED BY <1>1, <1>12, <2>1, <2>2, NothingNew, FoundKeeps DEF Ahead
<1>13. QED BY <1>5, <1>8, <1>9, <1>10, <1>11, <1>12

LEMMA UsnGoesOn ==
  ASSUME UsnNext
  PROVE  \/ Silent /\ UNCHANGED <<scanner, image, page, pos>>
         \/ UsnCarve(memo) \/ UsnCarve(pagesize - pos)
<1> DEFINE here == pos + memo
           record == check_usnrecordv2_or_v4_signature(here)
           Odd == record.odd
           Inside == record # NoUsn /\ ~record.odd /\ here + record.size < pagesize
           Beyond == record # NoUsn /\ ~record.odd /\ here + record.size >= pagesize
<1>1. CASE Odd \/ Inside \/ Beyond
  BY <1>1 DEF UsnNext
<1>2. CASE ~(Odd \/ Inside \/ Beyond)
  BY <1>2 DEF UsnNext
<1>3. QED BY <1>1, <1>2

LEMMA UsnNextPasses == ASSUME RecordInv, PassedFound, UsnNext PROVE PassedFound'
<1>1. /\ scanner = "ntfsusn" /\ ~WalkDone /\ pos \in Nat /\ page \in Nat /\ memo \in Nat /\ pos < pagesize /\ RecordTyped
  BY DEF UsnNext, In, RecordInv, RecordTyped, RunInPage
<1>2. pagesize \in Nat /\ WalkStart \in Nat /\ bufsize \in Nat /\ pagesize <= bufsize
  BY InThePage, <1>1
<1>3. \/ Silent /\ UNCHANGED <<scanner, image, page, pos>>
      \/ \E total \in Nat : UsnCarve(total)
  <2>1. pagesize - pos \in Nat /\ memo \in Nat
    BY <1>1, <1>2
  <2>2. QED BY <2>1, UsnGoesOn
<1>4. CASE Silent /\ UNCHANGED <<scanner, image, page, pos>>
  <2>1. \A q : ~Ahead(q, pos')
    BY <1>1, <1>2, <1>4 DEF Ahead
  <2>2. page' = page /\ pos' \in Nat
    BY <1>1, <1>4
  <2>3. QED BY <1>1, <1>4, <2>1, <2>2, NothingNew, FoundKeeps DEF Ahead
<1>5. ASSUME NEW n \in Nat, UsnCarve(n) PROVE PassedFound'
  <2>1. Report("UsnJrnl-J", pos, n) /\ page' = page /\ pos' = pos + n /\ pos' \in Nat /\ image' = image /\ scanner' = scanner
    BY <1>1, <1>5 DEF UsnCarve, MoveTo
  <2>2. ASSUME NEW q, Ahead(q, pos') PROVE RecordFound(q)'
    <3>1. q \in Nat /\ WalkStart + pos <= q /\ q < WalkStart + (pos + n) /\ q < WalkStart + bufsize
      BY <1>1, <1>2, <2>1, <2>2 DEF Ahead
    <3>2. Within({"UsnJrnl-J", "corrupted"}, q)'
      BY <1>1, <2>1, <3>1, ReportCovers
    <3>3. UsnFound(q)'
      BY <3>2 DEF UsnFound
    <3>4. QED BY <1>1, <2>1, <3>3 DEF RecordFound, RunOf
  <2>3. "UsnJrnl-J" \in Kinds
    BY DEF Kinds
  <2>4. PICK new \in Seq(Carving) : reports' = reports \o new
    BY <1>1, <2>1, <2>3, OneNew
  <2>5. QED BY <1>1, <2>1, <2>2, <2>4, FoundKeeps DEF Ahead
<1>6. QED BY <1>3, <1>4, <1>5

\* The places of the page.
LEMMA PageOf ==
  ASSUME RecordTyped, ~WalkDone, NEW q \in Nat, WalkStart <= q, q < WalkStart + pagesize
  PROVE  /\ q \in Places /\ q \div image.pagesize = page /\ q % image.pagesize = q - WalkStart
         /\ SbufBound(q) = WalkStart + bufsize
<1> DEFINE s == image.pagesize
<1>1. /\ s \in Nat \ {0} /\ pagesize \in Nat /\ bufsize \in Nat /\ pagesize <= s /\ WalkStart \in Nat /\ page \in Nat
      /\ ImageSize \in Nat /\ pagesize <= bufsize /\ WalkStart + bufsize <= ImageSize /\ image.margin \in Nat
  BY InThePage DEF RecordTyped, RecordImages
<1>2. WalkStart = page * s /\ (page + 1) * s = page * s + s
  <2>1. \A a, b \in Nat : (a + 1) * b = a * b + b
    OBVIOUS
  <2>2. QED BY <1>1, <2>1 DEF WalkStart
<1> HIDE DEF s
<1>3. page * s <= q /\ q < (page + 1) * s
  BY <1>1, <1>2
<1>4. q \div s = page
  BY <1>1, <1>3, DivOf
<1>5. q % s = q - WalkStart
  <2>1. q = s * (q \div s) + (q % s) /\ s * page = page * s /\ q % s \in Int
    BY <1>1
  <2>2. QED BY <1>1, <1>2, <1>4, <2>1
<1>6. SbufBound(q) = WalkStart + bufsize
  <2>1. PageFirst(q) = WalkStart
    BY <1>2, <1>4 DEF PageFirst, s
  <2>2. QED BY <1>1, <2>1 DEF SbufBound, bufsize, Least, s
<1>7. q \in Places
  BY <1>1 DEF Places
<1>8. QED BY <1>4, <1>5, <1>6, <1>7 DEF s

\* The scanner of EVTX files looks at the clusters of a page.
InClusters(k) == \E n \in Nat : k = n * CLUSTER_SIZE
Clusters == scanner = "evtx" => InClusters(pos) /\ InClusters(memo)

LEMMA ClustersAdd ==
  /\ InClusters(0) /\ InClusters(CLUSTER_SIZE) /\ InClusters(ELFCHNK_SIZE)
  /\ \A a, b : InClusters(a) /\ InClusters(b) => InClusters(a + b)
  /\ \A n \in Nat : InClusters(n * ELFCHNK_SIZE)
<1> DEFINE C == CLUSTER_SIZE
           E == ELFCHNK_SIZE
<1>1. C \in Nat \ {0} /\ E \in Nat /\ E % C = 0
  BY RecordAssumption
<1>2. 0 = 0 * C /\ C = 1 * C
  BY <1>1
<1>3. PICK m \in Nat : E = m * C
  <2>1. E = C * (E \div C) + (E % C) /\ E \div C \in Nat
    BY <1>1
  <2>2. E = (E \div C) * C
    BY <1>1, <2>1
  <2>3. QED BY <2>1, <2>2
<1> HIDE DEF C, E
<1>4. \A n \in Nat : n * E = (n * m) * C /\ n * m \in Nat
  <2>1. \A a, b, c \in Nat : a * (b * c) = (a * b) * c /\ a * b \in Nat
    OBVIOUS
  <2>2. QED BY <1>1, <1>3, <2>1
<1>5. \A a, b \in Nat : a * C + b * C = (a + b) * C /\ a + b \in Nat
  <2>1. \A a, b, c \in Nat : a * c + b * c = (a + b) * c /\ a + b \in Nat
    OBVIOUS
  <2>2. QED BY <1>1, <2>1
<1>6. InClusters(0) /\ InClusters(C) /\ InClusters(E) /\ \A n \in Nat : InClusters(n * E)
  BY <1>2, <1>3, <1>4 DEF InClusters, C
<1>7. ASSUME NEW a, NEW b, InClusters(a), InClusters(b) PROVE InClusters(a + b)
  <2>1. PICK i \in Nat : a = i * C
    BY <1>7 DEF InClusters, C
  <2>2. PICK j \in Nat : b = j * C
    BY <1>7 DEF InClusters, C
  <2>3. a + b = (i + j) * C /\ i + j \in Nat
    BY <1>5, <2>1, <2>2
  <2>4. QED BY <2>3 DEF InClusters, C
<1>8. QED BY <1>6, <1>7 DEF C, E

\* Two places of a page in one cluster, both at its start, are one.
LEMMA OneCluster ==
  ASSUME NEW a \in Nat, InClusters(a), NEW b \in Nat, b % CLUSTER_SIZE = 0, a <= b, b < a + CLUSTER_SIZE
  PROVE  a = b
<1> DEFINE C == CLUSTER_SIZE
<1>1. C \in Nat \ {0}
  BY RecordAssumption
<1>2. PICK n \in Nat : a = n * C
  BY DEF InClusters
<1>3. (n + 1) * C = n * C + C
  <2>1. \A x, y \in Nat : (x + 1) * y = x * y + y
    OBVIOUS
  <2>2. QED BY <1>1, <2>1
<1> HIDE DEF C
<1>4. n * C <= b /\ b < (n + 1) * C
  BY <1>2, <1>3 DEF C
<1>5. b \div C = n
  BY <1>1, <1>4, DivOf
<1>6. b = C * (b \div C) + (b % C) /\ C * n = n * C
  BY <1>1
<1>7. b % C = 0
  BY DEF C
<1>8. QED BY <1>1, <1>2, <1>5, <1>6, <1>7

\* Each record is listed, or in one that is, or behind one that is cut off.
Reached(s, q) == \E j \in DOMAIN s : s[j].at <= q /\ (CutOff(s[j]) \/ q < s[j].at + s[j].n)

LEMMA OrphansReach ==
  ASSUME RecordTyped, ~WalkDone, scanner = "evtx", NEW k \in Nat, NEW end \in Nat, k <= end
  PROVE  \A q \in k .. end - 1 : check_evtxrecord_signature(q) > 0 => Reached(Orphans(k, end), q)
<1> DEFINE N(i) == check_evtxrecord_signature(i)
           All(s, i) == \A q \in i .. end - 1 : N(q) > 0 => Reached(s, q)
<1>1. \A i \in Nat : N(i) \in Nat
  BY EvtxCell DEF check_evtxrecord_signature
<1>2. PICK next : /\ Orphans(k, end) = next[k]
                  /\ \A i \in k .. end : next[i] = OrphansAt(next, i, end) /\ next[i] \in Runs(k, end)
  BY OrphansRun
<1>3. ASSUME NEW i \in k .. end, \A j \in i + 1 .. end : All(next[j], j)
      PROVE  All(next[i], i)
  <2>1. CASE i = end
    BY <2>1
  <2>2. CASE i # end
    <3> SUFFICES ASSUME NEW q \in i .. end - 1, N(q) > 0 PROVE Reached(next[i], q)
      OBVIOUS
    <3> DEFINE n == N(i)
    <3>1. n \in Nat /\ i \in Nat /\ q \in Nat /\ i <= q /\ i + 1 \in i + 1 .. end
      BY <1>1, <2>2
    <3>2. next[i] = OrphansAt(next, i, end)
      BY <1>2
    <3> HIDE DEF N, n
    <3>3. CASE RecordThrows(i)
      <4> DEFINE o == [at |-> i, n |-> 0]
      <4>1. next[i] = <<o>>
        BY <2>2, <3>2, <3>3 DEF OrphansAt
      <4>2. CutOff(o) /\ o.at = i
        BY <3>3 DEF CutOff
      <4> HIDE DEF o
      <4>3. 1 \in DOMAIN next[i] /\ next[i][1] = o
        BY <4>1
      <4>4. QED BY <3>1, <4>2, <4>3 DEF Reached
    <3>4. CASE ~RecordThrows(i) /\ n > 0
      <4> DEFINE o == [at |-> i, n |-> n]
                 rest == IF i + n < end THEN next[i + n] ELSE <<>>
      <4>1. next[i] = <<o>> \o rest
        BY <2>2, <3>2, <3>4 DEF OrphansAt, N, n
      <4>2. o.at = i /\ o.n = n
        OBVIOUS
      <4>3. i + n < end => i + n \in i + 1 .. end /\ i + n \in k .. end
        BY <3>1, <3>4
      <4>4. rest \in Seq(InRun(k, end))
        BY <1>2, <4>3 DEF Runs
      <4> HIDE DEF o, rest
      <4>5. /\ 1 \in DOMAIN next[i] /\ next[i][1] = o
            /\ \A j \in DOMAIN rest : j + 1 \in DOMAIN next[i] /\ next[i][j + 1] = rest[j]
        <5> DEFINE S == InRun(k, end)
        <5> HIDE DEF S
        <5>1. rest \in Seq(S)
          BY <4>4 DEF S
        <5>2. QED BY <4>1, <5>1
      <4>6. CASE q < i + n
        BY <3>1, <4>2, <4>5, <4>6 DEF Reached
      <4>7. CASE ~(q < i + n)
        <5>1. i + n < end /\ q \in i + n .. end - 1
          BY <3>1, <4>7
        <5>2. rest = next[i + n] /\ i + n \in i + 1 .. end
          BY <4>3, <5>1 DEF rest
        <5>3. Reached(rest, q)
          BY <1>3, <5>1, <5>2
        <5>4. PICK j \in DOMAIN rest : rest[j].at <= q /\ (CutOff(rest[j]) \/ q < rest[j].at + rest[j].n)
          BY <5>3 DEF Reached
        <5>5. QED BY <4>5, <5>4 DEF Reached
      <4>8. QED BY <4>6, <4>7
    <3>5. CASE ~RecordThrows(i) /\ ~(n > 0)
      <4>1. next[i] = next[i + 1]
        BY <2>2, <3>2, <3>5 DEF OrphansAt, N, n
      <4>2. q # i
        BY <3>5 DEF n
      <4>3. q \in i + 1 .. end - 1
        BY <3>1, <4>2
      <4>4. QED BY <1>3, <3>1, <4>1, <4>3
    <3>6. QED BY <3>3, <3>4, <3>5
  <2>3. QED BY <2>1, <2>2
<1> HIDE DEF All
<1>4. \A i \in k .. end : All(next[i], i)
  <2> DEFINE T == {m \in 0 .. end - k : ~All(next[end - m], end - m)}
  <2>1. SUFFICES T = {}
    <3>1. \A i \in k .. end : end - i \in 0 .. end - k /\ end - (end - i) = i
      OBVIOUS
    <3>2. QED BY <2>1, <3>1
  <2>2. SUFFICES ASSUME T # {} PROVE FALSE
    OBVIOUS
  <2>3. T \in SUBSET Nat
    OBVIOUS
  <2>4. PICK m \in T : \A j \in T : m <= j
    BY <2>2, <2>3, LeastNatural
  <2>5. \A j \in end - m + 1 .. end : All(next[j], j)
    <3> TAKE j \in end - m + 1 .. end
    <3>1. end - j \in 0 .. end - k /\ end - j < m /\ end - (end - j) = j
      BY <2>4
    <3>2. end - j \notin T
      <4>1. m \in Nat /\ end - j \in Nat /\ ~(m <= end - j)
        BY <2>3, <2>4, <3>1
      <4> HIDE DEF T
      <4>2. QED BY <2>4, <4>1
    <3>3. QED BY <3>1, <3>2
  <2>6. end - m \in k .. end
    BY <2>4
  <2>7. All(next[end - m], end - m)
    BY <1>3, <2>5, <2>6
  <2>8. QED BY <2>4, <2>7
<1>5. All(next[k], k)
  BY <1>4
<1>6. QED BY <1>2, <1>5 DEF All

\* What makes a place of an EVTX image one that was found, after a step.
LEMMA EvtxPassed ==
  ASSUME scanner' = "evtx", image' = image, NEW q,
         \/ CellAt(q).is \notin {"chunk", "record"} \/ HeaderAlone(q) \/ RecordCut(q)
         \/ \E kind \in {"file", "chunks"} : \A kinds : kind \in kinds => Within(kinds, q)'
         \/ /\ CellAt(q).is = "record" => \A kinds : "orphan" \in kinds => Within(kinds, q)'
            /\ CellAt(q).is = "chunk" /\ CellAt(q).n > 0 => (q % image.pagesize) % CLUSTER_SIZE # 0
  PROVE  RecordFound(q)'
<1>1. ImageSize' = ImageSize /\ Places' = Places /\ CellAt(q)' = CellAt(q)
  BY DEF ImageSize, Places, CellAt
<1>2. \A x : CellAt(x)' = CellAt(x) /\ PageBound(x)' = PageBound(x) /\ SbufBound(x)' = SbufBound(x)
  BY DEF CellAt, PageBound, SbufBound, PageFirst, ImageSize
<1>3. \A x, y : SamePage(x, y)' = SamePage(x, y)
  BY DEF SamePage
<1>4. HeaderAlone(q)' = HeaderAlone(q) /\ RecordCut(q)' = RecordCut(q)
  BY <1>1, <1>2, <1>3 DEF HeaderAlone, RecordCut
<1>5. EvtxFound(q)'
  BY <1>1, <1>4 DEF EvtxFound
<1>6. scanner' \notin DOMAIN RunOf
  BY DEF RunOf
<1>7. QED BY <1>5, <1>6 DEF RecordFound

\* What is behind a header and is not carved.
LEMMA BehindHeader ==
  ASSUME RecordTyped, ~WalkDone, scanner = "evtx", pos < pagesize, check_evtxheader_signature(pos) > 0,
         NEW q, Ahead(q, pagesize), q # WalkStart + pos,
         \/ check_evtxchunk_signature(pos + CLUSTER_SIZE) < 0 /\ q < WalkStart + (pos + (CLUSTER_SIZE + ELFCHNK_SIZE))
         \/ check_evtxchunk_signature(pos + CLUSTER_SIZE) <= 0 /\ q < WalkStart + (pos + CLUSTER_SIZE)
  PROVE  HeaderAlone(q)
<1> DEFINE p == WalkStart + pos
           first == p + CLUSTER_SIZE
           chunk == IF first < SbufBound(p) /\ CellAt(first).is = "chunk" THEN CellAt(first).n ELSE 0
<1>1. /\ WalkStart \in Nat /\ pagesize \in Nat /\ bufsize \in Nat /\ pos \in Nat
      /\ CLUSTER_SIZE \in Nat /\ ELFCHNK_SIZE \in Nat
  BY InThePage, RecordAssumption DEF RecordTyped
<1>2. p \in Nat /\ WalkStart <= p /\ p < WalkStart + pagesize
  BY <1>1
<1>3. q \in Nat /\ p < q /\ WalkStart <= q /\ q < WalkStart + pagesize
  BY <1>1 DEF Ahead
<1>4. p \in Places /\ SbufBound(p) = WalkStart + bufsize /\ SamePage(p, q)
  <2>1. p \in Places /\ SbufBound(p) = WalkStart + bufsize /\ p \div image.pagesize = page
    BY <1>2, PageOf
  <2>2. q \div image.pagesize = page
    BY <1>3, PageOf
  <2>3. QED BY <2>1, <2>2 DEF SamePage
<1>5. CellAt(p).is = "header" /\ CellAt(p).n > 0
  BY <1>1, Checked DEF check_evtxheader_signature
<1>6. chunk = check_evtxchunk_signature(pos + CLUSTER_SIZE)
  <2> DEFINE k == pos + CLUSTER_SIZE
  <2>1. k \in Nat /\ first = WalkStart + k /\ (first < SbufBound(p) <=> k < bufsize)
    BY <1>1, <1>4
  <2>2. k < bufsize => Cell(k, NoEvtx) = CellAt(first)
    BY <2>1, CellsOf
  <2>3. ~(k < bufsize) => Cell(k, NoEvtx).is = "none"
    BY DEF Cell, NoEvtx
  <2> HIDE DEF k
  <2>4. chunk = Check("chunk", k)
    BY <2>1, <2>2, <2>3 DEF Check
  <2>5. QED BY <2>4 DEF check_evtxchunk_signature, k
<1>7. \/ chunk <= 0 /\ q < first
      \/ chunk < 0 /\ q < first + ELFCHNK_SIZE
  <2>1. WalkStart + (pos + (CLUSTER_SIZE + ELFCHNK_SIZE)) = first + ELFCHNK_SIZE /\ WalkStart + (pos + CLUSTER_SIZE) = first
    BY <1>1
  <2> HIDE DEF chunk, first, p
  <2>2. QED BY <1>6, <2>1
<1>8. QED BY <1>3, <1>4, <1>5, <1>7 DEF HeaderAlone

LEMMA EvtxFilePasses ==
  ASSUME RecordInv, PassedFound, Clusters, EvtxFile
  PROVE  PassedFound' /\ Clusters'
<1>1. /\ scanner = "evtx" /\ ~WalkDone /\ pos \in Nat /\ page \in Nat /\ pos < pagesize /\ RecordTyped
      /\ check_evtxheader_signature(pos) > 0
  BY DEF EvtxFile, In, RecordInv, RecordTyped
<1>2. /\ CLUSTER_SIZE \in Nat /\ ELFCHNK_SIZE \in Nat
      /\ WalkStart \in Nat /\ pagesize \in Nat /\ bufsize \in Nat /\ pagesize <= bufsize
  BY RecordAssumption, InThePage, <1>1
<1> DEFINE chunk == check_evtxchunk_signature(pos + CLUSTER_SIZE)
           chunks == ChunksFrom(pos + CLUSTER_SIZE)
<1>3. pos + CLUSTER_SIZE \in Nat /\ chunks \in Nat /\ chunk \in Int
  BY <1>1, <1>2, ChunksCounted, EvtxCell DEF check_evtxchunk_signature
<1>4. CLUSTER_SIZE + chunks * ELFCHNK_SIZE \in Nat /\ CLUSTER_SIZE + ELFCHNK_SIZE \in Nat
  BY <1>2, <1>3
<1>5. \E total \in Nat :
        /\ memo' = total /\ MoveTo(pos + total) /\ InClusters(total)
        /\ \/ Report("file", pos, total)
           \/ Silent /\ chunk < 0 /\ total = CLUSTER_SIZE + ELFCHNK_SIZE
           \/ Silent /\ chunk <= 0 /\ total = CLUSTER_SIZE
  <2> HIDE DEF chunk, chunks
  <2>1. InClusters(CLUSTER_SIZE + chunks * ELFCHNK_SIZE) /\ InClusters(CLUSTER_SIZE + ELFCHNK_SIZE) /\ InClusters(CLUSTER_SIZE)
    BY <1>3, ClustersAdd
  <2> DEFINE total == CASE chunk > 0 -> CLUSTER_SIZE + chunks * ELFCHNK_SIZE
                        [] chunk < 0 -> CLUSTER_SIZE + ELFCHNK_SIZE
                        [] OTHER -> CLUSTER_SIZE
  <2>2. /\ IF chunk > 0 THEN Report("file", pos, total) ELSE Silent
        /\ memo' = total /\ MoveTo(pos + total)
    BY DEF EvtxFile, chunk, chunks
  <2>3. \/ chunk > 0 /\ total = CLUSTER_SIZE + chunks * ELFCHNK_SIZE
        \/ chunk < 0 /\ total = CLUSTER_SIZE + ELFCHNK_SIZE
        \/ chunk = 0 /\ total = CLUSTER_SIZE
    BY <1>3
  <2> HIDE DEF total
  <2>4. total \in Nat /\ InClusters(total)
    BY <1>2, <1>4, <2>1, <2>3
  <2>5. \/ Report("file", pos, total)
        \/ Silent /\ chunk < 0 /\ total = CLUSTER_SIZE + ELFCHNK_SIZE
        \/ Silent /\ chunk <= 0 /\ total = CLUSTER_SIZE
    BY <1>3, <2>2, <2>3
  <2>6. QED BY <2>2, <2>4, <2>5
<1> HIDE DEF chunk, chunks
<1>6. PICK total \in Nat :
        /\ memo' = total /\ MoveTo(pos + total) /\ InClusters(total)
        /\ \/ Report("file", pos, total)
           \/ Silent /\ chunk < 0 /\ total = CLUSTER_SIZE + ELFCHNK_SIZE
           \/ Silent /\ chunk <= 0 /\ total = CLUSTER_SIZE
  BY <1>5
<1>7. scanner' = "evtx" /\ scanner' = scanner /\ image' = image /\ page' = page /\ pos' = pos + total /\ pos' \in Nat
  BY <1>1, <1>6 DEF MoveTo
<1>8. Clusters'
  <2>1. InClusters(pos + total)
    BY <1>1, <1>6, ClustersAdd DEF Clusters
  <2>2. InClusters(pos') /\ InClusters(memo')
    BY <1>6, <1>7, <2>1
  <2>3. QED BY <2>2 DEF Clusters, InClusters
<1>9. CASE Report("file", pos, total)
  <2>1. ASSUME NEW q, Ahead(q, pos') PROVE RecordFound(q)'
    <3>1. q \in Nat /\ WalkStart + pos <= q /\ q < WalkStart + (pos + total) /\ q < WalkStart + bufsize
      BY <1>1, <1>2, <1>7, <2>1 DEF Ahead
    <3>2. \A kinds : "file" \in kinds => Within(kinds, q)'
      BY <1>1, <1>9, <3>1, ReportCovers
    <3>3. QED BY <1>7, <3>2, EvtxPassed
  <2>2. "file" \in Kinds
    BY DEF Kinds
  <2>3. PICK new \in Seq(Carving) : reports' = reports \o new
    BY <1>1, <1>9, <2>2, OneNew
  <2>4. PassedFound'
    BY <1>1, <1>7, <2>1, <2>3, FoundKeeps DEF Ahead
  <2>5. QED BY <1>8, <2>4
<1>10. CASE ~Report("file", pos, total)
  <2>1. ASSUME NEW q, Ahead(q, pos') PROVE RecordFound(q)'
    <3>1. Ahead(q, pagesize)
      BY <2>1 DEF Ahead
    <3>2. CASE q = WalkStart + pos
      <4>1. CellAt(q).is = "header"
        BY <1>1, <3>2, Checked DEF check_evtxheader_signature
      <4>2. QED BY <1>7, <4>1, EvtxPassed
    <3>3. CASE q # WalkStart + pos
      <4>1. q < WalkStart + (pos + total)
        BY <1>7, <2>1 DEF Ahead
      <4>2. HeaderAlone(q)
        BY <1>1, <1>6, <1>10, <3>1, <3>3, <4>1, BehindHeader DEF chunk
      <4>3. QED BY <1>7, <4>2, EvtxPassed
    <3>4. QED BY <3>2, <3>3
  <2>2. Silent
    BY <1>6, <1>10
  <2>3. PassedFound'
    BY <1>1, <1>7, <2>1, <2>2, NothingNew, FoundKeeps DEF Ahead
  <2>4. QED BY <1>8, <2>3
<1>11. QED BY <1>9, <1>10

LEMMA EvtxChunksPasses ==
  ASSUME RecordInv, PassedFound, Clusters, EvtxChunks
  PROVE  PassedFound' /\ Clusters'
<1>1. scanner = "evtx" /\ ~WalkDone /\ pos \in Nat /\ page \in Nat /\ memo \in Nat /\ pos < pagesize /\ RecordTyped
  BY DEF EvtxChunks, In, RecordInv, RecordTyped
<1>2. /\ ELFCHNK_SIZE \in Nat /\ ChunksFrom(pos + memo) \in Nat
      /\ WalkStart \in Nat /\ pagesize \in Nat /\ bufsize \in Nat /\ pagesize <= bufsize
  BY <1>1, ChunksCounted, InThePage, RecordAssumption
<1> DEFINE total == memo + ChunksFrom(pos + memo) * ELFCHNK_SIZE
<1>3. total \in Nat
  BY <1>1, <1>2
<1>4. InClusters(total)
  BY <1>1, <1>2, ClustersAdd DEF Clusters
<1>5. Report("chunks", pos, total) /\ memo' = total /\ MoveTo(pos + total)
  BY DEF EvtxChunks
<1> HIDE DEF total
<1>6. scanner' = "evtx" /\ scanner' = scanner /\ image' = image /\ page' = page /\ pos' = pos + total /\ pos' \in Nat
  BY <1>1, <1>3, <1>5 DEF MoveTo
<1>7. Clusters'
  <2>1. InClusters(pos + total)
    BY <1>1, <1>4, ClustersAdd DEF Clusters
  <2>2. InClusters(pos') /\ InClusters(memo')
    BY <1>4, <1>5, <1>6, <2>1
  <2>3. QED BY <2>2 DEF Clusters, InClusters
<1>8. ASSUME NEW q, Ahead(q, pos') PROVE RecordFound(q)'
  <2>1. q \in Nat /\ WalkStart + pos <= q /\ q < WalkStart + (pos + total) /\ q < WalkStart + bufsize
    BY <1>1, <1>2, <1>6, <1>8 DEF Ahead
  <2>2. \A kinds : "chunks" \in kinds => Within(kinds, q)'
    BY <1>1, <1>3, <1>5, <2>1, ReportCovers
  <2>3. QED BY <1>6, <2>2, EvtxPassed
<1>9. "chunks" \in Kinds
  BY DEF Kinds
<1>10. PICK new \in Seq(Carving) : reports' = reports \o new
  BY <1>1, <1>3, <1>5, <1>9, OneNew
<1>11. PassedFound'
  BY <1>1, <1>6, <1>8, <1>10, FoundKeeps DEF Ahead
<1>12. QED BY <1>7, <1>11

\* A place of the page with a record in it, behind one that is cut off.
LEMMA BehindCut ==
  ASSUME RecordTyped, ~WalkDone, scanner = "evtx", NEW q, Ahead(q, pagesize),
         NEW a \in Nat, pos <= a, WalkStart + a <= q, RecordThrows(a)
  PROVE  RecordCut(q)
<1> DEFINE p == WalkStart + a
<1>1. /\ WalkStart \in Nat /\ pagesize \in Nat /\ bufsize \in Nat /\ pos \in Nat
      /\ q \in Nat /\ q < WalkStart + pagesize
  BY InThePage DEF RecordTyped, Ahead
<1>2. p \in Nat /\ WalkStart <= p /\ p < WalkStart + pagesize /\ WalkStart <= q
  BY <1>1
<1>3. p \in Places /\ SbufBound(p) = WalkStart + bufsize /\ SamePage(p, q)
  <2>1. p \in Places /\ SbufBound(p) = WalkStart + bufsize /\ p \div image.pagesize = page
    BY <1>2, PageOf
  <2>2. q \div image.pagesize = page
    BY <1>1, <1>2, PageOf
  <2>3. QED BY <2>1, <2>2 DEF SamePage
<1> DEFINE n == Check("record", a)
<1>4. n > 0 /\ a + n > bufsize
  BY DEF RecordThrows
<1>5. n \in Nat /\ CellAt(p).is = "record" /\ CellAt(p).n = n
  BY <1>4, Checked, EvtxCell
<1> HIDE DEF n
<1>6. p + n > SbufBound(p)
  BY <1>1, <1>3, <1>4, <1>5
<1>7. QED BY <1>3, <1>5, <1>6 DEF RecordCut

\* A record that begins in the sbuf is one the check of a record's signature finds.
LEMMA RecordAt ==
  ASSUME RecordTyped, ~WalkDone, scanner = "evtx", NEW d \in Nat, d < bufsize, CellAt(WalkStart + d).is = "record"
  PROVE  check_evtxrecord_signature(d) > 0
<1> DEFINE Cells == {NoEvtx} \cup [is : {"header", "chunk"}, n : Int] \cup [is : {"record"}, n : Nat \ {0}]
<1>1. RecordCells["evtx"] = Cells
  BY DEF RecordCells, RecordScanners
<1>2. image.cells \in Seq(Cells)
  BY <1>1 DEF RecordTyped, RecordImages
<1> HIDE DEF Cells
<1>3. WalkStart \in Nat /\ bufsize \in Nat /\ WalkStart + bufsize <= Len(image.cells)
  BY InThePage DEF ImageSize
<1>4. WalkStart + d + 1 \in 1 .. Len(image.cells)
  BY <1>2, <1>3
<1> DEFINE c == CellAt(WalkStart + d)
<1>5. c \in Cells
  BY <1>2, <1>4 DEF CellAt
<1>6. Cell(d, NoEvtx) = c
  BY CellsOf
<1> HIDE DEF c
<1>7. c.is = "record"
  BY DEF c
<1>8. c.n \in Nat \ {0}
  BY <1>5, <1>7 DEF Cells, NoEvtx
<1>9. QED BY <1>6, <1>7, <1>8 DEF check_evtxrecord_signature, Check

LEMMA EvtxClusterPasses ==
  ASSUME RecordInv, PassedFound, Clusters, EvtxCluster
  PROVE  PassedFound' /\ Clusters'
<1>1. /\ scanner = "evtx" /\ ~WalkDone /\ pos \in Nat /\ page \in Nat /\ memo \in Nat /\ pos < pagesize /\ RecordTyped
      /\ check_evtxchunk_signature(pos) <= 0
  BY DEF EvtxCluster, In, RecordInv, RecordTyped
<1>2. /\ CLUSTER_SIZE \in Nat \ {0} /\ WalkStart \in Nat /\ bufsize \in Nat /\ pagesize \in Nat /\ pagesize <= bufsize
      /\ reports \in Seq(Carving)
  BY <1>1, RecordAssumption, InThePage DEF RecordTyped
<1> DEFINE end == pos + CLUSTER_SIZE
           found == Orphans(pos, end)
           O == InRun(pos, end)
<1>3. /\ found \in Seq(O) /\ \A i \in DOMAIN found : ReadOut(found[i]) \/ (i = Len(found) /\ CutOff(found[i]))
      /\ \A q \in pos .. end - 1 : check_evtxrecord_signature(q) > 0 => Reached(found, q)
  <2>1. end \in Nat /\ pos <= end
    BY <1>1, <1>2
  <2>2. found \in Runs(pos, end)
    BY <1>1, <2>1, OrphansFound, SMTT(30)
  <2>3. QED BY <1>1, <2>1, <2>2, OrphansReach DEF Runs
<1> DEFINE thrown == found # <<>> /\ found[Len(found)].n = 0
           kept == IF thrown THEN SubSeq(found, 1, Len(found) - 1) ELSE found
           new == [i \in DOMAIN kept |-> Slice("orphan", kept[i].at, kept[i].n)]
<1>4. reports' = reports \o new /\ IF thrown THEN LeavePage ELSE MoveTo(end) /\ UNCHANGED memo
  BY DEF EvtxCluster
<1> HIDE DEF found
<1>5. \A o \in O : o.at \in Nat /\ pos <= o.at /\ o.n \in Nat /\ check_evtxrecord_signature(o.at) > 0
  <2>1. end \in Nat
    BY <1>1, <1>2
  <2>2. QED BY <1>1, <2>1 DEF InRun
<1>6. \A i \in DOMAIN found : found[i] \in O /\ (found[i].n = 0 => i = Len(found) /\ CutOff(found[i]))
  <2> HIDE DEF O
  <2> SUFFICES ASSUME NEW i \in DOMAIN found
               PROVE  found[i] \in O /\ (found[i].n = 0 => i = Len(found) /\ CutOff(found[i]))
    OBVIOUS
  <2>1. found[i] \in O
    BY <1>3
  <2>2. ReadOut(found[i]) => found[i].n > 0
    BY <1>5, <2>1 DEF ReadOut
  <2>3. QED BY <1>3, <2>1, <2>2
<1> HIDE DEF O
<1>7. \A i \in DOMAIN found : found[i].n > 0 => i \in DOMAIN kept /\ kept[i] = found[i]
  <2> SUFFICES ASSUME NEW i \in DOMAIN found, found[i].n > 0 PROVE i \in DOMAIN kept /\ kept[i] = found[i]
    OBVIOUS
  <2>1. CASE thrown
    <3>1. i # Len(found)
      BY <2>1
    <3>2. i \in 1 .. Len(found) - 1 /\ Len(found) \in Nat
      BY <1>3, <3>1
    <3>3. kept = SubSeq(found, 1, Len(found) - 1)
      BY <2>1
    <3> HIDE DEF kept
    <3>4. QED BY <1>3, <3>2, <3>3
  <2>2. QED BY <2>1
<1>8. kept \in Seq(O) /\ new \in Seq(Carving)
  <2>1. kept \in Seq(O)
    <3>1. CASE thrown
      <4>1. Len(found) \in Nat /\ Len(found) - 1 <= Len(found)
        BY <1>3
      <4>2. SubSeq(found, 1, Len(found) - 1) \in Seq(O)
        BY <1>3, <4>1
      <4>3. QED BY <3>1, <4>2
    <3>2. QED BY <1>3, <3>1
  <2> HIDE DEF kept
  <2>2. DOMAIN kept = 1 .. Len(kept) /\ Len(kept) \in Nat /\ \A i \in DOMAIN kept : kept[i] \in O
    BY <2>1
  <2>3. \A i \in DOMAIN kept : Slice("orphan", kept[i].at, kept[i].n) \in Carving
    <3> TAKE i \in DOMAIN kept
    <3> DEFINE a == kept[i].at
               n == kept[i].n
    <3>1. a \in Nat /\ n \in Nat
      BY <1>5, <2>2
    <3> HIDE DEF a, n
    <3>2. Slice("orphan", a, n) \in Carving
      BY <1>2, <3>1 DEF Slice, Least, Carving, Kinds
    <3>3. QED BY <3>2 DEF a, n
  <2>4. new \in [1 .. Len(kept) -> Carving]
    BY <2>2, <2>3
  <2> HIDE DEF new
  <2>5. QED BY <2>1, <2>2, <2>4
<1> HIDE DEF kept
\* A record that was read out is carved.
<1>9. ASSUME NEW j \in DOMAIN kept, NEW q, Ahead(q, pagesize), kept[j].n > 0, ReadOut(kept[j]),
             WalkStart + kept[j].at <= q, q < WalkStart + (kept[j].at + kept[j].n)
      PROVE  \A kinds : "orphan" \in kinds => Within(kinds, q)'
  <2> DEFINE a == kept[j].at
             n == kept[j].n
             r == new[j]
  <2>1. a \in Nat /\ n \in Nat /\ check_evtxrecord_signature(a) > 0 /\ n = check_evtxrecord_signature(a)
    BY <1>5, <1>8, <1>9 DEF ReadOut
  <2>2. a + n <= bufsize
    <3>1. ~(a + n > bufsize)
      BY <1>9, <2>1 DEF ReadOut, RecordThrows, check_evtxrecord_signature
    <3>2. QED BY <1>2, <2>1, <3>1
  <2>3. r = Slice("orphan", a, n)
    OBVIOUS
  <2> HIDE DEF a, n
  <2>4. Least(a + n, bufsize) = a + n
    BY <1>2, <2>1, <2>2 DEF Least
  <2>5. r.kind = "orphan" /\ r.from = WalkStart + a /\ r.to = WalkStart + (a + n)
    BY <2>3, <2>4 DEF Slice
  <2>6. j \in DOMAIN new /\ new \in Seq(Carving) /\ r = new[j]
    BY <1>8
  <2> HIDE DEF new, r
  <2>7. Len(reports) + j \in DOMAIN reports' /\ reports'[Len(reports) + j] = r
    BY <1>2, <1>4, <2>6
  <2>8. r.from <= q /\ q + 1 <= r.to
    BY <1>2, <1>9, <2>1, <2>5 DEF Ahead, a, n
  <2>9. QED BY <2>5, <2>7, <2>8 DEF Within, Covered
<1> HIDE DEF new
<1>10. scanner' = "evtx" /\ scanner' = scanner /\ image' = image
  BY <1>1, <1>4 DEF LeavePage, MoveTo
<1>11. ASSUME NEW q, Ahead(q, pagesize), q < WalkStart + end PROVE RecordFound(q)'
  <2> DEFINE d == q - WalkStart
  <2>1. q \in Nat /\ d \in Nat /\ q = WalkStart + d /\ d \in pos .. end - 1 /\ d < pagesize /\ d < bufsize
    BY <1>1, <1>2, <1>11 DEF Ahead
  <2>2. CASE CellAt(q).is \notin {"chunk", "record"}
    BY <1>10, <2>2, EvtxPassed
  <2>3. CASE CellAt(q).is = "chunk"
    <3>1. CellAt(q).n > 0 => (q % image.pagesize) % CLUSTER_SIZE # 0
      <4> SUFFICES ASSUME CellAt(q).n > 0, (q % image.pagesize) % CLUSTER_SIZE = 0 PROVE FALSE
        OBVIOUS
      <4>1. q % image.pagesize = d
        BY <1>1, <1>2, <2>1, PageOf
      <4>2. pos <= d /\ d < pos + CLUSTER_SIZE
        BY <1>1, <1>2, <2>1
      <4>3. pos = d
        BY <1>1, <2>1, <4>1, <4>2, OneCluster DEF Clusters
      <4>4. Cell(pos, NoEvtx) = CellAt(q)
        BY <1>1, <2>1, <4>3, CellsOf
      <4>5. check_evtxchunk_signature(pos) > 0
        BY <2>3, <4>4 DEF check_evtxchunk_signature, Check
      <4>6. check_evtxchunk_signature(pos) \in Int
        BY <1>1, EvtxCell DEF check_evtxchunk_signature
      <4>7. QED BY <1>1, <4>5, <4>6
    <3>2. QED BY <1>10, <2>3, <3>1, EvtxPassed
  <2>4. CASE CellAt(q).is = "record"
    <3>1. check_evtxrecord_signature(d) > 0
      BY <1>1, <2>1, <2>4, RecordAt
    <3>2. PICK j \in DOMAIN found : found[j].at <= d /\ (CutOff(found[j]) \/ d < found[j].at + found[j].n)
      BY <1>3, <2>1, <3>1 DEF Reached
    <3> DEFINE a == found[j].at
               n == found[j].n
    <3>3. a \in Nat /\ pos <= a /\ n \in Nat
      BY <1>5, <1>6
    <3>4. WalkStart + a <= q
      BY <1>2, <2>1, <3>2, <3>3
    <3>5. CASE n = 0
      <4>1. RecordThrows(a)
        BY <1>6, <3>5 DEF CutOff
      <4>2. RecordCut(q)
        BY <1>1, <1>11, <3>3, <3>4, <4>1, BehindCut
      <4>3. QED BY <1>10, <4>2, EvtxPassed
    <3>6. CASE n # 0
      <4>1. n > 0 /\ ~CutOff(found[j])
        BY <3>3, <3>6 DEF CutOff
      <4>2. j \in DOMAIN kept /\ kept[j] = found[j] /\ ReadOut(kept[j])
        BY <1>3, <1>7, <4>1
      <4>3. q < WalkStart + (a + n)
        BY <1>2, <2>1, <3>2, <3>3, <4>1
      <4>4. \A kinds : "orphan" \in kinds => Within(kinds, q)'
        BY <1>9, <1>11, <3>4, <4>1, <4>2, <4>3
      <4>5. QED BY <1>10, <2>4, <4>4, EvtxPassed
    <3>7. QED BY <3>5, <3>6
  <2>5. QED BY <2>2, <2>3, <2>4
<1>12. CASE thrown
  <2>1. page' = page + 1 /\ pos' = 0 /\ memo' = 0
    BY <1>4, <1>12 DEF LeavePage
  <2> DEFINE last == found[Len(found)]
  <2>2. Len(found) \in DOMAIN found
    BY <1>3, <1>12
  <2>3. last \in O /\ CutOff(last)
    BY <1>6, <1>12, <2>2
  <2>4. last.at \in Nat /\ pos <= last.at /\ RecordThrows(last.at) /\ last.at < end
    <3>1. last.at \in Nat /\ pos <= last.at /\ RecordThrows(last.at)
      BY <1>5, <2>3 DEF CutOff
    <3>2. last.at \in pos .. end - 1
      BY <2>3 DEF O, InRun
    <3>3. QED BY <1>1, <1>2, <3>1, <3>2
  <2> HIDE DEF last
  <2>5. ASSUME NEW q, Ahead(q, pagesize) PROVE RecordFound(q)'
    <3>1. CASE q < WalkStart + end
      BY <1>11, <2>5, <3>1
    <3>2. CASE ~(q < WalkStart + end)
      <4>1. WalkStart + last.at <= q
        BY <1>1, <1>2, <2>4, <2>5, <3>2 DEF Ahead
      <4>2. RecordCut(q)
        BY <1>1, <2>4, <2>5, <4>1, BehindCut
      <4>3. QED BY <1>10, <4>2, EvtxPassed
    <3>3. QED BY <3>1, <3>2
  <2>6. PassedFound'
    BY <1>1, <1>4, <1>8, <1>10, <2>1, <2>5, FoundKeeps DEF Ahead
  <2>7. InClusters(pos') /\ InClusters(memo')
    BY <2>1, ClustersAdd
  <2>8. QED BY <2>6, <2>7 DEF Clusters, InClusters
<1>13. CASE ~thrown
  <2>1. page' = page /\ pos' = end /\ memo' = memo /\ pos' \in Nat
    BY <1>1, <1>2, <1>4, <1>13 DEF MoveTo
  <2>2. ASSUME NEW q, Ahead(q, pos') PROVE RecordFound(q)'
    BY <1>11, <2>1, <2>2 DEF Ahead
  <2>3. PassedFound'
    BY <1>1, <1>4, <1>8, <1>10, <2>1, <2>2, FoundKeeps DEF Ahead
  <2>4. InClusters(pos + CLUSTER_SIZE) /\ InClusters(memo)
    BY <1>1, ClustersAdd DEF Clusters
  <2>5. InClusters(pos') /\ InClusters(memo')
    BY <2>1, <2>4
  <2>6. QED BY <2>3, <2>5 DEF Clusters, InClusters
<1>14. QED BY <1>12, <1>13

LEMMA EvtxEndPasses ==
  ASSUME RecordInv, PassedFound, Clusters, EvtxEnd
  PROVE  PassedFound' /\ Clusters'
<1>1. /\ ~WalkDone /\ pos \in Nat /\ pos >= pagesize /\ RecordTyped /\ Silent
      /\ scanner' = scanner /\ image' = image /\ page' = page + 1 /\ pos' = 0 /\ memo' = 0
  BY DEF EvtxEnd, In, LeavePage, RecordInv, RecordTyped
<1>2. \A q : ~Ahead(q, pagesize)
  <2>1. WalkStart \in Nat /\ pagesize \in Nat
    BY <1>1, InThePage
  <2>2. QED BY <1>1, <2>1 DEF Ahead
<1>3. PassedFound'
  BY <1>1, <1>2, NothingNew, FoundKeeps DEF Ahead
<1>4. InClusters(pos') /\ InClusters(memo')
  BY <1>1, ClustersAdd
<1>5. QED BY <1>3, <1>4 DEF Clusters, InClusters

FoundInv == RecordInv /\ PassedFound /\ Clusters

LEMMA InitFound == ASSUME RecordInit PROVE FoundInv
<1>1. page = 0 /\ pos = 0 /\ memo = 0 /\ image.pagesize \in Nat
  BY DEF RecordInit, WalkInit, RecordImages
<1>2. WalkStart = 0
  BY <1>1 DEF WalkStart
<1>3. \A q \in Places : ~Passed(q)
  BY <1>1, <1>2 DEF Places, Passed
<1>4. Clusters
  BY <1>1, ClustersAdd DEF Clusters
<1>5. QED BY <1>3, <1>4, InitRecord DEF FoundInv, PassedFound

LEMMA NextFound == ASSUME FoundInv, [RecordStep]_walk_vars PROVE FoundInv'
<1>1. RecordInv'
  BY NextRecord DEF FoundInv
<1>2. CASE UtmpStep \/ NtfsStep \/ UsnFirst \/ UsnNext
  <2>1. PassedFound'
    BY <1>2, UtmpPasses, NtfsPasses, UsnFirstPasses, UsnNextPasses DEF FoundInv
  <2>2. scanner' = scanner /\ scanner # "evtx"
    BY <1>2 DEF UtmpStep, NtfsStep, NtfsRun, NtfsAlone, In, RunOf, UsnFirst, UsnNext, UsnCarve, LeavePage, MoveTo
  <2>3. QED BY <1>1, <2>1, <2>2 DEF FoundInv, Clusters
<1>3. CASE EvtxStep
  <2>1. PassedFound' /\ Clusters'
    BY <1>3, EvtxFilePasses, EvtxChunksPasses, EvtxClusterPasses, EvtxEndPasses DEF FoundInv, EvtxStep
  <2>2. QED BY <1>1, <2>1 DEF FoundInv
<1>4. CASE UNCHANGED walk_vars
  <2>1. UNCHANGED <<scanner, image, page, pos, memo, reports>>
    BY <1>4 DEF walk_vars
  <2>2. << >> \in Seq(Carving) /\ reports' = reports \o << >> /\ RecordTyped
    BY <2>1, NothingNew DEF Silent, FoundInv, RecordInv
  <2>3. \A q : RecordFound(q) => RecordFound(q)'
    BY <2>1, <2>2, FoundStays
  <2>4. WalkStart' = WalkStart /\ pagesize' = pagesize /\ Places' = Places
    BY <2>1 DEF WalkStart, pagesize, ImageSize, Least, Places
  <2>5. PassedFound'
    BY <2>1, <2>3, <2>4 DEF FoundInv, PassedFound, Passed
  <2>6. Clusters'
    BY <2>1 DEF FoundInv, Clusters, InClusters
  <2>7. QED BY <1>1, <2>5, <2>6 DEF FoundInv
<1>5. QED BY <1>2, <1>3, <1>4 DEF RecordStep

\* RecordsFound, a part of ReportsFound: over any image, the scanners of records pass over no
\* record but those the code cannot see from its page, which the definition lists.
THEOREM RecordsAllFound == RecordSpec => []RecordsFound
<1>1. FoundInv => RecordsFound
  <2> SUFFICES ASSUME FoundInv, WalkDone, NEW q \in Places PROVE RecordFound(q)
    BY DEF RecordsFound
  <2>1. q < WalkStart
    <3>1. ImageSize \in Nat /\ WalkStart \in Nat
      <4>1. image.cells \in Seq(RecordCells[scanner]) /\ image.pagesize \in Nat /\ page \in Nat
        BY DEF FoundInv, RecordInv, RecordTyped, RecordImages
      <4>2. QED BY <4>1 DEF ImageSize, WalkStart
    <3>2. QED BY <3>1 DEF WalkDone, Places
  <2>2. QED BY <2>1 DEF FoundInv, PassedFound, Passed
<1>2. QED BY <1>1, InitFound, NextFound, PTL DEF RecordSpec

-----------------------------------------------------------------------------
(* scan_find: what a pattern matches is found whole, and as often as the   *)
(* page has pieces                                                         *)

FindImage ==
  image.cells \in Seq(STRING) /\ image.pagesize \in Nat \ {0} /\ image.margin \in Nat /\ image.empty \in BOOLEAN
FindInit == WalkInit /\ scanner = "find" /\ FindImage
FindSpec == FindInit /\ [][FindStep]_walk_vars

FindTyped ==
  /\ scanner = "find" /\ FindImage /\ page \in Nat /\ pos \in Nat /\ memo \in Nat
  /\ reports \in Seq([kind : {"find"}, from : Nat, to : Nat])
\* The place the search goes on from is in the middle of no match.
HitAt(k) == Cell(k, "0") = "hit"
BetweenHits == ~WalkDone /\ pos > 0 /\ pos < bufsize => ~HitAt(pos - 1) \/ ~HitAt(pos)
\* The piece before began in the page, and behind the last piece the page ends.
InItsPiece ==
  ~WalkDone => /\ memo > 0 => (memo - 1) * local_opt_pagesize < pagesize
               /\ PieceStart >= pagesize => pos = 0
\* How often a match at q should have been found by now.
Turn(q) == IF q < WalkStart + pos THEN 1 ELSE 0
FoundSoFar(q) ==
  IF q < WalkStart THEN Pieces(q) ELSE IF q >= WalkStart + pagesize THEN 0 ELSE memo + Turn(q)
Counted ==
  \A a \in Places : \A b \in a + 1 .. SbufBound(a) : WholeMatch(a, b) => FoundTimes(a, b) = FoundSoFar(a)
FindInv == FindTyped /\ BetweenHits /\ FindSound /\ InItsPiece /\ Counted

LEMMA FindWalks ==
  ASSUME FindTyped
  PROVE  Walking /\ ImageSize = Len(image.cells)
  BY DEF FindTyped, FindImage, Walking, ImageSize

\* The least of some places.
LEMMA LeastOf ==
  ASSUME NEW T \in SUBSET Nat, T # {}
  PROVE  Min(T) \in T /\ \A y \in T : Min(T) <= y
  BY LeastNatural DEF Min

\* Where the text that is searched ends.
LEMMA TextEnds ==
  ASSUME FindTyped, ~WalkDone, pos <= bufsize
  PROVE  /\ TextStop \in pos .. bufsize
         /\ \A k \in pos .. bufsize - 1 : HitAt(k) => k # TextStop
         /\ Zeros # {} => TextStop < bufsize
         /\ TextStop < bufsize => ~HitAt(TextStop)
<1>1. bufsize \in Nat /\ pos \in Nat
  BY FindWalks, InWalk DEF FindTyped
<1>2. CASE Zeros = {}
  BY <1>1, <1>2 DEF TextStop
<1>3. CASE Zeros # {}
  <2>1. Zeros \in SUBSET Nat
    BY <1>1 DEF Zeros
  <2>2. TextStop \in Zeros
    BY <1>3, <2>1, LeastOf DEF TextStop
  <2>3. QED BY <1>1, <2>2 DEF Zeros, HitAt
<1>4. QED BY <1>2, <1>3

\* The match that is found next, from its first cell to its last, and none before it.
LEMMA NextMatch ==
  ASSUME FindTyped, ~WalkDone, pos <= bufsize, Hits # {}, NEW k, k = Min(Hits), NEW n, n = HitEnd(k)
  PROVE  /\ k \in pos .. bufsize - 1 /\ n \in k + 1 .. bufsize
         /\ \A j \in k .. n - 1 : HitAt(j)
         /\ n < bufsize => ~HitAt(n)
         /\ \A j \in pos .. k - 1 : ~HitAt(j)
<1>1. bufsize \in Nat /\ pos \in Nat
  BY FindWalks, InWalk DEF FindTyped
<1>2. TextStop \in pos .. bufsize /\ (TextStop < bufsize => ~HitAt(TextStop))
  BY TextEnds
<1>3. Hits \in SUBSET Nat
  BY <1>1, <1>2 DEF Hits
<1>4. k \in Hits /\ \A j \in Hits : k <= j
  BY <1>3, LeastOf
<1>5. k \in pos .. TextStop - 1 /\ HitAt(k)
  BY <1>4 DEF Hits, HitAt
<1> DEFINE Ends == {e \in k + 1 .. TextStop : e = TextStop \/ Cell(e, "0") # "hit"}
<1>6. Ends \in SUBSET Nat /\ TextStop \in Ends
  BY <1>1, <1>2, <1>5
<1>7. n \in Ends /\ \A e \in Ends : n <= e
  BY <1>6, LeastOf DEF HitEnd
<1>8. n \in k + 1 .. TextStop /\ (n = TextStop \/ ~HitAt(n))
  BY <1>7 DEF HitAt
<1>9. ASSUME NEW j \in k .. n - 1 PROVE HitAt(j)
  <2>1. CASE j = k
    BY <1>5, <2>1
  <2>2. CASE j # k
    <3>1. j \in k + 1 .. TextStop /\ j < n
      BY <1>1, <1>2, <1>5, <1>8, <1>9, <2>2
    <3>2. j \notin Ends
      BY <1>1, <1>2, <1>7, <1>8, <3>1
    <3>3. QED BY <3>1, <3>2 DEF HitAt
  <2>3. QED BY <2>1, <2>2
<1>10. ASSUME NEW j \in pos .. k - 1 PROVE ~HitAt(j)
  <2>1. j \in pos .. TextStop - 1 /\ ~(k <= j)
    BY <1>1, <1>2, <1>5, <1>10
  <2>2. j \notin Hits
    BY <1>4, <2>1
  <2>3. QED BY <2>1, <2>2 DEF Hits, HitAt
<1>11. k \in pos .. bufsize - 1 /\ n \in k + 1 .. bufsize /\ (n < bufsize => ~HitAt(n))
  BY <1>1, <1>2, <1>5, <1>8
<1>12. QED BY <1>9, <1>10, <1>11

\* A cell of the sbuf is a cell of the image.
LEMMA HitsHere ==
  ASSUME FindTyped, ~WalkDone
  PROVE  \A k \in 0 .. bufsize - 1 : HitAt(k) <=> IsHit(WalkStart + k)
<1>1. bufsize \in Nat
  BY FindWalks, InWalk
<1>2. ASSUME NEW k \in 0 .. bufsize - 1 PROVE Cell(k, "0") = CellAt(WalkStart + k)
  BY <1>1, <1>2 DEF Cell, CellAt
<1>3. QED BY <1>2 DEF HitAt, IsHit

\* What the report of a match adds to the count of it, and to no other.
LEMMA OneMore ==
  ASSUME NEW k \in Nat, NEW n \in Nat, reports \in Seq([kind : {"find"}, from : Nat, to : Nat]),
         reports' = reports \o << [kind |-> "find", from |-> k, to |-> n] >>, NEW a, NEW b
  PROVE  /\ a = k /\ b = n => FoundTimes(a, b)' = FoundTimes(a, b) + 1
         /\ ~(a = k /\ b = n) => FoundTimes(a, b)' = FoundTimes(a, b)
<1> DEFINE R == [kind : {"find"}, from : Nat, to : Nat]
           r == [kind |-> "find", from |-> k, to |-> n]
           T == {i \in DOMAIN reports : reports[i].from = a /\ reports[i].to = b}
           U == {i \in DOMAIN reports' : reports'[i].from = a /\ reports'[i].to = b}
           last == Len(reports) + 1
<1>1. /\ Len(reports) \in Nat /\ DOMAIN reports = 1 .. Len(reports) /\ DOMAIN reports' = 1 .. last
      /\ \A i \in 1 .. Len(reports) : reports'[i] = reports[i]
      /\ reports'[last] = r
  OBVIOUS
<1>2. IsFiniteSet(T) /\ last \notin T
  <2>1. IsFiniteSet(1 .. Len(reports))
    BY <1>1, FS_Interval
  <2>2. T \subseteq 1 .. Len(reports)
    BY <1>1
  <2>3. QED BY <1>1, <2>1, <2>2, FS_Subset
<1>3. Cardinality(T) \in Nat
  BY <1>2, FS_CardinalityType
<1>4. CASE a = k /\ b = n
  <2>1. U = T \cup {last}
    BY <1>1, <1>4
  <2>2. Cardinality(T \cup {last}) = Cardinality(T) + 1
    BY <1>2, FS_AddElement
  <2>3. Cardinality(U) = Cardinality(T) + 1
    BY <2>1, <2>2
  <2>4. QED BY <1>4, <2>3 DEF FoundTimes
<1>5. CASE ~(a = k /\ b = n)
  <2>1. U = T
    BY <1>1, <1>5
  <2>2. QED BY <1>5, <2>1 DEF FoundTimes
<1>6. QED BY <1>4, <1>5

\* The numbers of the page of a search.
LEMMA InFind ==
  ASSUME FindTyped, ~WalkDone
  PROVE  /\ ImageSize \in Nat /\ WalkStart \in Nat /\ pagesize \in Nat /\ bufsize \in Nat
         /\ 0 < pagesize /\ pagesize <= bufsize /\ WalkStart + bufsize <= ImageSize
         /\ pos \in Nat /\ memo \in Nat /\ page \in Nat /\ local_opt_pagesize \in Nat \ {0}
         /\ \A q \in Nat : WalkStart <= q /\ q < WalkStart + pagesize =>
              PageFirst(q) = WalkStart /\ PageBound(q) = WalkStart + pagesize /\ SbufBound(q) = WalkStart + bufsize
<1>1. Walking
  BY FindWalks
<1>2. QED BY <1>1, InWalk, FindAssumption DEF FindTyped

\* What the properties say of a place does not change while the image does not.
LEMMA PlacesStay ==
  ASSUME image' = image
  PROVE  /\ ImageSize' = ImageSize /\ Places' = Places
         /\ \A q : PageFirst(q)' = PageFirst(q) /\ SbufBound(q)' = SbufBound(q) /\ Pieces(q)' = Pieces(q)
         /\ \A a, b : WholeMatch(a, b)' = WholeMatch(a, b)
<1>1. /\ ImageSize' = ImageSize /\ Places' = Places
      /\ \A q : PageFirst(q)' = PageFirst(q) /\ PageBound(q)' = PageBound(q)
      /\ \A q : SbufBound(q)' = SbufBound(q) /\ IsHit(q)' = IsHit(q)
  BY DEF ImageSize, Places, PageFirst, PageBound, SbufBound, IsHit, CellAt
<1>2. \A q : Pieces(q)' = Pieces(q)
  BY <1>1 DEF Pieces
<1>3. \A a, b : WholeMatch(a, b)' = WholeMatch(a, b)
  BY <1>1 DEF WholeMatch
<1>4. QED BY <1>1, <1>2, <1>3

\* A whole match that begins in the page, from the place looked at to the end of the next
\* match on, is that match.
LEMMA TheMatch ==
  ASSUME FindTyped, BetweenHits, ~WalkDone, pos <= bufsize, Hits # {}, NEW k, k = Min(Hits), NEW n, n = HitEnd(k)
  PROVE  /\ k < pagesize => WholeMatch(WalkStart + k, WalkStart + n)
         /\ \A a \in Places : \A b \in a + 1 .. SbufBound(a) :
              WholeMatch(a, b) /\ WalkStart + pos <= a /\ a < WalkStart + pagesize /\ a < WalkStart + n =>
                a = WalkStart + k /\ b = WalkStart + n
<1>1. /\ k \in pos .. bufsize - 1 /\ n \in k + 1 .. bufsize /\ \A j \in k .. n - 1 : HitAt(j)
      /\ n < bufsize => ~HitAt(n)
      /\ \A j \in pos .. k - 1 : ~HitAt(j)
  BY NextMatch
<1>2. /\ WalkStart \in Nat /\ pagesize \in Nat /\ bufsize \in Nat /\ pos \in Nat
      /\ \A q \in Nat : WalkStart <= q /\ q < WalkStart + pagesize => PageFirst(q) = WalkStart /\ SbufBound(q) = WalkStart + bufsize
  BY InFind
<1>3. \A j \in 0 .. bufsize - 1 : HitAt(j) <=> IsHit(WalkStart + j)
  BY HitsHere
<1>4. \A q \in WalkStart .. WalkStart + bufsize - 1 : HitAt(q - WalkStart) <=> IsHit(q)
  <2>1. ASSUME NEW q \in WalkStart .. WalkStart + bufsize - 1 PROVE HitAt(q - WalkStart) <=> IsHit(q)
    <3>1. q - WalkStart \in 0 .. bufsize - 1 /\ WalkStart + (q - WalkStart) = q
      BY <1>2
    <3>2. QED BY <1>3, <3>1
  <2>2. QED BY <2>1
<1>5. k = 0 \/ ~HitAt(k - 1)
  <2>1. CASE k > pos
    <3>1. k - 1 \in pos .. k - 1
      BY <1>1, <1>2, <2>1
    <3>2. QED BY <1>1, <3>1
  <2>2. CASE k = pos
    <3>1. HitAt(k)
      BY <1>1, <1>2
    <3>2. pos < bufsize
      BY <1>1, <1>2, <2>2
    <3>3. QED BY <1>2, <2>2, <3>1, <3>2 DEF BetweenHits
  <2>3. QED BY <1>1, <1>2, <2>1, <2>2
<1>6. ASSUME k < pagesize PROVE WholeMatch(WalkStart + k, WalkStart + n)
  <2>1. PageFirst(WalkStart + k) = WalkStart /\ SbufBound(WalkStart + k) = WalkStart + bufsize
    BY <1>1, <1>2, <1>6
  <2>2. \A q \in WalkStart + k .. (WalkStart + n) - 1 : IsHit(q)
    <3>1. ASSUME NEW q \in WalkStart + k .. (WalkStart + n) - 1 PROVE IsHit(q)
      <4>1. q - WalkStart \in k .. n - 1 /\ q \in WalkStart .. WalkStart + bufsize - 1
        BY <1>1, <1>2
      <4>2. QED BY <1>1, <1>4, <4>1
    <3>2. QED BY <3>1
  <2>3. WalkStart + k = WalkStart \/ ~IsHit((WalkStart + k) - 1)
    <3>1. CASE k = 0
      BY <1>2, <3>1
    <3>2. CASE k # 0
      <4>1. k - 1 \in 0 .. bufsize - 1 /\ WalkStart + (k - 1) = (WalkStart + k) - 1
        BY <1>1, <1>2, <3>2
      <4>2. QED BY <1>3, <1>5, <3>2, <4>1
    <3>3. QED BY <3>1, <3>2
  <2>4. WalkStart + n = WalkStart + bufsize \/ ~IsHit(WalkStart + n)
    <3>1. CASE n < bufsize
      <4>1. n \in 0 .. bufsize - 1
        BY <1>1, <1>2, <3>1
      <4>2. QED BY <1>1, <1>3, <3>1, <4>1
    <3>2. CASE n = bufsize
      BY <3>2
    <3>3. QED BY <1>1, <1>2, <3>1, <3>2
  <2>5. WalkStart + k < WalkStart + n
    BY <1>1, <1>2
  <2> DEFINE a == WalkStart + k
             b == WalkStart + n
  <2> HIDE DEF a, b
  <2>6. /\ a < b /\ \A q \in a .. b - 1 : IsHit(q)
        /\ a = PageFirst(a) \/ ~IsHit(a - 1)
        /\ b = SbufBound(a) \/ ~IsHit(b)
    <3>1. a < b
      BY <2>5 DEF a, b
    <3>6. \A q \in a .. b - 1 : IsHit(q)
      BY <2>2 DEF a, b
    <3>2. PageFirst(a) = WalkStart /\ SbufBound(a) = WalkStart + bufsize
      BY <2>1 DEF a
    <3>3. a = WalkStart \/ ~IsHit(a - 1)
      BY <2>3 DEF a
    <3>4. b = WalkStart + bufsize \/ ~IsHit(b)
      BY <2>4 DEF b
    <3>5. QED BY <3>1, <3>2, <3>3, <3>4, <3>6
  <2>7. WholeMatch(a, b)
    BY <2>6 DEF WholeMatch
  <2>8. QED BY <2>7 DEF a, b
<1>7. ASSUME NEW a \in Places, NEW b \in a + 1 .. SbufBound(a), WholeMatch(a, b),
             WalkStart + pos <= a, a < WalkStart + pagesize, a < WalkStart + n
      PROVE  a = WalkStart + k /\ b = WalkStart + n
  <2>1. a \in Nat
    BY InFind DEF Places
  <2>2. PageFirst(a) = WalkStart /\ SbufBound(a) = WalkStart + bufsize
    BY <1>2, <1>7, <2>1
  <2>3. b \in a + 1 .. WalkStart + bufsize
    BY <2>2
  <2>4. \A q \in a .. b - 1 : IsHit(q)
    BY <1>7 DEF WholeMatch
  <2>5. IsHit(a)
    BY <1>2, <2>1, <2>3, <2>4
  <2>6. a - WalkStart \in pos .. n - 1 /\ a \in WalkStart .. WalkStart + bufsize - 1
    BY <1>1, <1>2, <1>7, <2>1
  <2>7. HitAt(a - WalkStart)
    BY <1>4, <2>5, <2>6
  <2>8. ~(a - WalkStart < k)
    BY <1>1, <1>2, <2>6, <2>7
  <2>9. a - WalkStart = k
    <3> SUFFICES ASSUME a - WalkStart # k PROVE FALSE
      OBVIOUS
    <3>1. a - 1 - WalkStart \in k .. n - 1 /\ a - 1 \in WalkStart .. WalkStart + bufsize - 1 /\ a # WalkStart
      BY <1>1, <1>2, <2>1, <2>6, <2>8
    <3>2. IsHit(a - 1)
      BY <1>1, <1>4, <3>1
    <3>3. QED BY <1>7, <2>2, <3>1, <3>2 DEF WholeMatch
  <2>10. ~(b < WalkStart + n)
    <3> SUFFICES ASSUME b < WalkStart + n PROVE FALSE
      OBVIOUS
    <3>1. b - WalkStart \in k .. n - 1 /\ b \in WalkStart .. WalkStart + bufsize - 1 /\ b # WalkStart + bufsize
      BY <1>1, <1>2, <2>1, <2>3, <2>6, <2>9
    <3>2. IsHit(b)
      BY <1>1, <1>4, <3>1
    <3>3. QED BY <1>7, <2>2, <3>1, <3>2 DEF WholeMatch
  <2>11. ~(WalkStart + n < b)
    <3> SUFFICES ASSUME WalkStart + n < b PROVE FALSE
      OBVIOUS
    <3>1. n < bufsize /\ n \in 0 .. bufsize - 1 /\ WalkStart + n \in a .. b - 1
      BY <1>1, <1>2, <2>1, <2>3, <2>6, <2>9
    <3>2. ~IsHit(WalkStart + n)
      BY <1>1, <1>3, <3>1
    <3>3. QED BY <2>4, <3>1, <3>2
  <2>12. QED BY <1>1, <1>2, <2>1, <2>3, <2>6, <2>9, <2>10, <2>11
<1>8. QED BY <1>6, <1>7

-----------------------------------------------------------------------------
(* A step of the search *)

\* A place is searched to the end when as many pieces as cover the page have been counted.
LEMMA PiecesCounted ==
  ASSUME NEW n \in Nat, NEW size \in Nat \ {0}, NEW m \in Nat, n > 0, m * size >= n, m > 0 => (m - 1) * size < n
  PROVE  (n + size - 1) \div size = m
<1>1. \A a, b \in Int : (a + 1) * b = a * b + b /\ (a - 1) * b = a * b - b
  OBVIOUS
<1>2. m > 0
  <2> SUFFICES ASSUME m = 0 PROVE FALSE
    OBVIOUS
  <2>1. 0 * size = 0
    OBVIOUS
  <2>2. QED BY <2>1
<1>3. m * size \in Int /\ (m - 1) * size = m * size - size /\ (m + 1) * size = m * size + size
  BY <1>1
<1>4. n + size - 1 \in Nat
  OBVIOUS
<1>5. m * size <= n + size - 1 /\ n + size - 1 < (m + 1) * size
  BY <1>2, <1>3
<1>6. QED BY <1>4, <1>5, DivOf

\* What the invariant says of a step that reports nothing and stays in the page.
LEMMA QuietStep ==
  ASSUME FindInv, ~WalkDone, UNCHANGED <<scanner, image, page, reports>>, pos' \in Nat, memo' \in Nat
  PROVE  /\ FindTyped' /\ FindSound' /\ WalkStart' = WalkStart /\ pagesize' = pagesize /\ bufsize' = bufsize
         /\ WalkDone' = WalkDone /\ PieceStart' = memo' * local_opt_pagesize
         /\ \A k : HitAt(k)' = HitAt(k)
         /\ \A a, b : FoundTimes(a, b)' = FoundTimes(a, b)
<1>1. FindTyped'
  BY DEF FindInv, FindTyped, FindImage
<1>2. WalkStart' = WalkStart /\ ImageSize' = ImageSize
  BY DEF WalkStart, ImageSize
<1>3. pagesize' = pagesize /\ bufsize' = bufsize /\ WalkDone' = WalkDone
  BY <1>2 DEF pagesize, bufsize, WalkDone, Least
<1>4. \A k : HitAt(k)' = HitAt(k)
  BY <1>2, <1>3 DEF HitAt, Cell
<1>5. FindSound'
  BY PlacesStay DEF FindInv, FindSound
<1>6. \A a, b : FoundTimes(a, b)' = FoundTimes(a, b)
  BY DEF FoundTimes
<1>7. QED BY <1>1, <1>2, <1>3, <1>4, <1>5, <1>6 DEF PieceStart

\* Nothing is reported, and the places passed over begin no match: the count stays right.
LEMMA QuietCount ==
  ASSUME FindInv, ~WalkDone, UNCHANGED <<scanner, image, page, reports>>, pos' \in Nat, memo' \in Nat,
         \A q \in Places : WalkStart <= q /\ q < WalkStart + pagesize /\ IsHit(q) =>
           memo' + Turn(q)' = memo + Turn(q)
  PROVE  Counted'
<1> SUFFICES ASSUME NEW a \in Places', NEW b \in (a + 1 .. SbufBound(a))', WholeMatch(a, b)'
             PROVE  FoundTimes(a, b)' = FoundSoFar(a)'
  BY DEF Counted
<1>1. a \in Places /\ b \in a + 1 .. SbufBound(a) /\ WholeMatch(a, b) /\ Pieces(a)' = Pieces(a)
  BY PlacesStay
<1>2. FoundTimes(a, b)' = FoundTimes(a, b) /\ WalkStart' = WalkStart /\ pagesize' = pagesize
  BY QuietStep
<1>3. FoundTimes(a, b) = FoundSoFar(a)
  BY <1>1 DEF FindInv, Counted
<1>4. a \in Nat /\ WalkStart \in Nat /\ pagesize \in Nat
  BY <1>1, InFind DEF FindInv, Places
<1>5. IsHit(a)
  BY <1>1, <1>4 DEF WholeMatch
<1>6. QED BY <1>1, <1>2, <1>3, <1>4, <1>5 DEF FoundSoFar

\* The search goes on behind a cell that is no hit.
LEMMA FindNothingKeeps == ASSUME FindInv, FindNothing PROVE FindInv'
<1>1. /\ ~WalkDone /\ FindTyped /\ PieceStart < pagesize /\ pos < pagesize /\ ~HitAt(pos)
      /\ pos' = pos + 1 /\ UNCHANGED <<scanner, image, page, reports, memo>>
  BY DEF FindNothing, InPiece, In, MoveTo, Silent, HitAt, FindInv
<1>2. /\ pos \in Nat /\ memo \in Nat /\ WalkStart \in Nat /\ pagesize \in Nat /\ bufsize \in Nat /\ pagesize <= bufsize
  BY <1>1, InFind
<1>3. /\ FindTyped' /\ FindSound' /\ WalkStart' = WalkStart /\ pagesize' = pagesize /\ bufsize' = bufsize
      /\ WalkDone' = WalkDone /\ PieceStart' = PieceStart /\ \A k : HitAt(k)' = HitAt(k)
  BY <1>1, <1>2, QuietStep DEF PieceStart
<1>4. BetweenHits'
  BY <1>1, <1>2, <1>3 DEF BetweenHits
<1>5. InItsPiece'
  <2>1. memo > 0 => (memo - 1) * local_opt_pagesize < pagesize
    BY <1>1 DEF InItsPiece, FindInv
  <2>2. memo' > 0 => (memo' - 1) * local_opt_pagesize < pagesize'
    BY <1>1, <1>3, <2>1
  <2>3. ~(PieceStart' >= pagesize')
    BY <1>1, <1>2, <1>3, FindAssumption DEF PieceStart
  <2>4. QED BY <2>2, <2>3 DEF InItsPiece
<1>6. ASSUME NEW q \in Places, WalkStart <= q, IsHit(q) PROVE Turn(q)' = Turn(q)
  <2>1. q \in Nat
    BY <1>1, InFind DEF Places
  <2>2. q # WalkStart + pos
    BY <1>1, <1>2, <1>6, HitsHere
  <2>3. QED BY <1>1, <1>2, <1>3, <2>1, <2>2 DEF Turn
<1>7. Counted'
  BY <1>1, <1>2, <1>6, QuietCount
<1>8. QED BY <1>3, <1>4, <1>5, <1>7 DEF FindInv

\* No match from here on to the next 0, or to the end of the sbuf.
LEMMA FindNoMoreKeeps == ASSUME FindInv, FindNoMore PROVE FindInv'
<1>1. /\ ~WalkDone /\ FindTyped /\ PieceStart < pagesize /\ pos < pagesize /\ Hits = {}
      /\ UNCHANGED <<scanner, image, page, reports>>
      /\ IF Zeros = {} THEN memo' = memo + 1 /\ pos' = 0 ELSE pos' = TextStop + 1 /\ memo' = memo
  BY DEF FindNoMore, InPiece, In, MoveTo, Silent, FindInv
<1>2. /\ pos \in Nat /\ memo \in Nat /\ WalkStart \in Nat /\ pagesize \in Nat /\ bufsize \in Nat /\ pagesize <= bufsize
      /\ 0 < pagesize /\ local_opt_pagesize \in Nat \ {0}
  BY <1>1, InFind
<1>3. /\ TextStop \in pos .. bufsize
      /\ Zeros # {} => TextStop < bufsize
      /\ TextStop < bufsize => ~HitAt(TextStop)
  BY <1>1, <1>2, TextEnds
<1>4. pos' \in Nat /\ memo' \in Nat
  BY <1>1, <1>2, <1>3
<1>5. /\ FindTyped' /\ FindSound' /\ WalkStart' = WalkStart /\ pagesize' = pagesize /\ bufsize' = bufsize
      /\ WalkDone' = WalkDone /\ PieceStart' = memo' * local_opt_pagesize /\ \A k : HitAt(k)' = HitAt(k)
  BY <1>1, <1>4, QuietStep
<1>6. \A j \in pos .. TextStop - 1 : ~HitAt(j)
  BY <1>1 DEF Hits, HitAt
<1>7. BetweenHits'
  <2>1. CASE Zeros = {}
    BY <1>1, <2>1 DEF BetweenHits
  <2>2. CASE Zeros # {}
    <3>1. (pos' - 1) = TextStop /\ ~HitAt(TextStop)
      BY <1>1, <1>2, <1>3, <2>2
    <3>2. QED BY <1>5, <3>1 DEF BetweenHits
  <2>3. QED BY <2>1, <2>2
<1>8. InItsPiece'
  <2>1. CASE Zeros = {}
    <3>1. (memo' - 1) = memo
      BY <1>1, <1>2, <2>1
    <3>2. (memo' - 1) * local_opt_pagesize = PieceStart
      BY <3>1 DEF PieceStart
    <3>3. QED BY <1>1, <1>5, <2>1, <3>2 DEF InItsPiece
  <2>2. CASE Zeros # {}
    <3>1. memo' = memo /\ PieceStart' = PieceStart
      BY <1>1, <1>5, <2>2 DEF PieceStart
    <3>2. memo > 0 => (memo - 1) * local_opt_pagesize < pagesize
      BY <1>1 DEF InItsPiece, FindInv
    <3>3. ~(PieceStart' >= pagesize')
      BY <1>1, <1>2, <1>5, <3>1 DEF PieceStart
    <3>4. memo' > 0 => (memo' - 1) * local_opt_pagesize < pagesize'
      BY <1>5, <3>1, <3>2
    <3>5. QED BY <3>3, <3>4 DEF InItsPiece
  <2>3. QED BY <2>1, <2>2
<1>9. ASSUME NEW q \in Places, WalkStart <= q, q < WalkStart + pagesize, IsHit(q) PROVE memo' + Turn(q)' = memo + Turn(q)
  <2>1. q \in Nat /\ q - WalkStart \in 0 .. bufsize - 1 /\ WalkStart + (q - WalkStart) = q
    BY <1>1, <1>2, <1>9, InFind DEF Places
  <2>2. HitAt(q - WalkStart)
    BY <1>1, <1>9, <2>1, HitsHere
  <2>3. q - WalkStart \notin pos .. TextStop - 1
    BY <1>6, <2>2
  <2>4. CASE Zeros = {}
    <3>1. TextStop = bufsize
      BY <2>4 DEF TextStop
    <3>2. q < WalkStart + pos
      BY <1>2, <2>1, <2>3, <3>1
    <3>3. memo' = memo + 1 /\ pos' = 0
      BY <1>1, <2>4
    <3>4. Turn(q) = 1 /\ Turn(q)' = 0
      BY <1>2, <1>5, <1>9, <2>1, <3>2, <3>3 DEF Turn
    <3>5. QED BY <1>2, <3>3, <3>4
  <2>5. CASE Zeros # {}
    <3>1. pos' = TextStop + 1 /\ memo' = memo /\ ~HitAt(TextStop)
      BY <1>1, <1>3, <2>5
    <3>2. q - WalkStart # TextStop
      BY <2>2, <3>1
    <3>3. q < WalkStart + pos <=> q < WalkStart + pos'
      BY <1>2, <1>3, <2>1, <2>3, <3>1, <3>2
    <3>4. Turn(q)' = Turn(q)
      BY <1>5, <3>3 DEF Turn
    <3>5. QED BY <3>1, <3>4
  <2>6. QED BY <2>4, <2>5
<1>10. Counted'
  BY <1>1, <1>4, <1>9, QuietCount
<1>11. QED BY <1>5, <1>7, <1>8, <1>10 DEF FindInv

\* The search of the next piece begins with the page.
LEMMA FindPieceEndsKeeps == ASSUME FindInv, FindPieceEnds PROVE FindInv'
<1>1. /\ ~WalkDone /\ FindTyped /\ PieceStart < pagesize /\ pos >= pagesize
      /\ UNCHANGED <<scanner, image, page, reports>> /\ memo' = memo + 1 /\ pos' = 0
  BY DEF FindPieceEnds, In, MoveTo, Silent, FindInv
<1>2. /\ pos \in Nat /\ memo \in Nat /\ WalkStart \in Nat /\ pagesize \in Nat
  BY <1>1, InFind
<1>3. /\ FindTyped' /\ FindSound' /\ WalkStart' = WalkStart /\ pagesize' = pagesize
      /\ WalkDone' = WalkDone
  BY <1>1, <1>2, QuietStep
<1>4. BetweenHits'
  BY <1>1 DEF BetweenHits
<1>5. InItsPiece'
  <2>1. (memo' - 1) = memo
    BY <1>1, <1>2
  <2>2. (memo' - 1) * local_opt_pagesize = PieceStart
    BY <2>1 DEF PieceStart
  <2>3. QED BY <1>1, <1>3, <2>2 DEF InItsPiece
<1>6. ASSUME NEW q \in Places, WalkStart <= q, q < WalkStart + pagesize PROVE memo' + Turn(q)' = memo + Turn(q)
  <2>1. q \in Nat
    BY <1>1, InFind DEF Places
  <2>2. Turn(q) = 1 /\ Turn(q)' = 0
    BY <1>1, <1>2, <1>3, <1>6, <2>1 DEF Turn
  <2>3. QED BY <1>1, <1>2, <2>2
<1>7. Counted'
  BY <1>1, <1>2, <1>6, QuietCount
<1>8. QED BY <1>3, <1>4, <1>5, <1>7 DEF FindInv

\* The next match is reported if it begins in the page; the search goes on behind it.
LEMMA FindHitKeeps == ASSUME FindInv, FindHit PROVE FindInv'
<1>1. /\ ~WalkDone /\ FindTyped /\ BetweenHits /\ PieceStart < pagesize /\ pos < pagesize
      /\ IF image.empty THEN HitAt(pos) ELSE Hits # {}
      /\ UNCHANGED <<scanner, image, page, memo>>
  BY DEF FindHit, InPiece, In, MoveTo, HitAt, FindInv
<1>2. /\ pos \in Nat /\ memo \in Nat /\ WalkStart \in Nat /\ pagesize \in Nat /\ bufsize \in Nat /\ pagesize <= bufsize
      /\ ImageSize \in Nat /\ WalkStart + bufsize <= ImageSize
      /\ \A q \in Nat : WalkStart <= q /\ q < WalkStart + pagesize => SbufBound(q) = WalkStart + bufsize
  BY <1>1, InFind
<1>3. Hits # {}
  <2>1. CASE HitAt(pos)
    <3>1. TextStop \in pos .. bufsize /\ pos # TextStop
      BY <1>1, <1>2, <2>1, TextEnds
    <3>2. pos \in Hits
      BY <1>2, <2>1, <3>1 DEF Hits, HitAt
    <3>3. QED BY <3>2
  <2>2. QED BY <1>1, <2>1
<1> DEFINE k == Min(Hits)
           n == HitEnd(k)
           r == [kind |-> "find", from |-> WalkStart + k, to |-> WalkStart + n]
<1>4. /\ k \in pos .. bufsize - 1 /\ n \in k + 1 .. bufsize
      /\ \A j \in k .. n - 1 : HitAt(j)
      /\ n < bufsize => ~HitAt(n)
  BY <1>1, <1>2, <1>3, NextMatch
<1>5. /\ k < pagesize => WholeMatch(WalkStart + k, WalkStart + n)
      /\ \A a \in Places : \A b \in a + 1 .. SbufBound(a) :
           WholeMatch(a, b) /\ WalkStart + pos <= a /\ a < WalkStart + pagesize /\ a < WalkStart + n =>
             a = WalkStart + k /\ b = WalkStart + n
  BY <1>1, <1>2, <1>3, TheMatch
<1>6. pos' = n /\ write_buf("find", k, n - k)
  BY DEF FindHit, MoveTo
<1> HIDE DEF k, n
<1>7. IF k < pagesize THEN reports' = reports \o << r >> ELSE reports' = reports
  <2>1. Least(k + (n - k), bufsize) = n
    BY <1>2, <1>4 DEF Least
  <2>2. Slice("find", k, n - k) = r
    BY <2>1 DEF Slice
  <2>3. reports' = reports \o (IF k < pagesize THEN << r >> ELSE << >>) /\ reports \o << >> = reports
    BY <1>1, <1>6, <2>2 DEF write_buf, Written, FindTyped
  <2>4. QED BY <2>3
<1>8. r \in [kind : {"find"}, from : Nat, to : Nat]
  BY <1>2, <1>4
<1>9. WalkStart' = WalkStart /\ pagesize' = pagesize /\ bufsize' = bufsize /\ WalkDone' = WalkDone /\ PieceStart' = PieceStart
  BY <1>1 DEF WalkStart, ImageSize, pagesize, bufsize, WalkDone, PieceStart, Least
<1>10. \A j : HitAt(j)' = HitAt(j)
  BY <1>1, <1>9 DEF HitAt, Cell
<1>11. FindTyped'
  <2>1. reports' \in Seq([kind : {"find"}, from : Nat, to : Nat])
    <3> DEFINE R == [kind : {"find"}, from : Nat, to : Nat]
    <3>1. reports \in Seq(R) /\ r \in R
      BY <1>1, <1>8 DEF FindTyped
    <3> HIDE DEF R, r
    <3>2. ASSUME k < pagesize PROVE reports' \in Seq(R)
      BY <1>7, <3>1, <3>2
    <3>3. ASSUME ~(k < pagesize) PROVE reports' \in Seq(R)
      BY <1>7, <3>1, <3>3
    <3>4. reports' \in Seq(R)
      BY <3>2, <3>3
    <3>5. QED BY <3>4 DEF R
  <2>2. pos' \in Nat
    BY <1>2, <1>4, <1>6
  <2>3. QED BY <1>1, <2>1, <2>2 DEF FindTyped, FindImage
<1>12. BetweenHits'
  BY <1>4, <1>6, <1>9, <1>10 DEF BetweenHits
<1>13. InItsPiece'
  <2>1. memo > 0 => (memo - 1) * local_opt_pagesize < pagesize
    BY <1>1 DEF InItsPiece, FindInv
  <2>2. memo' > 0 => (memo' - 1) * local_opt_pagesize < pagesize'
    BY <1>1, <1>9, <2>1
  <2>3. ~(PieceStart' >= pagesize')
    BY <1>1, <1>2, <1>9, FindAssumption DEF PieceStart
  <2>4. QED BY <2>2, <2>3 DEF InItsPiece
<1>14. FindSound'
  <2>1. \A i \in DOMAIN reports : WholeMatch(reports[i].from, reports[i].to)
    BY DEF FindInv, FindSound
  <2>2. \A i \in DOMAIN reports' : WholeMatch(reports'[i].from, reports'[i].to)
    <3>1. CASE k < pagesize
      <4>1. \A i \in DOMAIN reports' : (i \in DOMAIN reports /\ reports'[i] = reports[i]) \/ reports'[i] = r
        BY <1>1, <1>7, <1>8, <3>1, SMTT(30) DEF FindTyped
      <4>2. WholeMatch(r.from, r.to)
        BY <1>5, <3>1
      <4>3. QED BY <2>1, <4>1, <4>2
    <3>2. CASE ~(k < pagesize)
      BY <1>7, <2>1, <3>2
    <3>3. QED BY <3>1, <3>2
  <2>3. \A a, b : WholeMatch(a, b)' = WholeMatch(a, b)
    BY <1>1, PlacesStay
  <2>4. QED BY <2>2, <2>3 DEF FindSound
<1>15. Counted'
  <2> SUFFICES ASSUME NEW a \in Places', NEW b \in (a + 1 .. SbufBound(a))', WholeMatch(a, b)'
               PROVE  FoundTimes(a, b)' = FoundSoFar(a)'
    BY DEF Counted
  <2>1. a \in Places /\ b \in a + 1 .. SbufBound(a) /\ WholeMatch(a, b) /\ Pieces(a)' = Pieces(a)
    BY <1>1, PlacesStay
  <2>2. FoundTimes(a, b) = FoundSoFar(a)
    BY <2>1 DEF FindInv, Counted
  <2>3. a \in Nat
    BY <1>2, <2>1 DEF Places
  <2>4. CASE a = WalkStart + k /\ b = WalkStart + n /\ k < pagesize
    <3>1. FoundTimes(a, b)' = FoundTimes(a, b) + 1
      <4>1. WalkStart + k \in Nat /\ WalkStart + n \in Nat /\ reports \in Seq([kind : {"find"}, from : Nat, to : Nat])
        BY <1>1, <1>2, <1>4 DEF FindTyped
      <4>2. QED BY <1>7, <2>4, <4>1, OneMore, SMTT(60)
    <3>2. Turn(a) = 0 /\ Turn(a)' = 1
      BY <1>2, <1>4, <1>6, <1>9, <2>4 DEF Turn
    <3>3. ~(a < WalkStart) /\ ~(a >= WalkStart + pagesize)
      BY <1>2, <1>4, <2>4
    <3>4. FoundSoFar(a) = memo + 0 /\ FoundSoFar(a)' = memo + 1
      BY <1>1, <1>9, <3>2, <3>3 DEF FoundSoFar
    <3>5. QED BY <1>2, <2>2, <3>1, <3>4
  <2>5. CASE ~(a = WalkStart + k /\ b = WalkStart + n /\ k < pagesize)
    <3>1. FoundTimes(a, b)' = FoundTimes(a, b)
      <4>1. CASE k < pagesize
        <5>1. WalkStart + k \in Nat /\ WalkStart + n \in Nat /\ reports \in Seq([kind : {"find"}, from : Nat, to : Nat])
          BY <1>1, <1>2, <1>4 DEF FindTyped
        <5>2. QED BY <1>7, <2>5, <4>1, <5>1, OneMore
      <4>2. CASE ~(k < pagesize)
        BY <1>7, <4>2 DEF FoundTimes
      <4>3. QED BY <4>1, <4>2
    <3>2. CASE a < WalkStart \/ a >= WalkStart + pagesize
      BY <1>9, <2>1, <2>2, <3>1, <3>2 DEF FoundSoFar
    <3>3. CASE WalkStart <= a /\ a < WalkStart + pagesize
      <4>1. ~(WalkStart + pos <= a /\ a < WalkStart + n)
        <5> SUFFICES ASSUME WalkStart + pos <= a, a < WalkStart + n PROVE FALSE
          OBVIOUS
        <5>1. a = WalkStart + k /\ b = WalkStart + n
          BY <1>5, <2>1, <3>3
        <5>2. QED BY <1>2, <1>4, <2>5, <3>3, <5>1
      <4>2. a < WalkStart + pos <=> a < WalkStart + n
        BY <1>2, <1>4, <2>3, <4>1
      <4>3. Turn(a)' = Turn(a)
        BY <1>6, <1>9, <4>2 DEF Turn
      <4>4. FoundSoFar(a)' = FoundSoFar(a)
        BY <1>1, <1>9, <2>1, <4>3 DEF FoundSoFar
      <4>5. QED BY <2>2, <3>1, <4>4
    <3>4. QED BY <1>2, <2>3, <3>2, <3>3
  <2>6. QED BY <2>4, <2>5
<1>16. QED BY <1>11, <1>12, <1>13, <1>14, <1>15 DEF FindInv

\* The pieces cover the page, and the next page begins.
LEMMA FindPageEndsKeeps == ASSUME FindInv, FindPageEnds PROVE FindInv'
<1>1. /\ ~WalkDone /\ FindTyped /\ PieceStart >= pagesize
      /\ UNCHANGED <<scanner, image, reports>> /\ page' = page + 1 /\ pos' = 0 /\ memo' = 0
  BY DEF FindPageEnds, In, LeavePage, Silent, FindInv
<1>2. /\ pos \in Nat /\ memo \in Nat /\ page \in Nat /\ WalkStart \in Nat /\ pagesize \in Nat \ {0} /\ ImageSize \in Nat
      /\ local_opt_pagesize \in Nat \ {0}
      /\ \A q \in Nat : WalkStart <= q /\ q < WalkStart + pagesize => PageFirst(q) = WalkStart /\ PageBound(q) = WalkStart + pagesize
  BY <1>1, InFind
<1>3. image.pagesize \in Nat \ {0} /\ WalkStart' = WalkStart + image.pagesize /\ Walking /\ ImageSize' = ImageSize
  BY <1>1, FindWalks, WalksOn DEF Walking, ImageSize
<1>4. pos = 0 /\ (memo > 0 => (memo - 1) * local_opt_pagesize < pagesize)
  BY <1>1 DEF InItsPiece, FindInv
<1>5. (pagesize + local_opt_pagesize - 1) \div local_opt_pagesize = memo
  BY <1>1, <1>2, <1>4, PiecesCounted DEF PieceStart
<1>6. FindTyped'
  BY <1>1, <1>2 DEF FindTyped, FindImage
<1>7. BetweenHits'
  BY <1>1 DEF BetweenHits
<1>8. InItsPiece'
  BY <1>1 DEF InItsPiece
<1>9. FindSound'
  BY <1>1, PlacesStay DEF FindInv, FindSound
<1>10. Counted'
  <2> SUFFICES ASSUME NEW a \in Places', NEW b \in (a + 1 .. SbufBound(a))', WholeMatch(a, b)'
               PROVE  FoundTimes(a, b)' = FoundSoFar(a)'
    BY DEF Counted
  <2>1. a \in Places /\ b \in a + 1 .. SbufBound(a) /\ WholeMatch(a, b) /\ Pieces(a)' = Pieces(a)
    BY <1>1, PlacesStay
  <2>2. FoundTimes(a, b)' = FoundTimes(a, b)
    BY <1>1 DEF FoundTimes
  <2>3. FoundTimes(a, b) = FoundSoFar(a)
    BY <2>1 DEF FindInv, Counted
  <2>4. a \in Nat /\ a < ImageSize
    BY <1>2, <2>1 DEF Places
  <2>5. Turn(a)' = 0 \/ a < WalkStart'
    BY <1>1, <1>2, <1>3, <2>4 DEF Turn
  <2>6. CASE a < WalkStart
    <3>1. FoundSoFar(a) = Pieces(a) /\ FoundSoFar(a)' = Pieces(a)'
      BY <1>2, <1>3, <2>4, <2>6 DEF FoundSoFar
    <3>2. QED BY <2>1, <2>2, <2>3, <3>1
  <2>7. CASE WalkStart <= a /\ a < WalkStart + pagesize
    <3>1. Turn(a) = 0
      BY <1>2, <1>4, <2>4, <2>7 DEF Turn
    <3>2. FoundSoFar(a) = memo
      BY <1>2, <2>4, <2>7, <3>1 DEF FoundSoFar
    <3>3. Pieces(a) = memo
      <4>1. PageBound(a) - PageFirst(a) = pagesize
        BY <1>2, <2>4, <2>7
      <4>2. QED BY <1>5, <4>1 DEF Pieces
    <3>4. a < WalkStart'
      BY <1>2, <1>3, <2>4, <2>7, InFind, <1>1, FindWalks, InWalk
    <3>5. FoundSoFar(a)' = Pieces(a)'
      BY <3>4 DEF FoundSoFar
    <3>6. QED BY <2>1, <2>2, <2>3, <3>2, <3>3, <3>5
  <2>8. CASE a >= WalkStart + pagesize
    <3>1. FoundSoFar(a) = 0
      BY <1>2, <2>4, <2>8 DEF FoundSoFar
    <3>2. ~(a < WalkStart')
      <4>1. pagesize = image.pagesize
        BY <1>2, <1>3, <2>4, <2>8 DEF pagesize, Least
      <4>2. QED BY <1>2, <1>3, <2>4, <2>8, <4>1
    <3>3. FoundSoFar(a)' = 0
      BY <1>1, <2>5, <3>2 DEF FoundSoFar
    <3>4. QED BY <2>2, <2>3, <3>1, <3>3
  <2>9. QED BY <1>2, <2>4, <2>6, <2>7, <2>8
<1>11. QED BY <1>6, <1>7, <1>8, <1>9, <1>10 DEF FindInv

LEMMA InitFind == ASSUME FindInit PROVE FindInv
<1>1. /\ page = 0 /\ pos = 0 /\ memo = 0 /\ reports = << >> /\ scanner = "find" /\ FindImage
  BY DEF FindInit, WalkInit
<1>2. FindTyped
  BY <1>1 DEF FindTyped
<1>3. BetweenHits
  BY <1>1 DEF BetweenHits
<1>4. FindSound
  BY <1>1 DEF FindSound
<1>5. InItsPiece
  BY <1>1 DEF InItsPiece
<1>6. Counted
  <2> SUFFICES ASSUME NEW a \in Places, NEW b \in a + 1 .. SbufBound(a) PROVE FoundTimes(a, b) = FoundSoFar(a)
    BY DEF Counted
  <2>1. FoundTimes(a, b) = 0
    <3>1. {i \in DOMAIN reports : reports[i].from = a /\ reports[i].to = b} = {}
      BY <1>1
    <3>2. QED BY <3>1, FS_EmptySet DEF FoundTimes
  <2>2. WalkStart = 0
    BY <1>1 DEF WalkStart, FindImage
  <2>3. a \in Nat
    BY FindWalks, <1>2 DEF Places, Walking
  <2>4. Turn(a) = 0 /\ ~(a < WalkStart) /\ memo + 0 = 0
    BY <1>1, <2>2, <2>3 DEF Turn
  <2>5. QED BY <2>1, <2>4, <1>1 DEF FoundSoFar
<1>7. QED BY <1>2, <1>3, <1>4, <1>5, <1>6 DEF FindInv

LEMMA NextFind == ASSUME FindInv, [FindStep]_walk_vars PROVE FindInv'
<1>1. CASE FindStep
  BY <1>1, FindHitKeeps, FindNothingKeeps, FindNoMoreKeeps, FindPieceEndsKeeps, FindPageEndsKeeps DEF FindStep
<1>2. CASE UNCHANGED walk_vars
  <2>1. FindTyped' /\ BetweenHits' /\ FindSound'
    BY <1>2 DEF FindInv, walk_vars, FindTyped, FindImage, BetweenHits, HitAt, Cell, bufsize, WalkDone, WalkStart, ImageSize,
                FindSound, WholeMatch, IsHit, CellAt, PageFirst, SbufBound
  <2>2. InItsPiece'
    BY <1>2 DEF FindInv, walk_vars, InItsPiece, PieceStart, pagesize, WalkDone, WalkStart, ImageSize
  <2>3. \A a, b : FoundTimes(a, b)' = FoundTimes(a, b)
    BY <1>2 DEF walk_vars, FoundTimes
  <2>4. image' = image /\ WalkStart' = WalkStart /\ pagesize' = pagesize /\ memo' = memo /\ \A q : Turn(q)' = Turn(q)
    BY <1>2 DEF walk_vars, WalkStart, pagesize, ImageSize, Turn
  <2>5. \A q : FoundSoFar(q)' = FoundSoFar(q)
    BY <2>4, PlacesStay DEF FoundSoFar
  <2>6. Counted'
    BY <2>3, <2>4, <2>5, PlacesStay DEF FindInv, Counted
  <2>7. QED BY <2>1, <2>2, <2>6 DEF FindInv
<1>3. QED BY <1>1, <1>2

\* FindSound, a part of FeaturesSound: whatever the text, the pages, the margin and the
\* pieces, what scan_find records is a whole match of its pattern, from the first character
\* to the last of the sbuf, though it goes on searching from the middle of what it searched.
THEOREM MatchesAreWhole == FindSpec => []FindSound
<1>1. FindInv => FindSound
  BY DEF FindInv
<1>2. QED BY <1>1, InitFind, NextFind, PTL DEF FindSpec

\* FindFound, a part of FeaturesFound: when the search has ended, each match that begins in
\* a page was recorded as often as the page has pieces, since scan_find searches the whole
\* sbuf for each piece of it.
THEOREM MatchesAllFound == FindSpec => [](WalkDone => FindFound)
<1>1. FindInv => (WalkDone => FindFound)
  <2> SUFFICES ASSUME FindInv, WalkDone, NEW a \in Places, NEW b \in a + 1 .. SbufBound(a), WholeMatch(a, b)
               PROVE  FoundTimes(a, b) = Pieces(a)
    BY DEF FindFound
  <2>1. FoundTimes(a, b) = FoundSoFar(a)
    BY DEF FindInv, Counted
  <2>2. Walking
    BY FindWalks DEF FindInv
  <2>3. a \in Nat /\ WalkStart \in Nat /\ a < WalkStart
    BY <2>2 DEF Walking, Places, WalkDone, WalkStart
  <2>4. QED BY <2>1, <2>3 DEF FoundSoFar
<1>2. QED BY <1>1, InitFind, NextFind, PTL DEF FindSpec


-----------------------------------------------------------------------------
(* scan_rar: what is reported of an archive stands there whole, each       *)
(* component is reported once, and no header is passed over                *)

\* What the cells of an image may be to scan_rar.
RarFile ==
  [is : {"file"}, ok : BOOLEAN, len : Nat, split : BOOLEAN, packed : Nat, unpacked : Nat, big : BOOLEAN,
   unicode : BOOLEAN, name : Nat, zero : Nat, utf8 : BOOLEAN, stored : BOOLEAN]
RarVolume == [is : {"volume"}, ok : BOOLEAN, len : Nat, encrypted : BOOLEAN]
RarCells == [is : {"mark"}] \cup [is : {"byte"}, v : Nat] \cup RarVolume \cup {c \in RarFile : c.zero <= c.name}
RarImage == image.cells \in Seq(RarCells) /\ image.pagesize \in Nat \ {0} /\ image.margin \in Nat
RarInit == WalkInit /\ scanner = "rar" /\ RarImage
RarSpec == RarInit /\ [][RarStep \/ RarPageEnds]_walk_vars

RarTyped ==
  /\ scanner = "rar" /\ RarImage /\ page \in Nat /\ pos \in Nat
  /\ reports \in Seq([kind : {"volume", "encrypted", "component", "RAR"}, from : Nat, to : Nat])
  /\ ~WalkDone => pos <= bufsize
\* Of one kind, nothing is reported twice but what the margin of a page has.
InMargin(q) == q >= image.pagesize /\ q % image.pagesize < image.margin
RarOnce ==
  \A i, j \in DOMAIN reports :
    i # j /\ reports[i].kind = reports[j].kind /\ reports[i].from = reports[j].from => InMargin(reports[i].from)
RarBefore == ~WalkDone => \A i \in DOMAIN reports : reports[i].from < WalkStart + pos \/ InMargin(reports[i].from)
\* What a report says of the cells it is about.
RarRight(r) ==
  CASE r.kind = "volume" -> CellAt(r.from).is = "mark" /\ CellAt(r.from + MARK_LEN).is = "volume" /\ CellAt(r.from + MARK_LEN).ok
    [] r.kind = "encrypted" ->
         /\ CellAt(r.from + MARK_LEN).encrypted /\ r.to >= r.from + MARK_LEN + CellAt(r.from + MARK_LEN).len
         /\ r.to <= r.from + (2 * (MARK_LEN + CellAt(r.from + MARK_LEN).len))
    [] OTHER -> Sensible(CellAt(r.from)) /\ r.to >= r.from + CellAt(r.from).len /\ (r.kind = "RAR" => ~CellAt(r.from).stored)
\* Each header that the scanner has passed was found.
RarPassed ==
  \A q \in Places :
    CellAt(q).is = "file" /\ (q < WalkStart \/ (q < WalkStart + pos /\ q < WalkStart + pagesize)) => ComponentFound(q)
RarInv == RarTyped /\ RarOnce /\ RarBefore /\ (\A i \in DOMAIN reports : RarRight(reports[i])) /\ RarPassed

LEMMA RarSizes == MARK_LEN \in Nat /\ ARCHIVE_HEAD_MIN_LEN \in Nat /\ FILE_HEAD_MIN_LEN \in Nat /\ OPTIONAL_BIGFILE_LEN \in Nat /\ RAR_MEMORY \in Nat
  BY RarAssumption

LEMMA RarWalks ==
  ASSUME RarTyped
  PROVE  Walking /\ ImageSize = Len(image.cells)
  BY DEF RarTyped, RarImage, Walking, ImageSize

\* A cell in the sbuf is one of the image, and behind it there are bytes.
LEMMA RarHere ==
  ASSUME RarTyped, ~WalkDone, NEW k \in Nat
  PROVE  /\ k < bufsize => Here(k) = CellAt(WalkStart + k) /\ Here(k) \in RarCells
         /\ k >= bufsize => Here(k).is = "byte"
<1>1. bufsize \in Nat /\ WalkStart \in Nat /\ WalkStart + bufsize <= ImageSize /\ ImageSize = Len(image.cells)
  BY RarWalks, InWalk
<1>2. image.cells \in Seq(RarCells)
  BY DEF RarTyped, RarImage
<1>3. ASSUME k < bufsize PROVE Here(k) = CellAt(WalkStart + k) /\ Here(k) \in RarCells
  <2>1. Here(k) = image.cells[WalkStart + k + 1]
    BY <1>1, <1>3 DEF Here, Cell
  <2>2. WalkStart + k + 1 \in 1 .. Len(image.cells)
    BY <1>1, <1>3
  <2>3. QED BY <1>2, <2>1, <2>2 DEF CellAt
<1>4. ASSUME k >= bufsize PROVE Here(k).is = "byte"
  BY <1>1, <1>4 DEF Here, Cell, RarByte
<1>5. QED BY <1>3, <1>4

LEMMA VolumeCell ==
  ASSUME NEW c \in RarCells, c.is = "volume"
  PROVE  c.ok \in BOOLEAN /\ c.len \in Nat /\ c.encrypted \in BOOLEAN
  BY DEF RarCells, RarVolume, RarFile
LEMMA FileCell ==
  ASSUME NEW c \in RarCells, c.is = "file"
  PROVE  /\ c.ok \in BOOLEAN /\ c.len \in Nat /\ c.split \in BOOLEAN /\ c.packed \in Nat /\ c.unpacked \in Nat /\ c.big \in BOOLEAN
         /\ c.unicode \in BOOLEAN /\ c.name \in Nat /\ c.zero \in Nat /\ c.utf8 \in BOOLEAN /\ c.stored \in BOOLEAN /\ c.zero <= c.name
  BY DEF RarCells, RarVolume, RarFile

\* What stands for an encrypted volume is no longer than its mark and its header, and not
\* negative.
LEMMA GuessFits ==
  ASSUME NEW k \in Nat, NEW n \in Nat, n >= threshold
  PROVE  guess_encrypted_len(k, n) \in 0 .. n
<1> DEFINE ends == {i \in 0 .. n - threshold - 1 : \A j \in 1 .. threshold - 1 : Here(k + i + j) = Here(k + i)}
<1>1. CASE ends = {}
  BY <1>1, RarAssumption DEF guess_encrypted_len
<1>2. CASE ends # {}
  <2>1. ends \in SUBSET Nat /\ \A i \in ends : i <= n
    BY RarAssumption
  <2>2. Min(ends) \in ends
    BY <1>2, <2>1, LeastOf
  <2>3. guess_encrypted_len(k, n) = Min(ends)
    BY <1>2 DEF guess_encrypted_len
  <2>4. QED BY <2>1, <2>2, <2>3
<1>3. QED BY <1>1, <1>2

-----------------------------------------------------------------------------
\* What a step reports: of each kind at most one, about the place it looks at.
RarAdds(new) ==
  /\ new \in Seq([kind : {"volume", "encrypted", "component", "RAR"}, from : {WalkStart + pos}, to : Nat])
  /\ \A i, j \in DOMAIN new : i # j => new[i].kind # new[j].kind
  /\ \A i \in DOMAIN new : RarRight(new[i])

\* One report, or two.
LEMMA OneOrTwo ==
  ASSUME NEW S, NEW a \in S, NEW b \in S, NEW p \in BOOLEAN
  PROVE  /\ <<a>> \o (IF p THEN <<b>> ELSE <<>>) \in Seq(S)
         /\ DOMAIN (<<a>> \o (IF p THEN <<b>> ELSE <<>>)) = 1 .. (IF p THEN 2 ELSE 1)
         /\ (<<a>> \o (IF p THEN <<b>> ELSE <<>>))[1] = a
         /\ p => (<<a>> \o (IF p THEN <<b>> ELSE <<>>))[2] = b
<1>1. CASE p
  BY <1>1
<1>2. CASE ~p
  BY <1>2
<1>3. QED BY <1>1, <1>2

LEMMA RarSlice ==
  ASSUME RarTyped, ~WalkDone, NEW kind, NEW n \in Nat, pos < bufsize
  PROVE  /\ Slice(kind, pos, n).kind = kind /\ Slice(kind, pos, n).from = WalkStart + pos
         /\ Slice(kind, pos, n) \in [kind : {kind}, from : {WalkStart + pos}, to : Nat]
         /\ pos + n <= bufsize => Slice(kind, pos, n).to = WalkStart + pos + n
         /\ Slice(kind, pos, n).to <= WalkStart + pos + n
         /\ \A m \in Nat : m <= n /\ pos + m <= bufsize => Slice(kind, pos, n).to >= WalkStart + pos + m
<1>1. bufsize \in Nat /\ WalkStart \in Nat /\ pos \in Nat
  BY RarWalks, InWalk DEF RarTyped
<1>2. QED BY <1>1 DEF Slice, Least

LEMMA VolumeAdds ==
  ASSUME RarTyped, ~WalkDone, pos < bufsize, IsVolume
  PROVE  RarAdds(VolumeReports(Here(pos + MARK_LEN).len))
<1> DEFINE k == pos + MARK_LEN
           c == Here(k)
           n == MARK_LEN + c.len
           a == Slice("volume", pos, MARK_LEN)
           g == guess_encrypted_len(pos, n)
           b == Slice("encrypted", pos, n + g)
           S == [kind : {"volume", "encrypted", "component", "RAR"}, from : {WalkStart + pos}, to : Nat]
<1>1. bufsize \in Nat /\ WalkStart \in Nat /\ pos \in Nat /\ MARK_LEN \in Nat /\ ARCHIVE_HEAD_MIN_LEN \in Nat
  BY RarWalks, InWalk, RarSizes DEF RarTyped
<1>2. c.is = "volume" /\ c.ok /\ c.len >= ARCHIVE_HEAD_MIN_LEN /\ c.len < bufsize - k /\ Here(pos).is = "mark" /\ bufsize - k >= ARCHIVE_HEAD_MIN_LEN
  BY DEF IsVolume, process_volume
<1>3. k \in Nat /\ k < bufsize
  <2>1. k \in Nat /\ (k >= bufsize => c.is = "byte")
    BY <1>1, RarHere
  <2>2. QED BY <1>1, <1>2, <2>1
<1>4. c = CellAt(WalkStart + k) /\ c \in RarCells /\ Here(pos) = CellAt(WalkStart + pos)
  BY <1>1, <1>3, RarHere
<1>5. c.len \in Nat /\ c.encrypted \in BOOLEAN
  BY <1>2, <1>4, VolumeCell
<1>6. n \in Nat /\ n >= threshold /\ pos + n <= bufsize
  BY <1>1, <1>2, <1>5, RarAssumption
<1>7. g \in 0 .. n
  BY <1>1, <1>6, GuessFits
<1> HIDE DEF c
<1>8. a \in S /\ a.kind = "volume" /\ a.from = WalkStart + pos
  BY <1>1, RarSlice
<1>9. /\ b \in S /\ b.kind = "encrypted" /\ b.from = WalkStart + pos
      /\ b.to >= WalkStart + pos + n /\ b.to <= WalkStart + pos + (n + g)
  <2>1. n + g \in Nat /\ n <= n + g
    BY <1>6, <1>7
  <2>2. QED BY <1>6, <2>1, RarSlice
<1> HIDE DEF a, b, g, n
<1> DEFINE new == <<a>> \o (IF c.encrypted THEN <<b>> ELSE <<>>)
<1>10. VolumeReports(c.len) = new
  BY <1>1, <1>5 DEF VolumeReports, a, b, g, n, c
<1>11. new \in Seq(S) /\ DOMAIN new = 1 .. (IF c.encrypted THEN 2 ELSE 1) /\ new[1] = a /\ (c.encrypted => new[2] = b)
  <2>1. a \in S /\ b \in S /\ c.encrypted \in BOOLEAN
    BY <1>5, <1>8, <1>9
  <2> HIDE DEF S
  <2>2. QED BY ONLY <2>1, OneOrTwo
<1> HIDE DEF new
<1>12. RarRight(a)
  <2>1. WalkStart + k = a.from + MARK_LEN
    BY <1>1, <1>8
  <2>2. QED BY <1>2, <1>4, <1>8, <2>1 DEF RarRight
<1>13. ASSUME c.encrypted PROVE RarRight(b)
  <2>1. WalkStart + k = b.from + MARK_LEN
    BY <1>1, <1>9
  <2>2. b.to >= b.from + MARK_LEN + c.len /\ b.to <= b.from + (2 * (MARK_LEN + c.len))
    <3>1. b.to \in Nat
      BY <1>9
    <3>2. QED BY <1>1, <1>5, <1>6, <1>7, <1>9, <3>1 DEF n
  <2>3. QED BY <1>4, <1>9, <1>13, <2>1, <2>2 DEF RarRight
<1>14. \A i \in DOMAIN new : (i = 1 /\ new[i] = a) \/ (i = 2 /\ c.encrypted /\ new[i] = b)
  BY <1>5, <1>11
<1>15. QED BY <1>8, <1>9, <1>10, <1>11, <1>12, <1>13, <1>14 DEF RarAdds, c

\* The sizes of a header make sense as the property says it.
LEMMA SizesSensible ==
  ASSUME NEW p \in Nat, NEW u \in Nat
  PROVE  p > 0 /\ u > 0 /\ 19 * p <= 20 * u <=> 0 < p /\ p <= u + (u \div 19)
<1>1. u = 19 * (u \div 19) + (u % 19) /\ u \div 19 \in Nat /\ u % 19 \in 0 .. 18
  OBVIOUS
<1>2. QED BY <1>1
LEMMA NameSensible ==
  ASSUME NEW c \in RarCells, c.is = "file", c.unicode => c.utf8
  PROVE  NameOf(c) > 0 <=> c.name > 0 /\ (c.unicode => c.zero # c.name - 1)
<1>1. c.name \in Nat /\ c.zero \in Nat /\ c.zero <= c.name /\ c.unicode \in BOOLEAN
  BY FileCell
<1>2. CASE ~c.unicode
  BY <1>1, <1>2 DEF NameOf
<1>3. CASE c.unicode /\ c.zero = c.name
  BY <1>1, <1>3 DEF NameOf
<1>4. CASE c.unicode /\ c.zero # c.name
  <2>1. NameOf(c) = c.name - (c.zero + 1)
    BY <1>1, <1>4 DEF NameOf
  <2>2. QED BY <1>1, <1>4, <2>1
<1>5. QED BY <1>1, <1>2, <1>3, <1>4

LEMMA ComponentIs ==
  ASSUME RarTyped, ~WalkDone, pos < bufsize
  PROVE  LET c == CellAt(WalkStart + pos)
         IN  /\ Here(pos) = c /\ c \in RarCells
             /\ process_component <=>
                  /\ c.is = "file" /\ c.len >= FILE_HEAD_MIN_LEN /\ pos + c.len <= bufsize /\ Sensible(c)
                  /\ ~(c.big /\ pos + FILE_HEAD_MIN_LEN + OPTIONAL_BIGFILE_LEN > bufsize)
<1> DEFINE c == CellAt(WalkStart + pos)
<1>1. pos \in Nat /\ Here(pos) = c /\ c \in RarCells
  BY RarHere DEF RarTyped
<1> HIDE DEF c
<1>2. CASE c.is # "file"
  BY <1>1, <1>2 DEF process_component, IsHeader, c
<1>3. CASE c.is = "file"
  <2>1. c.packed \in Nat /\ c.unpacked \in Nat
    BY <1>1, <1>3, FileCell
  <2>2. SizesMakeSense(c) <=> 0 < c.packed /\ c.packed <= c.unpacked + (c.unpacked \div 19)
    BY <2>1, SizesSensible DEF SizesMakeSense
  <2>3. (c.unicode => c.utf8) => (NameOf(c) > 0 <=> c.name > 0 /\ (c.unicode => c.zero # c.name - 1))
    BY <1>1, <1>3, NameSensible
  <2>4. QED BY <1>1, <1>3, <2>2, <2>3 DEF process_component, IsHeader, HeaderThrows, Sensible, c
<1>4. QED BY <1>2, <1>3

LEMMA ComponentAdds ==
  ASSUME RarTyped, ~WalkDone, pos < bufsize, process_component
  PROVE  /\ RarAdds(ComponentReports)
         /\ \E i \in DOMAIN ComponentReports : ComponentReports[i].kind = "component"
         /\ ~CellAt(WalkStart + pos).stored /\ CellAt(WalkStart + pos).unpacked <= RAR_MEMORY =>
              \E i \in DOMAIN ComponentReports : ComponentReports[i].kind = "RAR"
<1> DEFINE c == CellAt(WalkStart + pos)
           a == Slice("component", pos, c.len)
           b == Slice("RAR", pos, c.len + c.packed)
           p == ~(c.stored \/ c.unpacked > RAR_MEMORY)
           S == [kind : {"volume", "encrypted", "component", "RAR"}, from : {WalkStart + pos}, to : Nat]
<1>1. bufsize \in Nat /\ WalkStart \in Nat /\ pos \in Nat /\ RAR_MEMORY \in Nat
  BY RarWalks, InWalk, RarSizes DEF RarTyped
<1>2. Here(pos) = c /\ c \in RarCells /\ c.is = "file" /\ pos + c.len <= bufsize /\ Sensible(c)
  BY ComponentIs
<1> HIDE DEF c
<1>3. c.len \in Nat /\ c.packed \in Nat /\ c.unpacked \in Nat /\ c.stored \in BOOLEAN
  BY <1>2, FileCell
<1>4. a \in S /\ a.kind = "component" /\ a.from = WalkStart + pos /\ a.to = WalkStart + pos + c.len
  BY <1>1, <1>2, <1>3, RarSlice
<1>5. b \in S /\ b.kind = "RAR" /\ b.from = WalkStart + pos /\ b.to >= WalkStart + pos + c.len
  <2>1. c.len + c.packed \in Nat /\ c.len <= c.len + c.packed
    BY <1>3
  <2>2. QED BY <1>2, <1>3, <2>1, RarSlice
<1> HIDE DEF a, b
<1> DEFINE new == <<a>> \o (IF p THEN <<b>> ELSE <<>>)
<1>6. ComponentReports = new
  <2>1. CASE p
    BY <1>2, <2>1 DEF ComponentReports, a, b
  <2>2. CASE ~p
    BY <1>2, <2>2 DEF ComponentReports, a, b
  <2>3. QED BY <2>1, <2>2
<1>7. new \in Seq(S) /\ DOMAIN new = 1 .. (IF p THEN 2 ELSE 1) /\ new[1] = a /\ (p => new[2] = b)
  <2>1. a \in S /\ b \in S /\ p \in BOOLEAN
    BY <1>4, <1>5
  <2> HIDE DEF p, S
  <2>2. QED BY ONLY <2>1, OneOrTwo
<1> HIDE DEF new
<1>8. RarRight(a)
  BY <1>2, <1>4 DEF RarRight, c
<1>9. ASSUME p PROVE RarRight(b)
  BY <1>2, <1>5, <1>9 DEF RarRight, c
<1>10. \A i \in DOMAIN new : (i = 1 /\ new[i] = a) \/ (i = 2 /\ p /\ new[i] = b)
  BY <1>7
<1>11. RarAdds(new)
  BY <1>4, <1>5, <1>7, <1>8, <1>9, <1>10 DEF RarAdds
<1>12. 1 \in DOMAIN new /\ (p => 2 \in DOMAIN new)
  BY <1>7
<1>13. ~c.stored /\ c.unpacked <= RAR_MEMORY => p
  BY <1>1, <1>3
<1>14. QED BY <1>4, <1>5, <1>6, <1>7, <1>11, <1>12, <1>13 DEF c

-----------------------------------------------------------------------------
\* Behind a page, what the margin had is in the margin.
LEMMA MarginMod ==
  ASSUME NEW s \in Nat \ {0}, NEW n \in Nat, NEW q \in Nat, n * s <= q
  PROVE  q % s <= q - n * s
<1>1. n * s \in Nat
  OBVIOUS
<1>2. q = s * (q \div s) + (q % s) /\ q % s \in 0 .. s - 1 /\ q \div s \in Nat
  OBVIOUS
<1>3. CASE q < n * s + s
  <2>1. (n + 1) * s = n * s + s
    OBVIOUS
  <2>2. q \div s = n
    BY <1>3, <2>1, DivOf
  <2>3. s * n = n * s
    OBVIOUS
  <2>4. QED BY <1>1, <1>2, <2>2, <2>3
<1>4. CASE q >= n * s + s
  BY <1>1, <1>2, <1>4
<1>5. QED BY <1>1, <1>3, <1>4

LEMMA SomeCounted ==
  ASSUME NEW n \in Nat, NEW S \in SUBSET (1 .. n)
  PROVE  Cardinality(S) > 0 <=> S # {}
<1> DEFINE N == 1 .. n
<1>1. IsFiniteSet(N) /\ S \in SUBSET N
  BY FS_Interval
<1> HIDE DEF N
<1>2. IsFiniteSet(S)
  BY <1>1, FS_Subset
<1>3. Cardinality(S) \in Nat
  BY <1>2, FS_CardinalityType
<1>4. Cardinality(S) = 0 <=> S = {}
  BY <1>2, FS_EmptySet
<1> DEFINE c == Cardinality(S)
<1>5. c > 0 <=> c # 0
  <2>1. c \in Nat
    BY <1>3
  <2> HIDE DEF c
  <2>2. QED BY <2>1
<1>6. QED BY <1>4, <1>5

\* The scanner goes on, or leaves the page.
RarOn == page' = page /\ pos' = pos + 1
RarOff == page' = page + 1 /\ pos' = 0
LEMMA RarTypedKept ==
  ASSUME RarTyped, ~WalkDone, NEW new, RarAdds(new), reports' = reports \o new,
         scanner' = scanner, image' = image, (RarOn /\ pos < bufsize) \/ RarOff
  PROVE  RarTyped'
<1> DEFINE S == [kind : {"volume", "encrypted", "component", "RAR"}, from : Nat, to : Nat]
<1>1. /\ image.pagesize \in Nat \ {0} /\ image.margin \in Nat /\ ImageSize \in Nat /\ WalkStart \in Nat /\ bufsize \in Nat
      /\ pos \in Nat /\ page \in Nat
  BY RarWalks, InWalk DEF RarTyped, Walking
<1>2. reports' \in Seq(S)
  <2>1. reports \in Seq(S)
    BY DEF RarTyped
  <2>2. new \in Seq(S)
    <3>1. [kind : {"volume", "encrypted", "component", "RAR"}, from : {WalkStart + pos}, to : Nat] \subseteq S
      BY <1>1
    <3> DEFINE T == [kind : {"volume", "encrypted", "component", "RAR"}, from : {WalkStart + pos}, to : Nat]
    <3>2. new \in Seq(T)
      BY DEF RarAdds
    <3> HIDE DEF T, S
    <3>3. Len(new) \in Nat /\ new = [i \in 1 .. Len(new) |-> new[i]] /\ \A i \in 1 .. Len(new) : new[i] \in T
      BY <3>2
    <3>4. \A i \in 1 .. Len(new) : new[i] \in S
      BY <3>1, <3>3 DEF T
    <3>5. QED BY <3>3, <3>4
  <2> HIDE DEF S
  <2>3. QED BY <2>1, <2>2
<1>3. scanner' = "rar" /\ RarImage' /\ page' \in Nat /\ pos' \in Nat
  BY <1>1 DEF RarTyped, RarImage, RarOn, RarOff
<1>4. ASSUME ~WalkDone' PROVE pos' <= bufsize'
  <2>1. CASE RarOn /\ pos < bufsize
    <3>1. bufsize' = bufsize
      BY <2>1 DEF RarOn, bufsize, Least, ImageSize, WalkStart
    <3>2. QED BY <1>1, <2>1, <3>1 DEF RarOn
  <2>2. CASE RarOff
    <3>1. WalkStart' \in Nat /\ ImageSize' = ImageSize /\ image' = image
      <4>1. Walking /\ WalkStart' = WalkStart + image.pagesize
        BY <2>2, RarWalks, WalksOn DEF RarOff
      <4>2. QED BY <1>1, <4>1 DEF ImageSize
    <3>2. WalkStart' < ImageSize'
      BY <1>1, <1>4, <3>1 DEF WalkDone
    <3>3. bufsize' \in Nat
      <4>1. bufsize' = Least(image.pagesize + image.margin, ImageSize - WalkStart')
        BY <3>1 DEF bufsize, Least
      <4>2. image.pagesize + image.margin \in Nat /\ ImageSize - WalkStart' \in Nat
        <5>1. image.pagesize + image.margin \in Nat
          BY <1>1
        <5>2. \A a, b \in Nat : a < b => b - a \in Nat
          OBVIOUS
        <5>3. ImageSize \in Nat /\ WalkStart' \in Nat /\ WalkStart' < ImageSize
          BY <1>1, <3>1, <3>2
        <5>4. QED BY <5>1, <5>2, <5>3
      <4>3. QED BY <4>1, <4>2 DEF Least
    <3>4. QED BY <2>2, <3>3 DEF RarOff
  <2>3. QED BY <2>1, <2>2
<1>5. QED BY <1>2, <1>3, <1>4 DEF RarTyped

LEMMA RarKeeps ==
  ASSUME RarInv, ~WalkDone, NEW new, RarAdds(new), reports' = reports \o new, new # <<>> => pos < bufsize,
         scanner' = scanner, image' = image, (RarOn /\ pos < bufsize) \/ RarOff
  PROVE  RarTyped' /\ RarOnce' /\ RarBefore' /\ (\A i \in DOMAIN reports : RarRight(reports[i]))'
<1> USE DEF RarInv
<1>1. /\ image.pagesize \in Nat \ {0} /\ image.margin \in Nat /\ ImageSize \in Nat /\ WalkStart \in Nat /\ bufsize \in Nat
      /\ pos \in Nat /\ page \in Nat /\ pos <= bufsize /\ bufsize <= image.pagesize + image.margin
  <2>1. image.pagesize \in Nat \ {0} /\ image.margin \in Nat /\ ImageSize \in Nat /\ WalkStart \in Nat /\ bufsize \in Nat /\ pos \in Nat /\ page \in Nat
    BY RarWalks, InWalk DEF RarTyped, Walking
  <2>2. QED BY <2>1 DEF RarTyped, bufsize, Least
<1>2. RarTyped'
  BY RarTypedKept
<1>3. /\ Len(reports) \in Nat /\ Len(new) \in Nat /\ DOMAIN reports = 1 .. Len(reports) /\ DOMAIN new = 1 .. Len(new)
      /\ DOMAIN reports' = 1 .. Len(reports) + Len(new)
      /\ \A i \in DOMAIN reports : reports'[i] = reports[i] /\ reports[i].from \in Nat
      /\ \A i \in DOMAIN reports' : i \notin DOMAIN reports => i - Len(reports) \in DOMAIN new /\ reports'[i] = new[i - Len(reports)]
      /\ \A i \in DOMAIN new : new[i].from = WalkStart + pos /\ pos < bufsize
  <2>1. reports \in Seq([kind : {"volume", "encrypted", "component", "RAR"}, from : Nat, to : Nat])
    BY DEF RarTyped
  <2>2. new \in Seq([kind : {"volume", "encrypted", "component", "RAR"}, from : {WalkStart + pos}, to : Nat])
    BY DEF RarAdds
  <2>3. \A i \in DOMAIN new : new # <<>>
    BY <2>2
  <2> DEFINE S == [kind : {"volume", "encrypted", "component", "RAR"}, from : Nat, to : Nat]
             T == [kind : {"volume", "encrypted", "component", "RAR"}, from : {WalkStart + pos}, to : Nat]
  <2>7. reports \in Seq(S) /\ new \in Seq(T)
    BY <2>1, <2>2
  <2>8. (\A r \in S : r.from \in Nat) /\ (\A r \in T : r.from = WalkStart + pos)
    OBVIOUS
  <2> HIDE DEF S, T
  <2>9. (\A i \in DOMAIN reports : reports[i] \in S) /\ (\A i \in DOMAIN new : new[i] \in T)
    BY <2>7
  <2>4. \A i \in DOMAIN reports : reports[i].from \in Nat
    BY <2>8, <2>9
  <2>5. \A i \in DOMAIN new : new[i].from = WalkStart + pos
    BY <2>8, <2>9
  <2>6. QED
    <3>1. Len(reports) \in Nat /\ Len(new) \in Nat /\ DOMAIN reports = 1 .. Len(reports) /\ DOMAIN new = 1 .. Len(new)
      BY <2>7
    <3>2. DOMAIN reports' = 1 .. Len(reports) + Len(new) /\ (\A i \in DOMAIN reports : reports'[i] = reports[i])
      BY <2>7
    <3>3. \A i \in DOMAIN reports' : i \notin DOMAIN reports => i - Len(reports) \in DOMAIN new /\ reports'[i] = new[i - Len(reports)]
      BY <2>7
    <3>4. QED BY <2>3, <2>4, <2>5, <3>1, <3>2, <3>3
<1>4. \A i \in DOMAIN reports' : reports'[i].from \in Nat /\ (i \in DOMAIN reports \/ reports'[i].from = WalkStart + pos)
  BY <1>1, <1>3, SMTT(30)
<1>5. \A q : InMargin(q)' <=> InMargin(q)
  BY DEF InMargin
<1>6. RarOnce'
  <2> SUFFICES ASSUME NEW i \in DOMAIN reports', NEW j \in DOMAIN reports', i # j, reports'[i].kind = reports'[j].kind, reports'[i].from = reports'[j].from
               PROVE  InMargin(reports'[i].from)
    BY <1>5 DEF RarOnce
  <2>1. CASE i \in DOMAIN reports /\ j \in DOMAIN reports
    BY <1>3, <2>1 DEF RarOnce
  <2>2. CASE i \notin DOMAIN reports /\ j \notin DOMAIN reports
    <3>1. i - Len(reports) \in DOMAIN new /\ j - Len(reports) \in DOMAIN new /\ i - Len(reports) # j - Len(reports)
      BY <1>3, <2>2
    <3>2. new[i - Len(reports)].kind # new[j - Len(reports)].kind
      BY <3>1 DEF RarAdds
    <3>3. QED BY <1>3, <2>2, <3>2
  <2>3. ASSUME NEW k \in DOMAIN reports, reports[k].from = WalkStart + pos PROVE InMargin(WalkStart + pos)
    <3>1. ~(reports[k].from < WalkStart + pos)
      BY <1>1, <2>3
    <3>2. QED BY <2>3, <3>1 DEF RarBefore
  <2>4. CASE i \in DOMAIN reports /\ j \notin DOMAIN reports
    BY <1>3, <1>4, <2>3, <2>4
  <2>5. CASE i \notin DOMAIN reports /\ j \in DOMAIN reports
    BY <1>3, <1>4, <2>3, <2>5
  <2>6. QED BY <2>1, <2>2, <2>4, <2>5
<1>7. RarBefore'
  <2> SUFFICES ASSUME ~WalkDone', NEW i \in DOMAIN reports' PROVE reports'[i].from < WalkStart' + pos' \/ InMargin(reports'[i].from)
    BY <1>5 DEF RarBefore
  <2>1. (reports'[i].from < WalkStart + bufsize /\ reports'[i].from < WalkStart + pos + 1) \/ InMargin(reports'[i].from)
    <3>1. CASE i \in DOMAIN reports
      <4>1. reports[i].from < WalkStart + pos \/ InMargin(reports[i].from)
        BY <3>1 DEF RarBefore
      <4>2. QED BY <1>1, <1>3, <3>1, <4>1
    <3>2. CASE i \notin DOMAIN reports
      BY <1>1, <1>3, <3>2
    <3>3. QED BY <3>1, <3>2
  <2>2. CASE RarOn
    <3>1. WalkStart' + pos' = WalkStart + pos + 1
      BY <1>1, <2>2, SMTT(60) DEF RarOn, WalkStart
    <3>2. QED BY <2>1, <3>1
  <2>3. CASE RarOff
    <3>1. WalkStart' + pos' = WalkStart + image.pagesize
      BY <1>1, <2>3, RarWalks, WalksOn DEF RarOff
    <3>2. CASE reports'[i].from >= WalkStart + image.pagesize /\ ~InMargin(reports'[i].from)
      <4>1. (page + 1) * image.pagesize = WalkStart + image.pagesize
        <5>1. \A a, b \in Nat : (a + 1) * b = a * b + b
          OBVIOUS
        <5>2. QED BY <1>1, <5>1 DEF WalkStart
      <4>2. reports'[i].from % image.pagesize <= reports'[i].from - (WalkStart + image.pagesize)
        <5>1. page + 1 \in Nat /\ (page + 1) * image.pagesize <= reports'[i].from /\ reports'[i].from \in Nat
          BY <1>1, <1>4, <3>2, <4>1
        <5>2. QED BY <1>1, <4>1, <5>1, MarginMod
      <4>3. reports'[i].from < WalkStart + bufsize
        BY <2>1, <3>2
      <4>4. reports'[i].from - (WalkStart + image.pagesize) < image.margin
        <5>1. /\ WalkStart \in Nat /\ bufsize \in Nat /\ image.pagesize \in Nat /\ image.margin \in Nat
              /\ bufsize <= image.pagesize + image.margin
          BY <1>1
        <5>2. reports'[i].from \in Nat
          BY <1>4
        <5>3. QED BY ONLY <4>3, <5>1, <5>2
      <4>5. reports'[i].from % image.pagesize < image.margin /\ reports'[i].from >= image.pagesize
        <5>1. reports'[i].from \in Nat
          BY <1>4
        <5>2. reports'[i].from % image.pagesize \in Int
          BY <1>1, <5>1
        <5> DEFINE m == reports'[i].from % image.pagesize
                   f == reports'[i].from
        <5>3. m \in Int /\ f \in Nat /\ m <= f - (WalkStart + image.pagesize) /\ f - (WalkStart + image.pagesize) < image.margin /\ f >= WalkStart + image.pagesize
          BY <3>2, <4>2, <4>4, <5>1, <5>2
        <5> HIDE DEF m, f
        <5>4. m < image.margin /\ f >= image.pagesize
          BY <1>1, <5>3, SMTT(30)
        <5>5. QED BY <5>4 DEF m, f
      <4>6. QED BY <4>5 DEF InMargin
    <3>3. QED BY <1>1, <1>4, <3>1, <3>2, SMTT(30)
  <2>4. QED BY <2>2, <2>3
<1>8. (\A i \in DOMAIN reports : RarRight(reports[i]))'
  <2>1. \A r : RarRight(r)' <=> RarRight(r)
    BY DEF RarRight, Sensible, CellAt
  <2>2. \A i \in DOMAIN reports' : RarRight(reports'[i])
    BY <1>3 DEF RarAdds
  <2>3. QED BY <2>1, <2>2
<1>9. QED BY <1>2, <1>6, <1>7, <1>8

\* What a round of the loop reports.
LEMMA RarNew ==
  ASSUME RarTyped, ~WalkDone, pos < bufsize
  PROVE  \E new :
           /\ RarAdds(new) /\ (process_component => new = ComponentReports)
           /\ reports \o (IF IsVolume THEN VolumeReports(Here(pos + MARK_LEN).len) ELSE <<>>)
                      \o (IF process_component THEN ComponentReports ELSE <<>>) = reports \o new
<1> DEFINE V == VolumeReports(Here(pos + MARK_LEN).len)
           C == ComponentReports
           S == [kind : {"volume", "encrypted", "component", "RAR"}, from : Nat, to : Nat]
           T == [kind : {"volume", "encrypted", "component", "RAR"}, from : {WalkStart + pos}, to : Nat]
<1>1. reports \in Seq(S)
  BY DEF RarTyped
<1> HIDE DEF V, C, S
<1>2. CASE IsVolume
  <2>1. ~process_component
    BY <1>2 DEF IsVolume, process_component, IsHeader
  <2>2. RarAdds(V) /\ V \in Seq(T)
    BY <1>2, VolumeAdds DEF V, RarAdds
  <2> HIDE DEF T
  <2>3. reports \o V \o <<>> = reports \o V
    BY <1>1, <2>2
  <2>4. QED BY <1>2, <2>1, <2>2, <2>3 DEF V
<1>3. CASE ~IsVolume
  <2>1. reports \o <<>> = reports
    BY <1>1
  <2>2. CASE process_component
    <3>1. RarAdds(C)
      BY <2>2, ComponentAdds DEF C
    <3>2. QED BY <1>3, <2>1, <2>2, <3>1 DEF C
  <2>3. CASE ~process_component
    <3>1. RarAdds(<<>>)
      BY DEF RarAdds
    <3>2. QED BY <1>3, <2>1, <2>3, <3>1
  <2>4. QED BY <2>2, <2>3
<1>4. QED BY <1>2, <1>3

\* What is found stays found.
Had(kind, q) == \E i \in DOMAIN reports : reports[i].kind = kind /\ reports[i].from = q
LEMMA HadIs ==
  ASSUME RarTyped, RarTyped', NEW kind, NEW q
  PROVE  (Found(kind, q) > 0 <=> Had(kind, q)) /\ (Found(kind, q)' > 0 <=> Had(kind, q)')
<1> DEFINE S == [kind : {"volume", "encrypted", "component", "RAR"}, from : Nat, to : Nat]
<1>1. reports \in Seq(S) /\ reports' \in Seq(S)
  BY DEF RarTyped
<1> HIDE DEF S
<1>2. Len(reports) \in Nat /\ DOMAIN reports = 1 .. Len(reports) /\ Len(reports') \in Nat /\ DOMAIN reports' = 1 .. Len(reports')
  BY <1>1
<1> DEFINE F == {i \in DOMAIN reports : reports[i].kind = kind /\ reports[i].from = q}
           G == {i \in DOMAIN reports' : reports'[i].kind = kind /\ reports'[i].from = q}
<1>3. Found(kind, q) > 0 <=> Had(kind, q)
  <2>1. F \in SUBSET (1 .. Len(reports)) /\ Found(kind, q) = Cardinality(F) /\ (F # {} <=> Had(kind, q))
    BY <1>2 DEF Found, Had
  <2> HIDE DEF F
  <2>2. QED BY <1>2, <2>1, SomeCounted
<1>4. Found(kind, q)' > 0 <=> Had(kind, q)'
  <2>1. G \in SUBSET (1 .. Len(reports')) /\ Found(kind, q)' = Cardinality(G) /\ (G # {} <=> Had(kind, q)')
    BY <1>2 DEF Found, Had
  <2> HIDE DEF G
  <2>2. QED BY <1>2, <2>1, SomeCounted
<1>5. QED BY <1>3, <1>4

Due(q) ==
  /\ q + CellAt(q).len <= SbufBound(q) /\ q + FILE_HEAD_MIN_LEN < SbufBound(q) /\ CellAt(q).len >= FILE_HEAD_MIN_LEN
  /\ CellAt(q).big => q + FILE_HEAD_MIN_LEN + OPTIONAL_BIGFILE_LEN <= SbufBound(q)
  /\ Sensible(CellAt(q)) /\ ~Ended(q)
LEMMA DueFound ==
  ASSUME RarTyped, RarTyped', image' = image, NEW q
  PROVE  /\ ComponentFound(q) <=>
              (Due(q) => Had("component", q) /\ (~CellAt(q).stored /\ CellAt(q).unpacked <= RAR_MEMORY => Had("RAR", q)))
         /\ ComponentFound(q)' <=>
              (Due(q) => Had("component", q)' /\ (~CellAt(q).stored /\ CellAt(q).unpacked <= RAR_MEMORY => Had("RAR", q)'))
<1>1. CellAt(q)' = CellAt(q)
  BY DEF CellAt
<1>2. Due(q)' <=> Due(q)
  BY DEF Due, CellAt, SbufBound, PageFirst, ImageSize, Least, Ended, Sensible
<1>3. ComponentFound(q) <=>
        (Due(q) => Found("component", q) > 0 /\ (~CellAt(q).stored /\ CellAt(q).unpacked <= RAR_MEMORY => Found("RAR", q) > 0))
  BY DEF ComponentFound, Due
<1>4. ComponentFound(q)' <=>
        (Due(q)' => Found("component", q)' > 0 /\ (~CellAt(q)'.stored /\ CellAt(q)'.unpacked <= RAR_MEMORY => Found("RAR", q)' > 0))
  BY DEF ComponentFound, Due
<1>5. QED BY <1>1, <1>2, <1>3, <1>4, HadIs

LEMMA HadStays ==
  ASSUME RarTyped, NEW new, RarAdds(new), reports' = reports \o new, NEW kind, NEW q
  PROVE  /\ Had(kind, q) => Had(kind, q)'
         /\ q = WalkStart + pos /\ (\E i \in DOMAIN new : new[i].kind = kind) => Had(kind, q)'
<1> DEFINE S == [kind : {"volume", "encrypted", "component", "RAR"}, from : Nat, to : Nat]
           T == [kind : {"volume", "encrypted", "component", "RAR"}, from : {WalkStart + pos}, to : Nat]
<1>1. reports \in Seq(S) /\ new \in Seq(T)
  BY DEF RarTyped, RarAdds
<1>2. \A r \in T : r.from = WalkStart + pos
  OBVIOUS
<1> HIDE DEF S, T
<1>3. /\ \A i \in DOMAIN reports : i \in DOMAIN reports' /\ reports'[i] = reports[i]
      /\ \A i \in DOMAIN new : Len(reports) + i \in DOMAIN reports' /\ reports'[Len(reports) + i] = new[i] /\ new[i] \in T
  BY <1>1
<1>4. Had(kind, q) => Had(kind, q)'
  BY <1>3 DEF Had
<1>5. ASSUME q = WalkStart + pos, NEW i \in DOMAIN new, new[i].kind = kind PROVE Had(kind, q)'
  <2>1. Len(reports) + i \in DOMAIN reports' /\ reports'[Len(reports) + i].kind = kind /\ reports'[Len(reports) + i].from = q
    BY <1>2, <1>3, <1>5
  <2>2. QED BY <2>1 DEF Had
<1>6. QED BY <1>4, <1>5

\* A header the scanner has before it is found; one that it leaves behind it is not due.
LEMMA RarLooks ==
  ASSUME RarInv, RarTyped', ~WalkDone, scanner' = scanner, image' = image,
         NEW new, RarAdds(new), reports' = reports \o new,
         \/ /\ pos + FILE_HEAD_MIN_LEN < bufsize /\ (process_component => new = ComponentReports)
            /\ (RarThrows /\ RarOff) \/ (~RarThrows /\ RarOn)
         \/ pos + FILE_HEAD_MIN_LEN >= bufsize /\ RarOff,
         NEW q \in Places, CellAt(q).is = "file", q >= WalkStart + pos, q < WalkStart + pagesize, RarOff \/ q = WalkStart + pos
  PROVE  ComponentFound(q)'
<1>1. /\ bufsize \in Nat /\ WalkStart \in Nat /\ pos \in Nat /\ pagesize \in Nat /\ ImageSize \in Nat /\ q \in Nat /\ pagesize <= bufsize
      /\ FILE_HEAD_MIN_LEN \in Nat /\ OPTIONAL_BIGFILE_LEN \in Nat /\ RAR_MEMORY \in Nat /\ ImageSize = Len(image.cells)
  BY RarWalks, InWalk, RarSizes DEF RarInv, RarTyped, Places, Walking
<1>2. SbufBound(q) = WalkStart + bufsize /\ PageFirst(q) = WalkStart
  <2>1. Walking /\ WalkStart <= q
    BY <1>1, RarWalks DEF RarInv
  <2>2. QED BY <1>1, <2>1, InWalk
<1>3. RarTyped
  BY DEF RarInv
<1> SUFFICES ASSUME Due(q) PROVE Had("component", q)' /\ (~CellAt(q).stored /\ CellAt(q).unpacked <= RAR_MEMORY => Had("RAR", q)')
  BY <1>3, DueFound
<1>4. CellAt(q) \in RarCells /\ CellAt(q).len \in Nat
  <2>1. q + 1 \in 1 .. Len(image.cells) /\ image.cells \in Seq(RarCells)
    BY <1>1, <1>3 DEF Places, RarTyped, RarImage
  <2>2. CellAt(q) \in RarCells
    BY <2>1 DEF CellAt
  <2>3. QED BY <2>2, FileCell
<1>5. q + FILE_HEAD_MIN_LEN < WalkStart + bufsize
  BY <1>2 DEF Due
<1>6. pos + FILE_HEAD_MIN_LEN < bufsize /\ pos < bufsize
  BY <1>1, <1>5
<1>7. CASE q = WalkStart + pos
  <2>1. /\ pos + CellAt(q).len <= bufsize /\ CellAt(q).len >= FILE_HEAD_MIN_LEN /\ Sensible(CellAt(q))
        /\ ~(CellAt(q).big /\ pos + FILE_HEAD_MIN_LEN + OPTIONAL_BIGFILE_LEN > bufsize)
    BY <1>1, <1>2, <1>4, <1>7 DEF Due
  <2>2. process_component
    BY <1>3, <1>6, <1>7, <2>1, ComponentIs
  <2>3. new = ComponentReports
    BY <1>1, <1>6, <2>2
  <2>4. /\ \E i \in DOMAIN new : new[i].kind = "component"
        /\ ~CellAt(q).stored /\ CellAt(q).unpacked <= RAR_MEMORY => \E i \in DOMAIN new : new[i].kind = "RAR"
    BY <1>3, <1>6, <1>7, <2>2, <2>3, ComponentAdds
  <2>5. QED BY <1>3, <1>7, <2>4, HadStays
<1>8. CASE q # WalkStart + pos
  <2>1. RarThrows /\ q > WalkStart + pos
    BY <1>1, <1>6, <1>8 DEF RarOn, RarOff
  <2> DEFINE k == WalkStart + pos
             c == CellAt(k)
  <2>2. Here(pos) = c /\ c \in RarCells /\ (process_component => c.is = "file")
    BY <1>3, <1>6, ComponentIs
  <2>3. c.is = "file" /\ (c.unpacked > RAR_MEMORY \/ (c.big /\ pos + FILE_HEAD_MIN_LEN + OPTIONAL_BIGFILE_LEN > bufsize))
    <3>1. CASE HeaderThrows
      BY <2>2, <3>1 DEF HeaderThrows, IsHeader
    <3>2. CASE process_component /\ Here(pos).unpacked > RAR_MEMORY
      BY <2>2, <3>2
    <3>3. QED BY <2>1, <3>1, <3>2 DEF RarThrows
  <2>4. k \in PageFirst(q) .. q - 1 /\ (c.big /\ pos + FILE_HEAD_MIN_LEN + OPTIONAL_BIGFILE_LEN > bufsize =>
                                        c.big /\ k + FILE_HEAD_MIN_LEN + OPTIONAL_BIGFILE_LEN > SbufBound(q))
    BY <1>1, <1>2, <2>1
  <2>5. Ended(q)
    BY <2>3, <2>4 DEF Ended
  <2>6. QED BY <2>5 DEF Due
<1>9. QED BY <1>7, <1>8

LEMMA RarPasses ==
  ASSUME RarInv, RarTyped', ~WalkDone, scanner' = scanner, image' = image,
         NEW new, RarAdds(new), reports' = reports \o new,
         \/ /\ pos + FILE_HEAD_MIN_LEN < bufsize /\ (process_component => new = ComponentReports)
            /\ (RarThrows /\ RarOff) \/ (~RarThrows /\ RarOn)
         \/ pos + FILE_HEAD_MIN_LEN >= bufsize /\ RarOff
  PROVE  RarPassed'
<1>1. /\ bufsize \in Nat /\ WalkStart \in Nat /\ pos \in Nat /\ pagesize \in Nat /\ ImageSize \in Nat /\ image.pagesize \in Nat
  BY RarWalks, InWalk DEF RarInv, RarTyped, Walking
<1>2. RarTyped
  BY DEF RarInv
<1> SUFFICES ASSUME NEW q \in Places', CellAt(q)'.is = "file", q < WalkStart' \/ (q < WalkStart' + pos' /\ q < WalkStart' + pagesize')
             PROVE  ComponentFound(q)'
  BY DEF RarPassed
<1>3. q \in Places /\ CellAt(q).is = "file" /\ q \in Nat /\ q < ImageSize
  BY <1>1 DEF Places, ImageSize, CellAt
<1>4. CASE q < WalkStart \/ (q < WalkStart + pos /\ q < WalkStart + pagesize)
  <2>1. ComponentFound(q)
    BY <1>3, <1>4 DEF RarInv, RarPassed
  <2>2. /\ Had("component", q) => Had("component", q)'
        /\ Had("RAR", q) => Had("RAR", q)'
    BY <1>2, HadStays
  <2>3. QED BY <1>2, <2>1, <2>2, DueFound
<1>5. CASE ~(q < WalkStart \/ (q < WalkStart + pos /\ q < WalkStart + pagesize))
  <2>1. CASE RarOn
    <3>1. WalkStart' = WalkStart /\ pagesize' = pagesize /\ pos' = pos + 1
      BY <2>1 DEF RarOn, WalkStart, pagesize, Least, ImageSize
    <3>2. q = WalkStart + pos /\ q < WalkStart + pagesize
      <4>1. WalkStart \in Nat /\ pos \in Nat /\ pagesize \in Nat /\ q \in Nat
        BY <1>1, <1>3
      <4>2. q < WalkStart' \/ (q < WalkStart' + pos' /\ q < WalkStart' + pagesize')
        OBVIOUS
      <4>3. QED BY ONLY <1>5, <3>1, <4>1, <4>2
    <3>3. QED BY <1>1, <1>3, <3>2, RarLooks, SMTT(60)
  <2>2. CASE RarOff
    <3>1. WalkStart' = WalkStart + image.pagesize /\ pos' = 0
      BY <1>2, <2>2, RarWalks, WalksOn DEF RarOff
    <3>2. q < WalkStart + image.pagesize
      BY <1>1, <1>3, <3>1
    <3>3. q < WalkStart + pagesize
      BY <1>1, <1>3, <3>2 DEF pagesize, Least
    <3>4. q >= WalkStart + pos
      BY <1>1, <1>3, <1>5, <3>3
    <3>5. QED BY <1>3, <2>2, <3>3, <3>4, RarLooks
  <2>3. QED BY <2>1, <2>2
<1>6. QED BY <1>4, <1>5

LEMMA InitRar == ASSUME RarInit PROVE RarInv
<1>1. image.cells \in Seq(RarCells) /\ image.pagesize \in Nat \ {0} /\ image.margin \in Nat /\ page = 0 /\ pos = 0 /\ reports = <<>> /\ scanner = "rar"
  BY DEF RarInit, WalkInit, RarImage
<1>2. ImageSize \in Nat /\ WalkStart = 0
  BY <1>1 DEF ImageSize, WalkStart
<1>3. ASSUME ~WalkDone PROVE pos <= bufsize
  <2>1. 0 < ImageSize /\ image.pagesize + image.margin \in Nat
    BY <1>1, <1>2, <1>3 DEF WalkDone
  <2>2. bufsize \in Nat
    BY <1>2, <2>1 DEF bufsize, Least
  <2>3. QED BY <1>1, <2>2
<1>4. RarTyped
  BY <1>1, <1>3 DEF RarTyped, RarImage
<1>5. RarOnce /\ RarBefore /\ \A i \in DOMAIN reports : RarRight(reports[i])
  BY <1>1 DEF RarOnce, RarBefore
<1>6. RarPassed
  BY <1>1, <1>2 DEF RarPassed, Places
<1>7. QED BY <1>4, <1>5, <1>6 DEF RarInv

LEMMA NextRar == ASSUME RarInv, [RarStep \/ RarPageEnds]_walk_vars PROVE RarInv'
<1>1. RarTyped
  BY DEF RarInv
<1>2. CASE RarStep
  <2>1. ~WalkDone /\ pos + FILE_HEAD_MIN_LEN < bufsize /\ scanner' = scanner /\ image' = image /\ ((RarThrows /\ RarOff) \/ (~RarThrows /\ RarOn))
    BY <1>2 DEF RarStep, In, LeavePage, MoveTo, RarOn, RarOff
  <2>2. pos < bufsize
    <3>1. bufsize \in Nat /\ pos \in Nat /\ FILE_HEAD_MIN_LEN \in Nat
      BY <1>1, <2>1, RarWalks, InWalk, RarSizes DEF RarTyped
    <3>2. QED BY <2>1, <3>1
  <2>3. PICK new : RarAdds(new) /\ (process_component => new = ComponentReports) /\ reports' = reports \o new
    BY <1>1, <1>2, <2>1, <2>2, RarNew DEF RarStep
  <2>4. (RarOn /\ pos < bufsize) \/ RarOff
    BY <2>1, <2>2
  <2>5. RarTyped' /\ RarOnce' /\ RarBefore' /\ (\A i \in DOMAIN reports : RarRight(reports[i]))'
    BY <2>1, <2>2, <2>3, <2>4, RarKeeps
  <2>6. RarPassed'
    BY <2>1, <2>3, <2>5, RarPasses
  <2>7. QED BY <2>5, <2>6 DEF RarInv
<1>3. CASE RarPageEnds
  <2>1. ~WalkDone /\ pos + FILE_HEAD_MIN_LEN >= bufsize /\ scanner' = scanner /\ image' = image /\ RarOff /\ reports' = reports
    BY <1>3 DEF RarPageEnds, In, LeavePage, RarOff, Silent
  <2> DEFINE S == [kind : {"volume", "encrypted", "component", "RAR"}, from : Nat, to : Nat]
             new == <<>>
  <2>2. reports \in Seq(S)
    BY <1>1 DEF RarTyped
  <2>3. RarAdds(new)
    BY DEF RarAdds
  <2>4. reports' = reports \o new
    <3> HIDE DEF S
    <3>1. QED BY <2>1, <2>2
  <2>5. RarTyped' /\ RarOnce' /\ RarBefore' /\ (\A i \in DOMAIN reports : RarRight(reports[i]))'
    BY <2>1, <2>3, <2>4, RarKeeps
  <2>6. RarPassed'
    BY <2>1, <2>3, <2>4, <2>5, RarPasses
  <2>7. QED BY <2>5, <2>6 DEF RarInv
<1>4. CASE UNCHANGED walk_vars
  <2>1. UNCHANGED <<scanner, image, page, pos, memo, reports>>
    BY <1>4 DEF walk_vars
  <2>2. RarTyped'
    BY <1>1, <2>1 DEF RarTyped, RarImage, WalkDone, WalkStart, ImageSize, bufsize, Least
  <2>3. RarOnce' /\ RarBefore' /\ (\A i \in DOMAIN reports : RarRight(reports[i]))'
    <3>1. RarOnce'
      BY <2>1 DEF RarInv, RarOnce, InMargin
    <3>2. RarBefore'
      BY <2>1 DEF RarInv, RarBefore, InMargin, WalkDone, WalkStart, ImageSize
    <3>3. (\A i \in DOMAIN reports : RarRight(reports[i]))'
      <4>1. \A q : CellAt(q)' = CellAt(q)
        BY <2>1 DEF CellAt
      <4>2. \A i \in DOMAIN reports : RarRight(reports[i])
        BY DEF RarInv
      <4>3. QED BY ONLY <2>1, <4>1, <4>2 DEF RarRight, Sensible
    <3>4. QED BY ONLY <3>1, <3>2, <3>3
  <2>4. RarPassed'
    <3> SUFFICES ASSUME NEW q \in Places', CellAt(q)'.is = "file", q < WalkStart' \/ (q < WalkStart' + pos' /\ q < WalkStart' + pagesize')
                 PROVE  ComponentFound(q)'
      BY DEF RarPassed
    <3>1. q \in Places /\ CellAt(q).is = "file" /\ (q < WalkStart \/ (q < WalkStart + pos /\ q < WalkStart + pagesize))
      BY <2>1 DEF Places, ImageSize, CellAt, WalkStart, pagesize, Least
    <3>2. ComponentFound(q)
      BY <3>1 DEF RarInv, RarPassed
    <3>3. \A kind : Had(kind, q)' <=> Had(kind, q)
      BY <2>1 DEF Had
    <3>4. QED BY <1>1, <2>1, <2>2, <3>2, <3>3, DueFound
  <2>5. QED BY <2>2, <2>3, <2>4 DEF RarInv
<1>5. QED BY <1>2, <1>3, <1>4

\* RarSound, a part of FeaturesSound: over an image of any content, whatever the sizes of
\* headers and pages, what process_volume and process_component report has its mark or its
\* header where it begins, in full, and a component is reported once unless the margin has it.
THEOREM ArchivesAreWhole == RarSpec => []RarSound
<1>1. RarInv => RarSound
  <2> SUFFICES ASSUME RarInv, NEW i \in DOMAIN reports, reports[i].kind \notin {"volume", "encrypted"}, ~InMargin(reports[i].from)
               PROVE  Found(reports[i].kind, reports[i].from) = 1
    BY DEF RarInv, RarSound, RarRight, InMargin
  <2> DEFINE S == {j \in DOMAIN reports : reports[j].kind = reports[i].kind /\ reports[j].from = reports[i].from}
  <2>1. S = {i}
    BY DEF RarInv, RarOnce
  <2>2. Found(reports[i].kind, reports[i].from) = Cardinality({i})
    BY <2>1 DEF Found
  <2>3. QED BY <2>2, FS_Singleton
<1>2. QED BY <1>1, InitRar, NextRar, PTL DEF RarSpec

\* RarFound, a part of FeaturesFound: no header of a component that is whole, has a name and
\* sizes and stands where no earlier one ended the page is passed over.
THEOREM ComponentsAllFound == RarSpec => [](WalkDone => RarFound)
<1>1. RarInv /\ WalkDone => RarFound
  <2> SUFFICES ASSUME RarInv, WalkDone, NEW q \in Places, CellAt(q).is = "file" PROVE ComponentFound(q)
    BY DEF RarFound
  <2>1. q < WalkStart
    <3>1. ImageSize \in Nat /\ WalkStart \in Nat
      <4>1. Walking
        BY RarWalks DEF RarInv
      <4>2. QED BY <4>1 DEF Walking, WalkStart
    <3>2. QED BY <3>1 DEF WalkDone, Places
  <2>2. QED BY <2>1 DEF RarInv, RarPassed
<1>2. QED BY <1>1, InitRar, NextRar, PTL DEF RarSpec
=============================================================================
