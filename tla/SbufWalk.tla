------------------------------- MODULE SbufWalk -------------------------------
(***************************************************************************)
(* One scanner over the pages of an image, one page after the other: a     *)
(* scanner keeps nothing between two pages, so their order is of no        *)
(* account.  The image is a sequence of cells, of the size in which the    *)
(* scanner steps; each scanner says what a cell is.  A page's sbuf has     *)
(* pagesize cells and, behind them, the margin: the first cells of the     *)
(* next page, as far as the image goes.                                    *)
(***************************************************************************)
EXTENDS Integers, Sequences, FiniteSets

VARIABLES
  scanner,      \* the scanner that runs
  image,        \* [cells, pagesize, margin, and what else the scanner depends on]
  page,         \* the page it is in
  pos,          \* the cell of the page it looks at
  memo,         \* the number the scanner keeps from one step to the next, 0 at first
  reports       \* what it wrote to the recorders, in order: [kind, from, to]

walk_vars == <<scanner, image, page, pos, memo, reports>>

Least(a, b) == IF a < b THEN a ELSE b
ImageSize == Len(image.cells)
WalkStart == page * image.pagesize
pagesize == Least(image.pagesize, ImageSize - WalkStart)
bufsize == Least(image.pagesize + image.margin, ImageSize - WalkStart)

\* sbuf[k], which is 0 behind the sbuf: Nothing, for any scanner.
Cell(k, nothing) == IF k < bufsize THEN image.cells[WalkStart + k + 1] ELSE nothing

WalkDone == WalkStart >= ImageSize
In(s) == scanner = s /\ ~WalkDone

WalkInit == page = 0 /\ pos = 0 /\ memo = 0 /\ reports = <<>>

MoveTo(k) == pos' = k /\ UNCHANGED <<scanner, image, page>>
\* The scanner returns, or an exception leaves it.
LeavePage == page' = page + 1 /\ pos' = 0 /\ memo' = 0 /\ UNCHANGED <<scanner, image>>

(* The numbers in an sbuf whose cells are bytes.  The reads are unsafe: behind the sbuf is 0. *)

Get8(k) == Cell(k, 0)
Get16(k) == Get8(k) + 256 * Get8(k + 1)
Get16BE(k) == 256 * Get8(k) + Get8(k + 1)
\* 32 bits, as the upper and the lower half of them.
Get32(k) == <<Get16(k + 2), Get16(k)>>
AtMost(x, y) == x[1] < y[1] \/ (x[1] = y[1] /\ x[2] <= y[2])

\* sbuf_t(sbuf, k, n), cut at the end of the sbuf, is carved or recorded.
Slice(kind, k, n) == [kind |-> kind, from |-> WalkStart + k, to |-> WalkStart + Least(k + n, bufsize)]
Report(kind, k, n) == reports' = Append(reports, Slice(kind, k, n))
Silent == UNCHANGED reports
\* A feature in the margin is not written: the next page has it.
Written(kind, k, n) == IF k < pagesize THEN <<Slice(kind, k, n)>> ELSE <<>>
write_buf(kind, k, n) == reports' = reports \o Written(kind, k, n)

WalkTypeOK ==
  /\ page \in Nat /\ pos \in Nat /\ memo \in Int
  /\ \A i \in DOMAIN reports : 0 <= reports[i].from /\ reports[i].from <= reports[i].to /\ reports[i].to <= ImageSize

\* The cells of the image, and the ends of the page that q is in and of its sbuf.
Places == 0 .. ImageSize - 1
CellAt(q) == image.cells[q + 1]
PageFirst(q) == (q \div image.pagesize) * image.pagesize
PageBound(q) == Least(PageFirst(q) + image.pagesize, ImageSize)
SbufBound(q) == Least(PageFirst(q) + image.pagesize + image.margin, ImageSize)

\* Does some report of these kinds cover, or is it, the cells from a up to b?
Covered(kinds, a, b) == \E i \in DOMAIN reports : reports[i].kind \in kinds /\ reports[i].from <= a /\ b <= reports[i].to
Reported(kind, a, b) == [kind |-> kind, from |-> a, to |-> b] \in {reports[i] : i \in DOMAIN reports}
Overlap(r, s) == r.from < s.to /\ s.from < r.to
===============================================================================
