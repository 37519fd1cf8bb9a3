------------------------------ MODULE PageScan ------------------------------
(***************************************************************************)
(* What Phase 1 promises for each page, whatever threads do: a page is     *)
(* handed over at most once, scanned by at most one worker, and ends       *)
(* scanned, lost to a write error, or skipped; at most threads+1 pages wait *)
(* and at most threads are being scanned.  Phase1 is shown to implement it. *)
(***************************************************************************)
EXTENDS Integers, FiniteSets

CONSTANT Page

VARIABLES
  status,     \* the fate of each page
  threads     \* how many scan, fixed when the program starts

With(s) == {p \in Page : status[p] = s}

Init == status = [p \in Page |-> "pending"] /\ threads \in Nat

Move(p, from, to) ==
  /\ status[p] = from
  /\ status' = [status EXCEPT ![p] = to] /\ UNCHANGED threads

\* The reader gives a page up: it could not be read.
Skip(p) == Move(p, "pending", "skipped")

\* The reader hands a page over ...
Hand(p) == Cardinality(With("waiting")) <= threads /\ Move(p, "pending", "waiting")
\* ... and a worker takes it,
Take(p) == Cardinality(With("scanning")) < threads /\ Move(p, "waiting", "scanning")
\* and scans it, or fails to write what it finds.
Settle(p) == \E fate \in {"scanned", "lost"} : Move(p, "scanning", fate)

\* Without worker threads the reader does all of it.
Inline(p) == threads = 0 /\ \E fate \in {"scanned", "lost"} : Move(p, "pending", fate)

Next == \E p \in Page : Skip(p) \/ Hand(p) \/ Take(p) \/ Settle(p) \/ Inline(p)

Spec == Init /\ [][Next]_<<status, threads>>
=============================================================================
