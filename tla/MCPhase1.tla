------------------------------ MODULE MCPhase1 ------------------------------
(* Instances of Phase1 for TLC: small images, and the restarts they may meet. *)
EXTENDS Phase1Properties

\* Split images of 3 + 5 and of 3 + 4 + 5 bytes: with pages of 2 bytes, a page and a margin
\* straddle the parts.
TwoParts == << [offset |-> 0, length |-> 3], [offset |-> 3, length |-> 5] >>
ThreeParts == << [offset |-> 0, length |-> 3], [offset |-> 3, length |-> 4], [offset |-> 7, length |-> 5] >>

FirstRun == {{}}
Restarts == {{}, {0, 4}, {2}, {0, 2, 4, 6}}

CONSTANTS w1, w2

Options(threads_, start, end, fraction) ==
  [threads |-> threads_, opt_scan_start |-> start, opt_scan_end |-> end, sampling_fraction |-> fraction]
WholeImage == {Options({w1, w2}, 0, 0, 100)}
\* -Y 0-5, so that the end is inside a page; -Y 5, so that the last page is short; and -J
\* with -s 0.19: two of six whole pages, the block one past the last among those drawn, the
\* first page passed over; and with -s 0.2, which is refused.
CommandLines ==
  {Options({w1, w2}, 0, 5, 100), Options({w1, w2}, 5, 0, 100), Options({}, 1, 0, 19), Options({}, 1, 0, 20)}
=============================================================================
