------------------------------- MODULE ScanPage -------------------------------
(***************************************************************************)
(* The page of a scan (scan-detail.component.ts) next to the service that  *)
(* runs it.  The page asks for the status once when it opens and then      *)
(* every three seconds, each time giving up a request still unanswered,    *)
(* until it is told a settled status or a request fails.  A request is     *)
(* answered with what the database holds at that moment, and the answer    *)
(* may arrive later, behind others.                                        *)
(***************************************************************************)
EXTENDS ScanService

CONSTANTS
  Viewed,        \* the scan whose page is opened
  FeatureRows,   \* the rows of the table of features; alerts and histograms have their own
  RequestMayFail

ASSUME PageAssumption == Viewed \in Scans /\ FeatureRows \subseteq Rows /\ RequestMayFail \in BOOLEAN

VARIABLES
  opened,
  pollSub,       \* "none", "on", "complete", "error"
  request_for,   \* status requests, of "first" and "poll": "idle", "asked", an answer
  totals_for,    \* summary requests, by the status request that led to them: Idle, Asked, Failed, a total
  scan,          \* what is shown: a status and the request that brought it
  summary,       \* the number of features shown, or -1
  ws,            \* "none", "open", "closed"
  progressPct    \* what the socket brought last: "none", "some", "done"

page == <<opened, pollSub, request_for, totals_for, scan, summary, ws, progressPct>>
page_vars == <<vars, page>>

Idle == -2
Asked == -1
Failed == -3

Asker == {"first", "poll"}
Answers == {"absent", "queued", "running", "complete", "failed"}
\* Mutant: what the import has stored of the scan is counted in all tables.
TotalRows_AllTables == Cardinality(UNION {{r} \X (1 .. rows[Viewed][r]) : r \in Rows})
\* The summary counts the features, and no alerts.
TotalRows == Cardinality(UNION {{r} \X (1 .. rows[Viewed][r]) : r \in FeatureRows})

PageInit ==
  /\ opened = FALSE /\ pollSub = "none"
  /\ request_for = [a \in Asker |-> "idle"] /\ totals_for = [a \in Asker |-> Idle]
  /\ scan = [status |-> "none", by |-> "poll"] /\ summary = -1
  /\ ws = "none" /\ progressPct = "none"

-----------------------------------------------------------------------------
(* ngOnInit *)

Ask(a) == request_for' = [request_for EXCEPT ![a] = "asked"]

OpenPage ==
  /\ ~opened /\ status[Viewed] # "absent"
  /\ opened' = TRUE /\ pollSub' = "on" /\ Ask("first")
  /\ UNCHANGED <<totals_for, scan, summary, ws, progressPct>>

\* The interval fires: switchMap drops what is still on its way.
Tick ==
  /\ pollSub = "on" /\ Ask("poll")
  /\ UNCHANGED <<opened, pollSub, totals_for, scan, summary, ws, progressPct>>

\* Mutant: the status is answered as it is counted on the dashboard.
Answer_Completed(a) ==
  /\ request_for[a] = "asked"
  /\ request_for' = [request_for EXCEPT ![a] = IF status[Viewed] = "complete" THEN "completed" ELSE status[Viewed]]
  /\ UNCHANGED <<opened, pollSub, totals_for, scan, summary, ws, progressPct>>
Answer(a) ==
  /\ request_for[a] = "asked"
  /\ request_for' = [request_for EXCEPT ![a] = status[Viewed]]
  /\ UNCHANGED <<opened, pollSub, totals_for, scan, summary, ws, progressPct>>

Arrived(a) ==
  /\ request_for[a] \in Answers
  /\ request_for' = [request_for EXCEPT ![a] = "idle"]
  /\ scan' = [status |-> request_for[a], by |-> a]
  /\ UNCHANGED <<opened, summary, progressPct>>

startWs == ws' = IF ws = "none" THEN "open" ELSE ws
loadSummary(a) == totals_for' = [totals_for EXCEPT ![a] = Asked]

\* Mutant: the summary is loaded for every answer.
PollArrives_AnyStatus ==
  /\ Arrived("poll")
  /\ loadSummary("poll")
  /\ IF request_for["poll"] = "complete" THEN startWs ELSE UNCHANGED ws
  /\ pollSub' = IF request_for["poll"] \in {"complete", "failed"} THEN "complete" ELSE pollSub
\* Mutant: the poll ends with the first answer that is not "queued".
PollArrives_Early ==
  /\ Arrived("poll")
  /\ IF request_for["poll"] = "complete" THEN loadSummary("poll") /\ startWs ELSE UNCHANGED <<totals_for, ws>>
  /\ pollSub' = IF request_for["poll"] # "queued" THEN "complete" ELSE pollSub

PollArrives ==
  /\ Arrived("poll")
  /\ IF request_for["poll"] = "complete" THEN loadSummary("poll") /\ startWs ELSE UNCHANGED <<totals_for, ws>>
  /\ pollSub' = IF request_for["poll"] \in {"complete", "failed"} THEN "complete" ELSE pollSub

FirstArrives ==
  /\ Arrived("first")
  /\ IF request_for["first"] = "complete" THEN loadSummary("first") ELSE UNCHANGED totals_for
  /\ IF request_for["first"] = "running" THEN startWs ELSE UNCHANGED ws
  /\ UNCHANGED pollSub

\* An error ends the observable it happens in.
RequestFails(a) ==
  /\ RequestMayFail /\ request_for[a] # "idle"
  /\ request_for' = [request_for EXCEPT ![a] = "idle"]
  /\ pollSub' = IF a = "poll" THEN "error" ELSE pollSub
  /\ UNCHANGED <<opened, totals_for, scan, summary, ws, progressPct>>

-----------------------------------------------------------------------------
(* loadSummary *)

CountRows(a) ==
  /\ totals_for[a] = Asked
  /\ totals_for' = [totals_for EXCEPT ![a] = TotalRows]
  /\ UNCHANGED <<opened, pollSub, request_for, scan, summary, ws, progressPct>>

SummaryFails(a) ==
  /\ RequestMayFail /\ totals_for[a] \notin {Idle, Failed}
  /\ totals_for' = [totals_for EXCEPT ![a] = Failed]
  /\ UNCHANGED <<opened, pollSub, request_for, scan, summary, ws, progressPct>>

SummaryArrives(a) ==
  /\ totals_for[a] \in Nat
  /\ summary' = totals_for[a] /\ totals_for' = [totals_for EXCEPT ![a] = Idle]
  /\ UNCHANGED <<opened, pollSub, request_for, scan, ws, progressPct>>

-----------------------------------------------------------------------------
(* progress: the channel keeps nothing for those who subscribe later *)

Published(what) == progressPct' = IF ws = "open" THEN what ELSE progressPct
PageWaits == UNCHANGED <<opened, pollSub, request_for, totals_for, scan, summary, ws>>

\* Mutant: a last percentage, of 100, is published from the loop over the output.
Publish_Done(w) == At(w, "engine") /\ task[w] = Viewed /\ Published("done") /\ PageWaits /\ UNCHANGED vars

\* The parser of the engine's output publishes a percentage.
Publish(w) == At(w, "engine") /\ task[w] = Viewed /\ Published("some") /\ PageWaits /\ UNCHANGED vars

\* A step of the service.  When the engine ends, "done" is published before the exit
\* status is looked at, unless that publish is what fails.
ServiceStep ==
  /\ Next /\ PageWaits
  /\ \/ /\ ~\E w \in Workers : task[w] = Viewed /\ EngineExits(w)
        /\ UNCHANGED progressPct
     \/ \E w \in Workers :
          /\ task[w] = Viewed /\ EngineExits(w)
          /\ Published("done") \/ (pc'[w] = "failing" /\ UNCHANGED progressPct)

\* The connection of the socket is lost: ws stays set and is never opened again.
SocketDrops ==
  /\ RequestMayFail /\ ws = "open" /\ ws' = "closed"
  /\ UNCHANGED <<opened, pollSub, request_for, totals_for, scan, summary, progressPct>>

PageStep ==
  \/ OpenPage \/ Tick \/ PollArrives \/ FirstArrives \/ SocketDrops
  \/ \E a \in Asker : Answer(a) \/ RequestFails(a) \/ CountRows(a) \/ SummaryArrives(a) \/ SummaryFails(a)

PageNext == ServiceStep \/ (PageStep /\ UNCHANGED vars) \/ \E w \in Workers : Publish(w)

\* What is asked is answered and arrives.  An answer of the poll that takes longer than
\* the interval is given up, so that strong fairness says: not all of them do.
PageFairness ==
  /\ WF_page_vars(Tick /\ UNCHANGED vars)
  /\ SF_page_vars(PollArrives /\ UNCHANGED vars)
  /\ WF_page_vars(FirstArrives /\ UNCHANGED vars)
  /\ \A a \in Asker : /\ SF_page_vars(Answer(a) /\ UNCHANGED vars)
                      /\ WF_page_vars((CountRows(a) \/ SummaryArrives(a)) /\ UNCHANGED vars)

PageSpec == Init /\ PageInit /\ [][PageNext]_page_vars /\ Fairness /\ PageFairness

-----------------------------------------------------------------------------
(* Properties *)

\* The variables of the service and of the page have their types.
PageTypeOK ==
  /\ TypeOK
  /\ opened \in BOOLEAN /\ pollSub \in {"none", "on", "complete", "error"}
  /\ request_for \in [Asker -> {"idle", "asked"} \cup Answers]
  /\ totals_for \in [Asker -> Nat \cup {Idle, Asked, Failed}]
  /\ scan.status \in Answers \cup {"none"} /\ scan.by \in Asker
  /\ summary \in Nat \cup {-1}
  /\ ws \in {"none", "open", "closed"} /\ progressPct \in {"none", "some", "done"}

\* The totals on the page are never those of a part of an import: unless the task was
\* delivered again, each feature found is counted once, and no alert is counted.
TotalsAreWhole ==
  (summary # -1 /\ deliveries[Viewed] <= 1) => summary = Cardinality(certified[Viewed] \cap FeatureRows)

\* In the end the page shows how the scan came out, with the totals if it is complete,
\* unless a request failed, the status it had been told changed by another delivery,
\* or the answer to its first request came last.
PageCatchesUp ==
  <>[](opened /\ status[Viewed] \in Settled =>
         \/ scan.status = status[Viewed] /\ (scan.status = "complete" => summary # -1)
         \/ pollSub = "error" \/ \E a \in Asker : totals_for[a] = Failed
         \/ pollSub = "complete" /\ (deliveries[Viewed] > 1 \/ scan.by = "first"))

\* With one delivery the status shown only goes back when the answers to the first request
\* and to one of the poll cross; and once 100 % is shown, the engine has ended.
Rank == [none |-> 0, absent |-> 1, queued |-> 2, running |-> 3, complete |-> 4, failed |-> 4]
ShownGoesForward ==
  [][deliveries'[Viewed] <= 1 =>
       /\ scan'.by # scan.by \/ Rank[scan'.status] >= Rank[scan.status]
       /\ progressPct' = "done" => Viewed \notin orphans' /\ \A w \in Workers : task'[w] = Viewed => pc'[w] # "engine"]_page_vars
=============================================================================
