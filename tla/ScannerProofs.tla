---------------------------- MODULE ScannerProofs ----------------------------
(***************************************************************************)
(* Two scanners that keep state: the stack of json_checker, for every text *)
(* and every size of the stack, and packets.pcap, for every image and any  *)
(* number of workers.                                                      *)
(***************************************************************************)
EXTENDS JsonScan, NetScan, TLAPS

-----------------------------------------------------------------------------
(* json_checker *)


\* The variables that the checker's stack depends on.
StackType ==
  /\ json_pc \in {"loop", "check", "done"}
  /\ top \in Int /\ stack \in [0 .. stacksize - 1 -> Modes] /\ reject \in BOOLEAN

\* A running checker has not rejected yet: the scanner leaves it when it does.
Running ==
  json_pc = "check" => /\ ~reject /\ top \in 0 .. stacksize - 1 /\ stack[0] = "DONE"
                       /\ \A k \in 1 .. top : stack[k] # "DONE"

StackInv == StackType /\ Running

LEMMA InitStack == ASSUME JsonInit PROVE StackInv
<1>1. NewStack \in [0 .. stacksize - 1 -> Modes]
  BY DEF NewStack, Modes
<1>2. json_pc = "loop" /\ top = 0 /\ stack = NewStack /\ reject = FALSE
  BY DEF JsonInit, JsonFresh
<1>3. top \in Int
  BY <1>2
<1>4. json_pc \in {"loop", "check", "done"} /\ reject \in BOOLEAN /\ json_pc # "check"
  BY <1>2
<1> QED BY <1>1, <1>2, <1>3, <1>4, Zenon DEF StackInv, StackType, Running

\* A new checker has DONE in its only cell.
LEMMA NewStackOk == ASSUME StackInv, NewChecker, json_pc' = "check" PROVE StackInv'
BY JsonAssumption DEF StackInv, StackType, Running, NewChecker, NewStack, Modes

\* What one character may do to the stack, rejected or not.
Safe == /\ top' \in Int /\ stack' \in [0 .. stacksize - 1 -> Modes] /\ reject' \in BOOLEAN
        /\ ~reject' => /\ top' \in 0 .. stacksize - 1 /\ stack'[0] = "DONE"
                       /\ \A k \in 1 .. top' : stack'[k] # "DONE"

LEMMA PopSafe ==
  ASSUME StackInv, json_pc = "check", NEW mode \in Modes \ {"DONE"}, pop(mode) PROVE Safe
<1>1. CASE Poppable(mode)
  BY <1>1, JsonAssumption DEF StackInv, StackType, Running, Safe, pop, Poppable, Modes
<1>2. CASE ~Poppable(mode)
  BY <1>2, JsonAssumption DEF StackInv, StackType, Running, Safe, pop, Rejected
<1> QED BY <1>1, <1>2

LEMMA PushSafe ==
  ASSUME StackInv, json_pc = "check", NEW mode \in Modes \ {"DONE"}, NEW next, push(mode, next) PROVE Safe
<1>1. CASE top + 1 < stacksize
  BY <1>1, JsonAssumption DEF StackInv, StackType, Running, Safe, push, Modes
<1>2. CASE ~(top + 1 < stacksize)
  BY <1>2, JsonAssumption DEF StackInv, StackType, Running, Safe, push
<1> QED BY <1>1, <1>2

LEMMA FlipSafe ==
  ASSUME StackInv, json_pc = "check", NEW from \in Modes \ {"DONE"}, NEW to \in Modes \ {"DONE"}, NEW next,
         flip(from, to, next)
  PROVE Safe
<1>1. CASE Poppable(from)
  \* The cell that is overwritten is not the one at the bottom.
  <2>1. top \in 1 .. stacksize - 1
    BY <1>1, JsonAssumption DEF StackInv, StackType, Running, Poppable, Modes
  <2> QED BY <1>1, <2>1, JsonAssumption DEF StackInv, StackType, Running, Safe, flip, Modes
<1>2. CASE ~Poppable(from)
  BY <1>2, JsonAssumption DEF StackInv, StackType, Running, Safe, flip, Rejected
<1> QED BY <1>1, <1>2

LEMMA KeepSafe ==
  ASSUME StackInv, json_pc = "check", UNCHANGED <<top, stack>>, reject' \in BOOLEAN PROVE Safe
BY JsonAssumption DEF StackInv, StackType, Running, Safe

\* No character makes the stack leave its array.
LEMMA CharSafe == ASSUME StackInv, json_pc = "check", NEW c, check_char(c) PROVE Safe
<1> DEFINE next == IF c = "ctrl" THEN "error" ELSE state_transition_table(state, c)
<1>0. perform(next)
  BY DEF check_char
<1> HIDE DEF next
<1>1. CASE next \in States /\ state' = next /\ UNCHANGED <<top, stack, reject>>
  BY <1>1, KeepSafe DEF StackInv, StackType
<1>2. CASE next \in DOMAIN Closing /\ pop(Closing[next])
  BY <1>2, PopSafe DEF Closing, Modes
<1>3. CASE next \in DOMAIN Opening /\ push(Opening[next][1], Opening[next][2])
  BY <1>3, PushSafe DEF Opening, Modes
<1>4. CASE next = "end_string" /\ end_string
  <2>1. UNCHANGED <<top, stack>> /\ reject' \in {reject, TRUE}
    BY <1>4 DEF end_string, Rejected
  <2> QED BY <2>1, KeepSafe DEF StackInv, StackType
<1>5. CASE next = "comma" /\ comma
  <2>1. \/ flip("OBJECT", "KEY", "KE")
        \/ UNCHANGED <<top, stack>> /\ reject' \in {reject, TRUE}
    BY <1>5 DEF comma, Rejected
  <2>2. CASE flip("OBJECT", "KEY", "KE")
    BY <2>2, FlipSafe DEF Modes
  <2>3. CASE UNCHANGED <<top, stack>> /\ reject' \in {reject, TRUE}
    BY <2>3, KeepSafe DEF StackInv, StackType
  <2> QED BY <2>1, <2>2, <2>3
<1>6. CASE next = "colon" /\ flip("KEY", "OBJECT", "VA")
  BY <1>6, FlipSafe DEF Modes
<1>7. CASE next = "error" /\ Rejected
  BY <1>7, KeepSafe DEF Rejected
<1> QED BY <1>0, <1>1, <1>2, <1>3, <1>4, <1>5, <1>6, <1>7 DEF perform

LEMMA NextStack == ASSUME StackInv, [JsonNext]_json_vars PROVE StackInv'
<1>1. CASE StartChecker
  BY <1>1, NewStackOk DEF StartChecker
<1>2. CASE NextPos \/ EndOfPage \/ Unfinished
  BY <1>2 DEF NextPos, EndOfPage, Unfinished, StackInv, StackType, Running, checker
<1>3. CASE CheckChar
  <2>1. Safe
    BY <1>3, CharSafe DEF CheckChar
  <2>2. json_pc' = "loop" \/ (json_pc' = "check" /\ ~reject')
    BY <1>3 DEF CheckChar, Found
  <2> QED BY <2>1, <2>2 DEF Safe, StackInv, StackType, Running
<1>4. CASE UNCHANGED json_vars
  BY <1>4 DEF json_vars, checker, StackInv, StackType, Running
<1> QED BY <1>1, <1>2, <1>3, <1>4 DEF JsonNext

LEMMA StackInvImplies == ASSUME StackInv PROVE StackInBounds
BY DEF StackInv, Running, StackInBounds

\* However deep a text is nested, json_checker reads and writes its stack inside
\* the array, and never pops the DONE that check_if_done relies on.
THEOREM StackStaysInside == JsonSpec => []StackInBounds
BY InitStack, NextStack, StackInvImplies, PTL DEF JsonSpec

IsOpening(c) == c \in {"{", "["}
IsClosing(c) == c \in {"}", "]"}

\* The variables of an interval that is being looked at, and the intervals before it.
Intervals ==
  /\ json_sbuf \in Texts
  /\ json_pos \in Nat /\ json_i \in Nat /\ json_feature \subseteq Nat \X Nat
  /\ state \in States /\ top \in 0 .. stacksize /\ comma_count \in Nat
  /\ json_pc = "check" => /\ json_pos <= json_i /\ json_pos + 1 < json_sbuf.pagesize
                          /\ IsOpening(json_char(json_pos))
  /\ \A t \in json_feature : t[2] < json_pos
  /\ JsonApart

LEMMA CharTyped ==
  ASSUME StackInv, json_pc = "check", state \in States, comma_count \in Nat, NEW c, check_char(c)
  PROVE  state' \in States /\ top' \in 0 .. stacksize /\ comma_count' \in Nat
<1> DEFINE next == IF c = "ctrl" THEN "error" ELSE state_transition_table(state, c)
<1>0. perform(next) /\ comma_count' \in Nat
  BY DEF check_char
<1> HIDE DEF next
<1>1. ~reject /\ top \in 0 .. stacksize - 1 /\ stack[0] = "DONE" /\ stacksize \in Nat \ {0}
  BY JsonAssumption DEF StackInv, Running
<1>2. CASE next \in States /\ state' = next /\ UNCHANGED <<top, stack, reject>>
  BY <1>0, <1>1, <1>2
<1>3. ASSUME NEW mode \in Modes \ {"DONE"}, pop(mode) PROVE state' \in States /\ top' \in 0 .. stacksize
  BY <1>1, <1>3 DEF pop, Poppable, Rejected, States
<1>4. ASSUME NEW mode, NEW where \in States, push(mode, where) PROVE state' \in States /\ top' \in 0 .. stacksize
  BY <1>1, <1>4 DEF push
<1>5. ASSUME NEW from, NEW to, NEW where \in States, flip(from, to, where) PROVE state' \in States /\ top' \in 0 .. stacksize
  BY <1>1, <1>5 DEF flip, Rejected
<1>8. {"OB", "AR", "VA", "KE", "OK", "CO"} \subseteq States
  BY DEF States
<1>6. CASE next = "end_string" /\ end_string
  <2>1. state' \in {state, "OK", "CO"} /\ UNCHANGED top
    BY <1>6 DEF end_string, Rejected
  <2> QED BY <1>0, <1>1, <1>8, <2>1
<1>7. CASE next = "comma" /\ comma
  <2>1. flip("OBJECT", "KEY", "KE") => state' \in States /\ top' \in 0 .. stacksize
    BY <1>5, <1>8
  <2> QED BY <1>0, <1>1, <1>7, <1>8, <2>1 DEF comma, Rejected
<1>12. CASE next = "colon" /\ flip("KEY", "OBJECT", "VA")
  BY <1>0, <1>5, <1>8, <1>12
<1>9. CASE next \in DOMAIN Closing /\ pop(Closing[next])
  <2>1. Closing[next] \in Modes \ {"DONE"}
    BY <1>9 DEF Closing, Modes
  <2> QED BY <1>0, <1>3, <1>9, <2>1
<1>10. CASE next \in DOMAIN Opening /\ push(Opening[next][1], Opening[next][2])
  <2>1. Opening[next][2] \in {"OB", "AR"}
    BY <1>10 DEF Opening
  <2> QED BY <1>0, <1>4, <1>8, <1>10, <2>1
<1>11. CASE next = "error" /\ Rejected
  BY <1>0, <1>1, <1>11 DEF Rejected
<1> QED
  <2>1. \/ next \in States /\ state' = next /\ UNCHANGED <<top, stack, reject>>
        \/ next \in DOMAIN Closing /\ pop(Closing[next])
        \/ next \in DOMAIN Opening /\ push(Opening[next][1], Opening[next][2])
        \/ next = "end_string" /\ end_string
        \/ next = "comma" /\ comma
        \/ next = "colon" /\ flip("KEY", "OBJECT", "VA")
        \/ next = "error" /\ Rejected
    BY <1>0 DEF perform
  <2> QED BY <1>0, <1>2, <1>6, <1>7, <1>9, <1>10, <1>11, <1>12, <2>1

LEMMA InitIntervals == ASSUME JsonInit PROVE Intervals
BY JsonAssumption DEF JsonInit, JsonFresh, Intervals, JsonApart, States

LEMMA NextIntervals == ASSUME StackInv, Intervals, [JsonNext]_json_vars PROVE Intervals'
<1>0. json_pos \in Nat /\ json_i \in Nat /\ state \in States /\ top \in 0 .. stacksize /\ comma_count \in Nat
  BY DEF Intervals
<1>1. /\ json_sbuf \in Texts /\ json_feature \subseteq Nat \X Nat /\ JsonApart
      /\ \A t \in json_feature : t[1] \in Nat /\ t[2] \in Nat /\ t[2] < json_pos
  BY DEF Intervals
<1>2. json_pc = "check" => /\ json_pos <= json_i /\ json_pos + 1 < json_sbuf.pagesize
                           /\ IsOpening(json_char(json_pos))
  BY DEF Intervals
\* The intervals stay as they are, and the scan does not go back.
<1>3. ASSUME UNCHANGED <<json_sbuf, json_feature>>, json_pos' \in Nat, json_pos' >= json_pos, json_i' \in Nat,
             state' \in States, top' \in 0 .. stacksize, comma_count' \in Nat,
             json_pc' = "check" => /\ json_pos' <= json_i' /\ json_pos' + 1 < json_sbuf.pagesize
                                   /\ IsOpening(json_char(json_pos'))
      PROVE  Intervals'
  <2>1. JsonApart'
    BY <1>1, <1>3 DEF JsonApart, json_bufsize, json_char
  <2>2. \A t \in json_feature : t[2] < json_pos'
    BY <1>0, <1>1, <1>3
  <2>3. json_pc' = "check" => (IsOpening(json_char(json_pos)))'
    BY <1>3 DEF json_char
  <2> QED BY <1>1, <1>3, <2>1, <2>2, <2>3 DEF Intervals
<1>4. CASE StartChecker
  <2>1. /\ UNCHANGED <<json_sbuf, json_feature, json_pos>> /\ json_i' = json_pos
        /\ json_pos + 1 < json_sbuf.pagesize /\ IsOpening(json_char(json_pos))
        /\ state' = "GO" /\ top' = 0 /\ comma_count' = 0
    BY <1>4 DEF StartChecker, NewChecker, AtBracket, IsOpening
  <2>2. state' \in States /\ top' \in 0 .. stacksize /\ comma_count' \in Nat
    BY <2>1, JsonAssumption DEF States
  <2> QED BY <1>0, <1>3, <2>1, <2>2
<1>5. CASE NextPos \/ EndOfPage \/ Unfinished
  <2>1. /\ UNCHANGED <<json_sbuf, json_feature, json_i, state, top, comma_count>>
        /\ json_pos' \in {json_pos, json_pos + 1} /\ json_pc' # "check"
    BY <1>5 DEF NextPos, EndOfPage, Unfinished, checker
  <2> QED BY <1>0, <1>3, <2>1
<1>6. CASE CheckChar
  <2>1. state' \in States /\ top' \in 0 .. stacksize /\ comma_count' \in Nat
    BY <1>0, <1>6, CharTyped DEF CheckChar
  <2>2. json_pc = "check" /\ json_i < json_bufsize /\ UNCHANGED json_sbuf
    BY <1>6 DEF CheckChar
  <2>3. CASE json_pos' = json_i + 1 /\ json_pc' = "loop" /\ UNCHANGED <<json_i, json_feature>>
    BY <1>0, <1>2, <1>3, <2>1, <2>2, <2>3
  <2>4. CASE json_i' = json_i + 1 /\ UNCHANGED <<json_pc, json_pos, json_feature>>
    BY <1>0, <1>2, <1>3, <2>1, <2>2, <2>4
  <2>5. CASE IsClosing(json_char(json_i)) /\ Found
    <3> DEFINE new == <<json_pos, json_i>>
    <3>1. json_pos < json_i
      <4>1. json_pos # json_i
        <5>1. ~(IsOpening(json_char(json_i)) /\ IsClosing(json_char(json_i)))
          BY DEF IsOpening, IsClosing
        <5> QED BY <1>2, <2>2, <2>5, <5>1
      <4> QED BY <1>0, <1>2, <2>2, <4>1
    <3>2. /\ json_pos' = json_i + 1 /\ json_pc' = "loop" /\ UNCHANGED json_i
          /\ json_feature' \in {json_feature, json_feature \cup {new}}
      BY <2>5 DEF Found
    <3>3. /\ new[1] = json_pos /\ new[2] = json_i /\ new \in Nat \X Nat
          /\ \A t \in json_feature' : t \in json_feature \/ t = new
      BY <1>0, <3>2
    <3>4. json_pos + 1 < json_sbuf.pagesize /\ IsOpening(json_char(json_pos))
      BY <1>2, <2>2
    <3> HIDE DEF new
    <3>5. JsonApart'
      <4> SUFFICES ASSUME NEW s \in json_feature', NEW t \in json_feature'
                   PROVE  /\ s = t \/ s[2] < t[1] \/ t[2] < s[1]
                          /\ 0 <= t[1] /\ t[1] < t[2] /\ t[2] < json_bufsize /\ t[1] + 1 < json_sbuf.pagesize
                          /\ IsOpening(json_char(t[1])) /\ IsClosing(json_char(t[2]))
        BY <2>2 DEF JsonApart, json_bufsize, json_char, IsOpening, IsClosing
      <4>1. s = t \/ s[2] < t[1] \/ t[2] < s[1]
        <5>1. CASE s \in json_feature /\ t \in json_feature
          BY <1>1, <5>1 DEF JsonApart
        <5>2. CASE s \in json_feature /\ t = new
          BY <1>1, <3>3, <5>2
        <5>3. CASE s = new /\ t \in json_feature
          BY <1>1, <3>3, <5>3
        <5> QED BY <3>3, <5>1, <5>2, <5>3
      <4>2. CASE t \in json_feature
        BY <1>1, <4>1, <4>2 DEF JsonApart, IsOpening, IsClosing
      <4>3. CASE t = new
        <5>1. t[1] = json_pos /\ t[2] = json_i
          BY <3>3, <4>3
        <5> QED BY <1>0, <2>2, <2>5, <3>1, <3>4, <4>1, <5>1
      <4> QED BY <3>3, <4>2, <4>3
    <3>6. \A t \in json_feature' : t[2] < json_pos'
      <4>1. \A t \in json_feature : t[2] < json_i + 1
        BY <1>0, <1>1, <3>1
      <4> QED BY <1>0, <3>2, <3>3, <4>1
    <3>7. json_feature' \subseteq Nat \X Nat
      BY <1>1, <3>2, <3>3
    <3> QED BY <1>0, <1>1, <2>1, <2>2, <3>2, <3>5, <3>6, <3>7 DEF Intervals
  <2> QED BY <1>6, <2>3, <2>4, <2>5 DEF CheckChar, IsClosing
<1>7. CASE UNCHANGED json_vars
  BY <1>0, <1>2, <1>3, <1>7 DEF json_vars, checker
<1> QED BY <1>4, <1>5, <1>6, <1>7 DEF JsonNext

\* What scan_json reports are intervals of the page and its margin, each from a bracket to a
\* bracket, and none touches another: after a text the scan goes on behind it.
THEOREM TextsApart == JsonSpec => []JsonApart
<1>1. Intervals => JsonApart
  BY DEF Intervals
<1> QED BY <1>1, InitStack, NextStack, InitIntervals, NextIntervals, PTL DEF JsonSpec

\* The variables of scan_json and of json_checker keep their types.
THEOREM JsonTyping == JsonSpec => []JsonTypeOK
<1>1. StackInv /\ Intervals => JsonTypeOK
  BY DEF StackInv, StackType, Intervals, JsonTypeOK
<1> QED BY <1>1, InitStack, NextStack, InitIntervals, NextIntervals, PTL DEF JsonSpec

-----------------------------------------------------------------------------
(* packets.pcap *)


Places == {"idle", "carve", "lock", "flush", "open", "header", "record", "data"}
Writing == {"open", "header", "record", "data"}

\* Nothing is said of what the pieces are: whatever they are, they form a sequence.
Shape ==
  /\ net_pc \in [Carvers -> Places]
  /\ net_job = [w \in Carvers |-> net_job[w]]
  /\ \E S : packets_pcap \in Seq(S)
  /\ Mfcap \in Carvers \cup {NoCarver}
  /\ fcap \in {"null", "good", "bad"}

\* The mutex excludes: who is inside pcap_writepkt holds it.
Exclusive == \A w \in Carvers : net_pc[w] \in Writing <=> Mfcap = w

Last == packets_pcap[Len(packets_pcap)]

\* The stream can take a record: a file header or a whole packet came last.
Complete == Len(packets_pcap) > 0 /\ Last.what \in {"header", "data"}

\* What the holder of the mutex may rely on at each of its places, and what it
\* leaves behind when nobody holds it.
Stage ==
  /\ fcap = "null" => packets_pcap = <<>>
  /\ (fcap = "good" /\ Mfcap = NoCarver) => Complete
  /\ \A w \in Carvers :
       /\ net_pc[w] = "open" => fcap = "null"
       /\ net_pc[w] = "header" => fcap = "good" /\ packets_pcap = <<>>
       /\ net_pc[w] = "record" => fcap \in {"good", "bad"} /\ (fcap = "good" => Complete)
       /\ net_pc[w] = "data" => /\ fcap = "good" /\ Len(packets_pcap) > 1 /\ Last.what = "record"
                                /\ Last.packet = net_job[w].packet /\ Last.from = net_job[w].from

PcapInv == Shape /\ Exclusive /\ Stage /\ PcapWellFormed

LEMMA InitPcap == ASSUME NetInit PROVE PcapInv
<1>1. net_pc = [w \in Carvers |-> "idle"] /\ net_job = [w \in Carvers |-> Nothing]
      /\ Mfcap = NoCarver /\ fcap = "null" /\ packets_pcap = <<>>
  BY DEF NetInit, NetFresh
<1>2. \E S : packets_pcap \in Seq(S)
  <2>1. packets_pcap \in Seq({})
    BY <1>1
  <2> QED BY <2>1
<1>3. Shape
  BY <1>1, <1>2 DEF Shape, Places
<1>4. Exclusive
  BY <1>1, NetAssumption DEF Exclusive, Writing
<1>5. Stage
  BY <1>1 DEF Stage
<1>6. PcapWellFormed
  BY <1>1 DEF PcapWellFormed, Pieces
<1> QED BY <1>3, <1>4, <1>5, <1>6 DEF PcapInv

\* Steps outside pcap_writepkt: the file is not touched, and the place of a worker
\* changes from one that needs no mutex to another.
LEMMA OutsideKeeps ==
  ASSUME PcapInv, NEW w \in Carvers, NEW place \in Places \ Writing,
         net_pc[w] \notin Writing, net_pc' = [net_pc EXCEPT ![w] = place],
         UNCHANGED <<Mfcap, packets_pcap>>,
         fcap' = fcap \/ (Mfcap = NoCarver /\ fcap = "good" /\ fcap' = "bad"),
         net_job' = [x \in Carvers |-> net_job'[x]],
         \A x \in Carvers : x # w => net_job'[x] = net_job[x]
  PROVE PcapInv'
<1> USE DEF PcapInv
<1>1. Shape'
  BY DEF Shape
<1>2. Exclusive'
  BY DEF Shape, Exclusive, Writing, Places
<1>3. Stage'
  <2>1. ASSUME NEW x \in Carvers, net_pc'[x] \in Writing
        PROVE  x # w /\ net_pc'[x] = net_pc[x] /\ net_job'[x] = net_job[x] /\ fcap' = fcap
    BY <2>1, NetAssumption DEF Shape, Exclusive
  <2>2. (fcap' = "null" => fcap = "null") /\ (fcap' = "good" => fcap = "good")
    OBVIOUS
  <2> QED BY <2>1, <2>2 DEF Stage, Writing, Complete, Last
<1>4. PcapWellFormed'
  BY DEF PcapWellFormed, Pieces, SamePacket
<1> QED BY <1>1, <1>2, <1>3, <1>4

\* A piece that fits behind the last one keeps the file well formed.
LEMMA AppendKeeps ==
  ASSUME Shape, PcapWellFormed, NEW e, packets_pcap' = Append(packets_pcap, e),
         Len(packets_pcap) > 0 => Last.what # "partial",
         e.what \in {"header", "record", "data", "partial"},
         e.what = "header" <=> (packets_pcap = <<>> /\ e.what # "partial"),
         e.what = "data" => Len(packets_pcap) > 1 /\ Last.what = "record",
         (Len(packets_pcap) > 0 /\ Last.what = "record") =>
            e.what \in {"data", "partial"} /\ e.packet = Last.packet /\ e.from = Last.from
  PROVE (\E S : packets_pcap' \in Seq(S)) /\ PcapWellFormed'
<1>0. PICK S : packets_pcap \in Seq(S)
  BY DEF Shape
<1>1. packets_pcap \in Seq(S \cup {e})
  BY <1>0
<1>2. packets_pcap' \in Seq(S \cup {e}) /\ Len(packets_pcap') = Len(packets_pcap) + 1
      /\ packets_pcap'[Len(packets_pcap) + 1] = e
      /\ \A k \in 1 .. Len(packets_pcap) : packets_pcap'[k] = packets_pcap[k]
  BY <1>1
<1>3. DOMAIN packets_pcap = 1 .. Len(packets_pcap) /\ DOMAIN packets_pcap' = 1 .. Len(packets_pcap) + 1
      /\ Len(packets_pcap) \in Nat
  BY <1>1, <1>2
<1>4. packets_pcap = <<>> <=> Len(packets_pcap) = 0
  BY <1>0
<1>5. ASSUME NEW k \in 1 .. Len(packets_pcap)
      PROVE  /\ packets_pcap'[k].what # "partial"
             /\ packets_pcap'[k].what = "header" <=> k = 1
             /\ packets_pcap'[k].what = "data" =>
                  k > 2 /\ packets_pcap'[k - 1].what = "record"
                  /\ packets_pcap'[k - 1].packet = packets_pcap'[k].packet
                  /\ packets_pcap'[k - 1].from = packets_pcap'[k].from
             /\ packets_pcap'[k].what = "record" =>
                  packets_pcap'[k + 1].what \in {"data", "partial"}
                  /\ packets_pcap'[k].packet = packets_pcap'[k + 1].packet
                  /\ packets_pcap'[k].from = packets_pcap'[k + 1].from
  <2>1. /\ packets_pcap[k].what = "partial" => k = Len(packets_pcap)
        /\ packets_pcap[k].what = "header" <=> (k = 1 /\ packets_pcap[k].what # "partial")
        /\ packets_pcap[k].what = "data" =>
             k > 2 /\ packets_pcap[k - 1].what = "record" /\ SamePacket(k - 1, k)
        /\ (packets_pcap[k].what = "record" /\ k < Len(packets_pcap)) =>
             packets_pcap[k + 1].what \in {"data", "partial"} /\ SamePacket(k, k + 1)
    BY <1>3 DEF PcapWellFormed, Pieces
  <2>2. packets_pcap[k].what # "partial"
    BY <2>1 DEF Last
  <2>3. CASE k < Len(packets_pcap)
    <3>1. k + 1 \in 1 .. Len(packets_pcap) /\ (k > 2 => k - 1 \in 1 .. Len(packets_pcap))
      BY <2>3, <1>3
    <3> QED BY <3>1, <2>1, <2>2, <2>3, <1>2 DEF SamePacket
  <2>4. CASE k = Len(packets_pcap)
    <3>1. k > 2 => k - 1 \in 1 .. Len(packets_pcap)
      BY <2>4, <1>3
    <3> QED BY <3>1, <2>1, <2>2, <2>4, <1>2 DEF SamePacket, Last
  <2> QED BY <2>3, <2>4, <1>3, SMTT(60)
<1>6. PcapWellFormed'
  <2> SUFFICES ASSUME NEW k \in 1 .. Len(packets_pcap) + 1
               PROVE  /\ packets_pcap'[k].what = "partial" => k = Len(packets_pcap')
                      /\ packets_pcap'[k].what = "header" <=> (k = 1 /\ packets_pcap'[k].what # "partial")
                      /\ packets_pcap'[k].what = "data" =>
                           k > 2 /\ packets_pcap'[k - 1].what = "record"
                           /\ packets_pcap'[k - 1].packet = packets_pcap'[k].packet
                           /\ packets_pcap'[k - 1].from = packets_pcap'[k].from
                      /\ (packets_pcap'[k].what = "record" /\ k < Len(packets_pcap')) =>
                           packets_pcap'[k + 1].what \in {"data", "partial"}
                           /\ packets_pcap'[k].packet = packets_pcap'[k + 1].packet
                           /\ packets_pcap'[k].from = packets_pcap'[k + 1].from
    BY <1>3 DEF PcapWellFormed, Pieces, SamePacket
  <2>1. CASE k \in 1 .. Len(packets_pcap)
    BY <2>1, <1>5
  <2>2. CASE k = Len(packets_pcap) + 1
    <3>1. packets_pcap'[k] = e /\ k = Len(packets_pcap') /\ ~(k < Len(packets_pcap'))
      BY <2>2, <1>2, <1>3
    <3>2. k = 1 <=> packets_pcap = <<>>
      BY <2>2, <1>3, <1>4
    <3>3. ASSUME e.what = "data"
          PROVE  /\ k > 2 /\ packets_pcap'[k - 1].what = "record"
                 /\ packets_pcap'[k - 1].packet = e.packet /\ packets_pcap'[k - 1].from = e.from
      <4>1. Len(packets_pcap) \in 1 .. Len(packets_pcap) /\ k - 1 = Len(packets_pcap) /\ k > 2
        BY <3>3, <2>2, <1>3
      <4>2. packets_pcap'[k - 1] = Last
        BY <4>1, <1>2 DEF Last
      <4> QED BY <4>1, <4>2, <3>3
    <3>4. e.what # "partial" => (e.what = "header" <=> k = 1)
      BY <3>2
    <3> QED BY <3>1, <3>3, <3>4
  <2> QED BY <2>1, <2>2, <1>3
<1> QED BY <1>2, <1>6

\* What a place of pcap_writepkt needs of the stream and of the file.
Ready(w, place) ==
  /\ place = "open" => fcap = "null"
  /\ place = "header" => fcap = "good" /\ packets_pcap = <<>>
  /\ place = "record" => fcap \in {"good", "bad"} /\ (fcap = "good" => Complete)
  /\ place = "data" => /\ fcap = "good" /\ Len(packets_pcap) > 1 /\ Last.what = "record"
                       /\ Last.packet = net_job[w].packet /\ Last.from = net_job[w].from
  /\ (place \notin Writing /\ fcap = "good") => Complete

\* A step of the worker that takes, holds or gives back the mutex.
LEMMA HolderKeeps ==
  ASSUME PcapInv, NEW w \in Carvers, NEW place \in Places,
         Mfcap \in {w, NoCarver}, Mfcap' = IF place \in Writing THEN w ELSE NoCarver,
         net_pc' = [net_pc EXCEPT ![w] = place], UNCHANGED net_job,
         \E S : packets_pcap' \in Seq(S), PcapWellFormed',
         fcap' \in {"null", "good", "bad"}, fcap' = "null" => packets_pcap' = <<>>,
         Ready(w, place)'
  PROVE  PcapInv'
<1> USE DEF PcapInv
<1>1. Shape'
  BY DEF Shape
<1>2. ASSUME NEW x \in Carvers, x # w
      PROVE  net_pc[x] \notin Writing /\ net_pc'[x] = net_pc[x] /\ Mfcap' # x
  BY <1>2, NetAssumption DEF Shape, Exclusive
<1>3. net_pc'[w] = place
  BY DEF Shape
<1>4. Exclusive'
  <2> SUFFICES ASSUME NEW x \in Carvers
               PROVE  net_pc'[x] \in Writing <=> Mfcap' = x
    BY DEF Exclusive
  <2>1. CASE x = w
    BY <2>1, <1>3, NetAssumption
  <2>2. CASE x # w
    BY <2>2, <1>2
  <2> QED BY <2>1, <2>2
<1>5. Stage'
  <2>1. (fcap' = "good" /\ Mfcap' = NoCarver) => Complete'
    BY NetAssumption DEF Ready
  <2>2. ASSUME NEW x \in Carvers, net_pc'[x] \in Writing
        PROVE  x = w
    BY <2>2, <1>2
  <2> QED BY <2>1, <2>2, <1>3 DEF Stage, Ready, Writing
<1> QED BY <1>1, <1>4, <1>5

LEMMA LockKeeps == ASSUME PcapInv, NEW w \in Carvers, Lock(w) PROVE PcapInv'
<1>1. Mfcap = NoCarver /\ Mfcap' = w /\ UNCHANGED <<net_job, fcap, packets_pcap>>
  BY DEF Lock
<1>2. CASE fcap = "null"
  <2>1. net_pc' = [net_pc EXCEPT ![w] = "open"]
    BY <1>2 DEF Lock, Goto
  <2>2. Ready(w, "open")'
    BY <1>1, <1>2 DEF Ready, Writing
  <2> QED BY <1>1, <1>2, <2>1, <2>2, HolderKeeps DEF PcapInv, Shape, Stage, Places, Writing, PcapWellFormed, Pieces, SamePacket
<1>3. CASE fcap # "null"
  <2>1. net_pc' = [net_pc EXCEPT ![w] = "record"]
    BY <1>3 DEF Lock, Goto
  <2>2. Ready(w, "record")'
    BY <1>1, <1>3 DEF Ready, Writing, PcapInv, Stage, Shape, Complete, Last
  <2> QED BY <1>1, <1>3, <2>1, <2>2, HolderKeeps DEF PcapInv, Shape, Stage, Places, Writing, PcapWellFormed, Pieces, SamePacket
<1> QED BY <1>2, <1>3

\* Inside pcap_writepkt, an exception or the end of the packet gives the mutex back.
LEMMA OpenFileKeeps == ASSUME PcapInv, NEW w \in Carvers, OpenFile(w) PROVE PcapInv'
<1>1. Mfcap = w /\ fcap = "null" /\ packets_pcap = <<>> /\ UNCHANGED <<net_job, packets_pcap>>
  BY DEF OpenFile, PcapInv, Exclusive, Stage, Writing
<1>2. (\E S : packets_pcap' \in Seq(S)) /\ PcapWellFormed'
  BY <1>1 DEF PcapInv, Shape, PcapWellFormed, Pieces, SamePacket
<1>3. CASE fcap' = "good" /\ Goto(w, "header") /\ UNCHANGED Mfcap
  <2>1. Ready(w, "header")'
    BY <1>1, <1>3 DEF Ready, Writing
  <2> QED BY <1>1, <1>2, <1>3, <2>1, HolderKeeps DEF Places, Writing, Goto
<1>4. CASE fcap' = "bad" /\ Throw(w)
  <2>1. Ready(w, "idle")'
    BY <1>1, <1>4 DEF Ready
  <2> QED BY <1>1, <1>2, <1>4, <2>1, HolderKeeps DEF Places, Writing, Goto, Throw
<1> QED BY <1>3, <1>4 DEF OpenFile

\* Where a worker stands tells which piece fits behind those that are there.
LEMMA PieceFits ==
  ASSUME PcapInv, NEW w \in Carvers, net_pc[w] \in {"header", "record", "data"}, fcap = "good",
         NEW e, e.what \in {net_pc[w], "partial"},
         e.packet = net_job[w].packet, e.from = net_job[w].from,
         packets_pcap' = Append(packets_pcap, e)
  PROVE  /\ \E S : packets_pcap' \in Seq(S)
         /\ PcapWellFormed' /\ Mfcap = w /\ Last' = e
         /\ Len(packets_pcap') = Len(packets_pcap) + 1 /\ Len(packets_pcap) \in Nat
         /\ (net_pc[w] # "header" => Len(packets_pcap) > 0)
<1>1. Shape /\ PcapWellFormed /\ Mfcap = w
  BY DEF PcapInv, Exclusive, Writing
<1>2. PICK S : packets_pcap \in Seq(S)
  BY <1>1 DEF Shape
<1>3. packets_pcap = <<>> <=> Len(packets_pcap) = 0
  BY <1>2
<1>4. CASE net_pc[w] = "header"
  <2>1. packets_pcap = <<>>
    BY <1>4 DEF PcapInv, Stage
  <2> QED BY <2>1, <1>1, <1>2, <1>3, <1>4, AppendKeeps DEF Last
<1>5. CASE net_pc[w] = "record"
  <2>1. Len(packets_pcap) > 0 /\ Last.what \in {"header", "data"}
    BY <1>5 DEF PcapInv, Stage, Complete
  <2>2. (\E T : packets_pcap' \in Seq(T)) /\ PcapWellFormed'
    BY <2>1, <1>1, <1>3, <1>5, AppendKeeps
  <2> QED BY <2>1, <2>2, <1>1, <1>2, <1>5 DEF Last
<1>6. CASE net_pc[w] = "data"
  <2>1. /\ Len(packets_pcap) > 1 /\ Last.what = "record"
        /\ Last.packet = net_job[w].packet /\ Last.from = net_job[w].from
    BY <1>6 DEF PcapInv, Stage
  <2>2. (\E T : packets_pcap' \in Seq(T)) /\ PcapWellFormed'
    BY <2>1, <1>1, <1>2, <1>3, <1>6, AppendKeeps
  <2> QED BY <2>1, <2>2, <1>1, <1>2, <1>6 DEF Last
<1> QED BY <1>4, <1>5, <1>6

LEMMA WritePieceKeeps == ASSUME PcapInv, NEW w \in Carvers, WritePiece(w) PROVE PcapInv'
<1> DEFINE e == Piece(w)
<1>1. /\ net_pc[w] \in {"header", "record", "data"} /\ fcap = "good" /\ fcap' = "good"
      /\ packets_pcap' = Append(packets_pcap, e) /\ net_job' = net_job
      /\ net_pc' = [net_pc EXCEPT ![w] = Behind[net_pc[w]]] /\ Unlocks(w)
  BY DEF WritePiece, Goto, Behind
<1>2. e.what = net_pc[w] /\ e.packet = net_job[w].packet /\ e.from = net_job[w].from
  BY DEF Piece
<1> HIDE DEF e
<1>3. /\ \E S : packets_pcap' \in Seq(S)
      /\ PcapWellFormed' /\ Mfcap = w /\ Last' = e
      /\ Len(packets_pcap') = Len(packets_pcap) + 1 /\ Len(packets_pcap) \in Nat
      /\ (net_pc[w] # "header" => Len(packets_pcap) > 0)
  BY <1>1, <1>2, PieceFits
<1>4. CASE net_pc[w] = "header"
  <2>1. Ready(w, "record")'
    BY <1>1, <1>2, <1>3, <1>4 DEF Ready, Writing, Complete
  <2>2. Behind[net_pc[w]] = "record" /\ Mfcap' = w
    BY <1>1, <1>3, <1>4 DEF Behind, Unlocks
  <2> QED BY <1>1, <1>3, <2>1, <2>2, HolderKeeps DEF Places, Writing
<1>5. CASE net_pc[w] = "record"
  <2>1. Ready(w, "data")'
    BY <1>1, <1>2, <1>3, <1>5 DEF Ready, Writing
  <2>2. Behind[net_pc[w]] = "data" /\ Mfcap' = w
    BY <1>1, <1>3, <1>5 DEF Behind, Unlocks
  <2> QED BY <1>1, <1>3, <2>1, <2>2, HolderKeeps DEF Places, Writing
<1>6. CASE net_pc[w] = "data"
  <2>1. Ready(w, "carve")'
    BY <1>1, <1>2, <1>3, <1>6 DEF Ready, Writing, Complete
  <2>2. Behind[net_pc[w]] = "carve" /\ Mfcap' = NoCarver
    BY <1>1, <1>6 DEF Behind, Unlocks
  <2> QED BY <1>1, <1>3, <2>1, <2>2, HolderKeeps DEF Places, Writing
<1> QED BY <1>1, <1>4, <1>5, <1>6

LEMMA WriteFailsKeeps == ASSUME PcapInv, NEW w \in Carvers, WriteFails(w) PROVE PcapInv'
<1> DEFINE e == [Piece(w) EXCEPT !.what = "partial"]
<1>1. /\ net_pc[w] \in {"header", "record", "data"} /\ fcap = "good" /\ fcap' = "bad"
      /\ packets_pcap' = Append(packets_pcap, e) /\ net_job' = net_job
      /\ IF net_pc[w] = "data" THEN Goto(w, "carve") /\ Unlocks(w) ELSE Throw(w)
  BY DEF WriteFails, Behind
<1>2. e.what = "partial" /\ e.packet = net_job[w].packet /\ e.from = net_job[w].from
  BY DEF Piece
<1> HIDE DEF e
<1>3. (\E S : packets_pcap' \in Seq(S)) /\ PcapWellFormed' /\ Mfcap = w
  BY <1>1, <1>2, PieceFits
<1>4. ASSUME NEW place \in {"carve", "idle"} PROVE Ready(w, place)'
  BY <1>1 DEF Ready
<1>5. \E place \in {"carve", "idle"} : Goto(w, place) /\ Mfcap' = NoCarver
  BY <1>1 DEF Throw, Unlocks
<1> QED BY <1>1, <1>3, <1>4, <1>5, HolderKeeps DEF Places, Writing, Goto

LEMMA WriteToBadStreamKeeps == ASSUME PcapInv, NEW w \in Carvers, WriteToBadStream(w) PROVE PcapInv'
<1>1. /\ net_pc[w] = "record" /\ fcap = "bad" /\ Goto(w, "idle") /\ Mfcap' = NoCarver
      /\ UNCHANGED <<net_job, fcap, packets_pcap>>
  BY DEF WriteToBadStream, Throw
<1>2. Mfcap = w
  BY <1>1 DEF PcapInv, Exclusive, Writing
<1>3. (\E S : packets_pcap' \in Seq(S)) /\ PcapWellFormed'
  BY <1>1 DEF PcapInv, Shape, PcapWellFormed, Pieces, SamePacket
<1>4. Ready(w, "idle")'
  BY <1>1 DEF Ready
<1> QED BY <1>1, <1>2, <1>3, <1>4, HolderKeeps DEF Places, Writing, Goto

LEMMA NextPcap == ASSUME PcapInv, [NetNext]_net_vars PROVE PcapInv'
<1>1. CASE UNCHANGED net_vars
  BY <1>1 DEF net_vars, PcapInv, Shape, Exclusive, Stage, Complete, Last, PcapWellFormed, Pieces, SamePacket
<1>2. ASSUME NEW w \in Carvers, NetWorker(w) PROVE PcapInv'
  <2> DEFINE Job == net_job' = net_job \/ \E job : net_job' = [net_job EXCEPT ![w] = job]
  <2>1. Job => /\ net_job' = [x \in Carvers |-> net_job'[x]]
               /\ \A x \in Carvers : x # w => net_job'[x] = net_job[x]
    BY DEF PcapInv, Shape
  <2>2. ASSUME NEW place \in Places \ Writing, net_pc[w] \notin Writing,
               Goto(w, place) \/ (net_pc[w] = place /\ UNCHANGED net_pc), Job,
               UNCHANGED <<Mfcap, packets_pcap>>,
               fcap' = fcap \/ (Mfcap = NoCarver /\ fcap = "good" /\ fcap' = "bad")
        PROVE  PcapInv'
    <3>1. net_pc' = [net_pc EXCEPT ![w] = place]
      BY <2>2 DEF Goto, PcapInv, Shape
    <3> QED BY <2>1, <2>2, <3>1, OutsideKeeps
  <2> HIDE DEF Job
  <2>3. CASE BeginPage(w)
    BY <2>3, <2>2 DEF BeginPage, Job, Places, Writing
  <2>4. CASE CarveAt(w)
    <3>1. /\ net_pc[w] = "carve" /\ UNCHANGED <<Mfcap, fcap, packets_pcap>>
          /\ Goto(w, "lock") \/ UNCHANGED net_pc
          /\ \E job : net_job' = [net_job EXCEPT ![w] = job]
      BY <2>4 DEF CarveAt
    <3>2. Job
      BY <3>1 DEF Job
    <3>3. "lock" \in Places \ Writing /\ "carve" \in Places \ Writing
      BY DEF Places, Writing
    <3> QED BY <3>1, <3>2, <3>3, <2>2
  <2>5. CASE ThrowTruncated(w)
    BY <2>5, <2>2 DEF ThrowTruncated, Job, Places, Writing
  <2>6. CASE EndCarve(w)
    BY <2>6, <2>2 DEF EndCarve, Job, Places, Writing
  <2>7. CASE Flush(w)
    BY <2>7, <2>2 DEF Flush, Job, Places, Writing
  <2> QED BY <1>2, <2>3, <2>4, <2>5, <2>6, <2>7, LockKeeps, OpenFileKeeps, WritePieceKeeps,
             WriteFailsKeeps, WriteToBadStreamKeeps DEF NetWorker
<1> QED BY <1>1, <1>2 DEF NetNext

\* packets.pcap stays a file header and whole records, each with its own data, for
\* every image, any number of workers and any write that fails: pcap_writepkt holds
\* Mfcap over all pieces of a record, and a failed stream takes nothing more.
THEOREM PcapStaysWellFormed == NetSpec => []PcapWellFormed
<1>1. NetInit => PcapInv
  BY InitPcap
<1>2. PcapInv /\ [NetNext]_net_vars => PcapInv'
  BY NextPcap
<1>3. PcapInv => PcapWellFormed
  BY DEF PcapInv
<1> QED BY <1>1, <1>2, <1>3, PTL DEF NetSpec

-----------------------------------------------------------------------------
(* No packet twice *)

InPage(p, n) == PageStart(n) <= p.at /\ p.at < PageStart(n) + net_pagesize

\* Pages do not overlap.
LEMMA PagesApart ==
  ASSUME NEW n \in Nat, NEW m \in Nat, NEW at \in Nat,
         PageStart(n) <= at, at < PageStart(n) + net_pagesize,
         PageStart(m) <= at, at < PageStart(m) + net_pagesize
  PROVE  n = m
<1>0. net_pagesize \in Nat \ {0}
  BY NetAssumption
<1>1. ASSUME NEW i \in Nat, NEW j \in Nat, i < j PROVE i * net_pagesize + net_pagesize <= j * net_pagesize
  <2>1. PICK d \in Nat : j = i + 1 + d
    <3>1. j - i - 1 \in Nat /\ j = i + 1 + (j - i - 1)
      BY <1>1
    <3> QED BY <3>1
  <2>2. j * net_pagesize = i * net_pagesize + net_pagesize + d * net_pagesize
    BY <2>1, <1>0
  <2>3. d * net_pagesize \in Nat /\ i * net_pagesize \in Nat
    BY <1>0
  <2> QED BY <2>2, <2>3, <1>0
<1>2. n * net_pagesize \in Nat /\ m * net_pagesize \in Nat
  BY <1>0
<1>3. ~(n < m)
  BY <1>0, <1>1, <1>2 DEF PageStart
<1>4. ~(m < n)
  BY <1>0, <1>1, <1>2 DEF PageStart
<1> QED BY <1>3, <1>4

\* What a carver may have found at q: nothing, or a packet that begins there or right
\* behind the headers there, and that the loop then leaves behind.
Carved(c, q) ==
  /\ DOMAIN c = DOMAIN Nothing /\ c.bytes \in Nat /\ c.from \in Nat /\ c.time \in Nat
  /\ c.features \subseteq {"ip", "tcp", "ether"} \X Nat
  /\ c.packet # NoPacket => /\ c.packet \in net_image.packets
                            /\ q <= c.packet.at /\ c.packet.at <= q + 2 /\ c.packet.at < q + c.bytes

LEMMA HeaderFound ==
  ASSUME net_image \in Images, NEW n, NEW q \in Nat, NEW h, h = sanityCheckIP46Header(n, q), h # NoPacket
  PROVE  h \in net_image.packets /\ h.at = q /\ h.len \in Nat /\ h.len > 1
<1>1. h \in net_image.packets /\ h.at = q
  BY DEF sanityCheckIP46Header
<1> QED BY <1>1, ImageAssumption DEF ETHER_HEAD_LEN

LEMMA FieldsTyped ==
  ASSUME NEW base \in Nat, NEW thrown
  PROVE  IpFields(base, thrown) \subseteq {"ip", "tcp", "ether"} \X Nat
BY DEF IpFields, Reports

LEMMA RecordCarved ==
  ASSUME net_image \in Images, NEW n, NEW q \in Nat PROVE Carved(carvePCAPPackets(n, q), q)
<1>1. CASE ~\E p \in RecordsAt(n, q) : RecordEnd(p) = BufEnd(n) \/ likely_valid_pcap_packet_header(n, RecordEnd(p))
  BY <1>1 DEF carvePCAPPackets, Carved, Nothing
<1>2. CASE \E p \in RecordsAt(n, q) : RecordEnd(p) = BufEnd(n) \/ likely_valid_pcap_packet_header(n, RecordEnd(p))
  <2> DEFINE record == CHOOSE p \in RecordsAt(n, q) : TRUE
             data == q + PCAP_RECORD_HEADER_SIZE
             raw == sanityCheckIP46Header(n, data)
             h2 == IF raw # NoPacket THEN raw ELSE sanityCheckIP46Header(n, data + ETHER_HEAD_LEN)
             size == PCAP_RECORD_HEADER_SIZE + CapLen(record)
             thrown == Port0(data, h2)
  <2>1. record \in net_image.packets
    BY <1>2 DEF RecordsAt
  <2>2. size \in Nat /\ size > 2
    BY <2>1, ImageAssumption DEF CapLen, PCAP_RECORD_HEADER_SIZE, ETHER_HEAD_LEN
  <2>3. data \in Nat /\ data = q + 1 /\ data + ETHER_HEAD_LEN \in Nat /\ data + ETHER_HEAD_LEN = q + 2
    BY DEF PCAP_RECORD_HEADER_SIZE, ETHER_HEAD_LEN
  <2>4. h2 # NoPacket => h2 \in net_image.packets /\ h2.at \in {q + 1, q + 2}
    BY <2>3, HeaderFound
  <2>5. IpFields(data, thrown) \subseteq {"ip", "tcp", "ether"} \X Nat
    BY <2>3, FieldsTyped
  <2>6. carvePCAPPackets(n, q) =
          IF h2 = NoPacket THEN [Nothing EXCEPT !.bytes = size]
          ELSE [features |-> IpFields(data, thrown), bytes |-> IF thrown THEN 0 ELSE size,
                packet |-> IF thrown THEN NoPacket ELSE h2, from |-> data, time |-> q]
    BY <1>2 DEF carvePCAPPackets
  <2> HIDE DEF record, data, raw, h2, size, thrown
  <2>7. CASE h2 = NoPacket
    BY <2>2, <2>6, <2>7 DEF Carved, Nothing
  <2>8. CASE h2 # NoPacket
    BY <2>2, <2>3, <2>4, <2>5, <2>6, <2>8 DEF Carved, Nothing
  <2> QED BY <2>7, <2>8
<1> QED BY <1>1, <1>2

LEMMA EtherCarved ==
  ASSUME net_image \in Images, NEW n, NEW q \in Nat PROVE Carved(carveEther(n, q), q)
<1> DEFINE h == sanityCheckIP46Header(n, q + ETHER_HEAD_LEN)
           thrown == Port0(q + ETHER_HEAD_LEN, h)
<1>1. q + ETHER_HEAD_LEN = q + 1 /\ q + 1 \in Nat /\ ETHER_HEAD_LEN = 1
  BY DEF ETHER_HEAD_LEN
<1>2. h # NoPacket => h \in net_image.packets /\ h.at = q + 1 /\ h.len \in Nat /\ h.len > 1
  BY <1>1, HeaderFound
<1>3. Reports("ether", q) \cup IpFields(q + ETHER_HEAD_LEN, thrown) \subseteq {"ip", "tcp", "ether"} \X Nat
  BY <1>1, FieldsTyped DEF Reports
<1>4. carveEther(n, q) =
        IF ~validateEther(q) \/ h = NoPacket THEN Nothing ELSE IF ~h.cksum THEN Nothing
        ELSE [features |-> Reports("ether", q) \cup IpFields(q + ETHER_HEAD_LEN, thrown),
              bytes |-> IF thrown THEN 0 ELSE ETHER_HEAD_LEN + h.len,
              packet |-> IF thrown THEN NoPacket ELSE h, from |-> q, time |-> 0]
  BY DEF carveEther
<1> HIDE DEF h, thrown
<1>5. CASE carveEther(n, q) = Nothing
  BY <1>5 DEF Carved, Nothing
<1>6. CASE carveEther(n, q) # Nothing
  BY <1>1, <1>2, <1>3, <1>4, <1>6 DEF Carved, Nothing
<1> QED BY <1>5, <1>6

LEMMA FrameCarved ==
  ASSUME net_image \in Images, NEW n \in Nat, NEW q \in Nat PROVE Carved(carveIPFrame(n, q), q)
<1> DEFINE h == sanityCheckIP46Header(n, q)
           thrown == Port0Copy(n, q, h)
<1>1. PageStart(n) \in Nat
  BY NetAssumption DEF PageStart
<1>2. h # NoPacket => h \in net_image.packets /\ h.at = q /\ h.len \in Nat /\ h.len > 1
  BY HeaderFound
<1>3. IpFields(q, thrown) \subseteq {"ip", "tcp", "ether"} \X Nat
  BY FieldsTyped
<1>4. carveIPFrame(n, q) =
        IF h = NoPacket THEN Nothing ELSE IF ~h.addr \/ ~h.cksum THEN Nothing
        ELSE [features |-> IpFields(q, thrown), bytes |-> IF thrown THEN 0 ELSE h.len,
              packet |-> IF thrown THEN NoPacket ELSE h, from |-> PageStart(n), time |-> 0]
  BY DEF carveIPFrame
<1> HIDE DEF h, thrown
<1>5. CASE carveIPFrame(n, q) = Nothing
  BY <1>5 DEF Carved, Nothing
<1>6. CASE carveIPFrame(n, q) # Nothing
  BY <1>1, <1>2, <1>3, <1>4, <1>6 DEF Carved, Nothing
<1> QED BY <1>5, <1>6

LEMMA TriedCarved ==
  ASSUME net_image \in Images, NEW n \in Nat, NEW q \in Nat, NEW tried, tried = Tried(n, q)
  PROVE  /\ First(tried) \in 1 .. 5
         /\ \A k \in 1 .. 5 : Carved(tried[k], q)
<1>1. Carved(carvePCAPFileHeader(q), q) /\ Carved(carve_memory(q), q)
  BY DEF Carved, carvePCAPFileHeader, carve_memory, Nothing, Reports, TCPDUMP_HEADER_SIZE, MEMORY_BYTES
<1>2. tried = <<carvePCAPFileHeader(q), carvePCAPPackets(n, q), carveEther(n, q), carveIPFrame(n, q), carve_memory(q)>>
  BY DEF Tried
<1>3. \A k \in 1 .. 5 : Carved(tried[k], q)
  BY <1>1, <1>2, RecordCarved, EtherCarved, FrameCarved
<1>4. Len(tried) = 5 /\ DOMAIN tried = 1 .. 5
  BY <1>1, <1>2
<1>5. First(tried) \in 1 .. 5
  <2>1. CASE Hits(tried) = {}
    BY <1>4, <2>1 DEF First
  <2>2. CASE Hits(tried) # {}
    <3>1. \E k \in Hits(tried) : \A j \in Hits(tried) : k <= j
      <4>1. Hits(tried) = {k \in {1, 2, 3, 4, 5} : tried[k].bytes > 0}
        BY <1>4 DEF Hits
      <4>2. ASSUME NEW k \in {1, 2, 3, 4, 5}, k \in Hits(tried), \A j \in {1, 2, 3, 4, 5} : j < k => j \notin Hits(tried)
            PROVE  \A j \in Hits(tried) : k <= j
        BY <4>1, <4>2
      <4> QED BY <2>2, <4>1, <4>2
    <3>2. First(tried) \in Hits(tried)
      BY <2>2, <3>1 DEF First
    <3> QED BY <1>4, <3>2 DEF Hits
  <2> QED BY <2>1, <2>2
<1> QED BY <1>3, <1>5

\* The places where a worker has a packet to write, and those where it is yet to be written.
HasPacket == {"lock", "open", "header", "record", "data"}
YetToWrite == HasPacket \ {"data"}

\* The types, of what does not depend on how many writes may fail.
NetTyped ==
  /\ net_image \in Images
  /\ net_pages \subseteq NetPages /\ net_abandoned \subseteq NetPages
  /\ net_pc \in [Carvers -> Places]
  /\ net_page \in [Carvers -> Nat] /\ net_pos \in [Carvers -> Nat]
  /\ DOMAIN net_job = Carvers
  /\ \A w \in Carvers : /\ DOMAIN net_job[w] = DOMAIN Nothing
                        /\ net_job[w].from \in Nat /\ net_job[w].time \in Nat
  /\ packets_pcap \in Seq([what : DOMAIN Behind \cup {"partial"}, packet : net_image.packets, from : Nat, time : Nat])
  /\ net_features \subseteq {"ip", "tcp", "ether"} \X Nat
  /\ net_errors \in 0 .. MaxWriteErrors

\* A page has one worker, which does not go back in it.
Owners ==
  \A w \in Carvers : net_pc[w] # "idle" =>
    /\ net_page[w] \in NetPages \ net_pages
    /\ PageStart(net_page[w]) <= net_pos[w]
    /\ \A v \in Carvers : net_pc[v] # "idle" /\ net_page[v] = net_page[w] => v = w

\* A packet to write lies in the page it was found in, before the place the loop is at.
InHand ==
  \A w \in Carvers : net_pc[w] \in HasPacket =>
    LET p == net_job[w].packet
    IN  p \in net_image.packets /\ InPage(p, net_page[w]) /\ p.at < net_pos[w]

Records == {k \in DOMAIN packets_pcap : packets_pcap[k].what = "record"}
\* Where the records of a worker's page end.
Reached(w) == IF net_pc[w] \in YetToWrite THEN net_job[w].packet.at ELSE net_pos[w]

\* No record is of a page that is not begun, or lies behind what its worker reached.
WrittenBefore ==
  \A k \in Records :
    /\ \A n \in net_pages : ~InPage(packets_pcap[k].packet, n)
    /\ \A w \in Carvers : net_pc[w] # "idle" /\ InPage(packets_pcap[k].packet, net_page[w])
                            => packets_pcap[k].packet.at < Reached(w)

TwiceInv == NetTyped /\ Owners /\ InHand /\ WrittenBefore /\ NoPacketTwice

LEMMA InitTwice == ASSUME NetInit PROVE TwiceInv
<1>1. /\ net_image \in Images /\ net_pages = NetPages /\ net_pc = [w \in Carvers |-> "idle"]
      /\ net_page = [w \in Carvers |-> 0] /\ net_pos = [w \in Carvers |-> 0]
      /\ net_job = [w \in Carvers |-> Nothing] /\ packets_pcap = <<>>
      /\ net_features = {} /\ net_abandoned = {} /\ net_errors = 0
  BY DEF NetInit, NetFresh
<1>2. NetTyped
  BY <1>1, NetAssumption DEF NetTyped, Places, Nothing
<1>3. Owners /\ InHand
  BY <1>1 DEF Owners, InHand, HasPacket
<1>4. WrittenBefore /\ NoPacketTwice
  BY <1>1 DEF WrittenBefore, Records, NoPacketTwice, Pieces
<1> QED BY <1>2, <1>3, <1>4 DEF TwiceInv

LEMMA PageIsNat == ASSUME NetTyped, NEW n \in NetPages PROVE n \in Nat /\ PageStart(n) \in Nat
BY NetAssumption, ImageAssumption DEF NetPages, NetTyped, PageStart

LEMMA RecordedPacket ==
  ASSUME NetTyped, NEW k \in DOMAIN packets_pcap
  PROVE  packets_pcap[k].packet \in net_image.packets /\ packets_pcap[k].packet.at \in Nat
<1> DEFINE S == [what : DOMAIN Behind \cup {"partial"}, packet : net_image.packets, from : Nat, time : Nat]
<1>1. packets_pcap \in Seq(S)
  BY DEF NetTyped
<1> HIDE DEF S
<1>2. packets_pcap[k] \in S
  BY <1>1
<1>3. packets_pcap[k].packet \in net_image.packets
  BY <1>2 DEF S
<1> QED BY <1>3, ImageAssumption DEF NetTyped

\* A worker that goes elsewhere in its page, without writing.
LEMMA GoesOn ==
  ASSUME TwiceInv, NEW w \in Carvers, net_pc[w] # "idle",
         NEW place \in Places, net_pc' = [net_pc EXCEPT ![w] = place],
         UNCHANGED <<net_image, net_pages, net_page, net_pos, net_job, net_features>>,
         place \in HasPacket => net_pc[w] \in HasPacket,
         net_pc[w] \in YetToWrite /\ place \notin YetToWrite => place = "idle",
         place \in YetToWrite => net_pc[w] \in YetToWrite,
         net_errors' \in 0 .. MaxWriteErrors, net_abandoned' \in {net_abandoned, net_abandoned \cup {net_page[w]}},
         NEW e, packets_pcap' = packets_pcap \/ (packets_pcap' = Append(packets_pcap, e) /\ e.what # "record"
           /\ e \in [what : DOMAIN Behind \cup {"partial"}, packet : net_image.packets, from : Nat, time : Nat])
  PROVE  TwiceInv'
<1> USE DEF TwiceInv
<1>1. NetTyped'
  <2>1. net_abandoned' \subseteq NetPages'
    BY DEF Owners, NetPages, NetTyped
  <2>2. packets_pcap' \in Seq([what : DOMAIN Behind \cup {"partial"}, packet : net_image.packets, from : Nat, time : Nat])
    <3> DEFINE S == [what : DOMAIN Behind \cup {"partial"}, packet : net_image.packets, from : Nat, time : Nat]
    <3>1. packets_pcap \in Seq(S)
      BY DEF NetTyped
    <3>2. packets_pcap' = packets_pcap \/ (packets_pcap' = Append(packets_pcap, e) /\ e \in S)
      OBVIOUS
    <3> HIDE DEF S
    <3>3. packets_pcap' \in Seq(S)
      BY <3>1, <3>2
    <3> QED BY <3>3 DEF S
  <2> QED BY <2>1, <2>2 DEF NetTyped, NetPages
<1>2. \A x \in Carvers : /\ net_pc'[x] # "idle" => net_pc[x] # "idle"
                         /\ net_pc'[x] \in HasPacket => net_pc[x] \in HasPacket
                         /\ net_pc'[x] \in YetToWrite => net_pc[x] \in YetToWrite
                         /\ net_pc'[x] # "idle" => Reached(x)' = Reached(x)
  BY DEF NetTyped, Reached
<1>3. Owners'
  BY <1>2 DEF Owners, NetPages, PageStart
<1>4. InHand'
  BY <1>2 DEF InHand, InPage, PageStart
<1>5. Records' = Records /\ \A k \in Records : packets_pcap'[k] = packets_pcap[k]
  <2>1. CASE packets_pcap' = packets_pcap
    BY <2>1 DEF Records
  <2>2. CASE packets_pcap' = Append(packets_pcap, e) /\ e.what # "record"
    <3>1. /\ DOMAIN packets_pcap' = 1 .. Len(packets_pcap) + 1 /\ DOMAIN packets_pcap = 1 .. Len(packets_pcap)
          /\ Len(packets_pcap) \in Nat /\ packets_pcap'[Len(packets_pcap) + 1] = e
          /\ \A k \in 1 .. Len(packets_pcap) : packets_pcap'[k] = packets_pcap[k]
      BY <2>2 DEF NetTyped
    <3>2. \A k \in DOMAIN packets_pcap' : k \in DOMAIN packets_pcap \/ k = Len(packets_pcap) + 1
      BY <3>1
    <3>3. DOMAIN packets_pcap \subseteq DOMAIN packets_pcap' /\ \A k \in DOMAIN packets_pcap : packets_pcap'[k] = packets_pcap[k]
      BY ONLY <3>1, SMTT(60)
    <3>4. \A k \in DOMAIN packets_pcap' : packets_pcap'[k].what = "record" => k \in DOMAIN packets_pcap
      BY <2>2, <3>1, <3>2
    <3> QED BY <3>3, <3>4 DEF Records
  <2> QED BY <2>1, <2>2
<1>6. WrittenBefore'
  BY <1>2, <1>5 DEF WrittenBefore, InPage, PageStart
<1>7. NoPacketTwice'
  <2>1. /\ NoPacketTwice <=> \A j, k \in Records : packets_pcap[j].packet = packets_pcap[k].packet => j = k
        /\ NoPacketTwice' <=> \A j, k \in Records' : packets_pcap'[j].packet = packets_pcap'[k].packet => j = k
    BY DEF NoPacketTwice, Pieces, Records
  <2> QED BY <2>1, <1>5
<1> QED BY <1>1, <1>3, <1>4, <1>6, <1>7

\* A worker begins a page that nobody has begun.
LEMMA BeginTwice == ASSUME TwiceInv, NEW w \in Carvers, BeginPage(w) PROVE TwiceInv'
<1> USE DEF TwiceInv
<1>1. PICK n \in net_pages : /\ net_pages' = net_pages \ {n}
                             /\ net_page' = [net_page EXCEPT ![w] = n]
                             /\ net_pos' = [net_pos EXCEPT ![w] = PageStart(n)]
  BY DEF BeginPage
<1>2. /\ net_pc[w] = "idle" /\ net_pc' = [net_pc EXCEPT ![w] = "carve"]
      /\ UNCHANGED <<net_image, net_job, packets_pcap, net_features, net_abandoned, net_errors>>
  BY DEF BeginPage, Goto
<1>3. n \in NetPages /\ n \in Nat /\ PageStart(n) \in Nat
  BY PageIsNat DEF NetTyped
<1>4. NetTyped'
  BY <1>1, <1>2, <1>3 DEF NetTyped, NetPages, Places
<1>5. /\ net_page'[w] = n /\ net_pos'[w] = PageStart(n) /\ net_pc'[w] = "carve"
      /\ \A x \in Carvers \ {w} : net_page'[x] = net_page[x] /\ net_pos'[x] = net_pos[x] /\ net_pc'[x] = net_pc[x]
  BY <1>1, <1>2 DEF NetTyped
<1>6. Owners'
  <2> SUFFICES ASSUME NEW x \in Carvers, net_pc'[x] # "idle"
               PROVE  /\ net_page'[x] \in NetPages' \ net_pages'
                      /\ PageStart(net_page'[x]) <= net_pos'[x]
                      /\ \A v \in Carvers : net_pc'[v] # "idle" /\ net_page'[v] = net_page'[x] => v = x
    BY DEF Owners, PageStart
  <2>1. NetPages' = NetPages
    BY <1>2 DEF NetPages
  <2>2. CASE x = w
    <3>1. \A v \in Carvers \ {w} : net_pc[v] # "idle" => net_page[v] # n
      BY DEF Owners
    <3> QED BY <1>1, <1>3, <1>5, <2>1, <2>2, <3>1
  <2>3. CASE x # w
    BY <1>1, <1>5, <2>1, <2>3 DEF Owners
  <2> QED BY <2>2, <2>3
<1>7. InHand'
  BY <1>2, <1>5 DEF InHand, HasPacket, InPage, PageStart
<1>8. WrittenBefore'
  <2> SUFFICES ASSUME NEW k \in Records
               PROVE  /\ \A m \in net_pages' : ~InPage(packets_pcap[k].packet, m)
                      /\ \A x \in Carvers : net_pc'[x] # "idle" /\ InPage(packets_pcap[k].packet, net_page'[x])
                                              => packets_pcap[k].packet.at < Reached(x)'
    BY <1>2 DEF WrittenBefore, Records, InPage, PageStart
  <2>1. \A m \in net_pages : ~InPage(packets_pcap[k].packet, m)
    BY DEF WrittenBefore
  <2>2. \A x \in Carvers \ {w} : Reached(x)' = Reached(x)
    BY <1>2, <1>5 DEF Reached
  <2> QED BY <1>1, <1>5, <2>1, <2>2 DEF WrittenBefore
<1>9. NoPacketTwice'
  BY <1>2 DEF NoPacketTwice, Pieces
<1> QED BY <1>4, <1>6, <1>7, <1>8, <1>9

\* What is carved lies at or behind the place of the loop, which then goes on behind it.
LEMMA CarveTwice == ASSUME TwiceInv, NEW w \in Carvers, CarveAt(w) PROVE TwiceInv'
<1> USE DEF TwiceInv
<1> DEFINE n == net_page[w]
           q == net_pos[w]
<1>1. /\ net_pc[w] = "carve" /\ InLoop(n, q)
      /\ UNCHANGED <<net_image, net_pages, net_page, packets_pcap, net_abandoned, net_errors>>
  BY DEF CarveAt
<1>2. PICK c :
        /\ Carved(c, q)
        /\ net_features' \subseteq {"ip", "tcp", "ether"} \X Nat
        /\ net_pos' = [net_pos EXCEPT ![w] = q + Advance(c)]
        /\ net_job' = [net_job EXCEPT ![w] = c]
        /\ IF c.packet # NoPacket THEN Goto(w, "lock") ELSE UNCHANGED net_pc
  <2>1. n \in Nat /\ q \in Nat /\ net_image \in Images
    BY DEF NetTyped
  <2>2. PICK tried : /\ tried = Tried(n, q)
                     /\ net_features' = net_features \cup UNION {tried[k].features : k \in 1 .. First(tried)}
                     /\ net_pos' = [net_pos EXCEPT ![w] = q + Advance(tried[First(tried)])]
                     /\ net_job' = [net_job EXCEPT ![w] = tried[First(tried)]]
                     /\ IF tried[First(tried)].packet # NoPacket THEN Goto(w, "lock") ELSE UNCHANGED net_pc
    BY DEF CarveAt
  <2>3. First(tried) \in 1 .. 5 /\ \A k \in 1 .. 5 : Carved(tried[k], q)
    BY <2>1, <2>2, TriedCarved
  <2>4. \A k \in 1 .. First(tried) : tried[k].features \subseteq {"ip", "tcp", "ether"} \X Nat
    BY <2>3 DEF Carved
  <2>5. net_features' \subseteq {"ip", "tcp", "ether"} \X Nat
    BY <2>2, <2>4 DEF NetTyped
  <2> QED BY <2>2, <2>3, <2>5
<1>3. Advance(c) \in Nat /\ Advance(c) > 0 /\ (c.packet # NoPacket => Advance(c) = c.bytes)
  <2>1. c.bytes \in Nat /\ (c.packet # NoPacket => c.bytes > 0)
    <3>1. c.packet # NoPacket => c.packet.at \in Nat
      BY <1>2, ImageAssumption DEF Carved, NetTyped
    <3> QED BY <1>2, <3>1 DEF Carved, NetTyped
  <2> QED BY <2>1 DEF Advance
<1>4. /\ q \in Nat /\ net_pos'[w] = q + Advance(c) /\ net_job'[w] = c
      /\ \A x \in Carvers \ {w} : net_pos'[x] = net_pos[x] /\ net_job'[x] = net_job[x] /\ net_pc'[x] = net_pc[x]
      /\ net_pc'[w] = IF c.packet # NoPacket THEN "lock" ELSE "carve"
      /\ net_pc' \in [Carvers -> Places]
  BY <1>1, <1>2 DEF NetTyped, Goto, Places
<1>5. NetTyped'
  <2>1. net_pos' \in [Carvers -> Nat]
    <3>1. q + Advance(c) \in Nat
      BY <1>3, <1>4
    <3> QED BY <1>2, <3>1 DEF NetTyped
  <2>2. DOMAIN net_job' = Carvers
    BY <1>2 DEF NetTyped
  <2>3. \A x \in Carvers : /\ DOMAIN net_job'[x] = DOMAIN Nothing
                           /\ net_job'[x].from \in Nat /\ net_job'[x].time \in Nat
    BY <1>2, <1>4 DEF NetTyped, Carved
  <2> QED BY <1>1, <1>2, <1>4, <2>1, <2>2, <2>3 DEF NetTyped, NetPages
<1>6. Owners'
  <2>1. PageStart(n) \in Nat /\ PageStart(n) <= net_pos'[w]
    <3>1. n \in NetPages /\ PageStart(n) <= q
      BY <1>1 DEF Owners
    <3> QED BY <1>3, <1>4, <3>1, PageIsNat
  <2>2. \A x \in Carvers : net_pc'[x] # "idle" => net_pc[x] # "idle"
    BY <1>1, <1>4
  <2> QED BY <1>1, <1>4, <2>1, <2>2 DEF Owners, NetPages, PageStart
<1>7. c.packet # NoPacket =>
        c.packet \in net_image.packets /\ InPage(c.packet, n) /\ q <= c.packet.at /\ c.packet.at < net_pos'[w]
  <2> SUFFICES ASSUME c.packet # NoPacket
               PROVE  c.packet \in net_image.packets /\ InPage(c.packet, n) /\ q <= c.packet.at /\ c.packet.at < net_pos'[w]
    OBVIOUS
  <2>1. c.packet \in net_image.packets /\ q <= c.packet.at /\ c.packet.at <= q + 2 /\ c.packet.at < q + c.bytes
    BY <1>2 DEF Carved
  <2>2. c.packet.at \in Nat
    BY <2>1, ImageAssumption DEF NetTyped
  <2>3. n \in NetPages /\ PageStart(n) <= q /\ n \in Nat /\ PageStart(n) \in Nat
    BY <1>1, PageIsNat DEF Owners
  <2>4. net_image.size \in Nat
    BY ImageAssumption DEF NetTyped
  <2>5. PageEnd(n) <= PageStart(n) + net_pagesize /\ PageEnd(n) \in Nat
    BY <2>3, <2>4, NetAssumption DEF PageEnd, Smaller
  <2>6. q + 2 < PageEnd(n)
    BY <1>1, <1>4, <2>5, NetAssumption DEF InLoop, PCAP_RECORD_HEADER_SIZE, ETHER_HEAD_LEN
  <2>7. c.packet.at < PageStart(n) + net_pagesize
    BY <1>4, <2>1, <2>2, <2>3, <2>5, <2>6, NetAssumption
  <2>8. PageStart(n) <= c.packet.at
    BY <1>4, <2>1, <2>2, <2>3
  <2>9. net_pos'[w] = q + c.bytes
    BY <1>3, <1>4
  <2> QED BY <2>1, <2>7, <2>8, <2>9 DEF InPage
<1> HIDE DEF n, q
<1>8. InHand'
  <2> SUFFICES ASSUME NEW x \in Carvers, net_pc'[x] \in HasPacket
               PROVE  /\ net_job'[x].packet \in net_image.packets
                      /\ InPage(net_job'[x].packet, net_page[x]) /\ net_job'[x].packet.at < net_pos'[x]
    BY <1>1 DEF InHand, InPage, PageStart
  <2>1. CASE x = w
    BY <1>4, <1>7, <2>1 DEF HasPacket, n
  <2>2. CASE x # w
    BY <1>4, <2>2 DEF InHand
  <2> QED BY <2>1, <2>2
<1>9. WrittenBefore'
  <2> SUFFICES ASSUME NEW k \in Records, NEW x \in Carvers,
                      net_pc'[x] # "idle", InPage(packets_pcap[k].packet, net_page[x])
               PROVE  packets_pcap[k].packet.at < Reached(x)'
    BY <1>1 DEF WrittenBefore, Records, InPage, PageStart
  <2>1. CASE x # w
    BY <1>4, <2>1 DEF WrittenBefore, Reached
  <2>2. CASE x = w
    <3>1. packets_pcap[k].packet.at < q
      BY <1>1, <2>2 DEF WrittenBefore, Reached, YetToWrite, HasPacket, q
    <3>2. packets_pcap[k].packet.at \in Nat
      BY RecordedPacket DEF Records
    <3>3. c.packet # NoPacket => c.packet.at \in Nat
      BY <1>7, ImageAssumption DEF NetTyped
    <3> QED BY <1>3, <1>4, <1>7, <2>2, <3>1, <3>2, <3>3 DEF Reached, YetToWrite, HasPacket
  <2> QED BY <2>1, <2>2
<1>10. NoPacketTwice'
  BY <1>1 DEF NoPacketTwice, Pieces
<1> QED BY <1>5, <1>6, <1>8, <1>9, <1>10

LEMMA PieceTyped ==
  ASSUME TwiceInv, NEW w \in Carvers, net_pc[w] \in DOMAIN Behind, NEW what \in {net_pc[w], "partial"}
  PROVE  [what |-> what, packet |-> net_job[w].packet, from |-> net_job[w].from, time |-> net_job[w].time]
           \in [what : DOMAIN Behind \cup {"partial"}, packet : net_image.packets, from : Nat, time : Nat]
<1>1. net_pc[w] \in HasPacket
  BY DEF Behind, HasPacket
<1>2. net_job[w].packet \in net_image.packets
  BY <1>1 DEF TwiceInv, InHand
<1>3. net_job[w].from \in Nat /\ net_job[w].time \in Nat
  BY DEF TwiceInv, NetTyped
<1> QED BY <1>2, <1>3

\* The record of a packet: it lies behind every record of its page.
LEMMA RecordTwice ==
  ASSUME TwiceInv, NEW w \in Carvers, net_pc[w] = "record", WritePiece(w) PROVE TwiceInv'
<1> USE DEF TwiceInv
<1> DEFINE p == net_job[w].packet
           m == Len(packets_pcap) + 1
           S == [what : DOMAIN Behind \cup {"partial"}, packet : net_image.packets, from : Nat, time : Nat]
<1>1. /\ net_pc' = [net_pc EXCEPT ![w] = "data"]
      /\ packets_pcap' = Append(packets_pcap, Piece(w))
      /\ UNCHANGED <<net_image, net_pages, net_page, net_pos, net_job, net_features, net_abandoned, net_errors>>
  BY DEF WritePiece, Goto, Behind
<1>2. Piece(w) \in S /\ Piece(w).what = "record" /\ Piece(w).packet = p
  BY PieceTyped DEF Behind, Piece
<1>3. p \in net_image.packets /\ InPage(p, net_page[w]) /\ p.at < net_pos[w] /\ p.at \in Nat
  <2>1. p \in net_image.packets /\ InPage(p, net_page[w]) /\ p.at < net_pos[w]
    BY DEF InHand, HasPacket
  <2> QED BY <2>1, ImageAssumption DEF NetTyped
<1>4. packets_pcap \in Seq(S)
  BY DEF NetTyped
<1> HIDE DEF S
<1>5. /\ packets_pcap' \in Seq(S) /\ m \in Nat \ {0} /\ packets_pcap'[m] = Piece(w)
      /\ DOMAIN packets_pcap = 1 .. Len(packets_pcap) /\ DOMAIN packets_pcap' = 1 .. m
      /\ \A k \in DOMAIN packets_pcap : packets_pcap'[k] = packets_pcap[k]
  BY <1>1, <1>2, <1>4
<1>6. \A k \in DOMAIN packets_pcap' : k \in DOMAIN packets_pcap \/ k = m
  BY <1>5
<1>7. /\ \A k \in Records' : k = m \/ (k \in Records /\ packets_pcap'[k] = packets_pcap[k])
      /\ packets_pcap'[m].packet = p
  BY <1>2, <1>5, <1>6 DEF Records
<1>8. /\ net_pc'[w] = "data" /\ \A x \in Carvers \ {w} : net_pc'[x] = net_pc[x]
      /\ net_pc' \in [Carvers -> Places]
  BY <1>1 DEF NetTyped, Places
<1>9. NetTyped'
  BY <1>1, <1>5, <1>8 DEF NetTyped, NetPages, S
<1> HIDE DEF p, m
<1>10. Owners'
  BY <1>1, <1>8 DEF Owners, NetPages, PageStart
<1>11. InHand'
  BY <1>1, <1>8 DEF InHand, InPage, PageStart, HasPacket
\* The page of the packet is that of the worker.
<1>12. \A n \in NetPages : InPage(p, n) => n = net_page[w]
  <2> SUFFICES ASSUME NEW n \in NetPages, InPage(p, n) PROVE n = net_page[w]
    OBVIOUS
  <2>1. n \in Nat /\ net_page[w] \in Nat
    BY PageIsNat DEF NetTyped
  <2> QED BY <1>3, <2>1, PagesApart DEF InPage
<1>13. \A k \in Records : packets_pcap[k].packet.at \in Nat
                          /\ (InPage(packets_pcap[k].packet, net_page[w]) => packets_pcap[k].packet.at < p.at)
  BY RecordedPacket DEF WrittenBefore, Records, Reached, YetToWrite, HasPacket, p
<1>14. WrittenBefore'
  <2> SUFFICES ASSUME NEW k \in Records'
               PROVE  /\ \A n \in net_pages : ~InPage(packets_pcap'[k].packet, n)
                      /\ \A x \in Carvers : net_pc'[x] # "idle" /\ InPage(packets_pcap'[k].packet, net_page[x])
                                              => packets_pcap'[k].packet.at < Reached(x)'
    BY <1>1 DEF WrittenBefore, InPage, PageStart
  <2>1. \A x \in Carvers \ {w} : Reached(x)' = Reached(x)
    BY <1>1, <1>8 DEF Reached
  <2>2. Reached(w)' = net_pos[w]
    BY <1>1, <1>8 DEF Reached, YetToWrite, HasPacket
  <2>3. net_pos[w] \in Nat /\ net_page[w] \in NetPages \ net_pages
    BY DEF NetTyped, Owners
  <2>4. CASE k = m
    <3>1. \A n \in net_pages : ~InPage(p, n)
      BY <1>12, <2>3 DEF NetTyped
    <3>2. ASSUME NEW x \in Carvers, net_pc'[x] # "idle", InPage(p, net_page[x]) PROVE x = w
      <4>1. net_pc[x] # "idle"
        BY <1>8, <3>2
      <4>2. net_page[x] = net_page[w]
        BY <1>12, <3>2, <4>1 DEF Owners
      <4> QED BY <4>1, <4>2 DEF Owners
    <3> QED BY <1>3, <1>7, <2>2, <2>4, <3>1, <3>2
  <2>5. CASE k \in Records /\ packets_pcap'[k] = packets_pcap[k]
    <3>1. ASSUME InPage(packets_pcap[k].packet, net_page[w]) PROVE packets_pcap[k].packet.at < net_pos[w]
      BY <1>3, <1>13, <2>3, <2>5, <3>1
    <3> QED BY <1>8, <2>1, <2>2, <2>5, <3>1 DEF WrittenBefore
  <2> QED BY <1>7, <2>4, <2>5
<1>15. \A k \in Records : packets_pcap[k].packet # p
  BY <1>3, <1>13
<1>16. NoPacketTwice'
  <2>1. /\ NoPacketTwice <=> \A j, k \in Records : packets_pcap[j].packet = packets_pcap[k].packet => j = k
        /\ NoPacketTwice' <=> \A j, k \in Records' : packets_pcap'[j].packet = packets_pcap'[k].packet => j = k
    BY DEF NoPacketTwice, Pieces, Records
  <2> QED BY <1>7, <1>15, <2>1
<1> QED BY <1>9, <1>10, <1>11, <1>14, <1>16

LEMMA NextTwice == ASSUME TwiceInv, [NetNext]_net_vars PROVE TwiceInv'
<1>1. CASE UNCHANGED net_vars
  BY <1>1 DEF net_vars, TwiceInv, NetTyped, NetPages, Owners, PageStart, InHand, InPage, WrittenBefore, Records, Reached,
              NoPacketTwice, Pieces
<1>2. ASSUME NEW w \in Carvers, NetWorker(w) PROVE TwiceInv'
  <2> DEFINE Rest == UNCHANGED <<net_image, net_pages, net_page, net_pos, net_job, net_features>>
  <2>1. ASSUME net_pc[w] \in {"carve", "lock", "flush", "open"}, Rest, UNCHANGED packets_pcap,
               NEW place \in {"flush", "open", "header", "record", "idle"}, Goto(w, place),
               place \in {"flush", "idle"} \/ net_pc[w] \in {"lock", "open"},
               place # "flush" \/ net_pc[w] = "carve",
               net_errors' \in 0 .. MaxWriteErrors, net_abandoned' \in {net_abandoned, net_abandoned \cup {net_page[w]}}
        PROVE  TwiceInv'
    BY <2>1, GoesOn DEF Goto, Places, HasPacket, YetToWrite
  <2>2. net_errors \in 0 .. MaxWriteErrors /\ (net_errors < MaxWriteErrors => net_errors + 1 \in 0 .. MaxWriteErrors)
    BY NetAssumption DEF TwiceInv, NetTyped
  <2>3. CASE BeginPage(w)
    BY <2>3, BeginTwice
  <2>4. CASE CarveAt(w)
    BY <2>4, CarveTwice
  <2>5. CASE ThrowTruncated(w)
    BY <2>1, <2>2, <2>5 DEF ThrowTruncated
  <2>6. CASE EndCarve(w)
    BY <2>1, <2>2, <2>6 DEF EndCarve
  <2>7. CASE Flush(w)
    BY <2>1, <2>2, <2>7 DEF Flush
  <2>8. CASE Lock(w)
    BY <2>1, <2>2, <2>8 DEF Lock
  <2>9. CASE OpenFile(w)
    BY <2>1, <2>2, <2>9 DEF OpenFile, Throw
  <2>10. CASE WriteToBadStream(w)
    <3>1. net_pc[w] = "record" /\ Goto(w, "idle") /\ Rest /\ UNCHANGED <<packets_pcap, net_errors>>
          /\ net_abandoned' = net_abandoned \cup {net_page[w]}
      BY <2>10 DEF WriteToBadStream, Throw
    <3> QED BY <2>2, <3>1, GoesOn DEF Goto, Places, HasPacket, YetToWrite
  <2>11. CASE WritePiece(w)
    <3>1. CASE net_pc[w] = "record"
      BY <2>11, <3>1, RecordTwice
    <3>2. CASE net_pc[w] # "record"
      <4> DEFINE e == Piece(w)
      <4>1. net_pc[w] \in {"header", "data"} /\ e.what # "record"
        BY <2>11, <3>2 DEF WritePiece, Behind, Piece
      <4>2. e \in [what : DOMAIN Behind \cup {"partial"}, packet : net_image.packets, from : Nat, time : Nat]
        BY <4>1, PieceTyped DEF Piece, Behind
      <4>3. /\ Goto(w, IF net_pc[w] = "header" THEN "record" ELSE "carve") /\ Rest
            /\ packets_pcap' = Append(packets_pcap, e) /\ UNCHANGED <<net_abandoned, net_errors>>
        BY <2>11, <4>1 DEF WritePiece, Behind
      <4> HIDE DEF e
      <4> QED BY <2>2, <4>1, <4>2, <4>3, GoesOn DEF Goto, Places, HasPacket, YetToWrite
    <3> QED BY <3>1, <3>2
  <2>12. CASE WriteFails(w)
    <3> DEFINE e == [Piece(w) EXCEPT !.what = "partial"]
    <3>1. net_pc[w] \in {"header", "record", "data"} /\ e.what # "record"
      BY <2>12 DEF WriteFails, Behind, Piece
    <3>2. e \in [what : DOMAIN Behind \cup {"partial"}, packet : net_image.packets, from : Nat, time : Nat]
      BY <3>1, PieceTyped DEF Piece, Behind
    <3>3. /\ \E place \in {"carve", "idle"} : Goto(w, place) /\ (place = "carve" => net_pc[w] = "data")
          /\ Rest /\ packets_pcap' = Append(packets_pcap, e)
          /\ net_errors < MaxWriteErrors /\ net_errors' = net_errors + 1
          /\ net_abandoned' \in {net_abandoned, net_abandoned \cup {net_page[w]}}
      BY <2>12, <3>1 DEF WriteFails, Throw
    <3> HIDE DEF e
    <3> QED BY <2>2, <3>1, <3>2, <3>3, GoesOn DEF Goto, Places, HasPacket, YetToWrite
  <2> QED BY <1>2, <2>3, <2>4, <2>5, <2>6, <2>7, <2>8, <2>9, <2>10, <2>11, <2>12 DEF NetWorker
<1> QED BY <1>1, <1>2 DEF NetNext

\* No packet is written to packets.pcap twice, by two carvers or by two workers: a worker
\* has its page to itself and goes on behind what it carved, and a packet lies in the page
\* it was found in, since carving stops more than both headers before its end.
THEOREM PacketsWrittenOnce == NetSpec => []NoPacketTwice
<1>1. TwiceInv => NoPacketTwice
  BY DEF TwiceInv
<1> QED BY <1>1, InitTwice, NextTwice, PTL DEF NetSpec

\* The variables of scan_net and of its writer keep their types.
THEOREM NetTyping == NetSpec => []NetTypeOK
<1>1. TwiceInv /\ PcapInv => NetTypeOK
  BY DEF TwiceInv, PcapInv, Shape, NetTyped, NetTypeOK, Places, Behind
<1> QED BY <1>1, InitTwice, NextTwice, InitPcap, NextPcap, PTL DEF NetSpec

-----------------------------------------------------------------------------
(* No packet left out *)

\* A frame of which FramesKept speaks: it is good, and nothing else lies where it does.
Clear(p) ==
  /\ p \in net_image.packets /\ p.ip /\ p.ether /\ p.cksum /\ ~p.port0
  /\ Extent(p) \cap Elsewhere(p) = {}
Start(p) == IF p.record THEN RecordStart(p) ELSE FrameStart(p)
\* A page that is to find it.
Finds(n, p) == PageStart(n) <= FrameStart(p) /\ InLoop(n, FrameStart(p)) /\ p.at + p.len <= BufEnd(n)

\* Where a clear packet lies, there is no other thing, and no part of another packet.
LEMMA ClearApart ==
  ASSUME net_image \in Images, NEW p, Clear(p), NEW x \in Int, Start(p) <= x, x < p.at + p.len
  PROVE  /\ x \notin net_image.memory /\ x \notin net_image.files
         /\ \A o \in net_image.packets :
              /\ x < o.at + o.len
              /\ o.at <= x \/ (o.ether /\ FrameStart(o) <= x) \/ (o.record /\ RecordStart(o) <= x)
              => o = p
<1>1. p \in net_image.packets /\ p.at \in Nat /\ p.len \in Nat /\ p.ether /\ p.record \in BOOLEAN
  BY ImageAssumption DEF Clear
<1>2. x \in Extent(p)
  BY <1>1 DEF Extent, Start, RecordStart, FrameStart, PCAP_RECORD_HEADER_SIZE, ETHER_HEAD_LEN
<1>3. x \notin Elsewhere(p)
  BY <1>2 DEF Clear
<1>4. ASSUME NEW o \in net_image.packets, x < o.at + o.len,
             o.at <= x \/ (o.ether /\ FrameStart(o) <= x) \/ (o.record /\ RecordStart(o) <= x)
      PROVE  x \in Extent(o)
  <2>1. o.at \in Nat /\ o.len \in Nat /\ o.ether \in BOOLEAN /\ o.record \in BOOLEAN
    BY ImageAssumption
  <2>. QED
    BY <1>4, <2>1 DEF Extent, RecordStart, FrameStart, PCAP_RECORD_HEADER_SIZE, ETHER_HEAD_LEN
<1>5. \A o \in net_image.packets : x \in Extent(o) => o = p
  BY <1>3 DEF Elsewhere
<1>. QED
  BY <1>3, <1>4, <1>5 DEF Elsewhere

\* What is carved before a clear packet ends before it.
LEMMA EndsBefore ==
  ASSUME net_image \in Images, NEW p, Clear(p), NEW n \in Nat, NEW q \in Nat, q < Start(p),
         NEW c \in {carvePCAPFileHeader(q), carvePCAPPackets(n, q), carveEther(n, q), carveIPFrame(n, q), carve_memory(q)}
  PROVE  c.bytes \in Nat /\ q + c.bytes <= Start(p)
<1>1. p \in net_image.packets /\ p.at \in Nat /\ p.len \in Nat /\ p.len > 1 /\ p.ether /\ p.record \in BOOLEAN
  BY ImageAssumption DEF Clear, ETHER_HEAD_LEN
<1>2. Start(p) \in Int /\ Start(p) < p.at /\ (p.record => Start(p) = RecordStart(p))
  BY <1>1 DEF Start, RecordStart, FrameStart, PCAP_RECORD_HEADER_SIZE, ETHER_HEAD_LEN
<1>3. ASSUME NEW o \in net_image.packets, o # p, o.at <= Start(p) \/ (o.record /\ RecordStart(o) <= Start(p))
      PROVE  o.at + o.len <= Start(p) /\ o.at \in Nat /\ o.len \in Nat
  <2>1. o.at \in Nat /\ o.len \in Nat
    BY ImageAssumption
  <2>2. ~(Start(p) < o.at + o.len)
    BY <1>1, <1>2, <1>3, ClearApart
  <2>. QED
    BY <1>2, <2>1, <2>2
<1>4. CASE c \in {carvePCAPFileHeader(q), carve_memory(q)}
  <2>1. carvePCAPFileHeader(q).bytes \in {0, 1}
    BY DEF carvePCAPFileHeader, Nothing, TCPDUMP_HEADER_SIZE
  <2>2. carve_memory(q).bytes \in {0, 1}
    BY DEF carve_memory, Nothing, MEMORY_BYTES
  <2>. QED
    BY <1>2, <1>4, <2>1, <2>2
<1>5. CASE c = carvePCAPPackets(n, q)
  <2>1. CASE ~\E o \in RecordsAt(n, q) : RecordEnd(o) = BufEnd(n) \/ likely_valid_pcap_packet_header(n, RecordEnd(o))
    BY <1>2, <1>5, <2>1 DEF carvePCAPPackets, Nothing
  <2>2. CASE \E o \in RecordsAt(n, q) : RecordEnd(o) = BufEnd(n) \/ likely_valid_pcap_packet_header(n, RecordEnd(o))
    <3> DEFINE record == CHOOSE o \in RecordsAt(n, q) : TRUE
               size == PCAP_RECORD_HEADER_SIZE + CapLen(record)
    <3>1. record \in net_image.packets /\ record.record /\ RecordStart(record) = q
      BY <2>2 DEF RecordsAt
    <3>2. c.bytes \in {0, size}
      BY <1>5, <2>2 DEF carvePCAPPackets, Nothing
    <3> HIDE DEF record
    <3>3. record.at \in Nat /\ record.len \in Nat /\ record.ether \in BOOLEAN
      BY <3>1, ImageAssumption
    <3>4. size \in Nat /\ q + size = record.at + record.len
      BY <3>1, <3>3 DEF CapLen, RecordStart, PCAP_RECORD_HEADER_SIZE, ETHER_HEAD_LEN
    <3>5. record # p
      BY <1>2, <3>1
    <3>6. q + size <= Start(p)
      BY <1>2, <1>3, <3>1, <3>4, <3>5
    <3> HIDE DEF size
    <3>. QED
      BY <1>2, <3>2, <3>4, <3>6
  <2>. QED
    BY <2>1, <2>2
<1>6. CASE c = carveEther(n, q)
  <2> DEFINE h == sanityCheckIP46Header(n, q + ETHER_HEAD_LEN)
  <2>1. CASE c.bytes = 0
    BY <1>2, <2>1
  <2>2. CASE c.bytes # 0
    <3>1. h # NoPacket /\ c.bytes = ETHER_HEAD_LEN + h.len
      BY <1>6, <2>2 DEF carveEther, Nothing
    <3>2. h \in net_image.packets /\ h.at = q + 1 /\ h.len \in Nat
      BY <3>1, HeaderFound DEF ETHER_HEAD_LEN
    <3> HIDE DEF h
    <3>3. h # p
      BY <1>2, <3>2
    <3>4. h.at + h.len <= Start(p)
      BY <1>2, <1>3, <3>2, <3>3
    <3>. QED
      BY <3>1, <3>2, <3>4 DEF ETHER_HEAD_LEN
  <2>. QED
    BY <2>1, <2>2
<1>7. CASE c = carveIPFrame(n, q)
  <2> DEFINE h == sanityCheckIP46Header(n, q)
  <2>1. CASE c.bytes = 0
    BY <1>2, <2>1
  <2>2. CASE c.bytes # 0
    <3>1. h # NoPacket /\ c.bytes = h.len
      BY <1>7, <2>2 DEF carveIPFrame, Nothing
    <3>2. h \in net_image.packets /\ h.at = q /\ h.len \in Nat
      BY <3>1, HeaderFound
    <3> HIDE DEF h
    <3>3. h # p
      BY <1>2, <3>2
    <3>4. h.at + h.len <= Start(p)
      BY <1>2, <1>3, <3>2, <3>3
    <3>. QED
      BY <3>1, <3>2, <3>4
  <2>. QED
    BY <2>1, <2>2
<1>. QED
  BY <1>4, <1>5, <1>6, <1>7

\* At the record before a clear packet that is found in whole, either it is what is carved,
\* or nothing is.
LEMMA AtRecord ==
  ASSUME net_image \in Images, NEW p, Clear(p), NEW n \in Nat, NEW q \in Nat,
         p.record, q = RecordStart(p), p.at + p.len <= BufEnd(n)
  PROVE  /\ carvePCAPFileHeader(q) = Nothing /\ carveEther(n, q) = Nothing
         /\ carveIPFrame(n, q) = Nothing /\ carve_memory(q) = Nothing
         /\ carvePCAPPackets(n, q).packet = p \/ carvePCAPPackets(n, q).bytes = 0
<1>1. p \in net_image.packets /\ p.at \in Nat /\ p.len \in Nat /\ p.len > 1 /\ p.ether /\ p.ip
  BY ImageAssumption DEF Clear, ETHER_HEAD_LEN
<1>2. Start(p) = q /\ q + 2 = p.at /\ FrameStart(p) = q + 1
  BY <1>1 DEF Start, RecordStart, FrameStart, PCAP_RECORD_HEADER_SIZE, ETHER_HEAD_LEN
<1>3. ASSUME NEW o \in net_image.packets,
             o.at \in {q, q + 1, q + 2} \/ (o.ether /\ o.at = q + 1) \/ (o.record /\ RecordStart(o) = q)
      PROVE  o = p
  <2>1. o.at \in Nat /\ o.len \in Nat /\ o.len > 1 /\ o.ether \in BOOLEAN
    BY ImageAssumption DEF ETHER_HEAD_LEN
  <2>2. CASE o.at \in {q, q + 1, q + 2}
    BY <1>1, <1>2, <2>1, <2>2, ClearApart
  <2>3. CASE o.record /\ RecordStart(o) = q
    <3>1. q < o.at + o.len
      BY <2>1, <2>3 DEF RecordStart, PCAP_RECORD_HEADER_SIZE, ETHER_HEAD_LEN
    <3>. QED
      BY <1>1, <1>2, <2>3, <3>1, ClearApart
  <2>. QED
    BY <1>3, <2>2, <2>3
<1>4. q \notin net_image.memory /\ q \notin net_image.files
  BY <1>1, <1>2, ClearApart
<1>5. carvePCAPFileHeader(q) = Nothing /\ carve_memory(q) = Nothing
  BY <1>4 DEF carvePCAPFileHeader, carve_memory
<1>6. ~validateEther(q)
  BY <1>2, <1>3 DEF validateEther, ETHER_HEAD_LEN
<1>7. sanityCheckIP46Header(n, q) = NoPacket /\ sanityCheckIP46Header(n, q + 1) = NoPacket
  <2>1. p.at # q /\ p.at # q + 1
    BY <1>1, <1>2
  <2>. QED
    BY <1>3, <2>1 DEF sanityCheckIP46Header
<1>8. sanityCheckIP46Header(n, q + 2) = p
  <2>1. \A o \in net_image.packets : o.ip /\ o.at = q + 2 => o = p
    BY <1>3
  <2>2. p.ip /\ p.at = q + 2 /\ q + 2 + p.len <= BufEnd(n)
    BY <1>1, <1>2
  <2>. QED
    BY <1>1, <2>1, <2>2 DEF sanityCheckIP46Header
<1>9. carvePCAPPackets(n, q).packet = p \/ carvePCAPPackets(n, q).bytes = 0
  <2>1. CASE ~\E o \in RecordsAt(n, q) : RecordEnd(o) = BufEnd(n) \/ likely_valid_pcap_packet_header(n, RecordEnd(o))
    BY <2>1 DEF carvePCAPPackets, Nothing
  <2>2. CASE \E o \in RecordsAt(n, q) : RecordEnd(o) = BufEnd(n) \/ likely_valid_pcap_packet_header(n, RecordEnd(o))
    <3> DEFINE raw == sanityCheckIP46Header(n, q + PCAP_RECORD_HEADER_SIZE)
               h2 == IF raw # NoPacket THEN raw ELSE sanityCheckIP46Header(n, q + PCAP_RECORD_HEADER_SIZE + ETHER_HEAD_LEN)
               thrown == Port0(q + PCAP_RECORD_HEADER_SIZE, h2)
    <3>1. q + PCAP_RECORD_HEADER_SIZE = q + 1 /\ q + PCAP_RECORD_HEADER_SIZE + ETHER_HEAD_LEN = q + 2
      BY DEF PCAP_RECORD_HEADER_SIZE, ETHER_HEAD_LEN
    <3>2. h2 = p
      BY <1>7, <1>8, <3>1
    <3>3. p # NoPacket
      BY <1>1 DEF NoPacket
    <3> HIDE DEF raw
    <3>4. (thrown => carvePCAPPackets(n, q).bytes = 0) /\ (~thrown => carvePCAPPackets(n, q).packet = h2)
      BY <2>2, <3>2, <3>3 DEF carvePCAPPackets, raw
    <3>. QED
      BY <3>2, <3>4
  <2>. QED
    BY <2>1, <2>2
<1>. QED
  BY <1>5, <1>6, <1>7, <1>9 DEF carveEther, carveIPFrame

\* At the frame of a clear packet that is found in whole it is carved.
LEMMA AtFrame ==
  ASSUME net_image \in Images, NEW p, Clear(p), NEW n \in Nat, NEW q \in Nat,
         q = FrameStart(p), p.at + p.len <= BufEnd(n)
  PROVE  /\ carvePCAPFileHeader(q) = Nothing /\ carvePCAPPackets(n, q) = Nothing
         /\ carveEther(n, q).packet = p
<1>1. p \in net_image.packets /\ p.at \in Nat /\ p.len \in Nat /\ p.len > 1 /\ p.ether /\ p.ip /\ p.cksum /\ ~p.port0
      /\ p.record \in BOOLEAN
  BY ImageAssumption DEF Clear, ETHER_HEAD_LEN
<1>2. Start(p) <= q /\ Start(p) \in Int /\ q + 1 = p.at /\ (p.record => RecordStart(p) # q)
  BY <1>1 DEF Start, RecordStart, FrameStart, PCAP_RECORD_HEADER_SIZE, ETHER_HEAD_LEN
<1>3. q \notin net_image.files
  BY <1>1, <1>2, ClearApart
<1>4. RecordsAt(n, q) = {}
  <2> SUFFICES ASSUME NEW o \in net_image.packets, o.record, RecordStart(o) = q PROVE FALSE
    BY DEF RecordsAt
  <2>1. o.at \in Nat /\ o.len \in Nat /\ o.len > 1 /\ o.ether \in BOOLEAN
    BY ImageAssumption DEF ETHER_HEAD_LEN
  <2>2. q < o.at + o.len
    BY <2>1 DEF RecordStart, PCAP_RECORD_HEADER_SIZE, ETHER_HEAD_LEN
  <2>3. o = p
    BY <1>1, <1>2, <2>2, ClearApart
  <2>. QED
    BY <1>2, <2>3
<1>5. sanityCheckIP46Header(n, q + 1) = p
  <2>1. ASSUME NEW o \in net_image.packets, o.at = q + 1 PROVE o = p
    <3>1. o.at \in Nat /\ o.len \in Nat /\ o.len > 1
      BY ImageAssumption DEF ETHER_HEAD_LEN
    <3>2. q + 1 \in Int /\ Start(p) <= q + 1 /\ q + 1 < p.at + p.len /\ q + 1 < o.at + o.len /\ o.at <= q + 1
      BY <1>1, <1>2, <2>1, <3>1
    <3>. QED
      BY <3>2, ClearApart
  <2>2. p.ip /\ p.at = q + 1 /\ q + 1 + p.len <= BufEnd(n)
    BY <1>1, <1>2
  <2>. QED
    BY <1>1, <2>1, <2>2 DEF sanityCheckIP46Header
<1>6. validateEther(q) /\ p # NoPacket
  BY <1>1, <1>2 DEF validateEther, ETHER_HEAD_LEN, NoPacket
<1>7. carveEther(n, q).packet = p
  <2>1. q + ETHER_HEAD_LEN = p.at /\ q + ETHER_HEAD_LEN = q + 1
    BY <1>1, <1>2 DEF ETHER_HEAD_LEN
  <2>2. ~Port0(q + ETHER_HEAD_LEN, p)
    BY <1>1, <2>1 DEF Port0
  <2>. QED
    BY <1>1, <1>5, <1>6, <2>1, <2>2 DEF carveEther
<1>. QED
  BY <1>3, <1>4, <1>7 DEF carvePCAPFileHeader, carvePCAPPackets

\* The first carver that takes bytes is the one that counts.
LEMMA FirstOf ==
  ASSUME NEW a, NEW b, NEW c, NEW d, NEW e, NEW tried, tried = <<a, b, c, d, e>>,
         \A k \in 1 .. 5 : tried[k].bytes \in Nat
  PROVE  /\ tried[First(tried)] \in {a, b, c, d, e}
         /\ a.bytes = 0 /\ b.bytes > 0 => tried[First(tried)] = b
         /\ a.bytes = 0 /\ b.bytes = 0 /\ c.bytes > 0 => tried[First(tried)] = c
         /\ a.bytes = 0 /\ b.bytes = 0 /\ c.bytes = 0 /\ d.bytes = 0 /\ e.bytes = 0 => tried[First(tried)].bytes = 0
<1>1. Len(tried) = 5 /\ DOMAIN tried = {1, 2, 3, 4, 5}
      /\ tried[1] = a /\ tried[2] = b /\ tried[3] = c /\ tried[4] = d /\ tried[5] = e
  OBVIOUS
<1>2. Hits(tried) = {k \in {1, 2, 3, 4, 5} : tried[k].bytes > 0}
  BY <1>1 DEF Hits
<1>3. CASE Hits(tried) = {}
  <2>1. tried[First(tried)] = e
    BY <1>1, <1>3 DEF First
  <2>2. a.bytes = 0 /\ b.bytes = 0 /\ c.bytes = 0 /\ d.bytes = 0 /\ e.bytes = 0
    BY <1>1, <1>2, <1>3
  <2>. QED
    BY <2>1, <2>2
<1>4. CASE Hits(tried) # {}
  <2>1. \E k \in Hits(tried) : \A j \in Hits(tried) : k <= j
    <3>1. ASSUME NEW k \in {1, 2, 3, 4, 5}, k \in Hits(tried), \A j \in {1, 2, 3, 4, 5} : j < k => j \notin Hits(tried)
          PROVE  \A j \in Hits(tried) : k <= j
      BY <1>2, <3>1
    <3>. QED
      BY <1>2, <1>4, <3>1
  <2>2. First(tried) \in Hits(tried) /\ \A j \in Hits(tried) : First(tried) <= j
    BY <1>4, <2>1 DEF First
  <2> DEFINE f == First(tried)
  <2>3. f \in {1, 2, 3, 4, 5} /\ tried[f].bytes > 0 /\ \A j \in {1, 2, 3, 4, 5} : tried[j].bytes > 0 => f <= j
    BY <1>2, <2>2
  <2> HIDE DEF f
  <2>4. tried[f] \in {a, b, c, d, e}
    BY <1>1, <2>3
  <2>5. a.bytes = 0 /\ b.bytes > 0 => f = 2
    BY <1>1, <2>3
  <2>6. a.bytes = 0 /\ b.bytes = 0 /\ c.bytes > 0 => f = 3
    BY <1>1, <2>3
  <2>7. ~(a.bytes = 0 /\ b.bytes = 0 /\ c.bytes = 0 /\ d.bytes = 0 /\ e.bytes = 0)
    BY <1>1, <2>3
  <2>. QED
    BY <1>1, <2>4, <2>5, <2>6, <2>7 DEF f
<1>. QED
  BY <1>3, <1>4

\* The loop does not pass over a clear packet that is found in whole: it carves it, or goes
\* on to its frame at most.
LEMMA StepTowards ==
  ASSUME net_image \in Images, NEW p, Clear(p), NEW n \in Nat, NEW q \in Nat,
         q <= FrameStart(p), p.at + p.len <= BufEnd(n), NEW c, c = Tried(n, q)[First(Tried(n, q))]
  PROVE  c.packet = p \/ q + Advance(c) <= FrameStart(p)
<1> DEFINE tried == Tried(n, q)
           a == carvePCAPFileHeader(q)
           b == carvePCAPPackets(n, q)
           d == carveEther(n, q)
           e == carveIPFrame(n, q)
           f == carve_memory(q)
<1>1. \A k \in 1 .. 5 : Carved(tried[k], q)
  BY TriedCarved
<1>2. tried = <<a, b, d, e, f>>
  BY DEF Tried
<1>3. tried[1] = a /\ tried[2] = b /\ tried[3] = d /\ tried[4] = e /\ tried[5] = f
  BY <1>2
<1>4. \A k \in 1 .. 5 : tried[k].bytes \in Nat
  BY <1>1 DEF Carved
<1>5. p.at \in Nat /\ p # NoPacket /\ p.ether /\ p.record \in BOOLEAN
  BY ImageAssumption DEF Clear, NoPacket
<1>6. FrameStart(p) \in Int /\ Start(p) \in Int /\ Start(p) <= FrameStart(p)
      /\ (q < FrameStart(p) /\ ~(q < Start(p)) => p.record /\ q = RecordStart(p) /\ q + 1 = FrameStart(p))
  BY <1>5 DEF Start, RecordStart, FrameStart, PCAP_RECORD_HEADER_SIZE, ETHER_HEAD_LEN
<1>7. \A k \in 1 .. 5 : tried[k].packet = p => tried[k].bytes > 0
  <2> SUFFICES ASSUME NEW k \in 1 .. 5, tried[k].packet = p PROVE tried[k].bytes > 0
    OBVIOUS
  <2>1. q <= p.at /\ p.at < q + tried[k].bytes
    BY <1>1, <1>5 DEF Carved
  <2>. QED
    BY <1>4, <1>5, <2>1
<1>8. Nothing.bytes = 0
  BY DEF Nothing
<1> HIDE DEF tried, a, b, d, e, f
<1>9. /\ c \in {a, b, d, e, f}
      /\ a.bytes = 0 /\ b.bytes > 0 => c = b
      /\ a.bytes = 0 /\ b.bytes = 0 /\ d.bytes > 0 => c = d
      /\ a.bytes = 0 /\ b.bytes = 0 /\ d.bytes = 0 /\ e.bytes = 0 /\ f.bytes = 0 => c.bytes = 0
  <2>1. c = tried[First(tried)]
    BY DEF tried
  <2>. QED
    BY <1>2, <1>4, <2>1, FirstOf
<1>10. CASE q < Start(p)
  <2>1. c.bytes \in Nat /\ q + c.bytes <= Start(p)
    BY <1>9, <1>10, EndsBefore DEF a, b, d, e, f
  <2>. QED
    BY <1>6, <1>10, <2>1 DEF Advance
<1>11. CASE q < FrameStart(p) /\ ~(q < Start(p))
  <2>1. a = Nothing /\ d = Nothing /\ e = Nothing /\ f = Nothing /\ (b.packet = p \/ b.bytes = 0)
    BY <1>6, <1>11, AtRecord DEF a, b, d, e, f
  <2>2. CASE b.packet = p
    <3>1. b.bytes > 0
      BY <1>3, <1>7, <2>2
    <3>. QED
      BY <1>8, <1>9, <2>1, <2>2, <3>1
  <2>3. CASE b.bytes = 0
    <3>1. c.bytes = 0
      BY <1>8, <1>9, <2>1, <2>3
    <3>. QED
      BY <1>6, <1>11, <3>1 DEF Advance
  <2>. QED
    BY <2>1, <2>2, <2>3
<1>12. CASE q = FrameStart(p)
  <2>1. a = Nothing /\ b = Nothing /\ d.packet = p
    BY <1>12, AtFrame DEF a, b, d
  <2>2. d.bytes > 0
    BY <1>3, <1>7, <2>1
  <2>. QED
    BY <1>8, <1>9, <2>1, <2>2
<1>. QED
  BY <1>6, <1>10, <1>11, <1>12

Written(p) == \E k \in Pieces : packets_pcap[k].what = "data" /\ packets_pcap[k].packet = p
\* The worker is on its way to a packet, or has it in hand.
OnTheWay(w, n, p) ==
  /\ net_page[w] = n /\ net_pc[w] \notin {"idle", "flush"}
  /\ net_pos[w] <= FrameStart(p) \/ (net_pc[w] \in HasPacket /\ net_job[w].packet = p)
\* While no write failed, a page that is to find a clear packet, and was not given up, is
\* not begun, or its worker is on the way to the packet, or it is written.
NotPassed ==
  net_errors = 0 =>
    \A p \in net_image.packets, n \in NetPages \ net_abandoned : Clear(p) /\ Finds(n, p) =>
      n \in net_pages \/ (\E w \in Carvers : OnTheWay(w, n, p)) \/ Written(p)

\* The same of one packet and page, from step to step.
LEMMA NotPassedBy ==
  ASSUME TwiceInv, NEW w \in Carvers, NetWorker(w), net_errors' = 0,
         NEW p \in net_image.packets, Clear(p), NEW n \in NetPages, n \notin net_abandoned', Finds(n, p),
         n \in net_pages \/ (\E x \in Carvers : OnTheWay(x, n, p)) \/ Written(p)
  PROVE  n \in net_pages' \/ (\E x \in Carvers : OnTheWay(x, n, p)') \/ Written(p)'
<1>1. /\ net_image \in Images /\ net_pc \in [Carvers -> Places]
      /\ net_page \in [Carvers -> Nat] /\ net_pos \in [Carvers -> Nat] /\ DOMAIN net_job = Carvers
      /\ net_errors \in Nat /\ net_pages \subseteq NetPages
  BY NetAssumption DEF TwiceInv, NetTyped
<1>2. p.at \in Nat /\ FrameStart(p) \in Int
  BY <1>1, ImageAssumption DEF FrameStart, ETHER_HEAD_LEN
<1>3. n \in Nat /\ PageStart(n) \in Nat
  BY PageIsNat DEF TwiceInv
<1>4. Written(p) => Written(p)'
  <2> SUFFICES ASSUME Written(p) PROVE Written(p)'
    OBVIOUS
  <2>1. packets_pcap' = packets_pcap \/ \E piece : packets_pcap' = Append(packets_pcap, piece)
    BY DEF NetWorker, BeginPage, CarveAt, ThrowTruncated, EndCarve, Flush, Lock, OpenFile, WritePiece, WriteFails, WriteToBadStream
  <2>2. PICK k \in Pieces : packets_pcap[k].what = "data" /\ packets_pcap[k].packet = p
    BY DEF Written
  <2>3. \E S : packets_pcap \in Seq(S)
    BY DEF TwiceInv, NetTyped
  <2>4. k \in Pieces' /\ packets_pcap'[k] = packets_pcap[k]
    BY <2>1, <2>2, <2>3 DEF Pieces
  <2>. QED
    BY <2>2, <2>4 DEF Written
<1>5. ASSUME NEW x \in Carvers, OnTheWay(x, n, p), x # w PROVE OnTheWay(x, n, p)'
  <2>1. /\ net_pc'[x] = net_pc[x] /\ net_page'[x] = net_page[x] /\ net_pos'[x] = net_pos[x]
        /\ net_job'[x] = net_job[x]
    BY <1>1, <1>5 DEF NetWorker, BeginPage, CarveAt, ThrowTruncated, EndCarve, Flush, Lock, OpenFile, WritePiece, WriteFails,
                      WriteToBadStream, Goto, Throw
  <2>. QED
    BY <1>5, <2>1 DEF OnTheWay, FrameStart
<1>6. CASE BeginPage(w)
  <2>1. PICK m \in net_pages : /\ net_pages' = net_pages \ {m} /\ net_page' = [net_page EXCEPT ![w] = m]
                               /\ net_pos' = [net_pos EXCEPT ![w] = PageStart(m)]
    BY <1>6 DEF BeginPage
  <2>2. net_pc[w] = "idle" /\ net_pc' = [net_pc EXCEPT ![w] = "carve"]
    BY <1>6 DEF BeginPage, Goto
  <2>3. m = n => OnTheWay(w, n, p)'
    BY <1>1, <2>1, <2>2 DEF OnTheWay, Finds, FrameStart
  <2>4. ~OnTheWay(w, n, p)
    BY <2>2 DEF OnTheWay
  <2>. QED
    BY <1>4, <1>5, <2>1, <2>3, <2>4
<1>7. ASSUME ~BeginPage(w), OnTheWay(w, n, p) PROVE OnTheWay(w, n, p)' \/ Written(p)'
  <2>1. net_page[w] = n /\ net_pc[w] \notin {"idle", "flush"}
        /\ (net_pos[w] <= FrameStart(p) \/ (net_pc[w] \in HasPacket /\ net_job[w].packet = p))
    BY <1>7 DEF OnTheWay
  <2>2. CASE CarveAt(w)
    <3> DEFINE q == net_pos[w]
               c == Tried(n, q)[First(Tried(n, q))]
    <3>1. /\ net_pc[w] = "carve" /\ net_page' = net_page
          /\ net_pos' = [net_pos EXCEPT ![w] = q + Advance(c)] /\ net_job' = [net_job EXCEPT ![w] = c]
          /\ IF c.packet # NoPacket THEN Goto(w, "lock") ELSE UNCHANGED net_pc
      BY <2>1, <2>2 DEF CarveAt
    <3>2. q \in Nat /\ q <= FrameStart(p)
      BY <1>1, <2>1, <3>1 DEF HasPacket
    <3>3. c.packet = p \/ q + Advance(c) <= FrameStart(p)
      BY <1>1, <1>3, <3>2, StepTowards DEF Finds
    <3> HIDE DEF c, q
    <3>4. net_pos'[w] = q + Advance(c) /\ net_job'[w] = c /\ net_page'[w] = n
          /\ net_pc'[w] = IF c.packet # NoPacket THEN "lock" ELSE "carve"
      BY <1>1, <2>1, <3>1 DEF Goto
    <3>5. p # NoPacket
      BY <1>2 DEF NoPacket
    <3>. QED
      BY <3>3, <3>4, <3>5 DEF OnTheWay, HasPacket, FrameStart
  <2>3. CASE ThrowTruncated(w) \/ WriteToBadStream(w)
    BY <2>1, <2>3 DEF ThrowTruncated, WriteToBadStream, Throw
  <2>4. CASE EndCarve(w)
    <3>1. net_pc[w] = "carve" /\ ~InLoop(n, net_pos[w])
      BY <2>1, <2>4 DEF EndCarve
    <3>2. net_pos[w] <= FrameStart(p) /\ net_pos[w] \in Nat
      BY <1>1, <2>1, <3>1 DEF HasPacket
    <3>3. PageEnd(n) \in Int
      BY <1>1, <1>3, NetAssumption, ImageAssumption DEF PageEnd, Smaller
    <3>. QED
      BY <1>2, <3>1, <3>2, <3>3, NetAssumption DEF Finds, InLoop
  <2>5. CASE Flush(w)
    BY <2>1, <2>5 DEF Flush
  <2>6. CASE WriteFails(w)
    BY <1>1, <2>6 DEF WriteFails
  <2>7. CASE Lock(w) \/ OpenFile(w)
    <3>1. /\ net_pc[w] \in {"lock", "open"} /\ UNCHANGED <<net_page, net_pos, net_job, net_image>>
          /\ \E place \in {"open", "header", "record"} : Goto(w, place)
      BY <1>1, <2>7 DEF Lock, OpenFile
    <3>2. net_pc'[w] \in {"open", "header", "record"}
      BY <1>1, <3>1 DEF Goto
    <3>. QED
      BY <2>1, <3>1, <3>2 DEF OnTheWay, HasPacket, FrameStart
  <2>8. CASE WritePiece(w)
    <3>1. /\ net_pc[w] \in DOMAIN Behind /\ packets_pcap' = Append(packets_pcap, Piece(w))
          /\ net_pc' = [net_pc EXCEPT ![w] = Behind[net_pc[w]]] /\ UNCHANGED <<net_page, net_pos, net_job, net_image>>
      BY <2>8 DEF WritePiece, Goto
    <3>2. CASE net_pc[w] = "data"
      <4>1. net_pc'[w] = "carve"
        BY <1>1, <3>1, <3>2 DEF Behind
      <4>2. CASE net_pos[w] <= FrameStart(p)
        BY <2>1, <3>1, <4>1, <4>2 DEF OnTheWay, FrameStart
      <4>3. CASE net_job[w].packet = p
        <5>1. Piece(w).what = "data" /\ Piece(w).packet = p
          BY <3>2, <4>3 DEF Piece
        <5>2. \E S : packets_pcap \in Seq(S)
          BY DEF TwiceInv, NetTyped
        <5>3. Len(packets_pcap) + 1 \in Pieces' /\ packets_pcap'[Len(packets_pcap) + 1] = Piece(w)
          BY <3>1, <5>2 DEF Pieces
        <5>. QED
          BY <5>1, <5>3 DEF Written
      <4>. QED
        BY <2>1, <4>2, <4>3
    <3>3. CASE net_pc[w] # "data"
      <4>1. net_pc'[w] \in {"record", "data"}
        BY <1>1, <3>1, <3>3 DEF Behind
      <4>2. net_pc[w] \in HasPacket /\ net_pc'[w] \in HasPacket
        BY <3>1, <4>1 DEF Behind, HasPacket
      <4>. QED
        BY <2>1, <3>1, <4>1, <4>2 DEF OnTheWay, FrameStart
    <3>. QED
      BY <3>2, <3>3
  <2>. QED
    BY <1>7, <2>2, <2>3, <2>4, <2>5, <2>6, <2>7, <2>8 DEF NetWorker
<1>8. ASSUME ~BeginPage(w) PROVE net_pages' = net_pages
  BY <1>8 DEF NetWorker, CarveAt, ThrowTruncated, EndCarve, Flush, Lock, OpenFile, WritePiece, WriteFails, WriteToBadStream
<1>. QED
  BY <1>4, <1>5, <1>6, <1>7, <1>8

LEMMA NextPassed == ASSUME TwiceInv, NotPassed, [NetNext]_net_vars PROVE NotPassed'
<1>1. ASSUME NEW w \in Carvers, NetWorker(w) PROVE NotPassed'
  <2>1. net_image' = net_image /\ net_abandoned \subseteq net_abandoned' /\ net_errors \in Nat /\ net_errors <= net_errors'
    <3>1. net_errors \in Nat
      BY NetAssumption DEF TwiceInv, NetTyped
    <3>. QED
      BY <1>1, <3>1 DEF NetWorker, BeginPage, CarveAt, ThrowTruncated, EndCarve, Flush, Lock, OpenFile, WritePiece, WriteFails,
                        WriteToBadStream, Throw
  <2>2. /\ NetPages' = NetPages
        /\ \A p : (Clear(p) <=> Clear(p)') /\ \A n : Finds(n, p) <=> Finds(n, p)'
    BY <2>1 DEF NetPages, Clear, Elsewhere, Extent, RecordStart, FrameStart, Finds, PageStart, PageEnd, BufEnd, InLoop
  <2> SUFFICES ASSUME net_errors' = 0, NEW p \in net_image.packets, NEW n \in NetPages, n \notin net_abandoned',
                      Clear(p), Finds(n, p)
               PROVE  n \in net_pages' \/ (\E x \in Carvers : OnTheWay(x, n, p)') \/ Written(p)'
    BY <2>1, <2>2 DEF NotPassed
  <2>3. n \in net_pages \/ (\E x \in Carvers : OnTheWay(x, n, p)) \/ Written(p)
    BY <2>1 DEF NotPassed
  <2>. QED
    BY <1>1, <2>3, NotPassedBy
<1>2. CASE UNCHANGED net_vars
  BY <1>2 DEF net_vars, NotPassed, NetPages, Clear, Elsewhere, Extent, RecordStart, FrameStart, Finds, PageStart, PageEnd, BufEnd,
              InLoop, OnTheWay, Written, Pieces
<1>. QED
  BY <1>1, <1>2 DEF NetNext

LEMMA InitPassed == ASSUME NetInit PROVE NotPassed
BY DEF NetInit, NetFresh, NotPassed

\* FramesKept: for every image, any number of workers and any margin, a good frame that
\* begins early enough in a page and ends within its margin is written to packets.pcap by
\* the end, if nothing overlaps it, no write failed and no truncated record ended the page.
THEOREM FramesReachPcap == NetSpec => []FramesKept
<1>1. TwiceInv /\ NotPassed => FramesKept
  <2> SUFFICES ASSUME TwiceInv, NotPassed, NetDone, net_errors = 0, NEW p \in net_image.packets,
                      p.ip /\ p.ether /\ p.cksum, ~p.port0, Extent(p) \cap Elsewhere(p) = {},
                      NEW n \in NetPages \ net_abandoned, Finds(n, p)
               PROVE  Written(p)
    BY DEF FramesKept, Finds, Written
  <2>1. Clear(p)
    BY DEF Clear
  <2>2. n \notin net_pages /\ \A w \in Carvers : ~OnTheWay(w, n, p)
    BY DEF NetDone, OnTheWay
  <2>. QED
    BY <2>1, <2>2 DEF NotPassed
<1>. QED
  BY <1>1, InitTwice, NextTwice, InitPassed, NextPassed, PTL DEF NetSpec
=============================================================================
