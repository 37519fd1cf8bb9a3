---------------------------- MODULE Phase1Proofs ----------------------------
(***************************************************************************)
(* Proofs about Phase1, for every image, page size, number of threads and  *)
(* set of options.                                                         *)
(***************************************************************************)
EXTENDS Restart, FiniteSetTheorems, SequenceTheorems, WellFoundedInduction, TLAPS

-----------------------------------------------------------------------------
(* The arithmetic of the iterator *)

\* Whole pages: the last page boundary of an image of n bytes is in the image
\* and less than a page away from its end.
LEMMA DivLemma ==
  ASSUME NEW n \in Nat, NEW d \in Nat \ {0}
  PROVE  /\ n \div d \in Nat
         /\ (n \div d) * d \in Nat
         /\ (n \div d) * d <= n
         /\ n < (n \div d) * d + d
  OBVIOUS

LEMMA ProductLemma ==
  ASSUME NEW a \in Nat, NEW b \in Nat, NEW d \in Nat \ {0}
  PROVE  /\ a * d \in Nat
         /\ a < b => a * d + d <= b * d
  OBVIOUS

\* What the operators of RawImage return.
LEMMA ReaderLemma ==
  /\ \A off \in Nat : increment(off) \in Nat /\ read_count(off) \in Int /\ this_pagesize(off) \in Int
  /\ \A off \in Nat : off < raw_filesize =>
        /\ this_pagesize(off) \in Nat
        /\ increment(off) > off /\ increment(off) <= raw_filesize
        /\ increment(off) = off + this_pagesize(off)
  /\ \A b \in Nat : seek_block(b) \in Nat /\ seek_block(b) <= raw_filesize
  /\ max_blocks \in Nat
<1>1. /\ \A off \in Nat : increment(off) \in Nat /\ read_count(off) \in Int /\ this_pagesize(off) \in Int
      /\ \A off \in Nat : off < raw_filesize =>
            /\ this_pagesize(off) \in Nat
            /\ increment(off) > off /\ increment(off) <= raw_filesize
            /\ increment(off) = off + this_pagesize(off)
  BY FileListAssumption, PagesizeAssumption, SMTT(30) DEF increment, read_count, this_pagesize
<1>2. \A b \in Nat : seek_block(b) \in Nat /\ seek_block(b) <= raw_filesize
  <2> TAKE b \in Nat
  <2>1. raw_filesize \in Nat /\ pagesize \in Nat \ {0}
    BY FileListAssumption, PagesizeAssumption
  <2>2. (raw_filesize \div pagesize) * pagesize \in 0 .. raw_filesize
    BY <2>1, DivLemma
  <2>3. b * pagesize \in Nat
    BY <2>1, ProductLemma
  <2>4. QED BY <2>1, <2>2, <2>3 DEF seek_block
<1>3. max_blocks \in Nat
  <2>1. raw_filesize + pagesize - 1 \in Nat /\ pagesize \in Nat \ {0}
    BY FileListAssumption, PagesizeAssumption
  <2>2. QED BY <2>1, DivLemma DEF max_blocks
<1>4. QED BY <1>1, <1>2, <1>3

\* A page that some part holds begins before the end of the image.
LEMMA FoundLemma ==
  ASSUME NEW off \in Nat, find_offset(off) # {} PROVE off < raw_filesize
<1>1. PICK i \in Part : off < file_list[i].offset + file_list[i].length
  BY DEF find_offset
<1>2. file_list[i] \in [offset : Nat, length : Nat]
  <2>1. file_list \in Seq([offset : Nat, length : Nat])
    BY FileListAssumption
  <2>2. i \in 1 .. Len(file_list)
    BY <2>1, LenProperties DEF Part
  <2>3. QED BY <2>1, <2>2, ElementOfSeq
<1>3. file_list[i].offset + file_list[i].length <= raw_filesize /\ raw_filesize \in Nat
  BY FileListAssumption
<1>4. QED BY <1>1, <1>2, <1>3

\* The options of the command line.
LEMMA OptionsLemma ==
  /\ Offsets \subseteq Nat
  /\ options \in OptionChoices => opt_scan_start \in Nat /\ threads \in SUBSET Workers
<1>1. \A o \in OptionChoices : o.opt_scan_start \in Nat /\ o.threads \in SUBSET Workers
  BY ConfigAssumption
<1>2. \A o \in OptionChoices : 0 .. (raw_filesize + o.opt_scan_start) \subseteq Nat
  BY <1>1, FileListAssumption
<1>3. QED BY <1>1, <1>2 DEF Offsets, opt_scan_start, threads

-----------------------------------------------------------------------------
(* Types *)

\* The program has just been started, for the first time or again.
Fresh ==
  /\ pc = "record" /\ raw_offset = 0 /\ eof = FALSE /\ si = {} /\ retry_count = 0
  /\ options \in OptionChoices /\ seen_page_ids \in SUBSET Nat
  /\ sha1g = "null" /\ hash_next = 0 /\ total_bytes = 0 /\ scheduled = {}
  /\ stream = [i \in Part |-> "good"] /\ sbuf_count = 0
  /\ queue = << >> /\ working = [w \in Workers |-> Idle] /\ disk_write_errors = 0
  /\ work_start = {} /\ work_stop = {} /\ exceptions = {} /\ hashdigest = {}

LEMMA FreshStart == Init => Fresh
BY ConfigAssumption DEF Init, Fresh

\* TypeOK alone is not inductive: a retry is counted only while some are left,
\* and the page in hand is inside the image, so that its size is natural.
InHand ==
  /\ pc = "get_sbuf" => retry_count < max_bad_alloc_errors
  /\ pc = "schedule" => raw_offset < raw_filesize
TypeInv == TypeOK /\ InHand

LEMMA TypeInit == Fresh => TypeInv
<1> SUFFICES ASSUME Fresh PROVE TypeInv
  OBVIOUS
<1> USE DEF Fresh
<1>1. pc \in {"record"} /\ InHand
  BY DEF InHand
<1>2. options \in OptionChoices /\ seen_page_ids \in SUBSET Nat /\ retry_count \in 0 .. max_bad_alloc_errors
  BY ConfigAssumption
<1>3. stream \in [Part -> {"good", "failed"}] /\ working \in [Workers -> Nat \cup {Idle}]
  BY DEF Idle
<1>4. queue \in Seq(Nat)
  OBVIOUS
<1>5. eof \in BOOLEAN
  BY Zenon
<1>6. QED BY <1>1, <1>2, <1>3, <1>4, <1>5 DEF TypeInv, TypeOK

LEMMA TypeNext == TypeInv /\ [Next]_vars => TypeInv'
<1> SUFFICES ASSUME TypeInv, [Next]_vars PROVE TypeInv'
  OBVIOUS
<1> USE DEF TypeInv, TypeOK, InHand, NoSideEffects, given, hashing, pool, tags
<1>1. ASSUME NEW p \in seen_page_ids, RecordSeen(p) PROVE TypeInv'
  BY <1>1 DEF RecordSeen, producer
<1>2. CASE StartReading
  BY <1>2, OptionsLemma DEF StartReading
<1>3. CASE RefuseSample \/ EndLoop \/ ExitOnDiskError \/ Join
  BY <1>3 DEF RefuseSample, EndLoop, ExitOnDiskError, Join
<1>4. ASSUME NEW off \in Offsets,
             StopAtScanEnd(off) \/ WaitForWorkers(off) \/ PassOver(off) \/ BeginRead(off)
      PROVE  TypeInv'
  <2>1. off \in Nat /\ max_bad_alloc_errors \in Nat \ {0}
    BY OptionsLemma, ConfigAssumption
  <2>2. /\ raw_offset' = off /\ UNCHANGED <<eof, si, given, stream, sbuf_count,
               exceptions, hashdigest, hashing, pool, tags>>
        /\ pc' \in {"join", "loop", "next", "get_sbuf"}
        /\ retry_count' \in {retry_count, 0} /\ (pc' = "get_sbuf" => retry_count' = 0)
    <3>1. CASE StopAtScanEnd(off) BY <3>1 DEF StopAtScanEnd, InBody
    <3>2. CASE WaitForWorkers(off) BY <3>2 DEF WaitForWorkers, InBody
    <3>3. CASE PassOver(off) BY <3>3 DEF PassOver, InBody
    <3>4. CASE BeginRead(off) BY <3>4 DEF BeginRead, InBody
    <3>5. QED BY <1>4, <3>1, <3>2, <3>3, <3>4
  <2>3. QED BY <2>1, <2>2
<1>5. CASE BadAlloc
  <2>1. retry_count' \in 0 .. max_bad_alloc_errors
    BY <1>5, ConfigAssumption DEF BadAlloc
  <2>2. CASE retry_count + 1 < max_bad_alloc_errors
    BY <1>5, <2>1, <2>2 DEF BadAlloc
  <2>3. CASE ~(retry_count + 1 < max_bad_alloc_errors)
    BY <1>5, <2>1, <2>3 DEF BadAlloc, SkipPage
  <2>4. QED BY <2>2, <2>3
<1>6. CASE ReadNothing
  BY <1>6 DEF ReadNothing, CanAllocate, SkipPage
<1>7. ASSUME NEW i \in Part, ReadFails(i) PROVE TypeInv'
  BY <1>7 DEF ReadFails, CanAllocate, SkipPage
<1>8. CASE ReadPage
  BY <1>8, FoundLemma DEF ReadPage, CanAllocate
<1>9. ASSUME CountAndHash PROVE
        /\ sha1g' \in {"null", "hashing"} /\ hash_next' \in Nat /\ total_bytes' \in Nat
        /\ scheduled' \in SUBSET Nat
  <2>1. this_pagesize(raw_offset) \in Nat
    BY <1>9, ReaderLemma DEF CountAndHash
  <2>2. QED BY <1>9, <2>1 DEF CountAndHash, HashPage
<1>10. CASE ScheduleSbuf
  BY <1>10, <1>9, SMTT(30) DEF ScheduleSbuf, CountAndHash
<1>11. CASE ScanInline
  BY <1>11, <1>9 DEF ScanInline, CountAndHash
<1>12. CASE ScanInlineFails
  BY <1>12, <1>9 DEF ScanInlineFails, CountAndHash
<1>13. CASE NextPage
  BY <1>13, ReaderLemma DEF NextPage
<1>14. CASE WriteSource
  BY <1>14 DEF WriteSource
<1>15. ASSUME NEW w \in Workers, TakeWork(w) PROVE TypeInv'
  <2>1. Head(queue) \in Nat /\ Tail(queue) \in Seq(Nat)
    BY <1>15 DEF TakeWork
  <2>2. QED BY <1>15, <2>1 DEF TakeWork, producer
<1>16. ASSUME NEW w \in Workers, FinishWork(w) \/ WorkerDiskError(w) PROVE TypeInv'
  <2>1. CASE FinishWork(w)
    <3>1. working[w] \in Nat
      BY <2>1 DEF FinishWork
    <3>2. sbuf_count' \in Int /\ working' \in [Workers -> Nat \cup {Idle}]
      BY <2>1 DEF FinishWork, Idle
    <3>3. work_stop' \in SUBSET Nat
      BY <2>1, <3>1 DEF FinishWork
    <3>4. QED BY <2>1, <3>2, <3>3 DEF FinishWork, producer
  <2>2. CASE WorkerDiskError(w)
    <3>1. sbuf_count' \in Int /\ working' \in [Workers -> Nat \cup {Idle}]
      BY <2>2 DEF WorkerDiskError, Idle
    <3>2. QED BY <2>2, <3>1 DEF WorkerDiskError, producer
  <2>3. QED BY <1>16, <2>1, <2>2
<1>17. CASE Terminated \/ UNCHANGED vars
  BY <1>17 DEF Terminated, vars, producer
<1>18. QED
  BY <1>1, <1>2, <1>3, <1>4, <1>5, <1>6, <1>7, <1>8, <1>10, <1>11, <1>12, <1>13, <1>14,
     <1>15, <1>16, <1>17
  DEF Next, MainThread, LoopHead, Worker

\* In every execution every variable keeps its type.
THEOREM Typing == Spec => []TypeOK
<1>1. TypeInv => TypeOK
  BY DEF TypeInv
<1>2. QED BY FreshStart, TypeInit, TypeNext, <1>1, PTL DEF Spec

-----------------------------------------------------------------------------
(* The reader only moves forward *)

\* A later block is further on, as long as the page of the earlier one is not
\* the last of the image (the blocks past the end all become its last page).
LEMMA SeekLemma ==
  ASSUME NEW b \in Nat, NEW c \in Nat, b < c, seek_block(b) + pagesize < raw_filesize
  PROVE  seek_block(b) < seek_block(c)
<1> DEFINE last == (raw_filesize \div pagesize) * pagesize
<1>1. raw_filesize \in Nat /\ pagesize \in Nat \ {0}
  BY FileListAssumption, PagesizeAssumption
<1>2. last \in Nat /\ raw_filesize < last + pagesize
  BY <1>1, DivLemma
<1>3. b * pagesize \in Nat /\ c * pagesize \in Nat /\ b * pagesize + pagesize <= c * pagesize
  BY <1>1, ProductLemma
<1>4. /\ seek_block(b) = IF b * pagesize > raw_filesize THEN last ELSE b * pagesize
      /\ seek_block(c) = IF c * pagesize > raw_filesize THEN last ELSE c * pagesize
  BY DEF seek_block
<1> HIDE DEF last
<1>5. QED BY <1>1, <1>2, <1>3, <1>4

\* The block being visited, when sampling, is the lowest one left.
AtSample == \E b \in si : (\A c \in si : b <= c) /\ raw_offset = seek_block(b)

\* Every page handed over is inside the image, and every page handed over or given up
\* is behind the reader.
Passed == scheduled \cup exceptions
Frontier ==
  /\ \A p \in scheduled : p < raw_filesize
  /\ pc = "record" => Passed = {}
  /\ pc \in {"get_sbuf", "schedule"} => \A p \in Passed : p < raw_offset
  /\ pc = "next" => \A p \in Passed : p <= raw_offset
  /\ pc = "loop" /\ raw_offset # raw_filesize =>
       /\ ~sampling => \A p \in Passed : p < raw_offset
       /\ sampling => \A b \in si : \A p \in Passed : p < seek_block(b)
  /\ sampling /\ pc \in {"get_sbuf", "schedule", "next"} => AtSample

LEMMA FrontierInit == Fresh => Frontier
  BY DEF Fresh, Frontier, Passed

LEMMA FrontierNext == TypeInv /\ Frontier /\ [Next]_vars => Frontier'
<1> SUFFICES ASSUME TypeInv, Frontier, [Next]_vars PROVE Frontier'
  OBVIOUS
<1>0. /\ raw_filesize \in Nat /\ raw_offset \in Nat /\ scheduled \in SUBSET Nat /\ Passed \in SUBSET Nat
      /\ si \subseteq Nat
  <2>1. raw_filesize \in Nat /\ max_blocks \in Nat
    BY FileListAssumption, ReaderLemma
  <2>2. QED BY <2>1 DEF TypeInv, TypeOK, Passed
<1> USE DEF Frontier, Passed, NoSideEffects, given, sampling, hashing, AtSample
<1>1. ASSUME NEW p \in seen_page_ids, RecordSeen(p) PROVE Frontier'
  BY <1>1 DEF RecordSeen, producer
<1>2. CASE StartReading
  BY <1>2 DEF StartReading
<1>3. CASE RefuseSample \/ EndLoop \/ ExitOnDiskError \/ Join
  BY <1>3 DEF RefuseSample, EndLoop, ExitOnDiskError, Join
<1>4. ASSUME NEW off \in Offsets,
             StopAtScanEnd(off) \/ WaitForWorkers(off) \/ PassOver(off) \/ BeginRead(off)
      PROVE  Frontier'
  <2>1. /\ pc = "loop" /\ raw_offset # raw_filesize
        /\ raw_offset' = off /\ UNCHANGED <<si, scheduled, exceptions, options>>
        /\ pc' \in {"join", "loop", "next", "get_sbuf"}
        /\ Sought(off)
    BY <1>4 DEF StopAtScanEnd, WaitForWorkers, PassOver, BeginRead, InBody, AtEnd
  <2>2. CASE sampling
    <3>1. PICK b \in si : (\A c \in si : b <= c) /\ off = seek_block(b)
      BY <2>1, <2>2 DEF Sought
    <3>2. \A p \in Passed : p < off
      BY <2>1, <2>2, <3>1
    <3>3. AtSample'
      BY <2>1, <3>1
    <3>4. off \in Nat /\ \A p \in Passed : p \in Nat
      BY <1>0, <2>1, OptionsLemma
    <3>5. \A c \in si : \A p \in Passed : p < seek_block(c)
      BY <2>1, <2>2
    <3>6. QED BY <2>1, <2>2, <3>2, <3>3, <3>4, <3>5
  <2>3. CASE ~sampling
    BY <1>0, <2>1, <2>3 DEF Sought
  <2>4. QED BY <2>2, <2>3
<1>5. CASE BadAlloc \/ ReadNothing \/ ReadPage \/ \E i \in Part : ReadFails(i)
  <2>1. /\ pc = "get_sbuf" /\ pc' \in {"get_sbuf", "schedule", "next"}
        /\ UNCHANGED <<raw_offset, si, scheduled, options>>
        /\ exceptions' = exceptions \/ (pc' = "next" /\ exceptions' = exceptions \cup {raw_offset})
    BY <1>5 DEF BadAlloc, ReadNothing, ReadPage, ReadFails, CanAllocate, SkipPage
  <2>2. QED BY <1>0, <2>1
<1>6. CASE ScheduleSbuf \/ ScanInline \/ ScanInlineFails
  <2>1. /\ pc = "schedule" /\ pc' = "next" /\ raw_offset < raw_filesize
        /\ UNCHANGED <<raw_offset, si, options>> /\ scheduled' = scheduled \cup {raw_offset}
        /\ exceptions' \in {exceptions, exceptions \cup {raw_offset}}
    BY <1>6 DEF ScheduleSbuf, ScanInline, ScanInlineFails, CountAndHash, TypeInv, InHand
  <2>2. QED BY <1>0, <2>1
<1>7. CASE NextPage
  <2>1. /\ pc = "next" /\ pc' = "loop" /\ raw_offset' = increment(raw_offset)
        /\ UNCHANGED <<scheduled, exceptions, options>>
    BY <1>7 DEF NextPage
  <2>2. raw_offset' # raw_filesize => raw_offset' = raw_offset + pagesize /\ raw_offset' < raw_filesize
    BY <1>0, <2>1, PagesizeAssumption DEF increment
  <2>3. CASE sampling
    <3>1. PICK b \in si : (\A c \in si : b <= c) /\ si' = si \ {b}
      BY <1>7, <2>3 DEF NextPage
    <3>2. raw_offset = seek_block(b)
      BY <1>0, <2>1, <2>3, <3>1
    <3>3. ASSUME raw_offset' # raw_filesize, NEW c \in si', NEW p \in Passed
          PROVE  p < seek_block(c)
      <4>1. b \in Nat /\ c \in Nat /\ b < c
        BY <1>0, <3>1, <3>3
      <4>2. seek_block(b) < seek_block(c) /\ seek_block(b) \in Nat /\ seek_block(c) \in Nat
        BY <2>2, <3>2, <3>3, <4>1, SeekLemma, ReaderLemma
      <4>3. p <= raw_offset /\ p \in Nat
        BY <1>0, <2>1
      <4>4. QED BY <3>2, <4>2, <4>3
    <3>4. QED BY <2>1, <2>3, <3>3
  <2>4. CASE ~sampling
    BY <1>0, <2>1, <2>2, <2>4, PagesizeAssumption
  <2>5. QED BY <2>3, <2>4
<1>8. CASE WriteSource
  BY <1>8 DEF WriteSource
<1>9. ASSUME NEW w \in Workers, TakeWork(w) \/ FinishWork(w) \/ WorkerDiskError(w) PROVE Frontier'
  BY <1>9 DEF TakeWork, FinishWork, WorkerDiskError, producer
<1>10. CASE Terminated \/ UNCHANGED vars
  BY <1>10 DEF Terminated, vars, producer
<1>11. QED
  BY <1>1, <1>2, <1>3, <1>4, <1>5, <1>6, <1>7, <1>8, <1>9, <1>10
  DEF Next, MainThread, LoopHead, Worker

\* The page in hand is ahead of all those handed over or given up.
LEMMA NotYetScheduled == Frontier /\ TypeInv /\ pc \in {"get_sbuf", "schedule"} => raw_offset \notin Passed
  BY DEF Frontier, Passed, TypeInv, TypeOK

\* In every execution a page is handed over at most once: the one in hand is
\* always ahead of all those handed over.
THEOREM HandedOverOnce == Spec => ScheduledOnce
<1>1. TypeInv /\ Frontier /\ [Next]_vars => (total_bytes' # total_bytes => raw_offset \notin scheduled)
  <2> SUFFICES ASSUME TypeInv, Frontier, [Next]_vars, total_bytes' # total_bytes
               PROVE  raw_offset \notin scheduled
    OBVIOUS
  <2>1. pc = "schedule"
    BY DEF Next, MainThread, LoopHead, Worker, RecordSeen, StartReading, RefuseSample, EndLoop, ExitOnDiskError,
       Join, StopAtScanEnd, WaitForWorkers, PassOver, BeginRead, InBody, NoSideEffects, hashing,
       BadAlloc, ReadNothing, ReadFails, ReadPage, ScheduleSbuf, ScanInline, ScanInlineFails,
       CountAndHash, NextPage, WriteSource, TakeWork, FinishWork, WorkerDiskError, Terminated,
       producer, vars
  <2>2. QED BY <2>1, NotYetScheduled DEF Passed
<1>2. TypeInv /\ [Next]_vars => (total_bytes' > total_bytes => total_bytes' # total_bytes)
  BY DEF TypeInv, TypeOK
<1>3. QED
  BY FreshStart, TypeInit, TypeNext, FrontierInit, FrontierNext, <1>1, <1>2, PTL DEF Spec, ScheduledOnce

-----------------------------------------------------------------------------
(* Where the pages are *)

LEMMA RangeOfAppend ==
  ASSUME NEW q \in Seq(Nat), NEW p \in Nat PROVE Range(Append(q, p)) = Range(q) \cup {p}
<1>1. /\ DOMAIN q = 1 .. Len(q) /\ Len(q) \in Nat /\ DOMAIN Append(q, p) = 1 .. Len(q) + 1
      /\ \A i \in 1 .. Len(q) : Append(q, p)[i] = q[i]
      /\ Append(q, p)[Len(q) + 1] = p
  OBVIOUS
<1>2. QED BY <1>1 DEF Range

LEMMA RangeOfTail ==
  ASSUME NEW q \in Seq(Nat), q # << >>
  PROVE  /\ Head(q) \in Nat /\ Head(q) \in Range(q) /\ Tail(q) \in Seq(Nat)
         /\ Range(q) = Range(Tail(q)) \cup {Head(q)}
<1>1. /\ Head(q) = q[1] /\ DOMAIN q = 1 .. Len(q) /\ Len(q) > 0
      /\ DOMAIN Tail(q) = 1 .. Len(q) - 1 /\ Len(q) \in Nat
      /\ \A i \in 1 .. Len(q) - 1 : Tail(q)[i] = q[i + 1]
  OBVIOUS
<1>2. \A i \in DOMAIN q : i # 1 => i - 1 \in DOMAIN Tail(q) /\ q[i] = Tail(q)[i - 1]
  BY <1>1
<1>3. Head(q) \in Nat /\ Tail(q) \in Seq(Nat)
  OBVIOUS
<1>4. Head(q) \in Range(q)
  BY <1>1 DEF Range
<1>5. Range(q) \subseteq Range(Tail(q)) \cup {Head(q)}
  BY <1>1, <1>2, SMTT(30) DEF Range
<1>6. Range(Tail(q)) \subseteq Range(q)
  <2> SUFFICES ASSUME NEW i \in DOMAIN Tail(q) PROVE Tail(q)[i] \in Range(q)
    BY DEF Range
  <2>1. i + 1 \in DOMAIN q /\ Tail(q)[i] = q[i + 1]
    BY <1>1
  <2>2. QED BY <2>1 DEF Range
<1>7. QED BY <1>3, <1>4, <1>5, <1>6

\* The gate has been passed since the reader last saw the queue.
GateInv ==
  /\ QueueBound
  /\ pc \in {"get_sbuf", "schedule"} => ~QueueIsDeep

LEMMA WorkerCount == options \in OptionChoices => get_worker_count \in Nat
  BY ConfigAssumption, OptionsLemma, FS_Subset, FS_CardinalityType DEF get_worker_count

LEMMA SameOptions == [Next]_vars => UNCHANGED options
  BY DEF Next, MainThread, LoopHead, Worker, RecordSeen, StartReading, RefuseSample, EndLoop, ExitOnDiskError,
     Join, StopAtScanEnd, WaitForWorkers, PassOver, BeginRead, NoSideEffects,
     BadAlloc, ReadNothing, ReadFails, ReadPage, ScheduleSbuf, ScanInline, ScanInlineFails,
     CountAndHash, NextPage, WriteSource, TakeWork, FinishWork, WorkerDiskError, Terminated,
     given, producer, vars

LEMMA GateInit == Fresh => GateInv
  BY WorkerCount DEF Fresh, GateInv, QueueBound, depth0_sbufs_in_queue

LEMMA GateNext == TypeInv /\ GateInv /\ [Next]_vars => GateInv'
<1> SUFFICES ASSUME TypeInv, GateInv, [Next]_vars PROVE GateInv'
  OBVIOUS
<1>0. /\ queue \in Seq(Nat) /\ raw_offset \in Nat /\ get_worker_count \in Nat
      /\ get_worker_count' = get_worker_count
  BY WorkerCount, SameOptions DEF TypeInv, TypeOK, get_worker_count, threads
<1> USE DEF GateInv, QueueBound, QueueIsDeep, depth0_sbufs_in_queue, NoSideEffects, pool
<1>1. ASSUME queue' = queue, pc' \notin {"get_sbuf", "schedule"} \/ ~QueueIsDeep PROVE GateInv'
  BY <1>0, <1>1
<1>2. CASE LoopHead
  BY <1>0, <1>1, <1>2
  DEF LoopHead, EndLoop, ExitOnDiskError, StopAtScanEnd, WaitForWorkers, PassOver, BeginRead, InBody
<1>3. CASE ScheduleSbuf
  <2>1. pc = "schedule" /\ pc' = "next" /\ queue' = Append(queue, raw_offset)
    BY <1>3 DEF ScheduleSbuf, CountAndHash
  <2>2. QED BY <1>0, <2>1
<1>4. ASSUME NEW w \in Workers, TakeWork(w) PROVE GateInv'
  <2>1. queue # << >> /\ queue' = Tail(queue) /\ pc' = pc
    BY <1>4 DEF TakeWork, producer
  <2>2. QED BY <1>0, <2>1
<1>5. CASE \/ StartReading \/ RefuseSample \/ BadAlloc \/ ReadNothing \/ (\E i \in Part : ReadFails(i))
           \/ ReadPage
           \/ ScanInline \/ ScanInlineFails \/ NextPage \/ Join \/ WriteSource
           \/ (\E p \in seen_page_ids : RecordSeen(p))
  BY <1>1, <1>5
  DEF StartReading, RefuseSample, BadAlloc, ReadNothing, ReadFails, ReadPage, ScanInline,
      ScanInlineFails, NextPage,
      Join, WriteSource, RecordSeen, CountAndHash, CanAllocate, SkipPage, producer
<1>6. CASE (\E w \in Workers : FinishWork(w) \/ WorkerDiskError(w)) \/ Terminated \/ UNCHANGED vars
  BY <1>1, <1>6 DEF FinishWork, WorkerDiskError, Terminated, producer, vars
<1>7. QED BY <1>2, <1>3, <1>4, <1>5, <1>6 DEF Next, MainThread, Worker

\* However slow the workers, at most one page more than there are workers waits.
THEOREM QueueStaysBounded == Spec => []QueueBound
<1>1. GateInv => QueueBound
  BY DEF GateInv
<1>2. QED BY FreshStart, TypeInit, TypeNext, GateInit, GateNext, <1>1, PTL DEF Spec

\* What makes OnePlace inductive: the tags of report.xml say where a page is,
\* and the page in hand is a new one.
Places ==
  /\ OnePlace
  /\ work_stop \subseteq work_start
  /\ work_start \subseteq scheduled \cup seen_page_ids
  /\ seen_page_ids \cap scheduled = {}
  /\ \A w \in Busy : working[w] \in work_start
  /\ pc \in {"get_sbuf", "schedule"} => raw_offset \notin seen_page_ids

LEMMA PlacesInit == Fresh => Places
  BY DEF Fresh, Places, OnePlace, Busy, Range

LEMMA PlacesNext == TypeInv /\ Frontier /\ Places /\ [Next]_vars => Places'
<1> SUFFICES ASSUME TypeInv, Frontier, Places, [Next]_vars PROVE Places'
  OBVIOUS
<1>0. /\ queue \in Seq(Nat) /\ raw_offset \in Nat /\ working \in [Workers -> Nat \cup {Idle}]
  BY DEF TypeInv, TypeOK
<1> USE DEF Places, OnePlace, Busy, Range, NoSideEffects, given, hashing, pool, tags
<1>1. ASSUME UNCHANGED <<seen_page_ids, pool, tags, scheduled>>,
             pc' \notin {"get_sbuf", "schedule"} \/ raw_offset' \notin seen_page_ids
      PROVE  Places'
  BY <1>1
<1>2. ASSUME NEW p \in seen_page_ids, RecordSeen(p) PROVE Places'
  <2>1. /\ UNCHANGED <<pc, seen_page_ids, pool, scheduled>> /\ scheduled = {}
        /\ pc = "record"
        /\ work_start' = work_start \cup {p} /\ work_stop' = work_stop \cup {p}
    BY <1>2 DEF RecordSeen, producer, Frontier, Passed
  <2>2. Range(queue) = {} /\ Busy = {}
    BY <1>0, <2>1
  <2>3. QED BY <2>1, <2>2
<1>3. CASE LoopHead
  BY <1>1, <1>3
  DEF LoopHead, EndLoop, ExitOnDiskError, StopAtScanEnd, WaitForWorkers, PassOver, BeginRead, InBody,
      WantPage
<1>4. CASE ScheduleSbuf
  <2>1. /\ pc = "schedule" /\ pc' = "next" /\ queue' = Append(queue, raw_offset)
        /\ UNCHANGED <<seen_page_ids, working, tags>>
        /\ scheduled' = scheduled \cup {raw_offset}
    BY <1>4 DEF ScheduleSbuf, CountAndHash
  <2>2. raw_offset \notin scheduled \cup seen_page_ids
    BY <2>1, NotYetScheduled DEF Passed
  <2>3. /\ Len(queue') = Len(queue) + 1 /\ DOMAIN queue = 1 .. Len(queue)
        /\ DOMAIN queue' = 1 .. Len(queue) + 1
        /\ \A i \in 1 .. Len(queue) : queue'[i] = queue[i]
        /\ queue'[Len(queue) + 1] = raw_offset
    BY <1>0, <2>1
  <2>4. Range(queue') = Range(queue) \cup {raw_offset}
    BY <1>0, <2>1, RangeOfAppend, SMTT(30)
  <2>5. \A i, j \in DOMAIN queue' : queue'[i] = queue'[j] => i = j
    BY <2>2, <2>3
  <2>6. QED BY <2>1, <2>2, <2>4, <2>5
<1>5. CASE ScanInline \/ ScanInlineFails
  <2>1. /\ pc = "schedule" /\ pc' = "next"
        /\ UNCHANGED <<seen_page_ids, queue, working>>
        /\ scheduled' = scheduled \cup {raw_offset}
        /\ work_start' = work_start \cup {raw_offset}
        /\ work_stop' \in {work_stop, work_stop \cup {raw_offset}}
    BY <1>5 DEF ScanInline, ScanInlineFails, CountAndHash
  <2>2. raw_offset \notin scheduled \cup seen_page_ids
    BY <2>1, NotYetScheduled DEF Passed
  <2>3. QED BY <2>1, <2>2
<1>6. ASSUME NEW w \in Workers, TakeWork(w) PROVE Places'
  <2>1. /\ queue # << >> /\ working[w] = Idle
        /\ UNCHANGED <<pc, raw_offset, seen_page_ids, scheduled, work_stop>>
        /\ queue' = Tail(queue) /\ working' = [working EXCEPT ![w] = Head(queue)]
        /\ work_start' = work_start \cup {Head(queue)}
    BY <1>6 DEF TakeWork, producer
  <2>2. /\ Head(queue) = queue[1] /\ DOMAIN queue = 1 .. Len(queue) /\ Len(queue) > 0
        /\ DOMAIN queue' = 1 .. Len(queue) - 1 /\ Len(queue) \in Nat
        /\ \A i \in 1 .. Len(queue) - 1 : queue'[i] = queue[i + 1]
    BY <1>0, <2>1
  <2>3. Range(queue') \subseteq Range(queue) \ {Head(queue)} /\ Head(queue) \in Range(queue)
    <3>1. Head(queue) \in Range(queue)
      BY <2>2
    <3>2. ASSUME NEW i \in DOMAIN queue' PROVE queue'[i] \in Range(queue) \ {Head(queue)}
      <4>1. i \in 1 .. Len(queue) - 1 /\ i \in Nat /\ i + 1 # 1 /\ 1 \in DOMAIN queue /\ i + 1 \in DOMAIN queue
        BY <2>2
      <4>2. queue'[i] = queue[i + 1] /\ Head(queue) = queue[1]
        BY <2>2, <4>1
      <4>3. queue[i + 1] # queue[1]
        BY <4>1
      <4>4. QED BY <4>1, <4>2, <4>3
    <3>3. QED BY <3>1, <3>2
  <2>4. \A i, j \in DOMAIN queue' : queue'[i] = queue'[j] => i = j
    <3> SUFFICES ASSUME NEW i \in DOMAIN queue', NEW j \in DOMAIN queue', queue'[i] = queue'[j]
                 PROVE  i = j
      OBVIOUS
    <3>1. i \in 1 .. Len(queue) - 1 /\ j \in 1 .. Len(queue) - 1
      BY <2>2
    <3>2. i \in Int /\ j \in Int /\ i + 1 \in DOMAIN queue /\ j + 1 \in DOMAIN queue
      BY ONLY <2>2, <3>1
    <3>3. queue[i + 1] = queue[j + 1]
      BY <2>2, <3>1
    <3>4. i + 1 = j + 1
      BY <3>2, <3>3
    <3>5. QED BY ONLY <3>2, <3>4
  <2>5. \A v \in Busy' : v = w \/ (v \in Busy /\ working'[v] = working[v])
    BY <1>0, <2>1
  <2>6. working'[w] = Head(queue)
    BY <1>0, <2>1
  <2>7. QED BY <2>1, <2>3, <2>4, <2>5, <2>6
<1>7. ASSUME NEW w \in Workers, FinishWork(w) \/ WorkerDiskError(w) PROVE Places'
  <2>1. /\ working[w] # Idle /\ working' = [working EXCEPT ![w] = Idle]
        /\ UNCHANGED <<pc, raw_offset, seen_page_ids, scheduled, queue, work_start>>
        /\ work_stop' \in {work_stop, work_stop \cup {working[w]}}
    BY <1>7 DEF FinishWork, WorkerDiskError, producer
  <2>2. Busy' = Busy \ {w} /\ w \in Busy /\ \A v \in Busy' : working'[v] = working[v]
    BY <1>0, <2>1
  <2>3. QED BY <2>1, <2>2
<1>8. CASE \/ StartReading \/ RefuseSample \/ BadAlloc \/ ReadNothing \/ (\E i \in Part : ReadFails(i))
           \/ ReadPage
           \/ NextPage \/ Join \/ WriteSource
  BY <1>1, <1>8
  DEF StartReading, RefuseSample, BadAlloc, ReadNothing, ReadFails, ReadPage, NextPage, Join, WriteSource,
      CanAllocate, SkipPage
<1>9. CASE Terminated \/ UNCHANGED vars
  BY <1>1, <1>9 DEF Terminated, producer, vars
<1>10. QED BY <1>2, <1>3, <1>4, <1>5, <1>6, <1>7, <1>8, <1>9 DEF Next, MainThread, Worker

\* No page is ever in two hands: two workers never scan the same page, and a
\* page being scanned is neither waiting nor marked as finished.
THEOREM PagesInOnePlace == Spec => []OnePlace
<1>1. Places => OnePlace
  BY DEF Places
<1>2. QED
  BY FreshStart, TypeInit, TypeNext, FrontierInit, FrontierNext, PlacesInit, PlacesNext, <1>1, PTL DEF Spec

-----------------------------------------------------------------------------
(* Every sbuf is in somebody's hands *)

LEMMA BusyIsFinite == IsFiniteSet(Busy) /\ Cardinality(Busy) \in Nat
<1>1. IsFiniteSet(Workers) /\ Busy \in SUBSET Workers
  BY ConfigAssumption DEF Busy
<1>2. QED BY <1>1, FS_Subset, FS_CardinalityType

LEMMA SbufsInit == Fresh => SbufsAccountedWithoutReadErrors
<1> SUFFICES ASSUME Fresh PROVE SbufsAccountedWithoutReadErrors
  OBVIOUS
<1>1. Busy = {} /\ queue = << >> /\ sbuf_count = 0 /\ pc = "record"
  BY DEF Fresh, Busy
<1>2. Cardinality(Busy) = 0
  BY <1>1, FS_EmptySet
<1>3. QED BY <1>1, <1>2 DEF SbufsAccountedWithoutReadErrors

LEMMA SbufsNext ==
  TypeInv /\ SbufsAccountedWithoutReadErrors /\ [Next]_vars => SbufsAccountedWithoutReadErrors'
<1> SUFFICES ASSUME TypeInv, SbufsAccountedWithoutReadErrors, [Next]_vars,
                    \A i \in Part : stream'[i] = "good"
             PROVE  sbuf_count' = Len(queue') + Cardinality(Busy') + (IF pc' = "schedule" THEN 1 ELSE 0)
  BY DEF SbufsAccountedWithoutReadErrors
<1> DEFINE InReader == IF pc = "schedule" THEN 1 ELSE 0
           Goal == sbuf_count' = Len(queue') + Cardinality(Busy') + InReader'
<1>0. /\ queue \in Seq(Nat) /\ raw_offset \in Nat /\ working \in [Workers -> Nat \cup {Idle}]
      /\ sbuf_count \in Int /\ Len(queue) \in Nat /\ Cardinality(Busy) \in Nat /\ IsFiniteSet(Busy)
  BY BusyIsFinite DEF TypeInv, TypeOK
<1>1. ASSUME UNCHANGED stream PROVE sbuf_count = Len(queue) + Cardinality(Busy) + InReader
  BY <1>1 DEF SbufsAccountedWithoutReadErrors
<1> USE DEF NoSideEffects, pool
<1>2. ASSUME UNCHANGED <<stream, pool, sbuf_count>>, pc # "schedule", pc' # "schedule" PROVE Goal
  <2>1. Busy' = Busy
    BY <1>2 DEF Busy
  <2>2. QED BY <1>1, <1>2, <2>1
<1>3. CASE \/ StartReading \/ RefuseSample \/ LoopHead \/ BadAlloc \/ ReadNothing \/ NextPage \/ Join
           \/ WriteSource
           \/ (\E p \in seen_page_ids : RecordSeen(p))
  BY <1>2, <1>3
  DEF StartReading, RefuseSample, LoopHead, EndLoop, ExitOnDiskError, StopAtScanEnd, WaitForWorkers, PassOver,
      BeginRead, InBody, BadAlloc, ReadNothing, CanAllocate, SkipPage, NextPage, Join, WriteSource,
      RecordSeen, producer
<1>4. ASSUME NEW i \in Part, ReadFails(i) PROVE FALSE
  <2>1. stream' = [stream EXCEPT ![i] = "failed"] /\ stream \in [Part -> {"good", "failed"}]
    BY <1>4 DEF ReadFails, TypeInv, TypeOK
  <2>2. stream'[i] = "failed"
    BY <2>1
  <2>3. QED BY <2>2
<1>5. CASE ReadPage
  <2>1. /\ pc = "get_sbuf" /\ pc' = "schedule" /\ sbuf_count' = sbuf_count + 1
        /\ UNCHANGED <<stream, queue, working>>
    BY <1>5 DEF ReadPage, CanAllocate
  <2>2. Busy' = Busy
    BY <2>1 DEF Busy
  <2>3. QED BY <1>0, <1>1, <2>1, <2>2
<1>6. CASE ScheduleSbuf
  <2>1. /\ pc = "schedule" /\ pc' = "next" /\ queue' = Append(queue, raw_offset)
        /\ UNCHANGED <<stream, sbuf_count, working>>
    BY <1>6 DEF ScheduleSbuf, CountAndHash
  <2>2. Busy' = Busy /\ Len(queue') = Len(queue) + 1
    BY <1>0, <2>1 DEF Busy
  <2>3. QED BY <1>0, <1>1, <2>1, <2>2
<1>7. CASE ScanInline \/ ScanInlineFails
  <2>1. /\ pc = "schedule" /\ pc' = "next" /\ sbuf_count' = sbuf_count - 1
        /\ UNCHANGED <<stream, queue, working>>
    BY <1>7 DEF ScanInline, ScanInlineFails, CountAndHash
  <2>2. Busy' = Busy
    BY <2>1 DEF Busy
  <2>3. QED BY <1>0, <1>1, <2>1, <2>2
<1>8. ASSUME NEW w \in Workers, TakeWork(w) PROVE Goal
  <2>1. /\ queue # << >> /\ queue' = Tail(queue) /\ working[w] = Idle
        /\ working' = [working EXCEPT ![w] = Head(queue)]
        /\ UNCHANGED <<pc, stream, sbuf_count>>
    BY <1>8 DEF TakeWork, producer
  <2>2. Len(queue') = Len(queue) - 1 /\ Head(queue) \in Nat
    BY <1>0, <2>1
  <2>3. Busy' = Busy \cup {w} /\ w \notin Busy
    BY <1>0, <2>1, <2>2 DEF Busy, Idle
  <2>4. Cardinality(Busy') = Cardinality(Busy) + 1
    BY <1>0, <2>3, FS_AddElement
  <2>5. QED BY <1>0, <1>1, <2>1, <2>2, <2>4
<1>9. ASSUME NEW w \in Workers, FinishWork(w) \/ WorkerDiskError(w) PROVE Goal
  <2>1. /\ working[w] # Idle /\ working' = [working EXCEPT ![w] = Idle]
        /\ sbuf_count' = sbuf_count - 1 /\ UNCHANGED <<pc, stream, queue>>
    BY <1>9 DEF FinishWork, WorkerDiskError, producer
  <2>2. Busy' = Busy \ {w} /\ w \in Busy
    BY <1>0, <2>1 DEF Busy
  <2>3. Cardinality(Busy') = Cardinality(Busy) - 1
    BY <1>0, <2>2, FS_RemoveElement
  <2>4. QED BY <1>0, <1>1, <2>1, <2>3
<1>10. CASE Terminated \/ UNCHANGED vars
  <2>1. UNCHANGED <<pc, stream, sbuf_count, queue, working>>
    BY <1>10 DEF Terminated, vars, producer
  <2>2. Busy' = Busy
    BY <2>1 DEF Busy
  <2>3. QED BY <1>1, <2>1, <2>2
<1>11. QED
  BY <1>3, <1>4, <1>5, <1>6, <1>7, <1>8, <1>9, <1>10 DEF Next, MainThread, Worker

\* As long as no read of the image fails, every live sbuf waits, is scanned, or is in
\* the reader's hands.
THEOREM SbufsAccounted == Spec => []SbufsAccountedWithoutReadErrors
BY FreshStart, TypeInit, TypeNext, SbufsInit, SbufsNext, PTL DEF Spec

-----------------------------------------------------------------------------
(* No page asked for is forgotten *)

\* A set of naturals has a least element.
LEMMA LeastElement ==
  ASSUME NEW T \in SUBSET Nat, T # {}
  PROVE  \E x \in T : \A y \in T : x <= y
<1> DEFINE Before == OpToRel(<, Nat)
<1>1. \A x, y \in Nat : x < y => <<x, y>> \in Before
  BY DEF OpToRel
<1>2. IsWellFoundedOn(Before, Nat)
  BY NatLessThanWellFounded
<1> HIDE DEF Before
<1>3. PICK x \in T : \A y \in T : ~(<<y, x>> \in Before)
  BY <1>2, WFMin
<1>4. \A y \in T : ~(y < x)
  BY <1>1, <1>3
<1>5. \A y \in T : x <= y
  BY <1>4
<1>6. QED BY <1>5

\* Some part holds every byte of the image: the first part that ends past it.
LEMMA PartsCoverImage ==
  ASSUME NEW off \in Nat, off < raw_filesize PROVE find_offset(off) # {}
<1> DEFINE Past == {i \in Part : off < file_list[i].offset + file_list[i].length}
<1>1. /\ file_list \in Seq([offset : Nat, length : Nat]) /\ raw_filesize \in Nat
      /\ Part = 1 .. Len(file_list) /\ Len(file_list) \in Nat
  BY FileListAssumption, LenProperties DEF Part
<1>2. \A i \in Part : file_list[i] \in [offset : Nat, length : Nat]
  BY <1>1, ElementOfSeq
<1>3. file_list # << >> /\ Len(file_list) \in Past
  <2>1. file_list # << >>
    BY FileListAssumption
  <2>2. Len(file_list) > 0
    BY <1>1, <2>1, EmptySeq
  <2>3. raw_filesize = file_list[Len(file_list)].offset + file_list[Len(file_list)].length
    BY FileListAssumption, <2>1
  <2>4. QED BY <1>1, <2>1, <2>2, <2>3
<1>4. PICK i \in Past : \A j \in Past : i <= j
  <2>1. Past \in SUBSET Nat /\ Past # {}
    BY <1>1, <1>3
  <2> HIDE DEF Past
  <2>2. QED BY <2>1, LeastElement
<1>5. file_list[i].offset <= off
  <2>1. CASE i = 1
    BY <2>1, FileListAssumption
  <2>2. CASE i # 1
    <3>1. i - 1 \in Part /\ i - 1 \notin Past
      BY <1>1, <1>4, <2>2
    <3>2. file_list[i].offset = file_list[i-1].offset + file_list[i-1].length
      BY <1>1, <2>2, FileListAssumption
    <3>3. file_list[i-1].offset \in Nat /\ file_list[i-1].length \in Nat
      BY <1>2, <3>1
    <3>4. QED BY <3>1, <3>2, <3>3
  <2>3. QED BY <2>1, <2>2
<1>6. QED BY <1>5 DEF find_offset

Handled == seen_page_ids \cup exceptions \cup scheduled
HandledBefore(off) == \A p \in Requested : p < off => p \in Handled
\* Where a reader that goes page by page from the -Y start can stand.
OnGrid(off) == off >= raw_filesize \/ \E k \in Nat : off = opt_scan_start + k * pagesize

\* An unsampled run has dealt with all the pages asked for behind the reader.
Covered ==
  /\ pc = "record" => ~eof
  /\ ~sampling =>
       /\ pc \in {"loop", "get_sbuf", "schedule"} => OnGrid(raw_offset) /\ HandledBefore(raw_offset)
       /\ pc = "next" =>
            /\ OnGrid(raw_offset) /\ HandledBefore(raw_offset)
            /\ raw_offset \in Requested => raw_offset \in Handled
       /\ eof \/ pc \in {"join", "source", "done"} => Requested \subseteq Handled

LEMMA RequestedIsNat ==
  options \in OptionChoices =>
    Requested \subseteq Nat /\ \A p \in Requested : p < raw_filesize /\ p >= opt_scan_start
<1> SUFFICES ASSUME options \in OptionChoices, NEW p \in Requested
             PROVE  p \in Nat /\ p < raw_filesize /\ p >= opt_scan_start
  OBVIOUS
<1>1. PICK k \in 0 .. max_blocks : p = opt_scan_start + k * pagesize
  BY DEF Requested
<1>2. k \in Nat /\ opt_scan_start \in Nat /\ pagesize \in Nat \ {0}
  BY ReaderLemma, OptionsLemma, PagesizeAssumption
<1>3. k * pagesize \in Nat
  BY <1>2, ProductLemma
<1>4. QED BY <1>1, <1>2, <1>3 DEF Requested

\* Between the reader and where ++it takes it there is no page asked for.
LEMMA NoneBetween ==
  ASSUME options \in OptionChoices, raw_offset \in Nat, OnGrid(raw_offset),
         NEW p \in Requested, p < increment(raw_offset)
  PROVE  p <= raw_offset
<1>1. /\ raw_filesize \in Nat /\ pagesize \in Nat \ {0} /\ opt_scan_start \in Nat
      /\ p \in Nat /\ p < raw_filesize
  BY FileListAssumption, PagesizeAssumption, OptionsLemma, RequestedIsNat
<1>2. CASE raw_offset >= raw_filesize
  BY <1>1, <1>2
<1>3. CASE raw_offset < raw_filesize
  <2>1. PICK k \in Nat : raw_offset = opt_scan_start + k * pagesize
    BY <1>1, <1>3 DEF OnGrid
  <2>2. PICK j \in 0 .. max_blocks : p = opt_scan_start + j * pagesize
    BY DEF Requested
  <2>3. j \in Nat
    BY <2>2, ReaderLemma
  <2>4. k * pagesize \in Nat /\ j * pagesize \in Nat /\ (k < j => k * pagesize + pagesize <= j * pagesize)
    BY <1>1, <2>3, ProductLemma
  <2>5. CASE k < j
    <3>1. raw_offset + pagesize <= p
      BY <1>1, <2>1, <2>2, <2>4, <2>5
    <3>2. increment(raw_offset) <= raw_offset + pagesize
      BY <1>1 DEF increment
    <3>3. QED BY <1>1, <3>1, <3>2, ReaderLemma
  <2>6. CASE j <= k
    <3>1. (j < k => j * pagesize + pagesize <= k * pagesize)
      BY <1>1, <2>3, ProductLemma
    <3>2. QED BY <1>1, <2>1, <2>2, <2>3, <2>4, <2>6, <3>1
  <2>7. QED BY <2>3, <2>5, <2>6
<1>4. QED BY <1>1, <1>2, <1>3

LEMMA CoveredInit == Fresh => Covered
  BY DEF Fresh, Covered

LEMMA CoveredNext == TypeInv /\ Covered /\ [Next]_vars => Covered'
<1> SUFFICES ASSUME TypeInv, Covered, [Next]_vars PROVE Covered'
  OBVIOUS
<1>0. /\ raw_offset \in Nat /\ options \in OptionChoices /\ raw_filesize \in Nat
      /\ pagesize \in Nat \ {0} /\ opt_scan_start \in Nat
      /\ Requested \subseteq Nat /\ \A p \in Requested : p < raw_filesize /\ p >= opt_scan_start
  BY RequestedIsNat, OptionsLemma, FileListAssumption, PagesizeAssumption DEF TypeInv, TypeOK
<1>a. UNCHANGED options /\ Requested' = Requested /\ (sampling' <=> sampling)
  BY SameOptions DEF Requested, sampling, opt_scan_start, opt_scan_end
<1>b. \A off : OnGrid(off)' <=> OnGrid(off)
  BY <1>a DEF OnGrid, opt_scan_start
<1> USE DEF NoSideEffects, given
<1> HIDE DEF sampling
<1>1. ASSUME UNCHANGED <<raw_offset, eof>>, Handled \subseteq Handled', pc' = pc PROVE Covered'
  BY <1>1, <1>a, <1>b DEF Covered, HandledBefore
<1>2. CASE StartReading
  <2>1. pc' = "loop" /\ raw_offset' = opt_scan_start /\ eof' = eof /\ pc = "record"
    BY <1>2 DEF StartReading
  <2>2. opt_scan_start = opt_scan_start + 0 * pagesize
    BY <1>0
  <2>3. OnGrid(opt_scan_start)
    BY <2>2 DEF OnGrid
  <2>4. QED BY <1>0, <1>a, <1>b, <2>1, <2>3 DEF Covered, HandledBefore
<1>3. ASSUME NEW off \in Offsets,
             StopAtScanEnd(off) \/ WaitForWorkers(off) \/ PassOver(off) \/ BeginRead(off)
      PROVE  Covered'
  <2>1. /\ pc = "loop" /\ raw_offset' = off /\ UNCHANGED <<eof, seen_page_ids, exceptions, scheduled>>
        /\ (~sampling => off = raw_offset)
    BY <1>3 DEF StopAtScanEnd, WaitForWorkers, PassOver, BeginRead, InBody, Sought, hashing
  <2>2. Handled' = Handled
    BY <2>1 DEF Handled
  <2>3. CASE StopAtScanEnd(off)
    <3>1. pc' = "join" /\ opt_scan_end # 0 /\ opt_scan_end <= off
      BY <2>3 DEF StopAtScanEnd, PastScanEnd
    <3>2. ASSUME ~sampling, NEW p \in Requested PROVE p < raw_offset
      <4>1. p < opt_scan_end /\ opt_scan_end \in Nat
        BY <1>0, <3>1, ConfigAssumption DEF Requested, opt_scan_end
      <4>2. QED BY <1>0, <2>1, <3>1, <3>2, <4>1
    <3>3. QED BY <1>a, <2>1, <2>2, <3>1, <3>2 DEF Covered, HandledBefore
  <2>4. CASE WaitForWorkers(off) \/ BeginRead(off)
    <3>1. pc' \in {"loop", "get_sbuf"}
      BY <2>1, <2>4 DEF WaitForWorkers, BeginRead
    <3>2. QED BY <1>a, <1>b, <2>1, <2>2, <3>1 DEF Covered, HandledBefore
  <2>5. CASE PassOver(off)
    <3>1. pc' = "next" /\ ~WantPage(off)
      BY <2>5 DEF PassOver
    <3>2. off \in Requested => off \in seen_page_ids
      BY <1>0, <3>1 DEF WantPage, Requested
    <3>3. QED BY <1>a, <1>b, <2>1, <2>2, <3>1, <3>2 DEF Covered, HandledBefore, Handled
  <2>6. QED BY <1>3, <2>3, <2>4, <2>5
<1>4. CASE EndLoop
  <2>1. /\ pc = "loop" /\ pc' = "join" /\ UNCHANGED <<raw_offset, eof, seen_page_ids, exceptions, scheduled>>
        /\ ~sampling => eof \/ raw_offset = raw_filesize
    BY <1>4 DEF EndLoop, AtEnd, hashing
  <2>2. ~sampling => Requested \subseteq Handled
    BY <1>0, <2>1 DEF Covered, HandledBefore
  <2>3. Handled' = Handled
    BY <2>1 DEF Handled
  <2>4. QED BY <1>a, <2>1, <2>2, <2>3 DEF Covered
<1>5. CASE RefuseSample \/ ExitOnDiskError \/ Join \/ WriteSource
  <2>1. /\ pc' \in {"exit", "source", "done"} /\ (pc' # "exit" => pc \in {"join", "source"})
        /\ UNCHANGED <<raw_offset, eof, seen_page_ids, exceptions, scheduled>>
    BY <1>5 DEF RefuseSample, ExitOnDiskError, Join, WriteSource, hashing
  <2>2. Handled' = Handled
    BY <2>1 DEF Handled
  <2>3. QED BY <1>a, <2>1, <2>2 DEF Covered
<1>6. CASE ReadNothing
  <2>1. /\ pc = "get_sbuf" /\ pc' = "next" /\ raw_offset' = raw_offset
        /\ find_offset(raw_offset) = {}
        /\ UNCHANGED <<seen_page_ids, scheduled>> /\ exceptions' = exceptions \cup {raw_offset}
    BY <1>6 DEF ReadNothing, CanAllocate, SkipPage, hashing
  <2>2. Handled' = Handled \cup {raw_offset}
    BY <2>1 DEF Handled
  <2>3. raw_offset >= raw_filesize
    BY <1>0, <2>1, PartsCoverImage
  <2>4. ~sampling => Requested \subseteq Handled
    BY <1>0, <2>1, <2>3 DEF Covered, HandledBefore
  <2>5. QED BY <1>a, <1>b, <2>1, <2>2, <2>3, <2>4 DEF Covered, HandledBefore, OnGrid
<1>7. CASE BadAlloc \/ (\E i \in Part : ReadFails(i)) \/ ReadPage
  <2>1. /\ pc = "get_sbuf" /\ pc' \in {"get_sbuf", "schedule", "next"}
        /\ UNCHANGED <<raw_offset, eof, seen_page_ids, scheduled>>
        /\ IF pc' = "next" THEN exceptions' = exceptions \cup {raw_offset} ELSE UNCHANGED exceptions
    BY <1>7 DEF BadAlloc, ReadFails, ReadPage, CanAllocate, SkipPage, hashing
  <2>2. Handled' = Handled \cup (IF pc' = "next" THEN {raw_offset} ELSE {})
    BY <2>1 DEF Handled
  <2>3. QED BY <1>a, <1>b, <2>1, <2>2 DEF Covered, HandledBefore
<1>8. CASE ScheduleSbuf \/ ScanInline \/ ScanInlineFails
  <2>1. /\ pc = "schedule" /\ pc' = "next" /\ UNCHANGED <<raw_offset, eof, seen_page_ids>>
        /\ scheduled' = scheduled \cup {raw_offset} /\ exceptions \subseteq exceptions'
    BY <1>8 DEF ScheduleSbuf, ScanInline, ScanInlineFails, CountAndHash
  <2>2. Handled \cup {raw_offset} \subseteq Handled'
    BY <2>1 DEF Handled
  <2>3. QED BY <1>a, <1>b, <2>1, <2>2 DEF Covered, HandledBefore
<1>9. CASE NextPage
  <2>1. /\ pc = "next" /\ pc' = "loop" /\ raw_offset' = increment(raw_offset)
        /\ UNCHANGED <<eof, seen_page_ids, exceptions, scheduled>>
    BY <1>9 DEF NextPage, hashing
  <2>2. Handled' = Handled
    BY <2>1 DEF Handled
  <2>3. ~sampling => HandledBefore(increment(raw_offset))
    BY <1>0, <2>1, NoneBetween DEF Covered, HandledBefore
  <2>4. ASSUME ~sampling PROVE OnGrid(increment(raw_offset))
    <3>1. CASE raw_offset + pagesize > raw_filesize \/ raw_offset >= raw_filesize
      BY <1>0, <3>1 DEF increment, OnGrid
    <3>2. CASE raw_offset + pagesize <= raw_filesize
      <4>1. PICK k \in Nat : raw_offset = opt_scan_start + k * pagesize
        BY <1>0, <2>1, <2>4, <3>2 DEF Covered, OnGrid
      <4>2. increment(raw_offset) = opt_scan_start + (k + 1) * pagesize
        <5>1. increment(raw_offset) = raw_offset + pagesize
          BY <1>0, <3>2 DEF increment
        <5>2. k * pagesize \in Nat /\ (k + 1) * pagesize = k * pagesize + pagesize
          BY <1>0, ProductLemma
        <5>3. QED BY <1>0, <4>1, <5>1, <5>2
      <4>3. QED BY <4>2 DEF OnGrid
    <3>3. QED BY <1>0, <3>1, <3>2
  <2>5. QED BY <1>a, <1>b, <2>1, <2>2, <2>3, <2>4 DEF Covered, HandledBefore
<1>10. CASE \/ \E p \in seen_page_ids : RecordSeen(p)
            \/ \E w \in Workers : TakeWork(w) \/ FinishWork(w) \/ WorkerDiskError(w)
            \/ Terminated \/ UNCHANGED vars
  <2>1. UNCHANGED producer
    BY <1>10 DEF RecordSeen, TakeWork, FinishWork, WorkerDiskError, Terminated, vars
  <2>2. UNCHANGED <<pc, raw_offset, eof>> /\ Handled' = Handled
    BY <2>1 DEF producer, hashing, Handled
  <2>3. QED BY <1>1, <2>2
<1>11. QED
  BY <1>2, <1>3, <1>4, <1>5, <1>6, <1>7, <1>8, <1>9, <1>10 DEF Next, MainThread, LoopHead, Worker

\* Unless a disk error was met, a page handed over waits, is scanned, was scanned, or
\* was reported as an exception; and behind join() none waits or is scanned.
Settled ==
  /\ disk_write_errors = 0 =>
       scheduled \subseteq Range(queue) \cup {working[w] : w \in Busy} \cup work_stop \cup exceptions
  /\ pc \in {"source", "done"} => queue = << >> /\ Busy = {}

LEMMA SettledInit == Fresh => Settled
  BY DEF Fresh, Settled

LEMMA SettledNext == TypeInv /\ Settled /\ [Next]_vars => Settled'
<1> SUFFICES ASSUME TypeInv, Settled, [Next]_vars PROVE Settled'
  OBVIOUS
<1>0. /\ queue \in Seq(Nat) /\ raw_offset \in Nat /\ working \in [Workers -> Nat \cup {Idle}]
      /\ disk_write_errors \in {0, 1}
  BY DEF TypeInv, TypeOK
<1> USE DEF Settled, Busy, NoSideEffects, hashing, pool, tags
<1>1. ASSUME UNCHANGED <<pool, work_stop, scheduled>>, exceptions \subseteq exceptions',
             pc' \in {"source", "done"} => pc = "source" \/ Join
      PROVE  Settled'
  BY <1>1 DEF Join
<1>2. CASE \/ StartReading \/ RefuseSample \/ LoopHead \/ BadAlloc \/ ReadNothing
           \/ (\E i \in Part : ReadFails(i))
           \/ ReadPage \/ NextPage \/ Join \/ WriteSource
  BY <1>1, <1>2
  DEF StartReading, RefuseSample, LoopHead, EndLoop, ExitOnDiskError, StopAtScanEnd, WaitForWorkers, PassOver,
      BeginRead, InBody, BadAlloc, ReadNothing, ReadFails, ReadPage, CanAllocate, SkipPage, NextPage,
      Join, WriteSource
<1>3. ASSUME NEW p \in seen_page_ids, RecordSeen(p) PROVE Settled'
  BY <1>3 DEF RecordSeen, producer
<1>4. CASE ScheduleSbuf
  <2>1. /\ pc' = "next" /\ queue' = Append(queue, raw_offset) /\ scheduled' = scheduled \cup {raw_offset}
        /\ UNCHANGED <<working, disk_write_errors, exceptions, work_stop>>
    BY <1>4 DEF ScheduleSbuf, CountAndHash
  <2>2. Range(queue') = Range(queue) \cup {raw_offset}
    BY <1>0, <2>1, RangeOfAppend
  <2>3. QED BY <2>1, <2>2
<1>5. CASE ScanInline \/ ScanInlineFails
  <2>1. /\ pc' = "next" /\ scheduled' = scheduled \cup {raw_offset}
        /\ UNCHANGED <<queue, working>>
        /\ exceptions \subseteq exceptions' /\ work_stop \subseteq work_stop'
        /\ raw_offset \in work_stop' \cup exceptions'
        /\ disk_write_errors' = 0 => disk_write_errors = 0
    BY <1>5 DEF ScanInline, ScanInlineFails, CountAndHash
  <2>2. QED BY <2>1
<1>6. ASSUME NEW w \in Workers, TakeWork(w) PROVE Settled'
  <2>1. /\ queue # << >> /\ working[w] = Idle
        /\ UNCHANGED <<pc, disk_write_errors, exceptions, scheduled, work_stop>>
        /\ queue' = Tail(queue) /\ working' = [working EXCEPT ![w] = Head(queue)]
    BY <1>6 DEF TakeWork, producer
  <2>2. Range(queue) \subseteq Range(queue') \cup {Head(queue)} /\ Head(queue) \in Nat
    BY <1>0, <2>1, RangeOfTail
  <2>3. working'[w] = Head(queue) /\ w \in Busy' /\ \A v \in Busy : v \in Busy' /\ working'[v] = working[v]
    BY <1>0, <2>1, <2>2 DEF Idle
  <2>4. QED BY <2>1, <2>2, <2>3
<1>7. ASSUME NEW w \in Workers, FinishWork(w) \/ WorkerDiskError(w) PROVE Settled'
  <2>1. /\ working[w] # Idle /\ working' = [working EXCEPT ![w] = Idle]
        /\ UNCHANGED <<pc, queue, scheduled, exceptions>>
        /\ disk_write_errors' = 0 => disk_write_errors = 0 /\ work_stop' = work_stop \cup {working[w]}
    BY <1>7 DEF FinishWork, WorkerDiskError, producer
  <2>2. Busy' = Busy \ {w} /\ w \in Busy /\ \A v \in Busy' : working'[v] = working[v]
    BY <1>0, <2>1
  <2>3. QED BY <2>1, <2>2
<1>8. CASE Terminated \/ UNCHANGED vars
  BY <1>8 DEF Terminated, producer, vars
<1>9. QED BY <1>2, <1>3, <1>4, <1>5, <1>6, <1>7, <1>8 DEF Next, MainThread, Worker

LEMMA AccountedAtEnd == TypeInv /\ Covered /\ Settled => AllPagesAccounted
<1> SUFFICES ASSUME TypeInv, Covered, Settled, pc = "done"
             PROVE  /\ ~sampling => Requested \subseteq seen_page_ids \cup exceptions \cup scheduled
                    /\ disk_write_errors = 0 => scheduled \ exceptions \subseteq work_stop
  BY DEF AllPagesAccounted
<1>1. ~sampling => Requested \subseteq seen_page_ids \cup exceptions \cup scheduled
  BY DEF Covered, Handled
<1>2. Range(queue) = {} /\ Busy = {}
  BY DEF Settled, Range
<1>3. QED BY <1>1, <1>2 DEF Settled

\* When Phase 1 ends, no page asked for was forgotten, and none handed over is left
\* unscanned without a word.
THEOREM NothingForgotten == Spec => []AllPagesAccounted
BY FreshStart, TypeInit, TypeNext, CoveredInit, CoveredNext, SettledInit, SettledNext, AccountedAtEnd,
   PTL DEF Spec

-----------------------------------------------------------------------------
(* What the digest stands for *)

\* The pages that begin before byte n of the image.
PagesBefore(n) == {k * pagesize : k \in 0 .. max_blocks} \cap (0 .. (n - 1))

\* As long as the hash goes on, it has taken in all the pages before hash_next and no
\* other was handed over; hash_next is where a page begins, or the end of the image.
Hashed ==
  /\ total_bytes = hash_next /\ scheduled = PagesBefore(hash_next)
  /\ hash_next = raw_filesize \/ \E k \in Nat : hash_next = k * pagesize
DigestInv ==
  /\ pc = "record" => hash_next = 0 /\ total_bytes = 0 /\ scheduled = {}
  /\ pc # "record" /\ sha1g = "hashing" => Hashed
  /\ pc # "done" => hashdigest = {}
  /\ DigestMatchesPages

LEMMA DigestInit == Fresh => DigestInv
  BY DEF Fresh, DigestInv, DigestMatchesPages

\* One more page: no page begins inside it.
LEMMA OnePageMore ==
  ASSUME NEW k \in Nat, NEW off, off = k * pagesize, off < raw_filesize
  PROVE  /\ PagesBefore(increment(off)) = PagesBefore(off) \cup {off}
         /\ increment(off) = raw_filesize \/ increment(off) = (k + 1) * pagesize
<1>1. raw_filesize \in Nat /\ pagesize \in Nat \ {0} /\ max_blocks \in Nat /\ off \in Nat
  BY FileListAssumption, PagesizeAssumption, ReaderLemma, ProductLemma
<1>2. /\ increment(off) \in Nat /\ increment(off) > off /\ increment(off) <= off + pagesize
      /\ increment(off) = raw_filesize \/ increment(off) = off + pagesize
  BY <1>1 DEF increment
<1>3. off + pagesize = (k + 1) * pagesize
  BY <1>1, ProductLemma
<1>4. k <= max_blocks
  <2>1. raw_filesize + pagesize - 1 \in Nat
    BY <1>1
  <2>2. max_blocks * pagesize \in Nat /\ raw_filesize + pagesize - 1 < max_blocks * pagesize + pagesize
    BY <1>1, <2>1, DivLemma DEF max_blocks
  <2>3. max_blocks < k => max_blocks * pagesize + pagesize <= k * pagesize
    BY <1>1, ProductLemma
  <2>4. QED BY <1>1, <2>2, <2>3
<1>5. \A j \in 0 .. max_blocks : j * pagesize \in Nat /\ (j * pagesize < increment(off) <=> j <= k)
  <2> SUFFICES ASSUME NEW j \in 0 .. max_blocks
               PROVE  j * pagesize \in Nat /\ (j * pagesize < increment(off) <=> j <= k)
    OBVIOUS
  <2>1. j \in Nat
    BY <1>1
  <2>2. /\ j * pagesize \in Nat
        /\ j < k => j * pagesize + pagesize <= k * pagesize
        /\ k < j => k * pagesize + pagesize <= j * pagesize
    BY <1>1, <2>1, ProductLemma
  <2>3. CASE j = k
    BY <1>1, <1>2, <2>2, <2>3
  <2>4. CASE j < k
    BY <1>1, <1>2, <2>1, <2>2, <2>4
  <2>5. CASE k < j
    BY <1>1, <1>2, <2>1, <2>2, <2>5
  <2>6. QED BY <2>1, <2>3, <2>4, <2>5
<1>6. \A j \in 0 .. max_blocks : j * pagesize < off <=> j < k
  <2> SUFFICES ASSUME NEW j \in 0 .. max_blocks PROVE j * pagesize < off <=> j < k
    OBVIOUS
  <2>1. j \in Nat
    BY <1>1
  <2>2. /\ j * pagesize \in Nat
        /\ j < k => j * pagesize + pagesize <= k * pagesize
        /\ k < j => k * pagesize + pagesize <= j * pagesize
    BY <1>1, <2>1, ProductLemma
  <2>3. CASE j = k
    BY <1>1, <2>2, <2>3
  <2>4. CASE j < k
    BY <1>1, <2>1, <2>2, <2>4
  <2>5. CASE k < j
    BY <1>1, <2>1, <2>2, <2>5
  <2>6. QED BY <2>1, <2>3, <2>4, <2>5
<1>7. \A n \in Nat : PagesBefore(n) = {j * pagesize : j \in {i \in 0 .. max_blocks : i * pagesize < n}}
  <2> SUFFICES ASSUME NEW n \in Nat
               PROVE  PagesBefore(n) = {j * pagesize : j \in {i \in 0 .. max_blocks : i * pagesize < n}}
    OBVIOUS
  <2>1. \A j \in 0 .. max_blocks : j * pagesize \in 0 .. (n - 1) <=> j * pagesize < n
    BY <1>5
  <2>2. QED BY <2>1 DEF PagesBefore
<1>8. PagesBefore(increment(off)) = {j * pagesize : j \in {i \in 0 .. max_blocks : i <= k}}
  BY <1>2, <1>5, <1>7
<1>9. PagesBefore(off) = {j * pagesize : j \in {i \in 0 .. max_blocks : i < k}}
  BY <1>1, <1>6, <1>7
<1>10. {i \in 0 .. max_blocks : i <= k} = {i \in 0 .. max_blocks : i < k} \cup {k}
  BY <1>1, <1>4
<1>11. QED BY <1>2, <1>3, <1>8, <1>9, <1>10

LEMMA DigestNext == TypeInv /\ DigestInv /\ [Next]_vars => DigestInv'
<1> SUFFICES ASSUME TypeInv, DigestInv, [Next]_vars PROVE DigestInv'
  OBVIOUS
<1> USE DEF NoSideEffects, given, hashing
<1>1. ASSUME UNCHANGED <<hashing, hashdigest>>, pc = "record" <=> pc' = "record", pc = "done" => pc' = "done"
      PROVE  DigestInv'
  <2>1. Hashed' = Hashed /\ DigestMatchesPages' = DigestMatchesPages
    BY <1>1 DEF Hashed, PagesBefore, DigestMatchesPages
  <2>2. QED BY <1>1, <2>1 DEF DigestInv
<1>2. CASE \/ LoopHead \/ BadAlloc \/ ReadNothing \/ (\E i \in Part : ReadFails(i)) \/ ReadPage
           \/ NextPage \/ Join
  <2>1. UNCHANGED <<sha1g, hash_next, total_bytes, scheduled, hashdigest>>
    BY <1>2
    DEF LoopHead, EndLoop, ExitOnDiskError, StopAtScanEnd, WaitForWorkers, PassOver, BeginRead,
        BadAlloc, ReadNothing, ReadFails, ReadPage, SkipPage, NextPage, Join
  <2>2. pc \notin {"record", "done"} /\ pc' # "record"
    BY <1>2
    DEF LoopHead, EndLoop, ExitOnDiskError, StopAtScanEnd, WaitForWorkers, PassOver, BeginRead, InBody,
        BadAlloc, ReadNothing, ReadFails, ReadPage, CanAllocate, SkipPage, NextPage, Join
  <2>3. QED BY <1>1, <2>1, <2>2
<1>3. CASE StartReading
  <2>1. /\ pc = "record" /\ pc' = "loop" /\ UNCHANGED <<hash_next, total_bytes, scheduled, hashdigest>>
    BY <1>3 DEF StartReading
  <2>2. hash_next = 0 /\ total_bytes = 0 /\ scheduled = {} /\ hashdigest = {}
    BY <2>1 DEF DigestInv
  <2>3. PagesBefore(0) = {} /\ 0 = 0 * pagesize
    BY PagesizeAssumption DEF PagesBefore
  <2>4. QED BY <2>1, <2>2, <2>3 DEF DigestInv, DigestMatchesPages, Hashed
<1>4. CASE ScheduleSbuf \/ ScanInline \/ ScanInlineFails
  <2>1. /\ pc = "schedule" /\ pc' = "next" /\ HashPage /\ UNCHANGED hashdigest
        /\ total_bytes' = total_bytes + this_pagesize(raw_offset)
        /\ scheduled' = scheduled \cup {raw_offset}
    BY <1>4 DEF ScheduleSbuf, ScanInline, ScanInlineFails, CountAndHash
  <2>2. hashdigest = {} /\ raw_offset \in Nat /\ raw_offset < raw_filesize
    BY <2>1 DEF DigestInv, TypeInv, TypeOK, InHand
  <2>3. ASSUME sha1g' = "hashing" PROVE Hashed'
    <3>1. /\ sha1g = "hashing" /\ raw_offset = hash_next
          /\ hash_next' = hash_next + this_pagesize(raw_offset)
      BY <2>1, <2>3 DEF HashPage
    <3>2. Hashed
      BY <2>1, <3>1 DEF DigestInv
    <3>3. PICK k \in Nat : raw_offset = k * pagesize
      BY <2>2, <3>1, <3>2, FileListAssumption DEF Hashed
    <3>4. hash_next' = increment(raw_offset)
      BY <2>2, <3>1, ReaderLemma
    <3>5. PagesBefore(hash_next') = scheduled'
      BY <2>1, <2>2, <3>1, <3>2, <3>3, <3>4, OnePageMore DEF Hashed
    <3>6. hash_next' = raw_filesize \/ hash_next' = (k + 1) * pagesize
      BY <2>2, <3>3, <3>4, OnePageMore
    <3>7. total_bytes' = hash_next'
      BY <2>1, <3>1, <3>2 DEF Hashed
    <3>8. QED BY <3>5, <3>6, <3>7 DEF Hashed, PagesBefore
  <2>4. QED BY <2>1, <2>2, <2>3 DEF DigestInv, DigestMatchesPages
<1>5. CASE WriteSource
  <2>1. /\ pc = "source" /\ pc' = "done" /\ UNCHANGED <<sha1g, hash_next, total_bytes, scheduled>>
        /\ hashdigest' = IF sha1g = "hashing" THEN {hash_next} ELSE {}
    BY <1>5 DEF WriteSource
  <2>2. sha1g = "hashing" => Hashed
    BY <2>1 DEF DigestInv
  <2>3. Hashed => Hashed'
    BY <2>1 DEF Hashed, PagesBefore
  <2>4. QED BY <2>1, <2>2, <2>3 DEF DigestInv, DigestMatchesPages, Hashed, PagesBefore
<1>6. CASE \/ \E p \in seen_page_ids : RecordSeen(p)
           \/ \E w \in Workers : TakeWork(w) \/ FinishWork(w) \/ WorkerDiskError(w)
           \/ Terminated \/ UNCHANGED vars
  <2>1. UNCHANGED producer
    BY <1>6 DEF RecordSeen, TakeWork, FinishWork, WorkerDiskError, Terminated, vars
  <2>2. QED BY <1>1, <2>1 DEF producer
<1>7. CASE RefuseSample
  <2>1. pc = "record" /\ pc' = "exit" /\ UNCHANGED <<sha1g, hash_next, total_bytes, scheduled, hashdigest>>
    BY <1>7 DEF RefuseSample
  <2>2. hash_next = 0 /\ total_bytes = 0 /\ scheduled = {} /\ hashdigest = {}
    BY <2>1 DEF DigestInv
  <2>3. PagesBefore(0) = {} /\ 0 = 0 * pagesize
    BY PagesizeAssumption DEF PagesBefore
  <2>4. QED BY <2>1, <2>2, <2>3 DEF DigestInv, DigestMatchesPages, Hashed
<1>8. QED BY <1>2, <1>3, <1>4, <1>5, <1>6, <1>7 DEF Next, MainThread, Worker

\* The digest that is written is the digest of the pages handed over, all of them and
\* no others, whatever was skipped, sampled or left for another run.
THEOREM DigestIsOfPages == Spec => []DigestMatchesPages
<1>1. DigestInv => DigestMatchesPages
  BY DEF DigestInv
<1>2. QED BY FreshStart, TypeInit, TypeNext, DigestInit, DigestNext, <1>1, PTL DEF Spec

-----------------------------------------------------------------------------
(* Phase 1 implements PageScan *)

\* The reader stands at an offset of Offsets, and only the threads there are have pages.
Members == raw_offset \in Offsets /\ Busy \subseteq threads

LEMMA MembersInit == Fresh => Members
<1> SUFFICES ASSUME Fresh PROVE Members
  OBVIOUS
<1>1. 0 \in 0 .. (raw_filesize + options.opt_scan_start) /\ options \in OptionChoices
  BY ConfigAssumption, FileListAssumption DEF Fresh
<1>2. QED BY <1>1 DEF Fresh, Members, Offsets, Busy

LEMMA MembersNext == TypeInv /\ Members /\ [Next]_vars => Members'
<1> SUFFICES ASSUME TypeInv, Members, [Next]_vars PROVE Members'
  OBVIOUS
<1>0. /\ options \in OptionChoices /\ raw_offset \in Nat /\ raw_filesize \in Nat
      /\ working \in [Workers -> Nat \cup {Idle}] /\ queue \in Seq(Nat)
      /\ opt_scan_start \in Nat /\ options' = options
  BY OptionsLemma, FileListAssumption, SameOptions DEF TypeInv, TypeOK
<1>1. 0 .. (raw_filesize + opt_scan_start) \subseteq Offsets
  BY <1>0 DEF Offsets, opt_scan_start
<1> USE DEF NoSideEffects, pool
<1>2. ASSUME raw_offset' \in Offsets, Busy' \subseteq Busy PROVE Members'
  BY <1>0, <1>2 DEF Members, threads
<1>3. CASE StartReading
  <2>1. opt_scan_start \in Offsets
    BY <1>0, <1>1
  <2>2. QED BY <1>2, <1>3, <2>1 DEF StartReading, Busy
<1>4. CASE NextPage
  <2>1. increment(raw_offset) \in 0 .. (raw_filesize + opt_scan_start)
    <3>1. increment(raw_offset) <= raw_filesize /\ increment(raw_offset) \in Nat
      BY <1>0, ReaderLemma DEF increment
    <3>2. QED BY <1>0, <3>1
  <2>2. QED BY <1>1, <1>2, <1>4, <2>1 DEF NextPage, Busy
<1>5. CASE LoopHead
  <2>1. raw_offset' \in Offsets /\ UNCHANGED working
    BY <1>5 DEF LoopHead, EndLoop, ExitOnDiskError, StopAtScanEnd, WaitForWorkers, PassOver, BeginRead,
       InBody, Members
  <2>2. QED BY <1>2, <2>1 DEF Busy
<1>6. CASE \/ RefuseSample \/ BadAlloc \/ ReadNothing \/ (\E i \in Part : ReadFails(i)) \/ ReadPage
           \/ ScheduleSbuf \/ ScanInline \/ ScanInlineFails \/ Join \/ WriteSource
           \/ (\E p \in seen_page_ids : RecordSeen(p)) \/ Terminated \/ UNCHANGED vars
  <2>1. UNCHANGED <<raw_offset, working>>
    BY <1>6 DEF RefuseSample, BadAlloc, ReadNothing, ReadFails, ReadPage, ScheduleSbuf, ScanInline,
                ScanInlineFails,
       CountAndHash, Join, WriteSource, RecordSeen, Terminated, vars, producer
  <2>2. QED BY <1>2, <2>1 DEF Busy, Members
<1>7. ASSUME NEW w \in Workers, TakeWork(w) \/ FinishWork(w) \/ WorkerDiskError(w) PROVE Members'
  <2>1. /\ UNCHANGED raw_offset /\ \A v \in Workers \ {w} : working'[v] = working[v]
        /\ w \in threads
    <3>1. CASE TakeWork(w)
      BY <1>0, <3>1 DEF TakeWork, producer
    <3>2. CASE FinishWork(w) \/ WorkerDiskError(w)
      BY <1>0, <3>2 DEF FinishWork, WorkerDiskError, producer, Members, Busy
    <3>3. QED BY <1>7, <3>1, <3>2
  <2>2. QED BY <1>0, <2>1 DEF Members, Busy, threads
<1>8. QED BY <1>3, <1>4, <1>5, <1>6, <1>7 DEF Next, MainThread, Worker

RefInv == TypeInv /\ Frontier /\ GateInv /\ Places /\ Members

Status == [p \in Offsets |-> PageStatus(p)]

\* FiniteSets as PageScan sees it.
LEMMA SameCardinality == \A S : Abstract!Cardinality(S) = Cardinality(S)
BY DEF Abstract!Cardinality, Cardinality, Abstract!IsFiniteSet, IsFiniteSet

\* A step of one page is a move of PageScan.
LEMMA OneMoves ==
  ASSUME NEW p \in Offsets, NEW from, NEW to,
         PageStatus(p) = from, PageStatus(p)' = to, UNCHANGED options,
         \A q \in Offsets \ {p} : PageStatus(q)' = PageStatus(q)
  PROVE  /\ Status[p] = from /\ Status' = [Status EXCEPT ![p] = to]
         /\ Cardinality(threads)' = Cardinality(threads)
<1>1. Status[p] = from /\ Cardinality(threads)' = Cardinality(threads)
  BY DEF Status, threads
<1>2. Status' = [Status EXCEPT ![p] = to]
  BY DEF Status
<1>3. QED BY <1>1, <1>2

LEMMA NothingMoves ==
  ASSUME UNCHANGED <<queue, working, scheduled, options>>,
         \A p \in scheduled : p \in work_stop' <=> p \in work_stop,
         \A p \in Offsets \ scheduled : p \in exceptions' <=> p \in exceptions
  PROVE  UNCHANGED <<Status, Cardinality(threads)>>
<1>1. \A p \in Offsets : PageStatus(p)' = PageStatus(p)
  BY DEF PageStatus, Busy
<1>2. QED BY <1>1 DEF Status, threads

\* The fate of a page, by where it is.
LEMMA FateLemma ==
  ASSUME Places, NEW p
  PROVE  /\ p \in Range(queue) => PageStatus(p) = "waiting" /\ p \in scheduled
         /\ \A w \in Busy : working[w] = p => PageStatus(p) = "scanning" /\ p \in scheduled
         /\ p \notin Passed => PageStatus(p) = "pending"
BY DEF Places, OnePlace, PageStatus, Passed

LEMMA WaitingFewer ==
  ASSUME TypeInv, ~QueueIsDeep
  PROVE  Cardinality({p \in Offsets : Status[p] = "waiting"}) <= Cardinality(threads)
<1> DEFINE W == {p \in Offsets : Status[p] = "waiting"}
<1>1. queue \in Seq(Nat) /\ Len(queue) \in Nat /\ DOMAIN queue = 1 .. Len(queue)
  BY DEF TypeInv, TypeOK
<1>2. W \in SUBSET Range(queue)
  BY DEF Status, PageStatus
<1>3. IsFiniteSet(Range(queue)) /\ Cardinality(Range(queue)) <= Len(queue)
  <2>1. queue \in Surjection(1 .. Len(queue), Range(queue))
    BY <1>1 DEF Range, Surjection
  <2>2. IsFiniteSet(1 .. Len(queue)) /\ Cardinality(1 .. Len(queue)) = Len(queue)
    BY <1>1, FS_Interval, SMTT(60)
  <2>3. QED BY <2>1, <2>2, FS_Surjection
<1>4. Cardinality(W) <= Cardinality(Range(queue)) /\ Cardinality(W) \in Nat
      /\ Cardinality(Range(queue)) \in Nat
  BY <1>2, <1>3, FS_Subset, FS_CardinalityType
<1>5. Len(queue) <= Cardinality(threads) /\ Cardinality(threads) \in Nat
  BY <1>1, WorkerCount DEF QueueIsDeep, depth0_sbufs_in_queue, get_worker_count, TypeInv, TypeOK
<1>6. QED BY <1>1, <1>3, <1>4, <1>5

LEMMA ScanningFewer ==
  ASSUME RefInv, NEW w \in threads, w \notin Busy
  PROVE  Cardinality({p \in Offsets : Status[p] = "scanning"}) < Cardinality(threads)
<1> DEFINE S == {p \in Offsets : Status[p] = "scanning"}
           Pages == {working[v] : v \in Busy}
           f == [v \in Busy |-> working[v]]
<1>1. IsFiniteSet(threads) /\ Cardinality(threads) \in Nat
  BY ConfigAssumption, OptionsLemma, FS_Subset, FS_CardinalityType DEF RefInv, TypeInv, TypeOK
<1>2. Busy \in SUBSET (threads \ {w})
  BY DEF RefInv, Members
<1>3. IsFiniteSet(threads \ {w}) /\ Cardinality(threads \ {w}) = Cardinality(threads) - 1
  BY <1>1, FS_RemoveElement
<1>4. IsFiniteSet(Busy) /\ Cardinality(Busy) <= Cardinality(threads) - 1 /\ Cardinality(Busy) \in Nat
  BY <1>2, <1>3, FS_Subset, BusyIsFinite
<1>5. f \in Surjection(Busy, Pages)
  BY DEF Surjection
<1>6. IsFiniteSet(Pages) /\ Cardinality(Pages) <= Cardinality(Busy)
  BY <1>4, <1>5, FS_Surjection
<1>7. S \in SUBSET Pages
  BY DEF Status, PageStatus
<1>8. Cardinality(S) <= Cardinality(Pages) /\ Cardinality(S) \in Nat /\ Cardinality(Pages) \in Nat
  BY <1>6, <1>7, FS_Subset, FS_CardinalityType
<1>9. QED BY <1>1, <1>4, <1>6, <1>8

LEMMA RefinesInit == Fresh => Abstract!Init
<1> SUFFICES ASSUME Fresh PROVE Abstract!Init
  OBVIOUS
<1>1. \A p \in Offsets : PageStatus(p) = "pending"
  BY DEF Fresh, PageStatus, Busy, Range
<1>2. Cardinality(threads) \in Nat
  BY WorkerCount DEF Fresh, get_worker_count
<1>3. QED BY <1>1, <1>2 DEF Abstract!Init

LEMMA RefinesNext == RefInv /\ [Next]_vars => [Abstract!Next]_<<Status, Cardinality(threads)>>
<1> SUFFICES ASSUME RefInv, [Next]_vars PROVE Abstract!Next \/ UNCHANGED <<Status, Cardinality(threads)>>
  OBVIOUS
<1>0. /\ queue \in Seq(Nat) /\ working \in [Workers -> Nat \cup {Idle}] /\ raw_offset \in Offsets
      /\ options' = options /\ Frontier /\ TypeInv /\ Places
  BY SameOptions DEF RefInv, Members, TypeInv, TypeOK
<1>1. \A p \in scheduled : p \in Offsets
  <2>1. 0 .. (raw_filesize + opt_scan_start) \subseteq Offsets /\ opt_scan_start \in Nat
    BY <1>0, OptionsLemma DEF Offsets, opt_scan_start, TypeInv, TypeOK
  <2>2. \A p \in scheduled : p \in Nat /\ p < raw_filesize
    BY <1>0 DEF Frontier, TypeInv, TypeOK
  <2>3. QED BY <2>1, <2>2, FileListAssumption
<1> USE DEF NoSideEffects, given, hashing, pool, tags
<1>2. CASE \/ StartReading \/ RefuseSample \/ LoopHead \/ ReadPage \/ NextPage \/ Join \/ WriteSource
           \/ Terminated
           \/ UNCHANGED vars
  <2>1. UNCHANGED <<queue, working, scheduled, work_stop, exceptions>>
    BY <1>2
    DEF StartReading, RefuseSample, LoopHead, EndLoop, ExitOnDiskError, StopAtScanEnd, WaitForWorkers, PassOver,
        BeginRead, ReadPage, NextPage, Join, WriteSource, Terminated, vars, producer
  <2>2. QED BY <1>0, <2>1, NothingMoves
<1>3. ASSUME NEW p \in seen_page_ids, RecordSeen(p) PROVE UNCHANGED <<Status, Cardinality(threads)>>
  <2>1. scheduled = {} /\ UNCHANGED <<queue, working, scheduled, exceptions>>
    BY <1>0, <1>3 DEF RecordSeen, producer, Frontier, Passed
  <2>2. QED BY <1>0, <2>1, NothingMoves
<1>4. CASE BadAlloc \/ ReadNothing \/ \E i \in Part : ReadFails(i)
  <2>p. PICK p \in Offsets : p = raw_offset
    BY <1>0
  <2>1. /\ pc = "get_sbuf" /\ UNCHANGED <<queue, working, scheduled, work_stop>>
        /\ exceptions' \in {exceptions, exceptions \cup {p}}
    BY <1>4, <2>p DEF BadAlloc, ReadNothing, ReadFails, CanAllocate, SkipPage
  <2>2. p \notin Passed
    BY <1>0, <2>p, <2>1, NotYetScheduled
  <2>3. CASE exceptions' = exceptions
    BY <1>0, <2>1, <2>3, NothingMoves
  <2>4. CASE exceptions' = exceptions \cup {p}
    <3>1. PageStatus(p) = "pending"
      BY <1>0, <2>2, FateLemma
    <3>2. PageStatus(p)' = "skipped"
      BY <2>1, <2>2, <2>4, <3>1 DEF PageStatus, Busy, Passed
    <3>3. \A q \in Offsets \ {p} : PageStatus(q)' = PageStatus(q)
      BY <2>1, <2>4 DEF PageStatus, Busy
    <3>4. Abstract!Skip(p)
      BY <1>0, <3>1, <3>2, <3>3, OneMoves DEF Abstract!Skip, Abstract!Move, Status
    <3>5. QED BY <1>0, <3>4 DEF Abstract!Next
  <2>5. QED BY <2>1, <2>3, <2>4
<1>5. CASE ScheduleSbuf
  <2>p. PICK p \in Offsets : p = raw_offset
    BY <1>0
  <2>1. /\ pc = "schedule" /\ queue' = Append(queue, p)
        /\ scheduled' = scheduled \cup {p}
        /\ UNCHANGED <<working, work_stop, exceptions>>
    BY <1>5, <2>p DEF ScheduleSbuf, CountAndHash
  <2>2. p \notin Passed /\ Range(queue') = Range(queue) \cup {p}
    BY <1>0, <2>p, <2>1, NotYetScheduled, RangeOfAppend, OptionsLemma
  <2>3. PageStatus(p) = "pending" /\ PageStatus(p)' = "waiting"
    BY <1>0, <2>2, FateLemma DEF PageStatus
  <2>4. \A q \in Offsets \ {p} : PageStatus(q)' = PageStatus(q)
    BY <2>1, <2>2 DEF PageStatus, Busy
  <2>5. Abstract!Move(p, "pending", "waiting")
    BY <1>0, <2>3, <2>4, OneMoves DEF Abstract!Move, Status
  <2>6. Cardinality(Abstract!With("waiting")) <= Cardinality(threads)
    BY <1>0, <2>1, WaitingFewer DEF Abstract!With, Status, RefInv, GateInv
  <2>7. Abstract!Hand(p)
    BY <2>5, <2>6, SameCardinality DEF Abstract!Hand
  <2>8. QED BY <2>7 DEF Abstract!Next
<1>6. CASE ScanInline \/ ScanInlineFails
  <2>p. PICK p \in Offsets : p = raw_offset
    BY <1>0
  <2>1. /\ pc = "schedule" /\ threads = {} /\ scheduled' = scheduled \cup {p}
        /\ UNCHANGED <<queue, working>>
        /\ \/ work_stop' = work_stop \cup {p} /\ UNCHANGED exceptions
           \/ UNCHANGED work_stop /\ exceptions' = exceptions \cup {p}
    BY <1>6, <2>p DEF ScanInline, ScanInlineFails, CountAndHash
  <2>2. p \notin Passed
    BY <1>0, <2>p, <2>1, NotYetScheduled
  <2>3. PageStatus(p) = "pending"
    BY <1>0, <2>2, FateLemma
  <2>4. p \notin Range(queue) /\ \A v \in Busy : working[v] # p
    BY <1>0, <2>2 DEF Places, OnePlace, Passed
  <2>5. PageStatus(p)' \in {"scanned", "lost"}
    BY <2>1, <2>4 DEF PageStatus, Busy
  <2>6. \A q \in Offsets \ {p} : PageStatus(q)' = PageStatus(q)
    BY <2>1 DEF PageStatus, Busy
  <2>7. PICK fate \in {"scanned", "lost"} : PageStatus(p)' = fate
    BY <2>5
  <2>8. Abstract!Move(p, "pending", fate)
    BY <1>0, <2>3, <2>6, <2>7, OneMoves DEF Abstract!Move, Status
  <2>9. Cardinality(threads) = 0
    BY <2>1, FS_EmptySet
  <2>10. QED BY <1>0, <2>8, <2>9 DEF Abstract!Next, Abstract!Inline
<1>7. ASSUME NEW w \in Workers, TakeWork(w) PROVE Abstract!Next
  <2>p. PICK p \in Nat : p = Head(queue)
    BY <1>0, <1>7, RangeOfTail DEF TakeWork
  <2>1. /\ queue # << >> /\ working[w] = Idle /\ w \in threads
        /\ UNCHANGED <<scheduled, work_stop, exceptions>>
        /\ queue' = Tail(queue) /\ working' = [working EXCEPT ![w] = p]
    BY <1>7, <2>p DEF TakeWork, producer
  <2>2. /\ p \in Range(queue) /\ Range(queue) = Range(queue') \cup {p}
    BY <1>0, <2>1, <2>p, RangeOfTail
  <2>3. p \notin Range(queue')
    <3>1. \A i, j \in DOMAIN queue : queue[i] = queue[j] => i = j
      BY <1>0 DEF Places, OnePlace
    <3>2. /\ p = queue[1] /\ 1 \in DOMAIN queue
          /\ \A i \in DOMAIN queue' : i + 1 \in DOMAIN queue /\ i + 1 # 1 /\ queue'[i] = queue[i + 1]
      BY <1>0, <2>1, <2>p
    <3>3. QED BY <3>1, <3>2 DEF Range
  <2>4. working'[w] = p /\ Busy' = Busy \cup {w} /\ w \notin Busy
        /\ \A v \in Busy : working'[v] = working[v]
    BY <1>0, <2>1, <2>2 DEF Busy, Idle
  <2>5. PageStatus(p) = "waiting" /\ p \in scheduled
    BY <1>0, <2>2, FateLemma
  <2>6. PageStatus(p)' = "scanning"
    BY <2>3, <2>4 DEF PageStatus
  <2>7. ASSUME NEW q \in Offsets \ {p} PROVE PageStatus(q)' = PageStatus(q)
    <3>1. q \in Range(queue') <=> q \in Range(queue)
      BY <2>2
    <3>2. (\E v \in Busy' : working'[v] = q) <=> (\E v \in Busy : working[v] = q)
      BY <2>4
    <3>3. QED BY <2>1, <3>1, <3>2 DEF PageStatus
  <2>8. Abstract!Move(p, "waiting", "scanning")
    BY <1>0, <1>1, <2>5, <2>6, <2>7, OneMoves DEF Abstract!Move, Status
  <2>9. Cardinality(Abstract!With("scanning")) < Cardinality(threads)
    BY <2>1, <2>4, ScanningFewer DEF Abstract!With, Status
  <2>10. Abstract!Take(p)
    BY <2>8, <2>9, SameCardinality DEF Abstract!Take
  <2>11. QED BY <1>1, <2>5, <2>10 DEF Abstract!Next
<1>8. ASSUME NEW w \in Workers, FinishWork(w) \/ WorkerDiskError(w) PROVE Abstract!Next
  <2>p. PICK p \in Nat : p = working[w]
    BY <1>0, <1>8 DEF FinishWork, WorkerDiskError, Idle
  <2>1. /\ working[w] # Idle /\ working' = [working EXCEPT ![w] = Idle]
        /\ UNCHANGED <<queue, scheduled, exceptions>>
        /\ work_stop' = work_stop \cup {p} \/ UNCHANGED work_stop
    BY <1>8, <2>p DEF FinishWork, WorkerDiskError, producer
  <2>2. Busy' = Busy \ {w} /\ w \in Busy /\ \A v \in Busy' : working'[v] = working[v]
    BY <1>0, <2>1 DEF Busy
  <2>3. /\ p \notin Range(queue) \cup work_stop /\ p \in scheduled
        /\ \A v \in Busy \ {w} : working[v] # p
    BY <1>0, <2>2, <2>p DEF Places, OnePlace
  <2>4. PageStatus(p) = "scanning"
    BY <1>0, <2>2, <2>p, FateLemma
  <2>5. PageStatus(p)' \in {"scanned", "lost"}
    BY <2>1, <2>2, <2>3 DEF PageStatus
  <2>6. ASSUME NEW q \in Offsets \ {p} PROVE PageStatus(q)' = PageStatus(q)
    <3>1. (\E v \in Busy' : working'[v] = q) <=> (\E v \in Busy : working[v] = q)
      BY <2>2, <2>6, <2>p
    <3>2. QED BY <2>1, <3>1 DEF PageStatus
  <2>7. PICK fate \in {"scanned", "lost"} : PageStatus(p)' = fate
    BY <2>5
  <2>8. Abstract!Move(p, "scanning", fate)
    BY <1>0, <1>1, <2>3, <2>4, <2>6, <2>7, OneMoves DEF Abstract!Move, Status
  <2>9. QED BY <1>1, <2>3, <2>8 DEF Abstract!Next, Abstract!Settle
<1>9. QED
  BY <1>2, <1>3, <1>4, <1>5, <1>6, <1>7, <1>8 DEF Next, MainThread, Worker

\* Whatever the reader and the workers do, each page goes the way PageScan allows.
THEOREM Implements == Spec => ImplementsPageScan
<1>1. RefInv /\ [Next]_vars => [Abstract!Next]_<<[p \in Offsets |-> PageStatus(p)], Cardinality(threads)>>
  BY RefinesNext DEF Status
<1>2. Spec => []RefInv
  BY FreshStart, TypeInit, TypeNext, FrontierInit, FrontierNext, GateInit, GateNext, PlacesInit, PlacesNext,
     MembersInit, MembersNext, PTL DEF Spec, RefInv
<1>3. QED
  BY FreshStart, RefinesInit, <1>1, <1>2, PTL DEF Spec, ImplementsPageScan, Abstract!Spec

-----------------------------------------------------------------------------
(* The runs of a scan that is restarted: the proofs above are of one run.   *)

\* A run that is started again begins like the first one, but for the pages it is told of.
LEMMA RestartIsFresh ==
  ASSUME TypeInv, NEW read \in OnDisk(work_start), RestartFrom(read)
  PROVE  Fresh'
<1>1. read \in SUBSET Nat
  BY DEF OnDisk, TypeInv, TypeOK
<1>2. options' \in OptionChoices
  BY DEF RestartFrom, TypeInv, TypeOK
<1>3. QED BY <1>1, <1>2 DEF RestartFrom, Fresh

\* What holds of one run holds of all of them: every run is a run of Phase1.
RunInv == TypeInv /\ Frontier /\ GateInv /\ Places /\ Members /\ Covered /\ Settled /\ DigestInv

LEMMA RunFresh == Fresh => RunInv
BY TypeInit, FrontierInit, GateInit, PlacesInit, MembersInit, CoveredInit, SettledInit, DigestInit
DEF RunInv

LEMMA RunNext == RunInv /\ [Next]_vars => RunInv'
BY TypeNext, FrontierNext, GateNext, PlacesNext, MembersNext, CoveredNext, SettledNext, DigestNext
DEF RunInv

LEMMA RunsInit == RInit => RunInv
BY FreshStart, RunFresh DEF RInit

LEMMA RunsNext == RunInv /\ [RNext]_rvars => RunInv'
<1> SUFFICES ASSUME RunInv, [RNext]_rvars PROVE RunInv'
  OBVIOUS
<1>1. CASE Run \/ UNCHANGED rvars
  BY <1>1, RunNext DEF Run, rvars
<1>2. ASSUME NEW read \in OnDisk(work_start), RestartFrom(read) PROVE Fresh'
  BY <1>2, RestartIsFresh DEF RunInv
<1>3. Fresh' => RunInv'
  BY RunFresh, PTL
<1>4. QED BY <1>1, <1>2, <1>3 DEF RNext, StartAgain

-----------------------------------------------------------------------------
(* What the runs have to show for the pages *)

\* Of a page that is passed over because an earlier run had it, that run finished it or
\* was interrupted in it; of a page of this run a worker took, work_start tells.
Ledger ==
  /\ seen_page_ids \subseteq completed \cup interrupted
  /\ exceptions \subseteq skipped
  /\ scheduled \cap work_stop \subseteq completed
  /\ scheduled \subseteq Range(queue) \cup work_start

LEMMA LedgerInit == RInit => Ledger
<1> SUFFICES ASSUME RInit PROVE Ledger
  OBVIOUS
<1>1. seen_page_ids = {} /\ exceptions = {} /\ scheduled = {}
  BY RestartAssumption DEF RInit, Init
<1>2. QED BY <1>1 DEF Ledger

\* A page handed over goes to the queue, and leaves it with a work_start tag.
LEMMA TagsNext ==
  ASSUME TypeInv, [Next]_vars, scheduled \subseteq Range(queue) \cup work_start
  PROVE  scheduled' \subseteq Range(queue') \cup work_start' /\ seen_page_ids' = seen_page_ids
<1>0. queue \in Seq(Nat) /\ raw_offset \in Nat
  BY DEF TypeInv, TypeOK
<1> USE DEF NoSideEffects, given, hashing, pool, tags
<1>1. CASE ScheduleSbuf
  <2>1. /\ queue' = Append(queue, raw_offset) /\ scheduled' = scheduled \cup {raw_offset}
        /\ UNCHANGED <<work_start, seen_page_ids>>
    BY <1>1 DEF ScheduleSbuf, CountAndHash
  <2>2. QED BY <1>0, <2>1, RangeOfAppend
<1>2. CASE ScanInline \/ ScanInlineFails
  BY <1>2 DEF ScanInline, ScanInlineFails, CountAndHash
<1>3. ASSUME NEW w \in Workers, TakeWork(w) PROVE scheduled' \subseteq Range(queue') \cup work_start'
  <2>1. /\ queue # << >> /\ queue' = Tail(queue) /\ work_start' = work_start \cup {Head(queue)}
        /\ UNCHANGED scheduled
    BY <1>3 DEF TakeWork, producer
  <2>2. Range(queue) = Range(queue') \cup {Head(queue)}
    BY <1>0, <2>1, RangeOfTail
  <2>3. QED BY <2>1, <2>2
<1>4. ASSUME NEW w \in Workers, TakeWork(w) \/ FinishWork(w) \/ WorkerDiskError(w)
      PROVE  seen_page_ids' = seen_page_ids
  BY <1>4 DEF TakeWork, FinishWork, WorkerDiskError, producer
<1>5. ASSUME NEW w \in Workers, FinishWork(w) \/ WorkerDiskError(w)
      PROVE  scheduled' \subseteq Range(queue') \cup work_start'
  BY <1>5 DEF FinishWork, WorkerDiskError, producer
<1>6. ASSUME NEW p \in seen_page_ids, RecordSeen(p)
      PROVE  scheduled' \subseteq Range(queue') \cup work_start' /\ seen_page_ids' = seen_page_ids
  BY <1>6 DEF RecordSeen, producer
<1>7. CASE \/ StartReading \/ RefuseSample \/ LoopHead \/ BadAlloc \/ ReadNothing
           \/ (\E i \in Part : ReadFails(i))
           \/ ReadPage \/ NextPage \/ Join \/ WriteSource \/ Terminated \/ UNCHANGED vars
  <2>1. UNCHANGED <<queue, scheduled, work_start, seen_page_ids>>
    BY <1>7
    DEF StartReading, RefuseSample, LoopHead, EndLoop, ExitOnDiskError, StopAtScanEnd, WaitForWorkers, PassOver,
        BeginRead, BadAlloc, ReadNothing, ReadFails, ReadPage, NextPage, Join, WriteSource, Terminated,
        vars, producer
  <2>2. QED BY <2>1
<1>8. QED BY <1>1, <1>2, <1>3, <1>4, <1>5, <1>6, <1>7 DEF Next, MainThread, Worker

LEMMA LedgerNext == RunInv /\ Ledger /\ [RNext]_rvars => Ledger'
<1> SUFFICES ASSUME RunInv, Ledger, [RNext]_rvars PROVE Ledger'
  OBVIOUS
<1>1. CASE Run
  <2>1. scheduled' \subseteq Range(queue') \cup work_start' /\ seen_page_ids' = seen_page_ids
    BY <1>1, TagsNext DEF Run, RunInv, Ledger
  <2>2. QED BY <1>1, <2>1 DEF Run, Ledger
<1>2. CASE StartAgain
  <2>1. PICK read \in OnDisk(work_start) : RestartFrom(read)
    BY <1>2 DEF StartAgain
  <2>2. read \subseteq work_start
    BY DEF OnDisk
  <2>3. work_start \subseteq scheduled \cup seen_page_ids
    BY DEF RunInv, Places
  <2>4. ASSUME NEW p \in read PROVE p \in completed \cup interrupted'
    <3>1. CASE p \in seen_page_ids
      BY <2>1, <3>1 DEF Ledger, RestartFrom
    <3>2. CASE p \in scheduled /\ p \in work_stop
      BY <3>2 DEF Ledger
    <3>3. CASE p \in scheduled /\ p \notin work_stop
      BY <2>1, <2>2, <2>4, <3>3 DEF RestartFrom, Unfinished
    <3>4. QED BY <2>2, <2>3, <2>4, <3>1, <3>2, <3>3
  <2>5. QED BY <2>1, <2>4 DEF RestartFrom, Ledger
<1>3. CASE UNCHANGED rvars
  BY <1>3 DEF rvars, vars, producer, given, hashing, pool, tags, Ledger
<1>4. QED BY <1>1, <1>2, <1>3 DEF RNext

\* However often the program is killed and started again, and whatever of a report is
\* lost with it: the run that gets to the end leaves no page asked for behind, but those a
\* worker had in hand when a run ended.
THEOREM OnlyInterruptedLost == RSpec => []OnlyInterruptedPagesLost
<1>1. RunInv /\ Ledger => OnlyInterruptedPagesLost
  <2> SUFFICES ASSUME RunInv, Ledger, pc = "done", ~sampling, NEW p \in Requested
               PROVE  p \in completed \cup skipped \cup interrupted \cup Unfinished
    BY DEF OnlyInterruptedPagesLost
  <2>1. p \in seen_page_ids \cup exceptions \cup scheduled
    BY DEF RunInv, Covered, Handled
  <2>2. Range(queue) = {}
    BY DEF RunInv, Settled, Range
  <2>3. QED BY <2>1, <2>2 DEF Ledger, Unfinished
<1>2. QED BY RunsInit, RunsNext, LedgerInit, LedgerNext, <1>1, PTL DEF RSpec

\* Restarts take nothing from what is proved of one run.
THEOREM RunsKeepTheirPromises ==
  RSpec => [](TypeOK /\ QueueBound /\ OnePlace /\ DigestMatchesPages /\ AllPagesAccounted)
<1>1. RunInv => TypeOK /\ QueueBound /\ OnePlace /\ DigestMatchesPages /\ AllPagesAccounted
  <2>1. RunInv => AllPagesAccounted
    BY AccountedAtEnd DEF RunInv
  <2>2. QED BY <2>1 DEF RunInv, TypeInv, GateInv, Places, DigestInv
<1>2. QED BY RunsInit, RunsNext, <1>1, PTL DEF RSpec

=============================================================================
