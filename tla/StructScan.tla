------------------------------ MODULE StructScan ------------------------------
(***************************************************************************)
(* The scanners that follow the offsets of a file's own header: scan_winpe *)
(* scan_elf, scan_windirs (FAT directories and MFT records), scan_winlnk   *)
(* and scan_winprefetch.  A cell is a record [is, ...]: a header, an entry *)
(* of one of its tables, or something a table points to; offsets in a file *)
(* count cells.                                                            *)
(***************************************************************************)
EXTENDS SbufWalk, SequencesExt

CONSTANTS
  PE_STUB,               \* 0x40 bytes: up to the offset of the PE header
  DLL_NAME,              \* 32 bytes
  WORD, GIB,             \* 2^32 and 2^30 bytes
  sht_null_counter_max,  \* 10
  DENTRIES,              \* 16 directory entries of a sector
  SMALLEST_LNK_FILE,     \* 150 bytes
  PREFETCH_HEAD          \* 8 bytes

ASSUME StructAssumption ==
  /\ PE_STUB \in Nat /\ DLL_NAME \in Nat /\ WORD \in Nat \ {0} /\ GIB \in Nat /\ sht_null_counter_max \in Nat
  /\ DENTRIES \in Nat \ {0} /\ SMALLEST_LNK_FILE \in Nat \ {0} /\ PREFETCH_HEAD \in Nat

NoStruct == [is |-> "none"]
Head4k(kind) == <<Slice(kind, pos, 0)>>     \* a feature at pos
Collect(Found(_), n) == FlattenSeq([i \in 1 .. n |-> Found(i - 1)])
Visible(offset, n) == {i \in 0 .. n - 1 : pos + offset + i < bufsize}
FirstOf(S) == CHOOSE i \in S : \A j \in S : i <= j
LastOf(S) == CHOOSE i \in S : \A j \in S : i >= j

-----------------------------------------------------------------------------
(* winpe: [is |-> "PE", ok, head, imports, cert, table, n] stands for the stub and *)
(* the headers that follow it; head cells must be there; imports is the address of *)
(* the import directory, or -1; cert the end of the certificates; the n section    *)
(* headers are at table.  Their cells: [is |-> "section", fit, named, va, from,    *)
(* size]; those of an import: [is |-> "import", rva], and of a name: "dll", "bad". *)

Zeros == [fit |-> TRUE, named |-> FALSE, va |-> 0, from |-> 0, size |-> 0]
PeSections(pe) ==
  [i \in 1 .. Cardinality(Visible(pe.table, pe.n)) |->
     LET c == Cell(pos + pe.table + i - 1, NoStruct) IN IF c.is = "section" THEN c ELSE Zeros]

\* The loop over the sections ends at flags or sizes that cannot be, and gives up the
\* imports, too, at a name that is none.
Fit(s) == s.fit /\ s.named
shi(pe, sections) ==
  LET listed == {i \in DOMAIN sections : \A j \in 1 .. i : Fit(sections[j])}
      end == Cardinality(listed) + 1
  IN  IF end \in DOMAIN sections /\ sections[end].fit THEN <<>>
      ELSE SelectSeq(SubSeq(sections, 1, end - 1), LAMBDA s : s.va <= pe.imports /\ pe.imports < s.va + s.size)

\* The import table is in the last of these, and ends with the sbuf or an empty entry.
import_table(pe, holders) ==
  IF holders = <<>> THEN <<>>
  ELSE LET k == pos + Last(holders).from + pe.imports - Last(holders).va IN
       SubSeq(image.cells, WalkStart + k + 1,
              WalkStart + FirstOf({e \in k .. k + bufsize : Cell(e, NoStruct).is # "import"}))

\* The places of the names, as far as they are valid.
NamePlace(section, rva) == section.from + rva - section.va
dll_names(sections, idt) ==
  FlattenSeq([j \in DOMAIN idt |->
    LET holds(s) == s.va < idt[j].rva /\ idt[j].rva < s.va + s.size
        inside(s) == NamePlace(s, idt[j].rva) + DLL_NAME < bufsize - pos
        found == {i \in DOMAIN sections : holds(sections[i]) /\ \A k \in 1 .. i : holds(sections[k]) => inside(sections[k])} IN
    FlattenSeq([i \in DOMAIN sections |-> IF i \in found THEN <<NamePlace(sections[i], idt[j].rva)>> ELSE <<>>])])
dlls(names) ==
  LET valid == {i \in DOMAIN names : \A j \in 1 .. i : Cell(pos + names[j], NoStruct).is = "dll"}
  IN  [i \in 1 .. Cardinality(valid) |-> Slice("dll", pos + names[i], 1)]

\* Mutant: the size of the last section is taken for its end.
carve_end_Size(section) == section.size % WORD
carve_end(section) == (section.from + section.size) % WORD

get_carve_size(pe, sections) ==
  LET end == LastOf({pe.cert} \cup {carve_end(sections[i]) : i \in DOMAIN sections}) IN IF end > GIB THEN 0 ELSE end

WinpeStep ==
  /\ In("winpe")
  /\ LET pe == Cell(pos, NoStruct) IN
     IF pos >= pagesize \/ bufsize - pos < PE_STUB THEN LeavePage /\ Silent
     ELSE /\ MoveTo(pos + 1) /\ UNCHANGED memo
          /\ IF pe.is = "PE" /\ pos + pe.head <= bufsize /\ pe.ok
             THEN \E sections \in {PeSections(pe)} : \E holders \in {shi(pe, sections)} :
                  \E idt \in {import_table(pe, holders)} : \E names \in {dll_names(sections, idt)} :
                    reports' = reports \o Head4k("winpe") \o dlls(names)
                                       \o <<Slice("winpe_carved", pos, get_carve_size(pe, sections))>>
             ELSE Silent

-----------------------------------------------------------------------------
(* elf: [is |-> "ELF", ok, shoff, n, strndx]; a section header is [is |-> "shdr",  *)
(* type, long, addr, from, size, entries]: entries is 0 if its size or the size of *)
(* its entries is, long says that its name is; an entry is [is |-> "dyn", tag, val] *)

NoShdr == [type |-> "null", long |-> FALSE, addr |-> 0, from |-> 0, size |-> 0, entries |-> 0]
Shdr(elf, i) == LET c == Cell(pos + elf.shoff + i, NoStruct) IN IF c.is = "shdr" THEN c ELSE NoShdr
Shdrs(elf) == Visible(elf.shoff, elf.n)

\* The objects that a dynamic section needs: the places of their names.
scan_elf_dynamic_needed(elf, shdr) ==
  LET dyn(i) == LET c == Cell(pos + shdr.from + i, NoStruct) IN IF c.is = "dyn" THEN c ELSE [tag |-> "other", val |-> 0]
      entries == Visible(shdr.from, shdr.entries)
      strtabs == {i \in entries : dyn(i).tag = "strtab"}
      addr == IF strtabs = {} THEN 0 ELSE dyn(FirstOf(strtabs)).val
      holders == {i \in Shdrs(elf) : Shdr(elf, i).addr <= addr /\ addr < Shdr(elf, i).addr + Shdr(elf, i).size}
  IN  IF addr = 0 \/ holders = {} THEN {}
      ELSE {pos + Shdr(elf, FirstOf(holders)).from + dyn(i).val : i \in {i \in entries : dyn(i).tag = "needed"}}

\* The names are looked at if the section that holds them is described in the sbuf.
scan_elf_verify(elf) ==
  /\ elf.ok /\ elf.strndx <= elf.n
  /\ Cardinality({i \in Shdrs(elf) : Shdr(elf, i).type = "null"}) <= sht_null_counter_max
  /\ \A i \in Shdrs(elf) :
       /\ Shdr(elf, i).type = "dynamic" => Shdr(elf, i).entries > 0
       /\ Shdr(elf, i).long => pos + elf.shoff + elf.strndx >= bufsize

\* The loop goes on through the margin.  (A name behind the sbuf is empty.)
ElfStep ==
  /\ In("elf")
  /\ LET elf == Cell(pos, NoStruct)
         needed == {scan_elf_dynamic_needed(elf, Shdr(elf, i)) : i \in {i \in Shdrs(elf) : Shdr(elf, i).type = "dynamic"}} IN
     IF pos >= bufsize THEN LeavePage /\ Silent
     ELSE /\ MoveTo(pos + 1) /\ UNCHANGED memo
          /\ IF elf.is = "ELF" /\ scan_elf_verify(elf)
             THEN \E places \in {{k \in UNION needed : k < bufsize}} :
                    reports' = reports \o Head4k("elf") \o [i \in 1 .. Cardinality(places) |-> Slice("so", SetToSortSeq(places, <)[i], 1)]
             ELSE Silent

-----------------------------------------------------------------------------
(* windirs: a cell [is |-> "dentry", kind], of kind "valid", "future" (one with a  *)
(* date in the years to come), "lfn", "last", "null" or "invalid"                  *)

NoDentry == [is |-> "dentry", kind |-> "null"]
Dentry(i) == Cell(pos + i, NoDentry).kind

\* A sector that is a directory as far as its first entry that is not.
FatStep ==
  /\ In("fat")
  /\ LET stop == FirstOf({i \in 0 .. DENTRIES : i = DENTRIES \/ Dentry(i) \in {"null", "invalid", "last"}})
         last_valid_entry_number == IF stop < DENTRIES /\ Dentry(stop) = "last" THEN stop ELSE stop - 1
         dentries == {i \in 0 .. stop - 1 : Dentry(i) \in {"valid", "future"}}
         valid_years == {i \in dentries : Dentry(i) = "valid"}
         directory == /\ dentries # {}
                      /\ valid_years # {} \/ (Cardinality(dentries) # 1 /\ last_valid_entry_number # 1) IN
     IF pos >= pagesize \/ pos + DENTRIES > bufsize THEN LeavePage /\ Silent
     ELSE /\ MoveTo(pos + DENTRIES) /\ UNCHANGED memo
          /\ reports' = reports \o (IF directory THEN Collect(LAMBDA i : IF i \in dentries THEN <<Slice("dentry", pos + i, 1)>> ELSE <<>>, DENTRIES)
                                   ELSE <<>>)

(* a sector [is |-> "MFT", linked, attrs] begins an MFT record of two; an attribute *)
(* is "fname", "huge" (a name whose size cannot be), "si", "objid", "other" (not     *)
(* resident, or of no interest), "end" (of length 0), "beyond" (reads behind the     *)
(* record)                                                                           *)

MftRead(attrs) == {attrs[i] : i \in {i \in DOMAIN attrs : \A j \in 1 .. i - 1 : attrs[j] \notin {"end", "huge", "beyond"}}}

MftStep ==
  /\ In("mft")
  /\ LET mft == Cell(pos, NoStruct)
         read == MftRead(mft.attrs) IN
     IF pos >= pagesize THEN LeavePage /\ Silent
     ELSE /\ MoveTo(pos + 1) /\ UNCHANGED memo
          /\ IF pos + 2 > bufsize \/ mft.is # "MFT" THEN Silent
             ELSE IF ~mft.linked \/ "beyond" \in read \/ read \cap {"fname", "huge", "si", "objid"} = {} THEN Silent
             ELSE Report(IF "fname" \in read THEN "filename" ELSE "$NOFILENAME", pos, 2)

-----------------------------------------------------------------------------
(* winlnk: a cell [is |-> "LNK", fields] begins a link, with the fields of its      *)
(* LinkInfo that its flags name, in the order they are read: [name, at, text], at   *)
(* cells behind it; text says that they are not empty                               *)

Priority == <<"local_base_path", "local_base_path_unicode", "common_path_suffix", "common_path_suffix_unicode",
              "net_name", "net_name_unicode", "device_name", "device_name_unicode", "volume_label">>

\* What is behind the sbuf cannot be read and ends the reading.  A link that was read to
\* its end is reported without its path: read_ShellLinkHeader returns false there, in
\* front of its last thirty lines.
LinkPath(lnk) ==
  LET thrown == \E i \in DOMAIN lnk.fields : pos + lnk.fields[i].at >= bufsize
      lnkmap == {lnk.fields[i].name : i \in {i \in DOMAIN lnk.fields :
                   lnk.fields[i].text /\ \A j \in 1 .. i : pos + lnk.fields[j].at < bufsize}}
      known == {i \in DOMAIN Priority : Priority[i] \in lnkmap} IN
  IF ~thrown THEN "NO_LINKINFO" ELSE IF known = {} THEN "LINKINFO_PATH_EMPTY" ELSE Priority[FirstOf(known)]

WinlnkStep ==
  /\ In("winlnk")
  /\ LET lnk == Cell(pos, NoStruct) IN
     IF pos >= pagesize \/ pos + SMALLEST_LNK_FILE >= bufsize THEN LeavePage /\ Silent
     ELSE /\ MoveTo(pos + 1) /\ UNCHANGED memo
          /\ IF lnk.is = "LNK" THEN Report(LinkPath(lnk), pos, 0) ELSE Silent

-----------------------------------------------------------------------------
(* winprefetch: [is |-> "SCCA", ok, length, c, c_length, d, d_2, n]: ok if the       *)
(* version is known and the header has its size; c_length cells of file names at c,  *)
(* the volume at d, and n directory names d_2 behind it, in a file of length cells.  *)
(* A cell [is |-> "path"] is a full path name, any other is none.                    *)

PathAt(k) == pos + k < bufsize /\ Cell(pos + k, NoStruct).is = "path"
\* Names are read as long as they are path names.
Paths(k, n) == {i \in 0 .. n - 1 : \A j \in 0 .. i : PathAt(k + j)}

prefetch_files(pf) == Paths(pf.c, pf.c_length)
prefetch_directories(pf) ==
  IF Cardinality(prefetch_files(pf)) < pf.c_length \/ pos + pf.d >= bufsize \/ pf.d + pf.d_2 > pf.length THEN {}
  ELSE {i \in Paths(pf.d + pf.d_2, pf.n) : i <= pf.length - (pf.d + pf.d_2)}

\* The loop stops PREFETCH_HEAD bytes before the end of the page.
WinprefetchStep ==
  /\ In("winprefetch")
  /\ LET pf == Cell(pos, NoStruct)
         Names(kind, k, found) == Collect(LAMBDA i : IF i \in found THEN <<Slice(kind, pos + k + i, 1)>> ELSE <<>>, Cardinality(found)) IN
     IF pos >= pagesize - PREFETCH_HEAD THEN LeavePage /\ Silent
     ELSE /\ MoveTo(pos + 1) /\ UNCHANGED memo
          /\ IF pf.is = "SCCA" /\ pf.ok
             THEN reports' = reports \o Head4k("prefetch") \o Names("filename", pf.c, prefetch_files(pf))
                                     \o Names("dirname", pf.d + pf.d_2, prefetch_directories(pf))
             ELSE Silent

StructScanners == {"winpe", "elf", "fat", "mft", "winlnk", "winprefetch"}
StructStep == WinpeStep \/ ElfStep \/ FatStep \/ MftStep \/ WinlnkStep \/ WinprefetchStep

-----------------------------------------------------------------------------
(* What they report *)

OnlyOf(kinds, is) == \A i \in DOMAIN reports : reports[i].kind \in kinds => CellAt(reports[i].from).is \in is

\* What is reported as a name is one, and what is carved or reported as a file begins
\* with its header; a directory entry is one that is valid, in a sector of which all
\* entries before it are; the name of an MFT record is its own.
StructsSound ==
  /\ OnlyOf({"dll"}, {"dll"}) /\ OnlyOf({"filename", "dirname"}, {"path", "MFT"})
  /\ OnlyOf({"winpe", "winpe_carved"}, {"PE"}) /\ OnlyOf({"elf"}, {"ELF"})
  /\ \A i \in DOMAIN reports :
       LET r == reports[i]
           sector == r.from - ((r.from % image.pagesize) % DENTRIES) IN
       /\ r.kind = "dentry" => /\ CellAt(r.from).kind \in {"valid", "future"}
                              /\ \A q \in sector .. r.from : CellAt(q).kind \in {"valid", "future", "lfn"}
       /\ r.kind = "filename" /\ scanner = "mft" => "fname" \in ToSet(CellAt(r.from).attrs)

\* Of the sbuf of its own page, what is at offset k behind q.
Seen(q, k) == IF q + k < SbufBound(q) THEN CellAt(q + k) ELSE NoStruct
SeesAll(q, k, n, is) == \A i \in 0 .. n - 1 : Seen(q, k + i).is = is

\* A PE file that is carved has all its sections, unless their sum wraps around or
\* one of them ends beyond a GiB.
CarvedWhole(q) ==
  LET pe == CellAt(q)
      Sections == {Seen(q, pe.table + i) : i \in 0 .. pe.n - 1}
      Ends == {s.from + s.size : s \in {s \in Sections : s.is = "section"}} IN
  \/ \E e \in Ends : e >= WORD
  \/ \E e \in Ends \cup {pe.cert} : e > GIB
  \/ \A e \in Ends : Covered({"winpe_carved"}, q, Least(q + e, SbufBound(q)))

\* Its imports are reported, one section and one import table, as far as all names
\* are valid and not at the start of the section.
ImportsNamed(q) ==
  LET pe == CellAt(q)
      sh == Seen(q, pe.table)
      place(j) == q + sh.from + Seen(q, sh.from + pe.imports - sh.va + j).rva - sh.va IN
  pe.n = 1 /\ sh.is = "section" /\ sh.fit /\ sh.named /\ pe.imports \in sh.va .. sh.va + sh.size - 1 =>
    \A n \in 1 .. sh.size :
      /\ SeesAll(q, sh.from + pe.imports - sh.va, n, "import")
      /\ \A j \in 0 .. n - 1 : /\ place(j) > q + sh.from /\ place(j) < q + sh.from + sh.size
                               /\ place(j) + DLL_NAME < SbufBound(q) /\ CellAt(place(j)).is = "dll"
      => \A j \in 0 .. n - 1 : Reported("dll", place(j), place(j) + 1)

\* At the end, of each page,
\* - each PE file whose headers are good and in the sbuf is reported and carved;
\* - each ELF file whose header and sections are good is reported with the objects that
\*   it needs;
\* - the entries of a directory are reported as far as all are valid, if one has a
\*   plausible year;
\* - an MFT record with a name that can be read is reported with it;
\* - a link is reported, with whatever path: tests/data_check.txt:168 has the one of its
\*   LinkInfo, which the return at scan_winlnk.cpp:225 keeps from any link that is whole;
\* - a prefetch file with its file names, but for one in the last bytes of a page.
StructsFound ==
  WalkDone /\ scanner \in StructScanners =>
    \A q \in Places :
      LET c == CellAt(q)
          end == SbufBound(q) IN
      CASE c.is = "PE" -> c.ok /\ q + c.head <= end /\ q + PE_STUB <= end =>
                            Reported("winpe", q, q) /\ CarvedWhole(q) /\ ImportsNamed(q)
        [] c.is = "ELF" ->
             c.ok /\ c.n > 0 /\ c.strndx < c.n /\ (\A i \in 0 .. c.n - 1 : Seen(q, c.shoff + i).is = "shdr"
                                             /\ ~Seen(q, c.shoff + i).long /\ Seen(q, c.shoff + i).entries > 0
                                             /\ Seen(q, c.shoff + i).type # "null")
             => /\ Reported("elf", q, q)
                /\ \A i, j, e, s \in 0 .. c.n - 1 :
                     LET dynamic == Seen(q, c.shoff + i)
                         strings == Seen(q, c.shoff + j)
                         tab == Seen(q, dynamic.from + s)
                         need == Seen(q, dynamic.from + e) IN
                     /\ dynamic.type = "dynamic" /\ strings.type = "strings" /\ s < dynamic.entries /\ e < dynamic.entries
                     /\ tab.is = "dyn" /\ tab.tag = "strtab" /\ need.is = "dyn" /\ need.tag = "needed"
                     /\ tab.val = strings.addr /\ strings.addr > 0 /\ need.val < strings.size
                     /\ q + strings.from + need.val < end
                     => Reported("so", q + strings.from + need.val, q + strings.from + need.val + 1)
        [] c.is = "dentry" ->
             LET sector == q - ((q % image.pagesize) % DENTRIES) IN
             /\ scanner = "fat" /\ sector + DENTRIES <= end /\ c.kind \in {"valid", "future"}
             /\ \A p \in sector .. q : CellAt(p).kind \in {"valid", "future", "lfn"}
             /\ \E p \in sector .. q : CellAt(p).kind = "valid"
             => Reported("dentry", q, q + 1)
        [] c.is = "MFT" ->
             /\ c.linked /\ q + 2 <= end /\ c.attrs # <<>>
             /\ c.attrs[Len(c.attrs)] = "fname" /\ ToSet(c.attrs) \cap {"end", "huge", "beyond"} = {}
             => Reported("filename", q, q + 2)
        [] c.is = "LNK" -> q + SMALLEST_LNK_FILE < end => \E i \in DOMAIN reports : reports[i].from = q
        [] c.is = "SCCA" ->
             c.ok /\ q < PageBound(q) - PREFETCH_HEAD =>
               /\ Reported("prefetch", q, q)
               /\ \A n \in 1 .. c.c_length : SeesAll(q, c.c, n, "path") =>
                    \A i \in 0 .. n - 1 : Reported("filename", q + c.c + i, q + c.c + i + 1)
        [] OTHER -> TRUE
===============================================================================
