----------------------------- MODULE HeaderFields -----------------------------
(***************************************************************************)
(* scan_winpe_verify and scan_elf_verify over the bytes of a header, where *)
(* StructScan has a header that is ok or not: which ones are taken, and    *)
(* from which bytes the values come that are written.  (The sections are   *)
(* StructScan's.)  A cell is a byte.                                       *)
(***************************************************************************)
EXTENDS SbufWalk, SequencesExt, FiniteSetsExt

\* A struct is the widths of its fields; a value is written under its name.
sizeof(struct) == MapThenSumSet(LAMBDA i : struct[i], DOMAIN struct)
offsetof(struct, i) == sizeof(SubSeq(struct, 1, i - 1))
Fields(names, base, offsets, struct) == [i \in DOMAIN names |-> Slice(names[i], base + offsets[i], struct[i])]

\* A mask is a set of bits; what is written are the places in the table.
decode_flags(masks, bits) == {i \in DOMAIN masks : masks[i] \cap bits # {}}
\* A table ends with an entry of value 0: for scan_winpe wherever in it one is.
match_switch_case(table, v) == \E i \in DOMAIN table : table[i] = v /\ \A j \in 1 .. i : table[j] # 0

-----------------------------------------------------------------------------
(* PE *)

Pe_FileHeader == <<2, 2, 4, 4, 4, 2, 2>>
Pe_OptionalHeaderStandard == <<2, 1, 1, 4, 4, 4, 4, 4, 4>>
Pe_OptionalHeaderStandardPlus == SubSeq(Pe_OptionalHeaderStandard, 1, 8)
Pe_OptionalHeaderWindows == <<4, 4, 4, 2, 2, 2, 2, 2, 2, 4, 4, 4, 4, 2, 2, 4, 4, 4, 4, 4, 4>>
Pe_OptionalHeaderWindowsPlus == [i \in 1 .. 21 |-> IF i \in {1} \cup (16 .. 19) THEN 8 ELSE Pe_OptionalHeaderWindows[i]]

FileNames ==
  <<"Machine", "NumberOfSections", "TimeDateStamp", "PointerToSymbolTable", "NumberOfSymbols", "SizeOfOptionalHeader">>
StandardNames ==
  <<"Magic", "MajorLinkerVersion", "MinorLinkerVersion", "SizeOfCode", "SizeOfInitializedData", "SizeOfUninitializedData",
    "AddressOfEntryPoint", "BaseOfCode">>
WindowsNames ==
  <<"ImageBase", "SectionAlignment", "FileAlignment", "MajorOperatingSystemVersion", "MinorOperatingSystemVersion",
    "MajorImageVersion", "MinorImageVersion", "MajorSubsystemVersion", "MinorSubsystemVersion", "Win32VersionValue",
    "SizeOfImage", "SizeOfHeaders", "CheckSum", "SubSystem", "DllCharacteristics", "SizeOfStackReserve",
    "SizeOfStackCommit", "SizeOfHeapReserve", "SizeOfHeapCommit", "LoaderFlags", "NumberOfRvaAndSizes">>

\* Where the code reads them: behind the 16th, a 32-bit header's widths in a 64-bit one.
FileReads == <<0, 2, 4, 8, 12, 16>>
StandardReads == <<0, 2, 3, 4, 8, 12, 16, 20>>
WindowsReads == <<0, 4, 8, 12, 14, 16, 18, 20, 22, 24, 28, 32, 36, 40, 42, 44, 48, 52, 56, 60, 64>>
\* Mutant: the 64-bit header is read as the 32-bit one.
WindowsPlusReads_Windows == WindowsReads
WindowsPlusReads == <<0, 8, 12, 16, 18, 20, 22, 24, 26, 30, 32, 36, 40, 44, 46, 48, 52, 56, 60, 64, 68>>
WindowsPlusWidths == [Pe_OptionalHeaderWindows EXCEPT ![1] = 8, ![16] = 8]

IMAGE_FILE_MACHINE == [AMD64 |-> 34404, ARM |-> 448, ARMV7 |-> 452, I386 |-> 332, IA64 |-> 512]
pe_fileheader_machine ==
  LET M == IMAGE_FILE_MACHINE IN <<M.AMD64, M.ARM, M.ARMV7, M.I386, M.IA64>>
\* UNKNOWN, NATIVE, the two of Windows, POSIX, Windows CE, the four of EFI, XBOX
IMAGE_SUBSYSTEM == <<0, 1, 2, 3, 7, 9, 10, 11, 12, 13, 14>>
pe_optionalwindowsheader_subsystem == IMAGE_SUBSYSTEM

\* The flags, by their bits.
Bits(row) == [i \in DOMAIN row |-> {row[i]}]
IMAGE_FILE_FLAGS == Bits(<<0, 1, 2, 3, 4, 5, 6, 7, 8, 9, 10, 12, 13, 14, 15>>)
pe_fileheader_characteristic_names == IMAGE_FILE_FLAGS
IMAGE_DLL_CHARACTERISTICS == Bits(<<6, 7, 8, 9, 10, 11, 13, 15>>)
pe_optionalwindowsheader_dllcharacteristic == IMAGE_DLL_CHARACTERISTICS
\* TYPE_REG has no bit, two names have bit 17, and the alignments are the numbers from 1 to 14
\* in the bits from 20 to 23.
IMAGE_SCN_ALIGN == [a \in 1 .. 14 |-> {20 + b : b \in {b \in 0 .. 3 : (a \div 2 ^ b) % 2 = 1}}]
IMAGE_SCN == [low |-> <<{}>> \o Bits(<<0, 1, 2, 3, 4, 5, 6, 7, 8, 9, 10, 11, 12, 15, 17, 17, 18, 19>>),
              high |-> Bits(<<24, 25, 26, 27, 28, 29, 30, 31>>)]
pe_section_characteristic_names == IMAGE_SCN.low \o IMAGE_SCN_ALIGN \o IMAGE_SCN.high

PE_FILE_OFFSET == 60
header_offset == IF Get16(PE_FILE_OFFSET + 2) > 0 THEN bufsize ELSE Get16(PE_FILE_OFFSET) + 4
ohs_offset == header_offset + sizeof(Pe_FileHeader)
PE32 == 267
PE32PLUS == 523
IsPlus == Get16(ohs_offset) = PE32PLUS
Standard == IF IsPlus THEN Pe_OptionalHeaderStandardPlus ELSE Pe_OptionalHeaderStandard
Windows == IF IsPlus THEN Pe_OptionalHeaderWindowsPlus ELSE Pe_OptionalHeaderWindows
ohw_offset == ohs_offset + sizeof(Standard)
SizeOfOptionalHeader == Get16(header_offset + 16)

\* Room for the longer one of the standard headers is asked for, whichever it is.
SanePe ==
  /\ ohs_offset + sizeof(Pe_OptionalHeaderStandard) <= bufsize
  /\ match_switch_case(pe_fileheader_machine, Get16(header_offset))
  /\ Get16(header_offset + 2) \in 1 .. 256 /\ SizeOfOptionalHeader % 2 = 0
  /\ Get32(header_offset + 12) = <<0, 0>> => Get32(header_offset + 8) = <<0, 0>>
  /\ AtMost(Get32(header_offset + 12), <<15, 16960>>)
  /\ Get16(ohs_offset) \in {PE32, PE32PLUS}
  /\ \A n \in {16, 20} : AtMost(Get32(ohs_offset + n), <<4096, 0>>)
HasWindows ==
  SizeOfOptionalHeader > sizeof(Standard) + sizeof(Windows) /\ ohw_offset + sizeof(Windows) <= bufsize

\* The name of the subsystem is written, which no number has, and of DllCharacteristics only
\* the flags.
Unwritten == {"DllCharacteristics"} \cup (IF match_switch_case(pe_optionalwindowsheader_subsystem, Get16(ohw_offset + IF IsPlus THEN 44 ELSE 40)) THEN {} ELSE {"SubSystem"})
PeHeaderReports ==
  IF ~SanePe THEN <<>>
  ELSE Fields(FileNames, header_offset, FileReads, Pe_FileHeader) \o Fields(StandardNames, ohs_offset, StandardReads, Standard)
       \o (IF ~HasWindows THEN <<>>
           ELSE SelectSeq(Fields(WindowsNames, ohw_offset, IF IsPlus THEN WindowsPlusReads ELSE WindowsReads,
                                 IF IsPlus THEN WindowsPlusWidths ELSE Windows), LAMBDA r : r.kind \notin Unwritten))

-----------------------------------------------------------------------------
(* ELF: the structs are laid over the bytes, whatever order the header says these have. *)

Elf32_Ehdr == <<16, 2, 2, 4, 4, 4, 4, 4, 2, 2, 2, 2, 2, 2>>
Elf64_Ehdr == [Elf32_Ehdr EXCEPT ![5] = 8, ![6] = 8, ![7] = 8]
EhdrNames ==
  <<"ident", "type", "machine", "version", "entry", "phoff", "shoff", "flags", "ehsize", "phentsize", "phnum", "shentsize",
    "shnum", "shstrndx">>
\* The defined types and the ends of the ranges for systems and processors.
ET == (0 .. 5) \cup {65024, 65279, 65280, 65535}
elf_e_type == ET
EM_ALPHA == 36902
EM == (0 .. 5) \cup (7 .. 10) \cup {15} \cup (17 .. 22) \cup (36 .. 63) \cup (66 .. 94) \cup {EM_ALPHA}
elf_e_machine == EM \ {EM_ALPHA}
SHF == Bits(<<0, 1, 2, 4, 5, 6, 7, 8, 9, 10>>)
SHF_MASKOS == 20 .. 27
SHF_MASKPROC == 28 .. 31
elf_sh_flags == SHF \o <<SHF_MASKOS, SHF_MASKPROC, {30}, {31}>>

EI_CLASS == 4
EI_DATA == 5
Ehdr == IF Get8(EI_CLASS) = 1 THEN Elf32_Ehdr ELSE Elf64_Ehdr
EhdrValue(name) == LET i == CHOOSE i \in DOMAIN EhdrNames : EhdrNames[i] = name IN Get16(offsetof(Ehdr, i))
SaneElf ==
  /\ Get8(EI_CLASS) \in {1, 2} /\ Get8(EI_DATA) \in {1, 2} /\ sizeof(Ehdr) <= bufsize
  /\ EhdrValue("phentsize") % 2 = 0 /\ EhdrValue("shentsize") % 2 = 0 /\ EhdrValue("shstrndx") <= EhdrValue("shnum")
  /\ EhdrValue("type") \in elf_e_type /\ EhdrValue("machine") \in elf_e_machine /\ EhdrValue("ehsize") >= sizeof(Ehdr)
ElfHeaderReports == IF SaneElf THEN Tail(Fields(EhdrNames, 0, [i \in DOMAIN Ehdr |-> offsetof(Ehdr, i)], Ehdr)) ELSE <<>>

-----------------------------------------------------------------------------
VerifyHeader ==
  /\ In("pe") \/ In("ehdr")
  /\ reports' = (IF scanner = "pe" THEN PeHeaderReports ELSE ElfHeaderReports)
  /\ LeavePage

\* image.at is where the header is, image.plus whether its numbers have 64 bits, image.big
\* whether their first byte is the highest one, and image.taken how much of it is written.
DeclaredIn(names, base, struct) ==
  {[kind |-> names[i], from |-> base + offsetof(struct, i), to |-> base + offsetof(struct, i + 1)] : i \in DOMAIN names}
Declared ==
  IF scanner = "ehdr" THEN DeclaredIn(EhdrNames, 0, IF image.plus THEN Elf64_Ehdr ELSE Elf32_Ehdr)
  ELSE LET standard == IF image.plus THEN Pe_OptionalHeaderStandardPlus ELSE Pe_OptionalHeaderStandard
           ohs == image.at + sizeof(Pe_FileHeader) IN
       DeclaredIn(FileNames, image.at, Pe_FileHeader) \cup DeclaredIn(StandardNames, ohs, standard)
         \cup DeclaredIn(WindowsNames, ohs + sizeof(standard), IF image.plus THEN Pe_OptionalHeaderWindowsPlus ELSE Pe_OptionalHeaderWindows)

\* A value comes from the bytes in which the struct declares it, all of them, but for the six
\* of a 64-bit PE header that are read elsewhere.
Misread == {"Win32VersionValue", "SizeOfStackCommit", "SizeOfHeapReserve", "SizeOfHeapCommit", "LoaderFlags", "NumberOfRvaAndSizes"}
HeadersSound ==
  \A i \in DOMAIN reports : reports[i] \in Declared <=> ~(scanner = "pe" /\ image.plus /\ reports[i].kind \in Misread)

\* All of a header that a linker has written is, of one for a big-endian machine nothing.
HeadersFound ==
  Cardinality({reports[i].kind : i \in DOMAIN reports})
    = (CASE image.taken = "none" -> 0 [] image.taken = "ehdr" -> 13 [] image.taken = "standard" -> 14 [] image.taken = "windows" -> 33)

\* The bits that a name stands for are told by the names that are written, even though the
\* name of an alignment is written for every alignment that shares a bit with it; but not
\* those that have only the name of the operating system's or the processor's bits.
FlagTables ==
  [file |-> pe_fileheader_characteristic_names, dll |-> pe_optionalwindowsheader_dllcharacteristic,
   section |-> pe_section_characteristic_names, elf |-> elf_sh_flags]
FlagsTold ==
  LET masks == FlagTables[image.table]
      meaning(bits) == (bits \cap UNION ToSet(masks)) \ (IF image.table = "elf" THEN 20 .. 29 ELSE {}) IN
  \A other \in image.others :
    decode_flags(masks, image.bits) = decode_flags(masks, other) => meaning(image.bits) = meaning(other)
===============================================================================
