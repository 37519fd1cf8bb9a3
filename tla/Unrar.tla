-------------------------------- MODULE Unrar ---------------------------------
(***************************************************************************)
(* What scan_rar unpacks: one component of an archive, decoded from memory *)
(* to memory, as RAR 1.5, 2.0 or 2.9 do it.  A token is a byte, a match in *)
(* the window of what was decoded before, or new tables; which one comes   *)
(* next, and how many bytes it takes, is up to the archive.  A byte is     *)
(* told by where in the stream it was first decoded; 0 is in no stream.    *)
(***************************************************************************)
EXTENDS Integers, Sequences

CONSTANTS
  MAXWINSIZE,               \* the window
  MAX_SIZE, READ_ALIGN,     \* the input buffer, and what it is filled by multiples of
  READ_BORDER,              \* more than a token takes
  TABLES_BORDER, ENTRY_BORDER,
  OldWriteBorder, WriteBorder,      \* what is kept free of the window: before 2.9, and since
  MAX_LZ_MATCH, FastMargin20,       \* the margins of the fast copies
  MaxMatch15, MaxMatch20, MaxMatch29, MaxMatchPPM,
  WORD, INT64NDF,           \* 2^32, and the size of what does not tell it
  Distances                 \* those of matches

ASSUME UnrarAssumption ==
  /\ MAXWINSIZE \in Nat \ {0} /\ READ_ALIGN \in Nat \ {0} /\ MAX_SIZE \in Nat \ {0} /\ MAX_LZ_MATCH \in Nat /\ FastMargin20 \in Nat
  /\ READ_BORDER \in Nat \ {0} /\ TABLES_BORDER \in Nat \ {0} /\ ENTRY_BORDER \in Nat \ {0}
  /\ (MAX_SIZE \div 2) + READ_ALIGN + READ_BORDER <= MAX_SIZE /\ READ_ALIGN <= READ_BORDER
  /\ TABLES_BORDER <= READ_BORDER /\ ENTRY_BORDER <= TABLES_BORDER
  /\ OldWriteBorder \in 2 .. MAXWINSIZE /\ WriteBorder \in 2 .. MAXWINSIZE
  /\ MaxMatch15 \in 2 .. OldWriteBorder - 1 /\ MaxMatch20 \in 2 .. OldWriteBorder - 1
  /\ MaxMatch29 \in Nat /\ MaxMatchPPM \in Nat /\ WORD \in Nat \ {0} /\ INT64NDF \in Nat
  /\ Distances \subseteq 0 .. MAXWINSIZE - 1

VARIABLES
  arc,          \* the component: [head, packed, held, size], the last three what it has packed, how
                \* much of that is there, and what it unpacks to; and the bounds of the model:
                \* tokens, how many bytes one may take, and most, how long the stream may get
  step,         \* where the decoder is
  block,        \* UnpBlockType, UnpAudioBlock: "lz", "ppm" or "audio"
  tables,       \* which reading of tables it is: the "first", the "next", or the "last" of 2.0
  input,        \* [InBuf, InAddr, ReadTop, UnpPackedSize], and how many bytes were used
  Window, UnpPtr, WrPtr,
  last, copy,   \* [n, d]: the last match, and what is still to be copied of one
  DestUnpSize,  \* what RAR 1.5 and 2.0 have still to decode
  sink,         \* the memory, how much of it is filled and left, and WrittenFileSize
  stream,       \* all that was decoded
  long          \* was a match as long as what is kept free?

out_vars == <<Window, UnpPtr, WrPtr, sink, stream, long>>
unrar_vars == <<arc, step, block, tables, input, last, copy, DestUnpSize, out_vars>>

Lesser(a, b) == IF a < b THEN a ELSE b
\* & MAXWINMASK, of what is less than a window beyond it.
Masked(p) == IF p < 0 THEN p + MAXWINSIZE ELSE IF p >= MAXWINSIZE THEN p - MAXWINSIZE ELSE p

-----------------------------------------------------------------------------
(* The header, which scan_rar has checked *)

\* An attribute is told by its bit: 8 and 16 mean a label and a directory to MS-DOS, and
\* permissions of a group to Unix, where 40960 means a link.
ConvertUnknownHeader(head) ==
  LET directory == head.directory \/ (head.UnpVer < 20 /\ 16 \in head.SubFlags)
  IN  [head EXCEPT !.directory = directory, !.SubFlags = IF head.HostOS = "unknown" THEN (IF directory THEN {16} ELSE {}) ELSE @]
\* The umask has all the bits.
ConvertAttributes(head) == IF head.HostOS = "unix" THEN head.SubFlags ELSE {}
IsArcLabel(head) == head.HostOS = "dos" /\ 8 \in head.SubFlags
IsLink(attributes) == 40960 \in attributes

\* The mask * matches all names but those of temporary files.
IsProcessFile(head) == ~head.temporary
Extracted(stored) ==
  LET head == ConvertUnknownHeader(stored)
  IN  /\ IsProcessFile(head) /\ ~IsArcLabel(head) /\ ~head.version /\ ~head.password
      /\ head.UnpVer \in 13 .. 36
      /\ IsLink(ConvertAttributes(head)) \/ ~head.directory
\* The decoders: those of version 2.9 do not say how many bytes are still to come.
Method == CASE arc.head.UnpVer <= 15 -> 15 [] arc.head.UnpVer \in {20, 26} -> 20 [] arc.head.UnpVer \in {29, 36} -> 29 [] OTHER -> 0
Old == Method \in {15, 20}
\* The memory is as large as the header says, or what a word holds of that.
FullUnpSize == IF ~arc.head.large /\ arc.size = WORD - 1 THEN INT64NDF ELSE arc.size
Room == arc.size % WORD
ExtractCurrentFile ==
  /\ step = "header" /\ step' = IF Extracted(arc.head) /\ Method # 0 THEN "init" ELSE "end"
  /\ UNCHANGED <<arc, block, tables, input, last, copy, DestUnpSize, out_vars>>

-----------------------------------------------------------------------------
(* The input *)

\* The next bytes of the component, all of them that were asked for and are there, or none.
UnpRead(in, n) ==
  LET size == Lesser(n, in.UnpPackedSize)
  IN  IF arc.packed - in.UnpPackedSize + size <= arc.held THEN size ELSE 0
Aligned(n) == n - (n % READ_ALIGN)
CanRead(in) == in.InAddr <= in.ReadTop
\* The half that has been used makes room.  A slot holds the number of its byte.
UnpReadBuf(in) ==
  LET from == IF in.InAddr > MAX_SIZE \div 2 THEN in.InAddr ELSE 0
      DataSize == in.ReadTop - from
      n == UnpRead(in, Aligned(MAX_SIZE - DataSize))
      next == arc.packed - in.UnpPackedSize
      slot(i) == IF i < DataSize THEN in.InBuf[from + i] ELSE IF i < DataSize + n THEN next + (i - DataSize) ELSE in.InBuf[i]
  IN  [InBuf |-> [i \in DOMAIN in.InBuf |-> slot(i)], InAddr |-> in.InAddr - from, ReadTop |-> DataSize + n,
       UnpPackedSize |-> in.UnpPackedSize - n, used |-> in.used]
Asked(in, border) == IF in.InAddr > in.ReadTop - border /\ CanRead(in) THEN UnpReadBuf(in) ELSE in
Used(in, n) == [in EXCEPT !.InAddr = @ + n, !.used = @ + n]

-----------------------------------------------------------------------------
(* The output *)

\* A piece that there is no room for is dropped, all of it.
UnpWrite(to, start, n) ==
  IF n > to.room THEN to
  ELSE [to EXCEPT !.memory = [k \in DOMAIN @ |-> IF to.out <= k /\ k < to.out + n THEN Window[start + (k - to.out)] ELSE @[k]],
                  !.out = @ + n, !.room = @ - n]
UnpWriteData(to, start, n) ==
  IF to.written >= FullUnpSize THEN to
  ELSE [UnpWrite(to, start, Lesser(n, FullUnpSize - to.written)) EXCEPT !.written = @ + n]
WritePiece(to, start, n) == IF Old THEN UnpWrite(to, start, n) ELSE UnpWriteData(to, start, n)
\* Mutant: what is at the beginning of the window comes first.
UnpWriteBuf_Swapped(to) ==
  IF UnpPtr < WrPtr THEN WritePiece(WritePiece(to, 0, UnpPtr), WrPtr, MAXWINSIZE - WrPtr) ELSE WritePiece(to, WrPtr, UnpPtr - WrPtr)
UnpWriteBuf(to) ==
  IF UnpPtr < WrPtr THEN WritePiece(WritePiece(to, WrPtr, MAXWINSIZE - WrPtr), 0, UnpPtr) ELSE WritePiece(to, WrPtr, UnpPtr - WrPtr)
Flush == sink' = UnpWriteBuf(sink) /\ WrPtr' = UnpPtr

Border == IF Old THEN OldWriteBorder ELSE WriteBorder
\* Mutant: one byte less is kept free.
NearlyFull_Late == Masked(WrPtr - UnpPtr) < Border - 1 /\ WrPtr # UnpPtr
NearlyFull == Masked(WrPtr - UnpPtr) < Border /\ WrPtr # UnpPtr

\* What is put into the window, and what the stream goes on with.
Put(value, next) ==
  Window' = [Window EXCEPT ![UnpPtr] = value] /\ UnpPtr' = Masked(UnpPtr + 1) /\ stream' = Append(stream, next)
\* The stream before its beginning is empty: as the window is, at first.
StreamAt(i) == IF i \in 1 .. Len(stream) THEN stream[i] ELSE 0
Back(d) == StreamAt(Len(stream) + 1 - (IF d = 0 THEN MAXWINSIZE ELSE d))

-----------------------------------------------------------------------------
(* The loop over the tokens *)

\* Solid or not, nothing was unpacked before; but a solid component of 2.0 has no tables.
DoUnpack ==
  /\ step = "init" /\ UNCHANGED <<arc, block, tables, last, copy, out_vars>>
  /\ \E n \in IF Method = 15 THEN arc.tokens ELSE {0} : input' = Used(UnpReadBuf(input), n)
  /\ step' = IF Method = 29 \/ (Method = 20 /\ ~arc.head.solid) THEN "tables" ELSE "loop"
  /\ DestUnpSize' = FullUnpSize - 1

\* The last tables of 2.0 are still read when all is decoded.
Leave == step' = IF Method = 20 THEN "last" ELSE "write"
LoopEnds ==
  /\ step = "loop" /\ ((Old /\ DestUnpSize < 0) \/ ~CanRead(input)) /\ Leave
  /\ UNCHANGED <<arc, block, tables, input, last, copy, DestUnpSize, out_vars>>
LoopGoesOn == step = "loop" /\ (Old => DestUnpSize >= 0) /\ CanRead(input) /\ input' = Asked(input, READ_BORDER)
LoopTop ==
  /\ LoopGoesOn /\ ~NearlyFull /\ step' = "token"
  /\ UNCHANGED <<arc, block, tables, last, copy, DestUnpSize, out_vars>>
LoopWrites ==
  /\ LoopGoesOn /\ NearlyFull /\ Flush
  /\ step' = IF ~Old /\ sink'.written > FullUnpSize THEN "end" ELSE "token"
  /\ UNCHANGED <<arc, block, tables, last, copy, DestUnpSize, Window, UnpPtr, stream, long>>

\* The model of a PPM block asks for one byte after the other; nothing is said of a token
\* that goes on beyond the buffer.
GetChar ==
  /\ step \in {"token", "model"} /\ block = "ppm" /\ input.InAddr < MAX_SIZE
  /\ input' = Used(IF input.InAddr > MAX_SIZE - READ_BORDER /\ CanRead(input) THEN UnpReadBuf(input) ELSE input, 1)
  /\ UNCHANGED <<arc, step, block, tables, last, copy, DestUnpSize, out_vars>>
Token ==
  /\ step = "token" /\ \E n \in IF block = "ppm" THEN {0} ELSE arc.tokens : input' = Used(input, n)
  /\ UNCHANGED <<arc, block, WrPtr, sink>>

Count(n) == DestUnpSize' = IF Old THEN DestUnpSize - n ELSE DestUnpSize

DecodeByte ==
  /\ Token /\ Len(stream) < arc.most /\ Put(Len(stream) + 1, Len(stream) + 1) /\ Count(1) /\ step' = "loop"
  /\ UNCHANGED <<tables, last, copy, long>>
\* Switches of mode in 1.5, and code for the virtual machine in a PPM block, decode nothing.
DecodeNothing ==
  /\ Token /\ (Method = 15 \/ block = "ppm") /\ step' = "loop"
  /\ UNCHANGED <<tables, last, copy, DestUnpSize, Window, UnpPtr, stream, long>>

MaxMatch == IF Method = 15 THEN MaxMatch15 ELSE IF Method = 20 THEN MaxMatch20 ELSE IF block = "ppm" THEN MaxMatchPPM ELSE MaxMatch29
\* n bytes from d bytes before, counted round the window.
CopyString(n, d) ==
  /\ Len(stream) + n <= arc.most /\ copy' = [n |-> n, d |-> d] /\ step' = IF n = 0 THEN "loop" ELSE "copy"
  /\ long' = (long \/ n >= Border) /\ UNCHANGED <<tables, Window, UnpPtr, stream>>
\* One that is longer than the margin of the fast copy, at the end of the window, is left out.
WithinWindow(n, d) == n > MAX_LZ_MATCH => UnpPtr + n <= MAXWINSIZE /\ Masked(UnpPtr - d) + n <= MAXWINSIZE
\* Those of a PPM block, and of a mode of 1.5, are not for repetition.
DecodeMatch ==
  /\ Token /\ block # "audio"
  /\ \E n \in 2 .. MaxMatch, d \in Distances :
       /\ WithinWindow(n, d) /\ CopyString(n, d) /\ Count(n)
       /\ (last' = [n |-> n, d |-> d] /\ block = "lz") \/ (last' = last /\ (block = "ppm" \/ Method = 15))
\* Before any match that of 2.0 copies two bytes, uncounted, where its copy is the fast one.
RepeatLength == IF Method = 20 /\ last.n = 0 /\ UnpPtr < MAXWINSIZE - FastMargin20 THEN 2 ELSE last.n
DecodeRepetition == Token /\ block = "lz" /\ CopyString(RepeatLength, last.d) /\ Count(last.n) /\ UNCHANGED last
CopyByte ==
  /\ step = "copy" /\ Put(Window[Masked(UnpPtr - copy.d)], Back(copy.d)) /\ copy' = [copy EXCEPT !.n = @ - 1]
  /\ step' = IF copy.n = 1 THEN "loop" ELSE "copy"
  /\ UNCHANGED <<arc, block, tables, input, last, DestUnpSize, WrPtr, sink, long>>

-----------------------------------------------------------------------------
(* Blocks and their tables *)

NewTables == Token /\ Method # 15 /\ step' = "tables" /\ tables' = "next" /\ UNCHANGED <<last, copy, DestUnpSize, Window, UnpPtr, stream, long>>
\* The end of the file, or data that cannot be decoded.
EndOfFile == Token /\ Method = 29 /\ Leave /\ UNCHANGED <<tables, last, copy, DestUnpSize, Window, UnpPtr, stream, long>>

\* Code for the virtual machine is read byte by byte, and not added: this one is not there.
VMCode == Token /\ Method = 29 /\ block = "lz" /\ step' = "vm" /\ UNCHANGED <<tables, last, copy, DestUnpSize, Window, UnpPtr, stream, long>>
VMByte ==
  /\ step = "vm" /\ UNCHANGED <<arc, block, tables, last, copy, DestUnpSize, out_vars>>
  /\ \E end \in BOOLEAN :
       IF input.InAddr >= input.ReadTop - 1 /\ ~CanRead(input) /\ ~end THEN Leave /\ UNCHANGED input
       ELSE input' = Used(Asked(input, 2), 1) /\ step' = IF end THEN "loop" ELSE "vm"

TablesMade == IF tables = "last" THEN "write" ELSE "loop"
\* Without its first tables nothing was unpacked, without others the loop ends.
TablesFail == IF tables = "next" THEN Leave ELSE step' = IF tables = "first" THEN "end" ELSE "write"
ReadTables ==
  /\ step = "tables" /\ UNCHANGED <<arc, tables, last, copy, DestUnpSize, out_vars>>
  /\ \/ ~CanRead(input) /\ TablesFail /\ UNCHANGED <<block, input>>
     \/ /\ CanRead(input) /\ block' \in IF Method = 20 THEN {"lz", "audio"} ELSE {"lz", "ppm"}
        /\ \E n \in arc.tokens : input' = Used(Asked(input, TABLES_BORDER), Lesser(n, IF block' = "ppm" THEN 1 ELSE TABLES_BORDER))
        /\ step' = IF block' = "ppm" THEN "model" ELSE "entries"
\* 2.0 keeps the tables that it has when it has read beyond the input.
TableEntry ==
  /\ step = "entries" /\ UNCHANGED <<arc, tables, last, copy, DestUnpSize, out_vars>>
  /\ \/ ~CanRead(input) /\ TablesFail /\ UNCHANGED <<block, input>>
     \/ /\ CanRead(input) /\ UNCHANGED block
        /\ \E n \in arc.tokens : input' = Used(Asked(input, ENTRY_BORDER), Lesser(n, ENTRY_BORDER))
        /\ \/ step' = "entries"
           \/ (Method = 20 \/ CanRead(input')) /\ step' = TablesMade
           \/ Method = 29 /\ ~CanRead(input') /\ TablesFail
\* PPM.DecodeInit.
ModelMade ==
  /\ step = "model" /\ UNCHANGED <<arc, block, tables, input, last, copy, DestUnpSize, out_vars>>
  /\ step' = "loop" \/ TablesFail

ReadLastTables ==
  /\ step = "last" /\ UNCHANGED <<arc, block, last, copy, DestUnpSize, out_vars>>
  /\ \/ input.InAddr + ENTRY_BORDER > input.ReadTop /\ step' = "write" /\ UNCHANGED <<tables, input>>
     \/ /\ input.InAddr + ENTRY_BORDER <= input.ReadTop
        /\ \E n \in arc.tokens : input' = Used(input, Lesser(n, ENTRY_BORDER))
        /\ (step' = "write" /\ UNCHANGED tables) \/ (step' = "tables" /\ tables' = "last")
WriteRest == step = "write" /\ step' = "end" /\ Flush /\ UNCHANGED <<arc, block, tables, input, last, copy, DestUnpSize, Window, UnpPtr, stream, long>>

UnrarStep ==
  \/ ExtractCurrentFile \/ DoUnpack \/ LoopEnds \/ LoopTop \/ LoopWrites \/ GetChar
  \/ DecodeByte \/ DecodeNothing \/ DecodeMatch \/ DecodeRepetition \/ CopyByte
  \/ NewTables \/ EndOfFile \/ VMCode \/ VMByte \/ ReadTables \/ TableEntry \/ ModelMade \/ ReadLastTables \/ WriteRest

IsComponent ==
  /\ arc.packed \in Nat /\ arc.held \in Nat /\ arc.size \in Nat \ {0} /\ arc.most \in Nat /\ arc.tokens \subseteq 0 .. READ_BORDER
  /\ arc.head.UnpVer \in Nat /\ arc.head.large \in BOOLEAN
UnrarInit ==
  /\ IsComponent
  /\ step = "header" /\ block = "lz" /\ tables = "first" /\ last = [n |-> 0, d |-> 0] /\ copy = last /\ DestUnpSize = 0
  /\ input = [InBuf |-> [i \in 0 .. MAX_SIZE - 1 |-> -1], InAddr |-> 0, ReadTop |-> 0, UnpPackedSize |-> arc.packed, used |-> 0]
  /\ Window = [p \in 0 .. MAXWINSIZE - 1 |-> 0] /\ UnpPtr = 0 /\ WrPtr = 0
  /\ sink = [memory |-> [k \in 0 .. arc.size - 1 |-> 0], out |-> 0, room |-> Room, written |-> 0]
  /\ stream = <<>> /\ long = FALSE
UnrarSpec == UnrarInit /\ [][UnrarStep]_unrar_vars

-----------------------------------------------------------------------------
\* The bytes that were packed are decoded one after the other, none of them twice, and as
\* long as there are any no others: the buffer is never left with less than a token takes.
Exhausted(in) == in.UnpPackedSize = 0 \/ arc.packed - in.UnpPackedSize + Lesser(MAX_SIZE, in.UnpPackedSize) > arc.held
UsedInOrder ==
  /\ \A i \in 0 .. input.ReadTop - 1 : input.InBuf[i] = input.used - input.InAddr + i
  /\ input.used - input.InAddr + input.ReadTop = arc.packed - input.UnpPackedSize
NothingInvented == CanRead(input) \/ Exhausted(input)

\* The window is the end of the stream, wherever it wraps and however matches overlap.
Remembered == \A d \in 1 .. MAXWINSIZE : Window[Masked(UnpPtr - d)] = StreamAt(Len(stream) + 1 - d)

\* The memory gets the stream from its beginning, and at the end all of it that it is for;
\* unless a match was as long as what is kept free of the window, one of 1.5 or 2.0 went on
\* beyond the size, or the size is not known or more than a word holds.
Measured == arc.size < WORD - 1
Regular == Measured /\ ~long /\ (Old => Len(stream) <= arc.size)
DecodedInOrder ==
  Regular =>
    /\ sink.out <= Len(stream)
    /\ \A k \in 0 .. arc.size - 1 : sink.memory[k] = IF k < sink.out THEN stream[k + 1] ELSE 0
DecodedWhole == Regular /\ step = "end" => sink.out = Lesser(Len(stream), arc.size)
\* A match of 1.5 or 2.0 is never as long as that.
OldNeverLong == Old => ~long

\* What a component is decoded to is what its tokens say: see the parts.
UnrarSound == UsedInOrder /\ NothingInvented /\ Remembered /\ DecodedInOrder /\ DecodedWhole /\ OldNeverLong
===============================================================================
