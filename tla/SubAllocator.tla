----------------------------- MODULE SubAllocator -----------------------------
(***************************************************************************)
(* The memory of the model that RAR 2.9 predicts characters with: text     *)
(* grows at its lower end, and above it units are handed out, from the     *)
(* lower end to statistics and from the upper end to contexts, and then    *)
(* from lists of free blocks.  A unit is told by its number, and of what   *)
(* is in it only whether its first two bytes hold 0xFFFF, the stamp that   *)
(* GlueFreeBlocks knows a free block by.  Which block of a list is taken,  *)
(* and which functions the model calls in which order, is left open.       *)
(***************************************************************************)
EXTENDS Integers, FiniteSetsExt

CONSTANTS
  N1, N2, N3, N4,       \* the sizes of blocks: they grow by one unit, two, three and four
  FIXED_UNIT_SIZE, UNIT_SIZE,   \* the bytes of a unit, as the algorithm counts and as they are
  Memories,             \* the sizes that archives ask for
  Leftovers,            \* the units that may happen to be stamped in memory that was not written
  RootUnits,            \* the statistics of 256 characters take 128 units
  GlueWait,             \* 255
  GlueLimit             \* 0x10000, which NU does not hold

Indexes == 0 .. (N1 + N2 + N3 + N4) - 1
\* The loops count by one, two, three and four, and by one between them.
Indx2Units ==
  [i \in Indexes |->
     IF i < N1 THEN i + 1
     ELSE IF i < N1 + N2 THEN N1 + 2 * (i + 1 - N1)
     ELSE IF i < N1 + N2 + N3 THEN N1 + 2 * N2 + 3 * (i + 1 - (N1 + N2))
     ELSE N1 + 2 * N2 + 3 * N3 + 4 * (i + 1 - (N1 + N2 + N3))]
Largest == N1 + 2 * N2 + 3 * N3 + 4 * N4
\* Units2Indx[n - 1]: the least size that holds n units.
Units2Indx(n) == Min({i \in Indexes : Indx2Units[i] >= n})
SizeFor(n) == Indx2Units[Units2Indx(n)]

\* Seven eighths of the memory are for units.
UpperUnits(size) == ((size \div 8) \div FIXED_UNIT_SIZE) * 7
Size1(size) == size - FIXED_UNIT_SIZE * UpperUnits(size)
FirstUnit(size) == (Size1(size) \div FIXED_UNIT_SIZE) + 1

ASSUME SubAllocatorAssumption ==
  /\ N1 \in Nat \ (0 .. 2) /\ N2 \in Nat /\ N3 \in Nat /\ N4 \in Nat
  /\ FIXED_UNIT_SIZE \in Nat \ {0} /\ UNIT_SIZE \in Nat /\ FIXED_UNIT_SIZE <= UNIT_SIZE
  /\ RootUnits \in 1 .. Largest /\ GlueWait \in Nat \ {0} /\ GlueLimit \in Nat
  /\ Memories \subseteq Nat /\ \A size \in Memories : SizeFor(RootUnits) < UpperUnits(size)
  /\ Leftovers \subseteq SUBSET Nat

VARIABLES
  SubAllocatorSize,
  LoUnit, HiUnit, UnitsStart,       \* in units
  FakeUnitsStart, pText,            \* in bytes
  GlueCount,
  blocks,       \* those of contexts and statistics, free ones, and those that are being glued
  Stamped,      \* the units that hold 0xFFFF
  stage, call   \* where AllocUnitsRare is, and what it was called for

heap_vars == <<SubAllocatorSize, LoUnit, HiUnit, UnitsStart, FakeUnitsStart, pText, GlueCount, blocks, Stamped, stage, call>>
ends == <<LoUnit, HiUnit, UnitsStart, FakeUnitsStart>>
EndUnit == FirstUnit(SubAllocatorSize) + UpperUnits(SubAllocatorSize)

-----------------------------------------------------------------------------
(* Blocks *)

Context(a) == [at |-> a, units |-> 1, is |-> "context", nu |-> 1]
Statistics(a, n) == [at |-> a, units |-> SizeFor(n), is |-> "statistics", nu |-> n]
FreeBlock(a, n) == [at |-> a, units |-> n, is |-> "free", nu |-> n]
Glued(a, n) == [at |-> a, units |-> n, is |-> "glued", nu |-> n]
Behind(b) == b.at + b.units
Freed(b) == FreeBlock(b.at, b.units)

FreeList(i) == {b \in blocks : b.is = "free" /\ b.units = Indx2Units[i]}
InUse == {b \in blocks : b.is = "statistics"}
InChain == {b \in blocks : b.is = "glued"}
\* Contexts, statistics and the links of a list overwrite the stamp: no number of states, no
\* frequency and no low half of an address is 0xFFFF.
Replace(old, new) == blocks' = (blocks \ old) \cup new /\ Stamped' = Stamped \ {b.at : b \in new}

\* Mutant: what is left over is put into the list of the next larger blocks.
Leftover_Larger(a, n) == {FreeBlock(a, SizeFor(n))}
\* n units from a on go into lists: two blocks, if they are of no size that there is.
Leftover(a, n) ==
  LET i == Units2Indx(n)
      first == Indx2Units[i - 1]
  IN  IF Indx2Units[i] = n THEN {FreeBlock(a, n)}
      ELSE {FreeBlock(a, first), FreeBlock(a + first, SizeFor(n - first))}
\* What SplitBlock leaves of b when the first n units of it are taken.
SplitBlock(b, n) == Leftover(b.at + n, b.units - n)

-----------------------------------------------------------------------------
(* InitSubAllocator, and the first context of all *)

\* malloc gives memory with anything in it, and memory that is there is not cleared.
InitSubAllocator(size, stamps) ==
  LET lo == FirstUnit(size)
      root == {Context((lo + UpperUnits(size)) - 1), Statistics(lo, RootUnits)}
  IN  /\ SubAllocatorSize' = size /\ pText' = 0 /\ GlueCount' = 0
      /\ UnitsStart' = lo /\ FakeUnitsStart' = Size1(size)
      /\ LoUnit' = lo + SizeFor(RootUnits) /\ HiUnit' = (lo + UpperUnits(size)) - 1
      /\ blocks' = root /\ Stamped' = stamps \ {b.at : b \in root}
Quiet == stage' = "model" /\ call' = [op |-> "none"]
RestartModelRare == InitSubAllocator(SubAllocatorSize, Stamped) /\ Quiet

\* An archive starts its model anew.  Memory of another size is another memory, and so it is
\* after an error.
DecodeInit ==
  /\ stage = "model" /\ Quiet
  /\ \/ RestartModelRare
     \/ \E size \in Memories, stamps \in Leftovers : InitSubAllocator(size, stamps)

-----------------------------------------------------------------------------
(* The allocations, each of so many units: of a new context, of new        *)
(* statistics, or of larger ones in the place of r.old                     *)

Allocates == {"AllocContext", "AllocUnits", "ExpandUnits"}
Index(r) == Units2Indx(r.nu)
Given(r, a) == IF r.op = "AllocContext" THEN Context(a) ELSE Statistics(a, r.nu)
\* The model gets the units at a, in the place of free blocks or of none, and leaves what it
\* does not need; what it had is free.
Get(r, a, from, rest) ==
  IF r.op = "ExpandUnits" THEN Replace(from \cup {r.old}, {Given(r, a), Freed(r.old)} \cup rest)
  ELSE Replace(from, {Given(r, a)} \cup rest)
RemoveNode(r) == \E b \in FreeList(Index(r)) : Get(r, b.at, {b}, {}) /\ Quiet

\* The next larger block there is; else units below all others, which the text loses; else
\* the model is started anew.
Larger(r) == {i \in Indexes : i > Index(r) /\ FreeList(i) # {}}
Search(r) ==
  \/ /\ \E i \in Larger(r) : i = Min(Larger(r)) /\ \E b \in FreeList(i) : Get(r, b.at, {b}, SplitBlock(b, Indx2Units[Index(r)]))
     /\ Quiet /\ UNCHANGED <<ends, pText, GlueCount, SubAllocatorSize>>
  \/ LET n == Indx2Units[Index(r)]
     IN  /\ Larger(r) = {} /\ FakeUnitsStart - pText > FIXED_UNIT_SIZE * n
         /\ FakeUnitsStart' = FakeUnitsStart - FIXED_UNIT_SIZE * n /\ UnitsStart' = UnitsStart - n /\ GlueCount' = GlueCount - 1
         /\ Get(r, UnitsStart - n, {}, {}) /\ Quiet /\ UNCHANGED <<LoUnit, HiUnit, pText, SubAllocatorSize>>
  \/ Larger(r) = {} /\ FakeUnitsStart - pText <= FIXED_UNIT_SIZE * Indx2Units[Index(r)] /\ RestartModelRare

\* Mutant: what LoUnit points to is left as it is.
Stamps_Left == Stamped \cup {b.at : b \in {c \in blocks : c.is = "free"}}
\* The byte that LoUnit points to is cleared, if it is in no block, and each free block is stamped.
Stamps == (Stamped \ (IF LoUnit # HiUnit THEN {LoUnit} ELSE {})) \cup {b.at : b \in {c \in blocks : c.is = "free"}}
Rare(r) ==
  IF GlueCount = 0
  THEN /\ GlueCount' = GlueWait /\ stage' = "glue" /\ call' = r /\ Stamped' = Stamps
       /\ blocks' = {IF b.is = "free" THEN Glued(b.at, b.units) ELSE b : b \in blocks}
       /\ UNCHANGED <<ends, pText, SubAllocatorSize>>
  ELSE Search(r)

AllocUnits(r) ==
  LET n == Indx2Units[Index(r)]
  IN  \/ RemoveNode(r) /\ UNCHANGED <<ends, pText, GlueCount, SubAllocatorSize>>
      \/ /\ FreeList(Index(r)) = {} /\ LoUnit + n <= HiUnit /\ LoUnit' = LoUnit + n
         /\ Get(r, LoUnit, {}, {}) /\ Quiet /\ UNCHANGED <<HiUnit, UnitsStart, FakeUnitsStart, pText, GlueCount, SubAllocatorSize>>
      \/ FreeList(Index(r)) = {} /\ LoUnit + n > HiUnit /\ Rare(r)

CreateChild ==
  LET r == [op |-> "AllocContext", nu |-> 1]
  IN  /\ stage = "model"
      /\ \/ /\ HiUnit # LoUnit /\ HiUnit' = HiUnit - 1 /\ Get(r, HiUnit - 1, {}, {}) /\ Quiet
            /\ UNCHANGED <<LoUnit, UnitsStart, FakeUnitsStart, pText, GlueCount, SubAllocatorSize>>
         \/ HiUnit = LoUnit /\ RemoveNode(r) /\ UNCHANGED <<ends, pText, GlueCount, SubAllocatorSize>>
         \/ HiUnit = LoUnit /\ FreeList(0) = {} /\ Rare(r)
SecondState == stage = "model" /\ AllocUnits([op |-> "AllocUnits", nu |-> 1])

\* Statistics of n units become larger or smaller by no unit if both sizes are of one block.
SameBlock(b, n) ==
  /\ Units2Indx(b.nu) = Units2Indx(n) /\ Replace({b}, {Statistics(b.at, n)}) /\ Quiet
  /\ UNCHANGED <<ends, pText, GlueCount, SubAllocatorSize>>
ExpandUnits ==
  /\ stage = "model"
  /\ \E b \in InUse :
       /\ b.nu < Largest
       /\ \/ SameBlock(b, b.nu + 1)
          \/ Units2Indx(b.nu) # Units2Indx(b.nu + 1) /\ AllocUnits([op |-> "ExpandUnits", nu |-> b.nu + 1, old |-> b])
ShrinkUnits ==
  /\ stage = "model"
  /\ \E b \in InUse : \E n \in 1 .. b.nu - 1 :
       \/ SameBlock(b, n)
       \/ /\ Units2Indx(b.nu) # Units2Indx(n) /\ Quiet /\ UNCHANGED <<ends, pText, GlueCount, SubAllocatorSize>>
          /\ \/ \E c \in FreeList(Units2Indx(n)) : Replace({b, c}, {Statistics(c.at, n), Freed(b)})
             \/ FreeList(Units2Indx(n)) = {} /\ Replace({b}, {Statistics(b.at, n)} \cup SplitBlock(b, SizeFor(n)))
FreeUnits ==
  /\ stage = "model" /\ Quiet /\ UNCHANGED <<ends, pText, GlueCount, SubAllocatorSize>>
  /\ \E b \in InUse : Replace({b}, {Freed(b)})

\* A character of the text, and the last one taken back.
TextGrows ==
  /\ stage = "model"
  /\ IF pText + 1 >= FakeUnitsStart THEN RestartModelRare
     ELSE pText' = pText + 1 /\ Quiet /\ UNCHANGED <<ends, GlueCount, SubAllocatorSize, blocks, Stamped>>
TextBack ==
  /\ stage = "model" /\ pText > 0 /\ pText' = pText - 1
  /\ Quiet /\ UNCHANGED <<ends, GlueCount, SubAllocatorSize, blocks, Stamped>>

-----------------------------------------------------------------------------
(* GlueFreeBlocks, and what AllocUnitsRare does afterwards *)

\* Each block of the chain takes in the one behind it as long as a stamp says that it is free.
Gluing(p, q) == q.at = Behind(p) /\ q.at \in Stamped /\ p.units + q.units < GlueLimit
Glue ==
  /\ stage = "glue" /\ UNCHANGED <<ends, pText, GlueCount, SubAllocatorSize, Stamped, call>>
  /\ \/ \E p, q \in InChain :
          Gluing(p, q) /\ blocks' = (blocks \ {p, q}) \cup {Glued(p.at, p.units + q.units)} /\ UNCHANGED stage
     \/ (\A p, q \in InChain : ~Gluing(p, q)) /\ stage' = "return" /\ UNCHANGED blocks
\* It goes back into the lists.
Return ==
  /\ stage = "return" /\ UNCHANGED <<ends, pText, GlueCount, SubAllocatorSize, call>>
  /\ \/ \E p \in InChain :
          IF p.units > Largest
          THEN /\ blocks' = (blocks \ {p}) \cup {FreeBlock(p.at, Largest), Glued(p.at + Largest, p.units - Largest)}
               /\ Stamped' = Stamped \ {p.at} /\ UNCHANGED stage
          ELSE Replace({p}, Leftover(p.at, p.units)) /\ UNCHANGED stage
     \/ InChain = {} /\ stage' = "rare" /\ UNCHANGED <<blocks, Stamped>>
AllocUnitsRare ==
  /\ stage = "rare"
  /\ \/ RemoveNode(call) /\ UNCHANGED <<ends, pText, GlueCount, SubAllocatorSize>>
     \/ FreeList(Index(call)) = {} /\ Search(call)

HeapInit ==
  \E size \in Memories, stamps \in Leftovers :
    LET lo == FirstUnit(size)
        root == {Context((lo + UpperUnits(size)) - 1), Statistics(lo, RootUnits)}
    IN  /\ SubAllocatorSize = size /\ pText = 0 /\ GlueCount = 0 /\ UnitsStart = lo /\ FakeUnitsStart = Size1(size)
        /\ LoUnit = lo + SizeFor(RootUnits) /\ HiUnit = (lo + UpperUnits(size)) - 1
        /\ blocks = root /\ Stamped = stamps \ {b.at : b \in root}
        /\ stage = "model" /\ call = [op |-> "none"]
HeapStep ==
  \/ DecodeInit \/ CreateChild \/ SecondState \/ ExpandUnits \/ ShrinkUnits \/ FreeUnits \/ TextGrows \/ TextBack
  \/ Glue \/ Return \/ AllocUnitsRare
HeapSpec == HeapInit /\ [][HeapStep]_heap_vars

-----------------------------------------------------------------------------
\* No unit is in two blocks, whatever is split, glued and given back.
BlocksApart == \A b, c \in blocks : b # c => Behind(b) <= c.at \/ Behind(c) <= b.at
\* No unit is lost: each that was handed out is in a block, and nothing else is.
Handed == (UnitsStart .. LoUnit - 1) \cup (HiUnit .. EndUnit - 1)
UnitsKept == UNION {b.at .. Behind(b) - 1 : b \in blocks} = Handed
\* A stamp behind a free block is that of a free block: not what was left of an earlier one,
\* nor what happens to be where nothing was written.
StampsTold == stage = "glue" => \A p \in InChain : Behind(p) \in Stamped => \E q \in InChain : q.at = Behind(p)
\* The text ends below the units, and statistics have room for as many as they are for.
TextBelow == pText < FakeUnitsStart /\ FakeUnitsStart <= UnitsStart * UNIT_SIZE
RoomForAll == \A b \in blocks : IF b.is = "free" THEN \E i \in Indexes : b.units = Indx2Units[i] ELSE b.nu <= b.units
HeapSound == BlocksApart /\ UnitsKept /\ StampsTold /\ TextBelow /\ RoomForAll
===============================================================================
