----------------------------- MODULE UnrarProofs ------------------------------
(***************************************************************************)
(* Proofs about the decoder of scan_rar: for any window and buffer, any    *)
(* component, any tokens and any matches.  And about the memory of its     *)
(* model of characters: for any sizes of blocks and of memory.             *)
(***************************************************************************)
EXTENDS Unrar, SubAllocator, WellFoundedInduction, TLAPS

-----------------------------------------------------------------------------
(* The input: what the buffer holds is the packed bytes, in order *)

Inputs ==
  [InBuf : [0 .. MAX_SIZE - 1 -> Int], InAddr : Nat, ReadTop : 0 .. MAX_SIZE, UnpPackedSize : 0 .. arc.packed, used : Nat]
Ordered(in) ==
  /\ \A i \in 0 .. in.ReadTop - 1 : in.InBuf[i] = in.used - in.InAddr + i
  /\ in.used - in.InAddr + in.ReadTop = arc.packed - in.UnpPackedSize
\* Once it has been filled the buffer is full, up to what it is filled by multiples of.
Filled(in) == ~Exhausted(in) => in.ReadTop > MAX_SIZE - READ_ALIGN
Margin(in) == ~Exhausted(in) => in.InAddr + READ_BORDER <= in.ReadTop

Steps == {"header", "init", "loop", "token", "copy", "vm", "tables", "entries", "model", "last", "write", "end"}
Shape ==
  /\ IsComponent /\ step \in Steps /\ block \in {"lz", "ppm", "audio"} /\ tables \in {"first", "next", "last"}
Good(in) == in \in Inputs /\ Ordered(in) /\ (CanRead(in) \/ Exhausted(in))
InputInv ==
  /\ Shape /\ Good(input)
  /\ step \in {"header", "init"} => input.InAddr = 0 /\ input.ReadTop = 0
  /\ step \notin {"header", "init", "end"} => Filled(input)
  /\ step = "token" /\ block # "ppm" => Margin(input)

\* What is asked for is rounded down, by less than a multiple.
LEMMA AlignedBound ==
  ASSUME NEW n \in Nat
  PROVE  Aligned(n) \in 0 .. n /\ Aligned(n) > n - READ_ALIGN
  BY UnrarAssumption DEF Aligned

LEMMA ReadBound ==
  ASSUME IsComponent, NEW in \in Inputs, NEW n \in Nat
  PROVE  /\ UnpRead(in, n) \in 0 .. Lesser(n, in.UnpPackedSize)
         /\ UnpRead(in, n) = Lesser(n, in.UnpPackedSize) \/ arc.packed - in.UnpPackedSize + Lesser(n, in.UnpPackedSize) > arc.held
  BY SMTT(30) DEF UnpRead, Lesser, Inputs, IsComponent

LEMMA MaxIsNat == MAX_SIZE \in Nat /\ MAX_SIZE \div 2 \in Nat /\ MAX_SIZE \div 2 < MAX_SIZE
  BY UnrarAssumption

\* Filling the buffer keeps what is in it, and what follows is the next of the component.
LEMMA Refill ==
  ASSUME IsComponent, NEW in \in Inputs, Ordered(in), CanRead(in)
  PROVE  /\ UnpReadBuf(in) \in Inputs /\ Ordered(UnpReadBuf(in)) /\ CanRead(UnpReadBuf(in)) /\ Filled(UnpReadBuf(in))
         /\ UnpReadBuf(in).InAddr <= MAX_SIZE \div 2 /\ UnpReadBuf(in).used = in.used
         /\ Exhausted(in) => Exhausted(UnpReadBuf(in))
<1> DEFINE from == IF in.InAddr > MAX_SIZE \div 2 THEN in.InAddr ELSE 0
           size == in.ReadTop - from
           asked == Aligned(MAX_SIZE - size)
           n == UnpRead(in, asked)
           next == arc.packed - in.UnpPackedSize
           slot(i) == IF i < size THEN in.InBuf[from + i] ELSE IF i < size + n THEN next + (i - size) ELSE in.InBuf[i]
           r == UnpReadBuf(in)
<1>1. r = [InBuf |-> [i \in DOMAIN in.InBuf |-> slot(i)], InAddr |-> in.InAddr - from, ReadTop |-> size + n,
           UnpPackedSize |-> in.UnpPackedSize - n, used |-> in.used]
  BY DEF UnpReadBuf
<1>2. /\ in.InAddr \in Nat /\ in.ReadTop \in 0 .. MAX_SIZE /\ in.UnpPackedSize \in 0 .. arc.packed /\ in.used \in Nat
      /\ in.InBuf \in [0 .. MAX_SIZE - 1 -> Int] /\ arc.packed \in Nat /\ arc.held \in Nat /\ in.InAddr <= in.ReadTop
  BY DEF Inputs, IsComponent, CanRead
<1>3. /\ from \in 0 .. in.InAddr /\ size \in 0 .. MAX_SIZE /\ in.InAddr - from \in 0 .. MAX_SIZE \div 2 /\ in.InAddr - from <= size
      /\ size = in.ReadTop - from /\ next \in Int /\ next = arc.packed - in.UnpPackedSize
  BY <1>2, MaxIsNat, SMTT(30)
<1> HIDE DEF from, next
<1>4. asked \in 0 .. MAX_SIZE - size /\ asked > MAX_SIZE - size - READ_ALIGN
  <2>1. MAX_SIZE - size \in Nat BY <1>3, MaxIsNat
  <2> QED BY <2>1, AlignedBound
<1> HIDE DEF asked
<1>5. /\ n \in 0 .. Lesser(asked, in.UnpPackedSize)
      /\ n = Lesser(asked, in.UnpPackedSize) \/ next + Lesser(asked, in.UnpPackedSize) > arc.held
  <2>1. asked \in Nat BY <1>4, <1>3, MaxIsNat
  <2> QED BY <2>1, <1>3, ReadBound
<1> HIDE DEF n
<1>6. n \in 0 .. asked /\ n <= in.UnpPackedSize /\ size + n \in 0 .. MAX_SIZE
  <2>1. in.UnpPackedSize \in Nat /\ asked \in Nat /\ asked <= MAX_SIZE - size /\ size \in Nat /\ MAX_SIZE \in Nat
    BY <1>2, <1>3, <1>4, MaxIsNat
  <2> HIDE DEF size
  <2>2. n \in Nat /\ n <= asked /\ n <= in.UnpPackedSize
    BY <2>1, <1>5 DEF Lesser
  <2> QED BY <2>1, <2>2
<1>7. \A i \in 0 .. MAX_SIZE - 1 : slot(i) \in Int
  <2> SUFFICES ASSUME NEW i \in 0 .. MAX_SIZE - 1 PROVE slot(i) \in Int
    OBVIOUS
  <2>1. CASE i < size
    <3>1. from + i \in 0 .. MAX_SIZE - 1 BY <2>1, <1>2, <1>3, MaxIsNat
    <3>2. in.InBuf[from + i] \in Int BY <3>1, <1>2
    <3> QED BY <2>1, <3>2
  <2>2. CASE ~(i < size) /\ i < size + n
    <3>1. next + (i - size) \in Int BY <1>3
    <3> QED BY <2>2, <3>1
  <2>3. CASE ~(i < size) /\ ~(i < size + n)
    BY <2>3, <1>2
  <2> QED BY <2>1, <2>2, <2>3
<1>8. r \in Inputs
  <2>1. [i \in DOMAIN in.InBuf |-> slot(i)] \in [0 .. MAX_SIZE - 1 -> Int]
    BY <1>2, <1>7
  <2>2. in.InAddr - from \in Nat /\ in.UnpPackedSize - n \in 0 .. arc.packed
    <3>1. in.InAddr - from \in Nat BY <1>2, <1>3
    <3>2. n \in Nat /\ n <= in.UnpPackedSize BY <1>6, <1>4
    <3>3. in.UnpPackedSize - n \in 0 .. arc.packed BY <1>2, <3>2
    <3> QED BY <3>1, <3>3
  <2> HIDE DEF size, slot
  <2> QED BY <1>1, <1>2, <1>6, <2>1, <2>2 DEF Inputs
<1>9. r.InAddr = in.InAddr - from /\ r.ReadTop = size + n /\ r.UnpPackedSize = in.UnpPackedSize - n /\ r.used = in.used
  BY <1>1
<1>10. Ordered(r)
  <2>1. \A i \in 0 .. in.ReadTop - 1 : in.InBuf[i] = in.used - in.InAddr + i
    BY DEF Ordered
  <2>2. in.used - in.InAddr + in.ReadTop = next
    BY <1>3 DEF Ordered
  <2>3. \A i \in 0 .. (size + n) - 1 : slot(i) = in.used - (in.InAddr - from) + i
    <3> SUFFICES ASSUME NEW i \in 0 .. (size + n) - 1
                 PROVE  slot(i) = in.used - (in.InAddr - from) + i
      OBVIOUS
    <3>1. CASE i < size
      <4>1. from + i \in 0 .. in.ReadTop - 1
        <5>1. i \in Nat /\ from \in Nat /\ in.ReadTop \in Nat /\ i < in.ReadTop - from BY <3>1, <1>2, <1>3
        <5> QED BY <5>1
      <4>2. in.InBuf[from + i] = in.used - in.InAddr + (from + i) BY <4>1, <2>1
      <4> QED BY <4>2, <3>1, <1>2, <1>3, SMTT(30)
    <3>2. CASE ~(i < size)
      <4>1. slot(i) = next + (i - size) BY <3>2, <1>3, <1>6
      <4>2. next + (i - size) = in.used - (in.InAddr - from) + i
        <5> DEFINE u == in.used  a == in.InAddr  t == in.ReadTop
        <5>1. u \in Int /\ a \in Int /\ t \in Int /\ from \in Int /\ i \in Int /\ size = t - from /\ u - a + t = next
          <6>1. u \in Int /\ a \in Int /\ t \in Int BY <1>2
          <6>2. from \in Int /\ size = t - from BY <1>2, <1>3
          <6> QED BY <6>1, <6>2, <2>2
        <5> HIDE DEF u, a, t, size
        <5>2. next + (i - size) = u - (a - from) + i BY <5>1
        <5> QED BY <5>2 DEF u, a
      <4> QED BY <4>1, <4>2
    <3> QED BY <3>1, <3>2
  <2>4. \A i \in 0 .. (size + n) - 1 : r.InBuf[i] = slot(i)
    <3>1. r.InBuf = [i \in 0 .. MAX_SIZE - 1 |-> slot(i)] BY <1>1, <1>2
    <3>2. \A i \in 0 .. (size + n) - 1 : i \in 0 .. MAX_SIZE - 1 BY <1>6, MaxIsNat
    <3> QED BY <3>1, <3>2
  <2>5. in.used - (in.InAddr - from) + (size + n) = arc.packed - (in.UnpPackedSize - n)
    <3> DEFINE u == in.used  a == in.InAddr  t == in.ReadTop  q == in.UnpPackedSize  p == arc.packed
    <3>1. u \in Int /\ a \in Int /\ t \in Int /\ q \in Int /\ p \in Int /\ from \in Int /\ n \in Int /\ size = t - from /\ u - a + t = p - q
      <4>1. u \in Int /\ a \in Int /\ t \in Int /\ q \in Int /\ p \in Int BY <1>2
      <4>2. from \in Int /\ n \in Int /\ size = t - from BY <1>2, <1>3, <1>4, <1>6
      <4>3. next = p - q BY <1>3
      <4> QED BY <4>1, <4>2, <4>3, <2>2
    <3> HIDE DEF u, a, t, q, p, size
    <3>2. u - (a - from) + (size + n) = p - (q - n)
      BY <3>1
    <3> QED BY <3>2 DEF u, a, q, p
  <2> HIDE DEF size, slot, r
  <2> QED BY <2>3, <2>4, <2>5, <1>9 DEF Ordered
<1>11. CanRead(r)
  BY <1>9, <1>2, <1>3, <1>6, SMTT(30) DEF CanRead
<1>12. Exhausted(in) => Exhausted(r)
  BY <1>2, <1>6, <1>9, MaxIsNat, SMTT(30) DEF Exhausted, Lesser
<1>13. Filled(r)
  <2> SUFFICES ASSUME ~Exhausted(r) PROVE r.ReadTop > MAX_SIZE - READ_ALIGN
    BY DEF Filled
  <2>1. r.UnpPackedSize # 0 /\ arc.packed - r.UnpPackedSize + Lesser(MAX_SIZE, r.UnpPackedSize) <= arc.held
    <3>1. arc.packed - r.UnpPackedSize + Lesser(MAX_SIZE, r.UnpPackedSize) \in Int
      BY <1>2, <1>6, <1>9, MaxIsNat DEF Lesser
    <3> QED BY <3>1, <1>2 DEF Exhausted
  <2>2. n = asked
    <3> HIDE DEF size, r
    <3> DEFINE left == in.UnpPackedSize
    <3>1. /\ left \in Nat /\ arc.held \in Nat /\ next \in Int /\ n \in Nat /\ asked \in Nat /\ asked <= MAX_SIZE /\ MAX_SIZE \in Nat
          /\ n <= asked /\ n <= left
      BY <1>2, <1>3, <1>4, <1>6, MaxIsNat
    <3>2. left - n # 0 /\ (next + n) + Lesser(MAX_SIZE, left - n) <= arc.held
      <4>1. arc.packed - r.UnpPackedSize = next + n /\ r.UnpPackedSize = left - n
        <5>1. r.UnpPackedSize = left - n /\ next = arc.packed - left
          BY <1>9, <1>3
        <5>2. arc.packed \in Int /\ left \in Int /\ n \in Int
          BY <1>2, <3>1
        <5> HIDE DEF left, n, next
        <5> QED BY ONLY <5>1, <5>2
      <4> QED BY <4>1, <2>1
    <3>3. n = Lesser(asked, left) \/ next + Lesser(asked, left) > arc.held
      BY <1>5
    <3> HIDE DEF left
    <3>4. ASSUME next + Lesser(asked, left) > arc.held PROVE FALSE
      BY <3>1, <3>2, <3>4 DEF Lesser
    <3>5. n = Lesser(asked, left) BY <3>3, <3>4
    <3> QED BY <3>5, <3>1, <3>2 DEF Lesser
  <2>3. r.ReadTop = size + asked
    BY <1>9, <2>2
  <2>4. READ_ALIGN \in Nat /\ MAX_SIZE \in Nat /\ size \in Nat /\ asked \in Int
    BY <1>3, <1>4, MaxIsNat, UnrarAssumption
  <2> HIDE DEF size, slot, r
  <2> QED BY <1>4, <2>3, <2>4
<1> HIDE DEF r
<1> QED BY <1>8, <1>9, <1>10, <1>11, <1>12, <1>13, <1>3 DEF r

LEMMA InputsFields ==
  ASSUME NEW in \in Inputs
  PROVE  /\ in.InAddr \in Nat /\ in.ReadTop \in 0 .. MAX_SIZE /\ in.UnpPackedSize \in 0 .. arc.packed /\ in.used \in Nat
         /\ in.InBuf \in [0 .. MAX_SIZE - 1 -> Int]
  BY DEF Inputs

\* The buffer was filled before what was asked for could be missing, unless there is no more.
LEMMA FilledIsEnough ==
  ASSUME NEW in \in Inputs, Filled(in), NEW n \in Nat, n <= READ_BORDER, in.InAddr <= MAX_SIZE \div 2 \/ in.InAddr + n <= MAX_SIZE - READ_ALIGN
  PROVE  ~Exhausted(in) => in.InAddr + n <= in.ReadTop
<1> SUFFICES ASSUME ~Exhausted(in) PROVE in.InAddr + n <= in.ReadTop
  OBVIOUS
<1>1. in.ReadTop > MAX_SIZE - READ_ALIGN
  BY DEF Filled
<1>2. in.InAddr + n <= MAX_SIZE - READ_ALIGN
  BY InputsFields, MaxIsNat, UnrarAssumption
<1> QED BY <1>1, <1>2, InputsFields, MaxIsNat, UnrarAssumption, SMTT(30)

LEMMA AskedKeeps ==
  ASSUME IsComponent, NEW in, Good(in), Filled(in), NEW n \in Nat, NEW k \in 0 .. n, k <= READ_BORDER
  PROVE  /\ Good(Asked(in, n)) /\ Filled(Asked(in, n)) /\ (CanRead(in) => CanRead(Asked(in, n)))
         /\ ~Exhausted(Asked(in, n)) => Asked(in, n).InAddr + k <= Asked(in, n).ReadTop
<1>1. CASE in.InAddr > in.ReadTop - n /\ CanRead(in)
  <2> DEFINE r == UnpReadBuf(in)
  <2>1. /\ r \in Inputs /\ Ordered(r) /\ CanRead(r) /\ Filled(r) /\ r.InAddr <= MAX_SIZE \div 2
    BY <1>1, Refill DEF Good
  <2>2. Asked(in, n) = r
    BY <1>1 DEF Asked
  <2> HIDE DEF r
  <2>3. ~Exhausted(r) => r.InAddr + k <= r.ReadTop
    BY <2>1, FilledIsEnough
  <2> QED BY <2>1, <2>2, <2>3 DEF Good
<1>2. CASE ~(in.InAddr > in.ReadTop - n /\ CanRead(in))
  <2>1. Asked(in, n) = in
    BY <1>2 DEF Asked
  <2>2. ~Exhausted(in) => in.InAddr + k <= in.ReadTop
    BY <1>2, InputsFields, MaxIsNat DEF Good
  <2> QED BY <2>1, <2>2
<1> QED BY <1>1, <1>2

LEMMA UsedKeeps ==
  ASSUME NEW in \in Inputs, Ordered(in), NEW n \in Nat, ~Exhausted(in) => in.InAddr + n <= in.ReadTop
  PROVE  Good(Used(in, n)) /\ (Filled(in) => Filled(Used(in, n))) /\ (n = 0 /\ CanRead(in) => CanRead(Used(in, n)))
<1> DEFINE r == Used(in, n)
<1>2. r.InBuf = in.InBuf /\ r.InAddr = in.InAddr + n /\ r.ReadTop = in.ReadTop /\ r.UnpPackedSize = in.UnpPackedSize /\ r.used = in.used + n
  BY DEF Used, Inputs
<1>3. r \in Inputs
  <2>1. in.InAddr + n \in Nat /\ in.used + n \in Nat BY InputsFields
  <2> QED BY <2>1 DEF Inputs, Used
<1>4. (Exhausted(r) <=> Exhausted(in)) /\ (Filled(in) => Filled(r))
  BY <1>2 DEF Exhausted, Filled
<1>6. Ordered(r)
  <2>1. r.used - r.InAddr = in.used - in.InAddr
    <3>1. r.used = in.used + n /\ r.InAddr = in.InAddr + n BY <1>2
    <3>2. in.used \in Int /\ in.InAddr \in Int BY InputsFields
    <3> HIDE DEF r
    <3> QED BY <3>1, <3>2
  <2>2. r.InBuf = in.InBuf /\ r.ReadTop = in.ReadTop /\ r.UnpPackedSize = in.UnpPackedSize BY <1>2
  <2> HIDE DEF r
  <2> QED BY <2>1, <2>2 DEF Ordered
<1>7. CanRead(r) \/ Exhausted(r)
  BY <1>2, <1>4 DEF CanRead
<1>8. n = 0 /\ CanRead(in) => CanRead(r)
  BY <1>2, InputsFields DEF CanRead
<1> HIDE DEF r
<1> QED BY <1>3, <1>4, <1>6, <1>7, <1>8 DEF Good, r

\* What is said of the input depends on the component, which stays as it is.
LEMMA InputMoved ==
  ASSUME UNCHANGED arc, Shape, Good(input'), step' \in Steps, block' \in {"lz", "ppm", "audio"}, tables' \in {"first", "next", "last"},
         step' \in {"header", "init"} => input'.InAddr = 0 /\ input'.ReadTop = 0,
         step' \notin {"header", "init", "end"} => Filled(input'),
         step' = "token" /\ block' # "ppm" => Margin(input')
  PROVE  InputInv'
  BY DEF InputInv, Shape, IsComponent, Good, Inputs, Ordered, CanRead, Exhausted, Filled, Margin

\* The buffer always holds the packed bytes that are next, in order, and it is filled before
\* a token could read beyond it.
LEMMA InputHolds == UnrarInit => InputInv
<1> SUFFICES ASSUME UnrarInit PROVE InputInv
  OBVIOUS
<1>1. arc.packed \in Nat /\ arc.held \in Nat /\ IsComponent
  BY DEF UnrarInit, IsComponent
<1>2. input \in Inputs /\ input.InAddr = 0 /\ input.ReadTop = 0 /\ input.used = 0 /\ input.UnpPackedSize = arc.packed
  BY <1>1, MaxIsNat DEF UnrarInit, Inputs
<1>3. Ordered(input) /\ CanRead(input)
  BY <1>1, <1>2 DEF Ordered, CanRead
<1> QED BY <1>1, <1>2, <1>3 DEF InputInv, Shape, Steps, Good, UnrarInit

LEMMA TokenInput ==
  ASSUME InputInv, Token
  PROVE  Good(input') /\ Filled(input')
<1>1. PICK n \in IF block = "ppm" THEN {0} ELSE arc.tokens : input' = Used(input, n)
  BY DEF Token
<1>2. Good(input) /\ Filled(input) /\ IsComponent /\ (block # "ppm" => Margin(input))
  BY DEF InputInv, Token, Shape
<1>3. n \in Nat /\ n <= READ_BORDER /\ (block = "ppm" => n = 0)
  BY <1>1, <1>2, UnrarAssumption DEF IsComponent
<1>4. ~Exhausted(input) => input.InAddr + n <= input.ReadTop
  BY <1>2, <1>3, InputsFields, UnrarAssumption DEF Good, Margin, CanRead
<1> QED BY <1>1, <1>2, <1>3, <1>4, UsedKeeps DEF Good

LEMMA InputStays == InputInv /\ UnrarStep => InputInv'
<1> SUFFICES ASSUME InputInv, UnrarStep PROVE InputInv'
  OBVIOUS
<1> USE DEF Steps
<1>1. Shape /\ Good(input) /\ IsComponent
  BY DEF InputInv, Shape
<1>2. step \notin {"header", "init", "end"} => Filled(input)
  BY DEF InputInv
<1>3. block \in {"lz", "ppm", "audio"} /\ tables \in {"first", "next", "last"} /\ input \in Inputs
  BY <1>1 DEF Shape, Good
<1>4. CASE ExtractCurrentFile
  BY <1>4, <1>1, <1>3, InputMoved DEF ExtractCurrentFile, InputInv
<1>5. CASE DoUnpack
  <2>1. input.InAddr = 0 /\ CanRead(input) /\ Ordered(input)
    BY <1>5, <1>1, InputsFields DEF DoUnpack, InputInv, CanRead, Good
  <2> DEFINE r == UnpReadBuf(input)
  <2>2. r \in Inputs /\ Ordered(r) /\ CanRead(r) /\ Filled(r) /\ r.InAddr <= MAX_SIZE \div 2
    BY <2>1, <1>1, <1>3, Refill
  <2>3. PICK n \in IF Method = 15 THEN arc.tokens ELSE {0} : input' = Used(r, n)
    BY <1>5 DEF DoUnpack
  <2>4. n \in Nat /\ n <= READ_BORDER
    BY <2>3, <1>1, UnrarAssumption DEF IsComponent
  <2> HIDE DEF r
  <2>5. Good(input') /\ Filled(input')
    BY <2>2, <2>3, <2>4, FilledIsEnough, UsedKeeps
  <2> QED BY <2>5, <1>5, <1>1, <1>3, InputMoved DEF DoUnpack
<1>6. CASE LoopEnds
  BY <1>6, <1>1, <1>2, <1>3, InputMoved DEF LoopEnds, Leave
<1>7. ASSUME LoopGoesOn PROVE Good(input') /\ Filled(input') /\ Margin(input')
  <2>1. Filled(input) /\ input' = Asked(input, READ_BORDER) /\ READ_BORDER \in 0 .. READ_BORDER /\ READ_BORDER \in Nat
    BY <1>7, <1>2, UnrarAssumption DEF LoopGoesOn
  <2> QED BY <2>1, <1>1, AskedKeeps DEF Margin
<1>8. CASE LoopTop
  BY <1>7, <1>8, <1>1, <1>3, InputMoved DEF LoopTop
<1>9. CASE LoopWrites
  BY <1>7, <1>9, <1>1, <1>3, InputMoved DEF LoopWrites
<1>10. CASE GetChar
  <2> DEFINE r == IF input.InAddr > MAX_SIZE - READ_BORDER /\ CanRead(input) THEN UnpReadBuf(input) ELSE input
  <2>1. Filled(input) /\ input' = Used(r, 1)
    BY <1>10, <1>2 DEF GetChar
  <2>2. r \in Inputs /\ Ordered(r) /\ Filled(r) /\ (~Exhausted(r) => r.InAddr + 1 <= r.ReadTop)
    <3>1. CASE input.InAddr > MAX_SIZE - READ_BORDER /\ CanRead(input)
      <4>1. r \in Inputs /\ Ordered(r) /\ Filled(r) /\ r.InAddr <= MAX_SIZE \div 2
        BY <3>1, <1>1, <1>3, Refill DEF Good
      <4> HIDE DEF r
      <4> QED BY <4>1, FilledIsEnough, UnrarAssumption
    <3>2. CASE input.InAddr > MAX_SIZE - READ_BORDER /\ ~CanRead(input)
      BY <3>2, <2>1, <1>1 DEF Good
    <3>3. CASE ~(input.InAddr > MAX_SIZE - READ_BORDER)
      <4>1. r = input
        BY <3>3
      <4>2. ~Exhausted(input) => input.InAddr + 1 <= input.ReadTop
        BY <3>3, <2>1, InputsFields, MaxIsNat, UnrarAssumption, <1>3 DEF Filled
      <4> QED BY <4>1, <4>2, <2>1, <1>1 DEF Good
    <3> QED BY <3>1, <3>2, <3>3
  <2> HIDE DEF r
  <2>3. Good(input') /\ Filled(input')
    BY <2>1, <2>2, UsedKeeps
  <2>4. step' \in {"token", "model"} /\ block' = "ppm" /\ UNCHANGED arc /\ tables' = tables
    BY <1>10 DEF GetChar
  <2> QED BY <2>3, <2>4, <1>1, <1>3, InputMoved
<1>11. ASSUME Token, step' \in {"loop", "copy", "vm", "tables", "last", "write"}, tables' \in {tables, "next"} PROVE InputInv'
  <2>1. Good(input') /\ Filled(input')
    BY <1>11, TokenInput
  <2>2. UNCHANGED <<arc, block>>
    BY <1>11 DEF Token
  <2> QED BY <2>1, <2>2, <1>11, <1>1, <1>3, InputMoved
<1>12. CASE DecodeByte
  BY <1>11, <1>12 DEF DecodeByte
<1>13. CASE DecodeNothing
  BY <1>11, <1>13 DEF DecodeNothing
<1>14. CASE DecodeMatch
  BY <1>11, <1>14 DEF DecodeMatch, CopyString
<1>15. CASE DecodeRepetition
  BY <1>11, <1>15 DEF DecodeRepetition, CopyString
<1>16. CASE CopyByte
  BY <1>16, <1>1, <1>2, <1>3, InputMoved DEF CopyByte
<1>17. CASE NewTables
  BY <1>11, <1>17 DEF NewTables
<1>18. CASE EndOfFile
  BY <1>11, <1>18 DEF EndOfFile, Leave
<1>19. CASE VMCode
  BY <1>11, <1>19 DEF VMCode
<1>20. CASE VMByte
  <2>1. Filled(input) /\ UNCHANGED <<arc, block, tables>>
    BY <1>20, <1>2 DEF VMByte
  <2>2. \/ Leave /\ UNCHANGED input
        \/ input' = Used(Asked(input, 2), 1) /\ step' \in {"loop", "vm"}
    BY <1>20 DEF VMByte
  <2>3. CASE Leave /\ UNCHANGED input
    BY <2>1, <2>3, <1>1, <1>3, InputMoved DEF Leave
  <2>4. CASE input' = Used(Asked(input, 2), 1) /\ step' \in {"loop", "vm"}
    <3> DEFINE r == Asked(input, 2)
    <3> SUFFICES Good(input') /\ Filled(input')
      BY <2>1, <2>4, <1>1, <1>3, InputMoved
    <3>1. Good(r) /\ Filled(r) /\ (~Exhausted(r) => r.InAddr + 1 <= r.ReadTop)
      <4>1. 2 \in Nat /\ 1 \in 0 .. 2 /\ 1 <= READ_BORDER BY UnrarAssumption
      <4> QED BY <4>1, <2>1, <1>1, AskedKeeps
    <3> HIDE DEF r
    <3>2. input' = Used(r, 1)
      BY <2>4 DEF r
    <3> QED BY <3>1, <3>2, UsedKeeps DEF Good
  <2> QED BY <2>2, <2>3, <2>4
<1>21. CASE ReadTables
  <2>1. Filled(input) /\ UNCHANGED <<arc, tables>>
    BY <1>21, <1>2 DEF ReadTables
  <2>2. CASE ~CanRead(input) /\ TablesFail /\ UNCHANGED <<block, input>>
    BY <2>1, <2>2, <1>1, <1>3, InputMoved DEF TablesFail, Leave
  <2>3. CASE CanRead(input) /\ block' \in {"lz", "ppm", "audio"} /\ step' \in {"model", "entries"}
             /\ \E n \in arc.tokens : input' = Used(Asked(input, TABLES_BORDER), Lesser(n, IF block' = "ppm" THEN 1 ELSE TABLES_BORDER))
    <3> DEFINE r == Asked(input, TABLES_BORDER)
    <3> SUFFICES Good(input') /\ Filled(input')
      BY <2>1, <2>3, <1>1, <1>3, InputMoved
    <3>1. PICK n \in arc.tokens : input' = Used(r, Lesser(n, IF block' = "ppm" THEN 1 ELSE TABLES_BORDER))
      BY <2>3
    <3> DEFINE k == Lesser(n, IF block' = "ppm" THEN 1 ELSE TABLES_BORDER)
    <3>2. TABLES_BORDER \in Nat /\ k \in 0 .. TABLES_BORDER /\ k <= READ_BORDER
      BY <1>1, UnrarAssumption DEF Lesser, IsComponent
    <3> HIDE DEF k
    <3>3. Good(r) /\ Filled(r) /\ (~Exhausted(r) => r.InAddr + k <= r.ReadTop)
      BY <3>2, <2>1, <1>1, AskedKeeps
    <3> HIDE DEF r
    <3>4. input' = Used(r, k)
      BY <3>1 DEF k, r
    <3> QED BY <3>2, <3>3, <3>4, UsedKeeps DEF Good
  <2> QED BY <2>2, <2>3, <1>21 DEF ReadTables
<1>22. CASE TableEntry
  <2>1. Filled(input) /\ UNCHANGED <<arc, tables, block>>
    BY <1>22, <1>2 DEF TableEntry
  <2>2. CASE ~CanRead(input) /\ TablesFail /\ UNCHANGED <<block, input>>
    BY <2>1, <2>2, <1>1, <1>3, InputMoved DEF TablesFail, Leave
  <2>3. CASE /\ step' \in {"entries", "loop", "write", "end", "last"}
             /\ \E n \in arc.tokens : input' = Used(Asked(input, ENTRY_BORDER), Lesser(n, ENTRY_BORDER))
    <3> DEFINE r == Asked(input, ENTRY_BORDER)
    <3> SUFFICES Good(input') /\ Filled(input')
      BY <2>1, <2>3, <1>1, <1>3, InputMoved
    <3>1. PICK n \in arc.tokens : input' = Used(r, Lesser(n, ENTRY_BORDER))
      BY <2>3
    <3> DEFINE k == Lesser(n, ENTRY_BORDER)
    <3>2. ENTRY_BORDER \in Nat /\ k \in 0 .. ENTRY_BORDER /\ k <= READ_BORDER
      BY <1>1, UnrarAssumption DEF Lesser, IsComponent
    <3> HIDE DEF k
    <3>3. Good(r) /\ Filled(r) /\ (~Exhausted(r) => r.InAddr + k <= r.ReadTop)
      BY <3>2, <2>1, <1>1, AskedKeeps
    <3> HIDE DEF r
    <3>4. input' = Used(r, k)
      BY <3>1 DEF k, r
    <3> QED BY <3>2, <3>3, <3>4, UsedKeeps DEF Good
  <2>4. TablesMade \in {"loop", "write"} /\ (TablesFail => step' \in {"loop", "write", "end", "last"})
    BY DEF TablesMade, TablesFail, Leave
  <2> QED BY <2>2, <2>3, <2>4, <1>22 DEF TableEntry
<1>23. CASE ModelMade
  BY <1>23, <1>1, <1>2, <1>3, InputMoved DEF ModelMade, TablesFail, Leave
<1>24. CASE ReadLastTables
  <2>1. Filled(input) /\ UNCHANGED <<arc, block>>
    BY <1>24, <1>2 DEF ReadLastTables
  <2>2. CASE step' = "write" /\ UNCHANGED <<tables, input>>
    BY <2>1, <2>2, <1>1, <1>3, InputMoved
  <2>3. CASE /\ input.InAddr + ENTRY_BORDER <= input.ReadTop /\ step' \in {"write", "tables"} /\ tables' \in {tables, "last"}
             /\ \E n \in arc.tokens : input' = Used(input, Lesser(n, ENTRY_BORDER))
    <3> SUFFICES Good(input') /\ Filled(input')
      BY <2>1, <2>3, <1>1, <1>3, InputMoved
    <3>1. PICK n \in arc.tokens : input' = Used(input, Lesser(n, ENTRY_BORDER))
      BY <2>3
    <3> DEFINE k == Lesser(n, ENTRY_BORDER)
    <3>2. ENTRY_BORDER \in Nat /\ k \in 0 .. ENTRY_BORDER
      BY <1>1, UnrarAssumption DEF Lesser, IsComponent
    <3> HIDE DEF k
    <3>3. input.InAddr + k <= input.ReadTop
      BY <2>3, <3>2, <1>3, InputsFields, MaxIsNat
    <3>4. input' = Used(input, k)
      BY <3>1 DEF k
    <3> QED BY <3>2, <3>3, <3>4, <2>1, <1>1, UsedKeeps DEF Good
  <2> QED BY <2>2, <2>3, <1>24 DEF ReadLastTables
<1>25. CASE WriteRest
  BY <1>25, <1>1, <1>2, <1>3, InputMoved DEF WriteRest
<1> QED BY <1>4, <1>5, <1>6, <1>8, <1>9, <1>10, <1>12, <1>13, <1>14, <1>15, <1>16, <1>17, <1>18, <1>19, <1>20, <1>21, <1>22, <1>23, <1>24, <1>25 DEF UnrarStep

\* What is used of the packed bytes is used in their order, each of them once.
THEOREM BytesUsedInOrder == UnrarSpec => []UsedInOrder
<1>1. InputInv /\ UNCHANGED unrar_vars => InputInv'
  BY DEF InputInv, Shape, IsComponent, Good, Inputs, Ordered, CanRead, Exhausted, Filled, Margin, unrar_vars
<1>2. InputInv => UsedInOrder
  BY DEF InputInv, Good, Ordered, UsedInOrder
<1> QED BY <1>1, <1>2, InputHolds, InputStays, PTL DEF UnrarSpec

\* Nothing is decoded of what is behind the packed bytes while there are any left.
THEOREM NoByteInvented == UnrarSpec => []NothingInvented
<1>1. InputInv /\ UNCHANGED unrar_vars => InputInv'
  BY DEF InputInv, Shape, IsComponent, Good, Inputs, Ordered, CanRead, Exhausted, Filled, Margin, unrar_vars
<1>2. InputInv => NothingInvented
  BY DEF InputInv, Good, NothingInvented
<1> QED BY <1>1, <1>2, InputHolds, InputStays, PTL DEF UnrarSpec

-----------------------------------------------------------------------------
(* The output: what the window holds is the end of the stream, what the memory holds its beginning *)

\* How much of the window is still to be written.
Unwritten == Masked(UnpPtr - WrPtr)
Matches == [n : Nat, d : 0 .. MAXWINSIZE - 1]
OutType ==
  /\ Window \in [0 .. MAXWINSIZE - 1 -> Nat] /\ UnpPtr \in 0 .. MAXWINSIZE - 1 /\ WrPtr \in 0 .. MAXWINSIZE - 1
  /\ stream \in Seq(Nat) /\ last \in Matches /\ copy \in Matches /\ long \in BOOLEAN
  /\ (step = "copy" => copy.n >= 1)
\* What is kept free is enough for the token that comes next, and for what is left of a match.
KeptFree ==
  ~long => /\ Unwritten <= Len(stream)
           /\ step = "token" => Unwritten = 0 \/ Unwritten + Border <= MAXWINSIZE
           /\ step = "copy" => Unwritten + copy.n < MAXWINSIZE
\* The memory has the first g of the stream, or as many as it is for.
SinkAt(to, g) ==
  /\ to \in [memory : [0 .. arc.size - 1 -> Nat], out : Nat, room : Nat, written : Nat]
  /\ to.out = Lesser(g, arc.size) /\ to.room = arc.size - to.out
  /\ \A k \in 0 .. arc.size - 1 : to.memory[k] = IF k < to.out THEN stream[k + 1] ELSE 0
  /\ ~Old => to.written = g \/ (arc.size <= to.written /\ to.written <= g)
AllWritten ==
  step \in {"header", "init", "end"} \/ (step \in {"tables", "entries", "model"} /\ tables = "first") => Unwritten = 0
ShortMatches == Old => ~long /\ last.n < OldWriteBorder
OutInv ==
  /\ IsComponent /\ OutType /\ Remembered /\ KeptFree /\ AllWritten /\ ShortMatches
  /\ (Regular => SinkAt(sink, Len(stream) - Unwritten))

LEMMA WindowSize == MAXWINSIZE \in Nat /\ MAXWINSIZE >= 2 /\ Border \in 2 .. MAXWINSIZE /\ OldWriteBorder \in 3 .. MAXWINSIZE
  BY UnrarAssumption DEF Border

LEMMA MaskedIsIn ==
  ASSUME NEW p \in Int, -MAXWINSIZE <= p, p < 2 * MAXWINSIZE
  PROVE  Masked(p) \in 0 .. MAXWINSIZE - 1
  BY WindowSize DEF Masked

LEMMA StreamIsNat == OutType => Len(stream) \in Nat /\ \A i \in Int : StreamAt(i) \in Nat
<1> SUFFICES ASSUME OutType PROVE Len(stream) \in Nat /\ \A i \in Int : StreamAt(i) \in Nat
  OBVIOUS
<1>1. stream \in Seq(Nat) /\ Len(stream) \in Nat
  BY DEF OutType
<1>2. \A i \in 1 .. Len(stream) : stream[i] \in Nat
  BY <1>1
<1> QED BY <1>1, <1>2 DEF StreamAt

\* Putting a byte into the window and into the stream keeps the one the end of the other.
LEMMA PutRemembers ==
  ASSUME OutType, Remembered, NEW v \in Nat, Put(v, v)
  PROVE  /\ Remembered' /\ Window' \in [0 .. MAXWINSIZE - 1 -> Nat] /\ UnpPtr' \in 0 .. MAXWINSIZE - 1 /\ stream' \in Seq(Nat)
         /\ UnpPtr' = Masked(UnpPtr + 1)
         /\ Len(stream') = Len(stream) + 1 /\ \A i \in 1 .. Len(stream) : stream'[i] = stream[i]
<1>1. Window' = [Window EXCEPT ![UnpPtr] = v] /\ UnpPtr' = Masked(UnpPtr + 1) /\ stream' = Append(stream, v)
  BY DEF Put
<1>2. Window \in [0 .. MAXWINSIZE - 1 -> Nat] /\ UnpPtr \in 0 .. MAXWINSIZE - 1 /\ stream \in Seq(Nat) /\ Len(stream) \in Nat
  BY StreamIsNat DEF OutType
<1>3. /\ stream' \in Seq(Nat) /\ Len(stream') = Len(stream) + 1 /\ stream'[Len(stream) + 1] = v
      /\ \A i \in 1 .. Len(stream) : stream'[i] = stream[i]
  BY <1>1, <1>2
<1>4. Window' \in [0 .. MAXWINSIZE - 1 -> Nat]
  BY <1>1, <1>2
<1>5. UnpPtr' \in 0 .. MAXWINSIZE - 1
  <2>1. UnpPtr + 1 \in Int /\ -MAXWINSIZE <= UnpPtr + 1 /\ UnpPtr + 1 < 2 * MAXWINSIZE BY <1>2, WindowSize
  <2> QED BY <1>1, <2>1, MaskedIsIn
<1>6. ASSUME NEW d \in 1 .. MAXWINSIZE
      PROVE  Window'[Masked(UnpPtr' - d)] = StreamAt(Len(stream) + 1 - d)'
  <2>1. StreamAt(Len(stream) + 1 - d)' = IF Len(stream') + 1 - d \in 1 .. Len(stream') THEN stream'[Len(stream') + 1 - d] ELSE 0
    BY DEF StreamAt
  <2>2. CASE d = 1
    <3>1. Masked(UnpPtr' - 1) = UnpPtr
      BY <1>1, <1>2, WindowSize DEF Masked
    <3>2. Window'[UnpPtr] = v
      BY <1>1, <1>2
    <3>3. Len(stream') + 1 - 1 = Len(stream) + 1 /\ Len(stream') + 1 - 1 \in 1 .. Len(stream')
      BY <1>2, <1>3
    <3> QED BY <2>1, <2>2, <3>1, <3>2, <3>3, <1>3
  <2>3. CASE d # 1
    <3>1. d - 1 \in 1 .. MAXWINSIZE /\ d - 1 < MAXWINSIZE
      BY <2>3, WindowSize
    <3>2. Masked(UnpPtr' - d) = Masked(UnpPtr - (d - 1)) /\ Masked(UnpPtr - (d - 1)) # UnpPtr /\ Masked(UnpPtr - (d - 1)) \in 0 .. MAXWINSIZE - 1
      BY <1>1, <1>2, <2>3, WindowSize DEF Masked
    <3>3. Window[Masked(UnpPtr - (d - 1))] = StreamAt(Len(stream) + 1 - (d - 1))
      BY <3>1 DEF Remembered
    <3>4. Window'[Masked(UnpPtr' - d)] = StreamAt(Len(stream) + 1 - (d - 1))
      BY <1>1, <1>2, <3>2, <3>3
    <3>5. Len(stream) + 1 - (d - 1) = Len(stream') + 1 - d
      BY <1>2, <1>3
    <3>6. Len(stream') + 1 - d \in 1 .. Len(stream') <=> Len(stream') + 1 - d \in 1 .. Len(stream)
      BY <1>2, <1>3, <2>3
    <3> QED BY <2>1, <3>4, <3>5, <3>6, <1>3 DEF StreamAt
  <2> QED BY <2>2, <2>3
<1>7. Remembered'
  BY <1>6 DEF Remembered
<1> QED BY <1>1, <1>3, <1>4, <1>5, <1>7

\* What a match copies is what the stream has at that distance.
LEMMA CopiedIsBack ==
  ASSUME OutType, Remembered
  PROVE  Window[Masked(UnpPtr - copy.d)] = Back(copy.d) /\ Back(copy.d) \in Nat
<1> DEFINE d == IF copy.d = 0 THEN MAXWINSIZE ELSE copy.d
<1>1. copy.d \in 0 .. MAXWINSIZE - 1 /\ UnpPtr \in 0 .. MAXWINSIZE - 1 /\ Len(stream) \in Nat
  BY StreamIsNat DEF OutType, Matches
<1>2. d \in 1 .. MAXWINSIZE /\ Masked(UnpPtr - copy.d) = Masked(UnpPtr - d)
  BY <1>1, WindowSize DEF Masked
<1>3. Back(copy.d) = StreamAt(Len(stream) + 1 - d)
  BY DEF Back
<1>4. StreamAt(Len(stream) + 1 - d) \in Nat
  <2> HIDE DEF d
  <2>1. Len(stream) + 1 - d \in Int BY <1>1, <1>2, WindowSize
  <2>2. \A i \in Int : StreamAt(i) \in Nat BY StreamIsNat
  <2> QED BY <2>1, <2>2
<1> HIDE DEF d
<1> QED BY <1>2, <1>3, <1>4 DEF Remembered

LEMMA Remainder ==
  ASSUME NEW a \in Nat, NEW b \in Nat \ {0}, a < b
  PROVE  a % b = a
  OBVIOUS

LEMMA MeasuredSizes ==
  ASSUME IsComponent, Measured
  PROVE  FullUnpSize = arc.size /\ Room = arc.size /\ arc.size \in Nat \ {0}
<1>1. arc.size \in Nat \ {0} /\ WORD \in Nat \ {0} /\ arc.size < WORD - 1
  BY UnrarAssumption DEF IsComponent, Measured
<1>2. arc.size % WORD = arc.size
  BY <1>1, Remainder
<1> QED BY <1>1, <1>2 DEF FullUnpSize, Room

Sinks == [memory : [0 .. arc.size - 1 -> Nat], out : Nat, room : Nat, written : Nat]

\* A piece that there is room for goes behind what is there.
LEMMA PieceFits ==
  ASSUME arc.size \in Nat, Window \in [0 .. MAXWINSIZE - 1 -> Nat], NEW to \in Sinks, NEW start \in Nat, NEW n \in Nat, start + n <= MAXWINSIZE,
         n <= to.room, to.room = arc.size - to.out
  PROVE  /\ UnpWrite(to, start, n) \in Sinks /\ UnpWrite(to, start, n).out = to.out + n /\ UnpWrite(to, start, n).room = arc.size - (to.out + n)
         /\ UnpWrite(to, start, n).written = to.written
         /\ \A k \in 0 .. arc.size - 1 :
              UnpWrite(to, start, n).memory[k] = IF to.out <= k /\ k < to.out + n THEN Window[start + (k - to.out)] ELSE to.memory[k]
<1> DEFINE r == UnpWrite(to, start, n)
           here(k) == to.out <= k /\ k < to.out + n
           m == [k \in DOMAIN to.memory |-> IF here(k) THEN Window[start + (k - to.out)] ELSE to.memory[k]]
<1>1. /\ to.memory \in [0 .. arc.size - 1 -> Nat] /\ to.out \in Nat /\ to.room \in Nat /\ to.written \in Nat
  BY DEF Sinks
<1>2. r = [to EXCEPT !.memory = m, !.out = to.out + n, !.room = to.room - n]
  BY <1>1 DEF UnpWrite
<1>3. m \in [0 .. arc.size - 1 -> Nat] /\ \A k \in 0 .. arc.size - 1 : m[k] = IF here(k) THEN Window[start + (k - to.out)] ELSE to.memory[k]
  <2>1. ASSUME NEW k \in 0 .. arc.size - 1, here(k) PROVE Window[start + (k - to.out)] \in Nat
    <3>1. start + (k - to.out) \in 0 .. MAXWINSIZE - 1
      <4> DEFINE o == to.out
      <4>1. k \in Int /\ o \in Int /\ o <= k /\ k < o + n BY <2>1, <1>1
      <4> HIDE DEF o, here
      <4>2. start + (k - o) \in 0 .. MAXWINSIZE - 1 BY <4>1, WindowSize
      <4> QED BY <4>2 DEF o
    <3> QED BY <3>1
  <2>2. ASSUME NEW k \in 0 .. arc.size - 1 PROVE (IF here(k) THEN Window[start + (k - to.out)] ELSE to.memory[k]) \in Nat
    BY <2>1, <1>1
  <2> HIDE DEF here
  <2> QED BY <2>2, <1>1
<1> HIDE DEF m, r
<1>4. r.memory = m /\ r.out = to.out + n /\ r.room = to.room - n /\ r.written = to.written
  BY <1>2 DEF Sinks
<1>5. to.out + n \in Nat /\ to.room - n \in Nat /\ to.room - n = arc.size - (to.out + n)
  BY <1>1, SMTT(30)
<1>6. r \in Sinks
  BY <1>2, <1>3, <1>5 DEF Sinks
<1> QED BY <1>3, <1>4, <1>5, <1>6 DEF r

\* A piece of the window that is the next of the stream makes the memory have more of it.
LEMMA PieceWritten ==
  ASSUME IsComponent, OutType, Regular, NEW g \in Nat, NEW to, SinkAt(to, g), NEW start \in Nat, NEW n \in Nat,
         start + n <= MAXWINSIZE, g + n <= Len(stream),
         \A i \in 0 .. n - 1 : Window[start + i] = stream[g + 1 + i]
  PROVE  SinkAt(WritePiece(to, start, n), g + n)
<1>1. FullUnpSize = arc.size /\ arc.size \in Nat \ {0}
  BY MeasuredSizes DEF Regular
<1>2. Window \in [0 .. MAXWINSIZE - 1 -> Nat] /\ Len(stream) \in Nat /\ stream \in Seq(Nat)
  BY StreamIsNat DEF OutType
<1>3. /\ to \in Sinks /\ to.out = Lesser(g, arc.size) /\ to.room = arc.size - to.out
      /\ \A k \in 0 .. arc.size - 1 : to.memory[k] = IF k < to.out THEN stream[k + 1] ELSE 0
      /\ ~Old => to.written = g \/ (arc.size <= to.written /\ to.written <= g)
  BY DEF SinkAt, Sinks
<1>4. to.out \in Nat /\ to.room \in Nat /\ to.written \in Nat
  BY <1>3 DEF Sinks
\* How much of it is written, where all that comes before it was.
<1>5. ASSUME NEW k \in 0 .. n, g + k <= arc.size, k > 0 => to.out = g, k = n \/ g + k = arc.size, g >= arc.size => k = 0
      PROVE  /\ UnpWrite(to, start, k) \in Sinks /\ UnpWrite(to, start, k).out = Lesser(g + n, arc.size)
             /\ UnpWrite(to, start, k).room = arc.size - UnpWrite(to, start, k).out /\ UnpWrite(to, start, k).written = to.written
             /\ \A j \in 0 .. arc.size - 1 : UnpWrite(to, start, k).memory[j] = IF j < UnpWrite(to, start, k).out THEN stream[j + 1] ELSE 0
  <2> DEFINE r == UnpWrite(to, start, k)
             o == to.out
             size == arc.size
  <2>1. k \in Nat /\ start + k <= MAXWINSIZE /\ o \in Nat /\ size \in Nat
    BY <1>1, <1>4, WindowSize
  <2>2. k <= to.room
    BY <1>1, <1>3, <1>4, <1>5 DEF Lesser
  <2>3. /\ r \in Sinks /\ r.out = o + k /\ r.room = size - (o + k) /\ r.written = to.written
        /\ \A j \in 0 .. size - 1 : r.memory[j] = IF o <= j /\ j < o + k THEN Window[start + (j - o)] ELSE to.memory[j]
    <3>1. /\ arc.size \in Nat /\ Window \in [0 .. MAXWINSIZE - 1 -> Nat] /\ to \in Sinks /\ k \in Nat /\ start + k <= MAXWINSIZE
          /\ start \in Nat /\ k <= to.room /\ to.room = arc.size - to.out
      BY <1>1, <1>2, <1>3, <2>1, <2>2
    <3>2. /\ r \in Sinks /\ r.out = to.out + k /\ r.room = arc.size - (to.out + k) /\ r.written = to.written
          /\ \A j \in 0 .. arc.size - 1 : r.memory[j] = IF to.out <= j /\ j < to.out + k THEN Window[start + (j - to.out)] ELSE to.memory[j]
      <4> HIDE DEF r
      <4>1. r = UnpWrite(to, start, k)
        BY DEF r
      <4>2. r \in Sinks /\ r.out = to.out + k /\ r.room = arc.size - (to.out + k) /\ r.written = to.written
        BY ONLY <3>1, <4>1, PieceFits
      <4>3. \A j \in 0 .. arc.size - 1 : r.memory[j] = IF to.out <= j /\ j < to.out + k THEN Window[start + (j - to.out)] ELSE to.memory[j]
        BY ONLY <3>1, <4>1, PieceFits
      <4> QED BY ONLY <4>2, <4>3
    <3> QED BY <3>2
  <2>4. o + k = Lesser(g + n, size)
    <3>1. o = Lesser(g, size) /\ (k > 0 => o = g) /\ g + k <= size /\ (k = n \/ g + k = size) /\ k <= n /\ k \in Nat /\ size \in Nat
      BY <1>1, <1>3, <1>5
    <3> HIDE DEF o, size
    <3>2. CASE k > 0
      BY <3>1, <3>2 DEF Lesser
    <3>3. CASE k = 0
      BY <3>1, <3>3 DEF Lesser
    <3> QED BY <3>1, <3>2, <3>3
  <2>5. ASSUME NEW j \in 0 .. size - 1 PROVE r.memory[j] = IF j < o + k THEN stream[j + 1] ELSE 0
    <3> HIDE DEF r, o, size
    <3>1. CASE o <= j /\ j < o + k
      <4>1. o = g /\ j - o \in 0 .. n - 1
        <5>1. o = g
          <6>1. k > 0
            BY <3>1, <2>1, <2>5
          <6> QED BY <1>5, <6>1 DEF o
        <5>2. j \in Int /\ o \in Int /\ k \in Int /\ n \in Int /\ k <= n
          BY <2>1, <1>5, <2>5
        <5> QED BY ONLY <3>1, <5>1, <5>2
      <4>2. Window[start + (j - o)] = stream[g + 1 + (j - o)]
        BY <4>1
      <4>3. g + 1 + (j - o) = j + 1
        BY <4>1, <2>1, <2>5
      <4> QED BY <3>1, <4>2, <4>3, <2>3, <2>5
    <3>2. CASE ~(o <= j /\ j < o + k)
      <4>1. r.memory[j] = IF j < o THEN stream[j + 1] ELSE 0
        BY <3>2, <2>3, <1>3, <2>5 DEF o, size
      <4>2. j < o <=> j < o + k
        BY <3>2, <2>1, <2>5
      <4> QED BY <4>1, <4>2
    <3> QED BY <3>1, <3>2
  <2> HIDE DEF r
  <2> QED BY <2>3, <2>4, <2>5 DEF r
<1>6. CASE Old
  <2>1. WritePiece(to, start, n) = UnpWrite(to, start, n)
    BY <1>6 DEF WritePiece
  <2>2. Len(stream) <= arc.size
    BY <1>6 DEF Regular
  <2>3. n \in 0 .. n /\ g + n <= arc.size /\ (n > 0 => to.out = g) /\ (g >= arc.size => n = 0)
    BY <1>1, <1>2, <1>3, <2>2 DEF Lesser
  <2> QED BY <1>5, <1>6, <2>1, <2>3 DEF SinkAt, Sinks
<1>7. CASE ~Old
  <2>1. WritePiece(to, start, n) = UnpWriteData(to, start, n)
    BY <1>7 DEF WritePiece
  <2>2. CASE to.written >= arc.size
    <3>1. WritePiece(to, start, n) = to
      BY <2>1, <2>2, <1>1 DEF UnpWriteData
    <3>2. g >= arc.size /\ to.written <= g
      BY <2>2, <1>1, <1>3, <1>4, <1>7
    <3>3. to.out = Lesser(g + n, arc.size) /\ (to.written = g + n \/ (arc.size <= to.written /\ to.written <= g + n))
      BY <3>2, <2>2, <1>1, <1>3, <1>4 DEF Lesser
    <3> QED BY <3>1, <3>3, <1>3 DEF SinkAt, Sinks
  <2>3. CASE ~(to.written >= arc.size)
    <3> DEFINE k == Lesser(n, arc.size - to.written)
               q == UnpWrite(to, start, k)
               r == [q EXCEPT !.written = q.written + n]
    <3>1. to.written = g /\ g < arc.size /\ to.out = g
      BY <2>3, <1>1, <1>3, <1>4, <1>7 DEF Lesser
    <3>2. WritePiece(to, start, n) = r
      BY <2>1, <2>3, <1>1 DEF UnpWriteData
    <3>3. k \in 0 .. n /\ g + k <= arc.size /\ (k = n \/ g + k = arc.size)
      BY <3>1, <1>1 DEF Lesser
    <3> HIDE DEF k
    <3>4. /\ q \in Sinks /\ q.out = Lesser(g + n, arc.size) /\ q.room = arc.size - q.out /\ q.written = to.written
          /\ \A j \in 0 .. arc.size - 1 : q.memory[j] = IF j < q.out THEN stream[j + 1] ELSE 0
      <4>1. (k > 0 => to.out = g) /\ (g >= arc.size => k = 0)
        BY <1>1, <3>1
      <4> QED BY ONLY <1>5, <3>3, <4>1
    <3> HIDE DEF q
    <3>5. q.written + n \in Nat /\ q.written + n = g + n
      BY <3>1, <3>4
    <3>6. r \in Sinks /\ r.out = q.out /\ r.room = q.room /\ r.memory = q.memory /\ r.written = g + n
      BY <3>4, <3>5 DEF Sinks
    <3> HIDE DEF r
    <3> QED BY <3>2, <3>4, <3>6 DEF SinkAt, Sinks
  <2> QED BY <2>2, <2>3
<1> QED BY <1>6, <1>7

\* Writing what is in the window writes all of the stream that was not written.
LEMMA FlushWrites ==
  ASSUME OutInv, Regular
  PROVE  SinkAt(UnpWriteBuf(sink), Len(stream))
<1> DEFINE u == Unwritten
           g == Len(stream) - u
<1>1. OutType /\ IsComponent /\ Remembered /\ SinkAt(sink, g) /\ u <= Len(stream)
  BY DEF OutInv, KeptFree, Regular
<1>2. UnpPtr \in 0 .. MAXWINSIZE - 1 /\ WrPtr \in 0 .. MAXWINSIZE - 1 /\ Len(stream) \in Nat /\ MAXWINSIZE \in Nat
  BY <1>1, StreamIsNat, WindowSize DEF OutType
<1>3. u \in 0 .. MAXWINSIZE - 1 /\ (UnpPtr < WrPtr => u = UnpPtr - WrPtr + MAXWINSIZE) /\ (~(UnpPtr < WrPtr) => u = UnpPtr - WrPtr)
  BY <1>2 DEF Unwritten, Masked
<1>4. g \in Nat /\ Len(stream) = g + u
  BY <1>1, <1>2, <1>3
<1>5. ASSUME NEW d \in 1 .. MAXWINSIZE, d <= Len(stream)
      PROVE  Window[Masked(UnpPtr - d)] = stream[Len(stream) + 1 - d]
  BY <1>1, <1>2, <1>5 DEF Remembered, StreamAt
<1> HIDE DEF u, g
<1>6. CASE UnpPtr < WrPtr
  <2> DEFINE n == MAXWINSIZE - WrPtr
             first == WritePiece(sink, WrPtr, n)
  <2>1. n \in Nat /\ WrPtr + n <= MAXWINSIZE /\ g + n <= Len(stream) /\ g + n + UnpPtr = Len(stream) /\ g + n \in Nat
    BY <1>2, <1>3, <1>4, <1>6
  <2>2. ASSUME NEW i \in 0 .. n - 1 PROVE Window[WrPtr + i] = stream[g + 1 + i]
    <3>1. u - i \in 1 .. MAXWINSIZE /\ u - i <= Len(stream) /\ Masked(UnpPtr - (u - i)) = WrPtr + i /\ Len(stream) + 1 - (u - i) = g + 1 + i
      BY <1>2, <1>3, <1>4, <1>6 DEF Masked
    <3>2. Window[Masked(UnpPtr - (u - i))] = stream[Len(stream) + 1 - (u - i)]
      BY <3>1, <1>5
    <3> QED BY <3>1, <3>2
  <2>3. WrPtr \in Nat
    BY <1>2
  <2> HIDE DEF n
  <2>4. SinkAt(first, g + n)
    BY <1>1, <1>4, <2>1, <2>2, <2>3, PieceWritten
  <2> HIDE DEF first
  <2>5. ASSUME NEW i \in 0 .. UnpPtr - 1 PROVE Window[0 + i] = stream[(g + n) + 1 + i]
    <3>1. UnpPtr - i \in 1 .. MAXWINSIZE /\ UnpPtr - i <= Len(stream) /\ Masked(UnpPtr - (UnpPtr - i)) = 0 + i
          /\ Len(stream) + 1 - (UnpPtr - i) = (g + n) + 1 + i
      BY <1>2, <1>4, <2>1 DEF Masked
    <3>2. Window[Masked(UnpPtr - (UnpPtr - i))] = stream[Len(stream) + 1 - (UnpPtr - i)]
      BY <3>1, <1>5
    <3> QED BY <3>1, <3>2
  <2>6. 0 \in Nat /\ UnpPtr \in Nat /\ 0 + UnpPtr <= MAXWINSIZE /\ (g + n) + UnpPtr <= Len(stream)
    BY <1>2, <2>1
  <2>7. SinkAt(WritePiece(first, 0, UnpPtr), (g + n) + UnpPtr)
    BY <1>1, <2>1, <2>4, <2>5, <2>6, PieceWritten
  <2>8. UnpWriteBuf(sink) = WritePiece(first, 0, UnpPtr)
    BY <1>6 DEF UnpWriteBuf, first, n
  <2> QED BY <2>1, <2>7, <2>8
<1>7. CASE ~(UnpPtr < WrPtr)
  <2>1. UnpWriteBuf(sink) = WritePiece(sink, WrPtr, u)
    BY <1>3, <1>7 DEF UnpWriteBuf
  <2>2. ASSUME NEW i \in 0 .. u - 1 PROVE Window[WrPtr + i] = stream[g + 1 + i]
    <3>1. u - i \in 1 .. MAXWINSIZE /\ u - i <= Len(stream) /\ Masked(UnpPtr - (u - i)) = WrPtr + i /\ Len(stream) + 1 - (u - i) = g + 1 + i
      BY <1>2, <1>3, <1>4, <1>7 DEF Masked
    <3>2. Window[Masked(UnpPtr - (u - i))] = stream[Len(stream) + 1 - (u - i)]
      BY <3>1, <1>5
    <3> QED BY <3>1, <3>2
  <2>3. u \in Nat /\ WrPtr \in Nat /\ WrPtr + u <= MAXWINSIZE /\ g + u <= Len(stream)
    BY <1>2, <1>3, <1>4, <1>7
  <2>4. SinkAt(WritePiece(sink, WrPtr, u), g + u)
    BY <1>1, <1>4, <2>2, <2>3, PieceWritten
  <2> QED BY <2>1, <2>4, <1>4
<1> QED BY <1>6, <1>7

\* The first of the stream stay what they are while it grows.
LEMMA SinkStays ==
  ASSUME UNCHANGED <<arc, sink>>, SinkAt(sink, Len(stream) - Unwritten), Len(stream) - Unwritten \in Nat, Unwritten \in Nat, Len(stream) \in Nat,
         arc.size \in Nat, \A i \in 1 .. Len(stream) : stream'[i] = stream[i], (Len(stream) - Unwritten)' = Len(stream) - Unwritten
  PROVE  SinkAt(sink, Len(stream) - Unwritten)'
<1> DEFINE g == Len(stream) - Unwritten
<1>0. g \in Nat /\ g <= Len(stream) /\ (Len(stream) - Unwritten)' = g
  OBVIOUS
<1>1. /\ sink \in Sinks /\ sink.out = Lesser(g, arc.size) /\ sink.room = arc.size - sink.out
      /\ \A k \in 0 .. arc.size - 1 : sink.memory[k] = IF k < sink.out THEN stream[k + 1] ELSE 0
      /\ ~Old => sink.written = g \/ (arc.size <= sink.written /\ sink.written <= g)
  BY DEF SinkAt, Sinks
<1>2. Old' = Old
  BY DEF Old, Method
<1>3. ASSUME NEW k \in 0 .. arc.size - 1 PROVE sink.memory[k] = IF k < sink.out THEN stream'[k + 1] ELSE 0
  <2>1. CASE k < sink.out
    <3>1. k + 1 \in 1 .. Len(stream)
      <4> HIDE DEF g
      <4> QED BY <2>1, <1>0, <1>1, <1>3 DEF Lesser
    <3> QED BY <3>1, <2>1, <1>1, <1>3
  <2> QED BY <2>1, <1>1, <1>3
<1> HIDE DEF g
<1> QED BY <1>0, <1>1, <1>2, <1>3 DEF SinkAt, Sinks, Lesser

LEMMA PureParts == UNCHANGED arc => /\ Old' = Old /\ Method' = Method /\ Border' = Border /\ Measured' = Measured /\ (IsComponent => IsComponent')
  BY DEF Old, Method, Border, Measured, IsComponent

\* A step that leaves the output as it is.
LEMMA OutMoved ==
  ASSUME OutInv, UNCHANGED <<arc, last, copy, out_vars>>, step' # "copy",
         step' = "token" => step = "token" \/ ~NearlyFull,
         step' \in {"header", "init", "end"} \/ (step' \in {"tables", "entries", "model"} /\ tables' = "first") => Unwritten = 0
  PROVE  OutInv'
<1>1. /\ UNCHANGED <<Window, UnpPtr, WrPtr, sink, stream, long>> /\ Unwritten' = Unwritten /\ Old' = Old /\ Border' = Border
      /\ IsComponent' /\ Regular' = Regular
  BY PureParts DEF OutInv, out_vars, Unwritten, Masked, Regular, Measured
<1>2. OutType' /\ Remembered' /\ ShortMatches' /\ AllWritten'
  BY <1>1 DEF OutInv, OutType, Remembered, StreamAt, Masked, ShortMatches, AllWritten, Matches
<1>3. KeptFree'
  <2>1. ~NearlyFull => Unwritten = 0 \/ Unwritten + Border <= MAXWINSIZE
    BY WindowSize DEF NearlyFull, Unwritten, Masked, OutInv, OutType
  <2> QED BY <1>1, <2>1 DEF KeptFree, OutInv
<1>4. Regular' => SinkAt(sink, Len(stream) - Unwritten)'
  BY <1>1, PureParts DEF OutInv, SinkAt
<1> QED BY <1>1, <1>2, <1>3, <1>4 DEF OutInv

\* A step that writes what is in the window.
LEMMA Flushed ==
  ASSUME OutInv, Flush, UNCHANGED <<arc, last, copy, Window, UnpPtr, stream, long>>, step' # "copy"
  PROVE  OutInv'
<1>1. UnpPtr \in 0 .. MAXWINSIZE - 1 /\ WrPtr' = UnpPtr /\ sink' = UnpWriteBuf(sink) /\ Len(stream) \in Nat /\ IsComponent
  BY StreamIsNat DEF OutInv, OutType, Flush
<1>2. Unwritten' = 0
  BY <1>1, WindowSize DEF Unwritten, Masked
<1>3. Old' = Old /\ Border' = Border /\ IsComponent' /\ Regular' = Regular
  BY <1>1, PureParts DEF Regular, Measured
<1>4. OutType' /\ Remembered' /\ ShortMatches' /\ AllWritten' /\ KeptFree'
  BY <1>1, <1>2, <1>3 DEF OutInv, OutType, Remembered, StreamAt, Masked, ShortMatches, AllWritten, Matches, KeptFree
<1>5. ASSUME Regular PROVE SinkAt(sink, Len(stream) - Unwritten)'
  <2>1. SinkAt(sink', Len(stream))
    BY <1>1, <1>5, FlushWrites
  <2>2. Len(stream') - Unwritten' = Len(stream)
    BY <1>1, <1>2
  <2> QED BY <2>1, <2>2, <1>3 DEF SinkAt
<1> QED BY <1>2, <1>3, <1>4, <1>5 DEF OutInv

\* A byte that there is room for in the window: one more is still to be written.
LEMMA ByteDecoded ==
  ASSUME OutInv, NEW v \in Nat, Put(v, v), UNCHANGED <<arc, last, WrPtr, sink, long>>, ~long => Unwritten + 1 < MAXWINSIZE,
         copy' \in Matches, step' \in {"loop", "copy"},
         step' = "copy" => copy'.n >= 1 /\ (~long => Unwritten + 1 + copy'.n < MAXWINSIZE)
  PROVE  OutInv'
<1>1. OutType /\ Remembered /\ Len(stream) \in Nat /\ UnpPtr \in 0 .. MAXWINSIZE - 1 /\ WrPtr \in 0 .. MAXWINSIZE - 1
  BY StreamIsNat DEF OutInv, OutType
<1>2. /\ Remembered' /\ Window' \in [0 .. MAXWINSIZE - 1 -> Nat] /\ UnpPtr' \in 0 .. MAXWINSIZE - 1 /\ stream' \in Seq(Nat)
      /\ UnpPtr' = Masked(UnpPtr + 1)
      /\ Len(stream') = Len(stream) + 1 /\ \A i \in 1 .. Len(stream) : stream'[i] = stream[i]
  BY <1>1, PutRemembers
<1>3. Unwritten \in 0 .. MAXWINSIZE - 1 /\ (Unwritten + 1 < MAXWINSIZE => Unwritten' = Unwritten + 1)
  BY <1>1, <1>2, WindowSize DEF Unwritten, Masked
<1>4. OutType'
  BY <1>1, <1>2 DEF OutType, Matches
<1>5. /\ Old' = Old /\ Border' = Border /\ IsComponent' /\ (Regular' => Regular) /\ IsComponent
  <2>1. Old' = Old /\ Border' = Border /\ IsComponent' /\ Measured' = Measured /\ IsComponent
    BY PureParts DEF OutInv
  <2>2. Len(stream') <= arc.size => Len(stream) <= arc.size
    BY <2>1, <1>1, <1>2 DEF IsComponent
  <2> QED BY <2>1, <2>2 DEF Regular
<1>6. ShortMatches' /\ AllWritten'
  BY <1>5 DEF OutInv, ShortMatches, AllWritten
<1>7. KeptFree'
  BY <1>1, <1>2, <1>3, <1>5, SMTT(30) DEF OutInv, KeptFree
<1>8. ASSUME Regular' PROVE SinkAt(sink, Len(stream) - Unwritten)'
  <2> DEFINE g == Len(stream) - Unwritten
  <2>1. Regular /\ ~long /\ SinkAt(sink, g) /\ Unwritten <= Len(stream)
    BY <1>5, <1>8 DEF OutInv, Regular, KeptFree
  <2>2. g \in Nat /\ g <= Len(stream) /\ (Len(stream) - Unwritten)' = g
    <3>1. Unwritten \in Nat /\ Len(stream) \in Nat /\ Len(stream') = Len(stream) + 1
      BY <1>1, <1>2, <1>3
    <3>2. Unwritten' = Unwritten + 1
      BY <1>3, <1>5, <1>8, <2>1 DEF Regular
    <3> QED BY <2>1, <3>1, <3>2
  <2>3. arc.size \in Nat
    BY <1>5 DEF IsComponent
  <2> QED BY <2>1, <2>2, <2>3, <1>1, <1>2, <1>3, SinkStays
<1> QED BY <1>2, <1>4, <1>5, <1>6, <1>7, <1>8 DEF OutInv

LEMMA OutputHolds == UnrarInit => OutInv
<1> SUFFICES ASSUME UnrarInit PROVE OutInv
  OBVIOUS
<1>1. IsComponent /\ arc.size \in Nat \ {0}
  BY DEF UnrarInit, IsComponent
<1>2. OutType
  <2>1. 0 \in 0 .. MAXWINSIZE - 1
    BY WindowSize
  <2>2. last \in Matches /\ copy \in Matches /\ UnpPtr \in 0 .. MAXWINSIZE - 1 /\ WrPtr \in 0 .. MAXWINSIZE - 1
    BY <2>1 DEF UnrarInit, Matches
  <2>3. Window \in [0 .. MAXWINSIZE - 1 -> Nat]
    BY DEF UnrarInit
  <2>4. stream \in Seq(Nat) /\ step # "copy"
    <3>1. stream = <<>> /\ step = "header" BY DEF UnrarInit
    <3> QED BY <3>1
  <2>5. long \in BOOLEAN
    BY DEF UnrarInit
  <2> QED BY <2>2, <2>3, <2>4, <2>5 DEF OutType
<1>3. Unwritten = 0 /\ Len(stream) = 0 /\ step = "header" /\ ~long /\ last.n = 0
  BY WindowSize DEF UnrarInit, Unwritten, Masked
<1>4. Remembered
  <2> SUFFICES ASSUME NEW d \in 1 .. MAXWINSIZE PROVE Window[Masked(UnpPtr - d)] = StreamAt(Len(stream) + 1 - d)
    BY DEF Remembered
  <2>1. Masked(UnpPtr - d) \in 0 .. MAXWINSIZE - 1
    BY WindowSize DEF Masked, UnrarInit
  <2>2. Window[Masked(UnpPtr - d)] = 0
    BY <2>1 DEF UnrarInit
  <2>3. StreamAt(Len(stream) + 1 - d) = 0
    BY <1>3 DEF StreamAt
  <2> QED BY <2>2, <2>3
<1>5. ASSUME Regular PROVE SinkAt(sink, Len(stream) - Unwritten)
  <2>1. Room = arc.size
    BY <1>1, <1>5, MeasuredSizes DEF Regular
  <2>2. sink = [memory |-> [k \in 0 .. arc.size - 1 |-> 0], out |-> 0, room |-> arc.size, written |-> 0]
    BY <2>1 DEF UnrarInit
  <2>3. Len(stream) - Unwritten = 0 /\ Lesser(0, arc.size) = 0 /\ arc.size \in Nat
    BY <1>1, <1>3 DEF Lesser
  <2> QED BY <2>2, <2>3 DEF SinkAt
<1> QED BY <1>1, <1>2, <1>3, <1>4, <1>5, WindowSize DEF OutInv, KeptFree, AllWritten, ShortMatches

\* A match begins: it is shorter than what is kept free, or told to be long.
LEMMA MatchBegins ==
  ASSUME OutInv, Token, NEW n \in Nat, NEW d \in 0 .. MAXWINSIZE - 1, CopyString(n, d), last' \in Matches, Old => n < OldWriteBorder /\ last'.n < OldWriteBorder
  PROVE  OutInv'
<1>1. /\ UNCHANGED <<arc, Window, UnpPtr, WrPtr, stream, sink>> /\ step = "token" /\ copy' = [n |-> n, d |-> d] /\ long' = (long \/ n >= Border)
      /\ step' = (IF n = 0 THEN "loop" ELSE "copy")
  BY DEF Token, CopyString
<1>2. Old' = Old /\ Border' = Border /\ IsComponent' /\ Unwritten' = Unwritten /\ (Regular' => Regular) /\ (~long' => ~long /\ n < Border)
  <2>1. Old' = Old /\ Border' = Border /\ IsComponent' /\ Unwritten' = Unwritten /\ Measured' = Measured
    BY <1>1, PureParts DEF OutInv, Unwritten, Masked
  <2>2. ~long' => ~long /\ ~(n >= Border)
    BY <1>1
  <2>3. ~(n >= Border) => n < Border
    BY WindowSize
  <2> QED BY <1>1, <2>1, <2>2, <2>3 DEF Regular
<1>3. copy' \in Matches /\ copy'.n = n /\ long' \in BOOLEAN
  BY <1>1 DEF Matches
<1>4. OutType' /\ Remembered' /\ AllWritten'
  BY <1>1, <1>2, <1>3, SMTT(30) DEF OutInv, OutType, Remembered, StreamAt, Masked, AllWritten, Matches
<1>5. ShortMatches'
  <2> SUFFICES ASSUME Old PROVE ~long' /\ last'.n < OldWriteBorder
    BY <1>2 DEF ShortMatches
  <2>1. ~long /\ Border = OldWriteBorder
    BY DEF OutInv, ShortMatches, Border
  <2>2. ~(n >= Border)
    BY <2>1, WindowSize
  <2> QED BY <1>1, <2>1, <2>2
<1>6. KeptFree'
  <2> SUFFICES ASSUME ~long'
               PROVE  Unwritten <= Len(stream) /\ (step' = "copy" => Unwritten + n < MAXWINSIZE)
    BY <1>1, <1>2, <1>3 DEF KeptFree
  <2>1. Unwritten <= Len(stream) /\ (Unwritten = 0 \/ Unwritten + Border <= MAXWINSIZE) /\ n < Border
    BY <1>1, <1>2 DEF OutInv, KeptFree
  <2>2. Unwritten \in Nat
    BY WindowSize DEF OutInv, OutType, Unwritten, Masked
  <2> QED BY <2>1, <2>2, WindowSize
<1>7. Regular' => SinkAt(sink, Len(stream) - Unwritten)'
  BY <1>1, <1>2 DEF OutInv, SinkAt
<1> QED BY <1>2, <1>4, <1>5, <1>6, <1>7 DEF OutInv

LEMMA TokenDecodesNothing ==
  ASSUME OutInv, Token, UNCHANGED <<last, copy, Window, UnpPtr, stream, long>>, step' \in {"loop", "vm", "last", "write"} \/ (step' = "tables" /\ tables' = "next")
  PROVE  OutInv'
<1>1. UNCHANGED <<arc, last, copy, out_vars>>
  BY DEF Token, out_vars
<1> QED BY <1>1, OutMoved

LEMMA OutputStays == OutInv /\ UnrarStep => OutInv'
<1> SUFFICES ASSUME OutInv, UnrarStep PROVE OutInv'
  OBVIOUS
<1>1. step \in {"header", "init"} \/ (step \in {"tables", "entries", "model"} /\ tables = "first") => Unwritten = 0
  BY DEF OutInv, AllWritten
<1>2. CASE ExtractCurrentFile
  BY <1>1, <1>2, OutMoved DEF ExtractCurrentFile
<1>3. CASE DoUnpack
  BY <1>1, <1>3, OutMoved DEF DoUnpack
<1>4. CASE LoopEnds
  BY <1>4, OutMoved DEF LoopEnds, Leave
<1>5. CASE LoopTop
  BY <1>5, OutMoved DEF LoopTop, LoopGoesOn
<1>6. CASE LoopWrites
  BY <1>6, Flushed DEF LoopWrites
<1>7. CASE GetChar
  BY <1>7, <1>1, OutMoved DEF GetChar
<1>8. CASE DecodeByte
  <2> DEFINE v == Len(stream) + 1
  <2>1. v \in Nat /\ Put(v, v) /\ step = "token" /\ UNCHANGED <<arc, last, WrPtr, sink, long>> /\ step' = "loop" /\ UNCHANGED copy
    BY <1>8, StreamIsNat DEF OutInv, DecodeByte, Token
  <2>2. ~long => Unwritten + 1 < MAXWINSIZE
    BY <2>1, WindowSize DEF OutInv, OutType, KeptFree, Unwritten, Masked
  <2>3. copy' \in Matches
    BY <2>1 DEF OutInv, OutType
  <2>4. PICK b \in Nat : b = v
    BY <2>1
  <2> HIDE DEF v
  <2> QED BY <2>1, <2>2, <2>3, <2>4, ByteDecoded
<1>9. CASE DecodeNothing
  BY <1>9, TokenDecodesNothing DEF DecodeNothing
<1>10. CASE DecodeMatch
  <2>1. PICK n \in 2 .. MaxMatch, d \in Distances :
          /\ CopyString(n, d)
          /\ (last' = [n |-> n, d |-> d] /\ block = "lz") \/ (last' = last /\ (block = "ppm" \/ Method = 15))
    BY <1>10 DEF DecodeMatch
  <2>2. n \in Nat /\ d \in 0 .. MAXWINSIZE - 1 /\ (Old => n < OldWriteBorder)
    BY <2>1, UnrarAssumption DEF MaxMatch, Old
  <2>3. last \in Matches /\ (Old => last.n < OldWriteBorder) /\ [n |-> n, d |-> d] \in Matches
    BY <2>2 DEF OutInv, OutType, ShortMatches, Matches
  <2>4. last' \in Matches /\ (Old => last'.n < OldWriteBorder)
    BY <2>1, <2>2, <2>3
  <2> QED BY <1>10, <2>1, <2>2, <2>4, MatchBegins DEF DecodeMatch
<1>11. CASE DecodeRepetition
  <2>1. Token /\ CopyString(RepeatLength, last.d) /\ UNCHANGED last
    BY <1>11 DEF DecodeRepetition
  <2>2. last \in Matches /\ (Old => last.n < OldWriteBorder)
    BY DEF OutInv, OutType, ShortMatches
  <2>3. last.d \in 0 .. MAXWINSIZE - 1 /\ last.n \in Nat
    BY <2>2 DEF Matches
  <2>4. RepeatLength \in Nat /\ (Old => RepeatLength < OldWriteBorder)
    BY <2>2, <2>3, WindowSize DEF RepeatLength
  <2>5. PICK n \in Nat, d \in 0 .. MAXWINSIZE - 1 : n = RepeatLength /\ d = last.d
    BY <2>3, <2>4
  <2> QED BY <2>1, <2>2, <2>4, <2>5, MatchBegins
<1>12. CASE CopyByte
  <2>1. OutType /\ Remembered /\ copy \in Matches /\ step = "copy" /\ copy.n >= 1 /\ (~long => Unwritten <= Len(stream) /\ Unwritten + copy.n < MAXWINSIZE)
    BY <1>12 DEF CopyByte, OutInv, OutType, KeptFree
  <2>2. PICK v \in Nat : v = Back(copy.d) /\ v = Window[Masked(UnpPtr - copy.d)]
    BY <2>1, CopiedIsBack
  <2>3. Put(v, v) /\ UNCHANGED <<arc, last, WrPtr, sink, long>> /\ copy' = [copy EXCEPT !.n = copy.n - 1] /\ step' = (IF copy.n = 1 THEN "loop" ELSE "copy")
    BY <1>12, <2>2 DEF CopyByte
  <2>4. copy.n \in Nat /\ copy' \in Matches /\ copy'.n = copy.n - 1
    BY <2>1, <2>3 DEF Matches
  <2>5. Unwritten \in Nat
    BY WindowSize DEF OutInv, OutType, Unwritten, Masked
  <2>6. (~long => Unwritten + 1 < MAXWINSIZE) /\ (step' = "copy" => copy'.n >= 1 /\ (~long => Unwritten + 1 + copy'.n < MAXWINSIZE))
    BY <2>1, <2>3, <2>4, <2>5, WindowSize
  <2> QED BY <2>3, <2>4, <2>6, ByteDecoded
<1>13. CASE NewTables
  BY <1>13, TokenDecodesNothing DEF NewTables
<1>14. CASE EndOfFile
  BY <1>14, TokenDecodesNothing DEF EndOfFile, Leave
<1>15. CASE VMCode
  BY <1>15, TokenDecodesNothing DEF VMCode
<1>16. CASE VMByte
  BY <1>16, OutMoved DEF VMByte, Leave
<1>17. CASE ReadTables
  <2>1. step = "tables" /\ UNCHANGED <<arc, tables, last, copy, out_vars>> /\ (TablesFail \/ step' \in {"model", "entries"})
    BY <1>17 DEF ReadTables
  <2> QED BY <2>1, <1>1, OutMoved DEF TablesFail, Leave
<1>18. CASE TableEntry
  <2>1. step = "entries" /\ UNCHANGED <<arc, tables, last, copy, out_vars>> /\ (TablesFail \/ step' \in {"entries", TablesMade})
    BY <1>18 DEF TableEntry
  <2> QED BY <2>1, <1>1, OutMoved DEF TablesFail, Leave, TablesMade
<1>19. CASE ModelMade
  BY <1>19, <1>1, OutMoved DEF ModelMade, TablesFail, Leave
<1>20. CASE ReadLastTables
  BY <1>20, OutMoved DEF ReadLastTables
<1>21. CASE WriteRest
  BY <1>21, Flushed DEF WriteRest
<1> QED BY <1>2, <1>3, <1>4, <1>5, <1>6, <1>7, <1>8, <1>9, <1>10, <1>11, <1>12, <1>13, <1>14, <1>15, <1>16, <1>17, <1>18, <1>19, <1>20, <1>21 DEF UnrarStep

LEMMA OutputStutters == OutInv /\ UNCHANGED unrar_vars => OutInv'
  BY PureParts, SMTT(30) DEF OutInv, OutType, Remembered, StreamAt, Masked, KeptFree, Unwritten, AllWritten, ShortMatches, Regular, SinkAt, Matches, unrar_vars, out_vars

\* The window, the copies that are being made and the memory, at every step: see OutInv.
THEOREM OutputRight == UnrarSpec => []OutInv
  BY OutputHolds, OutputStays, OutputStutters, PTL DEF UnrarSpec

\* The window always holds the end of what was decoded.
THEOREM WindowRemembers == UnrarSpec => []Remembered
<1>1. OutInv => Remembered
  BY DEF OutInv
<1> QED BY <1>1, OutputRight, PTL

\* The memory has what was decoded from its beginning on, in order and without a gap; at the
\* end it has all of it that it is for.
LEMMA SinkIsRight == OutInv => DecodedInOrder /\ DecodedWhole
<1> SUFFICES ASSUME OutInv, Regular
             PROVE  /\ sink.out <= Len(stream) /\ \A k \in 0 .. arc.size - 1 : sink.memory[k] = IF k < sink.out THEN stream[k + 1] ELSE 0
                    /\ step = "end" => sink.out = Lesser(Len(stream), arc.size)
  BY DEF DecodedInOrder, DecodedWhole
<1>1. SinkAt(sink, Len(stream) - Unwritten) /\ Unwritten <= Len(stream) /\ (step = "end" => Unwritten = 0) /\ arc.size \in Nat
  BY DEF OutInv, Regular, KeptFree, AllWritten, IsComponent
<1>2. Len(stream) \in Nat /\ Unwritten \in Nat
  <2>1. OutType BY DEF OutInv
  <2>2. Unwritten \in Nat BY <2>1, WindowSize DEF OutType, Unwritten, Masked
  <2> QED BY <2>1, <2>2, StreamIsNat
<1>3. sink.out = Lesser(Len(stream) - Unwritten, arc.size) /\ \A k \in 0 .. arc.size - 1 : sink.memory[k] = IF k < sink.out THEN stream[k + 1] ELSE 0
  BY <1>1 DEF SinkAt
<1>4. sink.out <= Len(stream)
  BY <1>1, <1>2, <1>3 DEF Lesser
<1>5. step = "end" => sink.out = Lesser(Len(stream), arc.size)
  BY <1>1, <1>2, <1>3
<1> QED BY <1>3, <1>4, <1>5

\* DecodedInOrder: the memory holds what was decoded, in order, as far as it was written.
THEOREM MemoryInOrder == UnrarSpec => []DecodedInOrder
  BY SinkIsRight, OutputRight, PTL

\* DecodedWhole: at the end it holds all of it, up to the size of the component.
THEOREM MemoryWhole == UnrarSpec => []DecodedWhole
  BY SinkIsRight, OutputRight, PTL

\* A match of RAR 1.5 or 2.0 never laps what is still to be written.
THEOREM OldMatchesShort == UnrarSpec => []OldNeverLong
<1>1. OutInv => OldNeverLong
  BY DEF OutInv, ShortMatches, OldNeverLong
<1> QED BY <1>1, OutputRight, PTL

\* UnrarSound: what a component is decoded to is what its tokens say.
THEOREM UnrarIsSound == UnrarSpec => []UnrarSound
  BY BytesUsedInOrder, NoByteInvented, WindowRemembers, MemoryInOrder, MemoryWhole, OldMatchesShort, PTL DEF UnrarSound

-----------------------------------------------------------------------------
(* The memory of the model: the sizes of blocks *)

LEMMA TableFacts ==
  /\ 0 \in Indexes /\ Indexes \subseteq Nat /\ (N1 + N2 + N3 + N4) - 1 \in Indexes
  /\ Largest \in Nat \ (0 .. 2) /\ Indx2Units \in [Indexes -> 1 .. Largest]
  /\ Indx2Units[0] = 1 /\ Indx2Units[(N1 + N2 + N3 + N4) - 1] = Largest
  /\ \A i \in Indexes : i < N1 => Indx2Units[i] = i + 1
  /\ \A i \in Indexes \ {0} : i - 1 \in Indexes /\ Indx2Units[i - 1] < Indx2Units[i] /\ Indx2Units[i] - Indx2Units[i - 1] <= 4
<1>1. N1 \in Nat /\ N2 \in Nat /\ N3 \in Nat /\ N4 \in Nat /\ N1 >= 3
  BY SubAllocatorAssumption
<1>2. Largest \in Nat \ (0 .. 2)
  BY <1>1 DEF Largest
<1>3. \A i \in Indexes : Indx2Units[i] \in 1 .. Largest
  BY <1>1 DEF Indexes, Indx2Units, Largest
<1>4. Indx2Units \in [Indexes -> 1 .. Largest]
  BY <1>3 DEF Indx2Units
<1>5. 0 \in Indexes /\ Indexes \subseteq Nat /\ (N1 + N2 + N3 + N4) - 1 \in Indexes
  BY <1>1 DEF Indexes
<1>6. Indx2Units[0] = 1 /\ Indx2Units[(N1 + N2 + N3 + N4) - 1] = Largest
  BY <1>1, <1>5 DEF Indx2Units, Largest
<1>7. \A i \in Indexes : i < N1 => Indx2Units[i] = i + 1
  BY <1>1 DEF Indexes, Indx2Units
<1>8. \A i \in Indexes \ {0} : i - 1 \in Indexes /\ Indx2Units[i - 1] < Indx2Units[i] /\ Indx2Units[i] - Indx2Units[i - 1] <= 4
  BY <1>1 DEF Indexes, Indx2Units
<1>9. QED BY <1>2, <1>4, <1>5, <1>6, <1>7, <1>8

LEMMA LeastIndex ==
  ASSUME NEW T \in SUBSET Nat, T # {}
  PROVE  Min(T) \in T /\ \A y \in T : Min(T) <= y
<1> DEFINE Less == OpToRel(<, Nat)
<1>1. \A x, y \in Nat : x < y => <<x, y>> \in Less
  BY DEF OpToRel
<1>2. IsWellFoundedOn(Less, Nat)
  BY NatLessThanWellFounded
<1> HIDE DEF Less
<1>3. PICK x \in T : \A y \in T : <<y, x>> \notin Less
  BY <1>2, WFMin
<1>4. \A y \in T : ~(y < x)
  BY <1>1, <1>3
<1>5. \A y \in T : x <= y
  BY <1>4
<1>6. QED BY <1>5 DEF Min

\* The same, one fact at a time.
LEMMA IndexesAreNat == Indexes \subseteq Nat /\ N1 \in Nat /\ N1 >= 3 /\ Largest \in Nat /\ Largest >= 3
  BY TableFacts, SubAllocatorAssumption
LEMMA UnitsOfIndex == \A i \in Indexes : i \in Nat /\ Indx2Units[i] \in Nat /\ Indx2Units[i] >= 1 /\ Indx2Units[i] <= Largest
  BY TableFacts

LEMMA Increasing == \A i, j \in Indexes : i < j => Indx2Units[i] < Indx2Units[j]
  BY SubAllocatorAssumption DEF Indexes, Indx2Units

\* Each number of units up to the largest has a size, which is the least that holds it, and
\* up to three it is the number.
LEMMA SizesFit ==
  ASSUME NEW n \in 1 .. Largest
  PROVE  /\ Units2Indx(n) \in Indexes /\ Indx2Units[Units2Indx(n)] >= n /\ SizeFor(n) \in 1 .. Largest /\ SizeFor(n) >= n
         /\ \A i \in Indexes : i < Units2Indx(n) => Indx2Units[i] < n
         /\ n <= 3 => SizeFor(n) = n
<1> DEFINE T == {i \in Indexes : Indx2Units[i] >= n}
<1>1. T \in SUBSET Nat /\ T # {}
  <2>1. T \subseteq Nat
    BY IndexesAreNat
  <2>2. (N1 + N2 + N3 + N4) - 1 \in T
    BY TableFacts
  <2>3. QED BY <2>1, <2>2
<1>2. Units2Indx(n) = Min(T)
  BY DEF Units2Indx
<1>3. Units2Indx(n) \in T /\ \A y \in T : Units2Indx(n) <= y
  BY <1>1, <1>2, LeastIndex
<1>4. \A i \in Indexes : i < Units2Indx(n) => Indx2Units[i] < n
  <2>1. ASSUME NEW i \in Indexes, i < Units2Indx(n) PROVE Indx2Units[i] < n
    <3>1. i \notin T
      BY <2>1, <1>3, UnitsOfIndex
    <3>2. QED BY <3>1, UnitsOfIndex
  <2>2. QED BY <2>1
<1>5. SizeFor(n) \in 1 .. Largest /\ SizeFor(n) >= n
  BY <1>3, TableFacts DEF SizeFor
<1>6. ASSUME n <= 3 PROVE SizeFor(n) = n
  <2>1. n - 1 \in Indexes /\ n - 1 < N1 /\ Indx2Units[n - 1] = n
    BY <1>6, TableFacts, SubAllocatorAssumption DEF Indexes
  <2>2. Units2Indx(n) <= n - 1
    BY <2>1, <1>3
  <2>3. Units2Indx(n) < N1 /\ Units2Indx(n) \in Indexes
    <3>1. Units2Indx(n) \in Indexes
      BY <1>3
    <3>2. Units2Indx(n) \in Nat /\ n \in Nat /\ N1 \in Nat
      <4>1. Units2Indx(n) \in Nat
        BY <3>1, UnitsOfIndex
      <4>2. N1 \in Nat /\ Largest \in Nat
        BY IndexesAreNat
      <4>3. QED BY <4>1, <4>2
    <3>3. QED BY <3>1, <3>2, <2>1, <2>2
  <2>4. Indx2Units[Units2Indx(n)] = Units2Indx(n) + 1
    BY <2>3, TableFacts
  <2>5. SizeFor(n) = Units2Indx(n) + 1 /\ Units2Indx(n) \in Nat
    BY <2>3, <2>4, UnitsOfIndex DEF SizeFor
  <2>6. QED BY <2>2, <2>5, <1>5
<1>7. QED BY <1>3, <1>4, <1>5, <1>6

-----------------------------------------------------------------------------
(* The units of blocks *)

Sizes == {Indx2Units[i] : i \in Indexes}
Has(b, u) == b.at <= u /\ u < Behind(b)
Within(u, S) == \E b \in S : Has(b, u)
NoShare(S) == \A b, c \in S : \A u \in Nat : Has(b, u) /\ Has(c, u) => b = c
Blocks == [at : Nat, units : Nat \ {0}, is : {"context", "statistics", "free", "glued"}, nu : Nat \ {0}]
Sized(b) ==
  /\ b \in Blocks
  /\ b.is = "context" => b.units = 1 /\ b.nu = 1
  /\ b.is = "statistics" => b.nu \in 1 .. Largest /\ b.units = SizeFor(b.nu)
  /\ b.is = "free" => b.units \in Sizes
  /\ b.is = "glued" => b.nu = b.units

LEMMA BlockFields ==
  ASSUME NEW b \in Blocks
  PROVE  /\ b.at \in Nat /\ b.units \in Nat \ {0} /\ b.nu \in Nat \ {0} /\ Behind(b) \in Nat /\ b.at < Behind(b) /\ Has(b, b.at) /\ Has(b, Behind(b) - 1)
         /\ Behind(b) = b.at + b.units
  BY DEF Blocks, Behind, Has

\* Some blocks give way to others: these have the units of those, and some that no block had.
LEMMA Exchange ==
  ASSUME NEW S, NoShare(S), NEW From \in SUBSET S, NEW To, NoShare(To), NEW Extra,
         \A u \in Extra : ~Within(u, S), \A u \in Nat : Within(u, To) <=> Within(u, From) \/ u \in Extra
  PROVE  /\ NoShare((S \ From) \cup To)
         /\ \A u \in Nat : Within(u, (S \ From) \cup To) <=> Within(u, S) \/ u \in Extra
<1> DEFINE R == (S \ From) \cup To
<1>1. ASSUME NEW u \in Nat, NEW b \in S \ From, NEW c \in To, Has(b, u), Has(c, u) PROVE FALSE
  <2>1. Within(u, From) \/ u \in Extra
    BY <1>1 DEF Within
  <2>2. CASE u \in Extra
    BY <2>2, <1>1 DEF Within
  <2>3. CASE Within(u, From)
    BY <2>3, <1>1 DEF Within, NoShare
  <2>4. QED BY <2>1, <2>2, <2>3
<1>2. NoShare(R)
  <2> SUFFICES ASSUME NEW b \in R, NEW c \in R, NEW u \in Nat, Has(b, u), Has(c, u) PROVE b = c
    BY DEF NoShare
  <2>1. CASE b \in S \ From /\ c \in S \ From
    BY <2>1 DEF NoShare
  <2>2. CASE b \in To /\ c \in To
    BY <2>2 DEF NoShare
  <2>3. CASE b \in S \ From /\ c \in To
    BY <2>3, <1>1
  <2>4. CASE b \in To /\ c \in S \ From
    BY <2>4, <1>1
  <2>5. QED BY <2>1, <2>2, <2>3, <2>4
<1>3. ASSUME NEW u \in Nat PROVE Within(u, R) <=> Within(u, S) \/ u \in Extra
  <2>1. Within(u, R) <=> Within(u, S \ From) \/ Within(u, To)
    BY DEF Within
  <2>2. Within(u, S) <=> Within(u, S \ From) \/ Within(u, From)
    BY DEF Within
  <2>3. QED BY <2>1, <2>2
<1>4. QED BY <1>2, <1>3

\* Units that are left over go to the lists as they are, though not as one block, perhaps.
LEMMA LeftoverFits ==
  ASSUME NEW a \in Nat, NEW n \in 1 .. Largest
  PROVE  /\ \A b \in Leftover(a, n) : Sized(b) /\ b.is = "free" /\ b.at >= a
         /\ NoShare(Leftover(a, n))
         /\ \A u \in Nat : Within(u, Leftover(a, n)) <=> a <= u /\ u < a + n
<1> DEFINE i == Units2Indx(n)
           first == Indx2Units[i - 1]
<1>1. i \in Indexes /\ Indx2Units[i] >= n /\ i \in Nat /\ Indx2Units[i] \in Nat /\ n \in Nat /\ n >= 1
  <2>1. i \in Indexes /\ Indx2Units[i] >= n
    BY SizesFit
  <2>2. n \in Nat /\ n >= 1
    BY IndexesAreNat
  <2>3. QED BY <2>1, <2>2, UnitsOfIndex
<1>2. CASE Indx2Units[i] = n
  <2> DEFINE b == FreeBlock(a, n)
  <2>1. Leftover(a, n) = {b}
    BY <1>2 DEF Leftover
  <2>2. b \in Blocks /\ b.at = a /\ b.units = n /\ b.is = "free"
    BY <1>1 DEF FreeBlock, Blocks
  <2>3. n \in Sizes
    BY <1>1, <1>2 DEF Sizes
  <2>4. Sized(b)
    BY <2>2, <2>3 DEF Sized
  <2>5. \A u \in Nat : Has(b, u) <=> a <= u /\ u < a + n
    BY <2>2 DEF Has, Behind
  <2> HIDE DEF b
  <2>6. QED BY <2>1, <2>2, <2>4, <2>5, <1>1 DEF NoShare, Within
<1>3. CASE Indx2Units[i] # n
  <2>1. i # 0
    BY <1>1, <1>3, TableFacts
  <2>2. i - 1 \in Indexes /\ first < Indx2Units[i] /\ Indx2Units[i] - first <= 4 /\ first \in Nat /\ first >= 1 /\ i - 1 < i
    BY <2>1, <1>1, TableFacts
  <2>3. first < n
    BY <2>2, SizesFit
  <2>4. n - first \in 1 .. 3
    BY <2>2, <2>3, <1>1, <1>3
  <2>5. n - first \in 1 .. Largest
    BY <2>4, TableFacts
  <2>6. SizeFor(n - first) = n - first /\ Units2Indx(n - first) \in Indexes
    BY <2>4, <2>5, SizesFit
  <2> DEFINE b == FreeBlock(a, first)
             c == FreeBlock(a + first, n - first)
  <2>7. Leftover(a, n) = {b, c}
    BY <1>3, <2>6 DEF Leftover
  <2> HIDE DEF first
  <2>8. b \in Blocks /\ b.at = a /\ b.units = first /\ b.is = "free"
    BY <2>2 DEF FreeBlock, Blocks
  <2>9. c \in Blocks /\ c.at = a + first /\ c.units = n - first /\ c.is = "free"
    BY <2>2, <2>4 DEF FreeBlock, Blocks
  <2>10. first \in Sizes /\ n - first \in Sizes
    BY <2>2, <2>6 DEF Sizes, first, SizeFor
  <2>11. Sized(b) /\ Sized(c)
    BY <2>8, <2>9, <2>10 DEF Sized
  <2>12. \A u \in Nat : (Has(b, u) <=> a <= u /\ u < a + first) /\ (Has(c, u) <=> a + first <= u /\ u < a + n)
    BY <2>8, <2>9, <2>2, <1>1 DEF Has, Behind
  <2> HIDE DEF b, c
  <2>13. \A u \in Nat : ~(Has(b, u) /\ Has(c, u))
    BY <2>12, <2>2
  <2>14. NoShare({b, c})
    BY <2>13 DEF NoShare
  <2>15. \A u \in Nat : Within(u, {b, c}) <=> a <= u /\ u < a + n
    <3>1. \A u \in Nat : Within(u, {b, c}) <=> Has(b, u) \/ Has(c, u)
      BY DEF Within
    <3>2. QED BY <3>1, <2>12, <2>2, <2>3, <1>1
  <2>16. \A d \in {b, c} : Sized(d) /\ d.is = "free" /\ d.at >= a
    BY <2>8, <2>9, <2>11, <2>2
  <2>17. QED BY <2>7, <2>14, <2>15, <2>16
<1>4. QED BY <1>2, <1>3

-----------------------------------------------------------------------------
(* The invariant of the memory *)

HeapStages == {"model", "glue", "return", "rare"}
\* The text has what the units below LoUnit leave it, in the units of the algorithm.
EndsInv ==
  /\ SubAllocatorSize \in Memories /\ UnitsStart \in Nat /\ LoUnit \in Nat /\ HiUnit \in Nat /\ EndUnit \in Nat
  /\ UnitsStart <= LoUnit /\ LoUnit <= HiUnit /\ HiUnit < EndUnit
  /\ pText \in Nat /\ FakeUnitsStart \in Nat /\ pText < FakeUnitsStart /\ FakeUnitsStart <= FIXED_UNIT_SIZE * UnitsStart
IsHanded(u) == (UnitsStart <= u /\ u < LoUnit) \/ (HiUnit <= u /\ u < EndUnit)
UnitsInv ==
  /\ \A b \in blocks : Sized(b)
  /\ NoShare(blocks)
  /\ \A u \in Nat : Within(u, blocks) <=> IsHanded(u)
\* The first context of all, which is the last of the units, stays where it is.
LastInv == Context(EndUnit - 1) \in blocks
StampInv ==
  /\ \A b \in blocks : b.is # "glued" => b.at \notin Stamped
  /\ stage = "glue" /\ LoUnit # HiUnit => LoUnit \notin Stamped
CallOk(r) ==
  /\ r.op \in Allocates /\ r.nu \in 1 .. Largest
  /\ r.op = "AllocContext" => r.nu = 1
  /\ r.op = "ExpandUnits" => r.old \in blocks /\ r.old.is = "statistics"
CallInv == stage \in HeapStages /\ (stage # "model" => CallOk(call))
HeapInv == EndsInv /\ UnitsInv /\ LastInv /\ StampInv /\ CallInv

\* Division by a number of bytes, and products of it.
LEMMA UnitDivision ==
  ASSUME NEW x \in Nat
  PROVE  /\ x \div FIXED_UNIT_SIZE \in Nat
         /\ FIXED_UNIT_SIZE * (x \div FIXED_UNIT_SIZE) <= x /\ x < FIXED_UNIT_SIZE * ((x \div FIXED_UNIT_SIZE) + 1)
  BY SubAllocatorAssumption

LEMMA MemoryFits ==
  ASSUME NEW size \in Memories
  PROVE  /\ UpperUnits(size) \in Nat /\ Size1(size) \in Nat \ {0} /\ FirstUnit(size) \in Nat \ {0} /\ SizeFor(RootUnits) \in Nat \ {0}
         /\ SizeFor(RootUnits) < UpperUnits(size) /\ Size1(size) <= FIXED_UNIT_SIZE * FirstUnit(size)
<1> DEFINE e == size \div 8
           q == e \div FIXED_UNIT_SIZE
           F == FIXED_UNIT_SIZE
<1>1. size \in Nat /\ F \in Nat \ {0} /\ RootUnits \in 1 .. Largest /\ SizeFor(RootUnits) < UpperUnits(size)
  BY SubAllocatorAssumption
<1>2. SizeFor(RootUnits) \in Nat \ {0}
  BY <1>1, SizesFit, IndexesAreNat
<1>3. e \in Nat /\ 8 * e <= size
  BY <1>1
<1> HIDE DEF e
<1>4. q \in Nat /\ F * q <= e
  BY <1>3, UnitDivision
<1> HIDE DEF q
<1>5. UpperUnits(size) = q * 7 /\ UpperUnits(size) \in Nat
  BY <1>4 DEF UpperUnits, e, q
<1>6. q >= 1
  BY <1>1, <1>2, <1>4, <1>5
<1>7. F * (q * 7) = 7 * (F * q) /\ F * q \in Nat
  BY <1>1, <1>4
<1>8. F * q >= 1
  BY <1>1, <1>4, <1>6
<1>9. Size1(size) = size - F * (q * 7)
  BY <1>5 DEF Size1
<1>10. Size1(size) \in Nat \ {0}
  BY <1>1, <1>3, <1>4, <1>7, <1>8, <1>9
<1>11. FirstUnit(size) \in Nat \ {0} /\ Size1(size) < F * FirstUnit(size)
  BY <1>10, UnitDivision DEF FirstUnit
<1>12. F * FirstUnit(size) \in Nat
  BY <1>1, <1>11
<1>13. QED BY <1>1, <1>2, <1>5, <1>10, <1>11, <1>12

-----------------------------------------------------------------------------
(* The invariant, when some blocks give way to others *)

\* The blocks that the model gives up, or that are free, give way to such ones.
LEMMA Replaced ==
  ASSUME UnitsInv, LastInv, StampInv, NEW From \in SUBSET blocks, NEW To, NEW Extra, Replace(From, To),
         \A b \in From : b.is # "context", \A b \in To : Sized(b) /\ b.is # "glued", NoShare(To),
         \A u \in Nat : Within(u, To) <=> Within(u, From) \/ u \in Extra,
         \A u \in Nat : IsHanded(u)' <=> IsHanded(u) \/ u \in Extra, \A u \in Extra : u \in Nat /\ ~IsHanded(u),
         EndUnit' = EndUnit, stage' # "glue"
  PROVE  UnitsInv' /\ LastInv' /\ StampInv'
<1>1. blocks' = (blocks \ From) \cup To /\ Stamped' = Stamped \ {b.at : b \in To}
  BY DEF Replace
<1>2. \A u \in Extra : ~Within(u, blocks)
  BY DEF UnitsInv
<1>3. NoShare((blocks \ From) \cup To) /\ \A u \in Nat : Within(u, (blocks \ From) \cup To) <=> Within(u, blocks) \/ u \in Extra
  BY <1>2, Exchange DEF UnitsInv
<1>4. NoShare(blocks') /\ \A u \in Nat : Within(u, blocks') <=> Within(u, blocks) \/ u \in Extra
  BY <1>1, <1>3
<1>5. \A b \in blocks' : Sized(b)
  BY <1>1 DEF UnitsInv
<1>6. \A u \in Nat : Within(u, blocks') <=> IsHanded(u)'
  BY <1>4 DEF UnitsInv
<1>7. UnitsInv'
  BY <1>4, <1>5, <1>6 DEF UnitsInv, NoShare, Within, Has, Behind, Sized
<1>8. LastInv'
  <2>1. Context(EndUnit - 1).is = "context"
    BY DEF Context
  <2>2. Context(EndUnit - 1) \in blocks'
    BY <2>1, <1>1 DEF LastInv
  <2>3. QED BY <2>2 DEF LastInv, Context
<1>9. StampInv'
  BY <1>1 DEF StampInv
<1>10. QED BY <1>7, <1>8, <1>9

\* The same when nothing is taken from the area between LoUnit and HiUnit.
LEMMA ReplacedWithin ==
  ASSUME UnitsInv, LastInv, StampInv, NEW From \in SUBSET blocks, NEW To, Replace(From, To), UNCHANGED <<ends, SubAllocatorSize>>,
         \A b \in From : b.is # "context", \A b \in To : Sized(b) /\ b.is # "glued", NoShare(To),
         \A u \in Nat : Within(u, To) <=> Within(u, From), stage' # "glue"
  PROVE  UnitsInv' /\ LastInv' /\ StampInv'
<1> DEFINE Extra == {}
<1>1. EndUnit' = EndUnit /\ \A u \in Nat : IsHanded(u)' <=> IsHanded(u) \/ u \in Extra
  BY DEF EndUnit, IsHanded, ends
<1>2. \A u \in Nat : Within(u, To) <=> Within(u, From) \/ u \in Extra
  OBVIOUS
<1>3. \A u \in Extra : u \in Nat /\ ~IsHanded(u)
  OBVIOUS
<1> HIDE DEF Extra
<1>4. QED BY <1>1, <1>2, <1>3, Replaced

-----------------------------------------------------------------------------
(* The invariant, when units are given *)

LEMMA GivenFits ==
  ASSUME NEW r, CallOk(r), NEW a \in Nat
  PROVE  /\ Index(r) \in Indexes /\ Indx2Units[Index(r)] \in 1 .. Largest /\ Index(r) \in Nat
         /\ Sized(Given(r, a)) /\ Given(r, a).is \in {"context", "statistics"}
         /\ Given(r, a).at = a /\ Given(r, a).units = Indx2Units[Index(r)]
<1>1. r.nu \in 1 .. Largest /\ r.nu \in Nat \ {0}
  BY IndexesAreNat DEF CallOk
<1>2. Index(r) \in Indexes /\ Indx2Units[Index(r)] = SizeFor(r.nu) /\ SizeFor(r.nu) \in 1 .. Largest
  BY <1>1, SizesFit DEF Index, SizeFor
<1>3. Indx2Units[Index(r)] \in Nat \ {0} /\ Index(r) \in Nat
  BY <1>2, UnitsOfIndex
<1>4. CASE r.op = "AllocContext"
  <2>1. r.nu = 1
    BY <1>4 DEF CallOk
  <2>2. Indx2Units[Index(r)] = 1
    BY <2>1, <1>1, <1>2, SizesFit
  <2>3. Given(r, a) = Context(a)
    BY <1>4 DEF Given
  <2>4. QED BY <1>2, <1>3, <2>2, <2>3 DEF Context, Sized, Blocks
<1>5. CASE r.op # "AllocContext"
  <2>1. Given(r, a) = Statistics(a, r.nu)
    BY <1>5 DEF Given
  <2>2. QED BY <1>1, <1>2, <1>3, <2>1 DEF Statistics, Sized, Blocks
<1>6. QED BY <1>4, <1>5

LEMMA FreedFits ==
  ASSUME NEW b, Sized(b), b.is = "statistics"
  PROVE  Sized(Freed(b)) /\ Freed(b).is = "free" /\ \A u : Has(Freed(b), u) <=> Has(b, u)
<1>1. b \in Blocks /\ b.nu \in 1 .. Largest /\ b.units = SizeFor(b.nu)
  BY DEF Sized
<1>2. b.at \in Nat /\ b.units \in Nat \ {0}
  BY <1>1, BlockFields
<1>3. b.units \in Sizes
  BY <1>1, SizesFit DEF Sizes, SizeFor
<1>4. Freed(b) = [at |-> b.at, units |-> b.units, is |-> "free", nu |-> b.units]
  BY DEF Freed, FreeBlock
<1>5. Freed(b) \in Blocks
  BY <1>2, <1>4 DEF Blocks
<1>6. QED BY <1>3, <1>4, <1>5 DEF Sized, Has, Behind

\* Units for a call, and what of the block was not needed, in the place of free blocks or of none.
LEMMA Got ==
  ASSUME UnitsInv, LastInv, StampInv, NEW r, CallOk(r), NEW a \in Nat, NEW n, n = Indx2Units[Index(r)],
         NEW from \in SUBSET blocks, \A b \in from : b.is = "free", NEW rest, \A b \in rest : Sized(b) /\ b.is = "free", NoShare(rest),
         NEW Extra, Get(r, a, from, rest),
         \A u \in Nat : ~(a <= u /\ u < a + n /\ Within(u, rest)),
         \A u \in Nat : (a <= u /\ u < a + n) \/ Within(u, rest) <=> Within(u, from) \/ u \in Extra,
         \A u \in Nat : IsHanded(u)' <=> IsHanded(u) \/ u \in Extra, \A u \in Extra : u \in Nat /\ ~IsHanded(u),
         EndUnit' = EndUnit, stage' # "glue"
  PROVE  UnitsInv' /\ LastInv' /\ StampInv'
<1> DEFINE g == Given(r, a)
           G == {g} \cup rest
<1>1. Sized(g) /\ g.is \in {"context", "statistics"} /\ g.at = a /\ g.units = n
  BY GivenFits
<1> HIDE DEF g
<1>2. \A u \in Nat : Has(g, u) <=> a <= u /\ u < a + n
  BY <1>1 DEF Has, Behind
<1>3. NoShare(G)
  <2> SUFFICES ASSUME NEW b \in G, NEW c \in G, NEW u \in Nat, Has(b, u), Has(c, u) PROVE b = c
    BY DEF NoShare
  <2>1. CASE b = g /\ c = g
    BY <2>1
  <2>2. CASE b = g /\ c \in rest
    BY <2>2, <1>2 DEF Within
  <2>3. CASE b \in rest /\ c = g
    BY <2>3, <1>2 DEF Within
  <2>4. CASE b \in rest /\ c \in rest
    BY <2>4 DEF NoShare
  <2>5. QED BY <2>1, <2>2, <2>3, <2>4
<1>4. \A u \in Nat : Within(u, G) <=> Within(u, from) \/ u \in Extra
  <2>1. \A u \in Nat : Within(u, G) <=> Has(g, u) \/ Within(u, rest)
    BY DEF Within
  <2>2. QED BY <2>1, <1>2
<1>5. \A b \in G : Sized(b) /\ b.is # "glued"
  BY <1>1
<1>6. CASE r.op # "ExpandUnits"
  <2>1. Replace(from, G)
    BY <1>6 DEF Get, g
  <2> HIDE DEF G
  <2>2. \A b \in from : b.is # "context"
    OBVIOUS
  <2>3. QED BY <2>1, <2>2, <1>3, <1>4, <1>5, Replaced
<1>7. CASE r.op = "ExpandUnits"
  <2> DEFINE old == r.old
             f == Freed(old)
             From == from \cup {old}
             To == {f} \cup G
  <2>1. old \in blocks /\ old.is = "statistics"
    BY <1>7 DEF CallOk
  <2>2. Sized(f) /\ f.is = "free" /\ \A u : Has(f, u) <=> Has(old, u)
    BY <2>1, FreedFits DEF UnitsInv
  <2>3. Replace(From, To)
    <3>1. From = from \cup {r.old} /\ To = {Given(r, a), Freed(r.old)} \cup rest
      BY DEF g
    <3>2. QED BY <1>7, <3>1 DEF Get
  <2>4. From \in SUBSET blocks /\ \A b \in From : b.is # "context"
    BY <2>1
  <2> HIDE DEF f, G
  <2>5. \A u \in Nat : Has(f, u) => ~Within(u, G)
    <3> SUFFICES ASSUME NEW u \in Nat, Has(f, u), Within(u, G) PROVE FALSE
      OBVIOUS
    <3>1. Has(old, u) /\ Within(u, blocks) /\ IsHanded(u)
      BY <2>1, <2>2 DEF Within, UnitsInv
    <3>2. Within(u, from)
      BY <3>1, <1>4
    <3>3. PICK d \in from : Has(d, u)
      BY <3>2 DEF Within
    <3>4. d = old
      BY <3>1, <3>3, <2>1 DEF UnitsInv, NoShare
    <3>5. QED BY <3>4, <2>1
  <2>6. NoShare(To)
    <3> SUFFICES ASSUME NEW b \in To, NEW c \in To, NEW u \in Nat, Has(b, u), Has(c, u) PROVE b = c
      BY DEF NoShare
    <3>1. CASE b = f /\ c = f
      BY <3>1
    <3>2. CASE b = f /\ c \in G
      BY <3>2, <2>5 DEF Within
    <3>3. CASE b \in G /\ c = f
      BY <3>3, <2>5 DEF Within
    <3>4. CASE b \in G /\ c \in G
      BY <3>4, <1>3 DEF NoShare
    <3>5. QED BY <3>1, <3>2, <3>3, <3>4
  <2>7. \A u \in Nat : Within(u, To) <=> Within(u, From) \/ u \in Extra
    <3>1. \A u \in Nat : (Within(u, To) <=> Has(f, u) \/ Within(u, G)) /\ (Within(u, From) <=> Has(old, u) \/ Within(u, from))
      BY DEF Within
    <3>2. QED BY <3>1, <2>2, <1>4
  <2>8. \A b \in To : Sized(b) /\ b.is # "glued"
    BY <2>2, <1>5
  <2> HIDE DEF From, To
  <2>9. QED BY <2>3, <2>4, <2>6, <2>7, <2>8, Replaced
<1>8. QED BY <1>6, <1>7

\* Units that were in no block.
LEMMA GotFresh ==
  ASSUME UnitsInv, LastInv, StampInv, NEW r, CallOk(r), NEW a \in Nat, NEW n, n = Indx2Units[Index(r)], Get(r, a, {}, {}),
         \A u \in Nat : IsHanded(u)' <=> IsHanded(u) \/ (a <= u /\ u < a + n),
         \A u \in Nat : a <= u /\ u < a + n => ~IsHanded(u), EndUnit' = EndUnit, stage' # "glue"
  PROVE  UnitsInv' /\ LastInv' /\ StampInv'
<1> DEFINE Extra == {u \in Nat : a <= u /\ u < a + n}
           none == {}
<1>1. none \in SUBSET blocks /\ (\A b \in none : b.is = "free") /\ (\A b \in none : Sized(b) /\ b.is = "free") /\ NoShare(none)
  BY DEF NoShare
<1>2. \A u \in Nat : ~Within(u, none)
  BY DEF Within
<1>3. Get(r, a, none, none)
  OBVIOUS
<1>4. \A u \in Nat : u \in Extra <=> a <= u /\ u < a + n
  OBVIOUS
<1>5. \A u \in Extra : u \in Nat /\ ~IsHanded(u)
  OBVIOUS
<1>6. /\ \A u \in Nat : ~(a <= u /\ u < a + n /\ Within(u, none))
      /\ \A u \in Nat : (a <= u /\ u < a + n) \/ Within(u, none) <=> Within(u, none) \/ u \in Extra
      /\ \A u \in Nat : IsHanded(u)' <=> IsHanded(u) \/ u \in Extra
  BY <1>2, <1>4
<1> HIDE DEF none, Extra
<1>7. QED BY <1>1, <1>3, <1>5, <1>6, Got

\* A free block, and what is left of it.
LEMMA GotBlock ==
  ASSUME UnitsInv, LastInv, StampInv, NEW r, CallOk(r), NEW n, n = Indx2Units[Index(r)],
         NEW b \in blocks, b.is = "free", NEW rest, \A c \in rest : Sized(c) /\ c.is = "free", NoShare(rest), n <= b.units,
         \A u \in Nat : Within(u, rest) <=> b.at + n <= u /\ u < Behind(b),
         Get(r, b.at, {b}, rest), UNCHANGED <<ends, SubAllocatorSize>>, stage' # "glue"
  PROVE  UnitsInv' /\ LastInv' /\ StampInv'
<1> DEFINE Extra == {}
           from == {b}
           a == b.at
<1>1. b \in Blocks
  BY DEF UnitsInv, Sized
<1>2. a \in Nat /\ b.units \in Nat /\ Behind(b) = a + b.units /\ n \in Nat
  BY <1>1, BlockFields, GivenFits
<1>3. \A u \in Nat : Within(u, from) <=> a <= u /\ u < Behind(b)
  BY DEF Within, Has
<1>4. \A u \in Nat : ~(a <= u /\ u < a + n /\ Within(u, rest))
  BY <1>2
<1>5. \A u \in Nat : (a <= u /\ u < a + n) \/ Within(u, rest) <=> Within(u, from) \/ u \in Extra
  <2> SUFFICES ASSUME NEW u \in Nat PROVE (a <= u /\ u < a + n) \/ Within(u, rest) <=> Within(u, from)
    OBVIOUS
  <2>1. Within(u, rest) <=> a + n <= u /\ u < Behind(b)
    OBVIOUS
  <2> HIDE DEF a, from
  <2>2. QED BY <2>1, <1>2, <1>3
<1>6. EndUnit' = EndUnit /\ \A u \in Nat : IsHanded(u)' <=> IsHanded(u) \/ u \in Extra
  BY DEF EndUnit, IsHanded, ends
<1>7. (\A u \in Extra : u \in Nat /\ ~IsHanded(u)) /\ from \in SUBSET blocks /\ (\A c \in from : c.is = "free") /\ Get(r, a, from, rest)
  OBVIOUS
<1> HIDE DEF from, a, Extra
<1>8. QED BY <1>2, <1>4, <1>5, <1>6, <1>7, Got

LEMMA EndsStay ==
  ASSUME EndsInv, UNCHANGED <<ends, pText, SubAllocatorSize>>
  PROVE  EndsInv' /\ EndUnit' = EndUnit
  BY DEF EndsInv, ends, EndUnit

LEMMA QuietIsOk == Quiet => CallInv' /\ stage' # "glue"
  BY DEF Quiet, CallInv, HeapStages

LEMMA RemoveNodeKeeps ==
  ASSUME HeapInv, NEW r, CallOk(r), RemoveNode(r), UNCHANGED <<ends, pText, SubAllocatorSize>>
  PROVE  HeapInv'
<1> DEFINE n == Indx2Units[Index(r)]
           none == {}
<1>1. PICK b \in FreeList(Index(r)) : Get(r, b.at, {b}, none) /\ Quiet
  BY DEF RemoveNode
<1>2. b \in blocks /\ b.is = "free" /\ b.units = n
  BY <1>1 DEF FreeList
<1>3. b \in Blocks
  BY <1>2 DEF HeapInv, UnitsInv, Sized
<1>4. Behind(b) = b.at + n /\ n \in Nat /\ b.at \in Nat /\ n <= b.units
  BY <1>2, <1>3, BlockFields
<1>5. (\A c \in none : Sized(c) /\ c.is = "free") /\ NoShare(none)
  BY DEF NoShare
<1>6. \A u \in Nat : Within(u, none) <=> b.at + n <= u /\ u < Behind(b)
  BY <1>4 DEF Within
<1> HIDE DEF none, n
<1>7. CallInv' /\ stage' # "glue"
  BY <1>1, QuietIsOk
<1>8. UnitsInv' /\ LastInv' /\ StampInv'
  BY <1>1, <1>2, <1>4, <1>5, <1>6, <1>7, GotBlock DEF HeapInv, n
<1>9. EndsInv'
  BY EndsStay DEF HeapInv
<1>10. QED BY <1>7, <1>8, <1>9 DEF HeapInv

\* A larger block is split.
LEMMA SplitFits ==
  ASSUME NEW b, Sized(b), b.units \in Nat, NEW n \in Nat, n < b.units, b.units <= Largest
  PROVE  /\ \A c \in SplitBlock(b, n) : Sized(c) /\ c.is = "free"
         /\ NoShare(SplitBlock(b, n))
         /\ \A u \in Nat : Within(u, SplitBlock(b, n)) <=> b.at + n <= u /\ u < Behind(b)
<1> DEFINE a == b.at + n
           m == b.units - n
<1>1. b \in Blocks
  BY DEF Sized
<1>2. b.at \in Nat /\ Behind(b) = b.at + b.units
  BY <1>1, BlockFields
<1>3. a \in Nat /\ m \in 1 .. Largest /\ a + m = Behind(b)
  BY <1>2, IndexesAreNat
<1>4. SplitBlock(b, n) = Leftover(a, m)
  BY DEF SplitBlock
<1> HIDE DEF a, m
<1>5. QED BY <1>3, <1>4, LeftoverFits DEF a

LEMMA StatisticsFit ==
  ASSUME NEW n \in 1 .. Largest, NEW a \in Nat
  PROVE  /\ Sized(Statistics(a, n)) /\ Statistics(a, n).is = "statistics"
         /\ \A u : Has(Statistics(a, n), u) <=> a <= u /\ u < a + SizeFor(n)
<1>1. n \in Nat \ {0} /\ SizeFor(n) \in Nat \ {0}
  BY SizesFit, IndexesAreNat
<1>2. Statistics(a, n) \in Blocks
  BY <1>1 DEF Statistics, Blocks
<1>3. QED BY <1>2 DEF Statistics, Sized, Has, Behind

\* The memory of a model that is started: the first context and its statistics.
Root(size) == {Context((FirstUnit(size) + UpperUnits(size)) - 1), Statistics(FirstUnit(size), RootUnits)}
LEMMA RootFits ==
  ASSUME NEW size \in Memories, NEW lo, lo = FirstUnit(size), NEW m, m = UpperUnits(size), NEW k, k = SizeFor(RootUnits)
  PROVE  /\ m \in Nat /\ k \in Nat \ {0} /\ lo \in Nat \ {0} /\ k < m /\ Size1(size) \in Nat \ {0} /\ Size1(size) <= FIXED_UNIT_SIZE * lo
         /\ \A b \in Root(size) : Sized(b) /\ b.is # "glued"
         /\ NoShare(Root(size))
         /\ \A u \in Nat : Within(u, Root(size)) <=> (lo <= u /\ u < lo + k) \/ u = (lo + m) - 1
<1> DEFINE root_end == Context((lo + m) - 1)
           root == Statistics(lo, RootUnits)
<1>1. m \in Nat /\ k \in Nat \ {0} /\ lo \in Nat \ {0} /\ k < m /\ Size1(size) \in Nat \ {0} /\ Size1(size) <= FIXED_UNIT_SIZE * lo
  BY MemoryFits
<1>2. RootUnits \in 1 .. Largest
  BY SubAllocatorAssumption
<1>3. root_end \in Blocks /\ root_end.at = (lo + m) - 1 /\ root_end.units = 1 /\ root_end.nu = 1 /\ root_end.is = "context"
  BY <1>1 DEF Context, Blocks
<1>4. Sized(root) /\ root.is = "statistics" /\ \A u : Has(root, u) <=> lo <= u /\ u < lo + k
  BY <1>1, <1>2, StatisticsFit
<1>5. Sized(root_end)
  BY <1>3 DEF Sized
<1>6. Root(size) = {root_end, root}
  BY DEF Root
<1> HIDE DEF root_end, root
<1>7. \A u \in Nat : Has(root_end, u) <=> u = (lo + m) - 1
  BY <1>1, <1>3 DEF Has, Behind
<1>8. NoShare({root_end, root})
  BY <1>1, <1>4, <1>7 DEF NoShare
<1>9. \A u \in Nat : Within(u, {root_end, root}) <=> Has(root_end, u) \/ Has(root, u)
  BY DEF Within
<1>10. QED BY <1>1, <1>3, <1>4, <1>5, <1>6, <1>7, <1>8, <1>9

LEMMA InitKeeps ==
  ASSUME NEW size \in Memories, NEW stamps, InitSubAllocator(size, stamps), Quiet
  PROVE  HeapInv'
<1> DEFINE lo == FirstUnit(size)
           m == UpperUnits(size)
           k == SizeFor(RootUnits)
<1>1. /\ m \in Nat /\ k \in Nat \ {0} /\ lo \in Nat \ {0} /\ k < m /\ Size1(size) \in Nat \ {0} /\ Size1(size) <= FIXED_UNIT_SIZE * lo
      /\ \A b \in Root(size) : Sized(b) /\ b.is # "glued"
      /\ NoShare(Root(size))
      /\ \A u \in Nat : Within(u, Root(size)) <=> (lo <= u /\ u < lo + k) \/ u = (lo + m) - 1
  BY RootFits
<1>2. /\ SubAllocatorSize' = size /\ pText' = 0 /\ UnitsStart' = lo /\ FakeUnitsStart' = Size1(size)
      /\ LoUnit' = lo + k /\ HiUnit' = (lo + m) - 1 /\ blocks' = Root(size) /\ Stamped' = stamps \ {b.at : b \in Root(size)}
  BY DEF InitSubAllocator, Root
<1>3. EndUnit' = lo + m /\ Context((lo + m) - 1) \in Root(size)
  BY <1>2 DEF EndUnit, Root
<1> HIDE DEF lo, m, k
<1>4. EndsInv'
  BY <1>1, <1>2, <1>3 DEF EndsInv
<1>5. LastInv'
  <2>1. Context(EndUnit - 1)' = Context((lo + m) - 1)
    BY <1>3 DEF Context
  <2>2. QED BY <2>1, <1>2, <1>3 DEF LastInv
<1>6. \A u \in Nat : IsHanded(u)' <=> (lo <= u /\ u < lo + k) \/ u = (lo + m) - 1
  BY <1>1, <1>2, <1>3 DEF IsHanded
<1>7. UnitsInv'
  BY <1>1, <1>2, <1>6 DEF UnitsInv
<1>8. CallInv' /\ stage' # "glue"
  BY QuietIsOk
<1>9. StampInv'
  BY <1>2, <1>8 DEF StampInv
<1>10. QED BY <1>4, <1>5, <1>7, <1>8, <1>9 DEF HeapInv

LEMMA HeapHolds == HeapInit => HeapInv
<1> SUFFICES ASSUME HeapInit PROVE HeapInv
  OBVIOUS
<1>0. PICK size \in Memories, stamps \in Leftovers :
        /\ SubAllocatorSize = size /\ pText = 0 /\ UnitsStart = FirstUnit(size) /\ FakeUnitsStart = Size1(size)
        /\ LoUnit = FirstUnit(size) + SizeFor(RootUnits) /\ HiUnit = (FirstUnit(size) + UpperUnits(size)) - 1
        /\ blocks = Root(size) /\ Stamped = stamps \ {b.at : b \in Root(size)} /\ stage = "model"
  BY DEF HeapInit, Root
<1> DEFINE lo == FirstUnit(size)
           m == UpperUnits(size)
           k == SizeFor(RootUnits)
<1>1. /\ m \in Nat /\ k \in Nat \ {0} /\ lo \in Nat \ {0} /\ k < m /\ Size1(size) \in Nat \ {0} /\ Size1(size) <= FIXED_UNIT_SIZE * lo
      /\ \A b \in Root(size) : Sized(b) /\ b.is # "glued"
      /\ NoShare(Root(size))
      /\ \A u \in Nat : Within(u, Root(size)) <=> (lo <= u /\ u < lo + k) \/ u = (lo + m) - 1
  BY RootFits
<1>2. EndUnit = lo + m /\ Context((lo + m) - 1) \in Root(size)
  BY <1>0 DEF EndUnit, Root
<1>3. UnitsStart = lo /\ LoUnit = lo + k /\ HiUnit = (lo + m) - 1
  BY <1>0
<1> HIDE DEF lo, m, k
<1>4. EndsInv
  BY <1>0, <1>1, <1>2, <1>3 DEF EndsInv, lo
<1>5. LastInv
  BY <1>0, <1>2 DEF LastInv
<1>6. \A u \in Nat : IsHanded(u) <=> (lo <= u /\ u < lo + k) \/ u = (lo + m) - 1
  BY <1>1, <1>2, <1>3 DEF IsHanded
<1>7. UnitsInv
  BY <1>0, <1>1, <1>6 DEF UnitsInv
<1>8. StampInv /\ CallInv
  BY <1>0 DEF StampInv, CallInv, HeapStages
<1>9. QED BY <1>4, <1>5, <1>7, <1>8 DEF HeapInv

LEMMA RestartKeeps == EndsInv /\ RestartModelRare => HeapInv'
  BY InitKeeps DEF EndsInv, RestartModelRare

-----------------------------------------------------------------------------
(* Each operation keeps the invariant *)

\* The units that the text loses are those right below the others.
LEMMA TextLoses ==
  ASSUME EndsInv, NEW n \in Nat, FakeUnitsStart - pText > FIXED_UNIT_SIZE * n
  PROVE  /\ UnitsStart - n \in Nat /\ FakeUnitsStart - FIXED_UNIT_SIZE * n \in Nat
         /\ pText < FakeUnitsStart - FIXED_UNIT_SIZE * n /\ FakeUnitsStart - FIXED_UNIT_SIZE * n <= FIXED_UNIT_SIZE * (UnitsStart - n)
<1> DEFINE F == FIXED_UNIT_SIZE
<1>1. F \in Nat \ {0} /\ UnitsStart \in Nat /\ FakeUnitsStart \in Nat /\ pText \in Nat /\ FakeUnitsStart <= F * UnitsStart
  BY SubAllocatorAssumption DEF EndsInv
<1>2. F * n \in Nat /\ F * UnitsStart \in Nat /\ F * (UnitsStart - n) = F * UnitsStart - F * n
  BY <1>1
<1>3. F * (UnitsStart - n) > 0
  BY <1>1, <1>2
<1>4. UnitsStart - n \in Int /\ UnitsStart - n > 0
  BY <1>1, <1>3
<1>5. QED BY <1>1, <1>2, <1>4

LEMMA SearchKeeps ==
  ASSUME HeapInv, NEW r, CallOk(r), Search(r)
  PROVE  HeapInv'
<1> DEFINE n == Indx2Units[Index(r)]
<1>1. n \in Nat \ {0} /\ Index(r) \in Nat /\ Index(r) \in Indexes
  BY GivenFits, UnitsOfIndex
<1>2. CASE /\ \E i \in Larger(r) : i = Min(Larger(r)) /\ \E b \in FreeList(i) : Get(r, b.at, {b}, SplitBlock(b, n))
           /\ Quiet /\ UNCHANGED <<ends, pText, GlueCount, SubAllocatorSize>>
  <2>0. PICK i \in Larger(r) : \E b \in FreeList(i) : Get(r, b.at, {b}, SplitBlock(b, n))
    BY <1>2
  <2>1. PICK b \in FreeList(i) : Get(r, b.at, {b}, SplitBlock(b, n))
    BY <2>0
  <2>2. i \in Indexes /\ i > Index(r) /\ b \in blocks /\ b.is = "free" /\ b.units = Indx2Units[i]
    BY <2>1 DEF Larger, FreeList
  <2>3. Indx2Units[i] \in Nat /\ Indx2Units[i] <= Largest /\ Indx2Units[i] > n
    BY <2>2, <1>1, UnitsOfIndex, Increasing
  <2>4. Sized(b)
    BY <2>2 DEF HeapInv, UnitsInv
  <2> DEFINE rest == SplitBlock(b, n)
  <2>5. (\A c \in rest : Sized(c) /\ c.is = "free") /\ NoShare(rest) /\ \A u \in Nat : Within(u, rest) <=> b.at + n <= u /\ u < Behind(b)
    BY <2>2, <2>3, <2>4, <1>1, SplitFits
  <2> HIDE DEF rest, n
  <2>6. CallInv' /\ stage' # "glue"
    BY <1>2, QuietIsOk
  <2>7. UnitsInv' /\ LastInv' /\ StampInv'
    BY <1>2, <2>1, <2>2, <2>3, <2>5, <2>6, <1>1, GotBlock, SMTT(30) DEF HeapInv, n, rest
  <2>8. EndsInv'
    BY <1>2, EndsStay DEF HeapInv
  <2>9. QED BY <2>6, <2>7, <2>8 DEF HeapInv
<1>3. CASE /\ FakeUnitsStart - pText > FIXED_UNIT_SIZE * n
           /\ FakeUnitsStart' = FakeUnitsStart - FIXED_UNIT_SIZE * n /\ UnitsStart' = UnitsStart - n
           /\ Get(r, UnitsStart - n, {}, {}) /\ Quiet /\ UNCHANGED <<LoUnit, HiUnit, pText, SubAllocatorSize>>
  <2> DEFINE a == UnitsStart - n
  <2> HIDE DEF n
  <2>1. EndsInv /\ EndUnit' = EndUnit
    BY <1>3 DEF HeapInv, EndUnit
  <2>2. a \in Nat /\ FakeUnitsStart' \in Nat /\ pText < FakeUnitsStart' /\ FakeUnitsStart' <= FIXED_UNIT_SIZE * a
    BY <2>1, <1>1, <1>3, TextLoses
  <2>3. UnitsStart \in Nat /\ LoUnit \in Nat /\ HiUnit \in Nat /\ EndUnit \in Nat /\ UnitsStart <= LoUnit /\ LoUnit <= HiUnit /\ HiUnit < EndUnit
    BY <2>1 DEF EndsInv
  <2>4. EndsInv'
    BY <1>3, <1>1, <2>1, <2>2, <2>3 DEF EndsInv
  <2>5. \A u \in Nat : IsHanded(u)' <=> IsHanded(u) \/ (a <= u /\ u < a + n)
    BY <1>3, <1>1, <2>1, <2>2, <2>3 DEF IsHanded
  <2>6. \A u \in Nat : a <= u /\ u < a + n => ~IsHanded(u)
    BY <1>1, <2>3 DEF IsHanded
  <2>7. CallInv' /\ stage' # "glue"
    BY <1>3, QuietIsOk
  <2>8. Get(r, a, {}, {})
    BY <1>3
  <2> HIDE DEF a
  <2>9. UnitsInv' /\ LastInv' /\ StampInv'
    BY <2>1, <2>2, <2>5, <2>6, <2>7, <2>8, GotFresh DEF HeapInv, n
  <2>10. QED BY <2>4, <2>7, <2>9 DEF HeapInv
<1>4. CASE RestartModelRare
  BY <1>4, RestartKeeps DEF HeapInv
<1>5. QED BY <1>2, <1>3, <1>4 DEF Search

\* Before the free blocks are glued each is stamped, and what LoUnit points to is not.
LEMMA StampsKeep ==
  ASSUME HeapInv, NEW r, CallOk(r), stage' = "glue", call' = r, Stamped' = Stamps, UNCHANGED <<ends, pText, SubAllocatorSize>>,
         blocks' = {IF b.is = "free" THEN Glued(b.at, b.units) ELSE b : b \in blocks}
  PROVE  HeapInv'
<1> DEFINE now(b) == IF b.is = "free" THEN Glued(b.at, b.units) ELSE b
<1>1. /\ \A b \in blocks : now(b) \in blocks'
      /\ \A c \in blocks' : \E b \in blocks : c = now(b)
  OBVIOUS
<1>2. ASSUME NEW b \in blocks
      PROVE  /\ Sized(now(b)) /\ (\A u : Has(now(b), u) <=> Has(b, u)) /\ now(b).at = b.at
             /\ (b.is # "free" => now(b) = b) /\ (now(b).is # "glued" => b.is # "free" /\ b.is # "glued")
  <2>1. Sized(b) /\ b \in Blocks
    BY DEF HeapInv, UnitsInv, Sized
  <2>2. b.at \in Nat /\ b.units \in Nat \ {0}
    BY <2>1, BlockFields
  <2>3. CASE b.is = "free"
    <3>1. now(b) = Glued(b.at, b.units)
      BY <2>3
    <3> HIDE DEF now
    <3>2. QED BY <3>1, <2>2, <2>3 DEF Glued, Sized, Blocks, Has, Behind
  <2>4. CASE b.is # "free"
    BY <2>1, <2>4
  <2>5. QED BY <2>3, <2>4
<1> HIDE DEF now
<1>3. \A c \in blocks' : Sized(c)
  BY <1>1, <1>2
<1>4. NoShare(blocks')
  <2> SUFFICES ASSUME NEW c \in blocks', NEW d \in blocks', NEW u \in Nat, Has(c, u), Has(d, u) PROVE c = d
    BY DEF NoShare
  <2>1. PICK b \in blocks : c = now(b)
    BY <1>1
  <2>2. PICK e \in blocks : d = now(e)
    BY <1>1
  <2>3. Has(b, u) /\ Has(e, u)
    BY <2>1, <2>2, <1>2
  <2>4. b = e
    BY <2>3 DEF HeapInv, UnitsInv, NoShare
  <2>5. QED BY <2>1, <2>2, <2>4
<1>5. \A u \in Nat : Within(u, blocks') <=> Within(u, blocks)
  BY <1>1, <1>2 DEF Within
<1>6. EndsInv' /\ EndUnit' = EndUnit /\ \A u \in Nat : IsHanded(u)' <=> IsHanded(u)
  BY EndsStay DEF HeapInv, IsHanded, ends, EndUnit
<1>7. \A u \in Nat : Within(u, blocks') <=> IsHanded(u)'
  BY <1>5, <1>6 DEF HeapInv, UnitsInv
<1>8. UnitsInv'
  BY <1>3, <1>4, <1>7 DEF UnitsInv
<1>9. LastInv'
  <2> DEFINE l == Context(EndUnit - 1)
  <2>1. l \in blocks /\ l.is # "free"
    BY DEF HeapInv, LastInv, Context
  <2>2. l \in blocks'
    BY <2>1, <1>1, <1>2
  <2>3. l' = l
    BY <1>6 DEF Context
  <2>4. QED BY <2>2, <2>3 DEF LastInv
<1>10. \A b \in blocks, c \in blocks : b.is = "free" /\ c.is # "free" => b.at # c.at
  <2> SUFFICES ASSUME NEW b \in blocks, NEW c \in blocks, b.at = c.at PROVE b = c
    OBVIOUS
  <2>1. b \in Blocks /\ c \in Blocks
    BY DEF HeapInv, UnitsInv, Sized
  <2>2. Has(b, b.at) /\ Has(c, b.at) /\ b.at \in Nat
    BY <2>1, BlockFields
  <2>3. QED BY <2>2 DEF HeapInv, UnitsInv, NoShare
<1>11. ASSUME NEW c \in blocks', c.is # "glued" PROVE c.at \notin Stamped'
  <2>1. PICK b \in blocks : c = now(b)
    BY <1>1
  <2>2. c = b /\ b.is # "free" /\ b.is # "glued"
    BY <2>1, <1>2, <1>11
  <2>3. b.at \notin Stamped
    BY <2>2 DEF HeapInv, StampInv
  <2>4. QED BY <2>2, <2>3, <1>10 DEF Stamps
<1>12. ASSUME LoUnit # HiUnit PROVE LoUnit \notin Stamped'
  <2>1. LoUnit \in Nat /\ ~IsHanded(LoUnit)
    BY <1>12 DEF HeapInv, EndsInv, IsHanded
  <2>2. \A b \in blocks : b.at # LoUnit
    <3> SUFFICES ASSUME NEW b \in blocks, b.at = LoUnit PROVE FALSE
      OBVIOUS
    <3>1. b \in Blocks
      BY DEF HeapInv, UnitsInv, Sized
    <3>2. Has(b, LoUnit)
      BY <3>1, BlockFields
    <3>3. QED BY <2>1, <3>2 DEF HeapInv, UnitsInv, Within
  <2>3. QED BY <1>12, <2>2 DEF Stamps
<1>13. StampInv'
  BY <1>11, <1>12 DEF StampInv, ends
<1>14. CallInv'
  <2>1. r.op = "ExpandUnits" => r.old \in blocks'
    <3> SUFFICES ASSUME r.op = "ExpandUnits" PROVE r.old \in blocks'
      OBVIOUS
    <3>1. r.old \in blocks /\ r.old.is = "statistics"
      BY DEF CallOk
    <3>2. QED BY <3>1, <1>1, <1>2
  <2>2. CallOk(r)'
    BY <2>1 DEF CallOk
  <2>3. QED BY <2>2 DEF CallInv, HeapStages, CallOk
<1>15. QED BY <1>6, <1>8, <1>9, <1>13, <1>14 DEF HeapInv

LEMMA RareKeeps ==
  ASSUME HeapInv, NEW r, CallOk(r), Rare(r)
  PROVE  HeapInv'
<1>1. CASE GlueCount = 0
  BY <1>1, StampsKeep DEF Rare
<1>2. CASE GlueCount # 0
  BY <1>2, SearchKeeps DEF Rare
<1>3. QED BY <1>1, <1>2

\* LoUnit goes up by n units, or HiUnit down by one.
LEMMA AreaShrinks ==
  ASSUME HeapInv, NEW r, CallOk(r), NEW n, n = Indx2Units[Index(r)], NEW a, Get(r, a, {}, {}), Quiet,
         UNCHANGED <<UnitsStart, FakeUnitsStart, pText, SubAllocatorSize>>,
         \/ a = LoUnit /\ LoUnit + n <= HiUnit /\ LoUnit' = LoUnit + n /\ HiUnit' = HiUnit
         \/ n = 1 /\ a = HiUnit - 1 /\ LoUnit # HiUnit /\ HiUnit' = HiUnit - 1 /\ LoUnit' = LoUnit
  PROVE  HeapInv'
<1>1. n \in Nat \ {0}
  BY GivenFits, IndexesAreNat
<1>2. EndsInv
  BY DEF HeapInv
<1>3. UnitsStart \in Nat /\ LoUnit \in Nat /\ HiUnit \in Nat /\ EndUnit \in Nat /\ UnitsStart <= LoUnit /\ LoUnit <= HiUnit /\ HiUnit < EndUnit
  BY <1>2 DEF EndsInv
<1>4. EndUnit' = EndUnit /\ a \in Nat
  BY <1>3 DEF EndUnit
<1>5. EndsInv'
  BY <1>1, <1>2, <1>3, <1>4 DEF EndsInv
<1>6. \A u \in Nat : IsHanded(u)' <=> IsHanded(u) \/ (a <= u /\ u < a + n)
  BY <1>1, <1>3, <1>4 DEF IsHanded
<1>7. \A u \in Nat : a <= u /\ u < a + n => ~IsHanded(u)
  BY <1>1, <1>3 DEF IsHanded
<1>8. CallInv' /\ stage' # "glue"
  BY QuietIsOk
<1>9. UnitsInv' /\ LastInv' /\ StampInv'
  BY <1>4, <1>6, <1>7, <1>8, GotFresh DEF HeapInv
<1>10. QED BY <1>5, <1>8, <1>9 DEF HeapInv

LEMMA AllocUnitsKeeps ==
  ASSUME HeapInv, NEW r, CallOk(r), AllocUnits(r)
  PROVE  HeapInv'
<1> DEFINE n == Indx2Units[Index(r)]
<1>1. CASE RemoveNode(r) /\ UNCHANGED <<ends, pText, GlueCount, SubAllocatorSize>>
  BY <1>1, RemoveNodeKeeps
<1>2. CASE /\ LoUnit + n <= HiUnit /\ LoUnit' = LoUnit + n
           /\ Get(r, LoUnit, {}, {}) /\ Quiet /\ UNCHANGED <<HiUnit, UnitsStart, FakeUnitsStart, pText, GlueCount, SubAllocatorSize>>
  BY <1>2, AreaShrinks
<1>3. CASE Rare(r)
  BY <1>3, RareKeeps
<1>4. QED BY <1>1, <1>2, <1>3 DEF AllocUnits

\* A block of statistics has another one in its place, or is free.
LEMMA SwapKeeps ==
  ASSUME HeapInv, NEW b \in blocks, b.is # "context", NEW c, Sized(c), c.is # "glued", \A u \in Nat : Has(c, u) <=> Has(b, u),
         Replace({b}, {c}), Quiet, UNCHANGED <<ends, pText, SubAllocatorSize>>
  PROVE  HeapInv'
<1> DEFINE From == {b}
           To == {c}
<1>1. Replace(From, To) /\ From \in SUBSET blocks /\ (\A d \in From : d.is # "context") /\ (\A d \in To : Sized(d) /\ d.is # "glued") /\ NoShare(To)
  BY DEF NoShare
<1>2. \A u \in Nat : Within(u, To) <=> Within(u, From)
  BY DEF Within
<1>3. CallInv' /\ stage' # "glue" /\ EndsInv'
  BY QuietIsOk, EndsStay DEF HeapInv
<1> HIDE DEF From, To
<1>4. UnitsInv' /\ LastInv' /\ StampInv'
  BY <1>1, <1>2, <1>3, ReplacedWithin DEF HeapInv
<1>5. QED BY <1>3, <1>4 DEF HeapInv

LEMMA SameBlockKeeps ==
  ASSUME HeapInv, NEW b \in InUse, NEW n \in 1 .. Largest, SameBlock(b, n)
  PROVE  HeapInv'
<1> DEFINE c == Statistics(b.at, n)
<1>1. b \in blocks /\ b.is = "statistics" /\ Sized(b) /\ b \in Blocks
  BY DEF InUse, HeapInv, UnitsInv, Sized
<1>2. b.at \in Nat /\ b.units = SizeFor(b.nu)
  BY <1>1, BlockFields DEF Sized
<1>3. b.units = SizeFor(n)
  BY <1>2 DEF SameBlock, SizeFor
<1>4. Sized(c) /\ c.is = "statistics" /\ \A u : Has(c, u) <=> Has(b, u)
  BY <1>2, <1>3, StatisticsFit DEF Has, Behind
<1>5. Replace({b}, {c}) /\ Quiet /\ UNCHANGED <<ends, pText, SubAllocatorSize>>
  BY DEF SameBlock
<1> HIDE DEF c
<1>6. QED BY <1>1, <1>4, <1>5, SwapKeeps

LEMMA InUseFits ==
  ASSUME HeapInv, NEW b \in InUse
  PROVE  /\ b \in blocks /\ b.is = "statistics" /\ Sized(b) /\ b \in Blocks /\ b.at \in Nat /\ b.units \in Nat \ {0} /\ b.units <= Largest
         /\ b.nu \in 1 .. Largest /\ b.nu \in Nat /\ b.units = SizeFor(b.nu)
<1>1. b \in blocks /\ b.is = "statistics" /\ Sized(b) /\ b \in Blocks
  BY DEF InUse, HeapInv, UnitsInv, Sized
<1>2. b.nu \in 1 .. Largest /\ b.units = SizeFor(b.nu)
  BY <1>1 DEF Sized
<1>3. SizeFor(b.nu) \in 1 .. Largest
  BY <1>2, SizesFit
<1>4. b.at \in Nat /\ b.units \in Nat \ {0} /\ b.nu \in Nat
  BY <1>1, BlockFields
<1>5. QED BY <1>1, <1>2, <1>3, <1>4, IndexesAreNat

LEMMA ExpandKeeps == HeapInv /\ ExpandUnits => HeapInv'
<1> SUFFICES ASSUME HeapInv, NEW b \in InUse, b.nu < Largest,
                    \/ SameBlock(b, b.nu + 1)
                    \/ AllocUnits([op |-> "ExpandUnits", nu |-> b.nu + 1, old |-> b])
             PROVE  HeapInv'
  BY DEF ExpandUnits
<1>1. b \in blocks /\ b.is = "statistics" /\ b.nu + 1 \in 1 .. Largest
  BY InUseFits, IndexesAreNat
<1>2. CASE SameBlock(b, b.nu + 1)
  BY <1>1, <1>2, SameBlockKeeps
<1>3. CASE AllocUnits([op |-> "ExpandUnits", nu |-> b.nu + 1, old |-> b])
  <2> DEFINE r == [op |-> "ExpandUnits", nu |-> b.nu + 1, old |-> b]
  <2>1. CallOk(r)
    BY <1>1 DEF CallOk, Allocates
  <2> HIDE DEF r
  <2>2. AllocUnits(r)
    BY <1>3 DEF r
  <2>3. QED BY <2>1, <2>2, AllocUnitsKeeps
<1>4. QED BY <1>2, <1>3

\* The smaller of two sizes, when they are not one.
LEMMA SmallerSize ==
  ASSUME NEW m \in 1 .. Largest, NEW n \in 1 .. m - 1, Units2Indx(m) # Units2Indx(n)
  PROVE  SizeFor(n) < SizeFor(m) /\ n \in 1 .. Largest
<1>1. m \in Nat /\ n \in Nat /\ n \in 1 .. Largest /\ n < m
  BY IndexesAreNat
<1>2. Units2Indx(m) \in Indexes /\ Units2Indx(n) \in Indexes /\ Indx2Units[Units2Indx(m)] >= m
  BY <1>1, SizesFit
<1>3. Units2Indx(m) \in Nat /\ Units2Indx(n) \in Nat /\ Indx2Units[Units2Indx(m)] \in Nat
  BY <1>2, UnitsOfIndex
<1>4. ~(Units2Indx(m) < Units2Indx(n))
  <2>1. \A i \in Indexes : i < Units2Indx(n) => Indx2Units[i] < n
    BY <1>1, SizesFit
  <2>2. QED BY <2>1, <1>1, <1>2, <1>3
<1>5. Units2Indx(n) < Units2Indx(m)
  BY <1>3, <1>4
<1>6. QED BY <1>1, <1>2, <1>5, Increasing DEF SizeFor

LEMMA ShrinkKeeps == HeapInv /\ ShrinkUnits => HeapInv'
<1> SUFFICES ASSUME HeapInv, NEW b \in InUse, NEW n \in 1 .. b.nu - 1,
                    \/ SameBlock(b, n)
                    \/ /\ Units2Indx(b.nu) # Units2Indx(n) /\ Quiet /\ UNCHANGED <<ends, pText, GlueCount, SubAllocatorSize>>
                       /\ \/ \E c \in FreeList(Units2Indx(n)) : Replace({b, c}, {Statistics(c.at, n), Freed(b)})
                          \/ Replace({b}, {Statistics(b.at, n)} \cup SplitBlock(b, SizeFor(n)))
             PROVE  HeapInv'
  BY DEF ShrinkUnits
<1>1. b \in blocks /\ b.is = "statistics" /\ Sized(b) /\ b.at \in Nat /\ b.units \in Nat /\ b.units <= Largest /\ b.nu \in 1 .. Largest /\ b.units = SizeFor(b.nu)
  BY InUseFits
<1>2. n \in 1 .. Largest
  BY <1>1, IndexesAreNat
<1>3. SizeFor(n) \in Nat
  BY <1>2, SizesFit, IndexesAreNat
<1>4. CASE SameBlock(b, n)
  BY <1>2, <1>4, SameBlockKeeps
<1>5. ASSUME Quiet, UNCHANGED <<ends, pText, SubAllocatorSize>>, NEW c \in FreeList(Units2Indx(n)), Replace({b, c}, {Statistics(c.at, n), Freed(b)})
      PROVE  HeapInv'
  <2> DEFINE From == {b, c}
             s == Statistics(c.at, n)
             f == Freed(b)
             To == {s, f}
  <2>1. c \in blocks /\ c.is = "free" /\ c.units = SizeFor(n)
    BY <1>5 DEF FreeList, SizeFor
  <2>2. c.at \in Nat
    BY <2>1, BlockFields DEF HeapInv, UnitsInv, Sized
  <2>3. Sized(s) /\ s.is = "statistics" /\ \A u : Has(s, u) <=> Has(c, u)
    BY <1>2, <2>1, <2>2, StatisticsFit DEF Has, Behind
  <2>4. Sized(f) /\ f.is = "free" /\ \A u : Has(f, u) <=> Has(b, u)
    BY <1>1, FreedFits
  <2>5. From \in SUBSET blocks /\ (\A d \in From : d.is # "context") /\ Replace(From, To)
    BY <1>1, <1>5, <2>1
  <2> HIDE DEF s, f
  <2>6. \A u \in Nat : ~(Has(s, u) /\ Has(f, u))
    BY <1>1, <2>1, <2>3, <2>4 DEF HeapInv, UnitsInv, NoShare
  <2>7. NoShare(To)
    BY <2>6 DEF NoShare
  <2>8. \A u \in Nat : Within(u, To) <=> Within(u, From)
    BY <2>3, <2>4 DEF Within
  <2>9. \A d \in To : Sized(d) /\ d.is # "glued"
    BY <2>3, <2>4
  <2>10. CallInv' /\ stage' # "glue" /\ EndsInv'
    BY <1>5, QuietIsOk, EndsStay DEF HeapInv
  <2> HIDE DEF From, To
  <2>11. UnitsInv' /\ LastInv' /\ StampInv'
    BY <1>5, <2>5, <2>7, <2>8, <2>9, <2>10, ReplacedWithin DEF HeapInv
  <2>12. QED BY <2>10, <2>11 DEF HeapInv
<1>6. ASSUME Units2Indx(b.nu) # Units2Indx(n), Quiet, UNCHANGED <<ends, pText, SubAllocatorSize>>,
             Replace({b}, {Statistics(b.at, n)} \cup SplitBlock(b, SizeFor(n)))
      PROVE  HeapInv'
  <2> DEFINE From == {b}
             k == SizeFor(n)
             s == Statistics(b.at, n)
             rest == SplitBlock(b, k)
             To == {s} \cup rest
  <2>1. k < b.units
    BY <1>1, <1>6, SmallerSize
  <2>2. (\A c \in rest : Sized(c) /\ c.is = "free") /\ NoShare(rest) /\ \A u \in Nat : Within(u, rest) <=> b.at + k <= u /\ u < Behind(b)
    BY <2>1, <1>1, <1>3, SplitFits
  <2>3. Sized(s) /\ s.is = "statistics" /\ \A u : Has(s, u) <=> b.at <= u /\ u < b.at + k
    BY <1>1, <1>2, StatisticsFit
  <2>4. From \in SUBSET blocks /\ (\A d \in From : d.is # "context") /\ Replace(From, To)
    BY <1>1, <1>6
  <2>5. Behind(b) = b.at + b.units
    BY DEF Behind
  <2> HIDE DEF s, rest, k
  <2>6. k \in Nat
    BY <1>3 DEF k
  <2>7. \A u \in Nat : ~(Has(s, u) /\ Within(u, rest))
    BY <1>1, <2>2, <2>3, <2>6
  <2>8. NoShare(To)
    <3> SUFFICES ASSUME NEW c \in To, NEW d \in To, NEW u \in Nat, Has(c, u), Has(d, u) PROVE c = d
      BY DEF NoShare
    <3>1. CASE c = s /\ d = s
      BY <3>1
    <3>2. CASE c = s /\ d \in rest
      BY <3>2, <2>7 DEF Within
    <3>3. CASE c \in rest /\ d = s
      BY <3>3, <2>7 DEF Within
    <3>4. CASE c \in rest /\ d \in rest
      BY <3>4, <2>2 DEF NoShare
    <3>5. QED BY <3>1, <3>2, <3>3, <3>4
  <2>9. \A u \in Nat : Within(u, To) <=> Within(u, From)
    <3>1. \A u \in Nat : (Within(u, To) <=> Has(s, u) \/ Within(u, rest)) /\ (Within(u, From) <=> Has(b, u))
      BY DEF Within
    <3>2. \A u \in Nat : Has(b, u) <=> b.at <= u /\ u < Behind(b)
      BY DEF Has
    <3>3. \A u \in Nat : Has(b, u) <=> Has(s, u) \/ Within(u, rest)
      <4> SUFFICES ASSUME NEW u \in Nat PROVE Has(b, u) <=> Has(s, u) \/ Within(u, rest)
        OBVIOUS
      <4>1. (Has(b, u) <=> b.at <= u /\ u < Behind(b)) /\ (Has(s, u) <=> b.at <= u /\ u < b.at + k) /\ (Within(u, rest) <=> b.at + k <= u /\ u < Behind(b))
        BY <2>2, <2>3, <3>2
      <4>2. b.at \in Nat /\ Behind(b) \in Nat /\ b.at + k < Behind(b)
        BY <1>1, <2>1, <2>5, <2>6
      <4>3. QED BY <4>1, <4>2, <2>6
    <3>4. QED BY <3>1, <3>3
  <2>10. \A d \in To : Sized(d) /\ d.is # "glued"
    BY <2>2, <2>3
  <2>11. CallInv' /\ stage' # "glue" /\ EndsInv'
    BY <1>6, QuietIsOk, EndsStay DEF HeapInv
  <2> HIDE DEF From, To
  <2>12. UnitsInv' /\ LastInv' /\ StampInv'
    BY <1>6, <2>4, <2>8, <2>9, <2>10, <2>11, ReplacedWithin DEF HeapInv
  <2>13. QED BY <2>11, <2>12 DEF HeapInv
<1>7. QED BY <1>4, <1>5, <1>6

LEMMA FreeKeeps == HeapInv /\ FreeUnits => HeapInv'
<1> SUFFICES ASSUME HeapInv, NEW b \in InUse, Replace({b}, {Freed(b)}), Quiet, UNCHANGED <<ends, pText, SubAllocatorSize>>
             PROVE  HeapInv'
  BY DEF FreeUnits
<1> DEFINE f == Freed(b)
<1>1. b \in blocks /\ b.is = "statistics" /\ Sized(b)
  BY InUseFits
<1>2. Sized(f) /\ f.is = "free" /\ \A u : Has(f, u) <=> Has(b, u)
  BY <1>1, FreedFits
<1>3. Replace({b}, {f})
  OBVIOUS
<1> HIDE DEF f
<1>4. QED BY <1>1, <1>2, <1>3, SwapKeeps

\* The chain of free blocks, while they are glued and given back.
LEMMA ChainKeeps ==
  ASSUME HeapInv, NEW From \in SUBSET InChain, NEW To, blocks' = (blocks \ From) \cup To,
         UNCHANGED <<ends, pText, SubAllocatorSize, call, stage>>, stage # "model",
         \A b \in To : Sized(b) /\ (b.is # "glued" => b.at \notin Stamped'), NoShare(To),
         \A u \in Nat : Within(u, To) <=> Within(u, From), Stamped' \subseteq Stamped
  PROVE  HeapInv'
<1> DEFINE Extra == {}
<1>1. From \in SUBSET blocks /\ \A b \in From : b.is = "glued"
  BY DEF InChain
<1>2. (\A u \in Extra : ~Within(u, blocks)) /\ (\A u \in Nat : Within(u, To) <=> Within(u, From) \/ u \in Extra) /\ NoShare(blocks)
  BY DEF HeapInv, UnitsInv
<1> HIDE DEF Extra
<1>3. NoShare((blocks \ From) \cup To) /\ \A u \in Nat : Within(u, (blocks \ From) \cup To) <=> Within(u, blocks) \/ u \in Extra
  BY <1>1, <1>2, Exchange
<1>4. NoShare(blocks') /\ \A u \in Nat : Within(u, blocks') <=> Within(u, blocks)
  BY <1>3 DEF Extra
<1>5. EndsInv' /\ EndUnit' = EndUnit /\ \A u \in Nat : IsHanded(u)' <=> IsHanded(u)
  BY EndsStay DEF HeapInv, IsHanded, ends, EndUnit
<1>6. \A u \in Nat : Within(u, blocks') <=> IsHanded(u)'
  BY <1>4, <1>5 DEF HeapInv, UnitsInv
<1>7. \A b \in blocks' : Sized(b)
  BY DEF HeapInv, UnitsInv
<1>8. UnitsInv'
  BY <1>4, <1>6, <1>7 DEF UnitsInv
<1>9. LastInv'
  <2> DEFINE l == Context(EndUnit - 1)
  <2>1. l \in blocks /\ l.is = "context"
    BY DEF HeapInv, LastInv, Context
  <2>2. l \in blocks' /\ l' = l
    BY <2>1, <1>1, <1>5 DEF Context
  <2>3. QED BY <2>2 DEF LastInv
<1>10. StampInv'
  <2>1. \A b \in blocks' : b.is # "glued" => b.at \notin Stamped'
    BY DEF HeapInv, StampInv
  <2>2. QED BY <2>1 DEF HeapInv, StampInv, ends
<1>11. CallInv'
  <2>1. CallOk(call)
    BY DEF HeapInv, CallInv
  <2>2. call.op = "ExpandUnits" => call.old \in blocks'
    BY <2>1, <1>1 DEF CallOk
  <2>3. CallOk(call)'
    BY <2>1, <2>2 DEF CallOk
  <2>4. QED BY <2>3 DEF CallInv, HeapInv
<1>12. QED BY <1>5, <1>8, <1>9, <1>10, <1>11 DEF HeapInv

LEMMA ChainFits ==
  ASSUME HeapInv, NEW p \in InChain
  PROVE  /\ p \in blocks /\ p.is = "glued" /\ Sized(p) /\ p.at \in Nat /\ p.units \in Nat \ {0}
         /\ \A u : Has(p, u) <=> p.at <= u /\ u < p.at + p.units
<1>1. p \in blocks /\ p.is = "glued" /\ Sized(p) /\ p \in Blocks
  BY DEF InChain, HeapInv, UnitsInv, Sized
<1>2. QED BY <1>1, BlockFields DEF Has, Behind

LEMMA GluedFits ==
  ASSUME NEW a \in Nat, NEW n \in Nat \ {0}
  PROVE  Sized(Glued(a, n)) /\ Glued(a, n).is = "glued" /\ \A u : Has(Glued(a, n), u) <=> a <= u /\ u < a + n
<1>1. Glued(a, n) \in Blocks
  BY DEF Glued, Blocks
<1>2. QED BY <1>1 DEF Glued, Sized, Has, Behind

LEMMA GlueKeeps == HeapInv /\ Glue => HeapInv'
<1> SUFFICES ASSUME HeapInv, stage = "glue", UNCHANGED <<ends, pText, SubAllocatorSize, Stamped, call>>,
                    \/ \E p, q \in InChain : Gluing(p, q) /\ blocks' = (blocks \ {p, q}) \cup {Glued(p.at, p.units + q.units)} /\ UNCHANGED stage
                    \/ stage' = "return" /\ UNCHANGED blocks
             PROVE  HeapInv'
  BY DEF Glue
<1>1. ASSUME NEW p \in InChain, NEW q \in InChain, Gluing(p, q), blocks' = (blocks \ {p, q}) \cup {Glued(p.at, p.units + q.units)}, UNCHANGED stage
      PROVE  HeapInv'
  <2> DEFINE From == {p, q}
             g == Glued(p.at, p.units + q.units)
             To == {g}
  <2>1. p.at \in Nat /\ p.units \in Nat \ {0} /\ q.units \in Nat \ {0} /\ \A u : Has(p, u) <=> p.at <= u /\ u < p.at + p.units
    BY ChainFits
  <2>2. q.at = p.at + p.units /\ \A u : Has(q, u) <=> q.at <= u /\ u < q.at + q.units
    BY <1>1, ChainFits DEF Gluing, Behind
  <2>3. Sized(g) /\ g.is = "glued" /\ \A u : Has(g, u) <=> p.at <= u /\ u < p.at + (p.units + q.units)
    BY <2>1, GluedFits
  <2> HIDE DEF g
  <2>4. \A u \in Nat : Within(u, To) <=> Within(u, From)
    <3>1. \A u \in Nat : (Within(u, To) <=> Has(g, u)) /\ (Within(u, From) <=> Has(p, u) \/ Has(q, u))
      BY DEF Within
    <3>2. QED BY <3>1, <2>1, <2>2, <2>3
  <2>5. NoShare(To) /\ (\A b \in To : Sized(b) /\ (b.is # "glued" => b.at \notin Stamped')) /\ From \in SUBSET InChain
    BY <2>3 DEF NoShare
  <2>6. blocks' = (blocks \ From) \cup To /\ stage # "model" /\ Stamped' \subseteq Stamped
    BY <1>1 DEF g
  <2> HIDE DEF From, To
  <2>7. QED BY <1>1, <2>4, <2>5, <2>6, ChainKeeps
<1>2. CASE stage' = "return" /\ UNCHANGED blocks
  BY <1>2, EndsStay DEF HeapInv, UnitsInv, LastInv, StampInv, CallInv, CallOk, IsHanded, ends, EndUnit, HeapStages
<1>3. QED BY <1>1, <1>2

LEMMA ReturnKeeps == HeapInv /\ Return => HeapInv'
<1> SUFFICES ASSUME HeapInv, stage = "return", UNCHANGED <<ends, pText, SubAllocatorSize, call>>,
                    \/ \E p \in InChain :
                          IF p.units > Largest
                          THEN /\ blocks' = (blocks \ {p}) \cup {FreeBlock(p.at, Largest), Glued(p.at + Largest, p.units - Largest)}
                               /\ Stamped' = Stamped \ {p.at} /\ UNCHANGED stage
                          ELSE Replace({p}, Leftover(p.at, p.units)) /\ UNCHANGED stage
                    \/ stage' = "rare" /\ UNCHANGED <<blocks, Stamped>>
             PROVE  HeapInv'
  BY DEF Return
<1>1. ASSUME NEW p \in InChain, p.units > Largest, UNCHANGED stage, Stamped' = Stamped \ {p.at},
             blocks' = (blocks \ {p}) \cup {FreeBlock(p.at, Largest), Glued(p.at + Largest, p.units - Largest)}
      PROVE  HeapInv'
  <2> DEFINE From == {p}
             f == FreeBlock(p.at, Largest)
             g == Glued(p.at + Largest, p.units - Largest)
             To == {f, g}
  <2>1. p.at \in Nat /\ p.units \in Nat \ {0} /\ \A u : Has(p, u) <=> p.at <= u /\ u < p.at + p.units
    BY ChainFits
  <2>2. Largest \in Nat \ {0} /\ Largest \in Sizes
    <3>1. Indx2Units[(N1 + N2 + N3 + N4) - 1] = Largest /\ (N1 + N2 + N3 + N4) - 1 \in Indexes
      BY TableFacts
    <3>2. Largest \in Sizes
      BY <3>1 DEF Sizes
    <3>3. Largest \in Nat \ {0}
      BY IndexesAreNat
    <3>4. QED BY <3>2, <3>3
  <2>3. p.at + Largest \in Nat /\ p.units - Largest \in Nat \ {0} /\ (p.at + Largest) + (p.units - Largest) = p.at + p.units
    BY <1>1, <2>1, <2>2
  <2>4. Sized(g) /\ g.is = "glued" /\ \A u : Has(g, u) <=> p.at + Largest <= u /\ u < (p.at + Largest) + (p.units - Largest)
    BY <2>3, GluedFits
  <2>5. Sized(f) /\ f.is = "free" /\ f.at = p.at /\ \A u : Has(f, u) <=> p.at <= u /\ u < p.at + Largest
    <3>1. f \in Blocks
      BY <2>1, <2>2 DEF FreeBlock, Blocks
    <3>2. QED BY <2>2, <3>1 DEF FreeBlock, Sized, Has, Behind
  <2> HIDE DEF f, g
  <2>6. \A u \in Nat : (Has(p, u) <=> Has(f, u) \/ Has(g, u)) /\ ~(Has(f, u) /\ Has(g, u))
    <3> SUFFICES ASSUME NEW u \in Nat PROVE (Has(p, u) <=> Has(f, u) \/ Has(g, u)) /\ ~(Has(f, u) /\ Has(g, u))
      OBVIOUS
    <3>1. /\ Has(p, u) <=> p.at <= u /\ u < p.at + p.units
          /\ Has(f, u) <=> p.at <= u /\ u < p.at + Largest
          /\ Has(g, u) <=> p.at + Largest <= u /\ u < p.at + p.units
      BY <2>1, <2>3, <2>4, <2>5
    <3>2. QED BY <3>1, <2>1, <2>2, <1>1
  <2>7. \A u \in Nat : Within(u, To) <=> Within(u, From)
    <3>1. \A u \in Nat : (Within(u, To) <=> Has(f, u) \/ Has(g, u)) /\ (Within(u, From) <=> Has(p, u))
      BY DEF Within
    <3>2. QED BY <3>1, <2>6
  <2>8. NoShare(To)
    BY <2>6 DEF NoShare
  <2>9. (\A b \in To : Sized(b) /\ (b.is # "glued" => b.at \notin Stamped')) /\ From \in SUBSET InChain
    BY <1>1, <2>4, <2>5
  <2>10. blocks' = (blocks \ From) \cup To /\ stage # "model" /\ Stamped' \subseteq Stamped
    BY <1>1 DEF f, g
  <2> HIDE DEF From, To
  <2>11. QED BY <1>1, <2>7, <2>8, <2>9, <2>10, ChainKeeps
<1>2. ASSUME NEW p \in InChain, ~(p.units > Largest), Replace({p}, Leftover(p.at, p.units)), UNCHANGED stage
      PROVE  HeapInv'
  <2> DEFINE From == {p}
             To == Leftover(p.at, p.units)
  <2>1. p.at \in Nat /\ p.units \in Nat \ {0} /\ \A u : Has(p, u) <=> p.at <= u /\ u < p.at + p.units
    BY ChainFits
  <2>2. p.units \in 1 .. Largest
    BY <1>2, <2>1, IndexesAreNat
  <2>3. (\A b \in To : Sized(b)) /\ NoShare(To) /\ \A u \in Nat : Within(u, To) <=> p.at <= u /\ u < p.at + p.units
    BY <2>1, <2>2, LeftoverFits
  <2>4. blocks' = (blocks \ From) \cup To /\ Stamped' = Stamped \ {b.at : b \in To}
    BY <1>2 DEF Replace
  <2> HIDE DEF To
  <2>5. \A u \in Nat : Within(u, To) <=> Within(u, From)
    BY <2>1, <2>3 DEF Within
  <2>6. (\A b \in To : b.is # "glued" => b.at \notin Stamped') /\ Stamped' \subseteq Stamped /\ From \in SUBSET InChain /\ stage # "model"
    BY <2>4
  <2> HIDE DEF From
  <2>7. QED BY <1>2, <2>3, <2>4, <2>5, <2>6, ChainKeeps
<1>3. CASE stage' = "rare" /\ UNCHANGED <<blocks, Stamped>>
  BY <1>3, EndsStay DEF HeapInv, UnitsInv, LastInv, StampInv, CallInv, CallOk, IsHanded, ends, EndUnit, HeapStages
<1>4. QED BY <1>1, <1>2, <1>3

LEMMA HeapStays == HeapInv /\ HeapStep => HeapInv'
<1> SUFFICES ASSUME HeapInv, HeapStep PROVE HeapInv'
  OBVIOUS
<1>1. CASE DecodeInit
  BY <1>1, RestartKeeps, InitKeeps DEF DecodeInit, HeapInv
<1>2. CASE CreateChild
  <2> DEFINE r == [op |-> "AllocContext", nu |-> 1]
  <2>1. CallOk(r) /\ r.op = "AllocContext" /\ r.nu = 1
    BY IndexesAreNat DEF CallOk, Allocates
  <2>2. Indx2Units[Index(r)] = 1
    BY <2>1, SizesFit, IndexesAreNat DEF Index, SizeFor
  <2>3. CASE /\ HiUnit # LoUnit /\ HiUnit' = HiUnit - 1 /\ Get(r, HiUnit - 1, {}, {}) /\ Quiet
             /\ UNCHANGED <<LoUnit, UnitsStart, FakeUnitsStart, pText, GlueCount, SubAllocatorSize>>
    <3> HIDE DEF r
    <3>1. QED BY <2>1, <2>2, <2>3, AreaShrinks
  <2>4. CASE RemoveNode(r) /\ UNCHANGED <<ends, pText, GlueCount, SubAllocatorSize>>
    <3> HIDE DEF r
    <3>1. QED BY <2>1, <2>4, RemoveNodeKeeps
  <2>5. CASE Rare(r)
    <3> HIDE DEF r
    <3>1. QED BY <2>1, <2>5, RareKeeps
  <2>6. QED BY <1>2, <2>3, <2>4, <2>5 DEF CreateChild
<1>3. CASE SecondState
  <2> DEFINE r == [op |-> "AllocUnits", nu |-> 1]
  <2>1. CallOk(r)
    BY IndexesAreNat DEF CallOk, Allocates
  <2>2. AllocUnits(r)
    BY <1>3 DEF SecondState
  <2> HIDE DEF r
  <2>3. QED BY <2>1, <2>2, AllocUnitsKeeps
<1>4. CASE ExpandUnits
  BY <1>4, ExpandKeeps
<1>5. CASE ShrinkUnits
  BY <1>5, ShrinkKeeps
<1>6. CASE FreeUnits
  BY <1>6, FreeKeeps
<1>7. CASE TextGrows
  <2>1. CASE RestartModelRare
    BY <2>1, RestartKeeps DEF HeapInv
  <2>2. CASE ~(pText + 1 >= FakeUnitsStart) /\ pText' = pText + 1 /\ Quiet /\ UNCHANGED <<ends, SubAllocatorSize, blocks, Stamped>>
    <3>1. EndUnit' = EndUnit /\ \A u : IsHanded(u)' <=> IsHanded(u)
      BY <2>2 DEF EndUnit, IsHanded, ends
    <3>2. EndsInv'
      BY <2>2, <3>1 DEF HeapInv, EndsInv, ends
    <3>3. CallInv' /\ stage' # "glue"
      BY <2>2, QuietIsOk
    <3>4. QED BY <2>2, <3>1, <3>2, <3>3 DEF HeapInv, UnitsInv, LastInv, StampInv
  <2>3. QED BY <1>7, <2>1, <2>2 DEF TextGrows
<1>8. CASE TextBack
  <2>1. EndUnit' = EndUnit /\ \A u : IsHanded(u)' <=> IsHanded(u)
    BY <1>8 DEF TextBack, EndUnit, IsHanded, ends
  <2>2. EndsInv'
    BY <1>8, <2>1 DEF TextBack, HeapInv, EndsInv, ends
  <2>3. CallInv' /\ stage' # "glue"
    BY <1>8, QuietIsOk DEF TextBack
  <2>4. QED BY <1>8, <2>1, <2>2, <2>3 DEF TextBack, HeapInv, UnitsInv, LastInv, StampInv
<1>9. CASE Glue
  BY <1>9, GlueKeeps
<1>10. CASE Return
  BY <1>10, ReturnKeeps
<1>11. CASE AllocUnitsRare
  <2>1. CallOk(call)
    BY <1>11 DEF AllocUnitsRare, HeapInv, CallInv
  <2>2. CASE RemoveNode(call) /\ UNCHANGED <<ends, pText, GlueCount, SubAllocatorSize>>
    BY <2>1, <2>2, RemoveNodeKeeps
  <2>3. CASE Search(call)
    BY <2>1, <2>3, SearchKeeps
  <2>4. QED BY <1>11, <2>2, <2>3 DEF AllocUnitsRare
<1>12. QED BY <1>1, <1>2, <1>3, <1>4, <1>5, <1>6, <1>7, <1>8, <1>9, <1>10, <1>11 DEF HeapStep

LEMMA HeapStutters == HeapInv /\ UNCHANGED heap_vars => HeapInv'
  BY DEF HeapInv, EndsInv, UnitsInv, LastInv, StampInv, CallInv, CallOk, IsHanded, EndUnit, heap_vars

-----------------------------------------------------------------------------
(* What the invariant says of the memory *)

\* BlocksApart, UnitsKept: whatever the sizes of blocks, the memory and what it held before,
\* and in whatever order the model asks for units and gives them back, no unit is in two
\* blocks and none is lost.
LEMMA UnitsAreSound == EndsInv /\ UnitsInv => BlocksApart /\ UnitsKept
<1> SUFFICES ASSUME EndsInv, UnitsInv PROVE BlocksApart /\ UnitsKept
  OBVIOUS
<1>1. \A b \in blocks : b \in Blocks /\ b.at \in Nat /\ Behind(b) \in Nat
  BY BlockFields DEF UnitsInv, Sized
<1>2. BlocksApart
  <2> SUFFICES ASSUME NEW b \in blocks, NEW c \in blocks, ~(Behind(b) <= c.at), ~(Behind(c) <= b.at) PROVE b = c
    BY DEF BlocksApart
  <2> DEFINE u == IF b.at < c.at THEN c.at ELSE b.at
  <2>1. b.at \in Nat /\ c.at \in Nat /\ b.at < Behind(b) /\ c.at < Behind(c) /\ Behind(b) \in Nat /\ Behind(c) \in Nat
    BY <1>1, BlockFields
  <2>2. u \in Nat /\ Has(b, u) /\ Has(c, u)
    BY <2>1 DEF Has
  <2>3. QED BY <2>2 DEF UnitsInv, NoShare
<1>3. UnitsStart \in Nat /\ LoUnit \in Nat /\ HiUnit \in Nat /\ EndUnit \in Nat
  BY DEF EndsInv
<1>4. \A u \in Nat : u \in Handed <=> IsHanded(u)
  BY <1>3 DEF Handed, IsHanded
<1>5. Handed \subseteq Nat
  BY <1>3 DEF Handed
<1> DEFINE Covered == UNION {b.at .. Behind(b) - 1 : b \in blocks}
<1>6. \A b \in blocks : \A u : u \in b.at .. Behind(b) - 1 <=> u \in Nat /\ Has(b, u)
  BY <1>1 DEF Has
<1>7. \A u : u \in Covered <=> \E b \in blocks : u \in b.at .. Behind(b) - 1
  OBVIOUS
<1> HIDE DEF Covered
<1>8. \A u : u \in Covered <=> u \in Nat /\ Within(u, blocks)
  BY <1>6, <1>7 DEF Within
<1>9. \A u : u \in Covered <=> u \in Handed
  BY <1>4, <1>5, <1>8 DEF UnitsInv
<1>10. Covered = Handed
  BY <1>9
<1>11. QED BY <1>2, <1>10 DEF UnitsKept, Covered

\* StampsTold: behind a block that is glued is another, what is in use, whose stamp was
\* overwritten, or LoUnit, whose stamp was cleared; never the end, where the first context is.
LEMMA StampsAreTold == HeapInv => StampsTold
<1> SUFFICES ASSUME HeapInv, stage = "glue", NEW p \in InChain, Behind(p) \in Stamped
             PROVE  \E q \in InChain : q.at = Behind(p)
  BY DEF StampsTold
<1> DEFINE e == Behind(p)
           l == Context(EndUnit - 1)
<1>1. p \in blocks /\ p.is = "glued" /\ p \in Blocks
  BY DEF InChain, HeapInv, UnitsInv, Sized
<1>2. e \in Nat /\ e >= 1 /\ Has(p, e - 1) /\ e - 1 \in Nat /\ ~Has(p, e)
  BY <1>1, BlockFields DEF Has
<1>3. UnitsStart \in Nat /\ LoUnit \in Nat /\ HiUnit \in Nat /\ EndUnit \in Nat /\ UnitsStart <= LoUnit /\ LoUnit <= HiUnit /\ HiUnit < EndUnit
  BY DEF HeapInv, EndsInv
<1>4. IsHanded(e - 1)
  BY <1>1, <1>2 DEF HeapInv, UnitsInv, Within
<1>5. l \in blocks /\ l.is = "context" /\ l.at = EndUnit - 1 /\ l.units = 1
  BY DEF HeapInv, LastInv, Context
<1>6. l.at # e - 1
  <2> SUFFICES ASSUME l.at = e - 1 PROVE FALSE
    OBVIOUS
  <2>1. Has(l, e - 1)
    BY <1>2, <1>5 DEF Has, Behind
  <2> HIDE DEF l, e
  <2>2. QED BY <2>1, <1>1, <1>2, <1>5 DEF HeapInv, UnitsInv, NoShare
<1>7. e # EndUnit
  BY <1>2, <1>3, <1>5, <1>6
<1>8. IsHanded(e) \/ (e = LoUnit /\ LoUnit # HiUnit)
  BY <1>2, <1>3, <1>4, <1>7 DEF IsHanded
<1>9. IsHanded(e)
  BY <1>8 DEF HeapInv, StampInv
<1>10. PICK q \in blocks : Has(q, e)
  BY <1>2, <1>9 DEF HeapInv, UnitsInv, Within
<1>11. q \in Blocks /\ q # p
  BY <1>2, <1>10 DEF HeapInv, UnitsInv, Sized
<1>12. ~Has(q, e - 1)
  BY <1>1, <1>2, <1>10, <1>11 DEF HeapInv, UnitsInv, NoShare
<1>13. q.at = e
  BY <1>2, <1>10, <1>11, <1>12, BlockFields DEF Has
<1>14. q.is = "glued"
  BY <1>10, <1>13 DEF HeapInv, StampInv
<1>15. QED BY <1>10, <1>13, <1>14 DEF InChain

LEMMA RoomIsThere == HeapInv => TextBelow /\ RoomForAll
<1> SUFFICES ASSUME HeapInv PROVE TextBelow /\ RoomForAll
  OBVIOUS
<1>1. TextBelow
  <2>1. UnitsStart \in Nat /\ pText < FakeUnitsStart /\ FakeUnitsStart \in Nat /\ FakeUnitsStart <= FIXED_UNIT_SIZE * UnitsStart
    BY DEF HeapInv, EndsInv
  <2>2. FIXED_UNIT_SIZE \in Nat /\ UNIT_SIZE \in Nat /\ FIXED_UNIT_SIZE <= UNIT_SIZE
    BY SubAllocatorAssumption
  <2>3. FIXED_UNIT_SIZE * UnitsStart <= UNIT_SIZE * UnitsStart
    BY <2>1, <2>2
  <2>4. UNIT_SIZE * UnitsStart = UnitsStart * UNIT_SIZE /\ FIXED_UNIT_SIZE * UnitsStart \in Nat /\ UNIT_SIZE * UnitsStart \in Nat
    BY <2>1, <2>2
  <2>5. QED BY <2>1, <2>3, <2>4 DEF TextBelow
<1>2. ASSUME NEW b \in blocks PROVE IF b.is = "free" THEN \E i \in Indexes : b.units = Indx2Units[i] ELSE b.nu <= b.units
  <2>1. Sized(b) /\ b \in Blocks
    BY DEF HeapInv, UnitsInv, Sized
  <2>2. b.is \in {"context", "statistics", "free", "glued"} /\ b.units \in Nat /\ b.nu \in Nat
    BY <2>1, BlockFields DEF Blocks
  <2>3. CASE b.is = "free"
    BY <2>1, <2>3 DEF Sized, Sizes
  <2>4. CASE b.is = "statistics"
    BY <2>1, <2>4, SizesFit DEF Sized
  <2>5. CASE b.is \in {"context", "glued"}
    BY <2>1, <2>2, <2>5 DEF Sized
  <2>6. QED BY <2>2, <2>3, <2>4, <2>5
<1>3. QED BY <1>1, <1>2 DEF RoomForAll

\* HeapSound, a part of FeaturesSound: in the memory of the model that predicts characters no
\* unit is handed out twice or lost, a stamp behind a free block is that of a free block, the
\* text ends below the units, and statistics have the room they are for; for any sizes of
\* blocks and of memory, whatever it held, and any order of the operations.
THEOREM MemoryIsSound == HeapSpec => []HeapSound
<1>1. HeapInv => HeapSound
  BY UnitsAreSound, StampsAreTold, RoomIsThere DEF HeapInv, HeapSound
<1>2. QED BY <1>1, HeapHolds, HeapStays, HeapStutters, PTL DEF HeapSpec
=============================================================================
