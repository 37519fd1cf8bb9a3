----------------------------- MODULE ReaderProofs -----------------------------
(***************************************************************************)
(* Proofs about the readers of images: whatever is on the disk, of files,  *)
(* parts and devices of any size, and whatever is asked for.               *)
(***************************************************************************)
EXTENDS ImageReader, FiniteSetTheorems, SequenceTheorems, WellFoundedInduction, TLAPS

(* Arithmetic *)

\* A set of naturals has a least element.
LEMMA LeastNatural ==
  ASSUME NEW T \in SUBSET Nat, T # {}
  PROVE  \E x \in T : \A y \in T : x <= y
<1> DEFINE Less == OpToRel(<, Nat)
<1>1. \A x, y \in Nat : x < y => <<x, y>> \in Less
  BY DEF OpToRel
<1>2. IsWellFoundedOn(Less, Nat)
  BY NatLessThanWellFounded
<1> HIDE DEF Less
<1>3. PICK x \in T : \A y \in T : <<y, x>> \notin Less
  BY <1>2, WFMin
<1>4. \A y \in T : ~(y < x)
  BY <1>1, <1>3
<1>5. \A y \in T : x <= y
  BY <1>4
<1>6. QED BY <1>5

\* What is true of 0, and of n + 1 if of n, is true of each natural number.
LEMMA Steps ==
  ASSUME NEW T \in SUBSET Nat, 0 \in T, \A n \in T : n + 1 \in T
  PROVE  T = Nat
<1> SUFFICES ASSUME Nat \ T # {} PROVE FALSE
  OBVIOUS
<1>1. PICK x \in Nat \ T : \A y \in Nat \ T : x <= y
  BY LeastNatural
<1>2. x # 0 /\ x - 1 \in Nat /\ x - 1 \notin Nat \ T
  BY <1>1
<1>3. QED BY <1>1, <1>2

\* A start and a step for each n, and the functions that begin with the one and take the
\* others.
StepFunctions(S) == [Nat -> [S -> S]]
Solutions(S, a, F) == {f \in [Nat -> S] : f[0] = a /\ \A n \in Nat : f[n + 1] = F[n][f[n]]}

\* There is such a function.
LEMMA Recursion == \A S : \A a \in S : \A F \in StepFunctions(S) : Solutions(S, a, F) # {}
<1> SUFFICES ASSUME NEW S, NEW a \in S, NEW F \in StepFunctions(S)
             PROVE  \E f \in [Nat -> S] : f[0] = a /\ \A n \in Nat : f[n + 1] = F[n][f[n]]
  BY DEF Solutions
<1>0. F \in [Nat -> [S -> S]]
  BY DEF StepFunctions
<1> USE <1>0
<1> DEFINE Upto(n) == {g \in [0 .. n -> S] : g[0] = a /\ \A k \in 0 .. n - 1 : g[k + 1] = F[k][g[k]]}
<1>1. \A n \in Nat : Upto(n) # {}
  <2> DEFINE T == {n \in Nat : Upto(n) # {}}
  <2>1. 0 \in T
    <3>1. [k \in 0 .. 0 |-> a] \in Upto(0)
      OBVIOUS
    <3>2. QED BY <3>1
  <2>2. ASSUME NEW n \in T PROVE n + 1 \in T
    <3>1. PICK g \in Upto(n) : TRUE
      OBVIOUS
    <3> DEFINE h == [k \in 0 .. n + 1 |-> IF k = n + 1 THEN F[n][g[n]] ELSE g[k]]
    <3>2. h \in Upto(n + 1)
      <4>1. F[n][g[n]] \in S
        BY <3>1
      <4>2. h \in [0 .. n + 1 -> S] /\ h[0] = a
        BY <3>1, <4>1
      <4>3. ASSUME NEW k \in 0 .. n PROVE h[k + 1] = F[k][h[k]]
        <5>1. CASE k = n
          BY <5>1
        <5>2. CASE k # n
          <6>1. k \in 0 .. n - 1
            BY <5>2
          <6>2. QED BY <3>1, <6>1
        <5>3. QED BY <5>1, <5>2
      <4>4. (n + 1) - 1 = n
        OBVIOUS
      <4> HIDE DEF h
      <4>5. QED BY <4>2, <4>3, <4>4
    <3> HIDE DEF h
    <3>3. Upto(n + 1) # {}
      BY <3>2
    <3>4. n + 1 \in Nat
      OBVIOUS
    <3> HIDE DEF Upto
    <3>5. QED BY <3>3, <3>4
  <2> HIDE DEF T
  <2>3. T = Nat
    <3>1. T \in SUBSET Nat
      BY DEF T
    <3>2. QED BY <2>1, <2>2, <3>1, Steps
  <2>4. QED BY <2>3 DEF T
<1>2. ASSUME NEW n \in Nat, NEW g \in Upto(n), NEW h \in Upto(n + 1)
      PROVE  g[n] = h[n]
  <2> DEFINE T == {k \in Nat : k <= n => g[k] = h[k]}
  <2>1. 0 \in T
    OBVIOUS
  <2>2. ASSUME NEW k \in T PROVE k + 1 \in T
    <3>1. CASE k + 1 <= n
      <4>1. k \in 0 .. n - 1 /\ k \in 0 .. n
        BY <3>1
      <4>2. QED BY <4>1
    <3>2. QED BY <3>1
  <2> HIDE DEF T
  <2>3. T = Nat
    <3>1. T \in SUBSET Nat
      BY DEF T
    <3>2. QED BY <2>1, <2>2, <3>1, Steps
  <2>4. QED BY <2>3, SMTT(30) DEF T
<1> DEFINE G(n) == CHOOSE g \in Upto(n) : TRUE
           f == [n \in Nat |-> G(n)[n]]
<1>3. \A n \in Nat : G(n) \in Upto(n)
  BY <1>1
<1>4. f \in [Nat -> S] /\ f[0] = a
  <2>1. \A n \in Nat : G(n)[n] \in S
    BY <1>3
  <2>2. G(0)[0] = a
    BY <1>3, ZenonT(30)
  <2>3. QED BY <2>1, <2>2
<1>5. ASSUME NEW n \in Nat PROVE f[n + 1] = F[n][f[n]]
  <2>1. G(n) \in Upto(n) /\ G(n + 1) \in Upto(n + 1)
    <3>1. n + 1 \in Nat
      OBVIOUS
    <3> HIDE DEF G, Upto
    <3>2. QED BY <1>3, <3>1
  <2>2. G(n)[n] = G(n + 1)[n]
    BY <1>2, <2>1
  <2>3. n \in 0 .. (n + 1) - 1
    OBVIOUS
  <2>4. G(n + 1)[n + 1] = F[n][G(n + 1)[n]]
    BY <2>1, <2>3
  <2>5. f[n] = G(n)[n] /\ f[n + 1] = G(n + 1)[n + 1]
    <3>1. n + 1 \in Nat
      OBVIOUS
    <3> HIDE DEF G
    <3>2. QED BY <3>1
  <2> HIDE DEF f, G
  <2>6. QED BY <2>2, <2>4, <2>5
<1>6. QED BY <1>4, <1>5

\* The powers of two are what they are defined to be.
LEMMA Powers ==
  TwoTo \in [Nat -> Nat] /\ TwoTo[0] = 1 /\ \A i \in Nat : TwoTo[i + 1] = 2 * TwoTo[i] /\ TwoTo[i] > 0
<1> DEFINE Is(f) == f = [i \in Nat |-> IF i = 0 THEN 1 ELSE 2 * f[i - 1]]
<1>1. \E f : Is(f)
  <2> DEFINE F == [n \in Nat |-> [x \in Nat |-> 2 * x]]
  <2>1. F \in StepFunctions(Nat)
    BY DEF StepFunctions
  <2> HIDE DEF F
  <2>2. PICK f \in Solutions(Nat, 1, F) : TRUE
    BY <2>1, Recursion
  <2>3. ASSUME NEW i \in Nat PROVE f[i] = IF i = 0 THEN 1 ELSE 2 * f[i - 1]
    <3>1. CASE i # 0
      <4>1. i - 1 \in Nat /\ (i - 1) + 1 = i
        BY <3>1
      <4>2. f[i] = F[i - 1][f[i - 1]]
        BY <2>2, <4>1 DEF Solutions
      <4>3. QED BY <3>1, <4>1, <4>2 DEF F, Solutions
    <3>2. QED BY <2>2, <3>1 DEF Solutions
  <2>4. f = [i \in Nat |-> f[i]]
    BY <2>2 DEF Solutions
  <2>5. Is(f)
    BY <2>3, <2>4
  <2> HIDE DEF Is
  <2>6. QED BY <2>5
<1>2. Is(TwoTo)
  BY <1>1 DEF TwoTo
<1> HIDE DEF Is
<1>3. TwoTo[0] = 1 /\ \A i \in Nat : TwoTo[i + 1] = 2 * TwoTo[i]
  BY <1>2 DEF Is
<1>4. \A i \in Nat : TwoTo[i] \in Nat /\ TwoTo[i] > 0
  <2> DEFINE T == {i \in Nat : TwoTo[i] \in Nat /\ TwoTo[i] > 0}
  <2>1. 0 \in T /\ \A i \in T : i + 1 \in T
    BY <1>3
  <2> HIDE DEF T
  <2>2. T = Nat
    <3>1. T \in SUBSET Nat
      BY DEF T
    <3>2. QED BY <2>1, <3>1, Steps
  <2>3. QED BY <2>2 DEF T
<1>5. TwoTo \in [Nat -> Nat]
  <2>1. TwoTo = [i \in Nat |-> TwoTo[i]]
    BY <1>2 DEF Is
  <2>2. QED BY <1>4, <2>1
<1>6. QED BY <1>3, <1>4, <1>5

-----------------------------------------------------------------------------
(* The size of a device *)

\* The bit i of f + p, where f is a multiple of 2p = 2^(i+1), is clear in f; and in p alone
\* it is set.
LEMMA BitOf ==
  ASSUME NEW p \in Nat, p > 0, NEW a \in Nat
  PROVE  ((2 * (a * p)) \div p) % 2 = 0 /\ (p \div p) % 2 = 1
<1>1. (2 * a) * p = 2 * (a * p) /\ 2 * a \in Nat
  OBVIOUS
<1>2. ((2 * a) * p) \div p = 2 * a
  BY <1>1
<1>3. (2 * a) % 2 = 0
  OBVIOUS
<1>4. p \div p = 1
  OBVIOUS
<1>5. QED BY <1>1, <1>2, <1>3, <1>4

\* What the loop over the bits does with the size of the bit above.
NextSize(n, i, f) == IF SetBit(f, i) < n THEN SetBit(f, i) ELSE ClearBit(f, i)

\* The sizes of the loop are numbers, each made from the one before.
LEMMA LoopOverBits ==
  ASSUME NEW n \in Nat, NEW bits \in Nat
  PROVE  /\ settled(n, bits)[bits + 1] = TwoTo[bits]
         /\ \A i \in 0 .. bits : settled(n, bits)[i] = NextSize(n, i, settled(n, bits)[i + 1])
<1> DEFINE Is(f) == f = [i \in 0 .. bits + 1 |->
                           IF i > bits THEN TwoTo[bits]
                           ELSE IF SetBit(f[i + 1], i) < n THEN SetBit(f[i + 1], i) ELSE ClearBit(f[i + 1], i)]
<1>1. \E f : Is(f)
  <2> DEFINE Step(k, x) == IF bits - k \in Nat THEN NextSize(n, bits - k, x) ELSE x
             F == [k \in Nat |-> [x \in Int |-> Step(k, x)]]
  <2>1. F \in StepFunctions(Int)
    <3>1. ASSUME NEW k \in Nat, NEW x \in Int PROVE Step(k, x) \in Int
      <4>1. CASE bits - k \in Nat
        <5>1. TwoTo[bits - k] \in Int
          BY <4>1, Powers
        <5>2. QED BY <4>1, <5>1 DEF NextSize, SetBit, ClearBit
      <4>2. QED BY <4>1
    <3> HIDE DEF Step
    <3>2. QED BY <3>1 DEF StepFunctions
  <2>2. TwoTo[bits] \in Int
    BY Powers
  <2> HIDE DEF F
  <2>3. PICK g \in Solutions(Int, TwoTo[bits], F) : TRUE
    BY <2>1, <2>2, Recursion
  <2> DEFINE f == [i \in 0 .. bits + 1 |-> g[bits + 1 - i]]
  <2>4. ASSUME NEW i \in 0 .. bits + 1
        PROVE  f[i] = IF i > bits THEN TwoTo[bits] ELSE NextSize(n, i, f[i + 1])
    <3>1. CASE i > bits
      <4>1. i = bits + 1 /\ bits + 1 - i = 0
        BY <3>1
      <4>2. QED BY <2>3, <3>1, <4>1 DEF Solutions
    <3>2. CASE i \in 0 .. bits
      <4>1. /\ bits - i \in Nat /\ bits + 1 - i = (bits - i) + 1 /\ bits + 1 - (i + 1) = bits - i
            /\ bits - (bits - i) = i /\ i + 1 \in 0 .. bits + 1
        BY <3>2
      <4>2. g[(bits - i) + 1] = F[bits - i][g[bits - i]] /\ g[bits - i] \in Int
        BY <2>3, <4>1 DEF Solutions
      <4>3. F[bits - i][g[bits - i]] = NextSize(n, i, g[bits - i])
        BY <3>2, <4>1, <4>2 DEF F
      <4>4. QED BY <3>2, <4>1, <4>2, <4>3
    <3>3. QED BY <3>1, <3>2
  <2>5. Is(f)
    BY <2>4 DEF NextSize
  <2> HIDE DEF Is, f
  <2>6. QED BY <2>5
<1>2. Is(settled(n, bits))
  BY <1>1 DEF settled
<1>3. QED BY <1>2 DEF NextSize

\* get_filesize() finds the size of each device but one of a single byte: when the bits
\* from i on are settled, the size so far is a multiple of 2^i, and the real one is larger
\* by at most 2^i.
LEMMA SizeFound ==
  ASSUME NEW n \in Nat, n # 1, \E b \in 0 .. 59 : n <= TwoTo[b]
  PROVE  get_filesize(n) = n
<1> DEFINE Enough == {b \in 0 .. 59 : n <= TwoTo[b]}
           bits == CHOOSE b \in 0 .. 59 : TwoTo[b] >= n /\ \A c \in 0 .. (b - 1) : TwoTo[c] < n
           size == settled(n, bits)
<1>1. bits \in 0 .. 59 /\ TwoTo[bits] >= n /\ \A c \in 0 .. (bits - 1) : TwoTo[c] < n
  <2>1. PICK b \in Enough : \A c \in Enough : b <= c
    <3>1. Enough \in SUBSET Nat /\ Enough # {}
      OBVIOUS
    <3> HIDE DEF Enough
    <3>2. QED BY <3>1, LeastNatural
  <2>2. ASSUME NEW c \in 0 .. (b - 1) PROVE TwoTo[c] < n
    <3>1. c \in 0 .. 59 /\ c \notin Enough /\ TwoTo[c] \in Nat
      BY <2>1, Powers, SMTT(30)
    <3>2. QED BY <3>1
  <2>3. TwoTo[b] \in Nat
    BY Powers
  <2>4. b \in 0 .. 59 /\ TwoTo[b] >= n
    BY <2>3
  <2>5. QED BY <2>2, <2>4
<1>2. get_filesize(n) = IF size[0] > 0 THEN size[0] + 1 ELSE 0
  BY DEF get_filesize
<1> HIDE DEF bits
<1>3. /\ bits \in Nat /\ size[bits + 1] = TwoTo[bits]
      /\ \A i \in 0 .. bits : size[i] = NextSize(n, i, size[i + 1])
  BY <1>1, LoopOverBits
<1> HIDE DEF size
\* The first round clears the bit that was one too many.
<1>4. size[bits] = 0
  <2>1. TwoTo[bits] \in Nat /\ TwoTo[bits] > 0
    BY <1>3, Powers
  <2>2. IsSet(TwoTo[bits], bits)
    BY <2>1, BitOf DEF IsSet
  <2>3. SetBit(TwoTo[bits], bits) = TwoTo[bits] /\ ClearBit(TwoTo[bits], bits) = 0
    BY <2>1, <2>2 DEF SetBit, ClearBit
  <2>4. ~(TwoTo[bits] < n)
    BY <1>1, <2>1
  <2>5. size[bits] = NextSize(n, bits, TwoTo[bits])
    BY <1>3
  <2>6. QED BY <2>3, <2>4, <2>5 DEF NextSize
<1>5. CASE n = 0
  <2>1. TwoTo[0] = 1
    BY Powers
  <2>2. bits = 0
    <3>1. CASE bits > 0
      <4>1. 0 \in 0 .. (bits - 1)
        BY <1>3, <3>1
      <4>2. TwoTo[0] < n
        BY <1>1, <4>1
      <4>3. QED BY <1>5, <2>1, <4>2
    <3>2. QED BY <1>3, <3>1
  <2>3. QED BY <1>2, <1>4, <1>5, <2>2
<1>6. CASE n > 1
  <2> DEFINE Close(i) == /\ \E a \in Nat : size[i] = a * TwoTo[i]
                         /\ size[i] < n /\ n <= size[i] + TwoTo[i]
             T == {k \in Nat : k <= bits => Close(bits - k)}
  <2>1. 0 \in T
    <3>1. TwoTo[bits] \in Nat /\ 0 * TwoTo[bits] = 0
      BY <1>3, Powers
    <3>2. Close(bits)
      BY <1>1, <1>4, <1>6, <3>1
    <3>3. bits - 0 = bits
      BY <1>3
    <3> HIDE DEF Close
    <3>4. QED BY <3>2, <3>3
  <2>2. ASSUME NEW k \in T, k + 1 <= bits PROVE Close(bits - (k + 1))
    <3> DEFINE i == bits - (k + 1)
               p == TwoTo[i]
    <3>1. i \in Nat /\ i \in 0 .. bits /\ i + 1 = bits - k
      BY <1>3, <2>2
    <3>2. Close(i + 1)
      <4>1. k <= bits
        BY <1>3, <2>2
      <4>2. Close(bits - k)
        BY <4>1
      <4> HIDE DEF Close
      <4>3. QED BY <3>1, <4>2
    <3> HIDE DEF i
    <3>3. p \in Nat /\ p > 0 /\ TwoTo[i + 1] = 2 * p
      BY <3>1, Powers
    <3>4. size[i] = NextSize(n, i, size[i + 1])
      BY <1>3, <3>1
    <3>5. PICK a \in Nat : size[i + 1] = a * TwoTo[i + 1]
      BY <3>2
    <3> HIDE DEF p
    <3>6. size[i + 1] = 2 * (a * p) /\ a * p \in Nat
      BY <3>3, <3>5
    <3>7. ~IsSet(size[i + 1], i)
      BY <3>3, <3>6, BitOf DEF IsSet, p
    <3>8. SetBit(size[i + 1], i) = size[i + 1] + p /\ ClearBit(size[i + 1], i) = size[i + 1]
      BY <3>7 DEF SetBit, ClearBit, p
    <3>9. size[i + 1] < n /\ n <= size[i + 1] + 2 * p
      BY <3>2, <3>3
    <3>10. CASE size[i + 1] + p < n
      <4>1. size[i] = size[i + 1] + p
        BY <3>4, <3>8, <3>10 DEF NextSize
      <4>2. size[i] = (2 * a + 1) * p /\ 2 * a + 1 \in Nat
        BY <3>3, <3>6, <4>1
      <4>3. size[i] < n /\ n <= size[i] + p
        BY <3>3, <3>6, <3>9, <3>10, <4>1
      <4>4. QED BY <4>2, <4>3 DEF p, i
    <3>11. CASE ~(size[i + 1] + p < n)
      <4>1. size[i] = size[i + 1]
        BY <3>4, <3>8, <3>11 DEF NextSize
      <4>2. size[i] = (2 * a) * p /\ 2 * a \in Nat
        BY <3>3, <3>6, <4>1
      <4>3. size[i] < n /\ n <= size[i] + p
        BY <3>3, <3>6, <3>9, <3>11, <4>1
      <4>4. QED BY <4>2, <4>3 DEF p, i
    <3>12. QED BY <3>10, <3>11
  <2> HIDE DEF Close
  <2>3. \A k \in T : k + 1 \in T
    BY <2>2
  <2> HIDE DEF T
  <2>4. T = Nat
    <3>1. T \in SUBSET Nat
      BY DEF T
    <3>2. QED BY <2>1, <2>3, <3>1, Steps
  <2>5. Close(0)
    <3>1. bits \in T /\ bits - bits = 0
      BY <1>3, <2>4
    <3>2. QED BY <1>3, <3>1 DEF T
  <2>6. size[0] < n /\ n <= size[0] + 1 /\ size[0] \in Nat
    <3>1. TwoTo[0] = 1
      BY Powers
    <3>2. PICK a \in Nat : size[0] = a * 1
      BY <2>5, <3>1 DEF Close
    <3>3. QED BY <2>5, <3>1, <3>2 DEF Close
  <2>7. QED BY <1>2, <1>6, <2>6
<1>7. QED BY <1>5, <1>6

-----------------------------------------------------------------------------
(* Least, greatest, and a row of all *)

LEMMA MinIn ==
  ASSUME NEW T \in SUBSET Nat, T # {}
  PROVE  Min(T) \in T /\ \A y \in T : Min(T) <= y
BY LeastNatural DEF Min

LEMMA MinOfTwo ==
  ASSUME NEW a \in Int, NEW b \in Int
  PROVE  Min({a, b}) = IF a <= b THEN a ELSE b
<1> DEFINE m == IF a <= b THEN a ELSE b
<1>1. m \in {a, b} /\ \A y \in {a, b} : m <= y
  OBVIOUS
<1>2. \A x \in {a, b} : (\A y \in {a, b} : x <= y) => x = m
  OBVIOUS
<1>3. QED BY <1>1, <1>2 DEF Min

LEMMA MaxIs ==
  ASSUME NEW T \in SUBSET Int, NEW m \in T, \A y \in T : m >= y
  PROVE  Max(T) = m
<1>1. \A x \in T : (\A y \in T : x >= y) => x = m
  BY SMT
<1>2. QED BY <1>1 DEF Max

\* A row of the elements of a finite set, each once, has all of them.
LEMMA RowOfAll ==
  ASSUME NEW T, IsFiniteSet(T), NEW f \in SetToSeqs(T)
  PROVE  /\ f \in Seq(T) /\ Len(f) = Cardinality(T)
         /\ \A i, j \in 1 .. Len(f) : f[i] = f[j] => i = j
         /\ \A x \in T : \E i \in 1 .. Len(f) : f[i] = x
<1> DEFINE n == Cardinality(T)
           D == 1 .. n
<1>1. n \in Nat
  BY FS_CardinalityType
<1>2. f \in [D -> T] /\ \A i, j \in D : i # j => f[i] # f[j]
  BY DEF SetToSeqs
<1>3. IsFiniteSet(D) /\ Cardinality(D) = n
  BY <1>1, FS_Interval
<1> HIDE DEF n, D
<1>4. f \in Injection(D, T)
  BY <1>2 DEF Injection, IsInjective
<1>5. f \in Surjection(D, T)
  BY <1>3, <1>4, FS_Injection DEF n
<1>6. \A x \in T : \E i \in D : f[i] = x
  BY <1>5 DEF Surjection
<1>7. f \in Seq(T) /\ Len(f) = n
  BY <1>1, <1>2, SeqDef DEF D
<1>8. QED BY <1>2, <1>6, <1>7 DEF D, n

-----------------------------------------------------------------------------
(* The invariant *)

\* What the choice of a reader leaves behind.
Chosen ==
  /\ reader_pc \in {"open", "refused"} <=> kind = "none"
  /\ reader_pc = "add" => kind = "raw" /\ is_multipart_file(sc.fname)
  /\ kind = "raw" <=> file_list # << >>
  /\ kind = "ewf" => Exists(sc.fname)
  /\ IF kind = "dir" THEN files \in SetToSeqs(Under(sc.fname)) ELSE files = << >>

\* The parts found so far lie one behind another, each with its size, and are numbered
\* from the file named on; num is the number to come, and no part follows the last.
Listed ==
  \A i \in DOMAIN file_list :
     /\ file_list[i].length = sc.files[file_list[i].path]
     /\ file_list[i].offset = IF i = 1 THEN 0 ELSE file_list[i-1].offset + file_list[i-1].length
     /\ file_list[i].path = IF i = 1 THEN sc.fname ELSE Part(sc.fname, FirstProbe(sc.fname) + i - 2)
Probed ==
  kind = "raw" =>
    IF is_multipart_file(sc.fname)
    THEN /\ num = FirstProbe(sc.fname) + Len(file_list) - 1
         /\ reader_pc # "add" => num = Len(PartNumbers) \/ ~Exists(Part(sc.fname, num))
    ELSE Len(file_list) = 1

\* Before the loop nothing has been touched.
Untouched ==
  /\ reader_pc \notin {"loop", "done", "crash"} =>
       it = iterator /\ sha1g = "null" /\ hash_next = 0 /\ taken = << >> /\ skipped = {}
  /\ reader_pc # "done" => hashdigest = {}

\* While the digest lives, what was scanned is the image up to hash_next.
Hashed ==
  /\ sha1g = "hashing" => Adjoining(taken) /\ hash_next = EndOf(taken)
  /\ hashdigest # {} => Adjoining(taken) /\ hashdigest = {EndOf(taken)}

\* Where a walk over everything is, and what it has left behind.
Whole == ~Sampled /\ sc.start = 0
Behind(t) ==
  IF kind = "dir" THEN t.offset = 0 /\ \E j \in 1 .. it.file_number : t.path = files[j]
  ELSE t.path = << >> /\ t.offset < it.raw_offset
Seen == Positions \cup skipped \cup sc.seen
InOrder ==
  reader_pc \in {"loop", "done"} /\ Whole =>
    /\ ~it.eof
    /\ IF kind = "dir" THEN it.raw_offset = 0 ELSE it.raw_offset <= image_size
    /\ \A t \in Positions \cup skipped : Behind(t)
    /\ \A i, j \in DOMAIN taken : PlaceOf(taken[i]) = PlaceOf(taken[j]) => i = j
    /\ Positions \cap (skipped \cup sc.seen) = {}
    /\ reader_pc = "done" => AtEnd
ByteSeen(b) ==
  \/ \E i \in DOMAIN taken : taken[i].offset <= b /\ b < taken[i].offset + taken[i].bytes
  \/ \E t \in skipped \cup sc.seen : t.offset <= b /\ b < t.offset + reader_pagesize
NothingLeft ==
  reader_pc \in {"loop", "done"} /\ Whole =>
    IF kind = "dir" THEN \A j \in 1 .. it.file_number : [path |-> files[j], offset |-> 0] \in Seen
    ELSE \A b \in 0 .. it.raw_offset - 1 : ByteSeen(b)

\* Of a sample, the blocks still to come; the others have been looked at, and when the
\* walk is at the end of the image before it is through, those to come as well.
Looked(b) == InRange(seek_block(b)) /\ seek_block(b).raw_offset < image_size => get_pos0(seek_block(b)) \in Seen
BlocksInRange ==
  reader_pc \in {"loop", "done"} => drawn \subseteq 0 .. max_blocks /\ (~Sampled => drawn = {})
InSample ==
  reader_pc \in {"loop", "done"} /\ Sampled /\ sc.start = 0 =>
    /\ kind = "dir" => it.raw_offset = 0
    /\ \A b \in drawn : b \notin si \/ AtEnd => Looked(b)
    /\ reader_pc = "done" => AtEnd \/ si = {}

\* How the reader can die.
Died ==
  reader_pc = "crash" =>
    \/ Sampled /\ (kind = "dir" => Here.file_number = Len(files))
    \/ kind = "dir" /\ sc.start > 0

-----------------------------------------------------------------------------
(* Types *)

TypeInv == ReaderTypeOK /\ Chosen /\ Untouched /\ BlocksInRange

Info == [path : DOMAIN sc.files, offset : Nat, length : Nat]
Iterators == [raw_offset : Nat, file_number : 0 .. Len(files), eof : BOOLEAN]
PageIds == [path : Seq(STRING), offset : Nat]

LEMMA ScenarioType ==
  ASSUME sc \in Scenarios
  PROVE  /\ sc.fname \in Seq(STRING) /\ IsFiniteSet(DOMAIN sc.files) /\ DOMAIN sc.files \subseteq Seq(STRING)
         /\ sc.files \in [DOMAIN sc.files -> Nat]
         /\ sc.start \in Nat /\ sc.sample \in Nat /\ sc.seen \subseteq PageIds
BY ReaderAssumption DEF PageIds

\* The files below a directory are finitely many.
LEMMA UnderType ==
  ASSUME sc \in Scenarios, NEW dir
  PROVE  Under(dir) \subseteq DOMAIN sc.files /\ IsFiniteSet(Under(dir))
BY ScenarioType, FS_Subset DEF Under

\* The size that is found is the one the file has.
LEMMA PathSize ==
  ASSUME sc \in Scenarios, NEW f \in DOMAIN sc.files
  PROVE  path_filesize(f) = sc.files[f] /\ sc.files[f] \in Nat
<1>1. sc.files[f] \in Nat
  BY ScenarioType
<1>2. f \in sc.devices => sc.files[f] # 1 /\ \E b \in 0 .. 59 : sc.files[f] <= TwoTo[b]
  BY ReaderAssumption
<1>3. f \in sc.devices => get_filesize(sc.files[f]) = sc.files[f]
  BY <1>1, <1>2, SizeFound
<1>4. QED BY <1>1, <1>3 DEF path_filesize

LEMMA LastPart ==
  ASSUME file_list \in Seq(Info), file_list # << >>
  PROVE  /\ Len(file_list) \in Nat /\ Len(file_list) > 0
         /\ Last(file_list) = file_list[Len(file_list)] /\ Last(file_list) \in Info
<1> HIDE DEF Info
<1>1. Len(file_list) \in Nat /\ Len(file_list) > 0
  BY EmptySeq, LenProperties
<1>2. QED BY <1>1, ElementOfSeq DEF Last

LEMMA SizeType ==
  ASSUME ReaderTypeOK, Chosen, kind # "none"
  PROVE  /\ image_size \in Nat /\ max_blocks \in Nat
         /\ kind = "dir" => max_blocks = Len(files)
<1>0. reader_pagesize \in Nat \ {0} /\ Len(files) \in Nat
  BY ReaderAssumption, LenProperties DEF ReaderTypeOK
<1>1. image_size \in Nat
  <2>1. CASE kind = "raw"
    <3>1. file_list \in Seq(Info) /\ file_list # << >>
      BY <2>1 DEF ReaderTypeOK, Chosen, Info
    <3>2. Last(file_list).offset \in Nat /\ Last(file_list).length \in Nat
      BY <3>1, LastPart DEF Info
    <3>3. QED BY <2>1, <3>1, <3>2 DEF image_size
  <2>2. CASE kind = "ewf"
    BY <2>2, ScenarioType DEF image_size, Chosen, Exists, ReaderTypeOK
  <2>3. CASE kind = "dir"
    BY <1>0, <2>3 DEF image_size
  <2>4. QED BY <2>1, <2>2, <2>3 DEF ReaderTypeOK
<1>2. max_blocks \in Nat /\ (kind = "dir" => max_blocks = Len(files))
  <2>1. CASE kind = "raw"
    <3>1. (image_size + reader_pagesize - 1) \div reader_pagesize \in Nat
      BY <1>0, <1>1
    <3>2. QED BY <2>1, <3>1 DEF max_blocks
  <2>2. CASE kind = "ewf"
    <3>1. image_size \div reader_pagesize \in Nat
      BY <1>0, <1>1
    <3>2. QED BY <2>2, <3>1 DEF max_blocks
  <2>3. CASE kind = "dir"
    BY <1>0, <2>3 DEF max_blocks
  <2>4. QED BY <2>1, <2>2, <2>3 DEF ReaderTypeOK
<1>3. QED BY <1>1, <1>2

\* Where seek_block() and increment_iterator() lead.
LEMMA SeekType ==
  ASSUME ReaderTypeOK, Chosen, kind # "none", NEW b \in 0 .. max_blocks
  PROVE  /\ seek_block(b) \in Iterators
         /\ seek_block(b).file_number = IF kind = "dir" THEN b ELSE 0
         /\ seek_block(b).eof = it.eof
         /\ kind = "dir" => seek_block(b).raw_offset = it.raw_offset
         /\ kind = "ewf" => seek_block(b).raw_offset = reader_pagesize * b
         /\ kind = "raw" => seek_block(b).raw_offset =
              IF b * reader_pagesize > image_size THEN (image_size \div reader_pagesize) * reader_pagesize
              ELSE b * reader_pagesize
<1>1. /\ reader_pagesize \in Nat \ {0} /\ image_size \in Nat /\ max_blocks \in Nat /\ b \in Nat
      /\ it \in Iterators /\ Len(files) \in Nat
  BY SizeType, ReaderAssumption, LenProperties, SMTT(30) DEF ReaderTypeOK, Iterators
<1>2. b * reader_pagesize \in Nat /\ (image_size \div reader_pagesize) * reader_pagesize \in Nat
      /\ reader_pagesize * b \in Nat
  BY <1>1
<1>3. kind # "dir" => it.file_number = 0
  BY <1>1 DEF Chosen, Iterators
<1>4. CASE kind = "raw"
  BY <1>1, <1>2, <1>3, <1>4 DEF seek_block, Iterators
<1>5. CASE kind = "ewf"
  BY <1>1, <1>2, <1>3, <1>5 DEF seek_block, Iterators
<1>6. CASE kind = "dir"
  <2>1. b \in 0 .. Len(files)
    BY <1>1, <1>6, SizeType
  <2>2. QED BY <1>1, <1>6, <2>1 DEF seek_block, Iterators
<1>7. QED BY <1>4, <1>5, <1>6 DEF ReaderTypeOK

LEMMA IncrementType ==
  ASSUME ReaderTypeOK, Chosen, kind # "none", NEW here \in Iterators
  PROVE  /\ increment_iterator(here) \in Iterators
         /\ increment_iterator(here).eof = here.eof
         /\ kind = "dir" =>
              /\ increment_iterator(here).raw_offset = here.raw_offset
              /\ increment_iterator(here).file_number =
                   IF here.file_number + 1 <= Len(files) THEN here.file_number + 1 ELSE Len(files)
         /\ kind # "dir" =>
              /\ increment_iterator(here).file_number = 0
              /\ increment_iterator(here).raw_offset =
                   IF here.raw_offset + reader_pagesize <= image_size THEN here.raw_offset + reader_pagesize ELSE image_size
<1>1. /\ reader_pagesize \in Nat \ {0} /\ image_size \in Nat /\ Len(files) \in Nat
      /\ here.raw_offset \in Nat /\ here.file_number \in 0 .. Len(files) /\ here.eof \in BOOLEAN
      /\ kind # "dir" => here.file_number = 0
  <2>1. reader_pagesize \in Nat \ {0} /\ image_size \in Nat /\ Len(files) \in Nat
    BY SizeType, ReaderAssumption, LenProperties DEF ReaderTypeOK
  <2>2. here.raw_offset \in Nat /\ here.file_number \in 0 .. Len(files) /\ here.eof \in BOOLEAN
    BY DEF Iterators
  <2>3. kind # "dir" => Len(files) = 0
    BY DEF Chosen
  <2>4. QED BY <2>1, <2>2, <2>3
<1>2. CASE kind = "dir"
  <2>1. Min({here.file_number + 1, Len(files)}) = IF here.file_number + 1 <= Len(files) THEN here.file_number + 1 ELSE Len(files)
    BY <1>1, MinOfTwo
  <2>2. QED BY <1>1, <1>2, <2>1 DEF increment_iterator, Iterators
<1>3. CASE kind # "dir"
  <2>1. Min({here.raw_offset + reader_pagesize, image_size})
          = IF here.raw_offset + reader_pagesize <= image_size THEN here.raw_offset + reader_pagesize ELSE image_size
    BY <1>1, MinOfTwo
  <2>2. QED BY <1>1, <1>3, <2>1 DEF increment_iterator, Iterators
<1>4. QED BY <1>2, <1>3

\* Where the body of the loop finds the iterator.
LEMMA HereType ==
  ASSUME TypeInv, InBody
  PROVE  /\ Here \in Iterators /\ kind # "none"
         /\ Sampled => Min(si) \in si /\ Here = seek_block(Min(si)) /\ si \subseteq 0 .. max_blocks
         /\ ~Sampled => Here = it
<1>1. kind # "none"
  BY DEF TypeInv, Chosen, InBody
<1>2. CASE Sampled
  <2>1. si # {} /\ si \subseteq 0 .. max_blocks /\ max_blocks \in Nat
    BY <1>1, <1>2, SizeType DEF TypeInv, InBody, Sampled, BlocksInRange, ReaderTypeOK
  <2>2. Min(si) \in si
    BY <2>1, MinIn
  <2>3. QED BY <1>1, <1>2, <2>1, <2>2, SeekType DEF TypeInv, Here, Sampled
<1>3. CASE ~Sampled
  BY <1>1, <1>3 DEF Here, Sampled, TypeInv, ReaderTypeOK, Iterators
<1>4. QED BY <1>2, <1>3

LEMMA ReaderTypeInit == ReaderInit => TypeInv
<1> SUFFICES ASSUME ReaderInit PROVE TypeInv
  OBVIOUS
<1> USE DEF ReaderInit, ReaderFresh
<1>1. Len(PartNumbers) \in Nat
  BY ReaderAssumption, LenProperties
<1>2. ReaderTypeOK
  <2>1. file_list \in Seq([path : DOMAIN sc.files, offset : Nat, length : Nat]) /\ files \in Seq(DOMAIN sc.files)
        /\ taken \in Seq([path : Seq(STRING), offset : Nat, bytes : Nat])
    BY EmptySeq
  <2>2. it \in [raw_offset : Nat, file_number : 0 .. Len(files), eof : BOOLEAN]
    BY DEF iterator
  <2>3. QED BY <1>1, <2>1, <2>2 DEF ReaderTypeOK
<1>3. QED BY <1>2 DEF TypeInv, Chosen, Untouched, BlocksInRange

\* The page the iterator is at, and how many bytes of it there are.
LEMMA PageType ==
  ASSUME TypeInv, kind # "none", NEW here \in Iterators, InRange(here)
  PROVE  /\ get_pos0(here) \in PageIds
         /\ kind = "dir" => get_pos0(here) = [path |-> files[here.file_number + 1], offset |-> 0]
                            /\ here.file_number + 1 \in 1 .. Len(files)
         /\ kind # "dir" => get_pos0(here) = [path |-> << >>, offset |-> here.raw_offset]
         /\ kind # "dir" /\ here.raw_offset < image_size =>
              /\ sbuf_pagesize(here) \in Nat /\ sbuf_pagesize(here) > 0
              /\ sbuf_pagesize(here) = IF reader_pagesize <= image_size - here.raw_offset THEN reader_pagesize
                                       ELSE image_size - here.raw_offset
         /\ kind = "dir" => sbuf_pagesize(here) \in Nat
<1>1. /\ files \in Seq(DOMAIN sc.files) /\ Len(files) \in Nat /\ sc \in Scenarios
      /\ reader_pagesize \in Nat \ {0} /\ image_size \in Nat
  BY SizeType, ReaderAssumption, LenProperties DEF TypeInv, ReaderTypeOK
<1>2. here.raw_offset \in Nat /\ here.file_number \in Nat
  BY <1>1 DEF Iterators
<1>3. CASE kind = "dir"
  <2>1. here.file_number + 1 \in 1 .. Len(files)
    BY <1>1, <1>2, <1>3 DEF InRange
  <2>2. files[here.file_number + 1] \in DOMAIN sc.files
    BY <1>1, <2>1, ElementOfSeq
  <2>3. files[here.file_number + 1] \in Seq(STRING) /\ sc.files[files[here.file_number + 1]] \in Nat
    BY <1>1, <2>2, ScenarioType
  <2>4. QED BY <1>3, <2>1, <2>3 DEF get_pos0, sbuf_pagesize, PageIds
<1>4. CASE kind # "dir"
  <2>1. get_pos0(here) = [path |-> << >>, offset |-> here.raw_offset] /\ << >> \in Seq(STRING)
    BY <1>4, EmptySeq DEF get_pos0
  <2>2. Min({reader_pagesize, image_size - here.raw_offset})
          = IF reader_pagesize <= image_size - here.raw_offset THEN reader_pagesize ELSE image_size - here.raw_offset
    BY <1>1, <1>2, MinOfTwo
  <2>3. QED BY <1>1, <1>2, <1>4, <2>1, <2>2 DEF sbuf_pagesize, PageIds
<1>5. QED BY <1>3, <1>4

\* A step of the loop keeps what is known of the reader.
LEMMA LoopTypes ==
  ASSUME TypeInv, reader_pc = "loop", reader_pc' \in {"loop", "crash"}, UNCHANGED <<reader, drawn, hashdigest>>,
         it' \in Iterators, si' \subseteq si, sha1g' \in {"null", "hashing"}, hash_next' \in Nat,
         taken' \in Seq([path : Seq(STRING), offset : Nat, bytes : Nat]), skipped' \subseteq PageIds
  PROVE  TypeInv'
<1> USE DEF TypeInv, reader
<1>1. ReaderTypeOK'
  BY DEF ReaderTypeOK, Iterators, PageIds
<1>2. Chosen'
  BY DEF Chosen, Exists, Under
<1>3. max_blocks' = max_blocks
  BY DEF max_blocks, image_size
<1>4. BlocksInRange'
  BY <1>3 DEF BlocksInRange, Sampled
<1>5. QED BY <1>1, <1>2, <1>4 DEF Untouched

\* The loop goes on behind the page it has dealt with.
LEMMA NextPageType ==
  ASSUME TypeInv, InBody, NextPage(Here)
  PROVE  /\ reader_pc = "loop" /\ reader_pc' = "loop" /\ UNCHANGED <<reader, drawn, hashdigest>>
         /\ it' = increment_iterator(Here) /\ it' \in Iterators
         /\ si' = (IF Sampled THEN si \ {Min(si)} ELSE si) /\ si' \subseteq si
<1>1. it' = increment_iterator(Here) /\ it' \in Iterators
  BY HereType, IncrementType DEF NextPage, TypeInv
<1>2. QED BY <1>1 DEF NextPage, InBody, Sampled

\* A page that is read is added to those taken.
LEMMA TakenType ==
  ASSUME TypeInv, ReadPage
  PROVE  /\ InBody /\ NextPage(Here) /\ UNCHANGED skipped /\ get_pos0(Here) \in PageIds /\ get_pos0(Here) \notin sc.seen
         /\ InRange(Here) /\ (kind # "dir" => Here.raw_offset < image_size) /\ sbuf_pagesize(Here) \in Nat
         /\ taken' = Append(taken, [path |-> get_pos0(Here).path, offset |-> get_pos0(Here).offset,
                                    bytes |-> sbuf_pagesize(Here)])
         /\ taken' \in Seq([path : Seq(STRING), offset : Nat, bytes : Nat])
         /\ Hash(get_pos0(Here).offset, sbuf_pagesize(Here))
<1>1. InBody /\ InRange(Here) /\ (kind # "dir" => Here.raw_offset < image_size) /\ get_pos0(Here) \notin sc.seen
  BY DEF ReadPage, Wanted
<1>2. get_pos0(Here) \in PageIds /\ sbuf_pagesize(Here) \in Nat
  BY <1>1, HereType, PageType
<1> DEFINE p == [path |-> get_pos0(Here).path, offset |-> get_pos0(Here).offset, bytes |-> sbuf_pagesize(Here)]
           Page == [path : Seq(STRING), offset : Nat, bytes : Nat]
<1>3. p \in Page
  BY <1>2 DEF PageIds
<1>4. taken \in Seq(Page)
  BY DEF TypeInv, ReaderTypeOK
<1>5. taken' = Append(taken, p)
  BY DEF ReadPage
<1>6. taken' \in Seq(Page)
  <2> HIDE DEF p, Page
  <2>1. QED BY <1>3, <1>4, <1>5, AppendProperties
<1>7. NextPage(Here) /\ UNCHANGED skipped /\ Hash(get_pos0(Here).offset, sbuf_pagesize(Here))
  BY DEF ReadPage
<1> HIDE DEF p
<1>8. QED BY <1>1, <1>2, <1>5, <1>6, <1>7 DEF p

LEMMA LoopTypeNext ==
  ASSUME TypeInv, PassOver \/ ReadPage \/ ReadFails \/ ReadNothing \/ NullSbuf \/ StrayFile
  PROVE  TypeInv'
<1>0. /\ skipped \subseteq PageIds /\ taken \in Seq([path : Seq(STRING), offset : Nat, bytes : Nat])
      /\ sha1g \in {"null", "hashing"} /\ hash_next \in Nat /\ it \in Iterators
  BY DEF TypeInv, ReaderTypeOK, PageIds, Iterators
<1>1. CASE PassOver
  <2>1. InBody /\ NextPage(Here) /\ UNCHANGED <<sha1g, hash_next, taken, skipped>>
    BY <1>1 DEF PassOver
  <2>2. QED BY <1>0, <2>1, NextPageType, LoopTypes
<1>2. CASE ReadPage
  <2>1. sha1g' \in {"null", "hashing"} /\ hash_next' \in Nat
    BY <1>0, <1>2, TakenType DEF Hash
  <2>2. InBody /\ NextPage(Here) /\ skipped' = skipped /\ taken' \in Seq([path : Seq(STRING), offset : Nat, bytes : Nat])
    BY <1>2, TakenType
  <2>3. QED BY <1>0, <2>1, <2>2, NextPageType, LoopTypes
<1>3. CASE ReadFails
  <2>1. InBody /\ InRange(Here) /\ NextPage(Here) /\ UNCHANGED <<sha1g, hash_next, taken>>
        /\ skipped' = skipped \cup {get_pos0(Here)}
    BY <1>3 DEF ReadFails, Wanted
  <2>2. skipped' \subseteq PageIds
    BY <1>0, <2>1, HereType, PageType
  <2>3. QED BY <1>0, <2>1, <2>2, NextPageType, LoopTypes
<1>4. CASE ReadNothing
  <2>1. InBody /\ InRange(Here) /\ UNCHANGED <<reader_pc, reader, drawn, hashdigest, sha1g, hash_next, taken>>
        /\ skipped' = skipped \cup {get_pos0(Here)}
        /\ it' = [increment_iterator(Here) EXCEPT !.eof = TRUE]
    BY <1>4 DEF ReadNothing, Wanted
  <2>2. skipped' \subseteq PageIds
    BY <1>0, <2>1, HereType, PageType
  <2>3. it' \in Iterators
    BY <2>1, HereType, IncrementType DEF Iterators, TypeInv
  <2>4. si' \subseteq si
    BY <1>4 DEF ReadNothing
  <2>5. reader_pc = "loop"
    BY <2>1 DEF InBody
  <2>6. QED BY <1>0, <2>1, <2>2, <2>3, <2>4, <2>5, LoopTypes
<1>5. CASE NullSbuf
  <2>1. reader_pc = "loop" /\ reader_pc' = "crash" /\ UNCHANGED <<reader, iteration, hashdigest>>
    BY <1>5 DEF NullSbuf, Wanted, InBody
  <2>2. QED BY <1>0, <2>1, LoopTypes DEF iteration
<1>6. CASE StrayFile
  <2>1. InBody /\ reader_pc = "loop"
    BY <1>6 DEF StrayFile, InBody
  <2>2. CASE reader_pc' = "crash" /\ UNCHANGED <<reader, iteration, hashdigest>>
    BY <1>0, <2>1, <2>2, LoopTypes DEF iteration
  <2>3. CASE NextPage(Here) /\ UNCHANGED <<sha1g, hash_next, taken, skipped>>
    BY <1>0, <2>1, <2>3, NextPageType, LoopTypes
  <2>4. QED BY <1>6, <2>2, <2>3 DEF StrayFile
<1>7. QED BY <1>1, <1>2, <1>3, <1>4, <1>5, <1>6

LEMMA OpenTypeNext ==
  ASSUME TypeInv, Refuse \/ OpenDirectory \/ OpenEwf \/ OpenRaw \/ AddPart
  PROVE  TypeInv'
<1>0. /\ sc \in Scenarios /\ sc.fname \in Seq(STRING) /\ Len(PartNumbers) \in Nat /\ Len(PartNumbers) > 2
      /\ DOMAIN sc.files \subseteq Seq(STRING)
  BY ScenarioType, ReaderAssumption, LenProperties DEF TypeInv, ReaderTypeOK
<1>1. CASE Refuse
  <2>1. reader_pc = "open" /\ reader_pc' = "refused" /\ UNCHANGED <<reader, iteration, hashdigest>>
    BY <1>1 DEF Refuse
  <2>2. ReaderTypeOK' /\ Chosen'
    BY <2>1 DEF TypeInv, ReaderTypeOK, Chosen, reader, iteration, Exists, Under
  <2>3. QED BY <2>1, <2>2 DEF TypeInv, Untouched, BlocksInRange, reader, iteration
<1>2. CASE OpenDirectory
  <2>1. /\ reader_pc = "open" /\ reader_pc' = "begin" /\ kind' = "dir" /\ files' \in SetToSeqs(Under(sc.fname))
        /\ UNCHANGED <<sc, file_list, num, iteration, hashdigest>>
    BY <1>2 DEF OpenDirectory
  <2>2. kind = "none" /\ file_list = << >> /\ it = iterator
    BY <2>1 DEF TypeInv, Chosen, Untouched
  <2>3. files' \in Seq(Under(sc.fname)) /\ Under(sc.fname) \subseteq DOMAIN sc.files
    BY <1>0, <2>1, UnderType, RowOfAll
  <2>4. files' \in Seq(DOMAIN sc.files) /\ Len(files') \in Nat
    BY <2>3, SeqMonotonic, LenProperties
  <2>5. ReaderTypeOK'
    BY <2>1, <2>2, <2>4 DEF TypeInv, ReaderTypeOK, iteration, iterator
  <2>6. Chosen'
    BY <2>1, <2>2 DEF Chosen, Under
  <2>7. QED BY <2>1, <2>5, <2>6 DEF TypeInv, Untouched, BlocksInRange, iteration
<1>3. CASE OpenEwf
  <2>1. /\ reader_pc = "open" /\ reader_pc' = "begin" /\ kind' = "ewf" /\ Exists(sc.fname)
        /\ UNCHANGED <<sc, file_list, num, files, iteration, hashdigest>>
    BY <1>3 DEF OpenEwf
  <2>2. ReaderTypeOK' /\ Chosen'
    BY <2>1 DEF TypeInv, ReaderTypeOK, Chosen, iteration, Exists, Under
  <2>3. QED BY <2>1, <2>2 DEF TypeInv, Untouched, BlocksInRange, iteration
<1>4. CASE OpenRaw
  <2> DEFINE i == file_info(sc.fname, 0, path_filesize(sc.fname))
  <2>1. /\ reader_pc = "open" /\ kind' = "raw" /\ file_list' = <<i>> /\ Exists(sc.fname)
        /\ UNCHANGED <<sc, files, iteration, hashdigest>>
    BY <1>4 DEF OpenRaw
  <2>2. \/ reader_pc' = "add" /\ is_multipart_file(sc.fname) /\ num' = FirstProbe(sc.fname)
        \/ reader_pc' = "begin" /\ num' = num
    BY <1>4 DEF OpenRaw
  <2>3. i \in Info
    BY <1>0, <2>1, PathSize DEF file_info, Info, Exists
  <2>4. file_list' \in Seq(Info) /\ file_list' # << >>
    <3> HIDE DEF i
    <3>1. QED BY <2>1, <2>3
  <2>5. num' \in 0 .. Len(PartNumbers)
    BY <1>0, <2>2 DEF FirstProbe, TypeInv, ReaderTypeOK
  <2>6. ReaderTypeOK'
    BY <2>1, <2>2, <2>4, <2>5 DEF TypeInv, ReaderTypeOK, iteration, Info
  <2>7. Chosen'
    BY <2>1, <2>2, <2>4 DEF TypeInv, Chosen, is_multipart_file, HasExtension
  <2>8. QED BY <2>1, <2>2, <2>6, <2>7 DEF TypeInv, Untouched, BlocksInRange, iteration
<1>5. CASE AddPart
  <2>1. reader_pc = "add" /\ kind = "raw" /\ UNCHANGED <<sc, kind, files, iteration, hashdigest>>
    BY <1>5 DEF AddPart, TypeInv, Chosen
  <2>2. CASE num < Len(PartNumbers) /\ Exists(Part(sc.fname, num))
    <3> DEFINE i == file_info(Part(sc.fname, num), image_size, path_filesize(Part(sc.fname, num)))
    <3>1. file_list' = Append(file_list, i) /\ num' = num + 1 /\ reader_pc' = "add"
      BY <1>5, <2>1, <2>2 DEF AddPart, add_file
    <3>2. i \in Info
      <4>1. image_size \in Nat
        BY <2>1, SizeType DEF TypeInv
      <4>2. QED BY <1>0, <2>2, <4>1, PathSize DEF file_info, Info, Exists
    <3>3. file_list' \in Seq(Info) /\ file_list' # << >>
      <4>1. file_list \in Seq(Info)
        BY DEF TypeInv, ReaderTypeOK, Info
      <4> HIDE DEF i, Info
      <4>2. QED BY <3>1, <3>2, <4>1, AppendProperties
    <3>4. num' \in 0 .. Len(PartNumbers)
      BY <1>0, <2>2, <3>1 DEF TypeInv, ReaderTypeOK
    <3>5. ReaderTypeOK'
      BY <2>1, <3>1, <3>3, <3>4 DEF TypeInv, ReaderTypeOK, iteration, Info
    <3>6. Chosen'
      BY <2>1, <3>1, <3>3 DEF TypeInv, Chosen, is_multipart_file, HasExtension
    <3>7. QED BY <2>1, <3>1, <3>5, <3>6 DEF TypeInv, Untouched, BlocksInRange, iteration
  <2>3. CASE ~(num < Len(PartNumbers) /\ Exists(Part(sc.fname, num)))
    <3>1. reader_pc' = "begin" /\ UNCHANGED <<file_list, num>>
      BY <1>5, <2>3 DEF AddPart
    <3>2. ReaderTypeOK' /\ Chosen'
      BY <2>1, <3>1 DEF TypeInv, ReaderTypeOK, Chosen, iteration
    <3>3. QED BY <2>1, <3>1, <3>2 DEF TypeInv, Untouched, BlocksInRange, iteration
  <2>4. QED BY <2>2, <2>3
<1>6. QED BY <1>1, <1>2, <1>3, <1>4, <1>5

LEMMA WalkTypeNext ==
  ASSUME TypeInv, Begin \/ Finish
  PROVE  TypeInv'
<1>1. CASE Begin
  <2>1. /\ reader_pc = "begin" /\ reader_pc' = "loop" /\ it' = [iterator EXCEPT !.raw_offset = sc.start]
        /\ si' = drawn' /\ UNCHANGED <<reader, hash_next, hashdigest, taken, skipped>>
    BY <1>1 DEF Begin
  <2>2. kind # "none" /\ sc.start \in Nat /\ Len(files) \in Nat /\ max_blocks \in Nat
    BY <2>1, SizeType, ScenarioType, LenProperties DEF TypeInv, Chosen, ReaderTypeOK
  <2>3. drawn' \subseteq 0 .. max_blocks
    BY <1>1 DEF Begin, kSubset
  <2>4. sha1g' \in {"null", "hashing"}
    BY <1>1 DEF Begin, TypeInv, ReaderTypeOK
  <2>5. it' \in Iterators
    <3>1. it' = [raw_offset |-> sc.start, file_number |-> 0, eof |-> FALSE]
      BY <2>1 DEF iterator
    <3>2. 0 \in 0 .. Len(files)
      BY <2>2
    <3>3. QED BY <2>2, <3>1, <3>2 DEF Iterators
  <2>6. ReaderTypeOK'
    BY <2>1, <2>2, <2>3, <2>4, <2>5, SMTT(30) DEF TypeInv, ReaderTypeOK, reader, Iterators
  <2>7. Chosen'
    BY <2>1 DEF TypeInv, Chosen, reader, Exists, Under
  <2>8. max_blocks' = max_blocks
    BY <2>1 DEF reader, max_blocks, image_size
  <2>9. sc' = sc /\ (~Sampled => drawn' = {})
    BY <1>1, <2>1, <2>2 DEF Begin, reader, Sampled
  <2>10. BlocksInRange'
    BY <2>3, <2>8, <2>9 DEF BlocksInRange, Sampled
  <2>11. QED BY <2>1, <2>6, <2>7, <2>10 DEF TypeInv, Untouched
<1>2. CASE Finish
  <2>1. reader_pc = "loop" /\ reader_pc' = "done" /\ UNCHANGED <<reader, iteration>>
        /\ hashdigest' = IF sha1g = "hashing" THEN {hash_next} ELSE {}
    BY <1>2 DEF Finish
  <2>2. ReaderTypeOK' /\ Chosen'
    BY <2>1 DEF TypeInv, ReaderTypeOK, Chosen, reader, iteration, Exists, Under
  <2>3. max_blocks' = max_blocks
    BY <2>1 DEF reader, max_blocks, image_size
  <2>4. BlocksInRange'
    BY <2>1, <2>3 DEF TypeInv, BlocksInRange, iteration, reader, Sampled
  <2>5. QED BY <2>1, <2>2, <2>4 DEF TypeInv, Untouched, iteration
<1>3. QED BY <1>1, <1>2

LEMMA ReaderTypeNext == TypeInv /\ [ReaderNext]_reader_vars => TypeInv'
<1> SUFFICES ASSUME TypeInv, [ReaderNext]_reader_vars PROVE TypeInv'
  OBVIOUS
<1>1. CASE UNCHANGED reader_vars
  <2>1. ReaderTypeOK' /\ Chosen'
    BY <1>1 DEF TypeInv, ReaderTypeOK, Chosen, reader_vars, reader, iteration, Exists, Under
  <2>2. max_blocks' = max_blocks
    BY <1>1 DEF reader_vars, reader, max_blocks, image_size
  <2>3. BlocksInRange'
    BY <1>1, <2>2 DEF TypeInv, BlocksInRange, reader_vars, iteration, reader, Sampled
  <2>4. QED BY <1>1, <2>1, <2>3 DEF TypeInv, Untouched, reader_vars, iteration
<1>2. QED BY <1>1, OpenTypeNext, LoopTypeNext, WalkTypeNext DEF ReaderNext

\* The variables of the readers keep their types: the iterator points to a place there is
\* or is one past the last file, whatever blocks are drawn and wherever -Y starts.
THEOREM ReaderTyping == ReaderSpec => []ReaderTypeOK
<1>1. TypeInv => ReaderTypeOK
  BY DEF TypeInv
<1>2. QED BY <1>1, ReaderTypeInit, ReaderTypeNext, PTL DEF ReaderSpec

-----------------------------------------------------------------------------
(* The parts of an image *)

Parts == Listed /\ Probed

LEMMA PartsInit == ReaderInit => Parts
BY DEF ReaderInit, ReaderFresh, Parts, Listed, Probed

LEMMA PartsKept ==
  ASSUME Parts, UNCHANGED <<sc, file_list, num>>, (kind' = kind /\ reader_pc # "add") \/ kind' # "raw"
  PROVE  Parts'
<1>1. Listed'
  BY DEF Parts, Listed
<1>2. Probed'
  BY DEF Parts, Probed, Exists
<1>3. QED BY <1>1, <1>2 DEF Parts

\* The first part is the file that was named.
LEMMA FirstPart ==
  ASSUME TypeInv, Parts, OpenRaw
  PROVE  Parts'
<1> DEFINE i == file_info(sc.fname, 0, path_filesize(sc.fname))
<1>1. /\ reader_pc = "open" /\ kind' = "raw" /\ file_list' = <<i>> /\ Exists(sc.fname) /\ sc' = sc
      /\ IF is_multipart_file(sc.fname) THEN reader_pc' = "add" /\ num' = FirstProbe(sc.fname)
         ELSE reader_pc' = "begin"
  BY DEF OpenRaw
<1>2. i.offset = 0 /\ i.length = sc.files[sc.fname] /\ i.path = sc.fname
  BY <1>1, PathSize DEF file_info, TypeInv, ReaderTypeOK, Exists
<1> HIDE DEF i
<1>3. Len(file_list') = 1 /\ DOMAIN file_list' = {1} /\ file_list'[1] = i
  BY <1>1
<1>4. Listed'
  BY <1>1, <1>2, <1>3 DEF Listed
<1>5. Probed'
  <2>1. FirstProbe(sc.fname) \in Nat
    BY DEF FirstProbe
  <2>2. FirstProbe(sc.fname) = FirstProbe(sc.fname) + 1 - 1
    BY <2>1
  <2>3. QED BY <1>1, <1>3, <2>2 DEF Probed
<1>6. QED BY <1>4, <1>5 DEF Parts

\* The others are those found next, in the order of their numbers.
LEMMA NextPart ==
  ASSUME TypeInv, Parts, AddPart
  PROVE  Parts'
<1>0. /\ reader_pc = "add" /\ sc' = sc /\ kind' = "raw" /\ kind = "raw" /\ is_multipart_file(sc.fname)
      /\ file_list \in Seq(Info) /\ file_list # << >> /\ sc \in Scenarios
  BY DEF TypeInv, Chosen, AddPart, ReaderTypeOK, Info
<1>1. FirstProbe(sc.fname) \in Nat /\ Len(file_list) \in Nat /\ Len(file_list) > 0
      /\ num = FirstProbe(sc.fname) + Len(file_list) - 1 /\ num \in 0 .. Len(PartNumbers) /\ Len(PartNumbers) \in Nat
  BY <1>0, LastPart, ReaderAssumption, LenProperties DEF FirstProbe, Parts, Probed, TypeInv, ReaderTypeOK
<1>2. CASE num < Len(PartNumbers) /\ Exists(Part(sc.fname, num))
  <2> DEFINE i == file_info(Part(sc.fname, num), image_size, path_filesize(Part(sc.fname, num)))
             n == Len(file_list)
  <2>1. file_list' = Append(file_list, i) /\ num' = num + 1 /\ reader_pc' = "add"
    BY <1>0, <1>2 DEF AddPart, add_file
  <2>2. i.offset = file_list[n].offset + file_list[n].length
    BY <1>0, LastPart DEF file_info, image_size
  <2>3. i.length = sc.files[i.path] /\ i.path = Part(sc.fname, num)
    BY <1>0, <1>2, PathSize DEF file_info, Exists
  <2> HIDE DEF i
  <2>4. /\ Len(file_list') = n + 1 /\ file_list'[n + 1] = i
        /\ \A k \in 1 .. n : file_list'[k] = file_list[k]
    BY <1>0, <2>1, AppendProperties
  <2>5. DOMAIN file_list' = 1 .. n + 1 /\ DOMAIN file_list = 1 .. n
    BY <1>0, <1>1, <2>1, <2>4
  <2>6. ASSUME NEW k \in 1 .. n + 1
        PROVE  /\ file_list'[k].length = sc.files[file_list'[k].path]
               /\ file_list'[k].offset = IF k = 1 THEN 0 ELSE file_list'[k-1].offset + file_list'[k-1].length
               /\ file_list'[k].path = IF k = 1 THEN sc.fname ELSE Part(sc.fname, FirstProbe(sc.fname) + k - 2)
    <3>1. CASE k = n + 1
      <4>1. n \in 1 .. n /\ k - 1 = n /\ k # 1 /\ FirstProbe(sc.fname) + k - 2 = num
        BY <1>1, <3>1
      <4>2. QED BY <2>2, <2>3, <2>4, <3>1, <4>1
    <3>2. CASE k # n + 1
      <4>1. k \in 1 .. n /\ (k # 1 => k - 1 \in 1 .. n)
        BY <1>1, <3>2
      <4>2. QED BY <2>4, <2>5, <4>1 DEF Parts, Listed
    <3>3. QED BY <3>1, <3>2
  <2>7. Listed'
    BY <1>0, <2>5, <2>6 DEF Listed
  <2>8. Probed'
    <3>1. num + 1 = FirstProbe(sc.fname) + (n + 1) - 1
      BY <1>1
    <3>2. QED BY <1>0, <2>1, <2>4, <3>1 DEF Probed
  <2>9. QED BY <2>7, <2>8 DEF Parts
<1>3. CASE ~(num < Len(PartNumbers) /\ Exists(Part(sc.fname, num)))
  <2>1. reader_pc' = "begin" /\ file_list' = file_list /\ num' = num
    BY <1>0, <1>3 DEF AddPart
  <2>2. Listed'
    BY <1>0, <2>1 DEF Parts, Listed
  <2>3. num = Len(PartNumbers) \/ ~Exists(Part(sc.fname, num))
    BY <1>1, <1>3
  <2>4. Probed'
    BY <1>0, <1>1, <2>1, <2>3 DEF Probed, Exists
  <2>5. QED BY <2>2, <2>4 DEF Parts
<1>4. QED BY <1>2, <1>3

\* A step of the walk is over an image that stays what it is.
LEMMA WalkKeeps ==
  ASSUME Begin \/ PassOver \/ ReadPage \/ ReadFails \/ ReadNothing \/ NullSbuf \/ StrayFile \/ Finish
  PROVE  UNCHANGED reader /\ reader_pc \in {"begin", "loop"} /\ reader_pc' \in {"loop", "crash", "done"}
<1> USE DEF Wanted, InBody, NextPage
<1>1. CASE Begin
  BY <1>1 DEF Begin
<1>2. CASE PassOver
  BY <1>2 DEF PassOver
<1>3. CASE ReadPage
  BY <1>3 DEF ReadPage
<1>4. CASE ReadFails
  BY <1>4 DEF ReadFails
<1>5. CASE ReadNothing
  BY <1>5 DEF ReadNothing
<1>6. CASE NullSbuf
  BY <1>6 DEF NullSbuf
<1>7. CASE StrayFile
  BY <1>7 DEF StrayFile
<1>8. CASE Finish
  BY <1>8 DEF Finish
<1>9. QED BY <1>1, <1>2, <1>3, <1>4, <1>5, <1>6, <1>7, <1>8

LEMMA PartsNext == TypeInv /\ Parts /\ [ReaderNext]_reader_vars => Parts'
<1> SUFFICES ASSUME TypeInv, Parts, [ReaderNext]_reader_vars PROVE Parts'
  OBVIOUS
<1>1. CASE UNCHANGED reader_vars
  BY <1>1 DEF reader_vars, reader, Parts, Listed, Probed, Exists
<1>2. CASE Refuse
  <2>1. UNCHANGED reader /\ reader_pc # "add"
    BY <1>2 DEF Refuse
  <2>2. QED BY <2>1, PartsKept DEF reader
<1>3. CASE OpenDirectory
  BY <1>3, PartsKept DEF OpenDirectory
<1>4. CASE OpenEwf
  BY <1>4, PartsKept DEF OpenEwf
<1>5. CASE Begin \/ PassOver \/ ReadPage \/ ReadFails \/ ReadNothing \/ NullSbuf \/ StrayFile \/ Finish
  BY <1>5, WalkKeeps, PartsKept DEF reader
<1>6. QED BY <1>1, <1>2, <1>3, <1>4, <1>5, FirstPart, NextPart DEF ReaderNext

\* In a name without a 000 before the number 001 of the part, the reader counts with the
\* group that the name of a part ends with.
LEMMA PlainCounter ==
  ASSUME NEW path \in Seq(STRING), is_multipart_file(path), CountedRight(path)
  PROVE  /\ \A n : Part(path, n) = Numbered(path, n)
         /\ FirstProbe(path) = FirstNumber(path) + 1 /\ FirstNumber(path) \in {0, 1}
         /\ Numbered(path, FirstNumber(path)) = path
<1> DEFINE at == NumberAt(path)
           At(d) == {j \in DOMAIN path : path[j] = d}
<1>0. Len(path) \in Nat /\ DOMAIN path = 1 .. Len(path) /\ path \in [1 .. Len(path) -> STRING]
  BY LenProperties
<1>1. at \in DOMAIN path /\ path[at] \in {"000", "001"}
  <2>1. CASE HasExtension(path, "000")
    BY <1>0, <2>1 DEF HasExtension, NumberAt
  <2>2. CASE HasExtension(path, "001")
    BY <1>0, <2>2 DEF HasExtension, NumberAt
  <2>3. CASE HasExtension(path, "vmdk") /\ Len(path) > 2 /\ path[Len(path) - 2] = "001"
    BY <1>0, <2>3 DEF NumberAt
  <2>4. QED BY <2>1, <2>2, <2>3 DEF is_multipart_file
<1>2. ASSUME NEW j \in DOMAIN path, j > at PROVE path[j] \notin {"000", "001"}
  <2>1. HasExtension(path, "vmdk") /\ at = Len(path) - 2
    <3>1. CASE HasExtension(path, "vmdk")
      BY <3>1 DEF NumberAt
    <3>2. CASE ~HasExtension(path, "vmdk")
      <4>1. at = Len(path)
        BY <3>2 DEF NumberAt
      <4> HIDE DEF at
      <4>2. Len(path) \in Nat /\ j \in 1 .. Len(path)
        BY <1>0
      <4>3. j > Len(path)
        BY <1>2, <4>1
      <4>4. QED BY <4>2, <4>3
    <3>3. QED BY <3>1, <3>2
  <2>2. path[Len(path) - 1] = "." /\ path[Len(path)] = "vmdk" /\ j \in {Len(path) - 1, Len(path)}
    BY <1>0, <1>2, <2>1 DEF HasExtension
  <2> HIDE DEF at
  <2>3. QED BY <2>2
<1>3. Numbered(path, 0) = [path EXCEPT ![at] = PartNumbers[1]] /\ \A n : Numbered(path, n) = [path EXCEPT ![at] = PartNumbers[n + 1]]
  BY DEF Numbered
<1>4. PartNumbers[1] = "000" /\ PartNumbers[2] = "001"
  BY ReaderAssumption
<1> HIDE DEF at
<1>5. path[at] = "000" \/ At("000") = {}
  <2>1. path[at] = "000" \/ "000" \notin ToSet(path)
    BY DEF CountedRight, at
  <2>2. QED BY <2>1 DEF ToSet
<1> DEFINE S == IF At("000") # {} THEN At("000") ELSE At("001")
<1>8. at \in S /\ \E d \in {"000", "001"} : S = At(d)
  BY <1>1, <1>5
<1>9. CounterAt(path) = at
  <2>1. S \in SUBSET Int /\ \A y \in S : at >= y
    BY <1>0, <1>1, <1>2, <1>8
  <2>2. CounterAt(path) = Max(S)
    BY DEF CounterAt
  <2> HIDE DEF S
  <2>3. QED BY <1>8, <2>1, <2>2, MaxIs
<1>10. \A n : Part(path, n) = Numbered(path, n)
  BY <1>3, <1>9 DEF Part
<1>11. CASE path[at] = "000"
  <2>1. Numbered(path, 0) = path
    BY <1>0, <1>1, <1>3, <1>4, <1>11
  <2>2. QED BY <1>9, <1>10, <1>11, <2>1 DEF FirstProbe, FirstNumber
<1>12. CASE path[at] = "001"
  <2>1. Numbered(path, 1) = path
    <3>1. Numbered(path, 1) = [path EXCEPT ![at] = PartNumbers[1 + 1]]
      BY <1>3
    <3>2. QED BY <1>0, <1>1, <1>4, <1>12, <3>1
  <2>2. Numbered(path, 0)[at] = "000"
    BY <1>1, <1>3, <1>4
  <2>3. FirstNumber(path) = 1
    BY <1>12, <2>2 DEF FirstNumber
  <2>4. QED BY <1>9, <1>10, <1>12, <2>1, <2>3 DEF FirstProbe
<1>13. QED BY <1>1, <1>11, <1>12

\* Then the parts are all there are.
LEMMA PlainWhole ==
  ASSUME TypeInv, Parts, ReadAs, CountedRight(sc.fname)
  PROVE  [i \in DOMAIN file_list |-> file_list[i].path] = Siblings(sc.fname)
<1> DEFINE path == sc.fname
           first == FirstNumber(path)
           n == Len(file_list)
           m == first + n - 1
           There == {k \in first .. Len(PartNumbers) - 1 : \A j \in first .. k : Exists(Numbered(path, j))}
<1>1. /\ path \in Seq(STRING) /\ is_multipart_file(path) /\ file_list \in Seq(Info) /\ file_list # << >>
      /\ kind = "raw" /\ reader_pc # "add"
  BY ScenarioType DEF ReadAs, TypeInv, ReaderTypeOK, Chosen, Info
<1>2. n \in Nat /\ n > 0 /\ DOMAIN file_list = 1 .. n /\ \A i \in 1 .. n : file_list[i] \in Info
  <2>1. n \in Nat /\ n > 0
    BY <1>1, LastPart
  <2> HIDE DEF Info
  <2>2. QED BY <1>1, <2>1, LenProperties, ElementOfSeq
<1>3. /\ \A k : Part(path, k) = Numbered(path, k)
      /\ FirstProbe(path) = first + 1 /\ first \in {0, 1} /\ Numbered(path, first) = path
  BY <1>1, PlainCounter
<1>4. /\ num = first + n /\ num \in 0 .. Len(PartNumbers) /\ Len(PartNumbers) \in Nat
      /\ num = Len(PartNumbers) \/ ~Exists(Numbered(path, num))
  BY <1>1, <1>2, <1>3, ReaderAssumption, LenProperties, SMTT(30) DEF Parts, Probed, TypeInv, ReaderTypeOK
<1> HIDE DEF first
<1>5. ASSUME NEW i \in 1 .. n PROVE file_list[i].path = Numbered(path, first + i - 1) /\ Exists(file_list[i].path)
  <2>1. file_list[i].path = IF i = 1 THEN path ELSE Part(path, FirstProbe(path) + i - 2)
    BY <1>2 DEF Parts, Listed
  <2>2. i = 1 => first + i - 1 = first
    BY <1>3
  <2>3. i # 1 => FirstProbe(path) + i - 2 = first + i - 1
    BY <1>3
  <2>4. file_list[i].path = Numbered(path, first + i - 1)
    BY <1>3, <2>1, <2>2, <2>3
  <2>5. QED BY <1>2, <2>4 DEF Info, Exists
<1>6. m \in There
  <2>1. ASSUME NEW j \in first .. m PROVE Exists(Numbered(path, j))
    <3>1. j - first + 1 \in 1 .. n /\ first + (j - first + 1) - 1 = j
      BY <1>2, <1>3
    <3>2. QED BY <1>5, <3>1
  <2>2. m \in first .. Len(PartNumbers) - 1
    BY <1>2, <1>3, <1>4
  <2>3. QED BY <2>1, <2>2
<1>7. ASSUME NEW y \in There PROVE m >= y
  <2>1. SUFFICES ASSUME m < y PROVE FALSE
    BY <1>2, <1>3
  <2>2. num \in first .. y /\ num # Len(PartNumbers)
    BY <1>2, <1>3, <1>4, <2>1
  <2>3. QED BY <1>4, <2>2
<1>8. Max(There) = m
  <2>1. There \in SUBSET Int
    BY <1>3
  <2> HIDE DEF There
  <2>2. QED BY <1>6, <1>7, <2>1, MaxIs
<1>9. Siblings(path) = [i \in 1 .. n |-> Numbered(path, first + i - 1)]
  <2>1. m - first + 1 = n
    BY <1>2, <1>3
  <2>2. Siblings(path) = [i \in 1 .. Max(There) - first + 1 |-> Numbered(path, first + i - 1)]
    BY DEF Siblings, first
  <2> HIDE DEF There, m
  <2>3. QED BY <1>8, <2>1, <2>2
<1>10. QED BY <1>2, <1>5, <1>9

\* Whatever is on the disk, the image that the raw reader walks is what its name stands
\* for: all parts of a split image in the order of their numbers, up to the first one
\* missing, each with its size, where the one before ends.  The names that the reader
\* miscounts, of a part 001 with a 000 before it, are left out (CountedRight).
THEOREM ImageIsFoundWhole == ReaderSpec => []ImageFoundWhole
<1>1. ReaderInit => TypeInv /\ Parts
  BY ReaderTypeInit, PartsInit
<1>2. TypeInv /\ Parts /\ [ReaderNext]_reader_vars => (TypeInv /\ Parts)'
  BY ReaderTypeNext, PartsNext
<1>3. TypeInv /\ Parts => ImageFoundWhole
  <2>1. TypeInv /\ Parts => PlainSplitImageWhole
    BY PlainWhole DEF PlainSplitImageWhole, SplitImageWhole
  <2>2. Parts => SizeIsReal
    BY DEF Parts, Listed, SizeIsReal
  <2>3. QED BY <2>1, <2>2 DEF ImageFoundWhole
<1>4. QED BY <1>1, <1>2, <1>3, PTL DEF ReaderSpec

-----------------------------------------------------------------------------
(* The digest *)

Page == [path : Seq(STRING), offset : Nat, bytes : Nat]

LEMMA HashedInit == ReaderInit => Hashed
BY DEF ReaderInit, ReaderFresh, Hashed

LEMMA HashedKept ==
  ASSUME Hashed, UNCHANGED <<sha1g, hash_next, hashdigest, taken>>
  PROVE  Hashed'
BY DEF Hashed, Adjoining, EndOf

\* The pages after one more is taken.
LEMMA TakenIs ==
  ASSUME taken \in Seq(Page), NEW p \in Page, taken' = Append(taken, p)
  PROVE  /\ Len(taken) \in Nat /\ DOMAIN taken = 1 .. Len(taken) /\ DOMAIN taken' = 1 .. Len(taken) + 1
         /\ taken'[Len(taken) + 1] = p /\ \A i \in 1 .. Len(taken) : taken'[i] = taken[i]
         /\ taken' # << >> /\ Last(taken') = p
<1> HIDE DEF Page
<1>1. Len(taken) \in Nat /\ DOMAIN taken = 1 .. Len(taken)
  BY LenProperties
<1>2. /\ taken' \in Seq(Page) /\ Len(taken') = Len(taken) + 1 /\ taken'[Len(taken) + 1] = p
      /\ \A i \in 1 .. Len(taken) : taken'[i] = taken[i]
  BY AppendProperties
<1>3. DOMAIN taken' = 1 .. Len(taken) + 1
  BY <1>1, <1>2, LenProperties
<1>4. taken' # << >> /\ Last(taken') = p
  BY <1>1, <1>2, EmptySeq DEF Last
<1>5. QED BY <1>1, <1>2, <1>3, <1>4

\* A page that starts where the last one ended goes on with the digest; any other ends it.
LEMMA HashedRead ==
  ASSUME TypeInv, Hashed, ReadPage
  PROVE  Hashed'
<1> DEFINE p == [path |-> get_pos0(Here).path, offset |-> get_pos0(Here).offset, bytes |-> sbuf_pagesize(Here)]
           n == Len(taken)
<1>1. /\ taken \in Seq(Page) /\ p \in Page /\ taken' = Append(taken, p)
      /\ hashdigest = {} /\ hashdigest' = {} /\ Hash(p.offset, p.bytes)
  BY TakenType DEF TypeInv, ReaderTypeOK, Page, PageIds, Untouched, InBody, NextPage
<1> HIDE DEF p
<1>2. CASE sha1g' = "hashing"
  <2>1. sha1g = "hashing" /\ p.offset = hash_next /\ hash_next' = hash_next + p.bytes
    BY <1>1, <1>2 DEF Hash
  <2>2. Adjoining(taken) /\ p.offset = EndOf(taken)
    BY <2>1 DEF Hashed
  <2>3. hash_next' = EndOf(taken')
    BY <1>1, <2>1, TakenIs DEF EndOf
  <2>4. Adjoining(taken')
    <3>1. /\ n \in Nat /\ DOMAIN taken = 1 .. n /\ DOMAIN taken' = 1 .. n + 1
          /\ taken'[n + 1] = p /\ \A i \in 1 .. n : taken'[i] = taken[i]
      BY <1>1, TakenIs
    <3>2. p.offset = IF n = 0 THEN 0 ELSE taken[n].offset + taken[n].bytes
      <4>1. CASE n = 0
        <5>1. taken = << >>
          BY <1>1, <4>1, EmptySeq
        <5>2. QED BY <2>2, <4>1, <5>1 DEF EndOf
      <4>2. CASE n # 0
        <5>1. taken # << >>
          BY <4>2
        <5>2. QED BY <2>2, <4>2, <5>1 DEF EndOf, Last
      <4>3. QED BY <4>1, <4>2
    <3>3. ASSUME NEW i \in 1 .. n + 1
          PROVE  taken'[i].offset = IF i = 1 THEN 0 ELSE taken'[i-1].offset + taken'[i-1].bytes
      <4>1. CASE i = n + 1
        <5>1. n # 0 => i - 1 = n /\ n \in 1 .. n
          BY <3>1, <4>1
        <5>2. i = 1 <=> n = 0
          BY <3>1, <4>1
        <5>3. QED BY <3>1, <3>2, <4>1, <5>1, <5>2
      <4>2. CASE i # n + 1
        <5>1. i \in 1 .. n /\ (i # 1 => i - 1 \in 1 .. n)
          BY <3>1, <4>2
        <5>2. QED BY <2>2, <3>1, <5>1 DEF Adjoining
      <4>3. QED BY <4>1, <4>2
    <3>4. QED BY <3>1, <3>3 DEF Adjoining
  <2>5. QED BY <1>1, <2>3, <2>4 DEF Hashed
<1>3. CASE sha1g' # "hashing"
  BY <1>1, <1>3 DEF Hashed
<1>4. QED BY <1>2, <1>3

LEMMA HashedNext == TypeInv /\ Hashed /\ [ReaderNext]_reader_vars => Hashed'
<1> SUFFICES ASSUME TypeInv, Hashed, [ReaderNext]_reader_vars PROVE Hashed'
  OBVIOUS
<1> USE DEF iteration, NextPage
<1>1. CASE UNCHANGED reader_vars
  BY <1>1, HashedKept DEF reader_vars
<1>2. CASE Refuse \/ OpenDirectory \/ OpenEwf \/ OpenRaw \/ AddPart
  BY <1>2, HashedKept DEF Refuse, OpenDirectory, OpenEwf, OpenRaw, AddPart
<1>3. CASE Begin
  <2>1. taken' = << >> /\ hash_next' = 0 /\ hashdigest' = {}
    BY <1>3 DEF Begin, TypeInv, Untouched
  <2>2. DOMAIN taken' = {}
    BY <2>1
  <2>3. Adjoining(taken') /\ EndOf(taken') = 0
    BY <2>1, <2>2 DEF Adjoining, EndOf
  <2>4. QED BY <2>1, <2>3 DEF Hashed
<1>4. CASE PassOver
  BY <1>4, HashedKept DEF PassOver
<1>5. CASE ReadFails
  BY <1>5, HashedKept DEF ReadFails
<1>6. CASE ReadNothing
  BY <1>6, HashedKept DEF ReadNothing
<1>7. CASE NullSbuf
  BY <1>7, HashedKept DEF NullSbuf
<1>8. CASE StrayFile
  BY <1>8, HashedKept DEF StrayFile
<1>9. CASE Finish
  <2>1. hashdigest' = (IF sha1g = "hashing" THEN {hash_next} ELSE {}) /\ UNCHANGED <<sha1g, hash_next, taken>>
    BY <1>9 DEF Finish
  <2>2. QED BY <2>1 DEF Hashed, Adjoining, EndOf
<1>10. QED BY <1>1, <1>2, <1>3, <1>4, <1>5, <1>6, <1>7, <1>8, <1>9, HashedRead DEF ReaderNext

-----------------------------------------------------------------------------
(* A walk over everything *)

InWhole == InOrder /\ NothingLeft

\* The files of a directory are listed once each.
LEMMA FilesListed ==
  ASSUME TypeInv, kind = "dir"
  PROVE  /\ files \in Seq(Under(sc.fname)) /\ Len(files) \in Nat
         /\ \A i, j \in 1 .. Len(files) : files[i] = files[j] => i = j
         /\ \A f \in Under(sc.fname) : \E i \in 1 .. Len(files) : files[i] = f
<1>1. files \in SetToSeqs(Under(sc.fname)) /\ IsFiniteSet(Under(sc.fname))
  BY UnderType DEF TypeInv, Chosen, ReaderTypeOK
<1>2. files \in Seq(Under(sc.fname))
  BY <1>1, RowOfAll
<1>3. Len(files) \in Nat
  BY <1>2, LenProperties
<1>4. QED BY <1>1, <1>2, <1>3, RowOfAll

\* The page that is next is within the image and has not been dealt with.
LEMMA WholeHere ==
  ASSUME TypeInv, InWhole, Whole, InBody
  PROVE  /\ Here = it /\ it \in Iterators /\ kind # "none" /\ ~it.eof /\ InRange(it) /\ Here.raw_offset >= sc.start
         /\ kind = "dir" => it.raw_offset = 0 /\ it.file_number < Len(files)
         /\ kind # "dir" => it.raw_offset < image_size
         /\ ~Behind(get_pos0(it)) /\ get_pos0(it) \in PageIds
<1>1. Here = it /\ it \in Iterators /\ kind # "none" /\ reader_pc = "loop" /\ ~AtEnd
  BY HereType DEF InBody, Whole
<1>2. /\ ~it.eof
      /\ IF kind = "dir" THEN it.raw_offset = 0 ELSE it.raw_offset <= image_size
  BY <1>1 DEF InWhole, InOrder
<1>3. Len(files) \in Nat /\ image_size \in Nat /\ it.file_number \in 0 .. Len(files) /\ it.raw_offset \in Nat
      /\ (kind # "dir" => it.file_number = 0) /\ sc.start = 0
  BY <1>1, SizeType, LenProperties DEF TypeInv, ReaderTypeOK, Chosen, Iterators, Whole
<1>4. kind = "dir" => it.file_number < Len(files)
  BY <1>1, <1>2, <1>3 DEF AtEnd, end
<1>5. kind # "dir" => it.raw_offset < image_size
  BY <1>1, <1>2, <1>3 DEF AtEnd, end
<1>6. InRange(it)
  BY <1>4 DEF InRange
<1>7. get_pos0(it) \in PageIds
  BY <1>1, <1>6, PageType
<1>8. ~Behind(get_pos0(it))
  <2>1. CASE kind = "dir"
    <3>1. get_pos0(it).path = files[it.file_number + 1]
      BY <2>1 DEF get_pos0
    <3>2. ASSUME NEW j \in 1 .. it.file_number PROVE files[it.file_number + 1] # files[j]
      <4>1. j \in 1 .. Len(files) /\ it.file_number + 1 \in 1 .. Len(files) /\ j # it.file_number + 1
        BY <1>3, <1>4, <2>1
      <4>2. QED BY <2>1, <4>1, FilesListed
    <3>3. QED BY <2>1, <3>1, <3>2 DEF Behind
  <2>2. CASE kind # "dir"
    BY <1>3, <2>2 DEF Behind, get_pos0
  <2>3. QED BY <2>1, <2>2
<1>9. QED BY <1>1, <1>2, <1>3, <1>4, <1>5, <1>6, <1>7, <1>8

\* After it the iterator is one page on.
LEMMA WholeOn ==
  ASSUME TypeInv, InWhole, Whole, InBody, NextPage(Here)
  PROVE  /\ ~it'.eof
         /\ kind = "dir" => it'.raw_offset = 0 /\ it'.file_number = it.file_number + 1
         /\ kind # "dir" => /\ it'.raw_offset = it.raw_offset + sbuf_pagesize(it) /\ it'.raw_offset <= image_size
                            /\ sbuf_pagesize(it) \in Nat /\ sbuf_pagesize(it) > 0 /\ sbuf_pagesize(it) <= reader_pagesize
         /\ \A t \in PageIds : Behind(t) \/ t = get_pos0(it) => Behind(t)'
         /\ UNCHANGED reader /\ reader_pc = "loop" /\ reader_pc' = "loop"
<1>1. /\ it' = increment_iterator(it) /\ it \in Iterators /\ kind # "none" /\ InRange(it)
      /\ UNCHANGED reader /\ reader_pc = "loop" /\ reader_pc' = "loop" /\ ~it.eof
      /\ kind = "dir" => it.raw_offset = 0 /\ it.file_number < Len(files)
      /\ kind # "dir" => it.raw_offset < image_size
  BY WholeHere DEF NextPage, InBody
<1>2. Len(files) \in Nat /\ image_size \in Nat /\ it.file_number \in 0 .. Len(files) /\ it.raw_offset \in Nat
      /\ reader_pagesize \in Nat \ {0}
  BY <1>1, SizeType, LenProperties, ReaderAssumption DEF TypeInv, ReaderTypeOK, Iterators
<1>3. ~it'.eof
  BY <1>1, IncrementType DEF TypeInv
<1>4. kind = "dir" => it'.raw_offset = 0 /\ it'.file_number = it.file_number + 1
  BY <1>1, <1>2, IncrementType DEF TypeInv
<1>5. kind # "dir" =>
        /\ sbuf_pagesize(it) = IF reader_pagesize <= image_size - it.raw_offset THEN reader_pagesize
                               ELSE image_size - it.raw_offset
        /\ it'.raw_offset = IF it.raw_offset + reader_pagesize <= image_size THEN it.raw_offset + reader_pagesize
                            ELSE image_size
  BY <1>1, IncrementType, PageType DEF TypeInv
<1>6. kind # "dir" => /\ it'.raw_offset = it.raw_offset + sbuf_pagesize(it) /\ it'.raw_offset <= image_size
                      /\ sbuf_pagesize(it) \in Nat /\ sbuf_pagesize(it) > 0 /\ sbuf_pagesize(it) <= reader_pagesize
  BY <1>1, <1>2, <1>5
<1>7. kind' = kind /\ files' = files
  BY <1>1 DEF reader
<1>8. ASSUME NEW t \in PageIds, Behind(t) PROVE Behind(t)'
  <2>1. CASE kind = "dir"
    <3>1. \A j \in 1 .. it.file_number : j \in 1 .. it'.file_number
      BY <1>2, <1>4, <2>1
    <3>2. QED BY <1>7, <1>8, <2>1, <3>1 DEF Behind
  <2>2. CASE kind # "dir"
    <3>1. t.offset \in Int
      BY DEF PageIds
    <3>2. QED BY <1>2, <1>6, <1>7, <1>8, <2>2, <3>1 DEF Behind
  <2>3. QED BY <2>1, <2>2
<1>9. ASSUME NEW t \in PageIds, t = get_pos0(it) PROVE Behind(t)'
  <2>1. CASE kind = "dir"
    <3>1. t = [path |-> files[it.file_number + 1], offset |-> 0]
      BY <1>9, <2>1 DEF get_pos0
    <3>2. it.file_number + 1 \in 1 .. it'.file_number
      BY <1>2, <1>4, <2>1
    <3>3. QED BY <1>7, <2>1, <3>1, <3>2 DEF Behind
  <2>2. CASE kind # "dir"
    BY <1>2, <1>6, <1>7, <1>9, <2>2 DEF Behind, get_pos0
  <2>3. QED BY <2>1, <2>2
<1>10. QED BY <1>1, <1>3, <1>4, <1>6, <1>8, <1>9

\* What was dealt with, after one more page: Taken when it was read, Left otherwise.
Taken(page) ==
  /\ page \notin sc.seen /\ UNCHANGED skipped
  /\ taken' = Append(taken, [path |-> page.path, offset |-> page.offset, bytes |-> sbuf_pagesize(Here)])
Left(page) ==
  /\ UNCHANGED taken
  /\ \/ page \in sc.seen /\ UNCHANGED skipped
     \/ page \notin sc.seen /\ skipped' = skipped \cup {page}

LEMMA PositionsType == ASSUME TypeInv PROVE Positions \cup skipped \cup sc.seen \subseteq PageIds
<1>1. taken \in Seq(Page) /\ skipped \subseteq PageIds /\ sc.seen \subseteq PageIds
  BY ScenarioType DEF TypeInv, ReaderTypeOK, Page, PageIds
<1>2. ASSUME NEW i \in DOMAIN taken PROVE PlaceOf(taken[i]) \in PageIds
  <2>1. taken[i] \in Page
    <3> HIDE DEF Page
    <3>1. i \in 1 .. Len(taken)
      BY <1>1, LenProperties
    <3>2. QED BY <1>1, <3>1, ElementOfSeq
  <2>2. QED BY <2>1 DEF Page, PageIds, PlaceOf
<1>3. QED BY <1>1, <1>2 DEF Positions

LEMMA TakenPlace ==
  ASSUME TypeInv, NEW page \in PageIds, sbuf_pagesize(Here) \in Nat, Taken(page)
  PROVE  /\ Positions' = Positions \cup {page}
         /\ taken \in Seq(Page) /\ Len(taken) \in Nat /\ DOMAIN taken = 1 .. Len(taken)
         /\ DOMAIN taken' = 1 .. Len(taken) + 1
         /\ \A i \in 1 .. Len(taken) : taken'[i] = taken[i]
         /\ PlaceOf(taken'[Len(taken) + 1]) = page /\ taken'[Len(taken) + 1].offset = page.offset
         /\ taken'[Len(taken) + 1].bytes = sbuf_pagesize(Here)
<1> DEFINE p == [path |-> page.path, offset |-> page.offset, bytes |-> sbuf_pagesize(Here)]
           n == Len(taken)
<1>1. taken \in Seq(Page) /\ p \in Page /\ taken' = Append(taken, p) /\ PlaceOf(p) = page
      /\ p.offset = page.offset /\ p.bytes = sbuf_pagesize(Here)
  BY DEF TypeInv, ReaderTypeOK, Page, PageIds, Taken, PlaceOf
<1> HIDE DEF p
<1>2. /\ n \in Nat /\ DOMAIN taken = 1 .. n /\ DOMAIN taken' = 1 .. n + 1
      /\ taken'[n + 1] = p /\ \A i \in 1 .. n : taken'[i] = taken[i]
  BY <1>1, TakenIs
<1>3. Positions = {PlaceOf(taken[i]) : i \in 1 .. n}
  BY <1>2 DEF Positions
<1>4. Positions' = {PlaceOf(taken'[i]) : i \in 1 .. n + 1}
  BY <1>2 DEF Positions
<1>5. 1 .. n + 1 = (1 .. n) \cup {n + 1}
  BY <1>2
<1> HIDE DEF n
<1>6. Positions' = Positions \cup {page}
  BY <1>1, <1>2, <1>3, <1>4, <1>5
<1>7. QED BY <1>1, <1>2, <1>6 DEF n

LEMMA WholeStep ==
  ASSUME TypeInv, InWhole, Whole, InBody, NextPage(Here), Taken(get_pos0(Here)) \/ Left(get_pos0(Here))
  PROVE  InWhole'
<1> DEFINE page == get_pos0(it)
           n == Len(taken)
<1>1. /\ Here = it /\ ~Behind(page) /\ page \in PageIds /\ it \in Iterators /\ kind # "none" /\ InRange(it)
      /\ Here.raw_offset >= sc.start
      /\ kind = "dir" => it.raw_offset = 0 /\ it.file_number < Len(files)
      /\ kind # "dir" => it.raw_offset < image_size
  BY WholeHere
<1>2. /\ ~it'.eof
      /\ kind = "dir" => it'.raw_offset = 0 /\ it'.file_number = it.file_number + 1
      /\ kind # "dir" => /\ it'.raw_offset = it.raw_offset + sbuf_pagesize(it) /\ it'.raw_offset <= image_size
                         /\ sbuf_pagesize(it) \in Nat /\ sbuf_pagesize(it) > 0 /\ sbuf_pagesize(it) <= reader_pagesize
      /\ \A t \in PageIds : Behind(t) \/ t = page => Behind(t)'
      /\ UNCHANGED reader /\ reader_pc = "loop" /\ reader_pc' = "loop"
  BY WholeOn
<1>3. sbuf_pagesize(Here) \in Nat
  BY <1>1, <1>2, PageType
<1>4. /\ \A t \in Positions \cup skipped : Behind(t)
      /\ \A i, j \in DOMAIN taken : PlaceOf(taken[i]) = PlaceOf(taken[j]) => i = j
      /\ Positions \cap (skipped \cup sc.seen) = {}
  BY <1>2 DEF InWhole, InOrder
<1>5. page \notin Positions \cup skipped
  BY <1>1, <1>4
<1>6. sc' = sc /\ kind' = kind /\ files' = files /\ image_size' = image_size /\ Whole'
  BY <1>2 DEF reader, image_size, Whole, Sampled
<1>7. Len(files) \in Nat /\ it.file_number \in Nat /\ it.raw_offset \in Nat /\ reader_pagesize \in Nat
  BY <1>1, LenProperties, ReaderAssumption DEF TypeInv, ReaderTypeOK, Iterators
<1>8. page = IF kind = "dir" THEN [path |-> files[it.file_number + 1], offset |-> 0]
             ELSE [path |-> << >>, offset |-> it.raw_offset]
  BY DEF get_pos0
<1> HIDE DEF page
<1>9. /\ Positions' \cup skipped' \subseteq Positions \cup skipped \cup {page}
      /\ Seen \subseteq Seen' /\ page \in Seen'
      /\ \A i, j \in DOMAIN taken' : PlaceOf(taken'[i]) = PlaceOf(taken'[j]) => i = j
      /\ Positions' \cap (skipped' \cup sc.seen) = {}
      /\ \A b : ByteSeen(b) => ByteSeen(b)'
      /\ kind # "dir" => \A b \in Int : it.raw_offset <= b /\ b < it'.raw_offset => ByteSeen(b)'
  <2>1. CASE Taken(page)
    <3>1. /\ Positions' = Positions \cup {page} /\ n \in Nat /\ DOMAIN taken = 1 .. n
          /\ DOMAIN taken' = 1 .. n + 1 /\ \A i \in 1 .. n : taken'[i] = taken[i]
          /\ PlaceOf(taken'[n + 1]) = page /\ taken'[n + 1].offset = page.offset
          /\ taken'[n + 1].bytes = sbuf_pagesize(it) /\ skipped' = skipped /\ page \notin sc.seen
      BY <1>1, <1>3, <2>1, TakenPlace DEF Taken
    <3>2. Seen' = Seen \cup {page}
      BY <1>6, <3>1 DEF Seen
    <3>3. Positions' \cap (skipped' \cup sc.seen) = {}
      BY <1>4, <1>5, <3>1
    <3>4. ASSUME NEW i \in 1 .. n + 1, NEW j \in 1 .. n + 1, PlaceOf(taken'[i]) = PlaceOf(taken'[j]) PROVE i = j
      <4>1. \A k \in 1 .. n : PlaceOf(taken'[k]) \in Positions /\ k \in DOMAIN taken
        BY <3>1 DEF Positions
      <4>2. CASE i = n + 1 /\ j # n + 1
        <5>1. j \in 1 .. n
          BY <3>1, <4>2
        <5>2. QED BY <1>5, <3>1, <3>4, <4>1, <4>2, <5>1
      <4>3. CASE j = n + 1 /\ i # n + 1
        <5>1. i \in 1 .. n
          BY <3>1, <4>3
        <5>2. QED BY <1>5, <3>1, <3>4, <4>1, <4>3, <5>1
      <4>4. CASE i # n + 1 /\ j # n + 1
        <5>1. i \in 1 .. n /\ j \in 1 .. n
          BY <3>1, <4>4
        <5>2. QED BY <1>4, <3>1, <3>4, <5>1
      <4>5. QED BY <4>2, <4>3, <4>4
    <3>5. ASSUME NEW b, ByteSeen(b) PROVE ByteSeen(b)'
      <4>1. CASE \E i \in DOMAIN taken : taken[i].offset <= b /\ b < taken[i].offset + taken[i].bytes
        <5>1. PICK i \in 1 .. n : taken[i].offset <= b /\ b < taken[i].offset + taken[i].bytes
          BY <3>1, <4>1
        <5>2. i \in DOMAIN taken' /\ taken'[i] = taken[i]
          BY <3>1
        <5>3. QED BY <5>1, <5>2 DEF ByteSeen
      <4>2. QED BY <1>6, <3>1, <3>5, <4>1 DEF ByteSeen
    <3>6. ASSUME kind # "dir", NEW b \in Int, it.raw_offset <= b, b < it'.raw_offset PROVE ByteSeen(b)'
      <4>1. n + 1 \in DOMAIN taken' /\ taken'[n + 1].offset = it.raw_offset /\ taken'[n + 1].bytes = sbuf_pagesize(it)
        BY <1>8, <3>1, <3>6
      <4>2. QED BY <1>2, <3>6, <4>1 DEF ByteSeen
    <3>7. QED BY <3>1, <3>2, <3>3, <3>4, <3>5, <3>6
  <2>2. CASE Left(page)
    <3>1. Positions' = Positions /\ DOMAIN taken' = DOMAIN taken
      BY <2>2 DEF Left, Positions
    <3>2. /\ taken' = taken /\ skipped' \subseteq skipped \cup {page} /\ skipped \subseteq skipped'
          /\ page \in skipped' \cup sc.seen
      BY <2>2 DEF Left
    <3>3. Seen \subseteq Seen' /\ page \in Seen'
      BY <1>6, <3>1, <3>2 DEF Seen
    <3>4. \A b : ByteSeen(b) => ByteSeen(b)'
      BY <1>6, <3>2 DEF ByteSeen
    <3>5. ASSUME kind # "dir", NEW b \in Int, it.raw_offset <= b, b < it'.raw_offset PROVE ByteSeen(b)'
      <4>1. page.offset <= b /\ b < page.offset + reader_pagesize
        BY <1>2, <1>7, <1>8, <3>5
      <4>2. QED BY <1>6, <3>2, <4>1 DEF ByteSeen
    <3>6. Positions' \cap (skipped' \cup sc.seen) = {}
      BY <1>4, <1>5, <3>1, <3>2
    <3>7. QED BY <1>4, <3>1, <3>2, <3>3, <3>4, <3>5, <3>6
  <2>3. QED BY <1>1, <2>1, <2>2 DEF page
<1>10. InOrder'
  <2>1. \A t \in Positions' \cup skipped' : Behind(t)'
    <3>1. Positions \cup skipped \subseteq PageIds
      BY PositionsType
    <3>2. QED BY <1>1, <1>2, <1>4, <1>9, <3>1
  <2>2. QED BY <1>2, <1>6, <1>9, <2>1 DEF InOrder
<1>11. NothingLeft'
  <2>1. CASE kind = "dir"
    <3>1. ASSUME NEW j \in 1 .. it'.file_number PROVE [path |-> files[j], offset |-> 0] \in Seen'
      <4>1. CASE j = it.file_number + 1
        BY <1>8, <1>9, <2>1, <4>1
      <4>2. CASE j # it.file_number + 1
        <5>1. j \in 1 .. it.file_number
          BY <1>2, <1>7, <2>1, <4>2
        <5>2. [path |-> files[j], offset |-> 0] \in Seen
          BY <1>2, <2>1, <5>1 DEF InWhole, NothingLeft
        <5>3. QED BY <1>9, <5>2
      <4>3. QED BY <4>1, <4>2
    <3>2. QED BY <1>6, <2>1, <3>1 DEF NothingLeft
  <2>2. CASE kind # "dir"
    <3>1. ASSUME NEW b \in 0 .. it'.raw_offset - 1 PROVE ByteSeen(b)'
      <4>1. CASE b < it.raw_offset
        <5>1. b \in 0 .. it.raw_offset - 1
          BY <1>7, <4>1
        <5>2. ByteSeen(b)
          BY <1>2, <2>2, <5>1 DEF InWhole, NothingLeft
        <5>3. QED BY <1>9, <5>2
      <4>2. CASE it.raw_offset <= b
        BY <1>2, <1>7, <1>9, <2>2, <4>2
      <4>3. QED BY <1>7, <4>1, <4>2
    <3>2. QED BY <1>6, <2>2, <3>1 DEF NothingLeft
  <2>3. QED BY <2>1, <2>2
<1>12. QED BY <1>10, <1>11 DEF InWhole

LEMMA WholeKept ==
  ASSUME InWhole, UNCHANGED <<reader, it, taken, skipped>>,
         reader_pc' \in {"loop", "done"} => reader_pc \in {"loop", "done"},
         reader_pc' = "done" /\ Whole => reader_pc = "done" \/ AtEnd
  PROVE  InWhole'
<1>1. /\ image_size' = image_size /\ AtEnd' = AtEnd /\ Positions' = Positions /\ Seen' = Seen /\ Whole' = Whole
      /\ sc' = sc /\ kind' = kind /\ files' = files
  BY DEF reader, image_size, AtEnd, end, Positions, Seen, Whole, Sampled
<1>2. \A t : Behind(t)' = Behind(t)
  BY <1>1 DEF Behind
<1>3. \A b : ByteSeen(b)' = ByteSeen(b)
  BY <1>1 DEF ByteSeen
<1>4. InOrder'
  BY <1>1, <1>2 DEF InWhole, InOrder
<1>5. NothingLeft'
  BY <1>1, <1>3 DEF InWhole, NothingLeft
<1>6. QED BY <1>4, <1>5 DEF InWhole

\* It begins with the first byte, or the first file.
LEMMA WholeBegins == ASSUME TypeInv, Begin PROVE InWhole'
<1>1. /\ it' = [iterator EXCEPT !.raw_offset = sc.start] /\ UNCHANGED <<reader, taken, skipped>>
      /\ reader_pc' = "loop" /\ kind # "none" /\ taken = << >> /\ skipped = {}
  BY DEF Begin, TypeInv, Chosen, Untouched
<1>2. it' = [raw_offset |-> sc.start, file_number |-> 0, eof |-> FALSE]
  BY <1>1 DEF iterator
<1>3. sc' = sc /\ kind' = kind /\ image_size' = image_size /\ image_size \in Nat
  BY <1>1, SizeType DEF reader, image_size, TypeInv
<1>4. DOMAIN taken' = {} /\ skipped' = {} /\ Positions' = {}
  BY <1>1 DEF Positions
<1>5. CASE Whole
  <2>1. it'.raw_offset = 0 /\ it'.file_number = 0 /\ ~it'.eof
    BY <1>2, <1>5 DEF Whole
  <2>2. InOrder'
    BY <1>1, <1>3, <1>4, <2>1 DEF InOrder
  <2>3. NothingLeft'
    BY <2>1 DEF NothingLeft
  <2>4. QED BY <2>2, <2>3 DEF InWhole
<1>6. CASE ~Whole
  <2>1. ~Whole'
    BY <1>3, <1>6 DEF Whole, Sampled
  <2>2. QED BY <2>1 DEF InWhole, InOrder, NothingLeft
<1>7. QED BY <1>5, <1>6

LEMMA WholeNext == TypeInv /\ InWhole /\ [ReaderNext]_reader_vars => InWhole'
<1> SUFFICES ASSUME TypeInv, InWhole, [ReaderNext]_reader_vars PROVE InWhole'
  OBVIOUS
<1>1. CASE UNCHANGED reader_vars
  BY <1>1, WholeKept DEF reader_vars, iteration
<1>2. CASE Refuse \/ OpenDirectory \/ OpenEwf \/ OpenRaw \/ AddPart
  <2>1. reader_pc' \notin {"loop", "done"}
    BY <1>2 DEF Refuse, OpenDirectory, OpenEwf, OpenRaw, AddPart
  <2>2. QED BY <2>1 DEF InWhole, InOrder, NothingLeft
<1>3. CASE PassOver \/ ReadPage \/ ReadFails \/ ReadNothing \/ NullSbuf \/ StrayFile
  <2>1. InBody /\ UNCHANGED reader
    BY <1>3, WalkKeeps DEF PassOver, ReadPage, ReadFails, ReadNothing, NullSbuf, StrayFile, Wanted
  <2>2. CASE Whole
    <3>1. /\ Here = it /\ InRange(it) /\ it.raw_offset >= sc.start /\ (kind # "dir" => it.raw_offset < image_size)
          /\ it.raw_offset \in Nat /\ sc.start = 0 /\ image_size \in Nat
      BY <2>1, <2>2, WholeHere, SizeType DEF Iterators, Whole, TypeInv
    <3>2. CASE PassOver
      <4>1. NextPage(Here) /\ get_pos0(Here) \in sc.seen /\ UNCHANGED <<taken, skipped>>
        BY <3>1, <3>2 DEF PassOver
      <4>2. QED BY <2>1, <2>2, <4>1, WholeStep DEF Left
    <3>3. CASE ReadPage
      <4>1. NextPage(Here) /\ Taken(get_pos0(Here))
        BY <3>3 DEF ReadPage, Wanted, Taken
      <4>2. QED BY <2>1, <2>2, <4>1, WholeStep
    <3>4. CASE ReadFails
      <4>1. NextPage(Here) /\ Left(get_pos0(Here))
        BY <3>4 DEF ReadFails, Wanted, Left
      <4>2. QED BY <2>1, <2>2, <4>1, WholeStep
    <3>5. CASE ReadNothing \/ NullSbuf \/ StrayFile
      BY <3>1, <3>5 DEF ReadNothing, NullSbuf, StrayFile, Wanted
    <3>6. QED BY <1>3, <3>2, <3>3, <3>4, <3>5
  <2>3. CASE ~Whole
    <3>1. ~Whole'
      BY <2>1, <2>3 DEF Whole, Sampled, reader
    <3>2. QED BY <3>1 DEF InWhole, InOrder, NothingLeft
  <2>4. QED BY <2>2, <2>3
<1>4. CASE Finish
  BY <1>4, WholeKept DEF Finish, iteration, Whole, Sampled
<1>5. QED BY <1>1, <1>2, <1>3, <1>4, WholeBegins DEF ReaderNext

-----------------------------------------------------------------------------
(* A sample *)

\* Where the raw and the E01 reader find a block.
OffsetOf(b) ==
  IF kind = "raw" /\ b * reader_pagesize > image_size THEN (image_size \div reader_pagesize) * reader_pagesize
  ELSE b * reader_pagesize
PlaceOfBlock(b) ==
  IF kind = "dir" THEN [path |-> files[b + 1], offset |-> 0] ELSE [path |-> << >>, offset |-> OffsetOf(b)]
Real(b) == IF kind = "dir" THEN b < Len(files) ELSE OffsetOf(b) < image_size

LEMMA LookedIs ==
  ASSUME ReaderTypeOK, Chosen, kind # "none", kind = "dir" => it.raw_offset = 0, NEW b \in 0 .. max_blocks
  PROVE  /\ Looked(b) <=> (Real(b) => PlaceOfBlock(b) \in Seen)
         /\ get_pos0(seek_block(b)) = PlaceOfBlock(b)
         /\ kind # "dir" => seek_block(b).raw_offset = OffsetOf(b) /\ OffsetOf(b) \in Nat
         /\ InRange(seek_block(b)) <=> (kind = "dir" => b < Len(files))
<1>1. /\ seek_block(b) \in Iterators
      /\ seek_block(b).file_number = IF kind = "dir" THEN b ELSE 0
      /\ kind = "dir" => seek_block(b).raw_offset = 0
      /\ kind # "dir" => seek_block(b).raw_offset = OffsetOf(b)
  <2>1. reader_pagesize * b = b * reader_pagesize
    BY SizeType, ReaderAssumption
  <2>2. kind \in {"raw", "ewf", "dir"}
    BY DEF ReaderTypeOK
  <2>3. QED BY <2>1, <2>2, SeekType DEF OffsetOf
<1>2. /\ image_size \in Nat /\ Len(files) \in Nat /\ reader_pagesize \in Nat \ {0} /\ b \in Nat
      /\ kind = "dir" => image_size = Len(files)
  <2>1. image_size \in Nat /\ Len(files) \in Nat /\ reader_pagesize \in Nat \ {0} /\ b \in Nat
    BY SizeType, LenProperties, ReaderAssumption, SMTT(30) DEF ReaderTypeOK
  <2>2. QED BY <2>1 DEF image_size
<1>3. get_pos0(seek_block(b)) = PlaceOfBlock(b)
  BY <1>1 DEF get_pos0, PlaceOfBlock
<1>4. InRange(seek_block(b)) <=> (kind = "dir" => b < Len(files))
  BY <1>1 DEF InRange
<1>5. (InRange(seek_block(b)) /\ seek_block(b).raw_offset < image_size) <=> Real(b)
  BY <1>1, <1>2, <1>4 DEF Real
<1>6. kind # "dir" => OffsetOf(b) \in Nat
  BY <1>1 DEF Iterators
<1>7. QED BY <1>1, <1>3, <1>4, <1>5, <1>6 DEF Looked

\* When the page of one block is the last of the image, a later block lies behind the image
\* or, in the raw reader, is the same page.
LEMMA LaterBlock ==
  ASSUME ReaderTypeOK, Chosen, kind \notin {"none", "dir"},
         NEW b \in Nat, NEW c \in Nat, b < c, OffsetOf(b) + reader_pagesize >= image_size
  PROVE  OffsetOf(c) >= image_size \/ OffsetOf(c) = OffsetOf(b)
<1> DEFINE s == image_size
           p == reader_pagesize
           f == s \div p
<1>1. s \in Nat /\ p \in Nat /\ p > 0
  BY SizeType, ReaderAssumption
<1> HIDE DEF s, p
<1>2. f \in Nat /\ f * p <= s /\ s < f * p + p
  BY <1>1
<1> HIDE DEF f
<1>3. (b + 1) * p = b * p + p /\ (b + 1) * p <= c * p /\ b * p \in Nat /\ c * p \in Nat /\ f * p \in Nat
  BY <1>1, <1>2
<1>4. (f + 1) * p = f * p + p /\ \A x \in Nat : x < f => x * p + p <= f * p
  <2>1. ASSUME NEW x \in Nat, x < f PROVE x * p + p <= f * p
    <3>1. (x + 1) * p = x * p + p /\ (x + 1) * p <= f * p
      BY <1>1, <1>2, <2>1
    <3>2. QED BY <3>1
  <2>2. QED BY <1>1, <1>2, <2>1
<1>5. /\ OffsetOf(b) = IF kind = "raw" /\ b * p > s THEN f * p ELSE b * p
      /\ OffsetOf(c) = IF kind = "raw" /\ c * p > s THEN f * p ELSE c * p
  BY DEF OffsetOf, s, p, f
<1>6. CASE ~(kind = "raw" /\ c * p > s)
  BY <1>1, <1>3, <1>5, <1>6 DEF s, p
<1>7. CASE kind = "raw" /\ c * p > s /\ b * p > s
  BY <1>5, <1>7
<1>8. CASE kind = "raw" /\ c * p > s /\ b * p <= s
  <2>1. OffsetOf(b) = b * p /\ b * p + p >= s
    BY <1>1, <1>3, <1>5, <1>8 DEF s, p
  <2>2. b <= f
    <3>1. CASE f < b
      <4>1. (f + 1) * p <= b * p
        BY <1>1, <1>2, <3>1
      <4>2. QED BY <1>1, <1>2, <1>3, <1>4, <1>8, <4>1
    <3>2. QED BY <1>2, <3>1
  <2>3. CASE b = f
    BY <1>5, <1>8, <2>1, <2>3
  <2>4. CASE b < f
    <3>1. b * p + p <= f * p
      BY <1>4, <2>4
    <3>2. f * p >= s
      BY <1>1, <1>2, <1>3, <2>1, <3>1
    <3>3. QED BY <1>5, <1>8, <3>2 DEF s
  <2>5. QED BY <1>2, <2>2, <2>3, <2>4
<1>9. QED BY <1>1, <1>3, <1>6, <1>7, <1>8

\* The same of every state, to be used of the next one.
LookedFact ==
  TypeInv /\ kind # "none" /\ (kind = "dir" => it.raw_offset = 0) =>
    \A b \in 0 .. max_blocks : Looked(b) <=> (Real(b) => PlaceOfBlock(b) \in Seen)

LEMMA LookedAlways == LookedFact
BY LookedIs DEF LookedFact, TypeInv

\* Where the iterator is after the block of a sample.
LEMMA SampleOn ==
  ASSUME TypeInv, InSample, Sampled, sc.start = 0, InBody, UNCHANGED reader,
         \/ it' = increment_iterator(Here)
         \/ kind = "raw" /\ Here.raw_offset = image_size /\ it' = [increment_iterator(Here) EXCEPT !.eof = TRUE]
  PROVE  /\ kind # "none" /\ Min(si) \in si /\ (\A b \in si : Min(si) <= b) /\ si \subseteq 0 .. max_blocks
         /\ kind = "dir" => it.raw_offset = 0 /\ it'.raw_offset = 0
         /\ Here = seek_block(Min(si))
         /\ AtEnd' => IF kind = "dir" THEN Min(si) + 1 >= Len(files)
                      ELSE OffsetOf(Min(si)) + reader_pagesize >= image_size
<1> DEFINE b == Min(si)
<1>1. /\ kind # "none" /\ Here \in Iterators /\ b \in si /\ Here = seek_block(b) /\ si \subseteq 0 .. max_blocks
      /\ ~AtEnd /\ ~it.eof /\ reader_pc = "loop"
  BY HereType DEF InBody, AtEnd
<1>2. /\ max_blocks \in Nat /\ image_size \in Nat /\ Len(files) \in Nat /\ reader_pagesize \in Nat \ {0}
  BY <1>1, SizeType, LenProperties, ReaderAssumption DEF TypeInv, ReaderTypeOK
<1>3. \A c \in si : b <= c
  BY <1>1, <1>2, MinIn
<1> HIDE DEF b
<1>4. kind = "dir" => it.raw_offset = 0
  BY <1>1 DEF InSample
<1>5. b \in 0 .. max_blocks /\ b \in Nat
  BY <1>1, <1>2
<1>6. /\ ~Here.eof /\ (kind = "dir" => Here.raw_offset = 0 /\ Here.file_number = b)
      /\ (kind # "dir" => Here.raw_offset = OffsetOf(b) /\ OffsetOf(b) \in Nat)
  BY <1>1, <1>4, <1>5, SeekType, LookedIs DEF TypeInv
<1>7. kind' = kind /\ files' = files /\ image_size' = image_size
  BY DEF reader, image_size
<1>8. CASE kind = "dir"
  <2>1. /\ it' = increment_iterator(Here) /\ ~it'.eof /\ it'.raw_offset = 0
        /\ it'.file_number = IF b + 1 <= Len(files) THEN b + 1 ELSE Len(files)
    BY <1>1, <1>6, <1>8, IncrementType DEF TypeInv
  <2>2. AtEnd' => it'.file_number = Len(files)
    BY <1>7, <1>8, <2>1 DEF AtEnd, end
  <2>3. AtEnd' => b + 1 >= Len(files)
    BY <1>2, <1>5, <2>1, <2>2
  <2>4. QED BY <1>1, <1>3, <1>4, <1>8, <2>1, <2>3 DEF b
<1>9. CASE kind # "dir"
  <2>1. CASE it' = increment_iterator(Here)
    <3>1. ~it'.eof /\ it'.raw_offset = IF OffsetOf(b) + reader_pagesize <= image_size THEN OffsetOf(b) + reader_pagesize
                                       ELSE image_size
      BY <1>1, <1>6, <1>9, <2>1, IncrementType DEF TypeInv
    <3>2. AtEnd' => it'.raw_offset = image_size
      BY <1>7, <1>9, <3>1 DEF AtEnd, end
    <3>3. AtEnd' => OffsetOf(b) + reader_pagesize >= image_size
      BY <1>2, <1>6, <1>9, <3>1, <3>2
    <3>4. QED BY <1>1, <1>3, <1>9, <3>3 DEF b
  <2>2. CASE Here.raw_offset = image_size
    <3>1. OffsetOf(b) + reader_pagesize >= image_size
      BY <1>2, <1>6, <1>9, <2>2
    <3>2. QED BY <1>1, <1>3, <1>9, <3>1 DEF b
  <2>3. QED BY <2>1, <2>2
<1>10. QED BY <1>8, <1>9

\* Each block of a sample is looked at; those that would be left out because the walk is at
\* the end already are the same page as this one, or lie behind the image.
LEMMA SampleStep ==
  ASSUME TypeInv, TypeInv', InSample, Sampled, sc.start = 0, InBody, UNCHANGED <<reader, drawn>>,
         reader_pc' = "loop", si' = si \ {Min(si)},
         \/ it' = increment_iterator(Here)
         \/ kind = "raw" /\ Here.raw_offset = image_size /\ it' = [increment_iterator(Here) EXCEPT !.eof = TRUE],
         Seen \subseteq Seen', InRange(Here) /\ (kind # "dir" => Here.raw_offset < image_size) => get_pos0(Here) \in Seen'
  PROVE  InSample'
<1> DEFINE a == Min(si)
<1>1. /\ kind # "none" /\ a \in si /\ (\A b \in si : a <= b) /\ si \subseteq 0 .. max_blocks
      /\ kind = "dir" => it.raw_offset = 0 /\ it'.raw_offset = 0
      /\ Here = seek_block(a)
      /\ AtEnd' => IF kind = "dir" THEN a + 1 >= Len(files) ELSE OffsetOf(a) + reader_pagesize >= image_size
  BY SampleOn
<1> HIDE DEF a
<1>2. reader_pc = "loop" /\ drawn \subseteq 0 .. max_blocks /\ max_blocks \in Nat /\ Len(files) \in Nat
      /\ image_size \in Nat
  BY <1>1, SizeType, LenProperties DEF InBody, TypeInv, BlocksInRange, ReaderTypeOK
<1>3. kind' = kind /\ files' = files /\ image_size' = image_size /\ max_blocks' = max_blocks /\ sc' = sc
  BY DEF reader, image_size, max_blocks
<1>4. \A b : Real(b)' = Real(b) /\ PlaceOfBlock(b)' = PlaceOfBlock(b)
  BY <1>3 DEF Real, PlaceOfBlock, OffsetOf
<1>5. LookedFact /\ LookedFact'
  BY LookedAlways, PTL
<1>6. \A b \in 0 .. max_blocks : Looked(b) <=> (Real(b) => PlaceOfBlock(b) \in Seen)
  BY <1>1, <1>5 DEF LookedFact
<1>7. \A b \in 0 .. max_blocks : Looked(b)' <=> (Real(b) => PlaceOfBlock(b) \in Seen')
  BY <1>1, <1>3, <1>4, <1>5 DEF LookedFact
<1>8. a \in 0 .. max_blocks /\ a \in Nat
  BY <1>1, <1>2
<1>9. Real(a) => PlaceOfBlock(a) \in Seen'
  <2>1. /\ get_pos0(Here) = PlaceOfBlock(a) /\ (InRange(Here) <=> (kind = "dir" => a < Len(files)))
        /\ kind # "dir" => Here.raw_offset = OffsetOf(a)
    BY <1>1, <1>8, LookedIs DEF TypeInv
  <2>2. QED BY <2>1 DEF Real
<1>10. ASSUME NEW b \in drawn, b \notin si' \/ AtEnd' PROVE Looked(b)'
  <2>0. b \in 0 .. max_blocks /\ b \in Nat
    BY <1>2
  <2>1. CASE b \notin si
    <3>1. Looked(b)
      BY <1>2, <2>1 DEF InSample
    <3>2. QED BY <1>6, <1>7, <2>0, <3>1
  <2>2. CASE b = a
    BY <1>7, <1>9, <2>0, <2>2
  <2>3. CASE b \in si /\ b # a
    <3>1. a < b /\ AtEnd'
      BY <1>1, <1>8, <1>10, <2>0, <2>3 DEF a
    <3>2. CASE kind = "dir"
      <4>1. ~(b < Len(files))
        BY <1>1, <1>2, <1>8, <2>0, <3>1, <3>2
      <4>2. QED BY <1>7, <2>0, <3>2, <4>1 DEF Real
    <3>3. CASE kind # "dir"
      <4>1. OffsetOf(b) >= image_size \/ OffsetOf(b) = OffsetOf(a)
        BY <1>1, <1>8, <2>0, <3>1, <3>3, LaterBlock DEF TypeInv
      <4>2. CASE OffsetOf(b) >= image_size
        <5>1. OffsetOf(b) \in Nat
          BY <1>1, <2>0, <3>3, LookedIs DEF TypeInv
        <5>2. ~Real(b)
          BY <1>2, <3>3, <4>2, <5>1 DEF Real
        <5>3. QED BY <1>7, <2>0, <5>2
      <4>3. CASE OffsetOf(b) = OffsetOf(a)
        <5>1. Real(b) = Real(a) /\ PlaceOfBlock(b) = PlaceOfBlock(a)
          BY <3>3, <4>3 DEF Real, PlaceOfBlock
        <5>2. QED BY <1>7, <1>9, <2>0, <5>1
      <4>4. QED BY <4>1, <4>2, <4>3
    <3>4. QED BY <3>2, <3>3
  <2>4. QED BY <2>1, <2>2, <2>3
<1>11. QED BY <1>1, <1>3, <1>10 DEF InSample

LEMMA SampleKept ==
  ASSUME InSample, UNCHANGED <<reader, it, drawn, si, taken, skipped>>,
         reader_pc' \in {"loop", "done"} => reader_pc \in {"loop", "done"},
         reader_pc' = "done" /\ Sampled => reader_pc = "done" \/ AtEnd \/ si = {}
  PROVE  InSample'
<1>1. /\ image_size' = image_size /\ AtEnd' = AtEnd /\ Seen' = Seen /\ Sampled' = Sampled
      /\ sc' = sc /\ kind' = kind /\ files' = files
  BY DEF reader, image_size, AtEnd, end, Positions, Seen, Sampled
<1>2. \A b : seek_block(b)' = seek_block(b)
  BY <1>1 DEF seek_block
<1>3. \A b : Looked(b)' = Looked(b)
  BY <1>1, <1>2 DEF Looked, InRange, get_pos0
<1>4. QED BY <1>1, <1>3 DEF InSample

\* At its beginning the walk is at the end of an empty image only.
LEMMA SampleBegins ==
  ASSUME TypeInv, TypeInv', Begin
  PROVE  InSample'
<1> SUFFICES ASSUME Sampled', sc'.start = 0 PROVE InSample'
  BY DEF InSample
<1>1. /\ it' = [raw_offset |-> 0, file_number |-> 0, eof |-> FALSE] /\ si' = drawn' /\ UNCHANGED reader
      /\ reader_pc' = "loop" /\ kind # "none"
  BY DEF Begin, iterator, reader, TypeInv, Chosen
<1>2. kind' = kind /\ files' = files /\ image_size' = image_size /\ max_blocks' = max_blocks
  BY <1>1 DEF reader, image_size, max_blocks
<1>3. max_blocks \in Nat /\ Len(files) \in Nat /\ image_size \in Nat
  BY <1>1, SizeType, LenProperties DEF TypeInv, ReaderTypeOK
<1>4. drawn' \subseteq 0 .. max_blocks
  BY <1>1, <1>2 DEF TypeInv, BlocksInRange
<1>5. ASSUME NEW b \in drawn', AtEnd' PROVE Looked(b)'
  <2>1. LookedFact'
    BY LookedAlways, PTL
  <2>2. Looked(b)' <=> (Real(b)' => PlaceOfBlock(b)' \in Seen')
    BY <1>1, <1>2, <1>4, <2>1 DEF LookedFact
  <2>3. IF kind = "dir" THEN Len(files) = 0 ELSE image_size = 0
    BY <1>1, <1>2, <1>3, <1>5 DEF AtEnd, end
  <2>4. b \in 0 .. max_blocks /\ b \in Nat
    BY <1>3, <1>4
  <2>5. kind # "dir" => OffsetOf(b) \in Nat
    <3>1. (kind' # "dir" => OffsetOf(b)' \in Nat)
      <4>1. reader_pagesize \in Nat \ {0}
        BY ReaderAssumption
      <4>2. b * reader_pagesize \in Nat /\ (image_size \div reader_pagesize) * reader_pagesize \in Nat
        BY <1>3, <2>4, <4>1
      <4>3. QED BY <1>2, <4>2 DEF OffsetOf
    <3>2. OffsetOf(b)' = OffsetOf(b)
      BY <1>2 DEF OffsetOf
    <3>3. QED BY <1>2, <3>1, <3>2
  <2>6. Real(b)' = Real(b)
    BY <1>2 DEF Real, OffsetOf
  <2>7. ~Real(b)
    BY <2>3, <2>4, <2>5 DEF Real
  <2>8. QED BY <2>2, <2>6, <2>7
<1>6. QED BY <1>1, <1>5 DEF InSample

LEMMA SampleNext == TypeInv /\ TypeInv' /\ InSample /\ [ReaderNext]_reader_vars => InSample'
<1> SUFFICES ASSUME TypeInv, TypeInv', InSample, [ReaderNext]_reader_vars PROVE InSample'
  OBVIOUS
<1>1. CASE UNCHANGED reader_vars
  BY <1>1, SampleKept DEF reader_vars, iteration
<1>2. CASE Refuse \/ OpenDirectory \/ OpenEwf \/ OpenRaw \/ AddPart
  <2>1. reader_pc' \notin {"loop", "done"}
    BY <1>2 DEF Refuse, OpenDirectory, OpenEwf, OpenRaw, AddPart
  <2>2. QED BY <2>1 DEF InSample
<1>3. CASE reader_pc' = "crash"
  BY <1>3 DEF InSample
<1>4. CASE /\ PassOver \/ ReadPage \/ ReadFails \/ ReadNothing \/ NullSbuf \/ StrayFile
           /\ reader_pc' # "crash"
  <2>1. InBody /\ UNCHANGED reader
    BY <1>4, WalkKeeps DEF PassOver, ReadPage, ReadFails, ReadNothing, NullSbuf, StrayFile, Wanted
  <2>2. CASE Sampled /\ sc.start = 0
    <3>0. Here \in Iterators /\ Here.raw_offset \in Nat /\ sc.sample > 0 /\ sc' = sc
      BY <2>1, <2>2, HereType DEF Iterators, Sampled, reader
    <3>1. ASSUME NextPage(Here)
          PROVE  /\ it' = increment_iterator(Here) /\ si' = si \ {Min(si)} /\ UNCHANGED <<reader, drawn>>
                 /\ reader_pc' = "loop"
      BY <2>1, <3>0, <3>1 DEF NextPage, InBody
    <3>2. CASE PassOver
      <4>1. NextPage(Here) /\ get_pos0(Here) \in sc.seen /\ UNCHANGED <<taken, skipped>>
        BY <2>2, <3>0, <3>2 DEF PassOver
      <4>2. Seen' = Seen /\ get_pos0(Here) \in Seen'
        BY <3>0, <4>1 DEF Seen, Positions
      <4>3. QED BY <2>1, <2>2, <3>1, <4>1, <4>2, SampleStep
    <3>3. CASE ReadPage
      <4>1. NextPage(Here) /\ Taken(get_pos0(Here)) /\ get_pos0(Here) \in PageIds /\ sbuf_pagesize(Here) \in Nat
        BY <3>3, TakenType DEF ReadPage, Wanted, Taken
      <4>2. Positions' = Positions \cup {get_pos0(Here)} /\ skipped' = skipped
        BY <4>1, TakenPlace DEF Taken
      <4>3. Seen \subseteq Seen' /\ get_pos0(Here) \in Seen'
        BY <3>0, <4>2 DEF Seen
      <4>4. QED BY <2>1, <2>2, <3>1, <4>1, <4>3, SampleStep
    <3>4. CASE ReadFails
      <4>1. NextPage(Here) /\ skipped' = skipped \cup {get_pos0(Here)} /\ UNCHANGED taken
        BY <3>4 DEF ReadFails
      <4>2. Seen \subseteq Seen' /\ get_pos0(Here) \in Seen'
        BY <3>0, <4>1 DEF Seen, Positions
      <4>3. QED BY <2>1, <2>2, <3>1, <4>1, <4>2, SampleStep
    <3>5. CASE ReadNothing
      <4>1. /\ kind = "raw" /\ Here.raw_offset = image_size
            /\ it' = [increment_iterator(Here) EXCEPT !.eof = TRUE]
            /\ si' = si \ {Min(si)} /\ UNCHANGED <<reader_pc, reader, drawn, taken>>
            /\ skipped' = skipped \cup {get_pos0(Here)}
        BY <3>0, <3>5 DEF ReadNothing
      <4>2. Seen \subseteq Seen' /\ get_pos0(Here) \in Seen'
        BY <3>0, <4>1 DEF Seen, Positions
      <4>3. reader_pc' = "loop"
        BY <2>1, <4>1 DEF InBody
      <4>4. QED BY <2>1, <2>2, <4>1, <4>2, <4>3, SampleStep
    <3>6. CASE NullSbuf
      BY <1>4, <3>6 DEF NullSbuf
    <3>7. CASE StrayFile
      <4>1. NextPage(Here) /\ UNCHANGED <<taken, skipped>> /\ ~InRange(Here)
        BY <1>4, <3>7 DEF StrayFile
      <4>2. Seen' = Seen
        BY <3>0, <4>1 DEF Seen, Positions
      <4>3. QED BY <2>1, <2>2, <3>1, <4>1, <4>2, SampleStep
    <3>8. QED BY <1>4, <3>2, <3>3, <3>4, <3>5, <3>6, <3>7
  <2>3. CASE ~(Sampled /\ sc.start = 0)
    <3>1. ~(Sampled' /\ sc'.start = 0)
      BY <2>1, <2>3 DEF Sampled, reader
    <3>2. QED BY <3>1 DEF InSample
  <2>4. QED BY <2>2, <2>3
<1>5. CASE Finish
  BY <1>5, SampleKept DEF Finish, iteration, Sampled
<1>6. QED BY <1>1, <1>2, <1>3, <1>4, <1>5, SampleBegins DEF ReaderNext

-----------------------------------------------------------------------------
(* What the reader does in the end *)

\* It dies on a block that does not exist only.
LEMMA DiedNext == TypeInv /\ InWhole /\ Died /\ [ReaderNext]_reader_vars => Died'
<1> SUFFICES ASSUME TypeInv, InWhole, Died, [ReaderNext]_reader_vars, reader_pc' = "crash" PROVE Died'
  BY DEF Died
<1>1. CASE UNCHANGED reader_vars
  BY <1>1 DEF reader_vars, reader, iteration, Died, Sampled, Here, seek_block, image_size
<1>2. CASE NullSbuf \/ StrayFile
  <2>1. InBody /\ UNCHANGED <<reader, it, si>>
    BY <1>2 DEF NullSbuf, StrayFile, Wanted, NextPage, InBody, iteration
  <2>2. Sampled' = Sampled /\ Here' = Here /\ kind' = kind /\ files' = files /\ sc' = sc
    BY <2>1 DEF reader, Sampled, Here, seek_block, image_size
  <2>3. Here \in Iterators /\ kind # "none" /\ (~Sampled => Here = it)
    BY <2>1, HereType
  <2>4. /\ ~AtEnd /\ reader_pc = "loop" /\ Len(files) \in Nat /\ sc.start \in Nat
        /\ Here.file_number \in 0 .. Len(files) /\ (kind # "dir" => Here.file_number = 0)
    BY <2>1, <2>3, LenProperties, ScenarioType DEF InBody, TypeInv, ReaderTypeOK, Chosen, Iterators
  <2>5. CASE NullSbuf
    <3>1. kind = "ewf" /\ Here.raw_offset = image_size
      BY <2>5 DEF NullSbuf
    <3>2. Sampled
      BY <2>3, <2>4, <3>1 DEF AtEnd, end
    <3>3. QED BY <2>2, <3>1, <3>2 DEF Died
  <2>6. CASE StrayFile
    <3>1. kind = "dir" /\ Here.file_number = Len(files)
      BY <2>4, <2>6 DEF StrayFile, InRange
    <3>2. ~Sampled => sc.start > 0
      BY <2>3, <2>4, <3>1 DEF InWhole, InOrder, Whole, AtEnd, end
    <3>3. QED BY <2>2, <3>1, <3>2 DEF Died
  <2>7. QED BY <1>2, <2>5, <2>6
<1>3. CASE \/ Refuse \/ OpenDirectory \/ OpenEwf \/ OpenRaw \/ AddPart
           \/ Begin \/ PassOver \/ ReadPage \/ ReadFails \/ ReadNothing \/ Finish
  <2>1. CASE Refuse \/ OpenDirectory \/ OpenEwf \/ OpenRaw \/ AddPart \/ Begin \/ Finish
    BY <2>1 DEF Refuse, OpenDirectory, OpenEwf, OpenRaw, AddPart, Begin, Finish
  <2>2. CASE PassOver \/ ReadPage \/ ReadFails \/ ReadNothing
    BY <2>2 DEF PassOver, ReadPage, ReadFails, ReadNothing, Wanted, InBody, NextPage
  <2>3. QED BY <1>3, <2>1, <2>2
<1>4. QED BY <1>1, <1>2, <1>3 DEF ReaderNext

WalkInv == TypeInv /\ Hashed /\ InWhole /\ InSample /\ Died

LEMMA WalkInit == ReaderInit => WalkInv
BY ReaderTypeInit, HashedInit DEF ReaderInit, WalkInv, InWhole, InOrder, NothingLeft, InSample, Died

LEMMA WalkNext == WalkInv /\ [ReaderNext]_reader_vars => WalkInv'
BY ReaderTypeNext, HashedNext, WholeNext, SampleNext, DiedNext DEF WalkInv

\* What a walk over everything has dealt with when it is at its end.
LEMMA WholeDone ==
  ASSUME TypeInv, InWhole, reader_pc = "done"
  PROVE  EverythingOnce
<1> SUFFICES ASSUME Whole PROVE EverythingOnce
  BY DEF EverythingOnce, Whole
<1>1. /\ ~it.eof /\ AtEnd
      /\ IF kind = "dir" THEN it.raw_offset = 0 ELSE it.raw_offset <= image_size
      /\ \A t \in Positions \cup skipped : Behind(t)
      /\ \A i, j \in DOMAIN taken : PlaceOf(taken[i]) = PlaceOf(taken[j]) => i = j
      /\ Positions \cap (skipped \cup sc.seen) = {}
  BY DEF InWhole, InOrder
<1>2. CASE kind = "dir"
  <2>1. it.file_number = Len(files)
    BY <1>1, <1>2 DEF AtEnd, end
  <2>2. ASSUME NEW t \in Positions \cup skipped PROVE t.path \in Under(sc.fname)
    <3>1. PICK j \in 1 .. Len(files) : t.path = files[j]
      BY <1>1, <1>2, <2>1 DEF Behind
    <3>2. QED BY <1>2, <3>1, FilesListed, ElementOfSeq
  <2>3. ASSUME NEW f \in Under(sc.fname) PROVE [path |-> f, offset |-> 0] \in Positions \cup skipped \cup sc.seen
    <3>1. PICK j \in 1 .. Len(files) : files[j] = f
      BY <1>2, FilesListed
    <3>2. QED BY <1>2, <2>1, <3>1 DEF InWhole, NothingLeft, Seen
  <2>4. QED BY <1>1, <1>2, <2>2, <2>3 DEF EverythingOnce
<1>3. CASE kind # "dir"
  <2>1. it.raw_offset = image_size
    BY <1>1, <1>3 DEF AtEnd, end
  <2>2. \A b \in 0 .. image_size - 1 : ByteSeen(b)
    BY <1>3, <2>1 DEF InWhole, NothingLeft
  <2>3. QED BY <1>1, <1>3, <2>2 DEF EverythingOnce, ByteSeen
<1>4. QED BY <1>2, <1>3

\* Whatever the image, its size, the page size, the sample that is drawn, the pages that
\* cannot be read and those seen in an earlier run: when the reader ends it has taken every
\* byte or every file once, or has looked at each block of the sample; the digest is of
\* the bytes that were scanned, in their order; and it dies only on a block that does not
\* exist, or on a directory that is to be read from an offset.
THEOREM ReadsAsAsked == ReaderSpec => []ReadAsAsked
<1>1. WalkInv => ReadAsAsked
  <2> SUFFICES ASSUME WalkInv PROVE ReadAsAsked
    OBVIOUS
  <2> USE DEF WalkInv
  <2>1. CASE reader_pc = "done"
    <3>1. EverythingOnce
      BY <2>1, WholeDone
    <3>2. SampleTaken
      BY <2>1 DEF SampleTaken, InSample, Looked, Seen, TypeInv, BlocksInRange
    <3>3. hashdigest # {} => Adjoining(taken) /\ hashdigest = {EndOf(taken)}
      BY DEF Hashed
    <3>4. QED BY <2>1, <3>1, <3>2, <3>3 DEF ReadAsAsked
  <2>2. CASE reader_pc = "crash"
    BY <2>2 DEF Died, ReadAsAsked
  <2>3. CASE reader_pc \notin {"done", "crash"}
    BY <2>3 DEF ReadAsAsked
  <2>4. QED BY <2>1, <2>2, <2>3
<1>2. QED BY <1>1, WalkInit, WalkNext, PTL DEF ReaderSpec

===============================================================================
