---------------------------- MODULE DecodeProofs ----------------------------
(***************************************************************************)
(* The scanners that decode: for every medium, any page, margin and depth, *)
(* and any scanners in any order, nothing is decoded twice at one place    *)
(* but what the margins of two pages share.  And the Exif scanner: for     *)
(* every picture, no two JPEGs carved in a page overlap.                   *)
(***************************************************************************)
EXTENDS DecodeScan, ExifScan, SequenceTheorems, WellFoundedInduction, TLAPS

-----------------------------------------------------------------------------
(* Numbers, recursion and sequences *)

\* A set of naturals has a least element.
LEMMA LeastNatural ==
  ASSUME NEW T \in SUBSET Nat, T # {}
  PROVE  \E x \in T : \A y \in T : x <= y
<1> DEFINE Less == OpToRel(<, Nat)
<1>1. \A x, y \in Nat : x < y => <<x, y>> \in Less
  BY DEF OpToRel
<1>2. IsWellFoundedOn(Less, Nat)
  BY NatLessThanWellFounded
<1> HIDE DEF Less
<1>3. PICK x \in T : \A y \in T : <<y, x>> \notin Less
  BY <1>2, WFMin
<1>4. \A y \in T : ~(y < x)
  BY <1>1, <1>3
<1>5. \A y \in T : x <= y
  BY <1>4
<1>6. QED BY <1>5

\* What is true of 0, and of n + 1 if of n, is true of each natural number.
LEMMA Steps ==
  ASSUME NEW T \in SUBSET Nat, 0 \in T, \A n \in T : n + 1 \in T
  PROVE  T = Nat
<1> SUFFICES ASSUME Nat \ T # {} PROVE FALSE
  OBVIOUS
<1>1. PICK x \in Nat \ T : \A y \in Nat \ T : x <= y
  BY LeastNatural
<1>2. x # 0 /\ x - 1 \in Nat /\ x - 1 \notin Nat \ T
  BY <1>1
<1>3. QED BY <1>1, <1>2

\* A definition that takes the value at a place from those at places of a lower rank has
\* a solution.
Ranks(D, N) == [D -> 0 .. N - 1]
Rules(D, S, rank) ==
  {B \in [D -> [[D -> S] -> S]] :
     \A d \in D : \A g, h \in [D -> S] : (\A e \in D : rank[e] < rank[d] => g[e] = h[e]) => B[d][g] = B[d][h]}
Solutions(D, S, B) == {f \in [D -> S] : \A d \in D : f[d] = B[d][f]}

LEMMA Ranked ==
  \A D, S : \A s \in S : \A N \in Nat : \A rank \in Ranks(D, N) : \A B \in Rules(D, S, rank) : Solutions(D, S, B) # {}
<1> SUFFICES ASSUME NEW D, NEW S, NEW s \in S, NEW N \in Nat, NEW rank \in Ranks(D, N), NEW B \in Rules(D, S, rank)
             PROVE  \E f \in [D -> S] : \A d \in D : f[d] = B[d][f]
  BY DEF Solutions
<1>0. /\ \A d \in D : rank[d] \in Nat /\ rank[d] < N
      /\ B \in [D -> [[D -> S] -> S]]
      /\ \A d \in D : \A g, h \in [D -> S] : (\A e \in D : rank[e] < rank[d] => g[e] = h[e]) => B[d][g] = B[d][h]
  <2>1. \A d \in D : rank[d] \in Nat /\ rank[d] < N
    BY DEF Ranks
  <2>2. QED BY <2>1 DEF Rules
<1> DEFINE Solved(f, n) == \A d \in D : rank[d] < n => f[d] = B[d][f]
           T == {n \in Nat : \E f \in [D -> S] : Solved(f, n)}
<1>1. 0 \in T
  <2>1. [d \in D |-> s] \in [D -> S] /\ \A d \in D : ~(rank[d] < 0)
    BY <1>0
  <2>2. QED BY <2>1
<1>2. ASSUME NEW n \in T PROVE n + 1 \in T
  <2>1. PICK f \in [D -> S] : Solved(f, n)
    OBVIOUS
  <2> DEFINE g == [d \in D |-> IF rank[d] = n THEN B[d][f] ELSE f[d]]
  <2>2. g \in [D -> S]
    BY <1>0
  <2>3. ASSUME NEW d \in D, rank[d] < n + 1 PROVE g[d] = B[d][g]
    <3>0. rank[d] \in Nat /\ n \in Nat /\ (rank[d] < n \/ rank[d] = n)
      <4>1. rank[d] \in Nat
        BY <1>0
      <4>2. n \in Nat
        OBVIOUS
      <4> HIDE DEF T
      <4>3. QED BY <2>3, <4>1, <4>2
    <3>1. \A e \in D : rank[e] < rank[d] => g[e] = f[e]
      BY <1>0, <3>0
    <3>2. B[d][g] = B[d][f]
      BY <1>0, <2>2, <3>1
    <3>3. g[d] = B[d][f]
      <4>1. CASE rank[d] = n
        BY <4>1
      <4>2. CASE rank[d] # n
        <5>1. f[d] = B[d][f]
          BY <2>1, <3>0, <4>2
        <5>2. QED BY <4>2, <5>1
      <4>3. QED BY <4>1, <4>2
    <3>4. QED BY <3>2, <3>3
  <2>4. Solved(g, n + 1)
    BY <2>3
  <2> HIDE DEF g
  <2>5. \E h \in [D -> S] : Solved(h, n + 1)
    BY <2>2, <2>4
  <2>6. n + 1 \in Nat
    OBVIOUS
  <2>7. QED BY <2>5, <2>6
<1> HIDE DEF T
<1>3. T \in SUBSET Nat
  BY DEF T
<1>4. N \in T
  BY <1>1, <1>2, <1>3, Steps
<1>5. PICK f \in [D -> S] : \A d \in D : rank[d] < N => f[d] = B[d][f]
  BY <1>4 DEF T
<1>6. QED BY <1>0, <1>5

\* The pieces of a flattened sequence, one after the other.
LEMMA FlattenIs ==
  ASSUME NEW E, NEW seqs \in Seq(Seq(E)), Len(seqs) # 0
  PROVE  \E f \in [1 .. Len(seqs) -> Seq(E)] :
           /\ FlattenSeq(seqs) = f[Len(seqs)] /\ f[1] = seqs[1]
           /\ \A i \in 2 .. Len(seqs) : f[i] = f[i - 1] \o seqs[i]
<1> DEFINE flatten[i \in 1 .. Len(seqs)] == IF i = 1 THEN seqs[i] ELSE flatten[i - 1] \o seqs[i]
           D == 1 .. Len(seqs)
           rank == [i \in D |-> i]
           B == [i \in D |-> [g \in [D -> Seq(E)] |-> IF i = 1 THEN seqs[i] ELSE g[i - 1] \o seqs[i]]]
<1>0. Len(seqs) \in Nat /\ \A i \in D : seqs[i] \in Seq(E)
  OBVIOUS
<1>1. FlattenSeq(seqs) = flatten[Len(seqs)]
  BY DEF FlattenSeq
<1>2. ASSUME NEW i \in D, NEW g \in [D -> Seq(E)] PROVE (IF i = 1 THEN seqs[i] ELSE g[i - 1] \o seqs[i]) \in Seq(E)
  <2>1. CASE i = 1
    BY <1>0, <2>1
  <2>2. CASE i # 1
    <3>1. i - 1 \in D
      BY <1>0, <2>2
    <3>2. g[i - 1] \in Seq(E) /\ seqs[i] \in Seq(E)
      BY <1>0, <3>1
    <3>3. QED BY <2>2, <3>2
  <2>3. QED BY <2>1, <2>2
<1>3. B \in [D -> [[D -> Seq(E)] -> Seq(E)]]
  BY <1>2
<1>4. \A i \in D : \A g, h \in [D -> Seq(E)] : (\A e \in D : rank[e] < rank[i] => g[e] = h[e]) => B[i][g] = B[i][h]
  <2> SUFFICES ASSUME NEW i \in D, NEW g \in [D -> Seq(E)], NEW h \in [D -> Seq(E)], \A e \in D : rank[e] < rank[i] => g[e] = h[e]
               PROVE  B[i][g] = B[i][h]
    OBVIOUS
  <2>1. i # 1 => i - 1 \in D /\ g[i - 1] = h[i - 1]
    BY <1>0
  <2>2. QED BY <2>1
<1>5. rank \in Ranks(D, Len(seqs) + 1) /\ Len(seqs) + 1 \in Nat
  BY <1>0 DEF Ranks
<1> DEFINE F == Seq(E)
<1>6. <<>> \in F /\ B \in Rules(D, F, rank)
  <2> HIDE DEF D, B, rank
  <2>1. B \in Rules(D, F, rank)
    BY <1>3, <1>4 DEF Rules
  <2>2. QED BY <2>1
<1>7. Solutions(D, F, B) # {}
  <2> HIDE DEF D, B, rank, F
  <2>1. QED BY <1>5, <1>6, Ranked
<1>8. PICK f \in [D -> F] : \A d \in D : f[d] = B[d][f]
  BY <1>7 DEF Solutions
<1>9. f = [i \in 1 .. Len(seqs) |-> IF i = 1 THEN seqs[i] ELSE f[i - 1] \o seqs[i]]
  BY <1>8
<1>10. flatten = [i \in 1 .. Len(seqs) |-> IF i = 1 THEN seqs[i] ELSE flatten[i - 1] \o seqs[i]]
  BY <1>9, Zenon
<1> HIDE DEF flatten, B, rank
<1> DEFINE P == {n \in Nat : n + 1 \in D => flatten[n + 1] \in Seq(E)}
<1>11. P = Nat
  <2>1. 0 \in P
    <3>1. 1 \in D => flatten[1] = seqs[1]
      BY <1>10
    <3>2. QED BY <1>0, <3>1
  <2>2. ASSUME NEW n \in P PROVE n + 1 \in P
    <3>1. SUFFICES ASSUME n + 2 \in D PROVE flatten[n + 2] \in Seq(E)
      OBVIOUS
    <3>2. n + 1 \in D /\ n + 2 # 1 /\ (n + 2) - 1 = n + 1
      BY <1>0, <3>1
    <3>3. flatten[n + 2] = flatten[n + 1] \o seqs[n + 2]
      BY <1>10, <3>1, <3>2
    <3>4. flatten[n + 1] \in Seq(E) /\ seqs[n + 2] \in Seq(E)
      BY <1>0, <3>1, <3>2
    <3>5. QED BY <3>3, <3>4
  <2> HIDE DEF P
  <2>3. P \in SUBSET Nat
    BY DEF P
  <2>4. QED BY <2>1, <2>2, <2>3, Steps
<1>12. \A i \in D : flatten[i] \in Seq(E)
  <2> SUFFICES ASSUME NEW i \in D PROVE flatten[i] \in Seq(E)
    OBVIOUS
  <2>1. i - 1 \in Nat /\ (i - 1) + 1 = i
    BY <1>0
  <2>2. i - 1 \in P
    BY <1>11, <2>1
  <2>3. (i - 1) + 1 \in D => flatten[(i - 1) + 1] \in Seq(E)
    BY <2>2
  <2>4. QED BY <2>1, <2>3
<1>13. flatten \in [1 .. Len(seqs) -> Seq(E)]
  BY <1>10, <1>12
<1>14. flatten[1] = seqs[1] /\ \A i \in 2 .. Len(seqs) : flatten[i] = flatten[i - 1] \o seqs[i]
  <2>1. 1 \in D /\ \A i \in 2 .. Len(seqs) : i \in D /\ i # 1
    BY <1>0
  <2>2. \A i \in D : flatten[i] = IF i = 1 THEN seqs[i] ELSE flatten[i - 1] \o seqs[i]
    BY <1>10
  <2>3. QED BY <2>1, <2>2
<1>15. QED BY <1>1, <1>13, <1>14

LEMMA Flattened ==
  ASSUME NEW E, NEW seqs \in Seq(Seq(E))
  PROVE  FlattenSeq(seqs) \in Seq(E)
<1>1. CASE Len(seqs) = 0
  <2>1. FlattenSeq(seqs) = seqs /\ seqs = <<>>
    BY <1>1 DEF FlattenSeq
  <2>2. QED BY <2>1
<1>2. CASE Len(seqs) # 0
  <2>1. Len(seqs) \in 1 .. Len(seqs)
    BY <1>2
  <2>2. PICK f \in [1 .. Len(seqs) -> Seq(E)] : FlattenSeq(seqs) = f[Len(seqs)]
    BY <1>2, FlattenIs
  <2>3. QED BY <2>1, <2>2
<1>3. QED BY <1>1, <1>2

\* A sequence that has of the first n elements some, each once and in their order, those
\* that are a piece of their own.
PickedFrom(flat, all, seqs, n) ==
  \E f \in [1 .. Len(flat) -> 1 .. n] :
    /\ \A a, b \in 1 .. Len(flat) : a < b => f[a] < f[b]
    /\ \A a \in 1 .. Len(flat) : flat[a] = all[f[a]] /\ seqs[f[a]] = <<all[f[a]]>>

LEMMA PickNone ==
  ASSUME NEW E, NEW all \in Seq(E), NEW seqs \in Seq(Seq(E)), NEW n \in Nat, NEW flat \in Seq(E),
         PickedFrom(flat, all, seqs, n) \/ flat = <<>>
  PROVE  PickedFrom(flat, all, seqs, n + 1)
<1>1. CASE flat = <<>>
  <2>1. Len(flat) = 0 /\ 1 .. Len(flat) = {}
    BY <1>1
  <2>2. [a \in {} |-> 1] \in [1 .. Len(flat) -> 1 .. n + 1]
    BY <2>1
  <2>3. QED BY <2>1, <2>2 DEF PickedFrom
<1>2. CASE PickedFrom(flat, all, seqs, n)
  <2>1. PICK f \in [1 .. Len(flat) -> 1 .. n] :
             /\ \A a, b \in 1 .. Len(flat) : a < b => f[a] < f[b]
             /\ \A a \in 1 .. Len(flat) : flat[a] = all[f[a]] /\ seqs[f[a]] = <<all[f[a]]>>
    BY <1>2 DEF PickedFrom
  <2>2. f \in [1 .. Len(flat) -> 1 .. n + 1]
    OBVIOUS
  <2>3. QED BY <2>1, <2>2 DEF PickedFrom
<1>3. QED BY <1>1, <1>2

LEMMA PickOne ==
  ASSUME NEW E, NEW all \in Seq(E), NEW seqs \in Seq(Seq(E)), NEW n \in Nat, NEW flat \in Seq(E),
         PickedFrom(flat, all, seqs, n) \/ flat = <<>>, n + 1 \in 1 .. Len(all), seqs[n + 1] = <<all[n + 1]>>
  PROVE  PickedFrom(flat \o <<all[n + 1]>>, all, seqs, n + 1)
<1> DEFINE x == all[n + 1]
           new == flat \o <<x>>
<1>1. x \in E /\ Len(flat) \in Nat
  OBVIOUS
<1>2. Len(new) = Len(flat) + 1 /\ (\A a \in 1 .. Len(flat) : new[a] = flat[a]) /\ new[Len(flat) + 1] = x
  BY <1>1
<1>3. PICK f \in [1 .. Len(flat) -> 1 .. n] :
           /\ \A a, b \in 1 .. Len(flat) : a < b => f[a] < f[b]
           /\ \A a \in 1 .. Len(flat) : flat[a] = all[f[a]] /\ seqs[f[a]] = <<all[f[a]]>>
  <2>1. CASE flat = <<>>
    <3>1. 1 .. Len(flat) = {}
      BY <2>1
    <3>2. [a \in {} |-> 1] \in [1 .. Len(flat) -> 1 .. n]
      BY <3>1
    <3>3. QED BY <3>1, <3>2
  <2>2. CASE PickedFrom(flat, all, seqs, n)
    BY <2>2 DEF PickedFrom
  <2>3. QED BY <2>1, <2>2
<1> DEFINE h == [a \in 1 .. Len(flat) + 1 |-> IF a = Len(flat) + 1 THEN n + 1 ELSE f[a]]
<1>4. h \in [1 .. Len(flat) + 1 -> 1 .. n + 1]
  <2>1. \A a \in 1 .. Len(flat) + 1 : a # Len(flat) + 1 => a \in 1 .. Len(flat)
    BY <1>1
  <2>2. QED BY <2>1
<1>5. \A a \in 1 .. Len(flat) : h[a] = f[a] /\ f[a] \in 1 .. n
  <2>1. \A a \in 1 .. Len(flat) : a \in 1 .. Len(flat) + 1 /\ a # Len(flat) + 1
    BY <1>1
  <2>2. QED BY <1>3, <2>1
<1>6. h[Len(flat) + 1] = n + 1
  BY <1>1
<1> HIDE DEF h, new, x
<1>7. ASSUME NEW a \in 1 .. Len(flat) + 1, NEW b \in 1 .. Len(flat) + 1, a < b PROVE h[a] < h[b]
  <2>1. a \in 1 .. Len(flat)
    BY <1>1, <1>7
  <2>2. CASE b = Len(flat) + 1
    BY <1>5, <1>6, <2>1, <2>2
  <2>3. CASE b # Len(flat) + 1
    <3>1. b \in 1 .. Len(flat)
      BY <1>1, <2>3
    <3>2. QED BY <1>3, <1>5, <1>7, <2>1, <3>1
  <2>4. QED BY <2>2, <2>3
<1>8. ASSUME NEW a \in 1 .. Len(flat) + 1 PROVE new[a] = all[h[a]] /\ seqs[h[a]] = <<all[h[a]]>>
  <2>1. CASE a = Len(flat) + 1
    BY <1>2, <1>6, <2>1 DEF x
  <2>2. CASE a # Len(flat) + 1
    <3>1. a \in 1 .. Len(flat)
      BY <1>1, <2>2
    <3>2. QED BY <1>2, <1>3, <1>5, <3>1
  <2>3. QED BY <2>1, <2>2
<1>9. PickedFrom(new, all, seqs, n + 1)
  <2>1. h \in [1 .. Len(new) -> 1 .. n + 1]
    BY <1>2, <1>4
  <2>2. QED BY <1>2, <1>7, <1>8, <2>1 DEF PickedFrom
<1>10. QED BY <1>9 DEF new, x

\* What is left of a sequence of which some elements are dropped.
LEMMA Picked ==
  ASSUME NEW E, NEW all \in Seq(E), NEW seqs \in Seq(Seq(E)), Len(seqs) = Len(all),
         \A i \in 1 .. Len(all) : seqs[i] \in {<<>>, <<all[i]>>}
  PROVE  PickedFrom(FlattenSeq(seqs), all, seqs, Len(all)) \/ FlattenSeq(seqs) = <<>>
<1>0. Len(all) \in Nat
  OBVIOUS
<1>1. CASE Len(seqs) = 0
  BY <1>1 DEF FlattenSeq
<1>2. CASE Len(seqs) # 0
  <2>1. PICK g \in [1 .. Len(seqs) -> Seq(E)] :
             /\ FlattenSeq(seqs) = g[Len(seqs)] /\ g[1] = seqs[1]
             /\ \A i \in 2 .. Len(seqs) : g[i] = g[i - 1] \o seqs[i]
    BY <1>2, FlattenIs
  <2> DEFINE Holds(n) == PickedFrom(g[n], all, seqs, n) \/ g[n] = <<>>
             P == {n \in Nat : n + 1 <= Len(all) => Holds(n + 1)}
  <2>2. ASSUME NEW n \in Nat, NEW flat \in Seq(E), n + 1 <= Len(all), g[n + 1] = flat \o seqs[n + 1],
               PickedFrom(flat, all, seqs, n) \/ flat = <<>>
        PROVE  Holds(n + 1)
    <3>1. n + 1 \in 1 .. Len(all) /\ n + 1 \in 1 .. Len(seqs)
      BY <1>0, <2>2
    <3>2. CASE seqs[n + 1] = <<>>
      <4>1. flat \o <<>> = flat
        OBVIOUS
      <4>2. g[n + 1] = flat
        BY <2>2, <3>2, <4>1
      <4>3. QED BY <2>2, <4>2, PickNone
    <3>3. CASE seqs[n + 1] = <<all[n + 1]>>
      <4>1. g[n + 1] = flat \o <<all[n + 1]>>
        BY <2>2, <3>3
      <4>2. QED BY <2>2, <3>1, <3>3, <4>1, PickOne
    <3>4. QED BY <3>1, <3>2, <3>3
  <2> HIDE DEF Holds
  <2>3. 0 \in P
    <3>1. SUFFICES ASSUME 1 <= Len(all) PROVE Holds(1)
      OBVIOUS
    <3>2. <<>> \in Seq(E) /\ seqs[1] \in Seq(E)
      BY <1>2
    <3>3. g[0 + 1] = <<>> \o seqs[0 + 1]
      BY <2>1, <3>2
    <3>4. Holds(0 + 1)
      <4>1. 0 + 1 <= Len(all) /\ 0 \in Nat
        BY <3>1
      <4>2. PickedFrom(<<>>, all, seqs, 0) \/ <<>> = <<>>
        OBVIOUS
      <4>3. QED BY ONLY <2>2, <3>2, <3>3, <4>1, <4>2, Zenon
    <3>5. QED BY <3>4
  <2>4. ASSUME NEW n \in P PROVE n + 1 \in P
    <3>0. n \in Nat
      OBVIOUS
    <3>1. SUFFICES ASSUME n + 2 <= Len(all) PROVE Holds(n + 2)
      <4>1. (n + 1) + 1 = n + 2 /\ n + 1 \in Nat
        BY <3>0
      <4>2. QED BY <3>1, <4>1
    <3>2. n + 2 \in 2 .. Len(seqs) /\ n + 1 \in 1 .. Len(seqs) /\ (n + 2) - 1 = n + 1 /\ (n + 1) + 1 = n + 2 /\ n + 1 \in Nat
          /\ n + 1 <= Len(all)
      BY <1>0, <3>0, <3>1
    <3>3. g[(n + 1) + 1] = g[n + 1] \o seqs[(n + 1) + 1] /\ g[n + 1] \in Seq(E)
      BY <2>1, <3>2
    <3>4. PickedFrom(g[n + 1], all, seqs, n + 1) \/ g[n + 1] = <<>>
      BY <3>2 DEF Holds
    <3>5. Holds((n + 1) + 1)
      BY <2>2, <3>1, <3>2, <3>3, <3>4
    <3>6. QED BY <3>2, <3>5
  <2> HIDE DEF P
  <2>5. P = Nat
    <3>1. P \in SUBSET Nat
      BY DEF P
    <3>2. QED BY <2>3, <2>4, <3>1, Steps
  <2>6. Len(all) - 1 \in P /\ (Len(all) - 1) + 1 = Len(all)
    BY <1>0, <1>2, <2>5
  <2>7. Holds(Len(all))
    BY <1>0, <2>6 DEF P
  <2>8. QED BY <2>1, <2>7 DEF Holds
<1>3. QED BY <1>1, <1>2

-----------------------------------------------------------------------------
(* The decoders *)

\* The cells of an sbuf: those of the medium, masked or not, and characters of a text.  There
\* is such a set for the cells of any medium: what masking makes of them and of the two
\* characters, again and again.
CellsOK(C) ==
  /\ \A c \in C : /\ c.is = "zip" => c.head \in Nat /\ c.size \in Nat
                  /\ c.is = "xpress" => c.size \in Nat
                  /\ c.is = "masked" => c.cell \in C
  /\ \A c \in C : \A by \in {"xor", "ofe"} : [is |-> "masked", by |-> by, cell |-> c] \in C
  /\ Char(" ") \in C /\ Char("newline") \in C
MediumIn(C) == CellsOK(C) /\ medium.cells \in Seq(C)
MediumCells == CHOOSE C : MediumIn(C)

DecodingScanners == {"zip", "gzip", "hiberfile", "pdf", "msxml", "xor", "outlook"}
NoDuplicates(s) == \A a, b \in DOMAIN s : s[a] = s[b] => a = b
IsMedium ==
  /\ \E C : MediumIn(C)
  /\ medium.pagesize \in Nat \ {0} /\ medium.margin \in Nat
  /\ medium.enabled \in Seq(DecodingScanners) /\ NoDuplicates(medium.enabled)

DecodeSpec == DecodeInit /\ IsMedium /\ [][DecodeStep]_decode_vars

\* The parts of a forensic path, and the scanner that adds them.
ScannerOf(by) ==
  CASE by = "ZIP" -> "zip" [] by = "GZIP" -> "gzip" [] by = "HIBERFILE" -> "hiberfile" [] by = "PDF" -> "pdf"
    [] by = "MSXML" -> "msxml" [] by = "XOR(255)" -> "xor" [] by = "OUTLOOK" -> "outlook"
PartNames == {"ZIP", "GZIP", "HIBERFILE", "PDF", "MSXML", "XOR(255)", "OUTLOOK"}
Parts == [by : PartNames, at : Nat]
Sbufs == [path : Seq(Parts), base : Nat, left : Seq(DecodingScanners), pos : Nat,
          cells : Seq(MediumCells), pagesize : Nat]
DecodedTexts == [path : Seq(Parts), text : Seq(MediumCells)]

\* Some go through the sbuf hit by hit; others take it at once.  Two search the margin.
ByHit == {"zip", "gzip", "hiberfile"}
IntoMargin == {"PDF", "HIBERFILE"}
WholeSbuf == {"XOR(255)", "OUTLOOK"}

DecodeTyped ==
  /\ IsMedium /\ next_page \in Nat /\ todo \in Seq(Sbufs) /\ decoded \in Seq(DecodedTexts)
  /\ todo # <<>> => next_page >= 1
  /\ \A t \in DOMAIN todo :
       /\ todo[t].pagesize <= Len(todo[t].cells) /\ Len(todo[t].path) <= max_depth
       /\ NoDuplicates(todo[t].left)
       /\ todo[t].pos # 0 => todo[t].left # <<>> /\ todo[t].left[1] \in ByHit
  /\ \A i \in DOMAIN decoded : decoded[i].path # <<>>

\* What is decoded in page n has a path that begins there, or in the margin of the page.
OfPage(path, n) ==
  LET start == n * medium.pagesize IN
  /\ start <= path[1].at /\ path[1].at < start + medium.pagesize + medium.margin
  /\ path[1].by \notin IntoMargin => path[1].at < start + medium.pagesize
  /\ path[1].by \in WholeSbuf =>
       /\ path[1].at = start
       /\ Len(path) >= 2 =>
            /\ path[2].at < medium.pagesize + medium.margin
            /\ path[1].by # "OUTLOOK" /\ path[2].by \notin IntoMargin => path[2].at < medium.pagesize
ThisPage(path) == OfPage(path, next_page - 1)

\* An sbuf is a page, or what was decoded in it.
Fits(t) ==
  /\ t.path = <<>> => /\ t.base = (next_page - 1) * medium.pagesize
                      /\ t.pagesize <= medium.pagesize /\ Len(t.cells) <= medium.pagesize + medium.margin
  /\ t.path # <<>> => t.base = 0 /\ ThisPage(t.path)
  /\ Len(t.path) = 1 /\ t.path[1].by \in WholeSbuf =>
       /\ Len(t.cells) <= medium.pagesize + medium.margin
       /\ t.path[1].by # "OUTLOOK" => t.pagesize <= medium.pagesize

\* Scanners of an sbuf have still to come to this place.
NotYet(t, part) ==
  \E a \in DOMAIN t.left : t.left[a] = ScannerOf(part.by) /\ (a = 1 => part.at >= t.base + t.pos)
Inside(p, q) == Len(q) < Len(p) /\ \A m \in 1 .. Len(q) : p[m] = q[m]
\* Whatever is still to be decoded has another path, and is not around this one.
Behind(p) == \A t \in DOMAIN todo : Inside(p, todo[t].path) => ~NotYet(todo[t], p[Len(todo[t].path) + 1])

Stacked ==
  /\ \A t \in DOMAIN todo : \A s \in {todo[t]} : \A p \in {s.path} : Fits(s) /\ (p # <<>> => Behind(p))
  /\ \A t, u \in DOMAIN todo : t # u => todo[t].path # todo[u].path
Older(p) == \E n \in Nat : n + 2 <= next_page /\ OfPage(p, n)
Settled == \A i \in DOMAIN decoded : \A p \in {decoded[i].path} : Older(p) \/ (next_page >= 1 /\ ThisPage(p) /\ Behind(p))

DecodeInv == DecodeTyped /\ Stacked /\ Settled /\ DecodedOnce

-----------------------------------------------------------------------------
(* Two paths of one origin *)

LEMMA OriginIs ==
  ASSUME NEW p \in Seq(Parts), p # <<>>
  PROVE  /\ Origin(p) \in Seq(Parts) /\ Len(Origin(p)) = Len(p)
         /\ \A m \in 1 .. Len(p) : Origin(p)[m].by = p[m].by
         /\ \A m \in 3 .. Len(p) : Origin(p)[m] = p[m]
         /\ ~(Len(p) >= 2 /\ p[1].by \in WholeSbuf) => Origin(p) = p
         /\ Len(p) >= 2 /\ p[1].by \in WholeSbuf => Origin(p)[1].at = 0 /\ Origin(p)[2].at = p[2].at + p[1].at
<1>1. CASE ~(Len(p) >= 2 /\ p[1].by \in WholeSbuf)
  BY <1>1 DEF Origin, WholeSbuf
<1>2. CASE Len(p) >= 2 /\ p[1].by \in WholeSbuf
  <2>0. Len(p) = 2 \/ 3 <= Len(p)
    <3>1. \A n \in Nat : n >= 2 => n = 2 \/ 3 <= n
      OBVIOUS
    <3>2. Len(p) \in Nat
      BY LenProperties
    <3>3. QED BY <1>2, <3>1, <3>2
  <2> DEFINE a == [p[1] EXCEPT !.at = 0]
             b == [p[2] EXCEPT !.at = @ + p[1].at]
             rest == SubSeq(p, 3, Len(p))
             first == <<a>>
             second == <<b>>
  <2>1. Origin(p) = (first \o second) \o rest
    BY <1>2 DEF Origin, WholeSbuf
  <2>2. Len(p) \in Nat /\ p[1] \in Parts /\ p[2] \in Parts
    BY <1>2
  <2>3. a \in Parts /\ a.by = p[1].by /\ a.at = 0
    BY <2>2 DEF Parts
  <2>4. b \in Parts /\ b.by = p[2].by /\ b.at = p[2].at + p[1].at
    BY <2>2 DEF Parts
  <2>5. rest \in Seq(Parts) /\ Len(rest) = Len(p) - 2 /\ \A m \in 1 .. Len(rest) : rest[m] = p[m + 2]
    <3>1. 3 \in Int /\ Len(p) \in Int /\ \A i \in 3 .. Len(p) : p[i] \in Parts
      BY <2>2
    <3>2. /\ rest \in Seq(Parts) /\ Len(rest) = IF 3 <= Len(p) THEN Len(p) - 3 + 1 ELSE 0
          /\ \A i \in 1 .. Len(p) - 3 + 1 : rest[i] = p[3 + i - 1]
      BY <3>1, SubSeqProperties
    <3> HIDE DEF rest
    <3>3. Len(rest) = Len(p) - 2 /\ Len(p) - 3 + 1 = Len(p) - 2
      <4>1. CASE Len(p) = 2
        BY <3>2, <4>1
      <4>2. CASE 3 <= Len(p)
        BY <2>2, <3>2, <4>2
      <4>3. QED BY <2>0, <4>1, <4>2
    <3>4. \A m \in 1 .. Len(p) - 2 : 3 + m - 1 = m + 2
      BY <2>2
    <3>5. \A m \in 1 .. Len(p) - 2 : rest[m] = p[m + 2]
      BY <3>2, <3>3, <3>4
    <3>6. QED BY <3>2, <3>3, <3>5
  <2> HIDE DEF a, b, rest
  <2>6. first \o second \in Seq(Parts) /\ Len(first \o second) = 2 /\ (first \o second)[1] = a /\ (first \o second)[2] = b
    BY <2>3, <2>4
  <2> HIDE DEF first, second
  <2>7. /\ Origin(p) \in Seq(Parts) /\ Len(Origin(p)) = Len(p) /\ Origin(p)[1] = a /\ Origin(p)[2] = b
        /\ \A m \in 3 .. Len(p) : Origin(p)[m] = rest[m - 2]
    BY <1>2, <2>1, <2>2, <2>5, <2>6, SMTT(60)
  <2>8. \A m \in 3 .. Len(p) : Origin(p)[m] = p[m]
    BY <2>2, <2>5, <2>7
  <2>9. \A m \in 1 .. Len(p) : Origin(p)[m].by = p[m].by
    <3>1. \A m \in 1 .. Len(p) : m = 1 \/ m = 2 \/ m \in 3 .. Len(p)
      BY <2>2
    <3>2. QED BY <2>3, <2>4, <2>7, <2>8, <3>1
  <2>10. QED BY <1>2, <2>3, <2>4, <2>7, <2>8, <2>9
<1>3. QED BY <1>1, <1>2

LEMMA SamePart == ASSUME NEW a \in Parts, NEW b \in Parts, a.by = b.by, a.at = b.at PROVE a = b
BY DEF Parts

\* In one page nothing is found at one place twice, by paths that differ.
LEMMA SamePage ==
  ASSUME IsMedium, NEW n \in Nat, NEW p \in Seq(Parts), NEW q \in Seq(Parts), p # <<>>, q # <<>>,
         OfPage(p, n), OfPage(q, n), Origin(p) = Origin(q)
  PROVE  p = q
<1>1. /\ Len(p) = Len(q) /\ Len(p) \in Nat \ {0}
      /\ \A m \in 1 .. Len(p) : p[m].by = q[m].by
      /\ \A m \in 3 .. Len(p) : p[m] = q[m]
  BY OriginIs
<1>2. CASE ~(Len(p) >= 2 /\ p[1].by \in WholeSbuf)
  <2>1. p[1].by = q[1].by
    BY <1>1
  <2>2. Origin(p) = p /\ Origin(q) = q
    BY <1>1, <1>2, <2>1, OriginIs
  <2>3. QED BY <2>2
<1>3. CASE Len(p) >= 2 /\ p[1].by \in WholeSbuf
  <2>1. p[1] \in Parts /\ q[1] \in Parts /\ p[2] \in Parts /\ q[2] \in Parts /\ p[1].by = q[1].by /\ p[2].by = q[2].by
    BY <1>1, <1>3
  <2>2. p[1].at = q[1].at
    BY <1>3, <2>1 DEF OfPage
  <2>3. p[2].at + p[1].at = q[2].at + q[1].at
    <3>1. Origin(p)[2].at = p[2].at + p[1].at
      BY <1>3, OriginIs
    <3>2. Origin(q)[2].at = q[2].at + q[1].at
      BY <1>1, <1>3, <2>1, OriginIs
    <3>3. QED BY <3>1, <3>2
  <2>4. p[1].at \in Nat /\ q[1].at \in Nat /\ p[2].at \in Nat /\ q[2].at \in Nat
    BY <2>1 DEF Parts
  <2>5. p[2].at = q[2].at
    BY <2>2, <2>3, <2>4
  <2>6. p[1] = q[1] /\ p[2] = q[2]
    BY <2>1, <2>2, <2>5, SamePart
  <2>7. \A m \in 1 .. Len(p) : p[m] = q[m]
    <3>1. \A m \in 1 .. Len(p) : m = 1 \/ m = 2 \/ m \in 3 .. Len(p)
      BY <1>1
    <3>2. QED BY <1>1, <2>6, <3>1
  <2>8. QED BY <1>1, <2>7, SeqEqual
<1>4. QED BY <1>2, <1>3

\* The pages of an image lie one behind the other.
LEMMA PagesApart ==
  ASSUME NEW P \in Nat, NEW n \in Nat, NEW m \in Nat, n < m
  PROVE  n * P \in Nat /\ m * P \in Nat /\ n * P + P <= m * P
<1>1. PICK d \in Nat : m = n + 1 + d
  <2>1. m - n - 1 \in Nat /\ m = n + 1 + (m - n - 1)
    OBVIOUS
  <2>2. QED BY <2>1
<1>2. m * P = n * P + P + d * P
  BY <1>1
<1>3. n * P \in Nat /\ d * P \in Nat
  OBVIOUS
<1>4. QED BY <1>2, <1>3

\* A place in the margin of page n is one of the first places of a page.
LEMMA MarginIsFirst ==
  ASSUME NEW P \in Nat \ {0}, NEW n \in Nat, NEW M \in Nat, NEW x \in Nat, n * P + P <= x, x < n * P + P + M
  PROVE  x % P < M
<1> DEFINE d == x \div P
           r == x % P
<1>1. x = P * d + r /\ r \in Nat /\ r < P /\ d \in Nat
  OBVIOUS
<1> HIDE DEF d, r
<1>2. SUFFICES ASSUME M <= r PROVE FALSE
  BY <1>1 DEF r
<1>3. n < d
  <2>1. SUFFICES ASSUME d <= n PROVE FALSE
    BY <1>1
  <2>2. CASE d = n
    BY <1>1, <2>2
  <2>3. CASE d < n
    <3>1. d * P + P <= n * P /\ n * P \in Nat /\ d * P \in Nat
      BY <1>1, <2>3, PagesApart
    <3>2. d * P = P * d
      BY <1>1
    <3>3. QED BY <1>1, <3>1, <3>2
  <2>4. QED BY <1>1, <2>1, <2>2, <2>3
<1>4. n * P + P <= d * P /\ n * P \in Nat /\ d * P \in Nat
  BY <1>1, <1>3, PagesApart
<1>5. d * P = P * d
  BY <1>1
<1>6. QED BY <1>1, <1>2, <1>4, <1>5

\* One place behind the starts a and b of two pages.
LEMMA Behindhand ==
  ASSUME NEW a \in Nat, NEW b \in Nat, NEW P \in Nat, NEW M \in Nat, NEW x \in Nat, NEW z \in Nat, NEW y,
         y = x + a, y = z + b, a + P <= b, x < P + M
  PROVE  a + P <= y /\ y < a + P + M /\ P <= y /\ ~(x < P)
OBVIOUS

\* What two pages both have is in the margin of the first, where few scanners look.
Shared(path) ==
  LET part == IF path[1].by \in {"XOR(255)", "OUTLOOK"} THEN path[2] ELSE path[1] IN
  /\ \E m \in DOMAIN path : path[m].by \in {"PDF", "HIBERFILE", "OUTLOOK"}
  /\ part.at >= medium.pagesize /\ part.at % medium.pagesize < medium.margin

LEMMA TwoPages ==
  ASSUME IsMedium, NEW n \in Nat, NEW m \in Nat, n < m, NEW p \in Seq(Parts), NEW q \in Seq(Parts), p # <<>>, q # <<>>,
         OfPage(p, n), OfPage(q, m), Origin(p) = Origin(q)
  PROVE  Shared(Origin(p))
<1> DEFINE P == medium.pagesize
           M == medium.margin
<1>0. P \in Nat \ {0} /\ M \in Nat
  BY DEF IsMedium
<1>1. n * P \in Nat /\ m * P \in Nat /\ n * P + P <= m * P
  BY <1>0, PagesApart
<1>2. /\ Len(p) = Len(q) /\ Len(p) \in Nat \ {0} /\ Len(Origin(p)) = Len(p)
      /\ Origin(p) \in Seq(Parts)
      /\ \A k \in 1 .. Len(p) : p[k].by = q[k].by /\ Origin(p)[k].by = p[k].by
  BY OriginIs
<1>3. /\ p[1] \in Parts /\ q[1] \in Parts /\ p[1].by = q[1].by /\ p[1].at \in Nat /\ q[1].at \in Nat
      /\ 1 \in DOMAIN Origin(p) /\ Origin(p)[1].by = p[1].by
  <2>1. p[1] \in Parts /\ q[1] \in Parts
    BY <1>2
  <2>2. p[1].at \in Nat /\ q[1].at \in Nat
    BY <2>1 DEF Parts
  <2>3. QED BY <1>2, <2>1, <2>2
<1>4. /\ n * P <= p[1].at /\ p[1].at < n * P + P + M /\ (p[1].by \notin IntoMargin => p[1].at < n * P + P)
      /\ m * P <= q[1].at
  BY DEF OfPage
<1>5. CASE ~(Len(p) >= 2 /\ p[1].by \in WholeSbuf)
  <2>1. Origin(p) = p /\ Origin(q) = q
    BY <1>2, <1>3, <1>5, OriginIs
  <2>2. p[1].at = q[1].at
    BY <2>1
  <2>3. n * P + P <= p[1].at /\ P <= p[1].at /\ p[1].by \in IntoMargin
    <3> DEFINE a == n * P
               b == m * P
    <3>1. /\ a \in Nat /\ b \in Nat /\ a + P <= b /\ b <= p[1].at /\ p[1].at \in Nat
          /\ p[1].by \notin IntoMargin => p[1].at < a + P
      BY <1>1, <1>3, <1>4, <2>2
    <3>2. P \in Nat
      BY <1>0
    <3> HIDE DEF a, b, P
    <3>3. a + P <= p[1].at /\ P <= p[1].at /\ p[1].by \in IntoMargin
      BY ONLY <3>1, <3>2
    <3>4. QED BY <3>3 DEF a
  <2>4. p[1].at % P < M
    BY <1>0, <1>3, <1>4, <2>3, MarginIsFirst
  <2>5. QED BY <1>3, <2>1, <2>3, <2>4 DEF Shared, IntoMargin
<1>6. CASE Len(p) >= 2 /\ p[1].by \in WholeSbuf
  <2>1. /\ p[2] \in Parts /\ q[2] \in Parts /\ p[2].at \in Nat /\ q[2].at \in Nat /\ p[1].at = n * P /\ q[1].at = m * P
        /\ 2 \in DOMAIN Origin(p) /\ Origin(p)[2].by = p[2].by
    <3>1. p[2] \in Parts /\ q[2] \in Parts /\ 2 \in DOMAIN Origin(p) /\ Origin(p)[2].by = p[2].by
      BY <1>2, <1>6
    <3>2. p[1].at = n * P /\ q[1].at = m * P
      BY <1>3, <1>6 DEF OfPage
    <3>3. QED BY <3>1, <3>2 DEF Parts
  <2>2. Origin(p)[2].at = p[2].at + n * P /\ Origin(p)[2].at = q[2].at + m * P
    <3>1. Origin(p)[2].at = p[2].at + p[1].at
      BY <1>6, OriginIs
    <3>2. Origin(q)[2].at = q[2].at + q[1].at
      BY <1>2, <1>3, <1>6, OriginIs
    <3>3. QED BY <2>1, <3>1, <3>2
  <2>3. /\ p[2].at < P + M
        /\ p[1].by # "OUTLOOK" /\ p[2].by \notin IntoMargin => p[2].at < P
    BY <1>6 DEF OfPage
  <2> DEFINE y == Origin(p)[2].at
  <2>4. y \in Nat /\ y = p[2].at + n * P /\ y = q[2].at + m * P
    BY <1>1, <2>1, <2>2, SMTT(30)
  <2> HIDE DEF y, P, M
  <2>5. n * P + P <= y /\ y < n * P + P + M /\ P <= y /\ ~(p[2].at < P)
    <3> DEFINE a == n * P
               b == m * P
    <3>1. a \in Nat /\ b \in Nat /\ a + P <= b /\ y = p[2].at + a /\ y = q[2].at + b
      BY <1>1, <2>4
    <3>2. p[2].at < P + M
      BY <2>3 DEF P, M
    <3> HIDE DEF a, b
    <3>3. a + P <= y /\ y < a + P + M /\ P <= y /\ ~(p[2].at < P)
      <4>1. p[2].at \in Nat /\ q[2].at \in Nat /\ P \in Nat /\ M \in Nat
        BY <1>0, <2>1
      <4>2. ASSUME NEW x \in Nat, NEW z \in Nat, y = x + a, y = z + b, x < P + M
            PROVE  a + P <= y /\ y < a + P + M /\ P <= y /\ ~(x < P)
        <5>1. a \in Nat /\ b \in Nat /\ P \in Nat /\ M \in Nat /\ a + P <= b
          BY ONLY <3>1, <4>1
        <5>2. QED BY ONLY <4>2, <5>1, Behindhand
      <4>3. QED BY ONLY <3>1, <3>2, <4>1, <4>2, ZenonT(30)
    <3>4. QED BY <3>3 DEF a
  <2>6. y % P < M
    BY <1>0, <2>4, <2>5, MarginIsFirst
  <2>7. p[1].by = "OUTLOOK" \/ p[2].by \in IntoMargin
    BY <2>3, <2>5 DEF P
  <2>8. Origin(p)[1].by \in {"XOR(255)", "OUTLOOK"}
    BY <1>3, <1>6 DEF WholeSbuf
  <2>9. \E k \in DOMAIN Origin(p) : Origin(p)[k].by \in {"PDF", "HIBERFILE", "OUTLOOK"}
    BY <1>3, <2>1, <2>7 DEF IntoMargin
  <2>10. QED BY <2>5, <2>6, <2>8, <2>9 DEF Shared, y, P, M
<1>7. QED BY <1>5, <1>6

-----------------------------------------------------------------------------
(* What a step hands over *)

\* A child that the scanner of the top found at i.
GoodChild(c, name, i) ==
  /\ c \in Sbufs /\ i \in Nat
  /\ c.path = Append(Top.path, [by |-> name, at |-> Top.base + i])
  /\ c.base = 0 /\ c.pos = 0 /\ c.left = medium.enabled /\ c.pagesize <= Len(c.cells)
  /\ Top.pos <= i /\ (i = 0 \/ i < Len(Top.cells))
  /\ name \notin IntoMargin => i = 0 \/ i < Top.pagesize
  /\ name \in WholeSbuf => i = 0 /\ Len(c.cells) = Len(Top.cells)
  /\ name = "XOR(255)" => c.pagesize = Top.pagesize

\* The scanner hands over these children, found at different places, and goes on at k.
Goes(k) == k = Done \/ (k \in Nat /\ Top.pos <= k /\ Top.left[1] \in ByHit)
Handed(children, name, hit, k) ==
  /\ todo # <<>> /\ Top.left # <<>> /\ name \in PartNames /\ ScannerOf(name) = Top.left[1] /\ Goes(k)
  /\ children \in Seq(Sbufs) /\ (children # <<>> => Len(Top.path) < max_depth)
  /\ hit \in [DOMAIN children -> Nat]
  /\ \A c \in DOMAIN children : GoodChild(children[c], name, hit[c]) /\ (k = Done \/ hit[c] < k)
  /\ \A c, d \in DOMAIN children : c # d => hit[c] # hit[d]
  /\ todo' = children \o <<After(k)>> \o Tail(todo)
  /\ decoded' = decoded \o [c \in DOMAIN children |-> [path |-> children[c].path, text |-> children[c].cells]]
  /\ UNCHANGED <<medium, next_page>>

LEMMA TopIs ==
  ASSUME DecodeTyped, todo # <<>>
  PROVE  /\ Top \in Sbufs /\ Top = todo[1] /\ Len(todo) \in Nat /\ Len(todo) >= 1 /\ DOMAIN todo = 1 .. Len(todo)
         /\ Top.path \in Seq(Parts) /\ Top.base \in Nat /\ Top.left \in Seq(DecodingScanners) /\ Top.pos \in Nat
         /\ Top.cells \in Seq(MediumCells) /\ Top.pagesize \in Nat /\ Top.pagesize <= Len(Top.cells)
         /\ Len(Top.path) \in Nat /\ Len(Top.path) <= max_depth /\ NoDuplicates(Top.left)
         /\ Top.pos # 0 => Top.left # <<>> /\ Top.left[1] \in ByHit
<1>1. todo \in Seq(Sbufs)
  BY DEF DecodeTyped
<1>2. Top = todo[1] /\ Len(todo) \in Nat /\ Len(todo) >= 1 /\ DOMAIN todo = 1 .. Len(todo)
  BY <1>1 DEF Top
<1>3. 1 \in DOMAIN todo /\ Top \in Sbufs
  BY <1>1, <1>2
<1>4. /\ Top.path \in Seq(Parts) /\ Top.base \in Nat /\ Top.left \in Seq(DecodingScanners) /\ Top.pos \in Nat
      /\ Top.cells \in Seq(MediumCells) /\ Top.pagesize \in Nat
  BY <1>3 DEF Sbufs
<1>5. QED BY <1>2, <1>3, <1>4 DEF DecodeTyped

LEMMA AfterIs ==
  ASSUME DecodeTyped, todo # <<>>, Top.left # <<>>, NEW k, Goes(k)
  PROVE  /\ After(k) \in Sbufs
         /\ After(k).path = Top.path /\ After(k).base = Top.base /\ After(k).cells = Top.cells /\ After(k).pagesize = Top.pagesize
         /\ k = Done => After(k).left = Tail(Top.left) /\ After(k).pos = 0
         /\ k # Done => After(k).left = Top.left /\ After(k).pos = k /\ k \in Nat /\ Top.pos <= k
         /\ NoDuplicates(After(k).left)
         /\ After(k).pos # 0 => After(k).left # <<>> /\ After(k).left[1] \in ByHit
<1>1. Top \in Sbufs /\ Top.left \in Seq(DecodingScanners) /\ NoDuplicates(Top.left)
  BY TopIs
<1>2. CASE k = Done
  <2>1. After(k) = [Top EXCEPT !.left = Tail(@), !.pos = 0]
    BY <1>2 DEF After, Done
  <2>2. Tail(Top.left) \in Seq(DecodingScanners)
    BY <1>1
  <2>3. NoDuplicates(Tail(Top.left))
    <3>1. \A a \in DOMAIN Tail(Top.left) : a + 1 \in DOMAIN Top.left /\ Tail(Top.left)[a] = Top.left[a + 1] /\ a \in Nat
      BY <1>1
    <3> HIDE DEF Top
    <3>2. \A a, b \in DOMAIN Tail(Top.left) : Tail(Top.left)[a] = Tail(Top.left)[b] => a + 1 = b + 1
      BY <1>1, <3>1 DEF NoDuplicates
    <3>3. QED BY <3>1, <3>2 DEF NoDuplicates
  <2>4. /\ After(k) \in Sbufs /\ After(k).path = Top.path /\ After(k).base = Top.base /\ After(k).cells = Top.cells
        /\ After(k).pagesize = Top.pagesize /\ After(k).left = Tail(Top.left) /\ After(k).pos = 0
    <3>1. [Top EXCEPT !.left = Tail(Top.left), !.pos = 0] \in Sbufs
      BY <1>1, <2>2 DEF Sbufs
    <3>2. QED BY <1>1, <2>1, <3>1 DEF Sbufs
  <2>5. NoDuplicates(After(k).left)
    BY <2>3, <2>4
  <2> HIDE DEF Top
  <2>6. QED BY <1>2, <2>4, <2>5
<1>3. CASE k # Done
  <2>1. k \in Nat /\ Top.pos <= k /\ Top.left[1] \in ByHit
    BY <1>3 DEF Goes
  <2>2. After(k) = [Top EXCEPT !.pos = k]
    BY <2>1 DEF After
  <2>3. QED BY <1>1, <1>3, <2>1, <2>2 DEF Sbufs
<1>4. QED BY <1>2, <1>3

\* Where the sbufs of the new stack come from.
LEMMA NewStackIs ==
  ASSUME DecodeTyped, NEW children, NEW name, NEW hit, NEW k, Handed(children, name, hit, k)
  PROVE  /\ todo' \in Seq(Sbufs) /\ todo' # <<>>
         /\ \A t \in DOMAIN todo' :
              \/ t \in DOMAIN children /\ todo'[t] = children[t]
              \/ t = Len(children) + 1 /\ todo'[t] = After(k)
              \/ /\ t - Len(children) \in DOMAIN todo /\ t - Len(children) # 1
                 /\ todo'[t] = todo[t - Len(children)]
<1>1. todo \in Seq(Sbufs) /\ children \in Seq(Sbufs) /\ After(k) \in Sbufs /\ todo # <<>>
      /\ todo' = children \o <<After(k)>> \o Tail(todo)
  BY AfterIs DEF Handed, DecodeTyped
<1> DEFINE x == After(k)
           one == <<x>>
           rest == Tail(todo)
           up == children \o one
<1>2. /\ rest \in Seq(Sbufs) /\ Len(rest) = Len(todo) - 1 /\ Len(todo) \in Nat /\ Len(children) \in Nat
      /\ \A u \in 1 .. Len(rest) : rest[u] = todo[u + 1]
  BY <1>1
<1>3. x \in Sbufs
  BY <1>1
<1> HIDE DEF x, rest
<1>4. /\ up \in Seq(Sbufs) /\ Len(up) = Len(children) + 1 /\ up[Len(children) + 1] = x
      /\ \A t \in 1 .. Len(children) : up[t] = children[t]
  BY <1>1, <1>2, <1>3
<1>5. todo' = up \o rest
  BY <1>1 DEF x, rest
<1> HIDE DEF up, one
<1>6. /\ todo' \in Seq(Sbufs) /\ Len(todo') = Len(up) + Len(rest)
      /\ \A t \in 1 .. Len(up) : todo'[t] = up[t]
      /\ \A t \in Len(up) + 1 .. Len(up) + Len(rest) : todo'[t] = rest[t - Len(up)]
  <2>1. /\ up \o rest \in Seq(Sbufs) /\ Len(up \o rest) = Len(up) + Len(rest)
        /\ \A i \in 1 .. Len(up) + Len(rest) : (up \o rest)[i] = IF i <= Len(up) THEN up[i] ELSE rest[i - Len(up)]
    BY <1>2, <1>4, ConcatProperties
  <2>2. Len(up) \in Nat /\ Len(rest) \in Nat
    BY <1>2, <1>4
  <2>3. \A i \in Nat : /\ i \in 1 .. Len(up) => i <= Len(up) /\ i \in 1 .. Len(up) + Len(rest)
                      /\ i \in Len(up) + 1 .. Len(up) + Len(rest) => ~(i <= Len(up)) /\ i \in 1 .. Len(up) + Len(rest)
    BY <2>2
  <2>4. (\A i \in 1 .. Len(up) : i \in Nat) /\ \A i \in Len(up) + 1 .. Len(up) + Len(rest) : i \in Nat
    BY <2>2
  <2>5. QED BY ONLY <1>5, <2>1, <2>3, <2>4
<1>7. ASSUME NEW t \in DOMAIN todo'
      PROVE  \/ t \in DOMAIN children /\ todo'[t] = children[t]
             \/ t = Len(children) + 1 /\ todo'[t] = x
             \/ /\ t - Len(children) \in DOMAIN todo /\ t - Len(children) # 1
                /\ todo'[t] = todo[t - Len(children)]
  <2>1. t \in 1 .. Len(todo')
    BY <1>6
  <2>2. CASE t \in 1 .. Len(children)
    BY <1>1, <1>2, <1>4, <1>6, <2>2
  <2>3. CASE t = Len(children) + 1
    BY <1>2, <1>4, <1>6, <2>3
  <2>4. CASE t \in Len(up) + 1 .. Len(up) + Len(rest)
    <3>0. Len(up) \in Nat /\ Len(rest) \in Nat
      BY <1>2, <1>4
    <3>1. todo'[t] = rest[t - Len(up)] /\ t - Len(up) \in 1 .. Len(rest)
      <4>1. todo'[t] = rest[t - Len(up)]
        BY ONLY <1>6, <2>4
      <4>2. t - Len(up) \in 1 .. Len(rest)
        BY ONLY <3>0, <2>4
      <4>3. QED BY ONLY <4>1, <4>2
    <3>2. rest[t - Len(up)] = todo[(t - Len(up)) + 1]
      BY <1>2, <3>1
    <3>3. (t - Len(up)) + 1 = t - Len(children) /\ t - Len(children) \in 2 .. Len(todo)
      BY <1>2, <1>4, <2>4
    <3>4. DOMAIN todo = 1 .. Len(todo)
      BY <1>1
    <3>5. QED BY <1>2, <3>1, <3>2, <3>3, <3>4
  <2>5. QED BY <1>2, <1>4, <1>6, <2>1, <2>2, <2>3, <2>4
<1>8. todo' # <<>>
  <2>1. Len(todo') # 0
    BY <1>2, <1>4, <1>6
  <2>2. QED BY <2>1
<1>9. QED BY <1>6, <1>7, <1>8 DEF x

LEMMA TailIs ==
  ASSUME NEW S, NEW s \in Seq(S), s # <<>>, NEW a \in DOMAIN Tail(s)
  PROVE  a \in Nat \ {0} /\ a + 1 \in DOMAIN s /\ Tail(s)[a] = s[a + 1] /\ a + 1 # 1
OBVIOUS

LEMMA PathOfChild ==
  ASSUME DecodeTyped, todo # <<>>, NEW name \in PartNames, NEW i, NEW c, GoodChild(c, name, i)
  PROVE  /\ c.path \in Seq(Parts) /\ Len(c.path) = Len(Top.path) + 1 /\ c.path # <<>>
         /\ \A m \in 1 .. Len(Top.path) : c.path[m] = Top.path[m]
         /\ c.path[Len(Top.path) + 1] = [by |-> name, at |-> Top.base + i]
         /\ [by |-> name, at |-> Top.base + i] \in Parts /\ i \in Nat
<1>1. Top.path \in Seq(Parts) /\ Top.base \in Nat
  BY TopIs
<1>2. i \in Nat /\ c.path = Append(Top.path, [by |-> name, at |-> Top.base + i])
  BY DEF GoodChild
<1>3. [by |-> name, at |-> Top.base + i] \in Parts
  BY <1>1, <1>2 DEF Parts
<1> DEFINE part == [by |-> name, at |-> Top.base + i]
<1>4. part \in Parts /\ c.path = Append(Top.path, part)
  BY <1>2, <1>3
<1> HIDE DEF part, Top
<1>5. /\ c.path \in Seq(Parts) /\ Len(c.path) = Len(Top.path) + 1 /\ c.path # <<>>
      /\ \A m \in 1 .. Len(Top.path) : c.path[m] = Top.path[m]
      /\ c.path[Len(Top.path) + 1] = part
  BY <1>1, <1>4, AppendProperties
<1>6. QED BY <1>2, <1>3, <1>5 DEF part

LEMMA ChildPath ==
  ASSUME DecodeTyped, todo # <<>>
  PROVE  \A name \in PartNames : \A i, c :
           GoodChild(c, name, i) =>
             /\ c.path \in Seq(Parts) /\ Len(c.path) = Len(Top.path) + 1 /\ c.path # <<>>
             /\ \A m \in 1 .. Len(Top.path) : c.path[m] = Top.path[m]
             /\ c.path[Len(Top.path) + 1] = [by |-> name, at |-> Top.base + i]
             /\ [by |-> name, at |-> Top.base + i] \in Parts /\ i \in Nat
<1> HIDE DEF Top
<1>1. ASSUME NEW name \in PartNames, NEW i, NEW c, GoodChild(c, name, i)
      PROVE  /\ c.path \in Seq(Parts) /\ Len(c.path) = Len(Top.path) + 1 /\ c.path # <<>>
             /\ \A m \in 1 .. Len(Top.path) : c.path[m] = Top.path[m]
             /\ c.path[Len(Top.path) + 1] = [by |-> name, at |-> Top.base + i]
             /\ [by |-> name, at |-> Top.base + i] \in Parts /\ i \in Nat
  BY <1>1, PathOfChild
<1>2. QED BY <1>1

LEMMA HandedPath ==
  ASSUME DecodeTyped, NEW children, NEW name, NEW hit, NEW k, Handed(children, name, hit, k), NEW c \in DOMAIN children
  PROVE  /\ children[c].path \in Seq(Parts) /\ Len(children[c].path) = Len(Top.path) + 1 /\ children[c].path # <<>>
         /\ children[c].path[Len(Top.path) + 1] = [by |-> name, at |-> Top.base + hit[c]] /\ hit[c] \in Nat
         /\ \A m \in 1 .. Len(Top.path) : children[c].path[m] = Top.path[m]
         /\ [by |-> name, at |-> Top.base + hit[c]] \in Parts
<1>1. todo # <<>> /\ name \in PartNames /\ GoodChild(children[c], name, hit[c]) /\ hit[c] \in Nat
  BY DEF Handed
<1>2. QED BY <1>1, ChildPath

\* A place the scanner of the top has not come to.
LEMMA NotYetAtTop ==
  ASSUME DecodeTyped, todo # <<>>, Top.left # <<>>, NEW name \in PartNames, ScannerOf(name) = Top.left[1],
         NEW i \in Nat, Top.pos <= i
  PROVE  NotYet(Top, [by |-> name, at |-> Top.base + i])
<1>1. Top.left \in Seq(DecodingScanners) /\ Top.base \in Nat /\ Top.pos \in Nat
  BY TopIs
<1> HIDE DEF Top
<1>2. 1 \in DOMAIN Top.left /\ Top.base + i >= Top.base + Top.pos
  BY <1>1
<1>3. QED BY <1>2 DEF NotYet

\* The scanners come to nothing again.
LEMMA NotYetBefore ==
  ASSUME DecodeTyped, todo # <<>>, Top.left # <<>>, NEW k, Goes(k), NEW part \in Parts, NotYet(After(k), part)
  PROVE  NotYet(Top, part)
<1>1. /\ Top.left \in Seq(DecodingScanners) /\ Top.base \in Nat /\ Top.pos \in Nat
      /\ After(k).base = Top.base
      /\ k = Done => After(k).left = Tail(Top.left) /\ After(k).pos = 0
      /\ k # Done => After(k).left = Top.left /\ After(k).pos = k /\ k \in Nat /\ Top.pos <= k
  BY TopIs, AfterIs
<1>2. PICK a \in DOMAIN After(k).left : After(k).left[a] = ScannerOf(part.by) /\ (a = 1 => part.at >= After(k).base + After(k).pos)
  BY DEF NotYet
<1>3. part.at \in Nat
  BY DEF Parts
<1> HIDE DEF Top, After
<1>4. CASE k = Done
  <2>1. a + 1 \in DOMAIN Top.left /\ Top.left[a + 1] = Tail(Top.left)[a] /\ a + 1 # 1
    <3>1. a \in DOMAIN Tail(Top.left)
      BY ONLY <1>1, <1>2, <1>4
    <3>2. QED BY <1>1, <3>1, TailIs
  <2>2. QED BY <1>1, <1>2, <1>4, <2>1 DEF NotYet
<1>5. CASE k # Done
  <2>1. a = 1 => part.at >= Top.base + Top.pos
    BY <1>1, <1>2, <1>3, <1>5
  <2>2. QED BY <1>1, <1>2, <1>5, <2>1 DEF NotYet
<1>6. QED BY <1>4, <1>5

\* It is behind what it has handed over.
LEMMA DoneAfter ==
  ASSUME DecodeTyped, todo # <<>>, Top.left # <<>>, NEW k, Goes(k), NEW name \in PartNames, ScannerOf(name) = Top.left[1],
         NEW i \in Nat, k = Done \/ i < k
  PROVE  ~NotYet(After(k), [by |-> name, at |-> Top.base + i])
<1>1. /\ Top.left \in Seq(DecodingScanners) /\ Top.base \in Nat /\ NoDuplicates(Top.left)
      /\ After(k).base = Top.base
      /\ k = Done => After(k).left = Tail(Top.left) /\ After(k).pos = 0
      /\ k # Done => After(k).left = Top.left /\ After(k).pos = k /\ k \in Nat
  BY TopIs, AfterIs
<1> HIDE DEF Top, After
<1>2. SUFFICES ASSUME NEW a \in DOMAIN After(k).left, After(k).left[a] = Top.left[1],
                      a = 1 => Top.base + i >= After(k).base + After(k).pos
               PROVE  FALSE
  BY DEF NotYet
<1>3. 1 \in DOMAIN Top.left
  BY <1>1
<1>4. CASE k = Done
  <2>1. a + 1 \in DOMAIN Top.left /\ Top.left[a + 1] = Top.left[1] /\ a + 1 # 1
    <3>1. After(k).left = Tail(Top.left)
      BY ONLY <1>1, <1>4
    <3>2. a \in DOMAIN Tail(Top.left) /\ Tail(Top.left)[a] = Top.left[1]
      BY ONLY <1>2, <3>1
    <3>3. a + 1 \in DOMAIN Top.left /\ Tail(Top.left)[a] = Top.left[a + 1] /\ a + 1 # 1
      BY <1>1, <3>2, TailIs
    <3>4. QED BY ONLY <3>2, <3>3
  <2>2. QED BY <1>1, <1>3, <2>1 DEF NoDuplicates
<1>5. CASE k # Done
  <2>1. a = 1
    BY <1>1, <1>2, <1>3, <1>5 DEF NoDuplicates
  <2>2. QED BY <1>1, <1>2, <1>5, <2>1
<1>6. QED BY <1>4, <1>5

\* What was behind stays behind.
LEMMA BehindKept ==
  ASSUME DecodeTyped, NEW children, NEW name, NEW hit, NEW k, Handed(children, name, hit, k), NEW p \in Seq(Parts), Behind(p)
  PROVE  Behind(p)'
<1>a. \A c \in DOMAIN children :
        /\ Len(children[c].path) = Len(Top.path) + 1
        /\ \A m \in 1 .. Len(Top.path) : children[c].path[m] = Top.path[m]
        /\ children[c].path[Len(Top.path) + 1] = [by |-> name, at |-> Top.base + hit[c]] /\ hit[c] \in Nat
  BY HandedPath, SMTT(30)
<1> USE DEF Handed
<1>1. SUFFICES ASSUME NEW t \in DOMAIN todo', Inside(p, todo'[t].path) PROVE ~NotYet(todo'[t], p[Len(todo'[t].path) + 1])
  BY DEF Behind, Inside, NotYet
<1>0. 1 \in DOMAIN todo /\ todo[1] = Top /\ Top.path \in Seq(Parts) /\ Len(Top.path) \in Nat
  BY TopIs
<1>2. CASE t \in DOMAIN children /\ todo'[t] = children[t]
  <2>1. /\ Len(children[t].path) = Len(Top.path) + 1
        /\ \A m \in 1 .. Len(Top.path) : children[t].path[m] = Top.path[m]
        /\ children[t].path[Len(Top.path) + 1] = [by |-> name, at |-> Top.base + hit[t]] /\ hit[t] \in Nat
    BY ONLY <1>a, <1>2
  <2> HIDE DEF Top
  <2>2. /\ Len(Top.path) < Len(p) /\ \A m \in 1 .. Len(Top.path) : p[m] = Top.path[m]
        /\ p[Len(Top.path) + 1] = [by |-> name, at |-> Top.base + hit[t]]
    <3>1. Len(Top.path) + 1 < Len(p) /\ \A m \in 1 .. Len(Top.path) + 1 : p[m] = children[t].path[m]
      BY <1>1, <1>2, <2>1, SMTT(30) DEF Inside
    <3>2. Len(Top.path) + 1 \in 1 .. Len(Top.path) + 1 /\ \A m \in 1 .. Len(Top.path) : m \in 1 .. Len(Top.path) + 1
      BY <1>0
    <3>3. Len(Top.path) < Len(p)
      <4>1. Len(p) \in Nat
        BY LenProperties
      <4>2. QED BY <1>0, <3>1, <4>1
    <3>4. QED BY ONLY <2>1, <3>1, <3>2, <3>3
  <2>3. Inside(p, Top.path)
    BY <2>2 DEF Inside
  <2>4. Top.pos <= hit[t]
    BY <1>2 DEF GoodChild
  <2>5. NotYet(Top, [by |-> name, at |-> Top.base + hit[t]])
    BY <2>1, <2>4, NotYetAtTop
  <2>6. QED BY <1>0, <2>2, <2>3, <2>5 DEF Behind
<1>3. CASE t = Len(children) + 1 /\ todo'[t] = After(k)
  <2>1. todo'[t].path = Top.path
    BY <1>3, AfterIs
  <2>2. Len(Top.path) + 1 \in 1 .. Len(p) /\ p[Len(Top.path) + 1] \in Parts
    <3> HIDE DEF Top
    <3>1. Len(Top.path) < Len(p)
      BY <1>1, <2>1 DEF Inside
    <3>2. Len(p) \in Nat
      BY LenProperties
    <3>3. QED BY <1>0, <3>1, <3>2
  <2>3. ~NotYet(Top, p[Len(Top.path) + 1])
    BY <1>0, <1>1, <2>1 DEF Behind
  <2>4. NotYet(After(k), p[Len(Top.path) + 1]) => NotYet(Top, p[Len(Top.path) + 1])
    BY <2>2, NotYetBefore
  <2> HIDE DEF Handed, Top, After
  <2>5. QED BY <1>3, <2>1, <2>3, <2>4
<1>4. CASE t - Len(children) \in DOMAIN todo /\ t - Len(children) # 1 /\ todo'[t] = todo[t - Len(children)]
  <2>1. \A b \in DOMAIN todo : Inside(p, todo[b].path) => ~NotYet(todo[b], p[Len(todo[b].path) + 1])
    BY DEF Behind
  <2>2. PICK b \in DOMAIN todo : todo'[t] = todo[b]
    BY <1>4
  <2>3. todo'[t].path = todo[b].path
    BY <2>2
  <2>4. ~NotYet(todo[b], p[Len(todo'[t].path) + 1])
    BY <1>1, <2>1, <2>3
  <2> DEFINE u == todo'[t]
             v == todo[b]
             x == p[Len(todo'[t].path) + 1]
  <2>5. u = v /\ ~NotYet(v, x)
    BY <2>2, <2>4
  <2> HIDE DEF u, v, x
  <2>6. ~NotYet(u, x)
    BY <2>5
  <2>7. QED BY <2>6 DEF u, x
<1> HIDE DEF Handed
<1>5. QED BY <1>2, <1>3, <1>4, NewStackIs

\* The children themselves are behind: the scanner has passed them, and the sbufs below
\* are not around them.
LEMMA ChildBehind ==
  ASSUME DecodeTyped, Stacked, NEW children, NEW name, NEW hit, NEW k, Handed(children, name, hit, k), NEW c \in DOMAIN children
  PROVE  Behind(children[c].path)'
<1> DEFINE p == children[c].path
           at == [by |-> name, at |-> Top.base + hit[c]]
<1>0. /\ DecodeTyped /\ todo # <<>> /\ Top.left # <<>> /\ Goes(k) /\ name \in PartNames /\ ScannerOf(name) = Top.left[1]
      /\ \A d \in DOMAIN children : GoodChild(children[d], name, hit[d]) /\ hit[d] \in Nat
      /\ hit[c] \in Nat /\ (k = Done \/ hit[c] < k)
  BY DEF Handed
<1>1. /\ 1 \in DOMAIN todo /\ todo[1] = Top /\ Top.path \in Seq(Parts) /\ Len(Top.path) \in Nat
      /\ todo \in Seq(Sbufs)
  BY <1>0, TopIs DEF DecodeTyped
<1>2. ASSUME NEW d \in DOMAIN children PROVE Len(children[d].path) = Len(Top.path) + 1
  <2> HIDE DEF p, at
  <2>1. QED BY HandedPath
<1>3. /\ p \in Seq(Parts) /\ Len(p) = Len(Top.path) + 1 /\ p[Len(Top.path) + 1] = at
      /\ \A m \in 1 .. Len(Top.path) : p[m] = Top.path[m]
  BY <1>0, ChildPath
<1> HIDE DEF p, at, Top
<1>4. SUFFICES ASSUME NEW t \in DOMAIN todo', Inside(p, todo'[t].path) PROVE ~NotYet(todo'[t], p[Len(todo'[t].path) + 1])
  BY DEF Behind, Inside, NotYet, p
<1>5. CASE t \in DOMAIN children /\ todo'[t] = children[t]
  BY <1>1, <1>2, <1>3, <1>4, <1>5 DEF Inside
<1>6. CASE t = Len(children) + 1 /\ todo'[t] = After(k)
  <2>1. todo'[t].path = Top.path
    BY <1>0, <1>6, AfterIs
  <2>2. ~NotYet(After(k), at)
    BY <1>0, DoneAfter DEF at
  <2>3. QED BY <1>3, <1>6, <2>1, <2>2
<1>7. CASE t - Len(children) \in DOMAIN todo /\ t - Len(children) # 1 /\ todo'[t] = todo[t - Len(children)]
  <2> DEFINE b == t - Len(children)
             u == todo[b]
  <2>1. u = todo'[t] /\ b \in DOMAIN todo /\ b # 1 /\ u \in Sbufs /\ u.path \in Seq(Parts)
    <3>1. u = todo'[t] /\ b \in DOMAIN todo /\ b # 1
      BY <1>7
    <3> HIDE DEF b
    <3>2. u \in Sbufs
      BY <1>1, <3>1
    <3>3. QED BY <3>1, <3>2 DEF Sbufs
  <2> HIDE DEF b
  <2>2. u.path # Top.path
    BY <1>1, <2>1 DEF Stacked
  <2> HIDE DEF u
  <2>3. Len(u.path) \in Nat /\ Len(u.path) < Len(Top.path) + 1 /\ \A m \in 1 .. Len(u.path) : p[m] = u.path[m]
    BY <1>3, <1>4, <2>1 DEF Inside
  <2>4. \A m \in 1 .. Len(u.path) : Top.path[m] = u.path[m]
    BY <1>1, <1>3, <2>3
  <2>5. Len(u.path) # Len(Top.path)
    BY <1>1, <2>1, <2>2, <2>4, SeqEqual
  <2>6. Len(u.path) < Len(Top.path)
    BY <1>1, <2>3, <2>5
  <2>7. Inside(Top.path, u.path) /\ Top.path # <<>>
    BY <1>1, <2>3, <2>4, <2>6 DEF Inside
  <2>8. Behind(Top.path)
    BY <1>1, <2>7 DEF Stacked
  <2>9. ~NotYet(u, Top.path[Len(u.path) + 1])
    BY <2>1, <2>7, <2>8 DEF Behind, u
  <2>10. p[Len(u.path) + 1] = Top.path[Len(u.path) + 1]
    <3>1. Len(u.path) + 1 \in 1 .. Len(Top.path)
      BY <1>1, <2>3, <2>6
    <3>2. QED BY ONLY <1>3, <3>1
  <2>11. QED BY <2>1, <2>9, <2>10
<1>8. QED BY <1>5, <1>6, <1>7, NewStackIs

\* What is behind has no path of a child, nor one around it.
LEMMA ChildIsNew ==
  ASSUME DecodeTyped, NEW children, NEW name, NEW hit, NEW k, Handed(children, name, hit, k), NEW c \in DOMAIN children,
         NEW p, Behind(p)
  PROVE  p # children[c].path
<1>0. /\ todo # <<>> /\ Top.left # <<>> /\ name \in PartNames /\ ScannerOf(name) = Top.left[1]
      /\ GoodChild(children[c], name, hit[c]) /\ hit[c] \in Nat
  BY DEF Handed
<1> DEFINE q == children[c].path
           at == [by |-> name, at |-> Top.base + hit[c]]
<1>1. 1 \in DOMAIN todo /\ todo[1] = Top /\ Len(Top.path) \in Nat
  BY <1>0, TopIs
<1>2. /\ Len(q) = Len(Top.path) + 1 /\ q[Len(Top.path) + 1] = at /\ hit[c] \in Nat
      /\ \A m \in 1 .. Len(Top.path) : q[m] = Top.path[m]
  <2>1. /\ Len(children[c].path) = Len(Top.path) + 1 /\ children[c].path[Len(Top.path) + 1] = at /\ hit[c] \in Nat
        /\ \A m \in 1 .. Len(Top.path) : children[c].path[m] = Top.path[m]
    BY HandedPath
  <2>2. QED BY <2>1
<1>3. NotYet(Top, at)
  <2>1. Top.pos <= hit[c]
    BY <1>0 DEF GoodChild
  <2>2. QED BY <1>0, <1>2, <2>1, NotYetAtTop
<1> HIDE DEF q, at, Top
<1>4. Inside(q, Top.path)
  BY <1>1, <1>2 DEF Inside
<1>5. ~Behind(q)
  BY <1>1, <1>2, <1>3, <1>4 DEF Behind
<1>6. QED BY <1>5 DEF q

\* Children of one scanner have different paths.
LEMMA ChildrenApart ==
  ASSUME DecodeTyped, NEW children, NEW name, NEW hit, NEW k, Handed(children, name, hit, k),
         NEW c \in DOMAIN children, NEW d \in DOMAIN children, c # d
  PROVE  children[c].path # children[d].path
<1>1. todo # <<>> /\ name \in PartNames /\ GoodChild(children[c], name, hit[c]) /\ GoodChild(children[d], name, hit[d])
      /\ hit[c] \in Nat /\ hit[d] \in Nat /\ hit[c] # hit[d]
  BY DEF Handed
<1>2. /\ children[c].path[Len(Top.path) + 1] = [by |-> name, at |-> Top.base + hit[c]]
      /\ children[d].path[Len(Top.path) + 1] = [by |-> name, at |-> Top.base + hit[d]]
  BY <1>1, ChildPath
<1>3. Top.base \in Nat
  BY <1>1, TopIs
<1>4. Top.base + hit[c] # Top.base + hit[d]
  BY <1>1, <1>3
<1>5. [by |-> name, at |-> Top.base + hit[c]] # [by |-> name, at |-> Top.base + hit[d]]
  BY <1>4
<1>6. QED BY <1>2, <1>5

\* What was handed over is noted behind what was before.
LEMMA DecodedIs ==
  ASSUME DecodeTyped, NEW children, NEW name, NEW hit, NEW k, Handed(children, name, hit, k)
  PROVE  /\ decoded' \in Seq(DecodedTexts)
         /\ \A i \in DOMAIN decoded' :
              \/ i \in DOMAIN decoded /\ decoded'[i] = decoded[i]
              \/ \E c \in DOMAIN children : i = Len(decoded) + c /\ decoded'[i].path = children[c].path
<1> DEFINE new == [c \in DOMAIN children |-> [path |-> children[c].path, text |-> children[c].cells]]
<1>1. decoded \in Seq(DecodedTexts) /\ children \in Seq(Sbufs) /\ decoded' = decoded \o new
  BY DEF DecodeTyped, Handed
<1>2. new \in Seq(DecodedTexts) /\ Len(new) = Len(children) /\ \A c \in DOMAIN children : new[c].path = children[c].path
  <2>1. \A c \in DOMAIN children : children[c] \in Sbufs
    BY <1>1
  <2>2. \A c \in DOMAIN children : new[c] \in DecodedTexts
    BY <2>1 DEF Sbufs, DecodedTexts
  <2>3. DOMAIN new = 1 .. Len(children) /\ Len(children) \in Nat
    BY <1>1
  <2>4. new \in Seq(DecodedTexts) /\ Len(new) = Len(children)
    BY <1>1, <2>2, <2>3
  <2>5. QED BY <2>4
<1>3. DOMAIN children = 1 .. Len(children) /\ DOMAIN decoded = 1 .. Len(decoded) /\ Len(decoded) \in Nat /\ Len(children) \in Nat
  BY <1>1
<1> HIDE DEF new
<1>4. /\ decoded' \in Seq(DecodedTexts) /\ Len(decoded') = Len(decoded) + Len(children) /\ DOMAIN decoded' = 1 .. Len(decoded')
      /\ \A i \in 1 .. Len(decoded) : decoded'[i] = decoded[i]
      /\ \A c \in 1 .. Len(children) : decoded'[Len(decoded) + c] = new[c]
  <2>1. /\ decoded' \in Seq(DecodedTexts) /\ Len(decoded') = Len(decoded) + Len(new)
        /\ \A i \in 1 .. Len(decoded) + Len(new) : decoded'[i] = IF i <= Len(decoded) THEN decoded[i] ELSE new[i - Len(decoded)]
    <3>1. /\ decoded \o new \in Seq(DecodedTexts) /\ Len(decoded \o new) = Len(decoded) + Len(new)
          /\ \A i \in 1 .. Len(decoded) + Len(new) : (decoded \o new)[i] = IF i <= Len(decoded) THEN decoded[i] ELSE new[i - Len(decoded)]
      <4>1. decoded \in Seq(DecodedTexts) /\ new \in Seq(DecodedTexts)
        BY <1>1, <1>2
      <4> HIDE DEF new
      <4>2. QED BY ONLY <4>1, ConcatProperties
    <3>2. QED BY ONLY <1>1, <3>1
  <2>2. Len(decoded') = Len(decoded) + Len(children) /\ DOMAIN decoded' = 1 .. Len(decoded')
    BY <1>2, <2>1
  <2>3. \A i \in 1 .. Len(decoded) : i \in 1 .. Len(decoded) + Len(new) /\ i <= Len(decoded)
    BY <1>2, <1>3
  <2>4. \A c \in 1 .. Len(children) : /\ Len(decoded) + c \in 1 .. Len(decoded) + Len(new) /\ ~(Len(decoded) + c <= Len(decoded))
                                    /\ (Len(decoded) + c) - Len(decoded) = c
    BY <1>2, <1>3
  <2>5. QED BY ONLY <2>1, <2>2, <2>3, <2>4
<1>5. ASSUME NEW i \in DOMAIN decoded'
      PROVE  \/ i \in DOMAIN decoded /\ decoded'[i] = decoded[i]
             \/ \E c \in DOMAIN children : i = Len(decoded) + c /\ decoded'[i].path = children[c].path
  <2>1. CASE i \in 1 .. Len(decoded)
    BY <1>3, <1>4, <2>1
  <2>2. CASE i \notin 1 .. Len(decoded)
    <3>1. i - Len(decoded) \in 1 .. Len(children) /\ i = Len(decoded) + (i - Len(decoded))
      BY <1>3, <1>4, <2>2
    <3>2. decoded'[Len(decoded) + (i - Len(decoded))] = new[i - Len(decoded)]
      BY <1>4, <3>1
    <3>3. decoded'[i].path = children[i - Len(decoded)].path
      BY <1>2, <1>3, <3>1, <3>2
    <3>4. QED BY <1>3, <3>1, <3>3
  <2>3. QED BY <2>1, <2>2
<1>6. QED BY <1>4, <1>5

LEMMA HandedTyped ==
  ASSUME DecodeTyped, NEW children, NEW name, NEW hit, NEW k, Handed(children, name, hit, k)
  PROVE  DecodeTyped'
<1>1. /\ medium' = medium /\ next_page' = next_page /\ children \in Seq(Sbufs) /\ todo # <<>> /\ Top.left # <<>> /\ Goes(k)
      /\ (children # <<>> => Len(Top.path) < max_depth)
      /\ \A c \in DOMAIN children : GoodChild(children[c], name, hit[c])
  BY DEF Handed
<1>2. IsMedium' /\ Sbufs' = Sbufs /\ DecodedTexts' = DecodedTexts
  <2>1. IsMedium' /\ MediumCells' = MediumCells
    BY <1>1 DEF DecodeTyped, IsMedium, MediumIn, MediumCells
  <2>2. QED BY <2>1 DEF Sbufs, DecodedTexts
<1>3. todo' \in Seq(Sbufs)' /\ decoded' \in Seq(DecodedTexts)'
  BY <1>2, NewStackIs, DecodedIs
<1>4. NoDuplicates(medium.enabled) /\ next_page \in Nat /\ next_page >= 1
  BY <1>1 DEF DecodeTyped, IsMedium
<1>5. ASSUME NEW t \in DOMAIN todo'
      PROVE  /\ todo'[t].pagesize <= Len(todo'[t].cells) /\ Len(todo'[t].path) <= max_depth
             /\ NoDuplicates(todo'[t].left)
             /\ todo'[t].pos # 0 => todo'[t].left # <<>> /\ todo'[t].left[1] \in ByHit
  <2>1. CASE t \in DOMAIN children /\ todo'[t] = children[t]
    <3>1. Len(children[t].path) = Len(Top.path) + 1
      BY <2>1, HandedPath
    <3>2. children # <<>>
      BY <2>1
    <3>3. Len(Top.path) \in Nat /\ max_depth \in Nat /\ Len(Top.path) < max_depth
      BY <1>1, <3>2, DecodeAssumption, TopIs
    <3>4. /\ children[t].pagesize <= Len(children[t].cells) /\ children[t].pos = 0 /\ children[t].left = medium.enabled
      BY <1>1, <2>1 DEF GoodChild
    <3> HIDE DEF Top
    <3>5. Len(children[t].path) <= max_depth
      BY <3>1, <3>3
    <3>6. QED BY <1>4, <2>1, <3>4, <3>5
  <2>2. CASE t = Len(children) + 1 /\ todo'[t] = After(k)
    <3>1. Top.pagesize <= Len(Top.cells) /\ Len(Top.path) <= max_depth
      BY <1>1, TopIs
    <3>2. QED BY <1>1, <2>2, <3>1, AfterIs
  <2>3. CASE t - Len(children) \in DOMAIN todo /\ t - Len(children) # 1 /\ todo'[t] = todo[t - Len(children)]
    BY <2>3 DEF DecodeTyped
  <2>4. QED BY <2>1, <2>2, <2>3, NewStackIs
<1>6. ASSUME NEW i \in DOMAIN decoded' PROVE decoded'[i].path # <<>>
  <2>1. CASE i \in DOMAIN decoded /\ decoded'[i] = decoded[i]
    BY <2>1 DEF DecodeTyped
  <2>2. CASE \E c \in DOMAIN children : decoded'[i].path = children[c].path
    <3>1. PICK c \in DOMAIN children : decoded'[i].path = children[c].path
      BY <2>2
    <3>2. children[c].path # <<>>
      BY HandedPath
    <3>3. QED BY ONLY <3>1, <3>2
  <2>3. QED BY <2>1, <2>2, DecodedIs
<1>7. QED BY <1>1, <1>2, <1>3, <1>4, <1>5, <1>6 DEF DecodeTyped

LEMMA ChildFits ==
  ASSUME DecodeTyped, Stacked, NEW children, NEW name, NEW hit, NEW k, Handed(children, name, hit, k), NEW c \in DOMAIN children
  PROVE  Fits(children[c])
<1>a. /\ Len(children[c].path) = Len(Top.path) + 1 /\ children[c].path # <<>>
      /\ children[c].path[Len(Top.path) + 1] = [by |-> name, at |-> Top.base + hit[c]]
      /\ \A m \in 1 .. Len(Top.path) : children[c].path[m] = Top.path[m]
  <2>1. Len(children[c].path) = Len(Top.path) + 1 /\ children[c].path # <<>>
    BY HandedPath
  <2>2. children[c].path[Len(Top.path) + 1] = [by |-> name, at |-> Top.base + hit[c]]
    BY HandedPath
  <2>3. \A m \in 1 .. Len(Top.path) : children[c].path[m] = Top.path[m]
    BY HandedPath
  <2>4. QED BY ONLY <2>1, <2>2, <2>3
<1> DEFINE q == children[c].path
           at == [by |-> name, at |-> Top.base + hit[c]]
           i == hit[c]
           P == medium.pagesize
           M == medium.margin
           start == (next_page - 1) * P
           C == Len(Top.cells)
<1>0. todo # <<>> /\ GoodChild(children[c], name, i) /\ name \in PartNames
  BY DEF Handed
<1>1. 1 \in DOMAIN todo /\ Top = todo[1] /\ Len(Top.path) \in Nat /\ Top.base \in Nat /\ Top.path \in Seq(Parts)
      /\ Top.pagesize \in Nat /\ C \in Nat
  <2>1. Top.cells \in Seq(MediumCells)
    BY <1>0, TopIs
  <2>2. QED BY <1>0, <2>1, TopIs
<1>2. Fits(Top)
  BY <1>1 DEF Stacked
<1>3. /\ Len(q) = Len(Top.path) + 1 /\ q[Len(Top.path) + 1] = at /\ q # <<>>
      /\ \A m \in 1 .. Len(Top.path) : q[m] = Top.path[m]
  BY <1>a
<1>4. /\ i \in Nat /\ (i = 0 \/ i < C) /\ (name \notin IntoMargin => i = 0 \/ i < Top.pagesize)
      /\ (name \in WholeSbuf => i = 0 /\ Len(children[c].cells) = C)
      /\ (name = "XOR(255)" => children[c].pagesize = Top.pagesize) /\ children[c].base = 0
  BY <1>0 DEF GoodChild
<1>5. P \in Nat \ {0} /\ M \in Nat /\ start \in Nat
  <2>1. P \in Nat \ {0} /\ M \in Nat /\ next_page - 1 \in Nat
    BY <1>0 DEF DecodeTyped, IsMedium
  <2>2. QED BY <2>1
<1>6. at.by = name /\ at.at = Top.base + i
  OBVIOUS
<1>7. CASE Top.path = <<>>
  <2>1. Len(Top.path) = 0
    BY <1>7
  <2>2. Len(q) = 1 /\ q[1] = at
    BY <1>3, <2>1
  <2>3. Top.base = start /\ Top.pagesize <= P /\ C <= P + M
    BY <1>2, <1>7 DEF Fits
  <2> HIDE DEF at, q, i, P, M, C, start, Top
  <2>4. i < P + M /\ (name \notin IntoMargin => i < P) /\ (name \in WholeSbuf => i = 0)
    BY <1>1, <1>4, <1>5, <2>3
  <2>5. /\ start <= at.at /\ at.at < start + P + M /\ (name \notin IntoMargin => at.at < start + P)
        /\ (name \in WholeSbuf => at.at = start)
    BY <1>4, <1>5, <1>6, <2>3, <2>4
  <2>6. ThisPage(q)
    BY <1>6, <2>2, <2>5 DEF ThisPage, OfPage, P, M, start
  <2>7. name \in WholeSbuf => Len(children[c].cells) <= P + M /\ (name # "OUTLOOK" => children[c].pagesize <= P)
    BY <1>4, <2>3 DEF WholeSbuf
  <2>8. QED BY <1>3, <1>4, <1>6, <2>2, <2>6, <2>7 DEF Fits, q, P, M
<1>8. CASE Len(Top.path) = 1
  <2>1. Len(q) = 2 /\ q[1] = Top.path[1] /\ q[2] = at /\ Top.path # <<>>
    BY <1>3, <1>8
  <2>2. Top.base = 0 /\ ThisPage(Top.path)
    BY <1>2, <2>1 DEF Fits
  <2>3. q[1].by \in WholeSbuf => C <= P + M /\ (q[1].by # "OUTLOOK" => Top.pagesize <= P)
    BY <1>2, <1>8, <2>1 DEF Fits
  <2> HIDE DEF at, q, i, P, M, C, start, Top
  <2>4. at.at = i
    BY <1>4, <1>6, <2>2
  <2>5. q[1].by \in WholeSbuf =>
          /\ q[2].at < P + M
          /\ q[1].by # "OUTLOOK" /\ q[2].by \notin IntoMargin => q[2].at < P
    BY <1>1, <1>4, <1>5, <1>6, <2>1, <2>3, <2>4
  <2>6. ThisPage(q)
    BY <2>1, <2>2, <2>5 DEF ThisPage, OfPage, P, M
  <2>7. QED BY <1>3, <1>4, <2>1, <2>6 DEF Fits, q
<1>9. CASE Len(Top.path) >= 2
  <2> HIDE DEF at, q, i, P, M, C, start, Top
  <2>1. Len(q) >= 2 /\ Len(q) # 1 /\ q[1] = Top.path[1] /\ q[2] = Top.path[2] /\ Top.path # <<>>
    BY <1>1, <1>3, <1>9
  <2>2. ThisPage(Top.path)
    BY <1>2, <2>1 DEF Fits
  <2>3. ThisPage(q)
    BY <1>9, <2>1, <2>2 DEF ThisPage, OfPage
  <2>4. QED BY <1>3, <1>4, <2>1, <2>3 DEF Fits, q
<1>10. Top.path = <<>> \/ Len(Top.path) = 1 \/ Len(Top.path) >= 2
  <2>1. Len(Top.path) = 0 => Top.path = <<>>
    BY <1>1, EmptySeq
  <2>2. \A n \in Nat : n = 0 \/ n = 1 \/ n >= 2
    OBVIOUS
  <2>3. Len(Top.path) \in Nat
    BY <1>1
  <2>4. QED BY ONLY <2>1, <2>2, <2>3
<1>11. QED BY <1>7, <1>8, <1>9, <1>10

\* What only the medium decides is the same after the step.
LEMMA PageKept ==
  ASSUME medium' = medium, next_page' = next_page
  PROVE  /\ \A p, n : OfPage(p, n)' = OfPage(p, n)
         /\ \A p : ThisPage(p)' = ThisPage(p) /\ Older(p)' = Older(p) /\ Shared(p)' = Shared(p)
         /\ \A t : Fits(t)' = Fits(t)
<1>1. \A p, n : OfPage(p, n)' = OfPage(p, n)
  BY DEF OfPage
<1>2. \A p : ThisPage(p)' = ThisPage(p)
  BY DEF OfPage, ThisPage
<1>3. \A p : Older(p)' = Older(p)
  BY DEF OfPage, Older
<1>4. \A p : Shared(p)' = Shared(p)
  BY DEF Shared
<1>5. \A t : Fits(t)' = Fits(t)
  BY DEF Fits, OfPage, ThisPage
<1>6. QED BY <1>1, <1>2, <1>3, <1>4, <1>5

\* Every sbuf that is still to be scanned has a path of its own.
LEMMA PathsApart ==
  ASSUME DecodeTyped, Stacked, NEW children, NEW name, NEW hit, NEW k, Handed(children, name, hit, k),
         NEW t \in DOMAIN todo', NEW u \in DOMAIN todo', t # u, todo'[t].path = todo'[u].path
  PROVE  FALSE
<1> DEFINE n == Len(children)
           IsChild(v) == v \in DOMAIN children /\ todo'[v] = children[v]
           IsAfter(v) == v = n + 1 /\ todo'[v] = After(k)
           IsOld(v) == v - n \in DOMAIN todo /\ v - n # 1 /\ todo'[v] = todo[v - n]
<1>1. \A v \in DOMAIN todo' : IsChild(v) \/ IsAfter(v) \/ IsOld(v)
  BY NewStackIs
<1>2. todo # <<>> /\ Top.left # <<>> /\ Goes(k)
  BY DEF Handed
<1>3. 1 \in DOMAIN todo /\ Top = todo[1] /\ Len(Top.path) \in Nat /\ After(k).path = Top.path
  BY <1>2, TopIs, AfterIs
<1>4. ASSUME NEW v \in DOMAIN todo', NEW c \in DOMAIN children, IsAfter(v) \/ IsOld(v), todo'[v].path = children[c].path PROVE FALSE
  <2>1. Len(children[c].path) = Len(Top.path) + 1 /\ children[c].path # <<>>
    BY HandedPath
  <2>2. CASE IsAfter(v)
    BY <1>3, <1>4, <2>1, <2>2
  <2>3. CASE IsOld(v)
    <3>1. Behind(children[c].path)
      BY <1>4, <2>1, <2>3 DEF Stacked
    <3>2. QED BY <3>1, ChildIsNew
  <2>4. QED BY <1>4, <2>2, <2>3
<1>5. ASSUME NEW v \in DOMAIN todo', NEW w \in DOMAIN todo', IsAfter(v), IsOld(w) PROVE todo'[v].path # todo'[w].path
  BY <1>3, <1>5 DEF Stacked
<1>6. ASSUME IsOld(t), IsOld(u) PROVE FALSE
  <2> DEFINE a == t - n
             b == u - n
  <2>1. n \in Nat /\ t \in Nat /\ u \in Nat
    <3>1. children \in Seq(Sbufs)
      BY DEF Handed
    <3>2. todo' \in Seq(Sbufs)
      BY NewStackIs
    <3>3. QED BY <3>1, <3>2
  <2>2. a # b /\ a \in DOMAIN todo /\ b \in DOMAIN todo /\ todo'[t] = todo[a] /\ todo'[u] = todo[b]
    BY <1>6, <2>1
  <2> HIDE DEF a, b
  <2>3. QED BY <2>2 DEF Stacked
<1>7. ASSUME IsChild(t), IsChild(u) PROVE FALSE
  BY <1>7, ChildrenApart
<1>8. ASSUME IsAfter(t), IsAfter(u) PROVE FALSE
  BY <1>8
<1>9. IsChild(t) \/ IsAfter(t) \/ IsOld(t)
  BY <1>1
<1>10. IsChild(u) \/ IsAfter(u) \/ IsOld(u)
  BY <1>1
<1>11. ASSUME IsChild(t), IsAfter(u) \/ IsOld(u) PROVE FALSE
  BY <1>4, <1>11
<1>12. ASSUME IsChild(u), IsAfter(t) \/ IsOld(t) PROVE FALSE
  BY <1>4, <1>12
<1>13. ~(IsAfter(t) /\ IsOld(u)) /\ ~(IsAfter(u) /\ IsOld(t))
  BY <1>5
<1> HIDE DEF IsChild, IsAfter, IsOld
<1>14. QED BY ONLY <1>6, <1>7, <1>8, <1>9, <1>10, <1>11, <1>12, <1>13

LEMMA HandedStacked ==
  ASSUME DecodeTyped, Stacked, NEW children, NEW name, NEW hit, NEW k, Handed(children, name, hit, k)
  PROVE  Stacked'
<1>1. todo # <<>> /\ Top.left # <<>> /\ Goes(k) /\ medium' = medium /\ next_page' = next_page
  BY DEF Handed
<1>2. 1 \in DOMAIN todo /\ Top = todo[1] /\ Top.path \in Seq(Parts) /\ \A b \in DOMAIN todo : todo[b].path \in Seq(Parts)
  <2>1. \A b \in DOMAIN todo : todo[b] \in Sbufs
    BY DEF DecodeTyped
  <2>2. QED BY <1>1, <2>1, TopIs DEF Sbufs
<1>0. \A x : Fits(x)' = Fits(x)
  BY <1>1, PageKept
<1>3. ASSUME NEW t \in DOMAIN todo', NEW s \in {todo'[t]}, NEW q \in {s.path} PROVE Fits(s)' /\ (q # <<>> => Behind(q)')
  <2>1. CASE t \in DOMAIN children /\ todo'[t] = children[t]
    <3>1. Fits(children[t])
      BY <2>1, ChildFits
    <3>2. \A c \in DOMAIN children : Behind(children[c].path)'
      BY ChildBehind
    <3>3. q = children[t].path /\ s = children[t]
      BY <2>1
    <3>4. Behind(q)'
      BY <2>1, <3>2, <3>3
    <3>5. QED BY <1>0, <3>1, <3>3, <3>4
  <2>2. CASE t = Len(children) + 1 /\ todo'[t] = After(k)
    <3>1. After(k).path = Top.path /\ After(k).base = Top.base /\ After(k).cells = Top.cells /\ After(k).pagesize = Top.pagesize
      BY <1>1, AfterIs
    <3>2. Fits(Top) /\ (Top.path # <<>> => Behind(Top.path))
      BY <1>2 DEF Stacked
    <3>3. Fits(After(k))
      BY <3>1, <3>2 DEF Fits
    <3>4. q = Top.path /\ s = After(k) /\ q \in Seq(Parts)
      BY <1>2, <2>2, <3>1
    <3>5. q # <<>> => Behind(q)
      BY <3>2, <3>4
    <3>6. q # <<>> => Behind(q)'
      BY <3>4, <3>5, BehindKept
    <3>7. QED BY <1>0, <3>3, <3>4, <3>6
  <2>3. CASE t - Len(children) \in DOMAIN todo /\ t - Len(children) # 1 /\ todo'[t] = todo[t - Len(children)]
    <3>1. PICK b \in DOMAIN todo : todo'[t] = todo[b]
      BY <2>3
    <3>2. s = todo[b] /\ q = todo[b].path /\ q \in Seq(Parts)
      BY <1>2, <3>1
    <3>3. Fits(s) /\ (q # <<>> => Behind(q))
      BY <3>2 DEF Stacked
    <3>4. q # <<>> => Behind(q)'
      BY <3>2, <3>3, BehindKept
    <3>5. QED BY <1>0, <3>3, <3>4
  <2>4. QED BY <2>1, <2>2, <2>3, NewStackIs
<1>4. \A t, u \in DOMAIN todo' : t # u => todo'[t].path # todo'[u].path
  BY PathsApart
<1>5. QED BY <1>3, <1>4 DEF Stacked

LEMMA HandedSettled ==
  ASSUME DecodeInv, NEW children, NEW name, NEW hit, NEW k, Handed(children, name, hit, k)
  PROVE  Settled'
<1>1. medium' = medium /\ next_page' = next_page /\ todo # <<>>
  BY DEF Handed
<1>2. DecodeTyped /\ Stacked /\ Settled /\ decoded \in Seq(DecodedTexts) /\ next_page >= 1
  BY <1>1 DEF DecodeInv, DecodeTyped
<1>3. ASSUME NEW i \in DOMAIN decoded', NEW p \in {decoded'[i].path}
      PROVE  Older(p)' \/ ((next_page >= 1)' /\ ThisPage(p)' /\ Behind(p)')
  <2>1. CASE i \in DOMAIN decoded /\ decoded'[i] = decoded[i]
    <3>0. decoded[i] \in DecodedTexts
      BY <1>2, <2>1
    <3>1. p = decoded[i].path /\ p \in Seq(Parts)
      BY <2>1, <3>0 DEF DecodedTexts
    <3>2. Older(p) \/ (ThisPage(p) /\ Behind(p))
      BY <1>2, <2>1, <3>1 DEF Settled
    <3>3. Behind(p) => Behind(p)'
      BY <1>2, <3>1, BehindKept
    <3>4. Older(p)' = Older(p) /\ ThisPage(p)' = ThisPage(p)
      BY <1>1, PageKept
    <3>5. QED BY <1>1, <1>2, <3>2, <3>3, <3>4
  <2>2. CASE \E c \in DOMAIN children : decoded'[i].path = children[c].path
    <3>1. PICK c \in DOMAIN children : p = children[c].path
      BY <2>2
    <3>2. p # <<>> /\ Fits(children[c])
      BY <1>2, <3>1, HandedPath, ChildFits
    <3>3. ThisPage(p)
      BY <3>1, <3>2 DEF Fits
    <3>4. \A d \in DOMAIN children : Behind(children[d].path)'
      BY <1>2, ChildBehind
    <3>5. Behind(p)'
      BY <3>1, <3>4
    <3>6. ThisPage(p)' = ThisPage(p)
      BY <1>1, PageKept
    <3>7. QED BY <1>1, <1>2, <3>3, <3>5, <3>6
  <2>3. QED BY <1>2, <2>1, <2>2, DecodedIs
<1>4. QED BY <1>3 DEF Settled

\* A path of a child has the origin of one handed over before only if both pages share it.
LEMMA OldAndNew ==
  ASSUME DecodeInv, NEW children, NEW name, NEW hit, NEW k, Handed(children, name, hit, k),
         NEW i \in DOMAIN decoded, NEW c \in DOMAIN children, Origin(decoded[i].path) = Origin(children[c].path)
  PROVE  Shared(Origin(decoded[i].path))
<1>1. DecodeTyped /\ Stacked /\ Settled /\ decoded \in Seq(DecodedTexts) /\ todo # <<>> /\ IsMedium
      /\ next_page \in Nat /\ next_page >= 1 /\ decoded[i].path # <<>>
  BY DEF DecodeInv, DecodeTyped, Handed
<1>2. PICK p \in Seq(Parts) : p = decoded[i].path
  <2>1. decoded[i] \in DecodedTexts
    BY <1>1
  <2>2. QED BY <2>1 DEF DecodedTexts
<1>3. PICK q \in Seq(Parts) : q = children[c].path /\ q # <<>>
  <2>1. children[c].path \in Seq(Parts) /\ children[c].path # <<>>
    BY <1>1, HandedPath
  <2>2. QED BY <2>1
<1>4. ThisPage(q)
  <2>1. Fits(children[c])
    BY <1>1, ChildFits
  <2>2. QED BY <1>3, <2>1 DEF Fits
<1>5. next_page - 1 \in Nat /\ OfPage(q, next_page - 1) /\ p # <<>> /\ Origin(p) = Origin(q)
  BY <1>1, <1>2, <1>3, <1>4 DEF ThisPage
<1>6. CASE Older(p)
  <2>1. PICK n \in Nat : n + 2 <= next_page /\ OfPage(p, n)
    BY <1>6 DEF Older
  <2>2. n < next_page - 1
    BY <1>1, <2>1
  <2>3. Shared(Origin(p))
    BY <1>1, <1>3, <1>5, <2>1, <2>2, TwoPages
  <2>4. QED BY <1>2, <2>3
<1>7. CASE ThisPage(p) /\ Behind(p)
  <2>1. OfPage(p, next_page - 1)
    BY <1>7 DEF ThisPage
  <2>2. p = q
    BY <1>1, <1>3, <1>5, <2>1, SamePage
  <2>3. p # children[c].path
    BY <1>1, <1>7, ChildIsNew
  <2>4. QED BY <1>3, <2>2, <2>3
<1>8. Older(p) \/ (ThisPage(p) /\ Behind(p))
  BY <1>1, <1>2 DEF Settled
<1>9. QED BY <1>6, <1>7, <1>8

LEMMA NewAndNew ==
  ASSUME DecodeInv, NEW children, NEW name, NEW hit, NEW k, Handed(children, name, hit, k),
         NEW c \in DOMAIN children, NEW d \in DOMAIN children, c # d
  PROVE  Origin(children[c].path) # Origin(children[d].path)
<1>1. DecodeTyped /\ Stacked /\ todo # <<>> /\ IsMedium /\ next_page \in Nat /\ next_page >= 1
  BY DEF DecodeInv, DecodeTyped, Handed
<1>2. \A e \in DOMAIN children : children[e].path \in Seq(Parts) /\ children[e].path # <<>> /\ Fits(children[e])
  BY <1>1, HandedPath, ChildFits
<1>3. PICK p \in Seq(Parts) : p = children[c].path
  BY <1>2
<1>4. PICK q \in Seq(Parts) : q = children[d].path
  BY <1>2
<1>5. p # <<>> /\ q # <<>> /\ ThisPage(p) /\ ThisPage(q)
  BY <1>2, <1>3, <1>4 DEF Fits
<1>6. p # q
  BY <1>1, <1>3, <1>4, ChildrenApart
<1>7. next_page - 1 \in Nat /\ OfPage(p, next_page - 1) /\ OfPage(q, next_page - 1)
  BY <1>1, <1>5 DEF ThisPage
<1>8. Origin(p) # Origin(q)
  BY <1>1, <1>5, <1>6, <1>7, SamePage
<1>9. QED BY <1>3, <1>4, <1>8

LEMMA HandedOnce ==
  ASSUME DecodeInv, NEW children, NEW name, NEW hit, NEW k, Handed(children, name, hit, k)
  PROVE  DecodedOnce'
<1>1. medium' = medium /\ next_page' = next_page
  BY DEF Handed
<1>2. DecodeTyped
  BY DEF DecodeInv
<1> DEFINE IsOld(i) == i \in DOMAIN decoded /\ decoded'[i] = decoded[i]
           IsNew(i) == \E c \in DOMAIN children : i = Len(decoded) + c /\ decoded'[i].path = children[c].path
<1>3. \A i \in DOMAIN decoded' : IsOld(i) \/ IsNew(i)
  BY <1>2, DecodedIs
<1>4. ASSUME NEW i \in DOMAIN decoded', NEW j \in DOMAIN decoded', i # j, Origin(decoded'[i].path) = Origin(decoded'[j].path)
      PROVE  Shared(Origin(decoded'[i].path))
  <2>1. CASE IsOld(i) /\ IsOld(j)
    <3>1. DecodedOnce
      BY DEF DecodeInv
    <3>2. Origin(decoded[i].path) = Origin(decoded[j].path)
      BY <1>4, <2>1
    <3>3. Shared(Origin(decoded[i].path))
      BY <1>4, <2>1, <3>1, <3>2 DEF DecodedOnce, Shared
    <3>4. QED BY <2>1, <3>3
  <2>2. CASE IsOld(i) /\ IsNew(j)
    <3>1. PICK c \in DOMAIN children : decoded'[j].path = children[c].path
      BY <2>2
    <3>2. Origin(decoded[i].path) = Origin(children[c].path)
      BY <1>4, <2>2, <3>1
    <3>3. Shared(Origin(decoded[i].path))
      BY <2>2, <3>2, OldAndNew
    <3>4. QED BY <2>2, <3>3
  <2>3. CASE IsNew(i) /\ IsOld(j)
    <3>1. PICK c \in DOMAIN children : decoded'[i].path = children[c].path
      BY <2>3
    <3>2. Origin(decoded[j].path) = Origin(children[c].path)
      BY <1>4, <2>3, <3>1
    <3>3. Shared(Origin(decoded[j].path))
      BY <2>3, <3>2, OldAndNew
    <3>4. QED BY <1>4, <2>3, <3>3
  <2>4. CASE IsNew(i) /\ IsNew(j)
    <3>1. PICK c \in DOMAIN children : i = Len(decoded) + c /\ decoded'[i].path = children[c].path
      BY <2>4
    <3>2. PICK d \in DOMAIN children : j = Len(decoded) + d /\ decoded'[j].path = children[d].path
      BY <2>4
    <3>3. c # d
      BY <1>4, <3>1, <3>2
    <3>4. Origin(children[c].path) # Origin(children[d].path)
      BY <3>3, NewAndNew
    <3>5. QED BY <1>4, <3>1, <3>2, <3>4
  <2> HIDE DEF IsOld, IsNew
  <2>5. QED BY <1>3, <2>1, <2>2, <2>3, <2>4
<1>5. \A i, j \in DOMAIN decoded' : i # j /\ Origin(decoded'[i].path) = Origin(decoded'[j].path) => Shared(Origin(decoded'[i].path))
  BY <1>4
<1>6. QED BY <1>1, <1>5 DEF DecodedOnce, Shared

\* A step that hands over what the scanner of the top found, and goes on.
LEMMA HandedOver ==
  ASSUME DecodeInv, NEW children, NEW name, NEW hit, NEW k, Handed(children, name, hit, k)
  PROVE  DecodeInv'
<1>1. DecodeTyped /\ Stacked
  BY DEF DecodeInv
<1>2. QED BY <1>1, HandedTyped, HandedStacked, HandedSettled, HandedOnce DEF DecodeInv

-----------------------------------------------------------------------------
(* The steps *)

\* Children too deep are dropped, and the scanner goes on.
LEMMA Handable ==
  ASSUME DecodeInv, NEW children, NEW name, NEW hit, NEW k, Recurse(children, k), UNCHANGED <<medium, next_page>>,
         todo # <<>>, Top.left # <<>>, name \in PartNames, ScannerOf(name) = Top.left[1], Goes(k),
         children \in Seq(Sbufs), hit \in [DOMAIN children -> Nat],
         \A c \in DOMAIN children : GoodChild(children[c], name, hit[c]) /\ (k = Done \/ hit[c] < k),
         \A c, d \in DOMAIN children : c # d => hit[c] # hit[d]
  PROVE  DecodeInv'
<1>1. CASE Len(Top.path) < max_depth
  <2>1. /\ todo' = children \o <<After(k)>> \o Tail(todo)
        /\ decoded' = decoded \o [c \in DOMAIN children |-> [path |-> children[c].path, text |-> children[c].cells]]
    BY <1>1 DEF Recurse
  <2>2. Handed(children, name, hit, k)
    BY <1>1, <2>1 DEF Handed
  <2>3. QED BY <2>2, HandedOver
<1>2. CASE ~(Len(Top.path) < max_depth)
  <2> DEFINE none == <<>>
             nowhere == [c \in {} |-> 0]
  <2>1. todo' = none \o <<After(k)>> \o Tail(todo) /\ decoded' = decoded \o <<>>
    BY <1>2 DEF Recurse
  <2>2. DOMAIN none = {} /\ none \in Seq(Sbufs) /\ nowhere \in [{} -> Nat]
    OBVIOUS
  <2>3. [c \in DOMAIN none |-> [path |-> none[c].path, text |-> none[c].cells]] = <<>>
    OBVIOUS
  <2>4. Handed(none, name, nowhere, k)
    <3> HIDE DEF none, nowhere
    <3>1. none = <<>>
      BY DEF none
    <3>2. QED BY <2>1, <2>2, <2>3, <3>1 DEF Handed
  <2>5. QED BY <2>4, HandedOver
<1>3. QED BY <1>1, <1>2

\* A scanner that has decoded one thing.
LEMMA OneChild ==
  ASSUME DecodeInv, NEW c, NEW name, NEW i, NEW k, Recurse(<<c>>, k), UNCHANGED <<medium, next_page>>,
         todo # <<>>, Top.left # <<>>, name \in PartNames, ScannerOf(name) = Top.left[1], Goes(k),
         GoodChild(c, name, i), k = Done \/ i < k
  PROVE  DecodeInv'
<1> DEFINE children == <<c>>
           hit == [d \in {1} |-> i]
<1>1. c \in Sbufs /\ i \in Nat
  BY DEF GoodChild
<1>2. children \in Seq(Sbufs) /\ DOMAIN children = {1} /\ children[1] = c /\ hit \in [{1} -> Nat] /\ hit[1] = i
  BY <1>1
<1> HIDE DEF children, hit
<1>3. Recurse(children, k)
  BY DEF children
<1>4. \A d \in DOMAIN children : GoodChild(children[d], name, hit[d]) /\ (k = Done \/ hit[d] < k)
  BY <1>2
<1>5. \A d, e \in DOMAIN children : d # e => hit[d] # hit[e]
  BY <1>2
<1>6. hit \in [DOMAIN children -> Nat]
  BY <1>2
<1>7. QED BY <1>2, <1>3, <1>4, <1>5, <1>6, Handable

\* A scanner that has decoded nothing.
LEMMA Onward ==
  ASSUME DecodeInv, NEW k, GoOn(k), UNCHANGED <<medium, next_page>>, todo # <<>>, Top.left # <<>>, Goes(k)
  PROVE  DecodeInv'
<1>1. DecodeTyped /\ decoded \in Seq(DecodedTexts)
  BY DEF DecodeInv, DecodeTyped
<1>2. Top.left[1] \in DecodingScanners
  <2>1. Top.left \in Seq(DecodingScanners)
    BY <1>1, TopIs
  <2>2. QED BY <2>1
<1>3. \E name \in PartNames : ScannerOf(name) = Top.left[1]
  BY <1>2 DEF ScannerOf, PartNames, DecodingScanners
<1>4. PICK name \in PartNames : ScannerOf(name) = Top.left[1]
  BY <1>3
<1> DEFINE none == <<>>
           nowhere == [c \in {} |-> 0]
<1>5. none \o <<After(k)>> \o Tail(todo) = <<After(k)>> \o Tail(todo)
  <2>1. After(k) \in Sbufs /\ Tail(todo) \in Seq(Sbufs)
    BY <1>1, AfterIs DEF DecodeTyped
  <2>2. <<>> \o <<After(k)>> = <<After(k)>>
    BY <2>1
  <2>3. QED BY <2>2
<1>6. decoded \o <<>> = decoded
  BY <1>1
<1>7. DOMAIN none = {} /\ none \in Seq(Sbufs) /\ nowhere \in [{} -> Nat]
  OBVIOUS
<1>8. [c \in DOMAIN none |-> [path |-> none[c].path, text |-> none[c].cells]] = <<>>
  OBVIOUS
<1>9. todo' = none \o <<After(k)>> \o Tail(todo) /\ decoded' = decoded \o <<>>
  BY <1>5, <1>6 DEF GoOn
<1>10. none = <<>>
  OBVIOUS
<1> HIDE DEF none, nowhere
<1>11. Handed(none, name, nowhere, k)
  BY <1>4, <1>7, <1>8, <1>9, <1>10 DEF Handed
<1>12. QED BY <1>11, HandedOver

LEMMA ChildIsGood ==
  ASSUME DecodeTyped, todo # <<>>, NEW name \in PartNames, NEW i \in Nat, NEW text \in Seq(MediumCells),
         Top.pos <= i, i = 0 \/ i < Len(Top.cells), name \notin IntoMargin => i = 0 \/ i < Top.pagesize,
         name \in WholeSbuf => i = 0 /\ Len(text) = Len(Top.cells)
  PROVE  /\ name # "XOR(255)" => GoodChild(Child(name, i, text), name, i)
         /\ name = "XOR(255)" => GoodChild([Child(name, i, text) EXCEPT !.pagesize = Top.pagesize], name, i)
<1> DEFINE c == Child(name, i, text)
           d == [c EXCEPT !.pagesize = Top.pagesize]
           part == [by |-> name, at |-> Top.base + i]
<1>1. Top.path \in Seq(Parts) /\ Top.base \in Nat /\ Top.pagesize \in Nat /\ Top.pagesize <= Len(Top.cells)
      /\ medium.enabled \in Seq(DecodingScanners)
  BY TopIs DEF DecodeTyped, IsMedium
<1>2. part \in Parts
  BY <1>1 DEF Parts
<1>3. Append(Top.path, part) \in Seq(Parts)
  <2> HIDE DEF part
  <2>1. QED BY <1>1, <1>2
<1>4. c = [path |-> Append(Top.path, part), base |-> 0, cells |-> text, pagesize |-> Len(text), pos |-> 0, left |-> medium.enabled]
  BY DEF Child
<1>5. Len(text) \in Nat
  OBVIOUS
<1> HIDE DEF part
<1>6. c \in Sbufs
  BY <1>1, <1>3, <1>4, <1>5 DEF Sbufs
<1>7. /\ d \in Sbufs /\ d.path = c.path /\ d.base = c.base /\ d.pos = c.pos /\ d.left = c.left /\ d.cells = c.cells
      /\ d.pagesize = Top.pagesize
  <2> HIDE DEF c
  <2>1. QED BY <1>1, <1>6 DEF Sbufs
<1>8. ASSUME name # "XOR(255)" PROVE GoodChild(c, name, i)
  BY <1>4, <1>5, <1>6, <1>8 DEF GoodChild, part
<1>9. ASSUME name = "XOR(255)" PROVE GoodChild(d, name, i)
  <2>1. Len(text) = Len(Top.cells)
    BY <1>9 DEF WholeSbuf
  <2>2. /\ c.path = Append(Top.path, part) /\ c.base = 0 /\ c.pos = 0 /\ c.left = medium.enabled /\ c.cells = text
    BY <1>4
  <2> HIDE DEF d, c
  <2>3. QED BY <1>1, <1>7, <1>9, <2>1, <2>2 DEF GoodChild, part
<1>10. QED BY <1>8, <1>9

LEMMA ChildOfPlace ==
  ASSUME DecodeTyped, todo # <<>>, NEW name \in PartNames, NEW i \in Nat, NEW text \in Seq(MediumCells), name # "XOR(255)",
         Top.pos <= i, i = 0 \/ i < Len(Top.cells), name \notin IntoMargin => i = 0 \/ i < Top.pagesize,
         name \in WholeSbuf => i = 0 /\ Len(text) = Len(Top.cells)
  PROVE  GoodChild(Child(name, i, text), name, i)
BY ChildIsGood

\* The cells of the medium are such as decoders know.
LEMMA CellsTyped ==
  ASSUME IsMedium
  PROVE  CellsOK(MediumCells) /\ medium.cells \in Seq(MediumCells)
<1>1. \E C : MediumIn(C)
  BY DEF IsMedium
<1>2. MediumIn(MediumCells)
  <2>1. MediumCells = CHOOSE C : MediumIn(C)
    BY DEF MediumCells
  <2>2. QED BY <1>1, <2>1, Zenon
<1>3. QED BY <1>2 DEF MediumIn

LEMMA DecodeStart == ASSUME DecodeInit, IsMedium PROVE DecodeInv
<1>1. todo = <<>> /\ decoded = <<>> /\ next_page = 0 /\ DOMAIN todo = {} /\ DOMAIN decoded = {}
  BY DEF DecodeInit
<1>2. todo \in Seq(Sbufs) /\ decoded \in Seq(DecodedTexts)
  BY <1>1
<1>3. DecodeTyped
  BY <1>1, <1>2 DEF DecodeTyped
<1>4. Stacked /\ Settled /\ DecodedOnce
  BY <1>1 DEF Stacked, Settled, DecodedOnce
<1>5. QED BY <1>3, <1>4 DEF DecodeInv

\* The next page of the medium.
LEMMA PageIs ==
  ASSUME IsMedium, next_page \in Nat, todo = <<>>, ~DecodeDone
  PROVE  LET start == next_page * medium.pagesize
             size == Shorter(medium.pagesize, Len(medium.cells) - start) IN
         /\ start \in Nat /\ size \in Nat /\ size <= medium.pagesize
         /\ PageCells(next_page) \in Seq(MediumCells) /\ size <= Len(PageCells(next_page))
         /\ Len(PageCells(next_page)) <= medium.pagesize + medium.margin
<1> DEFINE P == medium.pagesize
           M == medium.margin
           L == Len(medium.cells)
           start == next_page * P
           size == Shorter(P, L - start)
           last == Shorter(start + P + M, L)
<1>1. P \in Nat \ {0} /\ M \in Nat /\ medium.cells \in Seq(MediumCells) /\ L \in Nat
  <2>1. medium.cells \in Seq(MediumCells)
    BY CellsTyped
  <2>2. QED BY <2>1 DEF IsMedium
<1>2. start \in Nat /\ (next_page + 1) * P = start + P
  BY <1>1
<1>3. start < L
  <2>1. ~(start >= L)
    BY DEF DecodeDone
  <2>2. QED BY <1>1, <1>2, <2>1
<1>4. PageCells(next_page) = SubSeq(medium.cells, start + 1, last)
  BY <1>2 DEF PageCells
<1> HIDE DEF start, P, M, L
<1>5. size \in Nat /\ size <= P /\ last \in Nat /\ last <= L /\ start < last /\ size <= last - start /\ last - start <= P + M
  BY <1>1, <1>2, <1>3 DEF Shorter
<1> HIDE DEF last, size
<1>6. PageCells(next_page) \in Seq(MediumCells) /\ Len(PageCells(next_page)) = last - start
  <2>1. start + 1 \in Int /\ last \in Int
    BY <1>2, <1>5
  <2>2. \A i \in start + 1 .. last : medium.cells[i] \in MediumCells
    BY <1>1, <1>2, <1>5 DEF L
  <2>3. /\ SubSeq(medium.cells, start + 1, last) \in Seq(MediumCells)
        /\ Len(SubSeq(medium.cells, start + 1, last)) = IF start + 1 <= last THEN last - (start + 1) + 1 ELSE 0
    BY <2>1, <2>2, SubSeqProperties
  <2>4. start + 1 <= last /\ last - (start + 1) + 1 = last - start
    BY <1>2, <1>5
  <2>5. QED BY <1>4, <2>3, <2>4
<1>7. QED BY <1>2, <1>5, <1>6 DEF start, size, P, M, L

LEMMA PageStep == ASSUME DecodeInv, DecodePage PROVE DecodeInv'
<1>1. DecodeTyped /\ Settled /\ DecodedOnce /\ IsMedium /\ next_page \in Nat /\ decoded \in Seq(DecodedTexts)
      /\ medium.enabled \in Seq(DecodingScanners) /\ NoDuplicates(medium.enabled) /\ DecodeAssumption
  BY DecodeAssumption DEF DecodeInv, DecodeTyped, IsMedium
<1> DEFINE start == next_page * medium.pagesize
           size == Shorter(medium.pagesize, Len(medium.cells) - start)
           text == PageCells(next_page)
           top == [path |-> <<>>, base |-> start, left |-> medium.enabled, pos |-> 0, cells |-> text, pagesize |-> size]
<1>2. /\ todo = <<>> /\ ~DecodeDone /\ todo' = <<top>> /\ next_page' = next_page + 1
      /\ medium' = medium /\ decoded' = decoded
  BY DEF DecodePage
<1>3. /\ start \in Nat /\ size \in Nat /\ size <= medium.pagesize /\ text \in Seq(MediumCells) /\ size <= Len(text)
      /\ Len(text) <= medium.pagesize + medium.margin
  BY <1>1, <1>2, PageIs
<1>4. /\ top.path = <<>> /\ top.base = start /\ top.left = medium.enabled /\ top.pos = 0 /\ top.cells = text
      /\ top.pagesize = size /\ Len(top.path) = 0
  OBVIOUS
<1>5. top \in Sbufs
  <2> HIDE DEF start, size, text
  <2>1. <<>> \in Seq(Parts)
    OBVIOUS
  <2>2. QED BY <1>1, <1>3, <2>1 DEF Sbufs
<1> HIDE DEF top, size, text
<1>6. DOMAIN todo' = {1} /\ todo'[1] = top /\ todo' \in Seq(Sbufs)
  BY <1>2, <1>5
<1>7. IsMedium' /\ Sbufs' = Sbufs /\ DecodedTexts' = DecodedTexts
  <2>1. IsMedium' /\ MediumCells' = MediumCells
    BY <1>1, <1>2 DEF IsMedium, MediumIn, MediumCells
  <2>2. QED BY <2>1 DEF Sbufs, DecodedTexts
<1>8. DecodeTyped'
  <2>1. \A i \in DOMAIN decoded : decoded[i].path # <<>>
    BY <1>1 DEF DecodeTyped
  <2>2. next_page' \in Nat /\ next_page' >= 1
    BY <1>1, <1>2
  <2>3. \A t \in DOMAIN todo' :
          /\ todo'[t].pagesize <= Len(todo'[t].cells) /\ Len(todo'[t].path) <= max_depth
          /\ NoDuplicates(todo'[t].left)
          /\ todo'[t].pos # 0 => todo'[t].left # <<>> /\ todo'[t].left[1] \in ByHit
    BY <1>1, <1>3, <1>4, <1>6 DEF DecodeAssumption
  <2>4. QED BY <1>1, <1>2, <1>6, <1>7, <2>1, <2>2, <2>3 DEF DecodeTyped
<1>9. Stacked'
  <2>1. next_page' - 1 = next_page
    BY <1>1, <1>2
  <2>2. ASSUME NEW t \in DOMAIN todo', NEW s \in {todo'[t]}, NEW p \in {s.path} PROVE Fits(s)' /\ (p # <<>> => Behind(p)')
    <3>1. s = top /\ p = <<>>
      BY <1>4, <1>6
    <3>2. s.base = (next_page' - 1) * medium'.pagesize /\ s.pagesize <= medium'.pagesize /\ Len(s.cells) <= medium'.pagesize + medium'.margin
      BY <1>2, <1>3, <1>4, <2>1, <3>1
    <3>3. QED BY <1>4, <3>1, <3>2 DEF Fits
  <2>3. \A t, u \in DOMAIN todo' : t # u => todo'[t].path # todo'[u].path
    BY <1>6
  <2>4. QED BY <2>2, <2>3 DEF Stacked
<1>10. Settled'
  <2>1. ASSUME NEW i \in DOMAIN decoded', NEW p \in {decoded'[i].path} PROVE Older(p)'
    <3>0. i \in DOMAIN decoded /\ p \in {decoded[i].path}
      BY <1>2
    <3>1. Older(p) \/ (next_page >= 1 /\ ThisPage(p))
      BY <1>1, <3>0 DEF Settled
    <3>2. \A n : OfPage(p, n)' <=> OfPage(p, n)
      BY <1>2 DEF OfPage
    <3>3. CASE Older(p)
      <4>1. PICK n \in Nat : n + 2 <= next_page /\ OfPage(p, n)
        BY <3>3 DEF Older
      <4>2. n + 2 <= next_page' /\ OfPage(p, n)'
        BY <1>1, <1>2, <3>2, <4>1
      <4>3. QED BY <4>2 DEF Older
    <3>4. CASE next_page >= 1 /\ ThisPage(p)
      <4>1. next_page - 1 \in Nat /\ (next_page - 1) + 2 <= next_page' /\ OfPage(p, next_page - 1)
        BY <1>1, <1>2, <3>4 DEF ThisPage
      <4>2. PICK n \in Nat : n + 2 <= next_page' /\ OfPage(p, n)
        BY <4>1
      <4>3. OfPage(p, n)'
        BY <3>2, <4>2
      <4>4. QED BY <4>2, <4>3 DEF Older
    <3>5. QED BY <3>1, <3>3, <3>4
  <2>2. QED BY <2>1 DEF Settled
<1>11. DecodedOnce'
  BY <1>1, <1>2 DEF DecodedOnce
<1>12. QED BY <1>8, <1>9, <1>10, <1>11 DEF DecodeInv

LEMMA UnwindStep == ASSUME DecodeInv, Unwind PROVE DecodeInv'
<1>1. /\ todo # <<>> /\ todo' = Tail(todo) /\ medium' = medium /\ next_page' = next_page /\ decoded' = decoded
      /\ DecodeTyped /\ Stacked /\ Settled /\ DecodedOnce /\ todo \in Seq(Sbufs) /\ next_page >= 1
  BY DEF Unwind, DecodeInv, DecodeTyped
<1>2. /\ todo' \in Seq(Sbufs)
      /\ \A t \in DOMAIN todo' : t + 1 \in DOMAIN todo /\ todo'[t] = todo[t + 1] /\ t \in Nat
  BY <1>1, TailIs
<1>3. IsMedium' /\ Sbufs' = Sbufs /\ DecodedTexts' = DecodedTexts
  <2>1. IsMedium' /\ MediumCells' = MediumCells
    BY <1>1 DEF DecodeTyped, IsMedium, MediumIn, MediumCells
  <2>2. QED BY <2>1 DEF Sbufs, DecodedTexts
<1>4. DecodeTyped'
  <2>1. \A t \in DOMAIN todo' :
          /\ todo'[t].pagesize <= Len(todo'[t].cells) /\ Len(todo'[t].path) <= max_depth
          /\ NoDuplicates(todo'[t].left)
          /\ todo'[t].pos # 0 => todo'[t].left # <<>> /\ todo'[t].left[1] \in ByHit
    BY <1>1, <1>2 DEF DecodeTyped
  <2>2. QED BY <1>1, <1>2, <1>3, <2>1 DEF DecodeTyped
<1>5. \A p : Behind(p) => Behind(p)'
  <2> SUFFICES ASSUME NEW p, Behind(p), NEW t \in DOMAIN todo', NEW s \in {todo'[t]}, Inside(p, s.path)
               PROVE  ~NotYet(s, p[Len(s.path) + 1])
    BY DEF Behind, Inside, NotYet
  <2>1. PICK b \in DOMAIN todo : s = todo[b]
    BY <1>2
  <2>2. QED BY <2>1 DEF Behind
<1>6. Stacked'
  <2>1. ASSUME NEW t \in DOMAIN todo', NEW s \in {todo'[t]}, NEW p \in {s.path} PROVE Fits(s)' /\ (p # <<>> => Behind(p)')
    <3>1. PICK b \in DOMAIN todo : s = todo[b]
      BY <1>2
    <3>2. Fits(s) /\ (p # <<>> => Behind(p))
      BY <1>1, <3>1 DEF Stacked
    <3>3. Fits(s)' = Fits(s)
      BY <1>1, PageKept
    <3>4. QED BY <1>5, <3>2, <3>3
  <2>2. ASSUME NEW t \in DOMAIN todo', NEW u \in DOMAIN todo', t # u PROVE todo'[t].path # todo'[u].path
    <3>1. t + 1 # u + 1 /\ t + 1 \in DOMAIN todo /\ u + 1 \in DOMAIN todo
      BY <1>2, <2>2
    <3>2. todo[t + 1].path # todo[u + 1].path
      BY <1>1, <3>1 DEF Stacked
    <3>3. QED BY <1>2, <3>2
  <2>3. QED BY <2>1, <2>2 DEF Stacked
<1>7. Settled'
  <2>1. ASSUME NEW i \in DOMAIN decoded', NEW p \in {decoded'[i].path}
        PROVE  Older(p)' \/ ((next_page >= 1)' /\ ThisPage(p)' /\ Behind(p)')
    <3>1. Older(p) \/ (ThisPage(p) /\ Behind(p))
      BY <1>1 DEF Settled
    <3>2. Older(p)' = Older(p) /\ ThisPage(p)' = ThisPage(p)
      BY <1>1, PageKept
    <3>3. QED BY <1>1, <1>5, <3>1, <3>2
  <2>2. QED BY <2>1 DEF Settled
<1>8. DecodedOnce'
  BY <1>1 DEF DecodedOnce
<1>9. QED BY <1>4, <1>6, <1>7, <1>8 DEF DecodeInv

\* The first hit from k on, or the end.
LEMMA FindIs ==
  ASSUME NEW is, NEW k \in Nat, NEW end \in Int
  PROVE  \/ Find(is, k, end) = end
         \/ /\ Find(is, k, end) \in Nat /\ k <= Find(is, k, end) /\ Find(is, k, end) < end
            /\ Find(is, k, end) < decode_bufsize /\ Cells[Find(is, k, end) + 1].is = is
<1> DEFINE hits == {i \in k .. end - 1 : i < decode_bufsize /\ Cells[i + 1].is = is}
<1>1. CASE hits = {}
  BY <1>1 DEF Find
<1>2. CASE hits # {}
  <2>1. hits \in SUBSET Nat
    OBVIOUS
  <2>2. \E i \in hits : \A j \in hits : i <= j
    <3> HIDE DEF hits
    <3>1. QED BY <1>2, <2>1, LeastNatural
  <2>3. Find(is, k, end) = CHOOSE i \in hits : \A j \in hits : i <= j
    BY <1>2 DEF Find
  <2>4. Find(is, k, end) \in hits
    <3> HIDE DEF hits
    <3>1. QED BY <2>2, <2>3
  <2>5. QED BY <2>4
<1>3. QED BY <1>1, <1>2

LEMMA TopCells ==
  ASSUME DecodeTyped, todo # <<>>
  PROVE  /\ Cells \in Seq(MediumCells) /\ decode_bufsize \in Nat /\ Cells = Top.cells /\ decode_bufsize = Len(Top.cells)
         /\ \A i \in Nat : i < decode_bufsize => Cells[i + 1] \in MediumCells
         /\ CellsOK(MediumCells)
<1>1. Cells \in Seq(MediumCells) /\ Cells = Top.cells
  BY TopIs DEF Cells
<1>2. decode_bufsize = Len(Top.cells) /\ decode_bufsize = Len(Cells) /\ decode_bufsize \in Nat
  BY <1>1 DEF decode_bufsize
<1> HIDE DEF Cells, decode_bufsize
<1>3. \A i \in Nat : i < decode_bufsize => Cells[i + 1] \in MediumCells
  <2>1. ASSUME NEW i \in Nat, i < decode_bufsize PROVE i + 1 \in 1 .. Len(Cells)
    BY <1>2, <2>1
  <2>2. QED BY <1>1, <2>1
<1>4. CellsOK(MediumCells)
  BY CellsTyped DEF DecodeTyped
<1>5. QED BY <1>1, <1>2, <1>3, <1>4

LEMMA TextOf ==
  ASSUME DecodeTyped, todo # <<>>, NEW from \in Nat, NEW size \in Nat, NEW ok
  PROVE  sbuf_new_decompress(from, size, ok) \in Seq(MediumCells)
<1> DEFINE last == Shorter(from + size, decode_bufsize)
<1>1. Cells \in Seq(MediumCells) /\ decode_bufsize = Len(Cells) /\ decode_bufsize \in Nat
  BY TopCells DEF decode_bufsize
<1>2. last \in Nat /\ last <= Len(Cells)
  BY <1>1 DEF Shorter
<1> HIDE DEF last
<1>3. from + 1 \in Int /\ last \in Int /\ \A i \in from + 1 .. last : Cells[i] \in MediumCells
  BY <1>1, <1>2
<1>4. SubSeq(Cells, from + 1, last) \in Seq(MediumCells)
  BY <1>3, SubSeqProperties
<1>5. QED BY <1>4 DEF sbuf_new_decompress, last

LEMMA RunningIs ==
  ASSUME DecodeInv, NEW s, Running(s)
  PROVE  DecodeTyped /\ todo # <<>> /\ Top.left # <<>> /\ Top.left[1] = s /\ Top.pos \in Nat /\ (s \notin ByHit => Top.pos = 0)
<1>1. DecodeTyped /\ todo # <<>> /\ Top.left # <<>> /\ Head(Top.left) = s
  BY DEF DecodeInv, Running
<1>2. Top.left \in Seq(DecodingScanners) /\ Top.pos \in Nat /\ (Top.pos # 0 => Top.left[1] \in ByHit)
  BY <1>1, TopIs
<1>3. Top.left[1] = s
  BY <1>1, <1>2
<1>4. QED BY <1>1, <1>2, <1>3

LEMMA GzipHandsOver == ASSUME DecodeInv, GzipStep PROVE DecodeInv'
<1> DEFINE i == Find("gzip", Top.pos, GzipEnd)
           text == sbuf_new_decompress(i + 1, decode_bufsize, Cells[i + 1].ok)
<1>1. /\ DecodeTyped /\ todo # <<>> /\ Top.left # <<>> /\ Top.left[1] = "gzip" /\ Top.pos \in Nat
      /\ medium' = medium /\ next_page' = next_page
      /\ IF i >= GzipEnd THEN GoOn(Done)
         ELSE IF text = <<>> THEN GoOn(i + 1) ELSE Recurse(<<Child("GZIP", i, text)>>, i + 1)
  BY RunningIs DEF GzipStep
<1>2. Top.pagesize \in Nat /\ GzipEnd = Top.pagesize /\ decode_bufsize \in Nat /\ decode_bufsize = Len(Top.cells)
  BY <1>1, TopIs, TopCells DEF GzipEnd
<1>3. CASE i >= GzipEnd
  <2>1. GoOn(Done) /\ Goes(Done)
    BY <1>1, <1>3 DEF Goes
  <2>2. QED BY <1>1, <2>1, Onward
<1>4. CASE ~(i >= GzipEnd)
  <2>1. i \in Nat /\ Top.pos <= i /\ i < Top.pagesize /\ i < Len(Top.cells)
    BY <1>1, <1>2, <1>4, FindIs
  <2> HIDE DEF i
  <2>2. text \in Seq(MediumCells)
    BY <1>1, <1>2, <2>1, TextOf
  <2>3. Goes(i + 1) /\ i < i + 1
    BY <1>1, <2>1 DEF Goes, ByHit
  <2> HIDE DEF text
  <2>4. CASE text = <<>>
    <3>1. GoOn(i + 1)
      BY <1>1, <1>4, <2>4
    <3>2. QED BY <1>1, <2>3, <3>1, Onward
  <2>5. CASE text # <<>>
    <3>1. "GZIP" \in PartNames /\ ScannerOf("GZIP") = "gzip" /\ "GZIP" \notin WholeSbuf
      BY DEF PartNames, ScannerOf, WholeSbuf
    <3> DEFINE c == Child("GZIP", i, text)
    <3>2. GoodChild(c, "GZIP", i)
      BY <1>1, <2>1, <2>2, <3>1, ChildIsGood
    <3>3. Recurse(<<c>>, i + 1)
      BY <1>1, <1>4, <2>5
    <3> HIDE DEF c
    <3>4. QED BY <1>1, <2>3, <3>1, <3>2, <3>3, OneChild
  <2>6. QED BY <2>4, <2>5
<1>5. QED BY <1>3, <1>4

LEMMA ZipHandsOver == ASSUME DecodeInv, ZipStep PROVE DecodeInv'
<1> DEFINE i == Find("zip", Top.pos, ZipEnd)
           zip == Cells[i + 1]
           data == i + zip.head
           text == sbuf_new_decompress(data, uncompr_size(zip), zip.ok)
<1>1. /\ DecodeTyped /\ todo # <<>> /\ Top.left # <<>> /\ Top.left[1] = "zip" /\ Top.pos \in Nat
      /\ medium' = medium /\ next_page' = next_page
  BY RunningIs DEF ZipStep
<1>2. \/ GoOn(Done)
      \/ /\ ~(i >= ZipEnd) /\ GoOn(i + 1)
      \/ /\ ~(i >= ZipEnd) /\ Recurse(<<Child("ZIP", i, text)>>, i + 1)
  BY DEF ZipStep
<1>3. CASE GoOn(Done)
  <2>1. Goes(Done)
    BY DEF Goes
  <2>2. QED BY <1>1, <1>3, <2>1, Onward
<1>4. ASSUME ~(i >= ZipEnd) PROVE i \in Nat /\ Top.pos <= i /\ i < Top.pagesize /\ i < Len(Top.cells) /\ Goes(i + 1) /\ i < i + 1
                                 /\ zip.head \in Nat /\ zip.size \in Nat
  <2>1. /\ Top.pagesize \in Nat /\ decode_bufsize \in Nat /\ decode_bufsize = Len(Top.cells)
        /\ CellsOK(MediumCells) /\ \A j \in Nat : j < decode_bufsize => Cells[j + 1] \in MediumCells
    BY <1>1, TopIs, TopCells
  <2>2. ZipEnd \in Int /\ ZipEnd <= Top.pagesize
    BY <2>1, DecodeAssumption DEF ZipEnd, Shorter, DecodeAssumption
  <2>3. i \in Nat /\ Top.pos <= i /\ i < ZipEnd /\ i < decode_bufsize /\ zip.is = "zip"
    BY <1>1, <1>4, <2>2, FindIs
  <2> HIDE DEF i
  <2>4. zip \in MediumCells
    BY <2>1, <2>3
  <2> HIDE DEF zip
  <2>5. zip.head \in Nat /\ zip.size \in Nat
    BY <2>1, <2>3, <2>4 DEF CellsOK
  <2>6. Goes(i + 1) /\ i < i + 1
    BY <1>1, <2>3 DEF Goes, ByHit
  <2>7. QED BY <2>1, <2>2, <2>3, <2>5, <2>6
<1>5. CASE ~(i >= ZipEnd) /\ GoOn(i + 1)
  <2> HIDE DEF i
  <2>1. QED BY <1>1, <1>4, <1>5, Onward
<1>6. CASE ~(i >= ZipEnd) /\ Recurse(<<Child("ZIP", i, text)>>, i + 1)
  <2>1. uncompr_size(zip) \in Nat /\ data \in Nat
    BY <1>4, <1>6, DecodeAssumption DEF uncompr_size, DecodeAssumption
  <2> HIDE DEF data, zip
  <2>2. text \in Seq(MediumCells)
    BY <1>1, <2>1, TextOf
  <2>3. "ZIP" \in PartNames /\ ScannerOf("ZIP") = "zip" /\ "ZIP" \notin WholeSbuf
    BY DEF PartNames, ScannerOf, WholeSbuf
  <2> HIDE DEF i, text
  <2> DEFINE c == Child("ZIP", i, text)
  <2>4. GoodChild(c, "ZIP", i)
    BY <1>1, <1>4, <1>6, <2>2, <2>3, ChildIsGood
  <2>5. Recurse(<<c>>, i + 1)
    BY <1>6
  <2> HIDE DEF c
  <2>6. QED BY <1>1, <1>4, <1>6, <2>3, <2>4, <2>5, OneChild
<1>7. QED BY <1>2, <1>3, <1>5, <1>6

\* From no data nothing is decoded.
LEMMA NoText ==
  ASSUME DecodeTyped, todo # <<>>, NEW from \in Nat, NEW ok
  PROVE  sbuf_new_decompress(from, 0, ok) = <<>>
<1> DEFINE last == Shorter(from + 0, decode_bufsize)
<1>1. decode_bufsize \in Nat
  BY TopCells
<1>2. last \in Nat /\ last < from + 1
  BY <1>1 DEF Shorter
<1> HIDE DEF last
<1>3. SubSeq(Cells, from + 1, last) = <<>>
  <2>1. from + 1 \in Int /\ last \in Int /\ \A i \in from + 1 .. last : Cells[i] \in MediumCells
    BY <1>2
  <2>2. /\ SubSeq(Cells, from + 1, last) \in Seq(MediumCells)
        /\ Len(SubSeq(Cells, from + 1, last)) = IF from + 1 <= last THEN last - (from + 1) + 1 ELSE 0
    BY <2>1, SubSeqProperties
  <2>3. Len(SubSeq(Cells, from + 1, last)) = 0
    BY <1>2, <2>2
  <2>4. QED BY <2>2, <2>3, EmptySeq
<1>4. QED BY <1>3 DEF sbuf_new_decompress, last

LEMMA HiberHandsOver == ASSUME DecodeInv, HiberStep PROVE DecodeInv'
<1> DEFINE i == Find("xpress", Top.pos, decode_bufsize)
           block == Cells[i + 1]
           text == sbuf_new_decompress(i + 1, block.size, block.ok)
<1>1. /\ DecodeTyped /\ todo # <<>> /\ Top.left # <<>> /\ Top.left[1] = "hiberfile" /\ Top.pos \in Nat
      /\ medium' = medium /\ next_page' = next_page
  BY RunningIs DEF HiberStep
<1>2. \/ GoOn(Done)
      \/ i # decode_bufsize /\ text # <<>> /\ Recurse(<<Child("HIBERFILE", i, text)>>, i + block.size)
  BY DEF HiberStep
<1>3. CASE GoOn(Done)
  <2>1. Goes(Done)
    BY DEF Goes
  <2>2. QED BY <1>1, <1>3, <2>1, Onward
<1>4. CASE i # decode_bufsize /\ text # <<>> /\ Recurse(<<Child("HIBERFILE", i, text)>>, i + block.size)
  <2>1. /\ decode_bufsize \in Nat /\ decode_bufsize = Len(Top.cells)
        /\ CellsOK(MediumCells) /\ \A j \in Nat : j < decode_bufsize => Cells[j + 1] \in MediumCells
    BY <1>1, TopCells
  <2>2. i \in Nat /\ Top.pos <= i /\ i < decode_bufsize /\ block.is = "xpress"
    BY <1>1, <1>4, <2>1, FindIs
  <2> HIDE DEF i
  <2>3. block \in MediumCells
    BY <2>1, <2>2
  <2> HIDE DEF block
  <2>4. block.size \in Nat \ {0}
    <3>1. block.size \in Nat
      BY <2>1, <2>2, <2>3 DEF CellsOK
    <3>2. sbuf_new_decompress(i + 1, 0, block.ok) = <<>> /\ text = sbuf_new_decompress(i + 1, block.size, block.ok)
      BY <1>1, <2>2, NoText
    <3>3. block.size # 0
      BY <1>4, <3>2
    <3>4. QED BY <3>1, <3>3
  <2>5. i + 1 \in Nat /\ i + block.size \in Nat /\ i < i + block.size /\ Top.pos <= i + block.size
    BY <1>1, <2>2, <2>4
  <2>6. text \in Seq(MediumCells)
    BY <1>1, <2>4, <2>5, TextOf
  <2>7. "HIBERFILE" \in PartNames /\ ScannerOf("HIBERFILE") = "hiberfile" /\ "HIBERFILE" \notin WholeSbuf /\ "HIBERFILE" \in IntoMargin
    BY DEF PartNames, ScannerOf, WholeSbuf, IntoMargin
  <2>8. Goes(i + block.size)
    BY <1>1, <2>5 DEF Goes, ByHit
  <2> HIDE DEF text
  <2> DEFINE c == Child("HIBERFILE", i, text)
  <2>9. GoodChild(c, "HIBERFILE", i)
    BY <1>1, <2>1, <2>2, <2>6, <2>7, ChildIsGood
  <2>10. Recurse(<<c>>, i + block.size)
    BY <1>4
  <2> HIDE DEF c
  <2>11. QED BY <1>1, <2>5, <2>7, <2>8, <2>9, <2>10, OneChild
<1>5. QED BY <1>2, <1>3, <1>4

\* A text made of pieces of a text.
LEMMA Pieced ==
  ASSUME NEW E, NEW n \in Nat, NEW piece, \A i \in 1 .. n : piece[i] \in Seq(E)
  PROVE  FlattenSeq([i \in 1 .. n |-> piece[i]]) \in Seq(E)
<1> DEFINE seqs == [i \in 1 .. n |-> piece[i]]
           F == Seq(E)
<1>1. seqs \in [1 .. n -> F]
  OBVIOUS
<1>2. seqs \in Seq(F)
  <2> HIDE DEF seqs, F
  <2>1. QED BY <1>1
<1> HIDE DEF seqs
<1>3. FlattenSeq(seqs) \in Seq(E)
  BY <1>2, Flattened
<1>4. QED BY <1>3 DEF seqs

LEMMA OneCell == ASSUME NEW E, NEW c \in E PROVE <<c>> \in Seq(E) /\ <<>> \in Seq(E)
OBVIOUS

LEMMA MsxmlText ==
  ASSUME CellsOK(MediumCells), NEW text \in Seq(MediumCells)
  PROVE  msxml_extract_text(text) \in Seq(MediumCells)
<1> DEFINE instring(i) == \E j \in 1 .. i - 1 : text[j].is = ">" /\ \A k \in j + 1 .. i - 1 : text[k].is \notin Markup
           piece == [i \in 1 .. Len(text) |->
                      IF text[i].is = "</w:p" THEN <<Char("newline")>>
                      ELSE IF text[i].is \notin Markup \cup {">"} /\ instring(i) THEN <<text[i]>> ELSE <<>>]
<1>1. Len(text) \in Nat /\ DOMAIN text = 1 .. Len(text) /\ Char("newline") \in MediumCells
  <2>1. Char("newline") \in MediumCells
    BY DEF CellsOK
  <2>2. Len(text) \in Nat /\ DOMAIN text = 1 .. Len(text)
    OBVIOUS
  <2>3. QED BY <2>1, <2>2
<1>2. msxml_extract_text(text) = FlattenSeq([i \in 1 .. Len(text) |-> piece[i]])
  <2>1. [i \in 1 .. Len(text) |-> piece[i]] = piece
    OBVIOUS
  <2>2. msxml_extract_text(text) = FlattenSeq(piece)
    BY <1>1 DEF msxml_extract_text
  <2> HIDE DEF piece
  <2>3. QED BY <2>1, <2>2
<1>3. \A i \in 1 .. Len(text) : piece[i] \in Seq(MediumCells)
  <2> SUFFICES ASSUME NEW i \in 1 .. Len(text) PROVE piece[i] \in Seq(MediumCells)
    OBVIOUS
  <2>1. text[i] \in MediumCells
    OBVIOUS
  <2>2. <<text[i]>> \in Seq(MediumCells) /\ <<Char("newline")>> \in Seq(MediumCells) /\ <<>> \in Seq(MediumCells)
    BY <1>1, <2>1, OneCell
  <2> HIDE DEF instring
  <2>3. piece[i] \in {<<text[i]>>, <<Char("newline")>>, <<>>}
    OBVIOUS
  <2> HIDE DEF piece
  <2>4. QED BY <2>2, <2>3
<1> HIDE DEF piece
<1>4. QED BY <1>1, <1>2, <1>3, Pieced

LEMMA MsxmlHandsOver == ASSUME DecodeInv, MsxmlStep PROVE DecodeInv'
<1> DEFINE text == msxml_extract_text(Cells)
<1>1. /\ DecodeTyped /\ todo # <<>> /\ Top.left # <<>> /\ Top.left[1] = "msxml"
      /\ Top.pos = 0 /\ medium' = medium /\ next_page' = next_page
      /\ GoOn(Done) \/ Recurse(<<Child("MSXML", 0, text)>>, Done)
  BY RunningIs DEF MsxmlStep, ByHit
<1>2. Goes(Done)
  BY DEF Goes
<1>3. CASE GoOn(Done)
  BY <1>1, <1>2, <1>3, Onward
<1>4. CASE Recurse(<<Child("MSXML", 0, text)>>, Done)
  <2>1. text \in Seq(MediumCells)
    BY <1>1, TopCells, MsxmlText
  <2>2. "MSXML" \in PartNames /\ ScannerOf("MSXML") = "msxml" /\ "MSXML" \notin WholeSbuf
    BY DEF PartNames, ScannerOf, WholeSbuf
  <2> HIDE DEF text
  <2> DEFINE c == Child("MSXML", 0, text)
  <2>3. GoodChild(c, "MSXML", 0)
    <3> DEFINE name == "MSXML"
               place == 0
    <3>1. name \in PartNames /\ name # "XOR(255)" /\ place \in Nat /\ place = 0 /\ (name \in WholeSbuf => name = "OUTLOOK")
      BY <2>2 DEF WholeSbuf
    <3>2. name = "OUTLOOK" => Len(text) = Len(Top.cells)
      BY <2>1
    <3> HIDE DEF name, place
    <3>3. GoodChild(Child(name, place, text), name, place)
      BY <1>1, <2>1, <3>1, <3>2, ChildOfPlace
    <3>4. QED BY <3>3 DEF name, place
  <2>4. Recurse(<<c>>, Done)
    BY <1>4
  <2> HIDE DEF c
  <2>5. QED BY <1>1, <1>2, <2>2, <2>3, <2>4, OneChild
<1>5. QED BY <1>1, <1>3, <1>4

\* Masking, or unmasking, leaves as many cells.
LEMMA Unmasked ==
  ASSUME CellsOK(MediumCells), NEW by \in {"xor", "ofe"}, NEW text \in Seq(MediumCells)
  PROVE  [i \in DOMAIN text |-> Unmask(by, text[i])] \in Seq(MediumCells)
         /\ Len([i \in DOMAIN text |-> Unmask(by, text[i])]) = Len(text)
<1>1. ASSUME NEW c \in MediumCells PROVE Unmask(by, c) \in MediumCells
  <2>1. [is |-> "masked", by |-> by, cell |-> c] \in MediumCells
    BY DEF CellsOK
  <2>2. c.is = "masked" => c.cell \in MediumCells
    BY DEF CellsOK
  <2>3. QED BY <2>1, <2>2 DEF Unmask
<1>2. DOMAIN text = 1 .. Len(text) /\ Len(text) \in Nat /\ \A i \in DOMAIN text : text[i] \in MediumCells
  OBVIOUS
<1>3. \A i \in 1 .. Len(text) : Unmask(by, text[i]) \in MediumCells
  BY <1>1, <1>2
<1>4. QED BY <1>2, <1>3

LEMMA XorHandsOver == ASSUME DecodeInv, XorStep PROVE DecodeInv'
<1> DEFINE text == [i \in DOMAIN Cells |-> Unmask("xor", Cells[i])]
           c == [Child("XOR(255)", 0, text) EXCEPT !.pagesize = Top.pagesize]
<1>1. /\ DecodeTyped /\ todo # <<>> /\ Top.left # <<>> /\ Top.left[1] = "xor"
      /\ Top.pos = 0 /\ medium' = medium /\ next_page' = next_page
      /\ GoOn(Done) \/ Recurse(<<c>>, Done)
  BY RunningIs DEF XorStep, ByHit
<1>2. Goes(Done)
  BY DEF Goes
<1>3. CASE GoOn(Done)
  BY <1>1, <1>2, <1>3, Onward
<1>4. CASE Recurse(<<c>>, Done)
  <2>1. CellsOK(MediumCells) /\ Cells \in Seq(MediumCells) /\ Cells = Top.cells
    BY <1>1, TopCells
  <2>2. text \in Seq(MediumCells) /\ Len(text) = Len(Top.cells)
    BY <2>1, Unmasked
  <2>3. "XOR(255)" \in PartNames /\ ScannerOf("XOR(255)") = "xor"
    BY DEF PartNames, ScannerOf
  <2> HIDE DEF text
  <2>4. GoodChild(c, "XOR(255)", 0)
    BY <1>1, <2>2, <2>3, ChildIsGood, SMTT(30)
  <2> HIDE DEF c
  <2>5. QED BY <1>1, <1>2, <1>4, <2>3, <2>4, OneChild
<1>5. QED BY <1>1, <1>3, <1>4

LEMMA OutlookHandsOver == ASSUME DecodeInv, OutlookStep PROVE DecodeInv'
<1> DEFINE text == [i \in DOMAIN Cells |-> Unmask("ofe", Cells[i])]
           c == Child("OUTLOOK", 0, text)
<1>1. /\ DecodeTyped /\ todo # <<>> /\ Top.left # <<>> /\ Top.left[1] = "outlook"
      /\ Top.pos = 0 /\ medium' = medium /\ next_page' = next_page
      /\ GoOn(Done) \/ Recurse(<<c>>, Done)
  BY RunningIs DEF OutlookStep, ByHit
<1>2. Goes(Done)
  BY DEF Goes
<1>3. CASE GoOn(Done)
  BY <1>1, <1>2, <1>3, Onward
<1>4. CASE Recurse(<<c>>, Done)
  <2>1. CellsOK(MediumCells) /\ Cells \in Seq(MediumCells) /\ Cells = Top.cells
    BY <1>1, TopCells
  <2>2. text \in Seq(MediumCells) /\ Len(text) = Len(Top.cells)
    BY <2>1, Unmasked
  <2>3. "OUTLOOK" \in PartNames /\ ScannerOf("OUTLOOK") = "outlook" /\ "OUTLOOK" \notin {"XOR(255)"}
    BY DEF PartNames, ScannerOf
  <2> HIDE DEF text
  <2>4. GoodChild(c, "OUTLOOK", 0)
    <3> DEFINE name == "OUTLOOK"
               place == 0
    <3>1. name \in PartNames /\ name # "XOR(255)" /\ place \in Nat /\ place = 0 /\ (name \in WholeSbuf => name = "OUTLOOK")
      BY <2>3 DEF WholeSbuf
    <3>2. name = "OUTLOOK" => Len(text) = Len(Top.cells)
      BY <2>2
    <3> HIDE DEF name, place
    <3>3. GoodChild(Child(name, place, text), name, place)
      BY <1>1, <2>2, <3>1, <3>2, ChildOfPlace
    <3>4. QED BY <3>3 DEF name, place
  <2> HIDE DEF c
  <2>5. QED BY <1>1, <1>2, <1>4, <2>3, <2>4, OneChild
<1>5. QED BY <1>1, <1>3, <1>4

\* The streams of a document, in their order.
Streams == [tag : Nat, start : Nat, end : Nat]
IsStreams(s, loc) ==
  /\ s \in Seq(Streams)
  /\ \A a \in DOMAIN s : loc <= s[a].tag /\ s[a].tag < decode_bufsize /\ s[a].start <= s[a].end
  /\ \A a, b \in DOMAIN s : a < b => s[a].tag < s[b].tag

LEMMA StreamBefore ==
  ASSUME DecodeTyped, todo # <<>>, NEW s, NEW loc \in Nat, NEW k \in Nat, IsStreams(s, k), NEW x \in Streams,
         loc <= x.tag, x.tag < k, x.tag < decode_bufsize, x.start <= x.end
  PROVE  IsStreams(<<x>> \o s, loc)
<1> DEFINE all == <<x>> \o s
<1>1. s \in Seq(Streams) /\ DOMAIN s = 1 .. Len(s) /\ Len(s) \in Nat
  BY DEF IsStreams
<1>2. all \in Seq(Streams) /\ Len(all) = Len(s) + 1 /\ all[1] = x /\ \A a \in 1 .. Len(s) : all[a + 1] = s[a]
  BY <1>1
<1>3. DOMAIN all = 1 .. Len(s) + 1
  BY <1>1, <1>2
<1>4. x.tag \in Nat /\ \A a \in 1 .. Len(s) : s[a].tag \in Nat
  <2>1. \A a \in 1 .. Len(s) : s[a] \in Streams
    BY <1>1
  <2>2. QED BY <2>1 DEF Streams
<1> HIDE DEF all
<1>5. \A a \in DOMAIN all : a = 1 \/ (a - 1 \in 1 .. Len(s) /\ a = (a - 1) + 1 /\ all[a] = s[a - 1])
  <2>1. ASSUME NEW a \in 1 .. Len(s) + 1, a # 1 PROVE a - 1 \in 1 .. Len(s) /\ a = (a - 1) + 1
    BY <1>1, <2>1
  <2>2. QED BY <1>2, <1>3, <2>1
<1>6. \A a \in 1 .. Len(s) : k <= s[a].tag /\ s[a].tag < decode_bufsize /\ s[a].start <= s[a].end
  BY <1>1 DEF IsStreams
<1>7. ASSUME NEW a \in DOMAIN all PROVE loc <= all[a].tag /\ all[a].tag < decode_bufsize /\ all[a].start <= all[a].end
  <2>1. CASE a = 1
    BY <1>2, <2>1
  <2>2. CASE a # 1
    <3>1. a - 1 \in 1 .. Len(s) /\ all[a] = s[a - 1]
      BY <1>5, <2>2
    <3>2. k <= s[a - 1].tag /\ s[a - 1].tag \in Nat /\ s[a - 1].tag < decode_bufsize /\ s[a - 1].start <= s[a - 1].end
      BY <1>4, <1>6, <3>1
    <3>3. loc <= s[a - 1].tag
      BY <1>4, <3>2
    <3>4. QED BY <3>1, <3>2, <3>3
  <2>3. QED BY <2>1, <2>2
<1>8. ASSUME NEW a \in DOMAIN all, NEW b \in DOMAIN all, a < b PROVE all[a].tag < all[b].tag
  <2>1. a \in Nat /\ b \in Nat /\ b # 1 /\ a >= 1
    BY <1>1, <1>3, <1>8
  <2>2. b - 1 \in 1 .. Len(s) /\ all[b] = s[b - 1]
    BY <1>5, <2>1
  <2>3. CASE a = 1
    <3>1. k <= s[b - 1].tag /\ s[b - 1].tag \in Nat
      BY <1>4, <1>6, <2>2
    <3>2. x.tag < s[b - 1].tag
      BY <1>4, <3>1
    <3>3. QED BY <1>2, <2>2, <2>3, <3>2
  <2>4. CASE a # 1
    <3>1. a - 1 \in 1 .. Len(s) /\ all[a] = s[a - 1] /\ a - 1 < b - 1
      BY <1>5, <1>8, <2>1, <2>4
    <3>2. s[a - 1].tag < s[b - 1].tag
      BY <1>1, <2>2, <3>1 DEF IsStreams
    <3>3. QED BY <2>2, <3>1, <3>2
  <2>5. QED BY <2>3, <2>4
<1>9. QED BY <1>2, <1>7, <1>8 DEF IsStreams, all

\* The tags that find_streams looks at from loc on, and what it does next.
TagAt(loc) == Find("stream", loc, decode_bufsize)
EndAt(loc) == Find("end", TagAt(loc) + 2, decode_bufsize)
NextAt(loc) == Find("stream", TagAt(loc) + 2, decode_bufsize)
NoMore(loc) == loc + PDF_TAIL >= Top.pagesize \/ TagAt(loc) = decode_bufsize \/ EndAt(loc) = decode_bufsize
Nested(loc) == NextAt(loc) < decode_bufsize /\ EndAt(loc) + 1 # NextAt(loc)
Behind3(loc) == Shorter(EndAt(loc) + 3, decode_bufsize + 3)
FirstStream(loc) == [tag |-> TagAt(loc), start |-> TagAt(loc) + 2, end |-> EndAt(loc)]
Rest(g, loc) == IF NoMore(loc) THEN <<>> ELSE IF Nested(loc) THEN g[NextAt(loc)] ELSE <<FirstStream(loc)>> \o g[Behind3(loc)]

LEMMA TagsAre ==
  ASSUME DecodeTyped, todo # <<>>, NEW loc \in 0 .. decode_bufsize + 3, ~NoMore(loc)
  PROVE  /\ FirstStream(loc) \in Streams /\ loc <= FirstStream(loc).tag /\ FirstStream(loc).tag < decode_bufsize
         /\ FirstStream(loc).start <= FirstStream(loc).end
         /\ Nested(loc) => NextAt(loc) \in 0 .. decode_bufsize + 3 /\ loc < NextAt(loc)
         /\ Behind3(loc) \in 0 .. decode_bufsize + 3 /\ loc < Behind3(loc) /\ FirstStream(loc).tag < Behind3(loc)
<1> DEFINE N == decode_bufsize
           tag == TagAt(loc)
           end == EndAt(loc)
           next == NextAt(loc)
<1>1. N \in Nat /\ loc \in Nat
  BY TopCells
<1>2. tag \in Nat /\ loc <= tag /\ tag < N
  <2>1. TagAt(loc) # decode_bufsize
    BY DEF NoMore
  <2>2. QED BY <1>1, <2>1, FindIs DEF TagAt
<1>3. tag + 2 \in Nat
  BY <1>2
<1>4. end \in Nat /\ tag + 2 <= end /\ end < N
  <2>1. EndAt(loc) # decode_bufsize
    BY DEF NoMore
  <2>2. QED BY <1>1, <1>3, <2>1, FindIs DEF EndAt
<1>5. next < N => next \in Nat /\ tag + 2 <= next
  <2>1. CASE next = N
    BY <1>1, <2>1
  <2>2. CASE next # N
    BY <1>1, <1>3, <2>2, FindIs DEF NextAt
  <2>3. QED BY <2>1, <2>2
<1>6. FirstStream(loc).tag = tag /\ FirstStream(loc).start = tag + 2 /\ FirstStream(loc).end = end /\ FirstStream(loc) \in Streams
  <2> HIDE DEF tag, end, N
  <2>1. FirstStream(loc) = [tag |-> tag, start |-> tag + 2, end |-> end]
    BY DEF FirstStream, tag, end
  <2>2. QED BY <1>3, <1>2, <1>4, <2>1 DEF Streams
<1>7. Behind3(loc) = end + 3
  BY <1>1, <1>4 DEF Behind3, Shorter
<1> HIDE DEF tag, end, N, next
<1>8. Nested(loc) => next \in 0 .. N + 3 /\ loc < next
  BY <1>1, <1>2, <1>5 DEF Nested, next, N
<1>9. end + 3 \in 0 .. N + 3 /\ loc < end + 3 /\ tag < end + 3
  BY <1>1, <1>2, <1>4
<1>10. QED BY <1>2, <1>4, <1>6, <1>7, <1>8, <1>9 DEF next, N

\* find_streams takes what it returns from places behind the one it is at.
LEMMA RestIsAs ==
  ASSUME DecodeTyped, todo # <<>>
  PROVE  LET D == 0 .. decode_bufsize + 3
             S == Seq(Streams) IN
         /\ \A loc \in D : \A g \in [D -> S] : Rest(g, loc) \in S
         /\ \A loc \in D : \A g, h \in [D -> S] : (\A e \in D : loc < e => g[e] = h[e]) => Rest(g, loc) = Rest(h, loc)
<1> DEFINE D == 0 .. decode_bufsize + 3
           S == Seq(Streams)
<1>1. ASSUME NEW loc \in D, NEW g \in [D -> S] PROVE Rest(g, loc) \in S
  <2>1. CASE NoMore(loc)
    BY <2>1 DEF Rest
  <2>2. CASE ~NoMore(loc) /\ Nested(loc)
    <3>1. NextAt(loc) \in D
      BY <2>2, TagsAre
    <3> HIDE DEF D, S
    <3>2. QED BY <2>2, <3>1 DEF Rest
  <2>3. CASE ~NoMore(loc) /\ ~Nested(loc)
    <3>1. Behind3(loc) \in D /\ FirstStream(loc) \in Streams
      BY <2>3, TagsAre
    <3>2. g[Behind3(loc)] \in S /\ <<FirstStream(loc)>> \in S
      BY <3>1
    <3>3. <<FirstStream(loc)>> \o g[Behind3(loc)] \in S
      BY <3>2
    <3> HIDE DEF D, S
    <3>4. QED BY <2>3, <3>3 DEF Rest
  <2>4. QED BY <2>1, <2>2, <2>3
<1>2. ASSUME NEW loc \in D, NEW g \in [D -> S], NEW h \in [D -> S], \A e \in D : loc < e => g[e] = h[e]
      PROVE  Rest(g, loc) = Rest(h, loc)
  <2>1. CASE NoMore(loc)
    BY <2>1 DEF Rest
  <2>2. CASE ~NoMore(loc)
    <3>1. /\ Nested(loc) => NextAt(loc) \in D /\ loc < NextAt(loc)
          /\ Behind3(loc) \in D /\ loc < Behind3(loc)
      BY <2>2, TagsAre
    <3> HIDE DEF D, S
    <3>2. QED BY <1>2, <3>1 DEF Rest
  <2>3. QED BY <2>1, <2>2
<1>3. QED BY <1>1, <1>2

\* The definition of find_streams has a solution, and it yields streams in their order.
LEMMA StreamsFound ==
  ASSUME DecodeTyped, todo # <<>>
  PROVE  IsStreams(find_streams(0), 0)
<1> DEFINE N == decode_bufsize
           D == 0 .. N + 3
           S == Seq(Streams)
           found[loc \in D] ==
             LET tag == Find("stream", loc, decode_bufsize)
                 start == tag + 2
                 end == Find("end", start, decode_bufsize)
                 next == Find("stream", start, decode_bufsize) IN
             IF loc + PDF_TAIL >= Top.pagesize \/ tag = decode_bufsize \/ end = decode_bufsize THEN <<>>
             ELSE IF next < decode_bufsize /\ end + 1 # next THEN found[next]
             ELSE <<[tag |-> tag, start |-> start, end |-> end]>> \o found[Shorter(end + 3, decode_bufsize + 3)]
           rank == [loc \in D |-> N + 3 - loc]
           B == [loc \in D |-> [g \in [D -> S] |-> Rest(g, loc)]]
<1>0. N \in Nat
  BY TopCells
<1>1. find_streams(0) = found[0]
  BY DEF find_streams
<1>2. B \in Rules(D, S, rank)
  <2>1. B \in [D -> [[D -> S] -> S]]
    BY RestIsAs
  <2>2. ASSUME NEW loc \in D, NEW g \in [D -> S], NEW h \in [D -> S], \A e \in D : rank[e] < rank[loc] => g[e] = h[e]
        PROVE  B[loc][g] = B[loc][h]
    <3>1. \A e \in D : loc < e => rank[e] < rank[loc]
      BY <1>0
    <3>2. \A e \in D : loc < e => g[e] = h[e]
      BY <2>2, <3>1
    <3>3. Rest(g, loc) = Rest(h, loc)
      BY <3>2, RestIsAs
    <3>4. QED BY <3>3
  <2> HIDE DEF B, D, S, rank
  <2>3. QED BY <2>1, <2>2 DEF Rules
<1>3. rank \in Ranks(D, N + 4) /\ N + 4 \in Nat
  BY <1>0 DEF Ranks
<1>4. Solutions(D, S, B) # {}
  <2>1. <<>> \in S
    OBVIOUS
  <2> HIDE DEF B, D, S, rank
  <2>2. QED BY <1>2, <1>3, <2>1, Ranked
<1>5. PICK f \in [D -> S] : \A loc \in D : f[loc] = B[loc][f]
  <2> HIDE DEF B, D, S, rank
  <2>1. QED BY <1>4 DEF Solutions
<1>6. \A loc \in D : f[loc] = Rest(f, loc)
  <2> HIDE DEF D, S
  <2>1. QED BY <1>5
<1>7. f = [loc \in D |->
             LET tag == Find("stream", loc, decode_bufsize)
                 start == tag + 2
                 end == Find("end", start, decode_bufsize)
                 next == Find("stream", start, decode_bufsize) IN
             IF loc + PDF_TAIL >= Top.pagesize \/ tag = decode_bufsize \/ end = decode_bufsize THEN <<>>
             ELSE IF next < decode_bufsize /\ end + 1 # next THEN f[next]
             ELSE <<[tag |-> tag, start |-> start, end |-> end]>> \o f[Shorter(end + 3, decode_bufsize + 3)]]
  <2> HIDE DEF D, S, B, rank, found
  <2>1. QED BY <1>5, <1>6 DEF Rest, NoMore, Nested, Behind3, FirstStream, TagAt, EndAt, NextAt
<1>8. found = [loc \in D |->
             LET tag == Find("stream", loc, decode_bufsize)
                 start == tag + 2
                 end == Find("end", start, decode_bufsize)
                 next == Find("stream", start, decode_bufsize) IN
             IF loc + PDF_TAIL >= Top.pagesize \/ tag = decode_bufsize \/ end = decode_bufsize THEN <<>>
             ELSE IF next < decode_bufsize /\ end + 1 # next THEN found[next]
             ELSE <<[tag |-> tag, start |-> start, end |-> end]>> \o found[Shorter(end + 3, decode_bufsize + 3)]]
  BY <1>7, Zenon
<1> HIDE DEF found, rank, B
<1>9. \A loc \in D : found[loc] = Rest(found, loc)
  <2> HIDE DEF D, S
  <2>1. QED BY <1>8 DEF Rest, NoMore, Nested, Behind3, FirstStream, TagAt, EndAt, NextAt
<1> HIDE DEF S
<1> DEFINE Q(n) == \A loc \in D : N + 3 - loc < n => IsStreams(found[loc], loc)
           P == {n \in Nat : Q(n)}
<1>10. 0 \in P
  <2>1. \A loc \in D : ~(N + 3 - loc < 0)
    BY <1>0
  <2>2. QED BY <2>1
<1>11. ASSUME NEW n \in P PROVE n + 1 \in P
  <2>1. SUFFICES ASSUME NEW loc \in D, N + 3 - loc < n + 1 PROVE IsStreams(found[loc], loc)
    OBVIOUS
  <2>2. ASSUME NEW e \in D, loc < e PROVE IsStreams(found[e], e)
    <3>1. N + 3 - e < n
      BY <1>0, <2>1, <2>2
    <3>2. QED BY <3>1
  <2>3. loc \in Nat
    BY <1>0
  <2> HIDE DEF P
  <2>4. CASE NoMore(loc)
    <3>1. found[loc] = <<>>
      BY <1>9, <2>4 DEF Rest
    <3>2. IsStreams(<<>>, loc)
      BY DEF IsStreams
    <3>3. QED BY <3>1, <3>2
  <2>5. CASE ~NoMore(loc) /\ Nested(loc)
    <3>1. NextAt(loc) \in D /\ loc < NextAt(loc)
      BY <2>5, TagsAre
    <3>2. found[loc] = found[NextAt(loc)]
      BY <1>9, <2>5 DEF Rest
    <3>3. IsStreams(found[loc], NextAt(loc)) /\ NextAt(loc) \in Nat
      BY <1>0, <2>2, <3>1, <3>2
    <3>4. found[loc] \in Seq(Streams)
      BY <3>3 DEF IsStreams
    <3>5. \A a \in DOMAIN found[loc] : found[loc][a].tag \in Nat
      <4>1. \A a \in DOMAIN found[loc] : found[loc][a] \in Streams
        BY <3>4
      <4>2. QED BY <4>1 DEF Streams
    <3>6. \A a \in DOMAIN found[loc] : loc <= found[loc][a].tag
      BY <2>3, <3>1, <3>3, <3>5 DEF IsStreams
    <3>7. QED BY <3>3, <3>6 DEF IsStreams
  <2>6. CASE ~NoMore(loc) /\ ~Nested(loc)
    <3>1. /\ FirstStream(loc) \in Streams /\ loc <= FirstStream(loc).tag /\ FirstStream(loc).tag < decode_bufsize
          /\ FirstStream(loc).start <= FirstStream(loc).end
          /\ Behind3(loc) \in D /\ loc < Behind3(loc) /\ FirstStream(loc).tag < Behind3(loc)
      BY <2>6, TagsAre
    <3>2. found[loc] = <<FirstStream(loc)>> \o found[Behind3(loc)]
      BY <1>9, <2>6 DEF Rest
    <3>3. IsStreams(found[Behind3(loc)], Behind3(loc)) /\ Behind3(loc) \in Nat
      BY <1>0, <2>2, <3>1
    <3>4. IsStreams(<<FirstStream(loc)>> \o found[Behind3(loc)], loc)
      BY <2>3, <3>1, <3>3, StreamBefore
    <3>5. QED BY <3>2, <3>4
  <2>7. QED BY <2>4, <2>5, <2>6
<1> HIDE DEF Q
<1>12. P = Nat
  <2> HIDE DEF P
  <2>1. P \in SUBSET Nat
    BY DEF P
  <2>2. QED BY <1>10, <1>11, <2>1, Steps
<1>13. N + 4 \in P
  BY <1>0, <1>12
<1>14. Q(N + 4)
  BY <1>13
<1>15. 0 \in D /\ N + 3 - 0 < N + 4
  BY <1>0
<1>16. QED BY <1>1, <1>14, <1>15 DEF Q

LEMMA PdfText ==
  ASSUME CellsOK(MediumCells), NEW text \in Seq(MediumCells)
  PROVE  extract_text(text) \in Seq(MediumCells)
<1> DEFINE inside(i) == \E j \in 1 .. i : text[j].is = "(" /\ \A k \in j + 1 .. i : text[k].is # ")"
           word(i) == inside(i) /\ inside(i - 1)
           words_have_spaces == \E i \in DOMAIN text : word(i) /\ text[i].is = " "
           piece == [i \in 1 .. Len(text) |->
                      IF word(i) THEN <<text[i]>>
                      ELSE IF inside(i - 1) /\ ~words_have_spaces THEN <<Char(" ")>> ELSE <<>>]
<1>1. Len(text) \in Nat /\ DOMAIN text = 1 .. Len(text) /\ Char(" ") \in MediumCells
  <2>1. Char(" ") \in MediumCells
    BY DEF CellsOK
  <2>2. Len(text) \in Nat /\ DOMAIN text = 1 .. Len(text)
    OBVIOUS
  <2>3. QED BY <2>1, <2>2
<1>2. extract_text(text) = FlattenSeq([i \in 1 .. Len(text) |-> piece[i]])
  <2>1. [i \in 1 .. Len(text) |-> piece[i]] = piece
    OBVIOUS
  <2>2. extract_text(text) = FlattenSeq(piece)
    BY <1>1 DEF extract_text
  <2> HIDE DEF piece
  <2>3. QED BY <2>1, <2>2
<1>3. \A i \in 1 .. Len(text) : piece[i] \in Seq(MediumCells)
  <2> SUFFICES ASSUME NEW i \in 1 .. Len(text) PROVE piece[i] \in Seq(MediumCells)
    OBVIOUS
  <2>1. text[i] \in MediumCells
    OBVIOUS
  <2>2. <<text[i]>> \in Seq(MediumCells) /\ <<Char(" ")>> \in Seq(MediumCells) /\ <<>> \in Seq(MediumCells)
    BY <1>1, <2>1, OneCell
  <2> HIDE DEF word, inside, words_have_spaces
  <2>3. piece[i] \in {<<text[i]>>, <<Char(" ")>>, <<>>}
    OBVIOUS
  <2> HIDE DEF piece
  <2>4. QED BY <2>2, <2>3
<1> HIDE DEF piece
<1>4. QED BY <1>1, <1>2, <1>3, Pieced

LEMMA PdfHandsOver == ASSUME DecodeInv, PdfStep PROVE DecodeInv'
<1>1. /\ DecodeTyped /\ todo # <<>> /\ Top.left # <<>> /\ Top.left[1] = "pdf"
      /\ Top.pos = 0 /\ medium' = medium /\ next_page' = next_page
  BY RunningIs DEF PdfStep, ByHit
<1>2. PICK streams \in {find_streams(0)} :
        \E dbufs \in {[i \in DOMAIN streams |->
             sbuf_new_decompress(streams[i].start, streams[i].end - streams[i].start, Cells[streams[i].tag + 1].ok)]} :
        \E texts \in {[i \in DOMAIN streams |->
             Child("PDF", streams[i].tag, IF mostly_printable_ascii(dbufs[i]) THEN extract_text(dbufs[i]) ELSE <<>>)]} :
          Recurse(FlattenSeq([i \in DOMAIN texts |-> IF texts[i].cells = <<>> THEN <<>> ELSE <<texts[i]>>]), Done)
  BY Zenon DEF PdfStep
<1>3. PICK dbufs \in {[i \in DOMAIN streams |->
             sbuf_new_decompress(streams[i].start, streams[i].end - streams[i].start, Cells[streams[i].tag + 1].ok)]} :
        \E texts \in {[i \in DOMAIN streams |->
             Child("PDF", streams[i].tag, IF mostly_printable_ascii(dbufs[i]) THEN extract_text(dbufs[i]) ELSE <<>>)]} :
          Recurse(FlattenSeq([i \in DOMAIN texts |-> IF texts[i].cells = <<>> THEN <<>> ELSE <<texts[i]>>]), Done)
  BY <1>2, Zenon
<1>4. PICK texts \in {[i \in DOMAIN streams |->
             Child("PDF", streams[i].tag, IF mostly_printable_ascii(dbufs[i]) THEN extract_text(dbufs[i]) ELSE <<>>)]} :
          Recurse(FlattenSeq([i \in DOMAIN texts |-> IF texts[i].cells = <<>> THEN <<>> ELSE <<texts[i]>>]), Done)
  BY <1>3, Zenon
<1>5. IsStreams(streams, 0)
  BY <1>1, StreamsFound
<1>6. /\ streams \in Seq(Streams) /\ Len(streams) \in Nat /\ DOMAIN streams = 1 .. Len(streams)
      /\ CellsOK(MediumCells) /\ decode_bufsize = Len(Top.cells)
  BY <1>1, <1>5, TopCells DEF IsStreams
<1>7. ASSUME NEW i \in DOMAIN streams
      PROVE  streams[i].tag \in Nat /\ streams[i].start \in Nat /\ streams[i].end - streams[i].start \in Nat /\ streams[i].tag < decode_bufsize
  <2>1. streams[i] \in Streams
    BY <1>6
  <2>2. streams[i].tag \in Nat /\ streams[i].start \in Nat /\ streams[i].end \in Nat
    BY <2>1 DEF Streams
  <2>3. streams[i].start <= streams[i].end /\ streams[i].tag < decode_bufsize
    BY <1>5 DEF IsStreams
  <2>4. QED BY <2>2, <2>3
<1>8. ASSUME NEW i \in DOMAIN streams PROVE GoodChild(texts[i], "PDF", streams[i].tag)
  <2>1. dbufs[i] \in Seq(MediumCells)
    <3>1. dbufs[i] = sbuf_new_decompress(streams[i].start, streams[i].end - streams[i].start, Cells[streams[i].tag + 1].ok)
      OBVIOUS
    <3>2. QED BY <1>1, <1>7, <3>1, TextOf
  <2> DEFINE text == IF mostly_printable_ascii(dbufs[i]) THEN extract_text(dbufs[i]) ELSE <<>>
  <2>2. text \in Seq(MediumCells)
    BY <1>6, <2>1, PdfText
  <2>3. texts[i] = Child("PDF", streams[i].tag, text)
    OBVIOUS
  <2> HIDE DEF text
  <2>4. "PDF" \in PartNames /\ "PDF" # "XOR(255)" /\ "PDF" \in IntoMargin /\ "PDF" \notin WholeSbuf
    BY DEF PartNames, IntoMargin, WholeSbuf
  <2> DEFINE at == streams[i].tag
  <2>5. at \in Nat /\ Top.pos <= at /\ at < Len(Top.cells)
    BY <1>1, <1>6, <1>7
  <2> HIDE DEF at
  <2>6. GoodChild(Child("PDF", at, text), "PDF", at)
    BY <1>1, <2>2, <2>4, <2>5, ChildOfPlace
  <2>7. QED BY <2>3, <2>6 DEF at
<1>9. DOMAIN texts = 1 .. Len(streams) /\ texts \in Seq(Sbufs) /\ Len(texts) = Len(streams)
  <2>1. \A i \in 1 .. Len(streams) : texts[i] \in Sbufs
    BY <1>6, <1>8 DEF GoodChild
  <2>2. \E h : texts = [i \in 1 .. Len(streams) |-> h[i]]
    <3>1. texts = [i \in DOMAIN streams |-> texts[i]]
      OBVIOUS
    <3>2. QED BY <1>6, <3>1
  <2>3. DOMAIN texts = 1 .. Len(streams)
    BY <2>2
  <2>4. QED BY <1>6, <2>1, <2>2, <2>3
<1> DEFINE piece == [i \in DOMAIN texts |-> IF texts[i].cells = <<>> THEN <<>> ELSE <<texts[i]>>]
           children == FlattenSeq(piece)
           F == Seq(Sbufs)
<1>10. piece \in Seq(F) /\ Len(piece) = Len(texts) /\ \A i \in 1 .. Len(texts) : piece[i] \in {<<>>, <<texts[i]>>}
  <2>1. \A i \in 1 .. Len(texts) : piece[i] \in {<<>>, <<texts[i]>>}
    BY <1>9
  <2>2. \A i \in 1 .. Len(texts) : piece[i] \in F
    <3> SUFFICES ASSUME NEW i \in 1 .. Len(texts) PROVE piece[i] \in F
      OBVIOUS
    <3>1. texts[i] \in Sbufs
      BY <1>9
    <3>2. <<texts[i]>> \in F /\ <<>> \in F
      BY <3>1, OneCell
    <3> HIDE DEF piece, F
    <3>3. QED BY <2>1, <3>2
  <2>3. DOMAIN piece = 1 .. Len(texts) /\ Len(texts) \in Nat
    BY <1>6, <1>9
  <2>4. \E h : piece = [i \in 1 .. Len(texts) |-> h[i]]
    <3>1. piece = [i \in 1 .. Len(texts) |-> piece[i]]
      BY <1>9
    <3>2. QED BY <3>1, ZenonT(30)
  <2> HIDE DEF piece, F
  <2>5. QED BY <2>1, <2>2, <2>3, <2>4
<1>11. Recurse(children, Done)
  BY <1>4
<1> HIDE DEF piece
<1>12. children \in Seq(Sbufs)
  BY <1>10, Flattened
<1>13. PickedFrom(children, texts, piece, Len(texts)) \/ children = <<>>
  BY <1>9, <1>10, Picked
<1> HIDE DEF children
<1>14. \E f \in [DOMAIN children -> 1 .. Len(texts)] :
          /\ \A a, b \in DOMAIN children : a < b => f[a] < f[b]
          /\ \A a \in DOMAIN children : children[a] = texts[f[a]]
  <2>0. DOMAIN children = 1 .. Len(children)
    BY <1>12
  <2>1. CASE PickedFrom(children, texts, piece, Len(texts))
    BY <2>0, <2>1 DEF PickedFrom
  <2>2. CASE children = <<>>
    <3>1. DOMAIN children = {}
      BY <2>2
    <3>2. [a \in {} |-> 1] \in [DOMAIN children -> 1 .. Len(texts)]
      BY <3>1
    <3>3. QED BY <3>1, <3>2
  <2>3. QED BY <1>13, <2>1, <2>2
<1>15. PICK f \in [DOMAIN children -> 1 .. Len(texts)] :
          /\ \A a, b \in DOMAIN children : a < b => f[a] < f[b]
          /\ \A a \in DOMAIN children : children[a] = texts[f[a]]
  BY <1>14
<1> DEFINE hit == [a \in DOMAIN children |-> streams[f[a]].tag]
<1>16. \A a \in DOMAIN children : f[a] \in DOMAIN streams /\ hit[a] = streams[f[a]].tag
  BY <1>6, <1>9
<1>17. hit \in [DOMAIN children -> Nat]
  BY <1>7, <1>16
<1> HIDE DEF hit
<1>18. \A a \in DOMAIN children : GoodChild(children[a], "PDF", hit[a])
  BY <1>8, <1>15, <1>16
<1>19. ASSUME NEW a \in DOMAIN children, NEW b \in DOMAIN children, a < b PROVE hit[a] # hit[b]
  <2>1. f[a] < f[b] /\ f[a] \in DOMAIN streams /\ f[b] \in DOMAIN streams
    BY <1>15, <1>16, <1>19
  <2>2. streams[f[a]].tag < streams[f[b]].tag /\ streams[f[a]].tag \in Nat /\ streams[f[b]].tag \in Nat
    BY <1>5, <1>7, <2>1 DEF IsStreams
  <2>3. QED BY <1>16, <2>2
<1>20. \A a, b \in DOMAIN children : a # b => hit[a] # hit[b]
  <2>1. \A a, b \in DOMAIN children : a # b => a < b \/ b < a
    <3>1. DOMAIN children = 1 .. Len(children) /\ Len(children) \in Nat
      BY <1>12
    <3>2. QED BY <3>1
  <2>2. QED BY <1>19, <2>1
<1>21. Goes(Done) /\ "PDF" \in PartNames /\ ScannerOf("PDF") = "pdf"
  BY DEF Goes, PartNames, ScannerOf
<1>22. \A c \in DOMAIN children : GoodChild(children[c], "PDF", hit[c]) /\ (Done = Done \/ hit[c] < Done)
  BY <1>18
<1>23. QED BY <1>1, <1>11, <1>12, <1>17, <1>20, <1>21, <1>22, Handable, SMTT(60)

LEMMA DecodeKept == ASSUME DecodeInv, [DecodeStep]_decode_vars PROVE DecodeInv'
<1>1. CASE UNCHANGED decode_vars
  <2>1. medium' = medium /\ todo' = todo /\ next_page' = next_page /\ processed' = processed /\ decoded' = decoded
    BY <1>1 DEF decode_vars
  <2>2. DecodeTyped'
    BY <2>1 DEF DecodeInv, DecodeTyped, IsMedium, MediumIn, MediumCells, Sbufs, DecodedTexts
  <2>3. Stacked'
    BY <2>1 DEF DecodeInv, Stacked, Fits, ThisPage, OfPage, Behind, NotYet, Inside
  <2>4. Settled'
    BY <2>1 DEF DecodeInv, Settled, Older, ThisPage, OfPage, Behind, NotYet, Inside
  <2>5. DecodedOnce'
    BY <2>1 DEF DecodeInv, DecodedOnce
  <2>6. QED BY <2>2, <2>3, <2>4, <2>5 DEF DecodeInv
<1>2. CASE DecodeStep
  BY <1>2, PageStep, UnwindStep, ZipHandsOver, GzipHandsOver, HiberHandsOver, PdfHandsOver, MsxmlHandsOver, XorHandsOver,
     OutlookHandsOver DEF DecodeStep
<1>3. QED BY <1>1, <1>2

\* Nothing is decoded twice at one place, by two pages or by one, by whatever scanners and
\* however deep, but for what pdf, hiberfile and outlook find in a margin (the loops of
\* scan_zip.cpp, scan_gzip.cpp, scan_pdf.cpp, scan_hiberfile.cpp and the depth of recurse()).
THEOREM DecodedApart == DecodeSpec => []DecodedOnce
<1>1. DecodeInit /\ IsMedium => DecodeInv
  BY DecodeStart
<1>2. DecodeInv /\ [DecodeStep]_decode_vars => DecodeInv'
  BY DecodeKept
<1>3. DecodeInv => DecodedOnce
  BY DEF DecodeInv
<1>4. QED BY <1>1, <1>2, <1>3, PTL DEF DecodeSpec

\* The variables of the decoding scanners keep their types, and no sbuf that is scanned is
\* nested deeper than max_depth.
THEOREM DecodersTyped == DecodeSpec => []DecodeTypeOK
<1>1. DecodeInit /\ IsMedium => DecodeInv
  BY DecodeStart
<1>2. DecodeInv /\ [DecodeStep]_decode_vars => DecodeInv'
  BY DecodeKept
<1>3. ASSUME DecodeInv PROVE DecodeTypeOK
  <2>1. DecodeTyped /\ next_page \in Nat /\ todo \in Seq(Sbufs)
    BY <1>3 DEF DecodeInv, DecodeTyped
  <2>2. ASSUME NEW i \in DOMAIN todo
        PROVE  todo[i].pos \in Nat /\ todo[i].pagesize \in 0 .. Len(todo[i].cells) /\ Len(todo[i].path) <= max_depth
    <3>1. todo[i] \in Sbufs
      BY <2>1
    <3>2. todo[i].pos \in Nat /\ todo[i].pagesize \in Nat /\ Len(todo[i].cells) \in Nat
      <4>1. todo[i].cells \in Seq(MediumCells) /\ todo[i].pos \in Nat /\ todo[i].pagesize \in Nat
        BY <3>1 DEF Sbufs
      <4>2. QED BY <4>1
    <3>3. todo[i].pagesize <= Len(todo[i].cells) /\ Len(todo[i].path) <= max_depth
      BY <2>1 DEF DecodeTyped
    <3>4. QED BY <3>2, <3>3
  <2>3. QED BY <2>1, <2>2 DEF DecodeTypeOK
<1>4. QED BY <1>1, <1>2, <1>3, PTL DEF DecodeSpec

-----------------------------------------------------------------------------
(* The Exif scanner *)

\* A picture of any cells, with any page and margin.
IsPicture ==
  /\ scanner = "exif" /\ \E C : image.cells \in Seq(C)
  /\ \A k \in 1 .. ImageSize : PictureCell(image.cells[k])
  /\ image.pagesize \in Nat \ {0} /\ image.margin \in Nat

exif_vars == <<walk_vars, entries>>
ExifInit == WalkInit /\ entries = <<>> /\ IsPicture
ExifSpec == ExifInit /\ [][ExifStep]_exif_vars

\* What an entry is, and a report.
Dirs == {"tiff", "exif", "gps", "interoperability", "none"}
Visited == [ifd : {"ifd0", "ifd1"}, dir : Dirs, k : Nat]
Tags == UNION {Known[d] : d \in Dirs}
Entries(n) == [ifd : {"ifd0", "ifd1"}, dir : Dirs, name : Tags, at : -1 .. n - 1]
Features == [kind : {"exif", "entry", "gps", "position", "jpeg"}, from : Nat, to : Nat]
Bounded(r) == r.from <= r.to /\ r.to <= ImageSize

ExifTyped ==
  /\ IsPicture /\ page \in Nat /\ pos \in Nat /\ memo = 0
  /\ entries \in Seq(Entries(bufsize))
  /\ reports \in Seq(Features) /\ \A i \in DOMAIN reports : Bounded(reports[i])

\* A JPEG that was carved began no later than in this page, and ends before the place that
\* the scanner looks at unless it began in an earlier page.
JpegsBehind ==
  \A i \in DOMAIN reports :
    reports[i].kind = "jpeg" =>
      /\ reports[i].from < WalkStart + image.pagesize
      /\ reports[i].to <= WalkStart + pos \/ PageBound(reports[i].from) <= WalkStart

ExifInv == ExifTyped /\ JpegsBehind /\ JpegsCarvedOnce

\* The numbers of the page.
LEMMA InPicture ==
  ASSUME IsPicture, page \in Nat
  PROVE  /\ ImageSize \in Nat /\ WalkStart \in Nat /\ image.pagesize \in Nat
         /\ ~WalkDone => /\ pagesize \in Nat /\ bufsize \in Nat
                         /\ 0 < pagesize /\ pagesize <= bufsize /\ WalkStart + bufsize <= ImageSize
                         /\ pagesize <= image.pagesize
<1>1. ImageSize \in Nat
  BY DEF IsPicture, ImageSize
<1>2. image.pagesize \in Nat \ {0} /\ image.margin \in Nat
  BY DEF IsPicture
<1>3. WalkStart \in Nat
  BY <1>2 DEF WalkStart
<1>4. ASSUME ~WalkDone
      PROVE  /\ pagesize \in Nat /\ bufsize \in Nat
             /\ 0 < pagesize /\ pagesize <= bufsize /\ WalkStart + bufsize <= ImageSize
             /\ pagesize <= image.pagesize
  BY <1>1, <1>2, <1>3, <1>4 DEF WalkDone, pagesize, bufsize, Least
<1>5. QED BY <1>1, <1>2, <1>3, <1>4

\* A page begins no later than the page of a later place.
LEMMA FirstIsBefore ==
  ASSUME NEW s \in Nat \ {0}, NEW n \in Nat, NEW q \in Nat, q < n * s + s
  PROVE  (q \div s) * s <= n * s /\ (q \div s) * s \in Nat
<1>1. q = s * (q \div s) + (q % s) /\ 0 <= q % s /\ q % s < s /\ q \div s \in Nat
  OBVIOUS
<1> DEFINE d == q \div s
<1> HIDE DEF d
<1>2. d \in Nat /\ s * d <= q /\ s * d = d * s /\ s * d \in Nat
  BY <1>1 DEF d
<1>3. d <= n
  <2> SUFFICES ASSUME n < d PROVE FALSE
    BY <1>2
  <2>1. d - n - 1 \in Nat
    BY <1>2
  <2>2. s * (d - n - 1) >= 0 /\ s * (d - n - 1) = s * d - s * n - s
    BY <1>2, <2>1
  <2>3. QED BY <1>2, <2>2
<1>4. n - d \in Nat /\ s * (n - d) >= 0 /\ s * (n - d) = s * n - s * d
  BY <1>2, <1>3
<1>5. d * s <= n * s
  BY <1>2, <1>4
<1>6. QED BY <1>2, <1>5 DEF d

LEMMA CellIsOne ==
  ASSUME IsPicture, page \in Nat, ~WalkDone, NEW k \in Nat
  PROVE  /\ PictureCell(Cell(k, NoPicture))
         /\ k >= bufsize => Cell(k, NoPicture) = NoPicture
<1>1. CASE k < bufsize
  <2>1. WalkStart + k + 1 \in 1 .. ImageSize /\ ~(k >= bufsize)
    BY <1>1, InPicture
  <2>2. QED BY <1>1, <2>1 DEF IsPicture, Cell
<1>2. CASE k >= bufsize
  <2>1. Cell(k, NoPicture) = NoPicture
    BY <1>2, InPicture DEF Cell
  <2>2. PictureCell(NoPicture)
    BY DEF PictureCell, NoPicture
  <2>3. QED BY <2>1, <2>2
<1>3. QED BY <1>1, <1>2, InPicture

\* What is looked for in the sbuf lies in it.
LEMMA KindIs ==
  ASSUME IsPicture, page \in Nat, ~WalkDone, NEW k \in Nat, NEW is, is # "other", HasKind(k, is)
  PROVE  k < bufsize /\ PictureCell(Cell(k, NoPicture)) /\ Cell(k, NoPicture).is = is
<1>1. Cell(k, NoPicture).is = is
  BY DEF HasKind
<1>2. ~(k >= bufsize)
  BY <1>1, CellIsOne DEF NoPicture
<1>3. QED BY <1>1, <1>2, CellIsOne, InPicture

-----------------------------------------------------------------------------
(* What is read of a TIFF structure *)

LEMMA NumbersRead ==
  ASSUME IsPicture, page \in Nat, ~WalkDone, NEW t \in Nat, NEW k \in Nat
  PROVE  /\ get_num_entries(t, k) \in Nat
         /\ EntryAt(t, k).offset \in Nat
         /\ HasKind(t, "TIFF") => get_first_ifd_offset(t) \in Nat
         /\ get_next_ifd_offset(t, k) \in Nat
<1>1. t + k \in Nat
  OBVIOUS
<1>2. get_num_entries(t, k) \in Nat
  BY <1>1, KindIs DEF get_num_entries, PictureCell
<1>3. EntryAt(t, k).offset \in Nat
  <2>1. CASE HasKind(t + k, "entry")
    BY <1>1, <2>1, KindIs DEF EntryAt, PictureCell
  <2>2. CASE ~HasKind(t + k, "entry")
    BY <2>2 DEF EntryAt, NoEntry
  <2>3. QED BY <2>1, <2>2
<1>4. HasKind(t, "TIFF") => get_first_ifd_offset(t) \in Nat
  BY KindIs DEF get_first_ifd_offset, PictureCell
<1>5. get_next_ifd_offset(t, k) \in Nat
  <2> DEFINE n == t + k + get_num_entries(t, k) + 1
  <2>1. n \in Nat
    BY <1>2
  <2> HIDE DEF n
  <2>2. HasKind(n, "next") => Cell(n, NoPicture).ifd \in Nat
    BY <2>1, KindIs DEF PictureCell
  <2>3. (IF HasKind(n, "next") THEN Cell(n, NoPicture).ifd ELSE 0) \in Nat
    BY <2>2
  <2>4. QED BY <2>3 DEF get_next_ifd_offset, n
<1>6. QED BY <1>2, <1>3, <1>4, <1>5

LEMMA DirectoryRead ==
  ASSUME IsPicture, page \in Nat, ~WalkDone, NEW t \in Nat, NEW k \in Nat, NEW ifd \in {"ifd0", "ifd1"}, NEW dir \in Dirs,
         NEW forwarded \in [Index -> Seq(Visited)]
  PROVE  parse_ifd_entries(ifd, dir, t, k, forwarded) \in Seq(Visited)
<1>1. get_num_entries(t, k) \in Nat
  BY NumbersRead
<1> DEFINE n == get_num_entries(t, k)
           one == [i \in 1 .. n |-> <<[ifd |-> ifd, dir |-> dir, k |-> k + i]>> \o forwarded[i]]
<1>2. CASE n > OPT_MAX_IFD_ENTRIES
  <2>1. TooMany \in Visited
    BY DEF TooMany, Visited, Dirs
  <2>2. parse_ifd_entries(ifd, dir, t, k, forwarded) = <<TooMany>>
    BY <1>2 DEF parse_ifd_entries
  <2>3. QED BY <2>1, <2>2
<1>3. CASE ~(n > OPT_MAX_IFD_ENTRIES)
  <2>1. ASSUME NEW i \in 1 .. n PROVE <<[ifd |-> ifd, dir |-> dir, k |-> k + i]>> \o forwarded[i] \in Seq(Visited)
    <3>1. i \in Index
      BY <1>1, <1>3, <2>1, ExifAssumption DEF Index
    <3>2. forwarded[i] \in Seq(Visited)
      BY <3>1
    <3>3. k + i \in Nat
      BY <1>1, <2>1
    <3> DEFINE v == [ifd |-> ifd, dir |-> dir, k |-> k + i]
    <3>4. v \in Visited
      BY <3>3 DEF Visited
    <3> HIDE DEF v
    <3>5. <<v>> \in Seq(Visited)
      BY <3>4
    <3>6. <<v>> \o forwarded[i] \in Seq(Visited)
      BY <3>2, <3>5
    <3>7. QED BY <3>6 DEF v
  <2>2. one \in Seq(Seq(Visited))
    <3> HIDE DEF n
    <3>1. n \in Nat
      BY <1>1 DEF n
    <3>2. one \in [1 .. n -> Seq(Visited)]
      BY <2>1
    <3> HIDE DEF one
    <3>3. QED BY <3>1, <3>2
  <2>3. FlattenSeq(one) \in Seq(Visited)
    BY <2>2, Flattened
  <2>4. parse_ifd_entries(ifd, dir, t, k, forwarded) = FlattenSeq(one)
    BY <1>3 DEF parse_ifd_entries
  <2>5. QED BY <2>3, <2>4
<1>4. QED BY <1>2, <1>3

LEMMA VisitsTyped ==
  ASSUME IsPicture, page \in Nat, ~WalkDone, NEW t \in Nat, HasKind(t, "TIFF")
  PROVE  Visits(t) \in Seq(Visited)
<1>1. Leaf \in [Index -> Seq(Visited)]
  <2>1. <<>> \in Seq(Visited)
    OBVIOUS
  <2>2. QED BY <2>1 DEF Leaf
<1>0. {"exif", "tiff", "gps", "interoperability"} \subseteq Dirs
  BY DEF Dirs
<1>2. ASSUME NEW k \in Nat, NEW ifd \in {"ifd0", "ifd1"} PROVE ExifForward(ifd, t, k) \in Seq(Visited)
  <2>1. EntryAt(t, k).offset \in Nat
    BY NumbersRead
  <2>2. parse_ifd_entries(ifd, "interoperability", t, EntryAt(t, k).offset, Leaf) \in Seq(Visited)
    BY <1>0, <1>1, <2>1, DirectoryRead
  <2>3. <<>> \in Seq(Visited)
    OBVIOUS
  <2>4. QED BY <2>2, <2>3 DEF ExifForward
<1>3. ASSUME NEW k \in Nat, NEW ifd \in {"ifd0", "ifd1"} PROVE TiffForward(ifd, t, k) \in Seq(Visited)
  <2> DEFINE o == EntryAt(t, k).offset
             under == [i \in Index |-> ExifForward(ifd, t, o + i)]
  <2>1. o \in Nat
    BY NumbersRead
  <2>2. under \in [Index -> Seq(Visited)]
    <3>1. \A i \in Index : o + i \in Nat
      BY <2>1 DEF Index
    <3> HIDE DEF o
    <3>2. QED BY <1>2, <3>1
  <2> HIDE DEF under
  <2>3. parse_ifd_entries(ifd, "exif", t, o, under) \in Seq(Visited)
    BY <1>0, <2>1, <2>2, DirectoryRead
  <2>4. parse_ifd_entries(ifd, "gps", t, o, Leaf) \in Seq(Visited)
    BY <1>0, <1>1, <2>1, DirectoryRead
  <2>5. <<>> \in Seq(Visited)
    OBVIOUS
  <2>6. TiffForward(ifd, t, k) \in {parse_ifd_entries(ifd, "exif", t, o, under), parse_ifd_entries(ifd, "gps", t, o, Leaf), <<>>}
    BY DEF TiffForward, under
  <2>7. QED BY <2>3, <2>4, <2>5, <2>6
<1>4. ASSUME NEW k \in Nat, NEW ifd \in {"ifd0", "ifd1"} PROVE TiffDirectory(ifd, t, k) \in Seq(Visited)
  <2> DEFINE under == [i \in Index |-> TiffForward(ifd, t, k + i)]
  <2>1. under \in [Index -> Seq(Visited)]
    <3>1. \A i \in Index : k + i \in Nat
      BY DEF Index
    <3>2. QED BY <1>3, <3>1
  <2> HIDE DEF under
  <2>2. parse_ifd_entries(ifd, "tiff", t, k, under) \in Seq(Visited)
    BY <1>0, <2>1, DirectoryRead
  <2>3. QED BY <2>2 DEF TiffDirectory, under
<1> DEFINE first == get_first_ifd_offset(t)
           next == get_next_ifd_offset(t, first)
<1>5. first \in Nat
  BY NumbersRead
<1>6. next \in Nat
  BY <1>5, NumbersRead
<1> HIDE DEF first, next
<1>7. TiffDirectory("ifd0", t, first) \in Seq(Visited) /\ TiffDirectory("ifd1", t, next) \in Seq(Visited)
  BY <1>4, <1>5, <1>6
<1>8. TiffDirectory("ifd0", t, first) \o <<>> \in Seq(Visited)
      /\ TiffDirectory("ifd0", t, first) \o TiffDirectory("ifd1", t, next) \in Seq(Visited)
  BY <1>7
<1>9. QED BY <1>8 DEF Visits, first, next
LEMMA ValueIs ==
  ASSUME IsPicture, page \in Nat, ~WalkDone, NEW t \in Nat, NEW k \in Nat
  PROVE  ValueAt(t, k) \in -1 .. bufsize - 1
<1> DEFINE at == IF EntryAt(t, k).type \notin {1, 2, 3, 4, 5, 7, 9, 10} THEN 0
                 ELSE IF EntryAt(t, k).bytes <= 4 THEN k ELSE EntryAt(t, k).offset
<1>1. at \in Nat
  <2>1. EntryAt(t, k).offset \in Nat
    BY NumbersRead
  <2>2. QED BY <2>1
<1>2. get_data_offset(t, k) = at % DATA_OFFSET_WRAP
  BY DEF get_data_offset
<1> HIDE DEF at
<1>3. get_data_offset(t, k) \in Nat
  BY <1>1, <1>2, ExifAssumption
<1>4. bufsize \in Nat /\ bufsize > 0
  BY InPicture
<1>5. t + get_data_offset(t, k) \in Nat
  BY <1>3
<1>6. QED BY <1>4, <1>5 DEF ValueAt

LEMMA EntryIs ==
  ASSUME IsPicture, page \in Nat, ~WalkDone, NEW t \in Nat, NEW v \in Visited, Kept(t, v)
  PROVE  EntryOf(t, v) \in Entries(bufsize)
<1>1. v.k \in Nat /\ v.dir \in Dirs /\ v.ifd \in {"ifd0", "ifd1"}
  BY DEF Visited
<1>2. ValueAt(t, v.k) \in -1 .. bufsize - 1
  BY <1>1, ValueIs
<1>3. EntryAt(t, v.k).tag \in Tags
  BY <1>1 DEF Kept, Tags
<1>4. QED BY <1>1, <1>2, <1>3 DEF EntryOf, Entries

LEMMA ReadIs ==
  ASSUME IsPicture, page \in Nat, ~WalkDone, NEW t \in Nat, NEW visits \in Seq(Visited)
  PROVE  Read(t, visits) \in Seq(Entries(bufsize))
<1> DEFINE ended == {i \in DOMAIN visits : EndsReading(t, visits, i)}
           read == IF ended = {} THEN visits ELSE SubSeq(visits, 1, Min(ended) - 1)
           pieces == [i \in DOMAIN read |-> IF Kept(t, read[i]) THEN <<EntryOf(t, read[i])>> ELSE <<>>]
<1>1. read \in Seq(Visited)
  <2>1. CASE ended = {}
    BY <2>1
  <2>2. CASE ended # {}
    <3>1. ended \in SUBSET Nat /\ ended \subseteq 1 .. Len(visits)
      OBVIOUS
    <3>2. \E x \in ended : \A y \in ended : x <= y
      <4> HIDE DEF ended
      <4>1. QED BY <2>2, <3>1, LeastNatural
    <3>3. Min(ended) \in ended
      <4> HIDE DEF ended
      <4>1. QED BY <3>2 DEF Min
    <3> HIDE DEF ended
    <3>4. Min(ended) \in 1 .. Len(visits)
      BY <3>1, <3>3
    <3>5. SubSeq(visits, 1, Min(ended) - 1) \in Seq(Visited)
      BY <3>4
    <3>6. QED BY <2>2, <3>5 DEF read
  <2>3. QED BY <2>1, <2>2
<1> HIDE DEF read
<1>2. ASSUME NEW i \in DOMAIN read
      PROVE  (IF Kept(t, read[i]) THEN <<EntryOf(t, read[i])>> ELSE <<>>) \in Seq(Entries(bufsize))
  <2>1. read[i] \in Visited
    BY <1>1
  <2>2. CASE Kept(t, read[i])
    <3>1. EntryOf(t, read[i]) \in Entries(bufsize)
      BY <2>1, <2>2, EntryIs
    <3>2. <<EntryOf(t, read[i])>> \in Seq(Entries(bufsize))
      BY <3>1
    <3>3. QED BY <2>2, <3>2
  <2>3. CASE ~Kept(t, read[i])
    BY <2>3
  <2>4. QED BY <2>2, <2>3
<1>3. DOMAIN read = 1 .. Len(read) /\ Len(read) \in Nat
  BY <1>1
<1>4. pieces \in [1 .. Len(read) -> Seq(Entries(bufsize))]
  BY <1>2, <1>3
<1> HIDE DEF pieces
<1>5. pieces \in Seq(Seq(Entries(bufsize)))
  BY <1>3, <1>4
<1>6. FlattenSeq(pieces) \in Seq(Entries(bufsize))
  BY <1>5, Flattened
<1>7. QED BY <1>6 DEF Read, pieces, read

LEMMA TiffIsRead ==
  ASSUME IsPicture, page \in Nat, ~WalkDone, entries \in Seq(Entries(bufsize)), NEW t \in Nat, HasKind(t, "TIFF"),
         NEW read \in read_tiff_data(t)
  PROVE  read \in Seq(Entries(bufsize))
<1>1. read = entries \o Read(t, Visits(t))
  BY DEF read_tiff_data
<1>2. Read(t, Visits(t)) \in Seq(Entries(bufsize))
  BY VisitsTyped, ReadIs
<1>3. QED BY <1>1, <1>2

LEMMA AllIsRead ==
  ASSUME IsPicture, page \in Nat, ~WalkDone, pos \in Nat, entries \in Seq(Entries(bufsize)), NEW offset \in Nat,
         NEW read \in AllRead(offset)
  PROVE  read \in Seq(Entries(bufsize))
<1>1. CASE offset # 0 /\ is_maybe_valid_tiff(pos + offset)
  <2>1. pos + offset \in Nat /\ HasKind(pos + offset, "TIFF") /\ read \in read_tiff_data(pos + offset)
    BY <1>1 DEF AllRead, is_maybe_valid_tiff
  <2>2. QED BY <2>1, TiffIsRead
<1>2. CASE ~(offset # 0 /\ is_maybe_valid_tiff(pos + offset))
  BY <1>2 DEF AllRead
<1>3. QED BY <1>1, <1>2

-----------------------------------------------------------------------------
(* What is recorded *)

\* Each recorded feature that is no JPEG.
Recorded == {r \in [kind : {"exif", "entry", "gps", "position"}, from : Nat, to : Nat] : Bounded(r)}

LEMMA SliceIs ==
  ASSUME IsPicture, page \in Nat, ~WalkDone, NEW kind \in {"exif", "entry", "gps", "position"}, NEW k \in 0 .. bufsize - 1,
         NEW n \in Nat
  PROVE  Slice(kind, k, n) \in Recorded
<1>1. WalkStart \in Nat /\ bufsize \in Nat /\ WalkStart + bufsize <= ImageSize /\ ImageSize \in Nat
  BY InPicture
<1>2. Least(k + n, bufsize) \in Nat /\ k <= Least(k + n, bufsize) /\ Least(k + n, bufsize) <= bufsize
  BY <1>1 DEF Least
<1>3. QED BY <1>1, <1>2 DEF Slice, Recorded, Bounded

LEMMA ValueWritten ==
  ASSUME IsPicture, page \in Nat, ~WalkDone, NEW kind \in {"entry", "position"}, NEW at \in -1 .. bufsize - 1
  PROVE  Value(kind, at) \in Seq(Recorded)
<1>0. bufsize \in Nat
  BY InPicture
<1>1. CASE at >= 0
  <2>1. Slice(kind, at, 1) \in Recorded
    BY <1>0, <1>1, SliceIs
  <2>2. <<Slice(kind, at, 1)>> \in Seq(Recorded)
    BY <2>1
  <2>3. QED BY <1>1, <2>2 DEF Value
<1>2. CASE ~(at >= 0)
  BY <1>2 DEF Value
<1>3. QED BY <1>1, <1>2

LEMMA ExifRecorded ==
  ASSUME IsPicture, page \in Nat, ~WalkDone, pos \in 0 .. bufsize - 1, NEW read \in Seq(Entries(bufsize))
  PROVE  record_exif_data(read) \in Seq(Recorded)
<1> DEFINE pieces == [i \in DOMAIN read |-> Value("entry", read[i].at)]
<1>1. \A i \in DOMAIN read : Value("entry", read[i].at) \in Seq(Recorded)
  <2> SUFFICES ASSUME NEW i \in DOMAIN read PROVE Value("entry", read[i].at) \in Seq(Recorded)
    OBVIOUS
  <2>1. read[i] \in Entries(bufsize)
    OBVIOUS
  <2>2. read[i].at \in -1 .. bufsize - 1
    BY <2>1 DEF Entries
  <2>3. QED BY <2>2, ValueWritten
<1>2. DOMAIN read = 1 .. Len(read) /\ Len(read) \in Nat
  OBVIOUS
<1>3. pieces \in [1 .. Len(read) -> Seq(Recorded)]
  BY <1>1, <1>2
<1> HIDE DEF pieces
<1>4. pieces \in Seq(Seq(Recorded))
  BY <1>2, <1>3
<1>5. FlattenSeq(pieces) \in Seq(Recorded)
  BY <1>4, Flattened
<1>6. Slice("exif", pos, 0) \in Recorded
  BY SliceIs
<1>7. <<Slice("exif", pos, 0)>> \o FlattenSeq(pieces) \in Seq(Recorded)
  BY <1>5, <1>6
<1>8. <<>> \in Seq(Recorded)
  OBVIOUS
<1>9. QED BY <1>7, <1>8 DEF record_exif_data, pieces

\* A set of numbers up to n has a greatest element.
LEMMA GreatestNatural ==
  ASSUME NEW n \in Nat, NEW T \in SUBSET (0 .. n), T # {}
  PROVE  \E x \in T : \A y \in T : y <= x
<1> DEFINE U == {m \in 0 .. n : n - m \in T}
<1>1. U \in SUBSET Nat /\ U # {}
  <2>1. PICK x \in T : TRUE
    OBVIOUS
  <2>2. n - x \in 0 .. n /\ n - (n - x) = x
    OBVIOUS
  <2>3. n - x \in U
    BY <2>1, <2>2
  <2>4. \A m \in U : m \in Nat
    OBVIOUS
  <2> HIDE DEF U
  <2>5. QED BY <2>3, <2>4
<1>2. PICK u \in U : \A w \in U : u <= w
  <2> HIDE DEF U
  <2>1. QED BY <1>1, LeastNatural
<1>3. u \in 0 .. n /\ n - u \in T
  OBVIOUS
<1>4. ASSUME NEW y \in T PROVE y <= n - u
  <2>1. n - y \in 0 .. n /\ n - (n - y) = y
    OBVIOUS
  <2>2. n - y \in U
    BY <1>4, <2>1
  <2>3. u <= n - y
    BY <1>2, <2>2
  <2>4. QED BY <1>3, <2>1, <2>3
<1>5. QED BY <1>3, <1>4

LEMMA GpsRecorded ==
  ASSUME IsPicture, page \in Nat, ~WalkDone, pos \in 0 .. bufsize - 1, NEW read \in Seq(Entries(bufsize))
  PROVE  record_gps_data(read) \in Seq(Recorded)
<1> DEFINE gps == {i \in DOMAIN read : read[i].ifd = "ifd0" /\ read[i].dir = "gps" /\ read[i].name \in Position}
           Of(name) == {i \in gps : read[i].name = name}
           LastOf(name) == IF Of(name) = {} THEN -1 ELSE read[CHOOSE i \in Of(name) : \A j \in Of(name) : j <= i].at
           lat == LastOf("GPSLatitude")
           lon == LastOf("GPSLongitude")
<1>0. bufsize \in Nat
  BY InPicture
<1>1. ASSUME NEW name PROVE LastOf(name) \in -1 .. bufsize - 1
  <2>1. CASE Of(name) = {}
    BY <1>0, <2>1
  <2>2. CASE Of(name) # {}
    <3> DEFINE i == CHOOSE i \in Of(name) : \A j \in Of(name) : j <= i
    <3>1. Len(read) \in Nat /\ Of(name) \in SUBSET (0 .. Len(read)) /\ Of(name) \subseteq DOMAIN read
      OBVIOUS
    <3>2. \E x \in Of(name) : \A y \in Of(name) : y <= x
      <4> HIDE DEF Of
      <4>1. QED BY <2>2, <3>1, GreatestNatural
    <3>3. i \in Of(name)
      BY <3>2
    <3> HIDE DEF i, Of
    <3>4. read[i] \in Entries(bufsize)
      BY <3>1, <3>3
    <3>5. read[i].at \in -1 .. bufsize - 1
      BY <3>4 DEF Entries
    <3>6. QED BY <2>2, <3>5 DEF i
  <2>3. QED BY <2>1, <2>2
<1>2. Value("position", lat) \in Seq(Recorded) /\ Value("position", lon) \in Seq(Recorded)
  <2>1. lat \in -1 .. bufsize - 1 /\ lon \in -1 .. bufsize - 1
    BY <1>1, ZenonT(30)
  <2> HIDE DEF lat, lon
  <2>2. QED BY <2>1, ValueWritten
<1>3. Slice("gps", pos, 0) \in Recorded
  BY SliceIs
<1>4. record_gps_data(read) = IF gps = {} THEN <<>> ELSE <<Slice("gps", pos, 0)>> \o Value("position", lat) \o Value("position", lon)
  BY DEF record_gps_data
<1> HIDE DEF lat, lon, gps
<1>5. <<Slice("gps", pos, 0)>> \in Seq(Recorded)
  BY <1>3
<1>6. <<Slice("gps", pos, 0)>> \o Value("position", lat) \o Value("position", lon) \in Seq(Recorded)
  BY <1>2, <1>5
<1>7. QED BY <1>4, <1>6

-----------------------------------------------------------------------------
(* What is recursive: the places a search comes to *)

\* A definition that takes the value at a place from those at later places has a solution.
Forwards(a, b, S) ==
  {B \in [a .. b -> [[a .. b -> S] -> S]] :
     \A i \in a .. b : \A g, h \in [a .. b -> S] : (\A j \in a .. b : j > i => g[j] = h[j]) => B[i][g] = B[i][h]}

LEMMA Onwards ==
  \A a, b \in Int : \A S : \A s \in S : \A B \in Forwards(a, b, S) : Solutions(a .. b, S, B) # {}
<1> SUFFICES ASSUME NEW a \in Int, NEW b \in Int, NEW S, NEW s \in S, NEW B \in Forwards(a, b, S)
             PROVE  Solutions(a .. b, S, B) # {}
  OBVIOUS
<1>0. /\ B \in [a .. b -> [[a .. b -> S] -> S]]
      /\ \A i \in a .. b : \A g, h \in [a .. b -> S] : (\A j \in a .. b : j > i => g[j] = h[j]) => B[i][g] = B[i][h]
  BY DEF Forwards
<1> DEFINE D == a .. b
           N == IF a <= b THEN b - a + 1 ELSE 0
           rank == [i \in D |-> b - i]
<1>1. N \in Nat /\ rank \in Ranks(D, N)
  BY DEF Ranks
<1>2. \A i, j \in D : rank[j] < rank[i] <=> j > i
  OBVIOUS
<1>3. \A i \in D : \A g, h \in [D -> S] : (\A j \in D : rank[j] < rank[i] => g[j] = h[j]) => B[i][g] = B[i][h]
  BY <1>0, <1>2
<1> HIDE DEF rank, N, D
<1>4. B \in Rules(D, S, rank)
  <2>1. B \in [D -> [[D -> S] -> S]]
    BY <1>0 DEF D
  <2>2. QED BY <1>3, <2>1 DEF Rules
<1>5. Solutions(D, S, B) # {}
  BY <1>1, <1>4, Ranked
<1>6. QED BY <1>5 DEF D

\* What is true of a place if it is of all later ones is true of each.
LEMMA Backwards ==
  ASSUME NEW a \in Int, NEW b \in Int, NEW T, \A i \in a .. b : (\A j \in a .. b : j > i => j \in T) => i \in T
  PROVE  \A i \in a .. b : i \in T
<1> DEFINE U == {m \in 0 .. b - a : b - m \notin T}
<1> SUFFICES ASSUME NEW i \in a .. b, i \notin T PROVE FALSE
  OBVIOUS
<1>1. b - i \in U
  <2>1. b - (b - i) = i /\ b - i \in 0 .. b - a
    OBVIOUS
  <2>2. QED BY <2>1
<1>2. U \in SUBSET Nat
  OBVIOUS
<1>3. PICK u \in U : \A w \in U : u <= w
  <2> HIDE DEF U
  <2>1. QED BY <1>1, <1>2, LeastNatural
<1>4. u \in 0 .. b - a /\ b - u \notin T /\ b - u \in a .. b
  OBVIOUS
<1>5. ASSUME NEW j \in a .. b, j > b - u PROVE j \in T
  <2>1. b - j \in 0 .. b - a /\ b - (b - j) = j /\ b - j < u
    BY <1>4, <1>5
  <2>2. b - j \notin U
    BY <1>3, <1>4, <2>1
  <2>3. QED BY <2>1, <2>2
<1>6. QED BY <1>4, <1>5

LEMMA MarkerIs ==
  ASSUME IsPicture, page \in Nat, ~WalkDone, NEW k \in Nat, MarkerAt(k) # "none"
  PROVE  k < bufsize /\ Cell(k, NoPicture).is = "marker" /\ Cell(k, NoPicture).size \in Nat \ {0}
<1>1. HasKind(k, "marker")
  BY DEF MarkerAt
<1>2. QED BY <1>1, KindIs DEF PictureCell

\* The next place is a later one in the sbuf.
LEMMA Later ==
  ASSUME NEW k \in Nat, NEW n \in Nat \ {0}, NEW end \in Nat, k < end
  PROVE  Least(k + n, end) \in k + 1 .. end
BY DEF Least

LEMMA ExifOffset ==
  ASSUME IsPicture, page \in Nat, ~WalkDone, pos \in Nat, pos + 1 <= bufsize
  PROVE  get_tiff_offset_from_exif \in Nat
<1> DEFINE D == pos + 1 .. bufsize
           Rule(k, g) == IF k >= pagesize \/ MarkerAt(k) \notin APP THEN 0
                         ELSE IF MarkerAt(k) = "Exif" THEN k + 1 - pos
                         ELSE g[Least(k + Cell(k, NoPicture).size, bufsize)]
           B == [k \in D |-> [g \in [D -> Nat] |-> Rule(k, g)]]
           offset[k \in pos + 1 .. bufsize] ==
             IF k >= pagesize \/ MarkerAt(k) \notin APP THEN 0
             ELSE IF MarkerAt(k) = "Exif" THEN k + 1 - pos
             ELSE offset[Least(k + Cell(k, NoPicture).size, bufsize)]
<1>1. bufsize \in Nat /\ pos + 1 \in D
  BY InPicture
<1>2. ASSUME NEW k \in D, MarkerAt(k) \in APP PROVE Least(k + Cell(k, NoPicture).size, bufsize) \in D
                                                   /\ Least(k + Cell(k, NoPicture).size, bufsize) > k
  <2>1. k \in Nat /\ MarkerAt(k) # "none"
    BY <1>1, <1>2 DEF APP
  <2>2. k < bufsize /\ Cell(k, NoPicture).size \in Nat \ {0}
    BY <2>1, MarkerIs
  <2>3. Least(k + Cell(k, NoPicture).size, bufsize) \in k + 1 .. bufsize
    BY <1>1, <2>1, <2>2, Later
  <2>4. QED BY <1>1, <2>1, <2>3
<1>3. ASSUME NEW k \in D, NEW g, \A j \in D : j > k => g[j] \in Nat PROVE Rule(k, g) \in Nat
  <2>1. k + 1 - pos \in Nat
    BY <1>1
  <2>2. MarkerAt(k) \in APP => g[Least(k + Cell(k, NoPicture).size, bufsize)] \in Nat
    BY <1>2, <1>3
  <2>3. QED BY <2>1, <2>2
<1>4. \A k \in D : \A g, h \in [D -> Nat] : (\A j \in D : j > k => g[j] = h[j]) => Rule(k, g) = Rule(k, h)
  <2> SUFFICES ASSUME NEW k \in D, NEW g \in [D -> Nat], NEW h \in [D -> Nat], \A j \in D : j > k => g[j] = h[j]
               PROVE  Rule(k, g) = Rule(k, h)
    OBVIOUS
  <2>1. MarkerAt(k) \in APP => g[Least(k + Cell(k, NoPicture).size, bufsize)] = h[Least(k + Cell(k, NoPicture).size, bufsize)]
    BY <1>2
  <2>2. QED BY <2>1
<1> HIDE DEF Rule
<1>5. B \in [D -> [[D -> Nat] -> Nat]]
  <2>1. \A k \in D : \A g \in [D -> Nat] : Rule(k, g) \in Nat
    BY <1>3
  <2>2. QED BY <2>1
<1>6. PICK f \in [D -> Nat] : \A k \in D : f[k] = B[k][f]
  <2>1. \A i \in D : \A g, h \in [D -> Nat] : (\A j \in D : j > i => g[j] = h[j]) => B[i][g] = B[i][h]
    BY <1>4
  <2>2. pos + 1 \in Int /\ bufsize \in Int /\ 0 \in Nat
    BY <1>1
  <2> HIDE DEF B
  <2>3. B \in Forwards(pos + 1, bufsize, Nat)
    BY <1>5, <2>1 DEF Forwards
  <2>4. Solutions(D, Nat, B) # {}
    BY <2>2, <2>3, Onwards
  <2>5. QED BY <2>4 DEF Solutions
<1>7. f = [k \in D |-> Rule(k, f)]
  BY <1>6
<1>8. offset = [k \in D |-> Rule(k, offset)]
  BY <1>7, Zenon DEF Rule
<1> HIDE DEF offset
<1>9. \A k \in D : offset[k] \in Nat
  <2> DEFINE T == {k \in D : offset[k] \in Nat}
  <2>1. ASSUME NEW k \in D, \A j \in D : j > k => j \in T PROVE k \in T
    <3>1. \A j \in D : j > k => offset[j] \in Nat
      BY <2>1
    <3>2. Rule(k, offset) \in Nat
      BY <1>3, <3>1
    <3>3. offset[k] = Rule(k, offset)
      BY <1>8
    <3>4. QED BY <3>2, <3>3
  <2> HIDE DEF T
  <2>2. pos + 1 \in Int /\ bufsize \in Int
    BY <1>1
  <2>3. \A k \in D : k \in T
    BY <2>1, <2>2, Backwards
  <2>4. QED BY <2>3 DEF T
<1>10. get_tiff_offset_from_exif = offset[pos + 1]
  BY DEF get_tiff_offset_from_exif, offset
<1>11. QED BY <1>1, <1>9, <1>10

LEMMA PsdOffset ==
  ASSUME IsPicture, page \in Nat, ~WalkDone, pos \in Nat, HasKind(pos, "8BPS")
  PROVE  get_tiff_offset_from_psd \in Nat
<1> DEFINE end == pos + 1 + Cell(pos, NoPicture).n
           D == pos + 1 .. end
           Rule(k, g) == IF k = end \/ ~HasKind(k, "resource") THEN 0
                         ELSE IF Cell(k, NoPicture).exif THEN k + 1 - pos
                         ELSE g[Least(k + Cell(k, NoPicture).size, end)]
           B == [k \in D |-> [g \in [D -> Nat] |-> Rule(k, g)]]
           offset[k \in pos + 1 .. end] ==
             IF k = end \/ ~HasKind(k, "resource") THEN 0
             ELSE IF Cell(k, NoPicture).exif THEN k + 1 - pos
             ELSE offset[Least(k + Cell(k, NoPicture).size, end)]
<1>1. end \in Nat /\ pos + 1 \in D
  <2>1. Cell(pos, NoPicture).n \in Nat
    BY KindIs DEF PictureCell
  <2>2. QED BY <2>1
<1> HIDE DEF end
<1>2. ASSUME NEW k \in D, (k # end /\ HasKind(k, "resource")) PROVE Least(k + Cell(k, NoPicture).size, end) \in D
                                                   /\ Least(k + Cell(k, NoPicture).size, end) > k
  <2>1. k \in Nat /\ k < end
    BY <1>1, <1>2
  <2>2. Cell(k, NoPicture).size \in Nat \ {0}
    BY <1>2, <2>1, KindIs DEF PictureCell
  <2>3. Least(k + Cell(k, NoPicture).size, end) \in k + 1 .. end
    BY <1>1, <2>1, <2>2, Later
  <2>4. QED BY <1>1, <2>1, <2>3
<1>3. ASSUME NEW k \in D, NEW g, \A j \in D : j > k => g[j] \in Nat PROVE Rule(k, g) \in Nat
  <2>1. k + 1 - pos \in Nat
    BY <1>1
  <2>2. (k # end /\ HasKind(k, "resource")) => g[Least(k + Cell(k, NoPicture).size, end)] \in Nat
    BY <1>2, <1>3
  <2>3. QED BY <2>1, <2>2
<1>4. \A k \in D : \A g, h \in [D -> Nat] : (\A j \in D : j > k => g[j] = h[j]) => Rule(k, g) = Rule(k, h)
  <2> SUFFICES ASSUME NEW k \in D, NEW g \in [D -> Nat], NEW h \in [D -> Nat], \A j \in D : j > k => g[j] = h[j]
               PROVE  Rule(k, g) = Rule(k, h)
    OBVIOUS
  <2>1. (k # end /\ HasKind(k, "resource")) => g[Least(k + Cell(k, NoPicture).size, end)] = h[Least(k + Cell(k, NoPicture).size, end)]
    BY <1>2
  <2>2. QED BY <2>1
<1> HIDE DEF Rule
<1>5. B \in [D -> [[D -> Nat] -> Nat]]
  <2>1. \A k \in D : \A g \in [D -> Nat] : Rule(k, g) \in Nat
    BY <1>3
  <2>2. QED BY <2>1
<1>6. PICK f \in [D -> Nat] : \A k \in D : f[k] = B[k][f]
  <2>1. \A i \in D : \A g, h \in [D -> Nat] : (\A j \in D : j > i => g[j] = h[j]) => B[i][g] = B[i][h]
    BY <1>4
  <2>2. pos + 1 \in Int /\ end \in Int /\ 0 \in Nat
    BY <1>1
  <2> HIDE DEF B
  <2>3. B \in Forwards(pos + 1, end, Nat)
    BY <1>5, <2>1 DEF Forwards
  <2>4. Solutions(D, Nat, B) # {}
    BY <2>2, <2>3, Onwards
  <2>5. QED BY <2>4 DEF Solutions
<1>7. f = [k \in D |-> Rule(k, f)]
  BY <1>6
<1>8. offset = [k \in D |-> Rule(k, offset)]
  BY <1>7, Zenon DEF Rule
<1> HIDE DEF offset
<1>9. \A k \in D : offset[k] \in Nat
  <2> DEFINE T == {k \in D : offset[k] \in Nat}
  <2>1. ASSUME NEW k \in D, \A j \in D : j > k => j \in T PROVE k \in T
    <3>1. \A j \in D : j > k => offset[j] \in Nat
      BY <2>1
    <3>2. Rule(k, offset) \in Nat
      BY <1>3, <3>1
    <3>3. offset[k] = Rule(k, offset)
      BY <1>8
    <3>4. QED BY <3>2, <3>3
  <2> HIDE DEF T
  <2>2. pos + 1 \in Int /\ end \in Int
    BY <1>1
  <2>3. \A k \in D : k \in T
    BY <2>1, <2>2, Backwards
  <2>4. QED BY <2>3 DEF T
<1>10. get_tiff_offset_from_psd = offset[pos + 1]
  BY DEF get_tiff_offset_from_psd, offset, end
<1>11. QED BY <1>1, <1>9, <1>10

\* The places of a chain lie from its beginning on.
Chains(k) == {c \in Seq(k .. bufsize + 1) : c # <<>>}

LEMMA ChainIs ==
  ASSUME IsPicture, page \in Nat, ~WalkDone, NEW first \in Nat, first <= bufsize
  PROVE  Chain(first) \in Chains(first)
<1> DEFINE D == first .. bufsize + 1
           Rule(i, g) == IF i >= bufsize THEN <<i>>
                         ELSE IF MarkerAt(i) \in Blocks
                              THEN IF i + 1 = bufsize THEN <<i + 1>>
                                   ELSE <<i>> \o g[Least(i + Cell(i, NoPicture).size, bufsize)]
                         ELSE IF MarkerAt(i) \in {"SOI", "RST"} THEN <<i>> \o g[i + 1]
                         ELSE <<i>>
           B == [i \in D |-> [g \in [D -> Chains(first)] |-> Rule(i, g)]]
           chain[i \in first .. bufsize + 1] ==
             IF i >= bufsize THEN <<i>>
             ELSE IF MarkerAt(i) \in Blocks
                  THEN IF i + 1 = bufsize THEN <<i + 1>>
                       ELSE <<i>> \o chain[Least(i + Cell(i, NoPicture).size, bufsize)]
             ELSE IF MarkerAt(i) \in {"SOI", "RST"} THEN <<i>> \o chain[i + 1]
             ELSE <<i>>
<1>1. bufsize \in Nat /\ first \in D
  BY InPicture
<1>2. ASSUME NEW i \in D, i < bufsize, MarkerAt(i) \in Blocks
      PROVE  Least(i + Cell(i, NoPicture).size, bufsize) \in D /\ Least(i + Cell(i, NoPicture).size, bufsize) > i
  <2>1. i \in Nat /\ MarkerAt(i) # "none"
    BY <1>1, <1>2 DEF Blocks, APP
  <2>2. Cell(i, NoPicture).size \in Nat \ {0}
    BY <2>1, MarkerIs
  <2>3. Least(i + Cell(i, NoPicture).size, bufsize) \in i + 1 .. bufsize
    BY <1>1, <1>2, <2>1, <2>2, Later
  <2>4. QED BY <1>1, <2>1, <2>3
<1>3. \A i \in D : <<i>> \in Chains(first) /\ \A c \in Chains(first) : <<i>> \o c \in Chains(first)
  <2> SUFFICES ASSUME NEW i \in D PROVE <<i>> \in Chains(first) /\ \A c \in Chains(first) : <<i>> \o c \in Chains(first)
    OBVIOUS
  <2> HIDE DEF D
  <2>1. <<i>> \in Seq(D) /\ <<i>> # <<>>
    OBVIOUS
  <2>2. ASSUME NEW c \in Seq(D) PROVE <<i>> \o c \in Seq(D) /\ <<i>> \o c # <<>>
    <3>1. <<i>> \o c \in Seq(D) /\ Len(<<i>> \o c) = 1 + Len(c) /\ Len(c) \in Nat
      OBVIOUS
    <3>2. Len(<<>>) = 0
      OBVIOUS
    <3>3. QED BY <3>1, <3>2
  <2>3. QED BY <2>1, <2>2 DEF Chains, D
<1>4. ASSUME NEW i \in D, NEW g, \A j \in D : j > i => g[j] \in Chains(first) PROVE Rule(i, g) \in Chains(first)
  <2>1. i < bufsize => i + 1 \in D /\ i + 1 > i /\ ~(i >= bufsize)
    BY <1>1
  <2>2. i < bufsize \/ i >= bufsize
    BY <1>1
  <2>3. i < bufsize => g[i + 1] \in Chains(first)
    BY <1>4, <2>1
  <2>4. i < bufsize /\ MarkerAt(i) \in Blocks => g[Least(i + Cell(i, NoPicture).size, bufsize)] \in Chains(first)
    BY <1>2, <1>4
  <2> HIDE DEF D
  <2>5. QED BY <1>3, <2>1, <2>2, <2>3, <2>4
<1>5. \A i \in D : \A g, h \in [D -> Chains(first)] : (\A j \in D : j > i => g[j] = h[j]) => Rule(i, g) = Rule(i, h)
  <2> SUFFICES ASSUME NEW i \in D, NEW g \in [D -> Chains(first)], NEW h \in [D -> Chains(first)],
                      \A j \in D : j > i => g[j] = h[j]
               PROVE  Rule(i, g) = Rule(i, h)
    OBVIOUS
  <2>1. i < bufsize => i + 1 \in D /\ i + 1 > i
    BY <1>1
  <2>2. i < bufsize \/ i >= bufsize
    BY <1>1
  <2>3. i < bufsize => g[i + 1] = h[i + 1]
    BY <2>1
  <2>4. i < bufsize /\ MarkerAt(i) \in Blocks =>
          g[Least(i + Cell(i, NoPicture).size, bufsize)] = h[Least(i + Cell(i, NoPicture).size, bufsize)]
    BY <1>2
  <2> HIDE DEF D
  <2>5. QED BY <2>2, <2>3, <2>4
<1> HIDE DEF Rule
<1>6. B \in [D -> [[D -> Chains(first)] -> Chains(first)]]
  <2>1. \A i \in D : \A g \in [D -> Chains(first)] : Rule(i, g) \in Chains(first)
    BY <1>4
  <2>2. QED BY <2>1
<1>7. PICK f \in [D -> Chains(first)] : \A i \in D : f[i] = B[i][f]
  <2>1. \A i \in D : \A g, h \in [D -> Chains(first)] : (\A j \in D : j > i => g[j] = h[j]) => B[i][g] = B[i][h]
    BY <1>5
  <2>2. first \in Int /\ bufsize + 1 \in Int /\ <<first>> \in Chains(first)
    BY <1>1, <1>3
  <2> HIDE DEF B
  <2>3. B \in Forwards(first, bufsize + 1, Chains(first))
    BY <1>6, <2>1 DEF Forwards
  <2>4. Solutions(D, Chains(first), B) # {}
    BY <2>2, <2>3, Onwards
  <2>5. QED BY <2>4 DEF Solutions
<1>8. f = [i \in D |-> Rule(i, f)]
  BY <1>7
<1>9. chain = [i \in D |-> Rule(i, chain)]
  BY <1>8, Zenon DEF Rule
<1> HIDE DEF chain
<1>10. \A i \in D : chain[i] \in Chains(first)
  <2> DEFINE T == {i \in D : chain[i] \in Chains(first)}
  <2>1. ASSUME NEW i \in D, \A j \in D : j > i => j \in T PROVE i \in T
    <3>1. \A j \in D : j > i => chain[j] \in Chains(first)
      BY <2>1
    <3>2. Rule(i, chain) \in Chains(first)
      BY <1>4, <3>1
    <3>3. chain[i] = Rule(i, chain)
      BY <1>9
    <3>4. QED BY <3>2, <3>3
  <2> HIDE DEF T
  <2>2. first \in Int /\ bufsize + 1 \in Int
    BY <1>1
  <2>3. \A i \in D : i \in T
    BY <2>1, <2>2, Backwards
  <2>4. QED BY <2>3 DEF T
<1>11. Chain(first) = chain[first]
  BY DEF Chain, chain
<1>12. QED BY <1>1, <1>10, <1>11

\* The stream of a JPEG ends in the sbuf.
LEMMA StreamEndIs ==
  ASSUME IsPicture, page \in Nat, ~WalkDone, NEW k \in Nat, k < bufsize
  PROVE  StreamEnd(k) \in k .. bufsize
<1> DEFINE In1(i) == MarkerAt(i) \in InStream \/ HasKind(i, "data")
           Ends == {e \in k .. bufsize : e = bufsize \/ ~In1(e)}
<1>0. bufsize \in Nat
  BY InPicture
<1>1. bufsize \in Ends /\ Ends \in SUBSET Nat
  BY <1>0
<1>2. PICK e \in Ends : \A d \in Ends : e <= d
  <2> HIDE DEF Ends
  <2>1. QED BY <1>1, LeastNatural
<1>3. \A i \in k .. e - 1 : In1(i)
  <2> SUFFICES ASSUME NEW i \in k .. e - 1, ~In1(i) PROVE FALSE
    OBVIOUS
  <2>1. i \in k .. bufsize /\ ~(e <= i)
    BY <1>0
  <2>2. i \in Ends
    BY <2>1
  <2>3. QED BY <1>2, <2>1, <2>2
<1>4. \E d \in k .. bufsize : (\A i \in k .. d - 1 : In1(i)) /\ (d = bufsize \/ ~In1(d))
  BY <1>3
<1>5. QED BY <1>4 DEF StreamEnd

LEMMA JpegIs ==
  ASSUME IsPicture, page \in Nat, ~WalkDone, pos \in Nat, NEW chain \in Chains(pos), NEW res, res = validate_jpeg(chain)
  PROVE  res.len \in Int /\ (res.complete => res.len > 0)
<1> DEFINE last == Last(chain)
           stream == last + Cell(last, NoPicture).size
           e == IF stream >= bufsize THEN bufsize ELSE StreamEnd(stream)
<1>1. bufsize \in Nat
  BY InPicture
<1>2. last \in pos .. bufsize + 1
  <2> DEFINE D == pos .. bufsize + 1
  <2>1. chain \in Seq(D) /\ chain # <<>>
    BY DEF Chains
  <2> HIDE DEF D
  <2>2. Len(chain) \in 1 .. Len(chain)
    BY <2>1
  <2>3. chain[Len(chain)] \in D
    BY <2>1, <2>2
  <2>4. QED BY <2>3 DEF Last, D
<1> HIDE DEF last
<1>3. MarkerAt(last) = "SOS" => e \in Nat /\ e > pos
  <2> SUFFICES ASSUME MarkerAt(last) = "SOS" PROVE e \in Nat /\ e > pos
    OBVIOUS
  <2>1. last \in Nat /\ last >= pos /\ last < bufsize /\ Cell(last, NoPicture).size \in Nat \ {0}
    <3>1. last \in Nat /\ MarkerAt(last) # "none"
      BY <1>1, <1>2
    <3>2. QED BY <1>2, <3>1, MarkerIs
  <2>2. stream \in Nat /\ stream > pos
    BY <2>1
  <2>3. CASE stream >= bufsize
    BY <1>1, <2>1, <2>3
  <2>4. CASE ~(stream >= bufsize)
    <3> HIDE DEF stream
    <3>1. StreamEnd(stream) \in stream .. bufsize
      BY <1>1, <2>2, <2>4, StreamEndIs
    <3>2. QED BY <1>1, <2>2, <2>4, <3>1
  <2>5. QED BY <2>3, <2>4
<1> HIDE DEF e
<1> DEFINE seen == {MarkerAt(chain[i]) : i \in DOMAIN chain}
           sized == "table" \in seen /\ "SOF" \in seen
           exif == seen \cap {"Exif", "APP1"} # {}
           there == {"SOI", "JFIF"} \subseteq seen
<1>4. res = IF ~there THEN [len |-> 0, complete |-> FALSE]
            ELSE IF MarkerAt(last) = "SOS"
                 THEN IF ~sized THEN [len |-> 0, complete |-> FALSE]
                      ELSE IF e < bufsize /\ MarkerAt(e) = "EOI" THEN [len |-> e + 1 - pos, complete |-> ~exif]
                      ELSE [len |-> e - pos, complete |-> FALSE]
            ELSE [len |-> IF ~exif THEN 0 ELSE IF MarkerAt(last) \in {"EOI", "TEM"} THEN last + 1 - pos ELSE last - pos,
                  complete |-> FALSE]
  BY DEF validate_jpeg, last, e
<1> HIDE DEF seen, sized, exif, there
<1>5. last \in Int /\ pos \in Int
  BY <1>1, <1>2
<1>6. CASE MarkerAt(last) = "SOS"
  <2>1. e \in Nat /\ e > pos
    BY <1>3, <1>6
  <2>2. e + 1 - pos \in Int /\ e + 1 - pos > 0 /\ e - pos \in Int
    BY <1>5, <2>1
  <2>3. QED BY <1>4, <1>6, <2>2
<1>7. CASE MarkerAt(last) # "SOS"
  BY <1>4, <1>5, <1>7
<1>8. QED BY <1>6, <1>7

-----------------------------------------------------------------------------
(* The steps of the scanner *)

\* What was reported before, a feature that is no JPEG, or one JPEG from the place looked at.
Grown(n) ==
  /\ reports' \in Seq(Features)
  /\ \A i \in DOMAIN reports' :
       \/ i \in DOMAIN reports /\ reports'[i] = reports[i]
       \/ reports'[i] \in Recorded
       \/ i = Len(reports) + 1 /\ reports'[i] = Slice("jpeg", pos, n) /\ n > 0 /\ pos' = pos + n
Onto == scanner' = scanner /\ image' = image /\ page' = page /\ memo' = memo /\ pos' \in Nat /\ pos' > pos

LEMMA JpegSlice ==
  ASSUME IsPicture, page \in Nat, ~WalkDone, pos \in 0 .. pagesize - 1, NEW n \in Nat, n > 0
  PROVE  /\ Slice("jpeg", pos, n) \in Features /\ Bounded(Slice("jpeg", pos, n))
         /\ Slice("jpeg", pos, n).from = WalkStart + pos /\ Slice("jpeg", pos, n).to <= WalkStart + pos + n
<1>1. /\ WalkStart \in Nat /\ bufsize \in Nat /\ WalkStart + bufsize <= ImageSize /\ ImageSize \in Nat
      /\ pagesize \in Nat /\ pagesize <= bufsize
  BY InPicture
<1>2. Least(pos + n, bufsize) \in Nat /\ pos <= Least(pos + n, bufsize) /\ Least(pos + n, bufsize) <= bufsize
      /\ Least(pos + n, bufsize) <= pos + n
  BY <1>1 DEF Least
<1>3. QED BY <1>1, <1>2 DEF Slice, Features, Bounded

LEMMA GrownKeeps ==
  ASSUME ExifInv, ~WalkDone, pos < pagesize, NEW n \in Int, Grown(n), Onto, entries' \in Seq(Entries(bufsize))
  PROVE  ExifInv'
<1>1. /\ IsPicture /\ page \in Nat /\ pos \in Nat /\ memo = 0 /\ reports \in Seq(Features) /\ reports' \in Seq(Features)
      /\ \A i \in DOMAIN reports : Bounded(reports[i])
  BY DEF ExifInv, ExifTyped, Grown
<1>2. /\ ImageSize \in Nat /\ WalkStart \in Nat /\ image.pagesize \in Nat /\ pagesize \in Nat /\ pagesize <= image.pagesize
  BY <1>1, InPicture
<1>3. pos' \in Nat /\ pos < pos'
  BY <1>1 DEF Onto
<1>4. /\ ImageSize' = ImageSize /\ WalkStart' = WalkStart /\ bufsize' = bufsize /\ IsPicture'
      /\ image' = image /\ \A q : PageBound(q)' = PageBound(q)
  BY <1>1 DEF Onto, ImageSize, WalkStart, bufsize, IsPicture, PageBound, PageFirst, Least
<1> DEFINE New(i) == i = Len(reports) + 1 /\ reports'[i] = Slice("jpeg", pos, n) /\ n > 0 /\ pos' = pos + n
<1>5. ASSUME NEW i \in DOMAIN reports' PROVE (i \in DOMAIN reports /\ reports'[i] = reports[i]) \/ reports'[i] \in Recorded \/ New(i)
  BY DEF Grown
<1>6. ASSUME NEW i \in DOMAIN reports', New(i)
      PROVE  /\ reports'[i].from = WalkStart + pos /\ reports'[i].to <= WalkStart + pos'
             /\ Bounded(reports'[i])
  <2>1. n \in Nat /\ n > 0 /\ pos \in 0 .. pagesize - 1 /\ pos' = pos + n
    BY <1>1, <1>2, <1>6
  <2>2. /\ Slice("jpeg", pos, n).from = WalkStart + pos /\ Slice("jpeg", pos, n).to <= WalkStart + pos + n
        /\ Bounded(Slice("jpeg", pos, n))
    BY <1>1, <2>1, JpegSlice
  <2>3. WalkStart + pos + n = WalkStart + pos'
    BY <1>1, <1>2, <2>1
  <2>4. QED BY <1>6, <2>2, <2>3
<1>7. ASSUME NEW i \in DOMAIN reports', reports'[i].kind = "jpeg" PROVE (i \in DOMAIN reports /\ reports'[i] = reports[i]) \/ New(i)
  <2>1. reports'[i] \notin Recorded
    BY <1>7 DEF Recorded
  <2>2. QED BY <1>5, <2>1
<1> HIDE DEF New
<1>8. ExifTyped'
  <2>1. ASSUME NEW i \in DOMAIN reports' PROVE Bounded(reports'[i])
    <3>1. CASE i \in DOMAIN reports /\ reports'[i] = reports[i]
      BY <1>1, <3>1
    <3>2. CASE reports'[i] \in Recorded
      BY <3>2 DEF Recorded
    <3>3. CASE New(i)
      BY <1>6, <3>3
    <3>4. QED BY <1>5, <3>1, <3>2, <3>3
  <2>2. \A i \in DOMAIN reports' : reports'[i].from <= reports'[i].to /\ reports'[i].to <= ImageSize'
    BY <1>4, <2>1 DEF Bounded
  <2>3. memo' = 0 /\ page' \in Nat
    BY <1>1 DEF Onto
  <2>4. entries' \in Seq(Entries(bufsize'))
    BY <1>4
  <2>5. QED BY <1>1, <1>3, <1>4, <2>2, <2>3, <2>4 DEF ExifTyped, Entries, Bounded
<1>9. \A i \in DOMAIN reports : reports[i].from \in Nat /\ reports[i].to \in Nat
  <2>1. \A i \in DOMAIN reports : reports[i] \in Features
    BY <1>1
  <2>2. QED BY <2>1 DEF Features
<1>10. JpegsBehind'
  <2> SUFFICES ASSUME NEW i \in DOMAIN reports', reports'[i].kind = "jpeg"
               PROVE  /\ reports'[i].from < WalkStart + image.pagesize
                      /\ reports'[i].to <= WalkStart + pos' \/ PageBound(reports'[i].from) <= WalkStart
    BY <1>4 DEF JpegsBehind, PageBound, PageFirst, ImageSize
  <2>1. CASE i \in DOMAIN reports /\ reports'[i] = reports[i]
    <3>1. /\ reports[i].from < WalkStart + image.pagesize
          /\ reports[i].to <= WalkStart + pos \/ PageBound(reports[i].from) <= WalkStart
      BY <2>1 DEF ExifInv, JpegsBehind
    <3>2. reports[i].to <= WalkStart + pos => reports[i].to <= WalkStart + pos'
      BY <1>1, <1>2, <1>3, <1>9, <2>1
    <3>3. QED BY <2>1, <3>1, <3>2
  <2>2. CASE New(i)
    <3>1. reports'[i].from = WalkStart + pos /\ reports'[i].to <= WalkStart + pos'
      BY <1>6, <2>2
    <3>2. WalkStart + pos < WalkStart + image.pagesize
      BY <1>1, <1>2
    <3>3. QED BY <3>1, <3>2
  <2>3. QED BY <1>7, <2>1, <2>2
<1>11. JpegsCarvedOnce'
  <2> SUFFICES ASSUME NEW i \in DOMAIN reports', NEW j \in DOMAIN reports', i < j, reports'[i].kind = "jpeg",
                      reports'[j].kind = "jpeg", Overlap(reports'[i], reports'[j])
               PROVE  reports'[j].from >= PageBound(reports'[i].from)
    BY <1>4 DEF JpegsCarvedOnce, Overlap, PageBound, PageFirst, ImageSize
  <2>0. i \in Nat /\ j \in Nat /\ Len(reports) \in Nat /\ DOMAIN reports = 1 .. Len(reports)
    BY <1>1
  <2>1. i \in DOMAIN reports /\ reports'[i] = reports[i]
    <3>1. CASE New(i)
      <4>1. i = Len(reports) + 1
        BY <3>1 DEF New
      <4>2. j \notin DOMAIN reports /\ j # Len(reports) + 1
        BY <2>0, <4>1
      <4>3. QED BY <1>7, <4>2 DEF New
    <3>2. QED BY <1>7, <3>1
  <2>2. CASE j \in DOMAIN reports /\ reports'[j] = reports[j]
    BY <2>1, <2>2 DEF ExifInv, JpegsCarvedOnce
  <2>3. CASE New(j)
    <3>1. reports'[j].from = WalkStart + pos
      BY <1>6, <2>3
    <3>2. reports'[j].from < reports[i].to
      BY <2>1 DEF Overlap
    <3>3. reports[i].to <= WalkStart + pos \/ PageBound(reports[i].from) <= WalkStart
      BY <2>1 DEF ExifInv, JpegsBehind
    <3>4. PageBound(reports[i].from) <= WalkStart
      BY <1>1, <1>2, <1>9, <2>1, <3>1, <3>2, <3>3
    <3>5. PageBound(reports[i].from) \in Int
      <4>1. reports[i].from \in Nat
        BY <1>9, <2>1
      <4>2. image.pagesize \in Nat \ {0}
        BY <1>1 DEF IsPicture
      <4>3. reports[i].from \div image.pagesize \in Int
        BY <4>1, <4>2
      <4>4. PageFirst(reports[i].from) \in Int
        BY <4>2, <4>3 DEF PageFirst
      <4>5. QED BY <1>2, <4>4 DEF PageBound, Least
    <3>6. QED BY <1>1, <1>2, <2>1, <3>1, <3>4, <3>5
  <2>4. QED BY <1>7, <2>2, <2>3
<1>12. QED BY <1>8, <1>10, <1>11 DEF ExifInv

\* What a step writes.
LEMMA SilentGrows == ASSUME ExifInv, Silent PROVE Grown(0)
<1>1. reports \in Seq(Features) /\ reports' = reports
  BY DEF ExifInv, ExifTyped, Silent
<1>2. QED BY <1>1 DEF Grown

LEMMA RecordGrows ==
  ASSUME ExifInv, ~WalkDone, pos < pagesize, NEW read \in Seq(Entries(bufsize)), NEW carved, NEW n \in Nat, Record(carved, read),
         carved = <<>> \/ (carved = <<Slice("jpeg", pos, n)>> /\ n > 0 /\ pos' = pos + n)
  PROVE  Grown(n) /\ entries' = <<>>
<1>1. IsPicture /\ page \in Nat /\ pos \in Nat /\ reports \in Seq(Features)
  BY DEF ExifInv, ExifTyped
<1>2. pos \in 0 .. bufsize - 1 /\ pos \in 0 .. pagesize - 1
  BY <1>1, InPicture
<1> DEFINE a == record_exif_data(read)
           b == record_gps_data(read)
<1>3. a \in Seq(Recorded) /\ b \in Seq(Recorded)
  BY <1>1, <1>2, ExifRecorded, GpsRecorded
<1>4. reports' = ((reports \o carved) \o a) \o b /\ entries' = <<>>
  BY DEF Record
<1> HIDE DEF a, b
<1>5. Recorded \subseteq Features
  BY DEF Recorded, Features
<1>6. carved \in Seq(Features) /\ Len(carved) <= 1 /\ \A i \in DOMAIN carved : i = 1 /\ carved[i] = Slice("jpeg", pos, n) /\ n > 0 /\ pos' = pos + n
  <2>1. CASE carved = <<>>
    BY <2>1
  <2>2. CASE carved = <<Slice("jpeg", pos, n)>> /\ n > 0 /\ pos' = pos + n
    <3>1. Slice("jpeg", pos, n) \in Features
      BY <1>1, <1>2, <2>2, JpegSlice
    <3> HIDE DEF Features
    <3>2. QED BY <2>2, <3>1
  <2>3. QED BY <2>1, <2>2
<1>7. a \in Seq(Features) /\ b \in Seq(Features)
  BY <1>3, <1>5
<1> DEFINE first == reports \o carved
           more == first \o a
<1>8. /\ first \in Seq(Features) /\ Len(first) = Len(reports) + Len(carved)
      /\ \A i \in DOMAIN first : \/ i \in DOMAIN reports /\ first[i] = reports[i]
                                 \/ i - Len(reports) \in DOMAIN carved /\ first[i] = carved[i - Len(reports)]
  BY <1>1, <1>6
<1>9. \A i \in DOMAIN first : \/ i \in DOMAIN reports /\ first[i] = reports[i]
                              \/ i = Len(reports) + 1 /\ first[i] = Slice("jpeg", pos, n) /\ n > 0 /\ pos' = pos + n
  <2> SUFFICES ASSUME NEW i \in DOMAIN first, ~(i \in DOMAIN reports /\ first[i] = reports[i])
               PROVE  i = Len(reports) + 1 /\ first[i] = Slice("jpeg", pos, n) /\ n > 0 /\ pos' = pos + n
    OBVIOUS
  <2>1. i - Len(reports) \in DOMAIN carved /\ first[i] = carved[i - Len(reports)]
    BY <1>8
  <2>2. i - Len(reports) = 1
    BY <1>6, <2>1
  <2>3. i \in Int /\ Len(reports) \in Int
    BY <1>1, <1>8
  <2> HIDE DEF first
  <2>4. QED BY <1>6, <2>1, <2>2, <2>3
<1> HIDE DEF first
<1>10. /\ more \in Seq(Features)
       /\ \A i \in DOMAIN more : (i \in DOMAIN first /\ more[i] = first[i]) \/ more[i] \in Recorded
  <2>1. more \in Seq(Features)
    BY <1>7, <1>8
  <2>2. ASSUME NEW i \in DOMAIN more PROVE (i \in DOMAIN first /\ more[i] = first[i]) \/ (i - Len(first) \in DOMAIN a /\ more[i] = a[i - Len(first)])
    BY <1>7, <1>8
  <2>3. \A m \in DOMAIN a : a[m] \in Recorded
    BY <1>3
  <2>4. QED BY <2>1, <2>2, <2>3
<1> HIDE DEF more
<1>11. reports' = more \o b
  BY <1>4 DEF more, first
<1>12. /\ reports' \in Seq(Features)
       /\ \A i \in DOMAIN reports' : (i \in DOMAIN more /\ reports'[i] = more[i]) \/ reports'[i] \in Recorded
  <2>1. reports' \in Seq(Features)
    BY <1>7, <1>10, <1>11
  <2>2. ASSUME NEW i \in DOMAIN reports' PROVE (i \in DOMAIN more /\ reports'[i] = more[i]) \/ (i - Len(more) \in DOMAIN b /\ reports'[i] = b[i - Len(more)])
    BY <1>7, <1>10, <1>11
  <2>3. \A m \in DOMAIN b : b[m] \in Recorded
    BY <1>3
  <2>4. QED BY <2>1, <2>2, <2>3
<1>13. \A i \in DOMAIN reports' :
         \/ i \in DOMAIN reports /\ reports'[i] = reports[i]
         \/ reports'[i] \in Recorded
         \/ i = Len(reports) + 1 /\ reports'[i] = Slice("jpeg", pos, n) /\ n > 0 /\ pos' = pos + n
  <2> SUFFICES ASSUME NEW i \in DOMAIN reports', reports'[i] \notin Recorded
               PROVE  \/ i \in DOMAIN reports /\ reports'[i] = reports[i]
                      \/ i = Len(reports) + 1 /\ reports'[i] = Slice("jpeg", pos, n) /\ n > 0 /\ pos' = pos + n
    OBVIOUS
  <2>1. i \in DOMAIN more /\ reports'[i] = more[i] /\ more[i] \notin Recorded
    BY <1>12
  <2>2. i \in DOMAIN first /\ reports'[i] = first[i]
    BY <1>10, <2>1
  <2>3. QED BY <1>9, <2>2
<1>14. QED BY <1>4, <1>12, <1>13 DEF Grown

\* The scanner stops before the end of the page.
LEMMA LimitIs ==
  ASSUME IsPicture, page \in Nat, ~WalkDone, pos \in Nat, pos < exif_limit
  PROVE  pos < pagesize
<1>1. pagesize \in Nat /\ bufsize \in Nat /\ MIN_JPEG_SIZE \in Nat
  BY InPicture, ExifAssumption
<1>2. QED BY <1>1 DEF exif_limit

LEMMA JpegKeeps ==
  ASSUME ExifInv, ~WalkDone, pos < pagesize, UNCHANGED memo, ExifJpeg
  PROVE  ExifInv'
<1>1. /\ IsPicture /\ page \in Nat /\ pos \in Nat /\ memo = 0 /\ entries \in Seq(Entries(bufsize))
  BY DEF ExifInv, ExifTyped
<1>2. pagesize \in Nat /\ bufsize \in Nat /\ pagesize <= bufsize
  BY <1>1, InPicture
<1>3. PICK read \in AllRead(get_tiff_offset_from_exif) : \E res \in {validate_jpeg(chain) : chain \in {Chain(pos)}} :
        LET carve == res.complete \/ res.len > min_jpeg_size IN
        IF res.len <= 0 THEN NotRecorded(read) /\ MoveTo(pos + 1)
        ELSE /\ Record(IF carve THEN <<Slice("jpeg", pos, res.len)>> ELSE <<>>, read)
             /\ MoveTo(pos + IF carve THEN res.len ELSE 1)
  BY DEF ExifJpeg
<1> DEFINE res == validate_jpeg(Chain(pos))
           carve == res.complete \/ res.len > min_jpeg_size
<1>4. IF res.len <= 0 THEN NotRecorded(read) /\ MoveTo(pos + 1)
      ELSE /\ Record(IF carve THEN <<Slice("jpeg", pos, res.len)>> ELSE <<>>, read)
           /\ MoveTo(pos + IF carve THEN res.len ELSE 1)
  BY <1>3
<1>5. read \in Seq(Entries(bufsize))
  <2>1. pos + 1 <= bufsize
    BY <1>1, <1>2
  <2>2. get_tiff_offset_from_exif \in Nat
    BY <1>1, <2>1, ExifOffset
  <2>3. QED BY <1>1, <2>2, AllIsRead
<1>6. res.len \in Int
  <2>1. Chain(pos) \in Chains(pos)
    BY <1>1, <1>2, ChainIs
  <2>2. QED BY <1>1, <2>1, JpegIs
<1> HIDE DEF res, carve
<1>7. CASE res.len <= 0
  <2>1. Grown(0)
    BY <1>4, <1>7, SilentGrows DEF NotRecorded
  <2>2. Onto /\ entries' \in Seq(Entries(bufsize))
    BY <1>1, <1>4, <1>5, <1>7 DEF Onto, MoveTo, NotRecorded
  <2>3. QED BY <2>1, <2>2, GrownKeeps
<1>8. CASE ~(res.len <= 0) /\ carve
  <2>1. res.len \in Nat /\ res.len > 0
    BY <1>6, <1>8
  <2>2. Record(<<Slice("jpeg", pos, res.len)>>, read) /\ MoveTo(pos + res.len)
    BY <1>4, <1>8
  <2>3. pos' = pos + res.len /\ Onto
    BY <1>1, <2>1, <2>2 DEF Onto, MoveTo
  <2>4. Grown(res.len) /\ entries' = <<>>
    BY <1>5, <2>1, <2>2, <2>3, RecordGrows
  <2>5. QED BY <2>1, <2>3, <2>4, GrownKeeps
<1>9. CASE ~(res.len <= 0) /\ ~carve
  <2>1. Record(<<>>, read) /\ MoveTo(pos + 1)
    BY <1>4, <1>9
  <2>2. Onto
    BY <1>1, <2>1 DEF Onto, MoveTo
  <2>3. Grown(0) /\ entries' = <<>>
    BY <1>5, <2>1, RecordGrows
  <2>4. QED BY <2>2, <2>3, GrownKeeps
<1>10. QED BY <1>7, <1>8, <1>9

LEMMA OthersKeep ==
  ASSUME ExifInv, ~WalkDone, pos < pagesize, UNCHANGED memo, ExifPsd \/ ExifTiff \/ ExifOther
  PROVE  ExifInv'
<1>1. /\ IsPicture /\ page \in Nat /\ pos \in Nat /\ memo = 0 /\ entries \in Seq(Entries(bufsize))
  BY DEF ExifInv, ExifTyped
<1>2. Onto
  BY <1>1 DEF ExifPsd, ExifTiff, ExifOther, Onto, MoveTo
<1>3. CASE ExifPsd
  <2>1. HasKind(pos, "8BPS")
    BY <1>3 DEF ExifPsd
  <2>2. PICK read \in AllRead(get_tiff_offset_from_psd) : NotRecorded(read)
    BY <1>3 DEF ExifPsd
  <2>3. get_tiff_offset_from_psd \in Nat
    BY <1>1, <2>1, PsdOffset
  <2>4. read \in Seq(Entries(bufsize))
    BY <1>1, <2>3, AllIsRead
  <2>5. Grown(0) /\ entries' = read
    BY <2>2, SilentGrows DEF NotRecorded
  <2>6. QED BY <1>2, <2>4, <2>5, GrownKeeps
<1>4. CASE Silent /\ UNCHANGED entries
  BY <1>1, <1>2, <1>4, SilentGrows, GrownKeeps
<1>5. CASE HasKind(pos, "TIFF") /\ \E read \in read_tiff_data(pos) : Record(<<>>, read)
  <2>1. PICK read \in read_tiff_data(pos) : Record(<<>>, read)
    BY <1>5
  <2>2. read \in Seq(Entries(bufsize))
    BY <1>1, <1>5, TiffIsRead
  <2>3. Grown(0) /\ entries' = <<>>
    BY <2>1, <2>2, RecordGrows
  <2>4. QED BY <1>2, <2>3, GrownKeeps
<1>6. QED BY <1>3, <1>4, <1>5 DEF ExifTiff, ExifOther

\* The next page: what was carved in this one begins before it.
LEMMA LeaveKeeps ==
  ASSUME ExifInv, ~WalkDone, LeavePage, Silent, entries' = <<>>
  PROVE  ExifInv'
<1>1. /\ IsPicture /\ page \in Nat /\ pos \in Nat /\ reports \in Seq(Features) /\ \A i \in DOMAIN reports : Bounded(reports[i])
  BY DEF ExifInv, ExifTyped
<1>2. /\ ImageSize \in Nat /\ WalkStart \in Nat /\ image.pagesize \in Nat \ {0} /\ WalkStart = page * image.pagesize
  BY <1>1, InPicture DEF IsPicture, WalkStart
<1>3. page' = page + 1 /\ pos' = 0 /\ memo' = 0 /\ scanner' = scanner /\ image' = image /\ reports' = reports
  BY DEF LeavePage, Silent
<1>4. WalkStart' = WalkStart + image.pagesize
  <2>1. \A a, b \in Nat : (a + 1) * b = a * b + b
    OBVIOUS
  <2>2. (page + 1) * image.pagesize = page * image.pagesize + image.pagesize
    BY <1>1, <1>2, <2>1
  <2>3. QED BY <1>2, <1>3, <2>2 DEF WalkStart
<1>5. ImageSize' = ImageSize /\ IsPicture' /\ \A q : PageBound(q)' = PageBound(q)
  BY <1>1, <1>3 DEF ImageSize, IsPicture, PageBound, PageFirst, Least
<1>6. ExifTyped'
  <2>1. entries' \in Seq(Entries(bufsize'))
    BY DEF Entries
  <2>2. page' \in Nat /\ pos' \in Nat /\ reports' \in Seq(Features)
    BY <1>1, <1>3
  <2>3. \A i \in DOMAIN reports' : reports'[i].from <= reports'[i].to /\ reports'[i].to <= ImageSize'
    BY <1>1, <1>3, <1>5 DEF Bounded
  <2>4. QED BY <1>3, <1>5, <2>1, <2>2, <2>3 DEF ExifTyped, Entries, Bounded
<1>7. JpegsCarvedOnce'
  BY <1>3, <1>5 DEF ExifInv, JpegsCarvedOnce, Overlap, PageBound, PageFirst, ImageSize
<1>8. JpegsBehind'
  <2> SUFFICES ASSUME NEW i \in DOMAIN reports, reports[i].kind = "jpeg"
               PROVE  /\ reports[i].from < WalkStart' + image.pagesize
                      /\ PageBound(reports[i].from) <= WalkStart'
    BY <1>3, <1>5 DEF JpegsBehind, PageBound, PageFirst, ImageSize
  <2> DEFINE q == reports[i].from
  <2>1. q \in Nat
    <3>1. reports[i] \in Features
      BY <1>1
    <3>2. QED BY <3>1 DEF Features
  <2>2. q < WalkStart + image.pagesize
    BY DEF ExifInv, JpegsBehind
  <2> HIDE DEF q
  <2>3. PageFirst(q) <= WalkStart /\ PageFirst(q) \in Nat
    BY <1>1, <1>2, <2>1, <2>2, FirstIsBefore DEF PageFirst
  <2>4. PageBound(q) <= WalkStart + image.pagesize
    BY <1>2, <2>3 DEF PageBound, Least
  <2>5. q < WalkStart' + image.pagesize
    BY <1>2, <1>4, <2>1, <2>2
  <2>6. QED BY <1>4, <2>4, <2>5 DEF q
<1>9. QED BY <1>6, <1>7, <1>8 DEF ExifInv

LEMMA ExifKept == ASSUME ExifInv, [ExifStep]_exif_vars PROVE ExifInv'
<1>1. CASE ExifStep
  <2>1. ~WalkDone
    BY <1>1 DEF ExifStep, In
  <2>2. CASE pos < exif_limit /\ UNCHANGED memo /\ (ExifJpeg \/ ExifPsd \/ ExifTiff \/ ExifOther)
    <3>1. pos < pagesize
      BY <2>1, <2>2, LimitIs DEF ExifInv, ExifTyped
    <3>2. QED BY <2>1, <2>2, <3>1, JpegKeeps, OthersKeep
  <2>3. CASE LeavePage /\ Silent /\ entries' = <<>>
    BY <2>1, <2>3, LeaveKeeps
  <2>4. QED BY <1>1, <2>2, <2>3 DEF ExifStep
<1>2. CASE UNCHANGED exif_vars
  <2>1. /\ scanner' = scanner /\ image' = image /\ page' = page /\ pos' = pos /\ memo' = memo /\ reports' = reports
        /\ entries' = entries
    BY <1>2 DEF exif_vars, walk_vars
  <2>2. ExifTyped'
    BY <2>1 DEF ExifInv, ExifTyped, IsPicture, ImageSize, Bounded, bufsize, WalkStart, Least, Entries
  <2>3. JpegsBehind' /\ JpegsCarvedOnce'
    BY <2>1 DEF ExifInv, JpegsBehind, JpegsCarvedOnce, Overlap, PageBound, PageFirst, ImageSize, WalkStart
  <2>4. QED BY <2>2, <2>3 DEF ExifInv
<1>3. QED BY <1>1, <1>2

LEMMA ExifStart == ASSUME ExifInit PROVE ExifInv
<1>1. IsPicture /\ page = 0 /\ pos = 0 /\ memo = 0 /\ reports = <<>> /\ entries = <<>>
  BY DEF ExifInit, WalkInit
<1>2. ExifTyped
  BY <1>1 DEF ExifTyped
<1>3. QED BY <1>1, <1>2 DEF ExifInv, JpegsBehind, JpegsCarvedOnce

\* JpegsCarvedOnce, a part of FoundOnce: over a picture of any content, whatever the sizes
\* of pages and margins, no two JPEGs that exif_scanner::scan carves overlap, unless the
\* second begins in a later page.
THEOREM JpegsApart == ExifSpec => []JpegsCarvedOnce
<1>1. ExifInv => JpegsCarvedOnce
  BY DEF ExifInv
<1>2. QED BY <1>1, ExifStart, ExifKept, PTL DEF ExifSpec

\* WalkTypeOK, a part of TypeOK, for this scanner: what it carves and the values it
\* records lie in the image.
THEOREM ExifTyping == ExifSpec => []WalkTypeOK
<1>1. ASSUME ExifInv PROVE WalkTypeOK
  <2>1. \A i \in DOMAIN reports : reports[i] \in Features
    BY <1>1 DEF ExifInv, ExifTyped
  <2>2. \A i \in DOMAIN reports : 0 <= reports[i].from
    BY <2>1 DEF Features
  <2>3. \A i \in DOMAIN reports : reports[i].from <= reports[i].to /\ reports[i].to <= ImageSize
    BY <1>1 DEF ExifInv, ExifTyped, Bounded
  <2>4. QED BY <1>1, <2>2, <2>3 DEF ExifInv, ExifTyped, WalkTypeOK
<1>2. QED BY <1>1, ExifStart, ExifKept, PTL DEF ExifSpec
===============================================================================
