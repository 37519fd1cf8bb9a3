------------------------------- MODULE AesScan -------------------------------
(***************************************************************************)
(* scan_aes: the schedules of AES keys in a page.  A cell is a word, four  *)
(* bytes: the scanner looks at every byte, at all four offsets alike.  An  *)
(* image has, besides its cells, the key lengths that are "enabled".       *)
(***************************************************************************)
EXTENDS SbufWalk

Byte == 0 .. 255
NoWord == <<0, 0, 0, 0>>

(* The field of the cipher, and its S-box *)

\* Exclusive or: of four bits, and of a byte.
xor4 == [a, b \in 0 .. 15 |->
           LET bit(p) == p * (((a \div p) + (b \div p)) % 2) IN bit(1) + bit(2) + bit(4) + bit(8)]
xor(a, b) == xor4[a % 16, b % 16] + 16 * xor4[a \div 16, b \div 16]

\* 2a, the carry folded back.
xtime == [a \in Byte |-> IF a >= 128 THEN xor((2 * a) % 256, 27) ELSE 2 * a]
\* The product, from the highest bit of b on.
gmul(a, b) ==
  LET add[s \in Byte] == xor(xtime[s], a)
      sum[n \in 0 .. 8] == IF n = 0 THEN 0 ELSE IF (b \div 2^(8 - n)) % 2 = 1 THEN add[sum[n - 1]] ELSE xtime[sum[n - 1]]
  IN  sum[8]
rcon_function(i) == LET c[n \in 1 .. 255] == IF n = 1 THEN 1 ELSE xtime[c[n - 1]] IN IF i = 0 THEN 0 ELSE c[i]
rcon == [i \in 0 .. 10 |-> rcon_function(i)]

\* What the tables of logarithms and powers come to: a^254.
gmul_inverse(a) ==
  LET square[s \in Byte] == gmul(s, s)
      times[s \in Byte] == gmul(s, a)
      power[n \in 1 .. 7] == IF n = 1 THEN a ELSE times[square[power[n - 1]]]
  IN  square[power[7]]

rotate8 == [s \in Byte |-> ((2 * s) % 256) + s \div 128]
sbox_function(a) ==
  LET x[s \in Byte] ==
        LET s2 == rotate8[rotate8[s]] IN xor(xor(xor(s, rotate8[s]), xor(s2, rotate8[s2])), xor(rotate8[rotate8[s2]], 99))
  IN  x[gmul_inverse(a)]
\* Of the byte a, at a + 1; a part of a sequence, so that it is worked out once.
sbox == SubSeq([i \in 1 .. 256 |-> sbox_function(i - 1)], 1, 256)

(* Key schedules *)

Sum(u, v) == [i \in 1 .. 4 |-> xor(u[i], v[i])]
SubWord(w) == [i \in 1 .. 4 |-> sbox[w[i] + 1]]
rotate32x8(w) == <<w[2], w[3], w[4], w[1]>>
schedule_core(w, i) == Sum(SubWord(rotate32x8(w)), <<rcon[i], 0, 0, 0>>)

\* A schedule of size words whose key has nk of them, at the cell p; the first round has
\* the number i.
WordAt(k) == Cell(k, NoWord)
valid_schedule(p, nk, size, first) ==
  \A n \in nk .. size - 1 :
    LET before == WordAt(p + n - 1)
        t == IF n % nk = 0 THEN schedule_core(before, first + n \div nk - 1)
             ELSE IF nk = 8 /\ n % nk = 4 THEN SubWord(before) ELSE before
    IN  WordAt(p + n) = Sum(WordAt(p + n - nk), t)

KeyLengths == {"AES128", "AES192", "AES256"}
KeyWords == [AES128 |-> 4, AES192 |-> 6, AES256 |-> 8]
Words == [AES128 |-> 44, AES192 |-> 52, AES256 |-> 60]
valid_aes128_schedule(p) == valid_schedule(p, 4, 44, 1)
\* Mutant: the last word is not compared.
valid_aes256_schedule_Short(p) == valid_schedule(p, 8, 59, 1)
valid_aes192_schedule(p) == valid_schedule(p, 6, 52, 0)
valid_aes256_schedule(p) == valid_schedule(p, 8, 60, 1)
Valid(l, p) ==
  CASE l = "AES128" -> valid_aes128_schedule(p)
    [] l = "AES192" -> valid_aes192_schedule(p)
    [] l = "AES256" -> valid_aes256_schedule(p)

create_aes128_schedule(key) ==
  LET Next(w) == Append(w, Sum(w[Len(w) - 3], IF Len(w) % 4 = 0 THEN schedule_core(w[Len(w)], Len(w) \div 4) ELSE w[Len(w)]))
      words[n \in 4 .. 44] == IF n = 4 THEN key ELSE CHOOSE v \in {Next(w) : w \in {words[n - 1]}} : TRUE
  IN  words[44]

(* The scanner *)

\* Bytes enter the window, and none leaves it.
distinct_counts ==
  Cardinality(UNION {{WordAt(i)[b] : b \in 1 .. 4} : i \in 0 .. pos + 43} \cup {WordAt(pos + 44)[1]})

Keys == SelectSeq(<<"AES128", "AES192", "AES256">>,
                  LAMBDA l : l \in image.enabled /\ bufsize - pos >= Words[l] /\ Valid(l, pos))

AesStep ==
  /\ In("aes")
  /\ \/ /\ image.enabled # {} /\ pos < pagesize - 44
        /\ MoveTo(pos + 1) /\ UNCHANGED memo
        /\ IF distinct_counts < 11 THEN Silent
           ELSE \E keys \in {Keys} : reports' = reports \o [i \in DOMAIN keys |-> Slice(keys[i], pos, KeyWords[keys[i]])]
     \/ (image.enabled = {} \/ pos >= pagesize - 44) /\ LeavePage /\ Silent

-----------------------------------------------------------------------------
(* What it reports *)

\* The key expansion of FIPS 197, whose round constants are the powers of 2, beginning
\* with the given power.
Expanded(q, nk, size, power) ==
  \A n \in nk .. size - 1 :
    LET w(k) == CellAt(q + k)
        rot == <<w(n - 1)[2], w(n - 1)[3], w(n - 1)[4], w(n - 1)[1]>>
        sub(v) == [i \in 1 .. 4 |-> sbox[v[i] + 1]]
        core == IF n % nk = 0 THEN sub(rot) ELSE IF nk > 6 /\ n % nk = 4 THEN sub(w(n - 1)) ELSE w(n - 1)
        c == IF n % nk = 0 THEN rcon_function(power + n \div nk) ELSE 0
    IN  \A i \in 1 .. 4 : w(n)[i] = xor(w(n - nk)[i], IF i = 1 THEN xor(core[i], c) ELSE core[i])
Schedule(l, q) ==
  q \in Places /\ q + Words[l] <= ImageSize /\ Expanded(q, KeyWords[l], Words[l], IF l = "AES192" THEN -1 ELSE 0)

\* A key that is reported is followed by its schedule; for a key of 192 bits, by one whose
\* round constants begin with 0, which is no key's.
AesSound ==
  scanner = "aes" =>
    \A i \in DOMAIN reports : reports[i].kind \in image.enabled /\ Schedule(reports[i].kind, reports[i].from)

\* A schedule is found unless it begins in the last 44 words of a page.  (A page whose
\* bytes before its end have fewer than 11 values holds no schedule.)
AesFound ==
  WalkDone /\ scanner = "aes" =>
    \A l \in image.enabled : \A q \in Places :
      q < PageBound(q) - 44 /\ q + Words[l] <= SbufBound(q) /\ Schedule(l, q) => Reported(l, q, q + KeyWords[l])
===============================================================================
