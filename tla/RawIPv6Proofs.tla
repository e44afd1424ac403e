--------------------------- MODULE RawIPv6Proofs ---------------------------
(***************************************************************************)
(* Proofs about the walk over the extension headers of an IPv6 packet and  *)
(* the builders (module RawIPv6), for any number of headers of any length, *)
(* a packet of any length, cut anywhere, and any number of builders.       *)
(***************************************************************************)
EXTENDS RawIPv6, TLAPS, SequenceTheorems, NaturalsInduction, WellFoundedInduction

-----------------------------------------------------------------------------
(* Where the headers start.                                                *)

\* The function Start is defined to be, and what it is as far as n.
IsStart(f, hs) ==
  f = [i \in Nat |-> IF i <= 1 THEN FixedLen ELSE f[i - 1] + Size(hs[i - 1])]
StartsTo(f, hs, n) ==
  f = [i \in 0..n |-> IF i <= 1 THEN FixedLen ELSE f[i - 1] + Size(hs[i - 1])]

\* The least of some numbers.
LEMMA LeastOne ==
  ASSUME NEW S \in SUBSET Nat, S # {}
  PROVE  \E m \in S : \A k \in S : ~(k < m)
<1>1. PICK m \in S : \A k \in S : <<k, m>> \notin OpToRel(<, Nat)
  BY NatLessThanWellFounded, WFMin
<1> QED
  BY <1>1 DEF OpToRel

\* Every part of the function exists, for there is no least part that does not.
LEMMA StartsExist ==
  ASSUME NEW hs, NEW n \in Nat
  PROVE  \E f : StartsTo(f, hs, n)
<1> DEFINE S == {m \in Nat : ~\E f : StartsTo(f, hs, m)}
<1> SUFFICES ASSUME S # {} PROVE FALSE
  OBVIOUS
<1>1. PICK m \in S : \A k \in S : ~(k < m)
  <2>1. S \in SUBSET Nat
    OBVIOUS
  <2> HIDE DEF S
  <2> QED
    BY <2>1, LeastOne
<1>2. m \in Nat
  OBVIOUS
<1>3. CASE m = 0
  <2>1. PICK f : f = [i \in 0..0 |-> FixedLen]
    OBVIOUS
  <2>2. f = [i \in 0..0 |-> IF i <= 1 THEN FixedLen ELSE f[i - 1] + Size(hs[i - 1])]
    BY <2>1
  <2>3. StartsTo(f, hs, 0)
    BY <2>2 DEF StartsTo
  <2> QED
    BY <1>3, <2>3
<1>4. CASE m # 0
  <2>1. PICK k \in Nat : m = k + 1
    <3>1. m - 1 \in Nat /\ m = (m - 1) + 1
      BY <1>2, <1>4
    <3> QED
      BY <3>1
  <2>2. PICK f : StartsTo(f, hs, k)
    BY <1>1, <2>1
  <2>3. PICK g : g = [i \in 0..m |-> IF i <= 1 THEN FixedLen ELSE f[i - 1] + Size(hs[i - 1])]
    OBVIOUS
  <2>4. ASSUME NEW i \in 0..k PROVE g[i] = f[i]
    <3>1. i \in 0..m
      BY <2>1
    <3>2. g[i] = IF i <= 1 THEN FixedLen ELSE f[i - 1] + Size(hs[i - 1])
      BY <2>3, <3>1
    <3>3. f[i] = IF i <= 1 THEN FixedLen ELSE f[i - 1] + Size(hs[i - 1])
      BY <2>2 DEF StartsTo
    <3> QED
      BY <3>2, <3>3
  <2>5. \A i \in 0..m : ~(i <= 1) => i - 1 \in 0..k
    BY <2>1
  <2>6. g = [i \in 0..m |-> IF i <= 1 THEN FixedLen ELSE g[i - 1] + Size(hs[i - 1])]
    BY <2>3, <2>4, <2>5
  <2>7. StartsTo(g, hs, m)
    BY <2>6 DEF StartsTo
  <2> QED
    BY <2>7
<1> QED
  BY <1>3, <1>4

\* Parts agree, whatever comes after what both cover.
LEMMA StartsAgree ==
  ASSUME NEW f, NEW g, NEW hs, NEW more, NEW n \in Nat, NEW m \in Nat, n <= m,
         StartsTo(f, hs, n), StartsTo(g, more, m),
         \A i \in 1..(n - 1) : hs[i] = more[i]
  PROVE  \A i \in 0..n : f[i] = g[i]
<1> DEFINE S == {i \in 0..n : f[i] # g[i]}
<1> SUFFICES ASSUME S # {} PROVE FALSE
  OBVIOUS
<1>1. PICK i \in S : \A k \in S : ~(k < i)
  <2>1. S \in SUBSET Nat
    OBVIOUS
  <2> HIDE DEF S
  <2> QED
    BY <2>1, LeastOne
<1>2. i \in 0..n /\ i \in 0..m /\ f[i] # g[i]
  OBVIOUS
<1>3. f[i] = IF i <= 1 THEN FixedLen ELSE f[i - 1] + Size(hs[i - 1])
  BY <1>2 DEF StartsTo
<1>4. g[i] = IF i <= 1 THEN FixedLen ELSE g[i - 1] + Size(more[i - 1])
  BY <1>2 DEF StartsTo
<1>5. ~(i <= 1) => i - 1 \in 0..n /\ i - 1 < i /\ i - 1 \in 1..(n - 1)
  BY <1>2
<1>6. ~(i <= 1) => f[i - 1] = g[i - 1] /\ hs[i - 1] = more[i - 1]
  <2>1. ~(i <= 1) => i - 1 \notin S
    BY <1>1, <1>5
  <2> QED
    BY <1>5, <2>1
<1> QED
  BY <1>2, <1>3, <1>4, <1>6

\* The parts make the whole function.
LEMMA StartExists ==
  ASSUME NEW hs
  PROVE  \E f : IsStart(f, hs)
<1> DEFINE part(n) == CHOOSE f : StartsTo(f, hs, n)
<1>1. \A n \in Nat : StartsTo(part(n), hs, n)
  BY StartsExist
<1> HIDE DEF part
<1>2. PICK f : f = [n \in Nat |-> part(n)[n]]
  OBVIOUS
<1>3. ASSUME NEW n \in Nat
      PROVE  f[n] = IF n <= 1 THEN FixedLen ELSE f[n - 1] + Size(hs[n - 1])
  <2>1. n \in 0..n /\ f[n] = part(n)[n]
    BY <1>2
  <2>2. part(n)[n] = IF n <= 1 THEN FixedLen ELSE part(n)[n - 1] + Size(hs[n - 1])
    BY <1>1, <2>1 DEF StartsTo
  <2>3. CASE n <= 1
    BY <2>1, <2>2, <2>3
  <2>4. CASE ~(n <= 1)
    <3>1. PICK k \in Nat : k = n - 1
      BY <2>4
    <3>2. k <= n /\ k \in 0..k
      BY <3>1
    <3>3. part(k)[k] = part(n)[k]
      BY <1>1, <3>2, StartsAgree
    <3>4. f[k] = part(k)[k]
      BY <1>2
    <3> QED
      BY <2>1, <2>2, <2>4, <3>1, <3>3, <3>4
  <2> QED
    BY <2>3, <2>4
<1>4. f = [n \in Nat |-> IF n <= 1 THEN FixedLen ELSE f[n - 1] + Size(hs[n - 1])]
  BY <1>2, <1>3
<1> QED
  BY <1>4 DEF IsStart

LEMMA StartIs == IsStart(Start, headers) /\ IsStart(Start', headers')
<1>1. IsStart(Start, headers)
  <2>1. \E f : f = [i \in Nat |-> IF i <= 1 THEN FixedLen ELSE f[i - 1] + Size(headers[i - 1])]
    BY StartExists DEF IsStart
  <2>2. Start = CHOOSE f : f = [i \in Nat |-> IF i <= 1 THEN FixedLen
                                               ELSE f[i - 1] + Size(headers[i - 1])]
    BY DEF Start
  <2> QED
    BY <2>1, <2>2 DEF IsStart
<1>2. IsStart(Start', headers')
  <2>1. \E f : f = [i \in Nat |-> IF i <= 1 THEN FixedLen ELSE f[i - 1] + Size(headers'[i - 1])]
    BY StartExists DEF IsStart
  <2>2. Start' = CHOOSE f : f = [i \in Nat |-> IF i <= 1 THEN FixedLen
                                                ELSE f[i - 1] + Size(headers'[i - 1])]
    BY DEF Start
  <2> QED
    BY <2>1, <2>2 DEF IsStart
<1> QED
  BY <1>1, <1>2

\* One header after the other: where the next starts is eight bytes on or more, in
\* units of four.
Laid(f, hs) ==
  /\ f[1] = FixedLen
  /\ \A i \in 1..Len(hs) : f[i + 1] = f[i] + Size(hs[i])
  /\ \A i \in 1..(Len(hs) + 1) : f[i] \in Nat /\ f[i] >= FixedLen /\ f[i] % 4 = 0
  /\ \A i, j \in 1..(Len(hs) + 1) : i < j => f[i] + 8 <= f[j]

\* What a header may be.
LEMMA HeaderFacts ==
  ASSUME NEW h \in Header
  PROVE  /\ h.kind \in Extensions /\ h.units \in 0..255 /\ h.offset \in Nat /\ h.more \in BOOLEAN
         /\ h.kind # Fragment => h.offset = 0
<1>1. \A units \in Units : units \in 0..255
  BY UnitsAssumption
<1>0. \A offset \in Offsets : offset \in Nat
  BY UnitsAssumption
<1>2. Fragment \in Extensions
  BY DEF Extensions
<1>3. ASSUME h \in [kind : Extensions \ {Fragment}, units : Units, offset : {0}, more : {FALSE}]
      PROVE  h.kind \in Extensions /\ h.units \in Units /\ h.offset = 0 /\ h.more \in BOOLEAN
  BY <1>3
<1>4. ASSUME h \in [kind : {Fragment}, units : Units, offset : Offsets, more : BOOLEAN]
      PROVE  h.kind = Fragment /\ h.units \in Units /\ h.offset \in Offsets /\ h.more \in BOOLEAN
  BY <1>4
<1>5. \/ h \in [kind : Extensions \ {Fragment}, units : Units, offset : {0}, more : {FALSE}]
      \/ h \in [kind : {Fragment}, units : Units, offset : Offsets, more : BOOLEAN]
  BY DEF Header
<1>6. h.units \in Units /\ h.kind \in Extensions /\ h.more \in BOOLEAN
  BY <1>2, <1>3, <1>4, <1>5
<1>7. h.offset = 0 \/ (h.kind = Fragment /\ h.offset \in Offsets)
  BY <1>3, <1>4, <1>5
<1>8. 0 \in Nat
  OBVIOUS
<1>9. h.units \in 0..255
  BY <1>1, <1>6
<1>10. h.offset \in Nat
  BY <1>0, <1>7, <1>8
<1>11. h.kind # Fragment => h.offset = 0
  BY <1>7
<1> QED
  BY <1>6, <1>9, <1>10, <1>11

LEMMA SizeFacts ==
  ASSUME NEW h \in Header
  PROVE  Size(h) \in Nat /\ Size(h) >= 8 /\ Size(h) % 4 = 0
<1>1. PICK units \in 0..255 : units = h.units
  BY HeaderFacts
<1>2. 4 * units + 8 \in Nat /\ 4 * units + 8 >= 8 /\ (4 * units + 8) % 4 = 0
  BY <1>1
<1>3. 8 * units + 8 \in Nat /\ 8 * units + 8 >= 8 /\ (8 * units + 8) % 4 = 0
  BY <1>1
<1>4. Size(h) \in {8, 4 * units + 8, 8 * units + 8}
  BY <1>1 DEF Size
<1>5. 8 % 4 = 0
  OBVIOUS
<1> QED
  BY <1>2, <1>3, <1>4, <1>5

LEMMA SumOfFours ==
  ASSUME NEW a \in Nat, NEW b \in Nat, a % 4 = 0, b % 4 = 0
  PROVE  (a + b) % 4 = 0
OBVIOUS

LEMMA LaidOut ==
  ASSUME NEW hs \in Seq(Header), NEW f, IsStart(f, hs)
  PROVE  Laid(f, hs)
<1> DEFINE L == Len(hs)
<1>1. L \in Nat /\ \A i \in 1..L : hs[i] \in Header
  OBVIOUS
<1>2. \A i \in Nat : f[i] = IF i <= 1 THEN FixedLen ELSE f[i - 1] + Size(hs[i - 1])
  BY DEF IsStart
<1>3. f[1] = FixedLen
  BY <1>2
<1>4. ASSUME NEW i \in 1..L PROVE f[i + 1] = f[i] + Size(hs[i])
  <2>1. i + 1 \in Nat /\ ~(i + 1 <= 1) /\ (i + 1) - 1 = i
    BY <1>1
  <2> QED
    BY <1>2, <2>1
<1>5. \A i \in 1..(L + 1) : f[i] \in Nat /\ f[i] >= FixedLen /\ f[i] % 4 = 0
  <2> DEFINE good(i) == f[i] \in Nat /\ f[i] >= FixedLen /\ f[i] % 4 = 0
             S == {i \in 1..(L + 1) : ~good(i)}
  <2> SUFFICES ASSUME S # {} PROVE FALSE
    OBVIOUS
  <2>1. PICK i \in S : \A k \in S : ~(k < i)
    <3>1. S \in SUBSET Nat
      BY <1>1
    <3> HIDE DEF S
    <3> QED
      BY <3>1, LeastOne
  <2>2. i \in 1..(L + 1) /\ ~good(i)
    OBVIOUS
  <2>3. good(1)
    BY <1>3 DEF FixedLen
  <2>4. i # 1
    BY <2>2, <2>3
  <2>5. PICK k \in 1..L : i = k + 1
    <3>1. i - 1 \in 1..L /\ i = (i - 1) + 1
      BY <1>1, <2>2, <2>4
    <3> QED
      BY <3>1
  <2>6. k \in 1..(L + 1) /\ k < i
    BY <1>1, <2>5
  <2>7. good(k)
    <3>1. k \notin S
      BY <2>1, <2>6
    <3> HIDE DEF good
    <3> QED
      BY <2>6, <3>1
  <2>8. f[i] = f[k] + Size(hs[k])
    BY <1>4, <2>5
  <2>9. hs[k] \in Header
    BY <1>1
  <2>10. PICK a, b : a = f[k] /\ b = Size(hs[k])
    OBVIOUS
  <2>11. a \in Nat /\ a >= FixedLen /\ a % 4 = 0
    BY <2>7, <2>10
  <2>12. b \in Nat /\ b % 4 = 0
    BY <2>9, <2>10, SizeFacts
  <2>13. a + b \in Nat /\ a + b >= FixedLen
    BY <2>11, <2>12 DEF FixedLen
  <2>14. (a + b) % 4 = 0
    BY <2>11, <2>12, SumOfFours
  <2>15. f[i] = a + b
    BY <2>8, <2>10
  <2>16. good(i)
    BY <2>13, <2>14, <2>15
  <2> QED
    BY <2>2, <2>16
<1>6. ASSUME NEW i \in 1..(L + 1), NEW j \in 1..(L + 1), i < j
      PROVE  f[i] + 8 <= f[j]
  <2> DEFINE S == {k \in 1..(L + 1) : i < k /\ ~(f[i] + 8 <= f[k])}
  <2> SUFFICES ASSUME S # {} PROVE FALSE
    BY <1>6
  <2>1. PICK k \in S : \A m \in S : ~(m < k)
    <3>1. S \in SUBSET Nat
      BY <1>1
    <3> HIDE DEF S
    <3> QED
      BY <3>1, LeastOne
  <2>2. k \in 1..(L + 1) /\ i < k /\ ~(f[i] + 8 <= f[k])
    OBVIOUS
  <2>3. PICK m \in 1..L : k = m + 1
    <3>1. k - 1 \in 1..L /\ k = (k - 1) + 1
      BY <1>1, <2>2
    <3> QED
      BY <3>1
  <2>4. f[k] = f[m] + Size(hs[m])
    BY <1>4, <2>3
  <2>5. m \in 1..(L + 1) /\ m < k /\ (i = m \/ i < m)
    BY <1>1, <2>2, <2>3
  <2>6. i < m => f[i] + 8 <= f[m]
    <3>1. m \notin S
      BY <2>1, <2>5
    <3> QED
      BY <2>5, <3>1
  <2>7. hs[m] \in Header
    BY <1>1
  <2>8. Size(hs[m]) \in Nat /\ Size(hs[m]) >= 8
    BY <2>7, SizeFacts
  <2>9. f[i] \in Nat /\ f[m] \in Nat
    BY <1>5, <2>5
  <2>10. f[i] <= f[m]
    BY <2>5, <2>6, <2>9
  <2>11. PICK a \in Nat, b \in Nat, c \in Nat : a = f[i] /\ b = f[m] /\ c = Size(hs[m])
    BY <2>8, <2>9
  <2>12. a <= b /\ c >= 8 /\ ~(a + 8 <= b + c)
    BY <2>2, <2>4, <2>8, <2>10, <2>11
  <2> QED
    BY <2>12
<1> QED
  BY <1>3, <1>4, <1>5, <1>6 DEF Laid

LEMMA StartLaid ==
  /\ headers \in Seq(Header) => Laid(Start, headers)
  /\ headers' \in Seq(Header) => Laid(Start', headers')
BY StartIs, LaidOut

\* Headers that are the same so far start at the same places.
LEMMA SameStarts ==
  ASSUME NEW f, NEW g, NEW hs, NEW more, NEW n \in Nat,
         IsStart(f, hs), IsStart(g, more),
         \A i \in 1..(n - 1) : hs[i] = more[i]
  PROVE  \A i \in 0..n : f[i] = g[i]
<1> DEFINE a == [i \in 0..n |-> f[i]]
           b == [i \in 0..n |-> g[i]]
<1>1. \A i \in 0..n : i \in Nat /\ (~(i <= 1) => i - 1 \in 0..n)
  OBVIOUS
<1>2. StartsTo(a, hs, n)
  <2>1. \A i \in 0..n : a[i] = IF i <= 1 THEN FixedLen ELSE a[i - 1] + Size(hs[i - 1])
    BY <1>1 DEF IsStart
  <2> QED
    BY <2>1 DEF StartsTo
<1>3. StartsTo(b, more, n)
  <2>1. \A i \in 0..n : b[i] = IF i <= 1 THEN FixedLen ELSE b[i - 1] + Size(more[i - 1])
    BY <1>1 DEF IsStart
  <2> QED
    BY <2>1 DEF StartsTo
<1>4. \A i \in 0..n : a[i] = b[i]
  <2>1. n <= n
    OBVIOUS
  <2> HIDE DEF a, b
  <2> QED
    BY <1>2, <1>3, <2>1, StartsAgree
<1> QED
  BY <1>4

-----------------------------------------------------------------------------
(* The bytes of the headers.                                               *)

\* A place in the first eight bytes of a header is in no other header.
LEMMA ByteIs ==
  ASSUME headers \in Seq(Header), NEW i \in 1..Len(headers), NEW place \in 0..7
  PROVE  Byte(Start[i] + place) = HeaderByte(i, place)
<1> DEFINE at == Start[i] + place
           Within(j) == Start[j] <= at /\ at < Start[j + 1]
<1>1. Laid(Start, headers) /\ Len(headers) \in Nat
  BY StartLaid
<1>2. \A j \in 1..(Len(headers) + 1) : Start[j] \in Nat
  BY <1>1 DEF Laid
<1>3. \A j, k \in 1..(Len(headers) + 1) : j < k => Start[j] + 8 <= Start[k]
  BY <1>1 DEF Laid
<1>4. \A j \in 1..Len(headers) : j \in 1..(Len(headers) + 1) /\ j + 1 \in 1..(Len(headers) + 1) /\ j < j + 1
  BY <1>1
<1>5. PICK s \in Nat : s = Start[i]
  BY <1>2, <1>4
<1>6. Within(i)
  <2>1. PICK t \in Nat : t = Start[i + 1]
    BY <1>2, <1>4
  <2>2. s + 8 <= t
    BY <1>3, <1>4, <1>5, <2>1
  <2> QED
    BY <1>5, <2>1, <2>2
<1>7. ASSUME NEW j \in 1..Len(headers), Within(j) PROVE j = i
  <2>1. PICK a \in Nat, b \in Nat, t \in Nat : a = Start[j] /\ b = Start[j + 1] /\ t = Start[i + 1]
    BY <1>2, <1>4
  <2>2. a <= s + place /\ s + place < b
    BY <1>5, <1>7, <2>1
  <2>3. CASE j < i
    <3>1. j + 1 = i \/ j + 1 < i
      BY <2>3
    <3>2. b = s \/ b + 8 <= s
      BY <1>3, <1>4, <1>5, <2>1, <3>1
    <3> QED
      BY <2>2, <3>2
  <2>4. CASE i < j
    <3>1. i + 1 = j \/ i + 1 < j
      BY <2>4
    <3>2. t = a \/ t + 8 <= a
      BY <1>3, <1>4, <2>1, <3>1
    <3>3. s + 8 <= t
      BY <1>3, <1>4, <1>5, <2>1
    <3> QED
      BY <2>2, <3>2, <3>3
  <2> QED
    BY <2>3, <2>4
<1>8. (CHOOSE j \in 1..Len(headers) : Within(j)) = i
  <2> HIDE DEF Within
  <2> QED
    BY <1>6, <1>7
<1>9. at - Start[i] = place
  BY <1>5
<1>10. Byte(at) = HeaderByte(CHOOSE j \in 1..Len(headers) : Within(j), 
                             at - Start[CHOOSE j \in 1..Len(headers) : Within(j)])
  BY DEF Byte
<1> QED
  BY <1>8, <1>9, <1>10

\* What the walk reads of a header it has all of: what it names next, how long it
\* is, and of a fragment header the offset.
LEMMA HeaderRead ==
  ASSUME headers \in Seq(Header), NEW i \in 1..Len(headers)
  PROVE  /\ Byte(Start[i]) = Named(i)
         /\ Byte(Start[i] + 1) = headers[i].units
         /\ headers[i].kind = Fragment =>
              (Byte(Start[i] + 2) * 256 + Byte(Start[i] + 3)) \div 8 = headers[i].offset
<1> DEFINE h == headers[i]
<1>1. h \in Header
  OBVIOUS
<1>2. Start[i] \in Nat
  BY StartLaid DEF Laid
<1>3. Start[i] + 0 = Start[i] /\ 0 \in 0..7 /\ 1 \in 0..7 /\ 2 \in 0..7 /\ 3 \in 0..7
  BY <1>2
<1>4. Byte(Start[i]) = HeaderByte(i, 0) /\ Byte(Start[i] + 1) = HeaderByte(i, 1)
  BY <1>3, ByteIs
<1>5. Byte(Start[i] + 2) = HeaderByte(i, 2) /\ Byte(Start[i] + 3) = HeaderByte(i, 3)
  BY <1>3, ByteIs
<1>6. HeaderByte(i, 0) = Named(i) /\ HeaderByte(i, 1) = headers[i].units
  BY DEF HeaderByte
<1>7. ASSUME headers[i].kind = Fragment
      PROVE  (HeaderByte(i, 2) * 256 + HeaderByte(i, 3)) \div 8 = headers[i].offset
  <2>0. PICK bit \in 0..1 : bit = IF h.more THEN 1 ELSE 0
    OBVIOUS
  <2>1. PICK offset \in Nat : offset = h.offset
    BY <1>1, HeaderFacts
  <2>2. PICK field \in Nat : field = offset * 8 + bit
    OBVIOUS
  <2>3. HeaderByte(i, 2) = field \div 256 /\ HeaderByte(i, 3) = field % 256
    <3> DEFINE all == headers[i].offset * 8 + (IF headers[i].more THEN 1 ELSE 0)
    <3>1. all = field
      BY <2>0, <2>1, <2>2
    <3> HIDE DEF all
    <3>2. HeaderByte(i, 2) = all \div 256 /\ HeaderByte(i, 3) = all % 256
      BY <1>7 DEF HeaderByte, all
    <3> QED
      BY <3>1, <3>2
  <2>4. PICK q \in Nat, r \in Nat : q = field \div 256 /\ r = field % 256
    OBVIOUS
  <2>5. q * 256 + r = field
    BY <2>4
  <2>6. field \div 8 = offset
    BY <2>2
  <2>7. HeaderByte(i, 2) = q /\ HeaderByte(i, 3) = r
    BY <2>3, <2>4
  <2> QED
    BY <2>1, <2>5, <2>6, <2>7
<1> QED
  BY <1>4, <1>5, <1>6, <1>7

-----------------------------------------------------------------------------
(* The walk.                                                               *)

Call == [set : {"protocol"}, value : DOMAIN Room] \cup [set : {"offset"}, value : Offsets]

StateOK ==
  /\ made \in {"by NewIPv6Packet", "any bytes"}
  /\ headers \in Seq(Header) /\ upper \in Uppers /\ length \in Nat /\ fields \in Nat
  /\ calls \in Seq(Call)
  /\ walking \in BOOLEAN /\ nonFirst \in BOOLEAN

\* The walk passed n headers, none of them cut, none but the last a later fragment.
Passed(n) ==
  /\ n \in 0..Len(headers)
  /\ \A i \in 1..n : ~CutAt(i)
  /\ \A i \in 1..(n - 1) : ~Later(i)
  /\ protocol = Named(n)
  /\ nextHeader = (IF n = 0 THEN 6 ELSE Start[n])
  /\ nonFirst = (n > 0 /\ Later(n))

\* It goes on behind them, or ended there, or at a header that is cut.
At(n) ==
  /\ Passed(n)
  /\ \/ walking /\ transport = Start[n + 1] /\ ~nonFirst
     \/ ~walking /\ transport = Start[n + 1] /\ (nonFirst \/ n = Len(headers))
     \/ ~walking /\ transport = NoTransport /\ ~nonFirst /\ n < Len(headers) /\ CutAt(n + 1)

\* A packet without the byte that names the first header is cut at once.
Short ==
  /\ protocol = 0 /\ nextHeader = 6 /\ ~nonFirst
  /\ transport = (IF walking THEN FixedLen ELSE NoTransport)

Fresh == ~walking /\ protocol = 0 /\ nextHeader = 0 /\ ~nonFirst

Walk ==
  /\ transport = 0 => Fresh
  /\ transport # 0 /\ length > 6 => \E n \in 0..Len(headers) : At(n)
  /\ transport # 0 /\ ~(length > 6) => Short

LEMMA StateFacts ==
  ASSUME StateOK
  PROVE  headers \in Seq(Header) /\ Len(headers) \in Nat /\ length \in Nat /\ upper \in Uppers
<1>1. headers \in Seq(Header) /\ length \in Nat /\ upper \in Uppers
  BY DEF StateOK
<1>2. Len(headers) \in Nat
  BY <1>1, LenProperties
<1> QED
  BY <1>1, <1>2

\* No header has the number of an upper-layer protocol.
LEMMA UpperIsLast ==
  ASSUME headers \in Seq(Header), upper \in Uppers, NEW n \in 0..Len(headers)
  PROVE  /\ Named(n) \in 0..255
         /\ Named(n) \in Extensions <=> n < Len(headers)
         /\ n < Len(headers) => n + 1 \in 1..Len(headers) /\ Named(n) = headers[n + 1].kind
<1>1. Len(headers) \in Nat
  OBVIOUS
<1>2. \A h \in Extensions : h \in 0..255
  BY DEF Extensions, HopOptions, Routing, Fragment, Authentication, DstOptions
<1>3. upper \in 0..255 /\ upper \notin Extensions
  BY UppersAssumption
<1>4. CASE n < Len(headers)
  <2>1. n + 1 \in 1..Len(headers)
    BY <1>1, <1>4
  <2>2. headers[n + 1] \in Header
    BY <2>1
  <2>3. headers[n + 1].kind \in Extensions
    BY <2>2, HeaderFacts
  <2>4. Named(n) = headers[n + 1].kind
    BY <1>4 DEF Named
  <2> QED
    BY <1>2, <1>4, <2>1, <2>3, <2>4
<1>5. CASE ~(n < Len(headers))
  <2>1. Named(n) = upper
    BY <1>5 DEF Named
  <2> QED
    BY <1>3, <1>5, <2>1
<1> QED
  BY <1>4, <1>5

\* A step that leaves the headers alone leaves alone where they start.
LEMMA StartStays ==
  ASSUME headers' = headers
  PROVE  Start' = Start
<1>1. IsStart(Start, headers) /\ IsStart(Start', headers)
  BY StartIs
<1>2. ASSUME NEW i \in Nat PROVE Start'[i] = Start[i]
  <2>1. i \in 0..i
    OBVIOUS
  <2> QED
    BY <1>1, <2>1, SameStarts
<1>3. Start = [i \in Nat |-> Start[i]] /\ Start' = [i \in Nat |-> Start'[i]]
  BY <1>1 DEF IsStart
<1> QED
  BY <1>2, <1>3

LEMMA BeginStep ==
  ASSUME StateOK, Walk, Begin
  PROVE  Walk'
<1>1. Start' = Start
  BY StartStays DEF Begin, packet
<1>2. Start[1] = FixedLen /\ Len(headers) \in Nat
  BY StateFacts, StartLaid DEF Laid
<1>3. transport' # 0 /\ walking' /\ ~nonFirst' /\ length' = length /\ headers' = headers
  BY DEF Begin, Walk, Fresh, packet, FixedLen
<1>4. ASSUME length > 6 PROVE At(0)'
  <2>1. Named(0)' = Named(0)
    BY DEF Begin, packet, Named
  <2>2. protocol' = Named(0) /\ nextHeader' = 6 /\ transport' = FixedLen
    BY <1>4 DEF Begin, FirstNamed
  <2>3. Passed(0)'
    <3>1. 0 \in 0..Len(headers') /\ ~(0 > 0)
      BY <1>2, <1>3
    <3>2. \A i \in 1..0 : ~CutAt(i)'
      OBVIOUS
    <3>3. \A i \in 1..(0 - 1) : ~Later(i)'
      OBVIOUS
    <3>4. nonFirst' = FALSE
      BY <1>3 DEF Begin, StateOK
    <3>5. nonFirst' = (0 > 0 /\ Later(0)')
      BY <3>1, <3>4
    <3> QED
      BY <1>3, <2>1, <2>2, <3>1, <3>2, <3>3, <3>5 DEF Passed
  <2>4. 0 + 1 = 1
    OBVIOUS
  <2> QED
    BY <1>1, <1>2, <1>3, <2>2, <2>3, <2>4 DEF At
<1>5. ASSUME ~(length > 6) PROVE Short'
  BY <1>3, <1>5 DEF Begin, FirstNamed, Short
<1>6. 0 \in 0..Len(headers')
  BY <1>2, <1>3
<1> QED
  BY <1>3, <1>4, <1>5, <1>6 DEF Walk

\* Where a walk that goes on is.
LEMMA WalkingAt ==
  ASSUME StateOK, Walk, walking
  PROVE  /\ transport # 0
         /\ length > 6 => \E n \in 0..Len(headers) :
                            Passed(n) /\ transport = Start[n + 1] /\ ~nonFirst
         /\ ~(length > 6) => Short /\ transport = FixedLen /\ protocol = HopOptions
BY DEF Walk, Fresh, At, Short, HopOptions

LEMMA UpperStep ==
  ASSUME StateOK, Walk, Upper
  PROVE  Walk'
<1>1. Start' = Start
  BY StartStays DEF Upper, packet
<1>2. walking /\ ~walking' /\ protocol \notin Extensions
      /\ UNCHANGED <<headers, upper, length, protocol, nextHeader, transport, nonFirst>>
  BY DEF Upper, packet, layout, StateOK
<1>3. length > 6
  BY <1>2, WalkingAt DEF Extensions
<1>4. transport # 0
  BY <1>2, WalkingAt
<1>5. PICK n \in 0..Len(headers) : Passed(n) /\ transport = Start[n + 1] /\ ~nonFirst
  BY <1>2, <1>3, WalkingAt
<1>6. n = Len(headers)
  <2>1. ~(n < Len(headers))
    BY <1>2, <1>5, UpperIsLast DEF StateOK, Passed
  <2>2. Len(headers) \in Nat
    BY StateFacts
  <2> QED
    BY <2>1, <2>2
<1>7. Passed(n)'
  <2>1. Named(n)' = Named(n) /\ \A i : CutAt(i)' = CutAt(i) /\ Later(i)' = Later(i)
    BY <1>1, <1>2 DEF Named, CutAt, Later
  <2> QED
    BY <1>1, <1>2, <1>5, <2>1 DEF Passed
<1>8. At(n)'
  BY <1>1, <1>2, <1>5, <1>6, <1>7 DEF At
<1> QED
  BY <1>2, <1>3, <1>4, <1>8 DEF Walk

LEMMA TruncatedStep ==
  ASSUME StateOK, Walk, Truncated
  PROVE  Walk'
<1>1. Start' = Start
  BY StartStays DEF Truncated, packet
<1>2. walking /\ ~walking' /\ protocol \in Extensions /\ transport + Need > length
      /\ transport' = NoTransport
      /\ UNCHANGED <<headers, upper, length, protocol, nextHeader, nonFirst>>
  BY DEF Truncated, packet, StateOK
<1>3. transport' # 0
  BY <1>2 DEF NoTransport
<1>4. ASSUME ~(length > 6) PROVE Short'
  BY <1>2, <1>4, WalkingAt DEF Short
<1>5. ASSUME length > 6 PROVE \E n \in 0..Len(headers') : At(n)'
  <2>1. PICK n \in 0..Len(headers) : Passed(n) /\ transport = Start[n + 1] /\ ~nonFirst
    BY <1>2, <1>5, WalkingAt
  <2>2. n < Len(headers) /\ protocol = headers[n + 1].kind
    BY <1>2, <2>1, UpperIsLast DEF StateOK, Passed
  <2>3. CutAt(n + 1)
    BY <1>2, <2>1, <2>2 DEF CutAt, Need, FragmentLen
  <2>4. Named(n)' = Named(n) /\ \A i : CutAt(i)' = CutAt(i) /\ Later(i)' = Later(i)
    BY <1>1, <1>2 DEF Named, CutAt, Later
  <2>5. Passed(n)'
    BY <1>1, <1>2, <2>1, <2>4 DEF Passed
  <2>6. CutAt(n + 1)'
    BY <2>3, <2>4
  <2>7. At(n)'
    BY <1>2, <2>1, <2>2, <2>5, <2>6 DEF At
  <2> QED
    BY <1>2, <2>7
<1> QED
  BY <1>2, <1>3, <1>4, <1>5 DEF Walk

\* A header is passed by as much as it is long.
LEMMA LengthIsSize ==
  ASSUME headers \in Seq(Header), NEW i \in 1..Len(headers),
         protocol = headers[i].kind, transport = Start[i]
  PROVE  Length = Size(headers[i])
<1>1. headers[i].units \in 0..255
  <2>1. headers[i] \in Header
    OBVIOUS
  <2> QED
    BY <2>1, HeaderFacts
<1>2. PICK units \in 0..255 : units = headers[i].units
  BY <1>1
<1>3. Byte(transport + 1) = units
  BY <1>2, HeaderRead
<1>4. (units + 2) * 4 = 4 * units + 8 /\ (units + 1) * 8 = 8 * units + 8
  OBVIOUS
<1>5. CASE protocol = Fragment
  BY <1>5 DEF Length, Size, FragmentLen, Authentication, Fragment
<1>6. CASE protocol = Authentication
  BY <1>2, <1>3, <1>4, <1>6 DEF Length, Size, Authentication, Fragment
<1>7. CASE protocol # Fragment /\ protocol # Authentication
  BY <1>2, <1>3, <1>4, <1>7 DEF Length, Size
<1> QED
  BY <1>5, <1>6, <1>7

\* A turn of the loop passes one header more.
LEMMA PassesOne ==
  ASSUME StateOK, Walk, Pass
  PROVE  /\ length > 6
         /\ \E n \in 0..Len(headers) :
              /\ n + 1 \in 1..Len(headers)
              /\ transport = Start[n + 1] /\ transport' = Start[n + 2]
              /\ At(n + 1)'
<1> USE StateFacts
<1>1. Start' = Start
  BY StartStays DEF Pass, packet
<1>2. walking /\ protocol \in Extensions /\ transport + Need <= length
      /\ nonFirst' = (protocol = Fragment
                      /\ (Byte(transport + 2) * 256 + Byte(transport + 3)) \div 8 # 0)
      /\ protocol' = Byte(transport) /\ nextHeader' = transport
      /\ transport' = transport + Length
      /\ walking' = ~nonFirst'
      /\ UNCHANGED <<headers, upper, length>>
  BY DEF Pass, packet
<1>3. length > 6
  <2> SUFFICES ASSUME ~(length > 6) PROVE FALSE
    OBVIOUS
  <2>1. transport = FixedLen /\ protocol = HopOptions
    BY <1>2, WalkingAt
  <2>2. Need = 2
    BY <2>1 DEF Need, HopOptions, Fragment
  <2> QED
    BY <1>2, <2>1, <2>2 DEF FixedLen
<1>4. PICK n \in 0..Len(headers) : Passed(n) /\ transport = Start[n + 1] /\ ~nonFirst
  BY <1>2, <1>3, WalkingAt
<1>5. n < Len(headers) /\ n + 1 \in 1..Len(headers) /\ protocol = headers[n + 1].kind
  BY <1>2, <1>4, UpperIsLast DEF Passed
<1>6. PICK m \in 1..Len(headers) : m = n + 1
  BY <1>5
<1>7. transport = Start[m] /\ protocol = headers[m].kind
  BY <1>4, <1>5, <1>6
<1>8. transport' = Start[m + 1]
  <2>1. Length = Size(headers[m])
    BY <1>7, LengthIsSize
  <2>2. Start[m + 1] = Start[m] + Size(headers[m])
    BY StartLaid DEF Laid
  <2> QED
    BY <1>2, <1>7, <2>1, <2>2
<1>9. nonFirst' = Later(m)
  BY <1>2, <1>7, HeaderRead DEF Later
<1>10. ~CutAt(m)
  <2>1. Start[m] + Need <= length
    BY <1>2, <1>7
  <2>2. Need = IF headers[m].kind = Fragment THEN 8 ELSE 2
    BY <1>7 DEF Need, FragmentLen
  <2>3. Start[m] \in Nat
    BY StartLaid DEF Laid
  <2> QED
    BY <2>1, <2>2, <2>3 DEF CutAt
<1>11. n > 0 => ~Later(n)
  BY <1>4 DEF Passed
<1>12. protocol' = Named(m) /\ nextHeader' = Start[m]
  BY <1>2, <1>7, HeaderRead
<1>14. \A i \in 1..m : i \in 1..n \/ i = m
  BY <1>6
<1>15. \A i \in 1..(m - 1) : i \in 1..(n - 1) \/ (i = n /\ n > 0)
  BY <1>6
<1>16. \A i \in 1..m : ~CutAt(i)
  BY <1>4, <1>10, <1>14 DEF Passed
<1>17. \A i \in 1..(m - 1) : ~Later(i)
  BY <1>4, <1>11, <1>15 DEF Passed
<1>18. Named(m)' = Named(m) /\ \A i : CutAt(i)' = CutAt(i) /\ Later(i)' = Later(i)
  BY <1>1, <1>2 DEF Named, CutAt, Later
<1>19. m \in 0..Len(headers) /\ m > 0 /\ m # 0
  OBVIOUS
<1>20. Passed(m)'
  BY <1>1, <1>2, <1>9, <1>12, <1>16, <1>17, <1>18, <1>19 DEF Passed
<1>21. CASE nonFirst'
  <2>1. At(m)'
    BY <1>1, <1>2, <1>8, <1>20, <1>21 DEF At
  <2>2. m + 1 = n + 2
    BY <1>6
  <2> QED
    BY <1>3, <1>4, <1>5, <1>6, <1>8, <2>1, <2>2
<1>22. CASE ~nonFirst'
  <2>1. At(m)'
    BY <1>1, <1>2, <1>8, <1>20, <1>22 DEF At
  <2>2. m + 1 = n + 2
    BY <1>6
  <2> QED
    BY <1>3, <1>4, <1>5, <1>6, <1>8, <2>1, <2>2
<1> QED
  BY <1>21, <1>22

LEMMA PassStep ==
  ASSUME StateOK, Walk, Pass
  PROVE  Walk'
<1>1. PICK n \in 0..Len(headers) :
        n + 1 \in 1..Len(headers) /\ transport' = Start[n + 2] /\ At(n + 1)'
  BY PassesOne
<1>2. length > 6 /\ headers' = headers /\ length' = length
  BY PassesOne DEF Pass, packet
<1>3. transport' # 0
  <2>1. n + 2 \in 1..(Len(headers) + 1)
    BY <1>1, StateFacts
  <2>2. Start[n + 2] >= FixedLen
    BY <2>1, StateFacts, StartLaid DEF Laid
  <2> QED
    BY <1>1, <2>2 DEF FixedLen
<1>4. n + 1 \in 0..Len(headers')
  BY <1>1, <1>2
<1> QED
  BY <1>1, <1>2, <1>3, <1>4 DEF Walk

-----------------------------------------------------------------------------
(* The builders.                                                           *)

\* Given, of any calls.
LastGiven(cs, set, otherwise) ==
  LET given == {i \in DOMAIN cs : cs[i].set = set}
  IN IF given = {} THEN otherwise ELSE cs[CHOOSE i \in given : \A j \in given : j <= i].value

\* A set of numbers up to n has a greatest.
LEMMA GreatestOne ==
  ASSUME NEW n \in Nat, NEW S \in SUBSET (1..n), S # {}
  PROVE  \E m \in S : \A k \in S : k <= m
<1> DEFINE T == {k \in Nat : \E i \in S : k = n - i}
<1>1. PICK i \in S : TRUE
  OBVIOUS
<1>2. n - i \in T
  OBVIOUS
<1>3. PICK t \in T : \A k \in T : ~(k < t)
  <2>1. T \in SUBSET Nat /\ T # {}
    BY <1>2
  <2> HIDE DEF T
  <2> QED
    BY <2>1, LeastOne
<1>4. PICK m \in S : t = n - m
  OBVIOUS
<1>5. ASSUME NEW k \in S PROVE k <= m
  <2>1. k \in 1..n /\ m \in 1..n
    OBVIOUS
  <2>2. n - k \in T
    BY <2>1
  <2>3. ~(n - k < n - m)
    BY <1>3, <1>4, <2>2
  <2> QED
    BY <2>1, <2>3
<1> QED
  BY <1>5

\* One call more gives its own value, and no other is changed.
LEMMA GivenNext ==
  ASSUME NEW cs \in Seq(Call), NEW c \in Call, NEW set, NEW otherwise
  PROVE  /\ c.set = set => LastGiven(Append(cs, c), set, otherwise) = c.value
         /\ c.set # set => LastGiven(Append(cs, c), set, otherwise) = LastGiven(cs, set, otherwise)
<1> DEFINE more == Append(cs, c)
           given == {i \in DOMAIN cs : cs[i].set = set}
           after == {i \in DOMAIN more : more[i].set = set}
<1>1. PICK n \in Nat : n = Len(cs)
  BY LenProperties
<1>2. DOMAIN cs = 1..n /\ DOMAIN more = 1..(n + 1)
  BY <1>1, LenProperties, AppendProperties
<1>3. more[n + 1] = c /\ \A i \in 1..n : more[i] = cs[i]
  BY <1>1, AppendProperties
<1>4. \A i \in 1..(n + 1) : i \in 1..n \/ i = n + 1
  OBVIOUS
<1>5. \A i \in 1..n : i \in 1..(n + 1) /\ i <= n + 1
  OBVIOUS
<1>6. n + 1 \in 1..(n + 1) /\ n + 1 <= n + 1 /\ \A i \in 1..n : ~(n + 1 <= i)
  OBVIOUS
<1>7. ASSUME c.set = set PROVE LastGiven(more, set, otherwise) = c.value
  <2>1. n + 1 \in after /\ \A j \in after : j <= n + 1
    BY <1>2, <1>3, <1>4, <1>5, <1>6, <1>7
  <2>2. \A i \in after : (\A j \in after : j <= i) => i = n + 1
    BY <1>2, <1>4, <1>6, <2>1
  <2>3. (CHOOSE i \in after : \A j \in after : j <= i) = n + 1
    <3> HIDE DEF after
    <3> QED
      BY <2>1, <2>2
  <2>4. LastGiven(more, set, otherwise)
        = IF after = {} THEN otherwise ELSE more[CHOOSE i \in after : \A j \in after : j <= i].value
    BY DEF LastGiven
  <2>5. after # {}
    BY <2>1
  <2> HIDE DEF after, more
  <2> QED
    BY <1>3, <2>3, <2>4, <2>5
<1>8. ASSUME c.set # set PROVE LastGiven(more, set, otherwise) = LastGiven(cs, set, otherwise)
  <2>1. after = given
    BY <1>2, <1>3, <1>4, <1>5, <1>8
  <2>2. LastGiven(more, set, otherwise)
        = IF after = {} THEN otherwise ELSE more[CHOOSE i \in after : \A j \in after : j <= i].value
    BY DEF LastGiven
  <2>3. LastGiven(cs, set, otherwise)
        = IF given = {} THEN otherwise ELSE cs[CHOOSE i \in given : \A j \in given : j <= i].value
    BY DEF LastGiven
  <2>4. given \in SUBSET (1..n)
    BY <1>2
  <2> HIDE DEF after, more, given
  <2>5. CASE given = {}
    BY <2>1, <2>2, <2>3, <2>5
  <2>6. CASE given # {}
    <3>1. PICK m \in given : m = CHOOSE i \in given : \A j \in given : j <= i
      <4>1. \E i \in given : \A j \in given : j <= i
        BY <2>4, <2>6, GreatestOne
      <4> QED
        BY <4>1
    <3>2. m \in 1..n
      BY <2>4
    <3> QED
      BY <1>3, <2>1, <2>2, <2>3, <2>6, <3>1, <3>2
  <2> QED
    BY <2>5, <2>6
<1> QED
  BY <1>7, <1>8

LEMMA GivenIs ==
  ASSUME NEW set, NEW otherwise
  PROVE  /\ Given(set, otherwise) = LastGiven(calls, set, otherwise)
         /\ Given(set, otherwise)' = LastGiven(calls', set, otherwise)
BY DEF Given, LastGiven

\* Whether a packet says what its builders were given, whatever it was before.
Told == made = "by NewIPv6Packet" \/ (calls # <<>> /\ calls[Len(calls)].set = "protocol")

\* Such a packet is whole: the walk passes all its headers, and the transport header
\* that was put behind them has room.
Says ==
  Told =>
    /\ length > 6
    /\ \A i \in 1..Len(headers) : ~CutAt(i)
    /\ \A i \in 1..(Len(headers) - 1) : ~Later(i)
    /\ upper = Given("protocol", NoNextHeader)
    /\ fields # 0 => upper \in DOMAIN Room /\ fields = Start[Len(headers) + 1]
                     /\ fields + Room[upper] <= length

\* A packet made by NewIPv6Packet has a fragment header at most.
Fragmented ==
  made = "by NewIPv6Packet" =>
    /\ length >= 64
    /\ \/ Len(headers) = 0 /\ Given("offset", 0) = 0
       \/ Len(headers) = 1 /\ headers[1].kind = Fragment /\ headers[1].offset = Given("offset", 0)

IInv == StateOK /\ Walk /\ Says /\ Fragmented

THEOREM InitInvariant == Init => IInv
<1> SUFFICES ASSUME Init PROVE IInv
  OBVIOUS
<1>1. headers = <<>> /\ calls = <<>> /\ fields = 0 /\ walking = FALSE /\ nonFirst = FALSE
      /\ protocol = 0 /\ nextHeader = 0 /\ transport = 0
      /\ made \in {"by NewIPv6Packet", "any bytes"}
  BY DEF Init
<1>2. headers \in Seq(Header) /\ calls \in Seq(Call) /\ Len(headers) = 0
  <2>1. <<>> \in Seq(Header) /\ <<>> \in Seq(Call)
    OBVIOUS
  <2>2. Len(<<>>) = 0
    OBVIOUS
  <2> QED
    BY <1>1, <2>1, <2>2
<1>3. upper \in Uppers /\ length \in Nat
  <2>1. CASE made = "any bytes"
    BY <2>1, LengthsAssumption DEF Init
  <2>2. CASE made # "any bytes"
    <3>1. upper = NoNextHeader /\ length = 64
      BY <2>2 DEF Init
    <3>2. NoNextHeader \in Uppers
      BY UppersAssumption
    <3> QED
      BY <3>1, <3>2
  <2> QED
    BY <2>1, <2>2
<1>4. StateOK
  <2>1. walking \in BOOLEAN /\ nonFirst \in BOOLEAN
    BY <1>1, Zenon
  <2>2. fields \in Nat
    BY <1>1
  <2> QED
    BY <1>1, <1>2, <1>3, <2>1, <2>2 DEF StateOK
<1>5. Walk
  BY <1>1 DEF Walk, Fresh
<1>6. ASSUME NEW set, NEW otherwise PROVE Given(set, otherwise) = otherwise
  <2>1. DOMAIN calls = {}
    <3>1. DOMAIN calls = 1..0
      BY <1>1, <1>2, LenProperties
    <3> QED
      BY <3>1
  <2>2. {i \in DOMAIN calls : calls[i].set = set} = {}
    BY <2>1
  <2> QED
    BY <2>2 DEF Given
<1>7. made = "by NewIPv6Packet" => upper = NoNextHeader /\ length = 64
  BY DEF Init
<1>8. Says
  <2> SUFFICES ASSUME Told PROVE Says
    BY DEF Says
  <2>1. upper = NoNextHeader /\ length = 64
    BY <1>1, <1>7 DEF Told
  <2>2. \A i \in 1..Len(headers) : ~CutAt(i)
    BY <1>2
  <2>3. \A i \in 1..(Len(headers) - 1) : ~Later(i)
    BY <1>2
  <2>4. upper = Given("protocol", NoNextHeader)
    BY <1>6, <2>1
  <2>5. length > 6
    BY <2>1
  <2>6. ~(fields # 0)
    BY <1>1
  <2> QED
    BY <2>2, <2>3, <2>4, <2>5, <2>6 DEF Says
<1>9. Fragmented
  <2>1. Given("offset", 0) = 0
    BY <1>6
  <2>2. made = "by NewIPv6Packet" => length >= 64
    <3>1. 64 >= 64
      OBVIOUS
    <3> QED
      BY <1>7, <3>1
  <2> QED
    BY <1>2, <2>1, <2>2 DEF Fragmented
<1> QED
  BY <1>4, <1>5, <1>8, <1>9 DEF IInv

\* What is said of a packet goes on to hold while it is walked.
LEMMA PacketStays ==
  ASSUME StateOK, Says, Fragmented, UNCHANGED packet, walking' \in BOOLEAN, nonFirst' \in BOOLEAN
  PROVE  StateOK' /\ Says' /\ Fragmented'
<1>1. UNCHANGED <<made, headers, upper, length, calls, fields>>
  BY DEF packet
<1>2. Start' = Start
  BY <1>1, StartStays
<1>3. \A i : CutAt(i)' = CutAt(i) /\ Later(i)' = Later(i)
  BY <1>1, <1>2 DEF CutAt, Later
<1>4. Given("protocol", NoNextHeader)' = Given("protocol", NoNextHeader)
      /\ Given("offset", 0)' = Given("offset", 0)
  BY <1>1, GivenIs
<1>5. StateOK'
  BY <1>1 DEF StateOK
<1>6. Says'
  BY <1>1, <1>2, <1>3, <1>4 DEF Says, Told
<1>7. Fragmented'
  BY <1>1, <1>4 DEF Fragmented
<1> QED
  BY <1>5, <1>6, <1>7

LEMMA WriteStep ==
  ASSUME IInv, NEW header \in Header, Write(header)
  PROVE  IInv'
<1> USE DEF IInv
<1>1. transport = 0 /\ made = "any bytes" /\ calls = <<>> /\ headers' = Append(headers, header)
      /\ UNCHANGED <<made, upper, length, calls, fields, walking, protocol, nextHeader, transport, nonFirst>>
  BY DEF Write, layout
<1>2. headers' \in Seq(Header)
  BY <1>1, StateFacts, AppendProperties
<1>3. StateOK'
  BY <1>1, <1>2 DEF StateOK
<1>4. Walk'
  BY <1>1 DEF Walk, Fresh
<1>5. Says' /\ Fragmented'
  BY <1>1 DEF Says, Told, Fragmented
<1> QED
  BY <1>3, <1>4, <1>5

\* Where a walk ended.
LEMMA WalkedAt ==
  ASSUME StateOK, Walk, Walked
  PROVE  /\ length > 6 =>
              \E n \in 0..Len(headers) :
                /\ Passed(n)
                /\ \/ transport = Start[n + 1] /\ (nonFirst \/ n = Len(headers))
                   \/ transport = NoTransport /\ ~nonFirst /\ n < Len(headers) /\ CutAt(n + 1)
         /\ ~(length > 6) => Short /\ transport = NoTransport
BY DEF Walked, Walk, At, Short

LEMMA PassedHeadersIs ==
  ASSUME headers \in Seq(Header), NEW n \in 0..Len(headers), Passed(n)
  PROVE  PassedHeaders = n
<1>1. CASE n = 0
  BY <1>1 DEF PassedHeaders, Passed
<1>2. CASE n # 0
  <2>1. Laid(Start, headers) /\ Len(headers) \in Nat /\ DOMAIN headers = 1..Len(headers)
    BY StartLaid, LenProperties
  <2>2. n \in DOMAIN headers /\ nextHeader = Start[n]
    BY <1>2, <2>1 DEF Passed
  <2>3. \A i \in DOMAIN headers : i \in 1..(Len(headers) + 1)
    BY <2>1
  <2>4. ASSUME NEW i \in DOMAIN headers, Start[i] = nextHeader PROVE i = n
    <3>1. i < n => Start[i] + 8 <= Start[n]
      BY <2>1, <2>2, <2>3 DEF Laid
    <3>2. n < i => Start[n] + 8 <= Start[i]
      BY <2>1, <2>2, <2>3 DEF Laid
    <3>3. Start[i] \in Nat /\ Start[n] = Start[i]
      BY <2>1, <2>2, <2>3, <2>4 DEF Laid
    <3>4. ~(i < n) /\ ~(n < i)
      BY <3>1, <3>2, <3>3
    <3> QED
      BY <2>1, <3>4
  <2>5. (CHOOSE i \in DOMAIN headers : Start[i] = nextHeader) = n
    BY <2>2, <2>4
  <2>6. nextHeader # 6
    <3>1. Start[n] >= FixedLen /\ Start[n] \in Nat
      BY <2>1, <2>2, <2>3 DEF Laid
    <3> QED
      BY <2>2, <3>1 DEF FixedLen
  <2> QED
    BY <2>5, <2>6 DEF PassedHeaders
<1> QED
  BY <1>1, <1>2

LEMMA RoomFacts ==
  ASSUME NEW value \in DOMAIN Room
  PROVE  value \in Uppers /\ Room[value] \in Nat
<1>1. DOMAIN Room = {TCP, UDP, ICMPv6}
  BY DEF Room
<1>2. Room[value] = CASE value = TCP -> 14 [] value = UDP -> 8 [] OTHER -> 4
  BY <1>1 DEF Room
<1>3. Room[value] \in Nat
  BY <1>2
<1>4. value \in Uppers
  BY <1>1, UppersAssumption
<1> QED
  BY <1>3, <1>4

\* A call of a builder is a call, and what is to be walked is another packet.
LEMMA Called ==
  ASSUME StateOK, NEW set, NEW value, [set |-> set, value |-> value] \in Call, Calls(set, value)
  PROVE  /\ calls' \in Seq(Call) /\ calls' # <<>> /\ calls'[Len(calls')].set = set
         /\ Walked /\ Walk'
         /\ Given(set, NoNextHeader)' = value /\ Given(set, 0)' = value
         /\ set # "protocol" => Given("protocol", NoNextHeader)' = Given("protocol", NoNextHeader)
         /\ set # "offset" => Given("offset", 0)' = Given("offset", 0)
<1> DEFINE c == [set |-> set, value |-> value]
<1>1. calls \in Seq(Call) /\ c \in Call /\ c.set = set /\ c.value = value
  BY DEF StateOK
<1>2. calls' = Append(calls, c)
  BY DEF Calls
<1>3. calls' \in Seq(Call) /\ Len(calls') = Len(calls) + 1 /\ calls'[Len(calls) + 1] = c
  <2> HIDE DEF c
  <2> QED
    BY <1>1, <1>2, AppendProperties
<1>4. calls' # <<>>
  <2>1. Len(calls') # 0
    BY <1>1, <1>3, LenProperties
  <2> QED
    BY <1>3, <2>1
<1>5. Given(set, NoNextHeader)' = value /\ Given(set, 0)' = value
  <2> HIDE DEF c
  <2> QED
    BY <1>1, <1>2, GivenNext, GivenIs
<1>6. set # "protocol" => Given("protocol", NoNextHeader)' = Given("protocol", NoNextHeader)
  <2> HIDE DEF c
  <2> QED
    BY <1>1, <1>2, GivenNext, GivenIs
<1>7. set # "offset" => Given("offset", 0)' = Given("offset", 0)
  <2> HIDE DEF c
  <2> QED
    BY <1>1, <1>2, GivenNext, GivenIs
<1>8. Walked /\ Walk'
  <2>1. Walked /\ walking' = walking /\ transport' = 0 /\ protocol' = 0 /\ nextHeader' = 0 /\ nonFirst' = FALSE
    BY DEF Calls
  <2> QED
    BY <2>1 DEF Walked, Walk, Fresh
<1> QED
  BY <1>1, <1>3, <1>4, <1>5, <1>6, <1>7, <1>8

\* What is behind the headers the walk passed is dropped, and a transport header put there.
LEMMA ProtocolStep ==
  ASSUME IInv, NEW value \in DOMAIN Room, WithProtocol(value)
  PROVE  IInv'
<1> USE StateFacts DEF IInv
<1>1. [set |-> "protocol", value |-> value] \in Call
  BY DEF Call
<1>2. /\ calls' \in Seq(Call) /\ calls' # <<>> /\ calls'[Len(calls')].set = "protocol"
      /\ Walked /\ Walk' /\ Given("protocol", NoNextHeader)' = value
      /\ Given("offset", 0)' = Given("offset", 0)
  BY <1>1, Called DEF WithProtocol
<1>3. /\ transport # NoTransport
      /\ headers' = SubSeq(headers, 1, PassedHeaders) /\ upper' = value
      /\ length' = (IF length < transport + Room[value] THEN transport + Room[value] ELSE length)
      /\ fields' = transport
      /\ made' = made /\ walking' = walking /\ nonFirst' = FALSE
  BY DEF WithProtocol, Calls
<1>4. length > 6
  BY <1>2, <1>3, WalkedAt
<1>5. PICK n \in 0..Len(headers) :
        Passed(n) /\ transport = Start[n + 1] /\ (nonFirst \/ n = Len(headers))
  BY <1>2, <1>3, <1>4, WalkedAt
<1>6. Laid(Start, headers)
  BY StartLaid
<1>7. headers' \in Seq(Header) /\ Len(headers') = n /\ \A i \in 1..n : headers'[i] = headers[i]
  <2>1. headers' = SubSeq(headers, 1, n)
    BY <1>3, <1>5, PassedHeadersIs
  <2>2. Len(headers') = IF 1 <= n THEN (n - 1) + 1 ELSE 0
    BY <2>1, SubSeqProperties
  <2>3. Len(headers') = n
    BY <2>2
  <2>4. headers' \in Seq(Header)
    BY <2>1, SubSeqProperties
  <2>5. ASSUME NEW i \in 1..n PROVE headers'[i] = headers[i]
    <3>1. (i + 1) - 1 = i /\ i \in 1..(n - 1 + 1)
      OBVIOUS
    <3> QED
      BY <2>1, <3>1, SubSeqProperties
  <2> QED
    BY <2>3, <2>4, <2>5
<1>8. \A i \in 0..(n + 1) : Start'[i] = Start[i]
  <2>1. IsStart(Start', headers') /\ IsStart(Start, headers)
    BY StartIs
  <2>2. PICK m \in Nat : m = n + 1
    OBVIOUS
  <2>3. \A i \in 1..(m - 1) : headers'[i] = headers[i]
    BY <1>7, <2>2
  <2>4. \A i \in 0..m : Start'[i] = Start[i]
    BY <2>1, <2>3, SameStarts
  <2> QED
    BY <2>2, <2>4
<1>9. transport \in Nat
  <2>1. n + 1 \in 1..(Len(headers) + 1)
    OBVIOUS
  <2> QED
    BY <1>5, <1>6, <2>1 DEF Laid
<1>10. length' \in Nat /\ length' >= length /\ transport + Room[value] <= length'
  <2>1. PICK a \in Nat, b \in Nat : a = transport + Room[value] /\ b = length
    BY <1>9, RoomFacts
  <2> QED
    BY <1>3, <2>1
<1>11. StateOK'
  <2>1. value \in Uppers /\ walking' \in BOOLEAN /\ nonFirst' \in BOOLEAN /\ made' \in {"by NewIPv6Packet", "any bytes"}
    BY <1>3, RoomFacts DEF StateOK
  <2> QED
    BY <1>2, <1>3, <1>7, <1>9, <1>10, <2>1 DEF StateOK
<1>12. \A i \in 1..n : ~CutAt(i)'
  <2> SUFFICES ASSUME NEW i \in 1..n PROVE ~CutAt(i)'
    OBVIOUS
  <2>1. ~CutAt(i)
    BY <1>5 DEF Passed
  <2>2. headers'[i] = headers[i] /\ Start'[i] = Start[i]
    BY <1>7, <1>8
  <2>3. i \in 1..(Len(headers) + 1)
    OBVIOUS
  <2>4. Start[i] \in Nat
    BY <1>6, <2>3 DEF Laid
  <2>5. PICK need \in Nat : need = (IF headers[i].kind = Fragment THEN 8 ELSE 2)
    OBVIOUS
  <2>6. ~(Start[i] + need > length)
    BY <2>1, <2>5 DEF CutAt
  <2>7. ~(Start[i] + need > length')
    BY <1>10, <2>4, <2>6
  <2> QED
    BY <2>2, <2>5, <2>7 DEF CutAt
<1>13. \A i \in 1..(n - 1) : ~Later(i)'
  <2> SUFFICES ASSUME NEW i \in 1..(n - 1) PROVE ~Later(i)'
    OBVIOUS
  <2>1. ~Later(i)
    BY <1>5 DEF Passed
  <2>2. headers'[i] = headers[i]
    BY <1>7
  <2> QED
    BY <2>1, <2>2 DEF Later
<1>14. Says'
  <2>1. length' > 6
    BY <1>4, <1>10
  <2>2. fields' = Start'[n + 1]
    <3>1. n + 1 \in 0..(n + 1)
      OBVIOUS
    <3> QED
      BY <1>3, <1>5, <1>8, <3>1
  <2>3. upper' = Given("protocol", NoNextHeader)'
    BY <1>2, <1>3
  <2>4. upper' \in DOMAIN Room /\ fields' + Room[upper'] <= length'
    BY <1>3, <1>10
  <2> QED
    BY <1>7, <1>12, <1>13, <2>1, <2>2, <2>3, <2>4 DEF Says
<1>15. length >= 64 => length' >= 64
  BY <1>10
<1>16. Len(headers) = 0 \/ Len(headers) = 1 => n = Len(headers)
  <2>1. ~(0 > 0)
    OBVIOUS
  <2>2. nonFirst = (n > 0 /\ Later(n))
    BY <1>5 DEF Passed
  <2>3. n = 0 => n = Len(headers)
    BY <1>5, <2>1, <2>2, Zenon
  <2>4. PICK many \in Nat : many = Len(headers)
    BY StateFacts
  <2>5. n \in 0..many /\ (n = 0 => n = many)
    BY <2>3, <2>4
  <2>6. many = 0 \/ many = 1 => n = many
    BY <2>5
  <2> QED
    BY <2>4, <2>6
<1>17. n = Len(headers) => Len(headers') = Len(headers)
                           /\ (Len(headers) = 1 => headers'[1] = headers[1])
  BY <1>7
<1>18. Fragmented'
  BY <1>2, <1>3, <1>15, <1>16, <1>17 DEF Fragmented
<1> QED
  BY <1>2, <1>11, <1>14, <1>18

\* A packet has a fragment header in front, or none, when the builder looks for one.
LEMMA HasFragmentIs ==
  ASSUME StateOK, length > 6
  PROVE  HasFragment <=> Len(headers) > 0 /\ headers[1].kind = Fragment
<1>1. 0 \in 0..Len(headers) /\ 0 + 1 = 1
  BY StateFacts
<1>2. HasFragment <=> Named(0) = Fragment
  BY DEF HasFragment, FirstNamed
<1>3. Fragment \in Extensions
  BY DEF Extensions
<1>4. Named(0) \in Extensions <=> 0 < Len(headers)
  BY <1>1, StateFacts, UpperIsLast
<1>5. 0 < Len(headers) => Named(0) = headers[1].kind
  BY <1>1 DEF Named
<1>6. 0 < Len(headers) <=> Len(headers) > 0
  BY StateFacts
<1> QED
  BY <1>2, <1>3, <1>4, <1>5, <1>6

\* Where two headers start, and what follows one, when the first is a fragment header.
LEMMA AfterFragment ==
  ASSUME NEW hs \in Seq(Header), NEW f, IsStart(f, hs), Len(hs) > 0, hs[1].kind = Fragment
  PROVE  f[1] = FixedLen /\ f[2] = FixedLen + 8
<1>1. Len(hs) \in Nat /\ 1 \in 1..Len(hs)
  BY LenProperties
<1>2. f[1] = FixedLen /\ f[1 + 1] = f[1] + Size(hs[1])
  BY <1>1, LaidOut DEF Laid
<1>3. Size(hs[1]) = 8
  BY DEF Size, Fragment, Authentication
<1> QED
  BY <1>2, <1>3

\* What holds of a packet with a fragment header and nothing else behind the fixed one.
LEMMA OneFragment ==
  ASSUME headers' \in Seq(Header), Len(headers') = 1, headers'[1].kind = Fragment,
         length' \in Nat, length' >= 64
  PROVE  /\ \A i \in 1..Len(headers') : ~CutAt(i)'
         /\ \A i \in 1..(Len(headers') - 1) : ~Later(i)'
         /\ Start'[Len(headers') + 1] = FixedLen + 8
<1>1. Start'[1] = FixedLen /\ Start'[2] = FixedLen + 8
  <2>1. IsStart(Start', headers')
    BY StartIs
  <2>2. Len(headers') > 0
    OBVIOUS
  <2> QED
    BY <2>1, <2>2, AfterFragment
<1>2. ~CutAt(1)'
  <2>1. CutAt(1)' = (Start'[1] + 8 > length')
    BY DEF CutAt
  <2>2. ~(FixedLen + 8 > length')
    BY DEF FixedLen
  <2> QED
    BY <1>1, <2>1, <2>2
<1>3. \A i \in 1..Len(headers') : i = 1
  OBVIOUS
<1>4. \A i \in 1..(Len(headers') - 1) : FALSE
  OBVIOUS
<1>5. Len(headers') + 1 = 2
  OBVIOUS
<1> QED
  BY <1>1, <1>2, <1>3, <1>4, <1>5

LEMMA OffsetStep ==
  ASSUME IInv, NEW value \in Offsets, WithFragmentOffset(value)
  PROVE  IInv'
<1> USE StateFacts DEF IInv
<1>1. [set |-> "offset", value |-> value] \in Call
  BY DEF Call
<1>2. /\ calls' \in Seq(Call) /\ calls' # <<>> /\ calls'[Len(calls')].set = "offset"
      /\ Walked /\ Walk' /\ Given("offset", 0)' = value
      /\ Given("protocol", NoNextHeader)' = Given("protocol", NoNextHeader)
  BY <1>1, Called DEF WithFragmentOffset
<1>3. /\ length >= (IF HasFragment THEN 44 ELSE FixedLen)
      /\ upper' = upper /\ made' = made /\ walking' = walking /\ nonFirst' = FALSE
  BY DEF WithFragmentOffset, Calls
<1>4. length > 6
  <2>1. length >= 44 \/ length >= 40
    BY <1>3 DEF FixedLen
  <2> QED
    BY <2>1
<1> DEFINE new == [kind |-> Fragment, units |-> 0, offset |-> value, more |-> FALSE]
<1>5. HasFragment =>
        /\ Len(headers) > 0 /\ headers[1].kind = Fragment
        /\ headers' = [headers EXCEPT ![1].offset = value] /\ length' = length /\ fields' = fields
  BY <1>4, HasFragmentIs DEF WithFragmentOffset
<1>6. ~HasFragment =>
        /\ headers' = <<new>> \o headers /\ length' = length + FragmentLen
        /\ fields' = (IF fields = 0 THEN 0 ELSE fields + FragmentLen)
  BY DEF WithFragmentOffset
<1>7. ASSUME HasFragment
      PROVE  /\ headers' \in Seq(Header) /\ Len(headers') = Len(headers)
             /\ headers'[1].kind = Fragment /\ headers'[1].offset = value
  <2>1. 1 \in 1..Len(headers)
    BY <1>5, <1>7
  <2>2. headers[1] \in Header /\ headers[1].kind = Fragment
    BY <1>5, <1>7, <2>1
  <2>3. [headers[1] EXCEPT !.offset = value] \in Header
    <3>1. headers[1] \in [kind : {Fragment}, units : Units, offset : Offsets, more : BOOLEAN]
      BY <2>2 DEF Header
    <3>2. [headers[1] EXCEPT !.offset = value]
            \in [kind : {Fragment}, units : Units, offset : Offsets, more : BOOLEAN]
      BY <3>1
    <3> QED
      BY <3>2 DEF Header
  <2>4. PICK h \in Header : h = [headers[1] EXCEPT !.offset = value]
    BY <2>3
  <2>5. headers' = [headers EXCEPT ![1] = h]
    BY <1>5, <1>7, <2>4
  <2>6. h.kind = Fragment /\ h.offset = value
    <3>1. headers[1] \in [kind : {Fragment}, units : Units, offset : Offsets, more : BOOLEAN]
      BY <2>2 DEF Header
    <3> QED
      BY <2>4, <3>1
  <2>7. headers' \in Seq(Header) /\ Len(headers') = Len(headers) /\ headers'[1] = h
    BY <2>1, <2>5, ExceptSeq
  <2> QED
    BY <2>6, <2>7
<1>8. ASSUME ~HasFragment
      PROVE  /\ headers' \in Seq(Header) /\ Len(headers') = Len(headers) + 1
             /\ headers'[1].kind = Fragment /\ headers'[1].offset = value
  <2>1. new \in [kind : {Fragment}, units : Units, offset : Offsets, more : BOOLEAN]
    <3>1. 0 \in Units
      BY UnitsAssumption
    <3> QED
      BY <3>1
  <2>2. new \in Header /\ new.kind = Fragment /\ new.offset = value
    BY <2>1 DEF Header
  <2> HIDE DEF new
  <2>3. <<new>> \in Seq(Header) /\ Len(<<new>>) = 1 /\ <<new>>[1] = new
    BY <2>2
  <2>4. headers' \in Seq(Header) /\ Len(headers') = 1 + Len(headers) /\ headers'[1] = <<new>>[1]
    BY <1>6, <1>8, <2>3, ConcatProperties
  <2> QED
    BY <2>2, <2>3, <2>4
<1>9. length' \in Nat /\ length' >= length
  BY <1>5, <1>6 DEF FragmentLen
<1>10. StateOK'
  <2>1. headers' \in Seq(Header)
    BY <1>7, <1>8
  <2>2. fields \in Nat => fields' \in Nat
    BY <1>5, <1>6 DEF FragmentLen
  <2>3. walking' \in BOOLEAN /\ nonFirst' \in BOOLEAN /\ made' \in {"by NewIPv6Packet", "any bytes"}
        /\ upper' \in Uppers /\ fields' \in Nat
    BY <1>3, <2>2 DEF StateOK
  <2> QED
    BY <1>2, <1>9, <2>1, <2>3 DEF StateOK
<1>11. ASSUME made = "by NewIPv6Packet"
       PROVE  /\ length >= 64
              /\ Len(headers') = 1 /\ headers' \in Seq(Header)
              /\ headers'[1].kind = Fragment /\ headers'[1].offset = value
              /\ HasFragment => Len(headers) = 1
              /\ ~HasFragment => Len(headers) = 0
  <2>1. length >= 64 /\ (Len(headers) = 0 \/ (Len(headers) = 1 /\ headers[1].kind = Fragment))
    BY <1>11 DEF Fragmented
  <2>2. HasFragment <=> Len(headers) > 0 /\ headers[1].kind = Fragment
    BY <1>4, HasFragmentIs
  <2>3. 1 > 0 /\ ~(0 > 0) /\ 0 + 1 = 1
    OBVIOUS
  <2>4. HasFragment => Len(headers) = 1
    BY <2>1, <2>2, <2>3
  <2>5. ~HasFragment => Len(headers) = 0
    BY <2>1, <2>2, <2>3
  <2> QED
    BY <1>7, <1>8, <2>1, <2>3, <2>4, <2>5
<1>12. length >= 64 => length' >= 64 /\ length' > 6
  BY <1>9
<1>13. Fragmented'
  BY <1>2, <1>3, <1>11, <1>12 DEF Fragmented
<1>14. ASSUME made = "by NewIPv6Packet", fields # 0
       PROVE  upper \in DOMAIN Room /\ fields = Start[Len(headers) + 1] /\ fields + Room[upper] <= length
  BY <1>14 DEF Says, Told
<1>15. HasFragment /\ Len(headers) = 1 => Start[Len(headers) + 1] = FixedLen + 8
  <2> SUFFICES ASSUME HasFragment, Len(headers) = 1 PROVE Start[Len(headers) + 1] = FixedLen + 8
    OBVIOUS
  <2>1. headers \in Seq(Header) /\ Len(headers) > 0 /\ headers[1].kind = Fragment
    BY <1>5
  <2>2. Start[2] = FixedLen + 8
    BY <2>1, StartIs, AfterFragment
  <2> QED
    BY <2>2
<1>16. Len(headers) = 0 => Start[Len(headers) + 1] = FixedLen
  BY StartLaid DEF Laid
<1>17. ASSUME made = "by NewIPv6Packet", fields' # 0
       PROVE  upper' \in DOMAIN Room /\ fields' = FixedLen + 8 /\ fields' + Room[upper'] <= length'
  <2>1. fields # 0
    BY <1>5, <1>6, <1>17
  <2>2. upper \in DOMAIN Room /\ fields = Start[Len(headers) + 1] /\ fields + Room[upper] <= length
    BY <1>14, <1>17, <2>1
  <2>3. CASE HasFragment
    BY <1>3, <1>5, <1>11, <1>15, <1>17, <2>2, <2>3
  <2>4. CASE ~HasFragment
    <3>1. fields = FixedLen
      BY <1>11, <1>16, <1>17, <2>2, <2>4
    <3>2. fields' = fields + FragmentLen /\ length' = length + FragmentLen
      BY <1>6, <2>1, <2>4
    <3>3. PICK room \in Nat : room = Room[upper]
      BY <2>2, RoomFacts
    <3>4. FixedLen + FragmentLen + room <= length + FragmentLen
      BY <2>2, <3>1, <3>3 DEF FixedLen, FragmentLen
    <3>5. FixedLen + FragmentLen = FixedLen + 8
      BY DEF FragmentLen
    <3> QED
      BY <1>3, <2>2, <3>1, <3>2, <3>3, <3>4, <3>5
  <2> QED
    BY <2>3, <2>4
<1>18. Says'
  <2> SUFFICES ASSUME Told' PROVE Says'
    BY DEF Says
  <2>1. made = "by NewIPv6Packet"
    BY <1>2, <1>3 DEF Told
  <2>2. upper = Given("protocol", NoNextHeader)
    BY <2>1 DEF Says, Told
  <2>3. upper' = Given("protocol", NoNextHeader)'
    BY <1>2, <1>3, <2>2
  <2>4. /\ \A i \in 1..Len(headers') : ~CutAt(i)'
        /\ \A i \in 1..(Len(headers') - 1) : ~Later(i)'
        /\ Start'[Len(headers') + 1] = FixedLen + 8
    BY <1>9, <1>11, <1>12, <2>1, OneFragment
  <2>5. length' > 6
    BY <1>11, <1>12, <2>1
  <2> QED
    BY <1>17, <2>1, <2>3, <2>4, <2>5 DEF Says
<1> QED
  BY <1>2, <1>10, <1>13, <1>18

LEMMA Stutter ==
  ASSUME StateOK, Walk, UNCHANGED vars
  PROVE  Walk'
<1>1. Start' = Start
  BY StartStays DEF vars, packet
<1>2. UNCHANGED <<headers, upper, length, walking, protocol, nextHeader, transport, nonFirst>>
  BY DEF vars, packet, layout
<1>3. \A n : Named(n)' = Named(n) /\ CutAt(n)' = CutAt(n) /\ Later(n)' = Later(n)
  BY <1>1, <1>2 DEF Named, CutAt, Later
<1>4. ASSUME NEW n, At(n) PROVE At(n)'
  <2>1. Passed(n)'
    BY <1>1, <1>2, <1>3, <1>4 DEF At, Passed
  <2> QED
    BY <1>1, <1>2, <1>3, <1>4, <2>1 DEF At
<1>5. (Fresh <=> Fresh') /\ (Short <=> Short')
  BY <1>2 DEF Fresh, Short
<1> QED
  BY <1>2, <1>4, <1>5 DEF Walk

THEOREM NextInvariant == IInv /\ [Next]_vars => IInv'
<1> SUFFICES ASSUME IInv, [Next]_vars PROVE IInv'
  OBVIOUS
<1> USE DEF IInv
<1>1. ASSUME NEW header \in Header, Write(header) PROVE IInv'
  BY <1>1, WriteStep
<1>2. CASE Begin
  <2>1. walking' \in BOOLEAN /\ nonFirst' \in BOOLEAN /\ UNCHANGED packet
    BY <1>2 DEF Begin, StateOK
  <2> QED
    BY <1>2, <2>1, BeginStep, PacketStays
<1>3. CASE Upper
  <2>1. walking' \in BOOLEAN /\ nonFirst' \in BOOLEAN /\ UNCHANGED packet
    BY <1>3 DEF Upper, layout, StateOK
  <2> QED
    BY <1>3, <2>1, UpperStep, PacketStays
<1>4. CASE Truncated
  <2>1. walking' \in BOOLEAN /\ nonFirst' \in BOOLEAN /\ UNCHANGED packet
    BY <1>4 DEF Truncated, StateOK
  <2> QED
    BY <1>4, <2>1, TruncatedStep, PacketStays
<1>5. CASE Pass
  <2>1. nonFirst' = (protocol = Fragment
                     /\ (Byte(transport + 2) * 256 + Byte(transport + 3)) \div 8 # 0)
        /\ walking' = ~nonFirst' /\ UNCHANGED packet
    BY <1>5 DEF Pass
  <2>2. nonFirst' \in BOOLEAN
    BY <2>1, Zenon
  <2>3. walking' \in BOOLEAN
    BY <2>1, Zenon
  <2> QED
    BY <1>5, <2>1, <2>2, <2>3, PassStep, PacketStays
<1>6. ASSUME NEW value \in DOMAIN Room, WithProtocol(value) PROVE IInv'
  BY <1>6, ProtocolStep
<1>7. ASSUME NEW value \in Offsets, WithFragmentOffset(value) PROVE IInv'
  BY <1>7, OffsetStep
<1>8. CASE UNCHANGED vars
  <2>1. walking' \in BOOLEAN /\ nonFirst' \in BOOLEAN /\ UNCHANGED packet
    BY <1>8 DEF vars, layout, StateOK
  <2> QED
    BY <1>8, <2>1, Stutter, PacketStays
<1> QED
  BY <1>1, <1>2, <1>3, <1>4, <1>5, <1>6, <1>7, <1>8 DEF Next

-----------------------------------------------------------------------------
(* What the runs check.                                                    *)

LEMMA InvariantTypes ==
  ASSUME IInv
  PROVE  TypeOK
<1> USE DEF IInv
<1>1. headers \in Seq(Header) /\ upper \in Uppers /\ length \in Nat /\ fields \in Nat
      /\ walking \in BOOLEAN /\ nonFirst \in BOOLEAN
  BY DEF StateOK
<1>2. CASE transport = 0
  BY <1>1, <1>2 DEF TypeOK, Walk, Fresh
<1>3. CASE transport # 0 /\ ~(length > 6)
  <2>1. protocol = 0 /\ nextHeader = 6 /\ transport \in {FixedLen, NoTransport}
    BY <1>3 DEF Walk, Short
  <2>2. transport = NoTransport \/ (transport >= FixedLen /\ transport % 4 = 0)
    BY <2>1 DEF FixedLen
  <2>3. protocol \in 0..255
    BY <2>1
  <2> QED
    BY <1>1, <2>1, <2>2, <2>3 DEF TypeOK
<1>4. CASE transport # 0 /\ length > 6
  <2>1. PICK n \in 0..Len(headers) : At(n)
    BY <1>4 DEF Walk
  <2>2. Laid(Start, headers) /\ Len(headers) \in Nat
    BY StartLaid, StateFacts
  <2>3. protocol \in 0..255
    BY <1>1, <2>1, UpperIsLast DEF At, Passed
  <2>4. nextHeader = 6 \/ nextHeader >= FixedLen
    <3>1. n # 0 => n \in 1..(Len(headers) + 1)
      BY <2>1, <2>2
    <3>2. n # 0 => Start[n] >= FixedLen
      BY <2>2, <3>1 DEF Laid
    <3>3. nextHeader = (IF n = 0 THEN 6 ELSE Start[n])
      BY <2>1 DEF At, Passed
    <3> QED
      BY <3>2, <3>3
  <2>5. transport = NoTransport \/ (transport >= FixedLen /\ transport % 4 = 0)
    <3>1. n + 1 \in 1..(Len(headers) + 1)
      BY <2>1, <2>2
    <3>2. Start[n + 1] >= FixedLen /\ Start[n + 1] % 4 = 0
      BY <2>2, <3>1 DEF Laid
    <3>3. transport = NoTransport \/ transport = Start[n + 1]
      BY <2>1 DEF At
    <3> QED
      BY <3>2, <3>3
  <2> QED
    BY <1>1, <2>3, <2>4, <2>5 DEF TypeOK
<1> QED
  BY <1>2, <1>3, <1>4

\* A walk that ended passed the headers it may pass, and no more.
LEMMA PassedAll ==
  ASSUME StateOK, NEW n \in 0..Len(headers), Passed(n),
         \/ nonFirst \/ n = Len(headers)
         \/ n < Len(headers) /\ CutAt(n + 1)
  PROVE  Passable = 1..n
<1>1. PICK m \in Nat : m = Len(headers)
  BY StateFacts
<1>2. ASSUME NEW i \in 1..n PROVE i \in Passable
  <2>1. i \in 1..Len(headers) /\ \A j \in 1..(i - 1) : j \in 1..n /\ j \in 1..(n - 1)
    BY <1>1
  <2> QED
    BY <2>1 DEF Passable, Passed
<1>3. ASSUME NEW i \in Passable PROVE i \in 1..n
  <2>1. i \in 1..m /\ ~CutAt(i) /\ \A j \in 1..(i - 1) : ~CutAt(j) /\ ~Later(j)
    BY <1>1 DEF Passable
  <2> SUFFICES ASSUME n < i PROVE FALSE
    BY <1>1, <2>1
  <2>2. n # Len(headers)
    BY <1>1, <2>1
  <2>3. ~nonFirst
    <3>1. n > 0 => n \in 1..(i - 1)
      BY <1>1, <2>1
    <3>2. nonFirst = (n > 0 /\ Later(n))
      BY DEF Passed
    <3> QED
      BY <2>1, <3>1, <3>2
  <2>4. CutAt(n + 1)
    BY <2>2, <2>3
  <2>5. n + 1 = i \/ n + 1 \in 1..(i - 1)
    BY <1>1, <2>1
  <2> QED
    BY <2>1, <2>4, <2>5
<1> QED
  BY <1>2, <1>3

LEMMA InvariantLayout ==
  ASSUME IInv
  PROVE  LayoutIsThePacket
<1> USE DEF IInv
<1> SUFFICES ASSUME Walked, length > 6 PROVE LayoutIsThePacket
  BY DEF LayoutIsThePacket
<1>1. PICK n \in 0..Len(headers) :
        /\ Passed(n)
        /\ \/ transport = Start[n + 1] /\ (nonFirst \/ n = Len(headers))
           \/ transport = NoTransport /\ ~nonFirst /\ n < Len(headers) /\ CutAt(n + 1)
  BY WalkedAt
<1>2. PICK m \in Nat : m = Len(headers)
  BY StateFacts
<1>3. headers \in Seq(Header) /\ upper \in Uppers
  BY StateFacts
<1>4. Passable = 1..n
  BY <1>1, PassedAll
<1>5. (IF Passable = {} THEN 0 ELSE CHOOSE i \in Passable : \A j \in Passable : j <= i) = n
  <2>1. CASE n = 0
    BY <1>4, <2>1
  <2>2. CASE n # 0
    <3>1. n \in 1..n /\ \A j \in 1..n : j <= n
      BY <1>2, <2>2
    <3>2. \A i \in 1..n : (\A j \in 1..n : j <= i) => i = n
      BY <3>1
    <3>3. (CHOOSE i \in 1..n : \A j \in 1..n : j <= i) = n
      BY <3>1, <3>2
    <3> QED
      BY <1>4, <3>1, <3>3
  <2> QED
    BY <2>1, <2>2
<1>6. FirstNamed \notin Extensions => n = 0 /\ n = Len(headers)
  <2>1. 0 \in 0..Len(headers) /\ (~(0 < Len(headers)) => 0 = Len(headers) /\ n = 0)
    BY <1>2
  <2> QED
    BY <1>3, <2>1, UpperIsLast DEF FirstNamed
<1>7. Protocol = Named(n)
  <2>1. protocol = Named(n)
    BY <1>1 DEF Passed
  <2> QED
    BY <1>6, <2>1 DEF Protocol, FirstNamed
<1>8. nextHeader = (IF n = 0 THEN 6 ELSE Start[n]) /\ nonFirst = (n > 0 /\ Later(n))
  BY <1>1 DEF Passed
<1>9. (n < Len(headers)) => n # Len(headers)
  BY <1>2
<1>10. transport = IF (n > 0 /\ Later(n)) \/ n = Len(headers) THEN Start[n + 1] ELSE NoTransport
  BY <1>1, <1>8, <1>9
<1>11. TransportRead = IF (n > 0 /\ Later(n)) \/ n = Len(headers) THEN Start[n + 1] ELSE NoTransport
  <2>1. CASE FirstNamed \in Extensions
    BY <1>10, <2>1 DEF TransportRead
  <2>2. CASE FirstNamed \notin Extensions
    <3>1. Start[1] = FixedLen /\ 0 + 1 = 1
      BY <1>3, StartLaid DEF Laid
    <3> QED
      BY <1>6, <2>2, <3>1 DEF TransportRead
  <2> QED
    BY <2>1, <2>2
<1> DEFINE Tells(k) ==
             /\ Protocol = Named(k)
             /\ nextHeader = (IF k = 0 THEN 6 ELSE Start[k])
             /\ nonFirst = (k > 0 /\ Later(k))
             /\ TransportRead = (IF (k > 0 /\ Later(k)) \/ k = Len(headers) THEN Start[k + 1] ELSE NoTransport)
           last == IF Passable = {} THEN 0 ELSE CHOOSE i \in Passable : \A j \in Passable : j <= i
<1>12. Tells(n)
  BY <1>7, <1>8, <1>11
<1>13. Tells(last) => LayoutIsThePacket
  BY DEF LayoutIsThePacket
<1> HIDE DEF Tells, last
<1> QED
  BY <1>5, <1>12, <1>13 DEF last

\* The walk of a packet that says what its builders were given passes every header.
LEMMA InvariantTells ==
  ASSUME IInv
  PROVE  BuildersTell
<1> USE DEF IInv
<1> SUFFICES ASSUME Walked, Told
             PROVE  /\ Protocol = Given("protocol", NoNextHeader)
                    /\ fields # 0 => TransportRead = fields /\ fields + Room[Protocol] <= length
                    /\ made = "by NewIPv6Packet" => nonFirst = (Given("offset", 0) # 0)
  BY DEF BuildersTell, Told
<1>1. /\ length > 6
      /\ \A i \in 1..Len(headers) : ~CutAt(i)
      /\ upper = Given("protocol", NoNextHeader)
      /\ fields # 0 => fields = Start[Len(headers) + 1] /\ fields + Room[upper] <= length
  BY DEF Says
<1>2. \A i \in 1..(Len(headers) - 1) : ~Later(i)
  BY DEF Says
<1>3. PICK m \in Nat : m = Len(headers)
  BY StateFacts
<1>4. PICK n \in 0..Len(headers) :
        /\ Passed(n)
        /\ \/ transport = Start[n + 1] /\ (nonFirst \/ n = Len(headers))
           \/ transport = NoTransport /\ ~nonFirst /\ n < Len(headers) /\ CutAt(n + 1)
  BY <1>1, WalkedAt
<1>5. nonFirst = (n > 0 /\ Later(n))
  BY <1>4 DEF Passed
<1>6. n = Len(headers)
  <2> SUFFICES ASSUME n # Len(headers) PROVE FALSE
    OBVIOUS
  <2>1. n + 1 \in 1..Len(headers) /\ (n > 0 => n \in 1..(Len(headers) - 1))
    BY <1>3
  <2>2. ~CutAt(n + 1) /\ (n > 0 => ~Later(n))
    BY <1>1, <1>2, <2>1
  <2> QED
    BY <1>4, <1>5, <2>2
<1>7. transport = Start[Len(headers) + 1]
  BY <1>3, <1>4, <1>6
<1>8. headers \in Seq(Header) /\ upper \in Uppers
  BY StateFacts
<1>9. FirstNamed \notin Extensions => Len(headers) = 0 /\ FirstNamed = upper
  <2>1. 0 \in 0..Len(headers) /\ (~(0 < Len(headers)) => Len(headers) = 0)
    BY <1>3
  <2>2. FirstNamed = Named(0)
    BY <1>1 DEF FirstNamed
  <2>3. ~(0 < Len(headers)) => Named(0) = upper
    BY DEF Named
  <2> QED
    BY <1>8, <2>1, <2>2, <2>3, UpperIsLast
<1>10. Protocol = upper
  <2>1. ~(n < Len(headers))
    BY <1>3, <1>6
  <2>2. protocol = upper
    BY <1>4, <2>1 DEF Passed, Named
  <2> QED
    BY <1>9, <2>2 DEF Protocol
<1>11. TransportRead = Start[Len(headers) + 1]
  <2>1. Start[1] = FixedLen /\ 0 + 1 = 1
    BY <1>8, StartLaid DEF Laid
  <2> QED
    BY <1>7, <1>9, <2>1 DEF TransportRead
<1>12. ASSUME made = "by NewIPv6Packet" PROVE nonFirst = (Given("offset", 0) # 0)
  <2>1. \/ Len(headers) = 0 /\ Given("offset", 0) = 0
        \/ Len(headers) = 1 /\ headers[1].kind = Fragment /\ headers[1].offset = Given("offset", 0)
    BY <1>12 DEF Fragmented
  <2>2. 1 > 0 /\ ~(0 > 0)
    OBVIOUS
  <2> QED
    BY <1>5, <1>6, <2>1, <2>2 DEF Later
<1> QED
  BY <1>1, <1>10, <1>11, <1>12

LEMMA InvariantAlways == Spec => []IInv
<1> QED
  BY InitInvariant, NextInvariant, PTL DEF Spec

\* The state of the walk has its types: above all, where it stands is in units of
\* four bytes whatever the length fields say.
THEOREM WalkTypes == Spec => []TypeOK
<1> QED
  BY InvariantAlways, InvariantTypes, PTL

\* However many headers of whatever length a packet has, and wherever it is cut,
\* layout tells of it what ipv6Layout is documented to hold.
THEOREM WalkTellsThePacket == Spec => []LayoutIsThePacket
<1> QED
  BY InvariantAlways, InvariantLayout, PTL

\* A packet says what its builders were given, however many were called in whatever order.
THEOREM BuildersAreHeard == Spec => []BuildersTell
<1> QED
  BY InvariantAlways, InvariantTells, PTL

\* The loop of layout ends: every turn that is not the last goes eight bytes on or more.
THEOREM TurnsGoOn == Spec => GoesOn
<1> DEFINE Step == walking /\ walking' => transport' >= transport + 8
<1>1. IInv /\ [Next]_vars => [Step]_vars
  <2> SUFFICES ASSUME IInv, Next, walking, walking' PROVE transport' >= transport + 8
    BY DEF IInv
  <2> USE DEF IInv
  <2>1. transport # 0
    BY WalkingAt
  <2>2. Pass
    <3>1. ~Walked
      BY DEF Walked
    <3>2. \A header : ~Write(header)
      BY <2>1 DEF Write
    <3>3. ~Begin /\ ~Upper /\ ~Truncated
      BY <2>1 DEF Begin, Upper, Truncated
    <3>4. \A value : ~WithProtocol(value) /\ ~WithFragmentOffset(value)
      BY <3>1 DEF WithProtocol, WithFragmentOffset, Calls
    <3> QED
      BY <3>2, <3>3, <3>4 DEF Next
  <2>3. PICK n \in 0..Len(headers) :
          n + 1 \in 1..Len(headers) /\ transport = Start[n + 1] /\ transport' = Start[n + 2]
    BY <2>2, PassesOne
  <2>4. n + 1 \in 1..(Len(headers) + 1) /\ n + 2 \in 1..(Len(headers) + 1) /\ n + 1 < n + 2
    BY <2>3, StateFacts
  <2>5. Start[n + 1] + 8 <= Start[n + 2] /\ Start[n + 1] \in Nat /\ Start[n + 2] \in Nat
    BY <2>4, StartLaid, StateFacts DEF Laid
  <2>6. PICK a \in Nat, b \in Nat : a = Start[n + 1] /\ b = Start[n + 2]
    BY <2>5
  <2> QED
    BY <2>3, <2>5, <2>6
<1> QED
  BY <1>1, InvariantAlways, PTL DEF Spec, GoesOn

=============================================================================
