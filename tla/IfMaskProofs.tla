---------------------------- MODULE IfMaskProofs ----------------------------
(***************************************************************************)
(* Proofs about MatchIfMask (module IfMask), for masks and names of any    *)
(* bytes and of any length.                                                *)
(***************************************************************************)
EXTENDS IfMask, TLAPS, SequenceTheorems, NaturalsInduction, WellFoundedInduction

-----------------------------------------------------------------------------
(* What is defined by recursion exists.                                    *)

\* The least and the greatest of some numbers.
LEMMA LeastOne ==
  ASSUME NEW S \in SUBSET Nat, S # {}
  PROVE  \E m \in S : \A k \in S : ~(k < m)
<1>1. PICK m \in S : \A k \in S : <<k, m>> \notin OpToRel(<, Nat)
  BY NatLessThanWellFounded, WFMin
<1> QED
  BY <1>1 DEF OpToRel

LEMMA GreatestOne ==
  ASSUME NEW N \in Nat, NEW S \in SUBSET (0..N), S # {}
  PROVE  \E m \in S : \A k \in S : k <= m
<1> DEFINE T == {N - k : k \in S}
<1>1. T \in SUBSET Nat /\ T # {}
  <2>1. \A k \in 0..N : N - k \in Nat
    OBVIOUS
  <2>2. T \in SUBSET Nat
    BY <2>1
  <2>3. PICK k \in S : TRUE
    OBVIOUS
  <2>4. N - k \in T
    OBVIOUS
  <2> QED
    BY <2>2, <2>4
<1>2. PICK t \in T : \A k \in T : ~(k < t)
  <2> HIDE DEF T
  <2> QED
    BY <1>1, LeastOne
<1>3. PICK m \in S : t = N - m
  BY <1>2
<1>4. \A k \in S : ~(N - k < N - m)
  BY <1>2, <1>3
<1> QED
  BY <1>3, <1>4

\* What is defined by recursion: F makes a function of a function, each value of it by
\* values of arguments of a lower rank, and there is a highest rank.
Ranked(S, V, rank, N, F) ==
  /\ rank \in [S -> Nat] /\ N \in Nat /\ \A x \in S : rank[x] < N
  /\ F \in [[S -> V] -> [S -> V]]
  /\ \A f, g \in [S -> V] : \A x \in S :
       (\A y \in S : rank[y] < rank[x] => f[y] = g[y]) => F[f][x] = F[g][x]

\* Such a definition has a meaning.
LEMMA Recursion ==
  ASSUME NEW S, NEW V, NEW rank, NEW N, NEW F, Ranked(S, V, rank, N, F), NEW start \in [S -> V]
  PROVE  \E f \in [S -> V] : F[f] = f
<1> DEFINE Upto(f, b) == \A x \in S : rank[x] < b => F[f][x] = f[x]
           T == {b \in Nat : ~\E f \in [S -> V] : Upto(f, b)}
<1>1. ASSUME T # {} PROVE FALSE
  <2>1. T \in SUBSET Nat
    OBVIOUS
  <2>2. PICK m \in T : \A k \in T : ~(k < m)
    <3> HIDE DEF T
    <3> QED
      BY <1>1, <2>1, LeastOne
  <2>3. m # 0
    <3>1. Upto(start, 0)
      BY DEF Ranked
    <3> QED
      BY <3>1
  <2>4. PICK k \in Nat : m = k + 1
    <3>1. m - 1 \in Nat /\ m = (m - 1) + 1
      BY <2>3
    <3> QED
      BY <3>1
  <2>5. PICK f \in [S -> V] : Upto(f, k)
    BY <2>2, <2>4
  <2>6. F[f] \in [S -> V]
    BY DEF Ranked
  <2>7. ASSUME NEW x \in S, rank[x] < m PROVE F[F[f]][x] = F[f][x]
    <3>1. \A y \in S : rank[y] < rank[x] => rank[y] < k
      BY <2>4, <2>7 DEF Ranked
    <3>2. \A y \in S : rank[y] < rank[x] => F[f][y] = f[y]
      BY <2>5, <3>1
    <3>3. \A g \in [S -> V] :
            (\A y \in S : rank[y] < rank[x] => g[y] = f[y]) => F[g][x] = F[f][x]
      BY DEF Ranked
    <3> QED
      BY <2>6, <3>2, <3>3, Zenon
  <2>8. Upto(F[f], m)
    BY <2>7
  <2> QED
    BY <2>6, <2>8
<1>2. PICK f \in [S -> V] : Upto(f, N)
  BY <1>1 DEF Ranked
<1>3. F[f] \in [S -> V] /\ \A x \in S : F[f][x] = f[x]
  BY <1>2 DEF Ranked
<1> QED
  BY <1>3

-----------------------------------------------------------------------------
(* Classes.                                                                *)

Masks == pattern \in Seq(0..255) /\ name \in Seq(0..255)

Scan(f) ==
  [idx \in Nat |->
     IF idx > Len(pattern) THEN [rest |-> 0, members |-> {}]
     ELSE IF pattern[idx] = Close THEN [rest |-> idx + 1, members |-> {}]
     ELSE [rest |-> f[Hi(idx) + 1].rest, members |-> {idx} \cup f[Hi(idx) + 1].members]]

\* How far a byte, and a member, reaches.
LEMMA MemberFacts ==
  ASSUME Masks, NEW idx \in Nat
  PROVE  /\ Lo(idx) = idx \/ Lo(idx) = idx + 1
         /\ Hi(idx) \in Nat /\ Hi(idx) >= idx /\ Hi(idx) + 1 \in Nat /\ Hi(idx) + 1 > idx
         /\ ~IsRange(idx) => Hi(idx) = Lo(idx)
         /\ IsRange(idx) => Hi(idx) = Lo(Lo(idx) + 2)
<1>1. \A k \in Nat : Lo(k) = k \/ Lo(k) = k + 1
  BY DEF Lo
<1>2. Lo(idx) + 2 \in Nat
  BY <1>1
<1>3. Hi(idx) = Lo(idx) \/ Hi(idx) = Lo(Lo(idx) + 2)
  BY DEF Hi
<1>4. Hi(idx) \in Nat /\ Hi(idx) >= idx
  BY <1>1, <1>2, <1>3
<1> QED
  BY <1>1, <1>4 DEF Hi

LEMMA MembersExist ==
  ASSUME Masks
  PROVE  \E f : f = Scan(f)
<1> DEFINE V == [rest : Nat, members : SUBSET Nat]
           rank == [idx \in Nat |-> IF idx > Len(pattern) THEN 0 ELSE Len(pattern) + 1 - idx]
           F == [f \in [Nat -> V] |-> Scan(f)]
           start == [idx \in Nat |-> [rest |-> 0, members |-> {}]]
<1>1. PICK l \in Nat : l = Len(pattern)
  BY LenProperties DEF Masks
<1>2. rank \in [Nat -> Nat] /\ l + 2 \in Nat /\ \A x \in Nat : rank[x] < l + 2
  BY <1>1
<1>3. start \in [Nat -> V]
  OBVIOUS
<1>4. ASSUME NEW f \in [Nat -> V] PROVE Scan(f) \in [Nat -> V]
  <2>1. ASSUME NEW idx \in Nat PROVE Scan(f)[idx] \in V
    <3>1. f[Hi(idx) + 1] \in V
      BY MemberFacts
    <3>2. f[Hi(idx) + 1].rest \in Nat /\ f[Hi(idx) + 1].members \in SUBSET Nat
      BY <3>1
    <3>3. {idx} \cup f[Hi(idx) + 1].members \in SUBSET Nat
      BY <3>2
    <3> HIDE DEF V
    <3>4. /\ [rest |-> 0, members |-> {}] \in V /\ [rest |-> idx + 1, members |-> {}] \in V
          /\ [rest |-> f[Hi(idx) + 1].rest, members |-> {idx} \cup f[Hi(idx) + 1].members] \in V
      BY <3>2, <3>3 DEF V
    <3> QED
      BY <3>4 DEF Scan
  <2> QED
    BY <2>1 DEF Scan
<1>5. F \in [[Nat -> V] -> [Nat -> V]]
  BY <1>4
<1>6. ASSUME NEW f \in [Nat -> V], NEW g \in [Nat -> V], NEW x \in Nat,
             \A y \in Nat : rank[y] < rank[x] => f[y] = g[y]
      PROVE  F[f][x] = F[g][x]
  <2>1. CASE x > Len(pattern)
    BY <2>1 DEF Scan
  <2>2. CASE ~(x > Len(pattern))
    <3>1. PICK y \in Nat : y = Hi(x) + 1
      BY MemberFacts
    <3>2. y > x
      BY <3>1, MemberFacts
    <3>3. rank[y] < rank[x]
      <4>1. rank[x] = l + 1 - x /\ rank[y] = IF y > l THEN 0 ELSE l + 1 - y
        BY <1>1, <2>2
      <4>2. x <= l
        BY <1>1, <2>2
      <4> HIDE DEF rank
      <4>3. CASE y > l
        <5>1. l + 1 - x > 0 /\ rank[y] = 0
          BY <4>1, <4>2, <4>3
        <5> QED
          BY <4>1, <5>1
      <4>4. CASE ~(y > l)
        <5>1. l + 1 - y < l + 1 - x /\ rank[y] = l + 1 - y
          BY <3>2, <4>1, <4>4
        <5> QED
          BY <4>1, <5>1
      <4> QED
        BY <4>3, <4>4
    <3>4. f[y] = g[y]
      BY <1>6, <3>3
    <3> QED
      BY <3>1, <3>4 DEF Scan
  <2> QED
    BY <2>1, <2>2
<1> HIDE DEF V, rank, F, start
<1>7. PICK f \in [Nat -> V] : F[f] = f
  <2>1. \A f, g \in [Nat -> V] : \A x \in Nat :
          (\A y \in Nat : rank[y] < rank[x] => f[y] = g[y]) => F[f][x] = F[g][x]
    BY <1>6
  <2>2. Ranked(Nat, V, rank, l + 2, F)
    BY <1>2, <1>5, <2>1 DEF Ranked
  <2> QED
    BY <1>3, <2>2, Recursion
<1>8. F[f] = Scan(f)
  BY DEF F
<1> QED
  BY <1>7, <1>8

LEMMA MembersIs ==
  ASSUME Masks
  PROVE  Members = Scan(Members)
<1>1. \E f : f = Scan(f)
  BY MembersExist
<1>2. Members = CHOOSE f : f = Scan(f)
  BY DEF Members, Scan
<1> QED
  BY <1>1, <1>2

LEMMA MembersAt ==
  ASSUME Masks, NEW idx \in Nat
  PROVE  /\ idx > Len(pattern) => Members[idx].rest = 0
         /\ idx <= Len(pattern) /\ pattern[idx] = Close => Members[idx].rest = idx + 1
         /\ idx <= Len(pattern) /\ pattern[idx] # Close => Members[idx].rest = Members[Hi(idx) + 1].rest
<1>1. Members[idx] = Scan(Members)[idx]
  BY MembersIs
<1>2. Len(pattern) \in Nat
  BY LenProperties DEF Masks
<1> QED
  BY <1>1, <1>2 DEF Scan

\* Where the bytes of a mask begin when one begins at idx, a backslash and the byte
\* after it being one: the least set with all of them.
Stepped(A, idx) == idx \in A /\ \A a \in A : a <= Len(pattern) => Lo(a) + 1 \in A
Bytes(idx) == {y \in Nat : \A A \in SUBSET Nat : Stepped(A, idx) => y \in A}

LEMMA BytesGoOn ==
  ASSUME Masks, NEW idx \in Nat, NEW y \in Bytes(idx), y # idx
  PROVE  idx <= Len(pattern) /\ y \in Bytes(Lo(idx) + 1)
<1>1. y \in Nat /\ Lo(idx) + 1 \in Nat /\ Len(pattern) \in Nat
  <2>1. Lo(idx) + 1 \in Nat
    BY MemberFacts
  <2>2. Len(pattern) \in Nat
    BY LenProperties DEF Masks
  <2> QED
    BY <2>1, <2>2 DEF Bytes
<1>2. idx <= Len(pattern)
  <2> SUFFICES ASSUME ~(idx <= Len(pattern)) PROVE FALSE
    OBVIOUS
  <2>1. Stepped({idx}, idx)
    BY DEF Stepped
  <2>2. {idx} \in SUBSET Nat
    OBVIOUS
  <2> QED
    BY <2>1, <2>2 DEF Bytes
<1>3. ASSUME NEW A \in SUBSET Nat, Stepped(A, Lo(idx) + 1) PROVE y \in A
  <2>1. Stepped(A \cup {idx}, idx) /\ A \cup {idx} \in SUBSET Nat
    BY <1>3 DEF Stepped
  <2> QED
    BY <2>1 DEF Bytes
<1> QED
  BY <1>1, <1>2, <1>3 DEF Bytes

LEMMA BytesFrom ==
  ASSUME Masks, NEW idx \in Nat
  PROVE  idx \in Bytes(idx)
BY DEF Bytes, Stepped

LEMMA BytesStep ==
  ASSUME Masks, NEW idx \in Nat, NEW y \in Bytes(idx), y <= Len(pattern)
  PROVE  Lo(y) + 1 \in Bytes(idx)
<1>1. y \in Nat /\ Lo(y) + 1 \in Nat
  <2>1. y \in Nat
    BY DEF Bytes
  <2>2. ASSUME NEW k \in Nat PROVE Lo(k) + 1 \in Nat
    <3>1. Lo(k) = k \/ Lo(k) = k + 1
      BY MemberFacts
    <3> QED
      BY <3>1
  <2> QED
    BY <2>1, <2>2
<1> QED
  BY <1>1 DEF Bytes, Stepped

LEMMA BytesThrough ==
  ASSUME Masks, NEW idx \in Nat, NEW m \in Bytes(idx), NEW y \in Bytes(m)
  PROVE  y \in Bytes(idx)
<1>1. ASSUME NEW A \in SUBSET Nat, Stepped(A, idx) PROVE y \in A
  <2>1. m \in A
    BY <1>1 DEF Bytes
  <2>2. Stepped(A, m)
    BY <1>1, <2>1 DEF Stepped
  <2> QED
    BY <2>2 DEF Bytes
<1>2. y \in Nat
  BY DEF Bytes
<1> QED
  BY <1>1, <1>2 DEF Bytes

\* Where the byte before is no backslash a byte begins, from wherever one looks.
LEMMA BytesMeet ==
  ASSUME Masks, NEW idx \in Nat, NEW x \in Nat, idx <= x, x <= Len(pattern),
         pattern[x] # Backslash
  PROVE  x + 1 \in Bytes(idx)
<1>1. ASSUME NEW A \in SUBSET Nat, Stepped(A, idx) PROVE x + 1 \in A
  <2> DEFINE B == {a \in A : a <= x}
  <2>1. B \in SUBSET (0..x) /\ idx \in B
    <3>1. \A a \in Nat : a <= x => a \in 0..x
      OBVIOUS
    <3> QED
      BY <1>1, <3>1 DEF Stepped
  <2>2. PICK b \in B : \A k \in B : k <= b
    <3> HIDE DEF B
    <3> QED
      BY <2>1, GreatestOne
  <2>3. b \in Nat /\ b \in A /\ b <= x
    OBVIOUS
  <2>4. b <= Len(pattern)
    BY <2>3, LenProperties DEF Masks
  <2>5. Lo(b) + 1 \in A
    BY <1>1, <2>3, <2>4 DEF Stepped
  <2>6. CASE b = x
    BY <2>5, <2>6 DEF Lo
  <2>7. CASE b # x
    <3>1. Lo(b) = b \/ Lo(b) = b + 1
      BY <2>3, MemberFacts
    <3>2. PICK c \in Nat : c = Lo(b) + 1
      BY <2>3, <3>1
    <3>3. ~(c <= x)
      <4> SUFFICES ASSUME c <= x PROVE FALSE
        OBVIOUS
      <4>1. c \in B
        BY <2>5, <3>2
      <4>2. c <= b
        BY <2>2, <4>1
      <4> QED
        BY <2>3, <3>1, <3>2, <4>2
    <3>4. c = x + 1
      BY <2>3, <2>7, <3>1, <3>2, <3>3
    <3> QED
      BY <2>5, <3>2, <3>4
  <2> QED
    BY <2>6, <2>7
<1> QED
  BY <1>1 DEF Bytes

\* A closing bracket among the bytes after a member ends no member.
LEMMA BytesOfMember ==
  ASSUME Masks, NEW m \in Nat, NEW y \in Bytes(m), y # m, y <= Len(pattern), pattern[y] = Close
  PROVE  m <= Len(pattern) /\ y \in Bytes(Hi(m) + 1)
<1>1. m <= Len(pattern) /\ y \in Bytes(Lo(m) + 1)
  BY BytesGoOn
<1>2. CASE ~IsRange(m)
  BY <1>1, <1>2, MemberFacts
<1>3. CASE IsRange(m)
  <2>1. PICK k \in Nat : k = Lo(m)
    BY MemberFacts
  <2>2. pattern[k + 1] = Dash /\ pattern[k + 2] # Close
    BY <1>3, <2>1 DEF IsRange
  <2>3. y # k + 1 /\ y # k + 2
    BY <2>2 DEF Dash, Close
  <2>4. y \in Bytes(k + 1)
    BY <1>1, <2>1
  <2>5. Lo(k + 1) + 1 = k + 2
    BY <2>2 DEF Lo, Dash, Backslash
  <2>6. y \in Bytes(k + 2)
    BY <2>3, <2>4, <2>5, BytesGoOn
  <2>7. y \in Bytes(Lo(k + 2) + 1)
    BY <2>3, <2>6, BytesGoOn
  <2>8. Hi(m) = Lo(k + 2)
    BY <1>3, <2>1 DEF Hi
  <2> QED
    BY <1>1, <2>7, <2>8
<1> QED
  BY <1>2, <1>3

LEMMA MemberBytes ==
  ASSUME Masks, NEW m \in Nat, m <= Len(pattern)
  PROVE  Hi(m) + 1 \in Bytes(m)
<1>1. m \in Bytes(m) /\ Lo(m) + 1 \in Bytes(m)
  BY BytesFrom, BytesStep
<1>2. CASE ~IsRange(m)
  BY <1>1, <1>2, MemberFacts
<1>3. CASE IsRange(m)
  <2>1. PICK k \in Nat : k = Lo(m)
    BY MemberFacts
  <2>2. pattern[k + 1] = Dash /\ k + 2 <= Len(pattern)
    BY <1>3, <2>1 DEF IsRange
  <2>3. Lo(k + 1) + 1 = k + 2
    BY <2>2 DEF Lo, Dash, Backslash
  <2>4. k + 1 \in Bytes(m) /\ k + 1 <= Len(pattern)
    BY <1>1, <2>1, <2>2, LenProperties DEF Masks
  <2>5. k + 2 \in Bytes(m)
    BY <2>3, <2>4, BytesStep
  <2>6. Lo(k + 2) + 1 \in Bytes(m)
    BY <2>2, <2>5, BytesStep
  <2>7. Hi(m) = Lo(k + 2)
    BY <1>3, <2>1 DEF Hi
  <2> QED
    BY <2>6, <2>7
<1> QED
  BY <1>2, <1>3

\* What the loop finds is the closing bracket of the bytes it goes over, and it finds one
\* if there is one.
LEMMA FindsClose ==
  ASSUME Masks, NEW m \in Nat
  PROVE  Members[m].rest # 0 =>
           \E q \in Bytes(m) : /\ q >= m /\ q <= Len(pattern) /\ pattern[q] = Close
                               /\ Members[m].rest = q + 1
<1> DEFINE Finds(k) ==
             Members[k].rest # 0 =>
               \E q \in Bytes(k) : /\ q >= k /\ q <= Len(pattern) /\ pattern[q] = Close
                                   /\ Members[k].rest = q + 1
           T == {k \in Nat : ~Finds(k)}
<1>1. PICK l \in Nat : l = Len(pattern)
  BY LenProperties DEF Masks
<1>2. \A k \in T : k <= l
  BY <1>1, MembersAt
<1>3. ASSUME T # {} PROVE FALSE
  <2>1. T \in SUBSET (0..l)
    BY <1>2
  <2>2. PICK k \in T : \A i \in T : i <= k
    <3> HIDE DEF T
    <3> QED
      BY <1>3, <2>1, GreatestOne
  <2>3. k \in Nat /\ k <= Len(pattern) /\ Members[k].rest # 0 /\ ~Finds(k)
    BY <1>1, <1>2
  <2>4. pattern[k] # Close
    <3> SUFFICES ASSUME pattern[k] = Close PROVE FALSE
      OBVIOUS
    <3>1. Members[k].rest = k + 1 /\ k \in Bytes(k) /\ k >= k
      BY <2>3, MembersAt, BytesFrom
    <3> QED
      BY <2>3, <3>1
  <2>5. PICK i \in Nat : i = Hi(k) + 1
    BY <2>3, MemberFacts
  <2>6. i > k /\ Members[k].rest = Members[i].rest
    <3>1. i > k
      BY <2>3, <2>5, MemberFacts
    <3>2. Members[k].rest = Members[i].rest
      BY <2>3, <2>4, <2>5, MembersAt
    <3> QED
      BY <3>1, <3>2
  <2>7. Finds(i)
    BY <2>2, <2>3, <2>6
  <2>8. PICK q \in Bytes(i) : q >= i /\ q <= Len(pattern) /\ pattern[q] = Close /\ Members[k].rest = q + 1
    BY <2>3, <2>6, <2>7
  <2>9. i \in Bytes(k)
    BY <2>3, <2>5, MemberBytes
  <2>10. q \in Bytes(k)
    BY <2>3, <2>8, <2>9, BytesThrough
  <2>11. q >= k
    <3>1. q \in Nat
      BY <2>8 DEF Bytes
    <3> QED
      BY <2>3, <2>6, <2>8, <3>1
  <2> QED
    BY <2>3, <2>8, <2>10, <2>11
<1> QED
  BY <1>3

LEMMA FindsAny ==
  ASSUME Masks, NEW m \in Nat, NEW y \in Bytes(m), y <= Len(pattern), pattern[y] = Close
  PROVE  Members[m].rest # 0
<1> DEFINE T == {k \in Nat : y \in Bytes(k) /\ Members[k].rest = 0}
<1>1. PICK l \in Nat : l = Len(pattern)
  BY LenProperties DEF Masks
<1>2. \A k \in T : k # y
  BY MembersAt
<1>3. \A k \in T : k <= l /\ y \in Bytes(Hi(k) + 1)
  BY <1>1, <1>2, BytesOfMember
<1>4. ASSUME T # {} PROVE FALSE
  <2>1. T \in SUBSET (0..l)
    BY <1>3
  <2>2. PICK k \in T : \A i \in T : i <= k
    <3> HIDE DEF T
    <3> QED
      BY <1>4, <2>1, GreatestOne
  <2>3. k \in Nat /\ y \in Bytes(k) /\ Members[k].rest = 0 /\ k <= Len(pattern)
    BY <1>1, <1>3
  <2>4. pattern[k] # Close
    BY <2>3, MembersAt
  <2>5. PICK i \in Nat : i = Hi(k) + 1
    BY <2>3, MemberFacts
  <2>6. i > k
    BY <2>3, <2>5, MemberFacts
  <2>7. Members[i].rest = 0
    BY <2>3, <2>4, <2>5, MembersAt
  <2>8. i \in T
    BY <1>3, <2>5, <2>7
  <2> QED
    BY <2>2, <2>3, <2>6, <2>8
<1> QED
  BY <1>4

\* What is behind a class is behind the bracket, in the mask or at the end.
LEMMA BehindFacts ==
  ASSUME Masks, NEW i \in 0..Len(pattern), Closed(i)
  PROVE  Behind(i) \in (i + 1)..(Len(pattern) + 1)
<1>1. PICK l \in Nat : l = Len(pattern)
  BY LenProperties DEF Masks
<1>2. PICK f \in Nat : f = First(i) /\ f > i
  BY <1>1 DEF First
<1>3. PICK m \in Nat : m = Hi(f) + 1 /\ m > f
  BY <1>2, MemberFacts
<1>4. PICK q \in Bytes(m) : q >= m /\ q <= l /\ Members[m].rest = q + 1
  <2>1. Members[m].rest # 0
    BY <1>2, <1>3 DEF Closed
  <2> QED
    BY <1>1, <2>1, FindsClose
<1>5. q \in Nat /\ Behind(i) = q + 1
  BY <1>2, <1>3, <1>4 DEF Behind, Bytes
<1> QED
  BY <1>1, <1>2, <1>3, <1>4, <1>5

\* No later class closes when one does not (the comment of MatchIfMask): the bracket
\* that would close it closes the one before.
LEMMA LaterUnclosed ==
  ASSUME Masks, NEW i \in 1..Len(pattern), NEW j \in 1..Len(pattern), i < j,
         pattern[j] = Open, Closed(j)
  PROVE  Closed(i)
<1>1. PICK l \in Nat : l = Len(pattern)
  BY LenProperties DEF Masks
<1>2. PICK f \in Nat : f = First(i) /\ f <= i + 2 /\ f > i
  BY <1>1 DEF First
<1>3. PICK g \in Nat : g = First(j) /\ g > j /\ pattern[g - 1] # Backslash /\ g - 1 <= l
  <2>1. CASE Negated(j)
    <3>1. j < l /\ pattern[j + 1] # Backslash
      BY <1>1, <2>1 DEF Negated, Bang, Caret, Backslash
    <3>2. j + 2 \in Nat /\ First(j) = j + 2 /\ (j + 2) - 1 = j + 1
      BY <2>1 DEF First
    <3> QED
      BY <1>1, <3>1, <3>2
  <2>2. CASE ~Negated(j)
    <3>1. pattern[j] # Backslash
      BY DEF Open, Backslash
    <3>2. j + 1 \in Nat /\ First(j) = j + 1 /\ (j + 1) - 1 = j
      BY <2>2 DEF First
    <3> QED
      BY <1>1, <3>1, <3>2
  <2> QED
    BY <2>1, <2>2
<1>4. g \in Bytes(f)
  <2>1. CASE g = f
    BY <2>1, BytesFrom
  <2>2. CASE g # f
    <3>1. PICK x \in Nat : x = g - 1 /\ g = x + 1
      BY <1>3
    <3>2. f <= x
      BY <1>2, <1>3, <2>2, <3>1
    <3> QED
      BY <1>1, <1>3, <3>1, <3>2, BytesMeet
  <2> QED
    BY <2>1, <2>2
<1>5. PICK m \in Nat : m = Hi(g) + 1 /\ m > g
  BY MemberFacts
<1>6. PICK q \in Bytes(m) : q >= m /\ q <= Len(pattern) /\ pattern[q] = Close
  <2>1. Members[m].rest # 0
    BY <1>3, <1>5 DEF Closed
  <2> QED
    BY <2>1, FindsClose
<1>7. q \in Bytes(f)
  <2>1. g <= Len(pattern)
    BY <1>3 DEF Closed
  <2>2. m \in Bytes(g)
    BY <1>5, <2>1, MemberBytes
  <2> QED
    BY <1>4, <1>6, <2>2, BytesThrough
<1>8. q # f /\ f <= Len(pattern)
  <2>1. q \in Nat
    BY <1>6 DEF Bytes
  <2> QED
    BY <1>1, <1>2, <1>3, <1>5, <1>6, <2>1
<1>9. q \in Bytes(Hi(f) + 1)
  BY <1>6, <1>7, <1>8, BytesOfMember
<1>10. Hi(f) + 1 \in Nat
  BY MemberFacts
<1>11. Members[Hi(f) + 1].rest # 0
  BY <1>6, <1>9, <1>10, FindsAny
<1> QED
  BY <1>2, <1>8, <1>11 DEF Closed

-----------------------------------------------------------------------------
(* What a mask means.                                                      *)

\* What is said of part i, by what is said of the pattern after a star, or after a part.
Row(i, others, rest) ==
  [j \in 1..(Len(name) + 1) |->
     CASE i > Len(pattern) -> j > Len(name)
       [] i <= Len(pattern) /\ pattern[i] = Star -> \E k \in j..(Len(name) + 1) : others[k]
       [] OTHER -> j <= Len(name) /\ Accepts(i, name[j]) /\ rest[j + 1]]
Meaning(f) == [i \in Nat |-> Row(i, f[i + 1], f[After(i)])]

LEMMA RowTyped ==
  ASSUME NEW i, NEW others, NEW rest
  PROVE  Row(i, others, rest) \in [1..(Len(name) + 1) -> BOOLEAN]
<1>1. ASSUME NEW j \in 1..(Len(name) + 1) PROVE Row(i, others, rest)[j] \in BOOLEAN
  <2> DEFINE over == j > Len(name)
             run == \E k \in j..(Len(name) + 1) : others[k]
             byte == j <= Len(name) /\ Accepts(i, name[j]) /\ rest[j + 1]
  <2>1. over \in BOOLEAN /\ run \in BOOLEAN /\ byte \in BOOLEAN
    OBVIOUS
  <2>2. Row(i, others, rest)[j] = CASE i > Len(pattern) -> over
                                    [] i <= Len(pattern) /\ pattern[i] = Star -> run
                                    [] OTHER -> byte
    BY DEF Row
  <2> HIDE DEF over, run, byte
  <2> QED
    BY <2>1, <2>2
<1> QED
  BY <1>1 DEF Row

LEMMA AfterFacts ==
  ASSUME Masks, NEW i \in 0..Len(pattern)
  PROVE  After(i) \in (i + 1)..(Len(pattern) + 1)
<1>1. PICK l \in Nat : l = Len(pattern)
  BY LenProperties DEF Masks
<1>2. CASE pattern[i] = Open /\ Closed(i)
  BY <1>2, BehindFacts DEF After
<1>3. CASE ~(pattern[i] = Open /\ Closed(i)) /\ pattern[i] = Backslash /\ i < Len(pattern)
  <2>1. After(i) = i + 2
    BY <1>3 DEF After
  <2> QED
    BY <1>1, <1>3, <2>1
<1>4. CASE ~(pattern[i] = Open /\ Closed(i)) /\ ~(pattern[i] = Backslash /\ i < Len(pattern))
  <2>1. After(i) = i + 1
    BY <1>4 DEF After
  <2> QED
    BY <1>1, <2>1
<1> QED
  BY <1>2, <1>3, <1>4

LEMMA MatchesExist ==
  ASSUME Masks
  PROVE  \E f : f = Meaning(f)
<1>1. PICK l \in Nat, q \in Nat : l = Len(pattern) /\ q = Len(name)
  BY LenProperties DEF Masks
<1> DEFINE V == [1..(q + 1) -> BOOLEAN]
           rank == [i \in Nat |-> IF i > l THEN 0 ELSE l + 1 - i]
           F == [f \in [Nat -> V] |-> Meaning(f)]
           start == [i \in Nat |-> [j \in 1..(q + 1) |-> TRUE]]
<1>2. rank \in [Nat -> Nat] /\ l + 2 \in Nat /\ \A x \in Nat : rank[x] < l + 2
  OBVIOUS
<1>3. start \in [Nat -> V]
  OBVIOUS
<1>4. ASSUME NEW f \in [Nat -> V] PROVE Meaning(f) \in [Nat -> V]
  <2>1. ASSUME NEW i \in Nat PROVE Meaning(f)[i] \in V
    BY <1>1, RowTyped DEF Meaning
  <2> QED
    BY <2>1 DEF Meaning
<1>5. F \in [[Nat -> V] -> [Nat -> V]]
  BY <1>4
<1>6. ASSUME NEW f \in [Nat -> V], NEW g \in [Nat -> V], NEW i \in Nat,
             \A y \in Nat : rank[y] < rank[i] => f[y] = g[y]
      PROVE  F[f][i] = F[g][i]
  <2>1. CASE i > l
    <3>1. i > Len(pattern) /\ ~(i <= Len(pattern))
      BY <1>1, <2>1
    <3>2. \A others, rest : Row(i, others, rest) = [j \in 1..(Len(name) + 1) |-> j > Len(name)]
      BY <3>1 DEF Row
    <3> QED
      BY <3>2 DEF Meaning
  <2>2. CASE ~(i > l)
    <3>1. ASSUME NEW y \in (i + 1)..(l + 1) PROVE f[y] = g[y]
      <4>1. rank[i] = l + 1 - i /\ rank[y] = IF y > l THEN 0 ELSE l + 1 - y
        BY <2>2
      <4>2. y > i /\ i <= l /\ y \in Nat
        BY <2>2
      <4> HIDE DEF rank
      <4>3. rank[y] < rank[i]
        BY <4>1, <4>2
      <4> QED
        BY <1>6, <4>2, <4>3
    <3>2. After(i) \in (i + 1)..(l + 1) /\ i + 1 \in (i + 1)..(l + 1)
      BY <1>1, <2>2, AfterFacts
    <3>3. f[After(i)] = g[After(i)] /\ f[i + 1] = g[i + 1]
      BY <3>1, <3>2
    <3> QED
      BY <3>3 DEF Meaning
  <2> QED
    BY <2>1, <2>2
<1> HIDE DEF V, rank, F, start
<1>7. PICK f \in [Nat -> V] : F[f] = f
  <2>1. \A f, g \in [Nat -> V] : \A x \in Nat :
          (\A y \in Nat : rank[y] < rank[x] => f[y] = g[y]) => F[f][x] = F[g][x]
    BY <1>6
  <2>2. Ranked(Nat, V, rank, l + 2, F)
    BY <1>2, <1>5, <2>1 DEF Ranked
  <2> QED
    BY <1>3, <2>2, Recursion
<1>8. F[f] = Meaning(f)
  BY DEF F
<1> QED
  BY <1>7, <1>8

LEMMA MatchesIs ==
  ASSUME Masks
  PROVE  Matches = Meaning(Matches)
<1>1. \E f : f = Meaning(f)
  BY MatchesExist
<1>2. Matches = CHOOSE f : f = Meaning(f)
  BY DEF Matches, Meaning, Row
<1> QED
  BY <1>1, <1>2

\* Whether the pattern from i on matches the name from j on.
LEMMA MatchesAt ==
  ASSUME Masks, NEW i \in Nat, NEW j \in 1..(Len(name) + 1)
  PROVE  /\ i > Len(pattern) => (Matches[i][j] <=> j > Len(name))
         /\ i <= Len(pattern) /\ pattern[i] = Star =>
              (Matches[i][j] <=> \E k \in j..(Len(name) + 1) : Matches[i + 1][k])
         /\ i <= Len(pattern) /\ pattern[i] # Star =>
              (Matches[i][j] <=> j <= Len(name) /\ Accepts(i, name[j]) /\ Matches[After(i)][j + 1])
<1>1. PICK l \in Nat : l = Len(pattern)
  BY LenProperties DEF Masks
<1>2. Matches[i] = Row(i, Matches[i + 1], Matches[After(i)])
  BY MatchesIs DEF Meaning
<1> DEFINE over == j > Len(name)
           run == \E k \in j..(Len(name) + 1) : Matches[i + 1][k]
           byte == j <= Len(name) /\ Accepts(i, name[j]) /\ Matches[After(i)][j + 1]
<1>3. Matches[i][j] = CASE i > Len(pattern) -> over
                        [] i <= Len(pattern) /\ pattern[i] = Star -> run
                        [] OTHER -> byte
  BY <1>2 DEF Row
<1>4. over \in BOOLEAN /\ run \in BOOLEAN /\ byte \in BOOLEAN
  OBVIOUS
<1> HIDE DEF over, run, byte
<1>5. i > Len(pattern) => (Matches[i][j] <=> over)
  BY <1>3, <1>4
<1>6. ~(i > Len(pattern)) /\ i <= Len(pattern) /\ pattern[i] = Star => (Matches[i][j] <=> run)
  BY <1>3, <1>4
<1>7. ~(i > Len(pattern)) /\ i <= Len(pattern) /\ pattern[i] # Star => (Matches[i][j] <=> byte)
  BY <1>3, <1>4
<1>8. i <= Len(pattern) => ~(i > Len(pattern))
  BY <1>1
<1> QED
  BY <1>5, <1>6, <1>7, <1>8 DEF over, run, byte

-----------------------------------------------------------------------------
(* The loop.                                                               *)

\* From where on brackets are taken for themselves no class closes.
Brackets == \A i \in literal..Len(pattern) : pattern[i] = Open => ~Closed(i)

\* What follows the last star has led here from where its run ended, and would lead as
\* far from wherever it ended later.
Searched ==
  star # 0 =>
    /\ resume \in 1..n
    /\ \A k \in resume..(Len(name) + 1) :
         Matches[star + 1][k] => /\ k + (n - resume) <= Len(name) + 1
                                 /\ Matches[p][k + (n - resume)]

\* The name matches if it does from here on, or with a longer run of the last star.
Longer == star # 0 /\ \E k \in (resume + 1)..(Len(name) + 1) : Matches[star + 1][k]
Undecided == verdict = "none" => (Matches[1][1] <=> Matches[p][n] \/ Longer)

IInv == TypeOK /\ Brackets /\ Searched /\ Undecided /\ VerdictIsMeaning

LEMMA TypeMasks ==
  ASSUME TypeOK
  PROVE  /\ Masks /\ Len(pattern) \in Nat /\ Len(name) \in Nat
<1>1. \A k \in PatternBytes \cup NameBytes : k \in 0..255
  BY BytesAssumption
<1>2. \A k \in PatternBytes : k \in 0..255
  BY <1>1
<1>3. \A k \in NameBytes : k \in 0..255
  BY <1>1
<1>4. Masks
  <2>1. pattern \in Seq(0..255)
    BY <1>2, SMTT(20) DEF TypeOK
  <2>2. name \in Seq(0..255)
    BY <1>3, SMTT(20) DEF TypeOK
  <2> QED
    BY <2>1, <2>2 DEF Masks
<1> QED
  BY <1>4, LenProperties DEF Masks

\* What the loop takes is what the part at p accepts, though it takes a bracket for itself
\* where it has seen that no class closes.
LEMMA TakenIs ==
  ASSUME TypeOK, Brackets, p <= Len(pattern), pattern[p] # Star
  PROVE  /\ Accepts(p, name[n]) => Taken = After(p)
         /\ ~Accepts(p, name[n]) => Taken = 0
<1> DEFINE c == name[n]
<1>1. p \in Nat /\ literal \in Nat /\ Len(pattern) \in Nat
  BY TypeMasks DEF TypeOK
<1>2. RangeMatch(p, c).result # "malformed" <=> Closed(p)
  BY DEF RangeMatch
<1>3. Closed(p) => /\ RangeMatch(p, c).result = "matched" => RangeMatch(p, c).rest = Behind(p)
                   /\ RangeMatch(p, c).result # "matched" => RangeMatch(p, c).rest = 0
  BY DEF RangeMatch
<1>4. pattern[p] = Open /\ Closed(p) => p < literal
  BY <1>1 DEF Brackets
<1> HIDE DEF c
<1>5. CASE pattern[p] = Question
  BY <1>5 DEF Taken, Accepts, After, Question, Open, Backslash
<1>6. CASE pattern[p] = Open
  <2>1. CASE Closed(p)
    <3>1. Taken = RangeMatch(p, c).rest
      BY <1>2, <1>4, <1>6, <2>1 DEF Taken, Question, Open, Backslash, c
    <3>2. Accepts(p, c) <=> RangeMatch(p, c).result = "matched"
      BY <1>6, <2>1 DEF Accepts, Question, Open, Backslash
    <3>3. After(p) = Behind(p)
      BY <1>6, <2>1 DEF After, Open, Backslash
    <3> QED
      BY <1>3, <2>1, <3>1, <3>2, <3>3 DEF c
  <2>2. CASE ~Closed(p)
    <3>1. Taken = IF c = Open THEN p + 1 ELSE 0
      BY <1>2, <1>6, <2>2 DEF Taken, Question, Open, Backslash, c
    <3>2. Accepts(p, c) <=> c = Open
      BY <1>6, <2>2 DEF Accepts, Question, Open, Backslash
    <3>3. After(p) = p + 1
      BY <1>6, <2>2 DEF After, Open, Backslash
    <3> QED
      BY <3>1, <3>2, <3>3 DEF c
  <2> QED
    BY <2>1, <2>2
<1>7. CASE pattern[p] = Backslash
  <2>1. CASE p = Len(pattern)
    <3>1. Taken = IF c = Backslash THEN p + 1 ELSE 0
      BY <1>7, <2>1 DEF Taken, Question, Open, Backslash, c
    <3>2. ~(p < Len(pattern))
      BY <1>1, <2>1
    <3>3. (Accepts(p, c) <=> c = Backslash) /\ After(p) = p + 1
      BY <1>7, <3>2 DEF Accepts, After, Question, Open, Backslash
    <3> QED
      BY <3>1, <3>3 DEF c
  <2>2. CASE p # Len(pattern)
    <3>1. Taken = IF pattern[p + 1] = c THEN p + 2 ELSE 0
      BY <1>7, <2>2 DEF Taken, Question, Open, Backslash, c
    <3>2. p < Len(pattern)
      BY <1>1, <2>2
    <3>3. (Accepts(p, c) <=> pattern[p + 1] = c) /\ After(p) = p + 2
      BY <1>7, <3>2 DEF Accepts, After, Question, Open, Backslash
    <3> QED
      BY <3>1, <3>3 DEF c
  <2> QED
    BY <2>1, <2>2
<1>8. CASE pattern[p] \notin {Question, Open, Backslash}
  <2>1. Taken = IF pattern[p] = c THEN p + 1 ELSE 0
    BY <1>8 DEF Taken, c
  <2>2. (Accepts(p, c) <=> pattern[p] = c) /\ After(p) = p + 1
    BY <1>8 DEF Accepts, After
  <2> QED
    BY <2>1, <2>2 DEF c
<1> QED
  BY <1>5, <1>6, <1>7, <1>8

\* The mask and the name stay.
LEMMA SameMeaning ==
  ASSUME UNCHANGED <<pattern, name>>
  PROVE  Matches' = Matches /\ \A i : Closed(i)' = Closed(i)
<1>1. Members' = Members
  BY DEF Members, Hi, IsRange, Lo
<1>2. \A i : Lo(i)' = Lo(i) /\ Hi(i)' = Hi(i) /\ First(i)' = First(i) /\ Negated(i)' = Negated(i)
  BY DEF Hi, IsRange, Lo, First, Negated
<1>3. \A i : Closed(i)' = Closed(i) /\ Behind(i)' = Behind(i)
  BY <1>1, <1>2 DEF Closed, Behind
<1>4. \A i, c : RangeMatch(i, c)' = RangeMatch(i, c)
  BY <1>1, <1>2, <1>3 DEF RangeMatch
<1>5. \A i, c : Accepts(i, c)' = Accepts(i, c) /\ After(i)' = After(i)
  BY <1>3, <1>4 DEF Accepts, After
<1>6. Matches' = Matches
  BY <1>1 DEF Matches, Accepts, After, RangeMatch, Closed, Behind, First, Negated, Hi, IsRange, Lo
<1> QED
  BY <1>3, <1>6

LEMMA InitInv == Init => IInv
<1> SUFFICES ASSUME Init PROVE IInv
  OBVIOUS
<1>1. pattern \in Seq(PatternBytes) /\ name \in Seq(NameBytes)
  <2>1. \A S : \A k \in Nat : \A s \in [1..k -> S] : s \in Seq(S)
    OBVIOUS
  <2>2. \A N \in Nat : \A k \in 0..N : k \in Nat
    OBVIOUS
  <2> QED
    BY <2>1, <2>2, BoundsAssumption DEF Init, UpTo
<1>2. Len(pattern) \in Nat /\ Len(name) \in Nat
  BY <1>1, LenProperties
<1>3. TypeOK
  BY <1>1, <1>2 DEF Init, TypeOK
<1>4. Brackets /\ Searched /\ Undecided /\ VerdictIsMeaning
  BY <1>2 DEF Init, Brackets, Searched, Undecided, Longer, VerdictIsMeaning
<1> QED
  BY <1>3, <1>4 DEF IInv

\* A star: a longer run of the last one leads here later, and the new one may take what
\* it took more.
LEMMA OnStarInv ==
  ASSUME IInv, OnStar
  PROVE  IInv'
<1>1. /\ Masks /\ Len(pattern) \in Nat /\ Len(name) \in Nat
      /\ p \in 1..(Len(pattern) + 1) /\ n \in 1..(Len(name) + 1) /\ star \in 0..(p - 1) /\ resume \in 0..n
  BY TypeMasks DEF IInv, TypeOK
<1>2. /\ UNCHANGED <<pattern, name, n, literal, verdict>> /\ verdict = "none"
      /\ star' = p /\ resume' = n /\ p' = p + 1 /\ p <= Len(pattern) /\ pattern[p] = Star
  BY DEF OnStar, Going, AtStar
<1>3. Matches' = Matches /\ \A i : Closed(i)' = Closed(i)
  BY <1>2, SameMeaning
<1>4. TypeOK'
  BY <1>1, <1>2 DEF IInv, TypeOK
<1>5. Brackets'
  BY <1>2, <1>3 DEF IInv, Brackets
<1>6. Searched'
  <2>1. \A k \in n..(Len(name) + 1) : k + (n - n) = k
    BY <1>1
  <2>2. p # 0 /\ n \in 1..n
    BY <1>1
  <2> QED
    BY <1>1, <1>2, <1>3, <2>1, <2>2 DEF Searched
<1>7. Matches[p][n] <=> \E k \in n..(Len(name) + 1) : Matches[p + 1][k]
  BY <1>1, <1>2, MatchesAt
<1>8. Longer => Matches[p][n]
  <2> SUFFICES ASSUME Longer PROVE Matches[p][n]
    OBVIOUS
  <2>1. star # 0
    BY DEF Longer
  <2>2. PICK k \in (resume + 1)..(Len(name) + 1) : Matches[star + 1][k]
    BY DEF Longer
  <2>3. k \in resume..(Len(name) + 1) /\ resume \in Nat /\ k > resume
    BY <1>1, <2>2
  <2>4. k + (n - resume) <= Len(name) + 1 /\ Matches[p][k + (n - resume)]
    BY <2>1, <2>2, <2>3 DEF IInv, Searched
  <2>5. PICK m \in Nat : m = k + (n - resume) /\ m > n
    <3>1. k + (n - resume) \in Nat /\ k + (n - resume) > n
      BY <1>1, <2>3
    <3> QED
      BY <3>1
  <2>6. m \in 1..(Len(name) + 1) /\ Matches[p][m]
    BY <1>1, <2>4, <2>5
  <2>7. PICK i \in m..(Len(name) + 1) : Matches[p + 1][i]
    <3>1. Matches[p][m] <=> \E j \in m..(Len(name) + 1) : Matches[p + 1][j]
      BY <1>1, <1>2, <2>6, MatchesAt
    <3> QED
      BY <2>6, <3>1
  <2>8. i \in n..(Len(name) + 1)
    BY <1>1, <2>5, <2>7
  <2> QED
    BY <1>7, <2>7, <2>8
<1>9. Matches[p][n] <=> Matches[p + 1][n] \/ \E k \in (n + 1)..(Len(name) + 1) : Matches[p + 1][k]
  <2>1. n..(Len(name) + 1) = {n} \cup ((n + 1)..(Len(name) + 1))
    BY <1>1
  <2> QED
    BY <1>7, <2>1
<1>10. Undecided'
  <2>1. Matches[1][1] <=> Matches[p][n]
    BY <1>2, <1>8 DEF IInv, Undecided
  <2>2. Longer' <=> \E k \in (n + 1)..(Len(name) + 1) : Matches[p + 1][k]
    <3>1. Longer' <=> star' # 0 /\ \E k \in (resume' + 1)..(Len(name') + 1) : Matches'[star' + 1][k]
      BY DEF Longer
    <3>2. star' # 0 /\ star' + 1 = p + 1 /\ (resume' + 1)..(Len(name') + 1) = (n + 1)..(Len(name) + 1)
      BY <1>1, <1>2
    <3>3. Matches'[star' + 1] = Matches[p + 1]
      BY <1>3, <3>2
    <3> QED
      BY <3>1, <3>2, <3>3
  <2> QED
    BY <1>2, <1>3, <1>9, <2>1, <2>2 DEF Undecided
<1>11. VerdictIsMeaning'
  BY <1>2 DEF VerdictIsMeaning
<1> QED
  BY <1>4, <1>5, <1>6, <1>10, <1>11 DEF IInv

\* Whatever the step does to literal.
LEMMA BracketsStay ==
  ASSUME IInv, UNCHANGED <<pattern, name>>, LiteralAfter
  PROVE  Brackets' /\ literal' \in 1..(Len(pattern) + 1)
<1>1. /\ Masks /\ Len(pattern) \in Nat /\ p \in 1..(Len(pattern) + 1)
      /\ literal \in 1..(Len(pattern) + 1)
  BY TypeMasks DEF IInv, TypeOK
<1>2. \A i : Closed(i)' = Closed(i)
  BY SameMeaning
<1>3. CASE literal' = literal
  BY <1>1, <1>2, <1>3 DEF IInv, Brackets
<1>4. CASE literal' # literal
  <2>1. literal' = p /\ p <= Len(pattern) /\ pattern[p] = Open /\ RangeMatch(p, name[n]).result = "malformed"
    BY <1>4 DEF LiteralAfter, LiteralFrom
  <2>2. ~Closed(p)
    BY <2>1 DEF RangeMatch
  <2>3. ASSUME NEW i \in p..Len(pattern), pattern[i] = Open PROVE ~Closed(i)
    <3>1. i = p \/ (p < i /\ i \in 1..Len(pattern) /\ p \in 1..Len(pattern))
      BY <1>1, <2>1
    <3> QED
      BY <1>1, <2>2, <2>3, <3>1, LaterUnclosed
  <2> QED
    BY <1>1, <1>2, <2>1, <2>3 DEF Brackets
<1> QED
  BY <1>3, <1>4

LEMMA TakeInv ==
  ASSUME IInv, Take
  PROVE  IInv'
<1>1. /\ Masks /\ Len(pattern) \in Nat /\ Len(name) \in Nat
      /\ p \in 1..(Len(pattern) + 1) /\ n \in 1..(Len(name) + 1) /\ star \in 0..(p - 1) /\ resume \in 0..n
  BY TypeMasks DEF IInv, TypeOK
<1>2. /\ UNCHANGED <<pattern, name, star, resume, verdict>> /\ verdict = "none" /\ LiteralAfter
      /\ p' = Taken /\ n' = n + 1 /\ n <= Len(name)
      /\ p <= Len(pattern) /\ pattern[p] # Star /\ Taken # 0
  BY DEF Take, Takes, Going, AtStar
<1>3. Matches' = Matches
  BY <1>2, SameMeaning
<1>4. Accepts(p, name[n]) /\ p' = After(p)
  BY <1>2, TakenIs DEF IInv
<1>5. p' \in (p + 1)..(Len(pattern) + 1)
  BY <1>1, <1>2, <1>4, AfterFacts
<1>6. Brackets' /\ literal' \in 1..(Len(pattern) + 1)
  BY <1>2, BracketsStay
<1>7. TypeOK'
  BY <1>1, <1>2, <1>5, <1>6 DEF IInv, TypeOK
<1>8. \A m \in 1..(Len(name) + 1) : Matches[p][m] => m <= Len(name) /\ Matches[After(p)][m + 1]
  BY <1>1, <1>2, MatchesAt
<1>9. Searched'
  <2> SUFFICES ASSUME star' # 0
               PROVE  /\ resume' \in 1..n'
                      /\ \A k \in resume'..(Len(name') + 1) :
                           Matches'[star' + 1][k] => /\ k + (n' - resume') <= Len(name') + 1
                                                     /\ Matches'[p'][k + (n' - resume')]
    BY DEF Searched
  <2>1. resume' \in 1..n'
    BY <1>1, <1>2 DEF IInv, Searched
  <2> SUFFICES ASSUME NEW k \in resume'..(Len(name') + 1), Matches'[star' + 1][k]
               PROVE  k + (n' - resume') <= Len(name') + 1 /\ Matches'[p'][k + (n' - resume')]
    BY <2>1
  <2>2. resume \in 1..n /\ k + (n - resume) <= Len(name) + 1 /\ Matches[p][k + (n - resume)]
    BY <1>2, <1>3 DEF IInv, Searched
  <2>3. PICK m \in Nat : m = k + (n - resume) /\ m >= 1 /\ k + (n' - resume') = m + 1
    <3>1. k + (n - resume) \in Nat /\ k + (n - resume) >= 1 /\ k + (n + 1 - resume) = (k + (n - resume)) + 1
      BY <1>1, <1>2, <2>2
    <3>2. n' - resume' = n + 1 - resume
      BY <1>1, <1>2
    <3> QED
      BY <3>1, <3>2
  <2>4. m \in 1..(Len(name) + 1)
    BY <1>1, <2>2, <2>3
  <2>5. m <= Len(name) /\ Matches[After(p)][m + 1]
    BY <1>8, <2>2, <2>3, <2>4
  <2>6. m + 1 <= Len(name) + 1
    BY <1>1, <2>4, <2>5
  <2> QED
    BY <1>2, <1>3, <1>4, <2>3, <2>5, <2>6
<1>10. Matches[p][n] <=> Matches[After(p)][n + 1]
  BY <1>1, <1>2, <1>4, MatchesAt
<1>11. Undecided'
  BY <1>2, <1>3, <1>4, <1>10 DEF IInv, Undecided, Longer
<1>12. VerdictIsMeaning'
  BY <1>2 DEF VerdictIsMeaning
<1> QED
  BY <1>6, <1>7, <1>9, <1>11, <1>12 DEF IInv

\* What is not taken is matched no way.
LEMMA NotTaken ==
  ASSUME IInv, Going, ~AtStar, ~Takes
  PROVE  ~Matches[p][n]
<1>1. /\ Masks /\ Len(pattern) \in Nat /\ Len(name) \in Nat
      /\ p \in 1..(Len(pattern) + 1) /\ n \in 1..(Len(name) + 1)
  BY TypeMasks DEF IInv, TypeOK
<1>2. n <= Len(name)
  BY DEF Going
<1>3. CASE p > Len(pattern)
  <2>1. ~(n > Len(name))
    BY <1>1, <1>2
  <2> QED
    BY <1>1, <1>3, <2>1, MatchesAt
<1>4. CASE p <= Len(pattern)
  <2>1. pattern[p] # Star
    BY <1>4 DEF AtStar
  <2>2. Taken = 0
    BY <1>4 DEF Takes
  <2>3. After(p) # 0
    BY <1>1, <1>4, AfterFacts
  <2>4. ~Accepts(p, name[n])
    BY <1>4, <2>1, <2>2, <2>3, TakenIs DEF IInv
  <2> QED
    BY <1>1, <1>4, <2>1, <2>4, MatchesAt
<1> QED
  BY <1>1, <1>3, <1>4

LEMMA BacktrackInv ==
  ASSUME IInv, Backtrack
  PROVE  IInv'
<1>1. /\ Masks /\ Len(pattern) \in Nat /\ Len(name) \in Nat
      /\ p \in 1..(Len(pattern) + 1) /\ n \in 1..(Len(name) + 1) /\ star \in 0..(p - 1) /\ resume \in 0..n
  BY TypeMasks DEF IInv, TypeOK
<1>2. /\ UNCHANGED <<pattern, name, star, verdict>> /\ verdict = "none" /\ LiteralAfter
      /\ p' = star + 1 /\ n' = resume + 1 /\ resume' = resume + 1 /\ n <= Len(name) /\ star # 0
      /\ ~Matches[p][n]
  BY NotTaken DEF Backtrack, NextRun, Going
<1>3. Matches' = Matches
  BY <1>2, SameMeaning
<1>4. Brackets' /\ literal' \in 1..(Len(pattern) + 1)
  BY <1>2, BracketsStay
<1>5. TypeOK'
  BY <1>1, <1>2, <1>4 DEF IInv, TypeOK
<1>6. Searched'
  <2>1. \A k \in (resume + 1)..(Len(name) + 1) : k + (resume + 1 - (resume + 1)) = k
    BY <1>1
  <2>2. resume + 1 \in 1..(resume + 1)
    BY <1>1
  <2> QED
    BY <1>1, <1>2, <1>3, <2>1, <2>2 DEF Searched
<1>7. (resume + 1)..(Len(name) + 1) = {resume + 1} \cup ((resume + 2)..(Len(name) + 1))
  BY <1>1, <1>2
<1>8. Matches[1][1] <=> \E k \in (resume + 1)..(Len(name) + 1) : Matches[star + 1][k]
  BY <1>2 DEF IInv, Undecided, Longer
<1>9. Longer' <=> \E k \in (resume + 2)..(Len(name) + 1) : Matches[star + 1][k]
  <2>1. resume + 1 + 1 = resume + 2
    BY <1>1
  <2> QED
    BY <1>2, <1>3, <2>1 DEF Longer
<1>10. Matches[1][1] <=> Matches[star + 1][resume + 1] \/ Longer'
  BY <1>7, <1>8, <1>9
<1>11. Undecided'
  BY <1>2, <1>3, <1>10 DEF Undecided
<1>12. VerdictIsMeaning'
  BY <1>2 DEF VerdictIsMeaning
<1> QED
  BY <1>4, <1>5, <1>6, <1>11, <1>12 DEF IInv

LEMMA GiveUpInv ==
  ASSUME IInv, GiveUp
  PROVE  IInv'
<1>1. /\ UNCHANGED <<pattern, name, p, n, star, resume, literal>> /\ verdict = "none" /\ star = 0
      /\ verdict' = "no" /\ ~Matches[p][n]
  BY NotTaken DEF GiveUp, Going
<1>2. Matches' = Matches /\ \A i : Closed(i)' = Closed(i)
  BY <1>1, SameMeaning
<1>3. ~Matches[1][1]
  BY <1>1 DEF IInv, Undecided, Longer
<1>4. TypeOK'
  BY <1>1 DEF IInv, TypeOK
<1>5. Brackets' /\ Searched'
  BY <1>1, <1>2 DEF IInv, Brackets, Searched
<1>6. Undecided' /\ VerdictIsMeaning'
  BY <1>1, <1>2, <1>3 DEF Undecided, VerdictIsMeaning
<1> QED
  BY <1>4, <1>5, <1>6 DEF IInv

\* Nothing is left of the name: what is left of the mask matches if it is stars.
LEMMA OnlyStars ==
  ASSUME Masks, NEW at \in 1..(Len(pattern) + 1)
  PROVE  Matches[at][Len(name) + 1] <=> \A i \in at..Len(pattern) : pattern[i] = Star
<1>1. PICK l \in Nat, q \in Nat : l = Len(pattern) /\ q = Len(name)
  BY LenProperties DEF Masks
<1> DEFINE Stars(k) == \A i \in k..l : pattern[i] = Star
           T == {k \in 1..(l + 1) : ~(Matches[k][q + 1] <=> Stars(k))}
<1>2. ASSUME T # {} PROVE FALSE
  <2>1. T \in SUBSET (0..(l + 1)) /\ l + 1 \in Nat
    BY <1>1
  <2>2. PICK k \in T : \A i \in T : i <= k
    <3> HIDE DEF T
    <3> QED
      BY <1>2, <2>1, GreatestOne
  <2>3. k \in 1..(l + 1) /\ ~(Matches[k][q + 1] <=> Stars(k))
    OBVIOUS
  <2>4. q + 1 \in 1..(q + 1) /\ k \in Nat
    BY <1>1, <2>3
  <2>5. k <= l
    <3> SUFFICES ASSUME ~(k <= l) PROVE FALSE
      OBVIOUS
    <3>1. k > l /\ q + 1 > q
      BY <1>1, <2>3
    <3>2. Matches[k][q + 1]
      BY <1>1, <2>4, <3>1, MatchesAt
    <3>3. Stars(k)
      BY <1>1, <2>3, <3>1
    <3> QED
      BY <2>3, <3>2, <3>3
  <2>6. pattern[k] = Star
    <3> SUFFICES ASSUME pattern[k] # Star PROVE FALSE
      OBVIOUS
    <3>1. ~(q + 1 <= q)
      BY <1>1
    <3>2. ~Matches[k][q + 1]
      BY <1>1, <2>4, <2>5, <3>1, MatchesAt
    <3>3. ~Stars(k)
      BY <1>1, <2>3, <2>5
    <3> QED
      BY <2>3, <3>2, <3>3
  <2>7. Matches[k][q + 1] <=> Matches[k + 1][q + 1]
    <3>1. \A i \in (q + 1)..(q + 1) : i = q + 1
      BY <1>1
    <3>2. q + 1 \in (q + 1)..(q + 1)
      BY <1>1
    <3>3. Matches[k][q + 1] <=> \E i \in (q + 1)..(q + 1) : Matches[k + 1][i]
      BY <1>1, <2>4, <2>5, <2>6, MatchesAt
    <3> QED
      BY <3>1, <3>2, <3>3
  <2>8. Stars(k) <=> Stars(k + 1)
    <3>1. k..l = {k} \cup ((k + 1)..l)
      BY <1>1, <2>3, <2>5
    <3> QED
      BY <2>6, <3>1
  <2>9. k + 1 \in 1..(l + 1)
    BY <1>1, <2>3, <2>5
  <2>10. k + 1 \in T
    <3> HIDE DEF Stars
    <3> QED
      BY <2>3, <2>7, <2>8, <2>9
  <2> QED
    BY <2>2, <2>3, <2>10
<1> QED
  BY <1>1, <1>2

LEMMA FinishInv ==
  ASSUME IInv, Finish
  PROVE  IInv'
<1>1. /\ Masks /\ Len(pattern) \in Nat /\ Len(name) \in Nat
      /\ p \in 1..(Len(pattern) + 1) /\ n \in 1..(Len(name) + 1) /\ resume \in 0..n
  BY TypeMasks DEF IInv, TypeOK
<1>2. UNCHANGED <<pattern, name, p, n, star, resume, literal>> /\ verdict = "none"
  BY DEF Finish
<1>3. n = Len(name) + 1
  BY <1>1 DEF Finish
<1>4. verdict' = IF Matches[p][n] THEN "yes" ELSE "no"
  BY <1>1, <1>3, OnlyStars DEF Finish
<1>5. ~Longer
  <2> SUFFICES ASSUME star # 0, NEW k \in (resume + 1)..(Len(name) + 1), Matches[star + 1][k] PROVE FALSE
    BY DEF Longer
  <2>1. k \in resume..(Len(name) + 1)
    BY <1>1
  <2>2. k + (n - resume) <= Len(name) + 1
    BY <2>1 DEF IInv, Searched
  <2> QED
    BY <1>1, <1>3, <2>2
<1>6. Matches[1][1] <=> Matches[p][n]
  BY <1>2, <1>5 DEF IInv, Undecided
<1>7. Matches' = Matches /\ \A i : Closed(i)' = Closed(i)
  BY <1>2, SameMeaning
<1>8. TypeOK'
  BY <1>2, <1>4 DEF IInv, TypeOK
<1>9. Brackets' /\ Searched'
  BY <1>2, <1>7 DEF IInv, Brackets, Searched
<1>10. Undecided' /\ VerdictIsMeaning'
  BY <1>4, <1>6, <1>7 DEF Undecided, VerdictIsMeaning
<1> QED
  BY <1>8, <1>9, <1>10 DEF IInv

LEMMA StepInv ==
  ASSUME IInv, [Next]_vars
  PROVE  IInv'
<1>1. CASE OnStar
  BY <1>1, OnStarInv
<1>2. CASE Take
  BY <1>2, TakeInv
<1>3. CASE Backtrack
  BY <1>3, BacktrackInv
<1>4. CASE GiveUp
  BY <1>4, GiveUpInv
<1>5. CASE Finish
  BY <1>5, FinishInv
<1>6. CASE UNCHANGED vars
  <2>1. Matches' = Matches /\ \A i : Closed(i)' = Closed(i)
    BY <1>6, SameMeaning DEF vars
  <2> QED
    BY <1>6, <2>1 DEF vars, IInv, TypeOK, Brackets, Searched, Undecided, Longer, VerdictIsMeaning
<1> QED
  BY <1>1, <1>2, <1>3, <1>4, <1>5, <1>6 DEF Next

LEMMA Invariant == Spec => []IInv
<1>1. Init => IInv
  BY InitInv
<1>2. IInv /\ [Next]_vars => IInv'
  BY StepInv
<1> QED
  BY <1>1, <1>2, PTL DEF Spec

\* MatchIfMask reads the mask and the name only where they have a byte, and remembers
\* places of theirs.
THEOREM MaskTypes == Spec => []TypeOK
<1>1. IInv => TypeOK
  BY DEF IInv
<1> QED
  BY <1>1, Invariant, PTL

\* The verdict of MatchIfMask is what the mask means, though it goes back to the last star
\* only and takes every bracket for itself after a class that does not close.
THEOREM VerdictDecidesMeaning == Spec => []VerdictIsMeaning
<1>1. IInv => VerdictIsMeaning
  BY DEF IInv
<1> QED
  BY <1>1, Invariant, PTL

\* Every turn of the loop of MatchIfMask goes on to a later star, to a longer run of the
\* last one, or further in the mask and in the name.
THEOREM MaskGetsOn == Spec => GetsOn
<1> DEFINE On == verdict' = verdict =>
                   \/ star' > star
                   \/ star' = star /\ resume' > resume
                   \/ star' = star /\ resume' = resume /\ n' > n /\ p' > p
<1>1. ASSUME IInv, [Next]_vars PROVE [On]_vars
  <2>1. /\ Masks /\ Len(pattern) \in Nat /\ Len(name) \in Nat
        /\ p \in 1..(Len(pattern) + 1) /\ n \in 1..(Len(name) + 1) /\ star \in 0..(p - 1) /\ resume \in 0..n
    BY <1>1, TypeMasks DEF IInv, TypeOK
  <2>2. CASE OnStar
    BY <2>1, <2>2 DEF OnStar
  <2>3. CASE Take
    <3>1. /\ p' = Taken /\ n' = n + 1 /\ star' = star /\ resume' = resume
          /\ p <= Len(pattern) /\ pattern[p] # Star /\ Taken # 0
      BY <2>3 DEF Take, Takes, AtStar
    <3>2. p' = After(p)
      BY <1>1, <3>1, TakenIs DEF IInv
    <3>3. After(p) \in (p + 1)..(Len(pattern) + 1)
      BY <2>1, <3>1, AfterFacts
    <3> QED
      BY <2>1, <3>1, <3>2, <3>3
  <2>4. CASE Backtrack
    BY <2>1, <2>4 DEF Backtrack, NextRun
  <2>5. CASE GiveUp
    BY <2>5 DEF GiveUp, Going
  <2>6. CASE Finish
    BY <2>6 DEF Finish
  <2>7. CASE UNCHANGED vars
    BY <2>7
  <2> QED
    BY <1>1, <2>2, <2>3, <2>4, <2>5, <2>6, <2>7 DEF Next
<1>2. IInv /\ [Next]_vars => [On]_vars
  BY <1>1
<1> QED
  BY <1>2, Invariant, PTL DEF Spec, GetsOn

=============================================================================
