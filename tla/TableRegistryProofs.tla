------------------------ MODULE TableRegistryProofs -------------------------
(***************************************************************************)
(* Proofs about the table registry (module TableRegistry), for any tables, *)
(* networks and addresses and any number of entries.                       *)
(***************************************************************************)
EXTENDS TableRegistry, TLAPS, SequenceTheorems, WellFoundedInduction

Sorted(groups) ==
  \A i, j \in 1..Len(groups) : i < j => groups[i].HostBits < groups[j].HostBits

\* The entries of a table and an address whose networks have this many host bits.
Alike(table, addr, bits) ==
  {i \in Candidates(table, addr) : HostBits[added[i].key] = bits}

\* Every network added to the table has its group.
Grouped(groups, table, version) ==
  \A i \in 1..Len(added) :
    added[i].table = table /\ added[i].key \in Networks /\ Version[added[i].key] = version =>
      \E k \in 1..Len(groups) : groups[k].HostBits = HostBits[added[i].key]

\* A group answers for its host bits: it holds an address when an entry of so
\* many does, and its last one has the value of the last such entry.
Answers(group, table, addr) ==
  LET alike == Alike(table, addr, group.HostBits)
      holding == Holding(group, addr)
  IN /\ alike = {} <=> holding = {}
     /\ \A i \in alike, h \in holding :
          (\A j \in alike : j <= i) /\ (\A j \in holding : j <= h) =>
            group.entries[h].value = added[i].value

Keeps(groups, table, version) ==
  /\ Sorted(groups)
  /\ Grouped(groups, table, version)
  /\ \A addr \in Addresses : Version[addr] = version =>
       \A k \in 1..Len(groups) : Answers(groups[k], table, addr)

IInv ==
  /\ TypeOK
  /\ \A table \in Tables, version \in Family :
       Keeps(Network(table)[version], table, version)
  /\ InterfaceLastAdded

-----------------------------------------------------------------------------
(* The least and the greatest of a set of numbers.                         *)

\* A set of numbers that has any has a least one.
LEMMA LeastIn ==
  ASSUME NEW S \in SUBSET Nat, S # {}
  PROVE  Least(S) \in S /\ \A j \in S : Least(S) <= j
<1>1. PICK m \in S : \A j \in S : <<j, m>> \notin OpToRel(<, Nat)
  BY NatLessThanWellFounded, WFMin
<1>2. \A j \in S : ~(j < m)
  BY <1>1 DEF OpToRel
<1>3. \A j \in S : m <= j
  BY <1>2
<1> QED BY <1>3 DEF Least

\* A set of numbers up to n that has any has a greatest one.
LEMMA GreatestIn ==
  ASSUME NEW n \in Nat, NEW S \in SUBSET (1..n), S # {}
  PROVE  Greatest(S) \in S /\ \A j \in S : j <= Greatest(S)
<1> DEFINE U == {u \in 0..n : \A j \in S : j <= u}
<1>1. n \in U /\ U \in SUBSET Nat
  OBVIOUS
<1>2. PICK u \in U : \A v \in U : u <= v
  BY <1>1, LeastIn
<1>3. u \in S
  <2> SUFFICES ASSUME u \notin S PROVE FALSE
    OBVIOUS
  <2>1. PICK s \in S : s <= u
    BY <1>2
  <2>2. u - 1 \in U
    BY <1>2, <2>1
  <2> QED BY <1>2, <2>2
<1> QED BY <1>2, <1>3 DEF Greatest

-----------------------------------------------------------------------------
(* Adding a network to the groups of a family.                             *)

LEMMA GroupTypes ==
  ASSUME NEW groups \in Seq(PrefixGroup)
  PROVE  /\ Len(groups) \in Nat
         /\ \A i \in 1..Len(groups) : /\ groups[i] \in PrefixGroup
                                      /\ groups[i].HostBits \in Nat
                                      /\ groups[i].entries \in Seq(Entry)
<1>1. Len(groups) \in Nat /\ \A i \in 1..Len(groups) : groups[i] \in PrefixGroup
  OBVIOUS
<1>2. \A group \in PrefixGroup : group.HostBits \in Nat /\ group.entries \in Seq(Entry)
  BY DEF PrefixGroup
<1> QED BY <1>1, <1>2

\* The binary search finds the place of the host bits among sorted groups.
LEMMA PlaceIn ==
  ASSUME NEW groups \in Seq(PrefixGroup), Sorted(groups), NEW bits \in Nat
  PROVE  /\ Place(groups, bits) \in 1..(Len(groups) + 1)
         /\ \A i \in 1..(Place(groups, bits) - 1) : groups[i].HostBits < bits
         /\ \A i \in Place(groups, bits)..Len(groups) : groups[i].HostBits >= bits
<1> DEFINE S == {k \in 1..(Len(groups) + 1) : \A i \in k..Len(groups) : groups[i].HostBits >= bits}
<1>1. Len(groups) \in Nat /\ \A i \in 1..Len(groups) : groups[i].HostBits \in Nat
  BY GroupTypes
<1>2. Len(groups) + 1 \in S /\ S \in SUBSET Nat
  BY <1>1
<1>3. PICK k \in S : \A j \in S : k <= j
  BY <1>2, LeastIn
<1>4. ASSUME NEW i \in 1..(k - 1) PROVE groups[i].HostBits < bits
  <2>1. k - 1 \notin S /\ k - 1 \in 1..Len(groups)
    <3>1. k \in 1..(Len(groups) + 1) /\ k - 1 < k /\ ~(k <= k - 1)
      BY <1>1, <1>3
    <3>2. k - 1 \in 1..Len(groups)
      BY <1>1, <3>1
    <3> QED BY <1>3, <3>1, <3>2
  <2>2. PICK j \in (k - 1)..Len(groups) : ~(groups[j].HostBits >= bits)
    BY <1>1, <2>1
  <2>3. j = k - 1
    BY <1>1, <1>3, <2>2
  <2>4. groups[k - 1].HostBits < bits
    BY <1>1, <2>1, <2>2, <2>3
  <2>5. CASE i = k - 1
    BY <2>4, <2>5
  <2>6. CASE i # k - 1
    <3>1. groups[i].HostBits < groups[k - 1].HostBits
      BY <1>1, <1>3, <2>1, <2>6 DEF Sorted
    <3> QED BY <1>1, <1>3, <2>1, <2>4, <3>1, SMTT(20)
  <2> QED BY <2>5, <2>6
<1> QED BY <1>3, <1>4 DEF Place

\* The groups with an entry added: it is appended to the group of its host
\* bits, which is a new one when there was none, and the other groups stay.
Grown(new, groups, bits, entry) ==
  /\ new \in Seq(PrefixGroup)
  /\ Sorted(new)
  /\ \E k \in 1..Len(new) : new[k].HostBits = bits
  /\ \A i \in 1..Len(groups) : \E k \in 1..Len(new) : new[k].HostBits = groups[i].HostBits
  /\ \A k \in 1..Len(new) :
       IF new[k].HostBits # bits THEN \E i \in 1..Len(groups) : new[k] = groups[i]
       ELSE \/ \E i \in 1..Len(groups) :
                 /\ groups[i].HostBits = bits
                 /\ new[k].entries = Append(groups[i].entries, entry)
            \/ /\ \A i \in 1..Len(groups) : groups[i].HostBits # bits
               /\ new[k].entries = <<entry>>

\* Adding a network grows the groups and keeps them sorted.
LEMMA AddedToGroup ==
  ASSUME NEW groups \in Seq(PrefixGroup), Sorted(groups),
         NEW network \in Networks, NEW value \in Values
  PROVE  Grown(WithNetwork(groups, network, value), groups, HostBits[network],
               [network |-> network, value |-> value])
<1> DEFINE new == WithNetwork(groups, network, value)
           bits == HostBits[network]
           entry == [network |-> network, value |-> value]
           k0 == Place(groups, bits)
<1>1. bits \in Nat /\ entry \in Entry
  BY NetworkAssumption DEF Entry
<1>2. /\ k0 \in 1..(Len(groups) + 1)
      /\ \A i \in 1..(k0 - 1) : groups[i].HostBits < bits
      /\ \A i \in k0..Len(groups) : groups[i].HostBits >= bits
  BY <1>1, PlaceIn
<1>3. /\ Len(groups) \in Nat
      /\ \A i \in 1..Len(groups) : /\ groups[i] \in PrefixGroup
                                   /\ groups[i].HostBits \in Nat
                                   /\ groups[i].entries \in Seq(Entry)
  BY GroupTypes
<1> HIDE DEF k0
<1>4. CASE k0 <= Len(groups) /\ groups[k0].HostBits = bits
  <2> DEFINE group == [HostBits |-> bits, entries |-> Append(groups[k0].entries, entry)]
  <2>1. new = [groups EXCEPT ![k0] = group]
    BY <1>2, <1>3, <1>4 DEF WithNetwork, Bits, k0
  <2>2. group \in PrefixGroup /\ group.HostBits = bits
        /\ group.entries = Append(groups[k0].entries, entry)
    BY <1>1, <1>2, <1>3, <1>4, SMTT(20) DEF PrefixGroup
  <2> HIDE DEF group, new
  <2>3. new \in Seq(PrefixGroup) /\ Len(new) = Len(groups)
    BY <1>2, <1>3, <1>4, <2>1, <2>2
  <2>4. \A k \in 1..Len(groups) : new[k] = IF k = k0 THEN group ELSE groups[k]
    BY <1>2, <1>3, <1>4, <2>1
  <2>5. \A k \in 1..Len(groups) : new[k].HostBits = groups[k].HostBits
    BY <1>4, <2>2, <2>4
  <2>6. Sorted(new)
    BY <2>3, <2>5 DEF Sorted
  <2>7. k0 \in 1..Len(groups)
    BY <1>2, <1>3, <1>4
  <2>8. ASSUME NEW k \in 1..Len(groups), k # k0
        PROVE  new[k] = groups[k] /\ new[k].HostBits # bits
    <3>1. new[k] = groups[k]
      BY <2>4, <2>8
    <3>2. groups[k].HostBits # groups[k0].HostBits
      BY <1>3, <2>7, <2>8 DEF Sorted
    <3> QED BY <3>1, <3>2, <1>4
  <2>9. \E k \in 1..Len(new) : new[k].HostBits = bits
    BY <2>2, <2>3, <2>4, <2>7
  <2>10. ASSUME NEW k \in 1..Len(new)
         PROVE  IF new[k].HostBits # bits THEN \E i \in 1..Len(groups) : new[k] = groups[i]
                ELSE \E i \in 1..Len(groups) :
                       /\ groups[i].HostBits = bits
                       /\ new[k].entries = Append(groups[i].entries, entry)
    <3>1. CASE k = k0
      BY <1>4, <2>2, <2>3, <2>4, <2>7, <3>1
    <3>2. CASE k # k0
      BY <2>3, <2>8, <3>2
    <3> QED BY <3>1, <3>2
  <2> QED BY <2>3, <2>5, <2>6, <2>9, <2>10 DEF new, Grown
<1>5. CASE ~(k0 <= Len(groups) /\ groups[k0].HostBits = bits)
  <2> DEFINE group == [HostBits |-> bits, entries |-> <<entry>>]
  <2>1. new = Inserted(groups, k0, group)
    BY <1>5 DEF WithNetwork, Bits, k0
  <2>2. group \in PrefixGroup /\ group.HostBits = bits /\ group.entries = <<entry>>
    BY <1>1 DEF PrefixGroup
  <2>3. \A i \in 1..Len(groups) : /\ i < k0 => groups[i].HostBits < bits
                                  /\ i >= k0 => groups[i].HostBits > bits
    <3>1. ASSUME NEW i \in 1..Len(groups), i >= k0 PROVE groups[i].HostBits > bits
      <4>1. k0 \in 1..Len(groups) /\ groups[k0].HostBits > bits
        BY <1>1, <1>2, <1>3, <1>5, <3>1, SMTT(20)
      <4>2. CASE i = k0
        BY <4>1, <4>2
      <4>3. CASE i # k0
        <5>1. groups[k0].HostBits < groups[i].HostBits
          BY <1>2, <1>3, <3>1, <4>1, <4>3 DEF Sorted
        <5> QED BY <1>1, <1>3, <4>1, <5>1
      <4> QED BY <4>2, <4>3
    <3> QED BY <1>2, <1>3, <3>1
  <2> HIDE DEF group, new
  <2>4. \A k \in 1..(Len(groups) + 1) :
          (IF k < k0 THEN groups[k] ELSE IF k = k0 THEN group ELSE groups[k - 1]) \in PrefixGroup
    BY <1>2, <1>3, <2>2
  <2>5. new \in Seq(PrefixGroup) /\ Len(new) = Len(groups) + 1
        /\ \A k \in 1..Len(new) :
             new[k] = IF k < k0 THEN groups[k] ELSE IF k = k0 THEN group ELSE groups[k - 1]
    <3>1. new = [k \in 1..(Len(groups) + 1) |->
                   IF k < k0 THEN groups[k] ELSE IF k = k0 THEN group ELSE groups[k - 1]]
      BY <2>1 DEF Inserted
    <3>2. new \in [1..(Len(groups) + 1) -> PrefixGroup]
      BY <2>4, <3>1
    <3>3. new \in Seq(PrefixGroup) /\ Len(new) = Len(groups) + 1
      BY <1>3, <3>2
    <3> QED BY <3>1, <3>3
  <2>6. \A k \in 1..Len(new) : /\ k < k0 => k \in 1..Len(groups) /\ new[k] = groups[k]
                               /\ k = k0 => new[k] = group
                               /\ k > k0 => k - 1 \in 1..Len(groups) /\ new[k] = groups[k - 1]
    BY <1>2, <1>3, <2>5
  <2>7. ASSUME NEW i \in 1..Len(new), NEW j \in 1..Len(new), i < j
        PROVE  new[i].HostBits < new[j].HostBits
    <3>1. CASE j < k0
      BY <1>2, <1>3, <2>6, <2>7, <3>1 DEF Sorted
    <3>2. CASE j = k0
      BY <1>2, <1>3, <2>2, <2>3, <2>6, <2>7, <3>2
    <3>3. CASE j > k0
      <4>1. j - 1 \in 1..Len(groups) /\ new[j] = groups[j - 1] /\ j - 1 >= k0
        BY <1>2, <2>6, <3>3
      <4>2. CASE i < k0
        <5>1. i \in 1..Len(groups) /\ new[i] = groups[i] /\ i < j - 1
          BY <1>2, <2>6, <3>3, <4>2
        <5> QED BY <1>3, <4>1, <5>1 DEF Sorted
      <4>3. CASE i = k0
        BY <2>2, <2>3, <2>6, <4>1, <4>3
      <4>4. CASE i > k0
        <5>1. i - 1 \in 1..Len(groups) /\ new[i] = groups[i - 1] /\ i - 1 < j - 1
          BY <1>2, <2>6, <2>7, <4>4
        <5> QED BY <1>3, <4>1, <5>1 DEF Sorted
      <4> QED BY <1>2, <4>2, <4>3, <4>4
    <3> QED BY <1>2, <3>1, <3>2, <3>3
  <2>8. Sorted(new)
    BY <2>7 DEF Sorted
  <2>9. k0 \in 1..Len(new) /\ new[k0] = group
    BY <1>2, <2>5, <2>6
  <2>10. \A i \in 1..Len(groups) : groups[i].HostBits # bits
    BY <1>1, <1>2, <1>3, <2>3
  <2>11. ASSUME NEW i \in 1..Len(groups)
         PROVE  \E k \in 1..Len(new) : new[k].HostBits = groups[i].HostBits
    <3>1. CASE i < k0
      <4>1. i \in 1..Len(new) /\ new[i] = groups[i]
        BY <1>3, <2>5, <2>6, <3>1
      <4> QED BY <4>1
    <3>2. CASE i >= k0
      <4>1. i + 1 \in 1..Len(new) /\ i + 1 > k0 /\ (i + 1) - 1 = i
        BY <1>2, <1>3, <2>5, <3>2
      <4>2. new[i + 1] = groups[i]
        BY <2>6, <4>1
      <4> QED BY <4>1, <4>2
    <3> QED BY <1>2, <3>1, <3>2
  <2>12. ASSUME NEW k \in 1..Len(new)
         PROVE  IF new[k].HostBits # bits THEN \E i \in 1..Len(groups) : new[k] = groups[i]
                ELSE new[k].entries = <<entry>>
    <3>1. CASE k = k0
      BY <2>2, <2>9, <3>1
    <3>2. CASE k # k0
      <4>1. \E i \in 1..Len(groups) : new[k] = groups[i]
        <5>1. k \in Nat /\ k0 \in Nat /\ (k < k0 \/ k > k0)
          BY <1>2, <1>3, <2>5, <3>2
        <5>2. CASE k < k0
          BY <2>6, <5>2
        <5>3. CASE k > k0
          BY <2>6, <5>3
        <5> QED BY <5>1, <5>2, <5>3
      <4> QED BY <2>10, <4>1
    <3> QED BY <3>1, <3>2
  <2> QED BY <2>2, <2>5, <2>8, <2>9, <2>10, <2>11, <2>12 DEF new, Grown
<1> QED BY <1>4, <1>5

-----------------------------------------------------------------------------
(* What is known of an entry added.                                        *)

\* The candidates once an entry is added.
LEMMA CandidatesAfter ==
  ASSUME TypeOK, NEW e \in Added, added' = Append(added, e),
         NEW table \in Tables, NEW addr \in Addresses
  PROVE  /\ Len(added) \in Nat /\ Len(added') = Len(added) + 1
         /\ \A i \in 1..Len(added) : added'[i] = added[i]
         /\ added'[Len(added) + 1] = e
         /\ Candidates(table, addr) \subseteq 1..Len(added)
         /\ Candidates(table, addr)' =
              Candidates(table, addr) \cup
              {i \in {Len(added) + 1} :
                 /\ e.table = table /\ e.key \in Networks
                 /\ Version[e.key] = Version[addr] /\ addr \in Holds[e.key]}
<1>1. added \in Seq(Added)
  BY DEF TypeOK
<1>2. /\ Len(added) \in Nat /\ Len(added') = Len(added) + 1
      /\ \A i \in 1..Len(added) : added'[i] = added[i]
      /\ added'[Len(added) + 1] = e
      /\ DOMAIN added = 1..Len(added) /\ DOMAIN added' = 1..(Len(added) + 1)
  BY <1>1
<1> QED BY <1>2 DEF Candidates

\* The same, of those whose networks have so many host bits.
LEMMA AlikeAfter ==
  ASSUME TypeOK, NEW e \in Added, added' = Append(added, e),
         NEW table \in Tables, NEW addr \in Addresses, NEW bits \in Nat
  PROVE  /\ Alike(table, addr, bits) \subseteq 1..Len(added)
         /\ Alike(table, addr, bits)' =
              Alike(table, addr, bits) \cup
              {i \in {Len(added) + 1} :
                 /\ e.table = table /\ e.key \in Networks /\ HostBits[e.key] = bits
                 /\ Version[e.key] = Version[addr] /\ addr \in Holds[e.key]}
<1> DEFINE C == Candidates(table, addr)
<1>1. /\ Len(added) \in Nat
      /\ \A i \in 1..Len(added) : added'[i] = added[i]
      /\ added'[Len(added) + 1] = e
      /\ C \subseteq 1..Len(added)
      /\ Candidates(table, addr)' =
           C \cup {i \in {Len(added) + 1} :
                    /\ e.table = table /\ e.key \in Networks
                    /\ Version[e.key] = Version[addr] /\ addr \in Holds[e.key]}
  BY CandidatesAfter
<1>2. Alike(table, addr, bits)' =
        {i \in Candidates(table, addr)' : HostBits[added'[i].key] = bits}
  BY DEF Alike
<1>3. Alike(table, addr, bits) = {i \in C : HostBits[added[i].key] = bits}
  BY DEF Alike
<1> QED BY <1>1, <1>2, <1>3

\* An entry that is not of the table, of the family or of the host bits of a
\* group leaves what it answers.
LEMMA AnswersStill ==
  ASSUME TypeOK, NEW e \in Added, added' = Append(added, e),
         NEW table \in Tables, NEW addr \in Addresses, NEW group \in PrefixGroup,
         Answers(group, table, addr),
         ~(e.table = table /\ e.key \in Networks /\ HostBits[e.key] = group.HostBits
            /\ Version[e.key] = Version[addr])
  PROVE  Answers(group, table, addr)'
<1>1. group.HostBits \in Nat
  BY DEF PrefixGroup
<1>2. /\ Alike(table, addr, group.HostBits)' = Alike(table, addr, group.HostBits)
      /\ Alike(table, addr, group.HostBits) \subseteq 1..Len(added)
  <2> DEFINE bits == group.HostBits
             Of == {i \in {Len(added) + 1} :
                      /\ e.table = table /\ e.key \in Networks /\ HostBits[e.key] = bits
                      /\ Version[e.key] = Version[addr] /\ addr \in Holds[e.key]}
  <2>1. /\ Alike(table, addr, bits) \subseteq 1..Len(added)
        /\ Alike(table, addr, bits)' = Alike(table, addr, bits) \cup Of
    BY <1>1, AlikeAfter
  <2>2. Of = {}
    OBVIOUS
  <2> HIDE DEF Of
  <2> QED BY <2>1, <2>2
<1>3. \A i \in 1..Len(added) : added'[i] = added[i]
  BY CandidatesAfter
<1> DEFINE A == Alike(table, addr, group.HostBits)
           H == Holding(group, addr)
<1>4. /\ A = {} <=> H = {}
      /\ \A i \in A, h \in H : (\A j \in A : j <= i) /\ (\A j \in H : j <= h) =>
           group.entries[h].value = added[i].value
  BY DEF Answers
<1>5. \A i \in A : added'[i].value = added[i].value
  BY <1>2, <1>3
<1>6. Answers(group, table, addr)' <=>
        /\ A' = {} <=> H = {}
        /\ \A i \in A', h \in H : (\A j \in A' : j <= i) /\ (\A j \in H : j <= h) =>
             group.entries[h].value = added'[i].value
  BY DEF Answers, Holding
<1> HIDE DEF A, H
<1> QED BY <1>2, <1>4, <1>5, <1>6 DEF A

\* An entry of the family and of the host bits of a group, appended to it, is
\* what the group answers of the addresses its network holds.
LEMMA AnswersAppended ==
  ASSUME TypeOK, NEW table \in Tables, NEW network \in Networks, NEW value \in Values,
         added' = Append(added, [table |-> table, key |-> network, value |-> value]),
         NEW addr \in Addresses, Version[addr] = Version[network],
         NEW old \in PrefixGroup, NEW new \in PrefixGroup,
         old.HostBits = HostBits[network], new.HostBits = HostBits[network],
         new.entries = Append(old.entries, [network |-> network, value |-> value]),
         Answers(old, table, addr)
  PROVE  Answers(new, table, addr)'
<1> DEFINE e == [table |-> table, key |-> network, value |-> value]
           A == Alike(table, addr, HostBits[network])
           H == Holding(old, addr)
           H2 == Holding(new, addr)
           n == Len(added) + 1
           m == Len(old.entries) + 1
<1>1. e \in Added /\ HostBits[network] \in Nat
  BY NetworkAssumption DEF Added
<1>2. /\ A \subseteq 1..Len(added)
      /\ A' = A \cup {i \in {n} : addr \in Holds[network]}
  <2> DEFINE Of == {i \in {n} : /\ e.table = table /\ e.key \in Networks
                                /\ HostBits[e.key] = HostBits[network]
                                /\ Version[e.key] = Version[addr] /\ addr \in Holds[e.key]}
  <2>1. A \subseteq 1..Len(added) /\ A' = A \cup Of
    BY <1>1, AlikeAfter, SMTT(20)
  <2>2. Of = {i \in {n} : addr \in Holds[network]}
    OBVIOUS
  <2> HIDE DEF Of
  <2> QED BY <2>1, <2>2
<1>3. Len(added) \in Nat /\ \A i \in 1..Len(added) : added'[i] = added[i]
  BY <1>1, CandidatesAfter
<1>4. added'[n].value = value
  <2>1. added'[n] = e
    BY <1>1, CandidatesAfter
  <2> QED BY <2>1
<1>5. old.entries \in Seq(Entry) /\ Len(old.entries) \in Nat
  BY DEF PrefixGroup
<1>6. /\ Len(new.entries) = m
      /\ \A i \in 1..Len(old.entries) : new.entries[i] = old.entries[i]
      /\ new.entries[m] = [network |-> network, value |-> value]
      /\ DOMAIN new.entries = 1..m /\ DOMAIN old.entries = 1..Len(old.entries)
  BY <1>5
<1>7. /\ H \subseteq 1..Len(old.entries)
      /\ H2 = H \cup {i \in {m} : addr \in Holds[network]}
  BY <1>5, <1>6 DEF Holding
<1>8. /\ A = {} <=> H = {}
      /\ \A i \in A, h \in H : (\A j \in A : j <= i) /\ (\A j \in H : j <= h) =>
           old.entries[h].value = added[i].value
  BY DEF Answers
<1>9. Answers(new, table, addr)' <=>
        /\ A' = {} <=> H2 = {}
        /\ \A i \in A', h \in H2 : (\A j \in A' : j <= i) /\ (\A j \in H2 : j <= h) =>
             new.entries[h].value = added'[i].value
  BY DEF Answers, Holding
<1> HIDE DEF A, H, H2
<1>10. CASE addr \in Holds[network]
  <2>1. A' = A \cup {n} /\ H2 = H \cup {m}
    BY <1>2, <1>7, <1>10
  <2>2. ASSUME NEW i \in A', NEW h \in H2, \A j \in A' : j <= i, \A j \in H2 : j <= h
        PROVE  new.entries[h].value = added'[i].value
    <3>1. i = n /\ h = m
      BY <1>2, <1>3, <1>5, <1>7, <2>1, <2>2
    <3> QED BY <1>4, <1>6, <3>1
  <2> QED BY <1>9, <2>1, <2>2
<1>11. CASE addr \notin Holds[network]
  <2>1. A' = A /\ H2 = H
    BY <1>2, <1>7, <1>11
  <2>2. ASSUME NEW i \in A, NEW h \in H PROVE added'[i] = added[i] /\ new.entries[h] = old.entries[h]
    BY <1>2, <1>3, <1>6, <1>7
  <2>3. ASSUME NEW i \in A', NEW h \in H2, \A j \in A' : j <= i, \A j \in H2 : j <= h
        PROVE  new.entries[h].value = added'[i].value
    <3>1. i \in A /\ h \in H /\ old.entries[h].value = added[i].value
      BY <1>8, <2>1, <2>3
    <3> QED BY <2>2, <3>1
  <2>4. A' = {} <=> H2 = {}
    BY <1>8, <2>1
  <2> QED BY <1>9, <2>3, <2>4
<1> QED BY <1>10, <1>11

\* The family of the table a network is added to.
LEMMA KeepsAdded ==
  ASSUME TypeOK, NEW table \in Tables, NEW network \in Networks, NEW value \in Values,
         added' = Append(added, [table |-> table, key |-> network, value |-> value]),
         NEW groups \in Seq(PrefixGroup), Keeps(groups, table, Version[network])
  PROVE  Keeps(WithNetwork(groups, network, value), table, Version[network])'
<1> DEFINE e == [table |-> table, key |-> network, value |-> value]
           entry == [network |-> network, value |-> value]
           bits == HostBits[network]
<1>1. PICK new : new = WithNetwork(groups, network, value)
  OBVIOUS
<1>2. /\ new \in Seq(PrefixGroup)
      /\ Sorted(new)
      /\ \E k \in 1..Len(new) : new[k].HostBits = bits
      /\ \A i \in 1..Len(groups) : \E k \in 1..Len(new) :
           new[k].HostBits = groups[i].HostBits
      /\ \A k \in 1..Len(new) :
           IF new[k].HostBits # bits THEN \E i \in 1..Len(groups) : new[k] = groups[i]
           ELSE \/ \E i \in 1..Len(groups) :
                     /\ groups[i].HostBits = bits
                     /\ new[k].entries = Append(groups[i].entries, entry)
                \/ /\ \A i \in 1..Len(groups) : groups[i].HostBits # bits
                   /\ new[k].entries = <<entry>>
  <2>1. Sorted(groups)
    BY DEF Keeps
  <2>2. Grown(new, groups, bits, entry)
    BY <1>1, <2>1, AddedToGroup
  <2> QED BY <2>2 DEF Grown
<1>3. e \in Added /\ bits \in Nat /\ e.table = table /\ e.key = network
  BY NetworkAssumption DEF Added
<1>4. PICK next : next = added'
  OBVIOUS
<1>5. added \in Seq(Added)
  BY DEF TypeOK
<1>6. /\ Len(added) \in Nat /\ Len(next) = Len(added) + 1
      /\ \A i \in 1..Len(added) : next[i] = added[i]
      /\ next[Len(added) + 1] = e
  BY <1>3, <1>4, <1>5
<1>7. \A i \in 1..Len(next) :
        next[i].table = table /\ next[i].key \in Networks
          /\ Version[next[i].key] = Version[network] =>
          \E k \in 1..Len(new) : new[k].HostBits = HostBits[next[i].key]
  <2> SUFFICES ASSUME NEW i \in 1..Len(next), next[i].table = table,
                      next[i].key \in Networks, Version[next[i].key] = Version[network]
               PROVE  \E k \in 1..Len(new) : new[k].HostBits = HostBits[next[i].key]
    OBVIOUS
  <2>1. CASE i = Len(added) + 1
    BY <1>2, <1>3, <1>6, <2>1
  <2>2. CASE i # Len(added) + 1
    <3>1. i \in 1..Len(added) /\ next[i] = added[i]
      BY <1>6, <2>2
    <3>2. PICK k \in 1..Len(groups) : groups[k].HostBits = HostBits[added[i].key]
      BY <3>1 DEF Keeps, Grouped
    <3> QED BY <1>2, <3>1, <3>2
  <2> QED BY <2>1, <2>2
<1>8. Grouped(new, table, Version[network])' <=>
        \A i \in 1..Len(next) :
          next[i].table = table /\ next[i].key \in Networks
            /\ Version[next[i].key] = Version[network] =>
            \E k \in 1..Len(new) : new[k].HostBits = HostBits[next[i].key]
  BY <1>4 DEF Grouped
<1>9. ASSUME NEW addr \in Addresses, Version[addr] = Version[network], NEW k \in 1..Len(new)
      PROVE  Answers(new[k], table, addr)'
  <2>1. PICK group \in PrefixGroup : group = new[k]
    BY <1>2
  <2>2. CASE group.HostBits # bits
    <3>1. PICK i \in 1..Len(groups) : group = groups[i]
      BY <1>2, <2>1, <2>2
    <3>2. Answers(group, table, addr)
      BY <1>9, <3>1 DEF Keeps
    <3>3. Answers(group, table, addr)'
      BY <1>3, <2>2, <3>2, AnswersStill
    <3> QED BY <2>1, <3>3
  <2>3. ASSUME group.HostBits = bits, NEW i \in 1..Len(groups), groups[i].HostBits = bits,
               group.entries = Append(groups[i].entries, entry)
        PROVE  Answers(group, table, addr)'
    <3>1. PICK old \in PrefixGroup : old = groups[i]
      BY GroupTypes
    <3>2. Answers(old, table, addr)
      BY <1>9, <3>1 DEF Keeps
    <3> QED BY <1>9, <2>3, <3>1, <3>2, AnswersAppended
  <2>4. ASSUME group.HostBits = bits, \A i \in 1..Len(groups) : groups[i].HostBits # bits,
               group.entries = <<entry>>
        PROVE  Answers(group, table, addr)'
    <3>1. PICK old : old = [HostBits |-> bits, entries |-> <<>>]
      OBVIOUS
    <3>2. old \in PrefixGroup /\ old.HostBits = bits /\ old.entries = <<>>
      BY <1>3, <3>1 DEF PrefixGroup
    <3>3. Holding(old, addr) = {}
      BY <3>2 DEF Holding
    <3>4. Alike(table, addr, bits) = {}
      <4> SUFFICES ASSUME NEW i \in Alike(table, addr, bits) PROVE FALSE
        OBVIOUS
      <4>1. /\ i \in 1..Len(added) /\ added[i].table = table /\ added[i].key \in Networks
            /\ Version[added[i].key] = Version[network] /\ HostBits[added[i].key] = bits
        BY <1>5, <1>9 DEF Alike, Candidates
      <4> QED BY <2>4, <4>1 DEF Keeps, Grouped
    <3>5. Answers(old, table, addr)
      BY <3>2, <3>3, <3>4 DEF Answers
    <3>6. group.entries = Append(old.entries, entry)
      BY <2>4, <3>2
    <3> QED BY <1>9, <2>4, <3>2, <3>5, <3>6, AnswersAppended
  <2>5. Answers(group, table, addr)' 
    BY <1>2, <2>1, <2>2, <2>3, <2>4
  <2> QED BY <2>1, <2>5
<1>10. Keeps(new, table, Version[network])'
  BY <1>2, <1>7, <1>8, <1>9 DEF Keeps, Sorted
<1> QED BY <1>1, <1>10

\* Any other table or family, and every one when an interface is added.
LEMMA KeepsStill ==
  ASSUME TypeOK, NEW e \in Added, added' = Append(added, e),
         NEW table \in Tables, NEW version \in Family,
         NEW groups \in Seq(PrefixGroup), Keeps(groups, table, version),
         ~(e.table = table /\ e.key \in Networks /\ Version[e.key] = version)
  PROVE  Keeps(groups, table, version)'
<1>1. PICK next : next = added'
  OBVIOUS
<1>2. added \in Seq(Added)
  BY DEF TypeOK
<1>3. /\ Len(added) \in Nat /\ Len(next) = Len(added) + 1
      /\ \A i \in 1..Len(added) : next[i] = added[i]
      /\ next[Len(added) + 1] = e
  BY <1>1, <1>2
<1>4. \A i \in 1..Len(next) :
        next[i].table = table /\ next[i].key \in Networks /\ Version[next[i].key] = version =>
          \E k \in 1..Len(groups) : groups[k].HostBits = HostBits[next[i].key]
  <2> SUFFICES ASSUME NEW i \in 1..Len(next), next[i].table = table,
                      next[i].key \in Networks, Version[next[i].key] = version
               PROVE  \E k \in 1..Len(groups) : groups[k].HostBits = HostBits[next[i].key]
    OBVIOUS
  <2>1. i \in 1..Len(added) /\ next[i] = added[i]
    BY <1>3
  <2> QED BY <2>1 DEF Keeps, Grouped
<1>5. Grouped(groups, table, version)' <=>
        \A i \in 1..Len(next) :
          next[i].table = table /\ next[i].key \in Networks /\ Version[next[i].key] = version =>
            \E k \in 1..Len(groups) : groups[k].HostBits = HostBits[next[i].key]
  BY <1>1 DEF Grouped
<1>6. ASSUME NEW addr \in Addresses, Version[addr] = version, NEW k \in 1..Len(groups)
      PROVE  Answers(groups[k], table, addr)'
  <2>1. PICK group \in PrefixGroup : group = groups[k]
    BY GroupTypes
  <2>2. Answers(group, table, addr)
    BY <1>6, <2>1 DEF Keeps
  <2>3. Answers(group, table, addr)'
    BY <1>6, <2>2, AnswersStill
  <2> QED BY <2>1, <2>3
<1> QED BY <1>4, <1>5, <1>6 DEF Keeps, Sorted

-----------------------------------------------------------------------------
(* Lookups.                                                                *)

\* Groups that answer for their host bits answer by the most specific network.
LEMMA LookupBest ==
  ASSUME TypeOK, NEW table \in Tables, NEW addr \in Addresses,
         NEW groups \in Seq(PrefixGroup), Keeps(groups, table, Version[addr])
  PROVE  /\ Candidates(table, addr) = {} => Lookup(groups, addr) = NoValue
         /\ \A i \in Candidates(table, addr) :
              Best(i, Candidates(table, addr)) => Lookup(groups, addr) = added[i].value
<1> DEFINE C == Candidates(table, addr)
           found == {k \in 1..Len(groups) : Holding(groups[k], addr) # {}}
<1>1. added \in Seq(Added) /\ C \subseteq 1..Len(added) /\ Len(added) \in Nat
  BY DEF TypeOK, Candidates
<1>2. /\ Len(groups) \in Nat /\ DOMAIN groups = 1..Len(groups)
      /\ \A k \in 1..Len(groups) : groups[k].HostBits \in Nat
      /\ \A k \in 1..Len(groups) : groups[k].entries \in Seq(Entry)
  BY GroupTypes
<1>3. \A k \in 1..Len(groups) :
        LET alike == {i \in C : HostBits[added[i].key] = groups[k].HostBits}
            holding == Holding(groups[k], addr)
        IN /\ alike = {} <=> holding = {}
           /\ \A i \in alike, h \in holding :
                (\A j \in alike : j <= i) /\ (\A j \in holding : j <= h) =>
                  groups[k].entries[h].value = added[i].value
  BY DEF Keeps, Answers, Alike
<1>4. C = {} => Lookup(groups, addr) = NoValue
  <2> SUFFICES ASSUME C = {} PROVE Lookup(groups, addr) = NoValue
    OBVIOUS
  <2>1. found = {}
    BY <1>3
  <2> QED BY <1>2, <2>1 DEF Lookup
<1>5. ASSUME NEW i \in C, Best(i, C) PROVE Lookup(groups, addr) = added[i].value
  <2>1. /\ i \in 1..Len(added) /\ added[i].table = table /\ added[i].key \in Networks
        /\ Version[added[i].key] = Version[addr]
        /\ \A j \in C : added[j].key \in Networks
    BY <1>1 DEF Candidates
  <2>2. \A j \in C : HostBits[added[j].key] \in Nat
    BY <2>1, NetworkAssumption
  <2>3. PICK k \in 1..Len(groups) : groups[k].HostBits = HostBits[added[i].key]
    BY <2>1 DEF Keeps, Grouped
  <2>4. k \in found
    BY <1>3, <2>3
  <2>5. PICK m : m = Least(found)
    OBVIOUS
  <2>6. m \in found /\ m <= k
    <3>1. found \in SUBSET Nat /\ found # {}
      <4>1. \A x \in found : x \in Nat
        BY <1>2
      <4> QED BY <2>4, <4>1
    <3> HIDE DEF found
    <3> QED BY <2>4, <2>5, <3>1, LeastIn
  <2>7. m = k
    <3>1. PICK j \in C : HostBits[added[j].key] = groups[m].HostBits
      BY <1>3, <2>6
    <3>2. HostBits[added[i].key] <= HostBits[added[j].key]
      BY <1>5, <2>2 DEF Best
    <3>3. ~(m < k)
      <4> SUFFICES ASSUME m < k PROVE FALSE
        OBVIOUS
      <4>1. groups[m].HostBits < groups[k].HostBits
        BY <1>2, <2>6 DEF Keeps, Sorted
      <4> QED BY <1>2, <2>2, <2>3, <2>6, <3>1, <3>2, <4>1
    <3> QED BY <1>2, <2>6, <3>3
  <2>8. PICK H : H = Holding(groups[k], addr)
    OBVIOUS
  <2>9. H \subseteq 1..Len(groups[k].entries) /\ Len(groups[k].entries) \in Nat /\ H # {}
    BY <1>2, <2>4, <2>8 DEF Holding
  <2>10. Greatest(H) \in H /\ \A j \in H : j <= Greatest(H)
    BY <2>9, GreatestIn
  <2>11. ASSUME NEW j \in C, HostBits[added[j].key] = groups[k].HostBits PROVE j <= i
    BY <1>1, <1>5, <2>2, <2>3, <2>11 DEF Best
  <2>12. groups[k].entries[Greatest(H)].value = added[i].value
    BY <1>3, <2>3, <2>8, <2>10, <2>11
  <2>13. Lookup(groups, addr) = groups[k].entries[Greatest(H)].value
    <3>1. found # {} /\ Least(found) = k
      BY <2>4, <2>5, <2>7
    <3>2. Lookup(groups, addr) =
            IF found = {} THEN NoValue
            ELSE groups[Least(found)].entries[Greatest(Holding(groups[Least(found)], addr))].value
      BY <1>2 DEF Lookup, LastHolding
    <3> QED BY <2>8, <3>1, <3>2
  <2> QED BY <2>12, <2>13
<1> QED BY <1>4, <1>5

-----------------------------------------------------------------------------
(* The invariant.                                                          *)

LEMMA InitHolds == Init => IInv
<1> SUFFICES ASSUME Init PROVE IInv
  OBVIOUS
<1>1. networks = <<>> /\ interfaces = <<>> /\ added = <<>>
  BY DEF Init
<1>2. TypeOK
  BY <1>1 DEF TypeOK
<1>3. ASSUME NEW table \in Tables, NEW version \in Family
      PROVE  Keeps(Network(table)[version], table, version)
  <2>1. Network(table)[version] = <<>>
    BY <1>1 DEF Network
  <2>2. Len(<<>>) = 0 /\ Len(added) = 0
    BY <1>1
  <2> QED BY <2>1, <2>2 DEF Keeps, Sorted, Grouped
<1>4. InterfaceLastAdded
  BY <1>1 DEF InterfaceLastAdded, LookupInterface
<1> QED BY <1>2, <1>3, <1>4 DEF IInv

\* The groups of a table, those of a missing one included.
LEMMA NetworkType ==
  ASSUME TypeOK, NEW table \in Tables
  PROVE  Network(table) \in NetworkTable
BY DEF TypeOK, Network, NetworkTable

\* Adding a network grows one family of one table, and no interface's answer.
LEMMA AddNetworkKeeps ==
  ASSUME IInv, NEW table \in Tables, NEW network \in Networks, NEW value \in Values,
         AddNetwork(table, network, value)
  PROVE  IInv'
<1> DEFINE e == [table |-> table, key |-> network, value |-> value]
<1> USE DEF IInv
<1>1. e \in Added /\ added' = Append(added, e) /\ added \in Seq(Added)
  BY DEF AddNetwork, Record, Added, TypeOK
<1>2. PICK map \in NetworkTable : map = Network(table)
  BY NetworkType
<1>3. Version[network] \in Family
  BY VersionAssumption
<1>4. PICK groups \in Seq(PrefixGroup) : groups = map[Version[network]]
  BY <1>2, <1>3 DEF NetworkTable
<1>5. Keeps(groups, table, Version[network])
  BY <1>2, <1>3, <1>4
<1>6. PICK new : new = WithNetwork(groups, network, value)
  OBVIOUS
<1>7. new \in Seq(PrefixGroup)
  <2>1. Grown(new, groups, HostBits[network], [network |-> network, value |-> value])
    BY <1>5, <1>6, AddedToGroup DEF Keeps
  <2> QED BY <2>1 DEF Grown
<1>8. PICK next : next = [map EXCEPT ![Version[network]] = new]
  OBVIOUS
<1>9. next \in NetworkTable /\ next[Version[network]] = new
      /\ \A version \in Family \ {Version[network]} : next[version] = map[version]
  BY <1>3, <1>7, <1>8 DEF NetworkTable
<1>10. networks' = [k \in DOMAIN networks \cup {table} |-> IF k = table THEN next ELSE networks[k]]
  BY <1>2, <1>4, <1>6, <1>8 DEF AddNetwork, Set
<1>11. interfaces' = interfaces
  BY DEF AddNetwork
<1>12. TypeOK'
  <2>1. added' \in Seq(Added)
    BY <1>1
  <2>2. DOMAIN networks' \subseteq Tables /\ \A k \in DOMAIN networks' : networks'[k] \in NetworkTable
    BY <1>9, <1>10 DEF TypeOK
  <2> QED BY <1>11, <2>1, <2>2 DEF TypeOK
<1>13. ASSUME NEW t \in Tables, NEW version \in Family
       PROVE  Keeps(Network(t)[version], t, version)'
  <2>1. PICK other \in Seq(PrefixGroup) : other = Network(t)[version]
    BY NetworkType DEF NetworkTable
  <2>2. Keeps(other, t, version)
    BY <2>1
  <2>3. CASE t = table /\ version = Version[network]
    <3>1. Network(t)[version]' = new
      BY <1>9, <1>10, <2>3 DEF Network
    <3>2. Keeps(new, table, Version[network])'
      <4>1. Keeps(WithNetwork(groups, network, value), table, Version[network])'
        BY <1>1, <1>5, KeepsAdded
      <4> QED BY <1>6, <4>1
    <3> QED BY <2>3, <3>1, <3>2
  <2>4. CASE ~(t = table /\ version = Version[network])
    <3>1. Network(t)[version]' = other
      <4>1. CASE t = table
        BY <1>2, <1>9, <1>10, <2>1, <2>4, <4>1 DEF Network
      <4>2. CASE t # table
        BY <1>10, <2>1, <4>2 DEF Network
      <4> QED BY <4>1, <4>2
    <3>2. ~(e.table = t /\ e.key \in Networks /\ Version[e.key] = version)
      BY <2>4
    <3>3. Keeps(other, t, version)'
      BY <1>1, <2>2, <3>2, KeepsStill
    <3> QED BY <3>1, <3>3
  <2> QED BY <2>3, <2>4
<1>14. InterfaceLastAdded'
  <2> SUFFICES ASSUME NEW t \in Tables, NEW ifname \in Interfaces
               PROVE  LookupInterface(t, ifname)' =
                        LET entries == {i \in DOMAIN added' :
                                          added'[i].table = t /\ added'[i].key = ifname}
                        IN IF entries = {} THEN NoValue ELSE added'[Greatest(entries)].value
    BY DEF InterfaceLastAdded
  <2> DEFINE E == {i \in DOMAIN added : added[i].table = t /\ added[i].key = ifname}
             E2 == {i \in DOMAIN added' : added'[i].table = t /\ added'[i].key = ifname}
  <2>1. LookupInterface(t, ifname) = IF E = {} THEN NoValue ELSE added[Greatest(E)].value
    BY DEF InterfaceLastAdded
  <2>2. LookupInterface(t, ifname)' = LookupInterface(t, ifname)
    BY <1>11 DEF LookupInterface
  <2>3. /\ Len(added) \in Nat /\ DOMAIN added = 1..Len(added) /\ DOMAIN added' = 1..(Len(added) + 1)
        /\ \A i \in 1..Len(added) : added'[i] = added[i]
        /\ added'[Len(added) + 1] = e
    BY <1>1
  <2>4. E2 = E /\ E \in SUBSET (1..Len(added))
    <3>1. e.key # ifname
      BY KeyAssumption
    <3> QED BY <2>3, <3>1
  <2>5. CASE E = {}
    BY <2>1, <2>2, <2>4, <2>5
  <2>6. CASE E # {}
    <3> HIDE DEF E, E2
    <3>1. Greatest(E) \in E
      BY <2>3, <2>4, <2>6, GreatestIn
    <3> QED BY <2>1, <2>2, <2>3, <2>4, <2>6, <3>1 DEF E2
  <2> QED BY <2>5, <2>6
<1> QED BY <1>12, <1>13, <1>14

\* Adding an interface replaces its answer, and leaves those of addresses.
LEMMA AddInterfaceKeeps ==
  ASSUME IInv, NEW table \in Tables, NEW ifname \in Interfaces, NEW value \in Values,
         AddInterface(table, ifname, value)
  PROVE  IInv'
<1> DEFINE e == [table |-> table, key |-> ifname, value |-> value]
           n == Len(added) + 1
<1> USE DEF IInv
<1>1. e \in Added /\ added' = Append(added, e) /\ added \in Seq(Added)
  BY DEF AddInterface, Record, Added, TypeOK
<1>2. networks' = networks
  BY DEF AddInterface
<1>3. PICK map : map = IF table \in DOMAIN interfaces THEN interfaces[table] ELSE <<>>
  OBVIOUS
<1>4. PICK next : next = [k \in DOMAIN map \cup {ifname} |-> IF k = ifname THEN value ELSE map[k]]
  OBVIOUS
<1>5. interfaces' =
        [k \in DOMAIN interfaces \cup {table} |-> IF k = table THEN next ELSE interfaces[k]]
  BY <1>3, <1>4 DEF AddInterface, WithInterface, Set
<1>6. map \in InterfaceTable
  <2>1. <<>> \in [{} -> Values] /\ {} \in SUBSET Interfaces
    OBVIOUS
  <2> QED BY <1>3, <2>1 DEF TypeOK, InterfaceTable
<1>7. next \in InterfaceTable
  <2>1. PICK names \in SUBSET Interfaces : map \in [names -> Values]
    BY <1>6 DEF InterfaceTable
  <2>2. names \cup {ifname} \in SUBSET Interfaces /\ next \in [names \cup {ifname} -> Values]
    BY <1>4, <2>1
  <2> QED BY <2>2 DEF InterfaceTable
<1>8. TypeOK'
  <2>1. added' \in Seq(Added)
    BY <1>1
  <2>2. /\ DOMAIN interfaces' \subseteq Tables
        /\ \A k \in DOMAIN interfaces' : interfaces'[k] \in InterfaceTable
    BY <1>5, <1>7 DEF TypeOK
  <2> QED BY <1>2, <2>1, <2>2 DEF TypeOK
<1>9. ASSUME NEW t \in Tables, NEW version \in Family
      PROVE  Keeps(Network(t)[version], t, version)'
  <2>1. PICK other \in Seq(PrefixGroup) : other = Network(t)[version]
    BY NetworkType DEF NetworkTable
  <2>2. Keeps(other, t, version)
    BY <2>1
  <2>3. Network(t)[version]' = other
    BY <1>2, <2>1 DEF Network
  <2>4. ~(e.table = t /\ e.key \in Networks /\ Version[e.key] = version)
    BY KeyAssumption
  <2>5. Keeps(other, t, version)'
    BY <1>1, <2>2, <2>4, KeepsStill
  <2> QED BY <2>3, <2>5
<1>10. InterfaceLastAdded'
  <2> SUFFICES ASSUME NEW t \in Tables, NEW name \in Interfaces
               PROVE  LookupInterface(t, name)' =
                        LET entries == {i \in DOMAIN added' :
                                          added'[i].table = t /\ added'[i].key = name}
                        IN IF entries = {} THEN NoValue ELSE added'[Greatest(entries)].value
    BY DEF InterfaceLastAdded
  <2> DEFINE E == {i \in DOMAIN added : added[i].table = t /\ added[i].key = name}
             E2 == {i \in DOMAIN added' : added'[i].table = t /\ added'[i].key = name}
  <2>1. LookupInterface(t, name) = IF E = {} THEN NoValue ELSE added[Greatest(E)].value
    BY DEF InterfaceLastAdded
  <2>2. /\ Len(added) \in Nat /\ DOMAIN added = 1..Len(added) /\ DOMAIN added' = 1..n
        /\ \A i \in 1..Len(added) : added'[i] = added[i]
        /\ added'[n] = e
    BY <1>1
  <2>3. E \in SUBSET (1..Len(added)) /\ E2 \in SUBSET (1..n)
    BY <2>2
  <2>4. CASE t = table /\ name = ifname
    <3>1. LookupInterface(t, name)' = value
      BY <1>4, <1>5, <2>4 DEF LookupInterface
    <3>2. n \in E2 /\ n \in Nat
      BY <2>2, <2>4
    <3> HIDE DEF E2
    <3>3. Greatest(E2) \in E2 /\ \A j \in E2 : j <= Greatest(E2)
      BY <2>3, <3>2, GreatestIn
    <3>4. Greatest(E2) = n
      <4>1. PICK g : g = Greatest(E2)
        OBVIOUS
      <4>2. g \in E2 /\ n <= g
        BY <3>2, <3>3, <4>1
      <4>3. g \in 1..n
        BY <2>3, <4>2
      <4> QED BY <3>2, <4>1, <4>2, <4>3
    <3>5. added'[n].value = value
      BY <2>2
    <3> QED BY <3>1, <3>2, <3>4, <3>5 DEF E2
  <2>5. CASE ~(t = table /\ name = ifname)
    <3>1. LookupInterface(t, name)' = LookupInterface(t, name)
      <4>1. CASE t = table
        BY <1>3, <1>4, <1>5, <2>5, <4>1 DEF LookupInterface
      <4>2. CASE t # table
        BY <1>5, <4>2 DEF LookupInterface
      <4> QED BY <4>1, <4>2
    <3>2. E2 = E
      BY <2>2, <2>5
    <3>3. CASE E = {}
      BY <2>1, <3>1, <3>2, <3>3
    <3>4. CASE E # {}
      <4> HIDE DEF E, E2
      <4>1. Greatest(E) \in E
        BY <2>2, <2>3, <3>4, GreatestIn
      <4> QED BY <2>1, <2>2, <2>3, <3>1, <3>2, <3>4, <4>1 DEF E2
    <3> QED BY <3>3, <3>4
  <2> QED BY <2>4, <2>5
<1> QED BY <1>8, <1>9, <1>10

\* A step that changes nothing keeps what is kept.
LEMMA StutterKeeps == IInv /\ UNCHANGED vars => IInv'
<1> SUFFICES ASSUME IInv, networks' = networks, interfaces' = interfaces, added' = added
             PROVE  IInv'
  BY DEF vars
<1>1. TypeOK'
  BY DEF IInv, TypeOK
<1>2. ASSUME NEW table \in Tables, NEW version \in Family
      PROVE  Keeps(Network(table)[version], table, version)'
  <2>1. PICK groups : groups = Network(table)[version]
    OBVIOUS
  <2>2. Keeps(groups, table, version)
    BY <2>1 DEF IInv
  <2>3. Network(table)[version]' = groups
    BY <2>1 DEF Network
  <2>4. ASSUME NEW k \in 1..Len(groups), NEW addr \in Addresses, Answers(groups[k], table, addr)
        PROVE  Answers(groups[k], table, addr)'
    <3>1. PICK group : group = groups[k]
      OBVIOUS
    <3>2. Answers(group, table, addr)'
      BY <2>4, <3>1 DEF Answers, Alike, Candidates, Holding
    <3> QED BY <3>1, <3>2
  <2>5. Grouped(groups, table, version)'
    BY <2>2 DEF Keeps, Grouped
  <2>6. Keeps(groups, table, version)'
    BY <2>2, <2>4, <2>5 DEF Keeps, Sorted
  <2> QED BY <2>3, <2>6
<1>3. InterfaceLastAdded'
  BY DEF IInv, InterfaceLastAdded, LookupInterface
<1> QED BY <1>1, <1>2, <1>3 DEF IInv

\* The groups of every table answer for their host bits, in every reachable state.
THEOREM RegistryInvariant == Spec => []IInv
<1>1. IInv /\ [Next]_vars => IInv'
  BY AddNetworkKeeps, AddInterfaceKeeps, StutterKeeps DEF Next
<1> QED BY InitHolds, <1>1, PTL DEF Spec

\* The tables and what was added have their types, whatever was added.
THEOREM RegistryTypes == Spec => []TypeOK
<1>1. IInv => TypeOK
  BY DEF IInv
<1> QED BY RegistryInvariant, <1>1, PTL

\* The groups of a table are sorted by host bits, so that the binary search of
\* prefixTable.Add always finds the group of a network or its place.
THEOREM SearchesSorted == Spec => []GroupsSorted
<1>1. IInv => GroupsSorted
  <2> SUFFICES ASSUME IInv, NEW table \in DOMAIN networks, NEW version \in Family
               PROVE  LET groups == networks[table][version] IN
                      \A i, j \in DOMAIN groups : i < j => groups[i].HostBits < groups[j].HostBits
    BY DEF GroupsSorted
  <2>1. table \in Tables /\ Network(table) = networks[table]
    BY DEF IInv, TypeOK, Network
  <2>2. PICK groups \in Seq(PrefixGroup) : groups = networks[table][version]
    BY <2>1, NetworkType DEF IInv, NetworkTable
  <2>3. Sorted(groups)
    BY <2>1, <2>2 DEF IInv, Keeps
  <2> QED BY <2>2, <2>3 DEF Sorted
<1> QED BY RegistryInvariant, <1>1, PTL

\* Whatever was added, an address is answered by the most specific network of
\* its table that holds it, the last added among equally specific ones.
THEOREM LooksUpMostSpecific == Spec => []MostSpecificLastAdded
<1>1. IInv => MostSpecificLastAdded
  <2> SUFFICES ASSUME IInv, NEW table \in Tables, NEW addr \in Addresses
               PROVE  LET candidates == Candidates(table, addr) IN
                      /\ candidates = {} => LookupNetwork(table, addr) = NoValue
                      /\ \A i \in candidates :
                           Best(i, candidates) => LookupNetwork(table, addr) = added[i].value
    BY DEF MostSpecificLastAdded
  <2>1. Version[addr] \in Family
    BY VersionAssumption
  <2>2. PICK groups \in Seq(PrefixGroup) : groups = Network(table)[Version[addr]]
    BY <2>1, NetworkType DEF IInv, NetworkTable
  <2>3. Keeps(groups, table, Version[addr])
    BY <2>1, <2>2 DEF IInv
  <2>4. LookupNetwork(table, addr) = Lookup(groups, addr)
    <3>1. CASE table \in DOMAIN networks
      BY <2>2, <3>1 DEF LookupNetwork, Network
    <3>2. CASE table \notin DOMAIN networks
      <4>1. groups = <<>>
        BY <2>1, <2>2, <3>2 DEF Network
      <4>2. Lookup(<<>>, addr) = NoValue
        BY DEF Lookup
      <4> QED BY <3>2, <4>1, <4>2 DEF LookupNetwork
    <3> QED BY <3>1, <3>2
  <2> QED BY <2>3, <2>4, LookupBest DEF IInv
<1> QED BY RegistryInvariant, <1>1, PTL

\* An interface is answered by the entry added last under its exact name.
THEOREM LooksUpLastInterface == Spec => []InterfaceLastAdded
<1>1. IInv => InterfaceLastAdded
  BY DEF IInv
<1> QED BY RegistryInvariant, <1>1, PTL

=============================================================================
