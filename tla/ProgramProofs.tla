--------------------------- MODULE ProgramProofs ---------------------------
(***************************************************************************)
(* Proofs about the build of a program (modules Builder, BuilderEntries):  *)
(* the numbers of its rules, the targets of its jumps, its arenas and what *)
(* the registry is told; and about a check of a packet on top of them      *)
(* (module VM): that it goes forward only, and that a build and a check    *)
(* together do what the script means (module Ruleset).  For scripts of any *)
(* length over any lines, any width of a rule number and either policy.    *)
(***************************************************************************)
EXTENDS VM, BuilderEntries, TLAPS, SequenceTheorems, FiniteSetTheorems, NaturalsInduction

-----------------------------------------------------------------------------
(* DropComments.                                                           *)

\* An interval from one has as many elements as its end says.
LEMMA IntervalSize ==
  ASSUME NEW n \in Nat
  PROVE  IsFiniteSet(1..n) /\ Cardinality(1..n) = n
BY FS_Interval

\* The rank of the kept options up to a position is a number, and one position
\* adds at most one to it.
LEMMA RankSteps ==
  ASSUME NEW options \in Seq(Token), NEW i \in Nat
  PROVE  /\ Rank(options, i) \in Nat
         /\ Rank(options, 0) = 0
         /\ Rank(options, i + 1) = Rank(options, i)
              + (IF i + 1 \in Kept(options) THEN 1 ELSE 0)
         /\ Rank(options, Len(options)) = Cardinality(Kept(options))
         /\ Cardinality(Kept(options)) \in Nat
         /\ Cardinality(Kept(options)) <= Len(options)
<1> DEFINE K == Kept(options)
           Upto(n) == {k \in K : k <= n}
<1>1. Len(options) \in Nat /\ K \subseteq 1..Len(options)
  BY LenProperties DEF Kept
<1>2. IsFiniteSet(1..Len(options)) /\ Cardinality(1..Len(options)) = Len(options)
  BY <1>1, IntervalSize
<1>3. IsFiniteSet(K) /\ Cardinality(K) <= Len(options)
  BY <1>1, <1>2, FS_Subset
<1>4. \A n \in Nat : IsFiniteSet(Upto(n)) /\ Cardinality(Upto(n)) \in Nat
  <2> TAKE n \in Nat
  <2>1. Upto(n) \in SUBSET K
    OBVIOUS
  <2>2. IsFiniteSet(Upto(n))
    BY <1>3, <2>1, FS_Subset
  <2> QED
    BY <2>2, FS_CardinalityType
<1>5. Upto(0) = {}
  BY <1>1
<1>6. Upto(i + 1) = IF i + 1 \in K THEN Upto(i) \cup {i + 1} ELSE Upto(i)
  BY <1>1
<1>7. Cardinality(Upto(i + 1)) = Cardinality(Upto(i)) + (IF i + 1 \in K THEN 1 ELSE 0)
  <2> HIDE DEF Upto, K
  <2>1. CASE i + 1 \in K
    <3>1. i + 1 \notin Upto(i)
      BY DEF Upto
    <3>2. Cardinality(Upto(i) \cup {i + 1}) = Cardinality(Upto(i)) + 1
      BY <1>4, <3>1, FS_AddElement
    <3> QED
      BY <1>4, <1>6, <2>1, <3>2
  <2>2. CASE i + 1 \notin K
    BY <1>4, <1>6, <2>2
  <2> QED
    BY <2>1, <2>2
<1>8. Upto(Len(options)) = K
  BY <1>1
<1> QED
  BY <1>1, <1>3, <1>4, <1>5, <1>7, <1>8, FS_EmptySet, FS_CardinalityType DEF Rank

\* Every rank up to the number of kept options is that of a kept option.
LEMMA RankTaken ==
  ASSUME NEW options \in Seq(Token), NEW j \in 1..Cardinality(Kept(options))
  PROVE  \E i \in Kept(options) : Rank(options, i) = j
<1> DEFINE S == {n \in Nat : Rank(options, n) >= j}
<1>1. Len(options) \in Nat
  BY LenProperties
<1>2. Len(options) \in S
  BY <1>1, RankSteps
<1>3. PICK m \in S : \A k \in S : ~(k < m)
  <2>1. S \subseteq Nat /\ S # {}
    BY <1>2
  <2>2. \E m \in S : \A k \in S : <<k, m>> \notin OpToRel(<, Nat)
    BY <2>1, NatLessThanWellFounded, WFMin
  <2> QED
    BY <2>1, <2>2 DEF OpToRel
<1>4. Rank(options, 0) = 0 /\ j >= 1
  BY RankSteps
<1>5. m # 0
  BY <1>3, <1>4
<1>6. m - 1 \in Nat /\ m - 1 \notin S
  BY <1>3, <1>5
<1>7. Rank(options, m - 1) \in Nat /\ Rank(options, m) = Rank(options, m - 1)
                                     + (IF m \in Kept(options) THEN 1 ELSE 0)
  <2>1. (m - 1) + 1 = m
    BY <1>6
  <2> QED
    BY <1>6, <2>1, RankSteps
<1>8. Rank(options, m) >= j /\ ~(Rank(options, m - 1) >= j)
  BY <1>3, <1>6
<1> QED
  BY <1>7, <1>8

\* Dropping the comments that decide nothing leaves a sequence of options.
LEMMA DropCommentsType ==
  ASSUME NEW options \in Seq(Token)
  PROVE  DropComments(options) \in Seq(Token)
<1> DEFINE n == Cardinality(Kept(options))
           pick(j) == CHOOSE i \in Kept(options) : Rank(options, i) = j
<1>1. n \in Nat
  BY RankSteps
<1>2. \A j \in 1..n : options[pick(j)] \in Token
  <2> TAKE j \in 1..n
  <2>1. pick(j) \in Kept(options)
    BY RankTaken
  <2>2. pick(j) \in 1..Len(options)
    BY <2>1 DEF Kept
  <2> QED
    BY <2>2, ElementOfSeq
<1> HIDE DEF n, pick
<1>3. [j \in 1..n |-> options[pick(j)]] \in Seq(Token)
  BY <1>1, <1>2
<1> QED
  BY <1>3 DEF DropComments, n, pick

-----------------------------------------------------------------------------
(* The operators of the program.                                           *)

\* The search of program.At finds an index, every rule before it numbered
\* below and the rule at it, when there is one, not.
LEMMA AtFinds ==
  ASSUME NEW want \in Nat, numbers \in Seq(1..MaxNumber), MaxNumber \in Nat
  PROVE  /\ At(want) \in 1..(Len(numbers) + 1)
         /\ At(want) <= Len(numbers) => numbers[At(want)] >= want
         /\ \A j \in 1..(At(want) - 1) : numbers[j] < want
<1> DEFINE Found(i) == /\ i <= Len(numbers) => numbers[i] >= want
                       /\ \A j \in 1..(i - 1) : numbers[j] < want
           S == {i \in Nat : i \in 1..(Len(numbers) + 1)
                               /\ (i <= Len(numbers) => numbers[i] >= want)}
<1>1. Len(numbers) \in Nat /\ \A i \in 1..Len(numbers) : numbers[i] \in Nat
  BY ElementOfSeq, LenProperties
<1>2. S \subseteq Nat /\ Len(numbers) + 1 \in S
  BY <1>1
<1>3. PICK m \in S : \A k \in S : ~(k < m)
  <2>1. \E m \in S : \A k \in S : <<k, m>> \notin OpToRel(<, Nat)
    BY <1>2, NatLessThanWellFounded, WFMin
  <2> QED
    BY <1>2, <2>1 DEF OpToRel
<1>4. m \in 1..(Len(numbers) + 1) /\ Found(m)
  BY <1>1, <1>3
<1>5. \E i \in 1..(Len(numbers) + 1) : Found(i)
  BY <1>4
<1>6. At(want) = CHOOSE i \in 1..(Len(numbers) + 1) : Found(i)
  BY DEF At
<1> HIDE DEF Found
<1>7. At(want) \in 1..(Len(numbers) + 1) /\ Found(At(want))
  BY <1>5, <1>6
<1> QED
  BY <1>7 DEF Found

\* A set of rules that is not empty has a lowest one.
LEMMA LowestIsOne ==
  ASSUME NEW n \in Nat, NEW S \in SUBSET (1..n), S # {}
  PROVE  Lowest(S) \in S /\ \A i \in S : Lowest(S) <= i
<1>1. S \subseteq Nat /\ S # {}
  OBVIOUS
<1>2. PICK m \in S : \A k \in S : <<k, m>> \notin OpToRel(<, Nat)
  BY <1>1, NatLessThanWellFounded, WFMin
<1>3. m \in S /\ \A k \in S : ~(k < m)
  BY <1>1, <1>2 DEF OpToRel
<1>4. \E k \in S : \A j \in S : k <= j
  BY <1>1, <1>3
<1> QED
  BY <1>4 DEF Lowest

\* Dropping what the callbacks of a line appended leaves the arenas as they were.
LEMMA DroppedIsNothing ==
  ASSUME TypeOK, NEW line \in Line
  PROVE  /\ Dropped(Pushed(line)) = arenas
         /\ Dropped(arenas) = arenas
<1>1. /\ arenas \in [Arena -> Seq(Token)]
      /\ start = [a \in Arena |-> Len(arenas[a])]
      /\ line.body \in [Arena -> Seq(Token)]
  BY DEF TypeOK, Line
<1>2. \A a \in Arena : SubSeq(arenas[a] \o line.body[a], 1, start[a]) = arenas[a]
  <2> TAKE a \in Arena
  <2> DEFINE s == arenas[a]
             t == line.body[a]
             u == SubSeq(s \o t, 1, Len(s))
  <2>1. s \in Seq(Token) /\ t \in Seq(Token) /\ start[a] = Len(s)
    BY <1>1
  <2> HIDE DEF s, t
  <2>2. Len(s) \in Nat /\ Len(t) \in Nat
    BY <2>1, LenProperties
  <2>3. /\ s \o t \in Seq(Token)
        /\ Len(s \o t) = Len(s) + Len(t)
        /\ \A i \in 1..(Len(s) + Len(t)) : (s \o t)[i] = IF i <= Len(s) THEN s[i] ELSE t[i - Len(s)]
    BY <2>1, ConcatProperties
  <2>4. \A i \in 1..Len(s) : (s \o t)[i] = s[i] /\ (s \o t)[i] \in Token
    BY <2>1, <2>2, <2>3, ElementOfSeq
  <2>5. u \in Seq(Token) /\ Len(u) = Len(s) /\ \A i \in 1..Len(s) : u[i] = (s \o t)[i]
    BY <2>2, <2>4, SubSeqProperties
  <2>6. u = s
    <3> HIDE DEF u
    <3> QED
      BY <2>1, <2>4, <2>5, SeqEqual
  <2> QED
    BY <2>1, <2>6 DEF s, t
<1>3. \A a \in Arena : SubSeq(arenas[a], 1, start[a]) = arenas[a]
  BY <1>1, SubSeqFull
<1> QED
  BY <1>1, <1>2, <1>3 DEF Dropped, Pushed

\* The arenas a rule closes over are arenas.
LEMMA ClosedType ==
  ASSUME TypeOK, NEW line \in Line
  PROVE  Closed(Pushed(line)) \in [Arena -> Seq(Token)]
<1> DEFINE o == Pushed(line)["options"]
           n == start["options"]
           head == SubSeq(o, 1, n)
           tail == SubSeq(o, n + 1, Len(o))
<1>1. "options" \in Arena
  BY DEF Arena
<1>2. Pushed(line) \in [Arena -> Seq(Token)]
  <2>1. arenas \in [Arena -> Seq(Token)] /\ line.body \in [Arena -> Seq(Token)]
    BY DEF TypeOK, Line
  <2>2. \A a \in Arena : arenas[a] \o line.body[a] \in Seq(Token)
    BY <2>1, ConcatProperties
  <2> QED
    BY <2>2 DEF Pushed
<1>3. o \in Seq(Token) /\ Len(o) \in Nat
  BY <1>1, <1>2, LenProperties
<1>4. n \in 0..Len(o)
  <2>1. n = Len(arenas["options"]) /\ arenas["options"] \in Seq(Token)
        /\ line.body["options"] \in Seq(Token)
    BY <1>1 DEF TypeOK, Line
  <2>2. o = arenas["options"] \o line.body["options"]
    BY <1>1 DEF Pushed
  <2>3. Len(o) = n + Len(line.body["options"]) /\ n \in Nat
        /\ Len(line.body["options"]) \in Nat
    BY <2>1, <2>2, ConcatProperties, LenProperties
  <2> HIDE DEF o, n
  <2> QED
    BY <2>3
<1> HIDE DEF o, n
<1>5. head \in Seq(Token) /\ tail \in Seq(Token)
  <2>1. \A i \in 1..Len(o) : o[i] \in Token
    BY <1>3, ElementOfSeq
  <2>2. \A i \in 1..n : o[i] \in Token
    BY <1>3, <1>4, <2>1
  <2>3. \A i \in (n + 1)..Len(o) : o[i] \in Token
    BY <1>3, <1>4, <2>1
  <2> QED
    BY <1>3, <1>4, <2>2, <2>3, SubSeqProperties
<1> HIDE DEF head, tail
<1>6. head \o DropComments(tail) \in Seq(Token)
  BY <1>5, DropCommentsType, ConcatProperties
<1>7. Closed(Pushed(line)) = [Pushed(line) EXCEPT !["options"] = head \o DropComments(tail)]
  BY <1>1, <1>2 DEF Closed, head, tail, o, n
<1> QED
  BY <1>1, <1>2, <1>6, <1>7

\* Linking rules changes jumps and nothing else.
LEMMA LinkedType ==
  ASSUME rules \in Seq(Rule),
         NEW target, \A idx \in DOMAIN target : target[idx] \in Nat
  PROVE  /\ Linked(target) \in Seq(Rule)
         /\ Len(Linked(target)) = Len(rules)
         /\ \A idx \in 1..Len(rules) :
              /\ Linked(target)[idx].kind = rules[idx].kind
              /\ Linked(target)[idx].jump = IF idx \in DOMAIN target THEN target[idx]
                                                                    ELSE rules[idx].jump
<1> DEFINE new(idx) == IF idx \in DOMAIN target
                       THEN [rules[idx] EXCEPT !.jump = target[idx]] ELSE rules[idx]
<1>1. Len(rules) \in Nat /\ \A idx \in 1..Len(rules) : rules[idx] \in Rule
  BY LenProperties, ElementOfSeq
<1>2. \A idx \in 1..Len(rules) :
        /\ new(idx) \in Rule
        /\ new(idx).kind = rules[idx].kind
        /\ new(idx).jump = IF idx \in DOMAIN target THEN target[idx] ELSE rules[idx].jump
  BY <1>1 DEF Rule
<1>3. Linked(target) = [idx \in 1..Len(rules) |-> new(idx)]
  BY DEF Linked
<1> HIDE DEF new
<1> QED
  BY <1>1, <1>2, <1>3

-----------------------------------------------------------------------------
(* The inductive invariant.                                                *)

\* A jump that waits for its number or its label still falls through, and is
\* the jump of a skipto of that kind: what keeps a link from being made twice.
JumpsWait ==
  /\ \A idx \in numberJumps :
       /\ IsSkipTo(Action(idx), "number")
       /\ status = "reading" => rules[idx].jump = idx + 1
  /\ \A l \in Labels : \A idx \in pendingLabels[l] :
       /\ IsSkipTo(Action(idx), "label") /\ Action(idx).label = l
       /\ rules[idx].jump = idx + 1

IInv ==
  /\ TypeOK
  /\ NumbersIncrease
  /\ JumpsForward
  /\ JumpsWait
  /\ numbers = <<>> => number = 1

LEMMA InitIInv == Init => IInv
<1> SUFFICES ASSUME Init PROVE IInv
  OBVIOUS
<1> USE ConstantsAssumption DEF Init
<1>1. TypeOK
  <2>1. NoFailure \in [line : Nat, kind : FailureKind]
    BY DEF NoFailure, FailureKind
  <2>2. arenas \in [Arena -> Seq(Token)] /\ start = [a \in Arena |-> Len(arenas[a])]
    OBVIOUS
  <2>3. 1 \in 0..MaxNumber
    OBVIOUS
  <2> QED
    BY <2>1, <2>2, <2>3 DEF TypeOK
<1>2. NumbersIncrease /\ JumpsForward /\ JumpsWait
  BY DEF NumbersIncrease, JumpsForward, JumpsWait
<1> QED
  BY <1>1, <1>2 DEF IInv

\* A line appended to the script keeps the records where they are.
LEMMA ReadKeeps ==
  ASSUME TypeOK, NEW line \in Lines, Read(line)
  PROVE  /\ script' \in Seq(Lines) /\ Len(script') = Len(script) + 1
         /\ Len(script) \in Nat /\ line \in Line
         /\ script'[Len(script')] = line
         /\ \A i \in 1..Len(script) : script'[i] = script[i]
<1>1. script \in Seq(Lines) /\ script' = Append(script, line)
  BY DEF TypeOK, Read
<1> QED
  BY <1>1, ConstantsAssumption, AppendProperties, LenProperties

\* A failed line leaves the invariant in place.
LEMMA FailKeeps ==
  ASSUME IInv, NEW line \in Lines, Read(line), NEW kind \in FailureKind, Fail(kind),
         entries' \in Seq(Entry)
  PROVE  IInv'
<1> USE DEF IInv
<1>1. /\ script' \in Seq(Lines) /\ Len(script') = Len(script) + 1 /\ Len(script) \in Nat
      /\ \A i \in 1..Len(script) : script'[i] = script[i]
  BY ReadKeeps
<1>2. /\ status' = "failed" /\ failure' = [line |-> Len(script'), kind |-> kind]
      /\ UNCHANGED <<arenas, rules, numbers, records, start, number, labels,
                     numberJumps, pendingLabels, tableTypes>>
  BY DEF Fail, program, linking
<1>3. failure' \in [line : Nat, kind : FailureKind]
  BY <1>1, <1>2
<1>4. \A idx \in 1..Len(records) : records[idx] \in 1..Len(script')
  BY <1>1 DEF TypeOK
<1>5. TypeOK'
  BY <1>1, <1>2, <1>3, <1>4 DEF TypeOK
<1>6. \A idx \in 1..Len(rules) : Action(idx)' = Action(idx)
  BY <1>1, <1>2 DEF TypeOK, Action
<1>7. JumpsWait'
  <2>1. \A idx \in numberJumps' : IsSkipTo(Action(idx), "number")'
    BY <1>2, <1>6 DEF TypeOK, JumpsWait, IsSkipTo, IsRule
  <2>2. \A l \in Labels : \A idx \in pendingLabels'[l] :
          /\ (IsSkipTo(Action(idx), "label") /\ Action(idx).label = l)'
          /\ rules'[idx].jump = idx + 1
    BY <1>2, <1>6, SMTT(20) DEF TypeOK, JumpsWait, IsSkipTo, IsRule
  <2> QED
    BY <1>2, <2>1, <2>2 DEF JumpsWait
<1>8. NumbersIncrease' /\ JumpsForward' /\ (numbers = <<>> => number = 1)'
  BY <1>2 DEF NumbersIncrease, JumpsForward
<1> QED
  BY <1>5, <1>7, <1>8

\* The updates of an add are entries, whatever the type of the table.
LEMMA UpdatesType ==
  ASSUME NEW line \in Line, NEW type
  PROVE  /\ Updates(line, type) \in Seq(Entry)
         /\ Len(Updates(line, type)) \in Nat
         /\ \A n \in 0..(Len(Updates(line, type)) - 1) :
              SubSeq(Updates(line, type), 1, n) \in Seq(Entry)
<1> DEFINE entry(family, key) == [table |-> line.table, family |-> family, key |-> key,
                                  value |-> line.value.text]
           four == [i \in 1..Len(line.nets4) |-> entry("v4", line.nets4[i])]
           six == [i \in 1..Len(line.nets6) |-> entry("v6", line.nets6[i])]
           updates == Updates(line, type)
<1>1. /\ line.nets4 \in Seq(Keys) /\ line.nets6 \in Seq(Keys)
      /\ line.key \in Keys /\ line.table \in Tables /\ line.value.text \in Values
  BY DEF Line
<1>2. \A family \in {"v4", "v6", "iface"}, key \in Keys : entry(family, key) \in Entry
  BY <1>1 DEF Entry
<1>3. four \in Seq(Entry) /\ six \in Seq(Entry)
  <2>1. /\ Len(line.nets4) \in Nat /\ Len(line.nets6) \in Nat
        /\ \A i \in 1..Len(line.nets4) : entry("v4", line.nets4[i]) \in Entry
        /\ \A i \in 1..Len(line.nets6) : entry("v6", line.nets6[i]) \in Entry
    BY <1>1, <1>2, ElementOfSeq, LenProperties
  <2> HIDE DEF entry
  <2> QED
    BY <2>1
<1>4. four \o six \in Seq(Entry)
  BY <1>3, ConcatProperties
<1>5. <<entry("iface", line.key)>> \in Seq(Entry)
  <2>1. entry("iface", line.key) \in Entry
    BY <1>1, <1>2
  <2> HIDE DEF entry
  <2> QED
    BY <2>1
<1>6. updates \in Seq(Entry)
  BY <1>4, <1>5 DEF Updates
<1> HIDE DEF updates
<1>7. Len(updates) \in Nat /\ \A i \in 1..Len(updates) : updates[i] \in Entry
  BY <1>6, LenProperties, ElementOfSeq
<1>8. \A n \in 0..(Len(updates) - 1) : SubSeq(updates, 1, n) \in Seq(Entry)
  <2> TAKE n \in 0..(Len(updates) - 1)
  <2>1. 1 \in Int /\ n \in Int /\ \A i \in 1..n : updates[i] \in Entry
    BY <1>7
  <2> QED
    BY <2>1, SubSeqProperties
<1> QED
  BY <1>6, <1>7, <1>8 DEF updates

\* A line that is no rule and links nothing leaves the invariant in place.
LEMMA OtherKeeps ==
  ASSUME IInv, NEW line \in Lines, ReadOther(line), GoOn,
         UNCHANGED <<rules, linking>>,
         tableTypes' \in [Tables -> {"unset", "addr", "iface"}], entries' \in Seq(Entry)
  PROVE  IInv'
<1> USE DEF IInv
<1>1. /\ script' \in Seq(Lines) /\ Len(script') = Len(script) + 1 /\ Len(script) \in Nat
      /\ line \in Line /\ \A i \in 1..Len(script) : script'[i] = script[i]
  BY ReadKeeps DEF ReadOther
<1>2. UNCHANGED <<arenas, rules, numbers, records, start, number, status, failure, labels,
                  numberJumps, pendingLabels>>
  BY <1>1, DroppedIsNothing DEF ReadOther, GoOn, linking
<1>3. \A idx \in 1..Len(records) : records[idx] \in 1..Len(script')
  BY <1>1 DEF TypeOK
<1>4. TypeOK'
  BY <1>1, <1>2, <1>3 DEF TypeOK
<1>5. \A idx \in 1..Len(rules) : Action(idx)' = Action(idx)
  BY <1>1, <1>2 DEF TypeOK, Action
<1>6. JumpsWait'
  <2>1. \A idx \in numberJumps' :
          IsSkipTo(Action(idx), "number")' /\ (status' = "reading" => rules'[idx].jump = idx + 1)
    BY <1>2, <1>5 DEF TypeOK, JumpsWait, IsSkipTo, IsRule
  <2>2. \A l \in Labels : \A idx \in pendingLabels'[l] :
          /\ (IsSkipTo(Action(idx), "label") /\ Action(idx).label = l)'
          /\ rules'[idx].jump = idx + 1
    BY <1>2, <1>5 DEF TypeOK, JumpsWait, IsSkipTo, IsRule
  <2> QED
    BY <1>2, <2>1, <2>2 DEF JumpsWait
<1>7. NumbersIncrease' /\ JumpsForward' /\ (numbers = <<>> => number = 1)'
  BY <1>2 DEF NumbersIncrease, JumpsForward
<1> QED
  BY <1>4, <1>6, <1>7

\* A label links the jumps waiting for it, and those only, past the last rule.
LEMMA LabelKeeps ==
  ASSUME IInv, NEW line \in Lines, Label(line)
  PROVE  IInv'
<1> USE DEF IInv
<1> DEFINE idxs == pendingLabels[line.label]
           target == [idx \in idxs |-> Len(rules) + 1]
<1>1. /\ script' \in Seq(Lines) /\ Len(script') = Len(script) + 1 /\ Len(script) \in Nat
      /\ line \in Line /\ \A i \in 1..Len(script) : script'[i] = script[i]
  BY ReadKeeps DEF Label, ReadOther
<1>2. /\ UNCHANGED <<arenas, numbers, records, start, number, status, failure,
                     numberJumps, tableTypes, entries>>
      /\ labels' = [labels EXCEPT ![line.label] = Len(rules) + 1]
      /\ rules' = Linked(target)
      /\ pendingLabels' = [pendingLabels EXCEPT ![line.label] = {}]
  BY <1>1, DroppedIsNothing DEF Label, ReadOther, GoOn, tables, Delivered
<1>3. /\ line.label \in Labels /\ rules \in Seq(Rule) /\ Len(rules) \in Nat
      /\ pendingLabels \in [Labels -> SUBSET (1..Len(rules))]
  BY <1>1, LenProperties DEF TypeOK, Line
<1>4. idxs \in SUBSET (1..Len(rules))
  BY <1>3
<1>5. /\ rules' \in Seq(Rule) /\ Len(rules') = Len(rules)
      /\ \A idx \in 1..Len(rules) :
           /\ rules'[idx].kind = rules[idx].kind
           /\ rules'[idx].jump = IF idx \in idxs THEN Len(rules) + 1 ELSE rules[idx].jump
  <2>1. DOMAIN target = idxs /\ \A idx \in idxs : target[idx] = Len(rules) + 1
    OBVIOUS
  <2> HIDE DEF idxs, target
  <2>2. /\ Linked(target) \in Seq(Rule)
        /\ Len(Linked(target)) = Len(rules)
        /\ \A idx \in 1..Len(rules) :
             /\ Linked(target)[idx].kind = rules[idx].kind
             /\ Linked(target)[idx].jump = IF idx \in idxs THEN target[idx]
                                                           ELSE rules[idx].jump
    BY <1>3, <2>1, LinkedType
  <2> QED
    BY <1>2, <2>1, <2>2
<1>6. \A idx \in 1..Len(records) : records[idx] \in 1..Len(script')
  BY <1>1 DEF TypeOK
<1>7. /\ labels' \in [Labels -> Nat]
      /\ pendingLabels' \in [Labels -> SUBSET (1..Len(rules'))]
  BY <1>2, <1>3, <1>5 DEF TypeOK
<1>8. TypeOK'
  BY <1>1, <1>2, <1>5, <1>6, <1>7 DEF TypeOK
<1>9. \A idx \in 1..Len(rules) : Action(idx)' = Action(idx)
  BY <1>1, <1>2 DEF TypeOK, Action
<1>10. JumpsWait'
  <2>1. ASSUME NEW idx \in numberJumps
        PROVE  /\ IsSkipTo(Action(idx), "number")'
               /\ status' = "reading" => rules'[idx].jump = idx + 1
    <3>1. idx \in 1..Len(rules) /\ IsSkipTo(Action(idx), "number")
      BY DEF TypeOK, JumpsWait
    <3>2. idx \notin idxs
      BY <1>3, <3>1 DEF JumpsWait, IsSkipTo
    <3> QED
      BY <1>2, <1>5, <1>9, <3>1, <3>2 DEF JumpsWait, IsSkipTo, IsRule
  <2>2. ASSUME NEW l \in Labels, NEW idx \in pendingLabels'[l]
        PROVE  /\ (IsSkipTo(Action(idx), "label") /\ Action(idx).label = l)'
               /\ rules'[idx].jump = idx + 1
    <3>1. l # line.label /\ idx \in pendingLabels[l] /\ idx \in 1..Len(rules)
      BY <1>2, <1>3
    <3>2. Action(idx).label = l /\ rules[idx].jump = idx + 1
      BY <3>1 DEF JumpsWait
    <3>3. idx \notin idxs
      BY <1>3, <3>1, <3>2 DEF JumpsWait
    <3> QED
      BY <1>5, <1>9, <3>1, <3>2, <3>3 DEF JumpsWait, IsSkipTo, IsRule
  <2> QED
    BY <1>2, <2>1, <2>2 DEF JumpsWait
<1>11. JumpsForward'
  BY <1>3, <1>4, <1>5 DEF JumpsForward
<1>12. NumbersIncrease' /\ (numbers = <<>> => number = 1)'
  BY <1>2 DEF NumbersIncrease
<1> QED
  BY <1>8, <1>10, <1>11, <1>12

\* A rule added is numbered past the rules before it, and the jump of a skipto
\* falls through to the rule after it.
LEMMA AddKeeps ==
  ASSUME IInv, NEW line \in Lines, Add(line)
  PROVE  IInv'
<1> USE DEF IInv
<1>0. PICK idx \in Nat : idx = Len(rules) + 1
  BY LenProperties DEF TypeOK
<1> DEFINE closed == Closed(Pushed(line))
           new == ClosedRule(line, closed)
           num == RuleNumber(line)
<1>1. /\ script' \in Seq(Lines) /\ Len(script') = Len(script) + 1 /\ Len(script) \in Nat
      /\ line \in Line /\ \A i \in 1..Len(script) : script'[i] = script[i]
      /\ script'[Len(script')] = line
  BY ReadKeeps DEF Add
<1>2. /\ UNCHANGED <<status, failure, labels, tableTypes, entries>>
      /\ arenas' = closed /\ start' = [a \in Arena |-> Len(closed[a])]
      /\ rules' = Append(rules, new)
      /\ numbers' = Append(numbers, num)
      /\ records' = Append(records, Len(script'))
      /\ number' = (num + 1) % (MaxNumber + 1)
      /\ numberJumps' = IF IsSkipTo(line, "number") THEN numberJumps \cup {idx}
                                                    ELSE numberJumps
      /\ pendingLabels' = IF IsSkipTo(line, "label")
                          THEN [pendingLabels EXCEPT ![line.label] = @ \cup {idx}]
                          ELSE pendingLabels
      /\ IsRule(line) /\ ~OutOfOrder(line)
  BY <1>0 DEF Add, GoOn, Mark, tables
<1>3. closed \in [Arena -> Seq(Token)]
  BY <1>1, ClosedType
<1>4. /\ rules \in Seq(Rule) /\ Len(rules) \in Nat /\ idx = Len(rules) + 1
      /\ 1..idx = 1..Len(rules) \cup {idx}
      /\ numbers \in Seq(1..MaxNumber) /\ records \in Seq(Nat)
      /\ Len(numbers) = Len(rules) /\ Len(records) = Len(rules)
      /\ \A a \in Arena : start[a] \in Nat
  BY <1>0, LenProperties DEF TypeOK
<1>5. new \in Rule
  <2>1. \A a \in Arena : Len(closed[a]) \in Nat
    BY <1>3, LenProperties
  <2>2. [a \in Arena |-> [start |-> start[a], end |-> Len(closed[a])]] \in [Arena -> Span]
    BY <1>4, <2>1 DEF Span
  <2>3. line.action \in ActionKind
    BY <1>1 DEF Line
  <2> QED
    BY <1>4, <2>2, <2>3 DEF ClosedRule, Rule
<1>6. /\ num \in 1..MaxNumber
      /\ \A i \in 1..Len(numbers) : numbers[i] < num
  <2>1. line.num \in 0..MaxNumber /\ number \in 0..MaxNumber /\ MaxNumber \in Nat \ {0}
    BY <1>1, ConstantsAssumption DEF Line, TypeOK
  <2>2. CASE numbers = <<>>
    <3>1. number = 1 /\ Len(numbers) = 0
      BY <2>2
    <3> QED
      BY <2>1, <3>1 DEF RuleNumber
  <2>3. CASE numbers # <<>>
    <3> DEFINE last == Len(numbers)
    <3>1. last \in 1..Len(numbers) /\ Len(numbers) \in Nat
      BY <1>4, <2>3, EmptySeq
    <3>2. \A i \in 1..Len(numbers) : numbers[i] \in 1..MaxNumber
      BY <1>4, ElementOfSeq
    <3>3. numbers[last] \in 1..MaxNumber /\ ~(num <= numbers[last])
      BY <1>2, <2>3, <3>1, <3>2 DEF OutOfOrder
    <3>4. \A i \in 1..Len(numbers) : numbers[i] <= numbers[last]
      <4> TAKE i \in 1..Len(numbers)
      <4>1. i = last \/ numbers[i] < numbers[last]
        BY <3>1 DEF NumbersIncrease
      <4> QED
        BY <2>1, <3>1, <3>2, <4>1
    <3>5. num \in 0..MaxNumber
      BY <2>1 DEF RuleNumber
    <3> QED
      BY <2>1, <3>2, <3>3, <3>4, <3>5
  <2> QED
    BY <2>2, <2>3
<1> HIDE DEF closed, new, num
<1>7. /\ rules' \in Seq(Rule) /\ Len(rules') = idx
      /\ \A i \in 1..Len(rules) : rules'[i] = rules[i]
      /\ rules'[idx] = new
  BY <1>2, <1>4, <1>5, AppendProperties
<1>8. /\ numbers' \in Seq(1..MaxNumber) /\ Len(numbers') = idx /\ numbers' # <<>>
      /\ \A i \in 1..Len(rules) : numbers'[i] = numbers[i]
      /\ numbers'[idx] = num
  BY <1>2, <1>4, <1>6, AppendProperties
<1>9. /\ records' \in Seq(Nat) /\ Len(records') = idx
      /\ \A i \in 1..Len(rules) : records'[i] = records[i]
      /\ records'[idx] = Len(script')
  <2>1. Len(script') \in Nat
    BY <1>1
  <2> QED
    BY <1>2, <1>4, <2>1, AppendProperties
<1>10. number' \in 0..MaxNumber
  <2>1. MaxNumber + 1 \in Nat \ {0} /\ num + 1 \in Nat
    BY <1>6, ConstantsAssumption
  <2> QED
    BY <1>2, <2>1, ConstantsAssumption
<1>11. /\ numberJumps' \subseteq 1..idx
       /\ pendingLabels' \in [Labels -> SUBSET (1..idx)]
  <2>1. /\ numberJumps \subseteq 1..idx
        /\ pendingLabels \in [Labels -> SUBSET (1..idx)]
        /\ line.label \in Labels
    BY <1>1, <1>4 DEF TypeOK, Line
  <2> QED
    BY <1>2, <1>4, <2>1
<1>12. \A i \in 1..Len(records') : records'[i] \in 1..Len(script')
  <2> SUFFICES ASSUME NEW i \in 1..idx PROVE records'[i] \in 1..Len(script')
    BY <1>9
  <2>1. CASE i = idx
    BY <1>1, <1>9, <2>1
  <2>2. CASE i \in 1..Len(rules)
    <3>1. records[i] \in 1..Len(script)
      BY <1>4, <2>2 DEF TypeOK
    <3> QED
      BY <1>1, <1>9, <2>2, <3>1
  <2> QED
    BY <1>4, <2>1, <2>2
<1>13. TypeOK'
  BY <1>1, <1>2, <1>3, <1>7, <1>8, <1>9, <1>10, <1>11, <1>12 DEF TypeOK
<1>14. /\ \A i \in 1..Len(rules) : Action(i)' = Action(i)
       /\ Action(idx)' = line
  BY <1>1, <1>4, <1>9 DEF TypeOK, Action
<1>15. NumbersIncrease'
  BY <1>4, <1>6, <1>8, SMTT(20) DEF NumbersIncrease
<1>16. IF line.action = "skipto" THEN new.jump = idx + 1 ELSE new.kind # "skipto"
  BY <1>4 DEF new, ClosedRule
<1>17. JumpsForward'
  <2> SUFFICES ASSUME NEW i \in 1..idx, rules'[i].kind = "skipto"
               PROVE  rules'[i].jump \in (i + 1)..(idx + 1)
    BY <1>7 DEF JumpsForward
  <2>1. CASE i = idx
    BY <1>0, <1>7, <1>16, <2>1
  <2>2. CASE i \in 1..Len(rules)
    <3>1. rules[i].jump \in (i + 1)..(Len(rules) + 1)
      BY <1>7, <2>2 DEF JumpsForward
    <3> QED
      BY <1>4, <1>7, <2>2, <3>1
  <2> QED
    BY <1>4, <2>1, <2>2
<1>18. JumpsWait'
  <2>1. ASSUME NEW i \in numberJumps'
        PROVE  /\ IsSkipTo(Action(i), "number")'
               /\ status' = "reading" => rules'[i].jump = i + 1
    <3>1. CASE i = idx
      <4>1. idx \notin numberJumps
        BY <1>4 DEF TypeOK
      <4>2. IsSkipTo(line, "number")
        BY <1>2, <2>1, <3>1, <4>1
      <4> QED
        BY <1>7, <1>14, <1>16, <3>1, <4>2 DEF IsSkipTo, IsRule
    <3>2. CASE i # idx
      <4>1. i \in numberJumps /\ i \in 1..Len(rules)
        BY <1>2, <2>1, <3>2 DEF TypeOK
      <4> QED
        BY <1>2, <1>7, <1>14, <4>1 DEF JumpsWait, IsSkipTo, IsRule
    <3> QED
      BY <3>1, <3>2
  <2>2. ASSUME NEW l \in Labels, NEW i \in pendingLabels'[l]
        PROVE  /\ (IsSkipTo(Action(i), "label") /\ Action(i).label = l)'
               /\ rules'[i].jump = i + 1
    <3>1. /\ pendingLabels \in [Labels -> SUBSET (1..Len(rules))]
          /\ line.label \in Labels
      BY <1>1 DEF TypeOK, Line
    <3>2. CASE i = idx
      <4>1. idx \notin pendingLabels[l]
        BY <1>4, <3>1
      <4>2. IsSkipTo(line, "label") /\ line.label = l
        BY <1>2, <2>2, <3>1, <3>2, <4>1
      <4> QED
        BY <1>7, <1>14, <1>16, <3>2, <4>2 DEF IsSkipTo, IsRule
    <3>3. CASE i # idx
      <4>1. i \in pendingLabels[l] /\ i \in 1..Len(rules)
        BY <1>2, <2>2, <3>1, <3>3
      <4> QED
        BY <1>2, <1>7, <1>14, <4>1 DEF JumpsWait, IsSkipTo, IsRule
    <3> QED
      BY <3>2, <3>3
  <2> QED
    BY <2>1, <2>2 DEF JumpsWait
<1> QED
  BY <1>8, <1>13, <1>15, <1>17, <1>18

\* The number jumps are linked past their own rules, the numbers going up.
LEMMA FinishKeeps ==
  ASSUME IInv, Finish, UNCHANGED <<arenas, start, numbers, records, number>>,
         script' \in Seq(Lines), Len(script') \in Nat, Len(script') >= Len(script),
         \A i \in 1..Len(script) : script'[i] = script[i]
  PROVE  IInv'
<1> USE DEF IInv
<1> DEFINE idxs == numberJumps \ UnresolvedNumbers
           target == [idx \in idxs |-> At(Wanted(idx))]
<1>1. /\ UNCHANGED <<labels, numberJumps, pendingLabels, tableTypes, entries>>
      /\ rules' = Linked(target)
      /\ status' \in {"built", "failed"}
  BY DEF Finish, linking, tables
<1>2. /\ rules \in Seq(Rule) /\ Len(rules) \in Nat /\ Len(script) \in Nat
      /\ numbers \in Seq(1..MaxNumber) /\ MaxNumber \in Nat
      /\ Len(numbers) = Len(rules) /\ Len(records) = Len(rules)
      /\ \A i \in 1..Len(numbers) : numbers[i] \in 1..MaxNumber
      /\ idxs \in SUBSET (1..Len(rules))
  BY ConstantsAssumption, LenProperties, ElementOfSeq DEF TypeOK
<1>3. \A idx \in 1..Len(rules) : Wanted(idx) \in Nat /\ Wanted(idx) > numbers[idx]
  <2> TAKE idx \in 1..Len(rules)
  <2>1. Action(idx) \in Line /\ numbers[idx] \in Nat
    BY <1>2, ConstantsAssumption, ElementOfSeq, SMTT(20) DEF TypeOK, Action
  <2>2. Action(idx).number \in Nat
    BY <1>2, <2>1 DEF Line
  <2> QED
    BY <2>1, <2>2 DEF Wanted
<1>4. ASSUME NEW idx \in idxs
      PROVE  At(Wanted(idx)) \in (idx + 1)..Len(rules)
  <2> DEFINE at == At(Wanted(idx))
  <2>1. idx \in 1..Len(rules)
    BY <1>2
  <2>2. /\ at \in 1..(Len(numbers) + 1)
        /\ at <= Len(numbers) => numbers[at] >= Wanted(idx)
    BY <1>2, <1>3, <2>1, AtFinds
  <2>3. ~(at > Len(rules))
    BY <1>4 DEF UnresolvedNumbers
  <2>4. at \in 1..Len(rules) /\ numbers[at] > numbers[idx]
    BY <1>2, <1>3, <2>1, <2>2, <2>3, SMTT(20)
  <2>5. ~(at < idx) /\ at # idx
    BY <1>2, <2>1, <2>4 DEF NumbersIncrease
  <2> QED
    BY <1>2, <2>1, <2>4, <2>5
<1>5. DOMAIN target = idxs /\ \A idx \in idxs : target[idx] \in (idx + 1)..Len(rules)
  BY <1>2, <1>4
<1> HIDE DEF target
<1>6. /\ rules' \in Seq(Rule) /\ Len(rules') = Len(rules)
      /\ \A idx \in 1..Len(rules) :
           /\ rules'[idx].kind = rules[idx].kind
           /\ rules'[idx].jump = IF idx \in idxs THEN target[idx] ELSE rules[idx].jump
  <2> HIDE DEF idxs
  <2>1. /\ Linked(target) \in Seq(Rule)
        /\ Len(Linked(target)) = Len(rules)
        /\ \A idx \in 1..Len(rules) :
             /\ Linked(target)[idx].kind = rules[idx].kind
             /\ Linked(target)[idx].jump = IF idx \in idxs THEN target[idx]
                                                           ELSE rules[idx].jump
    <3>1. rules \in Seq(Rule) /\ Len(rules) \in Nat
      BY <1>2
    <3>2. DOMAIN target = idxs /\ \A idx \in DOMAIN target : target[idx] \in Nat
      <4>1. \A idx \in idxs : idx \in Nat
        BY <1>2
      <4> QED
        BY <1>5, <3>1, <4>1
    <3> QED
      BY <3>1, <3>2, LinkedType
  <2> QED
    BY <1>1, <2>1
<1>7. failure' \in [line : Nat, kind : FailureKind]
  <2>1. CASE FallThrough \/ Unresolved = {}
    BY <2>1 DEF Finish, TypeOK
  <2>2. CASE ~(FallThrough \/ Unresolved = {})
    <3>1. failure' = [line |-> records[Lowest(Unresolved)], kind |-> "unresolved"]
      BY <2>2 DEF Finish
    <3>2. Unresolved \subseteq 1..Len(rules) /\ Unresolved # {}
      BY <2>2, ZenonT(40) DEF Unresolved, UnresolvedNumbers, TypeOK
    <3>3. Lowest(Unresolved) \in Unresolved
      BY <1>2, <3>2, LowestIsOne
    <3>4. records[Lowest(Unresolved)] \in Nat
      BY <1>2, <3>2, <3>3, ElementOfSeq DEF TypeOK
    <3> QED
      BY <3>1, <3>4 DEF FailureKind
  <2> QED
    BY <2>1, <2>2
<1>8. \A idx \in 1..Len(records) : records[idx] \in 1..Len(script')
  BY <1>2, SMTT(20) DEF TypeOK
<1>9. TypeOK'
  BY <1>1, <1>6, <1>7, <1>8 DEF TypeOK
<1>10. JumpsForward'
  <2> SUFFICES ASSUME NEW i \in 1..Len(rules), rules'[i].kind = "skipto"
               PROVE  rules'[i].jump \in (i + 1)..(Len(rules) + 1)
    BY <1>6 DEF JumpsForward
  <2>1. rules[i].jump \in (i + 1)..(Len(rules) + 1)
    BY <1>6 DEF JumpsForward
  <2>2. i \in idxs => target[i] \in (i + 1)..Len(rules)
    BY <1>5
  <2> QED
    BY <1>2, <1>6, <2>1, <2>2, SMTT(20)
<1>11. \A idx \in 1..Len(rules) : Action(idx)' = Action(idx)
  BY <1>2 DEF TypeOK, Action
<1>12. JumpsWait'
  <2>1. \A idx \in numberJumps' : IsSkipTo(Action(idx), "number")'
    BY <1>1, <1>11 DEF TypeOK, JumpsWait, IsSkipTo, IsRule
  <2>2. ASSUME NEW l \in Labels, NEW idx \in pendingLabels'[l]
        PROVE  /\ (IsSkipTo(Action(idx), "label") /\ Action(idx).label = l)'
               /\ rules'[idx].jump = idx + 1
    <3>1. idx \in pendingLabels[l] /\ idx \in 1..Len(rules)
      BY <1>1 DEF TypeOK
    <3>2. IsSkipTo(Action(idx), "label")
      BY <3>1 DEF JumpsWait
    <3>3. idx \notin idxs
      BY <3>2 DEF JumpsWait, IsSkipTo
    <3> QED
      BY <1>6, <1>11, <3>1, <3>2, <3>3 DEF JumpsWait, IsSkipTo, IsRule
  <2> QED
    BY <1>1, <2>1, <2>2 DEF JumpsWait
<1>13. NumbersIncrease' /\ (numbers = <<>> => number = 1)'
  BY DEF NumbersIncrease
<1> QED
  BY <1>9, <1>10, <1>12, <1>13

LEMMA NextIInv == IInv /\ [Next]_vars => IInv'
<1> SUFFICES ASSUME IInv, [Next]_vars PROVE IInv'
  OBVIOUS
<1>1. TypeOK
  BY DEF IInv
<1>2. entries \in Seq(Entry) /\ tableTypes \in [Tables -> {"unset", "addr", "iface"}]
  BY <1>1 DEF TypeOK
<1>3. ASSUME NEW line \in Lines, ParseFails(line) PROVE IInv'
  BY <1>2, <1>3, FailKeeps DEF ParseFails, FailureKind
<1>4. ASSUME NEW line \in Lines, Skip(line) PROVE IInv'
  BY <1>2, <1>4, OtherKeeps DEF Skip, tables
<1>5. ASSUME NEW line \in Lines, UnsupportedRecord(line) PROVE IInv'
  BY <1>2, <1>5, FailKeeps DEF UnsupportedRecord, FailureKind
<1>6. ASSUME NEW line \in Lines, AddOutOfOrder(line) PROVE IInv'
  BY <1>2, <1>6, FailKeeps DEF AddOutOfOrder, FailureKind
<1>7. ASSUME NEW line \in Lines, AddUnsupported(line) PROVE IInv'
  BY <1>2, <1>7, FailKeeps DEF AddUnsupported, FailureKind
<1>8. ASSUME NEW line \in Lines, TableCreate(line) PROVE IInv'
  <2>1. line \in Line
    BY ConstantsAssumption
  <2>2. TypesAfter(line) \in [Tables -> {"unset", "addr", "iface"}]
    BY <1>2, <2>1 DEF TypesAfter, CreatedType, Line
  <2>3. CASE line.type # "other"
    BY <1>2, <1>8, <2>2, <2>3, OtherKeeps DEF TableCreate
  <2>4. CASE line.type = "other"
    BY <1>2, <1>8, <2>4, FailKeeps DEF TableCreate, FailureKind
  <2> QED
    BY <2>3, <2>4
<1>9. ASSUME NEW line \in Lines, TableAdd(line) PROVE IInv'
  <2> DEFINE updates == Updates(line, tableTypes[line.table])
  <2>1. line \in Line
    BY ConstantsAssumption
  <2>2. /\ updates \in Seq(Entry)
        /\ \A n \in 0..(Len(updates) - 1) : SubSeq(updates, 1, n) \in Seq(Entry)
    BY <2>1, UpdatesType
  <2>3. /\ entries \o updates \in Seq(Entry)
        /\ \A n \in 0..(Len(updates) - 1) : entries \o SubSeq(updates, 1, n) \in Seq(Entry)
    BY <1>2, <2>2, ConcatProperties
  <2>4. \/ /\ ReadOther(line) /\ GoOn /\ UNCHANGED <<rules, linking, tableTypes>>
           /\ entries' = entries \o updates
        \/ /\ Read(line) /\ Fail("registry")
           /\ \E n \in 0..(Len(updates) - 1) : entries' = entries \o SubSeq(updates, 1, n)
        \/ Read(line) /\ Fail("table") /\ UNCHANGED entries
    BY <1>9 DEF TableAdd
  <2> HIDE DEF updates
  <2>5. CASE ReadOther(line) /\ GoOn /\ UNCHANGED <<rules, linking, tableTypes>>
             /\ entries' = entries \o updates
    BY <1>2, <2>3, <2>5, OtherKeeps
  <2>6. CASE /\ Read(line) /\ Fail("registry")
             /\ \E n \in 0..(Len(updates) - 1) : entries' = entries \o SubSeq(updates, 1, n)
    BY <2>3, <2>6, FailKeeps DEF FailureKind
  <2>7. CASE Read(line) /\ Fail("table") /\ UNCHANGED entries
    BY <1>2, <2>7, FailKeeps DEF FailureKind
  <2> QED
    BY <2>4, <2>5, <2>6, <2>7
<1>10. ASSUME NEW line \in Lines, TableOther(line) PROVE IInv'
  BY <1>2, <1>10, OtherKeeps DEF TableOther, tables
<1>11. ASSUME NEW line \in Lines, HookEnds(line) PROVE IInv'
  <2>1. /\ script' \in Seq(Lines) /\ Len(script') = Len(script) + 1 /\ Len(script) \in Nat
        /\ line \in Line /\ \A i \in 1..Len(script) : script'[i] = script[i]
    BY <1>1, <1>11, ReadKeeps DEF HookEnds, ReadOther
  <2>2. UNCHANGED <<arenas, start, numbers, records, number>>
    BY <1>1, <1>11, <2>1, DroppedIsNothing DEF HookEnds, ReadOther
  <2>3. Finish /\ Len(script') \in Nat /\ Len(script') >= Len(script)
    BY <1>11, <2>1 DEF HookEnds
  <2> QED
    BY <2>1, <2>2, <2>3, FinishKeeps
<1>12. ASSUME EndOfInput PROVE IInv'
  <2>1. script' = script /\ script \in Seq(Lines) /\ Len(script) \in Nat
    BY <1>1, <1>12, LenProperties DEF EndOfInput, TypeOK
  <2>2. UNCHANGED <<arenas, start, numbers, records, number>> /\ Finish
    <3>1. Dropped(arenas) = arenas
      <4>1. arenas \in [Arena -> Seq(Token)] /\ start = [a \in Arena |-> Len(arenas[a])]
        BY <1>1 DEF TypeOK
      <4>2. \A a \in Arena : SubSeq(arenas[a], 1, start[a]) = arenas[a]
        BY <4>1, SubSeqFull
      <4> QED
        BY <4>1, <4>2 DEF Dropped
    <3> QED
      BY <1>12, <3>1 DEF EndOfInput
  <2> QED
    BY <2>1, <2>2, FinishKeeps
<1>13. CASE UNCHANGED vars
  BY <1>13 DEF IInv, vars, program, linking, tables, TypeOK, NumbersIncrease, JumpsForward,
     JumpsWait, Action, IsSkipTo, IsRule
<1> QED
  BY <1>3, <1>4, <1>5, <1>6, <1>7, <1>8, <1>9, <1>10, <1>11, <1>12, <1>13, AddKeeps, LabelKeeps
     DEF Next, ReadLine

-----------------------------------------------------------------------------
(* The theorems.                                                           *)

\* Every state of a build satisfies the inductive invariant.
THEOREM BuildInvariant == Spec => []IInv
  BY InitIInv, NextIInv, PTL DEF Spec

\* The builder's state is well typed whatever lines are read: the runs, the
\* numbers and the records of the rules stay in step, the running number stays
\* within its width, and every index kept for linking is that of a rule.
THEOREM BuildTypes == Spec => []TypeOK
  BY BuildInvariant, PTL DEF IInv

\* The rule numbers of every program are strictly increasing.
THEOREM NumbersGoUp == Spec => []NumbersIncrease
  BY BuildInvariant, PTL DEF IInv

\* Every skipto of every program jumps forward, at any point of the build.
THEOREM EveryJumpGoesForward == Spec => []JumpsForward
  BY BuildInvariant, PTL DEF IInv

\* A step that moves a jump moves one that falls through.
LinkStep ==
  \A idx \in 1..Len(rules) :
    rules'[idx].jump # rules[idx].jump => rules[idx].jump = idx + 1

LEMMA StepLinksOnce == IInv /\ [Next]_vars => [LinkStep]_vars
<1> SUFFICES ASSUME IInv, Next PROVE LinkStep
  OBVIOUS
<1>1. rules \in Seq(Rule) /\ Len(rules) \in Nat
  BY LenProperties DEF IInv, TypeOK
<1>2. CASE UNCHANGED rules
  BY <1>2 DEF LinkStep
<1>3. ASSUME NEW line \in Lines, Add(line) PROVE LinkStep
  <2>1. \E rule : rules' = Append(rules, rule)
    BY <1>3 DEF Add
  <2>2. \A idx \in 1..Len(rules) : rules'[idx] = rules[idx]
    BY <1>1, <2>1
  <2> QED
    BY <2>2 DEF LinkStep
<1>4. ASSUME NEW target, rules' = Linked(target),
             \A idx \in DOMAIN target : rules[idx].jump = idx + 1
      PROVE  LinkStep
  BY <1>4 DEF LinkStep, Linked
<1>5. ASSUME NEW line \in Lines, Label(line) PROVE LinkStep
  <2> DEFINE target == [idx \in pendingLabels[line.label] |-> Len(rules) + 1]
  <2>1. line.label \in Labels
    BY ConstantsAssumption DEF Line
  <2>2. \A idx \in DOMAIN target : rules[idx].jump = idx + 1
    BY <2>1 DEF IInv, JumpsWait
  <2>3. rules' = Linked(target)
    BY <1>5 DEF Label
  <2> HIDE DEF target
  <2> QED
    BY <1>4, <2>2, <2>3
<1>6. ASSUME Finish, status = "reading" PROVE LinkStep
  <2> DEFINE target == [idx \in numberJumps \ UnresolvedNumbers |-> At(Wanted(idx))]
  <2>1. \A idx \in DOMAIN target : rules[idx].jump = idx + 1
    BY <1>6 DEF IInv, JumpsWait
  <2>2. rules' = Linked(target)
    BY <1>6 DEF Finish
  <2> HIDE DEF target
  <2> QED
    BY <1>4, <2>1, <2>2
<1> QED
  <2>1. ASSUME NEW line \in Lines, ReadLine(line) PROVE LinkStep
    <3>1. CASE \/ ParseFails(line) \/ Skip(line) \/ UnsupportedRecord(line)
               \/ AddOutOfOrder(line) \/ AddUnsupported(line)
               \/ TableCreate(line) \/ TableAdd(line) \/ TableOther(line)
      BY <1>2, <3>1 DEF ParseFails, Skip, UnsupportedRecord, AddOutOfOrder, AddUnsupported,
                        TableCreate, TableAdd, TableOther, Fail, program
    <3>2. CASE HookEnds(line)
      BY <1>6, <3>2 DEF HookEnds, ReadOther, Read
    <3> QED
      BY <1>3, <1>5, <2>1, <3>1, <3>2 DEF ReadLine
  <2>2. CASE EndOfInput
    BY <1>6, <2>2 DEF EndOfInput
  <2> QED
    BY <2>1, <2>2 DEF Next

\* A jump is linked at most once in a build: a label takes it from every later
\* occurrence of its name, and LinkNumbers sees each number once.
THEOREM JumpsLinkOnce == Spec => LinkedOnce
<1>1. IInv /\ [Next]_vars => [LinkStep]_vars
  BY StepLinksOnce
<1>2. Spec => []IInv
  BY BuildInvariant
<1> QED
  BY <1>1, <1>2, PTL DEF Spec, LinkedOnce, LinkStep

-----------------------------------------------------------------------------
(* Jumps to nowhere.                                                       *)

\* The rules are the script's, in its order, every one of them unless the
\* build failed, and the VM runs their actions.
Recorded ==
  /\ \A i, j \in 1..Len(rules) : i < j => records[i] < records[j]
  /\ \A idx \in 1..Len(rules) : IsRule(Action(idx)) /\ SupportedAction(Action(idx))
  /\ status # "failed" =>
       \A p \in 1..Len(script) : IsRule(script[p]) =>
         \E idx \in 1..Len(rules) : records[idx] = p

\* The label comes after the rule.
LabelAfter(idx, l) ==
  \E p \in (records[idx] + 1)..Len(script) : IsLabel(script[p]) /\ script[p].label = l

\* While lines are read, the jumps kept for linking are those a later line may
\* still satisfy: all the skiptos to a number, and the skiptos to a label that
\* did not come since.
Awaited == status = "reading" =>
  /\ failure = NoFailure
  /\ \A idx \in 1..Len(rules) : idx \in numberJumps <=> IsSkipTo(Action(idx), "number")
  /\ \A l \in Labels : \A idx \in 1..Len(rules) :
       idx \in pendingLabels[l] <=> /\ IsSkipTo(Action(idx), "label")
                                    /\ Action(idx).label = l
                                    /\ ~LabelAfter(idx, l)

HangingJumps == {idx \in 1..Len(rules) : Hanging(idx)}

FollowInv == IInv /\ Recorded /\ Awaited /\ UnresolvedReported

\* What a rule says and where it stands.
LEMMA RulesOfLines ==
  ASSUME IInv, NEW idx \in 1..Len(rules)
  PROVE  /\ idx \in Nat /\ Len(rules) \in Nat /\ Len(script) \in Nat
         /\ Len(numbers) = Len(rules)
         /\ records[idx] \in 1..Len(script)
         /\ Action(idx) \in Line
         /\ Action(idx).number \in Nat /\ Action(idx).label \in Labels
         /\ numbers[idx] \in Nat /\ Wanted(idx) \in Nat
<1>1. /\ script \in Seq(Lines) /\ rules \in Seq(Rule) /\ numbers \in Seq(1..MaxNumber)
      /\ Len(numbers) = Len(rules) /\ Len(records) = Len(rules)
      /\ \A i \in 1..Len(records) : records[i] \in 1..Len(script)
  BY DEF IInv, TypeOK
<1>2. Len(rules) \in Nat /\ Len(script) \in Nat
  BY <1>1, LenProperties
<1>3. records[idx] \in 1..Len(script) /\ numbers[idx] \in 1..MaxNumber
  BY <1>1, ElementOfSeq
<1>4. script[records[idx]] \in Line
  BY <1>1, <1>3, ElementOfSeq, ConstantsAssumption
<1>5. Action(idx) \in Line
  BY <1>4 DEF Action
<1>6. Action(idx).number \in Nat /\ Action(idx).label \in Labels /\ numbers[idx] \in Nat
  BY <1>3, <1>5, ConstantsAssumption DEF Line
<1>7. Wanted(idx) \in Nat
  BY <1>6 DEF Wanted
<1> QED
  BY <1>1, <1>2, <1>3, <1>5, <1>6, <1>7

\* LinkNumbers finds a rule for a skipto to a number when a later one is
\* numbered high enough, and only then.
LEMMA NumberHangs ==
  ASSUME IInv, NEW idx \in 1..Len(rules)
  PROVE  At(Wanted(idx)) > Len(rules)
           <=> \A later \in (idx + 1)..Len(rules) : numbers[later] < Action(idx).number
<1> DEFINE n == Len(rules)
           w == Wanted(idx)
           at == At(w)
<1>1. /\ idx \in Nat /\ n \in Nat /\ Len(numbers) = n
      /\ Action(idx).number \in Nat /\ numbers[idx] \in Nat /\ w \in Nat
  BY RulesOfLines
<1>2. \A j \in 1..n : numbers[j] \in Nat
  BY RulesOfLines
<1>3. /\ at \in 1..(n + 1)
      /\ at <= n => numbers[at] >= w
      /\ \A j \in 1..(at - 1) : numbers[j] < w
  BY <1>1, AtFinds, ConstantsAssumption DEF IInv, TypeOK
<1>4. w = IF Action(idx).number > numbers[idx] THEN Action(idx).number ELSE numbers[idx] + 1
  BY DEF Wanted
<1>5. \A i, j \in 1..n : i < j => numbers[i] < numbers[j]
  BY <1>1 DEF IInv, NumbersIncrease
<1> HIDE DEF n, w, at
<1>6. ASSUME at > n, NEW later \in (idx + 1)..n
      PROVE  numbers[later] < Action(idx).number
  <2>1. later \in 1..n /\ idx \in 1..n /\ idx < later /\ numbers[later] < w
    BY <1>1, <1>3, <1>6 DEF n
  <2>2. numbers[idx] < numbers[later] /\ numbers[later] \in Nat
    BY <1>2, <1>5, <2>1
  <2> QED
    BY <1>1, <1>4, <2>1, <2>2
<1>7. ASSUME \A later \in (idx + 1)..n : numbers[later] < Action(idx).number
      PROVE  at > n
  <2> SUFFICES ASSUME at <= n PROVE FALSE
    BY <1>1, <1>3
  <2>1. at \in 1..n /\ numbers[at] >= w /\ numbers[at] \in Nat
    BY <1>1, <1>2, <1>3
  <2>2. w > numbers[idx] /\ w >= Action(idx).number
    BY <1>1, <1>4
  <2>3. ~(at < idx) /\ at # idx /\ idx \in 1..n
    BY <1>1, <1>5, <2>1, <2>2 DEF n
  <2>4. at \in (idx + 1)..n
    BY <1>1, <2>1, <2>3
  <2> QED
    BY <1>1, <1>7, <2>1, <2>2, <2>4
<1> QED
  BY <1>6, <1>7 DEF n, at, w

\* At the end of the ruleset, the jumps still kept are the jumps to nowhere.
LEMMA UnresolvedHang ==
  ASSUME IInv, Awaited, status = "reading"
  PROVE  HangingJumps = Unresolved
<1>1. /\ numberJumps \subseteq 1..Len(rules)
      /\ pendingLabels \in [Labels -> SUBSET (1..Len(rules))]
  BY DEF IInv, TypeOK
<1>2. Unresolved \subseteq 1..Len(rules)
  BY <1>1 DEF Unresolved, UnresolvedNumbers
<1>3. ASSUME NEW idx \in 1..Len(rules) PROVE Hanging(idx) <=> idx \in Unresolved
  <2>1. Action(idx).label \in Labels
    BY RulesOfLines
  <2>2. /\ idx \in numberJumps <=> IsSkipTo(Action(idx), "number")
        /\ \A l \in Labels : idx \in pendingLabels[l]
             <=> IsSkipTo(Action(idx), "label") /\ Action(idx).label = l /\ ~LabelAfter(idx, l)
    BY DEF Awaited
  <2>3. IsSkipTo(Action(idx), "number") => ~IsSkipTo(Action(idx), "label")
    BY DEF IsSkipTo
  <2>4. idx \in UnresolvedNumbers <=>
          IsSkipTo(Action(idx), "number") /\ At(Wanted(idx)) > Len(rules)
    BY <2>2 DEF UnresolvedNumbers
  <2>5. (\E l \in Labels : idx \in pendingLabels[l])
          <=> IsSkipTo(Action(idx), "label") /\ ~LabelAfter(idx, Action(idx).label)
    BY <2>1, <2>2
  <2>6. idx \in Unresolved
          <=> idx \in UnresolvedNumbers \/ \E l \in Labels : idx \in pendingLabels[l]
    BY DEF Unresolved
  <2>7. CASE IsSkipTo(Action(idx), "number")
    BY <2>3, <2>4, <2>5, <2>6, <2>7, NumberHangs DEF Hanging
  <2>8. CASE ~IsSkipTo(Action(idx), "number")
    BY <2>4, <2>5, <2>6, <2>8 DEF Hanging, LabelAfter
  <2> QED
    BY <2>7, <2>8
<1> QED
  BY <1>2, <1>3 DEF HangingJumps

LEMMA InitFollow == Init => FollowInv
<1> SUFFICES ASSUME Init PROVE FollowInv
  OBVIOUS
<1>1. rules = <<>> /\ script = <<>> /\ status = "reading" /\ failure = NoFailure
      /\ numberJumps = {} /\ \A l \in Labels : pendingLabels[l] = {}
  BY DEF Init
<1>2. Recorded /\ Awaited
  BY <1>1 DEF Recorded, Awaited
<1>3. UnresolvedReported
  BY <1>1 DEF UnresolvedReported, NoFailure
<1> QED
  BY <1>2, <1>3, InitIInv DEF FollowInv

\* A line is read that is no rule: the rules stand where they stood, and a label
\* came after one if it did before or if it is the line's.
LEMMA LineAfterRules ==
  ASSUME FollowInv, NEW line \in Lines, Read(line), UNCHANGED <<records, numbers>>,
         NEW n, n = Len(rules), Len(rules') = n, ~IsRule(line)
  PROVE  /\ n \in Nat
         /\ \A idx \in 1..n : Action(idx)' = Action(idx) /\ records'[idx] = records[idx]
         /\ Recorded'
         /\ \A idx \in 1..n, l \in Labels :
              LabelAfter(idx, l)' <=> LabelAfter(idx, l) \/ (IsLabel(line) /\ line.label = l)
         /\ ~IsLabel(line) => HangingJumps' = HangingJumps
<1> DEFINE m == Len(script)
<1>1. /\ Len(script') = m + 1 /\ m \in Nat /\ script'[m + 1] = line
      /\ \A i \in 1..m : script'[i] = script[i]
  BY ReadKeeps DEF FollowInv, IInv
<1>2. n \in Nat /\ \A idx \in 1..n : records[idx] \in 1..m
  BY LenProperties DEF FollowInv, IInv, TypeOK
<1>3. \A idx \in 1..n : Action(idx)' = Action(idx) /\ records'[idx] = records[idx]
  BY <1>1, <1>2 DEF Action
<1> HIDE DEF m
<1>4. \A idx \in 1..n, l \in Labels :
        LabelAfter(idx, l)' <=> LabelAfter(idx, l) \/ (IsLabel(line) /\ line.label = l)
  <2> TAKE idx \in 1..n, l \in Labels
  <2>1. records[idx] \in 1..m /\ records'[idx] = records[idx]
    BY <1>2, <1>3
  <2>2. (records[idx] + 1)..(m + 1) = (records[idx] + 1)..m \cup {m + 1}
    BY <1>1, <2>1
  <2>3. \A p \in (records[idx] + 1)..m : script'[p] = script[p]
    BY <1>1, <2>1
  <2>4. LabelAfter(idx, l)' <=> \E p \in (records[idx] + 1)..(m + 1) :
                                  IsLabel(script'[p]) /\ script'[p].label = l
    BY <1>1, <2>1 DEF LabelAfter, IsLabel
  <2>5. LabelAfter(idx, l) <=> \E p \in (records[idx] + 1)..m :
                                 IsLabel(script[p]) /\ script[p].label = l
    BY DEF LabelAfter, m
  <2>6. ASSUME NEW p \in (records[idx] + 1)..(m + 1), IsLabel(script'[p]), script'[p].label = l
        PROVE  LabelAfter(idx, l) \/ (IsLabel(line) /\ line.label = l)
    BY <1>1, <2>2, <2>3, <2>5, <2>6
  <2>7. LabelAfter(idx, l) => LabelAfter(idx, l)'
    BY <2>2, <2>3, <2>4, <2>5
  <2>8. IsLabel(line) /\ line.label = l => LabelAfter(idx, l)'
    BY <1>1, <2>2, <2>4
  <2> QED
    BY <2>4, <2>6, <2>7, <2>8
<1>5. Recorded'
  <2>1. \A i, j \in 1..n : i < j => records'[i] < records'[j]
    BY <1>3 DEF FollowInv, Recorded
  <2>2. \A idx \in 1..n : IsRule(Action(idx))' /\ SupportedAction(Action(idx))'
    BY <1>3 DEF FollowInv, Recorded, IsRule, SupportedAction
  <2>3. status = "reading"
    BY DEF Read
  <2>4. ASSUME NEW p \in 1..(m + 1), IsRule(script'[p])
        PROVE  \E idx \in 1..n : records'[idx] = p
    <3>1. p \in 1..m /\ IsRule(script[p])
      BY <1>1, <2>4
    <3> QED
      BY <1>3, <2>3, <3>1 DEF FollowInv, Recorded, m
  <2> QED
    BY <1>1, <2>1, <2>2, <2>4 DEF Recorded, IsRule
<1>6. ASSUME ~IsLabel(line) PROVE HangingJumps' = HangingJumps
  <2>1. ASSUME NEW idx \in 1..n PROVE Hanging(idx)' <=> Hanging(idx)
    <3>1. PICK l \in Labels : l = Action(idx).label
      BY RulesOfLines DEF FollowInv
    <3>2. (~LabelAfter(idx, l)) <=>
             \A p \in (records[idx] + 1)..Len(script) : IsLabel(script[p]) => script[p].label # l
      BY DEF LabelAfter
    <3>3. (~LabelAfter(idx, l)') <=>
             \A p \in (records'[idx] + 1)..Len(script') :
               IsLabel(script'[p]) => script'[p].label # l
      BY DEF LabelAfter, IsLabel
    <3>4. LabelAfter(idx, l)' <=> LabelAfter(idx, l)
      BY <1>4, <1>6
    <3>5. \A later \in (idx + 1)..n : numbers'[later] = numbers[later]
      OBVIOUS
    <3>6. Action(idx)' = Action(idx) /\ Len(rules') = Len(rules)
      BY <1>3
    <3>7. Hanging(idx) <=>
            IF IsSkipTo(Action(idx), "number")
            THEN \A later \in (idx + 1)..n : numbers[later] < Action(idx).number
            ELSE IsSkipTo(Action(idx), "label") /\ ~LabelAfter(idx, l)
      BY <3>1, <3>2 DEF Hanging
    <3>8. Hanging(idx)' <=>
            IF IsSkipTo(Action(idx)', "number")
            THEN \A later \in (idx + 1)..n : numbers'[later] < Action(idx)'.number
            ELSE IsSkipTo(Action(idx)', "label") /\ ~LabelAfter(idx, l)'
      BY <3>1, <3>3, <3>6 DEF Hanging, IsSkipTo, IsRule, IsLabel
    <3> QED
      BY <3>4, <3>5, <3>6, <3>7, <3>8
  <2> QED
    BY <2>1 DEF HangingJumps
<1> QED
  BY <1>2, <1>3, <1>4, <1>5, <1>6

\* Nothing is reported while lines are read.
LEMMA ReadingReportsNothing ==
  ASSUME status = "reading", failure = NoFailure
  PROVE  UnresolvedReported
BY DEF UnresolvedReported, NoFailure

\* A line that is no rule and no label leaves what is awaited as it was.
LEMMA OtherFollows ==
  ASSUME FollowInv, IInv', NEW line \in Lines, Read(line), ~IsRule(line), ~IsLabel(line),
         GoOn, UNCHANGED <<rules, numbers, records, linking>>
  PROVE  FollowInv'
<1> DEFINE n == Len(rules)
<1>1. UNCHANGED <<status, failure, rules, numberJumps, pendingLabels>> /\ status = "reading"
  BY DEF GoOn, linking, Read
<1>2. /\ \A idx \in 1..n : Action(idx)' = Action(idx)
      /\ Recorded'
      /\ \A idx \in 1..n, l \in Labels : LabelAfter(idx, l)' <=> LabelAfter(idx, l)
  BY <1>1, LineAfterRules
<1>3. Awaited'
  <2>1. failure' = NoFailure
    BY <1>1 DEF FollowInv, Awaited
  <2>2. \A idx \in 1..n : idx \in numberJumps' <=> IsSkipTo(Action(idx), "number")'
    BY <1>1, <1>2 DEF FollowInv, Awaited, IsSkipTo, IsRule
  <2>3. ASSUME NEW l \in Labels, NEW idx \in 1..n
        PROVE  idx \in pendingLabels'[l] <=> /\ IsSkipTo(Action(idx), "label")'
                                             /\ Action(idx)'.label = l
                                             /\ ~LabelAfter(idx, l)'
    <3>1. idx \in pendingLabels[l] <=> /\ IsSkipTo(Action(idx), "label")
                                       /\ Action(idx).label = l
                                       /\ ~LabelAfter(idx, l)
      BY <1>1 DEF FollowInv, Awaited
    <3>2. IsSkipTo(Action(idx), "label")' <=> IsSkipTo(Action(idx), "label")
      BY <1>2 DEF IsSkipTo, IsRule
    <3> QED
      BY <1>1, <1>2, <3>1, <3>2
  <2> QED
    BY <1>1, <2>1, <2>2, <2>3 DEF Awaited
<1>4. UnresolvedReported'
  BY <1>1, <1>3, ReadingReportsNothing DEF Awaited, UnresolvedReported, NoFailure
<1> QED
  BY <1>2, <1>3, <1>4 DEF FollowInv

\* A label takes away the jumps that waited for it.
LEMMA LabelFollows ==
  ASSUME FollowInv, IInv', NEW line \in Lines, Label(line)
  PROVE  FollowInv'
<1> DEFINE n == Len(rules)
<1>1. /\ UNCHANGED <<status, failure, numbers, records, numberJumps>> /\ status = "reading"
      /\ Read(line) /\ IsLabel(line) /\ ~IsRule(line)
      /\ pendingLabels' = [pendingLabels EXCEPT ![line.label] = {}]
  BY DEF Label, GoOn, ReadOther, Read, Delivered
<1>2. Len(rules') = n
  BY <1>1 DEF FollowInv, IInv, TypeOK
<1>3. /\ n \in Nat
      /\ \A idx \in 1..n : Action(idx)' = Action(idx)
      /\ Recorded'
      /\ \A idx \in 1..n, l \in Labels :
           LabelAfter(idx, l)' <=> LabelAfter(idx, l) \/ line.label = l
  BY <1>1, <1>2, LineAfterRules
<1>4. line.label \in Labels /\ pendingLabels \in [Labels -> SUBSET (1..n)]
  BY ConstantsAssumption DEF Line, FollowInv, IInv, TypeOK
<1>5. Awaited'
  <2>1. failure' = NoFailure
    BY <1>1 DEF FollowInv, Awaited
  <2>2. \A idx \in 1..n : idx \in numberJumps' <=> IsSkipTo(Action(idx), "number")'
    BY <1>1, <1>3 DEF FollowInv, Awaited, IsSkipTo, IsRule
  <2>3. ASSUME NEW l \in Labels, NEW idx \in 1..n
        PROVE  idx \in pendingLabels'[l] <=> /\ IsSkipTo(Action(idx), "label")'
                                             /\ Action(idx)'.label = l
                                             /\ ~LabelAfter(idx, l)'
    <3>1. idx \in pendingLabels[l] <=> /\ IsSkipTo(Action(idx), "label")
                                       /\ Action(idx).label = l
                                       /\ ~LabelAfter(idx, l)
      BY <1>1 DEF FollowInv, Awaited
    <3>2. IsSkipTo(Action(idx), "label")' <=> IsSkipTo(Action(idx), "label")
      BY <1>3 DEF IsSkipTo, IsRule
    <3>3. pendingLabels'[l] = IF l = line.label THEN {} ELSE pendingLabels[l]
      BY <1>1, <1>4
    <3> QED
      BY <1>3, <3>1, <3>2, <3>3
  <2> QED
    BY <1>1, <1>2, <2>1, <2>2, <2>3 DEF Awaited
<1>6. UnresolvedReported'
  BY <1>1, <1>5, ReadingReportsNothing DEF Awaited, UnresolvedReported, NoFailure
<1> QED
  BY <1>3, <1>5, <1>6 DEF FollowInv

\* A rule added stands last, and its jump is awaited if it is one.
LEMMA AddFollows ==
  ASSUME FollowInv, IInv', NEW line \in Lines, Add(line)
  PROVE  FollowInv'
<1> DEFINE n == Len(rules)
           m == Len(script)
<1>0. PICK idx \in Nat : idx = n + 1
  BY LenProperties DEF FollowInv, IInv, TypeOK
<1>1. /\ Len(script') = m + 1 /\ m \in Nat /\ script'[m + 1] = line /\ line \in Line
      /\ \A i \in 1..m : script'[i] = script[i]
  BY ReadKeeps DEF FollowInv, IInv, Add
<1>2. /\ UNCHANGED <<status, failure>> /\ status = "reading"
      /\ IsRule(line) /\ SupportedAction(line)
      /\ records' = Append(records, m + 1)
      /\ numberJumps' = IF IsSkipTo(line, "number") THEN numberJumps \cup {idx}
                                                    ELSE numberJumps
      /\ pendingLabels' = IF IsSkipTo(line, "label")
                          THEN [pendingLabels EXCEPT ![line.label] = @ \cup {idx}]
                          ELSE pendingLabels
  BY <1>0, <1>1 DEF Add, GoOn, Read
<1>3. /\ rules \in Seq(Rule) /\ n \in Nat /\ records \in Seq(Nat) /\ Len(records) = n
      /\ 1..idx = 1..n \cup {idx} /\ idx \notin 1..n
      /\ \A i \in 1..n : records[i] \in 1..m
      /\ numberJumps \subseteq 1..n
      /\ pendingLabels \in [Labels -> SUBSET (1..n)]
  <2>1. n \in Nat
    BY LenProperties DEF FollowInv, IInv, TypeOK
  <2>2. 1..idx = 1..n \cup {idx} /\ idx \notin 1..n
    BY <1>0, <2>1
  <2>3. \A i \in 1..n : records[i] \in 1..m
    BY DEF FollowInv, IInv, TypeOK
  <2> QED
    BY <2>1, <2>2, <2>3 DEF FollowInv, IInv, TypeOK
<1>4. Len(rules') = idx
  <2>1. \E rule : rules' = Append(rules, rule)
    BY DEF Add
  <2> QED
    BY <1>0, <1>3, <2>1
<1>5. \A i \in 1..n : records'[i] = records[i]
  BY <1>2, <1>3
<1>6. records'[idx] = m + 1
  BY <1>0, <1>2, <1>3
<1>7. \A i \in 1..n : Action(i)' = Action(i)
  BY <1>1, <1>3, <1>5 DEF Action
<1>8. Action(idx)' = line
  BY <1>1, <1>6 DEF Action
<1> HIDE DEF n, m
<1>9. Recorded'
  <2>1. \A i, j \in 1..idx : i < j => records'[i] < records'[j]
    <3>1. \A i, j \in 1..n : i < j => records[i] < records[j]
      BY DEF FollowInv, Recorded, n
    <3>2. \A i \in 1..n : records'[i] \in 1..m
      BY <1>3, <1>5
    <3> SUFFICES ASSUME NEW i \in 1..idx, NEW j \in 1..idx, i < j
                 PROVE  records'[i] < records'[j]
      OBVIOUS
    <3>3. i \in 1..n
      BY <1>0, <1>3
    <3>4. CASE j = idx
      BY <1>1, <1>6, <3>2, <3>3, <3>4
    <3>5. CASE j \in 1..n
      BY <1>5, <3>1, <3>3, <3>5
    <3> QED
      BY <1>3, <3>4, <3>5
  <2>2. ASSUME NEW i \in 1..idx PROVE IsRule(Action(i))' /\ SupportedAction(Action(i))'
    <3>1. CASE i = idx
      BY <1>2, <1>8, <3>1 DEF IsRule, SupportedAction
    <3>2. CASE i \in 1..n
      BY <1>7, <3>2 DEF FollowInv, Recorded, IsRule, SupportedAction, n
    <3> QED
      BY <1>3, <3>1, <3>2
  <2>3. ASSUME NEW p \in 1..(m + 1), IsRule(script'[p])
        PROVE  \E i \in 1..idx : records'[i] = p
    <3>1. CASE p = m + 1
      BY <1>3, <1>6, <3>1
    <3>2. CASE p # m + 1
      <4>1. p \in 1..m /\ IsRule(script[p])
        BY <1>1, <2>3, <3>2
      <4>2. PICK i \in 1..n : records[i] = p
        BY <1>2, <4>1 DEF FollowInv, Recorded, n, m
      <4> QED
        BY <1>3, <1>5, <4>2
    <3> QED
      BY <3>1, <3>2
  <2> QED
    BY <1>1, <1>4, <2>1, <2>2, <2>3 DEF Recorded, IsRule
<1>10. \A l : ~LabelAfter(idx, l)'
  BY <1>1, <1>6 DEF LabelAfter
<1>11. ASSUME NEW i \in 1..n, NEW l \in Labels PROVE LabelAfter(i, l)' <=> LabelAfter(i, l)
  <2>1. records[i] \in 1..m /\ records'[i] = records[i]
    BY <1>3, <1>5
  <2>2. (records[i] + 1)..(m + 1) = (records[i] + 1)..m \cup {m + 1}
    BY <1>1, <2>1
  <2>3. \A p \in (records[i] + 1)..m : script'[p] = script[p]
    BY <1>1, <2>1
  <2>4. LabelAfter(i, l)' <=> \E p \in (records[i] + 1)..(m + 1) :
                                IsLabel(script'[p]) /\ script'[p].label = l
    BY <1>1, <2>1 DEF LabelAfter, IsLabel
  <2>5. LabelAfter(i, l) <=> \E p \in (records[i] + 1)..m :
                               IsLabel(script[p]) /\ script[p].label = l
    BY DEF LabelAfter, m
  <2>6. ~IsLabel(script'[m + 1])
    BY <1>1, <1>2 DEF IsLabel, IsRule
  <2> QED
    BY <2>2, <2>3, <2>4, <2>5, <2>6
<1>12. Awaited'
  <2>1. failure' = NoFailure
    BY <1>2 DEF FollowInv, Awaited
  <2>2. ASSUME NEW i \in 1..idx
        PROVE  i \in numberJumps' <=> IsSkipTo(Action(i), "number")'
    <3>1. CASE i = idx
      BY <1>2, <1>3, <1>8, <3>1 DEF IsSkipTo, IsRule
    <3>2. CASE i \in 1..n
      <4>1. i \in numberJumps' <=> i \in numberJumps
        BY <1>2, <1>3, <3>2
      <4> QED
        BY <1>2, <1>7, <3>2, <4>1 DEF FollowInv, Awaited, IsSkipTo, IsRule, n
    <3> QED
      BY <1>3, <3>1, <3>2
  <2>3. ASSUME NEW l \in Labels, NEW i \in 1..idx
        PROVE  i \in pendingLabels'[l] <=> /\ IsSkipTo(Action(i), "label")'
                                           /\ Action(i)'.label = l
                                           /\ ~LabelAfter(i, l)'
    <3>1. pendingLabels'[l] = IF IsSkipTo(line, "label") /\ line.label = l
                              THEN pendingLabels[l] \cup {idx} ELSE pendingLabels[l]
      BY <1>2, <1>3
    <3>2. CASE i = idx
      <4>1. i \in pendingLabels'[l] <=> IsSkipTo(line, "label") /\ line.label = l
        BY <1>3, <3>1, <3>2
      <4>2. IsSkipTo(Action(i), "label")' <=> IsSkipTo(line, "label")
        BY <1>8, <3>2 DEF IsSkipTo, IsRule
      <4>3. ~LabelAfter(i, l)'
        BY <1>1, <1>6, <3>2 DEF LabelAfter
      <4>4. Action(i)' = line
        BY <1>8, <3>2
      <4> QED
        BY <4>1, <4>2, <4>3, <4>4
    <3>3. CASE i \in 1..n
      <4>1. i \in pendingLabels'[l] <=> i \in pendingLabels[l]
        BY <1>3, <3>1, <3>3
      <4>2. i \in pendingLabels[l] <=> /\ IsSkipTo(Action(i), "label")
                                       /\ Action(i).label = l
                                       /\ ~LabelAfter(i, l)
        BY <1>2, <3>3 DEF FollowInv, Awaited, n
      <4>3. IsSkipTo(Action(i), "label")' <=> IsSkipTo(Action(i), "label")
        BY <1>7, <3>3 DEF IsSkipTo, IsRule
      <4>4. LabelAfter(i, l)' <=> LabelAfter(i, l)
        BY <1>11, <3>3
      <4> QED
        BY <1>7, <3>3, <4>1, <4>2, <4>3, <4>4
    <3> QED
      BY <1>3, <3>2, <3>3
  <2> QED
    BY <1>4, <2>1, <2>2, <2>3 DEF Awaited
<1>13. UnresolvedReported'
  BY <1>2, <1>12, ReadingReportsNothing DEF Awaited, UnresolvedReported, NoFailure
<1> QED
  BY <1>9, <1>12, <1>13 DEF FollowInv

\* A line that fails is not reported as a jump to nowhere.
LEMMA FailFollows ==
  ASSUME FollowInv, IInv', NEW line \in Lines, Read(line), NEW kind, kind # "unresolved",
         Fail(kind)
  PROVE  FollowInv'
<1>1. /\ UNCHANGED <<rules, numbers, records>>
      /\ status' = "failed" /\ failure'.kind # "unresolved"
  BY DEF Fail, program
<1>2. Recorded'
  <2>1. \A i \in 1..Len(script) : script'[i] = script[i]
    BY ReadKeeps DEF FollowInv, IInv
  <2>2. \A idx \in 1..Len(rules) : records[idx] \in 1..Len(script)
    BY RulesOfLines DEF FollowInv
  <2>3. \A idx \in 1..Len(rules) : Action(idx)' = Action(idx)
    BY <1>1, <2>1, <2>2 DEF Action
  <2> QED
    BY <1>1, <2>3 DEF FollowInv, Recorded, IsRule, SupportedAction
<1>3. Awaited' /\ UnresolvedReported'
  BY <1>1 DEF Awaited, UnresolvedReported
<1> QED
  BY <1>2, <1>3 DEF FollowInv

\* The end of the ruleset reports the first of the jumps to nowhere, if there
\* is one and the policy is to fail.
LEMMA FinishFollows ==
  ASSUME FollowInv, IInv', status = "reading", Finish, UNCHANGED <<numbers, records>>,
         Recorded', HangingJumps' = HangingJumps
  PROVE  FollowInv'
<1>1. failure = NoFailure /\ HangingJumps = Unresolved
  BY UnresolvedHang DEF FollowInv, Awaited
<1>2. /\ status' \in {"built", "failed"}
      /\ IF FallThrough \/ Unresolved = {}
         THEN status' = "built" /\ failure' = failure
         ELSE /\ status' = "failed"
              /\ failure' = [line |-> records[Lowest(Unresolved)], kind |-> "unresolved"]
  BY DEF Finish
<1>3. Awaited'
  BY <1>2 DEF Awaited
<1>4. /\ failure'.kind = "unresolved" =>
           HangingJumps' # {} /\ failure'.line = records'[Lowest(HangingJumps')]
      /\ status' = "built" /\ ~FallThrough => HangingJumps' = {}
  BY <1>1, <1>2 DEF NoFailure
<1>5. UnresolvedReported'
  <2>1. Lowest(HangingJumps)' = Lowest(HangingJumps')
    BY DEF Lowest
  <2> QED
    BY <1>4, <2>1 DEF UnresolvedReported, HangingJumps
<1> QED
  BY <1>3, <1>5 DEF FollowInv

LEMMA NextFollow == FollowInv /\ [Next]_vars => FollowInv'
<1> SUFFICES ASSUME FollowInv, [Next]_vars PROVE FollowInv'
  OBVIOUS
<1>1. IInv /\ TypeOK /\ IInv'
  BY NextIInv DEF FollowInv, IInv
<1>2. \A line \in Lines : line \in Line
  BY ConstantsAssumption
<1>3. ASSUME NEW line \in Lines, ReadOther(line) PROVE UNCHANGED <<numbers, records>>
  BY <1>3 DEF ReadOther
<1>4. ASSUME NEW line \in Lines,
             ParseFails(line) \/ UnsupportedRecord(line) \/ AddOutOfOrder(line)
               \/ AddUnsupported(line)
      PROVE  FollowInv'
  BY <1>1, <1>4, FailFollows DEF ParseFails, UnsupportedRecord, AddOutOfOrder, AddUnsupported
<1>5. ASSUME NEW line \in Lines, Skip(line) PROVE FollowInv'
  BY <1>1, <1>3, <1>5, OtherFollows DEF Skip, ReadOther, IsRule, IsLabel
<1>6. ASSUME NEW line \in Lines, TableCreate(line) PROVE FollowInv'
  <2>1. CASE line.type # "other"
    BY <1>1, <1>3, <1>6, <2>1, OtherFollows
       DEF TableCreate, ReadOther, IsRule, IsLabel, IsCreate
  <2>2. CASE line.type = "other"
    BY <1>1, <1>6, <2>2, FailFollows DEF TableCreate
  <2> QED
    BY <2>1, <2>2
<1>7. ASSUME NEW line \in Lines, TableAdd(line) PROVE FollowInv'
  <2>1. \/ ReadOther(line) /\ GoOn /\ UNCHANGED <<rules, linking>>
        \/ Read(line) /\ \E kind \in {"registry", "table"} : Fail(kind)
    BY <1>7 DEF TableAdd
  <2>2. CASE ReadOther(line) /\ GoOn /\ UNCHANGED <<rules, linking>>
    BY <1>1, <1>3, <1>7, <2>2, OtherFollows DEF TableAdd, ReadOther, IsRule, IsLabel, IsAdd
  <2>3. CASE Read(line) /\ \E kind \in {"registry", "table"} : Fail(kind)
    BY <1>1, <2>3, FailFollows
  <2> QED
    BY <2>1, <2>2, <2>3
<1>8. ASSUME NEW line \in Lines, TableOther(line) PROVE FollowInv'
  BY <1>1, <1>3, <1>8, OtherFollows DEF TableOther, ReadOther, IsRule, IsLabel
<1>9. ASSUME NEW line \in Lines, HookEnds(line) PROVE FollowInv'
  <2>1. /\ UNCHANGED <<numbers, records>> /\ Read(line) /\ ~IsRule(line) /\ ~IsLabel(line)
        /\ Finish /\ status = "reading"
    BY <1>9 DEF HookEnds, ReadOther, Read, IsRule, IsLabel
  <2>2. Len(rules') = Len(rules)
    BY <1>1, <2>1 DEF IInv, TypeOK
  <2>3. Recorded' /\ HangingJumps' = HangingJumps
    BY <2>1, <2>2, LineAfterRules
  <2> QED
    BY <1>1, <2>1, <2>3, FinishFollows
<1>10. ASSUME EndOfInput PROVE FollowInv'
  <2>1. /\ UNCHANGED <<script, numbers, records>> /\ Finish /\ status = "reading"
    BY <1>10 DEF EndOfInput
  <2>2. Len(rules') = Len(rules)
    BY <1>1, <2>1 DEF IInv, TypeOK
  <2>3. Recorded'
    BY <2>1, <2>2 DEF FollowInv, Recorded, Action, IsRule, SupportedAction
  <2>4. HangingJumps' = HangingJumps
    BY <2>1, <2>2 DEF HangingJumps, Hanging, Action, IsSkipTo, IsRule, IsLabel
  <2> QED
    BY <1>1, <2>1, <2>3, <2>4, FinishFollows
<1>11. CASE UNCHANGED vars
  <2>1. UNCHANGED <<script, status, failure, rules, numbers, records, numberJumps, pendingLabels>>
    BY <1>11 DEF vars, program, linking
  <2>2. Recorded'
    BY <2>1 DEF FollowInv, Recorded, Action, IsRule, SupportedAction
  <2>3. Awaited'
    BY <2>1 DEF FollowInv, Awaited, LabelAfter, Action, IsSkipTo, IsRule, IsLabel
  <2>4. UnresolvedReported'
    <3>1. \A idx : Hanging(idx)' = Hanging(idx)
      BY <2>1 DEF Hanging, Action, IsSkipTo, IsRule, IsLabel
    <3>2. HangingJumps' = HangingJumps
      BY <2>1, <3>1 DEF HangingJumps
    <3>3. Lowest(HangingJumps)' = Lowest(HangingJumps)
      BY <3>2 DEF Lowest
    <3> QED
      BY <2>1, <3>2, <3>3 DEF FollowInv, UnresolvedReported, HangingJumps
  <2> QED
    BY <1>1, <2>2, <2>3, <2>4 DEF FollowInv
<1> QED
  BY <1>1, <1>4, <1>5, <1>6, <1>7, <1>8, <1>9, <1>10, <1>11, AddFollows, LabelFollows
     DEF Next, ReadLine

\* What a build keeps of the jumps it has yet to link is what the script, read
\* so far, leaves open.
THEOREM BuildFollows == Spec => []FollowInv
  BY InitFollow, NextFollow, PTL DEF Spec

\* A build with a jump to nowhere fails, naming the first such line of the
\* ruleset, and no other build fails for that; the policy that lets jumps fall
\* through aside, a program that was built has none.
THEOREM FirstJumpToNowhere == Spec => []UnresolvedReported
  BY BuildFollows, PTL DEF FollowInv

-----------------------------------------------------------------------------
(* The tokens of a rule.                                                   *)

\* Where a kept option goes: the rank is one of the run's places, and no two
\* kept options have the same.
LEMMA RankPlaces ==
  ASSUME NEW options \in Seq(Token), NEW i \in Kept(options)
  PROVE  /\ Rank(options, i) \in 1..Cardinality(Kept(options))
         /\ \A k \in Kept(options) : k < i => Rank(options, k) < Rank(options, i)
<1> DEFINE K == Kept(options)
           Upto(n) == {k \in K : k <= n}
<1>1. Len(options) \in Nat /\ K \subseteq 1..Len(options) /\ IsFiniteSet(K)
  <2>1. Len(options) \in Nat /\ K \subseteq 1..Len(options)
    BY LenProperties DEF Kept
  <2> QED
    BY <2>1, IntervalSize, FS_Subset
<1>2. \A m, n \in Nat : m <= n => Cardinality(Upto(m)) <= Cardinality(Upto(n))
  <2> SUFFICES ASSUME NEW m \in Nat, NEW n \in Nat, m <= n
               PROVE  Cardinality(Upto(m)) <= Cardinality(Upto(n))
    OBVIOUS
  <2>1. Upto(m) \in SUBSET Upto(n)
    BY <1>1
  <2>2. Upto(n) \in SUBSET K
    OBVIOUS
  <2>3. IsFiniteSet(Upto(n))
    BY <1>1, <2>2, FS_Subset
  <2> HIDE DEF Upto
  <2> QED
    BY <2>1, <2>3, FS_Subset
<1>3. \A m, n \in Nat : m <= n => Rank(options, m) <= Rank(options, n)
  BY <1>2 DEF Rank
<1>4. i \in Nat /\ i - 1 \in Nat /\ (i - 1) + 1 = i /\ i <= Len(options)
  BY <1>1
<1>5. Rank(options, i) = Rank(options, i - 1) + 1 /\ Rank(options, i - 1) \in Nat
  BY <1>4, RankSteps
<1>6. Rank(options, i) <= Cardinality(K) /\ Cardinality(K) \in Nat
  BY <1>1, <1>3, <1>4, RankSteps
<1>7. ASSUME NEW k \in K, k < i PROVE Rank(options, k) < Rank(options, i)
  <2>1. k \in Nat /\ k <= i - 1
    BY <1>1, <1>4, <1>7
  <2>2. Rank(options, k) <= Rank(options, i - 1) /\ Rank(options, k) \in Nat
    BY <1>3, <1>4, <2>1, RankSteps
  <2> QED
    BY <1>5, <2>2
<1> QED
  BY <1>5, <1>6, <1>7

\* DropComments leaves the kept options, each where its rank says.
LEMMA DropCommentsKeeps ==
  ASSUME NEW options \in Seq(Token)
  PROVE  /\ Len(DropComments(options)) = Cardinality(Kept(options))
         /\ \A i \in Kept(options) : DropComments(options)[Rank(options, i)] = options[i]
<1>1. Cardinality(Kept(options)) \in Nat /\ Kept(options) \subseteq Nat
  BY RankSteps DEF Kept
<1>2. Len(DropComments(options)) = Cardinality(Kept(options))
  BY <1>1 DEF DropComments
<1>3. ASSUME NEW i \in Kept(options)
      PROVE  DropComments(options)[Rank(options, i)] = options[i]
  <2>1. Rank(options, i) \in 1..Cardinality(Kept(options))
    BY RankPlaces
  <2>2. \A k \in Kept(options) : Rank(options, k) = Rank(options, i) => k = i
    <3> TAKE k \in Kept(options)
    <3>1. k < i => Rank(options, k) < Rank(options, i)
      BY RankPlaces
    <3>2. i < k => Rank(options, i) < Rank(options, k)
      BY RankPlaces
    <3>3. Rank(options, k) \in Nat /\ Rank(options, i) \in Nat /\ k \in Nat /\ i \in Nat
      BY <1>1, RankSteps
    <3> QED
      BY <3>1, <3>2, <3>3
  <2>3. (CHOOSE k \in Kept(options) : Rank(options, k) = Rank(options, i)) = i
    BY <2>2
  <2> QED
    BY <2>1, <2>3 DEF DropComments
<1> QED
  BY <1>2, <1>3

\* The options of a block being contiguous, an option is alone in its block when
\* its neighbours are of others.
LEMMA KeptAreMeaningful ==
  ASSUME NEW line \in Lines
  PROVE  Kept(line.body["options"]) = Meaningful(line.body["options"])
<1> DEFINE o == line.body["options"]
<1>1. Len(o) \in Nat /\ DOMAIN o = 1..Len(o)
  <2>1. "options" \in Arena /\ line \in Line
    BY ConstantsAssumption DEF Arena
  <2>2. o \in Seq(Token)
    BY <2>1 DEF Line
  <2> QED
    BY <2>2, LenProperties
<1>2. \A i, j, k \in 1..Len(o) : i < j /\ j < k /\ o[i].block = o[k].block
                                  => o[j].block = o[i].block
  <2>1. \A i, j, k \in DOMAIN o : i < j /\ j < k /\ o[i].block = o[k].block
                                   => o[j].block = o[i].block
    BY BlocksAreContiguous
  <2> QED
    BY <1>1, <2>1
<1> HIDE DEF o
<1>3. ASSUME NEW i \in 1..Len(o)
      PROVE  Alone(o, i) <=> ~\E k \in 1..Len(o) \ {i} : o[k].block = o[i].block
  <2> PICK n \in Nat : n = Len(o)
    BY <1>1
  <2>0. i \in 1..n
    OBVIOUS
  <2>1. i \in Nat /\ (i # 1 => i - 1 \in 1..n) /\ (i # n => i + 1 \in 1..n)
    BY <2>0
  <2>2. ASSUME Alone(o, i), NEW k \in 1..Len(o), k # i, o[k].block = o[i].block
        PROVE  FALSE
    <3>1. CASE k < i
      <4>0. i # 1
        BY <2>0, <2>2, <3>1
      <4>1. i - 1 \in 1..Len(o) /\ o[i - 1].block # o[i].block
        BY <2>1, <2>2, <4>0 DEF Alone
      <4>2. k # i - 1
        BY <2>2, <4>1
      <4>3. k < i - 1 /\ i - 1 < i
        BY <1>1, <3>1, <4>2
      <4>4. o[i - 1].block = o[k].block
        BY <1>2, <2>2, <4>1, <4>3
      <4> QED
        BY <2>2, <4>1, <4>4
    <3>2. CASE i < k
      <4>0. i # n
        BY <2>0, <2>2, <3>2
      <4>1. i + 1 \in 1..Len(o) /\ o[i + 1].block # o[i].block
        BY <2>1, <2>2, <4>0 DEF Alone
      <4>2. k # i + 1
        BY <2>2, <4>1
      <4>3. i < i + 1 /\ i + 1 < k
        BY <1>1, <3>2, <4>2
      <4>4. o[i + 1].block = o[i].block
        BY <1>2, <2>2, <4>1, <4>3
      <4> QED
        BY <4>1, <4>4
    <3> QED
      BY <1>1, <2>2, <3>1, <3>2
  <2>3. ASSUME ~\E k \in 1..Len(o) \ {i} : o[k].block = o[i].block
        PROVE  Alone(o, i)
    <3>1. i # 1 => o[i - 1].block # o[i].block
      BY <2>1, <2>3
    <3>2. i # Len(o) => o[i + 1].block # o[i].block
      BY <2>1, <2>3
    <3> QED
      BY <3>1, <3>2 DEF Alone
  <2> QED
    BY <2>2, <2>3
<1>4. Kept(o) = Meaningful(o)
  BY <1>3 DEF Kept, Meaningful
<1> QED
  BY <1>4 DEF o

\* A run stays the run it was when its arena grows, and what the arena grew by
\* is a run of its own.
LEMMA RunStays ==
  ASSUME NEW S, NEW s \in Seq(S), NEW t \in Seq(S), NEW m \in Nat, NEW e \in Nat,
         m <= e, e <= Len(s)
  PROVE  SubSeq(s \o t, m + 1, e) = SubSeq(s, m + 1, e)
<1>0. Len(s) \in Nat
  BY LenProperties
<1>1. CASE m = e
  <2>1. m + 1 \in Int /\ e \in Int /\ e < m + 1
    BY <1>1
  <2>2. s \o t \in Seq(S)
    BY ConcatProperties
  <2> QED
    BY <2>1, <2>2, SubSeqEmpty
<1>2. CASE m < e
  <2>1. m + 1 \in 1..Len(s) /\ e \in (m + 1)..Len(s)
    BY <1>0, <1>2
  <2> QED
    BY <2>1, SubSeqOfConcat1
<1> QED
  BY <1>1, <1>2

LEMMA RunLast ==
  ASSUME NEW s \in Seq(Token), NEW t \in Seq(Token)
  PROVE  SubSeq(s \o t, Len(s) + 1, Len(s) + Len(t)) = t
<1>0. PICK m, n : m \in Nat /\ n \in Nat /\ m = Len(s) /\ n = Len(t)
  BY LenProperties
<1>1. /\ s \o t \in Seq(Token)
      /\ \A i \in 1..(m + n) : (s \o t)[i] = IF i <= m THEN s[i] ELSE t[i - m]
  BY <1>0, ConcatProperties
<1>2. \A i \in 1..n : t[i] \in Token
  BY <1>0, ElementOfSeq
<1>3. ASSUME NEW i \in 1..n PROVE (s \o t)[m + i] = t[i]
  <2>1. m + i \in 1..(m + n) /\ ~(m + i <= m) /\ (m + i) - m = i
    BY <1>0
  <2> QED
    BY <1>1, <2>1
<1>4. \A i \in (m + 1)..(m + n) : (s \o t)[i] \in Token
  <2> TAKE i \in (m + 1)..(m + n)
  <2>1. i - m \in 1..n /\ i \in 1..(m + n) /\ ~(i <= m)
    BY <1>0
  <2> QED
    BY <1>1, <1>2, <2>1
<1>first. PICK first \in Int : first = m + 1
  BY <1>0
<1>last. PICK last \in Int : last = m + n
  BY <1>0
<1>cat. PICK c : c = s \o t
  OBVIOUS
<1>5. first \in Int /\ last \in Int /\ c = s \o t /\ first = m + 1 /\ last = m + n
  BY <1>first, <1>last, <1>cat
<1>6. /\ SubSeq(c, first, last) \in Seq(Token)
      /\ Len(SubSeq(c, first, last)) = IF first <= last THEN last - first + 1 ELSE 0
      /\ \A i \in 1..(last - first + 1) : SubSeq(c, first, last)[i] = c[first + i - 1]
  <2>1. \A i \in first..last : c[i] \in Token
    BY <1>4, <1>5
  <2>2. first \in Int /\ last \in Int
    OBVIOUS
  <2> QED
    BY <2>1, <2>2, SubSeqProperties
<1>7. PICK u : u = SubSeq(c, first, last)
  OBVIOUS
<1>8. (first <= last => last - first + 1 = n) /\ (~(first <= last) => n = 0)
  BY <1>0, <1>5
<1>9. Len(u) = n
  BY <1>6, <1>7, <1>8
<1>10. \A i \in 1..n : u[i] = t[i]
  <2> TAKE i \in 1..n
  <2>1. i \in 1..(last - first + 1) /\ first + i - 1 = m + i
    BY <1>0, <1>5
  <2>2. u[i] = c[m + i]
    BY <1>6, <1>7, <2>1
  <2> QED
    BY <1>3, <1>5, <2>2
<1>11. u = t
  BY <1>0, <1>6, <1>7, <1>9, <1>10, SeqEqual
<1> QED
  BY <1>0, <1>5, <1>7, <1>11

\* What of a line's tokens the rule keeps.
OwnBody(line, a) == IF a = "options" THEN DropComments(line.body[a]) ELSE line.body[a]

\* The arenas a rule closes over are those before it and its own tokens.
LEMMA ClosedIs ==
  ASSUME TypeOK, NEW line \in Line, NEW a \in Arena
  PROVE  /\ OwnBody(line, a) \in Seq(Token)
         /\ Closed(Pushed(line))[a] = arenas[a] \o OwnBody(line, a)
<1>1. /\ arenas \in [Arena -> Seq(Token)]
      /\ start = [b \in Arena |-> Len(arenas[b])]
      /\ line.body \in [Arena -> Seq(Token)]
  BY DEF TypeOK, Line
<1>2. OwnBody(line, a) \in Seq(Token)
  BY <1>1, DropCommentsType DEF OwnBody
<1>3. CASE a # "options"
  <2>1. Closed(Pushed(line))[a] = Pushed(line)[a]
    BY <1>3 DEF Closed, Pushed
  <2> QED
    BY <1>2, <1>3, <2>1 DEF Pushed, OwnBody
<1>4. CASE a = "options"
  <2> DEFINE s == arenas[a]
             t == line.body[a]
  <2>1. s \in Seq(Token) /\ t \in Seq(Token) /\ start[a] = Len(s)
    BY <1>1
  <2>2. Pushed(line)[a] = s \o t
    BY DEF Pushed
  <2>3. Len(s \o t) = Len(s) + Len(t)
    BY <2>1, ConcatProperties
  <2>4. SubSeq(s \o t, Len(s) + 1, Len(s \o t)) = t
    BY <2>1, <2>3, RunLast
  <2>5. SubSeq(s \o t, 1, Len(s)) = s
    <3>1. Dropped(Pushed(line))[a] = SubSeq(Pushed(line)[a], 1, start[a])
      BY DEF Dropped
    <3>2. Dropped(Pushed(line))[a] = arenas[a]
      BY DroppedIsNothing
    <3> QED
      BY <2>1, <2>2, <3>1, <3>2
  <2>6. Closed(Pushed(line))[a] = SubSeq(Pushed(line)[a], 1, start[a])
          \o DropComments(SubSeq(Pushed(line)[a], start[a] + 1, Len(Pushed(line)[a])))
    BY <1>4 DEF Closed, Pushed
  <2> QED
    BY <1>2, <1>4, <2>1, <2>2, <2>4, <2>5, <2>6 DEF OwnBody
<1> QED
  BY <1>2, <1>3, <1>4

\* Whether a run holds what a line's tokens of that kind say.
HoldsTokens(run, line, a) ==
  IF a = "options" THEN KeepsMeaningful(run, line.body[a]) ELSE run = line.body[a]

LEMMA KeptHolds ==
  ASSUME NEW line \in Lines, NEW a \in Arena
  PROVE  HoldsTokens(OwnBody(line, a), line, a)
<1>1. line \in Line /\ line.body[a] \in Seq(Token)
  BY ConstantsAssumption DEF Line
<1>2. CASE a # "options"
  BY <1>2 DEF HoldsTokens, OwnBody
<1>3. CASE a = "options"
  <2> DEFINE o == line.body[a]
             K == Kept(o)
  <2>1. K = Meaningful(o)
    BY <1>3, KeptAreMeaningful
  <2>2. /\ Len(DropComments(o)) = Cardinality(K)
        /\ \A i \in K : DropComments(o)[Rank(o, i)] = o[i]
    BY <1>1, DropCommentsKeeps
  <2>3. \A i : Rank(o, i) = Cardinality({k \in K : k <= i})
    BY DEF Rank
  <2> HIDE DEF o, K
  <2>4. KeepsMeaningful(DropComments(o), o)
    BY <2>1, <2>2, <2>3 DEF KeepsMeaningful
  <2> QED
    BY <1>3, <2>4 DEF HoldsTokens, OwnBody, o
<1> QED
  BY <1>2, <1>3

\* The run of the rule holds what its own line says.
Owns(idx, a) == HoldsTokens(Run(a, rules[idx].runs[a]), Action(idx), a)

\* The run of the rule lies inside its arena.
Inside(idx, a) ==
  /\ rules[idx].runs[a].start <= rules[idx].runs[a].end
  /\ rules[idx].runs[a].end <= Len(arenas[a])

\* A run that lies inside its arena is out of reach of what the arena grows by.
RunsAreOwn == \A idx \in 1..Len(rules), a \in Arena : Inside(idx, a) /\ Owns(idx, a)

OwnInv == IInv /\ RunsAreOwn

\* A rule that keeps its runs keeps its tokens, whether its arenas grow or not.
LEMMA RuleStays ==
  ASSUME OwnInv, NEW idx \in 1..Len(rules), NEW a \in Arena, NEW t \in Seq(Token),
         arenas'[a] = arenas[a] \/ arenas'[a] = arenas[a] \o t,
         rules'[idx].runs = rules[idx].runs, Action(idx)' = Action(idx)
  PROVE  (Inside(idx, a) /\ Owns(idx, a))'
<1>1. /\ arenas[a] \in Seq(Token) /\ rules[idx] \in Rule
  BY ElementOfSeq DEF OwnInv, IInv, TypeOK
<1>2. PICK span \in Span : span = rules[idx].runs[a]
  BY <1>1 DEF Rule
<1>3. /\ span.start \in Nat /\ span.end \in Nat
      /\ span.start <= span.end /\ span.end <= Len(arenas[a])
  BY <1>2 DEF Span, OwnInv, RunsAreOwn, Inside
<1>4. rules'[idx].runs[a] = span
  BY <1>2
<1>5. Len(arenas[a]) \in Nat /\ Len(t) \in Nat /\ Len(arenas[a] \o t) = Len(arenas[a]) + Len(t)
  BY <1>1, LenProperties, ConcatProperties
<1>6. Len(arenas[a]) <= Len(arenas'[a])
  BY <1>5
<1>7. SubSeq(arenas'[a], span.start + 1, span.end) = SubSeq(arenas[a], span.start + 1, span.end)
  <2>1. PICK s \in Seq(Token) : s = arenas[a]
    BY <1>1
  <2>2. SubSeq(s \o t, span.start + 1, span.end) = SubSeq(s, span.start + 1, span.end)
    BY <1>3, <2>1, RunStays, ZenonT(60)
  <2> QED
    BY <2>1, <2>2
<1>8. Inside(idx, a)'
  <2>1. Len(arenas'[a]) \in Nat
    BY <1>5
  <2> QED
    BY <1>3, <1>4, <1>5, <1>6, <2>1 DEF Inside
<1>9. Run(a, rules[idx].runs[a])' = Run(a, rules[idx].runs[a])
  BY <1>2, <1>4, <1>7 DEF Run
<1>10. PICK run, line : run = Run(a, rules[idx].runs[a]) /\ line = Action(idx)
  OBVIOUS
<1>11. Owns(idx, a)'
  <2>1. HoldsTokens(run, line, a)
    BY <1>10 DEF OwnInv, RunsAreOwn, Owns
  <2>2. Owns(idx, a)' <=> HoldsTokens(run, line, a)
    BY <1>9, <1>10 DEF Owns, HoldsTokens, KeepsMeaningful, Meaningful
  <2> QED
    BY <2>1, <2>2
<1> QED
  BY <1>8, <1>11

\* A step that leaves the arenas, the runs and the lines behind the rules alone.
LEMMA RestKeepsOwn ==
  ASSUME OwnInv, IInv', arenas' = arenas, Len(rules') = Len(rules),
         \A idx \in 1..Len(rules) :
           rules'[idx].runs = rules[idx].runs /\ Action(idx)' = Action(idx)
  PROVE  OwnInv'
<1>1. <<>> \in Seq(Token)
  OBVIOUS
<1>2. \A idx \in 1..Len(rules), a \in Arena : (Inside(idx, a) /\ Owns(idx, a))'
  BY <1>1, RuleStays
<1> QED
  BY <1>2 DEF OwnInv, RunsAreOwn

\* A rule added closes over the tokens of its line alone.
LEMMA AddOwns ==
  ASSUME OwnInv, IInv', NEW line \in Lines, Add(line)
  PROVE  OwnInv'
<1>0. PICK idx \in Nat : idx = Len(rules) + 1
  BY LenProperties DEF OwnInv, IInv, TypeOK
<1> DEFINE closed == Closed(Pushed(line))
           new == ClosedRule(line, closed)
<1>1. /\ line \in Line /\ script'[Len(script')] = line
      /\ \A i \in 1..Len(script) : script'[i] = script[i]
  BY ReadKeeps DEF OwnInv, IInv, Add
<1>2. /\ arenas' = closed /\ rules' = Append(rules, new)
      /\ records' = Append(records, Len(script'))
  BY DEF Add
<1>3. /\ rules \in Seq(Rule) /\ Len(rules) \in Nat /\ records \in Seq(Nat)
      /\ Len(records) = Len(rules)
      /\ \A i \in 1..Len(records) : records[i] \in 1..Len(script)
      /\ 1..idx = 1..Len(rules) \cup {idx}
  <2>1. 1..idx = 1..Len(rules) \cup {idx}
    BY <1>0, LenProperties, SMTT(20) DEF OwnInv, IInv, TypeOK
  <2> QED
    BY <2>1, LenProperties DEF OwnInv, IInv, TypeOK
<1> HIDE DEF new
<1>4. /\ Len(rules') = idx /\ rules'[idx] = new
      /\ \A i \in 1..Len(rules) : rules'[i] = rules[i]
  BY <1>0, <1>2, <1>3
<1>5. /\ records'[idx] = Len(script')
      /\ \A i \in 1..Len(rules) : records'[i] = records[i]
  BY <1>0, <1>2, <1>3
<1>6. \A i \in 1..Len(rules) : Action(i)' = Action(i)
  BY <1>1, <1>3, <1>5 DEF Action
<1>7. Action(idx)' = line
  BY <1>1, <1>5 DEF Action
<1>8. ASSUME NEW a \in Arena
      PROVE  /\ arenas[a] \in Seq(Token) /\ OwnBody(line, a) \in Seq(Token)
             /\ arenas'[a] = arenas[a] \o OwnBody(line, a)
             /\ start[a] = Len(arenas[a])
  BY <1>1, <1>2, ClosedIs DEF OwnInv, IInv, TypeOK
<1>9. ASSUME NEW i \in 1..Len(rules), NEW a \in Arena PROVE (Inside(i, a) /\ Owns(i, a))'
  <2>1. OwnBody(line, a) \in Seq(Token) /\ arenas'[a] = arenas[a] \o OwnBody(line, a)
    BY <1>8
  <2>2. rules'[i].runs = rules[i].runs /\ Action(i)' = Action(i)
    BY <1>4, <1>6
  <2> QED
    BY <2>1, <2>2, RuleStays
<1>10. ASSUME NEW a \in Arena PROVE (Inside(idx, a) /\ Owns(idx, a))'
  <2>1. new.runs[a] = [start |-> Len(arenas[a]), end |-> Len(arenas'[a])]
    BY <1>2, <1>8 DEF new, ClosedRule
  <2>2. PICK s, t : s \in Seq(Token) /\ t \in Seq(Token) /\ s = arenas[a] /\ t = OwnBody(line, a)
    BY <1>8
  <2>3. /\ arenas'[a] = s \o t /\ Len(s \o t) = Len(s) + Len(t)
        /\ Len(s) \in Nat /\ Len(t) \in Nat
    BY <1>8, <2>2, ConcatProperties, LenProperties
  <2>4. Run(a, rules[idx].runs[a])' = SubSeq(s \o t, Len(s) + 1, Len(s) + Len(t))
    BY <1>4, <2>1, <2>2, <2>3 DEF Run
  <2>5. Run(a, rules[idx].runs[a])' = OwnBody(line, a)
    BY <2>2, <2>4, RunLast
  <2>6. Owns(idx, a)' <=> HoldsTokens(OwnBody(line, a), line, a)
    BY <1>7, <2>5 DEF Owns, HoldsTokens, KeepsMeaningful, Meaningful
  <2>7. Inside(idx, a)'
    BY <1>4, <2>1, <2>2, <2>3 DEF Inside
  <2> QED
    BY <2>6, <2>7, KeptHolds
<1>11. RunsAreOwn'
  BY <1>3, <1>4, <1>9, <1>10 DEF RunsAreOwn
<1> QED
  BY <1>11 DEF OwnInv

\* Linking leaves the runs alone.
LEMMA LinkedKeepsRuns ==
  ASSUME rules \in Seq(Rule), NEW target, rules' = Linked(target)
  PROVE  /\ Len(rules') = Len(rules)
         /\ \A idx \in 1..Len(rules) : rules'[idx].runs = rules[idx].runs
<1>1. Len(rules) \in Nat /\ \A idx \in 1..Len(rules) : rules[idx] \in Rule
  BY LenProperties, ElementOfSeq
<1>2. rules' = [idx \in 1..Len(rules) |->
                  IF idx \in DOMAIN target THEN [rules[idx] EXCEPT !.jump = target[idx]]
                                           ELSE rules[idx]]
  BY DEF Linked
<1>3. Len(rules') = Len(rules)
  BY <1>1, <1>2
<1>4. \A idx \in 1..Len(rules) : rules'[idx].runs = rules[idx].runs
  BY <1>1, <1>2 DEF Rule
<1> QED
  BY <1>3, <1>4

LEMMA NextOwns == OwnInv /\ [Next]_vars => OwnInv'
<1> SUFFICES ASSUME OwnInv, [Next]_vars PROVE OwnInv'
  OBVIOUS
<1>1. IInv /\ TypeOK /\ IInv' /\ rules \in Seq(Rule)
  BY NextIInv DEF OwnInv, IInv, TypeOK
<1>2. ASSUME NEW line \in Lines, Read(line), UNCHANGED records,
             NEW idx \in 1..Len(rules)
      PROVE  Action(idx)' = Action(idx)
  <2>1. records[idx] \in 1..Len(script)
    BY <1>1 DEF TypeOK
  <2> QED
    BY <1>1, <1>2, <2>1, ReadKeeps DEF Action
<1>3. ASSUME NEW line \in Lines, Read(line), NEW kind, Fail(kind) PROVE OwnInv'
  <2>1. arenas' = arenas /\ rules' = rules /\ records' = records
    BY <1>3 DEF Fail, program
  <2> QED
    BY <1>1, <1>2, <1>3, <2>1, RestKeepsOwn
<1>4. ASSUME NEW line \in Lines, ReadOther(line), Len(rules') = Len(rules),
             \A idx \in 1..Len(rules) : rules'[idx].runs = rules[idx].runs
      PROVE  OwnInv'
  <2>1. Read(line) /\ records' = records /\ arenas' = Dropped(Pushed(line))
    BY <1>4 DEF ReadOther
  <2>2. line \in Line
    BY ConstantsAssumption
  <2>3. arenas' = arenas
    BY <1>1, <2>1, <2>2, DroppedIsNothing
  <2> QED
    BY <1>1, <1>2, <1>4, <2>1, <2>3, RestKeepsOwn
<1>5. ASSUME NEW line \in Lines,
             ParseFails(line) \/ UnsupportedRecord(line) \/ AddOutOfOrder(line)
               \/ AddUnsupported(line)
      PROVE  OwnInv'
  BY <1>3, <1>5 DEF ParseFails, UnsupportedRecord, AddOutOfOrder, AddUnsupported
<1>6. ASSUME NEW line \in Lines, Skip(line) \/ TableOther(line) PROVE OwnInv'
  BY <1>4, <1>6 DEF Skip, TableOther
<1>7. ASSUME NEW line \in Lines, TableCreate(line) PROVE OwnInv'
  BY <1>3, <1>4, <1>7 DEF TableCreate
<1>8. ASSUME NEW line \in Lines, TableAdd(line) PROVE OwnInv'
  <2>1. \/ ReadOther(line) /\ rules' = rules
        \/ Read(line) /\ \E kind \in {"registry", "table"} : Fail(kind)
    BY <1>8 DEF TableAdd
  <2> QED
    BY <1>3, <1>4, <2>1
<1>9. ASSUME NEW line \in Lines, Label(line) PROVE OwnInv'
  BY <1>1, <1>4, <1>9, LinkedKeepsRuns DEF Label
<1>10. ASSUME NEW line \in Lines, HookEnds(line) PROVE OwnInv'
  BY <1>1, <1>4, <1>10, LinkedKeepsRuns DEF HookEnds, Finish
<1>11. ASSUME EndOfInput PROVE OwnInv'
  <2>1. arenas' = arenas /\ records' = records /\ script' = script
    <3>1. arenas' = Dropped(arenas) /\ records' = records /\ script' = script
      BY <1>11 DEF EndOfInput
    <3>2. Dropped(arenas) = arenas
      BY <1>1, SubSeqFull DEF Dropped, TypeOK
    <3> QED
      BY <3>1, <3>2
  <2>2. \A idx \in 1..Len(rules) : Action(idx)' = Action(idx)
    BY <2>1 DEF Action
  <2> QED
    BY <1>1, <1>11, <2>1, <2>2, LinkedKeepsRuns, RestKeepsOwn DEF EndOfInput, Finish
<1>12. CASE UNCHANGED vars
  <2>1. UNCHANGED <<arenas, rules, records, script>>
    BY <1>12 DEF vars, program
  <2> QED
    BY <1>1, <2>1, RestKeepsOwn DEF Action
<1> QED
  BY <1>1, <1>5, <1>6, <1>7, <1>8, <1>9, <1>10, <1>11, <1>12, AddOwns DEF Next, ReadLine

\* The runs of every rule lie inside the arenas and hold what its line says.
THEOREM RunsHoldLines == Spec => []OwnInv
<1>1. Init => OwnInv
  BY InitIInv DEF Init, OwnInv, RunsAreOwn
<1> QED
  BY <1>1, NextOwns, PTL DEF Spec

\* A rule is matched by all the tokens of its own line that decide anything, in
\* their order, and by no others.
THEOREM RulesMatchOwnTokens == Spec => []OwnTokens
<1>1. OwnInv => OwnTokens
  BY DEF OwnInv, RunsAreOwn, Owns, HoldsTokens, OwnTokens
<1> QED
  BY <1>1, RunsHoldLines, PTL

-----------------------------------------------------------------------------
(* What the registry took.                                                 *)

\* The functions FlattenSeq is defined by.
IsFlat(f, seqs, n) == f = [i \in 1..n |-> IF i = 1 THEN seqs[i] ELSE f[i - 1] \o seqs[i]]

\* There is one, of any length: the least length without one would follow one
\* that has it.
LEMMA FlatExists ==
  ASSUME NEW seqs, NEW n \in Nat
  PROVE  \E f : IsFlat(f, seqs, n)
<1> DEFINE S == {m \in Nat : ~\E f : IsFlat(f, seqs, m)}
<1> SUFFICES ASSUME S # {} PROVE FALSE
  OBVIOUS
<1>1. PICK m \in S : \A k \in S : <<k, m>> \notin OpToRel(<, Nat)
  <2>1. S \subseteq Nat
    OBVIOUS
  <2> HIDE DEF S
  <2> QED
    BY <2>1, NatLessThanWellFounded, WFMin
<1>2. m \in Nat /\ \A k \in S : ~(k < m)
  BY <1>1 DEF OpToRel
<1>3. CASE m = 0
  <2>1. PICK f : f = [i \in 1..0 |-> 0]
    OBVIOUS
  <2>2. IsFlat(f, seqs, 0)
    BY <2>1 DEF IsFlat
  <2> QED
    BY <1>3, <2>2
<1>4. CASE m # 0
  <2>1. PICK k \in Nat : m = k + 1
    <3>1. m - 1 \in Nat /\ m = (m - 1) + 1
      BY <1>2, <1>4
    <3> QED
      BY <3>1
  <2>2. PICK f : IsFlat(f, seqs, k)
    BY <1>2, <2>1
  <2>3. PICK g : g = [i \in 1..m |-> IF i = 1 THEN seqs[i] ELSE f[i - 1] \o seqs[i]]
    OBVIOUS
  <2>4. ASSUME NEW i \in 1..k PROVE g[i] = f[i]
    <3>1. i \in 1..m
      BY <2>1
    <3>2. g[i] = IF i = 1 THEN seqs[i] ELSE f[i - 1] \o seqs[i]
      BY <2>3, <3>1
    <3>3. f[i] = IF i = 1 THEN seqs[i] ELSE f[i - 1] \o seqs[i]
      BY <2>2 DEF IsFlat
    <3> QED
      BY <3>2, <3>3
  <2>5. \A i \in 1..m : i # 1 => i - 1 \in 1..k
    BY <2>1
  <2>6. g = [i \in 1..m |-> IF i = 1 THEN seqs[i] ELSE g[i - 1] \o seqs[i]]
    BY <2>3, <2>4, <2>5
  <2>7. IsFlat(g, seqs, m)
    BY <2>6 DEF IsFlat
  <2> QED
    BY <2>7
<1> QED
  BY <1>3, <1>4

\* Two of them are the same as far as what they flatten is.
LEMMA FlatUnique ==
  ASSUME NEW f, NEW g, NEW seqs, NEW more, NEW n \in Nat, NEW m \in Nat, n <= m,
         IsFlat(f, seqs, n), IsFlat(g, more, m), \A i \in 1..n : seqs[i] = more[i]
  PROVE  \A i \in 1..n : f[i] = g[i]
<1> DEFINE S == {i \in 1..n : f[i] # g[i]}
<1> SUFFICES ASSUME S # {} PROVE FALSE
  OBVIOUS
<1>1. PICK i \in S : \A k \in S : <<k, i>> \notin OpToRel(<, Nat)
  <2>1. S \subseteq Nat
    OBVIOUS
  <2> HIDE DEF S
  <2> QED
    BY <2>1, NatLessThanWellFounded, WFMin
<1>2. i \in 1..n /\ i \in 1..m /\ f[i] # g[i] /\ \A k \in S : ~(k < i)
  <2>1. i \in Nat /\ S \subseteq Nat
    OBVIOUS
  <2>2. \A k \in S : ~(k < i)
    <3> HIDE DEF S
    <3> QED
      BY <1>1, <2>1 DEF OpToRel
  <2> QED
    BY <2>2
<1>3. f[i] = IF i = 1 THEN seqs[i] ELSE f[i - 1] \o seqs[i]
  BY <1>2 DEF IsFlat
<1>4. g[i] = IF i = 1 THEN more[i] ELSE g[i - 1] \o more[i]
  BY <1>2 DEF IsFlat
<1>5. i # 1 => f[i - 1] = g[i - 1]
  <2>1. i # 1 => i - 1 \in 1..n /\ i - 1 < i
    BY <1>2
  <2> QED
    BY <1>2, <2>1
<1> QED
  BY <1>2, <1>3, <1>4, <1>5

LEMMA FlattenIs ==
  ASSUME NEW seqs, NEW n \in Nat, n # 0, Len(seqs) = n
  PROVE  \E f : IsFlat(f, seqs, n) /\ FlattenSeq(seqs) = f[n]
<1>1. \E f : f = [i \in 1..Len(seqs) |-> IF i = 1 THEN seqs[i] ELSE f[i - 1] \o seqs[i]]
  BY FlatExists DEF IsFlat
<1> DEFINE flat == CHOOSE f : f = [i \in 1..Len(seqs) |->
                                     IF i = 1 THEN seqs[i] ELSE f[i - 1] \o seqs[i]]
<1>2. flat = [i \in 1..Len(seqs) |-> IF i = 1 THEN seqs[i] ELSE flat[i - 1] \o seqs[i]]
  BY <1>1
<1>3. FlattenSeq(seqs) = flat[Len(seqs)]
  BY DEF FlattenSeq
<1> HIDE DEF flat
<1>4. IsFlat(flat, seqs, n)
  BY <1>2 DEF IsFlat
<1> QED
  BY <1>3, <1>4

\* The sequences are n others and then one of entries.
OneMore(more, seqs, n) ==
  /\ Len(seqs) = n /\ Len(more) = n + 1 /\ (n = 0 => seqs = <<>>)
  /\ \A i \in 1..n : more[i] = seqs[i]
  /\ more[n + 1] \in Seq(Entry)

\* It is appended to what the others flatten to.
LEMMA FlattenOneMore ==
  ASSUME NEW seqs, NEW more, NEW n \in Nat, OneMore(more, seqs, n)
  PROVE  FlattenSeq(more) = FlattenSeq(seqs) \o more[n + 1]
<1> USE DEF OneMore
<1>1. PICK g : IsFlat(g, more, n + 1) /\ FlattenSeq(more) = g[n + 1]
  BY FlattenIs
<1>2. g[n + 1] = IF n + 1 = 1 THEN more[n + 1] ELSE g[(n + 1) - 1] \o more[n + 1]
  <2>1. n + 1 \in 1..(n + 1)
    OBVIOUS
  <2> QED
    BY <1>1, <2>1 DEF IsFlat
<1>3. CASE n = 0
  <2>1. FlattenSeq(seqs) = <<>>
    BY <1>3 DEF FlattenSeq
  <2>2. <<>> \o more[n + 1] = more[n + 1]
    BY ConcatEmptySeq
  <2> QED
    BY <1>1, <1>2, <1>3, <2>1, <2>2
<1>4. CASE n # 0
  <2>1. PICK f : IsFlat(f, seqs, n) /\ FlattenSeq(seqs) = f[n]
    BY <1>4, FlattenIs
  <2>2. n <= n + 1 /\ n \in 1..n /\ n + 1 # 1 /\ (n + 1) - 1 = n
    BY <1>4
  <2>3. f[n] = g[n]
    BY <1>1, <2>1, <2>2, FlatUnique
  <2> QED
    BY <1>1, <1>2, <2>1, <2>2, <2>3
<1> QED
  BY <1>3, <1>4

\* What the first lines ask of the registry.
UpTo(n) == FlattenSeq([i \in 1..n |-> Asked(i)])

\* A prefix and what is appended to it.
LEMMA PrefixOfMore ==
  ASSUME NEW S, NEW s \in Seq(S), NEW t \in Seq(S)
  PROVE  IsPrefix(s, s) /\ IsPrefix(s, s \o t)
<1>1. Len(s) \in Nat /\ Len(t) \in Nat /\ Len(s \o t) = Len(s) + Len(t)
  BY LenProperties, ConcatProperties
<1>2. SubSeq(s \o t, 1, Len(s)) = SubSeq(s, 1, Len(s))
  <2>1. SubSeq(s \o t, 0 + 1, Len(s)) = SubSeq(s, 0 + 1, Len(s))
    BY <1>1, RunStays
  <2> QED
    BY <2>1
<1> QED
  BY <1>1, <1>2 DEF IsPrefix

\* Some of what is appended, not all of it, makes a prefix that falls short.
LEMMA PartFallsShort ==
  ASSUME NEW S, NEW s \in Seq(S), NEW t \in Seq(S), NEW k \in 0..(Len(t) - 1)
  PROVE  /\ IsPrefix(s \o SubSeq(t, 1, k), s \o t)
         /\ s \o SubSeq(t, 1, k) # s \o t
         /\ IsPrefix(s, s \o SubSeq(t, 1, k))
<1>0. PICK m, n : m \in Nat /\ n \in Nat /\ m = Len(s) /\ n = Len(t)
  BY LenProperties
<1>1. k \in Nat /\ k < n
  BY <1>0
<1>2. PICK p : p = SubSeq(t, 1, k)
  OBVIOUS
<1>3. p \in Seq(S) /\ Len(p) = k /\ \A i \in 1..k : p[i] = t[i]
  <2>1. 1 \in Int /\ k \in Int
    BY <1>1
  <2>2. \A i \in 1..k : t[i] \in S
    BY <1>0, <1>1, ElementOfSeq
  <2>3. /\ SubSeq(t, 1, k) \in Seq(S)
        /\ Len(SubSeq(t, 1, k)) = IF 1 <= k THEN k - 1 + 1 ELSE 0
        /\ \A i \in 1..(k - 1 + 1) : SubSeq(t, 1, k)[i] = t[1 + i - 1]
    BY <2>1, <2>2, SubSeqProperties
  <2>4. \A i \in 1..k : i \in 1..(k - 1 + 1) /\ 1 + i - 1 = i
    BY <1>1
  <2> QED
    BY <1>1, <1>2, <2>3, <2>4
<1>4. PICK u, v : u = s \o p /\ v = s \o t
  OBVIOUS
<1>5. /\ u \in Seq(S) /\ Len(u) = m + k
      /\ \A i \in 1..(m + k) : u[i] = IF i <= m THEN s[i] ELSE p[i - m]
  BY <1>0, <1>3, <1>4, ConcatProperties
<1>6. /\ v \in Seq(S) /\ Len(v) = m + n
      /\ \A i \in 1..(m + n) : v[i] = IF i <= m THEN s[i] ELSE t[i - m]
  BY <1>0, <1>4, ConcatProperties
<1>7. ASSUME NEW i \in 1..(m + k) PROVE u[i] = v[i] /\ v[i] \in S
  <2>1. i \in 1..(m + n) /\ (~(i <= m) => i - m \in 1..k)
    BY <1>0, <1>1
  <2>2. v[i] \in S
    BY <1>6, <2>1, ElementOfSeq
  <2> QED
    BY <1>3, <1>5, <1>6, <2>1, <2>2
<1>8. PICK e \in Nat : e = m + k
  BY <1>0, <1>1
<1>9. SubSeq(v, 1, e) = SubSeq(u, 1, e)
  <2>1. SubSeq(u, 1, e) = u
    BY <1>5, <1>8, SubSeqFull
  <2>2. PICK w : w = SubSeq(v, 1, e)
    OBVIOUS
  <2>3. 1 \in Int /\ e \in Int /\ \A i \in 1..e : v[i] \in S
    BY <1>7, <1>8
  <2>4. /\ SubSeq(v, 1, e) \in Seq(S)
        /\ Len(SubSeq(v, 1, e)) = IF 1 <= e THEN e - 1 + 1 ELSE 0
        /\ \A i \in 1..(e - 1 + 1) : SubSeq(v, 1, e)[i] = v[1 + i - 1]
    BY <2>3, SubSeqProperties
  <2>5. \A i \in 1..e : i \in 1..(e - 1 + 1) /\ 1 + i - 1 = i
    OBVIOUS
  <2>6. w \in Seq(S) /\ Len(w) = e /\ \A i \in 1..e : w[i] = u[i]
    BY <1>7, <1>8, <2>2, <2>4, <2>5
  <2>7. w = u
    BY <1>5, <1>8, <2>6, SeqEqual
  <2> QED
    BY <2>1, <2>2, <2>7
<1>10. Len(u) <= Len(v) /\ Len(u) # Len(v)
  BY <1>0, <1>1, <1>5, <1>6
<1>11. IsPrefix(u, v) /\ u # v
  BY <1>5, <1>8, <1>9, <1>10 DEF IsPrefix
<1>12. IsPrefix(s, s \o p)
  BY <1>3, PrefixOfMore
<1> QED
  BY <1>2, <1>4, <1>11, <1>12

\* A set of lines that is not empty has a last one.
LEMMA GreatestOne ==
  ASSUME NEW n \in Nat, NEW S \in SUBSET (1..n), S # {}
  PROVE  \E j \in S : \A k \in S : k <= j
<1> DEFINE U == {u \in 0..n : \A k \in S : k <= u}
<1>1. n \in U /\ U \subseteq Nat
  OBVIOUS
<1> HIDE DEF U
<1>2. PICK u \in U : \A k \in U : <<k, u>> \notin OpToRel(<, Nat)
  BY <1>1, NatLessThanWellFounded, WFMin
<1>3. \A k \in U : ~(k < u)
  BY <1>1, <1>2 DEF OpToRel
<1>4. u \in 0..n /\ \A k \in S : k <= u
  BY <1>2 DEF U
<1>5. u \in S
  <2> SUFFICES ASSUME u \notin S PROVE FALSE
    OBVIOUS
  <2>1. ASSUME NEW k \in S PROVE k <= u - 1 /\ k >= 1
    <3>1. k \in 1..n /\ k <= u /\ k # u /\ u \in Nat
      BY <1>4
    <3> QED
      BY <3>1
  <2>2. u - 1 \in 0..n
    <3>1. PICK k \in S : TRUE
      OBVIOUS
    <3>2. k \in Nat /\ 1 <= k /\ k <= u - 1 /\ u \in Nat /\ u <= n
      BY <1>4, <2>1
    <3> QED
      BY <3>2
  <2>3. u - 1 \in U
    BY <2>1, <2>2 DEF U
  <2> QED
    BY <1>3, <1>4, <2>3
<1> QED
  BY <1>4, <1>5

\* The creates of a table among the first lines, and what the last of them says.
CreatesOf(t, n) == {j \in 1..n : IsCreate(script[j]) /\ script[j].table = t}
LastOf(lines) == CHOOSE j \in lines : \A k \in lines : k <= j
TypeAt(t, n) ==
  IF CreatesOf(t, n) = {} THEN "addr" ELSE CreatedType(script[LastOf(CreatesOf(t, n))])

\* The types the build works by are those the lines before say.
TypesFollow ==
  status = "reading" =>
    \A t \in Tables : tableTypes[t] = "iface" <=> TypeAt(t, Len(script)) = "iface"

EntriesInv == IInv /\ TypesFollow /\ EntriesFollowScript

\* What a line asks for depends on the type by nothing but whether its table is
\* one of interfaces.
LEMMA LineAsks ==
  ASSUME IInv, NEW line \in Lines, Read(line), NEW m, m = Len(script)
  PROVE  /\ m \in Nat /\ Len(script') = m + 1
         /\ \A t : TypeAt(t, m + 1)' = IF IsCreate(line) /\ line.table = t
                                       THEN CreatedType(line) ELSE TypeAt(t, m)
         /\ UpTo(m)' = UpTo(m)
         /\ UpTo(m + 1)' =
              UpTo(m) \o (IF IsAdd(line) THEN Updates(line, TypeAt(line.table, m)) ELSE <<>>)
<1>1. /\ Len(script') = m + 1 /\ m \in Nat /\ line \in Line /\ script'[m + 1] = line
      /\ \A i \in 1..m : script'[i] = script[i]
  BY ReadKeeps DEF IInv
<1>2. ASSUME NEW t, NEW n \in 0..m PROVE CreatesOf(t, n)' = CreatesOf(t, n)
  <2>1. \A i \in 1..n : i \in 1..m
    BY <1>1
  <2> QED
    BY <1>1, <2>1 DEF CreatesOf, IsCreate
<1>3. ASSUME NEW t, NEW n \in 0..m, CreatesOf(t, n) # {}
      PROVE  LastOf(CreatesOf(t, n)) \in 1..n
  <2>1. CreatesOf(t, n) \subseteq 1..n /\ n \in Nat
    BY <1>1 DEF CreatesOf
  <2>2. PICK S : S = CreatesOf(t, n)
    OBVIOUS
  <2>3. \E j \in S : \A k \in S : k <= j
    <3>1. S \in SUBSET (1..n) /\ S # {}
      BY <1>3, <2>1, <2>2
    <3> QED
      BY <2>1, <3>1, GreatestOne
  <2>4. LastOf(S) \in S
    BY <2>3 DEF LastOf
  <2> QED
    BY <2>1, <2>2, <2>4
<1>4. ASSUME NEW t, NEW n \in 0..m PROVE TypeAt(t, n)' = TypeAt(t, n)
  <2>1. PICK S : S = CreatesOf(t, n) /\ S = CreatesOf(t, n)'
    BY <1>2
  <2>2. LastOf(CreatesOf(t, n))' = LastOf(S)
    BY <2>1 DEF LastOf
  <2>3. ASSUME S # {} PROVE LastOf(S) \in 1..m
    <3>1. LastOf(S) \in 1..n
      BY <1>3, <2>1, <2>3
    <3> QED
      BY <1>1, <3>1
  <2>4. S # {} => script'[LastOf(S)] = script[LastOf(S)]
    BY <1>1, <2>3
  <2> QED
    BY <2>1, <2>2, <2>4 DEF TypeAt, CreatedType
<1>5. ASSUME NEW t
      PROVE  TypeAt(t, m + 1)' = IF IsCreate(line) /\ line.table = t
                                 THEN CreatedType(line) ELSE TypeAt(t, m)
  <2>0. m \in 0..m
    BY <1>1
  <2>1. CreatesOf(t, m + 1)' = {j \in 1..(m + 1) : IsCreate(script'[j]) /\ script'[j].table = t}
    BY DEF CreatesOf, IsCreate
  <2>2. 1..(m + 1) = 1..m \cup {m + 1}
    BY <1>1
  <2>3. CASE IsCreate(line) /\ line.table = t
    <3>1. PICK S : S = CreatesOf(t, m + 1)'
      OBVIOUS
    <3>2. m + 1 \in S /\ \A k \in S : k <= m + 1
      BY <1>1, <2>1, <2>2, <2>3, <3>1
    <3>3. LastOf(S) = m + 1
      <4>1. \A j \in S : (\A k \in S : k <= j) => j = m + 1
        <5>1. S \subseteq Nat
          BY <2>1, <3>1
        <5> QED
          BY <1>1, <3>2, <5>1
      <4> QED
        BY <3>2, <4>1 DEF LastOf
    <3>4. LastOf(CreatesOf(t, m + 1))' = LastOf(S)
      BY <3>1 DEF LastOf
    <3> QED
      BY <1>1, <2>3, <3>1, <3>2, <3>3, <3>4 DEF TypeAt, CreatedType
  <2>4. CASE ~(IsCreate(line) /\ line.table = t)
    <3>1. CreatesOf(t, m + 1)' = CreatesOf(t, m)'
      <4>1. CreatesOf(t, m)' = {j \in 1..m : IsCreate(script'[j]) /\ script'[j].table = t}
        BY DEF CreatesOf, IsCreate
      <4> QED
        BY <1>1, <2>1, <2>2, <2>4, <4>1
    <3>2. PICK S : S = CreatesOf(t, m + 1)' /\ S = CreatesOf(t, m)'
      BY <3>1
    <3>3. PICK last : last = LastOf(S)
      OBVIOUS
    <3>4. LastOf(CreatesOf(t, m + 1))' = last /\ LastOf(CreatesOf(t, m))' = last
      BY <3>2, <3>3 DEF LastOf
    <3>5. TypeAt(t, m + 1)' = TypeAt(t, m)'
      BY <3>2, <3>4 DEF TypeAt, CreatedType
    <3> QED
      BY <1>4, <2>0, <2>4, <3>5
  <2> QED
    BY <2>3, <2>4
<1>6. \A i : Asked(i) = IF IsAdd(script[i])
                        THEN Updates(script[i], TypeAt(script[i].table, i - 1)) ELSE <<>>
  BY DEF Asked, TypeAt, CreatesOf, LastOf
<1>7. \A i, t : t = script'[i].table =>
        Asked(i)' = IF IsAdd(script'[i]) THEN Updates(script'[i], TypeAt(t, i - 1)') ELSE <<>>
  BY DEF Asked, TypeAt, CreatesOf, LastOf, IsAdd, IsCreate, CreatedType, Updates
<1>8. ASSUME NEW i \in 1..m PROVE Asked(i)' = Asked(i)
  <2>1. script'[i] = script[i] /\ i - 1 \in 0..m
    BY <1>1
  <2>2. PICK t : t = script[i].table
    OBVIOUS
  <2>3. TypeAt(t, i - 1)' = TypeAt(t, i - 1)
    BY <1>4, <2>1
  <2>4. Asked(i)' = IF IsAdd(script[i]) THEN Updates(script[i], TypeAt(t, i - 1)') ELSE <<>>
    BY <1>7, <2>1, <2>2
  <2> QED
    BY <1>6, <2>2, <2>3, <2>4
<1>9. Asked(m + 1)' = IF IsAdd(line) THEN Updates(line, TypeAt(line.table, m)) ELSE <<>>
  <2>1. (m + 1) - 1 = m /\ m \in 0..m
    BY <1>1
  <2>2. PICK t : t = line.table
    OBVIOUS
  <2>3. TypeAt(t, m)' = TypeAt(t, m)
    BY <1>4, <2>1
  <2>4. Asked(m + 1)' = IF IsAdd(line) THEN Updates(line, TypeAt(t, m)') ELSE <<>>
    BY <1>1, <1>7, <2>1, <2>2
  <2> QED
    BY <2>2, <2>3, <2>4
<1>10. Asked(m + 1)' \in Seq(Entry)
  <2>1. Updates(line, TypeAt(line.table, m)) \in Seq(Entry) /\ <<>> \in Seq(Entry)
    BY <1>1, UpdatesType
  <2> QED
    BY <1>9, <2>1
<1>11. PICK seqs, more : /\ seqs = [i \in 1..m |-> Asked(i)]
                         /\ more = [i \in 1..(m + 1) |-> Asked(i)']
  OBVIOUS
<1>12. seqs = [i \in 1..m |-> Asked(i)'] /\ \A i \in 1..m : more[i] = seqs[i]
  BY <1>1, <1>8, <1>11
<1>13. UpTo(m)' = FlattenSeq(seqs) /\ UpTo(m) = FlattenSeq(seqs)
  BY <1>11, <1>12 DEF UpTo
<1>14. UpTo(m + 1)' = FlattenSeq(more)
  BY <1>11 DEF UpTo
<1>15. FlattenSeq(more) = FlattenSeq(seqs) \o Asked(m + 1)'
  <2>1. PICK last \in Seq(Entry) : last = Asked(m + 1)'
    BY <1>10
  <2>2. Len(seqs) = m /\ Len(more) = m + 1 /\ more[m + 1] = last /\ (m = 0 => seqs = <<>>)
    BY <1>1, <1>11, <2>1
  <2>3. m \in Nat /\ OneMore(more, seqs, m)
    BY <1>1, <1>12, <2>2 DEF OneMore
  <2>4. FlattenSeq(more) = FlattenSeq(seqs) \o more[m + 1]
    BY <2>3, FlattenOneMore
  <2> QED
    BY <2>1, <2>2, <2>4
<1> QED
  BY <1>1, <1>5, <1>9, <1>13, <1>14, <1>15

\* A line that is read without a failure asks what the registry takes.
LEMMA EntriesGo ==
  ASSUME EntriesInv, NEW line \in Lines, Read(line),
         entries' = entries \o (IF IsAdd(line) THEN Updates(line, tableTypes[line.table])
                                ELSE <<>>),
         status' # "failed" \/ failure'.kind = "unresolved"
  PROVE  EntriesFollowScript'
<1>1. PICK m : m = Len(script)
  OBVIOUS
<1>2. /\ m \in Nat /\ Len(script') = m + 1
      /\ UpTo(m + 1)' =
           UpTo(m) \o (IF IsAdd(line) THEN Updates(line, TypeAt(line.table, m)) ELSE <<>>)
  BY <1>1, LineAsks DEF EntriesInv
<1>3. status = "reading" /\ line.table \in Tables
  BY ConstantsAssumption DEF Read, Line
<1>4. entries = UpTo(m)
  BY <1>1, <1>3 DEF EntriesInv, EntriesFollowScript, UpTo
<1>5. Updates(line, tableTypes[line.table]) = Updates(line, TypeAt(line.table, m))
  <2>1. tableTypes[line.table] = "iface" <=> TypeAt(line.table, m) = "iface"
    BY <1>1, <1>3 DEF EntriesInv, TypesFollow
  <2> QED
    BY <2>1 DEF Updates
<1>6. entries' = UpTo(Len(script))'
  <2>1. UpTo(Len(script))' = UpTo(m + 1)'
    BY <1>2 DEF UpTo
  <2> QED
    BY <1>2, <1>4, <1>5, <2>1
<1> QED
  BY <1>6 DEF EntriesFollowScript, UpTo

\* The types go on as the creates say.
LEMMA TypesGo ==
  ASSUME EntriesInv, NEW line \in Lines, Read(line),
         \A t \in Tables : tableTypes'[t] = IF IsCreate(line) /\ line.table = t
                                            THEN CreatedType(line) ELSE tableTypes[t]
  PROVE  TypesFollow'
<1>1. PICK m : m = Len(script)
  OBVIOUS
<1>2. /\ m \in Nat /\ Len(script') = m + 1
      /\ \A t : TypeAt(t, m + 1)' = IF IsCreate(line) /\ line.table = t
                                    THEN CreatedType(line) ELSE TypeAt(t, m)
  BY <1>1, LineAsks DEF EntriesInv
<1>3. status = "reading"
  BY DEF Read
<1>4. ASSUME NEW t \in Tables
      PROVE  tableTypes'[t] = "iface" <=> TypeAt(t, Len(script))' = "iface"
  <2>1. TypeAt(t, Len(script))' = TypeAt(t, m + 1)'
    BY <1>2 DEF TypeAt, CreatesOf, LastOf
  <2>2. tableTypes[t] = "iface" <=> TypeAt(t, m) = "iface"
    BY <1>1, <1>3 DEF EntriesInv, TypesFollow
  <2> QED
    BY <1>2, <2>1, <2>2
<1> QED
  BY <1>4 DEF TypesFollow

\* What a line that fails leaves in the registry.
LEMMA FailedEntries ==
  ASSUME EntriesInv, IInv', NEW line \in Lines, Read(line), NEW kind, Fail(kind),
         kind # "unresolved",
         \/ kind # "registry" /\ entries' = entries
         \/ /\ kind = "registry" /\ IsAdd(line)
            /\ \E k \in 0..(Len(Updates(line, tableTypes[line.table])) - 1) :
                 entries' = entries \o SubSeq(Updates(line, tableTypes[line.table]), 1, k)
  PROVE  EntriesInv'
<1>1. PICK m : m = Len(script)
  OBVIOUS
<1>2. /\ m \in Nat /\ Len(script') = m + 1
      /\ UpTo(m)' = UpTo(m)
      /\ UpTo(m + 1)' =
           UpTo(m) \o (IF IsAdd(line) THEN Updates(line, TypeAt(line.table, m)) ELSE <<>>)
  BY <1>1, LineAsks DEF EntriesInv
<1>3. status = "reading" /\ line.table \in Tables /\ line \in Line
  BY ConstantsAssumption DEF Read, Line
<1>4. entries = UpTo(m) /\ entries \in Seq(Entry)
  BY <1>1, <1>3 DEF EntriesInv, EntriesFollowScript, UpTo, IInv, TypeOK
<1>5. PICK updates \in Seq(Entry) : /\ updates = Updates(line, tableTypes[line.table])
                                    /\ updates = Updates(line, TypeAt(line.table, m))
  <2>1. tableTypes[line.table] = "iface" <=> TypeAt(line.table, m) = "iface"
    BY <1>1, <1>3 DEF EntriesInv, TypesFollow
  <2>2. Updates(line, tableTypes[line.table]) = Updates(line, TypeAt(line.table, m))
    BY <2>1 DEF Updates
  <2>3. Updates(line, tableTypes[line.table]) \in Seq(Entry)
    BY <1>3, UpdatesType
  <2> QED
    BY <2>2, <2>3
<1>6. /\ status' = "failed" /\ failure'.kind = kind
      /\ UpTo(Len(script) - 1)' = entries
      /\ UpTo(Len(script))' = entries \o (IF IsAdd(line) THEN updates ELSE <<>>)
  <2>1. status' = "failed" /\ failure'.kind = kind
    BY DEF Fail
  <2>2. Len(script') - 1 = m
    BY <1>2
  <2>3. UpTo(Len(script) - 1)' = UpTo(m)' /\ UpTo(Len(script))' = UpTo(m + 1)'
    BY <1>2, <2>2 DEF UpTo
  <2> QED
    BY <1>2, <1>4, <1>5, <2>1, <2>3
<1>7. IsPrefix(entries, entries')
  <2>1. CASE kind # "registry"
    BY <1>4, <2>1, PrefixOfMore
  <2>2. CASE kind = "registry"
    <3>1. PICK k \in 0..(Len(updates) - 1) : entries' = entries \o SubSeq(updates, 1, k)
      BY <1>5, <2>2
    <3> QED
      BY <1>4, <3>1, PartFallsShort
  <2> QED
    BY <2>1, <2>2
<1>8. ASSUME kind = "registry"
      PROVE  entries' # entries \o updates /\ IsPrefix(entries', entries \o updates)
             /\ IsAdd(line)
  <2>1. PICK k \in 0..(Len(updates) - 1) : entries' = entries \o SubSeq(updates, 1, k)
    BY <1>5, <1>8
  <2> QED
    BY <1>4, <1>8, <2>1, PartFallsShort
<1>9. /\ IsPrefix(UpTo(Len(script) - 1)', entries')
      /\ kind = "registry" => entries' # UpTo(Len(script))' /\ IsPrefix(entries', UpTo(Len(script))')
      /\ kind # "registry" => entries' = UpTo(Len(script) - 1)'
  BY <1>6, <1>7, <1>8
<1>10. EntriesFollowScript'
  BY <1>6, <1>9 DEF EntriesFollowScript, UpTo, IsPrefix
<1>11. TypesFollow'
  BY <1>6 DEF TypesFollow
<1> QED
  BY <1>10, <1>11 DEF EntriesInv

LEMMA NextEntries == EntriesInv /\ [Next]_vars => EntriesInv'
<1> SUFFICES ASSUME EntriesInv, [Next]_vars PROVE EntriesInv'
  OBVIOUS
<1>1. IInv /\ TypeOK /\ IInv' /\ entries \in Seq(Entry)
      /\ tableTypes \in [Tables -> {"unset", "addr", "iface"}]
  BY NextIInv DEF EntriesInv, IInv, TypeOK
<1>2. \A line \in Lines : line \in Line /\ line.table \in Tables
  BY ConstantsAssumption DEF Line
<1>3. entries \o <<>> = entries
  BY <1>1, ConcatEmptySeq
\* A line that neither creates a table nor adds to one, and does not fail.
<1>4. ASSUME NEW line \in Lines, Read(line), ~IsAdd(line), ~IsCreate(line),
             UNCHANGED tables, status' # "failed" \/ failure'.kind = "unresolved"
      PROVE  EntriesInv'
  <2>1. entries' = entries /\ tableTypes' = tableTypes
    BY <1>4 DEF tables
  <2>2. EntriesFollowScript'
    BY <1>3, <1>4, <2>1, EntriesGo
  <2>3. TypesFollow'
    BY <1>4, <2>1, TypesGo
  <2> QED
    BY <1>1, <2>2, <2>3 DEF EntriesInv
<1>5. ASSUME NEW line \in Lines, Read(line), GoOn
      PROVE  status' # "failed"
  BY <1>5 DEF Read, GoOn
<1>6. ASSUME NEW line \in Lines,
             ParseFails(line) \/ UnsupportedRecord(line) \/ AddOutOfOrder(line)
               \/ AddUnsupported(line)
      PROVE  EntriesInv'
  BY <1>1, <1>6, FailedEntries DEF ParseFails, UnsupportedRecord, AddOutOfOrder, AddUnsupported
<1>7. ASSUME NEW line \in Lines, Skip(line) PROVE EntriesInv'
  BY <1>4, <1>5, <1>7 DEF Skip, ReadOther, IsAdd, IsCreate
<1>8. ASSUME NEW line \in Lines, Add(line) PROVE EntriesInv'
  <2>1. Read(line) /\ IsRule(line) /\ GoOn /\ UNCHANGED tables
    BY <1>8 DEF Add, tables
  <2> QED
    BY <1>4, <1>5, <2>1 DEF IsRule, IsAdd, IsCreate
<1>9. ASSUME NEW line \in Lines, Label(line) PROVE EntriesInv'
  BY <1>4, <1>5, <1>9 DEF Label, ReadOther, IsLabel, IsAdd, IsCreate
<1>10. ASSUME NEW line \in Lines, TableOther(line) PROVE EntriesInv'
  BY <1>4, <1>5, <1>10 DEF TableOther, ReadOther, IsAdd, IsCreate
<1>11. ASSUME NEW line \in Lines, HookEnds(line) PROVE EntriesInv'
  <2>1. Read(line) /\ UNCHANGED tables /\ ~IsAdd(line) /\ ~IsCreate(line)
    BY <1>11 DEF HookEnds, ReadOther, Finish, IsAdd, IsCreate
  <2>2. status' # "failed" \/ failure'.kind = "unresolved"
    BY <1>11 DEF HookEnds, Finish
  <2> QED
    BY <1>4, <2>1, <2>2
<1>12. ASSUME NEW line \in Lines, TableCreate(line) PROVE EntriesInv'
  <2>1. CASE line.type # "other"
    <3>1. /\ IsCreate(line) /\ ~IsAdd(line) /\ Read(line) /\ GoOn /\ entries' = entries
          /\ tableTypes' = TypesAfter(line)
      BY <1>12, <2>1 DEF TableCreate, ReadOther, IsCreate, IsAdd
    <3>2. EntriesFollowScript'
      BY <1>3, <1>5, <3>1, EntriesGo
    <3>3. \A t \in Tables : tableTypes'[t] = IF IsCreate(line) /\ line.table = t
                                             THEN CreatedType(line) ELSE tableTypes[t]
      BY <1>1, <3>1 DEF TypesAfter
    <3>4. TypesFollow'
      BY <3>1, <3>3, TypesGo
    <3> QED
      BY <1>1, <3>2, <3>4 DEF EntriesInv
  <2>2. CASE line.type = "other"
    BY <1>1, <1>12, <2>2, FailedEntries DEF TableCreate
  <2> QED
    BY <2>1, <2>2
<1>13. ASSUME NEW line \in Lines, TableAdd(line) PROVE EntriesInv'
  <2>1. IsAdd(line) /\ ~IsCreate(line) /\ Read(line)
    BY <1>13 DEF TableAdd, ReadOther, IsAdd, IsCreate
  <2> PICK updates : updates = Updates(line, tableTypes[line.table])
    OBVIOUS
  <2>2. \/ GoOn /\ entries' = entries \o updates /\ tableTypes' = tableTypes
        \/ /\ Fail("registry")
           /\ \E k \in 0..(Len(updates) - 1) : entries' = entries \o SubSeq(updates, 1, k)
        \/ Fail("table") /\ entries' = entries
    BY <1>13 DEF TableAdd
  <2>3. CASE GoOn /\ entries' = entries \o updates /\ tableTypes' = tableTypes
    <3>1. EntriesFollowScript'
      BY <1>5, <2>1, <2>3, EntriesGo
    <3>2. TypesFollow'
      BY <2>1, <2>3, TypesGo
    <3> QED
      BY <1>1, <3>1, <3>2 DEF EntriesInv
  <2>4. CASE /\ Fail("registry")
             /\ \E k \in 0..(Len(updates) - 1) : entries' = entries \o SubSeq(updates, 1, k)
    BY <1>1, <2>1, <2>4, FailedEntries
  <2>5. CASE Fail("table") /\ entries' = entries
    BY <1>1, <2>1, <2>5, FailedEntries
  <2> QED
    BY <2>2, <2>3, <2>4, <2>5
<1>14. ASSUME EndOfInput PROVE EntriesInv'
  <2>1. /\ status = "reading" /\ UNCHANGED <<script, entries, tableTypes>>
        /\ status' # "reading" /\ (status' # "failed" \/ failure'.kind = "unresolved")
    BY <1>14 DEF EndOfInput, Finish, tables
  <2>2. TypesFollow'
    BY <2>1 DEF TypesFollow
  <2>3. entries = UpTo(Len(script))
    BY <2>1 DEF EntriesInv, EntriesFollowScript, UpTo
  <2>4. UpTo(Len(script))' = UpTo(Len(script))
    BY <2>1 DEF UpTo, Asked, IsAdd, IsCreate, CreatedType, Updates
  <2>5. EntriesFollowScript'
    BY <2>1, <2>3, <2>4 DEF EntriesFollowScript, UpTo
  <2> QED
    BY <1>1, <2>2, <2>5 DEF EntriesInv
<1>15. CASE UNCHANGED vars
  <2>1. UNCHANGED <<status, failure, script, entries, tableTypes>>
    BY <1>15 DEF vars, tables
  <2>2. TypesFollow'
    BY <2>1 DEF EntriesInv, TypesFollow, TypeAt, CreatesOf, LastOf, IsCreate, CreatedType
  <2>3. EntriesFollowScript'
    <3>1. UpTo(Len(script))' = UpTo(Len(script)) /\ UpTo(Len(script) - 1)' = UpTo(Len(script) - 1)
      BY <2>1 DEF UpTo, Asked, IsAdd, IsCreate, CreatedType, Updates
    <3>2. EntriesFollowScript <=>
            IF status = "failed" /\ failure.kind # "unresolved"
            THEN /\ IsPrefix(UpTo(Len(script) - 1), entries)
                 /\ failure.kind = "registry" =>
                      entries # UpTo(Len(script)) /\ IsPrefix(entries, UpTo(Len(script)))
                 /\ failure.kind # "registry" => entries = UpTo(Len(script) - 1)
            ELSE entries = UpTo(Len(script))
      BY DEF EntriesFollowScript, UpTo
    <3>3. EntriesFollowScript' <=>
            IF status' = "failed" /\ failure'.kind # "unresolved"
            THEN /\ IsPrefix(UpTo(Len(script) - 1)', entries')
                 /\ failure'.kind = "registry" =>
                      entries' # UpTo(Len(script))' /\ IsPrefix(entries', UpTo(Len(script))')
                 /\ failure'.kind # "registry" => entries' = UpTo(Len(script) - 1)'
            ELSE entries' = UpTo(Len(script))'
      BY DEF EntriesFollowScript, UpTo, IsPrefix
    <3> QED
      BY <2>1, <3>1, <3>2, <3>3 DEF EntriesInv
  <2> QED
    BY <1>1, <2>2, <2>3 DEF EntriesInv
<1> QED
  BY <1>6, <1>7, <1>8, <1>9, <1>10, <1>11, <1>12, <1>13, <1>14, <1>15 DEF Next, ReadLine

\* The registry takes what the lines ask for, in their order, each table being of
\* the type its last create before them says, and keeps it when the build fails.
THEOREM RegistryFollowsScript == Spec => []EntriesFollowScript
<1>1. Init => EntriesInv
  <2> SUFFICES ASSUME Init PROVE EntriesInv
    OBVIOUS
  <2>1. script = <<>> /\ entries = <<>> /\ status = "reading"
        /\ tableTypes = [t \in Tables |-> "unset"]
    BY DEF Init
  <2>2. FlattenSeq([i \in 1..Len(script) |-> Asked(i)]) = <<>>
    BY <2>1 DEF FlattenSeq
  <2>3. EntriesFollowScript
    BY <2>1, <2>2 DEF EntriesFollowScript
  <2>4. \A t \in Tables : CreatesOf(t, Len(script)) = {}
    BY <2>1 DEF CreatesOf
  <2>5. TypesFollow
    BY <2>1, <2>4 DEF TypesFollow, TypeAt
  <2> QED
    BY <2>3, <2>5, InitIInv DEF EntriesInv
<1>2. EntriesInv => EntriesFollowScript
  BY DEF EntriesInv
<1> QED
  BY <1>1, <1>2, NextEntries, PTL DEF Spec

-----------------------------------------------------------------------------
\* A check is at a rule or past the last one, never before the first, and
\* what the build promised of the program goes on to hold while it runs.
VMInv == IInv /\ pc \in Nat \ {0}

\* A target of a table is a number, a rule or one of the two that name none.
LEMMA TableTargetType ==
  ASSUME IInv, NEW arg \in TableArg
  PROVE  TableTarget(arg) \in Int
<1>1. numbers \in Seq(1..MaxNumber) /\ MaxNumber \in Nat /\ labels \in [Labels -> Nat]
  BY ConstantsAssumption DEF IInv, TypeOK
<1>2. CASE arg.kind = "number"
  <2>1. arg.number \in Nat
    BY <1>1, <1>2 DEF TableArg
  <2>2. Len(numbers) \in Nat
    BY <1>1, LenProperties
  <2>3. At(arg.number) \in 1..(Len(numbers) + 1)
    BY <1>1, <2>1, AtFinds
  <2> QED
    BY <1>2, <2>2, <2>3 DEF TableTarget
<1>3. CASE arg.kind = "label"
  <2>1. arg.label \in Labels
    BY <1>3 DEF TableArg
  <2> QED
    BY <1>1, <1>3, <2>1 DEF TableTarget, NoTarget, UnnamedTarget
<1>4. CASE arg.kind \notin {"number", "label"}
  BY <1>4 DEF TableTarget, NoTarget, UnnamedTarget
<1> QED
  BY <1>2, <1>3, <1>4

\* Every rule a jump may go to comes after the jumping one.
LEMMA DestinationsAhead ==
  ASSUME VMInv, Checking, rules[pc].kind = "skipto"
  PROVE  \A next \in Destinations : next \in Nat /\ next > pc
<1>1. IInv /\ pc \in 1..Len(rules)
  BY LenProperties DEF VMInv, Checking, IInv, TypeOK
<1>2. CASE rules[pc].tableArg
  <2>1. \A arg \in TableArg : Forward(TableTarget(arg)) \in Nat /\ Forward(TableTarget(arg)) > pc
    BY <1>1, TableTargetType DEF Forward
  <2> QED
    BY <1>2, <2>1 DEF Destinations
<1>3. CASE ~rules[pc].tableArg
  <2>1. rules[pc].jump \in (pc + 1)..(Len(rules) + 1) /\ Len(rules) \in Nat
    BY <1>1, LenProperties DEF IInv, TypeOK, JumpsForward
  <2> QED
    BY <1>1, <1>3, <2>1 DEF Destinations
<1> QED
  BY <1>2, <1>3

\* Where a step of a check takes it.
LEMMA CheckMoves ==
  ASSUME VMInv, Check
  PROVE  pc' \in Nat \ {0} /\ UNCHANGED vars
<1> USE DEF VMInv
<1>1. CASE Miss \/ Pass
  BY <1>1 DEF Miss, Pass
<1>2. CASE Terminate \/ Default
  BY <1>2 DEF Terminate, Default
<1>3. CASE Jump
  <2>1. UNCHANGED <<vars, verdict>>
    BY <1>3 DEF Jump
  <2>2. pc' \in Nat /\ pc' > pc
    BY <1>3, DestinationsAhead DEF Jump
  <2> QED
    BY <2>1, <2>2
<1> QED
  BY <1>1, <1>2, <1>3 DEF Check

LEMMA VMInvInductive == VMInv /\ [VMNext]_vmVars => VMInv'
<1> SUFFICES ASSUME VMInv, [VMNext]_vmVars PROVE VMInv'
  OBVIOUS
<1>1. IInv
  BY DEF VMInv
<1>2. CASE Next /\ UNCHANGED checkVars
  BY <1>1, <1>2, NextIInv DEF VMInv, checkVars
<1>3. CASE Check
  <2>1. UNCHANGED vars /\ pc' \in Nat \ {0}
    BY <1>3, CheckMoves
  <2> QED
    BY <1>1, <2>1, NextIInv DEF VMInv
<1>4. CASE UNCHANGED vmVars
  BY <1>1, <1>4, NextIInv DEF VMInv, vmVars, checkVars
<1> QED
  BY <1>2, <1>3, <1>4 DEF VMNext

\* What holds of a program when it is built holds at every step of a check.
THEOREM CheckInvariant == VMSpec => []VMInv
<1>1. VMInit => VMInv
  BY InitIInv DEF VMInit, VMInv
<1> QED
  BY <1>1, VMInvInductive, PTL DEF VMSpec

\* No jump a check may take goes back or stays where it is: neither one the build
\* linked nor one whose target comes from a table, whatever a table holds.
THEOREM ChecksGoForward == VMSpec => []ForwardOnly
<1>1. VMInv => ForwardOnly
  BY DestinationsAhead DEF ForwardOnly
<1> QED
  BY <1>1, CheckInvariant, PTL

-----------------------------------------------------------------------------
(* What a script means (module Ruleset), in terms of the rules it holds.   *)

\* Both modules read a line alike.
LEMMA SameWords ==
  /\ \A line : /\ Meaning!IsRule(line) = IsRule(line)
               /\ Meaning!IsLabel(line) = IsLabel(line)
               /\ Meaning!IsCreate(line) = IsCreate(line)
               /\ Meaning!IsAdd(line) = IsAdd(line)
               /\ Meaning!SupportedAction(line) = SupportedAction(line)
               /\ Meaning!CreatedType(line) = CreatedType(line)
  /\ \A line, to : Meaning!IsSkipTo(line, to) = IsSkipTo(line, to)
BY DEF Meaning!IsRule, IsRule, Meaning!IsLabel, IsLabel, Meaning!IsCreate, IsCreate,
       Meaning!IsAdd, IsAdd, Meaning!SupportedAction, SupportedAction,
       Meaning!CreatedType, CreatedType, Meaning!IsSkipTo, IsSkipTo

LEMMA SameParses == \A line : Meaning!Parses(line) = Parses(line)
BY DEF Meaning!Parses, Parses, Meaning!Accepts, Accepts, Meaning!Arena, Arena

LEMMA SameCardinality == \A S : Meaning!Cardinality(S) = Cardinality(S)
BY DEF Meaning!Cardinality, Cardinality

\* The first and the last of a set of positions.
LEMMA FirstIs ==
  ASSUME NEW s, NEW S \in SUBSET Nat, NEW x \in S, \A y \in S : x <= y
  PROVE  Meaning!FirstOf(s, S) = x
<1>1. \A i \in S : (\A j \in S : i <= j) => i = x
  OBVIOUS
<1> QED
  BY <1>1 DEF Meaning!FirstOf

LEMMA LastIs ==
  ASSUME NEW S \in SUBSET Nat, NEW x \in S, \A y \in S : y <= x
  PROVE  Meaning!LastOf(S) = x
<1>1. \A i \in S : (\A j \in S : j <= i) => i = x
  OBVIOUS
<1> QED
  BY <1>1 DEF Meaning!LastOf

\* A set of positions of a script that is not empty has a last one.
LEMMA LastTaken ==
  ASSUME NEW n \in Nat, NEW S \in SUBSET (1..n), S # {}
  PROVE  Meaning!LastOf(S) \in S /\ \A y \in S : y <= Meaning!LastOf(S)
<1> DEFINE T == {n - y : y \in S}
<1>1. T \in SUBSET Nat /\ T # {}
  <2>1. \A y \in S : n - y \in Nat
    OBVIOUS
  <2>2. T \subseteq Nat
    BY <2>1
  <2>3. PICK y \in S : TRUE
    OBVIOUS
  <2>4. n - y \in T
    BY <2>3
  <2> QED
    BY <2>2, <2>4
<1>2. PICK m \in T : \A k \in T : <<k, m>> \notin OpToRel(<, Nat)
  BY <1>1, NatLessThanWellFounded, WFMin
<1>3. m \in T /\ \A k \in T : m <= k
  <2>1. m \in T /\ \A k \in T : ~(k < m)
    BY <1>1, <1>2 DEF OpToRel
  <2> QED
    BY <1>1, <2>1
<1>4. PICK x \in S : m = n - x
  BY <1>3
<1>5. \A y \in S : y <= x
  <2> TAKE y \in S
  <2>1. n - y \in T
    OBVIOUS
  <2>2. n - x <= n - y
    BY <1>3, <1>4, <2>1
  <2>3. x \in 1..n /\ y \in 1..n
    OBVIOUS
  <2> HIDE DEF T
  <2> QED
    BY <2>2, <2>3
<1>6. Meaning!LastOf(S) = x
  BY <1>5, LastIs
<1> QED
  BY <1>5, <1>6

-----------------------------------------------------------------------------
(* The numbers of the rules.                                               *)

Given(s, i) == {j \in Meaning!Rules(s) : j <= i /\ s[j].num # 0}
Base(s, i) == IF Given(s, i) = {} THEN 0 ELSE Meaning!LastOf(Given(s, i))
Counted(s, i) == {j \in Meaning!Rules(s) : Base(s, i) < j /\ j <= i}

LEMMA NumberAtIs ==
  ASSUME NEW s, NEW i
  PROVE  Meaning!NumberAt(s, i)
           = (IF Base(s, i) = 0 THEN 0 ELSE s[Base(s, i)].num) + Cardinality(Counted(s, i))
BY SameCardinality DEF Meaning!NumberAt, Given, Base, Counted

\* A script with a line more.
Grown(t, s, line) == s \in Seq(Line) /\ line \in Line /\ t = Append(s, line)

\* The rules of a script and of the script with a line more.
LEMMA RulesAppended ==
  ASSUME NEW s, NEW line, NEW t, Grown(t, s, line)
  PROVE  /\ t \in Seq(Line) /\ Len(t) = Len(s) + 1 /\ Len(s) \in Nat
         /\ \A i \in 1..Len(s) : t[i] = s[i]
         /\ t[Len(s) + 1] = line
         /\ Meaning!Rules(s) \subseteq 1..Len(s)
         /\ \A i : i \in Meaning!Rules(t)
                    <=> i \in Meaning!Rules(s) \/ (i = Len(s) + 1 /\ IsRule(line))
<1> s \in Seq(Line) /\ line \in Line /\ t = Append(s, line)
  BY DEF Grown
<1>1. /\ t \in Seq(Line) /\ Len(t) = Len(s) + 1 /\ Len(s) \in Nat
      /\ \A i \in 1..Len(s) : t[i] = s[i]
      /\ t[Len(s) + 1] = line
  BY AppendProperties, LenProperties
<1>2. 1..Len(t) = 1..Len(s) \cup {Len(s) + 1} /\ Len(s) + 1 \notin 1..Len(s)
  BY <1>1
<1> QED
  BY <1>1, <1>2, SameWords DEF Meaning!Rules, Meaning!Positions

\* The base of a position: no rule up to it is numbered, or the last one that is.
LEMMA BaseIs ==
  ASSUME NEW s \in Seq(Line), NEW i \in Nat
  PROVE  \/ Given(s, i) = {} /\ Base(s, i) = 0
         \/ /\ Given(s, i) # {}
            /\ Base(s, i) \in Given(s, i) /\ Base(s, i) \in 1..Len(s)
            /\ \A y \in Given(s, i) : y <= Base(s, i)
<1>1. Given(s, i) \subseteq 1..Len(s) /\ Len(s) \in Nat
  BY LenProperties DEF Given, Meaning!Rules, Meaning!Positions
<1>2. CASE Given(s, i) = {}
  BY <1>2 DEF Base
<1>3. CASE Given(s, i) # {}
  BY <1>1, <1>3, LastTaken DEF Base
<1> QED
  BY <1>2, <1>3

\* A line more changes no number before it.
LEMMA NumberStays ==
  ASSUME NEW s, NEW line, NEW t, Grown(t, s, line),
         NEW i \in 1..Len(s)
  PROVE  Meaning!NumberAt(t, i) = Meaning!NumberAt(s, i)
<1> s \in Seq(Line) /\ line \in Line /\ t = Append(s, line)
  BY DEF Grown
<1>1. /\ Len(s) \in Nat /\ i \in Nat /\ t \in Seq(Line)
      /\ \A j \in 1..Len(s) : t[j] = s[j]
      /\ Meaning!Rules(s) \subseteq 1..Len(s)
      /\ \A j \in 1..Len(s) : j \in Meaning!Rules(t) <=> j \in Meaning!Rules(s)
      /\ \A j \in Meaning!Rules(t) : j <= i => j \in 1..Len(s)
  <2>0. /\ t \in Seq(Line) /\ Len(t) = Len(s) + 1 /\ Len(s) \in Nat
        /\ \A j \in 1..Len(s) : t[j] = s[j]
        /\ Meaning!Rules(s) \subseteq 1..Len(s)
    BY RulesAppended
  <2>1. \A j : j \in Meaning!Rules(t) => j \in Meaning!Rules(s) \/ j = Len(s) + 1
    BY RulesAppended
  <2>4. \A j : j \in Meaning!Rules(s) => j \in Meaning!Rules(t)
    BY RulesAppended
  <2>2. \A j \in Meaning!Rules(t) : j \in Meaning!Rules(s) \/ j = Len(s) + 1
    BY <2>1
  <2>3. Len(s) + 1 \notin 1..Len(s) /\ ~(Len(s) + 1 <= i)
    BY <2>0
  <2> QED
    BY <2>0, <2>1, <2>2, <2>3, <2>4
<1>2. Given(t, i) = Given(s, i)
  BY <1>1 DEF Given
<1>3. Base(t, i) = Base(s, i)
  BY <1>2 DEF Base
<1>4. Counted(t, i) = Counted(s, i)
  BY <1>1, <1>3 DEF Counted
<1>5. Base(s, i) # 0 => t[Base(s, i)] = s[Base(s, i)]
  BY <1>1, BaseIs
<1> QED
  BY <1>3, <1>4, <1>5, NumberAtIs

\* The position of the last rule, 0 when there is none.
LastRule(s, last) ==
  IF Meaning!Rules(s) = {} THEN last = 0
  ELSE last \in Meaning!Rules(s) /\ \A j \in Meaning!Rules(s) : j <= last

\* The number of a rule appended: its own, or one past the last rule's.
LEMMA NumberOfNext ==
  ASSUME NEW s, NEW line, NEW t, Grown(t, s, line), IsRule(line),
         NEW last \in Nat, LastRule(s, last)
  PROVE  Meaning!NumberAt(t, Len(t)) =
           IF line.num # 0 THEN line.num
           ELSE (IF last = 0 THEN 0 ELSE Meaning!NumberAt(s, last)) + 1
<1> s \in Seq(Line) /\ line \in Line /\ t = Append(s, line)
  BY DEF Grown
<1> DEFINE q == Len(s) + 1
<1>1. /\ t \in Seq(Line) /\ Len(t) = q /\ Len(s) \in Nat
      /\ \A i \in 1..Len(s) : t[i] = s[i]
      /\ t[q] = line
      /\ Meaning!Rules(s) \subseteq 1..Len(s)
      /\ Meaning!Rules(t) = Meaning!Rules(s) \cup {q}
  <2>1. \A j : j \in Meaning!Rules(t) <=> j \in Meaning!Rules(s) \/ j = q
    BY RulesAppended
  <2> QED
    BY <2>1, RulesAppended
<1>2. line.num \in Nat
  BY ConstantsAssumption DEF Line
<1> HIDE DEF q
<1>q. q = Len(s) + 1
  BY DEF q
<1>3. CASE line.num # 0
  <2>1. q \in Given(t, q) /\ \A y \in Given(t, q) : y <= q
    BY <1>1, <1>3, <1>q DEF Given
  <2>2. Given(t, q) \in SUBSET Nat
    BY <1>1, <1>q DEF Given
  <2>3. Base(t, q) = q
    BY <2>1, <2>2, LastIs DEF Base
  <2>4. Counted(t, q) = {}
    BY <1>1, <1>q, <2>3 DEF Counted
  <2>5. Cardinality(Counted(t, q)) = 0
    BY <2>4, FS_EmptySet
  <2>6. Meaning!NumberAt(t, q)
          = (IF Base(t, q) = 0 THEN 0 ELSE t[Base(t, q)].num) + Cardinality(Counted(t, q))
    BY NumberAtIs
  <2>7. Meaning!NumberAt(t, q) = line.num
    BY <1>1, <1>2, <1>q, <2>3, <2>5, <2>6
  <2> QED
    BY <1>1, <1>3, <2>7
<1>4. CASE line.num = 0
  <2>0. IF Meaning!Rules(s) = {} THEN last = 0
        ELSE last \in Meaning!Rules(s) /\ \A j \in Meaning!Rules(s) : j <= last
    BY DEF LastRule
  <2>1. \A j \in Meaning!Rules(s) : j <= q /\ j # q /\ j <= last /\ t[j] = s[j]
    BY <1>1, <1>q, <2>0
  <2>2. Given(t, q) = Given(s, last)
    BY <1>1, <1>4, <1>q, <2>1 DEF Given
  <2>3. Base(t, q) = Base(s, last)
    BY <2>2 DEF Base
  <2>4. Base(s, last) = 0 \/ (Base(s, last) \in Meaning!Rules(s) /\ Base(s, last) <= last)
    BY BaseIs DEF Given
  <2>5. Base(s, last) \in Nat /\ Base(s, last) < q
    BY <1>1, <1>q, <2>1, <2>4
  <2>6. Counted(t, q) = Counted(s, last) \cup {q}
    BY <1>1, <1>q, <2>1, <2>3, <2>5 DEF Counted
  <2>7. q \notin Counted(s, last) /\ IsFiniteSet(Counted(s, last))
    <3>1. Counted(s, last) \in SUBSET (1..Len(s))
      BY <1>1 DEF Counted
    <3>2. IsFiniteSet(1..Len(s))
      BY <1>1, FS_Interval
    <3> QED
      BY <1>1, <1>q, <3>1, <3>2, FS_Subset
  <2>8. /\ Cardinality(Counted(t, q)) = Cardinality(Counted(s, last)) + 1
        /\ Cardinality(Counted(s, last)) \in Nat
    BY <2>6, <2>7, FS_AddElement, FS_CardinalityType
  <2>9. Base(s, last) # 0 => t[Base(s, last)] = s[Base(s, last)]
                             /\ s[Base(s, last)].num \in Nat
    <3>1. ASSUME NEW j \in Meaning!Rules(s) PROVE s[j].num \in Nat
      <4>1. s[j] \in Line
        BY <1>1, ElementOfSeq
      <4> QED
        BY <4>1, ConstantsAssumption DEF Line
    <3> QED
      BY <2>1, <2>4, <3>1
  <2>10. last = 0 => Counted(s, last) = {} /\ Base(s, last) = 0
    BY <1>1, BaseIs DEF Counted, Given
  <2>11. Cardinality({}) = 0
    BY FS_EmptySet
  <2>12. Meaning!NumberAt(t, q)
           = (IF Base(s, last) = 0 THEN 0 ELSE s[Base(s, last)].num)
               + (Cardinality(Counted(s, last)) + 1)
    BY <2>3, <2>8, <2>9, NumberAtIs
  <2>13. Meaning!NumberAt(s, last)
           = (IF Base(s, last) = 0 THEN 0 ELSE s[Base(s, last)].num)
               + Cardinality(Counted(s, last))
    BY NumberAtIs
  <2> HIDE DEF Base, Counted
  <2>14. CASE last = 0
    <3>1. Cardinality(Counted(s, last)) = 0 /\ Base(s, last) = 0
      BY <2>10, <2>11, <2>14
    <3>2. Meaning!NumberAt(t, q) = 1
      BY <2>12, <3>1
    <3> QED
      BY <1>1, <1>4, <2>14, <3>2
  <2>15. CASE last # 0
    <3>1. Meaning!NumberAt(t, q) = Meaning!NumberAt(s, last) + 1
      BY <2>8, <2>9, <2>12, <2>13, SMTT(20)
    <3> QED
      BY <1>1, <1>4, <2>15, <3>1
  <2> QED
    BY <2>14, <2>15
<1> QED
  BY <1>3, <1>4

-----------------------------------------------------------------------------
(* The rules of a program against those of its script.                     *)

\* The rules recs and nums tell of are the script's, in its order and with its
\* numbers, which go up.
Laid(s, recs, nums) ==
  /\ s \in Seq(Line) /\ recs \in Seq(Nat) /\ nums \in Seq(Nat)
  /\ Len(nums) = Len(recs)
  /\ \A i \in 1..Len(recs) : recs[i] \in Meaning!Rules(s)
  /\ \A i, j \in 1..Len(recs) : i < j => recs[i] < recs[j]
  /\ \A p \in Meaning!Rules(s) : \E i \in 1..Len(recs) : recs[i] = p
  /\ \A i \in 1..Len(recs) : nums[i] = Meaning!NumberAt(s, recs[i])
  /\ \A i, j \in 1..Len(nums) : i < j => nums[i] < nums[j]

\* The position of a rule, the one after the script standing for none.
LineOf(s, recs, j) == IF j <= Len(recs) THEN recs[j] ELSE Len(s) + 1

LEMMA LaidTypes ==
  ASSUME NEW s, NEW recs, NEW nums, Laid(s, recs, nums)
  PROVE  /\ Len(s) \in Nat /\ Len(recs) \in Nat
         /\ Meaning!Rules(s) \subseteq 1..Len(s)
         /\ \A i \in 1..Len(recs) : recs[i] \in 1..Len(s) /\ recs[i] \in Nat /\ nums[i] \in Nat
         /\ \A j \in 1..(Len(recs) + 1) : LineOf(s, recs, j) \in 1..(Len(s) + 1)
<1>1. Len(s) \in Nat /\ Len(recs) \in Nat
  BY LenProperties DEF Laid
<1>2. Meaning!Rules(s) \subseteq 1..Len(s)
  BY DEF Meaning!Rules, Meaning!Positions
<1>3. \A i \in 1..Len(recs) : nums[i] \in Nat
  BY ElementOfSeq DEF Laid
<1>4. \A i \in 1..Len(recs) : recs[i] \in 1..Len(s)
  BY <1>2 DEF Laid
<1>5. \A j \in 1..(Len(recs) + 1) : LineOf(s, recs, j) \in 1..(Len(s) + 1)
  BY <1>1, <1>4 DEF LineOf
<1> QED
  BY <1>1, <1>2, <1>3, <1>4, <1>5

\* Rules are at positions in their order.
LEMMA LaidOrder ==
  ASSUME NEW s, NEW recs, NEW nums, Laid(s, recs, nums),
         NEW i \in 1..Len(recs), NEW j \in 1..(Len(recs) + 1)
  PROVE  recs[i] < LineOf(s, recs, j) <=> i < j
<1>1. /\ Len(s) \in Nat /\ Len(recs) \in Nat
      /\ \A k \in 1..Len(recs) : recs[k] \in 1..Len(s)
      /\ \A k, m \in 1..Len(recs) : k < m => recs[k] < recs[m]
  BY LaidTypes DEF Laid
<1>2. CASE j = Len(recs) + 1
  <2>1. LineOf(s, recs, j) = Len(s) + 1
    BY <1>1, <1>2 DEF LineOf
  <2> QED
    BY <1>1, <1>2, <2>1
<1>3. CASE j \in 1..Len(recs)
  <2>1. LineOf(s, recs, j) = recs[j]
    BY <1>1, <1>3 DEF LineOf
  <2>2. i < j => recs[i] < recs[j]
    BY <1>1, <1>3
  <2>3. j < i => recs[j] < recs[i]
    BY <1>1, <1>3
  <2>4. i \in Nat /\ j \in Nat /\ recs[i] \in Nat /\ recs[j] \in Nat
    BY <1>1, <1>3
  <2> QED
    BY <2>1, <2>2, <2>3, <2>4
<1> QED
  BY <1>1, <1>2, <1>3

\* A set of rules that are those from the j-th on has that one first.
LEMMA FirstOfRules ==
  ASSUME NEW s, NEW recs, NEW nums, Laid(s, recs, nums),
         NEW j \in 1..(Len(recs) + 1), NEW S \in SUBSET Meaning!Rules(s),
         \A i \in 1..Len(recs) : recs[i] \in S <=> i >= j
  PROVE  /\ Meaning!FirstOf(s, S) = LineOf(s, recs, j)
         /\ S = {} <=> j > Len(recs)
<1>1. /\ Len(s) \in Nat /\ Len(recs) \in Nat
      /\ Meaning!Rules(s) \subseteq 1..Len(s)
      /\ \A i \in 1..Len(recs) : recs[i] \in 1..Len(s)
      /\ \A i, k \in 1..Len(recs) : i < k => recs[i] < recs[k]
      /\ \A p \in Meaning!Rules(s) : \E i \in 1..Len(recs) : recs[i] = p
  BY LaidTypes DEF Laid
<1>2. CASE j = Len(recs) + 1
  <2>1. S = {}
    <3> SUFFICES ASSUME NEW p \in S PROVE FALSE
      OBVIOUS
    <3>1. PICK i \in 1..Len(recs) : recs[i] = p
      BY <1>1
    <3> QED
      BY <1>1, <1>2, <3>1
  <2>2. Meaning!FirstOf(s, S) = Len(s) + 1
    BY <2>1 DEF Meaning!FirstOf
  <2> QED
    BY <1>1, <1>2, <2>1, <2>2 DEF LineOf
<1>3. CASE j \in 1..Len(recs)
  <2>1. recs[j] \in S
    BY <1>1, <1>3
  <2>2. ASSUME NEW p \in S PROVE recs[j] <= p
    <3>1. PICK i \in 1..Len(recs) : recs[i] = p
      BY <1>1
    <3>2. i >= j
      BY <3>1
    <3>3. i = j \/ j < i
      BY <1>3, <3>2
    <3>4. j < i => recs[j] < recs[i]
      BY <1>1, <1>3
    <3> QED
      BY <1>1, <1>3, <3>1, <3>3, <3>4
  <2>3. S \in SUBSET Nat
    BY <1>1
  <2>4. Meaning!FirstOf(s, S) = recs[j]
    BY <2>1, <2>2, <2>3, FirstIs
  <2> QED
    BY <1>1, <1>3, <2>1, <2>4 DEF LineOf
<1> QED
  BY <1>1, <1>2, <1>3

\* The first rule after a position.
LEMMA RuleAfterIs ==
  ASSUME NEW s, NEW recs, NEW nums, Laid(s, recs, nums),
         NEW p, NEW j \in 1..(Len(recs) + 1),
         \A i \in 1..Len(recs) : recs[i] > p <=> i >= j
  PROVE  Meaning!RuleAfter(s, p) = LineOf(s, recs, j)
<1> DEFINE S == {r \in Meaning!Rules(s) : r > p}
<1>1. S \in SUBSET Meaning!Rules(s)
  OBVIOUS
<1>2. \A i \in 1..Len(recs) : recs[i] \in S <=> i >= j
  BY DEF Laid
<1>3. Meaning!RuleAfter(s, p) = Meaning!FirstOf(s, S)
  BY DEF Meaning!RuleAfter
<1> HIDE DEF S
<1> QED
  BY <1>1, <1>2, <1>3, FirstOfRules

\* The rule after a rule, and the first one.
LEMMA NextRule ==
  ASSUME NEW s, NEW recs, NEW nums, Laid(s, recs, nums)
  PROVE  /\ \A i \in 1..Len(recs) : Meaning!RuleAfter(s, recs[i]) = LineOf(s, recs, i + 1)
         /\ Meaning!RuleAfter(s, 0) = LineOf(s, recs, 1)
<1>1. Len(s) \in Nat /\ Len(recs) \in Nat /\ \A i \in 1..Len(recs) : recs[i] \in 1..Len(s)
  BY LaidTypes
<1>2. ASSUME NEW k \in 1..Len(recs)
      PROVE  Meaning!RuleAfter(s, recs[k]) = LineOf(s, recs, k + 1)
  <2>1. k + 1 \in 1..(Len(recs) + 1)
    BY <1>1
  <2>2. ASSUME NEW i \in 1..Len(recs) PROVE recs[i] > recs[k] <=> i >= k + 1
    <3>1. LineOf(s, recs, i) = recs[i]
      BY <1>1 DEF LineOf
    <3>2. recs[k] < LineOf(s, recs, i) <=> k < i
      BY <1>1, LaidOrder
    <3> QED
      BY <1>1, <3>1, <3>2
  <2> QED
    BY <2>1, <2>2, RuleAfterIs
<1>3. Meaning!RuleAfter(s, 0) = LineOf(s, recs, 1)
  <2>1. 1 \in 1..(Len(recs) + 1) /\ \A i \in 1..Len(recs) : recs[i] > 0 <=> i >= 1
    BY <1>1
  <2> QED
    BY <2>1, RuleAfterIs
<1> QED
  BY <1>2, <1>3

\* The first index of a number at or above a number, one past the last for none.
Finds(nums, want, j) ==
  /\ j \in 1..(Len(nums) + 1)
  /\ j <= Len(nums) => nums[j] >= want
  /\ \A i \in 1..(j - 1) : nums[i] < want

\* The rules numbered from a number on, the numbers going up, begin with the
\* first that is.
LEMMA FirstNumbered ==
  ASSUME NEW s, NEW recs, NEW nums, Laid(s, recs, nums), NEW want \in Nat,
         NEW j, Finds(nums, want, j)
  PROVE  /\ \A i \in 1..Len(recs) : nums[i] >= want <=> i >= j
         /\ Meaning!FirstOf(s, Meaning!NumberedFrom(s, want)) = LineOf(s, recs, j)
<1>1. /\ Len(recs) \in Nat /\ Len(nums) = Len(recs)
      /\ \A i \in 1..Len(recs) : nums[i] \in Nat
      /\ \A i, k \in 1..Len(nums) : i < k => nums[i] < nums[k]
      /\ j \in 1..(Len(recs) + 1)
      /\ j <= Len(recs) => nums[j] >= want
      /\ \A i \in 1..(j - 1) : nums[i] < want
  BY LaidTypes DEF Laid, Finds
<1>2. ASSUME NEW i \in 1..Len(recs) PROVE nums[i] >= want <=> i >= j
  <2>1. CASE i < j
    <3>1. i \in 1..(j - 1)
      BY <1>1, <2>1
    <3>2. nums[i] < want
      BY <1>1, <3>1
    <3> QED
      BY <1>1, <2>1, <3>2
  <2>2. CASE i >= j
    <3>1. j \in 1..Len(recs) /\ nums[j] >= want
      BY <1>1, <2>2
    <3>2. i = j \/ nums[j] < nums[i]
      BY <1>1, <2>2, <3>1
    <3> QED
      BY <1>1, <2>2, <3>1, <3>2
  <2> QED
    BY <1>1, <2>1, <2>2
<1>3. Meaning!NumberedFrom(s, want) \in SUBSET Meaning!Rules(s)
  BY DEF Meaning!NumberedFrom
<1>4. \A i \in 1..Len(recs) : recs[i] \in Meaning!NumberedFrom(s, want) <=> nums[i] >= want
  BY DEF Meaning!NumberedFrom, Laid
<1>5. \A i \in 1..Len(recs) : recs[i] \in Meaning!NumberedFrom(s, want) <=> i >= j
  BY <1>2, <1>4
<1>6. Meaning!FirstOf(s, Meaning!NumberedFrom(s, want)) = LineOf(s, recs, j)
  <2> PICK S \in SUBSET Meaning!Rules(s) : S = Meaning!NumberedFrom(s, want)
    BY <1>3
  <2> QED
    BY <1>1, <1>5, FirstOfRules
<1> QED
  BY <1>2, <1>6

-----------------------------------------------------------------------------
(* Where jumps go.                                                         *)

\* The rules before a position are those before the j-th.
Place(recs, p, j) ==
  /\ j \in 1..(Len(recs) + 1)
  /\ \A i \in 1..Len(recs) : recs[i] < p <=> i < j

\* A line that is no rule stands before the rule it is the place of.
LEMMA RuleAfterPlace ==
  ASSUME NEW s, NEW recs, NEW nums, Laid(s, recs, nums),
         NEW p \in 1..Len(s), ~IsRule(s[p]), NEW j, Place(recs, p, j)
  PROVE  Meaning!RuleAfter(s, p) = LineOf(s, recs, j)
<1>1. /\ Len(s) \in Nat /\ Len(recs) \in Nat
      /\ \A i \in 1..Len(recs) : recs[i] \in 1..Len(s) /\ IsRule(s[recs[i]])
  BY LaidTypes, SameWords DEF Laid, Meaning!Rules
<1>2. \A i \in 1..Len(recs) : recs[i] # p
  BY <1>1
<1>3. \A i \in 1..Len(recs) : recs[i] > p <=> i >= j
  BY <1>1, <1>2 DEF Place
<1> QED
  BY <1>3, RuleAfterIs DEF Place

\* A skipto to a number goes to the first rule numbered from there on and past
\* its own, if there is one.
LEMMA NumberTarget ==
  ASSUME NEW s, NEW recs, NEW nums, Laid(s, recs, nums), NEW idx \in 1..Len(recs),
         IsSkipTo(s[recs[idx]], "number"), NEW j, NEW want \in Nat, Finds(nums, want, j),
         want = IF s[recs[idx]].number > nums[idx] THEN s[recs[idx]].number
                                                   ELSE nums[idx] + 1
  PROVE  /\ Meaning!Candidates(s, recs[idx]) = {} <=> j > Len(recs)
         /\ Meaning!StaticTarget(s, recs[idx])
              = LineOf(s, recs, IF j > Len(recs) THEN idx + 1 ELSE j)
<1> DEFINE n == Len(recs)
           i == recs[idx]
           S == Meaning!Candidates(s, i)
<1>0. Len(nums) = n /\ j \in 1..(n + 1)
  BY DEF Finds, Laid
<1>1. /\ Len(s) \in Nat /\ n \in Nat /\ Len(nums) = n
      /\ \A k \in 1..n : recs[k] \in 1..Len(s) /\ nums[k] \in Nat
      /\ \A k, m \in 1..n : k < m => recs[k] < recs[m]
      /\ \A k, m \in 1..n : k < m => nums[k] < nums[m]
      /\ \A k \in 1..n : recs[k] \in Meaning!Rules(s) /\ nums[k] = Meaning!NumberAt(s, recs[k])
  BY LaidTypes DEF Laid
<1>2. s[i].to = "number" /\ s[i].number \in Nat
  <2>1. s[i] \in Line
    BY <1>1, ElementOfSeq DEF Laid
  <2> QED
    BY <2>1, ConstantsAssumption DEF IsSkipTo, Line
<1>3. S = {k \in Meaning!NumberedFrom(s, s[i].number) : k > i}
  BY <1>2 DEF Meaning!Candidates, Meaning!NumberedFrom, Meaning!Rules
<1>4. S \in SUBSET Meaning!Rules(s)
  BY <1>3 DEF Meaning!NumberedFrom
<1>9. \A k \in 1..Len(recs) : nums[k] >= want <=> k >= j
  BY FirstNumbered
<1>5. ASSUME NEW k \in 1..n PROVE recs[k] \in S <=> k >= j
  <2>1. recs[k] \in S <=> nums[k] >= s[i].number /\ recs[k] > i
    BY <1>1, <1>3 DEF Meaning!NumberedFrom
  <2>2. recs[k] > i <=> k > idx
    <3>1. LineOf(s, recs, k) = recs[k]
      BY <1>1 DEF LineOf
    <3>2. k \in 1..(n + 1)
      BY <1>1
    <3>3. recs[idx] < LineOf(s, recs, k) <=> idx < k
      BY <3>2, LaidOrder
    <3> QED
      BY <1>1, <3>1, <3>3
  <2>3. nums[k] >= want <=> k >= j
    BY <1>9
  <2>4. nums[k] > nums[idx] <=> k > idx
    BY <1>1
  <2>5. nums[k] \in Nat /\ nums[idx] \in Nat
    BY <1>1
  <2>6. nums[k] >= want <=> nums[k] >= s[i].number /\ nums[k] > nums[idx]
    BY <1>2, <2>5
  <2> QED
    BY <2>1, <2>2, <2>3, <2>4, <2>6
<1> HIDE DEF S
<1>6. /\ Meaning!FirstOf(s, S) = LineOf(s, recs, j)
      /\ S = {} <=> j > n
  BY <1>0, <1>4, <1>5, FirstOfRules
<1>7. Meaning!RuleAfter(s, i) = LineOf(s, recs, idx + 1)
  BY NextRule
<1>8. Meaning!StaticTarget(s, i) = IF S = {} THEN Meaning!RuleAfter(s, i)
                                              ELSE Meaning!FirstOf(s, S)
  BY <1>2 DEF Meaning!StaticTarget, S
<1> QED
  BY <1>6, <1>7, <1>8 DEF S

\* A skipto to a label goes to the rule after the first such label after it, if
\* there is one.
LEMMA LabelTarget ==
  ASSUME NEW s, NEW recs, NEW nums, Laid(s, recs, nums), NEW idx \in 1..Len(recs),
         IsSkipTo(s[recs[idx]], "label"), NEW j,
         NEW after, after = {p \in (recs[idx] + 1)..Len(s) :
                               IsLabel(s[p]) /\ s[p].label = s[recs[idx]].label},
         \/ after = {} /\ j = idx + 1
         \/ \E p \in after : (\A q \in after : p <= q) /\ Place(recs, p, j)
  PROVE  /\ Meaning!Candidates(s, recs[idx]) = after
         /\ Meaning!StaticTarget(s, recs[idx]) = LineOf(s, recs, j)
<1> DEFINE i == recs[idx]
           S == Meaning!Candidates(s, i)
<1>1. Len(s) \in Nat /\ i \in 1..Len(s)
  BY LaidTypes
<1>2. s[i].to = "label"
  BY DEF IsSkipTo
<1>3. S = after
  BY <1>1, <1>2, SameWords DEF Meaning!Candidates, Meaning!Positions
<1>4. Meaning!StaticTarget(s, i) =
        IF S = {} THEN Meaning!RuleAfter(s, i)
        ELSE Meaning!RuleAfter(s, Meaning!FirstOf(s, S))
  BY <1>2 DEF Meaning!StaticTarget
<1> HIDE DEF S
<1>5. CASE after = {}
  <2>1. j = idx + 1
    BY <1>5
  <2> QED
    BY <1>3, <1>4, <1>5, <2>1, NextRule DEF S
<1>6. CASE after # {}
  <2>1. PICK p \in after : (\A q \in after : p <= q) /\ Place(recs, p, j)
    BY <1>6
  <2>2. after \in SUBSET Nat
    BY <1>1
  <2>3. Meaning!FirstOf(s, after) = p
    BY <2>1, <2>2, FirstIs
  <2>4. p \in 1..Len(s) /\ ~IsRule(s[p])
    BY <1>1 DEF IsLabel, IsRule
  <2>5. Meaning!RuleAfter(s, p) = LineOf(s, recs, j)
    BY <2>1, <2>4, RuleAfterPlace
  <2> QED
    BY <1>3, <1>4, <1>6, <2>3, <2>5 DEF S
<1> QED
  BY <1>5, <1>6

\* A target taken from a table is made to go forward.
LEMMA LaterLine ==
  ASSUME NEW s, NEW recs, NEW nums, Laid(s, recs, nums), NEW idx \in 1..Len(recs),
         NEW j \in 1..(Len(recs) + 1)
  PROVE  (IF LineOf(s, recs, j) > recs[idx] THEN LineOf(s, recs, j)
                                            ELSE Meaning!RuleAfter(s, recs[idx]))
           = LineOf(s, recs, IF j > idx THEN j ELSE idx + 1)
<1>1. Meaning!RuleAfter(s, recs[idx]) = LineOf(s, recs, idx + 1)
  BY NextRule
<1>2. recs[idx] < LineOf(s, recs, j) <=> idx < j
  BY LaidOrder
<1>3. recs[idx] \in Nat /\ LineOf(s, recs, j) \in Nat /\ Len(recs) \in Nat
  BY LaidTypes
<1> QED
  BY <1>1, <1>2, <1>3

-----------------------------------------------------------------------------
(* A line more.                                                            *)

\* The labels of a name after a position.
LabelsAfter(s, p, l) == {q \in (p + 1)..Len(s) : IsLabel(s[q]) /\ s[q].label = l}

LEMMA LabelsAppended ==
  ASSUME NEW s, NEW line, NEW t, Grown(t, s, line),
         NEW p \in 0..Len(s), NEW l
  PROVE  /\ \A q : q \in LabelsAfter(t, p, l)
                <=> q \in LabelsAfter(s, p, l)
                    \/ (q = Len(s) + 1 /\ IsLabel(line) /\ line.label = l)
         /\ ~(IsLabel(line) /\ line.label = l) => LabelsAfter(t, p, l) = LabelsAfter(s, p, l)
         /\ \A q \in LabelsAfter(s, p, l) : q \in 1..Len(s)
<1> s \in Seq(Line) /\ line \in Line /\ t = Append(s, line)
  BY DEF Grown
<1>1. /\ Len(t) = Len(s) + 1 /\ Len(s) \in Nat
      /\ \A i \in 1..Len(s) : t[i] = s[i]
      /\ t[Len(s) + 1] = line
  BY AppendProperties, LenProperties
<1>2. \A q : q \in (p + 1)..Len(t) <=> q \in (p + 1)..Len(s) \/ q = Len(s) + 1
  BY <1>1
<1>3. \A q \in (p + 1)..Len(s) : q \in 1..Len(s) /\ q # Len(s) + 1
  BY <1>1
<1>4. \A q : q \in LabelsAfter(t, p, l)
          <=> q \in LabelsAfter(s, p, l)
              \/ (q = Len(s) + 1 /\ IsLabel(line) /\ line.label = l)
  <2> TAKE q
  <2>1. CASE q \in (p + 1)..Len(s)
    BY <1>1, <1>2, <1>3, <2>1 DEF LabelsAfter
  <2>2. CASE q = Len(s) + 1
    BY <1>1, <1>2, <1>3, <2>2 DEF LabelsAfter
  <2>3. CASE q \notin (p + 1)..Len(s) /\ q # Len(s) + 1
    BY <1>2, <2>3 DEF LabelsAfter
  <2> QED
    BY <2>1, <2>2, <2>3
<1>5. \A q \in LabelsAfter(s, p, l) : q \in 1..Len(s)
  BY <1>3 DEF LabelsAfter
<1>6. ~(IsLabel(line) /\ line.label = l) => LabelsAfter(t, p, l) = LabelsAfter(s, p, l)
  BY <1>4
<1> QED
  BY <1>4, <1>5, <1>6

\* The type of a table after a line more, and at it.
Creates(s, i, table) ==
  {j \in 1..Len(s) : j < i /\ IsCreate(s[j]) /\ s[j].table = table}

LEMMA TypeAtIs ==
  ASSUME NEW s, NEW i, NEW table
  PROVE  Meaning!TypeAt(s, i, table)
           = IF Creates(s, i, table) = {} THEN "addr"
             ELSE CreatedType(s[Meaning!LastOf(Creates(s, i, table))])
BY SameWords DEF Meaning!TypeAt, Creates, Meaning!Positions

LEMMA TypeAppended ==
  ASSUME NEW s, NEW line, NEW t, Grown(t, s, line), NEW table
  PROVE  /\ Meaning!TypeAt(t, Len(t), table) = Meaning!TypeAt(s, Len(s) + 1, table)
         /\ Meaning!TypeAt(t, Len(t) + 1, table)
              = IF IsCreate(line) /\ line.table = table THEN CreatedType(line)
                ELSE Meaning!TypeAt(s, Len(s) + 1, table)
<1> s \in Seq(Line) /\ line \in Line /\ t = Append(s, line)
  BY DEF Grown
<1> DEFINE q == Len(s) + 1
           old == Creates(s, q, table)
<1>1. /\ Len(t) = q /\ Len(s) \in Nat
      /\ \A i \in 1..Len(s) : t[i] = s[i]
      /\ t[q] = line
  BY AppendProperties, LenProperties
<1>2. /\ \A j : j \in 1..Len(t) <=> j \in 1..Len(s) \/ j = q
      /\ \A j \in 1..Len(s) : j < q /\ j < q + 1
      /\ q < q + 1 /\ ~(q < q)
  BY <1>1
<1> HIDE DEF q
<1>3. Creates(t, q, table) = old
  BY <1>1, <1>2 DEF Creates
<1>4. /\ IsCreate(line) /\ line.table = table => Creates(t, q + 1, table) = old \cup {q}
      /\ ~(IsCreate(line) /\ line.table = table) => Creates(t, q + 1, table) = old
  BY <1>1, <1>2 DEF Creates
<1>5. old \in SUBSET (1..Len(s))
  BY DEF Creates
<1> HIDE DEF old
<1>6. old # {} => Meaning!LastOf(old) \in old
  BY <1>1, <1>5, LastTaken
<1>7. old # {} => t[Meaning!LastOf(old)] = s[Meaning!LastOf(old)]
  BY <1>1, <1>5, <1>6
<1>8. Meaning!LastOf(old \cup {q}) = q
  <2>1. \A y \in old \cup {q} : y \in Nat /\ y <= q
    BY <1>1, <1>5 DEF q
  <2>2. old \cup {q} \in SUBSET Nat /\ q \in old \cup {q}
    BY <2>1
  <2> QED
    BY <2>1, <2>2, LastIs
<1>9. Meaning!TypeAt(s, q, table)
        = IF old = {} THEN "addr" ELSE CreatedType(s[Meaning!LastOf(old)])
  BY TypeAtIs DEF old
<1>10. Meaning!TypeAt(t, q, table) = Meaning!TypeAt(s, q, table)
  <2>1. Meaning!TypeAt(t, q, table)
          = IF old = {} THEN "addr" ELSE CreatedType(t[Meaning!LastOf(old)])
    BY <1>3, TypeAtIs
  <2> QED
    BY <1>7, <1>9, <2>1
<1>11. Meaning!TypeAt(t, q + 1, table)
         = IF IsCreate(line) /\ line.table = table THEN CreatedType(line)
           ELSE Meaning!TypeAt(s, q, table)
  <2>1. Meaning!TypeAt(t, q + 1, table)
          = IF Creates(t, q + 1, table) = {} THEN "addr"
            ELSE CreatedType(t[Meaning!LastOf(Creates(t, q + 1, table))])
    BY TypeAtIs
  <2>2. CASE IsCreate(line) /\ line.table = table
    BY <1>1, <1>4, <1>8, <2>1, <2>2
  <2>3. CASE ~(IsCreate(line) /\ line.table = table)
    BY <1>4, <1>7, <1>9, <2>1, <2>3
  <2> QED
    BY <2>2, <2>3
<1> QED
  BY <1>1, <1>10, <1>11 DEF q

\* A line that is no rule leaves the rules where they are.
LEMMA LaidOther ==
  ASSUME NEW s, NEW recs, NEW nums, Laid(s, recs, nums),
         NEW line, ~IsRule(line), NEW t, Grown(t, s, line)
  PROVE  Laid(t, recs, nums)
<1> s \in Seq(Line) /\ line \in Line /\ t = Append(s, line)
  BY DEF Grown
<1>1. s \in Seq(Line)
  BY DEF Laid
<1>2. /\ t \in Seq(Line)
      /\ \A i : i \in Meaning!Rules(t) <=> i \in Meaning!Rules(s)
  BY <1>1, RulesAppended
<1>3. \A i \in 1..Len(recs) : recs[i] \in 1..Len(s)
  BY LaidTypes
<1>4. \A i \in 1..Len(recs) : Meaning!NumberAt(t, recs[i]) = Meaning!NumberAt(s, recs[i])
  BY <1>1, <1>3, NumberStays
<1> QED
  BY <1>2, <1>4 DEF Laid

\* The number of a rule appended, by those of the rules before it.
LEMMA NumberAppended ==
  ASSUME NEW s, NEW recs, NEW nums, Laid(s, recs, nums),
         NEW line, IsRule(line), NEW t, Grown(t, s, line),
         NEW n, n = Len(recs)
  PROVE  Meaning!NumberAt(t, Len(t)) =
           IF line.num # 0 THEN line.num ELSE (IF n = 0 THEN 0 ELSE nums[n]) + 1
<1> s \in Seq(Line) /\ line \in Line /\ t = Append(s, line)
  BY DEF Grown
<1>1. /\ s \in Seq(Line) /\ Len(s) \in Nat /\ n \in Nat
      /\ \A i \in 1..n : recs[i] \in 1..Len(s) /\ recs[i] \in Meaning!Rules(s)
      /\ \A i, j \in 1..n : i < j => recs[i] < recs[j]
      /\ \A p \in Meaning!Rules(s) : \E i \in 1..n : recs[i] = p
      /\ \A i \in 1..n : nums[i] = Meaning!NumberAt(s, recs[i])
  BY LaidTypes DEF Laid
<1>2. CASE n = 0
  <2>1. LastRule(s, 0)
    BY <1>1, <1>2 DEF LastRule
  <2>2. Meaning!NumberAt(t, Len(t)) =
          IF line.num # 0 THEN line.num
          ELSE (IF 0 = 0 THEN 0 ELSE Meaning!NumberAt(s, 0)) + 1
    BY <1>1, <2>1, NumberOfNext
  <2> QED
    BY <1>2, <2>2
<1>3. CASE n # 0
  <2>1. PICK last \in 1..Len(s) : last = recs[n]
    BY <1>1, <1>3
  <2>2. n \in 1..n
    BY <1>1, <1>3
  <2>3. last \in Meaning!Rules(s)
    BY <1>1, <2>1, <2>2
  <2>4. \A j \in Meaning!Rules(s) : j <= last
    <3> TAKE j \in Meaning!Rules(s)
    <3>1. PICK i \in 1..n : recs[i] = j
      BY <1>1
    <3>2. i = n \/ recs[i] < recs[n]
      BY <1>1, <2>2
    <3> QED
      BY <1>1, <2>1, <3>1, <3>2
  <2>5. last \in Nat /\ last # 0 /\ Meaning!Rules(s) # {}
    BY <2>1, <2>3
  <2>6. Meaning!NumberAt(t, Len(t)) =
          IF line.num # 0 THEN line.num
          ELSE (IF last = 0 THEN 0 ELSE Meaning!NumberAt(s, last)) + 1
    <3>1. LastRule(s, last)
      BY <2>3, <2>4, <2>5 DEF LastRule
    <3>2. s \in Seq(Line) /\ last \in Nat
      BY <1>1, <2>5
    <3> QED
      BY <3>1, <3>2, NumberOfNext
  <2> QED
    BY <1>1, <1>3, <2>1, <2>2, <2>5, <2>6
<1> QED
  BY <1>2, <1>3

\* Whether a rule appended keeps the numbers in order.
LEMMA InOrderAppended ==
  ASSUME NEW s, NEW recs, NEW nums, Laid(s, recs, nums),
         NEW line, IsRule(line), NEW t, Grown(t, s, line),
         NEW num, num = Meaning!NumberAt(t, Len(t))
  PROVE  Meaning!InOrder(t, Len(t))
           <=> num <= MaxNumber /\ \A i \in 1..Len(recs) : nums[i] < num
<1> s \in Seq(Line) /\ line \in Line /\ t = Append(s, line)
  BY DEF Grown
<1>1. /\ s \in Seq(Line) /\ Len(s) \in Nat /\ Len(t) = Len(s) + 1
      /\ \A i \in 1..Len(recs) : recs[i] \in 1..Len(s) /\ recs[i] \in Meaning!Rules(s)
      /\ \A p \in Meaning!Rules(s) : \E i \in 1..Len(recs) : recs[i] = p
      /\ \A i \in 1..Len(recs) : nums[i] = Meaning!NumberAt(s, recs[i])
      /\ Meaning!Rules(s) \subseteq 1..Len(s)
  <2>1. s \in Seq(Line)
    BY DEF Laid
  <2>2. Len(t) = Len(s) + 1
    BY <2>1, AppendProperties
  <2> QED
    BY <2>1, <2>2, LaidTypes DEF Laid
<1>2. \A j : j \in Meaning!Rules(t) <=> j \in Meaning!Rules(s) \/ j = Len(s) + 1
  BY <1>1, RulesAppended
<1>3. \A j : j \in Meaning!Rules(t) /\ j < Len(t) <=> j \in Meaning!Rules(s)
  BY <1>1, <1>2
<1>4. \A j \in Meaning!Rules(s) : Meaning!NumberAt(t, j) = Meaning!NumberAt(s, j)
  BY <1>1, NumberStays
<1>5. (\A j \in Meaning!Rules(t) : j < Len(t) => Meaning!NumberAt(t, j) < num)
        <=> \A i \in 1..Len(recs) : nums[i] < num
  <2>1. ASSUME \A j \in Meaning!Rules(t) : j < Len(t) => Meaning!NumberAt(t, j) < num,
               NEW i \in 1..Len(recs)
        PROVE  nums[i] < num
    <3>1. recs[i] \in Meaning!Rules(s)
      BY <1>1
    <3>2. Meaning!NumberAt(t, recs[i]) < num
      BY <1>3, <2>1, <3>1
    <3> QED
      BY <1>1, <1>4, <3>1, <3>2
  <2>2. ASSUME \A i \in 1..Len(recs) : nums[i] < num,
               NEW j \in Meaning!Rules(t), j < Len(t)
        PROVE  Meaning!NumberAt(t, j) < num
    <3>1. j \in Meaning!Rules(s)
      BY <1>3, <2>2
    <3>2. PICK i \in 1..Len(recs) : recs[i] = j
      BY <1>1, <3>1
    <3> QED
      BY <1>1, <1>4, <2>2, <3>1, <3>2
  <2> QED
    BY <2>1, <2>2
<1> QED
  BY <1>5 DEF Meaning!InOrder

\* A rule appended in order is laid down after the others.
LEMMA LaidAdd ==
  ASSUME NEW s, NEW recs, NEW nums, Laid(s, recs, nums),
         NEW line, IsRule(line), NEW t, Grown(t, s, line),
         NEW num \in Nat, num = Meaning!NumberAt(t, Len(t)),
         \A i \in 1..Len(recs) : nums[i] < num
  PROVE  Laid(t, Append(recs, Len(t)), Append(nums, num))
<1> s \in Seq(Line) /\ line \in Line /\ t = Append(s, line)
  BY DEF Grown
<1> DEFINE n == Len(recs)
           r == Append(recs, Len(t))
           u == Append(nums, num)
<1>1. /\ s \in Seq(Line) /\ Len(s) \in Nat /\ Len(t) = Len(s) + 1 /\ t \in Seq(Line)
      /\ n \in Nat /\ Len(nums) = n /\ recs \in Seq(Nat) /\ nums \in Seq(Nat)
      /\ \A i \in 1..n : recs[i] \in 1..Len(s) /\ recs[i] \in Meaning!Rules(s)
      /\ \A p \in Meaning!Rules(s) : \E i \in 1..n : recs[i] = p
      /\ \A i \in 1..n : nums[i] = Meaning!NumberAt(s, recs[i])
  <2>1. s \in Seq(Line)
    BY DEF Laid
  <2>2. Len(t) = Len(s) + 1 /\ t \in Seq(Line)
    BY <2>1, AppendProperties
  <2> QED
    BY <2>1, <2>2, LaidTypes DEF Laid
<1>2. /\ \A i, j \in 1..n : i < j => recs[i] < recs[j]
      /\ \A i, j \in 1..n : i < j => nums[i] < nums[j]
  BY <1>1 DEF Laid
<1>3. \A j : j \in Meaning!Rules(t) <=> j \in Meaning!Rules(s) \/ j = Len(s) + 1
  <2>1. s \in Seq(Line)
    BY <1>1
  <2> HIDE DEF n, r, u
  <2> QED
    BY <2>1, RulesAppended
<1>4. /\ r \in Seq(Nat) /\ Len(r) = n + 1 /\ r[n + 1] = Len(t)
      /\ \A i \in 1..n : r[i] = recs[i]
  <2>1. Len(t) \in Nat
    BY <1>1
  <2> QED
    BY <1>1, <2>1, AppendProperties
<1>5. /\ u \in Seq(Nat) /\ Len(u) = n + 1 /\ u[n + 1] = num
      /\ \A i \in 1..n : u[i] = nums[i]
  BY <1>1, AppendProperties
<1>6. /\ \A i : i \in 1..(n + 1) <=> i \in 1..n \/ i = n + 1
      /\ \A i \in 1..(n + 1), j \in 1..(n + 1) : i < j => i \in 1..n
  <2>1. n \in Nat
    BY <1>1
  <2> HIDE DEF n
  <2> QED
    BY <2>1
<1> HIDE DEF r, u, n
<1>7. \A i \in 1..(n + 1) : r[i] \in Meaning!Rules(t)
  BY <1>1, <1>3, <1>4, <1>6
<1>8. \A i, j \in 1..(n + 1) : i < j => r[i] < r[j]
  <2> SUFFICES ASSUME NEW i \in 1..n, NEW j \in 1..(n + 1), i < j PROVE r[i] < r[j]
    BY <1>6
  <2>1. CASE j = n + 1
    <3>1. recs[i] \in 1..Len(s) /\ Len(s) \in Nat /\ Len(t) = Len(s) + 1
      BY <1>1
    <3>2. r[i] = recs[i] /\ r[j] = Len(t)
      BY <1>4, <2>1
    <3> QED
      BY <3>1, <3>2
  <2>2. CASE j \in 1..n
    BY <1>2, <1>4, <2>2
  <2> QED
    BY <1>6, <2>1, <2>2
<1>9. \A i, j \in 1..(n + 1) : i < j => u[i] < u[j]
  <2> SUFFICES ASSUME NEW i \in 1..n, NEW j \in 1..(n + 1), i < j PROVE u[i] < u[j]
    BY <1>6
  <2>1. CASE j = n + 1
    BY <1>5, <2>1 DEF n
  <2>2. CASE j \in 1..n
    BY <1>2, <1>5, <2>2
  <2> QED
    BY <1>6, <2>1, <2>2
<1>10. ASSUME NEW p \in Meaning!Rules(t) PROVE \E i \in 1..(n + 1) : r[i] = p
  <2>1. CASE p = Len(s) + 1
    BY <1>1, <1>4, <1>6, <2>1
  <2>2. CASE p \in Meaning!Rules(s)
    <3>1. PICK i \in 1..n : recs[i] = p
      BY <1>1, <2>2
    <3> QED
      BY <1>4, <1>6, <3>1
  <2> QED
    BY <1>3, <2>1, <2>2
<1>11. \A i \in 1..(n + 1) : u[i] = Meaning!NumberAt(t, r[i])
  <2> TAKE i \in 1..(n + 1)
  <2>1. CASE i = n + 1
    BY <1>4, <1>5, <2>1
  <2>2. CASE i \in 1..n
    <3>1. Meaning!NumberAt(t, recs[i]) = Meaning!NumberAt(s, recs[i])
      <4>1. s \in Seq(Line) /\ recs[i] \in 1..Len(s)
        BY <1>1, <2>2
      <4> QED
        BY <4>1, NumberStays
    <3> QED
      BY <1>1, <1>4, <1>5, <2>2, <3>1
  <2> QED
    BY <1>6, <2>1, <2>2
<1>12. Laid(t, r, u)
  BY <1>1, <1>4, <1>5, <1>7, <1>8, <1>9, <1>10, <1>11 DEF Laid
<1> QED
  BY <1>12 DEF r, u

-----------------------------------------------------------------------------
(* The inductive invariant: what the builder and the program stand for, in *)
(* terms of the script.                                                    *)

\* The program's rules are the script's.
RulesAreTheScripts == status # "failed" => Laid(script, records, numbers)

\* The running number follows the last rule's, wrapping past the largest.
RunningFollows ==
  number = IF numbers = <<>> THEN 1 ELSE (numbers[Len(numbers)] + 1) % (MaxNumber + 1)

\* The type of a table is what its last create says.
TypesAreTheLast == status = "reading" =>
  \A t \in Tables :
    tableTypes[t] = "iface" <=> Meaning!TypeAt(script, Len(script) + 1, t) = "iface"

\* A label is kept for the rule after its last occurrence.
KeptLabel(s, recs, l, rule) ==
  \/ LabelsAfter(s, 0, l) = {} /\ rule = 0
  \/ \E p \in LabelsAfter(s, 0, l) :
       (\A q \in LabelsAfter(s, 0, l) : q <= p) /\ Place(recs, p, rule)

LabelsAreTheLast == status # "failed" =>
  \A l \in Labels : KeptLabel(script, records, l, labels[l])

\* A rule does what its line says.
DoesAsTold(rule, line) ==
  /\ rule.kind = line.action
  /\ rule.tableArg <=> IsSkipTo(line, "tablearg")
  /\ MayMatch(rule) <=> Meaning!CanMatch(line)

RulesDoAsTold == \A idx \in 1..Len(rules) : DoesAsTold(rules[idx], Action(idx))

\* A skipto to a label goes past the first one of the name after it, once one came.
LinkedLabel(s, recs, idx, l, jump) ==
  \/ LabelsAfter(s, recs[idx], l) = {} /\ jump = idx + 1
  \/ \E p \in LabelsAfter(s, recs[idx], l) :
       (\A q \in LabelsAfter(s, recs[idx], l) : p <= q) /\ Place(recs, p, jump)

LabelJumpsLinked == status # "failed" =>
  \A idx \in 1..Len(rules) : IsSkipTo(Action(idx), "label") =>
    LinkedLabel(script, records, idx, Action(idx).label, rules[idx].jump)

\* A skipto to a number goes, once the program is built, to the first rule
\* numbered from there on and past its own.
LinkedNumber(nums, idx, want, jump) ==
  \E j : Finds(nums, want, j) /\ jump = IF j > Len(nums) THEN idx + 1 ELSE j

PastOwn(want, own) == IF want > own THEN want ELSE own + 1

NumberJumpsLinked == status = "built" =>
  \A idx \in 1..Len(rules) : IsSkipTo(Action(idx), "number") =>
    LinkedNumber(numbers, idx, PastOwn(Action(idx).number, numbers[idx]), rules[idx].jump)

\* No check runs before the program is built.
ChecksWait == status # "built" => pc = 1 /\ verdict = "none"

BuildMeans ==
  /\ RulesAreTheScripts /\ RunningFollows /\ TypesAreTheLast /\ LabelsAreTheLast
  /\ RulesDoAsTold /\ LabelJumpsLinked /\ NumberJumpsLinked

MeansInv == VMInv /\ FollowInv /\ BuildMeans /\ ChecksWait

LEMMA InitMeans == VMInit => MeansInv /\ Meaning!Init
<1> SUFFICES ASSUME VMInit PROVE MeansInv /\ Meaning!Init
  OBVIOUS
<1>1. /\ script = <<>> /\ rules = <<>> /\ numbers = <<>> /\ records = <<>> /\ number = 1
      /\ status = "reading" /\ labels = [l \in Labels |-> 0]
      /\ tableTypes = [t \in Tables |-> "unset"]
      /\ pc = 1 /\ verdict = "none"
  BY DEF VMInit, Init
<1>2. VMInv /\ FollowInv
  BY InitIInv, InitFollow DEF VMInit, Init, VMInv
<1>3. RulesAreTheScripts
  BY <1>1 DEF RulesAreTheScripts, Laid, Meaning!Rules, Meaning!Positions
<1>4. RunningFollows /\ RulesDoAsTold /\ LabelJumpsLinked /\ NumberJumpsLinked /\ ChecksWait
  BY <1>1 DEF RunningFollows, RulesDoAsTold, LabelJumpsLinked, NumberJumpsLinked, ChecksWait
<1>5. TypesAreTheLast
  <2> SUFFICES ASSUME NEW t \in Tables
               PROVE  Meaning!TypeAt(script, Len(script) + 1, t) # "iface"
    BY <1>1 DEF TypesAreTheLast
  <2>1. Creates(script, Len(script) + 1, t) = {}
    BY <1>1 DEF Creates
  <2> QED
    BY <2>1, TypeAtIs
<1>6. LabelsAreTheLast
  BY <1>1 DEF LabelsAreTheLast, KeptLabel, LabelsAfter
<1>7. Phase = "reading" /\ AtLine = 0
  BY <1>1 DEF Phase, AtLine
<1> QED
  BY <1>1, <1>2, <1>3, <1>4, <1>5, <1>6, <1>7 DEF MeansInv, BuildMeans, Meaning!Init

-----------------------------------------------------------------------------
(* A line read means what it says.                                         *)

\* Whether the ruleset goes on after the line just read.
Holds == Meaning!LineHolds(script', Len(script'))

LEMMA ReadFacts ==
  ASSUME MeansInv, NEW line \in Lines, Read(line)
  PROVE  /\ Grown(script', script, line)
         /\ line \in Line /\ script \in Seq(Line) /\ status = "reading"
         /\ script' = Append(script, line) /\ script'[Len(script')] = line
         /\ Len(script') = Len(script) + 1 /\ Len(script) \in Nat
         /\ Laid(script, records, numbers)
         /\ Len(rules) \in Nat /\ Len(records) = Len(rules) /\ Len(numbers) = Len(rules)
         /\ \A i \in 1..Len(script) : script'[i] = script[i]
<1>1. /\ script \in Seq(Lines) /\ rules \in Seq(Rule) /\ Len(records) = Len(rules)
      /\ Len(numbers) = Len(rules)
  BY DEF MeansInv, VMInv, IInv, TypeOK
<1>2. /\ line \in Line /\ Len(script') = Len(script) + 1 /\ Len(script) \in Nat
      /\ script'[Len(script')] = line
      /\ \A i \in 1..Len(script) : script'[i] = script[i]
  BY ReadKeeps DEF MeansInv, VMInv, IInv
<1>3. status = "reading" /\ script' = Append(script, line)
  BY DEF Read
<1>4. Laid(script, records, numbers)
  BY <1>3 DEF MeansInv, BuildMeans, RulesAreTheScripts
<1>5. script \in Seq(Line)
  BY <1>4 DEF Laid
<1> QED
  BY <1>1, <1>2, <1>3, <1>4, <1>5, LenProperties DEF Grown

\* What a line has to be, said of the builder.
LEMMA HoldsIs ==
  ASSUME MeansInv, NEW line \in Lines, Read(line)
  PROVE  Holds <=>
    /\ Parses(line) /\ line.kind # "unknown"
    /\ IsRule(line) => Meaning!InOrder(script', Len(script')) /\ SupportedAction(line)
    /\ IsCreate(line) => line.type # "other"
    /\ IsAdd(line) => line.resolves \/ tableTypes[line.table] = "iface"
<1>1. /\ Grown(script', script, line) /\ line \in Line /\ status = "reading"
      /\ script'[Len(script')] = line
  BY ReadFacts
<1>2. line.table \in Tables
  BY <1>1 DEF Line
<1>3. tableTypes[line.table] = "iface"
        <=> Meaning!TypeAt(script', Len(script'), line.table) = "iface"
  <2>1. Meaning!TypeAt(script', Len(script'), line.table)
          = Meaning!TypeAt(script, Len(script) + 1, line.table)
    BY <1>1, TypeAppended
  <2> QED
    BY <1>1, <1>2, <2>1 DEF MeansInv, BuildMeans, TypesAreTheLast
<1> QED
  BY <1>1, <1>3, SameWords, SameParses DEF Holds, Meaning!LineHolds

\* A line that holds is read and the ruleset goes on, any other rejects it, and
\* a table entry may be refused by the registry.
LEMMA ReadMeans ==
  ASSUME MeansInv, NEW line \in Lines, Read(line), UNCHANGED verdict,
         \/ ~Holds /\ status' = "failed"
         \/ Holds /\ line.kind # "eof" /\ status' = "reading"
         \/ Holds /\ IsAdd(line) /\ status' = "failed"
  PROVE  Meaning!Read(line)
<1>1. status = "reading" /\ script' = Append(script, line)
  BY ReadFacts
<1>2. Phase = "reading" /\ AtLine = 0
  BY <1>1 DEF Phase, AtLine
<1>3. AtLine' = 0 /\ Phase' = IF status' = "failed" THEN "rejected" ELSE "reading"
  BY DEF Phase, AtLine
<1>4. CASE ~Holds
  BY <1>1, <1>2, <1>3, <1>4 DEF Meaning!Read, Holds
<1>5. CASE Holds
  <2>1. line.kind # "eof"
    BY <1>5 DEF IsAdd
  <2>2. \/ Phase' = "reading"
        \/ Meaning!IsAdd(line) /\ Phase' = "rejected"
    BY <1>3, <1>5, SameWords
  <2> QED
    BY <1>1, <1>2, <1>3, <1>5, <2>1, <2>2 DEF Meaning!Read, Holds
<1> QED
  BY <1>4, <1>5

\* The builder's check of a rule's number, made with the running number, is
\* that of the numbers themselves.
LEMMA OrderMeans ==
  ASSUME MeansInv, NEW line \in Lines, Read(line), IsRule(line)
  PROVE  /\ OutOfOrder(line) <=> ~Meaning!InOrder(script', Len(script'))
         /\ ~OutOfOrder(line) =>
              /\ RuleNumber(line) = Meaning!NumberAt(script', Len(script'))
              /\ RuleNumber(line) \in Nat
              /\ \A i \in 1..Len(rules) : numbers[i] < RuleNumber(line)
<1> DEFINE n == Len(rules)
           num == Meaning!NumberAt(script', Len(script'))
           last == numbers[n]
<1>1. /\ line \in Line /\ Grown(script', script, line)
      /\ Laid(script, records, numbers)
      /\ n \in Nat /\ Len(records) = n /\ Len(numbers) = n
  BY ReadFacts
<1>2. num = IF line.num # 0 THEN line.num ELSE (IF n = 0 THEN 0 ELSE last) + 1
  BY <1>1, NumberAppended
<1>3. Meaning!InOrder(script', Len(script'))
        <=> num <= MaxNumber /\ \A i \in 1..n : numbers[i] < num
  BY <1>1, InOrderAppended
<1>4. line.num \in 0..MaxNumber /\ MaxNumber \in Nat \ {0}
  BY <1>1, ConstantsAssumption DEF Line
<1>5. /\ \A i \in 1..n : numbers[i] \in 1..MaxNumber
      /\ \A i, j \in 1..n : i < j => numbers[i] < numbers[j]
      /\ numbers = <<>> <=> n = 0
  <2>1. numbers \in Seq(1..MaxNumber)
    BY DEF MeansInv, VMInv, IInv, TypeOK
  <2> QED
    BY <1>1, <2>1, ElementOfSeq, EmptySeq DEF MeansInv, VMInv, IInv, NumbersIncrease
<1>6. number = IF n = 0 THEN 1 ELSE (last + 1) % (MaxNumber + 1)
  BY <1>1, <1>5 DEF MeansInv, BuildMeans, RunningFollows
<1>7. OutOfOrder(line) <=> \/ line.num # 0 /\ line.num < number
                           \/ n # 0 /\ RuleNumber(line) <= last
  BY <1>1, <1>5 DEF OutOfOrder
<1>8. RuleNumber(line) = IF line.num # 0 THEN line.num ELSE number
  BY DEF RuleNumber
<1>9. CASE n = 0
  <2>1. number = 1 /\ num = RuleNumber(line) /\ num \in 1..MaxNumber /\ 1..n = {}
    BY <1>2, <1>4, <1>6, <1>8, <1>9
  <2> HIDE DEF n, num, last
  <2> QED
    BY <1>3, <1>4, <1>7, <1>9, <2>1 DEF n, num
<1>10. CASE n # 0
  <2>1. n \in 1..n
    BY <1>1, <1>10
  <2>2. last \in 1..MaxNumber
    BY <1>5, <2>1
  <2>3. \A i \in 1..n : numbers[i] <= last
    <3> TAKE i \in 1..n
    <3>1. i = n \/ numbers[i] < last
      BY <1>1, <1>5, <2>1
    <3> QED
      BY <1>5, <2>2, <3>1
  <2> HIDE DEF n, num, last
  <2>4. (\A i \in 1..n : numbers[i] < num) <=> last < num
    <3>1. num \in Nat
      BY <1>2, <1>4, <1>10, <2>2
    <3>2. last < num => \A i \in 1..n : numbers[i] < num
      BY <1>5, <2>2, <2>3, <3>1
    <3>3. (\A i \in 1..n : numbers[i] < num) => last < num
      BY <2>1 DEF last
    <3> QED
      BY <3>2, <3>3
  <2>5. number = IF last = MaxNumber THEN 0 ELSE last + 1
    <3>1. CASE last = MaxNumber
      <4>1. (MaxNumber + 1) % (MaxNumber + 1) = 0
        BY <1>4
      <4> QED
        BY <1>6, <1>10, <3>1, <4>1
    <3>2. CASE last # MaxNumber
      <4>1. last + 1 \in 0..MaxNumber
        BY <1>4, <2>2, <3>2
      <4>2. \A k \in 0..MaxNumber : k % (MaxNumber + 1) = k
        BY <1>4
      <4> QED
        BY <1>6, <1>10, <3>2, <4>1, <4>2
    <3> QED
      BY <3>1, <3>2
  <2>6. OutOfOrder(line) <=> ~(num <= MaxNumber /\ last < num)
    BY <1>2, <1>4, <1>7, <1>8, <1>10, <2>2, <2>5
  <2>7. ~OutOfOrder(line) => RuleNumber(line) = num /\ num \in Nat
    BY <1>2, <1>4, <1>7, <1>8, <1>10, <2>2, <2>5
  <2> QED
    BY <1>3, <2>4, <2>6, <2>7 DEF n, num
<1> QED
  BY <1>9, <1>10

-----------------------------------------------------------------------------
(* What a step of the build keeps.                                         *)

\* A line read leaves the records, and the lines they point at, where they are.
LEMMA ActionsStay ==
  ASSUME MeansInv, NEW line \in Lines, Read(line), UNCHANGED records
  PROVE  \A idx \in 1..Len(rules) :
           Action(idx)' = Action(idx) /\ records'[idx] = records[idx]
                                      /\ records[idx] \in 1..Len(script)
<1>1. \A i \in 1..Len(script) : script'[i] = script[i]
  BY ReadFacts
<1>2. \A idx \in 1..Len(rules) : records[idx] \in 1..Len(script)
  BY DEF MeansInv, VMInv, IInv, TypeOK
<1> QED
  BY <1>1, <1>2 DEF Action

LEMMA FailMeans ==
  ASSUME MeansInv, NEW line \in Lines, Read(line), NEW kind, Fail(kind)
  PROVE  BuildMeans'
<1>1. UNCHANGED <<rules, numbers, records, number>> /\ status' = "failed"
  BY DEF Fail, program
<1>2. \A idx \in 1..Len(rules) : Action(idx)' = Action(idx)
  BY <1>1, ActionsStay
<1>3. RulesDoAsTold'
  BY <1>1, <1>2 DEF MeansInv, BuildMeans, RulesDoAsTold
<1> QED
  BY <1>1, <1>3 DEF MeansInv, BuildMeans, RulesAreTheScripts, RunningFollows, TypesAreTheLast,
     LabelsAreTheLast, LabelJumpsLinked, NumberJumpsLinked

\* A line that is no such label changes neither what a label stands for nor
\* where a skipto to it goes.
LEMMA LinkedStays ==
  ASSUME NEW s, NEW line, NEW t, Grown(t, s, line), NEW l, ~(IsLabel(line) /\ line.label = l),
         NEW recs, NEW idx, recs[idx] \in 0..Len(s), NEW jump, LinkedLabel(s, recs, idx, l, jump)
  PROVE  LinkedLabel(t, recs, idx, l, jump)
<1>1. LabelsAfter(t, recs[idx], l) = LabelsAfter(s, recs[idx], l)
  BY LabelsAppended
<1> QED
  BY <1>1 DEF LinkedLabel

LEMMA KeptStays ==
  ASSUME NEW s, NEW line, NEW t, Grown(t, s, line), NEW l, ~(IsLabel(line) /\ line.label = l),
         NEW recs, NEW rule, KeptLabel(s, recs, l, rule)
  PROVE  KeptLabel(t, recs, l, rule)
<1>1. Len(s) \in Nat
  BY LenProperties DEF Grown
<1>2. LabelsAfter(t, 0, l) = LabelsAfter(s, 0, l)
  BY <1>1, LabelsAppended
<1> QED
  BY <1>2 DEF KeptLabel

LEMMA OtherMeans ==
  ASSUME MeansInv, NEW line \in Lines, Read(line), ~IsRule(line), ~IsLabel(line),
         status' # "built",
         UNCHANGED <<rules, numbers, records, number, labels>>, TypesAreTheLast'
  PROVE  BuildMeans'
<1>1. /\ Grown(script', script, line) /\ status = "reading"
      /\ Laid(script, records, numbers) /\ line \in Line
  BY ReadFacts
<1>2. \A idx \in 1..Len(rules) : Action(idx)' = Action(idx) /\ records'[idx] = records[idx]
                                  /\ records[idx] \in 1..Len(script)
  BY ActionsStay
<1>3. RulesAreTheScripts'
  BY <1>1, LaidOther DEF RulesAreTheScripts
<1>4. RunningFollows'
  BY DEF MeansInv, BuildMeans, RunningFollows
<1>5. RulesDoAsTold'
  BY <1>2 DEF MeansInv, BuildMeans, RulesDoAsTold
<1>6. LabelsAreTheLast'
  <2> SUFFICES ASSUME NEW l \in Labels PROVE KeptLabel(script', records, l, labels[l])
    BY DEF LabelsAreTheLast
  <2>1. KeptLabel(script, records, l, labels[l])
    BY <1>1 DEF MeansInv, BuildMeans, LabelsAreTheLast
  <2> QED
    BY <1>1, <2>1, KeptStays
<1>7. LabelJumpsLinked'
  <2> SUFFICES ASSUME NEW idx \in 1..Len(rules), IsSkipTo(Action(idx)', "label")
               PROVE  LinkedLabel(script', records, idx, Action(idx)'.label, rules[idx].jump)
    BY DEF LabelJumpsLinked, IsSkipTo, IsRule
  <2>1. PICK l : l = Action(idx).label
    OBVIOUS
  <2>2. LinkedLabel(script, records, idx, l, rules[idx].jump)
    BY <1>1, <1>2, <2>1 DEF MeansInv, BuildMeans, LabelJumpsLinked
  <2>3. records[idx] \in 0..Len(script)
    BY <1>2
  <2>4. LinkedLabel(script', records, idx, l, rules[idx].jump)
    BY <1>1, <2>2, <2>3, LinkedStays
  <2> QED
    BY <1>2, <2>1, <2>4
<1>8. NumberJumpsLinked'
  BY DEF NumberJumpsLinked
<1> QED
  BY <1>3, <1>4, <1>5, <1>6, <1>7, <1>8 DEF BuildMeans

\* The type of a table a line does not create stays what it was.
LEMMA TypesStay ==
  ASSUME MeansInv, NEW line \in Lines, Read(line), ~IsCreate(line), UNCHANGED tableTypes
  PROVE  TypesAreTheLast'
<1>1. Grown(script', script, line) /\ status = "reading"
  BY ReadFacts
<1>2. ASSUME NEW t \in Tables
      PROVE  tableTypes'[t] = "iface"
               <=> Meaning!TypeAt(script', Len(script') + 1, t) = "iface"
  <2>1. Meaning!TypeAt(script', Len(script') + 1, t)
          = IF IsCreate(line) /\ line.table = t THEN CreatedType(line)
            ELSE Meaning!TypeAt(script, Len(script) + 1, t)
    BY <1>1, TypeAppended
  <2>2. Meaning!TypeAt(script', Len(script') + 1, t)
          = Meaning!TypeAt(script, Len(script) + 1, t)
    BY <2>1
  <2> QED
    BY <1>1, <2>2 DEF MeansInv, BuildMeans, TypesAreTheLast
<1> QED
  BY <1>2 DEF TypesAreTheLast

LEMMA TypesChange ==
  ASSUME MeansInv, NEW line \in Lines, Read(line), IsCreate(line),
         tableTypes' = TypesAfter(line)
  PROVE  TypesAreTheLast'
<1>1. Grown(script', script, line) /\ status = "reading" /\ line \in Line
  BY ReadFacts
<1>2. tableTypes \in [Tables -> {"unset", "addr", "iface"}] /\ line.table \in Tables
  BY <1>1 DEF MeansInv, VMInv, IInv, TypeOK, Line
<1>3. ASSUME NEW t \in Tables
      PROVE  tableTypes'[t] = "iface"
               <=> Meaning!TypeAt(script', Len(script') + 1, t) = "iface"
  <2>1. Meaning!TypeAt(script', Len(script') + 1, t)
          = IF IsCreate(line) /\ line.table = t THEN CreatedType(line)
            ELSE Meaning!TypeAt(script, Len(script) + 1, t)
    BY <1>1, TypeAppended
  <2>2. tableTypes'[t] = IF line.table = t THEN CreatedType(line) ELSE tableTypes[t]
    BY <1>2 DEF TypesAfter
  <2>3. CASE line.table = t
    BY <2>1, <2>2, <2>3
  <2>4. CASE line.table # t
    <3>1. Meaning!TypeAt(script', Len(script') + 1, t)
            = Meaning!TypeAt(script, Len(script) + 1, t)
      BY <2>1, <2>4
    <3> QED
      BY <1>1, <2>2, <2>4, <3>1 DEF MeansInv, BuildMeans, TypesAreTheLast
  <2> QED
    BY <2>3, <2>4
<1> QED
  BY <1>3 DEF TypesAreTheLast

\* Linking changes jumps alone.
LEMMA LinkedKeeps ==
  ASSUME IInv, NEW target, \A idx \in DOMAIN target : target[idx] \in Nat
  PROVE  \A idx \in 1..Len(rules) :
           /\ \A line : DoesAsTold(Linked(target)[idx], line) <=> DoesAsTold(rules[idx], line)
           /\ Linked(target)[idx].jump = IF idx \in DOMAIN target THEN target[idx]
                                                                  ELSE rules[idx].jump
<1> TAKE idx \in 1..Len(rules)
<1>1. rules \in Seq(Rule) /\ rules[idx] \in Rule
  BY ElementOfSeq DEF IInv, TypeOK
<1>2. Linked(target)[idx] = IF idx \in DOMAIN target
                            THEN [rules[idx] EXCEPT !.jump = target[idx]] ELSE rules[idx]
  BY DEF Linked
<1>3. /\ Linked(target)[idx].kind = rules[idx].kind
      /\ Linked(target)[idx].tableArg = rules[idx].tableArg
      /\ Linked(target)[idx].runs = rules[idx].runs
  BY <1>1, <1>2 DEF Rule
<1>4. \A line : DoesAsTold(Linked(target)[idx], line) <=> DoesAsTold(rules[idx], line)
  BY <1>3 DEF DoesAsTold, MayMatch
<1>5. Linked(target)[idx].jump = IF idx \in DOMAIN target THEN target[idx] ELSE rules[idx].jump
  BY <1>1, LinkedType, ZenonT(20) DEF IInv, TypeOK
<1> QED
  BY <1>4, <1>5

LEMMA LabelMeans ==
  ASSUME MeansInv, NEW line \in Lines, Label(line)
  PROVE  BuildMeans'
<1> DEFINE n == Len(rules)
           q == Len(script) + 1
           target == [idx \in pendingLabels[line.label] |-> n + 1]
<1>1. /\ UNCHANGED <<status, numbers, records, number, tableTypes>> /\ Read(line)
      /\ IsLabel(line) /\ ~IsRule(line) /\ ~IsCreate(line)
      /\ labels' = [labels EXCEPT ![line.label] = n + 1]
      /\ rules' = Linked(target)
  BY DEF Label, GoOn, ReadOther, IsLabel, IsRule, IsCreate, tables
<1>2. /\ Grown(script', script, line) /\ status = "reading" /\ line \in Line
      /\ Laid(script, records, numbers) /\ Len(script) \in Nat
      /\ n \in Nat /\ Len(records) = n
  BY <1>1, ReadFacts
<1>3. \A idx \in 1..n : Action(idx)' = Action(idx) /\ records'[idx] = records[idx]
                         /\ records[idx] \in 1..Len(script)
  BY <1>1, ActionsStay
<1>4. /\ line.label \in Labels /\ labels \in [Labels -> Nat]
      /\ pendingLabels \in [Labels -> SUBSET (1..n)]
  BY <1>2 DEF Line, MeansInv, VMInv, IInv, TypeOK
<1>5. \A idx \in 1..n :
        /\ \A l : DoesAsTold(rules'[idx], l) <=> DoesAsTold(rules[idx], l)
        /\ rules'[idx].jump = IF idx \in pendingLabels[line.label] THEN n + 1
                                                                   ELSE rules[idx].jump
  <2>1. DOMAIN target = pendingLabels[line.label]
        /\ \A idx \in DOMAIN target : target[idx] = n + 1 /\ target[idx] \in Nat
    BY <1>2
  <2> HIDE DEF target
  <2>2. \A idx \in 1..Len(rules) :
          /\ \A l : DoesAsTold(Linked(target)[idx], l) <=> DoesAsTold(rules[idx], l)
          /\ Linked(target)[idx].jump = IF idx \in DOMAIN target THEN target[idx]
                                                                 ELSE rules[idx].jump
    BY <2>1, LinkedKeeps DEF MeansInv, VMInv
  <2> QED
    BY <1>1, <2>1, <2>2
<1>6. Len(rules') = n
  BY <1>1 DEF Linked
<1> HIDE DEF target, n, q
<1>7. RulesAreTheScripts'
  BY <1>1, <1>2, LaidOther DEF RulesAreTheScripts
<1>8. RunningFollows'
  BY <1>1 DEF MeansInv, BuildMeans, RunningFollows
<1>9. RulesDoAsTold'
  BY <1>3, <1>5, <1>6 DEF MeansInv, BuildMeans, RulesDoAsTold, n
<1>10. TypesAreTheLast'
  BY <1>1, TypesStay
<1>11. Place(records, q, n + 1)
  BY <1>2, <1>3 DEF Place, q
<1>12. LabelsAreTheLast'
  <2> SUFFICES ASSUME NEW l \in Labels PROVE KeptLabel(script', records, l, labels'[l])
    BY <1>1 DEF LabelsAreTheLast
  <2>1. CASE l = line.label
    <3>1. \A p : p \in LabelsAfter(script', 0, l) <=> p \in LabelsAfter(script, 0, l) \/ p = q
      <4>1. 0 \in 0..Len(script)
        BY <1>2
      <4> QED
        BY <1>1, <1>2, <2>1, <4>1, LabelsAppended DEF q
    <3>2. \A p \in LabelsAfter(script, 0, l) : p \in 1..Len(script)
      BY <1>2 DEF LabelsAfter
    <3>3. q \in LabelsAfter(script', 0, l) /\ \A p \in LabelsAfter(script', 0, l) : p <= q
      BY <1>2, <3>1, <3>2 DEF q
    <3>4. labels'[l] = n + 1
      BY <1>1, <1>4, <2>1
    <3> QED
      BY <1>11, <3>3, <3>4 DEF KeptLabel
  <2>2. CASE l # line.label
    <3>1. KeptLabel(script, records, l, labels[l])
      BY <1>2 DEF MeansInv, BuildMeans, LabelsAreTheLast
    <3>2. labels'[l] = labels[l]
      BY <1>1, <1>4, <2>2
    <3>3. KeptLabel(script', records, l, labels[l])
      BY <1>2, <2>2, <3>1, KeptStays
    <3> QED
      BY <3>2, <3>3
  <2> QED
    BY <2>1, <2>2
<1>13. LabelJumpsLinked'
  <2> SUFFICES ASSUME NEW idx \in 1..n, IsSkipTo(Action(idx)', "label")
               PROVE  LinkedLabel(script', records, idx, Action(idx)'.label, rules'[idx].jump)
    BY <1>1, <1>6 DEF LabelJumpsLinked, IsSkipTo, IsRule
  <2>1. PICK l : l = Action(idx).label
    OBVIOUS
  <2>2. IsSkipTo(Action(idx), "label") /\ l \in Labels
    BY <1>3, <2>1, RulesOfLines DEF MeansInv, VMInv, n
  <2>3. LinkedLabel(script, records, idx, l, rules[idx].jump)
    BY <1>2, <2>1, <2>2 DEF MeansInv, BuildMeans, LabelJumpsLinked, n
  <2>4. records[idx] \in 0..Len(script)
    BY <1>3
  <2>5. \A m \in Labels : idx \in pendingLabels[m]
                            <=> l = m /\ LabelsAfter(script, records[idx], m) = {}
    <3>1. \A m \in Labels : idx \in pendingLabels[m]
            <=> IsSkipTo(Action(idx), "label") /\ Action(idx).label = m /\ ~LabelAfter(idx, m)
      BY <1>2 DEF MeansInv, FollowInv, Awaited, n
    <3>2. \A m \in Labels : LabelAfter(idx, m) <=> LabelsAfter(script, records[idx], m) # {}
      BY DEF LabelAfter, LabelsAfter
    <3> QED
      BY <2>1, <2>2, <3>1, <3>2
  <2>6. CASE l # line.label
    <3>1. rules'[idx].jump = rules[idx].jump
      BY <1>4, <1>5, <2>5, <2>6
    <3>2. LinkedLabel(script', records, idx, l, rules[idx].jump)
      BY <1>2, <2>3, <2>4, <2>6, LinkedStays
    <3> QED
      BY <1>3, <2>1, <3>1, <3>2
  <2>7. CASE l = line.label
    <3>1. /\ \A p : p \in LabelsAfter(script', records[idx], l)
                    <=> p \in LabelsAfter(script, records[idx], l) \/ p = q
          /\ \A p \in LabelsAfter(script, records[idx], l) : p \in 1..Len(script)
      BY <1>1, <1>2, <2>4, <2>7, LabelsAppended DEF q
    <3>2. CASE LabelsAfter(script, records[idx], l) = {}
      <4>1. rules'[idx].jump = n + 1
        BY <1>4, <1>5, <2>5, <2>7, <3>2
      <4>2. LabelsAfter(script', records[idx], l) = {q}
        BY <3>1, <3>2
      <4>3. q <= q
        BY <1>2 DEF q
      <4>4. LinkedLabel(script', records, idx, l, n + 1)
        BY <1>11, <4>2, <4>3 DEF LinkedLabel
      <4> QED
        BY <1>3, <2>1, <4>1, <4>4
    <3>3. CASE LabelsAfter(script, records[idx], l) # {}
      <4>1. rules'[idx].jump = rules[idx].jump
        BY <1>4, <1>5, <2>5, <2>7, <3>3
      <4>2. PICK p \in LabelsAfter(script, records[idx], l) :
              /\ \A r \in LabelsAfter(script, records[idx], l) : p <= r
              /\ Place(records, p, rules[idx].jump)
        BY <2>3, <3>3 DEF LinkedLabel
      <4>3. p <= q
        BY <1>2, <3>1, <4>2 DEF q
      <4>4. p \in LabelsAfter(script', records[idx], l)
            /\ \A r \in LabelsAfter(script', records[idx], l) : p <= r
        BY <3>1, <4>2, <4>3
      <4>5. LinkedLabel(script', records, idx, l, rules[idx].jump)
        BY <4>2, <4>4 DEF LinkedLabel
      <4> QED
        BY <1>3, <2>1, <4>1, <4>5
    <3> QED
      BY <3>2, <3>3
  <2> QED
    BY <2>6, <2>7
<1>14. NumberJumpsLinked'
  BY <1>1, <1>2 DEF NumberJumpsLinked
<1> QED
  BY <1>7, <1>8, <1>9, <1>10, <1>12, <1>13, <1>14 DEF BuildMeans

\* A rule may match when its line gives it a source and a destination.
LEMMA ClosedMatches ==
  ASSUME TypeOK, NEW line \in Line, IsRule(line)
  PROVE  DoesAsTold(ClosedRule(line, Closed(Pushed(line))), line)
<1> DEFINE closed == Closed(Pushed(line))
           rule == ClosedRule(line, closed)
<1>1. /\ arenas \in [Arena -> Seq(Token)] /\ line.body \in [Arena -> Seq(Token)]
      /\ start = [a \in Arena |-> Len(arenas[a])]
  BY DEF TypeOK, Line
<1>2. /\ rule.kind = line.action
      /\ rule.tableArg = (line.action = "skipto" /\ line.to = "tablearg")
      /\ \A a \in Arena : rule.runs[a] = [start |-> start[a], end |-> Len(closed[a])]
  BY DEF ClosedRule
<1> HIDE DEF rule
<1>3. ASSUME NEW a \in {"sources", "destinations"}
      PROVE  rule.runs[a].end # rule.runs[a].start <=> line.body[a] # <<>>
  <2>1. a \in Arena /\ a # "options"
    BY DEF Arena
  <2>2. closed[a] = arenas[a] \o line.body[a]
    BY <1>1, <2>1 DEF Closed, Pushed
  <2>3. arenas[a] \in Seq(Token) /\ line.body[a] \in Seq(Token)
    BY <1>1, <2>1
  <2>4. Len(closed[a]) = Len(arenas[a]) + Len(line.body[a])
    BY <2>2, <2>3, ConcatProperties
  <2>5. Len(arenas[a]) \in Nat /\ Len(line.body[a]) \in Nat
    BY <2>3, LenProperties
  <2>6. line.body[a] = <<>> <=> Len(line.body[a]) = 0
    BY <2>3, EmptySeq
  <2>7. rule.runs[a] = [start |-> start[a], end |-> Len(closed[a])]
    BY <1>2, <2>1
  <2>8. start[a] = Len(arenas[a])
    BY <1>1, <2>1
  <2>9. rule.runs[a].end = Len(closed[a]) /\ rule.runs[a].start = Len(arenas[a])
    BY <2>7, <2>8
  <2> HIDE DEF closed
  <2>10. Len(closed[a]) # Len(arenas[a]) <=> Len(line.body[a]) # 0
    <3>1. \A x, y \in Nat : x + y # x <=> y # 0
      OBVIOUS
    <3> QED
      BY <2>4, <2>5, <3>1
  <2> QED
    BY <2>6, <2>9, <2>10
<1>4. MayMatch(rule) <=> Meaning!CanMatch(line)
  BY <1>3 DEF MayMatch, Meaning!CanMatch
<1> QED
  <2>1. rule.tableArg <=> IsSkipTo(line, "tablearg")
    BY <1>2 DEF IsSkipTo
  <2> QED
    BY <1>2, <1>4, <2>1 DEF DoesAsTold, rule

\* A rule appended comes after every position there was.
LEMMA PlaceAppended ==
  ASSUME NEW recs \in Seq(Nat), NEW q \in Nat, NEW p \in Nat, p <= q, NEW j,
         Place(recs, p, j)
  PROVE  Place(Append(recs, q), p, j)
<1>1. /\ Len(recs) \in Nat /\ Len(Append(recs, q)) = Len(recs) + 1
      /\ \A i \in 1..Len(recs) : Append(recs, q)[i] = recs[i]
      /\ Append(recs, q)[Len(recs) + 1] = q
  BY AppendProperties, LenProperties
<1>2. j \in 1..(Len(recs) + 1) /\ \A i \in 1..Len(recs) : recs[i] < p <=> i < j
  BY DEF Place
<1>3. ASSUME NEW i \in 1..(Len(recs) + 1) PROVE Append(recs, q)[i] < p <=> i < j
  <2>1. CASE i = Len(recs) + 1
    BY <1>1, <1>2, <2>1
  <2>2. CASE i \in 1..Len(recs)
    BY <1>1, <1>2, <2>2
  <2> QED
    BY <1>1, <2>1, <2>2
<1> QED
  BY <1>1, <1>2, <1>3 DEF Place

LEMMA KeptAdd ==
  ASSUME NEW s, NEW line, NEW t, Grown(t, s, line), ~IsLabel(line),
         NEW recs \in Seq(Nat), NEW l, NEW rule, KeptLabel(s, recs, l, rule)
  PROVE  KeptLabel(t, Append(recs, Len(t)), l, rule)
<1>1. Len(s) \in Nat /\ Len(t) = Len(s) + 1
  BY LenProperties, AppendProperties DEF Grown
<1>2. LabelsAfter(t, 0, l) = LabelsAfter(s, 0, l)
  BY <1>1, LabelsAppended
<1>3. ASSUME NEW p \in LabelsAfter(s, 0, l), Place(recs, p, rule)
      PROVE  Place(Append(recs, Len(t)), p, rule)
  <2>1. p \in Nat /\ p <= Len(t) /\ Len(t) \in Nat
    BY <1>1 DEF LabelsAfter
  <2> QED
    BY <1>3, <2>1, PlaceAppended
<1> QED
  BY <1>2, <1>3 DEF KeptLabel

LEMMA LinkedAdd ==
  ASSUME NEW s, NEW line, NEW t, Grown(t, s, line), ~IsLabel(line),
         NEW recs \in Seq(Nat), NEW idx \in 1..Len(recs), recs[idx] \in 0..Len(s),
         NEW l, NEW jump, LinkedLabel(s, recs, idx, l, jump)
  PROVE  LinkedLabel(t, Append(recs, Len(t)), idx, l, jump)
<1>1. Len(s) \in Nat /\ Len(t) = Len(s) + 1
  BY LenProperties, AppendProperties DEF Grown
<1>2. LabelsAfter(t, recs[idx], l) = LabelsAfter(s, recs[idx], l)
  BY LabelsAppended
<1>3. ASSUME NEW p \in LabelsAfter(s, recs[idx], l), Place(recs, p, jump)
      PROVE  Place(Append(recs, Len(t)), p, jump)
  <2>1. p \in Nat /\ p <= Len(t) /\ Len(t) \in Nat
    BY <1>1 DEF LabelsAfter
  <2> QED
    BY <1>3, <2>1, PlaceAppended
<1>4. Append(recs, Len(t))[idx] = recs[idx]
  BY <1>1, AppendProperties
<1> QED
  BY <1>2, <1>3, <1>4 DEF LinkedLabel

LEMMA AddMeans ==
  ASSUME MeansInv, NEW line \in Lines, Add(line)
  PROVE  BuildMeans'
<1> DEFINE n == Len(rules)
           num == RuleNumber(line)
           new == ClosedRule(line, Closed(Pushed(line)))
<1>0. PICK idx \in Nat : idx = n + 1
  BY LenProperties DEF MeansInv, VMInv, IInv, TypeOK
<1>1. /\ UNCHANGED <<status, labels, tableTypes>> /\ Read(line)
      /\ IsRule(line) /\ ~IsLabel(line) /\ ~IsCreate(line) /\ ~OutOfOrder(line)
      /\ rules' = Append(rules, new)
      /\ numbers' = Append(numbers, num)
      /\ records' = Append(records, Len(script'))
      /\ number' = (num + 1) % (MaxNumber + 1)
  BY DEF Add, GoOn, tables, IsRule, IsLabel, IsCreate
<1>2. /\ Grown(script', script, line) /\ status = "reading" /\ line \in Line
      /\ Laid(script, records, numbers)
      /\ n \in Nat /\ Len(records) = n /\ Len(numbers) = n
      /\ Len(script') = Len(script) + 1 /\ Len(script) \in Nat
      /\ script'[Len(script')] = line
      /\ \A i \in 1..Len(script) : script'[i] = script[i]
  BY <1>1, ReadFacts
<1>3. /\ num = Meaning!NumberAt(script', Len(script')) /\ num \in Nat
      /\ \A i \in 1..n : numbers[i] < num
  BY <1>1, OrderMeans
<1>4. RulesAreTheScripts'
  <2>1. Laid(script', Append(records, Len(script')), Append(numbers, num))
    BY <1>1, <1>2, <1>3, LaidAdd
  <2> QED
    BY <1>1, <2>1 DEF RulesAreTheScripts
<1>5. /\ rules \in Seq(Rule) /\ records \in Seq(Nat) /\ numbers \in Seq(Nat)
      /\ \A i \in 1..n : records[i] \in 1..Len(script)
  BY <1>2 DEF MeansInv, VMInv, IInv, TypeOK, Laid
<1>6. /\ Len(rules') = idx /\ rules'[idx] = new
      /\ \A i \in 1..n : rules'[i] = rules[i]
      /\ 1..idx = 1..n \cup {idx}
  BY <1>0, <1>1, <1>2, <1>5
<1>7. /\ records'[idx] = Len(script')
      /\ \A i \in 1..n : records'[i] = records[i]
  BY <1>0, <1>1, <1>2, <1>5
<1>8. Action(idx)' = line /\ \A i \in 1..n : Action(i)' = Action(i)
  BY <1>2, <1>5, <1>7 DEF Action
<1>9. RunningFollows'
  <2>1. numbers' # <<>> /\ Len(numbers') = idx /\ numbers'[idx] = num
    <3> HIDE DEF num, new, n
    <3>1. numbers \in Seq(Nat) /\ num \in Nat /\ numbers' = Append(numbers, num)
      BY <1>1, <1>3, <1>5
    <3>2. /\ Len(numbers') = Len(numbers) + 1 /\ numbers' # <<>>
          /\ numbers'[Len(numbers) + 1] = num
      BY <3>1, AppendProperties
    <3> QED
      BY <1>0, <1>2, <3>2
  <2> QED
    BY <1>1, <2>1 DEF RunningFollows
<1>10. RulesDoAsTold'
  <2>1. DoesAsTold(new, line)
    BY <1>1, <1>2, ClosedMatches DEF MeansInv, VMInv, IInv
  <2>2. \A i \in 1..n : DoesAsTold(rules[i], Action(i))
    BY DEF MeansInv, BuildMeans, RulesDoAsTold
  <2> HIDE DEF new
  <2>3. \A i \in 1..idx : DoesAsTold(rules'[i], Action(i)')
    BY <1>6, <1>8, <2>1, <2>2
  <2> QED
    BY <1>6, <2>3 DEF RulesDoAsTold
<1> HIDE DEF new, n, num
<1>11. TypesAreTheLast'
  BY <1>1, TypesStay
<1>12. LabelsAreTheLast'
  <2> SUFFICES ASSUME NEW l \in Labels PROVE KeptLabel(script', records', l, labels[l])
    BY <1>1 DEF LabelsAreTheLast
  <2>1. KeptLabel(script, records, l, labels[l])
    BY <1>2 DEF MeansInv, BuildMeans, LabelsAreTheLast
  <2>2. KeptLabel(script', Append(records, Len(script')), l, labels[l])
    BY <1>1, <1>2, <1>5, <2>1, KeptAdd
  <2> QED
    BY <1>1, <2>2
<1>13. LabelJumpsLinked'
  <2> SUFFICES ASSUME NEW i \in 1..idx, IsSkipTo(Action(i)', "label")
               PROVE  LinkedLabel(script', records', i, Action(i)'.label, rules'[i].jump)
    BY <1>6 DEF LabelJumpsLinked, IsSkipTo, IsRule
  <2>1. CASE i \in 1..n
    <3>1. PICK l : l = Action(i).label
      OBVIOUS
    <3>2. LinkedLabel(script, records, i, l, rules[i].jump)
      BY <1>2, <1>8, <2>1, <3>1 DEF MeansInv, BuildMeans, LabelJumpsLinked, n
    <3>3. records[i] \in 0..Len(script) /\ i \in 1..Len(records)
      BY <1>2, <1>5, <2>1
    <3>4. LinkedLabel(script', Append(records, Len(script')), i, l, rules[i].jump)
      BY <1>1, <1>2, <1>5, <3>2, <3>3, LinkedAdd
    <3> QED
      BY <1>1, <1>6, <1>8, <2>1, <3>1, <3>4
  <2>2. CASE i = idx
    <3>1. LabelsAfter(script', records'[i], Action(i)'.label) = {}
      BY <1>2, <1>7, <2>2 DEF LabelsAfter
    <3>2. rules'[i].jump = i + 1
      <4>1. line.action = "skipto"
        BY <1>8, <2>2 DEF IsSkipTo
      <4> QED
        BY <1>0, <1>2, <1>6, <2>2, <4>1 DEF new, n, ClosedRule
    <3> QED
      BY <3>1, <3>2 DEF LinkedLabel
  <2> QED
    BY <1>6, <2>1, <2>2
<1>14. NumberJumpsLinked'
  BY <1>1, <1>2 DEF NumberJumpsLinked
<1> QED
  BY <1>4, <1>9, <1>10, <1>11, <1>12, <1>13, <1>14 DEF BuildMeans

\* The end of the ruleset links the jumps to a number, whether or not a line of
\* a hook ended it.
LEMMA FinishMeans ==
  ASSUME MeansInv, status = "reading", Finish, UNCHANGED <<numbers, records, number>>,
         Laid(script', records, numbers),
         \A i \in 1..Len(script) : script'[i] = script[i],
         \A p \in 0..Len(script) : \A l : LabelsAfter(script', p, l) = LabelsAfter(script, p, l)
  PROVE  BuildMeans'
<1> DEFINE n == Len(rules)
           target == [idx \in numberJumps \ UnresolvedNumbers |-> At(Wanted(idx))]
<1>1. /\ UNCHANGED <<labels, tableTypes>> /\ rules' = Linked(target)
      /\ status' # "reading"
  BY DEF Finish, linking, tables
<1>2. /\ n \in Nat /\ Len(numbers) = n /\ Len(records) = n /\ Len(script) \in Nat
      /\ numbers \in Seq(1..MaxNumber) /\ MaxNumber \in Nat
      /\ \A idx \in 1..n : records[idx] \in 1..Len(script)
      /\ numberJumps \subseteq 1..n
  BY LenProperties, ConstantsAssumption DEF MeansInv, VMInv, IInv, TypeOK
<1>3. \A idx \in 1..n : Action(idx)' = Action(idx)
  BY <1>2 DEF Action
<1>4. \A idx \in 1..n : Finds(numbers, Wanted(idx), At(Wanted(idx)))
  <2> TAKE idx \in 1..n
  <2>1. Wanted(idx) \in Nat
    BY RulesOfLines DEF MeansInv, VMInv
  <2> QED
    BY <1>2, <2>1, AtFinds DEF Finds
<1>5. \A idx \in 1..n :
        /\ \A line : DoesAsTold(rules'[idx], line) <=> DoesAsTold(rules[idx], line)
        /\ rules'[idx].jump = IF idx \in numberJumps \ UnresolvedNumbers
                              THEN At(Wanted(idx)) ELSE rules[idx].jump
  <2>1. \A idx \in DOMAIN target : target[idx] \in Nat
    BY <1>2, <1>4 DEF Finds
  <2>2. /\ DOMAIN target = numberJumps \ UnresolvedNumbers
        /\ \A idx \in DOMAIN target : target[idx] = At(Wanted(idx))
    OBVIOUS
  <2> HIDE DEF target
  <2>3. \A idx \in 1..Len(rules) :
          /\ \A line : DoesAsTold(Linked(target)[idx], line) <=> DoesAsTold(rules[idx], line)
          /\ Linked(target)[idx].jump = IF idx \in DOMAIN target THEN target[idx]
                                                                 ELSE rules[idx].jump
    BY <2>1, LinkedKeeps DEF MeansInv, VMInv
  <2> QED
    BY <1>1, <2>2, <2>3
<1>6. Len(rules') = n
  BY <1>1 DEF Linked
<1> HIDE DEF target, n
<1>7. RulesAreTheScripts' /\ RunningFollows' /\ TypesAreTheLast'
  BY <1>1 DEF RulesAreTheScripts, TypesAreTheLast, MeansInv, BuildMeans, RunningFollows
<1>8. RulesDoAsTold'
  BY <1>3, <1>5, <1>6 DEF MeansInv, BuildMeans, RulesDoAsTold, n
<1>9. LabelsAreTheLast'
  <2> SUFFICES ASSUME NEW l \in Labels PROVE KeptLabel(script', records, l, labels[l])
    BY <1>1 DEF LabelsAreTheLast
  <2>1. KeptLabel(script, records, l, labels[l])
    BY DEF MeansInv, BuildMeans, LabelsAreTheLast
  <2>2. LabelsAfter(script', 0, l) = LabelsAfter(script, 0, l)
    BY <1>2
  <2> QED
    BY <2>1, <2>2 DEF KeptLabel
<1>10. LabelJumpsLinked'
  <2> SUFFICES ASSUME NEW idx \in 1..n, IsSkipTo(Action(idx)', "label")
               PROVE  LinkedLabel(script', records, idx, Action(idx)'.label, rules'[idx].jump)
    BY <1>6 DEF LabelJumpsLinked, IsSkipTo, IsRule
  <2>1. PICK l : l = Action(idx).label
    OBVIOUS
  <2>2. IsSkipTo(Action(idx), "label") /\ ~IsSkipTo(Action(idx), "number")
    BY <1>3 DEF IsSkipTo
  <2>3. idx \notin numberJumps
    BY <2>2 DEF MeansInv, VMInv, IInv, JumpsWait
  <2>4. rules'[idx].jump = rules[idx].jump
    BY <1>5, <2>3
  <2>5. LinkedLabel(script, records, idx, l, rules[idx].jump)
    BY <2>1, <2>2 DEF MeansInv, BuildMeans, LabelJumpsLinked, n
  <2>6. records[idx] \in 0..Len(script)
    BY <1>2
  <2>7. LabelsAfter(script', records[idx], l) = LabelsAfter(script, records[idx], l)
    BY <2>6
  <2>8. LinkedLabel(script', records, idx, l, rules[idx].jump)
    BY <2>5, <2>7 DEF LinkedLabel
  <2> QED
    BY <1>3, <2>1, <2>4, <2>8
<1>11. NumberJumpsLinked'
  <2> SUFFICES ASSUME NEW idx \in 1..n, IsSkipTo(Action(idx), "number")
               PROVE  LinkedNumber(numbers, idx, Wanted(idx), rules'[idx].jump)
    BY <1>3, <1>6 DEF NumberJumpsLinked, IsSkipTo, IsRule, Wanted, PastOwn
  <2>1. idx \in numberJumps
    BY DEF MeansInv, FollowInv, Awaited, n
  <2>2. rules[idx].jump = idx + 1
    BY <2>1 DEF MeansInv, VMInv, IInv, JumpsWait
  <2>3. idx \in UnresolvedNumbers <=> At(Wanted(idx)) > Len(numbers)
    BY <1>2, <2>1 DEF UnresolvedNumbers, n
  <2>4. rules'[idx].jump = IF At(Wanted(idx)) > Len(numbers) THEN idx + 1
                                                             ELSE At(Wanted(idx))
    BY <1>5, <2>1, <2>2, <2>3
  <2> QED
    BY <1>4, <2>4 DEF LinkedNumber
<1> QED
  BY <1>7, <1>8, <1>9, <1>10, <1>11 DEF BuildMeans

-----------------------------------------------------------------------------
(* The ruleset loads when the build does.                                  *)

\* A skipto to nowhere, said of a script and its rules.
HangsAt(s, recs, nums, idx) ==
  \/ /\ IsSkipTo(s[recs[idx]], "number")
     /\ \A later \in (idx + 1)..Len(recs) : nums[later] < s[recs[idx]].number
  \/ /\ IsSkipTo(s[recs[idx]], "label")
     /\ LabelsAfter(s, recs[idx], s[recs[idx]].label) = {}

LEMMA CandidatesHang ==
  ASSUME NEW s, NEW recs, NEW nums, Laid(s, recs, nums), NEW idx \in 1..Len(recs)
  PROVE  HangsAt(s, recs, nums, idx)
           <=> /\ Meaning!IsStatic(s[recs[idx]])
               /\ Meaning!Candidates(s, recs[idx]) = {}
<1> DEFINE i == recs[idx]
           n == Len(recs)
<1>1. /\ Len(s) \in Nat /\ n \in Nat
      /\ \A k \in 1..n : recs[k] \in 1..Len(s) /\ nums[k] \in Nat
      /\ \A k, m \in 1..n : k < m => recs[k] < recs[m]
      /\ \A k \in 1..n : recs[k] \in Meaning!Rules(s) /\ nums[k] = Meaning!NumberAt(s, recs[k])
      /\ \A p \in Meaning!Rules(s) : \E k \in 1..n : recs[k] = p
      /\ Meaning!Rules(s) \subseteq 1..Len(s)
  BY LaidTypes DEF Laid
<1>2. Meaning!IsStatic(s[i]) <=> IsSkipTo(s[i], "number") \/ IsSkipTo(s[i], "label")
  BY SameWords DEF Meaning!IsStatic
<1>3. CASE IsSkipTo(s[i], "number")
  <2>1. s[i].to = "number" /\ ~IsSkipTo(s[i], "label") /\ s[i].number \in Nat
    <3>1. s[i] \in Line
      BY <1>1, ElementOfSeq DEF Laid
    <3> QED
      BY <1>3, <3>1, ConstantsAssumption DEF IsSkipTo, Line
  <2>2. \A p : p \in Meaning!Candidates(s, i)
              <=> p \in Meaning!Rules(s) /\ p > i /\ Meaning!NumberAt(s, p) >= s[i].number
    BY <1>1, <2>1 DEF Meaning!Candidates, Meaning!NumberedFrom, Meaning!Positions
  <2>3. ASSUME NEW k \in (idx + 1)..n
        PROVE  recs[k] \in Meaning!Candidates(s, i) <=> ~(nums[k] < s[i].number)
    <3>1. k \in 1..n /\ idx < k
      BY <1>1
    <3>2. recs[k] > i
      BY <1>1, <3>1
    <3> QED
      BY <1>1, <2>1, <2>2, <3>1, <3>2, SMTT(20)
  <2>4. ASSUME NEW p \in Meaning!Candidates(s, i)
        PROVE  \E k \in (idx + 1)..n : recs[k] = p
    <3>1. p \in Meaning!Rules(s) /\ p > i
      BY <2>2
    <3>2. PICK k \in 1..n : recs[k] = p
      BY <1>1, <3>1
    <3>3. ~(k < idx) /\ k # idx
      BY <1>1, <3>1, <3>2
    <3>4. k \in (idx + 1)..n
      BY <1>1, <3>3
    <3> QED
      BY <3>2, <3>4
  <2>5. Meaning!Candidates(s, i) = {} <=> \A k \in (idx + 1)..n : nums[k] < s[i].number
    BY <2>3, <2>4
  <2> QED
    BY <1>2, <1>3, <2>1, <2>5 DEF HangsAt
<1>4. CASE IsSkipTo(s[i], "label")
  <2>1. s[i].to = "label" /\ ~IsSkipTo(s[i], "number")
    BY <1>4 DEF IsSkipTo
  <2>2. Meaning!Candidates(s, i) = LabelsAfter(s, i, s[i].label)
    <3>1. i \in 1..Len(s)
      BY <1>1
    <3>2. \A p : p \in 1..Len(s) /\ p > i <=> p \in (i + 1)..Len(s)
      BY <1>1, <3>1
    <3> QED
      BY <2>1, <3>2, SameWords DEF Meaning!Candidates, Meaning!Positions, LabelsAfter
  <2> QED
    BY <1>2, <1>4, <2>1, <2>2 DEF HangsAt
<1> QED
  BY <1>2, <1>3, <1>4 DEF HangsAt

LEMMA ResolveIs ==
  ASSUME NEW s, NEW recs, NEW nums, Laid(s, recs, nums)
  PROVE  Meaning!JumpsResolve(s) <=> \A idx \in 1..Len(recs) : ~HangsAt(s, recs, nums, idx)
<1>1. \A idx \in 1..Len(recs) :
        HangsAt(s, recs, nums, idx) <=> /\ Meaning!IsStatic(s[recs[idx]])
                                        /\ Meaning!Candidates(s, recs[idx]) = {}
  BY CandidatesHang
<1>2. \A p : p \in 1..Len(s) /\ Meaning!IsStatic(s[p]) => p \in Meaning!Rules(s)
  BY DEF Meaning!IsStatic, Meaning!IsSkipTo, Meaning!Rules, Meaning!Positions
<1>3. /\ \A idx \in 1..Len(recs) : recs[idx] \in 1..Len(s)
      /\ \A p \in Meaning!Rules(s) : \E idx \in 1..Len(recs) : recs[idx] = p
  BY LaidTypes DEF Laid
<1>4. Meaning!JumpsResolve(s)
        <=> \A p \in 1..Len(s) : Meaning!IsStatic(s[p]) => Meaning!Candidates(s, p) # {}
  BY DEF Meaning!JumpsResolve, Meaning!Positions
<1> QED
  BY <1>1, <1>2, <1>3, <1>4

LEMMA FinishLoads ==
  ASSUME MeansInv, status = "reading", Finish, UNCHANGED <<numbers, records, number, checkVars>>,
         Laid(script', records, numbers),
         \A i \in 1..Len(script) : script'[i] = script[i],
         \A p \in 0..Len(script) : \A l : LabelsAfter(script', p, l) = LabelsAfter(script, p, l)
  PROVE  Meaning!Complete
<1> DEFINE n == Len(rules)
<1>1. /\ n \in Nat /\ Len(records) = n
      /\ \A idx \in 1..n : records[idx] \in 1..Len(script)
  BY LenProperties DEF MeansInv, VMInv, IInv, TypeOK
<1>2. ASSUME NEW idx \in 1..n PROVE HangsAt(script', records, numbers, idx) <=> Hanging(idx)
  <2>1. PICK line : line = Action(idx)
    OBVIOUS
  <2>2. script'[records[idx]] = line /\ script[records[idx]] = line
    BY <1>1, <2>1 DEF Action
  <2>3. LabelsAfter(script', records[idx], line.label)
          = LabelsAfter(script, records[idx], line.label)
    <3>1. records[idx] \in 0..Len(script)
      BY <1>1, LenProperties
    <3> QED
      BY <3>1
  <2>4. LabelsAfter(script, records[idx], line.label) = {}
          <=> \A i \in (records[idx] + 1)..Len(script) :
                IsLabel(script[i]) => script[i].label # line.label
    BY DEF LabelsAfter
  <2>5. IsSkipTo(line, "number") => ~IsSkipTo(line, "label")
    BY DEF IsSkipTo
  <2> QED
    BY <1>1, <2>1, <2>2, <2>3, <2>4, <2>5 DEF HangsAt, Hanging
<1>3. Meaning!JumpsResolve(script') <=> Unresolved = {}
  <2>1. Meaning!JumpsResolve(script')
          <=> \A idx \in 1..Len(records) : ~HangsAt(script', records, numbers, idx)
    <3> PICK s : s = script'
      OBVIOUS
    <3> QED
      BY ResolveIs
  <2>2. HangingJumps = Unresolved
    BY UnresolvedHang DEF MeansInv, FollowInv
  <2> QED
    BY <1>1, <1>2, <2>1, <2>2 DEF HangingJumps
<1>4. Len(rules') = n /\ pc' = 1 /\ AtLine = 0
  BY DEF Finish, Linked, MeansInv, ChecksWait, checkVars, AtLine
<1>5. CASE FallThrough \/ Unresolved = {}
  <2>1. status' = "built"
    BY <1>5 DEF Finish
  <2>2. AtLine' = LineOf(script', records, 1)
    BY <1>1, <1>4, <2>1 DEF AtLine, LineOf
  <2>3. Meaning!RuleAfter(script', 0) = LineOf(script', records, 1)
    <3> PICK s : s = script'
      OBVIOUS
    <3> QED
      BY NextRule
  <2>4. Phase' = "loaded"
    BY <2>1 DEF Phase
  <2> QED
    BY <1>3, <1>5, <2>2, <2>3, <2>4 DEF Meaning!Complete
<1>6. CASE ~(FallThrough \/ Unresolved = {})
  <2>1. status' = "failed"
    BY <1>6 DEF Finish
  <2>2. AtLine' = 0 /\ Phase' = "rejected"
    BY <2>1 DEF AtLine, Phase
  <2> QED
    BY <1>3, <1>4, <1>6, <2>2 DEF Meaning!Complete
<1> QED
  BY <1>5, <1>6

-----------------------------------------------------------------------------
(* Every step of a build is one of the ruleset's.                          *)

\* What a line comes to, as the ruleset has it.
Outcome(line) ==
  \/ ~Holds /\ status' = "failed"
  \/ Holds /\ line.kind # "eof" /\ status' = "reading"
  \/ Holds /\ IsAdd(line) /\ status' = "failed"

\* A line that fails.
LEMMA FailedRead ==
  ASSUME MeansInv, NEW line \in Lines,
         \/ ParseFails(line) \/ UnsupportedRecord(line)
         \/ AddOutOfOrder(line) \/ AddUnsupported(line)
  PROVE  BuildMeans' /\ Read(line) /\ Outcome(line)
<1>1. /\ Read(line)
      /\ \E kind \in {"parse", "record", "order", "action"} : Fail(kind)
  BY DEF ParseFails, UnsupportedRecord, AddOutOfOrder, AddUnsupported
<1>2. BuildMeans'
  BY <1>1, FailMeans
<1>3. Holds <=>
        /\ Parses(line) /\ line.kind # "unknown"
        /\ IsRule(line) => Meaning!InOrder(script', Len(script')) /\ SupportedAction(line)
        /\ IsCreate(line) => line.type # "other"
        /\ IsAdd(line) => line.resolves \/ tableTypes[line.table] = "iface"
  BY <1>1, HoldsIs
<1>4. IsRule(line) => (OutOfOrder(line) <=> ~Meaning!InOrder(script', Len(script')))
  BY <1>1, OrderMeans
<1>5. ~Holds
  BY <1>3, <1>4 DEF ParseFails, UnsupportedRecord, AddOutOfOrder, AddUnsupported
<1> QED
  BY <1>1, <1>2, <1>5 DEF Outcome, Fail

\* A line that changes no rule.
LEMMA OtherRead ==
  ASSUME MeansInv, NEW line \in Lines,
         Skip(line) \/ TableCreate(line) \/ TableAdd(line) \/ TableOther(line)
  PROVE  BuildMeans' /\ Read(line) /\ Outcome(line)
<1>1. /\ Read(line) /\ Parses(line) /\ ~IsRule(line) /\ ~IsLabel(line)
      /\ line.kind # "eof" /\ line.kind # "unknown"
  BY DEF Skip, TableCreate, TableAdd, TableOther, ReadOther, IsRule, IsLabel, IsCreate, IsAdd
<1>2. status = "reading"
  BY <1>1, ReadFacts
<1>3. Holds <=> /\ IsCreate(line) => line.type # "other"
                /\ IsAdd(line) => line.resolves \/ tableTypes[line.table] = "iface"
  <2>1. Holds <=>
          /\ Parses(line) /\ line.kind # "unknown"
          /\ IsRule(line) => Meaning!InOrder(script', Len(script')) /\ SupportedAction(line)
          /\ IsCreate(line) => line.type # "other"
          /\ IsAdd(line) => line.resolves \/ tableTypes[line.table] = "iface"
    BY <1>1, HoldsIs
  <2> QED
    BY <1>1, <2>1
<1>4. ASSUME ReadOther(line), GoOn, UNCHANGED <<rules, labels>>, TypesAreTheLast'
      PROVE  BuildMeans' /\ status' = "reading"
  <2>1. status' = "reading" /\ status' # "built"
    BY <1>2, <1>4 DEF GoOn
  <2>2. UNCHANGED <<rules, numbers, records, number, labels>>
    BY <1>4 DEF ReadOther
  <2> QED
    BY <1>1, <1>4, <2>1, <2>2, OtherMeans
<1>5. CASE Skip(line) \/ TableOther(line)
  <2>1. /\ ReadOther(line) /\ GoOn /\ UNCHANGED <<rules, labels, tableTypes>>
        /\ ~IsCreate(line) /\ ~IsAdd(line)
    BY <1>5 DEF Skip, TableOther, IsCreate, IsAdd, linking, tables
  <2>2. TypesAreTheLast'
    BY <1>1, <2>1, TypesStay
  <2> QED
    BY <1>1, <1>3, <1>4, <2>1, <2>2 DEF Outcome
<1>6. CASE TableCreate(line)
  <2>1. IsCreate(line) /\ ~IsAdd(line)
    BY <1>6 DEF TableCreate, IsCreate, IsAdd
  <2>2. CASE line.type # "other"
    <3>1. /\ ReadOther(line) /\ GoOn /\ UNCHANGED <<rules, labels>>
          /\ tableTypes' = TypesAfter(line)
      BY <1>6, <2>2 DEF TableCreate, linking
    <3>2. TypesAreTheLast'
      BY <1>1, <2>1, <3>1, TypesChange
    <3> QED
      BY <1>1, <1>3, <1>4, <2>1, <2>2, <3>1, <3>2 DEF Outcome
  <2>3. CASE line.type = "other"
    <3>1. Fail("table")
      BY <1>6, <2>3 DEF TableCreate
    <3>2. BuildMeans' /\ status' = "failed"
      BY <1>1, <3>1, FailMeans DEF Fail
    <3> QED
      BY <1>1, <1>3, <2>1, <2>3, <3>2 DEF Outcome
  <2> QED
    BY <2>2, <2>3
<1>7. CASE TableAdd(line)
  <2> DEFINE resolved == line.resolves \/ tableTypes[line.table] = "iface"
  <2>1. IsAdd(line) /\ ~IsCreate(line)
    BY <1>7 DEF TableAdd, IsCreate, IsAdd
  <2>2. \/ resolved /\ ReadOther(line) /\ GoOn /\ UNCHANGED <<rules, linking, tableTypes>>
        \/ resolved /\ Fail("registry")
        \/ ~resolved /\ Fail("table")
    BY <1>7 DEF TableAdd
  <2>3. Holds <=> resolved
    BY <1>3, <2>1
  <2> HIDE DEF resolved
  <2>4. CASE resolved /\ ReadOther(line) /\ GoOn /\ UNCHANGED <<rules, linking, tableTypes>>
    <3>1. TypesAreTheLast'
      BY <1>1, <2>1, <2>4, TypesStay
    <3> QED
      BY <1>1, <1>4, <2>3, <2>4, <3>1 DEF Outcome, linking
  <2>5. CASE \E kind \in {"registry", "table"} : Fail(kind)
    <3>1. BuildMeans' /\ status' = "failed"
      BY <1>1, <2>5, FailMeans DEF Fail
    <3> QED
      BY <1>1, <2>1, <2>3, <3>1 DEF Outcome
  <2> QED
    BY <2>2, <2>4, <2>5
<1> QED
  BY <1>5, <1>6, <1>7

\* A rule or a label.
LEMMA RuleRead ==
  ASSUME MeansInv, NEW line \in Lines, Add(line) \/ Label(line)
  PROVE  BuildMeans' /\ Read(line) /\ Outcome(line)
<1>1. /\ Read(line) /\ Parses(line) /\ ~IsCreate(line) /\ ~IsAdd(line)
      /\ line.kind # "eof" /\ line.kind # "unknown" /\ GoOn
      /\ IsRule(line) => ~OutOfOrder(line) /\ SupportedAction(line)
  BY DEF Add, Label, ReadOther, IsRule, IsLabel, IsCreate, IsAdd
<1>2. status' = "reading"
  <2>1. status = "reading"
    BY <1>1, ReadFacts
  <2> QED
    BY <1>1, <2>1 DEF GoOn
<1>3. IsRule(line) => Meaning!InOrder(script', Len(script'))
  BY <1>1, OrderMeans
<1>4. Holds <=>
        /\ Parses(line) /\ line.kind # "unknown"
        /\ IsRule(line) => Meaning!InOrder(script', Len(script')) /\ SupportedAction(line)
        /\ IsCreate(line) => line.type # "other"
        /\ IsAdd(line) => line.resolves \/ tableTypes[line.table] = "iface"
  BY <1>1, HoldsIs
<1>5. BuildMeans'
  BY AddMeans, LabelMeans
<1> QED
  BY <1>1, <1>2, <1>3, <1>4, <1>5 DEF Outcome

\* The end of the ruleset.
LEMMA EndMeans ==
  ASSUME MeansInv, EndOfInput, UNCHANGED checkVars
  PROVE  BuildMeans' /\ Meaning!End
<1>1. /\ status = "reading" /\ Finish
      /\ UNCHANGED <<script, numbers, records, number, checkVars>>
  BY DEF EndOfInput
<1>2. /\ Laid(script', records, numbers)
      /\ \A i \in 1..Len(script) : script'[i] = script[i]
      /\ \A p \in 0..Len(script) : \A l : LabelsAfter(script', p, l) = LabelsAfter(script, p, l)
  BY <1>1 DEF MeansInv, BuildMeans, RulesAreTheScripts
<1>3. BuildMeans'
  BY <1>1, <1>2, FinishMeans
<1>4. Meaning!Complete
  BY <1>1, <1>2, FinishLoads
<1>5. Phase = "reading" /\ verdict' = verdict
  BY <1>1 DEF Phase, checkVars
<1> QED
  BY <1>1, <1>3, <1>4, <1>5 DEF Meaning!End

LEMMA HookMeans ==
  ASSUME MeansInv, NEW line \in Lines, HookEnds(line), UNCHANGED checkVars
  PROVE  BuildMeans' /\ Meaning!Read(line)
<1>1. /\ Read(line) /\ Parses(line) /\ ~IsRule(line) /\ ~IsLabel(line) /\ Finish
      /\ ~IsCreate(line) /\ ~IsAdd(line) /\ line.kind = "eof"
      /\ UNCHANGED <<numbers, records, number, checkVars>>
  BY DEF HookEnds, ReadOther, IsRule, IsLabel, IsCreate, IsAdd
<1>2. /\ Grown(script', script, line) /\ status = "reading"
      /\ script' = Append(script, line) /\ Laid(script, records, numbers)
      /\ \A i \in 1..Len(script) : script'[i] = script[i]
  BY <1>1, ReadFacts
<1>3. Laid(script', records, numbers)
  BY <1>1, <1>2, LaidOther
<1>4. \A p \in 0..Len(script) : \A l : LabelsAfter(script', p, l) = LabelsAfter(script, p, l)
  BY <1>1, <1>2, LabelsAppended
<1>5. BuildMeans'
  BY <1>1, <1>2, <1>3, <1>4, FinishMeans
<1>6. Meaning!Complete
  BY <1>1, <1>2, <1>3, <1>4, FinishLoads
<1>7. Holds
  <2>1. Holds <=>
          /\ Parses(line) /\ line.kind # "unknown"
          /\ IsRule(line) => Meaning!InOrder(script', Len(script')) /\ SupportedAction(line)
          /\ IsCreate(line) => line.type # "other"
          /\ IsAdd(line) => line.resolves \/ tableTypes[line.table] = "iface"
    BY <1>1, HoldsIs
  <2> QED
    BY <1>1, <2>1
<1>8. Phase = "reading" /\ verdict' = verdict
  BY <1>1, <1>2 DEF Phase, checkVars
<1> QED
  BY <1>1, <1>2, <1>5, <1>6, <1>7, <1>8 DEF Meaning!Read, Holds

LEMMA BuildStep ==
  ASSUME MeansInv, Next, UNCHANGED checkVars
  PROVE  BuildMeans' /\ Meaning!Next
<1>1. CASE EndOfInput
  BY <1>1, EndMeans DEF Meaning!Next
<1>2. ASSUME NEW line \in Lines, HookEnds(line) PROVE BuildMeans' /\ Meaning!Next
  BY <1>2, HookMeans DEF Meaning!Next
<1>3. ASSUME NEW line \in Lines, Read(line), Outcome(line) PROVE Meaning!Next
  <2>1. UNCHANGED verdict
    BY DEF checkVars
  <2>2. \/ ~Holds /\ status' = "failed"
        \/ Holds /\ line.kind # "eof" /\ status' = "reading"
        \/ Holds /\ IsAdd(line) /\ status' = "failed"
    BY <1>3 DEF Outcome
  <2>3. Meaning!Read(line)
    BY <1>3, <2>1, <2>2, ReadMeans
  <2> QED
    BY <2>3 DEF Meaning!Next
<1>4. ASSUME NEW line \in Lines,
             \/ ParseFails(line) \/ UnsupportedRecord(line)
             \/ AddOutOfOrder(line) \/ AddUnsupported(line)
      PROVE  BuildMeans' /\ Meaning!Next
  BY <1>3, <1>4, FailedRead
<1>5. ASSUME NEW line \in Lines,
             Skip(line) \/ TableCreate(line) \/ TableAdd(line) \/ TableOther(line)
      PROVE  BuildMeans' /\ Meaning!Next
  BY <1>3, <1>5, OtherRead
<1>6. ASSUME NEW line \in Lines, Add(line) \/ Label(line) PROVE BuildMeans' /\ Meaning!Next
  BY <1>3, <1>6, RuleRead
<1> QED
  BY <1>1, <1>2, <1>4, <1>5, <1>6 DEF Next, ReadLine

-----------------------------------------------------------------------------
(* Every step of a check is one of the ruleset's.                          *)

\* Where a check is, and the rule it is at.
LEMMA CheckFacts ==
  ASSUME MeansInv, status = "built"
  PROVE  /\ Laid(script, records, numbers) /\ Len(records) = Len(rules)
         /\ Phase = "loaded" /\ pc \in Nat \ {0} /\ Len(rules) \in Nat
         /\ AtLine = LineOf(script, records, pc)
         /\ pc <= Len(rules) =>
              /\ pc \in 1..Len(records) /\ AtLine = records[pc]
              /\ AtLine \in Meaning!Rules(script)
              /\ script[AtLine] = Action(pc) /\ Action(pc) \in Line
              /\ IsRule(Action(pc)) /\ SupportedAction(Action(pc))
              /\ DoesAsTold(rules[pc], Action(pc))
         /\ pc > Len(rules) => AtLine \notin Meaning!Rules(script)
<1>1. /\ Laid(script, records, numbers) /\ Len(records) = Len(rules) /\ pc \in Nat \ {0}
      /\ Len(rules) \in Nat
  BY LenProperties DEF MeansInv, BuildMeans, RulesAreTheScripts, VMInv, IInv, TypeOK
<1>2. Phase = "loaded" /\ AtLine = LineOf(script, records, pc)
  BY <1>1 DEF Phase, AtLine, LineOf
<1>3. ASSUME pc <= Len(rules)
      PROVE  /\ pc \in 1..Len(records) /\ AtLine = records[pc]
             /\ AtLine \in Meaning!Rules(script)
             /\ script[AtLine] = Action(pc) /\ Action(pc) \in Line
             /\ IsRule(Action(pc)) /\ SupportedAction(Action(pc))
             /\ DoesAsTold(rules[pc], Action(pc))
  <2>1. pc \in 1..Len(rules) /\ AtLine = records[pc]
    BY <1>1, <1>2, <1>3 DEF LineOf
  <2>2. records[pc] \in Meaning!Rules(script)
    BY <1>1, <2>1 DEF Laid
  <2>3. /\ IsRule(Action(pc)) /\ SupportedAction(Action(pc))
        /\ DoesAsTold(rules[pc], Action(pc))
    BY <2>1 DEF MeansInv, FollowInv, Recorded, BuildMeans, RulesDoAsTold
  <2>4. Action(pc) \in Line
    BY <2>1, RulesOfLines DEF MeansInv, VMInv
  <2> QED
    BY <1>1, <2>1, <2>2, <2>3, <2>4 DEF Action
<1>4. ASSUME pc > Len(rules) PROVE AtLine \notin Meaning!Rules(script)
  <2>1. AtLine = Len(script) + 1
    BY <1>1, <1>2, <1>4 DEF LineOf
  <2>2. Meaning!Rules(script) \subseteq 1..Len(script) /\ Len(script) \in Nat
    BY <1>1, LaidTypes
  <2> QED
    BY <2>1, <2>2
<1> QED
  BY <1>1, <1>2, <1>3, <1>4

\* Where a skipto that was linked goes.
LEMMA StaticJump ==
  ASSUME MeansInv, status = "built", pc <= Len(rules), rules[pc].kind = "skipto",
         ~rules[pc].tableArg
  PROVE  /\ Meaning!IsStatic(script[AtLine])
         /\ Meaning!StaticTarget(script, AtLine) = LineOf(script, records, rules[pc].jump)
<1> DEFINE line == Action(pc)
           jump == rules[pc].jump
<1>1. /\ Laid(script, records, numbers) /\ Len(records) = Len(rules)
      /\ pc \in 1..Len(records) /\ AtLine = records[pc] /\ script[AtLine] = line
      /\ line \in Line /\ IsRule(line) /\ SupportedAction(line) /\ DoesAsTold(rules[pc], line)
  BY CheckFacts
<1>2. line.action = "skipto" /\ ~IsSkipTo(line, "tablearg")
  BY <1>1 DEF DoesAsTold
<1>3. IsSkipTo(line, "number") \/ IsSkipTo(line, "label")
  BY <1>1, <1>2 DEF IsSkipTo, SupportedAction, Line, SkipToKind
<1>4. Meaning!IsStatic(line)
  BY <1>3, SameWords DEF Meaning!IsStatic
<1>5. CASE IsSkipTo(line, "number")
  <2>1. LinkedNumber(numbers, pc, PastOwn(line.number, numbers[pc]), jump)
    BY <1>1, <1>5 DEF MeansInv, BuildMeans, NumberJumpsLinked
  <2>2. PICK want : want = PastOwn(line.number, numbers[pc])
    OBVIOUS
  <2>3. PICK j : Finds(numbers, want, j) /\ jump = IF j > Len(numbers) THEN pc + 1 ELSE j
    BY <2>1, <2>2 DEF LinkedNumber
  <2>4. want \in Nat /\ Len(numbers) = Len(records)
    <3>1. line.number \in Nat /\ numbers[pc] \in Nat /\ Len(numbers) = Len(rules)
      BY <1>1, RulesOfLines DEF MeansInv, VMInv
    <3> QED
      BY <1>1, <2>2, <3>1 DEF PastOwn
  <2>5. want = IF script[records[pc]].number > numbers[pc] THEN script[records[pc]].number
                                                          ELSE numbers[pc] + 1
    BY <1>1, <2>2 DEF PastOwn
  <2>6. Meaning!StaticTarget(script, records[pc])
          = LineOf(script, records, IF j > Len(records) THEN pc + 1 ELSE j)
    <3>1. IsSkipTo(script[records[pc]], "number")
      BY <1>1, <1>5
    <3> QED
      BY <1>1, <2>3, <2>4, <2>5, <3>1, NumberTarget
  <2> QED
    BY <1>1, <1>4, <2>3, <2>4, <2>6
<1>6. CASE IsSkipTo(line, "label")
  <2>1. LinkedLabel(script, records, pc, line.label, jump)
    BY <1>1, <1>6 DEF MeansInv, BuildMeans, LabelJumpsLinked
  <2>2. PICK after : after = LabelsAfter(script, records[pc], line.label)
    OBVIOUS
  <2>3. after = {p \in (records[pc] + 1)..Len(script) :
                   IsLabel(script[p]) /\ script[p].label = script[records[pc]].label}
    BY <1>1, <2>2 DEF LabelsAfter
  <2>4. \/ after = {} /\ jump = pc + 1
        \/ \E p \in after : (\A q \in after : p <= q) /\ Place(records, p, jump)
    BY <2>1, <2>2 DEF LinkedLabel
  <2>5. IsSkipTo(script[records[pc]], "label")
    BY <1>1, <1>6
  <2>6. Meaning!StaticTarget(script, records[pc]) = LineOf(script, records, jump)
    <3> HIDE DEF jump
    <3> QED
      BY <1>1, <2>3, <2>4, <2>5, LabelTarget
  <2> QED
    BY <1>1, <1>4, <2>6
<1> QED
  BY <1>3, <1>5, <1>6

\* Where a skipto tablearg goes.
LEMMA TableArgJump ==
  ASSUME MeansInv, status = "built", pc <= Len(rules), NEW arg \in TableArg
  PROVE  Meaning!TableArgTarget(script, AtLine, arg)
           = LineOf(script, records, Forward(TableTarget(arg)))
<1> DEFINE labelled == {j \in Meaning!Positions(script) :
                          Meaning!IsLabel(script[j]) /\ script[j].label = arg.label}
           later(j) == IF j > AtLine THEN j ELSE Meaning!RuleAfter(script, AtLine)
<1>1. /\ Laid(script, records, numbers) /\ Len(records) = Len(rules)
      /\ pc \in 1..Len(records) /\ AtLine = records[pc] /\ Len(records) \in Nat
  BY CheckFacts
<1>2. arg.kind \in {"number", "label", "unnamed", "noEntry"} /\ arg.label \in Labels
      /\ (arg.kind = "number" => arg.number \in Nat)
  BY ConstantsAssumption DEF TableArg
<1>3. Meaning!RuleAfter(script, AtLine) = LineOf(script, records, pc + 1)
  BY <1>1, NextRule
<1>4. \A j \in 1..(Len(records) + 1) :
        later(LineOf(script, records, j))
          = LineOf(script, records, IF j > pc THEN j ELSE pc + 1)
  BY <1>1, LaterLine
<1>5. Forward(NoTarget) = pc + 1 /\ Forward(UnnamedTarget) = pc + 1
  BY <1>1 DEF Forward, NoTarget, UnnamedTarget
<1>6. labelled = LabelsAfter(script, 0, arg.label)
  BY <1>1, SameWords DEF LabelsAfter, Meaning!Positions
<1>7. KeptLabel(script, records, arg.label, labels[arg.label])
  BY <1>2 DEF MeansInv, BuildMeans, LabelsAreTheLast
<1>8. CASE arg.kind = "number"
  <2>1. numbers \in Seq(1..MaxNumber) /\ MaxNumber \in Nat /\ Len(numbers) = Len(records)
    BY ConstantsAssumption DEF MeansInv, VMInv, IInv, TypeOK
  <2>2. Finds(numbers, arg.number, At(arg.number))
    BY <1>2, <1>8, <2>1, AtFinds DEF Finds
  <2>3. PICK j : j = At(arg.number)
    OBVIOUS
  <2>4. Meaning!FirstOf(script, Meaning!NumberedFrom(script, arg.number))
          = LineOf(script, records, j)
    BY <1>1, <1>2, <1>8, <2>2, <2>3, FirstNumbered
  <2>5. j \in 1..(Len(records) + 1)
    BY <2>1, <2>2, <2>3 DEF Finds
  <2>6. Meaning!TableArgTarget(script, AtLine, arg)
          = later(Meaning!FirstOf(script, Meaning!NumberedFrom(script, arg.number)))
    BY <1>8 DEF Meaning!TableArgTarget
  <2>7. Forward(TableTarget(arg)) = IF j > pc THEN j ELSE pc + 1
    BY <1>8, <2>3 DEF TableTarget, Forward
  <2> QED
    BY <1>4, <2>4, <2>5, <2>6, <2>7
<1>9. CASE arg.kind = "label" /\ labels[arg.label] # 0
  <2>1. PICK p \in LabelsAfter(script, 0, arg.label) :
          /\ \A q \in LabelsAfter(script, 0, arg.label) : q <= p
          /\ Place(records, p, labels[arg.label])
    BY <1>7, <1>9 DEF KeptLabel
  <2>2. labelled \in SUBSET Nat /\ p \in labelled /\ \A q \in labelled : q <= p
    BY <1>6, <2>1 DEF LabelsAfter
  <2>3. labelled # {}
    BY <2>2
  <2>4. p \in 1..Len(script) /\ ~IsRule(script[p])
    BY <2>1 DEF LabelsAfter, IsLabel, IsRule
  <2> HIDE DEF labelled
  <2>5. Meaning!LastOf(labelled) = p
    BY <2>2, LastIs
  <2>6. PICK j : j = labels[arg.label]
    OBVIOUS
  <2>7. Meaning!RuleAfter(script, p) = LineOf(script, records, j)
    BY <1>1, <2>1, <2>4, <2>6, RuleAfterPlace
  <2>8. j \in 1..(Len(records) + 1)
    BY <2>1, <2>6 DEF Place
  <2>9. Meaning!TableArgTarget(script, AtLine, arg)
          = later(Meaning!RuleAfter(script, Meaning!LastOf(labelled)))
    BY <1>9, <2>3 DEF Meaning!TableArgTarget, labelled
  <2>10. Forward(TableTarget(arg)) = IF j > pc THEN j ELSE pc + 1
    BY <1>9, <2>6 DEF TableTarget, Forward
  <2> QED
    BY <1>4, <2>5, <2>7, <2>8, <2>9, <2>10
<1>10. CASE arg.kind \notin {"number", "label"} \/ (arg.kind = "label" /\ labels[arg.label] = 0)
  <2>1. arg.kind = "label" => labelled = {}
    BY <1>6, <1>7, <1>10 DEF KeptLabel, Place
  <2>2. Meaning!TableArgTarget(script, AtLine, arg) = Meaning!RuleAfter(script, AtLine)
    BY <1>10, <2>1 DEF Meaning!TableArgTarget
  <2>3. TableTarget(arg) \in {NoTarget, UnnamedTarget}
    BY <1>10 DEF TableTarget
  <2> QED
    BY <1>3, <1>5, <2>2, <2>3
<1> QED
  BY <1>2, <1>8, <1>9, <1>10

LEMMA CheckStep ==
  ASSUME MeansInv, Check
  PROVE  Meaning!Next
<1>1. status = "built" /\ verdict = "none"
  BY DEF Check, Miss, Terminate, Jump, Pass, Default, Checking
<1>2. UNCHANGED vars /\ pc' \in Nat
  BY CheckMoves DEF MeansInv, VMInv
<1>3. UNCHANGED <<script, status, records, rules>>
  BY <1>2 DEF vars, program
<1>4. Phase = "loaded" /\ Phase' = "loaded" /\ UNCHANGED script
  BY <1>1, <1>3 DEF Phase
<1>5. Len(records) = Len(rules) /\ AtLine' = LineOf(script, records, pc')
  BY <1>1, <1>3, CheckFacts DEF AtLine, LineOf
<1>6. pc' = pc => AtLine' = AtLine
  BY <1>3 DEF AtLine
<1>7. Meaning!Terminal = Terminal /\ Meaning!TableArg = TableArg
  BY DEF Meaning!Terminal, Terminal, Meaning!TableArg, TableArg
<1>8. CASE Default
  BY <1>1, <1>4, <1>6, <1>8, CheckFacts DEF Default, Meaning!Default, Meaning!Next
<1>9. CASE Miss \/ Terminate \/ Jump \/ Pass
  <2>1. pc <= Len(rules)
    BY <1>9 DEF Miss, Terminate, Jump, Pass, Checking
  <2>2. /\ Laid(script, records, numbers)
        /\ pc \in 1..Len(records) /\ AtLine = records[pc]
        /\ AtLine \in Meaning!Rules(script)
        /\ script[AtLine] = Action(pc) /\ IsRule(Action(pc))
        /\ DoesAsTold(rules[pc], Action(pc))
    BY <1>1, <2>1, CheckFacts
  <2>3. /\ rules[pc].kind = Action(pc).action
        /\ rules[pc].tableArg <=> IsSkipTo(Action(pc), "tablearg")
        /\ MayMatch(rules[pc]) <=> Meaning!CanMatch(Action(pc))
    BY <2>2 DEF DoesAsTold
  <2>4. Meaning!RuleAfter(script, AtLine) = LineOf(script, records, pc + 1)
    BY <2>2, NextRule
  <2>5. CASE Miss
    <3>1. AtLine' = Meaning!RuleAfter(script, AtLine) /\ verdict' = verdict
      BY <1>5, <2>4, <2>5 DEF Miss
    <3> QED
      BY <1>1, <1>4, <2>2, <3>1 DEF Meaning!Miss, Meaning!Next
  <2>6. CASE Terminate
    BY <1>1, <1>4, <1>6, <1>7, <2>2, <2>3, <2>6
       DEF Terminate, Meaning!Decide, Meaning!Next
  <2>7. CASE Pass
    <3>1. /\ AtLine' = Meaning!RuleAfter(script, AtLine) /\ verdict' = verdict
          /\ MayMatch(rules[pc]) /\ rules[pc].kind \notin Terminal
          /\ rules[pc].kind # "skipto"
      BY <1>5, <2>4, <2>7 DEF Pass
    <3> QED
      BY <1>1, <1>4, <1>7, <2>2, <2>3, <3>1 DEF Meaning!Continue, Meaning!Next
  <2>8. CASE Jump
    <3>1. /\ MayMatch(rules[pc]) /\ rules[pc].kind = "skipto" /\ verdict' = verdict
          /\ IF rules[pc].tableArg
             THEN \E arg \in TableArg : pc' = Forward(TableTarget(arg))
             ELSE pc' = rules[pc].jump
      BY <2>8 DEF Jump, Destinations
    <3>2. script[AtLine].action \notin Meaning!Terminal
      BY <1>7, <2>2, <2>3, <3>1 DEF Terminal
    <3>3. \/ /\ Meaning!IsStatic(script[AtLine])
             /\ AtLine' = Meaning!StaticTarget(script, AtLine)
          \/ /\ Meaning!IsSkipTo(script[AtLine], "tablearg")
             /\ \E arg \in Meaning!TableArg :
                  AtLine' = Meaning!TableArgTarget(script, AtLine, arg)
      <4>1. CASE rules[pc].tableArg
        <5>1. PICK arg \in TableArg : pc' = Forward(TableTarget(arg))
          BY <3>1, <4>1
        <5>2. AtLine' = Meaning!TableArgTarget(script, AtLine, arg)
          BY <1>1, <1>5, <2>1, <5>1, TableArgJump
        <5> QED
          BY <1>7, <2>2, <2>3, <4>1, <5>2, SameWords
      <4>2. CASE ~rules[pc].tableArg
        <5>1. /\ Meaning!IsStatic(script[AtLine])
              /\ Meaning!StaticTarget(script, AtLine) = LineOf(script, records, rules[pc].jump)
          BY <1>1, <2>1, <3>1, <4>2, StaticJump
        <5> QED
          BY <1>5, <3>1, <4>2, <5>1
      <4> QED
        BY <4>1, <4>2
    <3> QED
      BY <1>1, <1>4, <2>2, <2>3, <3>1, <3>2, <3>3 DEF Meaning!Continue, Meaning!Next
  <2> QED
    BY <1>9, <2>5, <2>6, <2>7, <2>8
<1> QED
  BY <1>8, <1>9 DEF Check

-----------------------------------------------------------------------------
\* What holds of the build, nothing of it changing, goes on to hold.
LEMMA BuildRests ==
  ASSUME MeansInv, UNCHANGED vars
  PROVE  BuildMeans'
BY DEF MeansInv, BuildMeans, vars, program, linking, tables, RulesAreTheScripts,
       RunningFollows, TypesAreTheLast, LabelsAreTheLast, RulesDoAsTold, LabelJumpsLinked,
       NumberJumpsLinked, Action, IsSkipTo, IsRule

LEMMA NextMeans ==
  MeansInv /\ [VMNext]_vmVars => MeansInv' /\ [Meaning!Next]_(Meaning!vars)
<1> SUFFICES ASSUME MeansInv, [VMNext]_vmVars
             PROVE  MeansInv' /\ [Meaning!Next]_(Meaning!vars)
  OBVIOUS
<1>1. VMInv'
  BY VMInvInductive DEF MeansInv
<1>2. CASE Next /\ UNCHANGED checkVars
  <2>1. FollowInv'
    BY <1>2, NextFollow DEF MeansInv
  <2>2. BuildMeans' /\ Meaning!Next
    BY <1>2, BuildStep
  <2>3. ChecksWait'
    <3>1. status # "built"
      BY <1>2 DEF Next, ReadLine, EndOfInput, ParseFails, Skip, UnsupportedRecord,
         AddOutOfOrder, AddUnsupported, Add, Label, TableCreate, TableAdd, TableOther,
         HookEnds, ReadOther, Read
    <3> QED
      BY <1>2, <3>1 DEF MeansInv, ChecksWait, checkVars
  <2> QED
    BY <1>1, <2>1, <2>2, <2>3 DEF MeansInv
<1>3. CASE Check
  <2>1. UNCHANGED vars
    BY <1>3, CheckMoves DEF MeansInv
  <2>2. FollowInv' /\ BuildMeans'
    BY <2>1, NextFollow, BuildRests DEF MeansInv
  <2>3. status = "built" /\ status' = status
    BY <1>3, <2>1 DEF Check, Miss, Terminate, Jump, Pass, Default, Checking, vars
  <2>4. ChecksWait'
    BY <2>3 DEF ChecksWait
  <2>5. Meaning!Next
    BY <1>3, CheckStep
  <2> QED
    BY <1>1, <2>2, <2>4, <2>5 DEF MeansInv
<1>4. CASE UNCHANGED vmVars
  <2>1. UNCHANGED vars /\ UNCHANGED checkVars
    BY <1>4 DEF vmVars
  <2>2. FollowInv' /\ BuildMeans'
    BY <2>1, NextFollow, BuildRests DEF MeansInv
  <2>3. UNCHANGED <<script, status, rules, records, pc, verdict>>
    BY <2>1 DEF vars, program, checkVars
  <2>4. ChecksWait'
    BY <2>3 DEF MeansInv, ChecksWait
  <2>5. UNCHANGED Meaning!vars
    BY <2>3 DEF Meaning!vars, Phase, AtLine
  <2> QED
    BY <1>1, <2>2, <2>4, <2>5 DEF MeansInv
<1> QED
  BY <1>2, <1>3, <1>4 DEF VMNext

\* A build and a check do what the script means, whatever the script: the build
\* accepts the rulesets whose lines hold and whose jumps go somewhere, gives each
\* rule its number, and the check takes a packet from rule to rule as the lines
\* say, to the verdict they say.
THEOREM CheckImplementsRuleset == VMSpec => ImplementsRuleset
<1>1. VMInit => MeansInv /\ Meaning!Init
  BY InitMeans
<1> QED
  BY <1>1, NextMeans, PTL DEF VMSpec, ImplementsRuleset, Meaning!Spec

=============================================================================
