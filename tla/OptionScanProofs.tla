-------------------------- MODULE OptionScanProofs --------------------------
(***************************************************************************)
(* Proofs about the options of a rule (module OptionScan), for lists of    *)
(* any length and numbers of any width that tells neighbours apart.        *)
(***************************************************************************)
EXTENDS OptionScan, TLAPS, SequenceTheorems, WellFoundedInduction

\* The numbers of options tell what the text of the rule puts together: the
\* same ones within a block and a pattern, other ones from one to the next.
Placed(s) ==
  /\ \A i, j \in 1..Len(s) : InBlock(s, i, j) => s[i].block = s[j].block
  /\ \A i, j \in 1..Len(s) : InPattern(s, i, j) =>
       s[i].pattern = s[j].pattern /\ s[i].neg = s[j].neg
  /\ \A i \in 2..Len(s) :
       /\ s[i].begins = "block" => s[i].block # s[i - 1].block
       /\ s[i].begins = "pattern" => s[i].pattern # s[i - 1].pattern

\* Blocks of one option each count up, past any wrap.
Numbered(s) ==
  \A i, j \in 1..Len(s) :
    i < j /\ (\A k \in (i + 1)..j : s[k].begins = "block") =>
      \E q \in Nat : s[i].block + (j - i) = Width * q + s[j].block

\* What the walk knows of the options before a pattern that begins at n: every
\* block passed holds, and no pattern of the block it is in does.
Passed(n) ==
  \A i \in 1..(n - 1) :
    /\ ~(n <= Len(options) /\ InPattern(options, i, n))
    /\ IF n <= Len(options) /\ InBlock(options, i, n) THEN ~PatternHolds(options, i)
       ELSE \E j \in 1..Len(options) : InBlock(options, i, j) /\ PatternHolds(options, j)

\* t is the target of the last lookup before the option at n.
LastBefore(n, t) ==
  LET before == {i \in Lookups(options) : i < n} IN
  IF before = {} THEN t = NoTarget
  ELSE \E i \in before : t = options[i].answer.found /\ \A j \in before : j <= i

\* A pattern folded up to the option at idx.
Folded ==
  /\ first \in 1..(idx - 1)
  /\ Passed(first)
  /\ \A k \in (first + 1)..(idx - 1) : options[k].begins = "member"
  /\ matched <=> \E j \in first..(idx - 1) : options[j].answer.hit

\* The walk, of options whose numbers tell what is together.
WInv ==
  /\ TypeOK
  /\ Placed(options)
  /\ phase = "pattern" => Passed(idx) /\ LastBefore(idx, target)
  /\ phase = "members" => Folded /\ LastBefore(idx, target)
  /\ phase = "yes" => RuleHolds(options) /\ IsLastTarget(options, target)
  /\ phase = "no" => ~RuleHolds(options)

-----------------------------------------------------------------------------
(* Blocks and patterns.                                                    *)

\* The types the other lemmas start from.
LEMMA TypedSeq ==
  ASSUME NEW s \in Seq(Option)
  PROVE  /\ Len(s) \in Nat
         /\ \A i \in 1..Len(s) :
              /\ s[i].answer.hit \in BOOLEAN /\ s[i].answer.comment \in BOOLEAN
              /\ s[i].neg \in BOOLEAN
              /\ s[i].answer.found \in Targets \cup {NoTarget}
              /\ s[i].answer.found # NoTarget => s[i].answer.hit /\ ~s[i].answer.comment
              /\ s[i].answer.comment => s[i].answer.hit
              /\ s[i].block \in 0..(Width - 1) /\ s[i].pattern \in 0..(Width - 1)
              /\ s[i].begins \in Beginning
<1>1. \A i \in 1..Len(s) : s[i] \in Option
  BY ElementOfSeq
<1>2. Len(s) \in Nat
  BY LenProperties
<1>3. ASSUME NEW i \in 1..Len(s)
      PROVE  /\ s[i].answer \in Answer /\ s[i].neg \in BOOLEAN /\ s[i].begins \in Beginning
             /\ s[i].block \in 0..(Width - 1) /\ s[i].pattern \in 0..(Width - 1)
  BY <1>1 DEF Option
<1>4. \A a \in Answer : /\ a.hit \in BOOLEAN /\ a.comment \in BOOLEAN
                        /\ a.found \in Targets \cup {NoTarget}
                        /\ a.found # NoTarget => a.hit /\ ~a.comment
                        /\ a.comment => a.hit
  BY DEF Answer
<1> QED
  BY <1>2, <1>3, <1>4

LEMMA Typed ==
  ASSUME TypeOK
  PROVE  /\ Len(options) \in Nat
         /\ \A i \in 1..Len(options) :
              /\ options[i].answer.hit \in BOOLEAN /\ options[i].neg \in BOOLEAN
              /\ options[i].answer.found \in Targets \cup {NoTarget}
              /\ options[i].answer.found # NoTarget => options[i].answer.hit
              /\ options[i].block \in 0..(Width - 1) /\ options[i].pattern \in 0..(Width - 1)
              /\ options[i].begins \in Beginning
<1>1. options \in Seq(Option)
  BY DEF TypeOK
<1> QED
  BY <1>1, TypedSeq

\* To be together within boundaries is an equivalence.
LEMMA TogetherIsEquivalence ==
  ASSUME NEW s, Len(s) \in Nat, NEW boundary, NEW i \in 1..Len(s), NEW j \in 1..Len(s)
  PROVE  /\ Together(s, i, i, boundary)
         /\ Together(s, i, j, boundary) <=> Together(s, j, i, boundary)
         /\ \A k \in 1..Len(s) :
              Together(s, i, j, boundary) /\ Together(s, j, k, boundary)
                => Together(s, i, k, boundary)
<1>1. Together(s, i, i, boundary)
  BY DEF Together
<1>2. Together(s, i, j, boundary) <=> Together(s, j, i, boundary)
  BY DEF Together
<1>3. ASSUME NEW k \in 1..Len(s), Together(s, i, j, boundary), Together(s, j, k, boundary)
      PROVE  Together(s, i, k, boundary)
  <2> SUFFICES ASSUME NEW m \in 1..Len(s), (i < m /\ m <= k) \/ (k < m /\ m <= i)
               PROVE  s[m].begins \notin boundary
    BY DEF Together
  <2>1. \/ (i < m /\ m <= j) \/ (j < m /\ m <= i)
        \/ (j < m /\ m <= k) \/ (k < m /\ m <= j)
    OBVIOUS
  <2> QED
    BY <1>3, <2>1 DEF Together
<1> QED
  BY <1>1, <1>2, <1>3

\* To be in one block, and in one pattern, is an equivalence, and the second
\* is the finer one.
LEMMA EquivalenceIn ==
  ASSUME NEW s, Len(s) \in Nat, NEW i \in 1..Len(s), NEW j \in 1..Len(s)
  PROVE  /\ InBlock(s, i, i) /\ InPattern(s, i, i)
         /\ InBlock(s, i, j) <=> InBlock(s, j, i)
         /\ InPattern(s, i, j) <=> InPattern(s, j, i)
         /\ InPattern(s, i, j) => InBlock(s, i, j)
         /\ \A k \in 1..Len(s) :
              /\ InBlock(s, i, j) /\ InBlock(s, j, k) => InBlock(s, i, k)
              /\ InPattern(s, i, j) /\ InPattern(s, j, k) => InPattern(s, i, k)
<1>1. InPattern(s, i, j) => InBlock(s, i, j)
  BY DEF InBlock, InPattern, Together
<1> QED
  BY <1>1, TogetherIsEquivalence DEF InBlock, InPattern

LEMMA Equivalence ==
  ASSUME TypeOK, NEW i \in 1..Len(options), NEW j \in 1..Len(options)
  PROVE  /\ InBlock(options, i, i) /\ InPattern(options, i, i)
         /\ InBlock(options, i, j) <=> InBlock(options, j, i)
         /\ InPattern(options, i, j) <=> InPattern(options, j, i)
         /\ InPattern(options, i, j) => InBlock(options, i, j)
         /\ \A k \in 1..Len(options) :
              /\ InBlock(options, i, j) /\ InBlock(options, j, k) => InBlock(options, i, k)
              /\ InPattern(options, i, j) /\ InPattern(options, j, k) => InPattern(options, i, k)
BY Typed, EquivalenceIn

\* A pattern holds whichever of its members it is named by.
LEMMA OnePattern ==
  ASSUME TypeOK, Placed(options), NEW i \in 1..Len(options), NEW j \in 1..Len(options),
         InPattern(options, i, j)
  PROVE  PatternHolds(options, i) <=> PatternHolds(options, j)
<1>1. options[i].neg = options[j].neg
  BY DEF Placed
<1>2. \A k \in 1..Len(options) : InPattern(options, i, k) <=> InPattern(options, j, k)
  BY Equivalence
<1> QED
  BY <1>1, <1>2 DEF PatternHolds

-----------------------------------------------------------------------------
(* One pattern of the walk.                                                *)

\* The members of the pattern being folded are together, and what the numbers
\* say of the option looked at next is what the text says.
LEMMA FoldedPattern ==
  ASSUME WInv, Folded
  PROVE  /\ Len(options) \in Nat /\ idx \in 2..(Len(options) + 1) /\ first \in 1..(idx - 1)
         /\ \A k \in first..(idx - 1) : InPattern(options, first, k) /\ InBlock(options, first, k)
         /\ More <=> (idx <= Len(options) /\ options[idx].begins # "block")
         /\ GoesOn <=> (idx <= Len(options) /\ options[idx].begins = "member")
<1>1. /\ Len(options) \in Nat /\ idx \in 2..(Len(options) + 1) /\ first \in 1..(idx - 1)
      /\ \A i \in 1..Len(options) : options[i].begins \in Beginning
  BY Typed DEF WInv, TypeOK, Folded
<1>2. ASSUME NEW k \in first..(idx - 1)
      PROVE  InPattern(options, first, k) /\ InBlock(options, first, k)
  <2>1. \A m \in 1..Len(options) : (first < m /\ m <= k) => options[m].begins = "member"
    BY <1>1 DEF Folded
  <2>2. ~\E m \in 1..Len(options) : k < m /\ m <= first
    BY <1>1
  <2> QED
    BY <2>1, <2>2 DEF InPattern, InBlock, Together
<1>3. ASSUME idx <= Len(options)
      PROVE  /\ SameBlock(first, idx) <=> (options[idx].begins # "block")
             /\ SameBlock(first, idx) /\ options[idx].pattern = options[first].pattern
                  <=> options[idx].begins = "member"
  <2> DEFINE last == idx - 1
  <2>1. last \in 1..Len(options) /\ idx \in 2..Len(options) /\ first \in 1..Len(options)
    BY <1>1, <1>3
  <2>2. InPattern(options, first, last) /\ InBlock(options, first, last)
    BY <1>1, <1>2
  <2>3. options[last].block = options[first].block /\ options[last].pattern = options[first].pattern
    BY <2>1, <2>2 DEF WInv, Placed
  <2>4. /\ options[idx].begins = "block" => options[idx].block # options[last].block
        /\ options[idx].begins = "pattern" => options[idx].pattern # options[last].pattern
    BY <2>1 DEF WInv, Placed
  <2>5. /\ options[idx].begins # "block" => InBlock(options, first, idx)
        /\ options[idx].begins = "member" => InPattern(options, first, idx)
    BY <1>1, <2>1, <2>2 DEF InBlock, InPattern, Together
  <2>6. /\ options[idx].begins # "block" => options[idx].block = options[first].block
        /\ options[idx].begins = "member" => options[idx].pattern = options[first].pattern
    BY <2>1, <2>5 DEF WInv, Placed
  <2>7. options[idx].begins \in {"block", "pattern", "member"}
    BY <1>1, <2>1 DEF Beginning
  <2> QED
    BY <2>3, <2>4, <2>6, <2>7 DEF SameBlock
<1> QED
  BY <1>1, <1>2, <1>3 DEF More, GoesOn

\* Once the pattern is over, its members are those folded, and it holds when
\* the walk says so.
LEMMA FoldedHolds ==
  ASSUME WInv, Folded, ~GoesOn
  PROVE  /\ \A k \in 1..Len(options) : InPattern(options, first, k) <=> k \in first..(idx - 1)
         /\ \A k \in first..(idx - 1) : PatternHolds(options, k) <=> (matched # options[first].neg)
<1>1. /\ Len(options) \in Nat /\ idx \in 2..(Len(options) + 1) /\ first \in 1..(idx - 1)
      /\ first \in 1..Len(options) /\ TypeOK /\ Placed(options)
      /\ \A k \in first..(idx - 1) : k \in 1..Len(options) /\ InPattern(options, first, k)
      /\ idx <= Len(options) => options[idx].begins # "member"
  BY FoldedPattern DEF WInv
<1>2. ASSUME NEW k \in 1..Len(options), InPattern(options, first, k) PROVE k \in first..(idx - 1)
  <2>1. k >= first
    <3>1. k < first => k \in 1..(first - 1) /\ first <= Len(options)
      BY <1>1
    <3>2. InPattern(options, k, first)
      BY <1>1, <1>2, Equivalence
    <3> QED
      BY <1>1, <3>1, <3>2 DEF Folded, Passed
  <2>2. ~(k >= idx)
    <3>1. SUFFICES ASSUME k >= idx PROVE FALSE
      OBVIOUS
    <3>2. idx \in 1..Len(options) /\ first < idx /\ idx <= k
      BY <1>1, <3>1
    <3>3. options[idx].begins \notin {"block", "pattern"}
      BY <1>2, <3>2 DEF InPattern, Together
    <3> QED
      BY <1>1, <3>2, <3>3, Typed DEF Beginning
  <2> QED
    BY <1>1, <2>1, <2>2
<1>3. PatternHolds(options, first) <=> (matched # options[first].neg)
  <2>1. (\E j \in 1..Len(options) : InPattern(options, first, j) /\ options[j].answer.hit)
          <=> (\E j \in first..(idx - 1) : options[j].answer.hit)
    BY <1>1, <1>2
  <2>2. matched \in BOOLEAN
    BY <1>1 DEF TypeOK
  <2>3. matched <=> \E j \in first..(idx - 1) : options[j].answer.hit
    BY <2>2 DEF Folded
  <2>4. options[first].neg \in BOOLEAN
    BY <1>1, Typed
  <2> QED
    BY <2>1, <2>2, <2>3, <2>4 DEF PatternHolds
<1>4. \A k \in first..(idx - 1) : PatternHolds(options, k) <=> PatternHolds(options, first)
  BY <1>1, OnePattern
<1> QED
  BY <1>1, <1>2, <1>3, <1>4

-----------------------------------------------------------------------------
(* What the walk asks.                                                     *)

\* The first option of a pattern is asked.
LEMMA BeginAsks ==
  ASSUME WInv, phase = "pattern", idx <= Len(options)
  PROVE  Asked(options, idx)
<1>1. TypeOK /\ Passed(idx) /\ idx \in 1..Len(options)
  BY Typed DEF WInv, TypeOK
<1>2. ASSUME NEW j \in 1..(idx - 1)
      PROVE  ~InPattern(options, idx, j) /\ (InBlock(options, idx, j) => ~PatternHolds(options, j))
  <2>1. /\ j \in 1..Len(options)
        /\ ~InPattern(options, j, idx)
        /\ InBlock(options, j, idx) => ~PatternHolds(options, j)
    BY <1>1 DEF Passed
  <2> QED
    BY <1>1, <2>1, Equivalence
<1> QED
  BY <1>2 DEF Asked

\* A further member is asked when none before it matched.
LEMMA MemberAsks ==
  ASSUME WInv, phase = "members", GoesOn
  PROVE  Asked(options, idx) <=> ~matched
<1>1. /\ TypeOK /\ Folded /\ Len(options) \in Nat /\ idx \in 2..Len(options)
      /\ first \in 1..(idx - 1) /\ options[idx].begins = "member" /\ matched \in BOOLEAN
      /\ \A k \in first..(idx - 1) : InPattern(options, first, k)
  BY FoldedPattern DEF WInv, TypeOK
<1>2. InPattern(options, first, idx)
  BY <1>1 DEF Folded, InPattern, Together
<1>3. \A j \in first..(idx - 1) : InPattern(options, idx, j)
  BY <1>1, <1>2, Equivalence
<1>4. ASSUME NEW j \in 1..(first - 1)
      PROVE  ~InPattern(options, idx, j) /\ (InBlock(options, idx, j) => ~PatternHolds(options, j))
  <2>1. j \in 1..Len(options) /\ first \in 1..Len(options) /\ idx \in 1..Len(options)
    BY <1>1
  <2>2. ~InPattern(options, j, first) /\ (InBlock(options, j, first) => ~PatternHolds(options, j))
    BY <1>1, <2>1 DEF Folded, Passed
  <2>3. InBlock(options, first, idx) /\ (InPattern(options, idx, j) => InPattern(options, j, first))
    BY <1>1, <1>2, <2>1, Equivalence
  <2>4. InBlock(options, idx, j) => InBlock(options, j, first)
    BY <1>1, <2>1, <2>3, Equivalence
  <2> QED
    BY <2>2, <2>3, <2>4
<1>5. Asked(options, idx) <=> \A j \in first..(idx - 1) : ~options[j].answer.hit
  BY <1>1, <1>3, <1>4 DEF Asked
<1>6. matched <=> \E j \in first..(idx - 1) : options[j].answer.hit
  BY <1>1 DEF Folded
<1> QED
  BY <1>5, <1>6

\* The target moves on past an option that is asked, and past one that is not.
LEMMA TargetMovesOn ==
  ASSUME WInv, idx \in 1..Len(options), LastBefore(idx, target)
  PROVE  /\ Asked(options, idx) => LastBefore(idx + 1, Latest(idx))
         /\ ~Asked(options, idx) => LastBefore(idx + 1, target)
<1> DEFINE before(n) == {i \in Lookups(options) : i < n}
<1>1. Lookups(options) \subseteq 1..Len(options) /\ idx \in Nat /\ Len(options) \in Nat
  BY Typed DEF Lookups, WInv
<1>2. before(idx + 1) = before(idx) \cup (IF idx \in Lookups(options) THEN {idx} ELSE {})
  <2> HIDE DEF Lookups
  <2>1. \A i \in Lookups(options) : i < idx + 1 <=> i < idx \/ i = idx
    BY <1>1
  <2> QED
    BY <2>1
<1>3. idx \in Lookups(options) <=> Asked(options, idx) /\ options[idx].answer.found # NoTarget
  BY DEF Lookups
<1>4. CASE idx \in Lookups(options)
  <2>1. Asked(options, idx) /\ Latest(idx) = options[idx].answer.found
    BY <1>3, <1>4 DEF Latest
  <2>2. idx \in before(idx + 1) /\ \A j \in before(idx + 1) : j <= idx
    BY <1>1, <1>2, <1>4
  <2> QED
    BY <2>1, <2>2 DEF LastBefore
<1>5. CASE idx \notin Lookups(options)
  <2>1. before(idx + 1) = before(idx)
    BY <1>2, <1>5
  <2>2. LastBefore(idx + 1, target)
    BY <2>1 DEF LastBefore
  <2>3. Asked(options, idx) => Latest(idx) = target
    BY <1>3, <1>5 DEF Latest
  <2> QED
    BY <2>2, <2>3
<1> QED
  BY <1>4, <1>5

-----------------------------------------------------------------------------
(* Where the walk goes on.                                                 *)

\* There is a place past the last option of the block.
LEMMA NextBlockIs ==
  ASSUME TypeOK
  PROVE  /\ NextBlock \in idx..(Len(options) + 1)
         /\ NextBlock <= Len(options) => ~SameBlock(first, NextBlock)
         /\ \A j \in idx..(NextBlock - 1) : SameBlock(first, j)
<1>1. Len(options) \in Nat /\ idx \in 1..(Len(options) + 1)
  BY Typed DEF TypeOK
<1> DEFINE Ends(i) == /\ i <= Len(options) => ~SameBlock(first, i)
                      /\ \A j \in idx..(i - 1) : SameBlock(first, j)
           S == {i \in Nat : i \in idx..(Len(options) + 1)
                               /\ (i <= Len(options) => ~SameBlock(first, i))}
<1>2. S \subseteq Nat /\ Len(options) + 1 \in S
  BY <1>1
<1>3. PICK m \in S : \A k \in S : ~(k < m)
  <2>1. PICK m \in S : \A k \in S : <<k, m>> \notin OpToRel(<, Nat)
    BY <1>2, NatLessThanWellFounded, WFMin
  <2> QED
    BY <1>2, <2>1 DEF OpToRel
<1>4. m \in idx..(Len(options) + 1) /\ Ends(m)
  BY <1>1, <1>3
<1>5. NextBlock = CHOOSE i \in idx..(Len(options) + 1) : Ends(i)
  BY DEF NextBlock
<1> HIDE DEF Ends
<1>6. NextBlock \in idx..(Len(options) + 1) /\ Ends(NextBlock)
  BY <1>4, <1>5
<1> QED
  BY <1>6 DEF Ends

\* The block a pattern that holds is in is skipped to its end, and no further.
LEMMA NextBlockBegins ==
  ASSUME WInv, Folded
  PROVE  /\ NextBlock \in idx..(Len(options) + 1)
         /\ \A j \in first..(NextBlock - 1) : InBlock(options, first, j)
         /\ NextBlock <= Len(options) => options[NextBlock].begins = "block"
<1>1. /\ Len(options) \in Nat /\ idx \in 2..(Len(options) + 1) /\ first \in 1..(idx - 1)
      /\ \A k \in first..(idx - 1) : InBlock(options, first, k)
      /\ TypeOK /\ Placed(options)
  BY FoldedPattern DEF WInv
<1>2. PICK n \in idx..(Len(options) + 1) :
        /\ n = NextBlock
        /\ n <= Len(options) => ~SameBlock(first, n)
        /\ \A j \in idx..(n - 1) : SameBlock(first, j)
  BY <1>1, NextBlockIs
<1>3. ASSUME NEW j \in idx..(n - 1) PROVE options[j].begins # "block"
  <2>1. j \in 2..Len(options) /\ j - 1 \in 1..Len(options) /\ first \in 1..Len(options)
    BY <1>1
  <2>2. options[j].block = options[first].block
    BY <1>2 DEF SameBlock
  <2>3. options[j - 1].block = options[first].block
    <3>1. CASE j = idx
      <4>1. InBlock(options, first, j - 1)
        BY <1>1, <3>1
      <4> QED
        BY <1>1, <2>1, <4>1 DEF Placed
    <3>2. CASE j # idx
      BY <1>1, <1>2, <3>2 DEF SameBlock
    <3> QED
      BY <3>1, <3>2
  <2> QED
    BY <1>1, <2>1, <2>2, <2>3 DEF Placed
<1>4. \A j \in (first + 1)..(n - 1) : options[j].begins # "block"
  BY <1>1, <1>3 DEF Folded
<1>5. \A j \in first..(n - 1) : InBlock(options, first, j)
  BY <1>1, <1>4 DEF InBlock, Together
<1>6. ASSUME n <= Len(options) PROVE options[n].begins = "block"
  <2>1. first \in 1..Len(options) /\ n \in 1..Len(options) /\ first < n
    BY <1>1, <1>6
  <2>2. ~InBlock(options, first, n)
    BY <1>1, <1>2, <1>6, <2>1 DEF Placed, SameBlock
  <2> QED
    BY <1>1, <1>4, <2>1, <2>2 DEF InBlock, Together
<1> QED
  BY <1>2, <1>5, <1>6

\* A pattern that holds decides its block.
LEMMA HoldsPasses ==
  ASSUME WInv, phase = "members", ~GoesOn, matched # options[first].neg
  PROVE  Passed(NextBlock) /\ LastBefore(NextBlock, target)
<1>1. /\ Len(options) \in Nat /\ idx \in 2..(Len(options) + 1) /\ first \in 1..(idx - 1)
      /\ first \in 1..Len(options) /\ TypeOK /\ Placed(options) /\ Folded
      /\ LastBefore(idx, target)
  BY FoldedPattern DEF WInv
<1>2. PICK n : n = NextBlock
  OBVIOUS
<1>3. /\ n \in idx..(Len(options) + 1)
      /\ \A j \in first..(n - 1) : InBlock(options, first, j)
      /\ n <= Len(options) => options[n].begins = "block"
  BY <1>1, <1>2, NextBlockBegins
<1>4. PatternHolds(options, first)
  BY <1>1, FoldedHolds
<1>5. ASSUME NEW i \in 1..(n - 1) PROVE ~(n <= Len(options) /\ InBlock(options, i, n))
  BY <1>1, <1>3 DEF InBlock, Together
<1>6. ASSUME NEW i \in 1..(n - 1)
      PROVE  \E j \in 1..Len(options) : InBlock(options, i, j) /\ PatternHolds(options, j)
  <2>1. i \in 1..Len(options)
    BY <1>1, <1>3
  <2>2. CASE InBlock(options, i, first)
    BY <1>1, <1>4, <2>2
  <2>3. CASE ~InBlock(options, i, first)
    <3>1. i \in 1..(first - 1)
      BY <1>1, <1>3, <2>1, <2>3, Equivalence
    <3> QED
      BY <1>1, <2>3, <3>1 DEF Folded, Passed
  <2> QED
    BY <2>2, <2>3
<1>7. Passed(n)
  <2>1. ASSUME NEW i \in 1..(n - 1) PROVE ~(n <= Len(options) /\ InPattern(options, i, n))
    BY <1>1, <1>3, <1>5, Equivalence
  <2> QED
    BY <1>5, <1>6, <2>1 DEF Passed
<1>8. ASSUME NEW i \in idx..(n - 1) PROVE ~Asked(options, i)
  <2>1. i \in 1..Len(options) /\ first \in 1..(i - 1) /\ InBlock(options, first, i)
    BY <1>1, <1>3
  <2>2. ~InPattern(options, first, i)
    BY <1>1, <2>1, FoldedHolds
  <2>3. InBlock(options, i, first) /\ ~InPattern(options, i, first)
    BY <1>1, <2>1, <2>2, Equivalence
  <2> QED
    BY <1>4, <2>1, <2>3 DEF Asked
<1>9. LastBefore(n, target)
  <2>1. {i \in Lookups(options) : i < n} = {i \in Lookups(options) : i < idx}
    BY <1>1, <1>3, <1>8 DEF Lookups
  <2> QED
    BY <1>1, <2>1 DEF LastBefore
<1> QED
  BY <1>2, <1>7, <1>9

\* A pattern that does not hold leaves its block to the next one.
LEMMA TryNextPasses ==
  ASSUME WInv, phase = "members", ~GoesOn, matched = options[first].neg, More
  PROVE  Passed(idx)
<1>1. /\ Len(options) \in Nat /\ idx \in 2..Len(options) /\ first \in 1..(idx - 1)
      /\ first \in 1..Len(options) /\ idx \in 1..Len(options) /\ TypeOK /\ Placed(options) /\ Folded
      /\ options[idx].begins # "block" /\ options[idx].begins # "member"
      /\ \A k \in first..(idx - 1) : InPattern(options, first, k) /\ InBlock(options, first, k)
  BY FoldedPattern DEF WInv
<1>2. options[idx].begins = "pattern"
  BY <1>1, Typed DEF Beginning
<1>3. InBlock(options, first, idx)
  BY <1>1 DEF Folded, InBlock, Together
<1>4. ASSUME NEW i \in 1..(idx - 1) PROVE ~InPattern(options, i, idx)
  BY <1>1, <1>2 DEF InPattern, Together
<1>5. ASSUME NEW i \in 1..(idx - 1)
      PROVE  IF InBlock(options, i, idx) THEN ~PatternHolds(options, i)
             ELSE \E j \in 1..Len(options) : InBlock(options, i, j) /\ PatternHolds(options, j)
  <2>1. i \in 1..Len(options) /\ (InBlock(options, i, idx) <=> InBlock(options, i, first))
    BY <1>1, <1>3, Equivalence
  <2>2. CASE i \in 1..(first - 1)
    BY <1>1, <2>1, <2>2 DEF Folded, Passed
  <2>3. CASE i \in first..(idx - 1)
    <3>1. ~PatternHolds(options, i)
      BY <1>1, <2>3, FoldedHolds
    <3>2. InBlock(options, i, first)
      BY <1>1, <2>1, <2>3, Equivalence
    <3> QED
      BY <2>1, <3>1, <3>2
  <2> QED
    BY <1>1, <2>2, <2>3
<1> QED
  BY <1>1, <1>4, <1>5 DEF Passed

\* Without another pattern its block does not hold, nor does the rule.
LEMMA FailsIsMeant ==
  ASSUME WInv, phase = "members", ~GoesOn, matched = options[first].neg, ~More
  PROVE  ~RuleHolds(options)
<1>1. /\ Len(options) \in Nat /\ idx \in 2..(Len(options) + 1) /\ first \in 1..(idx - 1)
      /\ first \in 1..Len(options) /\ TypeOK /\ Placed(options) /\ Folded
      /\ idx <= Len(options) => options[idx].begins = "block"
  BY FoldedPattern DEF WInv
<1>2. ASSUME NEW j \in 1..Len(options), InBlock(options, first, j) PROVE ~PatternHolds(options, j)
  <2>1. j < idx
    BY <1>1, <1>2 DEF InBlock, Together
  <2>2. CASE j \in 1..(first - 1)
    <3>1. InBlock(options, j, first)
      BY <1>1, <1>2, Equivalence
    <3> QED
      BY <1>1, <2>2, <3>1 DEF Folded, Passed
  <2>3. CASE j \in first..(idx - 1)
    BY <1>1, <2>3, FoldedHolds
  <2> QED
    BY <1>1, <2>1, <2>2, <2>3
<1> QED
  BY <1>1, <1>2 DEF RuleHolds


-----------------------------------------------------------------------------
(* Numbers.                                                                *)

\* A number and the one after it: they differ, the width being two at least.
Follows(b, c) == (c = b + 1) \/ (c = 0 /\ b + 1 = Width)

LEMMA NumbersFollow ==
  ASSUME NEW n \in 0..(Width - 1)
  PROVE  /\ (n + 1) % Width \in 0..(Width - 1)
         /\ Follows(n, (n + 1) % Width)
         /\ (n + 1) % Width # n
<1>1. Width \in Nat /\ Width >= 2
  BY WidthAssumption
<1>2. CASE n + 1 < Width
  <2>1. (n + 1) % Width = n + 1
    BY <1>1, <1>2
  <2> QED
    BY <1>1, <1>2, <2>1 DEF Follows
<1>3. CASE n + 1 = Width
  <2>1. (n + 1) % Width = 0
    BY <1>1, <1>3
  <2> QED
    BY <1>1, <1>3, <2>1 DEF Follows
<1> QED
  BY <1>1, <1>2, <1>3

\* What is a multiple of the width leaves nothing.
LEMMA Multiple ==
  ASSUME NEW w \in Nat \ {0}, NEW q \in Nat
  PROVE  (w * q) % w = 0
<1>1. w * q \in Nat
  OBVIOUS
<1>2. PICK r : r = (w * q) % w
  OBVIOUS
<1> QED
  OBVIOUS

LEMMA OneMore ==
  ASSUME NEW w \in Nat, NEW q \in Nat
  PROVE  w * (q + 1) = w * q + w /\ w * q \in Nat /\ w * 0 = 0
OBVIOUS

\* Counting on from a number takes the next one, past the wrap if it is there.
LEMMA CountsOn ==
  ASSUME NEW b \in Nat, NEW c \in Nat, NEW d \in Nat, Follows(c, d),
         NEW e \in Nat, NEW q \in Nat, b + e = Width * q + c
  PROVE  \E r \in Nat : b + (e + 1) = Width * r + d
<1>1. /\ Width \in Nat /\ Width * q \in Nat /\ q + 1 \in Nat
      /\ Width * (q + 1) = Width * q + Width
  BY OneMore, WidthAssumption
<1>2. PICK m \in Nat : m = Width * q
  BY <1>1
<1>3. b + e = m + c /\ Width * (q + 1) = m + Width
  BY <1>1, <1>2
<1>4. CASE d = c + 1
  <2>1. b + (e + 1) = m + d
    BY <1>3, <1>4
  <2> QED
    BY <1>2, <2>1
<1>5. CASE d = 0 /\ c + 1 = Width
  <2>1. b + (e + 1) = (m + Width) + d
    BY <1>1, <1>3, <1>5
  <2> QED
    BY <1>1, <1>3, <2>1
<1> QED
  BY <1>4, <1>5 DEF Follows

-----------------------------------------------------------------------------
(* The options as the parser numbers them.                                 *)

\* An option handed over in a place that fits what it begins keeps the places.
LEMMA AppendKeeps ==
  ASSUME NEW s \in Seq(Option), NEW new \in Option, Placed(s), Numbered(s),
         Len(s) > 0 =>
           LET last == s[Len(s)] IN
           /\ new.begins = "block" => Follows(last.block, new.block)
           /\ new.begins # "block" => last.block = new.block
           /\ new.begins = "pattern" => last.pattern # new.pattern
           /\ new.begins = "member" => last.pattern = new.pattern /\ last.neg = new.neg
  PROVE  /\ Append(s, new) \in Seq(Option)
         /\ Len(Append(s, new)) = Len(s) + 1
         /\ Append(s, new)[Len(s) + 1] = new
         /\ Placed(Append(s, new)) /\ Numbered(Append(s, new))
<1>1. PICK n \in Nat : n = Len(s)
  BY TypedSeq
<1>2. PICK t : t = Append(s, new)
  OBVIOUS
<1>3. /\ t \in Seq(Option) /\ Len(t) = n + 1 /\ t[n + 1] = new
      /\ \A i \in 1..n : t[i] = s[i]
  BY <1>1, <1>2, AppendProperties
<1>4. /\ \A i \in 1..n : s[i].block \in 0..(Width - 1) /\ s[i].begins \in Beginning
      /\ new.block \in 0..(Width - 1) /\ new.begins \in Beginning
  BY <1>1, TypedSeq DEF Option
<1>5. \A i, j \in 1..n : /\ InBlock(t, i, j) <=> InBlock(s, i, j)
                         /\ InPattern(t, i, j) <=> InPattern(s, i, j)
  BY <1>1, <1>3, SMTT(20) DEF InBlock, InPattern, Together
<1>6. \A i \in 1..n :
        /\ InBlock(t, i, n + 1) => InBlock(s, i, n) /\ new.begins # "block"
        /\ InPattern(t, i, n + 1) => InPattern(s, i, n) /\ new.begins \notin {"block", "pattern"}
        /\ InBlock(t, n + 1, i) => InBlock(s, i, n) /\ new.begins # "block"
        /\ InPattern(t, n + 1, i) => InPattern(s, i, n) /\ new.begins \notin {"block", "pattern"}
  BY <1>1, <1>3, SMTT(20) DEF InBlock, InPattern, Together
<1>7. n > 0 => LET last == s[n] IN
               /\ new.begins = "block" => Follows(last.block, new.block)
               /\ new.begins # "block" => last.block = new.block
               /\ new.begins = "pattern" => last.pattern # new.pattern
               /\ new.begins = "member" => last.pattern = new.pattern /\ last.neg = new.neg
  BY <1>1
<1>8. ASSUME NEW i \in 1..(n + 1), NEW j \in 1..(n + 1), InBlock(t, i, j)
      PROVE  t[i].block = t[j].block
  <2>1. CASE i \in 1..n /\ j \in 1..n
    BY <1>1, <1>3, <1>5, <1>8, <2>1 DEF Placed
  <2>2. CASE i \in 1..n /\ j = n + 1
    BY <1>1, <1>3, <1>6, <1>7, <1>8, <2>2 DEF Placed
  <2>3. CASE i = n + 1 /\ j \in 1..n
    BY <1>1, <1>3, <1>6, <1>7, <1>8, <2>3 DEF Placed
  <2> QED
    BY <2>1, <2>2, <2>3
<1>9. ASSUME NEW i \in 1..(n + 1), NEW j \in 1..(n + 1), InPattern(t, i, j)
      PROVE  t[i].pattern = t[j].pattern /\ t[i].neg = t[j].neg
  <2>1. CASE i \in 1..n /\ j \in 1..n
    BY <1>1, <1>3, <1>5, <1>9, <2>1 DEF Placed
  <2>2. CASE i \in 1..n /\ j = n + 1
    BY <1>1, <1>3, <1>4, <1>6, <1>7, <1>9, <2>2 DEF Placed, Beginning
  <2>3. CASE i = n + 1 /\ j \in 1..n
    BY <1>1, <1>3, <1>4, <1>6, <1>7, <1>9, <2>3 DEF Placed, Beginning
  <2> QED
    BY <2>1, <2>2, <2>3
<1>10. ASSUME NEW i \in 2..(n + 1)
       PROVE  /\ t[i].begins = "block" => t[i].block # t[i - 1].block
              /\ t[i].begins = "pattern" => t[i].pattern # t[i - 1].pattern
  <2>1. CASE i \in 2..n
    <3>1. i - 1 \in 1..n /\ i \in 1..n
      BY <2>1
    <3> QED
      BY <1>1, <1>3, <2>1, <3>1 DEF Placed
  <2>2. CASE i = n + 1
    <3>1. i - 1 = n /\ n \in 1..n
      BY <1>10, <2>2
    <3>2. Follows(s[n].block, new.block) => s[n].block # new.block
      BY <1>4, <3>1, WidthAssumption DEF Follows
    <3> QED
      BY <1>3, <1>7, <2>2, <3>1, <3>2
  <2> QED
    BY <2>1, <2>2
<1>11. Placed(t)
  BY <1>3, <1>8, <1>9, <1>10 DEF Placed
<1>12. ASSUME NEW i \in 1..(n + 1), NEW j \in 1..(n + 1), i < j,
              \A k \in (i + 1)..j : t[k].begins = "block"
       PROVE  \E q \in Nat : t[i].block + (j - i) = Width * q + t[j].block
  <2>1. CASE j \in 1..n
    <3>1. i \in 1..n /\ \A k \in (i + 1)..j : s[k].begins = "block"
      BY <1>3, <1>12, <2>1
    <3> QED
      BY <1>1, <1>3, <1>12, <2>1, <3>1 DEF Numbered
  <2>2. CASE j = n + 1
    <3>1. i \in 1..n /\ n \in 1..n /\ new.begins = "block" /\ Follows(s[n].block, new.block)
      BY <1>3, <1>7, <1>12, <2>2
    <3>2. PICK q \in Nat : s[i].block + (n - i) = Width * q + s[n].block
      <4>1. CASE i = n
        <5>1. Width * 0 = 0
          BY OneMore, WidthAssumption
        <5>2. s[n].block \in Nat /\ n - i = 0
          BY <1>4, <3>1, <4>1
        <5>3. s[i].block + (n - i) = 0 + s[n].block
          BY <4>1, <5>2
        <5> QED
          BY <5>1, <5>3
      <4>2. CASE i < n
        <5>1. \A k \in (i + 1)..n : s[k].begins = "block"
          BY <1>3, <1>12, <2>2
        <5> QED
          BY <1>1, <3>1, <4>2, <5>1 DEF Numbered
      <4> QED
        BY <3>1, <4>1, <4>2
    <3>3. /\ s[i].block \in Nat /\ s[n].block \in Nat /\ new.block \in Nat
          /\ Follows(s[n].block, new.block)
      BY <1>4, <3>1
    <3>4. PICK b, c, d, e \in Nat :
            b = s[i].block /\ c = s[n].block /\ d = new.block /\ e = n - i
      <4>1. n - i \in Nat
        BY <3>1
      <4> QED
        BY <3>3, <4>1
    <3>5. b + e = Width * q + c
      BY <3>2, <3>4
    <3>6. Follows(c, d)
      BY <3>3, <3>4
    <3>7. PICK r \in Nat : b + (e + 1) = Width * r + d
      BY <3>5, <3>6, CountsOn
    <3>8. n + 1 - i = e + 1
      BY <3>1, <3>4
    <3>9. \E u \in Nat : s[i].block + (n + 1 - i) = Width * u + new.block
      BY <3>4, <3>7, <3>8
    <3> QED
      BY <1>3, <2>2, <3>1, <3>9
  <2> QED
    BY <2>1, <2>2
<1>13. Numbered(t)
  <2> SUFFICES ASSUME NEW i \in 1..Len(t), NEW j \in 1..Len(t), i < j,
                      \A k \in (i + 1)..j : t[k].begins = "block"
               PROVE  \E q \in Nat : t[i].block + (j - i) = Width * q + t[j].block
    BY DEF Numbered
  <2>1. i \in 1..(n + 1) /\ j \in 1..(n + 1)
    BY <1>3
  <2> QED
    BY <1>12, <2>1
<1> QED
  BY <1>1, <1>2, <1>3, <1>11, <1>13

-----------------------------------------------------------------------------
(* What is left of the options when the comments are dropped.              *)

\* A number of a set that no other one of it exceeds.
LEMMA Largest ==
  ASSUME NEW a \in Nat, NEW b \in Nat, NEW S \in SUBSET (a..b), S # {}
  PROVE  \E m \in S : \A k \in S : k <= m
<1> DEFINE D == {b - k : k \in S}
<1>1. D \subseteq Nat /\ D # {}
  OBVIOUS
<1>2. PICK d \in D : \A e \in D : <<e, d>> \notin OpToRel(<, Nat)
  BY <1>1, NatLessThanWellFounded, WFMin
<1>3. \A e \in D : ~(e < d)
  BY <1>1, <1>2 DEF OpToRel
<1>4. PICK m \in S : d = b - m
  OBVIOUS
<1>5. \A k \in S : k <= m
  <2> SUFFICES ASSUME NEW k \in S PROVE k <= m
    OBVIOUS
  <2>1. b - k \in D
    OBVIOUS
  <2> HIDE DEF D
  <2> QED
    BY <1>3, <1>4, <2>1
<1> QED
  BY <1>5

\* The options of s up to m are those of the text up to n that decide something,
\* in their order, the one at p being that of the text at f[p].
Keeps(s, f, m, n) ==
  /\ f \in [1..m -> 1..n]
  /\ \A p, q \in 1..m : p < q => f[p] < f[q]
  /\ \A p \in 1..m : s[p] = text[f[p]] /\ ~DecidesNothing(f[p])
  /\ \A i \in 1..n : ~DecidesNothing(i) => \E p \in 1..m : f[p] = i

\* The options left in place of the text.
Left(s, f) == s \in Seq(Option) /\ text \in Seq(Option) /\ Keeps(s, f, Len(s), Len(text))

\* A comment that decides nothing stands between the beginnings of two blocks.
LEMMA NothingBegins ==
  ASSUME Len(text) \in Nat, NEW i \in 1..Len(text), DecidesNothing(i)
  PROVE  /\ i > 1 => text[i].begins = "block"
         /\ i < Len(text) => text[i + 1].begins = "block"
<1>1. ASSUME i > 1 PROVE text[i].begins = "block"
  <2>1. i - 1 \in 1..Len(text) /\ ~InBlock(text, i, i - 1)
    BY <1>1 DEF DecidesNothing
  <2> QED
    BY <2>1 DEF InBlock, Together
<1>2. ASSUME i < Len(text) PROVE text[i + 1].begins = "block"
  <2>1. i + 1 \in 1..Len(text) /\ ~InBlock(text, i, i + 1)
    BY <1>2 DEF DecidesNothing
  <2> QED
    BY <2>1 DEF InBlock, Together
<1> QED
  BY <1>1, <1>2

\* What is together in the text is so in what is left, and the other way round.
LEMMA LeftTogether ==
  ASSUME NEW s, NEW f, Left(s, f), NEW boundary, "block" \in boundary,
         NEW p \in 1..Len(s), NEW q \in 1..Len(s), p < q
  PROVE  Together(s, p, q, boundary) <=> Together(text, f[p], f[q], boundary)
<1>1. /\ Len(s) \in Nat /\ Len(text) \in Nat /\ f[p] < f[q]
      /\ \A r \in 1..Len(s) : /\ f[r] \in 1..Len(text) /\ s[r] = text[f[r]]
                              /\ ~DecidesNothing(f[r])
      /\ \A r, u \in 1..Len(s) : r < u => f[r] < f[u]
      /\ \A i \in 1..Len(text) : ~DecidesNothing(i) => \E r \in 1..Len(s) : f[r] = i
  BY LenProperties DEF Left, Keeps
<1>2. ASSUME Together(text, f[p], f[q], boundary) PROVE Together(s, p, q, boundary)
  <2> SUFFICES ASSUME NEW k \in 1..Len(s), p < k, k <= q PROVE s[k].begins \notin boundary
    BY DEF Together
  <2>1. f[k] \in 1..Len(text) /\ f[p] < f[k] /\ f[k] <= f[q] /\ s[k] = text[f[k]]
    <3>1. k = q \/ k < q
      OBVIOUS
    <3> QED
      BY <1>1, <3>1
  <2>2. text[f[k]].begins \notin boundary
    BY <1>1, <1>2, <2>1 DEF Together
  <2> QED
    BY <2>1, <2>2
<1>3. ASSUME Together(s, p, q, boundary), ~Together(text, f[p], f[q], boundary) PROVE FALSE
  <2> DEFINE S == {k \in (f[p] + 1)..f[q] : text[k].begins \in boundary}
  <2>1. S # {}
    BY <1>1, <1>3 DEF Together
  <2>2. PICK k \in S : \A m \in S : m <= k
    <3>1. S \in SUBSET ((f[p] + 1)..f[q]) /\ f[p] + 1 \in Nat /\ f[q] \in Nat
      BY <1>1
    <3> HIDE DEF S
    <3> QED
      BY <2>1, <3>1, Largest
  <2>3. k \in 1..Len(text) /\ f[p] < k /\ k <= f[q] /\ text[k].begins \in boundary
    BY <1>1, <2>2
  <2>4. CASE DecidesNothing(k)
    <3>1. k < f[q]
      BY <1>1, <2>3, <2>4
    <3>2. text[k + 1].begins = "block"
      BY <1>1, <2>3, <2>4, <3>1, NothingBegins
    <3>3. k + 1 \in (f[p] + 1)..f[q]
      <4>1. f[p] \in Nat /\ f[q] \in Nat /\ k \in Nat
        BY <1>1, <2>3
      <4> QED
        BY <2>3, <3>1, <4>1
    <3>4. k + 1 \in S
      BY <3>2, <3>3
    <3> QED
      BY <1>1, <2>2, <2>3, <3>4
  <2>5. CASE ~DecidesNothing(k)
    <3>1. PICK r \in 1..Len(s) : f[r] = k
      BY <1>1, <2>3, <2>5
    <3>2. p < r
      <4>1. r < p => f[r] < f[p]
        BY <1>1
      <4> QED
        BY <1>1, <2>3, <3>1, <4>1
    <3>3. r <= q
      <4>1. q < r => f[q] < f[r]
        BY <1>1
      <4> QED
        BY <1>1, <2>3, <3>1, <4>1
    <3>4. s[r].begins \notin boundary
      BY <1>3, <3>2, <3>3 DEF Together
    <3> QED
      BY <1>1, <2>3, <3>1, <3>4
  <2> QED
    BY <2>4, <2>5
<1> QED
  BY <1>2, <1>3

LEMMA LeftAlike ==
  ASSUME NEW s, NEW f, Left(s, f), NEW p \in 1..Len(s), NEW q \in 1..Len(s)
  PROVE  /\ InBlock(s, p, q) <=> InBlock(text, f[p], f[q])
         /\ InPattern(s, p, q) <=> InPattern(text, f[p], f[q])
<1>1. /\ Len(s) \in Nat /\ Len(text) \in Nat
      /\ f[p] \in 1..Len(text) /\ f[q] \in 1..Len(text)
  BY LenProperties DEF Left, Keeps
<1>2. CASE p = q
  BY <1>1, <1>2, EquivalenceIn
<1>3. CASE p < q
  BY <1>3, LeftTogether DEF InBlock, InPattern
<1>4. CASE q < p
  <2>1. /\ InBlock(s, q, p) <=> InBlock(text, f[q], f[p])
        /\ InPattern(s, q, p) <=> InPattern(text, f[q], f[p])
    BY <1>4, LeftTogether DEF InBlock, InPattern
  <2> QED
    BY <1>1, <2>1, EquivalenceIn
<1> QED
  BY <1>1, <1>2, <1>3, <1>4

\* What is said of the text stays as long as it does.
LEMMA TextRests ==
  ASSUME UNCHANGED text
  PROVE  /\ \A i : DecidesNothing(i)' <=> DecidesNothing(i)
         /\ CycleOfComments' <=> CycleOfComments
         /\ \A s, f : Left(s, f)' <=> Left(s, f)
<1>1. \A i : DecidesNothing(i)' <=> DecidesNothing(i)
  BY DEF DecidesNothing
<1>2. CycleOfComments' <=> CycleOfComments
  BY <1>1 DEF CycleOfComments
<1>3. \A s, f : Left(s, f)' <=> Left(s, f)
  BY <1>1 DEF Left, Keeps
<1> QED
  BY <1>1, <1>2, <1>3

\* An option that shares its block with another is left.
LEMMA SharersLeft ==
  ASSUME NEW s, NEW f, Left(s, f), NEW p \in 1..Len(s), NEW i \in 1..Len(text),
         InBlock(text, f[p], i)
  PROVE  \E q \in 1..Len(s) : f[q] = i
<1>1. /\ Len(text) \in Nat /\ f[p] \in 1..Len(text) /\ ~DecidesNothing(f[p])
      /\ ~DecidesNothing(i) => \E q \in 1..Len(s) : f[q] = i
  BY LenProperties DEF Left, Keeps
<1>2. InBlock(text, i, f[p])
  BY <1>1, EquivalenceIn
<1>3. DecidesNothing(i) => f[p] = i
  BY <1>1, <1>2 DEF DecidesNothing
<1> QED
  BY <1>1, <1>3

\* A pattern of what is left holds when it does in the text.
LEMMA LeftHolds ==
  ASSUME NEW s, NEW f, Left(s, f), NEW p \in 1..Len(s)
  PROVE  PatternHolds(s, p) <=> PatternHolds(text, f[p])
<1>1. /\ Len(text) \in Nat
      /\ \A r \in 1..Len(s) : f[r] \in 1..Len(text) /\ s[r] = text[f[r]]
  BY LenProperties DEF Left, Keeps
<1>2. ASSUME NEW q \in 1..Len(s), InPattern(s, p, q), s[q].answer.hit
      PROVE  \E j \in 1..Len(text) : InPattern(text, f[p], j) /\ text[j].answer.hit
  <2>1. InPattern(text, f[p], f[q]) /\ text[f[q]].answer.hit
    BY <1>1, <1>2, LeftAlike
  <2> QED
    BY <1>1, <2>1
<1>3. ASSUME NEW j \in 1..Len(text), InPattern(text, f[p], j), text[j].answer.hit
      PROVE  \E q \in 1..Len(s) : InPattern(s, p, q) /\ s[q].answer.hit
  <2>1. InBlock(text, f[p], j)
    BY <1>1, <1>3, EquivalenceIn
  <2>2. PICK q \in 1..Len(s) : f[q] = j
    BY <2>1, SharersLeft
  <2>3. InPattern(s, p, q) /\ s[q].answer.hit
    BY <1>1, <1>3, <2>2, LeftAlike
  <2> QED
    BY <2>3
<1>4. s[p].neg = text[f[p]].neg
  BY <1>1
<1>5. (\E q \in 1..Len(s) : InPattern(s, p, q) /\ s[q].answer.hit)
        <=> (\E j \in 1..Len(text) : InPattern(text, f[p], j) /\ text[j].answer.hit)
  BY <1>2, <1>3
<1> QED
  BY <1>4, <1>5 DEF PatternHolds

\* A comment that decides nothing holds.
LEMMA NothingHolds ==
  ASSUME text \in Seq(Option), NEW i \in 1..Len(text), DecidesNothing(i)
  PROVE  PatternHolds(text, i)
<1>1. Len(text) \in Nat /\ text[i].answer.hit /\ text[i].neg = FALSE
  BY TypedSeq DEF DecidesNothing
<1>2. InPattern(text, i, i)
  BY <1>1, EquivalenceIn
<1> QED
  BY <1>1, <1>2 DEF PatternHolds

\* What is left of the options means what the text does.
LEMMA LeftMeans ==
  ASSUME NEW s, NEW f, Left(s, f)
  PROVE  RuleHolds(s) <=> RuleHolds(text)
<1>1. /\ Len(text) \in Nat
      /\ \A r \in 1..Len(s) : f[r] \in 1..Len(text)
      /\ \A i \in 1..Len(text) : ~DecidesNothing(i) => \E p \in 1..Len(s) : f[p] = i
      /\ text \in Seq(Option)
  BY LenProperties DEF Left, Keeps
<1>2. ASSUME RuleHolds(text), NEW p \in 1..Len(s)
      PROVE  \E q \in 1..Len(s) : InBlock(s, p, q) /\ PatternHolds(s, q)
  <2>1. PICK j \in 1..Len(text) : InBlock(text, f[p], j) /\ PatternHolds(text, j)
    BY <1>1, <1>2 DEF RuleHolds
  <2>2. PICK q \in 1..Len(s) : f[q] = j
    BY <2>1, SharersLeft
  <2> QED
    BY <2>1, <2>2, LeftAlike, LeftHolds
<1>3. ASSUME RuleHolds(s), NEW i \in 1..Len(text)
      PROVE  \E j \in 1..Len(text) : InBlock(text, i, j) /\ PatternHolds(text, j)
  <2>1. CASE DecidesNothing(i)
    BY <1>1, <2>1, NothingHolds, EquivalenceIn
  <2>2. CASE ~DecidesNothing(i)
    <3>1. PICK p \in 1..Len(s) : f[p] = i
      BY <1>1, <2>2
    <3>2. PICK q \in 1..Len(s) : InBlock(s, p, q) /\ PatternHolds(s, q)
      BY <1>3 DEF RuleHolds
    <3>3. InBlock(text, i, f[q]) /\ PatternHolds(text, f[q])
      BY <3>1, <3>2, LeftAlike, LeftHolds
    <3> QED
      BY <1>1, <3>3
  <2> QED
    BY <2>1, <2>2
<1> QED
  BY <1>2, <1>3 DEF RuleHolds

\* The options left are asked when the text asks them.
LEMMA LeftAsked ==
  ASSUME NEW s, NEW f, Left(s, f), NEW p \in 1..Len(s)
  PROVE  Asked(s, p) <=> Asked(text, f[p])
<1>1. /\ Len(s) \in Nat /\ Len(text) \in Nat
      /\ \A r \in 1..Len(s) : f[r] \in 1..Len(text) /\ s[r] = text[f[r]]
      /\ \A r, u \in 1..Len(s) : r < u => f[r] < f[u]
  BY LenProperties DEF Left, Keeps
<1>2. ASSUME Asked(text, f[p]), NEW q \in 1..(p - 1)
      PROVE  /\ InPattern(s, p, q) => ~s[q].answer.hit
             /\ InBlock(s, p, q) /\ ~InPattern(s, p, q) => ~PatternHolds(s, q)
  <2>1. q \in 1..Len(s) /\ f[q] \in 1..(f[p] - 1)
    BY <1>1
  <2>2. /\ InPattern(s, p, q) <=> InPattern(text, f[p], f[q])
        /\ InBlock(s, p, q) <=> InBlock(text, f[p], f[q])
        /\ PatternHolds(s, q) <=> PatternHolds(text, f[q])
        /\ s[q] = text[f[q]]
    BY <1>1, <2>1, LeftAlike, LeftHolds
  <2> QED
    BY <1>2, <2>1, <2>2 DEF Asked
<1>3. ASSUME Asked(s, p), NEW j \in 1..(f[p] - 1), InBlock(text, f[p], j)
      PROVE  /\ InPattern(text, f[p], j) => ~text[j].answer.hit
             /\ ~InPattern(text, f[p], j) => ~PatternHolds(text, j)
  <2>1. f[p] \in 1..Len(text) /\ j \in 1..Len(text) /\ j < f[p]
    BY <1>1
  <2>2. PICK q \in 1..Len(s) : f[q] = j
    BY <1>3, <2>1, SharersLeft
  <2>3. q \in 1..(p - 1)
    <3>1. p < q => f[p] < f[q]
      BY <1>1
    <3> QED
      BY <1>1, <2>1, <2>2, <3>1
  <2>4. /\ InPattern(s, p, q) <=> InPattern(text, f[p], j)
        /\ InBlock(s, p, q)
        /\ PatternHolds(s, q) <=> PatternHolds(text, j)
        /\ s[q] = text[j]
    BY <1>1, <1>3, <2>2, LeftAlike, LeftHolds
  <2> QED
    BY <1>3, <2>3, <2>4 DEF Asked
<1>4. ASSUME NEW j \in 1..(f[p] - 1) PROVE InPattern(text, f[p], j) => InBlock(text, f[p], j)
  <2>1. f[p] \in 1..Len(text) /\ j \in 1..Len(text)
    BY <1>1
  <2> QED
    BY <1>1, <2>1, EquivalenceIn
<1> QED
  BY <1>2, <1>3, <1>4 DEF Asked

\* The last lookup is the same one.
LEMMA LeftTarget ==
  ASSUME NEW s, NEW f, Left(s, f), NEW t
  PROVE  IsLastTarget(s, t) <=> IsLastTarget(text, t)
<1>1. /\ Len(s) \in Nat /\ Len(text) \in Nat /\ s \in Seq(Option) /\ text \in Seq(Option)
      /\ \A r \in 1..Len(s) : f[r] \in 1..Len(text) /\ s[r] = text[f[r]]
      /\ \A r, u \in 1..Len(s) : r < u => f[r] < f[u]
      /\ \A i \in 1..Len(text) : ~DecidesNothing(i) => \E p \in 1..Len(s) : f[p] = i
  BY LenProperties DEF Left, Keeps
<1>2. ASSUME NEW p \in 1..Len(s) PROVE p \in Lookups(s) <=> f[p] \in Lookups(text)
  BY <1>1, LeftAsked DEF Lookups
<1>3. ASSUME NEW i \in Lookups(text) PROVE \E p \in Lookups(s) : f[p] = i
  <2>1. i \in 1..Len(text) /\ text[i].answer.found # NoTarget
    BY DEF Lookups
  <2>2. ~DecidesNothing(i)
    BY <1>1, <2>1, TypedSeq DEF DecidesNothing
  <2>3. PICK p \in 1..Len(s) : f[p] = i
    BY <1>1, <2>1, <2>2
  <2> QED
    BY <1>2, <2>3
<1>4. Lookups(s) \subseteq 1..Len(s) /\ Lookups(text) \subseteq 1..Len(text)
  BY DEF Lookups
<1>5. ASSUME NEW p \in Lookups(s), NEW q \in Lookups(s) PROVE q <= p <=> f[q] <= f[p]
  <2>1. p \in 1..Len(s) /\ q \in 1..Len(s)
    BY <1>4
  <2>2. f[p] \in Nat /\ f[q] \in Nat /\ p \in Nat /\ q \in Nat
    BY <1>1, <2>1
  <2>3. (p < q => f[p] < f[q]) /\ (q < p => f[q] < f[p])
    BY <1>1, <2>1
  <2> QED
    BY <2>2, <2>3
<1>6. CASE Lookups(s) = {}
  BY <1>3, <1>6 DEF IsLastTarget
<1>7. CASE Lookups(s) # {}
  <2>1. Lookups(text) # {}
    BY <1>2, <1>4, <1>7
  <2>2. ASSUME NEW p \in Lookups(s), t = s[p].answer.found, \A q \in Lookups(s) : q <= p
        PROVE  \E i \in Lookups(text) :
                 t = text[i].answer.found /\ \A j \in Lookups(text) : j <= i
    <3>1. f[p] \in Lookups(text) /\ s[p] = text[f[p]]
      BY <1>1, <1>2, <1>4
    <3>2. ASSUME NEW j \in Lookups(text) PROVE j <= f[p]
      BY <1>3, <1>5, <2>2
    <3> QED
      BY <2>2, <3>1, <3>2
  <2>3. ASSUME NEW i \in Lookups(text), t = text[i].answer.found,
               \A j \in Lookups(text) : j <= i
        PROVE  \E p \in Lookups(s) : t = s[p].answer.found /\ \A q \in Lookups(s) : q <= p
    <3>1. PICK p \in Lookups(s) : f[p] = i
      BY <1>3
    <3>2. s[p] = text[i]
      BY <1>1, <1>4, <3>1
    <3>3. ASSUME NEW q \in Lookups(s) PROVE q <= p
      <4>1. f[q] \in Lookups(text)
        BY <1>2, <1>4
      <4> QED
        BY <1>5, <2>3, <3>1, <4>1
    <3> QED
      BY <2>3, <3>2, <3>3
  <2> QED
    BY <1>7, <2>1, <2>2, <2>3 DEF IsLastTarget
<1> QED
  BY <1>6, <1>7

\* The numbers of what is left still tell what is together, but for a whole
\* cycle of comments.
LEMMA LeftPlaced ==
  ASSUME NEW s, NEW f, Left(s, f), Placed(text), Numbered(text), ~CycleOfComments
  PROVE  Placed(s)
<1>1. /\ Len(s) \in Nat /\ Len(text) \in Nat /\ s \in Seq(Option) /\ text \in Seq(Option)
      /\ \A r \in 1..Len(s) : /\ f[r] \in 1..Len(text) /\ s[r] = text[f[r]]
                              /\ ~DecidesNothing(f[r])
      /\ \A r, u \in 1..Len(s) : r < u => f[r] < f[u]
      /\ \A i \in 1..Len(text) : ~DecidesNothing(i) => \E p \in 1..Len(s) : f[p] = i
  BY LenProperties DEF Left, Keeps
<1>2. ASSUME NEW p \in 1..Len(s), NEW q \in 1..Len(s)
      PROVE  /\ InBlock(s, p, q) => s[p].block = s[q].block
             /\ InPattern(s, p, q) => s[p].pattern = s[q].pattern /\ s[p].neg = s[q].neg
  <2>1. /\ InBlock(s, p, q) <=> InBlock(text, f[p], f[q])
        /\ InPattern(s, p, q) <=> InPattern(text, f[p], f[q])
    BY LeftAlike
  <2>2. PICK i, j \in 1..Len(text) :
          i = f[p] /\ j = f[q] /\ s[p] = text[i] /\ s[q] = text[j]
    <3>1. f[p] \in 1..Len(text) /\ s[p] = text[f[p]]
      BY <1>1
    <3>2. f[q] \in 1..Len(text) /\ s[q] = text[f[q]]
      BY <1>1
    <3> QED
      BY <3>1, <3>2
  <2>3. /\ InBlock(text, i, j) => text[i].block = text[j].block
        /\ InPattern(text, i, j) =>
             text[i].pattern = text[j].pattern /\ text[i].neg = text[j].neg
    BY DEF Placed
  <2> QED
    BY <2>1, <2>2, <2>3
<1>3. ASSUME NEW p \in 2..Len(s)
      PROVE  /\ s[p].begins = "block" => s[p].block # s[p - 1].block
             /\ s[p].begins = "pattern" => s[p].pattern # s[p - 1].pattern
  <2>1. PICK i, j \in 1..Len(text) : i = f[p - 1] /\ j = f[p]
    <3>1. p - 1 \in 1..Len(s) /\ p \in 1..Len(s)
      BY <1>1
    <3> QED
      BY <1>1, <3>1
  <2>2. /\ i < j /\ s[p - 1] = text[i] /\ s[p] = text[j]
        /\ ~DecidesNothing(i) /\ ~DecidesNothing(j)
    <3>1. p - 1 \in 1..Len(s) /\ p \in 1..Len(s) /\ p - 1 < p
      BY <1>1
    <3> QED
      BY <1>1, <2>1, <3>1
  <2>3. ASSUME NEW k \in (i + 1)..(j - 1) PROVE DecidesNothing(k)
    <3> SUFFICES ASSUME ~DecidesNothing(k) PROVE FALSE
      OBVIOUS
    <3>1. k \in 1..Len(text) /\ i < k /\ k < j
      <4>1. Len(text) \in Nat
        BY <1>1
      <4> QED
        BY <4>1
    <3>2. PICK r \in 1..Len(s) : f[r] = k
      BY <1>1, <3>1
    <3>3. p - 1 \in 1..Len(s) /\ p \in 1..Len(s) /\ (r <= p - 1 \/ p <= r)
      BY <1>1
    <3>4. CASE r <= p - 1
      <4>1. r = p - 1 \/ r < p - 1
        BY <3>3, <3>4
      <4>2. f[r] = f[p - 1] \/ f[r] < f[p - 1]
        BY <1>1, <3>3, <4>1
      <4> QED
        BY <2>1, <3>1, <3>2, <4>2
    <3>5. CASE p <= r
      <4>1. r = p \/ p < r
        BY <3>3, <3>5
      <4>2. f[p] = f[r] \/ f[p] < f[r]
        BY <1>1, <3>3, <4>1
      <4> QED
        BY <2>1, <3>1, <3>2, <4>2
    <3> QED
      BY <3>3, <3>4, <3>5
  <2>4. ASSUME s[p].begins = "block" PROVE s[p].block # s[p - 1].block
    <3>1. \A k \in (i + 1)..j : text[k].begins = "block"
      <4> SUFFICES ASSUME NEW k \in (i + 1)..j PROVE text[k].begins = "block"
        OBVIOUS
      <4>1. CASE k = j
        BY <2>2, <2>4, <4>1
      <4>2. CASE k # j
        <5>1. k \in 1..Len(text) /\ k > 1 /\ k \in (i + 1)..(j - 1)
          <6>1. i \in Int /\ j \in Int /\ Len(text) \in Int /\ 1 <= i /\ j <= Len(text)
            BY <1>1
          <6> QED
            BY <4>2, <6>1
        <5> QED
          BY <1>1, <2>3, <5>1, NothingBegins
      <4> QED
        BY <4>1, <4>2
    <3>2. PICK q \in Nat : text[i].block + (j - i) = Width * q + text[j].block
      BY <2>2, <3>1 DEF Numbered
    <3>3. SUFFICES ASSUME text[j].block = text[i].block PROVE FALSE
      BY <2>2
    <3>4. PICK b, m \in Nat : b = text[i].block /\ m = Width * q
      <4>1. Width * q \in Nat
        BY OneMore, WidthAssumption
      <4>2. text[i].block \in 0..(Width - 1) /\ Width \in Nat
        BY <1>1, TypedSeq, WidthAssumption
      <4>3. text[i].block \in Nat
        BY <4>2
      <4> QED
        BY <4>1, <4>3
    <3>5. Width * q = j - i
      <4>1. b + (j - i) = m + b
        BY <3>2, <3>3, <3>4
      <4>2. j - i = m
        <5>1. i \in Int /\ j \in Int
          OBVIOUS
        <5> QED
          BY <4>1, <5>1
      <4> QED
        BY <3>4, <4>2
    <3>6. (j - i) % Width = 0
      <4>1. Width \in Nat \ {0}
        BY WidthAssumption
      <4> QED
        BY <3>5, <4>1, Multiple
    <3> QED
      BY <2>2, <2>3, <3>6 DEF CycleOfComments
  <2>5. ASSUME s[p].begins = "pattern" PROVE s[p].pattern # s[p - 1].pattern
    <3>1. i = j - 1
      <4> SUFFICES ASSUME i < j - 1 PROVE FALSE
        BY <2>2
      <4>1. j - 1 \in (i + 1)..(j - 1) /\ j - 1 \in 1..Len(text) /\ j - 1 < Len(text)
        BY <2>1
      <4>2. text[(j - 1) + 1].begins = "block"
        BY <1>1, <2>3, <4>1, NothingBegins
      <4> QED
        BY <2>2, <2>5, <4>2
    <3>2. j \in 2..Len(text) /\ text[j].begins = "pattern"
      BY <2>2, <2>5
    <3> QED
      BY <2>2, <3>1, <3>2 DEF Placed
  <2> QED
    BY <2>4, <2>5
<1> QED
  BY <1>2, <1>3 DEF Placed

-----------------------------------------------------------------------------
(* The drop.                                                               *)

\* The options kept so far are those that decide something of the ones passed,
\* and the ones to come, with the last one passed, are still those of the text.
DropInv ==
  /\ Len(options) = Len(text)
  /\ kept <= idx - 1
  /\ \A i \in 1..Len(text) : i >= idx - 1 => options[i] = text[i]
  /\ \E f : Keeps(options, f, kept, idx - 1)

\* A comment goes when it decides nothing: the numbers of its neighbours tell.
LEMMA GoesIsNothing ==
  ASSUME text \in Seq(Option), Placed(text), Len(options) = Len(text),
         NEW i \in 1..Len(text),
         \A k \in 1..Len(text) : k >= i - 1 => options[k] = text[k]
  PROVE  Goes(i) <=> DecidesNothing(i)
<1>1. /\ Len(text) \in Nat /\ Len(options) = Len(text) /\ options[i] = text[i]
      /\ i > 1 => i - 1 \in 1..Len(text) /\ options[i - 1] = text[i - 1]
      /\ i < Len(text) => i + 1 \in 1..Len(text) /\ options[i + 1] = text[i + 1]
  BY TypedSeq
<1>2. i > 1 => (text[i - 1].block # text[i].block <=> text[i].begins = "block")
  <2> SUFFICES ASSUME i > 1
               PROVE  text[i - 1].block # text[i].block <=> text[i].begins = "block"
    OBVIOUS
  <2>1. i \in 2..Len(text) /\ i - 1 \in 1..Len(text)
    BY <1>1
  <2>2. text[i].begins # "block" => InBlock(text, i - 1, i)
    BY <2>1 DEF InBlock, Together
  <2> QED
    BY <2>1, <2>2 DEF Placed
<1>3. i < Len(text) => (text[i + 1].block # text[i].block <=> text[i + 1].begins = "block")
  <2> SUFFICES ASSUME i < Len(text)
               PROVE  text[i + 1].block # text[i].block <=> text[i + 1].begins = "block"
    OBVIOUS
  <2>1. i + 1 \in 2..Len(text) /\ i + 1 \in 1..Len(text) /\ (i + 1) - 1 = i
    BY <1>1
  <2>2. text[i + 1].begins # "block" => InBlock(text, i, i + 1)
    BY <2>1 DEF InBlock, Together
  <2> QED
    BY <2>1, <2>2 DEF Placed
<1>4. (\A k \in 1..Len(text) : InBlock(text, i, k) => k = i)
        <=> /\ i > 1 => text[i].begins = "block"
            /\ i < Len(text) => text[i + 1].begins = "block"
  <2>1. ASSUME i > 1 => text[i].begins = "block",
               i < Len(text) => text[i + 1].begins = "block",
               NEW k \in 1..Len(text), InBlock(text, i, k)
        PROVE  k = i
    <3>1. ~(k < i)
      BY <1>1, <2>1 DEF InBlock, Together
    <3>2. ~(i < k)
      <4> SUFFICES ASSUME i < k PROVE FALSE
        OBVIOUS
      <4>1. i + 1 \in 1..Len(text) /\ i < i + 1 /\ i + 1 <= k /\ text[i + 1].begins = "block"
        BY <1>1, <2>1
      <4> QED
        BY <2>1, <4>1 DEF InBlock, Together
    <3> QED
      BY <3>1, <3>2
  <2>2. ASSUME \A k \in 1..Len(text) : InBlock(text, i, k) => k = i
        PROVE  /\ i > 1 => text[i].begins = "block"
               /\ i < Len(text) => text[i + 1].begins = "block"
    <3>1. ASSUME i > 1 PROVE text[i].begins = "block"
      <4>1. i - 1 \in 1..Len(text) /\ ~InBlock(text, i, i - 1)
        BY <1>1, <2>2, <3>1
      <4> QED
        BY <4>1 DEF InBlock, Together
    <3>2. ASSUME i < Len(text) PROVE text[i + 1].begins = "block"
      <4>1. i + 1 \in 1..Len(text) /\ ~InBlock(text, i, i + 1)
        BY <1>1, <2>2, <3>2
      <4> QED
        BY <4>1 DEF InBlock, Together
    <3> QED
      BY <3>1, <3>2
  <2> QED
    BY <2>1, <2>2
<1>5. Alone(i) <=> \A k \in 1..Len(text) : InBlock(text, i, k) => k = i
  <2>1. Alone(i) <=> /\ i = 1 \/ options[i - 1].block # options[i].block
                     /\ i = Len(text) \/ options[i + 1].block # options[i].block
    BY DEF Alone
  <2>2. (i = 1 \/ i > 1) /\ (i = Len(text) \/ i < Len(text))
    BY <1>1
  <2> QED
    BY <1>1, <1>2, <1>3, <1>4, <2>1, <2>2
<1> QED
  BY <1>1, <1>5 DEF Goes, DecidesNothing

\* One turn of the loop.
LEMMA DropKeeps ==
  ASSUME TypeOK, Placed(text), DropInv, Drop
  PROVE  TypeOK' /\ DropInv'
<1>1. /\ text \in Seq(Option) /\ options \in Seq(Option) /\ Len(options) \in Nat
      /\ Len(text) = Len(options) /\ kept \in Nat /\ kept <= idx - 1
      /\ idx \in 1..Len(options) /\ idx' = idx + 1 /\ kept + 1 \in 1..Len(options)
      /\ \A i \in 1..Len(text) : i >= idx - 1 => options[i] = text[i]
      /\ UNCHANGED <<phase, text, block, pattern, braced, first, matched, target>>
      /\ phase = "drop"
  BY LenProperties DEF TypeOK, DropInv, Drop, parsing, walking
<1>2. PICK f : Keeps(options, f, kept, idx - 1)
  BY DEF DropInv
<1>3. /\ f \in [1..kept -> 1..(idx - 1)]
      /\ \A p, q \in 1..kept : p < q => f[p] < f[q]
      /\ \A p \in 1..kept : options[p] = text[f[p]] /\ ~DecidesNothing(f[p])
      /\ \A i \in 1..(idx - 1) : ~DecidesNothing(i) => \E p \in 1..kept : f[p] = i
  BY <1>2 DEF Keeps
<1>4. Goes(idx) <=> DecidesNothing(idx)
  BY <1>1, GoesIsNothing
<1>5. \A i : DecidesNothing(i)' <=> DecidesNothing(i)
  BY <1>1 DEF DecidesNothing, InBlock, Together
<1>6. CASE Goes(idx)
  <2>1. options' = options /\ kept' = kept
    BY <1>6 DEF Drop
  <2>2. /\ f \in [1..kept -> 1..idx]
        /\ \A i \in 1..idx : ~DecidesNothing(i) => \E p \in 1..kept : f[p] = i
    <3>1. \A i \in 1..idx : i = idx \/ i \in 1..(idx - 1)
      BY <1>1
    <3>2. \A p \in 1..kept : f[p] \in 1..idx
      BY <1>1, <1>3
    <3> QED
      BY <1>3, <1>4, <1>6, <3>1, <3>2
  <2>3. (idx + 1) - 1 = idx
    BY <1>1
  <2>4. Keeps(options, f, kept, idx - 1)'
    BY <1>1, <1>3, <1>5, <2>1, <2>2, <2>3 DEF Keeps
  <2>5. TypeOK'
    BY <1>1, <2>1 DEF TypeOK
  <2>6. kept' <= idx' - 1 /\ \A i \in 1..Len(text') : i >= idx' - 1 => options'[i] = text'[i]
    BY <1>1, <2>1
  <2> QED
    BY <1>1, <2>1, <2>4, <2>5, <2>6 DEF DropInv
<1>7. CASE ~Goes(idx)
  <2>1. options' = [options EXCEPT ![kept + 1] = options[idx]] /\ kept' = kept + 1
    BY <1>7 DEF Drop
  <2>2. /\ options' \in Seq(Option) /\ Len(options') = Len(options)
        /\ options'[kept + 1] = options[idx]
        /\ \A i \in 1..Len(options) : i # kept + 1 => options'[i] = options[i]
    <3>1. options[idx] \in Option
      BY <1>1, ElementOfSeq
    <3> QED
      BY <1>1, <2>1, <3>1, ExceptSeq
  <2> DEFINE g == [p \in 1..(kept + 1) |-> IF p = kept + 1 THEN idx ELSE f[p]]
  <2>3. /\ g[kept + 1] = idx /\ \A p \in 1..kept : g[p] = f[p] /\ f[p] \in 1..(idx - 1)
        /\ \A p \in 1..(kept + 1) : p = kept + 1 \/ p \in 1..kept
        /\ (idx + 1) - 1 = idx /\ DOMAIN g = 1..(kept + 1)
    BY <1>1, <1>3
  <2>4. g \in [1..(kept + 1) -> 1..idx]
    BY <1>1, <1>3
  <2> HIDE DEF g
  <2>5. \A p, q \in 1..(kept + 1) : p < q => g[p] < g[q]
    <3> SUFFICES ASSUME NEW p \in 1..(kept + 1), NEW q \in 1..(kept + 1), p < q
                 PROVE  g[p] < g[q]
      OBVIOUS
    <3>1. p \in 1..kept
      BY <1>1
    <3>2. CASE q = kept + 1
      BY <1>1, <2>3, <3>1, <3>2
    <3>3. CASE q \in 1..kept
      BY <1>3, <2>3, <3>1, <3>3
    <3> QED
      BY <2>3, <3>2, <3>3
  <2>6. \A p \in 1..(kept + 1) : options'[p] = text[g[p]] /\ ~DecidesNothing(g[p])
    <3> SUFFICES ASSUME NEW p \in 1..(kept + 1)
                 PROVE  options'[p] = text[g[p]] /\ ~DecidesNothing(g[p])
      OBVIOUS
    <3>1. CASE p = kept + 1
      BY <1>1, <1>4, <1>7, <2>2, <2>3, <3>1
    <3>2. CASE p \in 1..kept
      <4>1. p \in 1..Len(options) /\ p # kept + 1
        BY <1>1, <3>2
      <4> QED
        BY <1>3, <2>2, <2>3, <3>2, <4>1
    <3> QED
      BY <2>3, <3>1, <3>2
  <2>7. \A i \in 1..idx : ~DecidesNothing(i) => \E p \in 1..(kept + 1) : g[p] = i
    <3> SUFFICES ASSUME NEW i \in 1..idx, ~DecidesNothing(i)
                 PROVE  \E p \in 1..(kept + 1) : g[p] = i
      OBVIOUS
    <3>1. CASE i = idx
      BY <1>1, <2>3, <3>1
    <3>2. CASE i \in 1..(idx - 1)
      <4>1. PICK p \in 1..kept : f[p] = i
        BY <1>3, <3>2
      <4> QED
        BY <1>1, <2>3, <4>1
    <3> QED
      BY <1>1, <3>1, <3>2
  <2>8. PICK h : h = g
    OBVIOUS
  <2>9. Keeps(options, h, kept, idx - 1)'
    BY <1>1, <1>5, <2>1, <2>3, <2>4, <2>5, <2>6, <2>7, <2>8 DEF Keeps
  <2>10. TypeOK'
    BY <1>1, <2>1, <2>2 DEF TypeOK
  <2>11. /\ kept' <= idx' - 1
         /\ \A i \in 1..Len(text') : i >= idx' - 1 => options'[i] = text'[i]
    BY <1>1, <2>1, <2>2
  <2> QED
    BY <1>1, <2>2, <2>9, <2>10, <2>11 DEF DropInv
<1> QED
  BY <1>6, <1>7

\* The run is cut to the options kept, which are all that decide something.
LEMMA EndDropLeaves ==
  ASSUME TypeOK, DropInv, EndDrop
  PROVE  TypeOK' /\ (\E f : Left(options', f)) /\ UNCHANGED text
<1>1. /\ text \in Seq(Option) /\ options \in Seq(Option) /\ Len(options) \in Nat
      /\ Len(text) = Len(options) /\ kept \in 0..Len(options)
      /\ idx = Len(options) + 1 /\ idx' = 1 /\ phase' = "pattern"
      /\ options' = SubSeq(options, 1, kept)
      /\ UNCHANGED <<text, kept, block, pattern, braced, first, matched, target>>
  BY LenProperties DEF TypeOK, DropInv, EndDrop, parsing, walking
<1>2. PICK f : Keeps(options, f, kept, idx - 1)
  BY DEF DropInv
<1>3. /\ options' \in Seq(Option) /\ Len(options') = kept
      /\ \A p \in 1..kept : options'[p] = options[p]
  BY <1>1, SubSeqProperties
<1>4. Left(options', f)
  <2>1. idx - 1 = Len(text)
    BY <1>1
  <2> QED
    BY <1>1, <1>2, <1>3, <2>1 DEF Left, Keeps
<1>5. TypeOK'
  BY <1>1, <1>3 DEF TypeOK
<1> QED
  BY <1>1, <1>4, <1>5

-----------------------------------------------------------------------------
(* The walk.                                                               *)

\* What is said of the options stays as long as they do.
LEMMA OptionsRest ==
  ASSUME UNCHANGED options
  PROVE  /\ \A n : Passed(n)' <=> Passed(n)
         /\ \A n, t : LastBefore(n, t)' <=> LastBefore(n, t)
BY DEF Passed, LastBefore

LEMMA WalkTypes ==
  ASSUME TypeOK, Walk
  PROVE  TypeOK' /\ UNCHANGED <<options, kept, parsing>>
<1>1. Len(options) \in Nat /\ idx \in 1..(Len(options) + 1) /\ kept \in 0..Len(options)
  BY Typed DEF TypeOK
<1>2. UNCHANGED <<options, kept, parsing>>
  BY DEF Walk, Begin, Member, Holds, TryNext, Fails, Succeeds
<1>3. ASSUME idx <= Len(options)
      PROVE  options[idx].answer.hit \in BOOLEAN /\ Latest(idx) \in Targets \cup {NoTarget}
  <2>1. /\ options[idx].answer.hit \in BOOLEAN
        /\ options[idx].answer.found \in Targets \cup {NoTarget}
    BY <1>1, <1>3, Typed
  <2> QED
    BY <2>1 DEF Latest, TypeOK
<1>4. CASE Begin
  <2>1. /\ idx <= Len(options) /\ phase' = "members" /\ first' = idx /\ idx' = idx + 1
        /\ matched' = options[idx].answer.hit /\ target' = Latest(idx)
    BY <1>4 DEF Begin
  <2> QED
    BY <1>1, <1>2, <1>3, <2>1 DEF TypeOK, parsing
<1>5. CASE Member
  <2>1. /\ idx <= Len(options) /\ UNCHANGED <<phase, first>> /\ idx' = idx + 1
        /\ IF matched THEN UNCHANGED <<matched, target>>
           ELSE matched' = options[idx].answer.hit /\ target' = Latest(idx)
    BY <1>5 DEF Member, GoesOn, More
  <2>2. matched' \in BOOLEAN /\ target' \in Targets \cup {NoTarget}
    BY <1>3, <2>1 DEF TypeOK
  <2> QED
    BY <1>1, <1>2, <2>1, <2>2 DEF TypeOK, parsing
<1>6. CASE Holds
  <2>1. phase' = "pattern" /\ idx' = NextBlock /\ UNCHANGED walking
    BY <1>6 DEF Holds
  <2>2. idx' \in 1..(Len(options) + 1)
    BY <1>1, <2>1, NextBlockIs
  <2> QED
    BY <1>2, <2>1, <2>2 DEF TypeOK, parsing, walking
<1>7. CASE TryNext \/ Succeeds
  BY <1>2, <1>7 DEF TryNext, Succeeds, TypeOK, parsing, walking
<1>8. CASE Fails
  BY <1>2, <1>8 DEF Fails, TypeOK, parsing
<1> QED
  BY <1>2, <1>4, <1>5, <1>6, <1>7, <1>8 DEF Walk

LEMMA WalkKeeps ==
  ASSUME WInv, Walk
  PROVE  WInv'
<1>1. /\ TypeOK /\ Placed(options) /\ Len(options) \in Nat /\ idx \in 1..(Len(options) + 1)
      /\ matched \in BOOLEAN
  BY Typed DEF WInv, TypeOK
<1>2. TypeOK' /\ UNCHANGED options
  BY <1>1, WalkTypes
<1>3. /\ Placed(options')
      /\ RuleHolds(options') <=> RuleHolds(options)
      /\ \A n : Passed(n)' <=> Passed(n)
      /\ \A n, t : LastBefore(n, t)' <=> LastBefore(n, t)
  BY <1>1, <1>2, OptionsRest
<1>4. CASE Begin
  <2>1. /\ phase = "pattern" /\ phase' = "members" /\ idx \in 1..Len(options)
        /\ first' = idx /\ idx' = idx + 1 /\ matched' = options[idx].answer.hit
        /\ target' = Latest(idx) /\ Passed(idx)
    BY <1>1, <1>4 DEF Begin, WInv
  <2>2. LastBefore(idx + 1, Latest(idx))
    BY <2>1, BeginAsks, TargetMovesOn DEF WInv
  <2>3. PICK i, t : i = idx /\ t = Latest(idx)
    OBVIOUS
  <2>4. Passed(i)' /\ LastBefore(i + 1, t)'
    BY <1>3, <2>1, <2>2, <2>3
  <2>5. Passed(first)' /\ LastBefore(idx, target)'
    BY <2>1, <2>3, <2>4 DEF Passed, LastBefore
  <2>6. Folded'
    <3>1. \A k \in (first' + 1)..(idx' - 1) : options'[k].begins = "member"
      BY <1>1, <2>1
    <3>2. matched' <=> \E j \in first'..(idx' - 1) : options'[j].answer.hit
      <4>1. \A j \in first'..(idx' - 1) : j = idx
        BY <1>1, <2>1
      <4>2. idx \in first'..(idx' - 1) /\ options[idx].answer.hit \in BOOLEAN
        BY <1>1, <2>1, Typed
      <4> QED
        BY <1>2, <2>1, <4>1, <4>2
    <3> QED
      BY <1>1, <2>1, <2>5, <3>1, <3>2 DEF Folded
  <2> QED
    BY <1>2, <1>3, <2>1, <2>5, <2>6 DEF WInv
<1>5. CASE Member
  <2>1. /\ phase = "members" /\ phase' = "members" /\ GoesOn
        /\ first' = first /\ idx' = idx + 1 /\ Folded
        /\ IF matched THEN matched' = matched /\ target' = target
           ELSE matched' = options[idx].answer.hit /\ target' = Latest(idx)
    BY <1>5 DEF Member, WInv
  <2>2. idx \in 2..Len(options) /\ first \in 1..(idx - 1) /\ options[idx].begins = "member"
    BY <2>1, FoldedPattern
  <2>3. LastBefore(idx + 1, target')
    BY <1>1, <2>1, <2>2, MemberAsks, TargetMovesOn DEF WInv
  <2>4. PICK i, f, t : i = idx /\ f = first /\ t = target'
    OBVIOUS
  <2>5. Passed(f)' /\ LastBefore(i + 1, t)'
    BY <1>3, <2>1, <2>3, <2>4 DEF Folded
  <2>6. Passed(first)' /\ LastBefore(idx, target)'
    BY <2>1, <2>4, <2>5 DEF Passed, LastBefore
  <2>7. matched' <=> \E j \in first..idx : options[j].answer.hit
    <3>1. matched <=> \E j \in first..(idx - 1) : options[j].answer.hit
      BY <1>1, <2>1 DEF Folded
    <3>2. options[idx].answer.hit \in BOOLEAN
      BY <1>1, <2>2, Typed
    <3>3. (\E j \in first..idx : options[j].answer.hit)
            <=> (\E j \in first..(idx - 1) : options[j].answer.hit) \/ options[idx].answer.hit
      BY <2>2
    <3> QED
      BY <2>1, <3>1, <3>2, <3>3
  <2>8. Folded'
    <3>1. \A k \in (first' + 1)..(idx' - 1) : options'[k].begins = "member"
      BY <1>2, <2>1, <2>2 DEF Folded
    <3>2. matched' <=> \E j \in first'..(idx' - 1) : options'[j].answer.hit
      <4>1. first'..(idx' - 1) = first..idx
        BY <2>1, <2>2
      <4> QED
        BY <1>2, <2>7, <4>1
    <3> QED
      BY <2>1, <2>2, <2>6, <3>1, <3>2 DEF Folded
  <2> QED
    BY <1>2, <1>3, <2>1, <2>6, <2>8 DEF WInv
<1>6. CASE Holds
  <2>1. /\ phase = "members" /\ phase' = "pattern" /\ ~GoesOn
        /\ matched # options[first].neg /\ Folded
        /\ idx' = NextBlock /\ UNCHANGED target
    BY <1>6 DEF Holds, WInv, walking
  <2>2. Passed(NextBlock) /\ LastBefore(NextBlock, target)
    BY <2>1, HoldsPasses
  <2>3. PICK n, t : n = NextBlock /\ t = target
    OBVIOUS
  <2>4. Passed(n)' /\ LastBefore(n, t)'
    BY <1>3, <2>2, <2>3
  <2>5. Passed(idx)' /\ LastBefore(idx, target)'
    BY <2>1, <2>3, <2>4 DEF Passed, LastBefore
  <2> QED
    BY <1>2, <1>3, <2>1, <2>5 DEF WInv
<1>7. CASE TryNext
  <2>1. /\ phase = "members" /\ phase' = "pattern" /\ UNCHANGED <<idx, target>>
        /\ ~GoesOn /\ matched = options[first].neg /\ More
    BY <1>7 DEF TryNext, walking
  <2>2. Passed(idx) /\ LastBefore(idx, target)
    BY <2>1, TryNextPasses DEF WInv
  <2>3. PICK n, t : n = idx /\ t = target
    OBVIOUS
  <2>4. Passed(n)' /\ LastBefore(n, t)'
    BY <1>3, <2>2, <2>3
  <2>5. Passed(idx)' /\ LastBefore(idx, target)'
    BY <2>1, <2>3, <2>4 DEF Passed, LastBefore
  <2> QED
    BY <1>2, <1>3, <2>1, <2>5 DEF WInv
<1>8. CASE Fails
  <2>1. /\ phase = "members" /\ phase' = "no"
        /\ ~GoesOn /\ matched = options[first].neg /\ ~More
    BY <1>8 DEF Fails
  <2>2. ~RuleHolds(options')
    BY <1>3, <2>1, FailsIsMeant
  <2> QED
    BY <1>2, <1>3, <2>1, <2>2 DEF WInv
<1>9. CASE Succeeds
  <2>1. /\ phase = "pattern" /\ phase' = "yes" /\ idx > Len(options)
        /\ UNCHANGED target /\ Passed(idx) /\ LastBefore(idx, target)
    BY <1>9 DEF Succeeds, WInv, walking
  <2>2. RuleHolds(options)
    BY <1>1, <2>1 DEF Passed, RuleHolds
  <2>3. {i \in Lookups(options) : i < idx} = Lookups(options)
    BY <1>1, <2>1 DEF Lookups
  <2>4. IsLastTarget(options, target)
    BY <2>1, <2>3 DEF LastBefore, IsLastTarget
  <2>5. RuleHolds(options') /\ IsLastTarget(options', target')
    BY <1>2, <2>1, <2>2, <2>4
  <2> QED
    BY <1>2, <1>3, <2>1, <2>5 DEF WInv
<1> QED
  BY <1>4, <1>5, <1>6, <1>7, <1>8, <1>9 DEF Walk

-----------------------------------------------------------------------------
(* The invariant.                                                          *)

\* The parser's place is that of the last option, or past its block.
Placing ==
  /\ phase = "read" => /\ Len(text) > 0
                       /\ text[Len(text)].block = block
                       /\ text[Len(text)].pattern = pattern
  /\ phase = "between" /\ Len(text) > 0 => Follows(text[Len(text)].block, block)

IInv ==
  /\ TypeOK
  /\ Placed(text) /\ Numbered(text)
  /\ phase \in {"between", "read"} => options = text /\ idx = 1 /\ kept = 0 /\ Placing
  /\ phase \in {"between", "read", "drop", "no"} => target = NoTarget
  /\ phase = "drop" => DropInv
  /\ phase \in {"pattern", "members", "yes", "no"} =>
       (\E f : Left(options, f)) /\ (~CycleOfComments => WInv)

LEMMA InitIInv == Init => IInv
<1> SUFFICES ASSUME Init PROVE IInv
  OBVIOUS
<1>1. text = <<>> /\ options = <<>> /\ options \in Seq(Option) /\ Len(options) = 0
  BY EmptySeq DEF Init
<1>2. TypeOK
  <2>1. 0 \in 0..(Width - 1)
    BY WidthAssumption
  <2>2. idx \in 1..(Len(options) + 1) /\ first \in Nat /\ kept \in 0..Len(options)
    BY <1>1 DEF Init
  <2>3. target \in Targets \cup {NoTarget} /\ matched \in BOOLEAN /\ braced \in BOOLEAN
    BY DEF Init
  <2>4. block \in 0..(Width - 1) /\ pattern \in 0..(Width - 1)
    BY <2>1 DEF Init
  <2> QED
    BY <1>1, <2>2, <2>3, <2>4 DEF Init, TypeOK
<1>3. Placed(text) /\ Numbered(text)
  BY <1>1 DEF Placed, Numbered
<1>4. Placing
  BY <1>1 DEF Init, Placing
<1> QED
  BY <1>1, <1>2, <1>3, <1>4 DEF Init, IInv

\* An option handed over in a place that fits what it begins.
LEMMA OnOptionKeeps ==
  ASSUME IInv, phase \in {"between", "read"}, phase' = "read",
         NEW neg \in BOOLEAN, NEW answer \in Answer, NEW beginning \in Beginning,
         pattern' \in 0..(Width - 1), braced' \in BOOLEAN, OnOption(neg, answer, beginning),
         Len(text) > 0 =>
           LET last == text[Len(text)] IN
           /\ beginning = "block" => Follows(last.block, block)
           /\ beginning # "block" => last.block = block
           /\ beginning = "pattern" => last.pattern # pattern'
           /\ beginning = "member" => last.pattern = pattern' /\ last.neg = neg
  PROVE  IInv'
<1>1. PICK new : new = [neg |-> neg, block |-> block, pattern |-> pattern', answer |-> answer,
                        begins |-> beginning]
  OBVIOUS
<1>2. /\ text \in Seq(Option) /\ options = text /\ new \in Option
      /\ new.block = block /\ new.pattern = pattern' /\ new.begins = beginning /\ new.neg = neg
      /\ Placed(text) /\ Numbered(text) /\ TypeOK /\ Len(text) \in Nat
      /\ idx = 1 /\ kept = 0 /\ target = NoTarget
  BY <1>1, LenProperties DEF IInv, TypeOK, Option
<1>3. /\ text' = Append(text, new) /\ options' = text'
      /\ UNCHANGED <<block, kept, idx, first, matched, target>>
  BY <1>1, <1>2 DEF OnOption, walking
<1>4. /\ text' \in Seq(Option) /\ Len(text') = Len(text) + 1 /\ text'[Len(text) + 1] = new
      /\ Placed(text') /\ Numbered(text')
  BY <1>2, <1>3, AppendKeeps
<1>5. TypeOK'
  BY <1>2, <1>3, <1>4 DEF TypeOK
<1>6. Placing'
  BY <1>2, <1>3, <1>4 DEF Placing
<1> QED
  BY <1>2, <1>3, <1>4, <1>5, <1>6 DEF IInv

LEMMA ParseKeeps ==
  ASSUME IInv, Parse
  PROVE  IInv'
<1>1. /\ TypeOK /\ Len(options) \in Nat /\ text \in Seq(Option) /\ Len(text) \in Nat
      /\ block \in 0..(Width - 1) /\ pattern \in 0..(Width - 1)
      /\ braced \in BOOLEAN
  BY Typed, LenProperties DEF IInv, TypeOK
<1>2. ASSUME NEW neg \in BOOLEAN, NEW answer \in Answer, First(neg, answer)
      PROVE  IInv'
  <2>1. /\ pattern' \in 0..(Width - 1) /\ OnOption(neg, answer, "block") /\ braced' \in BOOLEAN
        /\ phase = "between" /\ phase' = "read"
    BY <1>2, WidthAssumption DEF First
  <2>2. Len(text) > 0 => Follows(text[Len(text)].block, block)
    BY <2>1 DEF IInv, Placing
  <2> QED
    BY <2>1, <2>2, OnOptionKeeps DEF Beginning
<1>3. ASSUME NEW neg \in BOOLEAN, NEW answer \in Answer, Alternative(neg, answer)
      PROVE  IInv'
  <2>1. /\ pattern' = (pattern + 1) % Width /\ OnOption(neg, answer, "pattern")
        /\ phase = "read" /\ phase' = "read" /\ braced' \in BOOLEAN
    BY <1>1, <1>3 DEF Alternative, NextPattern
  <2>2. pattern' \in 0..(Width - 1) /\ pattern' # pattern
    BY <1>1, <2>1, NumbersFollow
  <2>3. text[Len(text)].block = block /\ text[Len(text)].pattern # pattern'
    BY <2>1, <2>2 DEF IInv, Placing
  <2> QED
    BY <2>1, <2>2, <2>3, OnOptionKeeps DEF Beginning
<1>4. ASSUME NEW hit \in BOOLEAN, NextRange(hit)
      PROVE  IInv'
  <2>1. PICK neg, answer : /\ neg = options[Len(options)].neg
                           /\ answer = [comment |-> FALSE, hit |-> hit, found |-> NoTarget]
    OBVIOUS
  <2>2. /\ pattern' = pattern /\ OnOption(neg, answer, "member")
        /\ phase = "read" /\ phase' = "read" /\ braced' \in BOOLEAN
    BY <1>1, <1>4, <2>1 DEF NextRange
  <2>3. pattern' \in 0..(Width - 1) /\ answer \in Answer
    BY <1>1, <2>1, <2>2 DEF Answer
  <2>4. /\ text[Len(text)].block = block /\ text[Len(text)].pattern = pattern'
        /\ Len(text) > 0 /\ options = text
    BY <2>2 DEF IInv, Placing
  <2>5. neg \in BOOLEAN /\ neg = text[Len(text)].neg
    BY <1>1, <2>1, <2>4, Typed
  <2> QED
    BY <2>2, <2>3, <2>4, <2>5, OnOptionKeeps DEF Beginning
<1>5. CASE EndBlock
  <2>1. /\ block' = (block + 1) % Width /\ phase = "read" /\ phase' = "between"
        /\ UNCHANGED <<options, text, pattern, braced, kept, idx, first, matched, target>>
    BY <1>5 DEF EndBlock, walking
  <2>2. block' \in 0..(Width - 1) /\ Follows(block, block')
    BY <1>1, <2>1, NumbersFollow
  <2>3. TypeOK'
    BY <1>1, <2>1, <2>2 DEF TypeOK
  <2>4. Placing'
    BY <2>1, <2>2 DEF IInv, Placing
  <2>5. Placed(text)' /\ Numbered(text)'
    BY <2>1 DEF IInv
  <2> QED
    BY <2>1, <2>3, <2>4, <2>5 DEF IInv
<1>6. CASE EndOptions
  <2>1. /\ phase = "between" /\ phase' = "drop"
        /\ UNCHANGED <<options, text, block, pattern, braced, kept, idx, first, matched, target>>
        /\ options = text /\ idx = 1 /\ kept = 0 /\ target = NoTarget
    BY <1>6 DEF EndOptions, parsing, walking, IInv
  <2>2. TypeOK'
    BY <1>1, <2>1 DEF TypeOK
  <2>3. Placed(text)' /\ Numbered(text)'
    BY <2>1 DEF IInv
  <2>4. DropInv'
    <3>1. PICK f : f = [p \in 1..0 |-> 1]
      OBVIOUS
    <3>2. 1..0 = {} /\ f \in [1..0 -> 1..0]
      BY <3>1
    <3>3. Keeps(options, f, kept, idx - 1)'
      BY <2>1, <3>2 DEF Keeps
    <3> QED
      BY <1>1, <2>1, <3>3 DEF DropInv
  <2> QED
    BY <2>1, <2>2, <2>3, <2>4 DEF IInv
<1> QED
  BY <1>2, <1>3, <1>4, <1>5, <1>6 DEF Parse

\* The walk begins with what the drop left.
LEMMA EndDropKeeps ==
  ASSUME IInv, EndDrop
  PROVE  IInv'
<1>1. /\ phase = "drop" /\ phase' = "pattern" /\ idx' = 1 /\ UNCHANGED <<target, text>>
      /\ TypeOK /\ DropInv /\ Placed(text) /\ Numbered(text) /\ target = NoTarget
  BY DEF EndDrop, IInv, parsing, walking
<1>2. TypeOK' /\ \E f : Left(options', f)
  BY <1>1, EndDropLeaves
<1>3. PICK f : Left(options', f)
  BY <1>2
<1>4. Left(options, f)'
  BY <1>1, <1>3, TextRests
<1>5. ASSUME ~CycleOfComments' PROVE WInv'
  <2>1. Placed(options')
    BY <1>1, <1>3, <1>5, LeftPlaced, TextRests
  <2>2. Passed(idx)'
    BY <1>1 DEF Passed
  <2>3. LastBefore(idx, target)'
    BY <1>1 DEF LastBefore, Lookups
  <2> QED
    BY <1>1, <1>2, <2>1, <2>2, <2>3 DEF WInv
<1> QED
  BY <1>1, <1>2, <1>4, <1>5 DEF IInv

LEMMA StepKeeps ==
  ASSUME IInv, Drop \/ Walk \/ UNCHANGED vars
  PROVE  IInv'
<1>1. TypeOK /\ Placed(text) /\ Numbered(text)
  BY DEF IInv
<1>2. CASE Drop
  <2>1. phase = "drop" /\ UNCHANGED <<phase, text, target>> /\ target = NoTarget /\ DropInv
    BY <1>2 DEF Drop, parsing, walking, IInv
  <2>2. TypeOK' /\ DropInv'
    BY <1>1, <1>2, <2>1, DropKeeps
  <2> QED
    BY <1>1, <2>1, <2>2 DEF IInv
<1>3. CASE Walk
  <2>1. TypeOK' /\ UNCHANGED <<options, text>>
    BY <1>1, <1>3, WalkTypes DEF parsing
  <2>2. /\ phase \in {"pattern", "members"} /\ phase' \in {"pattern", "members", "yes", "no"}
        /\ phase' = "no" => target' = NoTarget
    BY <1>3 DEF Walk, Begin, Member, Holds, TryNext, Fails, Succeeds
  <2>3. PICK f : Left(options, f)
    BY <2>2 DEF IInv
  <2>4. Left(options, f)'
    BY <2>1, <2>3, TextRests
  <2>5. ~CycleOfComments' => WInv'
    BY <1>3, <2>1, <2>2, TextRests, WalkKeeps DEF IInv
  <2> QED
    BY <1>1, <2>1, <2>2, <2>4, <2>5 DEF IInv
<1>4. CASE UNCHANGED vars
  <2>1. UNCHANGED <<text, options, phase, block, pattern, braced, kept, idx, first, matched,
                    target>>
    BY <1>4 DEF vars, parsing, walking
  <2>2. TypeOK'
    BY <1>1, <2>1 DEF TypeOK
  <2>3. Placing' <=> Placing
    BY <2>1 DEF Placing
  <2>4. ASSUME DropInv PROVE DropInv'
    <3>1. PICK f : Keeps(options, f, kept, idx - 1)
      BY <2>4 DEF DropInv
    <3>2. Keeps(options, f, kept, idx - 1)'
      BY <2>1, <3>1, TextRests DEF Keeps
    <3> QED
      BY <2>1, <2>4, <3>2 DEF DropInv
  <2>5. ASSUME NEW f, Left(options, f) PROVE Left(options, f)'
    BY <2>1, <2>5, TextRests
  <2>6. ASSUME WInv PROVE WInv'
    <3>1. PICK n, g, t : n = idx /\ g = first /\ t = target
      OBVIOUS
    <3>2. /\ Passed(idx)' <=> Passed(idx)
          /\ Passed(first)' <=> Passed(first)
          /\ LastBefore(idx, target)' <=> LastBefore(idx, target)
      BY <2>1 DEF Passed, LastBefore
    <3>3. Folded' <=> Folded
      BY <2>1, <3>2 DEF Folded
    <3> QED
      BY <2>1, <2>2, <2>6, <3>2, <3>3 DEF WInv
  <2> QED
    BY <1>1, <2>1, <2>2, <2>3, <2>4, <2>5, <2>6, TextRests DEF IInv
<1> QED
  BY <1>2, <1>3, <1>4

-----------------------------------------------------------------------------
\* The invariant of the parser's numbering, of the drop of comments and of the
\* walk that follows it.
THEOREM OptionsInvariant == Spec => []IInv
<1>1. Init => IInv
  BY InitIInv
<1>2. IInv /\ [Next]_vars => IInv'
  BY ParseKeeps, EndDropKeeps, StepKeeps DEF Next
<1> QED
  BY <1>1, <1>2, PTL DEF Spec

\* The numbers stay within their width, the drop and the walk within the options.
THEOREM OptionsTypes == Spec => []TypeOK
<1>1. IInv => TypeOK
  BY DEF IInv
<1> QED
  BY <1>1, OptionsInvariant, PTL

\* DropComments leaves the walk exactly the options of the text that decide
\* something, each once and in their order: none is lost to the compaction in
\* place, and a comment goes just when it is not negated and has its or-block to
\* itself in the text, which the numbers of its neighbours tell.
DropLeavesDeciding ==
  phase \in {"pattern", "members", "yes", "no"} => \E f : Left(options, f)

THEOREM DropKeepsWhatDecides == Spec => []DropLeavesDeciding
<1>1. IInv => DropLeavesDeciding
  BY DEF IInv, DropLeavesDeciding
<1> QED
  BY <1>1, OptionsInvariant, PTL

\* Without a whole cycle of comments the walk answers what the text means.
LEMMA WalkMeansText ==
  ASSUME IInv, ~CycleOfComments
  PROVE  /\ DropsChangeNoVerdict
         /\ phase = "yes" => IsLastTarget(text, target)
<1>1. CASE phase \in {"yes", "no"}
  <2>1. WInv
    BY <1>1 DEF IInv
  <2>2. PICK f : Left(options, f)
    BY <1>1 DEF IInv
  <2>3. RuleHolds(options) <=> RuleHolds(text)
    BY <2>2, LeftMeans
  <2>4. IsLastTarget(options, target) <=> IsLastTarget(text, target)
    BY <2>2, LeftTarget
  <2> QED
    BY <2>1, <2>3, <2>4 DEF WInv, DropsChangeNoVerdict
<1>2. CASE phase \notin {"yes", "no"}
  BY <1>2 DEF DropsChangeNoVerdict
<1> QED
  BY <1>1, <1>2

\* matchOptions answers what the text of the rule means: every or-block has a
\* pattern with a member that matches, its negation aside. So it does for rules of
\* any length, past any wrap of the numbers and whatever comments were dropped, but
\* where a whole cycle of them stood between two options.
THEOREM WalkDecidesMeaning == Spec => []VerdictIsMeaning
<1>1. IInv => VerdictIsMeaning
  BY WalkMeansText DEF VerdictIsMeaning
<1> QED
  BY <1>1, OptionsInvariant, PTL

\* The tablearg target of a rule is that of the last lookup the text of the rule
\* makes, under the same condition, and a rule that does not match has none.
THEOREM WalkKeepsLastTarget == Spec => []TargetIsLastLookup
<1>1. IInv => TargetIsLastLookup
  BY WalkMeansText DEF TargetIsLastLookup, IInv
<1> QED
  BY <1>1, OptionsInvariant, PTL

\* The drop changes no verdict of a rule that has no more options than there are
\* numbers, comments included: a cycle of comments takes one more.
ShortRulesDecided == Len(text) <= Width => DropsChangeNoVerdict

THEOREM ShortRulesMeanTheirText == Spec => []ShortRulesDecided
<1>1. IInv => ShortRulesDecided
  <2> SUFFICES ASSUME IInv, Len(text) <= Width PROVE DropsChangeNoVerdict
    BY DEF ShortRulesDecided
  <2>1. Len(text) \in Nat /\ Width \in Nat /\ Width >= 2
    BY LenProperties, WidthAssumption DEF IInv, TypeOK
  <2>2. ASSUME NEW i \in 1..Len(text), NEW j \in 1..Len(text), i < j
        PROVE  (j - i) % Width # 0
    <3>1. j - i \in 1..(Width - 1)
      BY <2>1, <2>2
    <3>2. (j - i) % Width = j - i
      BY <2>1, <3>1
    <3> QED
      BY <3>1, <3>2
  <2>3. ~CycleOfComments
    BY <2>2 DEF CycleOfComments
  <2> QED
    BY <2>3, WalkMeansText
<1> QED
  BY <1>1, OptionsInvariant, PTL

=============================================================================
