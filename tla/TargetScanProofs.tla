-------------------------- MODULE TargetScanProofs --------------------------
(***************************************************************************)
(* Proofs about the targets of a rule (module TargetScan), for sides of    *)
(* any length and numbers of any width from two, as long as the numbers    *)
(* tell neighbours apart.                                                  *)
(***************************************************************************)
EXTENDS TargetScan, TLAPS, SequenceTheorems

\* The types, and what they need: while the text is read no scan has begun, and
\* a target belongs to an alternative.
TypeInv ==
  /\ TypeOK
  /\ phase \in {"target", "after"} => idx = 1 /\ first = 0 /\ ~hit
  /\ phase = "after" => Len(negs[side]) > 0

\* The number of an alternative is not that of the one before it among those that
\* have a match: the numbers do not wrap, or no alternative is left out.  The code
\* grants neither (run TargetWrap).
Distinct == MaxAlternatives <= Width \/ <<>> \notin Resolutions

\* The alternative of match i.
Alternative(s, i) == said[s][i].alternative

\* The matches of a side are the members said of it, in order, under the negation
\* of their alternative, and a new number begins where an alternative does.
Placed(s) ==
  /\ Len(matches[s]) = Len(said[s])
  /\ \A i \in 1..Len(said[s]) :
       /\ Alternative(s, i) \in 1..Len(negs[s])
       /\ matches[s][i].member = said[s][i].member
       /\ matches[s][i].neg = negs[s][Alternative(s, i)]
  /\ \A i, j \in 1..Len(said[s]) : i <= j => Alternative(s, i) <= Alternative(s, j)
  /\ \A i \in 2..Len(said[s]) :
       Alternative(s, i) = Alternative(s, i - 1) <=> matches[s][i].pattern = matches[s][i - 1].pattern

\* A negated alternative has a match, be it one that nothing satisfies.
NegatedEmitted(s) ==
  \A k \in 1..Len(negs[s]) : negs[s][k] => \E i \in 1..Len(said[s]) : Alternative(s, i) = k

\* Where the parser is: the alternatives read were counted from 0, as far as that
\* is possible, or every one of them has a match.
Placing ==
  LET read == Len(negs[side])
      last == Len(said[side])
  IN /\ phase \in {"target", "after"} =>
          /\ read <= MaxAlternatives
          /\ MaxAlternatives <= Width =>
               \A i \in 1..last : matches[side][i].pattern = Alternative(side, i) - 1
          /\ <<>> \notin Resolutions /\ read > 0 => last > 0 /\ Alternative(side, last) = read
          /\ \A s \in Side : s # side /\ side = "source" => negs[s] = <<>> /\ said[s] = <<>> /\ matches[s] = <<>>
     /\ phase = "target" =>
          /\ MaxAlternatives <= Width => pattern = read \/ read = MaxAlternatives
          /\ <<>> \notin Resolutions /\ last > 0 => matches[side][last].pattern # pattern
     /\ phase = "after" =>
          /\ MaxAlternatives <= Width => pattern = read - 1
          /\ \A i \in 1..last : Alternative(side, i) = read => matches[side][i].pattern = pattern

\* What a scan of a side knows of the matches before n, where an alternative
\* begins: no alternative of theirs holds.
Passed(s, n) ==
  \A i \in 1..(n - 1) :
    /\ ~AlternativeHolds(s, Alternative(s, i))
    /\ n <= Len(said[s]) => Alternative(s, i) < Alternative(s, n)

\* An alternative folded up to the match at idx.
Folded ==
  IF first = 0 THEN Passed(side, idx) /\ ~hit
  ELSE /\ Passed(side, first)
       /\ \A i \in first..(idx - 1) :
            /\ Alternative(side, i) = Alternative(side, first)
            /\ matches[side][i].pattern = matches[side][first].pattern
       /\ hit <=> \E i \in first..(idx - 1) : i \in Holding(side)

\* t is the target of the last lookup of a side before the match at n.
LastBefore(s, n, t) ==
  LET before == {i \in Lookups(s) : i < n} IN
  IF before = {} THEN t = NoTarget
  ELSE \E i \in before : t = said[s][i].member.found /\ \A j \in before : j <= i

IInv ==
  /\ TypeInv
  /\ phase \in {"target", "after", "match"} => found = NoTarget
  /\ \A s \in Side : Placed(s) /\ NegatedEmitted(s)
  /\ Placing
  /\ phase \in {"match", "lookup"} => Folded
  /\ phase = "match" /\ side = "destination" => SideHolds("source")
  /\ phase = "lookup" /\ side = "destination" => LastBefore("destination", idx, found)
  /\ phase = "lookup" /\ side = "source" =>
       Lookups("destination") = {} /\ LastBefore("source", idx, found)
  /\ MatchIsMeaning
  /\ TargetIsLastLookup
-----------------------------------------------------------------------------
(* Types.                                                                  *)

\* The types the other lemmas start from.
LEMMA Typed ==
  ASSUME TypeOK, NEW s \in Side
  PROVE  /\ Len(said[s]) \in Nat /\ Len(negs[s]) \in Nat /\ Len(matches[s]) \in Nat
         /\ DOMAIN said[s] = 1..Len(said[s]) /\ DOMAIN negs[s] = 1..Len(negs[s])
         /\ \A i \in 1..Len(said[s]) : said[s][i].alternative \in Nat /\ said[s][i].member \in Member
         /\ \A k \in 1..Len(negs[s]) : negs[s][k] \in BOOLEAN
         /\ \A i \in 1..Len(matches[s]) :
              /\ matches[s][i].neg \in BOOLEAN /\ matches[s][i].pattern \in 0..(Width - 1)
              /\ matches[s][i].member \in Member
<1>1. said[s] \in Seq(Said) /\ negs[s] \in Seq(BOOLEAN) /\ matches[s] \in Seq(Match)
  BY DEF TypeOK
<1>2. /\ Len(said[s]) \in Nat /\ Len(negs[s]) \in Nat /\ Len(matches[s]) \in Nat
      /\ DOMAIN said[s] = 1..Len(said[s]) /\ DOMAIN negs[s] = 1..Len(negs[s])
  BY <1>1, LenProperties
<1>3. /\ \A i \in 1..Len(said[s]) : said[s][i] \in Said
      /\ \A k \in 1..Len(negs[s]) : negs[s][k] \in BOOLEAN
      /\ \A i \in 1..Len(matches[s]) : matches[s][i] \in Match
  BY <1>1, ElementOfSeq
<1>4. \A m \in Said : m.alternative \in Nat /\ m.member \in Member
  BY DEF Said
<1>5. \A m \in Match : m.neg \in BOOLEAN /\ m.pattern \in 0..(Width - 1) /\ m.member \in Member
  BY DEF Match
<1> QED
  BY <1>2, <1>3, <1>4, <1>5

\* A member has its fields.
LEMMA MemberTyped ==
  ASSUME NEW m \in Member
  PROVE  /\ m.kind \in Kind /\ m.holds \in BOOLEAN /\ m.found \in Targets \cup {NoTarget}
         /\ m.kind # "table" => m.found = NoTarget
BY DEF Member

\* A target is handed over as a sequence of members, which is empty only when it
\* stands for nothing and is not negated.
LEMMA EmittedTyped ==
  ASSUME NEW resolved \in Resolutions, NEW neg \in BOOLEAN
  PROVE  /\ Emitted(resolved, neg) \in Seq(Member) /\ Len(Emitted(resolved, neg)) \in Nat
         /\ \A i \in 1..Len(Emitted(resolved, neg)) : Emitted(resolved, neg)[i] \in Member
         /\ Len(Emitted(resolved, neg)) = 0 => ~neg /\ resolved = <<>>
<1>1. resolved \in Seq(Member)
  BY ResolutionsAssumption
<1>2. None \in Member
  BY DEF None, Member, Kind
<1>3. <<None>> \in Seq(Member) /\ Len(<<None>>) = 1
  BY <1>2
<1>4. Emitted(resolved, neg) \in Seq(Member)
  BY <1>1, <1>3 DEF Emitted
<1>5. resolved # <<>> => Len(resolved) # 0
  BY <1>1, EmptySeq
<1>6. Len(Emitted(resolved, neg)) = 0 => ~neg /\ resolved = <<>>
  BY <1>3, <1>5 DEF Emitted
<1> QED
  BY <1>4, <1>6, LenProperties, ElementOfSeq

\* A target that is read is appended to its side, under its alternative and its
\* number.
LEMMA TargetAppended ==
  ASSUME TypeOK, NEW resolved \in Resolutions, NEW neg \in BOOLEAN, OnTarget(resolved, neg),
         negs'[side] \in Seq(BOOLEAN)
  PROVE  LET more == Len(Emitted(resolved, neg)) IN
         /\ said' \in [Side -> Seq(Said)] /\ matches' \in [Side -> Seq(Match)]
         /\ \A s \in Side \ {side} : said'[s] = said[s] /\ matches'[s] = matches[s]
         /\ Len(said'[side]) = Len(said[side]) + more
         /\ Len(matches'[side]) = Len(matches[side]) + more
         /\ \A i \in 1..Len(said[side]) : said'[side][i] = said[side][i]
         /\ \A i \in 1..Len(matches[side]) : matches'[side][i] = matches[side][i]
         /\ \A i \in 1..more :
              /\ said'[side][Len(said[side]) + i] =
                   [alternative |-> Len(negs'[side]), member |-> Emitted(resolved, neg)[i]]
              /\ matches'[side][Len(matches[side]) + i] =
                   [neg |-> neg, pattern |-> pattern, member |-> Emitted(resolved, neg)[i]]
<1>1. PICK members : members = Emitted(resolved, neg)
  OBVIOUS
<1>2. PICK n \in Nat : n = Len(members)
  BY <1>1, EmittedTyped
<1>3. PICK k \in Nat : k = Len(negs'[side])
  BY LenProperties
<1>4. PICK saying : saying = [i \in 1..n |-> [alternative |-> k, member |-> members[i]]]
  OBVIOUS
<1>5. PICK matching :
        matching = [i \in 1..n |-> [neg |-> neg, pattern |-> pattern, member |-> members[i]]]
  OBVIOUS
<1>6. \A i \in 1..n : members[i] \in Member
  BY <1>1, <1>2, EmittedTyped
<1>7. saying \in Seq(Said) /\ Len(saying) = n
  <2>1. \A i \in 1..n : [alternative |-> k, member |-> members[i]] \in Said
    BY <1>6 DEF Said
  <2> QED
    BY <1>4, <2>1
<1>8. matching \in Seq(Match) /\ Len(matching) = n
  <2>1. \A i \in 1..n : [neg |-> neg, pattern |-> pattern, member |-> members[i]] \in Match
    BY <1>6 DEF Match, TypeOK
  <2> QED
    BY <1>5, <2>1
<1>9. /\ said' = [said EXCEPT ![side] = @ \o saying]
      /\ matches' = [matches EXCEPT ![side] = @ \o matching]
  BY <1>1, <1>2, <1>3, <1>4, <1>5 DEF OnTarget
<1>10. /\ said \in [Side -> Seq(Said)] /\ matches \in [Side -> Seq(Match)] /\ side \in Side
       /\ said[side] \in Seq(Said) /\ matches[side] \in Seq(Match)
       /\ Len(said[side]) \in Nat /\ Len(matches[side]) \in Nat
  BY Typed DEF TypeOK
<1>11. /\ said'[side] = said[side] \o saying /\ matches'[side] = matches[side] \o matching
       /\ \A s \in Side \ {side} : said'[s] = said[s] /\ matches'[s] = matches[s]
  BY <1>9, <1>10
<1>12. /\ said[side] \o saying \in Seq(Said)
       /\ Len(said[side] \o saying) = Len(said[side]) + n
       /\ \A i \in 1..(Len(said[side]) + n) :
            (said[side] \o saying)[i] = IF i <= Len(said[side]) THEN said[side][i]
                                        ELSE saying[i - Len(said[side])]
  BY <1>7, <1>10, ConcatProperties
<1>13. /\ matches[side] \o matching \in Seq(Match)
       /\ Len(matches[side] \o matching) = Len(matches[side]) + n
       /\ \A i \in 1..(Len(matches[side]) + n) :
            (matches[side] \o matching)[i] = IF i <= Len(matches[side]) THEN matches[side][i]
                                             ELSE matching[i - Len(matches[side])]
  BY <1>8, <1>10, ConcatProperties
<1>14. said' \in [Side -> Seq(Said)] /\ matches' \in [Side -> Seq(Match)]
  BY <1>9, <1>10, <1>12, <1>13
<1>15. ASSUME NEW i \in 1..n
       PROVE  /\ said'[side][Len(said[side]) + i] = [alternative |-> k, member |-> members[i]]
              /\ matches'[side][Len(matches[side]) + i] =
                   [neg |-> neg, pattern |-> pattern, member |-> members[i]]
  <2>1. Len(said[side]) + i - Len(said[side]) = i /\ Len(matches[side]) + i - Len(matches[side]) = i
    BY <1>10
  <2>2. said'[side][Len(said[side]) + i] = saying[i]
    BY <1>10, <1>11, <1>12, <2>1
  <2>3. matches'[side][Len(matches[side]) + i] = matching[i]
    BY <1>10, <1>11, <1>13, <2>1
  <2> QED
    BY <1>4, <1>5, <2>2, <2>3
<1> QED
  BY <1>1, <1>2, <1>3, <1>10, <1>11, <1>12, <1>13, <1>14, <1>15, SMTT(20)
-----------------------------------------------------------------------------
(* The types are kept, whatever the numbers tell.                          *)

LEMMA InitTypes == Init => TypeInv
<1> SUFFICES ASSUME Init PROVE TypeInv
  OBVIOUS
<1>1. /\ said = [s \in Side |-> <<>>] /\ negs = [s \in Side |-> <<>>]
      /\ matches = [s \in Side |-> <<>>] /\ family \in [Side -> Family]
      /\ phase = "target" /\ side = "source" /\ braced \in BOOLEAN /\ listing = FALSE
      /\ pattern = 0 /\ idx = 1 /\ first = 0 /\ hit = FALSE /\ found = NoTarget
  BY DEF Init
<1>2. <<>> \in Seq(Said) /\ <<>> \in Seq(BOOLEAN) /\ <<>> \in Seq(Match)
  BY EmptySeq
<1>3. side \in Side /\ Len(matches[side]) = 0
  BY <1>1 DEF Side
<1>4. 0 \in 0..(Width - 1)
  BY WidthAssumption
<1>5. /\ said \in [Side -> Seq(Said)] /\ negs \in [Side -> Seq(BOOLEAN)]
      /\ matches \in [Side -> Seq(Match)]
  BY <1>1, <1>2
<1>6. idx \in 1..(Len(matches[side]) + 1) /\ first \in 0..(idx - 1)
  BY <1>1, <1>3
<1>7. pattern \in 0..(Width - 1)
  BY <1>1, <1>4
<1>8. TypeOK
  BY <1>1, <1>3, <1>5, <1>6, <1>7 DEF TypeOK
<1> QED
  BY <1>1, <1>8 DEF TypeInv

\* The numbers that follow a number differ from it, the width being two at least.
LEMMA NumbersDiffer ==
  ASSUME NEW n \in 0..(Width - 1)
  PROVE  (n + 1) % Width \in 0..(Width - 1) /\ (n + 1) % Width # n
<1>1. Width \in Nat /\ Width >= 2
  BY WidthAssumption
<1>2. CASE n + 1 < Width
  <2>1. (n + 1) % Width = n + 1
    BY <1>1, <1>2
  <2> QED
    BY <1>1, <1>2, <2>1
<1>3. CASE n + 1 = Width
  <2>1. (n + 1) % Width = 0
    BY <1>1, <1>3
  <2> QED
    BY <1>1, <1>3, <2>1
<1> QED
  BY <1>1, <1>2, <1>3

\* What an alternative is when a target of it is read.
LEMMA ElementAppends ==
  ASSUME TypeOK, NEW neg \in BOOLEAN, negs' = [negs EXCEPT ![side] = Append(@, neg)]
  PROVE  /\ negs' \in [Side -> Seq(BOOLEAN)] /\ negs'[side] \in Seq(BOOLEAN)
         /\ Len(negs'[side]) = Len(negs[side]) + 1
         /\ negs'[side][Len(negs[side]) + 1] = neg
         /\ \A k \in 1..Len(negs[side]) : negs'[side][k] = negs[side][k]
         /\ \A s \in Side \ {side} : negs'[s] = negs[s]
<1>1. negs \in [Side -> Seq(BOOLEAN)] /\ side \in Side /\ negs[side] \in Seq(BOOLEAN)
  BY DEF TypeOK
<1>2. negs'[side] = Append(negs[side], neg) /\ \A s \in Side \ {side} : negs'[s] = negs[s]
  BY <1>1
<1>3. /\ Append(negs[side], neg) \in Seq(BOOLEAN)
      /\ Len(Append(negs[side], neg)) = Len(negs[side]) + 1
      /\ \A k \in 1..Len(negs[side]) : Append(negs[side], neg)[k] = negs[side][k]
      /\ Append(negs[side], neg)[Len(negs[side]) + 1] = neg
  BY <1>1, AppendProperties
<1>4. negs' \in [Side -> Seq(BOOLEAN)]
  BY <1>1, <1>2, <1>3
<1> QED
  BY <1>2, <1>3, <1>4

LEMMA OnTargetTypes ==
  ASSUME TypeInv, phase \in {"target", "after"}, NEW resolved \in Resolutions, NEW neg \in BOOLEAN,
         OnTarget(resolved, neg), negs' \in [Side -> Seq(BOOLEAN)], Len(negs'[side]) > 0,
         listing' \in BOOLEAN
  PROVE  TypeInv'
<1>1. TypeOK /\ side \in Side /\ idx = 1 /\ first = 0 /\ ~hit
  BY DEF TypeInv, TypeOK
<1>2. negs'[side] \in Seq(BOOLEAN)
  BY <1>1
<1>3. PICK n : n = Len(Emitted(resolved, neg))
  OBVIOUS
<1>4. /\ said' \in [Side -> Seq(Said)] /\ matches' \in [Side -> Seq(Match)]
      /\ Len(matches'[side]) = Len(matches[side]) + n
  BY <1>1, <1>2, <1>3, TargetAppended
<1>5. /\ phase' = "after" /\ family' = family /\ side' = side /\ braced' = braced
      /\ pattern' = pattern /\ idx' = idx /\ first' = first /\ hit' = hit /\ found' = found
  BY DEF OnTarget, folding
<1>6. n \in Nat /\ Len(matches[side]) \in Nat
  BY <1>1, <1>3, EmittedTyped, Typed
<1>7. idx' \in 1..(Len(matches'[side']) + 1) /\ first' \in 0..(idx' - 1)
  BY <1>1, <1>4, <1>5, <1>6
<1>8. TypeOK'
  BY <1>1, <1>4, <1>5, <1>7 DEF TypeOK
<1> QED
  BY <1>1, <1>5, <1>8 DEF TypeInv

LEMMA ReadTypes ==
  ASSUME TypeInv, Read
  PROVE  TypeInv'
<1>1. /\ TypeOK /\ side \in Side /\ Len(negs[side]) \in Nat /\ Len(matches[side]) \in Nat
      /\ "destination" \in Side /\ "source" \in Side
  BY Typed DEF TypeInv, TypeOK, Side
<1>2. ASSUME NEW resolved \in Resolutions, NEW neg \in BOOLEAN, Element(resolved, neg)
      PROVE  TypeInv'
  <2>1. /\ phase = "target" /\ negs' = [negs EXCEPT ![side] = Append(@, neg)]
        /\ listing' \in BOOLEAN /\ OnTarget(resolved, neg)
    BY <1>2 DEF Element, IsListed
  <2>2. negs' \in [Side -> Seq(BOOLEAN)] /\ Len(negs'[side]) = Len(negs[side]) + 1
    BY <1>1, <2>1, ElementAppends
  <2>3. Len(negs'[side]) > 0
    BY <1>1, <2>2
  <2> QED
    BY <2>1, <2>2, <2>3, OnTargetTypes
<1>3. ASSUME NEW resolved \in Resolutions, ListMember(resolved)
      PROVE  TypeInv'
  <2>1. PICK neg : neg = negs[side][Len(negs[side])]
    OBVIOUS
  <2>2. /\ phase = "after" /\ negs' = negs /\ listing' = listing /\ OnTarget(resolved, neg)
    BY <1>3, <2>1 DEF ListMember
  <2>3. Len(negs[side]) > 0
    BY <2>2 DEF TypeInv
  <2>4. neg \in BOOLEAN
    BY <1>1, <2>1, <2>3, Typed
  <2>5. negs' \in [Side -> Seq(BOOLEAN)] /\ Len(negs'[side]) > 0 /\ listing' \in BOOLEAN
    BY <1>1, <2>2, <2>3 DEF TypeOK
  <2> QED
    BY <2>2, <2>4, <2>5, OnTargetTypes
<1>4. CASE Or
  <2>1. /\ phase = "after" /\ phase' = "target" /\ pattern' = (pattern + 1) % Width
        /\ UNCHANGED <<said, negs, matches, family, side, braced, listing, idx, first, hit, found>>
    BY <1>4 DEF Or, NextPattern, folding
  <2>2. pattern' \in 0..(Width - 1)
    BY <1>1, <2>1, NumbersDiffer DEF TypeOK
  <2>3. TypeOK'
    BY <1>1, <2>1, <2>2 DEF TypeOK
  <2> QED
    BY <2>1, <2>3 DEF TypeInv
<1>5. CASE EndSide
  <2>1. /\ phase = "after" /\ phase' \in {"target", "match"} /\ pattern' = 0 /\ listing' = FALSE
        /\ side' \in Side /\ braced' \in BOOLEAN
        /\ UNCHANGED <<said, negs, matches, family, idx, first, hit, found>>
    BY <1>1, <1>5 DEF EndSide, folding, TypeOK
  <2>2. pattern' \in 0..(Width - 1)
    BY <2>1, WidthAssumption
  <2>3. Len(matches[side']) \in Nat
    BY <1>1, <2>1, Typed
  <2>4. idx' \in 1..(Len(matches'[side']) + 1) /\ first' \in 0..(idx' - 1)
    BY <2>1, <2>3 DEF TypeInv
  <2>5. TypeOK'
    BY <1>1, <2>1, <2>2, <2>4 DEF TypeOK
  <2> QED
    BY <2>1, <2>5 DEF TypeInv
<1> QED
  BY <1>2, <1>3, <1>4, <1>5 DEF Read

LEMMA ScanTypes ==
  ASSUME TypeInv, Scan
  PROVE  TypeInv'
<1>1. /\ TypeOK /\ Len(matches[side]) \in Nat /\ hit \in BOOLEAN
      /\ idx \in 1..(Len(matches[side]) + 1) /\ first \in 0..(idx - 1)
      /\ side \in Side /\ "destination" \in Side /\ "source" \in Side
  BY Typed DEF TypeInv, TypeOK, Side
<1>2. UNCHANGED <<said, negs, matches, family, braced, listing, pattern>>
  BY DEF Scan, Match1, NextAlternative, SideMatches, SideFails, Lookup1, LookedUp, Fold, reading
<1>3. ASSUME NEW answer \in BOOLEAN, Fold(answer), phase \in {"match", "lookup"},
             found' \in Targets \cup {NoTarget}
      PROVE  TypeInv'
  <2>1. /\ idx <= Len(matches[side]) /\ idx' = idx + 1 /\ phase' = phase /\ side' = side
        /\ first' = IF first = 0 THEN idx ELSE first
        /\ hit' \in BOOLEAN
    BY <1>1, <1>3 DEF Fold
  <2>2. idx' \in 1..(Len(matches'[side']) + 1) /\ first' \in 0..(idx' - 1)
    BY <1>1, <1>2, <2>1
  <2>3. TypeOK'
    BY <1>1, <1>2, <1>3, <2>1, <2>2 DEF TypeOK
  <2> QED
    BY <1>3, <2>1, <2>3 DEF TypeInv
<1>4. CASE Match1
  <2>1. (~hit /\ MatchScan(idx)) \in BOOLEAN
    OBVIOUS
  <2> QED
    BY <1>1, <1>3, <1>4, <2>1 DEF Match1, TypeOK
<1>5. CASE Lookup1
  <2>1. idx \in 1..Len(matches[side]) /\ found' = Latest(idx) /\ phase = "lookup"
    BY <1>1, <1>5 DEF Lookup1, Fold
  <2>2. matches[side][idx].member \in Member
    BY <1>1, <2>1, Typed
  <2>3. found' \in Targets \cup {NoTarget}
    BY <1>1, <2>1, <2>2, MemberTyped DEF Latest, TypeOK
  <2>4. (~hit /\ LookupScan(idx)) \in BOOLEAN
    OBVIOUS
  <2> QED
    BY <1>3, <1>5, <2>1, <2>3, <2>4 DEF Lookup1
<1>6. ASSUME \/ idx' = 1 /\ first' = 0 /\ hit' = FALSE
             \/ idx' = idx /\ first' = 0 /\ hit' = FALSE /\ side' = side
             \/ UNCHANGED <<idx, first, hit, side>>,
             side' \in Side, phase' \in {"match", "lookup", "yes", "no"}, found' = found
      PROVE  TypeInv'
  <2>1. Len(matches[side']) \in Nat /\ matches' = matches
    BY <1>1, <1>2, <1>6, Typed
  <2>2. \/ idx' = 1 /\ first' = 0
        \/ idx' = idx /\ first' \in {0, first} /\ side' = side
    BY <1>6
  <2>3. idx' \in 1..(Len(matches'[side']) + 1) /\ first' \in 0..(idx' - 1)
    <3>1. CASE idx' = 1 /\ first' = 0
      BY <2>1, <3>1
    <3>2. CASE idx' = idx /\ first' \in {0, first} /\ side' = side
      BY <1>1, <2>1, <3>2
    <3> QED
      BY <2>2, <3>1, <3>2
  <2>4. hit' \in BOOLEAN
    BY <1>1, <1>6
  <2>5. TypeOK'
    BY <1>1, <1>2, <1>6, <2>3, <2>4 DEF TypeOK
  <2> QED
    BY <1>6, <2>5 DEF TypeInv
<1>7. CASE NextAlternative
  <2>1. /\ idx' = idx /\ first' = 0 /\ hit' = FALSE /\ side' = side /\ found' = found
        /\ phase' \in {"match", "lookup"}
    BY <1>7 DEF NextAlternative
  <2> QED
    BY <1>1, <1>6, <2>1
<1>8. CASE SideMatches
  <2>1. /\ idx' = 1 /\ first' = 0 /\ hit' = FALSE /\ side' = "destination" /\ found' = found
        /\ phase' \in {"match", "lookup"}
    BY <1>8 DEF SideMatches, Rewind
  <2> QED
    BY <1>1, <1>6, <2>1
<1>9. CASE SideFails
  <2>1. UNCHANGED <<idx, first, hit, side, found>> /\ phase' = "no"
    BY <1>9 DEF SideFails, folding
  <2> QED
    BY <1>1, <1>6, <2>1
<1>10. CASE LookedUp
  <2>1. /\ phase' \in {"lookup", "yes"} /\ found' = found /\ side' \in Side
        /\ \/ idx' = 1 /\ first' = 0 /\ hit' = FALSE
           \/ UNCHANGED <<idx, first, hit, side>>
    BY <1>1, <1>10 DEF LookedUp, Rewind, folding
  <2> QED
    BY <1>6, <2>1
<1> QED
  BY <1>4, <1>5, <1>7, <1>8, <1>9, <1>10 DEF Scan

\* The types, and that no scan begins before the text is read.
THEOREM TargetTypes == Spec => []TypeOK
<1>1. Init => TypeInv
  BY InitTypes
<1>2. TypeInv /\ [Next]_vars => TypeInv'
  <2>1. ASSUME TypeInv, UNCHANGED vars PROVE TypeInv'
    BY <2>1 DEF TypeInv, TypeOK, vars, reading, folding
  <2> QED
    BY <2>1, ReadTypes, ScanTypes DEF Next
<1>3. TypeInv => TypeOK
  BY DEF TypeInv
<1> QED
  BY <1>1, <1>2, <1>3, PTL DEF Spec
-----------------------------------------------------------------------------
(* The parser numbers the alternatives.                                    *)

\* The side being read has the alternatives it had, the last one being read under
\* neg, and its number is that of the last match exactly when the match is its own.
Reads(s, read, neg) ==
  LET last == Len(said[s]) IN
  /\ s = side /\ read = Len(negs'[s]) /\ read > 0 /\ Len(negs[s]) <= read
  /\ negs'[s][read] = neg
  /\ \A k \in 1..Len(negs[s]) : negs'[s][k] = negs[s][k]
  /\ last > 0 => (Alternative(s, last) = read <=> matches[s][last].pattern = pattern)

\* A target that goes on with the last alternative exactly when its number is
\* that of the last match keeps its side placed.
LEMMA OnTargetPlaces ==
  ASSUME TypeOK, NEW s \in Side, Placed(s),
         NEW resolved \in Resolutions, NEW neg \in BOOLEAN, OnTarget(resolved, neg),
         negs' \in [Side -> Seq(BOOLEAN)], NEW read \in Nat, Reads(s, read, neg),
         NEW last \in Nat, last = Len(said[s]),
         NEW more \in Nat, more = Len(Emitted(resolved, neg))
  PROVE  /\ Len(said'[s]) = last + more
         /\ \A i \in 1..last : said'[s][i] = said[s][i] /\ matches'[s][i] = matches[s][i]
         /\ \A i \in (last + 1)..(last + more) :
              said'[s][i].alternative = read /\ matches'[s][i].pattern = pattern
         /\ Placed(s)'
<1>1. PICK members : members = Emitted(resolved, neg)
  OBVIOUS
<1>2. more = Len(members)
  BY <1>1
<1>3. /\ Len(matches[s]) = last /\ Len(negs[s]) \in Nat
      /\ read > 0 /\ Len(negs[s]) <= read /\ negs'[s][read] = neg
      /\ \A k \in 1..Len(negs[s]) : negs'[s][k] = negs[s][k]
      /\ last > 0 => (Alternative(s, last) = read <=> matches[s][last].pattern = pattern)
  BY Typed DEF Placed, Reads
<1>s. s = side /\ read = Len(negs'[s])
  BY DEF Reads
<1>4. /\ Len(said'[s]) = last + more /\ Len(matches'[s]) = last + more
      /\ \A i \in 1..last : said'[s][i] = said[s][i] /\ matches'[s][i] = matches[s][i]
      /\ \A i \in 1..more :
           /\ said'[s][last + i] = [alternative |-> read, member |-> members[i]]
           /\ matches'[s][last + i] = [neg |-> neg, pattern |-> pattern, member |-> members[i]]
  <2>1. negs'[side] \in Seq(BOOLEAN) /\ Len(matches[side]) = last /\ Len(said[side]) = last
        /\ Len(Emitted(resolved, neg)) = more /\ Len(negs'[side]) = read
    BY <1>1, <1>2, <1>3, <1>s
  <2>2. /\ Len(said'[side]) = Len(said[side]) + Len(Emitted(resolved, neg))
        /\ Len(matches'[side]) = Len(matches[side]) + Len(Emitted(resolved, neg))
        /\ \A i \in 1..Len(said[side]) : said'[side][i] = said[side][i]
        /\ \A i \in 1..Len(matches[side]) : matches'[side][i] = matches[side][i]
        /\ \A i \in 1..Len(Emitted(resolved, neg)) :
             /\ said'[side][Len(said[side]) + i] =
                  [alternative |-> Len(negs'[side]), member |-> Emitted(resolved, neg)[i]]
             /\ matches'[side][Len(matches[side]) + i] =
                  [neg |-> neg, pattern |-> pattern, member |-> Emitted(resolved, neg)[i]]
    BY <2>1, TargetAppended
  <2>3. /\ Len(said'[side]) = last + more /\ Len(matches'[side]) = last + more
        /\ \A i \in 1..last : said'[side][i] = said[side][i] /\ matches'[side][i] = matches[side][i]
        /\ \A i \in 1..more :
             /\ said'[side][last + i] = [alternative |-> read, member |-> Emitted(resolved, neg)[i]]
             /\ matches'[side][last + i] =
                  [neg |-> neg, pattern |-> pattern, member |-> Emitted(resolved, neg)[i]]
    BY <2>1, <2>2
  <2> QED
    BY <1>1, <1>s, <2>3
<1>5. ASSUME NEW i \in (last + 1)..(last + more)
      PROVE  /\ said'[s][i].alternative = read /\ matches'[s][i].pattern = pattern
             /\ matches'[s][i].neg = neg /\ matches'[s][i].member = said'[s][i].member
  <2>1. i - last \in 1..more /\ last + (i - last) = i
    BY <1>2
  <2>2. /\ said'[s][i] = [alternative |-> read, member |-> members[i - last]]
        /\ matches'[s][i] = [neg |-> neg, pattern |-> pattern, member |-> members[i - last]]
    BY <1>4, <2>1
  <2> QED
    BY <2>2
<1>6. ASSUME NEW i \in 1..last
      PROVE  /\ said'[s][i].alternative = Alternative(s, i) /\ Alternative(s, i) \in 1..Len(negs[s])
             /\ matches'[s][i].member = said'[s][i].member
             /\ matches'[s][i].neg = negs'[s][Alternative(s, i)]
  <2>1. /\ said'[s][i] = said[s][i] /\ matches'[s][i] = matches[s][i]
        /\ Alternative(s, i) \in 1..Len(negs[s]) /\ matches[s][i].member = said[s][i].member
        /\ matches[s][i].neg = negs[s][Alternative(s, i)]
    BY <1>4 DEF Placed
  <2>2. negs'[s][Alternative(s, i)] = negs[s][Alternative(s, i)]
    BY <1>3, <2>1
  <2> QED
    BY <2>1, <2>2 DEF Alternative
<1>7. ASSUME NEW i \in 1..(last + more)
      PROVE  /\ said'[s][i].alternative \in 1..read
             /\ matches'[s][i].member = said'[s][i].member
             /\ matches'[s][i].neg = negs'[s][said'[s][i].alternative]
  <2>1. CASE i \in 1..last
    BY <1>3, <1>6, <2>1
  <2>2. CASE i \in (last + 1)..(last + more)
    BY <1>3, <1>5, <2>2
  <2> QED
    BY <2>1, <2>2
<1>8. ASSUME NEW i \in 1..(last + more), NEW j \in 1..(last + more), i <= j
      PROVE  said'[s][i].alternative <= said'[s][j].alternative
  <2>1. CASE j \in 1..last
    <3>1. i \in 1..last /\ Alternative(s, i) <= Alternative(s, j)
      BY <1>8, <2>1 DEF Placed
    <3> QED
      BY <1>6, <2>1, <3>1
  <2>2. CASE j \in (last + 1)..(last + more)
    <3>1. said'[s][j].alternative = read /\ said'[s][i].alternative \in 1..read
      BY <1>5, <1>7, <2>2
    <3> QED
      BY <3>1
  <2> QED
    BY <2>1, <2>2
<1>9. ASSUME NEW i \in 2..(last + more)
      PROVE  said'[s][i].alternative = said'[s][i - 1].alternative
               <=> matches'[s][i].pattern = matches'[s][i - 1].pattern
  <2>1. CASE i \in 2..last
    <3>1. i \in 1..last /\ i - 1 \in 1..last
      BY <2>1
    <3>2. /\ said'[s][i] = said[s][i] /\ said'[s][i - 1] = said[s][i - 1]
          /\ matches'[s][i] = matches[s][i] /\ matches'[s][i - 1] = matches[s][i - 1]
      BY <1>4, <3>1
    <3>3. Alternative(s, i) = Alternative(s, i - 1)
            <=> matches[s][i].pattern = matches[s][i - 1].pattern
      BY <2>1 DEF Placed
    <3> QED
      BY <3>2, <3>3 DEF Alternative
  <2>2. CASE i = last + 1
    <3>1. last > 0 /\ i - 1 = last /\ last \in 1..last
      BY <1>9, <2>2
    <3>2. said'[s][i].alternative = read /\ matches'[s][i].pattern = pattern
      <4>1. i \in (last + 1)..(last + more)
        BY <1>9, <2>2
      <4> QED
        BY <1>5, <4>1
    <3>3. said'[s][last].alternative = Alternative(s, last) /\ matches'[s][last] = matches[s][last]
      BY <1>4, <1>6, <3>1
    <3> QED
      BY <1>3, <3>1, <3>2, <3>3
  <2>3. CASE i \in (last + 2)..(last + more)
    <3>1. i \in (last + 1)..(last + more) /\ i - 1 \in (last + 1)..(last + more)
      BY <1>2, <2>3
    <3> QED
      BY <1>5, <3>1
  <2> QED
    BY <1>2, <2>1, <2>2, <2>3
<1>10. Placed(s)'
  BY <1>4, <1>s, <1>7, <1>8, <1>9 DEF Placed, Alternative
<1> QED
  BY <1>4, <1>5, <1>10

\* What is said of a side, and what a packet is to it, stays as long as they do.
LEMMA Rigid ==
  ASSUME NEW s, said'[s] = said[s], negs'[s] = negs[s], matches'[s] = matches[s],
         family' = family
  PROVE  /\ Placed(s)' <=> Placed(s)
         /\ NegatedEmitted(s)' <=> NegatedEmitted(s)
         /\ Holding(s)' = Holding(s)
         /\ SideHolds(s)' <=> SideHolds(s)
         /\ Lookups(s)' = Lookups(s)
         /\ \A i : Alternative(s, i)' = Alternative(s, i)
         /\ \A k : AlternativeHolds(s, k)' <=> AlternativeHolds(s, k)
         /\ \A n : Passed(s, n)' <=> Passed(s, n)
         /\ \A n, t : LastBefore(s, n, t)' <=> LastBefore(s, n, t)
<1>1. \A i : Alternative(s, i)' = Alternative(s, i)
  BY DEF Alternative
<1>2. Holding(s)' = Holding(s)
  BY DEF Holding
<1>3. \A k : AlternativeHolds(s, k)' <=> AlternativeHolds(s, k)
  BY <1>2 DEF AlternativeHolds
<1>4. SideHolds(s)' <=> SideHolds(s)
  BY <1>3 DEF SideHolds
<1>5. Lookups(s)' = Lookups(s)
  BY <1>2, <1>3 DEF Lookups
<1>6. Placed(s)' <=> Placed(s)
  BY DEF Placed, Alternative
<1>7. NegatedEmitted(s)' <=> NegatedEmitted(s)
  BY <1>1 DEF NegatedEmitted
<1>8. \A n : Passed(s, n)' <=> Passed(s, n)
  BY <1>1, <1>3 DEF Passed
<1>9. \A n, t : LastBefore(s, n, t)' <=> LastBefore(s, n, t)
  BY <1>5 DEF LastBefore
<1> QED
  BY <1>1, <1>2, <1>3, <1>4, <1>5, <1>6, <1>7, <1>8, <1>9
\* While the text is read nothing is said of a packet yet.
LEMMA ReadingIsPlacing ==
  ASSUME TypeInv', phase' \in {"target", "after"}, found' = NoTarget,
         \A s \in Side : Placed(s)' /\ NegatedEmitted(s)', Placing'
  PROVE  IInv'
BY DEF IInv, MatchIsMeaning, TargetIsLastLookup

\* A target that is read keeps the places.
LEMMA OnTargetKeeps ==
  ASSUME IInv, phase \in {"target", "after"}, NEW s \in Side,
         NEW resolved \in Resolutions, NEW neg \in BOOLEAN, OnTarget(resolved, neg),
         TypeInv', NEW read \in Nat, Reads(s, read, neg), read <= MaxAlternatives,
         \A o \in Side \ {s} : negs'[o] = negs[o],
         NEW last \in Nat, last = Len(said[s]),
         MaxAlternatives <= Width => pattern = read - 1,
         \A i \in 1..last : Alternative(s, i) = read => matches[s][i].pattern = pattern,
         \A k \in 1..read : negs'[s][k] => k <= Len(negs[s]) \/ (neg /\ k = read)
  PROVE  IInv'
<1>1. PICK more \in Nat : more = Len(Emitted(resolved, neg))
  BY EmittedTyped
<1>2. /\ TypeOK /\ Placed(s) /\ Placing /\ NegatedEmitted(s) /\ found = NoTarget
      /\ negs' \in [Side -> Seq(BOOLEAN)] /\ Len(negs[s]) \in Nat
  BY Typed DEF IInv, TypeInv, TypeOK
<1>r. /\ s = side /\ read = Len(negs'[s]) /\ read > 0 /\ Len(negs[s]) <= read
      /\ \A k \in 1..Len(negs[s]) : negs'[s][k] = negs[s][k]
  BY DEF Reads
<1>3. /\ Len(said'[s]) = last + more
      /\ \A i \in 1..last : said'[s][i] = said[s][i] /\ matches'[s][i] = matches[s][i]
      /\ \A i \in (last + 1)..(last + more) :
           said'[s][i].alternative = read /\ matches'[s][i].pattern = pattern
      /\ Placed(s)'
  <2>1. TypeOK /\ Placed(s) /\ negs' \in [Side -> Seq(BOOLEAN)] /\ Reads(s, read, neg)
        /\ OnTarget(resolved, neg)
    BY <1>2
  <2>2. Len(said'[s]) = last + more
    <3>1. negs'[side] \in Seq(BOOLEAN)
      BY <1>2, <1>r
    <3>2. Len(said'[side]) = Len(said[side]) + Len(Emitted(resolved, neg))
      BY <2>1, <3>1, TargetAppended
    <3> QED
      BY <1>1, <1>r, <3>2
  <2>3. Placed(s)'
    BY <1>1, <2>1, OnTargetPlaces, SMTT(60)
  <2>4. \A i \in 1..last : said'[s][i] = said[s][i] /\ matches'[s][i] = matches[s][i]
    BY <1>1, <2>1, OnTargetPlaces
  <2>5. \A i \in (last + 1)..(last + more) :
           said'[s][i].alternative = read /\ matches'[s][i].pattern = pattern
    BY <1>1, <2>1, OnTargetPlaces
  <2> QED
    BY <2>2, <2>3, <2>4, <2>5
<1>4. /\ phase' = "after" /\ side' = s /\ pattern' = pattern /\ found' = NoTarget /\ family' = family
      /\ \A o \in Side \ {s} : said'[o] = said[o] /\ matches'[o] = matches[o]
  <2>1. negs'[side] \in Seq(BOOLEAN)
    BY <1>2, <1>r
  <2>2. \A o \in Side \ {side} : said'[o] = said[o] /\ matches'[o] = matches[o]
    BY <1>2, <2>1, TargetAppended
  <2> QED
    BY <1>2, <1>r, <2>2 DEF OnTarget
<1>5. more = 0 => ~neg /\ resolved = <<>>
  BY <1>1, EmittedTyped
<1>6. \A i \in 1..last : said'[s][i].alternative = Alternative(s, i) /\ Alternative(s, i) \in 1..Len(negs[s])
  BY <1>2, <1>3 DEF Placed, Alternative
<1>7. NegatedEmitted(s)'
  <2> SUFFICES ASSUME NEW k \in 1..read, negs'[s][k]
               PROVE  \E i \in 1..(last + more) : said'[s][i].alternative = k
    BY <1>3, <1>r DEF NegatedEmitted, Alternative
  <2>1. CASE k <= Len(negs[s])
    <3>1. k \in 1..Len(negs[s]) /\ negs[s][k]
      BY <1>r, <2>1
    <3>2. PICK i \in 1..last : Alternative(s, i) = k
      BY <1>2, <3>1 DEF NegatedEmitted
    <3> QED
      BY <1>6, <3>2
  <2>2. CASE neg /\ k = read
    <3>1. last + 1 \in (last + 1)..(last + more)
      BY <1>5, <2>2
    <3>2. last + 1 \in 1..(last + more) /\ said'[s][last + 1].alternative = read
      BY <1>3, <3>1, SMTT(20)
    <3> QED
      BY <2>2, <3>2
  <2> QED
    BY <2>1, <2>2
<1>8. \A o \in Side : Placed(o)' /\ NegatedEmitted(o)'
  <2> SUFFICES ASSUME NEW o \in Side, o # s PROVE Placed(o)' /\ NegatedEmitted(o)'
    BY <1>3, <1>7
  <2>1. said'[o] = said[o] /\ negs'[o] = negs[o] /\ matches'[o] = matches[o] /\ family' = family
    BY <1>4
  <2> QED
    BY <2>1, Rigid DEF IInv
<1>9. ASSUME MaxAlternatives <= Width, NEW i \in 1..(last + more)
      PROVE  matches'[s][i].pattern = said'[s][i].alternative - 1
  <2>1. CASE i \in 1..last
    <3>1. matches[s][i].pattern = Alternative(s, i) - 1
      BY <1>2, <1>r, <1>9, <2>1 DEF Placing
    <3> QED
      BY <1>3, <1>6, <2>1, <3>1
  <2>2. CASE i \in (last + 1)..(last + more)
    BY <1>3, <1>9, <2>2
  <2> QED
    BY <1>1, <2>1, <2>2
<1>10. ASSUME <<>> \notin Resolutions
       PROVE  last + more > 0 /\ said'[s][last + more].alternative = read
  <2>1. more > 0
    BY <1>1, <1>5, <1>10
  <2>2. last + more \in (last + 1)..(last + more)
    BY <2>1
  <2> QED
    BY <1>3, <2>1, <2>2
<1>11. ASSUME NEW o \in Side, o # s, s = "source"
       PROVE  negs'[o] = <<>> /\ said'[o] = <<>> /\ matches'[o] = <<>>
  BY <1>2, <1>r, <1>4, <1>11 DEF Placing
<1>12. ASSUME NEW i \in 1..(last + more), said'[s][i].alternative = read
       PROVE  matches'[s][i].pattern = pattern
  <2>1. CASE i \in 1..last
    BY <1>3, <1>6, <1>12, <2>1
  <2>2. CASE i \in (last + 1)..(last + more)
    BY <1>3, <2>2
  <2> QED
    BY <1>1, <2>1, <2>2
<1>13. Placing'
  BY <1>3, <1>r, <1>4, <1>9, <1>10, <1>11, <1>12 DEF Placing, Alternative
<1> QED
  BY <1>4, <1>8, <1>13, ReadingIsPlacing
\* The last match is of the alternative being read exactly when their numbers are
\* equal: this is what needs the numbers to be distinct.
LEMMA ElementKeeps ==
  ASSUME IInv, Distinct, NEW resolved \in Resolutions, NEW neg \in BOOLEAN,
         Element(resolved, neg), TypeInv'
  PROVE  IInv'
<1>1. /\ TypeOK /\ Placed(side) /\ Placing /\ phase = "target" /\ side \in Side
      /\ Len(negs[side]) < MaxAlternatives /\ OnTarget(resolved, neg)
      /\ negs' = [negs EXCEPT ![side] = Append(@, neg)]
  BY DEF Element, IInv, TypeInv, TypeOK
<1>2. PICK s \in Side : s = side
  BY <1>1
<1>3. PICK read \in Nat : read = Len(negs[s]) + 1
  BY <1>1, Typed
<1>4. PICK last \in Nat : last = Len(said[s])
  BY <1>1, Typed
<1>5. /\ Len(negs'[s]) = read /\ negs'[s][read] = neg
      /\ \A k \in 1..Len(negs[s]) : negs'[s][k] = negs[s][k]
      /\ \A o \in Side \ {s} : negs'[o] = negs[o]
  BY <1>1, <1>2, <1>3, ElementAppends
<1>6. \A i \in 1..last : Alternative(s, i) \in 1..(read - 1)
  BY <1>1, <1>2, <1>3, <1>4 DEF Placed
<1>7. read <= MaxAlternatives /\ (MaxAlternatives <= Width => pattern = read - 1)
  <2>1. MaxAlternatives <= Width => pattern = Len(negs[side]) \/ Len(negs[side]) = MaxAlternatives
    BY <1>1 DEF Placing
  <2> QED
    BY <1>1, <1>2, <1>3, <2>1, BoundsAssumption
<1>8. ASSUME last > 0 PROVE matches[s][last].pattern # pattern
  <2>1. CASE MaxAlternatives <= Width
    <3>1. matches[s][last].pattern = Alternative(s, last) - 1
      BY <1>1, <1>2, <1>4, <1>8, <2>1 DEF Placing
    <3>2. Alternative(s, last) \in 1..(read - 1)
      BY <1>6, <1>8
    <3> QED
      BY <1>7, <2>1, <3>1, <3>2
  <2>2. CASE <<>> \notin Resolutions
    BY <1>1, <1>2, <1>4, <1>8, <2>2 DEF Placing
  <2> QED
    BY <2>1, <2>2 DEF Distinct
<1>9. Reads(s, read, neg)
  <2>1. last > 0 => Alternative(s, last) # read
    BY <1>6
  <2> QED
    BY <1>2, <1>3, <1>4, <1>5, <1>8, <2>1 DEF Reads
<1>10. \A i \in 1..last : Alternative(s, i) = read => matches[s][i].pattern = pattern
  BY <1>6
<1>11. \A k \in 1..read : negs'[s][k] => k <= Len(negs[s]) \/ (neg /\ k = read)
  BY <1>1, <1>3, <1>5
<1> QED
  BY <1>1, <1>4, <1>5, <1>7, <1>9, <1>10, <1>11, OnTargetKeeps, SMTT(20)

LEMMA ListMemberKeeps ==
  ASSUME IInv, Distinct, NEW resolved \in Resolutions, ListMember(resolved), TypeInv'
  PROVE  IInv'
<1>1. PICK neg : neg = negs[side][Len(negs[side])]
  OBVIOUS
<1>2. /\ TypeOK /\ Placed(side) /\ Placing /\ phase = "after" /\ side \in Side
      /\ Len(negs[side]) > 0 /\ OnTarget(resolved, neg) /\ negs' = negs
  BY <1>1 DEF ListMember, IInv, TypeInv, TypeOK
<1>3. PICK s \in Side : s = side
  BY <1>2
<1>4. PICK read \in Nat : read = Len(negs[s])
  BY <1>2, Typed
<1>5. PICK last \in Nat : last = Len(said[s])
  BY <1>2, Typed
<1>6. neg \in BOOLEAN
  BY <1>1, <1>2, Typed
<1>7. \A i \in 1..last : Alternative(s, i) \in 1..read
  BY <1>2, <1>3, <1>4, <1>5 DEF Placed
<1>8. /\ read <= MaxAlternatives /\ (MaxAlternatives <= Width => pattern = read - 1)
      /\ \A i \in 1..last : Alternative(s, i) = read => matches[s][i].pattern = pattern
  BY <1>2, <1>3, <1>4, <1>5 DEF Placing
<1>9. ASSUME last > 0, Alternative(s, last) # read PROVE matches[s][last].pattern # pattern
  <2>1. CASE MaxAlternatives <= Width
    <3>1. matches[s][last].pattern = Alternative(s, last) - 1
      BY <1>2, <1>3, <1>5, <1>9, <2>1 DEF Placing
    <3>2. Alternative(s, last) \in 1..read
      BY <1>7, <1>9
    <3> QED
      BY <1>8, <1>9, <2>1, <3>1, <3>2
  <2>2. CASE <<>> \notin Resolutions
    BY <1>2, <1>3, <1>4, <1>5, <1>9, <2>2 DEF Placing
  <2> QED
    BY <2>1, <2>2 DEF Distinct
<1>10. Reads(s, read, neg)
  <2>1. last > 0 => (Alternative(s, last) = read <=> matches[s][last].pattern = pattern)
    BY <1>8, <1>9
  <2> QED
    BY <1>1, <1>2, <1>3, <1>4, <1>5, <2>1 DEF Reads
<1>11. /\ \A k \in 1..read : negs'[s][k] => k <= Len(negs[s]) \/ (neg /\ k = read)
       /\ \A o \in Side \ {s} : negs'[o] = negs[o]
  BY <1>2, <1>4
<1> QED
  BY <1>2, <1>5, <1>6, <1>8, <1>10, <1>11, OnTargetKeeps
LEMMA OrKeeps ==
  ASSUME IInv, Or, TypeInv'
  PROVE  IInv'
<1>1. /\ TypeOK /\ Placing /\ phase = "after" /\ phase' = "target" /\ side \in Side
      /\ Len(negs[side]) > 0 /\ pattern' = (pattern + 1) % Width /\ found' = NoTarget
      /\ UNCHANGED <<said, negs, matches, family, side>>
  BY DEF Or, NextPattern, IInv, TypeInv, TypeOK
<1>2. PICK s \in Side : s = side
  BY <1>1
<1>3. PICK read \in Nat : read = Len(negs[s])
  BY <1>1, Typed
<1>4. PICK last \in Nat : last = Len(said[s])
  BY <1>1, Typed
<1>5. \A o \in Side : Placed(o)' /\ NegatedEmitted(o)'
  <2> SUFFICES ASSUME NEW o \in Side PROVE Placed(o)' /\ NegatedEmitted(o)'
    OBVIOUS
  <2>1. said'[o] = said[o] /\ negs'[o] = negs[o] /\ matches'[o] = matches[o] /\ family' = family
    BY <1>1
  <2> QED
    BY <2>1, Rigid DEF IInv
<1>6. /\ read > 0 /\ read <= MaxAlternatives /\ (MaxAlternatives <= Width => pattern = read - 1)
      /\ MaxAlternatives <= Width => \A i \in 1..last : matches[s][i].pattern = Alternative(s, i) - 1
      /\ <<>> \notin Resolutions => last > 0 /\ Alternative(s, last) = read
      /\ \A i \in 1..last : Alternative(s, i) = read => matches[s][i].pattern = pattern
      /\ \A o \in Side : o # s /\ s = "source" => negs[o] = <<>> /\ said[o] = <<>> /\ matches[o] = <<>>
  BY <1>1, <1>2, <1>3, <1>4 DEF Placing
<1>7. pattern' # pattern
  BY <1>1, NumbersDiffer DEF TypeOK
<1>8. ASSUME MaxAlternatives <= Width PROVE pattern' = read \/ read = MaxAlternatives
  <2>1. Width \in Nat /\ MaxAlternatives \in Nat /\ pattern + 1 = read
    BY <1>6, <1>8, WidthAssumption, BoundsAssumption
  <2>2. CASE read < Width
    <3>1. read % Width = read
      BY <2>1, <2>2
    <3> QED
      BY <1>1, <2>1, <3>1
  <2>3. CASE read >= Width
    BY <1>6, <1>8, <2>1, <2>3
  <2> QED
    BY <2>1, <2>2, <2>3
<1>9. ASSUME <<>> \notin Resolutions, last > 0 PROVE matches[s][last].pattern # pattern'
  <2>1. matches[s][last].pattern = pattern
    BY <1>6, <1>9
  <2> QED
    BY <1>7, <2>1
<1>10. \A i : Alternative(s, i)' = Alternative(s, i)
  BY <1>1 DEF Alternative
<1>11. Placing'
  BY <1>1, <1>2, <1>3, <1>4, <1>6, <1>8, <1>9, <1>10 DEF Placing, Alternative
<1> QED
  BY <1>1, <1>5, <1>11, ReadingIsPlacing

LEMMA EndSideKeeps ==
  ASSUME IInv, EndSide, TypeInv'
  PROVE  IInv'
<1>1. /\ TypeOK /\ Placing /\ phase = "after" /\ side \in Side /\ pattern' = 0
      /\ found' = NoTarget /\ idx' = 1 /\ first' = 0 /\ hit' = hit /\ ~hit
      /\ UNCHANGED <<said, negs, matches, family>>
  BY DEF EndSide, folding, IInv, TypeInv, TypeOK
<1>2. \A o \in Side : Placed(o)' /\ NegatedEmitted(o)'
  <2> SUFFICES ASSUME NEW o \in Side PROVE Placed(o)' /\ NegatedEmitted(o)'
    OBVIOUS
  <2>1. said'[o] = said[o] /\ negs'[o] = negs[o] /\ matches'[o] = matches[o] /\ family' = family
    BY <1>1
  <2> QED
    BY <2>1, Rigid DEF IInv
<1>3. CASE side = "source"
  <2>1. side' = "destination" /\ phase' = "target" /\ "destination" \in Side
    BY <1>3 DEF EndSide, Side
  <2>2. negs["destination"] = <<>> /\ said["destination"] = <<>> /\ matches["destination"] = <<>>
    BY <1>1, <1>3, <2>1 DEF Placing
  <2>3. Len(negs'[side']) = 0 /\ Len(said'[side']) = 0
    BY <1>1, <2>1, <2>2
  <2>4. Placing'
    BY <1>1, <2>1, <2>3, BoundsAssumption DEF Placing
  <2> QED
    BY <1>1, <1>2, <2>1, <2>4, ReadingIsPlacing
<1>4. CASE side = "destination"
  <2>1. side' = "source" /\ phase' = "match"
    BY <1>4 DEF EndSide
  <2>2. Folded'
    BY <1>1 DEF Folded, Passed
  <2> QED
    BY <1>1, <1>2, <2>1, <2>2 DEF IInv, Placing, MatchIsMeaning, TargetIsLastLookup
<1> QED
  BY <1>1, <1>3, <1>4 DEF Side

LEMMA ReadKeeps ==
  ASSUME IInv, Distinct, Read
  PROVE  IInv'
<1>1. TypeInv'
  BY ReadTypes DEF IInv
<1> QED
  BY <1>1, ElementKeeps, ListMemberKeeps, OrKeeps, EndSideKeeps DEF Read
-----------------------------------------------------------------------------
(* What a scan asks of a match.                                            *)

\* Both scans ask of a match what its member means for the address.
LEMMA ScansAgree ==
  ASSUME TypeOK, Placed(side), NEW i \in 1..Len(said[side])
  PROVE  /\ MatchScan(i) <=> i \in Holding(side)
         /\ LookupScan(i) <=> i \in Holding(side)
         /\ matches[side][i].member = said[side][i].member
         /\ said[side][i].member.found \in Targets \cup {NoTarget}
<1>1. PICK m : m = said[side][i].member
  OBVIOUS
<1>2. PICK fam : fam = family[side]
  OBVIOUS
<1>3. side \in Side /\ family \in [Side -> Family] /\ DOMAIN said[side] = 1..Len(said[side])
  BY Typed DEF TypeOK
<1>4. matches[side][i].member = m /\ m \in Member /\ fam \in {"v4", "v6", "neither"}
  BY <1>1, <1>2, <1>3, Typed DEF Placed, Family
<1>5. i \in Holding(side) <=> Satisfies(m, fam)
  BY <1>1, <1>2, <1>3 DEF Holding
<1>6. /\ m.kind \in {"any", "me", "me6", "net4", "net6", "table", "none"} /\ m.holds \in BOOLEAN
      /\ m.found \in Targets \cup {NoTarget}
  BY <1>4, MemberTyped DEF Kind
<1>7. MatchScan(i) <=> IF fam = "v6" THEN Matches6(m) ELSE Matches4(m, fam)
  BY <1>2, <1>4 DEF MatchScan
<1>8. LookupScan(i) <=> CASE m.kind = "table" -> m.found # NoTarget
                         [] m.kind = "net4" -> fam = "v4" /\ m.holds
                         [] m.kind = "net6" -> fam = "v6" /\ m.holds
                         [] m.kind = "any" -> TRUE
                         [] OTHER -> Named(m, fam)
  BY <1>2, <1>4 DEF LookupScan
<1>9. MatchScan(i) <=> Satisfies(m, fam)
  <2>1. CASE m.kind = "any"
    BY <1>7, <2>1 DEF Matches6, Matches4, Satisfies
  <2>2. CASE m.kind = "me"
    BY <1>4, <1>7, <2>2 DEF Matches6, Matches4, Named, Satisfies
  <2>3. CASE m.kind = "me6"
    BY <1>4, <1>7, <2>3 DEF Matches6, Matches4, Named, Satisfies
  <2>4. CASE m.kind = "net4"
    BY <1>4, <1>7, <2>4 DEF Matches6, Matches4, Satisfies
  <2>5. CASE m.kind = "net6"
    BY <1>4, <1>7, <2>5 DEF Matches6, Matches4, Satisfies
  <2>6. CASE m.kind = "table"
    BY <1>7, <2>6 DEF Matches6, Matches4, Named, Satisfies
  <2>7. CASE m.kind = "none"
    BY <1>7, <2>7 DEF Matches6, Matches4, Named, Satisfies
  <2> QED
    BY <1>6, <2>1, <2>2, <2>3, <2>4, <2>5, <2>6, <2>7
<1>10. LookupScan(i) <=> Satisfies(m, fam)
  <2>1. CASE m.kind = "any"
    BY <1>8, <2>1 DEF Satisfies
  <2>2. CASE m.kind = "me"
    BY <1>4, <1>8, <2>2 DEF Named, Satisfies
  <2>3. CASE m.kind = "me6"
    BY <1>8, <2>3 DEF Named, Satisfies
  <2>4. CASE m.kind = "net4"
    BY <1>8, <2>4 DEF Satisfies
  <2>5. CASE m.kind = "net6"
    BY <1>8, <2>5 DEF Satisfies
  <2>6. CASE m.kind = "table"
    BY <1>8, <2>6 DEF Satisfies
  <2>7. CASE m.kind = "none"
    BY <1>8, <2>7 DEF Named, Satisfies
  <2> QED
    BY <1>6, <2>1, <2>2, <2>3, <2>4, <2>5, <2>6, <2>7
<1> QED
  BY <1>1, <1>4, <1>5, <1>6, <1>9, <1>10

-----------------------------------------------------------------------------
(* One alternative of a scan.                                              *)

\* What a scan starts from.
LEMMA Scanning ==
  ASSUME IInv
  PROVE  /\ TypeOK /\ side \in Side /\ Placed(side) /\ NegatedEmitted(side) /\ hit \in BOOLEAN
         /\ Len(said[side]) \in Nat /\ Len(matches[side]) = Len(said[side])
         /\ idx \in 1..(Len(said[side]) + 1) /\ first \in 0..(idx - 1)
         /\ DOMAIN said[side] = 1..Len(said[side]) /\ DOMAIN negs[side] = 1..Len(negs[side])
         /\ Len(negs[side]) \in Nat
         /\ \A i \in 1..Len(said[side]) : Alternative(side, i) \in 1..Len(negs[side])
         /\ Holding(side) \subseteq 1..Len(said[side])
<1>1. TypeOK /\ side \in Side /\ Placed(side) /\ NegatedEmitted(side) /\ hit \in BOOLEAN
  BY DEF IInv, TypeInv, TypeOK
<1>2. Len(matches[side]) = Len(said[side])
  BY <1>1 DEF Placed
<1>3. idx \in 1..(Len(matches[side]) + 1) /\ first \in 0..(idx - 1)
  BY <1>1 DEF TypeOK
<1>4. \A i \in 1..Len(said[side]) : Alternative(side, i) \in 1..Len(negs[side])
  BY <1>1 DEF Placed
<1>5. DOMAIN said[side] = 1..Len(said[side])
  BY <1>1, Typed
<1>6. Holding(side) \subseteq 1..Len(said[side])
  BY <1>5 DEF Holding
<1> QED
  BY <1>1, <1>2, <1>3, <1>4, <1>5, <1>6, Typed

\* The numbers tell whether the match at idx is of the alternative being folded.
LEMMA FoldGoesOn ==
  ASSUME IInv, Folded, first # 0
  PROVE  GoesOn <=> idx <= Len(said[side]) /\ Alternative(side, idx) = Alternative(side, first)
<1>1. /\ Placed(side) /\ Len(said[side]) \in Nat /\ Len(matches[side]) = Len(said[side])
      /\ idx \in 1..(Len(said[side]) + 1) /\ first \in 1..(idx - 1)
  BY Scanning
<1>2. ASSUME idx <= Len(said[side])
      PROVE  Alternative(side, idx) = Alternative(side, first)
               <=> matches[side][idx].pattern = matches[side][first].pattern
  <2>1. idx - 1 \in first..(idx - 1) /\ idx \in 2..Len(said[side])
    BY <1>1, <1>2
  <2>2. /\ Alternative(side, idx - 1) = Alternative(side, first)
        /\ matches[side][idx - 1].pattern = matches[side][first].pattern
    BY <2>1 DEF Folded
  <2>3. Alternative(side, idx) = Alternative(side, idx - 1)
          <=> matches[side][idx].pattern = matches[side][idx - 1].pattern
    BY <1>1, <2>1 DEF Placed
  <2> QED
    BY <2>2, <2>3
<1> QED
  BY <1>1, <1>2 DEF GoesOn

\* Once the alternative is over, its matches are those folded, and it holds when the
\* scan says so.
LEMMA FoldedHolds ==
  ASSUME IInv, Folded, Over
  PROVE  /\ first \in 1..(idx - 1) /\ first \in 1..Len(said[side])
         /\ \A i \in 1..Len(said[side]) :
              /\ i < first => Alternative(side, i) < Alternative(side, first)
              /\ i \in first..(idx - 1) => Alternative(side, i) = Alternative(side, first)
              /\ i >= idx => Alternative(side, i) > Alternative(side, first)
         /\ AlternativeHolds(side, Alternative(side, first)) <=> PatternHolds
<1>1. /\ Placed(side) /\ Len(said[side]) \in Nat /\ Len(matches[side]) = Len(said[side])
      /\ idx \in 1..(Len(said[side]) + 1) /\ first # 0 /\ first \in 1..(idx - 1)
      /\ first \in 1..Len(said[side]) /\ hit \in BOOLEAN /\ ~GoesOn /\ Len(negs[side]) \in Nat
      /\ \A i \in 1..Len(said[side]) : Alternative(side, i) \in 1..Len(negs[side])
  BY Scanning DEF Over
<1>2. ASSUME NEW i \in 1..Len(said[side])
      PROVE  /\ i < first => Alternative(side, i) < Alternative(side, first)
             /\ i \in first..(idx - 1) => Alternative(side, i) = Alternative(side, first)
             /\ i >= idx => Alternative(side, i) > Alternative(side, first)
  <2>1. ASSUME i < first PROVE Alternative(side, i) < Alternative(side, first)
    BY <1>1, <2>1 DEF Folded, Passed
  <2>2. ASSUME i \in first..(idx - 1) PROVE Alternative(side, i) = Alternative(side, first)
    BY <1>1, <2>2 DEF Folded
  <2>3. ASSUME i >= idx PROVE Alternative(side, i) > Alternative(side, first)
    <3>1. idx \in 1..Len(said[side]) /\ first <= idx
      BY <1>1, <2>3
    <3>2. Alternative(side, idx) # Alternative(side, first)
      BY <1>1, <3>1, FoldGoesOn
    <3>3. /\ Alternative(side, first) <= Alternative(side, idx)
          /\ Alternative(side, idx) <= Alternative(side, i)
      BY <1>1, <2>3, <3>1 DEF Placed
    <3>4. /\ Alternative(side, first) \in Nat /\ Alternative(side, idx) \in Nat
          /\ Alternative(side, i) \in Nat
      BY <1>1, <3>1
    <3> QED
      BY <3>2, <3>3, <3>4
  <2> QED
    BY <2>1, <2>2, <2>3
<1>3. hit <=> \E i \in Holding(side) : said[side][i].alternative = Alternative(side, first)
  <2>1. hit <=> \E i \in first..(idx - 1) : i \in Holding(side)
    BY <1>1 DEF Folded
  <2>2. ASSUME NEW i \in Holding(side), said[side][i].alternative = Alternative(side, first)
        PROVE  i \in first..(idx - 1)
    <3>1. i \in 1..Len(said[side]) /\ Alternative(side, i) = Alternative(side, first)
      BY <2>2, Scanning DEF Alternative
    <3>2. Alternative(side, i) \in Nat /\ Alternative(side, first) \in Nat
      BY <1>1, <3>1
    <3> QED
      BY <1>1, <1>2, <3>1, <3>2
  <2>3. ASSUME NEW i \in first..(idx - 1), i \in Holding(side)
        PROVE  said[side][i].alternative = Alternative(side, first)
    BY <1>1, <2>3 DEF Folded, Alternative
  <2> QED
    BY <2>1, <2>2, <2>3
<1>4. matches[side][first].neg = negs[side][Alternative(side, first)]
  BY <1>1 DEF Placed
<1>5. negs[side][Alternative(side, first)] \in BOOLEAN
  BY <1>1, Typed, Scanning
<1>6. AlternativeHolds(side, Alternative(side, first)) <=> PatternHolds
  BY <1>1, <1>3, <1>4, <1>5 DEF AlternativeHolds, PatternHolds, Over
<1> QED
  BY <1>1, <1>2, <1>6
\* An alternative that does not hold is passed.
LEMMA NextPasses ==
  ASSUME IInv, Folded, Over, ~PatternHolds
  PROVE  Passed(side, idx)
<1>1. /\ first \in 1..(idx - 1) /\ first \in 1..Len(said[side]) /\ Len(said[side]) \in Nat
      /\ idx \in 1..(Len(said[side]) + 1) /\ Len(negs[side]) \in Nat
      /\ \A i \in 1..Len(said[side]) : Alternative(side, i) \in 1..Len(negs[side])
      /\ ~AlternativeHolds(side, Alternative(side, first))
  BY FoldedHolds, Scanning
<1>2. ASSUME NEW i \in 1..(idx - 1)
      PROVE  /\ ~AlternativeHolds(side, Alternative(side, i))
             /\ idx <= Len(said[side]) => Alternative(side, i) < Alternative(side, idx)
  <2>1. CASE i < first
    <3>1. i \in 1..(first - 1) /\ i \in 1..Len(said[side])
      BY <1>1, <2>1
    <3>2. ~AlternativeHolds(side, Alternative(side, i)) /\ Alternative(side, i) < Alternative(side, first)
      BY <1>1, <3>1 DEF Folded, Passed
    <3>3. ASSUME idx <= Len(said[side]) PROVE Alternative(side, i) < Alternative(side, idx)
      <4>1. idx \in 1..Len(said[side])
        BY <1>1, <3>3
      <4>2. Alternative(side, idx) > Alternative(side, first)
        BY <1>1, <4>1, FoldedHolds
      <4>3. /\ Alternative(side, i) \in Nat /\ Alternative(side, idx) \in Nat
            /\ Alternative(side, first) \in Nat
        BY <1>1, <3>1, <4>1
      <4> QED
        BY <3>2, <4>2, <4>3
    <3> QED
      BY <3>2, <3>3
  <2>2. CASE i >= first
    <3>1. i \in first..(idx - 1) /\ i \in 1..Len(said[side])
      BY <1>1, <2>2
    <3>2. Alternative(side, i) = Alternative(side, first)
      BY <3>1, FoldedHolds
    <3>3. ASSUME idx <= Len(said[side]) PROVE Alternative(side, first) < Alternative(side, idx)
      <4>1. idx \in 1..Len(said[side])
        BY <1>1, <3>3
      <4>2. Alternative(side, idx) > Alternative(side, first)
        BY <1>1, <4>1, FoldedHolds
      <4>3. Alternative(side, idx) \in Nat /\ Alternative(side, first) \in Nat
        BY <1>1, <4>1
      <4> QED
        BY <4>2, <4>3
    <3> QED
      BY <1>1, <3>2, <3>3
  <2> QED
    BY <1>1, <2>1, <2>2
<1> QED
  BY <1>2 DEF Passed

\* No alternative before the one that begins at n holds, those without a match
\* neither: they are not negated.
LEMMA NoneBefore ==
  ASSUME IInv, NEW n \in 1..Len(said[side]), Passed(side, n),
         NEW l \in 1..(Alternative(side, n) - 1)
  PROVE  ~AlternativeHolds(side, l)
<1>1. /\ Placed(side) /\ NegatedEmitted(side) /\ TypeOK /\ side \in Side
      /\ Len(said[side]) \in Nat /\ Len(negs[side]) \in Nat
      /\ \A i \in 1..Len(said[side]) : Alternative(side, i) \in 1..Len(negs[side])
      /\ Holding(side) \subseteq 1..Len(said[side])
  BY Scanning
<1>2. l \in 1..Len(negs[side])
  BY <1>1
<1>3. CASE \E i \in 1..Len(said[side]) : Alternative(side, i) = l
  <2>1. PICK i \in 1..Len(said[side]) : Alternative(side, i) = l
    BY <1>3
  <2>2. ~(n <= i)
    <3>1. n <= i => Alternative(side, n) <= Alternative(side, i)
      BY <1>1 DEF Placed
    <3> QED
      BY <1>1, <2>1, <3>1
  <2>3. i \in 1..(n - 1)
    BY <1>1, <2>2
  <2> QED
    BY <2>1, <2>3 DEF Passed
<1>4. CASE ~\E i \in 1..Len(said[side]) : Alternative(side, i) = l
  <2>1. ~negs[side][l]
    BY <1>1, <1>2, <1>4 DEF NegatedEmitted
  <2>2. ~\E i \in Holding(side) : said[side][i].alternative = l
    BY <1>1, <1>4 DEF Alternative
  <2>3. negs[side][l] = FALSE
    BY <1>1, <1>2, <2>1, Typed
  <2> QED
    BY <2>2, <2>3 DEF AlternativeHolds
<1> QED
  BY <1>3, <1>4

\* A side whose matches are all passed does not hold.
LEMMA FailsIsMeant ==
  ASSUME IInv, first = 0, Folded, idx > Len(said[side])
  PROVE  ~SideHolds(side)
<1>1. /\ Placed(side) /\ NegatedEmitted(side) /\ TypeOK /\ side \in Side
      /\ Len(said[side]) \in Nat /\ Len(negs[side]) \in Nat /\ idx = Len(said[side]) + 1
      /\ DOMAIN negs[side] = 1..Len(negs[side])
      /\ Holding(side) \subseteq 1..Len(said[side]) /\ Passed(side, idx)
  BY Scanning DEF Folded
<1> SUFFICES ASSUME NEW k \in 1..Len(negs[side]) PROVE ~AlternativeHolds(side, k)
  BY <1>1 DEF SideHolds
<1>2. CASE \E i \in 1..Len(said[side]) : Alternative(side, i) = k
  BY <1>1, <1>2 DEF Passed
<1>3. CASE ~\E i \in 1..Len(said[side]) : Alternative(side, i) = k
  <2>1. ~negs[side][k]
    BY <1>1, <1>3 DEF NegatedEmitted
  <2>2. ~\E i \in Holding(side) : said[side][i].alternative = k
    BY <1>1, <1>3 DEF Alternative
  <2>3. negs[side][k] = FALSE
    BY <1>1, <2>1, Typed
  <2> QED
    BY <2>2, <2>3 DEF AlternativeHolds
<1> QED
  BY <1>2, <1>3

\* An alternative that holds decides its side.
LEMMA HoldsIsMeant ==
  ASSUME IInv, Folded, PatternHolds
  PROVE  SideHolds(side)
<1>1. first \in 1..Len(said[side]) /\ AlternativeHolds(side, Alternative(side, first))
  BY FoldedHolds DEF PatternHolds
<1>2. Alternative(side, first) \in DOMAIN negs[side]
  BY <1>1, Scanning
<1> QED
  BY <1>1, <1>2 DEF SideHolds

-----------------------------------------------------------------------------
(* What the second scan looks up.                                          *)

\* A table is looked up for its target when no member of its alternative holds
\* before it.
LEMMA LooksUp ==
  ASSUME IInv, Folded, idx <= Len(said[side]), first = 0 \/ GoesOn
  PROVE  idx \in Lookups(side) <=> ~hit /\ matches[side][idx].member.found # NoTarget
<1>1. /\ Placed(side) /\ TypeOK /\ side \in Side /\ idx \in 1..Len(said[side])
      /\ Len(said[side]) \in Nat /\ first \in 0..(idx - 1) /\ hit \in BOOLEAN
      /\ DOMAIN said[side] = 1..Len(said[side]) /\ Len(negs[side]) \in Nat
      /\ \A i \in 1..Len(said[side]) : Alternative(side, i) \in 1..Len(negs[side])
      /\ Holding(side) \subseteq 1..Len(said[side])
  BY Scanning
<1>2. matches[side][idx].member = said[side][idx].member
  BY <1>1, ScansAgree
<1>3. PICK k : k = Alternative(side, idx)
  OBVIOUS
<1>4. PICK start : start = IF first = 0 THEN idx ELSE first
  OBVIOUS
<1>5. /\ start \in 1..Len(said[side]) /\ start <= idx /\ Passed(side, start)
      /\ Alternative(side, start) = k
      /\ \A i \in start..(idx - 1) : Alternative(side, i) = k
      /\ hit <=> \E i \in start..(idx - 1) : i \in Holding(side)
  <2>1. CASE first = 0
    BY <1>1, <1>3, <1>4, <2>1 DEF Folded
  <2>2. CASE first # 0
    <3>1. Alternative(side, idx) = Alternative(side, first)
      BY <2>2, FoldGoesOn
    <3>2. \A i \in first..(idx - 1) : Alternative(side, i) = k
      BY <1>3, <2>2, <3>1 DEF Folded
    <3> QED
      BY <1>1, <1>3, <1>4, <2>2, <3>1, <3>2 DEF Folded
  <2> QED
    BY <2>1, <2>2
<1>6. \A l \in 1..(k - 1) : ~AlternativeHolds(side, l)
  BY <1>5, NoneBefore
<1>7. ASSUME NEW j \in Holding(side), j < start PROVE said[side][j].alternative # k
  <2>1. j \in 1..(start - 1) /\ j \in 1..Len(said[side])
    BY <1>1, <1>5, <1>7
  <2>2. Alternative(side, j) < Alternative(side, start)
    BY <1>5, <2>1 DEF Passed
  <2>3. Alternative(side, j) \in Nat /\ Alternative(side, start) \in Nat
    BY <1>1, <1>5, <2>1
  <2> QED
    BY <1>5, <2>2, <2>3 DEF Alternative
<1>8. hit <=> \E j \in Holding(side) : j < idx /\ said[side][j].alternative = k
  <2>1. ASSUME NEW j \in Holding(side), j < idx, said[side][j].alternative = k
        PROVE  j \in start..(idx - 1)
    BY <1>1, <1>5, <1>7, <2>1
  <2>2. ASSUME NEW j \in start..(idx - 1), j \in Holding(side)
        PROVE  j < idx /\ said[side][j].alternative = k
    BY <1>1, <1>5, <2>2 DEF Alternative
  <2> QED
    BY <1>5, <2>1, <2>2
<1>9. idx \in Lookups(side) <=>
        /\ said[side][idx].member.found # NoTarget
        /\ \A j \in Holding(side) : j < idx => said[side][j].alternative # k
        /\ \A l \in 1..(k - 1) : ~AlternativeHolds(side, l)
  BY <1>1, <1>3 DEF Lookups, Alternative
<1> QED
  BY <1>2, <1>6, <1>8, <1>9

\* The target moves on with the scan.
LEMMA TargetMovesOn ==
  ASSUME IInv, Folded, idx <= Len(said[side]), first = 0 \/ GoesOn,
         LastBefore(side, idx, found)
  PROVE  LastBefore(side, idx + 1, Latest(idx))
<1>1. /\ idx \in 1..Len(said[side]) /\ Len(said[side]) \in Nat /\ TypeOK /\ Placed(side)
      /\ DOMAIN said[side] = 1..Len(said[side])
  BY Scanning
<1>2. PICK asked : asked = Lookups(side)
  OBVIOUS
<1>3. \A i \in asked : i \in 1..Len(said[side])
  BY <1>1, <1>2 DEF Lookups
<1>4. idx \in asked <=> ~hit /\ matches[side][idx].member.found # NoTarget
  BY <1>2, LooksUp
<1>5. matches[side][idx].member = said[side][idx].member
  BY <1>1, ScansAgree
<1>6. CASE idx \in asked
  <2>1. Latest(idx) = said[side][idx].member.found
    BY <1>4, <1>5, <1>6 DEF Latest
  <2>2. /\ idx \in {i \in asked : i < idx + 1}
        /\ \A j \in {i \in asked : i < idx + 1} : j <= idx
    BY <1>1, <1>3, <1>6
  <2> QED
    BY <1>2, <2>1, <2>2 DEF LastBefore
<1>7. CASE idx \notin asked
  <2>1. Latest(idx) = found
    BY <1>4, <1>7 DEF Latest
  <2>2. {i \in asked : i < idx + 1} = {i \in asked : i < idx}
    BY <1>1, <1>3, <1>7
  <2> QED
    BY <1>2, <2>1, <2>2 DEF LastBefore
<1> QED
  BY <1>6, <1>7

\* t is the target of the last lookup of a side.
Last(s, t) ==
  IF Lookups(s) = {} THEN t = NoTarget
  ELSE \E i \in Lookups(s) : t = said[s][i].member.found /\ \A j \in Lookups(s) : j <= i

\* A scan that is over has seen every lookup.
LEMMA NoneFurther ==
  ASSUME IInv, Folded, PatternHolds \/ (first = 0 /\ idx > Len(said[side])),
         LastBefore(side, idx, found)
  PROVE  Last(side, found) /\ (found = NoTarget <=> Lookups(side) = {})
<1>1. /\ TypeOK /\ side \in Side /\ Len(said[side]) \in Nat /\ Len(negs[side]) \in Nat
      /\ idx \in 1..(Len(said[side]) + 1) /\ DOMAIN said[side] = 1..Len(said[side])
      /\ \A i \in 1..Len(said[side]) : Alternative(side, i) \in 1..Len(negs[side])
  BY Scanning
<1>2. ASSUME NEW i \in Lookups(side) PROVE i \in 1..Len(said[side]) /\ i < idx
  <2>1. i \in 1..Len(said[side])
    BY <1>1 DEF Lookups
  <2>2. ASSUME PatternHolds, i >= idx PROVE FALSE
    <3>1. /\ first \in 1..Len(said[side]) /\ AlternativeHolds(side, Alternative(side, first))
          /\ Alternative(side, i) > Alternative(side, first)
      BY <2>1, <2>2, FoldedHolds DEF PatternHolds
    <3>2. Alternative(side, i) \in Nat /\ Alternative(side, first) \in 1..Len(negs[side])
      BY <1>1, <2>1, <3>1
    <3>3. Alternative(side, first) \in 1..(Alternative(side, i) - 1)
      BY <1>1, <3>1, <3>2
    <3>4. \A l \in 1..(Alternative(side, i) - 1) : ~AlternativeHolds(side, l)
      BY DEF Lookups, Alternative
    <3> QED
      BY <3>1, <3>3, <3>4
  <2> QED
    BY <1>1, <2>1, <2>2
<1>3. {i \in Lookups(side) : i < idx} = Lookups(side)
  BY <1>2
<1>4. Last(side, found)
  BY <1>3 DEF LastBefore, Last
<1>5. \A i \in Lookups(side) : said[side][i].member.found # NoTarget
  BY DEF Lookups
<1> QED
  BY <1>4, <1>5 DEF Last
-----------------------------------------------------------------------------
(* The scans.                                                              *)

\* A match that is asked, or not for one that holds already, is folded.
LEMMA FoldKeeps ==
  ASSUME IInv, Folded, NEW answer \in BOOLEAN, Fold(answer),
         answer <=> ~hit /\ idx \in Holding(side)
  PROVE  Folded' /\ first' # 0 /\ (first = 0 \/ GoesOn) /\ idx <= Len(said[side])
<1>1. /\ Len(said[side]) \in Nat /\ Len(matches[side]) = Len(said[side]) /\ hit \in BOOLEAN
      /\ idx \in 1..(Len(said[side]) + 1) /\ first \in 0..(idx - 1)
  BY Scanning
<1>2. /\ idx <= Len(said[side]) /\ (first = 0 \/ GoesOn)
      /\ first' = (IF first = 0 THEN idx ELSE first) /\ hit' = (hit \/ answer) /\ idx' = idx + 1
      /\ side' = side /\ said' = said /\ negs' = negs /\ matches' = matches /\ family' = family
  BY <1>1 DEF Fold, reading
<1>3. PICK s, f, n : s = side /\ f = first' /\ n = idx
  OBVIOUS
<1>4. /\ Passed(s, f)' <=> Passed(s, f)
      /\ \A i : Alternative(s, i)' = Alternative(s, i)
      /\ Holding(s)' = Holding(s)
  BY <1>2, Rigid
<1>5. f \in 1..n /\ Passed(s, f)
  <2>1. CASE first = 0
    BY <1>1, <1>2, <1>3, <2>1 DEF Folded
  <2>2. CASE first # 0
    BY <1>1, <1>2, <1>3, <2>2 DEF Folded
  <2> QED
    BY <2>1, <2>2
<1>6. \A i \in f..n : /\ Alternative(s, i) = Alternative(s, f)
                      /\ matches[s][i].pattern = matches[s][f].pattern
  <2>1. CASE first = 0
    BY <1>1, <1>2, <1>3, <2>1
  <2>2. CASE first # 0
    <3>1. \A i \in first..(idx - 1) : /\ Alternative(side, i) = Alternative(side, first)
                                     /\ matches[side][i].pattern = matches[side][first].pattern
      BY <2>2 DEF Folded
    <3>2. /\ Alternative(side, idx) = Alternative(side, first)
          /\ matches[side][idx].pattern = matches[side][first].pattern
      BY <1>2, <2>2, FoldGoesOn DEF GoesOn
    <3>3. \A i \in first..idx : i \in first..(idx - 1) \/ i = idx
      BY <1>1
    <3> QED
      BY <1>2, <1>3, <2>2, <3>1, <3>2, <3>3
  <2> QED
    BY <2>1, <2>2
<1>7. hit' <=> \E i \in f..n : i \in Holding(s)
  <2>1. hit' <=> hit \/ idx \in Holding(side)
    BY <1>1, <1>2
  <2>2. CASE first = 0
    <3>1. ~hit /\ \A i \in f..n : i = n
      BY <1>1, <1>2, <1>3, <2>2 DEF Folded
    <3> QED
      BY <1>3, <1>5, <2>1, <3>1
  <2>3. CASE first # 0
    <3>1. hit <=> \E i \in first..(idx - 1) : i \in Holding(side)
      BY <1>1, <2>3 DEF Folded
    <3>2. (\E i \in first..idx : i \in Holding(side))
            <=> (\E i \in first..(idx - 1) : i \in Holding(side)) \/ idx \in Holding(side)
      BY <1>1
    <3> QED
      BY <1>2, <1>3, <2>1, <2>3, <3>1, <3>2
  <2> QED
    BY <2>2, <2>3
<1>8. /\ Passed(side, first)'
      /\ \A i : Alternative(side, i)' = Alternative(s, i)
      /\ Holding(side)' = Holding(s)
  <2>1. Passed(s, f)'
    BY <1>4, <1>5
  <2>2. Passed(side, first)'
    BY <1>2, <1>3, <2>1 DEF Passed
  <2>3. Holding(side)' = Holding(s)
    BY <1>2, <1>3 DEF Holding
  <2> QED
    BY <1>2, <1>3, <2>2, <2>3 DEF Alternative
<1>9. f..n = first'..(idx' - 1) /\ first' # 0
  BY <1>1, <1>2, <1>3, <1>5
<1>10. Alternative(side, first)' = Alternative(s, f)
  BY <1>2, <1>3 DEF Alternative
<1>11. Folded'
  BY <1>2, <1>3, <1>6, <1>7, <1>8, <1>9, <1>10, ZenonT(20) DEF Folded
<1> QED
  BY <1>2, <1>9, <1>11
\* The sides stay as they are while they are scanned.
LEMMA ScanIsRigid ==
  ASSUME IInv, UNCHANGED <<said, negs, matches, family>>, NEW s \in Side
  PROVE  /\ Placed(s)' /\ NegatedEmitted(s)'
         /\ Holding(s)' = Holding(s)
         /\ SideHolds(s)' <=> SideHolds(s)
         /\ Lookups(s)' = Lookups(s) /\ LastFound(s)' = LastFound(s)
         /\ \A n : Passed(s, n)' <=> Passed(s, n)
         /\ \A n, t : LastBefore(s, n, t)' <=> LastBefore(s, n, t)
<1>1. /\ said'[s] = said[s] /\ negs'[s] = negs[s] /\ matches'[s] = matches[s] /\ family' = family
      /\ Placed(s) /\ NegatedEmitted(s)
  BY DEF IInv
<1>2. Lookups(s)' = Lookups(s)
  BY <1>1, Rigid
<1>3. LastFound(s)' = LastFound(s)
  BY <1>1, <1>2 DEF LastFound
<1> QED
  BY <1>1, <1>2, <1>3, Rigid

\* While the first scan goes on.
LEMMA MatchingIsKept ==
  ASSUME IInv, TypeInv', UNCHANGED <<said, negs, matches, family>>,
         phase' = "match", found' = NoTarget, Folded',
         side' = "destination" => SideHolds("source")
  PROVE  IInv'
<1>1. \A s \in Side : Placed(s)' /\ NegatedEmitted(s)'
  BY ScanIsRigid
<1>2. side' = "destination" => SideHolds("source")'
  BY ScanIsRigid DEF Side
<1> QED
  BY <1>1, <1>2 DEF IInv, Placing, MatchIsMeaning, TargetIsLastLookup

\* While the second one does.
LEMMA LookingUpIsKept ==
  ASSUME IInv, TypeInv', UNCHANGED <<said, negs, matches, family>>,
         phase' = "lookup", Folded', SideHolds("source"), SideHolds("destination"),
         NEW s \in Side, side' = s, LastBefore(s, idx', found'),
         s = "source" => Lookups("destination") = {}
  PROVE  IInv'
<1>1. \A o \in Side : Placed(o)' /\ NegatedEmitted(o)'
  BY ScanIsRigid
<1>2. "source" \in Side /\ "destination" \in Side
  BY DEF Side
<1>3. SideHolds("source")' /\ SideHolds("destination")'
  BY <1>2, ScanIsRigid
<1>4. PICK n, t : n = idx' /\ t = found'
  OBVIOUS
<1>5. LastBefore(s, n, t)'
  <2>1. LastBefore(s, n, t)
    BY <1>4
  <2> QED
    BY <2>1, ScanIsRigid
<1>6. LastBefore(s, idx, found)'
  BY <1>4, <1>5 DEF LastBefore
<1>7. s = "source" => Lookups("destination")' = {}
  BY <1>2, ScanIsRigid
<1>8. side' = "destination" => LastBefore("destination", idx, found)'
  BY <1>6
<1>9. side' = "source" => Lookups("destination")' = {} /\ LastBefore("source", idx, found)'
  BY <1>6, <1>7
<1> QED
  BY <1>1, <1>3, <1>8, <1>9 DEF IInv, Placing, MatchIsMeaning, TargetIsLastLookup

\* What the second scan knows of the lookups.
LEMMA LookingUp ==
  ASSUME IInv, phase = "lookup"
  PROVE  /\ SideHolds("source") /\ SideHolds("destination") /\ Folded
         /\ LastBefore(side, idx, found)
         /\ side = "source" => Lookups("destination") = {}
<1>1. side \in {"source", "destination"}
  BY Scanning DEF Side
<1> QED
  BY <1>1 DEF IInv, MatchIsMeaning

LEMMA MatchKeeps ==
  ASSUME IInv, TypeInv', phase = "match", UNCHANGED <<said, negs, matches, family>>,
         Match1 \/ NextAlternative \/ SideMatches \/ SideFails
  PROVE  IInv'
<1>1. /\ Folded /\ found = NoTarget /\ (side = "destination" => SideHolds("source"))
      /\ side \in {"source", "destination"} /\ "source" \in Side /\ "destination" \in Side
      /\ TypeOK /\ Placed(side) /\ Len(said[side]) \in Nat
  BY Scanning DEF IInv, Side
<1>2. CASE Match1
  <2>1. /\ Fold(~hit /\ MatchScan(idx)) /\ phase' = "match" /\ side' = side /\ found' = NoTarget
        /\ idx \in 1..Len(said[side])
    BY <1>1, <1>2, Scanning DEF Match1, Fold
  <2>2. PICK answer \in BOOLEAN : answer = (~hit /\ MatchScan(idx))
    OBVIOUS
  <2>3. answer <=> ~hit /\ idx \in Holding(side)
    BY <1>1, <2>1, <2>2, ScansAgree
  <2>4. Folded'
    BY <1>1, <2>1, <2>2, <2>3, FoldKeeps
  <2> QED
    BY <1>1, <2>1, <2>4, MatchingIsKept
<1>3. CASE NextAlternative
  <2>1. /\ first' = 0 /\ hit' = FALSE /\ idx' = idx /\ side' = side /\ phase' = "match"
        /\ found' = NoTarget /\ Over /\ ~PatternHolds
    BY <1>1, <1>3 DEF NextAlternative
  <2>2. PICK s, n : s \in Side /\ s = side /\ n = idx
    BY <1>1
  <2>3. Passed(s, n)'
    BY <1>1, <2>1, <2>2, NextPasses, ScanIsRigid
  <2>4. Passed(side, idx)'
    BY <2>1, <2>2, <2>3 DEF Passed
  <2>5. Folded'
    BY <2>1, <2>4 DEF Folded
  <2> QED
    BY <1>1, <2>1, <2>5, MatchingIsKept
<1>4. CASE SideMatches
  <2>1. /\ idx' = 1 /\ first' = 0 /\ hit' = FALSE /\ side' = "destination" /\ found' = NoTarget
        /\ phase' = (IF side = "source" THEN "match" ELSE "lookup") /\ SideHolds(side)
    BY <1>1, <1>4, HoldsIsMeant DEF SideMatches, Rewind
  <2>2. Folded'
    BY <2>1 DEF Folded, Passed
  <2>3. CASE side = "source"
    BY <1>1, <2>1, <2>2, <2>3, MatchingIsKept
  <2>4. CASE side = "destination"
    <3>1. LastBefore("destination", idx', found')
      <4>1. \A i \in Lookups("destination") : i \in 1..Len(said["destination"])
        BY <1>1, <2>4, Scanning DEF Lookups
      <4>2. {i \in Lookups("destination") : i < 1} = {}
        BY <4>1
      <4> QED
        BY <2>1, <4>2 DEF LastBefore
    <3> QED
      BY <1>1, <2>1, <2>2, <2>4, <3>1, LookingUpIsKept
  <2> QED
    BY <1>1, <2>3, <2>4
<1>5. CASE SideFails
  <2>1. phase' = "no" /\ first = 0 /\ idx > Len(said[side])
    BY <1>5, Scanning DEF SideFails
  <2>2. ~SideHolds(side)
    BY <1>1, <2>1, FailsIsMeant
  <2>3. ~(SideHolds("source")' /\ SideHolds("destination")')
    BY <1>1, <2>2, ScanIsRigid
  <2>4. \A s \in Side : Placed(s)' /\ NegatedEmitted(s)'
    BY ScanIsRigid
  <2> QED
    BY <2>1, <2>3, <2>4 DEF IInv, Placing, MatchIsMeaning, TargetIsLastLookup
<1> QED
  BY <1>2, <1>3, <1>4, <1>5

\* The target found last is the one the property names.
LEMMA LastIsChosen ==
  ASSUME NEW s, NEW t, Last(s, t), Lookups(s) \subseteq Nat
  PROVE  t = LastFound(s)
<1>1. CASE Lookups(s) = {}
  BY <1>1 DEF Last, LastFound
<1>2. CASE Lookups(s) # {}
  <2>1. PICK i \in Lookups(s) : t = said[s][i].member.found /\ \A j \in Lookups(s) : j <= i
    BY <1>2 DEF Last
  <2>2. PICK k : k = CHOOSE m \in Lookups(s) : \A j \in Lookups(s) : j <= m
    OBVIOUS
  <2>3. k \in Lookups(s) /\ \A j \in Lookups(s) : j <= k
    BY <2>1, <2>2
  <2>4. k = i
    BY <2>1, <2>3
  <2> QED
    BY <1>2, <2>1, <2>2, <2>4 DEF LastFound
<1> QED
  BY <1>1, <1>2
LEMMA LookupKeeps ==
  ASSUME IInv, TypeInv', phase = "lookup", UNCHANGED <<said, negs, matches, family>>,
         Lookup1 \/ NextAlternative \/ LookedUp
  PROVE  IInv'
<1>1. /\ Folded /\ SideHolds("source") /\ SideHolds("destination") /\ LastBefore(side, idx, found)
      /\ side = "source" => Lookups("destination") = {}
      /\ side \in {"source", "destination"} /\ "source" \in Side /\ "destination" \in Side
      /\ TypeOK /\ Placed(side) /\ Len(said[side]) \in Nat
  BY Scanning, LookingUp DEF Side
<1>2. PICK s \in Side : s = side
  BY <1>1
<1>3. CASE Lookup1
  <2>1. /\ Fold(~hit /\ LookupScan(idx)) /\ phase' = "lookup" /\ side' = side
        /\ found' = Latest(idx) /\ idx \in 1..Len(said[side]) /\ idx' = idx + 1
    BY <1>1, <1>3, Scanning DEF Lookup1, Fold
  <2>2. PICK answer \in BOOLEAN : answer = (~hit /\ LookupScan(idx))
    OBVIOUS
  <2>3. answer <=> ~hit /\ idx \in Holding(side)
    BY <1>1, <2>1, <2>2, ScansAgree
  <2>4. Folded' /\ (first = 0 \/ GoesOn) /\ idx <= Len(said[side])
    BY <1>1, <2>1, <2>2, <2>3, FoldKeeps
  <2>5. LastBefore(side, idx + 1, Latest(idx))
    BY <1>1, <2>4, TargetMovesOn
  <2>6. LastBefore(s, idx', found')
    BY <1>2, <2>1, <2>5
  <2> QED
    BY <1>1, <1>2, <2>1, <2>4, <2>6, LookingUpIsKept
<1>4. CASE NextAlternative
  <2>1. /\ first' = 0 /\ hit' = FALSE /\ idx' = idx /\ side' = side /\ phase' = "lookup"
        /\ found' = found /\ Over /\ ~PatternHolds
    BY <1>1, <1>4 DEF NextAlternative
  <2>2. PICK n : n = idx
    OBVIOUS
  <2>3. Passed(s, n)'
    BY <1>1, <1>2, <2>1, <2>2, NextPasses, ScanIsRigid
  <2>4. Passed(side, idx)'
    BY <1>2, <2>1, <2>2, <2>3 DEF Passed
  <2>5. Folded'
    BY <2>1, <2>4 DEF Folded
  <2>6. LastBefore(s, idx', found')
    BY <1>1, <1>2, <2>1
  <2> QED
    BY <1>1, <1>2, <2>1, <2>5, <2>6, LookingUpIsKept
<1>5. CASE LookedUp
  <2>1. /\ PatternHolds \/ (first = 0 /\ idx > Len(said[side]))
        /\ found' = found
        /\ \/ /\ side = "destination" /\ found = NoTarget /\ phase' = "lookup"
              /\ side' = "source" /\ idx' = 1 /\ first' = 0 /\ hit' = FALSE
           \/ (side = "source" \/ found # NoTarget) /\ phase' = "yes"
    BY <1>1, <1>5, Scanning DEF LookedUp, Rewind
  <2>2. Last(side, found) /\ (found = NoTarget <=> Lookups(side) = {})
    BY <1>1, <2>1, NoneFurther
  <2>3. CASE phase' = "lookup"
    <3>1. /\ side = "destination" /\ found = NoTarget /\ side' = "source" /\ idx' = 1
          /\ first' = 0 /\ hit' = FALSE
      BY <2>1, <2>3
    <3>2. Lookups("destination") = {}
      BY <2>2, <3>1
    <3>3. Folded'
      BY <3>1 DEF Folded, Passed
    <3>4. LastBefore("source", idx', found')
      <4>1. \A i \in Lookups("source") : i \in 1..Len(said["source"])
        BY <1>1, Typed DEF Lookups
      <4>2. {i \in Lookups("source") : i < 1} = {}
        BY <4>1
      <4> QED
        BY <2>1, <3>1, <4>2 DEF LastBefore
    <3> QED
      BY <1>1, <2>3, <3>1, <3>2, <3>3, <3>4, LookingUpIsKept
  <2>4. CASE phase' = "yes"
    <3>1. \A o \in Side : Placed(o)' /\ NegatedEmitted(o)'
      BY ScanIsRigid
    <3>2. SideHolds("source")' /\ SideHolds("destination")'
      BY <1>1, ScanIsRigid
    <3>3. IF Lookups("destination") = {} THEN side = "source" ELSE side = "destination"
      BY <1>1, <2>1, <2>2, <2>4
    <3>4. Lookups(side) \subseteq Nat
      BY <1>1, Scanning DEF Lookups
    <3>5. found = LastFound(side)
      BY <2>2, <3>4, LastIsChosen
    <3>6. \A o \in Side : Lookups(o)' = Lookups(o) /\ LastFound(o)' = LastFound(o)
      BY ScanIsRigid
    <3>7. /\ Lookups("destination")' = Lookups("destination")
          /\ LastFound("destination")' = LastFound("destination")
          /\ LastFound("source")' = LastFound("source")
      BY <1>1, <3>6
    <3>8. TargetIsLastLookup'
      BY <2>1, <3>3, <3>5, <3>7 DEF TargetIsLastLookup
    <3> QED
      BY <2>4, <3>1, <3>2, <3>8 DEF IInv, Placing, MatchIsMeaning
  <2> QED
    BY <2>1, <2>3, <2>4
<1> QED
  BY <1>3, <1>4, <1>5

LEMMA ScanKeeps ==
  ASSUME IInv, Scan
  PROVE  IInv'
<1>1. TypeInv'
  BY ScanTypes DEF IInv
<1>2. UNCHANGED <<said, negs, matches, family>>
  BY DEF Scan, Match1, NextAlternative, SideMatches, SideFails, Lookup1, LookedUp, Fold, reading
<1>3. \/ phase = "match" /\ (Match1 \/ NextAlternative \/ SideMatches \/ SideFails)
      \/ phase = "lookup" /\ (Lookup1 \/ NextAlternative \/ LookedUp)
  BY DEF Scan, Match1, NextAlternative, SideMatches, SideFails, Lookup1, LookedUp
<1> QED
  BY <1>1, <1>2, <1>3, MatchKeeps, LookupKeeps

LEMMA StutterKeeps ==
  ASSUME IInv, UNCHANGED vars
  PROVE  IInv'
<1>1. UNCHANGED <<said, negs, matches, family, braced, listing, pattern, phase, side,
                  idx, first, hit, found>>
  BY DEF vars, reading, folding
<1>2. /\ "source" \in Side /\ "destination" \in Side /\ side \in Side
  BY Scanning DEF Side
<1>3. \A s \in Side : Placed(s)' /\ NegatedEmitted(s)'
  BY <1>1, ScanIsRigid
<1>4. /\ SideHolds("source")' <=> SideHolds("source")
      /\ SideHolds("destination")' <=> SideHolds("destination")
      /\ Lookups("source")' = Lookups("source")
      /\ Lookups("destination")' = Lookups("destination")
  BY <1>1, <1>2, ScanIsRigid
<1>5. TypeInv' /\ (Placing' <=> Placing)
  BY <1>1 DEF IInv, TypeInv, TypeOK, Placing, Alternative
<1>6. Folded' <=> Folded
  <2>1. PICK s, n, f : s \in Side /\ s = side /\ n = idx /\ f = first
    BY <1>2
  <2>2. (Passed(s, n)' <=> Passed(s, n)) /\ (Passed(s, f)' <=> Passed(s, f))
    BY <1>1, <2>1, ScanIsRigid
  <2>3. /\ Passed(side, idx)' <=> Passed(side, idx)
        /\ Passed(side, first)' <=> Passed(side, first)
    BY <1>1, <2>1, <2>2 DEF Passed
  <2>4. Holding(side)' = Holding(side)
    BY <1>1 DEF Holding
  <2> QED
    BY <1>1, <2>3, <2>4 DEF Folded, Alternative
<1>7. \A s \in Side : LastBefore(s, idx, found)' <=> LastBefore(s, idx, found)
  <2>1. PICK n, t : n = idx /\ t = found
    OBVIOUS
  <2>2. \A s \in Side : LastBefore(s, n, t)' <=> LastBefore(s, n, t)
    BY <1>1, ScanIsRigid
  <2> QED
    BY <1>1, <2>1, <2>2 DEF LastBefore
<1>8. MatchIsMeaning' <=> MatchIsMeaning
  BY <1>1, <1>4 DEF MatchIsMeaning
<1>9. TargetIsLastLookup' <=> TargetIsLastLookup
  <2>1. /\ LastFound("source")' = LastFound("source")
        /\ LastFound("destination")' = LastFound("destination")
    BY <1>1, <1>2, ScanIsRigid
  <2> QED
    BY <1>1, <1>4, <2>1 DEF TargetIsLastLookup
<1> QED
  BY <1>1, <1>2, <1>3, <1>4, <1>5, <1>6, <1>7, <1>8, <1>9 DEF IInv

LEMMA InitIInv == Init => IInv
<1> SUFFICES ASSUME Init PROVE IInv
  OBVIOUS
<1>1. TypeInv
  BY InitTypes
<1>2. /\ said = [s \in Side |-> <<>>] /\ negs = [s \in Side |-> <<>>]
      /\ matches = [s \in Side |-> <<>>] /\ side = "source" /\ phase = "target"
      /\ pattern = 0 /\ found = NoTarget /\ side \in Side
  BY DEF Init, Side
<1>3. \A s \in Side : said[s] = <<>> /\ negs[s] = <<>> /\ matches[s] = <<>>
  BY <1>2
<1>4. \A s \in Side : Len(said[s]) = 0 /\ Len(negs[s]) = 0 /\ Len(matches[s]) = 0
  BY <1>3
<1>5. \A s \in Side : Placed(s) /\ NegatedEmitted(s)
  BY <1>4 DEF Placed, NegatedEmitted
<1>6. Placing
  BY <1>2, <1>3, <1>4, BoundsAssumption DEF Placing
<1> QED
  BY <1>1, <1>2, <1>5, <1>6 DEF IInv, MatchIsMeaning, TargetIsLastLookup

-----------------------------------------------------------------------------
\* The invariant of the numbering of the targets and of the two scans.
THEOREM TargetsInvariant == Distinct => (Spec => []IInv)
<1> SUFFICES ASSUME Distinct PROVE Spec => []IInv
  OBVIOUS
<1>1. Init => IInv
  BY InitIInv
<1>2. IInv /\ [Next]_vars => IInv'
  BY ReadKeeps, ScanKeeps, StutterKeeps DEF Next
<1> QED
  BY <1>1, <1>2, PTL DEF Spec

\* matchTargets4 and matchTargets6 answer what the text of the rule means: both
\* sides hold as the text puts them, for sides of any length and packets of any
\* family, as long as the numbers tell neighbours apart.
THEOREM ScanDecidesMeaning == Distinct => (Spec => []MatchIsMeaning)
<1> SUFFICES ASSUME Distinct PROVE Spec => []MatchIsMeaning
  OBVIOUS
<1>1. IInv => MatchIsMeaning
  BY DEF IInv
<1>2. Spec => []IInv
  BY TargetsInvariant
<1> QED
  BY <1>1, <1>2, PTL

\* lookupTargets, which scans the sides again, finds the entry the first scan
\* looked up last.
THEOREM SecondScanFindsLast == Distinct => (Spec => []TargetIsLastLookup)
<1> SUFFICES ASSUME Distinct PROVE Spec => []TargetIsLastLookup
  OBVIOUS
<1>1. IInv => TargetIsLastLookup
  BY DEF IInv
<1>2. Spec => []IInv
  BY TargetsInvariant
<1> QED
  BY <1>1, <1>2, PTL

=============================================================================
