------------------------------- MODULE IfMask -------------------------------
(***************************************************************************)
(* MatchIfMask (ifmask.go): whether an interface name matches the mask of  *)
(* a via option.  It walks the pattern and the name with one place to come *)
(* back to, after the last star, and remembers from where on no class      *)
(* closes.  Bytes are their codes, indexes count from 1.                   *)
(***************************************************************************)
EXTENDS Integers, Sequences

CONSTANTS
  PatternBytes, NameBytes,
  MaxPattern,   \* bound: the longest pattern
  MaxName       \* bound: the longest name

Bang == 33
Star == 42
Dash == 45
Question == 63
Open == 91
Backslash == 92
Close == 93
Caret == 94

ASSUME BytesAssumption == PatternBytes \cup NameBytes \subseteq 0..255
ASSUME BoundsAssumption == MaxPattern \in Nat /\ MaxName \in Nat

VARIABLES
  pattern, name,
  p, n,      \* patternIdx and nameIdx
  star,      \* where the last star is, 0 for none
  resume,    \* where in the name the run of that star ends
  literal,   \* from which place on a bracket is literal
  verdict    \* "none" while the loop runs

vars == <<pattern, name, p, n, star, resume, literal, verdict>>

UpTo(bytes, length) == UNION {[1..k -> bytes] : k \in 0..length}

Init ==
  /\ pattern \in UpTo(PatternBytes, MaxPattern) /\ name \in UpTo(NameBytes, MaxName)
  /\ p = 1 /\ n = 1 /\ star = 0 /\ resume = 0
  /\ literal = Len(pattern) + 1 /\ verdict = "none"

-----------------------------------------------------------------------------
\* A member of a class begins at idx: a byte, or a range of them up to the one at
\* Hi(idx). A backslash makes the next byte literal.
Lo(idx) == IF pattern[idx] = Backslash THEN idx + 1 ELSE idx
IsRange(idx) ==
  /\ Lo(idx) + 2 <= Len(pattern)
  /\ pattern[Lo(idx) + 1] = Dash /\ pattern[Lo(idx) + 2] # Close
Hi(idx) == IF IsRange(idx) THEN Lo(Lo(idx) + 2) ELSE Lo(idx)

\* The loop of rangeMatch from idx on, after the first member: the members up to
\* the closing bracket and the place behind it, 0 when the pattern ends before.
Members[idx \in Nat] ==
  IF idx > Len(pattern) THEN [rest |-> 0, members |-> {}]
  ELSE IF pattern[idx] = Close THEN [rest |-> idx + 1, members |-> {}]
  ELSE [rest |-> Members[Hi(idx) + 1].rest, members |-> {idx} \cup Members[Hi(idx) + 1].members]

\* The class whose bracket is at idx. A closing bracket is its first member.
Negated(idx) == idx < Len(pattern) /\ pattern[idx + 1] \in {Bang, Caret}
First(idx) == IF Negated(idx) THEN idx + 2 ELSE idx + 1
Closed(idx) == First(idx) <= Len(pattern) /\ Members[Hi(First(idx)) + 1].rest # 0
Behind(idx) == Members[Hi(First(idx)) + 1].rest

\* rangeMatch of that class.
RangeMatch(idx, c) ==
  LET members == {First(idx)} \cup Members[Hi(First(idx)) + 1].members
      matched == \E m \in members : pattern[Lo(m)] <= c /\ c <= pattern[Hi(m)]
  IN CASE ~Closed(idx) -> [result |-> "malformed", rest |-> 0]
       [] Closed(idx) /\ matched # Negated(idx) -> [result |-> "matched", rest |-> Behind(idx)]
       [] OTHER -> [result |-> "mismatch", rest |-> 0]

\* Mutant: a class that does not take the byte makes later brackets literal.
LiteralOnceUnmatched ==
  IF p < literal /\ RangeMatch(p, name[n]).result # "matched" THEN p ELSE literal

\* No later class can close within a suffix that a scan exhausted.
LiteralFrom ==
  IF p < literal /\ RangeMatch(p, name[n]).result = "malformed" THEN p ELSE literal

\* The place after the pattern's part that takes the byte at n, 0 when it does
\* not. A backslash at the end is itself, a malformed class its bracket.
Taken ==
  LET byte == pattern[p] IN
  CASE byte = Question -> p + 1
    [] byte = Open ->
         LET class == RangeMatch(p, name[n]) IN
         IF p < literal /\ class.result # "malformed" THEN class.rest
         ELSE IF name[n] = Open THEN p + 1 ELSE 0
    [] byte = Backslash ->
         IF p = Len(pattern) THEN (IF name[n] = Backslash THEN p + 1 ELSE 0)
         ELSE IF pattern[p + 1] = name[n] THEN p + 2 ELSE 0
    [] OTHER -> IF byte = name[n] THEN p + 1 ELSE 0

Going == verdict = "none" /\ n <= Len(name)
AtStar == p <= Len(pattern) /\ pattern[p] = Star
Takes == p <= Len(pattern) /\ ~AtStar /\ Taken # 0

\* A star takes nothing at first.
OnStar ==
  /\ Going /\ AtStar
  /\ star' = p /\ resume' = n /\ p' = p + 1
  /\ UNCHANGED <<pattern, name, n, literal, verdict>>

LiteralAfter ==
  literal' = IF p <= Len(pattern) /\ pattern[p] = Open THEN LiteralFrom ELSE literal

Take ==
  /\ Going /\ Takes
  /\ p' = Taken /\ n' = n + 1
  /\ LiteralAfter
  /\ UNCHANGED <<pattern, name, star, resume, verdict>>

\* Mutant: the star takes no more than it did.
SameRun == resume

\* Mutant: the star takes two bytes more.
TwoMore == resume + 2

\* The star takes a byte more.
NextRun == resume + 1

\* The byte is not taken: the last star takes one more.
Backtrack ==
  /\ Going /\ ~AtStar /\ ~Takes /\ star # 0
  /\ p' = star + 1 /\ resume' = NextRun /\ n' = NextRun
  /\ LiteralAfter
  /\ UNCHANGED <<pattern, name, star, verdict>>

GiveUp ==
  /\ Going /\ ~AtStar /\ ~Takes /\ star = 0
  /\ verdict' = "no"
  /\ UNCHANGED <<pattern, name, p, n, star, resume, literal>>

\* The name is over: only stars may be left.
Finish ==
  /\ verdict = "none" /\ n > Len(name)
  /\ verdict' = IF \A i \in p..Len(pattern) : pattern[i] = Star THEN "yes" ELSE "no"
  /\ UNCHANGED <<pattern, name, p, n, star, resume, literal>>

Next == OnStar \/ Take \/ Backtrack \/ GiveUp \/ Finish

Spec == Init /\ [][Next]_vars

-----------------------------------------------------------------------------
\* The part of a pattern at i, no star: the byte it takes, and the place after it.
Accepts(i, c) ==
  CASE pattern[i] = Question -> TRUE
    [] pattern[i] = Open /\ Closed(i) -> RangeMatch(i, c).result = "matched"
    [] pattern[i] = Backslash /\ i < Len(pattern) -> pattern[i + 1] = c
    [] OTHER -> pattern[i] = c
After(i) ==
  CASE pattern[i] = Open /\ Closed(i) -> Behind(i)
    [] pattern[i] = Backslash /\ i < Len(pattern) -> i + 2
    [] OTHER -> i + 1

\* What a mask means: whether the pattern from i on matches the name from j on, a star
\* taking any run whatever.
Matches[i \in Nat] ==
  [j \in 1..(Len(name) + 1) |->
     CASE i > Len(pattern) -> j > Len(name)
       [] i <= Len(pattern) /\ pattern[i] = Star -> \E k \in j..(Len(name) + 1) : Matches[i + 1][k]
       [] OTHER -> j <= Len(name) /\ Accepts(i, name[j]) /\ Matches[After(i)][j + 1]]

TypeOK ==
  /\ pattern \in Seq(PatternBytes) /\ name \in Seq(NameBytes)
  /\ p \in 1..(Len(pattern) + 1) /\ n \in 1..(Len(name) + 1)
  /\ star \in 0..(p - 1) /\ resume \in 0..n
  /\ literal \in 1..(Len(pattern) + 1)
  /\ verdict \in {"none", "yes", "no"}

\* Coming back to the last star only, and taking every bracket after a class that
\* does not close for itself, decides what trying every run of every star would
\* (the comments of MatchIfMask).
VerdictIsMeaning == verdict # "none" => (verdict = "yes" <=> Matches[1][1])

\* The loop gets on: a star's run only grows while the star stays, and between
\* two growths the place in the name or in the pattern goes up.
GetsOn ==
  [][verdict' = verdict =>
       \/ star' > star
       \/ star' = star /\ resume' > resume
       \/ star' = star /\ resume' = resume /\ n' > n /\ p' > p]_vars

=============================================================================
