----------------------------- MODULE OptionScan -----------------------------
(***************************************************************************)
(* The options of a rule: parseOptions (opt.go) numbers the or-blocks and  *)
(* the match patterns in them, with sixteen bits for each.  builder.Add    *)
(* (vm/vm.go) drops the comments that decide nothing from the options, in  *)
(* place, and VM.matchOptions folds those left back by their numbers in    *)
(* one walk, keeping the tablearg target of the last lookup it made.  What *)
(* matchOption answers for an option is settled when the option is read.   *)
(***************************************************************************)
EXTENDS Integers, Sequences

CONSTANTS
  Width,        \* how many numbers a block or a pattern can have, 2^16 in the code
  Targets,      \* the rules a table lookup names
  MaxOptions    \* bound: the most options of a rule

\* The target of an option that looks nothing up, or finds nothing.
NoTarget == 0

ASSUME WidthAssumption == Width \in Nat /\ Width >= 2
ASSUME TargetsAssumption == NoTarget \notin Targets

VARIABLES
  text,      \* the options as the parser handed them over, for the properties alone
  options,   \* the run of the rule in the arena of options
  phase,     \* of the parser, of the drop of comments, of the walk, then the verdict
  block,     \* optionContext.blocks: the number of the or-block being read
  pattern,   \* the number of the pattern being read
  braced,    \* whether the or-block is a group in braces
  kept,      \* how many options the drop has kept
  idx,       \* the option the drop, and then the walk, looks at next
  first,     \* the first member of the pattern being folded
  matched,   \* whether a member of it matched
  target     \* the target of the last lookup that found an entry

parsing == <<text, block, pattern, braced>>
walking == <<first, matched, target>>
vars == <<phase, options, kept, idx, parsing, walking>>

\* Whether an option is a comment, which a hook may return anywhere, and what
\* matchOption answers.  A comment holds.  Only a lookup that found an entry names
\* a target, and it matches.
Answer == {a \in [comment : BOOLEAN, hit : BOOLEAN, found : Targets \cup {NoTarget}] :
             /\ a.found # NoTarget => a.hit /\ ~a.comment
             /\ a.comment => a.hit}

\* What an option begins in the text, a block, a pattern, or nothing, is for the
\* properties alone.
Beginning == {"block", "pattern", "member"}
Option == [neg : BOOLEAN, block : 0..(Width - 1), pattern : 0..(Width - 1), answer : Answer,
           begins : Beginning]

-----------------------------------------------------------------------------
Init ==
  /\ text = <<>> /\ options = <<>>
  /\ phase = "between"
  /\ block = 0 /\ pattern = 0 /\ braced = FALSE
  /\ kept = 0 /\ idx = 1 /\ first = 1 /\ matched = FALSE /\ target = NoTarget

\* State.OnOption with an option in the current place.
OnOption(neg, answer, beginning) ==
  /\ Len(options) < MaxOptions
  /\ options' = Append(options, [neg |-> neg, block |-> block, pattern |-> pattern',
                                 answer |-> answer, begins |-> beginning])
  /\ text' = options'
  /\ UNCHANGED <<block, kept, idx, walking>>

\* parseOptionGroup begins the next or-block with an option of its own or the
\* first one of a group in braces.
First(neg, answer) ==
  /\ phase = "between"
  /\ pattern' = 0
  /\ braced' \in BOOLEAN
  /\ OnOption(neg, answer, "block")
  /\ phase' = "read"

\* Mutants: the alternatives of a group are read as the members of a list; the
\* number does not wrap.
SamePlace == pattern
Unwrapped == pattern + 1

\* optionPlace.NextPattern: the number wraps.
NextPattern == (pattern + 1) % Width

\* Another alternative of the group after an `or`.
Alternative(neg, answer) ==
  /\ phase = "read" /\ braced
  /\ pattern' = NextPattern
  /\ OnOption(neg, answer, "pattern")
  /\ UNCHANGED <<phase, braced>>

\* parsePortsOption: another range of the list, under the negation of the first.
NextRange(hit) ==
  /\ phase = "read"
  /\ options[Len(options)].answer.found = NoTarget /\ ~options[Len(options)].answer.comment
  /\ pattern' = pattern
  /\ OnOption(options[Len(options)].neg,
              [comment |-> FALSE, hit |-> hit, found |-> NoTarget], "member")
  /\ UNCHANGED <<phase, braced>>

\* optionContext.EndBlock: the number wraps.
EndBlock ==
  /\ phase = "read"
  /\ block' = (block + 1) % Width
  /\ phase' = "between"
  /\ UNCHANGED <<options, text, pattern, braced, kept, idx, walking>>

\* The option list ends, and the rule is added.
EndOptions ==
  /\ phase = "between"
  /\ phase' = "drop"
  /\ UNCHANGED <<options, kept, idx, parsing, walking>>

-----------------------------------------------------------------------------
\* Mutant: only the option before tells whether one is alone.
AloneAfter(i) == i = 1 \/ options[i - 1].block # options[i].block

\* An option alone in its or-block, as its neighbours tell.
Alone(i) ==
  /\ i = 1 \/ options[i - 1].block # options[i].block
  /\ i = Len(options) \/ options[i + 1].block # options[i].block

\* A comment that is dropped.
Goes(i) == options[i].answer.comment /\ ~options[i].neg /\ Alone(i)

\* program.DropComments, one turn of its loop: the options kept move up in place.
Drop ==
  /\ phase = "drop" /\ idx <= Len(options)
  /\ IF Goes(idx) THEN UNCHANGED <<options, kept>>
     ELSE options' = [options EXCEPT ![kept + 1] = options[idx]] /\ kept' = kept + 1
  /\ idx' = idx + 1
  /\ UNCHANGED <<phase, parsing, walking>>

\* The run is cut to the options kept.  The rule is closed, and a packet checked.
EndDrop ==
  /\ phase = "drop" /\ idx > Len(options)
  /\ phase' = "pattern"
  /\ options' = SubSeq(options, 1, kept)
  /\ idx' = 1
  /\ UNCHANGED <<kept, parsing, walking>>

-----------------------------------------------------------------------------
\* Whether the option looked at next goes on with the block, and the pattern,
\* by their numbers.
SameBlock(i, j) == options[i].block = options[j].block
More == idx <= Len(options) /\ SameBlock(first, idx)
GoesOn == More /\ options[idx].pattern = options[first].pattern

\* Mutant: a lookup that finds no entry takes back the target.
Fresh(i) == options[i].answer.found

\* The target once an option answered.
Latest(i) == IF options[i].answer.found # NoTarget THEN options[i].answer.found ELSE target

\* The first member of a pattern is asked.
Begin ==
  /\ phase = "pattern" /\ idx <= Len(options)
  /\ phase' = "members"
  /\ first' = idx
  /\ matched' = options[idx].answer.hit
  /\ target' = Latest(idx)
  /\ idx' = idx + 1
  /\ UNCHANGED <<options, kept, parsing>>

\* Another member of the pattern is asked, unless one matched already.
Member ==
  /\ phase = "members" /\ GoesOn
  /\ IF matched THEN UNCHANGED <<matched, target>>
     ELSE matched' = options[idx].answer.hit /\ target' = Latest(idx)
  /\ idx' = idx + 1
  /\ UNCHANGED <<phase, options, kept, parsing, first>>

\* Mutant: the rest of the block is walked even when a pattern holds.
NotSkipped == idx

\* Past the last option of the block.
NextBlock ==
  CHOOSE i \in idx..(Len(options) + 1) :
    /\ i <= Len(options) => ~SameBlock(first, i)
    /\ \A j \in idx..(i - 1) : SameBlock(first, j)

\* The pattern is over and holds: the rest of its block is skipped.
Holds ==
  /\ phase = "members" /\ ~GoesOn
  /\ matched # options[first].neg
  /\ phase' = "pattern"
  /\ idx' = NextBlock
  /\ UNCHANGED <<options, kept, parsing, walking>>

\* The pattern is over and does not hold: another one of the block may.
TryNext ==
  /\ phase = "members" /\ ~GoesOn
  /\ matched = options[first].neg /\ More
  /\ phase' = "pattern"
  /\ UNCHANGED <<options, kept, idx, parsing, walking>>

\* No pattern of the block holds, nor does the rule.
Fails ==
  /\ phase = "members" /\ ~GoesOn
  /\ matched = options[first].neg /\ ~More
  /\ phase' = "no"
  /\ target' = NoTarget
  /\ UNCHANGED <<options, kept, idx, parsing, first, matched>>

\* Every block held.
Succeeds ==
  /\ phase = "pattern" /\ idx > Len(options)
  /\ phase' = "yes"
  /\ UNCHANGED <<options, kept, idx, parsing, walking>>

Parse ==
  \/ \E neg \in BOOLEAN, answer \in Answer : First(neg, answer) \/ Alternative(neg, answer)
  \/ \E hit \in BOOLEAN : NextRange(hit)
  \/ EndBlock \/ EndOptions
Walk == Begin \/ Member \/ Holds \/ TryNext \/ Fails \/ Succeeds
Next == Parse \/ Drop \/ EndDrop \/ Walk

Spec == Init /\ [][Next]_vars

-----------------------------------------------------------------------------
\* The options of one or-block and of one pattern, as the text puts them.
Together(s, i, j, boundary) ==
  \A k \in 1..Len(s) : ((i < k /\ k <= j) \/ (j < k /\ k <= i)) => s[k].begins \notin boundary
InBlock(s, i, j) == Together(s, i, j, {"block"})
InPattern(s, i, j) == Together(s, i, j, {"block", "pattern"})

\* A pattern holds when one of its members matches, its negation aside.
PatternHolds(s, i) ==
  (\E j \in 1..Len(s) : InPattern(s, i, j) /\ s[j].answer.hit) # s[i].neg

\* Every or-block has a pattern that holds.
RuleHolds(s) ==
  \A i \in 1..Len(s) : \E j \in 1..Len(s) : InBlock(s, i, j) /\ PatternHolds(s, j)

\* The options a rule asks, as the kernel skips the rest of an or-block and of
\* a list: no member before it in its pattern matches, no pattern before it in
\* its block holds.
Asked(s, i) ==
  \A j \in 1..(i - 1) :
    /\ InPattern(s, i, j) => ~s[j].answer.hit
    /\ InBlock(s, i, j) /\ ~InPattern(s, i, j) => ~PatternHolds(s, j)

\* The lookups of a rule that find an entry, of those it makes, and the target
\* of the last one.
Lookups(s) == {i \in 1..Len(s) : Asked(s, i) /\ s[i].answer.found # NoTarget}
IsLastTarget(s, t) ==
  IF Lookups(s) = {} THEN t = NoTarget
  ELSE \E i \in Lookups(s) : t = s[i].answer.found /\ \A j \in Lookups(s) : j <= i

\* A comment that decides nothing: it is not negated and has its or-block to itself.
DecidesNothing(i) ==
  /\ text[i].answer.comment /\ ~text[i].neg
  /\ \A k \in 1..Len(text) : InBlock(text, i, k) => k = i

\* Two options that decide something are a whole cycle of numbers apart, and
\* comments that decide nothing are all there is between them.
CycleOfComments ==
  \E i, j \in 1..Len(text) :
    /\ i < j /\ (j - i) % Width = 0
    /\ ~DecidesNothing(i) /\ ~DecidesNothing(j)
    /\ \A k \in (i + 1)..(j - 1) : DecidesNothing(k)

TypeOK ==
  /\ text \in Seq(Option) /\ options \in Seq(Option)
  /\ phase \in {"between", "read", "drop", "pattern", "members", "yes", "no"}
  /\ block \in 0..(Width - 1) /\ pattern \in 0..(Width - 1) /\ braced \in BOOLEAN
  /\ kept \in 0..Len(options)
  /\ idx \in 1..(Len(options) + 1)
  /\ first \in Nat /\ matched \in BOOLEAN
  /\ target \in Targets \cup {NoTarget}

\* To drop a comment changes no verdict, as DropComments says of itself: the walk
\* of what is left answers what the text of the rule means, that every or-block has
\* to hold, a block when one of its patterns does, a pattern when one of its members
\* matches, its negation aside.
DropsChangeNoVerdict ==
  /\ phase = "yes" => RuleHolds(text)
  /\ phase = "no" => ~RuleHolds(text)

\* The walk answers what the text of the rule means, however its blocks and
\* patterns are numbered once the numbers wrap and whatever comments parseOptions
\* numbered and DropComments took out, but for a whole cycle of those.
VerdictIsMeaning == ~CycleOfComments => DropsChangeNoVerdict

\* The target is that of the last lookup the text of the rule makes and finds an
\* entry by: one of a skipped member or pattern does not count, one of a negated
\* pattern does, and a rule that does not match has none.
TargetIsLastLookup ==
  /\ phase = "yes" /\ ~CycleOfComments => IsLastTarget(text, target)
  /\ phase = "no" => target = NoTarget

=============================================================================
