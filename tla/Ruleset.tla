------------------------------ MODULE Ruleset ------------------------------
(***************************************************************************)
(* What a ruleset means, said over the script itself: which rule a packet  *)
(* is checked against next, in terms of the lines as written, with no      *)
(* program, no index and no linking.  The build and the check of package   *)
(* vm are shown to implement it (module VM).                               *)
(***************************************************************************)
EXTENDS Script, FiniteSets

VARIABLES
  script,    \* the lines read so far
  phase,     \* "reading", then "loaded" or "rejected"
  at,        \* the position in the script of the rule to evaluate next
  outcome    \* how the check ended, or "none" while it goes on

vars == <<script, phase, at, outcome>>

-----------------------------------------------------------------------------
Positions(s) == 1..Len(s)
Rules(s) == {i \in Positions(s) : IsRule(s[i])}

\* The last of a set of positions, and the first of one or, the set being
\* empty, the position after the script.
LastOf(S) == CHOOSE i \in S : \A j \in S : j <= i
FirstOf(s, S) ==
  IF S = {} THEN Len(s) + 1 ELSE CHOOSE i \in S : \A j \in S : i <= j

\* The first rule after a position.
RuleAfter(s, i) == FirstOf(s, {j \in Rules(s) : j > i})

\* A rule has the number it gives itself, otherwise one past the rule before.
NumberAt(s, i) ==
  LET given == {j \in Rules(s) : j <= i /\ s[j].num # 0}
      base == IF given = {} THEN 0 ELSE LastOf(given)
  IN (IF base = 0 THEN 0 ELSE s[base].num)
       + Cardinality({j \in Rules(s) : base < j /\ j <= i})

\* The rules numbered at or after a number.
NumberedFrom(s, number) == {j \in Rules(s) : NumberAt(s, j) >= number}

\* The type of a table at a position: that of the last create before it.
TypeAt(s, i, table) ==
  LET creates == {j \in Positions(s) : j < i /\ IsCreate(s[j]) /\ s[j].table = table}
  IN IF creates = {} THEN "addr" ELSE CreatedType(s[LastOf(creates)])

\* A rule number goes up and stays within its width.
InOrder(s, i) ==
  /\ NumberAt(s, i) <= MaxNumber
  /\ \A j \in Rules(s) : j < i => NumberAt(s, j) < NumberAt(s, i)

\* What a line has to be for the ruleset to go on after it.
LineHolds(s, i) ==
  /\ Parses(s[i])
  /\ s[i].kind # "unknown"
  /\ IsRule(s[i]) => InOrder(s, i) /\ SupportedAction(s[i])
  /\ IsCreate(s[i]) => s[i].type # "other"
  /\ IsAdd(s[i]) => s[i].resolves \/ TypeAt(s, i, s[i].table) = "iface"

\* Where a skipto of the script goes, a set of candidates whose first counts:
\* the later rules numbered from its number, or the later labels of its name.
Candidates(s, i) ==
  {j \in Positions(s) : j > i /\
     IF s[i].to = "number" THEN j \in NumberedFrom(s, s[i].number)
                           ELSE IsLabel(s[j]) /\ s[j].label = s[i].label}

IsStatic(line) == IsSkipTo(line, "number") \/ IsSkipTo(line, "label")

\* Every jump has somewhere to go.
JumpsResolve(s) == \A i \in Positions(s) : IsStatic(s[i]) => Candidates(s, i) # {}

\* The rule after a matching skipto to a number or a label, the next rule when
\* nothing satisfies it.  A label stands for the first rule after it.
StaticTarget(s, i) ==
  LET first == FirstOf(s, Candidates(s, i))
  IN IF Candidates(s, i) = {} THEN RuleAfter(s, i)
     ELSE IF s[i].to = "number" THEN first
     ELSE RuleAfter(s, first)

\* The rule after a matching skipto tablearg, by the value the last lookup of
\* the rule that found an entry yields: never one at or before the rule, the
\* end of the script when no rule is numbered that high, and by the last
\* label of the name.
TableArgTarget(s, i, arg) ==
  LET later(j) == IF j > i THEN j ELSE RuleAfter(s, i)
      labelled == {j \in Positions(s) : IsLabel(s[j]) /\ s[j].label = arg.label}
  IN CASE arg.kind = "number" -> later(FirstOf(s, NumberedFrom(s, arg.number)))
       [] arg.kind = "label" /\ labelled # {} -> later(RuleAfter(s, LastOf(labelled)))
       [] OTHER -> RuleAfter(s, i)

-----------------------------------------------------------------------------
Init ==
  /\ script = <<>>
  /\ phase = "reading"
  /\ at = 0
  /\ outcome = "none"

\* The ruleset is complete: it loads unless a jump that must resolve does not.
Complete ==
  IF FallThrough \/ JumpsResolve(script')
  THEN phase' = "loaded" /\ at' = RuleAfter(script', 0)
  ELSE phase' = "rejected" /\ UNCHANGED at

\* A line is read.  It may end the ruleset, and a table entry may be refused by
\* the registry.
Read(line) ==
  /\ phase = "reading"
  /\ script' = Append(script, line)
  /\ UNCHANGED outcome
  /\ IF ~LineHolds(script', Len(script'))
     THEN phase' = "rejected" /\ UNCHANGED at
     ELSE IF line.kind = "eof" THEN Complete
     ELSE /\ \/ phase' = "reading"
             \/ IsAdd(line) /\ phase' = "rejected"
          /\ UNCHANGED at

End ==
  /\ phase = "reading"
  /\ UNCHANGED <<script, outcome>>
  /\ Complete

\* The rule does not match: the next one is evaluated.
Miss ==
  /\ phase = "loaded" /\ outcome = "none" /\ at \in Rules(script)
  /\ at' = RuleAfter(script, at)
  /\ UNCHANGED <<script, phase, outcome>>

\* A rule with no source or no destination matches nothing.
CanMatch(line) == line.body["sources"] # <<>> /\ line.body["destinations"] # <<>>

\* The rule matches and ends the check with its action.
Decide ==
  /\ phase = "loaded" /\ outcome = "none" /\ at \in Rules(script)
  /\ CanMatch(script[at])
  /\ script[at].action \in Terminal
  /\ outcome' = script[at].action
  /\ UNCHANGED <<script, phase, at>>

\* The rule matches and the check goes on: after a count or a check-state with
\* the next rule, after a skipto where it says.
Continue ==
  /\ phase = "loaded" /\ outcome = "none" /\ at \in Rules(script)
  /\ CanMatch(script[at])
  /\ script[at].action \notin Terminal
  /\ \/ /\ script[at].action # "skipto"
        /\ at' = RuleAfter(script, at)
     \/ /\ IsStatic(script[at])
        /\ at' = StaticTarget(script, at)
     \/ /\ IsSkipTo(script[at], "tablearg")
        /\ \E arg \in TableArg : at' = TableArgTarget(script, at, arg)
  /\ UNCHANGED <<script, phase, outcome>>

\* No rule is left: the default verdict.
Default ==
  /\ phase = "loaded" /\ outcome = "none" /\ at \notin Rules(script)
  /\ outcome' = "default"
  /\ UNCHANGED <<script, phase, at>>

Next ==
  \/ \E line \in Lines : Read(line)
  \/ End
  \/ Miss \/ Decide \/ Continue \/ Default

Spec == Init /\ [][Next]_vars

=============================================================================
