--------------------------------- MODULE VM ---------------------------------
(***************************************************************************)
(* vm.VM: a check of one packet by the program a build assembled           *)
(* (CheckTrace in vm/vm.go).  Whether the packet satisfies the body of a   *)
(* rule, and what its table lookups yield, is left open here but for a     *)
(* rule without a source or a destination, which matches nothing.          *)
(***************************************************************************)
EXTENDS Builder

VARIABLES
  pc,        \* the rule the check evaluates next
  verdict    \* how the check ended, or "none" while it goes on

checkVars == <<pc, verdict>>
vmVars == <<vars, checkVars>>

-----------------------------------------------------------------------------
VMInit ==
  /\ Init
  /\ pc = 1
  /\ verdict = "none"

\* The tablearg targets naming no rule, both below every rule.
NoTarget == 0
UnnamedTarget == -1

\* VM.tableTarget: a number is the first rule numbered at or after it, any
\* other value the rule after the last label of the name.
TableTarget(arg) ==
  CASE arg.kind = "number" -> At(arg.number)
    [] arg.kind = "label" /\ labels[arg.label] # 0 -> labels[arg.label]
    [] arg.kind = "noEntry" -> NoTarget
    [] OTHER -> UnnamedTarget

\* Mutant: a jump may stay at its own rule.
NotBefore(target) == IF target > pc THEN target ELSE pc

\* The later of a target and the next rule.
Forward(target) == IF target > pc THEN target ELSE pc + 1

\* Where the skipto a check is at may go on: at the rule it was linked to, or where
\* the tables of its rule say.
Destinations ==
  IF rules[pc].tableArg THEN {Forward(TableTarget(arg)) : arg \in TableArg}
  ELSE {rules[pc].jump}

\* An empty run of targets matches nothing.
MayMatch(rule) ==
  \A a \in {"sources", "destinations"} : rule.runs[a].end # rule.runs[a].start

\* The loop of CheckTrace goes on.
Checking == status = "built" /\ verdict = "none" /\ pc <= Len(rules)

\* The rule does not match.
Miss ==
  /\ Checking
  /\ pc' = pc + 1
  /\ UNCHANGED <<vars, verdict>>

\* The rule matches and ends the check.
Terminate ==
  /\ Checking
  /\ MayMatch(rules[pc])
  /\ rules[pc].kind \in Terminal
  /\ verdict' = Action(pc).action
  /\ UNCHANGED <<vars, pc>>

\* The rule matches and is a skipto.
Jump ==
  /\ Checking
  /\ MayMatch(rules[pc])
  /\ rules[pc].kind = "skipto"
  /\ pc' \in Destinations
  /\ UNCHANGED <<vars, verdict>>

\* The rule matches and is a count or a check-state.
Pass ==
  /\ Checking
  /\ MayMatch(rules[pc])
  /\ rules[pc].kind \notin Terminal \cup {"skipto"}
  /\ pc' = pc + 1
  /\ UNCHANGED <<vars, verdict>>

\* No rule is left.
Default ==
  /\ status = "built" /\ verdict = "none" /\ pc > Len(rules)
  /\ verdict' = "default"
  /\ UNCHANGED <<vars, pc>>

Check == Miss \/ Terminate \/ Jump \/ Pass \/ Default

VMNext == (Next /\ UNCHANGED checkVars) \/ Check

VMSpec == VMInit /\ [][VMNext]_vmVars

\* The loop of a check runs on its own goroutine and blocks on nothing.
FairVMSpec == VMSpec /\ WF_vmVars(Check)

-----------------------------------------------------------------------------
\* The check moves forward only: wherever a packet is, no jump that may be taken
\* there, linked or named by a table that may hold anything, goes to a rule before
\* the jumping one nor to that rule itself, so no packet loops.
ForwardOnly ==
  Checking /\ rules[pc].kind = "skipto" => \A next \in Destinations : next > pc

\* Every check of a built ruleset ends.
CheckEnds == status = "built" ~> verdict # "none"

\* The position in the script of the rule a check is at.
AtLine == IF status # "built" THEN 0
          ELSE IF pc <= Len(rules) THEN records[pc] ELSE Len(script) + 1

Phase == CASE status = "reading" -> "reading"
           [] status = "built" -> "loaded"
           [] OTHER -> "rejected"

Meaning == INSTANCE Ruleset WITH phase <- Phase, at <- AtLine, outcome <- verdict

\* A build and a check do what the script means: they accept the same rulesets,
\* give each rule its number, and take a packet from rule to rule as the lines
\* say.
ImplementsRuleset == Meaning!Spec

=============================================================================
