------------------------------ MODULE Builder ------------------------------
(***************************************************************************)
(* vm.Build: the loop that reads a ruleset line by line into a builder,    *)
(* and the program the builder assembles (vm/vm.go).  An action is one     *)
(* turn of the loop: Parser.Next with the callbacks it makes, the drop of  *)
(* the tokens of a line that is no rule, and the handler of the record.    *)
(* Rules count from 1, where the code counts from 0.  A failed build       *)
(* leaves nothing behind but what it did to the registry.                  *)
(***************************************************************************)
EXTENDS Script, FiniteSets

CONSTANT MaxLines      \* bound: the longest script read

VARIABLES
  script,         \* the lines read so far, the parser's input as it was read
  status,         \* "reading", then "built" or "failed"
  failure,        \* the line of the build error and its kind
  arenas,         \* the tokens of every rule, one arena per kind
  start,          \* where the arenas ended when the open rule began
  rules,          \* program.rules: what a match does and the rule's runs
  numbers,        \* program.numbers
  records,        \* program.records: the line each rule came from
  number,         \* builder.number: the number the next rule gets
  labels,         \* builder.labels: the rule after each label, 0 for none
  numberJumps,    \* builder.numberJumps: skiptos to a number
  pendingLabels,  \* builder.pendingLabels: skiptos waiting for a label
  tableTypes,     \* builder.tableTypes, "unset" for a table never created
  entries         \* the updates the registry accepted, in order

program == <<arenas, rules, numbers, records>>
linking == <<labels, numberJumps, pendingLabels>>
tables == <<tableTypes, entries>>
vars == <<script, status, failure, program, start, number, linking, tables>>

-----------------------------------------------------------------------------
NoFailure == [line |-> 0, kind |-> "none"]
FailureKind == {"none", "parse", "order", "action", "table", "registry",
                "record", "unresolved"}

\* The runs of a rule, one span per arena, half-open as in the code.
Span == [start : Nat, end : Nat]
Rule == [kind : ActionKind, tableArg : BOOLEAN, jump : Nat, runs : [Arena -> Span]]
Entry == [table : Tables, family : {"v4", "v6", "iface"}, key : Keys, value : Values]

\* The tokens of a run.
Run(a, span) == SubSeq(arenas[a], span.start + 1, span.end)

\* The tokens of the line appended to the arenas by the callbacks.
Pushed(line) == [a \in Arena |-> arenas[a] \o line.body[a]]

\* Mutant: the tokens of a line that is no rule are left in the arenas.
KeepPushed(pushed) == pushed

\* program.Drop: the arenas cut back to where the open rule began.
Dropped(pushed) == [a \in Arena |-> SubSeq(pushed[a], 1, start[a])]

\* An option alone in its block, as its neighbours tell.
Alone(options, i) ==
  /\ i = 1 \/ options[i - 1].block # options[i].block
  /\ i = Len(options) \/ options[i + 1].block # options[i].block

\* The options a rule keeps: a comment decides nothing unless it is negated or
\* shares its block.
Kept(options) ==
  {i \in 1..Len(options) :
     ~(options[i].kind = "comment" /\ ~options[i].neg /\ Alone(options, i))}

\* How many of the kept options are among the first i.
Rank(options, i) == Cardinality({k \in Kept(options) : k <= i})

\* program.DropComments on the options of the open rule: the kept ones in order.
DropComments(options) ==
  [j \in 1..Cardinality(Kept(options)) |->
     options[CHOOSE i \in Kept(options) : Rank(options, i) = j]]

\* The arenas a rule closes over.
Closed(pushed) ==
  [pushed EXCEPT !["options"] =
     SubSeq(@, 1, start["options"])
       \o DropComments(SubSeq(@, start["options"] + 1, Len(@)))]

\* Mutant: the rule of that very number is passed over.
AtPast(want) ==
  CHOOSE i \in 1..(Len(numbers) + 1) :
    /\ i <= Len(numbers) => numbers[i] > want
    /\ \A j \in 1..(i - 1) : numbers[j] <= want

\* program.At: the first rule numbered at or after want, one past the last
\* rule when there is none, the rule numbers going up.
At(want) ==
  CHOOSE i \in 1..(Len(numbers) + 1) :
    /\ i <= Len(numbers) => numbers[i] >= want
    /\ \A j \in 1..(i - 1) : numbers[j] < want

\* The rule's action, read from the record it came from.
Action(idx) == script[records[idx]]

\* Mutant: a jump is not kept past its own rule.
WantedAnywhere(idx) == Action(idx).number

\* The first rule a skipto to a number lands on.  The sum is 64 bits wide, so
\* it does not wrap.
Wanted(idx) ==
  IF Action(idx).number > numbers[idx] THEN Action(idx).number ELSE numbers[idx] + 1

\* Mutant: a jump past the last rule is linked like any other.
NoneUnresolved == {}

\* The number jumps LinkNumbers finds no rule for.
UnresolvedNumbers == {idx \in numberJumps : At(Wanted(idx)) > Len(rules)}

\* Mutant: labels are looked at only when every number resolved.
NumbersFirst ==
  IF UnresolvedNumbers # {} THEN UnresolvedNumbers
  ELSE UNION {pendingLabels[l] : l \in Labels}

\* builder.Unresolved: the skiptos still waiting for a number or a label.
Unresolved == UnresolvedNumbers \cup UNION {pendingLabels[l] : l \in Labels}

Lowest(S) == CHOOSE i \in S : \A j \in S : i <= j

-----------------------------------------------------------------------------
Init ==
  /\ script = <<>>
  /\ status = "reading"
  /\ failure = NoFailure
  /\ arenas = [a \in Arena |-> <<>>]
  /\ start = [a \in Arena |-> 0]
  /\ rules = <<>>
  /\ numbers = <<>>
  /\ records = <<>>
  /\ number = 1
  /\ labels = [l \in Labels |-> 0]
  /\ numberJumps = {}
  /\ pendingLabels = [l \in Labels |-> {}]
  /\ tableTypes = [t \in Tables |-> "unset"]
  /\ entries = <<>>

\* The next line is read.
Read(line) ==
  /\ status = "reading"
  /\ Len(script) < MaxLines
  /\ script' = Append(script, line)

GoOn == UNCHANGED <<status, failure>>

\* The build returns an error for the line just read, the builder going to waste.
Fail(kind) ==
  /\ status' = "failed"
  /\ failure' = [line |-> Len(script'), kind |-> kind]
  /\ UNCHANGED <<program, start, number, linking, tableTypes>>

\* Parser.Next returns an error: the line is malformed or a callback rejected
\* a token.
ParseFails(line) ==
  /\ Read(line)
  /\ ~Parses(line)
  /\ Fail("parse")
  /\ UNCHANGED entries

\* A line that is no rule: what its callbacks appended is dropped.
ReadOther(line) ==
  /\ Read(line)
  /\ Parses(line)
  /\ ~IsRule(line)
  /\ arenas' = Dropped(Pushed(line))
  /\ UNCHANGED <<start, numbers, records, number>>

\* An empty line or a comment.
Skip(line) ==
  /\ line.kind \in {"empty", "comment"}
  /\ ReadOther(line)
  /\ GoOn
  /\ UNCHANGED <<rules, linking, tables>>

\* A record of a kind the build does not know, from a command hook.
UnsupportedRecord(line) ==
  /\ line.kind = "unknown"
  /\ Read(line)
  /\ Parses(line)
  /\ Fail("record")
  /\ UNCHANGED entries

\* builder.Add: the number of the rule, its own or the running one.
RuleNumber(line) == IF line.num # 0 THEN line.num ELSE number

\* Mutant: the wrap of the running number goes unnoticed.
OnlyBelowRunning(line) == line.num # 0 /\ line.num < number

\* The rule's own number is below the running one, or the running one wrapped
\* past the largest.
OutOfOrder(line) ==
  \/ line.num # 0 /\ line.num < number
  \/ numbers # <<>> /\ RuleNumber(line) <= numbers[Len(numbers)]

AddOutOfOrder(line) ==
  /\ IsRule(line)
  /\ Read(line)
  /\ Parses(line)
  /\ OutOfOrder(line)
  /\ Fail("order")
  /\ UNCHANGED entries

AddUnsupported(line) ==
  /\ IsRule(line)
  /\ Read(line)
  /\ Parses(line)
  /\ ~OutOfOrder(line)
  /\ ~SupportedAction(line)
  /\ Fail("action")
  /\ UNCHANGED entries

\* Mutant: the next rule is not begun, its runs open where this one's did.
NotMarked(closed) == start

\* program.Mark: the next rule begins where the arenas end.
Mark(closed) == [a \in Arena |-> Len(closed[a])]

\* The rule the open runs and the arenas close into.  A skipto falls through
\* until it is linked.
ClosedRule(line, closed) ==
  [kind |-> line.action,
   tableArg |-> line.action = "skipto" /\ line.to = "tablearg",
   jump |-> IF line.action = "skipto" THEN Len(rules) + 2 ELSE 0,
   runs |-> [a \in Arena |-> [start |-> start[a], end |-> Len(closed[a])]]]

\* builder.Add: the rule closed over the tokens just appended, its jump left to
\* be linked, and the next rule begun.
Add(line) ==
  LET idx == Len(rules) + 1
      closed == Closed(Pushed(line))
  IN /\ IsRule(line)
     /\ Read(line)
     /\ Parses(line)
     /\ ~OutOfOrder(line)
     /\ SupportedAction(line)
     /\ GoOn
     /\ arenas' = closed
     /\ rules' = Append(rules, ClosedRule(line, closed))
     /\ numbers' = Append(numbers, RuleNumber(line))
     /\ records' = Append(records, Len(script'))
     /\ number' = (RuleNumber(line) + 1) % (MaxNumber + 1)
     /\ start' = Mark(closed)
     /\ numberJumps' = IF IsSkipTo(line, "number") THEN numberJumps \cup {idx}
                                                   ELSE numberJumps
     /\ pendingLabels' = IF IsSkipTo(line, "label")
                         THEN [pendingLabels EXCEPT ![line.label] = @ \cup {idx}]
                         ELSE pendingLabels
     /\ UNCHANGED <<labels, tables>>

\* program.Link: the jumps of the rules target is given for point there.
Linked(target) ==
  [idx \in 1..Len(rules) |->
     IF idx \in DOMAIN target THEN [rules[idx] EXCEPT !.jump = target[idx]]
                              ELSE rules[idx]]

\* Mutant: the jumps to a label go on waiting for it after it came.
StillWaiting(label) == pendingLabels

\* The jumps waiting for labels once one came.
Delivered(label) == [pendingLabels EXCEPT ![label] = {}]

\* builder.Label: the label stands for the next rule, and the jumps waiting for
\* it go there.
Label(line) ==
  /\ IsLabel(line)
  /\ ReadOther(line)
  /\ GoOn
  /\ labels' = [labels EXCEPT ![line.label] = Len(rules) + 1]
  /\ rules' = Linked([idx \in pendingLabels[line.label] |-> Len(rules) + 1])
  /\ pendingLabels' = Delivered(line.label)
  /\ UNCHANGED <<numberJumps, tables>>

\* Mutant: the first create of a table fixes its type.
FirstTypeStays(line) ==
  IF tableTypes[line.table] # "unset" THEN tableTypes
  ELSE [tableTypes EXCEPT ![line.table] = CreatedType(line)]

\* The types of the tables after a create.
TypesAfter(line) == [tableTypes EXCEPT ![line.table] = CreatedType(line)]

\* builder.createTable: the type of the table, one the VM cannot hold failing.
TableCreate(line) ==
  /\ IsCreate(line)
  /\ \/ /\ line.type # "other"
        /\ ReadOther(line)
        /\ GoOn
        /\ tableTypes' = TypesAfter(line)
        /\ UNCHANGED <<rules, linking, entries>>
     \/ /\ line.type = "other"
        /\ Read(line)
        /\ Parses(line)
        /\ Fail("table")
        /\ UNCHANGED entries

\* The updates of an add: one interface, or the IPv4 networks of the key and
\* then the IPv6 ones.  The value loses its leading colon.
Updates(line, type) ==
  LET entry(family, key) == [table |-> line.table, family |-> family, key |-> key,
                             value |-> line.value.text]
  IN IF type = "iface" THEN <<entry("iface", line.key)>>
     ELSE [i \in 1..Len(line.nets4) |-> entry("v4", line.nets4[i])]
            \o [i \in 1..Len(line.nets6) |-> entry("v6", line.nets6[i])]

\* builder.Table and builder.addAddress: the registry takes every update, or
\* refuses one and keeps those before it.
TableAdd(line) ==
  LET updates == Updates(line, tableTypes[line.table])
      resolved == line.resolves \/ tableTypes[line.table] = "iface"
  IN /\ IsAdd(line)
     /\ \/ /\ resolved
           /\ ReadOther(line)
           /\ GoOn
           /\ entries' = entries \o updates
           /\ UNCHANGED <<rules, linking, tableTypes>>
        \/ /\ Read(line)
           /\ Parses(line)
           /\ \/ /\ resolved
                 /\ \E taken \in 0..(Len(updates) - 1) :
                      entries' = entries \o SubSeq(updates, 1, taken)
                 /\ Fail("registry")
              \/ ~resolved /\ Fail("table") /\ UNCHANGED entries

\* A table command of a kind the build does not know changes nothing.
TableOther(line) ==
  /\ line.kind = "table" /\ line.op = "unknown"
  /\ ReadOther(line)
  /\ GoOn
  /\ UNCHANGED <<rules, linking, tables>>

\* The end of the ruleset: LinkNumbers, and the error of an unresolved jump.
Finish ==
  /\ IF FallThrough \/ Unresolved = {}
     THEN status' = "built" /\ UNCHANGED failure
     ELSE /\ status' = "failed"
          /\ failure' = [line |-> records[Lowest(Unresolved)], kind |-> "unresolved"]
  /\ rules' = Linked([idx \in numberJumps \ UnresolvedNumbers |-> At(Wanted(idx))])
  /\ UNCHANGED <<linking, tables>>

\* The input is exhausted.
EndOfInput ==
  /\ status = "reading"
  /\ arenas' = Dropped(arenas)
  /\ UNCHANGED <<script, start, numbers, records, number>>
  /\ Finish

\* A command hook's record of kind RecordEOF ends the ruleset.
HookEnds(line) ==
  /\ line.kind = "eof"
  /\ ReadOther(line)
  /\ Finish

ReadLine(line) ==
  \/ ParseFails(line) \/ Skip(line) \/ UnsupportedRecord(line)
  \/ AddOutOfOrder(line) \/ AddUnsupported(line) \/ Add(line)
  \/ Label(line)
  \/ TableCreate(line) \/ TableAdd(line) \/ TableOther(line)
  \/ HookEnds(line)

Next == (\E line \in Lines : ReadLine(line)) \/ EndOfInput

Spec == Init /\ [][Next]_vars

-----------------------------------------------------------------------------
\* Types.  The open rule begins where the arenas end.
TypeOK ==
  /\ script \in Seq(Lines)
  /\ status \in {"reading", "built", "failed"}
  /\ failure \in [line : Nat, kind : FailureKind]
  /\ arenas \in [Arena -> Seq(Token)]
  /\ start = [a \in Arena |-> Len(arenas[a])]
  /\ rules \in Seq(Rule)
  /\ numbers \in Seq(1..MaxNumber)
  /\ records \in Seq(Nat)
  /\ Len(numbers) = Len(rules) /\ Len(records) = Len(rules)
  /\ \A idx \in 1..Len(records) : records[idx] \in 1..Len(script)
  /\ number \in 0..MaxNumber
  /\ labels \in [Labels -> Nat]
  /\ numberJumps \subseteq 1..Len(rules)
  /\ pendingLabels \in [Labels -> SUBSET (1..Len(rules))]
  /\ tableTypes \in [Tables -> {"unset", "addr", "iface"}]
  /\ entries \in Seq(Entry)

\* Rule numbers go up by one at least from rule to rule, whatever numbers the
\* lines give and however the running number wraps: what program.At searches
\* by, and what ErrRuleNumberOrder stands for.
NumbersIncrease ==
  \A i, j \in 1..Len(numbers) : i < j => numbers[i] < numbers[j]

\* A skipto never points at itself or back, before it is linked, once it is,
\* and when it never is: the field's promise, "always past this one", without
\* which a check could loop.
JumpsForward ==
  \A idx \in 1..Len(rules) : rules[idx].kind = "skipto" =>
    rules[idx].jump \in (idx + 1)..(Len(rules) + 1)

\* A jump is linked at most once: an occurrence of a label takes the jumps
\* before it away from every later occurrence.
LinkedOnce ==
  [][\A idx \in 1..Len(rules) :
       rules'[idx].jump # rules[idx].jump => rules[idx].jump = idx + 1]_vars

\* The options that say something about a packet: all but a comment in a block
\* of its own that is not negated.
Meaningful(options) ==
  {i \in 1..Len(options) :
     options[i].kind = "comment" =>
       \/ options[i].neg
       \/ \E k \in 1..Len(options) \ {i} : options[k].block = options[i].block}

\* A run of options is those, each next to the one before it.
KeepsMeaningful(run, options) ==
  LET upTo(i) == {k \in Meaningful(options) : k <= i} IN
  /\ Len(run) = Cardinality(Meaningful(options))
  /\ \A i \in Meaningful(options) : run[Cardinality(upTo(i))] = options[i]

\* A rule is matched by the tokens of its own line and by no others: nothing
\* of a hook's line in between, of the line after or of a comment gets in, and
\* nothing is lost where runs of different rules meet in an arena.
OwnTokens ==
  \A idx \in 1..Len(rules), a \in Arena :
    LET own == Action(idx).body[a]
        run == Run(a, rules[idx].runs[a])
    IN IF a = "options" THEN KeepsMeaningful(run, own) ELSE run = own

\* No later rule or label satisfies the skipto.
Hanging(idx) ==
  IF IsSkipTo(Action(idx), "number")
  THEN \A later \in (idx + 1)..Len(rules) : numbers[later] < Action(idx).number
  ELSE /\ IsSkipTo(Action(idx), "label")
       /\ \A i \in (records[idx] + 1)..Len(script) :
            IsLabel(script[i]) => script[i].label # Action(idx).label

\* A build with a jump to nowhere fails, and it is the first such line of the
\* ruleset that the error names, of either kind and whichever was noticed first.
UnresolvedReported ==
  LET hanging == {idx \in 1..Len(rules) : Hanging(idx)} IN
  /\ failure.kind = "unresolved" =>
       hanging # {} /\ failure.line = records[Lowest(hanging)]
  /\ status = "built" /\ ~FallThrough => hanging = {}

=============================================================================
