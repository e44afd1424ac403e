------------------------------ MODULE Samples ------------------------------
(***************************************************************************)
(* The lines the scripts of the bounded runs are made of.                  *)
(***************************************************************************)
EXTENDS Integers, Sequences

LOCAL Arenas == {"ipProtos", "protos", "sources", "destinations",
                 "sourcePorts", "destinationPorts", "options"}

MCLabels == {"A", "B"}
MCTables == {"t", "u"}
MCKeys == {"k", "m"}
MCValues == {"v", "w"}

Token1(kind, neg, block) == [kind |-> kind, neg |-> neg, block |-> block]
Plain == Token1("match", FALSE, 0)
NoBody == [a \in Arenas |-> <<>>]
AnyBody == [NoBody EXCEPT !["sources"] = <<Plain>>, !["destinations"] = <<Plain>>]

Blank == [kind |-> "empty", body |-> NoBody, num |-> 0, action |-> "unknown",
          to |-> "unknown", number |-> 0, label |-> "A",
          op |-> "unknown", table |-> "t", type |-> "unset", key |-> "k",
          value |-> [colon |-> FALSE, text |-> "v"],
          resolves |-> TRUE, nets4 |-> <<>>, nets6 |-> <<>>]

\* Rules, labels and table commands as the grammar reads them.
RuleLine(num, action) ==
  [Blank EXCEPT !.kind = "instruction", !.body = AnyBody, !.num = num, !.action = action]
SkipToNumber(num, n) == [RuleLine(num, "skipto") EXCEPT !.to = "number", !.number = n]
SkipToLabel(l) == [RuleLine(0, "skipto") EXCEPT !.to = "label", !.label = l]
SkipToArg == [RuleLine(0, "skipto") EXCEPT !.to = "tablearg"]
LabelLine(l) == [Blank EXCEPT !.kind = "label", !.label = l]
With(line, arena, tokens) == [line EXCEPT !.body[arena] = tokens]
Create(table, type) ==
  [Blank EXCEPT !.kind = "table", !.op = "create", !.table = table, !.type = type]
AddEntry(table, nets4, nets6) ==
  [Blank EXCEPT !.kind = "table", !.op = "add", !.table = table,
                !.nets4 = nets4, !.nets6 = nets6]

\* A hook's line that ends the ruleset.
EndLine == [Blank EXCEPT !.kind = "eof"]

\* Gaps and the wrap of the numbering, jumps to the own number, back and beyond.
JumpLines ==
  {RuleLine(0, "count"), RuleLine(3, "pass"), RuleLine(5, "deny"),
   [RuleLine(0, "checkState") EXCEPT !.body = NoBody],
   SkipToNumber(0, 1), SkipToNumber(2, 4), SkipToNumber(0, 5),
   SkipToLabel("A"), SkipToLabel("B"), SkipToArg,
   LabelLine("A"), LabelLine("B"), EndLine}

\* The jumps of JumpLines that a build may leave unresolved.
HangingLines ==
  {RuleLine(0, "pass"), RuleLine(4, "count"),
   SkipToNumber(0, 2), SkipToNumber(0, 5), SkipToLabel("A"), SkipToLabel("B"),
   LabelLine("A"), EndLine}

\* Rules with tokens of several kinds, comments alone, negated and in a block
\* with another option, and lines of a hook that hand over tokens of their own.
TokenLines ==
  LET rule == RuleLine(0, "pass")
      note(neg, block) == Token1("comment", neg, block)
      option(block) == Token1("match", FALSE, block)
  IN {With(With(rule, "protos", <<Plain>>), "options", <<note(FALSE, 0)>>),
      With(rule, "options", <<option(0), note(FALSE, 1), note(FALSE, 2), option(3)>>),
      With(rule, "options", <<note(FALSE, 0), option(0), note(TRUE, 1), note(FALSE, 2)>>),
      With(rule, "options", <<Token1("custom", FALSE, 0)>>),
      With(rule, "options", <<Token1("unknown", FALSE, 0)>>),
      With(rule, "sources", <<Plain, Token1("valueByName", FALSE, 0)>>),
      [rule EXCEPT !.action = "unknown"],
      [Blank EXCEPT !.kind = "comment"],
      With(With(Blank, "sources", <<Plain>>), "options", <<option(0), note(FALSE, 1)>>),
      With(LabelLine("A"), "options", <<option(7)>>),
      [With(Blank, "protos", <<Plain>>) EXCEPT !.kind = "unknown"],
      [With(Blank, "sources", <<Plain>>) EXCEPT !.kind = "malformed"],
      With(Create("t", "addr"), "destinations", <<Plain>>),
      EndLine}

\* Tables of either type, created again, never and of a type the VM cannot hold,
\* and entries of one key, of several networks and of none.
TableLines ==
  {Create("t", "unset"), Create("t", "iface"), Create("u", "addr"), Create("u", "other"),
   With(Create("t", "addr"), "destinations", <<Plain>>),
   AddEntry("t", <<"k">>, <<>>),
   [AddEntry("t", <<"k", "m">>, <<"k">>) EXCEPT !.value = [colon |-> TRUE, text |-> "w"]],
   [AddEntry("t", <<>>, <<>>) EXCEPT !.resolves = FALSE],
   AddEntry("u", <<>>, <<"m">>), AddEntry("u", <<>>, <<>>),
   [Blank EXCEPT !.kind = "table"], RuleLine(3, "pass"),
   [With(Blank, "sources", <<Plain>>) EXCEPT !.kind = "malformed"], EndLine}

AllLines == TokenLines \cup TableLines \cup HangingLines

\* Scripts of one subject: up to four lines of tokens or of tables, or up to
\* MaxLines ones of jumps.
OneSubject(script) ==
  LET read == {script[i] : i \in 1..Len(script)} IN
  \/ read \subseteq HangingLines
  \/ Len(script) <= 4 /\ (read \subseteq TokenLines \/ read \subseteq TableLines)

=============================================================================
