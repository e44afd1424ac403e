------------------------------ MODULE Formatter ------------------------------
(***************************************************************************)
(* The canonical text of an instruction (format.go): a record of the       *)
(* tokens of a body, written as the words of a body again.  The names of a *)
(* record are the words as their part means them, and a list of addresses  *)
(* or of ports is one word.                                                *)
(***************************************************************************)
EXTENDS BodyWords, SequencesExt

\* What a text is read back from is in the dictionary: the words around groups
\* and before ports, `to-to`, and the comment an appender writes for each.
ASSUME SpellingsAssumption ==
  /\ \A text \in {"from", "to", "{", "or", "}"} : \E w \in Words : w.text = text
  /\ \A w \in Words : w.text = "to" /\ w.port # "none" =>
       \E v \in Words : v.name # w.single /\ v.single = w.single
  /\ \A w \in Words : w.option \in {"comment", "custom comment"} =>
       \E v \in Words : v.same = w.same /\ v.option = "custom comment"

Symbol(text) == CHOOSE w \in Words : w.text = text
Braced(words) == <<Symbol("{")>> \o words \o <<Symbol("}")>>
Alternatives(words) ==
  [i \in 1..(2 * Len(words) - 1) |-> IF i % 2 = 1 THEN words[(i + 1) \div 2] ELSE Symbol("or")]

\* `log` and `tag` would eat the lone protocol that begins like them.
IsHeaderProto(record) ==
  record.versions = <<>> /\ Len(record.protos) = 1 /\ ByName(record.protos[1]).eaten # "nothing"

\* appendProtocols: the IP versions come first.
ProtocolsText(record) ==
  LET all == record.versions \o record.protos
      words == [i \in DOMAIN all |-> ByName(all[i])]
  IN IF Len(all) > 1 \/ IsHeaderProto(record) THEN Braced(Alternatives(words)) ELSE words

\* appendTargets, every match pattern being one target.
TargetsText(targets) ==
  LET words == [i \in DOMAIN targets |-> ByName(targets[i].name)]
  IN IF Len(targets) > 1 THEN Braced(Alternatives(words)) ELSE words

PatternsFollow(targets) == targets # <<>> /\ \A i \in DOMAIN targets : targets[i].pattern = i - 1

\* Mutant: a range of one port is always written as the port.
NeverForced(name, side) == FALSE

\* bodyPortNeedsRange: X alone would be a keyword, or a built-in option.
NeedsRange(name, side) ==
  \/ ByName(name).text = "to"
  \/ side = "destination" /\ ByName(name).option \in {"plain", "keep-state", "malformed"}

\* appendPorts
PortsText(ports, side) ==
  [i \in DOMAIN ports |->
     IF NeedsRange(ports[i], side)
     THEN CHOOSE w \in Words : w.name # ports[i] /\ w.single = ports[i]
     ELSE ByName(ports[i])]

-----------------------------------------------------------------------------
\* The options before a comment that is the last or-block by itself.
Proper(options) ==
  LET n == Len(options) IN
  IF n > 0 /\ options[n].kind = "comment" /\ (n = 1 \/ options[n - 1].block # options[n].block)
  THEN SubSeq(options, 1, n - 1) ELSE options

SameBlock(options, i) == i + 1 \in DOMAIN options /\ options[i + 1].block = options[i].block
InGroup(options, i) == options[i].pattern > 0 \/ SameBlock(options, i)

\* validateOptionPlaces, every match pattern being one option.
InPlace(options) ==
  \A i \in DOMAIN options :
    IF i = 1 THEN options[i].block = 0 /\ options[i].pattern = 0
    ELSE \/ options[i].block = options[i - 1].block /\ options[i].pattern = options[i - 1].pattern + 1
         \/ options[i].block = options[i - 1].block + 1 /\ options[i].pattern = 0

\* validateStateOptions
StateOptionsFit(options) ==
  LET Dynamic == {i \in DOMAIN options : options[i].kind = "keep-state"} IN
  /\ \A i \in Dynamic : ~InGroup(options, i)
  /\ Cardinality(Dynamic) <= 1

\* What the parser's own syntax cannot say is the appender's.
CustomSyntax(option) == option.kind \in {"custom", "comment"}

\* appendOpt.  The appender writes what the hook reads back as the option.
OptionText(option) ==
  IF option.kind = "comment"
  THEN CHOOSE w \in Words : w.same = option.name /\ w.option = "custom comment"
  ELSE ByName(option.name)

\* Mutant: a first option of the hook's is left as it is.
Unprotected(options, i, native) == FALSE

\* protectFirstCustom: nothing before the options must take it.
Protected(options, i, native) ==
  native /\ i = 1 /\ CustomSyntax(options[i]) /\ ~InGroup(options, i)

\* appendOptions
OptionsText(options, native) ==
  LET proper == Proper(options)
      Text(i) ==
        CASE Protected(proper, i, native) -> Braced(<<OptionText(proper[i])>>)
          [] proper[i].pattern > 0 -> <<Symbol("or"), OptionText(proper[i])>>
          [] proper[i].pattern = 0 /\ InGroup(proper, i) -> <<Symbol("{"), OptionText(proper[i])>>
          [] OTHER -> <<OptionText(proper[i])>>
      Close(i) == IF InGroup(proper, i) /\ ~SameBlock(proper, i) THEN <<Symbol("}")>> ELSE <<>>
  IN FlattenSeq([i \in DOMAIN proper |-> Text(i) \o Close(i)])
       \o (IF proper = options THEN <<>> ELSE <<ByName(options[Len(options)].name)>>)

\* The error of appendInstruction, "none" without one.
Refusal(record, appender) ==
  LET options == record.options
      proper == Proper(options)
      IsComment == Len(options) = 1 /\ proper = <<>>
  IN CASE record.kind = "comment only" \/ (record.checkState /\ options # <<>>) ->
            IF IsComment THEN "none" ELSE "unexpected body"
       [] record.checkState /\ options = <<>> -> "none"
       [] record.kind = "native" /\ options = <<>> -> "unexpected body"
       [] record.kind = "legacy" /\ record.versions \o record.protos = <<>> -> "missing protocol"
       [] ~InPlace(options) \/ ~PatternsFollow(record.sources) \/ ~PatternsFollow(record.destinations) ->
            "broken or-chain"
       [] ~StateOptionsFit(proper) -> "dynamic state"
       [] \E i \in DOMAIN proper : CustomSyntax(proper[i]) /\ ~appender -> "no appender"
       [] OTHER -> "none"

\* appendInstruction, after its action, log and tag.
InstructionText(record) ==
  IF record.checkState \/ record.kind # "legacy"
  THEN OptionsText(record.options, record.kind = "native")
  ELSE ProtocolsText(record) \o <<Symbol("from")>> \o TargetsText(record.sources)
         \o PortsText(record.sourcePorts, "source") \o <<Symbol("to")>>
         \o TargetsText(record.destinations) \o PortsText(record.destinationPorts, "destination")
         \o OptionsText(record.options, FALSE)

=============================================================================
