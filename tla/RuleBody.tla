------------------------------ MODULE RuleBody ------------------------------
(***************************************************************************)
(* The body of a rule (parser.go, opt.go): which of two grammars it is     *)
(* read by, and how it is read.  The same parsers run over a DiscardState  *)
(* to try what the text could be, then over the caller's State.  A body is *)
(* a sequence of words, and a word is settled when a parser first looks at *)
(* it.  A body that was accepted may be kept, and its canonical text read. *)
(***************************************************************************)
EXTENDS Formatter

CONSTANTS
  Members,    \* bound: what each part of the header is made of, the first word aside
  MaxHeader,  \* bound: the most words of a header, not to count the braces and the `or` of groups
  MaxOptions, \* bound: the most words after it, or of a body without one, counted likewise
  MaxBody     \* bound: the most words of both

VARIABLES
  checker, hook,  \* whether the parser has a ProtoChecker and an OptionHook
  rule,       \* what comes before the body: its action, check-state, or nothing but a comment
  taken,      \* the keywords between the action and the body
  body,       \* the words looked at so far
  at,         \* the word looked at next
  pass,       \* what the parsers run for
  grammar,    \* the grammar chosen
  place,      \* the part of the grammar that comes next
  group,      \* whether an element begins a part or follows in braces, or a separator does
  resume,     \* where the words after the destination begin
  blocks, pattern,   \* the place of the next option
  dynamic,    \* the contexts that saw keep-state, each of a pass of its own
  pushed,     \* what was handed to the State
  verdict,    \* "none", "accepted", or the error
  kept        \* the record the caller made of the rule and had formatted, if it did

options == <<checker, hook, rule>>
counts == <<blocks, pattern, dynamic>>
choice == <<pass, grammar, resume>>
vars == <<options, taken, body, at, choice, place, group, counts, pushed, verdict, kept>>

Listed == {"protocols", "source", "destination"}
Header == Listed \cup {"from", "to", "to only"}
Pass == {"choice", "header", "start", "group", "real"}

Rule == {"body", "check-state", "comment only"}

Init ==
  /\ checker \in BOOLEAN /\ hook \in BOOLEAN /\ rule \in Rule
  /\ taken = {} /\ body = <<>> /\ at = 1
  /\ pass = "choice" /\ grammar = "none" /\ resume = 0
  /\ place = "rule" /\ group = "first"
  /\ blocks = 0 /\ pattern = 0 /\ dynamic = {}
  /\ pushed = <<>> /\ verdict = "none" /\ kept = <<>>

-----------------------------------------------------------------------------
\* The words before the options, or the ports of the destination.
Before == IF resume = 0 THEN 0 ELSE resume - 1

WordAt(i) == ByName(body[i])

\* A tight word comes right after one that need not end in whitespace.
Stands(w) == w.tight => body # <<>> /\ WordAt(Len(body)).text \notin {"from", "to", "or"}

\* How many words after the first n are more than the braces and the `or` of groups.
Elements(n) == Cardinality({i \in (n + 1)..Len(body) : WordAt(i).text \notin {"{", "or", "}"}})

\* The words that may come next, within the bounds.
Offered ==
  CASE place \in {"rule", "body", "first protocol", "trailing"} -> {w \in Words : Stands(w)}
    [] /\ place \in {"options", "destination ports"} /\ group # "separator"
       /\ Elements(Before) < MaxOptions /\ Elements(0) < MaxBody -> {w \in Words : Stands(w)}
    [] group # "separator" /\ place \in Header /\ Elements(0) < MaxHeader ->
         {w \in Words : w.name \in Members[place]}
    [] group = "separator" -> {w \in Words : w.text # "other"}
    [] OTHER -> {}

\* The parsers look at the word w.
Look(w) ==
  /\ verdict = "none"
  /\ IF at <= Len(body) THEN w.name = body[at] /\ UNCHANGED body
     ELSE w \in Offered \cup {End} /\ body' = Append(body, w.name)

\* The parsers start over with the word i.
From(i, part) == at' = i /\ place' = part /\ group' = "first"

\* Mutant: the header found is read by the probe, over its DiscardState.
FoundByProbe ==
  grammar' = "legacy" /\ From(1, "protocols") /\ UNCHANGED <<pass, pushed, verdict>>

Legacy == grammar' = "legacy" /\ pass' = "real" /\ From(1, "protocols") /\ UNCHANGED <<pushed, verdict>>

AnyOn(on) ==
  [on |-> on, at |-> 0, name |-> "any", block |-> 0, pattern |-> 0, kind |-> "unknown"]

\* What has options only is handed over with any source and any destination,
\* which the caller's State, though not a ReduceState, may return an error for.
ImplicitAny(found) ==
  /\ grammar' = found /\ pass' = "real" /\ From(1, "options")
  /\ \/ pushed' = pushed \o <<AnyOn("source"), AnyOn("destination")>> /\ UNCHANGED verdict
     \/ /\ kept = <<>>
        /\ pushed' \in {<<>>, <<AnyOn("source")>>} /\ verdict' = "refused"

Native == ImplicitAny("native")

Probe(for, part) ==
  /\ pass' = for /\ From(1, part)
  /\ UNCHANGED <<grammar, pushed, verdict>>

\* Mutant: a header is tried after it either way.
HeaderAgain(starts) == IF ~starts THEN Legacy ELSE Probe("header", "protocols")

\* startsOptions has its answer. Without a hook a header is tried after it.
Started(starts) ==
  IF ~starts THEN Legacy ELSE IF hook THEN Native ELSE Probe("header", "protocols")

\* Mutant: an option with an error falls back as well.
AnyError(outcome) == outcome # "accepted"

\* Only an unknown option falls back to another grammar or to ports.
FallsBack(outcome) == outcome = "unknown option"

\* A pass ends, with an error or without. Ports before an error stay handed
\* over; those of a source are left out, nothing being made of a failed body.
Ended(outcome) ==
  CASE pass = "header" /\ outcome = "accepted" -> Legacy /\ UNCHANGED resume
    [] pass = "header" /\ outcome # "accepted" ->
         /\ IF hook THEN Probe("start", "options") ELSE Native
         /\ UNCHANGED resume
    [] pass = "start" -> Started(~FallsBack(outcome)) /\ UNCHANGED resume
    [] pass = "group" ->
         /\ pass' = "real"
         /\ From(resume, IF FallsBack(outcome) THEN "destination ports" ELSE "options")
         /\ UNCHANGED <<grammar, resume, pushed, verdict>>
    [] OTHER ->
         /\ verdict' = outcome
         /\ UNCHANGED <<choice, at, place, group, pushed>>

Fails(error) == Ended(error) /\ UNCHANGED counts

\* Mutant: what the probes read is handed over too.
Always == TRUE

\* The probes run over a DiscardState.
ToState == pass = "real"

\* What a word is as an option, for the parser.
OptionOf(w) == IF w.option \in ByHook /\ ~hook THEN "unknown" ELSE w.option

\* A protocol has no pattern, a lone element the first.
Token(on, w) ==
  [on |-> on, at |-> at,
   name |-> CASE on = "option" -> w.same [] on \in {"source ports", "destination ports"} -> w.single
              [] OTHER -> w.name,
   block |-> IF on = "option" THEN blocks ELSE 0,
   pattern |-> IF group = "member" /\ on # "protocol" THEN pattern ELSE 0,
   kind |-> IF on = "option" THEN OptionOf(w) ELSE "unknown"]

Push(on, w) == pushed' = IF ToState THEN Append(pushed, Token(on, w)) ELSE pushed

\* The parsers go on past the word.
Past(part, next) == at' = at + 1 /\ place' = part /\ group' = next

-----------------------------------------------------------------------------
Taken == {keywords \in SUBSET {"log", "logamount", "tag"} : "logamount" \in keywords => "log" \in keywords}

\* parseLog and parseTag match by prefix, each where its keyword may still come.
Eats(keywords, w) ==
  \/ w.eaten = "log" /\ keywords = {}
  \/ w.eaten = "logamount" /\ keywords \in {{}, {"log"}}
  \/ w.eaten = "tag" /\ "tag" \notin keywords

\* parseInstruction, after the action: the rule has a body, the first word of which
\* `log` and `tag` may eat, or at most a comment.  That they are there matters to
\* such a word alone.
Instruction(w) ==
  /\ place = "rule"
  /\ taken' \in IF kept = <<>> /\ rule = "body" /\ w.eaten # "nothing" THEN Taken ELSE {taken}
  /\ CASE rule = "body" /\ ~Eats(taken', w) ->
            From(1, "body") /\ UNCHANGED <<choice, pushed, verdict>>
       [] rule = "comment only" /\ w.option = "comment" ->
            ImplicitAny("comment only") /\ UNCHANGED resume
       [] rule = "check-state" /\ (w.option = "comment" \/ w = End) ->
            /\ grammar' = "check-state" /\ pass' = "real" /\ From(1, "options")
            /\ UNCHANGED <<resume, pushed, verdict>>
       [] OTHER -> verdict' = "syntax" /\ UNCHANGED <<choice, at, place, group, pushed>>
  /\ UNCHANGED counts

\* Mutant: a hook is asked without a header being tried.
StartFirst == Probe("start", "options")

\* A hook must wait until a header is ruled out.
FirstProbe == IF hook THEN Probe("header", "protocols") ELSE Probe("start", "options")

\* parseRuleBody: a checker decides by the first protocol, otherwise the shape.
Choose(w) ==
  /\ pass = "choice" /\ place = "body"
  /\ CASE w = End -> verdict' = "no body" /\ UNCHANGED <<choice, at, place, group, pushed>>
       [] w # End /\ ~checker ->
            FirstProbe /\ UNCHANGED resume
       [] w # End /\ checker /\ w.text = "{" ->
            Past("first protocol", "first") /\ UNCHANGED <<choice, pushed, verdict>>
       [] OTHER -> (IF w.proto /\ w.known THEN Legacy ELSE Native) /\ UNCHANGED resume
  /\ UNCHANGED counts

\* startsProtocol: the first member of a group.
ChooseByMember(w) ==
  /\ pass = "choice" /\ place = "first protocol"
  /\ (IF w.proto /\ w.known THEN Legacy ELSE Native) /\ UNCHANGED <<resume, counts>>

-----------------------------------------------------------------------------
\* What follows a part in the header.
After(part) ==
  CASE part = "protocols" -> "from" [] part = "source" -> "to" [] OTHER -> "trailing"

Fits(w) == IF place = "protocols" THEN w.proto ELSE w.target

Callback == IF place = "protocols" THEN "protocol" ELSE place

\* openGroup: a brace begins a group.
OpenGroup(w) ==
  /\ place \in Listed \cup {"options"} /\ group = "first" /\ w.text = "{"
  /\ Past(place, "member") /\ pattern' = 0
  /\ UNCHANGED <<choice, blocks, dynamic, pushed, verdict>>

\* An element of parseProtocols or parseTargets.
Element(w) ==
  /\ place \in Listed /\ group \in {"first", "member"}
  /\ group = "first" => w.text # "{"
  /\ IF ~Fits(w) THEN Fails("syntax")
     ELSE IF ToState /\ w.refused THEN Fails("refused")
     ELSE /\ Push(Callback, w)
          /\ IF group = "member" THEN Past(place, "separator") ELSE Past(After(place), "first")
          /\ UNCHANGED <<choice, counts, verdict>>

\* group.Next inside braces.
Separator(w) ==
  /\ group = "separator"
  /\ CASE w.text = "or" ->
            /\ Past(place, "member") /\ pattern' = pattern + 1
            /\ UNCHANGED <<choice, blocks, dynamic, pushed, verdict>>
       [] w.text = "}" /\ place # "options" ->
            Past(After(place), "first") /\ UNCHANGED <<choice, counts, pushed, verdict>>
       [] w.text = "}" /\ place = "options" /\ pass = "real" ->
            /\ Past("options", "first") /\ blocks' = blocks + 1
            /\ UNCHANGED <<choice, pattern, dynamic, pushed, verdict>>
       [] w.text = "}" /\ place = "options" /\ pass = "group" -> Fails("accepted")
       [] OTHER -> Fails("syntax")

\* The keywords of parseBodyHeader, and the source ports where `to` may come.
Keyword(w) ==
  /\ place \in Header \ Listed
  /\ CASE w.text = "from" /\ place = "from" -> Past("source", "first") /\ UNCHANGED pushed
       [] w.text = "to" /\ place # "from" -> Past("destination", "first") /\ UNCHANGED pushed
       [] w.text # "to" /\ place = "to" /\ w.port = "ports" /\ ~(ToState /\ w.refused) ->
            Push("source ports", w) /\ Past("to only", "first")
       [] OTHER -> FALSE
  /\ UNCHANGED <<choice, counts, verdict>>

NoKeyword(w) ==
  \/ place = "from" /\ w.text # "from" /\ Fails("syntax")
  \/ place = "to only" /\ w.text # "to" /\ Fails("syntax")
  \/ place = "to" /\ w.text # "to" /\ w.port # "ports" /\ Fails("syntax")
  \/ place = "to" /\ w.text # "to" /\ w.port = "ports" /\ ToState /\ w.refused /\ Fails("refused")

\* Mutant: ports are taken before the options.
PortsFirst(w) ==
  /\ place = "trailing"
  /\ IF pass = "header" THEN Fails("accepted")
     ELSE From(at, "destination ports") /\ UNCHANGED <<choice, counts, pushed, verdict>>

\* The header is over. parseBodyLegacy goes on: a comment is no port, what else
\* there is is tried as a group of options first.
Trailing(w) ==
  /\ place = "trailing"
  /\ CASE pass = "header" -> Fails("accepted")
       [] pass # "header" /\ (w = End \/ w.option = "comment") ->
            From(at, "options") /\ UNCHANGED <<choice, counts, pushed, verdict>>
       [] OTHER ->
            /\ pass' = "group" /\ resume' = at /\ From(at, "options")
            /\ UNCHANGED <<grammar, counts, pushed, verdict>>

\* A word that is no port is left to the options, whatever ports came of it.
DestinationPorts(w) ==
  /\ place = "destination ports"
  /\ IF w.port # "none" /\ w.refused THEN Fails("refused")
     ELSE /\ IF w.port = "none" THEN UNCHANGED pushed ELSE Push("destination ports", w)
          /\ IF w.port = "ports" THEN Past("options", "first") ELSE From(at, "options")
          /\ UNCHANGED <<choice, counts, verdict>>

-----------------------------------------------------------------------------
IsDynamic(kind) == kind \in {"keep-state", "custom keep-state"}

\* Mutant: a probe shares the context of the rule.
SharedContext == "real"

\* Every probe has an optionContext of its own.
Context == pass

\* What parseOption returns for the word.
Outcome(w) ==
  LET kind == OptionOf(w) IN
  CASE kind = "unknown" -> "unknown option"
    [] kind \in {"malformed", "rejected by the hook"} -> "malformed"
    [] IsDynamic(kind) /\ group = "member" -> "dynamic state in group"
    [] IsDynamic(kind) /\ group # "member" /\ Context \in dynamic -> "duplicate dynamic state"
    [] OTHER -> IF ToState /\ w.refused THEN "refused" ELSE "accepted"

ToOption == place = "options" /\ group \in {"first", "member"}

Seen(w) == dynamic' = IF IsDynamic(OptionOf(w)) THEN dynamic \cup {Context} ELSE dynamic

\* An option that ends a probe, or the pass.
OptionFails(w) ==
  /\ ToOption /\ (group = "first" => w.text # "{" /\ w # End)
  /\ Outcome(w) # "accepted" \/ pass = "start"
  /\ Ended(Outcome(w))
  /\ UNCHANGED counts

\* parseOption hands an option over; a lone one is an or-block.
OnOption(w) ==
  /\ ToOption /\ Outcome(w) = "accepted" /\ pass # "start" /\ ~w.tight
  /\ w.option # "comment"
  /\ Seen(w)
  /\ IF group = "member"
     THEN /\ Push("option", w) /\ Past(place, "separator")
          /\ UNCHANGED <<choice, blocks, pattern, verdict>>
     ELSE IF pass = "group" THEN Ended("accepted") /\ UNCHANGED <<blocks, pattern>>
     ELSE /\ pushed' = Append(pushed, Token("option", w))
          /\ Past(place, "first") /\ blocks' = blocks + 1
          /\ UNCHANGED <<choice, pattern, verdict>>

\* A comment takes the rest of the line, right against the last token or among
\* the options, and leaves a group open, which is all a probe sees of it.
OnComment(w) ==
  /\ ToOption /\ w.option = "comment" /\ Outcome(w) = "accepted" /\ pass # "start"
  /\ IF ~ToState THEN Fails("syntax")
     ELSE /\ pushed' = Append(pushed, Token("option", w))
          /\ verdict' = IF group = "member" THEN "syntax" ELSE "accepted"
          /\ blocks' = IF group = "member" THEN blocks ELSE blocks + 1
          /\ UNCHANGED <<choice, at, place, group, pattern, dynamic>>

Over(w) ==
  /\ place = "options" /\ group = "first" /\ w = End
  /\ Fails("accepted")

Step(w) ==
  \/ Choose(w) \/ ChooseByMember(w) \/ OpenGroup(w) \/ Element(w) \/ Separator(w)
  \/ Keyword(w) \/ NoKeyword(w) \/ Trailing(w) \/ DestinationPorts(w)
  \/ OptionFails(w) \/ OnOption(w) \/ OnComment(w) \/ Over(w)

Read ==
  /\ UNCHANGED <<options, kept>>
  /\ \E w \in Words \cup {End} : Look(w) /\ (Instruction(w) \/ (UNCHANGED taken /\ Step(w)))

-----------------------------------------------------------------------------
\* What a ReduceState holds of a callback.
Tokens(on) == FlattenSeq([i \in DOMAIN pushed |-> IF pushed[i].on = on THEN <<pushed[i]>> ELSE <<>>])
Names(tokens) == [i \in DOMAIN tokens |-> tokens[i].name]
Protocols(version) ==
  LET tokens == Tokens("protocol")
  IN Names(FlattenSeq([i \in DOMAIN tokens |->
             IF ByName(tokens[i].name).version = version THEN <<tokens[i]>> ELSE <<>>]))
Targets(on) ==
  LET tokens == Tokens(on)
  IN [i \in DOMAIN tokens |-> [name |-> tokens[i].name, pattern |-> tokens[i].pattern]]

\* The kind an option of the hook's has in the record.
RecordKind(kind) ==
  CASE kind = "custom keep-state" -> "keep-state" [] kind = "custom comment" -> "comment" [] OTHER -> kind
Options ==
  LET tokens == Tokens("option")
  IN [i \in DOMAIN tokens |->
        [kind |-> RecordKind(tokens[i].kind), name |-> tokens[i].name,
         block |-> tokens[i].block, pattern |-> tokens[i].pattern]]

\* isImplicitAnyBody
IsImplicitAny ==
  /\ Tokens("protocol") = <<>> /\ Tokens("source ports") = <<>> /\ Tokens("destination ports") = <<>>
  /\ Names(Tokens("source")) = <<"any">> /\ Names(Tokens("destination")) = <<"any">>

\* parsedRuleBodyKind: by the text, then by the tokens.
BodyKind ==
  CASE rule = "comment only" -> "comment only" [] rule # "comment only" /\ IsImplicitAny -> "native"
    [] OTHER -> "legacy"

ParsedRecord ==
  [checkState |-> rule = "check-state", kind |-> BodyKind,
   versions |-> Protocols(TRUE), protos |-> Protocols(FALSE),
   sources |-> Targets("source"), sourcePorts |-> Names(Tokens("source ports")),
   destinations |-> Targets("destination"), destinationPorts |-> Names(Tokens("destination ports")),
   options |-> Options]

\* The next text is read with what was handed over discarded (state.Reset).
ReadsNext(text) ==
  /\ body' = text /\ From(1, "rule")
  /\ pass' = "choice" /\ grammar' = "none" /\ resume' = 0
  /\ blocks' = 0 /\ pattern' = 0 /\ dynamic' = {}
  /\ pushed' = <<>> /\ verdict' = "none"

\* The caller keeps the record, has it formatted, and reads what it gets.
Format(appender) ==
  /\ verdict = "accepted" /\ kept = <<>> /\ kept' = <<ParsedRecord>>
  /\ UNCHANGED <<options, taken>>
  /\ IF Refusal(ParsedRecord, appender) = "none"
     THEN ReadsNext(Append(Names(InstructionText(ParsedRecord)), "end"))
     ELSE /\ verdict' = Refusal(ParsedRecord, appender)
          /\ UNCHANGED <<body, at, choice, place, group, counts, pushed>>

\* It goes on with the next line, whatever came of this one (Parser.Next).
NextLine ==
  /\ verdict # "none"
  /\ ReadsNext(<<>>) /\ kept' = <<>> /\ rule' \in Rule /\ taken' = {}
  /\ UNCHANGED <<checker, hook>>

Next == Read \/ NextLine \/ \E appender \in BOOLEAN : Format(appender)

Spec == Init /\ [][Next]_vars

-----------------------------------------------------------------------------
\* The word i, or one that may still come, is one of these.
Fitting(i, Is(_)) == i > Len(body) \/ Is(WordAt(i))
Reads(i, text) == i > Len(body) \/ WordAt(i).text = text

\* The words from i to j are one element, or a group of them.
Group(i, j, Is(_)) ==
  \/ i = j /\ Fitting(i, Is)
  \/ /\ i < j /\ (j - i) % 2 = 0 /\ Reads(i, "{") /\ Reads(j, "}")
     /\ \A k \in (i + 1)..(j - 1) : IF (k - i) % 2 = 1 THEN Fitting(k, Is) ELSE Reads(k, "or")

IsProto(w) == w.proto
IsTarget(w) == w.target
IsPort(w) == w.port = "ports" /\ w.text # "to"

\* The body begins with `PROTO from SRC [PORT] to DST`, over before the end.
HeaderBefore(end) ==
  \E f \in 2..(end - 4) :
    /\ Reads(f, "from") /\ Group(1, f - 1, IsProto)
    /\ \E t \in (f + 2)..(end - 2) :
         /\ Reads(t, "to")
         /\ \/ Group(f + 1, t - 1, IsTarget)
            \/ Group(f + 1, t - 2, IsTarget) /\ Fitting(t - 1, IsPort)
         /\ \E e \in (t + 1)..(end - 1) : Group(t + 1, e, IsTarget)

HasHeader == HeaderBefore(Len(body) + 1)

\* The shortest ends of a header have six words.
HeaderMayCome == HeaderBefore(Len(body) + 7)

FirstMember == IF WordAt(1).text = "{" THEN WordAt(2) ELSE WordAt(1)

Handed == {i \in DOMAIN pushed : pushed[i].at # 0}
HandedOptions == {i \in DOMAIN pushed : pushed[i].on = "option"}
DynamicOptions == {i \in HandedOptions : IsDynamic(pushed[i].kind)}

Callbacks == <<"protocol", "source", "source ports", "destination", "destination ports", "option">>
Turn(on) == CHOOSE i \in DOMAIN Callbacks : Callbacks[i] = on

TypeOK ==
  /\ checker \in BOOLEAN /\ hook \in BOOLEAN /\ rule \in Rule /\ taken \in Taken
  /\ body \in Seq(DOMAIN Dictionary \cup {"end"}) /\ at \in 1..(Len(body) + 1)
  /\ pass \in Pass /\ grammar \in {"none", "legacy", "native"} \cup (Rule \ {"body"})
  /\ grammar # "none" <=> pass \in {"group", "real"}
  /\ place \in Header \cup {"rule", "body", "first protocol", "trailing", "destination ports", "options"}
  /\ group \in {"first", "member", "separator"} /\ resume \in 0..Len(body)
  /\ blocks \in Nat /\ pattern \in Nat /\ dynamic \subseteq Pass
  /\ pushed \in Seq([on : {Callbacks[i] : i \in DOMAIN Callbacks}, at : Nat,
                      name : DOMAIN Dictionary, block : Nat, pattern : Nat, kind : Kind])

\* The grammar is the one the text calls for (README.md, WithProtoChecker): with
\* a checker by the first protocol alone, otherwise a complete header wins over
\* options, and anything that begins like no option is a header.
GrammarFollowsTheText ==
  /\ grammar \in {"legacy", "native"} /\ checker =>
       (grammar = "legacy" <=> FirstMember.proto /\ FirstMember.known)
  /\ grammar = "legacy" /\ ~checker => HasHeader \/ OptionOf(FirstMember) = "unknown"
  /\ grammar = "native" /\ ~checker => ~HeaderMayCome /\ OptionOf(FirstMember) # "unknown"

\* A hook is asked how a body begins only when no header is there, nor can be
\* whatever follows the words looked at (parseRuleBody).
HookWaits == pass = "start" /\ hook => ~checker /\ ~HeaderMayCome

\* Of a body that is accepted every word is handed over once, in the order of the
\* text and under the callback of its part, whatever was tried before.
HandedOverOnce ==
  verdict = "accepted" =>
    /\ \A i, j \in Handed :
         i < j => pushed[i].at < pushed[j].at /\ Turn(pushed[i].on) <= Turn(pushed[j].on)
    /\ \A i \in DOMAIN body :
         WordAt(i).text = "other" => \E j \in Handed : pushed[j].at = i
    /\ rule # "check-state" => {"source", "destination"} \subseteq {pushed[i].on : i \in DOMAIN pushed}

\* After the destination a word is a port only when it is no option, and an
\* unknown option only when it is no port (parseBodyLegacy).
PortsAreNoOptions ==
  /\ \A i \in DOMAIN pushed :
       pushed[i].on = "destination ports" => OptionOf(WordAt(pushed[i].at)) = "unknown"
  /\ verdict = "unknown option" /\ resume # 0 /\ at = resume => WordAt(at).port # "ports"

\* A rule creates state once and in no group, and is rejected for a second time
\* only when it did: what was tried does not count (optionContext).
OneDynamicState ==
  /\ \A i, j \in DynamicOptions : i = j
  /\ \A i \in DynamicOptions : \A j \in HandedOptions : pushed[i].block = pushed[j].block => i = j
  /\ verdict = "duplicate dynamic state" => DynamicOptions # {}

\* The passes in their order, a real one once more after the group tried in it.
Turns == IF hook THEN <<"choice", "header", "start", "real", "group">>
         ELSE <<"choice", "start", "header", "real", "group">>
Passed == IF pass = "real" /\ resume # 0 THEN 6 ELSE CHOOSE i \in DOMAIN Turns : Turns[i] = pass

\* The parts that may come next at one word, in their order.
Parted ==
  CASE place = "rule" -> 1 [] place = "body" -> 2 [] place = "trailing" -> 4
    [] place = "destination ports" -> 5 [] place = "options" -> 6 [] OTHER -> 3

\* No text is read without end: until the rule is decided every step reads on, goes
\* on to a later part at the same word, or to a pass no earlier one comes after.
Advances ==
  [][\/ verdict' # verdict
     \/ Passed' > Passed
     \/ Passed' = Passed /\ at' > at
     \/ Passed' = Passed /\ at' = at /\ Parted' > Parted]_vars

\* The canonical text of a rule that was accepted is accepted again; and what the
\* parser read is refused by the formatter for nothing but a missing appender
\* (README.md, Serialization).
CanonicalAccepted == kept # <<>> => verdict \in {"none", "accepted", "no appender"}

\* The canonical text of a rule is read as the same record, by the grammar the kind
\* of the record stands for: the canonical text of it is the same text again.
SameRecord ==
  kept # <<>> /\ verdict = "accepted" =>
    /\ ParsedRecord = kept[1]
    /\ grammar = IF rule = "check-state" THEN rule ELSE kept[1].kind

=============================================================================
