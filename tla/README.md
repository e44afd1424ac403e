# ipfw-go, specified

TLA+ modules that say what package `ipfw` and package `vm` of this repository
do, TLC runs that check them on small instances, and proofs, checked by TLAPS,
that the most important facts hold for every instance.

The repository is a parser of `ipfw(8)` rulesets and a machine that checks
packets against them. Almost everything in it runs on one goroutine: what is
hard about it is not concurrency but long sequences of legal lines, numbers at
their limits, one pass over the text that decides where later jumps go, and
scans that must stop at the same place twice.

## The system

| Component | State | Operations | Talks to |
|---|---|---|---|
| Parser (`parser.go`, `lex.go`, `opt.go`, `target.go`, `proto.go`, `port.go`) | rest of the input, line number, the record of the line, the option context of the rule | `Next`, `Reset`, `Records` | calls the `State` for every token of a rule body, the hooks for what the grammar does not know |
| Hooks (`hooks.go`) | the site's | command, option and table-type hooks | called by the parser, a command hook drives the `State` itself |
| Resolver (`vmstate.go`) | none | the seven `State` callbacks | asks the environment for names, calls the `VMState` once per token, or once per network of a name |
| Builder (`vm/vm.go`) | the open rule, arenas, rules, numbers, labels, waiting jumps, table types | `Add`, `Label`, `Table`, `Drop`, `LinkNumbers`, `Unresolved` | is the `VMState`; updates the table registry |
| Program (`vm/vm.go`) | arenas of tokens, rules as runs in them, numbers, records | `Append`, `Mark`, `Close`, `Drop`, `DropComments`, `At`, `Link` | owned by the builder, then read by every check |
| VM (`vm/vm.go`) | none between checks; the packet fields and the rule within one | `Check`, `CheckTrace` | reads the program, the registry, the packet, the context |
| Table registry (`vm/tables.go`) | networks by number of host bits, interfaces | `Add…`, `Lookup…` | filled by a build, read by checks, updated by the caller |
| Packets (`vm/packet.go`) | bytes | accessors | read by the VM |
| Interface masks (`ifmask.go`) | none | `MatchIfMask` | called for `via` |
| Formatter (`format.go`) | none | `AppendRecord`, `AppendRuleset` | renders what the parser read |
| Diagnostics (`diag.go`, `errors.go`) | none | `Diag.WriteTo` | renders a parse error |

What makes each one correct:

- **Builder and program.** Rule numbers go up whatever the lines give and
  however the running number wraps. A jump goes forward before it is linked,
  once it is and when it never is. A label takes the jumps before it, once. A
  jump to nowhere fails the build at the first line that has one. A rule is
  matched by the tokens of its own line. The registry takes the entries in the
  order written, those before a failure included.
- **Check.** It goes through the rules as the ruleset says, forward only, and
  ends.
- **Options.** The walk by sixteen-bit numbers, of the options that are left once
  comments are dropped, answers what the text means, and the tablearg target is that
  of the last lookup that was made.
- **Targets.** A side matches when one of its patterns does. The tablearg target
  comes from the lookups of the scan that matched, the destination after the
  source.
- **Body grammar.** A body is read by the grammar its text calls for, whatever
  was tried before, and every word of it goes to the state once. A word after the
  destination is a port only when it is no option. State is created once.
- **Formatter.** The text of a record is read as the same record again, by the
  grammar the record came from. What the parser read is refused for nothing but a
  missing appender.
- **Tables.** A lookup finds the most specific network, the last added of those.
- **Packets.** Fields read on first use say what fields read up front would.
  Extension headers are followed within the packet. A packet that was built says
  what its builders were given.
- **Masks.** Backtracking from the last star alone decides what trying every run
  would.

## Modules

| Module | What it is |
|---|---|
| `Script` | the lines of a ruleset as the parser hands them over: a record and the tokens before it. Constants and their assumptions |
| `Builder` | `vm.Build` and everything it calls, one action per outcome of a line |
| `BuilderEntries` | what a build does to the registry, said over the script |
| `Ruleset` | what a ruleset means: which line a packet is checked against next. No program, no index, no linking |
| `VM` | `CheckTrace` on the program a build assembled, and the refinement mapping to `Ruleset` |
| `BodyWords` | the words a body is made of, and what every part of the grammar makes of one |
| `Formatter` | the canonical text of a rule: a record of its tokens as words again, and what cannot be written |
| `RuleBody` | the body of a rule: the choice between two grammars, the tries over a discarding state, the header, the ports and the options; then the record the caller keeps, and its canonical text read again |
| `OptionScan` | `parseOptions` numbering the options of a rule, `DropComments` dropping some in place and `matchOptions` walking the others |
| `TargetScan` | `parseTargets` numbering the alternatives of a side, the resolver, the scans that match and the scan for the tablearg target |
| `TableRegistry` | `DefaultTableRegistry`: entries in any order, and lookups |
| `PacketFields` | `packetFields`: the fields of a packet read on first use, and the answer of every option and list of a rule to them |
| `RawIPv6` | `RawIPv6Packet.layout`: the walk over extension headers of a packet that may be cut, and the builders, which change a packet by where the walk ended |
| `IfMask` | `MatchIfMask`, the loop byte by byte |
| `ProgramProofs`, `OptionScanProofs`, `TargetScanProofs`, `TableRegistryProofs`, `PacketFieldsProofs`, `RawIPv6Proofs`, `RuleBodyProofs`, `IfMaskProofs` | the theorems |
| `Samples`, `MCBuilder`, `MCVM`, `MCRuleBody`, `MCTargetScan`, `MCTableRegistry`, `MCPacketFields`, `MCIfMask` | the values of the bounded runs |

`VM` extends `Builder`, which extends `Script`; `Ruleset` extends `Script` and
is instantiated by `VM`. `RuleBody` extends `Formatter`, which extends
`BodyWords`. The others stand alone, as the code they model does: what one hands
to the next is an input of the next. The options `RuleBody` hands over are those
`OptionScan` numbers; whether the options and the targets of a rule match is the
choice between `Miss` and the other actions of `VM`; what a table answers in
`TargetScan` and `VM` is what `TableRegistry` looks up.

### Builder

One action is one turn of the loop of `Build`: `Parser.Next`, with the callbacks
it makes, then `Drop` for a line that is no rule, then the handler of the record.
The parser's reading of text is outside; a *line* is what comes out of it. It may
be malformed, or have a token a callback rejects, and then the build ends. A
command hook may return a record of any kind after handing tokens over, the end
of the ruleset included (`HookEnds`).

| Code | Model |
|---|---|
| `program.rules`, `numbers`, `records` | `rules`, `numbers`, `records`, counted from 1 |
| the seven arenas | `arenas`, by name |
| `builder.start` | `start`, where the open rule's runs begin |
| `builder.number`, 32 bits | `number`, modulo `MaxNumber + 1` |
| `labels`, `pendingLabels` | functions over `Labels`, 0 and `{}` where the map has no key |
| `numberJumps` | a set: the order in which jumps are linked does not matter, each has a target of its own |
| `unresolvedNumbers` | computed at the end (`UnresolvedNumbers`) |
| the registry | `entries`, the updates it accepted; it may refuse any of them |

What `DropComments` keeps is a filter here; that its loop in place is one is shown in
`OptionScan`. Only neighbours are compared, and a line has its blocks as the text puts
them, neighbours with other numbers (`BlocksAreContiguous`). `LinkNumbers` is one step,
since nothing runs in between.
A failed build returns no program: what it did to the builder is not kept, what
it did to the registry is.

### Ruleset and VM

`Ruleset` says the meaning over the lines themselves: the number of a rule by the
lines before it, the target of a jump as the first line that satisfies it,
tablearg by the value looked up. `VM` runs `CheckTrace` over the built program;
whether a rule's body matches is a choice (`Miss`, or one of the others), as is
what a tablearg lookup yields, so every packet and every table is covered. The
mapping takes the status of the build to the phase, and the rule index to the
position of its line. `ImplementsRuleset` is `Ruleset`'s specification under this
mapping, so it covers acceptance, numbering, linking and evaluation at once.

### OptionScan

Options are read one by one (`First`, `Alternative`, `NextRange`, `EndBlock`) and get
the numbers `parseOptions` gives them, modulo `Width`. A comment may be any of them, as a
hook may return one anywhere. The rule is added: `Drop` is one turn of the loop of
`DropComments`, which moves up what it keeps in the very run it reads its neighbours from,
and `EndDrop` cuts the run. Then the walk: `Begin` and `Member` ask options, `Holds`,
`TryNext`, `Fails` and `Succeeds` are what it does at the end of a pattern. What
`matchOption` answers is part of the option, so every packet is covered: an option that
finds a table entry matches and names a target, one that does not may match or not.

`text` is the options as they were handed over, and `begins` what the text says of each:
that it begins a block, a pattern, or is a member of a list. No action reads either. The
properties compare the walk of what is left with the text, the comments included
(`RuleHolds`, `IsLastTarget`). They hold but where `CycleOfComments` does, that is where two
options a whole cycle of numbers apart have nothing between them but comments that are
dropped; `OptionWrap` shows that case, see below.

### RuleBody

A body is a sequence of words, each an element of the grammar with its `not`, known
by name. The `Dictionary` says what every parser would make of a word: a protocol, a
target, a port or a list that breaks off, an option of some kind or of the hook's,
known to the checker, refused by the state, a name that begins with the letters of a
keyword. Words may be several of these at once, as names are. `same` is another spelling
of an option (a hook may return one the parser knows), `single` the name X of a range X-X.
They are chosen when a parser first looks at them and stay what they are,
so a second reading sees the same text. `pass` tells what the parsers run for:

| Code | Model |
|---|---|
| `parseRuleBody`, `startsProtocol` | `Choose`, `ChooseByMember`, pass `choice` |
| `parseBodyHeader` over `DiscardState` | pass `header` |
| `startsOptions` | pass `start` |
| `parseOptionGroup` over `DiscardState` in `parseBodyLegacy` | pass `group` |
| over the caller's `State` | pass `real` |
| `parseProtocols`, `parseTargets`, `openGroup`, `group.Next` | `OpenGroup`, `Element`, `Separator` |
| the keywords and the source ports | `Keyword`, `NoKeyword` |
| `parsePorts` after the destination, `isPortSyntax` | `DestinationPorts` |
| `parseOptions`, `parseOption`, `optionContext.Validate` | `OnOption`, `OptionFails`, `OnComment`, `Over` |
| `optionContext` | `dynamic`, one context for each pass, and `blocks` |
| the rest of `parseInstruction` | `rule`, `taken`, `Instruction`: what comes before the body, `log` and `tag` taking a word that begins like them |
| `ReduceState`, `NewParsedRecord`, `parsedRuleBodyKind` | `ParsedRecord`, of what was handed over |
| `Formatter.AppendRecord` | `Format`: the record is `kept`, and its text read next, or it is refused |
| `State` reset, then `Parser.Next` | `NextLine`, after any outcome |

`pushed` is everything the `State` was handed. An error ends the body, the tokens
before it staying where they are. What is made of a failed body is up to the caller,
so the ports before an error within a list of the source, and the addresses before
one within a list, are left out.

The formatter has no state, so `Formatter` is operators: `InstructionText` is the words
of a record, `Refusal` the error instead. Four places change the text so that it reads
back: a lone protocol that `log` or `tag` would take is braced (`IsHeaderProto`), a range
X-X stays one where X is a keyword or an option (`NeedsRange`), a first option of a hook's
is braced against being read as a header (`Protected`), and only the comment of the line
goes last and bare (`Proper`). An appender writes what the hook reads back, which is its
contract. `Format` makes the composition: accept, keep, write, read. `SameRecord` is that
the second reading gives the record that was kept, so the text of it is the same text
again; `CanonicalAccepted` that neither the formatter nor the parser refuses on the way.

`HeaderBefore` says what a header is with no parser in it, over the words looked at
and, for `HeaderMayCome`, any that could follow. `GrammarFollowsTheText` is what
README.md and the comments of `parseRuleBody` promise: a grammar of options only is
chosen when no header could come of the text, not only when one did not.

### TargetScan

`Element`, `ListMember`, `Or` and `EndSide` are the parser and the resolver: a
target is one member or, for a name, the networks it stands for, none at all
included. `said` and `negs` remember the text. The scans fold the matches of a
pattern (`Match1`, `NextAlternative`), by the family of the address; then `Lookup1`
and `LookedUp` run `lookupTargets`, the destination first, with a switch of its own
(`LookupScan`). `MatchIsMeaning` compares with the alternatives of the text,
`TargetIsLastLookup` with the last lookup the scans that matched had made.

### TableRegistry

`AddNetwork` inserts into the group of the network's host bits, found by binary
search (`Place`); `Lookup` takes the first group that holds the address. `added` is
the history the properties are said over. Addresses, networks and which holds which
are constants. That networks are prefixes, nested or disjoint, is not assumed: the
code and the proofs do without.

### PacketFields, RawIPv6, IfMask

`PacketFields`: an action is one question of a rule: an option, its protocols, or one of
its lists of ports. The protocols are alternatives in the text and two lists in the
program (`MatchProtocols`). `via` and custom options are left out: masks are `IfMask`,
tables `TableRegistry`, and a custom option is the site's. `ports`, `tcp`, `icmp` and
`fragmentation` are the flags that a field was read; the answer must be what the
packet says, whichever questions came before. `AskedWithinContract` is the contract
of the `Packet` interface, that no transport field is asked of a later fragment.

`RawIPv6`: a packet is written header by header, with lengths in the units of each,
then cut, then walked by its bytes (`Pass`). `LayoutIsThePacket` compares with the
headers as written. A builder takes a packet that was walked and returns another, to be
walked anew; `calls` is what the builders were given, `fields` where a transport header
was put, moved when a fragment header goes before it. `BuildersTell` compares.

`IfMask`: `OnStar`, `Take`, `Backtrack`, `GiveUp` and `Finish` are one turn of the
loop. `Matches` is the meaning, every star taking every run; `Members` are what a class
lists, up to the bracket that closes it. Both are recursive functions.

## Runs

| Run | Question | Bounds |
|---|---|---|
| `Builder` | whose tokens does a rule match by, what did the registry take, are jumps that fall through what the ruleset means, and does a check end? | every script of one subject: up to 4 of 14 lines of tokens, comments and hooks, up to 4 of 14 of two tables, or up to 5 of 8 of jumps; unresolved jumps fall through |
| `VMJumps` | do numbering and linking keep rules in order and jumps forward, which line does an unresolved jump blame, and does a check follow the ruleset? | up to 5 lines of rules, labels, jumps and an end of the ruleset, largest number 5, every unresolved jump an error |
| `RuleBody` | which grammar is a body read by, what does the state get, and is its canonical text read as the same? | headers of up to 6 words and 7 with those after them, 2 without one, the braces and `or` of groups not counted, of 20 words, with and without a checker and a hook |
| `HookPort` | is the canonical text the same with any hook? *No*, see below | the same bounds, 10 words, a hook that takes the name of a service |
| `OptionScan` | does the walk of what is left of the options answer what the rule means? | up to 4 options, comments among them, `Width` 2 |
| `OptionWrap` | does dropping a comment change no verdict? *No*, see below | up to 3 options, `Width` 2 |
| `TargetScan` | do the scans answer what the targets mean, and name the last entry found? | up to 3 matches in up to 2 alternatives of a side, `Width` 2, every pair of families |
| `TargetWrap` | do the alternatives of a group count up? *No*, see below | 3 alternatives of names, `Width` 2 |
| `TableRegistry` | does a lookup answer by the most specific, last added entry? | 3 entries in 2 tables, 5 networks of 3 sizes and 2 families, 2 interfaces |
| `PacketFields` | is a rule answered the same whichever fields were read before? | any questions of 20 in any order, every packet, both directions |
| `RawIPv6` | does the walk tell what the packet says, and the packet what its builders were given? | up to 2 extension headers, cut at 14 places; up to 3 headers and builder calls |
| `IfMask` | does the loop decide what every run of every star would? | patterns of up to 5 of 8 bytes, names of up to 3 of 4 |

Why the bounds are enough.

- Builds and checks: five is the smallest largest number that has a gap below and
  above an explicit number, a wrap, and a jump beyond; four lines hold a jump, its
  two labels or two later rules, and a rule after them; five hold two jumps of both
  kinds waiting at the end in either order.
- `RuleBody`: six words are a header with source ports or with a `from` or `to` that is
  a name, with groups at any of its places; one after it, or two after a header of five,
  hold a port and an option, two options that create state, or a group. Without a header,
  two hold a group of two options, and a comment may always follow. `Members` keeps the
  header to words that tell its readings apart: an address, `from` and `to` as names, a
  port that is an option too, one that is refused, a group. A rule that is accepted within
  the bounds is read again whole, whatever the length of its text. Longer bodies repeat these.
- Scans: a width of two is the smallest that tells neighbours apart, and the
  options wrap it. Four hold two blocks of one list each, or three blocks and a comment
  between any two. Two alternatives do not wrap it, which `TargetWrap` does on purpose.
- Tables: three entries are a network, another of its size and one of another size,
  in every order; or one added again around another.
- `PacketFields` is a finite system without a bound: a field is read or not.
- `RawIPv6`: two headers put each kind after each other; the lengths cut the fixed
  header, each header before and after the byte that names the next, and nothing. Three
  builders of a new packet hold an offset, a transport header and the offset again.
- `IfMask`: five bytes hold two stars with a class or an escape between or after
  them, and a class that does not close.

Deadlock is checked only where the system goes on (`PacketFields`, which may always
be asked again); a build, a check, a body and a walk end, and the entries of
`TableRegistry` are bounded.

Fairness. `Builder` assumes weak fairness of `Check`, the loop of `CheckTrace`: it
runs on the caller's goroutine, takes no lock and waits for nothing. The build has no
fairness: `CheckEnds` starts where a build ended. That the parser and the walks over a
packet and a mask end needs none: `Advances`, `GoesOn` and `GetsOn` are measures that go
up with every step, and a text, a packet and a name are finite.

## Findings

`TargetWrap` refutes `MatchIsMeaning` once a side has more alternatives than
pattern numbers. `parseTargets` numbers them with a `uint16` that wraps
(`target.go:70`), while target.go:32 says "the alternatives of a `{ a or b }` group
count up" and vmstate.go:63 "The matches of one pattern are alternatives under one
negation." Two alternatives a whole cycle apart are told from each other only by a
match in between, and a positive name that stands for nothing emits none. A group
of 65,537 alternatives whose middle ones are such names gives its first and its
last the same number next to each other: the scans take them for one pattern, and
the negation of the last is lost.

`OptionWrap` refutes `DropsChangeNoVerdict`, which is what vm.go:273 says of `DropComments`:
"A comment holds for every packet, so dropping it changes no verdict unless it is negated or
shares its or-block with another option. The options of a block are contiguous, so a
neighbour tells." Or-blocks are numbered by a `uint16` that wraps (`opt.go:163`), comments
too, and a hook may return one at any place (`opt.go:327`). Where 65,535 of them stand between
two options, each an or-block of its own, these have the same numbers. Before the drop no two
neighbours of different blocks do; after it these two are neighbours, and `matchOptions` folds
them as one list: a rule that requires both matches when one does. Every other rule is safe
(`VerdictIsMeaning`), one of up to 65,536 options always (`ShortRulesMeanTheirText`).

`HookPort` refutes `SameRecord` for a hook that takes the name of a service. README.md:221
says "Canonical output is parse-equivalent rather than byte-for-byte equal to the source,
and formatting canonical output again returns identical bytes." The range X-X of a port
name is written as X, unless X is an option the parser itself knows (`format.go:725`): the
formatter does not know the hook's. With a hook that takes `http`, `to any http-http`
becomes `to any http`, and that is the hook's option. The dictionary of `RuleBody` has no
such word, so `SameRecord` holds there.

## Proofs

For every value of the constants, from the assumptions the modules state about them alone
(two theorems of `TargetScan` and one of `RuleBody` state one more, below). Every invariant is proved by
an inductive one, `IInv` unless another name is given; its parts are listed with why they
are needed.

**Building** (`ProgramProofs`)

- `NumbersGoUp`, `EveryJumpGoesForward`, `BuildTypes`. To these properties the inductive
  invariant adds what they need: a label stands for a rule up to one past the last, the
  jumps that wait are skiptos that fall through still, and the last number bounds the
  running one unless it wrapped to 0. `At` is a `CHOOSE`; that something satisfies it needs
  the least-element principle (`AtFinds`).
- `JumpsLinkOnce`: an action property from the same invariant. A number jump is linked at
  the end only, a label jump leaves the waiting set as it is linked.
- `FirstJumpToNowhere` (`FollowInv`). What waits is what the lines so far have left
  unresolved, and the records of the rules tell the lines apart and go up; so the least
  waiting record is the first such line, whichever kind of jump was noticed first.
- `RulesMatchOwnTokens` (`OwnInv`). The runs of a rule lie inside the arenas, so that
  growth, compaction and the runs of later rules leave them alone; a rule holds, in each
  arena, the tokens of its line that decide anything, by their rank among the kept ones.
- `RegistryFollowsScript` (`EntriesInv`). The type a table has in the builder is that of
  the last create among the lines read, and the entries are, line after line, those the
  `add` lines ask for, flattened. What is flattened is defined by recursion over the lines
  (`FlattenOneMore`).

**Checking** (`ProgramProofs`)

- `ChecksGoForward`, on the build's invariant, which goes on to hold while checks run: no
  jump a check may take goes back or to the rule it is at, so nothing is left to a stutter.
- `CheckImplementsRuleset` (`MeansInv`): a build and a check implement `Ruleset`, every step
  mapping to a step of it or to none. The invariant says that the rules laid out are those
  of the script, each with the number and the kind its line gives; that the running number
  follows the last rule's, past a wrap too; that the types of tables are those of the last
  create; that a label is kept for its last occurrence; that every linked jump points where
  the script says; and that a check stands before a rule of the program.

**A rule** (`OptionScanProofs`, `TargetScanProofs`)

- `OptionsTypes`, `WalkDecidesMeaning`, `WalkKeepsLastTarget`. While options are read, the
  numbers tell neighbours apart (`Placed`), and blocks of one option each count up, past any
  wrap (`Numbered`). While comments are dropped, what is kept is what decides something of the
  text up to here, and the rest of the run is the text still (`DropInv`, `Keeps`), so the
  neighbours a comment is judged by are those of the text (`GoesIsNothing`).
- `DropKeepsWhatDecides`: what is left is the text without the comments that decide nothing
  (`Left`). So it means what the text does (`LeftMeans`) and makes the same lookups
  (`LeftTarget`); and its numbers tell neighbours apart still, unless a whole cycle of comments
  went from between them (`LeftPlaced`). Under that condition the walk is right: of the options
  before the pattern it is at, every finished block holds and no finished pattern of the
  current one does (`Passed`); the target is that of the last lookup asked so far
  (`LastBefore`). "Asked" is defined by the meaning of the rule, not by the walk.
- `ShortRulesMeanTheirText`: without the condition, for a rule of no more options than numbers.
- `TargetTypes`, whatever the numbers tell. `ScanDecidesMeaning` and `SecondScanFindsLast`
  assume `Distinct`: no number wraps, or every alternative has a match. Without it the
  properties are false, as the run `TargetWrap` shows.

**Tables** (`TableRegistryProofs`)

- `RegistryTypes`, `SearchesSorted`, `LooksUpMostSpecific`, `LooksUpLastInterface`. The
  groups are sorted, and each answers for its host bits: it holds the networks added with
  them, in the order of the last additions (`Answers`, `Keeps`). An addition keeps the
  answers of every other group (`KeepsStill`) and makes its own (`AnswersAppended`); a
  lookup over groups that answer is the best candidate (`LookupBest`). Before the invariant
  holds for the new table the search must have found the place (`PlaceIn`), which needs the
  groups sorted.

**Packets** (`PacketFieldsProofs`, `RawIPv6Proofs`)

- `FieldTypes`, `AnswersAreThePackets`, `AsksWithinContract`. A field that is kept is what
  the packet has, and a bit says so only then; the answers given so far are those of the
  packet; nothing that a contract forbids was asked.
- `WalkTypes`, `WalkTellsThePacket`, `TurnsGoOn`. The walk has passed `n` headers, none of
  them cut and none but the last a later fragment, and stands where the next starts, or
  ended there, or at one that is cut (`At`). That the byte read there is that header's needs
  that headers start eight bytes or more apart (`Laid`, `ByteIs`).
- `BuildersAreHeard`. A packet that says what its builders were given is whole: no header of
  it is cut, no fragment but the last is a later one, and the transport header has its room
  (`Says`); one made by `NewIPv6Packet` has a fragment header at most (`Fragmented`).

**Masks** (`IfMaskProofs`)

- `MaskTypes`, `VerdictDecidesMeaning`. Until there is a verdict, the mask matches if and only
  if the rest of it matches the rest of the name, or if what comes after the last star does
  when the star takes more than it did (`Undecided`). To come back to the last star only is
  enough: had an earlier one taken more, what is between the two would have led to the last
  further on, and the last takes the bytes up to there itself (`Searched`). To take brackets for
  themselves after a class that does not close is right because no later class closes either
  (`Brackets`): the places where a byte of a class begins are those where one of a class that
  begins later does, but for what a first bracket or a backslash covers (`BytesMeet`,
  `LaterUnclosed`).
- `MaskGetsOn`, from the types.

**The body of a rule** (`RuleBodyProofs`)

- `RuleHasOneDynamicState`. Every pass has its parts, and nothing reaches the caller before
  the last (`Parts`); a dynamic option has its or-block to itself and the context of the
  rule, no other, knows of it; the block that is read is after those that are over
  (`Counted`).
- `BodyAdvances`, from the same invariant: passes follow in an order, by the hook, and the
  real one is taken up once after the group tried in it (`Order`).
- `PortsOnlyUnknown`, `BodyTypes` (`WInv`). What is tried after the destination says of its
  first word whether it is an option, and the ports start at that word (`Tried`); what is
  handed over is made of words (`Made`), so the record of a rule that is accepted is
  formatted into words again (`RecordTyped`, `TextTyped`). The text is read back, hence the
  assumption that what the formatter may write is in the dictionary (`SpellingsAssumption`):
  the symbols, the range X-X of a port that would be `to`, the comment of an appender.
- `EveryWordHandedOver`, that every word of an accepted body reaches the `State` once and in
  order (`HInv`). Until the rule is decided, every word before the one looked at, or before
  the group tried, is handed over, each no later in turn than the part being read
  (`Going`); a list of ports that breaks off is handed over before its word is passed, but
  that word is no option, so the rule is rejected (`Doomed`). Each step hands over the word
  it passes, passes one that carries nothing, begins the last pass, or decides
  (`Handover`). That nothing follows the word a rule is accepted at needs that a comment is
  the last word, in the line as in the canonical text (`Ending`, `Behind`). It is stated for
  words of which none that begins an option comment is a target as well (`CommentsApart`):
  a custom target may be any token, `//x` too (`classifyTarget`), and of those nothing is
  proved.
- `HookWaitsForHeader`, `TextDecidesGrammar` (`TInv`): what is looked for before the grammar
  is chosen is a header as `HeaderBefore` defines one. While a header is tried, everything
  read so far reads as one from its start up to the word looked at (`AtHeader`). A word ends
  an element or a group in one way only (`OneEnd`), so where the header being tried breaks
  off there is none, nor can any come of what follows (`NoHeader`, by `NoPart`, `NoFrom`,
  `NoTo`); where it is over there is a whole one (`HeaderDone`). The text is chosen word by
  word, as it is looked at: one that goes on has the headers it had and, where none could
  come, none comes (`FewerHeaders`, `HeaderStays`). So each probe knows what was found before
  it (`Probed`), and the grammar chosen follows from that (`Told`).

`Start`, of `RawIPv6`, the flattening of sequences, `Members` and `Matches` are recursive
functions. Facts about them hold by the least counterexample: a set of numbers with one that
fails has a least (`WFMin`), and the one before it does not fail (`StartsExist`, `LaidOut`,
`FlattenIs`). That there is such a function has to be proved as well; where a value depends on
later places, by what is left of the pattern (`Recursion`, `MembersExist`, `MatchesExist`).

Model-checked only: that an accepted rule is written as text that is accepted again, and
gives the record it was written from (`CanonicalAccepted`, `SameRecord`), since the text
is made by recursion over the record and read by induction over the text; nor does
`SameRecord` follow from what is assumed of the words alone, as run `HookPort` shows;
`CheckEnds`, a liveness property, which the prover does not do.

## Not modelled

- Reading text: the lexer, the spelling of keywords, numbers and addresses, where a
  word ends. A line, a word or an option enters a model as what the parser makes of
  it.
- The lines of a table and of an `add` before its body (`parseTable`,
  `parseAction`): one keyword after another, no state.
- The rest of the formatter: tables, labels, comments of lines, the arguments of actions
  and options, and whether a name is one the parser would read. They write one field
  after another. An exact `not` that a hook takes as a word of its own is left out too,
  in the parser and in the formatter.
- Hooks that take `from` or `to` (`WordsAssumption`). A group of options loses its braces
  around a lone one, so text of such words may read as a header once it is canonical; the
  parser documents no support for them.
- The diagnostics: they render an error.
- IPv4 packets and the fixed offsets of transport headers: data access, an IPv4 header
  having no chain. `WithFragmentOffset` of a fragment header that is cut before its offset.
- The registry behind its interface in `Builder` and `VM`: it may refuse an update
  and answer anything. Updates of a registry between the two scans of a check are
  the caller's.

## Plan

1. `RuleBody` composed with `OptionScan`: the places handed over are the ones walked.
2. `EveryWordHandedOver` without `CommentsApart`, which needs that the header a probe found
   is the one read.
