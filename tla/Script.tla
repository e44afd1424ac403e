------------------------------- MODULE Script -------------------------------
(***************************************************************************)
(* What ipfw.Parser hands over for one physical line: the record it        *)
(* returns, and before it the callbacks it makes on the State, which the   *)
(* ipfw.Resolver turns into tokens of seven kinds.  A text is a model      *)
(* value: only whether two texts are equal matters to a build.             *)
(***************************************************************************)
EXTENDS Integers, Sequences

CONSTANTS
  MaxNumber,     \* the largest rule number, math.MaxUint32 in the code
  Labels,        \* label names
  Tables,        \* table names
  Keys,          \* the texts of interface names and of networks
  Values,        \* the texts of table values, without a leading colon
  HasMatcher,    \* whether vm.Config gives an OptionMatcher
  FallThrough,   \* whether vm.Config.UnresolvedJumps lets jumps fall through
  Lines          \* the lines a script is made of

\* The kinds of token, one arena of the program for each.
Arena == {"ipProtos", "protos", "sources", "destinations",
          "sourcePorts", "destinationPorts", "options"}

\* A token is told from others by what a build looks at: a comment option, a
\* custom one, one of a kind the VM does not know, a table lookup asking for a
\* value by name, or anything else a rule is matched by.
TokenKind == {"comment", "custom", "unknown", "valueByName", "match"}
Token == [kind : TokenKind, neg : BOOLEAN, block : Nat]

\* "eof" is a command hook's record that ends the ruleset before its last
\* line, "unknown" a hook's record of a kind that does not exist, "malformed"
\* a line the parser, a hook or the resolver rejects.
RecordKind == {"empty", "comment", "instruction", "label", "table", "eof",
               "unknown", "malformed"}
Terminal == {"pass", "deny", "reset"}
ActionKind == Terminal \cup {"count", "checkState", "skipto", "unknown"}
SkipToKind == {"number", "label", "tablearg", "unknown"}
TableKind == {"create", "add", "unknown"}
TableType == {"unset", "addr", "iface", "other"}
Network == [family : {"v4", "v6"}, net : Keys]

\* A line is one record of all the fields, those its kind has no use for
\* being of no consequence.  num is 0 when the rule has no number of its own.
\* nets4 and nets6 are what the key of a table entry stands for, through the
\* network parser or the target resolver, and resolves is whether they accept it.
Line == [kind : RecordKind, body : [Arena -> Seq(Token)],
         num : 0..MaxNumber, action : ActionKind,
         to : SkipToKind, number : 0..MaxNumber, label : Labels,
         op : TableKind, table : Tables, type : TableType, key : Keys,
         value : [colon : BOOLEAN, text : Values],
         resolves : BOOLEAN, nets4 : Seq(Keys), nets6 : Seq(Keys)]

ASSUME ConstantsAssumption ==
  /\ MaxNumber \in Nat \ {0}
  /\ HasMatcher \in BOOLEAN
  /\ FallThrough \in BOOLEAN
  /\ Lines \subseteq Line

\* The options of a block are contiguous, the contract of ipfw.Opt. A line has its blocks
\* as the text puts them; how they are numbered, and what a wrap does, is OptionScan.
ASSUME BlocksAreContiguous ==
  \A line \in Lines : LET o == line.body["options"] IN
    \A i, j, k \in DOMAIN o :
      i < j /\ j < k /\ o[i].block = o[k].block => o[j].block = o[i].block

-----------------------------------------------------------------------------
\* Whether the callback of the arena takes the token.
Accepts(a, token) ==
  CASE a = "options" -> \/ token.kind \in {"comment", "match"}
                        \/ token.kind = "custom" /\ HasMatcher
    [] a \in {"sources", "destinations"} -> token.kind # "valueByName"
    [] OTHER -> TRUE

\* Whether Parser.Next returns the record of the line rather than an error:
\* the line has a record and no callback it made rejected its token.
Parses(line) ==
  /\ line.kind # "malformed"
  /\ \A a \in Arena : \A i \in DOMAIN line.body[a] : Accepts(a, line.body[a][i])

\* Whether the VM runs the action of the rule.
SupportedAction(line) ==
  /\ line.action # "unknown"
  /\ line.action = "skipto" => line.to # "unknown"

IsRule(line) == line.kind = "instruction"
IsSkipTo(line, to) == IsRule(line) /\ line.action = "skipto" /\ line.to = to
IsLabel(line) == line.kind = "label"
IsCreate(line) == line.kind = "table" /\ line.op = "create"
IsAdd(line) == line.kind = "table" /\ line.op = "add"

\* The type of the tables a create line makes, an omitted type being addr.
CreatedType(line) == IF line.type = "iface" THEN "iface" ELSE "addr"

\* What the lookups of a rule yield for a skipto tablearg: a value that is a
\* number, one that is a label's name, one that is neither, or no entry.
TableArg == [kind : {"number"}, number : 0..MaxNumber, label : Labels]
              \cup [kind : {"label"}, number : {0}, label : Labels]
              \cup [kind : {"unnamed", "noEntry"}, number : {0}, label : Labels]

=============================================================================
