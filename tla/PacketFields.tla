---------------------------- MODULE PacketFields ----------------------------
(***************************************************************************)
(* The fields of a packet within one check (packetFields, vm/vm.go): read  *)
(* when a rule first asks for them, whichever rule that is, and kept.  One *)
(* action is one option, the protocols or one list of ports, that a rule   *)
(* asks.  A field is the set of its value, {} when the packet does not     *)
(* hold it or it has not been read.                                        *)
(***************************************************************************)
EXTENDS Integers, Sequences, FiniteSets

CONSTANTS
  Packets,   \* what the accessors of a Packet answer
  Questions  \* the options and the lists of ports the rules ask

Flag == {"syn", "ack", "rst"}
Protocol == {"tcp", "udp", "sctp", "udplite", "icmp", "icmp6", "other"}
Accessor == {"IsFragment", "SourcePort", "DestinationPort", "TCPFlags", "ICMPType"}
PortRange == [lo : Nat, hi : Nat]

Version == {"v4", "v6", "neither"}

Packet == [version : Version, protocol : Protocol,
           IsFragment : BOOLEAN,
           SourcePort : SUBSET Nat, DestinationPort : SUBSET Nat,
           TCPFlags : SUBSET SUBSET Flag, ICMPType : SUBSET Nat]

\* An alternative of the protocols of a rule: IP versions, or a protocol.
Alternative ==
  [versions : SUBSET {"v4", "v6"}, neg : BOOLEAN] \cup [protocol : Protocol, neg : BOOLEAN]

\* Options that ask nothing of the packet.
Directional == {"in", "out", "antispoof"}
Policy == {"keep-state", "comment", "diverted"}

Question ==
  [kind : Directional \cup Policy] \cup
  [kind : {"protocols"}, group : Seq(Alternative) \ {<<>>}] \cup
  [kind : {"established", "frag"}] \cup
  [kind : {"tcpflags"}, set : SUBSET Flag, clear : SUBSET Flag] \cup
  [kind : {"source ports", "destination ports"}, ranges : Seq(PortRange) \ {<<>>}, neg : BOOLEAN] \cup
  [kind : {"proto"}, protocol : Protocol] \cup
  [kind : {"icmptypes", "icmp6types"}, types : SUBSET Nat]

ASSUME PacketsAssumption == Packets \subseteq Packet
ASSUME QuestionsAssumption == Questions \subseteq Question

\* Before a rule asks anything.
Unasked == [question |-> [kind |-> "none"], holds |-> FALSE]

VARIABLES
  packet, direction,   \* what a check is given
  fields,    \* the fields read, by accessor
  ports, tcp, icmp, fragmentation,   \* whether each was taken
  calls,     \* history: how often each accessor was called
  answer     \* the question asked last and what it answered

given == <<packet, direction>>
vars == <<given, fields, ports, tcp, icmp, fragmentation, calls, answer>>

\* fields.Read takes what every rule looks at, the rest waits.
Init ==
  /\ packet \in Packets /\ direction \in {"in", "out"}
  /\ fields = [accessor \in Accessor |-> IF accessor = "IsFragment" THEN FALSE ELSE {}]
  /\ ports = FALSE /\ tcp = FALSE /\ icmp = FALSE /\ fragmentation = FALSE
  /\ calls = [accessor \in Accessor |-> 0]
  /\ answer = Unasked

-----------------------------------------------------------------------------
\* Calls of the packet's accessors.
Called(accessors) ==
  /\ fields' = [a \in Accessor |-> IF a \in accessors THEN packet[a] ELSE fields[a]]
  /\ calls' = [a \in Accessor |-> IF a \in accessors THEN calls[a] + 1 ELSE calls[a]]
  /\ fragmentation' = (fragmentation \/ "IsFragment" \in accessors)

\* ReadFragment, when a field is asked of a packet of the protocols that have it.
Fragmented == IF fragmentation THEN {} ELSE {"IsFragment"}

\* Mutant: the protocol is left to the packet.
AnyProtocol(protocols, accessors) ==
  IF packet.IsFragment THEN Fragmented ELSE Fragmented \cup accessors

\* Mutant: the fields of a fragment are read.
EvenFragments(protocols, accessors) ==
  IF packet.protocol \in protocols THEN Fragmented \cup accessors ELSE {}

\* readPorts, readFlags and readICMP: nothing of another protocol, and of a
\* fragment only that it is one.
OfWhole(protocols, accessors) ==
  IF packet.protocol \notin protocols THEN {}
  ELSE IF packet.IsFragment THEN Fragmented ELSE Fragmented \cup accessors

Ported == {"tcp", "udp", "sctp", "udplite"}
Icmp == {"icmp", "icmp6"}

ReadPorts ==
  /\ Called(IF ports THEN {} ELSE OfWhole(Ported, {"SourcePort", "DestinationPort"}))
  /\ ports' = TRUE
  /\ UNCHANGED <<tcp, icmp>>

\* Mutant: the flags are read for every rule.
FlagsAgain == FALSE

\* Whether the flags were taken.
FlagsTaken == tcp

ReadFlags ==
  /\ Called(IF FlagsTaken THEN {} ELSE OfWhole({"tcp"}, {"TCPFlags"}))
  /\ tcp' = TRUE
  /\ UNCHANGED <<ports, icmp>>

ReadICMP ==
  /\ Called(IF icmp THEN {} ELSE OfWhole(Icmp, {"ICMPType"}))
  /\ icmp' = TRUE
  /\ UNCHANGED <<ports, tcp>>

ReadFragment ==
  /\ Called(Fragmented)
  /\ UNCHANGED <<ports, tcp, icmp>>

\* fields.Protocol was taken up front.
ReadNothing == UNCHANGED <<fields, ports, tcp, icmp, fragmentation, calls>>

InRange(port, range) == range.lo <= port /\ port <= range.hi

\* matchPorts: a list of ranges under one negation.
MatchPorts(port, q) == (\E i \in DOMAIN q.ranges : InRange(port, q.ranges[i])) # q.neg

Answered(q, holds) == answer' = [question |-> q, holds |-> holds]

Ports(q, accessor) ==
  /\ ReadPorts
  /\ Answered(q, \E port \in fields'[accessor] : MatchPorts(port, q))

\* established holds unless only SYN is set of three flags.
FlagsHold(q, flags) ==
  IF q.kind = "established" THEN flags \cap {"syn", "ack", "rst"} # {"syn"}
  ELSE q.set \subseteq flags /\ flags \cap q.clear = {}

Flags(q) ==
  /\ ReadFlags
  /\ Answered(q, \E flags \in fields'.TCPFlags : FlagsHold(q, flags))

ICMP(q, protocol, versions) ==
  /\ ReadICMP
  /\ Answered(q, /\ packet.version \in versions /\ packet.protocol = protocol
                 /\ fields'.ICMPType \cap q.types # {})

\* matchIPProtos and matchProtos, whose empty list is of any packet.  The order of
\* a list does not matter.
MatchIPProtos(list) ==
  list = {} \/ \E one \in list : packet.version # "neither" /\ (packet.version \in one.versions) # one.neg
MatchProtos(list) == list = {} \/ \E one \in list : (packet.protocol = one.protocol) # one.neg

\* The alternatives of a group come in two lists, by the callback of each.
MatchProtocols(group) ==
  LET members == {group[i] : i \in DOMAIN group}
      versions == {one \in members : "versions" \in DOMAIN one}
      protocols == members \ versions
  IN IF versions # {} /\ protocols # {} THEN MatchIPProtos(versions) \/ MatchProtos(protocols)
     ELSE MatchIPProtos(versions) /\ MatchProtos(protocols)

\* matchPolicy: the fixed answer of an option the machine does not reproduce, and
\* the direction of the check.
MatchPolicy(kind) == IF kind = "antispoof" THEN direction = "out" ELSE kind # "diverted"
MatchDirection(kind) == direction = kind

\* matchOption, and the protocols and ports of a body in VM.matches: an option of
\* ports is a list of one range.
Ask(q) ==
  \/ q.kind = "source ports" /\ Ports(q, "SourcePort")
  \/ q.kind = "destination ports" /\ Ports(q, "DestinationPort")
  \/ q.kind \in {"established", "tcpflags"} /\ Flags(q)
  \/ q.kind = "icmptypes" /\ ICMP(q, "icmp", Version)
  \/ q.kind = "icmp6types" /\ ICMP(q, "icmp6", {"v6"})
  \/ q.kind = "frag" /\ ReadFragment /\ Answered(q, fields'.IsFragment)
  \/ q.kind = "proto" /\ ReadNothing /\ Answered(q, packet.protocol = q.protocol)
  \/ q.kind = "protocols" /\ ReadNothing /\ Answered(q, MatchProtocols(q.group))
  \/ q.kind \in Policy \cup {"antispoof"} /\ ReadNothing /\ Answered(q, MatchPolicy(q.kind))
  \/ q.kind \in {"in", "out"} /\ ReadNothing /\ Answered(q, MatchDirection(q.kind))

Next == UNCHANGED given /\ \E q \in Questions : Ask(q)

Spec == Init /\ [][Next]_vars

-----------------------------------------------------------------------------
\* What a packet has: a field of a protocol that has it, unless it is a later fragment.
Held(accessor, protocols) ==
  IF packet.protocol \in protocols /\ ~packet.IsFragment THEN packet[accessor] ELSE {}

\* What a question means for the packet, whatever was asked before.
Means(q) ==
  CASE q.kind = "source ports" -> \E port \in Held("SourcePort", Ported) : MatchPorts(port, q)
    [] q.kind = "destination ports" ->
         \E port \in Held("DestinationPort", Ported) : MatchPorts(port, q)
    [] q.kind = "established" ->
         \E flags \in Held("TCPFlags", {"tcp"}) : "syn" \in flags => flags # {"syn"}
    [] q.kind = "tcpflags" ->
         \E flags \in Held("TCPFlags", {"tcp"}) :
           q.set \subseteq flags /\ q.clear \subseteq Flag \ flags
    [] q.kind = "icmptypes" -> Held("ICMPType", {"icmp"}) \cap q.types # {}
    [] q.kind = "icmp6types" ->
         packet.version = "v6" /\ Held("ICMPType", {"icmp6"}) \cap q.types # {}
    [] q.kind = "frag" -> packet.IsFragment
    [] q.kind = "proto" -> packet.protocol = q.protocol
    [] q.kind = "protocols" ->
         \E i \in DOMAIN q.group :
           IF "protocol" \in DOMAIN q.group[i]
           THEN q.group[i].neg # (q.group[i].protocol = packet.protocol)
           ELSE packet.version \in IF q.group[i].neg THEN {"v4", "v6"} \ q.group[i].versions
                                   ELSE q.group[i].versions
    [] q.kind \in {"keep-state", "comment"} -> TRUE
    [] q.kind \in {"out", "antispoof"} -> direction = "out"
    [] q.kind = "in" -> direction = "in"
    [] q.kind = "diverted" -> FALSE

\* No accessor is called twice in a check.
TypeOK ==
  /\ packet \in Packets /\ direction \in {"in", "out"}
  /\ fields \in [IsFragment : BOOLEAN,
                 SourcePort : SUBSET Nat, DestinationPort : SUBSET Nat,
                 TCPFlags : SUBSET SUBSET Flag, ICMPType : SUBSET Nat]
  /\ ports \in BOOLEAN /\ tcp \in BOOLEAN /\ icmp \in BOOLEAN /\ fragmentation \in BOOLEAN
  /\ calls \in [Accessor -> 0..1]
  /\ answer # Unasked => answer.question \in Questions /\ answer.holds \in BOOLEAN

\* A rule is answered the same whatever rules before it made the check read: a
\* transport field is that of a first fragment or a whole packet of a protocol
\* that has it (the comment of matchOption), and the protocols of a rule are
\* alternatives, IP versions and others alike.
AnswersMeanThePacket == answer # Unasked => (answer.holds <=> Means(answer.question))

\* A packet is asked within the contract of the Packet interface: a transport
\* field only on a first fragment or a whole packet of a protocol that has it,
\* known to be one by then.
AskedWithinContract ==
  \A a \in Accessor : calls[a] > 0 =>
    /\ a # "IsFragment" => calls["IsFragment"] > 0 /\ ~packet.IsFragment
    /\ a \in {"SourcePort", "DestinationPort"} => packet.protocol \in Ported
    /\ a = "TCPFlags" => packet.protocol = "tcp"
    /\ a = "ICMPType" => packet.protocol \in Icmp

=============================================================================
