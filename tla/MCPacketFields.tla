--------------------------- MODULE MCPacketFields ---------------------------
(***************************************************************************)
(* Packets and rules for TLC: every protocol, fragment or not, with each   *)
(* transport field there or missing.                                       *)
(***************************************************************************)
EXTENDS PacketFields

MCPackets ==
  {q \in [version : Version, protocol : Protocol, IsFragment : BOOLEAN,
          SourcePort : {{}, {80}}, DestinationPort : {{}, {53}},
          TCPFlags : {{}, {{}}, {{"syn"}}, {{"syn", "ack"}}}, ICMPType : {{}, {8}}] :
     q.SourcePort = {} => q.DestinationPort = {}}

IP(versions, neg) == [versions |-> versions, neg |-> neg]
Proto(protocol, neg) == [protocol |-> protocol, neg |-> neg]

Between(lo, hi) == [lo |-> lo, hi |-> hi]

MCQuestions ==
  {[kind |-> kind] : kind \in Directional \cup Policy} \cup
  {[kind |-> "protocols", group |-> group] :
     group \in {<<IP({"v4", "v6"}, FALSE)>>, <<IP({"v4"}, TRUE)>>, <<Proto("icmp", TRUE)>>,
               <<Proto("tcp", FALSE), IP({"v6"}, FALSE)>>, <<IP({"v6"}, TRUE), Proto("udp", TRUE)>>}} \cup
  {[kind |-> "established"], [kind |-> "frag"], [kind |-> "proto", protocol |-> "tcp"],
   [kind |-> "tcpflags", set |-> {"syn"}, clear |-> {"ack"}],
   [kind |-> "source ports", ranges |-> <<Between(53, 80)>>, neg |-> FALSE],
   [kind |-> "source ports", ranges |-> <<Between(1, 2), Between(80, 80)>>, neg |-> TRUE],
   [kind |-> "destination ports", ranges |-> <<Between(53, 53)>>, neg |-> FALSE],
   [kind |-> "icmptypes", types |-> {0, 8}], [kind |-> "icmp6types", types |-> {8}]}

=============================================================================
