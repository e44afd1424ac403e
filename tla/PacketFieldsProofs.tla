------------------------- MODULE PacketFieldsProofs -------------------------
(***************************************************************************)
(* Proofs about the fields of a packet within a check (module              *)
(* PacketFields), for any packets and any rules.                           *)
(***************************************************************************)
EXTENDS PacketFields, TLAPS, SequenceTheorems

\* The types of what a question reads.
StateOK ==
  /\ packet \in Packets /\ direction \in {"in", "out"}
  /\ fields \in [IsFragment : BOOLEAN,
                 SourcePort : SUBSET Nat, DestinationPort : SUBSET Nat,
                 TCPFlags : SUBSET SUBSET Flag, ICMPType : SUBSET Nat]
  /\ ports \in BOOLEAN /\ tcp \in BOOLEAN /\ icmp \in BOOLEAN /\ fragmentation \in BOOLEAN
  /\ calls \in [Accessor -> 0..1]

\* A field that was taken is what the packet has, one that was not is not known;
\* its accessor was called when it was taken, and the packet has it.
Kept(taken, accessor, protocols) ==
  /\ fields[accessor] = IF taken THEN Held(accessor, protocols) ELSE {}
  /\ calls[accessor] > 0 =>
       taken /\ fragmentation /\ ~packet.IsFragment /\ packet.protocol \in protocols

\* Every field is taken by one way only, and whether the packet is a fragment by all.
Known ==
  /\ Kept(ports, "SourcePort", Ported) /\ Kept(ports, "DestinationPort", Ported)
  /\ Kept(tcp, "TCPFlags", {"tcp"}) /\ Kept(icmp, "ICMPType", Icmp)
  /\ fields.IsFragment = (fragmentation /\ packet.IsFragment)
  /\ calls["IsFragment"] = IF fragmentation THEN 1 ELSE 0

IInv == TypeOK /\ Known /\ AnswersMeanThePacket

-----------------------------------------------------------------------------
(* Reading.                                                                *)

\* What the accessors of a packet answer.
LEMMA PacketTypes ==
  ASSUME StateOK
  PROVE  /\ packet.version \in Version /\ packet.protocol \in Protocol
         /\ packet.IsFragment \in BOOLEAN
         /\ packet.SourcePort \in SUBSET Nat /\ packet.DestinationPort \in SUBSET Nat
         /\ packet.TCPFlags \in SUBSET SUBSET Flag /\ packet.ICMPType \in SUBSET Nat
<1>1. packet \in Packet
  BY PacketsAssumption DEF StateOK
<1> QED
  BY <1>1 DEF Packet

\* A call of accessors takes the fields of these, and leaves the others.
LEMMA CallTakes ==
  ASSUME StateOK, NEW accessors \in SUBSET Accessor, Called(accessors),
         \A a \in accessors : calls[a] = 0
  PROVE  /\ fields' \in [IsFragment : BOOLEAN,
                         SourcePort : SUBSET Nat, DestinationPort : SUBSET Nat,
                         TCPFlags : SUBSET SUBSET Flag, ICMPType : SUBSET Nat]
         /\ calls' \in [Accessor -> 0..1]
         /\ fragmentation' \in BOOLEAN
         /\ \A a \in Accessor :
              /\ fields'[a] = IF a \in accessors THEN packet[a] ELSE fields[a]
              /\ calls'[a] = IF a \in accessors THEN 1 ELSE calls[a]
<1>1. \A a \in Accessor : calls[a] \in 0..1
  BY DEF StateOK
<1>2. fields' = [a \in Accessor |-> IF a \in accessors THEN packet[a] ELSE fields[a]]
  BY DEF Called
<1>3. calls' = [a \in Accessor |-> IF a \in accessors THEN calls[a] + 1 ELSE calls[a]]
  BY DEF Called
<1>4. calls' \in [Accessor -> 0..1]
  BY <1>1, <1>3
<1>5. \A a \in Accessor : /\ fields'[a] = IF a \in accessors THEN packet[a] ELSE fields[a]
                          /\ calls'[a] = IF a \in accessors THEN 1 ELSE calls[a]
  BY <1>2, <1>3
<1>6. /\ fields'["IsFragment"] \in BOOLEAN
      /\ fields'["SourcePort"] \in SUBSET Nat /\ fields'["DestinationPort"] \in SUBSET Nat
      /\ fields'["TCPFlags"] \in SUBSET SUBSET Flag /\ fields'["ICMPType"] \in SUBSET Nat
  BY <1>5, PacketTypes DEF StateOK, Accessor
<1>7. fields' \in [IsFragment : BOOLEAN,
                   SourcePort : SUBSET Nat, DestinationPort : SUBSET Nat,
                   TCPFlags : SUBSET SUBSET Flag, ICMPType : SUBSET Nat]
  BY <1>2, <1>6 DEF Accessor
<1>8. fragmentation' \in BOOLEAN
  BY DEF Called, StateOK
<1> QED
  BY <1>4, <1>5, <1>7, <1>8

\* The fields of a whole packet of a protocol that has them are taken, at most
\* once, and with them whether it is a fragment.
LEMMA WholeTakes ==
  ASSUME StateOK, Known, UNCHANGED given, NEW protocols \in SUBSET Protocol,
         NEW accessors \in SUBSET (Accessor \ {"IsFragment"}),
         Called(OfWhole(protocols, accessors)),
         \A a \in accessors : fields[a] = {} /\ calls[a] = 0
  PROVE  /\ fields' \in [IsFragment : BOOLEAN,
                         SourcePort : SUBSET Nat, DestinationPort : SUBSET Nat,
                         TCPFlags : SUBSET SUBSET Flag, ICMPType : SUBSET Nat]
         /\ calls' \in [Accessor -> 0..1]
         /\ fragmentation' \in BOOLEAN /\ (fragmentation => fragmentation')
         /\ fields'.IsFragment = (fragmentation' /\ packet'.IsFragment)
         /\ calls'["IsFragment"] = IF fragmentation' THEN 1 ELSE 0
         /\ \A a \in accessors :
              /\ fields'[a] = Held(a, protocols)
              /\ calls'[a] > 0 => /\ packet.protocol \in protocols /\ ~packet.IsFragment
                                  /\ fragmentation'
         /\ \A a \in Accessor \ ({"IsFragment"} \cup accessors) :
              fields'[a] = fields[a] /\ calls'[a] = calls[a]
<1> DEFINE called == OfWhole(protocols, accessors)
<1>0. \A a \in accessors : a \in Accessor /\ fields[a] = {} /\ calls[a] = 0
  OBVIOUS
<1>1. called \in SUBSET Accessor /\ called \subseteq accessors \cup {"IsFragment"}
  BY DEF OfWhole, Fragmented, Accessor
<1>2. \A a \in called : calls[a] = 0
  BY DEF OfWhole, Fragmented, Known
<1>3. "IsFragment" \in called => ~fragmentation
  BY DEF OfWhole, Fragmented
<1>4. /\ fragmentation' <=> (fragmentation \/ "IsFragment" \in called)
      /\ packet.protocol \in protocols /\ ~packet.IsFragment => fragmentation'
  BY DEF Called, OfWhole, Fragmented, StateOK
<1>5. \A a \in accessors : a \in called <=> packet.protocol \in protocols /\ ~packet.IsFragment
  BY DEF OfWhole, Fragmented
<1> HIDE DEF called
<1>6. /\ fields' \in [IsFragment : BOOLEAN,
                      SourcePort : SUBSET Nat, DestinationPort : SUBSET Nat,
                      TCPFlags : SUBSET SUBSET Flag, ICMPType : SUBSET Nat]
      /\ calls' \in [Accessor -> 0..1]
      /\ fragmentation' \in BOOLEAN
      /\ \A a \in Accessor :
           /\ fields'[a] = IF a \in called THEN packet[a] ELSE fields[a]
           /\ calls'[a] = IF a \in called THEN 1 ELSE calls[a]
  BY <1>1, <1>2, CallTakes DEF called
<1>7. packet' = packet /\ packet.IsFragment \in BOOLEAN
  BY PacketTypes DEF given
<1>8. fields'.IsFragment = (fragmentation' /\ packet'.IsFragment)
  BY <1>3, <1>4, <1>6, <1>7 DEF Known, StateOK, Accessor
<1>9. calls'["IsFragment"] = IF fragmentation' THEN 1 ELSE 0
  BY <1>3, <1>4, <1>6 DEF Known, StateOK, Accessor
<1>10. ASSUME NEW a \in accessors
       PROVE  /\ fields'[a] = Held(a, protocols)
              /\ calls'[a] > 0 => /\ packet.protocol \in protocols /\ ~packet.IsFragment
                                  /\ fragmentation'
  <2>1. CASE a \in called
    BY <1>4, <1>5, <1>6, <2>1 DEF Held
  <2>2. CASE a \notin called
    <3>1. fields'[a] = {} /\ calls'[a] = 0
      BY <1>0, <1>6, <2>2
    <3>2. ~(packet.protocol \in protocols /\ ~packet.IsFragment)
      BY <1>5, <2>2
    <3> QED BY <3>1, <3>2 DEF Held
  <2> QED BY <2>1, <2>2
<1>11. \A a \in Accessor \ ({"IsFragment"} \cup accessors) :
         fields'[a] = fields[a] /\ calls'[a] = calls[a]
  BY <1>1, <1>6
<1> QED BY <1>4, <1>6, <1>8, <1>9, <1>10, <1>11

\* What was taken before is not taken again.
LEMMA NothingTaken ==
  ASSUME StateOK, Known, UNCHANGED given, Called({})
  PROVE  /\ fields' \in [IsFragment : BOOLEAN,
                         SourcePort : SUBSET Nat, DestinationPort : SUBSET Nat,
                         TCPFlags : SUBSET SUBSET Flag, ICMPType : SUBSET Nat]
         /\ calls' \in [Accessor -> 0..1]
         /\ fragmentation' = fragmentation
         /\ \A a \in Accessor : fields'[a] = fields[a] /\ calls'[a] = calls[a]
<1>1. fragmentation' = fragmentation
  BY DEF Called, StateOK
<1> QED BY <1>1, CallTakes

LEMMA PortsKeep ==
  ASSUME StateOK, Known, UNCHANGED given, ReadPorts
  PROVE  StateOK' /\ Known' /\ ports'
<1>1. ports' = TRUE /\ UNCHANGED <<packet, direction, tcp, icmp>>
  BY DEF ReadPorts, given
<1>2. CASE ports
  <2>1. Called({})
    BY <1>2 DEF ReadPorts
  <2>2. StateOK'
    BY <1>1, <2>1, NothingTaken DEF StateOK
  <2> QED BY <1>1, <1>2, <2>1, <2>2, NothingTaken DEF Known, Kept, Held, Accessor
<1>3. CASE ~ports
  <2> DEFINE accessors == {"SourcePort", "DestinationPort"}
  <2>1. Called(OfWhole(Ported, accessors))
    BY <1>3 DEF ReadPorts
  <2>2. Ported \in SUBSET Protocol /\ accessors \in SUBSET (Accessor \ {"IsFragment"})
    BY DEF Ported, Protocol, Accessor
  <2>3. \A a \in accessors : fields[a] = {} /\ calls[a] = 0
    BY <1>3 DEF Known, Kept, StateOK, Accessor
  <2>4. StateOK'
    BY <1>1, <2>1, <2>2, <2>3, WholeTakes DEF StateOK
  <2>5. /\ fields'.IsFragment = (fragmentation' /\ packet'.IsFragment)
        /\ calls'["IsFragment"] = IF fragmentation' THEN 1 ELSE 0
        /\ fragmentation => fragmentation'
    BY <2>1, <2>2, <2>3, WholeTakes
  <2>6. \A a \in accessors :
          /\ fields'[a] = Held(a, Ported)
          /\ calls'[a] > 0 => packet.protocol \in Ported /\ ~packet.IsFragment /\ fragmentation'
    BY <2>1, <2>2, <2>3, WholeTakes
  <2>7. \A a \in {"TCPFlags", "ICMPType"} : fields'[a] = fields[a] /\ calls'[a] = calls[a]
    <3>1. {"TCPFlags", "ICMPType"} \subseteq Accessor \ ({"IsFragment"} \cup accessors)
      BY DEF Accessor
    <3> QED BY <2>1, <2>2, <2>3, <3>1, WholeTakes
  <2> QED BY <1>1, <2>4, <2>5, <2>6, <2>7 DEF Known, Kept, Held
<1> QED BY <1>2, <1>3 DEF StateOK

LEMMA FlagsKeep ==
  ASSUME StateOK, Known, UNCHANGED given, ReadFlags
  PROVE  StateOK' /\ Known' /\ tcp'
<1>1. tcp' = TRUE /\ UNCHANGED <<packet, direction, ports, icmp>>
  BY DEF ReadFlags, given
<1>2. CASE tcp
  <2>1. Called({})
    BY <1>2 DEF ReadFlags, FlagsTaken
  <2>2. StateOK'
    BY <1>1, <2>1, NothingTaken DEF StateOK
  <2> QED BY <1>1, <1>2, <2>1, <2>2, NothingTaken DEF Known, Kept, Held, Accessor
<1>3. CASE ~tcp
  <2>1. Called(OfWhole({"tcp"}, {"TCPFlags"}))
    BY <1>3 DEF ReadFlags, FlagsTaken
  <2>2. {"tcp"} \in SUBSET Protocol /\ {"TCPFlags"} \in SUBSET (Accessor \ {"IsFragment"})
    BY DEF Protocol, Accessor
  <2>3. \A a \in {"TCPFlags"} : fields[a] = {} /\ calls[a] = 0
    BY <1>3 DEF Known, Kept, StateOK, Accessor
  <2>4. StateOK'
    BY <1>1, <2>1, <2>2, <2>3, WholeTakes DEF StateOK
  <2>5. /\ fields'.IsFragment = (fragmentation' /\ packet'.IsFragment)
        /\ calls'["IsFragment"] = IF fragmentation' THEN 1 ELSE 0
        /\ fragmentation => fragmentation'
    BY <2>1, <2>2, <2>3, WholeTakes
  <2>6. /\ fields'["TCPFlags"] = Held("TCPFlags", {"tcp"})
        /\ calls'["TCPFlags"] > 0 =>
             packet.protocol \in {"tcp"} /\ ~packet.IsFragment /\ fragmentation'
    BY <2>1, <2>2, <2>3, WholeTakes
  <2>7. \A a \in {"SourcePort", "DestinationPort", "ICMPType"} :
          fields'[a] = fields[a] /\ calls'[a] = calls[a]
    <3>1. {"SourcePort", "DestinationPort", "ICMPType"}
            \subseteq Accessor \ ({"IsFragment"} \cup {"TCPFlags"})
      BY DEF Accessor
    <3> QED BY <2>1, <2>2, <2>3, <3>1, WholeTakes
  <2> QED BY <1>1, <2>4, <2>5, <2>6, <2>7 DEF Known, Kept, Held
<1> QED BY <1>2, <1>3 DEF StateOK

LEMMA ICMPKeeps ==
  ASSUME StateOK, Known, UNCHANGED given, ReadICMP
  PROVE  StateOK' /\ Known' /\ icmp'
<1>1. icmp' = TRUE /\ UNCHANGED <<packet, direction, ports, tcp>>
  BY DEF ReadICMP, given
<1>2. CASE icmp
  <2>1. Called({})
    BY <1>2 DEF ReadICMP
  <2>2. StateOK'
    BY <1>1, <2>1, NothingTaken DEF StateOK
  <2> QED BY <1>1, <1>2, <2>1, <2>2, NothingTaken DEF Known, Kept, Held, Accessor
<1>3. CASE ~icmp
  <2>1. Called(OfWhole(Icmp, {"ICMPType"}))
    BY <1>3 DEF ReadICMP
  <2>2. Icmp \in SUBSET Protocol /\ {"ICMPType"} \in SUBSET (Accessor \ {"IsFragment"})
    BY DEF Icmp, Protocol, Accessor
  <2>3. \A a \in {"ICMPType"} : fields[a] = {} /\ calls[a] = 0
    BY <1>3 DEF Known, Kept, StateOK, Accessor
  <2>4. StateOK'
    BY <1>1, <2>1, <2>2, <2>3, WholeTakes DEF StateOK
  <2>5. /\ fields'.IsFragment = (fragmentation' /\ packet'.IsFragment)
        /\ calls'["IsFragment"] = IF fragmentation' THEN 1 ELSE 0
        /\ fragmentation => fragmentation'
    BY <2>1, <2>2, <2>3, WholeTakes
  <2>6. /\ fields'["ICMPType"] = Held("ICMPType", Icmp)
        /\ calls'["ICMPType"] > 0 =>
             packet.protocol \in Icmp /\ ~packet.IsFragment /\ fragmentation'
    BY <2>1, <2>2, <2>3, WholeTakes
  <2>7. \A a \in {"SourcePort", "DestinationPort", "TCPFlags"} :
          fields'[a] = fields[a] /\ calls'[a] = calls[a]
    <3>1. {"SourcePort", "DestinationPort", "TCPFlags"}
            \subseteq Accessor \ ({"IsFragment"} \cup {"ICMPType"})
      BY DEF Accessor
    <3> QED BY <2>1, <2>2, <2>3, <3>1, WholeTakes
  <2> QED BY <1>1, <2>4, <2>5, <2>6, <2>7 DEF Known, Kept, Held
<1> QED BY <1>2, <1>3 DEF StateOK

LEMMA FragmentKeeps ==
  ASSUME StateOK, Known, UNCHANGED given, ReadFragment
  PROVE  StateOK' /\ Known' /\ fragmentation'
<1>1. UNCHANGED <<packet, direction, ports, tcp, icmp>> /\ Called(Fragmented)
  BY DEF ReadFragment, given
<1>2. Fragmented \in SUBSET Accessor /\ \A a \in Fragmented : calls[a] = 0
  BY DEF Fragmented, Accessor, Known
<1>3. fragmentation' = TRUE
  BY <1>1 DEF Called, Fragmented, StateOK
<1>4. StateOK'
  BY <1>1, <1>2, CallTakes DEF StateOK
<1>5. \A a \in Accessor : /\ fields'[a] = IF a \in Fragmented THEN packet[a] ELSE fields[a]
                          /\ calls'[a] = IF a \in Fragmented THEN 1 ELSE calls[a]
  BY <1>1, <1>2, CallTakes
<1>6. \A a \in {"SourcePort", "DestinationPort", "TCPFlags", "ICMPType"} :
        fields'[a] = fields[a] /\ calls'[a] = calls[a]
  BY <1>5 DEF Fragmented, Accessor
<1>7. fields'.IsFragment = packet.IsFragment /\ calls'["IsFragment"] = 1
  BY <1>5, PacketTypes DEF Fragmented, Accessor, Known, StateOK
<1> QED BY <1>1, <1>3, <1>4, <1>6, <1>7, PacketTypes DEF Known, Kept, Held

-----------------------------------------------------------------------------
(* Answering.                                                              *)

\* What the questions of each kind hold.
LEMMA QuestionTypes ==
  ASSUME NEW q \in Questions
  PROVE  /\ q.kind \in Directional \cup Policy \cup
              {"protocols", "established", "frag", "tcpflags", "source ports", "destination ports",
               "proto", "icmptypes", "icmp6types"}
         /\ q.kind = "tcpflags" => q.clear \in SUBSET Flag
         /\ q.kind = "protocols" => q.group \in Seq(Alternative) /\ q.group # <<>>
<1>1. q \in Question
  BY QuestionsAssumption
<1> QED BY <1>1 DEF Question, Directional, Policy

\* An alternative is one of IP versions or one of a protocol.
LEMMA AlternativeTypes ==
  ASSUME NEW one \in Alternative
  PROVE  /\ one.neg \in BOOLEAN
         /\ "versions" \in DOMAIN one <=> "protocol" \notin DOMAIN one
         /\ "versions" \in DOMAIN one => one.versions \in SUBSET {"v4", "v6"}
  BY DEF Alternative

\* What an alternative means for a packet.
Alike(one) ==
  IF "protocol" \in DOMAIN one
  THEN one.neg # (one.protocol = packet.protocol)
  ELSE packet.version \in IF one.neg THEN {"v4", "v6"} \ one.versions ELSE one.versions

\* The two lists of a group answer what its alternatives mean.
LEMMA ProtocolsMeanTheGroup ==
  ASSUME StateOK, NEW group \in Seq(Alternative), group # <<>>
  PROVE  MatchProtocols(group) <=> \E i \in DOMAIN group : Alike(group[i])
<1> DEFINE members == {group[i] : i \in DOMAIN group}
           versions == {one \in members : "versions" \in DOMAIN one}
           protocols == members \ versions
<1>1. members # {} /\ \A one \in members : one \in Alternative
  <2>1. Len(group) \in Nat /\ Len(group) # 0 /\ DOMAIN group = 1..Len(group)
        /\ \A i \in 1..Len(group) : group[i] \in Alternative
    BY EmptySeq, LenProperties
  <2>2. 1 \in DOMAIN group
    BY <2>1
  <2> QED BY <2>1, <2>2
<1>2. packet.version \in Version
  BY PacketTypes
<1>3. \A one \in versions :
        Alike(one) <=> packet.version # "neither" /\ (packet.version \in one.versions) # one.neg
  BY <1>1, <1>2, AlternativeTypes DEF Alike, Version
<1>4. \A one \in protocols : Alike(one) <=> (packet.protocol = one.protocol) # one.neg
  BY <1>1, AlternativeTypes DEF Alike
<1>5. versions # {} => (MatchIPProtos(versions) <=> \E one \in versions : Alike(one))
  BY <1>3 DEF MatchIPProtos
<1>6. protocols # {} => (MatchProtos(protocols) <=> \E one \in protocols : Alike(one))
  BY <1>4 DEF MatchProtos
<1>7. MatchIPProtos({}) /\ MatchProtos({})
  BY DEF MatchIPProtos, MatchProtos
<1>8. MatchProtocols(group) <=> IF versions # {} /\ protocols # {}
                                THEN MatchIPProtos(versions) \/ MatchProtos(protocols)
                                ELSE MatchIPProtos(versions) /\ MatchProtos(protocols)
  BY DEF MatchProtocols
<1>9. (\E one \in members : Alike(one)) <=>
        (\E one \in versions : Alike(one)) \/ (\E one \in protocols : Alike(one))
  OBVIOUS
<1>10. (\E one \in members : Alike(one)) <=> \E i \in DOMAIN group : Alike(group[i])
  OBVIOUS
<1>11. versions # {} \/ protocols # {}
  BY <1>1
<1> HIDE DEF members, versions, protocols
<1> QED BY <1>5, <1>6, <1>7, <1>8, <1>9, <1>10, <1>11

\* A question is answered by what the packet means, and takes what it needs.
LEMMA AskAnswers ==
  ASSUME StateOK, Known, UNCHANGED given, NEW q \in Questions, Ask(q)
  PROVE  /\ StateOK' /\ Known'
         /\ answer'.question = q /\ answer'.holds \in BOOLEAN
         /\ answer'.holds <=> Means(q)'
<1> USE QuestionTypes
<1>1. packet' = packet /\ direction' = direction
  BY DEF given
<1>2. CASE q.kind \in {"source ports", "destination ports"}
  <2>1. PICK accessor \in {"SourcePort", "DestinationPort"} :
          /\ Ports(q, accessor)
          /\ q.kind = "source ports" => accessor = "SourcePort"
          /\ q.kind = "destination ports" => accessor = "DestinationPort"
    BY <1>2 DEF Ask, Directional, Policy
  <2>2. StateOK' /\ Known' /\ ports'
    BY <2>1, PortsKeep DEF Ports
  <2>3. fields'[accessor] = Held(accessor, Ported)'
    BY <2>1, <2>2 DEF Known, Kept
  <2>4. answer' = [question |-> q,
                   holds |-> \E port \in Held(accessor, Ported)' : MatchPorts(port, q)]
    BY <2>1, <2>3 DEF Ports, Answered
  <2>5. Means(q)' <=> \E port \in Held(accessor, Ported)' : MatchPorts(port, q)
    BY <1>2, <2>1 DEF Means, MatchPorts, Held
  <2> QED BY <2>2, <2>4, <2>5
<1>3. CASE q.kind \in {"established", "tcpflags"}
  <2>1. Flags(q)
    BY <1>3 DEF Ask, Directional, Policy
  <2>2. StateOK' /\ Known' /\ tcp'
    BY <2>1, FlagsKeep DEF Flags
  <2>3. fields'.TCPFlags = Held("TCPFlags", {"tcp"})' /\ fields'.TCPFlags \in SUBSET SUBSET Flag
    BY <2>2 DEF Known, Kept, StateOK
  <2>4. answer' = [question |-> q, holds |-> \E flags \in Held("TCPFlags", {"tcp"})' : FlagsHold(q, flags)]
    BY <2>1, <2>3 DEF Flags, Answered
  <2>5. CASE q.kind = "established"
    <3>1. \A flags \in SUBSET Flag : FlagsHold(q, flags) <=> ("syn" \in flags => flags # {"syn"})
      BY <2>5 DEF FlagsHold, Flag
    <3>2. Means(q)' <=> \E flags \in Held("TCPFlags", {"tcp"})' : "syn" \in flags => flags # {"syn"}
      BY <2>5 DEF Means
    <3>3. \A flags \in Held("TCPFlags", {"tcp"})' : flags \in SUBSET Flag
      BY <2>3
    <3>4. Means(q)' <=> \E flags \in Held("TCPFlags", {"tcp"})' : FlagsHold(q, flags)
      BY <3>1, <3>2, <3>3
    <3> QED BY <2>2, <2>4, <3>4
  <2>6. CASE q.kind = "tcpflags"
    <3>1. \A flags \in SUBSET Flag :
            FlagsHold(q, flags) <=> q.set \subseteq flags /\ q.clear \subseteq Flag \ flags
      BY <2>6 DEF FlagsHold
    <3>2. Means(q)' <=> \E flags \in Held("TCPFlags", {"tcp"})' :
                          q.set \subseteq flags /\ q.clear \subseteq Flag \ flags
      BY <2>6 DEF Means
    <3>3. \A flags \in Held("TCPFlags", {"tcp"})' : flags \in SUBSET Flag
      BY <2>3
    <3>4. Means(q)' <=> \E flags \in Held("TCPFlags", {"tcp"})' : FlagsHold(q, flags)
      BY <3>1, <3>2, <3>3
    <3> QED BY <2>2, <2>4, <3>4
  <2> QED BY <1>3, <2>5, <2>6
<1>4. CASE q.kind \in {"icmptypes", "icmp6types"}
  <2>1. PICK protocol, versions :
          /\ ICMP(q, protocol, versions)
          /\ q.kind = "icmptypes" => protocol = "icmp" /\ versions = Version
          /\ q.kind = "icmp6types" => protocol = "icmp6" /\ versions = {"v6"}
    BY <1>4 DEF Ask, Directional, Policy
  <2>2. StateOK' /\ Known' /\ icmp'
    BY <2>1, ICMPKeeps DEF ICMP
  <2>3. fields'.ICMPType = Held("ICMPType", Icmp)'
    BY <2>2 DEF Known, Kept
  <2>4. answer' = [question |-> q, holds |-> /\ packet.version \in versions /\ packet.protocol = protocol
                                             /\ fields'.ICMPType \cap q.types # {}]
    BY <2>1 DEF ICMP, Answered
  <2>5. packet.version \in Version
    BY PacketTypes
  <2>6. CASE q.kind = "icmptypes"
    <3>1. Means(q)' <=> Held("ICMPType", {"icmp"})' \cap q.types # {}
      BY <2>6 DEF Means
    <3>2. packet.protocol = "icmp" => Held("ICMPType", {"icmp"})' = Held("ICMPType", Icmp)'
      BY <1>1 DEF Held, Icmp
    <3>3. packet.protocol # "icmp" => Held("ICMPType", {"icmp"})' = {}
      BY <1>1 DEF Held
    <3> QED BY <2>1, <2>2, <2>3, <2>4, <2>5, <2>6, <3>1, <3>2, <3>3
  <2>7. CASE q.kind = "icmp6types"
    <3>1. Means(q)' <=> packet.version = "v6" /\ Held("ICMPType", {"icmp6"})' \cap q.types # {}
      BY <1>1, <2>7 DEF Means
    <3>2. packet.protocol = "icmp6" => Held("ICMPType", {"icmp6"})' = Held("ICMPType", Icmp)'
      BY <1>1 DEF Held, Icmp
    <3>3. packet.protocol # "icmp6" => Held("ICMPType", {"icmp6"})' = {}
      BY <1>1 DEF Held
    <3> QED BY <2>1, <2>2, <2>3, <2>4, <2>7, <3>1, <3>2, <3>3
  <2> QED BY <1>4, <2>6, <2>7
<1>5. CASE q.kind = "frag"
  <2>1. ReadFragment /\ answer' = [question |-> q, holds |-> fields'.IsFragment]
    BY <1>5 DEF Ask, Answered, Directional, Policy
  <2>2. StateOK' /\ Known' /\ fragmentation'
    BY <2>1, FragmentKeeps
  <2>3. fields'.IsFragment = packet'.IsFragment /\ packet.IsFragment \in BOOLEAN
    BY <1>1, <2>2, PacketTypes DEF Known, StateOK
  <2> QED BY <1>1, <1>5, <2>1, <2>2, <2>3 DEF Means
<1>6. CASE q.kind \in {"proto", "protocols"} \cup Policy \cup Directional
  <2>1. ReadNothing
    BY <1>6 DEF Ask, Directional, Policy
  <2>2. StateOK' /\ Known'
    BY <1>1, <2>1 DEF ReadNothing, StateOK, Known, Kept, Held
  <2>3. CASE q.kind = "proto"
    <3>1. answer' = [question |-> q, holds |-> packet.protocol = q.protocol]
      BY <2>3 DEF Ask, Answered, Directional, Policy
    <3>2. Means(q)' <=> packet.protocol = q.protocol
      BY <1>1, <2>3 DEF Means
    <3> QED BY <2>2, <3>1, <3>2
  <2>4. CASE q.kind = "protocols"
    <3>1. answer' = [question |-> q, holds |-> MatchProtocols(q.group)]
      BY <2>4 DEF Ask, Answered, Directional, Policy
    <3>2. Means(q)' <=> \E i \in DOMAIN q.group : Alike(q.group[i])
      BY <1>1, <2>4 DEF Means, Alike
    <3>3. MatchProtocols(q.group) \in BOOLEAN
      BY DEF MatchProtocols, MatchProtos, MatchIPProtos
    <3> QED BY <2>2, <2>4, <3>1, <3>2, <3>3, ProtocolsMeanTheGroup
  <2>5. CASE q.kind \in Policy \cup {"antispoof"}
    <3>1. answer' = [question |-> q, holds |-> MatchPolicy(q.kind)]
      BY <2>5 DEF Ask, Answered, Directional, Policy
    <3>2. Means(q)' <=> MatchPolicy(q.kind)
      BY <1>1, <2>5 DEF Means, MatchPolicy, Policy
    <3>3. MatchPolicy(q.kind) \in BOOLEAN
      BY DEF MatchPolicy
    <3> QED BY <2>2, <3>1, <3>2, <3>3
  <2>6. CASE q.kind \in {"in", "out"}
    <3>1. answer' = [question |-> q, holds |-> direction = q.kind]
      BY <2>6 DEF Ask, Answered, MatchDirection, Directional, Policy
    <3>2. Means(q)' <=> direction = q.kind
      BY <1>1, <2>6 DEF Means
    <3> QED BY <2>2, <3>1, <3>2
  <2> QED BY <1>6, <2>3, <2>4, <2>5, <2>6 DEF Directional, Policy
<1> QED BY <1>2, <1>3, <1>4, <1>5, <1>6, QuestionTypes

-----------------------------------------------------------------------------
LEMMA InitIInv == Init => IInv
<1> SUFFICES ASSUME Init PROVE IInv
  OBVIOUS
<1>0. /\ fields.IsFragment = FALSE /\ fields.SourcePort = {} /\ fields.DestinationPort = {}
      /\ fields.TCPFlags = {} /\ fields.ICMPType = {}
      /\ \A accessor \in Accessor : calls[accessor] = 0
  BY DEF Init, Accessor
<1>1. StateOK /\ answer = Unasked
  <2>1. fields \in [IsFragment : BOOLEAN,
                   SourcePort : SUBSET Nat, DestinationPort : SUBSET Nat,
                   TCPFlags : SUBSET SUBSET Flag, ICMPType : SUBSET Nat]
    BY <1>0 DEF Init, Accessor
  <2>2. calls \in [Accessor -> 0..1]
    BY DEF Init
  <2> QED BY <2>1, <2>2 DEF Init, StateOK
<1>2. Known
  <2>1. ASSUME NEW accessor \in Accessor \ {"IsFragment"}, NEW protocols
        PROVE  Kept(FALSE, accessor, protocols)
    BY <1>0, <2>1 DEF Kept, Accessor
  <2>2. ~ports /\ ~tcp /\ ~icmp /\ fragmentation = FALSE
    BY DEF Init
  <2> QED BY <1>0, <2>1, <2>2 DEF Known, Kept, Accessor
<1> QED BY <1>1, <1>2 DEF IInv, TypeOK, StateOK, AnswersMeanThePacket

LEMMA NextKeeps == IInv /\ [Next]_vars => IInv'
<1> SUFFICES ASSUME IInv, [Next]_vars PROVE IInv'
  OBVIOUS
<1>1. StateOK /\ Known
  BY DEF IInv, TypeOK, StateOK
<1>2. ASSUME UNCHANGED given, NEW q \in Questions, Ask(q) PROVE IInv'
  <2>1. /\ StateOK' /\ Known' /\ answer'.question = q /\ answer'.holds \in BOOLEAN
        /\ answer'.holds <=> Means(q)'
    BY <1>1, <1>2, AskAnswers
  <2>2. AnswersMeanThePacket'
    BY <2>1 DEF AnswersMeanThePacket, Means, Held
  <2> QED BY <2>1, <2>2 DEF IInv, TypeOK, StateOK
<1>3. CASE UNCHANGED vars
  <2>1. UNCHANGED <<packet, direction, fields, ports, tcp, icmp, fragmentation, calls, answer>>
    BY <1>3 DEF vars, given
  <2>2. TypeOK'
    BY <2>1 DEF IInv, TypeOK
  <2>3. Known'
    BY <2>1 DEF IInv, Known, Kept, Held
  <2>4. AnswersMeanThePacket'
    <3>1. \A q : Means(q)' = Means(q)
      BY <2>1 DEF Means, Held
    <3> QED BY <2>1, <3>1 DEF IInv, AnswersMeanThePacket
  <2> QED BY <2>2, <2>3, <2>4 DEF IInv
<1> QED BY <1>2, <1>3 DEF Next

\* A check knows of a packet what it took, and took every field once.
THEOREM FieldsInvariant == Spec => []IInv
<1> QED BY InitIInv, NextKeeps, PTL DEF Spec

\* No accessor of a packet is called twice in a check, and the fields have their
\* types, whatever a packet holds and a rule asks.
THEOREM FieldTypes == Spec => []TypeOK
<1>1. IInv => TypeOK
  BY DEF IInv
<1> QED BY FieldsInvariant, <1>1, PTL

\* Every question of a rule is answered by what it means for the packet, whatever
\* the rules before made the check read: the fields read late say what fields
\* read at the start would.
THEOREM AnswersAreThePackets == Spec => []AnswersMeanThePacket
<1>1. IInv => AnswersMeanThePacket
  BY DEF IInv
<1> QED BY FieldsInvariant, <1>1, PTL

\* No accessor is called outside its contract: a transport field is asked only of
\* a packet of a protocol that has it, once it is known to be no later fragment.
THEOREM AsksWithinContract == Spec => []AskedWithinContract
<1>1. IInv => AskedWithinContract
  <2> SUFFICES ASSUME IInv, NEW a \in Accessor, calls[a] > 0
               PROVE  /\ a # "IsFragment" => calls["IsFragment"] > 0 /\ ~packet.IsFragment
                      /\ a \in {"SourcePort", "DestinationPort"} => packet.protocol \in Ported
                      /\ a = "TCPFlags" => packet.protocol = "tcp"
                      /\ a = "ICMPType" => packet.protocol \in Icmp
    BY DEF AskedWithinContract
  <2> QED BY DEF IInv, Known, Kept, Accessor
<1> QED BY FieldsInvariant, <1>1, PTL

=============================================================================
