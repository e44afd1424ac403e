------------------------------ MODULE RawIPv6 ------------------------------
(***************************************************************************)
(* RawIPv6Packet.layout (vm/packet.go): the walk over the extension        *)
(* headers of an IPv6 packet, which may be cut anywhere, and the builders, *)
(* each of which changes a copy of the packet by where the walk ended.  A  *)
(* packet is written header by header, or made by NewIPv6Packet, then      *)
(* walked by its bytes alone.  Places are counted from 0, the fixed header *)
(* takes the first 40 bytes.                                               *)
(***************************************************************************)
EXTENDS Integers, Sequences

CONSTANTS
  Uppers,      \* the upper-layer protocols
  Units,       \* what the length field of a header holds
  Offsets,     \* fragment offsets, thirteen bits in the code
  Lengths,     \* bound: how many bytes of a packet there may be
  MaxHeaders,  \* bound: the most extension headers written
  MaxSteps     \* bound: the most headers written and builders called

HopOptions == 0
Routing == 43
Fragment == 44
Authentication == 51
DstOptions == 60
Extensions == {HopOptions, Routing, Fragment, Authentication, DstOptions}

FixedLen == 40
FragmentLen == 8
NoTransport == -1
NoNextHeader == 59

\* What the builders make the upper layer of a packet, and the room it takes.
TCP == 6
UDP == 17
ICMPv6 == 58
Room == [protocol \in {TCP, UDP, ICMPv6} |-> CASE protocol = TCP -> 14 [] protocol = UDP -> 8 [] OTHER -> 4]

Header == [kind : Extensions \ {Fragment}, units : Units, offset : {0}, more : {FALSE}]
            \cup [kind : {Fragment}, units : Units, offset : Offsets, more : BOOLEAN]

ASSUME UppersAssumption ==
  Uppers \subseteq (0..255) \ Extensions /\ {NoNextHeader, TCP, UDP, ICMPv6} \subseteq Uppers
ASSUME UnitsAssumption == Units \subseteq 0..255 /\ 0 \in Units /\ Offsets \subseteq 0..8191
ASSUME LengthsAssumption == Lengths \subseteq Nat

VARIABLES
  made,                     \* whether the packet was made by NewIPv6Packet, or is any bytes
  headers, upper, length,   \* the packet as written, and how much of it there is
  calls, fields,            \* history: what the builders were given, and where a transport header was put
  walking,                  \* whether the walk goes on
  protocol, nextHeader, transport, nonFirst   \* the ipv6Layout

packet == <<made, headers, upper, length, calls, fields>>
layout == <<protocol, nextHeader, transport, nonFirst>>
vars == <<packet, walking, layout>>

-----------------------------------------------------------------------------
(* A packet on the wire.                                                   *)

\* How long a header is.
Size(header) ==
  CASE header.kind = Fragment -> 8
    [] header.kind = Authentication -> 4 * header.units + 8
    [] OTHER -> 8 * header.units + 8

\* Where header i starts, or what follows the last.
Start[i \in Nat] == IF i <= 1 THEN FixedLen ELSE Start[i - 1] + Size(headers[i - 1])

\* What header i, or the fixed header, names next.
Named(i) == IF i < Len(headers) THEN headers[i + 1].kind ELSE upper

\* The byte at a place of header i, a fragment header for anything not said.
HeaderByte(i, place) ==
  LET field == headers[i].offset * 8 + (IF headers[i].more THEN 1 ELSE 0) IN
  CASE place = 0 -> Named(i)
    [] place = 1 -> headers[i].units
    [] place = 2 /\ headers[i].kind = Fragment -> field \div 256
    [] place = 3 /\ headers[i].kind = Fragment -> field % 256
    [] OTHER -> Fragment

\* byteAt: a byte of the packet past the fixed header.
Byte(at) ==
  LET i == CHOOSE i \in 1..Len(headers) : Start[i] <= at /\ at < Start[i + 1]
  IN HeaderByte(i, at - Start[i])

\* byteAt of the place that names the first header, 0 of a shorter packet.
FirstNamed == IF length > 6 THEN Named(0) ELSE 0

-----------------------------------------------------------------------------
Init ==
  /\ made \in {"by NewIPv6Packet", "any bytes"} /\ headers = <<>>
  /\ IF made = "any bytes" THEN upper \in Uppers /\ length \in Lengths
     ELSE upper = NoNextHeader /\ length = 64
  /\ calls = <<>> /\ fields = 0
  /\ walking = FALSE
  /\ protocol = 0 /\ nextHeader = 0 /\ transport = 0 /\ nonFirst = FALSE

Write(header) ==
  /\ transport = 0 /\ made = "any bytes" /\ calls = <<>> /\ Len(headers) < MaxHeaders
  /\ headers' = Append(headers, header)
  /\ UNCHANGED <<made, upper, length, calls, fields, walking, layout>>

Begin ==
  /\ transport = 0
  /\ walking' = TRUE
  /\ protocol' = FirstNamed /\ nextHeader' = 6 /\ transport' = FixedLen
  /\ UNCHANGED <<packet, nonFirst>>

\* Mutant: two bytes of a fragment header will do.
NeedTwo == 2

\* How many bytes of a header the walk reads.
Need == IF protocol = Fragment THEN FragmentLen ELSE 2

\* The upper layer is reached.
Upper ==
  /\ walking /\ protocol \notin Extensions
  /\ walking' = FALSE
  /\ UNCHANGED <<packet, layout>>

\* A header too short to name the next one.
Truncated ==
  /\ walking /\ protocol \in Extensions
  /\ transport + Need > length
  /\ walking' = FALSE /\ transport' = NoTransport
  /\ UNCHANGED <<packet, protocol, nextHeader, nonFirst>>

\* Mutant: the length of an authentication header counts as the others' does.
UnitsOfEight ==
  IF protocol = Fragment THEN FragmentLen ELSE (Byte(transport + 1) + 1) * 8

\* Mutant: the length does not count the first eight bytes.
WithoutFirst == IF protocol = Fragment THEN FragmentLen ELSE Byte(transport + 1) * 8

\* Mutant: the units of a header are bytes.
InBytes == IF protocol = Fragment THEN FragmentLen ELSE Byte(transport + 1) + 8

\* How far the next header is.
Length ==
  CASE protocol = Fragment -> FragmentLen
    [] protocol = Authentication -> (Byte(transport + 1) + 2) * 4
    [] OTHER -> (Byte(transport + 1) + 1) * 8

\* A header is passed, a fragment other than the first being the last.
Pass ==
  /\ walking /\ protocol \in Extensions
  /\ transport + Need <= length
  /\ nonFirst' = (protocol = Fragment
                  /\ (Byte(transport + 2) * 256 + Byte(transport + 3)) \div 8 # 0)
  /\ protocol' = Byte(transport) /\ nextHeader' = transport
  /\ transport' = transport + Length
  /\ walking' = ~nonFirst'
  /\ UNCHANGED packet

Walked == transport # 0 /\ ~walking

-----------------------------------------------------------------------------
\* A builder takes a packet as it was read and returns another, to be read anew.
Calls(set, value) ==
  /\ Walked /\ Len(headers) + Len(calls) < MaxSteps
  /\ calls' = Append(calls, [set |-> set, value |-> value])
  /\ protocol' = 0 /\ nextHeader' = 0 /\ transport' = 0 /\ nonFirst' = FALSE
  /\ UNCHANGED <<made, walking>>

\* How many headers the walk passed.
PassedHeaders == IF nextHeader = 6 THEN 0 ELSE CHOOSE i \in DOMAIN headers : Start[i] = nextHeader

\* withProtocol: what was named last is now the protocol, its header at the end of
\* the walk. It panics when there is no place for it.
WithProtocol(value) ==
  /\ Calls("protocol", value) /\ transport # NoTransport
  /\ headers' = SubSeq(headers, 1, PassedHeaders) /\ upper' = value
  /\ length' = IF length < transport + Room[value] THEN transport + Room[value] ELSE length
  /\ fields' = transport

\* Mutant: every offset has a header of its own.
NoFragment == FALSE

\* The fixed header names a fragment header.
HasFragment == FirstNamed = Fragment

\* WithFragmentOffset: the offset of the fragment header after the fixed header, which
\* is put there, before anything else, when there is none. It panics without a fixed
\* header; a fragment header cut before its offset is left out.
WithFragmentOffset(value) ==
  /\ Calls("offset", value) /\ length >= IF HasFragment THEN 44 ELSE FixedLen
  /\ UNCHANGED upper
  /\ IF HasFragment
     THEN headers' = [headers EXCEPT ![1].offset = value] /\ UNCHANGED <<length, fields>>
     ELSE /\ headers' = <<[kind |-> Fragment, units |-> 0, offset |-> value, more |-> FALSE]>> \o headers
          /\ length' = length + FragmentLen
          /\ fields' = IF fields = 0 THEN 0 ELSE fields + FragmentLen

Next ==
  \/ \E header \in Header : Write(header)
  \/ Begin \/ Upper \/ Truncated \/ Pass
  \/ \E value \in DOMAIN Room : WithProtocol(value)
  \/ \E value \in Offsets : WithFragmentOffset(value)

Spec == Init /\ [][Next]_vars

\* Protocol: without a walk when the fixed header names no extension header.
Protocol == IF FirstNamed \notin Extensions THEN FirstNamed ELSE protocol

\* Where the accessors of the transport header read.
TransportRead == IF FirstNamed \in Extensions THEN transport ELSE FixedLen

-----------------------------------------------------------------------------
\* The headers of the packet the walk may pass: up to the first that is cut
\* before it names the next, and to the first fragment that is no first one.
CutAt(i) == Start[i] + (IF headers[i].kind = Fragment THEN 8 ELSE 2) > length
Later(i) == headers[i].kind = Fragment /\ headers[i].offset # 0
Passable == {i \in 1..Len(headers) : ~CutAt(i) /\ \A j \in 1..(i - 1) : ~CutAt(j) /\ ~Later(j)}

\* The length of every header is in units of four bytes or eight.
TypeOK ==
  /\ headers \in Seq(Header) /\ upper \in Uppers /\ length \in Nat /\ fields \in Nat
  /\ walking \in BOOLEAN /\ protocol \in 0..255 /\ nonFirst \in BOOLEAN
  /\ transport = 0 \/ transport = NoTransport \/ (transport >= FixedLen /\ transport % 4 = 0)
  /\ nextHeader = 0 \/ nextHeader = 6 \/ nextHeader >= FixedLen

\* The walk tells, whatever the headers and wherever the packet is cut, the
\* protocol named after the last header it may pass, where that is named, where
\* what follows lies unless that is a header cut short, and whether the packet is
\* a later fragment (the comments of ipv6Layout and layout).
LayoutIsThePacket ==
  Walked /\ length > 6 =>
    LET passed == Passable
        n == IF passed = {} THEN 0 ELSE CHOOSE i \in passed : \A j \in passed : j <= i
        later == n > 0 /\ Later(n)
    IN /\ Protocol = Named(n)
       /\ nextHeader = IF n = 0 THEN 6 ELSE Start[n]
       /\ nonFirst = later
       /\ TransportRead = IF later \/ n = Len(headers) THEN Start[n + 1] ELSE NoTransport

\* What a builder was given last, the value of a packet no builder was called for if none was.
Given(set, otherwise) ==
  LET given == {i \in DOMAIN calls : calls[i].set = set}
  IN IF given = {} THEN otherwise ELSE calls[CHOOSE i \in given : \A j \in given : j <= i].value

\* A packet says what its builders were given, called in any order: the protocol
\* after a transport header was made on any packet, and on one made by NewIPv6Packet
\* whatever was called after it, with the fragment offset; and the transport header
\* is read where it was put, all of it (the comments of withProtocol,
\* WithFragmentOffset and NewIPv6Packet).
BuildersTell ==
  /\ Walked /\ calls # <<>> /\ (made = "by NewIPv6Packet" \/ calls[Len(calls)].set = "protocol") =>
       /\ Protocol = Given("protocol", NoNextHeader)
       /\ fields # 0 => TransportRead = fields /\ fields + Room[Protocol] <= length
  /\ Walked /\ made = "by NewIPv6Packet" => nonFirst = (Given("offset", 0) # 0)

\* Every turn of the loop ends it or goes at least eight bytes on.
GoesOn == [][walking /\ walking' => transport' >= transport + 8]_vars

=============================================================================
