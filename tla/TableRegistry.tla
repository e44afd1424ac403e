--------------------------- MODULE TableRegistry ----------------------------
(***************************************************************************)
(* DefaultTableRegistry (vm/tables.go): the tables a build fills and a     *)
(* check looks addresses and interfaces up in.  The networks of a table    *)
(* are kept by family, grouped by their number of host bits.  The networks *)
(* and the values of a group, two slices in the code, are one sequence of  *)
(* entries here.                                                           *)
(***************************************************************************)
EXTENDS Integers, Sequences

CONSTANTS
  Tables, Interfaces, Values,
  Addresses,
  Networks,
  Version,    \* of an address or a network: "V4" or "V6"
  HostBits,   \* NumHostBits of a network
  Holds,      \* the addresses of a network's family ContainsAddr is true of
  NoValue,    \* the answer of a lookup that finds no entry
  MaxAdded    \* bound: how many entries are added

Family == {"V4", "V6"}

ASSUME VersionAssumption == Version \in [Addresses \cup Networks -> Family]
ASSUME NetworkAssumption ==
  HostBits \in [Networks -> Nat] /\ Holds \in [Networks -> SUBSET Addresses]
ASSUME KeyAssumption == Networks \cap Interfaces = {}
ASSUME ValueAssumption == NoValue \notin Values

VARIABLES
  networks,    \* the networkTable of each table that has one
  interfaces,  \* the values of the interfaces of each table that has some
  added        \* history: every entry in the order added

vars == <<networks, interfaces, added>>

Entry == [network : Networks, value : Values]
PrefixGroup == [HostBits : Nat, entries : Seq(Entry)]
NetworkTable == [Family -> Seq(PrefixGroup)]
InterfaceTable == UNION {[names -> Values] : names \in SUBSET Interfaces}
Added == [table : Tables, key : Networks \cup Interfaces, value : Values]

-----------------------------------------------------------------------------
Init == networks = <<>> /\ interfaces = <<>> /\ added = <<>>

\* A map with the key set.
Set(map, key, value) ==
  [k \in DOMAIN map \cup {key} |-> IF k = key THEN value ELSE map[k]]

Record(table, key, value) ==
  /\ Len(added) < MaxAdded
  /\ added' = Append(added, [table |-> table, key |-> key, value |-> value])

\* Mutant: the host bits counted from zero.
BitsBelow(network) == HostBits[network] - 1

\* The group of a network.
Bits(network) == HostBits[network]

\* slices.BinarySearchFunc: the first group of no fewer host bits.
Place(groups, bits) ==
  CHOOSE k \in 1..(Len(groups) + 1) :
    /\ \A i \in 1..(k - 1) : groups[i].HostBits < bits
    /\ \A i \in k..Len(groups) : groups[i].HostBits >= bits

\* Mutant: a new group goes last.
Appended(groups, k, group) == Append(groups, group)

\* slices.Insert
Inserted(groups, k, group) ==
  [i \in 1..(Len(groups) + 1) |->
     IF i < k THEN groups[i] ELSE IF i = k THEN group ELSE groups[i - 1]]

\* prefixTable.Add
WithNetwork(groups, network, value) ==
  LET bits == Bits(network)
      k == Place(groups, bits)
      entry == [network |-> network, value |-> value]
  IN IF k <= Len(groups) /\ groups[k].HostBits = bits
     THEN [groups EXCEPT ![k] =
             [HostBits |-> bits, entries |-> Append(groups[k].entries, entry)]]
     ELSE Inserted(groups, k, [HostBits |-> bits, entries |-> <<entry>>])

\* The network table of a table, an empty one when missing.
Network(table) ==
  IF table \in DOMAIN networks THEN networks[table] ELSE [version \in Family |-> <<>>]

\* AddNetwork4 and AddNetwork6: the network's type tells the family.
AddNetwork(table, network, value) ==
  /\ Record(table, network, value)
  /\ networks' = Set(networks, table,
       [Network(table) EXCEPT ![Version[network]] = WithNetwork(@, network, value)])
  /\ UNCHANGED interfaces

\* Mutant: an entry added again keeps its value.
KeepInterface(map, ifname, value) ==
  IF ifname \in DOMAIN map THEN map ELSE Set(map, ifname, value)

\* A later entry for an interface replaces the earlier one.
WithInterface(map, ifname, value) == Set(map, ifname, value)

AddInterface(table, ifname, value) ==
  /\ Record(table, ifname, value)
  /\ interfaces' = Set(interfaces, table,
       WithInterface(IF table \in DOMAIN interfaces THEN interfaces[table] ELSE <<>>,
                     ifname, value))
  /\ UNCHANGED networks

Next ==
  \E table \in Tables, value \in Values :
    \/ \E network \in Networks : AddNetwork(table, network, value)
    \/ \E ifname \in Interfaces : AddInterface(table, ifname, value)

Spec == Init /\ [][Next]_vars

-----------------------------------------------------------------------------
Holding(group, addr) ==
  {i \in DOMAIN group.entries : addr \in Holds[group.entries[i].network]}

Least(set) == CHOOSE i \in set : \A j \in set : i <= j
Greatest(set) == CHOOSE i \in set : \A j \in set : j <= i

\* Mutant: the first network of a group that holds the address.
FirstHolding(group, addr) == Least(Holding(group, addr))

\* The last network of a group that holds the address, when one does.
LastHolding(group, addr) == Greatest(Holding(group, addr))

\* prefixTable.Lookup: the first group that has a network holding the address.
Lookup(groups, addr) ==
  LET found == {k \in DOMAIN groups : Holding(groups[k], addr) # {}} IN
  IF found = {} THEN NoValue
  ELSE LET group == groups[Least(found)] IN group.entries[LastHolding(group, addr)].value

LookupNetwork(table, addr) ==
  IF table \in DOMAIN networks THEN Lookup(networks[table][Version[addr]], addr)
                               ELSE NoValue

LookupInterface(table, ifname) ==
  IF table \in DOMAIN interfaces /\ ifname \in DOMAIN interfaces[table]
  THEN interfaces[table][ifname] ELSE NoValue

-----------------------------------------------------------------------------
TypeOK ==
  /\ DOMAIN networks \subseteq Tables /\ DOMAIN interfaces \subseteq Tables
  /\ \A table \in DOMAIN networks : networks[table] \in NetworkTable
  /\ \A table \in DOMAIN interfaces : interfaces[table] \in InterfaceTable
  /\ added \in Seq(Added)

\* The groups of a table come by their host bits, no two of the same number:
\* what the binary search of the next entry and the order of a lookup rest on.
GroupsSorted ==
  \A table \in DOMAIN networks : \A version \in Family :
    LET groups == networks[table][version] IN
    \A i, j \in DOMAIN groups : i < j => groups[i].HostBits < groups[j].HostBits

\* The entries of a table added with a network that holds the address.
Candidates(table, addr) ==
  {i \in DOMAIN added :
     /\ added[i].table = table /\ added[i].key \in Networks
     /\ Version[added[i].key] = Version[addr] /\ addr \in Holds[added[i].key]}

\* No candidate is more specific, nor as specific and added later.
Best(i, candidates) ==
  \A j \in candidates :
    \/ HostBits[added[i].key] < HostBits[added[j].key]
    \/ HostBits[added[i].key] = HostBits[added[j].key] /\ j <= i

\* An address is answered by the most specific network that holds it and, of
\* equally specific ones, by the last added, whatever was added in between
\* (the comment of DefaultTableRegistry).
MostSpecificLastAdded ==
  \A table \in Tables : \A addr \in Addresses :
    LET candidates == Candidates(table, addr) IN
    /\ candidates = {} => LookupNetwork(table, addr) = NoValue
    /\ \A i \in candidates :
         Best(i, candidates) => LookupNetwork(table, addr) = added[i].value

\* An interface is answered by the entry added last under its exact name.
InterfaceLastAdded ==
  \A table \in Tables : \A ifname \in Interfaces :
    LET entries == {i \in DOMAIN added : added[i].table = table /\ added[i].key = ifname} IN
    LookupInterface(table, ifname) =
      IF entries = {} THEN NoValue ELSE added[Greatest(entries)].value

=============================================================================
