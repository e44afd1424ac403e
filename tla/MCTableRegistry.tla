-------------------------- MODULE MCTableRegistry ---------------------------
(***************************************************************************)
(* Tables for TLC: addresses of two bits and the networks of every length, *)
(* two of the same host bits, and an IPv6 address in a network of its own. *)
(***************************************************************************)
EXTENDS TableRegistry

MCAddresses == {"0", "1", "2", "v6"}
MCHolds == [all |-> {"0", "1", "2"}, low |-> {"0", "1"}, even |-> {"0", "2"},
            one |-> {"1"}, all6 |-> {"v6"}]
MCNetworks == DOMAIN MCHolds
MCHostBits == [all |-> 2, low |-> 1, even |-> 1, one |-> 0, all6 |-> 1]
MCVersion == [x \in MCAddresses \cup MCNetworks |->
                IF x \in {"v6", "all6"} THEN "V6" ELSE "V4"]

=============================================================================
