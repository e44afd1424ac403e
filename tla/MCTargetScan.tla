---------------------------- MODULE MCTargetScan ----------------------------
(***************************************************************************)
(* Targets for TLC: every kind of member, holding or not, names that stand *)
(* for nothing and for networks of both families.                          *)
(***************************************************************************)
EXTENDS TargetScan

\* A member of the kind, whether it holds.
M(kind, holds) == [kind |-> kind, holds |-> holds, found |-> NoTarget]

\* A table of an entry naming a target, or of none.
Table(target) == [kind |-> "table", holds |-> FALSE, found |-> target]

Tables == {<<Table(target)>> : target \in Targets \cup {NoTarget}}
Names == {<<>>, <<M("net4", FALSE), M("net6", TRUE)>>}

MCResolutions ==
  Tables \cup Names \cup
  {<<M("any", FALSE)>>, <<M("net4", TRUE)>>, <<M("me", TRUE)>>, <<M("me6", TRUE)>>}

\* Names that stand for nothing, a table and a network that does not hold.
MCNames == {<<>>, <<Table(CHOOSE target \in Targets : TRUE)>>, <<M("net4", FALSE)>>}

=============================================================================
