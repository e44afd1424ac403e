----------------------------- MODULE TargetScan -----------------------------
(***************************************************************************)
(* The source and the destination of a rule.  parseTargets (target.go)     *)
(* numbers the alternatives with sixteen bits, ipfw.Resolver (vmstate.go)  *)
(* makes typed matches of the targets, and the VM (vm/vm.go) scans them    *)
(* twice: matchTargets4 and matchTargets6 to see whether a packet matches, *)
(* and, for a skipto tablearg, lookupTargets to see which table entry the  *)
(* first scan found last.  The tables do not change in between.            *)
(***************************************************************************)
EXTENDS Integers, Sequences

CONSTANTS
  Width,            \* how many numbers a pattern can have, 2^16 in the code
  Targets,          \* what the values of table entries name
  Resolutions,      \* what a target of a rule resolves to, a sequence of members
  MaxAlternatives,  \* bound: the most alternatives of a side
  MaxMatches        \* bound: the most typed matches of both sides

\* The target of a lookup that finds no entry.
NoTarget == 0

Side == {"source", "destination"}
Family == {"v4", "v6", "neither"}

\* A typed member: holds is whether the network holds the address or the
\* address is a local one, found what the entry of a table names.
Kind == {"any", "me", "me6", "net4", "net6", "table", "none"}
Member == {m \in [kind : Kind, holds : BOOLEAN, found : Targets \cup {NoTarget}] :
             m.kind # "table" => m.found = NoTarget}

\* The members of a comma list: networks, and names, which resolve to networks.
IsListed(resolved) == \A i \in DOMAIN resolved : resolved[i].kind \in {"net4", "net6"}

ASSUME WidthAssumption == Width \in Nat /\ Width >= 2
ASSUME TargetsAssumption == NoTarget \notin Targets

\* Only a name stands for several networks, or for none.
ASSUME ResolutionsAssumption ==
  /\ Resolutions \subseteq Seq(Member)
  /\ \A r \in Resolutions : Len(r) # 1 => IsListed(r)
  /\ \A r \in Resolutions : \A i \in DOMAIN r : r[i].kind # "none"

ASSUME BoundsAssumption == MaxAlternatives \in Nat /\ MaxMatches \in Nat

VARIABLES
  said,      \* history: the members of each side, with the alternative the text puts them in
  negs,      \* whether the alternatives of each side are negated
  matches,   \* the typed matches of each side
  family,    \* the families of the packet's addresses
  phase,     \* of the parser, of the two scans, then the verdict
  side,      \* the side being read, or scanned
  braced,    \* whether the side is a group in braces
  listing,   \* whether a comma may follow the target just read
  pattern,   \* the number of the alternative being read
  idx,       \* the match a scan looks at next
  first,     \* the first match of the pattern being folded, 0 for none
  hit,       \* whether a member of it holds
  found      \* the target of the last lookup that found an entry

reading == <<said, negs, matches, family, braced, listing, pattern>>
folding == <<idx, first, hit>>
vars == <<reading, phase, side, folding, found>>

Match == [neg : BOOLEAN, pattern : 0..(Width - 1), member : Member]
Said == [alternative : Nat, member : Member]

-----------------------------------------------------------------------------
Init ==
  /\ said = [s \in Side |-> <<>>]
  /\ negs = [s \in Side |-> <<>>]
  /\ matches = [s \in Side |-> <<>>]
  /\ family \in [Side -> Family]
  /\ phase = "target" /\ side = "source"
  /\ braced \in BOOLEAN /\ listing = FALSE /\ pattern = 0
  /\ idx = 1 /\ first = 0 /\ hit = FALSE /\ found = NoTarget

None == [kind |-> "none", holds |-> FALSE, found |-> NoTarget]

\* Mutant: a name that stands for nothing is left out, negated or not.
AsResolved(resolved, neg) == resolved

\* Resolver.resolveTarget: a call per member, and a negated name that stands for
\* nothing keeps its pattern.
Emitted(resolved, neg) == IF resolved = <<>> /\ neg THEN <<None>> ELSE resolved

\* A target of the alternative is read and handed over.
OnTarget(resolved, neg) ==
  /\ Len(matches["source"]) + Len(matches["destination"]) + Len(Emitted(resolved, neg))
       <= MaxMatches
  /\ said' = [said EXCEPT ![side] = @ \o
                [i \in 1..Len(Emitted(resolved, neg)) |->
                   [alternative |-> Len(negs'[side]), member |-> Emitted(resolved, neg)[i]]]]
  /\ matches' = [matches EXCEPT ![side] = @ \o
                   [i \in 1..Len(Emitted(resolved, neg)) |->
                      [neg |-> neg, pattern |-> pattern, member |-> Emitted(resolved, neg)[i]]]]
  /\ phase' = "after"
  /\ UNCHANGED <<family, side, braced, pattern, folding, found>>

\* parseTargetElement: an alternative, its first target under its negation.
Element(resolved, neg) ==
  /\ phase = "target"
  /\ Len(negs[side]) < MaxAlternatives
  /\ negs' = [negs EXCEPT ![side] = Append(@, neg)]
  /\ listing' = IsListed(resolved)
  /\ OnTarget(resolved, neg)

\* Another target of an address list, under the same negation.
ListMember(resolved) ==
  /\ phase = "after" /\ listing
  /\ IsListed(resolved)
  /\ UNCHANGED <<negs, listing>>
  /\ OnTarget(resolved, negs[side][Len(negs[side])])

\* Mutant: the number does not wrap.
Unwrapped == pattern + 1

\* The number of the next alternative: it wraps.
NextPattern == (pattern + 1) % Width

\* parseTargets goes on after an `or`.
Or ==
  /\ phase = "after" /\ braced
  /\ pattern' = NextPattern
  /\ phase' = "target"
  /\ UNCHANGED <<said, negs, matches, family, side, braced, listing, folding, found>>

\* The destination is read after the source, then a packet is checked.
EndSide ==
  /\ phase = "after"
  /\ pattern' = 0 /\ listing' = FALSE
  /\ \/ /\ side = "source"
        /\ side' = "destination" /\ phase' = "target" /\ braced' \in BOOLEAN
     \/ /\ side = "destination"
        /\ side' = "source" /\ phase' = "match" /\ UNCHANGED braced
  /\ UNCHANGED <<said, negs, matches, family, folding, found>>

-----------------------------------------------------------------------------
\* matchNamedTarget: the targets both scans share.
Named(m, fam) ==
  CASE m.kind = "me" -> fam \in {"v4", "v6"} /\ m.holds
    [] m.kind = "me6" -> fam = "v6" /\ m.holds
    [] m.kind = "table" -> m.found # NoTarget
    [] OTHER -> FALSE

\* The switch of matchTargets4, for an address that is IPv4 or of no family.
Matches4(m, fam) ==
  CASE m.kind = "net4" -> fam = "v4" /\ m.holds
    [] m.kind = "net6" -> FALSE
    [] m.kind = "any" -> TRUE
    [] OTHER -> Named(m, fam)

\* The switch of matchTargets6.
Matches6(m) ==
  CASE m.kind = "net6" -> m.holds
    [] m.kind = "net4" -> FALSE
    [] m.kind = "any" -> TRUE
    [] OTHER -> Named(m, "v6")

\* The family of the address picks the scan.
MatchScan(i) ==
  LET m == matches[side][i].member IN
  IF family[side] = "v6" THEN Matches6(m) ELSE Matches4(m, family[side])

\* The switch of lookupTargets.
LookupScan(i) ==
  LET m == matches[side][i].member IN
  CASE m.kind = "table" -> m.found # NoTarget
    [] m.kind = "net4" -> family[side] = "v4" /\ m.holds
    [] m.kind = "net6" -> family[side] = "v6" /\ m.holds
    [] m.kind = "any" -> TRUE
    [] OTHER -> Named(m, family[side])

\* Whether the match looked at next goes on with the pattern, by its number.
GoesOn ==
  /\ first # 0 /\ idx <= Len(matches[side])
  /\ matches[side][idx].pattern = matches[side][first].pattern

\* A pattern begins, or goes on, with the match at idx.
Fold(answer) ==
  /\ idx <= Len(matches[side]) /\ (first = 0 \/ GoesOn)
  /\ first' = IF first = 0 THEN idx ELSE first
  /\ hit' = (hit \/ answer)
  /\ idx' = idx + 1
  /\ UNCHANGED <<reading, phase, side>>

\* A match is asked, unless one of its pattern holds already.
Match1 ==
  /\ phase = "match"
  /\ Fold(~hit /\ MatchScan(idx))
  /\ UNCHANGED found

\* The pattern is over and holds, its negation aside.
Over == first # 0 /\ ~GoesOn
PatternHolds == Over /\ hit # matches[side][first].neg

\* A scan of a side starts over, or of another one.
Rewind == idx' = 1 /\ first' = 0 /\ hit' = FALSE

\* The pattern is over and does not hold: the next one is scanned.
NextAlternative ==
  /\ phase \in {"match", "lookup"}
  /\ Over /\ ~PatternHolds
  /\ first' = 0 /\ hit' = FALSE
  /\ UNCHANGED <<reading, phase, side, idx, found>>

\* VM.matches: the source, then the destination.
SideMatches ==
  /\ phase = "match" /\ PatternHolds
  /\ Rewind
  /\ side' = "destination"
  /\ phase' = IF side = "source" THEN "match" ELSE "lookup"
  /\ UNCHANGED <<reading, found>>

\* No pattern of the side holds, nor does the rule match.
SideFails ==
  /\ phase = "match" /\ first = 0 /\ idx > Len(matches[side])
  /\ phase' = "no"
  /\ UNCHANGED <<reading, side, folding, found>>

\* Mutant: a table is looked up past a member that holds.
Always(i) == matches[side][i].member.found

\* The target once the match at i was asked.
Latest(i) == IF ~hit /\ matches[side][i].member.found # NoTarget
             THEN matches[side][i].member.found ELSE found

\* lookupTargets: a match is asked, unless one of its pattern holds already.
Lookup1 ==
  /\ phase = "lookup"
  /\ Fold(~hit /\ LookupScan(idx))
  /\ found' = Latest(idx)

\* addressTarget: the lookups of the destination came last, those of the source
\* count when they found none.
LookedUp ==
  /\ phase = "lookup"
  /\ PatternHolds \/ (first = 0 /\ idx > Len(matches[side]))
  /\ \/ /\ side = "destination" /\ found = NoTarget
        /\ side' = "source" /\ Rewind
        /\ UNCHANGED phase
     \/ /\ side = "source" \/ found # NoTarget
        /\ phase' = "yes"
        /\ UNCHANGED <<side, folding>>
  /\ UNCHANGED <<reading, found>>

Read ==
  \/ \E resolved \in Resolutions, neg \in BOOLEAN : Element(resolved, neg)
  \/ \E resolved \in Resolutions : ListMember(resolved)
  \/ Or \/ EndSide
Scan == Match1 \/ NextAlternative \/ SideMatches \/ SideFails \/ Lookup1 \/ LookedUp
Next == Read \/ Scan

Spec == Init /\ [][Next]_vars

-----------------------------------------------------------------------------
\* What a member means for an address: a network is of one family, me is an
\* address of the host's own, me6 such an IPv6 one, a table holds an entry.
Satisfies(m, fam) ==
  \/ m.kind = "any"
  \/ m.kind = "net4" /\ fam = "v4" /\ m.holds
  \/ m.kind = "net6" /\ fam = "v6" /\ m.holds
  \/ m.kind = "me" /\ fam # "neither" /\ m.holds
  \/ m.kind = "me6" /\ fam = "v6" /\ m.holds
  \/ m.kind = "table" /\ m.found # NoTarget

Holding(s) == {i \in DOMAIN said[s] : Satisfies(said[s][i].member, family[s])}

\* An alternative holds when a member of it does, its negation aside.
AlternativeHolds(s, k) == (\E i \in Holding(s) : said[s][i].alternative = k) # negs[s][k]

SideHolds(s) == \E k \in DOMAIN negs[s] : AlternativeHolds(s, k)

\* The lookups of a side that find an entry, of those the kernel makes: none
\* past a member that holds in its alternative, or past an alternative that does.
Lookups(s) ==
  {i \in DOMAIN said[s] :
     LET k == said[s][i].alternative IN
     /\ said[s][i].member.found # NoTarget
     /\ \A j \in Holding(s) : j < i => said[s][j].alternative # k
     /\ \A l \in 1..(k - 1) : ~AlternativeHolds(s, l)}

\* The target of the last of them.
LastFound(s) ==
  LET last == CHOOSE i \in Lookups(s) : \A j \in Lookups(s) : j <= i
  IN IF Lookups(s) = {} THEN NoTarget ELSE said[s][last].member.found

TypeOK ==
  /\ said \in [Side -> Seq(Said)]
  /\ negs \in [Side -> Seq(BOOLEAN)]
  /\ matches \in [Side -> Seq(Match)]
  /\ family \in [Side -> Family]
  /\ phase \in {"target", "after", "match", "lookup", "yes", "no"}
  /\ side \in Side
  /\ braced \in BOOLEAN /\ listing \in BOOLEAN /\ pattern \in 0..(Width - 1)
  /\ idx \in 1..(Len(matches[side]) + 1) /\ first \in 0..(idx - 1)
  /\ hit \in BOOLEAN
  /\ found \in Targets \cup {NoTarget}

\* A rule matches when its source and its destination hold as the text puts
\* them: an alternative under one negation, a name that stands for nothing
\* matching nothing, and everything when it is negated.
MatchIsMeaning ==
  /\ phase \in {"lookup", "yes"} => SideHolds("source") /\ SideHolds("destination")
  /\ phase = "no" => ~(SideHolds("source") /\ SideHolds("destination"))

\* The second scan finds what the first one looked up last: the lookups of the
\* destination, then those of the source, none of them past the member or the
\* alternative that decided.
TargetIsLastLookup ==
  phase = "yes" =>
    found = IF Lookups("destination") = {} THEN LastFound("source") ELSE LastFound("destination")

=============================================================================
