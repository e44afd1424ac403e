----------------------------- MODULE MCRuleBody -----------------------------
(***************************************************************************)
(* Words for TLC: the keywords, and words that are an option and a         *)
(* protocol or a port, known to a hook, to a checker or to nobody.         *)
(***************************************************************************)
EXTENDS RuleBody

Blank(name) ==
  [name |-> name, same |-> name, single |-> name, text |-> "other", proto |-> FALSE, known |-> FALSE,
   version |-> FALSE, target |-> FALSE, port |-> "none", option |-> "unknown",
   tight |-> FALSE, eaten |-> "nothing", refused |-> FALSE]

\* A name, which may be anything.
Name(name, option) ==
  [Blank(name) EXCEPT !.proto = TRUE, !.target = TRUE, !.port = "ports", !.option = option]
Keywords == {[Name(text, "unknown") EXCEPT !.text = text] : text \in {"from", "to"}}
Separators == {[Blank(text) EXCEPT !.text = text] : text \in {"{", "or", "}"}}
PortRange(name) == [Name(name \o "-" \o name, "unknown") EXCEPT !.single = name]

Comments == {Blank("//"), [Blank("tight //") EXCEPT !.same = "//", !.tight = TRUE]}
Network == [Blank("any") EXCEPT !.target = TRUE]
Refused == [Name("refused", "custom") EXCEPT !.known = TRUE, !.refused = TRUE]

MCMembers ==
  [part \in Header |->
     CASE part = "protocols" -> {"ip", "from"} [] part = "from" -> {"from", "any"}
       [] part = "source" -> {"any", "to", "{"} [] part = "to" -> {"to", "to-to", "refused", "{"}
       [] part = "to only" -> {"to", "from"} [] part = "destination" -> {"any"}]

Spelled ==
  Keywords \cup Separators \cup {Network, Refused}
    \cup {[w EXCEPT !.option = "comment"] : w \in Comments}
    \cup {Name("in", "plain"), Name("keep-state", "keep-state"), Name("via", "malformed"),
          PortRange("to"), PortRange("in"),
          [Name("tcp", "unknown") EXCEPT !.known = TRUE],
          [Name("ip", "unknown") EXCEPT !.known = TRUE, !.version = TRUE],
          [Name("stateful", "custom keep-state") EXCEPT !.same = "keep-state"],
          [Name("note", "custom comment") EXCEPT !.same = "//"],
          [Name("logger", "custom") EXCEPT !.eaten = "log"],
          [Blank("80,") EXCEPT !.port = "some ports"]}

ByNames(words) == [name \in {w.name : w \in words} |-> CHOOSE w \in words : w.name = name]
MCDictionary == ByNames(Spelled)

\* A hook that takes `http`, and the ports of that service.
ServiceWords ==
  Keywords \cup Separators \cup {Network, Name("tcp", "unknown"), Name("http", "custom"), PortRange("http")}
    \cup {PortRange("to")}
ServiceDictionary == ByNames(ServiceWords)

=============================================================================
