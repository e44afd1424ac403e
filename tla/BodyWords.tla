------------------------------ MODULE BodyWords ------------------------------
(***************************************************************************)
(* What the body of a rule is written with (parser.go, opt.go): a word is  *)
(* an element of the grammar with its `not`, and what every part of the    *)
(* grammar makes of it.                                                    *)
(***************************************************************************)
EXTENDS Integers, Sequences, FiniteSets

CONSTANT Dictionary  \* the words a body is made of, by name

Words == {Dictionary[name] : name \in DOMAIN Dictionary}

\* What a word is as an option.  A hook knows the last four: it may return an
\* option, or a comment, that has a spelling of the parser's own as well.
Kind == {"unknown", "plain", "keep-state", "malformed", "comment",
         "custom", "custom keep-state", "custom comment", "rejected by the hook"}
ByHook == {"custom", "custom keep-state", "custom comment", "rejected by the hook"}

\* What a word is as an element of each part.  A list of ports may break off
\* after some of them.  Only a tight word stands right against the one before.
Word == [name : STRING,
         same : STRING,      \* the spelling its option has in the parser, if any
         single : STRING,    \* X for the ports X-X
         text : {"from", "to", "or", "{", "}", "other"},
         proto : BOOLEAN,    \* parseProto takes all of it
         known : BOOLEAN,    \* an IP version, a number or a name of the ProtoChecker
         version : BOOLEAN,  \* an IP version
         target : BOOLEAN, port : {"ports", "some ports", "none"}, option : Kind,
         tight : BOOLEAN,
         eaten : {"nothing", "log", "logamount", "tag"},  \* the longest keyword it begins with
         refused : BOOLEAN]  \* the State returns an error for it

End == [name |-> "end", same |-> "end", single |-> "end", text |-> "end", proto |-> FALSE, known |-> FALSE,
        version |-> FALSE, target |-> FALSE, port |-> "none", option |-> "unknown",
        tight |-> FALSE, eaten |-> "nothing", refused |-> FALSE]

ByName(name) == IF name = "end" THEN End ELSE Dictionary[name]

\* A hook takes no keyword of the header, a comment is no protocol and no port, `any`
\* is a target, only a port stands for a range, of ports as well, and every spelling
\* that may be written in place of a word is in the dictionary, a comment's of comments.
ASSUME WordsAssumption ==
  /\ Words \subseteq Word
  /\ \A w \in Words : /\ w.tight => w.option = "comment"
                      /\ w.option = "comment" => ~w.proto /\ w.port = "none"
                      /\ w.text \in {"{", "}"} => ~w.proto /\ ~w.target /\ w.port = "none"
                      /\ w.text # "other" => w.option = "unknown"
                      /\ w.version => w.proto /\ w.known
                      /\ w.port = "none" => w.single = w.name
  /\ \A name \in DOMAIN Dictionary : Dictionary[name].name = name
  /\ "end" \notin DOMAIN Dictionary /\ "any" \in DOMAIN Dictionary /\ Dictionary["any"].target
  /\ \A w \in Words : /\ w.same \in DOMAIN Dictionary /\ ByName(w.same).same = w.same
                      /\ ByName(w.same).option = "comment" => w.option \in {"comment", "custom comment"}
                      /\ w.single \in DOMAIN Dictionary /\ ByName(w.single).single = w.single
                      /\ w.port # "none" => ByName(w.single).port # "none"

=============================================================================
