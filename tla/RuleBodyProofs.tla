--------------------------- MODULE RuleBodyProofs ---------------------------
(***************************************************************************)
(* Proofs about the body of a rule (module RuleBody), for any words, and   *)
(* bodies and headers of any length.                                       *)
(***************************************************************************)
EXTENDS RuleBody, TLAPS, SequenceTheorems, NaturalsInduction, WellFoundedInduction

-----------------------------------------------------------------------------
(* Words and tokens.                                                       *)

On == {"protocol", "source", "source ports", "destination", "destination ports", "option"}
TokenType == [on : On, at : Nat, name : DOMAIN Dictionary,
              block : Nat, pattern : Nat, kind : Kind]

LEMMA CallbacksAre == {Callbacks[i] : i \in DOMAIN Callbacks} = On
<1>1. DOMAIN Callbacks = 1..6
  BY DEF Callbacks
<1>2. \A i \in 1..6 : i \in {1, 2, 3, 4, 5, 6}
  OBVIOUS
<1>3. /\ Callbacks[1] = "protocol" /\ Callbacks[2] = "source" /\ Callbacks[3] = "source ports"
      /\ Callbacks[4] = "destination" /\ Callbacks[5] = "destination ports" /\ Callbacks[6] = "option"
  BY DEF Callbacks
<1>4. 1 \in 1..6 /\ 2 \in 1..6 /\ 3 \in 1..6 /\ 4 \in 1..6 /\ 5 \in 1..6 /\ 6 \in 1..6
  OBVIOUS
<1>5. ASSUME NEW i \in 1..6 PROVE Callbacks[i] \in On
  BY <1>2, <1>3, <1>5 DEF On
<1>6. ASSUME NEW on \in On PROVE \E i \in 1..6 : Callbacks[i] = on
  BY <1>3, <1>4 DEF On
<1> QED
  BY <1>1, <1>5, <1>6

LEMMA WordFacts ==
  ASSUME NEW w \in Words
  PROVE  /\ w.name \in DOMAIN Dictionary /\ w.same \in DOMAIN Dictionary
         /\ w.single \in DOMAIN Dictionary
         /\ w.option \in Kind /\ OptionOf(w) \in Kind
<1>1. w \in Word
  BY WordsAssumption
<1>2. w.option \in Kind
  BY <1>1 DEF Word
<1>3. "unknown" \in Kind
  BY DEF Kind
<1>4. OptionOf(w) \in Kind
  BY <1>2, <1>3 DEF OptionOf
<1>5. PICK name \in DOMAIN Dictionary : w = Dictionary[name]
  BY DEF Words
<1>6. w.name = name
  BY <1>5, WordsAssumption
<1>7. w.same \in DOMAIN Dictionary /\ w.single \in DOMAIN Dictionary
  BY WordsAssumption
<1> QED
  BY <1>2, <1>4, <1>5, <1>6, <1>7

LEMMA TokenFacts ==
  ASSUME NEW w \in Words, NEW on \in On,
         at \in Nat, blocks \in Nat, pattern \in Nat
  PROVE  /\ Token(on, w) \in TokenType
         /\ Token(on, w).on = on /\ Token(on, w).at = at
         /\ on = "option" => Token(on, w).block = blocks /\ Token(on, w).kind = OptionOf(w)
<1>1. /\ w.name \in DOMAIN Dictionary /\ w.same \in DOMAIN Dictionary
      /\ w.single \in DOMAIN Dictionary /\ OptionOf(w) \in Kind
  BY WordFacts
<1>2. "unknown" \in Kind
  BY DEF Kind
<1>3. 0 \in Nat
  OBVIOUS
<1> DEFINE name == CASE on = "option" -> w.same
                     [] on \in {"source ports", "destination ports"} -> w.single
                     [] OTHER -> w.name
           block == IF on = "option" THEN blocks ELSE 0
           place2 == IF group = "member" /\ on # "protocol" THEN pattern ELSE 0
           kind == IF on = "option" THEN OptionOf(w) ELSE "unknown"
<1>4. name \in DOMAIN Dictionary /\ block \in Nat /\ place2 \in Nat /\ kind \in Kind
  BY <1>1, <1>2, <1>3
<1>5. on = "option" => block = blocks /\ kind = OptionOf(w)
  OBVIOUS
<1>6. Token(on, w) = [on |-> on, at |-> at, name |-> name, block |-> block,
                      pattern |-> place2, kind |-> kind]
  BY DEF Token
<1> HIDE DEF name, block, place2, kind
<1> QED
  BY <1>4, <1>5, <1>6 DEF TokenType

-----------------------------------------------------------------------------
(* The invariant.                                                          *)

StateOK ==
  /\ checker \in BOOLEAN /\ hook \in BOOLEAN /\ rule \in Rule
  /\ at \in Nat \ {0} /\ resume \in Nat
  /\ pass \in Pass
  /\ group \in {"first", "member", "separator"}
  /\ blocks \in Nat /\ pattern \in Nat /\ dynamic \subseteq Pass
  /\ pushed \in Seq(TokenType)

\* Every pass has its own parts, and nothing is handed over before the last.
Parts ==
  /\ place \in {"rule", "body", "first protocol"} <=> pass = "choice"
  /\ pass = "header" => place \in Header \cup {"trailing"}
  /\ pass \in {"start", "group"} => place = "options"
  /\ pass = "real" => place \in Header \cup {"trailing", "destination ports", "options"}
  /\ grammar # "none" <=> pass \in {"group", "real"}
  /\ pass \notin {"group", "real"} => pushed = <<>> /\ resume = 0
  /\ pass = "group" => resume # 0
  /\ place \in Header \cup {"trailing"} => resume = 0
  /\ place = "destination ports" => resume # 0
  /\ place \in {"rule", "body"} => at = 1
  /\ group # "first" => place \in Listed \cup {"options"}

\* No option of the rule is read yet, whatever probes read.
Unstarted == pass # "real" \/ place # "options"

\* A dynamic option has its block to itself, the context of the rule knows of it,
\* and the block that is read is after those that are over.
Counted ==
  /\ Unstarted => HandedOptions = {} /\ blocks = 0 /\ "real" \notin dynamic
  /\ \A i \in HandedOptions : pushed[i].block <= blocks
  /\ group = "first" => \A i \in HandedOptions : pushed[i].block < blocks
  /\ \A i \in DynamicOptions : pushed[i].block < blocks
  /\ "real" \in dynamic <=> DynamicOptions # {}

IInv == StateOK /\ Parts /\ Counted /\ OneDynamicState

\* What a step does that is no end: it reads on, or goes on to what is later.
Advance ==
  \/ verdict' # verdict
  \/ Passed' > Passed
  \/ Passed' = Passed /\ at' > at
  \/ Passed' = Passed /\ at' = at /\ Parted' > Parted

-----------------------------------------------------------------------------
(* The order of the passes.                                                *)

\* The number of a pass.
Number(asked, p) ==
  CASE p = "choice" -> 1 [] p = "start" -> (IF asked THEN 3 ELSE 2)
    [] p = "header" -> (IF asked THEN 2 ELSE 3) [] p = "real" -> 4 [] OTHER -> 5
Order(asked, p, back) == IF p = "real" /\ back # 0 THEN 6 ELSE Number(asked, p)

LEMMA TurnOf ==
  ASSUME NEW asked \in BOOLEAN, NEW p \in Pass, NEW turns,
         turns = IF asked THEN <<"choice", "header", "start", "real", "group">>
                 ELSE <<"choice", "start", "header", "real", "group">>
  PROVE  (CHOOSE i \in DOMAIN turns : turns[i] = p) = Number(asked, p)
<1>1. DOMAIN turns = 1..5
  OBVIOUS
<1>2. p \in {"choice", "header", "start", "group", "real"}
  BY DEF Pass
<1>3. turns[1] = "choice" /\ turns[4] = "real" /\ turns[5] = "group"
  OBVIOUS
<1>4. turns[2] = (IF asked THEN "header" ELSE "start") /\ turns[3] = (IF asked THEN "start" ELSE "header")
  OBVIOUS
<1>5. \A i \in 1..5 : i \in {1, 2, 3, 4, 5}
  OBVIOUS
<1>6. Number(asked, p) \in 1..5 /\ turns[Number(asked, p)] = p
  <2>1. CASE asked
    BY <1>2, <1>3, <1>4, <2>1 DEF Number
  <2>2. CASE ~asked
    BY <1>2, <1>3, <1>4, <2>2 DEF Number
  <2> QED
    BY <2>1, <2>2
<1>7. ASSUME NEW i \in 1..5, turns[i] = p PROVE i = Number(asked, p)
  <2>1. CASE asked
    BY <1>2, <1>3, <1>4, <1>5, <1>7, <2>1 DEF Number
  <2>2. CASE ~asked
    BY <1>2, <1>3, <1>4, <1>5, <1>7, <2>2 DEF Number
  <2> QED
    BY <2>1, <2>2
<1> QED
  BY <1>1, <1>6, <1>7

LEMMA PassedIs ==
  /\ hook \in BOOLEAN /\ pass \in Pass => Passed = Order(hook, pass, resume)
  /\ hook' \in BOOLEAN /\ pass' \in Pass => Passed' = Order(hook', pass', resume')
<1>1. hook \in BOOLEAN /\ pass \in Pass => Passed = Order(hook, pass, resume)
  <2> SUFFICES ASSUME hook \in BOOLEAN, pass \in Pass PROVE Passed = Order(hook, pass, resume)
    OBVIOUS
  <2>1. (CHOOSE i \in DOMAIN Turns : Turns[i] = pass) = Number(hook, pass)
    BY TurnOf DEF Turns
  <2> QED
    BY <2>1 DEF Passed, Order
<1>2. hook' \in BOOLEAN /\ pass' \in Pass => Passed' = Order(hook', pass', resume')
  <2> SUFFICES ASSUME hook' \in BOOLEAN, pass' \in Pass PROVE Passed' = Order(hook', pass', resume')
    OBVIOUS
  <2>1. (CHOOSE i \in DOMAIN Turns' : Turns'[i] = pass') = Number(hook', pass')
    BY TurnOf DEF Turns
  <2> QED
    BY <2>1 DEF Passed, Order
<1> QED
  BY <1>1, <1>2

-----------------------------------------------------------------------------
(* What a step may be.                                                     *)

\* A step that hands over nothing, or what is no option.
NoOption ==
  \/ pushed' = pushed
  \/ \E token \in TokenType : token.on # "option" /\ pushed' = Append(pushed, token)

LEMMA SameOptions ==
  ASSUME pushed \in Seq(TokenType), NoOption
  PROVE  /\ pushed' \in Seq(TokenType)
         /\ HandedOptions' = HandedOptions /\ DynamicOptions' = DynamicOptions
         /\ \A i \in HandedOptions : pushed'[i] = pushed[i]
<1>1. CASE pushed' = pushed
  BY <1>1 DEF HandedOptions, DynamicOptions
<1>2. ASSUME NEW token \in TokenType, token.on # "option", pushed' = Append(pushed, token)
      PROVE  /\ pushed' \in Seq(TokenType)
             /\ HandedOptions' = HandedOptions /\ DynamicOptions' = DynamicOptions
             /\ \A i \in HandedOptions : pushed'[i] = pushed[i]
  <2>1. PICK n \in Nat : n = Len(pushed)
    BY LenProperties
  <2>2. DOMAIN pushed = 1..n /\ DOMAIN pushed' = 1..(n + 1) /\ pushed' \in Seq(TokenType)
    BY <1>2, <2>1, LenProperties, AppendProperties
  <2>3. pushed'[n + 1] = token /\ \A i \in 1..n : pushed'[i] = pushed[i]
    BY <1>2, <2>1, AppendProperties
  <2>4. \A i \in 1..(n + 1) : i \in 1..n \/ i = n + 1
    OBVIOUS
  <2>5. \A i \in 1..n : i \in 1..(n + 1)
    OBVIOUS
  <2>6. \A i : i \in DOMAIN pushed' /\ pushed'[i].on = "option" <=> i \in DOMAIN pushed /\ pushed[i].on = "option"
    BY <1>2, <2>2, <2>3, <2>4, <2>5
  <2>7. HandedOptions' = HandedOptions
    BY <2>6 DEF HandedOptions
  <2>8. \A i \in HandedOptions : pushed'[i] = pushed[i]
    BY <2>2, <2>3 DEF HandedOptions
  <2>9. DynamicOptions' = DynamicOptions
    BY <2>7, <2>8 DEF DynamicOptions
  <2> QED
    BY <2>2, <2>7, <2>8, <2>9
<1> QED
  BY <1>1, <1>2 DEF NoOption

\* A step that reads no option of the rule.
OtherStep ==
  /\ NoOption /\ StateOK' /\ Parts'
  /\ dynamic' = dynamic \/ (dynamic' = dynamic \cup {pass} /\ pass # "real")
  /\ blocks' = blocks \/ (blocks' = blocks + 1 /\ ~Unstarted)
  /\ Unstarted' => Unstarted
  /\ group' = "first" => Unstarted \/ group = "first" \/ blocks' = blocks + 1
  /\ verdict' = "duplicate dynamic state" => verdict' = verdict \/ DynamicOptions # {}

LEMMA BlockOf ==
  ASSUME StateOK, NEW i \in HandedOptions
  PROVE  pushed[i] \in TokenType /\ pushed[i].block \in Nat
<1>1. i \in DOMAIN pushed /\ pushed \in Seq(TokenType)
  BY DEF HandedOptions, StateOK
<1>2. pushed[i] \in TokenType
  BY <1>1, ElementOfSeq, LenProperties
<1> QED
  BY <1>2 DEF TokenType

LEMMA OtherKeeps ==
  ASSUME IInv, OtherStep
  PROVE  IInv'
<1>1. /\ HandedOptions' = HandedOptions /\ DynamicOptions' = DynamicOptions
      /\ \A i \in HandedOptions : pushed'[i] = pushed[i]
  BY SameOptions DEF OtherStep, IInv, StateOK
<1>2. \A i \in DynamicOptions : i \in HandedOptions
  BY DEF DynamicOptions
<1>3. blocks \in Nat /\ (blocks' = blocks \/ blocks' = blocks + 1)
  BY DEF IInv, StateOK, OtherStep
<1>4. \A n \in Nat : (n < blocks => n < blocks') /\ (n <= blocks => n <= blocks')
                     /\ (n <= blocks /\ blocks' = blocks + 1 => n < blocks')
  BY <1>3
<1>5. \A i \in HandedOptions : pushed[i].block \in Nat
  BY BlockOf DEF IInv
<1>6. "real" \in dynamic' <=> "real" \in dynamic
  BY DEF OtherStep
<1>7. Unstarted' => HandedOptions' = {} /\ blocks' = 0 /\ "real" \notin dynamic'
  BY <1>1, <1>6 DEF OtherStep, IInv, Counted
<1>8. \A i \in HandedOptions' : pushed'[i].block <= blocks'
  BY <1>1, <1>4, <1>5 DEF IInv, Counted
<1>9. group' = "first" => \A i \in HandedOptions' : pushed'[i].block < blocks'
  <2> SUFFICES ASSUME group' = "first", NEW i \in HandedOptions PROVE pushed[i].block < blocks'
    BY <1>1
  <2>1. Unstarted \/ group = "first" \/ blocks' = blocks + 1
    BY DEF OtherStep
  <2>2. ~Unstarted
    BY DEF IInv, Counted
  <2>3. group = "first" => pushed[i].block < blocks
    BY DEF IInv, Counted
  <2>4. pushed[i].block <= blocks
    BY DEF IInv, Counted
  <2> QED
    BY <1>4, <1>5, <2>1, <2>2, <2>3, <2>4
<1>10. \A i \in DynamicOptions' : pushed'[i].block < blocks'
  BY <1>1, <1>2, <1>4, <1>5 DEF IInv, Counted
<1>11. "real" \in dynamic' <=> DynamicOptions' # {}
  BY <1>1, <1>6 DEF IInv, Counted
<1>12. Counted'
  BY <1>7, <1>8, <1>9, <1>10, <1>11 DEF Counted
<1>13. OneDynamicState'
  <2>1. \A i, j \in DynamicOptions' : i = j
    BY <1>1 DEF IInv, OneDynamicState
  <2>2. \A i \in DynamicOptions' : \A j \in HandedOptions' :
          pushed'[i].block = pushed'[j].block => i = j
    <3> SUFFICES ASSUME NEW i \in DynamicOptions, NEW j \in HandedOptions,
                        pushed[i].block = pushed[j].block
                 PROVE  i = j
      BY <1>1, <1>2
    <3> QED
      BY DEF IInv, OneDynamicState
  <2>3. verdict' = "duplicate dynamic state" => DynamicOptions' # {}
    BY <1>1 DEF IInv, OneDynamicState, OtherStep
  <2> QED
    BY <2>1, <2>2, <2>3 DEF OneDynamicState
<1> QED
  BY <1>12, <1>13 DEF IInv, OtherStep

\* A step that hands an option of the rule over.
OptionStep(w) ==
  /\ pushed' = Append(pushed, Token("option", w))
  /\ StateOK' /\ Parts' /\ ~Unstarted /\ ~Unstarted'
  /\ group' = "first" => blocks' = blocks + 1
  /\ blocks' = blocks \/ blocks' = blocks + 1
  /\ IF IsDynamic(OptionOf(w))
     THEN "real" \notin dynamic /\ group = "first" /\ blocks' = blocks + 1 /\ dynamic' = dynamic \cup {"real"}
     ELSE dynamic' = dynamic
  /\ verdict' # "duplicate dynamic state"

LEMMA OptionKeeps ==
  ASSUME IInv, NEW w \in Words, OptionStep(w)
  PROVE  IInv'
<1>1. at \in Nat /\ blocks \in Nat /\ pattern \in Nat /\ pushed \in Seq(TokenType)
  BY DEF IInv, StateOK
<1>2. PICK token \in TokenType : token = Token("option", w) /\ token.on = "option"
                                 /\ token.block = blocks /\ token.kind = OptionOf(w)
  <2>1. "option" \in On
    BY DEF On
  <2> QED
    BY <1>1, <2>1, TokenFacts
<1>3. PICK n \in Nat : n = Len(pushed)
  BY <1>1, LenProperties
<1>4. pushed' = Append(pushed, token)
  BY <1>2 DEF OptionStep
<1>5. DOMAIN pushed = 1..n /\ DOMAIN pushed' = 1..(n + 1)
  BY <1>1, <1>3, <1>4, LenProperties, AppendProperties
<1>6. pushed'[n + 1] = token /\ \A i \in 1..n : pushed'[i] = pushed[i]
  BY <1>1, <1>3, <1>4, AppendProperties
<1>7. n + 1 \notin 1..n /\ \A i : i \in 1..(n + 1) <=> i \in 1..n \/ i = n + 1
  OBVIOUS
<1>8. HandedOptions \subseteq 1..n /\ DynamicOptions \subseteq HandedOptions
  BY <1>5 DEF HandedOptions, DynamicOptions
<1>9. HandedOptions' = HandedOptions \cup {n + 1}
  BY <1>2, <1>5, <1>6, <1>7 DEF HandedOptions
<1>10. \A i \in HandedOptions : pushed'[i] = pushed[i] /\ i # n + 1
  BY <1>6, <1>7, <1>8
<1>11. DynamicOptions' = DynamicOptions \cup (IF IsDynamic(OptionOf(w)) THEN {n + 1} ELSE {})
  <2>1. \A i \in HandedOptions' : pushed'[i].kind = IF i = n + 1 THEN OptionOf(w) ELSE pushed[i].kind
    BY <1>2, <1>6, <1>9, <1>10
  <2>2. DynamicOptions' = {i \in HandedOptions' : IsDynamic(pushed'[i].kind)}
    BY DEF DynamicOptions
  <2> QED
    BY <1>9, <1>10, <2>1, <2>2 DEF DynamicOptions
<1>12. \A i \in HandedOptions : pushed[i].block \in Nat
  BY BlockOf DEF IInv
<1>13. blocks' = blocks \/ blocks' = blocks + 1
  BY DEF OptionStep
<1>14. /\ \A m \in Nat : (m < blocks => m < blocks') /\ (m <= blocks => m <= blocks')
                         /\ (m <= blocks /\ blocks' = blocks + 1 => m < blocks')
                         /\ (m < blocks => m # blocks)
       /\ blocks <= blocks' /\ (blocks' = blocks + 1 => blocks < blocks')
  BY <1>1, <1>13
<1>15. \A i \in HandedOptions' : pushed'[i].block <= blocks'
  BY <1>2, <1>6, <1>9, <1>10, <1>12, <1>14 DEF IInv, Counted
<1>16. group' = "first" => \A i \in HandedOptions' : pushed'[i].block < blocks'
  <2> SUFFICES ASSUME group' = "first", NEW i \in HandedOptions' PROVE pushed'[i].block < blocks'
    OBVIOUS
  <2>1. blocks' = blocks + 1
    BY DEF OptionStep
  <2>2. i \in HandedOptions => pushed[i].block <= blocks
    BY DEF IInv, Counted
  <2> QED
    BY <1>2, <1>6, <1>9, <1>10, <1>12, <1>14, <2>1, <2>2
<1>17. IsDynamic(OptionOf(w)) =>
         /\ DynamicOptions = {} /\ blocks' = blocks + 1
         /\ \A i \in HandedOptions : pushed[i].block < blocks
  BY DEF IInv, Counted, OptionStep
<1>18. \A i \in DynamicOptions' : pushed'[i].block < blocks'
  <2>1. \A i \in DynamicOptions : pushed[i].block < blocks
    BY DEF IInv, Counted
  <2> QED
    BY <1>2, <1>6, <1>8, <1>10, <1>11, <1>12, <1>14, <1>17, <2>1
<1>19. "real" \in dynamic' <=> DynamicOptions' # {}
  <2>1. "real" \in dynamic <=> DynamicOptions # {}
    BY DEF IInv, Counted
  <2>2. CASE IsDynamic(OptionOf(w))
    <3>1. dynamic' = dynamic \cup {"real"}
      BY <2>2 DEF OptionStep
    <3> QED
      BY <1>11, <2>2, <3>1
  <2>3. CASE ~IsDynamic(OptionOf(w))
    <3>1. dynamic' = dynamic
      BY <2>3 DEF OptionStep
    <3> QED
      BY <1>11, <2>1, <2>3, <3>1
  <2> QED
    BY <2>2, <2>3
<1>20. Counted'
  <2>1. ~Unstarted'
    BY DEF OptionStep
  <2> QED
    BY <1>15, <1>16, <1>18, <1>19, <2>1 DEF Counted
<1>21. OneDynamicState'
  <2>1. \A i, j \in DynamicOptions' : i = j
    BY <1>11, <1>17 DEF IInv, OneDynamicState
  <2>2. ASSUME NEW i \in DynamicOptions', NEW j \in HandedOptions',
               pushed'[i].block = pushed'[j].block
        PROVE  i = j
    <3>1. CASE IsDynamic(OptionOf(w))
      <4>1. i = n + 1 /\ pushed'[i].block = blocks
        BY <1>2, <1>6, <1>11, <1>17, <3>1
      <4>2. j \in HandedOptions => pushed'[j].block # blocks
        BY <1>10, <1>12, <1>14, <1>17, <3>1
      <4> QED
        BY <1>9, <2>2, <4>1, <4>2
    <3>2. CASE ~IsDynamic(OptionOf(w))
      <4>1. i \in DynamicOptions /\ i \in HandedOptions
        BY <1>8, <1>11, <3>2
      <4>2. pushed'[i].block # blocks
        BY <1>10, <1>12, <1>14, <4>1 DEF IInv, Counted
      <4>3. j \in HandedOptions
        BY <1>2, <1>6, <1>9, <2>2, <4>2
      <4> QED
        BY <1>10, <2>2, <4>1, <4>3 DEF IInv, OneDynamicState
    <3> QED
      BY <3>1, <3>2
  <2>3. verdict' # "duplicate dynamic state"
    BY DEF OptionStep
  <2> QED
    BY <2>1, <2>2, <2>3 DEF OneDynamicState
<1> QED
  BY <1>20, <1>21 DEF IInv, OptionStep

\* A step after which no option is handed over.
NoneStep ==
  /\ StateOK' /\ Parts'
  /\ \A i \in DOMAIN pushed' : pushed'[i].on # "option"
  /\ blocks' = 0 /\ "real" \notin dynamic'
  /\ verdict' # "duplicate dynamic state"

LEMMA NoneKeeps ==
  ASSUME NoneStep
  PROVE  IInv'
<1>1. HandedOptions' = {} /\ DynamicOptions' = {}
  BY DEF NoneStep, HandedOptions, DynamicOptions
<1>2. Counted'
  BY <1>1 DEF NoneStep, Counted
<1>3. OneDynamicState'
  BY <1>1 DEF NoneStep, OneDynamicState
<1> QED
  BY <1>2, <1>3 DEF NoneStep, IInv

LEMMA PassGoesOn ==
  ASSUME StateOK, StateOK', hook' = hook, Order(hook, pass', resume') > Order(hook, pass, resume)
  PROVE  Passed' > Passed
BY PassedIs DEF StateOK

LEMMA PassStays ==
  ASSUME StateOK, StateOK', hook' = hook, pass' = pass, resume' = resume
  PROVE  Passed' = Passed
BY PassedIs DEF StateOK

\* A step that reads the word looked at.
Reading ==
  /\ verdict = "none"
  /\ UNCHANGED <<checker, hook, rule>>

\* Reading over nothing but probes, which hand over nothing.
LEMMA Probing ==
  ASSUME IInv, pass \notin {"group", "real"}
  PROVE  pushed = <<>> /\ resume = 0 /\ blocks = 0 /\ "real" \notin dynamic
         /\ pass \in {"choice", "header", "start"}
BY DEF IInv, StateOK, Parts, Counted, Unstarted, Pass

LEMMA AnyOnFacts ==
  /\ AnyOn("source") \in TokenType /\ AnyOn("source").on = "source"
  /\ AnyOn("destination") \in TokenType /\ AnyOn("destination").on = "destination"
<1>1. "source" \in On /\ "destination" \in On /\ "any" \in DOMAIN Dictionary
      /\ "unknown" \in Kind
  BY WordsAssumption DEF On, Kind
<1>2. 0 \in Nat
  OBVIOUS
<1> QED
  BY <1>1, <1>2 DEF AnyOn, TokenType

\* What the probes count.
SameCounts == blocks' = blocks /\ pattern' = pattern
              /\ (dynamic' = dynamic \/ (dynamic' = dynamic \cup {pass} /\ pass # "real"))

LEMMA CountsTyped ==
  ASSUME StateOK, SameCounts
  PROVE  blocks' \in Nat /\ pattern' \in Nat /\ dynamic' \subseteq Pass
BY DEF StateOK, SameCounts

BeginsReal ==
  /\ Reading /\ pass \notin {"group", "real"} /\ resume' = resume /\ SameCounts
  /\ Legacy \/ \E found \in {"native", "comment only"} : ImplicitAny(found)

LEMMA RealBegins ==
  ASSUME IInv, BeginsReal
  PROVE  IInv' /\ Advance
<1>1. pushed = <<>> /\ resume = 0 /\ blocks = 0 /\ "real" \notin dynamic
      /\ pass \in {"choice", "header", "start"}
  BY Probing DEF BeginsReal
<1>2. /\ pass' = "real" /\ at' = 1 /\ group' = "first" /\ resume' = 0 /\ hook' = hook
      /\ verdict' \in {"none", "refused"} /\ blocks' = 0 /\ "real" \notin dynamic'
  <2>1. resume' = 0 /\ hook' = hook /\ blocks' = 0 /\ "real" \notin dynamic' /\ verdict = "none"
    BY <1>1 DEF BeginsReal, Reading, SameCounts
  <2>2. CASE Legacy
    BY <2>1, <2>2 DEF Legacy, From
  <2>3. ASSUME NEW found \in {"native", "comment only"}, ImplicitAny(found)
        PROVE  pass' = "real" /\ at' = 1 /\ group' = "first" /\ verdict' \in {"none", "refused"}
    BY <2>1, <2>3 DEF ImplicitAny, From
  <2> QED
    BY <2>1, <2>2, <2>3 DEF BeginsReal, Legacy, From
<1>3. pushed' \in Seq(TokenType) /\ \A i \in DOMAIN pushed' : pushed'[i].on # "option"
  <2>1. pushed' \in {<<>>, <<AnyOn("source")>>, <<AnyOn("source"), AnyOn("destination")>>}
    <3>1. <<>> \o <<AnyOn("source"), AnyOn("destination")>> = <<AnyOn("source"), AnyOn("destination")>>
      OBVIOUS
    <3> QED
      BY <1>1, <3>1 DEF BeginsReal, Legacy, ImplicitAny
  <2>2. PICK a \in TokenType, b \in TokenType :
          a = AnyOn("source") /\ b = AnyOn("destination") /\ a.on = "source" /\ b.on = "destination"
    BY AnyOnFacts
  <2>3. /\ <<>> \in Seq(TokenType) /\ <<a>> \in Seq(TokenType) /\ <<a, b>> \in Seq(TokenType)
        /\ \A i \in DOMAIN <<>> : FALSE
        /\ \A i \in DOMAIN <<a>> : <<a>>[i] = a
        /\ \A i \in DOMAIN <<a, b>> : <<a, b>>[i] = a \/ <<a, b>>[i] = b
    OBVIOUS
  <2> QED
    BY <2>1, <2>2, <2>3
<1>4. grammar' # "none" /\ place' \in {"protocols", "options"}
  BY DEF BeginsReal, Legacy, ImplicitAny, From
<1>5. StateOK'
  <2>1. blocks' \in Nat /\ pattern' \in Nat /\ dynamic' \subseteq Pass
    BY CountsTyped DEF BeginsReal, IInv
  <2>2. at' \in Nat \ {0} /\ resume' \in Nat
    BY <1>2
  <2>3. pass' \in Pass
    BY <1>2 DEF Pass
  <2> QED
    BY <1>2, <1>3, <2>1, <2>2, <2>3 DEF StateOK, IInv, BeginsReal, Reading
<1>6. Parts'
  BY <1>2, <1>4 DEF Parts, Header, Listed
<1>7. IInv'
  <2>1. verdict' # "duplicate dynamic state"
    BY <1>2
  <2> QED
    BY <1>2, <1>3, <1>5, <1>6, <2>1, NoneKeeps DEF NoneStep
<1>8. Order(hook, pass', resume') > Order(hook, pass, resume)
  <2>1. Order(hook, pass', resume') = 4
    BY <1>2 DEF Order, Number
  <2>2. Order(hook, pass, resume) \in {1, 2, 3}
    BY <1>1 DEF Order, Number
  <2> QED
    BY <2>1, <2>2
<1> QED
  BY <1>2, <1>5, <1>7, <1>8, PassGoesOn DEF IInv, Advance

\* A probe begins after the choice, or the second after the first.
BeginsProbe(for, part) ==
  /\ Reading /\ pass \notin {"group", "real"} /\ resume' = resume /\ SameCounts
  /\ Probe(for, part)
  /\ <<for, part>> \in {<<"header", "protocols">>, <<"start", "options">>}
  /\ \/ pass = "choice"
     \/ pass = "header" /\ for = "start" /\ hook
     \/ pass = "start" /\ for = "header" /\ ~hook

LEMMA ProbeBegins ==
  ASSUME IInv, NEW for, NEW part, BeginsProbe(for, part)
  PROVE  IInv' /\ Advance
<1>1. pushed = <<>> /\ resume = 0 /\ blocks = 0 /\ "real" \notin dynamic
      /\ pass \in {"choice", "header", "start"}
  BY Probing DEF BeginsProbe
<1>2. (for = "header" /\ part = "protocols") \/ (for = "start" /\ part = "options")
  BY DEF BeginsProbe
<1>3. /\ pass' = for /\ at' = 1 /\ place' = part /\ group' = "first" /\ resume' = 0 /\ hook' = hook
      /\ verdict' = "none" /\ blocks' = 0 /\ "real" \notin dynamic'
      /\ grammar' = grammar /\ pushed' = <<>>
  BY <1>1 DEF BeginsProbe, Reading, SameCounts, Probe, From
<1>4. StateOK'
  <2>1. blocks' \in Nat /\ pattern' \in Nat /\ dynamic' \subseteq Pass
    BY CountsTyped DEF BeginsProbe, IInv
  <2>2. at' \in Nat \ {0} /\ resume' \in Nat
    BY <1>3
  <2>3. pass' \in Pass
    BY <1>2, <1>3 DEF Pass
  <2>4. pushed' \in Seq(TokenType)
    BY <1>1, <1>3 DEF IInv, StateOK
  <2> QED
    BY <1>3, <2>1, <2>2, <2>3, <2>4 DEF StateOK, IInv, BeginsProbe, Reading
<1>5. Parts'
  <2>1. grammar' = "none"
    BY <1>1, <1>3 DEF IInv, Parts
  <2> QED
    BY <1>2, <1>3, <2>1 DEF Parts, Header, Listed
<1>6. IInv'
  <2>1. verdict' # "duplicate dynamic state"
    BY <1>3
  <2>2. \A i \in DOMAIN pushed' : FALSE
    BY <1>3
  <2> QED
    BY <1>3, <1>4, <1>5, <2>1, <2>2, NoneKeeps DEF NoneStep
<1>7. Order(hook, pass', resume') > Order(hook, pass, resume)
  <2>1. \/ pass = "choice" /\ pass' \in {"header", "start"}
        \/ pass = "header" /\ pass' = "start" /\ hook
        \/ pass = "start" /\ pass' = "header" /\ ~hook
    BY <1>2, <1>3 DEF BeginsProbe
  <2>2. \/ Order(hook, pass, resume) = 1 /\ Order(hook, pass', resume') \in {2, 3}
        \/ Order(hook, pass, resume) = 2 /\ Order(hook, pass', resume') = 3
    BY <1>3, <2>1 DEF Order, Number
  <2> QED
    BY <2>2
<1> QED
  BY <1>3, <1>4, <1>6, <1>7, PassGoesOn DEF IInv, Advance

-----------------------------------------------------------------------------
(* Steps that go on, decide the rule, or end a pass.                       *)

LEMMA StateKeeps ==
  ASSUME StateOK, Reading, pass' \in Pass, resume' \in Nat, at' \in Nat \ {0},
         group' \in {"first", "member", "separator"},
         blocks' = blocks \/ blocks' = blocks + 1, pattern' \in Nat,
         dynamic' = dynamic \/ dynamic' = dynamic \cup {pass}, pushed' \in Seq(TokenType)
  PROVE  StateOK'
<1>1. blocks' \in Nat /\ dynamic' \subseteq Pass
  BY DEF StateOK
<1> QED
  BY <1>1 DEF StateOK, Reading

\* A step to the next word, or to a later part at this one.
Onward ==
  /\ Reading /\ NoOption /\ Parts'
  /\ pass' = pass /\ resume' = resume /\ dynamic' = dynamic /\ verdict' = verdict
  /\ blocks' = blocks \/ (blocks' = blocks + 1 /\ ~Unstarted)
  /\ pattern' \in Nat /\ group' \in {"first", "member", "separator"}
  /\ at' = at + 1 \/ (at' = at /\ Parted' > Parted)
  /\ Unstarted' => Unstarted
  /\ group' = "first" => Unstarted \/ group = "first" \/ blocks' = blocks + 1

LEMMA OnwardKeeps ==
  ASSUME IInv, Onward
  PROVE  IInv' /\ Advance
<1>1. at \in Nat /\ at' \in Nat \ {0} /\ (at' > at \/ (at' = at /\ Parted' > Parted))
  BY DEF IInv, StateOK, Onward
<1>2. StateOK'
  <2>1. pushed' \in Seq(TokenType)
    BY SameOptions DEF IInv, StateOK, Onward
  <2>2. pass' \in Pass /\ resume' \in Nat
    BY DEF IInv, StateOK, Onward
  <2> QED
    BY <1>1, <2>1, <2>2, StateKeeps DEF IInv, Onward
<1>3. IInv'
  BY <1>2, OtherKeeps DEF Onward, OtherStep
<1>4. Passed' = Passed
  BY <1>2, PassStays DEF IInv, Onward, Reading
<1> QED
  BY <1>1, <1>3, <1>4 DEF Advance

\* A step that decides the rule where the parsers are.
Decides ==
  /\ Reading /\ UNCHANGED <<choice, at, place, group, pushed, counts>>
  /\ verdict' # "none"
  /\ verdict' = "duplicate dynamic state" => DynamicOptions # {}

LEMMA DecidesKeeps ==
  ASSUME IInv, Decides
  PROVE  IInv' /\ Advance
<1>1. StateOK'
  BY DEF IInv, StateOK, Decides, Reading, choice, counts
<1>2. Parts'
  BY DEF IInv, Parts, Decides, choice
<1>3. Unstarted' = Unstarted
  BY DEF Decides, choice, Unstarted
<1>4. OtherStep
  BY <1>1, <1>2, <1>3 DEF OtherStep, NoOption, Decides, IInv, counts
<1> QED
  BY <1>4, OtherKeeps DEF Decides, Reading, Advance

\* A step that ends a pass.
Ends(outcome) ==
  /\ Reading /\ SameCounts /\ pass # "choice" /\ Ended(outcome)
  /\ outcome # "none"
  /\ outcome = "duplicate dynamic state" => DynamicOptions # {} \/ pass # "real"

LEMMA EndedStep ==
  ASSUME IInv, NEW outcome, Ends(outcome)
  PROVE  IInv' /\ Advance
<1>1. pass \in {"header", "start", "group", "real"}
  BY DEF IInv, StateOK, Pass, Ends
<1>2. CASE pass = "header"
  <2>1. resume' = resume /\ (Legacy \/ (hook /\ Probe("start", "options")) \/ Native)
    BY <1>2 DEF Ends, Ended
  <2>2. CASE Legacy \/ Native
    BY <1>2, <2>1, <2>2, RealBegins DEF Ends, BeginsReal, Native
  <2>3. CASE hook /\ Probe("start", "options")
    BY <1>2, <2>1, <2>3, ProbeBegins DEF Ends, BeginsProbe
  <2> QED
    BY <2>1, <2>2, <2>3
<1>3. CASE pass = "start"
  <2>1. resume' = resume /\ (Legacy \/ (~hook /\ Probe("header", "protocols")) \/ Native)
    BY <1>3 DEF Ends, Ended, Started
  <2>2. CASE Legacy \/ Native
    BY <1>3, <2>1, <2>2, RealBegins DEF Ends, BeginsReal, Native
  <2>3. CASE ~hook /\ Probe("header", "protocols")
    BY <1>3, <2>1, <2>3, ProbeBegins DEF Ends, BeginsProbe
  <2> QED
    BY <2>1, <2>2, <2>3
<1>4. CASE pass = "group"
  <2>1. /\ pass' = "real" /\ at' = resume /\ group' = "first"
        /\ place' \in {"destination ports", "options"}
        /\ grammar' = grammar /\ resume' = resume /\ pushed' = pushed /\ verdict' = verdict
    BY <1>4 DEF Ends, Ended, From
  <2>2. resume # 0 /\ resume \in Nat /\ grammar # "none"
    BY <1>4 DEF IInv, StateOK, Parts
  <2>3. StateOK'
    <3>1. pass' \in Pass /\ resume' \in Nat /\ at' \in Nat \ {0}
      BY <2>1, <2>2 DEF Pass
    <3>2. pattern' \in Nat /\ blocks' = blocks /\ (dynamic' = dynamic \/ dynamic' = dynamic \cup {pass})
      BY CountsTyped DEF Ends, IInv, SameCounts
    <3>3. pushed' \in Seq(TokenType)
      BY <2>1 DEF IInv, StateOK
    <3> QED
      BY <2>1, <3>1, <3>2, <3>3, StateKeeps DEF Ends, IInv
  <2>4. Parts'
    BY <2>1, <2>2 DEF Parts, Header, Listed
  <2>5. OtherStep
    BY <1>4, <2>1, <2>3, <2>4 DEF Ends, OtherStep, NoOption, SameCounts, Unstarted, Reading
  <2>6. Order(hook, pass', resume') > Order(hook, pass, resume)
    <3>1. Order(hook, pass', resume') = 6
      BY <2>1, <2>2 DEF Order
    <3>2. Order(hook, pass, resume) = 5
      BY <1>4 DEF Order, Number
    <3> QED
      BY <3>1, <3>2
  <2> QED
    BY <2>3, <2>5, <2>6, OtherKeeps, PassGoesOn DEF Ends, IInv, Advance, Reading
<1>5. CASE pass = "real"
  <2>1. verdict' = outcome /\ UNCHANGED <<choice, at, place, group, pushed>>
    BY <1>5 DEF Ends, Ended
  <2>2. UNCHANGED counts
    BY <1>5 DEF Ends, SameCounts, counts
  <2> QED
    BY <1>5, <2>1, <2>2, DecidesKeeps DEF Ends, Decides
<1> QED
  BY <1>1, <1>2, <1>3, <1>4, <1>5

LEMMA FailsStep ==
  ASSUME IInv, Reading, pass # "choice", NEW error, Fails(error),
         error \in {"accepted", "syntax", "refused"}
  PROVE  IInv' /\ Advance
<1>1. SameCounts
  BY DEF Fails, counts, SameCounts
<1> QED
  BY <1>1, EndedStep DEF Ends, Fails

-----------------------------------------------------------------------------
(* The actions.                                                            *)

LEMMA ChooseKeeps ==
  ASSUME IInv, Reading, NEW w \in Words \cup {End}, Choose(w)
  PROVE  IInv' /\ Advance
<1>1. pass = "choice" /\ place = "body" /\ blocks' = blocks /\ pattern' = pattern /\ dynamic' = dynamic
  BY DEF Choose, counts
<1>2. \/ verdict' = "no body" /\ UNCHANGED <<choice, at, place, group, pushed>>
      \/ FirstProbe /\ resume' = resume
      \/ Past("first protocol", "first") /\ UNCHANGED <<choice, pushed, verdict>>
      \/ (Legacy \/ Native) /\ resume' = resume
  BY DEF Choose
<1>3. CASE verdict' = "no body" /\ UNCHANGED <<choice, at, place, group, pushed>>
  BY <1>1, <1>3, DecidesKeeps DEF Decides, counts
<1>4. CASE FirstProbe /\ resume' = resume
  BY <1>1, <1>4, ProbeBegins DEF FirstProbe, BeginsProbe, SameCounts
<1>5. CASE Past("first protocol", "first") /\ UNCHANGED <<choice, pushed, verdict>>
  <2>1. /\ at' = at + 1 /\ place' = "first protocol" /\ group' = "first" /\ pushed' = pushed
        /\ pass' = pass /\ grammar' = grammar /\ resume' = resume /\ verdict' = verdict
    BY <1>5 DEF Past, choice
  <2>2. Parts'
    BY <1>1, <2>1 DEF IInv, Parts, Header, Listed
  <2> QED
    BY <1>1, <2>1, <2>2, OnwardKeeps DEF Onward, NoOption, Unstarted, IInv, StateOK
<1>6. CASE (Legacy \/ Native) /\ resume' = resume
  BY <1>1, <1>6, RealBegins DEF BeginsReal, SameCounts, Native
<1> QED
  BY <1>2, <1>3, <1>4, <1>5, <1>6

LEMMA ChooseByMemberKeeps ==
  ASSUME IInv, Reading, NEW w \in Words \cup {End}, ChooseByMember(w)
  PROVE  IInv' /\ Advance
<1>1. /\ pass = "choice" /\ resume' = resume
      /\ blocks' = blocks /\ pattern' = pattern /\ dynamic' = dynamic
      /\ Legacy \/ Native
  BY DEF ChooseByMember, counts
<1> QED
  BY <1>1, RealBegins DEF BeginsReal, SameCounts, Native

LEMMA InstructionKeeps ==
  ASSUME IInv, Reading, NEW w \in Words \cup {End}, Instruction(w)
  PROVE  IInv' /\ Advance
<1>1. /\ pass = "choice" /\ place = "rule" /\ at = 1 /\ resume = 0 /\ pushed = <<>>
      /\ blocks' = blocks /\ pattern' = pattern /\ dynamic' = dynamic
  BY DEF Instruction, counts, IInv, Parts
<1>2. \/ From(1, "body") /\ UNCHANGED <<choice, pushed, verdict>>
      \/ ImplicitAny("comment only") /\ resume' = resume
      \/ /\ grammar' = "check-state" /\ pass' = "real" /\ From(1, "options")
         /\ UNCHANGED <<resume, pushed, verdict>>
      \/ verdict' = "syntax" /\ UNCHANGED <<choice, at, place, group, pushed>>
  BY DEF Instruction
<1>3. CASE From(1, "body") /\ UNCHANGED <<choice, pushed, verdict>>
  <2>1. /\ at' = at /\ place' = "body" /\ group' = "first" /\ pushed' = pushed
        /\ pass' = pass /\ grammar' = grammar /\ resume' = resume /\ verdict' = verdict
    BY <1>1, <1>3 DEF From, choice
  <2>2. Parts'
    BY <1>1, <2>1 DEF IInv, Parts, Header, Listed
  <2>3. Parted' > Parted
    <3>1. Parted' = 2 /\ Parted = 1
      BY <1>1, <2>1 DEF Parted
    <3> QED
      BY <3>1
  <2> QED
    BY <1>1, <2>1, <2>2, <2>3, OnwardKeeps DEF Onward, NoOption, Unstarted, IInv, StateOK
<1>4. CASE ImplicitAny("comment only") /\ resume' = resume
  BY <1>1, <1>4, RealBegins DEF BeginsReal, SameCounts
<1>5. CASE /\ grammar' = "check-state" /\ pass' = "real" /\ From(1, "options")
           /\ UNCHANGED <<resume, pushed, verdict>>
  <2>1. /\ at' = 1 /\ place' = "options" /\ group' = "first" /\ pushed' = <<>>
        /\ pass' = "real" /\ grammar' = "check-state" /\ resume' = 0 /\ verdict' = "none"
    BY <1>1, <1>5 DEF From, Reading
  <2>2. Parts'
    BY <2>1 DEF Parts, Header, Listed
  <2>3. blocks = 0 /\ "real" \notin dynamic
    BY <1>1 DEF IInv, Counted, Unstarted
  <2>4. StateOK'
    <3>1. pass' \in Pass /\ resume' \in Nat /\ at' \in Nat \ {0}
      BY <2>1 DEF Pass
    <3>2. pattern' \in Nat
      BY <1>1 DEF IInv, StateOK
    <3>3. pushed' \in Seq(TokenType)
      BY <1>1, <2>1 DEF IInv, StateOK
    <3> QED
      BY <1>1, <2>1, <3>1, <3>2, <3>3, StateKeeps DEF IInv
  <2>5. \A i \in DOMAIN pushed' : FALSE
    BY <2>1
  <2>6. NoneStep
    BY <1>1, <2>1, <2>2, <2>3, <2>4, <2>5 DEF NoneStep
  <2>7. Order(hook, pass', resume') > Order(hook, pass, resume)
    <3>1. Order(hook, pass', resume') = 4 /\ Order(hook, pass, resume) = 1
      BY <1>1, <2>1 DEF Order, Number
    <3> QED
      BY <3>1
  <2> QED
    BY <2>4, <2>6, <2>7, NoneKeeps, PassGoesOn DEF IInv, Advance, Reading
<1>6. CASE verdict' = "syntax" /\ UNCHANGED <<choice, at, place, group, pushed>>
  BY <1>1, <1>6, DecidesKeeps DEF Decides, counts
<1> QED
  BY <1>2, <1>3, <1>4, <1>5, <1>6

\* The parts after the choice.
LEMMA PartOf ==
  ASSUME IInv
  PROVE  /\ place \in Header \cup {"trailing"} => pass \in {"header", "real"} /\ resume = 0
         /\ place \in Header \cup {"trailing", "destination ports", "options"} => pass # "choice"
         /\ group # "first" => place \in Listed \cup {"options"}
         /\ place = "options" => pass \in {"start", "group", "real"}
<1>1. pass \in {"choice", "header", "start", "group", "real"}
  BY DEF IInv, StateOK, Pass
<1>2. place \in Header \cup {"trailing", "destination ports", "options"} => pass # "choice"
  BY DEF IInv, Parts, Header, Listed
<1>3. place \in Header \cup {"trailing"} => place # "options"
  BY DEF Header, Listed
<1>4. place = "options" => place \notin Header \cup {"trailing"}
  BY DEF Header, Listed
<1> QED
  BY <1>1, <1>2, <1>3, <1>4 DEF IInv, Parts

LEMMA OpenGroupKeeps ==
  ASSUME IInv, Reading, NEW w \in Words \cup {End}, OpenGroup(w)
  PROVE  IInv' /\ Advance
<1>1. /\ place \in Listed \cup {"options"} /\ at' = at + 1 /\ place' = place /\ group' = "member"
      /\ pattern' = 0 /\ pass' = pass /\ grammar' = grammar /\ resume' = resume
      /\ blocks' = blocks /\ dynamic' = dynamic /\ pushed' = pushed /\ verdict' = verdict
  BY DEF OpenGroup, Past, choice
<1>2. Parts'
  <2>1. place \notin {"rule", "body"}
    BY <1>1 DEF Listed
  <2> QED
    BY <1>1, <2>1 DEF IInv, Parts
<1>3. pattern' \in Nat
  BY <1>1
<1> QED
  BY <1>1, <1>2, <1>3, OnwardKeeps DEF Onward, NoOption, Unstarted

LEMMA ElementKeeps ==
  ASSUME IInv, Reading, NEW w \in Words \cup {End}, Element(w)
  PROVE  IInv' /\ Advance
<1>1. place \in Listed /\ group \in {"first", "member"} /\ pass \in {"header", "real"} /\ resume = 0
  BY PartOf DEF Element, Header
<1>2. CASE Fails("syntax") \/ Fails("refused")
  BY <1>1, <1>2, FailsStep
<1>3. CASE /\ Fits(w) /\ Push(Callback, w)
           /\ IF group = "member" THEN Past(place, "separator") ELSE Past(After(place), "first")
           /\ UNCHANGED <<choice, counts, verdict>>
  <2>1. /\ at' = at + 1 /\ pass' = pass /\ grammar' = grammar /\ resume' = resume
        /\ blocks' = blocks /\ pattern' = pattern /\ dynamic' = dynamic /\ verdict' = verdict
        /\ \/ group = "member" /\ group' = "separator" /\ place' = place
           \/ group = "first" /\ group' = "first" /\ place' \in {"from", "to", "trailing"}
    BY <1>1, <1>3 DEF Past, choice, counts, After
  <2>2. w \in Words
    BY <1>3 DEF Fits, End
  <2>3. Callback \in On /\ Callback # "option"
    BY <1>1 DEF Callback, On, Listed
  <2>4. NoOption
    <3>1. at \in Nat /\ blocks \in Nat /\ pattern \in Nat
      BY DEF IInv, StateOK
    <3>2. Token(Callback, w) \in TokenType /\ Token(Callback, w).on = Callback
      BY <2>2, <2>3, <3>1, TokenFacts
    <3> QED
      BY <1>3, <2>3, <3>2 DEF Push, NoOption
  <2>5. place' \in Header \cup {"trailing"} /\ place' # "options" /\ place # "options"
    BY <1>1, <2>1 DEF Header, Listed
  <2>6. Parts'
    <3>1. grammar # "none" <=> pass \in {"group", "real"}
      BY DEF IInv, Parts
    <3>2. pass \notin {"group", "real"} => pushed' = <<>>
      BY <1>3 DEF IInv, Parts, Push, ToState
    <3>3. place' \notin {"rule", "body", "first protocol", "destination ports", "options"}
      BY <2>5 DEF Header, Listed
    <3>4. group' # "first" => place' \in Listed
      BY <1>1, <2>1
    <3> QED
      BY <1>1, <2>1, <2>5, <3>1, <3>2, <3>3, <3>4 DEF Parts
  <2> QED
    BY <1>1, <2>1, <2>4, <2>5, <2>6, OnwardKeeps DEF Onward, Unstarted, IInv, StateOK
<1> QED
  BY <1>2, <1>3 DEF Element

LEMMA SeparatorKeeps ==
  ASSUME IInv, Reading, NEW w \in Words \cup {End}, Separator(w)
  PROVE  IInv' /\ Advance
<1>1. group = "separator" /\ place \in Listed \cup {"options"} /\ pass # "choice"
  <2>1. group = "separator" /\ place \in Listed \cup {"options"}
    BY PartOf DEF Separator
  <2>2. place \in Header \cup {"trailing", "destination ports", "options"}
    BY <2>1 DEF Header
  <2> QED
    BY <2>1, <2>2, PartOf
<1>2. \/ /\ Past(place, "member") /\ pattern' = pattern + 1
         /\ UNCHANGED <<choice, blocks, dynamic, pushed, verdict>>
      \/ place # "options" /\ Past(After(place), "first") /\ UNCHANGED <<choice, counts, pushed, verdict>>
      \/ /\ place = "options" /\ pass = "real" /\ Past("options", "first") /\ blocks' = blocks + 1
         /\ UNCHANGED <<choice, pattern, dynamic, pushed, verdict>>
      \/ Fails("accepted") \/ Fails("syntax")
  BY DEF Separator
<1>3. CASE /\ Past(place, "member") /\ pattern' = pattern + 1
           /\ UNCHANGED <<choice, blocks, dynamic, pushed, verdict>>
  <2>1. /\ at' = at + 1 /\ place' = place /\ group' = "member"
        /\ pass' = pass /\ grammar' = grammar /\ resume' = resume
        /\ blocks' = blocks /\ dynamic' = dynamic /\ pushed' = pushed /\ verdict' = verdict
    BY <1>3 DEF Past, choice
  <2>2. Parts'
    <3>1. place \notin {"rule", "body"}
      BY <1>1 DEF Listed
    <3> QED
      BY <1>1, <2>1, <3>1 DEF IInv, Parts
  <2>3. pattern' \in Nat
    BY <1>3 DEF IInv, StateOK
  <2> QED
    BY <2>1, <2>2, <2>3, OnwardKeeps DEF Onward, NoOption, Unstarted
<1>4. CASE place # "options" /\ Past(After(place), "first") /\ UNCHANGED <<choice, counts, pushed, verdict>>
  <2>1. /\ at' = at + 1 /\ place' \in {"from", "to", "trailing"} /\ group' = "first"
        /\ pass' = pass /\ grammar' = grammar /\ resume' = resume /\ pattern' = pattern
        /\ blocks' = blocks /\ dynamic' = dynamic /\ pushed' = pushed /\ verdict' = verdict
    BY <1>4 DEF Past, choice, counts, After
  <2>2. place' \in Header \cup {"trailing"} /\ place \in Header
    BY <1>1, <1>4, <2>1 DEF Header
  <2>3. pass \in {"header", "real"} /\ resume = 0
    BY <2>2, PartOf
  <2>4. Parts'
    <3>1. grammar # "none" <=> pass \in {"group", "real"}
      BY DEF IInv, Parts
    <3>2. pass \notin {"group", "real"} => pushed = <<>>
      BY DEF IInv, Parts
    <3>3. place' \notin {"rule", "body", "first protocol", "destination ports", "options"}
      BY <2>1
    <3> QED
      BY <2>1, <2>2, <2>3, <3>1, <3>2, <3>3 DEF Parts
  <2>5. pattern' \in Nat
    BY <2>1 DEF IInv, StateOK
  <2> QED
    BY <1>4, <2>1, <2>4, <2>5, OnwardKeeps DEF Onward, NoOption, Unstarted
<1>5. CASE /\ place = "options" /\ pass = "real" /\ Past("options", "first") /\ blocks' = blocks + 1
           /\ UNCHANGED <<choice, pattern, dynamic, pushed, verdict>>
  <2>1. /\ at' = at + 1 /\ place' = place /\ group' = "first"
        /\ pass' = pass /\ grammar' = grammar /\ resume' = resume /\ pattern' = pattern
        /\ blocks' = blocks + 1 /\ dynamic' = dynamic /\ pushed' = pushed /\ verdict' = verdict
    BY <1>5 DEF Past, choice
  <2>2. Parts'
    BY <1>5, <2>1 DEF IInv, Parts
  <2>3. pattern' \in Nat
    BY <2>1 DEF IInv, StateOK
  <2> QED
    BY <1>5, <2>1, <2>2, <2>3, OnwardKeeps DEF Onward, NoOption, Unstarted
<1>6. CASE Fails("accepted") \/ Fails("syntax")
  BY <1>1, <1>6, FailsStep
<1> QED
  BY <1>2, <1>3, <1>4, <1>5, <1>6

LEMMA KeywordKeeps ==
  ASSUME IInv, Reading, NEW w \in Words \cup {End}, Keyword(w)
  PROVE  IInv' /\ Advance
<1>1. place \in Header \ Listed /\ pass \in {"header", "real"} /\ resume = 0 /\ group = "first"
  <2>1. place \in Header \ Listed
    BY DEF Keyword
  <2>2. place \notin Listed \cup {"options"}
    BY <2>1 DEF Header, Listed
  <2> QED
    BY <2>1, <2>2, PartOf
<1>2. /\ at' = at + 1 /\ group' = "first" /\ place' \in {"source", "destination", "to only"}
      /\ pass' = pass /\ grammar' = grammar /\ resume' = resume
      /\ blocks' = blocks /\ pattern' = pattern /\ dynamic' = dynamic /\ verdict' = verdict
      /\ pushed' = pushed \/ (w.port = "ports" /\ Push("source ports", w))
  BY DEF Keyword, Past, choice, counts
<1>3. NoOption
  <2>1. w.port = "ports" => w \in Words
    BY DEF End
  <2>2. at \in Nat /\ blocks \in Nat /\ pattern \in Nat
    BY DEF IInv, StateOK
  <2>3. "source ports" \in On
    BY DEF On
  <2>4. w.port = "ports" =>
          Token("source ports", w) \in TokenType /\ Token("source ports", w).on = "source ports"
    BY <2>1, <2>2, <2>3, TokenFacts
  <2> QED
    BY <1>2, <2>4 DEF Push, NoOption
<1>4. Parts'
  <2>1. grammar # "none" <=> pass \in {"group", "real"}
    BY DEF IInv, Parts
  <2>2. pass \notin {"group", "real"} => pushed' = <<>>
    BY <1>2 DEF IInv, Parts, Push, ToState
  <2>3. place' \notin {"rule", "body", "first protocol", "destination ports", "options"}
    BY <1>2
  <2>4. place' \in Header
    BY <1>2 DEF Header, Listed
  <2> QED
    BY <1>1, <1>2, <2>1, <2>2, <2>3, <2>4 DEF Parts
<1>5. pattern' \in Nat
  BY <1>2 DEF IInv, StateOK
<1>6. Unstarted' => Unstarted
  BY <1>1 DEF Unstarted, Header
<1> QED
  BY <1>1, <1>2, <1>3, <1>4, <1>5, <1>6, OnwardKeeps DEF Onward

LEMMA NoKeywordKeeps ==
  ASSUME IInv, Reading, NEW w \in Words \cup {End}, NoKeyword(w)
  PROVE  IInv' /\ Advance
<1>1. place \in Header /\ (Fails("syntax") \/ Fails("refused"))
  BY DEF NoKeyword, Header
<1>2. pass # "choice"
  BY <1>1, PartOf
<1> QED
  BY <1>1, <1>2, FailsStep

LEMMA TrailingKeeps ==
  ASSUME IInv, Reading, NEW w \in Words \cup {End}, Trailing(w)
  PROVE  IInv' /\ Advance
<1>1. place = "trailing" /\ pass \in {"header", "real"} /\ resume = 0 /\ group = "first"
  <2>1. place = "trailing" /\ place \notin Listed \cup {"options"}
    BY DEF Trailing, Listed
  <2> QED
    BY <2>1, PartOf
<1>2. \/ pass = "header" /\ Fails("accepted")
      \/ pass = "real" /\ From(at, "options") /\ UNCHANGED <<choice, counts, pushed, verdict>>
      \/ /\ pass = "real" /\ pass' = "group" /\ resume' = at /\ From(at, "options")
         /\ UNCHANGED <<grammar, counts, pushed, verdict>>
  BY <1>1 DEF Trailing
<1>3. CASE pass = "header" /\ Fails("accepted")
  BY <1>3, FailsStep
<1>4. CASE pass = "real" /\ From(at, "options") /\ UNCHANGED <<choice, counts, pushed, verdict>>
  <2>1. /\ at' = at /\ place' = "options" /\ group' = "first" /\ pushed' = pushed
        /\ pass' = "real" /\ pass' = pass /\ grammar' = grammar /\ resume' = resume /\ verdict' = verdict
        /\ blocks' = blocks /\ pattern' = pattern /\ dynamic' = dynamic
    BY <1>4 DEF From, choice, counts
  <2>2. Parts'
    BY <1>1, <2>1 DEF IInv, Parts, Header, Listed
  <2>3. Parted' > Parted
    <3>1. Parted' = 6 /\ Parted = 4
      BY <1>1, <2>1 DEF Parted
    <3> QED
      BY <3>1
  <2>4. pattern' \in Nat
    BY <2>1 DEF IInv, StateOK
  <2> QED
    BY <1>1, <2>1, <2>2, <2>3, <2>4, OnwardKeeps DEF Onward, NoOption, Unstarted
<1>5. CASE /\ pass = "real" /\ pass' = "group" /\ resume' = at /\ From(at, "options")
           /\ UNCHANGED <<grammar, counts, pushed, verdict>>
  <2>1. /\ at' = at /\ place' = "options" /\ group' = "first" /\ pushed' = pushed
        /\ pass' = "group" /\ grammar' = grammar /\ resume' = at /\ verdict' = verdict
        /\ blocks' = blocks /\ pattern' = pattern /\ dynamic' = dynamic
    BY <1>5 DEF From, counts
  <2>2. at \in Nat \ {0} /\ at # 0 /\ grammar # "none"
    BY <1>5 DEF IInv, StateOK, Parts
  <2>3. Parts'
    BY <2>1, <2>2 DEF Parts, Header, Listed
  <2>4. StateOK'
    <3>1. pass' \in Pass /\ resume' \in Nat /\ at' \in Nat \ {0}
      BY <2>1, <2>2 DEF Pass
    <3>2. pattern' \in Nat /\ pushed' \in Seq(TokenType)
      BY <2>1 DEF IInv, StateOK
    <3> QED
      BY <2>1, <3>1, <3>2, StateKeeps DEF IInv
  <2>5. Unstarted
    BY <1>1 DEF Unstarted
  <2>6. OtherStep
    BY <2>1, <2>3, <2>4, <2>5 DEF OtherStep, NoOption, Reading
  <2>7. Order(hook, pass', resume') > Order(hook, pass, resume)
    <3>1. Order(hook, pass', resume') = 5 /\ Order(hook, pass, resume) = 4
      BY <1>1, <1>5, <2>1 DEF Order, Number
    <3> QED
      BY <3>1
  <2> QED
    BY <2>4, <2>6, <2>7, OtherKeeps, PassGoesOn DEF IInv, Advance, Reading
<1> QED
  BY <1>2, <1>3, <1>4, <1>5

LEMMA DestinationPortsKeeps ==
  ASSUME IInv, Reading, NEW w \in Words \cup {End}, DestinationPorts(w)
  PROVE  IInv' /\ Advance
<1>1. place = "destination ports" /\ pass = "real" /\ resume # 0 /\ group = "first"
  <2>1. place = "destination ports" /\ place \notin Listed \cup {"options"}
    BY DEF DestinationPorts, Listed
  <2>2. pass \in {"choice", "header", "start", "group", "real"}
    BY DEF IInv, StateOK, Pass
  <2> QED
    BY <2>1, <2>2, PartOf DEF IInv, Parts, Header, Listed
<1>2. \/ Fails("refused")
      \/ /\ pushed' = pushed \/ (w.port # "none" /\ Push("destination ports", w))
         /\ Past("options", "first") \/ From(at, "options")
         /\ UNCHANGED <<choice, counts, verdict>>
  BY DEF DestinationPorts
<1>3. CASE Fails("refused")
  BY <1>1, <1>3, FailsStep
<1>4. CASE /\ pushed' = pushed \/ (w.port # "none" /\ Push("destination ports", w))
           /\ Past("options", "first") \/ From(at, "options")
           /\ UNCHANGED <<choice, counts, verdict>>
  <2>1. /\ at' = at + 1 \/ at' = at
        /\ place' = "options" /\ group' = "first"
        /\ pass' = pass /\ grammar' = grammar /\ resume' = resume /\ verdict' = verdict
        /\ blocks' = blocks /\ pattern' = pattern /\ dynamic' = dynamic
    BY <1>4 DEF From, Past, choice, counts
  <2>2. NoOption
    <3>1. w.port # "none" => w \in Words
      BY DEF End
    <3>2. at \in Nat /\ blocks \in Nat /\ pattern \in Nat
      BY DEF IInv, StateOK
    <3>3. "destination ports" \in On
      BY DEF On
    <3>4. w.port # "none" => /\ Token("destination ports", w) \in TokenType
                             /\ Token("destination ports", w).on = "destination ports"
      BY <3>1, <3>2, <3>3, TokenFacts
    <3> QED
      BY <1>4, <3>4 DEF Push, NoOption
  <2>3. Parts'
    BY <1>1, <2>1 DEF IInv, Parts, Header, Listed
  <2>4. Parted' > Parted
    <3>1. Parted' = 6 /\ Parted = 5
      BY <1>1, <2>1 DEF Parted
    <3> QED
      BY <3>1
  <2>5. pattern' \in Nat
    BY <2>1 DEF IInv, StateOK
  <2>6. Unstarted
    BY <1>1 DEF Unstarted
  <2> QED
    BY <1>1, <2>1, <2>2, <2>3, <2>4, <2>5, <2>6, OnwardKeeps DEF Onward
<1> QED
  BY <1>2, <1>3, <1>4

\* What the options make of a word.
LEMMA OutcomeFacts ==
  ASSUME IInv, NEW w \in Words \cup {End}
  PROVE  /\ Outcome(w) # "none"
         /\ Outcome(w) = "duplicate dynamic state" => pass \in dynamic
         /\ Outcome(w) = "accepted" =>
              /\ w \in Words
              /\ IsDynamic(OptionOf(w)) => group # "member" /\ pass \notin dynamic
<1>1. /\ Outcome(w) # "none"
      /\ Outcome(w) = "duplicate dynamic state" => pass \in dynamic
      /\ Outcome(w) = "accepted" =>
           /\ OptionOf(w) # "unknown"
           /\ IsDynamic(OptionOf(w)) => group # "member" /\ pass \notin dynamic
  BY DEF Outcome, Context
<1>2. OptionOf(End) = "unknown"
  BY DEF OptionOf, End, ByHook
<1> QED
  BY <1>1, <1>2

LEMMA OptionFailsKeeps ==
  ASSUME IInv, Reading, NEW w \in Words \cup {End}, OptionFails(w)
  PROVE  IInv' /\ Advance
<1>1. place = "options" /\ SameCounts /\ Ended(Outcome(w))
  BY DEF OptionFails, ToOption, SameCounts, counts
<1>2. "real" \in dynamic => DynamicOptions # {}
  BY DEF IInv, Counted
<1> QED
  BY <1>1, <1>2, OutcomeFacts, PartOf, EndedStep DEF Ends

\* An option of the rule, after which the parsers go on, or the rule is decided.
OptionOnward(w) ==
  /\ Reading /\ Parts' /\ ~Unstarted /\ ~Unstarted'
  /\ pass' = pass /\ resume' = resume /\ pattern' = pattern
  /\ pushed' = Append(pushed, Token("option", w))
  /\ group' \in {"first", "member", "separator"}
  /\ group' = "first" => blocks' = blocks + 1
  /\ blocks' = blocks \/ blocks' = blocks + 1
  /\ IF IsDynamic(OptionOf(w))
     THEN pass \notin dynamic /\ group = "first" /\ blocks' = blocks + 1 /\ dynamic' = dynamic \cup {pass}
     ELSE dynamic' = dynamic
  /\ at' = at + 1 \/ (at' = at /\ verdict' # "none")
  /\ verdict' # "duplicate dynamic state"

LEMMA OptionGoesOn ==
  ASSUME IInv, NEW w \in Words, OptionOnward(w)
  PROVE  IInv' /\ Advance
<1>1. at \in Nat \ {0} /\ at' \in Nat \ {0} /\ (at' > at \/ verdict' # verdict)
  <2>1. at' = at + 1 \/ (at' = at /\ verdict' # verdict)
    BY DEF OptionOnward, Reading
  <2>2. at \in Nat \ {0}
    BY DEF IInv, StateOK
  <2> QED
    BY <2>1, <2>2
<1>2. StateOK'
  <2>1. pushed' \in Seq(TokenType)
    <3>1. at \in Nat /\ blocks \in Nat /\ pattern \in Nat /\ pushed \in Seq(TokenType) /\ "option" \in On
      BY DEF IInv, StateOK, On
    <3>2. Token("option", w) \in TokenType
      BY <3>1, TokenFacts
    <3> QED
      BY <3>1, <3>2, AppendProperties DEF OptionOnward
  <2>2. pass' \in Pass /\ resume' \in Nat /\ pattern' \in Nat
    BY DEF IInv, StateOK, OptionOnward
  <2>3. dynamic' = dynamic \/ dynamic' = dynamic \cup {pass}
    BY DEF OptionOnward
  <2> QED
    BY <1>1, <2>1, <2>2, <2>3, StateKeeps DEF IInv, OptionOnward
<1>3. pass = "real"
  BY DEF OptionOnward, Unstarted
<1>4. OptionStep(w)
  BY <1>2, <1>3 DEF OptionStep, OptionOnward
<1>5. Passed' = Passed
  BY <1>2, PassStays DEF IInv, OptionOnward, Reading
<1> QED
  BY <1>1, <1>4, <1>5, OptionKeeps DEF Advance

LEMMA OnOptionKeeps ==
  ASSUME IInv, Reading, NEW w \in Words \cup {End}, OnOption(w)
  PROVE  IInv' /\ Advance
<1>1. /\ place = "options" /\ pass \in {"group", "real"} /\ group \in {"first", "member"}
      /\ Outcome(w) = "accepted" /\ Seen(w)
  BY PartOf DEF OnOption, ToOption
<1>2. w \in Words /\ (IsDynamic(OptionOf(w)) => group = "first" /\ pass \notin dynamic)
  BY <1>1, OutcomeFacts
<1>3. dynamic' = IF IsDynamic(OptionOf(w)) THEN dynamic \cup {pass} ELSE dynamic
  BY <1>1 DEF Seen, Context
<1>4. \/ /\ group = "member" /\ Push("option", w) /\ Past(place, "separator")
         /\ UNCHANGED <<choice, blocks, pattern, verdict>>
      \/ group = "first" /\ pass = "group" /\ Ended("accepted") /\ UNCHANGED <<blocks, pattern>>
      \/ /\ group = "first" /\ pass = "real"
         /\ pushed' = Append(pushed, Token("option", w)) /\ Past(place, "first")
         /\ blocks' = blocks + 1 /\ UNCHANGED <<choice, pattern, verdict>>
  BY <1>1 DEF OnOption
<1>5. CASE group = "first" /\ pass = "group" /\ Ended("accepted") /\ UNCHANGED <<blocks, pattern>>
  <2>1. SameCounts
    BY <1>3, <1>5 DEF SameCounts
  <2> QED
    BY <1>5, <2>1, EndedStep DEF Ends
<1>6. CASE /\ group = "member" /\ Push("option", w) /\ Past(place, "separator")
           /\ UNCHANGED <<choice, blocks, pattern, verdict>>
  <2>1. /\ at' = at + 1 /\ place' = "options" /\ group' = "separator"
        /\ pass' = pass /\ grammar' = grammar /\ resume' = resume /\ verdict' = "none"
        /\ blocks' = blocks /\ pattern' = pattern /\ dynamic' = dynamic
    BY <1>1, <1>2, <1>3, <1>6 DEF Past, choice, Reading
  <2>2. Parts'
    <3>1. grammar # "none" /\ (pass = "group" => resume # 0)
      BY <1>1 DEF IInv, Parts
    <3> QED
      BY <1>1, <2>1, <3>1 DEF Parts, Header, Listed
  <2>3. CASE pass = "group"
    <3>1. pushed' = pushed /\ Unstarted
      BY <1>6, <2>3 DEF Push, ToState, Unstarted
    <3>2. pattern' \in Nat
      BY <2>1 DEF IInv, StateOK
    <3> QED
      BY <2>1, <2>2, <3>1, <3>2, OnwardKeeps DEF Onward, NoOption, Reading
  <2>4. CASE pass = "real"
    <3>1. pushed' = Append(pushed, Token("option", w)) /\ ~Unstarted /\ ~Unstarted'
      BY <1>1, <1>6, <2>1, <2>4 DEF Push, ToState, Unstarted
    <3> QED
      BY <1>2, <1>6, <2>1, <2>2, <3>1, OptionGoesOn DEF OptionOnward
  <2> QED
    BY <1>1, <2>3, <2>4
<1>7. CASE /\ group = "first" /\ pass = "real"
           /\ pushed' = Append(pushed, Token("option", w)) /\ Past(place, "first")
           /\ blocks' = blocks + 1 /\ UNCHANGED <<choice, pattern, verdict>>
  <2>1. /\ at' = at + 1 /\ place' = "options" /\ group' = "first"
        /\ pass' = pass /\ grammar' = grammar /\ resume' = resume /\ verdict' = "none"
        /\ pattern' = pattern
    BY <1>1, <1>7 DEF Past, choice, Reading
  <2>2. Parts'
    BY <1>1, <1>7, <2>1 DEF IInv, Parts, Header, Listed
  <2>3. ~Unstarted /\ ~Unstarted'
    BY <1>1, <1>7, <2>1 DEF Unstarted
  <2> QED
    BY <1>2, <1>3, <1>7, <2>1, <2>2, <2>3, OptionGoesOn DEF OptionOnward
<1> QED
  BY <1>4, <1>5, <1>6, <1>7

LEMMA OnCommentKeeps ==
  ASSUME IInv, Reading, NEW w \in Words \cup {End}, OnComment(w)
  PROVE  IInv' /\ Advance
<1>1. /\ place = "options" /\ pass \in {"group", "real"} /\ group \in {"first", "member"}
      /\ Outcome(w) = "accepted" /\ w.option = "comment"
  BY PartOf DEF OnComment, ToOption
<1>2. w \in Words
  BY <1>1, OutcomeFacts
<1>3. ~IsDynamic(OptionOf(w))
  BY <1>1 DEF IsDynamic, OptionOf, ByHook
<1>4. CASE pass = "group"
  <2>1. Fails("syntax")
    BY <1>4 DEF OnComment, ToState
  <2> QED
    BY <1>4, <2>1, FailsStep
<1>5. CASE pass = "real"
  <2>1. /\ pushed' = Append(pushed, Token("option", w))
        /\ verdict' \in {"syntax", "accepted"}
        /\ blocks' = IF group = "member" THEN blocks ELSE blocks + 1
        /\ at' = at /\ place' = place /\ group' = group
        /\ pass' = pass /\ grammar' = grammar /\ resume' = resume
        /\ pattern' = pattern /\ dynamic' = dynamic
    BY <1>5 DEF OnComment, ToState, choice
  <2>2. Parts'
    BY <1>5, <2>1 DEF IInv, Parts
  <2>3. ~Unstarted /\ ~Unstarted'
    BY <1>1, <1>5, <2>1 DEF Unstarted
  <2>4. group = "first" => blocks' = blocks + 1
    BY <2>1
  <2>5. verdict' # "none" /\ verdict' # "duplicate dynamic state"
    BY <2>1
  <2> QED
    BY <1>1, <1>2, <1>3, <2>1, <2>2, <2>3, <2>4, <2>5, OptionGoesOn DEF OptionOnward
<1> QED
  BY <1>1, <1>4, <1>5

LEMMA OverKeeps ==
  ASSUME IInv, Reading, NEW w \in Words \cup {End}, Over(w)
  PROVE  IInv' /\ Advance
<1>1. place = "options" /\ Fails("accepted")
  BY DEF Over
<1> QED
  BY <1>1, PartOf, FailsStep

LEMMA ReadKeeps ==
  ASSUME IInv, Read
  PROVE  IInv' /\ Advance
<1>1. PICK w \in Words \cup {End} : Look(w) /\ (Instruction(w) \/ Step(w))
  BY DEF Read
<1>2. Reading
  BY <1>1 DEF Read, Look, Reading, options
<1> QED
  BY <1>1, <1>2, InstructionKeeps, ChooseKeeps, ChooseByMemberKeeps, OpenGroupKeeps, ElementKeeps,
     SeparatorKeeps, KeywordKeeps, NoKeywordKeeps, TrailingKeeps, DestinationPortsKeeps,
     OptionFailsKeeps, OnOptionKeeps, OnCommentKeeps, OverKeeps DEF Step

LEMMA ReadsNextKeeps ==
  ASSUME checker' \in BOOLEAN, hook' \in BOOLEAN, rule' \in Rule, NEW text, ReadsNext(text)
  PROVE  IInv'
<1>1. /\ at' = 1 /\ place' = "rule" /\ group' = "first" /\ pass' = "choice" /\ grammar' = "none"
      /\ resume' = 0 /\ blocks' = 0 /\ pattern' = 0 /\ dynamic' = {} /\ pushed' = <<>>
      /\ verdict' = "none"
  BY DEF ReadsNext, From
<1>2. StateOK'
  <2>1. at' \in Nat \ {0} /\ resume' \in Nat /\ blocks' \in Nat /\ pattern' \in Nat
    BY <1>1
  <2>2. pass' \in Pass /\ group' \in {"first", "member", "separator"} /\ dynamic' \subseteq Pass
    BY <1>1 DEF Pass
  <2>3. pushed' \in Seq(TokenType)
    BY <1>1
  <2> QED
    BY <2>1, <2>2, <2>3 DEF StateOK
<1>3. Parts'
  BY <1>1 DEF Parts, Header, Listed
<1>4. \A i \in DOMAIN pushed' : FALSE
  BY <1>1
<1> QED
  BY <1>1, <1>2, <1>3, <1>4, NoneKeeps DEF NoneStep

LEMMA RefusalIsAnError ==
  ASSUME NEW record, NEW appender
  PROVE  Refusal(record, appender) \in
           {"none", "unexpected body", "missing protocol", "broken or-chain", "dynamic state", "no appender"}
BY DEF Refusal

LEMMA FormatKeeps ==
  ASSUME IInv, NEW appender \in BOOLEAN, Format(appender)
  PROVE  IInv' /\ Advance
<1>1. /\ verdict = "accepted" /\ checker' = checker /\ hook' = hook /\ rule' = rule
      /\ \/ \E text : ReadsNext(text)
         \/ \E error : /\ error # "none" /\ error = Refusal(ParsedRecord, appender) /\ verdict' = error
                       /\ UNCHANGED <<body, at, choice, place, group, counts, pushed>>
  BY DEF Format, options
<1>2. ASSUME NEW text, ReadsNext(text) PROVE IInv' /\ Advance
  <2>1. verdict' # verdict
    BY <1>1, <1>2 DEF ReadsNext
  <2>2. checker' \in BOOLEAN /\ hook' \in BOOLEAN /\ rule' \in Rule
    BY <1>1, Zenon DEF IInv, StateOK
  <2> QED
    BY <1>2, <2>1, <2>2, ReadsNextKeeps DEF Advance
<1>3. ASSUME NEW error, error # "none", error = Refusal(ParsedRecord, appender), verdict' = error,
             UNCHANGED <<body, at, choice, place, group, counts, pushed>>
      PROVE  IInv' /\ Advance
  <2>1. verdict' # verdict /\ verdict' # "duplicate dynamic state"
    BY <1>1, <1>3, RefusalIsAnError
  <2>2. StateOK'
    BY <1>1, <1>3 DEF IInv, StateOK, choice, counts
  <2>3. Parts' /\ Unstarted' = Unstarted
    BY <1>3 DEF IInv, Parts, choice, Unstarted
  <2>4. OtherStep
    BY <1>3, <2>1, <2>2, <2>3 DEF OtherStep, NoOption, counts
  <2> QED
    BY <2>1, <2>4, OtherKeeps DEF Advance
<1> QED
  BY <1>1, <1>2, <1>3

LEMMA NextLineKeeps ==
  ASSUME IInv, NextLine
  PROVE  IInv' /\ Advance
<1>1. verdict' # verdict
  BY DEF NextLine, ReadsNext
<1>2. checker' \in BOOLEAN /\ hook' \in BOOLEAN /\ rule' \in Rule
  BY Zenon DEF NextLine, IInv, StateOK
<1> QED
  BY <1>1, <1>2, ReadsNextKeeps DEF NextLine, Advance

LEMMA StutterKeeps ==
  ASSUME IInv, UNCHANGED vars
  PROVE  IInv'
<1>1. /\ UNCHANGED <<checker, hook, rule, at, pass, grammar, resume, place, group>>
      /\ UNCHANGED <<blocks, pattern, dynamic, pushed, verdict>>
  BY DEF vars, options, choice, counts
<1>2. StateOK'
  BY <1>1 DEF IInv, StateOK
<1>3. Parts' /\ Unstarted' = Unstarted
  BY <1>1 DEF IInv, Parts, Unstarted
<1>4. OtherStep
  BY <1>1, <1>2, <1>3 DEF OtherStep, NoOption
<1> QED
  BY <1>4, OtherKeeps

LEMMA InitInv == Init => IInv
<1> SUFFICES ASSUME Init PROVE IInv
  OBVIOUS
<1>1. /\ at = 1 /\ place = "rule" /\ group = "first" /\ pass = "choice" /\ grammar = "none"
      /\ resume = 0 /\ blocks = 0 /\ pattern = 0 /\ dynamic = {} /\ pushed = <<>> /\ verdict = "none"
  BY DEF Init
<1>2. StateOK
  <2>1. at \in Nat \ {0} /\ resume \in Nat /\ blocks \in Nat /\ pattern \in Nat
    BY <1>1
  <2>2. pass \in Pass /\ group \in {"first", "member", "separator"} /\ dynamic \subseteq Pass
    BY <1>1 DEF Pass
  <2>3. pushed \in Seq(TokenType)
    BY <1>1
  <2> QED
    BY <2>1, <2>2, <2>3, Zenon DEF StateOK, Init
<1>3. Parts
  BY <1>1 DEF Parts, Header, Listed
<1>4. HandedOptions = {} /\ DynamicOptions = {}
  BY <1>1 DEF HandedOptions, DynamicOptions
<1> QED
  BY <1>1, <1>2, <1>3, <1>4 DEF IInv, Counted, OneDynamicState

LEMMA NextInv == IInv /\ [Next]_vars => IInv' /\ (Advance \/ UNCHANGED vars)
<1> SUFFICES ASSUME IInv, [Next]_vars PROVE IInv' /\ (Advance \/ UNCHANGED vars)
  OBVIOUS
<1>1. CASE Read
  BY <1>1, ReadKeeps
<1>2. CASE NextLine
  BY <1>2, NextLineKeeps
<1>3. ASSUME NEW appender \in BOOLEAN, Format(appender) PROVE IInv' /\ Advance
  BY <1>3, FormatKeeps
<1>4. CASE UNCHANGED vars
  BY <1>4, StutterKeeps
<1> QED
  BY <1>1, <1>2, <1>3, <1>4 DEF Next

LEMMA Inductive == Spec => []IInv
<1>1. IInv /\ [Next]_vars => IInv'
  BY NextInv
<1> QED
  BY <1>1, InitInv, PTL DEF Spec

\* The rule parser (parser.go, parseOption with its optionContext) creates state
\* once for a rule and in no group, and rejects a second option that would only
\* after the first, whatever probes read before and however long the body is.
THEOREM RuleHasOneDynamicState == Spec => []OneDynamicState
<1>1. IInv => OneDynamicState
  BY DEF IInv
<1> QED
  BY <1>1, Inductive, PTL

\* parseRuleBody and what it calls read no text without end: a step reads on,
\* goes on to a later part at the same word or to a later pass, or decides.
THEOREM BodyAdvances == Spec => Advances
<1>1. IInv /\ [Next]_vars =>
        [\/ verdict' # verdict
         \/ Passed' > Passed
         \/ Passed' = Passed /\ at' > at
         \/ Passed' = Passed /\ at' = at /\ Parted' > Parted]_vars
  BY NextInv DEF Advance
<1> QED
  BY <1>1, Inductive, PTL DEF Spec, Advances

-----------------------------------------------------------------------------
(* Flattening.                                                             *)

\* The functions FlattenSeq is defined by.
IsFlat(f, seqs, n) == f = [i \in 1..n |-> IF i = 1 THEN seqs[i] ELSE f[i - 1] \o seqs[i]]

\* There is one, of any length: a longest one could go on.
LEMMA FlatExists ==
  ASSUME NEW seqs, NEW n \in Nat
  PROVE  \E f : IsFlat(f, seqs, n)
<1> DEFINE S == {m \in Nat : ~\E f : IsFlat(f, seqs, m)}
<1> SUFFICES ASSUME S # {} PROVE FALSE
  OBVIOUS
<1>1. PICK m \in S : \A k \in S : <<k, m>> \notin OpToRel(<, Nat)
  <2>1. S \subseteq Nat
    OBVIOUS
  <2> HIDE DEF S
  <2> QED
    BY <2>1, NatLessThanWellFounded, WFMin
<1>2. m \in Nat /\ \A k \in S : ~(k < m)
  BY <1>1 DEF OpToRel
<1>3. m # 0
  <2>1. IsFlat([i \in 1..0 |-> 0], seqs, 0)
    BY DEF IsFlat
  <2> QED
    BY <1>1, <2>1
<1>4. PICK k \in Nat : m = k + 1 /\ k < m
  <2>1. m - 1 \in Nat /\ m = (m - 1) + 1 /\ m - 1 < m
    BY <1>2, <1>3
  <2> QED
    BY <2>1
<1>5. PICK f : IsFlat(f, seqs, k)
  BY <1>2, <1>4
<1>6. PICK g : g = [i \in 1..m |-> IF i = 1 THEN seqs[i] ELSE f[i - 1] \o seqs[i]]
  OBVIOUS
<1>7. ASSUME NEW i \in 1..k PROVE g[i] = f[i]
  <2>1. i \in 1..m
    BY <1>4
  <2>2. g[i] = IF i = 1 THEN seqs[i] ELSE f[i - 1] \o seqs[i]
    BY <1>6, <2>1
  <2>3. f[i] = IF i = 1 THEN seqs[i] ELSE f[i - 1] \o seqs[i]
    BY <1>5 DEF IsFlat
  <2> QED
    BY <2>2, <2>3
<1>8. \A i \in 1..m : i # 1 => i - 1 \in 1..k
  BY <1>4
<1>9. g = [i \in 1..m |-> IF i = 1 THEN seqs[i] ELSE g[i - 1] \o seqs[i]]
  BY <1>6, <1>7, <1>8
<1> QED
  BY <1>1, <1>9 DEF IsFlat

LEMMA FlattenIs ==
  ASSUME NEW seqs, NEW n \in Nat, n # 0, Len(seqs) = n
  PROVE  \E f : IsFlat(f, seqs, n) /\ FlattenSeq(seqs) = f[n]
<1>1. \E f : f = [i \in 1..Len(seqs) |-> IF i = 1 THEN seqs[i] ELSE f[i - 1] \o seqs[i]]
  BY FlatExists DEF IsFlat
<1> DEFINE flat == CHOOSE f : f = [i \in 1..Len(seqs) |->
                                     IF i = 1 THEN seqs[i] ELSE f[i - 1] \o seqs[i]]
<1>2. flat = [i \in 1..Len(seqs) |-> IF i = 1 THEN seqs[i] ELSE flat[i - 1] \o seqs[i]]
  BY <1>1
<1>3. FlattenSeq(seqs) = flat[Len(seqs)]
  BY DEF FlattenSeq
<1> HIDE DEF flat
<1>4. IsFlat(flat, seqs, n)
  BY <1>2 DEF IsFlat
<1> QED
  BY <1>3, <1>4

\* What sequences over a set flatten to is one.
LEMMA FlattenTyped ==
  ASSUME NEW S, NEW seqs \in Seq(Seq(S))
  PROVE  FlattenSeq(seqs) \in Seq(S)
<1>1. PICK n \in Nat : n = Len(seqs)
  BY LenProperties
<1>2. \A i \in 1..n : seqs[i] \in Seq(S)
  BY <1>1, ElementOfSeq
<1>3. CASE n = 0
  <2>1. seqs = <<>>
    BY <1>1, <1>3, EmptySeq
  <2>2. FlattenSeq(seqs) = <<>>
    BY <1>1, <1>3, <2>1 DEF FlattenSeq
  <2> QED
    BY <2>2
<1>4. CASE n # 0
  <2>1. PICK f : IsFlat(f, seqs, n) /\ FlattenSeq(seqs) = f[n]
    BY <1>1, <1>4, FlattenIs
  <2> DEFINE Wrong == {i \in 1..n : f[i] \notin Seq(S)}
  <2>2. Wrong = {}
    <3> SUFFICES ASSUME Wrong # {} PROVE FALSE
      OBVIOUS
    <3>1. PICK i \in Wrong : \A k \in Wrong : <<k, i>> \notin OpToRel(<, Nat)
      <4>1. Wrong \subseteq Nat
        OBVIOUS
      <4> HIDE DEF Wrong
      <4> QED
        BY <4>1, NatLessThanWellFounded, WFMin
    <3>2. i \in 1..n /\ f[i] \notin Seq(S)
      OBVIOUS
    <3>3. \A k \in Wrong : ~(k < i)
      <4>1. Wrong \subseteq Nat /\ i \in Nat
        OBVIOUS
      <4> HIDE DEF Wrong
      <4> QED
        BY <3>1, <4>1 DEF OpToRel
    <3>4. f[i] = IF i = 1 THEN seqs[i] ELSE f[i - 1] \o seqs[i]
      BY <2>1, <3>2 DEF IsFlat
    <3>5. i # 1
      BY <1>2, <3>2, <3>4
    <3>6. i - 1 \in 1..n /\ i - 1 < i
      BY <3>2, <3>5
    <3>7. f[i - 1] \in Seq(S)
      BY <3>3, <3>6
    <3> QED
      BY <1>2, <3>2, <3>4, <3>5, <3>7, ConcatProperties
  <2>3. n \in 1..n
    BY <1>4
  <2> QED
    BY <2>1, <2>2, <2>3
<1> QED
  BY <1>3, <1>4

-----------------------------------------------------------------------------
(* The canonical text is one of words.                                     *)

\* The words that are no comment, or may be a target as well.
PlainWords == {w \in Words : w.option # "comment" \/ w.target}
PlainNames == {name \in DOMAIN Dictionary : ByName(name).option # "comment" \/ ByName(name).target}

SourcePorts == {name \in DOMAIN Dictionary :
                  \E w \in Words : w.port # "none" /\ w.text # "to" /\ name = w.single}
DestinationPortNames == {name \in DOMAIN Dictionary :
                           \E w \in Words : w.port # "none" /\ OptionOf(w) = "unknown" /\ name = w.single}
Target == [name : PlainNames, pattern : Nat]
Option == {option \in [kind : Kind, name : DOMAIN Dictionary, block : Nat, pattern : Nat] :
             IF option.kind = "comment"
             THEN \E w \in Words : option.name = w.same /\ w.option \in {"comment", "custom comment"}
             ELSE option.name \in PlainNames}

\* A record of tokens the parser hands over.
RecordOK(record) ==
  /\ record.versions \in Seq(PlainNames) /\ record.protos \in Seq(PlainNames)
  /\ record.sources \in Seq(Target) /\ record.destinations \in Seq(Target)
  /\ record.sourcePorts \in Seq(SourcePorts)
  /\ record.destinationPorts \in Seq(DestinationPortNames)
  /\ record.options \in Seq(Option)

LEMMA ByNameFacts ==
  ASSUME NEW name \in DOMAIN Dictionary
  PROVE  ByName(name) = Dictionary[name] /\ ByName(name) \in Words /\ ByName(name).name = name
<1>1. name # "end"
  BY WordsAssumption
<1>2. Dictionary[name].name = name
  BY WordsAssumption
<1> QED
  BY <1>1, <1>2 DEF ByName, Words

LEMMA PlainFacts ==
  ASSUME NEW name \in PlainNames
  PROVE  ByName(name) \in PlainWords
BY ByNameFacts DEF PlainNames, PlainWords

LEMMA SymbolFacts ==
  ASSUME NEW text \in {"from", "to", "{", "or", "}"}
  PROVE  Symbol(text) \in PlainWords
<1>1. Symbol(text) \in Words /\ Symbol(text).text = text
  <2>1. \E w \in Words : w.text = text
    BY SpellingsAssumption
  <2> QED
    BY <2>1 DEF Symbol
<1>2. Symbol(text).option = "unknown"
  BY <1>1, WordsAssumption
<1> QED
  BY <1>1, <1>2 DEF PlainWords

LEMMA BracedTyped ==
  ASSUME NEW words \in Seq(PlainWords)
  PROVE  Braced(words) \in Seq(PlainWords)
<1>1. PICK open \in PlainWords, close \in PlainWords : open = Symbol("{") /\ close = Symbol("}")
  BY SymbolFacts
<1>2. <<open>> \in Seq(PlainWords) /\ <<close>> \in Seq(PlainWords)
  OBVIOUS
<1>3. Braced(words) = <<open>> \o words \o <<close>>
  BY <1>1 DEF Braced
<1> QED
  BY <1>2, <1>3, ConcatProperties

LEMMA AlternativesTyped ==
  ASSUME NEW words \in Seq(PlainWords), words # <<>>
  PROVE  Alternatives(words) \in Seq(PlainWords)
<1>1. PICK n \in Nat : n = Len(words) /\ n # 0
  BY LenProperties, EmptySeq
<1>2. PICK m \in Nat : m = 2 * n - 1
  <2>1. \A k \in Nat : k # 0 => 2 * k - 1 \in Nat
    OBVIOUS
  <2> QED
    BY <1>1, <2>1
<1>3. \A i \in 1..m : i % 2 = 1 => (i + 1) \div 2 \in 1..n
  BY <1>1, <1>2
<1>4. \A i \in 1..n : words[i] \in PlainWords
  BY <1>1, ElementOfSeq
<1>5. Symbol("or") \in PlainWords
  BY SymbolFacts
<1>6. Alternatives(words) = [i \in 1..m |-> IF i % 2 = 1 THEN words[(i + 1) \div 2] ELSE Symbol("or")]
  BY <1>1, <1>2 DEF Alternatives
<1>7. \A i \in 1..m : (IF i % 2 = 1 THEN words[(i + 1) \div 2] ELSE Symbol("or")) \in PlainWords
  BY <1>3, <1>4, <1>5
<1>8. Alternatives(words) \in [1..m -> PlainWords]
  BY <1>6, <1>7
<1> QED
  BY <1>8, SeqDef

\* The words by these names.
LEMMA NamedTyped ==
  ASSUME NEW names \in Seq(PlainNames)
  PROVE  [i \in DOMAIN names |-> ByName(names[i])] \in Seq(PlainWords)
<1>1. PICK n \in Nat : n = Len(names) /\ DOMAIN names = 1..n
  BY LenProperties
<1>2. \A i \in 1..n : ByName(names[i]) \in PlainWords
  BY <1>1, ElementOfSeq, PlainFacts
<1>3. [i \in DOMAIN names |-> ByName(names[i])] \in [1..n -> PlainWords]
  BY <1>1, <1>2
<1> QED
  BY <1>3, SeqDef

LEMMA ProtocolsTextTyped ==
  ASSUME NEW record, RecordOK(record)
  PROVE  ProtocolsText(record) \in Seq(PlainWords)
<1> DEFINE all == record.versions \o record.protos
           words == [i \in DOMAIN all |-> ByName(all[i])]
<1>1. all \in Seq(PlainNames)
  BY ConcatProperties DEF RecordOK
<1>2. words \in Seq(PlainWords) /\ (all # <<>> => words # <<>>)
  <2> HIDE DEF all
  <2>1. words \in Seq(PlainWords)
    BY <1>1, NamedTyped
  <2>2. DOMAIN words = DOMAIN all
    OBVIOUS
  <2>3. words = <<>> => Len(all) = 0
    BY <1>1, <2>2, LenProperties
  <2> QED
    BY <1>1, <2>1, <2>3, EmptySeq
<1>3. Len(all) > 1 \/ IsHeaderProto(record) => all # <<>>
  <2>1. Len(all) > 1 => all # <<>>
    <3>1. Len(<<>>) = 0
      BY EmptySeq
    <3> HIDE DEF all
    <3> QED
      BY <3>1
  <2>2. IsHeaderProto(record) => all # <<>>
    <3> SUFFICES ASSUME IsHeaderProto(record) PROVE Len(all) # 0
      BY <1>1
    <3>1. Len(record.protos) = 1 /\ record.versions = <<>>
      BY DEF IsHeaderProto
    <3>2. all = record.protos
      BY <3>1, ConcatEmptySeq DEF RecordOK
    <3> QED
      BY <3>1, <3>2
  <2> QED
    BY <2>1, <2>2
<1>4. ProtocolsText(record) =
        IF Len(all) > 1 \/ IsHeaderProto(record) THEN Braced(Alternatives(words)) ELSE words
  BY DEF ProtocolsText
<1> HIDE DEF all, words
<1> QED
  BY <1>2, <1>3, <1>4, AlternativesTyped, BracedTyped

LEMMA TargetsTextTyped ==
  ASSUME NEW targets \in Seq(Target)
  PROVE  TargetsText(targets) \in Seq(PlainWords)
<1> DEFINE words == [i \in DOMAIN targets |-> ByName(targets[i].name)]
<1>1. PICK n \in Nat : n = Len(targets) /\ DOMAIN targets = 1..n
  BY LenProperties
<1>2. \A i \in 1..n : ByName(targets[i].name) \in PlainWords
  <2>1. \A i \in 1..n : targets[i] \in Target
    BY <1>1, ElementOfSeq
  <2>2. \A i \in 1..n : targets[i].name \in PlainNames
    BY <2>1 DEF Target
  <2> QED
    BY <2>2, PlainFacts
<1>3. words \in [1..n -> PlainWords]
  BY <1>1, <1>2
<1>4. words \in Seq(PlainWords)
  <2> HIDE DEF words
  <2> QED
    BY <1>3, SeqDef
<1>5. n # 0 => words # <<>>
  <2> HIDE DEF words
  <2>1. DOMAIN words = 1..n
    BY <1>3
  <2>2. n # 0 => 1 \in 1..n
    OBVIOUS
  <2> QED
    BY <2>1, <2>2
<1>6. TargetsText(targets) = IF Len(targets) > 1 THEN Braced(Alternatives(words)) ELSE words
  BY DEF TargetsText
<1>7. Len(targets) > 1 => n # 0
  BY <1>1
<1> HIDE DEF words
<1> QED
  BY <1>4, <1>5, <1>6, <1>7, AlternativesTyped, BracedTyped

\* A port that reads as something else has a range that does not.
LEMMA RangeExists ==
  ASSUME NEW name, NEW side, NeedsRange(name, side),
         \/ side = "source" /\ name \in SourcePorts
         \/ side = "destination" /\ name \in DestinationPortNames
  PROVE  \E w \in Words : w.name # name /\ w.single = name
<1>1. name \in DOMAIN Dictionary
  BY DEF SourcePorts, DestinationPortNames
<1>2. PICK w \in Words : /\ w.port # "none" /\ name = w.single
                         /\ side = "source" => w.text # "to"
                         /\ side = "destination" => OptionOf(w) = "unknown"
  BY DEF SourcePorts, DestinationPortNames
<1>3. CASE w.name # name
  BY <1>2, <1>3
<1>4. CASE w.name = name
  <2>1. w = ByName(name)
    <3>1. PICK other \in DOMAIN Dictionary : w = Dictionary[other]
      BY DEF Words
    <3>2. other = name
      BY <1>4, <3>1, WordsAssumption
    <3> QED
      BY <1>1, <3>1, <3>2, ByNameFacts
  <2>2. w.text = "to"
    <3>1. w.text = "to" \/ (side = "destination" /\ w.option \in {"plain", "keep-state", "malformed"})
      BY <2>1 DEF NeedsRange
    <3>2. w.option \in {"plain", "keep-state", "malformed"} => OptionOf(w) # "unknown"
      BY DEF OptionOf, ByHook
    <3> QED
      BY <1>2, <3>1, <3>2
  <2> QED
    BY <1>2, <2>2, SpellingsAssumption
<1> QED
  BY <1>3, <1>4

LEMMA PortsArePlain ==
  ASSUME NEW name \in SourcePorts \cup DestinationPortNames
  PROVE  name \in PlainNames
<1>1. PICK w \in Words : w.port # "none" /\ name = w.single
  BY DEF SourcePorts, DestinationPortNames
<1>2. name \in DOMAIN Dictionary /\ ByName(name).port # "none"
  BY <1>1, WordsAssumption
<1>3. ByName(name).option # "comment"
  BY <1>2, ByNameFacts, WordsAssumption
<1> QED
  BY <1>2, <1>3 DEF PlainNames

LEMMA PortsTextTyped ==
  ASSUME NEW ports, NEW side,
         \/ side = "source" /\ ports \in Seq(SourcePorts)
         \/ side = "destination" /\ ports \in Seq(DestinationPortNames)
  PROVE  PortsText(ports, side) \in Seq(PlainWords)
<1> DEFINE Text(i) == IF NeedsRange(ports[i], side)
                      THEN CHOOSE w \in Words : w.name # ports[i] /\ w.single = ports[i]
                      ELSE ByName(ports[i])
<1>1. PICK n \in Nat : n = Len(ports) /\ DOMAIN ports = 1..n
  BY LenProperties
<1>2. ASSUME NEW i \in 1..n PROVE Text(i) \in PlainWords
  <2>1. \/ side = "source" /\ ports[i] \in SourcePorts
        \/ side = "destination" /\ ports[i] \in DestinationPortNames
    BY <1>1, ElementOfSeq
  <2>2. CASE NeedsRange(ports[i], side)
    <3>1. \E w \in Words : w.name # ports[i] /\ w.single = ports[i]
      BY <2>1, <2>2, RangeExists
    <3>2. PICK w \in Words : w = Text(i) /\ w.name # w.single
      BY <2>2, <3>1
    <3>3. w.option # "comment"
      BY <3>2, WordsAssumption
    <3> QED
      BY <3>2, <3>3 DEF PlainWords
  <2>3. CASE ~NeedsRange(ports[i], side)
    BY <2>1, <2>3, PortsArePlain, PlainFacts
  <2> QED
    BY <2>2, <2>3
<1>3. PortsText(ports, side) = [i \in 1..n |-> Text(i)]
  BY <1>1 DEF PortsText
<1> HIDE DEF Text
<1>4. PortsText(ports, side) \in [1..n -> PlainWords]
  BY <1>2, <1>3
<1> QED
  BY <1>4, SeqDef

LEMMA ProperTyped ==
  ASSUME NEW opts \in Seq(Option)
  PROVE  /\ Proper(opts) \in Seq(Option)
         /\ Proper(opts) # opts => Len(opts) \in 1..Len(opts)
<1>1. PICK n \in Nat : n = Len(opts)
  BY LenProperties
<1>2. Proper(opts) = opts \/ (n > 0 /\ Proper(opts) = SubSeq(opts, 1, n - 1))
  BY <1>1 DEF Proper
<1>3. CASE Proper(opts) = opts
  BY <1>3
<1>4. CASE n > 0 /\ Proper(opts) = SubSeq(opts, 1, n - 1)
  <2>1. 1 \in Int /\ n - 1 \in Int /\ \A i \in 1..(n - 1) : i \in 1..n
    OBVIOUS
  <2>2. \A i \in 1..(n - 1) : opts[i] \in Option
    BY <1>1, <2>1, ElementOfSeq
  <2>3. SubSeq(opts, 1, n - 1) \in Seq(Option)
    BY <2>1, <2>2, SubSeqProperties
  <2>4. n \in 1..n
    BY <1>4
  <2> QED
    BY <1>1, <1>4, <2>3, <2>4
<1> QED
  BY <1>2, <1>3, <1>4

LEMMA OptionTextTyped ==
  ASSUME NEW option \in Option
  PROVE  OptionText(option) \in PlainWords
<1>1. CASE option.kind = "comment"
  <2>1. PICK w \in Words : option.name = w.same /\ w.option \in {"comment", "custom comment"}
    BY <1>1 DEF Option
  <2>2. \E v \in Words : v.same = option.name /\ v.option = "custom comment"
    <3>1. \E v \in Words : v.same = w.same /\ v.option = "custom comment"
      BY <2>1, SpellingsAssumption, Zenon
    <3> QED
      BY <2>1, <3>1
  <2>3. OptionText(option) \in Words /\ OptionText(option).option = "custom comment"
    BY <1>1, <2>2 DEF OptionText
  <2> QED
    BY <2>3 DEF PlainWords
<1>2. CASE option.kind # "comment"
  <2>1. option.name \in PlainNames
    BY <1>2 DEF Option
  <2> QED
    BY <1>2, <2>1, PlainFacts DEF OptionText
<1> QED
  BY <1>1, <1>2

\* Only the last word may be a comment.
Closing(last) == last = <<>> \/ \E w \in Words : last = <<w>>

LEMMA ClosingTyped ==
  ASSUME NEW last, Closing(last)
  PROVE  last \in Seq(Words) /\ (Len(last) = 0 \/ Len(last) = 1)
<1>1. \A w \in Words : <<w>> \in Seq(Words) /\ Len(<<w>>) = 1
  OBVIOUS
<1>2. <<>> \in Seq(Words) /\ Len(<<>>) = 0
  OBVIOUS
<1> QED
  BY <1>1, <1>2 DEF Closing

LEMMA OptionsTextTyped ==
  ASSUME NEW opts \in Seq(Option), NEW native
  PROVE  \E s \in Seq(PlainWords) : \E last : Closing(last) /\ OptionsText(opts, native) = s \o last
<1> DEFINE proper == Proper(opts)
           Text(i) ==
             CASE Protected(proper, i, native) -> Braced(<<OptionText(proper[i])>>)
               [] proper[i].pattern > 0 -> <<Symbol("or"), OptionText(proper[i])>>
               [] proper[i].pattern = 0 /\ InGroup(proper, i) -> <<Symbol("{"), OptionText(proper[i])>>
               [] OTHER -> <<OptionText(proper[i])>>
           Close(i) == IF InGroup(proper, i) /\ ~SameBlock(proper, i) THEN <<Symbol("}")>> ELSE <<>>
           texts == [i \in DOMAIN proper |-> Text(i) \o Close(i)]
           last == IF proper = opts THEN <<>> ELSE <<ByName(opts[Len(opts)].name)>>
<1>1. PICK open \in PlainWords, or \in PlainWords, close \in PlainWords :
        open = Symbol("{") /\ or = Symbol("or") /\ close = Symbol("}")
  BY SymbolFacts
<1>2. proper \in Seq(Option)
  BY ProperTyped
<1>3. PICK n \in Nat : n = Len(proper) /\ DOMAIN proper = 1..n
  <2> HIDE DEF proper
  <2> QED
    BY <1>2, LenProperties
<1>4. ASSUME NEW i \in 1..n PROVE Text(i) \o Close(i) \in Seq(PlainWords)
  <2>1. PICK w \in PlainWords : w = OptionText(proper[i])
    <3> HIDE DEF proper
    <3>1. proper[i] \in Option
      BY <1>2, <1>3, ElementOfSeq
    <3> QED
      BY <3>1, OptionTextTyped
  <2>2. <<w>> \in Seq(PlainWords) /\ <<or, w>> \in Seq(PlainWords) /\ <<open, w>> \in Seq(PlainWords)
        /\ <<close>> \in Seq(PlainWords) /\ <<>> \in Seq(PlainWords)
    OBVIOUS
  <2>3. Braced(<<w>>) \in Seq(PlainWords)
    BY <2>2, BracedTyped
  <2>4. Text(i) \in Seq(PlainWords)
    <3> HIDE DEF proper
    <3>1. Text(i) \in {Braced(<<w>>), <<or, w>>, <<open, w>>, <<w>>}
      BY <1>1, <2>1
    <3> QED
      BY <2>2, <2>3, <3>1
  <2>5. Close(i) \in Seq(PlainWords)
    <3> HIDE DEF proper
    <3>1. Close(i) \in {<<close>>, <<>>}
      BY <1>1
    <3> QED
      BY <2>2, <3>1
  <2> HIDE DEF Text, Close
  <2> QED
    BY <2>4, <2>5, ConcatProperties
<1>5. texts \in Seq(Seq(PlainWords))
  <2>1. texts = [i \in 1..n |-> Text(i) \o Close(i)]
    BY <1>3
  <2> HIDE DEF Text, Close, texts
  <2>2. texts \in [1..n -> Seq(PlainWords)]
    BY <1>4, <2>1
  <2> QED
    BY <2>2, SeqDef
<1>6. Closing(last)
  <2>1. CASE proper = opts
    BY <2>1 DEF Closing
  <2>2. CASE proper # opts
    <3>1. Len(opts) \in 1..Len(opts)
      BY <2>2, ProperTyped
    <3>2. opts[Len(opts)] \in Option
      BY <3>1, ElementOfSeq
    <3>3. PICK name \in DOMAIN Dictionary : name = opts[Len(opts)].name
      BY <3>2 DEF Option
    <3>4. PICK w \in Words : w = ByName(name)
      BY ByNameFacts
    <3>5. last = <<w>>
      BY <2>2, <3>3, <3>4
    <3> QED
      BY <3>5 DEF Closing
  <2> QED
    BY <2>1, <2>2
<1>7. OptionsText(opts, native) = FlattenSeq(texts) \o last
  BY DEF OptionsText
<1> HIDE DEF proper, Text, Close, texts, last
<1> QED
  BY <1>5, <1>6, <1>7, FlattenTyped

LEMMA Reassociate ==
  ASSUME NEW h \in Seq(Words), NEW g \in Seq(Words), NEW last \in Seq(Words)
  PROVE  h \o (g \o last) = (h \o g) \o last
BY ConcatAssociative, SMTT(60)

LEMMA InstructionTextTyped ==
  ASSUME NEW record, RecordOK(record)
  PROVE  \E s \in Seq(PlainWords) : \E last : Closing(last) /\ InstructionText(record) = s \o last
<1>1. PICK from \in PlainWords, to \in PlainWords : from = Symbol("from") /\ to = Symbol("to")
  BY SymbolFacts
<1>2. PICK a, b, c, d, e \in Seq(PlainWords) :
        /\ a = ProtocolsText(record)
        /\ b = TargetsText(record.sources) /\ c = PortsText(record.sourcePorts, "source")
        /\ d = TargetsText(record.destinations)
        /\ e = PortsText(record.destinationPorts, "destination")
  <2>1. ProtocolsText(record) \in Seq(PlainWords)
    BY ProtocolsTextTyped
  <2>2. TargetsText(record.sources) \in Seq(PlainWords) /\ TargetsText(record.destinations) \in Seq(PlainWords)
    BY TargetsTextTyped DEF RecordOK
  <2>3. PortsText(record.sourcePorts, "source") \in Seq(PlainWords)
        /\ PortsText(record.destinationPorts, "destination") \in Seq(PlainWords)
    BY PortsTextTyped DEF RecordOK
  <2> QED
    BY <2>1, <2>2, <2>3
<1>3. PICK f \in Seq(PlainWords) :
        \E last : Closing(last) /\ OptionsText(record.options, record.kind = "native") = f \o last
  BY OptionsTextTyped DEF RecordOK
<1>4. PICK flast : Closing(flast) /\ OptionsText(record.options, record.kind = "native") = f \o flast
  BY <1>3
<1>5. PICK g \in Seq(PlainWords) :
        \E last : Closing(last) /\ OptionsText(record.options, FALSE) = g \o last
  BY OptionsTextTyped DEF RecordOK
<1>6. PICK glast : Closing(glast) /\ OptionsText(record.options, FALSE) = g \o glast
  BY <1>5
<1>7. \/ InstructionText(record) = f \o flast
      \/ InstructionText(record) = a \o <<from>> \o b \o c \o <<to>> \o d \o e \o (g \o glast)
  BY <1>1, <1>2, <1>4, <1>6 DEF InstructionText
<1>8. PICK h \in Seq(PlainWords) : h = a \o <<from>> \o b \o c \o <<to>> \o d \o e
  <2>1. <<from>> \in Seq(PlainWords) /\ <<to>> \in Seq(PlainWords)
    OBVIOUS
  <2> QED
    BY <2>1, ConcatProperties
<1>9. h \o g \in Seq(PlainWords)
  BY ConcatProperties
<1>10. h \o (g \o glast) = (h \o g) \o glast
  <2>1. h \in Seq(Words) /\ g \in Seq(Words)
    BY DEF PlainWords
  <2>2. glast \in Seq(Words)
    BY <1>6, ClosingTyped
  <2> QED
    BY <2>1, <2>2, Reassociate
<1> QED
  BY <1>4, <1>6, <1>7, <1>8, <1>9, <1>10

\* The text of a record, as the parser gets it: only the last word may be a comment.
Texts == Seq(DOMAIN Dictionary \cup {"end"})
Ending(text) ==
  \A i \in 1..Len(text) :
    text[i] \in PlainNames \/ i = Len(text) \/ (i + 1 = Len(text) /\ text[i + 1] = "end")

LEMMA PlainIs ==
  ASSUME NEW w \in PlainWords
  PROVE  w.name \in PlainNames /\ w = ByName(w.name)
<1>1. PICK name \in DOMAIN Dictionary : w = Dictionary[name]
  BY DEF PlainWords, Words
<1>2. ByName(name) = w /\ w.name = name
  BY <1>1, ByNameFacts
<1> QED
  BY <1>2 DEF PlainWords, PlainNames

\* A sequence with or without a last word.
LEMMA WithLast ==
  ASSUME NEW s \in Seq(PlainWords), NEW last, Closing(last)
  PROVE  \E words \in Seq(Words), n \in Nat :
           /\ words = s \o last /\ n = Len(words) /\ DOMAIN words = 1..n
           /\ \A i \in 1..n : words[i] \in PlainWords \/ i = n
<1>1. PICK m \in Nat : m = Len(s)
  BY LenProperties
<1>2. \A i \in 1..m : s[i] \in PlainWords
  BY <1>1, ElementOfSeq
<1>3. s \in Seq(Words)
  BY DEF PlainWords
<1>4. last \in Seq(Words) /\ (Len(last) = 0 \/ Len(last) = 1)
  BY ClosingTyped
<1>5. PICK words \in Seq(Words) : words = s \o last
  BY <1>3, <1>4, ConcatProperties
<1>6. /\ Len(words) = m + Len(last)
      /\ \A i \in 1..(m + Len(last)) : words[i] = IF i <= m THEN s[i] ELSE last[i - m]
  BY <1>1, <1>3, <1>4, <1>5, ConcatProperties
<1>7. PICK n \in Nat : n = Len(words) /\ DOMAIN words = 1..n
  BY LenProperties
<1>8. (n = m \/ n = m + 1) /\ \A i \in 1..n : i <= m => words[i] = s[i]
  <2>1. PICK k \in {0, 1} : k = Len(last)
    BY <1>4
  <2>2. n = m + k
    BY <1>6, <1>7, <2>1
  <2>3. n = m \/ n = m + 1
    <3>1. \A a \in Nat : a + 0 = a
      OBVIOUS
    <3>2. k = 0 \/ k = 1
      BY <2>1
    <3> QED
      BY <2>2, <3>1, <3>2
  <2>4. \A i \in 1..n : i <= m => words[i] = s[i]
    BY <1>6, <2>1, <2>2
  <2> QED
    BY <2>3, <2>4
<1>9. \A i \in 1..n : words[i] \in PlainWords \/ i = n
  <2> SUFFICES ASSUME NEW i \in 1..n, i # n PROVE i \in 1..m /\ i <= m
    BY <1>2, <1>8
  <2> QED
    BY <1>8
<1> QED
  BY <1>5, <1>7, <1>9

EndsIn(text, plain, end) ==
  \A i \in 1..Len(text) : text[i] \in plain \/ i = Len(text) \/ (i + 1 = Len(text) /\ text[i + 1] = end)

LEMMA AppendEnds ==
  ASSUME NEW S, NEW names \in Seq(S), NEW end \in S, NEW text, NEW n \in Nat, NEW plain,
         Len(names) = n, text = Append(names, end), \A i \in 1..n : names[i] \in plain \/ i = n
  PROVE  text \in Seq(S) /\ EndsIn(text, plain, end)
<1>1. text \in Seq(S) /\ Len(text) = n + 1 /\ text[n + 1] = end /\ \A i \in 1..n : text[i] = names[i]
  BY AppendProperties
<1>2. \A i \in 1..(n + 1) : i = n + 1 \/ (i \in 1..n /\ (i = n => i + 1 = n + 1))
  OBVIOUS
<1> QED
  BY <1>1, <1>2 DEF EndsIn

LEMMA TextTyped ==
  ASSUME NEW record, RecordOK(record)
  PROVE  /\ Append(Names(InstructionText(record)), "end") \in Texts
         /\ Ending(Append(Names(InstructionText(record)), "end"))
<1>1. PICK words \in Seq(Words), n \in Nat :
        /\ words = InstructionText(record) /\ n = Len(words) /\ DOMAIN words = 1..n
        /\ \A i \in 1..n : words[i] \in PlainWords \/ i = n
  <2>1. PICK s \in Seq(PlainWords) : \E last : Closing(last) /\ InstructionText(record) = s \o last
    BY InstructionTextTyped
  <2>2. PICK last : Closing(last) /\ InstructionText(record) = s \o last
    BY <2>1
  <2> QED
    BY <2>2, WithLast
<1>2. PICK names : names = [i \in 1..n |-> words[i].name]
  OBVIOUS
<1>3. names = Names(words)
  BY <1>1, <1>2 DEF Names
<1>4. \A i \in 1..n : /\ names[i] \in DOMAIN Dictionary
                      /\ names[i] \in PlainNames \/ i = n
  <2> SUFFICES ASSUME NEW i \in 1..n
               PROVE  names[i] \in DOMAIN Dictionary /\ (names[i] \in PlainNames \/ i = n)
    OBVIOUS
  <2>1. PICK w \in Words : w = words[i] /\ w.name = names[i]
    BY <1>1, <1>2, ElementOfSeq
  <2>2. w.name \in DOMAIN Dictionary
    BY WordFacts
  <2>3. w \in PlainWords => w.name \in PlainNames
    BY PlainIs
  <2> QED
    BY <1>1, <2>1, <2>2, <2>3
<1>5. PICK all : all = DOMAIN Dictionary \cup {"end"}
  OBVIOUS
<1>6. names \in Seq(all)
  <2>1. names \in [1..n -> all]
    BY <1>2, <1>4, <1>5
  <2> QED
    BY <2>1, SeqDef
<1>7. PICK end, text : end = "end" /\ end \in all /\ text = Append(names, end)
  BY <1>5
<1>8. text \in Seq(all) /\ EndsIn(text, PlainNames, end)
  <2>1. \A i \in 1..n : names[i] \in PlainNames \/ i = n
    BY <1>4
  <2>2. Len(names) = n
    BY <1>2
  <2> QED
    BY <1>6, <1>7, <2>1, <2>2, AppendEnds
<1> QED
  BY <1>1, <1>3, <1>5, <1>7, <1>8 DEF Texts, Ending, EndsIn

-----------------------------------------------------------------------------
(* The record of what was handed over.                                     *)

\* The words a token is made of.
Made(token) ==
  /\ token.on \in {"protocol", "source", "destination"} => token.name \in PlainNames
  /\ token.on = "source ports" => token.name \in SourcePorts
  /\ token.on = "destination ports" => token.name \in DestinationPortNames
  /\ token.on = "option" =>
       token.kind # "unknown" /\ \E w \in Words : token.name = w.same /\ token.kind = OptionOf(w)

AllMade == \A i \in DOMAIN pushed : Made(pushed[i])

MadeToken == {token \in TokenType : Made(token)}

\* Those of one callback.
LEMMA TokensTyped ==
  ASSUME pushed \in Seq(TokenType), AllMade, NEW on
  PROVE  Tokens(on) \in Seq({token \in MadeToken : token.on = on})
<1> DEFINE S == {token \in MadeToken : token.on = on}
           seqs == [i \in DOMAIN pushed |-> IF pushed[i].on = on THEN <<pushed[i]>> ELSE <<>>]
<1>1. PICK n \in Nat : n = Len(pushed) /\ DOMAIN pushed = 1..n
  BY LenProperties
<1>2. ASSUME NEW i \in 1..n PROVE seqs[i] \in Seq(S)
  <2>1. pushed[i] \in TokenType
    BY <1>1, ElementOfSeq
  <2>2. pushed[i] \in MadeToken
    BY <1>1, <2>1 DEF AllMade, MadeToken
  <2>3. pushed[i].on = on => pushed[i] \in S
    BY <2>2
  <2>4. seqs[i] = IF pushed[i].on = on THEN <<pushed[i]>> ELSE <<>>
    BY <1>1
  <2> HIDE DEF S, seqs
  <2> QED
    BY <2>3, <2>4
<1>3. DOMAIN seqs = 1..n /\ seqs = [i \in 1..n |-> seqs[i]]
  BY <1>1
<1>4. seqs \in Seq(Seq(S))
  <2> HIDE DEF S, seqs
  <2>1. seqs \in [1..n -> Seq(S)]
    BY <1>2, <1>3
  <2> QED
    BY <2>1, SeqDef
<1>5. Tokens(on) = FlattenSeq(seqs)
  BY DEF Tokens
<1> HIDE DEF S, seqs
<1>6. Tokens(on) \in Seq(S)
  BY <1>4, <1>5, FlattenTyped
<1> QED
  BY <1>6 DEF S

LEMMA NamesTyped ==
  ASSUME NEW S, NEW N, NEW tokens \in Seq(S), \A token \in S : token.name \in N
  PROVE  Names(tokens) \in Seq(N)
<1>1. PICK n \in Nat : n = Len(tokens) /\ DOMAIN tokens = 1..n
  BY LenProperties
<1>2. \A i \in 1..n : tokens[i].name \in N
  BY <1>1, ElementOfSeq
<1>3. Names(tokens) \in [1..n -> N]
  BY <1>1, <1>2 DEF Names
<1> QED
  BY <1>3, SeqDef

LEMMA ProtocolsTyped ==
  ASSUME pushed \in Seq(TokenType), AllMade, NEW version
  PROVE  Protocols(version) \in Seq(PlainNames)
<1> DEFINE tokens == Tokens("protocol")
           S == {token \in MadeToken : token.on = "protocol"}
           seqs == [i \in DOMAIN tokens |->
                      IF ByName(tokens[i].name).version = version THEN <<tokens[i]>> ELSE <<>>]
<1>1. tokens \in Seq(S)
  BY TokensTyped
<1>2. \A token \in S : token.name \in PlainNames
  BY DEF MadeToken, Made
<1>3. Protocols(version) = Names(FlattenSeq(seqs))
  BY DEF Protocols
<1> HIDE DEF S, tokens
<1>4. PICK n \in Nat : n = Len(tokens) /\ DOMAIN tokens = 1..n
  BY <1>1, LenProperties
<1>5. ASSUME NEW i \in 1..n PROVE seqs[i] \in Seq(S)
  <2>1. PICK token \in S : token = tokens[i]
    BY <1>1, <1>4, ElementOfSeq
  <2>2. seqs[i] = <<token>> \/ seqs[i] = <<>>
    BY <1>4, <2>1
  <2>3. <<token>> \in Seq(S) /\ <<>> \in Seq(S)
    OBVIOUS
  <2> HIDE DEF seqs
  <2> QED
    BY <2>2, <2>3
<1>6. DOMAIN seqs = 1..n /\ seqs = [i \in 1..n |-> seqs[i]]
  BY <1>4
<1>7. seqs \in Seq(Seq(S))
  <2> HIDE DEF seqs
  <2>1. seqs \in [1..n -> Seq(S)]
    BY <1>5, <1>6
  <2> QED
    BY <2>1, SeqDef
<1> HIDE DEF seqs
<1>8. FlattenSeq(seqs) \in Seq(S)
  BY <1>7, FlattenTyped
<1> QED
  BY <1>2, <1>3, <1>8, NamesTyped

LEMMA TargetsTyped ==
  ASSUME pushed \in Seq(TokenType), AllMade, NEW on \in {"source", "destination"}
  PROVE  Targets(on) \in Seq(Target)
<1> DEFINE S == {token \in MadeToken : token.on = on}
<1>1. PICK tokens \in Seq(S) : tokens = Tokens(on)
  BY TokensTyped
<1>2. \A token \in S : [name |-> token.name, pattern |-> token.pattern] \in Target
  BY DEF MadeToken, Made, TokenType, Target
<1> HIDE DEF S
<1>3. PICK n \in Nat : n = Len(tokens) /\ DOMAIN tokens = 1..n
  BY LenProperties
<1>4. \A i \in 1..n : [name |-> tokens[i].name, pattern |-> tokens[i].pattern] \in Target
  BY <1>2, <1>3, ElementOfSeq
<1>5. Targets(on) = [i \in 1..n |-> [name |-> tokens[i].name, pattern |-> tokens[i].pattern]]
  BY <1>1, <1>3 DEF Targets
<1>6. Targets(on) \in [1..n -> Target]
  BY <1>4, <1>5
<1> QED
  BY <1>6, SeqDef

LEMMA OptionsTyped ==
  ASSUME pushed \in Seq(TokenType), AllMade
  PROVE  Options \in Seq(Option)
<1> DEFINE S == {token \in MadeToken : token.on = "option"}
           Record(token) == [kind |-> RecordKind(token.kind), name |-> token.name,
                             block |-> token.block, pattern |-> token.pattern]
<1>1. PICK tokens \in Seq(S) : tokens = Tokens("option")
  BY TokensTyped
<1>2. ASSUME NEW token \in S PROVE Record(token) \in Option
  <2>1. /\ token.kind \in Kind /\ token.name \in DOMAIN Dictionary
        /\ token.block \in Nat /\ token.pattern \in Nat
    BY DEF MadeToken, TokenType
  <2>2. RecordKind(token.kind) \in Kind
    BY <2>1 DEF RecordKind, Kind
  <2>3. PICK w \in Words : token.name = w.same /\ token.kind = OptionOf(w) /\ w.option = token.kind
    BY DEF MadeToken, Made, OptionOf
  <2>4. RecordKind(token.kind) = "comment" <=> w.option \in {"comment", "custom comment"}
    BY <2>3 DEF RecordKind
  <2>5. RecordKind(token.kind) # "comment" => token.name \in PlainNames
    <3>1. ByName(w.same).option = "comment" => w.option \in {"comment", "custom comment"}
      BY WordsAssumption
    <3> QED
      BY <2>1, <2>3, <2>4, <3>1 DEF PlainNames
  <2>6. Record(token) \in [kind : Kind, name : DOMAIN Dictionary, block : Nat, pattern : Nat]
    BY <2>1, <2>2
  <2>7. Record(token).kind = RecordKind(token.kind) /\ Record(token).name = token.name
    OBVIOUS
  <2> HIDE DEF Record
  <2> QED
    BY <2>3, <2>4, <2>5, <2>6, <2>7 DEF Option
<1>3. PICK n \in Nat : n = Len(tokens) /\ DOMAIN tokens = 1..n
  <2> HIDE DEF S
  <2> QED
    BY LenProperties
<1>4. Options = [i \in 1..n |-> Record(tokens[i])]
  BY <1>1, <1>3 DEF Options
<1> HIDE DEF S, Record
<1>5. \A i \in 1..n : Record(tokens[i]) \in Option
  BY <1>2, <1>3, ElementOfSeq
<1>6. Options \in [1..n -> Option]
  BY <1>4, <1>5
<1> QED
  BY <1>6, SeqDef

LEMMA RecordTyped ==
  ASSUME pushed \in Seq(TokenType), AllMade
  PROVE  RecordOK(ParsedRecord)
<1>1. /\ Protocols(TRUE) \in Seq(PlainNames) /\ Protocols(FALSE) \in Seq(PlainNames)
      /\ Targets("source") \in Seq(Target) /\ Targets("destination") \in Seq(Target)
      /\ Options \in Seq(Option)
  BY ProtocolsTyped, TargetsTyped, OptionsTyped
<1>2. Names(Tokens("source ports")) \in Seq(SourcePorts)
  <2>1. \A token \in {t \in MadeToken : t.on = "source ports"} : token.name \in SourcePorts
    BY DEF MadeToken, Made
  <2> QED
    BY <2>1, TokensTyped, NamesTyped
<1>3. Names(Tokens("destination ports")) \in Seq(DestinationPortNames)
  <2>1. \A token \in {t \in MadeToken : t.on = "destination ports"} : token.name \in DestinationPortNames
    BY DEF MadeToken, Made
  <2> QED
    BY <2>1, TokensTyped, NamesTyped
<1>4. /\ ParsedRecord.versions = Protocols(TRUE) /\ ParsedRecord.protos = Protocols(FALSE)
      /\ ParsedRecord.sources = Targets("source") /\ ParsedRecord.destinations = Targets("destination")
      /\ ParsedRecord.sourcePorts = Names(Tokens("source ports"))
      /\ ParsedRecord.destinationPorts = Names(Tokens("destination ports"))
      /\ ParsedRecord.options = Options
  BY DEF ParsedRecord
<1> QED
  BY <1>1, <1>2, <1>3, <1>4 DEF RecordOK

\* It is formatted into words.
LEMMA FormattedTyped ==
  ASSUME pushed \in Seq(TokenType), AllMade
  PROVE  /\ Append(Names(InstructionText(ParsedRecord)), "end") \in Texts
         /\ Ending(Append(Names(InstructionText(ParsedRecord)), "end"))
BY RecordTyped, TextTyped

-----------------------------------------------------------------------------
(* The words looked at.                                                    *)

Grammars == {"none", "legacy", "native"} \cup (Rule \ {"body"})
Places == Header \cup {"rule", "body", "first protocol", "trailing", "destination ports", "options"}

\* The parsers stand at a word, or after the last.
Placed ==
  /\ taken \in Taken /\ body \in Texts /\ grammar \in Grammars /\ place \in Places
  /\ at <= Len(body) + 1 /\ resume <= Len(body)

\* A port after the destination is no option.
PortsNoOptions ==
  \A i \in DOMAIN pushed :
    pushed[i].on = "destination ports" =>
      pushed[i].at \in 1..Len(body) /\ OptionOf(WordAt(pushed[i].at)) = "unknown"

\* What the group tried after the destination says of x, the first word of it.
TriedAt(p, g, i, back, part, v, x, kind) ==
  /\ p = "group" => \/ g = "first" /\ i = back
                    \/ g # "first" /\ i > back /\ x.text = "{"
  /\ part = "destination ports" => i = back /\ kind = "unknown"
  /\ p = "real" /\ back # 0 => i >= back
  /\ p = "real" /\ back # 0 /\ i = back /\ part = "options" => x.port # "ports" \/ kind # "unknown"
  /\ v = "unknown option" /\ back # 0 /\ i = back => x.port # "ports"

Tried == TriedAt(pass, group, at, resume, place, verdict, WordAt(resume), OptionOf(WordAt(resume)))

WInv == IInv /\ Placed /\ AllMade /\ PortsNoOptions /\ Tried

\* The word looked at is in the body, what was before it still is.
Looked(w) ==
  /\ body' \in Texts /\ at \in 1..Len(body') /\ Len(body) <= Len(body')
  /\ \A i \in 1..Len(body) : body'[i] = body[i]
  /\ w = ByName(body'[at])

LEMMA LookFacts ==
  ASSUME WInv, NEW w \in Words \cup {End}, Look(w)
  PROVE  Looked(w)
<1>1. PICK n \in Nat : n = Len(body) /\ body \in Seq(DOMAIN Dictionary \cup {"end"})
                       /\ at \in Nat \ {0} /\ at <= n + 1
  <2>1. body \in Seq(DOMAIN Dictionary \cup {"end"})
    BY DEF WInv, Placed, Texts
  <2>2. at \in Nat \ {0} /\ at <= Len(body) + 1
    BY DEF WInv, IInv, StateOK, Placed
  <2> QED
    BY <2>1, <2>2, LenProperties
<1>2. w.name \in DOMAIN Dictionary \cup {"end"} /\ w = ByName(w.name)
  <2>1. CASE w \in Words
    <3>1. PICK name \in DOMAIN Dictionary : w = Dictionary[name]
      BY <2>1 DEF Words
    <3>2. ByName(name) = w /\ ByName(name).name = name
      BY <3>1, ByNameFacts
    <3> QED
      BY <3>1, <3>2
  <2>2. CASE w = End
    BY <2>2 DEF End, ByName
  <2> QED
    BY <2>1, <2>2
<1>3. CASE at <= n
  <2>1. w.name = body[at] /\ body' = body
    BY <1>1, <1>3 DEF Look
  <2>2. at \in 1..n
    BY <1>1, <1>3
  <2> QED
    BY <1>1, <1>2, <2>1, <2>2 DEF Looked, Texts
<1>4. CASE ~(at <= n)
  <2>1. at = n + 1 /\ at \in 1..(n + 1) /\ n <= n + 1 /\ \A i \in 1..n : i # n + 1 /\ i \in 1..(n + 1)
    BY <1>1, <1>4
  <2>2. body' = Append(body, w.name)
    BY <1>1, <1>4 DEF Look
  <2>3. /\ body' \in Seq(DOMAIN Dictionary \cup {"end"}) /\ Len(body') = n + 1
        /\ body'[n + 1] = w.name /\ \A i \in 1..n : body'[i] = body[i]
    BY <1>1, <1>2, <2>2, AppendProperties
  <2> QED
    BY <1>1, <1>2, <2>1, <2>3 DEF Looked, Texts
<1> QED
  BY <1>3, <1>4

\* What may be handed over at a word.
Suits(on, w) ==
  /\ on = "protocol" => w.proto
  /\ on \in {"source", "destination"} => w.target
  /\ on = "option" => OptionOf(w) # "unknown"
  /\ on = "source ports" => w.port # "none" /\ w.text # "to"
  /\ on = "destination ports" => w.port # "none" /\ OptionOf(w) = "unknown"
HandsOver(w) ==
  \/ pushed' = pushed
  \/ \E on \in On : w \in Words /\ Suits(on, w) /\ pushed' = Append(pushed, Token(on, w))
  \/ \A i \in DOMAIN pushed' : pushed'[i] \in {AnyOn("source"), AnyOn("destination")}

LEMMA MadeIs ==
  ASSUME NEW w \in Words, NEW on \in On, Suits(on, w)
  PROVE  Made(Token(on, w))
<1>1. /\ Token(on, w).on = on
      /\ on = "option" => Token(on, w).name = w.same /\ Token(on, w).kind = OptionOf(w)
      /\ on \in {"source ports", "destination ports"} => Token(on, w).name = w.single
      /\ on \in {"protocol", "source", "destination"} => Token(on, w).name = w.name
  BY DEF Token
<1>2. w.single \in DOMAIN Dictionary
  BY WordFacts
<1>3. on = "source ports" => w.single \in SourcePorts
  BY <1>2 DEF Suits, SourcePorts
<1>4. on = "destination ports" => w.single \in DestinationPortNames
  BY <1>2 DEF Suits, DestinationPortNames
<1>5. on \in {"protocol", "source", "destination"} => w.name \in PlainNames
  <2>1. w.proto \/ w.target => w.option # "comment" \/ w.target
    BY WordsAssumption
  <2>2. on \in {"protocol", "source", "destination"} => w \in PlainWords
    BY <2>1 DEF Suits, PlainWords
  <2> QED
    BY <2>2, PlainIs
<1>6. on = "option" => OptionOf(w) # "unknown"
  BY DEF Suits
<1> QED
  BY <1>1, <1>3, <1>4, <1>5, <1>6 DEF Made

\* Where a step leaves the parsers.
Leaves(w) ==
  /\ at' \in {1, at, at + 1, resume} /\ resume' \in {resume, at}
  /\ grammar' \in Grammars /\ place' \in Places
  /\ HandsOver(w)

LEMMA AnyIsPlain ==
  AnyOn("source").name \in PlainNames /\ AnyOn("destination").name \in PlainNames
<1>1. "any" \in DOMAIN Dictionary /\ Dictionary["any"].target
  BY WordsAssumption
<1>2. PICK w \in Words : w = ByName("any") /\ w.target
  BY <1>1, ByNameFacts
<1> QED
  BY <1>1, <1>2 DEF AnyOn, PlainNames

LEMMA PortsStay ==
  ASSUME WInv, IInv', NEW w \in Words \cup {End}, Looked(w), hook' = hook, Leaves(w)
  PROVE  AllMade' /\ PortsNoOptions'
<1>1. /\ \A token : Made(token)' <=> Made(token)
      /\ \A v : OptionOf(v)' = OptionOf(v)
  <2>1. \A v : OptionOf(v)' = OptionOf(v)
    BY DEF OptionOf
  <2>2. DestinationPortNames' = DestinationPortNames
    BY <2>1 DEF DestinationPortNames
  <2> QED
    BY <2>1, <2>2 DEF Made, SourcePorts
<1>2. ASSUME NEW i \in DOMAIN pushed, NEW token, token = pushed[i]
      PROVE  /\ Made(token)'
             /\ token.on = "destination ports" =>
                  token.at \in 1..Len(body') /\ OptionOf(ByName(body'[token.at])) = "unknown"
  <2>1. Made(token)
    BY <1>2 DEF WInv, AllMade
  <2>2. ASSUME token.on = "destination ports"
        PROVE  token.at \in 1..Len(body') /\ OptionOf(ByName(body'[token.at])) = "unknown"
    <3>1. token.at \in 1..Len(body) /\ OptionOf(ByName(body[token.at])) = "unknown"
      BY <1>2, <2>2 DEF WInv, PortsNoOptions, WordAt
    <3>2. \A k \in 1..Len(body) : k \in 1..Len(body')
      <4>1. Len(body) \in Nat /\ Len(body') \in Nat /\ Len(body) <= Len(body')
        BY LenProperties DEF WInv, Placed, Looked, Texts
      <4> QED
        BY <4>1
    <3>3. body'[token.at] = body[token.at]
      BY <3>1 DEF Looked
    <3> QED
      BY <3>1, <3>2, <3>3
  <2> QED
    BY <1>1, <2>1, <2>2
<1>3. CASE pushed' = pushed
  BY <1>1, <1>2, <1>3 DEF AllMade, PortsNoOptions, WordAt
<1>4. CASE \A i \in DOMAIN pushed' : pushed'[i] \in {AnyOn("source"), AnyOn("destination")}
  <2>1. \A i \in DOMAIN pushed' : /\ pushed'[i].on \in {"source", "destination"}
                                  /\ pushed'[i].name \in PlainNames
    BY <1>4, AnyOnFacts, AnyIsPlain
  <2> QED
    BY <2>1 DEF AllMade, PortsNoOptions, Made
<1>5. ASSUME NEW on \in On, w \in Words, Suits(on, w), pushed' = Append(pushed, Token(on, w))
      PROVE  AllMade' /\ PortsNoOptions'
  <2>1. PICK token \in TokenType : token = Token(on, w) /\ token.on = on /\ token.at = at
    <3>1. at \in Nat /\ blocks \in Nat /\ pattern \in Nat
      BY DEF WInv, IInv, StateOK
    <3> QED
      BY <1>5, <3>1, TokenFacts
  <2>2. PICK n \in Nat : n = Len(pushed) /\ DOMAIN pushed = 1..n /\ DOMAIN pushed' = 1..(n + 1)
          /\ pushed'[n + 1] = token /\ \A i \in 1..n : pushed'[i] = pushed[i]
    <3>1. pushed \in Seq(TokenType)
      BY DEF WInv, IInv, StateOK
    <3> QED
      BY <1>5, <2>1, <3>1, LenProperties, AppendProperties
  <2>3. Made(token)'
    BY <1>1, <1>5, <2>1, MadeIs
  <2>4. token.on = "destination ports" =>
          token.at \in 1..Len(body') /\ OptionOf(ByName(body'[token.at])) = "unknown"
    BY <1>5, <2>1 DEF Suits, Looked
  <2>5. \A i \in 1..(n + 1) : i \in 1..n \/ i = n + 1
    BY <2>2
  <2>6. AllMade'
    BY <1>2, <2>2, <2>3, <2>5 DEF AllMade
  <2>7. PortsNoOptions'
    BY <1>1, <1>2, <2>2, <2>4, <2>5 DEF PortsNoOptions, WordAt
  <2> QED
    BY <2>6, <2>7
<1> QED
  BY <1>3, <1>4, <1>5 DEF Leaves, HandsOver

LEMMA StaysPlaced ==
  ASSUME WInv, IInv', NEW w \in Words \cup {End}, Looked(w), Leaves(w), taken' \in Taken
  PROVE  Placed'
<1>1. PICK m \in Nat : m = Len(body') /\ at \in 1..m /\ resume <= m
  <2>1. Len(body) \in Nat /\ Len(body') \in Nat /\ Len(body) <= Len(body') /\ at \in 1..Len(body')
    BY LenProperties DEF WInv, Placed, Looked, Texts
  <2>2. resume <= Len(body) /\ resume \in Nat
    BY DEF WInv, IInv, StateOK, Placed
  <2>3. resume <= Len(body')
    BY <2>1, <2>2
  <2> QED
    BY <2>1, <2>3
<1>2. resume \in Nat /\ at' \in {1, at, at + 1, resume} /\ resume' \in {resume, at}
  BY DEF WInv, IInv, StateOK, Leaves
<1>3. at' <= m + 1 /\ resume' <= m
  BY <1>1, <1>2
<1> QED
  BY <1>1, <1>3 DEF Placed, Leaves, Looked

-----------------------------------------------------------------------------
(* Where every action leaves them.                                         *)

\* What is handed over with no header.
Either(a, b, t) == \A i \in DOMAIN t : t[i] \in {a, b}

LEMMA PairIs ==
  ASSUME NEW a, NEW b
  PROVE  Either(a, b, <<>>) /\ Either(a, b, <<a>>) /\ Either(a, b, <<>> \o <<a, b>>)
<1>1. <<>> \o <<a, b>> = <<a, b>>
  OBVIOUS
<1>2. Either(a, b, <<>>) /\ Either(a, b, <<a>>) /\ Either(a, b, <<a, b>>)
  BY DEF Either
<1> QED
  BY <1>1, <1>2

LEMMA AnyLeaves ==
  ASSUME WInv, NEW w, NEW found \in {"native", "comment only"}, ImplicitAny(found),
         pass \notin {"group", "real"}, resume' = resume
  PROVE  Leaves(w)
<1>1. pushed = <<>>
  BY DEF WInv, IInv, Parts
<1>2. PICK a, b : a = AnyOn("source") /\ b = AnyOn("destination")
  OBVIOUS
<1>3. Either(a, b, <<>>) /\ Either(a, b, <<a>>) /\ Either(a, b, pushed \o <<a, b>>)
  BY <1>1, PairIs
<1>4. pushed' = <<>> \/ pushed' = <<a>> \/ pushed' = pushed \o <<a, b>>
  BY <1>2 DEF ImplicitAny
<1>5. Either(a, b, pushed')
  BY <1>3, <1>4
<1>6. HandsOver(w)
  BY <1>2, <1>5 DEF HandsOver, Either
<1>7. grammar' = found /\ at' = 1 /\ place' = "options"
  BY DEF ImplicitAny, From
<1> QED
  BY <1>6, <1>7 DEF Leaves, Grammars, Places, Rule

LEMMA LegacyLeaves ==
  ASSUME NEW w, Legacy, resume' = resume
  PROVE  Leaves(w)
BY DEF Legacy, From, Leaves, HandsOver, Grammars, Places, Header, Listed

LEMMA ProbeLeaves ==
  ASSUME WInv, NEW w, NEW for, NEW part \in {"protocols", "options"}, Probe(for, part), resume' = resume
  PROVE  Leaves(w)
BY DEF WInv, Placed, Probe, From, Leaves, HandsOver, Places, Header, Listed

LEMMA DecidedLeaves ==
  ASSUME WInv, NEW w, UNCHANGED <<choice, at, place, group, pushed>>
  PROVE  Leaves(w)
BY DEF WInv, Placed, Leaves, HandsOver, choice

LEMMA EndedLeaves ==
  ASSUME WInv, NEW w, NEW outcome, Ended(outcome)
  PROVE  Leaves(w)
<1>1. CASE pass = "header"
  <2>1. resume' = resume /\ (Legacy \/ Probe("start", "options") \/ ImplicitAny("native"))
    BY <1>1 DEF Ended, Native
  <2> QED
    BY <1>1, <2>1, AnyLeaves, LegacyLeaves, ProbeLeaves
<1>2. CASE pass = "start"
  <2>1. resume' = resume /\ (Legacy \/ Probe("header", "protocols") \/ ImplicitAny("native"))
    BY <1>2 DEF Ended, Started, Native
  <2> QED
    BY <1>2, <2>1, AnyLeaves, LegacyLeaves, ProbeLeaves
<1>3. CASE pass = "group"
  <2>1. /\ at' = resume /\ place' \in {"destination ports", "options"}
        /\ grammar' = grammar /\ resume' = resume /\ pushed' = pushed
    BY <1>3 DEF Ended, From
  <2> QED
    BY <2>1 DEF WInv, Placed, Leaves, HandsOver, Places
<1>4. CASE pass \notin {"header", "start", "group"}
  <2>1. UNCHANGED <<choice, at, place, group, pushed>>
    BY <1>4 DEF Ended
  <2> QED
    BY <2>1, DecidedLeaves
<1> QED
  BY <1>1, <1>2, <1>3, <1>4

LEMMA InstructionLeaves ==
  ASSUME WInv, NEW w, Instruction(w)
  PROVE  Leaves(w) /\ taken' \in Taken
<1>1. taken' \in Taken
  BY DEF WInv, Placed, Instruction
<1>2. pass \notin {"group", "real"}
  BY DEF WInv, IInv, Parts, Instruction
<1>3. \/ From(1, "body") /\ UNCHANGED <<choice, pushed, verdict>>
      \/ ImplicitAny("comment only") /\ resume' = resume
      \/ grammar' = "check-state" /\ From(1, "options") /\ UNCHANGED <<resume, pushed>>
      \/ UNCHANGED <<choice, at, place, group, pushed>>
  BY DEF Instruction
<1>4. ASSUME From(1, "body"), UNCHANGED <<choice, pushed, verdict>> PROVE Leaves(w)
  BY <1>4 DEF WInv, Placed, From, choice, Leaves, HandsOver, Places
<1>5. ASSUME ImplicitAny("comment only"), resume' = resume PROVE Leaves(w)
  BY <1>2, <1>5, AnyLeaves
<1>6. ASSUME grammar' = "check-state", From(1, "options"), UNCHANGED <<resume, pushed>>
      PROVE  Leaves(w)
  BY <1>6 DEF From, Leaves, HandsOver, Grammars, Places, Rule
<1>7. ASSUME UNCHANGED <<choice, at, place, group, pushed>> PROVE Leaves(w)
  BY <1>7, DecidedLeaves
<1> QED
  BY <1>1, <1>3, <1>4, <1>5, <1>6, <1>7

LEMMA ChoosesLeave ==
  ASSUME WInv, NEW w, Choose(w) \/ ChooseByMember(w)
  PROVE  Leaves(w)
<1>1. pass \notin {"group", "real"}
  BY DEF Choose, ChooseByMember
<1>2. \/ UNCHANGED <<choice, at, place, group, pushed>>
      \/ resume' = resume /\ (Legacy \/ ImplicitAny("native") \/ Probe("header", "protocols")
                              \/ Probe("start", "options"))
      \/ Past("first protocol", "first") /\ UNCHANGED <<choice, pushed>>
  BY DEF Choose, ChooseByMember, FirstProbe, Native
<1>3. CASE Past("first protocol", "first") /\ UNCHANGED <<choice, pushed>>
  BY <1>3 DEF WInv, Placed, Past, choice, Leaves, HandsOver, Places
<1> QED
  BY <1>1, <1>2, <1>3, AnyLeaves, LegacyLeaves, ProbeLeaves, DecidedLeaves

LEMMA NoEndFits == ~End.proto /\ ~End.target /\ End.port = "none"
BY DEF End

LEMMA PortIsAWord ==
  ASSUME NEW w \in Words \cup {End}, w.port # "none"
  PROVE  w \in Words
<1>1. w \in Words \/ w = End
  OBVIOUS
<1>2. w = End => w.port = "none"
  BY NoEndFits
<1> QED
  BY <1>1, <1>2

LEMMA HeaderLeaves ==
  ASSUME WInv, NEW w \in Words \cup {End},
         OpenGroup(w) \/ Element(w) \/ Separator(w) \/ Keyword(w) \/ NoKeyword(w) \/ Trailing(w)
  PROVE  Leaves(w)
<1>1. grammar \in Grammars /\ place \in Places
  BY DEF WInv, Placed
<1>2. After(place) \in Places /\ "source" \in Places /\ "destination" \in Places /\ "to only" \in Places
      /\ "options" \in Places
  BY DEF After, Places, Header, Listed
<1>3. ASSUME Fails("syntax") \/ Fails("refused") \/ Fails("accepted") PROVE Leaves(w)
  BY <1>3, EndedLeaves DEF Fails
<1>4. ASSUME NEW part \in Places, NEW next, Past(part, next), UNCHANGED choice, HandsOver(w)
      PROVE  Leaves(w)
  BY <1>1, <1>4 DEF Past, choice, Leaves
<1>5. ASSUME pushed' = pushed PROVE HandsOver(w)
  BY <1>5 DEF HandsOver
<1>6. CASE OpenGroup(w)
  BY <1>1, <1>4, <1>5, <1>6 DEF OpenGroup
<1>7. CASE Element(w)
  <2>1. \/ Fails("syntax") \/ Fails("refused")
        \/ /\ Fits(w) /\ Push(Callback, w) /\ UNCHANGED choice
           /\ Past(place, "separator") \/ Past(After(place), "first")
    BY <1>7 DEF Element
  <2>2. ASSUME Fits(w), Push(Callback, w) PROVE HandsOver(w)
    <3>1. w \in Words
      BY <2>2 DEF Fits, End
    <3>2. Callback \in On /\ Suits(Callback, w)
      BY <1>7, <2>2 DEF Element, Callback, Fits, Listed, On, Suits
    <3> QED
      BY <2>2, <3>1, <3>2 DEF Push, HandsOver
  <2> QED
    BY <1>1, <1>2, <1>3, <1>4, <2>1, <2>2
<1>8. CASE Separator(w)
  <2>1. \/ Fails("syntax") \/ Fails("accepted")
        \/ /\ pushed' = pushed /\ UNCHANGED choice
           /\ Past(place, "member") \/ Past(After(place), "first") \/ Past("options", "first")
    BY <1>8 DEF Separator
  <2> QED
    BY <1>1, <1>2, <1>3, <1>4, <1>5, <2>1
<1>9. CASE Keyword(w)
  <2>1. /\ UNCHANGED choice
        /\ \/ pushed' = pushed /\ (Past("source", "first") \/ Past("destination", "first"))
           \/ /\ w.text # "to" /\ w.port = "ports"
              /\ Push("source ports", w) /\ Past("to only", "first")
    BY <1>9 DEF Keyword
  <2>2. ASSUME w.text # "to", w.port = "ports", Push("source ports", w) PROVE HandsOver(w)
    <3>1. w \in Words
      BY <2>2, PortIsAWord
    <3>2. "source ports" \in On /\ Suits("source ports", w)
      BY <2>2 DEF On, Suits
    <3> QED
      BY <2>2, <3>1, <3>2 DEF Push, HandsOver
  <2> QED
    BY <1>2, <1>4, <1>5, <2>1, <2>2
<1>10. CASE NoKeyword(w)
  BY <1>3, <1>10 DEF NoKeyword
<1>11. CASE Trailing(w)
  <2>1. \/ Fails("accepted")
        \/ From(at, "options") /\ UNCHANGED <<choice, pushed>>
        \/ resume' = at /\ From(at, "options") /\ UNCHANGED <<grammar, pushed>>
    BY <1>11 DEF Trailing
  <2>2. CASE From(at, "options") /\ UNCHANGED <<choice, pushed>>
    BY <1>1, <1>2, <1>5, <2>2 DEF From, choice, Leaves
  <2>3. CASE resume' = at /\ From(at, "options") /\ UNCHANGED <<grammar, pushed>>
    BY <1>1, <1>2, <1>5, <2>3 DEF From, Leaves
  <2> QED
    BY <1>3, <2>1, <2>2, <2>3
<1> QED
  BY <1>6, <1>7, <1>8, <1>9, <1>10, <1>11

\* The word after the destination, and what came of it in the body looked at.
LEMMA SameWord ==
  ASSUME WInv, NEW w, Looked(w), resume # 0
  PROVE  /\ ByName(body'[resume]) = WordAt(resume)
         /\ at = resume => w = WordAt(resume)
         /\ WordAt(resume) \in Words \cup {End}
<1>1. PICK n \in Nat : n = Len(body) /\ body \in Seq(DOMAIN Dictionary \cup {"end"})
  BY LenProperties DEF WInv, Placed, Texts
<1>2. resume \in 1..n
  <2>1. resume \in Nat /\ resume <= n
    BY <1>1 DEF WInv, IInv, StateOK, Placed
  <2> QED
    BY <2>1
<1>3. body'[resume] = body[resume]
  BY <1>1, <1>2 DEF Looked
<1>4. body[resume] \in DOMAIN Dictionary \cup {"end"}
  BY <1>1, <1>2, ElementOfSeq
<1>5. ByName("end") = End
  BY DEF ByName
<1> QED
  BY <1>3, <1>4, <1>5, ByNameFacts DEF Looked, WordAt

LEMMA KnownOutcome ==
  ASSUME NEW w
  PROVE  Outcome(w) = "unknown option" <=> OptionOf(w) = "unknown"
BY DEF Outcome, IsDynamic

LEMMA OptionsLeave ==
  ASSUME WInv, NEW w \in Words \cup {End}, Looked(w),
         DestinationPorts(w) \/ OptionFails(w) \/ OnOption(w) \/ OnComment(w) \/ Over(w)
  PROVE  Leaves(w)
<1>1. grammar \in Grammars /\ place \in Places /\ "options" \in Places
  BY DEF WInv, Placed, Places
<1>2. ASSUME Fails("syntax") \/ Fails("refused") \/ Fails("accepted") PROVE Leaves(w)
  BY <1>2, EndedLeaves DEF Fails
<1>3. ASSUME OnOption(w) \/ OnComment(w) PROVE w \in Words /\ OptionOf(w) # "unknown"
  <2>1. Outcome(w) = "accepted"
    BY <1>3 DEF OnOption, OnComment
  <2> QED
    BY <2>1, OutcomeFacts, KnownOutcome DEF WInv
<1>4. ASSUME w \in Words, OptionOf(w) # "unknown", pushed' = Append(pushed, Token("option", w)) PROVE HandsOver(w)
  <2>1. "option" \in On /\ Suits("option", w)
    BY <1>4 DEF On, Suits
  <2> QED
    BY <1>4, <2>1 DEF HandsOver
<1>5. CASE DestinationPorts(w)
  <2>1. \/ Fails("refused")
        \/ /\ pushed' = pushed \/ (w.port # "none" /\ Push("destination ports", w))
           /\ Past("options", "first") \/ From(at, "options")
           /\ UNCHANGED choice
    BY <1>5 DEF DestinationPorts
  <2>2. ASSUME w.port # "none", Push("destination ports", w) PROVE HandsOver(w)
    <3>1. w \in Words
      BY <2>2, PortIsAWord
    <3>2. OptionOf(w) = "unknown"
      <4>1. resume # 0 /\ at = resume /\ OptionOf(WordAt(resume)) = "unknown"
        BY <1>5 DEF WInv, IInv, Parts, Tried, TriedAt, DestinationPorts
      <4> QED
        BY <4>1, SameWord
    <3>3. "destination ports" \in On /\ Suits("destination ports", w)
      BY <2>2, <3>2 DEF On, Suits
    <3> QED
      BY <2>2, <3>1, <3>3 DEF Push, HandsOver
  <2>3. ASSUME pushed' = pushed PROVE HandsOver(w)
    BY <2>3 DEF HandsOver
  <2>4. ASSUME Past("options", "first") \/ From(at, "options"), UNCHANGED choice, HandsOver(w)
        PROVE  Leaves(w)
    BY <1>1, <2>4 DEF Past, From, choice, Leaves
  <2> QED
    BY <1>2, <2>1, <2>2, <2>3, <2>4
<1>6. CASE OptionFails(w)
  BY <1>6, EndedLeaves DEF OptionFails
<1>7. CASE OnOption(w)
  <2>1. \/ Ended("accepted")
        \/ /\ pushed' = pushed \/ pushed' = Append(pushed, Token("option", w))
           /\ Past(place, "separator") \/ Past(place, "first")
           /\ UNCHANGED choice
    BY <1>7 DEF OnOption, Push
  <2>2. CASE Ended("accepted")
    BY <2>2, EndedLeaves
  <2>3. ASSUME pushed' = pushed PROVE HandsOver(w)
    BY <2>3 DEF HandsOver
  <2>4. ASSUME Past(place, "separator") \/ Past(place, "first"), UNCHANGED choice, HandsOver(w)
        PROVE  Leaves(w)
    BY <1>1, <2>4 DEF Past, choice, Leaves
  <2> QED
    BY <1>3, <1>4, <1>7, <2>1, <2>2, <2>3, <2>4
<1>8. CASE OnComment(w)
  <2>1. \/ Fails("syntax")
        \/ pushed' = Append(pushed, Token("option", w)) /\ UNCHANGED <<choice, at, place>>
    BY <1>8 DEF OnComment
  <2>2. ASSUME UNCHANGED <<choice, at, place>>, HandsOver(w) PROVE Leaves(w)
    BY <1>1, <2>2 DEF choice, Leaves
  <2> QED
    BY <1>2, <1>3, <1>4, <1>8, <2>1, <2>2
<1>9. CASE Over(w)
  BY <1>2, <1>9 DEF Over
<1> QED
  BY <1>5, <1>6, <1>7, <1>8, <1>9

-----------------------------------------------------------------------------
(* What a step makes of the group tried.                                   *)

\* An option of the rule is read on from, or the rule is decided, or a list of
\* ports that breaks off is left.
RealGoesOn == pass = "real" /\ pass' = "real" /\ place' = "options" /\ at' = at + 1
RealDecides(w) ==
  /\ pass = "real" /\ pass' = "real" /\ place' = place /\ at' = at /\ group' = group
  /\ verdict' = "unknown option" => place = "options" /\ OptionOf(w) = "unknown"
LeavesPorts(w) ==
  /\ pass = "real" /\ place = "destination ports" /\ w.port # "ports"
  /\ pass' = "real" /\ place' = "options" /\ at' = at /\ verdict' = "none"

\* The group is opened, or read in; or what is tried ends.
GroupGoesOn(w) ==
  /\ pass = "group"
  /\ group = "first" => w.text = "{"
  /\ pass' = "group" /\ place' = "options" /\ at' = at + 1 /\ group' # "first" /\ verdict' = "none"
GroupOver(w) ==
  /\ pass = "group" /\ pass' = "real" /\ at' = resume /\ verdict' = "none"
  /\ \/ /\ place' = "destination ports"
        /\ group = "first" => OptionOf(w) = "unknown"
     \/ /\ place' = "options"
        /\ group = "first" => w.port # "ports" \/ OptionOf(w) # "unknown"
GroupBegins ==
  /\ pass' = "group" /\ group' = "first" /\ at' = resume' /\ place' = "options" /\ verdict' = "none"

TriedStep(w) ==
  \/ resume' = 0
  \/ /\ resume # 0 /\ resume' = resume
     /\ \/ RealGoesOn \/ RealDecides(w) \/ LeavesPorts(w) \/ GroupGoesOn(w) \/ GroupOver(w)
  \/ GroupBegins

LEMMA TriedNext ==
  ASSUME hook' = hook, NEW x, x = ByName(body'[resume']),
         TriedAt(pass', group', at', resume', place', verdict', x, OptionOf(x))
  PROVE  Tried'
BY DEF Tried, WordAt, OptionOf

LEMMA TriedKeeps ==
  ASSUME WInv, IInv', NEW w \in Words \cup {End}, Looked(w), hook' = hook, TriedStep(w)
  PROVE  Tried'
<1>1. CASE resume' = 0
  <2>1. pass' # "group" /\ place' # "destination ports"
    BY <1>1 DEF IInv, Parts
  <2>2. PICK x : x = ByName(body'[resume'])
    OBVIOUS
  <2> QED
    BY <1>1, <2>1, <2>2, TriedNext DEF TriedAt
<1>2. CASE resume # 0 /\ resume' = resume /\ (RealGoesOn \/ RealDecides(w) \/ LeavesPorts(w)
                                              \/ GroupGoesOn(w) \/ GroupOver(w))
  <2>1. PICK x : /\ x = WordAt(resume) /\ x = ByName(body'[resume])
                 /\ at = resume => w = x
                 /\ x \in Words \cup {End}
    BY <1>2, SameWord
  <2>2. TriedAt(pass, group, at, resume, place, verdict, x, OptionOf(x))
    BY <2>1 DEF WInv, Tried
  <2>3. at \in Nat /\ resume \in Nat
    BY DEF WInv, IInv, StateOK
  <2>4. x.text = "{" => x.port = "none" /\ OptionOf(x) = "unknown"
    <3>1. x \in Words => (x.text = "{" => x.port = "none" /\ x.option = "unknown")
      BY WordsAssumption
    <3>2. x = End => x.text # "{"
      BY DEF End
    <3>3. x.option = "unknown" => OptionOf(x) = "unknown"
      BY DEF OptionOf
    <3> QED
      BY <2>1, <3>1, <3>2, <3>3
  <2>5. PICK i : /\ i = at + 1
                 /\ at >= resume => i >= resume /\ i # resume
                 /\ at = resume \/ at > resume => i > resume
                 /\ resume >= resume
    BY <2>3
  <2>6. TriedAt(pass', group', at', resume', place', verdict', x, OptionOf(x))
    <3>1. CASE RealGoesOn
      BY <1>2, <2>2, <2>5, <3>1, Zenon DEF RealGoesOn, TriedAt
    <3>2. CASE RealDecides(w)
      BY <1>2, <2>1, <2>2, <2>3, <3>2 DEF RealDecides, TriedAt
    <3>3. CASE LeavesPorts(w)
      BY <1>2, <2>1, <2>2, <2>3, <3>3 DEF LeavesPorts, TriedAt
    <3>4. CASE GroupGoesOn(w)
      BY <1>2, <2>1, <2>2, <2>5, <3>4, Zenon DEF GroupGoesOn, TriedAt
    <3>5. CASE GroupOver(w)
      BY <1>2, <2>1, <2>2, <2>4, <2>5, <3>5, Zenon DEF GroupOver, TriedAt
    <3> QED
      BY <1>2, <3>1, <3>2, <3>3, <3>4, <3>5
  <2> QED
    BY <1>2, <2>1, <2>6, TriedNext
<1>3. CASE GroupBegins
  <2>1. PICK x : x = ByName(body'[resume'])
    OBVIOUS
  <2> QED
    <3>1. TriedAt(pass', group', at', resume', place', verdict', x, OptionOf(x))
      <4>1. pass' = "group" /\ group' = "first" /\ at' = resume'
        BY <1>3 DEF GroupBegins
      <4>2. pass' # "real" /\ place' # "destination ports" /\ verdict' # "unknown option"
        BY <1>3 DEF GroupBegins
      <4> QED
        BY <4>1, <4>2 DEF TriedAt
    <3> QED
      BY <2>1, <3>1, TriedNext
<1> QED
  BY <1>1, <1>2, <1>3 DEF TriedStep

\* What ends.
LEMMA EndedTries ==
  ASSUME WInv, NEW w, NEW outcome, Ended(outcome), verdict = "none",
         pass # "group" =>
           (outcome = "unknown option" => place = "options" /\ OptionOf(w) = "unknown"),
         pass = "group" /\ group = "first" =>
           IF FallsBack(outcome) THEN OptionOf(w) = "unknown"
           ELSE w.port # "ports" \/ OptionOf(w) # "unknown"
  PROVE  TriedStep(w)
<1>1. resume' = resume
  BY DEF Ended, choice
<1>2. CASE resume = 0
  BY <1>1, <1>2 DEF TriedStep
<1>3. CASE resume # 0
  <2>1. pass \in {"group", "real"}
    BY <1>3 DEF WInv, IInv, Parts
  <2>2. CASE pass = "group"
    <3>1. /\ pass' = "real" /\ at' = resume /\ verdict' = "none"
          /\ place' = IF FallsBack(outcome) THEN "destination ports" ELSE "options"
      BY <2>2 DEF Ended, From
    <3>2. GroupOver(w)
      BY <2>2, <3>1 DEF GroupOver
    <3> QED
      BY <1>1, <1>3, <3>2 DEF TriedStep
  <2>3. CASE pass = "real"
    <3>1. verdict' = outcome /\ UNCHANGED <<choice, at, place, group>>
      BY <2>3 DEF Ended
    <3>2. RealDecides(w)
      BY <2>3, <3>1 DEF RealDecides, choice
    <3> QED
      BY <1>1, <1>3, <3>2 DEF TriedStep
  <2> QED
    BY <2>1, <2>2, <2>3
<1> QED
  BY <1>2, <1>3

\* The passes before the last know of no group.
LEMMA EarlyTries ==
  ASSUME WInv, NEW w, Instruction(w) \/ Choose(w) \/ ChooseByMember(w)
  PROVE  TriedStep(w)
<1>1. resume = 0
  BY DEF WInv, IInv, Parts, Instruction, Choose, ChooseByMember
<1>2. resume' = resume
  BY DEF Instruction, Choose, ChooseByMember, choice
<1> QED
  BY <1>1, <1>2 DEF TriedStep

LEMMA HeaderTries ==
  ASSUME WInv, NEW w, verdict = "none", Element(w) \/ Keyword(w) \/ NoKeyword(w)
  PROVE  TriedStep(w)
<1>1. resume = 0
  BY DEF WInv, IInv, Parts, Header, Listed, Element, Keyword, NoKeyword
<1>2. resume' = resume
  BY DEF Element, Keyword, NoKeyword, Fails, Ended, choice
<1> QED
  BY <1>1, <1>2 DEF TriedStep

\* A group of options, tried or of the rule.
LEMMA GroupTries ==
  ASSUME WInv, NEW w, verdict = "none", OpenGroup(w) \/ Separator(w)
  PROVE  TriedStep(w)
<1>1. place \in Listed \cup {"options"}
  BY DEF WInv, IInv, Parts, OpenGroup, Separator
<1>2. CASE place \in Listed
  <2>1. resume = 0
    BY <1>2 DEF WInv, IInv, Parts, Header
  <2>2. resume' = resume
    BY DEF OpenGroup, Separator, Fails, Ended, choice
  <2> QED
    BY <2>1, <2>2 DEF TriedStep
<1>3. CASE place = "options"
  <2>1. ASSUME Fails("syntax") \/ Fails("accepted"), group # "first" PROVE TriedStep(w)
    BY <2>1, EndedTries DEF Fails
  <2>2. ASSUME resume' = resume, pass' = pass, pass \in {"group", "real"}, place' = "options",
               at' = at + 1, verdict' = "none",
               pass = "group" => group' # "first" /\ (group = "first" => w.text = "{")
        PROVE  TriedStep(w)
    <3>1. CASE resume = 0
      BY <2>2, <3>1 DEF TriedStep
    <3>2. CASE resume # 0
      BY <2>2, <3>2 DEF TriedStep, RealGoesOn, GroupGoesOn
    <3> QED
      BY <3>1, <3>2
  <2>3. pass \in {"start", "group", "real"}
    BY <1>3, PartOf DEF WInv
  <2>4. CASE pass = "start"
    <3>1. resume = 0 /\ resume' = resume
      BY <2>4 DEF WInv, IInv, Parts, OpenGroup, Separator, Fails, Ended, choice
    <3> QED
      BY <3>1 DEF TriedStep
  <2>5. CASE pass \in {"group", "real"} /\ OpenGroup(w)
    <3>1. /\ resume' = resume /\ pass' = pass /\ place' = "options" /\ at' = at + 1 /\ verdict' = "none"
          /\ group' = "member" /\ w.text = "{"
      BY <1>3, <2>5 DEF OpenGroup, Past, choice
    <3> QED
      BY <2>2, <2>5, <3>1
  <2>6. CASE pass \in {"group", "real"} /\ Separator(w)
    <3>1. /\ group = "separator"
          /\ \/ Fails("syntax") \/ Fails("accepted")
             \/ /\ UNCHANGED choice /\ verdict' = "none" /\ at' = at + 1 /\ place' = "options"
                /\ pass = "group" => group' = "member"
      BY <1>3, <2>6 DEF Separator, Past
    <3>2. ASSUME UNCHANGED choice, verdict' = "none", at' = at + 1, place' = "options",
                 pass = "group" => group' = "member"
          PROVE  TriedStep(w)
      BY <2>2, <2>6, <3>1, <3>2 DEF choice
    <3> QED
      BY <2>1, <3>1, <3>2
  <2> QED
    BY <2>3, <2>4, <2>5, <2>6
<1> QED
  BY <1>1, <1>2, <1>3

LEMMA TrailingTries ==
  ASSUME WInv, NEW w, verdict = "none", Trailing(w)
  PROVE  TriedStep(w)
<1>1. resume = 0
  BY DEF WInv, IInv, Parts, Trailing
<1>2. \/ resume' = resume
      \/ /\ pass' = "group" /\ resume' = at /\ From(at, "options") /\ verdict' = verdict
  BY DEF Trailing, Fails, Ended, choice
<1>3. CASE pass' = "group" /\ resume' = at /\ From(at, "options") /\ verdict' = verdict
  BY <1>3 DEF From, TriedStep, GroupBegins
<1> QED
  BY <1>1, <1>2, <1>3 DEF TriedStep

LEMMA PortsTry ==
  ASSUME WInv, NEW w, verdict = "none", DestinationPorts(w)
  PROVE  TriedStep(w)
<1>1. place = "destination ports" /\ resume # 0 /\ pass = "real"
  BY DEF WInv, IInv, StateOK, Pass, Parts, DestinationPorts
<1>2. \/ Fails("refused")
      \/ /\ UNCHANGED choice /\ verdict' = "none"
         /\ IF w.port = "ports" THEN Past("options", "first") ELSE From(at, "options")
  BY DEF DestinationPorts
<1>3. ASSUME Fails("refused") PROVE TriedStep(w)
  BY <1>1, <1>3, EndedTries DEF Fails
<1>4. ASSUME UNCHANGED choice, verdict' = "none",
             IF w.port = "ports" THEN Past("options", "first") ELSE From(at, "options")
      PROVE  TriedStep(w)
  BY <1>1, <1>4 DEF choice, Past, From, TriedStep, RealGoesOn, LeavesPorts
<1> QED
  BY <1>2, <1>3, <1>4

\* An option that is tried, or of the rule.
LEMMA OptionTries ==
  ASSUME WInv, NEW w \in Words \cup {End}, verdict = "none",
         OptionFails(w) \/ OnOption(w) \/ OnComment(w) \/ Over(w)
  PROVE  TriedStep(w)
<1>1. Outcome(w) = "unknown option" <=> OptionOf(w) = "unknown"
  BY KnownOutcome
<1>2. place = "options" /\ pass \in {"start", "group", "real"} /\ group \in {"first", "member"}
  BY PartOf DEF WInv, OptionFails, OnOption, OnComment, Over, ToOption
<1>3. CASE OptionFails(w)
  <2>1. Ended(Outcome(w))
    BY <1>3 DEF OptionFails
  <2> QED
    BY <1>1, <1>2, <2>1, EndedTries DEF FallsBack
<1>4. CASE OnOption(w)
  <2>1. Outcome(w) = "accepted" /\ OptionOf(w) # "unknown"
    BY <1>1, <1>4 DEF OnOption
  <2>2. ASSUME Ended("accepted") PROVE TriedStep(w)
    BY <1>2, <2>1, <2>2, EndedTries DEF FallsBack
  <2>3. ASSUME resume' = resume, pass' = pass, place' = place, at' = at + 1, verdict' = "none",
               pass = "group" => group = "member" /\ group' = "separator"
        PROVE  TriedStep(w)
    <3>1. CASE resume = 0
      BY <2>3, <3>1 DEF TriedStep
    <3>2. CASE resume # 0
      <4>1. pass \in {"group", "real"}
        BY <3>2 DEF WInv, IInv, Parts
      <4> QED
        BY <1>2, <2>3, <3>2, <4>1 DEF TriedStep, RealGoesOn, GroupGoesOn
    <3> QED
      BY <3>1, <3>2
  <2>4. \/ Ended("accepted")
        \/ /\ UNCHANGED choice /\ place' = place /\ at' = at + 1 /\ verdict' = "none"
           /\ pass = "group" => group = "member" /\ group' = "separator"
    BY <1>4 DEF OnOption, Past
  <2> QED
    BY <2>2, <2>3, <2>4 DEF choice
<1>5. CASE OnComment(w)
  <2>1. OptionOf(w) # "unknown"
    BY <1>1, <1>5 DEF OnComment
  <2>2. ASSUME Fails("syntax") PROVE TriedStep(w)
    BY <1>2, <2>1, <2>2, EndedTries DEF Fails, FallsBack
  <2>3. \/ Fails("syntax")
        \/ /\ pass = "real" /\ UNCHANGED <<choice, at, place, group>>
           /\ verdict' \in {"syntax", "accepted"}
    BY <1>5 DEF OnComment, ToState
  <2>4. ASSUME pass = "real", UNCHANGED <<choice, at, place, group>>, verdict' \in {"syntax", "accepted"}
        PROVE  TriedStep(w)
    BY <2>4 DEF choice, TriedStep, RealDecides
  <2> QED
    BY <2>2, <2>3, <2>4
<1>6. CASE Over(w)
  <2>1. Fails("accepted") /\ w.port # "ports"
    BY <1>6, NoEndFits DEF Over
  <2> QED
    BY <1>2, <2>1, EndedTries DEF Fails, FallsBack
<1> QED
  BY <1>3, <1>4, <1>5, <1>6

-----------------------------------------------------------------------------
(* What every step keeps.                                                  *)

LEMMA ReadTells ==
  ASSUME WInv, IInv', Read
  PROVE  WInv'
<1>1. PICK w \in Words \cup {End} :
        Look(w) /\ (Instruction(w) \/ (taken' = taken /\ Step(w))) /\ hook' = hook /\ verdict = "none"
  BY DEF Read, Look, options
<1>2. Looked(w)
  BY <1>1, LookFacts
<1>3. Leaves(w) /\ taken' \in Taken
  <2>1. CASE Instruction(w)
    BY <2>1, InstructionLeaves
  <2>2. CASE taken' = taken /\ Step(w)
    <3>1. taken' \in Taken
      BY <2>2 DEF WInv, Placed
    <3> QED
      BY <1>2, <2>2, <3>1, ChoosesLeave, HeaderLeaves, OptionsLeave DEF Step
  <2> QED
    BY <1>1, <2>1, <2>2
<1>4. TriedStep(w)
  <2>1. CASE Instruction(w)
    BY <2>1, EarlyTries
  <2>2. CASE Step(w)
    BY <1>1, <2>2, EarlyTries, HeaderTries, GroupTries, TrailingTries, PortsTry, OptionTries DEF Step
  <2> QED
    BY <1>1, <2>1, <2>2
<1> QED
  BY <1>1, <1>2, <1>3, <1>4, StaysPlaced, PortsStay, TriedKeeps DEF WInv

LEMMA ReadsNextTells ==
  ASSUME IInv', taken' \in Taken, NEW text \in Texts, ReadsNext(text)
  PROVE  WInv'
<1>1. /\ body' = text /\ at' = 1 /\ resume' = 0 /\ place' = "rule" /\ pass' = "choice"
      /\ grammar' = "none" /\ pushed' = <<>> /\ verdict' = "none"
  BY DEF ReadsNext, From
<1>2. Placed'
  <2>1. 1 <= Len(text) + 1 /\ 0 <= Len(text)
    BY LenProperties DEF Texts
  <2>2. grammar' \in Grammars /\ place' \in Places
    BY <1>1 DEF Grammars, Places
  <2> QED
    BY <1>1, <2>1, <2>2 DEF Placed
<1>3. AllMade' /\ PortsNoOptions'
  <2>1. \A i \in DOMAIN pushed' : FALSE
    BY <1>1
  <2> QED
    BY <2>1 DEF AllMade, PortsNoOptions
<1>4. Tried'
  <2>1. \A x, g, kind : TriedAt("choice", g, 1, 0, "rule", "none", x, kind)
    BY DEF TriedAt
  <2> QED
    BY <1>1, <2>1 DEF Tried
<1> QED
  BY <1>2, <1>3, <1>4 DEF WInv

LEMMA SameTells ==
  ASSUME WInv, IInv', taken' = taken, hook' = hook, verdict' \notin {"unknown option"} \ {verdict},
         UNCHANGED <<body, at, choice, place, group, pushed>>
  PROVE  WInv'
<1>1. Placed'
  BY DEF WInv, Placed, choice
<1>2. AllMade' /\ PortsNoOptions'
  <2>1. \A w : OptionOf(w)' = OptionOf(w)
    BY DEF OptionOf
  <2>2. \A token : Made(token)' = Made(token)
    BY <2>1 DEF Made, SourcePorts, DestinationPortNames
  <2>3. AllMade'
    BY <2>2 DEF WInv, AllMade
  <2>4. PortsNoOptions'
    BY <2>1 DEF WInv, PortsNoOptions, WordAt
  <2> QED
    BY <2>3, <2>4
<1>3. Tried'
  BY DEF WInv, Tried, TriedAt, WordAt, OptionOf, choice
<1> QED
  BY <1>1, <1>2, <1>3 DEF WInv

LEMMA FormatTells ==
  ASSUME WInv, IInv', NEW appender \in BOOLEAN, Format(appender)
  PROVE  WInv'
<1>1. taken' = taken /\ hook' = hook
  BY DEF Format, options
<1>2. CASE Refusal(ParsedRecord, appender) = "none"
  <2>1. Append(Names(InstructionText(ParsedRecord)), "end") \in Texts
    BY FormattedTyped DEF WInv, IInv, StateOK
  <2>2. ReadsNext(Append(Names(InstructionText(ParsedRecord)), "end"))
    BY <1>2 DEF Format
  <2>3. taken' \in Taken
    BY <1>1 DEF WInv, Placed
  <2> QED
    BY <2>1, <2>2, <2>3, ReadsNextTells
<1>3. CASE Refusal(ParsedRecord, appender) # "none"
  <2>1. /\ verdict' = Refusal(ParsedRecord, appender)
        /\ UNCHANGED <<body, at, choice, place, group, pushed>>
    BY <1>3 DEF Format
  <2>2. verdict' # "unknown option"
    BY <2>1, RefusalIsAnError
  <2> QED
    BY <1>1, <2>1, <2>2, SameTells
<1> QED
  BY <1>2, <1>3

LEMMA NextLineTells ==
  ASSUME WInv, IInv', NextLine
  PROVE  WInv'
<1>1. ReadsNext(<<>>) /\ taken' = {}
  BY DEF NextLine
<1>2. {} \in Taken /\ <<>> \in Texts
  BY DEF Taken, Texts
<1> QED
  BY <1>1, <1>2, ReadsNextTells

LEMMA NextTells == WInv /\ [Next]_vars => WInv'
<1> SUFFICES ASSUME WInv, [Next]_vars PROVE WInv'
  OBVIOUS
<1>1. IInv'
  BY NextInv DEF WInv
<1>2. ASSUME NEW appender \in BOOLEAN, Format(appender) PROVE WInv'
  BY <1>1, <1>2, FormatTells
<1>3. CASE UNCHANGED vars
  <2>1. /\ taken' = taken /\ hook' = hook /\ verdict' = verdict
        /\ UNCHANGED <<body, at, choice, place, group, pushed>>
    BY <1>3 DEF vars, options
  <2> QED
    BY <1>1, <2>1, SameTells
<1> QED
  BY <1>1, <1>2, <1>3, ReadTells, NextLineTells DEF Next

LEMMA InitTells == Init => WInv
<1> SUFFICES ASSUME Init PROVE WInv
  OBVIOUS
<1>1. /\ taken = {} /\ body = <<>> /\ at = 1 /\ resume = 0 /\ place = "rule" /\ pass = "choice"
      /\ grammar = "none" /\ pushed = <<>> /\ verdict = "none"
  BY DEF Init
<1>2. Placed
  <2>1. {} \in Taken /\ <<>> \in Texts /\ 1 <= Len(<<>>) + 1 /\ 0 <= Len(<<>>)
    BY DEF Taken, Texts
  <2>2. grammar \in Grammars /\ place \in Places
    BY <1>1 DEF Grammars, Places
  <2> QED
    BY <1>1, <2>1, <2>2 DEF Placed
<1>3. AllMade /\ PortsNoOptions
  BY <1>1 DEF AllMade, PortsNoOptions
<1>4. Tried
  BY <1>1 DEF Tried, TriedAt
<1> QED
  BY <1>2, <1>3, <1>4, InitInv DEF WInv

LEMMA Telling == Spec => []WInv
BY InitTells, NextTells, PTL DEF Spec

\* Every word looked at is one of the dictionary or the end of the line, in a text
\* the caller gave or the formatter wrote of a record, and the parsers never stand
\* past the word after the last (parser.go, writer.go).
THEOREM BodyTypes == Spec => []TypeOK
<1>1. WInv => TypeOK
  <2> SUFFICES ASSUME WInv PROVE TypeOK
    OBVIOUS
  <2>1. at \in 1..(Len(body) + 1) /\ resume \in 0..Len(body) /\ body \in Texts
    <3>1. at \in Nat \ {0} /\ resume \in Nat /\ at <= Len(body) + 1 /\ resume <= Len(body) /\ body \in Texts
      BY DEF WInv, IInv, StateOK, Placed
    <3>2. Len(body) \in Nat
      BY <3>1, LenProperties DEF Texts
    <3> QED
      BY <3>1, <3>2
  <2>2. pushed \in Seq([on : {Callbacks[i] : i \in DOMAIN Callbacks}, at : Nat,
                        name : DOMAIN Dictionary, block : Nat, pattern : Nat, kind : Kind])
    BY CallbacksAre DEF WInv, IInv, StateOK, TokenType
  <2>3. /\ taken \in Taken /\ grammar \in Grammars /\ place \in Places
        /\ checker \in BOOLEAN /\ hook \in BOOLEAN /\ rule \in Rule /\ pass \in Pass
        /\ (grammar # "none" <=> pass \in {"group", "real"})
        /\ group \in {"first", "member", "separator"}
        /\ blocks \in Nat /\ pattern \in Nat /\ dynamic \subseteq Pass
    BY Zenon DEF WInv, IInv, StateOK, Parts, Placed
  <2> QED
    BY <2>1, <2>2, <2>3, Zenon DEF TypeOK, Texts, Grammars, Places
<1> QED
  BY <1>1, Telling, PTL

\* After the destination a word is read as a port only when it is no option, and is
\* rejected as an option nobody knows only when it is no port (parser.go,
\* parseBodyLegacy), however long the body and whatever the hook knows.
THEOREM PortsOnlyUnknown == Spec => []PortsAreNoOptions
<1>1. WInv => PortsAreNoOptions
  <2> SUFFICES ASSUME WInv PROVE PortsAreNoOptions
    OBVIOUS
  <2>1. verdict = "unknown option" /\ resume # 0 /\ at = resume => WordAt(at).port # "ports"
    BY DEF WInv, Tried, TriedAt
  <2> QED
    BY <2>1 DEF WInv, PortsNoOptions, PortsAreNoOptions
<1> QED
  BY <1>1, Telling, PTL

-----------------------------------------------------------------------------
(* What is handed over, and when.                                          *)

\* The words before the one looked at are no comments and not the end.
Behind == \A i \in 1..(at - 1) : body[i] \in PlainNames

\* What is before this word is settled for the rule.
Frontier == IF pass = "group" THEN resume ELSE at

\* The turn of the part that comes next, the one tried in a group set aside.
TurnNow ==
  CASE pass = "group" -> 4
    [] pass # "group" /\ place \in {"protocols", "from"} -> 1
    [] pass # "group" /\ place = "source" -> 2
    [] pass # "group" /\ place \in {"to", "to only"} -> 3
    [] pass # "group" /\ place \in {"destination", "trailing"} -> 4
    [] pass # "group" /\ place = "destination ports" -> 5
    [] OTHER -> 6

Has(on) == \E i \in DOMAIN pushed : pushed[i].on = on
AfterSource ==
  \/ place \in {"to", "to only", "destination", "trailing", "destination ports", "options"}
  \/ place = "source" /\ group = "separator"
AfterDestination ==
  \/ place \in {"trailing", "destination ports", "options"}
  \/ place = "destination" /\ group = "separator"

\* Of the words settled every one is handed over, in order, and both sides are
\* when their parts are over.
InOrder ==
  \A i, j \in Handed : i < j => pushed[i].at < pushed[j].at /\ Turn(pushed[i].on) <= Turn(pushed[j].on)
Preceding == \A i \in Handed : pushed[i].at < Frontier /\ Turn(pushed[i].on) <= TurnNow
Covered == \A i \in 1..(Frontier - 1) : WordAt(i).text = "other" => \E j \in Handed : pushed[j].at = i
Sides ==
  rule # "check-state" =>
    (AfterSource => Has("source")) /\ (AfterDestination => Has("destination"))
Going == InOrder /\ Preceding /\ Covered /\ Sides

\* Ports that break off are handed over, but then the word is no option.
Doomed ==
  /\ pass = "real" /\ place = "options" /\ group = "first" /\ at <= Len(body)
  /\ WordAt(at).port # "none" /\ OptionOf(WordAt(at)) = "unknown"

Handing == verdict = "none" /\ pass \in {"group", "real"} => Doomed \/ Going

\* No text that may be a target is a comment among the options.
CommentsApart == \A w \in Words : w.option = "comment" => ~w.target

HInv == CommentsApart /\ WInv /\ Ending(body) /\ Behind /\ Handing /\ HandedOverOnce

LEMMA TurnFacts ==
  /\ Turn("protocol") = 1 /\ Turn("source") = 2 /\ Turn("source ports") = 3
  /\ Turn("destination") = 4 /\ Turn("destination ports") = 5 /\ Turn("option") = 6
<1>1. DOMAIN Callbacks = 1..6
  BY DEF Callbacks
<1>2. \A i \in 1..6 : i \in {1, 2, 3, 4, 5, 6}
  OBVIOUS
<1>3. /\ Callbacks[1] = "protocol" /\ Callbacks[2] = "source" /\ Callbacks[3] = "source ports"
      /\ Callbacks[4] = "destination" /\ Callbacks[5] = "destination ports" /\ Callbacks[6] = "option"
  BY DEF Callbacks
<1>4. 1 \in 1..6 /\ 2 \in 1..6 /\ 3 \in 1..6 /\ 4 \in 1..6 /\ 5 \in 1..6 /\ 6 \in 1..6
  OBVIOUS
<1>5. \A on : Turn(on) = CHOOSE i \in 1..6 : Callbacks[i] = on
  BY <1>1 DEF Turn
<1>6. \A i \in 1..6 : \A k \in 1..6 : Callbacks[i] = Callbacks[k] => i = k
  BY <1>2, <1>3
<1>7. ASSUME NEW k \in 1..6, NEW on, Callbacks[k] = on PROVE Turn(on) = k
  <2>1. Turn(on) \in 1..6 /\ Callbacks[Turn(on)] = on
    BY <1>5, <1>7
  <2> QED
    BY <1>6, <1>7, <2>1
<1> QED
  BY <1>3, <1>4, <1>7

LEMMA TurnTyped ==
  ASSUME NEW on \in On
  PROVE  Turn(on) \in Nat
<1>1. Turn(on) \in {1, 2, 3, 4, 5, 6}
  BY TurnFacts DEF On
<1> QED
  BY <1>1

LEMMA TurnNowTyped ==
  /\ TurnNow \in Nat
  /\ TurnNow' \in Nat
<1>1. TurnNow \in {1, 2, 3, 4, 5, 6} /\ TurnNow' \in {1, 2, 3, 4, 5, 6}
  BY DEF TurnNow
<1> QED
  BY <1>1

\* Where the parsers go, they leave no comment and no end behind.
Moves(w) == at' <= at \/ (at' = at + 1 /\ w \in PlainWords)

LEMMA NameIsPlain ==
  ASSUME NEW name \in DOMAIN Dictionary \cup {"end"}, ByName(name) \in PlainWords
  PROVE  name \in PlainNames
<1>1. CASE name = "end"
  <2>1. End \in Words
    BY <1>1 DEF ByName, PlainWords
  <2>2. End.name = "end"
    BY DEF End
  <2>3. "end" \in DOMAIN Dictionary
    BY <2>1, <2>2, WordFacts
  <2> QED
    BY <2>3, WordsAssumption
<1>2. CASE name # "end"
  BY <1>2 DEF PlainNames, PlainWords
<1> QED
  BY <1>1, <1>2

LEMMA BodyEnds ==
  ASSUME WInv, Ending(body), Behind, NEW w \in Words \cup {End}, Look(w), Looked(w)
  PROVE  Ending(body')
<1>1. PICK n \in Nat, k \in Nat : n = Len(body) /\ k = at /\ k <= n + 1 /\ body \in Texts
  <2>1. body \in Texts /\ at \in Nat /\ at <= Len(body) + 1
    BY DEF WInv, IInv, StateOK, Placed
  <2> QED
    BY <2>1, LenProperties DEF Texts
<1>2. CASE k <= n
  BY <1>1, <1>2 DEF Look
<1>3. CASE ~(k <= n)
  <2>1. k - 1 = n
    <3>1. \A a, b \in Nat : a <= b + 1 /\ ~(a <= b) => a - 1 = b
      OBVIOUS
    <3> QED
      BY <1>1, <1>3, <3>1
  <2>2. \A i \in 1..n : body[i] \in PlainNames
    BY <1>1, <2>1 DEF Behind
  <2>3. body' = Append(body, w.name)
    BY <1>1, <1>3 DEF Look
  <2>4. Len(body') = n + 1 /\ \A i \in 1..n : body'[i] = body[i]
    BY <1>1, <2>3, AppendProperties DEF Texts
  <2>5. \A i \in 1..(n + 1) : i = n + 1 \/ i \in 1..n
    BY <1>1
  <2> QED
    BY <2>2, <2>4, <2>5 DEF Ending
<1> QED
  BY <1>2, <1>3

LEMMA BehindStays ==
  ASSUME WInv, IInv', Behind, NEW w, Looked(w), Moves(w)
  PROVE  Behind'
<1>1. PICK n \in Nat, i \in Nat, j \in Nat :
        n = Len(body) /\ i = at /\ j = at' /\ i <= n + 1
  <2>1. body \in Texts /\ at \in Nat /\ at <= Len(body) + 1 /\ at' \in Nat
    BY DEF WInv, IInv, StateOK, Placed
  <2> QED
    BY <2>1, LenProperties DEF Texts
<1>2. ASSUME NEW k \in 1..(i - 1) PROVE body'[k] \in PlainNames
  <2>1. k \in 1..n
    BY <1>1
  <2> QED
    BY <1>1, <2>1 DEF Behind, Looked
<1>3. CASE j <= i
  <2>1. \A k \in 1..(j - 1) : k \in 1..(i - 1)
    <3>1. \A x, y \in Nat : x <= y => \A k \in 1..(x - 1) : k \in 1..(y - 1)
      OBVIOUS
    <3> QED
      BY <1>1, <1>3, <3>1
  <2> QED
    BY <1>1, <1>2, <2>1 DEF Behind
<1>4. CASE j = i + 1 /\ w \in PlainWords
  <2>1. \A k \in 1..(j - 1) : k \in 1..(i - 1) \/ k = i
    <3>1. \A x \in Nat : \A k \in 1..(x + 1 - 1) : k \in 1..(x - 1) \/ k = x
      OBVIOUS
    <3> QED
      BY <1>1, <1>4, <3>1
  <2>2. body'[i] \in DOMAIN Dictionary \cup {"end"}
    <3>1. i \in 1..Len(body') /\ body' \in Seq(DOMAIN Dictionary \cup {"end"})
      BY <1>1 DEF Looked, Texts
    <3> QED
      BY <3>1, ElementOfSeq
  <2>3. ByName(body'[i]) \in PlainWords
    BY <1>1, <1>4 DEF Looked
  <2>4. body'[i] \in PlainNames
    BY <2>2, <2>3, NameIsPlain
  <2> QED
    BY <1>1, <1>2, <2>1, <2>4 DEF Behind
<1> QED
  BY <1>1, <1>3, <1>4 DEF Moves

-----------------------------------------------------------------------------
(* What a step hands over.                                                 *)

Errs == verdict' \notin {"none", "accepted"}
Early == verdict' = "none" /\ pass' \notin {"group", "real"}
Begins ==
  /\ verdict' = "none" /\ pass' = "real" /\ at' = 1
  /\ \A i \in DOMAIN pushed' : pushed'[i].at = 0
  /\ Sides'
Goes(w) ==
  /\ verdict' = "none" /\ pushed' = pushed /\ {pass, pass'} \subseteq {"group", "real"}
  /\ \/ Frontier' = Frontier
     \/ pass = "real" /\ Frontier' = Frontier + 1 /\ w.text # "other"
  /\ TurnNow <= TurnNow'
  /\ AfterSource' => AfterSource
  /\ AfterDestination' => AfterDestination
Hands(on, w) ==
  /\ verdict' = "none" /\ w \in Words /\ pushed' = Append(pushed, Token(on, w))
  /\ pass = "real" /\ pass' = "real" /\ at' = at + 1
  /\ TurnNow <= Turn(on) /\ Turn(on) <= TurnNow'
  /\ AfterSource' => AfterSource \/ on = "source"
  /\ AfterDestination' => AfterDestination \/ on = "destination"
Dooms == verdict' = "none" /\ Doomed'
Accepts(w) ==
  /\ verdict' = "accepted" /\ pass = "real" /\ place = "options"
  /\ \/ w = End /\ pushed' = pushed
     \/ w \in Words /\ w.option = "comment" /\ pushed' = Append(pushed, Token("option", w))

Handover(w) ==
  Errs \/ Early \/ Begins \/ Goes(w) \/ (\E on \in On : Hands(on, w)) \/ Dooms \/ Accepts(w)

\* The words settled are those they were.
LEMMA SettledStay ==
  ASSUME WInv, NEW w, Looked(w), pass \in {"group", "real"}
  PROVE  \E f \in Nat : /\ f = Frontier /\ f <= at
                        /\ \A i \in 1..(f - 1) : WordAt(i) = ByName(body'[i])
<1>1. at \in Nat /\ resume \in Nat /\ at <= Len(body) + 1 /\ resume <= Len(body) /\ Len(body) \in Nat
  BY LenProperties DEF WInv, IInv, StateOK, Placed, Texts
<1>2. pass = "group" => resume = at \/ at > resume
  BY DEF WInv, Tried, TriedAt
<1>3. PICK f \in Nat : f = Frontier /\ f <= at
  <2>1. resume = at \/ at > resume => resume <= at
    BY <1>1
  <2>2. at <= at
    BY <1>1
  <2> QED
    BY <1>1, <1>2, <2>1, <2>2 DEF Frontier
<1>4. \A i \in 1..(f - 1) : i \in 1..Len(body)
  BY <1>1, <1>3
<1> QED
  BY <1>3, <1>4 DEF Looked, WordAt

LEMMA SidesStay ==
  ASSUME rule' = rule, Sides, \A on : Has(on) => Has(on)',
         AfterSource' => AfterSource \/ Has("source")',
         AfterDestination' => AfterDestination \/ Has("destination")'
  PROVE  Sides'
BY DEF Sides

LEMMA GoesKeeps ==
  ASSUME WInv, IInv', NEW w, Looked(w), rule' = rule, Going, Goes(w)
  PROVE  Going'
<1>1. PICK f \in Nat : /\ f = Frontier /\ f <= at
                       /\ \A i \in 1..(f - 1) : WordAt(i) = ByName(body'[i])
  BY SettledStay DEF Goes
<1>2. /\ Handed' = Handed /\ pushed' = pushed /\ \A on : Has(on)' <=> Has(on)
  BY DEF Goes, Handed, Has
<1>3. PICK g \in Nat : g = Frontier' /\ (g = f \/ (g = f + 1 /\ pass = "real" /\ w.text # "other"))
  BY <1>1 DEF Goes
<1>4. InOrder'
  BY <1>2 DEF Going, InOrder
<1>5. Preceding'
  <2> SUFFICES ASSUME NEW i \in Handed
               PROVE  pushed[i].at < g /\ Turn(pushed[i].on) <= TurnNow'
    BY <1>2, <1>3 DEF Preceding
  <2>1. pushed[i] \in TokenType
    <3>1. i \in DOMAIN pushed /\ pushed \in Seq(TokenType)
      BY DEF Handed, WInv, IInv, StateOK
    <3> QED
      BY <3>1, ElementOfSeq, LenProperties
  <2>2. PICK a \in Nat, t \in Nat : a = pushed[i].at /\ t = Turn(pushed[i].on)
    BY <2>1, TurnTyped DEF TokenType
  <2>3. a < f /\ t <= TurnNow
    BY <1>1, <2>2 DEF Going, Preceding
  <2>4. PICK now \in Nat, next \in Nat : now = TurnNow /\ next = TurnNow' /\ now <= next
    BY TurnNowTyped DEF Goes
  <2>5. a < g /\ t <= next
    BY <1>3, <2>3, <2>4
  <2> QED
    BY <2>2, <2>4, <2>5
<1>6. Covered'
  <2> SUFFICES ASSUME NEW i \in 1..(g - 1), ByName(body'[i]).text = "other"
               PROVE  \E j \in Handed : pushed[j].at = i
    BY <1>2, <1>3 DEF Covered, WordAt
  <2>1. CASE i \in 1..(f - 1)
    BY <1>1, <2>1 DEF Going, Covered
  <2>2. CASE i \notin 1..(f - 1)
    <3>1. i = f /\ g = f + 1
      <4>1. \A x, y \in Nat : \A k \in 1..(y - 1) : k \notin 1..(x - 1) /\ (y = x \/ y = x + 1) => k = x /\ y = x + 1
        OBVIOUS
      <4> QED
        BY <1>3, <2>2, <4>1
    <3>2. f = at
      BY <1>1, <1>3, <3>1 DEF Frontier
    <3> QED
      BY <1>3, <3>1, <3>2 DEF Looked
  <2> QED
    BY <2>1, <2>2
<1>7. Sides'
  <2>1. Sides
    BY DEF Going
  <2> QED
    BY <1>2, <2>1, SidesStay DEF Goes
<1> QED
  BY <1>4, <1>5, <1>6, <1>7 DEF Going

\* One token more.
LEMMA OneMore ==
  ASSUME WInv, NEW w \in Words, NEW on \in On, pushed' = Append(pushed, Token(on, w))
  PROVE  \E n \in Nat :
           /\ n = Len(pushed) /\ DOMAIN pushed = 1..n /\ DOMAIN pushed' = 1..(n + 1)
           /\ \A i \in 1..n : pushed'[i] = pushed[i]
           /\ pushed'[n + 1].on = on /\ pushed'[n + 1].at = at
           /\ Handed \subseteq 1..n /\ Handed' = Handed \cup {n + 1}
<1>1. at \in Nat \ {0} /\ blocks \in Nat /\ pattern \in Nat /\ pushed \in Seq(TokenType)
  BY DEF WInv, IInv, StateOK
<1>2. PICK token \in TokenType : token = Token(on, w) /\ token.on = on /\ token.at = at
  BY <1>1, TokenFacts
<1>3. PICK n \in Nat : n = Len(pushed) /\ DOMAIN pushed = 1..n /\ DOMAIN pushed' = 1..(n + 1)
        /\ pushed'[n + 1] = token /\ \A i \in 1..n : pushed'[i] = pushed[i]
  BY <1>1, <1>2, LenProperties, AppendProperties
<1>4. \A i : i \in 1..(n + 1) <=> i \in 1..n \/ i = n + 1
  BY <1>3
<1>5. Handed \subseteq 1..n
  BY <1>3 DEF Handed
<1>6. Handed' = Handed \cup {n + 1}
  BY <1>1, <1>2, <1>3, <1>4 DEF Handed
<1> QED
  BY <1>2, <1>3, <1>5, <1>6

LEMMA MoreInOrder ==
  ASSUME WInv, InOrder, Preceding, pass = "real", NEW w \in Words, NEW on \in On,
         pushed' = Append(pushed, Token(on, w)), TurnNow <= Turn(on)
  PROVE  InOrder'
<1>1. PICK n \in Nat : /\ Handed \subseteq 1..n /\ Handed' = Handed \cup {n + 1}
                       /\ \A i \in 1..n : pushed'[i] = pushed[i]
                       /\ pushed'[n + 1].on = on /\ pushed'[n + 1].at = at
                       /\ DOMAIN pushed = 1..n
  BY OneMore
<1>2. ASSUME NEW i \in Handed, NEW j \in Handed', i < j
      PROVE  pushed'[i].at < pushed'[j].at /\ Turn(pushed'[i].on) <= Turn(pushed'[j].on)
  <2>1. CASE j \in Handed
    BY <1>1, <1>2, <2>1 DEF InOrder
  <2>2. CASE j = n + 1
    <3>1. pushed[i].at < at /\ Turn(pushed[i].on) <= TurnNow
      BY DEF Preceding, Frontier
    <3>2. Turn(pushed[i].on) <= Turn(on)
      <4>1. pushed[i] \in TokenType
        <5>1. i \in DOMAIN pushed /\ pushed \in Seq(TokenType)
          BY DEF Handed, WInv, IInv, StateOK
        <5> QED
          BY <5>1, ElementOfSeq, LenProperties
      <4>2. PICK t \in Nat, now \in Nat, next \in Nat :
              t = Turn(pushed[i].on) /\ now = TurnNow /\ next = Turn(on)
        BY <4>1, TurnTyped, TurnNowTyped DEF TokenType
      <4>3. t <= now /\ now <= next
        BY <3>1, <4>2
      <4>4. t <= next
        BY <4>3
      <4> QED
        BY <4>2, <4>4
    <3> QED
      BY <1>1, <2>2, <3>1, <3>2
  <2> QED
    BY <1>1, <2>1, <2>2
<1>3. ASSUME NEW j \in Handed' PROVE ~(n + 1 < j)
  <2>1. j \in 1..(n + 1)
    BY <1>1
  <2> QED
    BY <2>1
<1>4. ASSUME NEW i \in Handed', NEW j \in Handed', i < j PROVE i \in Handed
  BY <1>1, <1>3, <1>4
<1>5. ASSUME NEW i \in Handed', NEW j \in Handed', i < j
      PROVE  pushed'[i].at < pushed'[j].at /\ Turn(pushed'[i].on) <= Turn(pushed'[j].on)
  BY <1>2, <1>4, <1>5
<1> QED
  BY <1>5, Zenon DEF InOrder

LEMMA HandsKeeps ==
  ASSUME WInv, IInv', NEW w, Looked(w), rule' = rule, Going, NEW on \in On, Hands(on, w)
  PROVE  Going'
<1>1. PICK f \in Nat : /\ f = Frontier /\ f = at
                       /\ \A i \in 1..(f - 1) : WordAt(i) = ByName(body'[i])
  BY SettledStay DEF Hands, Frontier
<1>2. PICK n \in Nat : /\ Handed \subseteq 1..n /\ Handed' = Handed \cup {n + 1}
                       /\ \A i \in 1..n : pushed'[i] = pushed[i]
                       /\ pushed'[n + 1].on = on /\ pushed'[n + 1].at = f
                       /\ DOMAIN pushed = 1..n /\ DOMAIN pushed' = 1..(n + 1)
  BY <1>1, OneMore DEF Hands
<1>3. PICK g \in Nat : g = Frontier' /\ g = f + 1
  BY <1>1 DEF Hands, Frontier
<1>4. InOrder'
  BY MoreInOrder DEF Going, Hands
<1>5. Preceding'
  <2> SUFFICES ASSUME NEW i \in Handed'
               PROVE  pushed'[i].at < g /\ Turn(pushed'[i].on) <= TurnNow'
    BY <1>3 DEF Preceding
  <2>1. CASE i \in Handed
    <3>1. pushed[i] \in TokenType
      <4>1. i \in DOMAIN pushed /\ pushed \in Seq(TokenType)
        BY <2>1 DEF Handed, WInv, IInv, StateOK
      <4> QED
        BY <4>1, ElementOfSeq, LenProperties
    <3>2. PICK a \in Nat, t \in Nat : a = pushed[i].at /\ t = Turn(pushed[i].on)
      BY <3>1, TurnTyped DEF TokenType
    <3>3. a < f /\ t <= TurnNow
      BY <1>1, <2>1, <3>2 DEF Going, Preceding
    <3>4. PICK now \in Nat, turn \in Nat, next \in Nat :
            /\ now = TurnNow /\ turn = Turn(on) /\ next = TurnNow' /\ now <= turn /\ turn <= next
      BY TurnNowTyped, TurnTyped DEF Hands
    <3>5. a < g /\ t <= next
      BY <1>3, <3>3, <3>4
    <3> QED
      BY <1>2, <2>1, <3>2, <3>4, <3>5
  <2>2. CASE i = n + 1
    <3>1. f < g
      BY <1>3
    <3> QED
      BY <1>2, <2>2, <3>1 DEF Hands
  <2> QED
    BY <1>2, <2>1, <2>2
<1>6. Covered'
  <2> SUFFICES ASSUME NEW i \in 1..(g - 1), ByName(body'[i]).text = "other"
               PROVE  \E j \in Handed' : pushed'[j].at = i
    BY <1>3 DEF Covered, WordAt
  <2>1. CASE i \in 1..(f - 1)
    <3>1. PICK j \in Handed : pushed[j].at = i
      BY <1>1, <2>1 DEF Going, Covered
    <3> QED
      BY <1>2, <3>1
  <2>2. CASE i = f
    BY <1>2, <2>2
  <2>3. i \in 1..(f - 1) \/ i = f
    BY <1>3
  <2> QED
    BY <2>1, <2>2, <2>3
<1>7. Sides'
  <2>1. Has(on)' /\ \A o : Has(o) => Has(o)'
    <3>1. n + 1 \in 1..(n + 1) /\ \A i \in 1..n : i \in 1..(n + 1)
      BY <1>2
    <3> QED
      BY <1>2, <3>1 DEF Has
  <2>2. Sides
    BY DEF Going
  <2> QED
    BY <2>1, <2>2, SidesStay DEF Hands
<1> QED
  BY <1>4, <1>5, <1>6, <1>7 DEF Going

LEMMA BeginsKeeps ==
  ASSUME Begins
  PROVE  Going'
<1>1. \A i \in Handed' : FALSE
  BY DEF Begins, Handed
<1>2. Frontier' = 1
  BY DEF Begins, Frontier
<1>3. \A i \in 1..(1 - 1) : FALSE
  OBVIOUS
<1> QED
  BY <1>1, <1>2, <1>3 DEF Begins, Going, InOrder, Preceding, Covered

\* A body that is accepted ends here.
LEMMA EndsHere ==
  ASSUME CommentsApart, WInv, IInv', NEW w, Looked(w), Ending(body'), w = End \/ w.option = "comment",
         NEW i \in 1..Len(body'), ByName(body'[i]).text = "other"
  PROVE  i \in 1..(at - 1) \/ (i = at /\ w # End)
<1>1. PICK n \in Nat, a \in Nat : n = Len(body') /\ a = at /\ a \in 1..n /\ w = ByName(body'[a])
  BY LenProperties DEF Looked, Texts
<1>2. body'[a] \notin PlainNames
  <2>1. ByName("end") = End /\ End.option = "unknown"
    BY DEF ByName, End
  <2>2. w = End => body'[a] \notin PlainNames
    <3> SUFFICES ASSUME w = End, body'[a] \in PlainNames PROVE FALSE
      OBVIOUS
    <3>1. PICK name \in DOMAIN Dictionary : name = body'[a]
      BY DEF PlainNames
    <3>2. ByName(name).name = name /\ ByName(name) = End
      BY <1>1, <3>1, ByNameFacts
    <3>3. name = "end"
      <4>1. End.name = "end"
        BY DEF End
      <4> QED
        BY <3>2, <4>1
    <3> QED
      BY <3>1, <3>3, WordsAssumption
  <2>3. w.option = "comment" => body'[a] \notin PlainNames
    <3>1. w \in Words /\ w.option = "comment" => ~w.target
      BY DEF CommentsApart
    <3>2. body'[a] \in DOMAIN Dictionary => w \in Words
      BY <1>1, ByNameFacts
    <3> QED
      BY <1>1, <3>1, <3>2 DEF PlainNames
  <2> QED
    BY <2>2, <2>3
<1>3. \/ a = n
      \/ a + 1 = n /\ body'[a + 1] = "end"
  BY <1>1, <1>2 DEF Ending
<1>4. End.text # "other" /\ ByName("end") = End
  BY DEF End, ByName
<1>5. CASE i = a
  BY <1>1, <1>4, <1>5
<1>6. CASE i # a
  <2>1. i # a + 1 \/ a = n
    BY <1>3, <1>4
  <2>2. i \in 1..n
    BY <1>1
  <2>3. i \in 1..(a - 1)
    BY <1>1, <1>3, <1>6, <2>1, <2>2
  <2> QED
    BY <1>1, <2>3
<1> QED
  BY <1>5, <1>6

LEMMA AcceptsKeeps ==
  ASSUME CommentsApart, WInv, IInv', NEW w, Looked(w), Ending(body'), rule' = rule, Going, Accepts(w)
  PROVE  HandedOverOnce'
<1>1. PICK f \in Nat : /\ f = Frontier /\ f = at
                       /\ \A i \in 1..(f - 1) : WordAt(i) = ByName(body'[i])
  BY SettledStay DEF Accepts, Frontier
<1>2. PICK n \in Nat : n = Len(body') /\ DOMAIN body' = 1..n
  BY LenProperties DEF Looked, Texts
<1>3. AfterSource /\ AfterDestination
  BY DEF Accepts, AfterSource, AfterDestination
<1>4. /\ InOrder'
      /\ Handed \subseteq Handed' /\ \A j \in Handed : pushed'[j] = pushed[j]
      /\ \A on : Has(on) => Has(on)'
      /\ w # End => \E j \in Handed' : pushed'[j].at = f
  <2>1. CASE w = End /\ pushed' = pushed
    BY <2>1 DEF Going, InOrder, Handed, Has
  <2>2. CASE w \in Words /\ w.option = "comment" /\ pushed' = Append(pushed, Token("option", w))
    <3>1. "option" \in On
      BY DEF On
    <3>2. TurnNow <= Turn("option")
      <4>1. TurnNow = 6
        BY DEF TurnNow, Accepts
      <4>2. 6 <= 6
        OBVIOUS
      <4> QED
        BY <4>1, <4>2, TurnFacts
    <3>3. PICK m \in Nat : /\ Handed \subseteq 1..m /\ Handed' = Handed \cup {m + 1}
                           /\ \A i \in 1..m : pushed'[i] = pushed[i]
                           /\ pushed'[m + 1].at = f
                           /\ DOMAIN pushed = 1..m /\ DOMAIN pushed' = 1..(m + 1)
      BY <1>1, <2>2, <3>1, OneMore
    <3>4. InOrder'
      BY <2>2, <3>1, <3>2, MoreInOrder DEF Going, Accepts
    <3>5. \A on : Has(on) => Has(on)'
      <4>1. \A i \in 1..m : i \in 1..(m + 1)
        BY <3>3
      <4> QED
        BY <3>3, <4>1 DEF Has
    <3> QED
      BY <3>3, <3>4, <3>5
  <2> QED
    BY <2>1, <2>2 DEF Accepts
<1>5. ASSUME NEW i \in 1..n, ByName(body'[i]).text = "other"
      PROVE  \E j \in Handed' : pushed'[j].at = i
  <2>1. i \in 1..(f - 1) \/ (i = f /\ w # End)
    BY <1>1, <1>2, <1>5, EndsHere DEF Accepts
  <2>2. CASE i \in 1..(f - 1)
    <3>1. PICK j \in Handed : pushed[j].at = i
      BY <1>1, <1>5, <2>2 DEF Going, Covered
    <3> QED
      BY <1>4, <3>1
  <2> QED
    BY <1>4, <2>1, <2>2
<1>6. rule' # "check-state" => Has("source")' /\ Has("destination")'
  BY <1>3, <1>4 DEF Going, Sides
<1>7. rule' # "check-state" => {"source", "destination"} \subseteq {pushed'[i].on : i \in DOMAIN pushed'}
  BY <1>6 DEF Has
<1> QED
  BY <1>2, <1>4, <1>5, <1>7 DEF HandedOverOnce, InOrder, WordAt

\* What a step hands over keeps what is said of it.
LEMMA HandoverKeeps ==
  ASSUME CommentsApart, WInv, IInv', Ending(body'), Handing, verdict = "none", NEW w, Looked(w), rule' = rule,
         Handover(w), Doomed => Errs
  PROVE  Handing' /\ HandedOverOnce'
<1>1. CASE Errs
  BY <1>1 DEF Errs, Handing, HandedOverOnce
<1>2. ASSUME verdict' = "none", pass' \in {"group", "real"} => Doomed' \/ Going'
      PROVE  Handing' /\ HandedOverOnce'
  BY <1>2 DEF Handing, HandedOverOnce
<1>3. ASSUME ~Errs, pass \in {"group", "real"} PROVE Going
  BY <1>3 DEF Handing
<1>4. CASE Early
  BY <1>2, <1>4 DEF Early
<1>5. CASE Begins
  BY <1>2, <1>5, BeginsKeeps DEF Begins
<1>6. CASE Goes(w)
  <2>1. verdict' = "none" /\ ~Errs /\ pass \in {"group", "real"}
    BY <1>6 DEF Goes, Errs
  <2> QED
    BY <1>2, <1>3, <1>6, <2>1, GoesKeeps
<1>7. ASSUME NEW on \in On, Hands(on, w) PROVE Handing' /\ HandedOverOnce'
  <2>1. verdict' = "none" /\ ~Errs /\ pass \in {"group", "real"}
    BY <1>7 DEF Hands, Errs
  <2> QED
    BY <1>2, <1>3, <1>7, <2>1, HandsKeeps
<1>8. CASE Dooms
  BY <1>2, <1>8 DEF Dooms
<1>9. CASE Accepts(w)
  <2>1. verdict' = "accepted" /\ ~Errs /\ pass \in {"group", "real"}
    BY <1>9 DEF Accepts, Errs
  <2>2. HandedOverOnce'
    BY <1>3, <1>9, <2>1, AcceptsKeeps
  <2> QED
    BY <2>1, <2>2 DEF Handing
<1> QED
  BY <1>1, <1>4, <1>5, <1>6, <1>7, <1>8, <1>9 DEF Handover

-----------------------------------------------------------------------------
(* What every action hands over.                                           *)

Does(w) == Moves(w) /\ Handover(w)

LEMMA EndIsNone == End.text = "end" /\ End.option = "unknown"
BY DEF End

LEMMA PlainWord ==
  ASSUME NEW w \in Words \cup {End},
         \/ w.text \in {"from", "to", "{", "or", "}"} \/ w.proto \/ w.target \/ w.port # "none"
         \/ OptionOf(w) # "unknown" /\ w.option # "comment"
  PROVE  w \in PlainWords
<1>1. End.text = "end" /\ ~End.proto /\ ~End.target /\ End.port = "none" /\ End.option = "unknown"
  BY EndIsNone, NoEndFits
<1>2. w \in Words
  <2>1. OptionOf(End) = "unknown"
    BY <1>1 DEF OptionOf
  <2> QED
    BY <1>1, <2>1
<1>3. w.option # "comment" \/ w.target
  <2>1. w.text \in {"from", "to", "{", "or", "}"} => w.option = "unknown"
    BY <1>2, WordsAssumption
  <2> QED
    BY <1>2, <2>1, WordsAssumption
<1> QED
  BY <1>2, <1>3 DEF PlainWords

\* Of the turns of two parts.
LEMMA Ordered ==
  /\ 1 <= 1 /\ 1 <= 2 /\ 2 <= 2 /\ 2 <= 3 /\ 3 <= 3 /\ 3 <= 4 /\ 4 <= 4
  /\ 4 <= 5 /\ 4 <= 6 /\ 5 <= 5 /\ 5 <= 6 /\ 6 <= 6
OBVIOUS

\* Back to the first word, or at the same.
LEMMA NotPast ==
  ASSUME WInv, NEW w, at' \in {1, at}
  PROVE  Moves(w)
<1>1. at \in Nat \ {0}
  BY DEF WInv, IInv, StateOK
<1> QED
  BY <1>1 DEF Moves

LEMMA NothingYet ==
  ASSUME WInv, pass \notin {"group", "real"}
  PROVE  pushed = <<>> /\ resume = 0
BY DEF WInv, IInv, Parts

LEMMA EarlyDoes ==
  ASSUME WInv, NEW w, verdict = "none", verdict' = verdict, pass' \notin {"group", "real"}, Moves(w)
  PROVE  Does(w)
BY DEF Does, Handover, Early

LEMMA ErrsDoes ==
  ASSUME WInv, NEW w, Errs, at' = at
  PROVE  Does(w)
BY NotPast DEF Does, Handover

LEMMA ProbeDoes ==
  ASSUME WInv, NEW w, verdict = "none", NEW for \in {"header", "start"}, NEW part, Probe(for, part)
  PROVE  Does(w)
<1>1. at' = 1 /\ pass' = for /\ verdict' = verdict
  BY DEF Probe, From
<1> QED
  BY <1>1, NotPast, EarlyDoes

LEMMA LegacyDoes ==
  ASSUME WInv, NEW w, verdict = "none", pass \notin {"group", "real"}, Legacy
  PROVE  Does(w)
<1>1. /\ at' = 1 /\ pass' = "real" /\ place' = "protocols" /\ group' = "first"
      /\ pushed' = <<>> /\ verdict' = "none"
  BY NothingYet DEF Legacy, From
<1>2. Sides'
  BY <1>1 DEF Sides, AfterSource, AfterDestination
<1>3. \A i \in DOMAIN pushed' : pushed'[i].at = 0
  BY <1>1
<1> QED
  BY <1>1, <1>2, <1>3, NotPast DEF Does, Handover, Begins

LEMMA AnyDoes ==
  ASSUME WInv, NEW w, verdict = "none", pass \notin {"group", "real"}, NEW found, ImplicitAny(found)
  PROVE  Does(w)
<1>1. at' = 1 /\ pass' = "real" /\ pushed = <<>>
  BY NothingYet DEF ImplicitAny, From
<1>2. CASE verdict' = "refused"
  BY <1>1, <1>2, NotPast DEF Does, Handover, Errs
<1>3. CASE pushed' = pushed \o <<AnyOn("source"), AnyOn("destination")>> /\ verdict' = verdict
  <2>1. \A a, b : <<>> \o <<a, b>> = <<a, b>>
    OBVIOUS
  <2>2. \A a, b : LET s == <<a, b>> IN DOMAIN s = {1, 2} /\ s[1] = a /\ s[2] = b
    OBVIOUS
  <2>3. DOMAIN pushed' = {1, 2} /\ pushed'[1] = AnyOn("source") /\ pushed'[2] = AnyOn("destination")
    BY <1>1, <1>3, <2>1, <2>2
  <2>4. /\ AnyOn("source").at = 0 /\ AnyOn("source").on = "source"
        /\ AnyOn("destination").at = 0 /\ AnyOn("destination").on = "destination"
    BY DEF AnyOn
  <2>5. Has("source")' /\ Has("destination")'
    BY <2>3, <2>4 DEF Has
  <2>6. Begins
    BY <1>1, <1>3, <2>3, <2>4, <2>5 DEF Begins, Sides
  <2> QED
    BY <1>1, <2>6, NotPast DEF Does, Handover
<1> QED
  BY <1>2, <1>3 DEF ImplicitAny

\* A pass that ends: the next begins, or the rule is rejected.
LEMMA EndedDoes ==
  ASSUME WInv, NEW w, verdict = "none", pass # "choice", NEW outcome, Ended(outcome),
         pass = "real" => outcome \notin {"none", "accepted"}
  PROVE  Does(w)
<1>1. pass \in {"header", "start", "group", "real"}
  BY DEF WInv, IInv, StateOK, Pass
<1>2. CASE pass \in {"header", "start"}
  <2>1. Legacy \/ Probe("start", "options") \/ Probe("header", "protocols") \/ ImplicitAny("native")
    BY <1>2 DEF Ended, Started, Native
  <2> QED
    BY <1>2, <2>1, LegacyDoes, ProbeDoes, AnyDoes
<1>3. CASE pass = "group"
  <2>1. /\ pass' = "real" /\ at' = resume /\ place' \in {"destination ports", "options"}
        /\ pushed' = pushed /\ verdict' = verdict /\ resume' = resume
    BY <1>3 DEF Ended, From
  <2>2. at' <= at
    <3>1. resume = at \/ at > resume
      BY <1>3 DEF WInv, Tried, TriedAt
    <3>2. at \in Nat /\ resume \in Nat
      BY DEF WInv, IInv, StateOK
    <3>3. at' = resume
      BY <2>1
    <3> QED
      BY <3>1, <3>2, <3>3
  <2>3. TurnNow <= TurnNow'
    BY <1>3, <2>1, Ordered DEF TurnNow
  <2>4. AfterSource /\ AfterDestination
    BY <1>3 DEF WInv, IInv, Parts, AfterSource, AfterDestination
  <2>5. Goes(w)
    BY <1>3, <2>1, <2>3, <2>4 DEF Goes, Frontier
  <2> QED
    BY <2>2, <2>5 DEF Does, Handover, Moves
<1>4. CASE pass = "real"
  <2>1. verdict' = outcome /\ at' = at
    BY <1>4 DEF Ended
  <2> QED
    BY <1>4, <2>1, ErrsDoes DEF Errs
<1> QED
  BY <1>1, <1>2, <1>3, <1>4

LEMMA InstructionDoes ==
  ASSUME WInv, NEW w, verdict = "none", rule' = rule, Instruction(w)
  PROVE  Does(w)
<1>1. pass = "choice" /\ pushed = <<>>
  BY NothingYet DEF WInv, IInv, Parts, Instruction
<1>2. \/ From(1, "body") /\ UNCHANGED <<choice, pushed, verdict>>
      \/ ImplicitAny("comment only")
      \/ rule = "check-state" /\ pass' = "real" /\ From(1, "options") /\ UNCHANGED <<pushed, verdict>>
      \/ verdict' = "syntax" /\ at' = at
  BY DEF Instruction
<1>3. CASE From(1, "body") /\ UNCHANGED <<choice, pushed, verdict>>
  <2>1. at' = 1 /\ pass' = "choice"
    BY <1>1, <1>3 DEF From, choice
  <2> QED
    BY <1>3, <2>1, NotPast, EarlyDoes
<1>4. CASE rule = "check-state" /\ pass' = "real" /\ From(1, "options") /\ UNCHANGED <<pushed, verdict>>
  <2>1. at' = 1 /\ \A i \in DOMAIN pushed' : FALSE
    BY <1>1, <1>4 DEF From
  <2>2. Begins
    BY <1>4, <2>1 DEF Begins, Sides
  <2> QED
    BY <2>1, <2>2, NotPast DEF Does, Handover
<1>5. CASE verdict' = "syntax" /\ at' = at
  BY <1>5, ErrsDoes DEF Errs
<1> QED
  BY <1>1, <1>2, <1>3, <1>4, <1>5, AnyDoes

LEMMA ChooseDoes ==
  ASSUME WInv, NEW w \in Words \cup {End}, verdict = "none", Choose(w) \/ ChooseByMember(w)
  PROVE  Does(w)
<1>1. pass = "choice"
  BY DEF Choose, ChooseByMember
<1>2. \/ verdict' = "no body" /\ at' = at
      \/ w.text = "{" /\ Past("first protocol", "first") /\ UNCHANGED <<choice, verdict>>
      \/ Legacy \/ ImplicitAny("native") \/ Probe("header", "protocols") \/ Probe("start", "options")
  BY DEF Choose, ChooseByMember, FirstProbe, Native
<1>3. CASE verdict' = "no body" /\ at' = at
  BY <1>3, ErrsDoes DEF Errs
<1>4. CASE w.text = "{" /\ Past("first protocol", "first") /\ UNCHANGED <<choice, verdict>>
  <2>1. Moves(w)
    BY <1>4, PlainWord DEF Moves, Past
  <2> QED
    BY <1>1, <1>4, <2>1, EarlyDoes DEF choice
<1> QED
  BY <1>1, <1>2, <1>3, <1>4, LegacyDoes, AnyDoes, ProbeDoes

\* Between two words of the header or of the rule, no token is handed over.
LEMMA GoesDoes ==
  ASSUME WInv, NEW w, Goes(w), Moves(w)
  PROVE  Does(w)
BY DEF Does, Handover

LEMMA HandsDoes ==
  ASSUME WInv, NEW w, NEW on \in On, Hands(on, w), w \in PlainWords
  PROVE  Does(w)
BY DEF Does, Handover, Hands, Moves

LEMMA OpenGroupDoes ==
  ASSUME WInv, NEW w \in Words \cup {End}, verdict = "none", OpenGroup(w)
  PROVE  Does(w)
<1>1. /\ w.text = "{" /\ at' = at + 1 /\ place' = place /\ group' = "member"
      /\ pass' = pass /\ resume' = resume /\ pushed' = pushed /\ verdict' = verdict
  BY DEF OpenGroup, Past, choice
<1>2. Moves(w)
  BY <1>1, PlainWord DEF Moves
<1>3. CASE pass \notin {"group", "real"}
  BY <1>1, <1>2, <1>3, EarlyDoes
<1>4. CASE pass \in {"group", "real"}
  <2>1. TurnNow <= TurnNow'
    <3>1. TurnNow' = TurnNow
      BY <1>1 DEF TurnNow
    <3>2. \A t \in Nat : t <= t
      OBVIOUS
    <3> QED
      BY <3>1, <3>2, TurnNowTyped
  <2>2. (AfterSource' => AfterSource) /\ (AfterDestination' => AfterDestination)
    BY <1>1 DEF AfterSource, AfterDestination
  <2>3. Goes(w)
    BY <1>1, <1>4, <2>1, <2>2 DEF Goes, Frontier
  <2> QED
    BY <1>2, <2>3, GoesDoes
<1> QED
  BY <1>3, <1>4

LEMMA ElementDoes ==
  ASSUME WInv, NEW w \in Words \cup {End}, verdict = "none", Element(w)
  PROVE  Does(w)
<1>1. place \in Listed /\ pass \in {"header", "real"}
  BY PartOf DEF WInv, Element, Header
<1>2. CASE Fails("syntax") \/ Fails("refused")
  BY <1>1, <1>2, EndedDoes DEF Fails
<1>3. CASE /\ Fits(w) /\ Push(Callback, w) /\ UNCHANGED <<choice, verdict>>
           /\ Past(place, "separator") \/ Past(After(place), "first")
  <2>1. w \in PlainWords
    BY <1>3, PlainWord DEF Fits
  <2>2. at' = at + 1 /\ pass' = pass /\ resume' = resume
    BY <1>3 DEF Past, choice
  <2>3. CASE pass = "header"
    BY <1>3, <2>1, <2>2, <2>3, EarlyDoes DEF Moves
  <2>4. CASE pass = "real"
    <3>1. Callback \in On /\ w \in Words
      BY <1>1, <2>1 DEF Callback, Listed, On, PlainWords
    <3>2. \/ place = "protocols" /\ Callback = "protocol" /\ place' \in {"protocols", "from"}
          \/ place = "source" /\ Callback = "source" /\ place' \in {"source", "to"}
          \/ place = "destination" /\ Callback = "destination" /\ place' \in {"destination", "trailing"}
      BY <1>1, <1>3 DEF Callback, Listed, Past, After
    <3>3. TurnNow <= Turn(Callback) /\ Turn(Callback) <= TurnNow'
      <4>1. \/ TurnNow = 1 /\ Turn(Callback) = 1 /\ TurnNow' = 1
            \/ TurnNow = 2 /\ Turn(Callback) = 2 /\ TurnNow' \in {2, 3}
            \/ TurnNow = 4 /\ Turn(Callback) = 4 /\ TurnNow' = 4
        BY <2>2, <2>4, <3>2, TurnFacts DEF TurnNow
      <4> QED
        BY <4>1
    <3>4. /\ AfterSource' => AfterSource \/ Callback = "source"
          /\ AfterDestination' => AfterDestination \/ Callback = "destination"
      BY <3>2 DEF AfterSource, AfterDestination
    <3>5. Hands(Callback, w)
      BY <1>3, <2>2, <2>4, <3>1, <3>3, <3>4 DEF Hands, Push, ToState
    <3> QED
      BY <2>1, <3>1, <3>5, HandsDoes
  <2> QED
    BY <1>1, <2>3, <2>4
<1> QED
  BY <1>2, <1>3 DEF Element

LEMMA SeparatorDoes ==
  ASSUME WInv, NEW w \in Words \cup {End}, verdict = "none", Separator(w)
  PROVE  Does(w)
<1>1. place \in Listed \cup {"options"} /\ group = "separator" /\ pass # "choice"
  BY PartOf DEF WInv, Separator, Header
<1>2. place \in Listed => pass \in {"header", "real"}
  BY PartOf DEF WInv, Header
<1>3. CASE Fails("syntax")
  BY <1>1, <1>3, EndedDoes DEF Fails
<1>4. CASE Fails("accepted") /\ pass = "group"
  BY <1>1, <1>4, EndedDoes DEF Fails
<1>5. CASE /\ w.text \in {"or", "}"} /\ UNCHANGED <<choice, pushed, verdict>>
           /\ \/ Past(place, "member")
              \/ place \in Listed /\ Past(After(place), "first")
              \/ place = "options" /\ pass = "real" /\ Past("options", "first")
  <2>1. at' = at + 1 /\ pass' = pass /\ resume' = resume
    BY <1>5 DEF Past, choice
  <2>2. Moves(w)
    BY <1>5, <2>1, PlainWord DEF Moves
  <2>3. CASE pass \notin {"group", "real"}
    BY <1>5, <2>1, <2>2, <2>3, EarlyDoes
  <2>4. CASE pass \in {"group", "real"}
    <3>1. \/ place' = place /\ group' = "member"
          \/ place = "protocols" /\ place' = "from" /\ group' = "first" /\ pass = "real"
          \/ place = "source" /\ place' = "to" /\ pass = "real"
          \/ place = "destination" /\ place' = "trailing" /\ pass = "real"
          \/ place = "options" /\ place' = "options"
      BY <1>2, <1>5, <2>4 DEF Past, After, Listed
    <3>2. TurnNow <= TurnNow'
      <4>1. \/ TurnNow' = TurnNow
            \/ TurnNow = 1 /\ TurnNow' = 1
            \/ TurnNow = 2 /\ TurnNow' = 3
            \/ TurnNow = 4 /\ TurnNow' = 4
        BY <2>1, <3>1 DEF TurnNow
      <4>2. \A t \in Nat : t <= t
        OBVIOUS
      <4> QED
        BY <4>1, <4>2, TurnNowTyped
    <3>3. (AfterSource' => AfterSource) /\ (AfterDestination' => AfterDestination)
      BY <1>1, <3>1 DEF AfterSource, AfterDestination
    <3>4. Goes(w)
      BY <1>5, <2>1, <2>4, <3>2, <3>3 DEF Goes, Frontier
    <3> QED
      BY <2>2, <3>4, GoesDoes
  <2> QED
    BY <2>3, <2>4
<1>6. \/ Fails("syntax")
      \/ Fails("accepted") /\ pass = "group"
      \/ /\ w.text \in {"or", "}"} /\ UNCHANGED <<choice, pushed, verdict>>
         /\ \/ Past(place, "member")
            \/ place \in Listed /\ Past(After(place), "first")
            \/ place = "options" /\ pass = "real" /\ Past("options", "first")
  BY <1>1 DEF Separator
<1> QED
  BY <1>3, <1>4, <1>5, <1>6

LEMMA KeywordDoes ==
  ASSUME WInv, NEW w \in Words \cup {End}, verdict = "none", Keyword(w)
  PROVE  Does(w)
<1>1. place \in {"from", "to", "to only"} /\ pass \in {"header", "real"} /\ group = "first"
  BY PartOf DEF WInv, IInv, StateOK, Keyword, Header, Listed
<1>2. /\ UNCHANGED <<choice, verdict>>
      /\ \/ /\ w.text = "from" /\ place = "from" /\ Past("source", "first") /\ pushed' = pushed
         \/ /\ w.text = "to" /\ place # "from" /\ Past("destination", "first") /\ pushed' = pushed
         \/ /\ place = "to" /\ w.port = "ports" /\ Push("source ports", w) /\ Past("to only", "first")
  BY DEF Keyword
<1>3. at' = at + 1 /\ pass' = pass /\ resume' = resume /\ verdict' = "none" /\ group' = "first"
  BY <1>2 DEF Past, choice
<1>4. w \in PlainWords
  BY <1>2, PlainWord
<1>5. Moves(w)
  BY <1>3, <1>4 DEF Moves
<1>6. CASE pass = "header"
  BY <1>3, <1>5, <1>6, EarlyDoes
<1>7. CASE pass = "real" /\ pushed' = pushed
           /\ (\/ w.text = "from" /\ place = "from" /\ place' = "source"
               \/ w.text = "to" /\ place \in {"to", "to only"} /\ place' = "destination")
  <2>1. TurnNow <= TurnNow'
    <3>1. \/ TurnNow = 1 /\ TurnNow' = 2
          \/ TurnNow = 3 /\ TurnNow' = 4
      BY <1>3, <1>7 DEF TurnNow
    <3> QED
      BY <3>1
  <2>2. (AfterSource' => AfterSource) /\ (AfterDestination' => AfterDestination)
    BY <1>3, <1>7 DEF AfterSource, AfterDestination
  <2>3. Goes(w)
    BY <1>3, <1>7, <2>1, <2>2 DEF Goes, Frontier
  <2> QED
    BY <1>5, <2>3, GoesDoes
<1>8. CASE pass = "real" /\ place = "to" /\ Push("source ports", w) /\ place' = "to only"
  <2>1. TurnNow <= Turn("source ports") /\ Turn("source ports") <= TurnNow'
    <3>1. TurnNow = 3 /\ Turn("source ports") = 3 /\ TurnNow' = 3
      BY <1>3, <1>8, TurnFacts DEF TurnNow
    <3> QED
      BY <3>1, Ordered
  <2>2. AfterSource /\ ~AfterDestination'
    BY <1>8 DEF AfterSource, AfterDestination
  <2>3. "source ports" \in On /\ w \in Words
    BY <1>4 DEF On, PlainWords
  <2>4. Hands("source ports", w)
    BY <1>3, <1>8, <2>1, <2>2, <2>3 DEF Hands, Push, ToState
  <2> QED
    BY <1>4, <2>3, <2>4, HandsDoes
<1> QED
  BY <1>1, <1>2, <1>6, <1>7, <1>8 DEF Past

LEMMA NoKeywordDoes ==
  ASSUME WInv, NEW w, verdict = "none", NoKeyword(w)
  PROVE  Does(w)
<1>1. pass # "choice"
  BY PartOf DEF WInv, NoKeyword, Header
<1>2. Ended("syntax") \/ Ended("refused")
  BY DEF NoKeyword, Fails
<1> QED
  BY <1>1, <1>2, EndedDoes

LEMMA TrailingDoes ==
  ASSUME WInv, NEW w, verdict = "none", Trailing(w)
  PROVE  Does(w)
<1>1. place = "trailing" /\ pass \in {"header", "real"}
  BY PartOf DEF WInv, Trailing
<1>2. CASE pass = "header"
  <2>1. Ended("accepted")
    BY <1>2 DEF Trailing, Fails
  <2> QED
    BY <1>2, <2>1, EndedDoes
<1>3. CASE pass = "real"
  <2>1. /\ at' = at /\ place' = "options" /\ group' = "first" /\ pushed' = pushed /\ verdict' = verdict
        /\ \/ pass' = "real"
           \/ pass' = "group" /\ resume' = at
    BY <1>3 DEF Trailing, From, choice
  <2>2. TurnNow <= TurnNow'
    <3>1. TurnNow = 4 /\ TurnNow' \in {4, 6}
      BY <1>1, <1>3, <2>1 DEF TurnNow
    <3> QED
      BY <3>1
  <2>3. AfterSource /\ AfterDestination
    BY <1>1 DEF AfterSource, AfterDestination
  <2>4. Goes(w)
    BY <1>3, <2>1, <2>2, <2>3 DEF Goes, Frontier
  <2> QED
    BY <2>1, <2>4, NotPast, GoesDoes
<1> QED
  BY <1>1, <1>2, <1>3

LEMMA DestinationPortsDoes ==
  ASSUME WInv, NEW w \in Words \cup {End}, verdict = "none", Looked(w), hook' = hook, DestinationPorts(w)
  PROVE  Does(w)
<1>1. place = "destination ports" /\ resume # 0 /\ pass = "real" /\ AfterSource /\ AfterDestination
  BY DEF WInv, IInv, StateOK, Pass, Parts, DestinationPorts, AfterSource, AfterDestination
<1>2. CASE Fails("refused")
  BY <1>1, <1>2, EndedDoes DEF Fails
<1>3. CASE /\ UNCHANGED <<choice, verdict>>
           /\ IF w.port = "none" THEN UNCHANGED pushed ELSE Push("destination ports", w)
           /\ IF w.port = "ports" THEN Past("options", "first") ELSE From(at, "options")
  <2>1. /\ pass' = "real" /\ resume' = resume /\ verdict' = "none" /\ place' = "options" /\ group' = "first"
        /\ w.port # "none" => pushed' = Append(pushed, Token("destination ports", w))
    BY <1>1, <1>3 DEF choice, Past, From, Push, ToState
  <2>2. TurnNow = 5 /\ TurnNow' = 6
    BY <1>1, <2>1 DEF TurnNow
  <2>3. CASE w.port = "none"
    <3>1. at' = at /\ pushed' = pushed
      BY <1>3, <2>3 DEF From
    <3>2. TurnNow <= TurnNow'
      BY <2>2, Ordered
    <3>3. Goes(w)
      BY <1>1, <2>1, <3>1, <3>2 DEF Goes, Frontier
    <3> QED
      BY <3>1, <3>3, NotPast, GoesDoes
  <2>4. CASE w.port = "ports"
    <3>1. at' = at + 1 /\ w \in PlainWords
      BY <1>3, <2>4, PlainWord DEF Past
    <3>2. TurnNow <= Turn("destination ports") /\ Turn("destination ports") <= TurnNow'
      BY <2>2, TurnFacts, Ordered
    <3>3. "destination ports" \in On /\ w \in Words
      BY <3>1 DEF On, PlainWords
    <3>4. Hands("destination ports", w)
      BY <1>1, <2>1, <2>4, <3>1, <3>2, <3>3 DEF Hands
    <3> QED
      BY <3>1, <3>3, <3>4, HandsDoes
  <2>5. CASE w.port \notin {"none", "ports"}
    <3>1. at' = at
      BY <1>3, <2>5 DEF From
    <3>2. OptionOf(w) = "unknown"
      <4>1. at = resume /\ OptionOf(WordAt(resume)) = "unknown"
        BY <1>1 DEF WInv, Tried, TriedAt
      <4> QED
        BY <1>1, <4>1, SameWord
    <3>3. at <= Len(body')
      <4>1. at \in 1..Len(body') /\ Len(body') \in Nat
        BY LenProperties DEF Looked, Texts
      <4> QED
        BY <4>1
    <3>4. WordAt(at)' = w /\ OptionOf(WordAt(at))' = OptionOf(w)
      BY <3>1 DEF WordAt, Looked, OptionOf
    <3>5. Dooms
      BY <2>1, <2>5, <3>1, <3>2, <3>3, <3>4 DEF Dooms, Doomed
    <3> QED
      BY <3>1, <3>5, NotPast DEF Does, Handover
  <2> QED
    BY <2>3, <2>4, <2>5
<1> QED
  BY <1>2, <1>3 DEF DestinationPorts

LEMMA OptionFailsDoes ==
  ASSUME WInv, NEW w \in Words \cup {End}, verdict = "none", OptionFails(w)
  PROVE  Does(w)
<1>1. pass # "choice"
  BY PartOf DEF WInv, OptionFails, ToOption
<1>2. Ended(Outcome(w)) /\ (pass = "real" => Outcome(w) \notin {"none", "accepted"})
  BY OutcomeFacts DEF WInv, OptionFails
<1> QED
  BY <1>1, <1>2, EndedDoes

\* The parts of the options.
LEMMA AmongOptions ==
  ASSUME place = "options"
  PROVE  /\ AfterSource /\ AfterDestination
         /\ pass = "real" => TurnNow <= Turn("option")
         /\ pass' = "real" /\ place' = "options" => Turn("option") <= TurnNow'
<1>1. pass = "real" => TurnNow = 6
  BY DEF TurnNow
<1>2. pass' = "real" /\ place' = "options" => TurnNow' = 6
  BY DEF TurnNow
<1>3. AfterSource /\ AfterDestination
  BY DEF AfterSource, AfterDestination
<1> QED
  BY <1>1, <1>2, <1>3, TurnFacts, Ordered

LEMMA OnOptionDoes ==
  ASSUME WInv, NEW w \in Words \cup {End}, verdict = "none", OnOption(w)
  PROVE  Does(w)
<1>1. place = "options" /\ pass \in {"group", "real"} /\ w.option # "comment" /\ Outcome(w) = "accepted"
  BY PartOf DEF WInv, OnOption, ToOption
<1>2. w \in PlainWords /\ w \in Words
  BY <1>1, OutcomeFacts DEF WInv, PlainWords
<1>3. CASE Ended("accepted") /\ pass = "group"
  BY <1>3, EndedDoes
<1>4. CASE /\ place' = "options" /\ at' = at + 1 /\ UNCHANGED <<choice, verdict>>
           /\ IF pass = "real" THEN pushed' = Append(pushed, Token("option", w)) ELSE pushed' = pushed
  <2>1. pass' = pass /\ resume' = resume
    BY <1>4 DEF choice
  <2>2. CASE pass = "real"
    <3>1. "option" \in On
      BY DEF On
    <3>2. Hands("option", w)
      BY <1>1, <1>2, <1>4, <2>1, <2>2, <3>1, AmongOptions DEF Hands
    <3> QED
      BY <1>2, <3>1, <3>2, HandsDoes
  <2>3. CASE pass = "group"
    <3>1. TurnNow <= TurnNow'
      BY <2>1, <2>3, Ordered DEF TurnNow
    <3>2. Goes(w)
      BY <1>1, <1>4, <2>1, <2>3, <3>1, AmongOptions DEF Goes, Frontier
    <3> QED
      BY <1>2, <1>4, <3>2, GoesDoes DEF Moves
  <2> QED
    BY <1>1, <2>2, <2>3
<1>5. \/ Ended("accepted") /\ pass = "group"
      \/ /\ place' = "options" /\ at' = at + 1 /\ UNCHANGED <<choice, verdict>>
         /\ IF pass = "real" THEN pushed' = Append(pushed, Token("option", w)) ELSE pushed' = pushed
  BY <1>1 DEF OnOption, Push, ToState, Past
<1> QED
  BY <1>3, <1>4, <1>5

LEMMA OnCommentDoes ==
  ASSUME WInv, NEW w \in Words \cup {End}, verdict = "none", OnComment(w)
  PROVE  Does(w)
<1>1. place = "options" /\ w.option = "comment" /\ w \in Words /\ pass # "choice"
  BY OutcomeFacts, PartOf DEF WInv, OnComment, ToOption
<1>2. CASE pass # "real"
  <2>1. Ended("syntax")
    BY <1>2 DEF OnComment, ToState, Fails
  <2> QED
    BY <1>1, <1>2, <2>1, EndedDoes
<1>3. CASE pass = "real"
  <2>1. /\ pushed' = Append(pushed, Token("option", w)) /\ at' = at
        /\ verdict' \in {"syntax", "accepted"}
    BY <1>3 DEF OnComment, ToState
  <2>2. CASE verdict' = "syntax"
    BY <2>1, <2>2, ErrsDoes DEF Errs
  <2>3. CASE verdict' = "accepted"
    BY <1>1, <1>3, <2>1, <2>3, NotPast DEF Does, Handover, Accepts
  <2> QED
    BY <2>1, <2>2, <2>3
<1> QED
  BY <1>2, <1>3

LEMMA OverDoes ==
  ASSUME WInv, NEW w, verdict = "none", Over(w)
  PROVE  Does(w)
<1>1. place = "options" /\ w = End /\ Ended("accepted") /\ pass # "choice"
  BY PartOf DEF WInv, Over, Fails
<1>2. CASE pass = "real"
  <2>1. verdict' = "accepted" /\ at' = at /\ pushed' = pushed
    BY <1>1, <1>2 DEF Ended
  <2> QED
    BY <1>1, <1>2, <2>1, NotPast DEF Does, Handover, Accepts
<1> QED
  BY <1>1, <1>2, EndedDoes

\* Where ports broke off no option is read.
LEMMA DoomedErrs ==
  ASSUME WInv, NEW w \in Words \cup {End}, Looked(w), Doomed, Instruction(w) \/ Step(w)
  PROVE  Errs
<1>1. /\ pass = "real" /\ place = "options" /\ group = "first"
      /\ w.port # "none" /\ OptionOf(w) = "unknown"
  <2>1. w = WordAt(at)
    <3>1. at \in Nat \ {0} /\ at <= Len(body) /\ Len(body) \in Nat
      BY LenProperties DEF WInv, IInv, StateOK, Placed, Texts, Doomed
    <3>2. at \in 1..Len(body)
      BY <3>1
    <3> QED
      BY <3>2 DEF Looked, WordAt
  <2> QED
    BY <2>1 DEF Doomed
<1>2. w \in Words /\ w.text # "{" /\ w # End
  <2>1. w \in Words
    BY <1>1, PortIsAWord
  <2>2. w.text # "{"
    BY <1>1, <2>1, WordsAssumption
  <2> QED
    BY <1>1, <2>1, <2>2, NoEndFits
<1>3. Outcome(w) = "unknown option"
  BY <1>1, KnownOutcome
<1>4. OptionFails(w)
  <2>1. place \notin Header \cup {"rule", "body", "first protocol", "trailing", "destination ports"}
    BY <1>1 DEF Header, Listed
  <2>2. ~Instruction(w) /\ ~Choose(w) /\ ~ChooseByMember(w) /\ ~Trailing(w) /\ ~DestinationPorts(w)
    BY <2>1 DEF Instruction, Choose, ChooseByMember, Trailing, DestinationPorts
  <2>3. ~Element(w) /\ ~Keyword(w) /\ ~NoKeyword(w)
    BY <2>1 DEF Element, Keyword, NoKeyword, Header
  <2>4. ~OpenGroup(w) /\ ~Separator(w) /\ ~Over(w)
    BY <1>1, <1>2 DEF OpenGroup, Separator, Over
  <2>5. ~OnOption(w) /\ ~OnComment(w)
    BY <1>3 DEF OnOption, OnComment
  <2> QED
    BY <2>2, <2>3, <2>4, <2>5 DEF Step
<1>5. Ended("unknown option")
  BY <1>3, <1>4 DEF OptionFails
<1>6. verdict' = "unknown option"
  BY <1>1, <1>5 DEF Ended
<1> QED
  BY <1>6 DEF Errs

-----------------------------------------------------------------------------
(* The invariant of what is handed over.                                   *)

LEMMA StillApart == CommentsApart => CommentsApart'
BY DEF CommentsApart, Words

LEMMA ReadHands ==
  ASSUME HInv, WInv', Read
  PROVE  HInv'
<1>1. PICK w \in Words \cup {End} :
        /\ Look(w) /\ (Instruction(w) \/ Step(w))
        /\ hook' = hook /\ rule' = rule /\ verdict = "none"
  BY DEF Read, Look, options
<1>2. Looked(w)
  BY <1>1, LookFacts DEF HInv
<1>3. Does(w)
  BY <1>1, <1>2, InstructionDoes, ChooseDoes, OpenGroupDoes, ElementDoes, SeparatorDoes, KeywordDoes,
     NoKeywordDoes, TrailingDoes, DestinationPortsDoes, OptionFailsDoes, OnOptionDoes, OnCommentDoes,
     OverDoes DEF HInv, Step
<1>4. Ending(body')
  BY <1>1, <1>2, BodyEnds DEF HInv
<1>5. Behind'
  BY <1>2, <1>3, BehindStays DEF HInv, WInv, Does
<1>6. Doomed => Errs
  BY <1>1, <1>2, DoomedErrs DEF HInv
<1>7. Handing' /\ HandedOverOnce'
  BY <1>1, <1>2, <1>3, <1>4, <1>6, HandoverKeeps DEF HInv, WInv, Does
<1> QED
  BY <1>4, <1>5, <1>7, StillApart DEF HInv

LEMMA ReadsNextHands ==
  ASSUME CommentsApart, WInv', NEW text, Ending(text), ReadsNext(text)
  PROVE  HInv'
<1>1. body' = text /\ at' = 1 /\ pass' = "choice" /\ verdict' = "none"
  BY DEF ReadsNext, From
<1>2. Behind'
  <2>1. \A i \in 1..(1 - 1) : FALSE
    OBVIOUS
  <2> QED
    BY <1>1, <2>1 DEF Behind
<1> QED
  BY <1>1, <1>2, StillApart DEF HInv, Handing, HandedOverOnce, Ending

LEMMA SameHands ==
  ASSUME HInv, WInv', rule' = rule, hook' = hook, UNCHANGED <<body, at, choice, place, group, pushed>>,
         verdict' = verdict \/ verdict' \notin {"none", "accepted"}
  PROVE  HInv'
<1>1. Ending(body') /\ Behind'
  BY DEF HInv, Behind
<1>2. Handing'
  BY DEF HInv, Handing, Doomed, Going, InOrder, Preceding, Covered, Sides, Handed, Frontier, TurnNow,
         AfterSource, AfterDestination, Has, WordAt, OptionOf, choice
<1>3. HandedOverOnce'
  BY DEF HInv, HandedOverOnce, Handed, WordAt
<1> QED
  BY <1>1, <1>2, <1>3, StillApart DEF HInv

LEMMA FormatHands ==
  ASSUME HInv, WInv', NEW appender \in BOOLEAN, Format(appender)
  PROVE  HInv'
<1>1. rule' = rule /\ hook' = hook
  BY DEF Format, options
<1>2. CASE Refusal(ParsedRecord, appender) = "none"
  <2>1. Ending(Append(Names(InstructionText(ParsedRecord)), "end"))
    BY FormattedTyped DEF HInv, WInv, IInv, StateOK
  <2>2. ReadsNext(Append(Names(InstructionText(ParsedRecord)), "end"))
    BY <1>2 DEF Format
  <2> QED
    BY <2>1, <2>2, ReadsNextHands DEF HInv
<1>3. CASE Refusal(ParsedRecord, appender) # "none"
  <2>1. /\ verdict' = Refusal(ParsedRecord, appender)
        /\ UNCHANGED <<body, at, choice, place, group, pushed>>
    BY <1>3 DEF Format
  <2>2. verdict' \notin {"none", "accepted"}
    BY <1>3, <2>1, RefusalIsAnError
  <2> QED
    BY <1>1, <2>1, <2>2, SameHands
<1> QED
  BY <1>2, <1>3

LEMMA NextLineHands ==
  ASSUME HInv, WInv', NextLine
  PROVE  HInv'
<1>1. ReadsNext(<<>>)
  BY DEF NextLine
<1>2. Ending(<<>>)
  <2>1. \A i \in 1..Len(<<>>) : FALSE
    OBVIOUS
  <2> QED
    BY <2>1 DEF Ending
<1> QED
  BY <1>1, <1>2, ReadsNextHands DEF HInv

LEMMA NextHands == HInv /\ [Next]_vars => HInv'
<1> SUFFICES ASSUME HInv, [Next]_vars PROVE HInv'
  OBVIOUS
<1>1. WInv'
  BY NextTells DEF HInv
<1>2. ASSUME NEW appender \in BOOLEAN, Format(appender) PROVE HInv'
  BY <1>1, <1>2, FormatHands
<1>3. CASE UNCHANGED vars
  <2>1. /\ rule' = rule /\ hook' = hook /\ verdict' = verdict
        /\ UNCHANGED <<body, at, choice, place, group, pushed>>
    BY <1>3 DEF vars, options
  <2> QED
    BY <1>1, <2>1, SameHands
<1> QED
  BY <1>1, <1>2, <1>3, ReadHands, NextLineHands DEF Next

LEMMA InitHands == CommentsApart /\ Init => HInv
<1> SUFFICES ASSUME CommentsApart, Init PROVE HInv
  OBVIOUS
<1>1. body = <<>> /\ at = 1 /\ pass = "choice" /\ verdict = "none"
  BY DEF Init
<1>2. Ending(body) /\ Behind
  <2>1. \A i \in 1..Len(<<>>) : FALSE
    OBVIOUS
  <2>2. \A i \in 1..(1 - 1) : FALSE
    OBVIOUS
  <2> QED
    BY <1>1, <2>1, <2>2 DEF Ending, Behind
<1>3. Handing /\ HandedOverOnce
  BY <1>1 DEF Handing, HandedOverOnce
<1> QED
  BY <1>2, <1>3, InitTells DEF HInv

\* Of a body that is accepted every word is handed to the State once, in the order of
\* the text and under the callback of its part, and every rule but check-state has a
\* source and a destination, whatever was tried over a DiscardState before and
\* however long the body (parser.go, parseRuleBody, parseBodyLegacy).  A custom
\* target may begin like a comment: of such targets nothing is said.
THEOREM EveryWordHandedOver == CommentsApart /\ Spec => []HandedOverOnce
<1>1. HInv => HandedOverOnce
  BY DEF HInv
<1> QED
  BY <1>1, InitHands, NextHands, PTL DEF Spec

-----------------------------------------------------------------------------
(* The header of a text.                                                   *)

AnyWord == Words \cup {End}
ProtoWords == {w \in AnyWord : IsProto(w)}
TargetWords == {w \in AnyWord : IsTarget(w)}
PortWords == {w \in AnyWord : IsPort(w)}
Text(text) == {w \in AnyWord : w.text = text}
FromWords == Text("from")
ToWords == Text("to")
OpenWords == Text("{")
OrWords == Text("or")
CloseWords == Text("}")

\* HeaderBefore, of any text b.
Fit(b, i, S) == i > Len(b) \/ ByName(b[i]) \in S
GroupIn(b, i, j, S) ==
  \/ i = j /\ Fit(b, i, S)
  \/ /\ i < j /\ (j - i) % 2 = 0 /\ Fit(b, i, OpenWords) /\ Fit(b, j, CloseWords)
     /\ \A k \in (i + 1)..(j - 1) : IF (k - i) % 2 = 1 THEN Fit(b, k, S) ELSE Fit(b, k, OrWords)
SourceTo(b, f, t) ==
  /\ Fit(b, t, ToWords)
  /\ \/ GroupIn(b, f + 1, t - 1, TargetWords)
     \/ GroupIn(b, f + 1, t - 2, TargetWords) /\ Fit(b, t - 1, PortWords)
HeaderIn(b, end) ==
  \E f \in 2..(end - 4) :
    /\ Fit(b, f, FromWords) /\ GroupIn(b, 1, f - 1, ProtoWords)
    /\ \E t \in (f + 2)..(end - 2) :
         SourceTo(b, f, t) /\ \E e \in (t + 1)..(end - 1) : GroupIn(b, t + 1, e, TargetWords)

LEMMA FitsIn ==
  ASSUME body \in Texts, NEW i \in Nat \ {0}
  PROVE  /\ i > Len(body) \/ WordAt(i).proto <=> Fit(body, i, ProtoWords)
         /\ i > Len(body) \/ WordAt(i).target <=> Fit(body, i, TargetWords)
         /\ i > Len(body) \/ (WordAt(i).port = "ports" /\ WordAt(i).text # "to")
              <=> Fit(body, i, PortWords)
         /\ Reads(i, "from") <=> Fit(body, i, FromWords)
         /\ Reads(i, "to") <=> Fit(body, i, ToWords)
         /\ Reads(i, "{") <=> Fit(body, i, OpenWords)
         /\ Reads(i, "or") <=> Fit(body, i, OrWords)
         /\ Reads(i, "}") <=> Fit(body, i, CloseWords)
<1>1. i <= Len(body) => WordAt(i) \in AnyWord
  <2> SUFFICES ASSUME i <= Len(body) PROVE ByName(body[i]) \in AnyWord
    BY DEF WordAt
  <2>1. body[i] \in DOMAIN Dictionary \cup {"end"}
    BY ElementOfSeq, LenProperties DEF Texts
  <2> QED
    BY <2>1, ByNameFacts DEF AnyWord, ByName
<1>2. i > Len(body) \/ i <= Len(body)
  BY LenProperties DEF Texts
<1>3. \A text : Reads(i, text) <=> Fit(body, i, Text(text))
  BY <1>1, <1>2 DEF Reads, Fit, Text, WordAt
<1>4. /\ i > Len(body) \/ WordAt(i).proto <=> Fit(body, i, ProtoWords)
      /\ i > Len(body) \/ WordAt(i).target <=> Fit(body, i, TargetWords)
      /\ i > Len(body) \/ (WordAt(i).port = "ports" /\ WordAt(i).text # "to") <=> Fit(body, i, PortWords)
  BY <1>1, <1>2 DEF Fit, ProtoWords, TargetWords, PortWords, WordAt, IsProto, IsTarget, IsPort
<1> QED
  BY <1>3, <1>4, Zenon DEF FromWords, ToWords, OpenWords, OrWords, CloseWords

LEMMA GroupsIn ==
  ASSUME body \in Texts, NEW i \in Nat \ {0}, NEW j \in Int
  PROVE  /\ Group(i, j, IsProto) <=> GroupIn(body, i, j, ProtoWords)
         /\ Group(i, j, IsTarget) <=> GroupIn(body, i, j, TargetWords)
<1>1. i = j => (Group(i, j, IsProto) <=> Fit(body, i, ProtoWords))
               /\ (Group(i, j, IsTarget) <=> Fit(body, i, TargetWords))
  <2>1. /\ Fitting(i, IsProto) <=> Fit(body, i, ProtoWords)
        /\ Fitting(i, IsTarget) <=> Fit(body, i, TargetWords)
    BY FitsIn DEF Fitting, IsProto, IsTarget
  <2>2. i = j => ~(i < j)
    OBVIOUS
  <2> QED
    BY <2>1, <2>2, Zenon DEF Group
<1>2. CASE i < j
  <2>1. j \in Nat \ {0} /\ \A k \in (i + 1)..(j - 1) : k \in Nat \ {0}
    BY <1>2
  <2>2. Reads(i, "{") <=> Fit(body, i, OpenWords)
    BY FitsIn
  <2>3. Reads(j, "}") <=> Fit(body, j, CloseWords)
    BY <2>1, FitsIn
  <2>4. \A k \in (i + 1)..(j - 1) :
           /\ k > Len(body) \/ WordAt(k).proto <=> Fit(body, k, ProtoWords)
           /\ k > Len(body) \/ WordAt(k).target <=> Fit(body, k, TargetWords)
           /\ Reads(k, "or") <=> Fit(body, k, OrWords)
    BY <2>1, FitsIn
  <2>5. (\A k \in (i + 1)..(j - 1) : IF (k - i) % 2 = 1 THEN Fitting(k, IsProto) ELSE Reads(k, "or"))
        <=> \A k \in (i + 1)..(j - 1) :
              IF (k - i) % 2 = 1 THEN Fit(body, k, ProtoWords) ELSE Fit(body, k, OrWords)
    BY <2>4 DEF Fitting, IsProto
  <2>6. (\A k \in (i + 1)..(j - 1) : IF (k - i) % 2 = 1 THEN Fitting(k, IsTarget) ELSE Reads(k, "or"))
        <=> \A k \in (i + 1)..(j - 1) :
              IF (k - i) % 2 = 1 THEN Fit(body, k, TargetWords) ELSE Fit(body, k, OrWords)
    BY <2>4 DEF Fitting, IsTarget
  <2>7. i # j
    BY <1>2
  <2> QED
    BY <1>2, <2>2, <2>3, <2>5, <2>6, <2>7, Zenon DEF Group, GroupIn
<1> QED
  <2>1. i = j => ~(i < j)
    OBVIOUS
  <2> QED
    BY <1>1, <1>2, <2>1, Zenon DEF Group, GroupIn

LEMMA HeadersIn ==
  ASSUME body \in Texts, NEW end \in Nat
  PROVE  HeaderBefore(end) <=> HeaderIn(body, end)
<1>1. ASSUME NEW f \in 2..(end - 4)
      PROVE  /\ Reads(f, "from") <=> Fit(body, f, FromWords)
             /\ Group(1, f - 1, IsProto) <=> GroupIn(body, 1, f - 1, ProtoWords)
  <2>1. f \in Nat \ {0} /\ f - 1 \in Int /\ 1 \in Nat \ {0}
    OBVIOUS
  <2> QED
    BY <2>1, FitsIn, GroupsIn
<1>2. ASSUME NEW f \in 2..(end - 4), NEW t \in (f + 2)..(end - 2)
      PROVE  /\ Reads(t, "to") <=> Fit(body, t, ToWords)
             /\ Group(f + 1, t - 1, IsTarget) <=> GroupIn(body, f + 1, t - 1, TargetWords)
             /\ Group(f + 1, t - 2, IsTarget) <=> GroupIn(body, f + 1, t - 2, TargetWords)
             /\ Fitting(t - 1, IsPort) <=> Fit(body, t - 1, PortWords)
             /\ \A e \in (t + 1)..(end - 1) :
                  Group(t + 1, e, IsTarget) <=> GroupIn(body, t + 1, e, TargetWords)
  <2>1. /\ t \in Nat \ {0} /\ f + 1 \in Nat \ {0} /\ t - 1 \in Nat \ {0} /\ t - 1 \in Int /\ t - 2 \in Int
        /\ t + 1 \in Nat \ {0} /\ \A e \in (t + 1)..(end - 1) : e \in Int
    OBVIOUS
  <2> QED
    BY <2>1, FitsIn, GroupsIn DEF Fitting, IsPort
<1> QED
  BY <1>1, <1>2, Zenon DEF HeaderBefore, HeaderIn, SourceTo

-----------------------------------------------------------------------------
(* Reading a header word by word.                                          *)

\* The text c goes on where b ends.
GoesOn(b, c) == Len(b) <= Len(c) /\ \A i \in 1..Len(b) : c[i] = b[i]

\* A group is open after n words, or an element or a group is over.
Open(b, i, n, S) ==
  /\ i <= n /\ n <= Len(b) /\ ByName(b[i]) \in OpenWords
  /\ \A k \in (i + 1)..n : IF (k - i) % 2 = 1 THEN ByName(b[k]) \in S ELSE ByName(b[k]) \in OrWords
Complete(b, i, n, S) == i <= n /\ n <= Len(b) /\ GroupIn(b, i, n, S)

\* The part that begins at i, after n words.
Begun(b, i, g, n, S) ==
  CASE g = "first" -> n = i - 1 /\ n <= Len(b)
    [] g = "member" -> Open(b, i, n, S) /\ (n - i) % 2 = 0
    [] OTHER -> Open(b, i, n, S) /\ (n - i) % 2 = 1

\* No element or group begins at i, whatever follows; no header does.
NoGroup(b, i, S) == \A j \in Nat : ~GroupIn(b, i, j, S)
NoHeader(b) == \A end \in Nat : ~HeaderIn(b, end)

\* The words of a part are not those that open or close a group.
Braceless(S) == \A w \in S : w \notin OpenWords /\ w \notin CloseWords

LEMMA TextsApart ==
  ASSUME NEW w
  PROVE  /\ w \in OrWords => w \notin CloseWords /\ w \notin OpenWords
         /\ w \in OpenWords => w \notin CloseWords
         /\ w \in ToWords => w \notin PortWords
BY Zenon DEF Text, FromWords, ToWords, OpenWords, OrWords, CloseWords, PortWords, IsPort

LEMMA HeaderWordsBraceless == Braceless(ProtoWords) /\ Braceless(TargetWords)
<1>1. ASSUME NEW w \in AnyWord, w.text \in {"{", "}"} PROVE ~w.proto /\ ~w.target
  <2>1. ~End.proto /\ ~End.target
    BY DEF End
  <2>2. w \in Words => ~w.proto /\ ~w.target
    BY <1>1, WordsAssumption, Zenon
  <2> QED
    BY <2>1, <2>2, Zenon DEF AnyWord
<1> QED
  BY <1>1, Zenon DEF Braceless, ProtoWords, TargetWords, IsProto, IsTarget, Text, OpenWords, CloseWords

LEMMA SettledFits ==
  ASSUME NEW b \in Texts, NEW i \in Nat, i <= Len(b), NEW S
  PROVE  Fit(b, i, S) <=> ByName(b[i]) \in S
BY LenProperties DEF Texts, Fit

\* Where an element or a group is over, no other is.
LEMMA OneEnd ==
  ASSUME NEW b \in Texts, NEW S, Braceless(S), NEW i \in Nat \ {0}, NEW n \in Nat,
         Complete(b, i, n, S), NEW j \in Nat, GroupIn(b, i, j, S)
  PROVE  j = n
<1> DEFINE At(k) == ByName(b[k])
<1>1. PICK l \in Nat : l = Len(b) /\ n <= l /\ i <= n
  BY LenProperties DEF Texts, Complete
<1>2. /\ Fit(b, i, OpenWords) <=> At(i) \in OpenWords
      /\ Fit(b, i, S) <=> At(i) \in S
  BY <1>1, SettledFits
<1>3. At(i) \in S => At(i) \notin OpenWords
  BY DEF Braceless
<1>4. /\ i = j => At(i) \in S
      /\ i # j => /\ i < j /\ At(i) \in OpenWords /\ Fit(b, j, CloseWords) /\ (j - i) % 2 = 0
                  /\ \A k \in (i + 1)..(j - 1) : (k - i) % 2 = 0 => Fit(b, k, OrWords)
  BY <1>2 DEF GroupIn
<1>5. /\ i = n => At(i) \in S
      /\ i # n => /\ i < n /\ At(i) \in OpenWords /\ Fit(b, n, CloseWords) /\ (n - i) % 2 = 0
                  /\ \A k \in (i + 1)..(n - 1) : (k - i) % 2 = 0 => Fit(b, k, OrWords)
  BY <1>2 DEF Complete, GroupIn
<1>6. CASE i = n \/ i = j
  BY <1>3, <1>4, <1>5, <1>6
<1>7. CASE i # n /\ i # j
  <2>1. ASSUME j < n PROVE FALSE
    <3>1. j \in (i + 1)..(n - 1) /\ j <= Len(b)
      BY <1>1, <1>4, <1>7, <2>1
    <3>2. At(j) \in OrWords /\ At(j) \in CloseWords
      BY <1>4, <1>5, <1>7, <3>1, SettledFits
    <3> QED
      BY <3>2, TextsApart
  <2>2. ASSUME n < j PROVE FALSE
    <3>1. n \in (i + 1)..(j - 1) /\ n <= Len(b)
      BY <1>1, <1>5, <1>7, <2>2
    <3>2. At(n) \in OrWords /\ At(n) \in CloseWords
      BY <1>4, <1>5, <1>7, <3>1, SettledFits
    <3> QED
      BY <3>2, TextsApart
  <2> QED
    BY <2>1, <2>2
<1> QED
  BY <1>6, <1>7

\* A text that goes on keeps what was read of it.
LEMMA KeepsBegun ==
  ASSUME NEW b \in Texts, NEW c \in Texts, GoesOn(b, c), NEW i \in Nat \ {0}, NEW n \in Nat, NEW S
  PROVE  /\ Open(b, i, n, S) => Open(c, i, n, S)
         /\ Complete(b, i, n, S) => Complete(c, i, n, S)
         /\ \A g : Begun(b, i, g, n, S) => Begun(c, i, g, n, S)
<1>1. PICK l \in Nat, m \in Nat : l = Len(b) /\ m = Len(c) /\ l <= m /\ \A k \in 1..l : c[k] = b[k]
  BY LenProperties DEF Texts, GoesOn
<1>2. Open(b, i, n, S) => Open(c, i, n, S)
  <2> SUFFICES ASSUME Open(b, i, n, S) PROVE Open(c, i, n, S)
    OBVIOUS
  <2>1. i \in 1..l /\ n <= m /\ \A k \in (i + 1)..n : k \in 1..l
    BY <1>1 DEF Open
  <2> QED
    BY <1>1, <2>1 DEF Open
<1>3. Complete(b, i, n, S) => Complete(c, i, n, S)
  <2> SUFFICES ASSUME Complete(b, i, n, S) PROVE Complete(c, i, n, S)
    OBVIOUS
  <2>1. i <= n /\ n <= l /\ n <= m
    BY <1>1 DEF Complete
  <2>2. \A k \in i..n : \A T : Fit(b, k, T) <=> Fit(c, k, T)
    <3> SUFFICES ASSUME NEW k \in i..n, NEW T PROVE Fit(b, k, T) <=> Fit(c, k, T)
      OBVIOUS
    <3>1. k \in 1..l /\ k \in Nat /\ k <= l /\ k <= m
      BY <1>1, <2>1
    <3> QED
      BY <1>1, <3>1, SettledFits
  <2>3. i \in i..n /\ n \in i..n /\ \A k \in (i + 1)..(n - 1) : k \in i..n
    BY <2>1
  <2> QED
    BY <2>1, <2>2, <2>3, <1>1 DEF Complete, GroupIn
<1>4. ASSUME NEW g, Begun(b, i, g, n, S) PROVE Begun(c, i, g, n, S)
  BY <1>1, <1>2, <1>4 DEF Begun
<1> QED
  BY <1>2, <1>3, <1>4

LEMMA FewerHeaders ==
  ASSUME NEW b \in Texts, NEW c \in Texts, GoesOn(b, c), NoHeader(b)
  PROVE  NoHeader(c)
<1>1. PICK l \in Nat, m \in Nat : l = Len(b) /\ m = Len(c) /\ l <= m /\ \A k \in 1..l : c[k] = b[k]
  BY LenProperties DEF Texts, GoesOn
<1>2. ASSUME NEW i \in Nat \ {0}, NEW S, Fit(c, i, S) PROVE Fit(b, i, S)
  BY <1>1, <1>2 DEF Fit
<1>3. ASSUME NEW i \in Nat \ {0}, NEW j \in Int, NEW S, GroupIn(c, i, j, S) PROVE GroupIn(b, i, j, S)
  <2>1. i < j => j \in Nat \ {0} /\ \A k \in (i + 1)..(j - 1) : k \in Nat \ {0}
    OBVIOUS
  <2> QED
    BY <1>2, <1>3, <2>1 DEF GroupIn
<1>4. ASSUME NEW end \in Nat, HeaderIn(c, end) PROVE HeaderIn(b, end)
  <2>1. PICK f \in 2..(end - 4) :
          /\ Fit(c, f, FromWords) /\ GroupIn(c, 1, f - 1, ProtoWords)
          /\ \E t \in (f + 2)..(end - 2) :
               SourceTo(c, f, t) /\ \E e \in (t + 1)..(end - 1) : GroupIn(c, t + 1, e, TargetWords)
    BY <1>4 DEF HeaderIn
  <2> PICK t \in (f + 2)..(end - 2) :
         SourceTo(c, f, t) /\ \E e \in (t + 1)..(end - 1) : GroupIn(c, t + 1, e, TargetWords)
    BY <2>1
  <2> PICK e \in (t + 1)..(end - 1) : GroupIn(c, t + 1, e, TargetWords)
    OBVIOUS
  <2>2. /\ f \in Nat \ {0} /\ t \in Nat \ {0} /\ 1 \in Nat \ {0} /\ f - 1 \in Int /\ f + 1 \in Nat \ {0}
        /\ t - 1 \in Nat \ {0} /\ t - 1 \in Int /\ t - 2 \in Int /\ t + 1 \in Nat \ {0} /\ e \in Int
    OBVIOUS
  <2>3. Fit(b, f, FromWords) /\ GroupIn(b, 1, f - 1, ProtoWords) /\ GroupIn(b, t + 1, e, TargetWords)
    BY <1>2, <1>3, <2>1, <2>2
  <2>4. SourceTo(b, f, t)
    BY <1>2, <1>3, <2>1, <2>2 DEF SourceTo
  <2> QED
    BY <2>3, <2>4 DEF HeaderIn
<1> QED
  BY <1>4 DEF NoHeader

\* What the word after n makes of a part begun at i.
LEMMA OneWordMore ==
  ASSUME NEW b \in Texts, NEW i \in Nat \ {0}, NEW n \in Nat, n + 1 <= Len(b), NEW S,
         NEW g \in {"first", "member", "separator"}, Begun(b, i, g, n, S),
         NEW w, w = ByName(b[n + 1])
  PROVE  /\ g = "first" /\ w \in OpenWords => Begun(b, i, "member", n + 1, S)
         /\ g = "first" /\ w \in S => Complete(b, i, n + 1, S)
         /\ g = "member" /\ w \in S => Begun(b, i, "separator", n + 1, S)
         /\ g = "separator" /\ w \in OrWords => Begun(b, i, "member", n + 1, S)
         /\ g = "separator" /\ w \in CloseWords => Complete(b, i, n + 1, S)
<1>1. CASE g = "first"
  <2>1. i = n + 1
    BY <1>1 DEF Begun
  <2>2. w \in S => Complete(b, i, n + 1, S)
    BY <2>1, SettledFits DEF Complete, GroupIn
  <2>3. w \in OpenWords => Open(b, i, n + 1, S) /\ (n + 1 - i) % 2 = 0
    BY <2>1 DEF Open
  <2> QED
    BY <1>1, <2>2, <2>3 DEF Begun
<1>2. CASE g # "first"
  <2>1. /\ i <= n /\ ByName(b[i]) \in OpenWords
        /\ \A k \in (i + 1)..n : IF (k - i) % 2 = 1 THEN ByName(b[k]) \in S ELSE ByName(b[k]) \in OrWords
        /\ (n - i) % 2 = IF g = "member" THEN 0 ELSE 1
    BY <1>2 DEF Begun, Open
  <2>2. (n + 1 - i) % 2 = IF g = "member" THEN 1 ELSE 0
    BY <2>1
  <2>3. \A k \in (i + 1)..(n + 1) : k \in (i + 1)..n \/ k = n + 1
    BY <2>1
  <2>4. (IF g = "member" THEN w \in S ELSE w \in OrWords) => Open(b, i, n + 1, S)
    BY <2>1, <2>2, <2>3 DEF Open
  <2>5. g = "separator" /\ w \in CloseWords => Complete(b, i, n + 1, S)
    <3> SUFFICES ASSUME g = "separator", w \in CloseWords PROVE Complete(b, i, n + 1, S)
      OBVIOUS
    <3>1. /\ Fit(b, i, OpenWords) /\ Fit(b, n + 1, CloseWords)
          /\ \A k \in (i + 1)..(n + 1 - 1) : IF (k - i) % 2 = 1 THEN Fit(b, k, S) ELSE Fit(b, k, OrWords)
      <4>1. \A k \in (i + 1)..(n + 1 - 1) : k \in (i + 1)..n /\ k \in Nat /\ k <= Len(b)
        BY LenProperties DEF Texts
      <4>2. i <= Len(b)
        BY <2>1, LenProperties DEF Texts
      <4> QED
        BY <2>1, <4>1, <4>2, SettledFits
    <3>2. i < n + 1 /\ (n + 1 - i) % 2 = 0
      BY <2>1, <2>2
    <3> QED
      BY <3>1, <3>2 DEF Complete, GroupIn
  <2> QED
    BY <1>2, <2>2, <2>4, <2>5 DEF Begun
<1> QED
  BY <1>1, <1>2

LEMMA BadWord ==
  ASSUME NEW b \in Texts, NEW i \in Nat \ {0}, NEW n \in Nat, n + 1 <= Len(b), NEW S, Braceless(S),
         NEW g \in {"first", "member", "separator"}, Begun(b, i, g, n, S),
         NEW w, w = ByName(b[n + 1]),
         g \in {"first", "member"} => w \notin S,
         g = "first" => w \notin OpenWords,
         g = "separator" => w \notin OrWords /\ w \notin CloseWords
  PROVE  NoGroup(b, i, S)
<1> SUFFICES ASSUME NEW j \in Nat, GroupIn(b, i, j, S) PROVE FALSE
  BY DEF NoGroup
<1>1. i <= n + 1 /\ i <= Len(b)
  BY LenProperties DEF Begun, Open, Texts
<1>2. /\ i = j => ByName(b[i]) \in S
      /\ i # j => /\ i < j /\ ByName(b[i]) \in OpenWords /\ Fit(b, j, CloseWords) /\ (j - i) % 2 = 0
                  /\ \A k \in (i + 1)..(j - 1) :
                       IF (k - i) % 2 = 1 THEN Fit(b, k, S) ELSE Fit(b, k, OrWords)
  BY <1>1, SettledFits DEF GroupIn
<1>3. CASE g = "first"
  BY <1>2, <1>3 DEF Begun
<1>4. CASE g # "first"
  <2>1. /\ i <= n /\ ByName(b[i]) \in OpenWords
        /\ \A k \in (i + 1)..n : IF (k - i) % 2 = 1 THEN ByName(b[k]) \in S ELSE ByName(b[k]) \in OrWords
        /\ (n - i) % 2 = IF g = "member" THEN 0 ELSE 1
    BY <1>4 DEF Begun, Open
  <2>2. i # j
    BY <1>2, <2>1 DEF Braceless
  <2>3. (n + 1 - i) % 2 = IF g = "member" THEN 1 ELSE 0
    BY <2>1
  <2>4. ASSUME j <= n PROVE FALSE
    <3>1. j \in (i + 1)..n /\ j <= Len(b)
      BY <1>2, <2>2, <2>4, LenProperties DEF Texts
    <3>2. ByName(b[j]) \in OrWords /\ ByName(b[j]) \in CloseWords
      BY <1>2, <2>1, <2>2, <3>1, SettledFits
    <3> QED
      BY <3>2, TextsApart
  <2>5. ASSUME j = n + 1 PROVE FALSE
    <3>1. w \in CloseWords /\ (j - i) % 2 = 0
      BY <1>2, <2>2, <2>5, SettledFits
    <3> QED
      BY <1>4, <2>3, <2>5, <3>1
  <2>6. ASSUME n + 1 < j PROVE FALSE
    <3>1. n + 1 \in (i + 1)..(j - 1)
      BY <2>1, <2>6
    <3>2. IF g = "member" THEN w \in S ELSE w \in OrWords
      BY <1>2, <2>2, <2>3, <3>1, SettledFits
    <3> QED
      BY <1>4, <3>2
  <2> QED
    BY <2>4, <2>5, <2>6
<1> QED
  BY <1>3, <1>4

\* Where a part of the header begins in a text that is read so far.
SourceAt(b, i) ==
  /\ 3 <= i /\ i - 1 <= Len(b)
  /\ ByName(b[i - 1]) \in FromWords /\ Complete(b, 1, i - 2, ProtoWords)
DestinationAt(b, i) ==
  \E s \in Nat \ {0} :
    /\ SourceAt(b, s) /\ s + 2 <= i /\ i - 1 <= Len(b) /\ ByName(b[i - 1]) \in ToWords
    /\ \/ Complete(b, s, i - 2, TargetWords)
       \/ Complete(b, s, i - 3, TargetWords) /\ ByName(b[i - 2]) \in PortWords
PartAt(b, part, i) ==
  CASE part = "protocols" -> i = 1 [] part = "source" -> SourceAt(b, i) [] OTHER -> DestinationAt(b, i)
PartWords(part) == IF part = "protocols" THEN ProtoWords ELSE TargetWords

LEMMA HeaderParts ==
  ASSUME NEW b, NEW end \in Nat, HeaderIn(b, end)
  PROVE  \E f, t, e \in Nat :
           /\ f >= 2 /\ t >= f + 2 /\ e >= t + 1
           /\ Fit(b, f, FromWords) /\ GroupIn(b, 1, f - 1, ProtoWords)
           /\ SourceTo(b, f, t) /\ GroupIn(b, t + 1, e, TargetWords)
<1>1. PICK f \in 2..(end - 4) :
        /\ Fit(b, f, FromWords) /\ GroupIn(b, 1, f - 1, ProtoWords)
        /\ \E t \in (f + 2)..(end - 2) :
             SourceTo(b, f, t) /\ \E e \in (t + 1)..(end - 1) : GroupIn(b, t + 1, e, TargetWords)
  BY DEF HeaderIn
<1>2. PICK t \in (f + 2)..(end - 2) :
        SourceTo(b, f, t) /\ \E e \in (t + 1)..(end - 1) : GroupIn(b, t + 1, e, TargetWords)
  BY <1>1
<1>3. PICK e \in (t + 1)..(end - 1) : GroupIn(b, t + 1, e, TargetWords)
  BY <1>2
<1> QED
  BY <1>1, <1>2, <1>3

\* There is one place where the source begins, and one where the destination does.
LEMMA OneSource ==
  ASSUME NEW b \in Texts, NEW i \in Nat \ {0}, SourceAt(b, i),
         NEW f \in Nat, f >= 2, GroupIn(b, 1, f - 1, ProtoWords)
  PROVE  f = i - 1
<1>1. Complete(b, 1, i - 2, ProtoWords) /\ i - 2 \in Nat /\ f - 1 \in Nat
  BY DEF SourceAt
<1>2. f - 1 = i - 2
  BY <1>1, OneEnd, HeaderWordsBraceless
<1> QED
  BY <1>2

LEMMA OneSourceEnd ==
  ASSUME NEW b \in Texts, NEW s \in Nat \ {0}, NEW n \in Nat, Complete(b, s, n, TargetWords),
         NEW t \in Nat, t >= s + 1, SourceTo(b, s - 1, t)
  PROVE  /\ Fit(b, t, ToWords)
         /\ t = n + 1 \/ (t = n + 2 /\ Fit(b, n + 1, PortWords))
<1>1. s - 1 + 1 = s /\ t - 1 \in Nat
  OBVIOUS
<1>2. \/ GroupIn(b, s, t - 1, TargetWords)
      \/ GroupIn(b, s, t - 2, TargetWords) /\ Fit(b, t - 1, PortWords)
  BY <1>1 DEF SourceTo
<1>3. CASE GroupIn(b, s, t - 1, TargetWords)
  <2>1. t - 1 = n
    BY <1>1, <1>3, OneEnd, HeaderWordsBraceless
  <2> QED
    BY <2>1 DEF SourceTo
<1>4. CASE GroupIn(b, s, t - 2, TargetWords) /\ Fit(b, t - 1, PortWords)
  <2>1. t - 2 \in Nat
    BY <1>4 DEF GroupIn
  <2>2. t - 2 = n
    BY <1>4, <2>1, OneEnd, HeaderWordsBraceless
  <2>3. t - 1 = n + 1
    BY <2>2
  <2> QED
    BY <1>4, <2>2, <2>3 DEF SourceTo
<1> QED
  BY <1>2, <1>3, <1>4

LEMMA OneDestination ==
  ASSUME NEW b \in Texts, NEW i \in Nat \ {0}, DestinationAt(b, i), NEW f \in Nat, f >= 2,
         NEW t \in Nat, t >= f + 2, GroupIn(b, 1, f - 1, ProtoWords), SourceTo(b, f, t)
  PROVE  t = i - 1
<1>1. PICK s \in Nat \ {0} :
        /\ SourceAt(b, s) /\ s + 2 <= i /\ i - 1 <= Len(b) /\ ByName(b[i - 1]) \in ToWords
        /\ \/ Complete(b, s, i - 2, TargetWords)
           \/ Complete(b, s, i - 3, TargetWords) /\ ByName(b[i - 2]) \in PortWords
  BY DEF DestinationAt
<1>2. f = s - 1 /\ i - 1 \in Nat /\ i - 2 \in Nat /\ i - 2 <= Len(b)
  <2>1. f = s - 1
    BY <1>1, OneSource
  <2>2. Len(b) \in Nat
    BY LenProperties DEF Texts
  <2> QED
    BY <1>1, <2>1, <2>2
<1>3. CASE Complete(b, s, i - 2, TargetWords)
  <2>1. t = i - 2 + 1 \/ (t = i - 2 + 2 /\ Fit(b, i - 2 + 1, PortWords))
    BY <1>2, <1>3, OneSourceEnd
  <2>2. i - 2 + 1 = i - 1
    OBVIOUS
  <2>3. ~Fit(b, i - 1, PortWords)
    BY <1>1, <1>2, SettledFits, TextsApart
  <2> QED
    BY <2>1, <2>2, <2>3
<1>4. CASE Complete(b, s, i - 3, TargetWords) /\ ByName(b[i - 2]) \in PortWords
  <2>1. i - 3 \in Nat
    BY <1>1, <1>4 DEF Complete
  <2>2. Fit(b, t, ToWords) /\ (t = i - 3 + 1 \/ t = i - 3 + 2)
    BY <1>2, <1>4, <2>1, OneSourceEnd
  <2>3. ~Fit(b, i - 2, ToWords)
    BY <1>2, <1>4, SettledFits, TextsApart
  <2>4. i - 3 + 1 = i - 2
    OBVIOUS
  <2> QED
    BY <2>2, <2>3, <2>4
<1> QED
  BY <1>1, <1>3, <1>4

\* No header is there where a part breaks off.
LEMMA NoPart ==
  ASSUME NEW b \in Texts, NEW part \in Listed, NEW i \in Nat \ {0}, PartAt(b, part, i),
         NoGroup(b, i, PartWords(part))
  PROVE  NoHeader(b)
<1> SUFFICES ASSUME NEW end \in Nat, HeaderIn(b, end) PROVE FALSE
  BY DEF NoHeader
<1>1. PICK f, t, e \in Nat :
        /\ f >= 2 /\ t >= f + 2 /\ e >= t + 1
        /\ Fit(b, f, FromWords) /\ GroupIn(b, 1, f - 1, ProtoWords)
        /\ SourceTo(b, f, t) /\ GroupIn(b, t + 1, e, TargetWords)
  BY HeaderParts
<1>2. CASE part = "protocols"
  BY <1>1, <1>2 DEF PartAt, PartWords, NoGroup
<1>3. CASE part = "source"
  <2>1. i = f + 1
    BY <1>1, <1>3, OneSource DEF PartAt
  <2>2. \E j \in Nat : GroupIn(b, i, j, TargetWords)
    <3>1. \E j \in Int : GroupIn(b, i, j, TargetWords)
      BY <1>1, <2>1 DEF SourceTo
    <3> QED
      BY <3>1 DEF GroupIn
  <2> QED
    BY <1>3, <2>2 DEF PartWords, NoGroup
<1>4. CASE part = "destination"
  <2>1. i = t + 1
    BY <1>1, <1>4, OneDestination DEF PartAt
  <2> QED
    BY <1>1, <1>4, <2>1 DEF PartWords, NoGroup
<1> QED
  BY <1>2, <1>3, <1>4 DEF Listed

LEMMA NoFrom ==
  ASSUME NEW b \in Texts, NEW n \in Nat, Complete(b, 1, n, ProtoWords), n + 1 <= Len(b),
         ByName(b[n + 1]) \notin FromWords
  PROVE  NoHeader(b)
<1> SUFFICES ASSUME NEW end \in Nat, HeaderIn(b, end) PROVE FALSE
  BY DEF NoHeader
<1>1. PICK f, t, e \in Nat : f >= 2 /\ Fit(b, f, FromWords) /\ GroupIn(b, 1, f - 1, ProtoWords)
  BY HeaderParts
<1>2. f - 1 = n
  BY <1>1, OneEnd, HeaderWordsBraceless
<1> QED
  BY <1>1, <1>2, SettledFits

LEMMA NoTo ==
  ASSUME NEW b \in Texts, NEW i \in Nat \ {0}, SourceAt(b, i), NEW n \in Nat,
         Complete(b, i, n, TargetWords), n + 1 <= Len(b), ByName(b[n + 1]) \notin ToWords,
         ByName(b[n + 1]) \in PortWords => n + 2 <= Len(b) /\ ByName(b[n + 2]) \notin ToWords
  PROVE  NoHeader(b)
<1> SUFFICES ASSUME NEW end \in Nat, HeaderIn(b, end) PROVE FALSE
  BY DEF NoHeader
<1>1. PICK f, t, e \in Nat :
        f >= 2 /\ t >= f + 2 /\ GroupIn(b, 1, f - 1, ProtoWords) /\ SourceTo(b, f, t)
  BY HeaderParts
<1>2. f = i - 1
  BY <1>1, OneSource
<1>3. Fit(b, t, ToWords) /\ (t = n + 1 \/ (t = n + 2 /\ Fit(b, n + 1, PortWords)))
  BY <1>1, <1>2, OneSourceEnd
<1> QED
  BY <1>3, SettledFits

LEMMA HeaderDone ==
  ASSUME NEW b \in Texts, NEW i \in Nat \ {0}, DestinationAt(b, i), NEW n \in Nat,
         Complete(b, i, n, TargetWords)
  PROVE  HeaderIn(b, n + 1)
<1>1. PICK s \in Nat \ {0} :
        /\ SourceAt(b, s) /\ s + 2 <= i /\ i - 1 <= Len(b) /\ ByName(b[i - 1]) \in ToWords
        /\ \/ Complete(b, s, i - 2, TargetWords)
           \/ Complete(b, s, i - 3, TargetWords) /\ ByName(b[i - 2]) \in PortWords
  BY DEF DestinationAt
<1>2. i <= n /\ n <= Len(b) /\ GroupIn(b, i, n, TargetWords) /\ Len(b) \in Nat
  BY LenProperties DEF Complete, Texts
<1> DEFINE f == s - 1
           t == i - 1
<1>3. /\ f \in 2..(n + 1 - 4) /\ t \in (f + 2)..(n + 1 - 2) /\ n \in (t + 1)..(n + 1 - 1)
      /\ t - 1 = i - 2 /\ t - 2 = i - 3 /\ t + 1 = i /\ f + 1 = s /\ f - 1 = s - 2
  BY <1>1, <1>2 DEF SourceAt
<1>4. Fit(b, f, FromWords) /\ GroupIn(b, 1, f - 1, ProtoWords)
  BY <1>1, <1>2, <1>3, SettledFits DEF SourceAt, Complete
<1>5. SourceTo(b, f, t)
  <2>1. Fit(b, t, ToWords)
    BY <1>1, <1>2, <1>3, SettledFits
  <2>2. ByName(b[i - 2]) \in PortWords => Fit(b, t - 1, PortWords)
    BY <1>1, <1>2, <1>3, SettledFits
  <2> QED
    BY <1>1, <1>3, <2>1, <2>2 DEF SourceTo, Complete
<1> QED
  BY <1>2, <1>3, <1>4, <1>5 DEF HeaderIn

LEMMA HeaderStays ==
  ASSUME NEW b \in Texts, NEW c \in Texts, GoesOn(b, c), HeaderIn(b, Len(b) + 1)
  PROVE  HeaderIn(c, Len(c) + 1)
<1>1. PICK l \in Nat, m \in Nat : l = Len(b) /\ m = Len(c) /\ l <= m /\ \A k \in 1..l : c[k] = b[k]
  BY LenProperties DEF Texts, GoesOn
<1>2. ASSUME NEW i \in Nat \ {0}, i <= l, NEW S, Fit(b, i, S) PROVE Fit(c, i, S)
  <2>1. i \in 1..l /\ i \in Nat /\ i <= m
    BY <1>1, <1>2
  <2> QED
    BY <1>1, <1>2, <2>1, SettledFits
<1>3. ASSUME NEW i \in Nat \ {0}, NEW j \in Int, j <= l, NEW S, GroupIn(b, i, j, S) PROVE GroupIn(c, i, j, S)
  <2>1. /\ i <= l
        /\ i < j => j \in Nat \ {0} /\ \A k \in (i + 1)..(j - 1) : k \in Nat \ {0} /\ k <= l
    BY <1>3 DEF GroupIn
  <2> QED
    BY <1>2, <1>3, <2>1 DEF GroupIn
<1>4. PICK f \in 2..(l + 1 - 4) :
        /\ Fit(b, f, FromWords) /\ GroupIn(b, 1, f - 1, ProtoWords)
        /\ \E t \in (f + 2)..(l + 1 - 2) :
             SourceTo(b, f, t) /\ \E e \in (t + 1)..(l + 1 - 1) : GroupIn(b, t + 1, e, TargetWords)
  BY <1>1 DEF HeaderIn
<1>5. PICK t \in (f + 2)..(l + 1 - 2) :
        SourceTo(b, f, t) /\ \E e \in (t + 1)..(l + 1 - 1) : GroupIn(b, t + 1, e, TargetWords)
  BY <1>4
<1>6. PICK e \in (t + 1)..(l + 1 - 1) : GroupIn(b, t + 1, e, TargetWords)
  BY <1>5
<1>7. /\ f \in Nat \ {0} /\ t \in Nat \ {0} /\ 1 \in Nat \ {0} /\ f - 1 \in Int /\ f + 1 \in Nat \ {0}
      /\ t - 1 \in Nat \ {0} /\ t - 1 \in Int /\ t - 2 \in Int /\ t + 1 \in Nat \ {0} /\ e \in Int
      /\ f <= l /\ f - 1 <= l /\ t <= l /\ t - 1 <= l /\ t - 2 <= l /\ e <= l
  OBVIOUS
<1>8. Fit(c, f, FromWords) /\ GroupIn(c, 1, f - 1, ProtoWords) /\ GroupIn(c, t + 1, e, TargetWords)
  BY <1>2, <1>3, <1>4, <1>6, <1>7
<1>9. SourceTo(c, f, t)
  BY <1>2, <1>3, <1>5, <1>7 DEF SourceTo
<1>10. f \in 2..(m + 1 - 4) /\ t \in (f + 2)..(m + 1 - 2) /\ e \in (t + 1)..(m + 1 - 1)
  BY <1>1
<1> QED
  BY <1>1, <1>8, <1>9, <1>10 DEF HeaderIn

-----------------------------------------------------------------------------
(* What the probes tell of the text.                                       *)

\* The word or the member of a group a body begins with, for a parser with a hook or
\* without.
FirstOf(b) == IF ByName(b[1]) \in OpenWords THEN ByName(b[2]) ELSE ByName(b[1])
FirstSettled(b) == Len(b) >= 1 /\ (ByName(b[1]) \in OpenWords => Len(b) >= 2)
OptionFor(asked, w) == IF w.option \in ByHook /\ ~asked THEN "unknown" ELSE w.option
Starts(b, asked) == FirstSettled(b) /\ OptionFor(asked, FirstOf(b)) # "unknown"
StartsNot(b, asked) == FirstSettled(b) /\ OptionFor(asked, FirstOf(b)) = "unknown"

\* The source and its ports are read.
PortsRead(b, n) ==
  /\ n >= 1 /\ n <= Len(b) /\ ByName(b[n]) \in PortWords
  /\ \E i \in Nat \ {0} : SourceAt(b, i) /\ Complete(b, i, n - 1, TargetWords)

\* The header that is tried, after n words.
AtHeader(b, part, g, n) ==
  \/ /\ part \in Listed
     /\ \E i \in Nat \ {0} : PartAt(b, part, i) /\ Begun(b, i, g, n, PartWords(part))
  \/ \E p \in Listed : /\ part = After(p)
                       /\ \E i \in Nat \ {0} : PartAt(b, p, i) /\ Complete(b, i, n, PartWords(p))
  \/ part = "to only" /\ PortsRead(b, n)

\* What is known while a probe runs over the text b, standing at i.
Probed(b, p, part, g, i, check, asked) ==
  /\ p \in {"start", "header"} => ~check /\ Len(b) >= 1 /\ ByName(b[1]) # End
  /\ p = "start" => \/ g = "first" /\ i = 1
                    \/ g = "member" /\ i = 2 /\ ByName(b[1]) \in OpenWords
  /\ p = "start" /\ asked => NoHeader(b)
  /\ p = "header" => AtHeader(b, part, g, i - 1)
  /\ p = "header" /\ ~asked => Starts(b, asked)
  /\ part = "first protocol" => check /\ i = 2 /\ Len(b) >= 1 /\ ByName(b[1]) \in OpenWords

\* What a grammar that is chosen tells of the text.
Told(b, chosen, check, asked) ==
  /\ chosen = "legacy" /\ ~check => HeaderIn(b, Len(b) + 1) \/ StartsNot(b, asked)
  /\ chosen = "native" /\ ~check => NoHeader(b) /\ Starts(b, asked)
  /\ chosen \in {"legacy", "native"} /\ check =>
       FirstSettled(b) /\ (chosen = "legacy" <=> FirstOf(b).proto /\ FirstOf(b).known)

Tells == Probed(body, pass, place, group, at, checker, hook) /\ Told(body, grammar, checker, hook)
TInv == WInv /\ Tells

LEMMA FirstStays ==
  ASSUME NEW b \in Texts, NEW c \in Texts, GoesOn(b, c), FirstSettled(b)
  PROVE  FirstSettled(c) /\ FirstOf(c) = FirstOf(b)
<1>1. PICK l \in Nat, m \in Nat : l = Len(b) /\ m = Len(c) /\ l <= m /\ \A k \in 1..l : c[k] = b[k]
  BY LenProperties DEF Texts, GoesOn
<1>2. 1 \in 1..l /\ (ByName(b[1]) \in OpenWords => 2 \in 1..l)
  BY <1>1 DEF FirstSettled
<1> QED
  BY <1>1, <1>2 DEF FirstSettled, FirstOf

LEMMA StaysTold ==
  ASSUME NEW b \in Texts, NEW c \in Texts, GoesOn(b, c), NEW chosen, NEW check, NEW asked,
         Told(b, chosen, check, asked)
  PROVE  Told(c, chosen, check, asked)
<1>1. NoHeader(b) => NoHeader(c)
  BY FewerHeaders
<1>2. HeaderIn(b, Len(b) + 1) => HeaderIn(c, Len(c) + 1)
  BY HeaderStays
<1>3. FirstSettled(b) => FirstSettled(c) /\ FirstOf(c) = FirstOf(b)
  BY FirstStays
<1> QED
  BY <1>1, <1>2, <1>3, Zenon DEF Told, Starts, StartsNot

LEMMA StaysAtHeader ==
  ASSUME NEW b \in Texts, NEW c \in Texts, GoesOn(b, c), NEW part, NEW g, NEW n \in Nat,
         AtHeader(b, part, g, n)
  PROVE  AtHeader(c, part, g, n)
<1>1. PICK l \in Nat, m \in Nat : l = Len(b) /\ m = Len(c) /\ l <= m /\ \A k \in 1..l : c[k] = b[k]
  BY LenProperties DEF Texts, GoesOn
<1>2. ASSUME NEW i \in Nat \ {0}, SourceAt(b, i) PROVE SourceAt(c, i)
  <2>1. i - 1 \in 1..l /\ i - 1 <= m /\ i - 2 \in Nat /\ 3 <= i
    BY <1>1, <1>2 DEF SourceAt
  <2>2. Complete(c, 1, i - 2, ProtoWords)
    BY <1>2, <2>1, KeepsBegun DEF SourceAt
  <2> QED
    BY <1>1, <1>2, <2>1, <2>2 DEF SourceAt
<1>3. ASSUME NEW i \in Nat \ {0}, DestinationAt(b, i) PROVE DestinationAt(c, i)
  <2>1. PICK s \in Nat \ {0} :
          /\ SourceAt(b, s) /\ s + 2 <= i /\ i - 1 <= l /\ ByName(b[i - 1]) \in ToWords
          /\ \/ Complete(b, s, i - 2, TargetWords)
             \/ Complete(b, s, i - 3, TargetWords) /\ ByName(b[i - 2]) \in PortWords
    BY <1>1, <1>3 DEF DestinationAt
  <2>2. 3 <= s
    BY <2>1 DEF SourceAt
  <2>3. i - 1 \in 1..l /\ i - 2 \in 1..l /\ i - 2 \in Nat /\ i - 3 \in Nat /\ i - 1 <= m
    BY <1>1, <2>1, <2>2
  <2>4. /\ Complete(b, s, i - 2, TargetWords) => Complete(c, s, i - 2, TargetWords)
        /\ Complete(b, s, i - 3, TargetWords) => Complete(c, s, i - 3, TargetWords)
    BY <2>3, KeepsBegun
  <2>5. c[i - 1] = b[i - 1] /\ c[i - 2] = b[i - 2] /\ SourceAt(c, s)
    BY <1>1, <1>2, <2>1, <2>3
  <2> QED
    BY <1>1, <2>1, <2>3, <2>4, <2>5 DEF DestinationAt
<1>4. ASSUME NEW p \in Listed, NEW i \in Nat \ {0}, PartAt(b, p, i) PROVE PartAt(c, p, i)
  BY <1>2, <1>3, <1>4 DEF PartAt
<1>5. CASE /\ part \in Listed
           /\ \E i \in Nat \ {0} : PartAt(b, part, i) /\ Begun(b, i, g, n, PartWords(part))
  <2>1. PICK i \in Nat \ {0} : PartAt(b, part, i) /\ Begun(b, i, g, n, PartWords(part))
    BY <1>5
  <2>2. PartAt(c, part, i) /\ Begun(c, i, g, n, PartWords(part))
    BY <1>4, <1>5, <2>1, KeepsBegun
  <2> QED
    BY <1>5, <2>2 DEF AtHeader
<1>6. ASSUME NEW p \in Listed, part = After(p), NEW i \in Nat \ {0}, PartAt(b, p, i),
             Complete(b, i, n, PartWords(p))
      PROVE  AtHeader(c, part, g, n)
  <2>1. PartAt(c, p, i) /\ Complete(c, i, n, PartWords(p))
    BY <1>4, <1>6, KeepsBegun
  <2> QED
    BY <1>6, <2>1 DEF AtHeader
<1>7. ASSUME PortsRead(b, n) PROVE PortsRead(c, n)
  <2>1. PICK i \in Nat \ {0} : SourceAt(b, i) /\ Complete(b, i, n - 1, TargetWords)
    BY <1>7 DEF PortsRead
  <2>2. n - 1 \in Nat /\ n \in 1..l
    BY <1>1, <1>7 DEF PortsRead
  <2>3. SourceAt(c, i) /\ Complete(c, i, n - 1, TargetWords)
    BY <1>2, <2>1, <2>2, KeepsBegun
  <2>4. c[n] = b[n] /\ n <= Len(c)
    BY <1>1, <2>2
  <2> QED
    BY <1>7, <2>3, <2>4 DEF PortsRead
<1> QED
  BY <1>5, <1>6, <1>7, Zenon DEF AtHeader

-----------------------------------------------------------------------------
(* A word more of the header.                                              *)

LEMMA AfterIs ==
  /\ After("protocols") = "from" /\ After("source") = "to" /\ After("destination") = "trailing"
  /\ \A p \in Listed : After(p) \notin Listed /\ After(p) # "to only" /\ PartWords(p) \in {ProtoWords, TargetWords}
BY DEF After, Listed, PartWords

LEMMA ListedGoesOn ==
  ASSUME NEW b \in Texts, NEW part \in Listed, NEW g \in {"first", "member", "separator"}, NEW n \in Nat,
         n + 1 <= Len(b), AtHeader(b, part, g, n), NEW w, w = ByName(b[n + 1])
  PROVE  /\ g = "first" /\ w \in OpenWords => AtHeader(b, part, "member", n + 1)
         /\ g = "first" /\ w \in PartWords(part) => AtHeader(b, After(part), "first", n + 1)
         /\ g = "member" /\ w \in PartWords(part) => AtHeader(b, part, "separator", n + 1)
         /\ g = "separator" /\ w \in OrWords => AtHeader(b, part, "member", n + 1)
         /\ g = "separator" /\ w \in CloseWords => AtHeader(b, After(part), "first", n + 1)
         /\ /\ g \in {"first", "member"} => w \notin PartWords(part)
            /\ g = "first" => w \notin OpenWords
            /\ g = "separator" => w \notin OrWords /\ w \notin CloseWords
            => NoHeader(b)
<1>1. PICK i \in Nat \ {0} : PartAt(b, part, i) /\ Begun(b, i, g, n, PartWords(part))
  BY AfterIs DEF AtHeader, Listed
<1>2. \A h : Begun(b, i, h, n + 1, PartWords(part)) => AtHeader(b, part, h, n + 1)
  BY <1>1 DEF AtHeader
<1>3. Complete(b, i, n + 1, PartWords(part)) => AtHeader(b, After(part), "first", n + 1)
  BY <1>1 DEF AtHeader
<1>4. /\ g = "first" /\ w \in OpenWords => Begun(b, i, "member", n + 1, PartWords(part))
      /\ g = "first" /\ w \in PartWords(part) => Complete(b, i, n + 1, PartWords(part))
      /\ g = "member" /\ w \in PartWords(part) => Begun(b, i, "separator", n + 1, PartWords(part))
      /\ g = "separator" /\ w \in OrWords => Begun(b, i, "member", n + 1, PartWords(part))
      /\ g = "separator" /\ w \in CloseWords => Complete(b, i, n + 1, PartWords(part))
  BY <1>1, OneWordMore
<1>5. ASSUME /\ g \in {"first", "member"} => w \notin PartWords(part)
             /\ g = "first" => w \notin OpenWords
             /\ g = "separator" => w \notin OrWords /\ w \notin CloseWords
      PROVE  NoHeader(b)
  <2>1. Braceless(PartWords(part))
    BY AfterIs, HeaderWordsBraceless
  <2>2. NoGroup(b, i, PartWords(part))
    BY <1>1, <1>5, <2>1, BadWord
  <2> QED
    BY <1>1, <2>2, NoPart
<1> QED
  BY <1>2, <1>3, <1>4, <1>5, Zenon

LEMMA FromGoesOn ==
  ASSUME NEW b \in Texts, NEW g, NEW n \in Nat, n + 1 <= Len(b), AtHeader(b, "from", g, n),
         NEW w, w = ByName(b[n + 1])
  PROVE  /\ w \in FromWords => AtHeader(b, "source", "first", n + 1)
         /\ w \notin FromWords => NoHeader(b)
<1>1. Complete(b, 1, n, ProtoWords)
  BY AfterIs DEF AtHeader, Listed, PartAt, PartWords
<1>2. w \in FromWords => SourceAt(b, n + 2) /\ Begun(b, n + 2, "first", n + 1, TargetWords)
  <2> SUFFICES ASSUME w \in FromWords
               PROVE  SourceAt(b, n + 2) /\ Begun(b, n + 2, "first", n + 1, TargetWords)
    OBVIOUS
  <2>1. 3 <= n + 2 /\ n + 2 - 1 = n + 1 /\ n + 2 - 2 = n
    BY <1>1 DEF Complete
  <2> QED
    BY <1>1, <2>1 DEF SourceAt, Begun
<1>3. w \in FromWords => AtHeader(b, "source", "first", n + 1)
  <2>1. n + 2 \in Nat \ {0} /\ "source" \in Listed /\ PartWords("source") = TargetWords
    BY DEF Listed, PartWords
  <2> QED
    BY <1>2, <2>1 DEF AtHeader, PartAt
<1> QED
  BY <1>1, <1>3, NoFrom

LEMMA ToGoesOn ==
  ASSUME NEW b \in Texts, NEW n \in Nat, n + 1 <= Len(b), NEW i \in Nat \ {0}, SourceAt(b, i),
         \/ Complete(b, i, n, TargetWords)
         \/ n - 1 \in Nat /\ Complete(b, i, n - 1, TargetWords) /\ ByName(b[n]) \in PortWords,
         ByName(b[n + 1]) \in ToWords
  PROVE  AtHeader(b, "destination", "first", n + 1)
<1>1. /\ n + 2 \in Nat \ {0} /\ n + 2 - 1 = n + 1 /\ n + 2 - 2 = n /\ n + 2 - 3 = n - 1
  OBVIOUS
<1>2. i + 2 <= n + 2
  BY DEF Complete
<1>3. DestinationAt(b, n + 2)
  BY <1>1, <1>2 DEF DestinationAt
<1>4. Begun(b, n + 2, "first", n + 1, TargetWords)
  BY <1>1 DEF Begun
<1>5. "destination" \in Listed /\ PartWords("destination") = TargetWords
  BY DEF Listed, PartWords
<1> QED
  BY <1>1, <1>3, <1>4, <1>5 DEF AtHeader, PartAt

LEMMA SourceGoesOn ==
  ASSUME NEW b \in Texts, NEW g, NEW n \in Nat, n + 1 <= Len(b), AtHeader(b, "to", g, n),
         NEW w, w = ByName(b[n + 1])
  PROVE  /\ w \in ToWords => AtHeader(b, "destination", "first", n + 1)
         /\ w \in PortWords => PortsRead(b, n + 1)
         /\ w \notin ToWords /\ w \notin PortWords => NoHeader(b)
<1>1. PICK i \in Nat \ {0} : SourceAt(b, i) /\ Complete(b, i, n, TargetWords)
  BY AfterIs DEF AtHeader, Listed, PartAt, PartWords
<1>2. w \in PortWords => PortsRead(b, n + 1)
  <2>1. n + 1 >= 1 /\ n + 1 - 1 = n
    OBVIOUS
  <2> QED
    BY <1>1, <2>1 DEF PortsRead
<1> QED
  BY <1>1, <1>2, ToGoesOn, NoTo

LEMMA PortsGoOn ==
  ASSUME NEW b \in Texts, NEW g, NEW n \in Nat, n + 1 <= Len(b), PortsRead(b, n),
         NEW w, w = ByName(b[n + 1])
  PROVE  /\ w \in ToWords => AtHeader(b, "destination", "first", n + 1)
         /\ w \notin ToWords => NoHeader(b)
<1>1. n >= 1 /\ n <= Len(b) /\ ByName(b[n]) \in PortWords
  BY DEF PortsRead
<1>2. PICK i \in Nat \ {0} : SourceAt(b, i) /\ Complete(b, i, n - 1, TargetWords)
  BY DEF PortsRead
<1>3. n - 1 \in Nat /\ n - 1 + 1 = n /\ n - 1 + 2 = n + 1
  BY <1>1
<1>4. w \notin ToWords => NoHeader(b)
  BY <1>1, <1>2, <1>3, NoTo, TextsApart
<1> QED
  BY <1>1, <1>2, <1>3, <1>4, ToGoesOn

LEMMA TrailingIs ==
  ASSUME NEW b \in Texts, NEW g, NEW n \in Nat, n <= Len(b), AtHeader(b, "trailing", g, n)
  PROVE  HeaderIn(b, Len(b) + 1)
<1>1. PICK i \in Nat \ {0} : DestinationAt(b, i) /\ Complete(b, i, n, TargetWords)
  BY AfterIs DEF AtHeader, Listed, PartAt, PartWords
<1>2. HeaderIn(b, n + 1)
  BY <1>1, HeaderDone
<1>3. PICK l \in Nat : l = Len(b)
  BY LenProperties DEF Texts
<1>4. PICK f \in 2..(n + 1 - 4) :
        /\ Fit(b, f, FromWords) /\ GroupIn(b, 1, f - 1, ProtoWords)
        /\ \E t \in (f + 2)..(n + 1 - 2) :
             SourceTo(b, f, t) /\ \E e \in (t + 1)..(n + 1 - 1) : GroupIn(b, t + 1, e, TargetWords)
  BY <1>2 DEF HeaderIn
<1>5. PICK t \in (f + 2)..(n + 1 - 2) :
        SourceTo(b, f, t) /\ \E e \in (t + 1)..(n + 1 - 1) : GroupIn(b, t + 1, e, TargetWords)
  BY <1>4
<1>6. PICK e \in (t + 1)..(n + 1 - 1) : GroupIn(b, t + 1, e, TargetWords)
  BY <1>5
<1>7. f \in 2..(l + 1 - 4) /\ t \in (f + 2)..(l + 1 - 2) /\ e \in (t + 1)..(l + 1 - 1)
  BY <1>3
<1> QED
  BY <1>3, <1>4, <1>5, <1>6, <1>7 DEF HeaderIn

-----------------------------------------------------------------------------
(* A step of the header that is tried.                                     *)

LEMMA WordIs ==
  ASSUME NEW w \in AnyWord
  PROVE  /\ w.proto <=> w \in ProtoWords
         /\ w.target <=> w \in TargetWords
         /\ w.port = "ports" /\ w.text # "to" <=> w \in PortWords
         /\ w.text = "from" <=> w \in FromWords
         /\ w.text = "to" <=> w \in ToWords
         /\ w.text = "{" <=> w \in OpenWords
         /\ w.text = "or" <=> w \in OrWords
         /\ w.text = "}" <=> w \in CloseWords
BY Zenon DEF ProtoWords, TargetWords, PortWords, IsProto, IsTarget, IsPort,
             Text, FromWords, ToWords, OpenWords, OrWords, CloseWords

\* A text is looked at, of which the first word at least was before.
LEMMA TextGoesOn ==
  ASSUME WInv, NEW w, Looked(w)
  PROVE  /\ body \in Texts /\ body' \in Texts /\ GoesOn(body, body')
         /\ at \in Nat \ {0} /\ at - 1 \in Nat /\ at - 1 + 1 = at /\ at <= Len(body')
         /\ w = ByName(body'[at])
         /\ Len(body) >= 1 => Len(body') >= 1 /\ ByName(body'[1]) = ByName(body[1])
<1>1. body \in Texts /\ at \in Nat \ {0}
  BY DEF WInv, Placed, IInv, StateOK
<1>2. PICK l \in Nat, m \in Nat : l = Len(body) /\ m = Len(body')
  BY <1>1, LenProperties DEF Texts, Looked
<1> QED
  BY <1>1, <1>2 DEF Looked, GoesOn

LEMMA ProbeIsOver ==
  ASSUME pass' \in {"group", "real"}, place' # "first protocol", Told(body', grammar', checker', hook')
  PROVE  Tells'
BY Zenon DEF Tells, Probed

\* The header that is tried is there or not, as far as the words looked at tell.
LEMMA TriedHeader ==
  ASSUME TInv, pass = "header", NEW w, Looked(w), checker' = checker, hook' = hook
  PROVE  /\ AtHeader(body', place, group, at - 1)
         /\ ~checker /\ Len(body') >= 1 /\ ByName(body'[1]) # End /\ grammar = "none"
         /\ ~hook => Starts(body', hook)
<1>1. /\ AtHeader(body, place, group, at - 1) /\ ~checker /\ Len(body) >= 1 /\ ByName(body[1]) # End
      /\ ~hook => Starts(body, hook)
  BY Zenon DEF TInv, Tells, Probed
<1>2. grammar = "none"
  BY DEF TInv, WInv, IInv, Parts
<1>3. WInv
  BY DEF TInv
<1>4. AtHeader(body', place, group, at - 1)
  BY <1>1, <1>3, TextGoesOn, StaysAtHeader
<1>5. Starts(body, hook) => Starts(body', hook)
  BY <1>3, TextGoesOn, FirstStays DEF Starts
<1> QED
  BY <1>1, <1>2, <1>3, <1>4, <1>5, TextGoesOn

LEMMA HeaderGoesOn ==
  ASSUME TInv, pass = "header", NEW w, Looked(w), checker' = checker, hook' = hook,
         pass' = "header", grammar' = grammar, place' # "first protocol",
         AtHeader(body', place', group', at' - 1)
  PROVE  Tells'
<1>1. /\ ~checker' /\ Len(body') >= 1 /\ ByName(body'[1]) # End /\ grammar' = "none"
      /\ ~hook' => Starts(body', hook')
  BY TriedHeader
<1>2. pass' # "start"
  OBVIOUS
<1>3. grammar' \notin {"legacy", "native"}
  BY <1>1
<1> QED
  BY <1>1, <1>2, <1>3, Zenon DEF Tells, Probed, Told

LEMMA HeaderEnds ==
  ASSUME TInv, pass = "header", NEW w, Looked(w), checker' = checker, hook' = hook,
         NEW outcome, Ended(outcome),
         outcome = "accepted" => HeaderIn(body', Len(body') + 1),
         outcome # "accepted" => NoHeader(body')
  PROVE  Tells'
<1>1. /\ ~checker' /\ Len(body') >= 1 /\ ByName(body'[1]) # End /\ grammar = "none"
      /\ ~hook' => Starts(body', hook')
  BY TriedHeader
<1>2. CASE outcome = "accepted"
  <2>1. grammar' = "legacy" /\ pass' = "real" /\ place' = "protocols"
    BY <1>2 DEF Ended, Legacy, From
  <2>2. Told(body', grammar', checker', hook')
    BY <1>1, <1>2, <2>1 DEF Told
  <2> QED
    BY <2>1, <2>2, ProbeIsOver
<1>3. CASE outcome # "accepted" /\ hook
  <2>1. grammar' = "none" /\ pass' = "start" /\ at' = 1 /\ place' = "options" /\ group' = "first"
    BY <1>1, <1>3 DEF Ended, Probe, From
  <2>2. pass' # "header" /\ place' # "first protocol" /\ grammar' \notin {"legacy", "native"}
    BY <2>1
  <2>3. NoHeader(body')
    BY <1>3
  <2> QED
    BY <1>1, <2>1, <2>2, <2>3, Zenon DEF Tells, Probed, Told
<1>4. CASE outcome # "accepted" /\ ~hook
  <2>1. grammar' = "native" /\ pass' = "real" /\ place' = "options"
    BY <1>4 DEF Ended, Native, ImplicitAny, From
  <2>2. Told(body', grammar', checker', hook')
    BY <1>1, <1>4, <2>1 DEF Told
  <2> QED
    BY <2>1, <2>2, ProbeIsOver
<1> QED
  BY <1>2, <1>3, <1>4

LEMMA Fitted ==
  ASSUME NEW w \in AnyWord, place \in Listed
  PROVE  Fits(w) <=> w \in PartWords(place)
BY WordIs DEF Fits, PartWords

LEMMA TriedAgain ==
  ASSUME TInv, pass = "header", NEW w \in AnyWord, Looked(w),
         checker' = checker, hook' = hook, UNCHANGED choice, at' = at + 1, place' \in Header \cup {"trailing"},
         AtHeader(body', place', group', at)
  PROVE  Tells'
<1>1. pass' = "header" /\ grammar' = grammar /\ at' - 1 = at
  <2>1. at \in Nat
    BY DEF TInv, WInv, IInv, StateOK
  <2> QED
    BY <2>1 DEF choice
<1>2. place' # "first protocol"
  BY DEF Header, Listed
<1> QED
  BY <1>1, <1>2, HeaderGoesOn

LEMMA ListedTells ==
  ASSUME TInv, pass = "header", NEW w \in AnyWord, Looked(w), checker' = checker, hook' = hook,
         OpenGroup(w) \/ Element(w) \/ Separator(w)
  PROVE  Tells'
<1>1. place \in Listed /\ group \in {"first", "member", "separator"}
  <2>1. place # "options"
    BY DEF TInv, WInv, IInv, Parts, Header, Listed
  <2>2. group = "separator" => place \in Listed \cup {"options"}
    BY DEF TInv, WInv, IInv, Parts
  <2>3. place \in Listed
    BY <2>1, <2>2 DEF OpenGroup, Element, Separator
  <2> QED
    BY <2>3 DEF TInv, WInv, IInv, StateOK
<1>2. WInv
  BY DEF TInv
<1>3. /\ body' \in Texts /\ at - 1 \in Nat /\ at - 1 + 1 = at /\ at <= Len(body') /\ w = ByName(body'[at])
  BY <1>2, TextGoesOn
<1>4. AtHeader(body', place, group, at - 1)
  BY TriedHeader
<1>5. /\ group = "first" /\ w \in OpenWords => AtHeader(body', place, "member", at)
      /\ group = "first" /\ w \in PartWords(place) => AtHeader(body', After(place), "first", at)
      /\ group = "member" /\ w \in PartWords(place) => AtHeader(body', place, "separator", at)
      /\ group = "separator" /\ w \in OrWords => AtHeader(body', place, "member", at)
      /\ group = "separator" /\ w \in CloseWords => AtHeader(body', After(place), "first", at)
      /\ /\ group \in {"first", "member"} => w \notin PartWords(place)
         /\ group = "first" => w \notin OpenWords
         /\ group = "separator" => w \notin OrWords /\ w \notin CloseWords
         => NoHeader(body')
  <2>1. /\ group = "first" /\ w \in OpenWords => AtHeader(body', place, "member", at - 1 + 1)
        /\ group = "first" /\ w \in PartWords(place) => AtHeader(body', After(place), "first", at - 1 + 1)
        /\ group = "member" /\ w \in PartWords(place) => AtHeader(body', place, "separator", at - 1 + 1)
        /\ group = "separator" /\ w \in OrWords => AtHeader(body', place, "member", at - 1 + 1)
        /\ group = "separator" /\ w \in CloseWords => AtHeader(body', After(place), "first", at - 1 + 1)
        /\ /\ group \in {"first", "member"} => w \notin PartWords(place)
           /\ group = "first" => w \notin OpenWords
           /\ group = "separator" => w \notin OrWords /\ w \notin CloseWords
           => NoHeader(body')
    BY <1>1, <1>3, <1>4, ListedGoesOn
  <2> QED
    BY <1>3, <2>1
<1>6. After(place) \in Header \cup {"trailing"} /\ place \in Header \cup {"trailing"}
  BY <1>1 DEF After, Header
<1>7. ASSUME UNCHANGED choice, at' = at + 1, place' \in {place, After(place)},
             AtHeader(body', place', group', at)
      PROVE  Tells'
  BY <1>6, <1>7, TriedAgain
<1>8. ASSUME NEW outcome, outcome # "accepted", Fails(outcome), NoHeader(body') PROVE Tells'
  BY <1>8, HeaderEnds DEF Fails
<1>9. CASE OpenGroup(w)
  <2>1. group = "first" /\ w \in OpenWords /\ at' = at + 1 /\ place' = place /\ group' = "member"
        /\ UNCHANGED choice
    BY <1>9, WordIs DEF OpenGroup, Past
  <2> QED
    BY <1>5, <1>7, <2>1
<1>10. CASE Element(w)
  <2>1. /\ group \in {"first", "member"} /\ (group = "first" => w \notin OpenWords)
        /\ Fits(w) <=> w \in PartWords(place)
    BY <1>1, <1>10, WordIs, Fitted DEF Element
  <2>2. CASE ~Fits(w)
    <3>1. Fails("syntax")
      BY <1>10, <2>2 DEF Element
    <3>2. NoHeader(body')
      BY <1>5, <2>1, <2>2
    <3> QED
      BY <1>8, <3>1, <3>2
  <2>3. CASE Fits(w)
    <3>1. /\ UNCHANGED choice /\ at' = at + 1
          /\ IF group = "member" THEN place' = place /\ group' = "separator"
             ELSE place' = After(place) /\ group' = "first"
      BY <1>10, <2>3 DEF Element, ToState, Past
    <3> QED
      BY <1>5, <1>7, <2>1, <2>3, <3>1
  <2> QED
    BY <2>2, <2>3
<1>11. CASE Separator(w)
  <2>1. group = "separator" /\ place # "options"
    BY <1>1, <1>11 DEF Separator, Listed
  <2>2. CASE w \in OrWords
    <3>1. UNCHANGED choice /\ at' = at + 1 /\ place' = place /\ group' = "member"
      BY <1>11, <2>2, WordIs DEF Separator, Past
    <3> QED
      BY <1>5, <1>7, <2>1, <2>2, <3>1
  <2>3. CASE w \in CloseWords
    <3>1. w.text = "}" /\ w.text # "or"
      BY <2>3, WordIs, Zenon
    <3>2. UNCHANGED choice /\ at' = at + 1 /\ place' = After(place) /\ group' = "first"
      BY <1>11, <2>1, <3>1, Zenon DEF Separator, Past
    <3> QED
      BY <1>5, <1>7, <2>1, <2>3, <3>2
  <2>4. CASE w \notin OrWords /\ w \notin CloseWords
    <3>1. w.text # "}" /\ w.text # "or"
      BY <2>4, WordIs, Zenon
    <3>2. Fails("syntax")
      BY <1>11, <3>1, Zenon DEF Separator
    <3>3. NoHeader(body')
      BY <1>5, <2>1, <2>4
    <3> QED
      BY <1>8, <3>2, <3>3
  <2> QED
    BY <2>2, <2>3, <2>4
<1> QED
  BY <1>9, <1>10, <1>11

LEMMA ToOnly ==
  ASSUME NEW b, NEW g, NEW n
  PROVE  AtHeader(b, "to only", g, n) <=> PortsRead(b, n)
<1>1. "to only" \notin Listed /\ \A p \in Listed : After(p) # "to only"
  BY Zenon DEF Listed, After
<1> QED
  BY <1>1, Zenon DEF AtHeader

LEMMA KeywordTells ==
  ASSUME TInv, pass = "header", NEW w \in AnyWord, Looked(w), checker' = checker, hook' = hook,
         Keyword(w) \/ NoKeyword(w)
  PROVE  Tells'
<1>1. WInv /\ place \in {"from", "to", "to only"}
  BY DEF TInv, Keyword, NoKeyword, Header
<1>2. /\ body' \in Texts /\ at - 1 \in Nat /\ at - 1 + 1 = at /\ at <= Len(body') /\ w = ByName(body'[at])
  BY <1>1, TextGoesOn
<1>3. AtHeader(body', place, group, at - 1)
  BY TriedHeader
<1>4. ASSUME UNCHANGED choice, Past("source", "first"), AtHeader(body', "source", "first", at) PROVE Tells'
  BY <1>4, TriedAgain, Zenon DEF Past, Header, Listed
<1>5. ASSUME UNCHANGED choice, Past("destination", "first"), AtHeader(body', "destination", "first", at) PROVE Tells'
  BY <1>5, TriedAgain, Zenon DEF Past, Header, Listed
<1>6. ASSUME UNCHANGED choice, Past("to only", "first"), PortsRead(body', at) PROVE Tells'
  BY <1>6, TriedAgain, ToOnly, Zenon DEF Past, Header, Listed
<1>7. ASSUME Fails("syntax"), NoHeader(body') PROVE Tells'
  BY <1>7, HeaderEnds DEF Fails
<1>8. ~ToState
  BY DEF ToState
<1>9. CASE place = "from"
  <2>1. /\ w \in FromWords => AtHeader(body', "source", "first", at)
        /\ w \notin FromWords => NoHeader(body')
    <3>1. AtHeader(body', "from", group, at - 1)
      BY <1>3, <1>9
    <3> QED
      BY <1>2, <3>1, FromGoesOn
  <2>2. \/ w \in FromWords /\ Past("source", "first") /\ UNCHANGED choice
        \/ w \notin FromWords /\ Fails("syntax")
    BY <1>9, WordIs, Zenon DEF Keyword, NoKeyword
  <2> QED
    BY <1>4, <1>7, <2>1, <2>2
<1>10. CASE place = "to"
  <2>1. /\ w \in ToWords => AtHeader(body', "destination", "first", at)
        /\ w \in PortWords => PortsRead(body', at)
        /\ w \notin ToWords /\ w \notin PortWords => NoHeader(body')
    <3>1. AtHeader(body', "to", group, at - 1)
      BY <1>3, <1>10
    <3> QED
      BY <1>2, <3>1, SourceGoesOn
  <2>2. \/ w \in ToWords /\ Past("destination", "first") /\ UNCHANGED choice
        \/ w \in PortWords /\ Past("to only", "first") /\ UNCHANGED choice
        \/ w \notin ToWords /\ w \notin PortWords /\ Fails("syntax")
    BY <1>8, <1>10, WordIs, Zenon DEF Keyword, NoKeyword
  <2> QED
    BY <1>5, <1>6, <1>7, <2>1, <2>2
<1>11. CASE place = "to only"
  <2>1. /\ w \in ToWords => AtHeader(body', "destination", "first", at)
        /\ w \notin ToWords => NoHeader(body')
    <3>1. PortsRead(body', at - 1)
      BY <1>3, <1>11, ToOnly
    <3> HIDE <1>11
    <3> QED
      BY <1>2, <3>1, PortsGoOn
  <2>2. \/ w \in ToWords /\ Past("destination", "first") /\ UNCHANGED choice
        \/ w \notin ToWords /\ Fails("syntax")
    BY <1>8, <1>11, WordIs, Zenon DEF Keyword, NoKeyword
  <2> QED
    BY <1>5, <1>7, <2>1, <2>2, Zenon
<1> QED
  BY <1>1, <1>9, <1>10, <1>11, Zenon

LEMMA TrailingTells ==
  ASSUME TInv, pass = "header", NEW w \in AnyWord, Looked(w), checker' = checker, hook' = hook, Trailing(w)
  PROVE  Tells'
<1>1. place = "trailing" /\ Ended("accepted")
  BY DEF Trailing, Fails
<1>2. WInv
  BY DEF TInv
<1>3. body' \in Texts /\ at - 1 \in Nat /\ at - 1 <= Len(body')
  <2>1. body' \in Texts /\ at - 1 \in Nat /\ at <= Len(body') /\ at \in Nat
    BY <1>2, TextGoesOn
  <2>2. Len(body') \in Nat
    BY <2>1, LenProperties DEF Texts
  <2> QED
    BY <2>1, <2>2
<1>4. AtHeader(body', "trailing", group, at - 1)
  BY <1>1, TriedHeader
<1>5. HeaderIn(body', Len(body') + 1)
  BY <1>3, <1>4, TrailingIs
<1> QED
  BY <1>1, <1>5, HeaderEnds

-----------------------------------------------------------------------------
(* The other passes.                                                       *)

LEMMA OptionForIs == \A w : OptionOf(w) = OptionFor(hook, w)
BY DEF OptionOf, OptionFor

\* A pass after the choice: the text goes on, the grammar stays.
LEMMA ReadingTells ==
  ASSUME TInv, NEW w, Looked(w), checker' = checker, hook' = hook, pass' \in {"group", "real"},
         place' # "first protocol", grammar' = grammar
  PROVE  Tells'
<1>1. Told(body, grammar, checker, hook) /\ WInv
  BY DEF TInv, Tells
<1>2. Told(body', grammar, checker, hook)
  BY <1>1, TextGoesOn, StaysTold
<1> QED
  BY <1>2, ProbeIsOver

LEMMA RealTells ==
  ASSUME TInv, pass \in {"group", "real"}, NEW w, Looked(w), checker' = checker, hook' = hook, Step(w)
  PROVE  Tells'
<1>1. place \notin {"body", "first protocol"}
  BY DEF TInv, WInv, IInv, Parts
<1>2. ASSUME NEW outcome, Ended(outcome)
      PROVE  pass' = "real" /\ grammar' = grammar
             /\ place' \in {place, "destination ports", "options"}
  BY <1>2 DEF Ended, From, choice
<1>3. /\ pass' \in {"group", "real"} /\ grammar' = grammar
      /\ place' \in {place, After(place), "options", "destination ports", "source", "destination", "to only"}
  <2>1. ASSUME UNCHANGED choice PROVE pass' \in {"group", "real"} /\ grammar' = grammar
    BY <2>1 DEF choice
  <2>2. ASSUME NEW outcome, Fails(outcome)
        PROVE  pass' = "real" /\ grammar' = grammar /\ place' \in {place, "destination ports", "options"}
    BY <1>2, <2>2 DEF Fails
  <2>3. CASE Choose(w) \/ ChooseByMember(w)
    BY <2>3 DEF Choose, ChooseByMember
  <2>4. CASE OpenGroup(w)
    BY <2>1, <2>4, Zenon DEF OpenGroup, Past
  <2>5. CASE Element(w)
    BY <2>1, <2>2, <2>5, Zenon DEF Element, Past
  <2>6. CASE Separator(w)
    BY <2>1, <2>2, <2>6, Zenon DEF Separator, Past
  <2>7. CASE Keyword(w)
    BY <2>1, <2>7, Zenon DEF Keyword, Past
  <2>8. CASE NoKeyword(w)
    BY <2>2, <2>8, Zenon DEF NoKeyword
  <2>9. CASE Trailing(w)
    BY <2>1, <2>2, <2>9 DEF Trailing, From
  <2>10. CASE DestinationPorts(w)
    BY <2>1, <2>2, <2>10, Zenon DEF DestinationPorts, Past, From
  <2>11. CASE OptionFails(w)
    BY <1>2, <2>11, Zenon DEF OptionFails
  <2>12. CASE OnOption(w)
    BY <1>2, <2>1, <2>12, Zenon DEF OnOption, Past
  <2>13. CASE OnComment(w)
    BY <2>1, <2>2, <2>13, Zenon DEF OnComment
  <2>14. CASE Over(w)
    BY <2>2, <2>14, Zenon DEF Over
  <2> QED
    BY <2>3, <2>4, <2>5, <2>6, <2>7, <2>8, <2>9, <2>10, <2>11, <2>12, <2>13, <2>14, Zenon DEF Step
<1>4. place' # "first protocol"
  <2>1. After(place) # "first protocol"
    BY Zenon DEF After
  <2> QED
    BY <1>1, <1>3, <2>1, Zenon
<1> QED
  BY <1>3, <1>4, ReadingTells, Zenon

LEMMA HeaderBegins ==
  ASSUME NEW b \in Texts
  PROVE  AtHeader(b, "protocols", "first", 0)
<1>1. "protocols" \in Listed /\ 1 \in Nat \ {0} /\ 0 <= Len(b)
  BY LenProperties DEF Listed, Texts
<1>2. PartAt(b, "protocols", 1) /\ Begun(b, 1, "first", 0, PartWords("protocols"))
  BY <1>1 DEF PartAt, Begun
<1> QED
  BY <1>1, <1>2, Zenon DEF AtHeader

LEMMA HeaderIsTried ==
  ASSUME TInv, NEW w, Looked(w), checker' = checker, hook' = hook, ~checker, grammar = "none",
         Probe("header", "protocols"), Len(body') >= 1, ByName(body'[1]) # End,
         ~hook => Starts(body', hook)
  PROVE  Tells'
<1>1. pass' = "header" /\ at' = 1 /\ place' = "protocols" /\ group' = "first" /\ grammar' = "none"
  BY DEF Probe, From
<1>2. WInv
  BY DEF TInv
<1>3. AtHeader(body', "protocols", "first", 0)
  BY <1>2, TextGoesOn, HeaderBegins
<1>4. AtHeader(body', place', group', at' - 1)
  BY <1>1, <1>3
<1>5. pass' # "start" /\ place' # "first protocol" /\ grammar' \notin {"legacy", "native"}
  BY <1>1
<1> QED
  BY <1>4, <1>5, Zenon DEF Tells, Probed, Told

LEMMA StartTells ==
  ASSUME TInv, pass = "start", NEW w \in AnyWord, Looked(w), checker' = checker, hook' = hook, Step(w)
  PROVE  Tells'
<1>1. /\ ~checker /\ Len(body) >= 1 /\ ByName(body[1]) # End
      /\ \/ group = "first" /\ at = 1
         \/ group = "member" /\ at = 2 /\ ByName(body[1]) \in OpenWords
      /\ hook => NoHeader(body)
  BY Zenon DEF TInv, Tells, Probed
<1>2. WInv /\ place = "options" /\ grammar = "none"
  BY DEF TInv, WInv, IInv, Parts
<1>3. /\ body \in Texts /\ body' \in Texts /\ GoesOn(body, body') /\ at <= Len(body') /\ w = ByName(body'[at])
      /\ Len(body') >= 1 /\ ByName(body'[1]) = ByName(body[1])
  BY <1>1, <1>2, TextGoesOn
<1>4. hook => NoHeader(body')
  BY <1>1, <1>3, FewerHeaders
<1>5. OpenGroup(w) \/ OptionFails(w)
  <2>1. group # "separator"
    BY <1>1
  <2>2. w = End => group # "first"
    BY <1>1, <1>3
  <2>3. ~Choose(w) /\ ~ChooseByMember(w) /\ ~Element(w) /\ ~Keyword(w) /\ ~NoKeyword(w) /\ ~Trailing(w)
        /\ ~DestinationPorts(w)
    BY <1>2, Zenon DEF Choose, ChooseByMember, Element, Keyword, NoKeyword, Trailing, DestinationPorts,
                      Header, Listed
  <2>4. ~Separator(w) /\ ~Over(w) /\ ~OnOption(w) /\ ~OnComment(w)
    BY <2>1, <2>2, Zenon DEF Separator, Over, OnOption, OnComment
  <2> QED
    BY <2>3, <2>4 DEF Step
<1>6. CASE OpenGroup(w)
  <2>1. group = "first" /\ w.text = "{" /\ UNCHANGED choice /\ at' = at + 1 /\ place' = place /\ group' = "member"
    BY <1>6, Zenon DEF OpenGroup, Past
  <2>2. w \in OpenWords
    BY <2>1, WordIs, Zenon
  <2>3. at' = 2 /\ ByName(body'[1]) \in OpenWords
    <3>1. at = 1 /\ at' = at + 1
      BY <1>1, <2>1, Zenon
    <3> QED
      BY <1>3, <2>2, <3>1
  <2>4. pass' = "start" /\ pass' # "header" /\ place' # "first protocol" /\ grammar' \notin {"legacy", "native"}
    BY <1>2, <2>1 DEF choice
  <2> QED
    BY <1>1, <1>3, <1>4, <2>1, <2>3, <2>4, Zenon DEF Tells, Probed, Told
<1>7. CASE OptionFails(w)
  <2>1. w \notin OpenWords \/ group # "first"
    BY <1>7, WordIs, Zenon DEF OptionFails
  <2>2. FirstSettled(body') /\ FirstOf(body') = w
    BY <1>1, <1>3, <2>1 DEF FirstSettled, FirstOf
  <2>3. FallsBack(Outcome(w)) <=> OptionFor(hook, w) = "unknown"
    BY KnownOutcome, OptionForIs DEF FallsBack
  <2>4. Started(~FallsBack(Outcome(w)))
    BY <1>7 DEF OptionFails, Ended
  <2>5. CASE FallsBack(Outcome(w))
    <3>1. grammar' = "legacy" /\ pass' = "real" /\ place' = "protocols"
      BY <2>4, <2>5 DEF Started, Legacy, From
    <3>2. Told(body', grammar', checker', hook')
      BY <1>1, <2>2, <2>3, <2>5, <3>1 DEF Told, StartsNot
    <3> QED
      BY <3>1, <3>2, ProbeIsOver
  <2>6. CASE ~FallsBack(Outcome(w)) /\ hook
    <3>1. grammar' = "native" /\ pass' = "real" /\ place' = "options"
      BY <2>4, <2>6 DEF Started, Native, ImplicitAny, From
    <3>2. Told(body', grammar', checker', hook')
      BY <1>1, <1>4, <2>2, <2>3, <2>6, <3>1 DEF Told, Starts
    <3> QED
      BY <3>1, <3>2, ProbeIsOver
  <2>7. CASE ~FallsBack(Outcome(w)) /\ ~hook
    <3>1. Probe("header", "protocols")
      BY <2>4, <2>7 DEF Started
    <3>2. Starts(body', hook)
      BY <2>2, <2>3, <2>7 DEF Starts
    <3> QED
      BY <1>1, <1>2, <1>3, <3>1, <3>2, HeaderIsTried
  <2> QED
    BY <2>5, <2>6, <2>7
<1> QED
  BY <1>5, <1>6, <1>7

\* No grammar is chosen and no probe runs.
LEMMA Untold ==
  ASSUME pass' \notin {"start", "header"}, place' # "first protocol", grammar' \notin {"legacy", "native"}
  PROVE  Tells'
BY Zenon DEF Tells, Probed, Told

LEMMA InstructionTells ==
  ASSUME TInv, NEW w, Instruction(w)
  PROVE  Tells'
<1>1. pass = "choice" /\ grammar = "none" /\ place = "rule"
  BY Zenon DEF TInv, WInv, IInv, Parts, Instruction
<1>2. \/ UNCHANGED choice /\ place' \in {"body", "rule"}
      \/ grammar' \in {"comment only", "check-state"} /\ pass' = "real" /\ place' = "options"
  BY <1>1, Zenon DEF Instruction, ImplicitAny, From
<1>3. /\ pass' \notin {"start", "header"} /\ grammar' \notin {"legacy", "native"}
      /\ place' \in {"body", "rule", "options"}
  BY <1>1, <1>2 DEF choice
<1> QED
  BY <1>3, Untold

LEMMA FirstDecides ==
  ASSUME checker, NEW w, FirstSettled(body'), FirstOf(body') = w,
         IF w.proto /\ w.known THEN Legacy ELSE Native, checker' = checker
  PROVE  Tells'
<1>1. /\ pass' = "real" /\ place' \in {"protocols", "options"} /\ grammar' \in {"legacy", "native"}
      /\ grammar' = "legacy" <=> w.proto /\ w.known
  BY DEF Legacy, Native, ImplicitAny, From
<1>2. Told(body', grammar', checker', hook')
  BY <1>1 DEF Told
<1> QED
  BY <1>1, <1>2, ProbeIsOver

LEMMA ChoiceTells ==
  ASSUME TInv, pass = "choice", NEW w \in AnyWord, Looked(w), checker' = checker, hook' = hook, Step(w)
  PROVE  Tells'
<1>1. /\ WInv /\ place \in {"rule", "body", "first protocol"} /\ grammar = "none"
      /\ (place = "body" => at = 1) /\ group = "first"
  <2>1. /\ WInv /\ place \in {"rule", "body", "first protocol"} /\ grammar = "none"
        /\ (place = "body" => at = 1) /\ (group # "first" => place \in Listed \cup {"options"})
    BY Zenon DEF TInv, WInv, IInv, Parts
  <2> QED
    BY <2>1, Zenon DEF Listed
<1>2. /\ place = "first protocol" => checker /\ at = 2 /\ Len(body) >= 1 /\ ByName(body[1]) \in OpenWords
  BY Zenon DEF TInv, Tells, Probed
<1>3. /\ body' \in Texts /\ at <= Len(body') /\ w = ByName(body'[at])
      /\ Len(body) >= 1 => Len(body') >= 1 /\ ByName(body'[1]) = ByName(body[1])
  BY <1>1, TextGoesOn
<1>4. Choose(w) \/ ChooseByMember(w)
  <2>1. ~OpenGroup(w) /\ ~Element(w) /\ ~Keyword(w) /\ ~NoKeyword(w) /\ ~Trailing(w) /\ ~DestinationPorts(w)
    BY <1>1, Zenon DEF OpenGroup, Element, Keyword, NoKeyword, Trailing, DestinationPorts, Header, Listed
  <2>2. ~Separator(w) /\ ~OptionFails(w) /\ ~OnOption(w) /\ ~OnComment(w) /\ ~Over(w)
    BY <1>1, Zenon DEF Separator, OptionFails, OnOption, OnComment, Over, ToOption
  <2> QED
    BY <2>1, <2>2 DEF Step
<1>5. CASE ChooseByMember(w)
  <2>1. checker /\ at = 2 /\ ByName(body'[1]) \in OpenWords
    BY <1>2, <1>3, <1>5, Zenon DEF ChooseByMember
  <2>2. FirstSettled(body') /\ FirstOf(body') = w
    BY <1>3, <2>1 DEF FirstSettled, FirstOf
  <2>3. IF w.proto /\ w.known THEN Legacy ELSE Native
    BY <1>5, Zenon DEF ChooseByMember
  <2> QED
    BY <2>1, <2>2, <2>3, FirstDecides
<1>6. CASE Choose(w)
  <2>1. at = 1 /\ Len(body') >= 1 /\ w = ByName(body'[1]) /\ place = "body"
    BY <1>1, <1>3, <1>6 DEF Choose
  <2>2. CASE w = End
    <3>1. UNCHANGED choice /\ place' = place
      BY <1>6, <2>2, Zenon DEF Choose
    <3>2. pass' \notin {"start", "header"} /\ place' # "first protocol" /\ grammar' \notin {"legacy", "native"}
      BY <1>1, <2>1, <3>1 DEF choice
    <3> QED
      BY <3>2, Untold
  <2>3. CASE w # End /\ ~checker /\ hook
    <3>1. Probe("header", "protocols")
      BY <1>6, <2>3, Zenon DEF Choose, FirstProbe
    <3> QED
      BY <1>1, <2>1, <2>3, <3>1, HeaderIsTried
  <2>4. CASE w # End /\ ~checker /\ ~hook
    <3>1. Probe("start", "options")
      BY <1>6, <2>4, Zenon DEF Choose, FirstProbe
    <3>2. /\ pass' = "start" /\ at' = 1 /\ group' = "first" /\ place' = "options" /\ grammar' = "none"
      BY <1>1, <3>1 DEF Probe, From
    <3>3. pass' # "header" /\ place' # "first protocol" /\ grammar' \notin {"legacy", "native"}
      BY <3>2
    <3> QED
      BY <2>1, <2>4, <3>2, <3>3, Zenon DEF Tells, Probed, Told
  <2>5. CASE w # End /\ checker /\ w \in OpenWords
    <3>1. Past("first protocol", "first") /\ UNCHANGED choice
      BY <1>6, <2>5, WordIs, Zenon DEF Choose
    <3>2. pass' = "choice" /\ grammar' = "none" /\ at' = 2
      <4>1. pass' = "choice" /\ grammar' = "none" /\ at' = at + 1
        BY <1>1, <3>1, Zenon DEF choice, Past
      <4> QED
        BY <2>1, <4>1
    <3>3. pass' \notin {"start", "header"} /\ grammar' \notin {"legacy", "native"}
      BY <3>2
    <3> QED
      BY <2>1, <2>5, <3>2, <3>3, Zenon DEF Tells, Probed, Told
  <2>6. CASE w # End /\ checker /\ w \notin OpenWords
    <3>1. IF w.proto /\ w.known THEN Legacy ELSE Native
      BY <1>6, <2>6, WordIs, Zenon DEF Choose
    <3>2. FirstSettled(body') /\ FirstOf(body') = w
      BY <2>1, <2>6 DEF FirstSettled, FirstOf
    <3> QED
      BY <2>6, <3>1, <3>2, FirstDecides
  <2> QED
    BY <2>2, <2>3, <2>4, <2>5, <2>6
<1> QED
  BY <1>4, <1>5, <1>6

LEMMA ReadTellsText ==
  ASSUME TInv, WInv', Read
  PROVE  TInv'
<1>1. PICK w \in Words \cup {End} :
        /\ Look(w) /\ (Instruction(w) \/ (taken' = taken /\ Step(w)))
        /\ checker' = checker /\ hook' = hook
  BY DEF Read, options
<1>2. w \in AnyWord
  BY DEF AnyWord
<1>3. WInv /\ Looked(w)
  BY <1>1, LookFacts DEF TInv
<1>4. CASE Instruction(w)
  BY <1>4, InstructionTells DEF TInv
<1>5. CASE Step(w)
  <2>1. pass \in {"choice", "start", "header", "group", "real"}
    BY DEF TInv, WInv, IInv, StateOK, Pass
  <2>2. CASE pass = "header"
    <3>1. place \in Header \cup {"trailing"}
      BY <2>2 DEF TInv, WInv, IInv, Parts
    <3>2. ~Choose(w) /\ ~ChooseByMember(w) /\ ~DestinationPorts(w) /\ ~OptionFails(w) /\ ~OnOption(w)
          /\ ~OnComment(w) /\ ~Over(w)
      <4>1. place \notin {"destination ports", "options"}
        BY <3>1, Zenon DEF Header, Listed
      <4> QED
        BY <2>2, <4>1, Zenon DEF Choose, ChooseByMember, DestinationPorts, OptionFails, OnOption, OnComment, Over,
                                 ToOption
    <3>3. OpenGroup(w) \/ Element(w) \/ Separator(w) \/ Keyword(w) \/ NoKeyword(w) \/ Trailing(w)
      BY <1>5, <3>2 DEF Step
    <3>4. Tells'
      BY <1>1, <1>2, <1>3, <2>2, <3>3, ListedTells, KeywordTells, TrailingTells
    <3> QED
      BY <3>4 DEF TInv
  <2>3. CASE pass # "header"
    BY <1>1, <1>2, <1>3, <1>5, <2>1, <2>3, ChoiceTells, StartTells, RealTells DEF TInv
  <2> QED
    BY <2>2, <2>3
<1> QED
  BY <1>1, <1>4, <1>5

LEMMA ReadsNextTellsText ==
  ASSUME NEW text, ReadsNext(text)
  PROVE  Tells'
<1>1. pass' = "choice" /\ place' = "rule" /\ grammar' = "none"
  BY DEF ReadsNext, From
<1>2. pass' \notin {"start", "header"} /\ place' # "first protocol" /\ grammar' \notin {"legacy", "native"}
  BY <1>1
<1> QED
  BY <1>2, Untold

LEMMA SameTellsText ==
  ASSUME TInv, checker' = checker, hook' = hook, UNCHANGED <<body, at, choice, place, group>>
  PROVE  Tells'
BY Zenon DEF TInv, Tells, choice

LEMMA NextTellsText == TInv /\ [Next]_vars => TInv'
<1> SUFFICES ASSUME TInv, [Next]_vars PROVE TInv'
  OBVIOUS
<1>1. WInv'
  BY NextTells DEF TInv
<1>2. CASE Read
  BY <1>1, <1>2, ReadTellsText
<1>3. CASE NextLine
  <2>1. ReadsNext(<<>>)
    BY <1>3 DEF NextLine
  <2> QED
    BY <1>1, <2>1, ReadsNextTellsText DEF TInv
<1>4. ASSUME NEW appender \in BOOLEAN, Format(appender) PROVE TInv'
  <2>1. checker' = checker /\ hook' = hook
    BY <1>4 DEF Format, options
  <2>2. CASE Refusal(ParsedRecord, appender) = "none"
    <3>1. ReadsNext(Append(Names(InstructionText(ParsedRecord)), "end"))
      BY <1>4, <2>2 DEF Format
    <3> QED
      BY <1>1, <3>1, ReadsNextTellsText DEF TInv
  <2>3. CASE Refusal(ParsedRecord, appender) # "none"
    <3>1. UNCHANGED <<body, at, choice, place, group>>
      BY <1>4, <2>3 DEF Format
    <3> QED
      BY <1>1, <2>1, <3>1, SameTellsText DEF TInv
  <2> QED
    BY <2>2, <2>3
<1>5. CASE UNCHANGED vars
  <2>1. checker' = checker /\ hook' = hook /\ UNCHANGED <<body, at, choice, place, group>>
    BY <1>5 DEF vars, options
  <2> QED
    BY <1>1, <2>1, SameTellsText DEF TInv
<1> QED
  BY <1>2, <1>3, <1>4, <1>5 DEF Next

LEMMA InitTellsText == Init => TInv
<1> SUFFICES ASSUME Init PROVE TInv
  OBVIOUS
<1>1. pass = "choice" /\ place = "rule" /\ grammar = "none"
  BY DEF Init
<1>2. pass \notin {"start", "header"} /\ place # "first protocol" /\ grammar \notin {"legacy", "native"}
  BY <1>1
<1>3. Tells
  BY <1>2, Zenon DEF Tells, Probed, Told
<1> QED
  BY <1>3, InitTells DEF TInv

LEMMA TellingText == Spec => []TInv
BY InitTellsText, NextTellsText, PTL DEF Spec

\* What the invariant says of the body looked at.
LEMMA TextIs ==
  ASSUME TInv
  PROVE  /\ body \in Texts
         /\ NoHeader(body) => ~HeaderMayCome
         /\ HeaderIn(body, Len(body) + 1) => HasHeader
         /\ FirstSettled(body) => FirstOf(body) = FirstMember
<1>1. body \in Texts
  BY DEF TInv, WInv, Placed
<1>2. Len(body) \in Nat /\ Len(body) + 1 \in Nat /\ Len(body) + 7 \in Nat
  BY <1>1, LenProperties DEF Texts
<1>3. NoHeader(body) => ~HeaderMayCome
  BY <1>1, <1>2, HeadersIn DEF NoHeader, HeaderMayCome
<1>4. HeaderIn(body, Len(body) + 1) => HasHeader
  BY <1>1, <1>2, HeadersIn DEF HasHeader
<1>5. ASSUME FirstSettled(body) PROVE FirstOf(body) = FirstMember
  <2>1. Fit(body, 1, OpenWords) <=> Reads(1, "{")
    <3>1. 1 \in Nat \ {0}
      OBVIOUS
    <3> QED
      BY <1>1, <3>1, FitsIn, Zenon
  <2>2. ~(1 > Len(body))
    BY <1>2, <1>5 DEF FirstSettled
  <2>3. ByName(body[1]) \in OpenWords <=> WordAt(1).text = "{"
    BY <2>1, <2>2, Zenon DEF Fit, Reads
  <2> QED
    BY <2>3, Zenon DEF FirstOf, FirstMember, WordAt
<1> QED
  BY <1>1, <1>3, <1>4, <1>5

\* A hook is asked how a body begins only when no header is there, nor can be whatever
\* follows (parser.go, parseRuleBody), for bodies of any length.
THEOREM HookWaitsForHeader == Spec => []HookWaits
<1>1. TInv => HookWaits
  <2> SUFFICES ASSUME TInv, pass = "start", hook PROVE ~checker /\ ~HeaderMayCome
    BY DEF HookWaits
  <2>1. ~checker /\ NoHeader(body)
    BY Zenon DEF TInv, Tells, Probed
  <2> QED
    BY <2>1, TextIs
<1> QED
  BY <1>1, TellingText, PTL

\* With a checker the first protocol decides alone; otherwise the grammar is the header's
\* if there is a whole header or if the body begins like no option, and the options' only
\* if there is none, nor can be (parser.go, parseRuleBody, startsProtocol, startsOptions).
THEOREM TextDecidesGrammar == Spec => []GrammarFollowsTheText
<1>1. TInv => GrammarFollowsTheText
  <2> SUFFICES ASSUME TInv PROVE GrammarFollowsTheText
    OBVIOUS
  <2>1. Told(body, grammar, checker, hook)
    BY DEF TInv, Tells
  <2>2. /\ grammar = "legacy" /\ ~checker => HeaderIn(body, Len(body) + 1) \/ StartsNot(body, hook)
        /\ grammar = "native" /\ ~checker => NoHeader(body) /\ Starts(body, hook)
        /\ grammar \in {"legacy", "native"} /\ checker =>
             FirstSettled(body) /\ (grammar = "legacy" <=> FirstOf(body).proto /\ FirstOf(body).known)
    BY <2>1 DEF Told
  <2>3. /\ StartsNot(body, hook) => OptionOf(FirstMember) = "unknown"
        /\ Starts(body, hook) => OptionOf(FirstMember) # "unknown"
    BY TextIs, OptionForIs DEF StartsNot, Starts
  <2> QED
    BY <2>2, <2>3, TextIs, Zenon DEF GrammarFollowsTheText
<1> QED
  BY <1>1, TellingText, PTL

=============================================================================
