--------------------------- MODULE BuilderEntries ---------------------------
(***************************************************************************)
(* What a build does to the table registry, which outlives a failed build. *)
(***************************************************************************)
EXTENDS Builder, SequencesExt

\* What the lines say the registry holds, the type of a table being that of the
\* last create of it before the add.
Asked(i) ==
  LET creates == {j \in 1..(i - 1) : IsCreate(script[j]) /\ script[j].table = script[i].table}
      last == CHOOSE j \in creates : \A k \in creates : k <= j
  IN IF ~IsAdd(script[i]) THEN <<>>
     ELSE Updates(script[i], IF creates = {} THEN "addr" ELSE CreatedType(script[last]))

\* The registry took the updates of the ruleset in the order written, all of
\* them after a build and all of those before the failure otherwise: none is
\* rolled back, lost or taken twice.
EntriesFollowScript ==
  LET upTo(n) == FlattenSeq([i \in 1..n |-> Asked(i)])
  IN IF status = "failed" /\ failure.kind # "unresolved"
     THEN /\ IsPrefix(upTo(Len(script) - 1), entries)
          /\ failure.kind = "registry" =>
               entries # upTo(Len(script)) /\ IsPrefix(entries, upTo(Len(script)))
          /\ failure.kind # "registry" => entries = upTo(Len(script) - 1)
     ELSE entries = upTo(Len(script))

=============================================================================
