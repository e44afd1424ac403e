----------------------------- MODULE MCBuilder -----------------------------
(***************************************************************************)
(* Builds of small scripts, each of one subject, and a check of each.      *)
(***************************************************************************)
EXTENDS VM, BuilderEntries, Samples

MCNext == VMNext /\ OneSubject(script')

MCSpec == VMInit /\ [][MCNext]_vmVars /\ WF_vmVars(Check)

=============================================================================
