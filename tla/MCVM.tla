-------------------------------- MODULE MCVM --------------------------------
(***************************************************************************)
(* Builds of small scripts and a check of each.                            *)
(***************************************************************************)
EXTENDS VM, Samples
=============================================================================
