------------------------------ MODULE MCIfMask -------------------------------
(***************************************************************************)
(* Masks for TLC: every byte with a meaning, and two letters.              *)
(***************************************************************************)
EXTENDS IfMask

MCPatternBytes == {Bang, Star, Dash, Question, Open, Backslash, Close, 97}
MCNameBytes == {Open, Backslash, 97, 98}

=============================================================================
