---------------------------- MODULE MCInputSync ----------------------------
(* InputSync for TLC. *)
EXTENDS InputSync, TLC

\* The windows differ in nothing but their contents and the focus.
Symmetry == Permutations(Windows)
=============================================================================
