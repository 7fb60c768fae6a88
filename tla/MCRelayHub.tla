----------------------------- MODULE MCRelayHub -----------------------------
(* Instances of RelayHub for TLC. *)
EXTENDS RelayHub

\* Connections and devices are interchangeable.  Only for safety runs.
Symmetry == Permutations(Conns) \cup Permutations(Devices)
=============================================================================
