--------------------------- MODULE MCSigningKeys ---------------------------
(* Instances of SigningKeys for TLC. *)
EXTENDS SigningKeys, TLC

\* Keys and containers are interchangeable; only runs without liveness say so.
Symmetry == Permutations(Containers) \cup Permutations(Kids)
=============================================================================
