----------------------------- MODULE MCDbClient -----------------------------
(* Instances of DbClient for TLC. *)
EXTENDS DbClient, TLC

\* Callers and clients are interchangeable; only runs without liveness say so.
Symmetry == Permutations(Callers) \cup Permutations(Clients)
=============================================================================
