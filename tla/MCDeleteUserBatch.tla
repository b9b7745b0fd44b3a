------------------------ MODULE MCDeleteUserBatch ------------------------
(* Instances of DeleteUserBatch for TLC. *)
EXTENDS DeleteUserBatch

\* The mark of a variable that holds no integer.
NotAnInteger == -1
=============================================================================
