---------------------------- MODULE SingleFlight ----------------------------
(***************************************************************************)
(* What a promise used as a lock promises: at most one flight of a shared  *)
(* operation at a time, everyone who asks during a flight joins it, and    *)
(* the end of the flight releases exactly those who joined.                *)
(* PrismaDBClientDatasource.invalidateClient is the implementation         *)
(* (module DbClient).                                                      *)
(***************************************************************************)
CONSTANTS Callers, NoCaller

VARIABLES
  leader,   \* the caller whose flight is under way, or NoCaller
  waiters   \* the callers that joined it

vars == <<leader, waiters>>

Init ==
  /\ leader = NoCaller
  /\ waiters = {}

\* p finds no flight and starts one.
Lead(p) ==
  /\ leader = NoCaller
  /\ leader' = p
  /\ UNCHANGED waiters

\* p finds a flight that is not its own and waits for it.
Join(p) ==
  /\ leader \notin {NoCaller, p}
  /\ p \notin waiters
  /\ waiters' = waiters \cup {p}
  /\ UNCHANGED leader

\* The flight ends: the lock is free and nobody waits any more.
Land ==
  /\ leader # NoCaller
  /\ leader' = NoCaller
  /\ waiters' = {}

Next == Land \/ \E p \in Callers : Lead(p) \/ Join(p)

Spec == Init /\ [][Next]_vars

=============================================================================
