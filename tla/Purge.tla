------------------------------- MODULE Purge -------------------------------
(***************************************************************************)
(* What the delete-user batch promises: users come, go and come back as    *)
(* the application pleases, and now and then all users whose soft deletion *)
(* is older than the retention period vanish, at once and no one else.     *)
(***************************************************************************)
EXTENDS Integers

CONSTANTS Users, Retention, MaxTime

VARIABLES
  now,
  rows,         \* users in the table
  softDeleted,  \* those with a delete_datetime
  deletedAt     \* the delete_datetime

vars == <<now, rows, softDeleted, deletedAt>>

Init ==
  /\ now = 0
  /\ rows = Users
  /\ softDeleted \in SUBSET Users
  /\ deletedAt = [u \in Users |-> 0]

\* All that was soft-deleted at or before a moment a retention period ago.
PurgeBefore(cutoff) ==
  /\ cutoff <= now - Retention
  /\ rows' = {u \in rows : ~(u \in softDeleted /\ deletedAt[u] <= cutoff)}
  /\ softDeleted' = softDeleted \cap rows'
  /\ UNCHANGED <<now, deletedAt>>

\* The application writes the table, and time passes.
Use ==
  /\ \/ now' = now
     \/ now' = now + 1 /\ now < MaxTime
  /\ rows \subseteq rows'
  /\ \A u \in Users : deletedAt'[u] \in {deletedAt[u], now}
  /\ softDeleted' \subseteq rows'

Next == Use \/ \E t \in (0 - Retention)..MaxTime : PurgeBefore(t)

Spec == Init /\ [][Next]_vars
=============================================================================
