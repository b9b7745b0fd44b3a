-------------------------- MODULE DeleteUserBatch --------------------------
(***************************************************************************)
(* The delete-user batch: executions of the Step Function that invoke the  *)
(* delete-user Lambda, whose answer code decides how the execution ends.   *)
(* The Lambda computes a cutoff, gets a database client and deletes the    *)
(* users soft-deleted before the cutoff, while the application goes on     *)
(* using the table.  Answers get lost, Lambdas die, executions time out.   *)
(***************************************************************************)
EXTENDS Integers

CONSTANTS
  Users,
  Executions,
  RetentionEnv,   \* DELETE_USER_SOFT_DELETE_RETENTION_YEARS, -1 if no integer
  TimeoutSeconds, \* of the state machine, in the model's unit of time
  MaxTime         \* bound: length of a behaviour

ASSUME BatchAssumption ==
  /\ RetentionEnv \in Int
  /\ TimeoutSeconds \in Nat
  /\ MaxTime \in Nat

\* DELETE_USER_SOFT_DELETE_RETENTION_YEARS: the default is one year.
Retention == IF RetentionEnv > 0 THEN RetentionEnv ELSE 1

VARIABLES
  now,
  rows,         \* users in the table
  softDeleted,  \* those with a delete_datetime
  deletedAt,    \* the delete_datetime
  state,        \* per execution: the state it is in
  started,      \* per execution: when it started
  lambda,       \* per execution: how far its Lambda has come
  cutoff,       \* per execution: cutoffDatetime of its Lambda
  code,         \* per execution: result.code of the answer
  message       \* per execution: where the message of the answer comes from

table == <<rows, softDeleted, deletedAt>>
answer == <<code, message>>
vars == <<now, table, state, started, lambda, cutoff, answer>>

Times == 0..MaxTime
Codes == {"none", "SC-001", "ES-001"}

TypeOK ==
  /\ now \in Times
  /\ rows \subseteq Users
  /\ softDeleted \subseteq rows
  /\ deletedAt \in [Users -> Times]
  /\ state \in [Executions ->
                  {"ready", "DeleteUser", "CheckDeleteUserResult",
                   "Success", "TaskFailed", "timedOut"}]
  /\ started \in [Executions -> Times]
  /\ lambda \in [Executions ->
                   {"off", "getClient", "deleteMany", "deleted", "answered", "dead"}]
  /\ cutoff \in [Executions -> (0 - Retention)..MaxTime]
  /\ code \in [Executions -> Codes]
  /\ message \in [Executions -> {"none", "fixed", "database"}]

Init ==
  /\ now = 0
  /\ rows = Users
  /\ softDeleted \in SUBSET Users
  /\ deletedAt = [u \in Users |-> 0]
  /\ state = [e \in Executions |-> "ready"]
  /\ started = [e \in Executions |-> 0]
  /\ lambda = [e \in Executions |-> "off"]
  /\ cutoff = [e \in Executions |-> 0]
  /\ code = [e \in Executions |-> "none"]
  /\ message = [e \in Executions |-> "none"]

-----------------------------------------------------------------------------
(* Helpers *)

\* Mutant: the cutoff is rounded up.
BugExpired(t) == {u \in softDeleted : deletedAt[u] <= t + 1}

\* deleteMany's condition: delete_datetime is not null and at most t.
Expired(t) == {u \in softDeleted : deletedAt[u] <= t}

\* Mutant: the rows are deleted in portions.
BugDeleteRows(t) ==
  /\ \E portion \in SUBSET Expired(t) :
       rows' = rows \ portion /\ softDeleted' = softDeleted \ portion
  /\ UNCHANGED deletedAt

DeleteRows(t) ==
  /\ rows' = rows \ Expired(t)
  /\ softDeleted' = softDeleted \ Expired(t)
  /\ UNCHANGED deletedAt

\* The error pipe, or the handler, answers.
Answer(e, c, m) ==
  /\ lambda' = [lambda EXCEPT ![e] = "answered"]
  /\ code' = [code EXCEPT ![e] = c]
  /\ message' = [message EXCEPT ![e] = m]

-----------------------------------------------------------------------------
(* The Lambda *)

\* Mutant: the years are counted from the year before.
BugInvoke(e) ==
  /\ state[e] = "ready"
  /\ state' = [state EXCEPT ![e] = "DeleteUser"]
  /\ started' = [started EXCEPT ![e] = now]
  /\ lambda' = [lambda EXCEPT ![e] = "getClient"]
  /\ cutoff' = [cutoff EXCEPT ![e] = now - 1 - Retention]
  /\ UNCHANGED <<now, table, answer>>

\* The task state invokes the Lambda, which computes its cutoff.
Invoke(e) ==
  /\ state[e] = "ready"
  /\ state' = [state EXCEPT ![e] = "DeleteUser"]
  /\ started' = [started EXCEPT ![e] = now]
  /\ lambda' = [lambda EXCEPT ![e] = "getClient"]
  /\ cutoff' = [cutoff EXCEPT ![e] = now - Retention]
  /\ UNCHANGED <<now, table, answer>>

GotClient(e) ==
  /\ lambda[e] = "getClient"
  /\ lambda' = [lambda EXCEPT ![e] = "deleteMany"]
  /\ UNCHANGED <<now, table, state, started, cutoff, answer>>

\* getClient gives up with an InternalServerError around the client's message.
NoClient(e) ==
  /\ lambda[e] = "getClient"
  /\ Answer(e, "ES-001", "database")
  /\ UNCHANGED <<now, table, state, started, cutoff>>

\* The database executes the statement.
Deleted(e) ==
  /\ lambda[e] = "deleteMany"
  /\ DeleteRows(cutoff[e])
  /\ lambda' = [lambda EXCEPT ![e] = "deleted"]
  /\ UNCHANGED <<now, state, started, cutoff, answer>>

\* The Lambda learns the count and answers.
DeleteResolved(e) ==
  /\ lambda[e] = "deleted"
  /\ Answer(e, "SC-001", "fixed")
  /\ UNCHANGED <<now, table, state, started, cutoff>>

\* Mutant: the error pipe swallows what is not a BaseError.
BugDeleteRejected(e) ==
  /\ lambda[e] \in {"deleteMany", "deleted"}
  /\ Answer(e, "SC-001", "fixed")
  /\ UNCHANGED <<now, table, state, started, cutoff>>

\* The statement failed, or its result was lost: an error that is not a
\* BaseError gets the fixed message.
DeleteRejected(e) ==
  /\ lambda[e] \in {"deleteMany", "deleted"}
  /\ Answer(e, "ES-001", "fixed")
  /\ UNCHANGED <<now, table, state, started, cutoff>>

\* The Lambda times out or crashes; a statement it sent may still execute.
LambdaDies(e) ==
  /\ lambda[e] \in {"getClient", "deleteMany", "deleted"}
  /\ lambda' = [lambda EXCEPT ![e] = "dead"]
  /\ \/ UNCHANGED table
     \/ lambda[e] = "deleteMany" /\ DeleteRows(cutoff[e])
  /\ UNCHANGED <<now, state, started, cutoff, answer>>

-----------------------------------------------------------------------------
(* The state machine *)

\* The payload has a code to assign.
TaskSucceeds(e) ==
  /\ state[e] = "DeleteUser" /\ lambda[e] = "answered"
  /\ state' = [state EXCEPT ![e] = "CheckDeleteUserResult"]
  /\ UNCHANGED <<now, table, started, lambda, cutoff, answer>>

\* No Retry and no Catch: the execution fails with the task.
TaskErrs(e) ==
  /\ state[e] = "DeleteUser" /\ lambda[e] = "dead"
  /\ state' = [state EXCEPT ![e] = "TaskFailed"]
  /\ UNCHANGED <<now, table, started, lambda, cutoff, answer>>

\* Mutant: only the choice for the right code is there.
BugCheckDeleteUserResult(e) ==
  /\ state[e] = "CheckDeleteUserResult" /\ code[e] = "SC-001"
  /\ state' = [state EXCEPT ![e] = "Success"]
  /\ UNCHANGED <<now, table, started, lambda, cutoff, answer>>

CheckDeleteUserResult(e) ==
  /\ state[e] = "CheckDeleteUserResult"
  /\ LET next == IF code[e] = "SC-001" THEN "Success" ELSE "TaskFailed"
     IN  state' = [state EXCEPT ![e] = next]
  /\ UNCHANGED <<now, table, started, lambda, cutoff, answer>>

\* The execution is given up; its Lambda is not.
TimesOut(e) ==
  /\ state[e] \in {"DeleteUser", "CheckDeleteUserResult"}
  /\ now - started[e] >= TimeoutSeconds
  /\ state' = [state EXCEPT ![e] = "timedOut"]
  /\ UNCHANGED <<now, table, started, lambda, cutoff, answer>>

-----------------------------------------------------------------------------
(* The application and time *)

SoftDelete(u) ==
  /\ u \in rows \ softDeleted
  /\ softDeleted' = softDeleted \cup {u}
  /\ deletedAt' = [deletedAt EXCEPT ![u] = now]
  /\ UNCHANGED <<now, rows, state, started, lambda, cutoff, answer>>

Restore(u) ==
  /\ u \in softDeleted
  /\ softDeleted' = softDeleted \ {u}
  /\ UNCHANGED <<now, rows, deletedAt, state, started, lambda, cutoff, answer>>

SignUp(u) ==
  /\ u \in Users \ rows
  /\ rows' = rows \cup {u}
  /\ UNCHANGED <<now, softDeleted, deletedAt, state, started, lambda, cutoff, answer>>

Tick ==
  /\ now < MaxTime
  /\ now' = now + 1
  /\ UNCHANGED <<table, state, started, lambda, cutoff, answer>>

Continue(e) ==
  \/ GotClient(e) \/ NoClient(e) \/ Deleted(e) \/ DeleteResolved(e)
  \/ DeleteRejected(e) \/ LambdaDies(e)

Route(e) == TaskSucceeds(e) \/ TaskErrs(e) \/ CheckDeleteUserResult(e)

Next ==
  \/ \E e \in Executions : Invoke(e) \/ Continue(e) \/ Route(e) \/ TimesOut(e)
  \/ \E u \in Users : SoftDelete(u) \/ Restore(u) \/ SignUp(u)
  \/ Tick

Spec == Init /\ [][Next]_vars

\* A Lambda settles or dies, and the state machine takes its transitions.
FairSpec ==
  /\ Spec
  /\ \A e \in Executions : WF_vars(Continue(e)) /\ WF_vars(Route(e))

-----------------------------------------------------------------------------
(* Properties *)

\* Only users whose soft deletion still stands, and has stood for the
\* configured time and never less than a year, are deleted for good.
OnlyExpiredDeleted ==
  [][\A u \in rows \ rows' :
       /\ u \in softDeleted
       /\ now - deletedAt[u] >= 1
       /\ RetentionEnv > 0 => now - deletedAt[u] >= RetentionEnv]_vars

\* An execution that succeeds has left no user behind that was due when it
\* began, whatever the application and other executions did meanwhile.
SuccessMeansPurged ==
  \A e \in Executions :
    state[e] = "Success" => rows \cap Expired(started[e] - Retention) = {}

\* Answers do not carry messages of the database.
InternalErrorsHidden ==
  \A e \in Executions : lambda[e] = "answered" => message[e] # "database"

\* Every execution that starts ends.
EveryExecutionEnds ==
  \A e \in Executions :
    state[e] = "DeleteUser" ~> state[e] \in {"Success", "TaskFailed", "timedOut"}

\* Runs that fail half-way, overlap or repeat are still purges: all at once,
\* and never before time.
P == INSTANCE Purge
ImplementsPurge == P!Spec
=============================================================================
