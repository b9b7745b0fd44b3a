----------------------- MODULE DeleteUserBatchProofs -----------------------
(***************************************************************************)
(* What holds of the delete-user batch for any number of users and         *)
(* executions, any retention setting and any time-out.                     *)
(***************************************************************************)
EXTENDS DeleteUserBatch, TLAPS

\* The retention period is at least a year, and as configured when it can be.
LEMMA RetentionPositive ==
  /\ Retention \in Nat /\ Retention >= 1
  /\ RetentionEnv > 0 => Retention = RetentionEnv
BY BatchAssumption DEF Retention

-----------------------------------------------------------------------------
(* Types *)

LEMMA TypingInit == Init => TypeOK
<1>1. 0 \in Times /\ 0 \in (0 - Retention)..MaxTime
  BY BatchAssumption, RetentionPositive DEF Times
<1> QED
  BY <1>1 DEF Init, TypeOK, Codes

LEMMA TypingStep == TypeOK /\ [Next]_vars => TypeOK'
<1> SUFFICES ASSUME TypeOK, [Next]_vars PROVE TypeOK'
  OBVIOUS
<1> USE DEF TypeOK, table, answer, Codes
<1>1. CASE UNCHANGED vars
  BY <1>1 DEF vars
<1>2. ASSUME NEW e \in Executions, Invoke(e) PROVE TypeOK'
  <2>1. now - Retention \in (0 - Retention)..MaxTime
    BY BatchAssumption, RetentionPositive DEF Times
  <2> QED
    BY <1>2, <2>1 DEF Invoke
<1>3. ASSUME NEW e \in Executions,
             GotClient(e) \/ NoClient(e) \/ DeleteResolved(e) \/ DeleteRejected(e)
      PROVE  TypeOK'
  BY <1>3 DEF GotClient, NoClient, DeleteResolved, DeleteRejected, Answer
<1>4. ASSUME NEW e \in Executions, Deleted(e) PROVE TypeOK'
  BY <1>4 DEF Deleted, DeleteRows
<1>5. ASSUME NEW e \in Executions, LambdaDies(e) PROVE TypeOK'
  BY <1>5 DEF LambdaDies, DeleteRows
<1>6. ASSUME NEW e \in Executions, Route(e) \/ TimesOut(e) PROVE TypeOK'
  BY <1>6 DEF Route, TaskSucceeds, TaskErrs, CheckDeleteUserResult, TimesOut
<1>7. ASSUME NEW u \in Users, SoftDelete(u) \/ Restore(u) \/ SignUp(u)
      PROVE  TypeOK'
  BY <1>7 DEF SoftDelete, Restore, SignUp
<1>8. CASE Tick
  BY <1>8, BatchAssumption DEF Tick, Times
<1> QED
  BY <1>1, <1>2, <1>3, <1>4, <1>5, <1>6, <1>7, <1>8 DEF Next, Continue

\* The table, the executions and their Lambdas are well typed.
THEOREM Typing == Spec => []TypeOK
<1> QED
  BY TypingInit, TypingStep, PTL DEF Spec

-----------------------------------------------------------------------------
(* The cutoff, and what a successful statement leaves behind *)

\* What an execution and its Lambda have established.
Established(e) ==
  /\ state[e] = "ready" => lambda[e] = "off" /\ code[e] = "none"
  /\ lambda[e] # "off" => /\ cutoff[e] = started[e] - Retention
                          /\ started[e] <= now
  /\ code[e] # "none" => lambda[e] = "answered"
  /\ lambda[e] = "deleted" \/ code[e] = "SC-001" => Expired(cutoff[e]) = {}
  /\ state[e] = "Success" => code[e] = "SC-001"

BatchInv == \A e \in Executions : Established(e)

LEMMA BatchInit == Init => BatchInv
BY DEF Init, BatchInv, Established

\* What is gone stays gone: a statement only removes, and a later soft
\* deletion is later than any cutoff in use.
LEMMA ExpiredStaysEmpty ==
  ASSUME TypeOK, NEW t \in Int, Expired(t) = {},
         \/ UNCHANGED <<softDeleted, deletedAt>>
         \/ \E s \in Int : DeleteRows(s)
         \/ \E u \in Users : Restore(u)
         \/ t < now /\ \E u \in Users : SoftDelete(u)
  PROVE  Expired(t)' = {}
<1>1. CASE \/ UNCHANGED <<softDeleted, deletedAt>>
           \/ \E s \in Int : DeleteRows(s)
           \/ \E u \in Users : Restore(u)
  <2>1. softDeleted' \subseteq softDeleted /\ UNCHANGED deletedAt
    BY <1>1 DEF DeleteRows, Restore
  <2> QED
    BY <2>1 DEF Expired
<1>2. ASSUME NEW u \in Users, t < now, SoftDelete(u) PROVE Expired(t)' = {}
  <2>1. ASSUME NEW v \in softDeleted' PROVE ~(deletedAt'[v] <= t)
    <3>1. now \in Int /\ \A x \in Users : deletedAt[x] \in Int
      BY BatchAssumption DEF TypeOK, Times
    <3>2. CASE v = u
      BY <1>2, <3>1, <3>2 DEF SoftDelete, TypeOK
    <3>3. CASE v # u
      <4>1. v \in softDeleted /\ deletedAt'[v] = deletedAt[v]
        BY <1>2, <2>1, <3>3 DEF SoftDelete, TypeOK
      <4> QED
        BY <4>1 DEF Expired
    <3> QED
      BY <3>2, <3>3
  <2> QED
    BY <2>1 DEF Expired
<1> QED
  BY <1>1, <1>2

\* The statement of a Lambda empties what its own cutoff selects.
LEMMA DeleteRowsEmpties ==
  ASSUME NEW t, DeleteRows(t)
  PROVE  Expired(t)' = {}
BY DEF DeleteRows, Expired

LEMMA CutoffIsPast ==
  ASSUME TypeOK, BatchInv, NEW e \in Executions, lambda[e] # "off"
  PROVE  /\ cutoff[e] \in Int /\ now \in Int /\ started[e] \in Int
         /\ cutoff[e] <= now - Retention /\ cutoff[e] < now
BY BatchAssumption, RetentionPositive
   DEF TypeOK, Times, BatchInv, Established

LEMMA BatchStep == TypeOK /\ BatchInv /\ [Next]_vars => BatchInv'
<1> SUFFICES ASSUME TypeOK, BatchInv, [Next]_vars, NEW d \in Executions
             PROVE  Established(d)'
  BY DEF BatchInv
<1> USE DEF table, answer
<1>a. Established(d)
  BY DEF BatchInv
<1>b. cutoff[d] \in Int /\ (lambda[d] # "off" => cutoff[d] < now)
  BY BatchAssumption, CutoffIsPast, RetentionPositive DEF TypeOK
<1>c. now \in Int /\ started[d] \in Int
  BY BatchAssumption DEF TypeOK, Times
<1>1. CASE UNCHANGED <<softDeleted, deletedAt, state, started, lambda, cutoff, code>>
           /\ (now' = now \/ now' = now + 1)
  <2>1. Expired(cutoff[d])' = Expired(cutoff[d])
    BY <1>1 DEF Expired
  <2> QED
    BY <1>1, <1>a, <1>c, <2>1 DEF Established
<1>2. ASSUME NEW e \in Executions, Invoke(e) PROVE Established(d)'
  <2>2. CASE d = e
    <3>1. /\ state'[d] = "DeleteUser" /\ started'[d] = now /\ now' = now
          /\ lambda'[d] = "getClient" /\ cutoff'[d] = now - Retention
          /\ code'[d] = "none"
      BY <1>2, <1>a, <2>2 DEF Invoke, Established, TypeOK
    <3> QED
      BY <1>c, <3>1 DEF Established
  <2>3. CASE d # e
    <3>1. Expired(cutoff[d])' = Expired(cutoff[d])
      BY <1>2, <2>3 DEF Invoke, Expired, TypeOK
    <3> QED
      BY <1>2, <1>a, <2>3, <3>1 DEF Invoke, Established, TypeOK
  <2> QED
    BY <2>2, <2>3
<1>3. ASSUME NEW e \in Executions,
             \/ GotClient(e) \/ NoClient(e) \/ DeleteResolved(e)
             \/ DeleteRejected(e) \/ Route(e) \/ TimesOut(e)
      PROVE  Established(d)'
  <2>1. Expired(cutoff[d])' = Expired(cutoff[d])
    BY <1>3 DEF Expired, GotClient, NoClient, DeleteResolved, DeleteRejected,
                Route, TaskSucceeds, TaskErrs, CheckDeleteUserResult, TimesOut
  <2>2. CASE GotClient(e) \/ NoClient(e) \/ DeleteResolved(e) \/ DeleteRejected(e)
    BY <1>a, <2>1, <2>2
       DEF GotClient, NoClient, DeleteResolved, DeleteRejected, Answer,
           Established, TypeOK
  <2>3. CASE Route(e) \/ TimesOut(e)
    BY <1>a, <2>1, <2>3
       DEF Route, TaskSucceeds, TaskErrs, CheckDeleteUserResult, TimesOut,
           Established, TypeOK
  <2> QED
    BY <1>3, <2>2, <2>3
<1>4. ASSUME NEW e \in Executions, Deleted(e) \/ LambdaDies(e)
      PROVE  Established(d)'
  <2>1. cutoff[e] \in Int
    BY BatchAssumption, RetentionPositive DEF TypeOK
  <2>2. UNCHANGED <<now, state, started, cutoff, code>>
    BY <1>4 DEF Deleted, LambdaDies
  <2>3. UNCHANGED <<softDeleted, deletedAt>> \/ DeleteRows(cutoff[e])
    BY <1>4 DEF Deleted, LambdaDies
  <2>4. Expired(cutoff[d]) = {} => Expired(cutoff[d])' = {}
    BY <1>b, <2>1, <2>2, <2>3, ExpiredStaysEmpty DEF Expired
  <2>5. CASE d = e /\ Deleted(e)
    <3>1. Expired(cutoff[e])' = {}
      BY <2>5, <2>2, DeleteRowsEmpties DEF Deleted, Expired
    <3> QED
      BY <1>a, <2>2, <2>5, <3>1 DEF Deleted, Established, TypeOK
  <2>6. CASE ~(d = e /\ Deleted(e))
    BY <1>4, <1>a, <2>2, <2>4, <2>6 DEF Deleted, LambdaDies, Established, TypeOK
  <2> QED
    BY <2>5, <2>6
<1>5. ASSUME NEW u \in Users, SoftDelete(u) \/ Restore(u) PROVE Established(d)'
  <2>1. UNCHANGED <<now, state, started, lambda, cutoff, code>>
    BY <1>5 DEF SoftDelete, Restore
  <2>2. lambda[d] # "off" /\ Expired(cutoff[d]) = {} => Expired(cutoff[d])' = {}
    BY <1>5, <1>b, <2>1, ExpiredStaysEmpty DEF Expired
  <2> QED
    BY <1>a, <2>1, <2>2 DEF Established
<1>6. ASSUME NEW u \in Users, SignUp(u) PROVE Established(d)'
  BY <1>1, <1>6 DEF SignUp
<1> QED
  BY <1>1, <1>2, <1>3, <1>4, <1>5, <1>6
     DEF Next, Continue, Tick, vars

LEMMA BatchAlways == Spec => []BatchInv
<1> QED
  BY BatchInit, BatchStep, Typing, PTL DEF Spec

-----------------------------------------------------------------------------
(* Theorems *)

\* An execution that succeeds leaves no user that was due when it began.
THEOREM SuccessPurges == Spec => []SuccessMeansPurged
<1>1. TypeOK /\ BatchInv => SuccessMeansPurged
  <2> SUFFICES ASSUME TypeOK, BatchInv, NEW e \in Executions, state[e] = "Success"
               PROVE  Expired(started[e] - Retention) = {}
    BY DEF SuccessMeansPurged
  <2>1. code[e] = "SC-001" /\ lambda[e] # "off"
    BY DEF BatchInv, Established
  <2> QED
    BY <2>1 DEF BatchInv, Established
<1> QED
  BY <1>1, Typing, BatchAlways, PTL

\* Only a statement removes users, and only those before a cutoff that lies a
\* retention period back.
LEMMA RemovalsAreDeletions ==
  ASSUME TypeOK, BatchInv, Next
  PROVE  \/ rows \subseteq rows'
         \/ \E t \in Int : t <= now - Retention /\ DeleteRows(t) /\ UNCHANGED now
<1> USE DEF table, answer
<1>1. ASSUME NEW e \in Executions, Deleted(e) \/ LambdaDies(e)
      PROVE  \/ rows \subseteq rows'
             \/ \E t \in Int : t <= now - Retention /\ DeleteRows(t) /\ UNCHANGED now
  <2>1. lambda[e] # "off" /\ UNCHANGED now
    BY <1>1 DEF Deleted, LambdaDies
  <2>2. cutoff[e] \in Int /\ cutoff[e] <= now - Retention
    BY <2>1, CutoffIsPast
  <2>3. UNCHANGED rows \/ DeleteRows(cutoff[e])
    BY <1>1 DEF Deleted, LambdaDies
  <2> QED
    BY <2>1, <2>2, <2>3
<1>2. ASSUME NEW e \in Executions,
             \/ Invoke(e) \/ Route(e) \/ TimesOut(e) \/ GotClient(e)
             \/ NoClient(e) \/ DeleteResolved(e) \/ DeleteRejected(e)
      PROVE  rows \subseteq rows'
  BY <1>2 DEF Invoke, Route, TimesOut, TaskSucceeds, TaskErrs,
              CheckDeleteUserResult, GotClient, NoClient, DeleteResolved,
              DeleteRejected
<1>3. ASSUME NEW u \in Users, SoftDelete(u) \/ Restore(u) \/ SignUp(u)
      PROVE  rows \subseteq rows'
  BY <1>3 DEF SoftDelete, Restore, SignUp
<1>4. CASE Tick
  BY <1>4 DEF Tick
<1> QED
  BY <1>1, <1>2, <1>3, <1>4 DEF Next, Continue

\* No user is deleted for good before the retention period is over.
THEOREM RetentionIsKept == Spec => OnlyExpiredDeleted
<1> DEFINE Due(u) == /\ u \in softDeleted
                     /\ now - deletedAt[u] >= 1
                     /\ RetentionEnv > 0 => now - deletedAt[u] >= RetentionEnv
<1>1. TypeOK /\ BatchInv /\ [Next]_vars
        => [\A u \in rows \ rows' : Due(u)]_vars
  <2> SUFFICES ASSUME TypeOK, BatchInv, Next, NEW u \in rows \ rows' PROVE Due(u)
    OBVIOUS
  <2>1. PICK t \in Int : t <= now - Retention /\ DeleteRows(t)
    BY RemovalsAreDeletions
  <2>2. u \in softDeleted /\ deletedAt[u] <= t
    BY <2>1 DEF DeleteRows, Expired
  <2>3. now \in Int /\ deletedAt[u] \in Int
    BY BatchAssumption DEF TypeOK, Times
  <2>4. now - deletedAt[u] >= Retention
    BY <2>1, <2>2, <2>3, RetentionPositive
  <2> QED
    BY <2>2, <2>3, <2>4, RetentionPositive, BatchAssumption
<1> QED
  BY <1>1, Typing, BatchAlways, PTL DEF Spec, OnlyExpiredDeleted

-----------------------------------------------------------------------------
(* The batch implements Purge *)

\* A statement is a purge: all that is due by its cutoff, at once.
LEMMA StatementIsPurge ==
  ASSUME TypeOK, NEW t \in (0 - Retention)..MaxTime, t <= now - Retention,
         DeleteRows(t), UNCHANGED now
  PROVE  P!Next
<1>1. rows' = {u \in rows : ~(u \in softDeleted /\ deletedAt[u] <= t)}
  BY DEF DeleteRows, Expired
<1>2. softDeleted' = softDeleted \cap rows'
  BY DEF DeleteRows, Expired, TypeOK
<1>3. P!PurgeBefore(t)
  BY <1>1, <1>2 DEF P!PurgeBefore, DeleteRows
<1> QED
  BY <1>3 DEF P!Next

LEMMA StepsMap ==
  ASSUME TypeOK, BatchInv, Next
  PROVE  P!Next \/ UNCHANGED P!vars
<1> USE DEF table, answer, P!vars
<1>1. ASSUME NEW e \in Executions, Deleted(e) \/ LambdaDies(e)
      PROVE  P!Next \/ UNCHANGED P!vars
  <2>1. lambda[e] # "off" /\ UNCHANGED now
    BY <1>1 DEF Deleted, LambdaDies
  <2>2. cutoff[e] <= now - Retention /\ cutoff[e] \in (0 - Retention)..MaxTime
    BY <2>1, CutoffIsPast DEF TypeOK
  <2>3. UNCHANGED table \/ DeleteRows(cutoff[e])
    BY <1>1 DEF Deleted, LambdaDies
  <2> QED
    BY <2>1, <2>2, <2>3, StatementIsPurge
<1>2. ASSUME NEW e \in Executions,
             \/ Invoke(e) \/ Route(e) \/ TimesOut(e) \/ GotClient(e)
             \/ NoClient(e) \/ DeleteResolved(e) \/ DeleteRejected(e)
      PROVE  UNCHANGED P!vars
  BY <1>2 DEF Invoke, Route, TimesOut, TaskSucceeds, TaskErrs,
              CheckDeleteUserResult, GotClient, NoClient, DeleteResolved,
              DeleteRejected
<1>3. ASSUME NEW u \in Users, SoftDelete(u) \/ Restore(u) \/ SignUp(u)
      PROVE  P!Use
  BY <1>3 DEF SoftDelete, Restore, SignUp, P!Use, TypeOK
<1>4. CASE Tick
  BY <1>4 DEF Tick, P!Use, P!Next, TypeOK
<1> QED
  BY <1>1, <1>2, <1>3, <1>4 DEF Next, Continue, P!Next

\* Overlapping, failing, timed-out and repeated executions are purges still:
\* nothing else ever happens to the table.
THEOREM BatchIsPurge == Spec => ImplementsPurge
<1>1. Init => P!Init
  BY DEF Init, P!Init
<1>2. TypeOK /\ BatchInv /\ [Next]_vars => [P!Next]_(P!vars)
  BY StepsMap DEF vars, table, P!vars
<1> QED
  BY <1>1, <1>2, Typing, BatchAlways, PTL DEF Spec, ImplementsPurge, P!Spec

-----------------------------------------------------------------------------
(* An execution ends: the part of EveryExecutionEnds that needs no fairness *)

\* The steps of the state machine that an execution has left, with Invoke
\* counted for the steps of the Lambda it starts.
StateRank(e) ==
  CASE state[e] = "ready" -> 6
    [] state[e] = "DeleteUser" -> 2
    [] state[e] = "CheckDeleteUserResult" -> 1
    [] OTHER -> 0

\* The steps that its Lambda has left.
LambdaRank(e) ==
  CASE lambda[e] = "getClient" -> 3
    [] lambda[e] = "deleteMany" -> 2
    [] lambda[e] = "deleted" -> 1
    [] OTHER -> 0

ExecutionRank(e) == StateRank(e) + LambdaRank(e)

\* A step brings one execution nearer to its end, or is of the application or
\* of time and moves none.
ExecutionStep ==
  \/ \E e \in Executions :
       /\ ExecutionRank(e)' < ExecutionRank(e)
       /\ \A d \in Executions \ {e} : ExecutionRank(d)' = ExecutionRank(d)
  \/ UNCHANGED <<state, lambda>>

\* An execution that has not ended is to be invoked, has a Lambda that will
\* answer or die, or is to be routed on what its Lambda came to.
InHand(e) ==
  \/ state[e] \in {"ready", "CheckDeleteUserResult", "Success", "TaskFailed", "timedOut"}
  \/ state[e] = "DeleteUser" /\ lambda[e] # "off"

\* Ranks are numbers.
LEMMA RanksCounted ==
  ASSUME NEW e PROVE StateRank(e) \in 0..6 /\ LambdaRank(e) \in 0..3
BY DEF StateRank, LambdaRank

\* One execution moves at a time.
LEMMA OneMoves ==
  ASSUME TypeOK, BatchInv, NEW e \in Executions,
         Invoke(e) \/ Continue(e) \/ Route(e) \/ TimesOut(e)
  PROVE  /\ ExecutionRank(e)' < ExecutionRank(e)
         /\ \A d \in Executions \ {e} : ExecutionRank(d)' = ExecutionRank(d)
<1>1. \A d \in Executions \ {e} : state'[d] = state[d] /\ lambda'[d] = lambda[d]
  BY DEF TypeOK, Invoke, Continue, GotClient, NoClient, Deleted, DeleteResolved,
         DeleteRejected, LambdaDies, Answer, Route, TaskSucceeds, TaskErrs,
         CheckDeleteUserResult, TimesOut
<1>2. ASSUME NEW d \in Executions \ {e} PROVE ExecutionRank(d)' = ExecutionRank(d)
  BY <1>1 DEF ExecutionRank, StateRank, LambdaRank
<1>3. /\ StateRank(e) \in Nat /\ LambdaRank(e) \in Nat
      /\ StateRank(e)' \in Nat /\ LambdaRank(e)' \in Nat
  BY DEF StateRank, LambdaRank
<1>4. CASE Invoke(e)
  <2>1. state[e] = "ready" /\ lambda[e] = "off"
    BY <1>4 DEF Invoke, BatchInv, Established
  <2>2. state'[e] = "DeleteUser" /\ lambda'[e] = "getClient"
    BY <1>4 DEF Invoke, TypeOK
  <2>3. StateRank(e) = 6 /\ LambdaRank(e) = 0
    BY <2>1 DEF StateRank, LambdaRank
  <2>4. StateRank(e)' = 2 /\ LambdaRank(e)' = 3
    BY <2>2 DEF StateRank, LambdaRank
  <2> QED
    BY <1>2, <2>3, <2>4 DEF ExecutionRank
<1>5. CASE Continue(e)
  <2>1. state' = state
    BY <1>5 DEF Continue, GotClient, NoClient, Deleted, DeleteResolved, DeleteRejected,
                LambdaDies
  <2>2. \/ lambda[e] = "getClient" /\ lambda'[e] \in {"deleteMany", "answered", "dead"}
        \/ lambda[e] = "deleteMany" /\ lambda'[e] \in {"deleted", "answered", "dead"}
        \/ lambda[e] = "deleted" /\ lambda'[e] \in {"answered", "dead"}
    BY <1>5 DEF TypeOK, Continue, GotClient, NoClient, Deleted, DeleteResolved,
                DeleteRejected, LambdaDies, Answer
  <2>3. LambdaRank(e)' < LambdaRank(e)
    BY <2>2 DEF LambdaRank
  <2>4. StateRank(e)' = StateRank(e)
    BY <2>1 DEF StateRank
  <2> QED
    BY <1>2, <1>3, <2>3, <2>4 DEF ExecutionRank
<1>6. CASE Route(e) \/ TimesOut(e)
  <2>1. lambda' = lambda
    BY <1>6 DEF Route, TaskSucceeds, TaskErrs, CheckDeleteUserResult, TimesOut
  <2>2. \/ /\ state[e] = "DeleteUser"
           /\ state'[e] \in {"CheckDeleteUserResult", "TaskFailed", "timedOut"}
        \/ /\ state[e] = "CheckDeleteUserResult"
           /\ state'[e] \in {"Success", "TaskFailed", "timedOut"}
    BY <1>6 DEF TypeOK, Route, TaskSucceeds, TaskErrs, CheckDeleteUserResult, TimesOut
  <2>3. StateRank(e)' < StateRank(e)
    BY <2>2 DEF StateRank
  <2>4. LambdaRank(e)' = LambdaRank(e)
    BY <2>1 DEF LambdaRank
  <2> QED
    BY <1>2, <1>3, <2>3, <2>4 DEF ExecutionRank
<1> QED
  BY <1>4, <1>5, <1>6

\* No execution is left in a state that nothing leads out of.
LEMMA InHandStep ==
  TypeOK /\ (\A e \in Executions : InHand(e)) /\ [Next]_vars
    => (\A e \in Executions : InHand(e))'
<1> SUFFICES ASSUME TypeOK, \A e \in Executions : InHand(e), [Next]_vars,
                    NEW d \in Executions
             PROVE  InHand(d)'
  OBVIOUS
<1>1. lambda[d] # "off" => lambda'[d] # "off"
  BY DEF Next, TypeOK, Invoke, Continue, GotClient, NoClient, Deleted, DeleteResolved,
         DeleteRejected, LambdaDies, Answer, Route, TaskSucceeds, TaskErrs,
         CheckDeleteUserResult, TimesOut, SoftDelete, Restore, SignUp, Tick, vars
<1>2. state'[d] # "DeleteUser" \/ state'[d] = state[d] \/ lambda'[d] = "getClient"
  BY DEF Next, TypeOK, Invoke, Continue, GotClient, NoClient, Deleted, DeleteResolved,
         DeleteRejected, LambdaDies, Answer, Route, TaskSucceeds, TaskErrs,
         CheckDeleteUserResult, TimesOut, SoftDelete, Restore, SignUp, Tick, vars
<1>3. state'[d] \in {"ready", "DeleteUser", "CheckDeleteUserResult",
                     "Success", "TaskFailed", "timedOut"}
  BY TypingStep DEF TypeOK
<1> QED
  BY <1>1, <1>2, <1>3 DEF InHand

\* Whatever fails or times out, no execution goes on for ever, and none waits
\* for a Lambda that was never invoked; that of a timed-out one ends as well.
THEOREM ExecutionsCountDown ==
  Spec => /\ [](\A e \in Executions : ExecutionRank(e) \in Nat /\ InHand(e))
          /\ [][ExecutionStep]_vars
<1>1. (\A e \in Executions : InHand(e))
        => \A e \in Executions : ExecutionRank(e) \in Nat /\ InHand(e)
  BY RanksCounted DEF ExecutionRank
<1>2. Init => \A e \in Executions : InHand(e)
  BY DEF Init, InHand
<1>3. TypeOK /\ BatchInv /\ [Next]_vars => ExecutionStep
  <2> SUFFICES ASSUME TypeOK, BatchInv, [Next]_vars PROVE ExecutionStep
    OBVIOUS
  <2>1. ASSUME NEW e \in Executions, Invoke(e) \/ Continue(e) \/ Route(e) \/ TimesOut(e)
        PROVE  ExecutionStep
    BY <2>1, OneMoves DEF ExecutionStep
  <2>2. ASSUME NEW u \in Users, SoftDelete(u) \/ Restore(u) \/ SignUp(u)
        PROVE  ExecutionStep
    BY <2>2 DEF SoftDelete, Restore, SignUp, ExecutionStep
  <2>3. CASE Tick \/ UNCHANGED vars
    BY <2>3 DEF Tick, vars, ExecutionStep
  <2> QED
    BY <2>1, <2>2, <2>3 DEF Next
<1> QED
  BY <1>1, <1>2, <1>3, TypingInit, TypingStep, BatchInit, BatchStep, InHandStep, PTL
     DEF Spec
=============================================================================
