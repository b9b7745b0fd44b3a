--------------------------- MODULE DbClientProofs ---------------------------
(***************************************************************************)
(* Proofs about DbClient, for any set of callers and clients, any retry    *)
(* budget and any number of rotations.  Every invariant is inductive       *)
(* relative to TypeOK; each step lemma has one step per action.            *)
(***************************************************************************)
EXTENDS DbClient, TLAPS

(* Typing: the fields, the clients and the calls keep their types.         *)
LEMMA InitTypeOK == Init => TypeOK
  BY ConfigAssumption DEF Init, TypeOK, Versions, Awaits, Results

(* The part of TypeOK about the calls, and what keeps it.                  *)
CallsTyped ==
  /\ pc \in [Callers -> Awaits]
  /\ handle \in [Callers -> Clients \cup {NoClient}]
  /\ target \in [Callers -> Clients \cup {NoClient}]
  /\ attempts \in [Callers -> 0..MaxAttempts]
  /\ result \in [Callers -> Results]

LEMMA RunQueryTyped ==
  ASSUME TypeOK, NEW p \in Callers, NEW c \in Clients, RunQuery(p, c)
  PROVE  CallsTyped'
<1>1. MaxAttempts \in Nat
  BY ConfigAssumption
<1>2. attempts' \in [Callers -> 0..MaxAttempts]
  BY <1>1 DEF TypeOK, RunQuery
<1>3. result' \in [Callers -> Results]
  BY DEF TypeOK, RunQuery, Results
<1> QED
  BY <1>2, <1>3 DEF TypeOK, RunQuery, CallsTyped, Awaits

LEMMA FinishTyped ==
  ASSUME TypeOK, NEW p \in Callers, NEW r \in Results, Finish(p, r)
  PROVE  CallsTyped'
<1>1. MaxAttempts \in Nat
  BY ConfigAssumption
<1> QED
  BY <1>1 DEF TypeOK, Finish, CallsTyped, Awaits

LEMMA SuspendTyped ==
  ASSUME TypeOK, NEW p \in Callers, NEW w \in Awaits, Suspend(p, w)
  PROVE  CallsTyped'
  BY DEF TypeOK, Suspend, CallsTyped, Results

LEMMA ReturnClientTyped ==
  ASSUME TypeOK, NEW p \in Callers, ReturnClient(p)
  PROVE  CallsTyped'
<1>1. CASE Retrying(p) /\ RunQuery(p, handle[p])
  <2>1. handle[p] \in Clients
    BY <1>1 DEF TypeOK, Retrying
  <2> QED
    BY <1>1, <2>1, RunQueryTyped
<1>2. CASE dbClient # NoClient /\ RunQuery(p, dbClient)
  BY <1>2, RunQueryTyped DEF TypeOK
<1>3. CASE Finish(p, "nullClient")
  BY <1>3, FinishTyped DEF Results
<1> QED
  BY <1>1, <1>2, <1>3 DEF ReturnClient

LEMMA EnterGetClientTyped ==
  ASSUME TypeOK, NEW p \in Callers, EnterGetClient(p)
  PROVE  CallsTyped'
  BY ReturnClientTyped, SuspendTyped DEF EnterGetClient, Awaits

LEMMA StepTypeOK == TypeOK /\ [Next]_vars => TypeOK'
<1> SUFFICES ASSUME TypeOK, [Next]_vars PROVE TypeOK'
  OBVIOUS
<1>0. (CallsTyped' /\ UNCHANGED <<fields, clients, secrets>>) => TypeOK'
  BY DEF TypeOK, CallsTyped, fields, clients, secrets, Versions
<1>1. ASSUME NEW p \in Callers, Call(p) PROVE TypeOK'
  BY <1>0, <1>1, EnterGetClientTyped DEF Call
<1>2. ASSUME NEW p \in Callers, ClientCreated(p) PROVE TypeOK'
  BY <1>2 DEF ClientCreated, secrets, TypeOK, Awaits, Versions
<1>3. ASSUME NEW p \in Callers, CatchConnectError(p) PROVE TypeOK'
  <2>1. CallsTyped'
    BY <1>3, SuspendTyped, FinishTyped
       DEF CatchConnectError, Awaits, Results
  <2>2. /\ retries' \in Nat
        /\ dbClient' \in Clients \cup {NoClient}
    BY <1>3 DEF CatchConnectError, TypeOK
  <2> QED
    BY <1>3, <2>1, <2>2
       DEF CatchConnectError, TypeOK, CallsTyped, clients, secrets, Versions
<1>4. ASSUME NEW p \in Callers, Connected(p) PROVE TypeOK'
  <2>1. CallsTyped'
    BY <1>4, ReturnClientTyped DEF Connected
  <2>2. link' \in [Clients -> {"open", "closed"}]
    BY <1>4 DEF Connected, TypeOK
  <2> QED
    BY <1>4, <2>1, <2>2
       DEF Connected, TypeOK, CallsTyped, fields, secrets, Versions
<1>5. ASSUME NEW p \in Callers, BackoffElapsed(p) PROVE TypeOK'
  BY <1>0, <1>5, EnterGetClientTyped DEF BackoffElapsed
<1>6. ASSUME NEW p \in Callers, QueryOk(p) PROVE TypeOK'
  <2>1. CallsTyped'
    BY <1>6, FinishTyped DEF QueryOk, Results
  <2>2. link' \in [Clients -> {"open", "closed"}]
    BY <1>6 DEF QueryOk, TypeOK
  <2> QED
    BY <1>6, <2>1, <2>2
       DEF QueryOk, TypeOK, CallsTyped, fields, secrets, Versions
<1>7. ASSUME NEW p \in Callers, QueryFailed(p) PROVE TypeOK'
  BY <1>0, <1>7, FinishTyped DEF QueryFailed, Results
<1>8. ASSUME NEW p \in Callers, QueryAuthFailed(p) PROVE TypeOK'
  <2>1. CallsTyped'
    <3>1. CASE Suspend(p, "waiting") \/ Suspend(p, "regain")
      BY <3>1, SuspendTyped DEF Awaits
    <3>2. CASE /\ pc' = [pc EXCEPT ![p] = "disconnecting"]
               /\ target' = [target EXCEPT ![p] = dbClient]
               /\ UNCHANGED <<handle, attempts, result>>
      BY <3>2 DEF TypeOK, CallsTyped, Awaits
    <3> QED
      BY <1>8, <3>1, <3>2 DEF QueryAuthFailed, Invalidate
  <2>2. /\ retries' \in Nat
        /\ refreshPromise' \in Callers \cup {NoCaller}
    BY <1>8 DEF QueryAuthFailed, Invalidate, TypeOK
  <2> QED
    BY <1>8, <2>1, <2>2
       DEF QueryAuthFailed, TypeOK, CallsTyped, clients, secrets, Versions
<1>9. ASSUME NEW p \in Callers, Disconnected(p) PROVE TypeOK'
  <2>1. link' \in [Clients -> {"open", "closed"}]
    BY <1>9 DEF Disconnected, TypeOK
  <2>2. pc' \in [Callers -> Awaits]
    BY <1>9 DEF Disconnected, TypeOK, Awaits
  <2> QED
    BY <1>9, <2>1, <2>2
       DEF Disconnected, ResetFields, TypeOK, secrets, Versions
<1>10. ASSUME NEW p \in Callers, Regain(p) PROVE TypeOK'
  BY <1>0, <1>10, EnterGetClientTyped DEF Regain
<1>11. CASE RotateDatabase
  BY <1>11, ConfigAssumption
     DEF RotateDatabase, fields, clients, calls, TypeOK, Versions
<1>12. CASE PublishSecret
  BY <1>12, ConfigAssumption
     DEF PublishSecret, fields, clients, calls, TypeOK, Versions
<1>13. CASE UNCHANGED vars
  BY <1>13 DEF vars, fields, clients, calls, secrets, TypeOK, Versions
<1> QED
  BY <1>1, <1>2, <1>3, <1>4, <1>5, <1>6, <1>7, <1>8, <1>9, <1>10, <1>11,
     <1>12, <1>13 DEF Next, Continue, CreationFailed, ConnectFailed

(* Every reachable state is well typed.                                    *)
THEOREM Typing == Spec => []TypeOK
  BY InitTypeOK, StepTypeOK, PTL DEF Spec

-----------------------------------------------------------------------------
(* Retry budget: only the catch block of getClient raises the counter, and *)
(* only below the budget; an invalidation zeroes it.                        *)
THEOREM BudgetKept == Spec => []RetriesWithinBudget
<1>1. Init => RetriesWithinBudget
  BY ConfigAssumption DEF Init, RetriesWithinBudget
<1>2. TypeOK /\ RetriesWithinBudget /\ [Next]_vars => RetriesWithinBudget'
  <2> SUFFICES ASSUME TypeOK, RetriesWithinBudget, [Next]_vars
               PROVE  RetriesWithinBudget'
    OBVIOUS
  <2> USE ConfigAssumption DEF TypeOK, RetriesWithinBudget
  <2>1. ASSUME NEW p \in Callers, CatchConnectError(p) PROVE retries' <= MaxRetries
    BY <2>1 DEF CatchConnectError
  <2>2. ASSUME NEW p \in Callers, QueryAuthFailed(p) PROVE retries' <= MaxRetries
    BY <2>2 DEF QueryAuthFailed, Invalidate
  <2>3. ASSUME NEW p \in Callers, Disconnected(p) PROVE retries' <= MaxRetries
    BY <2>3 DEF Disconnected, ResetFields
  <2>4. CASE UNCHANGED retries
    BY <2>4
  <2> QED
    BY <2>1, <2>2, <2>3, <2>4
       DEF Next, Continue, Call, ClientCreated, CreationFailed, Connected,
           ConnectFailed, BackoffElapsed, QueryOk, QueryFailed, Regain,
           RotateDatabase, PublishSecret, vars, fields
<1> QED
  BY <1>1, <1>2, Typing, PTL DEF Spec

-----------------------------------------------------------------------------
(* The refresh lock.  Every action but three moves one caller between       *)
(* states that neither hold the lock nor wait for it.                       *)
Outside == Awaits \ {"waiting", "disconnecting"}

Moves(p) ==
  /\ pc[p] \in Outside
  /\ \E w \in Outside : pc' = [pc EXCEPT ![p] = w]
  /\ UNCHANGED refreshPromise

LEMMA EnterGetClientMoves ==
  ASSUME NEW p \in Callers, EnterGetClient(p)
  PROVE  \E w \in Outside : pc' = [pc EXCEPT ![p] = w]
  BY DEF EnterGetClient, ReturnClient, RunQuery, Suspend, Finish, Outside, Awaits

LEMMA CatchMoves ==
  ASSUME NEW p \in Callers, CatchConnectError(p)
  PROVE  \E w \in Outside : pc' = [pc EXCEPT ![p] = w]
  BY DEF CatchConnectError, Suspend, Finish, Outside, Awaits

LEMMA StepKinds ==
  ASSUME [Next]_vars
  PROVE  \/ \E p \in Callers : Moves(p) \/ QueryAuthFailed(p) \/ Disconnected(p)
         \/ UNCHANGED <<pc, refreshPromise>>
<1>1. ASSUME NEW p \in Callers, Call(p) \/ BackoffElapsed(p) \/ Regain(p)
      PROVE  Moves(p)
  <2>1. pc[p] \in Outside
    BY <1>1 DEF Call, BackoffElapsed, Regain, Outside, Awaits
  <2> QED
    BY <1>1, <2>1, EnterGetClientMoves
       DEF Call, BackoffElapsed, Regain, Moves, fields
<1>2. ASSUME NEW p \in Callers, CreationFailed(p) \/ ConnectFailed(p)
      PROVE  Moves(p)
  <2>1. pc[p] \in Outside
    BY <1>2 DEF CreationFailed, ConnectFailed, Outside, Awaits
  <2> QED
    BY <1>2, <2>1, CatchMoves
       DEF CreationFailed, ConnectFailed, CatchConnectError, Moves
<1>3. ASSUME NEW p \in Callers, ClientCreated(p) PROVE Moves(p)
  BY <1>3 DEF ClientCreated, Moves, Outside, Awaits
<1>4. ASSUME NEW p \in Callers, Connected(p) PROVE Moves(p)
  BY <1>4 DEF Connected, ReturnClient, RunQuery, Finish, Moves, Outside,
              Awaits, fields
<1>5. ASSUME NEW p \in Callers, QueryOk(p) \/ QueryFailed(p) PROVE Moves(p)
  BY <1>5 DEF QueryOk, QueryFailed, Finish, Moves, Outside, Awaits, fields
<1>6. CASE RotateDatabase \/ PublishSecret \/ UNCHANGED vars
  BY <1>6 DEF RotateDatabase, PublishSecret, vars, fields, calls
<1> QED
  BY <1>1, <1>2, <1>3, <1>4, <1>5, <1>6 DEF Next, Continue

LEMMA StepSingleInvalidation ==
  ASSUME TypeOK, SingleInvalidation, [Next]_vars
  PROVE  SingleInvalidation'
<1> USE ConfigAssumption DEF TypeOK, SingleInvalidation
<1>1. ASSUME NEW p \in Callers, Moves(p) PROVE SingleInvalidation'
  BY <1>1 DEF Moves, Outside, Awaits
<1>2. ASSUME NEW p \in Callers, QueryAuthFailed(p) PROVE SingleInvalidation'
  BY <1>2 DEF QueryAuthFailed, Invalidate, Suspend
<1>3. ASSUME NEW p \in Callers, Disconnected(p) PROVE SingleInvalidation'
  BY <1>3 DEF Disconnected
<1>4. CASE UNCHANGED <<pc, refreshPromise>>
  BY <1>4
<1> QED
  BY <1>1, <1>2, <1>3, <1>4, StepKinds

(* At most one invalidation is under way, it is the one refreshPromise      *)
(* stands for, and nobody waits when there is none.                         *)
THEOREM InvalidationIsExclusive == Spec => []SingleInvalidation
<1>1. Init => SingleInvalidation
  BY ConfigAssumption DEF Init, SingleInvalidation
<1> QED
  BY <1>1, StepSingleInvalidation, Typing, PTL DEF Spec

-----------------------------------------------------------------------------
(* A call that is not yet bound to a client has not run its query.          *)
Unbound ==
  \A p \in Callers :
    /\ pc[p] = "idle" => handle[p] = NoClient
    /\ handle[p] = NoClient => attempts[p] = 0

DropInv == Unbound /\ RetryOnlyAfterDrop

LEMMA StepUnbound ==
  ASSUME TypeOK, Unbound, [Next]_vars
  PROVE  Unbound'
<1> USE ConfigAssumption DEF TypeOK, Unbound
<1>1. ASSUME NEW p \in Callers, NEW c \in Clients, RunQuery(p, c)
      PROVE  Unbound'
  BY <1>1 DEF RunQuery
<1>2. ASSUME NEW p \in Callers, NEW r \in Results, Finish(p, r)
      PROVE  Unbound'
  BY <1>2 DEF Finish
<1>3. ASSUME NEW p \in Callers, NEW w \in Awaits \ {"idle"}, Suspend(p, w)
      PROVE  Unbound'
  BY <1>3 DEF Suspend
<1>4. ASSUME NEW p \in Callers, ReturnClient(p) PROVE Unbound'
  BY <1>1, <1>2, <1>4 DEF ReturnClient, Retrying, Results
<1>5. ASSUME NEW p \in Callers, EnterGetClient(p) PROVE Unbound'
  BY <1>3, <1>4, <1>5 DEF EnterGetClient, Awaits
<1>6. ASSUME NEW p \in Callers, CatchConnectError(p) PROVE Unbound'
  BY <1>2, <1>3, <1>6 DEF CatchConnectError, Awaits, Results
<1>7. ASSUME NEW p \in Callers, ClientCreated(p) PROVE Unbound'
  BY <1>7 DEF ClientCreated
<1>8. ASSUME NEW p \in Callers, QueryOk(p) \/ QueryFailed(p) PROVE Unbound'
  BY <1>2, <1>8 DEF QueryOk, QueryFailed, Results
<1>9. ASSUME NEW p \in Callers, QueryAuthFailed(p) PROVE Unbound'
  BY <1>9 DEF QueryAuthFailed, Invalidate, Suspend
<1>10. ASSUME NEW p \in Callers, Disconnected(p) PROVE Unbound'
  BY <1>10 DEF Disconnected
<1>11. CASE UNCHANGED calls
  BY <1>11 DEF calls
<1> QED
  BY <1>4, <1>5, <1>6, <1>7, <1>8, <1>9, <1>10, <1>11
     DEF Next, Continue, Call, CreationFailed, Connected, ConnectFailed,
         BackoffElapsed, Regain, RotateDatabase, PublishSecret, vars

LEMMA StepRetryOnlyAfterDrop ==
  ASSUME TypeOK, DropInv, [Next]_vars
  PROVE  RetryOnlyAfterDrop'
<1> USE ConfigAssumption
    DEF TypeOK, DropInv, Unbound, RetryOnlyAfterDrop, Retrying
<1>1. ASSUME NEW p \in Callers, ReturnClient(p), UNCHANGED dbClient,
             pc[p] \in {"idle", "connect", "backoff", "regain"}
      PROVE  RetryOnlyAfterDrop'
  BY <1>1 DEF ReturnClient, RunQuery, Finish
<1>2. ASSUME NEW p \in Callers, EnterGetClient(p), UNCHANGED dbClient,
             pc[p] \in {"idle", "backoff", "regain"}
      PROVE  RetryOnlyAfterDrop'
  BY <1>1, <1>2 DEF EnterGetClient, Suspend
<1>3. ASSUME NEW p \in Callers, CatchConnectError(p),
             pc[p] \in {"init", "connect"}
      PROVE  RetryOnlyAfterDrop'
  BY <1>3 DEF CatchConnectError, Suspend, Finish
<1>4. ASSUME NEW p \in Callers, ClientCreated(p) PROVE RetryOnlyAfterDrop'
  BY <1>4 DEF ClientCreated, Fresh
<1>5. ASSUME NEW p \in Callers, QueryOk(p) \/ QueryFailed(p)
      PROVE  RetryOnlyAfterDrop'
  BY <1>5 DEF QueryOk, QueryFailed, Finish, fields
<1>6. ASSUME NEW p \in Callers, QueryAuthFailed(p) PROVE RetryOnlyAfterDrop'
  BY <1>6 DEF QueryAuthFailed, Invalidate, Suspend
<1>7. ASSUME NEW p \in Callers, Disconnected(p) PROVE RetryOnlyAfterDrop'
  BY <1>7 DEF Disconnected, ResetFields
<1>8. CASE UNCHANGED <<dbClient, calls>>
  BY <1>8 DEF calls
<1> QED
  BY <1>1, <1>2, <1>3, <1>4, <1>5, <1>6, <1>7, <1>8
     DEF Next, Continue, Call, CreationFailed, Connected, ConnectFailed,
         BackoffElapsed, Regain, RotateDatabase, PublishSecret, vars, fields

(* A query is repeated only after the client that rejected it has left the  *)
(* datasource, for any number of callers and rotations.                     *)
THEOREM RetriesFollowDrop == Spec => []RetryOnlyAfterDrop
<1>1. Init => DropInv
  BY DEF Init, DropInv, Unbound, RetryOnlyAfterDrop, Retrying
<1>2. TypeOK /\ DropInv /\ [Next]_vars => DropInv'
  BY StepUnbound, StepRetryOnlyAfterDrop DEF DropInv
<1>3. DropInv => RetryOnlyAfterDrop
  BY DEF DropInv
<1> QED
  BY <1>1, <1>2, <1>3, Typing, PTL DEF Spec

-----------------------------------------------------------------------------
(* Refinement: taking the lock is Lead, waiting for it is Join, the end of  *)
(* $disconnect is Land, and every other step of DbClient is a stutter.      *)
LEMMA FlightStep ==
  ASSUME TypeOK, SingleInvalidation, [Next]_vars
  PROVE  [Flight!Next]_(Flight!vars)
<1> USE ConfigAssumption DEF TypeOK, SingleInvalidation
<1>1. ASSUME NEW p \in Callers, Moves(p) PROVE UNCHANGED Flight!vars
  BY <1>1 DEF Moves, Outside, Awaits, Flight!vars
<1>2. ASSUME NEW p \in Callers, QueryAuthFailed(p)
      PROVE  Flight!Join(p) \/ Flight!Lead(p) \/ UNCHANGED Flight!vars
  <2>1. CASE refreshPromise # NoCaller /\ Suspend(p, "waiting")
             /\ UNCHANGED refreshPromise
    BY <1>2, <2>1 DEF QueryAuthFailed, Suspend, Flight!Join
  <2>2. CASE /\ refreshPromise = NoCaller
             /\ refreshPromise' = p
             /\ pc' = [pc EXCEPT ![p] = "disconnecting"]
    BY <1>2, <2>2 DEF QueryAuthFailed, Flight!Lead
  <2>3. CASE Suspend(p, "regain") /\ UNCHANGED refreshPromise
    BY <1>2, <2>3 DEF QueryAuthFailed, Suspend, Flight!vars
  <2> QED
    BY <1>2, <2>1, <2>2, <2>3 DEF QueryAuthFailed, Invalidate
<1>3. ASSUME NEW p \in Callers, Disconnected(p) PROVE Flight!Land
  BY <1>3 DEF Disconnected, Flight!Land
<1>4. CASE UNCHANGED <<pc, refreshPromise>>
  BY <1>4 DEF Flight!vars
<1> QED
  BY <1>1, <1>2, <1>3, <1>4, StepKinds DEF Flight!Next

(* invalidateClient implements the abstract single flight.                  *)
THEOREM RefreshIsSingleFlight == Spec => ImplementsSingleFlight
<1>1. Init => Flight!Init
  BY DEF Init, Flight!Init
<1> QED
  BY <1>1, FlightStep, Typing, InvalidationIsExclusive, PTL
     DEF Spec, ImplementsSingleFlight, Flight!Spec

-----------------------------------------------------------------------------
(* The part of WaitersReleased that needs no fairness.                      *)

\* Whoever waits does so for a caller that is awaiting $disconnect, and goes
\* on waiting for that one, or leaves with all who wait in the one step that
\* drops the client and ends the invalidation.
WaitingStep ==
  \A p \in Callers : pc[p] = "waiting" =>
    /\ refreshPromise \in Callers /\ pc[refreshPromise] = "disconnecting"
    /\ \/ pc'[p] = "waiting" /\ refreshPromise' = refreshPromise
       \/ /\ refreshPromise' = NoCaller /\ dbClient' = NoClient
          /\ \A q \in Callers : pc[q] = "waiting" => pc'[q] = "regain"

\* Every step is such a step.
LEMMA StepWaiting ==
  ASSUME TypeOK, SingleInvalidation, [Next]_vars
  PROVE  WaitingStep
<1> USE ConfigAssumption DEF TypeOK, SingleInvalidation
<1> SUFFICES ASSUME NEW p \in Callers, pc[p] = "waiting"
    PROVE  \/ pc'[p] = "waiting" /\ refreshPromise' = refreshPromise
           \/ /\ refreshPromise' = NoCaller /\ dbClient' = NoClient
              /\ \A q \in Callers : pc[q] = "waiting" => pc'[q] = "regain"
  BY DEF WaitingStep
<1>1. ASSUME NEW q \in Callers, Moves(q)
      PROVE  pc'[p] = "waiting" /\ refreshPromise' = refreshPromise
  BY <1>1 DEF Moves, Outside, Awaits
<1>2. ASSUME NEW q \in Callers, QueryAuthFailed(q)
      PROVE  pc'[p] = "waiting" /\ refreshPromise' = refreshPromise
  BY <1>2 DEF QueryAuthFailed, Invalidate, Suspend
<1>3. ASSUME NEW q \in Callers, Disconnected(q)
      PROVE  /\ refreshPromise' = NoCaller /\ dbClient' = NoClient
             /\ \A w \in Callers : pc[w] = "waiting" => pc'[w] = "regain"
  BY <1>3 DEF Disconnected, ResetFields
<1> QED
  BY <1>1, <1>2, <1>3, StepKinds

\* No caller that joined an invalidation is left behind by its end.
THEOREM WaitersLeaveTogether == Spec => [][WaitingStep]_vars
<1>1. TypeOK /\ SingleInvalidation /\ [Next]_vars => WaitingStep
  BY StepWaiting
<1> QED
  BY <1>1, Typing, InvalidationIsExclusive, PTL DEF Spec
=============================================================================
