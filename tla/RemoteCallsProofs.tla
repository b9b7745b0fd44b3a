-------------------------- MODULE RemoteCallsProofs --------------------------
(***************************************************************************)
(* What holds of every call of a service, for any number of endpoints, and *)
(* of both caches, for any values, times to live and number of users.      *)
(***************************************************************************)
EXTENDS RemoteCalls, Caches, TLAPS

-----------------------------------------------------------------------------
(* Calls *)

\* What the judgement of the methods comes to.
LEMMA Judged ==
  ASSUME NEW m \in DOMAIN Methods, NEW a \in Methods[m].resolves
  PROVE  a = "done" \/ (a \in Answers /\ m \in Raw)
           \/ (<<m, a>> \in Silent /\ a \notin {"refused", "badStatus"})
<1> DEFINE Strict == {"invokeLambdaAsync", "fetchJson", "getAttributes", "setActive",
                      "create", "delete", "publishMessage", "push", "deleteJob",
                      "getSecretValue", "deleteItem", "sendUpdateCommand",
                      "startExecution", "sendEmail", "putMetricData",
                      "translateText", "importTerminology", "deleteDeviceEndpoints"}
           Lenient == {"deleteIdentities", "fetchText",
                       "getIdentityForUserPoolToken", "getQueryResults", "invoke",
                       "invokeLambdaSync", "query", "scan", "sendQueryCommand",
                       "invokeQuery", "invokeMutation"}
<1>1. m \in Strict \cup Lenient
  BY DEF Methods
<1>2. ASSUME m \in Strict PROVE Methods[m].resolves = {"done"}
  BY <1>2 DEF Methods, Method, invokeLambdaAsync, fetchJson, getAttributes, setActive, create, delete,
     publishMessage, push, deleteJob, getSecretValue, deleteItem, sendUpdateCommand,
     startExecution, sendEmail, putMetricData, translateText, importTerminology,
     deleteDeviceEndpoints
<1>3. ASSUME m \in {"invokeQuery", "invokeMutation"}
      PROVE  Methods[m].resolves = {"done", "functionError"}
  BY <1>3 DEF Methods, Method, handleGraphqlLambdaResponse
<1>4. ASSUME m \in {"invoke", "fetchText"} PROVE Methods[m].resolves \subseteq Answers
  BY <1>4 DEF Methods, Method, invoke, fetchText, Answers
<1>5. ASSUME m \in {"deleteIdentities", "query", "scan", "getQueryResults", "sendQueryCommand"}
      PROVE  Methods[m].resolves = {"done", "partial"}
  BY <1>5 DEF Methods, Method, deleteIdentities, query, scan, getQueryResults, sendQueryCommand
<1>6. ASSUME m \in {"invokeLambdaSync", "getIdentityForUserPoolToken"}
      PROVE  Methods[m].resolves = {"done", "empty"}
  BY <1>6 DEF Methods, Method, invokeLambdaSync, getIdentityForUserPoolToken
<1>7. CASE m \in Strict
  BY <1>2, <1>7
<1>8. CASE m \in Lenient
  BY <1>3, <1>4, <1>5, <1>6, <1>8 DEF Raw, Silent, Answers
<1> QED
  BY <1>1, <1>7, <1>8

-----------------------------------------------------------------------------

CallShape ==
  /\ method \in DOMAIN Methods
  /\ given \subseteq Items
  /\ DOMAIN answer = Items
  /\ DOMAIN state = Items
  /\ executed \in [Items -> BOOLEAN]

\* An answer other than a refusal comes from an attempt that was executed.
ExecutedInv ==
  \A i \in Items : answer[i] \notin {"none", "refused", "badStatus"} => executed[i]

\* A request resolves with an answer that its method resolves with.
JudgedInv ==
  \A i \in given : state[i] = "resolved" => answer[i] \in Methods[method].resolves

\* The call settles when all of its requests have, and resolves when all do.
SettledInv ==
  /\ settled \in {"running", "resolved", "rejected"}
  /\ settled # "running" => \A i \in given : state[i] # "sent"
  /\ settled = "resolved" => \A i \in given : state[i] = "resolved"

CallInv == CallShape /\ ExecutedInv /\ JudgedInv /\ SettledInv

\* The promise of the call after one of its requests has ended.
LEMMA Ends ==
  ASSUME NEW new, CallEnds(new), settled = "running",
         \A i \in given : new[i] \in {"sent", "resolved", "rejected"}
  PROVE  /\ settled' \in {"running", "resolved", "rejected"}
         /\ settled' # "running" => \A i \in given : new[i] # "sent"
         /\ settled' = "resolved" => \A i \in given : new[i] = "resolved"
  BY DEF CallEnds

LEMMA CallInvStep ==
  ASSUME CallInv, state \in [Items -> {"sent", "resolved", "rejected"}],
         [CallStep]_callVars
  PROVE  CallInv' /\ state' \in [Items -> {"sent", "resolved", "rejected"}]
<1> USE DEF CallInv
<1>1. CASE UNCHANGED callVars
  BY <1>1 DEF callVars, CallShape, ExecutedInv, JudgedInv, SettledInv
<1>2. ASSUME NEW i \in given, Executes(i)
      PROVE  CallInv' /\ state' \in [Items -> {"sent", "resolved", "rejected"}]
  <2>1. PICK a \in Methods[method].answers :
          /\ answer' = [answer EXCEPT ![i] = a]
          /\ executed' = [executed EXCEPT ![i] = @ \/ a \notin {"refused", "badStatus"}]
    BY <1>2 DEF Executes
  <2>2. /\ state[i] = "sent" /\ i \in Items
        /\ method' = method /\ given' = given /\ state' = state /\ settled' = settled
    BY <1>2 DEF Executes, CallShape
  <2>3. CallShape'
    BY <2>1, <2>2 DEF CallShape
  <2>4. ExecutedInv'
    BY <2>1, <2>2 DEF CallShape, ExecutedInv
  <2>5. JudgedInv'
    BY <2>1, <2>2 DEF CallShape, JudgedInv
  <2>6. SettledInv'
    BY <2>2 DEF SettledInv
  <2> QED
    BY <2>2, <2>3, <2>4, <2>5, <2>6
<1>3. ASSUME NEW i \in given, Arrives(i)
      PROVE  CallInv' /\ state' \in [Items -> {"sent", "resolved", "rejected"}]
  <2>1. /\ state[i] = "sent" /\ i \in Items /\ answer' = answer /\ executed' = executed
        /\ state' = [state EXCEPT
                      ![i] = IF answer[i] \in Methods[method].resolves THEN "resolved"
                             ELSE "rejected"]
        /\ method' = method /\ given' = given /\ CallEnds(state')
    BY <1>3 DEF Arrives, CallShape
  <2>2. state' \in [Items -> {"sent", "resolved", "rejected"}]
    BY <2>1
  <2>3. CallShape' /\ ExecutedInv'
    BY <2>1, <2>2 DEF CallShape, ExecutedInv
  <2>4. JudgedInv'
    BY <2>1 DEF CallShape, JudgedInv
  <2>5. settled = "running"
    BY <1>3, <2>1 DEF SettledInv
  <2>6. SettledInv'
    BY <2>1, <2>2, <2>5, Ends DEF SettledInv, CallShape
  <2> QED
    BY <2>2, <2>3, <2>4, <2>6
<1>4. ASSUME NEW i \in given, Lost(i)
      PROVE  CallInv' /\ state' \in [Items -> {"sent", "resolved", "rejected"}]
  <2>1. /\ state[i] = "sent" /\ i \in Items /\ answer' = [answer EXCEPT ![i] = "none"]
        /\ executed' = executed /\ method' = method /\ given' = given
    BY <1>4 DEF Lost, CallShape
  <2>2. \/ state' = state /\ settled' = settled
        \/ state' = [state EXCEPT ![i] = "rejected"] /\ CallEnds(state')
    BY <1>4 DEF Lost
  <2>3. state' \in [Items -> {"sent", "resolved", "rejected"}]
    BY <2>1, <2>2
  <2>4. CallShape' /\ ExecutedInv'
    BY <2>1, <2>3 DEF CallShape, ExecutedInv
  <2>5. JudgedInv'
    BY <2>1, <2>2 DEF CallShape, JudgedInv
  <2>6. settled = "running"
    BY <1>4, <2>1 DEF SettledInv
  <2>7. SettledInv'
    BY <2>1, <2>2, <2>3, <2>6, Ends DEF SettledInv, CallShape
  <2> QED
    BY <2>3, <2>4, <2>5, <2>7
<1> QED
  BY <1>1, <1>2, <1>3, <1>4 DEF CallStep

\* A call of any method that resolves was executed by the service for every one
\* of its items, unless the method passes such an answer over.
THEOREM CallsAnswered == CallSpec => []ResolvedIsAnswered
<1> DEFINE Inv == CallInv /\ state \in [Items -> {"sent", "resolved", "rejected"}]
<1>1. CallInit => Inv
  BY DEF CallInit, CallInv, CallShape, ExecutedInv, JudgedInv, SettledInv
<1>2. Inv /\ [CallStep]_callVars => Inv'
  BY CallInvStep
<1>3. Inv => ResolvedIsAnswered
  <2> SUFFICES ASSUME Inv, settled = "resolved", NEW i \in given
               PROVE  \/ answer[i] = "done" /\ executed[i]
                      \/ answer[i] \in Answers /\ method \in Raw
                      \/ <<method, answer[i]>> \in Silent /\ executed[i]
    BY DEF ResolvedIsAnswered
  <2>1. answer[i] \in Methods[method].resolves /\ method \in DOMAIN Methods /\ i \in Items
    BY DEF CallInv, CallShape, JudgedInv, SettledInv
  <2>2. \/ answer[i] = "done"
        \/ answer[i] \in Answers /\ method \in Raw
        \/ <<method, answer[i]>> \in Silent /\ answer[i] \notin {"refused", "badStatus"}
    BY <2>1, Judged
  <2>3. <<method, answer[i]>> \in Silent => answer[i] # "none"
    BY DEF Silent
  <2>4. answer[i] \notin {"none", "refused", "badStatus"} => executed[i]
    BY <2>1 DEF CallInv, ExecutedInv
  <2> QED
    BY <2>2, <2>3, <2>4
<1> QED
  BY <1>1, <1>2, <1>3, PTL DEF CallSpec

\* deleteDeviceEndpoints implements a bulk deletion: it starts as one, and
\* every step of it deletes some endpoints, settles, or changes nothing.
THEOREM EndpointsImplement == CallSpec => EndpointsAllOrError
<1> DEFINE Inv == CallInv /\ state \in [Items -> {"sent", "resolved", "rejected"}]
           Bulk == method = "deleteDeviceEndpoints"
           Gone == {i \in given : executed[i]}
<1>1. CallInit => Inv
  BY DEF CallInit, CallInv, CallShape, ExecutedInv, JudgedInv, SettledInv
<1>2. Inv /\ [CallStep]_callVars => Inv'
  BY CallInvStep
<1>3. CallInit => BulkDeletion!Init
  BY DEF CallInit, BulkDeletion!Init
<1>4. Inv /\ Inv' /\ [CallStep]_callVars => [BulkDeletion!Next]_(BulkDeletion!vars)
  <2> SUFFICES ASSUME Inv, Inv', [CallStep]_callVars
               PROVE  [BulkDeletion!Next]_(BulkDeletion!vars)
    OBVIOUS
  <2>1. CASE UNCHANGED callVars
    BY <2>1 DEF callVars, BulkDeletion!vars
  <2>2. ASSUME CallStep PROVE method' = method /\ given' = given
    BY <2>2 DEF CallStep, Executes, Arrives, Lost
  <2>3. CASE CallStep /\ ~Bulk
    BY <2>2, <2>3 DEF BulkDeletion!vars
  <2>4. CASE CallStep /\ Bulk
    <3>1. settled = "running"
      BY <2>4 DEF CallStep, Executes, Arrives, Lost, CallInv, SettledInv
    <3>2. Gone' \in SUBSET given /\ Gone \subseteq Gone'
      <4>1. \A i \in given : executed[i] => executed'[i]
        BY <2>4 DEF CallStep, Executes, Arrives, Lost, CallInv, CallShape
      <4> QED
        BY <2>2, <2>4, <4>1
    <3>3. settled' \in {"running", "resolved", "rejected"}
      BY DEF CallInv, SettledInv
    <3>4. ASSUME settled' = "resolved" PROVE Gone' = given
      <4>1. \A i \in given : answer'[i] \in Methods[method'].resolves /\ i \in Items
        BY <2>2, <2>4, <3>4 DEF CallInv, CallShape, SettledInv, JudgedInv
      <4>2. Methods["deleteDeviceEndpoints"].resolves = {"done"}
        BY DEF Methods, Method, deleteDeviceEndpoints, delete
      <4>3. \A i \in given : answer'[i] = "done"
        BY <2>2, <2>4, <4>1, <4>2
      <4>4. \A i \in given : executed'[i]
        BY <4>1, <4>3 DEF CallInv, ExecutedInv
      <4> QED
        BY <2>2, <2>4, <4>4
    <3> QED
      BY <2>2, <2>4, <3>1, <3>2, <3>3, <3>4 DEF BulkDeletion!Next, BulkDeletion!Progress
  <2> QED
    BY <2>1, <2>3, <2>4
<1> QED
  BY <1>1, <1>2, <1>3, <1>4, PTL DEF CallSpec, EndpointsAllOrError, BulkDeletion!Spec

-----------------------------------------------------------------------------
(* A call settles: the part of CallSettles that needs no fairness *)

\* Every method makes one to ten attempts and knows the answers it may get.
LEMMA MethodTyped ==
  ASSUME NEW m \in DOMAIN Methods
  PROVE  Methods[m].attempts \in 1..10 /\ Methods[m].answers \subseteq Answers
<1> DEFINE Bounded == {"invokeQuery", "invokeMutation", "fetchJson", "fetchText",
                       "translateText", "importTerminology"}
           Lambda == {"invoke", "invokeLambdaAsync", "invokeLambdaSync"}
           Sns == {"getAttributes", "setActive", "create", "delete", "publishMessage",
                   "push", "deleteJob", "deleteDeviceEndpoints"}
           Data == {"deleteIdentities", "getIdentityForUserPoolToken", "getSecretValue",
                    "deleteItem", "query", "scan", "sendQueryCommand", "sendUpdateCommand"}
           Others == {"startExecution", "getQueryResults", "sendEmail", "putMetricData"}
<1>1. m \in Bounded \cup Lambda \cup Sns \cup Data \cup Others
  BY DEF Methods
<1>2. CASE m \in {"invokeQuery", "invokeMutation"}
  BY <1>2 DEF Methods, handleGraphqlLambdaResponse, Method, Answers
<1>3. CASE m \in {"fetchJson", "fetchText"}
  BY <1>3 DEF Methods, fetchJson, fetchText, Method, Answers
<1>4. CASE m \in {"translateText", "importTerminology"}
  BY <1>4 DEF Methods, translateText, importTerminology, Method, Answers
<1>5. CASE m \in Lambda
  BY <1>5 DEF Methods, invoke, invokeLambdaAsync, invokeLambdaSync, Method, Answers
<1>6. CASE m \in Sns
  BY <1>6 DEF Methods, getAttributes, setActive, create, delete, publishMessage, push,
              deleteJob, deleteDeviceEndpoints, Method, Answers
<1>7. CASE m \in Data
  BY <1>7 DEF Methods, deleteIdentities, getIdentityForUserPoolToken, getSecretValue,
              deleteItem, query, scan, sendQueryCommand, sendUpdateCommand, Method, Answers
<1>8. CASE m \in Others
  BY <1>8 DEF Methods, startExecution, getQueryResults, sendEmail, putMetricData, Method,
              Answers
<1> QED
  BY <1>1, <1>2, <1>3, <1>4, <1>5, <1>6, <1>7, <1>8

\* A request that is still out has an attempt under way, and some request of a
\* call that has not settled is still out.
OutInv ==
  /\ tries \in [Items -> 1..10]
  /\ answer \in [Items -> {"none"} \cup Answers]
  /\ \A i \in given : tries[i] <= Methods[method].attempts
  /\ settled = "running" => \E i \in given : state[i] = "sent"

\* How often a request may still be answered, lost or judged.
RequestRank(i) ==
  IF state[i] # "sent" THEN 0
  ELSE 2 * (Methods[method].attempts - tries[i]) + IF answer[i] = "none" THEN 2 ELSE 1

\* A step is of one request, which comes nearer to its end.
RequestAdvances ==
  \E i \in given : /\ RequestRank(i)' < RequestRank(i)
                   /\ \A k \in given \ {i} : RequestRank(k)' = RequestRank(k)

\* The types and what the proofs above know of a call.
CallKnown == CallInv /\ state \in [Items -> {"sent", "resolved", "rejected"}] /\ OutInv

\* The call goes on as long as a request is out.
LEMMA EndsLate ==
  ASSUME NEW new, CallEnds(new), settled = "running", settled' = "running"
  PROVE  \E i \in given : new[i] = "sent"
BY DEF CallEnds

\* What a step does to the requests.
LEMMA RequestSteps ==
  ASSUME CallKnown, NEW i \in given, Executes(i) \/ Arrives(i) \/ Lost(i)
  PROVE  /\ OutInv'
         /\ RequestRank(i)' < RequestRank(i)
         /\ \A k \in given \ {i} : RequestRank(k)' = RequestRank(k)
<1> DEFINE n == Methods[method].attempts
<1>1. /\ method' = method /\ given' = given /\ state[i] = "sent" /\ i \in Items
      /\ \A k \in given : k \in Items
      /\ settled = "running"
  BY DEF Executes, Arrives, Lost, CallKnown, CallInv, CallShape, SettledInv
<1>2. n \in 1..10 /\ Methods[method].answers \subseteq Answers
  BY MethodTyped DEF CallKnown, CallInv, CallShape
<1>3. /\ state \in [Items -> {"sent", "resolved", "rejected"}]
      /\ tries \in [Items -> 1..10] /\ answer \in [Items -> {"none"} \cup Answers]
      /\ tries[i] <= n /\ \A k \in given : tries[k] <= n
      /\ "none" \notin Answers
  BY DEF CallKnown, OutInv, Answers
<1> HIDE DEF n
<1>4. \/ /\ answer[i] = "none" /\ tries' = tries /\ state' = state /\ settled' = settled
         /\ \E a \in Answers : answer' = [answer EXCEPT ![i] = a]
      \/ /\ tries' = tries /\ answer' = answer /\ CallEnds(state')
         /\ \E s \in {"resolved", "rejected"} : state' = [state EXCEPT ![i] = s]
      \/ /\ tries[i] < n /\ tries' = [tries EXCEPT ![i] = @ + 1]
         /\ answer' = [answer EXCEPT ![i] = "none"] /\ state' = state /\ settled' = settled
      \/ /\ tries' = tries /\ answer' = [answer EXCEPT ![i] = "none"]
         /\ state' = [state EXCEPT ![i] = "rejected"] /\ CallEnds(state')
  <2>1. CASE Executes(i)
    BY <1>2, <2>1 DEF Executes
  <2>2. CASE Arrives(i)
    BY <2>2 DEF Arrives
  <2>3. CASE Lost(i)
    BY <2>3 DEF Lost, n
  <2> QED
    BY <2>1, <2>2, <2>3
<1>5. /\ tries' \in [Items -> 1..10] /\ answer' \in [Items -> {"none"} \cup Answers]
      /\ \A k \in given : tries'[k] <= n
  BY <1>1, <1>2, <1>3, <1>4
<1>6. settled' = "running" => \E k \in given : state'[k] = "sent"
  <2>1. state' = state \/ CallEnds(state')
    BY <1>4
  <2>2. ASSUME CallEnds(state'), settled' = "running"
        PROVE  \E k \in given : state'[k] = "sent"
    BY <1>1, <2>2, EndsLate
  <2> QED
    BY <1>1, <2>1, <2>2
<1>7. OutInv'
  BY <1>1, <1>5, <1>6 DEF OutInv, n
<1>8. ASSUME NEW k \in given, k # i
      PROVE  state'[k] = state[k] /\ tries'[k] = tries[k] /\ answer'[k] = answer[k]
  BY <1>1, <1>3, <1>4, <1>8
<1>9. ASSUME NEW k \in given, k # i PROVE RequestRank(k)' = RequestRank(k)
  BY <1>1, <1>8, <1>9 DEF RequestRank
<1>10. RequestRank(i) = 2 * (n - tries[i]) + IF answer[i] = "none" THEN 2 ELSE 1
  BY <1>1 DEF RequestRank, n
<1>11. RequestRank(i)' =
         IF state'[i] # "sent" THEN 0
         ELSE 2 * (n - tries'[i]) + IF answer'[i] = "none" THEN 2 ELSE 1
  BY <1>1 DEF RequestRank, n
<1>12. tries[i] \in Nat /\ n \in Nat /\ tries[i] <= n
  BY <1>1, <1>2, <1>3
<1>13. \/ state'[i] # "sent"
       \/ state'[i] = "sent" /\ answer[i] = "none" /\ answer'[i] # "none" /\ tries'[i] = tries[i]
       \/ state'[i] = "sent" /\ answer'[i] = "none" /\ tries'[i] = tries[i] + 1
            /\ tries[i] < n
  BY <1>1, <1>3, <1>4
<1>14. \A a, b \in Nat : a <= b => 0 < 2 * (b - a) + 1 /\ 0 < 2 * (b - a) + 2
                                /\ 2 * (b - (a + 1)) + 2 < 2 * (b - a) + 1
                                /\ 2 * (b - (a + 1)) + 2 < 2 * (b - a) + 2
                                /\ 2 * (b - a) + 1 < 2 * (b - a) + 2
  OBVIOUS
<1>15. RequestRank(i)' < RequestRank(i)
  BY <1>10, <1>11, <1>12, <1>13, <1>14
<1> QED
  BY <1>7, <1>9, <1>15

\* A call begins with the first attempt of each request.
LEMMA CallKnownInit == CallInit => CallKnown
<1> SUFFICES ASSUME CallInit PROVE CallKnown
  OBVIOUS
<1>1. CallInv /\ state \in [Items -> {"sent", "resolved", "rejected"}]
  BY DEF CallInit, CallInv, CallShape, ExecutedInv, JudgedInv, SettledInv
<1>2. \A i \in given : tries[i] <= Methods[method].attempts
  <2>1. Methods[method].attempts \in 1..10
    BY MethodTyped DEF CallInit
  <2>2. \A i \in given : tries[i] = 1
    BY DEF CallInit
  <2> QED
    BY <2>1, <2>2
<1> QED
  BY <1>1, <1>2 DEF CallInit, CallKnown, OutInv

\* Every step keeps what is known of a call.
LEMMA CallKnownStep == CallKnown /\ [CallStep]_callVars => CallKnown'
<1> SUFFICES ASSUME CallKnown, [CallStep]_callVars PROVE CallKnown'
  OBVIOUS
<1>1. CallInv' /\ state' \in [Items -> {"sent", "resolved", "rejected"}]
  BY CallInvStep DEF CallKnown
<1>2. OutInv'
  BY RequestSteps DEF CallStep, callVars, CallKnown, OutInv
<1> QED
  BY <1>1, <1>2 DEF CallKnown

\* Types hold for every method and every set of endpoints.
THEOREM CallTyping == CallSpec => []CallTypeOK
<1>1. CallKnown => CallTypeOK
  BY DEF CallKnown, CallInv, CallShape, SettledInv, OutInv, CallTypeOK
<1> QED
  BY <1>1, CallKnownInit, CallKnownStep, PTL DEF CallSpec

\* No request goes on for ever, however often attempts are lost: every step
\* brings one of them nearer to its end, and the call has settled exactly when
\* the last has ended.
THEOREM RequestsCountDown ==
  CallSpec => /\ [](\A i \in given : RequestRank(i) \in Nat)
              /\ [](settled = "running" <=> \E i \in given : RequestRank(i) > 0)
              /\ [][RequestAdvances]_callVars
<1>1. ASSUME CallKnown
      PROVE  /\ \A i \in given : RequestRank(i) \in Nat /\ (state[i] = "sent" <=> RequestRank(i) > 0)
             /\ settled = "running" <=> \E i \in given : RequestRank(i) > 0
  <2>1. ASSUME NEW i \in given
        PROVE  RequestRank(i) \in Nat /\ (state[i] = "sent" <=> RequestRank(i) > 0)
    <3>1. tries[i] \in Nat /\ Methods[method].attempts \in Nat
          /\ tries[i] <= Methods[method].attempts
      BY <1>1, MethodTyped DEF CallKnown, CallInv, CallShape, OutInv
    <3>2. \A a, b \in Nat : a <= b => 2 * (b - a) + 1 \in Nat \ {0} /\ 2 * (b - a) + 2 \in Nat \ {0}
      OBVIOUS
    <3> QED
      BY <3>1, <3>2 DEF RequestRank
  <2>2. settled = "running" <=> \E i \in given : state[i] = "sent"
    BY <1>1 DEF CallKnown, CallInv, SettledInv, OutInv
  <2> QED
    BY <2>1, <2>2
<1>2. CallKnown /\ [CallStep]_callVars => [RequestAdvances]_callVars
  BY RequestSteps DEF CallStep, RequestAdvances
<1>3. CallKnown => \A i \in given : RequestRank(i) \in Nat
  BY <1>1
<1>4. CallKnown => (settled = "running" <=> \E i \in given : RequestRank(i) > 0)
  BY <1>1
<1> QED
  BY <1>2, <1>3, <1>4, CallKnownInit, CallKnownStep, PTL DEF CallSpec

-----------------------------------------------------------------------------
(* Caches *)

\* What the cache has is what was last written, until its TTL has run out.
EntryInv ==
  entry # NoEntry =>
    /\ written # NoEntry
    /\ entry.value = Kept
    /\ kind = "memory" =>
         entry.expiresAt = IF written.ttl = 0 THEN 0 ELSE written.at + written.ttl
    /\ kind = "valkey" =>
         \/ entry.expiresAt = written.at + written.ttl
         \/ sliding /\ entry.expiresAt = readAt + ConfigTtl

MemoryInv == kind = "memory" => ~sliding /\ ~cluster /\ \A u \in Users : step[u] = "idle"

CacheInv == CacheTypeOK /\ EntryInv /\ MemoryInv

LEMMA Distinct ==
  /\ \A v, x : [value |-> v, expiresAt |-> x] # NoEntry
  /\ \A v, a, t : [value |-> v, at |-> a, ttl |-> t] # NoEntry
<1>1. DOMAIN NoEntry = {"value"}
  BY DEF NoEntry
<1>2. \A v, x : DOMAIN [value |-> v, expiresAt |-> x] = {"value", "expiresAt"}
  OBVIOUS
<1>3. \A v, a, t : DOMAIN [value |-> v, at |-> a, ttl |-> t] = {"value", "at", "ttl"}
  OBVIOUS
<1> QED
  BY <1>1, <1>2, <1>3

LEMMA Minified ==
  ASSUME NEW v \in Values PROVE minifyJSON(v) \in Values
  BY CachesAssumption DEF minifyJSON

LEMMA Operation ==
  ASSUME NEW o \in Ops
  PROVE  /\ o.name \in {"get", "set", "delete"}
         /\ o.name = "set" => o.value \in Values /\ o.ttl \in Nat
  BY CachesAssumption DEF Ops

\* What is known about the data after a step, whichever action it is.
Stored ==
  /\ entry \in Entries \cup {NoEntry}
  /\ written \in Written \cup {NoEntry}
  /\ readAt \in 0..LastTime
  /\ EntryInv

LEMMA CommandStores ==
  ASSUME CacheInv, kind = "valkey", NEW o \in Ops, Command(o),
         UNCHANGED <<config, time>>
  PROVE  Stored'
<1> USE CachesAssumption DEF CacheInv, CacheTypeOK
<1>1. kind' = kind /\ sliding' = sliding /\ kind # "memory"
  BY DEF config
<1>2. CASE o.name = "set" /\ o.ttl # 0
  <2>1. /\ entry' = [value |-> minifyJSON(o.value), expiresAt |-> time + o.ttl]
        /\ written' = [value |-> o.value, at |-> time, ttl |-> o.ttl]
        /\ readAt' = time
    BY <1>2 DEF Command, valkeySet
  <2>2. o.value \in Values /\ o.ttl \in Nat /\ minifyJSON(o.value) \in Values
    BY <1>2, Operation, Minified
  <2>3. o.ttl \in Ttls
    BY <1>2 DEF Ops
  <2>4. /\ entry' \in Entries /\ written' \in Written /\ readAt' \in 0..LastTime
        /\ written' # NoEntry
    BY <2>1, <2>2, Distinct DEF Entries, Written
  <2>5. EntryInv'
    BY <1>1, <2>1, <2>4 DEF EntryInv, Kept, minifyJSON
  <2> QED
    BY <2>4, <2>5 DEF Stored
<1>3. CASE o.name = "delete"
  <2>1. entry' = NoEntry /\ written' = NoEntry /\ readAt' = readAt
    BY <1>3 DEF Command, valkeyDelete
  <2> QED
    BY <2>1 DEF Stored, EntryInv
<1>4. CASE o.name = "get" /\ sliding /\ Alive(entry)
  <2>1. /\ entry' = [entry EXCEPT !.expiresAt = time + ConfigTtl]
        /\ readAt' = time /\ written' = written
    BY <1>4 DEF Command, valkeyGetex
  <2>2. entry \in Entries /\ entry # NoEntry
    BY <1>4 DEF Alive
  <2>3. /\ entry' \in Entries /\ entry'.value = entry.value
        /\ entry'.expiresAt = time + ConfigTtl
    BY <2>1, <2>2 DEF Entries
  <2>4. EntryInv'
    BY <1>1, <1>4, <2>1, <2>2, <2>3 DEF EntryInv, Kept, minifyJSON
  <2> QED
    BY <2>1, <2>3, <2>4 DEF Stored
<1>5. CASE UNCHANGED <<entry, written, readAt>>
  BY <1>1, <1>5 DEF Stored, EntryInv, Kept, minifyJSON
<1> QED
  BY <1>2, <1>3, <1>4, <1>5, Operation DEF Command, valkeySet, valkeyGetex

LEMMA MemoryStores ==
  ASSUME CacheInv, NEW u \in Users, Memory(u)
  PROVE  Stored'
<1> USE CachesAssumption DEF CacheInv, CacheTypeOK
<1>1. PICK o \in Ops :
        \/ o.name = "get" /\ memoryGet(u)
        \/ o.name = "set" /\ memorySet(o.value, o.ttl)
        \/ o.name = "delete" /\ memoryDelete
  BY DEF Memory
<1>2. /\ kind = "memory" /\ kind' = kind /\ time' = time
  BY DEF Memory, config
<1>3. CASE o.name = "get"
  <2>1. /\ entry' = entry \/ entry' = NoEntry
        /\ written' = written /\ readAt' = readAt
    BY <1>1, <1>3 DEF memoryGet
  <2> QED
    BY <1>2, <2>1 DEF Stored, EntryInv, Kept, minifyJSON
<1>4. CASE o.name = "set"
  <2>1. /\ entry' = [value |-> o.value,
                     expiresAt |-> IF o.ttl = 0 THEN 0 ELSE time + o.ttl]
        /\ written' = [value |-> o.value, at |-> time, ttl |-> o.ttl]
        /\ readAt' = time
    BY <1>1, <1>4 DEF memorySet
  <2>2. o.value \in Values /\ o.ttl \in Nat /\ time \in Nat
    BY <1>4, Operation
  <2>3. /\ entry' \in Entries /\ written' \in Written /\ readAt' \in 0..LastTime
        /\ written' # NoEntry
    BY <1>4, <2>1, <2>2, Distinct DEF Entries, Written
  <2>4. EntryInv'
    BY <1>2, <2>1, <2>3 DEF EntryInv, Kept
  <2> QED
    BY <2>3, <2>4 DEF Stored
<1>5. CASE o.name = "delete"
  <2>1. entry' = NoEntry /\ written' = NoEntry /\ readAt' = readAt
    BY <1>1, <1>5 DEF memoryDelete
  <2> QED
    BY <2>1 DEF Stored, EntryInv
<1> QED
  BY <1>3, <1>4, <1>5, Operation

\* The steps that leave the data alone, or drop it.
LEMMA StaysStored ==
  ASSUME CacheInv, UNCHANGED config, time' \in 0..LastTime,
         \/ UNCHANGED <<entry, written, readAt>>
         \/ entry' = NoEntry /\ written' = NoEntry /\ readAt' = readAt
  PROVE  Stored'
  BY DEF CacheInv, CacheTypeOK, Stored, EntryInv, Kept, minifyJSON, config

\* A get finds what the cache has, or nothing.
LEMMA Finds ==
  ASSUME CacheInv, NEW u \in Users, CacheNext, got'[u] # got[u], got'[u] # Null,
         ~(cluster /\ ~sliding)
  PROVE  /\ entry # NoEntry /\ got'[u] = entry.value
         /\ kind = "memory" => ~Expired(entry)
         /\ kind = "valkey" => Alive(entry)
<1> USE DEF CacheInv, CacheTypeOK
<1>1. \A w \in Users : DOMAIN got = Users
  OBVIOUS
<1>2. ASSUME NEW w \in Users, Memory(w)
      PROVE  w = u /\ entry # NoEntry /\ ~Expired(entry) /\ got'[u] = entry.value
             /\ kind = "memory"
  <2>1. kind = "memory" /\ (memoryGet(w) \/ got' = got)
    <3>1. PICK o \in Ops : \/ memoryGet(w)
                           \/ memorySet(o.value, o.ttl)
                           \/ memoryDelete
      BY <1>2 DEF Memory
    <3> QED
      BY <1>2, <3>1, Operation DEF Memory, memorySet, memoryDelete
  <2> QED
    BY <2>1 DEF memoryGet
<1>3. ASSUME NEW w \in Users, Begin(w) PROVE FALSE
  BY <1>3 DEF Begin
<1>4. ASSUME NEW w \in Users, ClientCreated(w) \/ Throws(w) PROVE FALSE
  BY <1>4 DEF ClientCreated, Throws
<1>5. ASSUME NEW w \in Users, Answered(w)
      PROVE  w = u /\ Alive(entry) /\ got'[u] = entry.value /\ kind = "valkey"
  <2>1. PICK v \in Read : got' = [got EXCEPT ![w] = v]
    BY <1>5 DEF Answered
  <2>2. w = u /\ got'[u] = v
    BY <2>1
  <2>3. Read = {IF Alive(entry) THEN entry.value ELSE Null}
    BY DEF Read
  <2>4. step[w] # "idle"
    BY <1>5 DEF Answered
  <2> QED
    BY <2>1, <2>2, <2>3, <2>4 DEF MemoryInv
<1>6. ASSUME Replicated \/ Evicted \/ CacheTimePasses PROVE FALSE
  BY <1>6 DEF Replicated, Evicted, CacheTimePasses
<1> QED
  BY <1>2, <1>3, <1>4, <1>5, <1>6 DEF CacheNext, Alive

LEMMA CacheInvStep ==
  ASSUME CacheInv, [CacheNext]_cacheVars PROVE CacheInv'
<1> USE CachesAssumption DEF CacheInv
<1> DEFINE Rest ==
      /\ kind \in {"memory", "valkey"}
      /\ sliding \in BOOLEAN /\ cluster \in BOOLEAN
      /\ time \in 0..LastTime
      /\ replica \in Entries \cup {NoEntry}
      /\ client \in BOOLEAN
      /\ op \in [Users -> Ops]
      /\ step \in [Users -> {"idle", "createClient", "command"}]
      /\ got \in [Users -> Values \cup {Null}]
      /\ MemoryInv
<1>1. Rest /\ entry \in Entries \cup {NoEntry}
  BY DEF CacheTypeOK
<1>2. ASSUME Rest', Stored' PROVE CacheInv'
  BY <1>2 DEF CacheTypeOK, Stored
<1>3. CASE UNCHANGED cacheVars
  BY <1>3 DEF cacheVars, config, CacheTypeOK, EntryInv, Kept, minifyJSON, MemoryInv
<1>4. ASSUME NEW u \in Users, Memory(u) PROVE CacheInv'
  <2>1. got' \in [Users -> Values \cup {Null}]
    <3>1. PICK o \in Ops : \/ memoryGet(u)
                           \/ memorySet(o.value, o.ttl)
                           \/ memoryDelete
      BY <1>4 DEF Memory
    <3>2. memoryGet(u) \/ got' = got
      BY <3>1, Operation DEF memorySet, memoryDelete
    <3>3. entry # NoEntry => entry.value \in Values
      BY <1>1 DEF Entries
    <3> QED
      BY <1>1, <3>2, <3>3 DEF memoryGet
  <2>2. op' \in [Users -> Ops]
    BY <1>1, <1>4 DEF Memory
  <2>3. Rest'
    BY <1>1, <1>4, <2>1, <2>2 DEF Memory, config, MemoryInv
  <2> QED
    BY <1>2, <1>4, <2>3, MemoryStores
<1>5. ASSUME NEW u \in Users, Begin(u) PROVE CacheInv'
  <2>1. Rest'
    BY <1>1, <1>5 DEF Begin, config, MemoryInv
  <2>2. Stored'
    BY <1>1, <1>5, StaysStored DEF Begin
  <2> QED
    BY <1>2, <2>1, <2>2
<1>6. ASSUME NEW u \in Users, ClientCreated(u) PROVE CacheInv'
  <2>1. Rest'
    BY <1>1, <1>6 DEF ClientCreated, config, MemoryInv
  <2>2. Stored'
    BY <1>1, <1>6, StaysStored DEF ClientCreated
  <2> QED
    BY <1>2, <2>1, <2>2
<1>7. ASSUME NEW u \in Users, Answered(u) PROVE CacheInv'
  <2>1. got' \in [Users -> Values \cup {Null}]
    <3>1. Read \subseteq Values \cup {Null}
      BY <1>1 DEF Read, Alive, Entries
    <3> QED
      BY <1>1, <1>7, <3>1 DEF Answered
  <2>2. Rest'
    BY <1>1, <1>7, <2>1 DEF Answered, config, MemoryInv
  <2>3. Stored'
    BY <1>1, <1>7, CommandStores DEF Answered, MemoryInv
  <2> QED
    BY <1>2, <2>2, <2>3
<1>8. ASSUME NEW u \in Users, Throws(u) PROVE CacheInv'
  <2>1. Rest'
    BY <1>1, <1>8 DEF Throws, config, MemoryInv
  <2>2. Stored'
    BY <1>1, <1>8, CommandStores, StaysStored DEF Throws, MemoryInv
  <2> QED
    BY <1>2, <2>1, <2>2
<1>9. CASE Replicated
  <2>1. Rest'
    BY <1>1, <1>9 DEF Replicated, config, MemoryInv
  <2>2. Stored'
    BY <1>1, <1>9, StaysStored DEF Replicated
  <2> QED
    BY <1>2, <2>1, <2>2
<1>10. CASE Evicted
  <2>1. Rest'
    BY <1>1, <1>10 DEF Evicted, config, MemoryInv
  <2>2. Stored'
    BY <1>1, <1>10, StaysStored DEF Evicted
  <2> QED
    BY <1>2, <2>1, <2>2
<1>11. CASE CacheTimePasses
  <2>1. Rest'
    BY <1>1, <1>11 DEF CacheTimePasses, config, MemoryInv
  <2>2. Stored'
    BY <1>1, <1>11, <2>1, StaysStored DEF CacheTimePasses
  <2> QED
    BY <1>2, <2>1, <2>2
<1> QED
  BY <1>3, <1>4, <1>5, <1>6, <1>7, <1>8, <1>9, <1>10, <1>11 DEF CacheNext

\* A cache starts empty.
LEMMA CacheInvInit == CacheInit => CacheInv
<1> SUFFICES ASSUME CacheInit PROVE CacheInv
  OBVIOUS
<1>1. [name |-> "get"] \in Ops
  BY DEF Ops
<1>2. op \in [Users -> Ops] /\ step \in [Users -> {"idle", "createClient", "command"}]
  BY <1>1 DEF CacheInit
<1>3. got \in [Users -> Values \cup {Null}]
  BY DEF CacheInit
<1>4. CacheTypeOK
  <2>1. time \in 0..LastTime /\ readAt \in 0..LastTime
    BY CachesAssumption DEF CacheInit
  <2>2. kind \in {"memory", "valkey"} /\ sliding \in BOOLEAN /\ cluster \in BOOLEAN
    BY DEF CacheInit
  <2>3. entry = NoEntry /\ replica = NoEntry /\ written = NoEntry
    BY DEF CacheInit
  <2>4. client \in BOOLEAN
    BY DEF CacheInit
  <2> QED
    BY <1>2, <1>3, <2>1, <2>2, <2>3, <2>4 DEF CacheTypeOK
<1> QED
  BY <1>4 DEF CacheInit, CacheInv, EntryInv, MemoryInv

\* Both caches serve what was written last, and nothing that has expired.
THEOREM CachesServe == CacheSpec => ServesLastWritten
<1>1. CacheInit => CacheInv
  BY CacheInvInit
<1>2. CacheInv /\ [CacheNext]_cacheVars => CacheInv'
  BY CacheInvStep
<1>3. CacheInv /\ [CacheNext]_cacheVars =>
        [\A u \in Users :
           got'[u] # got[u] /\ got'[u] # Null /\ ~(cluster /\ ~sliding)
             => written # NoEntry /\ got'[u] = Kept /\ Fresh]_cacheVars
  <2> SUFFICES ASSUME CacheInv, CacheNext, NEW u \in Users,
                      got'[u] # got[u], got'[u] # Null, ~(cluster /\ ~sliding)
               PROVE  written # NoEntry /\ got'[u] = Kept /\ Fresh
    OBVIOUS
  <2>1. /\ entry # NoEntry /\ got'[u] = entry.value
        /\ kind = "memory" => ~Expired(entry)
        /\ kind = "valkey" => Alive(entry)
    BY Finds
  <2>2. written # NoEntry /\ got'[u] = Kept
    BY <2>1 DEF CacheInv, EntryInv
  <2>3. /\ written.at \in Nat /\ written.ttl \in Nat /\ time \in Nat
        /\ kind \in {"memory", "valkey"} /\ readAt \in Nat /\ ConfigTtl \in Nat
    BY <2>2, CachesAssumption DEF CacheInv, CacheTypeOK, Written
  <2>4. CASE kind = "memory"
    <3>1. entry.expiresAt = IF written.ttl = 0 THEN 0 ELSE written.at + written.ttl
      BY <2>1, <2>4 DEF CacheInv, EntryInv
    <3>2. entry.expiresAt = 0 \/ time <= entry.expiresAt
      BY <2>1, <2>3, <2>4, <3>1 DEF Expired
    <3> QED
      BY <2>2, <2>3, <2>4, <3>1, <3>2 DEF Fresh
  <2>5. CASE kind = "valkey"
    <3>1. \/ entry.expiresAt = written.at + written.ttl
          \/ sliding /\ entry.expiresAt = readAt + ConfigTtl
      BY <2>1, <2>5 DEF CacheInv, EntryInv
    <3> QED
      BY <2>1, <2>2, <2>5, <3>1 DEF Alive, Fresh
  <2> QED
    BY <2>2, <2>3, <2>4, <2>5
<1> QED
  BY <1>1, <1>2, <1>3, PTL DEF CacheSpec, ServesLastWritten

\* Types hold for both caches, whatever their users do.
THEOREM CacheTyping == CacheSpec => []CacheTypeOK
<1>1. CacheInv => CacheTypeOK
  BY DEF CacheInv
<1> QED
  BY <1>1, CacheInvInit, CacheInvStep, PTL DEF CacheSpec
=============================================================================
