----------------------------- MODULE RemoteCalls -----------------------------
(***************************************************************************)
(* The datasources that wrap requests to a service: a method sends one     *)
(* request, deleteDeviceEndpoints one per endpoint.  The SDK sends a       *)
(* request again when no answer comes; the service may have executed it.   *)
(* A method is described by what the service may answer and by the answers *)
(* it resolves with; it throws on the others.                              *)
(***************************************************************************)
EXTENDS Naturals

CONSTANT Items  \* what requests are about: the endpoints to delete

VARIABLES
  method,    \* the method called
  given,     \* its items
  tries,   \* per item: attempts of its request
  answer,    \* per item: what the service answered
  executed,  \* per item: the service has done what it was asked
  state,     \* per item: "sent", "resolved" or "rejected"
  settled    \* the promise of the call: "running", "resolved" or "rejected"

callVars == <<method, given, tries, answer, executed, state, settled>>

Answers ==
  {"done",           \* done, and the answer says so
   "refused",        \* an error of the service that is not retried
   "functionError",  \* Lambda: the function threw; the status is 200 all the same
   "errors",         \* GraphQL: the answer lists errors
   "empty",          \* the part of the answer that matters is missing
   "malformed",      \* it is not JSON
   "badStatus",      \* its HTTP status is not that of success
   "partial"}        \* the first page, or some of the items only

\* A method of an SDK client, which makes three attempts.
Method(answers, resolves) ==
  [attempts |-> 3, answers |-> {"done", "refused"} \cup answers,
   resolves |-> {"done"} \cup resolves]

-----------------------------------------------------------------------------
(* The methods *)

\* LambdaDatasource: the caller gets the answer as it is.
invoke == Method({"functionError", "empty", "badStatus"},
                 {"functionError", "empty", "badStatus"})

\* The event is queued; what becomes of it is not known.
invokeLambdaAsync == Method({}, {})

\* A missing payload counts as an empty object.
invokeLambdaSync == Method({"functionError", "empty", "malformed"}, {"empty"})

\* Mutant: errors among the data are passed over.
BugGraphql ==
  Method({"functionError", "errors", "empty", "malformed", "badStatus"},
         {"functionError", "errors"})

\* GraphQLDatasource, queries and mutations: FunctionError is not looked at.
handleGraphqlLambdaResponse ==
  Method({"functionError", "errors", "empty", "malformed", "badStatus"},
         {"functionError"})

\* ApiGatewayDatasource: one fetch, parsed unless the format is text.
fetchJson == [Method({"badStatus", "malformed"}, {}) EXCEPT !.attempts = 1]
fetchText ==
  [Method({"badStatus", "malformed"}, {"malformed"}) EXCEPT !.attempts = 1]

\* SnsEndpointManagerDatasource
getAttributes == Method({"empty"}, {})
setActive == Method({}, {})
create == Method({"empty"}, {})
delete == Method({"badStatus"}, {})

\* SnsNotifierDatasource, AwsSqsMessageQueueDatasource and its jobs
publishMessage == Method({}, {})
push == Method({}, {})
deleteJob == Method({}, {})

\* CognitoIdentityDatasource: deleteIdentities returns the identities it has
\* not processed; a missing identity becomes ''.
deleteIdentities == Method({"partial"}, {"partial"})
getIdentityForUserPoolToken == Method({"empty"}, {"empty"})

\* SecretsManagerDatasource: neither string nor binary is an error.
getSecretValue == Method({"empty", "malformed"}, {})

\* DynamoDBDatasource hands its answers on, with the key to go on from.
deleteItem == Method({}, {})
query == Method({"partial"}, {"partial"})
scan == Method({"partial"}, {"partial"})

\* DynamoDBServiceDatasource returns the items and drops that key.
sendQueryCommand == Method({"partial"}, {"partial"})
sendUpdateCommand == Method({}, {})

\* Step Functions, Athena, SES, CloudWatch
startExecution == Method({}, {})
getQueryResults == Method({"partial"}, {"partial"})
sendEmail == Method({}, {})
putMetricData == Method({}, {})

\* TranslateDatasource: maxAttempts is 10.
translateText == [Method({}, {}) EXCEPT !.attempts = 10]
importTerminology == translateText

\* Every endpoint has a request of its own, sent by delete.
deleteDeviceEndpoints == delete

Methods ==
  [invoke |-> invoke, invokeLambdaAsync |-> invokeLambdaAsync,
   invokeLambdaSync |-> invokeLambdaSync,
   invokeQuery |-> handleGraphqlLambdaResponse,
   invokeMutation |-> handleGraphqlLambdaResponse,
   fetchJson |-> fetchJson, fetchText |-> fetchText,
   getAttributes |-> getAttributes, setActive |-> setActive, create |-> create,
   delete |-> delete, deleteDeviceEndpoints |-> deleteDeviceEndpoints,
   publishMessage |-> publishMessage, push |-> push, deleteJob |-> deleteJob,
   deleteIdentities |-> deleteIdentities,
   getIdentityForUserPoolToken |-> getIdentityForUserPoolToken,
   getSecretValue |-> getSecretValue, deleteItem |-> deleteItem, query |-> query,
   scan |-> scan, sendQueryCommand |-> sendQueryCommand,
   sendUpdateCommand |-> sendUpdateCommand, startExecution |-> startExecution,
   getQueryResults |-> getQueryResults, sendEmail |-> sendEmail,
   putMetricData |-> putMetricData, translateText |-> translateText,
   importTerminology |-> importTerminology]

-----------------------------------------------------------------------------

CallTypeOK ==
  /\ method \in DOMAIN Methods
  /\ given \in SUBSET Items
  /\ tries \in [Items -> 1..10]
  /\ answer \in [Items -> {"none"} \cup Answers]
  /\ executed \in [Items -> BOOLEAN]
  /\ state \in [Items -> {"sent", "resolved", "rejected"}]
  /\ settled \in {"running", "resolved", "rejected"}

\* No endpoints, no requests.
CallInit ==
  /\ method \in DOMAIN Methods
  /\ given \in SUBSET Items
  /\ method # "deleteDeviceEndpoints" => \E i \in Items : given = {i}
  /\ tries = [i \in Items |-> 1]
  /\ answer = [i \in Items |-> "none"]
  /\ executed = [i \in Items |-> FALSE]
  /\ state = [i \in Items |-> "sent"]
  /\ settled = IF given = {} THEN "resolved" ELSE "running"

\* An attempt reaches the service, which answers.
Executes(i) ==
  /\ i \in given /\ state[i] = "sent" /\ answer[i] = "none"
  /\ \E a \in Methods[method].answers :
       /\ answer' = [answer EXCEPT ![i] = a]
       /\ executed' = [executed EXCEPT ![i] = @ \/ a \notin {"refused", "badStatus"}]
  /\ UNCHANGED <<method, given, tries, state, settled>>

\* Mutant: Promise.all, which settles with the first request that fails.
BugCallEnds(new) ==
  LET ends == {new[i] : i \in given}
  IN  settled' = IF settled # "running" THEN settled
                 ELSE IF "rejected" \in ends THEN "rejected"
                 ELSE IF "sent" \in ends THEN "running"
                 ELSE "resolved"

\* Promise.allSettled: the call settles when all of its requests have.
CallEnds(new) ==
  LET ends == {new[i] : i \in given}
  IN  settled' = IF settled # "running" THEN settled
                 ELSE IF "sent" \in ends THEN "running"
                 ELSE IF "rejected" \in ends THEN "rejected"
                 ELSE "resolved"

\* The answer arrives and the method judges it.
Arrives(i) ==
  /\ i \in given /\ state[i] = "sent" /\ answer[i] # "none"
  /\ state' = [state EXCEPT
                 ![i] = IF answer[i] \in Methods[method].resolves THEN "resolved"
                        ELSE "rejected"]
  /\ CallEnds(state')
  /\ UNCHANGED <<method, given, tries, answer, executed>>

\* Mutant: the SDK tries for ever.
BugLost(i) ==
  /\ i \in given /\ state[i] = "sent"
  /\ answer' = [answer EXCEPT ![i] = "none"]
  /\ UNCHANGED <<method, given, tries, executed, state, settled>>

\* The attempt or its answer is lost, or the service throttles: once more, or
\* the request has failed.
Lost(i) ==
  /\ i \in given /\ state[i] = "sent"
  /\ answer' = [answer EXCEPT ![i] = "none"]
  /\ IF tries[i] < Methods[method].attempts
     THEN tries' = [tries EXCEPT ![i] = @ + 1] /\ UNCHANGED <<state, settled>>
     ELSE /\ state' = [state EXCEPT ![i] = "rejected"]
          /\ CallEnds(state')
          /\ UNCHANGED tries
  /\ UNCHANGED <<method, given, executed>>

CallStep == \E i \in given : Executes(i) \/ Arrives(i) \/ Lost(i)

CallSpec == CallInit /\ [][CallStep]_callVars

\* An attempt is answered, or times out.
CallFairness == WF_callVars(CallStep)

-----------------------------------------------------------------------------
(* Properties *)

\* Methods whose result is the answer of the service, whatever it says.
Raw == {"invoke", "deleteIdentities", "query", "scan", "getQueryResults", "fetchText"}

\* Answers that a method takes for good though something is missing or failed.
Silent ==
  {<<"invokeQuery", "functionError">>, <<"invokeMutation", "functionError">>,
   <<"invokeLambdaSync", "empty">>, <<"getIdentityForUserPoolToken", "empty">>,
   <<"sendQueryCommand", "partial">>}

\* A call that resolves was executed by the service for every one of its items
\* in the attempt whose answer arrived, and that answer says so, is the result
\* itself, or is among the few that a method passes over.
ResolvedIsAnswered ==
  settled = "resolved" =>
    \A i \in given :
      \/ answer[i] = "done" /\ executed[i]
      \/ answer[i] \in Answers /\ method \in Raw
      \/ <<method, answer[i]>> \in Silent /\ executed[i]

\* Every call settles.
CallSettles == <>(settled # "running")

\* deleteDeviceEndpoints promises what every bulk deletion does: it resolves
\* with all endpoints deleted, and nothing of it goes on after it has settled.
BulkDeletion ==
  INSTANCE AllOrError WITH
    given <- IF method = "deleteDeviceEndpoints" THEN given ELSE {},
    gone <- IF method = "deleteDeviceEndpoints" THEN {i \in given : executed[i]} ELSE {},
    status <- IF method = "deleteDeviceEndpoints" THEN settled ELSE "resolved"

EndpointsAllOrError == BulkDeletion!Spec
=============================================================================
