------------------------------ MODULE Container ------------------------------
(***************************************************************************)
(* Wiring and configuration of a Lambda: bootstrapApplication binds the    *)
(* providers of its module, and of those it imports, to one inversify      *)
(* container; a request gets its presenter from it and reads the           *)
(* environment through AppConfig when it needs something.                  *)
(*                                                                         *)
(* A provider is its key in DI, without the suffix _DATASOURCE (but for    *)
(* LAMBDA, which is a word of TLA+).                                       *)
(***************************************************************************)
EXTENDS Naturals, Sequences, FiniteSets

CONSTANTS
  MaxBad,      \* bound: how many variables are wrong
  MaxRequests  \* bound: requests of a container

ASSUME ContainerAssumption == MaxBad \in Nat /\ MaxRequests \in Nat

VARIABLES
  lambda,     \* the module a Lambda starts with and what its requests get
  local,      \* NODE_ENV is local or test
  bad,        \* variables that are not set or, where that is an error, no number
  todo,       \* calls of bootstrapApplication and bindProviders to come
  bindings,   \* per key: how often it is bound
  instances,  \* per key: how many instances were made
  phase,      \* "idle", "constructing" or "handling" a request
  wanted,     \* the key the request gets
  toBuild,    \* keys the container has yet to construct for it
  result,     \* of the last request
  requests    \* requests so far

containerVars == <<lambda, local, bad, todo, bindings, instances, phase, wanted,
                   toBuild, result, requests>>

-----------------------------------------------------------------------------
(* AppConfig: the variables without which a getter throws *)

awsConfig == {"REGION"}  \* AWS_REGION, or else REGION
dbConfig == {"RDS_PROXY_ENDPOINT"}
cognitoUserPoolConfig ==
  {"COGNITO_USER_POOL_ID", "COGNITO_USER_POOL_CLIENT_ID"} \cup awsConfig
cognitoIdentityConfig ==
  {"COGNITO_IDENTITY_POOL_ID", "TOKEN_DURATION_SECONDS"} \cup cognitoUserPoolConfig
secretManagerKeys == {"RDS_SECRET_ARN"}
dynamoDBConfig == {"DYNAMODB_ENDPOINT"}
lambdaConfig == {"INSERT_RETRY_COUNT", "LAMBDA_GRAPHQL_API_ARN"}

\* The host must be set, the port a number, and so must the TTL and the two
\* time-outs if they are set, here one variable.
elastiCacheConfig == {"ELASTICACHE_HOST", "ELASTICACHE_PORT", "ELASTICACHE_NUMBERS"}

\* A variable that has a default, but one that nobody can connect to.
dbUrl == {"DATABASE_URL"}

Variables ==
  dbConfig \cup dbUrl \cup cognitoIdentityConfig \cup secretManagerKeys \cup dynamoDBConfig
    \cup lambdaConfig \cup elastiCacheConfig

-----------------------------------------------------------------------------
(* Providers: what the constructor injects, and the variables that it and   *)
(* the methods read                                                         *)

Class(injects, constructor, methods) ==
  [injects |-> injects, constructor |-> constructor, methods |-> methods]

\* A datasource whose constructor makes the client of an AWS service.
AwsClient(methods) == Class({"APP_CONFIG"}, awsConfig, methods)

AppConfig == Class({}, {}, {})
LambdaDatasource == AwsClient({})
CloudWatchMetricsDatasource == AwsClient({})
TranslateDatasource == AwsClient({})
AwsSqsMessageQueueDatasource == AwsClient({})
NotificationDatasource == AwsClient({})
SecretsManagerDatasource == AwsClient({})
AthenaDatasource == AwsClient({})
StepFunctionDatasource == AwsClient({})
AwsSesEmailDatasource == AwsClient({})
AwsS3ObjectStorageDatasource == AwsClient({})
CognitoIdentityDatasource == AwsClient(cognitoIdentityConfig)
ApiGatewayDatasource == Class({}, {}, {})
ParquetFileDatasource == Class({}, {}, {})
ElastiCacheCacheDatasource == Class({"APP_CONFIG"}, {}, elastiCacheConfig)
AwsS3ObjectStorageConnectorDatasource == Class({"APP_CONFIG"}, {}, awsConfig)
GcpGcsObjectStorageUploadDatasource ==
  Class({"SECRETS_MANAGER", "APP_CONFIG"}, {}, secretManagerKeys)
GraphQLDatasource == Class({"LAMBDA_DATASOURCE", "APP_CONFIG"}, {}, lambdaConfig)

DynamoDBRawClient == AwsClient({})
DynamoDBClientDatasource == AwsClient({})
DynamoDBDatasource == Class({"DYNAMODB_RAW_CLIENT"}, {}, {})
DynamoDBServiceDatasource == Class({"DYNAMODB_CLIENT"}, {}, {})

PrismaDBClientDatasource ==
  Class({"APP_CONFIG", "SECRETS_MANAGER"}, {}, dbConfig \cup secretManagerKeys)
PrismaTransactionRunnerDatasource == Class({"DB_CLIENT"}, {}, {})
CommonUserRepoClass == Class({"DB_CLIENT"}, {}, {})

UserRepo == Class({"DB_CLIENT"}, {}, {})
DeleteUserUseCase == Class({"UserInfoRepo"}, {}, {})
DeleteUserPresenter == Class({"DeleteUserUseCase"}, {}, {})

JwtSigningKeyRepo ==
  Class({"APP_CONFIG", "API_GATEWAY", "CACHE"}, {}, cognitoUserPoolConfig)
VerifyTokenUseCase ==
  Class({"JwtSigningKeyRepo", "APP_CONFIG"}, {}, cognitoUserPoolConfig)
JwtAuthorizerPresenter == Class({"VerifyTokenUseCase"}, {}, {})

Deployed ==
  [APP_CONFIG |-> AppConfig, LAMBDA_DATASOURCE |-> LambdaDatasource,
   CLOUDWATCH_METRICS |-> CloudWatchMetricsDatasource,
   TRANSLATE |-> TranslateDatasource, MESSAGE_QUEUE |-> AwsSqsMessageQueueDatasource,
   PUSH_NOTIFICATION |-> NotificationDatasource,
   SECRETS_MANAGER |-> SecretsManagerDatasource, ATHENA |-> AthenaDatasource,
   STEP_FUNCTION |-> StepFunctionDatasource, EMAIL |-> AwsSesEmailDatasource,
   OBJECT_STORAGE |-> AwsS3ObjectStorageDatasource,
   OBJECT_STORAGE_CONNECTOR |-> AwsS3ObjectStorageConnectorDatasource,
   OBJECT_STORAGE_UPLOAD |-> GcpGcsObjectStorageUploadDatasource,
   COGNITO_IDENTITY |-> CognitoIdentityDatasource,
   API_GATEWAY |-> ApiGatewayDatasource, PARQUET_FILE |-> ParquetFileDatasource,
   CACHE |-> ElastiCacheCacheDatasource, GRAPHQL |-> GraphQLDatasource,
   DYNAMODB_RAW_CLIENT |-> DynamoDBRawClient,
   DYNAMODB_CLIENT |-> DynamoDBClientDatasource,
   DYNAMODB |-> DynamoDBDatasource, DYNAMODB_SERVICE |-> DynamoDBServiceDatasource,
   DB_CLIENT |-> PrismaDBClientDatasource,
   TRANSACTION_RUNNER |-> PrismaTransactionRunnerDatasource,
   COMMON_USER_REPO |-> CommonUserRepoClass,
   UserInfoRepo |-> UserRepo, DeleteUserUseCase |-> DeleteUserUseCase,
   DeleteUserPresenter |-> DeleteUserPresenter,
   JwtSigningKeyRepo |-> JwtSigningKeyRepo, VerifyTokenUseCase |-> VerifyTokenUseCase,
   JwtAuthorizerPresenter |-> JwtAuthorizerPresenter]

Keys == DOMAIN Deployed

\* Locally DynamoDB has an endpoint of its own; the client of the database takes
\* its URL from the environment instead of a secret, but reads all of dbConfig
\* for it.
Providers ==
  IF local THEN [Deployed EXCEPT !["DYNAMODB_RAW_CLIENT"].constructor = @ \cup dynamoDBConfig,
                                 !["DYNAMODB_CLIENT"].constructor = @ \cup dynamoDBConfig,
                                 !["DB_CLIENT"].methods = dbConfig \cup dbUrl]
           ELSE Deployed

-----------------------------------------------------------------------------
(* Modules: what they import and the keys they provide *)

Module(imports, providers) == [imports |-> imports, providers |-> providers]

AppConfigModule == Module(<<>>, {"APP_CONFIG"})
LambdaDatasourceModule == Module(<<>>, {"LAMBDA_DATASOURCE"})
ApiGatewayDatasourceModule == Module(<<>>, {"API_GATEWAY"})
CacheDatasourceModule == Module(<<>>, {"CACHE"})
CloudWatchMetricsDatasourceModule == Module(<<>>, {"CLOUDWATCH_METRICS"})
TranslateDatasourceModule == Module(<<>>, {"TRANSLATE"})
MessageQueueDatasourceModule == Module(<<>>, {"MESSAGE_QUEUE"})
ParquetFileDatasourceModule == Module(<<>>, {"PARQUET_FILE"})
PushNotificationDatasourceModule == Module(<<>>, {"PUSH_NOTIFICATION"})
SecretsManagerDatasourceModule == Module(<<>>, {"SECRETS_MANAGER"})
AthenaDatasourceModule == Module(<<>>, {"ATHENA"})
StepFunctionDatasourceModule == Module(<<>>, {"STEP_FUNCTION"})
EmailDatasourceModule == Module(<<>>, {"EMAIL"})
CognitoIdentityDatasourceModule == Module(<<AppConfigModule>>, {"COGNITO_IDENTITY"})
GraphQLDatasourceModule == Module(<<LambdaDatasourceModule>>, {"GRAPHQL"})
ObjectStorageDatasourceModule ==
  Module(<<SecretsManagerDatasourceModule>>,
         {"OBJECT_STORAGE_CONNECTOR", "OBJECT_STORAGE", "OBJECT_STORAGE_UPLOAD"})
DynamoDBDatasourceModule ==
  Module(<<AppConfigModule>>,
         {"DYNAMODB_RAW_CLIENT", "DYNAMODB_CLIENT", "DYNAMODB", "DYNAMODB_SERVICE"})
DatabaseDatasourceModule ==
  Module(<<AppConfigModule, SecretsManagerDatasourceModule>>,
         {"DB_CLIENT", "TRANSACTION_RUNNER"})
CommonUserRepo == Module(<<DatabaseDatasourceModule>>, {"COMMON_USER_REPO"})

DeleteUserModule ==
  Module(<<DatabaseDatasourceModule>>,
         {"UserInfoRepo", "DeleteUserUseCase", "DeleteUserPresenter"})
JwtAuthorizerModule ==
  Module(<<AppConfigModule, ApiGatewayDatasourceModule, CacheDatasourceModule>>,
         {"JwtSigningKeyRepo", "VerifyTokenUseCase", "JwtAuthorizerPresenter"})

Library ==
  {LambdaDatasourceModule, ApiGatewayDatasourceModule, CacheDatasourceModule,
   CloudWatchMetricsDatasourceModule, TranslateDatasourceModule,
   MessageQueueDatasourceModule, ParquetFileDatasourceModule,
   PushNotificationDatasourceModule, SecretsManagerDatasourceModule,
   AthenaDatasourceModule, StepFunctionDatasourceModule, EmailDatasourceModule,
   CognitoIdentityDatasourceModule, GraphQLDatasourceModule,
   ObjectStorageDatasourceModule, DynamoDBDatasourceModule,
   DatabaseDatasourceModule, CommonUserRepo}

deleteUser == [module |-> DeleteUserModule, gets |-> {"DeleteUserPresenter"}]
jwtAuthorizer == [module |-> JwtAuthorizerModule, gets |-> {"JwtAuthorizerPresenter"}]

\* The two Lambdas, and any that uses one module of the library the way they
\* do: it imports AppConfigModule too, for few of the modules do so themselves.
Lambdas ==
  {deleteUser, jwtAuthorizer} \cup
  {[module |-> Module(<<AppConfigModule, m>>, {}), gets |-> m.providers] : m \in Library}

-----------------------------------------------------------------------------
(* Start-up *)

WrongSets == {b \in SUBSET Variables : Cardinality(b) <= MaxBad}

ContainerTypeOK ==
  /\ lambda \in Lambdas
  /\ local \in BOOLEAN
  /\ bad \in WrongSets
  /\ bindings \in [Keys -> Nat]
  /\ instances \in [Keys -> 0..MaxRequests]
  /\ phase \in {"idle", "constructing", "handling"}
  /\ wanted \in Keys
  /\ toBuild \subseteq Keys
  /\ result \in {"none", "served", "uncached", "denied", "unbound",
                 "misconfigured"}
  /\ requests \in 0..MaxRequests

ContainerInit ==
  /\ lambda \in Lambdas
  /\ local \in BOOLEAN
  /\ bad \in WrongSets
  /\ todo = <<[call |-> "bootstrapApplication", module |-> lambda.module]>>
  /\ bindings = [k \in Keys |-> 0]
  /\ instances = [k \in Keys |-> 0]
  /\ phase = "idle"
  /\ wanted \in lambda.gets
  /\ toBuild = {}
  /\ result = "none"
  /\ requests = 0

\* The imports first, then the module's own providers.
bootstrapApplication ==
  /\ todo # <<>> /\ Head(todo).call = "bootstrapApplication"
  /\ LET m == Head(todo).module
     IN  todo' = [i \in DOMAIN m.imports |->
                    [call |-> "bootstrapApplication", module |-> m.imports[i]]]
                 \o <<[call |-> "bindProviders", module |-> m]>> \o Tail(todo)
  /\ UNCHANGED <<lambda, local, bad, bindings, instances, phase, wanted, toBuild,
                 result, requests>>

\* Mutant: keys are bound whether they are bound or not.
BugBound(m) ==
  bindings' = [k \in Keys |-> IF k \in m.providers THEN bindings[k] + 1 ELSE bindings[k]]

\* Every key that is not bound yet.
Bound(m) ==
  bindings' = [k \in Keys |-> IF k \in m.providers /\ bindings[k] = 0 THEN 1
                              ELSE bindings[k]]

bindProviders ==
  /\ todo # <<>> /\ Head(todo).call = "bindProviders"
  /\ Bound(Head(todo).module)
  /\ todo' = Tail(todo)
  /\ UNCHANGED <<lambda, local, bad, instances, phase, wanted, toBuild, result,
                 requests>>

-----------------------------------------------------------------------------
(* Requests *)

\* inversify plans a request: the key and all that is injected for it.
Plan[key \in Keys] == {key} \cup UNION {Plan[k] : k \in Deployed[key].injects}

\* Bound with toDynamicValue, whose scope is transient.
Transient == {"DYNAMODB_RAW_CLIENT"}

\* Mutant: providers are bound without inSingletonScope.
BugUnbuilt(keys) == keys

\* What a plan makes new: a singleton once, another key each time.
Unbuilt(keys) ==
  {k \in keys :
     \/ instances[k] = 0
     \/ /\ k \in Transient
        /\ k = wanted' \/ \E j \in keys : instances[j] = 0 /\ k \in Deployed[j].injects}

\* A key without a binding, or with two, and nothing is constructed.
getInstance(key) ==
  /\ todo = <<>> /\ phase = "idle" /\ requests < MaxRequests
  /\ requests' = requests + 1
  /\ wanted' = key
  /\ IF \A k \in Plan[key] : bindings[k] = 1
     THEN phase' = "constructing" /\ toBuild' = Unbuilt(Plan[key]) /\ result' = "none"
     ELSE result' = "unbound" /\ UNCHANGED <<phase, toBuild>>
  /\ UNCHANGED <<lambda, local, bad, todo, bindings, instances>>

\* The request fails, and the next one finds what was constructed before.
Misconfigured ==
  /\ phase' = "idle" /\ toBuild' = {} /\ result' = "misconfigured"
  /\ UNCHANGED instances

\* A constructor runs, after those of what it injects.
Construct(k) ==
  /\ phase = "constructing" /\ k \in toBuild
  /\ Deployed[k].injects \cap toBuild = {}
  /\ IF Providers[k].constructor \cap bad # {} THEN Misconfigured
     ELSE /\ instances' = [instances EXCEPT ![k] = @ + 1]
          /\ toBuild' = toBuild \ {k}
          /\ UNCHANGED <<phase, result>>
  /\ UNCHANGED <<lambda, local, bad, todo, bindings, wanted, requests>>

\* Mutant: JwtSigningKeyRepo does not catch what the cache throws.
BugCaught == {}

\* What the cache throws, also for want of configuration, JwtSigningKeyRepo
\* takes for a miss.
Caught == IF wanted = "JwtAuthorizerPresenter" THEN {"CACHE"} ELSE {}

ConfigRead(keys) == UNION {Providers[k].methods : k \in keys}

\* All is constructed: the handler runs and reads its configuration.
Handle ==
  /\ phase = "constructing" /\ toBuild = {}
  /\ phase' = "handling"
  /\ UNCHANGED <<lambda, local, bad, todo, bindings, instances, wanted, toBuild,
                 result, requests>>

Handled ==
  /\ phase = "handling"
  /\ IF ConfigRead(Plan[wanted] \ Caught) \cap bad # {} THEN Misconfigured
     ELSE /\ phase' = "idle"
          /\ result' = IF ConfigRead(Plan[wanted]) \cap bad # {} THEN "uncached" ELSE "served"
          /\ UNCHANGED <<instances, toBuild>>
  /\ UNCHANGED <<lambda, local, bad, todo, bindings, wanted, requests>>

\* A request without a well-formed token is denied before anything is read.
MalformedToken ==
  /\ phase = "handling" /\ wanted = "JwtAuthorizerPresenter"
  /\ phase' = "idle" /\ result' = "denied"
  /\ UNCHANGED <<lambda, local, bad, todo, bindings, instances, wanted, toBuild,
                 requests>>

ContainerNext ==
  \/ bootstrapApplication \/ bindProviders
  \/ \E key \in lambda.gets : getInstance(key)
  \/ \E k \in Keys : Construct(k)
  \/ Handle \/ Handled \/ MalformedToken

ContainerSpec == ContainerInit /\ [][ContainerNext]_containerVars

-----------------------------------------------------------------------------
(* Properties *)

TheTwo == {deleteUser, jwtAuthorizer}

\* What the documentation asks of the environment of the two Lambdas, but for
\* the variables of the cache, without which the authorizer works as well.
Required ==
  IF lambda = jwtAuthorizer
  THEN {"REGION", "COGNITO_USER_POOL_ID", "COGNITO_USER_POOL_CLIENT_ID"}
  ELSE {"REGION"} \cup IF local THEN {"DATABASE_URL"}
                       ELSE {"RDS_PROXY_ENDPOINT", "RDS_SECRET_ARN"}

\* No request of the two Lambdas fails for want of a variable that nobody said
\* it needs.
FailsAsDocumented ==
  lambda \in TheTwo /\ result = "misconfigured" => Required \cap bad # {}

\* Whatever modules a Lambda imports, and however often, its wiring is complete
\* and unambiguous; no request of the two Lambdas is served or lets anybody in
\* without the variables it needs, and outside of a local delete-user none
\* fails for any other: neither the first of a container nor a later one, which
\* finds what a failed one has constructed.
OnlyConfigurationFails ==
  /\ result # "unbound"
  /\ lambda \in TheTwo /\ Required \cap bad # {} => result \notin {"served", "uncached"}
  /\ lambda = jwtAuthorizer \/ ~local => FailsAsDocumented

\* All users of a datasource share one instance, and with it its clients,
\* counters and caches, for as long as the container lives, also when an
\* earlier request failed half-way through its construction.
OneInstance == \A k \in Keys \ Transient : instances[k] <= 1
=============================================================================
