--------------------------- MODULE ContainerProofs ---------------------------
(***************************************************************************)
(* Proofs about Container, for every number of wrong variables and of      *)
(* requests.                                                               *)
(*                                                                         *)
(* That nothing is bound or constructed twice needs no word about what a   *)
(* plan holds.  That a request fails for its configuration only does: the  *)
(* definition of Plan has a solution because injections only go down; the  *)
(* plan of what a Lambda gets stays within what its module and the imports *)
(* of that provide; start-up binds all of it; and a request reads what the *)
(* classes of its plan read, or is denied before it reads anything.        *)
(***************************************************************************)
EXTENDS Container, TLAPS

Counted == instances \in [Keys -> Nat] /\ bindings \in [Keys -> Nat]

\* A singleton that is still to be constructed was never constructed.
Pending == \A k \in Keys \ Transient : k \in toBuild => instances[k] = 0

BoundOnce == \A k \in Keys : bindings[k] <= 1

Inv == Counted /\ Pending /\ OneInstance /\ BoundOnce

-----------------------------------------------------------------------------

LEMMA InvInit == ContainerInit => Inv
<1> SUFFICES ASSUME ContainerInit PROVE Inv
  OBVIOUS
<1>1. /\ instances = [k \in Keys |-> 0]
      /\ bindings = [k \in Keys |-> 0]
      /\ toBuild = {}
  BY DEF ContainerInit
<1> HIDE DEF Keys
<1> QED
  BY <1>1 DEF Inv, Counted, Pending, OneInstance, BoundOnce

\* A constructor runs: its key is no longer to be built.
LEMMA ConstructKeepsInv ==
  ASSUME Inv, NEW k \in Keys, Construct(k)
  PROVE  Inv'
<1> USE DEF Inv, Counted
<1> HIDE DEF Keys, Transient
<1>1. k \in toBuild /\ UNCHANGED bindings
  BY DEF Construct
<1>2. CASE Misconfigured
  <2>1. toBuild' = {} /\ UNCHANGED instances
    BY <1>2 DEF Misconfigured
  <2> QED
    BY <1>1, <2>1 DEF Pending, OneInstance, BoundOnce
<1>3. CASE ~Misconfigured
  <2>1. /\ instances' = [instances EXCEPT ![k] = @ + 1]
        /\ toBuild' = toBuild \ {k}
    BY <1>3 DEF Construct
  <2>2. Counted'
    BY <1>1, <2>1
  <2>3. Pending'
    BY <2>1 DEF Pending
  <2>4. OneInstance'
    BY <1>1, <2>1 DEF Pending, OneInstance
  <2> QED
    BY <1>1, <2>2, <2>3, <2>4 DEF BoundOnce
<1> QED
  BY <1>2, <1>3

\* A plan holds no singleton that was made.
LEMMA GetInstanceKeepsInv ==
  ASSUME Inv, NEW key, getInstance(key)
  PROVE  Inv'
<1> HIDE DEF Keys, Transient
<1>1. UNCHANGED <<instances, bindings>>
  BY DEF getInstance
<1>2. toBuild' = Unbuilt(Plan[key]) \/ toBuild' = toBuild
  BY DEF getInstance
<1>3. \A k \in Keys \ Transient : k \in Unbuilt(Plan[key]) => instances[k] = 0
  BY DEF Unbuilt
<1>4. Pending'
  BY <1>1, <1>2, <1>3 DEF Inv, Pending
<1> QED
  BY <1>1, <1>4 DEF Inv, Counted, OneInstance, BoundOnce

\* Binding passes over the keys that are bound.
LEMMA BindKeepsInv ==
  ASSUME Inv, bindProviders
  PROVE  Inv'
<1> HIDE DEF Keys, Transient
<1> DEFINE m == Head(todo).module
<1>1. /\ bindings' = [k \in Keys |-> IF k \in m.providers /\ bindings[k] = 0 THEN 1
                                     ELSE bindings[k]]
      /\ UNCHANGED <<instances, toBuild>>
  BY DEF bindProviders, Bound
<1> HIDE DEF m
<1> QED
  BY <1>1 DEF Inv, Counted, Pending, OneInstance, BoundOnce

LEMMA InvStep == Inv /\ [ContainerNext]_containerVars => Inv'
<1> SUFFICES ASSUME Inv, [ContainerNext]_containerVars PROVE Inv'
  OBVIOUS
<1> HIDE DEF Keys, Transient
<1>1. CASE bindProviders
  BY <1>1, BindKeepsInv
<1>2. CASE \E key \in lambda.gets : getInstance(key)
  BY <1>2, GetInstanceKeepsInv
<1>3. CASE \E k \in Keys : Construct(k)
  BY <1>3, ConstructKeepsInv
<1>4. CASE \/ bootstrapApplication \/ Handle \/ Handled \/ MalformedToken
           \/ UNCHANGED containerVars
  <2>1. UNCHANGED <<instances, bindings>> /\ (toBuild' = toBuild \/ toBuild' = {})
    BY <1>4 DEF bootstrapApplication, Handle, Handled, MalformedToken, Misconfigured,
                containerVars
  <2> QED
    BY <2>1 DEF Inv, Counted, Pending, OneInstance, BoundOnce
<1> QED
  BY <1>1, <1>2, <1>3, <1>4 DEF ContainerNext

-----------------------------------------------------------------------------

\* Whatever fails on the way, no datasource, repository or use case is
\* constructed twice in a container: bindProviders gives singleton scope.
THEOREM SingletonsAreSingle == ContainerSpec => []OneInstance
<1>1. Inv => OneInstance
  BY DEF Inv
<1> QED
  BY <1>1, InvInit, InvStep, PTL DEF ContainerSpec

\* However modules import each other, bindProviders leaves no key with two
\* bindings, which inversify would call ambiguous.
THEOREM WiringIsUnambiguous == ContainerSpec => []BoundOnce
<1>1. Inv => BoundOnce
  BY DEF Inv
<1> QED
  BY <1>1, InvInit, InvStep, PTL DEF ContainerSpec

-----------------------------------------------------------------------------
(* Plans *)

Injects(k) == Deployed[k].injects

\* Keys by the longest chain of injections below them.
Height0 == {"APP_CONFIG", "API_GATEWAY", "PARQUET_FILE"}
Height1 ==
  {"LAMBDA_DATASOURCE", "CLOUDWATCH_METRICS", "TRANSLATE", "MESSAGE_QUEUE",
   "PUSH_NOTIFICATION", "SECRETS_MANAGER", "ATHENA", "STEP_FUNCTION", "EMAIL",
   "OBJECT_STORAGE", "OBJECT_STORAGE_CONNECTOR", "COGNITO_IDENTITY", "CACHE",
   "DYNAMODB_RAW_CLIENT", "DYNAMODB_CLIENT"}
Height2 ==
  {"OBJECT_STORAGE_UPLOAD", "GRAPHQL", "DYNAMODB", "DYNAMODB_SERVICE", "DB_CLIENT",
   "JwtSigningKeyRepo"}
Height3 == {"TRANSACTION_RUNNER", "COMMON_USER_REPO", "UserInfoRepo", "VerifyTokenUseCase"}
Height4 == {"DeleteUserUseCase", "JwtAuthorizerPresenter"}
Height5 == {"DeleteUserPresenter"}

UpTo1 == Height0 \cup Height1
UpTo2 == UpTo1 \cup Height2
UpTo3 == UpTo2 \cup Height3
UpTo4 == UpTo3 \cup Height4

\* No key is left out.
LEMMA KeysByHeight == Keys = UpTo4 \cup Height5
BY DEF Keys, Deployed, Height0, Height1, Height2, Height3, Height4, Height5,
       UpTo1, UpTo2, UpTo3, UpTo4

\* The wiring, class by class.
LEMMA InjectsListed ==
  /\ \A k \in Height0 : Injects(k) = {}
  /\ \A k \in Height1 : Injects(k) = {"APP_CONFIG"}
  /\ Injects("OBJECT_STORAGE_UPLOAD") = {"SECRETS_MANAGER", "APP_CONFIG"}
  /\ Injects("GRAPHQL") = {"LAMBDA_DATASOURCE", "APP_CONFIG"}
  /\ Injects("DYNAMODB") = {"DYNAMODB_RAW_CLIENT"}
  /\ Injects("DYNAMODB_SERVICE") = {"DYNAMODB_CLIENT"}
  /\ Injects("DB_CLIENT") = {"APP_CONFIG", "SECRETS_MANAGER"}
  /\ \A k \in {"TRANSACTION_RUNNER", "COMMON_USER_REPO", "UserInfoRepo"} :
       Injects(k) = {"DB_CLIENT"}
  /\ Injects("DeleteUserUseCase") = {"UserInfoRepo"}
  /\ Injects("DeleteUserPresenter") = {"DeleteUserUseCase"}
  /\ Injects("JwtSigningKeyRepo") = {"APP_CONFIG", "API_GATEWAY", "CACHE"}
  /\ Injects("VerifyTokenUseCase") = {"JwtSigningKeyRepo", "APP_CONFIG"}
  /\ Injects("JwtAuthorizerPresenter") = {"VerifyTokenUseCase"}
<1> USE DEF Injects, Deployed, Class, AwsClient
<1>1. \A k \in Height0 : Injects(k) = {}
  BY DEF Height0, AppConfig, ApiGatewayDatasource, ParquetFileDatasource
<1>2. \A k \in Height1 : Injects(k) = {"APP_CONFIG"}
  BY DEF Height1, LambdaDatasource, CloudWatchMetricsDatasource, TranslateDatasource,
         AwsSqsMessageQueueDatasource, NotificationDatasource, SecretsManagerDatasource,
         AthenaDatasource, StepFunctionDatasource, AwsSesEmailDatasource,
         AwsS3ObjectStorageDatasource, AwsS3ObjectStorageConnectorDatasource,
         CognitoIdentityDatasource, ElastiCacheCacheDatasource, DynamoDBRawClient,
         DynamoDBClientDatasource
<1>3. /\ Injects("OBJECT_STORAGE_UPLOAD") = {"SECRETS_MANAGER", "APP_CONFIG"}
      /\ Injects("GRAPHQL") = {"LAMBDA_DATASOURCE", "APP_CONFIG"}
      /\ Injects("DYNAMODB") = {"DYNAMODB_RAW_CLIENT"}
      /\ Injects("DYNAMODB_SERVICE") = {"DYNAMODB_CLIENT"}
      /\ Injects("DB_CLIENT") = {"APP_CONFIG", "SECRETS_MANAGER"}
  BY DEF GcpGcsObjectStorageUploadDatasource, GraphQLDatasource, DynamoDBDatasource,
         DynamoDBServiceDatasource, PrismaDBClientDatasource
<1>4. \A k \in {"TRANSACTION_RUNNER", "COMMON_USER_REPO", "UserInfoRepo"} :
        Injects(k) = {"DB_CLIENT"}
  BY DEF PrismaTransactionRunnerDatasource, CommonUserRepoClass, UserRepo
<1>5. /\ Injects("DeleteUserUseCase") = {"UserInfoRepo"}
      /\ Injects("DeleteUserPresenter") = {"DeleteUserUseCase"}
      /\ Injects("JwtSigningKeyRepo") = {"APP_CONFIG", "API_GATEWAY", "CACHE"}
      /\ Injects("VerifyTokenUseCase") = {"JwtSigningKeyRepo", "APP_CONFIG"}
      /\ Injects("JwtAuthorizerPresenter") = {"VerifyTokenUseCase"}
  BY DEF DeleteUserUseCase, DeleteUserPresenter, JwtSigningKeyRepo, VerifyTokenUseCase,
         JwtAuthorizerPresenter
<1> QED
  BY <1>1, <1>2, <1>3, <1>4, <1>5

\* Injections only go down.
LEMMA InjectsBelow ==
  /\ \A k \in Height0 : Injects(k) = {}
  /\ \A k \in UpTo1 : Injects(k) \subseteq Height0
  /\ \A k \in UpTo2 : Injects(k) \subseteq UpTo1
  /\ \A k \in UpTo3 : Injects(k) \subseteq UpTo2
  /\ \A k \in UpTo4 : Injects(k) \subseteq UpTo3
  /\ \A k \in Keys : Injects(k) \subseteq UpTo4
<1> USE InjectsListed
<1>1. \A k \in UpTo1 : Injects(k) \subseteq Height0
  BY DEF UpTo1, Height0
<1>2. \A k \in Height2 : Injects(k) \subseteq UpTo1
  BY DEF Height2, UpTo1, Height0, Height1
<1>3. \A k \in Height3 : Injects(k) \subseteq UpTo2
  BY DEF Height3, UpTo1, UpTo2, Height0, Height2
<1>4. \A k \in Height4 : Injects(k) \subseteq UpTo3
  BY DEF Height4, UpTo3, Height3
<1>5. \A k \in Height5 : Injects(k) \subseteq UpTo4
  BY DEF Height5, UpTo4, Height4
<1>6. Height0 \subseteq UpTo1 /\ UpTo1 \subseteq UpTo2 /\ UpTo2 \subseteq UpTo3
      /\ UpTo3 \subseteq UpTo4
  BY DEF UpTo1, UpTo2, UpTo3, UpTo4
<1> QED
  BY <1>1, <1>2, <1>3, <1>4, <1>5, <1>6, KeysByHeight DEF UpTo2, UpTo3, UpTo4

\* One unfolding of the definition of Plan.
Unfolded(plan) ==
  [key \in Keys |-> {key} \cup UNION {plan[k] : k \in Deployed[key].injects}]

\* An unfolding looks only at what the key injects.
LEMMA UnfoldedAgree ==
  ASSUME NEW F, NEW G, NEW k \in Keys, \A j \in Injects(k) : F[j] = G[j]
  PROVE  Unfolded(F)[k] = Unfolded(G)[k]
<1>1. \A j \in Deployed[k].injects : F[j] = G[j]
  BY DEF Injects
<1> HIDE DEF Keys
<1>2. {F[j] : j \in Deployed[k].injects} = {G[j] : j \in Deployed[k].injects}
  BY <1>1
<1> QED
  BY <1>2 DEF Unfolded

\* Injections only go down, so the definition of Plan has a solution.
LEMMA PlanUnfolds == Plan = Unfolded(Plan)
<1> DEFINE G0 == [key \in Keys |-> {key}]
           G1 == Unfolded(G0)
           G2 == Unfolded(G1)
           G3 == Unfolded(G2)
           G4 == Unfolded(G3)
           G5 == Unfolded(G4)
           G6 == Unfolded(G5)
<1>0. Height0 \subseteq Keys /\ UpTo1 \subseteq Keys /\ UpTo2 \subseteq Keys
      /\ UpTo3 \subseteq Keys /\ UpTo4 \subseteq Keys
  BY KeysByHeight DEF UpTo1, UpTo2, UpTo3, UpTo4
<1>1. \A k \in Height0 : G1[k] = G0[k]
  BY <1>0, InjectsBelow DEF Unfolded, Injects
<1> HIDE DEF G0
<1>2. \A k \in UpTo1 : G2[k] = G1[k]
  <2>1. \A k \in UpTo1 : \A j \in Injects(k) : G1[j] = G0[j]
    BY <1>1, InjectsBelow
  <2> QED
    BY <1>0, <2>1, UnfoldedAgree
<1> HIDE DEF G1
<1>3. \A k \in UpTo2 : G3[k] = G2[k]
  <2>1. \A k \in UpTo2 : \A j \in Injects(k) : G2[j] = G1[j]
    BY <1>2, InjectsBelow
  <2> QED
    BY <1>0, <2>1, UnfoldedAgree
<1> HIDE DEF G2
<1>4. \A k \in UpTo3 : G4[k] = G3[k]
  <2>1. \A k \in UpTo3 : \A j \in Injects(k) : G3[j] = G2[j]
    BY <1>3, InjectsBelow
  <2> QED
    BY <1>0, <2>1, UnfoldedAgree
<1> HIDE DEF G3
<1>5. \A k \in UpTo4 : G5[k] = G4[k]
  <2>1. \A k \in UpTo4 : \A j \in Injects(k) : G4[j] = G3[j]
    BY <1>4, InjectsBelow
  <2> QED
    BY <1>0, <2>1, UnfoldedAgree
<1> HIDE DEF G4
<1>6. \A k \in Keys : G6[k] = G5[k]
  <2>1. \A k \in Keys : \A j \in Injects(k) : G5[j] = G4[j]
    BY <1>5, InjectsBelow
  <2> QED
    BY <2>1, UnfoldedAgree
<1>7. G6 = G5
  BY <1>6 DEF Unfolded
<1> HIDE DEF G5
<1>8. \E plan : plan = Unfolded(plan)
  BY <1>7
<1> QED
  BY <1>8 DEF Plan, Unfolded

\* The plan of a key: the key, and the plans of what it injects.
LEMMA PlanIs ==
  ASSUME NEW k \in Keys PROVE Plan[k] = {k} \cup UNION {Plan[j] : j \in Injects(k)}
<1> HIDE DEF Keys
<1>1. Unfolded(Plan)[k] = {k} \cup UNION {Plan[j] : j \in Injects(k)}
  BY DEF Unfolded, Injects
<1> QED
  BY <1>1, PlanUnfolds

\* A set of keys that holds what its keys inject holds their plans.
LEMMA PlanWithin ==
  ASSUME NEW S \in SUBSET Keys, \A k \in S : Injects(k) \subseteq S
  PROVE  \A k \in S : Plan[k] \subseteq S
<1> HIDE DEF Keys
<1>0. Height0 \subseteq UpTo1 /\ UpTo1 \subseteq UpTo2 /\ UpTo2 \subseteq UpTo3
      /\ UpTo3 \subseteq UpTo4 /\ UpTo4 \subseteq Keys
  BY KeysByHeight DEF UpTo1, UpTo2, UpTo3, UpTo4
<1> DEFINE Good(lower) == \A k \in S \cap lower : Plan[k] \subseteq S
<1>1. ASSUME NEW lower, NEW upper \in SUBSET Keys, Good(lower),
             \A k \in upper : Injects(k) \subseteq lower
      PROVE  Good(upper)
  <2> SUFFICES ASSUME NEW k \in S \cap upper PROVE Plan[k] \subseteq S
    OBVIOUS
  <2>1. \A j \in Injects(k) : Plan[j] \subseteq S
    BY <1>1
  <2> QED
    BY <2>1, PlanIs
<1>2. Good({}) /\ \A k \in Height0 : Injects(k) \subseteq {}
  BY InjectsBelow
<1>3. Good(Height0)
  BY <1>0, <1>1, <1>2
<1>4. Good(UpTo1)
  BY <1>0, <1>1, <1>3, InjectsBelow
<1>5. Good(UpTo2)
  BY <1>0, <1>1, <1>4, InjectsBelow
<1>6. Good(UpTo3)
  BY <1>0, <1>1, <1>5, InjectsBelow
<1>7. Good(UpTo4)
  BY <1>0, <1>1, <1>6, InjectsBelow
<1>8. Good(Keys)
  BY <1>0, <1>1, <1>7, InjectsBelow
<1> QED
  BY <1>8

\* The plans of the two Lambdas of the repository.
deleteUserPlan ==
  {"DeleteUserPresenter", "DeleteUserUseCase", "UserInfoRepo", "DB_CLIENT",
   "APP_CONFIG", "SECRETS_MANAGER"}
jwtAuthorizerPlan ==
  {"JwtAuthorizerPresenter", "VerifyTokenUseCase", "JwtSigningKeyRepo",
   "APP_CONFIG", "API_GATEWAY", "CACHE"}

\* Layer by layer, from what injects nothing.
LEMMA PlansListed ==
  /\ Plan["DeleteUserPresenter"] = deleteUserPlan
  /\ Plan["JwtAuthorizerPresenter"] = jwtAuthorizerPlan
<1>1. /\ \A k \in deleteUserPlan \cup jwtAuthorizerPlan : k \in Keys
      /\ "APP_CONFIG" \in Height0 /\ "API_GATEWAY" \in Height0
      /\ "SECRETS_MANAGER" \in Height1 /\ "CACHE" \in Height1
  BY KeysByHeight DEF deleteUserPlan, jwtAuthorizerPlan, UpTo1, UpTo2, UpTo3, UpTo4,
     Height0, Height1, Height2, Height3, Height4, Height5
<1>2. \A k \in deleteUserPlan \cup jwtAuthorizerPlan :
        Plan[k] = {k} \cup UNION {Plan[j] : j \in Injects(k)}
  BY <1>1, PlanIs
<1> USE InjectsListed
<1>3. Plan["APP_CONFIG"] = {"APP_CONFIG"} /\ Plan["API_GATEWAY"] = {"API_GATEWAY"}
  BY <1>1, <1>2 DEF deleteUserPlan, jwtAuthorizerPlan
<1>4. /\ Plan["SECRETS_MANAGER"] = {"SECRETS_MANAGER", "APP_CONFIG"}
      /\ Plan["CACHE"] = {"CACHE", "APP_CONFIG"}
  BY <1>1, <1>2, <1>3 DEF deleteUserPlan, jwtAuthorizerPlan
<1>5. Plan["DB_CLIENT"] = {"DB_CLIENT", "APP_CONFIG", "SECRETS_MANAGER"}
  BY <1>2, <1>3, <1>4 DEF deleteUserPlan
<1>6. Plan["UserInfoRepo"] = {"UserInfoRepo", "DB_CLIENT", "APP_CONFIG", "SECRETS_MANAGER"}
  BY <1>2, <1>5 DEF deleteUserPlan
<1>7. Plan["DeleteUserUseCase"] = deleteUserPlan \ {"DeleteUserPresenter"}
  BY <1>2, <1>6 DEF deleteUserPlan
<1>8. Plan["DeleteUserPresenter"] = deleteUserPlan
  BY <1>2, <1>7 DEF deleteUserPlan
<1>9. Plan["JwtSigningKeyRepo"] = {"JwtSigningKeyRepo", "APP_CONFIG", "API_GATEWAY", "CACHE"}
  BY <1>2, <1>3, <1>4 DEF jwtAuthorizerPlan
<1>10. Plan["VerifyTokenUseCase"] = jwtAuthorizerPlan \ {"JwtAuthorizerPresenter"}
  BY <1>2, <1>3, <1>9 DEF jwtAuthorizerPlan
<1>11. Plan["JwtAuthorizerPresenter"] = jwtAuthorizerPlan
  BY <1>2, <1>10 DEF jwtAuthorizerPlan
<1> QED
  BY <1>8, <1>11

-----------------------------------------------------------------------------
(* What the modules provide *)

\* What a module and its imports provide, down to a depth of three.
Provided1(m) == m.providers \cup UNION {m.imports[i].providers : i \in DOMAIN m.imports}
Provided2(m) == m.providers \cup UNION {Provided1(m.imports[i]) : i \in DOMAIN m.imports}
Provided3(m) == m.providers \cup UNION {Provided2(m.imports[i]) : i \in DOMAIN m.imports}

\* One level less of imports provides no more.
LEMMA ProvidedGrows == ASSUME NEW m PROVE Provided2(m) \subseteq Provided3(m)
<1>1. \A n : Provided1(n) \subseteq Provided2(n)
  BY DEF Provided1, Provided2
<1> QED
  BY <1>1 DEF Provided2, Provided3

\* What modules with no, one, two and three imports provide.
LEMMA ProvidedBy0 ==
  ASSUME NEW p
  PROVE  LET m == Module(<<>>, p)
         IN  m.providers = p /\ Provided1(m) = p /\ Provided2(m) = p
BY DEF Module, Provided1, Provided2

LEMMA ProvidedBy1 ==
  ASSUME NEW p, NEW a
  PROVE  LET m == Module(<<a>>, p)
         IN  /\ m.providers = p
             /\ Provided1(m) = p \cup a.providers
             /\ Provided2(m) = p \cup Provided1(a)
             /\ Provided3(m) = p \cup Provided2(a)
<1>1. DOMAIN <<a>> = {1} /\ <<a>>[1] = a
  OBVIOUS
<1> QED
  BY <1>1 DEF Module, Provided1, Provided2, Provided3

LEMMA ProvidedBy2 ==
  ASSUME NEW p, NEW a, NEW b
  PROVE  LET m == Module(<<a, b>>, p)
         IN  /\ m.providers = p
             /\ Provided1(m) = p \cup a.providers \cup b.providers
             /\ Provided2(m) = p \cup Provided1(a) \cup Provided1(b)
             /\ Provided3(m) = p \cup Provided2(a) \cup Provided2(b)
<1>1. DOMAIN <<a, b>> = {1, 2} /\ <<a, b>>[1] = a /\ <<a, b>>[2] = b
  OBVIOUS
<1> QED
  BY <1>1 DEF Module, Provided1, Provided2, Provided3

LEMMA ProvidedBy3 ==
  ASSUME NEW p, NEW a, NEW b, NEW c
  PROVE  LET m == Module(<<a, b, c>>, p)
         IN  Provided3(m) = p \cup Provided2(a) \cup Provided2(b) \cup Provided2(c)
<1>1. /\ DOMAIN <<a, b, c>> = {1, 2, 3}
      /\ <<a, b, c>>[1] = a /\ <<a, b, c>>[2] = b /\ <<a, b, c>>[3] = c
  OBVIOUS
<1> QED
  BY <1>1 DEF Module, Provided3

\* What the modules with imports and their imports provide.
LEMMA DatasourcesProvide ==
  /\ Provided2(AppConfigModule) = {"APP_CONFIG"}
  /\ Provided2(CognitoIdentityDatasourceModule) = {"COGNITO_IDENTITY", "APP_CONFIG"}
  /\ Provided2(GraphQLDatasourceModule) = {"GRAPHQL", "LAMBDA_DATASOURCE"}
  /\ Provided2(ObjectStorageDatasourceModule)
       = ObjectStorageDatasourceModule.providers \cup {"SECRETS_MANAGER"}
  /\ Provided2(DynamoDBDatasourceModule)
       = DynamoDBDatasourceModule.providers \cup {"APP_CONFIG"}
  /\ Provided1(DatabaseDatasourceModule)
       = {"DB_CLIENT", "TRANSACTION_RUNNER", "APP_CONFIG", "SECRETS_MANAGER"}
  /\ Provided2(DatabaseDatasourceModule)
       = {"DB_CLIENT", "TRANSACTION_RUNNER", "APP_CONFIG", "SECRETS_MANAGER"}
<1>1. /\ AppConfigModule.providers = {"APP_CONFIG"}
      /\ Provided1(AppConfigModule) = {"APP_CONFIG"}
      /\ Provided2(AppConfigModule) = {"APP_CONFIG"}
  BY ProvidedBy0 DEF AppConfigModule
<1>2. Provided1(LambdaDatasourceModule) = {"LAMBDA_DATASOURCE"}
  BY ProvidedBy0 DEF LambdaDatasourceModule
<1>3. /\ SecretsManagerDatasourceModule.providers = {"SECRETS_MANAGER"}
      /\ Provided1(SecretsManagerDatasourceModule) = {"SECRETS_MANAGER"}
  BY ProvidedBy0 DEF SecretsManagerDatasourceModule
<1> HIDE DEF AppConfigModule
<1>4. Provided2(CognitoIdentityDatasourceModule) = {"COGNITO_IDENTITY", "APP_CONFIG"}
  BY <1>1, ProvidedBy1 DEF CognitoIdentityDatasourceModule
<1>5. Provided2(GraphQLDatasourceModule) = {"GRAPHQL", "LAMBDA_DATASOURCE"}
  BY <1>2, ProvidedBy1 DEF GraphQLDatasourceModule
<1>6. Provided2(ObjectStorageDatasourceModule)
        = ObjectStorageDatasourceModule.providers \cup {"SECRETS_MANAGER"}
  BY <1>3, ProvidedBy1 DEF ObjectStorageDatasourceModule
<1>7. Provided2(DynamoDBDatasourceModule)
        = DynamoDBDatasourceModule.providers \cup {"APP_CONFIG"}
  BY <1>1, ProvidedBy1 DEF DynamoDBDatasourceModule
<1>8. /\ Provided1(DatabaseDatasourceModule)
           = {"DB_CLIENT", "TRANSACTION_RUNNER"} \cup {"APP_CONFIG"} \cup {"SECRETS_MANAGER"}
      /\ Provided2(DatabaseDatasourceModule)
           = {"DB_CLIENT", "TRANSACTION_RUNNER"} \cup {"APP_CONFIG"} \cup {"SECRETS_MANAGER"}
  BY <1>1, <1>3, ProvidedBy2 DEF DatabaseDatasourceModule
<1>9. {"DB_CLIENT", "TRANSACTION_RUNNER"} \cup {"APP_CONFIG"} \cup {"SECRETS_MANAGER"}
        = {"DB_CLIENT", "TRANSACTION_RUNNER", "APP_CONFIG", "SECRETS_MANAGER"}
  OBVIOUS
<1> QED
  BY <1>1, <1>4, <1>5, <1>6, <1>7, <1>8, <1>9

\* A set of keys that holds all that its keys inject.
Closed(S) == S \subseteq Keys /\ \A k \in S : Injects(k) \subseteq S

\* With AppConfigModule, a module of the library provides all that its
\* providers inject.
LEMMA LibrarySelfContained ==
  ASSUME NEW m \in Library
  PROVE  Closed({"APP_CONFIG"} \cup Provided2(m)) /\ m.providers \subseteq Provided2(m)
<1> USE KeysByHeight, InjectsListed
    DEF Closed, UpTo1, UpTo2, UpTo3, UpTo4,
        Height0, Height1, Height2, Height3, Height4, Height5
<1> DEFINE Good(n) == /\ Closed({"APP_CONFIG"} \cup Provided2(n))
                      /\ n.providers \subseteq Provided2(n)
<1>1. ASSUME NEW k \in Height0 \cup Height1 PROVE Good(Module(<<>>, {k}))
  BY ProvidedBy0
<1>3. /\ Good(LambdaDatasourceModule) /\ Good(ApiGatewayDatasourceModule)
      /\ Good(CacheDatasourceModule) /\ Good(CloudWatchMetricsDatasourceModule)
      /\ Good(TranslateDatasourceModule) /\ Good(MessageQueueDatasourceModule)
      /\ Good(ParquetFileDatasourceModule) /\ Good(PushNotificationDatasourceModule)
      /\ Good(SecretsManagerDatasourceModule) /\ Good(AthenaDatasourceModule)
      /\ Good(StepFunctionDatasourceModule) /\ Good(EmailDatasourceModule)
  <2> HIDE DEF Good
  <2> QED
    BY ONLY <1>1
       DEF LambdaDatasourceModule, ApiGatewayDatasourceModule, CacheDatasourceModule,
           CloudWatchMetricsDatasourceModule, TranslateDatasourceModule,
           MessageQueueDatasourceModule, ParquetFileDatasourceModule,
           PushNotificationDatasourceModule, SecretsManagerDatasourceModule,
           AthenaDatasourceModule, StepFunctionDatasourceModule, EmailDatasourceModule,
           Height0, Height1
<1> USE DatasourcesProvide
<1>2. Good(CognitoIdentityDatasourceModule)
  BY DEF CognitoIdentityDatasourceModule, Module
<1>4. Good(GraphQLDatasourceModule)
  BY DEF GraphQLDatasourceModule, Module
<1>5. Good(ObjectStorageDatasourceModule)
  BY DEF ObjectStorageDatasourceModule, Module
<1>6. Good(DynamoDBDatasourceModule)
  BY DEF DynamoDBDatasourceModule, Module
<1>7. Good(DatabaseDatasourceModule)
  BY DEF DatabaseDatasourceModule, Module
<1>8. Good(CommonUserRepo)
  <2>1. Provided2(CommonUserRepo)
          = {"COMMON_USER_REPO"} \cup Provided1(DatabaseDatasourceModule)
    BY ONLY ProvidedBy1 DEF CommonUserRepo
  <2>2. CommonUserRepo.providers = {"COMMON_USER_REPO"}
    BY ONLY DEF CommonUserRepo, Module
  <2> QED
    BY <2>1, <2>2
<1> HIDE DEF Good
<1>9. Good(m)
  BY ONLY <1>2, <1>3, <1>4, <1>5, <1>6, <1>7, <1>8, m \in Library DEF Library
<1> QED
  BY <1>9 DEF Good

\* The modules that a Lambda starts with provide all that its requests get.
LEMMA LambdaSelfContained ==
  ASSUME NEW f \in Lambdas
  PROVE  Closed(Provided3(f.module)) /\ f.gets \subseteq Provided3(f.module)
<1>1. CASE f = deleteUser
  <2>1. Provided3(DeleteUserModule)
          = {"UserInfoRepo", "DeleteUserUseCase", "DeleteUserPresenter"}
              \cup {"DB_CLIENT", "TRANSACTION_RUNNER", "APP_CONFIG", "SECRETS_MANAGER"}
    BY DatasourcesProvide, ProvidedBy1 DEF DeleteUserModule
  <2>2. Closed(Provided3(DeleteUserModule))
    BY <2>1, KeysByHeight, InjectsListed
       DEF Closed, UpTo1, UpTo2, UpTo3, UpTo4,
           Height0, Height1, Height2, Height3, Height4, Height5
  <2> QED
    BY <1>1, <2>1, <2>2 DEF deleteUser
<1>2. CASE f = jwtAuthorizer
  <2>1. /\ Provided2(ApiGatewayDatasourceModule) = {"API_GATEWAY"}
        /\ Provided2(CacheDatasourceModule) = {"CACHE"}
    BY ProvidedBy0 DEF ApiGatewayDatasourceModule, CacheDatasourceModule
  <2>2. Provided3(JwtAuthorizerModule)
          = {"JwtSigningKeyRepo", "VerifyTokenUseCase", "JwtAuthorizerPresenter"}
              \cup {"APP_CONFIG"} \cup {"API_GATEWAY"} \cup {"CACHE"}
    BY <2>1, DatasourcesProvide, ProvidedBy3 DEF JwtAuthorizerModule
  <2>3. Closed(Provided3(JwtAuthorizerModule))
    BY <2>2, KeysByHeight, InjectsListed
       DEF Closed, UpTo1, UpTo2, UpTo3, UpTo4,
           Height0, Height1, Height2, Height3, Height4, Height5
  <2> QED
    BY <1>2, <2>2, <2>3 DEF jwtAuthorizer
<1>3. ASSUME NEW m \in Library,
             f = [module |-> Module(<<AppConfigModule, m>>, {}), gets |-> m.providers]
      PROVE  Closed(Provided3(f.module)) /\ f.gets \subseteq Provided3(f.module)
  <2>1. Provided3(Module(<<AppConfigModule, m>>, {}))
          = {} \cup Provided2(AppConfigModule) \cup Provided2(m)
    BY ProvidedBy2
  <2>2. Provided3(f.module) = {"APP_CONFIG"} \cup Provided2(m) /\ f.gets = m.providers
    BY <1>3, <2>1, DatasourcesProvide
  <2> QED
    BY <2>2, LibrarySelfContained
<1> QED
  BY <1>1, <1>2, <1>3 DEF Lambdas

-----------------------------------------------------------------------------
(* Start-up binds all that the module provides *)

AllModules ==
  Library \cup {AppConfigModule, DeleteUserModule, JwtAuthorizerModule}
    \cup {Module(<<AppConfigModule, m>>, {}) : m \in Library}

Call == [call : {"bootstrapApplication", "bindProviders"}, module : AllModules]

\* Modules import modules.
LEMMA ImportsAreModules == \A m \in AllModules : m.imports \in Seq(AllModules)
<1> DEFINE Sound(m) == m.imports \in Seq(AllModules)
<1>1. /\ Library \subseteq AllModules
      /\ AppConfigModule \in AllModules
  BY DEF AllModules
<1>2. /\ LambdaDatasourceModule \in Library /\ SecretsManagerDatasourceModule \in Library
      /\ DatabaseDatasourceModule \in Library /\ ApiGatewayDatasourceModule \in Library
      /\ CacheDatasourceModule \in Library
  BY DEF Library
<1>3. ASSUME NEW p PROVE Sound(Module(<<>>, p))
  BY DEF Module
<1>4. ASSUME NEW p, NEW a \in AllModules PROVE Sound(Module(<<a>>, p))
  BY DEF Module
<1>5. ASSUME NEW p, NEW a \in AllModules, NEW b \in AllModules
      PROVE  Sound(Module(<<a, b>>, p))
  BY DEF Module
<1>6. ASSUME NEW p, NEW a \in AllModules, NEW b \in AllModules, NEW c \in AllModules
      PROVE  Sound(Module(<<a, b, c>>, p))
  BY DEF Module
<1> HIDE DEF Sound
<1>7. /\ Sound(AppConfigModule)
      /\ Sound(LambdaDatasourceModule) /\ Sound(ApiGatewayDatasourceModule)
      /\ Sound(CacheDatasourceModule) /\ Sound(CloudWatchMetricsDatasourceModule)
      /\ Sound(TranslateDatasourceModule) /\ Sound(MessageQueueDatasourceModule)
      /\ Sound(ParquetFileDatasourceModule) /\ Sound(PushNotificationDatasourceModule)
      /\ Sound(SecretsManagerDatasourceModule) /\ Sound(AthenaDatasourceModule)
      /\ Sound(StepFunctionDatasourceModule) /\ Sound(EmailDatasourceModule)
  BY ONLY <1>3
     DEF AppConfigModule, LambdaDatasourceModule, ApiGatewayDatasourceModule,
         CacheDatasourceModule, CloudWatchMetricsDatasourceModule,
         TranslateDatasourceModule, MessageQueueDatasourceModule,
         ParquetFileDatasourceModule, PushNotificationDatasourceModule,
         SecretsManagerDatasourceModule, AthenaDatasourceModule,
         StepFunctionDatasourceModule, EmailDatasourceModule
<1>8. /\ Sound(CognitoIdentityDatasourceModule) /\ Sound(GraphQLDatasourceModule)
      /\ Sound(ObjectStorageDatasourceModule) /\ Sound(DynamoDBDatasourceModule)
      /\ Sound(CommonUserRepo) /\ Sound(DeleteUserModule)
  BY ONLY <1>1, <1>2, <1>4
     DEF CognitoIdentityDatasourceModule, GraphQLDatasourceModule,
         ObjectStorageDatasourceModule, DynamoDBDatasourceModule, CommonUserRepo,
         DeleteUserModule
<1>9. Sound(DatabaseDatasourceModule)
  BY ONLY <1>1, <1>2, <1>5 DEF DatabaseDatasourceModule
<1>10. Sound(JwtAuthorizerModule)
  BY ONLY <1>1, <1>2, <1>6 DEF JwtAuthorizerModule
<1>11. \A m \in Library : Sound(m)
  BY ONLY <1>7, <1>8, <1>9 DEF Library
<1>12. \A m \in Library : Sound(Module(<<AppConfigModule, m>>, {}))
  BY ONLY <1>1, <1>5
<1>13. \A m \in AllModules : Sound(m)
  BY ONLY <1>7, <1>8, <1>10, <1>11, <1>12 DEF AllModules
<1> QED
  BY <1>13 DEF Sound

\* What a call to come will have bound, and the calls that it makes.
Announced(c) ==
  IF c.call = "bootstrapApplication" THEN Provided3(c.module) ELSE c.module.providers

\* A key that the Lambda's module or an import of it provides is bound, or a
\* call to come will bind it.
Wired ==
  /\ lambda \in Lambdas
  /\ todo \in Seq(Call)
  /\ \A k \in Keys \cap Provided3(lambda.module) :
       bindings[k] = 1 \/ \E i \in DOMAIN todo : k \in Announced(todo[i])

\* Where the elements of a sequence put together of three parts are.
LEMMA Spliced ==
  ASSUME NEW S, NEW s \in Seq(S), NEW c \in S, NEW t \in Seq(S), NEW r, r = s \o <<c>> \o t
  PROVE  /\ r \in Seq(S)
         /\ \A i \in DOMAIN s : i \in DOMAIN r /\ r[i] = s[i]
         /\ Len(s) + 1 \in DOMAIN r /\ r[Len(s) + 1] = c
         /\ \A i \in DOMAIN t : Len(s) + 1 + i \in DOMAIN r /\ r[Len(s) + 1 + i] = t[i]
OBVIOUS

\* The first call announces everything.
LEMMA WiredInit == ContainerInit => Wired
<1> SUFFICES ASSUME ContainerInit PROVE Wired
  OBVIOUS
<1>1. /\ lambda \in Lambdas
      /\ todo = <<[call |-> "bootstrapApplication", module |-> lambda.module]>>
  BY DEF ContainerInit
<1>2. lambda.module \in AllModules
  <2>1. CASE lambda = deleteUser
    BY <2>1 DEF deleteUser, AllModules
  <2>2. CASE lambda = jwtAuthorizer
    BY <2>2 DEF jwtAuthorizer, AllModules
  <2>3. ASSUME NEW m \in Library,
               lambda = [module |-> Module(<<AppConfigModule, m>>, {}), gets |-> m.providers]
        PROVE  lambda.module \in AllModules
    BY <2>3 DEF AllModules
  <2> QED
    BY <1>1, <2>1, <2>2, <2>3 DEF Lambdas
<1> HIDE DEF Keys
<1>3. todo \in Seq(Call)
  BY <1>1, <1>2 DEF Call
<1>4. 1 \in DOMAIN todo /\ Announced(todo[1]) = Provided3(lambda.module)
  BY <1>1 DEF Announced
<1> QED
  BY <1>1, <1>3, <1>4 DEF Wired

\* A call announces what the calls that it makes announce.
LEMMA BootstrapKeepsWired ==
  ASSUME Wired, bootstrapApplication
  PROVE  Wired'
<1> HIDE DEF Keys
<1> DEFINE m == Head(todo).module
           boots == [i \in DOMAIN m.imports |->
                       [call |-> "bootstrapApplication", module |-> m.imports[i]]]
           bind == [call |-> "bindProviders", module |-> m]
<1>1. /\ todo # <<>> /\ Head(todo).call = "bootstrapApplication"
      /\ todo' = boots \o <<bind>> \o Tail(todo)
      /\ UNCHANGED <<lambda, bindings>>
  BY DEF bootstrapApplication
<1>2. /\ todo \in Seq(Call) /\ Head(todo) = todo[1] /\ todo[1] \in Call
      /\ Tail(todo) \in Seq(Call)
      /\ \A i \in DOMAIN todo : i = 1 \/ (i - 1 \in DOMAIN Tail(todo) /\ Tail(todo)[i - 1] = todo[i])
  BY <1>1 DEF Wired
<1>3. m \in AllModules /\ m.imports \in Seq(AllModules)
  BY <1>2, ImportsAreModules DEF Call
<1> HIDE DEF m
<1>4. boots \in Seq(Call) /\ DOMAIN boots = DOMAIN m.imports /\ bind \in Call
  <2>1. \A n \in AllModules : /\ [call |-> "bootstrapApplication", module |-> n] \in Call
                              /\ [call |-> "bindProviders", module |-> n] \in Call
    BY DEF Call
  <2>2. /\ \A i \in DOMAIN m.imports : m.imports[i] \in AllModules
        /\ Len(m.imports) \in Nat /\ DOMAIN m.imports = 1..Len(m.imports)
    BY <1>3
  <2>3. boots \in [1..Len(m.imports) -> Call]
    BY <2>1, <2>2
  <2>4. boots \in Seq(Call)
    BY <2>2, <2>3
  <2> QED
    BY <1>3, <2>1, <2>4
<1>5. /\ \A i \in DOMAIN m.imports : Announced(boots[i]) = Provided3(m.imports[i])
      /\ Announced(bind) = m.providers
  BY DEF Announced
<1>6. Announced(todo[1]) = Provided3(m)
  BY <1>1, <1>2 DEF Announced, m
<1> HIDE DEF boots, bind
<1>7. /\ todo' \in Seq(Call)
      /\ \A i \in DOMAIN boots : i \in DOMAIN todo' /\ todo'[i] = boots[i]
      /\ Len(boots) + 1 \in DOMAIN todo' /\ todo'[Len(boots) + 1] = bind
      /\ \A i \in DOMAIN Tail(todo) : /\ Len(boots) + 1 + i \in DOMAIN todo'
                                      /\ todo'[Len(boots) + 1 + i] = Tail(todo)[i]
  BY <1>1, <1>2, <1>4, Spliced
<1>8. ASSUME NEW k \in Keys \cap Provided3(lambda.module)
      PROVE  bindings[k] = 1 \/ \E i \in DOMAIN todo' : k \in Announced(todo'[i])
  <2>1. CASE bindings[k] = 1
    BY <2>1
  <2>2. CASE k \in m.providers
    BY <1>5, <1>7, <2>2
  <2>3. ASSUME NEW i \in DOMAIN m.imports, k \in Provided2(m.imports[i])
        PROVE  \E j \in DOMAIN todo' : k \in Announced(todo'[j])
    <3>1. k \in Provided3(m.imports[i])
      BY <2>3, ProvidedGrows
    <3> QED
      BY <1>4, <1>5, <1>7, <3>1
  <2>4. ASSUME NEW i \in DOMAIN todo, k \in Announced(todo[i]), i # 1
        PROVE  \E j \in DOMAIN todo' : k \in Announced(todo'[j])
    <3>1. i - 1 \in DOMAIN Tail(todo) /\ Tail(todo)[i - 1] = todo[i]
      BY <1>2, <2>4
    <3> QED
      BY <1>7, <2>4, <3>1
  <2>5. CASE k \in Announced(todo[1])
    BY <1>6, <2>2, <2>3, <2>5 DEF Provided3
  <2> QED
    BY <2>1, <2>4, <2>5 DEF Wired
<1> QED
  BY <1>1, <1>7, <1>8 DEF Wired

\* What is taken off the calls to come is bound.
LEMMA BindKeepsWired ==
  ASSUME Inv, Wired, bindProviders
  PROVE  Wired'
<1> HIDE DEF Keys
<1>1. /\ todo # <<>> /\ Head(todo).call = "bindProviders" /\ todo' = Tail(todo)
      /\ bindings' = [k \in Keys |-> IF k \in Head(todo).module.providers /\ bindings[k] = 0
                                     THEN 1 ELSE bindings[k]]
      /\ UNCHANGED lambda
  BY DEF bindProviders, Bound
<1>2. /\ todo \in Seq(Call) /\ Head(todo) = todo[1] /\ Tail(todo) \in Seq(Call)
      /\ \A i \in DOMAIN todo : i = 1 \/ (i - 1 \in DOMAIN Tail(todo) /\ Tail(todo)[i - 1] = todo[i])
  BY <1>1 DEF Wired
<1>3. Announced(todo[1]) = Head(todo).module.providers
  BY <1>1, <1>2 DEF Announced
<1>4. \A k \in Keys : bindings[k] \in {0, 1}
  BY DEF Inv, Counted, BoundOnce
<1>5. \A k \in Keys : (k \in Announced(todo[1]) \/ bindings[k] = 1) => bindings'[k] = 1
  BY <1>1, <1>3, <1>4
<1>6. ASSUME NEW k \in Keys \cap Provided3(lambda.module), bindings'[k] # 1
      PROVE  \E i \in DOMAIN todo' : k \in Announced(todo'[i])
  <2>1. PICK i \in DOMAIN todo : k \in Announced(todo[i])
    BY <1>5, <1>6 DEF Wired
  <2>2. i - 1 \in DOMAIN Tail(todo) /\ Tail(todo)[i - 1] = todo[i]
    BY <1>2, <1>5, <1>6, <2>1
  <2> QED
    BY <1>1, <2>1, <2>2
<1> QED
  BY <1>1, <1>2, <1>6 DEF Wired

\* Once start-up is over, all that a request plans is bound once.
LEMMA PlansAreBound ==
  ASSUME Inv, Wired, todo = <<>>, NEW key \in lambda.gets
  PROVE  key \in Keys /\ Plan[key] \subseteq Keys /\ \A k \in Plan[key] : bindings[k] = 1
<1> HIDE DEF Keys
<1> DEFINE S == Provided3(lambda.module)
<1>1. S \subseteq Keys /\ (\A k \in S : Injects(k) \subseteq S) /\ key \in S
  BY LambdaSelfContained DEF Wired, Closed
<1>2. \A k \in S : bindings[k] = 1
  BY <1>1 DEF Wired
<1> HIDE DEF S
<1>3. Plan[key] \subseteq S
  BY <1>1, PlanWithin
<1> QED
  BY <1>1, <1>2, <1>3

-----------------------------------------------------------------------------
(* Requests *)

\* The variables that a request for the key wanted needs, for the constructors
\* and for the handler.
BuildNeeds == UNION {Providers[k].constructor : k \in Plan[wanted]}
HandleNeeds == ConfigRead(Plan[wanted] \ Caught)
Needs == BuildNeeds \cup HandleNeeds

\* The last request failed for want of something it needs, or was denied, or
\* needs nothing that it lacks.
Answered ==
  /\ result \in {"none", "served", "uncached", "denied", "misconfigured"}
  /\ result = "misconfigured" => Needs \cap bad # {}
  /\ result \in {"served", "uncached"} => Needs \cap bad = {}

\* What there is was constructed with a good configuration, and is all of the
\* plan but what is still to build.
Constructed ==
  /\ phase \in {"idle", "constructing", "handling"}
  /\ \A k \in Keys : instances[k] > 0 => Providers[k].constructor \cap bad = {}
  /\ phase # "idle" => /\ toBuild \subseteq Plan[wanted]
                       /\ \A k \in Plan[wanted] \ toBuild : instances[k] > 0
  /\ phase = "handling" => toBuild = {}

\* The inductive invariant is Configured.
Requested == wanted \in lambda.gets /\ Constructed /\ Answered

Configured == Inv /\ Wired /\ Requested

\* Whatever a request plans is the key of a class.
LEMMA PlansAreKeys ==
  ASSUME lambda \in Lambdas, NEW key \in lambda.gets
  PROVE  Plan[key] \subseteq Keys
<1> HIDE DEF Keys
<1> DEFINE S == Provided3(lambda.module)
<1>1. S \subseteq Keys /\ (\A k \in S : Injects(k) \subseteq S) /\ key \in S
  BY LambdaSelfContained DEF Closed
<1> HIDE DEF S
<1> QED
  BY <1>1, PlanWithin

\* Nothing is constructed yet, and no request was answered.
LEMMA RequestedInit == ContainerInit => Requested
<1> SUFFICES ASSUME ContainerInit PROVE Requested
  OBVIOUS
<1>1. /\ wanted \in lambda.gets /\ phase = "idle" /\ result = "none"
      /\ instances = [k \in Keys |-> 0]
  BY DEF ContainerInit
<1> HIDE DEF Keys
<1> QED
  BY <1>1 DEF Requested, Constructed, Answered

\* Start-up, and the step from construction to the handler, leave all that
\* Requested is about alone.
LEMMA UnchangedKeepsRequested ==
  ASSUME Requested, UNCHANGED <<lambda, local, bad, instances, wanted, toBuild, result>>,
         UNCHANGED phase \/ Handle
  PROVE  Requested'
<1> HIDE DEF Keys
<1>1. Providers' = Providers /\ Needs' = Needs
  BY DEF Providers, Needs, BuildNeeds, HandleNeeds, ConfigRead, Caught
<1>2. Constructed'
  BY <1>1 DEF Handle, Requested, Constructed
<1>3. Answered'
  BY <1>1 DEF Requested, Answered
<1> QED
  BY <1>2, <1>3 DEF Requested

\* What is not to be built is there already, from an earlier request.
LEMMA GetInstanceKeepsRequested ==
  ASSUME Configured, NEW key \in lambda.gets, getInstance(key)
  PROVE  Requested'
<1> HIDE DEF Keys
<1>1. /\ todo = <<>> /\ wanted' = key
      /\ UNCHANGED <<lambda, local, bad, instances>>
      /\ IF \A k \in Plan[key] : bindings[k] = 1
         THEN phase' = "constructing" /\ toBuild' = Unbuilt(Plan[key]) /\ result' = "none"
         ELSE result' = "unbound" /\ UNCHANGED <<phase, toBuild>>
  BY DEF getInstance
<1>2. Plan[key] \subseteq Keys /\ \A k \in Plan[key] : bindings[k] = 1
  BY <1>1, PlansAreBound DEF Configured
<1>3. phase' = "constructing" /\ toBuild' = Unbuilt(Plan[key]) /\ result' = "none"
  BY <1>1, <1>2
<1>4. Unbuilt(Plan[key]) \subseteq Plan[key]
  BY DEF Unbuilt
<1>5. \A k \in Plan[key] \ Unbuilt(Plan[key]) : instances[k] > 0
  BY <1>2 DEF Unbuilt, Configured, Inv, Counted
<1>6. Providers' = Providers
  BY <1>1 DEF Providers
<1>7. Constructed'
  <2>1. \A k \in Keys : instances'[k] > 0 => Providers'[k].constructor \cap bad' = {}
    BY <1>1, <1>6 DEF Configured, Requested, Constructed
  <2> QED
    BY <1>1, <1>3, <1>4, <1>5, <2>1 DEF Constructed
<1>8. Answered'
  BY <1>3 DEF Answered
<1> QED
  BY <1>1, <1>7, <1>8 DEF Requested

\* A request fails for something that it needs.
LEMMA MisconfiguredKeepsRequested ==
  ASSUME Requested, Misconfigured, Needs \cap bad # {},
         UNCHANGED <<lambda, local, bad, wanted>>
  PROVE  Requested'
<1> HIDE DEF Keys
<1>1. /\ phase' = "idle" /\ result' = "misconfigured" /\ instances' = instances
  BY DEF Misconfigured
<1>2. Providers' = Providers /\ Needs' = Needs
  BY DEF Providers, Needs, BuildNeeds, HandleNeeds, ConfigRead, Caught
<1>3. Constructed'
  BY <1>1, <1>2 DEF Requested, Constructed
<1>4. Answered'
  BY <1>1, <1>2 DEF Answered
<1> QED
  BY <1>3, <1>4 DEF Requested

\* A constructor that throws lacks something the request needs; one that does
\* not has all it reads.
LEMMA ConstructKeepsRequested ==
  ASSUME Configured, NEW k \in Keys, Construct(k)
  PROVE  Requested'
<1> HIDE DEF Keys
<1>1. /\ phase = "constructing" /\ k \in toBuild
      /\ UNCHANGED <<lambda, local, bad, wanted>>
  BY DEF Construct
<1>2. k \in Plan[wanted]
  BY <1>1 DEF Configured, Requested, Constructed
<1>3. Providers' = Providers /\ Needs' = Needs
  BY <1>1 DEF Providers, Needs, BuildNeeds, HandleNeeds, ConfigRead, Caught
<1>4. CASE Providers[k].constructor \cap bad # {}
  <2>1. Misconfigured
    BY <1>4 DEF Construct
  <2>2. Needs \cap bad # {}
    <3>1. BuildNeeds \cap bad # {}
      BY <1>2, <1>4 DEF BuildNeeds
    <3> QED
      BY <3>1 DEF Needs
  <2> QED
    BY <1>1, <2>1, <2>2, MisconfiguredKeepsRequested DEF Configured
<1>5. CASE Providers[k].constructor \cap bad = {}
  <2>1. /\ instances' = [instances EXCEPT ![k] = @ + 1]
        /\ toBuild' = toBuild \ {k}
        /\ UNCHANGED <<phase, result>>
    BY <1>5 DEF Construct
  <2>2. instances \in [Keys -> Nat]
    BY DEF Configured, Inv, Counted
  <2>3. instances'[k] > 0 /\ \A j : j # k => instances'[j] = instances[j]
    BY <2>1, <2>2
  <2>4. Constructed'
    <3>1. \A j \in Keys : instances'[j] > 0 => Providers'[j].constructor \cap bad' = {}
      BY <1>1, <1>3, <1>5, <2>3 DEF Configured, Requested, Constructed
    <3>2. toBuild' \subseteq Plan[wanted] /\ \A j \in Plan[wanted] \ toBuild' : instances'[j] > 0
      BY <1>1, <2>1, <2>3 DEF Configured, Requested, Constructed
    <3> QED
      BY <1>1, <2>1, <3>1, <3>2 DEF Constructed
  <2>5. Answered'
    BY <1>1, <1>3, <2>1 DEF Configured, Requested, Answered
  <2> QED
    BY <1>1, <2>4, <2>5 DEF Configured, Requested
<1> QED
  BY <1>4, <1>5

\* Everything of the plan is constructed when the handler reads its variables.
LEMMA HandledKeepsRequested ==
  ASSUME Configured, Handled
  PROVE  Requested'
<1> HIDE DEF Keys
<1>1. /\ phase = "handling"
      /\ UNCHANGED <<lambda, local, bad, wanted>>
  BY DEF Handled
<1>2. Providers' = Providers /\ Needs' = Needs
  BY <1>1 DEF Providers, Needs, BuildNeeds, HandleNeeds, ConfigRead, Caught
<1>3. CASE ConfigRead(Plan[wanted] \ Caught) \cap bad # {}
  <2>1. Misconfigured
    BY <1>3 DEF Handled
  <2>2. Needs \cap bad # {}
    <3>1. HandleNeeds \cap bad # {}
      BY <1>3 DEF HandleNeeds
    <3> QED
      BY <3>1 DEF Needs
  <2> QED
    BY <1>1, <2>1, <2>2, MisconfiguredKeepsRequested DEF Configured
<1>4. CASE ConfigRead(Plan[wanted] \ Caught) \cap bad = {}
  <2>1. phase' = "idle" /\ result' \in {"uncached", "served"} /\ UNCHANGED <<instances, toBuild>>
    BY <1>4 DEF Handled
  <2>2. \A k \in Plan[wanted] : k \in Keys /\ instances[k] > 0
    <3>1. \A k \in Plan[wanted] : instances[k] > 0
      BY <1>1 DEF Configured, Requested, Constructed
    <3> QED
      BY <3>1, PlansAreKeys DEF Configured, Wired, Requested
  <2>3. \A k \in Plan[wanted] : Providers[k].constructor \cap bad = {}
    BY <2>2 DEF Configured, Requested, Constructed
  <2>4. Needs \cap bad = {}
    <3>1. HandleNeeds \cap bad = {}
      BY <1>4 DEF HandleNeeds
    <3>2. BuildNeeds \cap bad = {}
      BY <2>3 DEF BuildNeeds
    <3> QED
      BY <3>1, <3>2 DEF Needs
  <2>5. Constructed'
    BY <1>1, <1>2, <2>1 DEF Configured, Requested, Constructed
  <2>6. Answered'
    BY <1>1, <1>2, <2>1, <2>4 DEF Answered
  <2> QED
    BY <1>1, <2>5, <2>6 DEF Configured, Requested
<1> QED
  BY <1>3, <1>4

\* What denies a request reads nothing.
LEMMA MalformedTokenKeepsRequested ==
  ASSUME Requested, MalformedToken
  PROVE  Requested'
<1> HIDE DEF Keys
<1>1. /\ phase' = "idle" /\ result' = "denied"
      /\ UNCHANGED <<lambda, local, bad, instances, wanted, toBuild>>
  BY DEF MalformedToken
<1>2. Providers' = Providers
  BY <1>1 DEF Providers
<1>3. Constructed'
  BY <1>1, <1>2 DEF Requested, Constructed
<1>4. Answered'
  BY <1>1 DEF Answered
<1> QED
  BY <1>1, <1>3, <1>4 DEF Requested

\* Every step keeps the three parts.
LEMMA ConfiguredStep == Configured /\ [ContainerNext]_containerVars => Configured'
<1> SUFFICES ASSUME Configured, [ContainerNext]_containerVars PROVE Configured'
  OBVIOUS
<1>0. Inv'
  BY InvStep DEF Configured
<1> HIDE DEF Keys
<1>1. CASE bootstrapApplication
  <2>1. Wired'
    BY <1>1, BootstrapKeepsWired DEF Configured
  <2>2. Requested'
    BY <1>1, UnchangedKeepsRequested DEF bootstrapApplication, Configured, Requested
  <2> QED
    BY <1>0, <2>1, <2>2 DEF Configured
<1>2. CASE bindProviders
  <2>1. Wired'
    BY <1>2, BindKeepsWired DEF Configured
  <2>2. Requested'
    BY <1>2, UnchangedKeepsRequested DEF bindProviders, Configured, Requested
  <2> QED
    BY <1>0, <2>1, <2>2 DEF Configured
<1>3. CASE \E key \in lambda.gets : getInstance(key)
  <2>1. Wired'
    BY <1>3 DEF getInstance, Configured, Wired
  <2> QED
    BY <1>0, <1>3, <2>1, GetInstanceKeepsRequested DEF Configured
<1>4. CASE \E k \in Keys : Construct(k)
  <2>1. Wired'
    BY <1>4 DEF Construct, Configured, Wired
  <2> QED
    BY <1>0, <1>4, <2>1, ConstructKeepsRequested DEF Configured
<1>5. CASE Handle
  <2>1. Wired'
    BY <1>5 DEF Handle, Configured, Wired
  <2>2. Requested'
    BY <1>5, UnchangedKeepsRequested DEF Handle, Configured, Requested
  <2> QED
    BY <1>0, <2>1, <2>2 DEF Configured
<1>6. CASE Handled
  <2>1. Wired'
    BY <1>6 DEF Handled, Configured, Wired
  <2> QED
    BY <1>0, <1>6, <2>1, HandledKeepsRequested DEF Configured
<1>7. CASE MalformedToken
  <2>1. Wired'
    BY <1>7 DEF MalformedToken, Configured, Wired
  <2> QED
    BY <1>0, <1>7, <2>1, MalformedTokenKeepsRequested DEF Configured
<1>8. CASE UNCHANGED containerVars
  <2>1. Wired'
    BY <1>8 DEF containerVars, Configured, Wired
  <2>2. Requested'
    BY <1>8, UnchangedKeepsRequested DEF containerVars, Configured, Requested
  <2> QED
    BY <1>0, <2>1, <2>2 DEF Configured
<1> QED
  BY <1>1, <1>2, <1>3, <1>4, <1>5, <1>6, <1>7, <1>8 DEF ContainerNext

-----------------------------------------------------------------------------
(* What the two Lambdas of the repository need *)

\* Locally only three classes are configured in another way.
LEMMA ProvidersListed ==
  /\ \A k \in Keys \ {"DYNAMODB_RAW_CLIENT", "DYNAMODB_CLIENT", "DB_CLIENT"} :
       Providers[k] = Deployed[k]
  /\ Providers["DB_CLIENT"].constructor = Deployed["DB_CLIENT"].constructor
  /\ Providers["DB_CLIENT"].methods
       = IF local THEN dbConfig \cup dbUrl ELSE Deployed["DB_CLIENT"].methods
<1> DEFINE D == Deployed
<1>1. D = [k \in Keys |-> D[k]]
  BY DEF Deployed, Keys
<1>2. "DB_CLIENT" \in Keys /\ "DYNAMODB_CLIENT" \in Keys /\ "DYNAMODB_RAW_CLIENT" \in Keys
  BY KeysByHeight DEF UpTo1, UpTo2, UpTo3, UpTo4, Height1, Height2
<1>3. D["DB_CLIENT"] = [injects |-> {"APP_CONFIG", "SECRETS_MANAGER"}, constructor |-> {},
                        methods |-> dbConfig \cup secretManagerKeys]
  BY DEF Deployed, PrismaDBClientDatasource, Class
<1>4. Providers = IF local THEN [D EXCEPT !["DYNAMODB_RAW_CLIENT"].constructor = @ \cup dynamoDBConfig,
                                 !["DYNAMODB_CLIENT"].constructor = @ \cup dynamoDBConfig,
                                 !["DB_CLIENT"].methods = dbConfig \cup dbUrl]
           ELSE D
  BY DEF Providers
<1> HIDE DEF Keys, D
<1>5. CASE ~local
  BY <1>4, <1>5 DEF D
<1>6. CASE local
  BY <1>1, <1>2, <1>3, <1>4, <1>6 DEF D
<1> QED
  BY <1>5, <1>6

\* delete-user reads the database's variables and makes one AWS client: locally
\* it reads one variable more than is asked for.
LEMMA DeleteUserNeeds ==
  ASSUME lambda = deleteUser, wanted \in lambda.gets
  PROVE  /\ Required \subseteq Needs
         /\ Needs = IF local THEN Required \cup {"RDS_PROXY_ENDPOINT"} ELSE Required
<1>1. wanted = "DeleteUserPresenter" /\ lambda # jwtAuthorizer
  BY DEF deleteUser, jwtAuthorizer
<1>2. Plan[wanted] = deleteUserPlan /\ Caught = {}
  BY <1>1, PlansListed DEF Caught
<1>3. /\ \A k \in {"DeleteUserPresenter", "DeleteUserUseCase", "UserInfoRepo", "APP_CONFIG"} :
           Deployed[k].constructor = {} /\ Deployed[k].methods = {}
      /\ Deployed["SECRETS_MANAGER"].constructor = {"REGION"}
      /\ Deployed["SECRETS_MANAGER"].methods = {}
      /\ Deployed["DB_CLIENT"].constructor = {}
      /\ Deployed["DB_CLIENT"].methods = {"RDS_PROXY_ENDPOINT", "RDS_SECRET_ARN"}
  BY DEF Deployed, DeleteUserPresenter, DeleteUserUseCase, UserRepo, AppConfig,
         SecretsManagerDatasource, PrismaDBClientDatasource, AwsClient, Class,
         awsConfig, dbConfig, secretManagerKeys
<1>4. deleteUserPlan \subseteq Keys
  BY KeysByHeight DEF deleteUserPlan, UpTo1, UpTo2, UpTo3, UpTo4,
     Height0, Height1, Height2, Height3, Height4, Height5
<1>5. /\ \A k \in {"DeleteUserPresenter", "DeleteUserUseCase", "UserInfoRepo", "APP_CONFIG"} :
           Providers[k].constructor = {} /\ Providers[k].methods = {}
      /\ Providers["SECRETS_MANAGER"].constructor = {"REGION"}
      /\ Providers["SECRETS_MANAGER"].methods = {}
      /\ Providers["DB_CLIENT"].constructor = {}
      /\ Providers["DB_CLIENT"].methods
           = {"RDS_PROXY_ENDPOINT"} \cup IF local THEN {"DATABASE_URL"}
                                     ELSE {"RDS_SECRET_ARN"}
  <2> HIDE DEF Keys
  <2> QED
    BY <1>3, <1>4, ProvidersListed DEF dbConfig, dbUrl, deleteUserPlan
<1>6. BuildNeeds = {"REGION"}
  BY <1>2, <1>5 DEF BuildNeeds, deleteUserPlan
<1>7. HandleNeeds = {"RDS_PROXY_ENDPOINT"} \cup IF local THEN {"DATABASE_URL"}
                                                ELSE {"RDS_SECRET_ARN"}
  BY <1>2, <1>5 DEF HandleNeeds, ConfigRead, deleteUserPlan
<1>8. Required = {"REGION"} \cup IF local THEN {"DATABASE_URL"}
                               ELSE {"RDS_PROXY_ENDPOINT", "RDS_SECRET_ARN"}
  BY <1>1 DEF Required
<1> QED
  BY <1>6, <1>7, <1>8 DEF Needs

\* The authorizer reads the user pool's variables; those of the cache may be
\* missing.
LEMMA JwtAuthorizerNeeds ==
  ASSUME lambda = jwtAuthorizer, wanted \in lambda.gets
  PROVE  Needs = Required
<1>1. wanted = "JwtAuthorizerPresenter" /\ lambda # deleteUser
  BY DEF jwtAuthorizer, deleteUser
<1>2. Plan[wanted] = jwtAuthorizerPlan /\ Caught = {"CACHE"}
  BY <1>1, PlansListed DEF Caught
<1>3. /\ \A k \in {"JwtAuthorizerPresenter", "APP_CONFIG", "API_GATEWAY"} :
           Deployed[k].constructor = {} /\ Deployed[k].methods = {}
      /\ \A k \in {"VerifyTokenUseCase", "JwtSigningKeyRepo"} :
           /\ Deployed[k].constructor = {}
           /\ Deployed[k].methods = cognitoUserPoolConfig
      /\ Deployed["CACHE"].constructor = {}
  BY DEF Deployed, JwtAuthorizerPresenter, AppConfig, ApiGatewayDatasource,
         VerifyTokenUseCase, JwtSigningKeyRepo, ElastiCacheCacheDatasource, Class
<1>4. jwtAuthorizerPlan \subseteq Keys
  BY KeysByHeight DEF jwtAuthorizerPlan, UpTo1, UpTo2, UpTo3, UpTo4,
     Height0, Height1, Height2, Height3, Height4, Height5
<1>5. \A k \in jwtAuthorizerPlan : Providers[k] = Deployed[k]
  <2> HIDE DEF Keys
  <2> QED
    BY <1>4, ProvidersListed DEF jwtAuthorizerPlan
<1>6. BuildNeeds = {}
  BY <1>2, <1>3, <1>5 DEF BuildNeeds, jwtAuthorizerPlan
<1>7. HandleNeeds = cognitoUserPoolConfig
  <2> HIDE DEF cognitoUserPoolConfig
  <2> QED
    BY <1>2, <1>3, <1>5 DEF HandleNeeds, ConfigRead, jwtAuthorizerPlan
<1>8. Required = {"REGION", "COGNITO_USER_POOL_ID", "COGNITO_USER_POOL_CLIENT_ID"}
  BY <1>1 DEF Required
<1> QED
  BY <1>6, <1>7, <1>8 DEF Needs, cognitoUserPoolConfig, awsConfig

\* However a Lambda's modules import each other, start-up leaves no key unbound
\* that a request plans; whatever earlier requests of its container left half
\* constructed, a request of the two Lambdas of the repository is not served or
\* let in without the variables it needs, and fails for no other, but for a
\* local delete-user.
THEOREM OnlyConfiguration == ContainerSpec => []OnlyConfigurationFails
<1>1. ContainerInit => Configured
  BY InvInit, WiredInit, RequestedInit DEF Configured
<1>2. Configured => OnlyConfigurationFails
  <2> SUFFICES ASSUME Configured PROVE OnlyConfigurationFails
    OBVIOUS
  <2>1. result # "unbound"
    BY DEF Configured, Requested, Answered
  <2>2. /\ lambda \in TheTwo => Required \subseteq Needs
        /\ lambda \in TheTwo /\ (lambda = jwtAuthorizer \/ ~local) => Needs = Required
    BY DeleteUserNeeds, JwtAuthorizerNeeds DEF Configured, Requested, TheTwo
  <2>3. /\ result = "misconfigured" => Needs \cap bad # {}
        /\ result \in {"served", "uncached"} => Needs \cap bad = {}
    BY DEF Configured, Requested, Answered
  <2> QED
    BY <2>1, <2>2, <2>3 DEF OnlyConfigurationFails, FailsAsDocumented
<1> QED
  BY <1>1, <1>2, ConfiguredStep, PTL DEF ContainerSpec

\* The one variable nobody asks for: a local delete-user fails for those that
\* the documentation lists, or for the endpoint of the proxy.
LocalDeleteUserFails ==
  lambda = deleteUser /\ local /\ result = "misconfigured"
    => (Required \cup {"RDS_PROXY_ENDPOINT"}) \cap bad # {}

\* The endpoint is the only variable that a local delete-user fails for without
\* having been asked for: dbConfig reads it whoever is to use it.
THEOREM LocalDeleteUser == ContainerSpec => []LocalDeleteUserFails
<1>1. ContainerInit => Configured
  BY InvInit, WiredInit, RequestedInit DEF Configured
<1>2. Configured => LocalDeleteUserFails
  BY DeleteUserNeeds DEF Configured, Requested, Answered, LocalDeleteUserFails
<1> QED
  BY <1>1, <1>2, ConfiguredStep, PTL DEF ContainerSpec

-----------------------------------------------------------------------------
(* Types, and that each plan constructs a key once *)

\* What is still to be constructed was not constructed by every request so far.
OncePerRequest ==
  /\ requests \in 0..MaxRequests
  /\ toBuild \subseteq Keys
  /\ \A k \in Keys : instances[k] \in 0..requests
                     /\ (k \in toBuild => instances[k] < requests)

TypeInv ==
  /\ Configured /\ OncePerRequest
  /\ local \in BOOLEAN /\ bad \in WrongSets

\* Nothing was constructed and nobody asked.
LEMMA TypeInvInit == ContainerInit => TypeInv
<1> SUFFICES ASSUME ContainerInit PROVE TypeInv
  OBVIOUS
<1>1. Configured
  BY InvInit, WiredInit, RequestedInit DEF Configured
<1> HIDE DEF Keys
<1> QED
  BY <1>1, ContainerAssumption DEF ContainerInit, TypeInv, OncePerRequest

\* A request asks for more than was ever constructed of a key, and takes it off
\* its list when it is.
LEMMA TypeInvStep == TypeInv /\ [ContainerNext]_containerVars => TypeInv'
<1> SUFFICES ASSUME TypeInv, [ContainerNext]_containerVars PROVE TypeInv'
  OBVIOUS
<1> USE ContainerAssumption
<1> HIDE DEF Keys
<1>1. Configured'
  BY ConfiguredStep DEF TypeInv
<1>2. instances \in [Keys -> Nat]
  BY DEF TypeInv, Configured, Inv, Counted
<1>3. UNCHANGED <<local, bad>>
  BY DEF ContainerNext, bootstrapApplication, bindProviders, getInstance, Construct,
         Handle, Handled, MalformedToken, containerVars
<1>4. OncePerRequest'
  <2>1. CASE \E key \in lambda.gets : getInstance(key)
    <3> PICK key \in lambda.gets : getInstance(key)
      BY <2>1
    <3>1. /\ requests' = requests + 1 /\ requests < MaxRequests
          /\ instances' = instances
          /\ toBuild' = toBuild \/ toBuild' = Unbuilt(Plan[key])
      BY DEF getInstance
    <3>2. Plan[key] \subseteq Keys
      BY PlansAreKeys DEF TypeInv, Configured, Wired
    <3>3. toBuild' \subseteq Keys
      BY <3>1, <3>2 DEF Unbuilt, TypeInv, OncePerRequest
    <3> QED
      BY <1>2, <3>1, <3>3 DEF TypeInv, OncePerRequest
  <2>2. CASE \E k \in Keys : Construct(k)
    <3> PICK k \in Keys : Construct(k)
      BY <2>2
    <3>1. requests' = requests /\ k \in toBuild
      BY DEF Construct
    <3>2. CASE Misconfigured
      BY <3>1, <3>2 DEF Misconfigured, TypeInv, OncePerRequest
    <3>3. CASE ~Misconfigured
      <4>1. /\ instances' = [instances EXCEPT ![k] = @ + 1]
            /\ toBuild' = toBuild \ {k}
        BY <3>3 DEF Construct
      <4> QED
        BY <1>2, <3>1, <4>1 DEF TypeInv, OncePerRequest
    <3> QED
      BY <3>2, <3>3
  <2>3. CASE \/ bootstrapApplication \/ bindProviders \/ Handle \/ Handled
             \/ MalformedToken \/ UNCHANGED containerVars
    <3>1. /\ UNCHANGED <<instances, requests>>
          /\ toBuild' = toBuild \/ toBuild' = {}
      BY <2>3 DEF bootstrapApplication, bindProviders, Handle, Handled, MalformedToken,
                  Misconfigured, containerVars
    <3> QED
      BY <3>1 DEF TypeInv, OncePerRequest
  <2> QED
    BY <2>1, <2>2, <2>3 DEF ContainerNext
<1> QED
  BY <1>1, <1>3, <1>4 DEF TypeInv

\* Variables keep their types; a request constructs a class at most once, so
\* there are no more instances of it than requests, also of a transient one.
THEOREM ContainerTyping == ContainerSpec => []ContainerTypeOK
<1> HIDE DEF Keys
<1>1. TypeInv => ContainerTypeOK
  <2> SUFFICES ASSUME TypeInv PROVE ContainerTypeOK
    OBVIOUS
  <2>1. wanted \in Keys
    BY LambdaSelfContained DEF TypeInv, Configured, Wired, Requested, Closed
  <2>2. instances \in [Keys -> 0..MaxRequests]
    BY ContainerAssumption DEF TypeInv, Configured, Inv, Counted, OncePerRequest
  <2> QED
    BY <2>1, <2>2 DEF TypeInv, Configured, Inv, Counted, Wired, Requested, Constructed,
                      Answered, OncePerRequest, ContainerTypeOK
<1> QED
  BY <1>1, TypeInvInit, TypeInvStep, PTL DEF ContainerSpec

\* Of any Lambda that uses the library, not only of the two: a request is
\* answered, or fails for a variable that the classes of its plan need.
THEOREM RequestsAnswered == ContainerSpec => []Answered
<1>1. ContainerInit => Configured
  BY InvInit, WiredInit, RequestedInit DEF Configured
<1>2. Configured => Answered
  BY DEF Configured, Requested
<1> QED
  BY <1>1, <1>2, ConfiguredStep, PTL DEF ContainerSpec
=============================================================================
