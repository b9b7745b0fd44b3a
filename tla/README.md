# Verification of LambdaEvents

TLA+ models of the parts of this repository whose behaviour depends on order, failure or
time, the TLC runs that check them on small instances, and TLAPS proofs of the most
important results for every instance.

Paths below are relative to the repository; `L/` stands for `app/lambda/src/`.

## 1. The system

Two AWS Lambdas (`delete-user`, `jwt-authorizer`) in Clean Architecture over a shared
library of datasources, a Step Function that schedules one of them, and a delivery pipeline
that puts layers and code into the account.

| Component | State it keeps | Operations | Interacts with | What is hard about it |
|---|---|---|---|---|
| **Database client** (`PrismaDBClientDatasource`) | `dbClient`, `retries`, `refreshPromise`, shared by all calls of a warm container | `getClient`, the `$allOperations` wrapper (`retryWithBackoff`), `invalidateClient` | Secrets Manager, RDS proxy, Prisma; every repository | concurrent calls between awaits, password rotation, shared retry counter, promise used as a lock |
| **DynamoDB batch delete** (`DynamoDBDatasource.batchDeleteItems`) | the chunk, the pending requests, the attempt | one call, many requests | DynamoDB | partial success, throttling, two exits of one budget, chunk boundaries |
| **JWT authorizer** (`VerifyTokenUseCase`, `JwtSigningKeyRepo`, `ElastiCacheCacheDatasource`) | the Valkey entries `jwk-kid:{kid}`, one client per container | verify a token; read cache, fetch key set, write cache | Valkey, Cognito, API Gateway | key rotation against expiry, cache outages, time-outs in a row |
| **Delete-user batch** (`workflow.json`, `DeleteUserUseCase`, `UserRepo`, Lambda pipes) | the `user` table, the execution | invoke, purge, classify the answer | database client, Step Functions, the application | lost answers, Lambdas that outlive their execution, overlapping runs |
| **Delivery pipeline** (`cd.yml`, `cd-deploy-*.yml`, `006_deploy-stepfunctions-from-config.sh`) | layer versions, the functions' `$LATEST`, versions and aliases, the state machine | compare, publish, attach, update code, publish version, move alias, update workflow | Lambda's control plane, Step Functions; other jobs and other runs | read-modify-replace in parallel jobs, failure between two steps |
| **Object storage** (`AwsS3ObjectStorageDatasource`, its cross-account connector, `GcpGcsObjectStorageUploadDatasource`) | the connector's cached clients, the GCS client | get, put, list, delete one, many or a directory; assume a role; upload a stream or a buffer | S3, STS, GCS, Secrets Manager; others who use the bucket | paging over a changing bucket, keys refused one by one, chunks that outlive a rejected call, expiring credentials, broken streams |
| **Caches** (`InMemoryCacheDatasource`, `ElastiCacheCacheDatasource`) | the map; the Valkey client of the module | get, set, delete, clear | Valkey and its replicas, containers that share it | expiry, sliding TTLs, time-outs of executed commands, lagging replicas |
| **Dependency injection, configuration** (`di.config.ts`, the `*.di.ts` and `module.ts` files, `AppConfig`) | the inversify container, the environment | bootstrap, bind, resolve, read a variable | every class | modules imported along several paths, construction that fails half-way, getters that throw for what is not needed |
| **Message queue, push notifications** (SQS, SNS) | none | send, delete a job; publish, create, look up, activate, delete endpoints | SQS, SNS | parallel deletions of which some fail, lost answers |
| **GraphQL, Lambda, API clients** | none | one request each | Lambda, HTTP | answers with status 200 that are no success |
| **Wrappers of other AWS services** (Athena, CloudWatch, Cognito, DynamoDB, Secrets Manager, SES, Step Functions, Translate) | none | one SDK call each | AWS | first pages and missing parts taken for the whole |
| Utilities, responses, logging | none | pure functions | all | string and date formats |

What makes each modelled component correct:

- *Database client*: invalidations never overlap; the budget holds; a query is repeated only
  after its client was dropped; nobody waits for ever; `getClient` yields a client; a call
  settles after a rotation (the last two do not hold, section 5).
- *Batch delete*: resolved means everything deleted; every chunk in turn, each within its
  budget; the call ends.
- *Authorizer*: only published keys are trusted, and a retired key not for long; the cache
  neither denies nor allows by itself; a request is delayed by a bounded time and answered.
- *Batch*: nobody is purged early, whatever runs overlap; success means purged; ends.
- *Pipeline*: what is served has the layers it needs; one version per layer; the alias
  follows the newest delivered push; the workflow is never ahead of its function; runs end.
- *Object storage*: a deletion that resolves leaves only what S3 refused; a full listing
  misses nothing that was there all along; a client handed out has the right role and lasts;
  no part of an upload is stored; calls settle.
- *Caches*: a get finds what was last written and is still fresh, or nothing.
- *Injection*: every singleton once; no key unbound or bound twice; a request is not served
  without the configuration it needs and fails for no other (locally `delete-user` does,
  section 5).
- *Clients of services*: what resolves was executed and answered; a bulk deletion is all or
  error and over when it settles; calls settle.

## 2. Modules

| Module | Models | Checked as | Proved in |
|---|---|---|---|
| `SingleFlight` | abstract: at most one leader, waiters are released together | | |
| `DbClient` | the database client with concurrent callers | `MCDbClient` | `DbClientProofs` |
| `AllOrError` | abstract: a bulk deletion deletes all or throws | | |
| `BatchDelete` | `batchDeleteItems` | `MCDatasources` | `BatchDeleteProofs` |
| `SigningKeys` | the authorizer, Valkey, Cognito's keys and the clock | `MCSigningKeys` | `SigningKeysProofs` |
| `Purge` | abstract: atomic purges of a table in use | | |
| `DeleteUserBatch` | Step Function, Lambda, table | `MCDeleteUserBatch` | `DeleteUserBatchProofs` |
| `Deploy` | layer, function and state machine jobs of several pushes | `MCDeploy` | `DeployProofs` |
| `ObjectStorage` | one call of a method on a bucket in use | `MCObjectStorage` | `ObjectStorageProofs` |
| `CrossAccount` | concurrent connects with temporary credentials | `MCObjectStorage` | `ObjectStorageProofs` |
| `GcsUpload` | concurrent uploads and their sources | `MCObjectStorage` | `ObjectStorageProofs` |
| `RemoteCalls` | every method that wraps a request, and the bulk deletion of endpoints, which implements `AllOrError` | `MCDatasources` | `RemoteCallsProofs` |
| `Caches` | both caches, seen through one key | `MCDatasources` | `RemoteCallsProofs` |
| `Container` | wiring and configuration of a container | `MCDatasources`, `Container` | `ContainerProofs` |

`MCObjectStorage` and `MCDatasources` put modules that share no state side by side: `part`
says which of them a behaviour exercises, the others stay at rest. Each module is a
specification of its own, and the proofs are about it.

An operator whose name begins with `Bug` is a mutant: an operation as a plausible mistake
would have it. No specification uses one. Each is put in the place of the operator after it
to see that a property notices.

### DbClient

A caller is one `getClient` followed by one query, as every repository does it. JavaScript
runs to completion between awaits, so an action is the code from the settlement of one
promise to the next `await`, and `pc` is the await at which a caller is suspended:

| `pc` | await in the code |
|---|---|
| `init` | `initPrismaClient()` (206), that is `getSecretValue` |
| `connect` | `$connect()` (207) |
| `backoff` | the timer (225) |
| `query` | `queryFn()` (77) |
| `waiting` | another caller's `refreshPromise` (105) |
| `disconnecting` | `$disconnect()` (124) |
| `regain` | the return from `invalidateClient` (92-93) |

`handle` is the client whose closure `retryWithBackoff` holds; a caller with a handle is in a
retry and ignores what its `getClient` returns. `credential` is the version of the password
in a client's URL. `RotateDatabase` and `PublishSecret` are the two sides of a rotation, in
either order. A client object that nobody refers to and that has no open pool may be reused,
which stands for creating a new one. Two stretches that only a microtask separates, in which
no I/O can complete, are one action (`Disconnected`: the reset of the fields and the
`finally` of the leader). The production path of `getDbUrls` is modelled, the local one
has no secret to rotate.

### BatchDelete

A key is its position in the argument. `SendResolved` chooses the unprocessed items,
`SendRejected` the part that was executed before the error, so a lost answer is included.
`NextChunk` is the `for` header (slice and stride), `RetryOrThrow` both comparisons with the
budget, `DelayElapsed` the timer and `attempt += 1`. `BatchSize` and `MaxRetries` are the
constants' expressions over numbers the environment holds; how `Number` makes them of
strings (an empty one is 0) is not modelled.

### SigningKeys

A key is its `kid`; a token is its `kid`, whether its claims are right and whether its
signature verifies. A request has a cookie and an authorization header, each of which API
Gateway may put into `headers`, `multiValueHeaders` or both; `getAccessTokenFromRequest` picks
the token as the code does, and `Presented` are the tokens that can come out. A container has
one request at a time, as Lambda runs them. Time passes only while every await is within its
limit: `CacheTimeout` covers connecting and the request of one cache operation,
`FetchTimeout` the JWKS request. A cache operation that fails for the caller may still have
taken effect in Valkey. Keys are written one after the other, in any order, as the order of
Cognito's answer is not specified. The key set is the one of the moment Cognito answers
(`JwksServed`), the caller continues later (`Fetched`).

### DeleteUserBatch

Time is counted in retention units. The Lambda's steps are the awaits of use case and
repository; the answer is a result code and where its message came from. A Lambda may die
at any step, with its statement executed or not; an execution times out without stopping its
Lambda. The application soft-deletes, restores and re-creates users meanwhile. The database
client appears by its outcomes, a client or an `InternalServerError`.

### Deploy

A run is one push; a job is a layer, a function or the state machine of it. Calls to Lambda
are single actions: `ReadLayers` and `UpdateLayers` are separate, as they are in the scripts.
`updating` is Lambda's own state, in which it refuses further changes (`Conflict`). A layer
version holds the fingerprint as its description. Both layer workflows are one set of actions
with different `Consumers`. At most `MaxFaults` times (`Fault`) a step fails, a runner dies, or
a listing or a read fails in the way the scripts swallow. Not modelled: building, the optional
skip when a layer's or the state machine's name is not configured, and the deletion of old
versions, which comes last in a job and whose failure the job ignores.

### ObjectStorage, CrossAccount, GcsUpload

A key of `ObjectStorage` is its rank in S3's order; `Directory` are the keys with the prefix of
the call. Others put and remove objects (`Touched`); `locked` keys are always refused, others
now and then. `deleteObjects` has all chunks in flight at once, and those outlive a call that
one of them has made reject. `targets` are the objects that were there at the call and that
nobody else touched: about the others a call promises nothing. In `CrossAccount` a client is
known by the role and the expiration of its credentials; `waitingSince` bounds how long STS
takes. In `GcsUpload` a source is a buffer or a stream that ends or breaks off; `pipe` ends the
write stream for the one and not for the other.

### RemoteCalls

A method is a record: how often the SDK tries, what the service may answer, and which answers
the method resolves with. An attempt may be lost before or after it was executed. `Silent`
lists the five answers that pass for success although something is missing; the property
`ResolvedIsAnswered` says that there are no more. `CallEnds` is `Promise.allSettled` over the
endpoints. What the service executes after the last attempt has timed out is not modelled: the
call has settled, and nobody is told.

### Caches

All operations are seen through one key, for which `delete` and `clear` are alike. `written`
and `readAt` are history variables: the last set that took effect and its last use. A value
with white space inside a string is squeezed by `minifyJSON`.

### Container

A provider is what it injects, what its constructor reads of the environment and what its
methods read later. `Lambdas` are the two of the repository and one for each module of the
library, as a new Lambda would use it. `bad` are the variables that are not set or no number;
`DATABASE_URL` has a default, the empty string, with which Prisma cannot connect. A request of
the authorizer whose token is not well-formed is denied before it reads anything
(`MalformedToken`); the others read what their plan reads. `Required` is taken from the
documentation (`README.md:27-36`, `out/simulator/env.yml`, the `.env.example` files), not
from the classes: that the two agree is what the properties ask. The plan of a request,
singleton and transient scope are inversify's.

## 3. Runs

| Run | Instance | Question | Outcome |
|---|---|---|---|
| `db_client_calls` | 2 callers, 3 clients, 1 retry, 1 rotation | is invalidation exclusive, budgeted, and are waiters released? | holds |
| `db_client_rotated` | 1 caller, 3 clients, 1 retry, 1 rotation | does a call settle after a rotation? | violated |
| `db_client_null` | 2 callers, no rotation | does `getClient` keep its type? | violated |
| `signing_keys` | 1 container, 2 keys, no sliding, TTL 2, time-outs 1, 5 ticks, every request | rotation, outages, delays, tokens in any header | holds |
| `deploy_layers` | 2 pushes, a layer each, up to 3 faults | one version, newest alias, workflow not ahead, runs end; while nothing failed: right layer, sound skip | holds |
| `object_storage` | 4 keys of which 3 are the directory, pages and chunks of 2, 2 disturbances; 2 callers, 2 roles; 2 uploads | complete deletions and listings, credentials, uploads, settling | holds |
| `datasources` | 3 endpoints and every method; up to 7 keys, chunks of 2, 2 retries by default; 2 users of a cache, 2 values, TTLs 0, 1, 3; every Lambda with up to 2 wrong variables and 3 requests | answers; bulk deletions all or error, in order, in budget, ending; caches; wiring and configuration | holds |
| `delete_user_local` | every Lambda, 1 wrong variable, 1 request | does a request fail for documented variables only? | violated |
| `deploy_both_layers` | 1 push of both layers into a new account | right layer served? | violated |
| `deploy_retry` | 2 pushes of one fingerprint, with faults | does a re-run repair a failed attachment? | violated |
| `delete_user_purge` | 2 users, 2 executions, retention 2, 3 ticks | retention, success, atomicity, ending | holds |
| `delete_user_messages` | 1 user, 1 execution | are database messages hidden? | violated |

Why the bounds are enough for what they ask:

- *Two callers* give every pair of an invalidation's leader and waiter, of a late failure and
  a new client, of two cold calls. Three clients are the current one and one behind each
  caller; a fourth would only be a client nobody looks at. One retry makes both branches of
  the catch block reachable; one rotation makes old and new passwords differ. `MaxAttempts`
  stops a history counter of which the properties only ask whether it exceeds one.
- *Seven keys* in chunks of two give several full chunks, a short one, and none.
- *Two keys* are a rotation, the old and the new one at once, and make the loop of writes a
  loop. One container suffices for the run because containers only meet in the cache, and a
  container's own earlier requests leave it in every state another's could; the theorems
  hold for any number. Five ticks exceed the bound of `RetiredKeyExpires` (1 + 2 + 2 - 1)
  for a key retired at once, so the bound is reached.
- *Two pushes* are the least for "older" and "newer", and for the old version of a layer.
  Three faults let each job of a layer's chain fail, or a read and a listing be swallowed
  before a runner dies.
- *Three keys of a directory* in pages of two give a full page, a short one and a recursion,
  three keys in chunks of two a full chunk and a short one; the fourth key is outside. A
  disturbance before and one after a page are both orders of a change and a listing. With a
  lifetime of 4, a grace of 1 and an STS time-out of 1 a client is reused, replaced and
  expired within 6 ticks.
- *Three endpoints* leave one under way while one fails and one succeeds. Two users of a
  cache overlap in every way; a TTL of 0 is the edge, 1 is shorter and 3 longer than the
  configured 2, which a sliding read replaces it by; 4 ticks outlast all of them. Two wrong
  variables are one that fails the request and one that is caught, or one of each of two
  getters; after three requests of a container a further one meets the same instances.
- *Two executions and two users* overlap in every way; three ticks pass a retention of two
  for users deleted before and during the run.

`CHECK_DEADLOCK FALSE` stands where the modelled system really ends: a batch call returns, a
pipeline finishes, executions are used up, a call of a datasource settles.

Fairness is weak fairness of each actor's continuations, never of environment faults: the
event loop runs what is ready, and SDK calls, Lambda's updates and GitHub's runners answer or
fail within their time-outs. `Call`, `Receive`, `Invoke`, rotation, key changes and outages
are not fair. A continuation may be a failure, so fairness does not assume success. For
`GcsUpload` it also says that a stream which is read comes to an end, one way or another. No
liveness is claimed where a counterexample would need only that someone declines to call.

`deploy_layers` runs pushes that do not overlap (`Overlap = FALSE`) and change one layer each.
The code guarantees neither: GitHub starts a run per push and `cd.yml` has no concurrency
group, and a push may change both layers. With overlapping runs the older one may move the
alias last and the workflow may be ahead of its function; with both layers an update is lost
(`deploy_both_layers`). The theorems of `DeployProofs` make neither assumption and name the
events after which the properties may fail. `RetiredKeyExpires` is claimed for
`slidingExpiration = false`; with the default, `true`, a retired key lives as long as it is
used.

## 4. Proofs

The proofs hold for all values of the constants that satisfy each module's `ASSUME`
(a constant for "nobody" is not a caller, bounds are naturals, sets of keys are finite; TLC
evaluates them in every run). Each proof module has a type lemma with one step per action
and then:

- **DbClientProofs.** `SingleInvalidation` and `RetriesWithinBudget` are inductive given
  `TypeOK`. `RetryOnlyAfterDrop` is not: it needs that an idle caller holds no handle and a
  caller without a handle has executed nothing (`Unbound`), since otherwise a new call could
  begin as a retry. The conjunction, `DropInv`, is inductive. The refinement of
  `SingleFlight` maps the leader to `refreshPromise` and the waiters to the callers at
  `waiting`; the step proof needs `SingleInvalidation` to see that `Disconnected` is
  performed by the leader. `WaitersLeaveTogether` is the part of `WaitersReleased` that needs
  no fairness: nobody is left behind by the end of the invalidation he waits for.
- **BatchDeleteProofs.** One invariant, the conjunction of the properties: `ChunksInOrder`
  at the last chunk gives `ResolvedMeansAllDeleted`. The refinement of `AllOrError` follows
  from it. `StepsLeft` counts what the chunks to come and the retries of the current one
  allow; every step lowers it (`CallCountsDown`), so a call can only stop for want of an
  answer.
- **SigningKeysProofs.** `OnlyPublishedKeys` and `CacheNeverDenies` are about finished
  requests and say nothing of those under way. `VerdictInv` adds that keys waiting to be
  written and keys found were published, that a suspended request has passed its claims and
  has no outcome, and that a request that writes has looked its key up.
  For the times, `TimeInv` has three clocks: no await of a request outlasts its limit and
  each began when those before it could be over (`ClockInv`); a container that still holds a
  retired key learnt of it before it was retired (`HeldInv`); an entry of a retired key ends
  one TTL after the slowest write (`EntryInv`). `Spent` is the budget of cache time-outs that
  the keys written so far may have used. `DelayBounded` and `RetiredKeyExpires` follow.
- **DeleteUserBatchProofs.** `SuccessMeansPurged` relates the table to the start of an
  execution that may be long ago. `Established` says, for each stage of the Lambda, what is
  known of its cutoff and, once the statement was executed, that no row due at the cutoff
  is left; it stays so since a new soft deletion is later than the cutoff (lemma
  `ExpiredStaysEmpty`). `RetentionIsKept` and the refinement of `Purge` follow from the
  bound on the cutoff. `ExecutionsCountDown` ranks an execution by its state and by how far
  its Lambda has come, whether the execution still waits for it or not.
- **DeployProofs.** The pushes may overlap, change both layers and fail as they please; a
  theorem that needs an order of jobs says which, as a condition on the states so far.
  `OneVersionPerLayer` needs that what a layer job read has one version of each layer as well.
  `AliasServesNewest` and `WorkflowNotAhead` hold as long as the jobs of each function ran in
  the order of their pushes (`InTurn`): the invariant says what a function job has put into
  `$LATEST` and into its version (`Served`), and that the state machine has the workflow of a
  push whose function was delivered (`Invoked`).
  That the version served has its layer (`ServedWithLayer`, `ServedWhenFaultless`) and that a
  skip is sound hold as long as the layer and function jobs of each function went push by push
  (`ChainsInOrder`; the chains of the two functions and the two layer jobs of a push may
  overlap), no list was about to be replaced that lacks another layer which the function has
  by now (`ReadIsFresh`), and no layer job died after it published (`NoneLeftBehind`). The
  last two are the two findings: without them the properties are false, and every other
  fault, conflict and interleaving is allowed. The invariant, `ChainInv`, says what each layer
  job knows of the newest version (`LayerKnown`), what each function job has frozen
  (`FunctionKnown`), and that a function has the newest layer unless a job is about to attach
  it (`NewestAttached`).
  `SerialRunsInOrder` shows that runs which do not overlap, as `deploy_layers` has them, meet
  `InTurn` and `ChainsInOrder`. `DeliveredWhole` needs no condition: nothing that was delivered
  refers to a layer version, function version or push that does not exist, since versions are
  only appended and a function job waits for its layer job.
  `Typing` counts: there are no more versions of a layer or function than runs that
  published one (`Owned`), which bounds every number. `JobsFinish` ranks each job by the
  calls it has left.
- **ObjectStorageProofs.** A deletion under way has each target gone, refused, in a request
  in flight or, for a directory, still to be listed; `ListingComplete` needs that every target
  up to the token is listed, and that a page has every key up to its last. The chunks cover
  the keys and pages are prefixes: lemmas over ranks. The connector's invariant bounds when
  credentials were issued by when their caller waits; the upload's says which steps have
  stored what. `StorageTypes` is about the composition that TLC runs, so this module extends
  `MCObjectStorage`.
- **RemoteCallsProofs.** What a method resolves with is the same in each state of a request
  (`ResolvedIsAnswered`); the bulk deletion refines `AllOrError` since the call settles only
  with the last endpoint. `RequestsCountDown` ranks a request by its attempts left and its
  answer; the call settles exactly when the last rank is zero. For both caches, the entry is
  what was last written with a bounded expiry.
- **ContainerProofs.** `OneInstance` needs that what is still to be constructed has no
  instance yet; that no key gets two bindings (`WiringIsUnambiguous`) is inductive.
  `OnlyConfigurationFails` takes five steps. `Plan` is defined by an equation that has a
  solution only because injections go down: keys have heights, and the plan of a height is
  that of the injected keys below it. What a module and its imports provide contains what its
  classes inject, so the plan of a Lambda's root stays within it. At start-up, what these
  provide is bound or a call still to come will bind it (`Wired`). A request constructs what its plan has
  in some order and skips what earlier requests left (`Requested`); `RequestsAnswered` says so
  for any Lambda. For the two of the repository, the variables their plans read are computed
  and compared with the documentation's (`Required`). `LocalDeleteUser` shows that the endpoint
  of `delete_user_local` is the only variable that a request fails for without having been asked
  for.

`AliasNewest` and `WorkflowFollows` have the condition `InTurn`, `ServedRight` and `SkipIsSound`
the three of `Undisturbed`; `RetiredKeysLeave` is about `slidingExpiration = false`.

Only model-checked: the liveness properties `WaitersReleased`, `BatchEnds`,
`EveryRequestAnswered`, `EveryRunEnds`, `EveryExecutionEnds`, `CallsSettle` and `CallSettles`.
They rest on fairness and `ENABLED`, of which the prover knows nothing. The part that needs
neither, that nobody is left behind or that every step lowers a rank, is a theorem:
`WaitersLeaveTogether`, `CallCountsDown`, `JobsFinish`, `ExecutionsCountDown`,
`RequestsCountDown`; for the authorizer `DelayBounded` says more. For `CallsSettle` there is
none yet: `deleteDirectory` ends only if S3 does not refuse a whole page. Every safety property of a passing run is a theorem for all
values of the constants, under the conditions just named. Induction over data and recursive operators are out of the prover's
reach; the modules avoid both (loops are state machines or shrinking sets, `Plan` is a
recursive function whose equation is proved height by height).

## 5. What the models show

Six statements of the repository are not true of its code; each has a run of its own.

1. **A rotated password makes the retry loop for ever** (`db_client_rotated`). The retry runs
   the old client's closure again; each failure throws away the good new client.
2. **`getClient` can return `null`** (`db_client_null`), when another call fails or
   invalidates between `$connect` and `return this.dbClient`.
3. **Two layer jobs lose an update** (`deploy_both_layers`), and every job is green.
4. **A failed attachment is never repeated** (`deploy_retry`): the fingerprint is recorded
   before the layer is attached.
5. **Database messages reach the response** (`delete_user_messages`).
6. **A local `delete-user` needs `RDS_PROXY_ENDPOINT`** (`delete_user_local`): `dbConfig` reads
   it without a default (`L/config/app.config.ts:35`), although the local path never uses it and
   `README.md:31` and `out/simulator/env.yml:9` ask for `DATABASE_URL` instead.

Seen in the models, without a promise in the repository precise enough to hold them against:

- *Database client*: two cold `getClient` calls leave one connection pool open and
  unreferenced; a late P1000 of an old client drops a good current one; with exhausted
  retries `getClient` leaves a client that never connected in the field; a
  `DATABASE_MAX_RETRIES` that is no number means no retry.
- *Authorizer*: an outage of the cache costs one time-out per operation in a row. By default
  connecting and a request may take 15 s each (`L/config/app.config.ts:141`, `147`), so one read
  and the writes of two keys may take 45 s, although
  `.github/brain/modules/jwt-authorizer.md:39` and `app/lambda/layer/elasticache/README.md:38`
  present the cache as a fallback that does no harm. A misconfigured cache is bypassed the same
  way, with warnings only. A stale token in the cookie shadows a good bearer token, which is
  the order `document/detail-designs/lambdas/jwt-authorizer/index.md:57` gives.
- *Pipeline*: overlapping runs may move an alias back. The workflow invokes the alias `live`,
  the pipeline moves the one in `LAMBDA_ALIAS_NAME`; the model takes them for one.
- *S3*: `deleteDirectory` does not end if S3 refuses a page of keys, and keys refused are
  reported by nobody; after the first failed chunk the other ones go on deleting. The result
  of a full listing keeps `IsTruncated` and the token of its first page.
- *GCS*: an error of the source stream leaves the upload unsettled.
- *Clients*: GraphQL does not look at `FunctionError`; `sendQueryCommand` drops
  `LastEvaluatedKey`; a missing identity becomes an empty string.
- *Caches*: a TTL of 0 is for ever in memory and an error in Valkey; `GETEX` replaces the TTL
  an entry was set with; white space inside strings is lost.
- *Configuration*: `REGION` is read even where a default makes it unnecessary
  (`L/config/app.config.ts:58`); the GCS upload needs `RDS_SECRET_ARN` (85); most modules
  of the library rely on the Lambda's module to import `AppConfigModule`.

## 6. Plan

Done, in the order of the harm a mistake does: the database client, the batch delete, the
authorizer, the batch, the pipeline; then object storage, the caches, the clients of services,
injection and configuration; the proofs of all safety properties.

Left:

1. *Composition*: `DeleteUserBatch` over `DbClient` instead of its outcomes. One request per
   container leaves of the client's interleavings only the endless retry, which ends with the
   Lambda's time-out (`LambdaDies`).
2. *Pipeline*: the deletion of old versions beside running jobs of an overlapping run.
3. *Authorizer*: the sliding expiration as an abstract promise, if the repository makes one.
4. *Object storage*: a rank for the calls of the S3 datasource while S3 refuses less than a
   page, as the other components have.

### Not modelled

Utilities (strings, dates, CSV, encryption, S3 paths, Parquet files), responses and logging:
pure functions and text with unit tests, on which no order of steps depends. `s3BucketConfig`
and `cloudFront` of `AppConfig`, which nothing reads. `PrismaTransactionRunnerDatasource` and
the common user repository: callers of `getClient` like those in `DbClient`. Build scripts, the
local simulator and the project's documentation tooling. Calendar arithmetic: the retention
is counted in whole years, so the extra day after a 29 February is out of the models.
