------------------------------ MODULE DbClient ------------------------------
(***************************************************************************)
(* PrismaDBClientDatasource (prisma-db-client.datasource.impl.ts), the     *)
(* singleton through which every repository reaches Postgres, used by      *)
(* concurrent calls of the same warm container while the database          *)
(* password is rotated.                                                    *)
(*                                                                         *)
(* A caller is one "getClient, then one query" of a repository.  The code  *)
(* between two awaits runs to completion on the event loop, so an action   *)
(* is one such stretch: it starts when the awaited promise settles and     *)
(* ends at the next await.  Where two stretches are separated only by a    *)
(* microtask in which no I/O can complete they are one action.             *)
(***************************************************************************)
EXTENDS Integers, FiniteSets

CONSTANTS
  Callers,       \* concurrent getClient-and-query calls
  Clients,       \* PrismaClient objects; an unreachable closed one is reused
  NoCaller, NoClient,
  MaxRetries,    \* dbConfig.maxRetries
  MaxRotations,  \* bound: password rotations in a behaviour
  MaxAttempts    \* bound: where the history variable attempts stops counting

ASSUME ConfigAssumption ==
  /\ NoCaller \notin Callers
  /\ NoClient \notin Clients
  /\ MaxRetries \in Nat
  /\ MaxRotations \in Nat
  /\ MaxAttempts \in Nat \ {0, 1}

VARIABLES
  dbClient,       \* this.dbClient
  retries,        \* this.retries
  refreshPromise, \* the caller whose performInvalidation it is, or NoCaller
  credential,     \* per client: version of the password in its datasourceUrl
  link,           \* per client: is its connection pool open?
  pc,             \* per caller: the await it is suspended at
  handle,         \* per caller: the client its query closure belongs to
  target,         \* per caller: the client it is connecting or disconnecting
  attempts,       \* per caller: executions of its query (history)
  result,         \* per caller: how its last call ended, "none" while one runs
  smSecret,       \* password version getSecretValue returns
  dbSecret        \* password version the database accepts

fields == <<dbClient, retries, refreshPromise>>
clients == <<credential, link>>
calls == <<pc, handle, target, attempts, result>>
secrets == <<smSecret, dbSecret>>
vars == <<fields, clients, calls, secrets>>

Versions == 0..MaxRotations
Awaits == {"idle", "init", "connect", "backoff", "query",
           "waiting", "disconnecting", "regain"}
Results == {"none", "rows", "dbError", "unavailable", "nullClient"}

TypeOK ==
  /\ dbClient \in Clients \cup {NoClient}
  /\ retries \in Nat
  /\ refreshPromise \in Callers \cup {NoCaller}
  /\ credential \in [Clients -> Versions]
  /\ link \in [Clients -> {"open", "closed"}]
  /\ pc \in [Callers -> Awaits]
  /\ handle \in [Callers -> Clients \cup {NoClient}]
  /\ target \in [Callers -> Clients \cup {NoClient}]
  /\ attempts \in [Callers -> 0..MaxAttempts]
  /\ result \in [Callers -> Results]
  /\ smSecret \in Versions
  /\ dbSecret \in Versions

Init ==
  /\ dbClient = NoClient
  /\ retries = 0
  /\ refreshPromise = NoCaller
  /\ credential = [c \in Clients |-> 0]
  /\ link = [c \in Clients |-> "closed"]
  /\ pc = [p \in Callers |-> "idle"]
  /\ handle = [p \in Callers |-> NoClient]
  /\ target = [p \in Callers |-> NoClient]
  /\ attempts = [p \in Callers |-> 0]
  /\ result = [p \in Callers |-> "none"]
  /\ smSecret = 0
  /\ dbSecret = 0

-----------------------------------------------------------------------------
(* Helpers *)

\* The database lets a new connection of client c in.
Accepted(c) == credential[c] = dbSecret

\* p is inside retryWithBackoff: its getClient serves a retry and the value
\* it returns is ignored.
Retrying(p) == handle[p] # NoClient

\* c is an object nobody refers to and no pool is open for.
Fresh(c) ==
  /\ c # dbClient
  /\ link[c] = "closed"
  /\ \A p \in Callers : c \notin {handle[p], target[p]}

\* The call of p ends with outcome r.
Finish(p, r) ==
  /\ pc' = [pc EXCEPT ![p] = "idle"]
  /\ result' = [result EXCEPT ![p] = r]
  /\ handle' = [handle EXCEPT ![p] = NoClient]
  /\ target' = [target EXCEPT ![p] = NoClient]
  /\ attempts' = [attempts EXCEPT ![p] = 0]

\* p runs its query on client c.
RunQuery(p, c) ==
  /\ pc' = [pc EXCEPT ![p] = "query"]
  /\ handle' = [handle EXCEPT ![p] = c]
  /\ target' = [target EXCEPT ![p] = NoClient]
  /\ attempts' = [attempts EXCEPT ![p] = IF @ < MaxAttempts THEN @ + 1 ELSE @]
  /\ result' = [result EXCEPT ![p] = "none"]

\* getClient resolves with the current this.dbClient.  A retry goes back to
\* its own closure; a first use dereferences what it got.
ReturnClient(p) ==
  \/ Retrying(p) /\ RunQuery(p, handle[p])
  \/ ~Retrying(p) /\ dbClient # NoClient /\ RunQuery(p, dbClient)
  \/ ~Retrying(p) /\ dbClient = NoClient /\ Finish(p, "nullClient")

\* p suspends at w.
Suspend(p, w) ==
  /\ pc' = [pc EXCEPT ![p] = w]
  /\ target' = [target EXCEPT ![p] = NoClient]
  /\ result' = [result EXCEPT ![p] = "none"]
  /\ UNCHANGED <<handle, attempts>>

\* The synchronous beginning of getClient.
EnterGetClient(p) ==
  \/ dbClient # NoClient /\ ReturnClient(p)
  \/ dbClient = NoClient /\ Suspend(p, "init")

\* Mutant: one retry too many.
BugRetryOffByOne(p) ==
  /\ \/ /\ retries <= MaxRetries
        /\ retries' = retries + 1
        /\ dbClient' = NoClient
        /\ Suspend(p, "backoff")
     \/ /\ retries > MaxRetries
        /\ Finish(p, "unavailable")
        /\ UNCHANGED <<retries, dbClient>>
  /\ UNCHANGED <<refreshPromise, clients, secrets>>

\* The catch block of getClient.
CatchConnectError(p) ==
  /\ \/ /\ retries < MaxRetries
        /\ retries' = retries + 1
        /\ dbClient' = NoClient
        /\ Suspend(p, "backoff")
     \/ /\ retries >= MaxRetries
        /\ Finish(p, "unavailable")
        /\ UNCHANGED <<retries, dbClient>>
  /\ UNCHANGED <<refreshPromise, clients, secrets>>

-----------------------------------------------------------------------------
(* getClient *)

\* A repository calls getClient.
Call(p) ==
  /\ pc[p] = "idle"
  /\ EnterGetClient(p)
  /\ UNCHANGED <<fields, clients, secrets>>

\* initPrismaClient resolves: a client built from the secret is installed,
\* whatever this.dbClient holds by now, and $connect starts.
ClientCreated(p) ==
  /\ pc[p] = "init"
  /\ \E c \in Clients :
       /\ Fresh(c)
       /\ dbClient' = c
       /\ credential' = [credential EXCEPT ![c] = smSecret]
       /\ target' = [target EXCEPT ![p] = c]
  /\ pc' = [pc EXCEPT ![p] = "connect"]
  /\ UNCHANGED <<retries, refreshPromise, link, handle, attempts, result, secrets>>

\* initPrismaClient rejects: no secret ARN, no proxy, getSecretValue failed.
CreationFailed(p) ==
  /\ pc[p] = "init"
  /\ CatchConnectError(p)

\* $connect resolves; getClient returns this.dbClient as it is now.
Connected(p) ==
  /\ pc[p] = "connect"
  /\ Accepted(target[p])
  /\ link' = [link EXCEPT ![target[p]] = "open"]
  /\ ReturnClient(p)
  /\ UNCHANGED <<fields, credential, secrets>>

\* $connect rejects: a wrong password, or the network.
ConnectFailed(p) ==
  /\ pc[p] = "connect"
  /\ CatchConnectError(p)

\* The setTimeout of the catch block fires and getClient calls itself.
BackoffElapsed(p) ==
  /\ pc[p] = "backoff"
  /\ EnterGetClient(p)
  /\ UNCHANGED <<fields, clients, secrets>>

-----------------------------------------------------------------------------
(* retryWithBackoff and invalidateClient *)

\* The query resolves: over an open pool, or over one that Prisma opens for
\* it, which a closed client with an accepted password does lazily.
QueryOk(p) ==
  /\ pc[p] = "query"
  /\ link[handle[p]] = "open" \/ Accepted(handle[p])
  /\ link' = [link EXCEPT ![handle[p]] = "open"]
  /\ Finish(p, "rows")
  /\ UNCHANGED <<fields, credential, secrets>>

\* The query rejects with anything but P1000: rethrown.
QueryFailed(p) ==
  /\ pc[p] = "query"
  /\ Finish(p, "dbError")
  /\ UNCHANGED <<fields, clients, secrets>>

\* Mutant: invalidateClient without the refreshPromise check.
BugNoLock(p) ==
  \/ /\ dbClient # NoClient
     /\ refreshPromise' = p
     /\ pc' = [pc EXCEPT ![p] = "disconnecting"]
     /\ target' = [target EXCEPT ![p] = dbClient]
     /\ UNCHANGED <<retries, handle, attempts, result>>
  \/ /\ dbClient = NoClient
     /\ retries' = 0
     /\ Suspend(p, "regain")
     /\ UNCHANGED refreshPromise

\* invalidateClient by p up to its first await.  With no client there is
\* nothing to disconnect and it completes at once.
Invalidate(p) ==
  \/ /\ refreshPromise # NoCaller
     /\ Suspend(p, "waiting")
     /\ UNCHANGED <<retries, refreshPromise>>
  \/ /\ refreshPromise = NoCaller
     /\ dbClient # NoClient
     /\ refreshPromise' = p
     /\ pc' = [pc EXCEPT ![p] = "disconnecting"]
     /\ target' = [target EXCEPT ![p] = dbClient]
     /\ UNCHANGED <<retries, handle, attempts, result>>
  \/ /\ refreshPromise = NoCaller
     /\ dbClient = NoClient
     /\ retries' = 0
     /\ Suspend(p, "regain")
     /\ UNCHANGED refreshPromise

\* The query rejects with P1000, which a new connection of a client with
\* another password than the database's always meets.
QueryAuthFailed(p) ==
  /\ pc[p] = "query"
  /\ ~Accepted(handle[p])
  /\ Invalidate(p)
  /\ UNCHANGED <<dbClient, clients, secrets>>

\* Mutants: the dropped client is kept; the counter is wound back by one.
BugClientKept ==
  /\ dbClient' = dbClient
  /\ retries' = 0
BugRetriesDecremented ==
  /\ dbClient' = NoClient
  /\ retries' = retries - 1

\* The fields after performInvalidation.
ResetFields ==
  /\ dbClient' = NoClient
  /\ retries' = 0

\* Mutant: only the leader goes on, those awaiting the promise do not.
BugWaitersForgotten(p) ==
  /\ pc[p] = "disconnecting"
  /\ \E l \in {"closed", link[target[p]]} :
       link' = [link EXCEPT ![target[p]] = l]
  /\ ResetFields
  /\ refreshPromise' = NoCaller
  /\ Suspend(p, "regain")
  /\ UNCHANGED <<credential, secrets>>

\* $disconnect settles (a failure is swallowed and may leave the pool open):
\* the fields are reset, the promise is released with everyone awaiting it.
Disconnected(p) ==
  /\ pc[p] = "disconnecting"
  /\ \E l \in {"closed", link[target[p]]} :
       link' = [link EXCEPT ![target[p]] = l]
  /\ ResetFields
  /\ refreshPromise' = NoCaller
  /\ pc' = [q \in Callers |->
              IF q = p \/ pc[q] = "waiting" THEN "regain" ELSE pc[q]]
  /\ target' = [target EXCEPT ![p] = NoClient]
  /\ UNCHANGED <<credential, handle, attempts, result, secrets>>

\* invalidateClient has returned to retryWithBackoff, which calls getClient.
Regain(p) ==
  /\ pc[p] = "regain"
  /\ EnterGetClient(p)
  /\ UNCHANGED <<fields, clients, secrets>>

-----------------------------------------------------------------------------
(* Rotation of the RDS secret.  The proxy caches the secret it checks       *)
(* against, so either side may see the new password first.                  *)

RotateDatabase ==
  /\ dbSecret < MaxRotations
  /\ dbSecret <= smSecret
  /\ dbSecret' = dbSecret + 1
  /\ UNCHANGED <<fields, clients, calls, smSecret>>

PublishSecret ==
  /\ smSecret < MaxRotations
  /\ smSecret <= dbSecret
  /\ smSecret' = smSecret + 1
  /\ UNCHANGED <<fields, clients, calls, dbSecret>>

-----------------------------------------------------------------------------
\* The continuations of p: settled promises and expired timers.
Continue(p) ==
  \/ ClientCreated(p) \/ CreationFailed(p)
  \/ Connected(p) \/ ConnectFailed(p) \/ BackoffElapsed(p)
  \/ QueryOk(p) \/ QueryFailed(p) \/ QueryAuthFailed(p)
  \/ Disconnected(p) \/ Regain(p)

Next ==
  \/ \E p \in Callers : Call(p) \/ Continue(p)
  \/ RotateDatabase \/ PublishSecret

Spec == Init /\ [][Next]_vars

\* The event loop runs every continuation that is ready, and every request
\* of a caller is answered, rejected or timed out by its SDK.
FairSpec == Spec /\ \A p \in Callers : WF_vars(Continue(p))

-----------------------------------------------------------------------------
(* Properties *)

\* The promise is a lock: it is held exactly while its owner awaits
\* $disconnect, so no two invalidations overlap, and whoever waits waits for
\* an invalidation that is really under way.
SingleInvalidation ==
  \A p \in Callers :
    /\ pc[p] = "disconnecting" <=> refreshPromise = p
    /\ pc[p] = "waiting" => refreshPromise # NoCaller

\* The counter that all callers share, and every invalidation resets, never
\* passes the configured budget.
RetriesWithinBudget == retries <= MaxRetries

\* A query that met P1000 is repeated only after the client it ran on has
\* been dropped: while it waits for, or performs, its retry the datasource
\* no longer hands that client out, whoever led the invalidation.
RetryOnlyAfterDrop ==
  \A p \in Callers :
    /\ Retrying(p)
    /\ pc[p] = "query" => attempts[p] > 1
    /\ pc[p] \notin {"waiting", "disconnecting"}
    => dbClient # handle[p]

\* getClient keeps its type, Promise<DatabaseClient>: no call receives null.
NoNullClient == \A p \in Callers : result[p] # "nullClient"

\* Whoever joins an invalidation is released.
WaitersReleased == \A p \in Callers : pc[p] = "waiting" ~> pc[p] # "waiting"

\* Every call returns or throws.
EveryCallSettles == \A p \in Callers : pc[p] # "idle" ~> pc[p] = "idle"

\* The refresh promise implements the abstract single flight.
Flight == INSTANCE SingleFlight
            WITH leader <- refreshPromise,
                 waiters <- {p \in Callers : pc[p] = "waiting"}
ImplementsSingleFlight == Flight!Spec
=============================================================================
