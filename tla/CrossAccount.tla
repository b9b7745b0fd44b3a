---------------------------- MODULE CrossAccount ----------------------------
(***************************************************************************)
(* AwsS3ObjectStorageConnectorDatasource: connections to buckets of other  *)
(* accounts with temporary credentials, cached per configuration until     *)
(* shortly before they expire.  Calls of one container interleave.         *)
(***************************************************************************)
EXTENDS Naturals

CONSTANTS
  Callers,
  Configs,     \* role, region and session name of a connection
  Lifetime,    \* DurationSeconds of AssumeRole
  Grace,       \* gracePeriodMs
  StsTimeout,  \* bound: the longest an AssumeRole takes
  LastTime     \* bound: length of a behaviour

ASSUME CrossAccountAssumption ==
  /\ Lifetime \in Nat /\ Grace \in Nat /\ StsTimeout \in Nat /\ LastTime \in Nat
  /\ Grace + StsTimeout < Lifetime

VARIABLES
  clock,
  cachedClients,  \* per configuration: the client and its expiration, or None
  await,          \* per caller: what it waits for, or "connected" to use it
  config,         \* per caller: the configuration it asked for
  waitingSince,   \* per caller: when it sent AssumeRole, or connected
  client          \* per caller: the client it is given

connectorVars == <<clock, cachedClients, await, config, waitingSince, client>>

\* A client is known by whose credentials it has; they expire.
Clients == [owner : Configs, expiration : Nat]
None == [expiration |-> 0]

ConnectorTypeOK ==
  /\ clock \in 0..LastTime
  /\ cachedClients \in [Configs -> Clients \cup {None}]
  /\ await \in [Callers -> {"idle", "sts", "credentials", "connected"}]
  /\ config \in [Callers -> Configs]
  /\ waitingSince \in [Callers -> 0..LastTime]
  /\ client \in [Callers -> Clients \cup {None}]

ConnectorInit ==
  /\ clock = 0
  /\ cachedClients = [g \in Configs |-> None]
  /\ await = [c \in Callers |-> "idle"]
  /\ config \in [Callers -> Configs]
  /\ waitingSince = [c \in Callers |-> 0]
  /\ client = [c \in Callers |-> None]

\* Mutant: a client is good until its credentials expire.
BugReusable(g) == clock < cachedClients[g].expiration

\* The cached client outlives the grace period.
Reusable(g) == cachedClients[g].expiration > clock + Grace

\* Whoever awaits c's connect has its client.
Connected(c, cl) ==
  /\ client' = [client EXCEPT ![c] = cl]
  /\ await' = [await EXCEPT ![c] = "connected"]
  /\ waitingSince' = [waitingSince EXCEPT ![c] = clock]

connect(c, g) ==
  /\ await[c] = "idle"
  /\ config' = [config EXCEPT ![c] = g]
  /\ \/ Reusable(g) /\ Connected(c, cachedClients[g])
     \/ /\ ~Reusable(g)
        /\ await' = [await EXCEPT ![c] = "sts"]
        /\ waitingSince' = [waitingSince EXCEPT ![c] = clock]
        /\ UNCHANGED client
  /\ UNCHANGED <<clock, cachedClients>>

\* STS issues credentials; its answer is on the way.
RoleAssumed(c) ==
  /\ await[c] = "sts"
  /\ await' = [await EXCEPT ![c] = "credentials"]
  /\ client' = [client EXCEPT
                  ![c] = [owner |-> config[c], expiration |-> clock + Lifetime]]
  /\ UNCHANGED <<clock, cachedClients, config, waitingSince>>

\* performConnect resolves; of two concurrent connects the later one's client
\* stays in the cache.
performConnect(c) ==
  /\ await[c] = "credentials"
  /\ cachedClients' = [cachedClients EXCEPT ![config[c]] = client[c]]
  /\ Connected(c, client[c])
  /\ UNCHANGED <<clock, config>>

\* AssumeRole rejects, or answers without credentials; or the connected client
\* is no longer used.
Leaves(c) ==
  /\ await[c] # "idle"
  /\ await' = [await EXCEPT ![c] = "idle"]
  /\ client' = [client EXCEPT ![c] = None]
  /\ waitingSince' = [waitingSince EXCEPT ![c] = 0]
  /\ UNCHANGED <<clock, cachedClients, config>>

TimePasses ==
  /\ clock < LastTime
  /\ \A c \in Callers :
       await[c] \in {"sts", "credentials"} => clock < waitingSince[c] + StsTimeout
  /\ clock' = clock + 1
  /\ UNCHANGED <<cachedClients, await, config, waitingSince, client>>

ConnectorNext ==
  \/ \E c \in Callers :
       \/ \E g \in Configs : connect(c, g)
       \/ RoleAssumed(c) \/ performConnect(c) \/ Leaves(c)
  \/ TimePasses

ConnectorSpec == ConnectorInit /\ [][ConnectorNext]_connectorVars

\* A client that connect returned belongs to the account asked for and its
\* credentials last at least for the grace period, whether it was cached, new,
\* or cached by a concurrent connect that began earlier and ended later.
CredentialsLast ==
  \A c \in Callers :
    await[c] = "connected" /\ clock <= waitingSince[c] + Grace
      => clock < client[c].expiration /\ client[c].owner = config[c]
=============================================================================
