------------------------------- MODULE Caches -------------------------------
(***************************************************************************)
(* The two implementations of ICacheDatasource, seen through one key: a    *)
(* map in the memory of a container, and a Valkey server or cluster that   *)
(* containers share through a client made at the first use.                *)
(***************************************************************************)
EXTENDS Integers

CONSTANTS
  Users,      \* concurrent users of the cache
  Values,     \* JSON values ...
  Spaced,     \* ... and those of them with white space inside a string
  Squeezed,   \* Squeezed[v]: such a value without it
  Ttls,       \* seconds that set is given
  ConfigTtl,  \* elastiCacheConfig.ttl
  LastTime    \* bound: length of a behaviour

ASSUME CachesAssumption ==
  /\ Spaced \subseteq Values
  /\ Squeezed \in [Spaced -> Values \ Spaced]
  /\ Ttls \subseteq Nat
  /\ ConfigTtl \in Nat \ {0}
  /\ LastTime \in Nat

VARIABLES
  kind,      \* "memory" or "valkey"
  sliding,   \* elastiCacheConfig.slidingExpiration
  cluster,   \* elastiCacheConfig.clusterMode: reads prefer a replica
  time,
  entry,     \* what the cache has for the key
  replica,   \* what a replica has
  client,    \* valkeyClient is set
  op,        \* per user: the operation under way
  step,      \* per user: the await it is suspended at
  got,       \* per user: the result of its get
  written,   \* history: the last set that took effect, or NoEntry
  readAt     \* history: when the value was last read, or written

config == <<kind, sliding, cluster>>
cacheVars == <<config, time, entry, replica, client, op, step, got, written, readAt>>

Null == "null"
NoEntry == [value |-> Null]
Entries == [value : Values, expiresAt : Nat]
Written == [value : Values, at : Nat, ttl : Nat]

\* get, set(v, ttl), and delete or clear, which are alike for one key.
Ops == [name : {"get", "delete"}] \cup [name : {"set"}, value : Values, ttl : Ttls]

CacheTypeOK ==
  /\ kind \in {"memory", "valkey"}
  /\ sliding \in BOOLEAN /\ cluster \in BOOLEAN
  /\ time \in 0..LastTime
  /\ entry \in Entries \cup {NoEntry}
  /\ replica \in Entries \cup {NoEntry}
  /\ client \in BOOLEAN
  /\ op \in [Users -> Ops]
  /\ step \in [Users -> {"idle", "createClient", "command"}]
  /\ got \in [Users -> Values \cup {Null}]
  /\ written \in Written \cup {NoEntry}
  /\ readAt \in 0..LastTime

CacheInit ==
  /\ kind \in {"memory", "valkey"}
  /\ sliding \in BOOLEAN /\ cluster \in BOOLEAN
  /\ kind = "memory" => ~sliding /\ ~cluster
  /\ time = 0
  /\ entry = NoEntry
  /\ replica = NoEntry
  /\ client = FALSE
  /\ op = [u \in Users |-> [name |-> "get"]]
  /\ step = [u \in Users |-> "idle"]
  /\ got = [u \in Users |-> Null]
  /\ written = NoEntry
  /\ readAt = 0

-----------------------------------------------------------------------------
(* In-memory *)

\* Mutant: an entry without a TTL is looked at as one that has expired, and
\* one with a TTL lives on.
BugExpired(e) == e.expiresAt = 0

\* expiresAt is null, here 0, or a time that has passed.
Expired(e) == e.expiresAt # 0 /\ time > e.expiresAt

\* An expired entry is removed when it is met.
memoryGet(u) ==
  LET there == entry # NoEntry /\ ~Expired(entry)
  IN  /\ entry' = IF there THEN entry ELSE NoEntry
      /\ got' = [got EXCEPT ![u] = IF there THEN entry.value ELSE Null]
      /\ UNCHANGED <<written, readAt>>

\* A TTL of 0 is as good as none: the entry stays.
memorySet(v, ttl) ==
  /\ entry' = [value |-> v, expiresAt |-> IF ttl = 0 THEN 0 ELSE time + ttl]
  /\ written' = [value |-> v, at |-> time, ttl |-> ttl]
  /\ readAt' = time
  /\ UNCHANGED got

memoryDelete ==
  entry' = NoEntry /\ written' = NoEntry /\ UNCHANGED <<got, readAt>>

\* An operation has no await: it is one step.
Memory(u) ==
  /\ kind = "memory"
  /\ \E o \in Ops :
       /\ op' = [op EXCEPT ![u] = o]
       /\ \/ o.name = "get" /\ memoryGet(u)
          \/ o.name = "set" /\ memorySet(o.value, o.ttl)
          \/ o.name = "delete" /\ memoryDelete
  /\ UNCHANGED <<config, time, replica, client, step>>

-----------------------------------------------------------------------------
(* Valkey *)

\* getClient: the client of the module, or a new one.
Begin(u) ==
  /\ kind = "valkey" /\ step[u] = "idle"
  /\ \E o \in Ops : op' = [op EXCEPT ![u] = o]
  /\ step' = [step EXCEPT ![u] = IF client THEN "command" ELSE "createClient"]
  /\ got' = [got EXCEPT ![u] = Null]
  /\ UNCHANGED <<config, time, entry, replica, client, written, readAt>>

\* createClient resolves; a client made meanwhile is replaced.
ClientCreated(u) ==
  /\ step[u] = "createClient"
  /\ client' = TRUE
  /\ step' = [step EXCEPT ![u] = "command"]
  /\ UNCHANGED <<config, time, entry, replica, op, got, written, readAt>>

\* The server knows no entry that has expired.
Alive(e) == e # NoEntry /\ time < e.expiresAt

\* minifyJSON drops all white space, also inside strings.
minifyJSON(v) == IF v \in Spaced THEN Squeezed[v] ELSE v

\* SET with EX; the server refuses a TTL of 0.
valkeySet(v, ttl) ==
  IF ttl = 0 THEN UNCHANGED <<entry, written, readAt>>
  ELSE /\ entry' = [value |-> minifyJSON(v), expiresAt |-> time + ttl]
       /\ written' = [value |-> v, at |-> time, ttl |-> ttl]
       /\ readAt' = time

\* GETEX goes to the primary and sets the TTL of the configuration, be it
\* shorter or longer than the one the value was set with.
valkeyGetex ==
  IF Alive(entry) THEN /\ entry' = [entry EXCEPT !.expiresAt = time + ConfigTtl]
                       /\ readAt' = time /\ UNCHANGED written
                  ELSE UNCHANGED <<entry, written, readAt>>

valkeyDelete == entry' = NoEntry /\ written' = NoEntry /\ UNCHANGED readAt

\* The server executes the command.
Command(o) ==
  \/ o.name = "set" /\ valkeySet(o.value, o.ttl)
  \/ o.name = "delete" /\ valkeyDelete
  \/ o.name = "get" /\ sliding /\ valkeyGetex
  \/ o.name = "get" /\ ~sliding /\ UNCHANGED <<entry, written, readAt>>

\* GET may be answered by a replica.
Read ==
  LET source == IF cluster /\ ~sliding THEN {entry, replica} ELSE {entry}
  IN  {IF Alive(e) THEN e.value ELSE Null : e \in source}

Answered(u) ==
  /\ step[u] = "command"
  /\ step' = [step EXCEPT ![u] = "idle"]
  /\ Command(op[u])
  /\ IF op[u].name = "get" THEN \E v \in Read : got' = [got EXCEPT ![u] = v]
     ELSE UNCHANGED got
  /\ UNCHANGED <<config, time, replica, client, op>>

\* The operation throws: no client, or the command timed out, executed or not.
Throws(u) ==
  /\ step[u] # "idle"
  /\ step' = [step EXCEPT ![u] = "idle"]
  /\ \/ UNCHANGED <<entry, written, readAt>>
     \/ step[u] = "command" /\ Command(op[u])
  /\ UNCHANGED <<config, time, replica, client, op, got>>

\* A replica catches up.
Replicated ==
  /\ cluster /\ replica # entry
  /\ replica' = entry
  /\ UNCHANGED <<config, time, entry, client, op, step, got, written, readAt>>

\* The server drops the entry: memory, or a flush by somebody else.
Evicted ==
  /\ kind = "valkey" /\ entry # NoEntry
  /\ entry' = NoEntry /\ written' = NoEntry
  /\ UNCHANGED <<config, time, replica, client, op, step, got, readAt>>

-----------------------------------------------------------------------------

CacheTimePasses ==
  /\ time < LastTime
  /\ time' = time + 1
  /\ UNCHANGED <<config, entry, replica, client, op, step, got, written, readAt>>

CacheNext ==
  \/ \E u \in Users :
       Memory(u) \/ Begin(u) \/ ClientCreated(u) \/ Answered(u) \/ Throws(u)
  \/ Replicated \/ Evicted \/ CacheTimePasses

CacheSpec == CacheInit /\ [][CacheNext]_cacheVars

-----------------------------------------------------------------------------

\* The value last written, as the cache keeps it.
Kept == IF kind = "memory" THEN written.value ELSE minifyJSON(written.value)

\* It may be served: its TTL has not run out, or it is read often enough; the
\* map in memory still serves it at the very end of its TTL.
Fresh ==
  \/ time < written.at + written.ttl
  \/ kind = "memory" /\ (written.ttl = 0 \/ time = written.at + written.ttl)
  \/ sliding /\ time < readAt + ConfigTtl

\* A get that finds a value finds the last one that was set and neither
\* deleted nor expired since, whoever set it and whatever overlaps; a replica
\* may lag behind, but only when the cluster is read without GETEX.
ServesLastWritten ==
  [][\A u \in Users :
       got'[u] # got[u] /\ got'[u] # Null /\ ~(cluster /\ ~sliding)
         => written # NoEntry /\ got'[u] = Kept /\ Fresh]_cacheVars
=============================================================================
