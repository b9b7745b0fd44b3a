---------------------------- MODULE SigningKeys ----------------------------
(***************************************************************************)
(* The jwt-authorizer: containers that verify tokens (VerifyTokenUseCase)  *)
(* with signing keys looked up (JwtSigningKeyRepo) first in a shared       *)
(* Valkey cache (ElastiCacheCacheDatasource), then in Cognito's key set,   *)
(* while Cognito publishes and retires keys and the cache comes and goes.  *)
(*                                                                         *)
(* A key is its kid.  A container handles one request at a time.  Time     *)
(* matters for expiry and for the time-outs of the cache client.           *)
(***************************************************************************)
EXTENDS Integers, FiniteSets

CONSTANTS
  Kids,           \* key ids a token header can name
  Containers,
  Sliding,        \* elastiCacheConfig.slidingExpiration
  Ttl,            \* elastiCacheConfig.ttl
  CacheTimeout,   \* longest cache operation: connecting and request time-outs
  FetchTimeout,   \* bound: the longest a JWKS request takes
  MaxTime         \* bound: length of a behaviour

ASSUME ConfigAssumption ==
  /\ Kids # {}
  /\ IsFiniteSet(Kids)
  /\ Sliding \in BOOLEAN
  /\ Ttl \in Nat \ {0}
  /\ CacheTimeout \in Nat
  /\ FetchTimeout \in Nat
  /\ MaxTime \in Nat

VARIABLES
  now,
  keyState,   \* Cognito: "unborn", "published" or "retired"
  retiredAt,  \* Cognito: when a retired key left the key set
  expiry,     \* Valkey: when the entry jwk-kid:{kid} expires
  cacheUp,    \* Valkey answers
  pc,         \* per container: the await it is suspended at
  token,      \* per container: the token of its request
  lookup,     \* per container: how getSigningKey found the key, or not
  toWrite,    \* per container: keys Cognito listed, not yet written back
  since,      \* per container: when the current await began
  started,    \* per container: when the request came
  outcome     \* per container: "none", "allow" or "deny"

cognito == <<keyState, retiredAt>>
cache == <<expiry, cacheUp>>
request == <<pc, token, lookup, toWrite, since, started, outcome>>
vars == <<now, cognito, cache, request>>

Times == 0..MaxTime
\* claims: iss, aud and token_use are right; signed: jwt.verify accepts it.
Tokens == [kid : Kids, claims : BOOLEAN, signed : BOOLEAN]

-----------------------------------------------------------------------------
(* The token of a request *)

\* What a header holds: nothing, nothing of use, or a token, in the cookie
\* ACCESS_TOKEN_NAME or after "Bearer".
Absent == [kind |-> "absent"]
Other == [kind |-> "other"]
WithToken == [kind : {"token"}, token : Tokens]
Values == {Absent, Other} \cup WithToken

\* Requests: API Gateway has the value of a header in headers or, the first of
\* them if there are several, in multiValueHeaders, or in both.
Header == [headers : Values, multiValueHeaders : Values]
Sources == [cookie : Header, authorization : Header]

\* What has no token is refused like a token with wrong claims.
NoToken == CHOOSE t \in Tokens : ~t.claims

\* However the name is spelled.
getHeaderValue(header) ==
  IF header.headers # Absent THEN header.headers ELSE header.multiValueHeaders

HasToken(header) == getHeaderValue(header) \in WithToken

\* A cookie wins over a bearer token.
getAccessTokenFromRequest(source) ==
  IF HasToken(source.cookie) THEN getHeaderValue(source.cookie).token
  ELSE IF HasToken(source.authorization) THEN getHeaderValue(source.authorization).token
  ELSE NoToken

Presented == {getAccessTokenFromRequest(source) : source \in Sources}

-----------------------------------------------------------------------------
(* State *)

Published == {k \in Kids : keyState[k] = "published"}
Alive(k) == now < expiry[k]

TypeOK ==
  /\ now \in Times
  /\ keyState \in [Kids -> {"unborn", "published", "retired"}]
  /\ retiredAt \in [Kids -> Times]
  /\ expiry \in [Kids -> 0..(MaxTime + Ttl)]
  /\ cacheUp \in BOOLEAN
  /\ pc \in [Containers -> {"idle", "read", "fetch", "jwks", "write"}]
  /\ token \in [Containers -> Tokens]
  /\ lookup \in [Containers -> {"none", "hit", "fetched", "absent", "failed"}]
  /\ toWrite \in [Containers -> SUBSET Kids]
  /\ since \in [Containers -> Times]
  /\ started \in [Containers -> Times]
  /\ outcome \in [Containers -> {"none", "allow", "deny"}]

Init ==
  /\ now = 0
  /\ keyState \in [Kids -> {"unborn", "published"}]
  /\ retiredAt = [k \in Kids |-> 0]
  /\ expiry = [k \in Kids |-> 0]
  /\ cacheUp \in BOOLEAN
  /\ pc = [c \in Containers |-> "idle"]
  /\ token = [c \in Containers |-> NoToken]
  /\ lookup = [c \in Containers |-> "none"]
  /\ toWrite = [c \in Containers |-> {}]
  /\ since = [c \in Containers |-> 0]
  /\ started = [c \in Containers |-> 0]
  /\ outcome = [c \in Containers |-> "none"]

-----------------------------------------------------------------------------
(* Helpers *)

\* c suspends at await w.
Await(c, w) ==
  /\ pc' = [pc EXCEPT ![c] = w]
  /\ since' = [since EXCEPT ![c] = now]
  /\ UNCHANGED <<outcome, started>>

\* The request of c is answered; its times no longer matter.
Answer(c, o) ==
  /\ pc' = [pc EXCEPT ![c] = "idle"]
  /\ outcome' = [outcome EXCEPT ![c] = o]
  /\ since' = [since EXCEPT ![c] = 0]
  /\ started' = [started EXCEPT ![c] = 0]

\* After getSigningKey: no key and a bad signature both deny.
Verify(c, l) ==
  Answer(c, IF l \in {"hit", "fetched"} /\ token[c].signed THEN "allow" ELSE "deny")

\* Mutant: every read slides the expiry.
BugTouch(k) == expiry' = [expiry EXCEPT ![k] = now + Ttl]

\* A read of a live entry: GETEX when expiration slides, GET otherwise.
Touch(k) == IF Sliding THEN expiry' = [expiry EXCEPT ![k] = now + Ttl]
                       ELSE UNCHANGED expiry

\* Mutant: the configured seconds are taken for a longer unit.
BugWriteEntry(k) == expiry' = [expiry EXCEPT ![k] = now + 2 * Ttl]

WriteEntry(k) == expiry' = [expiry EXCEPT ![k] = now + Ttl]

-----------------------------------------------------------------------------
(* A request *)

\* A request arrives; what its claims already rule out never reaches the cache.
Receive(c) ==
  /\ pc[c] = "idle"
  /\ \E t \in Presented :
       /\ token' = [token EXCEPT ![c] = t]
       /\ \/ t.claims
             /\ pc' = [pc EXCEPT ![c] = "read"]
             /\ outcome' = [outcome EXCEPT ![c] = "none"]
             /\ since' = [since EXCEPT ![c] = now]
             /\ started' = [started EXCEPT ![c] = now]
          \/ ~t.claims
             /\ outcome' = [outcome EXCEPT ![c] = "deny"]
             /\ UNCHANGED <<pc, since, started>>
  /\ lookup' = [lookup EXCEPT ![c] = "none"]
  /\ UNCHANGED <<now, cognito, cache, toWrite>>

\* readCache finds the key.
ReadHit(c) ==
  /\ pc[c] = "read" /\ cacheUp /\ Alive(token[c].kid)
  /\ lookup' = [lookup EXCEPT ![c] = "hit"]
  /\ Touch(token[c].kid)
  /\ Verify(c, "hit")
  /\ UNCHANGED <<now, cognito, cacheUp, token, toWrite>>

\* readCache finds nothing.
ReadMiss(c) ==
  /\ pc[c] = "read" /\ cacheUp /\ ~Alive(token[c].kid)
  /\ Await(c, "fetch")
  /\ UNCHANGED <<now, cognito, cache, token, lookup, toWrite>>

\* Mutant: readCache does not catch.
BugReadFailed(c) ==
  /\ pc[c] = "read" /\ ~cacheUp
  /\ Answer(c, "deny")
  /\ UNCHANGED <<now, cognito, cache, token, lookup, toWrite>>

\* The cache refuses, or answers too late: readCache warns and returns null.
ReadFailed(c) ==
  /\ pc[c] = "read" /\ ~cacheUp
  /\ \/ Alive(token[c].kid) /\ Touch(token[c].kid)
     \/ UNCHANGED expiry
  /\ Await(c, "fetch")
  /\ UNCHANGED <<now, cognito, cacheUp, token, lookup, toWrite>>

\* Cognito answers with the key set of this moment.
JwksServed(c) ==
  /\ pc[c] = "fetch"
  /\ pc' = [pc EXCEPT ![c] = "jwks"]
  /\ toWrite' = [toWrite EXCEPT ![c] = Published]
  /\ UNCHANGED <<now, cognito, cache, token, lookup, since, started, outcome>>

\* Mutant: the wanted key is written back whether it was listed or not.
BugFetched(c) ==
  /\ pc[c] = "jwks"
  /\ LET l == IF token[c].kid \in toWrite[c] THEN "fetched" ELSE "absent"
     IN  lookup' = [lookup EXCEPT ![c] = l]
  /\ toWrite' = [toWrite EXCEPT ![c] = @ \cup {token[c].kid}]
  /\ Await(c, "write")
  /\ UNCHANGED <<now, cognito, cache, token>>

\* The answer arrives: loadJWKS resolves and the loop over the keys begins.
Fetched(c) ==
  /\ pc[c] = "jwks"
  /\ LET l == IF token[c].kid \in toWrite[c] THEN "fetched" ELSE "absent"
     IN  /\ lookup' = [lookup EXCEPT ![c] = l]
         /\ IF toWrite[c] = {} THEN Verify(c, l) ELSE Await(c, "write")
  /\ UNCHANGED <<now, cognito, cache, token, toWrite>>

\* loadJWKS rejects, which denies the request.
FetchFailed(c) ==
  /\ pc[c] \in {"fetch", "jwks"}
  /\ lookup' = [lookup EXCEPT ![c] = "failed"]
  /\ toWrite' = [toWrite EXCEPT ![c] = {}]
  /\ Answer(c, "deny")
  /\ UNCHANGED <<now, cognito, cache, token>>

\* The write of k is settled; the loop goes on with the next fetched key, or
\* the token is verified.
AfterWrite(c, k) ==
  /\ toWrite' = [toWrite EXCEPT ![c] = @ \ {k}]
  /\ IF toWrite[c] = {k} THEN Verify(c, lookup[c]) ELSE Await(c, "write")

\* writeCache succeeds.
Written(c) ==
  /\ pc[c] = "write" /\ cacheUp
  /\ \E k \in toWrite[c] : WriteEntry(k) /\ AfterWrite(c, k)
  /\ UNCHANGED <<now, cognito, cacheUp, token, lookup>>

\* Mutant: a failed write is repeated.
BugWriteFailed(c) ==
  /\ pc[c] = "write" /\ ~cacheUp
  /\ Await(c, "write")
  /\ UNCHANGED <<now, cognito, cache, token, lookup, toWrite>>

\* The cache refuses, or answers too late: writeCache warns.
WriteFailed(c) ==
  /\ pc[c] = "write" /\ ~cacheUp
  /\ \E k \in toWrite[c] :
       /\ WriteEntry(k) \/ UNCHANGED expiry
       /\ AfterWrite(c, k)
  /\ UNCHANGED <<now, cognito, cacheUp, token, lookup>>

-----------------------------------------------------------------------------
(* Cognito, Valkey and time *)

Publish(k) ==
  /\ keyState[k] = "unborn"
  /\ keyState' = [keyState EXCEPT ![k] = "published"]
  /\ UNCHANGED <<now, retiredAt, cache, request>>

Retire(k) ==
  /\ keyState[k] = "published"
  /\ keyState' = [keyState EXCEPT ![k] = "retired"]
  /\ retiredAt' = [retiredAt EXCEPT ![k] = now]
  /\ UNCHANGED <<now, cache, request>>

CacheToggles ==
  /\ cacheUp' = ~cacheUp
  /\ UNCHANGED <<now, cognito, expiry, request>>

\* Valkey drops an entry early: memory limit, failover, flush.
Evict(k) ==
  /\ Alive(k)
  /\ expiry' = [expiry EXCEPT ![k] = now]
  /\ UNCHANGED <<now, cognito, cacheUp, request>>

\* An await is over, in one way or another, within its time-out.
Limit(w) == IF w \in {"fetch", "jwks"} THEN FetchTimeout ELSE CacheTimeout

Tick ==
  /\ now < MaxTime
  /\ \A c \in Containers : pc[c] # "idle" => now < since[c] + Limit(pc[c])
  /\ now' = now + 1
  /\ UNCHANGED <<cognito, cache, request>>

Continue(c) ==
  \/ ReadHit(c) \/ ReadMiss(c) \/ ReadFailed(c)
  \/ JwksServed(c) \/ Fetched(c) \/ FetchFailed(c)
  \/ Written(c) \/ WriteFailed(c)

Next ==
  \/ \E c \in Containers : Receive(c) \/ Continue(c)
  \/ \E k \in Kids : Publish(k) \/ Retire(k) \/ Evict(k)
  \/ CacheToggles \/ Tick

Spec == Init /\ [][Next]_vars

\* Every await of a container settles.
FairSpec == Spec /\ \A c \in Containers : WF_vars(Continue(c))

-----------------------------------------------------------------------------
(* Properties *)

\* What the cache serves, and what the key set or the cache ever allowed, is
\* a key that Cognito published: a look-up of an unknown kid leaves no trace.
OnlyPublishedKeys ==
  /\ \A k \in Kids : expiry[k] > 0 => keyState[k] # "unborn"
  /\ \A c \in Containers :
       outcome[c] = "allow" =>
         /\ token[c].claims /\ token[c].signed
         /\ keyState[token[c].kid] # "unborn"

\* A good token is denied only because Cognito did not list its key or did
\* not answer, never because of the cache.
CacheNeverDenies ==
  \A c \in Containers :
    outcome[c] = "deny" /\ token[c].claims /\ token[c].signed
      => lookup[c] \in {"absent", "failed"}

\* Without sliding expiration a retired key is served at most one TTL after
\* the slowest request that had fetched it could write it back.
RetiredKeyExpires ==
  \A k \in Kids :
    keyState[k] = "retired" /\ Alive(k)
      => now < retiredAt[k] + FetchTimeout + Cardinality(Kids) * CacheTimeout + Ttl

\* A request waits for the cache at most once to read and once per key to
\* write, so an outage delays an answer by a bounded time.
DelayBounded ==
  \A c \in Containers :
    pc[c] # "idle" =>
      now - started[c] <= FetchTimeout + (1 + Cardinality(Kids)) * CacheTimeout

\* Every request is answered.
EveryRequestAnswered == \A c \in Containers : pc[c] # "idle" ~> pc[c] = "idle"
=============================================================================
