------------------------- MODULE SigningKeysProofs -------------------------
(***************************************************************************)
(* What holds of the jwt-authorizer for every set of keys and containers   *)
(* and every time-out.                                                     *)
(***************************************************************************)
EXTENDS SigningKeys, FiniteSetTheorems, TLAPS

-----------------------------------------------------------------------------
(* Types *)

\* The container's part of the state that a request handler writes.
RequestTyped ==
  /\ pc \in [Containers -> {"idle", "read", "fetch", "jwks", "write"}]
  /\ token \in [Containers -> Tokens]
  /\ lookup \in [Containers -> {"none", "hit", "fetched", "absent", "failed"}]
  /\ toWrite \in [Containers -> SUBSET Kids]
  /\ since \in [Containers -> Times]
  /\ started \in [Containers -> Times]
  /\ outcome \in [Containers -> {"none", "allow", "deny"}]

\* Entries never outlive the last write by more than the TTL.
LEMMA EntryTyped ==
  ASSUME TypeOK, NEW k \in Kids,
         WriteEntry(k) \/ Touch(k) \/ UNCHANGED expiry
  PROVE  expiry' \in [Kids -> 0..(MaxTime + Ttl)]
<1>1. now + Ttl \in 0..(MaxTime + Ttl)
  BY ConfigAssumption DEF TypeOK, Times
<1> QED
  BY <1>1 DEF TypeOK, WriteEntry, Touch

\* Suspending and answering keep the container's types.
LEMMA StepTyped ==
  ASSUME TypeOK, NEW c \in Containers,
         \/ \E w \in {"read", "fetch", "jwks", "write"} : Await(c, w)
         \/ \E o \in {"allow", "deny"} : Answer(c, o)
  PROVE  /\ pc' \in [Containers -> {"idle", "read", "fetch", "jwks", "write"}]
         /\ since' \in [Containers -> Times]
         /\ started' \in [Containers -> Times]
         /\ outcome' \in [Containers -> {"none", "allow", "deny"}]
<1>1. 0 \in Times
  BY ConfigAssumption DEF Times
<1> QED
  BY <1>1 DEF TypeOK, Await, Answer

\* Wherever a request carries its token, and if it carries none.
LEMMA PresentedTokens == Presented \subseteq Tokens /\ NoToken \in Tokens
<1>1. NoToken \in Tokens
  <2>1. \E t \in Tokens : ~t.claims
    <3>1. PICK k : k \in Kids
      BY ConfigAssumption
    <3> DEFINE t == [kid |-> k, claims |-> FALSE, signed |-> FALSE]
    <3>2. t \in Tokens /\ ~t.claims
      BY <3>1 DEF Tokens
    <3> QED
      BY <3>2
  <2> QED
    BY <2>1 DEF NoToken
<1>2. ASSUME NEW header, HasToken(header) PROVE getHeaderValue(header).token \in Tokens
  BY <1>2 DEF HasToken, WithToken
<1> QED
  BY <1>1, <1>2 DEF Presented, getAccessTokenFromRequest

LEMMA VerifyAnswers ==
  ASSUME NEW c, NEW l, Verify(c, l)
  PROVE  \E o \in {"allow", "deny"} : Answer(c, o)
BY DEF Verify

\* Every step keeps the types.
LEMMA TypingStep == TypeOK /\ [Next]_vars => TypeOK'
<1> SUFFICES ASSUME TypeOK, [Next]_vars PROVE TypeOK'
  OBVIOUS
<1> USE DEF cognito, cache
<1>1. CASE UNCHANGED vars
  BY <1>1 DEF TypeOK, vars, request
<1>2. ASSUME NEW c \in Containers, Receive(c) PROVE TypeOK'
  <2>1. PICK t \in Tokens : token' = [token EXCEPT ![c] = t]
    BY <1>2, PresentedTokens DEF Receive
  <2>2. token' \in [Containers -> Tokens]
    BY <2>1 DEF TypeOK
  <2>3. /\ pc' \in [Containers -> {"idle", "read", "fetch", "jwks", "write"}]
        /\ since' \in [Containers -> Times]
        /\ started' \in [Containers -> Times]
        /\ outcome' \in [Containers -> {"none", "allow", "deny"}]
    BY <1>2 DEF Receive, TypeOK
  <2> QED
    BY <1>2, <2>2, <2>3 DEF Receive, TypeOK
<1>3. ASSUME NEW c \in Containers, ReadHit(c) PROVE TypeOK'
  <2>1. token[c].kid \in Kids
    BY DEF TypeOK, Tokens
  <2>2. expiry' \in [Kids -> 0..(MaxTime + Ttl)]
    BY <1>3, <2>1, EntryTyped DEF ReadHit
  <2>3. \E o \in {"allow", "deny"} : Answer(c, o)
    BY <1>3, VerifyAnswers DEF ReadHit
  <2> QED
    BY <1>3, <2>2, <2>3, StepTyped DEF ReadHit, TypeOK
<1>4. ASSUME NEW c \in Containers, ReadMiss(c) PROVE TypeOK'
  BY <1>4, StepTyped DEF ReadMiss, TypeOK
<1>5. ASSUME NEW c \in Containers, ReadFailed(c) PROVE TypeOK'
  <2>1. token[c].kid \in Kids
    BY DEF TypeOK, Tokens
  <2>2. expiry' \in [Kids -> 0..(MaxTime + Ttl)]
    BY <1>5, <2>1, EntryTyped DEF ReadFailed
  <2> QED
    BY <1>5, <2>2, StepTyped DEF ReadFailed, TypeOK
<1>6. ASSUME NEW c \in Containers, JwksServed(c) PROVE TypeOK'
  BY <1>6 DEF JwksServed, TypeOK, Published
<1>7. ASSUME NEW c \in Containers, Fetched(c) PROVE TypeOK'
  <2>1. \/ \E w \in {"read", "fetch", "jwks", "write"} : Await(c, w)
        \/ \E o \in {"allow", "deny"} : Answer(c, o)
    BY <1>7, VerifyAnswers DEF Fetched
  <2>2. lookup' \in [Containers -> {"none", "hit", "fetched", "absent", "failed"}]
    BY <1>7 DEF Fetched, TypeOK
  <2> QED
    BY <1>7, <2>1, <2>2, StepTyped DEF Fetched, TypeOK
<1>8. ASSUME NEW c \in Containers, FetchFailed(c) PROVE TypeOK'
  BY <1>8, StepTyped DEF FetchFailed, TypeOK
<1>9. ASSUME NEW c \in Containers, NEW k \in toWrite[c], AfterWrite(c, k),
             WriteEntry(k) \/ UNCHANGED expiry,
             UNCHANGED <<now, cognito, cacheUp, token, lookup>>
      PROVE  TypeOK'
  <2>1. k \in Kids
    BY DEF TypeOK
  <2>2. expiry' \in [Kids -> 0..(MaxTime + Ttl)]
    BY <1>9, <2>1, EntryTyped
  <2>3. \/ \E w \in {"read", "fetch", "jwks", "write"} : Await(c, w)
        \/ \E o \in {"allow", "deny"} : Answer(c, o)
    BY <1>9, VerifyAnswers DEF AfterWrite
  <2>4. toWrite' \in [Containers -> SUBSET Kids]
    BY <1>9 DEF AfterWrite, TypeOK
  <2> QED
    BY <1>9, <2>2, <2>3, <2>4, StepTyped DEF TypeOK
<1>10. ASSUME NEW c \in Containers, Written(c) \/ WriteFailed(c) PROVE TypeOK'
  BY <1>9, <1>10 DEF Written, WriteFailed
<1>11. ASSUME NEW k \in Kids, Publish(k) \/ Retire(k) PROVE TypeOK'
  BY <1>11 DEF Publish, Retire, TypeOK, request
<1>12. ASSUME NEW k \in Kids, Evict(k) PROVE TypeOK'
  <2>1. now \in 0..(MaxTime + Ttl)
    BY ConfigAssumption DEF TypeOK, Times
  <2> QED
    BY <1>12, <2>1 DEF Evict, TypeOK, request
<1>13. CASE CacheToggles
  BY <1>13 DEF CacheToggles, TypeOK, request
<1>14. CASE Tick
  <2>1. now' \in Times
    BY <1>14, ConfigAssumption DEF Tick, TypeOK, Times
  <2> QED
    BY <1>14, <2>1 DEF Tick, TypeOK, request
<1> QED
  BY <1>1, <1>2, <1>3, <1>4, <1>5, <1>6, <1>7, <1>8, <1>10, <1>11, <1>12,
     <1>13, <1>14 DEF Next, Continue

LEMMA TypingInit == Init => TypeOK
<1> SUFFICES ASSUME Init PROVE TypeOK
  OBVIOUS
<1>1. 0 \in Times /\ 0 \in 0..(MaxTime + Ttl)
  BY ConfigAssumption DEF Times
<1> QED
  BY <1>1, PresentedTokens DEF Init, TypeOK

\* The state of Cognito, the cache and the containers is well typed.
THEOREM Typing == Spec => []TypeOK
<1> QED
  BY TypingInit, TypingStep, PTL DEF Spec

-----------------------------------------------------------------------------
(* Keys and verdicts *)

\* Where a key comes from: every copy of one was listed by Cognito once.
KeysListed ==
  /\ \A k \in Kids : expiry[k] > 0 => keyState[k] # "unborn"
  /\ \A c \in Containers : \A k \in toWrite[c] : keyState[k] # "unborn"
  /\ \A c \in Containers :
       lookup[c] \in {"hit", "fetched"} => keyState[token[c].kid] # "unborn"

\* What a container knows of its request.
RequestInv(c) ==
  /\ pc[c] # "idle" => token[c].claims /\ outcome[c] = "none"
  /\ pc[c] = "write" => lookup[c] \in {"fetched", "absent"}
  /\ outcome[c] = "allow" => /\ token[c].claims /\ token[c].signed
                             /\ lookup[c] \in {"hit", "fetched"}
  /\ outcome[c] = "deny" /\ token[c].claims /\ token[c].signed
       => lookup[c] \in {"absent", "failed"}

VerdictInv == KeysListed /\ \A c \in Containers : RequestInv(c)

\* Verify answers in keeping with the look-up it is given.
LEMMA VerdictGiven ==
  ASSUME TypeOK, NEW c \in Containers, NEW l, Verify(c, l)
  PROVE  /\ pc' = [pc EXCEPT ![c] = "idle"]
         /\ \/ /\ outcome' = [outcome EXCEPT ![c] = "allow"]
               /\ l \in {"hit", "fetched"} /\ token[c].signed
            \/ /\ outcome' = [outcome EXCEPT ![c] = "deny"]
               /\ ~(l \in {"hit", "fetched"} /\ token[c].signed)
BY DEF Verify, Answer

\* A key that was listed stays known, whatever Cognito does.
LEMMA KeysStep == TypeOK /\ VerdictInv /\ [Next]_vars => KeysListed'
<1> SUFFICES ASSUME TypeOK, VerdictInv, [Next]_vars PROVE KeysListed'
  OBVIOUS
<1> USE DEF VerdictInv, KeysListed, TypeOK, cognito, cache
<1>0. /\ \A k \in Kids : Alive(k) => expiry[k] > 0
      /\ \A c \in Containers : token[c].kid \in Kids
  BY DEF Alive, Times, Tokens
<1>1. CASE UNCHANGED vars
  BY <1>1 DEF vars, request
<1>2. ASSUME NEW c \in Containers, Receive(c) PROVE KeysListed'
  <2>1. /\ lookup' = [lookup EXCEPT ![c] = "none"]
        /\ \A d \in Containers \ {c} : token'[d] = token[d]
        /\ UNCHANGED <<expiry, keyState, toWrite>>
    BY <1>2 DEF Receive
  <2> QED
    BY <2>1
<1>3. ASSUME NEW c \in Containers, ReadHit(c) PROVE KeysListed'
  BY <1>0, <1>3 DEF ReadHit, Touch
<1>4. ASSUME NEW c \in Containers, ReadMiss(c) PROVE KeysListed'
  BY <1>4 DEF ReadMiss
<1>5. ASSUME NEW c \in Containers, ReadFailed(c) PROVE KeysListed'
  BY <1>0, <1>5 DEF ReadFailed, Touch
<1>6. ASSUME NEW c \in Containers, JwksServed(c) PROVE KeysListed'
  BY <1>6 DEF JwksServed, Published
<1>7. ASSUME NEW c \in Containers, Fetched(c) PROVE KeysListed'
  BY <1>0, <1>7 DEF Fetched
<1>8. ASSUME NEW c \in Containers, FetchFailed(c) PROVE KeysListed'
  BY <1>8 DEF FetchFailed
<1>9. ASSUME NEW c \in Containers, Written(c) \/ WriteFailed(c)
      PROVE  KeysListed'
  BY <1>9 DEF Written, WriteFailed, AfterWrite, WriteEntry
<1>10. ASSUME NEW k \in Kids, Publish(k) \/ Retire(k) PROVE KeysListed'
  BY <1>0, <1>10 DEF Publish, Retire, request
<1>11. ASSUME NEW k \in Kids, Evict(k) PROVE KeysListed'
  BY <1>0, <1>11 DEF Evict, request
<1>12. CASE CacheToggles \/ Tick
  BY <1>12 DEF CacheToggles, Tick, request
<1> QED
  BY <1>1, <1>2, <1>3, <1>4, <1>5, <1>6, <1>7, <1>8, <1>9, <1>10, <1>11,
     <1>12 DEF Next, Continue

\* What a container knows of its request stays true, step by step.
LEMMA RequestStep ==
  TypeOK /\ VerdictInv /\ [Next]_vars
    => \A d \in Containers : RequestInv(d)'
<1> SUFFICES ASSUME TypeOK, VerdictInv, [Next]_vars, NEW d \in Containers
             PROVE  RequestInv(d)'
  OBVIOUS
<1> USE DEF VerdictInv, RequestInv, TypeOK
<1>1. CASE UNCHANGED <<pc, token, lookup, outcome>>
  BY <1>1
<1>2. ASSUME NEW c \in Containers, Receive(c) PROVE RequestInv(d)'
  <2>1. PICK t \in Tokens :
          /\ token' = [token EXCEPT ![c] = t]
          /\ \/ t.claims /\ pc' = [pc EXCEPT ![c] = "read"]
                /\ outcome' = [outcome EXCEPT ![c] = "none"]
             \/ ~t.claims /\ pc' = pc
                /\ outcome' = [outcome EXCEPT ![c] = "deny"]
    BY <1>2, PresentedTokens DEF Receive
  <2>2. pc[c] = "idle" /\ lookup' = [lookup EXCEPT ![c] = "none"]
    BY <1>2 DEF Receive
  <2>3. CASE d = c
    BY <2>1, <2>2, <2>3
  <2>4. CASE d # c
    BY <2>1, <2>2, <2>4
  <2> QED
    BY <2>3, <2>4
<1>3. ASSUME NEW c \in Containers, ReadHit(c) PROVE RequestInv(d)'
  BY <1>3, VerdictGiven DEF ReadHit
<1>4. ASSUME NEW c \in Containers, ReadMiss(c) \/ ReadFailed(c)
      PROVE  RequestInv(d)'
  BY <1>4 DEF ReadMiss, ReadFailed, Await
<1>5. ASSUME NEW c \in Containers, JwksServed(c) PROVE RequestInv(d)'
  BY <1>5 DEF JwksServed
<1>6. ASSUME NEW c \in Containers, Fetched(c) PROVE RequestInv(d)'
  <2>1. CASE toWrite[c] = {}
    BY <1>6, <2>1, VerdictGiven DEF Fetched
  <2>2. CASE toWrite[c] # {}
    BY <1>6, <2>2 DEF Fetched, Await
  <2> QED
    BY <2>1, <2>2
<1>7. ASSUME NEW c \in Containers, FetchFailed(c) PROVE RequestInv(d)'
  BY <1>7 DEF FetchFailed, Answer
<1>8. ASSUME NEW c \in Containers, Written(c) \/ WriteFailed(c)
      PROVE  RequestInv(d)'
  <2>1. /\ pc[c] = "write" /\ UNCHANGED <<token, lookup>>
        /\ Verify(c, lookup[c]) \/ Await(c, "write")
    BY <1>8 DEF Written, WriteFailed, AfterWrite
  <2>2. CASE Verify(c, lookup[c])
    BY <2>1, <2>2, VerdictGiven
  <2>3. CASE Await(c, "write")
    BY <2>1, <2>3 DEF Await
  <2> QED
    BY <2>1, <2>2, <2>3
<1>9. CASE \/ \E k \in Kids : Publish(k) \/ Retire(k) \/ Evict(k)
           \/ CacheToggles \/ Tick \/ UNCHANGED vars
  BY <1>1, <1>9 DEF Publish, Retire, Evict, CacheToggles, Tick, request, vars
<1> QED
  BY <1>2, <1>3, <1>4, <1>5, <1>6, <1>7, <1>8, <1>9 DEF Next, Continue

LEMMA VerdictInit == Init => VerdictInv
BY DEF Init, VerdictInv, KeysListed, RequestInv

LEMMA VerdictAlways == Spec => []VerdictInv
<1>1. TypeOK /\ VerdictInv /\ [Next]_vars => VerdictInv'
  BY KeysStep, RequestStep DEF VerdictInv
<1> QED
  BY <1>1, VerdictInit, Typing, PTL DEF Spec

\* No token is accepted, and no entry cached, on a key Cognito never listed.
THEOREM AllowedOnPublishedKeys == Spec => []OnlyPublishedKeys
<1>1. VerdictInv => OnlyPublishedKeys
  BY DEF VerdictInv, KeysListed, RequestInv, OnlyPublishedKeys
<1> QED
  BY <1>1, VerdictAlways, PTL

\* Whatever the cache does, a good token is denied only for want of its key
\* in the key set.
THEOREM CacheIsHarmless == Spec => []CacheNeverDenies
<1>1. VerdictInv => CacheNeverDenies
  BY DEF VerdictInv, RequestInv, CacheNeverDenies
<1> QED
  BY <1>1, VerdictAlways, PTL

-----------------------------------------------------------------------------
(* Time *)

\* What the cache may have cost once n of the listed keys are left to write.
Spent(n) == (Cardinality(Kids) - n) * CacheTimeout

\* What may have passed when the last key is written: the read not counted.
Slowest == FetchTimeout + Cardinality(Kids) * CacheTimeout

\* A write uses up one cache time-out of what the request may spend.
LEMMA SpendingOne ==
  ASSUME NEW n \in 1..Cardinality(Kids)
  PROVE  /\ Spent(n) \in Nat
         /\ Spent(n - 1) = Spent(n) + CacheTimeout
         /\ FetchTimeout + Spent(n) + CacheTimeout <= Slowest
<1> DEFINE K == Cardinality(Kids)
<1>1. K \in Nat
  BY ConfigAssumption, FS_CardinalityType
<1>2. PICK m \in Nat : m = K - n
  BY <1>1
<1>3. /\ m * CacheTimeout \in Nat
      /\ (m + 1) * CacheTimeout = m * CacheTimeout + CacheTimeout
  BY ConfigAssumption
<1>4. \A i, j \in Nat : i <= j => i * CacheTimeout <= j * CacheTimeout
  BY ConfigAssumption
<1>5. (m + 1) * CacheTimeout <= K * CacheTimeout /\ K * CacheTimeout \in Nat
  BY <1>1, <1>2, <1>4, ConfigAssumption
<1>6. Spent(n) = m * CacheTimeout /\ Spent(n - 1) = (m + 1) * CacheTimeout
  <2>1. K - n = m /\ K - (n - 1) = m + 1
    BY <1>1, <1>2
  <2> QED
    BY <2>1 DEF Spent
<1> QED
  BY <1>3, <1>5, <1>6, ConfigAssumption DEF Slowest

\* The keys left to write are counted down.
LEMMA KeysLeft ==
  ASSUME NEW S \in SUBSET Kids, S # {}
  PROVE  /\ Cardinality(S) \in 1..Cardinality(Kids)
         /\ \A k \in S : Cardinality(S \ {k}) = Cardinality(S) - 1
<1>1. IsFiniteSet(S) /\ IsFiniteSet(Kids)
  BY ConfigAssumption, FS_Subset
<1>2. /\ Cardinality(S) \in Nat /\ Cardinality(Kids) \in Nat
      /\ Cardinality(S) <= Cardinality(Kids)
  BY <1>1, FS_CardinalityType, FS_Subset
<1>3. Cardinality(S) # 0
  BY <1>1, FS_EmptySet
<1>4. \A k \in S : Cardinality(S \ {k}) = Cardinality(S) - 1
  BY <1>1, FS_RemoveElement
<1> QED
  BY <1>2, <1>3, <1>4

\* The time-outs are numbers, and so is what they add up to.
LEMMA LimitsTyped ==
  /\ \A w : Limit(w) \in Nat
  /\ Slowest \in Nat
  /\ \A S \in SUBSET Kids :
       S # {} => /\ Spent(Cardinality(S)) \in Nat
                 /\ FetchTimeout + Spent(Cardinality(S)) + CacheTimeout <= Slowest
<1>1. \A w : Limit(w) \in Nat
  BY ConfigAssumption DEF Limit
<1>2. Cardinality(Kids) \in Nat
  BY ConfigAssumption, FS_CardinalityType
<1>3. Cardinality(Kids) * CacheTimeout \in Nat
  BY <1>2, ConfigAssumption
<1>4. Slowest \in Nat
  BY <1>3, ConfigAssumption DEF Slowest
<1>5. ASSUME NEW S \in SUBSET Kids, S # {}
      PROVE  /\ Spent(Cardinality(S)) \in Nat
             /\ FetchTimeout + Spent(Cardinality(S)) + CacheTimeout <= Slowest
  BY <1>5, KeysLeft, SpendingOne
<1> QED
  BY <1>1, <1>4, <1>5

\* The clock of a request: no await outlasts its limit, and each began when
\* those before it could be over.
ClockInv(c) ==
  /\ pc[c] # "idle" => since[c] <= now /\ now <= since[c] + Limit(pc[c])
  /\ pc[c] = "read" => since[c] = started[c]
  /\ pc[c] \in {"fetch", "jwks"} => since[c] <= started[c] + CacheTimeout
  /\ pc[c] = "write" =>
       /\ toWrite[c] # {}
       /\ since[c] <= started[c] + CacheTimeout + FetchTimeout
                        + Spent(Cardinality(toWrite[c]))

\* The clock of a key: a container that still holds a retired one learnt of it
\* before it was retired.
HeldInv(c) ==
  \A k \in toWrite[c] :
    /\ pc[c] \in {"jwks", "write"}
    /\ keyState[k] = "retired" =>
         /\ pc[c] = "jwks" => since[c] <= retiredAt[k]
         /\ pc[c] = "write" => since[c] <= retiredAt[k] + FetchTimeout
                                             + Spent(Cardinality(toWrite[c]))

\* The clock of an entry.
EntryInv ==
  \A k \in Kids :
    /\ expiry[k] <= now + Ttl
    /\ ~Sliding /\ keyState[k] = "retired" => expiry[k] <= retiredAt[k] + Slowest + Ttl

TimeInv == EntryInv /\ \A c \in Containers : ClockInv(c) /\ HeldInv(c)

\* What c does is no concern of the other requests.
Others(c) ==
  \A d \in Containers \ {c} :
    /\ pc'[d] = pc[d] /\ since'[d] = since[d] /\ started'[d] = started[d]
    /\ toWrite'[d] = toWrite[d]

LEMMA OthersKeep ==
  ASSUME TypeOK, TimeInv, NEW c \in Containers, Others(c),
         UNCHANGED <<now, keyState, retiredAt>>, ClockInv(c)', HeldInv(c)'
  PROVE  \A d \in Containers : ClockInv(d)' /\ HeldInv(d)'
<1> SUFFICES ASSUME NEW d \in Containers, d # c PROVE ClockInv(d)' /\ HeldInv(d)'
  OBVIOUS
<1>1. /\ pc'[d] = pc[d] /\ since'[d] = since[d] /\ started'[d] = started[d]
      /\ toWrite'[d] = toWrite[d]
  BY DEF Others
<1>2. ClockInv(d) /\ HeldInv(d)
  BY DEF TimeInv
<1>3. ClockInv(d)'
  BY <1>1, <1>2 DEF ClockInv
<1>4. HeldInv(d)'
  BY <1>1, <1>2 DEF HeldInv
<1> QED
  BY <1>3, <1>4

\* A container with nothing to do and nothing to write has no clock.
LEMMA Idle ==
  ASSUME NEW c \in Containers, pc'[c] = "idle", toWrite'[c] = {}
  PROVE  ClockInv(c)' /\ HeldInv(c)'
BY DEF ClockInv, HeldInv

\* Answering.
LEMMA AnswerClock ==
  ASSUME TypeOK, TimeInv, NEW c \in Containers, NEW o, Answer(c, o),
         toWrite'[c] = {}, \A d \in Containers \ {c} : toWrite'[d] = toWrite[d],
         UNCHANGED <<now, keyState, retiredAt>>
  PROVE  \A d \in Containers : ClockInv(d)' /\ HeldInv(d)'
<1>1. Others(c) /\ pc'[c] = "idle"
  BY DEF Answer, Others, TypeOK
<1> QED
  BY <1>1, Idle, OthersKeep

\* The settled write of k.
LEMMA WriteClock ==
  ASSUME TypeOK, TimeInv, NEW c \in Containers, pc[c] = "write",
         NEW k \in toWrite[c], AfterWrite(c, k),
         UNCHANGED <<now, keyState, retiredAt>>
  PROVE  \A d \in Containers : ClockInv(d)' /\ HeldInv(d)'
<1>1. /\ toWrite' = [toWrite EXCEPT ![c] = @ \ {k}]
      /\ \A d \in Containers \ {c} : toWrite'[d] = toWrite[d]
      /\ toWrite'[c] = toWrite[c] \ {k}
  BY DEF AfterWrite, TypeOK
<1>2. CASE toWrite[c] = {k}
  <2>1. PICK o \in {"allow", "deny"} : Answer(c, o)
    BY <1>2, VerifyAnswers DEF AfterWrite
  <2>2. toWrite'[c] = {}
    BY <1>1, <1>2
  <2> QED
    BY <1>1, <2>1, <2>2, AnswerClock
<1>3. CASE toWrite[c] # {k}
  <2>1. Await(c, "write")
    BY <1>3 DEF AfterWrite
  <2>2. Others(c) /\ pc'[c] = "write" /\ since'[c] = now /\ started'[c] = started[c]
    BY <1>1, <2>1 DEF Await, Others, TypeOK
  <2> DEFINE n == Cardinality(toWrite[c])
  <2>3. n \in 1..Cardinality(Kids) /\ Cardinality(toWrite'[c]) = n - 1
    BY <1>1, KeysLeft DEF TypeOK
  <2>4. Spent(n - 1) = Spent(n) + CacheTimeout /\ Spent(n) \in Nat
    BY <2>3, SpendingOne
  <2>5. now <= since[c] + CacheTimeout
    BY DEF TimeInv, ClockInv, Limit
  <2>6. since[c] \in Nat /\ started[c] \in Nat /\ now \in Nat
    BY DEF TypeOK, Times
  <2>7. ClockInv(c)'
    <3>1. toWrite'[c] # {}
      BY <1>1, <1>3
    <3>2. since[c] <= started[c] + CacheTimeout + FetchTimeout + Spent(n)
      BY DEF TimeInv, ClockInv
    <3>3. now <= started[c] + CacheTimeout + FetchTimeout + Spent(n - 1)
      BY <2>4, <2>5, <2>6, <3>2, ConfigAssumption
    <3>4. now' <= since'[c] + Limit(pc'[c]) /\ since'[c] <= now'
      BY <2>2, <2>6, ConfigAssumption DEF Limit
    <3> QED
      BY <2>2, <2>3, <3>1, <3>3, <3>4 DEF ClockInv
  <2>8. HeldInv(c)'
    <3> SUFFICES ASSUME NEW j \in toWrite'[c], keyState[j] = "retired"
                 PROVE  now <= retiredAt[j] + FetchTimeout + Spent(n - 1)
      BY <2>2, <2>3 DEF HeldInv
    <3>1. j \in toWrite[c] /\ j \in Kids
      BY <1>1 DEF TypeOK
    <3>2. since[c] <= retiredAt[j] + FetchTimeout + Spent(n)
      BY <3>1 DEF TimeInv, HeldInv
    <3>3. retiredAt[j] \in Nat
      BY <3>1 DEF TypeOK, Times
    <3> QED
      BY <2>4, <2>5, <2>6, <3>2, <3>3, ConfigAssumption
  <2> QED
    BY <2>2, <2>7, <2>8, OthersKeep
<1> QED
  BY <1>2, <1>3

\* A write stores the key for the configured time, at a moment its request
\* still had.
LEMMA EntryWritten ==
  ASSUME TypeOK, TimeInv, NEW c \in Containers, pc[c] = "write",
         NEW k \in toWrite[c], WriteEntry(k) \/ UNCHANGED expiry,
         UNCHANGED <<now, keyState, retiredAt>>
  PROVE  EntryInv'
<1>1. CASE UNCHANGED expiry
  BY <1>1 DEF TimeInv, EntryInv
<1>2. CASE WriteEntry(k)
  <2> DEFINE n == Cardinality(toWrite[c])
  <2>1. toWrite[c] \in SUBSET Kids /\ toWrite[c] # {} /\ k \in Kids
    BY DEF TypeOK
  <2>2. Spent(n) \in Nat /\ FetchTimeout + Spent(n) + CacheTimeout <= Slowest
    BY <2>1, LimitsTyped
  <2>3. now <= since[c] + CacheTimeout /\ now \in Nat /\ since[c] \in Nat
        /\ retiredAt[k] \in Nat
    BY <2>1 DEF TimeInv, ClockInv, Limit, TypeOK, Times
  <2>4. keyState[k] = "retired" => since[c] <= retiredAt[k] + FetchTimeout + Spent(n)
    BY DEF TimeInv, HeldInv
  <2>5. keyState[k] = "retired" => now + Ttl <= retiredAt[k] + Slowest + Ttl
    BY <2>2, <2>3, <2>4, LimitsTyped, ConfigAssumption
  <2>6. expiry' = [expiry EXCEPT ![k] = now + Ttl]
    BY <1>2 DEF WriteEntry
  <2>7. expiry'[k] = now + Ttl /\ \A j \in Kids \ {k} : expiry'[j] = expiry[j]
    BY <2>1, <2>6 DEF TypeOK
  <2>8. now + Ttl \in Int
    BY <2>3, ConfigAssumption
  <2> QED
    BY <2>5, <2>7, <2>8 DEF TimeInv, EntryInv
<1> QED
  BY <1>1, <1>2

\* A read slides an entry no further than a write would, if at all.
LEMMA EntryTouched ==
  ASSUME TypeOK, TimeInv, NEW k \in Kids, Touch(k) \/ UNCHANGED expiry,
         UNCHANGED <<now, keyState, retiredAt>>
  PROVE  EntryInv'
<1>1. now + Ttl \in Int
  BY ConfigAssumption DEF TypeOK, Times
<1>2. CASE UNCHANGED expiry
  BY <1>2 DEF TimeInv, EntryInv
<1>3. CASE Sliding /\ expiry' = [expiry EXCEPT ![k] = now + Ttl]
  BY <1>1, <1>3 DEF TimeInv, EntryInv, TypeOK
<1> QED
  BY <1>2, <1>3 DEF Touch

\* A request begins an await.
LEMMA AwaitClock ==
  ASSUME TypeOK, TimeInv, NEW c \in Containers, pc[c] = "read",
         Await(c, "fetch"), UNCHANGED <<now, keyState, retiredAt, toWrite>>
  PROVE  \A d \in Containers : ClockInv(d)' /\ HeldInv(d)'
<1>1. /\ Others(c) /\ pc'[c] = "fetch" /\ since'[c] = now
      /\ started'[c] = started[c]
  BY DEF Await, Others, TypeOK
<1>2. toWrite'[c] = {}
  BY DEF TimeInv, HeldInv
<1>3. since[c] = started[c] /\ now <= since[c] + CacheTimeout
  BY DEF TimeInv, ClockInv, Limit
<1>4. now \in Nat /\ since[c] \in Nat /\ Limit("fetch") \in Nat
  BY LimitsTyped DEF TypeOK, Times
<1>5. ClockInv(c)'
  BY <1>1, <1>3, <1>4 DEF ClockInv
<1>6. HeldInv(c)'
  BY <1>2 DEF HeldInv
<1> QED
  BY <1>1, <1>5, <1>6, OthersKeep

\* The request of c goes on.
LEMMA ContinueClock ==
  ASSUME TypeOK, TimeInv, NEW c \in Containers, Continue(c)
  PROVE  TimeInv'
<1> USE DEF cognito, cache
<1>1. token[c].kid \in Kids
  BY DEF TypeOK, Tokens
<1>2. CASE ReadHit(c)
  <2>1. \E o \in {"allow", "deny"} : Answer(c, o)
    BY <1>2, VerifyAnswers DEF ReadHit
  <2>2. toWrite'[c] = {} /\ UNCHANGED <<now, keyState, retiredAt, toWrite>>
    BY <1>2 DEF ReadHit, TimeInv, HeldInv
  <2>3. EntryInv'
    BY <1>1, <1>2, <2>2, EntryTouched DEF ReadHit
  <2>4. \A d \in Containers : ClockInv(d)' /\ HeldInv(d)'
    BY <2>1, <2>2, AnswerClock
  <2> QED
    BY <2>3, <2>4 DEF TimeInv
<1>3. CASE ReadMiss(c) \/ ReadFailed(c)
  <2>1. /\ pc[c] = "read" /\ Await(c, "fetch")
        /\ UNCHANGED <<now, keyState, retiredAt, toWrite>>
        /\ Touch(token[c].kid) \/ UNCHANGED expiry
    BY <1>3 DEF ReadMiss, ReadFailed
  <2>2. EntryInv'
    BY <1>1, <2>1, EntryTouched
  <2>3. \A d \in Containers : ClockInv(d)' /\ HeldInv(d)'
    BY <2>1, AwaitClock
  <2> QED
    BY <2>2, <2>3 DEF TimeInv
<1>4. CASE JwksServed(c)
  <2>1. /\ pc[c] = "fetch" /\ Others(c) /\ pc'[c] = "jwks"
        /\ since'[c] = since[c] /\ started'[c] = started[c]
        /\ toWrite'[c] = Published
        /\ UNCHANGED <<now, keyState, retiredAt, expiry>>
    BY <1>4 DEF JwksServed, Others, TypeOK
  <2>2. ClockInv(c)'
    BY <2>1 DEF TimeInv, ClockInv, Limit
  <2>3. HeldInv(c)'
    BY <2>1 DEF HeldInv, Published
  <2>4. EntryInv'
    BY <2>1 DEF TimeInv, EntryInv
  <2> QED
    BY <2>1, <2>2, <2>3, <2>4, OthersKeep DEF TimeInv
<1>5. CASE Fetched(c) /\ toWrite[c] = {}
  <2>1. /\ \E o \in {"allow", "deny"} : Answer(c, o)
        /\ UNCHANGED <<now, keyState, retiredAt, toWrite, expiry>>
    BY <1>5, VerifyAnswers DEF Fetched
  <2>2. EntryInv'
    BY <2>1 DEF TimeInv, EntryInv
  <2>3. \A d \in Containers : ClockInv(d)' /\ HeldInv(d)'
    BY <1>5, <2>1, AnswerClock
  <2> QED
    BY <2>2, <2>3 DEF TimeInv
<1>6. CASE Fetched(c) /\ toWrite[c] # {}
  <2>1. /\ Await(c, "write") /\ pc[c] = "jwks"
        /\ UNCHANGED <<now, keyState, retiredAt, toWrite, expiry>>
    BY <1>6 DEF Fetched
  <2>2. /\ Others(c) /\ pc'[c] = "write" /\ since'[c] = now
        /\ started'[c] = started[c] /\ toWrite'[c] = toWrite[c]
    BY <2>1 DEF Await, Others, TypeOK
  <2>3. Spent(Cardinality(toWrite[c])) \in Nat
    BY <1>6, LimitsTyped DEF TypeOK
  <2>4. now \in Nat /\ since[c] \in Nat /\ started[c] \in Nat
    BY DEF TypeOK, Times
  <2>5. now <= since[c] + FetchTimeout /\ since[c] <= started[c] + CacheTimeout
    BY <2>1 DEF TimeInv, ClockInv, Limit
  <2>6. ClockInv(c)'
    <3>1. now <= started[c] + CacheTimeout + FetchTimeout
                   + Spent(Cardinality(toWrite[c]))
      BY <2>3, <2>4, <2>5, ConfigAssumption
    <3>2. now <= now + Limit("write")
      BY <2>4, LimitsTyped
    <3> QED
      BY <1>6, <2>1, <2>2, <2>4, <3>1, <3>2 DEF ClockInv
  <2>7. HeldInv(c)'
    <3> SUFFICES ASSUME NEW k \in toWrite[c], keyState[k] = "retired"
                 PROVE  now <= retiredAt[k] + FetchTimeout
                                 + Spent(Cardinality(toWrite[c]))
      BY <2>1, <2>2 DEF HeldInv
    <3>1. since[c] <= retiredAt[k] /\ retiredAt[k] \in Nat
      BY <2>1 DEF TimeInv, HeldInv, TypeOK, Times
    <3> QED
      BY <2>3, <2>4, <2>5, <3>1, ConfigAssumption
  <2>8. EntryInv'
    BY <2>1 DEF TimeInv, EntryInv
  <2> QED
    BY <2>1, <2>2, <2>6, <2>7, <2>8, OthersKeep DEF TimeInv
<1>7. CASE FetchFailed(c)
  <2>1. /\ Answer(c, "deny") /\ toWrite'[c] = {}
        /\ \A d \in Containers \ {c} : toWrite'[d] = toWrite[d]
        /\ UNCHANGED <<now, keyState, retiredAt, expiry>>
    BY <1>7 DEF FetchFailed, TypeOK
  <2>2. EntryInv'
    BY <2>1 DEF TimeInv, EntryInv
  <2>3. \A d \in Containers : ClockInv(d)' /\ HeldInv(d)'
    BY <2>1, AnswerClock
  <2> QED
    BY <2>2, <2>3 DEF TimeInv
<1>8. CASE Written(c) \/ WriteFailed(c)
  <2>1. PICK k \in toWrite[c] :
          /\ pc[c] = "write" /\ AfterWrite(c, k)
          /\ WriteEntry(k) \/ UNCHANGED expiry
          /\ UNCHANGED <<now, keyState, retiredAt>>
    BY <1>8 DEF Written, WriteFailed
  <2>2. EntryInv'
    BY <2>1, EntryWritten
  <2>3. \A d \in Containers : ClockInv(d)' /\ HeldInv(d)'
    BY <2>1, WriteClock
  <2> QED
    BY <2>2, <2>3 DEF TimeInv
<1> QED
  BY <1>2, <1>3, <1>4, <1>5, <1>6, <1>7, <1>8 DEF Continue

\* Cognito retires a key: what is held or cached of it now was known before.
LEMMA RetireClock ==
  ASSUME TypeOK, VerdictInv, TimeInv, NEW k \in Kids, Publish(k) \/ Retire(k)
  PROVE  TimeInv'
<1> USE DEF cache, request
<1>1. UNCHANGED <<now, expiry, pc, toWrite, since, started>>
  BY DEF Publish, Retire
<1>2. \A j \in Kids :
        keyState'[j] = "retired" =>
          \/ keyState[j] = "retired" /\ retiredAt'[j] = retiredAt[j]
          \/ retiredAt'[j] = now
  BY DEF Publish, Retire, TypeOK
<1>3. now \in Nat /\ \A c \in Containers : since[c] \in Nat
  BY DEF TypeOK, Times
<1>4. ASSUME NEW c \in Containers PROVE ClockInv(c)' /\ HeldInv(c)'
  <2>1. ClockInv(c)'
    BY <1>1 DEF TimeInv, ClockInv
  <2>2. ASSUME NEW j \in toWrite[c], keyState'[j] = "retired"
        PROVE  /\ pc[c] = "jwks" => since[c] <= retiredAt'[j]
               /\ pc[c] = "write" => since[c] <= retiredAt'[j] + FetchTimeout
                                       + Spent(Cardinality(toWrite[c]))
    <3>1. j \in Kids
      BY DEF TypeOK
    <3>2. CASE keyState[j] = "retired" /\ retiredAt'[j] = retiredAt[j]
      BY <3>2 DEF TimeInv, HeldInv
    <3>3. CASE retiredAt'[j] = now
      <4>1. pc[c] # "idle" => since[c] <= now
        BY DEF TimeInv, ClockInv
      <4>2. Spent(Cardinality(toWrite[c])) \in Nat
        BY LimitsTyped DEF TypeOK
      <4>3. now <= now + FetchTimeout + Spent(Cardinality(toWrite[c]))
        BY <1>3, <4>2, ConfigAssumption
      <4>4. pc[c] = "write" => since[c] <= now + FetchTimeout
                                 + Spent(Cardinality(toWrite[c]))
        BY <1>3, <4>1, <4>2, ConfigAssumption
      <4> QED
        BY <3>3, <4>1, <4>4
    <3> QED
      BY <1>2, <2>2, <3>1, <3>2, <3>3
  <2>3. HeldInv(c)'
    BY <1>1, <2>2 DEF TimeInv, HeldInv
  <2> QED
    BY <2>1, <2>3
<1>5. EntryInv'
  <2> SUFFICES ASSUME NEW j \in Kids, ~Sliding, keyState'[j] = "retired"
               PROVE  expiry[j] <= retiredAt'[j] + Slowest + Ttl
    BY <1>1 DEF TimeInv, EntryInv
  <2>1. expiry[j] \in Int /\ expiry[j] <= now + Ttl
    BY DEF TimeInv, EntryInv, TypeOK
  <2>2. CASE keyState[j] = "retired" /\ retiredAt'[j] = retiredAt[j]
    BY <2>2 DEF TimeInv, EntryInv
  <2>3. CASE retiredAt'[j] = now
    BY <1>3, <2>1, <2>3, LimitsTyped, ConfigAssumption
  <2> QED
    BY <1>2, <2>2, <2>3
<1> QED
  BY <1>4, <1>5 DEF TimeInv

\* Time passes no further than the awaits allow.
LEMMA TickClock ==
  ASSUME TypeOK, TimeInv, Tick
  PROVE  TimeInv'
<1>1. /\ now' = now + 1
      /\ UNCHANGED <<keyState, retiredAt, expiry, pc, toWrite, since, started>>
      /\ \A c \in Containers : pc[c] # "idle" => now < since[c] + Limit(pc[c])
  BY DEF Tick, cognito, cache, request
<1>2. now \in Nat /\ \A c \in Containers : since[c] \in Nat /\ Limit(pc[c]) \in Nat
  BY LimitsTyped DEF TypeOK, Times
<1>3. ASSUME NEW c \in Containers PROVE ClockInv(c)' /\ HeldInv(c)'
  <2>1. ClockInv(c)'
    BY <1>1, <1>2 DEF TimeInv, ClockInv
  <2>2. HeldInv(c)'
    BY <1>1 DEF TimeInv, HeldInv
  <2> QED
    BY <2>1, <2>2
<1>4. EntryInv'
  <2>1. \A k \in Kids : expiry[k] \in Int
    BY DEF TypeOK
  <2> QED
    BY <1>1, <1>2, <2>1, ConfigAssumption DEF TimeInv, EntryInv
<1> QED
  BY <1>3, <1>4 DEF TimeInv

LEMMA TimeStep == TypeOK /\ VerdictInv /\ TimeInv /\ [Next]_vars => TimeInv'
<1> SUFFICES ASSUME TypeOK, VerdictInv, TimeInv, [Next]_vars PROVE TimeInv'
  OBVIOUS
<1> USE DEF cognito, cache
<1>1. CASE UNCHANGED <<now, keyState, retiredAt, expiry, pc, toWrite, since, started>>
  BY <1>1 DEF TimeInv, EntryInv, ClockInv, HeldInv
<1>2. ASSUME NEW c \in Containers, Receive(c) PROVE TimeInv'
  <2>1. /\ pc[c] = "idle" /\ toWrite'[c] = {}
        /\ UNCHANGED <<now, keyState, retiredAt, expiry, toWrite>>
    BY <1>2 DEF Receive, TimeInv, HeldInv
  <2>2. \/ UNCHANGED <<pc, since, started>>
        \/ /\ pc' = [pc EXCEPT ![c] = "read"]
           /\ since' = [since EXCEPT ![c] = now]
           /\ started' = [started EXCEPT ![c] = now]
    BY <1>2 DEF Receive
  <2>3. CASE UNCHANGED <<pc, since, started>>
    BY <1>1, <2>1, <2>3
  <2>4. CASE /\ pc' = [pc EXCEPT ![c] = "read"]
             /\ since' = [since EXCEPT ![c] = now]
             /\ started' = [started EXCEPT ![c] = now]
    <3>1. /\ Others(c) /\ pc'[c] = "read" /\ since'[c] = now
          /\ started'[c] = now
      BY <2>1, <2>4 DEF Others, TypeOK
    <3>2. now \in Nat /\ Limit("read") \in Nat
      BY LimitsTyped DEF TypeOK, Times
    <3>3. ClockInv(c)' /\ HeldInv(c)'
      BY <2>1, <3>1, <3>2 DEF ClockInv, HeldInv
    <3>4. EntryInv'
      BY <2>1 DEF TimeInv, EntryInv
    <3> QED
      BY <2>1, <3>1, <3>3, <3>4, OthersKeep DEF TimeInv
  <2> QED
    BY <2>2, <2>3, <2>4
<1>3. ASSUME NEW k \in Kids, Evict(k) PROVE TimeInv'
  <2>1. /\ UNCHANGED <<now, keyState, retiredAt, pc, toWrite, since, started>>
        /\ expiry' = [expiry EXCEPT ![k] = now] /\ now < expiry[k]
    BY <1>3 DEF Evict, Alive, request
  <2>2. now \in Nat /\ \A j \in Kids : expiry[j] \in Nat /\ retiredAt[j] \in Nat
    BY ConfigAssumption DEF TypeOK, Times
  <2>3. \A j \in Kids : expiry'[j] <= expiry[j] /\ expiry'[j] \in Nat
    BY <2>1, <2>2 DEF TypeOK
  <2>4. EntryInv'
    BY <2>1, <2>2, <2>3, LimitsTyped, ConfigAssumption DEF TimeInv, EntryInv
  <2> QED
    BY <2>1, <2>4 DEF TimeInv, ClockInv, HeldInv
<1>4. CASE CacheToggles
  BY <1>1, <1>4 DEF CacheToggles, request
<1>5. CASE UNCHANGED vars
  BY <1>1, <1>5 DEF vars, request
<1> QED
  BY <1>2, <1>3, <1>4, <1>5, ContinueClock, RetireClock, TickClock DEF Next

LEMMA TimeInit == Init => TimeInv
<1> SUFFICES ASSUME Init PROVE TimeInv
  OBVIOUS
<1>1. EntryInv
  BY ConfigAssumption DEF Init, EntryInv
<1>2. \A c \in Containers : ClockInv(c) /\ HeldInv(c)
  BY DEF Init, ClockInv, HeldInv
<1> QED
  BY <1>1, <1>2 DEF TimeInv

LEMMA TimeAlways == Spec => []TimeInv
<1> QED
  BY TimeInit, TimeStep, Typing, VerdictAlways, PTL DEF Spec

\* However many keys there are and whatever the time-outs, an outage of the
\* cache delays an answer by one read and one write per key at most.
THEOREM DelayIsBounded == Spec => []DelayBounded
<1>1. TypeOK /\ TimeInv => DelayBounded
  <2> SUFFICES ASSUME TypeOK, TimeInv, NEW c \in Containers, pc[c] # "idle"
               PROVE  now - started[c] <= FetchTimeout
                                            + (1 + Cardinality(Kids)) * CacheTimeout
    BY DEF DelayBounded
  <2>1. now \in Nat /\ since[c] \in Nat /\ started[c] \in Nat
    BY DEF TypeOK, Times
  <2>2. now <= since[c] + Limit(pc[c])
    BY DEF TimeInv, ClockInv
  <2>3. FetchTimeout + (1 + Cardinality(Kids)) * CacheTimeout = Slowest + CacheTimeout
    <3>1. Cardinality(Kids) \in Nat
      BY ConfigAssumption, FS_CardinalityType
    <3>2. (1 + Cardinality(Kids)) * CacheTimeout
            = CacheTimeout + Cardinality(Kids) * CacheTimeout
      BY <3>1, ConfigAssumption
    <3>3. Cardinality(Kids) * CacheTimeout \in Nat
      BY <3>1, ConfigAssumption
    <3> QED
      BY <3>2, <3>3, ConfigAssumption DEF Slowest
  <2>4. FetchTimeout <= Slowest /\ Slowest \in Nat
    <3>1. Cardinality(Kids) * CacheTimeout \in Nat
      BY ConfigAssumption, FS_CardinalityType
    <3> QED
      BY <3>1, ConfigAssumption DEF Slowest
  <2>5. CASE pc[c] = "read"
    <3>1. now <= started[c] + CacheTimeout
      BY <2>2, <2>5 DEF TimeInv, ClockInv, Limit
    <3> QED
      BY <2>1, <2>3, <2>4, <3>1, ConfigAssumption
  <2>6. CASE pc[c] \in {"fetch", "jwks"}
    <3>1. now <= since[c] + FetchTimeout /\ since[c] <= started[c] + CacheTimeout
      BY <2>2, <2>6 DEF TimeInv, ClockInv, Limit
    <3> QED
      BY <2>1, <2>3, <2>4, <3>1, ConfigAssumption
  <2>7. CASE pc[c] = "write"
    <3> DEFINE spent == Spent(Cardinality(toWrite[c]))
    <3>1. /\ now <= since[c] + CacheTimeout /\ toWrite[c] # {}
          /\ since[c] <= started[c] + CacheTimeout + FetchTimeout + spent
      BY <2>2, <2>7 DEF TimeInv, ClockInv, Limit
    <3>2. spent \in Nat /\ FetchTimeout + spent + CacheTimeout <= Slowest
      BY <3>1, LimitsTyped DEF TypeOK
    <3> HIDE DEF spent
    <3> QED
      BY <2>1, <2>3, <2>4, <3>1, <3>2, ConfigAssumption
  <2> QED
    BY <2>5, <2>6, <2>7 DEF TypeOK
<1> QED
  BY <1>1, TimeAlways, Typing, PTL

\* Without sliding expiration a retired key is gone one TTL after the slowest
\* write-back, for any number of containers and keys.
THEOREM RetiredKeysLeave == Spec => [](~Sliding => RetiredKeyExpires)
<1>1. TypeOK /\ TimeInv => (~Sliding => RetiredKeyExpires)
  <2> SUFFICES ASSUME TypeOK, TimeInv, ~Sliding, NEW k \in Kids,
                      keyState[k] = "retired", now < expiry[k]
               PROVE  now < retiredAt[k] + FetchTimeout
                              + Cardinality(Kids) * CacheTimeout + Ttl
    BY DEF RetiredKeyExpires, Alive
  <2>1. expiry[k] <= retiredAt[k] + Slowest + Ttl
    BY DEF TimeInv, EntryInv
  <2>2. now \in Nat /\ expiry[k] \in Nat /\ retiredAt[k] \in Nat
    BY ConfigAssumption DEF TypeOK, Times
  <2>3. Cardinality(Kids) * CacheTimeout \in Nat
    BY ConfigAssumption, FS_CardinalityType
  <2> QED
    BY <2>1, <2>2, <2>3, ConfigAssumption DEF Slowest
<1> QED
  BY <1>1, TimeAlways, Typing, PTL
=============================================================================
