---------------------------- MODULE BatchDelete ----------------------------
(***************************************************************************)
(* DynamoDBDatasource.batchDeleteItems (dynamodb.datasource.impl.ts): the  *)
(* keys are cut into chunks, each chunk is one BatchWriteItem that is      *)
(* repeated, after an exponential delay, while DynamoDB throttles it or    *)
(* hands items back.  A write request is the position of its key in the    *)
(* argument; what a key is made of does not matter.                        *)
(***************************************************************************)
EXTENDS Integers

CONSTANTS
  MaxKeys,            \* bound: length of the keys argument
  BatchSizeEnv,       \* DYNAMODB_BATCH_WRITE_ITEM_SIZE, not positive if unset
  DefaultBatchSize,   \* 25, DynamoDB's own limit
  MaxRetriesEnv,      \* DYNAMODB_BATCH_DELETE_MAX_RETRIES, negative if unset
  DefaultMaxRetries   \* 5

ASSUME BatchAssumption ==
  /\ MaxKeys \in Nat
  /\ BatchSizeEnv \in Int
  /\ DefaultBatchSize \in Nat \ {0}
  /\ MaxRetriesEnv \in Int
  /\ DefaultMaxRetries \in Nat

VARIABLES
  total,    \* keys.length
  offset,   \* i: where the current chunk starts
  pending,  \* pendingRequests, as positions of the keys
  attempt,  \* failed sends of this chunk so far
  pc,       \* "send" and "delay" are awaits, the others the end of the call
  deleted   \* positions whose item DynamoDB has deleted

vars == <<total, offset, pending, attempt, pc, deleted>>

\* The configured size, capped at what DynamoDB takes.
BatchSize ==
  IF BatchSizeEnv \in 1..DefaultBatchSize THEN BatchSizeEnv ELSE DefaultBatchSize

MaxRetries == IF MaxRetriesEnv >= 0 THEN MaxRetriesEnv ELSE DefaultMaxRetries

\* The positions in keys.slice(i, i + size).
Chunk(i) == {k \in 1..total : i < k /\ k <= i + BatchSize}

TypeOK ==
  /\ total \in 0..MaxKeys
  /\ offset \in Nat
  /\ pending \in SUBSET (1..total)
  /\ attempt \in Nat
  /\ pc \in {"send", "delay", "resolved", "rejected"}
  /\ deleted \in SUBSET (1..total)

\* A call with keys in hand has run up to its first send.
Init ==
  /\ total \in 0..MaxKeys
  /\ offset = 0
  /\ pending = Chunk(0)
  /\ attempt = 0
  /\ pc = IF total = 0 THEN "resolved" ELSE "send"
  /\ deleted = {}

-----------------------------------------------------------------------------
\* Mutant: the step of the chunk loop ignores the configured size.
BugStrideDefault ==
  /\ offset' = offset + DefaultBatchSize
  /\ pending' = Chunk(offset')
  /\ attempt' = 0
  /\ pc' = IF offset' < total THEN "send" ELSE "resolved"

\* The chunk loop goes on to its next chunk, or the call resolves.
NextChunk ==
  /\ offset' = offset + BatchSize
  /\ pending' = Chunk(offset')
  /\ attempt' = 0
  /\ pc' = IF offset' < total THEN "send" ELSE "resolved"

\* Mutant: the retry budget is compared after counting the attempt.
BugOneRetryMore ==
  /\ pc' = IF attempt > MaxRetries THEN "rejected" ELSE "delay"
  /\ UNCHANGED <<offset, attempt>>

\* The send did not finish the chunk: wait and repeat, or throw.
RetryOrThrow ==
  /\ pc' = IF attempt >= MaxRetries THEN "rejected" ELSE "delay"
  /\ UNCHANGED <<offset, attempt>>

\* Mutant: the items DynamoDB handed back are taken for deleted.
BugUnprocessedDropped ==
  /\ pc = "send"
  /\ \E unprocessed \in SUBSET pending :
       /\ deleted' = deleted \cup (pending \ unprocessed)
       /\ NextChunk
  /\ UNCHANGED total

\* The BatchWriteItem resolves with the requests it did not process.
SendResolved ==
  /\ pc = "send"
  /\ \E unprocessed \in SUBSET pending :
       /\ deleted' = deleted \cup (pending \ unprocessed)
       /\ \/ /\ unprocessed = {}
             /\ NextChunk
          \/ /\ unprocessed # {}
             /\ pending' = unprocessed
             /\ RetryOrThrow
  /\ UNCHANGED total

\* It rejects, with part of it possibly executed: a throttling error is
\* retried with the same requests, any other is rethrown.
SendRejected ==
  /\ pc = "send"
  /\ \E done \in SUBSET pending : deleted' = deleted \cup done
  /\ \/ RetryOrThrow
     \/ /\ pc' = "rejected"
        /\ UNCHANGED <<offset, attempt>>
  /\ UNCHANGED <<total, pending>>

\* Mutant: the loop counts its attempts down.
BugCountsDown ==
  /\ pc = "delay"
  /\ pc' = "send"
  /\ attempt' = attempt - 1
  /\ UNCHANGED <<total, offset, pending, deleted>>

\* Mutant: the failed attempt is not counted.
BugNotCounted ==
  /\ pc = "delay"
  /\ pc' = "send"
  /\ UNCHANGED <<total, offset, pending, attempt, deleted>>

\* delayRetry is over and the attempt loop starts again.
DelayElapsed ==
  /\ pc = "delay"
  /\ pc' = "send"
  /\ attempt' = attempt + 1
  /\ UNCHANGED <<total, offset, pending, deleted>>

Next == SendResolved \/ SendRejected \/ DelayElapsed

Spec == Init /\ [][Next]_vars

\* The SDK answers every request and the timer fires.
Fairness == WF_vars(Next)

-----------------------------------------------------------------------------
(* Properties *)

Running == pc \in {"send", "delay"}

\* Chunks are finished in order and never skipped: what lies before the
\* current chunk is deleted, what lies after it is untouched, and of the
\* chunk exactly the requests still pending may be missing.
ChunksInOrder ==
  /\ Running =>
       /\ (1..offset) \cup (Chunk(offset) \ pending) \subseteq deleted
       /\ pending # {} /\ pending \subseteq Chunk(offset)
  /\ \A k \in deleted : k <= offset + BatchSize

\* A call that resolves has deleted every key it was given.
ResolvedMeansAllDeleted == pc = "resolved" => deleted = 1..total

\* Every chunk has its own budget: one send and at most MaxRetries more,
\* whatever mixture of errors and unprocessed items it meets; a call that
\* waits still has a retry left.
AttemptsWithinBudget ==
  /\ attempt <= MaxRetries
  /\ pc = "delay" => attempt < MaxRetries

\* The call ends, however long DynamoDB goes on throttling.
BatchEnds == <>(~Running)

\* The call implements the promise of a bulk deletion.
Promise == INSTANCE AllOrError
             WITH Items <- 1..MaxKeys,
                  given <- 1..total,
                  gone <- deleted,
                  status <- IF Running THEN "running" ELSE pc
ImplementsAllOrError == Promise!Spec
=============================================================================
