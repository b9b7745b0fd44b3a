------------------------- MODULE BatchDeleteProofs -------------------------
(***************************************************************************)
(* Proofs about BatchDelete for any number of keys, any batch size and any *)
(* retry budget.  ChunksInOrder is the heart: with it a call can only      *)
(* resolve when the last chunk is done and all earlier ones are.           *)
(***************************************************************************)
EXTENDS BatchDelete, TLAPS

LEMMA ConstantTypes == BatchSize \in Nat \ {0} /\ MaxRetries \in Nat
  BY BatchAssumption DEF BatchSize, MaxRetries

LEMMA ChunkWithin == ASSUME TypeOK, NEW i \in Nat PROVE Chunk(i) \subseteq 1..total
  BY DEF Chunk

Inv == TypeOK /\ ChunksInOrder /\ AttemptsWithinBudget /\ ResolvedMeansAllDeleted

LEMMA InitInv == Init => Inv
<1> SUFFICES ASSUME Init PROVE Inv
  OBVIOUS
<1> USE BatchAssumption, ConstantTypes DEF Init
<1>1. total \in Nat
  OBVIOUS
<1>2. TypeOK
  BY <1>1 DEF TypeOK, Chunk
<1>3. ChunksInOrder
  <2>1. CASE total = 0
    BY <2>1 DEF ChunksInOrder, Running
  <2>2. CASE total # 0
    <3>1. 1 \in Chunk(0)
      BY <1>1, <2>2 DEF Chunk
    <3> QED
      BY <3>1 DEF ChunksInOrder, Running
  <2> QED
    BY <2>1, <2>2
<1>4. AttemptsWithinBudget
  BY DEF AttemptsWithinBudget
<1>5. ResolvedMeansAllDeleted
  BY DEF ResolvedMeansAllDeleted
<1> QED
  BY <1>2, <1>3, <1>4, <1>5 DEF Inv

(* The last request of a chunk is done: either the next chunk starts or     *)
(* every key is deleted.                                                    *)
LEMMA ChunkDone ==
  ASSUME Inv, pc = "send", NextChunk, UNCHANGED total,
         deleted' = deleted \cup pending
  PROVE  Inv'
<1> USE BatchAssumption, ConstantTypes
<1>1. /\ total \in Nat /\ offset \in Nat
      /\ offset' = offset + BatchSize /\ offset' \in Nat
      /\ pc' = IF offset' < total THEN "send" ELSE "resolved"
      /\ attempt' = 0
  BY DEF Inv, TypeOK, NextChunk
<1>2. pending' = {k \in 1..total : offset' < k /\ k <= offset' + BatchSize}
  BY DEF NextChunk, Chunk
<1>3. TypeOK'
  BY <1>1, <1>2 DEF Inv, TypeOK
<1>4. (1..offset') \cap (1..total) \subseteq deleted'
  BY <1>1 DEF Inv, ChunksInOrder, Running, Chunk
<1>5. \A k \in deleted' : k <= offset'
  BY <1>1 DEF Inv, TypeOK, ChunksInOrder, Running, Chunk
<1>6. CASE offset' < total
  <2>1. offset' + 1 \in pending'
    BY <1>1, <1>2, <1>6
  <2>2. 1..offset' \subseteq deleted'
    BY <1>1, <1>4, <1>6
  <2>3. pending' = Chunk(offset)'
    BY <1>2 DEF Chunk
  <2>4. \A k \in deleted' : k <= offset' + BatchSize
    BY <1>1, <1>3, <1>5 DEF TypeOK
  <2>5. ChunksInOrder'
    BY <2>1, <2>2, <2>3, <2>4 DEF ChunksInOrder
  <2> QED
    BY <1>1, <1>3, <1>6, <2>5
       DEF Inv, AttemptsWithinBudget, ResolvedMeansAllDeleted
<1>7. CASE ~(offset' < total)
  <2>1. pc' = "resolved"
    BY <1>1, <1>7
  <2>2. deleted' = 1..total
    BY <1>1, <1>3, <1>4, <1>7 DEF TypeOK
  <2>3. ChunksInOrder'
    BY <1>1, <1>3, <1>5, <2>1 DEF ChunksInOrder, Running, TypeOK
  <2> QED
    BY <1>1, <1>3, <2>1, <2>2, <2>3
       DEF Inv, AttemptsWithinBudget, ResolvedMeansAllDeleted
<1> QED
  BY <1>6, <1>7

LEMMA StepInv == Inv /\ [Next]_vars => Inv'
<1> SUFFICES ASSUME Inv, [Next]_vars PROVE Inv'
  OBVIOUS
<1> USE BatchAssumption, ConstantTypes
<1>1. CASE SendResolved
  <2>1. PICK U \in SUBSET pending :
          /\ deleted' = deleted \cup (pending \ U)
          /\ \/ U = {} /\ NextChunk
             \/ U # {} /\ pending' = U /\ RetryOrThrow
    BY <1>1 DEF SendResolved
  <2>2. CASE U = {}
    BY <1>1, <2>1, <2>2, ChunkDone DEF SendResolved
  <2>3. CASE U # {}
    <3>1. /\ pc = "send" /\ pending' = U /\ RetryOrThrow
          /\ UNCHANGED <<total, offset, attempt>>
      BY <1>1, <2>1, <2>3 DEF SendResolved, RetryOrThrow
    <3>2. TypeOK'
      BY <2>1, <3>1 DEF Inv, TypeOK, RetryOrThrow
    <3>3. Chunk(offset)' = Chunk(offset)
      BY <3>1 DEF Chunk
    <3>4. ChunksInOrder'
      BY <2>1, <2>3, <3>1, <3>3 DEF Inv, TypeOK, ChunksInOrder, Running, Chunk
    <3>5. AttemptsWithinBudget' /\ ResolvedMeansAllDeleted'
      BY <3>1 DEF RetryOrThrow, Inv, TypeOK, AttemptsWithinBudget,
                  ResolvedMeansAllDeleted
    <3> QED
      BY <3>2, <3>4, <3>5 DEF Inv
  <2> QED
    BY <2>2, <2>3
<1>2. CASE SendRejected
  BY <1>2
     DEF SendRejected, RetryOrThrow, Inv, TypeOK, ChunksInOrder, Running,
         Chunk, AttemptsWithinBudget, ResolvedMeansAllDeleted
<1>3. CASE DelayElapsed
  BY <1>3
     DEF DelayElapsed, Inv, TypeOK, ChunksInOrder, Running, Chunk,
         AttemptsWithinBudget, ResolvedMeansAllDeleted
<1>4. CASE UNCHANGED vars
  BY <1>4
     DEF vars, Inv, TypeOK, ChunksInOrder, Running, Chunk,
         AttemptsWithinBudget, ResolvedMeansAllDeleted
<1> QED
  BY <1>1, <1>2, <1>3, <1>4 DEF Next

LEMMA InvHolds == Spec => []Inv
  BY InitInv, StepInv, PTL DEF Spec

(* Every reachable state is well typed.                                     *)
THEOREM Typing == Spec => []TypeOK
<1>1. Inv => TypeOK
  BY DEF Inv
<1> QED
  BY <1>1, InvHolds, PTL

(* A resolved batchDeleteItems has deleted every key it was given.          *)
THEOREM NoSilentLoss == Spec => []ResolvedMeansAllDeleted
<1>1. Inv => ResolvedMeansAllDeleted
  BY DEF Inv
<1> QED
  BY <1>1, InvHolds, PTL

(* Chunks are worked off in order and none is skipped.                      *)
THEOREM ChunkOrder == Spec => []ChunksInOrder
<1>1. Inv => ChunksInOrder
  BY DEF Inv
<1> QED
  BY <1>1, InvHolds, PTL

(* A chunk is sent at most MaxRetries + 1 times.                            *)
THEOREM BudgetPerChunk == Spec => []AttemptsWithinBudget
<1>1. Inv => AttemptsWithinBudget
  BY DEF Inv
<1> QED
  BY <1>1, InvHolds, PTL

-----------------------------------------------------------------------------
(* Refinement: a send is Progress, a delay is a stutter.                    *)
LEMMA PromiseStep ==
  ASSUME Inv, Inv', [Next]_vars
  PROVE  [Promise!Next]_(Promise!vars)
<1>1. CASE SendResolved \/ SendRejected
  <2>1. deleted \subseteq deleted' /\ UNCHANGED total /\ pc = "send"
    BY <1>1 DEF SendResolved, SendRejected
  <2>2. deleted' \subseteq 1..total
    BY <2>1 DEF Inv, TypeOK
  <2>3. pc' = "resolved" => deleted' = 1..total
    BY <2>1 DEF Inv, ResolvedMeansAllDeleted
  <2>4. pc' \in {"send", "delay", "resolved", "rejected"}
    BY DEF Inv, TypeOK
  <2> QED
    BY <2>1, <2>2, <2>3, <2>4
       DEF Promise!Next, Promise!Progress, Running
<1>2. CASE DelayElapsed \/ UNCHANGED vars
  BY <1>2 DEF DelayElapsed, vars, Promise!vars, Running
<1> QED
  BY <1>1, <1>2 DEF Next

(* batchDeleteItems implements the promise of a bulk deletion.              *)
THEOREM DeletesAllOrThrows == Spec => ImplementsAllOrError
<1>1. Init => Promise!Init
  <2> SUFFICES ASSUME Init PROVE Promise!Init
    OBVIOUS
  <2>1. total \in 0..MaxKeys /\ MaxKeys \in Nat
    BY BatchAssumption DEF Init
  <2>2. 1..total \subseteq 1..MaxKeys
    BY <2>1
  <2>3. (1..total = {}) <=> (total = 0)
    BY <2>1
  <2> QED
    BY <2>2, <2>3 DEF Init, Promise!Init, Running
<1> QED
  BY <1>1, PromiseStep, InvHolds, PTL
     DEF Spec, ImplementsAllOrError, Promise!Spec

-----------------------------------------------------------------------------
(* A call ends *)

\* The most steps that the retries of one chunk take: each is a send and a
\* delay, and the first send comes on top.
ChunkSteps == 2 * MaxRetries + 2

\* A bound on the steps that the call has yet to take.
StepsLeft ==
  IF Running
  THEN (total - offset - 1) * ChunkSteps
         + (2 * (MaxRetries - attempt) + IF pc = "send" THEN 1 ELSE 0)
  ELSE 0

\* A call that runs is within its keys and has retries or a send left.
LEMMA RunningWithin ==
  ASSUME Inv, Running
  PROVE  /\ offset \in Nat /\ total \in Nat /\ offset < total
         /\ attempt \in 0..MaxRetries
         /\ pc = "delay" => attempt < MaxRetries
<1>1. /\ offset \in Nat /\ total \in Nat /\ attempt \in 0..MaxRetries
      /\ pc = "delay" => attempt < MaxRetries
  BY ConstantTypes, BatchAssumption DEF Inv, TypeOK, AttemptsWithinBudget
<1>2. PICK k \in pending : k \in Chunk(offset)
  BY DEF Inv, ChunksInOrder
<1>3. offset < total
  BY <1>1, <1>2 DEF Chunk
<1> QED
  BY <1>1, <1>3

\* The steps of at least one chunk more.
LEMMA MoreChunks ==
  ASSUME NEW n \in Nat, NEW size \in Nat \ {0}, NEW w \in Nat
  PROVE  n * w \in Nat /\ (n + size) * w \in Nat /\ (n + size) * w >= n * w + w
<1>1. PICK c \in Nat : size = 1 + c
  <2>1. size - 1 \in Nat /\ size = 1 + (size - 1)
    OBVIOUS
  <2> QED
    BY <2>1
<1>2. (n + size) * w = n * w + w + c * w
  BY <1>1
<1>3. c * w \in Nat /\ n * w \in Nat
  OBVIOUS
<1> QED
  BY <1>2, <1>3

\* The bound is a number of steps.
LEMMA StepsLeftNat == ASSUME Inv PROVE StepsLeft \in Nat
<1>1. CASE ~Running
  BY <1>1 DEF StepsLeft
<1>2. CASE Running
  <2> DEFINE n == total - offset - 1
             r == 2 * (MaxRetries - attempt) + IF pc = "send" THEN 1 ELSE 0
  <2>1. n \in Nat /\ r \in Nat /\ ChunkSteps \in Nat
    BY <1>2, RunningWithin, ConstantTypes DEF ChunkSteps
  <2>2. StepsLeft = n * ChunkSteps + r
    BY <1>2 DEF StepsLeft
  <2> HIDE DEF n, r
  <2>3. n * ChunkSteps \in Nat
    BY <2>1
  <2> QED
    BY <2>1, <2>2, <2>3
<1> QED
  BY <1>1, <1>2

\* Every step leaves fewer: a retry takes one of the chunk's, and the next chunk
\* has fewer than this one had.
LEMMA StepCounts ==
  ASSUME Inv, Next
  PROVE  StepsLeft' < StepsLeft
<1> USE ConstantTypes
<1> DEFINE n == total - offset - 1
           r == 2 * (MaxRetries - attempt) + IF pc = "send" THEN 1 ELSE 0
<1>1. Inv' /\ Running /\ total' = total
  BY StepInv DEF Next, SendResolved, SendRejected, DelayElapsed, Running
<1>2. /\ offset \in Nat /\ total \in Nat /\ n \in Nat
      /\ attempt \in 0..MaxRetries /\ (pc = "delay" => attempt < MaxRetries)
      /\ ChunkSteps \in Nat /\ r \in 0..(2 * MaxRetries + 1) /\ r > 0
  BY <1>1, RunningWithin DEF ChunkSteps, Running
<1>3. StepsLeft = n * ChunkSteps + r
  BY <1>1 DEF StepsLeft
<1>4. n * ChunkSteps \in Nat
  BY <1>2
<1>5. CASE ~Running'
  <2>1. StepsLeft' = 0
    BY <1>5 DEF StepsLeft
  <2> HIDE DEF n, r
  <2> QED
    BY <1>2, <1>3, <1>4, <2>1
<1>6. CASE Running' /\ UNCHANGED offset
  <2>1. StepsLeft' = n' * ChunkSteps + r'
    BY <1>1, <1>6 DEF StepsLeft
  <2>2. n' = n
    BY <1>1, <1>6
  <2>3. r' \in Nat /\ r' < r
    <3>1. pc = "send" => pc' = "delay" /\ attempt' = attempt
      BY <1>2, <1>6 DEF Next, SendResolved, SendRejected, DelayElapsed, RetryOrThrow, NextChunk, Running
    <3>2. pc # "send" => pc' = "send" /\ attempt' = attempt + 1
      BY DEF Next, SendResolved, SendRejected, DelayElapsed
    <3> QED
      BY <1>1, <1>2, <3>1, <3>2 DEF Running
  <2>4. StepsLeft' = n * ChunkSteps + r'
    BY <2>1, <2>2
  <2>5. r \in Nat
    BY <1>2
  <2>6. \A p, a, b \in Nat : b < a => p + b < p + a
    OBVIOUS
  <2> HIDE DEF n, r
  <2> QED
    BY <1>3, <1>4, <2>3, <2>4, <2>5, <2>6, Zenon
<1>7. CASE Running' /\ offset' # offset
  <2>1. NextChunk
    BY <1>7 DEF Next, SendResolved, SendRejected, DelayElapsed, RetryOrThrow
  <2>2. /\ offset' = offset + BatchSize /\ attempt' = 0 /\ pc' = "send"
        /\ offset' \in Nat /\ offset' < total
    BY <1>1, <1>7, <2>1, <1>2 DEF NextChunk, Running
  <2>3. n' \in Nat /\ n = n' + BatchSize /\ r' = 2 * MaxRetries + 1
    BY <1>1, <1>2, <2>2
  <2>4. StepsLeft' = n' * ChunkSteps + r'
    BY <1>1, <1>7 DEF StepsLeft
  <2> HIDE DEF n, r
  <2>5. n * ChunkSteps >= n' * ChunkSteps + ChunkSteps /\ n' * ChunkSteps \in Nat
    BY <1>2, <2>3, MoreChunks
  <2> DEFINE p == n * ChunkSteps
             q == n' * ChunkSteps
  <2>6. /\ p \in Nat /\ q \in Nat /\ p >= q + ChunkSteps
        /\ StepsLeft = p + r /\ StepsLeft' = q + r'
        /\ ChunkSteps = 2 * MaxRetries + 2
    BY <1>3, <1>4, <2>4, <2>5 DEF ChunkSteps
  <2> HIDE DEF p, q
  <2> QED
    BY <1>2, <2>3, <2>6
<1> QED
  BY <1>5, <1>6, <1>7

\* The safety half of BatchEnds: however DynamoDB answers, a call takes no more
\* steps than the retries of its keys allow, for every step leaves it fewer.
THEOREM CallCountsDown == Spec => [](StepsLeft \in Nat) /\ [][StepsLeft' < StepsLeft]_vars
<1>1. Inv => StepsLeft \in Nat
  BY StepsLeftNat
<1>2. Inv /\ [Next]_vars => [StepsLeft' < StepsLeft]_vars
  BY StepCounts
<1> QED
  BY <1>1, <1>2, InvHolds, PTL DEF Spec
=============================================================================
