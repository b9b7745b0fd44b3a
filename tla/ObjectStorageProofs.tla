------------------------ MODULE ObjectStorageProofs ------------------------
(***************************************************************************)
(* What holds of the object storage datasources for every bucket, page and *)
(* chunk size, every number of callers and every lifetime of credentials.  *)
(***************************************************************************)
EXTENDS MCObjectStorage, FiniteSetTheorems, TLAPS

-----------------------------------------------------------------------------
(* S3: pages and chunks *)

\* No key of an array is lost between its slices.
LEMMA ChunksCover == ASSUME NEW keys PROVE UNION Chunks(keys) = keys
<1> DEFINE rank(k) == Cardinality({j \in keys : j < k})
           slice(k) == {j \in keys : rank(j) \div DeleteLimit = rank(k) \div DeleteLimit}
<1>1. Chunks(keys) = {slice(k) : k \in keys}
  BY DEF Chunks
<1>2. \A k \in keys : k \in slice(k) /\ slice(k) \subseteq keys
  OBVIOUS
<1> HIDE DEF slice
<1> QED
  BY <1>1, <1>2

LEMMA ChunksTyped ==
  ASSUME NEW keys \in SUBSET Keys PROVE Chunks(keys) \subseteq SUBSET Keys
BY ChunksCover

LEMMA PageTyped == ASSUME NEW rest PROVE Page(rest) \subseteq rest
BY DEF Page

\* What a page leaves out comes after everything on it.
LEMMA PageFirst ==
  ASSUME NEW rest \in SUBSET Keys, NEW k \in rest \ Page(rest), NEW p \in Page(rest)
  PROVE  p < k
<1> DEFINE Before(x) == {j \in rest : j < x}
<1>1. rest \subseteq Nat /\ IsFiniteSet(rest)
  BY StorageAssumption, FS_Subset
<1>2. k \in Nat /\ p \in Nat /\ p \in rest
  BY <1>1, PageTyped
<1>3. IsFiniteSet(Before(k)) /\ IsFiniteSet(Before(p))
  BY <1>1, FS_Subset
<1>4. Cardinality(Before(p)) < PageSize /\ ~(Cardinality(Before(k)) < PageSize)
  BY DEF Page
<1>5. CASE k <= p
  <2>1. Before(k) \subseteq Before(p)
    <3>1. ASSUME NEW j \in rest, j < k PROVE j < p
      BY <1>1, <1>2, <1>5, <3>1
    <3> QED
      BY <3>1
  <2>2. Cardinality(Before(k)) <= Cardinality(Before(p))
    BY <1>3, <2>1, FS_Subset
  <2>3. Cardinality(Before(k)) \in Nat /\ Cardinality(Before(p)) \in Nat
    BY <1>3, FS_CardinalityType
  <2> HIDE DEF Before
  <2> QED
    BY <1>4, <2>2, <2>3, StorageAssumption DEF Before
<1> QED
  BY <1>2, <1>5

-----------------------------------------------------------------------------
(* S3: types *)

LEMMA DisturbTyped ==
  ASSUME disturbed \in 0..Disturbances, Disturb PROVE disturbed' \in 0..Disturbances
BY StorageAssumption DEF Disturb

LEMMA TypingInit == Init => TypeOK
<1> SUFFICES ASSUME Init PROVE TypeOK
  OBVIOUS
<1>1. disturbed \in 0..Disturbances /\ locked \subseteq Keys
  BY StorageAssumption DEF Init
<1> QED
  BY <1>1 DEF Init, TypeOK

\* Every step keeps the types, and a promise settles once.
LEMMA TypingStep == TypeOK /\ [Next]_vars => TypeOK'
<1> SUFFICES ASSUME TypeOK, [Next]_vars PROVE TypeOK'
  OBVIOUS
<1> USE DEF bucket, paging
<1>1. CASE UNCHANGED vars
  BY <1>1 DEF TypeOK, vars
<1>2. ASSUME NEW k \in Keys,
             \/ getFile(k) \/ getFileAsStream(k) \/ getFileAsBuffer(k)
             \/ putObject(k) \/ multipartUpload(k) \/ deleteObject(k)
      PROVE  TypeOK'
  BY <1>2 DEF TypeOK, Call, Reads, Uploads, Deletions, getFile, getFileAsStream,
     getFileAsBuffer, putObject, multipartUpload, deleteObject
<1>3. ASSUME NEW k \in Keys, Touched(k) PROVE TypeOK'
  BY <1>3, DisturbTyped DEF TypeOK, Touched
<1>4. ASSUME NEW keys \in SUBSET Keys, deleteObjects(keys) PROVE TypeOK'
  <2>1. inFlight' \subseteq SUBSET Keys
    BY <1>4, ChunksTyped DEF deleteObjects
  <2> QED
    BY <1>4, <2>1 DEF TypeOK, deleteObjects, Call, Deletions
<1>5. CASE listObjects \/ deleteDirectory
  BY <1>5, StorageAssumption DEF TypeOK, listObjects, deleteDirectory, Call, Listings, Deletions
<1>6. CASE Answered
  BY <1>6 DEF TypeOK, Answered, Settle
<1>7. CASE Listed
  <2>1. Page(Unlisted) \subseteq Keys
    BY PageTyped DEF Unlisted, TypeOK
  <2> QED
    BY <1>7, <2>1 DEF TypeOK, Listed, Collected, Settle
<1>8. CASE DirectoryListed
  <2>1. Page(Unlisted) \in SUBSET Keys
    BY PageTyped DEF Unlisted, TypeOK
  <2>2. truncated' \in BOOLEAN /\ inFlight' \subseteq SUBSET Keys
    BY <1>8, <2>1, ChunksTyped DEF TypeOK, DirectoryListed, Again
  <2> QED
    BY <1>8, <2>2 DEF TypeOK, DirectoryListed, Settle
<1>9. CASE NothingToDelete
  BY <1>9 DEF TypeOK, NothingToDelete, Deleted, Settle
<1>10. CASE RequestFails
  <2>1. disturbed' \in 0..Disturbances
    BY <1>10, DisturbTyped DEF TypeOK, RequestFails
  <2>2. objects' \subseteq Keys /\ inFlight' \subseteq SUBSET Keys
    BY <1>10 DEF TypeOK, RequestFails
  <2>3. UNCHANGED <<pc, outcome>> \/ Settle("rejected")
    BY <1>10 DEF RequestFails
  <2> QED
    BY <1>10, <2>1, <2>2, <2>3 DEF TypeOK, RequestFails, Settle
<1>11. ASSUME NEW chunk \in inFlight, ChunkAnswered(chunk) PROVE TypeOK'
  <2>1. PICK kept \in SUBSET chunk :
          /\ objects' = objects \ (chunk \ kept)
          /\ refused' = refused \cup kept
          /\ UNCHANGED disturbed \/ Disturb
    BY <1>11 DEF ChunkAnswered
  <2>2. /\ objects' \subseteq Keys /\ refused' \subseteq Keys
        /\ disturbed' \in 0..Disturbances /\ inFlight' \subseteq SUBSET Keys
    BY <1>11, <2>1, StorageAssumption DEF TypeOK, Disturb, ChunkAnswered
  <2> QED
    BY <1>11, <2>2 DEF TypeOK, ChunkAnswered, Deleted, Settle
<1> QED
  BY <1>1, <1>2, <1>3, <1>4, <1>5, <1>6, <1>7, <1>8, <1>9, <1>10, <1>11
     DEF Next, Settles

\* Type correctness of the S3 datasource.
THEOREM StorageTyping == Spec => []TypeOK
BY TypingInit, TypingStep, PTL DEF Spec

-----------------------------------------------------------------------------
(* S3: deletions and listings *)

\* Which methods wait where; only deletions have chunks in flight.
Waiting ==
  /\ pc = "idle" => method = "none"
  /\ pc = "request" => method \in Reads \cup Uploads \cup {"deleteObject"}
  /\ pc = "list" => method \in Listings \cup {"deleteDirectory"}
  /\ pc = "delete" => method \in {"deleteObjects", "deleteDirectory"}
  /\ pc \in {"idle", "request", "list"} => inFlight = {}
  /\ method \notin {"deleteObjects", "deleteDirectory"} => inFlight = {}
  /\ method \notin Listings => token = 0
  /\ targets \subseteq asked
  /\ method \in Listings \cup {"deleteDirectory"} => targets \subseteq Directory

\* On its last page a deletion has asked for all that is left of its keys.
Deleting ==
  pc = "delete" /\ ~(method = "deleteDirectory" /\ truncated)
    => targets \cap objects \subseteq refused \cup UNION inFlight

\* A listing has every key that stayed up to the token.
Listing ==
  method \in Listings =>
    /\ targets \subseteq objects
    /\ pc = "list" => \A k \in targets : k \in listed \/ k > token

StorageInv ==
  TypeOK /\ Waiting /\ Deleting /\ Listing /\ DeletedOrRefused /\ ListingComplete

LEMMA StorageInvInit == Init => StorageInv
<1> SUFFICES ASSUME Init PROVE StorageInv
  OBVIOUS
<1> QED
  BY TypingInit DEF Init, StorageInv, Waiting, Deleting, Listing, DeletedOrRefused,
     ListingComplete, Reads, Uploads, Deletions, Listings

\* What is left for a page, and what the page leaves for the next.
LEMMA Pages ==
  ASSUME TypeOK
  PROVE  /\ Page(Unlisted) \subseteq Unlisted /\ Unlisted \subseteq Keys
         /\ \A k \in Unlisted \ Page(Unlisted), p \in Page(Unlisted) : p < k
         /\ token = 0 => Unlisted = objects \cap Directory
<1>1. Unlisted \subseteq Keys
  BY DEF Unlisted, TypeOK
<1>2. \A k \in Keys : k > 0
  BY StorageAssumption
<1> QED
  BY <1>1, <1>2, PageTyped, PageFirst DEF Unlisted, TypeOK

\* The invariant of the keys of a call.
LEMMA StorageInvStep == StorageInv /\ [Next]_vars => StorageInv'
<1> SUFFICES ASSUME StorageInv, [Next]_vars PROVE StorageInv'
  OBVIOUS
<1> USE DEF bucket, paging
<1>0. TypeOK /\ TypeOK'
  BY TypingStep DEF StorageInv
<1> DEFINE KeysInv == Waiting /\ Deleting /\ Listing /\ DeletedOrRefused /\ ListingComplete
<1>i. KeysInv
  BY DEF StorageInv
<1> SUFFICES KeysInv'
  BY <1>0 DEF StorageInv
<1>1. CASE UNCHANGED vars
  <2>1. UNCHANGED <<objects, refused, method, asked, pc, outcome, targets, token, listed,
                    truncated, inFlight>>
    BY <1>1 DEF vars
  <2> QED
    BY <1>i, <2>1 DEF Waiting, Deleting, Listing, DeletedOrRefused, ListingComplete
<1>2. ASSUME NEW m \in Reads \cup Uploads \cup {"deleteObject"}, NEW k \in Keys,
             Call(m, "request", {k}), UNCHANGED inFlight
      PROVE  KeysInv'
  BY <1>i, <1>0, <1>2 DEF Call, TypeOK, Waiting, Deleting, Listing, DeletedOrRefused,
     ListingComplete, Reads, Uploads, Deletions, Listings
<1>3. ASSUME NEW m \in Listings \cup {"deleteDirectory"},
             Call(m, "list", objects \cap Directory), UNCHANGED inFlight
      PROVE  KeysInv'
  <2>1. \A k \in objects \cap Directory : k > token
    BY <1>i, <1>0, <1>3, StorageAssumption DEF TypeOK, Call, Waiting, Listings
  <2> QED
    BY <1>i, <1>0, <1>3, <2>1 DEF Call, TypeOK, Waiting, Deleting, Listing,
       DeletedOrRefused, ListingComplete, Reads, Uploads, Deletions, Listings
<1>4. ASSUME NEW keys \in SUBSET Keys, deleteObjects(keys) PROVE KeysInv'
  <2>1. UNION inFlight' = keys
    BY <1>4, ChunksCover DEF deleteObjects
  <2> QED
    BY <1>i, <1>0, <1>4, <2>1 DEF deleteObjects, Call, TypeOK, Waiting, Deleting,
       Listing, DeletedOrRefused, ListingComplete, Deletions, Listings
<1>5. ASSUME NEW k \in Keys, Touched(k) PROVE KeysInv'
  BY <1>i, <1>5 DEF Touched, Waiting, Deleting, Listing, DeletedOrRefused, ListingComplete
<1>6. CASE Answered
  <2>1. /\ pc' = "settled" /\ method \in Reads \cup Uploads \cup {"deleteObject"}
        /\ UNCHANGED <<refused, method, asked, targets, token, inFlight>>
    BY <1>i, <1>6 DEF Answered, Settle, Waiting
  <2>2. method \in Deletions /\ outcome' = "resolved" => asked \cap objects' = {}
    BY <1>6, <2>1 DEF Answered, Settle, Reads, Uploads, Deletions
  <2>3. Waiting' /\ Deleting' /\ Listing' /\ ListingComplete'
    BY <1>i, <2>1 DEF Waiting, Deleting, Listing, ListingComplete, Reads, Uploads, Listings
  <2>4. DeletedOrRefused'
    BY <1>i, <2>1, <2>2 DEF Waiting, DeletedOrRefused
  <2> QED
    BY <2>3, <2>4
<1>7. CASE Listed
  <2> DEFINE page == Page(Unlisted)
  <2>1. /\ page \subseteq Unlisted
        /\ \A k \in Unlisted \ page, p \in page : p < k
    BY <1>0, Pages
  <2>2. /\ pc = "list" /\ method \in Listings /\ listed' = listed \cup page
        /\ UNCHANGED <<objects, refused, method, asked, targets, truncated, inFlight>>
        /\ \/ /\ pc' = "list" /\ outcome' = outcome
              /\ token' \in page /\ method = "listAllObjects"
           \/ /\ pc' = "settled" /\ outcome' = "resolved" /\ token' = token
              /\ method = "listAllObjects" => page = Unlisted
    BY <1>7 DEF Listed, Collected, Settle
  <2>3. \A k \in targets : k \in listed \/ k \in Unlisted
    BY <1>i, <2>2 DEF Listing, Waiting, Unlisted
  <2> HIDE DEF page
  <2>4. \A k \in targets : k \in listed' \/ (k \in Unlisted \ page)
    BY <2>2, <2>3
  <2>5. ASSUME pc' = "list" PROVE \A k \in targets : k \in listed' \/ k > token'
    <3>1. token' \in page
      BY <2>2, <2>5
    <3>2. \A k \in Unlisted \ page : token' < k
      BY <3>1, <2>1
    <3>3. \A k \in Unlisted : k \in Nat
      BY <1>0, StorageAssumption DEF Unlisted, TypeOK
    <3>4. token' \in Nat
      BY <3>1, <2>1, <3>3
    <3> QED
      BY <2>4, <3>2, <3>3, <3>4
  <2>6. Waiting' /\ Deleting' /\ DeletedOrRefused'
    BY <1>i, <2>2 DEF Waiting, Deleting, DeletedOrRefused, Listings, Deletions, Reads, Uploads
  <2>7. Listing'
    BY <1>i, <2>2, <2>5 DEF Listing
  <2>8. ListingComplete'
    BY <1>0, <2>2, <2>4 DEF ListingComplete, TypeOK
  <2> QED
    BY <2>6, <2>7, <2>8
<1>8. CASE DirectoryListed
  <2>1. Unlisted = objects \cap Directory
    BY <1>i, <1>0, <1>8, Pages DEF DirectoryListed, Waiting, Listings
  <2>2. CASE Unlisted = {}
    <3>1. /\ pc' = "settled" /\ method = "deleteDirectory"
          /\ UNCHANGED <<objects, refused, method, asked, targets, token, inFlight>>
      BY <1>8, <2>2 DEF DirectoryListed, Settle
    <3>2. targets \cap objects = {}
      BY <1>i, <2>1, <2>2, <3>1 DEF Waiting
    <3> QED
      BY <1>i, <3>1, <3>2 DEF Waiting, Deleting, Listing, DeletedOrRefused,
         ListingComplete, Reads, Uploads, Deletions, Listings
  <2>3. CASE Unlisted # {}
    <3>1. UNION inFlight' = Page(Unlisted) /\ (truncated' <=> Unlisted # Page(Unlisted))
      BY <1>8, <2>3, ChunksCover DEF DirectoryListed, Again
    <3>2. ~truncated' => targets \cap objects \subseteq UNION inFlight'
      BY <1>i, <1>8, <2>1, <3>1 DEF DirectoryListed, Waiting
    <3>3. /\ pc' = "delete" /\ method = "deleteDirectory" /\ pc # "settled"
          /\ UNCHANGED <<objects, refused, method, asked, targets, token, outcome>>
      BY <1>8, <2>3 DEF DirectoryListed
    <3>4. Waiting' /\ Listing' /\ ListingComplete'
      BY <1>i, <3>3 DEF Waiting, Listing, ListingComplete, Listings
    <3>5. Deleting'
      BY <3>2, <3>3 DEF Deleting
    <3>6. DeletedOrRefused'
      BY <1>0, <3>3 DEF DeletedOrRefused, TypeOK
    <3> QED
      BY <3>4, <3>5, <3>6
  <2> QED
    BY <2>2, <2>3
<1>9. CASE NothingToDelete
  <2>1. /\ pc = "delete" /\ inFlight = {} /\ Deleted
        /\ UNCHANGED <<objects, refused, method, asked, targets, token, truncated, inFlight>>
    BY <1>9 DEF NothingToDelete
  <2>2. method \in {"deleteObjects", "deleteDirectory"}
    BY <1>i, <2>1 DEF Waiting
  <2>3. Waiting' /\ Listing' /\ ListingComplete'
    BY <1>i, <2>1, <2>2 DEF Deleted, Settle, Waiting, Listing, ListingComplete, Listings
  <2>4. Deleting' /\ DeletedOrRefused'
    BY <1>0, <1>i, <2>1 DEF Deleted, Settle, Deleting, DeletedOrRefused, TypeOK
  <2> QED
    BY <2>3, <2>4
<1>10. CASE RequestFails
  <2>1. UNCHANGED <<refused, method, asked, targets, token, listed, truncated>>
    BY <1>10 DEF RequestFails
  <2>2. CASE pc \in {"request", "list"}
    <3>1. pc' = "settled" /\ outcome' = "rejected" /\ inFlight' \subseteq inFlight
      BY <1>i, <1>10, <2>2 DEF RequestFails, Settle, Waiting
    <3>2. method \in Listings => objects' = objects
      BY <1>i, <1>10, <2>2 DEF RequestFails, Settle, Waiting, Listings, Reads, Uploads
    <3> QED
      BY <1>i, <2>1, <3>1, <3>2 DEF Waiting, Deleting, Listing, DeletedOrRefused,
         ListingComplete
  <2>3. CASE pc \notin {"request", "list"}
    <3>1. PICK chunk \in inFlight :
            /\ IF pc = "delete" THEN Settle("rejected") ELSE UNCHANGED <<pc, outcome>>
            /\ inFlight' = inFlight \ {chunk}
            /\ UNCHANGED objects \/ objects' = objects \ (chunk \ locked)
      BY <1>10, <2>3 DEF RequestFails
    <3>2. method \in {"deleteObjects", "deleteDirectory"}
      BY <1>i DEF Waiting
    <3>3. objects' \subseteq objects /\ inFlight' \subseteq inFlight
      BY <3>1
    <3>4. \/ pc' = "settled" /\ outcome' = "rejected"
          \/ pc # "delete" /\ UNCHANGED <<pc, outcome>>
      BY <3>1 DEF Settle
    <3>5. Waiting' /\ Listing' /\ ListingComplete'
      BY <1>i, <2>1, <3>2, <3>4 DEF Waiting, Listing, ListingComplete, Listings
    <3>6. Deleting' /\ DeletedOrRefused'
      BY <1>i, <2>1, <3>3, <3>4 DEF Deleting, DeletedOrRefused
    <3> QED
      BY <3>5, <3>6
  <2> QED
    BY <2>2, <2>3
<1>11. ASSUME NEW chunk \in inFlight, ChunkAnswered(chunk) PROVE KeysInv'
  <2>1. PICK kept \in SUBSET chunk :
          objects' = objects \ (chunk \ kept) /\ refused' = refused \cup kept
    BY <1>11 DEF ChunkAnswered
  <2>2. /\ inFlight' = inFlight \ {chunk}
        /\ UNCHANGED <<method, asked, targets, token, listed, truncated>>
        /\ \/ /\ pc = "delete" /\ inFlight' = {} /\ Deleted
           \/ ~(pc = "delete" /\ inFlight' = {}) /\ UNCHANGED <<pc, outcome>>
    BY <1>11 DEF ChunkAnswered
  <2>3. method \in {"deleteObjects", "deleteDirectory"}
    BY <1>i DEF Waiting
  <2>4. Waiting'
    BY <1>i, <2>2, <2>3 DEF Waiting, Deleted, Settle, Listings
  <2>5. ASSUME targets \cap objects \subseteq refused \cup UNION inFlight
        PROVE  targets' \cap objects' \subseteq refused' \cup UNION inFlight'
    BY <2>1, <2>2, <2>5
  <2>6. ASSUME targets \cap objects \subseteq refused
        PROVE  targets' \cap objects' \subseteq refused'
    BY <2>1, <2>2, <2>6
  <2>7. ASSUME pc = "delete" /\ inFlight' = {} /\ Deleted PROVE Deleting' /\ DeletedOrRefused'
    <3>1. \/ method = "deleteDirectory" /\ truncated /\ pc' = "list" /\ outcome' = outcome
          \/ ~(method = "deleteDirectory" /\ truncated) /\ pc' = "settled"
      BY <2>7 DEF Deleted, Settle
    <3>2. CASE method = "deleteDirectory" /\ truncated /\ pc' = "list" /\ outcome' = outcome
      BY <1>0, <2>7, <3>2 DEF Deleting, DeletedOrRefused, TypeOK
    <3>3. CASE ~(method = "deleteDirectory" /\ truncated) /\ pc' = "settled"
      <4>1. targets' \cap objects' \subseteq refused' \cup UNION inFlight'
        BY <1>i, <2>5, <2>7, <3>3 DEF Deleting
      <4>2. targets' \cap objects' \subseteq refused'
        BY <4>1, <2>7
      <4> QED
        BY <3>3, <4>2 DEF Deleting, DeletedOrRefused
    <3> QED
      BY <3>1, <3>2, <3>3
  <2>8. ASSUME UNCHANGED <<pc, outcome>> PROVE Deleting' /\ DeletedOrRefused'
    <3>1. Deleting'
      BY <1>i, <2>2, <2>5, <2>8 DEF Deleting
    <3>2. DeletedOrRefused'
      BY <1>i, <2>2, <2>6, <2>8 DEF DeletedOrRefused
    <3> QED
      BY <3>1, <3>2
  <2>9. Listing' /\ ListingComplete'
    BY <2>2, <2>3 DEF Listing, ListingComplete, Listings
  <2>10. Deleting' /\ DeletedOrRefused'
    BY <2>2, <2>7, <2>8
  <2> QED
    BY <2>4, <2>9, <2>10
<1>12. ASSUME NEW k \in Keys,
              \/ getFile(k) \/ getFileAsStream(k) \/ getFileAsBuffer(k)
              \/ putObject(k) \/ multipartUpload(k) \/ deleteObject(k)
       PROVE  KeysInv'
  <2> HIDE DEF KeysInv
  <2> QED
    BY <1>2, <1>12 DEF getFile, getFileAsStream, getFileAsBuffer, putObject,
       multipartUpload, deleteObject, Reads, Uploads
<1>13. CASE listObjects \/ deleteDirectory
  BY <1>3, <1>13 DEF listObjects, deleteDirectory
<1> HIDE DEF KeysInv
<1> QED
  BY <1>1, <1>4, <1>5, <1>6, <1>7, <1>8, <1>9, <1>10, <1>11, <1>12, <1>13
     DEF Next, Settles

\* A deletion that resolves has deleted what it could, over all its pages,
\* recursions and chunks.
THEOREM DeletionsComplete == Spec => []DeletedOrRefused
<1>1. StorageInv => DeletedOrRefused
  BY DEF StorageInv
<1> QED
  BY <1>1, StorageInvInit, StorageInvStep, PTL DEF Spec

\* A complete listing has all objects that were there all along.
THEOREM ListingsComplete == Spec => []ListingComplete
<1>1. StorageInv => ListingComplete
  BY DEF StorageInv
<1> QED
  BY <1>1, StorageInvInit, StorageInvStep, PTL DEF Spec

-----------------------------------------------------------------------------
(* Credentials of other accounts *)

\* How long an AssumeRole has taken and what its credentials are good for.
CallerInv(c) ==
  /\ waitingSince[c] <= clock
  /\ await[c] \in {"sts", "credentials"} => clock <= waitingSince[c] + StsTimeout
  /\ await[c] = "credentials" => client[c].expiration >= waitingSince[c] + Lifetime
  /\ await[c] = "connected" => client[c].expiration > waitingSince[c] + Grace
  /\ await[c] \in {"credentials", "connected"} =>
       client[c] \in Clients /\ client[c].owner = config[c]

ConnectorInv ==
  /\ ConnectorTypeOK
  /\ \A g \in Configs : cachedClients[g] = None \/ cachedClients[g].owner = g
  /\ \A c \in Callers : CallerInv(c)

LEMMA ConnectorInvInit == ConnectorInit => ConnectorInv
BY CrossAccountAssumption
   DEF ConnectorInit, ConnectorInv, ConnectorTypeOK, CallerInv, None, Clients

\* The client that a step hands to caller d keeps what a client promises.
LEMMA ConnectedInv ==
  ASSUME ConnectorInv, NEW d \in Callers, NEW cl \in Clients, Connected(d, cl),
         UNCHANGED clock, cl.expiration > clock + Grace, config' \in [Callers -> Configs],
         config'[d] = cl.owner, \A c \in Callers \ {d} : config'[c] = config[c]
  PROVE  /\ await' \in [Callers -> {"idle", "sts", "credentials", "connected"}]
         /\ waitingSince' \in [Callers -> 0..LastTime]
         /\ client' \in [Callers -> Clients \cup {None}]
         /\ \A c \in Callers : CallerInv(c)'
<1>1. /\ clock \in Nat
      /\ \A c \in Callers : c # d =>
           /\ await'[c] = await[c] /\ waitingSince'[c] = waitingSince[c]
           /\ client'[c] = client[c]
      /\ await'[d] = "connected" /\ waitingSince'[d] = clock /\ client'[d] = cl
  BY CrossAccountAssumption DEF ConnectorInv, ConnectorTypeOK, Connected
<1>2. ASSUME NEW c \in Callers, c # d PROVE CallerInv(c)'
  BY <1>1, <1>2 DEF ConnectorInv, CallerInv
<1>3. CallerInv(d)'
  BY <1>1 DEF CallerInv
<1>4. \A c \in Callers : CallerInv(c)'
  BY <1>2, <1>3
<1> QED
  BY <1>4 DEF ConnectorInv, ConnectorTypeOK, Connected

LEMMA ConnectorInvStep == ConnectorInv /\ [ConnectorNext]_connectorVars => ConnectorInv'
<1> SUFFICES ASSUME ConnectorInv, [ConnectorNext]_connectorVars PROVE ConnectorInv'
  OBVIOUS
<1> USE CrossAccountAssumption
<1>1. CASE UNCHANGED connectorVars
  BY <1>1 DEF ConnectorInv, ConnectorTypeOK, CallerInv, connectorVars
<1>2. ASSUME NEW d \in Callers, NEW g \in Configs, connect(d, g) PROVE ConnectorInv'
  <2>1. UNCHANGED <<clock, cachedClients>> /\ config' = [config EXCEPT ![d] = g]
    BY <1>2 DEF connect
  <2>2. /\ config' \in [Callers -> Configs] /\ config'[d] = g
        /\ \A c \in Callers \ {d} : config'[c] = config[c]
    BY <2>1 DEF ConnectorInv, ConnectorTypeOK
  <2>3. CASE Reusable(g) /\ Connected(d, cachedClients[g])
    <3>1. /\ cachedClients[g] \in Clients /\ cachedClients[g].owner = g
          /\ cachedClients[g].expiration > clock + Grace
      BY <2>3 DEF Reusable, ConnectorInv, ConnectorTypeOK, None, Clients
    <3> QED
      BY <2>1, <2>2, <2>3, <3>1, ConnectedInv DEF ConnectorInv, ConnectorTypeOK
  <2>4. CASE ~Reusable(g)
    <3>1. /\ await' = [await EXCEPT ![d] = "sts"]
          /\ waitingSince' = [waitingSince EXCEPT ![d] = clock]
          /\ UNCHANGED client
      BY <1>2, <2>4 DEF connect
    <3>2. ConnectorTypeOK'
      BY <2>1, <2>2, <3>1 DEF ConnectorInv, ConnectorTypeOK
    <3>3. ASSUME NEW c \in Callers PROVE CallerInv(c)'
      BY <2>1, <2>2, <3>1 DEF ConnectorInv, ConnectorTypeOK, CallerInv
    <3> QED
      BY <2>1, <3>2, <3>3 DEF ConnectorInv
  <2> QED
    BY <1>2, <2>3, <2>4 DEF connect
<1>3. ASSUME NEW d \in Callers, RoleAssumed(d) PROVE ConnectorInv'
  <2> DEFINE cl == [owner |-> config[d], expiration |-> clock + Lifetime]
  <2>1. cl \in Clients /\ cl.owner = config[d] /\ cl.expiration = clock + Lifetime
    BY DEF ConnectorInv, ConnectorTypeOK, Clients
  <2> HIDE DEF cl
  <2>2. /\ await[d] = "sts" /\ await' = [await EXCEPT ![d] = "credentials"]
        /\ client' = [client EXCEPT ![d] = cl]
        /\ UNCHANGED <<clock, cachedClients, config, waitingSince>>
    BY <1>3 DEF RoleAssumed, cl
  <2>3. ConnectorTypeOK'
    BY <2>1, <2>2 DEF ConnectorInv, ConnectorTypeOK
  <2>4. ASSUME NEW c \in Callers PROVE CallerInv(c)'
    BY <2>1, <2>2 DEF ConnectorInv, ConnectorTypeOK, CallerInv
  <2> QED
    BY <2>2, <2>3, <2>4 DEF ConnectorInv
<1>4. ASSUME NEW d \in Callers, performConnect(d) PROVE ConnectorInv'
  <2>1. /\ await[d] = "credentials" /\ Connected(d, client[d])
        /\ cachedClients' = [cachedClients EXCEPT ![config[d]] = client[d]]
        /\ UNCHANGED <<clock, config>>
    BY <1>4 DEF performConnect
  <2>2. /\ client[d] \in Clients /\ client[d].owner = config[d]
        /\ client[d].expiration > clock + Grace
    BY <2>1 DEF ConnectorInv, ConnectorTypeOK, CallerInv, Clients
  <2>3. /\ cachedClients' \in [Configs -> Clients \cup {None}]
        /\ \A g \in Configs : cachedClients'[g] = None \/ cachedClients'[g].owner = g
    BY <2>1, <2>2 DEF ConnectorInv, ConnectorTypeOK
  <2> QED
    BY <2>1, <2>2, <2>3, ConnectedInv DEF ConnectorInv, ConnectorTypeOK
<1>5. ASSUME NEW d \in Callers, Leaves(d) PROVE ConnectorInv'
  <2>1. /\ await' = [await EXCEPT ![d] = "idle"] /\ client' = [client EXCEPT ![d] = None]
        /\ waitingSince' = [waitingSince EXCEPT ![d] = 0]
        /\ UNCHANGED <<clock, cachedClients, config>>
    BY <1>5 DEF Leaves
  <2>2. ConnectorTypeOK'
    BY <2>1 DEF ConnectorInv, ConnectorTypeOK
  <2>3. ASSUME NEW c \in Callers PROVE CallerInv(c)'
    BY <2>1 DEF ConnectorInv, ConnectorTypeOK, CallerInv
  <2> QED
    BY <2>1, <2>2, <2>3 DEF ConnectorInv
<1>6. CASE TimePasses
  <2>1. /\ clock' = clock + 1 /\ clock < LastTime
        /\ \A c \in Callers :
             await[c] \in {"sts", "credentials"} => clock < waitingSince[c] + StsTimeout
        /\ UNCHANGED <<cachedClients, await, config, waitingSince, client>>
    BY <1>6 DEF TimePasses
  <2>2. ConnectorTypeOK'
    BY <2>1 DEF ConnectorInv, ConnectorTypeOK
  <2>3. ASSUME NEW c \in Callers PROVE CallerInv(c)'
    BY <2>1 DEF ConnectorInv, ConnectorTypeOK, CallerInv
  <2> QED
    BY <2>1, <2>2, <2>3 DEF ConnectorInv
<1> QED
  BY <1>1, <1>2, <1>3, <1>4, <1>5, <1>6 DEF ConnectorNext

\* Credentials outlive the grace period, however concurrent connects overlap,
\* provided that AssumeRole takes less than their lifetime without it.
THEOREM CredentialsOutliveGrace == ConnectorSpec => []CredentialsLast
<1>1. ConnectorInv => CredentialsLast
  BY CrossAccountAssumption
     DEF ConnectorInv, ConnectorTypeOK, CallerInv, CredentialsLast, Clients
<1> QED
  BY <1>1, ConnectorInvInit, ConnectorInvStep, PTL DEF ConnectorSpec

-----------------------------------------------------------------------------
(* Uploads to GCS *)

LEMMA UploadInvInit == GcsInit => GcsTypeOK /\ WholeOrAbsent
BY DEF GcsInit, GcsTypeOK, WholeOrAbsent

LEMMA UploadInvStep ==
  GcsTypeOK /\ WholeOrAbsent /\ [GcsNext]_gcsVars => (GcsTypeOK /\ WholeOrAbsent)'
<1> SUFFICES ASSUME GcsTypeOK, WholeOrAbsent, [GcsNext]_gcsVars
             PROVE  GcsTypeOK' /\ WholeOrAbsent'
  OBVIOUS
<1> USE DEF GcsTypeOK, WholeOrAbsent, Enter, SettleUpload
<1>1. CASE UNCHANGED gcsVars
  BY <1>1 DEF gcsVars
<1>2. ASSUME NEW u \in Uploaders,
             \/ Upload(u) \/ CredentialsRead(u) \/ StorageCreated(u) \/ StorageFailed(u)
      PROVE  GcsTypeOK' /\ WholeOrAbsent'
  BY <1>2 DEF Upload, CredentialsRead, StorageCreated, StorageFailed, WriteStep
<1>3. ASSUME NEW u \in Uploaders, NEW how \in {"ended", "failed"}, SourceStops(u, how)
      PROVE  GcsTypeOK' /\ WholeOrAbsent'
  BY <1>3 DEF SourceStops
<1>4. ASSUME NEW u \in Uploaders, StreamFinishes(u) PROVE GcsTypeOK' /\ WholeOrAbsent'
  BY <1>4 DEF StreamFinishes, Piped
<1>5. ASSUME NEW u \in Uploaders, StreamFails(u) PROVE GcsTypeOK' /\ WholeOrAbsent'
  BY <1>5 DEF StreamFails
<1>6. ASSUME NEW u \in Uploaders, Saved(u) \/ SaveFails(u)
      PROVE  GcsTypeOK' /\ WholeOrAbsent'
  BY <1>6 DEF Saved, SaveFails
<1> QED
  BY <1>1, <1>2, <1>3, <1>4, <1>5, <1>6 DEF GcsNext, UploadContinues

\* No upload to GCS leaves a truncated object, and one that resolves has
\* stored all of it.
THEOREM UploadsWhole == GcsSpec => []WholeOrAbsent
BY UploadInvInit, UploadInvStep, PTL DEF GcsSpec

-----------------------------------------------------------------------------
(* The three datasources together, as TLC runs them *)

\* What the variables of each datasource may hold, for every number of keys,
\* pages, callers and uploaders: a step of one leaves those of the others
\* alone.
THEOREM StorageTypes == MCSpec => []TypesOK
<1> DEFINE I == TypeOK /\ ConnectorInv /\ GcsTypeOK /\ WholeOrAbsent
<1>1. MCInit => I
  BY TypingInit, ConnectorInvInit, UploadInvInit DEF MCInit
<1>2. I /\ [MCNext]_mcVars => I'
  <2> SUFFICES ASSUME I, [MCNext]_mcVars PROVE I'
    OBVIOUS
  <2>1. [Next]_vars /\ [ConnectorNext]_connectorVars /\ [GcsNext]_gcsVars
    BY DEF MCNext, mcVars
  <2> QED
    BY <2>1, TypingStep, ConnectorInvStep, UploadInvStep
<1>3. I => TypesOK
  BY DEF TypesOK, ConnectorInv
<1> QED
  BY <1>1, <1>2, <1>3, PTL DEF MCSpec
=============================================================================
