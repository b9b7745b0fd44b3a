--------------------------- MODULE ObjectStorage ---------------------------
(***************************************************************************)
(* AwsS3ObjectStorageDatasource: one call of a method on a bucket whose    *)
(* objects others put and remove meanwhile.                                *)
(*                                                                         *)
(* A key is its rank in the order in which S3 lists keys.                  *)
(***************************************************************************)
EXTENDS Naturals, FiniteSets

CONSTANTS
  Keys,         \* keys objects may have
  Directory,    \* the keys that begin with the prefix of the call
  PageSize,     \* S3: most keys in one answer to ListObjectsV2
  DeleteLimit,  \* DELETE_FILES_LIMIT
  Disturbances  \* bound: changes by others, refusals and failed requests

ASSUME StorageAssumption ==
  /\ Keys \subseteq Nat \ {0} /\ IsFiniteSet(Keys)
  /\ Directory \subseteq Keys
  /\ PageSize \in Nat \ {0}
  /\ DeleteLimit \in Nat \ {0}
  /\ Disturbances \in Nat

VARIABLES
  objects,    \* the keys of the objects in the bucket
  locked,     \* keys S3 always refuses to delete: policy, object lock
  refused,    \* keys of this call that S3 answered it has not deleted
  method,     \* the method called
  asked,      \* the keys it was given, or those with its prefix at the call
  pc,         \* the await the call is suspended at
  outcome,    \* how its promise settled
  targets,    \* those of them that were there and that nobody else touched
  token,      \* ContinuationToken: the last key listed
  listed,     \* allContents
  truncated,  \* IsTruncated of the page that is being deleted
  inFlight,   \* DeleteObjects requests not yet answered, as sets of keys
  disturbed   \* disturbances so far

bucket == <<objects, locked>>
paging == <<token, listed, truncated>>
vars == <<bucket, refused, method, asked, pc, outcome, targets, paging, inFlight,
          disturbed>>

Reads == {"getFile", "getFileAsStream", "getFileAsBuffer"}
Uploads == {"putObject", "multipartUpload"}
Deletions == {"deleteObject", "deleteObjects", "deleteDirectory"}
Listings == {"listObjects", "listAllObjects"}

TypeOK ==
  /\ objects \subseteq Keys
  /\ locked \subseteq Keys
  /\ refused \subseteq Keys
  /\ method \in {"none"} \cup Reads \cup Uploads \cup Deletions \cup Listings
  /\ asked \subseteq Keys
  /\ pc \in {"idle", "request", "list", "delete", "settled"}
  /\ outcome \in {"none", "resolved", "rejected"}
  /\ outcome = "none" <=> pc # "settled"
  /\ targets \subseteq Keys
  /\ token \in Keys \cup {0}
  /\ listed \subseteq Keys
  /\ truncated \in BOOLEAN
  /\ inFlight \subseteq SUBSET Keys
  /\ disturbed \in 0..Disturbances

Init ==
  /\ objects \in SUBSET Keys
  /\ locked \in SUBSET Directory
  /\ refused = {}
  /\ method = "none"
  /\ asked = {}
  /\ pc = "idle"
  /\ outcome = "none"
  /\ targets = {}
  /\ token = 0
  /\ listed = {}
  /\ truncated = FALSE
  /\ inFlight = {}
  /\ disturbed = 0

-----------------------------------------------------------------------------
(* Helpers *)

Call(m, await, keys) ==
  /\ pc = "idle"
  /\ pc' = await
  /\ method' = m
  /\ asked' = keys
  /\ targets' = keys
  /\ UNCHANGED <<bucket, refused, outcome, paging, disturbed>>

Settle(o) == pc' = "settled" /\ outcome' = o

Disturb == disturbed < Disturbances /\ disturbed' = disturbed + 1

\* S3's answer to a listing: the first keys after the token.
Unlisted == {k \in objects \cap Directory : k > token}
Page(rest) == {k \in rest : Cardinality({j \in rest : j < k}) < PageSize}

\* Mutant: the rest of the last chunk is forgotten.
BugChunks(keys) ==
  LET rank(k) == Cardinality({j \in keys : j < k})
      slice(k) == {j \in keys : rank(j) \div DeleteLimit = rank(k) \div DeleteLimit}
  IN  {slice(k) : k \in {j \in keys : Cardinality(slice(j)) = DeleteLimit}}

\* The array of keys in slices of DELETE_FILES_LIMIT.
Chunks(keys) ==
  LET rank(k) == Cardinality({j \in keys : j < k})
      slice(k) == {j \in keys : rank(j) \div DeleteLimit = rank(k) \div DeleteLimit}
  IN  {slice(k) : k \in keys}

\* Mutant: pages replace one another.
BugCollected(page) == page

\* allContents with the contents of one more page.
Collected(page) == listed \cup page

\* Mutant: as long as something was listed, the directory is deleted again.
BugAgain(rest, page) == rest # {}

\* deleteDirectory calls itself once more.
Again(rest, page) == rest # page

-----------------------------------------------------------------------------
(* The methods *)

getFile(k) == Call("getFile", "request", {k}) /\ UNCHANGED inFlight

getFileAsStream(k) == Call("getFileAsStream", "request", {k}) /\ UNCHANGED inFlight

getFileAsBuffer(k) == Call("getFileAsBuffer", "request", {k}) /\ UNCHANGED inFlight

putObject(k) == Call("putObject", "request", {k}) /\ UNCHANGED inFlight

multipartUpload(k) == Call("multipartUpload", "request", {k}) /\ UNCHANGED inFlight

deleteObject(k) == Call("deleteObject", "request", {k}) /\ UNCHANGED inFlight

\* With and without getAllObjects.
listObjects ==
  \E m \in Listings : Call(m, "list", objects \cap Directory) /\ UNCHANGED inFlight

deleteDirectory ==
  Call("deleteDirectory", "list", objects \cap Directory) /\ UNCHANGED inFlight

\* All chunks are sent at once.
deleteObjects(keys) ==
  /\ Call("deleteObjects", "delete", keys)
  /\ inFlight' = Chunks(keys)

-----------------------------------------------------------------------------
(* Answers *)

\* GetObject, PutObject, DeleteObject or CompleteMultipartUpload is answered;
\* a missing object and an upload with another status than 200 are errors.
Answered ==
  /\ pc = "request"
  /\ \/ /\ method \in Reads
        /\ Settle(IF asked \subseteq objects THEN "resolved" ELSE "rejected")
        /\ UNCHANGED objects
     \/ /\ method \in Uploads
        /\ objects' = objects \cup asked
        /\ Settle("resolved") \/ (method = "multipartUpload" /\ Settle("rejected"))
     \/ /\ method = "deleteObject"
        /\ objects' = objects \ (asked \ locked)
        /\ Settle(IF asked \cap locked = {} THEN "resolved" ELSE "rejected")
  /\ UNCHANGED <<locked, refused, method, asked, targets, paging, inFlight, disturbed>>

\* A page of a listing; the loop of listObjects goes on while it is truncated.
Listed ==
  /\ pc = "list" /\ method \in Listings
  /\ LET page == Page(Unlisted)
     IN  /\ listed' = Collected(page)
         /\ IF method = "listAllObjects" /\ page # Unlisted
            THEN /\ \E last \in page : /\ \A k \in page : k <= last
                                       /\ token' = last
                 /\ UNCHANGED <<pc, outcome>>
            ELSE Settle("resolved") /\ UNCHANGED token
  /\ UNCHANGED <<bucket, refused, method, asked, targets, truncated, inFlight, disturbed>>

\* deleteDirectory has its page: nothing to delete, or deleteObjects.
DirectoryListed ==
  /\ pc = "list" /\ method = "deleteDirectory"
  /\ IF Unlisted = {}
     THEN Settle("resolved") /\ UNCHANGED <<truncated, inFlight>>
     ELSE /\ pc' = "delete"
          /\ truncated' = Again(Unlisted, Page(Unlisted))
          /\ inFlight' = Chunks(Page(Unlisted))
          /\ UNCHANGED outcome
  /\ UNCHANGED <<bucket, refused, method, asked, targets, token, listed, disturbed>>

\* Mutant: the recursion is not awaited.
BugNotAwaited ==
  /\ outcome' = "resolved"
  /\ pc' = IF method = "deleteDirectory" /\ truncated THEN "list" ELSE "settled"

\* The last chunk is deleted: Promise.all resolves.
Deleted ==
  IF method = "deleteDirectory" /\ truncated
  THEN pc' = "list" /\ UNCHANGED outcome
  ELSE Settle("resolved")

\* S3 executes a DeleteObjects request, except for keys it refuses, which its
\* answer lists as Errors.  Chunks in flight outlive a rejected call.
ChunkAnswered(chunk) ==
  /\ chunk \in inFlight
  /\ \E kept \in SUBSET chunk :
       /\ chunk \cap locked \subseteq kept
       /\ \/ kept \subseteq locked /\ UNCHANGED disturbed
          \/ ~(kept \subseteq locked) /\ Disturb
       /\ objects' = objects \ (chunk \ kept)
       /\ refused' = refused \cup kept
  /\ inFlight' = inFlight \ {chunk}
  /\ IF pc = "delete" /\ inFlight' = {} THEN Deleted ELSE UNCHANGED <<pc, outcome>>
  /\ UNCHANGED <<locked, method, asked, targets, paging>>

\* deleteObjects([]) sends nothing.
NothingToDelete ==
  /\ pc = "delete" /\ inFlight = {}
  /\ Deleted
  /\ UNCHANGED <<bucket, refused, method, asked, targets, paging, inFlight, disturbed>>

\* A request rejects, executed or not: the call rejects.
RequestFails ==
  /\ Disturb
  /\ \/ /\ pc \in {"request", "list"} /\ Settle("rejected")
        /\ UNCHANGED inFlight
        /\ \/ method \in Uploads /\ objects' = objects \cup asked
           \/ method = "deleteObject" /\ objects' = objects \ (asked \ locked)
           \/ UNCHANGED objects
     \/ \E chunk \in inFlight :
          /\ IF pc = "delete" THEN Settle("rejected") ELSE UNCHANGED <<pc, outcome>>
          /\ inFlight' = inFlight \ {chunk}
          /\ UNCHANGED objects \/ objects' = objects \ (chunk \ locked)
  /\ UNCHANGED <<locked, refused, method, asked, targets, paging>>

\* Somebody else puts or removes an object.
Touched(k) ==
  /\ Disturb
  /\ \/ objects' = objects \cup {k}
     \/ k \notin locked /\ objects' = objects \ {k}
  /\ targets' = targets \ {k}
  /\ UNCHANGED <<locked, refused, method, asked, pc, outcome, paging, inFlight>>

Settles ==
  \/ Answered \/ Listed \/ DirectoryListed \/ NothingToDelete \/ RequestFails
  \/ \E chunk \in inFlight : ChunkAnswered(chunk)

Next ==
  \/ \E k \in Keys :
       \/ getFile(k) \/ getFileAsStream(k) \/ getFileAsBuffer(k)
       \/ putObject(k) \/ multipartUpload(k) \/ deleteObject(k)
       \/ Touched(k)
  \/ \E keys \in SUBSET Keys : deleteObjects(keys)
  \/ listObjects \/ deleteDirectory
  \/ Settles

Spec == Init /\ [][Next]_vars

\* Every request is answered or fails.
Fairness == WF_vars(Settles)

-----------------------------------------------------------------------------
(* Properties *)

\* A deletion that resolves leaves nothing that it was to delete, that others
\* left alone and that S3 did not refuse: nothing is lost between pages,
\* recursions and chunks.  What S3 refused is left without an error.
DeletedOrRefused ==
  method \in Deletions /\ outcome = "resolved" => targets \cap objects \subseteq refused

\* A listing with getAllObjects has every object that was there all along,
\* whatever others put and remove between two pages.
ListingComplete ==
  method = "listAllObjects" /\ outcome = "resolved" => targets \subseteq listed

\* Every call settles: deleteDirectory too, as long as S3 does not keep
\* refusing a whole page of keys.
EveryCallSettles ==
  pc # "idle" /\ Cardinality(locked \cap Directory) < PageSize ~> pc = "settled"
=============================================================================
