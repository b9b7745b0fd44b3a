----------------------------- MODULE GcsUpload -----------------------------
(***************************************************************************)
(* GcpGcsObjectStorageUploadDatasource: uploads of streams and buffers     *)
(* that share one lazily created client (storageInstance).                 *)
(***************************************************************************)
EXTENDS Naturals

CONSTANT Uploaders  \* concurrent uploads of a container, each to its own file

VARIABLES
  storageInstance,  \* the client exists
  step,             \* per upload: the await it is suspended at
  source,           \* per upload: the stream it was given
  stored,           \* per upload: the object in the bucket
  settled           \* per upload: how its promise settled

gcsVars == <<storageInstance, step, source, stored, settled>>

GcsTypeOK ==
  /\ storageInstance \in BOOLEAN
  /\ step \in [Uploaders -> {"idle", "credentials", "auth", "pipe", "save", "done"}]
  /\ source \in [Uploaders -> {"open", "ended", "failed", "buffer"}]
  /\ stored \in [Uploaders -> {"absent", "whole", "partial"}]
  /\ settled \in [Uploaders -> {"none", "resolved", "rejected"}]

GcsInit ==
  /\ storageInstance = FALSE
  /\ step = [u \in Uploaders |-> "idle"]
  /\ source \in [Uploaders -> {"open", "buffer"}]
  /\ stored = [u \in Uploaders |-> "absent"]
  /\ settled = [u \in Uploaders |-> "none"]

-----------------------------------------------------------------------------

Enter(u, s) == step' = [step EXCEPT ![u] = s]

SettleUpload(u, o) == Enter(u, "done") /\ settled' = [settled EXCEPT ![u] = o]

\* uploadFileWithStream pipes, uploadFile saves.
WriteStep(u) == IF source[u] = "buffer" THEN "save" ELSE "pipe"

\* An upload begins with getStorage.
Upload(u) ==
  /\ step[u] = "idle"
  /\ Enter(u, IF storageInstance THEN WriteStep(u) ELSE "credentials")
  /\ UNCHANGED <<storageInstance, source, stored, settled>>

\* getSecretValue resolves.
CredentialsRead(u) ==
  /\ step[u] = "credentials"
  /\ Enter(u, "auth")
  /\ UNCHANGED <<storageInstance, source, stored, settled>>

\* auth.getClient resolves; a client made meanwhile is replaced.
StorageCreated(u) ==
  /\ step[u] = "auth"
  /\ storageInstance' = TRUE
  /\ Enter(u, WriteStep(u))
  /\ UNCHANGED <<source, stored, settled>>

\* No secret or no client: the upload rejects, and the next one tries again.
StorageFailed(u) ==
  /\ step[u] \in {"credentials", "auth"}
  /\ SettleUpload(u, "rejected")
  /\ UNCHANGED <<storageInstance, source, stored>>

\* The source ends once it has been read, or breaks off at any moment.
SourceStops(u, how) ==
  /\ source[u] = "open"
  /\ how = "failed" \/ step[u] = "pipe"
  /\ source' = [source EXCEPT ![u] = how]
  /\ UNCHANGED <<storageInstance, step, stored, settled>>

\* Mutant: a source that breaks off ends the write stream.
BugPiped(u) == source[u] \in {"ended", "failed"}

\* pipe ends the write stream when its source has ended, not when it failed.
Piped(u) == source[u] = "ended"

\* 'finish': GCS has the object.
StreamFinishes(u) ==
  /\ step[u] = "pipe" /\ Piped(u)
  /\ stored' = [stored EXCEPT ![u] = IF source[u] = "ended" THEN "whole" ELSE "partial"]
  /\ SettleUpload(u, "resolved")
  /\ UNCHANGED <<storageInstance, source>>

\* 'error' on the write stream; GCS may have the object all the same.
StreamFails(u) ==
  /\ step[u] = "pipe"
  /\ SettleUpload(u, "rejected")
  /\ \/ UNCHANGED stored
     \/ Piped(u) /\ stored' = [stored EXCEPT ![u] = "whole"]
  /\ UNCHANGED <<storageInstance, source>>

\* save sends a whole buffer.
Saved(u) ==
  /\ step[u] = "save"
  /\ stored' = [stored EXCEPT ![u] = "whole"]
  /\ \E o \in {"resolved", "rejected"} : SettleUpload(u, o)
  /\ UNCHANGED <<storageInstance, source>>

SaveFails(u) ==
  /\ step[u] = "save"
  /\ SettleUpload(u, "rejected")
  /\ UNCHANGED <<storageInstance, source, stored>>

UploadContinues(u) ==
  \/ CredentialsRead(u) \/ StorageCreated(u) \/ StorageFailed(u)
  \/ StreamFinishes(u) \/ StreamFails(u) \/ Saved(u) \/ SaveFails(u)

GcsNext ==
  \E u \in Uploaders :
    \/ Upload(u) \/ UploadContinues(u)
    \/ \E how \in {"ended", "failed"} : SourceStops(u, how)

GcsSpec == GcsInit /\ [][GcsNext]_gcsVars

\* Secrets Manager and GCS answer, and a stream that is read comes to an end.
GcsFairness ==
  \A u \in Uploaders :
    /\ WF_gcsVars(UploadContinues(u))
    /\ WF_gcsVars(\E how \in {"ended", "failed"} : SourceStops(u, how))

-----------------------------------------------------------------------------

\* An upload that resolves has stored the whole stream or buffer, and no
\* upload leaves a truncated object: a broken source never ends the write.
WholeOrAbsent ==
  \A u \in Uploaders :
    /\ stored[u] # "partial"
    /\ settled[u] = "resolved" => stored[u] = "whole"

\* An upload settles, unless its source breaks off: nobody listens to the
\* error of the source (Node may even end the process for it).
UploadSettles ==
  \A u \in Uploaders : step[u] # "idle" ~> step[u] = "done" \/ source[u] = "failed"
=============================================================================
