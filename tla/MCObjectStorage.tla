--------------------------- MODULE MCObjectStorage ---------------------------
(***************************************************************************)
(* The three object storage datasources for TLC.  They share no state, so  *)
(* a behaviour exercises one of them and leaves the others at rest.        *)
(***************************************************************************)
EXTENDS ObjectStorage, CrossAccount, GcsUpload

VARIABLE part  \* the datasource that is exercised: "s3", "sts" or "gcs"

mcVars == <<part, vars, connectorVars, gcsVars>>

\* At rest no action is enabled that fairness would ask for.
AtRest ==
  /\ part # "s3" => objects = {} /\ locked = {}
  /\ part # "sts" => \A c, d \in Callers : config[c] = config[d]
  /\ part # "gcs" => \A u \in Uploaders : source[u] = "buffer"

MCInit ==
  /\ part \in {"s3", "sts", "gcs"}
  /\ Init /\ ConnectorInit /\ GcsInit
  /\ AtRest

MCNext ==
  \/ part = "s3" /\ Next /\ UNCHANGED <<part, connectorVars, gcsVars>>
  \/ part = "sts" /\ ConnectorNext /\ UNCHANGED <<part, vars, gcsVars>>
  \/ part = "gcs" /\ GcsNext /\ UNCHANGED <<part, vars, connectorVars>>

MCSpec == MCInit /\ [][MCNext]_mcVars /\ Fairness /\ GcsFairness

\* The type invariants of the three datasources.
TypesOK == TypeOK /\ ConnectorTypeOK /\ GcsTypeOK

\* Calls of the two storage datasources settle, as each of them claims.
CallsSettle == EveryCallSettles /\ UploadSettles
=============================================================================
