--------------------------- MODULE MCDatasources ---------------------------
(***************************************************************************)
(* RemoteCalls, BatchDelete, Caches and Container for TLC.  They share no  *)
(* state, so a behaviour exercises one of them and leaves the others at    *)
(* rest.                                                                   *)
(***************************************************************************)
EXTENDS RemoteCalls, BatchDelete, Caches, Container

VARIABLE part  \* what is exercised: "calls", "batch", "cache" or "container"

mcVars == <<part, callVars, vars, cacheVars, containerVars>>

\* First what is at rest, for TLC takes the conjuncts in this order.
MCInit ==
  /\ part \in {"calls", "batch", "cache", "container"}
  /\ part = "calls" \/ (part # "calls" /\ method = "deleteDeviceEndpoints" /\ given = {})
  /\ part = "batch" \/ (part # "batch" /\ total = 0)
  /\ part = "cache" \/ (part # "cache" /\ kind = "memory")
  /\ \/ part = "container"
     \/ /\ part # "container" /\ lambda = deleteUser
        /\ wanted = "DeleteUserPresenter" /\ local = TRUE /\ bad = {}
  /\ CallInit /\ Init /\ CacheInit /\ ContainerInit

MCNext ==
  \/ part = "calls" /\ CallStep /\ UNCHANGED <<part, vars, cacheVars, containerVars>>
  \/ part = "batch" /\ Next /\ UNCHANGED <<part, callVars, cacheVars, containerVars>>
  \/ part = "cache" /\ CacheNext /\ UNCHANGED <<part, callVars, vars, containerVars>>
  \/ part = "container" /\ ContainerNext /\ UNCHANGED <<part, callVars, vars, cacheVars>>

MCSpec == MCInit /\ [][MCNext]_mcVars /\ CallFairness /\ Fairness

\* The second value is the first one with a space in a string.
OneSpaced == [v \in {"a b"} |-> "ab"]

\* An environment variable that is not set.
Unset == -1
=============================================================================
