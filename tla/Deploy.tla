------------------------------- MODULE Deploy -------------------------------
(***************************************************************************)
(* The delivery pipeline (cd.yml): every push starts a run of five jobs.   *)
(* The two layer jobs compare the fingerprint of the commit with that of   *)
(* the newest layer version and, when it changed, publish a version and    *)
(* attach it to the functions that use it; the two function jobs upload    *)
(* code, publish a version of the function and move its alias; the last    *)
(* job updates the state machine that invokes delete-user by its alias.    *)
(*                                                                         *)
(* Jobs of a run, and of different runs, interleave: they share the        *)
(* functions' configuration, which is read and replaced by separate calls. *)
(***************************************************************************)
EXTENDS Integers, Sequences, FiniteSets

CONSTANTS
  Runs,       \* bound: number of pushes
  Commits,    \* Commits[r][l]: the fingerprint of layer l in the r-th push
  NewAccount, \* nothing was delivered before the first push
  Overlap,    \* a push may come before the previous run has ended
  MaxFaults   \* bound: how many calls fail or runners die

Layers == {"prisma", "elasticache"}
Functions == {"delete-user", "jwt-authorizer"}
StateMachine == "delete-user-batch"
Names == Layers \cup Functions \cup {StateMachine}

ASSUME DeployAssumption ==
  /\ Runs \in Nat \ {0}
  /\ Commits \in [1..Runs -> [Layers -> Nat]]
  /\ NewAccount \in BOOLEAN
  /\ Overlap \in BOOLEAN
  /\ MaxFaults \in Nat

\* The functions a layer job attaches its layer to, in the order of its loop.
Consumers(l) == IF l = "prisma" THEN <<"delete-user", "jwt-authorizer">>
                                ELSE <<"jwt-authorizer">>

\* The layer job that the job of function f waits for.
NeededLayer(f) == IF f = "delete-user" THEN "prisma" ELSE "elasticache"

Jobs == (1..Runs) \X Names
LayerJobs == (1..Runs) \X Layers
FunctionJobs == (1..Runs) \X Functions

VARIABLES
  faults,     \* calls that failed and runners that died so far
  published,  \* per layer: the fingerprints of its versions, oldest first
  attached,   \* per function: the layers of $LATEST
  code,       \* per function: the push whose code $LATEST has
  updating,   \* per function: an update of $LATEST is in progress
  versions,   \* per function: its published versions, oldest first
  alias,      \* per function: the version behind its alias, 0 for none
  workflow,   \* the push whose workflow the state machine has
  pc,         \* per job: its next call
  mine,       \* per layer job: the version it published; per function job too
  todo,       \* per layer job: functions still to attach to
  seen        \* per layer job: the layers it read from the function

aws == <<published, attached, code, updating, versions, alias, workflow>>
jobs == <<pc, mine, todo, seen>>
vars == <<faults, aws, jobs>>

Attachment == [layer : Layers, version : 1..(Runs + 1)]
Ended == {"done", "skipped", "failed"}

TypeOK ==
  /\ faults \in 0..MaxFaults
  /\ published \in [Layers -> Seq(Nat)]
  /\ attached \in [Functions -> SUBSET Attachment]
  /\ code \in [Functions -> 0..Runs]
  /\ updating \in [Functions -> BOOLEAN]
  /\ versions \in [Functions -> Seq([code : 0..Runs, layers : SUBSET Attachment])]
  /\ alias \in [Functions -> 0..Runs]
  /\ workflow \in 0..Runs
  /\ pc \in [Jobs -> {"start", "publish", "read", "update", "wait", "alias"}
                       \cup Ended]
  /\ mine \in [Jobs -> 0..(Runs + 1)]
  /\ todo \in [LayerJobs -> Seq(Functions)]
  /\ seen \in [LayerJobs -> SUBSET Attachment]
  /\ \A l \in Layers : Len(published[l]) <= Runs + 1
  /\ \A f \in Functions : alias[f] <= Len(versions[f])

\* Before the pipeline has ever run, or as a first delivery leaves things.
Init ==
  /\ faults = 0
  /\ published = [l \in Layers |-> IF NewAccount THEN <<>> ELSE <<0>>]
  /\ attached =
       [f \in Functions |->
          IF NewAccount THEN {}
          ELSE [layer : {"prisma", NeededLayer(f)}, version : {1}]]
  /\ code = [f \in Functions |-> 0]
  /\ updating = [f \in Functions |-> FALSE]
  /\ versions = [f \in Functions |-> <<>>]
  /\ alias = [f \in Functions |-> 0]
  /\ workflow = 0
  /\ pc = [j \in Jobs |-> "start"]
  /\ mine = [j \in Jobs |-> 0]
  /\ todo = [j \in LayerJobs |-> <<>>]
  /\ seen = [j \in LayerJobs |-> {}]

-----------------------------------------------------------------------------
(* Helpers *)

Goto(j, s) == pc' = [pc EXCEPT ![j] = s]

RunEnded(r) == \A n \in Names : pc[<<r, n>>] \in Ended

\* No concurrency group holds a run back: only the time of its push does.
Pushed(r) == Overlap \/ \A q \in 1..(r - 1) : RunEnded(q)

\* A call to AWS or a runner fails.
Fault == faults < MaxFaults /\ faults' = faults + 1

\* Lambda refuses a change of a function that another change is in progress on.
Conflict(f) == updating[f]

\* Mutant: the list of layers keeps the old versions of the job's own layer.
BugMerged(l, old, v) == old \cup {[layer |-> l, version |-> v]}

\* The layers to set: those read, less older versions of l, and the new one.
Merged(l, old, v) ==
  {a \in old : a.layer # l} \cup {[layer |-> l, version |-> v]}

-----------------------------------------------------------------------------
(* Layer jobs *)

\* Mutant: only a layer without any version is published.
BugUpToDate(r, l) == published[l] # <<>>

\* The fingerprint of the commit is the description of the newest version.
UpToDate(r, l) ==
  published[l] # <<>> /\ published[l][Len(published[l])] = Commits[r][l]

\* A listing that fails counts as no version at all.
Compare(r, l) ==
  /\ pc[<<r, l>>] = "start" /\ Pushed(r)
  /\ \/ UpToDate(r, l) /\ Goto(<<r, l>>, "skipped") /\ UNCHANGED faults
     \/ ~UpToDate(r, l) /\ Goto(<<r, l>>, "publish") /\ UNCHANGED faults
     \/ Fault /\ Goto(<<r, l>>, "publish")
  /\ UNCHANGED <<aws, mine, todo, seen>>

PublishLayer(r, l) ==
  /\ pc[<<r, l>>] = "publish"
  /\ published' = [published EXCEPT ![l] = Append(@, Commits[r][l])]
  /\ mine' = [mine EXCEPT ![<<r, l>>] = Len(published[l]) + 1]
  /\ todo' = [todo EXCEPT ![<<r, l>>] = Consumers(l)]
  /\ Goto(<<r, l>>, "read")
  /\ UNCHANGED <<faults, attached, code, updating, versions, alias, workflow, seen>>

\* get-function-configuration; its failure is swallowed as "no layers".
ReadLayers(r, l) ==
  /\ pc[<<r, l>>] = "read"
  /\ \/ /\ seen' = [seen EXCEPT ![<<r, l>>] = attached[Head(todo[<<r, l>>])]]
        /\ UNCHANGED faults
     \/ Fault /\ seen' = [seen EXCEPT ![<<r, l>>] = {}]
  /\ Goto(<<r, l>>, "update")
  /\ UNCHANGED <<aws, mine, todo>>

\* update-function-configuration replaces the whole list.
UpdateLayers(r, l) ==
  /\ pc[<<r, l>>] = "update"
  /\ LET f == Head(todo[<<r, l>>])
     IN  \/ /\ Conflict(f)
            /\ Goto(<<r, l>>, "failed")
            /\ UNCHANGED <<attached, updating>>
         \/ /\ ~Conflict(f)
            /\ attached' = [attached EXCEPT
                              ![f] = Merged(l, seen[<<r, l>>], mine[<<r, l>>])]
            /\ updating' = [updating EXCEPT ![f] = TRUE]
            /\ Goto(<<r, l>>, "wait")
  /\ UNCHANGED <<faults, published, code, versions, alias, workflow, mine, todo, seen>>

\* wait function-updated returns; the loop goes on with the next function.
LayerWaited(r, l) ==
  /\ pc[<<r, l>>] = "wait" /\ ~updating[Head(todo[<<r, l>>])]
  /\ todo' = [todo EXCEPT ![<<r, l>>] = Tail(@)]
  /\ Goto(<<r, l>>, IF Len(todo[<<r, l>>]) = 1 THEN "done" ELSE "read")
  /\ UNCHANGED <<faults, aws, mine, seen>>

-----------------------------------------------------------------------------
(* Function jobs *)

\* Mutant: the job does not wait for its layer.
BugNoNeeds(r, f) == Pushed(r)

\* Mutant: a skipped layer job skips the job that needs it.
BugSkipSkips(r, f) == pc[<<r, NeededLayer(f)>>] = "done"

\* The job's "needs" are met: the layer job ended well.
LayerReady(r, f) == pc[<<r, NeededLayer(f)>>] \in {"done", "skipped"}

\* A job whose needs failed never starts.
NeedsFailed(r, f) ==
  /\ pc[<<r, f>>] = "start" /\ pc[<<r, NeededLayer(f)>>] = "failed"
  /\ Goto(<<r, f>>, "failed")
  /\ UNCHANGED <<faults, aws, mine, todo, seen>>

\* Mutant: without set -e, the step goes on after a refused update.
BugUpdateCode(r, f) ==
  /\ pc[<<r, f>>] = "start" /\ LayerReady(r, f)
  /\ code' = IF Conflict(f) THEN code ELSE [code EXCEPT ![f] = r]
  /\ updating' = [updating EXCEPT ![f] = TRUE]
  /\ Goto(<<r, f>>, "wait")
  /\ UNCHANGED <<faults, published, attached, versions, alias, workflow, mine,
                 todo, seen>>

UpdateCode(r, f) ==
  /\ pc[<<r, f>>] = "start" /\ LayerReady(r, f)
  /\ \/ /\ Conflict(f)
        /\ Goto(<<r, f>>, "failed")
        /\ UNCHANGED <<code, updating>>
     \/ /\ ~Conflict(f)
        /\ code' = [code EXCEPT ![f] = r]
        /\ updating' = [updating EXCEPT ![f] = TRUE]
        /\ Goto(<<r, f>>, "wait")
  /\ UNCHANGED <<faults, published, attached, versions, alias, workflow, mine,
                 todo, seen>>

CodeWaited(r, f) ==
  /\ pc[<<r, f>>] = "wait" /\ ~updating[f]
  /\ Goto(<<r, f>>, "publish")
  /\ UNCHANGED <<faults, aws, mine, todo, seen>>

\* publish-version freezes $LATEST; an unchanged $LATEST gives no new version.
PublishVersion(r, f) ==
  LET latest == [code |-> code[f], layers |-> attached[f]]
      n == Len(versions[f])
      unchanged == n > 0 /\ versions[f][n] = latest
  IN  /\ pc[<<r, f>>] = "publish"
      /\ \/ /\ Conflict(f)
            /\ Goto(<<r, f>>, "failed")
            /\ UNCHANGED <<versions, mine>>
         \/ /\ ~Conflict(f)
            /\ versions' = IF unchanged THEN versions
                           ELSE [versions EXCEPT ![f] = Append(@, latest)]
            /\ mine' = [mine EXCEPT ![<<r, f>>] = IF unchanged THEN n ELSE n + 1]
            /\ Goto(<<r, f>>, "alias")
      /\ UNCHANGED <<faults, published, attached, code, updating, alias, workflow,
                     todo, seen>>

UpdateAlias(r, f) ==
  /\ pc[<<r, f>>] = "alias"
  /\ alias' = [alias EXCEPT ![f] = mine[<<r, f>>]]
  /\ Goto(<<r, f>>, "done")
  /\ UNCHANGED <<faults, published, attached, code, updating, versions, workflow,
                 mine, todo, seen>>

-----------------------------------------------------------------------------
(* The state machine's job *)

\* Mutant: the job does not wait for the function the workflow invokes.
BugFunctionReady(r) == Pushed(r)

\* The job's "needs" are met: delete-user was delivered.
FunctionReady(r) == pc[<<r, "delete-user">>] = "done"

UpdateStateMachine(r) ==
  /\ pc[<<r, StateMachine>>] = "start"
  /\ \/ /\ FunctionReady(r)
        /\ workflow' = r
        /\ Goto(<<r, StateMachine>>, "done")
     \/ /\ pc[<<r, "delete-user">>] = "failed"
        /\ Goto(<<r, StateMachine>>, "failed")
        /\ UNCHANGED workflow
  /\ UNCHANGED <<faults, published, attached, code, updating, versions, alias, mine,
                 todo, seen>>

-----------------------------------------------------------------------------
(* Lambda and the runners *)

\* Lambda finishes an update of $LATEST.
UpdateDone(f) ==
  /\ updating[f]
  /\ updating' = [updating EXCEPT ![f] = FALSE]
  /\ UNCHANGED <<faults, published, attached, code, versions, alias, workflow, jobs>>

\* A step of the job fails (set -e), or its runner dies.
JobFails(j) ==
  /\ Fault /\ pc[j] \notin Ended /\ Pushed(j[1])
  /\ Goto(j, "failed")
  /\ UNCHANGED <<aws, mine, todo, seen>>

LayerStep(r, l) ==
  \/ Compare(r, l) \/ PublishLayer(r, l) \/ ReadLayers(r, l)
  \/ UpdateLayers(r, l) \/ LayerWaited(r, l)

FunctionStep(r, f) ==
  \/ NeedsFailed(r, f) \/ UpdateCode(r, f) \/ CodeWaited(r, f)
  \/ PublishVersion(r, f) \/ UpdateAlias(r, f)

Next ==
  \/ \E j \in LayerJobs : LayerStep(j[1], j[2])
  \/ \E j \in FunctionJobs : FunctionStep(j[1], j[2])
  \/ \E r \in 1..Runs : UpdateStateMachine(r)
  \/ \E f \in Functions : UpdateDone(f)
  \/ \E j \in Jobs : JobFails(j)

Spec == Init /\ [][Next]_vars

\* Runners make progress and Lambda finishes the updates it accepts.
FairSpec ==
  /\ Spec
  /\ \A j \in LayerJobs : WF_vars(LayerStep(j[1], j[2]))
  /\ \A j \in FunctionJobs : WF_vars(FunctionStep(j[1], j[2]))
  /\ \A r \in 1..Runs : WF_vars(UpdateStateMachine(r))
  /\ \A f \in Functions : WF_vars(UpdateDone(f))

-----------------------------------------------------------------------------
(* Properties *)

\* The layer a function needs, as the r-th push has it, is among those given.
Carries(layers, l, r) ==
  \E a \in layers : a.layer = l /\ published[l][a.version] = Commits[r][l]

\* A version is served with the layer its code needs: the one that the push
\* of that code asks for.
ServedWithLayer ==
  \A j \in FunctionJobs :
    pc[j] = "done"
      => Carries(versions[j[2]][mine[j]].layers, NeededLayer(j[2]), j[1])

\* As long as nothing fails, every job done is served with its layer.
ServedWhenFaultless == faults = 0 => ServedWithLayer

\* A layer job that skips leaves the function that needs the layer with it.
SkippedMeansAttached ==
  \A r \in 1..Runs : \A f \in Functions :
    pc[<<r, NeededLayer(f)>>] = "skipped"
    /\ (r = Runs \/ pc[<<r + 1, NeededLayer(f)>>] = "start")
      => Carries(attached[f], NeededLayer(f), r)

\* As long as nothing fails, what a skipping job relies on is there.
SkipSoundWhenFaultless == faults = 0 => SkippedMeansAttached

\* A function never has two versions of one layer.
OneVersionPerLayer ==
  \A f \in Functions : \A a, b \in attached[f] : a.layer = b.layer => a = b

\* The alias serves the code of the newest push that was delivered.
AliasServesNewest ==
  \A f \in Functions : \A r \in 1..Runs :
    pc[<<r, f>>] = "done" /\ (\A q \in (r + 1)..Runs : pc[<<q, f>>] # "done")
      => versions[f][alias[f]].code = r

\* The state machine never has a workflow that is newer than the code which it
\* invokes by the alias, whichever job of its push fails and whatever follows.
WorkflowNotAhead ==
  LET f == "delete-user"
  IN  workflow > 0 => alias[f] > 0 /\ versions[f][alias[f]].code >= workflow

\* Every run comes to an end.
EveryRunEnds == \A r \in 1..Runs : <>RunEnded(r)
=============================================================================
