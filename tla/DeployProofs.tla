---------------------------- MODULE DeployProofs ----------------------------
(***************************************************************************)
(* What holds of the delivery pipeline for every number of pushes, whatever*)
(* they change and however calls and runners fail.  Without a condition:   *)
(* types, one version of a layer, nothing delivered that refers to what is *)
(* not there, and jobs that come to their end.  As long as jobs keep an    *)
(* order, which no workflow promises: what an alias serves, what the       *)
(* workflow invokes, and the layers that functions run with.               *)
(***************************************************************************)
EXTENDS Deploy, FiniteSetTheorems, TLAPS

-----------------------------------------------------------------------------
(* Shapes of the state *)

Version == [layer : Layers, version : Nat]
Frozen == [code : Nat, layers : SUBSET Version]
Step == {"start", "publish", "read", "update", "wait", "alias"} \cup Ended

\* The types the arguments below need; TypeOK bounds the numbers as well.
Shape ==
  /\ published \in [Layers -> Seq(Nat)]
  /\ attached \in [Functions -> SUBSET Version]
  /\ code \in [Functions -> Nat]
  /\ versions \in [Functions -> Seq(Frozen)]
  /\ alias \in [Functions -> Nat]
  /\ pc \in [Jobs -> Step]
  /\ mine \in [Jobs -> Nat]
  /\ todo \in [LayerJobs -> Seq(Functions)]
  /\ seen \in [LayerJobs -> SUBSET Version]

\* In its loop a layer job has a function to attach to.
InLoop ==
  \A j \in LayerJobs : pc[j] \in {"read", "update", "wait"} => todo[j] # <<>>

ShapeInv == Shape /\ InLoop

LEMMA JobPairs ==
  /\ \A r \in 1..Runs, l \in Layers : <<r, l>> \in Jobs /\ <<r, l>> \in LayerJobs
  /\ \A r \in 1..Runs, f \in Functions :
       <<r, f>> \in Jobs /\ <<r, f>> \in FunctionJobs /\ <<r, f>> \notin LayerJobs
  /\ \A r \in 1..Runs :
       /\ <<r, StateMachine>> \in Jobs
       /\ <<r, StateMachine>> \notin LayerJobs \cup FunctionJobs
  /\ LayerJobs \subseteq Jobs /\ FunctionJobs \subseteq Jobs
BY DEF Jobs, Names, LayerJobs, FunctionJobs, Layers, Functions, StateMachine

\* Next, with its jobs as pairs.
LEMMA Steps ==
  ASSUME [Next]_vars
  PROVE  \/ UNCHANGED vars
         \/ \E r \in 1..Runs, l \in Layers : LayerStep(r, l)
         \/ \E r \in 1..Runs, f \in Functions : FunctionStep(r, f)
         \/ \E r \in 1..Runs : UpdateStateMachine(r)
         \/ \E f \in Functions : UpdateDone(f)
         \/ \E j \in Jobs : JobFails(j)
BY DEF Next, LayerJobs, FunctionJobs

LEMMA ShapeInit == Init => ShapeInv
<1> SUFFICES ASSUME Init PROVE ShapeInv
  OBVIOUS
<1>1. \A f \in Functions : NeededLayer(f) \in Layers
  BY DEF NeededLayer, Layers, Functions
<1>2. attached \in [Functions -> SUBSET Version]
  BY <1>1 DEF Init, Version, Layers
<1>3. published \in [Layers -> Seq(Nat)] /\ versions \in [Functions -> Seq(Frozen)]
  BY DEF Init
<1>4. todo \in [LayerJobs -> Seq(Functions)]
  BY DEF Init
<1> QED
  BY <1>2, <1>3, <1>4, JobPairs DEF Init, ShapeInv, Shape, InLoop, Step

LEMMA ConsumersTyped ==
  ASSUME NEW l PROVE Consumers(l) \in Seq(Functions) /\ Consumers(l) # <<>>
<1>1. <<"delete-user", "jwt-authorizer">> \in Seq(Functions)
  BY DEF Functions
<1>2. <<"jwt-authorizer">> \in Seq(Functions)
  BY DEF Functions
<1>3. <<"delete-user", "jwt-authorizer">> # <<>> /\ <<"jwt-authorizer">> # <<>>
  OBVIOUS
<1> QED
  BY <1>1, <1>2, <1>3 DEF Consumers

LEMMA Replaced ==
  ASSUME NEW D, NEW S, NEW g \in [D -> S], NEW d, NEW v \in S
  PROVE  [g EXCEPT ![d] = v] \in [D -> S]
OBVIOUS

LEMMA Longer ==
  ASSUME NEW S, NEW s \in Seq(S), NEW e \in S
  PROVE  Append(s, e) \in Seq(S) /\ Len(s) \in Nat
OBVIOUS

LEMMA Shorter ==
  ASSUME NEW S, NEW s \in Seq(S), s # <<>>
  PROVE  Tail(s) \in Seq(S) /\ Head(s) \in S /\ (Len(s) # 1 => Tail(s) # <<>>)
<1>1. Len(s) \in Nat /\ Len(s) # 0
  OBVIOUS
<1>2. Tail(s) \in Seq(S) /\ Head(s) \in S /\ Len(Tail(s)) = Len(s) - 1
  BY <1>1
<1> QED
  BY <1>1, <1>2

\* A layer job's step keeps the shapes.
LEMMA ShapeLayerStep ==
  ASSUME ShapeInv, NEW r \in 1..Runs, NEW l \in Layers, LayerStep(r, l)
  PROVE  ShapeInv'
<1> DEFINE j == <<r, l>>
<1> USE JobPairs DEF ShapeInv, Shape, InLoop, Goto, Step, Ended, aws
<1>0. j \in Jobs /\ j \in LayerJobs
  OBVIOUS
<1>1. Commits[r][l] \in Nat
  BY DeployAssumption
<1>2. CASE Compare(r, l)
  BY <1>0, <1>2 DEF Compare
<1>3. CASE PublishLayer(r, l)
  <2>1. Consumers(l) \in Seq(Functions) /\ Consumers(l) # <<>>
    BY ConsumersTyped
  <2>2. published' \in [Layers -> Seq(Nat)] /\ mine' \in [Jobs -> Nat]
    BY <1>0, <1>1, <1>3 DEF PublishLayer
  <2>3. todo' \in [LayerJobs -> Seq(Functions)] /\ pc' \in [Jobs -> Step] /\ InLoop'
    BY <1>0, <1>3, <2>1 DEF PublishLayer
  <2> QED
    BY <1>3, <2>2, <2>3 DEF PublishLayer
<1>4. CASE ReadLayers(r, l)
  <2>1. Head(todo[j]) \in Functions
    BY <1>0, <1>4 DEF ReadLayers
  <2>2. seen' \in [LayerJobs -> SUBSET Version]
    BY <1>0, <1>4, <2>1 DEF ReadLayers
  <2> QED
    BY <1>0, <1>4, <2>2 DEF ReadLayers
<1>5. CASE UpdateLayers(r, l)
  <2>1. Merged(l, seen[j], mine[j]) \in SUBSET Version
    BY <1>0 DEF Merged, Version
  <2>2. attached' \in [Functions -> SUBSET Version]
    <3>1. \/ attached' = attached
          \/ attached' = [attached EXCEPT
                            ![Head(todo[j])] = Merged(l, seen[j], mine[j])]
      BY <1>5 DEF UpdateLayers
    <3> QED
      BY <2>1, <3>1
  <2>3. pc' = [pc EXCEPT ![j] = "failed"] \/ pc' = [pc EXCEPT ![j] = "wait"]
    BY <1>5 DEF UpdateLayers
  <2>4. pc[j] = "update"
        /\ UNCHANGED <<published, code, versions, alias, mine, todo, seen>>
    BY <1>5 DEF UpdateLayers
  <2>5. pc' \in [Jobs -> Step] /\ InLoop'
    BY <1>0, <2>3, <2>4
  <2> QED
    BY <2>2, <2>4, <2>5
<1>6. CASE LayerWaited(r, l)
  <2>1. todo[j] \in Seq(Functions) /\ todo[j] # <<>>
    BY <1>0, <1>6 DEF LayerWaited
  <2>2. Tail(todo[j]) \in Seq(Functions) /\ (Len(todo[j]) # 1 => Tail(todo[j]) # <<>>)
    BY <2>1, Shorter
  <2>3. todo' \in [LayerJobs -> Seq(Functions)] /\ pc' \in [Jobs -> Step]
    BY <1>0, <1>6, <2>2 DEF LayerWaited
  <2>4. InLoop'
    BY <1>0, <1>6, <2>2 DEF LayerWaited
  <2> QED
    BY <1>6, <2>3, <2>4 DEF LayerWaited
<1> QED
  BY <1>2, <1>3, <1>4, <1>5, <1>6 DEF LayerStep

\* A function job's step keeps the shapes.
LEMMA ShapeFunctionStep ==
  ASSUME ShapeInv, NEW r \in 1..Runs, NEW f \in Functions, FunctionStep(r, f)
  PROVE  ShapeInv'
<1> DEFINE j == <<r, f>>
<1> USE JobPairs, DeployAssumption DEF ShapeInv, Shape, InLoop, Goto, Step, Ended, aws
<1>0. j \in Jobs /\ j \notin LayerJobs /\ r \in Nat
  OBVIOUS
<1>1. CASE NeedsFailed(r, f) \/ CodeWaited(r, f)
  BY <1>0, <1>1 DEF NeedsFailed, CodeWaited
<1>2. CASE UpdateCode(r, f)
  <2>1. /\ code' = code \/ code' = [code EXCEPT ![f] = r]
        /\ \E s \in {"failed", "wait"} : pc' = [pc EXCEPT ![j] = s]
        /\ UNCHANGED <<published, attached, versions, alias, mine, todo, seen>>
    BY <1>2 DEF UpdateCode
  <2>2. code' \in [Functions -> Nat]
    <3>1. code \in [Functions -> Nat]
      OBVIOUS
    <3> QED
      BY ONLY <1>0, <2>1, <3>1, Replaced
  <2>3. pc' \in [Jobs -> Step] /\ InLoop'
    BY <1>0, <2>1
  <2> QED
    BY <2>1, <2>2, <2>3
<1>3. CASE PublishVersion(r, f)
  <2> DEFINE latest == [code |-> code[f], layers |-> attached[f]]
  <2>1. latest \in Frozen
    BY DEF Frozen
  <2> HIDE DEF latest
  <2> DEFINE n == Len(versions[f])
             longer == Append(versions[f], latest)
  <2>2. /\ versions' = versions \/ versions' = [versions EXCEPT ![f] = longer]
        /\ \E m \in {mine[j], n, n + 1} : mine' = mine \/ mine' = [mine EXCEPT ![j] = m]
        /\ \E s \in {"failed", "alias"} : pc' = [pc EXCEPT ![j] = s]
        /\ UNCHANGED <<published, attached, code, alias, todo, seen>>
    BY <1>3 DEF PublishVersion, latest
  <2>3. longer \in Seq(Frozen) /\ n \in Nat /\ mine[j] \in Nat
    BY <1>0, <2>1, Longer
  <2> HIDE DEF longer, n
  <2>4. versions' \in [Functions -> Seq(Frozen)]
    <3>1. versions \in [Functions -> Seq(Frozen)]
      OBVIOUS
    <3>2. [versions EXCEPT ![f] = longer] \in [Functions -> Seq(Frozen)]
      BY ONLY <2>3, <3>1, Replaced
    <3> QED
      BY ONLY <2>2, <3>1, <3>2
  <2>6. mine' \in [Jobs -> Nat]
    <3>1. mine \in [Jobs -> Nat] /\ {mine[j], n, n + 1} \subseteq Nat
      BY <2>3
    <3>2. \A m \in {mine[j], n, n + 1} : [mine EXCEPT ![j] = m] \in [Jobs -> Nat]
      BY ONLY <3>1, Replaced
    <3> QED
      BY ONLY <2>2, <3>1, <3>2
  <2>5. pc' \in [Jobs -> Step] /\ InLoop'
    BY <1>0, <2>2
  <2> QED
    BY <2>2, <2>4, <2>5, <2>6
<1>4. CASE UpdateAlias(r, f)
  BY <1>0, <1>4 DEF UpdateAlias
<1> QED
  BY <1>1, <1>2, <1>3, <1>4 DEF FunctionStep

LEMMA ShapeStep == ShapeInv /\ [Next]_vars => ShapeInv'
<1> SUFFICES ASSUME ShapeInv, [Next]_vars PROVE ShapeInv'
  OBVIOUS
<1>1. CASE UNCHANGED vars
  BY <1>1 DEF ShapeInv, Shape, InLoop, vars, aws, jobs
<1>2. ASSUME NEW f \in Functions, UpdateDone(f) PROVE ShapeInv'
  BY <1>2 DEF ShapeInv, Shape, InLoop, UpdateDone, jobs
<1>3. ASSUME NEW j \in Jobs, JobFails(j) PROVE ShapeInv'
  BY <1>3, JobPairs DEF ShapeInv, Shape, InLoop, JobFails, Goto, Step, Ended, aws
<1>4. ASSUME NEW r \in 1..Runs, UpdateStateMachine(r) PROVE ShapeInv'
  BY <1>4, JobPairs DEF ShapeInv, Shape, InLoop, UpdateStateMachine, Goto, Step, Ended
<1> QED
  BY <1>1, <1>2, <1>3, <1>4, Steps, ShapeLayerStep, ShapeFunctionStep

-----------------------------------------------------------------------------
(* One version of a layer *)

Single(layers) == \A a, b \in layers : a.layer = b.layer => a = b

\* What a layer job read has one version of each layer as well.
SingleInv ==
  (\A f \in Functions : Single(attached[f])) /\ (\A j \in LayerJobs : Single(seen[j]))

LEMMA SingleInit == Init => SingleInv
BY DEF Init, SingleInv, Single

LEMMA SingleStep == ShapeInv /\ SingleInv /\ [Next]_vars => SingleInv'
<1> SUFFICES ASSUME ShapeInv, SingleInv, [Next]_vars PROVE SingleInv'
  OBVIOUS
<1>1. CASE UNCHANGED <<attached, seen>>
  BY <1>1 DEF SingleInv
<1>2. ASSUME NEW r \in 1..Runs, NEW l \in Layers, ReadLayers(r, l) PROVE SingleInv'
  <2>1. /\ <<r, l>> \in LayerJobs /\ pc[<<r, l>>] = "read" /\ attached' = attached
        /\ \/ seen' = [seen EXCEPT ![<<r, l>>] = attached[Head(todo[<<r, l>>])]]
           \/ seen' = [seen EXCEPT ![<<r, l>>] = {}]
    BY <1>2, JobPairs DEF ReadLayers, aws
  <2>2. Head(todo[<<r, l>>]) \in Functions
    BY <2>1 DEF ShapeInv, Shape, InLoop
  <2>3. Single({}) /\ Single(attached[Head(todo[<<r, l>>])])
    BY <2>2 DEF SingleInv, Single
  <2> QED
    BY <2>1, <2>3 DEF SingleInv, ShapeInv, Shape
<1>3. ASSUME NEW r \in 1..Runs, NEW l \in Layers, UpdateLayers(r, l) PROVE SingleInv'
  <2> DEFINE new == Merged(l, seen[<<r, l>>], mine[<<r, l>>])
  <2>1. Single(seen[<<r, l>>]) /\ seen[<<r, l>>] \subseteq Version
    BY JobPairs DEF SingleInv, ShapeInv, Shape
  <2>2. Single(new)
    BY <2>1 DEF Merged, Single
  <2>3. /\ seen' = seen
        /\ \E f : attached' = attached \/ attached' = [attached EXCEPT ![f] = new]
    BY <1>3 DEF UpdateLayers
  <2> QED
    BY <2>2, <2>3 DEF SingleInv, ShapeInv, Shape
<1>4. \A r \in 1..Runs, l \in Layers :
        LayerStep(r, l) =>
          UNCHANGED <<attached, seen>> \/ ReadLayers(r, l) \/ UpdateLayers(r, l)
  BY DEF LayerStep, Compare, PublishLayer, LayerWaited, aws
<1>5. \A r \in 1..Runs, f \in Functions : FunctionStep(r, f) => UNCHANGED <<attached, seen>>
  BY DEF FunctionStep, NeedsFailed, UpdateCode, CodeWaited, PublishVersion, UpdateAlias, aws
<1>6. UNCHANGED vars \/ (\E r \in 1..Runs : UpdateStateMachine(r))
        \/ (\E f \in Functions : UpdateDone(f)) \/ (\E j \in Jobs : JobFails(j))
        => UNCHANGED <<attached, seen>>
  BY DEF vars, UpdateStateMachine, UpdateDone, JobFails, aws, jobs
<1> QED
  BY <1>1, <1>2, <1>3, <1>4, <1>5, <1>6, Steps

\* No function ever gets two versions of one layer, which Lambda would refuse,
\* however the jobs that attach layers interleave and fail.
THEOREM OneVersion == Spec => []OneVersionPerLayer
<1>1. Init => ShapeInv /\ SingleInv
  BY ShapeInit, SingleInit
<1>2. ShapeInv /\ SingleInv /\ [Next]_vars => (ShapeInv /\ SingleInv)'
  BY ShapeStep, SingleStep
<1>3. ShapeInv /\ SingleInv => OneVersionPerLayer
  BY DEF SingleInv, Single, OneVersionPerLayer
<1> QED
  BY <1>1, <1>2, <1>3, PTL DEF Spec

-----------------------------------------------------------------------------
(* What the alias serves, and what invokes it *)

\* The jobs of a function come one after the other, in the order of their
\* pushes: one that has begun, and has not failed, finds those before it ended.
\* No workflow of the repository promises it, and runs may overlap otherwise.
InTurn ==
  \A f \in Functions : \A q, r \in 1..Runs :
    q < r /\ pc[<<r, f>>] \notin {"start", "failed"} => pc[<<q, f>>] \in Ended

\* The jobs that bring function f its layer and its code come push by push:
\* no layer job begins before the layer job and the function job of the earlier
\* pushes have ended.  The chains of the two functions may overlap, and so may
\* the two layer jobs of a push.
ChainsInOrder ==
  \A f \in Functions : \A q, r \in 1..Runs :
    q < r /\ pc[<<r, NeededLayer(f)>>] # "start"
      => pc[<<q, NeededLayer(f)>>] \in Ended /\ pc[<<q, f>>] \in Ended

\* The code of a function job under way is in $LATEST, then in its version;
\* what the alias serves is no older than any job that is done.
Served(r, f) ==
  /\ pc[<<r, f>>] \in {"wait", "publish"} => code[f] = r
  /\ pc[<<r, f>>] = "alias" =>
       /\ mine[<<r, f>>] \in 1..Len(versions[f])
       /\ versions[f][mine[<<r, f>>]].code = r
  /\ pc[<<r, f>>] = "done" =>
       /\ alias[f] \in 1..Len(versions[f])
       /\ versions[f][alias[f]].code >= r

\* The state machine has the workflow of a push that has delivered delete-user.
Invoked == workflow # 0 => workflow \in 1..Runs /\ pc[<<workflow, "delete-user">>] = "done"

AliasInv ==
  /\ \A r \in 1..Runs : \A f \in Functions : Served(r, f)
  /\ AliasServesNewest

LEMMA AliasInit == Init => AliasInv
<1> SUFFICES ASSUME Init PROVE AliasInv
  OBVIOUS
<1>1. \A r \in 1..Runs, n \in Names : pc[<<r, n>>] = "start"
  BY DEF Init, Jobs, Names
<1> QED
  BY <1>1 DEF AliasInv, Served, AliasServesNewest, Names

\* Job j, which has not ended, makes a step.
Moves(j, s) == pc' = [pc EXCEPT ![j] = s] /\ pc[j] \notin Ended

LEMMA LayerMoves ==
  ASSUME NEW r \in 1..Runs, NEW l \in Layers, LayerStep(r, l)
  PROVE  /\ \E s : Moves(<<r, l>>, s)
         /\ UNCHANGED <<code, versions, alias, workflow>>
         /\ mine' = mine \/ \E v : mine' = [mine EXCEPT ![<<r, l>>] = v]
<1>1. l \in Names /\ <<r, l>>[1] = r
  BY DEF Names
<1>2. CASE Compare(r, l)
  BY <1>1, <1>2 DEF Compare, Goto, Moves, Ended, aws
<1>3. CASE PublishLayer(r, l) \/ ReadLayers(r, l) \/ LayerWaited(r, l)
  BY <1>1, <1>3 DEF PublishLayer, ReadLayers, LayerWaited, Goto, Moves, Ended, aws
<1>4. CASE UpdateLayers(r, l)
  <2>1. /\ pc[<<r, l>>] = "update" /\ UNCHANGED <<code, versions, alias, workflow, mine>>
        /\ pc' = [pc EXCEPT ![<<r, l>>] = "failed"] \/ pc' = [pc EXCEPT ![<<r, l>>] = "wait"]
    BY <1>4 DEF UpdateLayers, Goto
  <2> QED
    BY <1>1, <2>1 DEF Moves, Ended
<1> QED
  BY <1>2, <1>3, <1>4 DEF LayerStep

LEMMA FunctionMoves ==
  ASSUME NEW r \in 1..Runs, NEW f \in Functions, FunctionStep(r, f)
  PROVE  \E s : Moves(<<r, f>>, s)
<1>1. f \in Names /\ <<r, f>>[1] = r /\ NeededLayer(f) \in Names
  BY DEF Names, NeededLayer, Layers
<1>2. CASE NeedsFailed(r, f) \/ CodeWaited(r, f) \/ UpdateAlias(r, f)
  BY <1>1, <1>2 DEF NeedsFailed, CodeWaited, UpdateAlias, Goto, Moves, Ended
<1>3. CASE UpdateCode(r, f)
  BY <1>1, <1>3 DEF UpdateCode, LayerReady, Goto, Moves, Ended
<1>4. CASE PublishVersion(r, f)
  BY <1>1, <1>4 DEF PublishVersion, Goto, Moves, Ended
<1> QED
  BY <1>2, <1>3, <1>4 DEF FunctionStep

LEMMA MachineMoves ==
  ASSUME NEW r \in 1..Runs, UpdateStateMachine(r)
  PROVE  /\ \E s : Moves(<<r, StateMachine>>, s)
         /\ UNCHANGED <<code, versions, alias, mine>>
BY DEF UpdateStateMachine, Goto, Moves, Ended

\* The push of a job that makes a step has come, if no job of it had begun.
LEMMA StepInTurn ==
  ASSUME [Next]_vars
  PROVE  \/ UNCHANGED pc
         \/ \E r \in 1..Runs, n \in Names :
              /\ \E s : Moves(<<r, n>>, s)
              /\ Pushed(r) \/ \E m \in Names : pc[<<r, m>>] # "start"
<1>0. \A f \in Functions : NeededLayer(f) \in Names /\ f \in Names /\ StateMachine \in Names
  BY DEF Names, NeededLayer, Layers
<1>1. ASSUME NEW r \in 1..Runs, NEW l \in Layers, LayerStep(r, l)
      PROVE  Pushed(r) \/ pc[<<r, l>>] # "start"
  BY <1>1 DEF LayerStep, Compare, PublishLayer, ReadLayers, UpdateLayers, LayerWaited
<1>2. ASSUME NEW r \in 1..Runs, NEW f \in Functions, FunctionStep(r, f)
      PROVE  pc[<<r, f>>] # "start" \/ pc[<<r, NeededLayer(f)>>] # "start"
  BY <1>2 DEF FunctionStep, NeedsFailed, UpdateCode, LayerReady, CodeWaited,
     PublishVersion, UpdateAlias
<1>3. ASSUME NEW r \in 1..Runs, UpdateStateMachine(r) PROVE pc[<<r, "delete-user">>] # "start"
  BY <1>3 DEF UpdateStateMachine, FunctionReady
<1>4. ASSUME NEW j \in Jobs, JobFails(j)
      PROVE  \E r \in 1..Runs, n \in Names : Moves(<<r, n>>, "failed") /\ Pushed(r)
  <2>1. PICK r \in 1..Runs, n \in Names : j = <<r, n>>
    BY DEF Jobs
  <2> QED
    BY <1>4, <2>1 DEF JobFails, Goto, Moves
<1>5. UNCHANGED vars \/ (\E f \in Functions : UpdateDone(f)) => UNCHANGED pc
  BY DEF vars, jobs, UpdateDone
<1>6. "delete-user" \in Names /\ Layers \subseteq Names
  BY DEF Names, Functions
<1> DEFINE Turn == \E r \in 1..Runs, n \in Names :
                     /\ \E s : Moves(<<r, n>>, s)
                     /\ Pushed(r) \/ \E m \in Names : pc[<<r, m>>] # "start"
<1>7. ASSUME NEW r \in 1..Runs, NEW n \in Names, NEW s, Moves(<<r, n>>, s),
             Pushed(r) \/ \E m \in Names : pc[<<r, m>>] # "start"
      PROVE  Turn
  BY <1>7
<1> HIDE DEF Turn
<1>8. ASSUME NEW r \in 1..Runs, NEW l \in Layers, LayerStep(r, l) PROVE Turn
  BY <1>1, <1>6, <1>7, <1>8, LayerMoves
<1>9. ASSUME NEW r \in 1..Runs, NEW f \in Functions, FunctionStep(r, f) PROVE Turn
  BY <1>0, <1>2, <1>7, <1>9, FunctionMoves
<1>10. ASSUME NEW r \in 1..Runs, UpdateStateMachine(r) PROVE Turn
  BY <1>0, <1>3, <1>6, <1>7, <1>10, MachineMoves DEF Names
<1>11. ASSUME NEW j \in Jobs, JobFails(j) PROVE Turn
  BY <1>4, <1>7, <1>11
<1> QED
  BY <1>5, <1>8, <1>9, <1>10, <1>11, Steps DEF Turn

\* A run has begun only when those before it have ended.
Turns ==
  \A q, r \in 1..Runs :
    q < r /\ (\E n \in Names : pc[<<r, n>>] # "start") => RunEnded(q)

LEMMA TurnsStep ==
  ASSUME ~Overlap, ShapeInv, Turns, [Next]_vars
  PROVE  Turns'
<1>1. CASE UNCHANGED pc
  BY <1>1 DEF Turns, RunEnded
<1>2. ASSUME NEW r \in 1..Runs, NEW m \in Names, NEW s, Moves(<<r, m>>, s),
             Pushed(r) \/ \E n \in Names : pc[<<r, n>>] # "start"
      PROVE  Turns'
  <2>1. \A q \in 1..Runs, n \in Names :
          <<q, n>> # <<r, m>> => pc'[<<q, n>>] = pc[<<q, n>>]
    BY <1>2 DEF Moves, Jobs, ShapeInv, Shape
  <2>2. \A q \in 1..Runs : RunEnded(q) => RunEnded(q)'
    BY <1>2, <2>1 DEF RunEnded, Moves
  <2>3. ASSUME NEW p \in 1..Runs, NEW q \in 1..Runs, p < q, NEW n \in Names,
               pc'[<<q, n>>] # "start"
        PROVE  RunEnded(p)
    <3>1. CASE q = r /\ Pushed(r)
      BY <2>3, <3>1, DeployAssumption DEF Pushed
    <3>2. CASE q = r /\ \E k \in Names : pc[<<r, k>>] # "start"
      BY <2>3, <3>2 DEF Turns
    <3>3. CASE q # r
      BY <2>1, <2>3, <3>3 DEF Turns
    <3> QED
      BY <1>2, <3>1, <3>2, <3>3
  <2> QED
    BY <2>2, <2>3 DEF Turns
<1> QED
  BY <1>1, <1>2, StepInTurn

\* Pushes that wait for the runs before them keep both orders, whatever fails:
\* what is proved of behaviours in order is true of every such delivery.
THEOREM SerialRunsInOrder == ASSUME ~Overlap PROVE Spec => [](InTurn /\ ChainsInOrder)
<1>1. Init => ShapeInv /\ Turns
  BY ShapeInit DEF Init, Turns, Jobs
<1>2. ShapeInv /\ Turns /\ [Next]_vars => (ShapeInv /\ Turns)'
  BY ShapeStep, TurnsStep
<1>3. Turns => InTurn /\ ChainsInOrder
  BY DEF Turns, RunEnded, InTurn, ChainsInOrder, Names, NeededLayer, Layers, Functions
<1> QED
  BY <1>1, <1>2, <1>3, PTL DEF Spec

\* A step that changes no function's version, code and alias keeps what it
\* serves, unless it finishes a function job.
LEMMA ServedKept ==
  ASSUME ShapeInv, AliasInv, UNCHANGED <<code, versions, alias>>,
         NEW j \in Jobs,
         j \in FunctionJobs =>
           pc'[j] = "failed" \/ (pc[j] = "wait" /\ pc'[j] = "publish"),
         \A i \in FunctionJobs \ {j} : pc'[i] = pc[i],
         \A i \in FunctionJobs : mine'[i] = mine[i],
         pc[j] \notin Ended
  PROVE  (\A r \in 1..Runs : \A f \in Functions : Served(r, f)') /\ AliasServesNewest'
<1>1. \A r \in 1..Runs, f \in Functions : <<r, f>> \in FunctionJobs
  BY DEF FunctionJobs
<1>2. \A i \in FunctionJobs : pc'[i] = "done" <=> pc[i] = "done"
  BY DEF Ended
<1>3. ASSUME NEW r \in 1..Runs, NEW f \in Functions PROVE Served(r, f)'
  <2>1. Served(r, f)
    BY DEF AliasInv
  <2>2. <<r, f>> \in FunctionJobs
    BY <1>1
  <2>3. CASE <<r, f>> # j
    BY <2>1, <2>2, <2>3 DEF Served
  <2>4. CASE <<r, f>> = j
    BY <2>1, <2>2, <2>4 DEF Served, Step, Ended
  <2> QED
    BY <2>3, <2>4
<1>4. AliasServesNewest'
  BY <1>1, <1>2 DEF AliasInv, AliasServesNewest
<1> QED
  BY <1>3, <1>4

\* The steps of a function job that change its code, versions or alias.
LEMMA FunctionServed ==
  ASSUME InTurn, InTurn', ShapeInv, AliasInv, NEW r \in 1..Runs, NEW f \in Functions,
         FunctionStep(r, f)
  PROVE  (\A q \in 1..Runs : \A g \in Functions : Served(q, g)') /\ AliasServesNewest'
<1> DEFINE j == <<r, f>>
           Goal == /\ \A q \in 1..Runs : \A g \in Functions : Served(q, g)'
                   /\ AliasServesNewest'
<1>1. /\ j \in Jobs /\ j \in FunctionJobs /\ r \in Nat
      /\ \A q \in 1..Runs, g \in Functions : <<q, g>> \in Jobs
      /\ pc \in [Jobs -> Step] /\ mine \in [Jobs -> Nat] /\ code \in [Functions -> Nat]
      /\ versions \in [Functions -> Seq(Frozen)] /\ alias \in [Functions -> Nat]
  BY JobPairs, DeployAssumption DEF ShapeInv, Shape
<1>2. /\ pc[j] \notin Ended
      /\ \A q \in 1..Runs, g \in Functions :
           <<q, g>> # j => pc'[<<q, g>>] = pc[<<q, g>>]
  <2>1. PICK s : Moves(j, s)
    BY FunctionMoves
  <2> QED
    BY <1>1, <2>1 DEF Moves
<1>t. \A q \in 1..Runs : q > r => pc[<<q, f>>] \in {"start", "failed"}
  BY <1>2 DEF InTurn
<1>3. ASSUME pc'[j] \notin {"start", "failed"}, NEW q \in 1..Runs, <<q, f>> # j
      PROVE  pc[<<q, f>>] \in Ended \/ pc[<<q, f>>] = "start"
  <2>1. CASE q > r
    BY <1>t, <2>1 DEF Ended
  <2>2. CASE q < r
    BY <1>2, <1>3, <2>2 DEF InTurn
  <2> QED
    BY <1>3, <2>1, <2>2, DeployAssumption
<1>4. \A q \in 1..Runs, g \in Functions : Served(q, g)
  BY DEF AliasInv
<1>f. ASSUME pc' = [pc EXCEPT ![j] = "failed"] \/
             (pc[j] = "wait" /\ pc' = [pc EXCEPT ![j] = "publish"]),
             UNCHANGED <<code, versions, alias, mine>>
      PROVE  Goal
  <2>1. FunctionJobs \subseteq Jobs
    BY JobPairs
  <2> QED
    BY <1>1, <1>2, <1>f, <2>1, ServedKept
<1>5. CASE NeedsFailed(r, f) \/ CodeWaited(r, f)
  BY <1>5, <1>f DEF NeedsFailed, CodeWaited, Goto, aws
<1>6. CASE UpdateCode(r, f)
  <2>1. CASE pc' = [pc EXCEPT ![j] = "wait"] /\ code' = [code EXCEPT ![f] = r]
             /\ UNCHANGED <<versions, alias, mine>>
    <3>1. \A q \in 1..Runs, g \in Functions : Served(q, g)'
      <4>1. code'[f] = r /\ \A g \in Functions \ {f} : code'[g] = code[g]
        BY <1>1, <2>1
      <4>2. /\ pc'[j] = "wait"
            /\ \A q \in 1..Runs, g \in Functions : <<q, g>> # j => pc'[<<q, g>>] = pc[<<q, g>>]
        BY <1>1, <2>1
      <4>3. Served(r, f)'
        BY <4>1, <4>2 DEF Served
      <4>4. ASSUME NEW q \in 1..Runs, <<q, f>> # j PROVE Served(q, f)'
        BY <1>3, <1>4, <2>1, <4>2, <4>4 DEF Served, Ended
      <4>5. ASSUME NEW q \in 1..Runs, NEW g \in Functions \ {f} PROVE Served(q, g)'
        BY <1>4, <2>1, <4>1, <4>2, <4>5 DEF Served
      <4> QED
        BY <4>3, <4>4, <4>5
    <3>2. \A q \in 1..Runs, g \in Functions : pc'[<<q, g>>] = "done" <=> pc[<<q, g>>] = "done"
      BY <1>1, <1>2, <2>1 DEF Ended
    <3>3. AliasServesNewest'
      BY <2>1, <3>2 DEF AliasInv, AliasServesNewest
    <3> QED
      BY <3>1, <3>3
  <2> QED
    BY <1>6, <1>f, <2>1 DEF UpdateCode, Goto
<1>7. CASE PublishVersion(r, f)
  <2> DEFINE latest == [code |-> code[f], layers |-> attached[f]]
             n == Len(versions[f])
             longer == Append(versions[f], latest)
  <2>1. code[f] = r /\ versions[f] \in Seq(Frozen) /\ n \in Nat /\ latest \in Frozen
    <3>1. code[f] = r
      BY <1>4, <1>7 DEF PublishVersion, Served
    <3>2. versions[f] \in Seq(Frozen) /\ n \in Nat
      BY <1>1
    <3>3. latest \in Frozen
      BY DEF ShapeInv, Shape, Frozen
    <3> QED
      BY <3>1, <3>2, <3>3
  <2>2. latest.code = r
    BY <2>1
  <2>3. /\ Len(longer) = n + 1 /\ longer[n + 1] = latest
        /\ \A i \in 1..n : longer[i] = versions[f][i]
    BY <2>1
  <2> HIDE DEF latest, longer
  <2>4. CASE /\ pc' = [pc EXCEPT ![j] = "alias"] /\ UNCHANGED <<code, alias>>
             /\ \/ /\ n > 0 /\ versions[f][n] = latest /\ versions' = versions
                   /\ mine' = [mine EXCEPT ![j] = n]
                \/ /\ versions' = [versions EXCEPT ![f] = longer]
                   /\ mine' = [mine EXCEPT ![j] = n + 1]
    <3>1. /\ mine'[j] \in 1..Len(versions'[f])
          /\ versions'[f][mine'[j]].code = r
          /\ \A i \in 1..n : i \in 1..Len(versions'[f]) /\ versions'[f][i] = versions[f][i]
          /\ \A g \in Functions \ {f} : versions'[g] = versions[g]
      <4> HIDE DEF n
      <4>1. CASE n > 0 /\ versions[f][n] = latest /\ versions' = versions
                 /\ mine' = [mine EXCEPT ![j] = n]
        BY <1>1, <2>1, <2>2, <4>1 DEF n
      <4>2. CASE versions' = [versions EXCEPT ![f] = longer]
                 /\ mine' = [mine EXCEPT ![j] = n + 1]
        <5>1. mine'[j] = n + 1 /\ versions'[f] = longer
          BY <1>1, <4>2
        <5>2. \A g \in Functions \ {f} : versions'[g] = versions[g]
          BY <1>1, <4>2
        <5>3. n + 1 \in 1..Len(longer) /\ \A i \in 1..n : i \in 1..Len(longer)
          BY <2>1, <2>3
        <5>4. longer[n + 1].code = r
          BY <2>2, <2>3
        <5> QED
          BY <2>3, <5>1, <5>2, <5>3, <5>4
      <4> QED
        BY <2>4, <4>1, <4>2
    <3>2. \A q \in 1..Runs, g \in Functions : Served(q, g)'
      <4>1. Served(r, f)'
        BY <1>1, <2>4, <3>1 DEF Served
      <4>2. ASSUME NEW q \in 1..Runs, <<q, f>> # j PROVE Served(q, f)'
        <5>1. pc'[j] = "alias"
          BY <1>1, <2>4
        <5>2. pc[<<q, f>>] \in Ended \/ pc[<<q, f>>] = "start"
          BY <1>3, <4>2, <5>1
        <5> QED
          BY <1>1, <1>4, <2>4, <3>1, <4>2, <5>2 DEF Served, Ended
      <4>3. ASSUME NEW q \in 1..Runs, NEW g \in Functions \ {f} PROVE Served(q, g)'
        BY <1>1, <1>4, <2>4, <3>1, <4>3 DEF Served
      <4> QED
        BY <4>1, <4>2, <4>3
    <3>3. \A q \in 1..Runs, g \in Functions : pc'[<<q, g>>] = "done" <=> pc[<<q, g>>] = "done"
      BY <1>1, <1>2, <2>4 DEF Ended
    <3>4. ASSUME NEW q \in 1..Runs, NEW g \in Functions, pc[<<q, g>>] = "done"
          PROVE  versions'[g][alias'[g]] = versions[g][alias[g]]
      BY <1>4, <2>4, <3>1, <3>4 DEF Served
    <3>5. AliasServesNewest'
      BY <3>3, <3>4 DEF AliasInv, AliasServesNewest
    <3> QED
      BY <3>2, <3>5
  <2> QED
    BY <1>7, <1>f, <2>4 DEF PublishVersion, Goto, latest, longer
<1>8. CASE UpdateAlias(r, f)
  <2>1. /\ pc[j] = "alias" /\ pc' = [pc EXCEPT ![j] = "done"]
        /\ alias' = [alias EXCEPT ![f] = mine[j]] /\ UNCHANGED <<code, versions, mine>>
    BY <1>8 DEF UpdateAlias, Goto
  <2>2. mine[j] \in 1..Len(versions[f]) /\ versions[f][mine[j]].code = r
    BY <1>4, <2>1 DEF Served
  <2>3. alias'[f] = mine[j] /\ \A g \in Functions \ {f} : alias'[g] = alias[g]
    BY <1>1, <2>1
  <2>4. \A q \in 1..Runs, g \in Functions : Served(q, g)'
    <3>1. /\ pc'[j] = "done"
          /\ \A q \in 1..Runs, g \in Functions : <<q, g>> # j => pc'[<<q, g>>] = pc[<<q, g>>]
      BY <1>1, <2>1
    <3>2. Served(r, f)'
      BY <2>1, <2>2, <2>3, <3>1 DEF Served
    <3>3. ASSUME NEW q \in 1..Runs, <<q, f>> # j PROVE Served(q, f)'
      <4>1. pc[<<q, f>>] \in Ended \/ pc[<<q, f>>] = "start"
        BY <1>3, <3>1, <3>3
      <4>2. pc'[<<q, f>>] = "done" => q < r
        <5>1. q # r /\ q \in Nat /\ r \in Nat
          BY <3>3, DeployAssumption
        <5>2. q > r => pc'[<<q, f>>] # "done"
          BY <1>t, <3>1, <3>3
        <5> QED
          BY <5>1, <5>2
      <4>3. versions'[f][alias'[f]].code = r /\ alias'[f] \in 1..Len(versions'[f])
        BY <2>1, <2>2, <2>3
      <4> QED
        BY <1>1, <3>1, <3>3, <4>1, <4>2, <4>3 DEF Served, Ended
    <3>4. ASSUME NEW q \in 1..Runs, NEW g \in Functions \ {f} PROVE Served(q, g)'
      BY <1>4, <2>1, <2>3, <3>1, <3>4 DEF Served
    <3> QED
      BY <3>2, <3>3, <3>4
  <2>5. AliasServesNewest'
    <3>1. ASSUME NEW g \in Functions, NEW q \in 1..Runs, pc'[<<q, g>>] = "done",
                 \A p \in (q + 1)..Runs : pc'[<<p, g>>] # "done"
          PROVE  versions'[g][alias'[g]].code = q
      <4>1. CASE g # f
        BY <1>1, <2>1, <2>3, <3>1, <4>1 DEF AliasInv, AliasServesNewest
      <4>2. CASE g = f /\ q = r
        BY <2>1, <2>2, <2>3, <4>2
      <4>3. CASE g = f /\ q < r
        <5>1. r \in (q + 1)..Runs /\ pc'[<<r, g>>] = "done"
          BY <1>1, <2>1, <4>3, DeployAssumption
        <5> QED
          BY <3>1, <5>1
      <4>4. CASE g = f /\ q > r
        BY <1>1, <1>2, <1>t, <2>1, <3>1, <4>4
      <4> QED
        BY <4>1, <4>2, <4>3, <4>4, DeployAssumption
    <3> QED
      BY <3>1 DEF AliasServesNewest
  <2> QED
    BY <2>4, <2>5
<1> QED
  BY <1>5, <1>6, <1>7, <1>8 DEF FunctionStep

LEMMA AliasStep ==
  InTurn /\ InTurn' /\ ShapeInv /\ AliasInv /\ [Next]_vars => AliasInv'
<1> SUFFICES ASSUME InTurn, InTurn', ShapeInv, AliasInv, [Next]_vars PROVE AliasInv'
  OBVIOUS
<1>1. ASSUME UNCHANGED <<code, versions, alias, pc, mine>> PROVE AliasInv'
  BY <1>1 DEF AliasInv, Served, AliasServesNewest
<1>2. ASSUME NEW r \in 1..Runs, NEW l \in Layers, LayerStep(r, l) PROVE AliasInv'
  <2>1. PICK s : Moves(<<r, l>>, s)
    BY <1>2, LayerMoves
  <2>3. <<r, l>> \in Jobs /\ <<r, l>> \notin FunctionJobs
    BY JobPairs DEF Layers, Functions, FunctionJobs
  <2>4. \A i \in FunctionJobs : pc'[i] = pc[i] /\ mine'[i] = mine[i]
    <3>1. pc' = [pc EXCEPT ![<<r, l>>] = s]
      BY <2>1 DEF Moves
    <3>2. mine' = mine \/ \E v : mine' = [mine EXCEPT ![<<r, l>>] = v]
      BY <1>2, LayerMoves
    <3>3. pc \in [Jobs -> Step] /\ mine \in [Jobs -> Nat] /\ FunctionJobs \subseteq Jobs
      BY JobPairs DEF ShapeInv, Shape
    <3> QED
      BY <2>3, <3>1, <3>2, <3>3
  <2>5. pc[<<r, l>>] \notin Ended /\ UNCHANGED <<code, versions, alias>>
    BY <1>2, <2>1, LayerMoves DEF Moves
  <2> QED
    BY <2>3, <2>4, <2>5, ServedKept DEF AliasInv
<1>3. ASSUME NEW r \in 1..Runs, NEW f \in Functions, FunctionStep(r, f) PROVE AliasInv'
  BY <1>3, FunctionServed DEF AliasInv
<1>4. ASSUME NEW j \in Jobs, JobFails(j) PROVE AliasInv'
  <2>1. /\ Moves(j, "failed") /\ UNCHANGED <<code, versions, alias, mine>>
        /\ pc' = [pc EXCEPT ![j] = "failed"] /\ pc[j] \notin Ended
    BY <1>4 DEF JobFails, Goto, Moves, aws
  <2>4. \A i \in FunctionJobs \ {j} : pc'[i] = pc[i]
    BY <2>1, JobPairs DEF ShapeInv, Shape
  <2>5. pc'[j] = "failed"
    BY <2>1 DEF ShapeInv, Shape
  <2> QED
    BY <2>1, <2>4, <2>5, ServedKept DEF AliasInv
<1>5. UNCHANGED vars \/ (\E f \in Functions : UpdateDone(f))
        => UNCHANGED <<code, versions, alias, pc, mine>>
  BY DEF vars, aws, jobs, UpdateDone
<1>6. ASSUME NEW r \in 1..Runs, UpdateStateMachine(r) PROVE AliasInv'
  <2>1. PICK s : Moves(<<r, StateMachine>>, s)
    BY <1>6, MachineMoves
  <2>3. <<r, StateMachine>> \in Jobs /\ <<r, StateMachine>> \notin FunctionJobs
    BY JobPairs
  <2>4. \A i \in FunctionJobs : pc'[i] = pc[i]
    BY <2>1, <2>3, JobPairs DEF Moves, ShapeInv, Shape
  <2>5. pc[<<r, StateMachine>>] \notin Ended /\ UNCHANGED <<code, versions, alias, mine>>
    BY <1>6, <2>1, MachineMoves DEF Moves
  <2> QED
    BY <2>3, <2>4, <2>5, ServedKept DEF AliasInv
<1> QED
  BY <1>1, <1>2, <1>3, <1>4, <1>5, <1>6, Steps

\* As long as the jobs of a function keep the order of their pushes, its alias
\* is at the code of the newest push that was delivered, however layer jobs
\* interleave with them, runs overlap, and calls or runners fail.
THEOREM AliasNewest == Spec /\ []InTurn => []AliasServesNewest
<1>1. Init => ShapeInv /\ AliasInv
  BY ShapeInit, AliasInit
<1>2. InTurn /\ InTurn' /\ ShapeInv /\ AliasInv /\ [Next]_vars => (ShapeInv /\ AliasInv)'
  BY ShapeStep, AliasStep
<1>3. ShapeInv /\ AliasInv => AliasServesNewest
  BY DEF AliasInv
<1> QED
  BY <1>1, <1>2, <1>3, PTL DEF Spec

\* Only the state machine's job changes the workflow, and no job comes back.
LEMMA InvokedStep == ShapeInv /\ Invoked /\ [Next]_vars => Invoked'
<1> SUFFICES ASSUME ShapeInv, Invoked, [Next]_vars PROVE Invoked'
  OBVIOUS
<1> DEFINE f == "delete-user"
<1>0. /\ \A r \in 1..Runs : <<r, f>> \in Jobs
      /\ pc \in [Jobs -> Step]
  BY DEF Functions, Names, Jobs, ShapeInv, Shape
<1>1. ASSUME NEW j \in Jobs, NEW s, Moves(j, s)
      PROVE  \A r \in 1..Runs : pc[<<r, f>>] = "done" => pc'[<<r, f>>] = "done"
  BY <1>0, <1>1 DEF Moves, Ended
<1>2. ASSUME UNCHANGED workflow,
             \A r \in 1..Runs : pc[<<r, f>>] = "done" => pc'[<<r, f>>] = "done"
      PROVE  Invoked'
  BY <1>2 DEF Invoked
<1>3. CASE UNCHANGED vars \/ \E g \in Functions : UpdateDone(g)
  BY <1>2, <1>3 DEF vars, aws, jobs, UpdateDone
<1>4. ASSUME NEW r \in 1..Runs, NEW l \in Layers, LayerStep(r, l) PROVE Invoked'
  <2>1. PICK s : Moves(<<r, l>>, s)
    BY <1>4, LayerMoves
  <2>2. <<r, l>> \in Jobs /\ UNCHANGED workflow
    BY <1>4, LayerMoves, JobPairs
  <2> QED
    BY <1>1, <1>2, <2>1, <2>2
<1>5. ASSUME NEW j \in Jobs, JobFails(j) PROVE Invoked'
  <2>1. Moves(j, "failed") /\ UNCHANGED workflow
    BY <1>5 DEF JobFails, Goto, Moves, aws
  <2> QED
    BY <1>1, <1>2, <2>1
<1>6. ASSUME NEW r \in 1..Runs, NEW g \in Functions, FunctionStep(r, g) PROVE Invoked'
  <2>1. PICK s : Moves(<<r, g>>, s)
    BY <1>6, FunctionMoves
  <2>2. <<r, g>> \in Jobs /\ UNCHANGED workflow
    BY <1>6, JobPairs DEF FunctionStep, NeedsFailed, UpdateCode, CodeWaited,
       PublishVersion, UpdateAlias, aws
  <2> QED
    BY <1>1, <1>2, <2>1, <2>2
<1>7. ASSUME NEW r \in 1..Runs, UpdateStateMachine(r) PROVE Invoked'
  <2>1. PICK s : Moves(<<r, StateMachine>>, s)
    BY <1>7, MachineMoves
  <2>2. \A q \in 1..Runs : pc[<<q, f>>] = "done" => pc'[<<q, f>>] = "done"
    BY <1>1, <2>1, JobPairs
  <2>3. UNCHANGED workflow \/ (workflow' = r /\ pc[<<r, f>>] = "done")
    BY <1>7 DEF UpdateStateMachine, FunctionReady
  <2> QED
    BY <1>2, <2>2, <2>3 DEF Invoked
<1> QED
  BY <1>3, <1>4, <1>5, <1>6, <1>7, Steps

\* Under the same condition the state machine never has a workflow that is
\* newer than the function it invokes, though its own job may come late or
\* overtake those of later pushes.
THEOREM WorkflowFollows == Spec /\ []InTurn => []WorkflowNotAhead
<1>1. Init => ShapeInv /\ AliasInv /\ Invoked
  BY ShapeInit, AliasInit DEF Init, Invoked
<1>2. InTurn /\ InTurn' /\ ShapeInv /\ AliasInv /\ Invoked /\ [Next]_vars
        => (ShapeInv /\ AliasInv /\ Invoked)'
  BY ShapeStep, AliasStep, InvokedStep
<1>3. ShapeInv /\ AliasInv /\ Invoked => WorkflowNotAhead
  <2> SUFFICES ASSUME AliasInv, Invoked, workflow > 0 PROVE WorkflowNotAhead
    BY DEF WorkflowNotAhead
  <2>1. CASE workflow = 0
    BY <2>1
  <2>2. CASE workflow # 0
    <3>1. "delete-user" \in Functions
      BY DEF Functions
    <3>2. Served(workflow, "delete-user") /\ pc[<<workflow, "delete-user">>] = "done"
      BY <2>2, <3>1 DEF Invoked, AliasInv
    <3> QED
      BY <3>2 DEF Served, WorkflowNotAhead
  <2> QED
    BY <2>1, <2>2
<1> QED
  BY <1>1, <1>2, <1>3, PTL DEF Spec

-----------------------------------------------------------------------------
(* A run publishes each layer and each function at most once *)

\* The runs whose job of that name has published.
By(n) == {r \in 1..Runs : mine[<<r, n>>] # 0}

\* Where a layer job attaches the version it published.
Loop == {"read", "update", "wait"}

\* A layer job has a version from its publishing on.
LayerOwned(r, l) ==
  /\ pc[<<r, l>>] \in {"start", "publish"} => mine[<<r, l>>] = 0
  /\ pc[<<r, l>>] \in Loop => mine[<<r, l>>] \in 1..(Runs + 1)

\* A function job has one after its publishing; it is one that exists.
FunctionOwned(r, f) ==
  /\ pc[<<r, f>>] \in {"start", "wait", "publish"} => mine[<<r, f>>] = 0
  /\ mine[<<r, f>>] <= Len(versions[f])

\* No more versions than runs that published one, and what is in place first.
Owned ==
  /\ \A l \in Layers : Len(published[l]) <= 1 + Cardinality(By(l))
  /\ \A f \in Functions : /\ Len(versions[f]) <= Cardinality(By(f))
                          /\ alias[f] <= Len(versions[f])
  /\ \A r \in 1..Runs : /\ \A l \in Layers : LayerOwned(r, l)
                        /\ \A f \in Functions : FunctionOwned(r, f)

\* There are no more of them than pushes, and one more is counted as one.
LEMMA ByCounted ==
  ASSUME NEW n
  PROVE  /\ IsFiniteSet(By(n)) /\ Cardinality(By(n)) \in Nat /\ Cardinality(By(n)) <= Runs
         /\ \A r \in (1..Runs) \ By(n) : Cardinality(By(n) \cup {r}) = Cardinality(By(n)) + 1
<1>1. IsFiniteSet(1..Runs) /\ Cardinality(1..Runs) = Runs
  BY FS_Interval, DeployAssumption
<1>2. By(n) \subseteq 1..Runs
  BY DEF By
<1> HIDE DEF By
<1>3. IsFiniteSet(By(n)) /\ Cardinality(By(n)) <= Runs
  BY <1>1, <1>2, FS_Subset
<1> QED
  BY <1>3, FS_CardinalityType, FS_AddElement

\* A job that has not published does so.
LEMMA ByGrows ==
  ASSUME NEW r \in 1..Runs, NEW n \in Names, mine[<<r, n>>] = 0, mine'[<<r, n>>] # 0,
         \A q \in 1..Runs, m \in Names :
           q # r \/ m # n => mine'[<<q, m>>] = mine[<<q, m>>]
  PROVE  /\ Cardinality(By(n)') = Cardinality(By(n)) + 1
         /\ Cardinality(By(n)) < Runs
         /\ \A m \in Names : m # n => By(m)' = By(m)
<1>4. By(n)' = By(n) \cup {r} /\ r \in (1..Runs) \ By(n)
  BY DEF By
<1>5. \A m \in Names : m # n => By(m)' = By(m)
  BY DEF By
<1>6. Cardinality(By(n) \cup {r}) <= Runs
  <2>1. By(n) \cup {r} \subseteq 1..Runs
    BY DEF By
  <2>2. IsFiniteSet(1..Runs) /\ Cardinality(1..Runs) = Runs
    BY FS_Interval, DeployAssumption
  <2> QED
    BY <2>1, <2>2, FS_Subset
<1>7. /\ Cardinality(By(n)) \in Nat
      /\ Cardinality(By(n) \cup {r}) = Cardinality(By(n)) + 1
  BY <1>4, ByCounted
<1>8. Cardinality(By(n)) < Runs
  BY <1>6, <1>7, DeployAssumption
<1> QED
  BY <1>4, <1>5, <1>7, <1>8

\* A step that publishes nothing.
LEMMA OwnedKept ==
  ASSUME Shape, Owned, UNCHANGED <<published, versions, mine>>,
         \A f \in Functions : alias'[f] <= Len(versions[f]),
         NEW r \in 1..Runs, NEW n \in Names, NEW s, pc' = [pc EXCEPT ![<<r, n>>] = s],
         n \in Layers => /\ s \in {"start", "publish"} => mine[<<r, n>>] = 0
                         /\ s \in Loop => mine[<<r, n>>] \in 1..(Runs + 1),
         n \in Functions => (s \in {"start", "wait", "publish"} => mine[<<r, n>>] = 0)
  PROVE  Owned'
<1>1. \A m : By(m)' = By(m)
  BY DEF By
<1>2. pc \in [Jobs -> Step] /\ \A q \in 1..Runs, m \in Names : <<q, m>> \in Jobs
  BY DEF Shape, Jobs
<1>3. \A q \in 1..Runs, m \in Names :
        pc'[<<q, m>>] = IF q = r /\ m = n THEN s ELSE pc[<<q, m>>]
  BY <1>2
<1>4. Layers \subseteq Names /\ Functions \subseteq Names
  BY DEF Names
<1>5. ASSUME NEW q \in 1..Runs, NEW l \in Layers PROVE LayerOwned(q, l)'
  BY <1>3, <1>4 DEF Owned, LayerOwned
<1>6. ASSUME NEW q \in 1..Runs, NEW f \in Functions PROVE FunctionOwned(q, f)'
  BY <1>3, <1>4 DEF Owned, FunctionOwned
<1>7. /\ \A l \in Layers : Len(published'[l]) <= 1 + Cardinality(By(l)')
      /\ \A f \in Functions : Len(versions'[f]) <= Cardinality(By(f)')
  BY <1>1 DEF Owned
<1> QED
  BY <1>5, <1>6, <1>7 DEF Owned

\* A layer's version is its run's first of that layer.
LEMMA OwnedLayerStep ==
  ASSUME ShapeInv, Owned, NEW r \in 1..Runs, NEW l \in Layers, LayerStep(r, l)
  PROVE  Owned'
<1> DEFINE j == <<r, l>>
<1>0. /\ Shape /\ LayerOwned(r, l) /\ l \in Names /\ l \notin Functions
      /\ \A f \in Functions : alias[f] <= Len(versions[f])
  BY DEF ShapeInv, Owned, Names, Layers, Functions
<1>1. CASE PublishLayer(r, l)
  <2>1. /\ mine[j] = 0
        /\ mine' = [mine EXCEPT ![j] = Len(published[l]) + 1]
        /\ published' = [published EXCEPT ![l] = Append(@, Commits[r][l])]
        /\ pc' = [pc EXCEPT ![j] = "read"]
        /\ UNCHANGED <<versions, alias>>
    BY <1>0, <1>1 DEF PublishLayer, Goto, LayerOwned
  <2>2. published \in [Layers -> Seq(Nat)] /\ Len(published[l]) \in Nat
    BY <1>0 DEF Shape
  <2>3. mine \in [Jobs -> Nat] /\ pc \in [Jobs -> Step] /\ j \in Jobs
        /\ \A q \in 1..Runs, m \in Names : <<q, m>> \in Jobs
    BY <1>0 DEF Shape, Jobs
  <2>4. ASSUME NEW q \in 1..Runs, NEW m \in Names, m # l \/ q # r
        PROVE  mine'[<<q, m>>] = mine[<<q, m>>] /\ pc'[<<q, m>>] = pc[<<q, m>>]
    BY <2>1, <2>3, <2>4
  <2>5. mine'[j] = Len(published[l]) + 1 /\ pc'[j] = "read"
    BY <2>1, <2>3
  <2>6. /\ Cardinality(By(l)') = Cardinality(By(l)) + 1
        /\ Cardinality(By(l)) < Runs
        /\ \A m \in Names : m # l => By(m)' = By(m)
    <3>1. mine'[<<r, l>>] # 0 /\ mine[<<r, l>>] = 0 /\ l \in Names
      BY <1>0, <2>1, <2>2, <2>5
    <3>2. \A q \in 1..Runs, m \in Names :
            q # r \/ m # l => mine'[<<q, m>>] = mine[<<q, m>>]
      BY <2>4
    <3> HIDE DEF j
    <3> QED
      BY ONLY <3>1, <3>2, r \in 1..Runs, l \in Names, ByGrows, Zenon
  <2>7. Len(published[l]) <= 1 + Cardinality(By(l)) /\ Cardinality(By(l)) \in Nat
    BY ByCounted DEF Owned
  <2>8. Len(published'[l]) = Len(published[l]) + 1
    BY <2>1, <2>2
  <2>9. Len(published[l]) + 1 \in 1..(Runs + 1)
    BY <2>2, <2>6, <2>7, DeployAssumption
  <2>10. ASSUME NEW q \in 1..Runs, NEW k \in Layers PROVE LayerOwned(q, k)'
    <3>1. CASE q = r /\ k = l
      BY <2>9, <2>5, <3>1 DEF LayerOwned, Loop
    <3>2. CASE q # r \/ k # l
      <4>1. mine'[<<q, k>>] = mine[<<q, k>>] /\ pc'[<<q, k>>] = pc[<<q, k>>]
        BY <2>4, <3>2 DEF Names
      <4> QED
        BY <4>1 DEF Owned, LayerOwned
    <3> QED
      BY <3>1, <3>2
  <2>11. ASSUME NEW q \in 1..Runs, NEW f \in Functions PROVE FunctionOwned(q, f)'
    <3>1. mine'[<<q, f>>] = mine[<<q, f>>] /\ pc'[<<q, f>>] = pc[<<q, f>>]
      BY <1>0, <2>4 DEF Names
    <3> QED
      BY <2>1, <3>1 DEF Owned, FunctionOwned
  <2>12. ASSUME NEW k \in Layers PROVE Len(published'[k]) <= 1 + Cardinality(By(k)')
    <3>1. CASE k = l
      BY <2>2, <2>6, <2>7, <2>8, <3>1
    <3>2. CASE k # l
      <4>1. published'[k] = published[k] /\ By(k)' = By(k)
        BY <2>1, <2>2, <2>6, <3>2 DEF Names
      <4> QED
        BY <4>1 DEF Owned
    <3> QED
      BY <3>1, <3>2
  <2>13. ASSUME NEW f \in Functions
         PROVE  /\ Len(versions'[f]) <= Cardinality(By(f)')
                /\ alias'[f] <= Len(versions'[f])
    <3>1. By(f)' = By(f)
      BY <1>0, <2>6 DEF Names
    <3> QED
      BY <2>1, <3>1 DEF Owned
  <2> QED
    BY <2>10, <2>11, <2>12, <2>13 DEF Owned
<1>2. CASE ~PublishLayer(r, l)
  <2>1. /\ UNCHANGED <<published, versions, mine, alias>>
        /\ \E s : /\ pc' = [pc EXCEPT ![j] = s]
                  /\ s \in {"start", "publish"} => pc[j] = "start"
                  /\ s \in Loop => pc[j] \in Loop
    <3>1. CASE Compare(r, l)
      BY <3>1 DEF Compare, Goto, aws, Loop
    <3>2. CASE ReadLayers(r, l) \/ LayerWaited(r, l)
      BY <3>2 DEF ReadLayers, LayerWaited, Goto, aws, Loop
    <3>3. CASE UpdateLayers(r, l)
      <4>1. /\ pc[j] = "update" /\ UNCHANGED <<published, versions, mine, alias>>
            /\ pc' = [pc EXCEPT ![j] = "failed"] \/ pc' = [pc EXCEPT ![j] = "wait"]
        BY <3>3 DEF UpdateLayers, Goto
      <4> QED
        BY <4>1 DEF Loop
    <3> QED
      BY <1>2, <3>1, <3>2, <3>3 DEF LayerStep
  <2>2. PICK s : /\ pc' = [pc EXCEPT ![j] = s]
                 /\ s \in {"start", "publish"} => pc[j] = "start"
                 /\ s \in Loop => pc[j] \in Loop
    BY <2>1
  <2>3. /\ s \in {"start", "publish"} => mine[j] = 0
        /\ s \in Loop => mine[j] \in 1..(Runs + 1)
    BY <1>0, <2>2 DEF LayerOwned
  <2> QED
    BY <1>0, <2>1, <2>2, <2>3, OwnedKept
<1> QED
  BY <1>1, <1>2

\* So is a function's, whether $LATEST had changed or not.
LEMMA OwnedPublishVersion ==
  ASSUME ShapeInv, Owned, NEW r \in 1..Runs, NEW f \in Functions, PublishVersion(r, f)
  PROVE  Owned'
<1> DEFINE j == <<r, f>>
           n == Len(versions[f])
<1>0. /\ Shape /\ FunctionOwned(r, f) /\ f \in Names /\ f \notin Layers
      /\ \A l \in Layers : l # f /\ l \in Names
  BY DEF ShapeInv, Owned, Names, Layers, Functions
<1>1. /\ pc[j] = "publish" /\ mine[j] = 0
      /\ UNCHANGED <<published, alias>>
  BY <1>0 DEF PublishVersion, FunctionOwned
<1>2. CASE Conflict(f)
  <2>1. pc' = [pc EXCEPT ![j] = "failed"] /\ UNCHANGED <<versions, mine>>
    BY <1>2 DEF PublishVersion, Goto
  <2>2. \A g \in Functions : alias'[g] <= Len(versions[g])
    BY <1>1 DEF Owned
  <2> QED
    BY <1>0, <1>1, <2>1, <2>2, OwnedKept DEF Loop
<1>3. CASE ~Conflict(f)
  <2> DEFINE latest == [code |-> code[f], layers |-> attached[f]]
             unchanged == n > 0 /\ versions[f][n] = latest
  <2>1. /\ versions' = IF unchanged THEN versions
                       ELSE [versions EXCEPT ![f] = Append(@, latest)]
        /\ mine' = [mine EXCEPT ![j] = IF unchanged THEN n ELSE n + 1]
        /\ pc' = [pc EXCEPT ![j] = "alias"]
    BY <1>3 DEF PublishVersion, Goto
  <2>2. /\ mine \in [Jobs -> Nat] /\ pc \in [Jobs -> Step] /\ j \in Jobs
        /\ versions \in [Functions -> Seq(Frozen)] /\ n \in Nat
        /\ \A q \in 1..Runs, m \in Names : <<q, m>> \in Jobs
    BY <1>0 DEF Shape, Jobs
  <2>3. /\ mine'[j] \in Nat \ {0} /\ mine'[j] <= n + 1
        /\ mine'[j] = IF unchanged THEN n ELSE n + 1
        /\ pc'[j] = "alias"
    BY <2>1, <2>2
  <2>4. ASSUME NEW q \in 1..Runs, NEW m \in Names, m # f \/ q # r
        PROVE  mine'[<<q, m>>] = mine[<<q, m>>] /\ pc'[<<q, m>>] = pc[<<q, m>>]
    BY <2>1, <2>2, <2>4
  <2>5. /\ Len(versions'[f]) = IF unchanged THEN n ELSE n + 1
        /\ \A g \in Functions : g # f => versions'[g] = versions[g]
    <3>1. CASE unchanged
      BY <2>1, <3>1
    <3>2. CASE ~unchanged
      <4> HIDE DEF latest, unchanged
      <4>1. versions' = [versions EXCEPT ![f] = Append(@, latest)]
        BY <2>1, <3>2
      <4>2. versions'[f] = Append(versions[f], latest)
        BY <2>2, <4>1
      <4>3. versions[f] \in Seq(Frozen)
        BY <2>2
      <4>4. Len(versions'[f]) = n + 1
        BY <4>2, <4>3
      <4> QED
        BY <2>2, <3>2, <4>1, <4>4
    <3> QED
      BY <3>1, <3>2
  <2>6. /\ Cardinality(By(f)') = Cardinality(By(f)) + 1
        /\ \A m \in Names : m # f => By(m)' = By(m)
    <3>1. mine'[<<r, f>>] # 0 /\ mine[<<r, f>>] = 0 /\ f \in Names
      BY <1>0, <1>1, <2>3
    <3>2. \A q \in 1..Runs, m \in Names :
            q # r \/ m # f => mine'[<<q, m>>] = mine[<<q, m>>]
      BY <2>4
    <3> HIDE DEF j
    <3> QED
      BY ONLY <3>1, <3>2, r \in 1..Runs, f \in Names, ByGrows, Zenon
  <2> HIDE DEF unchanged
  <2>7. n <= Len(versions'[f]) /\ Len(versions'[f]) <= n + 1 /\ Len(versions'[f]) \in Nat
        /\ mine'[j] <= Len(versions'[f])
    BY <2>2, <2>3, <2>5
  <2>8. ASSUME NEW g \in Functions
        PROVE  /\ Len(versions'[g]) <= Cardinality(By(g)')
               /\ alias'[g] <= Len(versions'[g])
    <3>1. CASE g = f
      <4>1. n <= Cardinality(By(f)) /\ Cardinality(By(f)) \in Nat /\ alias[f] <= n
        BY ByCounted DEF Owned
      <4>2. alias[f] \in Nat
        BY <1>0 DEF Shape
      <4> QED
        BY <1>1, <2>2, <2>6, <2>7, <3>1, <4>1, <4>2
    <3>2. CASE g # f
      BY <1>1, <2>5, <2>6, <3>2 DEF Owned, Names
    <3> QED
      BY <3>1, <3>2
  <2>9. ASSUME NEW l \in Layers PROVE Len(published'[l]) <= 1 + Cardinality(By(l)')
    BY <1>0, <1>1, <2>6 DEF Owned
  <2>10. ASSUME NEW q \in 1..Runs, NEW l \in Layers PROVE LayerOwned(q, l)'
    <3>1. mine'[<<q, l>>] = mine[<<q, l>>] /\ pc'[<<q, l>>] = pc[<<q, l>>]
      BY <1>0, <2>4
    <3> QED
      BY <3>1 DEF Owned, LayerOwned
  <2>11. ASSUME NEW q \in 1..Runs, NEW g \in Functions PROVE FunctionOwned(q, g)'
    <3>1. CASE q = r /\ g = f
      BY <2>3, <2>7, <3>1 DEF FunctionOwned
    <3>2. CASE q # r \/ g # f
      <4>1. /\ mine'[<<q, g>>] = mine[<<q, g>>] /\ pc'[<<q, g>>] = pc[<<q, g>>]
            /\ mine[<<q, g>>] \in Nat /\ g \in Names
        BY <2>2, <2>4, <3>2 DEF Names
      <4>2. mine[<<q, g>>] <= Len(versions[g])
        BY DEF Owned, FunctionOwned
      <4>3. mine[<<q, g>>] <= Len(versions'[g])
        <5>1. CASE g = f
          BY <2>2, <2>7, <4>1, <4>2, <5>1
        <5>2. CASE g # f
          BY <2>5, <4>2, <5>2
        <5> QED
          BY <5>1, <5>2
      <4> QED
        BY <4>1, <4>3 DEF Owned, FunctionOwned
    <3> QED
      BY <3>1, <3>2
  <2> QED
    BY <2>8, <2>9, <2>10, <2>11 DEF Owned
<1> QED
  BY <1>2, <1>3

\* The other calls of a function job publish nothing.
LEMMA OwnedFunctionStep ==
  ASSUME ShapeInv, Owned, NEW r \in 1..Runs, NEW f \in Functions, FunctionStep(r, f)
  PROVE  Owned'
<1> DEFINE j == <<r, f>>
<1>0. /\ Shape /\ FunctionOwned(r, f) /\ f \in Names /\ f \notin Layers
      /\ \A g \in Functions : alias[g] <= Len(versions[g])
  BY DEF ShapeInv, Owned, Names, Layers, Functions
<1>1. CASE NeedsFailed(r, f)
  <2>1. pc' = [pc EXCEPT ![j] = "failed"] /\ UNCHANGED <<published, versions, mine, alias>>
    BY <1>1 DEF NeedsFailed, Goto, aws
  <2> QED
    BY <1>0, <2>1, OwnedKept
<1>2. CASE UpdateCode(r, f)
  <2>1. /\ pc[j] = "start" /\ UNCHANGED <<published, versions, mine, alias>>
        /\ pc' = [pc EXCEPT ![j] = "failed"] \/ pc' = [pc EXCEPT ![j] = "wait"]
    BY <1>2 DEF UpdateCode, Goto
  <2>2. mine[j] = 0
    BY <1>0, <2>1 DEF FunctionOwned
  <2> QED
    BY <1>0, <2>1, <2>2, OwnedKept
<1>3. CASE CodeWaited(r, f)
  <2>1. /\ pc[j] = "wait" /\ UNCHANGED <<published, versions, mine, alias>>
        /\ pc' = [pc EXCEPT ![j] = "publish"]
    BY <1>3 DEF CodeWaited, Goto, aws
  <2>2. mine[j] = 0
    BY <1>0, <2>1 DEF FunctionOwned
  <2> QED
    BY <1>0, <2>1, <2>2, OwnedKept
<1>4. CASE UpdateAlias(r, f)
  <2>1. /\ UNCHANGED <<published, versions, mine>>
        /\ pc' = [pc EXCEPT ![j] = "done"]
        /\ alias' = [alias EXCEPT ![f] = mine[j]]
    BY <1>4 DEF UpdateAlias, Goto
  <2>2. \A g \in Functions : alias'[g] <= Len(versions[g])
    BY <1>0, <2>1 DEF FunctionOwned, Shape
  <2> QED
    BY <1>0, <2>1, <2>2, OwnedKept
<1> QED
  BY <1>1, <1>2, <1>3, <1>4, OwnedPublishVersion DEF FunctionStep

\* Every step keeps the counts.
LEMMA OwnedStep == ShapeInv /\ Owned /\ [Next]_vars => Owned'
<1> SUFFICES ASSUME ShapeInv, Owned, [Next]_vars PROVE Owned'
  OBVIOUS
<1>0. /\ Shape /\ \A f \in Functions : alias[f] <= Len(versions[f])
      /\ \A n : (UNCHANGED mine) => By(n)' = By(n)
  BY DEF ShapeInv, Owned, By
<1>1. ASSUME NEW r \in 1..Runs, UpdateStateMachine(r) PROVE Owned'
  <2>1. /\ UNCHANGED <<published, versions, mine, alias>>
        /\ \/ pc' = [pc EXCEPT ![<<r, StateMachine>>] = "done"]
           \/ pc' = [pc EXCEPT ![<<r, StateMachine>>] = "failed"]
    BY <1>1 DEF UpdateStateMachine, Goto
  <2>2. StateMachine \in Names /\ StateMachine \notin Layers /\ StateMachine \notin Functions
    BY DEF Names, StateMachine, Layers, Functions
  <2> QED
    BY <1>0, <2>1, <2>2, OwnedKept
<1>2. ASSUME NEW j \in Jobs, JobFails(j) PROVE Owned'
  <2>1. PICK r \in 1..Runs, n \in Names : j = <<r, n>>
    BY DEF Jobs
  <2>2. /\ UNCHANGED <<published, versions, mine, alias>>
        /\ pc' = [pc EXCEPT ![<<r, n>>] = "failed"]
    BY <1>2, <2>1 DEF JobFails, Goto, aws
  <2> QED
    BY <1>0, <2>2, OwnedKept DEF Loop
<1>3. CASE UNCHANGED vars \/ \E f \in Functions : UpdateDone(f)
  <2>1. UNCHANGED <<published, versions, alias, pc, mine>>
    BY <1>3 DEF vars, aws, jobs, UpdateDone
  <2> QED
    BY <1>0, <2>1 DEF Owned, LayerOwned, FunctionOwned
<1> QED
  BY <1>1, <1>2, <1>3, Steps, OwnedLayerStep, OwnedFunctionStep

\* Nothing is published by a run yet; the first delivery counts as one more.
LEMMA OwnedInit == Init => Owned
<1> SUFFICES ASSUME Init PROVE Owned
  OBVIOUS
<1>1. \A n : Cardinality(By(n)) \in Nat
  BY ByCounted
<1>2. /\ \A l \in Layers : Len(published[l]) <= 1
      /\ \A f \in Functions : Len(versions[f]) = 0 /\ alias[f] = 0
  BY DEF Init
<1>3. \A j \in Jobs : pc[j] = "start" /\ mine[j] = 0
  BY DEF Init
<1>4. ASSUME NEW r \in 1..Runs, NEW l \in Layers PROVE LayerOwned(r, l)
  BY <1>3, JobPairs DEF LayerOwned, Loop
<1>5. ASSUME NEW r \in 1..Runs, NEW f \in Functions PROVE FunctionOwned(r, f)
  BY <1>2, <1>3, JobPairs DEF FunctionOwned
<1>6. /\ \A l \in Layers : Len(published[l]) <= 1 + Cardinality(By(l))
      /\ \A f \in Functions : Len(versions[f]) <= Cardinality(By(f)) /\ alias[f] <= Len(versions[f])
  <2>1. \A l \in Layers : Len(published[l]) \in Nat
    BY DEF Init
  <2> QED
    BY <1>1, <1>2, <2>1
<1> QED
  BY <1>4, <1>5, <1>6 DEF Owned

\* The attachments of a push whose version is within the bound.
LEMMA MergedTyped ==
  ASSUME NEW l \in Layers, NEW old \in SUBSET Attachment, NEW v \in 1..(Runs + 1)
  PROVE  Merged(l, old, v) \in SUBSET Attachment
BY DEF Merged, Attachment

\* A frozen $LATEST with its numbers bounded.
Latest == [code : 0..Runs, layers : SUBSET Attachment]

\* What the counts say of the sequences.
InBounds ==
  /\ \A l \in Layers : Len(published[l]) <= Runs + 1
  /\ \A f \in Functions : Len(versions[f]) <= Runs /\ alias[f] <= Len(versions[f])
  /\ alias \in [Functions -> 0..Runs]

\* Each is published at most once per push.
LEMMA CountsBound == ShapeInv /\ Owned => InBounds
<1> SUFFICES ASSUME ShapeInv, Owned PROVE InBounds
  OBVIOUS
<1> USE DeployAssumption
<1>1. published \in [Layers -> Seq(Nat)] /\ versions \in [Functions -> Seq(Frozen)]
      /\ alias \in [Functions -> Nat]
  BY DEF ShapeInv, Shape
<1>2. \A n : Cardinality(By(n)) \in Nat /\ Cardinality(By(n)) <= Runs
  BY ByCounted
<1>3. ASSUME NEW l \in Layers PROVE Len(published[l]) <= Runs + 1
  <2>1. Len(published[l]) \in Nat
    BY <1>1
  <2> QED
    BY <1>2, <2>1 DEF Owned
<1>4. ASSUME NEW f \in Functions
      PROVE  Len(versions[f]) <= Runs /\ alias[f] <= Len(versions[f]) /\ alias[f] \in 0..Runs
  <2>1. Len(versions[f]) \in Nat /\ alias[f] \in Nat
    BY <1>1
  <2> QED
    BY <1>2, <2>1 DEF Owned
<1> QED
  BY <1>1, <1>3, <1>4 DEF InBounds

\* The part of the types that neither the shapes nor the counts give.
Numbers ==
  /\ faults \in 0..MaxFaults
  /\ attached \in [Functions -> SUBSET Attachment]
  /\ code \in [Functions -> 0..Runs]
  /\ updating \in [Functions -> BOOLEAN]
  /\ versions \in [Functions -> Seq(Latest)]
  /\ workflow \in 0..Runs
  /\ mine \in [Jobs -> 0..(Runs + 1)]
  /\ seen \in [LayerJobs -> SUBSET Attachment]

\* The type invariant is the shapes, the bounds and the rest.
LEMMA TypedByParts == ShapeInv /\ InBounds /\ Numbers => TypeOK
BY DEF ShapeInv, Shape, InBounds, Numbers, TypeOK, Step, Latest

\* A layer job attaches the version that it published itself.
LEMMA NumbersLayerStep ==
  ASSUME ShapeInv, Owned, Owned', Numbers, NEW r \in 1..Runs, NEW l \in Layers,
         LayerStep(r, l)
  PROVE  Numbers'
<1> USE DeployAssumption DEF Numbers
<1> DEFINE j == <<r, l>>
<1>0. /\ j \in Jobs /\ j \in LayerJobs /\ LayerOwned(r, l) /\ LayerOwned(r, l)'
      /\ pc \in [Jobs -> Step]
  BY JobPairs DEF Owned, ShapeInv, Shape
<1>1. CASE Compare(r, l)
  BY <1>1 DEF Compare, Fault, aws
<1>2. CASE PublishLayer(r, l)
  <2>1. /\ mine' = [mine EXCEPT ![j] = Len(published[l]) + 1]
        /\ UNCHANGED <<faults, attached, code, updating, versions, alias, workflow, seen>>
        /\ pc'[j] = "read"
    BY <1>0, <1>2 DEF PublishLayer, Goto
  <2>2. mine'[j] \in 0..(Runs + 1)
    BY <1>0, <2>1 DEF LayerOwned, Loop
  <2>3. mine' \in [Jobs -> 0..(Runs + 1)]
    BY <1>0, <2>1, <2>2
  <2> QED
    BY <2>1, <2>3
<1>3. CASE ReadLayers(r, l)
  <2>1. /\ Head(todo[j]) \in Functions
        /\ UNCHANGED <<attached, code, updating, versions, workflow, mine>>
        /\ faults' \in 0..MaxFaults
    BY <1>0, <1>3, Shorter DEF ReadLayers, Fault, aws, ShapeInv, Shape, InLoop
  <2>2. seen' = [seen EXCEPT ![j] = attached[Head(todo[j])]] \/ seen' = [seen EXCEPT ![j] = {}]
    BY <1>3 DEF ReadLayers
  <2>3. seen' \in [LayerJobs -> SUBSET Attachment]
    BY <1>0, <2>1, <2>2
  <2> QED
    BY <2>1, <2>3
<1>4. CASE UpdateLayers(r, l)
  <2>1. mine[j] \in 1..(Runs + 1)
    BY <1>0, <1>4 DEF UpdateLayers, LayerOwned, Loop
  <2>2. Merged(l, seen[j], mine[j]) \in SUBSET Attachment
    BY <1>0, <2>1, MergedTyped
  <2>3. /\ UNCHANGED <<faults, code, versions, workflow, mine, seen>>
        /\ \/ UNCHANGED <<attached, updating>>
           \/ /\ attached' = [attached EXCEPT ![Head(todo[j])] = Merged(l, seen[j], mine[j])]
              /\ updating' = [updating EXCEPT ![Head(todo[j])] = TRUE]
    BY <1>4 DEF UpdateLayers
  <2>4. attached' \in [Functions -> SUBSET Attachment] /\ updating' \in [Functions -> BOOLEAN]
    BY <2>2, <2>3
  <2> QED
    BY <2>3, <2>4
<1>5. CASE LayerWaited(r, l)
  BY <1>5 DEF LayerWaited, aws
<1> QED
  BY <1>1, <1>2, <1>3, <1>4, <1>5 DEF LayerStep

\* A function job freezes a $LATEST that is within the bounds.
LEMMA NumbersFunctionStep ==
  ASSUME ShapeInv, InBounds', Owned', Numbers, NEW r \in 1..Runs, NEW f \in Functions,
         FunctionStep(r, f)
  PROVE  Numbers'
<1> USE DeployAssumption DEF Numbers
<1> DEFINE j == <<r, f>>
<1>0. j \in Jobs /\ FunctionOwned(r, f)'
  BY JobPairs DEF Owned
<1>1. CASE NeedsFailed(r, f) \/ CodeWaited(r, f)
  BY <1>1 DEF NeedsFailed, CodeWaited, aws
<1>2. CASE UpdateCode(r, f)
  <2>1. /\ UNCHANGED <<faults, attached, versions, workflow, mine, seen>>
        /\ \/ UNCHANGED <<code, updating>>
           \/ /\ code' = [code EXCEPT ![f] = r]
              /\ updating' = [updating EXCEPT ![f] = TRUE]
    BY <1>2 DEF UpdateCode
  <2>2. r \in 0..Runs
    OBVIOUS
  <2> QED
    BY <2>1, <2>2
<1>3. CASE PublishVersion(r, f)
  <2> DEFINE latest == [code |-> code[f], layers |-> attached[f]]
  <2>1. /\ UNCHANGED <<faults, attached, code, updating, workflow, seen>>
        /\ versions' = versions \/ versions' = [versions EXCEPT ![f] = Append(@, latest)]
    BY <1>3 DEF PublishVersion
  <2>2. latest \in Latest
    BY DEF Latest
  <2> HIDE DEF latest
  <2>3. Append(versions[f], latest) \in Seq(Latest)
    BY <2>2
  <2>4. versions' \in [Functions -> Seq(Latest)]
    BY <2>1, <2>3
  <2>5. /\ \A i \in Jobs : i # j => mine'[i] = mine[i]
        /\ mine'[j] \in Nat
        /\ DOMAIN mine' = Jobs
        /\ mine' = [i \in DOMAIN mine' |-> mine'[i]]
    <3>1. Len(versions[f]) \in Nat
      OBVIOUS
    <3>2. \/ mine' = mine
          \/ mine' = [mine EXCEPT ![j] = Len(versions[f])]
          \/ mine' = [mine EXCEPT ![j] = Len(versions[f]) + 1]
      BY <1>3 DEF PublishVersion
    <3> QED
      BY <1>0, <3>1, <3>2
  <2>6. mine'[j] \in 0..(Runs + 1)
    <3>1. Len(versions'[f]) \in Nat
      BY <2>4
    <3>2. mine'[j] <= Len(versions'[f]) /\ Len(versions'[f]) <= Runs
      BY <1>0 DEF FunctionOwned, InBounds
    <3>3. mine'[j] <= Runs
      BY <2>5, <3>1, <3>2
    <3> QED
      BY <2>5, <3>3
  <2>7. mine' \in [Jobs -> 0..(Runs + 1)]
    <3>1. \A i \in Jobs : mine'[i] \in 0..(Runs + 1)
      BY <2>5, <2>6
    <3> QED
      BY <2>5, <3>1
  <2> QED
    BY <2>1, <2>4, <2>7
<1>4. CASE UpdateAlias(r, f)
  BY <1>4 DEF UpdateAlias
<1> QED
  BY <1>1, <1>2, <1>3, <1>4 DEF FunctionStep

\* Every step keeps the numbers within their bounds.
LEMMA NumbersStep ==
  ASSUME ShapeInv, Owned, Owned', InBounds', Numbers, [Next]_vars
  PROVE  Numbers'
<1> USE DeployAssumption
<1>1. ASSUME NEW r \in 1..Runs, UpdateStateMachine(r) PROVE Numbers'
  BY <1>1 DEF UpdateStateMachine, Numbers
<1>2. ASSUME NEW j \in Jobs, JobFails(j) PROVE Numbers'
  BY <1>2 DEF JobFails, Fault, aws, Numbers
<1>3. ASSUME NEW f \in Functions, UpdateDone(f) PROVE Numbers'
  BY <1>3 DEF UpdateDone, jobs, Numbers
<1>4. CASE UNCHANGED vars
  BY <1>4 DEF vars, aws, jobs, Numbers
<1> QED
  BY <1>1, <1>2, <1>3, <1>4, Steps, NumbersLayerStep, NumbersFunctionStep

\* As before the first push.
LEMMA NumbersInit == Init => Numbers
<1> SUFFICES ASSUME Init PROVE Numbers
  OBVIOUS
<1> USE DeployAssumption
<1>1. \A f \in Functions : NeededLayer(f) \in Layers
  BY DEF NeededLayer, Layers, Functions
<1>2. attached \in [Functions -> SUBSET Attachment]
  BY <1>1 DEF Init, Attachment, Layers
<1>3. versions \in [Functions -> Seq(Latest)]
  BY DEF Init
<1> QED
  BY <1>2, <1>3 DEF Init, Numbers

\* Types hold whatever overlaps and fails: every number stays within the count
\* of pushes, for a push publishes each layer and each function at most once,
\* and no alias is beyond the versions of its function.
THEOREM Typing == Spec => []TypeOK
<1>1. Init => ShapeInv /\ Owned /\ Numbers
  BY ShapeInit, OwnedInit, NumbersInit
<1>2. ShapeInv /\ Owned /\ Numbers /\ [Next]_vars => (ShapeInv /\ Owned)'
  BY ShapeStep, OwnedStep
<1>3. ShapeInv /\ Owned => InBounds
  BY CountsBound
<1>4. ShapeInv /\ Owned /\ Owned' /\ InBounds' /\ Numbers /\ [Next]_vars => Numbers'
  BY NumbersStep
<1>5. ShapeInv /\ InBounds /\ Numbers => TypeOK
  BY TypedByParts
<1> QED
  BY <1>1, <1>2, <1>3, <1>4, <1>5, PTL DEF Spec

-----------------------------------------------------------------------------
(* What functions run with, for pushes that may overlap and fail            *)

\* The list a layer job is about to write back misses no other layer which the
\* function has: none was attached since the job read it, and the read succeeded.
ReadIsFresh ==
  \A j \in LayerJobs :
    pc[j] = "update" =>
      \A a \in attached[Head(todo[j])] : a.layer # j[2] => a \in seen[j]

\* A layer job that failed had not published: no version was left unattached.
NoneLeftBehind == \A j \in LayerJobs : pc[j] = "failed" => mine[j] = 0

\* The three conditions together.
Undisturbed == ChainsInOrder /\ ReadIsFresh /\ NoneLeftBehind

\* The newest version of layer l has fingerprint x.
NewestIs(l, x) == published[l] # <<>> /\ published[l][Len(published[l])] = x

Newest(l) == [layer |-> l, version |-> Len(published[l])]

\* A layer job is about to attach the layer of f to it.
Owed(f) ==
  \E r \in 1..Runs :
    /\ pc[<<r, NeededLayer(f)>>] \in {"read", "update"}
    /\ Head(todo[<<r, NeededLayer(f)>>]) = f

\* Function f has the newest version of its layer, or will be given it.
NewestAttached(f) ==
  published[NeededLayer(f)] # <<>> => Newest(NeededLayer(f)) \in attached[f] \/ Owed(f)

\* In its loop a layer job has the newest version; when it has ended well, the
\* newest version is the one it asks for until a later push publishes.
LayerKnown(r, l) ==
  /\ pc[<<r, l>>] \in Loop =>
       mine[<<r, l>>] = Len(published[l]) /\ NewestIs(l, Commits[r][l])
  /\ pc[<<r, l>>] \in {"done", "skipped"}
     /\ (\A q \in 1..Runs : q > r => mine[<<q, l>>] = 0)
       => NewestIs(l, Commits[r][l])

\* Among these layers is a version of l that has fingerprint x, where prints
\* are the fingerprints of the versions of l.
Has(prints, layers, l, x) ==
  \E a \in layers : /\ a.layer = l
                    /\ a.version \in 1..Len(prints)
                    /\ prints[a.version] = x

\* A function job begins when its layer is there, and publishes with it.
FunctionKnown(r, f) ==
  /\ pc[<<r, f>>] \notin {"start", "failed"} => LayerReady(r, f)
  /\ pc[<<r, f>>] \in {"alias", "done"} =>
       /\ mine[<<r, f>>] \in 1..Len(versions[f])
       /\ Has(published[NeededLayer(f)], versions[f][mine[<<r, f>>]].layers,
              NeededLayer(f), Commits[r][NeededLayer(f)])

ChainInv ==
  /\ \A f \in Functions : NewestAttached(f)
  /\ \A r \in 1..Runs, l \in Layers : LayerKnown(r, l)
  /\ \A r \in 1..Runs, f \in Functions : FunctionKnown(r, f)

\* What the steps below need of the shapes.
LEMMA Indexed ==
  ASSUME ShapeInv
  PROVE  /\ pc \in [Jobs -> Step] /\ mine \in [Jobs -> Nat]
         /\ \A q \in 1..Runs, n \in Names : <<q, n>> \in Jobs
         /\ \A l \in Layers : l \in Names /\ l \notin Functions /\ l # StateMachine
         /\ \A f \in Functions : /\ f \in Names /\ f \notin Layers /\ f # StateMachine
                                 /\ NeededLayer(f) \in Layers
         /\ StateMachine \in Names /\ StateMachine \notin Layers \cup Functions
BY DEF ShapeInv, Shape, Jobs, Names, Layers, Functions, StateMachine, NeededLayer

\* A step that publishes and attaches nothing, and that gives up no attachment.
LEMMA ChainKept ==
  ASSUME ShapeInv, ChainInv, UNCHANGED <<published, attached, versions, mine>>,
         NEW r \in 1..Runs, NEW n \in Names, NEW s, Moves(<<r, n>>, s),
         \A i \in LayerJobs : i # <<r, n>> => todo'[i] = todo[i],
         n \in Layers =>
           /\ pc[<<r, n>>] \in {"read", "update"} =>
                s \in {"read", "update"} /\ todo'[<<r, n>>] = todo[<<r, n>>]
           /\ s \in Loop => pc[<<r, n>>] \in Loop
           /\ s \in {"done", "skipped"} => NewestIs(n, Commits[r][n]),
         n \in Functions =>
           /\ s \notin {"start", "failed"} => LayerReady(r, n)
           /\ s \in {"alias", "done"} => pc[<<r, n>>] \in {"alias", "done"}
  PROVE  ChainInv'
<1>0. /\ pc'[<<r, n>>] = s /\ pc[<<r, n>>] \notin Ended
      /\ \A q \in 1..Runs, m \in Names :
           q # r \/ m # n => pc'[<<q, m>>] = pc[<<q, m>>]
  BY Indexed DEF Moves
<1>1. \A l : /\ Newest(l)' = Newest(l)
             /\ \A x : NewestIs(l, x)' <=> NewestIs(l, x)
  BY DEF Newest, NewestIs
<1>2. ASSUME NEW f \in Functions PROVE NewestAttached(f)'
  <2>1. ASSUME Owed(f) PROVE Owed(f)'
    <3> DEFINE l == NeededLayer(f)
    <3>1. PICK q \in 1..Runs : pc[<<q, l>>] \in {"read", "update"} /\ Head(todo[<<q, l>>]) = f
      BY <2>1 DEF Owed
    <3>2. l \in Layers /\ l \in Names /\ <<q, l>> \in LayerJobs
      BY Indexed, JobPairs
    <3>3. pc'[<<q, l>>] \in {"read", "update"} /\ todo'[<<q, l>>] = todo[<<q, l>>]
      BY <1>0, <3>1, <3>2
    <3> QED
      BY <3>1, <3>3 DEF Owed
  <2>2. NewestAttached(f)
    BY DEF ChainInv
  <2> QED
    BY <1>1, <2>1, <2>2 DEF NewestAttached
<1>3. ASSUME NEW q \in 1..Runs, NEW l \in Layers PROVE LayerKnown(q, l)'
  <2>1. LayerKnown(q, l) /\ l \in Names
    BY Indexed DEF ChainInv
  <2>2. CASE q = r /\ l = n
    BY <1>0, <1>1, <2>1, <2>2 DEF LayerKnown
  <2>3. CASE q # r \/ l # n
    BY <1>0, <1>1, <2>1, <2>3 DEF LayerKnown
  <2> QED
    BY <2>2, <2>3
<1>4. ASSUME NEW q \in 1..Runs, NEW f \in Functions PROVE FunctionKnown(q, f)'
  <2>1. FunctionKnown(q, f) /\ f \in Names /\ NeededLayer(f) \in Names
    BY Indexed DEF ChainInv
  <2>2. LayerReady(q, f) => LayerReady(q, f)'
    BY <1>0, <2>1 DEF LayerReady, Ended
  <2>3. CASE q = r /\ f = n
    BY <1>0, <2>1, <2>2, <2>3 DEF FunctionKnown, Ended
  <2>4. CASE q # r \/ f # n
    BY <1>0, <2>1, <2>2, <2>4 DEF FunctionKnown
  <2> QED
    BY <2>3, <2>4
<1> QED
  BY <1>2, <1>3, <1>4 DEF ChainInv

\* The function a layer job attaches to first is the one whose code needs it.
LEMMA ConsumersFirst ==
  ASSUME NEW f \in Functions PROVE Head(Consumers(NeededLayer(f))) = f
BY DEF Functions, NeededLayer, Consumers

\* Fingerprints and functions' versions are only ever appended.
Grown(p, q) == \A i \in 1..Len(p) : i \in 1..Len(q) /\ q[i] = p[i]

LEMMA LongerHas ==
  ASSUME NEW p, NEW q, NEW S, NEW l, NEW x, Grown(p, q), Has(p, S, l, x)
  PROVE  Has(q, S, l, x)
BY DEF Grown, Has

LEMMA AppendGrows ==
  ASSUME NEW S, NEW p \in Seq(S), NEW e \in S
  PROVE  Grown(p, p) /\ Grown(p, Append(p, e))
BY DEF Grown

\* A job of a layer that is under way is the only one: those of earlier pushes
\* have ended, and those of later ones have not begun.
LEMMA Alone ==
  ASSUME ChainsInOrder, NEW r \in 1..Runs, NEW l \in Layers,
         pc[<<r, l>>] \notin Ended, pc[<<r, l>>] # "start", NEW q \in 1..Runs
  PROVE  /\ q < r => pc[<<q, l>>] \in Ended
         /\ q > r => pc[<<q, l>>] = "start"
<1>1. PICK f \in Functions : NeededLayer(f) = l
  BY DEF Layers, Functions, NeededLayer
<1> QED
  BY <1>1 DEF ChainsInOrder

\* Publishing makes a newer version, which the job is about to attach.
LEMMA ChainPublishLayer ==
  ASSUME ShapeInv, ChainsInOrder, ChainInv, NEW r \in 1..Runs, NEW l \in Layers,
         PublishLayer(r, l)
  PROVE  ChainInv'
<1> DEFINE j == <<r, l>>
           x == Commits[r][l]
           n == Len(published[l])
<1>1. /\ pc[j] = "publish" /\ UNCHANGED <<attached, versions>>
      /\ published' = [published EXCEPT ![l] = Append(published[l], x)]
      /\ mine' = [mine EXCEPT ![j] = n + 1]
      /\ todo' = [todo EXCEPT ![j] = Consumers(l)]
      /\ pc' = [pc EXCEPT ![j] = "read"]
  BY DEF PublishLayer, Goto
<1>2. /\ pc'[j] = "read" /\ mine'[j] = n + 1 /\ todo'[j] = Consumers(l)
      /\ \A q \in 1..Runs, m \in Names :
           q # r \/ m # l =>
             pc'[<<q, m>>] = pc[<<q, m>>] /\ mine'[<<q, m>>] = mine[<<q, m>>]
      /\ \A q \in 1..Runs, m \in Layers : q # r \/ m # l => todo'[<<q, m>>] = todo[<<q, m>>]
  <2>1. todo \in [LayerJobs -> Seq(Functions)]
    BY DEF ShapeInv, Shape
  <2> QED
    BY <1>1, <2>1, Indexed, JobPairs
<1>3. /\ published[l] \in Seq(Nat) /\ x \in Nat /\ n \in Nat
      /\ published'[l] = Append(published[l], x)
      /\ \A k \in Layers : k # l => published'[k] = published[k]
      /\ \A k \in Layers : published[k] \in Seq(Nat)
  BY <1>1, DeployAssumption DEF ShapeInv, Shape
<1>4. /\ Len(published'[l]) = n + 1 /\ published'[l] # <<>> /\ published'[l][n + 1] = x
      /\ \A k \in Layers : Grown(published[k], published'[k])
  <2>1. Len(published'[l]) = n + 1 /\ published'[l] # <<>> /\ published'[l][n + 1] = x
    BY <1>3
  <2>2. ASSUME NEW k \in Layers PROVE Grown(published[k], published'[k])
    <3> HIDE DEF x, n
    <3> QED
      BY <1>3, AppendGrows
  <2> QED
    BY <2>1, <2>2
<1> HIDE DEF n, x
<1>5. NewestIs(l, x)'
  BY <1>4 DEF NewestIs, x
<1>6. ASSUME NEW f \in Functions PROVE NewestAttached(f)'
  <2>1. CASE NeededLayer(f) = l
    <3>1. pc'[<<r, NeededLayer(f)>>] = "read" /\ Head(todo'[<<r, NeededLayer(f)>>]) = f
      BY <1>2, <2>1, ConsumersFirst
    <3> QED
      BY <3>1 DEF NewestAttached, Owed
  <2>2. CASE NeededLayer(f) # l
    <3>1. NeededLayer(f) \in Layers /\ NeededLayer(f) \in Names
      BY Indexed
    <3>2. Owed(f) => Owed(f)'
      BY <1>2, <2>2, <3>1 DEF Owed
    <3> QED
      BY <1>1, <1>3, <2>2, <3>1, <3>2 DEF ChainInv, NewestAttached, Newest
  <2> QED
    BY <2>1, <2>2
<1>7. ASSUME NEW q \in 1..Runs, NEW k \in Layers PROVE LayerKnown(q, k)'
  <2>1. CASE k # l
    <3>1. k \in Names /\ LayerKnown(q, k)
      BY Indexed DEF ChainInv
    <3> QED
      BY <1>2, <1>3, <2>1, <3>1, Indexed DEF LayerKnown, NewestIs
  <2>2. CASE k = l /\ q = r
    BY <1>2, <1>4, <1>5, <2>2 DEF LayerKnown, x
  <2>3. CASE k = l /\ q < r
    <3>1. pc'[<<q, l>>] \in Ended
      BY <1>1, <1>2, <2>3, Alone, Indexed DEF Ended
    <3>2. r > q /\ mine'[<<r, l>>] # 0
      BY <1>2, <1>3, <2>3
    <3> QED
      BY <2>3, <3>1, <3>2 DEF LayerKnown, Loop, Ended
  <2>4. CASE k = l /\ q > r
    <3>1. pc'[<<q, l>>] = "start"
      BY <1>1, <1>2, <2>4, Alone, Indexed DEF Ended
    <3> QED
      BY <2>4, <3>1 DEF LayerKnown, Loop
  <2> QED
    BY <2>1, <2>2, <2>3, <2>4, DeployAssumption
<1>8. ASSUME NEW q \in 1..Runs, NEW f \in Functions PROVE FunctionKnown(q, f)'
  <2>1. /\ FunctionKnown(q, f) /\ f # l /\ f \in Names
        /\ NeededLayer(f) \in Layers /\ NeededLayer(f) \in Names
    BY Indexed DEF ChainInv
  <2>2. LayerReady(q, f) => LayerReady(q, f)'
    BY <1>1, <1>2, <2>1 DEF LayerReady
  <2>3. Grown(published[NeededLayer(f)], published'[NeededLayer(f)])
    BY <1>4, <2>1
  <2>4. pc'[<<q, f>>] = pc[<<q, f>>] /\ mine'[<<q, f>>] = mine[<<q, f>>]
    BY <1>2, <2>1
  <2> QED
    BY <1>1, <2>1, <2>2, <2>3, <2>4, LongerHas DEF FunctionKnown
<1> QED
  BY <1>6, <1>7, <1>8 DEF ChainInv

\* Attaching gives the function what it is owed, and keeps its other layers.
LEMMA ChainAttach ==
  ASSUME ShapeInv, ReadIsFresh, ChainInv, NEW r \in 1..Runs, NEW l \in Layers,
         UpdateLayers(r, l), ~Conflict(Head(todo[<<r, l>>]))
  PROVE  ChainInv'
<1> DEFINE j == <<r, l>>
           f == Head(todo[j])
           new == Merged(l, seen[j], mine[j])
<1>1. /\ pc[j] = "update" /\ UNCHANGED <<published, versions, mine, todo>>
      /\ attached' = [attached EXCEPT ![f] = new]
      /\ pc' = [pc EXCEPT ![j] = "wait"]
  BY DEF UpdateLayers, Goto
<1>2. /\ pc'[j] = "wait"
      /\ \A q \in 1..Runs, m \in Names : q # r \/ m # l => pc'[<<q, m>>] = pc[<<q, m>>]
  BY <1>1, Indexed
<1>3. /\ \A g \in Functions : g # f => attached'[g] = attached[g]
      /\ f \in Functions => attached'[f] = new
  BY <1>1 DEF ShapeInv, Shape
<1>4. \A k, x : NewestIs(k, x)' <=> NewestIs(k, x)
  BY <1>1 DEF NewestIs
<1>5. ASSUME NEW g \in Functions PROVE NewestAttached(g)'
  <2> DEFINE k == NeededLayer(g)
  <2>1. k \in Layers /\ k \in Names /\ NewestAttached(g)
    BY Indexed DEF ChainInv
  <2>2. CASE k = l /\ g = f
    <3>1. mine[j] = Len(published[l])
      BY <1>1 DEF ChainInv, LayerKnown, Loop
    <3>2. [layer |-> l, version |-> mine[j]] \in new
      BY DEF Merged
    <3> QED
      BY <1>1, <1>3, <2>2, <3>1, <3>2 DEF NewestAttached, Newest
  <2>3. CASE k # l \/ g # f
    <3>1. Owed(g) => Owed(g)'
      BY <1>1, <1>2, <2>1, <2>3 DEF Owed
    <3>2. Newest(k) \in attached[g] => Newest(k) \in attached'[g]
      <4>1. CASE g # f
        BY <1>3, <4>1
      <4>2. CASE g = f
        <5>1. Newest(k).layer = k /\ k # l
          BY <2>3, <4>2 DEF Newest
        <5>2. ASSUME Newest(k) \in attached[f] PROVE Newest(k) \in seen[j]
          BY <1>1, <5>1, <5>2, JobPairs DEF ReadIsFresh
        <5> QED
          BY <1>3, <4>2, <5>1, <5>2 DEF Merged
      <4> QED
        BY <4>1, <4>2
    <3> QED
      BY <1>1, <2>1, <3>1, <3>2 DEF NewestAttached, Newest
  <2> QED
    BY <2>2, <2>3
<1>6. ASSUME NEW q \in 1..Runs, NEW k \in Layers PROVE LayerKnown(q, k)'
  <2>1. k \in Names /\ LayerKnown(q, k)
    BY Indexed DEF ChainInv
  <2>2. CASE q = r /\ k = l
    BY <1>1, <1>2, <1>4, <2>1, <2>2 DEF LayerKnown, Loop
  <2>3. CASE q # r \/ k # l
    BY <1>1, <1>2, <1>4, <2>1, <2>3 DEF LayerKnown
  <2> QED
    BY <2>2, <2>3
<1>7. ASSUME NEW q \in 1..Runs, NEW g \in Functions PROVE FunctionKnown(q, g)'
  <2>1. FunctionKnown(q, g) /\ g # l /\ g \in Names /\ NeededLayer(g) \in Names
    BY Indexed DEF ChainInv
  <2>2. LayerReady(q, g) => LayerReady(q, g)'
    BY <1>1, <1>2, <2>1 DEF LayerReady
  <2> QED
    BY <1>1, <1>2, <2>1, <2>2 DEF FunctionKnown
<1> QED
  BY <1>5, <1>6, <1>7 DEF ChainInv

\* When the layer job of a push has ended well and no later one has published,
\* the function that waits for it has the layer of that push.
LEMMA LayerThere ==
  ASSUME ShapeInv, ChainInv, NEW r \in 1..Runs, NEW f \in Functions, LayerReady(r, f),
         \A q \in 1..Runs : q > r => mine[<<q, NeededLayer(f)>>] = 0,
         \A q \in 1..Runs : pc[<<q, NeededLayer(f)>>] \notin {"read", "update"}
  PROVE  Has(published[NeededLayer(f)], attached[f], NeededLayer(f),
             Commits[r][NeededLayer(f)])
<1> DEFINE l == NeededLayer(f)
<1>1. l \in Layers /\ published[l] \in Seq(Nat)
  BY Indexed DEF ShapeInv, Shape
<1>2. NewestIs(l, Commits[r][l])
  BY <1>1 DEF ChainInv, LayerKnown, LayerReady
<1>3. Newest(l) \in attached[f]
  BY <1>2 DEF ChainInv, NewestAttached, NewestIs, Owed
<1>4. Len(published[l]) \in 1..Len(published[l])
  BY <1>1, <1>2 DEF NewestIs
<1> QED
  BY <1>2, <1>3, <1>4 DEF Has, Newest, NewestIs

\* A function job publishes when no other layer job can have touched its layer.
LEMMA ChainPublishVersion ==
  ASSUME ShapeInv, Owned, ChainsInOrder, ChainInv, NEW r \in 1..Runs, NEW f \in Functions,
         PublishVersion(r, f), ~Conflict(f)
  PROVE  ChainInv'
<1> DEFINE j == <<r, f>>
           k == NeededLayer(f)
           latest == [code |-> code[f], layers |-> attached[f]]
           n == Len(versions[f])
           longer == Append(versions[f], latest)
<1>0. /\ j \in Jobs /\ mine \in [Jobs -> Nat] /\ versions \in [Functions -> Seq(Frozen)]
      /\ pc \in [Jobs -> Step] /\ \A q \in 1..Runs, m \in Names : <<q, m>> \in Jobs
      /\ k \in Layers /\ k \in Names /\ f \in Names
  BY JobPairs, Indexed DEF ShapeInv, Shape
<1>1. /\ pc[j] = "publish" /\ UNCHANGED <<published, attached, todo>>
      /\ pc' = [pc EXCEPT ![j] = "alias"]
      /\ \/ /\ n > 0 /\ versions[f][n] = latest /\ versions' = versions
            /\ mine' = [mine EXCEPT ![j] = n]
         \/ /\ versions' = [versions EXCEPT ![f] = longer]
            /\ mine' = [mine EXCEPT ![j] = n + 1]
  BY DEF PublishVersion, Goto
<1>2. Has(published[k], attached[f], k, Commits[r][k])
  <2>1. LayerReady(r, f)
    BY <1>1 DEF ChainInv, FunctionKnown
  <2>2. \A q \in 1..Runs : q > r => pc[<<q, k>>] = "start"
    BY <1>1 DEF ChainsInOrder, Ended
  <2>3. \A q \in 1..Runs : q > r => mine[<<q, k>>] = 0
    BY <1>0, <2>2 DEF Owned, LayerOwned
  <2>4. \A q \in 1..Runs : pc[<<q, k>>] \notin {"read", "update"}
    <3>1. \A q \in 1..Runs : q < r => pc[<<q, k>>] \in Ended
      BY <2>1 DEF ChainsInOrder, LayerReady
    <3>2. pc[<<r, k>>] \in Ended
      BY <2>1 DEF LayerReady, Ended
    <3> SUFFICES ASSUME NEW q \in 1..Runs PROVE pc[<<q, k>>] \notin {"read", "update"}
      OBVIOUS
    <3>3. q < r \/ q = r \/ q > r
      BY DeployAssumption
    <3> QED
      BY <2>2, <3>1, <3>2, <3>3 DEF Ended
  <2> QED
    BY <2>1, <2>3, <2>4, LayerThere
<1>3. latest \in Frozen /\ n \in Nat /\ latest.layers = attached[f]
  BY <1>0 DEF ShapeInv, Shape, Frozen
<1>4. /\ Len(longer) = n + 1 /\ longer[n + 1] = latest
      /\ \A i \in 1..n : i \in 1..Len(longer) /\ longer[i] = versions[f][i]
  BY <1>0, <1>3
<1> HIDE DEF latest, longer
<1>5. /\ mine'[j] \in 1..Len(versions'[f]) /\ versions'[f][mine'[j]] = latest
      /\ \A i \in 1..n : i \in 1..Len(versions'[f]) /\ versions'[f][i] = versions[f][i]
  <2>1. CASE n > 0 /\ versions[f][n] = latest /\ versions' = versions
             /\ mine' = [mine EXCEPT ![j] = n]
    BY <1>0, <1>3, <2>1
  <2>2. CASE versions' = [versions EXCEPT ![f] = longer]
             /\ mine' = [mine EXCEPT ![j] = n + 1]
    <3>1. mine'[j] = n + 1 /\ versions'[f] = longer
      BY <1>0, <2>2
    <3>2. n + 1 \in 1..Len(longer)
      BY <1>3, <1>4
    <3> QED
      BY <1>4, <3>1, <3>2
  <2> QED
    BY <1>1, <2>1, <2>2
<1>6. \A g \in Functions : g # f => versions'[g] = versions[g]
  BY <1>0, <1>1
<1>7. /\ pc'[j] = "alias"
      /\ \A q \in 1..Runs, m \in Names :
           q # r \/ m # f =>
             pc'[<<q, m>>] = pc[<<q, m>>] /\ mine'[<<q, m>>] = mine[<<q, m>>]
  BY <1>0, <1>1
<1>8. ASSUME NEW g \in Functions PROVE NewestAttached(g)'
  BY <1>1, <1>7, Indexed DEF ChainInv, NewestAttached, Newest, Owed
<1>9. ASSUME NEW q \in 1..Runs, NEW l \in Layers PROVE LayerKnown(q, l)'
  <2>1. \A p \in 1..Runs :
          pc'[<<p, l>>] = pc[<<p, l>>] /\ mine'[<<p, l>>] = mine[<<p, l>>]
    BY <1>7, Indexed
  <2> QED
    BY <1>1, <2>1 DEF ChainInv, LayerKnown, NewestIs
<1>10. ASSUME NEW q \in 1..Runs, NEW g \in Functions PROVE FunctionKnown(q, g)'
  <2>1. /\ FunctionKnown(q, g) /\ g \in Names
        /\ LayerReady(q, g)' <=> LayerReady(q, g)
    BY <1>7, Indexed DEF ChainInv, LayerReady
  <2>2. CASE q = r /\ g = f
    BY <1>1, <1>2, <1>3, <1>5, <1>7, <2>1, <2>2 DEF FunctionKnown
  <2>3. CASE q # r \/ g # f
    <3>1. pc'[<<q, g>>] = pc[<<q, g>>] /\ mine'[<<q, g>>] = mine[<<q, g>>]
      BY <1>7, <2>1, <2>3
    <3>2. CASE g = f
      BY <1>1, <1>5, <2>1, <3>1, <3>2 DEF FunctionKnown
    <3>3. CASE g # f
      BY <1>1, <1>6, <2>1, <3>1, <3>3 DEF FunctionKnown
    <3> QED
      BY <3>2, <3>3
  <2> QED
    BY <2>2, <2>3
<1> QED
  BY <1>8, <1>9, <1>10 DEF ChainInv

LEMMA ChainLayerStep ==
  ASSUME ShapeInv, Undisturbed, NoneLeftBehind', ChainInv,
         NEW r \in 1..Runs, NEW l \in Layers, LayerStep(r, l)
  PROVE  ChainInv'
<1> DEFINE j == <<r, l>>
<1>0. /\ l \in Names /\ l \notin Functions /\ j \in LayerJobs /\ j \in Jobs
      /\ todo \in [LayerJobs -> Seq(Functions)] /\ LayerKnown(r, l)
  BY Indexed, JobPairs DEF ShapeInv, Shape, ChainInv
<1>1. CASE Compare(r, l)
  <2>1. PICK s \in {"skipped", "publish"} :
          pc' = [pc EXCEPT ![j] = s] /\ (s = "skipped" => NewestIs(l, Commits[r][l]))
    BY <1>1 DEF Compare, Goto, UpToDate, NewestIs
  <2>2. Moves(j, s) /\ UNCHANGED <<published, attached, versions, mine, todo>>
    BY <1>1, <2>1 DEF Compare, Moves, Ended, aws
  <2>3. pc[j] \notin {"read", "update"} /\ s \notin Loop
    BY <1>1 DEF Compare, Loop
  <2> QED
    BY <1>0, <2>1, <2>2, <2>3, ChainKept
<1>2. CASE PublishLayer(r, l)
  BY <1>2, ChainPublishLayer DEF Undisturbed
<1>3. CASE ReadLayers(r, l)
  <2>1. /\ Moves(j, "update") /\ pc[j] \in Loop
        /\ UNCHANGED <<published, attached, versions, mine, todo>>
    BY <1>3 DEF ReadLayers, Goto, Moves, Ended, Loop, aws
  <2> QED
    BY <1>0, <2>1, ChainKept
<1>4. CASE UpdateLayers(r, l)
  <2>1. CASE Conflict(Head(todo[j]))
    <3>1. pc[j] = "update" /\ pc' = [pc EXCEPT ![j] = "failed"] /\ mine' = mine
      BY <1>4, <2>1 DEF UpdateLayers, Goto
    <3>2. mine[j] = 0
      BY <1>0, <3>1, Indexed DEF NoneLeftBehind
    <3>3. mine[j] = Len(published[l]) /\ published[l] # <<>> /\ published[l] \in Seq(Nat)
      BY <1>0, <3>1 DEF LayerKnown, Loop, NewestIs, ShapeInv, Shape
    <3> QED
      BY <3>2, <3>3
  <2>2. CASE ~Conflict(Head(todo[j]))
    BY <1>4, <2>2, ChainAttach DEF Undisturbed
  <2> QED
    BY <2>1, <2>2
<1>5. CASE LayerWaited(r, l)
  <2>1. PICK s \in {"done", "read"} : pc' = [pc EXCEPT ![j] = s]
    BY <1>5 DEF LayerWaited, Goto
  <2>2. /\ pc[j] = "wait" /\ Moves(j, s)
        /\ UNCHANGED <<published, attached, versions, mine>>
        /\ todo' = [todo EXCEPT ![j] = Tail(todo[j])]
    BY <1>5, <2>1 DEF LayerWaited, Moves, Ended, aws
  <2>3. NewestIs(l, Commits[r][l]) /\ pc[j] \in Loop
    BY <1>0, <2>2 DEF LayerKnown, Loop
  <2>4. \A i \in LayerJobs : i # j => todo'[i] = todo[i]
    BY <1>0, <2>2
  <2> QED
    BY <1>0, <2>2, <2>3, <2>4, ChainKept
<1> QED
  BY <1>1, <1>2, <1>3, <1>4, <1>5 DEF LayerStep

LEMMA ChainFunctionStep ==
  ASSUME ShapeInv, Owned, ChainsInOrder, ChainInv,
         NEW r \in 1..Runs, NEW f \in Functions, FunctionStep(r, f)
  PROVE  ChainInv'
<1> DEFINE j == <<r, f>>
<1>0. f \in Names /\ f \notin Layers /\ FunctionKnown(r, f)
  BY Indexed DEF ChainInv
<1>1. ASSUME NEW s, Moves(j, s), UNCHANGED <<published, attached, versions, mine, todo>>,
             s \notin {"start", "failed"} => LayerReady(r, f),
             s \in {"alias", "done"} => pc[j] \in {"alias", "done"}
      PROVE  ChainInv'
  BY <1>0, <1>1, ChainKept
<1>2. CASE NeedsFailed(r, f)
  BY <1>1, <1>2 DEF NeedsFailed, Goto, Moves, Ended, aws
<1>3. CASE UpdateCode(r, f)
  <2>1. /\ Moves(j, "failed") \/ Moves(j, "wait")
        /\ LayerReady(r, f) /\ UNCHANGED <<published, attached, versions, mine, todo>>
    BY <1>3 DEF UpdateCode, Goto, Moves, Ended
  <2> QED
    BY <1>1, <2>1
<1>4. CASE CodeWaited(r, f)
  BY <1>0, <1>1, <1>4 DEF CodeWaited, Goto, Moves, Ended, aws, FunctionKnown
<1>5. CASE PublishVersion(r, f)
  <2>1. CASE Conflict(f)
    BY <1>1, <1>5, <2>1 DEF PublishVersion, Goto, Moves, Ended
  <2>2. CASE ~Conflict(f)
    BY <1>5, <2>2, ChainPublishVersion
  <2> QED
    BY <2>1, <2>2
<1>6. CASE UpdateAlias(r, f)
  BY <1>0, <1>1, <1>6 DEF UpdateAlias, Goto, Moves, Ended, FunctionKnown
<1> QED
  BY <1>2, <1>3, <1>4, <1>5, <1>6 DEF FunctionStep

LEMMA ChainStep ==
  ShapeInv /\ Owned /\ Undisturbed /\ Undisturbed' /\ ChainInv /\ [Next]_vars => ChainInv'
<1> SUFFICES ASSUME ShapeInv, Owned, Undisturbed, Undisturbed', ChainInv, [Next]_vars
             PROVE  ChainInv'
  OBVIOUS
<1>1. ASSUME NEW r \in 1..Runs, NEW l \in Layers, LayerStep(r, l) PROVE ChainInv'
  BY <1>1, ChainLayerStep DEF Undisturbed
<1>2. ASSUME NEW r \in 1..Runs, NEW f \in Functions, FunctionStep(r, f) PROVE ChainInv'
  BY <1>2, ChainFunctionStep DEF Undisturbed
<1>3. ASSUME NEW r \in 1..Runs, UpdateStateMachine(r) PROVE ChainInv'
  <2>1. PICK s : Moves(<<r, StateMachine>>, s)
    BY <1>3, MachineMoves
  <2>2. UNCHANGED <<published, attached, versions, mine, todo>>
    BY <1>3 DEF UpdateStateMachine
  <2> QED
    BY <2>1, <2>2, ChainKept, Indexed
<1>4. ASSUME NEW j \in Jobs, JobFails(j) PROVE ChainInv'
  <2>1. PICK r \in 1..Runs, n \in Names : j = <<r, n>>
    BY DEF Jobs
  <2>2. /\ Moves(<<r, n>>, "failed")
        /\ UNCHANGED <<published, attached, versions, mine, todo>>
    BY <1>4, <2>1 DEF JobFails, Goto, Moves, aws
  <2>3. ASSUME n \in Layers PROVE pc[<<r, n>>] \notin Loop
    <3>1. pc'[<<r, n>>] = "failed" /\ <<r, n>> \in LayerJobs
      BY <2>2, <2>3, Indexed, JobPairs DEF Moves
    <3>2. mine[<<r, n>>] = 0
      BY <2>2, <3>1 DEF Undisturbed, NoneLeftBehind
    <3>3. published[n] \in Seq(Nat) /\ LayerKnown(r, n)
      BY <2>3 DEF ShapeInv, Shape, ChainInv
    <3> QED
      BY <3>2, <3>3 DEF LayerKnown, NewestIs
  <2> QED
    BY <2>2, <2>3, ChainKept DEF Loop
<1>5. CASE UNCHANGED vars \/ \E f \in Functions : UpdateDone(f)
  <2>1. UNCHANGED <<published, attached, versions, mine, todo, pc>>
    BY <1>5 DEF vars, aws, jobs, UpdateDone
  <2> QED
    BY <2>1 DEF ChainInv, NewestAttached, Newest, NewestIs, Owed, LayerKnown, FunctionKnown,
       LayerReady
<1> QED
  BY <1>1, <1>2, <1>3, <1>4, <1>5, Steps

LEMMA ChainInit == Init => ChainInv
<1> SUFFICES ASSUME Init PROVE ChainInv
  OBVIOUS
<1>1. \A j \in Jobs : pc[j] = "start"
  BY DEF Init
<1>2. ASSUME NEW f \in Functions PROVE NewestAttached(f)
  <2>1. CASE NewAccount
    BY <2>1, Indexed, ShapeInit DEF Init, NewestAttached
  <2>2. CASE ~NewAccount
    <3>1. NeededLayer(f) \in Layers
      BY Indexed, ShapeInit
    <3>2. Len(published[NeededLayer(f)]) = 1
      BY <2>2, <3>1 DEF Init
    <3>3. attached[f] = [layer : {"prisma", NeededLayer(f)}, version : {1}]
      BY <2>2 DEF Init
    <3> QED
      BY <3>2, <3>3 DEF NewestAttached, Newest
  <2> QED
    BY <2>1, <2>2
<1>3. ASSUME NEW r \in 1..Runs, NEW l \in Layers PROVE LayerKnown(r, l)
  BY <1>1, JobPairs DEF LayerKnown, Loop
<1>4. ASSUME NEW r \in 1..Runs, NEW f \in Functions PROVE FunctionKnown(r, f)
  BY <1>1, JobPairs DEF FunctionKnown
<1> QED
  BY <1>2, <1>3, <1>4 DEF ChainInv

LEMMA ChainServes == ChainInv => ServedWithLayer
<1> SUFFICES ASSUME ChainInv, NEW r \in 1..Runs, NEW f \in Functions,
                    pc[<<r, f>>] = "done"
             PROVE  Carries(versions[f][mine[<<r, f>>]].layers, NeededLayer(f), r)
  BY DEF ServedWithLayer, FunctionJobs
<1> QED
  BY DEF ChainInv, FunctionKnown, Has, Carries

LEMMA ChainSkips ==
  ShapeInv /\ Owned /\ ChainsInOrder /\ ChainInv => SkippedMeansAttached
<1> SUFFICES ASSUME ShapeInv, Owned, ChainsInOrder, ChainInv,
                    NEW r \in 1..Runs, NEW f \in Functions,
                    pc[<<r, NeededLayer(f)>>] = "skipped",
                    r = Runs \/ pc[<<r + 1, NeededLayer(f)>>] = "start"
             PROVE  Carries(attached[f], NeededLayer(f), r)
  BY DEF SkippedMeansAttached
<1> DEFINE l == NeededLayer(f)
<1>1. l \in Layers /\ LayerReady(r, f)
  BY Indexed DEF LayerReady
<1>2. \A q \in 1..Runs : q > r => pc[<<q, l>>] = "start"
  <2> SUFFICES ASSUME NEW q \in 1..Runs, q > r PROVE pc[<<q, l>>] = "start"
    OBVIOUS
  <2>1. r + 1 \in 1..Runs /\ pc[<<r + 1, l>>] = "start" /\ r + 1 <= q
    BY DeployAssumption
  <2>2. CASE q = r + 1
    BY <2>1, <2>2
  <2>3. CASE q > r + 1
    BY <2>1, <2>3 DEF ChainsInOrder, Ended
  <2> QED
    BY <2>1, <2>2, <2>3, DeployAssumption
<1>3. \A q \in 1..Runs : q > r => mine[<<q, l>>] = 0
  BY <1>1, <1>2 DEF Owned, LayerOwned
<1>4. \A q \in 1..Runs : pc[<<q, l>>] \notin {"read", "update"}
  <2>1. \A q \in 1..Runs : q < r => pc[<<q, l>>] \in Ended
    BY DEF ChainsInOrder
  <2> QED
    BY <1>2, <2>1, DeployAssumption DEF Ended
<1>5. Has(published[l], attached[f], l, Commits[r][l])
  BY <1>1, <1>3, <1>4, LayerThere
<1> QED
  BY <1>5 DEF Has, Carries

\* The three conditions are enough: whatever the pushes change, be it both
\* layers, on a new account or an old one, and though runs overlap and calls
\* fail, every function job that ends well has published a version with the
\* layer its push asks for, as long as the chains of jobs keep the order of the
\* pushes, no job writes back a list that misses another layer, and no job
\* fails between publishing a layer and attaching it.
THEOREM ServedRight ==
  Spec /\ []Undisturbed => [](ServedWithLayer /\ ServedWhenFaultless)
<1>1. Init => ShapeInv /\ Owned /\ ChainInv
  BY ShapeInit, OwnedInit, ChainInit
<1>2. ShapeInv /\ Owned /\ ChainInv /\ Undisturbed /\ Undisturbed' /\ [Next]_vars
        => (ShapeInv /\ Owned /\ ChainInv)'
  BY ShapeStep, OwnedStep, ChainStep
<1>3. ChainInv => ServedWithLayer /\ ServedWhenFaultless
  BY ChainServes DEF ServedWhenFaultless
<1> QED
  BY <1>1, <1>2, <1>3, PTL DEF Spec

\* They are also enough for skipping on the fingerprint alone: the function
\* that waits for a layer job that skipped has the layer attached.
THEOREM SkipIsSound ==
  Spec /\ []Undisturbed => [](SkippedMeansAttached /\ SkipSoundWhenFaultless)
<1>1. Init => ShapeInv /\ Owned /\ ChainInv
  BY ShapeInit, OwnedInit, ChainInit
<1>2. ShapeInv /\ Owned /\ ChainInv /\ Undisturbed /\ Undisturbed' /\ [Next]_vars
        => (ShapeInv /\ Owned /\ ChainInv)'
  BY ShapeStep, OwnedStep, ChainStep
<1>3. ShapeInv /\ Owned /\ ChainInv /\ Undisturbed
        => SkippedMeansAttached /\ SkipSoundWhenFaultless
  BY ChainSkips DEF SkipSoundWhenFaultless, Undisturbed
<1> QED
  BY <1>1, <1>2, <1>3, PTL DEF Spec


-----------------------------------------------------------------------------
(* Nothing delivered refers to what is not there, whatever overlaps and fails *)

\* The version of a layer exists that is attached here.
There(a) == a.version \in 1..Len(published[a.layer])

\* The push of this code exists, and its layer job ended well.
Backed(r, f) == r \in 1..Runs /\ LayerReady(r, f)

\* Every layer version which a function, one of its versions or a layer job
\* refers to exists; every function version is of a push whose layer job ended
\* well, and so is what an alias serves; the function that the state machine's
\* workflow invokes was delivered by the push of that workflow.
NothingDangles ==
  /\ \A f \in Functions : \A a \in attached[f] : There(a)
  /\ \A j \in LayerJobs : \A a \in seen[j] : There(a)
  /\ \A f \in Functions : \A i \in 1..Len(versions[f]) :
       /\ Backed(versions[f][i].code, f)
       /\ \A a \in versions[f][i].layers : There(a)
  /\ \A f \in Functions : alias[f] # 0 => alias[f] \in 1..Len(versions[f])
  /\ Invoked /\ (workflow # 0 => alias["delete-user"] # 0)

\* A layer job refers to versions that exist.
LayersThere ==
  /\ \A f \in Functions : \A a \in attached[f] : There(a)
  /\ \A j \in LayerJobs : \A a \in seen[j] : There(a)
  /\ \A r \in 1..Runs, l \in Layers :
       pc[<<r, l>>] \in Loop => mine[<<r, l>>] \in 1..Len(published[l])

\* The code in $LATEST and in a version is of a push whose layer job ended well.
CodeBacked ==
  /\ \A f \in Functions : code[f] # 0 => Backed(code[f], f)
  /\ \A f \in Functions : \A i \in 1..Len(versions[f]) :
       /\ Backed(versions[f][i].code, f)
       /\ \A a \in versions[f][i].layers : There(a)
  /\ \A r \in 1..Runs, f \in Functions :
       /\ pc[<<r, f>>] \in {"wait", "publish"} => code[f] # 0
       /\ pc[<<r, f>>] = "alias" => mine[<<r, f>>] \in 1..Len(versions[f])
       /\ pc[<<r, f>>] = "done" => alias[f] # 0

\* Versions of layers stay, and so do jobs that ended well.
LEMMA Stays ==
  ASSUME ShapeInv, [Next]_vars
  PROVE  /\ \A l \in Layers : Grown(published[l], published'[l])
         /\ \A a \in Version : There(a) => There(a)'
         /\ \A r, f : f \in Functions /\ Backed(r, f) => Backed(r, f)'
<1>1. \A l \in Layers : Grown(published[l], published'[l])
  <2>1. ASSUME NEW r \in 1..Runs, NEW l \in Layers, PublishLayer(r, l)
        PROVE  \A k \in Layers : Grown(published[k], published'[k])
    <3>1. /\ published' = [published EXCEPT ![l] = Append(published[l], Commits[r][l])]
          /\ published \in [Layers -> Seq(Nat)] /\ Commits[r][l] \in Nat
      BY <2>1, DeployAssumption DEF PublishLayer, ShapeInv, Shape
    <3> SUFFICES ASSUME NEW k \in Layers PROVE Grown(published[k], published'[k])
      OBVIOUS
    <3>2. published[k] \in Seq(Nat)
      BY <3>1
    <3>3. published'[k] = published[k] \/ published'[k] = Append(published[k], Commits[r][l])
      BY <3>1
    <3> QED
      BY <3>1, <3>2, <3>3, AppendGrows
  <2>2. ASSUME UNCHANGED published
        PROVE  \A k \in Layers : Grown(published[k], published'[k])
    BY <2>2 DEF Grown
  <2>3. \A r \in 1..Runs, l \in Layers :
          LayerStep(r, l) => PublishLayer(r, l) \/ UNCHANGED published
    BY DEF LayerStep, Compare, ReadLayers, UpdateLayers, LayerWaited, aws
  <2>4. \A r \in 1..Runs, f \in Functions : FunctionStep(r, f) => UNCHANGED published
    BY DEF FunctionStep, NeedsFailed, UpdateCode, CodeWaited, PublishVersion, UpdateAlias, aws
  <2>5. UNCHANGED vars \/ (\E r \in 1..Runs : UpdateStateMachine(r))
          \/ (\E f \in Functions : UpdateDone(f)) \/ (\E j \in Jobs : JobFails(j))
          => UNCHANGED published
    BY DEF vars, UpdateStateMachine, UpdateDone, JobFails, aws
  <2> QED
    BY <2>1, <2>2, <2>3, <2>4, <2>5, Steps
<1>2. \A a \in Version : There(a) => There(a)'
  BY <1>1 DEF There, Version, Grown
<1>3. \A r, f : f \in Functions /\ Backed(r, f) => Backed(r, f)'
  <2> SUFFICES ASSUME NEW r \in 1..Runs, NEW f \in Functions, LayerReady(r, f)
               PROVE  LayerReady(r, f)'
    BY DEF Backed
  <2>1. CASE UNCHANGED pc
    BY <2>1 DEF LayerReady
  <2>2. ASSUME NEW q \in 1..Runs, NEW n \in Names, NEW s, Moves(<<q, n>>, s)
        PROVE  LayerReady(r, f)'
    BY <2>2, Indexed DEF Moves, LayerReady, Ended
  <2> QED
    BY <2>1, <2>2, StepInTurn
<1> QED
  BY <1>1, <1>2, <1>3

LEMMA LayersThereStep == ShapeInv /\ LayersThere /\ [Next]_vars => LayersThere'
<1> SUFFICES ASSUME ShapeInv, LayersThere, [Next]_vars PROVE LayersThere'
  OBVIOUS
<1>0. /\ \A f \in Functions : attached[f] \subseteq Version
      /\ \A j \in LayerJobs : seen[j] \subseteq Version
      /\ attached \in [Functions -> SUBSET Version] /\ seen \in [LayerJobs -> SUBSET Version]
      /\ \A l \in Layers : published[l] \in Seq(Nat)
      /\ \A l \in Layers : \A i \in 1..Len(published[l]) : i \in 1..Len(published'[l])
  BY Stays DEF ShapeInv, Shape, Grown
<1>1. ASSUME UNCHANGED attached PROVE \A f \in Functions : \A a \in attached'[f] : There(a)'
  BY <1>0, <1>1, Stays DEF LayersThere
<1>2. ASSUME UNCHANGED seen PROVE \A j \in LayerJobs : \A a \in seen'[j] : There(a)'
  BY <1>0, <1>2, Stays DEF LayersThere
<1>3. ASSUME NEW r \in 1..Runs, NEW n \in Names, NEW s, Moves(<<r, n>>, s),
             n \in Layers /\ s \in Loop => pc[<<r, n>>] \in Loop,
             \A q \in 1..Runs, l \in Layers : mine'[<<q, l>>] = mine[<<q, l>>]
      PROVE  \A q \in 1..Runs, l \in Layers :
               pc'[<<q, l>>] \in Loop => mine'[<<q, l>>] \in 1..Len(published'[l])
  <2> SUFFICES ASSUME NEW q \in 1..Runs, NEW l \in Layers, pc'[<<q, l>>] \in Loop
               PROVE  mine[<<q, l>>] \in 1..Len(published'[l])
    BY <1>3
  <2>1. pc[<<q, l>>] \in Loop
    BY <1>3, Indexed DEF Moves
  <2> QED
    BY <1>0, <2>1 DEF LayersThere
<1>4. ASSUME NEW r \in 1..Runs, NEW l \in Layers, LayerStep(r, l) PROVE LayersThere'
  <2> DEFINE j == <<r, l>>
  <2>0. j \in LayerJobs /\ j \in Jobs /\ l \in Names
    BY JobPairs, Indexed
  <2>1. CASE Compare(r, l) \/ LayerWaited(r, l)
    <3>1. PICK s : /\ Moves(j, s) /\ (s \in Loop => pc[j] \in Loop)
                   /\ UNCHANGED <<attached, seen, mine>>
      BY <2>1 DEF Compare, LayerWaited, Goto, Moves, Ended, Loop, aws
    <3> QED
      BY <1>1, <1>2, <1>3, <2>0, <3>1 DEF LayersThere
  <2>2. CASE PublishLayer(r, l)
    <3>1. /\ pc' = [pc EXCEPT ![j] = "read"] /\ UNCHANGED <<attached, seen>>
          /\ mine' = [mine EXCEPT ![j] = Len(published[l]) + 1]
          /\ published' = [published EXCEPT ![l] = Append(published[l], Commits[r][l])]
      BY <2>2 DEF PublishLayer, Goto
    <3>2. Len(published[l]) + 1 \in 1..Len(published'[l])
      BY <1>0, <3>1, DeployAssumption DEF ShapeInv, Shape
    <3>3. ASSUME NEW q \in 1..Runs, NEW k \in Layers, pc'[<<q, k>>] \in Loop
          PROVE  mine'[<<q, k>>] \in 1..Len(published'[k])
      <4>1. CASE q = r /\ k = l
        BY <2>0, <3>1, <3>2, <4>1, Indexed
      <4>2. CASE q # r \/ k # l
        <5>1. pc[<<q, k>>] \in Loop /\ mine'[<<q, k>>] = mine[<<q, k>>]
          BY <3>1, <3>3, <4>2, Indexed
        <5> QED
          BY <1>0, <5>1 DEF LayersThere
      <4> QED
        BY <4>1, <4>2
    <3> QED
      BY <1>1, <1>2, <3>1, <3>3 DEF LayersThere
  <2>3. CASE ReadLayers(r, l)
    <3>1. /\ Moves(j, "update") /\ pc[j] \in Loop /\ UNCHANGED <<attached, mine>>
          /\ Head(todo[j]) \in Functions
          /\ \/ seen' = [seen EXCEPT ![j] = attached[Head(todo[j])]]
             \/ seen' = [seen EXCEPT ![j] = {}]
      BY <2>0, <2>3, Shorter DEF ReadLayers, Goto, Moves, Ended, Loop, aws, ShapeInv, Shape, InLoop
    <3>2. ASSUME NEW i \in LayerJobs, NEW a \in seen'[i] PROVE There(a)'
      <4>1. a \in seen[i] \/ a \in attached[Head(todo[j])]
        BY <1>0, <2>0, <3>1, <3>2
      <4> QED
        BY <1>0, <3>1, <4>1, Stays DEF LayersThere
    <3> QED
      BY <1>1, <1>3, <2>0, <3>1, <3>2 DEF LayersThere
  <2>4. CASE UpdateLayers(r, l)
    <3> DEFINE f == Head(todo[j])
               new == Merged(l, seen[j], mine[j])
    <3>1. /\ pc[j] \in Loop /\ UNCHANGED <<seen, mine, published>>
          /\ Moves(j, "wait") \/ Moves(j, "failed")
          /\ attached' = attached \/ attached' = [attached EXCEPT ![f] = new]
      BY <2>4 DEF UpdateLayers, Goto, Moves, Ended, Loop
    <3>2. \A a \in new : There(a)
      <4>1. There([layer |-> l, version |-> mine[j]])
        BY <3>1 DEF LayersThere, There
      <4> QED
        BY <2>0, <4>1 DEF Merged, LayersThere
    <3>3. ASSUME NEW g \in Functions, NEW a \in attached'[g] PROVE There(a)'
      <4>1. a \in attached[g] \/ a \in new
        BY <1>0, <3>1, <3>3
      <4> QED
        BY <3>1, <3>2, <4>1 DEF LayersThere, There
    <3> QED
      BY <1>2, <1>3, <2>0, <3>1, <3>3 DEF LayersThere
  <2> QED
    BY <1>4, <2>1, <2>2, <2>3, <2>4 DEF LayerStep
<1>5. ASSUME NEW r \in 1..Runs, NEW f \in Functions, FunctionStep(r, f) PROVE LayersThere'
  <2>1. PICK s : Moves(<<r, f>>, s)
    BY <1>5, FunctionMoves
  <2>2. UNCHANGED <<attached, seen>> /\ (mine' = mine \/ \E v : mine' = [mine EXCEPT ![<<r, f>>] = v])
    BY <1>5 DEF FunctionStep, NeedsFailed, UpdateCode, CodeWaited, PublishVersion,
       UpdateAlias, aws
  <2>3. \A q \in 1..Runs, l \in Layers : mine'[<<q, l>>] = mine[<<q, l>>]
    BY <2>2, Indexed
  <2> QED
    BY <1>1, <1>2, <1>3, <2>1, <2>2, <2>3, Indexed DEF LayersThere
<1>6. ASSUME NEW j \in Jobs, JobFails(j) PROVE LayersThere'
  <2>1. PICK r \in 1..Runs, n \in Names : j = <<r, n>>
    BY DEF Jobs
  <2>2. Moves(<<r, n>>, "failed") /\ UNCHANGED <<attached, seen, mine>>
    BY <1>6, <2>1 DEF JobFails, Goto, Moves, aws
  <2> QED
    BY <1>1, <1>2, <1>3, <2>2 DEF LayersThere, Loop
<1>7. ASSUME NEW r \in 1..Runs, UpdateStateMachine(r) PROVE LayersThere'
  <2>1. PICK s : Moves(<<r, StateMachine>>, s)
    BY <1>7, MachineMoves
  <2>2. UNCHANGED <<attached, seen, mine>>
    BY <1>7 DEF UpdateStateMachine
  <2> QED
    BY <1>1, <1>2, <1>3, <2>1, <2>2, Indexed DEF LayersThere
<1>8. CASE UNCHANGED vars \/ \E f \in Functions : UpdateDone(f)
  <2>1. UNCHANGED <<attached, seen, mine, pc, published>>
    BY <1>8 DEF vars, aws, jobs, UpdateDone
  <2> QED
    BY <2>1 DEF LayersThere, There
<1> QED
  BY <1>4, <1>5, <1>6, <1>7, <1>8, Steps


\* A step that changes neither code nor versions.
LEMMA BackedKept ==
  ASSUME ShapeInv, CodeBacked, [Next]_vars, UNCHANGED <<code, versions>>
  PROVE  /\ \A f \in Functions : code'[f] # 0 => Backed(code[f], f)'
         /\ \A f \in Functions : \A i \in 1..Len(versions'[f]) :
              /\ Backed(versions[f][i].code, f)'
              /\ \A a \in versions'[f][i].layers : There(a)'
<1>1. \A f \in Functions : code'[f] # 0 => Backed(code[f], f)'
  BY Stays DEF CodeBacked
<1>2. ASSUME NEW f \in Functions, NEW i \in 1..Len(versions[f])
      PROVE  /\ Backed(versions[f][i].code, f)'
             /\ \A a \in versions[f][i].layers : There(a)'
  <2>1. /\ Backed(versions[f][i].code, f)
        /\ \A a \in versions[f][i].layers : There(a)
    BY DEF CodeBacked
  <2>2. versions[f][i].layers \subseteq Version
    <3>1. versions[f] \in Seq(Frozen)
      BY DEF ShapeInv, Shape
    <3>2. versions[f][i] \in Frozen
      BY <3>1
    <3> QED
      BY <3>2 DEF Frozen
  <2>3. Backed(versions[f][i].code, f)'
    BY <2>1, Stays
  <2>4. \A a \in versions[f][i].layers : There(a)'
    BY <2>1, <2>2, Stays
  <2> QED
    BY <2>3, <2>4
<1> QED
  BY <1>1, <1>2

\* A step of a job that changes nothing but itself.
LEMMA CodeBackedKept ==
  ASSUME ShapeInv, CodeBacked, [Next]_vars, UNCHANGED <<code, versions, alias>>,
         NEW r \in 1..Runs, NEW n \in Names, NEW s, Moves(<<r, n>>, s),
         \A q \in 1..Runs, f \in Functions : mine'[<<q, f>>] = mine[<<q, f>>],
         n \in Functions => s = "failed" \/ (s = "publish" /\ pc[<<r, n>>] = "wait")
  PROVE  CodeBacked'
<1>1. ASSUME NEW q \in 1..Runs, NEW f \in Functions
      PROVE  /\ pc'[<<q, f>>] \in {"wait", "publish"} => code'[f] # 0
             /\ pc'[<<q, f>>] = "alias" => mine'[<<q, f>>] \in 1..Len(versions'[f])
             /\ pc'[<<q, f>>] = "done" => alias'[f] # 0
  <2>1. f \in Names /\ pc' = [pc EXCEPT ![<<r, n>>] = s] /\ pc \in [Jobs -> Step]
    BY Indexed DEF Moves
  <2>2. CASE q = r /\ f = n
    <3>1. pc'[<<q, f>>] = s
      BY <2>1, <2>2, Indexed
    <3> QED
      BY <2>2, <3>1 DEF CodeBacked
  <2>3. CASE q # r \/ f # n
    <3>1. pc'[<<q, f>>] = pc[<<q, f>>]
      BY <2>1, <2>3, Indexed
    <3> QED
      BY <3>1 DEF CodeBacked
  <2> QED
    BY <2>2, <2>3
<1> QED
  BY <1>1, BackedKept DEF CodeBacked

LEMMA CodeBackedFunction ==
  ASSUME ShapeInv, LayersThere, CodeBacked, [Next]_vars,
         NEW r \in 1..Runs, NEW f \in Functions, FunctionStep(r, f)
  PROVE  CodeBacked'
<1> DEFINE j == <<r, f>>
           Job(q, g) ==
             /\ pc[<<q, g>>] \in {"wait", "publish"} => code[g] # 0
             /\ pc[<<q, g>>] = "alias" => mine[<<q, g>>] \in 1..Len(versions[g])
             /\ pc[<<q, g>>] = "done" => alias[g] # 0
<1>0. /\ j \in Jobs /\ f \in Names
      /\ pc \in [Jobs -> Step] /\ mine \in [Jobs -> Nat] /\ code \in [Functions -> Nat]
      /\ versions \in [Functions -> Seq(Frozen)] /\ alias \in [Functions -> Nat]
      /\ \A q \in 1..Runs, g \in Functions : <<q, g>> \in Jobs /\ Job(q, g)
  BY Indexed DEF ShapeInv, Shape, CodeBacked
<1>1. ASSUME pc' = [pc EXCEPT ![j] = "failed"] \/
             (pc[j] = "wait" /\ pc' = [pc EXCEPT ![j] = "publish"]),
             pc[j] \notin Ended, UNCHANGED <<code, versions, alias, mine>>
      PROVE  CodeBacked'
  BY <1>0, <1>1, CodeBackedKept DEF Moves
<1>2. CASE NeedsFailed(r, f) \/ CodeWaited(r, f)
  BY <1>1, <1>2 DEF NeedsFailed, CodeWaited, Goto, Ended, aws
<1>3. CASE UpdateCode(r, f)
  <2>1. CASE pc' = [pc EXCEPT ![j] = "wait"] /\ code' = [code EXCEPT ![f] = r]
             /\ UNCHANGED <<versions, alias, mine>>
    <3>1. /\ code'[f] = r /\ \A g \in Functions : g # f => code'[g] = code[g]
          /\ pc'[j] = "wait" /\ \A q \in 1..Runs, g \in Functions :
                                  q # r \/ g # f => pc'[<<q, g>>] = pc[<<q, g>>]
      BY <1>0, <2>1
    <3>2. Backed(r, f)'
      BY <1>3, Stays DEF UpdateCode, Backed
    <3>3. ASSUME NEW g \in Functions, code'[g] # 0 PROVE Backed(code[g], g)'
      <4>1. CASE g = f
        BY <3>1, <3>2, <4>1
      <4>2. CASE g # f
        BY <3>1, <3>3, <4>2, Stays DEF CodeBacked
      <4> QED
        BY <4>1, <4>2
    <3>4. ASSUME NEW g \in Functions, NEW i \in 1..Len(versions[g])
          PROVE  /\ Backed(versions[g][i].code, g)'
                 /\ \A a \in versions[g][i].layers : There(a)'
      <4>1. Backed(versions[g][i].code, g)'
        BY <2>1, Stays DEF CodeBacked
      <4>2. published' = published
        BY <1>3 DEF UpdateCode
      <4> QED
        BY <4>1, <4>2 DEF CodeBacked, There
    <3>5. ASSUME NEW q \in 1..Runs, NEW g \in Functions PROVE Job(q, g)'
      <4>1. CASE q = r /\ g = f
        BY <3>1, <4>1
      <4>2. CASE q # r \/ g # f
        <5>1. Job(q, g) /\ pc'[<<q, g>>] = pc[<<q, g>>] /\ (code[g] # 0 => code'[g] # 0)
          BY <1>0, <3>1, <4>2
        <5> QED
          BY <2>1, <5>1
      <4> QED
        BY <4>1, <4>2
    <3> QED
      BY <2>1, <3>3, <3>4, <3>5 DEF CodeBacked
  <2> QED
    BY <1>1, <1>3, <2>1 DEF UpdateCode, Goto, Ended
<1>4. CASE PublishVersion(r, f)
  <2> DEFINE latest == [code |-> code[f], layers |-> attached[f]]
             n == Len(versions[f])
             longer == Append(versions[f], latest)
  <2>1. /\ Backed(latest.code, f) /\ \A a \in latest.layers : There(a)
        /\ latest \in Frozen /\ n \in Nat
    <3>1. code[f] # 0
      BY <1>0, <1>4 DEF PublishVersion
    <3>2. Backed(code[f], f) /\ \A a \in attached[f] : There(a)
      BY <3>1 DEF CodeBacked, LayersThere
    <3>3. latest \in Frozen
      BY DEF ShapeInv, Shape, Frozen
    <3> QED
      BY <1>0, <3>2, <3>3
  <2>2. /\ Len(longer) = n + 1 /\ longer[n + 1] = latest
        /\ \A i \in 1..n : longer[i] = versions[f][i]
    BY <1>0, <2>1
  <2> HIDE DEF latest, longer
  <2>3. CASE /\ pc' = [pc EXCEPT ![j] = "alias"] /\ UNCHANGED <<code, alias, published>>
             /\ \/ /\ n > 0 /\ versions' = versions
                   /\ mine' = [mine EXCEPT ![j] = n]
                \/ /\ versions' = [versions EXCEPT ![f] = longer]
                   /\ mine' = [mine EXCEPT ![j] = n + 1]
    <3>1. /\ pc'[j] = "alias"
          /\ \A q \in 1..Runs, g \in Functions :
               q # r \/ g # f => /\ pc'[<<q, g>>] = pc[<<q, g>>]
                                 /\ mine'[<<q, g>>] = mine[<<q, g>>]
          /\ \A g \in Functions : g # f => versions'[g] = versions[g]
      BY <1>0, <2>3
    <3>2. /\ mine'[j] \in 1..Len(versions'[f]) /\ n <= Len(versions'[f])
          /\ Len(versions'[f]) \in Nat
          /\ \A i \in 1..Len(versions'[f]) :
               versions'[f][i] = latest \/ (i \in 1..n /\ versions'[f][i] = versions[f][i])
      <4>1. CASE n > 0 /\ versions' = versions /\ mine' = [mine EXCEPT ![j] = n]
        BY <1>0, <2>1, <4>1
      <4>2. CASE versions' = [versions EXCEPT ![f] = longer]
                 /\ mine' = [mine EXCEPT ![j] = n + 1]
        <5>1. versions'[f] = longer /\ mine'[j] = n + 1
          BY <1>0, <4>2
        <5> HIDE DEF n
        <5>2. n + 1 \in 1..Len(longer) /\ n <= Len(longer) /\ Len(longer) \in Nat
              /\ \A i \in 1..Len(longer) : i = n + 1 \/ i \in 1..n
          BY <2>1, <2>2
        <5> QED
          BY <2>2, <5>1, <5>2
      <4> QED
        BY <2>3, <4>1, <4>2
    <3>3. ASSUME NEW g \in Functions, NEW i \in 1..Len(versions'[g])
          PROVE  /\ Backed(versions[g][i].code, g)'
                 /\ \A a \in versions'[g][i].layers : There(a)'
      <4>1. /\ Backed(versions'[g][i].code, g)
            /\ \A a \in versions'[g][i].layers : There(a)
        <5>1. CASE g = f
          BY <2>1, <3>2, <3>3, <5>1 DEF CodeBacked
        <5>2. CASE g # f
          BY <3>1, <3>3, <5>2 DEF CodeBacked
        <5> QED
          BY <5>1, <5>2
      <4> QED
        BY <2>3, <4>1, Stays DEF There
    <3>4. ASSUME NEW q \in 1..Runs, NEW g \in Functions PROVE Job(q, g)'
      <4>1. CASE q = r /\ g = f
        BY <3>1, <3>2, <4>1
      <4>2. CASE q # r \/ g # f
        <5>1. /\ Job(q, g) /\ pc'[<<q, g>>] = pc[<<q, g>>]
              /\ mine'[<<q, g>>] = mine[<<q, g>>] /\ UNCHANGED <<code, alias>>
          BY <1>0, <2>3, <3>1, <4>2
        <5>2. \A m \in 1..Len(versions[g]) : m \in 1..Len(versions'[g])
          <6>1. CASE g = f
            BY <2>1, <3>2, <6>1
          <6>2. CASE g # f
            BY <3>1, <6>2
          <6> QED
            BY <6>1, <6>2
        <5> QED
          BY <5>1, <5>2
      <4> QED
        BY <4>1, <4>2
    <3>5. \A g \in Functions : code'[g] # 0 => Backed(code[g], g)'
      BY <2>3, Stays DEF CodeBacked
    <3> QED
      BY <3>3, <3>4, <3>5 DEF CodeBacked
  <2> QED
    BY <1>1, <1>4, <2>3 DEF PublishVersion, Goto, Ended, latest, longer
<1>5. CASE UpdateAlias(r, f)
  <2>1. /\ pc[j] = "alias" /\ pc' = [pc EXCEPT ![j] = "done"]
        /\ alias' = [alias EXCEPT ![f] = mine[j]] /\ UNCHANGED <<code, versions, mine>>
    BY <1>5 DEF UpdateAlias, Goto
  <2>2. mine[j] # 0
    <3>1. mine[j] \in 1..Len(versions[f]) /\ Len(versions[f]) \in Nat
      BY <1>0, <2>1
    <3> QED
      BY <3>1
  <2>3. /\ pc'[j] = "done" /\ alias'[f] # 0
        /\ \A q \in 1..Runs, g \in Functions : q # r \/ g # f => pc'[<<q, g>>] = pc[<<q, g>>]
        /\ \A g \in Functions : alias[g] # 0 => alias'[g] # 0
    BY <1>0, <2>1, <2>2
  <2>4. ASSUME NEW q \in 1..Runs, NEW g \in Functions PROVE Job(q, g)'
    BY <1>0, <2>1, <2>3
  <2> QED
    BY <2>1, <2>4, BackedKept DEF CodeBacked
<1> QED
  BY <1>2, <1>3, <1>4, <1>5 DEF FunctionStep

LEMMA CodeBackedStep ==
  ShapeInv /\ LayersThere /\ CodeBacked /\ [Next]_vars => CodeBacked'
<1> SUFFICES ASSUME ShapeInv, LayersThere, CodeBacked, [Next]_vars PROVE CodeBacked'
  OBVIOUS
<1>1. ASSUME NEW r \in 1..Runs, NEW l \in Layers, LayerStep(r, l) PROVE CodeBacked'
  <2>1. PICK s : Moves(<<r, l>>, s)
    BY <1>1, LayerMoves
  <2>2. /\ UNCHANGED <<code, versions, alias>>
        /\ mine' = mine \/ \E v : mine' = [mine EXCEPT ![<<r, l>>] = v]
    BY <1>1, LayerMoves
  <2>3. \A q \in 1..Runs, f \in Functions : mine'[<<q, f>>] = mine[<<q, f>>]
    BY <2>2, Indexed
  <2> QED
    BY <2>1, <2>2, <2>3, CodeBackedKept, Indexed
<1>2. ASSUME NEW r \in 1..Runs, NEW f \in Functions, FunctionStep(r, f) PROVE CodeBacked'
  BY <1>2, CodeBackedFunction
<1>3. ASSUME NEW r \in 1..Runs, UpdateStateMachine(r) PROVE CodeBacked'
  BY <1>3, MachineMoves, CodeBackedKept, Indexed
<1>4. ASSUME NEW j \in Jobs, JobFails(j) PROVE CodeBacked'
  <2>1. PICK r \in 1..Runs, n \in Names : j = <<r, n>>
    BY DEF Jobs
  <2>2. Moves(<<r, n>>, "failed") /\ UNCHANGED <<code, versions, alias, mine>>
    BY <1>4, <2>1 DEF JobFails, Goto, Moves, aws
  <2> QED
    BY <2>2, CodeBackedKept
<1>5. CASE UNCHANGED vars \/ \E f \in Functions : UpdateDone(f)
  <2>1. UNCHANGED <<code, versions, alias, mine, pc, published>>
    BY <1>5 DEF vars, aws, jobs, UpdateDone
  <2> QED
    BY <2>1 DEF CodeBacked, Backed, LayerReady, There
<1> QED
  BY <1>1, <1>2, <1>3, <1>4, <1>5, Steps

LEMMA WholeInit == Init => LayersThere /\ CodeBacked
<1> SUFFICES ASSUME Init PROVE LayersThere /\ CodeBacked
  OBVIOUS
<1>1. \A j \in Jobs : pc[j] = "start"
  BY DEF Init
<1>2. ASSUME NEW f \in Functions, NEW a \in attached[f] PROVE There(a)
  <2>1. ~NewAccount /\ a.version = 1 /\ a.layer \in {"prisma", NeededLayer(f)}
    BY <1>2 DEF Init
  <2>2. a.layer \in Layers
    BY <2>1, Indexed, ShapeInit DEF Layers
  <2> QED
    BY <2>1, <2>2 DEF Init, There
<1>3. LayersThere
  BY <1>1, <1>2, JobPairs DEF Init, LayersThere, Loop
<1>4. CodeBacked
  BY <1>1, JobPairs DEF Init, CodeBacked
<1> QED
  BY <1>3, <1>4

\* Without any condition, for runs that overlap and calls and runners that fail
\* anywhere: nothing that was delivered refers to a layer version or function
\* version that does not exist, no function version has code of a push whose
\* layer job did not end well, and the workflow invokes a function which the
\* push of that workflow delivered.
THEOREM DeliveredWhole == Spec => []NothingDangles
<1>1. Init => ShapeInv /\ Owned /\ LayersThere /\ CodeBacked /\ Invoked
  BY ShapeInit, OwnedInit, WholeInit DEF Init, Invoked
<1>2. ShapeInv /\ Owned /\ LayersThere /\ CodeBacked /\ Invoked /\ [Next]_vars
        => (ShapeInv /\ Owned /\ LayersThere /\ CodeBacked /\ Invoked)'
  BY ShapeStep, OwnedStep, LayersThereStep, CodeBackedStep, InvokedStep
<1>3. ShapeInv /\ Owned /\ LayersThere /\ CodeBacked /\ Invoked => NothingDangles
  <2> SUFFICES ASSUME ShapeInv, Owned, LayersThere, CodeBacked, Invoked
               PROVE  NothingDangles
    OBVIOUS
  <2>1. ASSUME NEW f \in Functions, alias[f] # 0 PROVE alias[f] \in 1..Len(versions[f])
    <3>1. alias[f] \in Nat /\ Len(versions[f]) \in Nat /\ alias[f] <= Len(versions[f])
      BY DEF ShapeInv, Shape, Owned
    <3> QED
      BY <2>1, <3>1
  <2>2. workflow # 0 => alias["delete-user"] # 0
    BY DEF Invoked, CodeBacked, Functions
  <2> QED
    BY <2>1, <2>2 DEF NothingDangles, LayersThere, CodeBacked
<1> QED
  BY <1>1, <1>2, <1>3, PTL DEF Spec

-----------------------------------------------------------------------------
(* Jobs come to an end: the part of EveryRunEnds that needs no fairness     *)

\* How many calls a layer job has left at most, failures aside.
LayerRank(j) ==
  CASE pc[j] \in Ended -> 0
    [] pc[j] = "start" -> 8
    [] pc[j] = "publish" -> 7
    [] pc[j] = "read" -> 3 * Len(todo[j])
    [] pc[j] = "update" -> 3 * Len(todo[j]) - 1
    [] pc[j] = "wait" -> 3 * Len(todo[j]) - 2
    [] OTHER -> 1

\* The other jobs have no loop.
PlainRank(j) ==
  CASE pc[j] \in Ended -> 0
    [] pc[j] = "start" -> 4
    [] pc[j] = "wait" -> 3
    [] pc[j] = "publish" -> 2
    [] OTHER -> 1

Rank(j) == IF j \in LayerJobs THEN LayerRank(j) ELSE PlainRank(j)

\* A step of a job leaves it fewer calls to make and the other jobs where they
\* are; Lambda finishing an update moves no job.
Advance ==
  \/ \E j \in Jobs :
       Rank(j)' < Rank(j) /\ \A i \in Jobs \ {j} : Rank(i)' = Rank(i) /\ pc'[i] = pc[i]
  \/ UNCHANGED jobs

\* The rank of a job is its own affair.
LEMMA RankKept ==
  ASSUME NEW i, pc'[i] = pc[i], i \in LayerJobs => todo'[i] = todo[i]
  PROVE  Rank(i)' = Rank(i)
BY DEF Rank, LayerRank, PlainRank

\* A job that moves alone advances if its own rank gets lower.
LEMMA OneMoves ==
  ASSUME Shape, NEW j \in Jobs, NEW s, pc' = [pc EXCEPT ![j] = s], Rank(j)' < Rank(j),
         \A i \in LayerJobs : i # j => todo'[i] = todo[i]
  PROVE  Advance
<1>1. ASSUME NEW i \in Jobs, i # j PROVE Rank(i)' = Rank(i) /\ pc'[i] = pc[i]
  <2>1. pc'[i] = pc[i]
    BY <1>1 DEF Shape
  <2> QED
    BY <1>1, <2>1, RankKept
<1> QED
  BY <1>1 DEF Advance

\* The loop over the functions is finite.
LEMMA LayerAdvances ==
  ASSUME ShapeInv, NEW r \in 1..Runs, NEW l \in Layers, LayerStep(r, l)
  PROVE  Advance
<1> DEFINE j == <<r, l>>
<1> USE DEF ShapeInv
<1>0. /\ j \in Jobs /\ j \in LayerJobs /\ todo[j] \in Seq(Functions)
      /\ pc \in [Jobs -> Step] /\ todo \in [LayerJobs -> Seq(Functions)]
  BY JobPairs DEF Shape
<1>1. pc[j] \in {"read", "update", "wait"} => Len(todo[j]) \in Nat \ {0}
  BY <1>0 DEF InLoop
<1>2. ASSUME NEW s \in Step, pc' = [pc EXCEPT ![j] = s],
             \A i \in LayerJobs : i # j => todo'[i] = todo[i], LayerRank(j)' < LayerRank(j)
      PROVE  Advance
  <2>1. Rank(j)' < Rank(j)
    BY <1>0, <1>2 DEF Rank
  <2> QED
    BY <1>0, <1>2, <2>1, OneMoves
<1>3. CASE Compare(r, l)
  <2>1. PICK s \in {"skipped", "publish"} : pc' = [pc EXCEPT ![j] = s]
    BY <1>3 DEF Compare, Goto
  <2>2. pc[j] = "start" /\ todo' = todo /\ pc'[j] = s /\ s \in Step
    BY <1>0, <1>3, <2>1 DEF Compare, Step, Ended
  <2>3. LayerRank(j)' < LayerRank(j)
    BY <2>1, <2>2 DEF LayerRank, Ended
  <2> QED
    BY <1>2, <2>1, <2>2, <2>3
<1>4. CASE PublishLayer(r, l)
  <2>1. /\ pc[j] = "publish" /\ pc' = [pc EXCEPT ![j] = "read"]
        /\ todo' = [todo EXCEPT ![j] = Consumers(l)]
    BY <1>4 DEF PublishLayer, Goto
  <2>2. pc'[j] = "read" /\ todo'[j] = Consumers(l) /\ "read" \in Step
        /\ \A i \in LayerJobs : i # j => todo'[i] = todo[i]
    BY <1>0, <2>1 DEF Step
  <2>3. 3 * Len(todo'[j]) < 7
    <3>1. Len(Consumers(l)) = 2 \/ Len(Consumers(l)) = 1
      BY DEF Consumers
    <3>2. Len(todo'[j]) \in {1, 2}
      BY ONLY <2>2, <3>1
    <3>3. \A n \in {1, 2} : 3 * n < 7
      OBVIOUS
    <3> QED
      BY ONLY <3>2, <3>3
  <2>4. LayerRank(j) = 7 /\ LayerRank(j)' = 3 * Len(todo'[j])
    BY <2>1, <2>2 DEF LayerRank, Ended
  <2>5. LayerRank(j)' < LayerRank(j)
    BY <2>2, <2>3, <2>4
  <2> QED
    BY <1>2, <2>1, <2>2, <2>5
<1>5. CASE ReadLayers(r, l)
  <2>1. pc[j] = "read" /\ pc' = [pc EXCEPT ![j] = "update"] /\ todo' = todo
    BY <1>5 DEF ReadLayers, Goto
  <2>2. pc'[j] = "update" /\ "update" \in Step
    BY <1>0, <2>1 DEF Step
  <2>3. LayerRank(j)' < LayerRank(j)
    BY <1>1, <2>1, <2>2 DEF LayerRank, Ended
  <2> QED
    BY <1>2, <2>1, <2>2, <2>3
<1>6. CASE UpdateLayers(r, l)
  <2>1. PICK s \in {"failed", "wait"} : pc' = [pc EXCEPT ![j] = s]
    BY <1>6 DEF UpdateLayers, Goto
  <2>2. pc[j] = "update" /\ todo' = todo /\ pc'[j] = s /\ s \in Step
    BY <1>0, <1>6, <2>1 DEF UpdateLayers, Step, Ended
  <2>3. LayerRank(j)' < LayerRank(j)
    BY <1>1, <2>1, <2>2 DEF LayerRank, Ended
  <2> QED
    BY <1>2, <2>1, <2>2, <2>3
<1>7. CASE LayerWaited(r, l)
  <2> DEFINE s == IF Len(todo[j]) = 1 THEN "done" ELSE "read"
  <2>1. /\ pc[j] = "wait" /\ pc' = [pc EXCEPT ![j] = s]
        /\ todo' = [todo EXCEPT ![j] = Tail(@)]
    BY <1>7 DEF LayerWaited, Goto
  <2>2. pc'[j] = s /\ todo'[j] = Tail(todo[j]) /\ s \in Step
        /\ \A i \in LayerJobs : i # j => todo'[i] = todo[i]
    BY <1>0, <2>1 DEF Step, Ended
  <2>3. Len(Tail(todo[j])) = Len(todo[j]) - 1
    BY <1>0, <1>1, <2>1
  <2>4. LayerRank(j) = 3 * Len(todo[j]) - 2
    BY <2>1 DEF LayerRank, Ended
  <2>5. LayerRank(j)' = IF Len(todo[j]) = 1 THEN 0 ELSE 3 * Len(todo'[j])
    BY <2>2 DEF LayerRank, Ended
  <2>6. (IF Len(todo[j]) = 1 THEN 0 ELSE 3 * Len(todo'[j])) < 3 * Len(todo[j]) - 2
    <3>1. \A n \in Nat \ {0} : (IF n = 1 THEN 0 ELSE 3 * (n - 1)) < 3 * n - 2
      OBVIOUS
    <3>2. Len(todo'[j]) = Len(todo[j]) - 1 /\ Len(todo[j]) \in Nat \ {0}
      BY <1>1, <2>1, <2>2, <2>3
    <3> QED
      BY ONLY <3>1, <3>2
  <2>7. LayerRank(j)' < LayerRank(j)
    BY <2>4, <2>5, <2>6
  <2> QED
    BY <1>2, <2>1, <2>2, <2>7
<1> QED
  BY <1>3, <1>4, <1>5, <1>6, <1>7 DEF LayerStep

\* A job without a loop only goes on.
LEMMA PlainAdvances ==
  ASSUME ShapeInv, NEW j \in Jobs \ LayerJobs, NEW s \in Step, pc' = [pc EXCEPT ![j] = s],
         todo' = todo,
         \/ pc[j] = "start" /\ s \in {"wait"} \cup Ended
         \/ pc[j] = "wait" /\ s = "publish"
         \/ pc[j] = "publish" /\ s \in {"alias", "failed"}
         \/ pc[j] = "alias" /\ s = "done"
  PROVE  Advance
<1>1. pc \in [Jobs -> Step] /\ pc'[j] = s
  BY DEF ShapeInv, Shape
<1>2. PlainRank(j)' < PlainRank(j)
  BY <1>1 DEF PlainRank, Ended
<1>3. Rank(j)' < Rank(j)
  BY <1>2 DEF Rank
<1> QED
  BY <1>3, OneMoves DEF ShapeInv

\* Nor does a function job, whose calls have one order.
LEMMA FunctionAdvances ==
  ASSUME ShapeInv, NEW r \in 1..Runs, NEW f \in Functions, FunctionStep(r, f)
  PROVE  Advance
<1> DEFINE j == <<r, f>>
<1>0. j \in Jobs \ LayerJobs
  BY JobPairs
<1>1. PICK s \in Step : /\ pc' = [pc EXCEPT ![j] = s]
                        /\ \/ pc[j] = "start" /\ s \in {"wait"} \cup Ended
                           \/ pc[j] = "wait" /\ s = "publish"
                           \/ pc[j] = "publish" /\ s \in {"alias", "failed"}
                           \/ pc[j] = "alias" /\ s = "done"
  <2>1. CASE NeedsFailed(r, f)
    BY <2>1 DEF NeedsFailed, Goto, Step, Ended
  <2>2. CASE UpdateCode(r, f)
    BY <2>2 DEF UpdateCode, Goto, Step, Ended
  <2>3. CASE CodeWaited(r, f)
    BY <2>3 DEF CodeWaited, Goto, Step, Ended
  <2>4. CASE PublishVersion(r, f)
    BY <2>4 DEF PublishVersion, Goto, Step, Ended
  <2>5. CASE UpdateAlias(r, f)
    BY <2>5 DEF UpdateAlias, Goto, Step, Ended
  <2> QED
    BY <2>1, <2>2, <2>3, <2>4, <2>5 DEF FunctionStep
<1>2. todo' = todo
  BY DEF FunctionStep, NeedsFailed, UpdateCode, CodeWaited, PublishVersion, UpdateAlias
<1> QED
  BY <1>0, <1>1, <1>2, PlainAdvances

\* A rank is a number, and above zero until the job has ended.
LEMMA RankBounded ==
  ASSUME ShapeInv, NEW j \in Jobs
  PROVE  Rank(j) \in Nat /\ (pc[j] \notin Ended => Rank(j) > 0)
<1>1. ASSUME j \in LayerJobs, pc[j] \in {"read", "update", "wait"}
      PROVE  Len(todo[j]) \in Nat \ {0}
  BY <1>1 DEF ShapeInv, Shape, InLoop
<1>2. LayerRank(j) \in {0, 1, 7, 8} \/ pc[j] \in {"read", "update", "wait"}
  BY DEF LayerRank
<1>3. pc[j] \notin Ended => LayerRank(j) # 0 \/ pc[j] \in {"read", "update", "wait"}
  BY DEF LayerRank, Ended
<1>4. pc[j] = "read" => LayerRank(j) = 3 * Len(todo[j])
  BY DEF LayerRank, Ended
<1>5. pc[j] = "update" => LayerRank(j) = 3 * Len(todo[j]) - 1
  BY DEF LayerRank, Ended
<1>6. pc[j] = "wait" => LayerRank(j) = 3 * Len(todo[j]) - 2
  BY DEF LayerRank, Ended
<1>7. j \in LayerJobs => LayerRank(j) \in Nat /\ (pc[j] \notin Ended => LayerRank(j) > 0)
  BY <1>1, <1>2, <1>3, <1>4, <1>5, <1>6
<1>8. PlainRank(j) \in Nat /\ (pc[j] \notin Ended => PlainRank(j) > 0)
  BY DEF PlainRank, Ended
<1> QED
  BY <1>7, <1>8 DEF Rank

\* A job that fails has no call left.
LEMMA FailureAdvances ==
  ASSUME ShapeInv, NEW j \in Jobs, JobFails(j)
  PROVE  Advance
<1>1. pc' = [pc EXCEPT ![j] = "failed"] /\ pc[j] \notin Ended /\ todo' = todo
  BY DEF JobFails, Goto
<1>2. pc \in [Jobs -> Step] /\ pc'[j] = "failed"
  BY <1>1 DEF ShapeInv, Shape
<1>3. Rank(j)' = 0
  BY <1>2 DEF Rank, LayerRank, PlainRank, Ended
<1>4. Rank(j)' < Rank(j)
  BY <1>1, <1>3, RankBounded
<1> QED
  BY <1>1, <1>4, OneMoves DEF ShapeInv

\* Every step is of one job, or of none.
LEMMA StepAdvances ==
  ASSUME ShapeInv, [Next]_vars PROVE Advance
<1>1. ASSUME NEW r \in 1..Runs, UpdateStateMachine(r) PROVE Advance
  <2>1. PICK s \in {"done", "failed"} : pc' = [pc EXCEPT ![<<r, StateMachine>>] = s]
    BY <1>1 DEF UpdateStateMachine, Goto
  <2>2. pc[<<r, StateMachine>>] = "start" /\ todo' = todo /\ s \in Step /\ s \in Ended
    BY <1>1 DEF UpdateStateMachine, Step, Ended
  <2> QED
    BY <2>1, <2>2, JobPairs, PlainAdvances
<1>2. ASSUME NEW f \in Functions, UpdateDone(f) PROVE Advance
  BY <1>2 DEF UpdateDone, Advance
<1>3. CASE UNCHANGED vars
  BY <1>3 DEF vars, Advance
<1> QED
  BY <1>1, <1>2, <1>3, Steps, LayerAdvances, FunctionAdvances, FailureAdvances

\* No job runs for ever, however the jobs of however many runs interleave and
\* fail: every call brings one job nearer to its end and sets no other back.
THEOREM JobsFinish ==
  Spec => [](\A j \in Jobs : Rank(j) \in Nat) /\ [][Advance]_vars
<1>1. ShapeInv => \A j \in Jobs : Rank(j) \in Nat
  BY RankBounded
<1>2. ShapeInv /\ [Next]_vars => Advance
  BY StepAdvances
<1> QED
  BY <1>1, <1>2, ShapeInit, ShapeStep, PTL DEF Spec
=============================================================================
