------------------------------ MODULE MCDeploy ------------------------------
(* Instances of Deploy for TLC: what each push changes. *)
EXTENDS Deploy

\* The first push brings a prisma fingerprint, the second an elasticache one.
OneLayerEach ==
  <<[prisma |-> 1, elasticache |-> 0], [prisma |-> 1, elasticache |-> 1]>>

\* The only push changes both layers.
BothLayers == <<[prisma |-> 1, elasticache |-> 1]>>

\* The second push repeats the first.
Again == <<[prisma |-> 0, elasticache |-> 1], [prisma |-> 0, elasticache |-> 1]>>
=============================================================================
