-------------------------- MODULE FeedListenerProofs --------------------------
EXTENDS FeedListener, TLAPS

\* Nothing that could write the indexes exists or can come into being.
Quiet ==
    /\ ~cronJob
    /\ \A s \in Shards : deployments[s] = None
    /\ pods = {}
    /\ rebuildJob = "none"

\* No child was ever created.
Untouched ==
    /\ Quiet
    /\ configMap = None
    /\ replicaSets = {}
    /\ drainJob = "none"
    /\ ~indexed

\* Which passes can be running in which state of the object.
PassInv ==
    /\ fl.deleting => fl.exists /\ fl.finalizer
    /\ pc \in {"configmap", "shards", "status"} => fl.exists /\ fl.finalizer
    /\ pc \in FinalizeSteps => fl.exists /\ fl.deleting
    /\ pc = "finalizer" /\ ~stale => fl.exists /\ ~fl.deleting /\ ~fl.finalizer
    /\ pc # "idle" /\ ~stale => obj = fl.spec

\* What the finalize pass has stopped stays stopped.
TeardownInv ==
    /\ pc \in {"consumers", "consumerPods", "rebuildPods", "drain"} => ~cronJob
    /\ pc \in {"consumerPods", "rebuildPods", "drain"} =>
            /\ \A s \in Shards : deployments[s] = None
            /\ rebuildJob \in {"none", "stopping", "removing"}
    /\ pc \in {"rebuildPods", "drain"} => pods = {}
    /\ pc = "drain" => Quiet
    /\ pc = "release" => obj.retain \/ JobFinished(drainJob)

\* Once the drain Job exists the feed is being deleted and stays quiet.
DrainInv ==
    /\ drainJob # "none" =>
            /\ Quiet
            /\ fl.deleting \/ ~fl.exists
            /\ pc \in {"idle"} \cup FinalizeSteps
    /\ drainJob = "succeeded" => ~indexed

\* A feed without finalizer has no children yet; one that is gone never had
\* any, was to be retained, or was drained.
GuardInv ==
    /\ fl.exists /\ ~fl.finalizer => Untouched /\ pc \in {"idle", "finalizer"}
    /\ ~fl.exists => /\ pc \in {"idle", "finalizer"}
                     /\ Untouched \/ fl.spec.retain \/ JobFinished(drainJob)

DeletionInv == PassInv /\ TeardownInv /\ DrainInv /\ GuardInv


-----------------------------------------------------------------------------
(* Types *)

\* A pod marked terminating is a pod.
LEMMA TerminatedType ==
    ASSUME pods \subseteq Pods, NEW P
    PROVE  Terminated(P) \subseteq Pods
BY DEF Terminated, Pods

\* The variables of the running pass, apart from the rest of the state.
PassType ==
    /\ queued \in BOOLEAN
    /\ pc \in {"idle"} \cup NormalSteps \cup FinalizeSteps
    /\ IF pc = "idle" THEN obj = None /\ next = 0
                      ELSE obj \in Specs /\ next \in 0..obj.consumers
    /\ stale \in BOOLEAN

LEMMA GotoType ==
    ASSUME TypeOK, pc # "idle", NEW step \in NormalSteps \cup FinalizeSteps, Goto(step)
    PROVE  PassType'
<1>1. step # "idle"
  BY DEF NormalSteps, FinalizeSteps
<1>. QED
  BY <1>1 DEF TypeOK, Goto, PassType

LEMMA EndPassType ==
    ASSUME TypeOK, NEW requeue \in BOOLEAN, EndPass(requeue)
    PROVE  PassType'
BY DEF TypeOK, EndPass, PassType

LEMMA TypeStep == TypeOK /\ [Next]_vars => TypeOK'
<1> SUFFICES ASSUME TypeOK, [Next]_vars PROVE TypeOK'
  OBVIOUS
<1>0. edits \in Nat /\ errors \in Nat /\ restarts \in Nat /\ late \in Nat
  BY DEF TypeOK
<1> USE ConstantsAssumption DEF feed, reconcile, children, jobs, workloads, cluster, bounds
<1>1. CASE \E spec \in Specs : Edit(spec)
  <2> PICK spec \in Specs : Edit(spec)
    BY <1>1
  <2>1. fl' \in FeedListeners /\ past' \subseteq Configs
    BY DEF Edit, TypeOK, FeedListeners, Configs
  <2>2. bounds' \in Nat \X Nat \X Nat \X Nat
    BY <1>0 DEF Edit
  <2>3. stale' \in BOOLEAN
    BY DEF Edit
  <2>4. /\ observed' = FALSE /\ queued' = TRUE
        /\ UNCHANGED <<degraded, pc, obj, next, cluster>>
    BY DEF Edit
  <2>5. PassType'
    BY <2>3, <2>4 DEF TypeOK, PassType
  <2>. QED
    BY <2>1, <2>2, <2>4, <2>5 DEF TypeOK, PassType
<1>2. CASE Delete
  <2>1. fl' \in FeedListeners
    BY <1>2 DEF Delete, TypeOK, FeedListeners
  <2>2. stale' \in BOOLEAN
    BY <1>2 DEF Delete, TypeOK
  <2>. QED
    BY <1>2, <2>1, <2>2 DEF Delete, TypeOK
<1>3. CASE BeginReconcile
  <2>1. CASE fl.exists
    <3>1. fl.spec \in Specs /\ fl.deleting \in BOOLEAN /\ fl.finalizer \in BOOLEAN
      BY DEF TypeOK, FeedListeners
    <3>2. fl.spec.retain \in BOOLEAN /\ fl.spec.consumers \in 1..MaxConsumers
      BY <3>1 DEF Specs
    <3>3. pc' \in {"release", "cronjob", "configmap", "finalizer"}
      BY <1>3, <2>1, <3>1, <3>2 DEF BeginReconcile
    <3>4. pc' # "idle" /\ obj' \in Specs /\ next' \in 0..obj'.consumers
      BY <1>3, <2>1, <3>1, <3>2, <3>3 DEF BeginReconcile
    <3>. QED
      <4>1. PassType'
        BY <1>3, <3>3, <3>4 DEF BeginReconcile, PassType, NormalSteps, FinalizeSteps
      <4>. QED
        BY <1>3, <4>1 DEF BeginReconcile, TypeOK, PassType
  <2>2. CASE ~fl.exists
    BY <1>3, <2>2 DEF BeginReconcile, TypeOK
  <2>. QED
    BY <2>1, <2>2
<1>4. CASE Conflict
  <2>1. PassType'
    BY <1>4, EndPassType DEF Conflict
  <2>. QED
    BY <1>4, <2>1 DEF Conflict, TypeOK, PassType
<1>5. CASE ApiError
  <2>1. PassType'
    BY <1>5, EndPassType DEF ApiError
  <2>2. bounds' \in Nat \X Nat \X Nat \X Nat
    BY <1>0, <1>5 DEF ApiError
  <2>. QED
    BY <1>5, <2>1, <2>2 DEF ApiError, TypeOK, PassType
<1>5a. CASE Failed
  <2>1. PassType'
    BY <1>5a, EndPassType DEF Failed
  <2>2. bounds' \in Nat \X Nat \X Nat \X Nat
    BY <1>0, <1>5a DEF Failed
  <2>3. observed' \in BOOLEAN /\ degraded' \in BOOLEAN
    BY <1>5a DEF Failed, MarkDegraded, TypeOK
  <2>4. UNCHANGED <<fl, past, cluster>>
    BY <1>5a DEF Failed, MarkDegraded
  <2>. QED
    BY <2>1, <2>2, <2>3, <2>4 DEF TypeOK, PassType
<1>6. CASE AddFinalizer
  <2>1. PassType'
    BY <1>6, GotoType DEF AddFinalizer, NormalSteps, FinalizeSteps
  <2>2. fl' \in FeedListeners
    BY <1>6 DEF AddFinalizer, TypeOK, FeedListeners
  <2>. QED
    BY <1>6, <2>1, <2>2 DEF AddFinalizer, TypeOK, PassType
<1>7. CASE ReconcileConfigMap
  <2>1. PassType'
    BY <1>7, GotoType DEF ReconcileConfigMap, NormalSteps, FinalizeSteps
  <2>2. configMap' \in Configs
    BY <1>7 DEF ReconcileConfigMap, TypeOK, Configs
  <2>. QED
    BY <1>7, <2>1, <2>2 DEF ReconcileConfigMap, TypeOK, PassType
<1>8. CASE ReconcileShard
  <2>1. obj \in Specs /\ obj.consumers \in 1..MaxConsumers /\ next \in 0..obj.consumers
    BY <1>8 DEF ReconcileShard, TypeOK, Specs
  <2>2. next \in Shards /\ next' \in 0..obj.consumers
    BY <1>8, <2>1 DEF ReconcileShard, Shards
  <2> DEFINE uid == IF deployments[next] = None THEN created[next] + 1
                                                ELSE deployments[next].uid
  <2>3. uid \in Nat
    BY <2>2 DEF TypeOK, Deployments
  <2>4. [uid |-> uid, hash |-> ConfigData(obj)] \in Deployments
    BY <2>1, <2>3 DEF Deployments, Configs
  <2>5. deployments' \in [Shards -> Deployments \cup {None}] /\ created' \in [Shards -> Nat]
    BY <1>8, <2>2, <2>3, <2>4 DEF ReconcileShard, TypeOK
  <2>. QED
    BY <1>8, <2>1, <2>2, <2>5 DEF ReconcileShard, TypeOK
<1>9. CASE \E s \in Shards : PruneStaleShard(s)
  BY <1>9 DEF PruneStaleShard, DeleteDeployment, TypeOK
<1>10. CASE ReconcileMaintenance
  <2>1. PassType'
    BY <1>10, GotoType DEF ReconcileMaintenance, NormalSteps, FinalizeSteps
  <2>2. cronJob' \in BOOLEAN
    BY <1>10 DEF ReconcileMaintenance, TypeOK, Specs
  <2>. QED
    BY <1>10, <2>1, <2>2 DEF ReconcileMaintenance, TypeOK, PassType
<1>11. CASE ReconcileStatus
  <2>1. PassType'
    BY <1>11, EndPassType DEF ReconcileStatus
  <2>2. observed' \in BOOLEAN /\ degraded' \in BOOLEAN
    BY <1>11 DEF ReconcileStatus, TypeOK
  <2>. QED
    BY <1>11, <2>1, <2>2 DEF ReconcileStatus, TypeOK, PassType
<1>12. CASE StopCronJob
  <2>1. PassType'
    BY <1>12, GotoType DEF StopCronJob, NormalSteps, FinalizeSteps
  <2>. QED
    BY <1>12, <2>1 DEF StopCronJob, TypeOK, PassType
<1>13. CASE \E s \in Shards : StopConsumer(s)
  BY <1>13 DEF StopConsumer, DeleteDeployment, TypeOK
<1>14. CASE StopRebuilds
  <2>1. PassType'
    BY <1>14, GotoType DEF StopRebuilds, NormalSteps, FinalizeSteps
  <2>2. rebuildJob' \in {"none", "pending", "running", "complete", "stopping", "removing"}
    BY <1>14 DEF StopRebuilds, DeletedJob, TypeOK
  <2>. QED
    BY <1>14, <2>1, <2>2 DEF StopRebuilds, TypeOK, PassType
<1>15. CASE ListConsumerPods
  <2>1. PassType'
    BY <1>15, GotoType, EndPassType DEF ListConsumerPods, NormalSteps, FinalizeSteps
  <2>. QED
    BY <1>15, <2>1 DEF ListConsumerPods, TypeOK, PassType
<1>16. CASE ListRebuildPods
  <2>1. PassType'
    BY <1>16, GotoType, EndPassType DEF ListRebuildPods, NormalSteps, FinalizeSteps
  <2>. QED
    BY <1>16, <2>1 DEF ListRebuildPods, TypeOK, PassType
<1>17. CASE EnsureDrainJob
  <2>1. PassType'
    BY <1>17, GotoType, EndPassType DEF EnsureDrainJob, NormalSteps, FinalizeSteps
  <2>2. drainJob' \in {"none", "active", "succeeded", "failed"}
    BY <1>17 DEF EnsureDrainJob, EnsuredJob, TypeOK
  <2>. QED
    BY <1>17, <2>1, <2>2 DEF EnsureDrainJob, TypeOK, PassType
<1>18. CASE ReleaseFinalizer
  <2>1. PassType'
    BY <1>18, EndPassType DEF ReleaseFinalizer
  <2>2. fl' \in FeedListeners
    BY <1>18 DEF ReleaseFinalizer, TypeOK, FeedListeners
  <2>. QED
    BY <1>18, <2>1, <2>2 DEF ReleaseFinalizer, TypeOK, PassType
<1>19. CASE \E r \in replicaSets : RolloutDown(r)
  BY <1>19, TerminatedType DEF RolloutDown, TypeOK
<1>20. CASE \E r \in replicaSets : CreatePod(r)
  <2> PICK r \in replicaSets : CreatePod(r)
    BY <1>20
  <2>1. pods' \subseteq Pods
    <3>1. r.shard \in Shards /\ r.uid \in Nat /\ r.hash \in Configs
      BY DEF TypeOK, ReplicaSets
    <3>2. [shard |-> r.shard, uid |-> r.uid, hash |-> r.hash, count |-> 0,
           terminating |-> FALSE] \in Pods
      BY <3>1 DEF Pods
    <3>. QED
      BY <3>2 DEF CreatePod, TypeOK
  <2>2. late' = late \/ late' = late + 1
    BY DEF CreatePod
  <2>3. late' \in Nat
    BY <1>0, <2>2
  <2>4. bounds' \in Nat \X Nat \X Nat \X Nat
    BY <1>0, <2>3 DEF CreatePod
  <2>. QED
    BY <2>1, <2>4 DEF CreatePod, TypeOK
<1>21. CASE \E r \in replicaSets : CollectReplicaSet(r)
  BY <1>21, TerminatedType DEF CollectReplicaSet, TypeOK
<1>22. CASE \E s \in Shards : RolloutUp(s)
  BY <1>22 DEF RolloutUp, TypeOK, Deployments, ReplicaSets
<1>23. CASE \E p \in pods : StartContainer(p)
  BY <1>23 DEF StartContainer, TypeOK, Pods, Configs, ConfigData, Specs
<1>24. CASE \E p \in pods : RestartContainer(p)
  BY <1>24 DEF RestartContainer, TypeOK, Pods
<1>25. CASE \E p \in pods : PodGone(p)
  BY <1>25 DEF PodGone, TypeOK
<1>26. CASE Rebuilds
  <2>1. rebuildJob' \in {"none", "pending", "running", "complete", "stopping", "removing"}
    BY <1>26 DEF Rebuilds, Tick, StartRebuildPod, RebuildEnds, ForgetRebuild,
                CollectRebuild, DeletedJob, TypeOK
  <2>2. UNCHANGED <<feed, queued, reconcile, children, drainJob, workloads, indexed, bounds>>
    BY <1>26 DEF Rebuilds, Tick, StartRebuildPod, RebuildEnds, ForgetRebuild, CollectRebuild
  <2>. QED
    BY <2>1, <2>2 DEF TypeOK
<1>27. CASE CollectChildren
  <2>1. /\ configMap' = None /\ deployments' = [s \in Shards |-> None] /\ cronJob' = FALSE
        /\ UNCHANGED <<feed, queued, reconcile, created, jobs, workloads, indexed, bounds>>
    BY <1>27 DEF CollectChildren
  <2>2. deployments' \in [Shards -> Deployments \cup {None}]
    BY <2>1
  <2>3. PassType'
    BY <2>1 DEF TypeOK, PassType
  <2>. QED
    BY <2>1, <2>2, <2>3 DEF TypeOK, PassType
<1>28. CASE WriteMembers
  BY <1>28 DEF WriteMembers, TypeOK
<1>29. CASE DrainRuns
  BY <1>29 DEF DrainRuns, TypeOK
<1>30. CASE DrainFails
  BY <1>30 DEF DrainFails, TypeOK
<1>31. CASE UNCHANGED vars
  BY <1>31 DEF vars, TypeOK
<1>. QED
  BY <1>1, <1>2, <1>3, <1>4, <1>5, <1>5a, <1>6, <1>7, <1>8, <1>9, <1>10, <1>11, <1>12, <1>13,
      <1>14, <1>15, <1>16, <1>17, <1>18, <1>19, <1>20, <1>21, <1>22, <1>23, <1>24,
      <1>25, <1>26, <1>27, <1>28, <1>29, <1>30, <1>31
  DEF Next, Controller, NormalPass, FinalizePass

\* Every variable of the operator model keeps its type, and the shard loop of
\* Reconcile never leaves the partition it read, for every number of consumers.
THEOREM TypeCorrect == Spec => []TypeOK
<1>1. Init => TypeOK
  <2> SUFFICES ASSUME Init PROVE TypeOK
    OBVIOUS
  <2>1. fl \in FeedListeners
    BY DEF Init, FeedListeners
  <2>2. deployments \in [Shards -> Deployments \cup {None}] /\ created \in [Shards -> Nat]
    BY DEF Init
  <2>. QED
    BY <2>1, <2>2 DEF Init, TypeOK
<1>. QED
  BY <1>1, TypeStep, PTL DEF Spec

-----------------------------------------------------------------------------
(* Passes *)

\* The steps of the cluster's controllers, of the pods and of the Jobs.
Elsewhere ==
    \/ \E r \in replicaSets : RolloutDown(r) \/ CreatePod(r) \/ CollectReplicaSet(r)
    \/ \E s \in Shards : RolloutUp(s)
    \/ \E p \in pods : StartContainer(p) \/ RestartContainer(p) \/ PodGone(p)
    \/ Rebuilds
    \/ CollectChildren
    \/ WriteMembers
    \/ DrainRuns
    \/ DrainFails

LEMMA ElsewhereKeepsPass ==
    ASSUME Elsewhere \/ UNCHANGED vars
    PROVE  UNCHANGED <<fl, observed, degraded, past, pc, obj, next, stale, created>>
BY DEF Elsewhere, RolloutDown, CreatePod, CollectReplicaSet, RolloutUp, StartContainer,
       RestartContainer, PodGone, Rebuilds, Tick, StartRebuildPod, RebuildEnds,
       ForgetRebuild, CollectRebuild, CollectChildren, WriteMembers, DrainRuns,
       DrainFails, vars, feed, reconcile, cluster, children

\* Whatever the user, the API server and the cluster do, a pass works on an
\* object in the state that its step expects.
LEMMA PassStep == TypeOK /\ PassInv /\ [Next]_vars => PassInv'
<1> SUFFICES ASSUME TypeOK, PassInv, [Next]_vars PROVE PassInv'
  OBVIOUS
<1>0. /\ fl.exists \in BOOLEAN /\ fl.deleting \in BOOLEAN /\ fl.finalizer \in BOOLEAN
      /\ fl.spec \in Specs /\ stale \in BOOLEAN
  BY DEF TypeOK, FeedListeners
<1> USE DEF feed, reconcile, PassInv, FinalizeSteps
<1>1. ASSUME NEW spec \in Specs, Edit(spec) PROVE PassInv'
  <2>1. /\ fl.exists /\ fl'.exists
        /\ fl'.deleting = fl.deleting /\ fl'.finalizer = fl.finalizer
    BY <1>1 DEF Edit, TypeOK, FeedListeners
  <2>. QED
    BY <1>0, <1>1, <2>1 DEF Edit
<1>2. CASE Delete
  <2>1. /\ fl'.exists = fl.finalizer /\ fl'.deleting = fl.finalizer
        /\ fl'.finalizer = fl.finalizer /\ fl'.spec = fl.spec
    BY <1>2 DEF Delete, TypeOK, FeedListeners
  <2>. QED
    BY <1>0, <1>2, <2>1 DEF Delete
<1>3. CASE BeginReconcile
  <2>1. fl.spec.retain \in BOOLEAN
    BY <1>0, ConstantsAssumption DEF Specs
  <2>. QED
    BY <1>0, <1>3, <2>1 DEF BeginReconcile
<1>4. CASE Conflict \/ ApiError \/ Failed \/ ReconcileStatus
  BY <1>4 DEF Conflict, ApiError, Failed, MarkDegraded, ReconcileStatus, EndPass
<1>5. CASE AddFinalizer
  <2>1. /\ fl'.exists = fl.exists /\ fl'.deleting = fl.deleting
        /\ fl'.finalizer = TRUE /\ fl'.spec = fl.spec
    BY <1>5 DEF AddFinalizer, TypeOK, FeedListeners
  <2>. QED
    BY <1>0, <1>5, <2>1 DEF AddFinalizer, Goto
<1>6. CASE ReconcileConfigMap \/ ReconcileMaintenance \/ ReconcileShard
  BY <1>6 DEF ReconcileConfigMap, ReconcileMaintenance, ReconcileShard, Goto
<1>7. ASSUME NEW s \in Shards, PruneStaleShard(s) \/ StopConsumer(s) PROVE PassInv'
  BY <1>7 DEF PruneStaleShard, StopConsumer
<1>8. CASE StopCronJob \/ StopRebuilds
  BY <1>8 DEF StopCronJob, StopRebuilds, Goto
<1>9. CASE ListConsumerPods \/ ListRebuildPods \/ EnsureDrainJob
  BY <1>9 DEF ListConsumerPods, ListRebuildPods, EnsureDrainJob, Goto, EndPass
<1>10. CASE ReleaseFinalizer
  <2>1. fl'.exists = FALSE /\ fl'.deleting = FALSE
    BY <1>10 DEF ReleaseFinalizer, TypeOK, FeedListeners
  <2>. QED
    BY <1>10, <2>1 DEF ReleaseFinalizer, EndPass
<1>11. CASE Elsewhere \/ UNCHANGED vars
  BY <1>11, ElsewhereKeepsPass
<1>. QED
  BY <1>1, <1>2, <1>3, <1>4, <1>5, <1>6, <1>7, <1>8, <1>9, <1>10, <1>11
  DEF Next, Controller, NormalPass, FinalizePass, Elsewhere

-----------------------------------------------------------------------------
(* Deletion *)

\* Without a Deployment no pod comes into being, if ReplicaSets create none
\* on their own.
LEMMA NoPodFromNothing ==
    ASSUME MaxLate = 0, TypeOK, NEW r \in replicaSets, CreatePod(r)
    PROVE  \E s \in Shards : deployments[s] # None
<1>1. late \in Nat /\ r.shard \in Shards
  BY DEF TypeOK, ReplicaSets
<1>2. Current(r)
  BY <1>1 DEF CreatePod
<1>. QED
  BY <1>1, <1>2 DEF Current

LEMMA DeletionStep ==
    ASSUME MaxLate = 0, TypeOK, DeletionInv, [Next]_vars
    PROVE  DeletionInv'
<1>0. /\ fl.exists \in BOOLEAN /\ fl.deleting \in BOOLEAN /\ fl.finalizer \in BOOLEAN
      /\ fl.spec \in Specs
      /\ stale \in BOOLEAN /\ cronJob \in BOOLEAN /\ indexed \in BOOLEAN
      /\ pc \in {"idle", "finalizer", "configmap", "shards", "status", "cronjob",
                 "consumers", "consumerPods", "rebuildPods", "drain", "release"}
  BY DEF TypeOK, FeedListeners, NormalSteps, FinalizeSteps
<1>P. PassInv'
  BY PassStep DEF DeletionInv
<1> USE DEF feed, reconcile, children, jobs, workloads, cluster, bounds,
            FinalizeSteps, Quiet, Untouched, JobFinished
<1>1. CASE \E spec \in Specs : Edit(spec)
  <2>0. /\ fl.exists /\ fl'.exists
        /\ fl'.deleting = fl.deleting /\ fl'.finalizer = fl.finalizer
    BY <1>1 DEF Edit, TypeOK, FeedListeners
  <2>1. TeardownInv'
    BY <1>0, <1>1, <2>0 DEF DeletionInv, Edit, TeardownInv, PassInv, DrainInv
  <2>2. DrainInv'
    BY <1>0, <1>1, <2>0 DEF DeletionInv, Edit, DrainInv, PassInv, TeardownInv
  <2>3. GuardInv'
    BY <1>0, <1>1, <2>0 DEF DeletionInv, Edit, GuardInv, PassInv, TeardownInv, DrainInv
  <2>. QED
    BY <1>P, <2>1, <2>2, <2>3 DEF DeletionInv
<1>2. CASE Delete
  <2>0. /\ fl'.exists = fl.finalizer /\ fl'.deleting = fl.finalizer
        /\ fl'.finalizer = fl.finalizer /\ fl'.spec = fl.spec
    BY <1>2 DEF Delete, TypeOK, FeedListeners
  <2>1. TeardownInv'
    BY <1>0, <1>2, <2>0 DEF DeletionInv, Delete, TeardownInv, PassInv, DrainInv
  <2>2. DrainInv'
    BY <1>0, <1>2, <2>0 DEF DeletionInv, Delete, DrainInv, PassInv, TeardownInv
  <2>3. GuardInv'
    BY <1>0, <1>2, <2>0
    DEF DeletionInv, Delete, GuardInv, PassInv, TeardownInv, DrainInv
  <2>. QED
    BY <1>P, <2>1, <2>2, <2>3 DEF DeletionInv
<1>3. CASE BeginReconcile
  <2>0. fl.spec.retain \in BOOLEAN
    BY <1>0, ConstantsAssumption DEF Specs
  <2>1. TeardownInv'
    BY <1>0, <1>3, <2>0 DEF DeletionInv, BeginReconcile, TeardownInv, PassInv, DrainInv
  <2>2. DrainInv'
    BY <1>0, <1>3, <2>0 DEF DeletionInv, BeginReconcile, DrainInv, PassInv, TeardownInv
  <2>3. GuardInv'
    BY <1>0, <1>3, <2>0
    DEF DeletionInv, BeginReconcile, GuardInv, PassInv, TeardownInv, DrainInv
  <2>. QED
    BY <1>P, <2>1, <2>2, <2>3 DEF DeletionInv
<1>4. CASE Conflict
  BY <1>0, <1>4
  DEF Conflict, EndPass, PassInv, TeardownInv, DrainInv, GuardInv, DeletionInv
<1>5. CASE ApiError \/ Failed
  <2>1. pc' = "idle" /\ UNCHANGED <<fl, cluster>>
    BY <1>5 DEF ApiError, Failed, MarkDegraded, EndPass
  <2>. QED
    BY <1>0, <1>P, <2>1 DEF PassInv, TeardownInv, DrainInv, GuardInv, DeletionInv
<1>6. CASE AddFinalizer
  <2>0. /\ fl'.exists = fl.exists /\ fl'.deleting = fl.deleting
        /\ fl'.finalizer = TRUE /\ fl'.spec = fl.spec
    BY <1>6 DEF AddFinalizer, TypeOK, FeedListeners
  <2>1. TeardownInv'
    BY <1>0, <1>6, <2>0
    DEF DeletionInv, AddFinalizer, Goto, TeardownInv, PassInv, DrainInv
  <2>2. DrainInv'
    BY <1>0, <1>6, <2>0
    DEF DeletionInv, AddFinalizer, Goto, DrainInv, PassInv, TeardownInv
  <2>3. GuardInv'
    BY <1>0, <1>6, <2>0
    DEF DeletionInv, AddFinalizer, Goto, GuardInv, PassInv, TeardownInv, DrainInv
  <2>. QED
    BY <1>P, <2>1, <2>2, <2>3 DEF DeletionInv
<1>7. CASE ReconcileConfigMap
  BY <1>0, <1>7
  DEF ReconcileConfigMap, Goto, PassInv, TeardownInv, DrainInv, GuardInv, DeletionInv
<1>8. CASE ReconcileShard
  BY <1>0, <1>8
  DEF ReconcileShard, PassInv, TeardownInv, DrainInv, GuardInv, DeletionInv
<1>9. CASE \E s \in Shards : PruneStaleShard(s)
  <2>1. TeardownInv'
    BY <1>0, <1>9 DEF DeletionInv, PruneStaleShard, DeleteDeployment, TeardownInv, PassInv, DrainInv
  <2>2. DrainInv'
    BY <1>0, <1>9 DEF DeletionInv, PruneStaleShard, DeleteDeployment, DrainInv, PassInv, TeardownInv
  <2>3. GuardInv'
    BY <1>0, <1>9
    DEF DeletionInv, PruneStaleShard, DeleteDeployment, GuardInv, PassInv, TeardownInv, DrainInv
  <2>. QED
    BY <1>P, <2>1, <2>2, <2>3 DEF DeletionInv
<1>10. CASE ReconcileMaintenance
  BY <1>0, <1>10
  DEF ReconcileMaintenance, Goto, PassInv, TeardownInv, DrainInv, GuardInv, DeletionInv
<1>11. CASE ReconcileStatus
  BY <1>0, <1>11
  DEF ReconcileStatus, EndPass, PassInv, TeardownInv, DrainInv, GuardInv, DeletionInv
<1>12. CASE StopCronJob
  BY <1>0, <1>12
  DEF StopCronJob, Goto, PassInv, TeardownInv, DrainInv, GuardInv, DeletionInv
<1>13. CASE \E s \in Shards : StopConsumer(s)
  <2>1. TeardownInv'
    BY <1>0, <1>13 DEF DeletionInv, StopConsumer, DeleteDeployment, TeardownInv, PassInv, DrainInv
  <2>2. DrainInv'
    BY <1>0, <1>13 DEF DeletionInv, StopConsumer, DeleteDeployment, DrainInv, PassInv, TeardownInv
  <2>3. GuardInv'
    BY <1>0, <1>13
    DEF DeletionInv, StopConsumer, DeleteDeployment, GuardInv, PassInv, TeardownInv, DrainInv
  <2>. QED
    BY <1>P, <2>1, <2>2, <2>3 DEF DeletionInv
<1>14. CASE StopRebuilds
  BY <1>0, <1>14
  DEF StopRebuilds, DeletedJob, Goto, TypeOK, PassInv, TeardownInv, DrainInv,
      GuardInv, DeletionInv
<1>15. CASE ListConsumerPods
  BY <1>0, <1>15
  DEF ListConsumerPods, Goto, EndPass, PassInv, TeardownInv, DrainInv, GuardInv,
      DeletionInv
<1>16. CASE ListRebuildPods
  <2>1. TeardownInv'
    BY <1>0, <1>16
    DEF DeletionInv, ListRebuildPods, RebuildPodExists, Goto, EndPass, TeardownInv,
        PassInv, DrainInv
  <2>2. DrainInv'
    BY <1>0, <1>16
    DEF DeletionInv, ListRebuildPods, RebuildPodExists, Goto, EndPass, DrainInv,
        PassInv, TeardownInv
  <2>3. GuardInv'
    BY <1>0, <1>16
    DEF DeletionInv, ListRebuildPods, RebuildPodExists, Goto, EndPass, GuardInv,
        PassInv, TeardownInv, DrainInv
  <2>. QED
    BY <1>P, <2>1, <2>2, <2>3 DEF DeletionInv
<1>17. CASE EnsureDrainJob
  <2>1. TeardownInv'
    BY <1>0, <1>17
    DEF DeletionInv, EnsureDrainJob, EnsuredJob, Goto, EndPass, TeardownInv,
        PassInv, DrainInv
  <2>2. DrainInv'
    BY <1>0, <1>17
    DEF DeletionInv, EnsureDrainJob, EnsuredJob, Goto, EndPass, DrainInv, PassInv,
        TeardownInv
  <2>3. GuardInv'
    BY <1>0, <1>17
    DEF DeletionInv, EnsureDrainJob, EnsuredJob, Goto, EndPass, GuardInv, PassInv,
        TeardownInv, DrainInv
  <2>. QED
    BY <1>P, <2>1, <2>2, <2>3 DEF DeletionInv
<1>18. CASE ReleaseFinalizer
  <2>0. /\ fl'.exists = FALSE /\ fl'.deleting = FALSE
        /\ fl'.finalizer = FALSE /\ fl'.spec = fl.spec
    BY <1>18 DEF ReleaseFinalizer, TypeOK, FeedListeners
  <2>1. TeardownInv'
    BY <1>0, <1>18, <2>0
    DEF DeletionInv, ReleaseFinalizer, EndPass, TeardownInv, PassInv, DrainInv
  <2>2. DrainInv'
    BY <1>0, <1>18, <2>0
    DEF DeletionInv, ReleaseFinalizer, EndPass, DrainInv, PassInv, TeardownInv
  <2>3. GuardInv'
    BY <1>0, <1>18, <2>0
    DEF DeletionInv, ReleaseFinalizer, EndPass, GuardInv, PassInv, TeardownInv,
        DrainInv
  <2>. QED
    BY <1>P, <2>1, <2>2, <2>3 DEF DeletionInv
<1>19. CASE \E r \in replicaSets : RolloutDown(r)
  BY <1>0, <1>19
  DEF RolloutDown, Terminated, PassInv, TeardownInv, DrainInv, GuardInv, DeletionInv
<1>20. CASE \E r \in replicaSets : CreatePod(r)
  <2>0. \E s \in Shards : deployments[s] # None
    BY <1>20, NoPodFromNothing
  <2>1. TeardownInv'
    <3>1. pc \notin {"consumerPods", "rebuildPods", "drain"}
      BY <2>0 DEF DeletionInv, TeardownInv
    <3>. QED
      BY <1>20, <3>1 DEF DeletionInv, CreatePod, TeardownInv
  <2>2. DrainInv'
    BY <1>0, <1>20, <2>0 DEF DeletionInv, CreatePod, DrainInv, PassInv, TeardownInv
  <2>3. GuardInv'
    BY <1>0, <1>20, <2>0
    DEF DeletionInv, CreatePod, GuardInv, PassInv, TeardownInv, DrainInv
  <2>. QED
    BY <1>P, <2>1, <2>2, <2>3 DEF DeletionInv
<1>21. CASE \E r \in replicaSets : CollectReplicaSet(r)
  BY <1>0, <1>21
  DEF CollectReplicaSet, Terminated, PassInv, TeardownInv, DrainInv, GuardInv,
      DeletionInv
<1>22. CASE \E s \in Shards : RolloutUp(s)
  <2>1. TeardownInv'
    <3>1. \E s \in Shards : deployments[s] # None
      BY <1>22 DEF RolloutUp
    <3>2. pc \notin {"consumerPods", "rebuildPods", "drain"}
      BY <3>1 DEF DeletionInv, TeardownInv
    <3>. QED
      BY <1>22, <3>2 DEF DeletionInv, RolloutUp, TeardownInv
  <2>2. DrainInv'
    BY <1>0, <1>22 DEF DeletionInv, RolloutUp, DrainInv, PassInv, TeardownInv
  <2>3. GuardInv'
    BY <1>0, <1>22
    DEF DeletionInv, RolloutUp, GuardInv, PassInv, TeardownInv, DrainInv
  <2>. QED
    BY <1>P, <2>1, <2>2, <2>3 DEF DeletionInv
<1>23. CASE \E p \in pods : StartContainer(p)
  BY <1>0, <1>23
  DEF StartContainer, PassInv, TeardownInv, DrainInv, GuardInv, DeletionInv
<1>24. CASE \E p \in pods : RestartContainer(p)
  BY <1>0, <1>24
  DEF RestartContainer, PassInv, TeardownInv, DrainInv, GuardInv, DeletionInv
<1>25. CASE \E p \in pods : PodGone(p)
  <2>1. TeardownInv'
    BY <1>0, <1>25 DEF DeletionInv, PodGone, TeardownInv, PassInv, DrainInv
  <2>2. DrainInv'
    BY <1>0, <1>25 DEF DeletionInv, PodGone, DrainInv, PassInv, TeardownInv
  <2>3. GuardInv'
    BY <1>0, <1>25
    DEF DeletionInv, PodGone, GuardInv, PassInv, TeardownInv, DrainInv
  <2>. QED
    BY <1>P, <2>1, <2>2, <2>3 DEF DeletionInv
<1>26. CASE Rebuilds
  BY <1>0, <1>26
  DEF Rebuilds, Tick, StartRebuildPod, RebuildEnds, ForgetRebuild, CollectRebuild,
      DeletedJob, PassInv, TeardownInv, DrainInv, GuardInv, DeletionInv
<1>27. CASE CollectChildren
  BY <1>0, <1>27
  DEF CollectChildren, PassInv, TeardownInv, DrainInv, GuardInv, DeletionInv
<1>28. CASE WriteMembers
  BY <1>0, <1>28
  DEF WriteMembers, PassInv, TeardownInv, DrainInv, GuardInv, DeletionInv
<1>29. CASE DrainRuns
  <2>1. TeardownInv'
    BY <1>0, <1>29 DEF DeletionInv, DrainRuns, TeardownInv, PassInv, DrainInv
  <2>2. DrainInv'
    BY <1>0, <1>29 DEF DeletionInv, DrainRuns, DrainInv, PassInv, TeardownInv
  <2>3. GuardInv'
    BY <1>0, <1>29 DEF DeletionInv, DrainRuns, GuardInv, PassInv, TeardownInv, DrainInv
  <2>. QED
    BY <1>P, <2>1, <2>2, <2>3 DEF DeletionInv
<1>30. CASE DrainFails
  BY <1>0, <1>30
  DEF DrainFails, PassInv, TeardownInv, DrainInv, GuardInv, DeletionInv
<1>31. CASE UNCHANGED vars
  BY <1>0, <1>31
  DEF vars, PassInv, TeardownInv, DrainInv, GuardInv, DeletionInv
<1>. QED
  BY <1>1, <1>2, <1>3, <1>4, <1>5, <1>6, <1>7, <1>8, <1>9, <1>10, <1>11, <1>12, <1>13,
      <1>14, <1>15, <1>16, <1>17, <1>18, <1>19, <1>20, <1>21, <1>22, <1>23, <1>24,
      <1>25, <1>26, <1>27, <1>28, <1>29, <1>30, <1>31
  DEF Next, Controller, NormalPass, FinalizePass

\* The part of the invariant that the deletion properties rest on, from the
\* start of the feed to the end of its deletion.
LEMMA DeletionInvariant == ASSUME MaxLate = 0 PROVE Spec => [](TypeOK /\ DeletionInv)
<1>1. Init => DeletionInv
  BY DEF Init, DeletionInv, PassInv, TeardownInv, DrainInv, GuardInv, Untouched, Quiet,
         FinalizeSteps
<1>2. TypeOK /\ DeletionInv /\ [Next]_vars => DeletionInv'
  BY DeletionStep
<1>. QED
  BY <1>1, <1>2, TypeCorrect, PTL DEF Spec

\* finalizer.go, Reconcile: the finalizer is in place before the first child,
\* wherever a delete or a conflict lands. Every number of consumers, edits and
\* errors, and no pod created after its Deployment is gone.
THEOREM ChildrenAreGuarded == ASSUME MaxLate = 0 PROVE Spec => []FinalizerGuardsChildren
<1>1. TypeOK /\ DeletionInv => FinalizerGuardsChildren
  <2> SUFFICES ASSUME TypeOK, DeletionInv,
                      ~fl.finalizer, drainJob = "none", ~fl.spec.retain
               PROVE  Untouched
    BY DEF FinalizerGuardsChildren, Untouched, Quiet
  <2>. QED
    BY DEF TypeOK, FeedListeners, DeletionInv, GuardInv, JobFinished
<1>. QED
  BY <1>1, DeletionInvariant, PTL

\* finalizer.go, finalize: while the drain Job runs there is no consumer pod
\* and no rebuild pod, so nothing puts members back behind the purge.
THEOREM PurgeIsAlone == ASSUME MaxLate = 0 PROVE Spec => []PurgeRunsAlone
<1>1. DeletionInv => PurgeRunsAlone
  BY DEF DeletionInv, DrainInv, Quiet, PurgeRunsAlone, RebuildPodExists
<1>. QED
  BY <1>1, DeletionInvariant, PTL

\* finalizer.go, finalize: a feed that is gone left no index members, unless it
\* was to retain them or its drain failed.
THEOREM IndexesAreDrained == ASSUME MaxLate = 0 PROVE Spec => []NoOrphanedIndexes
<1>1. DeletionInv => NoOrphanedIndexes
  BY DEF DeletionInv, GuardInv, DrainInv, Untouched, JobFinished, NoOrphanedIndexes
<1>. QED
  BY <1>1, DeletionInvariant, PTL

=============================================================================
