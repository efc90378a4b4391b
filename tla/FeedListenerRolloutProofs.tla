---------------------- MODULE FeedListenerRolloutProofs ----------------------
(***************************************************************************)
(* Rollouts, for every number of consumers, edits, failed calls, restarts  *)
(* and late pods: a settled feed is partitioned exactly, as long as no edit*)
(* returns to a configuration that the feed has left; and no message is    *)
(* handled twice, as long as no edit changes the number of consumers.      *)
(***************************************************************************)
EXTENDS FeedListenerProofs, FiniteSetTheorems

-----------------------------------------------------------------------------
(* The shard filter *)

LEMMA ModInRange ==
    ASSUME NEW hash \in Nat, NEW shardCount \in Nat \ {0}
    PROVE  hash % shardCount \in 0..(shardCount - 1)
  BY SMT

\* MessageShardFilter: among consumers that agree on the count, one per valid
\* index, every message is handled by exactly one shard.
THEOREM ExactlyOneOwner ==
    ASSUME NEW hash \in Nat, NEW shardCount \in Nat \ {0}
    PROVE  \E owner \in Int :
              /\ ValidShard(owner, shardCount)
              /\ Owns(hash, owner, shardCount)
              /\ \A other \in Int :
                    ValidShard(other, shardCount) /\ Owns(hash, other, shardCount)
                        => other = owner
<1>1. CASE shardCount = 1
  <2>1. ValidShard(0, shardCount) /\ Owns(hash, 0, shardCount)
    BY <1>1 DEF ValidShard, Owns
  <2>2. ASSUME NEW other \in Int, ValidShard(other, shardCount)
        PROVE  other = 0
    BY <1>1, <2>2 DEF ValidShard
  <2> QED
    BY <2>1, <2>2
<1>2. CASE shardCount # 1
  <2> DEFINE owner == hash % shardCount
  <2>1. owner \in 0..(shardCount - 1)
    BY ModInRange
  <2>2. ValidShard(owner, shardCount) /\ Owns(hash, owner, shardCount)
    BY <2>1 DEF ValidShard, Owns
  <2>3. \A other \in Int : Owns(hash, other, shardCount) => other = owner
    BY <1>2 DEF Owns
  <2> QED
    BY <2>1, <2>2, <2>3
<1> QED
  BY <1>1, <1>2

-----------------------------------------------------------------------------
(* The invariant behind a settled feed *)

Config == ConfigData(fl.spec)

\* Some Deployment, ReplicaSet or pod carries the configuration hash h.
Stamped(h) ==
    \/ \E s \in Shards : deployments[s] # None /\ deployments[s].hash = h
    \/ \E r \in replicaSets : r.hash = h
    \/ \E p \in pods : p.hash = h

\* Every hash in the cluster, and the one a running pass is about to stamp, is
\* that of a configuration the feed has or had.
HistoryInv ==
    /\ \A h \in Configs : Stamped(h) => h \in past \cup {Config}
    /\ pc # "idle" => ConfigData(obj) \in past \cup {Config}

\* Once the hash of the current configuration is in use the ConfigMap holds
\* that configuration, no pass is about to replace it by an older one, and a
\* container that carries the hash has read its count.
CurrentInv ==
    fl.exists =>
        /\ Stamped(Config) => configMap = Config
        /\ pc \in NormalSteps /\ Stamped(Config) => ConfigData(obj) = Config
        /\ pc \in {"shards", "status"} => configMap = ConfigData(obj)
        /\ \A p \in pods : p.hash = Config /\ p.count > 0 => p.count = Config.count

Runs(s, spec) == deployments[s] # None /\ deployments[s].hash = ConfigData(spec)

\* The Deployments are those of the spec.
Matches(spec) ==
    \A s \in Shards : IF s < spec.consumers THEN Runs(s, spec) ELSE deployments[s] = None

\* What the shard loop has done so far, and what it means that a spec is observed
\* and the feed not Degraded: a failed pass observes the spec it failed on.
LoopInv ==
    /\ pc \in {"finalizer", "configmap"} => next = 0
    /\ pc \in {"shards", "status"} => \A s \in Shards : s < next => Runs(s, obj)
    /\ pc = "status" => Matches(obj)
    /\ observed /\ pc # "idle" => obj = fl.spec
    /\ fl.exists /\ ~fl.deleting /\ observed /\ ~degraded => Matches(fl.spec)

\* A Deployment has at most one pod at any time.
UniqueInv == \A p, q \in pods : p.shard = q.shard /\ p.uid = q.uid => p = q

-----------------------------------------------------------------------------
(* What a step does to the pods and to the hashes *)

\* The shard loop stays within the partition and writes Deployments.
LEMMA LoopIndex ==
    ASSUME TypeOK, ReconcileShard
    PROVE  /\ pc = "shards" /\ next \in Nat /\ next < obj.consumers /\ next \in Shards
           /\ obj.consumers \in 1..MaxConsumers /\ ConfigData(obj) \in Configs
<1>1. pc = "shards" /\ next < obj.consumers
  BY DEF ReconcileShard
<1>2. obj \in Specs /\ next \in 0..obj.consumers
  BY <1>1 DEF TypeOK
<1>3. obj.consumers \in 1..MaxConsumers /\ ConfigData(obj) \in Configs
  BY <1>2 DEF Specs, Configs
<1>. QED
  BY <1>1, <1>2, <1>3, ConstantsAssumption DEF Shards

LEMMA DeploymentIsSome ==
    ASSUME NEW uid \in Nat, NEW config \in Configs
    PROVE  [uid |-> uid, hash |-> config] # None
<1>1. [uid |-> uid, hash |-> config] \in Deployments
  BY DEF Deployments
<1>. QED
  BY <1>1, NoneAssumption

\* Marking pods as terminating changes nothing else about them.
LEMMA TerminatedPod ==
    ASSUME pods \subseteq Pods, NEW P, NEW q \in Terminated(P)
    PROVE  \E p \in pods : /\ q.shard = p.shard /\ q.uid = p.uid
                           /\ q.hash = p.hash /\ q.count = p.count
                           /\ q = IF p \in P THEN [p EXCEPT !.terminating = TRUE] ELSE p
BY DEF Terminated, Pods

LEMMA TerminatedUnique ==
    ASSUME pods \subseteq Pods, UniqueInv, NEW P, NEW p \in Terminated(P),
           NEW q \in Terminated(P), p.shard = q.shard, p.uid = q.uid
    PROVE  p = q
<1>1. PICK a \in pods : /\ p.shard = a.shard /\ p.uid = a.uid
                        /\ p = IF a \in P THEN [a EXCEPT !.terminating = TRUE] ELSE a
  BY TerminatedPod
<1>2. PICK b \in pods : /\ q.shard = b.shard /\ q.uid = b.uid
                        /\ q = IF b \in P THEN [b EXCEPT !.terminating = TRUE] ELSE b
  BY TerminatedPod
<1>3. a = b
  BY <1>1, <1>2 DEF UniqueInv
<1>. QED
  BY <1>1, <1>2, <1>3

\* The steps that change the pods.
LEMMA PodSteps ==
    ASSUME [Next]_vars
    PROVE  \/ pods' = pods
           \/ \E r \in replicaSets : RolloutDown(r) \/ CreatePod(r) \/ CollectReplicaSet(r)
           \/ \E p \in pods : StartContainer(p) \/ RestartContainer(p) \/ PodGone(p)
<1> USE DEF cluster, workloads, vars
<1>1. CASE NormalPass \/ FinalizePass
  BY <1>1 DEF NormalPass, FinalizePass, AddFinalizer, ReconcileConfigMap, ReconcileShard,
         PruneStaleShard, ReconcileMaintenance, ReconcileStatus, StopCronJob, StopConsumer,
         StopRebuilds, ListConsumerPods, ListRebuildPods, EnsureDrainJob, ReleaseFinalizer
<1>2. CASE Rebuilds
  BY <1>2 DEF Rebuilds, Tick, StartRebuildPod, RebuildEnds, ForgetRebuild, CollectRebuild
<1>. QED
  BY <1>1, <1>2 DEF Next, Controller, Edit, Delete, BeginReconcile, Conflict, ApiError, Failed,
         RolloutUp, CollectChildren, WriteMembers, DrainRuns, DrainFails

LEMMA UniqueStep == TypeOK /\ UniqueInv /\ [Next]_vars => UniqueInv'
<1> SUFFICES ASSUME TypeOK, UniqueInv, [Next]_vars PROVE UniqueInv'
  OBVIOUS
<1>0. pods \subseteq Pods
  BY DEF TypeOK
<1>1. CASE pods' = pods
  BY <1>1 DEF UniqueInv
<1>2. ASSUME NEW r \in replicaSets, RolloutDown(r) \/ CollectReplicaSet(r) PROVE UniqueInv'
  <2>1. pods' = Terminated(PodsOf(r.shard, r.uid))
    BY <1>2 DEF RolloutDown, CollectReplicaSet
  <2>. QED
    BY <1>0, <2>1, TerminatedUnique DEF UniqueInv
<1>3. ASSUME NEW r \in replicaSets, CreatePod(r) PROVE UniqueInv'
  <2> DEFINE new == [shard |-> r.shard, uid |-> r.uid, hash |-> r.hash,
                     count |-> 0, terminating |-> FALSE]
  <2>1. pods' = pods \cup {new} /\ \A p \in pods : ~(p.shard = r.shard /\ p.uid = r.uid)
    BY <1>3 DEF CreatePod, PodsOf
  <2>2. new.shard = r.shard /\ new.uid = r.uid
    OBVIOUS
  <2> HIDE DEF new
  <2>. QED
    BY <2>1, <2>2 DEF UniqueInv
<1>4. ASSUME NEW p \in pods, StartContainer(p) PROVE UniqueInv'
  BY <1>0, <1>4 DEF StartContainer, UniqueInv, Pods
<1>5. ASSUME NEW p \in pods, RestartContainer(p) PROVE UniqueInv'
  BY <1>0, <1>5 DEF RestartContainer, UniqueInv, Pods
<1>6. ASSUME NEW p \in pods, PodGone(p) PROVE UniqueInv'
  BY <1>6 DEF PodGone, UniqueInv
<1>. QED
  BY <1>1, <1>2, <1>3, <1>4, <1>5, <1>6, PodSteps

\* A pod after a step is a pod from before it, whose container may have been
\* restarted or have started with the count of the ConfigMap, or a new pod of
\* a ReplicaSet.
LEMMA PodStep ==
    ASSUME TypeOK, [Next]_vars, NEW q \in pods'
    PROVE  \/ \E p \in pods :
                /\ q.shard = p.shard /\ q.uid = p.uid /\ q.hash = p.hash
                /\ \/ q.count \in {0, p.count}
                   \/ configMap # None /\ q.count = configMap.count
           \/ \E r \in replicaSets :
                q.shard = r.shard /\ q.uid = r.uid /\ q.hash = r.hash /\ q.count = 0
<1>0. pods \subseteq Pods
  BY DEF TypeOK
<1>1. CASE pods' = pods
  BY <1>1
<1>2. ASSUME NEW r \in replicaSets, RolloutDown(r) \/ CollectReplicaSet(r)
      PROVE  \E p \in pods : /\ q.shard = p.shard /\ q.uid = p.uid
                             /\ q.hash = p.hash /\ q.count = p.count
  <2>1. q \in Terminated(PodsOf(r.shard, r.uid))
    BY <1>2 DEF RolloutDown, CollectReplicaSet
  <2>. QED
    BY <1>0, <2>1, TerminatedPod
<1>3. ASSUME NEW r \in replicaSets, CreatePod(r)
      PROVE  q \in pods \/ /\ q.shard = r.shard /\ q.uid = r.uid
                           /\ q.hash = r.hash /\ q.count = 0
  BY <1>3 DEF CreatePod
<1>4. ASSUME NEW p \in pods, StartContainer(p)
      PROVE  q \in pods \/ /\ q.shard = p.shard /\ q.uid = p.uid /\ q.hash = p.hash
                           /\ configMap # None /\ q.count = configMap.count
  BY <1>0, <1>4 DEF StartContainer, Pods
<1>5. ASSUME NEW p \in pods, RestartContainer(p)
      PROVE  q \in pods \/ /\ q.shard = p.shard /\ q.uid = p.uid /\ q.hash = p.hash
                           /\ q.count = 0
  BY <1>0, <1>5 DEF RestartContainer, Pods
<1>6. ASSUME NEW p \in pods, PodGone(p) PROVE q \in pods
  BY <1>6 DEF PodGone
<1>. QED
  BY <1>1, <1>2, <1>3, <1>4, <1>5, <1>6, PodSteps

\* A ReplicaSet after a step is one from before it or the one of a Deployment.
LEMMA ReplicaSetStep ==
    ASSUME [Next]_vars, NEW r \in replicaSets'
    PROVE  \/ r \in replicaSets
           \/ \E s \in Shards : /\ deployments[s] # None
                                /\ r = [shard |-> s, uid |-> deployments[s].uid,
                                        hash |-> deployments[s].hash]
<1> USE DEF cluster, workloads, vars
<1>1. CASE NormalPass \/ FinalizePass
  BY <1>1 DEF NormalPass, FinalizePass, AddFinalizer, ReconcileConfigMap, ReconcileShard,
         PruneStaleShard, ReconcileMaintenance, ReconcileStatus, StopCronJob, StopConsumer,
         StopRebuilds, ListConsumerPods, ListRebuildPods, EnsureDrainJob, ReleaseFinalizer
<1>2. CASE Rebuilds
  BY <1>2 DEF Rebuilds, Tick, StartRebuildPod, RebuildEnds, ForgetRebuild, CollectRebuild
<1>3. CASE \E s \in Shards : RolloutUp(s)
  BY <1>3 DEF RolloutUp
<1>4. CASE \E x \in replicaSets : RolloutDown(x) \/ CreatePod(x) \/ CollectReplicaSet(x)
  BY <1>4 DEF RolloutDown, CreatePod, CollectReplicaSet
<1>5. CASE \E p \in pods : StartContainer(p) \/ RestartContainer(p) \/ PodGone(p)
  BY <1>5 DEF StartContainer, RestartContainer, PodGone
<1>. QED
  BY <1>1, <1>2, <1>3, <1>4, <1>5
  DEF Next, Controller, Edit, Delete, BeginReconcile, Conflict, ApiError, Failed,
      CollectChildren, WriteMembers, DrainRuns, DrainFails

\* A Deployment after a step is one from before it, except the one that the
\* shard loop writes.
LEMMA DeploymentStep ==
    ASSUME TypeOK, [Next]_vars, NEW s \in Shards, deployments'[s] # None
    PROVE  deployments'[s] = deployments[s] \/ (ReconcileShard /\ s = next)
<1> USE DEF cluster, children, vars
<1>0. deployments \in [Shards -> Deployments \cup {None}]
  BY DEF TypeOK
<1>1. CASE ReconcileShard
  BY <1>0, <1>1 DEF ReconcileShard
<1>2. ASSUME NEW t \in Shards, PruneStaleShard(t) \/ StopConsumer(t)
      PROVE  deployments'[s] = deployments[s]
  BY <1>0, <1>2 DEF PruneStaleShard, StopConsumer, DeleteDeployment
<1>3. CASE AddFinalizer \/ ReconcileConfigMap \/ ReconcileMaintenance \/ ReconcileStatus
  BY <1>3 DEF AddFinalizer, ReconcileConfigMap, ReconcileMaintenance, ReconcileStatus
<1>4. CASE \/ StopCronJob \/ StopRebuilds \/ ListConsumerPods \/ ListRebuildPods
           \/ EnsureDrainJob \/ ReleaseFinalizer
  BY <1>4 DEF StopCronJob, StopRebuilds, ListConsumerPods, ListRebuildPods,
              EnsureDrainJob, ReleaseFinalizer
<1>5. CASE Elsewhere
  BY <1>5 DEF Elsewhere, RolloutDown, CreatePod, CollectReplicaSet, RolloutUp,
         StartContainer, RestartContainer, PodGone, Rebuilds, Tick, StartRebuildPod,
         RebuildEnds, ForgetRebuild, CollectRebuild, CollectChildren, WriteMembers,
         DrainRuns, DrainFails
<1>. QED
  BY <1>1, <1>2, <1>3, <1>4, <1>5
  DEF Next, Controller, NormalPass, FinalizePass, Elsewhere,
      Edit, Delete, BeginReconcile, Conflict, ApiError, Failed

\* Only the shard loop brings a hash into use.
LEMMA StampStep ==
    ASSUME TypeOK, [Next]_vars, NEW h, Stamped(h)'
    PROVE  Stamped(h) \/ (ReconcileShard /\ h = ConfigData(obj))
<1>1. ASSUME NEW s \in Shards, deployments'[s] # None, deployments'[s].hash = h
      PROVE  Stamped(h) \/ (ReconcileShard /\ h = ConfigData(obj))
  <2>1. CASE deployments'[s] = deployments[s]
    BY <1>1, <2>1 DEF Stamped
  <2>2. CASE ReconcileShard /\ s = next
    <3>1. deployments'[s].hash = ConfigData(obj)
      BY <2>2 DEF ReconcileShard, TypeOK
    <3>. QED
      BY <1>1, <2>2, <3>1
  <2>. QED
    BY <1>1, <2>1, <2>2, DeploymentStep
<1>2. ASSUME NEW r \in replicaSets', r.hash = h PROVE Stamped(h)
  BY <1>2, ReplicaSetStep DEF Stamped
<1>3. ASSUME NEW q \in pods', q.hash = h PROVE Stamped(h)
  BY <1>3, PodStep DEF Stamped
<1>. QED
  BY <1>1, <1>2, <1>3 DEF Stamped

\* The cluster leaves the children alone until their owner is gone.
LEMMA ElsewhereKeepsChildren ==
    ASSUME Elsewhere \/ UNCHANGED vars, ~CollectChildren
    PROVE  UNCHANGED <<configMap, deployments>>
BY DEF Elsewhere, RolloutDown, CreatePod, CollectReplicaSet, RolloutUp, StartContainer,
       RestartContainer, PodGone, Rebuilds, Tick, StartRebuildPod, RebuildEnds,
       ForgetRebuild, CollectRebuild, WriteMembers, DrainRuns, DrainFails, vars,
       cluster, children

\* What a step other than an edit does to the feed, to the running pass and to
\* the ConfigMap.
LEMMA PassesFlow ==
    ASSUME TypeOK, [Next]_vars, \A spec \in Specs : ~Edit(spec)
    PROVE  /\ past' = past /\ fl'.spec = fl.spec
           /\ fl'.exists => fl.exists
           /\ \/ pc' = "idle"
              \/ pc = "idle" /\ obj' = fl.spec /\ pc' \notin {"shards", "status"}
              \/ pc # "idle" /\ obj' = obj /\ (pc' \in NormalSteps => pc \in NormalSteps)
           /\ pc' = "shards" => pc = "shards" \/ ReconcileConfigMap
           /\ pc' = "status" => pc = "status" \/ ReconcileMaintenance
           /\ configMap' = configMap \/ ReconcileConfigMap \/ CollectChildren
<1>0. fl \in FeedListeners
  BY DEF TypeOK
<1> USE DEF feed, reconcile, cluster, children, NormalSteps
<1>1. CASE Delete
  BY <1>0, <1>1 DEF Delete, FeedListeners, TypeOK
<1>2. CASE BeginReconcile
  <2>1. fl.spec.retain \in BOOLEAN /\ fl.deleting \in BOOLEAN /\ fl.finalizer \in BOOLEAN
    BY <1>0, ConstantsAssumption DEF FeedListeners, Specs
  <2>. QED
    BY <1>2, <2>1 DEF BeginReconcile
<1>3. CASE Conflict \/ ApiError \/ Failed \/ ReconcileStatus
  BY <1>3 DEF Conflict, ApiError, Failed, MarkDegraded, ReconcileStatus, EndPass
<1>4. CASE AddFinalizer
  BY <1>0, <1>4 DEF AddFinalizer, Goto, FeedListeners
<1>5. CASE ReconcileConfigMap \/ ReconcileMaintenance \/ ReconcileShard
  BY <1>5 DEF ReconcileConfigMap, ReconcileMaintenance, ReconcileShard, Goto
<1>6. ASSUME NEW s \in Shards, PruneStaleShard(s) \/ StopConsumer(s)
      PROVE  UNCHANGED <<fl, past, observed, degraded, pc, obj, configMap>> /\ pc # "idle"
  BY <1>6 DEF PruneStaleShard, StopConsumer, DeleteDeployment
<1>7. CASE StopCronJob \/ StopRebuilds
  BY <1>7 DEF StopCronJob, StopRebuilds, Goto
<1>8. CASE ListConsumerPods \/ ListRebuildPods \/ EnsureDrainJob
  BY <1>8 DEF ListConsumerPods, ListRebuildPods, EnsureDrainJob, Goto, EndPass
<1>9. CASE ReleaseFinalizer
  BY <1>0, <1>9 DEF ReleaseFinalizer, EndPass, FeedListeners
<1>10. CASE Elsewhere \/ UNCHANGED vars
  <2>1. UNCHANGED <<fl, observed, degraded, past, pc, obj, next, stale, created>>
    BY <1>10, ElsewhereKeepsPass
  <2>2. configMap' = configMap \/ CollectChildren
    BY <1>10, ElsewhereKeepsChildren
  <2>. QED
    BY <2>1, <2>2
<1>. QED
  BY <1>1, <1>2, <1>3, <1>4, <1>5, <1>6, <1>7, <1>8, <1>9, <1>10
  DEF Next, Controller, NormalPass, FinalizePass, Elsewhere

\* An edit leaves the cluster and the pass as they are. To a configuration that
\* is not the current one, it makes the current one a past one.
LEMMA EditStep ==
    ASSUME TypeOK, NEW spec \in Specs, Edit(spec)
    PROVE  /\ UNCHANGED <<pc, obj, next, configMap, deployments, replicaSets, pods, created>>
           /\ fl.exists /\ fl'.spec = spec /\ Config' = ConfigData(spec)
           /\ fl'.exists = fl.exists /\ fl'.deleting = fl.deleting
           /\ past' = past \cup {Config} /\ observed' = FALSE
           /\ MayRevert = FALSE => Config' \notin past \ {Config}
BY DEF Edit, TypeOK, FeedListeners, Config, cluster, children, workloads

LEMMA HistoryStep == TypeOK /\ HistoryInv /\ [Next]_vars => HistoryInv'
<1> SUFFICES ASSUME TypeOK, HistoryInv, [Next]_vars PROVE HistoryInv'
  OBVIOUS
<1>1. ASSUME NEW spec \in Specs, Edit(spec) PROVE HistoryInv'
  <2>1. ASSUME NEW h \in Configs, Stamped(h)' PROVE Stamped(h)
    BY <1>1, <2>1, EditStep DEF Stamped
  <2>2. past \cup {Config} \subseteq past' /\ pc' = pc /\ obj' = obj
    BY <1>1, EditStep
  <2>. QED
    BY <2>1, <2>2 DEF HistoryInv
<1>2. ASSUME \A spec \in Specs : ~Edit(spec) PROVE HistoryInv'
  <2>1. past' = past /\ Config' = Config
    BY <1>2, PassesFlow DEF Config
  <2>2. ASSUME NEW h \in Configs, Stamped(h)' PROVE h \in past \cup {Config}
    <3>1. CASE Stamped(h)
      BY <3>1 DEF HistoryInv
    <3>2. CASE ReconcileShard /\ h = ConfigData(obj)
      BY <3>2 DEF HistoryInv, ReconcileShard
    <3>. QED
      BY <2>2, <3>1, <3>2, StampStep
  <2>3. pc' # "idle" => ConfigData(obj') \in past \cup {Config}
    BY <1>2, PassesFlow DEF HistoryInv, Config
  <2>. QED
    BY <2>1, <2>2, <2>3 DEF HistoryInv
<1>. QED
  BY <1>1, <1>2

LEMMA CurrentStep ==
    ASSUME MayRevert = FALSE, TypeOK, HistoryInv, CurrentInv, [Next]_vars
    PROVE  CurrentInv'
<1> SUFFICES ASSUME fl'.exists PROVE CurrentInv'
  BY DEF CurrentInv
<1>1. ASSUME NEW spec \in Specs, Edit(spec) PROVE CurrentInv'
  <2>1. CASE Config' = Config
    BY <1>1, <2>1, EditStep DEF CurrentInv, Stamped
  <2>2. CASE Config' # Config
    <3>1. Config' \notin past \cup {Config} /\ Config' \in Configs
      BY <1>1, <2>2, EditStep DEF Configs
    <3>2. ~Stamped(Config')
      BY <3>1 DEF HistoryInv
    <3>3. ~(\E p \in pods : p.hash = Config')
      BY <3>2 DEF Stamped
    <3>4. ~(Stamped(Config))'
      BY <1>1, <3>2, EditStep DEF Stamped
    <3>. QED
      BY <1>1, <3>3, <3>4, EditStep DEF CurrentInv
  <2>. QED
    BY <2>1, <2>2
<1>2. ASSUME \A spec \in Specs : ~Edit(spec) PROVE CurrentInv'
  <2>0. fl.exists /\ Config' = Config
    BY <1>2, PassesFlow DEF Config
  <2>1. Stamped(Config)' => Stamped(Config) \/ (ReconcileShard /\ Config = ConfigData(obj))
    BY <2>0, StampStep DEF Stamped
  <2>2. configMap' = configMap \/ ReconcileConfigMap
    BY <1>2, <2>0, PassesFlow DEF CollectChildren
  <2>3. ReconcileConfigMap => configMap' = ConfigData(obj) /\ pc = "configmap"
    BY DEF ReconcileConfigMap
  <2>4. ReconcileShard => pc = "shards"
    BY DEF ReconcileShard
  <2>5. Stamped(Config)' => configMap' = Config
    BY <2>0, <2>1, <2>2, <2>3, <2>4 DEF CurrentInv, NormalSteps
  <2>6. pc' \in NormalSteps /\ Stamped(Config)' => ConfigData(obj') = Config
    BY <1>2, <2>0, <2>1, PassesFlow DEF CurrentInv, Config, NormalSteps
  <2>7. pc' \in {"shards", "status"} => configMap' = ConfigData(obj')
    <3>1. CASE ReconcileConfigMap
      BY <3>1 DEF ReconcileConfigMap, Goto
    <3>2. CASE ReconcileMaintenance
      BY <2>0, <3>2 DEF ReconcileMaintenance, Goto, CurrentInv
    <3>. QED
      BY <1>2, <2>0, <2>2, <3>1, <3>2, PassesFlow DEF CurrentInv
  <2>8. ASSUME NEW q \in pods', q.hash = Config, q.count > 0 PROVE q.count = Config.count
    <3>1. CASE \E r \in replicaSets : q.count = 0
      BY <2>8, <3>1
    <3>2. ASSUME NEW p \in pods, q.hash = p.hash, q.count \in {0, p.count}
          PROVE  q.count = Config.count
      BY <2>0, <2>8, <3>2 DEF CurrentInv
    <3>3. ASSUME NEW p \in pods, q.hash = p.hash, q.count = configMap.count
          PROVE  q.count = Config.count
      BY <2>0, <2>8, <3>3 DEF CurrentInv, Stamped
    <3>. QED
      BY <2>8, <3>1, <3>2, <3>3, PodStep
  <2>. QED
    BY <2>0, <2>5, <2>6, <2>7, <2>8 DEF CurrentInv
<1>. QED
  BY <1>1, <1>2

LEMMA LoopStep == TypeOK /\ PassInv /\ LoopInv /\ [Next]_vars => LoopInv'
<1> SUFFICES ASSUME TypeOK, PassInv, LoopInv, [Next]_vars PROVE LoopInv'
  OBVIOUS
<1>0. /\ fl \in FeedListeners /\ fl.spec \in Specs /\ observed \in BOOLEAN
      /\ degraded \in BOOLEAN /\ stale \in BOOLEAN
      /\ deployments \in [Shards -> Deployments \cup {None}]
  BY DEF TypeOK, FeedListeners
<1> USE DEF feed, reconcile, cluster, children
<1>1. ASSUME NEW spec \in Specs, Edit(spec) PROVE LoopInv'
  BY <1>1, EditStep DEF LoopInv, Matches, Runs
<1>2. CASE Delete
  <2>1. fl'.spec = fl.spec /\ ~(fl'.exists /\ ~fl'.deleting)
    BY <1>0, <1>2 DEF Delete, FeedListeners
  <2>. QED
    BY <1>2, <2>1 DEF Delete, LoopInv, Matches, Runs
<1>3. CASE BeginReconcile
  <2>1. pc' \notin {"shards", "status"} /\ next' = 0 /\ (pc' # "idle" => obj' = fl.spec)
    <3>1. /\ fl.spec.retain \in BOOLEAN /\ fl.deleting \in BOOLEAN
          /\ fl.finalizer \in BOOLEAN
      BY <1>0, ConstantsAssumption DEF FeedListeners, Specs
    <3>. QED
      BY <1>3, <3>1 DEF BeginReconcile
  <2>. QED
    BY <1>3, <2>1 DEF BeginReconcile, LoopInv, Matches, Runs
<1>4. CASE Conflict \/ ApiError
  <2>1. pc' = "idle" /\ UNCHANGED <<fl, observed, degraded, deployments>>
    BY <1>4 DEF Conflict, ApiError, EndPass
  <2>. QED
    BY <2>1 DEF LoopInv, Matches, Runs
<1>4a. CASE Failed
  <2>1. pc' = "idle" /\ UNCHANGED <<fl, deployments>>
    BY <1>4a DEF Failed, MarkDegraded, EndPass
  <2>2. CASE stale = FALSE
    <3>1. degraded'
      BY <1>4a, <2>2 DEF Failed, MarkDegraded
    <3>. QED
      BY <2>1, <3>1 DEF LoopInv, Matches, Runs
  <2>3. CASE stale = TRUE
    <3>1. UNCHANGED <<observed, degraded>>
      BY <1>0, <1>4a, <2>3 DEF Failed, MarkDegraded
    <3>. QED
      BY <2>1, <3>1 DEF LoopInv, Matches, Runs
  <2>. QED
    BY <1>0, <2>2, <2>3
<1>5. CASE ReconcileStatus
  <2>1. pc' = "idle" /\ UNCHANGED <<fl, deployments>>
    BY <1>5 DEF ReconcileStatus, EndPass
  <2>2. CASE stale = FALSE
    <3>1. Matches(fl.spec)
      BY <1>5, <2>2 DEF ReconcileStatus, LoopInv, PassInv
    <3>. QED
      BY <2>1, <3>1 DEF LoopInv, Matches, Runs
  <2>3. CASE stale = TRUE
    <3>1. UNCHANGED <<observed, degraded>>
      BY <1>0, <1>5, <2>3 DEF ReconcileStatus
    <3>. QED
      BY <2>1, <3>1 DEF LoopInv, Matches, Runs
  <2>. QED
    BY <1>0, <2>2, <2>3
<1>6. CASE AddFinalizer
  <2>1. fl'.spec = fl.spec /\ fl'.exists = fl.exists /\ fl'.deleting = fl.deleting
    BY <1>0, <1>6 DEF AddFinalizer, FeedListeners
  <2>. QED
    BY <1>6, <2>1 DEF AddFinalizer, Goto, LoopInv, Matches, Runs
<1>7. CASE ReconcileConfigMap
  <2>1. next' = 0
    BY <1>7 DEF ReconcileConfigMap, Goto, LoopInv
  <2>2. \A s \in Shards : ~(s < next')
    BY <2>1, ConstantsAssumption DEF Shards
  <2>. QED
    BY <1>7, <2>2 DEF ReconcileConfigMap, Goto, LoopInv, Matches, Runs
<1>8. CASE ReconcileShard
  <2>1. /\ pc = "shards" /\ pc' = "shards" /\ next' = next + 1
        /\ UNCHANGED <<fl, observed, degraded, obj>>
    BY <1>8 DEF ReconcileShard
  <2>2. /\ obj.consumers \in 1..MaxConsumers /\ next \in 0..obj.consumers
        /\ next < obj.consumers /\ next \in Shards
    BY <1>8, LoopIndex, ConstantsAssumption
  <2>3. deployments'[next] # None /\ deployments'[next].hash = ConfigData(obj)
    <3> DEFINE uid == IF deployments[next] = None THEN created[next] + 1
                                                  ELSE deployments[next].uid
    <3>1. uid \in Nat
      <4>1. CASE deployments[next] = None
        BY <2>2, <4>1 DEF TypeOK
      <4>2. CASE deployments[next] # None
        <5>1. deployments[next] \in Deployments
          BY <1>0, <2>2, <4>2
        <5>. QED
          BY <4>2, <5>1 DEF Deployments
      <4>. QED
        BY <4>1, <4>2
    <3>2. deployments'[next] = [uid |-> uid, hash |-> ConfigData(obj)]
      BY <1>0, <1>8, <2>2 DEF ReconcileShard
    <3> HIDE DEF uid
    <3>3. [uid |-> uid, hash |-> ConfigData(obj)] # None
      BY <1>8, <3>1, LoopIndex, DeploymentIsSome
    <3>4. deployments'[next].hash = ConfigData(obj)
      BY <3>2
    <3>. QED
      BY <3>2, <3>3, <3>4, Zenon
  <2>4. \A s \in Shards : s # next => deployments'[s] = deployments[s]
    BY <1>0, <1>8, <2>2 DEF ReconcileShard
  <2>5. \A s \in Shards : s < next' => Runs(s, obj)'
    <3>1. ASSUME NEW s \in Shards, s < next', s # next PROVE Runs(s, obj)'
      <4>1. s < next
        BY <2>1, <2>2, <3>1, ConstantsAssumption DEF Shards
      <4>. QED
        BY <2>1, <2>4, <3>1, <4>1 DEF LoopInv, Runs
    <3>. QED
      BY <2>1, <2>3, <3>1 DEF Runs
  <2>6. Matches(obj) => Matches(obj)'
    BY <2>1, <2>2, <2>3, <2>4 DEF Matches, Runs
  <2>. QED
    BY <2>1, <2>5, <2>6 DEF LoopInv, Matches, Runs
<1>9. ASSUME NEW t \in Shards, PruneStaleShard(t) PROVE LoopInv'
  <2>1. /\ pc = "shards" /\ next = obj.consumers /\ t >= next
        /\ deployments[t] # None
        /\ deployments' = [deployments EXCEPT ![t] = None]
        /\ UNCHANGED <<fl, observed, degraded, pc, obj, next>>
    BY <1>9 DEF PruneStaleShard, DeleteDeployment, StaleShards
  <2>2. obj.consumers \in 1..MaxConsumers
    BY <2>1 DEF TypeOK, Specs
  <2>3. ~(t < next)
    BY <2>1, <2>2, ConstantsAssumption DEF Shards
  <2>4. ~Matches(obj)
    BY <2>1, <2>3 DEF Matches
  <2>5. \A s \in Shards : s < next => Runs(s, obj)'
    BY <1>0, <2>1, <2>3 DEF LoopInv, Runs
  <2>. QED
    BY <2>1, <2>4, <2>5 DEF LoopInv, Runs
<1>10. CASE ReconcileMaintenance
  <2>1. /\ pc = "shards" /\ pc' = "status" /\ next = obj.consumers /\ StaleShards = {}
        /\ UNCHANGED <<fl, observed, degraded, obj, next, deployments>>
    BY <1>10 DEF ReconcileMaintenance, Goto
  <2>2. obj.consumers \in 1..MaxConsumers
    BY <2>1 DEF TypeOK, Specs
  <2>3. Matches(obj)
    BY <2>1, <2>2, ConstantsAssumption DEF Matches, LoopInv, StaleShards, Shards
  <2>. QED
    BY <2>1, <2>3 DEF LoopInv, Matches, Runs
<1>11. CASE StopCronJob \/ StopRebuilds
  <2>1. /\ pc' \notin {"finalizer", "configmap", "shards", "status"} /\ pc # "idle"
        /\ UNCHANGED <<fl, observed, degraded, obj, deployments>>
    BY <1>11 DEF StopCronJob, StopRebuilds, Goto
  <2>. QED
    BY <2>1 DEF LoopInv, Matches, Runs
<1>12. ASSUME NEW t \in Shards, StopConsumer(t) PROVE LoopInv'
  BY <1>12 DEF StopConsumer, LoopInv, PassInv, FinalizeSteps
<1>13. CASE ListConsumerPods \/ ListRebuildPods \/ EnsureDrainJob
  <2>1. /\ pc \in {"consumerPods", "rebuildPods", "drain"}
        /\ UNCHANGED <<fl, observed, degraded, deployments>>
    BY <1>13 DEF ListConsumerPods, ListRebuildPods, EnsureDrainJob
  <2>2. \/ pc' = "idle"
        \/ pc' \in {"rebuildPods", "drain", "release"} /\ obj' = obj
    BY <1>13 DEF ListConsumerPods, ListRebuildPods, EnsureDrainJob, Goto, EndPass
  <2>. QED
    BY <2>1, <2>2 DEF LoopInv, Matches, Runs
<1>14. CASE ReleaseFinalizer
  <2>1. fl'.exists = FALSE
    BY <1>0, <1>14 DEF ReleaseFinalizer, FeedListeners
  <2>. QED
    BY <1>14, <2>1 DEF ReleaseFinalizer, EndPass, LoopInv
<1>15. CASE Elsewhere \/ UNCHANGED vars
  <2>1. UNCHANGED <<fl, observed, degraded, past, pc, obj, next, stale, created>>
    BY <1>15, ElsewhereKeepsPass
  <2>2. CASE CollectChildren
    <3>1. ~fl.exists /\ ~fl'.exists
      BY <2>1, <2>2 DEF CollectChildren
    <3>2. pc' \notin {"configmap", "shards", "status"}
      BY <2>1, <3>1 DEF PassInv
    <3>. QED
      BY <2>1, <3>1, <3>2 DEF LoopInv
  <2>3. ~CollectChildren => deployments' = deployments
    BY <1>15, ElsewhereKeepsChildren
  <2>4. CASE deployments' = deployments
    BY <2>1, <2>4 DEF LoopInv, Matches, Runs
  <2>. QED
    BY <2>2, <2>3, <2>4
<1>. QED
  BY <1>1, <1>2, <1>3, <1>4, <1>4a, <1>5, <1>6, <1>7, <1>8, <1>9, <1>10, <1>11, <1>12,
     <1>13, <1>14, <1>15
  DEF Next, Controller, NormalPass, FinalizePass, Elsewhere

-----------------------------------------------------------------------------
(* A settled feed is partitioned *)

\* In a settled feed every pod belongs to a shard of the spec and runs with the
\* count of the spec.
LEMMA SettledPods ==
    ASSUME TypeOK, CurrentInv, LoopInv, UniqueInv, Settled, NEW p \in pods
    PROVE  /\ p.shard \in Shards /\ p.shard < fl.spec.consumers
           /\ p.count = fl.spec.consumers
           /\ deployments[p.shard] # None /\ p.uid = deployments[p.shard].uid
<1>1. /\ p.shard \in Shards /\ deployments[p.shard] # None
      /\ p.uid = deployments[p.shard].uid /\ p.count > 0
  BY DEF TypeOK, Pods, Settled, Current, Consuming
<1>2. Matches(fl.spec) /\ fl.exists
  BY DEF Settled, LoopInv
<1>3. p.shard < fl.spec.consumers /\ deployments[p.shard].hash = Config
  BY <1>1, <1>2 DEF Matches, Runs, Config
<1>4. PICK q \in PodsOf(p.shard, deployments[p.shard].uid) : q.hash = Config
  BY <1>1, <1>3 DEF Settled
<1>5. q = p
  BY <1>1, <1>4 DEF PodsOf, UniqueInv
<1>6. p.count = Config.count
  BY <1>1, <1>2, <1>4, <1>5 DEF CurrentInv
<1>. QED
  BY <1>1, <1>3, <1>6 DEF Config, ConfigData

\* Reconcile, ShardDeployments and MessageShardFilter together: when the cluster
\* reports a feed as rolled out, exactly one consumer handles each message. For
\* every number of consumers and of messages, and through any sequence of
\* edits, deletions, failed calls, restarts and late pods in which no edit
\* returns to a configuration that the feed has left.
THEOREM SettledIsPartitioned ==
    ASSUME MayRevert = FALSE PROVE Spec => []SettledPartition
<1> DEFINE Inv == TypeOK /\ PassInv /\ HistoryInv /\ CurrentInv /\ LoopInv /\ UniqueInv
<1>1. Init => PassInv /\ HistoryInv /\ CurrentInv /\ LoopInv /\ UniqueInv
  BY DEF Init, PassInv, HistoryInv, CurrentInv, LoopInv, UniqueInv, Stamped, NormalSteps,
         FinalizeSteps
<1>2. Inv /\ [Next]_vars => Inv'
  BY TypeStep, PassStep, HistoryStep, CurrentStep, LoopStep, UniqueStep
<1>3. Inv => SettledPartition
  <2> SUFFICES ASSUME Inv, Settled, NEW hash \in Hashes
               PROVE  Cardinality(Handlers(hash)) = 1
    BY DEF SettledPartition
  <2> DEFINE N == fl.spec.consumers
  <2>1. N \in 1..MaxConsumers /\ N \in Nat \ {0} /\ hash \in Nat
    BY ConstantsAssumption DEF TypeOK, FeedListeners, Specs
  <2>2. PICK owner \in Int : /\ ValidShard(owner, N) /\ Owns(hash, owner, N)
                             /\ \A other \in Int :
                                  ValidShard(other, N) /\ Owns(hash, other, N)
                                      => other = owner
    BY <2>1, ExactlyOneOwner
  <2>3. owner \in Shards /\ owner < N
    BY <2>1, <2>2, ConstantsAssumption DEF ValidShard, Shards
  <2>4. deployments[owner] # None
    BY <2>3 DEF Settled, LoopInv, Matches, Runs
  <2>5. PICK p \in PodsOf(owner, deployments[owner].uid) : TRUE
    BY <2>3, <2>4 DEF Settled
  <2>6. p \in pods /\ p.shard = owner /\ p.uid = deployments[owner].uid
    BY <2>5 DEF PodsOf
  <2>7. p \in Handlers(hash)
    BY <2>2, <2>6, SettledPods DEF Handlers, Settled
  <2>8. ASSUME NEW q \in Handlers(hash) PROVE q = p
    <3>1. q \in pods /\ Owns(hash, q.shard, q.count)
      BY <2>8 DEF Handlers
    <3>2. /\ q.shard \in Shards /\ q.shard < N /\ q.count = N
          /\ q.uid = deployments[q.shard].uid
      BY <3>1, SettledPods
    <3>3. q.shard \in Int /\ ValidShard(q.shard, N)
      BY <2>1, <3>2, ConstantsAssumption DEF Shards, ValidShard
    <3>4. q.shard = owner
      BY <2>2, <3>1, <3>2, <3>3
    <3>. QED
      BY <2>6, <3>1, <3>2, <3>4 DEF UniqueInv
  <2>9. Handlers(hash) = {p}
    BY <2>7, <2>8
  <2>. QED
    BY <2>9, FS_Singleton
<1>. QED
  BY <1>1, <1>2, <1>3, TypeCorrect, PTL DEF Spec

-----------------------------------------------------------------------------
(* No message is handled twice while the count is kept *)

CountKept == fl'.spec.consumers = fl.spec.consumers

\* Each shard has one Deployment for life: the loop creates it once, it is never
\* stale, and what finalize deletes is not created again.
ShardsInv ==
    \A s \in Shards :
        /\ created[s] \in {0, 1}
        /\ deployments[s] # None =>
             s < fl.spec.consumers /\ deployments[s].uid = 1 /\ created[s] = 1
        /\ deployments[s] = None /\ created[s] = 1 =>
             /\ fl.deleting \/ ~fl.exists
             /\ pc \notin {"configmap", "shards", "status"}

\* Every party works with the same count, and with the one Deployment.
CountInv ==
    /\ pc # "idle" => obj.consumers = fl.spec.consumers
    /\ configMap # None => configMap.count = fl.spec.consumers
    /\ ShardsInv
    /\ \A r \in replicaSets : r.shard < fl.spec.consumers /\ r.uid = 1
    /\ \A p \in pods : /\ p.shard < fl.spec.consumers /\ p.uid = 1
                       /\ p.count \in {0, fl.spec.consumers}

\* ReplicaSets and pods inherit from Deployments, ReplicaSets and the ConfigMap.
LEMMA CountWorkloads ==
    ASSUME TypeOK, CountInv, [Next]_vars, CountKept
    PROVE  /\ \A r \in replicaSets' : r.shard < fl'.spec.consumers /\ r.uid = 1
           /\ \A p \in pods' : /\ p.shard < fl'.spec.consumers /\ p.uid = 1
                               /\ p.count \in {0, fl'.spec.consumers}
<1>1. ASSUME NEW r \in replicaSets' PROVE r.shard < fl.spec.consumers /\ r.uid = 1
  BY <1>1, ReplicaSetStep DEF CountInv, ShardsInv
<1>2. ASSUME NEW q \in pods'
      PROVE  q.shard < fl.spec.consumers /\ q.uid = 1 /\ q.count \in {0, fl.spec.consumers}
  BY <1>2, PodStep DEF CountInv
<1>. QED
  BY <1>1, <1>2 DEF CountKept

LEMMA CountShards ==
    ASSUME TypeOK, PassInv, CountInv, [Next]_vars, CountKept
    PROVE  ShardsInv'
<1>0. /\ fl \in FeedListeners /\ fl.exists \in BOOLEAN /\ fl.deleting \in BOOLEAN
      /\ fl.finalizer \in BOOLEAN /\ stale \in BOOLEAN /\ fl.spec \in Specs
      /\ deployments \in [Shards -> Deployments \cup {None}] /\ created \in [Shards -> Nat]
  BY DEF TypeOK, FeedListeners
<1>S. ShardsInv /\ fl'.spec.consumers = fl.spec.consumers
  BY DEF CountInv, CountKept
<1> USE DEF feed, reconcile, cluster, children
<1>1. ASSUME NEW spec \in Specs, Edit(spec) PROVE ShardsInv'
  BY <1>S, <1>1, EditStep DEF ShardsInv
<1>2. CASE Delete
  <2>1. fl'.deleting \/ ~fl'.exists
    BY <1>0, <1>2 DEF Delete, FeedListeners
  <2>2. /\ fl.exists /\ ~fl.deleting
        /\ UNCHANGED <<deployments, created, pc>>
    BY <1>2 DEF Delete
  <2>. QED
    BY <1>S, <2>1, <2>2 DEF ShardsInv
<1>3. CASE BeginReconcile
  <2>0. fl.spec.retain \in BOOLEAN
    BY <1>0, ConstantsAssumption DEF Specs
  <2>1. pc' \in {"configmap", "shards", "status"} => fl.exists /\ ~fl.deleting
    BY <1>0, <1>3, <2>0 DEF BeginReconcile
  <2>2. UNCHANGED <<fl, deployments, created>>
    BY <1>3 DEF BeginReconcile
  <2>. QED
    BY <1>S, <2>1, <2>2 DEF ShardsInv
<1>4. CASE Conflict \/ ApiError \/ Failed \/ ReconcileStatus
  <2>1. pc' = "idle" /\ UNCHANGED <<fl, deployments, created>>
    BY <1>4 DEF Conflict, ApiError, Failed, MarkDegraded, ReconcileStatus, EndPass
  <2>. QED
    BY <1>S, <2>1 DEF ShardsInv
<1>5. CASE AddFinalizer
  <2>1. /\ fl.exists /\ ~fl.deleting /\ fl'.exists /\ ~fl'.deleting
        /\ UNCHANGED <<deployments, created>>
    BY <1>0, <1>5 DEF AddFinalizer, PassInv, FeedListeners
  <2>. QED
    BY <1>S, <2>1 DEF ShardsInv
<1>6. CASE ReconcileConfigMap \/ ReconcileMaintenance
  BY <1>S, <1>6 DEF ReconcileConfigMap, ReconcileMaintenance, Goto, ShardsInv
<1>7. CASE ReconcileShard
  <2>1. pc = "shards" /\ UNCHANGED <<fl, pc>> /\ obj.consumers = fl.spec.consumers
    BY <1>7 DEF ReconcileShard, CountInv
  <2>2. /\ obj.consumers \in 1..MaxConsumers /\ next \in 0..obj.consumers
        /\ next < obj.consumers /\ next \in Shards
    BY <1>7, LoopIndex, ConstantsAssumption
  <2> DEFINE uid == IF deployments[next] = None THEN created[next] + 1
                                                ELSE deployments[next].uid
  <2>3. uid = 1
    <3>1. CASE deployments[next] = None
      <4>1. created[next] = 0
        <5>1. created[next] \in {0, 1}
          BY <1>S, <2>2 DEF ShardsInv
        <5>2. created[next] # 1
          BY <1>S, <2>1, <2>2, <3>1 DEF ShardsInv
        <5>. QED
          BY <5>1, <5>2
      <4>. QED
        BY <3>1, <4>1
    <3>2. CASE deployments[next] # None
      BY <1>S, <2>2, <3>2 DEF ShardsInv
    <3>. QED
      BY <3>1, <3>2
  <2>4. /\ deployments' = [deployments EXCEPT ![next] = [uid |-> uid, hash |-> ConfigData(obj)]]
        /\ created' = [created EXCEPT ![next] = uid]
    BY <1>7 DEF ReconcileShard
  <2>5. [uid |-> uid, hash |-> ConfigData(obj)] # None
    <3> HIDE DEF uid
    <3>. QED
      BY <1>7, <2>3, LoopIndex, DeploymentIsSome
  <2>6. /\ deployments'[next] # None /\ deployments'[next].uid = 1 /\ created'[next] = 1
        /\ \A s \in Shards : s # next => /\ deployments'[s] = deployments[s]
                                         /\ created'[s] = created[s]
    BY <1>0, <2>2, <2>3, <2>4, <2>5
  <2>. QED
    BY <1>S, <2>1, <2>2, <2>6 DEF ShardsInv
<1>8. ASSUME NEW t \in Shards, PruneStaleShard(t) PROVE ShardsInv'
  <2>1. /\ pc = "shards" /\ t >= obj.consumers /\ deployments[t] # None
        /\ obj.consumers = fl.spec.consumers
    BY <1>8 DEF PruneStaleShard, StaleShards, CountInv
  <2>2. fl.spec.consumers \in Int /\ t \in Int
    BY <1>0, ConstantsAssumption DEF Specs, Shards
  <2>3. t < fl.spec.consumers
    BY <1>S, <2>1 DEF ShardsInv
  <2>. QED
    BY <2>1, <2>2, <2>3
<1>9. CASE StopCronJob \/ StopRebuilds
  BY <1>S, <1>9 DEF StopCronJob, StopRebuilds, Goto, ShardsInv
<1>10. ASSUME NEW t \in Shards, StopConsumer(t) PROVE ShardsInv'
  <2>1. /\ pc = "consumers" /\ fl.deleting
        /\ deployments' = [deployments EXCEPT ![t] = None]
        /\ UNCHANGED <<fl, pc, created>>
    BY <1>10 DEF StopConsumer, DeleteDeployment, PassInv, FinalizeSteps
  <2>. QED
    BY <1>0, <1>S, <2>1 DEF ShardsInv
<1>11. CASE ListConsumerPods \/ ListRebuildPods \/ EnsureDrainJob
  BY <1>S, <1>11 DEF ListConsumerPods, ListRebuildPods, EnsureDrainJob, Goto, EndPass,
         ShardsInv
<1>12. CASE ReleaseFinalizer
  <2>1. fl'.exists = FALSE /\ pc' = "idle" /\ UNCHANGED <<deployments, created>>
    BY <1>0, <1>12 DEF ReleaseFinalizer, EndPass, FeedListeners
  <2>. QED
    BY <1>S, <2>1 DEF ShardsInv
<1>13. CASE Elsewhere \/ UNCHANGED vars
  <2>1. UNCHANGED <<fl, observed, degraded, past, pc, obj, next, stale, created>>
    BY <1>13, ElsewhereKeepsPass
  <2>2. CASE CollectChildren
    <3>1. ~fl.exists /\ pc \notin {"configmap", "shards", "status"}
      BY <2>2 DEF CollectChildren, PassInv
    <3>2. \A s \in Shards : deployments'[s] = None
      BY <2>2 DEF CollectChildren
    <3>. QED
      BY <1>S, <2>1, <3>1, <3>2 DEF ShardsInv
  <2>3. ~CollectChildren => deployments' = deployments
    BY <1>13, ElsewhereKeepsChildren
  <2>4. CASE deployments' = deployments
    BY <1>S, <2>1, <2>4 DEF ShardsInv
  <2>. QED
    BY <2>2, <2>3, <2>4
<1>. QED
  BY <1>1, <1>2, <1>3, <1>4, <1>5, <1>6, <1>7, <1>8, <1>9, <1>10, <1>11, <1>12, <1>13
  DEF Next, Controller, NormalPass, FinalizePass, Elsewhere

LEMMA CountStep ==
    ASSUME TypeOK, PassInv, CountInv, [Next]_vars, CountKept PROVE CountInv'
<1>1. pc' # "idle" => obj'.consumers = fl'.spec.consumers
  <2>1. ASSUME NEW spec \in Specs, Edit(spec)
        PROVE  pc' # "idle" => obj'.consumers = fl'.spec.consumers
    BY <2>1, EditStep DEF CountInv, CountKept
  <2>2. ASSUME \A spec \in Specs : ~Edit(spec)
        PROVE  pc' # "idle" => obj'.consumers = fl'.spec.consumers
    BY <2>2, PassesFlow DEF CountInv
  <2>. QED
    BY <2>1, <2>2
<1>2. configMap' # None => configMap'.count = fl'.spec.consumers
  <2>1. ASSUME NEW spec \in Specs, Edit(spec)
        PROVE  configMap' # None => configMap'.count = fl'.spec.consumers
    BY <2>1, EditStep DEF CountInv, CountKept
  <2>2. CASE ReconcileConfigMap
    BY <2>2 DEF ReconcileConfigMap, CountInv, CountKept, ConfigData
  <2>3. CASE CollectChildren
    BY <2>3 DEF CollectChildren
  <2>4. CASE configMap' = configMap
    BY <2>4 DEF CountInv, CountKept
  <2>. QED
    BY <2>1, <2>2, <2>3, <2>4, PassesFlow
<1>. QED
  BY <1>1, <1>2, CountShards, CountWorkloads DEF CountInv

\* MessageShardFilter with Recreate Deployments of one replica: as long as no
\* edit changes spec.consumers, no message is ever handled by two consumers at
\* once. Rollouts, reverted edits of anything else, failed calls, deletion,
\* container restarts and pods created late are all allowed: only a change of
\* the count makes consumers overlap.
THEOREM OneHandlerAtATime ==
    Spec /\ [][CountKept]_vars => []NeverHandledTwice
<1> DEFINE Inv == TypeOK /\ PassInv /\ CountInv /\ UniqueInv
<1>1. Init => PassInv /\ CountInv /\ UniqueInv
  <2> SUFFICES ASSUME Init PROVE PassInv /\ CountInv /\ UniqueInv
    OBVIOUS
  <2>1. PassInv /\ UniqueInv
    BY DEF Init, PassInv, UniqueInv, FinalizeSteps
  <2>2. ShardsInv
    BY DEF Init, ShardsInv
  <2>. QED
    BY <2>1, <2>2 DEF Init, CountInv
<1>2. Inv /\ [Next]_vars /\ [CountKept]_vars => Inv'
  <2> SUFFICES ASSUME Inv, [Next]_vars, [CountKept]_vars PROVE Inv'
    OBVIOUS
  <2>1. CountKept
    BY DEF CountKept, vars, feed
  <2>. QED
    BY <2>1, TypeStep, PassStep, CountStep, UniqueStep
<1>3. Inv => NeverHandledTwice
  <2> SUFFICES ASSUME Inv, NEW hash \in Hashes
               PROVE  Cardinality(Handlers(hash)) <= 1
    BY DEF NeverHandledTwice
  <2> DEFINE N == fl.spec.consumers
  <2>1. N \in Nat \ {0} /\ hash \in Nat
    BY ConstantsAssumption DEF TypeOK, FeedListeners, Specs
  <2>2. ASSUME NEW p \in Handlers(hash)
        PROVE  /\ p \in pods /\ p.uid = 1 /\ p.shard \in Int
               /\ ValidShard(p.shard, N) /\ Owns(hash, p.shard, N)
    <3>1. p \in pods /\ p.count > 0 /\ Owns(hash, p.shard, p.count)
      BY <2>2 DEF Handlers, Consuming
    <3>0. p.shard < N /\ p.uid = 1 /\ p.count \in {0, N}
      BY <3>1, Zenon DEF CountInv
    <3>2. p.shard < N /\ p.uid = 1 /\ p.count = N
      BY <3>0, <3>1
    <3>3. p.shard \in Shards
      BY <3>1 DEF TypeOK, Pods
    <3>4. p.shard \in Int /\ p.shard >= 0
      BY <3>3, ConstantsAssumption DEF Shards
    <3>5. ValidShard(p.shard, N)
      BY <2>1, <3>2, <3>4 DEF ValidShard
    <3>. QED
      BY <3>1, <3>2, <3>4, <3>5
  <2>3. ASSUME NEW p \in Handlers(hash), NEW q \in Handlers(hash) PROVE p = q
    <3>1. p.shard = q.shard
      BY <2>1, <2>2, ExactlyOneOwner
    <3>. QED
      BY <2>2, <3>1 DEF UniqueInv
  <2>4. CASE Handlers(hash) = {}
    BY <2>4, FS_EmptySet
  <2>5. ASSUME NEW p \in Handlers(hash) PROVE Cardinality(Handlers(hash)) <= 1
    <3>1. Handlers(hash) = {p}
      BY <2>3, <2>5
    <3>2. Cardinality(Handlers(hash)) = 1
      BY <3>1, FS_Singleton
    <3>. QED
      BY <3>2
  <2>. QED
    BY <2>4, <2>5
<1>. QED
  BY <1>1, <1>2, <1>3, TypeCorrect, PTL DEF Spec

=============================================================================
