---------------------------- MODULE FeedListener ----------------------------
(***************************************************************************)
(* The operator's reconciler for one FeedListener and the cluster it acts  *)
(* on. A reconcile is not atomic: every API call is a step of its own, the *)
(* object it works from was read at the start of the pass, the user edits  *)
(* and deletes meanwhile, and any call can fail, which ends the pass and   *)
(* requeues it.                                                            *)
(*                                                                         *)
(* What Kubernetes does with the children (Recreate rollouts, pods, garbage*)
(* collection, CronJob ticks, Jobs) is modelled from how the code relies   *)
(* on it. The Service is left out: nothing that writes depends on it.      *)
(***************************************************************************)
EXTENDS Integers, FiniteSets, ShardFilter

CONSTANTS
    None,           \* no such object
    Hashes,         \* StableHash values of the messages considered
    MaxConsumers,   \* spec.consumers is in 1..MaxConsumers, 16 in the CRD
    Schedules,      \* whether spec.indexMaintenance.schedule may be set
    Retentions,     \* the values spec.retainIndexesOnDelete may take
    MayRevert,      \* whether an edit may return to a configuration the feed has left
    MayDelete,      \* whether the user may delete the FeedListener
    MaxEdits,       \* bound: edits of the spec
    MaxErrors,      \* bound: failed API calls and operator restarts, failed drains
    MaxRestarts,    \* bound: consumer containers restarted in place
    MaxLate         \* bound: pods a ReplicaSet creates after its Deployment is gone

ASSUME ConstantsAssumption ==
    /\ MaxConsumers \in Nat \ {0}
    /\ Hashes \subseteq Nat
    /\ Schedules \subseteq BOOLEAN
    /\ Schedules # {}
    /\ Retentions \subseteq BOOLEAN
    /\ Retentions # {}
    /\ MayRevert \in BOOLEAN
    /\ MayDelete \in BOOLEAN
    /\ MaxEdits \in Nat
    /\ MaxErrors \in Nat
    /\ MaxRestarts \in Nat
    /\ MaxLate \in Nat

VARIABLES
    fl,             \* the FeedListener in the API server
    queued,         \* a reconcile request waits in the work queue
    observed,       \* status.observedGeneration is the generation of the spec
    degraded,       \* the Degraded condition is set
    pc, obj, next, stale,   \* the running reconcile: its step, the spec it read,
                            \* the next shard, whether fl changed since the read
    configMap, deployments, cronJob,    \* children the controller writes
    created,        \* how often each shard's Deployment was created (its UID)
    rebuildJob,     \* the Job of the CronJob and its pod
    drainJob,       \* the purge Job
    replicaSets, pods,                  \* what Kubernetes makes of the Deployments
    indexed,        \* the Redis indexes hold members
    past,           \* history: the configurations the feed had before an edit
    edits, errors, restarts, late       \* counters for the bounds

feed == <<fl, observed, degraded, past>>
reconcile == <<pc, obj, next, stale>>
children == <<configMap, deployments, cronJob, created>>
jobs == <<rebuildJob, drainJob>>
workloads == <<replicaSets, pods>>
cluster == <<children, jobs, workloads, indexed>>
bounds == <<edits, errors, restarts, late>>
vars == <<feed, queued, reconcile, cluster, bounds>>

Shards == 0..(MaxConsumers - 1)
Specs == [consumers : 1..MaxConsumers, scheduled : Schedules, retain : Retentions]

\* The keys of the ConfigMap that the consumers' behaviour depends on. The
\* config hash on the pod template changes exactly when these change.
ConfigData(spec) == [count |-> spec.consumers, periodic |-> ~spec.scheduled]
Configs == {ConfigData(spec) : spec \in Specs}

FeedListeners == [exists : BOOLEAN, deleting : BOOLEAN, finalizer : BOOLEAN, spec : Specs]
Deployments == [uid : Nat, hash : Configs]
ReplicaSets == [shard : Shards, uid : Nat, hash : Configs]

ASSUME NoneAssumption == None \notin Deployments

\* count is the ShardCount the container read when it started, 0 before that.
Pods == [shard : Shards, uid : Nat, hash : Configs, count : 0..MaxConsumers,
         terminating : BOOLEAN]

NormalSteps == {"finalizer", "configmap", "shards", "status"}
FinalizeSteps == {"cronjob", "consumers", "consumerPods", "rebuildPods", "drain", "release"}

Init ==
    /\ fl \in [exists : {TRUE}, deleting : {FALSE}, finalizer : {FALSE}, spec : Specs]
    /\ observed = FALSE /\ degraded = FALSE
    /\ past = {}
    /\ queued = TRUE
    /\ pc = "idle" /\ obj = None /\ next = 0 /\ stale = FALSE
    /\ configMap = None
    /\ deployments = [s \in Shards |-> None]
    /\ created = [s \in Shards |-> 0]
    /\ cronJob = FALSE
    /\ rebuildJob = "none"
    /\ drainJob = "none"
    /\ replicaSets = {}
    /\ pods = {}
    /\ indexed = FALSE
    /\ edits = 0 /\ errors = 0 /\ restarts = 0 /\ late = 0

-----------------------------------------------------------------------------
(* The user. A change during a pass leaves the pass with a stale object. *)

Edit(spec) ==
    /\ fl.exists
    /\ spec # fl.spec
    /\ MayRevert \/ ConfigData(spec) \notin past \ {ConfigData(fl.spec)}
    /\ past' = past \cup {ConfigData(fl.spec)}
    /\ edits < MaxEdits
    /\ edits' = edits + 1
    /\ fl' = [fl EXCEPT !.spec = spec]
    /\ observed' = FALSE
    /\ queued' = TRUE
    /\ stale' = (pc # "idle")
    /\ UNCHANGED <<degraded, pc, obj, next, cluster, errors, restarts, late>>

\* Without a finalizer the object goes at once.
Delete ==
    /\ MayDelete
    /\ fl.exists /\ ~fl.deleting
    /\ fl' = [fl EXCEPT !.exists = fl.finalizer, !.deleting = fl.finalizer]
    /\ UNCHANGED <<observed, degraded, past>>
    /\ queued' = TRUE
    /\ stale' = (pc # "idle")
    /\ UNCHANGED <<pc, obj, next, cluster, bounds>>

-----------------------------------------------------------------------------
(* Reconcile *)

Goto(step) ==
    /\ pc' = step
    /\ UNCHANGED <<queued, obj, next, stale>>

\* The pass ends; requeue stands for RequeueAfter and for a returned error.
EndPass(requeue) ==
    /\ pc' = "idle" /\ obj' = None /\ next' = 0 /\ stale' = FALSE
    /\ queued' = (queued \/ requeue)

BeginReconcile ==
    /\ pc = "idle"
    /\ queued
    /\ queued' = FALSE
    /\ next' = 0
    /\ stale' = FALSE
    /\ IF fl.exists
       THEN /\ obj' = fl.spec
            /\ pc' = CASE fl.deleting /\ fl.spec.retain -> "release"
                       [] fl.deleting /\ ~fl.spec.retain -> "cronjob"
                       [] ~fl.deleting /\ fl.finalizer -> "configmap"
                       [] ~fl.deleting /\ ~fl.finalizer -> "finalizer"
       ELSE UNCHANGED <<pc, obj>>
    /\ UNCHANGED <<feed, cluster, bounds>>

\* A pass that ends without a word on the resource: the operator restarts, a
\* call outside the children's part fails, or the status write of failed() does.
ApiError ==
    /\ pc # "idle"
    /\ errors < MaxErrors
    /\ errors' = errors + 1
    /\ EndPass(TRUE)
    /\ UNCHANGED <<feed, cluster, edits, restarts, late>>

\* Mutant: the failure is reported as an observed generation and nothing else.
MarkObserved ==
    /\ observed' = (observed \/ ~stale)
    /\ UNCHANGED <<fl, degraded, past>>

\* The failure is recorded together with the generation it was met at. From a
\* stale object the write is a conflict, which is logged and forgotten.
MarkDegraded ==
    /\ observed' = (observed \/ ~stale)
    /\ degraded' = (degraded \/ ~stale)
    /\ UNCHANGED <<fl, past>>

\* A call for the ConfigMap, the Service, a shard or the CronJob fails.
Failed ==
    /\ pc \in {"configmap", "shards"}
    /\ errors < MaxErrors
    /\ errors' = errors + 1
    /\ MarkDegraded
    /\ EndPass(TRUE)
    /\ UNCHANGED <<cluster, edits, restarts, late>>

\* An Update from a stale object is a conflict and ends the pass with an error.
Conflict ==
    /\ pc \in {"finalizer", "release"}
    /\ stale
    /\ EndPass(TRUE)
    /\ UNCHANGED <<feed, cluster, bounds>>

\* Mutant: the pass returns and waits for the event of its own write, which the
\* generation predicate filters.
AddFinalizerAndReturn ==
    /\ pc = "finalizer"
    /\ ~stale
    /\ fl' = [fl EXCEPT !.finalizer = TRUE]
    /\ UNCHANGED <<observed, degraded, past>>
    /\ EndPass(FALSE)
    /\ UNCHANGED <<cluster, bounds>>

\* Mutant: the error of the Update is not returned.
AddFinalizerIgnoringConflict ==
    /\ pc = "finalizer"
    /\ fl' = IF stale THEN fl ELSE [fl EXCEPT !.finalizer = TRUE]
    /\ UNCHANGED <<observed, degraded, past>>
    /\ Goto("configmap")
    /\ UNCHANGED <<cluster, bounds>>

\* On success the pass falls through to the children.
AddFinalizer ==
    /\ pc = "finalizer"
    /\ ~stale
    /\ fl' = [fl EXCEPT !.finalizer = TRUE]
    /\ UNCHANGED <<observed, degraded, past>>
    /\ Goto("configmap")
    /\ UNCHANGED <<cluster, bounds>>

ReconcileConfigMap ==
    /\ pc = "configmap"
    /\ configMap' = ConfigData(obj)
    /\ Goto("shards")
    /\ UNCHANGED <<feed, deployments, cronJob, created, jobs, workloads, indexed,
                   bounds>>

\* Mutant: a change of the count does not change the hash.
ReconcileShardHashWithoutCount ==
    /\ pc = "shards"
    /\ next < obj.consumers
    /\ LET uid == IF deployments[next] = None THEN created[next] + 1
                                              ELSE deployments[next].uid
       IN /\ deployments' = [deployments EXCEPT
                                 ![next] = [uid |-> uid, hash |-> ConfigData([obj EXCEPT !.consumers = 1])]]
          /\ created' = [created EXCEPT ![next] = uid]
    /\ next' = next + 1
    /\ UNCHANGED <<feed, queued, pc, obj, stale, configMap, cronJob, jobs,
                   workloads, indexed, bounds>>

\* Mutant: the loop runs one shard too far.
ReconcileShardOneTooMany ==
    /\ pc = "shards"
    /\ next <= obj.consumers
    /\ LET uid == IF deployments[next] = None THEN created[next] + 1
                                              ELSE deployments[next].uid
       IN /\ deployments' = [deployments EXCEPT
                                 ![next] = [uid |-> uid, hash |-> ConfigData(obj)]]
          /\ created' = [created EXCEPT ![next] = uid]
    /\ next' = next + 1
    /\ UNCHANGED <<feed, queued, pc, obj, stale, configMap, cronJob, jobs,
                   workloads, indexed, bounds>>

\* CreateOrUpdate of one shard's Deployment, with the hash of this pass's data.
ReconcileShard ==
    /\ pc = "shards"
    /\ next < obj.consumers
    /\ LET uid == IF deployments[next] = None THEN created[next] + 1
                                              ELSE deployments[next].uid
       IN /\ deployments' = [deployments EXCEPT
                                 ![next] = [uid |-> uid, hash |-> ConfigData(obj)]]
          /\ created' = [created EXCEPT ![next] = uid]
    /\ next' = next + 1
    /\ UNCHANGED <<feed, queued, pc, obj, stale, configMap, cronJob, jobs,
                   workloads, indexed, bounds>>

StaleShards == {s \in Shards : deployments[s] # None /\ s >= obj.consumers}

DeleteDeployment(s) ==
    /\ deployments' = [deployments EXCEPT ![s] = None]
    /\ UNCHANGED <<configMap, cronJob, created>>

PruneStaleShard(s) ==
    /\ pc = "shards"
    /\ next = obj.consumers
    /\ s \in StaleShards
    /\ DeleteDeployment(s)
    /\ UNCHANGED <<feed, queued, reconcile, jobs, workloads, indexed, bounds>>

\* With the stale shards gone, the CronJob is created when there is a schedule
\* and deleted when not.
ReconcileMaintenance ==
    /\ pc = "shards"
    /\ next = obj.consumers
    /\ StaleShards = {}
    /\ cronJob' = obj.scheduled
    /\ Goto("status")
    /\ UNCHANGED <<feed, configMap, deployments, created, jobs, workloads,
                   indexed, bounds>>

\* The status write, which also takes the Degraded condition away, succeeds and
\* asks for the next poll, or conflicts and retries.
ReconcileStatus ==
    /\ pc = "status"
    /\ observed' = (observed \/ ~stale)
    /\ degraded' = (degraded /\ stale)
    /\ EndPass(TRUE)
    /\ UNCHANGED <<fl, past, cluster, bounds>>

-----------------------------------------------------------------------------
(* finalize: stop the writers, drain, release *)

StopCronJob ==
    /\ pc = "cronjob"
    /\ cronJob' = FALSE
    /\ Goto("consumers")
    /\ UNCHANGED <<feed, configMap, deployments, created, jobs, workloads,
                   indexed, bounds>>

StopConsumer(s) ==
    /\ pc = "consumers"
    /\ deployments[s] # None
    /\ DeleteDeployment(s)
    /\ UNCHANGED <<feed, queued, reconcile, jobs, workloads, indexed, bounds>>

\* A deleted Job starts no pod, stops the one it runs and keeps the labels on
\* it until it is gone.
DeletedJob(job) ==
    CASE job = "pending" -> "none"
      [] job = "running" -> "stopping"
      [] job = "complete" -> "removing"
      [] OTHER -> job

StopRebuilds ==
    /\ pc = "consumers"
    /\ \A s \in Shards : deployments[s] = None
    /\ rebuildJob' = DeletedJob(rebuildJob)
    /\ Goto("consumerPods")
    /\ UNCHANGED <<feed, children, drainJob, workloads, indexed, bounds>>

RebuildPodExists == rebuildJob \in {"running", "complete", "stopping", "removing"}

\* Mutant: pods that are terminating are not waited for.
ListConsumerPodsNotTerminating ==
    /\ pc = "consumerPods"
    /\ IF \A p \in pods : p.terminating THEN Goto("rebuildPods") ELSE EndPass(TRUE)
    /\ UNCHANGED <<feed, cluster, bounds>>

\* Mutant: the drain pod carries the labels of the consumers.
ListConsumerPodsAndDrain ==
    /\ pc = "consumerPods"
    /\ IF pods = {} /\ drainJob = "none" THEN Goto("rebuildPods") ELSE EndPass(TRUE)
    /\ UNCHANGED <<feed, cluster, bounds>>

\* Pods that are still listed, Terminating ones included, are waited for.
ListConsumerPods ==
    /\ pc = "consumerPods"
    /\ IF pods = {} THEN Goto("rebuildPods") ELSE EndPass(TRUE)
    /\ UNCHANGED <<feed, cluster, bounds>>

ListRebuildPods ==
    /\ pc = "rebuildPods"
    /\ IF RebuildPodExists THEN EndPass(TRUE) ELSE Goto("drain")
    /\ UNCHANGED <<feed, cluster, bounds>>

\* Mutant: an existing Job is taken for a finished one.
JobExists(job) == job # "none"

\* Succeeded, or failed for good.
JobFinished(job) == job \in {"succeeded", "failed"}

\* The Job is created once and never updated.
EnsuredJob(job) == IF job = "none" THEN "active" ELSE job

\* A finished Job, failed or not, releases; an unfinished one is polled.
EnsureDrainJob ==
    /\ pc = "drain"
    /\ drainJob' = EnsuredJob(drainJob)
    /\ IF JobFinished(drainJob) THEN Goto("release") ELSE EndPass(TRUE)
    /\ UNCHANGED <<feed, children, rebuildJob, workloads, indexed, bounds>>

ReleaseFinalizer ==
    /\ pc = "release"
    /\ ~stale
    /\ fl' = [fl EXCEPT !.exists = FALSE, !.deleting = FALSE, !.finalizer = FALSE]
    /\ UNCHANGED <<observed, degraded, past>>
    /\ EndPass(FALSE)
    /\ UNCHANGED <<cluster, bounds>>

-----------------------------------------------------------------------------
(* Kubernetes *)

Terminated(P) == {IF p \in P THEN [p EXCEPT !.terminating = TRUE] ELSE p : p \in pods}
PodsOf(shard, uid) == {p \in pods : p.shard = shard /\ p.uid = uid}
Current(x) == deployments[x.shard] # None /\ deployments[x.shard].uid = x.uid

\* Recreate: the old ReplicaSet is scaled down first, ...
RolloutDown(r) ==
    /\ r \in replicaSets
    /\ Current(r)
    /\ r.hash # deployments[r.shard].hash
    /\ replicaSets' = replicaSets \ {r}
    /\ pods' = Terminated(PodsOf(r.shard, r.uid))
    /\ UNCHANGED <<feed, queued, reconcile, children, jobs, indexed, bounds>>

\* ... and the new one is created when this Deployment has no pod left.
RolloutUp(s) ==
    LET d == deployments[s] IN
    /\ d # None
    /\ ~ \E r \in replicaSets : r.shard = s /\ r.uid = d.uid
    /\ PodsOf(s, d.uid) = {}
    /\ replicaSets' = replicaSets \cup {[shard |-> s, uid |-> d.uid, hash |-> d.hash]}
    /\ UNCHANGED <<feed, queued, reconcile, children, jobs, pods, indexed, bounds>>

\* The ReplicaSet controller does not look at the Deployment, so until the
\* garbage collector arrives it may still create the pod.
CreatePod(r) ==
    /\ r \in replicaSets
    /\ PodsOf(r.shard, r.uid) = {}
    /\ Current(r) \/ late < MaxLate
    /\ late' = IF Current(r) THEN late ELSE late + 1
    /\ pods' = pods \cup {[shard |-> r.shard, uid |-> r.uid, hash |-> r.hash,
                           count |-> 0, terminating |-> FALSE]}
    /\ UNCHANGED <<feed, queued, reconcile, children, jobs, replicaSets, indexed,
                   edits, errors, restarts>>

CollectReplicaSet(r) ==
    /\ r \in replicaSets
    /\ ~Current(r)
    /\ replicaSets' = replicaSets \ {r}
    /\ pods' = Terminated(PodsOf(r.shard, r.uid))
    /\ UNCHANGED <<feed, queued, reconcile, children, jobs, indexed, bounds>>

\* The environment is read from the ConfigMap at every container start. With
\* an index outside the count the process throws and is started again later.
StartContainer(p) ==
    /\ p \in pods
    /\ p.count = 0 /\ ~p.terminating
    /\ configMap # None
    /\ ValidShard(p.shard, configMap.count)
    /\ pods' = (pods \ {p}) \cup {[p EXCEPT !.count = configMap.count]}
    /\ UNCHANGED <<feed, queued, reconcile, children, jobs, replicaSets, indexed,
                   bounds>>

\* A failed liveness probe or a crash restarts the container, not the pod.
RestartContainer(p) ==
    /\ p \in pods
    /\ p.count > 0 /\ ~p.terminating
    /\ restarts < MaxRestarts
    /\ restarts' = restarts + 1
    /\ pods' = (pods \ {p}) \cup {[p EXCEPT !.count = 0]}
    /\ UNCHANGED <<feed, queued, reconcile, children, jobs, replicaSets, indexed,
                   edits, errors, late>>

PodGone(p) ==
    /\ p \in pods
    /\ p.terminating
    /\ pods' = pods \ {p}
    /\ UNCHANGED <<feed, queued, reconcile, children, jobs, replicaSets, indexed,
                   bounds>>

\* With ConcurrencyPolicy Forbid there is one rebuild Job at a time.
Tick ==
    /\ cronJob
    /\ rebuildJob = "none"
    /\ rebuildJob' = "pending"
    /\ UNCHANGED <<feed, queued, reconcile, children, drainJob, workloads,
                   indexed, bounds>>

StartRebuildPod ==
    /\ rebuildJob = "pending"
    /\ rebuildJob' = "running"
    /\ UNCHANGED <<feed, queued, reconcile, children, drainJob, workloads,
                   indexed, bounds>>

RebuildEnds ==
    /\ rebuildJob = "running"
    /\ rebuildJob' = "complete"
    /\ UNCHANGED <<feed, queued, reconcile, children, drainJob, workloads,
                   indexed, bounds>>

\* The Job leaves the CronJob's history.
ForgetRebuild ==
    /\ rebuildJob \in {"complete", "stopping", "removing"}
    /\ rebuildJob' = "none"
    /\ UNCHANGED <<feed, queued, reconcile, children, drainJob, workloads,
                   indexed, bounds>>

\* The Job's owner is gone.
CollectRebuild ==
    /\ ~cronJob
    /\ rebuildJob \in {"pending", "running", "complete"}
    /\ rebuildJob' = DeletedJob(rebuildJob)
    /\ UNCHANGED <<feed, queued, reconcile, children, drainJob, workloads,
                   indexed, bounds>>

\* The children's owner is gone.
CollectChildren ==
    /\ ~fl.exists
    /\ <<configMap, deployments, cronJob>> # <<None, [s \in Shards |-> None], FALSE>>
    /\ configMap' = None
    /\ deployments' = [s \in Shards |-> None]
    /\ cronJob' = FALSE
    /\ UNCHANGED <<feed, queued, reconcile, created, jobs, workloads, indexed,
                   bounds>>

-----------------------------------------------------------------------------
(* Redis *)

\* A consumer that has started handles messages until its pod is gone: a
\* terminating one still holds its socket and still writes.
Consuming(p) == p.count > 0

WriteMembers ==
    /\ (\E p \in pods : Consuming(p)) \/ rebuildJob \in {"running", "stopping"}
    /\ ~indexed
    /\ indexed' = TRUE
    /\ UNCHANGED <<feed, queued, reconcile, children, jobs, workloads, bounds>>

\* The drain pod reads the same ConfigMap as the consumers.
DrainRuns ==
    /\ drainJob = "active"
    /\ configMap # None
    /\ indexed' = FALSE
    /\ drainJob' = "succeeded"
    /\ UNCHANGED <<feed, queued, reconcile, children, rebuildJob, workloads,
                   bounds>>

DrainFails ==
    /\ drainJob = "active"
    /\ configMap # None
    /\ errors < MaxErrors
    /\ errors' = errors + 1
    /\ drainJob' = "failed"
    /\ UNCHANGED <<feed, queued, reconcile, children, rebuildJob, workloads,
                   indexed, edits, restarts, late>>

-----------------------------------------------------------------------------
(* Specification *)

NormalPass ==
    \/ AddFinalizer
    \/ ReconcileConfigMap
    \/ ReconcileShard
    \/ \E s \in Shards : PruneStaleShard(s)
    \/ ReconcileMaintenance
    \/ ReconcileStatus

FinalizePass ==
    \/ StopCronJob
    \/ \E s \in Shards : StopConsumer(s)
    \/ StopRebuilds
    \/ ListConsumerPods
    \/ ListRebuildPods
    \/ EnsureDrainJob
    \/ ReleaseFinalizer

Controller == BeginReconcile \/ Conflict \/ NormalPass \/ FinalizePass

Rebuilds == Tick \/ StartRebuildPod \/ RebuildEnds \/ ForgetRebuild \/ CollectRebuild

Next ==
    \/ \E spec \in Specs : Edit(spec)
    \/ Delete
    \/ Controller
    \/ ApiError
    \/ Failed
    \/ \E r \in replicaSets : RolloutDown(r) \/ CreatePod(r) \/ CollectReplicaSet(r)
    \/ \E s \in Shards : RolloutUp(s)
    \/ \E p \in pods : StartContainer(p) \/ RestartContainer(p) \/ PodGone(p)
    \/ Rebuilds
    \/ CollectChildren
    \/ WriteMembers
    \/ DrainRuns
    \/ DrainFails

Spec == Init /\ [][Next]_vars

\* The work queue serves what is queued and every requeue fires; Kubernetes
\* rolls out, starts containers, removes what is terminating and runs a Job
\* whose pod can start. Users, ticks, failures and late pods owe nothing.
Fairness ==
    /\ WF_vars(Controller)
    /\ WF_vars(\E r \in replicaSets : RolloutDown(r))
    /\ WF_vars(\E s \in Shards : RolloutUp(s))
    /\ WF_vars(\E r \in replicaSets : Current(r) /\ CreatePod(r))
    /\ WF_vars(\E r \in replicaSets : CollectReplicaSet(r))
    /\ WF_vars(\E p \in pods : StartContainer(p))
    /\ WF_vars(\E p \in pods : PodGone(p))
    /\ WF_vars(ForgetRebuild)
    /\ WF_vars(DrainRuns)

FairSpec == Spec /\ Fairness

-----------------------------------------------------------------------------
(* Properties *)

\* Every variable has its type, and the shard loop stays within the partition
\* of the spec it read.
TypeOK ==
    /\ fl \in FeedListeners
    /\ observed \in BOOLEAN /\ degraded \in BOOLEAN
    /\ past \subseteq Configs
    /\ queued \in BOOLEAN
    /\ pc \in {"idle"} \cup NormalSteps \cup FinalizeSteps
    /\ IF pc = "idle" THEN obj = None /\ next = 0
                      ELSE obj \in Specs /\ next \in 0..obj.consumers
    /\ stale \in BOOLEAN
    /\ configMap \in Configs \cup {None}
    /\ deployments \in [Shards -> Deployments \cup {None}]
    /\ cronJob \in BOOLEAN
    /\ created \in [Shards -> Nat]
    /\ rebuildJob \in {"none", "pending", "running", "complete", "stopping", "removing"}
    /\ drainJob \in {"none", "active", "succeeded", "failed"}
    /\ replicaSets \subseteq ReplicaSets
    /\ pods \subseteq Pods
    /\ indexed \in BOOLEAN
    /\ <<edits, errors, restarts, late>> \in Nat \X Nat \X Nat \X Nat

\* The consumers that handle a message.
Handlers(hash) == {p \in pods : Consuming(p) /\ Owns(hash, p.shard, p.count)}

\* What the cluster reports as finished: the spec is observed and the feed not
\* Degraded, every Deployment is rolled out, every pod is up and none is on its
\* way out. The observed generation alone does not do: a failed pass sets it too.
Settled ==
    /\ fl.exists /\ ~fl.deleting /\ observed /\ ~degraded
    /\ \A s \in Shards : deployments[s] # None =>
            /\ [shard |-> s, uid |-> deployments[s].uid, hash |-> deployments[s].hash]
                    \in replicaSets
            /\ \E p \in PodsOf(s, deployments[s].uid) : p.hash = deployments[s].hash
    /\ \A p \in pods : Consuming(p) /\ ~p.terminating /\ Current(p)

\* The controller's core invariant: when a rollout is reported finished, every
\* message is handled by exactly one consumer. It relates the count each
\* container read at its own start to the shards that exist now, also when
\* passes failed half way and were recorded as Degraded in between.
SettledPartition ==
    Settled => \A hash \in Hashes : Cardinality(Handlers(hash)) = 1

\* Edits, conflicts, failed calls and restarts delay a feed but do not stop it:
\* once they cease it settles for good, with no further event to wake it up.
Settles == <>[]Settled

\* The finalizer is in place before any child exists: a feed that no longer
\* has one, or never had, and was not drained, left nothing behind, even when
\* the delete landed in the middle of the first pass.
FinalizerGuardsChildren ==
    (~fl.finalizer /\ drainJob = "none" /\ ~fl.spec.retain) =>
        /\ configMap = None
        /\ \A s \in Shards : deployments[s] = None
        /\ ~cronJob
        /\ pods = {}
        /\ ~indexed

\* The purge runs alone: no consumer pod and no rebuild pod, not even a
\* terminating one, can put members back while the drain Job is active.
PurgeRunsAlone ==
    drainJob = "active" => pods = {} /\ ~RebuildPodExists

\* A deleted feed leaves no index members behind unless the drain failed.
NoOrphanedIndexes ==
    (~fl.exists /\ ~fl.spec.retain /\ drainJob # "failed") => ~indexed

\* A deletion completes once the feed has a ConfigMap, whether the drain
\* succeeds or fails.
DeletionCompletes == (fl.deleting /\ configMap # None) ~> ~fl.exists

\* finalizer.go:104-106: the finalizer never wedges the resource in Terminating.
DeletionNeverWedges == fl.deleting ~> ~fl.exists

\* MessageShardFilter.cs:21-22: no message is handled twice.
NeverHandledTwice == \A hash \in Hashes : Cardinality(Handlers(hash)) <= 1

=============================================================================
