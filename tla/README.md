# EliteEvents in TLA+

A verification development kept beside the code of EliteEvents. EliteEvents subscribes to the
EDDN firehose of *Elite Dangerous* with several sharded ingestion pods, keeps counters and search
indexes in Redis, and serves them from stateless web pods. A Kubernetes operator runs the
ingestion pods from a `FeedListener` resource.

## The system

| Part | State | Operations | Shares state with |
|---|---|---|---|
| `DockingWriter` | data keys (TTL), index members (no TTL) | one pipelined batch per docking | rebuilds, purge, readers |
| `SearchIndexMaintainer`, `SearchIndexMaintenanceService`, `RebuildCommand` | a running rebuild, `_hasSucceeded` | ZSCAN, SCAN, chunked ZADD and ZREM; startup, timer and CronJob schedules | writers, each other, Redis expiry and eviction |
| `SearchIndexPurger`, `PurgeCommand` | none | one DEL of both indexes and the heartbeat | writers, rebuilds |
| `MessageShardFilter` | index and count read at start | which messages a consumer handles | every other consumer |
| `FeedListenerReconciler` | the `FeedListener`, its children, its finalizer | reconcile pass, finalize pass, status | the user, Kubernetes controllers, pods |
| `EddnStreamReceiver`, `StreamHealthTracker`, `StreamHeartbeat`, health checks | socket, silence clock, shared heartbeat | receive, reconnect, record, probe | kubelet, status of the operator |
| `RedisConnectivityMonitor`, `RedisConnectivityState` | last success | ping, liveness verdict | kubelet |
| `EventPublisher`, `EventSubscriber`, `LiveEventHub`, `StreamEndpoint` | ring of recent frames, client channels | publish, subscribe, fan out, ping, shut down | browsers |
| `sse.js`, `ticker.js`, `Home.razor` | EventSource, listeners, timers; rows and status dot | connect, reconnect, swap, trim, clean up | the endpoint, htmx |
| `ReconnectModal.razor.js` (JournalWeb) | dialog, visibility listener | show, retry, resume, reload | the Blazor runtime, the user |
| `DockingReader`, `CachedSystemCount`, `WeeklyExpirationCalculator` | caches and derived values | search, pages, counts | the writers |
| `redis_key_fixer.py` | keys | rename migration | the writers |

What is hard to test in it is that none of these share a lock. A rebuild reads the index and the
data at different moments and writes back later. A reconcile pass works from an object read at its
start, through API calls that can each fail. Containers read their configuration when they start
and not when they are declared. Deletion must order parties that Kubernetes stops asynchronously.
All shards write one heartbeat, and readiness is read from it. The live stream passes a lossy
channel, a retry loop on either end and callbacks that outlive the element they serve.
`PROJECT.json` lists these hazards with the line where each one bites.

## Modules

| Module | Models |
|---|---|
| `SearchIndex` | docking batches, the rebuild in its two incarnations, expiry and eviction |
| `SearchIndexProofs` | type correctness, `RemovalJustified` and `UndisturbedPassIsExact` for every instance |
| `ShardFilter` | `MessageShardFilter`: the valid shards and the slice test |
| `FeedListener` | the controller's reconcile and finalize passes, with the workloads and the purge; composed with `ShardFilter` |
| `FeedListenerProofs` | type correctness and the safety of the deletion, for every instance without late pods |
| `FeedListenerRolloutProofs` | one owner per message; a settled feed is partitioned, and nothing is handled twice while the count is kept, for every instance |
| `StreamReceiver` | the consumers' receive loop, their shared heartbeat and the readiness check, in discrete time |
| `StreamReceiverProofs` | the safety of readiness, for all shards and thresholds |
| `LossyFeed` | abstract: what the hub promises to the browsers |
| `LiveEventHub` | subscription, sequential handler, ring, fan-out over bounded channels, the endpoint's loop, shutdown |
| `LiveEventHubProofs` | the hub implements `LossyFeed` and keeps the newest frame, for every instance |
| `LiveTicker` | the home page composed with the hub: seed, connections, rows |
| `LiveTickerProofs` | the order of the rows, and the refinement under composition, for every instance |
| `SseExtension` | `sse.js` on one card, with the status dot of `ticker.js` |
| `SseExtensionProofs` | its safety, for any number of sources and children and any cap |
| `ReconnectModal` | the dialog of the journal page, with its proofs |
| `MCSearchIndex`, `MCFeedListener`, `MCStreamReceiver`, `MCLiveTicker`, `MCSseExtension` | the instances for TLC: sets of model values, symmetry, hashes |

### SearchIndex

`data` is the set of names with a data key, `index` the members of the two sorted sets. A docking
batch is two steps, `WriteData` and `WriteIndex`, because other clients interleave with a batch and
because it can be cut (`CutBatch`). A rebuild is one `pass` record per rebuilder, "service" (shard
0) and "cronjob". ZSCAN and SCAN promise to return what stays put for the whole scan and nothing
about what comes or goes; `ScanIndex` and `ScanData` visit each name at a moment of its own, which
gives exactly these outcomes. `Due` is the rule that one of the timer and the CronJob owns the
schedule. Names are taken to have no colon, so that `RedisKeys.ExtractName` recovers them.

`gone` and `undisturbed` are history variables. They record what a pass could have seen, and no
action reads them.

### FeedListener

`pc`, `obj`, `next` and `stale` are the running pass: its step, the spec it read at the start, the
shard loop, and whether the object changed since. Each API call is an action. A pass can end early
in three ways. `Failed` is the code's `failed()`: a call for the ConfigMap, a shard or the CronJob
fails, and `markDegraded` records this, writing `observedGeneration` as well. `ApiError` ends a pass
without a word on the resource: a restart of the operator, a failed call elsewhere, or a failed
status write. `Conflict` is the optimistic lock of an `Update`. Since a failed pass also counts as
observed, a feed is `Settled` only when it is not Degraded. `queued` is the work queue, so that a pass that ends without
a requeue and without an event really leaves nothing to wake the feed.

Marked external, and modelled from how the code relies on it: the Deployment controller with
strategy `Recreate` (`RolloutDown`, then `RolloutUp` once the Deployment has no pod left), the
ReplicaSet controller (`CreatePod`), the garbage collector, the kubelet. A pod carries the
`hash` of its template and, separately, the `count` its container read from the ConfigMap when it
started. That these two can differ is the point of several properties. `created` numbers the
Deployments of a shard, as their UIDs do.

The Service and the contents of the status are left out, except `observedGeneration` and the
Degraded condition. Reads return the current state of the API server, while the manager's client
serves lists and gets from an informer cache, which may lag behind. What a lagging list of pods
could do to the deletion is of the kind run `late_pod` shows, a pod that the finalizer does not see;
the properties of the passing run `delete` are shown for reads that are current. The
ConfigMap is abstracted to the shard count and the periodic flag, the indexes to whether they hold
members. One lifetime of the resource is modelled: it is not created again after a delete.

### StreamReceiver

Each shard is in `Receive`, handles a message, or is down. `ReceiveFrame` is the part of the loop up
to `RecordMessage`, which counts a message as heard before the shard filter looks at it;
`RecordAsync` is the rest, handlers and throttled heartbeat. `Reconnect` is the branch of a receive
that timed out. `Stall` is a connection that dies without an error, `Crash` the end of the process,
by a signal or by a frame that does not decompress. A write to Redis may be refused at any time,
and the key may be evicted.

Time advances by `Tick`. Every time the code stores is kept as its age, so that `UtcNow - t > limit`
becomes a comparison of an age, and ages stop at `MaxAge`, past every threshold. `Tick` waits for a
message that has been handled for `MaxHandling`: no call to Redis or to a handler takes for ever.
`failed` and `sinceSign` are history variables.

### LossyFeed, LiveEventHub and LiveTicker

`LossyFeed` is one log in publish order that each client follows from where it attached. It may skip
an event only when `Capacity` newer ones are in the log. `LiveEventHub` refines it with
`attached <- clients`, `next <- position`, `last <- lastRead`; `log`, `position` and `lastRead` are
history variables of the hub, and the rest of its state is the code's. An event is its number in
the order of publication. `OnMessage` calls the handler for one message at a time; `OnEventAsync`
awaits rendering, enqueues in `_recent` and then writes to the channels, so it is four kinds of
steps (`TakeMessage`, `EnqueueRecent` or `DiscardEvent`, `BeginFanOut`, `WriteTo`) between which
clients come and go. The channels and the ring drop their oldest element (`Pushed`). `StopAsync` is
three steps: it cancels, awaits the connect task and disposes, and completes the channels. When the
dispose throws (`DisposeFails`) the channels are never completed, and the subscription is left to
the hub's own `DisposeAsync`.

`LiveTicker` adds one page and the endpoint's loop. `LoadPage` seeds the page from the ring,
`Connect` makes a request. `SendFrame` writes one frame, together with the swap and the trim in a
page that still reads this request. `KeepAlive` is a wait that ends without a frame, by its timeout
or because the hub completed the channel, and `Ping` the comment written then; `pinging` holds the
requests between the two. `LoseConnection` leaves the endpoint serving a page that is gone. The
request ends by a write that fails (`WriteFails`) or by its cancellation (`AbortRequest`), and either
way its subscription is disposed (`EndRequest`). That the page reads from at most one connection is a property of `SseExtension`.

### SseExtension

Every action is one JavaScript task. `ProcessNode` is `htmx:afterProcessNode` for the card and its
children, `TimerFires` the reconnect, `Dropped` and `Refused` are `onerror` for a source that
reconnects by itself and for one that does not, `Opened` is `onopen`, `Message` and `CloseMessage`
are the listeners. `CleanupElement` and `RemoveCard` are the two ways a card leaves: through htmx,
which tells the extension, and behind its back. An EventSource object is reused once it is closed,
which bounds their number without losing a behaviour: what a closed source still holds is not read.

### ReconnectModal

The counters are the calls of `retry()` and `resume()` that wait for the runtime, so that any number
may overlap and be answered in any order. The runtime is marked external. An answer that restores the
circuit and the `close()` after it are two steps (`ResumeSucceeds`, `CloseDialog`). The script has no
branch for a paused circuit, so `Pause` opens the dialog or leaves it, and no property relies on the
dialog being open. The state is small enough that `NeverStranded` is proved, and no run is kept for
it.

## Runs

| Run | Shows |
|---|---|
| `index_races` | `RemovalJustified`: a rebuild removes only names that had no data at some moment after it had found them in the index. `UndisturbedPassIsExact`: a pass nobody disturbs leaves index and data equal. |
| `index_cron` | `Converges`: after the last docking, fault and expiry, index and data are equal for good. Shard 0 rebuilds at start-up and the CronJob afterwards (`Periodic = FALSE`). With the in-process timer (`Periodic = TRUE`) only the safety is covered, by the theorems. |
| `rollout` | `SettledPartition` and `Settles` with an edit at any moment, a failed call recorded as Degraded or not, a container restart and a schedule that comes or goes. |
| `delete` | `FinalizerGuardsChildren`, `PurgeRunsAlone`, `NoOrphanedIndexes` and `DeletionCompletes` with a delete at any moment, an edit, rebuilds in flight and a failed call or drain, with and without `retainIndexesOnDelete`. |
| `receiver` | `HealthyIsJustified` and `NoFalseAlarm`: readiness neither outlives the traffic nor fails without a cause. `StreamRecovers` and `ReadinessReturns`: stalls, refused writes and evictions are recovered from. |
| `live_ticker` | `ImplementsLossyFeed`, and `NewestNeverDropped`: only old frames are lost; with `NewestFirst` for the rows of the page and `StoppedIsUnsubscribed` for the shutdown; `PageCatchesUp`, `GoneIsForgotten` (a request whose browser vanished ends, also on a quiet feed), `HubSubscribes`. |
| `sse` | `LiveSourceIsOwned`, `SwappedOnce`, `DotTellsTheTruth`, `EndedStaysEnded`; a card that stays gets its stream back (`Reconnects`) and one that left does not keep it (`DetachedIsClosed`). |
| `index_live_name` | violated: a rebuild can delete a live name in a second way, which its comment rules out. |
| `overlap` | violated: during a change of the consumer count a message is handled twice. |
| `revert` | violated: an edit reverted quickly leaves a settled feed with a wrong shard count, for good. |
| `late_pod` | violated: a pod created after the pod list was empty undoes the purge. |
| `wedge` | violated: a feed deleted between its finalizer and its ConfigMap stays in Terminating. |

The violated runs are the findings of `PROJECT.json`. Each has a passing neighbour that differs in
one constant and shows what the code does achieve. `SettledPartition` holds when no edit returns to
a configuration the feed has left (`MayRevert = FALSE`; the history variable `past` holds them) and
fails when one may. `NoOrphanedIndexes` holds without late
pods (`MaxLate = 0`) and fails with one. Deletion completes for every feed that has its ConfigMap
and can hang without one. The cause of `overlap` has a second form that the same property covers: a
shard pruned and created again is a new Deployment, and `Recreate` does not make it wait for the
pods of the old one.

Two of the properties are weaker than one might expect, because the code is. `HealthyIsJustified`
speaks of *some* shard: with one key for all shards, a shard that hears nothing is masked by the
others, and no stronger statement is true of the check in `EddnStreamHealthCheck.cs`. `NewestFirst`
admits one repeated row: an event that is in `_recent` and not fanned out yet is in the seed of a
page and again the first frame of its stream.

### Bounds

Dockings (`MaxDocks`), faults (`MaxFaults`), edits, errors, restarts and late pods are bounded by
guards. Expiry, ticks and polls are not. Two names of one kind with chunks of one give a rebuild
with several chunks and a name to tell apart from the one in question; one name of each kind
exercises both halves of a pass. Two consumer counts give growing and shrinking, and hashes 0..5
tell apart all slices of up to three shards. One fault or error suffices
for each violation found, and a second one only repeats the first in another pass, since a pass
keeps no state from the one before it. `index_races` is reduced by symmetry of names and writers;
no liveness property is checked under symmetry.

`receiver` has two shards, so that one writes late what another has overtaken, and the smallest
thresholds at which a throttled write, a busy handler and a reconnect all occur. `live_ticker` has
two requests, so that the endpoint can still serve a lost connection beside the new one, queue and
ring of one, a page of two rows and two events: a queue and the ring drop an element, and the seed,
or a row repeated from it, is trimmed. The theorems cover the
other capacities. `sse` has two sources, so that a second stream could be seen, two children, and
the cap of the code. Deadlock is not checked in `live_ticker` and `sse`: a stopped host whose
requests have ended, and a page whose card is gone, do nothing more.

### Fairness

`SearchIndex`: a sent command is answered or fails, so batches and passes proceed, and the timer,
the retry loop or the CronJob starts the next pass. No fairness is assumed of dockings, faults or
expiry.

`FeedListener`: the work queue serves every request and every `RequeueAfter` fires (controller
runtime); Kubernetes rolls out, starts containers that can start, removes what is terminating, and
runs a Job whose pod can start. No fairness is assumed of the user, ticks, failures or late pods,
nor of a container whose ConfigMap does not exist: the kubelet retries it without ever failing it.

`StreamReceiver`: the receive loop goes on and a stopped container is started again. A listening
shard gets frames, a new socket delivers and Redis accepts a write in the end, each as strong
fairness: the code retries them without limit and relies on nothing else. No fairness is assumed of
stalls, crashes or evictions, which may go on for ever.

`LiveTicker`: the hub's tasks and the endpoint's loops run, and Redis accepts a subscription that is
asked for again and again. A write to a browser that is gone fails in the end when it is repeated
(strong fairness of `WriteFails`): the TCP stack accepts some bytes for a dead peer, but not for
ever. No fairness is assumed of the cancellation, which a proxy may hide. Nobody has to publish, to
open the page or to stop the host.

`SseExtension`: a loaded page is processed and a timer fires; the server accepts a connection in the
end (strong fairness, since each refusal disables it for a while) and keeps sending events on an
open one, which is how a removed card is noticed.

## Proofs

Every invariant that a passing run checks, and the refinement, is also a theorem, in two places
under an assumption on a constant that is named there. `ExactInv`, `DeletionInv` and the invariants
of the rollout were model-checked on small instances before they were proved.

`SearchIndexProofs` proves `TypeOK`, `RemovalJustified` and `UndisturbedPassIsExact` for all sets
of names and writers and all bounds, from `NamesAssumption` and `BoundsAssumption`.

`RemovalJustified` is not inductive: it says nothing of the scan that decides what is removed. The
inductive invariant `IInv` adds, per pass, that the names still to be visited and those seen live
are of the pass's kind, and that during the scan every name of the snapshot is yet to be visited, was
seen live, or was absent at some moment since the snapshot saw it. The step that matters is
`ScanData`: a name of the snapshot that is visited and not found is in `gone` from then on. With the
index read after the data, against the comment at `SearchIndexMaintainer.cs:69-71`, it would not be:
a name docked for the first time during the scan would then be removed. `gone` only grows while the pass runs
(`HistoryGrows`), so other actors cannot disturb this (`OtherPass`), and the pass's own steps keep
it (`OwnPass`).

`UndisturbedPassIsExact` speaks of the end of a pass. `ExactInv` says what holds on the way: while
nobody disturbs it, the names a pass has visited were sorted as Redis holds them now, and from the
comparison on, what it has still to add and to remove is exactly the difference between data and
index, which every chunk shrinks (`OwnExact`).

`FeedListenerProofs` proves `Spec => []TypeOK` from `ConstantsAssumption`, and, assuming also
`MaxLate = 0`, the three safety properties of the deletion: `FinalizerGuardsChildren`,
`PurgeRunsAlone` and `NoOrphanedIndexes`, for every number of consumers, edits, errors and restarts.
The assumption is needed: run `late_pod` shows what a single late pod does. None of the three is
inductive, since they do not say where the reconcile pass stands. `DeletionInv` adds:

- `PassInv`: which pass can run in which state of the object. Past the finalizer step a normal pass
  has an object with a finalizer, and a pass that is not stale works from the current spec.
- `TeardownInv`: what the finalize pass has stopped when it reaches each of its steps.
- `DrainInv`: once the drain Job exists the feed is quiet (no CronJob, Deployment, pod or rebuild
  Job) and no normal pass runs that could end this; a purge that succeeded left the indexes empty.
- `GuardInv`: a feed without finalizer has no children yet, and one that is gone never had any, was
  to be retained, or was drained.

The step that matters is `ListRebuildPods`, which goes on to the drain with every writer gone. That no pod comes
into being afterwards is `NoPodFromNothing`, the only use of `MaxLate = 0`. `PassInv` is inductive
by itself and without that assumption (`PassStep`).

`FeedListenerRolloutProofs` proves two theorems about rollouts, with `NoneAssumption` in addition.
Both hold for every number of consumers, edits, failed calls, restarts and late pods, and through
deletion. `ExactlyOneOwner` is their arithmetic: for every hash and count exactly one valid index
owns the hash. The filter is right when the consumers agree on the count; the rest is whether the
controller makes them agree.

`SettledIsPartitioned` is `SettledPartition` under `MayRevert = FALSE`, which run `revert` shows to
be needed. A settled feed has pods with the right hash; the difficulty is that a container's count
is not what its hash says. The invariant has these parts:

- `HistoryInv`: every hash in the cluster belongs to a configuration the feed has or had. So after
  an edit to a new configuration nothing carries its hash yet. This is where the assumption is used
  (`EditStep`).
- `CurrentInv`: once something carries the hash of the current configuration, the ConfigMap holds
  that configuration and no pass is about to write an older one. A container with that hash has
  therefore read its count.
- `LoopInv`: what the shard loop has done so far, and that a spec that is observed and not Degraded has its
  Deployments.
- `UniqueInv`: a Deployment has at most one pod, which is what `Recreate` is for.

`OneHandlerAtATime` is the complement of run `overlap`: along every behaviour in which no edit
changes the count (`CountKept`) no message ever has two handlers, settled or not, and edits may
return to old configurations. `CountInv` says that everyone works with the one count, and that a
shard has one Deployment for life (`ShardsInv`). A change of the count is thus the only cause of
overlap, including its second form, the shard that is pruned and created again. Both theorems rest
on the Deployment controller as it is modelled here.

`StreamReceiverProofs` proves `TypeOK`, `HealthyIsJustified` and `NoFalseAlarm` from `ReceiverAssumption`. The
invariant `ReceiverInv` adds that nothing a shard or the key remembers is younger than the last sign
of the stream (`SignInv`), that a shard back in `Receive` is less than one write interval behind
(`ThrottleInv`), and that the heartbeat is what some shard remembers writing, unless that shard
restarted or a later write of it was refused (`WriterInv`). The last two give `NoFalseAlarm`.

`LiveEventHubProofs` proves `HubSpec => ImplementsLossyFeed`, `NewestNeverDropped` and that no
subscription outlives a `StopAsync` that got past the unsubscribe, from `HubAssumption`. `HubInv` says that one event is handled at a time, that log,
handler, inbox and `published` are in order, and that each client's queue is a `Window` of the log:
a contiguous stretch, with only overwritten places between it and the client's position. Every step
of the hub is then a step of the feed or a stutter; reading the head of the queue is `Receive` at
the start of the window, which is where the bound on what may be skipped is used. The same bound
gives `NewestNeverDropped`, the safety part of `PageCatchesUp`: an empty window whose end is the
end of the log has nothing overwritten before it, since that would lie a full queue behind.

`LiveTickerProofs` proves that the composition with the page takes only steps of the hub, so that it
too implements `LossyFeed`, and proves `NewestFirst`. `TickerInv` adds to `HubInv` that the ring is
in order and behind everything yet to be handled (`RecentInv`), and that whatever the page's
connection may still deliver goes above its first row, or equals it when it is the seed and is not
yet repeated (`PageInv`). `TickerAssumption` is that the ring is no larger than the page. `TypeOK`
follows with `ShownInv`, in which the placeholder is shown exactly while a rendered page is empty.

`SseExtensionProofs` proves `TypeOK` and the four safety properties of `SseExtension` from `SseAssumption`.
`SseInv` adds that a reconnect is pending only while no source is live, and only one
(`TimerInv`), and that a live source has one listener per child exactly if its retry count is zero
(`ListenerInv`): this is why `onopen` may register the children after a reconnect of its own and
must not after one of the browser's.

`ReconnectModal` proves, without assumptions, that a page whose runtime gave up is never left
without a retry armed or in flight, for any number of overlapping calls.

Liveness (`Converges`, `Settles`, `DeletionCompletes`, `StreamRecovers`, `ReadinessReturns`,
`PageCatchesUp`, `GoneIsForgotten`, `HubSubscribes`, `Reconnects`, `DetachedIsClosed`) is only
model-checked: it rests on fairness, and fairness on `ENABLED`, which is beyond the provers used
here. Nothing is proved of the violated properties beyond the theorems under an assumption above;
a counterexample is all there is to say about them.

## Not modelled

- `FeedListener`: a second lifetime of the resource, in which a drain Job is found by name. It would
  double the state of a run that is near the limit of TLC.
- `RedisConnectivityMonitor`: one timestamp and a threshold. The restart it causes is a `Crash` of
  `StreamReceiver`.
- The conditions of the status other than Degraded, and the phase: computed afresh in every pass and read by no other
  part.
- `DockingWriter`'s counters, scores and TTLs, and the readers: the properties tell apart only
  whether a data key exists. The hazards of the data itself are listed without a property.
- `redis_key_fixer.py`: a stand-alone migration. No other part calls it.
- Pure conversions. What `aspNetDuration` must produce is decided by .NET's configuration binder,
  which is not in the repository.
- `sse.js` beyond one card with static children. A child that htmx processes between a reconnect and
  its `onopen` is registered twice. Processing the card again creates a second source, against the
  comment at `sse.js:171-173`. The page has neither: its card is processed once, and the rows that
  are swapped in carry no SSE attributes.
- `ticker.js` does not listen to the event for `sse-close`, and the ticker does not use that
  attribute; `DotTellsTheTruth` excludes this case.
- How often the endpoint pings. After the hub has completed a channel it does so without a pause
  until the request ends.
- Two web pods. Page and stream may then come from different hubs, and an event between the two
  requests is shown by neither. The comment at `LiveEventHub.cs:26-27` accepts seeds that differ.
- Left out for good: rendering of pages and fragments and the JSON API, which keep no state; the
  rest of the superseded JournalWeb application; the operator's start-up code; generated code and
  manifests.
