----------------------------- MODULE SearchIndex -----------------------------
(***************************************************************************)
(* The two search indexes in Redis, index:systems and index:carriers.      *)
(* They carry no TTL, so they are kept right by three parties that share   *)
(* no lock:                                                                *)
(*                                                                         *)
(*   - the shards' DockingWriter, whose pipelined batch writes the data    *)
(*     key of a name and then ZADDs the name (a batch is not a             *)
(*     transaction: other clients interleave, and it can be cut);          *)
(*   - SearchIndexMaintainer.RebuildAsync, which reads the index with      *)
(*     ZSCAN, reads the data keys with SCAN, and then issues chunked ZADDs *)
(*     and ZREMs. It is run in-process by shard 0 and by the CronJob;      *)
(*   - Redis itself, which expires data keys (30 day TTL) and, under       *)
(*     allkeys-lru, evicts any key, an index included.                     *)
(***************************************************************************)
EXTENDS Integers, FiniteSets

CONSTANTS
    Systems, Carriers,  \* names that have a data key and an index each
    Writers,            \* ingestion shards
    None,               \* no docking in flight
    Periodic,           \* IndexMaintenance__Periodic: shard 0 owns the schedule
    ChunkSize,          \* WriteChunkSize, 500 in the code
    MaxDocks,           \* bound: docking messages handled
    MaxFaults           \* bound: evictions of an index, failed commands, crashes

Names == Systems \cup Carriers

ASSUME NamesAssumption ==
    /\ Systems \cap Carriers = {}
    /\ None \notin Names

ASSUME BoundsAssumption ==
    /\ Periodic \in BOOLEAN
    /\ ChunkSize \in Nat \ {0}
    /\ MaxDocks \in Nat
    /\ MaxFaults \in Nat

VARIABLES
    data,           \* names whose system:N:stations / carrier:N:days key exists
    index,          \* members of the two sorted sets
    batch,          \* batch[w]: name whose data is written and whose ZADD is not
    pass,           \* pass[r]: the local state of a running RebuildAsync
    hasSucceeded,   \* SearchIndexMaintenanceService._hasSucceeded
    docks, faults,  \* counters for the bounds
    gone,           \* history: names without data after pass r had seen them indexed
    undisturbed     \* history: nobody else touched pass r's keys since it began

redis == <<data, index>>
counters == <<docks, faults>>
vars == <<redis, batch, pass, hasSucceeded, counters, gone, undisturbed>>

Rebuilders == {"service", "cronjob"}
Kinds == {"system", "carrier"}
Of(kind) == IF kind = "system" THEN Systems ELSE Carriers

Passes ==
    [pc : {"idle", "snapshot", "scan", "add", "remove"}, kind : Kinds,
     todo : SUBSET Names, indexed : SUBSET Names, live : SUBSET Names,
     toAdd : SUBSET Names, toRemove : SUBSET Names]

Idle ==
    [pc |-> "idle", kind |-> "system", todo |-> {}, indexed |-> {},
     live |-> {}, toAdd |-> {}, toRemove |-> {}]

\* RebuildSystemIndexAsync and RebuildCarrierIndexAsync differ in the keys only.
Snapshotting(kind) ==
    [pc |-> "snapshot", kind |-> kind, todo |-> Of(kind), indexed |-> {},
     live |-> {}, toAdd |-> {}, toRemove |-> {}]

-----------------------------------------------------------------------------
(* The docking writer *)

\* The first commands of the batch leave the data key in place, TTL refreshed.
WriteData(w, n) ==
    /\ batch[w] = None
    /\ docks < MaxDocks
    /\ docks' = docks + 1
    /\ data' = data \cup {n}
    /\ batch' = [batch EXCEPT ![w] = n]
    /\ UNCHANGED <<index, pass, hasSucceeded, faults>>

\* Mutant: the ZADD is issued whether or not a name was docked.
WriteIndexUnguarded(w) ==
    /\ index' = index \cup {batch[w]}
    /\ batch' = [batch EXCEPT ![w] = None]
    /\ UNCHANGED <<data, pass, hasSucceeded, counters>>

\* The last command of the batch makes the name searchable.
WriteIndex(w) ==
    /\ batch[w] # None
    /\ index' = index \cup {batch[w]}
    /\ batch' = [batch EXCEPT ![w] = None]
    /\ UNCHANGED <<data, pass, hasSucceeded, counters>>

\* The connection or the pod dies with the tail of the batch unsent. The
\* receiver logs the failure and drops the message.
CutBatch(w) ==
    /\ batch[w] # None
    /\ faults < MaxFaults
    /\ faults' = faults + 1
    /\ batch' = [batch EXCEPT ![w] = None]
    /\ UNCHANGED <<redis, pass, hasSucceeded, docks>>

-----------------------------------------------------------------------------
(* The rebuild *)

Becomes(r, p) == pass' = [pass EXCEPT ![r] = p]

\* Mutant: after the first success nobody owns the schedule.
DueOnce(r) == r = "service" /\ ~hasSucceeded

\* Shard 0 rebuilds until a first success and then only if it owns the
\* schedule; the CronJob exists exactly when it does not.
Due(r) ==
    IF r = "service" THEN ~hasSucceeded \/ Periodic ELSE ~Periodic

StartPass(r) ==
    /\ pass[r].pc = "idle"
    /\ Due(r)
    /\ Becomes(r, Snapshotting("system"))
    /\ UNCHANGED <<redis, batch, hasSucceeded, counters>>

\* ZSCAN visits every member that stays; one that comes or goes while the
\* cursor moves is seen or not. Visiting each name at its own moment gives
\* exactly these outcomes.
ScanIndex(r, n) ==
    /\ pass[r].pc = "snapshot"
    /\ n \in pass[r].todo
    /\ Becomes(r, [pass[r] EXCEPT !.todo = @ \ {n},
                                   !.indexed = @ \cup ({n} \cap index)])
    /\ UNCHANGED <<redis, batch, hasSucceeded, counters>>

SnapshotTaken(r) ==
    /\ pass[r].pc = "snapshot"
    /\ pass[r].todo = {}
    /\ Becomes(r, [pass[r] EXCEPT !.pc = "scan", !.todo = Of(pass[r].kind)])
    /\ UNCHANGED <<redis, batch, hasSucceeded, counters>>

\* SCAN over the data keys, with the same guarantee.
ScanData(r, n) ==
    /\ pass[r].pc = "scan"
    /\ n \in pass[r].todo
    /\ Becomes(r, [pass[r] EXCEPT !.todo = @ \ {n},
                                   !.live = @ \cup ({n} \cap data)])
    /\ UNCHANGED <<redis, batch, hasSucceeded, counters>>

\* Mutant: the index is read after the data and not before.
ComputeDiffOfLaterSnapshot(r) ==
    /\ pass[r].pc = "scan"
    /\ pass[r].todo = {}
    /\ LET indexed == index \cap Of(pass[r].kind) IN
       Becomes(r, [pass[r] EXCEPT !.pc = "add",
                                   !.toAdd = pass[r].live \ indexed,
                                   !.toRemove = indexed \ pass[r].live,
                                   !.indexed = {},
                                   !.live = {}])
    /\ UNCHANGED <<redis, batch, hasSucceeded, counters>>

ComputeDiff(r) ==
    /\ pass[r].pc = "scan"
    /\ pass[r].todo = {}
    /\ Becomes(r, [pass[r] EXCEPT !.pc = "add",
                                   !.toAdd = pass[r].live \ pass[r].indexed,
                                   !.toRemove = pass[r].indexed \ pass[r].live,
                                   !.indexed = {},
                                   !.live = {}])
    /\ UNCHANGED <<redis, batch, hasSucceeded, counters>>

\* Enumerable.Chunk: full chunks, then what is left.
Chunks(S) ==
    {c \in SUBSET S : \/ Cardinality(c) = ChunkSize
                      \/ c = S /\ Cardinality(S) < ChunkSize}

AddChunk(r) ==
    /\ pass[r].pc = "add"
    /\ pass[r].toAdd # {}
    /\ \E c \in Chunks(pass[r].toAdd) :
        /\ index' = index \cup c
        /\ Becomes(r, [pass[r] EXCEPT !.toAdd = @ \ c])
    /\ UNCHANGED <<data, batch, hasSucceeded, counters>>

\* Mutant: the chunk loop stops before its last chunk.
AddsCutShort(r) ==
    /\ pass[r].pc = "add"
    /\ Becomes(r, [pass[r] EXCEPT !.pc = "remove"])
    /\ UNCHANGED <<redis, batch, hasSucceeded, counters>>

AddsDone(r) ==
    /\ pass[r].pc = "add"
    /\ pass[r].toAdd = {}
    /\ Becomes(r, [pass[r] EXCEPT !.pc = "remove"])
    /\ UNCHANGED <<redis, batch, hasSucceeded, counters>>

RemoveChunk(r) ==
    /\ pass[r].pc = "remove"
    /\ pass[r].toRemove # {}
    /\ \E c \in Chunks(pass[r].toRemove) :
        /\ index' = index \ c
        /\ Becomes(r, [pass[r] EXCEPT !.toRemove = @ \ c])
    /\ UNCHANGED <<data, batch, hasSucceeded, counters>>

\* Systems first, then carriers; the pass has succeeded when both have.
RemovesDone(r) ==
    /\ pass[r].pc = "remove"
    /\ pass[r].toRemove = {}
    /\ IF pass[r].kind = "system"
       THEN /\ Becomes(r, Snapshotting("carrier"))
            /\ UNCHANGED hasSucceeded
       ELSE /\ Becomes(r, Idle)
            /\ hasSucceeded' = (hasSucceeded \/ r = "service")
    /\ UNCHANGED <<redis, batch, counters>>

\* A command throws: the pass is abandoned where it stands and retried later.
PassFails(r) ==
    /\ pass[r].pc # "idle"
    /\ faults < MaxFaults
    /\ faults' = faults + 1
    /\ Becomes(r, Idle)
    /\ UNCHANGED <<redis, batch, hasSucceeded, docks>>

\* Shard 0's pod restarts: its pass dies with it and the flag starts over.
ServiceRestarts ==
    /\ faults < MaxFaults
    /\ faults' = faults + 1
    /\ Becomes("service", Idle)
    /\ hasSucceeded' = FALSE
    /\ UNCHANGED <<redis, batch, docks>>

-----------------------------------------------------------------------------
(* Redis *)

\* A data key runs out of TTL or is evicted.
Expire(n) ==
    /\ n \in data
    /\ data' = data \ {n}
    /\ UNCHANGED <<index, batch, pass, hasSucceeded, counters>>

\* allkeys-lru evicts a whole index.
EvictIndex(kind) ==
    /\ faults < MaxFaults
    /\ faults' = faults + 1
    /\ index' = index \ Of(kind)
    /\ UNCHANGED <<data, batch, pass, hasSucceeded, docks>>

-----------------------------------------------------------------------------
(* History, specification *)

Begins(r) == pass'[r].pc = "snapshot" /\ pass[r].pc # "snapshot"
OwnStep(r) == pass'[r] # pass[r]

\* What pass r could have observed since it began; not read by any action.
History ==
    /\ gone' = [r \in Rebuilders |->
                    IF pass'[r].pc = "idle" THEN {}
                    ELSE (pass'[r].indexed \ data') \cup (IF Begins(r) THEN {} ELSE gone[r])]
    /\ undisturbed' = [r \in Rebuilders |->
                    /\ pass'[r].pc # "idle"
                    /\ \/ Begins(r)
                       \/ undisturbed[r] /\ (OwnStep(r) \/ UNCHANGED redis)]

\* A cluster taken at any moment: data written before the index existed, names
\* whose data expired since.
Init ==
    /\ data \in SUBSET Names
    /\ index \in SUBSET Names
    /\ batch = [w \in Writers |-> None]
    /\ pass = [r \in Rebuilders |-> Idle]
    /\ hasSucceeded = FALSE
    /\ docks = 0
    /\ faults = 0
    /\ gone = [r \in Rebuilders |-> {}]
    /\ undisturbed = [r \in Rebuilders |-> FALSE]

WriterStep(w) == WriteIndex(w) \/ CutBatch(w) \/ \E n \in Names : WriteData(w, n)

PassStep(r) ==
    \/ \E n \in Names : ScanIndex(r, n) \/ ScanData(r, n)
    \/ SnapshotTaken(r)
    \/ ComputeDiff(r)
    \/ AddChunk(r)
    \/ AddsDone(r)
    \/ RemoveChunk(r)
    \/ RemovesDone(r)

Step ==
    \/ \E w \in Writers : WriterStep(w)
    \/ \E r \in Rebuilders : StartPass(r) \/ PassStep(r) \/ PassFails(r)
    \/ ServiceRestarts
    \/ \E n \in Names : Expire(n)
    \/ \E kind \in Kinds : EvictIndex(kind)

Next == Step /\ History

Spec == Init /\ [][Next]_vars

\* A started batch reaches Redis or fails; the timer, the retry loop or the
\* CronJob starts passes; a running pass gets its replies.
Fairness ==
    /\ \A w \in Writers : WF_vars(WriteIndex(w) /\ History)
    /\ \A r \in Rebuilders : WF_vars((StartPass(r) \/ PassStep(r)) /\ History)

FairSpec == Spec /\ Fairness

-----------------------------------------------------------------------------
(* Properties *)

\* Every variable has its type.
TypeOK ==
    /\ data \in SUBSET Names
    /\ index \in SUBSET Names
    /\ batch \in [Writers -> Names \cup {None}]
    /\ pass \in [Rebuilders -> Passes]
    /\ hasSucceeded \in BOOLEAN
    /\ docks \in Nat
    /\ faults \in Nat
    /\ gone \in [Rebuilders -> SUBSET Names]
    /\ undisturbed \in [Rebuilders -> BOOLEAN]

\* What RebuildAsync does guarantee: whatever the writers, the other rebuild
\* and Redis do meanwhile, a name it is about to ZREM had no data key at some
\* moment after this very pass had found it in the index. A name that stays live
\* is never removed, nor is one that is docked for the first time during the scan.
RemovalJustified ==
    \A r \in Rebuilders : pass[r].toRemove \subseteq gone[r]

\* A pass that nobody disturbed leaves the index it rebuilt exactly equal to
\* the names that have data: the backfill, the expired entries and the evicted
\* index are all repaired by the same operation.
UndisturbedPassIsExact ==
    \A r \in Rebuilders :
        (pass[r].pc = "remove" /\ pass[r].toRemove = {} /\ undisturbed[r])
            => index \cap Of(pass[r].kind) = data \cap Of(pass[r].kind)

\* Once dockings, evictions and failures cease, search answers exactly the
\* systems and carriers that have data, and keeps doing so: exactly one of
\* the in-process timer and the CronJob keeps rebuilding.
Converges == <>[](index = data)

\* The comment in RebuildAsync (SearchIndexMaintainer.cs:69-71): because the
\* index is snapshotted before the scan, no rebuild deletes a live name. Stated
\* for names whose docking batch is complete, so that no pending ZADD would put
\* the name back.
NeverRemovesLiveName ==
    [][\A r \in Rebuilders :
        RemoveChunk(r) =>
            (index \ index') \cap (data \ {batch[w] : w \in Writers}) = {}]_vars

=============================================================================
