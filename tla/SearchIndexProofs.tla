-------------------------- MODULE SearchIndexProofs --------------------------
(***************************************************************************)
(* For any sets of names and writers, any chunk size and either scheduler: *)
(* a rebuild only ever removes a name whose data key was missing at some   *)
(* moment after the pass that removes it had found it in the index.        *)
(***************************************************************************)
EXTENDS SearchIndex, TLAPS

\* The strengthening: while the SCAN runs, an indexed name it has already visited
\* and did not find had no data at that moment, so it is in the history.
PassInv(r) ==
    /\ pass[r].pc \in {"snapshot", "scan"} =>
         pass[r].todo \cup pass[r].indexed \subseteq Of(pass[r].kind)
    /\ pass[r].pc = "scan" =>
         (pass[r].indexed \ pass[r].todo) \ pass[r].live \subseteq gone[r]
    /\ pass[r].pc \in {"idle", "snapshot"} => pass[r].live = {}
    /\ pass[r].pc \in {"idle", "snapshot", "scan"} => pass[r].toRemove = {}
    /\ pass[r].toRemove \subseteq gone[r]

IInv == TypeOK /\ \A r \in Rebuilders : PassInv(r)

-----------------------------------------------------------------------------
(* Records *)

LEMMA OfIsNames == \A kind \in Kinds : Of(kind) \in SUBSET Names
BY DEF Of, Names

LEMMA PassFields ==
    ASSUME NEW p \in Passes
    PROVE  /\ p.pc \in {"idle", "snapshot", "scan", "add", "remove"}
           /\ p.kind \in Kinds
           /\ p.todo \in SUBSET Names
           /\ p.indexed \in SUBSET Names
           /\ p.live \in SUBSET Names
           /\ p.toAdd \in SUBSET Names
           /\ p.toRemove \in SUBSET Names
BY DEF Passes

LEMMA SnapshottingType == \A kind \in Kinds : Snapshotting(kind) \in Passes
BY OfIsNames DEF Snapshotting, Passes

LEMMA IdleType == Idle \in Passes
BY DEF Idle, Passes, Kinds

\* What a pass step turns p into is again the state of a pass.
LEMMA NextPassType ==
    ASSUME NEW p \in Passes, NEW n \in Names, NEW S \in SUBSET Names
    PROVE  /\ [p EXCEPT !.todo = @ \ {n}, !.indexed = @ \cup ({n} \cap S)] \in Passes
           /\ [p EXCEPT !.todo = @ \ {n}, !.live = @ \cup ({n} \cap S)] \in Passes
BY PassFields DEF Passes

LEMMA NextPassType2 ==
    ASSUME NEW p \in Passes
    PROVE  /\ [p EXCEPT !.pc = "scan", !.todo = Of(p.kind)] \in Passes
           /\ [p EXCEPT !.pc = "remove"] \in Passes
           /\ [p EXCEPT !.pc = "add", !.toAdd = p.live \ p.indexed,
                        !.toRemove = p.indexed \ p.live, !.indexed = {}, !.live = {}] \in Passes
BY PassFields, OfIsNames DEF Passes

LEMMA NextPassType3 ==
    ASSUME NEW p \in Passes, NEW c
    PROVE  /\ [p EXCEPT !.toAdd = @ \ c] \in Passes
           /\ [p EXCEPT !.toRemove = @ \ c] \in Passes
BY PassFields DEF Passes

LEMMA BecomesType ==
    ASSUME pass \in [Rebuilders -> Passes], NEW r \in Rebuilders,
           NEW p \in Passes, Becomes(r, p)
    PROVE  /\ pass' \in [Rebuilders -> Passes]
           /\ pass'[r] = p
           /\ \A q \in Rebuilders \ {r} : pass'[q] = pass[q]
BY DEF Becomes

-----------------------------------------------------------------------------
(* Type correctness *)

\* The variables other than the history and the passes.
RestOK ==
    /\ data \in SUBSET Names
    /\ index \in SUBSET Names
    /\ batch \in [Writers -> Names \cup {None}]
    /\ hasSucceeded \in BOOLEAN
    /\ docks \in Nat
    /\ faults \in Nat

\* Every step keeps the passes well formed.
LEMMA PassTypeStep ==
    ASSUME TypeOK, Step PROVE pass' \in [Rebuilders -> Passes]
<1>1. pass \in [Rebuilders -> Passes] /\ data \in SUBSET Names /\ index \in SUBSET Names
  BY DEF TypeOK
<1>2. ASSUME NEW r \in Rebuilders, NEW p \in Passes, Becomes(r, p)
      PROVE  pass' \in [Rebuilders -> Passes]
  BY <1>1, <1>2, BecomesType
<1>3. ASSUME NEW r \in Rebuilders, StartPass(r) PROVE pass' \in [Rebuilders -> Passes]
  BY <1>2, <1>3, SnapshottingType DEF StartPass, Kinds
<1>4. ASSUME NEW r \in Rebuilders, NEW n \in Names, ScanIndex(r, n) \/ ScanData(r, n)
      PROVE  pass' \in [Rebuilders -> Passes]
  BY <1>1, <1>2, <1>4, NextPassType DEF ScanIndex, ScanData
<1>5. ASSUME NEW r \in Rebuilders, SnapshotTaken(r) \/ ComputeDiff(r) \/ AddsDone(r)
      PROVE  pass' \in [Rebuilders -> Passes]
  BY <1>1, <1>2, <1>5, NextPassType2 DEF SnapshotTaken, ComputeDiff, AddsDone
<1>6. ASSUME NEW r \in Rebuilders, AddChunk(r) \/ RemoveChunk(r)
      PROVE  pass' \in [Rebuilders -> Passes]
  BY <1>1, <1>2, <1>6, NextPassType3 DEF AddChunk, RemoveChunk
<1>7. ASSUME NEW r \in Rebuilders, RemovesDone(r) PROVE pass' \in [Rebuilders -> Passes]
  BY <1>2, <1>7, SnapshottingType, IdleType DEF RemovesDone, Kinds
<1>8. ASSUME NEW r \in Rebuilders, PassFails(r) PROVE pass' \in [Rebuilders -> Passes]
  BY <1>2, <1>8, IdleType DEF PassFails
<1>9. CASE ServiceRestarts
  BY <1>2, <1>9, IdleType DEF ServiceRestarts, Rebuilders
<1>10. CASE UNCHANGED pass
  BY <1>1, <1>10
<1>11. QED
  BY <1>3, <1>4, <1>5, <1>6, <1>7, <1>8, <1>9, <1>10
     DEF Step, WriterStep, PassStep, WriteData, WriteIndex, CutBatch, Expire, EvictIndex

\* Every step keeps the rest well formed.
LEMMA RestTypeStep == ASSUME TypeOK, Step PROVE RestOK'
<1> USE DEF RestOK, TypeOK, redis, counters
<1>1. ASSUME NEW w \in Writers, WriterStep(w) PROVE RestOK'
  BY <1>1 DEF WriterStep, WriteData, WriteIndex, CutBatch
<1>2. ASSUME NEW r \in Rebuilders, AddChunk(r) PROVE RestOK'
  <2>1. PICK c \in Chunks(pass[r].toAdd) : index' = index \cup c
    BY <1>2 DEF AddChunk
  <2>2. c \in SUBSET Names
    BY PassFields DEF Chunks
  <2>3. QED
    BY <1>2, <2>1, <2>2 DEF AddChunk
<1>3. ASSUME NEW r \in Rebuilders, RemoveChunk(r) PROVE RestOK'
  BY <1>3 DEF RemoveChunk
<1>4. ASSUME NEW r \in Rebuilders, RemovesDone(r) PROVE RestOK'
  BY <1>4 DEF RemovesDone
<1>5. ASSUME NEW r \in Rebuilders,
             \/ StartPass(r) \/ SnapshotTaken(r) \/ ComputeDiff(r) \/ AddsDone(r)
             \/ \E n \in Names : ScanIndex(r, n) \/ ScanData(r, n)
      PROVE  RestOK'
  BY <1>5 DEF StartPass, SnapshotTaken, ComputeDiff, AddsDone, ScanIndex, ScanData
<1>6. ASSUME NEW r \in Rebuilders, PassFails(r) PROVE RestOK'
  BY <1>6 DEF PassFails
<1>7. CASE ServiceRestarts
  <2>1. hasSucceeded' \in BOOLEAN
    BY <1>7 DEF ServiceRestarts
  <2>2. QED
    BY <1>7, <2>1 DEF ServiceRestarts
<1>8. ASSUME NEW n \in Names, Expire(n) PROVE RestOK'
  BY <1>8 DEF Expire
<1>9. ASSUME NEW kind \in Kinds, EvictIndex(kind) PROVE RestOK'
  BY <1>9 DEF EvictIndex
<1>10. QED
  BY <1>1, <1>2, <1>3, <1>4, <1>5, <1>6, <1>7, <1>8, <1>9 DEF Step, PassStep

LEMMA TypeStep == TypeOK /\ [Next]_vars => TypeOK'
<1>1. ASSUME TypeOK, Next PROVE TypeOK'
  <2>0. \A r \in Rebuilders : pass'[r].indexed \in SUBSET Names
    BY <1>1, PassTypeStep, PassFields DEF Next
  <2>1. gone' \in [Rebuilders -> SUBSET Names]
    BY <1>1, <2>0 DEF Next, History, TypeOK
  <2>2. undisturbed' \in [Rebuilders -> BOOLEAN]
    BY <1>1 DEF Next, History
  <2>3. QED
    BY <1>1, <2>1, <2>2, PassTypeStep, RestTypeStep DEF Next, RestOK, TypeOK
<1>2. ASSUME TypeOK, UNCHANGED vars PROVE TypeOK'
  BY <1>2 DEF TypeOK, vars, redis, counters
<1>3. QED
  BY <1>1, <1>2

LEMMA TypeInit == Init => TypeOK
<1> SUFFICES ASSUME Init PROVE TypeOK
  OBVIOUS
<1>1. hasSucceeded \in BOOLEAN /\ undisturbed \in [Rebuilders -> BOOLEAN]
  BY DEF Init
<1>2. docks \in Nat /\ faults \in Nat
  BY DEF Init
<1>3. batch \in [Writers -> Names \cup {None}]
  BY DEF Init
<1>4. pass \in [Rebuilders -> Passes] /\ gone \in [Rebuilders -> SUBSET Names]
  BY IdleType DEF Init
<1>5. QED
  BY <1>1, <1>2, <1>3, <1>4 DEF Init, TypeOK

\* The variables of SearchIndex keep their types.
THEOREM TypeCorrect == Spec => []TypeOK
BY TypeInit, TypeStep, PTL DEF Spec

-----------------------------------------------------------------------------
(* Removals are justified *)

\* The history of a running pass only grows, and takes in every name of its
\* snapshot that has no data after the step.
LEMMA HistoryGrows ==
    ASSUME TypeOK, History, NEW r \in Rebuilders, pass'[r].pc # "idle"
    PROVE  /\ pass'[r].indexed \ data' \subseteq gone'[r]
           /\ ~Begins(r) => gone[r] \subseteq gone'[r]
BY DEF TypeOK, History

\* A step that leaves pass r alone keeps its invariant, whatever it does to
\* the data and to the index.
LEMMA OtherPass ==
    ASSUME TypeOK, History, NEW r \in Rebuilders, PassInv(r), pass'[r] = pass[r]
    PROVE  PassInv(r)'
<1>1. CASE pass[r].pc = "idle"
  BY <1>1 DEF PassInv
<1>2. CASE pass[r].pc # "idle"
  <2>1. gone[r] \subseteq gone'[r]
    BY <1>2, HistoryGrows DEF Begins
  <2>2. QED
    BY <1>2, <2>1 DEF PassInv
<1>3. QED
  BY <1>1, <1>2

\* A pass that starts over or ends has nothing left to remove.
LEMMA FreshPass ==
    ASSUME TypeOK, History, NEW r \in Rebuilders,
           pass'[r] = Idle \/ \E kind \in Kinds : pass'[r] = Snapshotting(kind)
    PROVE  PassInv(r)'
<1>1. CASE pass'[r] = Idle
  <2>1. pass'[r].pc = "idle" /\ pass'[r].toRemove = {} /\ pass'[r].live = {}
    BY <1>1 DEF Idle
  <2>2. QED
    BY <2>1 DEF PassInv
<1>2. ASSUME NEW kind \in Kinds, pass'[r] = Snapshotting(kind) PROVE PassInv(r)'
  <2>1. /\ pass'[r].pc = "snapshot" /\ pass'[r].toRemove = {}
        /\ pass'[r].live = {} /\ pass'[r].indexed = {} /\ pass'[r].todo = Of(pass'[r].kind)
    BY <1>2 DEF Snapshotting
  <2>2. QED
    BY <2>1 DEF PassInv
<1>3. QED
  BY <1>1, <1>2

\* The steps of pass r itself.
LEMMA OwnPass ==
    ASSUME IInv, History, NEW r \in Rebuilders, PassStep(r)
    PROVE  PassInv(r)'
<1> DEFINE p == pass[r]
<1>1. TypeOK /\ PassInv(r) /\ p \in Passes /\ pass \in [Rebuilders -> Passes]
  BY DEF IInv, TypeOK
<1>2. ASSUME NEW q \in Passes, Becomes(r, q) PROVE pass'[r] = q
  BY <1>1, <1>2, BecomesType
<1>3. data \in SUBSET Names /\ index \in SUBSET Names
  BY <1>1 DEF TypeOK
<1>4. ASSUME pass'[r].pc \in {"scan", "add", "remove"}
      PROVE  gone[r] \subseteq gone'[r] /\ pass'[r].indexed \ data' \subseteq gone'[r]
  BY <1>1, <1>4, HistoryGrows DEF Begins
<1>5. ASSUME NEW n \in Names, ScanIndex(r, n) PROVE PassInv(r)'
  <2>1. pass'[r] = [p EXCEPT !.todo = @ \ {n}, !.indexed = @ \cup ({n} \cap index)]
    BY <1>1, <1>2, <1>3, <1>5, NextPassType DEF ScanIndex
  <2>2. /\ pass'[r].pc = "snapshot" /\ pass'[r].kind = p.kind
        /\ pass'[r].toRemove = {} /\ pass'[r].live = {}
        /\ pass'[r].todo = p.todo \ {n}
        /\ pass'[r].indexed = p.indexed \cup ({n} \cap index)
    BY <1>1, <1>5, <2>1 DEF ScanIndex, Passes, PassInv
  <2>3. n \in Of(p.kind)
    BY <1>1, <1>5 DEF ScanIndex, PassInv
  <2>4. QED
    BY <1>1, <1>5, <2>2, <2>3 DEF PassInv, ScanIndex
<1>6. CASE SnapshotTaken(r)
  <2>1. pass'[r] = [p EXCEPT !.pc = "scan", !.todo = Of(p.kind)]
    BY <1>1, <1>2, <1>6, NextPassType2 DEF SnapshotTaken
  <2>2. /\ pass'[r].pc = "scan" /\ pass'[r].kind = p.kind
        /\ pass'[r].todo = Of(p.kind) /\ pass'[r].toRemove = {}
        /\ pass'[r].indexed = p.indexed
    BY <1>1, <1>6, <2>1 DEF SnapshotTaken, Passes, PassInv
  <2>3. QED
    BY <1>1, <1>6, <2>2 DEF PassInv, SnapshotTaken
<1>7. ASSUME NEW n \in Names, ScanData(r, n) PROVE PassInv(r)'
  <2>1. pass'[r] = [p EXCEPT !.todo = @ \ {n}, !.live = @ \cup ({n} \cap data)]
    BY <1>1, <1>2, <1>3, <1>7, NextPassType DEF ScanData
  <2>2. /\ pass'[r].pc = "scan" /\ pass'[r].kind = p.kind
        /\ pass'[r].toRemove = {} /\ pass'[r].indexed = p.indexed
        /\ pass'[r].todo = p.todo \ {n}
        /\ pass'[r].live = p.live \cup ({n} \cap data)
    BY <1>1, <1>7, <2>1 DEF ScanData, Passes, PassInv
  <2>3. n \in p.indexed => n \in data \/ n \in gone'[r]
    BY <1>4, <1>7, <2>2 DEF ScanData, redis
  <2>4. QED
    BY <1>1, <1>4, <1>7, <2>2, <2>3 DEF PassInv, ScanData
<1>8. CASE ComputeDiff(r)
  <2>1. pass'[r] = [p EXCEPT !.pc = "add", !.toAdd = p.live \ p.indexed,
                        !.toRemove = p.indexed \ p.live, !.indexed = {}, !.live = {}]
    BY <1>1, <1>2, <1>8, NextPassType2 DEF ComputeDiff
  <2>2. pass'[r].pc = "add" /\ pass'[r].toRemove = p.indexed \ p.live
    BY <1>1, <2>1 DEF Passes
  <2>3. QED
    BY <1>1, <1>4, <1>8, <2>2 DEF PassInv, ComputeDiff
<1>9. CASE AddChunk(r)
  <2>1. PICK c : pass'[r] = [p EXCEPT !.toAdd = @ \ c]
    BY <1>1, <1>2, <1>9, NextPassType3 DEF AddChunk
  <2>2. pass'[r].pc = "add" /\ pass'[r].toRemove = p.toRemove
    BY <1>1, <1>9, <2>1 DEF AddChunk, Passes
  <2>3. QED
    BY <1>1, <1>4, <2>2 DEF PassInv
<1>10. CASE AddsDone(r)
  <2>1. pass'[r] = [p EXCEPT !.pc = "remove"]
    BY <1>1, <1>2, <1>10, NextPassType2 DEF AddsDone
  <2>2. pass'[r].pc = "remove" /\ pass'[r].toRemove = p.toRemove
    BY <1>1, <2>1 DEF Passes
  <2>3. QED
    BY <1>1, <1>4, <2>2 DEF PassInv
<1>11. CASE RemoveChunk(r)
  <2>1. PICK c : pass'[r] = [p EXCEPT !.toRemove = @ \ c]
    BY <1>1, <1>2, <1>11, NextPassType3 DEF RemoveChunk
  <2>2. pass'[r].pc = "remove" /\ pass'[r].toRemove = p.toRemove \ c
    BY <1>1, <1>11, <2>1 DEF RemoveChunk, Passes
  <2>3. QED
    BY <1>1, <1>4, <2>2 DEF PassInv
<1>12. CASE RemovesDone(r)
  BY <1>1, <1>2, <1>12, FreshPass, SnapshottingType, IdleType DEF RemovesDone, Kinds
<1>13. QED
  BY <1>5, <1>6, <1>7, <1>8, <1>9, <1>10, <1>11, <1>12 DEF PassStep

LEMMA InvInit == Init => IInv
<1> SUFFICES ASSUME Init PROVE IInv
  OBVIOUS
<1>1. \A r \in Rebuilders :
        pass[r].pc = "idle" /\ pass[r].live = {} /\ pass[r].toRemove = {}
  BY DEF Init, Idle
<1>2. QED
  BY <1>1, TypeInit DEF IInv, PassInv

\* What a step of the system can be to pass r.
LEMMA StepCases ==
    ASSUME TypeOK, Step, NEW r \in Rebuilders
    PROVE  \/ pass'[r] = pass[r]
           \/ PassStep(r)
           \/ pass'[r] = Idle \/ \E kind \in Kinds : pass'[r] = Snapshotting(kind)
<1>1. pass \in [Rebuilders -> Passes]
  BY DEF TypeOK
<1>2. CASE StartPass(r) \/ PassFails(r)
  BY <1>1, <1>2, BecomesType, SnapshottingType, IdleType DEF StartPass, PassFails, Kinds
<1>3. CASE ServiceRestarts
  BY <1>1, <1>3 DEF ServiceRestarts, Becomes
<1>4. ASSUME NEW q \in Rebuilders, q # r, StartPass(q) \/ PassStep(q) \/ PassFails(q)
      PROVE  pass'[r] = pass[r]
  BY <1>1, <1>4 DEF StartPass, PassStep, PassFails, ScanIndex, SnapshotTaken, ScanData,
         ComputeDiff, AddChunk, AddsDone, RemoveChunk, RemovesDone, Becomes
<1>5. QED
  BY <1>2, <1>3, <1>4
     DEF Step, WriterStep, WriteData, WriteIndex, CutBatch, Expire, EvictIndex

LEMMA InvStep == IInv /\ [Next]_vars => IInv'
<1>1. ASSUME IInv, UNCHANGED vars PROVE IInv'
  BY <1>1, TypeStep DEF IInv, PassInv, vars
<1>2. ASSUME IInv, Next, NEW r \in Rebuilders PROVE PassInv(r)'
  <2>1. TypeOK /\ PassInv(r) /\ History /\ Step
    BY <1>2 DEF IInv, Next
  <2>2. QED
    BY <1>2, <2>1, StepCases, OtherPass, OwnPass, FreshPass
<1>3. QED
  BY <1>1, <1>2, TypeStep DEF IInv

\* Whatever writers, the other rebuild and Redis do meanwhile, RebuildAsync
\* only removes names that had no data key at some moment of the same pass.
THEOREM RemovalIsJustified == Spec => []RemovalJustified
<1>1. IInv => RemovalJustified
  BY DEF IInv, PassInv, RemovalJustified
<1>2. QED
  BY <1>1, InvInit, InvStep, PTL DEF Spec

-----------------------------------------------------------------------------
(* An undisturbed pass is exact *)

\* While nobody disturbs pass r, what it has read so far is what Redis holds,
\* and the difference it computed is the work that is still to be done.
ExactInv(r) ==
    LET p == pass[r]
        K == Of(p.kind)
    IN  undisturbed[r] =>
            /\ p.pc = "snapshot" => p.indexed = (K \ p.todo) \cap index
            /\ p.pc = "scan" => /\ p.indexed = K \cap index
                                /\ p.live = (K \ p.todo) \cap data
            /\ p.pc \in {"add", "remove"} => /\ p.toAdd = K \cap (data \ index)
                                             /\ p.toRemove = K \cap (index \ data)
            /\ p.pc = "remove" => p.toAdd = {}

\* A step that leaves pass r alone disturbs it or leaves Redis as it was.
LEMMA OtherExact ==
    ASSUME TypeOK, History, NEW r \in Rebuilders, ExactInv(r), pass'[r] = pass[r]
    PROVE  ExactInv(r)'
<1> SUFFICES ASSUME undisturbed'[r] PROVE ExactInv(r)'
  BY DEF ExactInv
<1>1. undisturbed[r] /\ UNCHANGED redis
  BY DEF History, Begins, OwnStep
<1>2. QED
  BY <1>1 DEF ExactInv, redis

\* A pass that starts has read nothing; one that has ended claims nothing.
LEMMA FreshExact ==
    ASSUME TypeOK, History, NEW r \in Rebuilders,
           pass'[r] = Idle \/ \E kind \in Kinds : pass'[r] = Snapshotting(kind)
    PROVE  ExactInv(r)'
<1>1. CASE pass'[r] = Idle
  <2>1. pass'[r].pc = "idle"
    BY <1>1 DEF Idle
  <2>2. QED
    BY <2>1 DEF ExactInv
<1>2. ASSUME NEW kind \in Kinds, pass'[r] = Snapshotting(kind) PROVE ExactInv(r)'
  <2>1. /\ pass'[r].pc = "snapshot" /\ pass'[r].indexed = {}
        /\ pass'[r].todo = Of(pass'[r].kind)
    BY <1>2 DEF Snapshotting
  <2>2. QED
    BY <2>1 DEF ExactInv
<1>3. QED
  BY <1>1, <1>2

\* The steps of pass r itself.
LEMMA OwnExact ==
    ASSUME IInv, History, NEW r \in Rebuilders, ExactInv(r), PassStep(r)
    PROVE  ExactInv(r)'
<1> DEFINE p == pass[r]
           K == Of(p.kind)
<1>1. TypeOK /\ PassInv(r) /\ p \in Passes /\ pass \in [Rebuilders -> Passes]
  BY DEF IInv, TypeOK
<1>2. ASSUME NEW q \in Passes, Becomes(r, q) PROVE pass'[r] = q
  BY <1>1, <1>2, BecomesType
<1>3. data \in SUBSET Names /\ index \in SUBSET Names
  BY <1>1 DEF TypeOK
<1>4. CASE RemovesDone(r)
  BY <1>1, <1>2, <1>4, FreshExact, SnapshottingType, IdleType DEF RemovesDone, Kinds
<1>5. SUFFICES ASSUME undisturbed'[r], ~RemovesDone(r) PROVE ExactInv(r)'
  BY <1>4 DEF ExactInv
<1>6. ASSUME NEW n \in Names, ScanIndex(r, n) PROVE ExactInv(r)'
  <2>1. pass'[r] = [p EXCEPT !.todo = @ \ {n}, !.indexed = @ \cup ({n} \cap index)]
    BY <1>1, <1>2, <1>3, <1>6, NextPassType DEF ScanIndex
  <2>2. /\ pass'[r].pc = "snapshot" /\ pass'[r].kind = p.kind
        /\ pass'[r].todo = p.todo \ {n}
        /\ pass'[r].indexed = p.indexed \cup ({n} \cap index)
    BY <1>1, <1>6, <2>1 DEF ScanIndex, Passes
  <2>3. n \in K /\ p.pc = "snapshot" /\ undisturbed[r] /\ index' = index
    BY <1>1, <1>5, <1>6 DEF ScanIndex, PassInv, History, Begins, redis
  <2>4. p.indexed = (K \ p.todo) \cap index
    BY <2>3 DEF ExactInv
  <2>5. pass'[r].indexed = (K \ pass'[r].todo) \cap index
    BY <2>2, <2>3, <2>4
  <2>6. QED
    BY <2>2, <2>3, <2>5 DEF ExactInv
<1>7. CASE SnapshotTaken(r)
  <2>1. pass'[r] = [p EXCEPT !.pc = "scan", !.todo = Of(p.kind)]
    BY <1>1, <1>2, <1>7, NextPassType2 DEF SnapshotTaken
  <2>2. /\ pass'[r].pc = "scan" /\ pass'[r].kind = p.kind /\ pass'[r].todo = K
        /\ pass'[r].indexed = p.indexed /\ pass'[r].live = p.live
    BY <1>1, <2>1 DEF Passes
  <2>3. p.pc = "snapshot" /\ p.todo = {} /\ undisturbed[r] /\ UNCHANGED <<data, index>>
    BY <1>5, <1>7, <2>2 DEF SnapshotTaken, History, Begins, redis
  <2>4. p.indexed = K \cap index
    BY <2>3 DEF ExactInv
  <2>5. p.live = {}
    BY <1>1, <2>3 DEF PassInv
  <2>6. QED
    BY <2>2, <2>3, <2>4, <2>5 DEF ExactInv
<1>8. ASSUME NEW n \in Names, ScanData(r, n) PROVE ExactInv(r)'
  <2>1. pass'[r] = [p EXCEPT !.todo = @ \ {n}, !.live = @ \cup ({n} \cap data)]
    BY <1>1, <1>2, <1>3, <1>8, NextPassType DEF ScanData
  <2>2. /\ pass'[r].pc = "scan" /\ pass'[r].kind = p.kind
        /\ pass'[r].indexed = p.indexed
        /\ pass'[r].todo = p.todo \ {n}
        /\ pass'[r].live = p.live \cup ({n} \cap data)
    BY <1>1, <1>8, <2>1 DEF ScanData, Passes
  <2>3. n \in K /\ p.pc = "scan" /\ undisturbed[r] /\ UNCHANGED <<data, index>>
    BY <1>1, <1>5, <1>8, <2>2 DEF ScanData, PassInv, History, Begins, redis
  <2>4. p.indexed = K \cap index /\ p.live = (K \ p.todo) \cap data
    BY <2>3 DEF ExactInv
  <2>5. pass'[r].live = (K \ pass'[r].todo) \cap data
    BY <2>2, <2>3, <2>4
  <2>6. QED
    BY <2>2, <2>3, <2>4, <2>5 DEF ExactInv
<1>9. CASE ComputeDiff(r)
  <2>1. pass'[r] = [p EXCEPT !.pc = "add", !.toAdd = p.live \ p.indexed,
                        !.toRemove = p.indexed \ p.live, !.indexed = {}, !.live = {}]
    BY <1>1, <1>2, <1>9, NextPassType2 DEF ComputeDiff
  <2>2. /\ pass'[r].pc = "add" /\ pass'[r].kind = p.kind
        /\ pass'[r].toAdd = p.live \ p.indexed /\ pass'[r].toRemove = p.indexed \ p.live
    BY <1>1, <2>1 DEF Passes
  <2>3. p.pc = "scan" /\ p.todo = {} /\ undisturbed[r] /\ UNCHANGED <<data, index>>
    BY <1>5, <1>9, <2>2 DEF ComputeDiff, History, Begins, redis
  <2>4. p.indexed = K \cap index /\ p.live = K \cap data
    BY <2>3 DEF ExactInv
  <2>5. /\ pass'[r].toAdd = K \cap (data \ index)
        /\ pass'[r].toRemove = K \cap (index \ data)
    BY <2>2, <2>4
  <2>6. QED
    BY <2>2, <2>3, <2>5 DEF ExactInv
<1>10. CASE AddChunk(r)
  <2>1. PICK c \in Chunks(p.toAdd) : /\ index' = index \cup c
                                     /\ pass'[r] = [p EXCEPT !.toAdd = @ \ c]
    BY <1>1, <1>2, <1>10, NextPassType3 DEF AddChunk
  <2>2. /\ pass'[r].pc = "add" /\ pass'[r].kind = p.kind
        /\ pass'[r].toAdd = p.toAdd \ c /\ pass'[r].toRemove = p.toRemove
    BY <1>1, <1>10, <2>1 DEF AddChunk, Passes
  <2>3. p.pc = "add" /\ undisturbed[r] /\ data' = data /\ c \subseteq p.toAdd
    BY <1>5, <1>10, <2>1, <2>2 DEF AddChunk, History, Begins, Chunks
  <2>4. p.toAdd = K \cap (data \ index) /\ p.toRemove = K \cap (index \ data)
    BY <2>3 DEF ExactInv
  <2>5. /\ pass'[r].toAdd = K \cap (data \ index')
        /\ pass'[r].toRemove = K \cap (index' \ data)
    BY <2>1, <2>2, <2>3, <2>4
  <2>6. QED
    BY <2>2, <2>3, <2>5 DEF ExactInv
<1>11. CASE AddsDone(r)
  <2>1. pass'[r] = [p EXCEPT !.pc = "remove"]
    BY <1>1, <1>2, <1>11, NextPassType2 DEF AddsDone
  <2>2. /\ pass'[r].pc = "remove" /\ pass'[r].kind = p.kind
        /\ pass'[r].toAdd = p.toAdd /\ pass'[r].toRemove = p.toRemove
    BY <1>1, <2>1 DEF Passes
  <2>3. p.pc = "add" /\ p.toAdd = {} /\ undisturbed[r] /\ UNCHANGED <<data, index>>
    BY <1>5, <1>11, <2>2 DEF AddsDone, History, Begins, redis
  <2>4. QED
    BY <2>2, <2>3 DEF ExactInv
<1>12. CASE RemoveChunk(r)
  <2>1. PICK c \in Chunks(p.toRemove) : /\ index' = index \ c
                                        /\ pass'[r] = [p EXCEPT !.toRemove = @ \ c]
    BY <1>1, <1>2, <1>12, NextPassType3 DEF RemoveChunk
  <2>2. /\ pass'[r].pc = "remove" /\ pass'[r].kind = p.kind
        /\ pass'[r].toAdd = p.toAdd /\ pass'[r].toRemove = p.toRemove \ c
    BY <1>1, <1>12, <2>1 DEF RemoveChunk, Passes
  <2>3. p.pc = "remove" /\ undisturbed[r] /\ data' = data /\ c \subseteq p.toRemove
    BY <1>5, <1>12, <2>1, <2>2 DEF RemoveChunk, History, Begins, Chunks
  <2>4. /\ p.toAdd = K \cap (data \ index) /\ p.toRemove = K \cap (index \ data)
        /\ p.toAdd = {}
    BY <2>3 DEF ExactInv
  <2>5. /\ pass'[r].toAdd = K \cap (data \ index')
        /\ pass'[r].toRemove = K \cap (index' \ data)
    BY <2>1, <2>2, <2>3, <2>4
  <2>6. QED
    BY <2>2, <2>3, <2>4, <2>5 DEF ExactInv
<1>13. QED
  BY <1>5, <1>6, <1>7, <1>8, <1>9, <1>10, <1>11, <1>12 DEF PassStep

\* RebuildAsync of any number of names, in chunks of any size: when nobody else
\* touched its keys, the index it leaves is exactly the names that have data.
THEOREM UndisturbedIsExact == Spec => []UndisturbedPassIsExact
<1> DEFINE Exact == \A r \in Rebuilders : ExactInv(r)
<1>1. Init => Exact
  BY DEF Init, ExactInv
<1>2. IInv /\ Exact /\ [Next]_vars => Exact'
  <2>1. ASSUME IInv, Exact, Next, NEW r \in Rebuilders PROVE ExactInv(r)'
    <3>1. TypeOK /\ ExactInv(r) /\ History /\ Step
      BY <2>1 DEF IInv, Next
    <3>2. QED
      BY <2>1, <3>1, StepCases, OtherExact, OwnExact, FreshExact
  <2>2. ASSUME Exact, UNCHANGED vars PROVE Exact'
    BY <2>2 DEF ExactInv, vars, redis
  <2>3. QED
    BY <2>1, <2>2
<1>3. Exact /\ IInv => UndisturbedPassIsExact
  <2>1. SUFFICES ASSUME Exact, IInv, NEW r \in Rebuilders,
                        pass[r].pc = "remove", pass[r].toRemove = {}, undisturbed[r]
                 PROVE  index \cap Of(pass[r].kind) = data \cap Of(pass[r].kind)
    BY DEF UndisturbedPassIsExact
  <2>2. /\ Of(pass[r].kind) \cap (data \ index) = {}
        /\ Of(pass[r].kind) \cap (index \ data) = {}
    BY <2>1 DEF ExactInv
  <2>3. QED
    BY <2>2
<1>4. QED
  BY <1>1, <1>2, <1>3, InvInit, InvStep, PTL DEF Spec

=============================================================================
