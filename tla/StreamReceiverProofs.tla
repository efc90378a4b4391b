----------------------- MODULE StreamReceiverProofs -----------------------
(***************************************************************************)
(* The safety properties of StreamReceiver for any set of shards and any   *)
(* thresholds.                                                             *)
(***************************************************************************)
EXTENDS StreamReceiver, TLAPS

\* Nothing a shard or the key remembers is younger than the last sign.
SignInv ==
  /\ \A s \in Shards : sinceSign <= silence[s]
  /\ heartbeat # Missing => sinceSign <= heartbeat

\* A shard back in Receive is less than one interval behind with its writes.
ThrottleInv ==
  \A s \in Shards : pc[s] = "receive" => Throttled(s)

\* The heartbeat is what some shard last wrote, unless that shard's memory of
\* it is gone or has been overtaken by a refused write.
WriterInv ==
  heartbeat # Missing =>
    \E s \in Shards : pc[s] = "down" \/ failed[s] = TRUE \/ heartbeat = written[s]

ReceiverInv ==
  /\ TypeOK
  /\ SignInv
  /\ ThrottleInv
  /\ WriterInv

-----------------------------------------------------------------------------
\* An age that grows stays an age, and keeps its place among the others.
LEMMA OlderAges ==
  ASSUME NEW a \in Ages, NEW b \in Ages
  PROVE  /\ Older(a) \in Ages
         /\ a <= b => Older(a) <= Older(b)
         /\ a - b < HeartbeatWriteInterval => Older(a) - Older(b) < HeartbeatWriteInterval
  BY ReceiverAssumption DEF Older, Ages

LEMMA InitReceiver == Init => ReceiverInv
  <1> SUFFICES ASSUME Init PROVE ReceiverInv
    OBVIOUS
  <1>1. TypeOK
    BY ReceiverAssumption DEF Init, TypeOK, Ages
  <1>2. SignInv /\ ThrottleInv /\ WriterInv
    BY ReceiverAssumption DEF Init, SignInv, ThrottleInv, WriterInv
  <1> QED
    BY <1>1, <1>2 DEF ReceiverInv

LEMMA TickPreserves == ReceiverInv /\ Tick => ReceiverInv'
  <1> SUFFICES ASSUME TypeOK, SignInv, ThrottleInv, WriterInv, Tick PROVE ReceiverInv'
    BY DEF ReceiverInv
  <1>0. Missing \notin Ages
    BY DEF Missing, Ages
  <1>1. /\ \A s \in Shards : silence[s] \in Ages /\ written[s] \in Ages /\ sinceReconnect[s] \in Ages
        /\ sinceSign \in Ages
        /\ heartbeat # Missing => heartbeat \in Ages
    BY DEF TypeOK
  <1>2. TypeOK'
    BY <1>1, OlderAges DEF TypeOK, Tick
  <1>3. SignInv'
    <2>1. \A s \in Shards : sinceSign' <= silence'[s]
      BY <1>1, OlderAges DEF SignInv, Tick
    <2>2. heartbeat' # Missing => sinceSign' <= heartbeat'
      BY <1>1, OlderAges DEF SignInv, Tick
    <2> QED
      BY <2>1, <2>2 DEF SignInv
  <1>4. ThrottleInv'
    BY <1>1, OlderAges DEF ThrottleInv, Throttled, Tick
  <1>5. WriterInv'
    BY DEF WriterInv, Tick
  <1> QED
    BY <1>2, <1>3, <1>4, <1>5 DEF ReceiverInv

\* Writing the heartbeat with the age of the shard's last message leaves the
\* shard as the last writer, or as one whose write was refused.
LEMMA WriteKeeps ==
  ASSUME TypeOK, WriterInv, NEW s \in Shards, NEW age \in Ages, WriteHeartbeat(s, age),
         \A r \in Shards \ {s} : pc'[r] = pc[r]
  PROVE  /\ written' \in [Shards -> Ages]
         /\ failed' \in [Shards -> BOOLEAN]
         /\ heartbeat' \in {heartbeat, age}
         /\ written'[s] = age
         /\ \A r \in Shards \ {s} : written'[r] = written[r]
         /\ WriterInv'
  <1>1. /\ written' \in [Shards -> Ages]
        /\ failed' \in [Shards -> BOOLEAN]
        /\ heartbeat' \in {heartbeat, age}
        /\ written'[s] = age
        /\ \A r \in Shards \ {s} : written'[r] = written[r]
    BY DEF TypeOK, WriteHeartbeat, HeartbeatWritten
  <1>2. heartbeat' = written'[s] \/ failed'[s] = TRUE
    BY DEF TypeOK, WriteHeartbeat, HeartbeatWritten
  <1> QED
    BY <1>1, <1>2 DEF WriterInv

LEMMA StartPreserves ==
  ASSUME NEW s \in Shards PROVE ReceiverInv /\ Start(s) => ReceiverInv'
  <1> SUFFICES ASSUME TypeOK, SignInv, ThrottleInv, WriterInv, Start(s) PROVE ReceiverInv'
    BY DEF ReceiverInv
  <1>0. 0 \in Ages
    BY ReceiverAssumption DEF Ages
  <1>1. /\ written' \in [Shards -> Ages]
        /\ failed' \in [Shards -> BOOLEAN]
        /\ heartbeat' \in {heartbeat, 0}
        /\ written'[s] = 0
        /\ \A r \in Shards \ {s} : written'[r] = written[r]
        /\ WriterInv'
    BY <1>0, WriteKeeps DEF TypeOK, Start
  <1>2. TypeOK'
    BY <1>0, <1>1 DEF TypeOK, Start
  <1>3. SignInv'
    <2>1. sinceSign' = 0
      BY DEF Start
    <2>2. \A r \in Shards : silence'[r] \in Ages
      BY <1>2 DEF TypeOK
    <2>3. heartbeat' # Missing => heartbeat' \in Ages
      BY <1>2 DEF TypeOK
    <2> QED
      BY <2>1, <2>2, <2>3 DEF SignInv, Ages
  <1>4. ThrottleInv'
    <2> SUFFICES ASSUME NEW r \in Shards, pc'[r] = "receive"
                 PROVE  written'[r] - silence'[r] < HeartbeatWriteInterval
      BY DEF ThrottleInv, Throttled
    <2>1. CASE r = s
      BY <2>1, <1>1, ReceiverAssumption DEF Start, TypeOK
    <2>2. CASE r # s
      BY <2>2, <1>1 DEF Start, TypeOK, ThrottleInv, Throttled
    <2> QED
      BY <2>1, <2>2
  <1> QED
    BY <1>1, <1>2, <1>3, <1>4 DEF ReceiverInv

LEMMA ReceivePreserves ==
  ASSUME NEW s \in Shards PROVE ReceiverInv /\ ReceiveFrame(s) => ReceiverInv'
  <1> SUFFICES ASSUME TypeOK, SignInv, ThrottleInv, WriterInv, ReceiveFrame(s) PROVE ReceiverInv'
    BY DEF ReceiverInv
  <1>1. TypeOK'
    BY ReceiverAssumption DEF TypeOK, ReceiveFrame, Ages
  <1>2. SignInv'
    <2>1. sinceSign' = 0
      BY DEF ReceiveFrame
    <2>2. \A r \in Shards : silence'[r] \in Ages
      BY <1>1 DEF TypeOK
    <2>3. heartbeat' # Missing => heartbeat' \in Ages
      BY <1>1 DEF TypeOK
    <2> QED
      BY <2>1, <2>2, <2>3 DEF SignInv, Ages
  <1>3. ThrottleInv'
    BY DEF TypeOK, ThrottleInv, Throttled, ReceiveFrame
  <1>4. WriterInv'
    BY DEF TypeOK, WriterInv, ReceiveFrame
  <1> QED
    BY <1>1, <1>2, <1>3, <1>4 DEF ReceiverInv

LEMMA RecordPreserves ==
  ASSUME NEW s \in Shards PROVE ReceiverInv /\ RecordAsync(s) => ReceiverInv'
  <1> SUFFICES ASSUME TypeOK, SignInv, ThrottleInv, WriterInv, RecordAsync(s) PROVE ReceiverInv'
    BY DEF ReceiverInv
  <1>0. /\ pc' = [pc EXCEPT ![s] = "receive"]
        /\ silence[s] \in Ages
        /\ UNCHANGED <<socket, silence, sinceReconnect, sinceSign>>
    BY DEF RecordAsync, TypeOK
  <1>1. CASE Throttled(s)
    <2>1. UNCHANGED <<written, failed, heartbeat>>
      BY <1>1 DEF RecordAsync
    <2>2. TypeOK'
      BY <1>0, <2>1 DEF TypeOK
    <2>3. SignInv'
      BY <1>0, <2>1 DEF SignInv
    <2>4. ThrottleInv'
      BY <1>0, <1>1, <2>1 DEF ThrottleInv, Throttled, TypeOK
    <2>5. WriterInv'
      BY <1>0, <2>1 DEF WriterInv, TypeOK, RecordAsync
    <2> QED
      BY <2>2, <2>3, <2>4, <2>5 DEF ReceiverInv
  <1>2. CASE ~Throttled(s)
    <2>1. WriteHeartbeat(s, silence[s])
      BY <1>2 DEF RecordAsync
    <2>2. /\ written' \in [Shards -> Ages]
          /\ failed' \in [Shards -> BOOLEAN]
          /\ heartbeat' \in {heartbeat, silence[s]}
          /\ written'[s] = silence[s]
          /\ \A r \in Shards \ {s} : written'[r] = written[r]
          /\ WriterInv'
      BY <1>0, <2>1, WriteKeeps DEF TypeOK
    <2>3. TypeOK'
      BY <1>0, <2>2 DEF TypeOK
    <2>4. SignInv'
      BY <1>0, <2>2 DEF SignInv
    <2>5. ThrottleInv'
      <3> SUFFICES ASSUME NEW r \in Shards, pc'[r] = "receive"
                   PROVE  written'[r] - silence'[r] < HeartbeatWriteInterval
        BY DEF ThrottleInv, Throttled
      <3>1. CASE r = s
        BY <3>1, <1>0, <2>2, ReceiverAssumption DEF Ages
      <3>2. CASE r # s
        BY <3>2, <1>0, <2>2 DEF TypeOK, ThrottleInv, Throttled
      <3> QED
        BY <3>1, <3>2
    <2> QED
      BY <2>2, <2>3, <2>4, <2>5 DEF ReceiverInv
  <1> QED
    BY <1>1, <1>2

LEMMA SocketPreserves ==
  ASSUME NEW s \in Shards PROVE ReceiverInv /\ (Reconnect(s) \/ Stall(s)) => ReceiverInv'
  <1> SUFFICES ASSUME TypeOK, SignInv, ThrottleInv, WriterInv, Reconnect(s) \/ Stall(s)
               PROVE  ReceiverInv'
    BY DEF ReceiverInv
  <1>1. TypeOK'
    BY ReceiverAssumption DEF TypeOK, Reconnect, Stall, Ages
  <1>2. UNCHANGED <<pc, silence, written, failed, heartbeat, sinceSign>>
    BY DEF Reconnect, Stall
  <1>3. SignInv' /\ ThrottleInv' /\ WriterInv'
    BY <1>2 DEF SignInv, ThrottleInv, Throttled, WriterInv
  <1> QED
    BY <1>1, <1>3 DEF ReceiverInv

LEMMA CrashPreserves ==
  ASSUME NEW s \in Shards PROVE ReceiverInv /\ Crash(s) => ReceiverInv'
  <1> SUFFICES ASSUME TypeOK, SignInv, ThrottleInv, WriterInv, Crash(s) PROVE ReceiverInv'
    BY DEF ReceiverInv
  <1>1. TypeOK'
    BY ReceiverAssumption DEF TypeOK, Crash, Ages
  <1>2. SignInv'
    BY ReceiverAssumption DEF TypeOK, SignInv, Crash, Ages
  <1>3. ThrottleInv'
    BY DEF TypeOK, ThrottleInv, Throttled, Crash
  <1>4. WriterInv'
    BY DEF TypeOK, WriterInv, Crash
  <1> QED
    BY <1>1, <1>2, <1>3, <1>4 DEF ReceiverInv

-----------------------------------------------------------------------------
\* The inductive invariant: how the ages that the receive loops, the throttle and
\* the shared key hold (StreamHealthTracker, StreamHeartbeat) relate.
THEOREM ReceiverInvariant == Spec => []ReceiverInv
  <1>1. ReceiverInv /\ [Next]_vars => ReceiverInv'
    <2> SUFFICES ASSUME ReceiverInv, [Next]_vars PROVE ReceiverInv'
      OBVIOUS
    <2>1. CASE Tick
      BY <2>1, TickPreserves
    <2>2. CASE LoseHeartbeat
      BY <2>2 DEF LoseHeartbeat, ReceiverInv, TypeOK, SignInv, ThrottleInv, Throttled, WriterInv
    <2>3. ASSUME NEW s \in Shards,
                 \/ Start(s) \/ ReceiveFrame(s) \/ RecordAsync(s)
                 \/ Reconnect(s) \/ Stall(s) \/ Crash(s)
          PROVE  ReceiverInv'
      BY <2>3, StartPreserves, ReceivePreserves, RecordPreserves, SocketPreserves, CrashPreserves
    <2>4. CASE UNCHANGED vars
      BY <2>4 DEF vars, ReceiverInv, TypeOK, SignInv, ThrottleInv, Throttled, WriterInv
    <2> QED
      BY <2>1, <2>2, <2>3, <2>4 DEF Next
  <1> QED
    BY InitReceiver, <1>1, PTL DEF Spec

\* The receivers' variables keep their types: every clock is an age.
THEOREM ReceiverTypes == Spec => []TypeOK
  BY ReceiverInvariant, PTL DEF ReceiverInv

\* For any number of shards writing the one key in any order, a passing readiness
\* check means that some shard heard a message or started within the threshold.
THEOREM ReadinessIsJustified == Spec => []HealthyIsJustified
  <1>1. ReceiverInv => HealthyIsJustified
    BY ReceiverAssumption DEF ReceiverInv, TypeOK, SignInv, HealthyIsJustified, Healthy, Ages, Missing
  <1> QED
    BY ReceiverInvariant, <1>1, PTL

\* For any thresholds, the throttle of RecordAsync never makes the check fail
\* while every shard is up, idle, accepted by Redis and hearing messages.
THEOREM ThrottleCostsNoReadiness == Spec => []NoFalseAlarm
  <1>1. ReceiverInv => NoFalseAlarm
    <2> SUFFICES ASSUME ReceiverInv, heartbeat > ReconnectAfterSilence
                 PROVE  \E s \in Shards :
                          \/ pc[s] # "receive"
                          \/ failed[s]
                          \/ silence[s] + HeartbeatWriteInterval > ReconnectAfterSilence
      BY DEF NoFalseAlarm
    <2>1. heartbeat # Missing
      BY ReceiverAssumption DEF Missing
    <2>2. PICK s \in Shards : pc[s] = "down" \/ failed[s] = TRUE \/ heartbeat = written[s]
      BY <2>1 DEF ReceiverInv, WriterInv
    <2>3. CASE heartbeat = written[s] /\ pc[s] = "receive"
      <3>1. written[s] - silence[s] < HeartbeatWriteInterval
        BY <2>3 DEF ReceiverInv, ThrottleInv, Throttled
      <3>2. written[s] \in Nat /\ silence[s] \in Nat
        BY ReceiverAssumption DEF ReceiverInv, TypeOK, Ages
      <3>3. silence[s] + HeartbeatWriteInterval > ReconnectAfterSilence
        BY <3>1, <3>2, <2>3, ReceiverAssumption
      <3> QED
        BY <3>3
    <2>4. CASE pc[s] # "receive"
      BY <2>4
    <2>5. CASE failed[s] = TRUE
      BY <2>5
    <2> QED
      BY <2>2, <2>3, <2>4, <2>5
  <1> QED
    BY ReceiverInvariant, <1>1, PTL

=============================================================================
