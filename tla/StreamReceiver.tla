-------------------------- MODULE StreamReceiver --------------------------
(***************************************************************************)
(* The receive loop of the consumers (Ingestion/Services/                  *)
(* EddnStreamReceiver.cs with StreamHealthTracker.cs and Eddn/             *)
(* EddnStream.cs), the heartbeat they share in Redis (Eddn/Storage/        *)
(* StreamHeartbeat.cs) and the readiness check that reads it               *)
(* (EddnStreamHealthCheck.cs).                                             *)
(*                                                                         *)
(* Time is discrete and every recorded time is kept as its age.  An age    *)
(* stops growing at MaxAge, which is beyond every threshold.               *)
(***************************************************************************)
EXTENDS Integers

CONSTANTS
  Shards,
  ReconnectAfterSilence,    \* 2 minutes by default
  HeartbeatWriteInterval,   \* 5 seconds
  MaxHandling,              \* how long the handlers and Redis may hold up one message
  MaxAge                    \* bound: ages are not told apart from here on

ASSUME ReceiverAssumption ==
  /\ ReconnectAfterSilence \in Nat
  /\ HeartbeatWriteInterval \in Nat \ {0}
  /\ MaxHandling \in Nat /\ MaxHandling <= ReconnectAfterSilence
  /\ MaxAge \in Nat
  /\ MaxAge > ReconnectAfterSilence /\ MaxAge >= MaxHandling + HeartbeatWriteInterval

VARIABLES
  pc,               \* each shard: in "receive", with a message to "handle", or "down"
  socket,           \* each shard's socket: "flowing", or "stalled" without an error
  silence,          \* age of StreamHealthTracker.LastMessageUtc
  sinceReconnect,   \* age of lastReconnect
  written,          \* age of the heartbeat writer's _lastWrittenTicks
  failed,           \* history: the shard's last heartbeat write was not accepted
  heartbeat,        \* age of the value of heartbeat:eddn, or Missing
  sinceSign         \* history: age of the last message or start of any shard

vars == <<pc, socket, silence, sinceReconnect, written, failed, heartbeat, sinceSign>>

Ages == 0 .. MaxAge
Missing == -1

TypeOK ==
  /\ pc \in [Shards -> {"receive", "handle", "down"}]
  /\ socket \in [Shards -> {"flowing", "stalled"}]
  /\ silence \in [Shards -> Ages]
  /\ sinceReconnect \in [Shards -> Ages]
  /\ written \in [Shards -> Ages]
  /\ failed \in [Shards -> BOOLEAN]
  /\ heartbeat \in Ages \cup {Missing}
  /\ sinceSign \in Ages

Init ==
  /\ pc = [s \in Shards |-> "down"]
  /\ socket = [s \in Shards |-> "stalled"]
  /\ silence = [s \in Shards |-> MaxAge]
  /\ sinceReconnect = [s \in Shards |-> MaxAge]
  /\ written = [s \in Shards |-> MaxAge]
  /\ failed = [s \in Shards |-> FALSE]
  /\ heartbeat = Missing
  /\ sinceSign = MaxAge

-----------------------------------------------------------------------------
(* The heartbeat. *)

\* Mutants of HeartbeatWritten: the time of the write, and the time a sender whose
\* clock is ahead put in the message.
HeartbeatNow(age) == heartbeat' = 0
HeartbeatOfSender(age) == heartbeat' = age - HeartbeatWriteInterval

\* StringSetAsync: the value is the time of the message, not of the write.
HeartbeatWritten(age) == heartbeat' = age

\* The write of RecordAsync: the throttle is advanced first, and stays so when
\* Redis does not accept the value.
WriteHeartbeat(s, age) ==
  /\ written' = [written EXCEPT ![s] = age]
  /\ \/ HeartbeatWritten(age) /\ failed' = [failed EXCEPT ![s] = FALSE]
     \/ UNCHANGED heartbeat /\ failed' = [failed EXCEPT ![s] = TRUE]

\* Mutant of Throttled: a refused write is the last.
ThrottledByFailure(s) == failed[s] \/ written[s] - silence[s] < HeartbeatWriteInterval

Throttled(s) == written[s] - silence[s] < HeartbeatWriteInterval

\* What follows a message: its handlers, when the shard owns it, whose failures
\* stay inside ProcessMessageAsync, and then the heartbeat in either case.
RecordAsync(s) ==
  /\ pc[s] = "handle"
  /\ pc' = [pc EXCEPT ![s] = "receive"]
  /\ IF Throttled(s) THEN UNCHANGED <<written, failed, heartbeat>>
                     ELSE WriteHeartbeat(s, silence[s])
  /\ UNCHANGED <<socket, silence, sinceReconnect, sinceSign>>

\* The key is evicted, or expires.
LoseHeartbeat ==
  /\ heartbeat # Missing
  /\ heartbeat' = Missing
  /\ UNCHANGED <<pc, socket, silence, sinceReconnect, written, failed, sinceSign>>

Healthy == heartbeat # Missing /\ heartbeat <= ReconnectAfterSilence

-----------------------------------------------------------------------------
(* The receive loop of a shard. *)

\* The process starts: the tracker and lastReconnect begin at the present, and
\* the heartbeat is written at once.
Start(s) ==
  /\ pc[s] = "down"
  /\ pc' = [pc EXCEPT ![s] = "receive"]
  /\ \E state \in {"flowing", "stalled"} : socket' = [socket EXCEPT ![s] = state]
  /\ silence' = [silence EXCEPT ![s] = 0]
  /\ sinceReconnect' = [sinceReconnect EXCEPT ![s] = 0]
  /\ sinceSign' = 0
  /\ WriteHeartbeat(s, 0)

\* Mutant of ReceiveFrame: no heartbeat for a message of another shard.
ReceiveOwnFrame(s) ==
  /\ pc[s] = "receive"
  /\ socket[s] = "flowing"
  /\ \E owns \in BOOLEAN : pc' = [pc EXCEPT ![s] = IF owns THEN "handle" ELSE "receive"]
  /\ silence' = [silence EXCEPT ![s] = 0]
  /\ sinceSign' = 0
  /\ UNCHANGED <<socket, sinceReconnect, written, failed, heartbeat>>

\* A frame, which counts as heard before it is known whose it is.
ReceiveFrame(s) ==
  /\ pc[s] = "receive"
  /\ socket[s] = "flowing"
  /\ pc' = [pc EXCEPT ![s] = "handle"]
  /\ silence' = [silence EXCEPT ![s] = 0]
  /\ sinceSign' = 0
  /\ UNCHANGED <<socket, sinceReconnect, written, failed, heartbeat>>

\* Mutant of ShouldReconnect: the silence is taken to start with the socket.
ShouldReconnectOnce(s) ==
  /\ silence[s] > ReconnectAfterSilence
  /\ sinceReconnect[s] >= silence[s] + 1

ShouldReconnect(s) ==
  /\ silence[s] > ReconnectAfterSilence
  /\ sinceReconnect[s] > ReconnectAfterSilence

\* Receive times out and the silence has lasted: a new socket, which need not
\* do better.  The silence goes on counting.
Reconnect(s) ==
  /\ pc[s] = "receive"
  /\ ShouldReconnect(s)
  /\ \E state \in {"flowing", "stalled"} : socket' = [socket EXCEPT ![s] = state]
  /\ sinceReconnect' = [sinceReconnect EXCEPT ![s] = 0]
  /\ UNCHANGED <<pc, silence, written, failed, heartbeat, sinceSign>>

\* The connection dies without an error, which only Receive could notice.
Stall(s) ==
  /\ pc[s] = "receive"
  /\ socket[s] = "flowing"
  /\ socket' = [socket EXCEPT ![s] = "stalled"]
  /\ UNCHANGED <<pc, silence, sinceReconnect, written, failed, heartbeat, sinceSign>>

\* The process ends, and its memory with it: it is killed, or a frame does not
\* decompress, which Receive does not catch and which stops the host.
Crash(s) ==
  /\ pc[s] # "down"
  /\ pc' = [pc EXCEPT ![s] = "down"]
  /\ socket' = [socket EXCEPT ![s] = "stalled"]
  /\ silence' = [silence EXCEPT ![s] = MaxAge]
  /\ sinceReconnect' = [sinceReconnect EXCEPT ![s] = MaxAge]
  /\ written' = [written EXCEPT ![s] = MaxAge]
  /\ failed' = [failed EXCEPT ![s] = FALSE]
  /\ UNCHANGED <<heartbeat, sinceSign>>

-----------------------------------------------------------------------------
Older(age) == IF age < MaxAge THEN age + 1 ELSE age

Tick ==
  /\ \A s \in Shards : pc[s] = "handle" => silence[s] < MaxHandling
  /\ silence' = [s \in Shards |-> Older(silence[s])]
  /\ sinceReconnect' = [s \in Shards |-> Older(sinceReconnect[s])]
  /\ written' = [s \in Shards |-> Older(written[s])]
  /\ heartbeat' = IF heartbeat = Missing THEN Missing ELSE Older(heartbeat)
  /\ sinceSign' = Older(sinceSign)
  /\ UNCHANGED <<pc, socket, failed>>

Next ==
  \/ Tick
  \/ LoseHeartbeat
  \/ \E s \in Shards :
       \/ Start(s) \/ ReceiveFrame(s) \/ RecordAsync(s)
       \/ Reconnect(s) \/ Stall(s) \/ Crash(s)

(***************************************************************************)
(* The loop of a running process goes on and a stopped one is started      *)
(* again by its container.  A shard that is listening does get frames, a   *)
(* new socket sooner or later works and Redis sooner or later accepts a    *)
(* write: the code retries these for ever, and rests on nothing else.      *)
(***************************************************************************)
Fairness ==
  /\ WF_vars(Tick)
  /\ \A s \in Shards :
       /\ WF_vars(RecordAsync(s))
       /\ WF_vars(Start(s))
       /\ SF_vars(ReceiveFrame(s))
       /\ SF_vars(Reconnect(s) /\ socket'[s] = "flowing")
       /\ SF_vars(RecordAsync(s) /\ heartbeat' = silence[s])

Spec == Init /\ [][Next]_vars /\ Fairness

-----------------------------------------------------------------------------
(***************************************************************************)
(* The readiness check never reports a stream that nobody hears: when it   *)
(* passes, some shard received a message, or started, within the silence   *)
(* threshold, however late and in whatever order the shards wrote the one  *)
(* key (StreamHeartbeat.RecordAsync, EddnStreamHealthCheck).               *)
(***************************************************************************)
HealthyIsJustified == Healthy => sinceSign <= ReconnectAfterSilence

(***************************************************************************)
(* The throttle costs no readiness: when the check finds the heartbeat too *)
(* old, some shard is down or busy with a message, had its last write      *)
(* refused, or has itself heard nothing for all but one write interval of  *)
(* the threshold (the throttle of StreamHeartbeat.RecordAsync, which is    *)
(* advanced even by a write that fails).                                   *)
(***************************************************************************)
NoFalseAlarm ==
  heartbeat > ReconnectAfterSilence =>
    \E s \in Shards :
      \/ pc[s] # "receive"
      \/ failed[s]
      \/ silence[s] + HeartbeatWriteInterval > ReconnectAfterSilence

(***************************************************************************)
(* A shard that stays up never stays on a dead socket: a stall raises no   *)
(* error, and the silence it causes leads to reconnecting until a socket   *)
(* delivers (EddnStreamReceiver.ShouldReconnect).                          *)
(***************************************************************************)
StreamRecovers ==
  \A s \in Shards : <>[](pc[s] # "down") => []<>(socket[s] = "flowing")

(***************************************************************************)
(* Readiness comes back: after an eviction of the key, a run of refused    *)
(* writes or a stall, a shard that stays up makes the check pass again     *)
(* (StreamHeartbeat.RecordAsync skips a write only until the next one).    *)
(***************************************************************************)
ReadinessReturns ==
  (\E s \in Shards : <>[](pc[s] # "down")) => []<>Healthy

=============================================================================
