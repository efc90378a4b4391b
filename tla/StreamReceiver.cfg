SPECIFICATION Spec
CONSTANTS
  s1 = s1
  s2 = s2
  Shards <- MCShards
  ReconnectAfterSilence = 2
  HeartbeatWriteInterval = 2
  MaxHandling = 1
  MaxAge = 3
INVARIANTS TypeOK HealthyIsJustified NoFalseAlarm
PROPERTIES StreamRecovers ReadinessReturns
