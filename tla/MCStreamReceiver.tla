------------------------- MODULE MCStreamReceiver -------------------------
(* Two shards that share the heartbeat, a silence threshold and a write    *)
(* interval of two ticks, and messages that may be held up for one tick.   *)
EXTENDS StreamReceiver

CONSTANTS s1, s2

MCShards == {s1, s2}
=============================================================================
