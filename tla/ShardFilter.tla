----------------------------- MODULE ShardFilter -----------------------------
(***************************************************************************)
(* MessageShardFilter: which consumers handle a message of the feed. Every *)
(* consumer receives every message, hashes its body with StableHash, which *)
(* is the same function in every process, and keeps the message when the   *)
(* hash falls in its slice. A message is abstracted to its hash.           *)
(***************************************************************************)
EXTENDS Integers

\* The constructor throws outside this range; the process then does not start.
ValidShard(shardIndex, shardCount) ==
    /\ shardCount >= 1
    /\ shardIndex >= 0
    /\ shardIndex < shardCount

Owns(hash, shardIndex, shardCount) ==
    shardCount = 1 \/ hash % shardCount = shardIndex

=============================================================================
