------------------------------- MODULE MCPool -------------------------------
(* Small instances of BackendPool and PoolPermits for TLC.                 *)
EXTENDS PoolPermits, TLC

CONSTANTS b1, b2

(* One backend, in the last of the shards.                                 *)
MCShardOf == b1 :> NumShards

(* Two backends, in the last and the first of the shards.                  *)
MCTwoShards == b1 :> NumShards @@ b2 :> 1

=============================================================================
