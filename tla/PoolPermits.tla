---------------------------- MODULE PoolPermits ----------------------------
(***************************************************************************)
(* BackendPool with users of its concurrency permits (acquire_permit and   *)
(* try_acquire_permit of src/backend/mod.rs).  A task that has got a       *)
(* permit asks for the entry's write lock, to count the request, while it  *)
(* holds the entry's read guard itself: it is counting for ever, and no    *)
(* step follows.  active_requests therefore stays 0, and release_permit,   *)
(* which decrements it when it is not, changes nothing.                    *)
(***************************************************************************)
EXTENDS BackendPool

(* A user of the pool asks for a permit, one way or the other.             *)
Ask(t) ==
  /\ Cardinality(running) < Workers
  /\ running' = running \cup {t}
  /\ Goto(t, "idle", "trying") \/ Goto(t, "idle", "acquiring")
  /\ \E b \in Backends : target' = [target EXCEPT ![t] = b]
  /\ UNCHANGED <<at, left, latency, metrics, health, permits>>

(* try_acquire_permit: with a permit it goes on to count the request, for  *)
(* which it needs the write lock.                                          *)
TryAcquire(t) ==
  /\ MayRead(ShardOf[target[t]])
  /\ \/ /\ Runs(t)
        /\ permits[target[t]] > 0
        /\ Goto(t, "trying", "counting")
        /\ permits' = [permits EXCEPT ![target[t]] = @ - 1]
     \/ /\ Suspends(t)
        /\ permits[target[t]] = 0
        /\ Goto(t, "trying", "idle")
        /\ UNCHANGED permits
  /\ UNCHANGED <<at, left, target, latency, metrics, health>>

(* acquire_permit waits for a permit with the read guard held.             *)
Acquire(t) ==
  /\ MayRead(ShardOf[target[t]])
  /\ \/ /\ Runs(t)
        /\ permits[target[t]] > 0
        /\ Goto(t, "acquiring", "counting")
        /\ permits' = [permits EXCEPT ![target[t]] = @ - 1]
     \/ /\ Suspends(t)
        /\ permits[target[t]] = 0
        /\ Goto(t, "acquiring", "awaiting_permit")
        /\ UNCHANGED permits
  /\ UNCHANGED <<at, left, target, latency, metrics, health>>

AskerStep(t) == TryAcquire(t) \/ Acquire(t)

PNext == Next \/ \E t \in Askers : Ask(t) \/ AskerStep(t)

PSpec == Init /\ [][PNext]_vars

(* The tasks of the server are scheduled as before, and so are the others. *)
PFairSpec == PSpec /\ Fairness /\ \A t \in Askers : SF_vars(AskerStep(t))

-----------------------------------------------------------------------------
(* try_acquire_permit answers without waiting (mod.rs:128: "Try to acquire *)
(* a concurrency permit without waiting.").                                *)
TryAnswers ==
  \A t \in Askers : (pc[t] = "trying") ~> (pc[t] = "idle")

=============================================================================
