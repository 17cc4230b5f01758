--------------------------- MODULE InstanceLease ---------------------------
(***************************************************************************)
(* The distributed lock of packages/worker/src/instance-lease.ts: one      *)
(* Redis key per instance, set with NX and a TTL, and one renewal timer    *)
(* per held key in the process of the holder.                              *)
(*                                                                         *)
(* Time is abstracted: a key whose holder renews it stays, and what may    *)
(* make it expire is for the module that uses the lease to say.  A Redis   *)
(* command and the continuation of the await on it are one step: the       *)
(* commands of a process share one connection, which keeps their order.    *)
(***************************************************************************)
CONSTANTS
    Workers,     \* process incarnations; each has its own random workerId
    Ids,         \* the instances a lease is taken for
    NoWorker     \* the value of a key that does not exist

ASSUME NoWorkerAssumption == NoWorker \notin Workers

VARIABLES
    leaseKey,    \* leaseKey[id]: the workerId stored under lease:instance:<id>
    renewTimers  \* renewTimers[w]: the ids the process w renews

leaseVars == <<leaseKey, renewTimers>>

LeaseTypeOK ==
    /\ leaseKey \in [Ids -> Workers \cup {NoWorker}]
    /\ renewTimers \in [Workers -> SUBSET Ids]

LeaseInit ==
    /\ leaseKey = [id \in Ids |-> NoWorker]
    /\ renewTimers = [w \in Workers |-> {}]

(* Mutant of Acquire: SET without NX, which takes over a key that is held. *)
AcquireWithoutNX(w, id) ==
    /\ leaseKey' = [leaseKey EXCEPT ![id] = w]
    /\ renewTimers' = [renewTimers EXCEPT ![w] = @ \cup {id}]

(* SET key workerId EX ttl NX answered OK, and the timer started. *)
Acquire(w, id) ==
    /\ leaseKey[id] = NoWorker
    /\ leaseKey' = [leaseKey EXCEPT ![id] = w]
    /\ renewTimers' = [renewTimers EXCEPT ![w] = @ \cup {id}]

(* SET ... NX answered nil: the key exists, whoever holds it. *)
AcquireRefused(id) ==
    /\ leaseKey[id] # NoWorker
    /\ UNCHANGED leaseVars

(* The command rejected.  It may have reached Redis all the same, and then *)
(* the key is set but no timer renews it.                                  *)
AcquireRejected(w, id) ==
    /\ \/ UNCHANGED leaseKey
       \/ /\ leaseKey[id] = NoWorker
          /\ leaseKey' = [leaseKey EXCEPT ![id] = w]
    /\ UNCHANGED renewTimers

(* The timer is dropped first; the script deletes the key only if it still *)
(* carries this workerId.                                                  *)
Release(w, id) ==
    /\ renewTimers' = [renewTimers EXCEPT ![w] = @ \ {id}]
    /\ leaseKey' = [leaseKey EXCEPT ![id] = IF @ = w THEN NoWorker ELSE @]

(* The release script rejected: the timer is gone, the key runs out. *)
ReleaseRejected(w, id) ==
    /\ renewTimers' = [renewTimers EXCEPT ![w] = @ \ {id}]
    /\ UNCHANGED leaseKey

(* A renewal that finds another value under the key stops its own timer;   *)
(* nobody else is told.  (One that finds its own value changes nothing     *)
(* here: the TTL is not part of the state.)                                *)
RenewFindsLost(w, id) ==
    /\ id \in renewTimers[w]
    /\ leaseKey[id] # w
    /\ renewTimers' = [renewTimers EXCEPT ![w] = @ \ {id}]
    /\ UNCHANGED leaseKey

(* The TTL ran out and Redis dropped the key. *)
KeyExpires(id) ==
    /\ leaseKey[id] # NoWorker
    /\ leaseKey' = [leaseKey EXCEPT ![id] = NoWorker]
    /\ UNCHANGED renewTimers

(* lease.shutdown(): every timer cleared, no key deleted. *)
ClearTimers(w) ==
    /\ renewTimers' = [renewTimers EXCEPT ![w] = {}]
    /\ UNCHANGED leaseKey
=============================================================================
