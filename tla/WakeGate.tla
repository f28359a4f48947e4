------------------------------ MODULE WakeGate ------------------------------
(***************************************************************************)
(* The event count of src/src/runtime/wake_gate.h between the producers of *)
(* some rings and their one consumer, one action per read-modify-write,    *)
(* load, lock and wait.                                                    *)
(*                                                                         *)
(* A producer's ring is the number of items it has published; the consumer *)
(* sees at least those that some release it acquired made visible (seen),  *)
(* and may see any later number.  The epoch is abstracted to whether a     *)
(* producer moved it since the consumer registered; a load of it may be    *)
(* stale, and after 2^32 notifications equal again, so the consumer may    *)
(* miss that it moved.                                                     *)
(***************************************************************************)
EXTENDS Integers

CONSTANTS Producer, MaxItems

VARIABLES
    published,   \* items each producer has put in its ring
    announced,   \* items it had published at its last notify
    notifying,   \* where each producer is in publish + notify()
    consumed,    \* items the consumer has taken from each ring
    seen,        \* items it is sure to see
    consuming,   \* where the consumer is in its loop and in waitUntil()
    waiters,     \* the waiter count in state_
    moved,       \* the epoch in state_ has moved since the registration
    mutex,       \* the consumer holds mu_
    mutexKnows   \* announcements ordered before the last unlock of mu_

rings == <<published, announced>>
gate == <<waiters, moved, mutex, mutexKnows>>
view == <<consumed, seen>>
vars == <<rings, notifying, view, consuming, gate>>

Zero == [p \in Producer |-> 0]
Later(a, b) == [p \in Producer |-> IF a[p] >= b[p] THEN a[p] ELSE b[p]]

Init ==
    /\ published = Zero /\ announced = Zero
    /\ notifying = [p \in Producer |-> "idle"]
    /\ consumed = Zero /\ seen = Zero
    /\ consuming = "poll"
    /\ waiters = 0 /\ moved = FALSE /\ mutex = FALSE /\ mutexKnows = Zero

-----------------------------------------------------------------------------
(* The release store of the ring.                                          *)
Publish(p) ==
    /\ notifying[p] = "idle"
    /\ published[p] < MaxItems
    /\ published' = [published EXCEPT ![p] = @ + 1]
    /\ notifying' = [notifying EXCEPT ![p] = "bump"]
    /\ UNCHANGED <<announced, view, consuming, gate>>

(* notify(): the epoch moves; the mutex is taken only if someone waits.    *)
Bump(p) ==
    /\ notifying[p] = "bump"
    /\ announced' = [announced EXCEPT ![p] = published[p]]
    /\ moved' = TRUE
    /\ notifying' = [notifying EXCEPT ![p] = IF waiters = 0 THEN "idle" ELSE "wake"]
    /\ UNCHANGED <<published, view, consuming, waiters, mutex, mutexKnows>>

NotifyAll(p) ==
    /\ notifying[p] = "wake"
    /\ consuming' = IF consuming = "asleep" THEN "lock" ELSE consuming
    /\ notifying' = [notifying EXCEPT ![p] = "idle"]
    /\ mutexKnows' = [mutexKnows EXCEPT ![p] = announced[p]]
    /\ UNCHANGED <<rings, view, waiters, moved, mutex>>

WakeUnlocked(p) == NotifyAll(p)                                      \* mutant

Wake(p) == ~mutex /\ NotifyAll(p)

-----------------------------------------------------------------------------
(* The consumer's reads of the rings: any number from seen on.             *)
FoundWork(reads) == \E p \in Producer : reads[p] > consumed[p]
Read(reads) ==
    /\ \A p \in Producer : reads[p] \in seen[p]..published[p]
    /\ seen' = reads

Consume(p) ==
    /\ consuming = "poll"
    /\ consumed[p] < published[p]
    /\ consumed' = [consumed EXCEPT ![p] = @ + 1]
    /\ seen' = [seen EXCEPT ![p] = IF @ > consumed[p] THEN @ ELSE consumed[p] + 1]
    /\ UNCHANGED <<rings, notifying, consuming, gate>>

RegisterLate ==                                                      \* mutant
    /\ consuming = "poll"
    /\ \A p \in Producer : seen[p] <= consumed[p]
    /\ moved' = FALSE
    /\ consuming' = "recheck"
    /\ UNCHANGED <<rings, notifying, view, waiters, mutex, mutexKnows>>

(* A poll that found nothing is followed by waitUntil(): the registration  *)
(* reads the latest state_, and with it every announcement so far.         *)
Register ==
    /\ consuming = "poll"
    /\ \A p \in Producer : seen[p] <= consumed[p]
    /\ waiters' = waiters + 1
    /\ moved' = FALSE
    /\ seen' = Later(seen, announced)
    /\ consuming' = "recheck"
    /\ UNCHANGED <<rings, notifying, consumed, mutex, mutexKnows>>

Recheck ==
    /\ consuming = "recheck"
    /\ \E reads \in [Producer -> 0..MaxItems] :
         /\ Read(reads)
         /\ consuming' = IF FoundWork(reads) THEN "deregister" ELSE "lock"
    /\ UNCHANGED <<rings, notifying, consumed, gate>>

Lock ==
    /\ consuming = "lock"
    /\ mutex' = TRUE
    /\ seen' = Later(seen, mutexKnows)
    /\ consuming' = "epoch"
    /\ UNCHANGED <<rings, notifying, consumed, waiters, moved, mutexKnows>>

(* The predicate of the wait: first the epoch, then the rings.             *)
EpochMoved ==
    /\ consuming = "epoch"
    /\ moved
    /\ mutex' = FALSE
    /\ consuming' = "deregister"
    /\ UNCHANGED <<rings, notifying, view, waiters, moved, mutexKnows>>

EpochSame ==
    /\ consuming = "epoch"
    /\ consuming' = "work"
    /\ UNCHANGED <<rings, notifying, view, gate>>

Sleep ==
    /\ consuming = "work"
    /\ \E reads \in [Producer -> 0..MaxItems] :
         /\ Read(reads)
         /\ consuming' = IF FoundWork(reads) THEN "deregister" ELSE "asleep"
    /\ mutex' = FALSE
    /\ UNCHANGED <<rings, notifying, consumed, waiters, moved, mutexKnows>>

(* The condition variable may wake without a notification, and the wait    *)
(* ends at its deadline.                                                   *)
SpuriousWake ==
    /\ consuming = "asleep"
    /\ consuming' = "lock"
    /\ UNCHANGED <<rings, notifying, view, gate>>

Timeout ==
    /\ consuming = "asleep"
    /\ consuming' = "deregister"
    /\ UNCHANGED <<rings, notifying, view, gate>>

Deregister ==
    /\ consuming = "deregister"
    /\ waiters' = waiters - 1
    /\ consuming' = "poll"
    /\ UNCHANGED <<rings, notifying, view, moved, mutex, mutexKnows>>

Wait == Register \/ Recheck \/ Lock \/ EpochMoved \/ EpochSame \/ Sleep \/ Deregister
Next ==
    \/ \E p \in Producer : Publish(p) \/ Bump(p) \/ Wake(p) \/ Consume(p)
    \/ Wait \/ SpuriousWake \/ Timeout
Spec == Init /\ [][Next]_vars

(* Threads run, and one that waits for a mutex gets it if it is free again *)
(* and again; neither a timeout nor a spurious wake-up is counted on.      *)
Fairness ==
    /\ WF_vars(Wait)
    /\ \A p \in Producer : WF_vars(Bump(p)) /\ SF_vars(Wake(p)) /\ WF_vars(Consume(p))

-----------------------------------------------------------------------------
TypeOK ==
    /\ published \in [Producer -> Nat] /\ announced \in [Producer -> Nat]
    /\ consumed \in [Producer -> Nat] /\ seen \in [Producer -> Nat]
    /\ mutexKnows \in [Producer -> Nat]
    /\ notifying \in [Producer -> {"idle", "bump", "wake"}]
    /\ consuming \in {"poll", "recheck", "lock", "epoch", "work", "asleep", "deregister"}
    /\ waiters \in 0..1 /\ moved \in BOOLEAN /\ mutex \in BOOLEAN

(* No wake-up is lost: while the consumer sleeps, an item it has not taken *)
(* belongs to a producer that is still inside notify() and will wake it.   *)
NoLostWakeup ==
    consuming = "asleep" =>
      \A p \in Producer : published[p] > consumed[p] => notifying[p] # "idle"

(* Every published item is consumed although no wait ever times out.       *)
EveryItemConsumed ==
    \A p \in Producer : \A n \in 1..MaxItems : published[p] >= n ~> consumed[p] >= n
=============================================================================
