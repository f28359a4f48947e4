------------------------------ MODULE SpscRing ------------------------------
(***************************************************************************)
(* The single-producer single-consumer ring of                             *)
(* src/src/runtime/spsc_ring.h, one action per access of a shared atomic   *)
(* and two for the write of a slot, which is not atomic.  tryPush and      *)
(* tryProduce are one protocol, and so are tryPop and tryConsume.          *)
(*                                                                         *)
(* An acquire load of the other side's index may return any value that     *)
(* index has had since the last one seen: the loads below choose.          *)
(* Indices are unbounded here (64 bits in the code); MaxItems bounds them. *)
(***************************************************************************)
EXTENDS Integers, Sequences

CONSTANTS Value, Torn, Capacity, MaxItems

RingSizeOK == Capacity \in Nat \ {0}

VARIABLES
    slots,       \* slots_: a value, or Torn while it is written
    tail,        \* tail_, written by the producer only
    cachedHead,  \* cachedHead_, the producer's copy of head_
    producing,   \* where the producer is in tryProduce
    item,        \* the value it pushes
    head,        \* head_, written by the consumer only
    cachedTail,  \* cachedTail_, the consumer's copy of tail_
    consuming,   \* where the consumer is in tryConsume
    sent,        \* every value published, in order (observer)
    received     \* every value read out of a slot, in order (observer)

producer == <<tail, cachedHead, producing, item, sent>>
consumer == <<head, cachedTail, consuming, received>>
vars == <<slots, producer, consumer>>

Slot(index) == index % Capacity

Init ==
    /\ slots = [s \in 0..(Capacity - 1) |-> Torn]
    /\ tail = 0 /\ cachedHead = 0 /\ producing = "idle" /\ item = Torn
    /\ head = 0 /\ cachedTail = 0 /\ consuming = "idle"
    /\ sent = <<>> /\ received = <<>>

-----------------------------------------------------------------------------
LooksFullLate(h) == tail - h > Capacity                              \* mutant
LooksFull(h) == tail - h >= Capacity

BeginProduce(v) ==
    /\ producing = "idle"
    /\ tail < MaxItems
    /\ item' = v
    /\ producing' = IF LooksFull(cachedHead) THEN "refresh" ELSE "fill"
    /\ UNCHANGED <<slots, tail, cachedHead, sent, consumer>>

(* The call returns false when the ring still looks full.                  *)
RefreshHead ==
    /\ producing = "refresh"
    /\ cachedHead' \in cachedHead..head
    /\ producing' = IF LooksFull(cachedHead') THEN "idle" ELSE "fill"
    /\ UNCHANGED <<slots, tail, item, sent, consumer>>

StartFill ==
    /\ producing = "fill"
    /\ slots' = [slots EXCEPT ![Slot(tail)] = Torn]
    /\ producing' = "filling"
    /\ UNCHANGED <<tail, cachedHead, item, sent, consumer>>

EndFill ==
    /\ producing = "filling"
    /\ slots' = [slots EXCEPT ![Slot(tail)] = item]
    /\ producing' = "publish"
    /\ UNCHANGED <<tail, cachedHead, item, sent, consumer>>

PublishEarly ==                                                      \* mutant
    /\ producing = "filling"
    /\ tail' = tail + 1
    /\ sent' = Append(sent, item)
    /\ producing' = "idle"
    /\ UNCHANGED <<slots, cachedHead, item, consumer>>

Publish ==
    /\ producing = "publish"
    /\ tail' = tail + 1
    /\ sent' = Append(sent, item)
    /\ producing' = "idle"
    /\ UNCHANGED <<slots, cachedHead, item, consumer>>

-----------------------------------------------------------------------------
LooksEmpty(t) == head = t

BeginConsume ==
    /\ consuming = "idle"
    /\ consuming' = IF LooksEmpty(cachedTail) THEN "refresh" ELSE "use"
    /\ UNCHANGED <<slots, producer, head, cachedTail, received>>

RefreshTail ==
    /\ consuming = "refresh"
    /\ cachedTail' \in cachedTail..tail
    /\ consuming' = IF LooksEmpty(cachedTail') THEN "idle" ELSE "use"
    /\ UNCHANGED <<slots, producer, head, received>>

(* consumerHasWork(), between two tries, refreshes the copy as well.       *)
HasWork ==
    /\ consuming = "idle"
    /\ LooksEmpty(cachedTail)
    /\ cachedTail' \in cachedTail..tail
    /\ UNCHANGED <<slots, producer, head, consuming, received>>

Use ==
    /\ consuming = "use"
    /\ received' = Append(received, slots[Slot(head)])
    /\ consuming' = "retire"
    /\ UNCHANGED <<slots, producer, head, cachedTail>>

Retire ==
    /\ consuming = "retire"
    /\ head' = head + 1
    /\ consuming' = "idle"
    /\ UNCHANGED <<slots, producer, cachedTail, received>>

Produce ==
    \/ \E v \in Value : BeginProduce(v)
    \/ RefreshHead \/ StartFill \/ EndFill \/ Publish
Consume == BeginConsume \/ RefreshTail \/ HasWork \/ Use \/ Retire

Next == Produce \/ Consume
Spec == Init /\ [][Next]_vars

-----------------------------------------------------------------------------
TypeOK ==
    /\ slots \in [0..(Capacity - 1) -> Value \cup {Torn}]
    /\ tail \in Nat /\ cachedHead \in Nat /\ head \in Nat /\ cachedTail \in Nat
    /\ producing \in {"idle", "refresh", "fill", "filling", "publish"}
    /\ consuming \in {"idle", "refresh", "use", "retire"}
    /\ item \in Value \cup {Torn}
    /\ sent \in Seq(Value)
    /\ received \in Seq(Value)

(* Stale copies of the other side's index never let a half-written or      *)
(* recycled slot be read: what the consumer has read is, element by        *)
(* element, what the producer published, nothing skipped, repeated or torn.*)
FirstInFirstOut ==
    /\ Len(received) <= Len(sent)
    /\ \A i \in 1..Len(received) : received[i] = sent[i]

(* While the consumer reads a slot in place (tryConsume) the producer does *)
(* not write it.                                                           *)
NoOverwriteWhileRead ==
    consuming = "use" /\ producing \in {"fill", "filling"} => Slot(tail) # Slot(head)

(* The ring as a queue: a value is put when its index is published and     *)
(* taken when its slot is handed back.                                     *)
queued == SubSeq(sent, head + 1, tail)
=============================================================================
